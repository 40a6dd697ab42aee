# NEXUS: a TLA+ model of the Channel Portal and its services

This directory holds TLA+ modules that model parts of this repository, the TLC
configurations that check them on small instances, and theorems about them that
TLAPS proves for instances of every size. It covers the parts where a mistake costs a
customer or an operator something: **Kredit**, the prepaid balance of the Channel
Portal, and the paid Generate order; the **sites** the Channel Starter wizard builds,
who owns them and where their traffic goes; the **Job Cowork** of NEX-RED with its
verdicts; and the **pages** on which customers and operators act on answers that come
late, lost or out of order: the order page, the Kredit panel, the gate, and the
operator's desk. What is left out is listed, with the reason, in section 7.

`PROJECT.json` is the index: components, runs, mutants, the source lines of every
definition, findings, hazards and theorems.

## 1. Inventory of the system

The repository is a lab product in three layers: a portal where customers buy a
web site with Kredit, services that build, publish and measure those sites, and a
Go gateway (WAF) in front of them, with a dashboard for its operator.

| Component | Source | State it keeps | Operations | Status |
|---|---|---|---|---|
| Kredit ledger | `nexus-gaas-web/src/lib/kredit-ledger.ts`, `kredit.ts` | one JSON file per wallet: balance, entries | faucet, approve top-up, debit, refund, note slug, migrate guest | modelled |
| Top-up requests | `lib/kredit-topup.ts` | `kredit-topups.json`, proof files | create, proof, mail result, cancel, approve, migrate | partly |
| Sessions and accounts | `lib/portal-identity.ts`, `api/auth/*` | `portal-identities.json` | guest, register, login, logout | partly |
| Generate order | `api/channel-starter/generate/route.ts`, `lib/mutex.ts` | the request in flight | debit, call wizard, note slug, refund | modelled |
| Kredit routes | `api/kredit/*` | the identity a request captured | look up, then act | modelled |
| Portal site routes and ownership | `lib/portal-site-owner.ts`, `channel-starter-owned.ts`, `api/channel-starter/*` | none of its own | claim, attach, reassign, publish, upsell by HTTP | modelled |
| Portal pages and text helper | `components/StarterCheckout.tsx`, `KreditPanel.tsx`, `GateForm.tsx`, `MySitesPanel.tsx`, `NavbarSession.tsx`, `hooks/useKreditSession.ts`, `middleware.ts`, `lib/local-llm-fill.ts` | React state; the browser's cookie | fill, edit, preview, pay, publish, start again; sign in and out, open, redirect | partly |
| Channel Starter wizard | `nexus-core/channel-starter` | a manifest per site, host map, registry | generate, claim, reassign, publish, enable and disable upsell | partly |
| NEX-RED Job Cowork | `nexus-core/NEX-RED/jobs`, `bridge/gateway_bridge.py` | a job file, a scan file, schedules, immune memory | open, measure, approve, reject, tick, sync | partly |
| Gateway job store | `nexus-core-gateway/internal/database/jobs.go` | mirrored jobs, step logs, approvals | upsert, approve | partly |
| Admin dashboard, CLI, deployment | `nexus-core/nexus-admin-dashboard`, `nexus-cli` | React state of the desk | switch workspace, poll, acknowledge, purge, onboard, ban | partly |
| Portal rate limit | `lib/rate-limit.ts` | a window of times per client | allow | not modelled |
| NEX-RED scan pipeline and agents | `nexus-core/NEX-RED/agents`, `core` | none that lasts | scan | not modelled |
| Golden GET cache | `internal/proxy/golden_get.go` | snapshots with two deadlines | lookup, store, evict, purge | not modelled |
| Dynamic router, grace worker | `internal/proxy/dynamic_router.go`, `grace_worker.go` | a cache per node, Redis, the database | lookup, add, remove, sync, tear down | not modelled |
| Immunity sync | `internal/proxy/proxy_core.go` | patches and their count, Redis set and channel | add, poll, receive, reset | not modelled |
| Moving target defense | `internal/mtd/*` | current port; a token bucket per client | rotate, panic shuffle, allow, janitor | not modelled |
| Self-repair monitor | `internal/repair` | pinned snapshot, the tree | scan and restore, purge | not modelled |
| Gateway AI, reflex filter, inspection; licensing, compliance, feeds, honeypot, RASP, eBPF; NEX-AI | `nexus-core-gateway/internal/*`, `nexus-ai` | counters, models | inspect, sign, export, train | not modelled |

### How the parts interact

* Every portal handler that touches a file runs its section under `withLock`
  (`lib/mutex.ts`): one FIFO chain of promises for the whole Node process. A route is
  *several* sections: `lookupIdentity` first, then one or more sections on the
  wallet it found. Between them any other request may run.
* Generate debits the wallet, calls the wizard over HTTP (this may take minutes),
  and then notes the slug or refunds, on the ledger path captured at the start.
* `registerAccount` creates the account, copies the guest's ledger to it, moves the
  guest's top-ups, unlinks the guest's ledger and writes the identity store, in one
  section but in four writes to three files.
* `approveTopupRequest` writes a ledger and then the top-up store.
* Register and login then ask the wizard to reassign the guest's sites.
* The wizard's routes are partly `async def` (one at a time, on the event loop) and
  partly `def` (in a thread pool, in parallel); all of them read, change and write
  manifest files without a lock. Upsell opens a job at the NEX-RED bridge and
  writes the host map the gateway reads at start.
* NEX-RED jobs are JSON files written by threads of a bridge, and mirrored to the
  gateway by POSTs whose failure is ignored.
* The portal's pages and the operator's desk send requests and go on; an answer is
  applied to whatever the page has become when it arrives. The tabs of a browser share
  one cookie, which answers of any tab may replace.

### What is hard, and what correctness means

| Component | Hard behaviour | Properties that make it correct |
|---|---|---|
| Kredit | stale captured wallet, crash between two files, two refund arms, concurrent spending | balance explained by entries; nothing credited, debited or refunded twice; an approved credit stays with the request's wallet; no credit spendable by two identities |
| Top-ups | customer, operator and crash in any order | at most one open request per wallet; settled is final; approved is credited; cancelled is not |
| Accounts | registration racing with itself and with other requests; tabs that sign in and out over one another | ids never reused; Kredit moves with the guest; the cookie names a live session |
| Generate | silent wizard, lost answer, failing slug note | delivered is paid; failed is refunded; always answered |
| Starter sites | read, wait for minutes, save | the maker's ownership is never lost; an upsell nobody writes into leaves host map and Caddy right |
| Order page | texts, payments and publishes that overtake edits and resets | one charge per form, nothing typed overwritten and what is said of an order true, with the exceptions section 4 names |
| Kredit panel | snapshots read in two steps, applied in any order | the shown Kredit is the wallet's |
| Job Cowork | load, scan for minutes, save; double approval; torn files; lost mirror; failure between save and post | a verdict is earned by its scan; the history keeps its newest outcomes and doubles none; the mirror is never ahead |
| Operator's desk | three timers, answers of workspaces left behind, confirmations before a wait | telemetry of the chosen workspace only; threats alarmed; only confirmed hosts purged; lists catch up |

`PROJECT.json` lists the hazards one by one, each at its line.

## 2. The plan

Done, in this order: **Kredit** (`KreditLedger`, `KreditPortal`, `TopupPromise`, `OrderPromise`),
**StarterSites**, **JobCowork** with the gateway's copy of a job, the pages **OrderPage**
and **KreditSession**, the desk **SocDesk**, and **PortalGate**, with the proof modules of
section 6.

Left, by what it would add:

1. **Proof files of a top-up** (`kredit-topup.ts:236-340, 476-539`): file replaced before
   the record is written, mail result recorded after the SMTP round trip. They decide
   nothing about Kredit, so they come after everything that does.
2. **Schedules** (`jobs/scheduler.py`): a tick that runs whole jobs between reading and
   writing the list of schedules.
3. **DynamicRouter** (several nodes, Redis, database), **GoldenCache**, **ImmunitySync**.
4. One model of `StarterSites` composed with `KreditPortal` (today a registration is a step
   of each, and what it does to sites and to Kredit is never seen together).

No module that is proved about declares a RECURSIVE operator.

## 3. The modules

| Module | What it is |
|---|---|
| `KreditLedger` | one ledger file as pure operators, named after the functions of `kredit-ledger.ts`; `Chained`, `Unrepeated` and `Backed` say what a ledger owes its owner |
| `KreditPortal` | the state machine: sessions, accounts, all ledgers, the top-up store, request handlers, the wizard, crashes |
| `TopupPromise` | abstract top-up desk: ask, cancel, approve-and-credit in one step; `KreditPortal` instantiates it |
| `OrderPromise` | abstract paid order: paid once, then delivered, refunded or left as it is; `KreditPortal` and `OrderPage` both implement it |
| `StarterSites` | the wizard's handlers, the manifest files, the two routing files, and the requests of the portal and the operator |
| `UpsellRouting` | `StarterSites` with the history that says when an upsell has put the routing files right |
| `JobCowork` | the job's files, the threads of the bridge, the immune memory, the posts and the gateway's rows |
| `OrderPage` | the Starter order page, its text helper and its orders at the portal |
| `KreditSession` | the Kredit a page shows, against the wallet |
| `PortalGate` | the tabs of one browser, their shared cookie, the session store, middleware, gate and list of own sites |
| `SocDesk` | the operator's desk, its timers and requests, over the gateway's control plane |
| `MC...` | for TLC: symmetry sets, the scans of the Job Cowork's instance |
| `KreditPortalProofs` | which ledger operation preserves what; the portal's inductive invariant and theorems |
| `KreditPromiseProofs` | what becomes of an order, and the refinements of `OrderPromise` and `TopupPromise` |
| `KreditSessionProofs`, `StarterSitesProofs`, `JobCoworkProofs`, `OrderPageProofs`, `PortalGateProofs`, `SocDeskProofs` | inductive invariants and theorems of these components |

The modules meet at these points. The wizard of `KreditPortal` is `GenerateSite` and
`GenerateRejected` of `StarterSites` seen from the portal. Registration appears three
times: in `KreditPortal` for what it does to Kredit, in `StarterSites` for what it does to
sites, in `PortalGate` for what it does to the browser's cookie. The orders of
`OrderPage` are Generate orders seen from the page: charged, built, refunded or stuck, with
`KreditPortal` behind them: that both are the same order is what `OrderPromise` says of each.
Its Kredit panel is `KreditSession`. `SocDesk` sees approvals
of the Job Cowork only as requests of the operator that are not its own.

### State of KreditPortal

| Variable | Code |
|---|---|
| `sessions`, `accounts`, `former` | `portal-identities.json`: sessions, accounts, `formerGuestIds` |
| `issued` | the UUIDs handed out so far (`randomUUID` never repeats) |
| `ledgers` | `kredit-guest-<id>.json` and `kredit-account-<id>.json`; a missing file is `emptyLedger` |
| `topups` | `kredit-topups.json` |
| `req` | where each request handler is, and the wallet it captured |
| `site` | what the wizard did with an order |
| `crashes` | how often the process died |

A wallet is the id of its guest or account: `walletId`, `kind`, `identityId` and the
file name are functions of it. Amounts, ids and balances are kept; time stamps,
notes (but for the slug), formatting and passwords are not.

### Actions of KreditPortal

A `withLock` section is one action. A route is a `Lookup` followed by the action of
its second section (`Faucet`, `CreateTopup`, `SubmitProof`, `CancelTopup`, `Debit`,
or `Refuse` for an answer that changes nothing), so all requests of all customers
interleave between sections exactly where the code lets them. Generate goes on
from `Debit` through `AnswerOk`, `AnswerError` or `AnswerLost` to `Remember`,
`RememberThrows`, `Refund` and `ErrorBody`, one action per await. The wizard
(`WizardBuilds`, `WizardGivesUp`) runs on its own and may stay silent.

Crashes: every file is replaced by rename, so a crash falls between writes.
`Crash` loses the requests in flight; `ApproveCrash` and `RegisterCrash` cut the two
sections that write several files after each of their writes.

### What KreditPortal assumes

* One Node process. `withLock` is a promise chain in memory, and the file names are
  shared, so two processes would have no lock at all.
* Files can be read and written, except that the slug note may throw
  (`RememberThrows`) and the `unlinkSync` of a migrated guest's ledger may throw: the
  code ignores that and goes on with two files that hold one balance, and so does
  `RegisterGuest`.
* The hash of a password is computed before the section that checks the e-mail and
  stores the account, so its await is not a step: nothing it reads is used after it.
* Random ids do not collide. The 8-digit top-up ids are taken as unique too.
* The lab faucet is on. With it off, `Faucet` is never enabled.
* The wizard's internals: it builds the site, rejects the form, or does not answer. It
  also answers 400 when the site is written and its deployment raises, hence
  `AnswerError` after `"built"`.

### State of StarterSites

| Variable | Code |
|---|---|
| `file` | `sites/<slug>/manifest.json`: absent, unreadable, or its owner and whether the upsell is active |
| `hosts` | `nexus-host-map.json`, without the portfolio entry that is always there |
| `routed` | the hosts that the Caddy aggregate sends to the gateway instead of to files |
| `call` | the wizard's handlers: which route, where in it, for whom, and the manifest object it holds |
| `registered` | customers with an account; an account's `formerGuestIds` holds the guest it was |
| `maker`, `told` | history: whose Generate made a folder, and which customers a saved Generate or claim gave it to |
| `crashes` | deaths of the wizard process |

A customer is a guest identity and the account it may become. A manifest is reduced to
`portal_owner_*` and `gaas_status`; `vercel_url`, `site_id`, the page's text and the
upsell's job and schedule ids are left out. So are the files that only inform an
operator: the GaaS registry, the hosts registry, the Caddy snippet per site and the
environment file.

### Actions of StarterSites

The wizard has no lock. What orders its steps is the process: `async def` routes
(`/generate`, `/sites/claim`, `/sites/reassign`, `/sites/owned`) run on the event
loop and do not await after they have parsed their body, so one of them runs at a time,
to its end (`LoopFree`); `def` routes (`/publish`, `/sites/{slug}`, `/upsell`)
run in a thread pool, in parallel with each other and with the loop. A step of a
handler is therefore what it does between two accesses to a shared file:

* a read of a manifest (`GenerateSite`, `ClaimSite`, `ListGuestSites`,
  `ReassignNext`, `ReadToDeploy`, `ReadToUpsell`), after which the handler holds a copy;
* the wait for the Vercel CLI or the bridge (`VercelAnswers`, and the gap between
  `ReadToUpsell` and its save);
* `save_manifest` in two steps, because `Path.write_text` truncates before it writes
  (`SaveBegins`, `SaveEnds`): a reader in between finds no manifest, a death in between
  leaves none, and two writers at once may leave a file that is not JSON;
* a listing of all manifests and the write of a routing file from it, two steps each
  (`ListHosts`, `WriteHostMap`; `ListRouting`, `WriteRouting`), and the two choices
  of disable (`CountRemaining`, `ResetHostMap`).

`GenerateSite` creates the folder, and `allocate_unique_slug` is in `Allocate`. A Generate
saves up to three times: by `generate_site`, by `publish_site` and again by
`deploy_manifest`. `Ask...` are requests under way: a request carries the identity its
portal route looked up, may wait while anything else happens, and may be lost with the
process (`WizardDies`). `AskPublish` includes the ownership check that the portal's
publish route makes with a request of its own before the one that publishes.

### What StarterSites assumes

* One wizard process. The CLI (`cli.py`) runs the same functions in a process of its own:
  its publishes and upsells are further threads of the kind that is modelled, but a
  Generate of the CLI beside one of the wizard, which no loop would order, is not.
* A customer logs in to the account it registered, or to none. The portal allows logging
  in to another account, which then simply does not see the guest's sites.
* The routing files are written whole: truncation is modelled for manifests only. A
  manifest that two writers garbled stays unreadable until the next save.
* The operator's attach sends no `extraOwnerIds`, and the portal's automatic claims are
  limited to slugs noted on the ledger; both are cases of `AskClaim`.
* The demo slug, which no customer can get, is not among the slugs.

### UpsellRouting

| Variable | Code |
|---|---|
| those of `StarterSites` | |
| `alone` | history: upsells past the save of their manifest, into which nobody else has written since |
| `mended` | history: the last to change upsells, host map or Caddy aggregate was such an upsell, and it has ended |

"Written into" is read off the values: another handler (or its save of a manifest) changed which
upsells are active, the host map or the aggregate (`routing`). The steps are those of
`StarterSites`; `Follow(t)` only adds the history to the step of handler `t`.

### JobCowork

| Variable | Code |
|---|---|
| `jobFile`, `scanFile` | `<job>.json`, `<job>_scan.json` (`jobs/store.py`), written in place: a crash leaves them torn |
| `memory` | `immune_memory.json`: its host's history, newest first and cut to `Keep` entries (30 in the code), and whether the file is torn |
| `worker` | the threads of the bridge, with the copies they hold, and with the post of a job that is saved and not posted yet |
| `wire`, `mirror` | posts to the gateway under way, and the row the gateway keeps |
| `left` | what the bounds leave |
| `saved`, `passed`, `holders`, `outcomes`, `raced`, `lapse` | history: statuses a file ever had, approvals that passed the gate, threads that held a copy when a job was closed, every outcome ever recorded, overlapping updates of the memory, jobs whose last change was not, or not safely, posted |

`run_measurement` is `LoadToMeasure`, `ScanEnds` or `ScanRaises`, and `SaveMeasured`; `approve` is `Gate`,
`SaveRefused` or `Close` (with `ResolveClosure`, which is `closure.py` rule by rule),
`RecallMemory`, `RememberOutcome`, `SaveVerdict`. No lock is held between them. A save and the post
that follows it are two steps: `SaveToPost` leaves the message with the thread, `SyncJob` sends
it. Between the two `approve` reads its artifact files back, and `ApproveRaises` is that
read, the scan's or the export's raising: the request ends, and a message not sent yet is gone. The
thread goes on as soon as the post is sent, since its answer, or the 8 s without one, decides
nothing. `lapse` speaks of the last change only: a save that follows and is posted alone
takes the job out of it. `auto_approve` is a creation with an approval asked for by
another thread. Left out: the scheduler, artifact texts and step logs, the host's counters, the post that tells
the gateway's immune system of a host, and the gateway's own approve route, which no
client calls. The console's list of jobs is reduced to whether `PENDING_APPROVAL` was ever
saved, which is when an operator can press a button.

### OrderPage

| Variable | Code |
|---|---|
| `page` | the React state of `StarterCheckout`: two texts and where they come from, preview, flags `busy` and `fillBusy`, the site shown, the publish note, what was said of an order, the round |
| `fills`, `asking`, `pubs` | requests the page waits for: texts, a Kredit request, publishes |
| `orders` | orders, at the page (waited for or not) and at the portal (sent, debited, moved with the guest's ledger, built, refunded, unrefunded, ...) |
| `up` | whether the portal has died |
| `lost` | history: orders whose answer the page did not get |

A click is one action, an answer another; they interleave with edits, "Buat site lain", reloads
and the portal's death. Texts are reduced to their source (blank, preset, model, typed,
story) and their round: tagline, hero and "about", which one request fills, are `lead`; button,
hours and description are `extra`. Category, name and story are chosen at the click. `splitHeroLine`
and the wording are left out. What a publish does is in `StarterSites`. One tab; a second
tab is another page with orders of its own, but it may register the guest (`Register`): the debit of
an order under way then moves to the account, and a refund finds nothing there while the page is
told that it was made (`unrefunded`; if the guest's file could not be unlinked, it goes to that file,
which no session reaches).

### KreditSession

`busy` and `shown` are the hook's state, `reqs` the requests with the snapshot each has
read so far, `wallet` the balance, the open top-up and the credits so far. A route acts on
the wallet (`Works`), reads the balance, then, an await later, the open top-ups
(`kreditClientView`); an approval may fall between any two. The mount's GET runs beside the
panel's requests. `lost` and `early` are history: an answer was lost, or a button was used before
the first GET was shown. Those two, in which the page cannot know better, are excluded from the
property, by name. The page is the wallet's only client: a second tab that spends, which the hook
hears nothing of, is outside the model.

### PortalGate

| Variable | Code |
|---|---|
| `cookie` | `nexus_portal_sid`, shared by the tabs |
| `sessions` | the server's store: unissued, guest, account, deleted |
| `tab` | the page, its `?next=`, its flag, the kind the bar shows, the list of own sites |
| `calls` | requests and answers under way, with the cookie they were sent with |
| `strays` | history: ids whose deletion the browser was never told of |

`Handle(c)` is the route at the server, `Arrive(c)` the answer at the browser; a link leaves
handlers running, a full load drops them. Identities are reduced to guest and account, the
two sign-in pages are one, prefetching is left out (every navigation asks the middleware), and a
wizard that fails does not keep a registration from being answered
(`wizardReassignGuestSites` catches its errors). The order page's own 401 is left to `OrderPage`.

### SocDesk

| Variable | Code |
|---|---|
| `desk` | the state of `NCCDashboard` and its hooks, and the one ref it keeps |
| `telePolls`, `ipPolls`, `listPolls` | answered polls under way |
| `tasks` | the operator's requests: purge, onboard, route, ban, unban, reset |
| `gateway` | known hosts, recent log (numbered lines), honeypot total, bans (external: as the desk uses it) |
| `purged`, `confirmed` | history: hosts the gateway was told to purge, hosts whose name was confirmed |
| `spent` | what the bounds have used |

A React effect that follows a state change is part of the action that makes the change. A
poll is answered from the gateway's state at the instant it is sent. A refused request
(licence, 402) is a lost one. Left out: the window manager (so consoles may be used whenever
they exist), history graph, AI terminal, panic button, compliance widget, manual, sign-in and
boot. `Timers` says which polls an instance has, so that two small instances can replace
one large one; an instance without the switcher's timer starts with the list loaded.

## 4. What is checked

| Run | Result | What it shows |
|---|---|---|
| `kredit_portal` | holds, 899,787 states | types, five safety invariants, one action property and the refinement of `OrderPromise`, with one crash |
| `kredit_promise` | holds, 9,549 states | liveness of orders; the desk implements `TopupPromise`; no crashes |
| `starter_owners` | holds, 2,643,253 states | types and three ownership invariants, with two handlers at once, all operations and one death |
| `upsell_routing` | holds, 632,806 states | an upsell nobody writes into repairs host map and Caddy aggregate, after overlaps, replaced sites and one death |
| `starter_answers` | holds, 613,573 states | liveness of the wizard's handlers |
| `job_cowork` | holds, 4,379,857 states | types and five invariants of verdicts, history and mirror, with two threads and one crash |
| `green_with_missed` | violated | the finding of section 5 |
| `order_page` | holds, 1,113,696 states | types, four invariants, one action property and one liveness property of the order page |
| `kredit_session` | holds, 2,771,094 states | the Kredit shown is the wallet's |
| `soc_desk` | holds, 5,649,288 states | types, two invariants and one action property of the desk |
| `soc_lists` | holds, 703,706 states | both lists of the desk catch up with the gateway |
| `portal_gate` | holds, 1,290,305 states | types, one invariant and one liveness property of cookie and redirects |

Kredit:

* `LedgersAccount`: every ledger explains its balance, which is never negative
  (`LedgersChained`); no order is debited or refunded twice and no top-up credited twice on a
  ledger (`NothingTwice`); no refund lacks its debit (`RefundsBacked`).
* `ApprovedIsCredited`: an approved top-up is on the ledger of its present owner.
* `NoDoubleSpend`: a crash in a registration, or an unlink that throws, leaves two copies of
  a ledger, but never two wallets that sessions, accounts or requests under way can spend the
  same credit from. After a crash the account is in no store, so nobody can log in to it; after a
  failed unlink the guest's session is deleted, so only a request that had captured the
  guest's wallet before can still reach the file, which the property says in as many words.
* `OneOpenTopup`, `SettledIsFinal`: the rules of the request store, across migrations.
* `OrdersKeepPromise`: seen over all ledgers, every order implements `OrderPromise`: it is
  paid once, delivered or refunded only when it is paid, and never both, although a
  registration moves or copies its rows, a crash cuts that, and two arms refund.
* `RefundUnlessRegistered`: a failed order is refunded wherever its debit is, unless the
  guest registered: there is no second way to lose a refund.
* `OrderSettles`: a debited order is answered. `KeepsPromise`: the refinement.

Sites:

* `MakerKeepsSite`: a customer whose Generate made a folder sees the site among its own
  whenever the manifest can be read. Nothing locks manifests, so an owner field is
  regularly overwritten by older copies; it holds because every copy of such a manifest
  names the customer's guest or the customer's account, never nobody and never another
  customer, and because an account also matches its former guest ids.
* `OnlyGranted`: a manifest names only customers whom a saved Generate or claim gave the
  site. Reassignment therefore takes neither unowned folders nor other customers' sites.
* `PublishIsOwners`: between the portal's check and the publish the manifest may
  change; still no session publishes a site that another customer made.
* `RoutingMended`: handlers that overlap, a death, a torn manifest or a replaced site leave the
  routing files naming the wrong hosts (section 5). The next upsell into which nobody writes between
  its save and its end puts both right: the host map names exactly the active upsells, and Caddy
  sends exactly their hosts through the gateway.
* `Answered`: every request is answered.

Job Cowork:

* `VerdictsEarned`: a verdict in a file was given to a scan by `closure.py`'s rules and last
  answered by an approval, whatever measurements and approvals overlapped.
* `OnlyHoldersReopen`: a closed job can only be written again by a thread that had loaded it
  before it was closed.
* `MirrorNeverAhead`: neither the gateway's row nor a post under way, in the wire or still with
  the thread that saved the job, has a status the file did not have first.
* `MirrorSettles`: with no post of a job under way the gateway shows its status, unless the last
  change was a rejection (which is not posted), its post was lost or never sent (a crash, an
  artifact that could not be read), or it was sent while another post of the job was under way.
  The next change that is posted alone ends the exception.
* `HistoryFaithful`: the verdict of a closed job is in its host's history until `Keep` other
  outcomes came after it, unless the file was torn or two threads had it loaded, and a job is
  counted at most once per approval that passed the gate.

Pages:

* `OneCallAtATime`: two flags let one request of the order page out at a time, and are up
  exactly while it is waited for.
* `OneSitePerForm`: one form is charged twice only when an answer was lost, or the guest
  registered in another tab before the refund, which then found no debit.
* `OwnRoundOnly`, `RefundedIsRefunded`: what is sent with an order and said of it belongs to
  its own form, although "Buat site lain" stays open during a publish; with the same two
  exceptions for what is said of a refund.
* `ExtrasKept`: no late text overwrites what the customer typed in the other fields.
* `ButtonsReopen`: neither flag stays up for ever.
* `ShownIsWallet`: when the page waits for nothing, it shows the wallet's balance but for
  the credits since it was read, and an open top-up is on the page; nobody else spends from it.
* `CookieIsLive`: the shared cookie names a session the server knows, unless the answer that
  replaces it is on its way or was never received.
* `RedirectsEnd`: the round of 401, gate and redirect back ends, unless the cookie stays
  stale for good.

Desk:

* `TelemetryOfDesk`: the metrics and the log on screen never change to those of another workspace.
* `ThreatIsAlarmed`: while the newest line shown is a threat the alarm is up.
* `PurgedWasConfirmed`: only hosts confirmed by name are purged, also when the workspace moves
  between the confirmation and the request.
* `EntriesFollow`, `SwitcherFollows`: once the operator and the gateway rest, IP console and
  switcher show the gateway's state for good, although late answers of other workspaces
  are shown when they come.

Every property has a mutant in `PROJECT.json`: a small, plausible bug in one definition
under which the same run reports the property violated.

### Bounds, and why they are enough

Kredit: Three sessions, two accounts, one e-mail, three requests, two top-ups, price 2, one pack
of 2, faucet 3, one crash. Two accounts on one e-mail are two registrations, of which a crash may
cut one;
three sessions let a guest register and log in again, or two guests meet at one
account; two requests can hold a stale wallet while a third is the paid order; two
top-ups are needed for one-open-request and for a request that migrates. A faucet
of 3 with a price of 2 leaves a balance of 1, just below the price, and two
sources of credit let an order be paid from either. Kinds of id are interchangeable
model values, so their permutations are a sound symmetry for the invariants and the
action property; the run with liveness uses none.

Sites: two handlers at once are what a stale copy needs: one to hold it, one to change
the file. Two customers compete for a folder; one death cuts any step. `starter_owners` has
one folder, because its properties relate a folder to its own history; the theorems
of section 6 remove that bound and all others. `upsell_routing` has two folders, so that
disabling one upsell leaves the other, two handlers, all four operations of the thread pool,
and Generate by the wizard's own form with and without replacing a site: whose a site is
does not matter to the routing, so it has no customers. The liveness run uses no symmetry and one customer.

Job Cowork: one job, because its files are its own, and a history that keeps one outcome
(`Keep = 1`), so that a second outcome of the job, with another verdict, already cuts the first; two
threads, so that any measurement overlaps any approval; four scans, one for each branch of
`ResolveClosure` (green, missed replay with a failed loop, open origin, nothing measured);
two measurements and two answers beside the creation; one crash of the bridge.

Order page: two orders and two forms (`MaxRounds = 1`), enough for a second order of the
same form, one of a later form, and an answer that comes to a later form than the one it was
sent from. Kredit panel: two requests and the mount's GET, price 2, pack 2, faucet 1, start
2, at most 3 Kredit and one credit: a balance that pays for one order and not for two. Gate:
two tabs, two session ids, four moves of the visitor, one loss: a sign-in in one tab over a
sign-out in the other, and a page opened over each. Desk: two hosts and the global
workspace, three acts, two log lines, one loss, one telemetry poll of the timer under way
beside those a change of workspace sends; for the lists two polls under way, so that one
overtakes the other, and two acts.

`CHECK_DEADLOCK FALSE` stands in every run whose instance runs out of what it is given: ids
(Kredit), runs and answers (Job Cowork), orders and forms (order page), moves (gate), acts and
traffic (desk). That is the end of the bounded run, not of the program.

### Fairness

* Kredit: weak fairness of `GenerateStep(r)` only: Node's event loop continues a
  handler whose awaited result is there, and the HTTP client gives up on a silent wizard
  after 300 s (the header timeout of undici), which is `AnswerLost`. Nothing is asked of
  customers, of the operator or of the wizard. `OrderSettles` is false without the
  timeout; its mutant is exactly that.
* Wizard: weak fairness of `Work(t)`, the steps of a thread or of the
  handler that has the loop: the CLI has a limit of 180 s and the bridge of 30 s, so no
  wait is for ever. `Enter(t)`, the first step of a waiting `async def` handler, needs strong
  fairness, because the loop is taken and freed again and again; asyncio resumes ready
  tasks in the order they became ready, which grants it.
* Order page: weak fairness of `PageSteps` and `PortalSteps`: the text helper stops after two
  attempts of 35 s, the portal answers each request or its connection breaks, and the
  browser settles every fetch. Clicks, edits and the portal's death are free.
* Gate: weak fairness of `ListAnswered(t)`: the server handles a request for the list of own
  sites and its answer arrives or fails. Nothing is asked of the visitor.
* Desk: weak fairness of the two polling timers and of each answer's arrival:
  `setInterval` fires again and again, and fetches settle.

## 5. Disagreements between code and documents

**Green beside a missed replay** (`orchestrator.py:105`, run `green_with_missed`). A
measurement saves its scan whatever happened to the job since it was loaded. Two
overlapping measurements of one job, with an approval after the first, end with a job file
that is `CLOSED_OK` next to a scan with `replay_missed`. `docs/PRODUCT_MODEL.md:140` says that this
must not be. The verdict itself was earned by the first scan (`VerdictsEarned` holds).

Known disagreements that no run reports any more, each seen in a model of this directory;
the properties that hold are stated around them:

* A refund looks for its debit on the ledger path captured before the debit
  (`kredit-ledger.ts:210`). If the guest registers while the wizard works, the debit is on the account's
  ledger and the refund finds nothing; `DECISIONS_OPEN.md:20` promises it.
  `RefundUnlessRegistered` says that this is the only way.
* A crash between the two writes of an approval leaves the request open and the Kredit on
  the ledger. Approving again is harmless; cancelling ends with a cancelled request that was
  credited, which `kredit-ledger.test.ts:120` excludes. `DeskKeepsPromise` is therefore a theorem
  of portals that do not crash.
* A request that looked its identity up before a registration credits the guest's wallet
  after it (`api/kredit/faucet/route.ts:19`); no session reaches that wallet any more, while
  `DECISIONS_OPEN.md:21` says that registering moves the Kredit.
* Enabling an upsell saves the manifest it read up to a minute earlier (`upsell.py:202`): a
  claim saved in between is undone although it was answered with success, and the next
  customer's claim succeeds too (`tests/test_ownership.py:158` excludes that). It needs a
  site made without an owner.
* Generate with `replaceExisting` writes a manifest without the upsell and leaves the
  host map as it was (`generator.py:318` against `upsell.py:58`); and a handler that read the
  manifest before an upsell and saves it afterwards turns the upsell off in the manifest
  only (`vercel_publish.py:247`). Either leaves routing files that are not "portfolio + all
  gaas_active" (`upsell.py:58`), and so do two upsells that overlap, until an upsell that
  nobody writes into (`RoutingMended`).
* The page says "Kredit di-refund" (`StarterCheckout.tsx:174`) for every order the wizard did
  not build, also when the guest registered meanwhile and the refund found nothing.
* When the guest's ledger cannot be unlinked (`kredit-ledger.ts:236`, whose comment expects only
  a file that is gone) its Kredit stays in the file as well, and a Generate or a faucet that
  captured the guest before the registration still spends from it.
* An approval whose artifact file cannot be read back fails after the verdict was saved
  (`orchestrator.py:164`): the operator sees an error, the job is closed, and the gateway
  keeps the old status until the job changes again.
* The text helper may mark texts as the model's when it gave the preset's
  (`local-llm-fill.ts:111` against `docs/NEXUS_CHANNEL_PORTAL.md:100`).
* A cookie of a deleted session that is never replaced leads from the list of own sites (401) to the
  gate, whose middleware takes any cookie for a session (`middleware.ts:25`) and leads back to
  the list, for ever. `RedirectsEnd` names that case.

Facts that contradict no document: a crash between a debit and its answer leaves
the order paid for ever; a crash in a registration may leave a guest's Kredit on the ledger of an account
that does not exist; logging in (rather than registering) from a guest session
strands the guest's Kredit; and a closed job is out of its host's history after 30 later outcomes.

## 6. What is proved

Each proof module takes its component's constants as they are declared, under the named
assumptions of that module only: no bound on sessions, threads, tabs, hosts, orders, crashes
or rounds.

### Kredit

`KreditPortalProofs` proves, for any finite or infinite sets of ids, any packs and
faucet amounts in `Nat \ {0}` and any number of crashes:

| Theorem | Property |
|---|---|
| `TypeCorrect` | `TypeOK` |
| `LedgersAreSound` | `LedgersAccount` |
| `ApprovedStaysCredited` | `ApprovedIsCredited` |
| `CreditSpentOnce` | `NoDoubleSpend` |
| `OneOpenRequest` | `OneOpenTopup` |
| `NewIdsAreBlank` | `FreshIsBlank` |
| `SettledStays` | `SettledIsFinal` |

The assumptions are `PriceAssumption`, `SortAssumption` and `AmountAssumption` of the
modules: ids of different sorts differ, and prices and amounts are positive.

The argument is one inductive invariant, `IInv`. The properties above are not
inductive by themselves, and three parts make them so:

* `FreshIsBlank`: a registration writes to an id that was never issued, so it cannot
  land on a ledger, a top-up or a request of somebody else.
* `Owners`: which ids a session, a request or a top-up can name; in particular a
  registered account is an issued id.
* `OneOwner` and `Unspent`: a top-up's credit is only on the wallet that owns the
  record, on the guest that wallet was, or on a wallet nobody can spend from. `NoDoubleSpend`
  alone says nothing of the copies a crash left behind, and the next approval needs to know
  where they are.
* `GuestsRetire` and `OneCopy`: a guest that became an account has no session any more, and
  two wallets that can be spent from show one credit only when one is the guest the other was
  (`Heir`). That is what is left when the unlink throws.

`KreditPortalProofs` first shows for each ledger operation that it keeps a ledger sound
(`PushSound`, `DebitSound`, `RefundSound`, ...); then, one lemma per part of `IInv`, that each action preserves that part, and joins them in
`StepInv` and `Invariance`. Every part of `IInv` was also checked by TLC over the
states of `kredit_portal`.

`KreditPromiseProofs` follows one order, and the desk:

| Theorem | Property |
|---|---|
| `DeliveredArePaid` | a delivered order is debited on some ledger and refunded on none |
| `FailedAreRefunded` | `RefundUnlessRegistered` |
| `OrdersAreKept` | `OrdersKeepPromise`, the refinement of `OrderPromise`, for any number of crashes |
| `DeskKeepsPromise` | `KeepsPromise`, the refinement of `TopupPromise`, when `MaxCrashes = 0` |

`OrderSound(r)` strengthens the first two through the program counter: from the debit on
the order is on some ledger; it is refunded nowhere before its route refunds it; and until
the route is over its debit is on the wallet the route captured, unless that wallet's guest
registered. The last part is what makes a refund find its debit. `FormerIssued` is needed
because a registration writes `former` at a new account id and must not overwrite an
older guest. `OtherRows` says that but for registrations only the order's own route touches
its rows; `MigratedRows` what a registration, whole or cut, does to them.

The refinement is proved from the same invariant, step by step. What is paid and refunded is
read off *all* ledgers, and `MigrationStill` says that a registration, whole or cut after any
of its writes, neither takes a row away from the whole nor adds one. So only three steps
move an abstract order: the debit (`DebitPays`: `Unspent` is the guard of `Pay`), the two steps
that answer 200 (`AnswerDelivers`: `OrderSound` is the guard of `Deliver`) and a refund
(`RefundRepays`: a refund that finds its debit is `Refund`; one that does not, because the
guest registered or the other arm was first, changes nothing). The abstract `Deliver` and
`Refund` exclude each other, so no order is delivered and given back.

For the desk, `NoStray` (no ledger shows the credit of a request that is not approved) makes
what is credited readable off the requests, so each step of the portal is a step of
`TopupPromise` or leaves it alone. A crash between the two writes of an approval breaks
`NoStray`, which is why the theorem assumes none.

### Sites

`StarterSitesProofs` proves, for any sets of customers, folders and handlers, any operator
requests and any number of deaths, from `StarterAssumption` alone:

| Theorem | Property |
|---|---|
| `TypeCorrect` | `TypeOK` |
| `MakersKeepSites` | `MakerKeepsSite` |
| `OwnersWereTold` | `OnlyGranted` |
| `PublishersAreOwners` | `PublishIsOwners` |
| `UpsellMendsRouting` | `RoutingMended`, of `RoutingSpec` |

None of the first three properties is inductive: what matters is not only what the file says but what
every handler may write later. The invariant `IInv` speaks of both:

* `FileSound`: the manifest of a folder made for a customer names that customer, as guest
  or as an account that exists, and the owner it names has been told.
* `CopySound`: the same of the copy a handler holds, except that its owner may be told by
  the very save that is to come; and the folder of a copy exists, so its maker is settled.
* `PointSound`: at which points of which handler a copy is held.
* `ErrandSound`: a reassignment works through sites that its own guest was told of, and a
  session's publish is for a site that nobody else made.

`CallLasts` is the lemma that makes interleaving harmless: what holds of a handler
survives any step of another, because folders do not vanish, makers do not change, and
`registered` and `told` only grow. `HandlerStep` then reduces each action to the handler
that takes it, and there is one lemma for each kind of action (`AskSound`,
`GenerateSound`, `ClaimSound`, `ReassignSound`, `ReadSound`, `MoveSound`, `TruncateSound`,
`WriteSound`), joined in `Invariance`.

`UpsellMendsRouting` follows one upsell through the steps after its save, while others do what they
like outside of it: `Tail(r)` says that its listing is still true, that no upsell is left when it
resets the host map, and that the map is right once it turns to Caddy. A step of another
handler either leaves the active upsells and both files as they are (`TailLasts`) or ends its being
`alone`; `TailEnds` is its last write. `RoutingSpec` is `StarterSites` with a history
(`RoutingIsSpec`), so the invariant of the other theorems holds in it.

### Job Cowork

`JobCoworkProofs`, from `JobsAssumption`:

| Theorem | Property |
|---|---|
| `JobTypes` | `TypeOK` |
| `VerdictsAreEarned` | `VerdictsEarned` |
| `ClosedStaysWithHolders` | `OnlyHoldersReopen` |
| `MirrorIsNeverAhead` | `MirrorNeverAhead` |
| `MirrorSettlesAlways` | `MirrorSettles` |
| `HistoryIsKept` | `HistoryFaithful`, from `CountedOncePerApproval` and `SettledJobsRemembered` |

Each property has an invariant of its own, on top of the types, because each follows
another thing a thread holds: the copy of a job and the verdict in it, the fact that a
thread is among the holders, the status of a post, the recalled memory, and, for the
count, the number of approvals that passed the gate and have not been counted yet (a
cardinality of a set of threads, hence the assumption that there are finitely many).
`HistoryExact` says that, unless two threads raced for it, the file is the newest part of all
outcomes ever recorded (`Newest`), so that a verdict missing from it was overtaken by `Keep`
others; `PostsCurrent` that a job without a lapse has at most one post under way, with the
status of its file.

### Order page

`OrderPageProofs`, from `OrderAssumption`: `PageStays` is the invariant, and `TypeCorrect`
(`TypeOK`), `OneCall` (`OneCallAtATime`), `OneSite` (`OneSitePerForm`), `OwnRound` (`OwnRoundOnly`),
`Refunded` (`RefundedIsRefunded`) and `ExtrasStay` (`ExtrasKept`) follow. The page knows no
orders: what it says it infers from the answer it just got. So the invariant follows the
orders themselves (`Traced`): one that is charged is waited for, or its answer was lost, or it
is the site shown, or it belongs to an earlier form, or it is one of the `Hidden` orders of which
the page was told nothing, or was told of a refund that found no debit.

`PageOrdersAreKept`: the stages of an order on this page (`debited`, `moved`, `built`, `refunded`,
`unrefunded`, `stuck`) implement `OrderPromise`. `OrderPage` has the Generate route in four actions where
`KreditPortal` has it with its ledgers; that both implement the same abstract order is what
lets the page's model stand in front of the portal's.

### Kredit panel

`KreditSessionProofs`, from `SessionAssumption`: `TypeCorrect` (`TypeOK`: no balance negative),
`OneCallOut` (`OneWalletCall`) and `ShownIsTheWallets` (`ShownIsWallet`), for any slots, price,
pack, faucet amount and bounds. A view is read in two steps and shown in a third, with the
operator's approvals in between, so the invariant follows the snapshot: what a
request carries is true of the wallet but for the top-ups credited since (`Carries`), and what
the page shows stays true until a request of its own has acted (`StillShown`); requests
nobody waits for are idle unless an answer was lost (`Heard`).

### Gate

`PortalGateProofs`, from `GateAssumption`: `TypeCorrect` (`TypeOK`) and `CookiesAreLive`
(`CookieIsLive`). The invariant follows the ids: one that was drawn is in the one
answer that brings it and nowhere else until that answer is heard, so nothing can
delete it before the browser has it.

### Desk

`SocDeskProofs`, from `DeskAssumption`: `ThreatsAreAlarmed` (`ThreatIsAlarmed`),
`PurgesAreConfirmed` (`PurgedWasConfirmed`), `TelemetryIsOfTheDesk` (`TelemetryOfDesk`). The invariant: a telemetry
request whose effect still polls asks for the chosen workspace, because every change of
workspace disowns the others; and a purge on its way names a host that was confirmed.
`TypeCorrect` (`TypeOK`) needs one more fact: the gateway's log is finite, because the
honeypot counter of a host is the number of its lines.

### Model-checked only

* `OrderSettles`, `Answered`, `ButtonsReopen`, `RedirectsEnd`, `EntriesFollow` and
  `SwitcherFollows`: liveness under fairness and ENABLED are out of the prover's reach.

Every invariant and every action property of a passing run is stated by a theorem, in
general or, for `KeepsPromise`, under the hypothesis named above.

## 7. Not modelled, and why

* Proof files and mail results of top-ups, the portal's rate limit, the cookie's expiry after
  30 days, password hashes: they decide nothing the properties speak of.
* The scheduler of the Job Cowork, artifacts, step logs; the wizard's CLI as a second
  process, page texts, and the files that only inform an operator.
* Pages that only render (landing, segments, manual), the package form, which ends in a
  prepared e-mail, and the operator's boards of the portal.
* Of the gateway: the golden cache (inside one process, with no invariant that links it
  to the parts above), the dynamic router's several nodes, immunity sync, moving target
  defense and self-repair (wall-clock time, sockets and file system probes), the AI and
  reflex filters, licensing, compliance, feeds, honeypot, RASP and eBPF (pattern matching over
  one request, signatures, exporters, operating system probes). NEX-RED's agents give a scan, whose
  result is an input of `JobCowork`. NEX-AI is offline training.

Three hazards of `PROJECT.json` have no property: a request that captured the guest's wallet before a
registration and credits it after (`api/kredit/faucet/route.ts:19`), which breaks nothing the code
itself promises (section 5 has the document that it contradicts); the crash between a debit and its answer
(`generate/route.ts:83`), where neither code nor documents promise a recovery; and the
login that strands a guest's Kredit (`portal-identity.ts:316`), because the documents promise the
move for registration only. All are modelled as they are.
