---- MODULE StarterSites ----
(***************************************************************************)
(* The sites of the Channel Starter wizard (channel_starter/*.py) and who  *)
(* owns them, as the Channel Portal uses them (portal-site-owner.ts,       *)
(* channel-starter-owned.ts and the routes under api/channel-starter).     *)
(*                                                                         *)
(* A site is a folder with a manifest.json.  Nothing locks it: a handler   *)
(* reads the manifest, works on the object and writes the whole object     *)
(* back.  FastAPI runs `async def` handlers (generate, claim, reassign,    *)
(* owned) on the event loop, and as they never await once the body is      *)
(* parsed, one at a time; `def` handlers (publish, site detail, upsell)    *)
(* run in a thread pool, in parallel with each other and with the loop.    *)
(* The step that waits for the Vercel CLI may take 180 s, on the loop too. *)
(*                                                                         *)
(* save_manifest truncates the file and then writes it, so a reader may    *)
(* find it empty, and a death in between leaves it so.                     *)
(*                                                                         *)
(* A customer is a guest identity of the portal and the account it may     *)
(* become; the account remembers the guest in formerGuestIds.  What the    *)
(* portal stamps on a request is the identity it looked up before.         *)
(***************************************************************************)
EXTENDS Naturals

CONSTANTS
  Customers,
  Slugs,        \* folder names; bounds how many sites there are
  Calls,        \* requests the wizard may be working on at once
  ReplaceFlags, \* values of replaceExisting in the Generate forms
  OperatorOps,  \* what the operator asks of the wizard directly
  MaxCrashes,   \* bound on deaths of the wizard process
  Nobody, NoSlug

ASSUME StarterAssumption ==
  /\ Nobody \notin Customers
  /\ NoSlug \notin Slugs
  /\ ReplaceFlags \subseteq BOOLEAN
  /\ OperatorOps \subseteq {"publish", "detail", "enable", "disable"}
  /\ MaxCrashes \in Nat

VARIABLES
  registered, \* customers that have an account (portal-identities.json)
  file,       \* sites/<slug>/manifest.json
  hosts,      \* nexus-host-map.json, but for the portfolio it always has
  routed,     \* hosts the Caddy aggregate sends to the gateway, not to files
  call,       \* the wizard's handlers
  maker,      \* history: whose Generate made the folder
  told,       \* history: customers whose Generate or claim stamped the site
  crashes

vars == <<registered, file, hosts, routed, call, maker, told, crashes>>

-----------------------------------------------------------------------------
\* Owners, as portal_owner_id and portal_owner_kind; the e-mail follows the account.
NoOwner == [kind |-> "none", of |-> Nobody]
Guest(c) == [kind |-> "guest", of |-> c]
Account(c) == [kind |-> "account", of |-> c]
Owner == [kind : {"none", "guest", "account"}, of : Customers \cup {Nobody}]

\* The identity a session of the customer has now.
Identity(c) == IF c \in registered THEN Account(c) ELSE Guest(c)

\* A manifest file: no folder, a folder without a readable manifest, or the
\* fields of the manifest that matter here.  gaas is gaas_status = active.
Absent == [st |-> "absent", owner |-> NoOwner, gaas |-> FALSE]
Torn == [st |-> "torn", owner |-> NoOwner, gaas |-> FALSE]
Manifest(o, g) == [st |-> "ok", owner |-> o, gaas |-> g]
File == [st : {"absent", "torn", "ok"}, owner : Owner, gaas : BOOLEAN]

Readable(s) == file[s].st = "ok"

\* get_active_upsells, and what every writer of a routing file lists:
\* list_sites skips a manifest it cannot parse.
Active == {s \in Slugs : Readable(s) /\ file[s].gaas}

\* A guest owns what is stamped with its id; an account what is stamped with its
\* own id (or e-mail), or with the id of the guest it was.
SiteOwnedBy(m, id) ==
  /\ m.st = "ok"
  /\ m.owner # NoOwner
  /\ m.owner = id \/ (id.kind = "account" /\ m.owner = Guest(id.of))

-----------------------------------------------------------------------------
\* asked: the portal or the operator sent the request;  save, torn: about to
\* truncate the manifest, truncated;  list, route: before and after the listing
\* for the Caddy aggregate;  vercel: awaiting the CLI;  hosts, map: before and after the
\* listing for the host map;  remaining, reset: disable's two last choices;
\* next: reassign between two sites.
Pc == {"idle", "asked", "save", "torn", "list", "route", "vercel", "hosts", "map",
       "remaining", "reset", "next"}
Op == {"none", "generate", "claim", "reassign", "publish", "detail", "enable", "disable"}
OnLoop == {"generate", "claim", "reassign"}

Call == [op : Op, pc : Pc, slug : Slugs \cup {NoSlug}, who : Owner,
         copy : File,           \* the manifest object in memory
         seen : SUBSET Slugs,   \* what the last listing found
         saves : 0 .. 3]        \* save_manifest calls to come

Idle == [op |-> "none", pc |-> "idle", slug |-> NoSlug, who |-> NoOwner,
         copy |-> Absent, seen |-> {}, saves |-> 0]

\* No async handler is in its body.
LoopFree == \A t \in Calls : call[t].op \in OnLoop => call[t].pc = "asked"

At(t, op, pc) == call[t].op = op /\ call[t].pc = pc
Becomes(t, r) == call' = [call EXCEPT ![t] = r]

siteVars == <<file, hosts, routed, maker, told>>

Init ==
  /\ registered = {}
  /\ file = [s \in Slugs |-> Absent]
  /\ hosts = {}
  /\ routed = {}
  /\ call = [t \in Calls |-> Idle]
  /\ maker = [s \in Slugs |-> Nobody]
  /\ told = [s \in Slugs |-> {}]
  /\ crashes = 0

-----------------------------------------------------------------------------
\* What the portal and the operator ask for

\* registerAccount: the account's formerGuestIds now holds the guest.  Its sites
\* follow by a separate request, which may be lost (AskReassign).
Register(c) ==
  /\ c \notin registered
  /\ registered' = registered \cup {c}
  /\ UNCHANGED <<siteVars, call, crashes>>

Ask(t, op, s, id) ==
  /\ call[t].pc = "idle"
  /\ Becomes(t, [Idle EXCEPT !.op = op, !.pc = "asked", !.slug = s, !.who = id])
  /\ UNCHANGED <<registered, siteVars, crashes>>

\* The generate route stamps the identity over whatever the form says; the
\* wizard's own form has no owner.
AskGenerate(t) ==
  \E s \in Slugs : \E id \in {Identity(c) : c \in Customers} \cup {NoOwner} :
    Ask(t, "generate", s, id)

\* The claim route sends the session's identity, for any slug the visitor types
\* or, before a list is shown, for each one noted on the session's Starter debits.
AskClaim(t) ==
  \E s \in Slugs, c \in Customers : Ask(t, "claim", s, Identity(c))

\* The operator's attach names an account that exists, or any owner id.
AskAttach(t) ==
  \E s \in Slugs, c \in Customers : \E id \in {Identity(c), Guest(c)} :
    Ask(t, "claim", s, id)

\* Sent once after registration and again after every login; not sent at all when
\* the wizard is down at the time.
AskReassign(t) == \E c \in registered : Ask(t, "reassign", NoSlug, Account(c))

\* wizardListOwned: what POST /sites/owned lists for an identity, on the loop.
\* A portal without a wizard, or a wizard that is down or too old, lists nothing
\* and the route that asked refuses.
OwnedList(id) == {s \in Slugs : SiteOwnedBy(file[s], id)}

\* The publish route lists the session's sites first, and posts /publish/{slug}
\* afterwards for one of them.
AskPublishUnchecked(t) ==
  \E s \in Slugs, c \in Customers : LoopFree /\ Readable(s) /\ Ask(t, "publish", s, Identity(c))
AskPublish(t) ==
  \E c \in Customers : \E s \in OwnedList(Identity(c)) :
    LoopFree /\ Ask(t, "publish", s, Identity(c))

\* Straight to the wizard on loopback, or by the operator's upsell route.
AskAsOperator(t) ==
  \E s \in Slugs : \E op \in OperatorOps :
    Ask(t, op, s, NoOwner)

SomebodyAsks(t) ==
  \/ AskGenerate(t) \/ AskClaim(t) \/ AskAttach(t) \/ AskReassign(t)
  \/ AskPublish(t) \/ AskAsOperator(t)

-----------------------------------------------------------------------------
\* POST /generate

MayReplaceAny(s, id) == file[s].st \in {"absent", "ok"}
MayReplace(s, id) ==
  \/ file[s].st = "absent"
  \/ Readable(s) /\ file[s].owner \in {NoOwner, id}

\* allocate_unique_slug: the preferred slug when it may be replaced or is free,
\* else another free one.
Allocate(s, id, replace) ==
  IF (replace /\ MayReplace(s, id)) \/ file[s].st = "absent"
  THEN {s}
  ELSE {d \in Slugs : file[d].st = "absent"}

\* generate_site makes the folder and the page, with a new manifest to save whose
\* owner is the form's.  Of a manifest it replaces it keeps site_id and the Vercel
\* fields, and not the upsell.
GenerateSite(t) ==
  /\ At(t, "generate", "asked")
  /\ LoopFree
  /\ \E replace \in ReplaceFlags :
       \E d \in Allocate(call[t].slug, call[t].who, replace) :
         /\ file' = IF file[d].st = "absent" THEN [file EXCEPT ![d] = Torn] ELSE file
         /\ maker' = IF file[d].st = "absent"
                     THEN [maker EXCEPT ![d] = call[t].who.of] ELSE maker
         /\ Becomes(t, [call[t] EXCEPT !.pc = "save", !.slug = d, !.saves = 3,
                                       !.copy = Manifest(call[t].who, FALSE)])
  /\ UNCHANGED <<registered, hosts, routed, told, crashes>>

\* The form does not validate, or the manifest to replace cannot be read.
GenerateRejected(t) ==
  /\ At(t, "generate", "asked")
  /\ LoopFree
  /\ Becomes(t, Idle)
  /\ UNCHANGED <<registered, siteVars, crashes>>

-----------------------------------------------------------------------------
\* POST /sites/claim and /sites/reassign

\* claim_unowned_site: stamps the site if nobody owns it; any other outcome is
\* an answer that changes nothing.
ClaimSite(t) ==
  /\ At(t, "claim", "asked")
  /\ LoopFree
  /\ LET m == file[call[t].slug] IN
       Becomes(t, IF m.st = "ok" /\ m.owner = NoOwner
                  THEN [call[t] EXCEPT !.pc = "save", !.saves = 1,
                                       !.copy = [m EXCEPT !.owner = call[t].who]]
                  ELSE Idle)
  /\ UNCHANGED <<registered, siteVars, crashes>>

\* reassign_guest_sites, the listing: sites stamped with the guest.
GuestSitesAny(c) == {s \in Slugs : Readable(s)}
GuestSites(c) == {s \in Slugs : Readable(s) /\ file[s].owner = Guest(c)}
ListGuestSites(t) ==
  /\ At(t, "reassign", "asked")
  /\ LoopFree
  /\ Becomes(t, [call[t] EXCEPT !.pc = "next", !.seen = GuestSites(call[t].who.of)])
  /\ UNCHANGED <<registered, siteVars, crashes>>

\* ... and for each of them: read it again, stamp the account, save.  The loop
\* ends with the list, or at a manifest that cannot be read.
ReassignNextForgetful(t) ==
  /\ At(t, "reassign", "next")
  /\ IF call[t].seen = {}
     THEN Becomes(t, Idle)
     ELSE \E s \in call[t].seen :
            Becomes(t, [call[t] EXCEPT !.pc = "save", !.slug = s, !.saves = 1,
                                       !.copy = Manifest(call[t].who, file[s].gaas)])
  /\ UNCHANGED <<registered, siteVars, crashes>>
ReassignNext(t) ==
  /\ At(t, "reassign", "next")
  /\ IF call[t].seen = {}
     THEN Becomes(t, Idle)
     ELSE \E s \in call[t].seen :
            Becomes(t, IF Readable(s)
                       THEN [call[t] EXCEPT !.pc = "save", !.slug = s, !.saves = 1,
                                            !.seen = @ \ {s},
                                            !.copy = Manifest(call[t].who, file[s].gaas)]
                       ELSE Idle)
  /\ UNCHANGED <<registered, siteVars, crashes>>

-----------------------------------------------------------------------------
\* The thread pool: read the manifest first, save what was read much later

\* publish_slug reads and goes to the CLI; site_detail rewrites the routing
\* before it does.
ReadToDeploy(t) ==
  /\ call[t].op \in {"publish", "detail"} /\ call[t].pc = "asked"
  /\ Becomes(t, IF ~ Readable(call[t].slug) THEN Idle
                ELSE [call[t] EXCEPT !.pc = IF call[t].op = "publish" THEN "vercel" ELSE "list",
                                     !.saves = IF call[t].op = "publish" THEN 1 ELSE 2,
                                     !.copy = file[call[t].slug]])
  /\ UNCHANGED <<registered, siteVars, crashes>>

\* enable_upsell and disable_upsell set the upsell fields of the object; enable
\* may then ask the NEX-RED bridge for a job and a schedule, up to 30 s each.
ReadToUpsell(t) ==
  /\ call[t].op \in {"enable", "disable"} /\ call[t].pc = "asked"
  /\ LET m == file[call[t].slug] IN
       Becomes(t, IF m.st # "ok" THEN Idle
                  ELSE [call[t] EXCEPT !.pc = "save", !.saves = 1,
                                       !.copy = [m EXCEPT !.gaas = call[t].op = "enable"]])
  /\ UNCHANGED <<registered, siteVars, crashes>>

\* The Vercel CLI printed a URL and the manifest is saved, by publish_site if the
\* CLI succeeded and by deploy_manifest if the handler goes through that; or it was
\* skipped, failed or timed out.
VercelAnswers(t) ==
  /\ call[t].pc = "vercel"
  /\ \E n \in 0 .. call[t].saves :
       Becomes(t, IF n = 0 THEN Idle ELSE [call[t] EXCEPT !.pc = "save", !.saves = n])
  /\ UNCHANGED <<registered, siteVars, crashes>>

-----------------------------------------------------------------------------
\* save_manifest: Path.write_text opens the file, which truncates it, and writes

SaveBegins(t) ==
  /\ call[t].pc = "save"
  /\ file' = [file EXCEPT ![call[t].slug] = Torn]
  /\ Becomes(t, [call[t] EXCEPT !.pc = "torn"])
  /\ UNCHANGED <<registered, hosts, routed, maker, told, crashes>>

\* What a handler does after a save.
AfterSave(r) ==
  CASE r.op = "enable"                      -> "hosts"
    [] r.op = "disable"                     -> "remaining"
    [] r.op = "reassign"                    -> "next"
    [] r.op = "generate" /\ r.saves = 3     -> "list"
    [] r.op \in {"generate", "detail"} /\ r.saves = 2 -> "save"
    [] OTHER                                -> "idle"

Saved(r) ==
  IF AfterSave(r) = "idle" THEN Idle
  ELSE IF r.saves > 1 THEN [r EXCEPT !.pc = AfterSave(r), !.saves = @ - 1]
  ELSE [r EXCEPT !.pc = AfterSave(r), !.saves = 0, !.copy = Absent]

\* The save that gives the site to the customer of the request.
GrantingAny(r) == r.op = "claim" \/ (r.op = "generate" /\ r.saves = 3)
Granting(r) == r.op = "claim" \/ (r.op = "generate" /\ r.saves = 3 /\ r.who # NoOwner)

\* The write.  If another writer filled the file after this one truncated it, the
\* longer text may show through and the result not be JSON.
SaveEnds(t) ==
  LET r == call[t] IN
  /\ r.pc = "torn"
  /\ \E m \in {r.copy} \cup (IF file[r.slug] = Torn THEN {} ELSE {Torn}) :
       file' = [file EXCEPT ![r.slug] = m]
  /\ told' = IF Granting(r)
             THEN [told EXCEPT ![r.slug] = @ \cup {r.who.of}] ELSE told
  /\ Becomes(t, Saved(r))
  /\ UNCHANGED <<registered, hosts, routed, maker, crashes>>

-----------------------------------------------------------------------------
\* The files that route traffic, each written from a listing of all manifests

\* write_host_map_from_sites
ListHosts(t) ==
  /\ call[t].pc = "hosts"
  /\ Becomes(t, [call[t] EXCEPT !.pc = "map", !.seen = Active])
  /\ UNCHANGED <<registered, siteVars, crashes>>

WriteHostMap(t) ==
  /\ call[t].pc = "map"
  /\ hosts' = call[t].seen
  /\ Becomes(t, [call[t] EXCEPT !.pc = "list", !.seen = {}])
  /\ UNCHANGED <<registered, file, routed, maker, told, crashes>>

\* disable_upsell: with no upsell left the map goes back to the portfolio.
CountRemainingNever(t) ==
  /\ call[t].pc = "remaining"
  /\ Becomes(t, [call[t] EXCEPT !.pc = "reset"])
  /\ UNCHANGED <<registered, siteVars, crashes>>
CountRemaining(t) ==
  /\ call[t].pc = "remaining"
  /\ Becomes(t, [call[t] EXCEPT !.pc = IF Active = {} THEN "reset" ELSE "hosts"])
  /\ UNCHANGED <<registered, siteVars, crashes>>

ResetHostMapOnly(t) ==
  /\ call[t].pc = "reset"
  /\ hosts' = {}
  /\ Becomes(t, Idle)
  /\ UNCHANGED <<registered, file, routed, maker, told, crashes>>
ResetHostMap(t) ==
  /\ call[t].pc = "reset"
  /\ hosts' = {}
  /\ Becomes(t, [call[t] EXCEPT !.pc = "list"])
  /\ UNCHANGED <<registered, file, routed, maker, told, crashes>>

\* write_aggregate_caddy, from apply_routing
ListRouting(t) ==
  /\ call[t].pc = "list"
  /\ Becomes(t, [call[t] EXCEPT !.pc = "route", !.seen = Active])
  /\ UNCHANGED <<registered, siteVars, crashes>>

WriteRouting(t) ==
  /\ call[t].pc = "route"
  /\ routed' = call[t].seen
  /\ Becomes(t, IF call[t].op \in {"generate", "detail"}
                THEN [call[t] EXCEPT !.pc = "vercel", !.seen = {}] ELSE Idle)
  /\ UNCHANGED <<registered, file, hosts, maker, told, crashes>>

-----------------------------------------------------------------------------
\* The wizard process dies; what it was doing is lost, its files stay.
WizardDies ==
  /\ crashes < MaxCrashes
  /\ crashes' = crashes + 1
  /\ call' = [t \in Calls |-> Idle]
  /\ UNCHANGED <<registered, siteVars>>

Enter(t) == GenerateSite(t) \/ GenerateRejected(t) \/ ClaimSite(t) \/ ListGuestSites(t)

Work(t) ==
  \/ ReassignNext(t) \/ ReadToDeploy(t) \/ ReadToUpsell(t) \/ VercelAnswers(t)
  \/ SaveBegins(t) \/ SaveEnds(t) \/ ListHosts(t) \/ WriteHostMap(t)
  \/ CountRemaining(t) \/ ResetHostMap(t) \/ ListRouting(t) \/ WriteRouting(t)

Next ==
  \/ \E c \in Customers : Register(c)
  \/ \E t \in Calls : SomebodyAsks(t) \/ Enter(t) \/ Work(t)
  \/ WizardDies

Spec == Init /\ [][Next]_vars

\* Threads run; the CLI and the bridge have time limits; the event loop takes the
\* handlers that wait for it in the order they came.
Fairness == \A t \in Calls : WF_vars(Work(t)) /\ SF_vars(Enter(t))
FairSpec == Spec /\ Fairness

-----------------------------------------------------------------------------
\* Properties

\* The shape of every variable (types.py:SiteManifest and the handlers' locals).
TypeOK ==
  /\ registered \subseteq Customers
  /\ file \in [Slugs -> File]
  /\ hosts \subseteq Slugs
  /\ routed \subseteq Slugs
  /\ call \in [Calls -> Call]
  /\ maker \in [Slugs -> Customers \cup {Nobody}]
  /\ told \in [Slugs -> SUBSET Customers]
  /\ crashes \in 0 .. MaxCrashes

\* A customer whose Generate made a site sees it among its own sites as long as
\* its manifest can be read: through registration before, during and after the
\* order, a reassign that is lost, repeated or overtaken, stale saves by publish
\* and upsell, and a death of the wizard.  Registration must therefore leave the
\* guest id behind in formerGuestIds (portal-site-owner.ts:identityOwnerQuery).
MakerKeepsSite ==
  \A s \in Slugs :
    maker[s] # Nobody /\ Readable(s) => SiteOwnedBy(file[s], Identity(maker[s]))

\* A manifest never names a customer the wizard did not tell that the site is its
\* own: reassign takes no unowned folder and no other customer's, and no save of
\* an old copy invents an owner (ownership.py:reassign_guest_sites).
OnlyGranted ==
  \A s \in Slugs :
    Readable(s) /\ file[s].owner # NoOwner => file[s].owner.of \in told[s]

\* Between the portal's ownership check and the publish the site may be
\* reassigned or saved from an old copy, and still a session publishes a site
\* another customer made at no time (api/channel-starter/publish/route.ts).
PublishIsOwners ==
  \A t \in Calls :
    call[t].op = "publish" /\ call[t].who # NoOwner /\ maker[call[t].slug] # Nobody
      => maker[call[t].slug] = call[t].who.of

\* Every request is answered: neither the loop nor a thread is held for ever.
Answered == \A t \in Calls : call[t].pc = "asked" ~> call[t].pc = "idle"
====
