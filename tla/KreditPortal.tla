---- MODULE KreditPortal ----
(***************************************************************************)
(* The Kredit side of the Channel Portal (nexus-gaas-web): sessions and    *)
(* accounts (portal-identity.ts), one ledger file per wallet               *)
(* (kredit-ledger.ts), the shared top-up store (kredit-topup.ts) and the   *)
(* paid Generate order (api/channel-starter/generate/route.ts), which      *)
(* calls the Channel Starter wizard over HTTP.                             *)
(*                                                                         *)
(* withLock (mutex.ts) is one FIFO promise chain for the whole process, so *)
(* the body of a withLock section is one atomic step here.  A route is     *)
(* several sections: it looks its identity up in the first one and acts on *)
(* the captured wallet in later ones, with everybody else's sections in    *)
(* between.  A section that writes several files can be cut by a crash of  *)
(* the process; each file is replaced by rename, so a crash falls between  *)
(* two writes and never inside one.                                        *)
(*                                                                         *)
(* Ids are random UUIDs: guests are known by the sid of their session,     *)
(* accounts by an id of their own, and no id is issued twice.  walletId,   *)
(* kind, identityId and the ledger path are functions of that id, so the   *)
(* model's wallet is the id itself.                                        *)
(***************************************************************************)
EXTENDS KreditLedger, FiniteSets

CONSTANTS
  Sid,          \* session ids; a guest's wallet is the sid that opened it
  AccountId,
  Email,
  Request,      \* portal requests; a generate request is its own order id
  TopupId,
  Packs,        \* KREDIT.topupPacksKr
  FaucetKr,     \* amounts asked of the lab faucet, 1 .. KREDIT.faucetMaxKr
  NoIdentity,   \* no session row, no cookie
  NoEmail,      \* an account id that is not registered
  MaxCrashes    \* bound on process crashes

ASSUME SortAssumption ==
  /\ Sid \cap AccountId = {}
  /\ Request \cap TopupId = {}
  /\ Ref = Request \cup TopupId
  /\ NoRef \notin Ref
  /\ NoIdentity \notin Sid \cup AccountId
  /\ NoEmail \notin Email
ASSUME AmountAssumption ==
  /\ Packs \subseteq Nat \ {0}
  /\ FaucetKr \subseteq Nat \ {0}
  /\ MaxCrashes \in Nat

VARIABLES
  sessions,  \* portal-identities.json: sid -> the identity it is logged in as
  accounts,  \* portal-identities.json: account id -> its e-mail
  former,    \* portal-identities.json: account id -> its formerGuestIds, at most one
  issued,    \* every UUID handed out so far
  ledgers,   \* kredit-guest-*.json and kredit-account-*.json, by wallet
  topups,    \* kredit-topups.json, by top-up id
  req,       \* the portal's request handlers, by request
  site,      \* what the wizard did with each order
  crashes    \* crashes so far

identityVars == <<sessions, accounts, former, issued>>
vars == <<sessions, accounts, former, issued, ledgers, topups, req, site, crashes>>

Wallet == Sid \cup AccountId

OpenStatus == {"pending", "proof_submitted"}

Topup == [status : {"none", "approved", "cancelled"} \cup OpenStatus,
          wallet : Wallet \cup {NoIdentity}, amount : Packs \cup {0}]

\* known: the identity is captured and nothing is done yet;  wizard: debited,
\* awaiting the wizard's answer;  remember: noting the slug;  refund, body,
\* catch: the error paths of generate;  delivered and failed: its answers;
\* done: any other request that was answered;  dropped: lost in a crash.
InFlight == {"known", "wizard", "remember", "refund", "body", "catch"}
Handler == [pc : InFlight \cup {"idle", "delivered", "failed", "done", "dropped"},
            wallet : Wallet \cup {NoIdentity}]

Init ==
  /\ sessions = [s \in Sid |-> NoIdentity]
  /\ accounts = [a \in AccountId |-> NoEmail]
  /\ former = [a \in AccountId |-> NoIdentity]
  /\ issued = {}
  /\ ledgers = [w \in Wallet |-> emptyLedger]
  /\ topups = [t \in TopupId |->
                 [status |-> "none", wallet |-> NoIdentity, amount |-> 0]]
  /\ req = [r \in Request |-> [pc |-> "idle", wallet |-> NoIdentity]]
  /\ site = [r \in Request |-> "unsent"]
  /\ crashes = 0

-----------------------------------------------------------------------------
\* Sessions and accounts

\* randomUUID
Fresh(id) == id \notin issued

\* The cookie s names a live guest session.
IsGuest(s) == s \in Sid /\ sessions[s] = s

\* ensureGuestIdentity and continueAsGuest for a browser with no usable session.
StartGuest(s) ==
  /\ Fresh(s)
  /\ issued' = issued \cup {s}
  /\ sessions' = [sessions EXCEPT ![s] = s]
  /\ UNCHANGED <<accounts, former, ledgers, topups, req, site, crashes>>

\* A mutant: the copy starts from an empty ledger with the guest's balance.
LedgersCopiedBare(g, a) ==
  [ledgers EXCEPT ![a] = [ledgers[g] EXCEPT !.onDisk = TRUE, !.entries = <<>>]]

\* migrateGuestLedgerUnlocked, its writes one by one: the account's file ...
\* (Its early return, taken when that file exists, needs an account id that is
\* not new: FreshIsBlank says there is none.)
LedgersCopied(g, a) ==
  [ledgers EXCEPT ![a] = [ledgers[g] EXCEPT !.onDisk = TRUE]]

\* ... and the guest's file unlinked.
LedgersMoved(g, a) == [LedgersCopied(g, a) EXCEPT ![g] = emptyLedger]

\* A mutant: only the open requests are moved.
TopupsMovedOpen(g, a) ==
  [t \in TopupId |-> IF topups[t].wallet = g /\ topups[t].status \in OpenStatus
                     THEN [topups[t] EXCEPT !.wallet = a] ELSE topups[t]]

\* migratePendingTopupsUnlocked: every record of the guest, whatever its status.
TopupsMoved(g, a) ==
  [t \in TopupId |-> IF topups[t].wallet = g
                     THEN [topups[t] EXCEPT !.wallet = a] ELSE topups[t]]

\* The 409 check of registerAccount, inside the lock.
EmailFree(e) == \A a \in AccountId : accounts[a] # e

\* A mutant: the row holds the session id where the e-mail belongs.
SignedUpSwapped(s, a, e) ==
  /\ accounts' = [accounts EXCEPT ![a] = s]
  /\ issued' = issued \cup {s, a}

\* The new account row, and the two ids registerAccount issues.
SignedUp(s, a, e) ==
  /\ accounts' = [accounts EXCEPT ![a] = e]
  /\ issued' = issued \cup {s, a}

\* A mutant: the guest's session row stays beside the account's.
SessionsMovedKept(g, s, a) == [sessions EXCEPT ![s] = a]

\* The guest session is deleted and an account session is opened.
SessionsMoved(g, s, a) == [sessions EXCEPT ![g] = NoIdentity, ![s] = a]

\* registerAccount from a guest session: the guest's Kredit moves to a new
\* account.  unlinkSync may throw; the code catches that and goes on with both
\* files in place.
RegisterGuest(g, s, a, e) ==
  /\ IsGuest(g)
  /\ EmailFree(e)
  /\ Fresh(a) /\ Fresh(s)
  /\ ledgers' \in {LedgersCopied(g, a), LedgersMoved(g, a)}
  /\ topups' = TopupsMoved(g, a)
  /\ SignedUp(s, a, e)
  /\ former' = [former EXCEPT ![a] = g]
  /\ sessions' = SessionsMoved(g, s, a)
  /\ UNCHANGED <<req, site, crashes>>

\* registerAccount with no guest session: nothing to migrate; the old session,
\* if the cookie names one, is deleted.
RegisterNew(from, s, a, e) ==
  /\ ~IsGuest(from)
  /\ EmailFree(e)
  /\ Fresh(a) /\ Fresh(s)
  /\ SignedUp(s, a, e)
  /\ sessions' = [x \in Sid |-> IF x = s THEN a
                                ELSE IF x = from THEN NoIdentity ELSE sessions[x]]
  /\ UNCHANGED <<former, ledgers, topups, req, site, crashes>>

\* loginAccount, whatever session the browser had before; no Kredit moves.
Login(from, s, a) ==
  /\ accounts[a] # NoEmail
  /\ Fresh(s)
  /\ issued' = issued \cup {s}
  /\ sessions' = [x \in Sid |-> IF x = s THEN a
                                ELSE IF x = from THEN NoIdentity ELSE sessions[x]]
  /\ UNCHANGED <<accounts, former, ledgers, topups, req, site, crashes>>

\* logoutSession
Logout(s) ==
  /\ sessions[s] # NoIdentity
  /\ sessions' = [sessions EXCEPT ![s] = NoIdentity]
  /\ UNCHANGED <<accounts, former, issued, ledgers, topups, req, site, crashes>>

-----------------------------------------------------------------------------
\* Request handlers

Goto(r, pc) == req' = [req EXCEPT ![r].pc = pc]

\* lookupIdentity: the first section of every route; later sections use the
\* captured wallet and never look at the session again.
Lookup(r, s) ==
  /\ req[r].pc = "idle"
  /\ sessions[s] # NoIdentity
  /\ req' = [req EXCEPT ![r] = [pc |-> "known", wallet |-> sessions[s]]]
  /\ UNCHANGED <<identityVars, ledgers, topups, site, crashes>>

\* api/kredit/faucet: creditFaucet, with the lab faucet switched on.
Faucet(r, n) ==
  /\ req[r].pc = "known"
  /\ ledgers' = [ledgers EXCEPT ![req[r].wallet] = creditFaucet(@, n)]
  /\ Goto(r, "done")
  /\ UNCHANGED <<identityVars, topups, site, crashes>>

\* A mutant: only a request without a proof counts as open.
OpenOnPending(w) == {t \in TopupId : topups[t].wallet = w /\ topups[t].status = "pending"}

\* The open requests of a wallet (isOpenTopupStatus).
OpenOn(w) == {t \in TopupId : topups[t].wallet = w /\ topups[t].status \in OpenStatus}

\* api/kredit/topup: createTopupRequest; TopupOpenConflictError if one is open.
CreateTopup(r, t, n) ==
  /\ req[r].pc = "known"
  /\ topups[t].status = "none"
  /\ OpenOn(req[r].wallet) = {}
  /\ topups' = [topups EXCEPT ![t] =
                  [status |-> "pending", wallet |-> req[r].wallet, amount |-> n]]
  /\ Goto(r, "done")
  /\ UNCHANGED <<identityVars, ledgers, site, crashes>>

\* A mutant: a proof may be sent for a request that is already cancelled.
ProofOpenOrCancelled(t) == topups[t].status \in OpenStatus \cup {"cancelled"}

\* submitTopupProof refuses a request that is approved or cancelled.
ProofAccepted(t) == topups[t].status \in OpenStatus

\* api/kredit/topup/proof: submitTopupProof.
SubmitProof(r, t) ==
  /\ req[r].pc = "known"
  /\ topups[t].wallet = req[r].wallet
  /\ ProofAccepted(t)
  /\ topups' = [topups EXCEPT ![t].status = "proof_submitted"]
  /\ Goto(r, "done")
  /\ UNCHANGED <<identityVars, ledgers, site, crashes>>

\* api/kredit/topup/cancel: cancelTopupRequest; a second cancel changes nothing.
CancelTopup(r, t) ==
  /\ req[r].pc = "known"
  /\ topups[t].wallet = req[r].wallet
  /\ topups[t].status \in OpenStatus \cup {"cancelled"}
  /\ topups' = [topups EXCEPT ![t].status = "cancelled"]
  /\ Goto(r, "done")
  /\ UNCHANGED <<identityVars, ledgers, site, crashes>>

\* Any other answer that changes nothing: a 4xx of the routes above, a 402 of
\* generate (InsufficientKreditError).
Refuse(r) ==
  /\ req[r].pc = "known"
  /\ Goto(r, "done")
  /\ UNCHANGED <<identityVars, ledgers, topups, site, crashes>>

-----------------------------------------------------------------------------
\* The operator

\* The ledger of the record's wallet after creditApprovedTopupUnlocked.
LedgersCredited(t) ==
  [ledgers EXCEPT ![topups[t].wallet] = creditApprovedTopup(@, t, topups[t].amount)]

\* A mutant: the cancelled check is missing.
ApproveTopupCancelled(t) ==
  /\ topups[t].status # "none"
  /\ ledgers' = LedgersCredited(t)
  /\ UNCHANGED <<identityVars, topups, req, site, crashes>>

\* api/kredit/topup/approve: approveTopupRequest writes the ledger, then the
\* record.  A request with no proof yet and one already approved are accepted.
ApproveTopup(t) ==
  /\ topups[t].status \in OpenStatus \cup {"approved"}
  /\ ledgers' = LedgersCredited(t)
  /\ topups' = [topups EXCEPT ![t].status = "approved"]
  /\ UNCHANGED <<identityVars, req, site, crashes>>

-----------------------------------------------------------------------------
\* The Generate order

\* debitStarter on the captured ledger, then the POST to the wizard is sent.
Debit(r) ==
  LET w == req[r].wallet IN
  /\ req[r].pc = "known"
  /\ canDebitStarter(ledgers[w], r)
  /\ ledgers' = [ledgers EXCEPT ![w] = debitStarter(@, r)]
  /\ Goto(r, "wizard")
  /\ site' = [site EXCEPT ![r] = "asked"]
  /\ UNCHANGED <<identityVars, topups, crashes>>

\* The same with CHANNEL_STARTER_URL unset: nothing is sent, the debit is
\* taken back and the answer is 503.
DebitUnconfigured(r) ==
  LET w == req[r].wallet IN
  /\ req[r].pc = "known"
  /\ canDebitStarter(ledgers[w], r)
  /\ ledgers' = [ledgers EXCEPT ![w] = debitStarter(@, r)]
  /\ Goto(r, "catch")
  /\ UNCHANGED <<identityVars, topups, site, crashes>>

\* The wizard works on its own: it builds the site or gives up on it.
WizardBuilds(r) ==
  /\ site[r] = "asked"
  /\ site' = [site EXCEPT ![r] = "built"]
  /\ UNCHANGED <<identityVars, ledgers, topups, req, crashes>>

WizardGivesUp(r) ==
  /\ site[r] = "asked"
  /\ site' = [site EXCEPT ![r] = "rejected"]
  /\ UNCHANGED <<identityVars, ledgers, topups, req, crashes>>

\* A 2xx or 3xx answer; with a slug in it the debit's note is written next.
AnswerOk(r) ==
  /\ req[r].pc = "wizard"
  /\ site[r] = "built"
  /\ \E next \in {"remember", "delivered"} : Goto(r, next)
  /\ UNCHANGED <<identityVars, ledgers, topups, site, crashes>>

\* A 4xx or 5xx answer.  The wizard also answers 400 when the site is written
\* and its deployment raises.
AnswerError(r) ==
  /\ req[r].pc = "wizard"
  /\ site[r] \in {"built", "rejected"}
  /\ Goto(r, "refund")
  /\ UNCHANGED <<identityVars, ledgers, topups, site, crashes>>

\* A mutant: a lost answer is reported without going through the catch arm.
AnswerLostUnrefunded(r) ==
  /\ req[r].pc = "wizard"
  /\ Goto(r, "failed")
  /\ UNCHANGED <<identityVars, ledgers, topups, site, crashes>>

\* A mutant: the call has no time limit, so it ends only after the wizard does.
AnswerLostUntimed(r) ==
  /\ req[r].pc = "wizard"
  /\ site[r] # "asked"
  /\ Goto(r, "catch")
  /\ UNCHANGED <<identityVars, ledgers, topups, site, crashes>>

\* fetch rejects: refused, reset or timed out, whatever the wizard does.
AnswerLost(r) ==
  /\ req[r].pc = "wizard"
  /\ Goto(r, "catch")
  /\ UNCHANGED <<identityVars, ledgers, topups, site, crashes>>

\* rememberStarterSlug on the captured ledger; the answer is 200.
Remember(r) ==
  LET w == req[r].wallet IN
  /\ req[r].pc = "remember"
  /\ ledgers' = [ledgers EXCEPT ![w] = rememberStarterSlug(@, r)]
  /\ Goto(r, "delivered")
  /\ UNCHANGED <<identityVars, topups, site, crashes>>

\* rememberStarterSlug throws (the file cannot be written): to the catch arm.
RememberThrows(r) ==
  /\ req[r].pc = "remember"
  /\ Goto(r, "catch")
  /\ UNCHANGED <<identityVars, ledgers, topups, site, crashes>>

\* refundStarter on the captured ledger, after an error answer or in the catch.
Refund(r) ==
  LET w == req[r].wallet IN
  /\ req[r].pc \in {"refund", "catch"}
  /\ ledgers' = [ledgers EXCEPT ![w] = refundStarter(@, r)]
  /\ Goto(r, IF req[r].pc = "refund" THEN "body" ELSE "failed")
  /\ UNCHANGED <<identityVars, topups, site, crashes>>

\* The error body is read after the refund; if that throws, the catch arm
\* calls refundStarter a second time.
ErrorBody(r) ==
  /\ req[r].pc = "body"
  /\ \E next \in {"failed", "catch"} : Goto(r, next)
  /\ UNCHANGED <<identityVars, ledgers, topups, site, crashes>>

-----------------------------------------------------------------------------
\* Crashes of the portal process

\* What a crash does besides the files: the requests in flight are gone.
Restarted ==
  /\ crashes < MaxCrashes
  /\ crashes' = crashes + 1
  /\ req' = [r \in Request |-> IF req[r].pc \in InFlight
                               THEN [req[r] EXCEPT !.pc = "dropped"] ELSE req[r]]
  /\ UNCHANGED site

Crash ==
  /\ Restarted
  /\ UNCHANGED <<identityVars, ledgers, topups>>

\* approveTopupRequest cut between the ledger and the record.
ApproveCrash(t) ==
  /\ topups[t].status \in OpenStatus
  /\ ledgers' = LedgersCredited(t)
  /\ Restarted
  /\ UNCHANGED <<identityVars, topups>>

\* registerAccount cut after its first, second or third write; the identity
\* store, written last, never hears of the account.
RegisterCrash(g, a, e) ==
  /\ IsGuest(g)
  /\ EmailFree(e)
  /\ Fresh(a)
  /\ \/ ledgers' = LedgersCopied(g, a) /\ UNCHANGED topups
     \/ ledgers' = LedgersCopied(g, a) /\ topups' = TopupsMoved(g, a)
     \/ ledgers' = LedgersMoved(g, a) /\ topups' = TopupsMoved(g, a)
  /\ issued' = issued \cup {a}
  /\ Restarted
  /\ UNCHANGED <<sessions, accounts, former>>

-----------------------------------------------------------------------------

IdentityStep ==
  \/ \E s \in Sid : StartGuest(s) \/ Logout(s)
  \/ \E g, s \in Sid, a \in AccountId, e \in Email : RegisterGuest(g, s, a, e)
  \/ \E from \in Sid \cup {NoIdentity}, s \in Sid, a \in AccountId :
       Login(from, s, a) \/ \E e \in Email : RegisterNew(from, s, a, e)

RouteStep(r) ==
  \/ \E s \in Sid : Lookup(r, s)
  \/ \E n \in FaucetKr : Faucet(r, n)
  \/ \E t \in TopupId :
       \/ \E n \in Packs : CreateTopup(r, t, n)
       \/ SubmitProof(r, t)
       \/ CancelTopup(r, t)
  \/ Refuse(r)

GenerateStep(r) ==
  \/ AnswerOk(r) \/ AnswerError(r) \/ AnswerLost(r)
  \/ Remember(r) \/ RememberThrows(r)
  \/ Refund(r) \/ ErrorBody(r)

WizardStep(r) == WizardBuilds(r) \/ WizardGivesUp(r)

CrashStep ==
  \/ Crash
  \/ \E t \in TopupId : ApproveCrash(t)
  \/ \E g \in Sid, a \in AccountId, e \in Email : RegisterCrash(g, a, e)

Next ==
  \/ IdentityStep
  \/ \E r \in Request : RouteStep(r) \/ Debit(r) \/ DebitUnconfigured(r)
                        \/ GenerateStep(r) \/ WizardStep(r)
  \/ \E t \in TopupId : ApproveTopup(t)
  \/ CrashStep

Spec == Init /\ [][Next]_vars

\* The event loop goes on with a route whose answer is there, and the HTTP
\* client gives a silent wizard up (undici's 300 s headers timeout).  Nothing is
\* assumed of customers, of the operator or of the wizard.
FairSpec == Spec /\ \A r \in Request : WF_vars(GenerateStep(r))

-----------------------------------------------------------------------------
\* What must hold

TypeOK ==
  /\ sessions \in [Sid -> Wallet \cup {NoIdentity}]
  /\ accounts \in [AccountId -> Email \cup {NoEmail}]
  /\ former \in [AccountId -> Sid \cup {NoIdentity}]
  /\ issued \subseteq Wallet
  /\ ledgers \in [Wallet -> Ledger]
  /\ topups \in [TopupId -> Topup]
  /\ req \in [Request -> Handler]
  /\ site \in [Request -> {"unsent", "asked", "built", "rejected"}]
  /\ crashes \in 0 .. MaxCrashes

\* Every ledger file explains its balance (Chained), over debits, credits,
\* refunds, migrations and crashes.
LedgersChained == \A w \in Wallet : Chained(ledgers[w])

\* On one ledger an order is debited at most once and refunded at most once,
\* and a top-up is credited at most once (Unrepeated), whatever is approved
\* again or refunded by two arms of the same route.
NothingTwice == \A w \in Wallet : Unrepeated(ledgers[w])

\* No refund without its debit (Backed), on any ledger.
RefundsBacked == \A w \in Wallet : Backed(ledgers[w])

\* What a ledger file may be relied on for: its rows add up to its balance and
\* none of them is there twice or without its cause, however debits, approvals,
\* refunds, copies to an account and crashes fell between one another.
LedgersAccount == LedgersChained /\ NothingTwice /\ RefundsBacked

\* An approved top-up is on the ledger of the wallet that owns the record now,
\* however registrations and crashes fell between the writes of the two files.
ApprovedIsCredited ==
  \A t \in TopupId : topups[t].status = "approved" =>
    Has(ledgers[topups[t].wallet], "topup", t)

\* The wallets a customer can reach: those of the sessions and the registered
\* accounts.
Live ==
  ({sessions[s] : s \in Sid} \cap Wallet)
    \cup {a \in AccountId : accounts[a] # NoEmail}

\* Wallets money can be spent from: the live ones, and whatever a request in
\* flight still holds.
Spendable ==
  Live \cup {req[r].wallet : r \in {x \in Request : req[x].pc \in InFlight}}

\* g is the guest that became the account a, and nobody can reach it any more.
Retired(g, a) ==
  /\ a \in AccountId
  /\ former[a] = g
  /\ g \notin Live

\* Copying a guest's ledger to an account never lets two identities spend the
\* same credit, even when a crash or an unlink that throws leaves both files
\* behind.  The one wallet that may show a credit beside its owner is the file
\* of the guest that became that owner, and then only for a request that
\* captured it before the registration and is still in flight.
NoDoubleSpend ==
  \A t \in TopupId : \A v, w \in Spendable :
    Has(ledgers[v], "topup", t) /\ Has(ledgers[w], "topup", t) =>
      v = w \/ Retired(v, w) \/ Retired(w, v)

\* At most one open top-up request per wallet (KREDIT.pendingMaxPerWallet),
\* across migrations of requests to an account.
OneOpenTopup ==
  \A s, t \in TopupId :
    /\ topups[s].status \in OpenStatus /\ topups[t].status \in OpenStatus
    /\ topups[s].wallet = topups[t].wallet
    => s = t

\* Approved and cancelled are final: no step reopens or switches a settled
\* request, and none changes its amount.
SettledIsFinal ==
  [][\A t \in TopupId : topups[t].status \in {"approved", "cancelled"} =>
       topups'[t].status = topups[t].status /\ topups'[t].amount = topups[t].amount]_vars

\* A UUID that was never issued is blank everywhere: no session, no account, no
\* ledger file, no top-up, no request in flight.  So the early return of
\* migrateGuestLedgerUnlocked for an existing account file is never taken.
FreshIsBlank ==
  \A w \in Wallet : Fresh(w) =>
    /\ ledgers[w] = emptyLedger
    /\ w \in AccountId => accounts[w] = NoEmail
    /\ \A t \in TopupId : topups[t].wallet # w
    /\ \A r \in Request : req[r].wallet # w
    /\ \A s \in Sid : sessions[s] # w

\* A failed order is refunded on every ledger that shows its debit, unless its
\* guest registered: a registration between the debit and the refund is the one
\* way to lose it.
RefundUnlessRegistered ==
  \A r \in Request : req[r].pc = "failed" =>
    \/ \A w \in Wallet : Has(ledgers[w], "debit", r) => Has(ledgers[w], "refund", r)
    \/ \E a \in AccountId : former[a] = req[r].wallet

\* While the portal stays up, a debited order is answered: delivered or failed,
\* through every error path of the route.
OrderSettles ==
  \A r \in Request : req[r].pc = "wizard" ~> req[r].pc \in {"delivered", "failed"}

\* While the portal stays up, the top-up desk is the abstract one, where the
\* credit and the approval are one step (TopupPromise.tla).
Promise == INSTANCE TopupPromise WITH
  desk <- [t \in TopupId |-> IF topups[t].status \in OpenStatus
                             THEN "open" ELSE topups[t].status],
  credited <- {t \in TopupId : \E w \in Wallet : Has(ledgers[w], "topup", t)}
KeepsPromise == Promise!Spec

\* Over all ledgers and through registrations, copied files and crashes, an
\* order is the abstract one (OrderPromise.tla): paid once, delivered or refunded
\* only when paid, and never both.
Deal == INSTANCE OrderPromise WITH
  Order <- Request,
  paid <- {r \in Request : \E w \in Wallet : Has(ledgers[w], "debit", r)},
  delivered <- {r \in Request : req[r].pc = "delivered"},
  refunded <- {r \in Request : \E w \in Wallet : Has(ledgers[w], "refund", r)}
OrdersKeepPromise == Deal!Spec

=============================================================================
