--------------------------- MODULE KreditSession ---------------------------
(***************************************************************************)
(* The Kredit a page shows: hooks/useKreditSession.ts with                 *)
(* components/KreditPanel.tsx, as the Starter order, the package orders    *)
(* and the Kredit page use them, and the wallet routes they call.          *)
(*                                                                         *)
(* The page keeps a snapshot of the wallet and replaces it by whatever the *)
(* next answer carries.  A route acts on the wallet first, then reads the  *)
(* balance, then the open top-ups (kreditClientView), and the operator may *)
(* credit the top-up between any two of these.  An order's answer carries  *)
(* a balance only.  Nothing is polled.  An answer may be lost before or    *)
(* after the portal's work, and the page may be loaded again meanwhile.    *)
(***************************************************************************)
EXTENDS Integers, FiniteSets

CONSTANTS
    Slots,           \* requests under way at one time, forgotten ones included
    Mount,           \* the GET /api/kredit of the mount
    Price,           \* KREDIT.starterPriceKr
    Pack,            \* Kredit of a top-up
    FaucetKr,        \* Kredit of one faucet call
    Start,           \* balance at the beginning
    MaxBalance,      \* bound on faucet and approvals
    MaxCredits       \* bound on approvals

ASSUME SessionAssumption ==
    /\ Mount \notin Slots
    /\ {Price, Pack, FaucetKr} \subseteq Nat \ {0}
    /\ {Start, MaxBalance, MaxCredits} \subseteq Nat

VARIABLES
    busy,        \* the hook's flag
    shown,       \* kredit
    reqs,        \* the requests; heard: the page still waits for the answer
    wallet,      \* balance, open top-up, and the top-ups credited so far
    lost,        \* history: since the mount, an answer did not come
    early        \* history: a button was used before the mount's GET was shown

vars == <<busy, shown, reqs, wallet, lost, early>>

Calls == Slots \cup {Mount}
Topup == {"none", "pending", "proof"}
Snapshot == [balance : Nat, credited : Nat, topup : Topup]
NoSnap == [balance |-> 0, credited |-> 0, topup |-> "none"]

Idle == [kind |-> "none", at |-> "idle", heard |-> FALSE, snap |-> NoSnap]
Sent(kind, at) == [kind |-> kind, at |-> at, heard |-> TRUE, snap |-> NoSnap]

Init ==
    /\ busy = FALSE
    /\ shown = [known |-> FALSE, snap |-> NoSnap]
    /\ reqs = [s \in Calls |-> IF s = Mount THEN Sent("get", "acted") ELSE Idle]
    /\ wallet = [balance |-> Start, credited |-> 0, topup |-> "none"]
    /\ lost = FALSE /\ early = FALSE

Waits(s) == reqs[s].heard

\* Bound: room for more Kredit, refunds counted in.
Room == MaxBalance - wallet.balance
        - Price * Cardinality({s \in Slots : reqs[s].at = "debited"})

-----------------------------------------------------------------------------
(* The buttons                                                             *)

\* The buttons of KreditPanel, of the card of an open top-up in it, and the
\* order's button, which needs no snapshot.
PanelOffers(kind) ==
    /\ shown.known
    /\ kind = "faucet" \/ (kind = "topup" /\ shown.snap.topup = "none")

CardOffers(kind) ==
    /\ shown.known /\ shown.snap.topup # "none"
    /\ kind = "cancel" \/ (kind = "proof" /\ shown.snap.topup = "pending")

Offered(kind) == kind = "pay" \/ PanelOffers(kind) \/ CardOffers(kind)

Buttons == {"topup", "proof", "cancel", "faucet", "pay"}

\* requestTopup, submitProof, cancelTopup, isiKeran, and handlePay.
Click(s, kind) ==
    /\ s \in Slots /\ reqs[s] = Idle
    /\ ~busy /\ Offered(kind)
    /\ reqs' = [reqs EXCEPT ![s] = Sent(kind, "sent")]
    /\ busy' = TRUE
    /\ early' = (early \/ Waits(Mount))
    /\ UNCHANGED <<shown, wallet, lost>>

-----------------------------------------------------------------------------
(* The routes                                                              *)

\* Of a request nobody waits for only what it may still do is kept.
Forgotten(q) ==
    IF q.at \in {"sent", "debited"} THEN [q EXCEPT !.heard = FALSE, !.snap = NoSnap]
    ELSE Idle

Becomes(s, at, snap) ==
    LET q == [reqs[s] EXCEPT !.at = at, !.snap = snap]
    IN  reqs' = [reqs EXCEPT ![s] = IF q.heard THEN q ELSE Forgotten(q)]

\* The work of a route, on the wallet as it is when the request gets there.
Act(s, kind, new) ==
    /\ reqs[s].at = "sent" /\ reqs[s].kind = kind
    /\ wallet' = new
    /\ Becomes(s, "acted", NoSnap)
    /\ UNCHANGED <<busy, shown, lost, early>>

createTopup(s) ==
    wallet.topup = "none" /\ Act(s, "topup", [wallet EXCEPT !.topup = "pending"])

submitTopupProof(s) ==
    wallet.topup # "none" /\ Act(s, "proof", [wallet EXCEPT !.topup = "proof"])

cancelTopup(s) ==
    wallet.topup # "none" /\ Act(s, "cancel", [wallet EXCEPT !.topup = "none"])

faucet(s) ==
    FaucetKr <= Room /\ Act(s, "faucet", [wallet EXCEPT !.balance = @ + FaucetKr])

\* kreditClientView: the snapshot of the ledger first,
ReadBalance(s) ==
    /\ reqs[s].at = "acted"
    /\ Becomes(s, "counted", [wallet EXCEPT !.topup = "none"])
    /\ UNCHANGED <<busy, shown, wallet, lost, early>>

\* then the open top-ups.
ListTopups(s) ==
    /\ reqs[s].at = "counted"
    /\ Becomes(s, "view", [reqs[s].snap EXCEPT !.topup = wallet.topup])
    /\ UNCHANGED <<busy, shown, wallet, lost, early>>

\* An error: before the work, or after it, when a read of the view fails.
Refuse(s) ==
    /\ reqs[s].at \in {"sent", "acted", "counted"}
    /\ Becomes(s, "no", NoSnap)
    /\ lost' = (lost \/ (reqs[s].at # "sent" /\ s # Mount))
    /\ UNCHANGED <<busy, shown, wallet, early>>

\* The generate route: 402 answers with the balance,
TooLittle(s) ==
    /\ reqs[s].kind = "pay" /\ reqs[s].at = "sent" /\ wallet.balance < Price
    /\ Becomes(s, "balance", wallet)
    /\ UNCHANGED <<busy, shown, wallet, lost, early>>

\* Mutant: the balance is not looked at.
DebitAnyway(s) ==
    /\ reqs[s].kind = "pay" /\ reqs[s].at = "sent"
    /\ wallet' = [wallet EXCEPT !.balance = @ - Price]
    /\ Becomes(s, "debited", wallet')
    /\ UNCHANGED <<busy, shown, lost, early>>

\* success with the balance of the debit, however long the wizard takes,
Debit(s) ==
    /\ reqs[s].kind = "pay" /\ reqs[s].at = "sent" /\ wallet.balance >= Price
    /\ wallet' = [wallet EXCEPT !.balance = @ - Price]
    /\ Becomes(s, "debited", wallet')
    /\ UNCHANGED <<busy, shown, lost, early>>

Built(s) ==
    /\ reqs[s].at = "debited"
    /\ Becomes(s, "balance", reqs[s].snap)
    /\ UNCHANGED <<busy, shown, wallet, lost, early>>

\* Mutant: a refund answers with the balance of the debit.
RefundStale(s) ==
    /\ reqs[s].at = "debited"
    /\ wallet' = [wallet EXCEPT !.balance = @ + Price]
    /\ Becomes(s, "balance", reqs[s].snap)
    /\ UNCHANGED <<busy, shown, lost, early>>

\* and a refund with the one it makes.
Refund(s) ==
    /\ reqs[s].at = "debited"
    /\ wallet' = [wallet EXCEPT !.balance = @ + Price]
    /\ Becomes(s, "balance", wallet')
    /\ UNCHANGED <<busy, shown, lost, early>>

\* The operator's board, or approve-topup.mjs.
Approve ==
    /\ wallet.topup # "none"
    /\ Pack <= Room /\ wallet.credited < MaxCredits
    /\ wallet' = [balance |-> wallet.balance + Pack, credited |-> wallet.credited + 1,
                  topup |-> "none"]
    /\ UNCHANGED <<busy, shown, reqs, lost, early>>

-----------------------------------------------------------------------------
(* The answers                                                             *)

\* setBusy(false) of every call but the mount's.
Ends(s) ==
    /\ reqs' = [reqs EXCEPT ![s] = Idle]
    /\ busy' = (busy /\ s = Mount)

\* setKredit(fromPayload(data)); the answer of the mount's GET replaces
\* whatever later requests showed.
ShowView(s) ==
    /\ Waits(s) /\ reqs[s].at = "view"
    /\ Ends(s)
    /\ shown' = [known |-> TRUE, snap |-> reqs[s].snap]
    /\ early' = (early /\ (s = Mount \/ Waits(Mount)))
    /\ UNCHANGED <<wallet, lost>>

\* setKredit of an order's answer keeps the top-ups shown, or shows none.
ShowBalance(s) ==
    /\ Waits(s) /\ reqs[s].at = "balance"
    /\ Ends(s)
    /\ shown' = [known |-> TRUE,
                 snap |-> [reqs[s].snap EXCEPT !.topup =
                             IF shown.known THEN shown.snap.topup ELSE "none"]]
    /\ early' = (early \/ ~shown.known)
    /\ UNCHANGED <<wallet, lost>>

ShowError(s) ==
    /\ Waits(s) /\ reqs[s].at = "no"
    /\ Ends(s)
    /\ UNCHANGED <<shown, wallet, lost, early>>

\* The connection fails; what the portal has begun goes on.
Lose(s) ==
    /\ Waits(s)
    /\ reqs' = [reqs EXCEPT ![s] = Forgotten(@)]
    /\ busy' = (busy /\ s = Mount)
    /\ lost' = (lost \/ s # Mount)
    /\ UNCHANGED <<shown, wallet, early>>

\* The page is loaded again.
Reload ==
    /\ busy' = FALSE
    /\ shown' = [known |-> FALSE, snap |-> NoSnap]
    /\ reqs' = [s \in Calls |->
                   IF s = Mount THEN Sent("get", "acted") ELSE Forgotten(reqs[s])]
    /\ lost' = (\E s \in Slots : reqs[s].at \in {"sent", "debited"})
    /\ early' = FALSE
    /\ UNCHANGED wallet

-----------------------------------------------------------------------------

Works == \E s \in Calls :
    \/ createTopup(s) \/ submitTopupProof(s) \/ cancelTopup(s) \/ faucet(s)
    \/ ReadBalance(s) \/ ListTopups(s) \/ Refuse(s)
    \/ TooLittle(s) \/ Debit(s) \/ Built(s) \/ Refund(s)

Shows == \E s \in Calls : ShowView(s) \/ ShowBalance(s) \/ ShowError(s) \/ Lose(s)

Next ==
    \/ \E s \in Slots, kind \in Buttons : Click(s, kind)
    \/ Works \/ Approve \/ Shows \/ Reload

Spec == Init /\ [][Next]_vars

-----------------------------------------------------------------------------

Request == [kind : Buttons \cup {"get", "none"},
            at : {"idle", "sent", "acted", "counted", "view", "no", "debited", "balance"},
            heard : BOOLEAN, snap : Snapshot]

\* Every variable keeps its shape; no balance is negative.
TypeOK ==
    /\ busy \in BOOLEAN
    /\ shown \in [known : BOOLEAN, snap : Snapshot]
    /\ reqs \in [Calls -> Request]
    /\ wallet \in Snapshot
    /\ lost \in BOOLEAN /\ early \in BOOLEAN

\* The flag is up exactly while an answer is waited for, and for one at a time.
OneWalletCall ==
    /\ busy <=> \E s \in Slots : Waits(s)
    /\ \A s, t \in Slots : Waits(s) /\ Waits(t) => s = t

\* When the page waits for nothing, the balance it shows is the wallet's but
\* for the top-ups credited since it was read, and an open request is on the
\* page: with a view read in two steps, the operator between them, and orders
\* that answer with the balance of their debit; unless an answer was lost or a
\* button used before the first GET was shown.  The page is the wallet's only
\* client: a second tab that spends from it is outside this model.
ShownIsWallet ==
    shown.known /\ ~busy /\ ~lost /\ ~early =>
        /\ wallet.balance = shown.snap.balance
                            + Pack * (wallet.credited - shown.snap.credited)
        /\ wallet.topup # "none" => shown.snap.topup = wallet.topup

=============================================================================
