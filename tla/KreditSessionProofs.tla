------------------------- MODULE KreditSessionProofs -------------------------
(***************************************************************************)
(* Proofs about KreditSession, for any slots, prices, packs and balances:  *)
(* the page has one request out at a time, no balance is negative, and     *)
(* what a page that waits for nothing shows is the wallet's.               *)
(*                                                                         *)
(* The invariant follows the snapshot from the route that reads it to the  *)
(* page that shows it: what a request carries is true of the wallet but    *)
(* for the top-ups credited since, and what the page shows stays true      *)
(* until a request of its own has acted.                                   *)
(***************************************************************************)
EXTENDS KreditSession, TLAPS

\* A balance is the wallet's but for the top-ups credited since it was read.
SameBalance(snap) ==
    wallet.balance = snap.balance + Pack * (wallet.credited - snap.credited)

\* An open top-up of the wallet is the one noted; one that is not noted is not there.
OpenNoted(snap) == wallet.topup # "none" => snap.topup = wallet.topup

\* What a request that waits carries, by where its route is.
Carries(q) ==
    /\ q.at \in {"counted", "view", "debited", "balance"} => SameBalance(q.snap)
    /\ q.at = "view" => OpenNoted(q.snap)

\* What the page still shows while one of its requests is at work: all of it until
\* the request has acted, the top-up as long as an order is at work.
StillShown(q) ==
    shown.known =>
        /\ q.at \in {"sent", "no"} => SameBalance(shown.snap)
        /\ q.at \in {"sent", "no", "debited", "balance"} => OpenNoted(shown.snap)

\* Nothing was lost: no request acts that the page does not wait for, and each
\* one it waits for carries the truth.
Heard ==
    ~lost => \A s \in Slots :
        /\ ~Waits(s) => reqs[s] = Idle
        /\ Waits(s) => Carries(reqs[s])
        /\ Waits(s) /\ ~early => StillShown(reqs[s])

\* The GET of the mount, with no button used before it was shown.
FirstGet ==
    /\ Waits(Mount) => reqs[Mount].at \in {"acted", "counted", "view", "no"}
    /\ ~Waits(Mount) => reqs[Mount] = Idle
    /\ Waits(Mount) /\ ~early =>
         /\ ~shown.known
         /\ \A s \in Slots : ~Waits(s)
         /\ ~lost => Carries(reqs[Mount])

IInv == TypeOK /\ OneWalletCall /\ Heard /\ FirstGet /\ ShownIsWallet

-----------------------------------------------------------------------------
(* Shapes                                                                  *)

\* One more top-up credited is one more pack.
LEMMA OnePackMore == ASSUME NEW p \in Nat, NEW c \in Int PROVE p * (c + 1) = p * c + p
  OBVIOUS

LEMMA Values ==
    /\ NoSnap \in Snapshot /\ Idle \in Request
    /\ ~Idle.heard /\ Idle.at = "idle"
    /\ Pack \in Nat /\ Price \in Nat /\ FaucetKr \in Nat
    /\ Slots \subseteq Calls /\ Mount \in Calls /\ Calls \ Slots = {Mount}
  BY SessionAssumption DEF NoSnap, Snapshot, Topup, Idle, Request, Calls, Buttons

\* The fields of a request and of a snapshot.
LEMMA Fields ==
  ASSUME TypeOK
  PROVE  /\ \A s \in Calls : /\ reqs[s] \in Request
                             /\ reqs[s].heard \in BOOLEAN /\ reqs[s].snap \in Snapshot
         /\ wallet \in Snapshot /\ shown.snap \in Snapshot /\ shown.known \in BOOLEAN
  BY DEF TypeOK, Request

LEMMA SnapFields ==
  ASSUME NEW x \in Snapshot
  PROVE  x.balance \in Nat /\ x.credited \in Nat /\ x.topup \in Topup
  BY DEF Snapshot

\* A forgotten request keeps its type and is waited for no more.
LEMMA ForgottenFine ==
  ASSUME NEW q \in Request
  PROVE  /\ Forgotten(q) \in Request /\ ~Forgotten(q).heard
         /\ q.at \notin {"sent", "debited"} => Forgotten(q) = Idle
  BY Values DEF Forgotten, Request, Idle

-----------------------------------------------------------------------------
(* The routes and the operator                                             *)

\* A route that goes on at request s keeps the invariant, if what it leaves in
\* the request is true of the wallet, and what the page shows is as true as the
\* request's new state says.
LEMMA RouteFine ==
  ASSUME IInv, NEW s \in Calls, NEW q \in Request,
         reqs[s].at # "idle", q.heard = reqs[s].heard,
         reqs' = [reqs EXCEPT ![s] = IF reqs[s].heard THEN q ELSE Forgotten(q)],
         UNCHANGED <<busy, shown, early>>,
         wallet' \in Snapshot, lost' \in BOOLEAN, lost => lost',
         s = Mount => /\ UNCHANGED wallet
                      /\ q.at \in {"acted", "counted", "view", "no"},
         lost' \/ (s = Mount /\ early) \/ Carries(q)',
         s \in Slots /\ Waits(s) /\ StillShown(reqs[s]) => lost' \/ StillShown(q)'
  PROVE  IInv'
<1> USE Values
<1>1. /\ reqs \in [Calls -> Request]
      /\ \A x \in Calls \ {s} : reqs'[x] = reqs[x]
      /\ reqs'[s] = IF reqs[s].heard THEN q ELSE Forgotten(q)
  BY DEF IInv, TypeOK
<1>2. reqs' \in [Calls -> Request] /\ reqs'[s].heard = reqs[s].heard
  <2>1. Forgotten(q) \in Request /\ ~Forgotten(q).heard
    BY ForgottenFine
  <2> QED
    BY <1>1, <2>1, Fields DEF IInv, Request
<1>3. TypeOK'
  BY <1>2 DEF IInv, TypeOK
<1>4. \A x \in Calls : Waits(x)' = Waits(x)
  BY <1>1, <1>2 DEF Waits
<1>5. OneWalletCall'
  BY <1>4 DEF IInv, OneWalletCall
<1>6. ~lost' => Waits(s)
  <2> SUFFICES ASSUME ~lost', ~Waits(s) PROVE FALSE
    OBVIOUS
  <2>1. CASE s \in Slots
    BY <2>1 DEF IInv, Heard
  <2>2. CASE s = Mount
    BY <2>2 DEF IInv, FirstGet
  <2> QED
    BY <2>1, <2>2
<1>7. Heard'
  <2> SUFFICES ASSUME ~lost', NEW x \in Slots
               PROVE  /\ ~Waits(x) => reqs'[x] = Idle
                      /\ Waits(x) => Carries(reqs[x])'
                      /\ Waits(x) /\ ~early => StillShown(reqs[x])'
    BY <1>4 DEF Heard
  <2>1. CASE x = s
    <3>1. reqs'[x] = q /\ Waits(s)
      BY <1>1, <1>6, <2>1 DEF Waits
    <3>2. (~early => StillShown(reqs[s])) /\ s # Mount
      BY <2>1, <3>1, SessionAssumption DEF IInv, Heard
    <3> QED
      BY <2>1, <3>1, <3>2 DEF Carries, StillShown, SameBalance, OpenNoted
  <2>2. CASE x # s
    <3>1. reqs'[x] = reqs[x]
      BY <1>1, <2>2
    <3>2. CASE ~Waits(x)
      BY <3>1, <3>2 DEF IInv, Heard
    <3>3. CASE Waits(x)
      <4>1. s = Mount
        BY <1>6, <2>2, <3>3 DEF IInv, OneWalletCall
      <4>2. UNCHANGED <<wallet, shown, early>>
        BY <4>1
      <4>3. Carries(reqs[x]) /\ (~early => StillShown(reqs[x]))
        BY <3>3 DEF IInv, Heard
      <4> QED
        BY <3>1, <3>3, <4>2, <4>3 DEF Carries, StillShown, SameBalance, OpenNoted
    <3> QED
      BY <3>2, <3>3
  <2> QED
    BY <2>1, <2>2
<1>8. FirstGet'
  <2>1. CASE s = Mount
    <3>1. reqs'[Mount] = IF Waits(Mount) THEN q ELSE Forgotten(q)
      BY <1>1, <2>1 DEF Waits
    <3>2. Forgotten(q) = Idle
      BY <2>1, ForgottenFine
    <3>3. lost' \/ early \/ Carries(q)'
      OBVIOUS
    <3> QED
      BY <1>4, <2>1, <3>1, <3>2, <3>3 DEF IInv, FirstGet, Carries, SameBalance, OpenNoted
  <2>2. CASE s # Mount
    <3>1. reqs'[Mount] = reqs[Mount] /\ s \in Slots
      BY <1>1, <2>2
    <3>2. Waits(Mount) /\ ~early => lost'
      BY <1>6, <3>1 DEF IInv, FirstGet
    <3> QED
      BY <1>4, <3>1, <3>2 DEF IInv, FirstGet
  <2> QED
    BY <2>1, <2>2
<1>9. ShownIsWallet'
  <2> SUFFICES ASSUME shown.known, ~busy, ~lost', ~early
               PROVE  UNCHANGED wallet
    BY DEF IInv, ShownIsWallet
  <2>1. ~(s \in Slots)
    BY <1>6 DEF IInv, OneWalletCall
  <2> QED
    BY <2>1
<1> QED
  BY <1>3, <1>5, <1>7, <1>8, <1>9 DEF IInv

\* What a snapshot says of the wallet survives an approval.
LEMMA SnapKept ==
  ASSUME TypeOK, Approve, NEW x \in Snapshot
  PROVE  /\ SameBalance(x) =>
              wallet'.balance = x.balance + Pack * (wallet'.credited - x.credited)
         /\ wallet'.topup = "none"
<1> DEFINE c == wallet.credited - x.credited
<1>1. /\ wallet.credited \in Nat /\ wallet.balance \in Nat /\ x.credited \in Nat
      /\ x.balance \in Nat /\ Pack \in Nat /\ c \in Int
  BY Fields, SnapFields, Values
<1>2. /\ wallet'.balance = wallet.balance + Pack /\ wallet'.topup = "none"
      /\ wallet'.credited - x.credited = c + 1
  BY <1>1 DEF Approve
<1>3. Pack * (c + 1) = Pack * c + Pack /\ Pack * c \in Int
  BY <1>1, OnePackMore
<1>4. SameBalance(x) => wallet.balance = x.balance + Pack * c
  BY DEF SameBalance
<1> HIDE DEF c
<1> QED
  BY <1>1, <1>2, <1>3, <1>4

LEMMA ApproveFine == ASSUME IInv, Approve PROVE IInv'
<1>1. UNCHANGED <<busy, shown, reqs, lost, early>>
  BY DEF Approve
<1>2. TypeOK'
  BY Values, Fields, SnapFields DEF IInv, TypeOK, Approve, Snapshot, Topup
<1>3. OneWalletCall'
  BY <1>1 DEF IInv, OneWalletCall, Waits
<1>4. \A s \in Calls : Carries(reqs[s]) => Carries(reqs[s])'
  BY <1>1, SnapKept, Fields DEF IInv, Carries, SameBalance, OpenNoted
<1>5. \A s \in Calls : StillShown(reqs[s]) => StillShown(reqs[s])'
  BY <1>1, SnapKept, Fields DEF IInv, StillShown, SameBalance, OpenNoted
<1>6. Heard' /\ FirstGet'
  BY <1>1, <1>4, <1>5, Values DEF IInv, Heard, FirstGet, Waits
<1>7. ShownIsWallet'
  BY <1>1, SnapKept, Fields DEF IInv, ShownIsWallet, SameBalance
<1> QED
  BY <1>2, <1>3, <1>6, <1>7 DEF IInv

\* The same for Becomes, which every route ends with.
LEMMA BecomesFine ==
  ASSUME IInv, NEW s \in Calls, NEW snap \in Snapshot,
         NEW at \in {"acted", "counted", "view", "no", "debited", "balance"},
         Becomes(s, at, snap), reqs[s].at # "idle",
         UNCHANGED <<busy, shown, early>>,
         wallet' \in Snapshot, lost' \in BOOLEAN, lost => lost',
         s = Mount => UNCHANGED wallet /\ at \in {"acted", "counted", "view", "no"},
         \/ lost'
         \/ s = Mount /\ early
         \/ /\ at \in {"counted", "view", "debited", "balance"} => SameBalance(snap)'
            /\ at = "view" => OpenNoted(snap)',
         s \in Slots /\ Waits(s) /\ StillShown(reqs[s]) /\ shown.known =>
            \/ lost'
            \/ /\ at = "no" => SameBalance(shown.snap)'
               /\ at \in {"no", "debited", "balance"} => OpenNoted(shown.snap)'
  PROVE  IInv'
<1>1. reqs[s] \in Request
  BY Fields DEF IInv
<1>2. PICK q \in Request :
         /\ q.heard = reqs[s].heard /\ q.at = at /\ q.snap = snap
         /\ reqs' = [reqs EXCEPT ![s] = IF reqs[s].heard THEN q ELSE Forgotten(q)]
  <2> DEFINE next == [reqs[s] EXCEPT !.at = at, !.snap = snap]
  <2>1. next \in Request /\ next.heard = reqs[s].heard /\ next.at = at /\ next.snap = snap
    BY <1>1 DEF Request
  <2>2. reqs' = [reqs EXCEPT ![s] = IF reqs[s].heard THEN next ELSE Forgotten(next)]
    BY <2>1 DEF Becomes
  <2> QED
    BY <2>1, <2>2
<1>3. lost' \/ (s = Mount /\ early) \/ Carries(q)'
  BY <1>2 DEF Carries, SameBalance, OpenNoted
<1>4. s \in Slots /\ Waits(s) /\ StillShown(reqs[s]) => lost' \/ StillShown(q)'
  BY <1>2 DEF StillShown, SameBalance, OpenNoted
<1> QED
  BY <1>2, <1>3, <1>4, RouteFine

\* The mount's GET acts on nothing, and a slot's request acts only while it is
\* waited for, unless an answer was lost.
LEMMA Whose ==
  ASSUME IInv, NEW s \in Calls
  PROVE  /\ reqs[s].at \in {"sent", "debited", "balance"} => s \in Slots
         /\ s \in Slots /\ ~lost /\ reqs[s].at # "idle" => Waits(s) /\ Carries(reqs[s])
         /\ s = Mount /\ ~lost /\ ~early /\ reqs[s].at # "idle" => Carries(reqs[s])
  BY Values DEF IInv, Heard, FirstGet

\* createTopup, submitTopupProof, cancelTopup and faucet have acted; their
\* answer carries nothing yet.
LEMMA ActFine ==
  ASSUME IInv, NEW s \in Calls, NEW kind, NEW new \in Snapshot, Act(s, kind, new)
  PROVE  IInv'
<1>1. s \in Slots /\ s # Mount /\ reqs[s].at # "idle" /\ NoSnap \in Snapshot
  BY Whose, Values, SessionAssumption DEF Act
<1>2. lost' \in BOOLEAN /\ wallet' \in Snapshot /\ (lost => lost')
  BY DEF Act, IInv, TypeOK
<1> QED
  BY <1>1, <1>2, BecomesFine DEF Act

LEMMA ActsFine ==
  ASSUME IInv, NEW s \in Calls,
         createTopup(s) \/ submitTopupProof(s) \/ cancelTopup(s) \/ faucet(s)
  PROVE  IInv'
<1>1. \A t \in {"none", "pending", "proof"} : [wallet EXCEPT !.topup = t] \in Snapshot
  BY Fields DEF IInv, Snapshot, Topup
<1>2. [wallet EXCEPT !.balance = @ + FaucetKr] \in Snapshot
  BY Fields, Values DEF IInv, Snapshot
<1> QED
  BY <1>1, <1>2, ActFine DEF createTopup, submitTopupProof, cancelTopup, faucet

\* A snapshot just taken is true.
LEMMA JustRead ==
  ASSUME NEW w \in Snapshot, NEW x \in Snapshot, x.balance = w.balance, x.credited = w.credited
  PROVE  w.balance = x.balance + Pack * (w.credited - x.credited)
<1>1. w.balance \in Nat /\ w.credited \in Nat /\ Pack \in Nat
  BY SnapFields, Values
<1>2. w.credited - x.credited = 0 /\ Pack * 0 = 0
  BY <1>1
<1> QED
  BY <1>1, <1>2

LEMMA ReadBalanceFine == ASSUME IInv, NEW s \in Calls, ReadBalance(s) PROVE IInv'
<1>1. PICK x \in Snapshot :
         /\ wallet \in Snapshot /\ x.balance = wallet.balance /\ x.credited = wallet.credited
         /\ x = [wallet EXCEPT !.topup = "none"]
  BY Fields DEF IInv, Snapshot, Topup
<1>2. Becomes(s, "counted", x) /\ UNCHANGED <<busy, shown, wallet, lost, early>> /\ reqs[s].at = "acted"
  BY <1>1 DEF ReadBalance
<1>3. wallet.balance = x.balance + Pack * (wallet.credited - x.credited)
  BY <1>1, JustRead
<1>4. wallet'.balance = x.balance + Pack * (wallet'.credited - x.credited)
  BY <1>2, <1>3
<1>5. lost' \in BOOLEAN
  BY <1>2 DEF IInv, TypeOK
<1> QED
  BY <1>1, <1>2, <1>4, <1>5, BecomesFine DEF SameBalance

LEMMA ListTopupsFine == ASSUME IInv, NEW s \in Calls, ListTopups(s) PROVE IInv'
<1>1. PICK x \in Snapshot :
         /\ wallet \in Snapshot /\ x.topup = wallet.topup
         /\ x.balance = reqs[s].snap.balance /\ x.credited = reqs[s].snap.credited
         /\ x = [reqs[s].snap EXCEPT !.topup = wallet.topup]
  BY Fields DEF IInv, Snapshot
<1>2. Becomes(s, "view", x) /\ UNCHANGED <<busy, shown, wallet, lost, early>> /\ reqs[s].at = "counted"
  BY <1>1 DEF ListTopups
<1>3. lost \/ (s = Mount /\ early) \/ SameBalance(reqs[s].snap)
  BY <1>2, Whose, Values DEF Carries
<1>4. lost' \/ (s = Mount /\ early) \/ (SameBalance(x)' /\ OpenNoted(x)')
  BY <1>1, <1>2, <1>3 DEF SameBalance, OpenNoted
<1>5. lost' \in BOOLEAN
  BY <1>2 DEF IInv, TypeOK
<1> QED
  BY <1>1, <1>2, <1>4, <1>5, BecomesFine

LEMMA RefuseFine == ASSUME IInv, NEW s \in Calls, Refuse(s) PROVE IInv'
<1>1. /\ Becomes(s, "no", NoSnap) /\ UNCHANGED <<busy, shown, wallet, early>>
      /\ reqs[s].at # "idle" /\ NoSnap \in Snapshot
      /\ lost' = (lost \/ (reqs[s].at # "sent" /\ s # Mount))
  BY Values DEF Refuse
<1>2. lost' \in BOOLEAN /\ wallet' \in Snapshot /\ (lost => lost')
  BY <1>1 DEF IInv, TypeOK
<1>3. s \in Slots /\ ~lost' => reqs[s].at = "sent"
  BY <1>1, SessionAssumption
<1>4. s \in Slots /\ StillShown(reqs[s]) /\ shown.known =>
        lost' \/ (SameBalance(shown.snap)' /\ OpenNoted(shown.snap)')
  BY <1>1, <1>3 DEF StillShown, SameBalance, OpenNoted
<1> QED
  BY <1>1, <1>2, <1>4, BecomesFine

\* The three answers of an order that carry a balance.
LEMMA OrderFine ==
  ASSUME IInv, NEW s \in Calls, TooLittle(s) \/ Debit(s) \/ Built(s) \/ Refund(s)
  PROVE  IInv'
<1>1. /\ s \in Slots /\ s # Mount /\ reqs[s].at \in {"sent", "debited"}
      /\ UNCHANGED <<busy, shown, lost, early>> /\ lost' \in BOOLEAN
  BY Whose, SessionAssumption DEF TooLittle, Debit, Built, Refund, IInv, TypeOK
<1>2. wallet' \in Snapshot /\ wallet'.topup = wallet.topup
  <2>1. wallet \in Snapshot /\ Price \in Nat /\ wallet.balance \in Nat
    BY Fields, Values, SnapFields DEF IInv
  <2> QED
    BY <2>1 DEF TooLittle, Debit, Built, Refund, Snapshot
<1>3. wallet'.balance = wallet'.balance + Pack * (wallet'.credited - wallet'.credited)
  BY <1>2, JustRead
<1>4. StillShown(reqs[s]) /\ shown.known => OpenNoted(shown.snap)'
  BY <1>1, <1>2 DEF StillShown, OpenNoted
<1>5. CASE TooLittle(s) \/ Debit(s) \/ Refund(s)
  <2>1. \E at \in {"debited", "balance"} : Becomes(s, at, wallet')
    BY <1>5 DEF TooLittle, Debit, Refund
  <2>2. SameBalance(wallet)'
    BY <1>3 DEF SameBalance
  <2> QED
    BY <1>1, <1>2, <1>3, <1>4, <2>1, BecomesFine DEF SameBalance
<1>6. CASE Built(s)
  <2>1. /\ Becomes(s, "balance", reqs[s].snap) /\ UNCHANGED wallet
        /\ reqs[s].at = "debited" /\ reqs[s].snap \in Snapshot
    BY <1>6, Fields DEF Built, IInv
  <2>2. lost \/ SameBalance(reqs[s].snap)
    BY <1>1, <2>1, Whose DEF Carries
  <2>3. lost' \/ wallet'.balance = reqs[s].snap.balance + Pack * (wallet'.credited - reqs[s].snap.credited)
    BY <1>1, <2>1, <2>2 DEF SameBalance
  <2> QED
    BY <1>1, <1>2, <1>4, <2>1, <2>3, BecomesFine DEF SameBalance
<1> QED
  BY <1>5, <1>6

LEMMA WorksFine == IInv /\ Works => IInv'
  BY ActsFine, ReadBalanceFine, ListTopupsFine, RefuseFine, OrderFine DEF Works

-----------------------------------------------------------------------------
(* The page                                                                *)

\* A button is used: the page shows what it showed, and waits.
LEMMA ClickFine ==
  ASSUME IInv, NEW s \in Slots, NEW kind \in Buttons, Click(s, kind)
  PROVE  IInv'
<1>1. /\ reqs \in [Calls -> Request] /\ s \in Calls /\ s # Mount
      /\ UNCHANGED <<shown, wallet, lost>> /\ busy' = TRUE
      /\ early' = (early \/ Waits(Mount)) /\ ~busy
  BY Values, SessionAssumption DEF IInv, TypeOK, Click
<1>2. /\ Sent(kind, "sent") \in Request /\ Sent(kind, "sent").heard
      /\ Sent(kind, "sent").at = "sent"
  BY Values DEF Sent, Request
<1>3. /\ reqs'[s] = Sent(kind, "sent") /\ reqs' \in [Calls -> Request]
      /\ \A x \in Calls \ {s} : reqs'[x] = reqs[x]
  BY <1>1, <1>2 DEF Click
<1>4. \A x \in Slots : ~Waits(x) /\ (Waits(x)' <=> x = s)
  BY <1>1, <1>2, <1>3, Values DEF IInv, OneWalletCall, Waits
<1>5. TypeOK' /\ OneWalletCall'
  BY <1>1, <1>3, <1>4 DEF IInv, TypeOK, OneWalletCall, Waits
<1>6. ~lost /\ ~early' => StillShown(Sent(kind, "sent"))'
  BY <1>1, <1>2 DEF IInv, ShownIsWallet, StillShown, SameBalance, OpenNoted
<1>7. Heard'
  <2>1. ~lost => \A x \in Slots \ {s} : reqs'[x] = Idle
    BY <1>3, <1>4, Values DEF IInv, Heard
  <2>2. Carries(Sent(kind, "sent"))'
    BY <1>2 DEF Carries
  <2> QED
    BY <1>1, <1>2, <1>3, <1>4, <1>6, <2>1, <2>2
    DEF Heard, Waits, Carries, StillShown, SameBalance, OpenNoted
<1>8. FirstGet'
  BY <1>1, <1>3, Values DEF IInv, FirstGet, Waits
<1>9. ShownIsWallet'
  BY <1>1 DEF ShownIsWallet
<1> QED
  BY <1>5, <1>7, <1>8, <1>9 DEF IInv

\* An answer, or a broken connection, ends the wait for s and leaves the wallet
\* alone.  A slot's answer leaves the page right in its own way; with the mount's
\* a page that had not used a button shows a true snapshot for the first time.
LEMMA EndFine ==
  ASSUME IInv, NEW s \in Calls, NEW q \in Request, Waits(s),
         reqs' = [reqs EXCEPT ![s] = q], ~q.heard,
         busy' = (busy /\ s = Mount), UNCHANGED wallet,
         shown' \in [known : BOOLEAN, snap : Snapshot],
         lost' \in BOOLEAN, early' \in BOOLEAN, lost => lost',
         lost' \/ q = Idle, s = Mount => q = Idle,
         early /\ Waits(Mount) => early',
         s = Mount /\ early => early',
         Waits(Mount) /\ ~early /\ s # Mount => FALSE,
         s \in Slots \/ ~early => ShownIsWallet'
  PROVE  IInv'
<1> USE Values
<1>1. /\ reqs \in [Calls -> Request] /\ reqs' \in [Calls -> Request]
      /\ reqs'[s] = q /\ \A x \in Calls \ {s} : reqs'[x] = reqs[x]
  BY DEF IInv, TypeOK
<1>2. TypeOK'
  BY <1>1 DEF IInv, TypeOK
<1>3. \A x \in Calls : Waits(x)' <=> (Waits(x) /\ x # s)
  BY <1>1 DEF Waits
<1>4. busy <=> \E x \in Slots : Waits(x)
  BY DEF IInv, OneWalletCall
<1>5. OneWalletCall'
  <2>1. CASE s = Mount
    <3>1. s \notin Slots
      BY <2>1, SessionAssumption
    <3> QED
      BY <1>3, <1>4, <2>1, <3>1 DEF IInv, OneWalletCall
  <2>2. CASE s # Mount
    <3>1. s \in Slots /\ \A x \in Slots : Waits(x) => x = s
      BY <2>2 DEF IInv, OneWalletCall
    <3> QED
      BY <1>3, <2>2, <3>1 DEF OneWalletCall
  <2> QED
    BY <2>1, <2>2
<1>6. ~lost' => ~lost
  OBVIOUS
<1>7. ShownIsWallet'
  <2>1. CASE s = Mount /\ early
    BY <2>1 DEF ShownIsWallet
  <2> QED
    BY <2>1
<1>8. Heard'
  <2> SUFFICES ASSUME ~lost', NEW x \in Slots
               PROVE  /\ ~Waits(x)' => reqs'[x] = Idle
                      /\ Waits(x)' => Carries(reqs[x])'
                      /\ Waits(x)' /\ ~early' => StillShown(reqs[x])'
    BY DEF Heard
  <2>1. CASE x = s
    BY <1>1, <1>3, <2>1
  <2>2. CASE x # s
    <3>1. reqs'[x] = reqs[x] /\ (Waits(x)' <=> Waits(x))
      BY <1>1, <1>3, <2>2
    <3>2. CASE ~Waits(x)
      BY <1>6, <3>1, <3>2 DEF IInv, Heard
    <3>3. CASE Waits(x)
      <4>1. s = Mount
        BY <2>2, <3>3 DEF IInv, OneWalletCall
      <4>2. early /\ early'
        BY <3>3, <4>1 DEF IInv, FirstGet
      <4>3. Carries(reqs[x])
        BY <1>6, <3>3 DEF IInv, Heard
      <4>4. Carries(reqs[x])'
        BY <3>1, <4>3 DEF Carries, SameBalance, OpenNoted
      <4> QED
        BY <3>1, <3>3, <4>2, <4>4
    <3> QED
      BY <3>2, <3>3
  <2> QED
    BY <2>1, <2>2
<1>9. FirstGet'
  <2>1. CASE s = Mount
    BY <1>1, <1>3, <2>1 DEF FirstGet
  <2>2. CASE s # Mount
    <3>1. reqs'[Mount] = reqs[Mount] /\ (Waits(Mount)' <=> Waits(Mount))
      BY <1>1, <1>3, <2>2
    <3>2. Waits(Mount) => early'
      BY <2>2
    <3> QED
      BY <3>1, <3>2 DEF IInv, FirstGet
  <2> QED
    BY <2>1, <2>2
<1> QED
  BY <1>2, <1>5, <1>7, <1>8, <1>9 DEF IInv

\* A slot waits together with the mount only if a button was used early.
LEMMA EarlyTogether ==
  ASSUME IInv, NEW s \in Slots, Waits(s)
  PROVE  /\ s # Mount /\ (Waits(Mount) => early)
         /\ ~lost => Carries(reqs[s])
         /\ ~lost /\ ~early => StillShown(reqs[s])
  BY SessionAssumption DEF IInv, FirstGet, Heard

LEMMA ShowViewFine == ASSUME IInv, NEW s \in Calls, ShowView(s) PROVE IInv'
<1> USE Values
<1>1. /\ Waits(s) /\ reqs[s].at = "view" /\ UNCHANGED <<wallet, lost>>
      /\ reqs' = [reqs EXCEPT ![s] = Idle] /\ busy' = (busy /\ s = Mount)
      /\ shown' = [known |-> TRUE, snap |-> reqs[s].snap]
      /\ early' = (early /\ (s = Mount \/ Waits(Mount)))
  BY DEF ShowView, Ends
<1>2. /\ reqs[s].snap \in Snapshot /\ lost \in BOOLEAN /\ early \in BOOLEAN
      /\ shown' \in [known : BOOLEAN, snap : Snapshot]
  BY <1>1, Fields DEF IInv, TypeOK
<1>3. s = Mount \/ s \in Slots
  OBVIOUS
<1>4. Waits(Mount) /\ s # Mount => early
  BY <1>1, <1>3, EarlyTogether
<1>5. s \in Slots \/ ~early => lost \/ Carries(reqs[s])
  BY <1>1, <1>3, EarlyTogether DEF IInv, FirstGet
<1>6. s \in Slots \/ ~early => ShownIsWallet'
  BY <1>1, <1>5 DEF Carries, ShownIsWallet, SameBalance, OpenNoted
<1>7. lost' \in BOOLEAN /\ early' \in BOOLEAN /\ (early /\ Waits(Mount) => early')
  BY <1>1, <1>2
<1> QED
  BY <1>1, <1>2, <1>3, <1>4, <1>6, <1>7, EndFine

\* The answer of an order; the mount's GET has none.
LEMMA ShowBalanceFine == ASSUME IInv, NEW s \in Calls, ShowBalance(s) PROVE IInv'
<1> USE Values
<1> DEFINE x == [reqs[s].snap EXCEPT !.topup = IF shown.known THEN shown.snap.topup ELSE "none"]
<1>1. /\ Waits(s) /\ reqs[s].at = "balance" /\ UNCHANGED <<wallet, lost>>
      /\ reqs' = [reqs EXCEPT ![s] = Idle] /\ busy' = (busy /\ s = Mount)
      /\ shown' = [known |-> TRUE, snap |-> x]
      /\ early' = (early \/ ~shown.known)
  BY DEF ShowBalance, Ends
<1>2. /\ s \in Slots /\ s # Mount /\ (Waits(Mount) => early)
      /\ ~lost => Carries(reqs[s])
      /\ ~lost /\ ~early => StillShown(reqs[s])
  BY <1>1, Whose, EarlyTogether
<1>3. /\ reqs[s].snap \in Snapshot /\ shown.snap \in Snapshot /\ shown.known \in BOOLEAN
      /\ lost \in BOOLEAN /\ early \in BOOLEAN
  BY Fields DEF IInv, TypeOK
<1>4. /\ x \in Snapshot /\ x.balance = reqs[s].snap.balance
      /\ x.credited = reqs[s].snap.credited
      /\ shown.known => x.topup = shown.snap.topup
  BY <1>3 DEF Snapshot, Topup
<1> HIDE DEF x
<1>5. ~lost' /\ ~early' => SameBalance(reqs[s].snap) /\ OpenNoted(shown.snap) /\ shown.known
  BY <1>1, <1>2, <1>3 DEF Carries, StillShown
<1>6. shown'.snap = x
  BY <1>1
<1>7. ShownIsWallet'
  BY <1>1, <1>4, <1>5, <1>6 DEF ShownIsWallet, SameBalance, OpenNoted
<1>8. /\ lost' \in BOOLEAN /\ early' \in BOOLEAN
      /\ shown' \in [known : BOOLEAN, snap : Snapshot]
  BY <1>1, <1>3, <1>4
<1> QED
  BY <1>1, <1>2, <1>7, <1>8, EndFine

LEMMA ShowErrorFine == ASSUME IInv, NEW s \in Calls, ShowError(s) PROVE IInv'
<1> USE Values
<1>1. /\ Waits(s) /\ reqs[s].at = "no" /\ UNCHANGED <<shown, wallet, lost, early>>
      /\ reqs' = [reqs EXCEPT ![s] = Idle] /\ busy' = (busy /\ s = Mount)
  BY DEF ShowError, Ends
<1>2. s = Mount \/ s \in Slots
  OBVIOUS
<1>3. CASE s \in Slots
  <2>1. /\ s # Mount /\ (Waits(Mount) => early)
        /\ ~lost /\ ~early => StillShown(reqs[s])
    BY <1>1, <1>3, EarlyTogether
  <2>2. ShownIsWallet'
    BY <1>1, <2>1 DEF ShownIsWallet, StillShown, SameBalance, OpenNoted
  <2> QED
    BY <1>1, <2>1, <2>2, EndFine DEF IInv, TypeOK
<1>4. CASE s = Mount
  <2>1. ~early => ShownIsWallet'
    BY <1>1, <1>4 DEF IInv, FirstGet, ShownIsWallet
  <2>2. s \notin Slots
    BY <1>4, SessionAssumption
  <2> QED
    BY <1>1, <1>4, <2>1, <2>2, EndFine DEF IInv, TypeOK
<1> QED
  BY <1>2, <1>3, <1>4

LEMMA LoseFine == ASSUME IInv, NEW s \in Calls, Lose(s) PROVE IInv'
<1> USE Values
<1>1. /\ Waits(s) /\ UNCHANGED <<shown, wallet, early>>
      /\ reqs' = [reqs EXCEPT ![s] = Forgotten(reqs[s])] /\ busy' = (busy /\ s = Mount)
      /\ lost' = (lost \/ s # Mount)
  BY DEF Lose, IInv, TypeOK
<1>2. Forgotten(reqs[s]) \in Request /\ ~Forgotten(reqs[s]).heard
  BY Fields, ForgottenFine DEF IInv
<1>3. s = Mount => Forgotten(reqs[s]) = Idle
  BY <1>1, Fields, ForgottenFine DEF IInv, FirstGet
<1>4. s # Mount => s \in Slots /\ lost' /\ (Waits(Mount) => early)
  <2> SUFFICES ASSUME s # Mount PROVE s \in Slots /\ lost' /\ (Waits(Mount) => early)
    OBVIOUS
  <2>1. s \in Slots
    OBVIOUS
  <2>2. lost' = TRUE
    BY <1>1
  <2>3. Waits(Mount) => early
    BY <1>1, <2>1, EarlyTogether
  <2> QED
    BY <2>1, <2>2, <2>3
<1>5. s \in Slots \/ ~early => ShownIsWallet'
  <2>1. CASE s # Mount
    BY <1>4, <2>1 DEF ShownIsWallet
  <2>2. CASE s = Mount
    BY <1>1, <2>2, SessionAssumption DEF IInv, FirstGet, ShownIsWallet
  <2> QED
    BY <2>1, <2>2
<1>6. lost' \in BOOLEAN /\ early' \in BOOLEAN /\ shown' \in [known : BOOLEAN, snap : Snapshot]
  BY <1>1 DEF IInv, TypeOK
<1>7. PICK q \in Request :
         /\ reqs' = [reqs EXCEPT ![s] = q] /\ ~q.heard
         /\ s = Mount => q = Idle
  BY <1>1, <1>2, <1>3
<1>8. lost' \/ q = Idle
  BY <1>4, <1>7
<1>9. /\ early /\ Waits(Mount) => early'
      /\ s = Mount /\ early => early'
      /\ Waits(Mount) /\ ~early /\ s # Mount => FALSE
      /\ lost => lost'
  BY <1>1, <1>4
<1> QED
  BY <1>1, <1>5, <1>6, <1>7, <1>8, <1>9, EndFine

\* The page is loaded again: it shows nothing, and what is still at work is lost.
LEMMA ReloadFine == ASSUME IInv, Reload PROVE IInv'
<1> USE Values
<1>1. /\ busy' = FALSE /\ shown' = [known |-> FALSE, snap |-> NoSnap]
      /\ early' = FALSE /\ UNCHANGED wallet
      /\ lost' = (\E s \in Slots : reqs[s].at \in {"sent", "debited"})
  BY DEF Reload
<1>2. /\ reqs'[Mount] = Sent("get", "acted")
      /\ \A s \in Slots : reqs'[s] = Forgotten(reqs[s])
      /\ reqs' = [s \in Calls |-> IF s = Mount THEN Sent("get", "acted") ELSE Forgotten(reqs[s])]
  BY SessionAssumption DEF Reload
<1>3. /\ Sent("get", "acted") \in Request /\ Sent("get", "acted").heard
      /\ Sent("get", "acted").at = "acted"
  BY DEF Sent, Request
<1>4. \A s \in Slots : /\ Forgotten(reqs[s]) \in Request /\ ~Forgotten(reqs[s]).heard
                       /\ ~lost' => Forgotten(reqs[s]) = Idle
  BY <1>1, Fields, ForgottenFine DEF IInv
<1>5. reqs' \in [Calls -> Request]
  BY <1>2, <1>3, <1>4
<1>6. TypeOK' /\ ShownIsWallet'
  BY <1>1, <1>5 DEF IInv, TypeOK, ShownIsWallet
<1>7. Waits(Mount)' /\ \A s \in Slots : ~Waits(s)'
  BY <1>2, <1>3, <1>4 DEF Waits
<1>8. OneWalletCall'
  BY <1>1, <1>7 DEF OneWalletCall
<1>9. Heard'
  BY <1>2, <1>4, <1>7 DEF Heard
<1>10. Carries(reqs[Mount])'
  BY <1>2, <1>3 DEF Carries
<1>11. FirstGet'
  BY <1>1, <1>2, <1>3, <1>7, <1>10 DEF FirstGet
<1> QED
  BY <1>6, <1>8, <1>9, <1>11 DEF IInv

-----------------------------------------------------------------------------
(* The theorems                                                            *)

LEMMA InitFine == Init => IInv
<1> SUFFICES ASSUME Init PROVE IInv
  OBVIOUS
<1> USE Values
<1>1. /\ reqs = [s \in Calls |-> IF s = Mount THEN Sent("get", "acted") ELSE Idle]
      /\ wallet = [balance |-> Start, credited |-> 0, topup |-> "none"]
      /\ ~shown.known /\ shown.snap = NoSnap /\ ~busy /\ ~early
  BY DEF Init
<1>2. /\ Sent("get", "acted") \in Request /\ Sent("get", "acted").heard
      /\ Sent("get", "acted").at = "acted"
  BY DEF Sent, Request
<1>3. wallet \in Snapshot
  BY <1>1, SessionAssumption DEF Snapshot, Topup
<1>4. TypeOK
  BY <1>1, <1>2, <1>3 DEF Init, TypeOK
<1>5. Waits(Mount) /\ \A s \in Slots : reqs[s] = Idle /\ ~Waits(s)
  BY <1>1, <1>2, SessionAssumption DEF Waits
<1>6. OneWalletCall /\ Heard /\ ShownIsWallet
  BY <1>1, <1>5 DEF OneWalletCall, Heard, ShownIsWallet
<1>7. FirstGet
  BY <1>1, <1>2, <1>5 DEF FirstGet, Carries
<1> QED
  BY <1>4, <1>6, <1>7 DEF IInv

LEMMA StepFine == IInv /\ [Next]_vars => IInv'
<1> SUFFICES ASSUME IInv, [Next]_vars PROVE IInv'
  OBVIOUS
<1>1. CASE \E s \in Slots, kind \in Buttons : Click(s, kind)
  BY <1>1, ClickFine
<1>2. CASE Works
  BY <1>2, WorksFine
<1>3. CASE Approve
  BY <1>3, ApproveFine
<1>4. CASE Shows
  BY <1>4, ShowViewFine, ShowBalanceFine, ShowErrorFine, LoseFine DEF Shows
<1>5. CASE Reload
  BY <1>5, ReloadFine
<1>6. CASE UNCHANGED vars
  BY <1>6 DEF vars, IInv, TypeOK, OneWalletCall, Heard, FirstGet, ShownIsWallet,
              Waits, Carries, StillShown, SameBalance, OpenNoted
<1> QED
  BY <1>1, <1>2, <1>3, <1>4, <1>5, <1>6 DEF Next

\* What the proof carries along every run of the page.
THEOREM SessionStays == Spec => []IInv
<1>1. Init => IInv
  BY InitFine
<1>2. IInv /\ [Next]_vars => IInv'
  BY StepFine
<1> QED
  BY <1>1, <1>2, PTL DEF Spec

\* The page, its requests and the wallet keep their shape; above all, no balance
\* is negative: an order is refused or finds its price there when it is debited.
THEOREM TypeCorrect == Spec => []TypeOK
<1>1. IInv => TypeOK
  BY DEF IInv
<1> QED
  BY <1>1, SessionStays, PTL

\* The hook's flag is up exactly while a button's answer is waited for, and never
\* for two of them, whatever is lost and whenever the page is loaded again.
THEOREM OneCallOut == Spec => []OneWalletCall
<1>1. IInv => OneWalletCall
  BY DEF IInv
<1> QED
  BY <1>1, SessionStays, PTL

\* A page that waits for nothing shows the wallet's balance, but for the top-ups
\* credited since it was read, and the open top-up, unless an answer was lost or
\* a button used before the mount's GET was shown: for any number of requests
\* the page forgot, any prices, and top-ups credited at any moment.
THEOREM ShownIsTheWallets == Spec => []ShownIsWallet
<1>1. IInv => ShownIsWallet
  BY DEF IInv
<1> QED
  BY <1>1, SessionStays, PTL

=============================================================================
