---- MODULE KreditPromiseProofs ----
(***************************************************************************)
(* What the portal promises about Kredit, for every number of sessions,    *)
(* accounts, requests and top-ups: a delivered order is paid, a failed one *)
(* is refunded unless its guest registered meanwhile, every order is the   *)
(* one of OrderPromise, and, while the portal stays up, the top-up desk is *)
(* the one of TopupPromise.                                                *)
(***************************************************************************)
EXTENDS KreditPortalProofs

\* The two kinds of rows that name an order.
OrderKind == {"debit", "refund"}

\* The guest g has registered: its ledger was moved to an account.
Registered(g) == \E a \in AccountId : former[a] = g

\* Nobody is the former guest of an account id that is still new, so a
\* registration never overwrites another one.
FormerIssued == \A a \in AccountId : former[a] # NoIdentity => a \in issued

Spent(r) == \E w \in Wallet : Has(ledgers[w], "debit", r)
NotRefunded(r) == \A w \in Wallet : ~Has(ledgers[w], "refund", r)
SpentOnOwn(r) == \A w \in Wallet : Has(ledgers[w], "debit", r) => w = req[r].wallet
AllRefunded(r) ==
  \A w \in Wallet : Has(ledgers[w], "debit", r) => Has(ledgers[w], "refund", r)

\* An order, followed through its program counter: from the debit on it is on
\* some ledger, it is refunded nowhere before its route refunds it, and until the
\* route is over its debit is on the wallet the route captured, where the
\* refund will look for it, unless that wallet's guest registered.
OrderSound(r) ==
  /\ req[r].pc \in {"wizard", "remember", "delivered"} => Spent(r)
  /\ req[r].pc \in {"wizard", "remember", "refund", "delivered"} => NotRefunded(r)
  /\ req[r].pc \in {"wizard", "remember", "refund", "body", "catch"} =>
       Registered(req[r].wallet) \/ SpentOnOwn(r)
  /\ req[r].pc \in {"body", "failed"} => Registered(req[r].wallet) \/ AllRefunded(r)

OInv == IInv /\ FormerIssued /\ \A r \in Request : OrderSound(r)

LEMMA InitOrders == Init => OInv
<1>1. Init => IInv
  BY InitInv
<1> QED
  BY <1>1 DEF OInv, Init, FormerIssued, OrderSound

-----------------------------------------------------------------------------
\* Registrations

\* A registered guest stays registered.
LEMMA RegisteredStays ==
  ASSUME TypeOK, FormerIssued, [Next]_vars
  PROVE  /\ \A w \in Wallet : Registered(w) => \E a \in AccountId : former'[a] = w
         /\ FormerIssued'
<1> USE DEF TypeOK
<1>1. issued \subseteq issued'
  BY IssuedGrows
<1>2. CASE UNCHANGED former
  BY <1>1, <1>2 DEF Registered, FormerIssued
<1>3. ASSUME NEW g \in Sid, NEW s \in Sid, NEW a \in AccountId, NEW e \in Email,
             RegisterGuest(g, s, a, e)
      PROVE  /\ \A w \in Wallet : Registered(w) => \E b \in AccountId : former'[b] = w
             /\ FormerIssued'
  <2>1. former' = [former EXCEPT ![a] = g] /\ a \notin issued /\ a \in issued'
    BY <1>3 DEF RegisterGuest, Fresh, SignedUp
  <2>2. \A b \in AccountId : former[b] \in Wallet => former'[b] = former[b]
    <3>1. former[a] = NoIdentity /\ NoIdentity \notin Wallet
      BY <2>1, SortAssumption DEF FormerIssued, Wallet
    <3> QED
      BY <2>1, <3>1
  <2>3. FormerIssued'
    BY <1>1, <2>1 DEF FormerIssued
  <2> QED
    BY <2>2, <2>3 DEF Registered
<1>4. CASE IdentityStep
  <2>1. UNCHANGED former
        \/ \E g, s \in Sid, a \in AccountId, e \in Email : RegisterGuest(g, s, a, e)
    BY <1>4 DEF IdentityStep, StartGuest, Logout, RegisterNew, Login
  <2> QED
    BY <1>2, <1>3, <2>1
<1>5. CASE \E g \in Sid, a \in AccountId, e \in Email : RegisterCrash(g, a, e)
  BY <1>2, <1>5 DEF RegisterCrash
<1>6. CASE UNCHANGED identityVars
  BY <1>2, <1>6 DEF identityVars
<1> QED
  BY <1>4, <1>5, <1>6, IdentityWriters

-----------------------------------------------------------------------------
\* The rows of one order

\* The rows of r on every ledger are those they were.
RowsStay(r) ==
  \A w \in Wallet, k \in OrderKind : Has(ledgers'[w], k, r) <=> Has(ledgers[w], k, r)

\* A write of one ledger that leaves the order's rows alone there, leaves them
\* alone everywhere.
LEMMA OneLedger ==
  ASSUME IInv, NEW r \in Request, NEW v \in Wallet, NEW m,
         ledgers' = [ledgers EXCEPT ![v] = m],
         \A k \in OrderKind : Has(m, k, r) <=> Has(ledgers[v], k, r)
  PROVE  RowsStay(r)
<1>1. ledgers \in [Wallet -> Ledger]
  BY DEF IInv, TypeOK
<1> QED
  BY <1>1 DEF RowsStay

\* What a request past its lookup may rely on.
LEMMA Captured ==
  ASSUME IInv, NEW r \in Request, req[r].pc # "idle"
  PROVE  /\ req[r].wallet \in Wallet /\ Sound(ledgers[req[r].wallet])
         /\ r \in Ref /\ r \notin TopupId
  BY SortAssumption DEF IInv, Owners, LedgersSound

\* The debit is the order's first row, and puts it on its own wallet only.
LEMMA DebitRows ==
  ASSUME IInv, NEW r \in Request, Debit(r) \/ DebitUnconfigured(r), NEW w \in Wallet
  PROVE  /\ Has(ledgers'[w], "debit", r) <=> w = req[r].wallet
         /\ ~Has(ledgers'[w], "refund", r)
         /\ \A q \in Request : q # r => RowsStay(q)
<1> DEFINE v == req[r].wallet
           m == debitStarter(ledgers[v], r)
<1>1. /\ req[r].pc = "known" /\ canDebitStarter(ledgers[v], r)
      /\ ledgers' = [ledgers EXCEPT ![v] = m]
  BY DEF Debit, DebitUnconfigured
<1>2. v \in Wallet /\ Sound(ledgers[v]) /\ r \in Ref
  BY <1>1, Captured
<1>3. \A u \in Wallet : ~Has(ledgers[u], "debit", r)
  BY <1>1 DEF IInv, Unspent
<1>4. \A u \in Wallet : ~Has(ledgers[u], "refund", r)
  BY <1>2, <1>3 DEF IInv, LedgersSound, Sound, Backed, Has
<1>5. \A k, x : Has(m, k, x) <=> Has(ledgers[v], k, x) \/ (k = "debit" /\ x = r)
  BY <1>1, <1>2, <1>3, DebitSound
<1>6. ledgers \in [Wallet -> Ledger]
  BY DEF IInv, TypeOK
<1>7. req[r].wallet = v
  OBVIOUS
<1> HIDE DEF m, v
<1>8. ASSUME NEW q \in Request, q # r PROVE RowsStay(q)
  BY <1>1, <1>2, <1>5, <1>8, OneLedger
<1> QED
  BY <1>1, <1>2, <1>3, <1>4, <1>5, <1>6, <1>7, <1>8

\* The refund answers the debit on the captured wallet, and only that one.
LEMMA RefundRows ==
  ASSUME IInv, NEW r \in Request, Refund(r), NEW w \in Wallet
  PROVE  /\ Has(ledgers'[w], "debit", r) <=> Has(ledgers[w], "debit", r)
         /\ Has(ledgers'[w], "refund", r) <=>
              \/ Has(ledgers[w], "refund", r)
              \/ w = req[r].wallet /\ Has(ledgers[w], "debit", r)
         /\ \A q \in Request : q # r => RowsStay(q)
<1> DEFINE v == req[r].wallet
           m == refundStarter(ledgers[v], r)
<1>1. req[r].pc # "idle" /\ ledgers' = [ledgers EXCEPT ![v] = m]
  BY DEF Refund
<1>2. v \in Wallet /\ Sound(ledgers[v]) /\ r \in Ref
  BY <1>1, Captured
<1>3. \A k, x : Has(m, k, x) <=>
        Has(ledgers[v], k, x) \/ (k = "refund" /\ x = r /\ Has(ledgers[v], "debit", r))
  BY <1>2, RefundSound
<1>4. ledgers \in [Wallet -> Ledger]
  BY DEF IInv, TypeOK
<1>5. req[r].wallet = v
  OBVIOUS
<1> HIDE DEF m, v
<1>6. ASSUME NEW q \in Request, q # r PROVE RowsStay(q)
  BY <1>1, <1>2, <1>3, <1>6, OneLedger
<1> QED
  BY <1>1, <1>2, <1>3, <1>4, <1>5, <1>6

\* Noting the slug moves no row of any order.
LEMMA RememberRows ==
  ASSUME IInv, NEW q \in Request, Remember(q), NEW r \in Request
  PROVE  RowsStay(r)
<1> DEFINE v == req[q].wallet
           m == rememberStarterSlug(ledgers[v], q)
<1>1. req[q].pc # "idle" /\ ledgers' = [ledgers EXCEPT ![v] = m]
  BY DEF Remember
<1>2. v \in Wallet /\ Sound(ledgers[v])
  BY <1>1, Captured
<1>3. \A k, x : Has(m, k, x) <=> Has(ledgers[v], k, x)
  BY <1>2, RememberSound
<1> HIDE DEF m, v
<1> QED
  BY <1>1, <1>2, <1>3, OneLedger

\* A credit from the faucet names no order.
LEMMA FaucetRows ==
  ASSUME IInv, NEW q \in Request, NEW n \in FaucetKr, Faucet(q, n), NEW r \in Request
  PROVE  RowsStay(r)
<1> DEFINE v == req[q].wallet
           m == creditFaucet(ledgers[v], n)
<1>1. req[q].pc # "idle" /\ ledgers' = [ledgers EXCEPT ![v] = m] /\ n \in Nat
  BY AmountAssumption DEF Faucet
<1>2. v \in Wallet /\ Sound(ledgers[v])
  BY <1>1, Captured
<1>3. \A k, x : Has(m, k, x) <=> Has(ledgers[v], k, x) \/ (k = "faucet" /\ x = NoRef)
  BY <1>1, <1>2, FaucetSound
<1> HIDE DEF m, v
<1> QED
  BY <1>1, <1>2, <1>3, OneLedger DEF OrderKind

\* An approved top-up names no order either.
LEMMA ApprovedRows ==
  ASSUME IInv, NEW t \in TopupId, ApproveTopup(t) \/ ApproveCrash(t), NEW r \in Request
  PROVE  RowsStay(r)
<1> DEFINE v == topups[t].wallet
           m == creditApprovedTopup(ledgers[v], t, topups[t].amount)
<1>1. topups[t].status # "none" /\ ledgers' = LedgersCredited(t)
  BY DEF ApproveTopup, ApproveCrash, OpenStatus
<1>2. ledgers' = [ledgers EXCEPT ![v] = m]
  BY <1>1 DEF LedgersCredited
<1>3. v \in Wallet /\ Sound(ledgers[v]) /\ t \in Ref /\ topups[t].amount \in Nat
  BY <1>1, AmountNat, SortAssumption DEF IInv, Owners, LedgersSound
<1>4. \A k, x : Has(m, k, x) <=> Has(ledgers[v], k, x) \/ (k = "topup" /\ x = t)
  BY <1>3, ApprovedSound
<1> HIDE DEF m, v
<1> QED
  BY <1>2, <1>3, <1>4, OneLedger DEF OrderKind

\* But for registrations, only the order's own route touches its rows.
LEMMA OtherRows ==
  ASSUME IInv, [Next]_vars, NEW r \in Request, req'[r] = req[r]
  PROVE  \/ RowsStay(r)
         \/ \E g, s \in Sid, a \in AccountId, e \in Email : RegisterGuest(g, s, a, e)
         \/ \E g \in Sid, a \in AccountId, e \in Email : RegisterCrash(g, a, e)
<1>1. ~Debit(r) /\ ~DebitUnconfigured(r) /\ ~Refund(r)
  BY DEF Debit, DebitUnconfigured, Refund, Goto, IInv, TypeOK, Handler
<1>2. CASE UNCHANGED ledgers
  BY <1>2 DEF RowsStay
<1>3. ASSUME NEW q \in Request, Debit(q) \/ DebitUnconfigured(q) PROVE RowsStay(r)
  <2>1. q # r
    BY <1>1, <1>3
  <2>2. req[q].wallet \in Wallet
    BY <1>3, Captured DEF Debit, DebitUnconfigured
  <2> QED
    BY <1>3, <2>1, <2>2, DebitRows
<1>4. ASSUME NEW q \in Request, Refund(q) PROVE RowsStay(r)
  <2>1. q # r
    BY <1>1, <1>4
  <2>2. req[q].wallet \in Wallet
    BY <1>4, Captured DEF Refund
  <2> QED
    BY <1>4, <2>1, <2>2, RefundRows
<1> QED
  BY <1>2, <1>3, <1>4, RememberRows, FaucetRows, ApprovedRows, LedgerWriters

-----------------------------------------------------------------------------
\* The order's own steps

\* The steps of other routes, and the answers that change nothing.
LEMMA RequestSteps ==
  ASSUME IInv, [Next]_vars, NEW r \in Request
  PROVE  \/ req'[r] = req[r]
         \/ req'[r].pc \in {"known", "done", "dropped"}
         \/ Debit(r) \/ DebitUnconfigured(r) \/ GenerateStep(r)
<1> USE DEF IInv, TypeOK, Handler, InFlight
<1>1. ASSUME NEW q \in Request, RouteStep(q)
      PROVE  req'[r] = req[r] \/ req'[r].pc \in {"known", "done"}
  BY <1>1 DEF RouteStep, Lookup, Faucet, CreateTopup, SubmitProof, CancelTopup, Refuse, Goto
<1>2. ASSUME NEW q \in Request, q # r, Debit(q) \/ DebitUnconfigured(q) \/ GenerateStep(q)
      PROVE  req'[r] = req[r]
  BY <1>2 DEF Debit, DebitUnconfigured, GenerateStep, AnswerOk, AnswerError, AnswerLost,
    Remember, RememberThrows, Refund, ErrorBody, Goto
<1>3. CASE IdentityStep
  BY <1>3 DEF IdentityStep, StartGuest, Logout, RegisterGuest, RegisterNew, Login
<1>4. ASSUME NEW q \in Request, WizardStep(q) PROVE req'[r] = req[r]
  BY <1>4 DEF WizardStep, WizardBuilds, WizardGivesUp
<1>5. ASSUME NEW t \in TopupId, ApproveTopup(t) PROVE req'[r] = req[r]
  BY <1>5 DEF ApproveTopup
<1>6. ASSUME Restarted PROVE req'[r] = req[r] \/ req'[r].pc = "dropped"
  BY <1>6 DEF Restarted
<1>7. CASE CrashStep
  BY <1>6, <1>7 DEF CrashStep, Crash, ApproveCrash, RegisterCrash
<1>8. CASE UNCHANGED vars
  BY <1>8 DEF vars
<1> QED
  BY <1>1, <1>2, <1>3, <1>4, <1>5, <1>7, <1>8 DEF Next

\* An order that just was debited.
LEMMA DebitKeeps ==
  ASSUME IInv, NEW r \in Request, Debit(r) \/ DebitUnconfigured(r)
  PROVE  OrderSound(r)'
<1>1. req[r].wallet \in Wallet
  BY Captured DEF Debit, DebitUnconfigured
<1>2. req'[r].wallet = req[r].wallet /\ req'[r].pc \in {"wizard", "catch"}
  BY DEF Debit, DebitUnconfigured, Goto, IInv, TypeOK, Handler
<1>3. \A w \in Wallet : /\ Has(ledgers'[w], "debit", r) <=> w = req[r].wallet
                        /\ ~Has(ledgers'[w], "refund", r)
  BY DebitRows
<1> QED
  BY <1>1, <1>2, <1>3 DEF OrderSound, Spent, NotRefunded, SpentOnOwn

\* An order that is under way, step by step: what it owes at a point follows
\* from what it owed at the point before.
LEMMA GenerateKeeps ==
  ASSUME IInv, NEW r \in Request, OrderSound(r), GenerateStep(r)
  PROVE  OrderSound(r)'
<1>1. UNCHANGED former /\ req'[r].wallet = req[r].wallet
  BY DEF GenerateStep, AnswerOk, AnswerError, AnswerLost, Remember, RememberThrows,
    Refund, ErrorBody, Goto, identityVars, IInv, TypeOK, Handler
<1>2. CASE AnswerOk(r) \/ AnswerError(r) \/ AnswerLost(r) \/ RememberThrows(r)
  <2>1. UNCHANGED ledgers /\ req[r].pc \in {"wizard", "remember"}
    BY <1>2 DEF AnswerOk, AnswerError, AnswerLost, RememberThrows
  <2>2. req'[r].pc \in {"remember", "delivered", "refund", "catch"}
    BY <1>2 DEF AnswerOk, AnswerError, AnswerLost, RememberThrows, Goto, IInv, TypeOK, Handler
  <2> QED
    BY <1>1, <2>1, <2>2
    DEF OrderSound, Spent, NotRefunded, SpentOnOwn, Registered
<1>3. CASE Remember(r)
  <2>1. req[r].pc = "remember" /\ req'[r].pc = "delivered"
    BY <1>3 DEF Remember, Goto, IInv, TypeOK, Handler
  <2>2. RowsStay(r)
    BY <1>3, RememberRows
  <2> QED
    BY <2>1, <2>2 DEF OrderSound, Spent, NotRefunded, RowsStay, OrderKind
<1>4. CASE Refund(r)
  <2>1. req[r].pc \in {"refund", "catch"} /\ req'[r].pc \in {"body", "failed"}
    BY <1>4 DEF Refund, Goto, IInv, TypeOK, Handler
  <2>2. \A w \in Wallet :
          /\ Has(ledgers'[w], "debit", r) <=> Has(ledgers[w], "debit", r)
          /\ Has(ledgers'[w], "refund", r) <=>
               \/ Has(ledgers[w], "refund", r)
               \/ w = req[r].wallet /\ Has(ledgers[w], "debit", r)
    BY <1>4, RefundRows
  <2>3. Registered(req[r].wallet) \/ SpentOnOwn(r)
    BY <2>1 DEF OrderSound
  <2>4. Registered(req[r].wallet) => Registered(req[r].wallet)'
    BY <1>1 DEF Registered
  <2>5. SpentOnOwn(r) => SpentOnOwn(r)' /\ AllRefunded(r)'
    BY <1>1, <2>2 DEF SpentOnOwn, AllRefunded
  <2> QED
    BY <2>1, <2>3, <2>4, <2>5 DEF OrderSound
<1>5. CASE ErrorBody(r)
  <2>1. UNCHANGED ledgers /\ req[r].pc = "body"
    BY <1>5 DEF ErrorBody
  <2>2. req'[r].pc \in {"failed", "catch"}
    BY <1>5 DEF ErrorBody, Goto, IInv, TypeOK, Handler
  <2> QED
    BY <1>1, <2>1, <2>2 DEF OrderSound, SpentOnOwn, AllRefunded, Registered
<1> QED
  BY <1>2, <1>3, <1>4, <1>5 DEF GenerateStep

-----------------------------------------------------------------------------
\* The steps of everybody else

\* Nothing about an order changes when its rows, its handler and the fact that
\* its guest registered stay.
LEMMA FrameKeeps ==
  ASSUME NEW r \in Request, OrderSound(r), req'[r] = req[r], RowsStay(r),
         Registered(req[r].wallet) => \E a \in AccountId : former'[a] = req[r].wallet
  PROVE  OrderSound(r)'
<1>1. Spent(r) => Spent(r)'
  BY DEF Spent, RowsStay, OrderKind
<1>2. NotRefunded(r) => NotRefunded(r)'
  BY DEF NotRefunded, RowsStay, OrderKind
<1>3. SpentOnOwn(r) => SpentOnOwn(r)'
  BY DEF SpentOnOwn, RowsStay, OrderKind
<1>4. AllRefunded(r) => AllRefunded(r)'
  BY DEF AllRefunded, RowsStay, OrderKind
<1>5. Registered(req[r].wallet) => Registered(req[r].wallet)'
  BY DEF Registered
<1> QED
  BY <1>1, <1>2, <1>3, <1>4, <1>5 DEF OrderSound

\* What a migration, whole or cut, does to the rows of an order: those of the
\* guest are on the new account, and on the guest's ledger they stay or go.
LEMMA MigratedRows ==
  ASSUME IInv, NEW g \in Sid, NEW a \in AccountId, IsGuest(g), Fresh(a),
         ledgers' \in {LedgersCopied(g, a), LedgersMoved(g, a)}, NEW r \in Request
  PROVE  /\ Spent(r) => \E w \in Wallet : Has(ledgers'[w], "debit", r)
         /\ NotRefunded(r) => \A w \in Wallet : ~Has(ledgers'[w], "refund", r)
         /\ AllRefunded(r) => \A w \in Wallet :
              Has(ledgers'[w], "debit", r) => Has(ledgers'[w], "refund", r)
         /\ \A w \in Wallet : Has(ledgers'[w], "debit", r) =>
              Has(ledgers[w], "debit", r) \/ (w = a /\ Has(ledgers[g], "debit", r))
<1>1. \A k, x : ~Has(emptyLedger, k, x)
  BY DEF Has, Rows, emptyLedger
<1>2. /\ g \in Wallet /\ a \in Wallet /\ g # a
      /\ \A k, x : Has(ledgers'[a], k, x) <=> Has(ledgers[g], k, x)
      /\ ledgers'[g] \in {ledgers[g], emptyLedger}
      /\ \A w \in Wallet \ {g, a} : ledgers'[w] = ledgers[w]
  BY MigrationShape
<1>3. ledgers[a] = emptyLedger
  BY <1>2 DEF IInv, FreshIsBlank
<1>4. Spent(r) => \E w \in Wallet : Has(ledgers'[w], "debit", r)
  BY <1>1, <1>2, <1>3 DEF Spent
<1>5. NotRefunded(r) => \A w \in Wallet : ~Has(ledgers'[w], "refund", r)
  BY <1>1, <1>2 DEF NotRefunded
<1>6. AllRefunded(r) => \A w \in Wallet :
        Has(ledgers'[w], "debit", r) => Has(ledgers'[w], "refund", r)
  BY <1>1, <1>2 DEF AllRefunded
<1>7. \A w \in Wallet : Has(ledgers'[w], "debit", r) =>
        Has(ledgers[w], "debit", r) \/ (w = a /\ Has(ledgers[g], "debit", r))
  BY <1>1, <1>2
<1> QED
  BY <1>4, <1>5, <1>6, <1>7

\* A registration takes the debit away from the captured wallet only by
\* registering that wallet's guest.
LEMMA RegisterKeeps ==
  ASSUME IInv, FormerIssued, [Next]_vars, NEW r \in Request, OrderSound(r),
         NEW g \in Sid, NEW s \in Sid, NEW a \in AccountId, NEW e \in Email,
         RegisterGuest(g, s, a, e)
  PROVE  OrderSound(r)'
<1>1. /\ IsGuest(g) /\ Fresh(a)
      /\ ledgers' \in {LedgersCopied(g, a), LedgersMoved(g, a)}
      /\ former' = [former EXCEPT ![a] = g] /\ UNCHANGED req
  BY DEF RegisterGuest
<1>2. former'[a] = g
  BY <1>1 DEF IInv, TypeOK
<1>3. /\ Spent(r) => Spent(r)'
      /\ NotRefunded(r) => NotRefunded(r)'
      /\ AllRefunded(r) => AllRefunded(r)'
  BY <1>1, MigratedRows DEF Spent, NotRefunded, AllRefunded
<1>4. ASSUME req[r].pc # "idle", Registered(req[r].wallet)
      PROVE  Registered(req[r].wallet)'
  BY <1>1, <1>4, Captured, RegisteredStays DEF Registered, IInv
<1>5. ASSUME SpentOnOwn(r) PROVE Registered(req[r].wallet)' \/ SpentOnOwn(r)'
  <2>1. CASE g = req[r].wallet
    BY <1>1, <1>2, <2>1 DEF Registered
  <2>2. CASE g # req[r].wallet
    <3>1. g \in Wallet
      BY DEF Wallet
    <3>2. \A w \in Wallet : Has(ledgers'[w], "debit", r) =>
            Has(ledgers[w], "debit", r) \/ (w = a /\ Has(ledgers[g], "debit", r))
      BY <1>1, MigratedRows
    <3> QED
      BY <1>1, <1>5, <2>2, <3>1, <3>2 DEF SpentOnOwn
  <2> QED
    BY <2>1, <2>2
<1> QED
  BY <1>1, <1>3, <1>4, <1>5 DEF OrderSound

\* A registration cut by a crash leaves no order under way; what was answered
\* keeps its rows, on one ledger or on both.
LEMMA CutKeeps ==
  ASSUME IInv, [Next]_vars, NEW r \in Request, OrderSound(r), req'[r] = req[r],
         NEW g \in Sid, NEW a \in AccountId, NEW e \in Email, RegisterCrash(g, a, e)
  PROVE  OrderSound(r)'
<1>1. /\ IsGuest(g) /\ Fresh(a) /\ Restarted /\ UNCHANGED former
      /\ ledgers' \in {LedgersCopied(g, a), LedgersMoved(g, a)}
  BY DEF RegisterCrash
<1>2. req[r].pc \notin InFlight
  BY <1>1 DEF Restarted, InFlight, IInv, TypeOK, Handler
<1>3. /\ Spent(r) => Spent(r)'
      /\ NotRefunded(r) => NotRefunded(r)'
      /\ AllRefunded(r) => AllRefunded(r)'
  BY <1>1, MigratedRows DEF Spent, NotRefunded, AllRefunded
<1>4. Registered(req[r].wallet) => Registered(req[r].wallet)'
  BY <1>1 DEF Registered
<1> QED
  BY <1>2, <1>3, <1>4 DEF OrderSound, InFlight

LEMMA StepOrder ==
  ASSUME IInv, FormerIssued, [Next]_vars, NEW r \in Request, OrderSound(r)
  PROVE  OrderSound(r)'
<1>1. CASE req'[r] = req[r]
  <2>1. CASE req[r].pc = "idle"
    BY <1>1, <2>1 DEF OrderSound
  <2>2. CASE req[r].pc # "idle"
    <3>1. Registered(req[r].wallet) =>
            \E a \in AccountId : former'[a] = req[r].wallet
      BY <2>2, Captured, RegisteredStays DEF IInv
    <3>2. CASE RowsStay(r)
      BY <1>1, <3>1, <3>2, FrameKeeps
    <3> QED
      BY <1>1, <3>2, OtherRows, RegisterKeeps, CutKeeps
  <2> QED
    BY <2>1, <2>2
<1>2. CASE req'[r].pc \in {"known", "done", "dropped"}
  BY <1>2 DEF OrderSound
<1> QED
  BY <1>1, <1>2, DebitKeeps, GenerateKeeps, RequestSteps

LEMMA Orders == Spec => []OInv
<1>1. Init => OInv
  BY InitOrders
<1>2. OInv /\ [Next]_vars => OInv'
  <2> SUFFICES ASSUME OInv, [Next]_vars PROVE OInv'
    OBVIOUS
  <2>1. IInv'
    BY StepInv DEF OInv
  <2>2. FormerIssued'
    BY RegisteredStays DEF OInv, IInv
  <2>3. ASSUME NEW r \in Request PROVE OrderSound(r)'
    BY StepOrder DEF OInv
  <2> QED
    BY <2>1, <2>2, <2>3 DEF OInv
<1> QED
  BY <1>1, <1>2, PTL DEF Spec

-----------------------------------------------------------------------------

\* An order whose site was delivered is paid: some ledger has its debit, and
\* no ledger has a refund of it.
DeliveredIsPaid ==
  \A r \in Request : req[r].pc = "delivered" =>
    /\ \E w \in Wallet : Has(ledgers[w], "debit", r)
    /\ \A w \in Wallet : ~Has(ledgers[w], "refund", r)

\* An order whose site was delivered is debited on some ledger and refunded on
\* none (the success path of generate/route.ts), in every behaviour.
THEOREM DeliveredArePaid == Spec => []DeliveredIsPaid
<1>1. OInv => DeliveredIsPaid
  BY DEF OInv, OrderSound, DeliveredIsPaid, Spent, NotRefunded
<1> QED
  BY <1>1, Orders, PTL

\* An order that failed is refunded on every ledger that shows its debit,
\* unless its guest registered (the error paths of generate/route.ts).
THEOREM FailedAreRefunded == Spec => []RefundUnlessRegistered
<1>1. OInv => RefundUnlessRegistered
  BY DEF OInv, OrderSound, RefundUnlessRegistered, AllRefunded, Registered
<1> QED
  BY <1>1, Orders, PTL
-----------------------------------------------------------------------------
\* The order as OrderPromise has it

\* The three variables of OrderPromise, as KreditPortal instantiates it.
Paid == {r \in Request : Spent(r)}
Delivered == {r \in Request : req[r].pc = "delivered"}
Refunded == {r \in Request : \E w \in Wallet : Has(ledgers[w], "refund", r)}

SameDeal == Paid' = Paid /\ Delivered' = Delivered /\ Refunded' = Refunded

\* Whether any ledger at all has a row of the order is as it was.
StillThere(r) ==
  \A k \in OrderKind :
    (\E w \in Wallet : Has(ledgers'[w], k, r)) <=> \E w \in Wallet : Has(ledgers[w], k, r)

LEMMA StayIsStill ==
  ASSUME NEW r \in Request, RowsStay(r)
  PROVE  StillThere(r)
  BY DEF RowsStay, StillThere

\* A migration, whole or cut, copies rows and empties the guest's file only when
\* the copy is there: no order loses its debit or its refund, and none gains one.
LEMMA MigrationStill ==
  ASSUME IInv, NEW g \in Sid, NEW a \in AccountId, IsGuest(g), Fresh(a),
         ledgers' \in {LedgersCopied(g, a), LedgersMoved(g, a)}, NEW r \in Request
  PROVE  StillThere(r)
<1>1. \A k, x : ~Has(emptyLedger, k, x)
  BY DEF Has, Rows, emptyLedger
<1>2. /\ g \in Wallet /\ a \in Wallet /\ g # a
      /\ \A k, x : Has(ledgers'[a], k, x) <=> Has(ledgers[g], k, x)
      /\ ledgers'[g] \in {ledgers[g], emptyLedger}
      /\ \A w \in Wallet \ {g, a} : ledgers'[w] = ledgers[w]
  BY MigrationShape
<1>3. ledgers[a] = emptyLedger
  BY <1>2 DEF IInv, FreshIsBlank
<1>4. ASSUME NEW k \in OrderKind, NEW w \in Wallet, Has(ledgers'[w], k, r)
      PROVE  \E v \in Wallet : Has(ledgers[v], k, r)
  BY <1>1, <1>2, <1>4
<1>5. ASSUME NEW k \in OrderKind, NEW w \in Wallet, Has(ledgers[w], k, r)
      PROVE  \E v \in Wallet : Has(ledgers'[v], k, r)
  BY <1>1, <1>2, <1>3, <1>5
<1> QED
  BY <1>4, <1>5 DEF StillThere

\* Only the order's debit and its refund change what is paid and refunded.
LEMMA MoneySteps ==
  ASSUME IInv, [Next]_vars
  PROVE  \/ \A r \in Request : StillThere(r)
         \/ \E r \in Request : Debit(r) \/ DebitUnconfigured(r) \/ Refund(r)
<1>1. CASE UNCHANGED ledgers
  BY <1>1 DEF StillThere
<1>2. ASSUME NEW g \in Sid, NEW s \in Sid, NEW a \in AccountId, NEW e \in Email,
             RegisterGuest(g, s, a, e), NEW r \in Request
      PROVE  StillThere(r)
  BY <1>2, MigrationStill DEF RegisterGuest
<1>3. ASSUME NEW g \in Sid, NEW a \in AccountId, NEW e \in Email,
             RegisterCrash(g, a, e), NEW r \in Request
      PROVE  StillThere(r)
  BY <1>3, MigrationStill DEF RegisterCrash
<1>4. ASSUME NEW q \in Request, NEW n \in FaucetKr, Faucet(q, n), NEW r \in Request
      PROVE  StillThere(r)
  BY <1>4, FaucetRows, StayIsStill
<1>5. ASSUME NEW t \in TopupId, ApproveTopup(t) \/ ApproveCrash(t), NEW r \in Request
      PROVE  StillThere(r)
  BY <1>5, ApprovedRows, StayIsStill
<1>6. ASSUME NEW q \in Request, Remember(q), NEW r \in Request PROVE StillThere(r)
  BY <1>6, RememberRows, StayIsStill
<1> QED
  BY <1>1, <1>2, <1>3, <1>4, <1>5, <1>6, LedgerWriters

\* An order is delivered by its own route, in one of the two steps that answer
\* 200, and what is delivered stays delivered.
LEMMA DeliverySteps ==
  ASSUME IInv, [Next]_vars
  PROVE  \/ Delivered' = Delivered
         \/ \E r \in Request : /\ AnswerOk(r) \/ Remember(r)
                               /\ req[r].pc \in {"wizard", "remember"}
                               /\ Delivered' = Delivered \cup {r}
<1> USE DEF IInv, TypeOK, Handler, InFlight
<1>1. CASE UNCHANGED req
  BY <1>1 DEF Delivered
<1>2. ASSUME NEW q \in Request, RouteStep(q) PROVE Delivered' = Delivered
  BY <1>2 DEF RouteStep, Lookup, Faucet, CreateTopup, SubmitProof, CancelTopup, Refuse,
    Goto, Delivered
<1>3. ASSUME NEW q \in Request, Debit(q) \/ DebitUnconfigured(q)
      PROVE  Delivered' = Delivered
  BY <1>3 DEF Debit, DebitUnconfigured, Goto, Delivered
<1>4. ASSUME NEW q \in Request,
             AnswerError(q) \/ AnswerLost(q) \/ RememberThrows(q) \/ Refund(q) \/ ErrorBody(q)
      PROVE  Delivered' = Delivered
  BY <1>4 DEF AnswerError, AnswerLost, RememberThrows, Refund, ErrorBody, Goto, Delivered
<1>5. ASSUME NEW q \in Request, AnswerOk(q) \/ Remember(q)
      PROVE  /\ req[q].pc \in {"wizard", "remember"}
             /\ Delivered' = Delivered \/ Delivered' = Delivered \cup {q}
  BY <1>5 DEF AnswerOk, Remember, Goto, Delivered
<1>6. CASE IdentityStep
  BY <1>1, <1>6 DEF IdentityStep, StartGuest, Logout, RegisterGuest, RegisterNew, Login
<1>7. ASSUME NEW q \in Request, WizardStep(q) PROVE Delivered' = Delivered
  BY <1>7 DEF WizardStep, WizardBuilds, WizardGivesUp, Delivered
<1>8. ASSUME NEW t \in TopupId, ApproveTopup(t) PROVE Delivered' = Delivered
  BY <1>8 DEF ApproveTopup, Delivered
<1>9. ASSUME Restarted PROVE Delivered' = Delivered
  BY <1>9 DEF Restarted, Delivered
<1>10. CASE CrashStep
  BY <1>9, <1>10 DEF CrashStep, Crash, ApproveCrash, RegisterCrash
<1>11. CASE UNCHANGED vars
  BY <1>1, <1>11 DEF vars
<1> QED
  BY <1>2, <1>3, <1>4, <1>5, <1>6, <1>7, <1>8, <1>10, <1>11 DEF Next, GenerateStep

\* The debit pays for an order that nobody has paid for yet.
LEMMA DebitPays ==
  ASSUME OInv, NEW r \in Request, Debit(r) \/ DebitUnconfigured(r), [Next]_vars
  PROVE  Deal!Pay(r)
<1>1. req[r].pc = "known" /\ req[r].wallet \in Wallet
  BY Captured DEF OInv, Debit, DebitUnconfigured
<1>2. \A w \in Wallet : ~Has(ledgers[w], "debit", r) /\ ~Has(ledgers[w], "refund", r)
  BY <1>1, SortAssumption DEF OInv, IInv, Unspent, LedgersSound, Sound, Backed, Has
<1>3. \A w \in Wallet : /\ Has(ledgers'[w], "debit", r) <=> w = req[r].wallet
                        /\ ~Has(ledgers'[w], "refund", r)
  BY DebitRows DEF OInv
<1>4. \A q \in Request : q # r => RowsStay(q)
  BY <1>1, DebitRows DEF OInv
<1>5. Paid' = Paid \cup {r} /\ r \notin Paid
  BY <1>1, <1>2, <1>3, <1>4 DEF Paid, Spent, RowsStay, OrderKind
<1>6. Refunded' = Refunded
  BY <1>2, <1>3, <1>4 DEF Refunded, RowsStay, OrderKind
<1>7. Delivered' = Delivered
  BY DEF Debit, DebitUnconfigured, Goto, Delivered, OInv, IInv, TypeOK, Handler
<1> QED
  BY <1>5, <1>6, <1>7 DEF Deal!Pay, Paid, Spent, Delivered, Refunded

\* The refund, in either arm, gives back what was paid, once; where there is
\* nothing left to give back it changes nothing.
LEMMA RefundRepays ==
  ASSUME OInv, NEW r \in Request, Refund(r)
  PROVE  Deal!Refund(r) \/ SameDeal
<1>1. req[r].pc \in {"refund", "catch"} /\ req[r].wallet \in Wallet
  BY Captured DEF OInv, Refund
<1>2. \A w \in Wallet :
        /\ Has(ledgers'[w], "debit", r) <=> Has(ledgers[w], "debit", r)
        /\ Has(ledgers'[w], "refund", r) <=>
             \/ Has(ledgers[w], "refund", r)
             \/ w = req[r].wallet /\ Has(ledgers[w], "debit", r)
  BY RefundRows DEF OInv
<1>3. \A q \in Request : q # r => RowsStay(q)
  BY <1>1, RefundRows DEF OInv
<1>4. Paid' = Paid
  BY <1>2, <1>3 DEF Paid, Spent, RowsStay, OrderKind
<1>5. Delivered' = Delivered /\ r \notin Delivered
  BY <1>1 DEF Refund, Goto, Delivered, OInv, IInv, TypeOK, Handler
<1>6. CASE r \notin Refunded /\ Has(ledgers[req[r].wallet], "debit", r)
  <2>1. Refunded' = Refunded \cup {r} /\ r \in Paid
    BY <1>1, <1>2, <1>3, <1>6 DEF Refunded, Paid, Spent, RowsStay, OrderKind
  <2> QED
    BY <1>4, <1>5, <1>6, <2>1
    DEF Deal!Refund, Deal!Due, Paid, Spent, Delivered, Refunded
<1>7. CASE r \in Refunded \/ ~Has(ledgers[req[r].wallet], "debit", r)
  <2>1. Refunded' = Refunded
    BY <1>2, <1>3, <1>7 DEF Refunded, RowsStay, OrderKind
  <2> QED
    BY <1>4, <1>5, <2>1 DEF SameDeal
<1> QED
  BY <1>6, <1>7

\* A delivery is the delivery of an order that is paid and not refunded.
LEMMA AnswerDelivers ==
  ASSUME OInv, NEW r \in Request, \A q \in Request : StillThere(q),
         req[r].pc \in {"wizard", "remember"}, Delivered' = Delivered \cup {r}
  PROVE  Deal!Deliver(r)
<1>1. Paid' = Paid /\ Refunded' = Refunded
  BY DEF Paid, Spent, Refunded, StillThere, OrderKind
<1>2. r \in Paid /\ r \notin Refunded /\ r \notin Delivered
  BY DEF OInv, OrderSound, Paid, NotRefunded, Refunded, Delivered
<1> QED
  BY <1>1, <1>2 DEF Deal!Deliver, Deal!Due, Paid, Spent, Delivered, Refunded

\* Every step of the portal is a step of the abstract order, or leaves it alone.
LEMMA StepDeal ==
  ASSUME OInv, [Next]_vars
  PROVE  Deal!Next \/ SameDeal
<1>1. CASE \E r \in Request : Debit(r) \/ DebitUnconfigured(r)
  BY <1>1, DebitPays DEF Deal!Next
<1>2. CASE \E r \in Request : Refund(r)
  BY <1>2, RefundRepays DEF Deal!Next
<1>3. CASE \A r \in Request : StillThere(r)
  <2>1. CASE Delivered' = Delivered
    <3>1. Paid' = Paid /\ Refunded' = Refunded
      BY <1>3 DEF Paid, Spent, Refunded, StillThere, OrderKind
    <3> QED
      BY <2>1, <3>1 DEF SameDeal
  <2>2. CASE \E r \in Request : /\ req[r].pc \in {"wizard", "remember"}
                                /\ Delivered' = Delivered \cup {r}
    BY <1>3, <2>2, AnswerDelivers DEF Deal!Next
  <2> QED
    BY <2>1, <2>2, DeliverySteps DEF OInv
<1> QED
  BY <1>1, <1>2, <1>3, MoneySteps DEF OInv

\* Through registrations, copied ledgers and any number of crashes, the order of
\* generate/route.ts implements OrderPromise: it is paid once, delivered or
\* refunded only when it is paid, and never both.
THEOREM OrdersAreKept == Spec => OrdersKeepPromise
<1>1. Init => Deal!Init
  <2> SUFFICES ASSUME Init PROVE Deal!Init
    OBVIOUS
  <2>1. \A k, x : ~Has(emptyLedger, k, x)
    BY DEF Has, Rows, emptyLedger
  <2> QED
    BY <2>1 DEF Init, Deal!Init
<1>2. OInv /\ [Next]_vars => [Deal!Next]_<<Paid, Delivered, Refunded>>
  BY StepDeal DEF SameDeal
<1> QED
  BY <1>1, <1>2, Orders, PTL
  DEF Spec, OrdersKeepPromise, Deal!Spec, Paid, Spent, Delivered, Refunded
-----------------------------------------------------------------------------
\* The top-up desk

\* No ledger shows the credit of a request that is not approved.  A crash between
\* the two writes of an approval breaks this, and nothing else does.
NoStray ==
  \A t \in TopupId : \A w \in Wallet :
    Has(ledgers[w], "topup", t) => topups[t].status = "approved"

DInv == IInv /\ NoStray

\* The two variables of TopupPromise, as KreditPortal instantiates it.
Desk == [t \in TopupId |-> IF topups[t].status \in OpenStatus
                           THEN "open" ELSE topups[t].status]
Credited == {t \in TopupId : \E w \in Wallet : Has(ledgers[w], "topup", t)}

\* With no stray credit, what is credited can be read off the requests.
LEMMA CreditedAreApproved ==
  ASSUME DInv
  PROVE  Credited = {t \in TopupId : topups[t].status = "approved"}
  BY DEF DInv, IInv, NoStray, ApprovedIsCredited, Owners, Credited

\* A portal that may not crash takes no step of a crash.
LEMMA NoCrashStep ==
  ASSUME MaxCrashes = 0, TypeOK
  PROVE  ~Restarted
  BY DEF TypeOK, Restarted

\* What a step does to one request's status.
LEMMA StatusSteps ==
  ASSUME MaxCrashes = 0, IInv, [Next]_vars
  PROVE  \/ \A t \in TopupId : topups'[t].status = topups[t].status
         \/ \E t \in TopupId, st \in {"pending", "proof_submitted", "cancelled", "approved"} :
              /\ topups'[t].status = st
              /\ \A u \in TopupId \ {t} : topups'[u].status = topups[u].status
              /\ st = "pending" => topups[t].status = "none"
              /\ st = "proof_submitted" => topups[t].status \in OpenStatus
              /\ st \in {"cancelled", "approved"} =>
                   topups[t].status \in OpenStatus \cup {st}
<1> USE DEF Topup
<1>1. topups \in [TopupId -> Topup] /\ ~Restarted
  BY NoCrashStep DEF IInv, TypeOK
<1>2. CASE UNCHANGED topups
  BY <1>2
<1>3. CASE \E g, s \in Sid, a \in AccountId, e \in Email : RegisterGuest(g, s, a, e)
  BY <1>3, TopupShape DEF RegisterGuest
<1>4. ASSUME NEW r \in Request, NEW t \in TopupId, NEW n \in Packs, CreateTopup(r, t, n)
      PROVE  /\ topups'[t].status = "pending" /\ topups[t].status = "none"
             /\ \A u \in TopupId \ {t} : topups'[u].status = topups[u].status
  BY <1>1, <1>4 DEF CreateTopup
<1>5. ASSUME NEW r \in Request, NEW t \in TopupId, SubmitProof(r, t)
      PROVE  /\ topups'[t].status = "proof_submitted" /\ topups[t].status \in OpenStatus
             /\ \A u \in TopupId \ {t} : topups'[u].status = topups[u].status
  BY <1>1, <1>5 DEF SubmitProof, ProofAccepted
<1>6. ASSUME NEW r \in Request, NEW t \in TopupId, CancelTopup(r, t)
      PROVE  /\ topups'[t].status = "cancelled"
             /\ topups[t].status \in OpenStatus \cup {"cancelled"}
             /\ \A u \in TopupId \ {t} : topups'[u].status = topups[u].status
  BY <1>1, <1>6 DEF CancelTopup
<1>7. ASSUME NEW t \in TopupId, ApproveTopup(t)
      PROVE  /\ topups'[t].status = "approved"
             /\ topups[t].status \in OpenStatus \cup {"approved"}
             /\ \A u \in TopupId \ {t} : topups'[u].status = topups[u].status
  BY <1>1, <1>7 DEF ApproveTopup
<1>8. CASE \E g \in Sid, a \in AccountId, e \in Email : RegisterCrash(g, a, e)
  BY <1>1, <1>8 DEF RegisterCrash
<1> HIDE DEF Topup
<1> QED
  BY <1>2, <1>3, <1>4, <1>5, <1>6, <1>7, <1>8, TopupWriters

LEMMA StepDesk ==
  ASSUME MaxCrashes = 0, DInv, [Next]_vars
  PROVE  DInv'
<1>1. IInv'
  BY StepInv DEF DInv
<1>2. ASSUME NEW t \in TopupId, NEW w \in Wallet, Has(ledgers'[w], "topup", t)
      PROVE  topups'[t].status = "approved"
  <2>1. t \in Ref /\ t \notin Request /\ ~Restarted
    BY NoCrashStep, SortAssumption DEF DInv, IInv
  <2>2. CASE \E v \in Wallet : Has(ledgers[v], "topup", t)
    <3>1. topups[t].status = "approved"
      BY <2>2 DEF DInv, NoStray
    <3> QED
      BY <3>1, StatusSteps DEF DInv, OpenStatus
  <2>3. CASE ApproveTopup(t)
    BY <2>3 DEF ApproveTopup, DInv, IInv, TypeOK, Topup
  <2> QED
    BY <1>2, <2>1, <2>2, <2>3, NewRows DEF DInv, ApproveCrash
<1> QED
  BY <1>1, <1>2 DEF DInv, NoStray

\* Every step of the portal is a step of the desk, or leaves the desk alone.
LEMMA StepPromise ==
  ASSUME MaxCrashes = 0, DInv, [Next]_vars
  PROVE  \/ \E t \in TopupId :
              \/ /\ Desk[t] = "none"
                 /\ Desk' = [Desk EXCEPT ![t] = "open"]
                 /\ Credited' = Credited
              \/ /\ Desk[t] = "open"
                 /\ Desk' = [Desk EXCEPT ![t] = "cancelled"]
                 /\ Credited' = Credited
              \/ /\ Desk[t] = "open"
                 /\ Desk' = [Desk EXCEPT ![t] = "approved"]
                 /\ Credited' = Credited \cup {t}
         \/ Desk' = Desk /\ Credited' = Credited
<1>1. /\ Credited = {t \in TopupId : topups[t].status = "approved"}
      /\ Credited' = {t \in TopupId : topups'[t].status = "approved"}
  <2>1. DInv => Credited = {t \in TopupId : topups[t].status = "approved"}
    BY CreditedAreApproved
  <2>2. DInv'
    BY StepDesk
  <2>3. DInv' => Credited' = {t \in TopupId : topups'[t].status = "approved"}
    BY DEF DInv, IInv, NoStray, ApprovedIsCredited, Owners, Credited
  <2> QED
    BY <2>1, <2>2, <2>3
<1>2. CASE \A t \in TopupId : topups'[t].status = topups[t].status
  BY <1>1, <1>2 DEF Desk
<1>3. ASSUME NEW t \in TopupId, NEW st \in {"pending", "proof_submitted", "cancelled", "approved"},
             topups'[t].status = st,
             \A u \in TopupId \ {t} : topups'[u].status = topups[u].status
      PROVE  /\ Desk' = [Desk EXCEPT ![t] = IF st \in OpenStatus THEN "open" ELSE st]
             /\ Credited' = IF st = "approved" THEN Credited \cup {t} ELSE Credited \ {t}
  BY <1>1, <1>3 DEF Desk
<1> QED
  BY <1>1, <1>2, <1>3, StatusSteps DEF Desk, OpenStatus, DInv

\* While the portal does not crash, the top-up desk implements TopupPromise:
\* createTopupRequest, cancelTopupRequest and approveTopupRequest, over two
\* files and with any registrations in between, are the abstract desk's steps.
THEOREM DeskKeepsPromise == ASSUME MaxCrashes = 0 PROVE Spec => KeepsPromise
<1>1. Init => DInv
  <2> SUFFICES ASSUME Init PROVE DInv
    OBVIOUS
  <2>1. \A k, x : ~Has(emptyLedger, k, x)
    BY DEF Has, Rows, emptyLedger
  <2> QED
    BY <2>1, InitInv DEF Init, DInv, NoStray
<1>2. DInv /\ [Next]_vars => DInv'
  BY StepDesk
<1>3. Init => Promise!Init
  <2> SUFFICES ASSUME Init PROVE Promise!Init
    OBVIOUS
  <2>1. \A k, x : ~Has(emptyLedger, k, x)
    BY DEF Has, Rows, emptyLedger
  <2> QED
    BY <2>1 DEF Init, Promise!Init, OpenStatus
<1>4. DInv /\ [Next]_vars => [Promise!Next]_<<Desk, Credited>>
  BY StepPromise DEF Promise!Next, Promise!Ask, Promise!Cancel, Promise!Approve, Desk, Credited
<1> QED
  BY <1>1, <1>2, <1>3, <1>4, PTL DEF Spec, KeepsPromise, Promise!Spec, Desk, Credited
====
