------------------------- MODULE KreditPortalProofs -------------------------
(***************************************************************************)
(* The safety invariants of KreditPortal hold for every number of          *)
(* sessions, accounts, requests, top-ups, amounts and crashes.             *)
(*                                                                         *)
(* First what each operation of KreditLedger preserves, for every ledger,  *)
(* order, top-up and amount; then the portal that uses them.               *)
(***************************************************************************)
EXTENDS KreditPortal, SequenceTheorems, TLAPS

-----------------------------------------------------------------------------
\* The ledger

\* A well-formed ledger file: typed, explained by its entries, with nothing
\* twice and no unbacked refund.
Sound(l) == l \in Ledger /\ Chained(l) /\ Unrepeated(l) /\ Backed(l)

LEMMA EmptySound == Sound(emptyLedger)
  BY DEF Sound, emptyLedger, Ledger, Chained, Unrepeated, Backed, Rows

\* pushEntry adds one row at the end and leaves the others alone.
LEMMA PushShape ==
  ASSUME NEW l \in Ledger, NEW kind \in Kind, NEW delta \in Int,
         NEW ref \in Ref \cup {NoRef}, NEW m, m = pushEntry(l, kind, delta, ref)
  PROVE  /\ m \in Ledger
         /\ m.balance = l.balance + delta
         /\ l.balance \in Int
         /\ Len(l.entries) \in Nat
         /\ Len(m.entries) = Len(l.entries) + 1
         /\ m.entries # <<>>
         /\ l.entries = <<>> <=> Len(l.entries) = 0
         /\ \A i \in 1 .. Len(l.entries) :
              l.entries[i] \in Entry /\ m.entries[i] = l.entries[i]
         /\ m.entries[Len(l.entries) + 1].kind = kind
         /\ m.entries[Len(l.entries) + 1].ref = ref
         /\ m.entries[Len(l.entries) + 1].amount = delta
         /\ m.entries[Len(l.entries) + 1].balanceAfter = m.balance
<1> DEFINE e == [kind |-> kind, amount |-> delta, ref |-> ref,
                 balanceAfter |-> l.balance + delta, slug |-> FALSE]
<1>1. l.entries \in Seq(Entry) /\ l.balance \in Int /\ l.balance + delta \in Int
  BY DEF Ledger
<1>2. e \in Entry /\ e.kind = kind /\ e.ref = ref /\ e.amount = delta
      /\ e.balanceAfter = l.balance + delta
  BY <1>1 DEF Entry
<1>3. m = [onDisk |-> TRUE, balance |-> l.balance + delta,
           entries |-> Append(l.entries, e)]
  BY DEF pushEntry
<1> HIDE DEF e
<1>4. /\ Append(l.entries, e) \in Seq(Entry)
      /\ Append(l.entries, e) # <<>>
      /\ Len(Append(l.entries, e)) = Len(l.entries) + 1
      /\ \A i \in 1 .. Len(l.entries) : Append(l.entries, e)[i] = l.entries[i]
      /\ Append(l.entries, e)[Len(l.entries) + 1] = e
  BY <1>1, <1>2, AppendProperties
<1>5. Len(l.entries) \in Nat /\ (l.entries = <<>> <=> Len(l.entries) = 0)
      /\ \A i \in 1 .. Len(l.entries) : l.entries[i] \in Entry
  BY <1>1, LenProperties, EmptySeq
<1>6. m \in Ledger /\ m.entries = Append(l.entries, e) /\ m.balance = l.balance + delta
  BY <1>1, <1>3, <1>4 DEF Ledger
<1> QED
  BY <1>1, <1>2, <1>4, <1>5, <1>6

\* The rows of a kind and reference after a push.
LEMMA PushRows ==
  ASSUME NEW l \in Ledger, NEW kind \in Kind, NEW delta \in Int,
         NEW ref \in Ref \cup {NoRef}, NEW m, m = pushEntry(l, kind, delta, ref),
         NEW k, NEW x
  PROVE  Rows(m, k, x) = Rows(l, k, x) \cup
           (IF k = kind /\ x = ref THEN {Len(l.entries) + 1} ELSE {})
<1> DEFINE n == Len(l.entries)
<1>1. /\ n \in Nat /\ Len(m.entries) = n + 1
      /\ \A i \in 1 .. n : m.entries[i] = l.entries[i]
      /\ m.entries[n + 1].kind = kind /\ m.entries[n + 1].ref = ref
  BY PushShape
<1>2. Rows(l, k, x) = {i \in 1 .. n : m.entries[i].kind = k /\ m.entries[i].ref = x}
  BY <1>1 DEF Rows
<1> HIDE DEF n
<1>3. 1 .. n + 1 = 1 .. n \cup {n + 1}
  BY <1>1
<1>4. Rows(m, k, x) = {i \in 1 .. n : m.entries[i].kind = k /\ m.entries[i].ref = x}
                       \cup (IF k = kind /\ x = ref THEN {n + 1} ELSE {})
  BY <1>1, <1>3 DEF Rows
<1> QED
  BY <1>2, <1>4 DEF n

\* A push adds exactly its own row: what else is on the ledger stays.
LEMMA PushHas ==
  ASSUME NEW l \in Ledger, NEW kind \in Kind, NEW delta \in Int,
         NEW ref \in Ref \cup {NoRef}, NEW k, NEW x
  PROVE  Has(pushEntry(l, kind, delta, ref), k, x) <=>
           Has(l, k, x) \/ (k = kind /\ x = ref)
  BY PushRows DEF Has

\* The balance of an explained ledger is not negative.
LEMMA BalanceNat ==
  ASSUME NEW l \in Ledger, Chained(l)
  PROVE  l.balance \in Nat
<1>1. l.entries \in Seq(Entry) /\ l.balance \in Int
  BY DEF Ledger
<1>2. CASE l.entries = <<>>
  BY <1>2 DEF Chained
<1>3. CASE l.entries # <<>>
  <2>1. Len(l.entries) \in 1 .. Len(l.entries)
    BY <1>1, <1>3, LenProperties, EmptySeq
  <2>2. l.balance >= 0
    BY <1>3, <2>1 DEF Chained
  <2> QED
    BY <1>1, <2>2
<1> QED
  BY <1>2, <1>3

\* A push that is not an overdraft keeps the balance explained.
LEMMA PushChained ==
  ASSUME NEW l \in Ledger, Chained(l), NEW kind \in Kind, NEW delta \in Int,
         NEW ref \in Ref \cup {NoRef}, l.balance + delta >= 0
  PROVE  Chained(pushEntry(l, kind, delta, ref))
<1> DEFINE n == Len(l.entries)
           m == pushEntry(l, kind, delta, ref)
<1>1. /\ n \in Nat /\ Len(m.entries) = n + 1 /\ m.entries # <<>>
      /\ l.balance \in Int /\ m.balance = l.balance + delta
      /\ l.entries = <<>> <=> n = 0
      /\ \A i \in 1 .. n : l.entries[i] \in Entry /\ m.entries[i] = l.entries[i]
      /\ m.entries[n + 1].amount = delta
      /\ m.entries[n + 1].balanceAfter = m.balance
  BY PushShape
<1>2. l.balance = IF n = 0 THEN 0 ELSE l.entries[n].balanceAfter
  BY <1>1 DEF Chained
<1>3. \A i \in 1 .. n :
         /\ l.entries[i].balanceAfter >= 0
         /\ l.entries[i].balanceAfter = l.entries[i].amount +
              (IF i = 1 THEN 0 ELSE l.entries[i - 1].balanceAfter)
  BY DEF Chained
<1> HIDE DEF m, n
<1>4. ASSUME NEW i \in 1 .. n + 1
      PROVE  /\ m.entries[i].balanceAfter >= 0
             /\ m.entries[i].balanceAfter = m.entries[i].amount +
                  (IF i = 1 THEN 0 ELSE m.entries[i - 1].balanceAfter)
  <2>1. CASE i = n + 1
    <3>1. n # 0 => m.entries[n] = l.entries[n] /\ l.balance = l.entries[n].balanceAfter
      BY <1>1, <1>2
    <3>2. n = 0 => l.balance = 0
      BY <1>2
    <3>3. i - 1 = n /\ (i = 1 <=> n = 0)
      BY <1>1, <2>1
    <3>4. l.balance = IF i = 1 THEN 0 ELSE m.entries[i - 1].balanceAfter
      BY <3>1, <3>2, <3>3
    <3>5. m.entries[i].amount = delta /\ m.entries[i].balanceAfter = l.balance + delta
      BY <1>1, <2>1
    <3> QED
      BY <1>1, <3>4, <3>5
  <2>2. CASE i # n + 1
    <3>1. i \in 1 .. n /\ (i # 1 => i - 1 \in 1 .. n)
      BY <1>1, <2>2
    <3>2. m.entries[i] = l.entries[i] /\ (i # 1 => m.entries[i - 1] = l.entries[i - 1])
      BY <1>1, <3>1
    <3> QED
      BY <1>3, <3>1, <3>2
  <2> QED
    BY <2>1, <2>2
<1>5. m.balance = m.entries[Len(m.entries)].balanceAfter
  BY <1>1
<1> QED
  BY <1>1, <1>4, <1>5 DEF Chained, m

\* A push of a row that is not there yet repeats nothing.
LEMMA PushUnrepeated ==
  ASSUME NEW l \in Ledger, Unrepeated(l), NEW kind \in Kind, NEW delta \in Int,
         NEW ref \in Ref \cup {NoRef}, kind = "faucet" \/ ~Has(l, kind, ref)
  PROVE  Unrepeated(pushEntry(l, kind, delta, ref))
<1> SUFFICES ASSUME NEW k \in {"debit", "refund", "topup"}, NEW x \in Ref,
                    NEW i \in Rows(pushEntry(l, kind, delta, ref), k, x),
                    NEW j \in Rows(pushEntry(l, kind, delta, ref), k, x)
             PROVE  i = j
  BY DEF Unrepeated
<1>1. Rows(pushEntry(l, kind, delta, ref), k, x) = Rows(l, k, x) \cup
         (IF k = kind /\ x = ref THEN {Len(l.entries) + 1} ELSE {})
  BY PushRows
<1>2. k = kind /\ x = ref => Rows(l, k, x) = {}
  BY DEF Has
<1> QED
  BY <1>1, <1>2 DEF Unrepeated

\* A push is backed if it is no refund, or if its debit is there already.
LEMMA PushBacked ==
  ASSUME NEW l \in Ledger, Backed(l), NEW kind \in Kind, NEW delta \in Int,
         NEW ref \in Ref \cup {NoRef}, kind = "refund" => Has(l, "debit", ref)
  PROVE  Backed(pushEntry(l, kind, delta, ref))
<1> DEFINE n == Len(l.entries)
           m == pushEntry(l, kind, delta, ref)
<1> SUFFICES ASSUME NEW x \in Ref, NEW j \in Rows(m, "refund", x)
             PROVE  \E i \in Rows(m, "debit", x) : i < j
  BY DEF Backed
<1>1. /\ Rows(m, "refund", x) = Rows(l, "refund", x) \cup
           (IF "refund" = kind /\ x = ref THEN {n + 1} ELSE {})
      /\ Rows(l, "debit", x) \subseteq Rows(m, "debit", x)
  <2>1. \A k : Rows(m, k, x) = Rows(l, k, x) \cup
           (IF k = kind /\ x = ref THEN {n + 1} ELSE {})
    BY PushRows
  <2> QED
    BY <2>1
<1>2. CASE j \in Rows(l, "refund", x)
  BY <1>1, <1>2 DEF Backed
<1>3. CASE "refund" = kind /\ x = ref /\ j = n + 1
  <2>1. PICK i \in Rows(l, "debit", x) : TRUE
    BY <1>3 DEF Has
  <2>2. i \in 1 .. n
    BY <2>1 DEF Rows
  <2>3. n \in Nat
    BY PushShape
  <2>4. i < j
    BY <1>3, <2>2, <2>3
  <2> QED
    BY <1>1, <2>1, <2>4
<1> QED
  BY <1>1, <1>2, <1>3

-----------------------------------------------------------------------------
\* The operations of the ledger

\* Any ledger a push may produce is sound.
LEMMA PushSound ==
  ASSUME NEW l, Sound(l), NEW kind \in Kind, NEW delta \in Int,
         NEW ref \in Ref \cup {NoRef}, l.balance + delta >= 0,
         kind = "faucet" \/ ~Has(l, kind, ref),
         kind = "refund" => Has(l, "debit", ref)
  PROVE  Sound(pushEntry(l, kind, delta, ref))
<1>1. l \in Ledger /\ Chained(l) /\ Unrepeated(l) /\ Backed(l)
  BY DEF Sound
<1>2. pushEntry(l, kind, delta, ref) \in Ledger
  BY <1>1, PushShape
<1> QED
  BY <1>1, <1>2, PushChained, PushUnrepeated, PushBacked DEF Sound

\* creditFaucet keeps a ledger sound and adds no row that names anything.
LEMMA FaucetSound ==
  ASSUME NEW l, Sound(l), NEW n \in Nat
  PROVE  /\ Sound(creditFaucet(l, n))
         /\ \A k, x : Has(creditFaucet(l, n), k, x) <=>
                        Has(l, k, x) \/ (k = "faucet" /\ x = NoRef)
<1>1. l \in Ledger /\ l.balance \in Nat
  BY BalanceNat DEF Sound
<1>2. l.balance + n >= 0 /\ "faucet" \in Kind /\ n \in Int
  BY <1>1 DEF Kind
<1>3. Sound(creditFaucet(l, n))
  BY <1>2, PushSound DEF creditFaucet
<1>4. \A k, x : Has(creditFaucet(l, n), k, x) <=>
                  Has(l, k, x) \/ (k = "faucet" /\ x = NoRef)
  BY <1>1, <1>2, PushHas DEF creditFaucet
<1> QED
  BY <1>3, <1>4

\* Approving keeps a ledger sound, puts the credit on it and nothing else.
LEMMA ApprovedSound ==
  ASSUME NEW l, Sound(l), NEW t \in Ref, NEW n \in Nat
  PROVE  /\ Sound(creditApprovedTopup(l, t, n))
         /\ \A k, x : Has(creditApprovedTopup(l, t, n), k, x) <=>
                        Has(l, k, x) \/ (k = "topup" /\ x = t)
<1>1. l \in Ledger /\ l.balance \in Nat
  BY BalanceNat DEF Sound
<1>2. l.balance + n >= 0 /\ "topup" \in Kind /\ n \in Int
  BY <1>1 DEF Kind
<1>3. CASE Has(l, "topup", t)
  BY <1>3 DEF creditApprovedTopup
<1>4. CASE ~Has(l, "topup", t)
  <2>1. Sound(pushEntry(l, "topup", n, t))
    BY <1>2, <1>4, PushSound
  <2> QED
    BY <1>1, <1>2, <1>4, <2>1, PushHas DEF creditApprovedTopup
<1> QED
  BY <1>3, <1>4

\* A debit that was not refused, of an order that is new or already paid, keeps
\* a ledger sound; afterwards the order is on it.
LEMMA DebitSound ==
  ASSUME NEW l, Sound(l), NEW o \in Ref, canDebitStarter(l, o),
         Has(l, "debit", o) => PriorIsDebit(l, o)
  PROVE  /\ Sound(debitStarter(l, o))
         /\ \A k, x : Has(debitStarter(l, o), k, x) <=>
                        Has(l, k, x) \/ (k = "debit" /\ x = o)
<1>1. l \in Ledger /\ l.balance \in Nat
  BY BalanceNat DEF Sound
<1>2. PriorIsDebit(l, o) <=> Has(l, "debit", o)
  BY DEF PriorIsDebit, Has
<1>3. CASE PriorIsDebit(l, o)
  BY <1>2, <1>3 DEF debitStarter
<1>4. CASE ~PriorIsDebit(l, o)
  <2>1. l.balance + (-Price) >= 0 /\ "debit" \in Kind /\ -Price \in Int
    BY <1>1, <1>4, PriceAssumption DEF Kind, canDebitStarter
  <2>2. Sound(pushEntry(l, "debit", -Price, o))
    BY <1>2, <1>4, <2>1, PushSound
  <2> QED
    BY <1>1, <1>4, <2>1, <2>2, PushHas DEF debitStarter
<1> QED
  BY <1>3, <1>4

\* A refund keeps a ledger sound, and afterwards no debit of the order on it is
\* without its refund.
LEMMA RefundSound ==
  ASSUME NEW l, Sound(l), NEW o \in Ref
  PROVE  /\ Sound(refundStarter(l, o))
         /\ \A k, x : Has(refundStarter(l, o), k, x) <=>
                        Has(l, k, x) \/ (k = "refund" /\ x = o /\ Has(l, "debit", o))
<1>1. l \in Ledger /\ l.balance \in Nat
  BY BalanceNat DEF Sound
<1>2. l.balance + Price >= 0 /\ "refund" \in Kind /\ Price \in Int
  BY <1>1, PriceAssumption DEF Kind
<1>3. CASE Has(l, "debit", o) /\ ~Has(l, "refund", o)
  <2>1. Sound(pushEntry(l, "refund", Price, o))
    BY <1>2, <1>3, PushSound
  <2> QED
    BY <1>1, <1>2, <1>3, <2>1, PushHas DEF refundStarter
<1>4. CASE ~(Has(l, "debit", o) /\ ~Has(l, "refund", o))
  BY <1>4 DEF refundStarter
<1> QED
  BY <1>3, <1>4

\* A ledger with the same balance and the same rows but for their notes is as
\* sound as the other.
LEMMA NotesDoNotMatter ==
  ASSUME NEW l, Sound(l), NEW m \in Ledger, m.balance = l.balance,
         Len(m.entries) = Len(l.entries),
         \A i \in 1 .. Len(l.entries) :
           /\ m.entries[i].kind = l.entries[i].kind
           /\ m.entries[i].ref = l.entries[i].ref
           /\ m.entries[i].amount = l.entries[i].amount
           /\ m.entries[i].balanceAfter = l.entries[i].balanceAfter
  PROVE  Sound(m) /\ \A k, x : Has(m, k, x) <=> Has(l, k, x)
<1>1. l \in Ledger /\ l.entries \in Seq(Entry) /\ m.entries \in Seq(Entry)
  BY DEF Sound, Ledger
<1>2. /\ Len(l.entries) \in Nat
      /\ m.entries = <<>> <=> Len(l.entries) = 0
      /\ l.entries = <<>> <=> Len(l.entries) = 0
  BY <1>1, LenProperties, EmptySeq
<1>3. \A k, x : Rows(m, k, x) = Rows(l, k, x)
  BY DEF Rows
<1>4. Chained(m)
  <2>1. m.balance = IF m.entries = <<>> THEN 0
                    ELSE m.entries[Len(m.entries)].balanceAfter
    BY <1>2 DEF Sound, Chained
  <2>2. ASSUME NEW i \in 1 .. Len(m.entries)
        PROVE  /\ m.entries[i].balanceAfter >= 0
               /\ m.entries[i].balanceAfter = m.entries[i].amount +
                    (IF i = 1 THEN 0 ELSE m.entries[i - 1].balanceAfter)
    <3>1. i # 1 => i - 1 \in 1 .. Len(l.entries)
      BY <1>2
    <3> QED
      BY <3>1 DEF Sound, Chained
  <2> QED
    BY <2>1, <2>2 DEF Chained
<1>5. Unrepeated(m) /\ Backed(m)
  BY <1>3 DEF Sound, Unrepeated, Backed
<1> QED
  BY <1>3, <1>4, <1>5 DEF Sound, Has

\* Noting a slug leaves a ledger typed, its balance and all but the note alone.
LEMMA RememberTyped ==
  ASSUME NEW l \in Ledger, NEW o, NEW m, m = rememberStarterSlug(l, o)
  PROVE  /\ m \in Ledger
         /\ m.balance = l.balance
         /\ Len(m.entries) = Len(l.entries)
         /\ \A i \in 1 .. Len(l.entries) :
              /\ m.entries[i].kind = l.entries[i].kind
              /\ m.entries[i].ref = l.entries[i].ref
              /\ m.entries[i].amount = l.entries[i].amount
              /\ m.entries[i].balanceAfter = l.entries[i].balanceAfter
<1> DEFINE last == CHOOSE i \in Rows(l, "debit", o) :
                     \A j \in Rows(l, "debit", o) : j <= i
           noted == [l.entries EXCEPT ![last].slug = TRUE]
<1>1. CASE ~Has(l, "debit", o)
  BY <1>1 DEF rememberStarterSlug
<1>2. CASE Has(l, "debit", o)
  <2>1. /\ l.entries \in Seq(Entry)
        /\ Len(l.entries) \in Nat
        /\ l.entries \in [1 .. Len(l.entries) -> Entry]
    BY LenProperties DEF Ledger
  <2>2. m = [l EXCEPT !.entries[last].slug = TRUE]
    BY <1>2 DEF rememberStarterSlug
  <2> HIDE DEF last
  <2>3. m = [l EXCEPT !.entries = noted]
    BY <2>2 DEF Ledger
  <2>4. noted \in [1 .. Len(l.entries) -> Entry]
    BY <2>1 DEF Entry
  <2>5. noted \in Seq(Entry) /\ Len(noted) = Len(l.entries)
    BY <2>1, <2>4, IsASeq, LenProperties
  <2>6. \A i \in 1 .. Len(l.entries) :
          /\ noted[i].kind = l.entries[i].kind
          /\ noted[i].ref = l.entries[i].ref
          /\ noted[i].amount = l.entries[i].amount
          /\ noted[i].balanceAfter = l.entries[i].balanceAfter
    BY <2>1 DEF Entry
  <2> HIDE DEF noted
  <2>7. m \in Ledger /\ m.balance = l.balance /\ m.entries = noted
    BY <2>3, <2>5 DEF Ledger
  <2> QED
    BY <2>5, <2>6, <2>7
<1> QED
  BY <1>1, <1>2

\* Noting a slug keeps a ledger sound and its rows as they are.
LEMMA RememberSound ==
  ASSUME NEW l, Sound(l), NEW o
  PROVE  /\ Sound(rememberStarterSlug(l, o))
         /\ \A k, x : Has(rememberStarterSlug(l, o), k, x) <=> Has(l, k, x)
<1>1. l \in Ledger
  BY DEF Sound
<1> QED
  BY <1>1, RememberTyped, NotesDoNotMatter

\* The copy a registration writes is as sound as the guest's ledger.
LEMMA CopySound ==
  ASSUME NEW l, Sound(l)
  PROVE  /\ Sound([l EXCEPT !.onDisk = TRUE])
         /\ \A k, x : Has([l EXCEPT !.onDisk = TRUE], k, x) <=> Has(l, k, x)
<1>1. /\ [l EXCEPT !.onDisk = TRUE] \in Ledger
      /\ [l EXCEPT !.onDisk = TRUE].balance = l.balance
      /\ [l EXCEPT !.onDisk = TRUE].entries = l.entries
  BY DEF Sound, Ledger
<1> QED
  BY <1>1, NotesDoNotMatter

-----------------------------------------------------------------------------
\* Type correctness

LEMMA InitTyped == Init => TypeOK
  BY SortAssumption, AmountAssumption
  DEF Init, TypeOK, Wallet, Ledger, emptyLedger, Topup, Handler

\* The operations leave a typed ledger typed.
LEMMA LedgerOpsTyped ==
  ASSUME NEW l \in Ledger, NEW x \in Ref, NEW n \in Int
  PROVE  /\ creditFaucet(l, n) \in Ledger
         /\ creditApprovedTopup(l, x, n) \in Ledger
         /\ debitStarter(l, x) \in Ledger
         /\ refundStarter(l, x) \in Ledger
         /\ rememberStarterSlug(l, x) \in Ledger
         /\ [l EXCEPT !.onDisk = TRUE] \in Ledger
<1>1. \A k \in Kind, d \in Int, y \in Ref \cup {NoRef} : pushEntry(l, k, d, y) \in Ledger
  BY PushShape
<1>2. creditFaucet(l, n) \in Ledger
  BY <1>1 DEF creditFaucet, Kind
<1>3. creditApprovedTopup(l, x, n) \in Ledger
  BY <1>1 DEF creditApprovedTopup, Kind
<1>4. debitStarter(l, x) \in Ledger /\ refundStarter(l, x) \in Ledger
  BY <1>1, PriceAssumption DEF debitStarter, refundStarter, Kind
<1>5. rememberStarterSlug(l, x) \in Ledger
  BY RememberTyped
<1>6. [l EXCEPT !.onDisk = TRUE] \in Ledger
  BY DEF Ledger
<1> QED
  BY <1>2, <1>3, <1>4, <1>5, <1>6

\* A step of the portal never breaks the types.
LEMMA StepTyped == TypeOK /\ [Next]_vars => TypeOK'
<1> SUFFICES ASSUME TypeOK, [Next]_vars PROVE TypeOK'
  OBVIOUS
<1> USE DEF TypeOK
<1>1. ASSUME NEW s \in Sid, StartGuest(s) PROVE TypeOK'
  BY <1>1 DEF StartGuest, Wallet
<1>2. ASSUME NEW s \in Sid, Logout(s) PROVE TypeOK'
  BY <1>2 DEF Logout
<1>3. ASSUME NEW g \in Sid, NEW a \in AccountId
      PROVE  /\ LedgersCopied(g, a) \in [Wallet -> Ledger]
             /\ LedgersMoved(g, a) \in [Wallet -> Ledger]
             /\ TopupsMoved(g, a) \in [TopupId -> Topup]
  <2>1. ledgers[g] \in Ledger
    BY DEF Wallet
  <2>2. [ledgers[g] EXCEPT !.onDisk = TRUE] \in Ledger /\ emptyLedger \in Ledger
    BY <2>1, EmptySound DEF Sound, Ledger
  <2>3. LedgersCopied(g, a) \in [Wallet -> Ledger]
    BY <2>2 DEF LedgersCopied
  <2>4. LedgersMoved(g, a) \in [Wallet -> Ledger]
    BY <2>2, <2>3 DEF LedgersMoved
  <2>5. TopupsMoved(g, a) \in [TopupId -> Topup]
    BY DEF TopupsMoved, Topup, Wallet
  <2> QED
    BY <2>3, <2>4, <2>5
<1>4. ASSUME NEW g \in Sid, NEW s \in Sid, NEW a \in AccountId, NEW e \in Email,
             RegisterGuest(g, s, a, e)
      PROVE  TypeOK'
  BY <1>3, <1>4 DEF RegisterGuest, SessionsMoved, SignedUp, Wallet
<1>5. ASSUME NEW from \in Sid \cup {NoIdentity}, NEW s \in Sid, NEW a \in AccountId,
             NEW e \in Email, RegisterNew(from, s, a, e)
      PROVE  TypeOK'
  BY <1>5 DEF RegisterNew, SignedUp, Wallet
<1>6. ASSUME NEW from \in Sid \cup {NoIdentity}, NEW s \in Sid, NEW a \in AccountId,
             Login(from, s, a)
      PROVE  TypeOK'
  BY <1>6 DEF Login, Wallet
<1>7. \A r \in Request, pc \in InFlight \cup {"delivered", "failed", "done"} :
        Goto(r, pc) => req' \in [Request -> Handler]
  BY DEF Goto, Handler
<1>8. ASSUME NEW r \in Request, NEW s \in Sid, Lookup(r, s) PROVE TypeOK'
  <2>1. [pc |-> "known", wallet |-> sessions[s]] \in Handler
    BY DEF Handler, InFlight
  <2> QED
    BY <1>8, <2>1 DEF Lookup, identityVars
<1>9. ASSUME NEW w, NEW m, w \in Wallet => m \in Ledger
      PROVE  [ledgers EXCEPT ![w] = m] \in [Wallet -> Ledger]
  BY <1>9
<1>10. ASSUME NEW r \in Request, NEW n \in FaucetKr, Faucet(r, n) PROVE TypeOK'
  <2>1. req[r].wallet \in Wallet =>
          creditFaucet(ledgers[req[r].wallet], n) \in Ledger
    <3>1. n \in Int /\ r \in Ref
      BY AmountAssumption, SortAssumption
    <3> QED
      BY <3>1, LedgerOpsTyped
  <2>2. ledgers' \in [Wallet -> Ledger]
    BY <1>9, <1>10, <2>1 DEF Faucet
  <2> QED
    BY <1>7, <1>10, <2>2 DEF Faucet, identityVars
<1>11. ASSUME NEW r \in Request, NEW t \in TopupId, NEW n \in Packs, CreateTopup(r, t, n)
       PROVE  TypeOK'
  <2>1. [status |-> "pending", wallet |-> req[r].wallet, amount |-> n] \in Topup
    BY DEF Topup, OpenStatus, Handler
  <2> QED
    BY <1>7, <1>11, <2>1 DEF CreateTopup, identityVars
<1>12. ASSUME NEW t \in TopupId, NEW st \in {"proof_submitted", "cancelled", "approved"}
       PROVE  [topups EXCEPT ![t].status = st] \in [TopupId -> Topup]
  BY DEF Topup, OpenStatus
<1>13. ASSUME NEW r \in Request, NEW t \in TopupId,
              SubmitProof(r, t) \/ CancelTopup(r, t)
       PROVE  TypeOK'
  BY <1>7, <1>12, <1>13 DEF SubmitProof, CancelTopup, identityVars
<1>14. ASSUME NEW r \in Request, Refuse(r) PROVE TypeOK'
  BY <1>7, <1>14 DEF Refuse, identityVars
<1>15. ASSUME NEW t \in TopupId PROVE LedgersCredited(t) \in [Wallet -> Ledger]
  <2>1. topups[t].amount \in Int /\ t \in Ref
    <3>1. topups[t].amount \in Packs \cup {0}
      BY DEF Topup
    <3>2. \A n \in Packs : n \in Nat
      BY AmountAssumption
    <3> QED
      BY <3>1, <3>2, SortAssumption
  <2>2. topups[t].wallet \in Wallet =>
          creditApprovedTopup(ledgers[topups[t].wallet], t, topups[t].amount) \in Ledger
    BY <2>1, LedgerOpsTyped
  <2> QED
    BY <1>9, <2>2 DEF LedgersCredited
<1>16. ASSUME NEW t \in TopupId, ApproveTopup(t) PROVE TypeOK'
  BY <1>12, <1>15, <1>16 DEF ApproveTopup, identityVars
<1>17. ASSUME NEW r \in Request, Debit(r) \/ DebitUnconfigured(r) PROVE TypeOK'
  <2>1. req[r].wallet \in Wallet => debitStarter(ledgers[req[r].wallet], r) \in Ledger
    <3>1. r \in Ref /\ 0 \in Int
      BY SortAssumption
    <3> QED
      BY <3>1, LedgerOpsTyped
  <2>2. ledgers' \in [Wallet -> Ledger]
    BY <1>9, <1>17, <2>1 DEF Debit, DebitUnconfigured
  <2>3. req' \in [Request -> Handler]
    BY <1>7, <1>17 DEF Debit, DebitUnconfigured, InFlight
  <2> QED
    BY <1>17, <2>2, <2>3 DEF Debit, DebitUnconfigured, identityVars
<1>18. ASSUME NEW r \in Request, WizardStep(r) PROVE TypeOK'
  BY <1>18 DEF WizardStep, WizardBuilds, WizardGivesUp, identityVars
<1>19. ASSUME NEW r \in Request,
              AnswerOk(r) \/ AnswerError(r) \/ AnswerLost(r) \/ RememberThrows(r) \/ ErrorBody(r)
       PROVE  TypeOK'
  <2>1. req' \in [Request -> Handler]
    BY <1>7, <1>19
    DEF AnswerOk, AnswerError, AnswerLost, RememberThrows, ErrorBody, InFlight
  <2> QED
    BY <1>19, <2>1
    DEF AnswerOk, AnswerError, AnswerLost, RememberThrows, ErrorBody, identityVars
<1>20. ASSUME NEW r \in Request, Remember(r) \/ Refund(r) PROVE TypeOK'
  <2>1. req[r].wallet \in Wallet =>
          /\ rememberStarterSlug(ledgers[req[r].wallet], r) \in Ledger
          /\ refundStarter(ledgers[req[r].wallet], r) \in Ledger
    <3>1. r \in Ref /\ 0 \in Int
      BY SortAssumption
    <3> QED
      BY <3>1, LedgerOpsTyped
  <2>2. ledgers' \in [Wallet -> Ledger]
    BY <1>9, <1>20, <2>1 DEF Remember, Refund
  <2>3. req' \in [Request -> Handler]
    BY <1>7, <1>20 DEF Remember, Refund, InFlight
  <2> QED
    BY <1>20, <2>2, <2>3 DEF Remember, Refund, identityVars
<1>21. ASSUME Restarted
       PROVE  /\ req' \in [Request -> Handler]
              /\ crashes' \in 0 .. MaxCrashes
              /\ site' = site
  BY <1>21, AmountAssumption DEF Restarted, Handler
<1>22. CASE Crash
  BY <1>21, <1>22 DEF Crash, identityVars
<1>23. ASSUME NEW t \in TopupId, ApproveCrash(t) PROVE TypeOK'
  BY <1>15, <1>21, <1>23 DEF ApproveCrash, identityVars
<1>24. ASSUME NEW g \in Sid, NEW a \in AccountId, NEW e \in Email, RegisterCrash(g, a, e)
       PROVE  TypeOK'
  <2>1. ledgers' \in [Wallet -> Ledger] /\ topups' \in [TopupId -> Topup]
    BY <1>3, <1>24 DEF RegisterCrash
  <2> QED
    BY <1>21, <1>24, <2>1 DEF RegisterCrash, Wallet
<1>25. CASE UNCHANGED vars
  BY <1>25 DEF vars
<1> QED
  BY <1>1, <1>2, <1>4, <1>5, <1>6, <1>8, <1>10, <1>11, <1>13, <1>14, <1>16, <1>17,
     <1>18, <1>19, <1>20, <1>22, <1>23, <1>24, <1>25
  DEF Next, IdentityStep, RouteStep, GenerateStep, CrashStep

\* Every variable keeps its type in every behaviour of the portal.
THEOREM TypeCorrect == Spec => []TypeOK
<1>1. Init => TypeOK
  BY InitTyped
<1>2. TypeOK /\ [Next]_vars => TypeOK'
  BY StepTyped
<1> QED
  BY <1>1, <1>2, PTL DEF Spec

-----------------------------------------------------------------------------
\* The inductive invariant

\* A top-up that was asked for has a wallet, and so has a request past its
\* lookup; a top-up nobody asked for is on no ledger.
Owners ==
  /\ \A t \in TopupId :
       /\ topups[t].status # "none" => topups[t].wallet \in Wallet
       /\ topups[t].status = "none" => \A w \in Wallet : ~Has(ledgers[w], "topup", t)
  /\ \A r \in Request : req[r].pc # "idle" => req[r].wallet \in Wallet

\* An order is on no ledger before its route debits it.
Unspent ==
  \A r \in Request : req[r].pc \in {"idle", "known"} =>
    \A w \in Wallet : ~Has(ledgers[w], "debit", r)

LedgersSound == \A w \in Wallet : Sound(ledgers[w])

\* A guest is logged in under its own sid only, and one that became an account
\* is logged in no more.
GuestsRetire ==
  /\ \A s \in Sid : sessions[s] \in Sid => sessions[s] = s
  /\ \A a \in AccountId : former[a] \in Sid =>
       former[a] \in issued /\ sessions[former[a]] # former[a]

\* The account that took the guest's ledger over.
Heir(g, a) == a \in AccountId /\ former[a] = g

\* Two wallets that show one credit and can be spent from are a guest and its heir.
OneCopy ==
  \A t \in TopupId : \A v, w \in Spendable :
    Has(ledgers[v], "topup", t) /\ Has(ledgers[w], "topup", t) =>
      v = w \/ Heir(v, w) \/ Heir(w, v)

\* A credit that can be spent belongs to the record's wallet or to the guest
\* that was there before it, unless a crash gave that record to an account
\* nobody can log in to.
OneOwner ==
  \A t \in TopupId : \A v \in Spendable :
    Has(ledgers[v], "topup", t) =>
      \/ topups[t].wallet \notin Spendable \ {v}
      \/ Heir(v, topups[t].wallet)

IInv ==
  /\ TypeOK
  /\ FreshIsBlank
  /\ Owners
  /\ Unspent
  /\ LedgersSound
  /\ ApprovedIsCredited
  /\ OneOpenTopup
  /\ GuestsRetire
  /\ OneCopy
  /\ OneOwner

LEMMA InitInv == Init => IInv
<1> SUFFICES ASSUME Init PROVE IInv
  OBVIOUS
<1>1. TypeOK
  BY InitTyped
<1>2. \A w \in Wallet : ledgers[w] = emptyLedger
  BY DEF Init
<1>3. \A k, x : ~Has(emptyLedger, k, x)
  BY DEF Has, Rows, emptyLedger
<1>4. FreshIsBlank
  BY <1>2, SortAssumption DEF FreshIsBlank, Init, Wallet
<1>5. Owners /\ Unspent /\ ApprovedIsCredited /\ OneOpenTopup /\ GuestsRetire
  BY <1>2, <1>3, SortAssumption
  DEF Init, Owners, Unspent, ApprovedIsCredited, OneOpenTopup, GuestsRetire, OpenStatus
<1>6. LedgersSound
  BY <1>2, EmptySound DEF LedgersSound
<1>7. Spendable \subseteq Wallet
  BY <1>1, SortAssumption DEF Init, Spendable, Live, InFlight, Wallet
<1>8. OneCopy /\ OneOwner
  BY <1>2, <1>3, <1>7 DEF OneCopy, OneOwner
<1> QED
  BY <1>1, <1>4, <1>5, <1>6, <1>8 DEF IInv

-----------------------------------------------------------------------------
\* Who writes what

\* The ledgers after each step that writes one of them.
LEMMA LedgerWriters ==
  ASSUME [Next]_vars
  PROVE  \/ UNCHANGED ledgers
         \/ \E g, s \in Sid, a \in AccountId, e \in Email : RegisterGuest(g, s, a, e)
         \/ \E r \in Request, n \in FaucetKr : Faucet(r, n)
         \/ \E t \in TopupId : ApproveTopup(t) \/ ApproveCrash(t)
         \/ \E r \in Request : Debit(r) \/ DebitUnconfigured(r)
         \/ \E r \in Request : Remember(r) \/ Refund(r)
         \/ \E g \in Sid, a \in AccountId, e \in Email : RegisterCrash(g, a, e)
<1>1. CASE IdentityStep
  BY <1>1 DEF IdentityStep, StartGuest, Logout, RegisterNew, Login
<1>2. ASSUME NEW r \in Request, RouteStep(r)
      PROVE  UNCHANGED ledgers \/ \E n \in FaucetKr : Faucet(r, n)
  BY <1>2 DEF RouteStep, Lookup, CreateTopup, SubmitProof, CancelTopup, Refuse
<1>3. ASSUME NEW r \in Request, GenerateStep(r)
      PROVE  UNCHANGED ledgers \/ Remember(r) \/ Refund(r)
  BY <1>3 DEF GenerateStep, AnswerOk, AnswerError, AnswerLost, RememberThrows, ErrorBody
<1>4. ASSUME NEW r \in Request, WizardStep(r) PROVE UNCHANGED ledgers
  BY <1>4 DEF WizardStep, WizardBuilds, WizardGivesUp
<1>5. CASE CrashStep
  BY <1>5 DEF CrashStep, Crash
<1>6. CASE UNCHANGED vars
  BY <1>6 DEF vars
<1> QED
  BY <1>1, <1>2, <1>3, <1>4, <1>5, <1>6 DEF Next

\* The top-up store after each step that writes it.
LEMMA TopupWriters ==
  ASSUME [Next]_vars
  PROVE  \/ UNCHANGED topups
         \/ \E g, s \in Sid, a \in AccountId, e \in Email : RegisterGuest(g, s, a, e)
         \/ \E r \in Request, t \in TopupId, n \in Packs : CreateTopup(r, t, n)
         \/ \E r \in Request, t \in TopupId : SubmitProof(r, t) \/ CancelTopup(r, t)
         \/ \E t \in TopupId : ApproveTopup(t)
         \/ \E g \in Sid, a \in AccountId, e \in Email : RegisterCrash(g, a, e)
<1>1. CASE IdentityStep
  BY <1>1 DEF IdentityStep, StartGuest, Logout, RegisterNew, Login
<1>2. ASSUME NEW r \in Request, RouteStep(r)
      PROVE  \/ UNCHANGED topups
             \/ \E t \in TopupId, n \in Packs : CreateTopup(r, t, n)
             \/ \E t \in TopupId : SubmitProof(r, t) \/ CancelTopup(r, t)
  BY <1>2 DEF RouteStep, Lookup, Faucet, Refuse
<1>3. ASSUME NEW r \in Request,
             GenerateStep(r) \/ WizardStep(r) \/ Debit(r) \/ DebitUnconfigured(r)
      PROVE  UNCHANGED topups
  BY <1>3 DEF GenerateStep, AnswerOk, AnswerError, AnswerLost, Remember, RememberThrows,
    Refund, ErrorBody, WizardStep, WizardBuilds, WizardGivesUp, Debit, DebitUnconfigured
<1>4. CASE CrashStep
  BY <1>4 DEF CrashStep, Crash, ApproveCrash
<1>5. CASE UNCHANGED vars
  BY <1>5 DEF vars
<1> QED
  BY <1>1, <1>2, <1>3, <1>4, <1>5 DEF Next

\* The identity store after each step that writes it, or issues an id.
LEMMA IdentityWriters ==
  ASSUME [Next]_vars
  PROVE  \/ UNCHANGED identityVars
         \/ IdentityStep /\ UNCHANGED req
         \/ \E g \in Sid, a \in AccountId, e \in Email : RegisterCrash(g, a, e)
<1>1. CASE IdentityStep
  BY <1>1 DEF IdentityStep, StartGuest, Logout, RegisterGuest, RegisterNew, Login
<1>2. ASSUME NEW r \in Request, RouteStep(r) PROVE UNCHANGED identityVars
  BY <1>2 DEF RouteStep, Lookup, Faucet, CreateTopup, SubmitProof, CancelTopup, Refuse
<1>3. ASSUME NEW r \in Request,
             GenerateStep(r) \/ WizardStep(r) \/ Debit(r) \/ DebitUnconfigured(r)
      PROVE  UNCHANGED identityVars
  BY <1>3 DEF GenerateStep, AnswerOk, AnswerError, AnswerLost, Remember, RememberThrows,
    Refund, ErrorBody, WizardStep, WizardBuilds, WizardGivesUp, Debit, DebitUnconfigured
<1>4. ASSUME NEW t \in TopupId, ApproveTopup(t) PROVE UNCHANGED identityVars
  BY <1>4 DEF ApproveTopup
<1>5. CASE Crash \/ \E t \in TopupId : ApproveCrash(t)
  BY <1>5 DEF Crash, ApproveCrash
<1>6. CASE UNCHANGED vars
  BY <1>6 DEF vars, identityVars
<1> QED
  BY <1>1, <1>2, <1>3, <1>4, <1>5, <1>6 DEF Next, CrashStep

\* A request gets its wallet at the lookup and keeps it.
LEMMA RequestWriters ==
  ASSUME TypeOK, [Next]_vars
  PROVE  \/ \E r \in Request, s \in Sid : Lookup(r, s)
         \/ \A r \in Request :
              /\ req'[r].wallet = req[r].wallet
              /\ req'[r].pc \in {"idle", "known"} => req'[r].pc = req[r].pc
              /\ req[r].pc = "idle" => req'[r].pc = "idle"
              /\ req'[r].pc \in InFlight => req[r].pc \in InFlight
<1> USE DEF TypeOK, InFlight, Handler
<1> DEFINE Kept == \A r \in Request :
              /\ req'[r].wallet = req[r].wallet
              /\ req'[r].pc \in {"idle", "known"} => req'[r].pc = req[r].pc
              /\ req[r].pc = "idle" => req'[r].pc = "idle"
              /\ req'[r].pc \in InFlight => req[r].pc \in InFlight
<1>1. UNCHANGED req => Kept
  OBVIOUS
<1>2. ASSUME NEW r \in Request, NEW pc, pc \notin {"idle", "known"}, Goto(r, pc),
             req[r].pc \in InFlight
      PROVE  Kept
  BY <1>2 DEF Goto
<1> HIDE DEF Kept
<1>3. CASE IdentityStep
  BY <1>1, <1>3 DEF IdentityStep, StartGuest, Logout, RegisterGuest, RegisterNew, Login
<1>4. ASSUME NEW r \in Request, RouteStep(r)
      PROVE  Kept \/ \E s \in Sid : Lookup(r, s)
  BY <1>2, <1>4 DEF RouteStep, Faucet, CreateTopup, SubmitProof, CancelTopup, Refuse
<1>5. ASSUME NEW r \in Request, Debit(r) \/ DebitUnconfigured(r) PROVE Kept
  BY <1>2, <1>5 DEF Debit, DebitUnconfigured
<1>6. ASSUME NEW r \in Request, GenerateStep(r) PROVE Kept
  <2>1. \E pc \in {"remember", "delivered", "refund", "catch", "body", "failed"} :
          Goto(r, pc)
    BY <1>6 DEF GenerateStep, AnswerOk, AnswerError, AnswerLost, Remember,
      RememberThrows, Refund, ErrorBody
  <2>2. req[r].pc \in InFlight
    BY <1>6 DEF GenerateStep, AnswerOk, AnswerError, AnswerLost, Remember,
      RememberThrows, Refund, ErrorBody
  <2> QED
    BY <1>2, <2>1, <2>2
<1>7. ASSUME NEW r \in Request, WizardStep(r) PROVE Kept
  BY <1>1, <1>7 DEF WizardStep, WizardBuilds, WizardGivesUp
<1>8. ASSUME NEW t \in TopupId, ApproveTopup(t) PROVE Kept
  BY <1>1, <1>8 DEF ApproveTopup
<1>9. ASSUME Restarted PROVE Kept
  <2>1. \A r \in Request :
          /\ req'[r].wallet = req[r].wallet
          /\ req'[r].pc = IF req[r].pc \in InFlight THEN "dropped" ELSE req[r].pc
    BY <1>9 DEF Restarted
  <2> QED
    BY <2>1 DEF Kept
<1>10. CASE CrashStep
  <2>1. Restarted
    BY <1>10 DEF CrashStep, Crash, ApproveCrash, RegisterCrash
  <2> QED
    BY <1>9, <2>1 DEF Kept
<1>11. CASE UNCHANGED vars
  BY <1>1, <1>11 DEF vars
<1> QED
  BY <1>3, <1>4, <1>5, <1>6, <1>7, <1>8, <1>10, <1>11 DEF Next, Kept

LEMMA AmountNat == ASSUME TypeOK, NEW t \in TopupId PROVE topups[t].amount \in Nat
<1>1. topups[t].amount \in Packs \cup {0}
  BY DEF TypeOK, Topup
<1>2. \A n \in Packs : n \in Nat
  BY AmountAssumption
<1> QED
  BY <1>1, <1>2

\* Every write of one ledger in place, by what it leaves on it.
LEMMA LedgerOps ==
  ASSUME IInv, [Next]_vars
  PROVE  \/ UNCHANGED ledgers
         \/ \E g \in Sid, a \in AccountId :
              /\ \E e \in Email : RegisterCrash(g, a, e)
                                  \/ \E s \in Sid : RegisterGuest(g, s, a, e)
              /\ IsGuest(g) /\ Fresh(a) /\ a \in issued'
              /\ ledgers' \in {LedgersCopied(g, a), LedgersMoved(g, a)}
         \/ \E w \in Wallet : \E m :
              /\ ~Fresh(w)
              /\ ledgers' = [ledgers EXCEPT ![w] = m]
              /\ Sound(m)
              /\ \A k, x : Has(ledgers[w], k, x) => Has(m, k, x)
              /\ \/ \A x \in Ref : \A k \in {"debit", "topup"} :
                      Has(m, k, x) => Has(ledgers[w], k, x)
                 \/ \E t \in TopupId :
                      /\ ApproveTopup(t) \/ ApproveCrash(t)
                      /\ w = topups[t].wallet
                      /\ \A k, x : Has(m, k, x) <=>
                           Has(ledgers[w], k, x) \/ (k = "topup" /\ x = t)
                 \/ \E r \in Request :
                      /\ Debit(r) \/ DebitUnconfigured(r)
                      /\ w = req[r].wallet
                      /\ \A k, x : Has(m, k, x) <=>
                           Has(ledgers[w], k, x) \/ (k = "debit" /\ x = r)
<1> USE DEF IInv
<1>1. ASSUME NEW g \in Sid, NEW s \in Sid, NEW a \in AccountId, NEW e \in Email,
             RegisterGuest(g, s, a, e) \/ RegisterCrash(g, a, e)
      PROVE  /\ IsGuest(g) /\ Fresh(a) /\ a \in issued'
             /\ ledgers' \in {LedgersCopied(g, a), LedgersMoved(g, a)}
  BY <1>1 DEF RegisterGuest, RegisterCrash, SignedUp
<1>2. ASSUME NEW r \in Request, req[r].pc # "idle"
      PROVE  /\ req[r].wallet \in Wallet /\ ~Fresh(req[r].wallet)
             /\ Sound(ledgers[req[r].wallet]) /\ r \in Ref
  BY <1>2, SortAssumption DEF Owners, LedgersSound, FreshIsBlank
<1>3. ASSUME NEW r \in Request, NEW n \in FaucetKr, Faucet(r, n)
      PROVE  LET w == req[r].wallet
                 m == creditFaucet(ledgers[w], n)
             IN  /\ w \in Wallet /\ ~Fresh(w) /\ ledgers' = [ledgers EXCEPT ![w] = m] /\ Sound(m)
                 /\ \A k, x : Has(ledgers[w], k, x) => Has(m, k, x)
                 /\ \A x \in Ref : \A k \in {"debit", "topup"} :
                      Has(m, k, x) => Has(ledgers[w], k, x)
  <2>1. n \in Nat
    BY AmountAssumption
  <2>2. req[r].wallet \in Wallet /\ ~Fresh(req[r].wallet)
        /\ Sound(ledgers[req[r].wallet])
    BY <1>2, <1>3 DEF Faucet
  <2> QED
    BY <1>3, <2>1, <2>2, FaucetSound DEF Faucet
<1>4. ASSUME NEW t \in TopupId, ApproveTopup(t) \/ ApproveCrash(t)
      PROVE  LET w == topups[t].wallet
                 m == creditApprovedTopup(ledgers[w], t, topups[t].amount)
             IN  /\ w \in Wallet /\ ~Fresh(w) /\ ledgers' = [ledgers EXCEPT ![w] = m] /\ Sound(m)
                 /\ \A k, x : Has(m, k, x) <=>
                      Has(ledgers[w], k, x) \/ (k = "topup" /\ x = t)
  <2>1. topups[t].status # "none" /\ t \in Ref
    BY <1>4, SortAssumption DEF ApproveTopup, ApproveCrash, OpenStatus
  <2>2. topups[t].wallet \in Wallet /\ ~Fresh(topups[t].wallet)
        /\ Sound(ledgers[topups[t].wallet])
    BY <2>1 DEF Owners, LedgersSound, FreshIsBlank
  <2>3. topups[t].amount \in Nat
    BY AmountNat
  <2>4. ledgers' = LedgersCredited(t)
    BY <1>4 DEF ApproveTopup, ApproveCrash
  <2> QED
    BY <2>1, <2>2, <2>3, <2>4, ApprovedSound DEF LedgersCredited
<1>5. ASSUME NEW r \in Request, Debit(r) \/ DebitUnconfigured(r)
      PROVE  LET w == req[r].wallet
                 m == debitStarter(ledgers[w], r)
             IN  /\ w \in Wallet /\ ~Fresh(w) /\ ledgers' = [ledgers EXCEPT ![w] = m] /\ Sound(m)
                 /\ \A k, x : Has(m, k, x) <=>
                      Has(ledgers[w], k, x) \/ (k = "debit" /\ x = r)
  <2>1. req[r].pc = "known" /\ canDebitStarter(ledgers[req[r].wallet], r)
        /\ ledgers' = [ledgers EXCEPT ![req[r].wallet] = debitStarter(@, r)]
    BY <1>5 DEF Debit, DebitUnconfigured
  <2>2. /\ req[r].wallet \in Wallet /\ ~Fresh(req[r].wallet)
        /\ Sound(ledgers[req[r].wallet]) /\ r \in Ref
    BY <1>2, <2>1
  <2>3. ~Has(ledgers[req[r].wallet], "debit", r)
    BY <2>1, <2>2 DEF Unspent
  <2> QED
    BY <2>1, <2>2, <2>3, DebitSound
<1>6. ASSUME NEW r \in Request, Remember(r) \/ Refund(r)
      PROVE  \E w \in Wallet : \E m :
               /\ ~Fresh(w) /\ ledgers' = [ledgers EXCEPT ![w] = m] /\ Sound(m)
               /\ \A k, x : Has(ledgers[w], k, x) => Has(m, k, x)
               /\ \A x \in Ref : \A k \in {"debit", "topup"} :
                    Has(m, k, x) => Has(ledgers[w], k, x)
  <2> DEFINE w == req[r].wallet
  <2>1. w \in Wallet /\ ~Fresh(w) /\ Sound(ledgers[w]) /\ r \in Ref
    BY <1>2, <1>6 DEF Remember, Refund
  <2>2. \A m \in {rememberStarterSlug(ledgers[w], r), refundStarter(ledgers[w], r)} :
          /\ Sound(m)
          /\ \A k, x : Has(ledgers[w], k, x) => Has(m, k, x)
          /\ \A x \in Ref : \A k \in {"debit", "topup"} :
               Has(m, k, x) => Has(ledgers[w], k, x)
    BY <2>1, RememberSound, RefundSound
  <2>3. \E m \in {rememberStarterSlug(ledgers[w], r), refundStarter(ledgers[w], r)} :
          ledgers' = [ledgers EXCEPT ![w] = m]
    BY <1>6 DEF Remember, Refund
  <2> HIDE DEF w
  <2> QED
    BY <2>1, <2>2, <2>3
<1> QED
  <2>1. CASE UNCHANGED ledgers
    BY <2>1
  <2>2. CASE \/ \E g, s \in Sid, a \in AccountId, e \in Email : RegisterGuest(g, s, a, e)
             \/ \E g \in Sid, a \in AccountId, e \in Email : RegisterCrash(g, a, e)
    <3>1. \E g \in Sid, a \in AccountId :
            /\ \E e \in Email : RegisterCrash(g, a, e)
                                \/ \E s \in Sid : RegisterGuest(g, s, a, e)
            /\ IsGuest(g) /\ Fresh(a) /\ a \in issued'
            /\ ledgers' \in {LedgersCopied(g, a), LedgersMoved(g, a)}
      BY <1>1, <2>2 DEF RegisterGuest, RegisterCrash, IsGuest
    <3> QED
      BY <3>1
  <2>3. CASE \E r \in Request, n \in FaucetKr : Faucet(r, n)
    BY <1>3, <2>3
  <2>4. CASE \E t \in TopupId : ApproveTopup(t) \/ ApproveCrash(t)
    <3>1. PICK t \in TopupId : ApproveTopup(t) \/ ApproveCrash(t)
      BY <2>4
    <3> DEFINE w == topups[t].wallet
               m == creditApprovedTopup(ledgers[w], t, topups[t].amount)
    <3>2. /\ w \in Wallet /\ ~Fresh(w) /\ ledgers' = [ledgers EXCEPT ![w] = m] /\ Sound(m)
          /\ \A k, x : Has(m, k, x) <=>
               Has(ledgers[w], k, x) \/ (k = "topup" /\ x = t)
      BY <1>4, <3>1
    <3> HIDE DEF m
    <3> QED
      BY <3>1, <3>2
  <2>5. CASE \E r \in Request : Debit(r) \/ DebitUnconfigured(r)
    <3>1. PICK r \in Request : Debit(r) \/ DebitUnconfigured(r)
      BY <2>5
    <3> DEFINE w == req[r].wallet
               m == debitStarter(ledgers[w], r)
    <3>2. /\ w \in Wallet /\ ~Fresh(w) /\ ledgers' = [ledgers EXCEPT ![w] = m] /\ Sound(m)
          /\ \A k, x : Has(m, k, x) <=>
               Has(ledgers[w], k, x) \/ (k = "debit" /\ x = r)
      BY <1>5, <3>1
    <3>3. w = req[r].wallet
      OBVIOUS
    <3> HIDE DEF w, m
    <3>4. \E o \in Request :
            /\ Debit(o) \/ DebitUnconfigured(o)
            /\ w = req[o].wallet
            /\ \A k, x : Has(m, k, x) <=>
                 Has(ledgers[w], k, x) \/ (k = "debit" /\ x = o)
      BY <3>1, <3>2, <3>3
    <3> QED
      BY <3>2, <3>4, Zenon
  <2>6. CASE \E r \in Request : Remember(r) \/ Refund(r)
    BY <1>6, <2>6
  <2> QED
    BY <2>1, <2>2, <2>3, <2>4, <2>5, <2>6, LedgerWriters

\* A migration, whole or cut, writes the guest's file and the account's.
LEMMA MigrationShape ==
  ASSUME IInv, NEW g \in Sid, NEW a \in AccountId, IsGuest(g), Fresh(a),
         ledgers' \in {LedgersCopied(g, a), LedgersMoved(g, a)}
  PROVE  /\ g \in Wallet /\ a \in Wallet /\ g # a /\ ~Fresh(g)
         /\ Sound(ledgers'[a])
         /\ \A k, x : Has(ledgers'[a], k, x) <=> Has(ledgers[g], k, x)
         /\ ledgers'[g] = IF ledgers' = LedgersCopied(g, a) THEN ledgers[g] ELSE emptyLedger
         /\ \A w \in Wallet \ {g, a} : ledgers'[w] = ledgers[w]
<1> USE DEF IInv
<1>1. g \in Wallet /\ a \in Wallet /\ g # a
  BY SortAssumption DEF Wallet
<1>2. ~Fresh(g)
  BY <1>1 DEF IsGuest, FreshIsBlank
<1>3. ledgers \in [Wallet -> Ledger]
  BY DEF TypeOK
<1> DEFINE m == [ledgers[g] EXCEPT !.onDisk = TRUE]
<1>4. Sound(m) /\ \A k, x : Has(m, k, x) <=> Has(ledgers[g], k, x)
  BY <1>1, CopySound DEF LedgersSound
<1>5. LedgersCopied(g, a) = [ledgers EXCEPT ![a] = m]
  BY DEF LedgersCopied
<1> HIDE DEF m
<1>6. LedgersCopied(g, a)[a] = m /\ LedgersCopied(g, a)[g] = ledgers[g]
      /\ \A w \in Wallet \ {g, a} : LedgersCopied(g, a)[w] = ledgers[w]
  BY <1>1, <1>3, <1>5
<1>7. LedgersCopied(g, a) \in [Wallet -> {ledgers[w] : w \in Wallet} \cup {m}]
  BY <1>3, <1>5
<1>8. LedgersMoved(g, a)[a] = m /\ LedgersMoved(g, a)[g] = emptyLedger
      /\ \A w \in Wallet \ {g, a} : LedgersMoved(g, a)[w] = ledgers[w]
  BY <1>1, <1>6, <1>7 DEF LedgersMoved
<1> QED
  BY <1>1, <1>2, <1>4, <1>6, <1>8

-----------------------------------------------------------------------------
\* The parts of the invariant, one by one

LEMMA StepSound == IInv /\ [Next]_vars => LedgersSound'
<1> SUFFICES ASSUME IInv, [Next]_vars, NEW w \in Wallet PROVE Sound(ledgers'[w])
  BY DEF LedgersSound
<1>1. ledgers \in [Wallet -> Ledger] /\ Sound(ledgers[w])
  BY DEF IInv, TypeOK, LedgersSound
<1>2. CASE UNCHANGED ledgers
  BY <1>1, <1>2
<1>3. ASSUME NEW g \in Sid, NEW a \in AccountId, IsGuest(g), Fresh(a),
             ledgers' \in {LedgersCopied(g, a), LedgersMoved(g, a)}
      PROVE  Sound(ledgers'[w])
  <2>1. Sound(ledgers'[a]) /\ (w \notin {g, a} => ledgers'[w] = ledgers[w])
        /\ ledgers'[g] \in {ledgers[g], emptyLedger}
    BY <1>3, MigrationShape
  <2> QED
    BY <1>1, <2>1, EmptySound
<1>4. ASSUME NEW v \in Wallet, NEW m, ledgers' = [ledgers EXCEPT ![v] = m], Sound(m)
      PROVE  Sound(ledgers'[w])
  BY <1>1, <1>4
<1> QED
  BY <1>2, <1>3, <1>4, LedgerOps

\* No id is taken back.
LEMMA IssuedGrows == [Next]_vars => issued \subseteq issued'
  BY IdentityWriters DEF identityVars, IdentityStep, StartGuest, Logout, RegisterGuest,
    RegisterNew, Login, SignedUp, RegisterCrash

\* An id that stays new keeps a blank ledger ...
LEMMA FreshLedger ==
  ASSUME IInv, [Next]_vars, NEW w \in Wallet, w \notin issued'
  PROVE  ledgers'[w] = emptyLedger
<1>1. /\ ledgers \in [Wallet -> Ledger]
      /\ Fresh(w) /\ ledgers[w] = emptyLedger
  BY IssuedGrows DEF IInv, TypeOK, FreshIsBlank, Fresh
<1>2. ASSUME NEW g \in Sid, NEW a \in AccountId, IsGuest(g), Fresh(a), a \in issued',
             ledgers' \in {LedgersCopied(g, a), LedgersMoved(g, a)}
      PROVE  ledgers'[w] = emptyLedger
  <2>1. ~Fresh(g)
    BY <1>2, MigrationShape
  <2>2. w \in Wallet \ {g, a}
    BY <1>1, <1>2, <2>1
  <2> QED
    BY <1>1, <1>2, <2>2, MigrationShape
<1>3. ASSUME NEW v \in Wallet, NEW m, ~Fresh(v), ledgers' = [ledgers EXCEPT ![v] = m]
      PROVE  ledgers'[w] = emptyLedger
  BY <1>1, <1>3
<1> QED
  BY <1>1, <1>2, <1>3, LedgerOps

\* ... no account and no session ...
LEMMA FreshIdentity ==
  ASSUME IInv, [Next]_vars, NEW w \in Wallet, w \notin issued'
  PROVE  /\ w \in AccountId => accounts'[w] = NoEmail
         /\ \A s \in Sid : sessions'[s] # w
<1> USE DEF IInv, TypeOK
<1>1. /\ w \notin issued
      /\ w \in AccountId => accounts[w] = NoEmail
      /\ \A s \in Sid : sessions[s] # w
      /\ w # NoIdentity
  BY IssuedGrows, SortAssumption DEF FreshIsBlank, Fresh, Wallet
<1>2. CASE UNCHANGED identityVars
  BY <1>1, <1>2 DEF identityVars
<1>3. CASE \E g \in Sid, a \in AccountId, e \in Email : RegisterCrash(g, a, e)
  BY <1>1, <1>3 DEF RegisterCrash
<1>4. ASSUME NEW s \in Sid, StartGuest(s) \/ Logout(s)
      PROVE  /\ w \in AccountId => accounts'[w] = NoEmail
             /\ \A x \in Sid : sessions'[x] # w
  BY <1>1, <1>4 DEF StartGuest, Logout
<1>5. ASSUME NEW g \in Sid, NEW s \in Sid, NEW a \in AccountId, NEW e \in Email,
             RegisterGuest(g, s, a, e)
      PROVE  /\ w \in AccountId => accounts'[w] = NoEmail
             /\ \A x \in Sid : sessions'[x] # w
  BY <1>1, <1>5 DEF RegisterGuest, SignedUp, SessionsMoved
<1>6. ASSUME NEW from \in Sid \cup {NoIdentity}, NEW s \in Sid, NEW a \in AccountId,
             NEW e \in Email, RegisterNew(from, s, a, e)
      PROVE  /\ w \in AccountId => accounts'[w] = NoEmail
             /\ \A x \in Sid : sessions'[x] # w
  BY <1>1, <1>6 DEF RegisterNew, SignedUp
<1>7. ASSUME NEW from \in Sid \cup {NoIdentity}, NEW s \in Sid, NEW a \in AccountId,
             Login(from, s, a)
      PROVE  /\ w \in AccountId => accounts'[w] = NoEmail
             /\ \A x \in Sid : sessions'[x] # w
  BY <1>1, <1>7 DEF Login
<1> QED
  BY <1>2, <1>3, <1>4, <1>5, <1>6, <1>7, IdentityWriters DEF IdentityStep

\* ... no top-up and no request.
LEMMA FreshUse ==
  ASSUME IInv, [Next]_vars, NEW w \in Wallet, w \notin issued'
  PROVE  /\ \A t \in TopupId : topups'[t].wallet # w
         /\ \A r \in Request : req'[r].wallet # w
<1> USE DEF IInv, TypeOK
<1>1. /\ w \notin issued
      /\ \A t \in TopupId : topups[t].wallet # w
      /\ \A r \in Request : req[r].wallet # w
      /\ \A s \in Sid : sessions[s] # w
  BY IssuedGrows DEF FreshIsBlank, Fresh
<1>2. \A r \in Request : req'[r].wallet # w
  BY <1>1, RequestWriters DEF Lookup
<1>3. ASSUME NEW g \in Sid, NEW a \in AccountId, a \in issued'
      PROVE  \A t \in TopupId : TopupsMoved(g, a)[t].wallet # w
  BY <1>1, <1>3 DEF TopupsMoved, Topup
<1>4. CASE UNCHANGED topups
  BY <1>1, <1>2, <1>4
<1>5. CASE \E g, s \in Sid, a \in AccountId, e \in Email : RegisterGuest(g, s, a, e)
  BY <1>2, <1>3, <1>5 DEF RegisterGuest, SignedUp
<1>6. CASE \E r \in Request, t \in TopupId, n \in Packs : CreateTopup(r, t, n)
  BY <1>1, <1>2, <1>6 DEF CreateTopup
<1>7. CASE \E r \in Request, t \in TopupId : SubmitProof(r, t) \/ CancelTopup(r, t)
  BY <1>1, <1>2, <1>7 DEF SubmitProof, CancelTopup, Topup
<1>8. CASE \E t \in TopupId : ApproveTopup(t)
  BY <1>1, <1>2, <1>8 DEF ApproveTopup, Topup
<1>9. CASE \E g \in Sid, a \in AccountId, e \in Email : RegisterCrash(g, a, e)
  BY <1>1, <1>2, <1>3, <1>9 DEF RegisterCrash
<1> QED
  BY <1>4, <1>5, <1>6, <1>7, <1>8, <1>9, TopupWriters

LEMMA StepFresh == IInv /\ [Next]_vars => FreshIsBlank'
  BY FreshLedger, FreshIdentity, FreshUse DEF FreshIsBlank, Fresh

\* Only a registration from a guest session writes the former guests.
LEMMA FormerWriters ==
  ASSUME [Next]_vars
  PROVE  \/ UNCHANGED former
         \/ \E g, s \in Sid, a \in AccountId, e \in Email : RegisterGuest(g, s, a, e)
  BY IdentityWriters DEF identityVars, IdentityStep, StartGuest, Logout, RegisterNew, Login,
    RegisterCrash

\* A guest that became an account never comes back: its sid is not issued again.
LEMMA StepRetire == IInv /\ [Next]_vars => GuestsRetire'
<1> SUFFICES ASSUME IInv, [Next]_vars PROVE GuestsRetire'
  OBVIOUS
<1> USE SortAssumption DEF IInv, TypeOK, GuestsRetire, Fresh
<1>1. CASE UNCHANGED identityVars
  BY <1>1 DEF identityVars
<1>2. CASE \E g \in Sid, a \in AccountId, e \in Email : RegisterCrash(g, a, e)
  BY <1>2 DEF RegisterCrash
<1>3. ASSUME NEW s \in Sid, StartGuest(s) \/ Logout(s) PROVE GuestsRetire'
  BY <1>3 DEF StartGuest, Logout
<1>4. ASSUME NEW g \in Sid, NEW s \in Sid, NEW a \in AccountId, NEW e \in Email,
             RegisterGuest(g, s, a, e)
      PROVE  GuestsRetire'
  <2>1. /\ sessions[g] = g /\ g # s
        /\ sessions' = [sessions EXCEPT ![g] = NoIdentity, ![s] = a]
        /\ former' = [former EXCEPT ![a] = g]
        /\ issued' = issued \cup {s, a}
        /\ s \notin issued /\ a \notin issued
    BY <1>4 DEF RegisterGuest, IsGuest, SessionsMoved, SignedUp, FreshIsBlank, Wallet
  <2>2. g \in issued
    BY <2>1 DEF FreshIsBlank, Wallet
  <2>3. \A x \in Sid : sessions'[x] \in Sid => sessions'[x] = x
    BY <2>1
  <2>4. ASSUME NEW b \in AccountId, former'[b] \in Sid
        PROVE  former'[b] \in issued' /\ sessions'[former'[b]] # former'[b]
    <3>1. CASE b = a
      BY <2>1, <2>2, <3>1
    <3>2. CASE b # a
      BY <2>1, <2>4, <3>2
    <3> QED
      BY <3>1, <3>2
  <2> QED
    BY <2>3, <2>4
<1>5. ASSUME NEW from \in Sid \cup {NoIdentity}, NEW s \in Sid, NEW a \in AccountId,
             NEW e \in Email, RegisterNew(from, s, a, e)
      PROVE  GuestsRetire'
  BY <1>5 DEF RegisterNew, SignedUp
<1>6. ASSUME NEW from \in Sid \cup {NoIdentity}, NEW s \in Sid, NEW a \in AccountId,
             Login(from, s, a)
      PROVE  GuestsRetire'
  BY <1>6 DEF Login
<1> QED
  BY <1>1, <1>2, <1>3, <1>4, <1>5, <1>6, IdentityWriters DEF IdentityStep

\* So what is left of that guest is out of everybody's reach.
LEMMA HeirRetired ==
  ASSUME IInv, NEW g \in Wallet, NEW a, Heir(g, a)
  PROVE  Retired(g, a)
  BY SortAssumption DEF IInv, TypeOK, GuestsRetire, Heir, Retired, Live, Wallet

\* What a migration does to the records, for one of them.
LEMMA TopupShape ==
  ASSUME IInv, NEW g \in Sid, NEW a \in AccountId, NEW t \in TopupId
  PROVE  /\ TopupsMoved(g, a)[t].status = topups[t].status
         /\ TopupsMoved(g, a)[t].amount = topups[t].amount
         /\ TopupsMoved(g, a)[t].wallet =
              IF topups[t].wallet = g THEN a ELSE topups[t].wallet
  BY DEF IInv, TypeOK, TopupsMoved, Topup

\* A step credits a top-up only by approving it, and debits an order only in
\* its own route.
LEMMA NewRows ==
  ASSUME IInv, [Next]_vars, NEW x \in Ref, NEW k \in {"debit", "topup"}, NEW w \in Wallet,
         Has(ledgers'[w], k, x)
  PROVE  \/ \E v \in Wallet : Has(ledgers[v], k, x)
         \/ k = "topup" /\ x \in TopupId /\ (ApproveTopup(x) \/ ApproveCrash(x))
         \/ k = "debit" /\ x \in Request /\ (Debit(x) \/ DebitUnconfigured(x))
<1>1. ledgers \in [Wallet -> Ledger]
  BY DEF IInv, TypeOK
<1>2. CASE UNCHANGED ledgers
  BY <1>2
<1>3. ASSUME NEW g \in Sid, NEW a \in AccountId, IsGuest(g), Fresh(a),
             ledgers' \in {LedgersCopied(g, a), LedgersMoved(g, a)}
      PROVE  \E v \in Wallet : Has(ledgers[v], k, x)
  <2>1. ~Has(emptyLedger, k, x)
    BY DEF Has, Rows, emptyLedger
  <2> QED
    BY <1>3, <2>1, MigrationShape
<1>4. ASSUME NEW v \in Wallet, NEW m, ledgers' = [ledgers EXCEPT ![v] = m],
             \A y \in Ref : \A j \in {"debit", "topup"} : Has(m, j, y) => Has(ledgers[v], j, y)
      PROVE  \E u \in Wallet : Has(ledgers[u], k, x)
  BY <1>1, <1>4
<1>5. ASSUME NEW v \in Wallet, NEW m, ledgers' = [ledgers EXCEPT ![v] = m],
             NEW t \in TopupId, ApproveTopup(t) \/ ApproveCrash(t),
             \A j, y : Has(m, j, y) <=> Has(ledgers[v], j, y) \/ (j = "topup" /\ y = t)
      PROVE  \/ \E u \in Wallet : Has(ledgers[u], k, x)
             \/ k = "topup" /\ x = t
  BY <1>1, <1>5
<1>6. ASSUME NEW v \in Wallet, NEW m, ledgers' = [ledgers EXCEPT ![v] = m],
             NEW r \in Request, Debit(r) \/ DebitUnconfigured(r),
             \A j, y : Has(m, j, y) <=> Has(ledgers[v], j, y) \/ (j = "debit" /\ y = r)
      PROVE  \/ \E u \in Wallet : Has(ledgers[u], k, x)
             \/ k = "debit" /\ x = r
  BY <1>1, <1>6
<1> QED
  BY <1>2, <1>3, <1>4, <1>5, <1>6, LedgerOps

LEMMA StepOwners == IInv /\ [Next]_vars => Owners'
<1> SUFFICES ASSUME IInv, [Next]_vars PROVE Owners'
  OBVIOUS
<1>1. TypeOK /\ TypeOK' /\ Owners /\ \A s \in Sid : sessions[s] \in Wallet \cup {NoIdentity}
  BY StepTyped DEF IInv, TypeOK
<1>2. ASSUME NEW r \in Request, req'[r].pc # "idle" PROVE req'[r].wallet \in Wallet
  <2>1. ASSUME NEW q \in Request, NEW s \in Sid, Lookup(q, s)
        PROVE  req'[r].wallet \in Wallet
    BY <1>1, <1>2, <2>1 DEF Lookup, Owners, TypeOK
  <2> QED
    BY <1>1, <1>2, <2>1, RequestWriters DEF Owners
<1>3. ASSUME NEW t \in TopupId
      PROVE  /\ topups'[t].status # "none" => topups'[t].wallet \in Wallet
             /\ topups'[t].status = "none" => topups[t].status = "none"
  <2> USE DEF TypeOK, Topup
  <2>1. CASE UNCHANGED topups
    BY <1>1, <2>1 DEF Owners
  <2>2. CASE \/ \E g, s \in Sid, a \in AccountId, e \in Email : RegisterGuest(g, s, a, e)
             \/ \E g \in Sid, a \in AccountId, e \in Email : RegisterCrash(g, a, e)
    <3>1. PICK g \in Sid, a \in AccountId : topups' = TopupsMoved(g, a) \/ UNCHANGED topups
      BY <2>2 DEF RegisterGuest, RegisterCrash
    <3>2. a \in Wallet
      BY DEF Wallet
    <3> QED
      BY <1>1, <3>1, <3>2, TopupShape DEF Owners
  <2>3. CASE \E r \in Request, u \in TopupId, n \in Packs : CreateTopup(r, u, n)
    BY <1>1, <2>3 DEF CreateTopup, Owners
  <2>4. CASE \E r \in Request, u \in TopupId : SubmitProof(r, u) \/ CancelTopup(r, u)
    BY <1>1, <2>4 DEF SubmitProof, CancelTopup, ProofAccepted, OpenStatus, Owners
  <2>5. CASE \E u \in TopupId : ApproveTopup(u)
    BY <1>1, <2>5 DEF ApproveTopup, OpenStatus, Owners
  <2> QED
    BY <2>1, <2>2, <2>3, <2>4, <2>5, TopupWriters
<1>4. ASSUME NEW t \in TopupId, topups'[t].status = "none", NEW w \in Wallet
      PROVE  ~Has(ledgers'[w], "topup", t)
  <2>1. topups[t].status = "none" /\ t \in Ref /\ t \notin Request
    BY <1>3, <1>4, SortAssumption
  <2>2. \A v \in Wallet : ~Has(ledgers[v], "topup", t)
    BY <1>1, <2>1 DEF Owners
  <2>3. ~ApproveTopup(t) /\ ~ApproveCrash(t)
    BY <2>1 DEF ApproveTopup, ApproveCrash, OpenStatus
  <2> QED
    BY <2>1, <2>2, <2>3, NewRows
<1> QED
  BY <1>2, <1>3, <1>4 DEF Owners

LEMMA StepUnspent == IInv /\ [Next]_vars => Unspent'
<1> SUFFICES ASSUME IInv, [Next]_vars, NEW r \in Request, req'[r].pc \in {"idle", "known"},
                    NEW w \in Wallet
             PROVE  ~Has(ledgers'[w], "debit", r)
  BY DEF Unspent
<1>1. req[r].pc \in {"idle", "known"}
  BY RequestWriters DEF Lookup, IInv, TypeOK, Handler
<1>2. \A v \in Wallet : ~Has(ledgers[v], "debit", r)
  BY <1>1 DEF IInv, Unspent
<1>3. ~Debit(r) /\ ~DebitUnconfigured(r)
  BY DEF Debit, DebitUnconfigured, Goto, IInv, TypeOK, Handler
<1>4. r \in Ref /\ r \notin TopupId
  BY SortAssumption
<1> QED
  BY <1>2, <1>3, <1>4, NewRows

\* A ledger loses rows only when its guest registers.
LEMMA RowsKept ==
  ASSUME IInv, [Next]_vars, NEW w \in Wallet, NEW k, NEW x, Has(ledgers[w], k, x),
         \A g, s \in Sid, a \in AccountId, e \in Email : ~RegisterGuest(g, s, a, e),
         \A g \in Sid, a \in AccountId, e \in Email : ~RegisterCrash(g, a, e)
  PROVE  Has(ledgers'[w], k, x)
<1>1. ledgers \in [Wallet -> Ledger]
  BY DEF IInv, TypeOK
<1>2. CASE UNCHANGED ledgers
  BY <1>2
<1>3. ASSUME NEW v \in Wallet, NEW m, ledgers' = [ledgers EXCEPT ![v] = m],
             \A j, y : Has(ledgers[v], j, y) => Has(m, j, y)
      PROVE  Has(ledgers'[w], k, x)
  BY <1>1, <1>3
<1> QED
  BY <1>2, <1>3, LedgerOps

LEMMA StepApproved == IInv /\ [Next]_vars => ApprovedIsCredited'
<1> SUFFICES ASSUME IInv, [Next]_vars, NEW t \in TopupId, topups'[t].status = "approved"
             PROVE  Has(ledgers'[topups'[t].wallet], "topup", t)
  BY DEF ApprovedIsCredited
<1>1. topups \in [TopupId -> Topup] /\ t \in Ref
  BY SortAssumption DEF IInv, TypeOK
<1>2. topups[t].status = "approved" =>
        topups[t].wallet \in Wallet /\ Has(ledgers[topups[t].wallet], "topup", t)
  BY DEF IInv, ApprovedIsCredited, Owners
<1>3. ASSUME NEW g \in Sid, NEW a \in AccountId, IsGuest(g), Fresh(a),
             ledgers' \in {LedgersCopied(g, a), LedgersMoved(g, a)},
             \/ topups' = TopupsMoved(g, a)
             \/ UNCHANGED topups /\ ledgers' = LedgersCopied(g, a)
      PROVE  Has(ledgers'[topups'[t].wallet], "topup", t)
  <2>1. topups[t].status = "approved"
    BY <1>3, TopupShape
  <2>2. topups[t].wallet # a
    BY <1>3, <2>1, MigrationShape DEF IInv, FreshIsBlank
  <2>3. CASE topups[t].wallet = g
    BY <1>2, <1>3, <2>1, <2>3, MigrationShape, TopupShape
  <2>4. CASE topups[t].wallet # g
    BY <1>2, <1>3, <2>1, <2>2, <2>4, MigrationShape, TopupShape
  <2> QED
    BY <2>3, <2>4
<1>4. CASE \/ \E g, s \in Sid, a \in AccountId, e \in Email : RegisterGuest(g, s, a, e)
           \/ \E g \in Sid, a \in AccountId, e \in Email : RegisterCrash(g, a, e)
  BY <1>3, <1>4 DEF RegisterGuest, RegisterCrash
<1>5. CASE /\ \A g, s \in Sid, a \in AccountId, e \in Email : ~RegisterGuest(g, s, a, e)
           /\ \A g \in Sid, a \in AccountId, e \in Email : ~RegisterCrash(g, a, e)
  <2>1. CASE \E u \in TopupId : ApproveTopup(u)
    <3>1. PICK u \in TopupId : ApproveTopup(u)
      BY <2>1
    <3>2. topups'[t].wallet = topups[t].wallet
          /\ (t # u => topups'[t].status = topups[t].status)
      BY <1>1, <3>1 DEF ApproveTopup, Topup
    <3>3. CASE t = u
      <4>1. topups[t].status # "none"
        BY <3>1, <3>3 DEF ApproveTopup, OpenStatus
      <4>2. Sound(ledgers[topups[t].wallet]) /\ topups[t].wallet \in Wallet
        BY <4>1 DEF IInv, Owners, LedgersSound
      <4>3. topups[t].amount \in Nat
        BY AmountNat DEF IInv
      <4>4. ledgers'[topups[t].wallet] =
              creditApprovedTopup(ledgers[topups[t].wallet], t, topups[t].amount)
        BY <3>1, <3>3, <4>2 DEF ApproveTopup, LedgersCredited, IInv, TypeOK
      <4> QED
        BY <1>1, <3>2, <4>2, <4>3, <4>4, ApprovedSound
    <3>4. CASE t # u
      BY <1>2, <1>5, <3>2, <3>4, RowsKept
    <3> QED
      BY <3>3, <3>4
  <2>2. ASSUME ~ \E u \in TopupId : ApproveTopup(u)
        PROVE  topups[t].status = "approved" /\ topups'[t].wallet = topups[t].wallet
    <3>1. CASE UNCHANGED topups
      BY <3>1
    <3>2. CASE \E r \in Request, u \in TopupId, n \in Packs : CreateTopup(r, u, n)
      BY <1>1, <3>2 DEF CreateTopup
    <3>3. CASE \E r \in Request, u \in TopupId : SubmitProof(r, u) \/ CancelTopup(r, u)
      BY <1>1, <3>3 DEF SubmitProof, CancelTopup, Topup
    <3> QED
      BY <1>5, <2>2, <3>1, <3>2, <3>3, TopupWriters
  <2> QED
    BY <1>2, <1>5, <2>1, <2>2, RowsKept
<1> QED
  BY <1>4, <1>5

LEMMA StepOneOpen == IInv /\ [Next]_vars => OneOpenTopup'
<1> SUFFICES ASSUME IInv, [Next]_vars PROVE OneOpenTopup'
  OBVIOUS
<1>1. topups \in [TopupId -> Topup] /\ OneOpenTopup
  BY DEF IInv, TypeOK
<1>2. CASE UNCHANGED topups
  BY <1>1, <1>2 DEF OneOpenTopup
<1>3. ASSUME NEW g \in Sid, NEW a \in AccountId, Fresh(a), topups' = TopupsMoved(g, a)
      PROVE  OneOpenTopup'
  <2>1. \A t \in TopupId : topups[t].wallet # a
    BY <1>3 DEF IInv, FreshIsBlank, Wallet
  <2>2. \A t \in TopupId :
          /\ topups'[t].status = topups[t].status
          /\ topups'[t].wallet = IF topups[t].wallet = g THEN a ELSE topups[t].wallet
    BY <1>3, TopupShape
  <2> QED
    BY <1>1, <2>1, <2>2 DEF OneOpenTopup
<1>4. CASE \/ \E g, s \in Sid, a \in AccountId, e \in Email : RegisterGuest(g, s, a, e)
           \/ \E g \in Sid, a \in AccountId, e \in Email : RegisterCrash(g, a, e)
  BY <1>2, <1>3, <1>4 DEF RegisterGuest, RegisterCrash
<1>5. CASE \E r \in Request, t \in TopupId, n \in Packs : CreateTopup(r, t, n)
  BY <1>1, <1>5 DEF CreateTopup, OpenOn, OneOpenTopup
<1>6. CASE \/ \E r \in Request, t \in TopupId : SubmitProof(r, t) \/ CancelTopup(r, t)
           \/ \E t \in TopupId : ApproveTopup(t)
  <2>1. PICK t \in TopupId, st \in {"proof_submitted", "cancelled", "approved"} :
          /\ topups' = [topups EXCEPT ![t].status = st]
          /\ st \in OpenStatus => topups[t].status \in OpenStatus
    BY <1>6 DEF SubmitProof, CancelTopup, ApproveTopup, ProofAccepted, OpenStatus
  <2>2. \A u \in TopupId :
          /\ topups'[u].wallet = topups[u].wallet
          /\ topups'[u].status \in OpenStatus => topups[u].status \in OpenStatus
    BY <1>1, <2>1 DEF Topup
  <2> QED
    BY <1>1, <2>2 DEF OneOpenTopup
<1> QED
  BY <1>2, <1>4, <1>5, <1>6, TopupWriters

\* A wallet becomes spendable only when its id is issued, and an account whose
\* registration was cut never does.
LEMMA SpendableFrom ==
  ASSUME IInv, [Next]_vars, NEW v \in Spendable'
  PROVE  /\ v \in Wallet
         /\ v \in Spendable \/ Fresh(v)
         /\ \A g \in Sid, a \in AccountId, e \in Email :
              RegisterCrash(g, a, e) => v # a /\ v \in Spendable
<1> USE DEF IInv, TypeOK
<1>1. ASSUME NEW r \in Request, req'[r].pc \in InFlight, v = req'[r].wallet
      PROVE  v \in Wallet /\ v \in Spendable
  <2>1. ASSUME NEW q \in Request, NEW s \in Sid, Lookup(q, s), r = q
        PROVE  v \in Wallet /\ v \in Spendable
    <3>1. v = sessions[s] /\ sessions[s] # NoIdentity
      BY <1>1, <2>1 DEF Lookup
    <3> QED
      BY <3>1 DEF Spendable, Live
  <2>2. CASE req[r].pc \in InFlight /\ req'[r].wallet = req[r].wallet
    <3>1. v \in Wallet
      BY <1>1, <2>2 DEF Owners, InFlight
    <3> QED
      BY <1>1, <2>2, <3>1 DEF Spendable, Live
  <2>3. ASSUME NEW q \in Request, NEW s \in Sid, Lookup(q, s), r # q
        PROVE  req[r].pc \in InFlight /\ req'[r].wallet = req[r].wallet
    BY <1>1, <2>3 DEF Lookup
  <2> QED
    BY <1>1, <2>1, <2>2, <2>3, RequestWriters
<1>2. ASSUME NEW s \in Sid, v = sessions[s], v \in Wallet PROVE v \in Spendable
  BY <1>2 DEF Spendable, Live
<1>3. ASSUME NEW a \in AccountId, v = a, accounts[a] # NoEmail PROVE v \in Spendable
  BY <1>3 DEF Spendable, Live
<1>4. CASE IdentityStep /\ UNCHANGED req
  <2> DEFINE Known(x) == \/ \E s \in Sid : x = sessions[s]
                         \/ x \in AccountId /\ accounts[x] # NoEmail
                         \/ x = NoIdentity \/ Fresh(x)
  <2>1. \A s \in Sid : Known(sessions'[s])
    <3>1. ASSUME NEW s \in Sid, StartGuest(s) \/ Logout(s)
          PROVE  \A x \in Sid : Known(sessions'[x])
      BY <3>1 DEF StartGuest, Logout
    <3>2. ASSUME NEW g \in Sid, NEW s \in Sid, NEW a \in AccountId, NEW e \in Email,
                 RegisterGuest(g, s, a, e)
          PROVE  \A x \in Sid : Known(sessions'[x])
      BY <3>2 DEF RegisterGuest, SessionsMoved
    <3>3. ASSUME NEW from \in Sid \cup {NoIdentity}, NEW s \in Sid, NEW a \in AccountId,
                 NEW e \in Email, RegisterNew(from, s, a, e)
          PROVE  \A x \in Sid : Known(sessions'[x])
      BY <3>3 DEF RegisterNew
    <3>4. ASSUME NEW from \in Sid \cup {NoIdentity}, NEW s \in Sid, NEW a \in AccountId,
                 Login(from, s, a)
          PROVE  \A x \in Sid : Known(sessions'[x])
      BY <3>4 DEF Login
    <3> QED
      BY <1>4, <3>1, <3>2, <3>3, <3>4 DEF IdentityStep
  <2>2. \A a \in AccountId : accounts'[a] # NoEmail => Known(a)
    <3>1. ASSUME NEW s \in Sid, NEW b \in AccountId, NEW e \in Email, SignedUp(s, b, e),
                 Fresh(b)
          PROVE  \A a \in AccountId : accounts'[a] # NoEmail => Known(a)
      BY <3>1 DEF SignedUp
    <3>2. UNCHANGED accounts => \A a \in AccountId : accounts'[a] # NoEmail => Known(a)
      OBVIOUS
    <3> HIDE DEF Known
    <3> QED
      BY <1>4, <3>1, <3>2
      DEF IdentityStep, StartGuest, Logout, RegisterGuest, RegisterNew, Login
  <2>3. v \in Wallet => (Known(v) => v \in Spendable \/ Fresh(v))
    BY <1>2, <1>3, SortAssumption DEF Wallet
  <2>4. ASSUME NEW s \in Sid, v = sessions'[s], v \in Wallet
        PROVE  v \in Spendable \/ Fresh(v)
    BY <2>1, <2>3, <2>4
  <2>5. ASSUME NEW a \in AccountId, v = a, accounts'[a] # NoEmail
        PROVE  v \in Wallet /\ (v \in Spendable \/ Fresh(v))
    BY <2>2, <2>3, <2>5 DEF Wallet
  <2>6. v \in Wallet /\ (v \in Spendable \/ Fresh(v))
    BY <1>1, <2>4, <2>5 DEF Spendable, Live
  <2>7. ASSUME NEW g \in Sid, NEW a \in AccountId, NEW e \in Email, RegisterCrash(g, a, e)
        PROVE  FALSE
    BY <1>4, <2>7 DEF RegisterCrash, IdentityStep, StartGuest, Logout, RegisterGuest,
      RegisterNew, Login, Restarted
  <2> QED
    BY <2>6, <2>7
<1>5. CASE UNCHANGED <<sessions, accounts>>
  <2>1. v \in Wallet /\ v \in Spendable
    BY <1>1, <1>2, <1>3, <1>5 DEF Spendable, Live, Wallet
  <2>2. ASSUME NEW g \in Sid, NEW a \in AccountId, NEW e \in Email, RegisterCrash(g, a, e)
        PROVE  a \notin Spendable
    <3>1. a \in Wallet /\ Fresh(a)
      BY <2>2 DEF RegisterCrash, Wallet
    <3> QED
      BY <3>1 DEF FreshIsBlank, Spendable, Live
  <2> QED
    BY <2>1, <2>2
<1> QED
  BY <1>4, <1>5, IdentityWriters DEF identityVars, RegisterCrash

\* Where a spendable credit comes from when nobody registers.
LEMMA CreditFrom ==
  ASSUME IInv, [Next]_vars, NEW t \in TopupId, NEW v \in Spendable',
         Has(ledgers'[v], "topup", t),
         \A g, s \in Sid, a \in AccountId, e \in Email : ~RegisterGuest(g, s, a, e),
         \A g \in Sid, a \in AccountId, e \in Email : ~RegisterCrash(g, a, e)
  PROVE  /\ v \in Spendable
         /\ topups'[t].wallet = topups[t].wallet
         /\ Has(ledgers[v], "topup", t) \/ v = topups[t].wallet
<1>1. /\ ledgers \in [Wallet -> Ledger]
      /\ topups \in [TopupId -> Topup]
      /\ v \in Wallet /\ t \in Ref
  BY SpendableFrom, SortAssumption DEF IInv, TypeOK
<1>2. ~Has(emptyLedger, "topup", t)
  BY DEF Has, Rows, emptyLedger
<1>3. v \in Spendable
  <2>1. CASE Fresh(v)
    <3>1. ledgers[v] = emptyLedger
      BY <1>1, <2>1 DEF IInv, FreshIsBlank
    <3>2. ledgers'[v] = emptyLedger
      BY <1>1, <2>1, <3>1, LedgerOps
    <3> QED
      BY <1>2, <3>2
  <2> QED
    BY <2>1, SpendableFrom
<1>4. Has(ledgers[v], "topup", t) \/ v = topups[t].wallet
  <2>1. CASE UNCHANGED ledgers
    BY <2>1
  <2>2. ASSUME NEW u \in Wallet, NEW m, ledgers' = [ledgers EXCEPT ![u] = m],
               ~Has(ledgers[v], "topup", t)
        PROVE  u = v /\ Has(m, "topup", t)
    BY <1>1, <2>2
  <2> QED
    BY <1>1, <2>1, <2>2, LedgerOps
<1>5. topups'[t].wallet = topups[t].wallet
  <2>1. topups[t].status # "none" \/ ApproveTopup(t) \/ ApproveCrash(t)
    <3>1. CASE \E w \in Wallet : Has(ledgers[w], "topup", t)
      BY <3>1 DEF IInv, Owners
    <3>2. CASE ~ \E w \in Wallet : Has(ledgers[w], "topup", t)
      BY <1>1, <3>2, NewRows
    <3> QED
      BY <3>1, <3>2
  <2>2. topups[t].status # "none"
    BY <2>1 DEF ApproveTopup, ApproveCrash, OpenStatus
  <2>3. CASE \E r \in Request, u \in TopupId, n \in Packs : CreateTopup(r, u, n)
    BY <1>1, <2>2, <2>3 DEF CreateTopup
  <2>4. CASE \/ \E r \in Request, u \in TopupId : SubmitProof(r, u) \/ CancelTopup(r, u)
             \/ \E u \in TopupId : ApproveTopup(u)
    BY <1>1, <2>4 DEF SubmitProof, CancelTopup, ApproveTopup, Topup
  <2> QED
    BY <2>3, <2>4, TopupWriters
<1> QED
  BY <1>3, <1>4, <1>5

\* The two facts for one top-up.
CreditOnce(t) ==
  /\ \A v, w \in Spendable :
       Has(ledgers[v], "topup", t) /\ Has(ledgers[w], "topup", t) =>
         v = w \/ Heir(v, w) \/ Heir(w, v)
  /\ \A v \in Spendable : Has(ledgers[v], "topup", t) =>
       topups[t].wallet \notin Spendable \ {v} \/ Heir(v, topups[t].wallet)

\* Copying a ledger, even twice, makes no credit spendable by two identities.
LEMMA StepNoDouble == IInv /\ [Next]_vars => OneCopy' /\ OneOwner'
<1> SUFFICES ASSUME IInv, [Next]_vars, NEW t \in TopupId PROVE CreditOnce(t)'
  BY DEF OneCopy, OneOwner, CreditOnce
<1> USE DEF IInv
<1>1. CreditOnce(t)
  BY DEF OneCopy, OneOwner, CreditOnce
<1>2. \A v \in Spendable' : v \in Wallet /\ (v \in Spendable \/ Fresh(v))
  BY SpendableFrom
<1>3. ~Fresh(topups[t].wallet) \/ topups[t].wallet \notin Wallet
  BY DEF FreshIsBlank
<1>4. \A v \in Wallet : Fresh(v) => ~Has(ledgers[v], "topup", t)
  BY DEF FreshIsBlank, Has, Rows, emptyLedger
<1>5. ASSUME NEW g \in Sid, NEW s \in Sid, NEW a \in AccountId, NEW e \in Email,
             RegisterGuest(g, s, a, e)
      PROVE  CreditOnce(t)'
  <2>1. /\ IsGuest(g) /\ Fresh(a)
        /\ ledgers' \in {LedgersCopied(g, a), LedgersMoved(g, a)}
        /\ topups' = TopupsMoved(g, a)
        /\ former' = [former EXCEPT ![a] = g]
    BY <1>5 DEF RegisterGuest
  <2>2. g \in Spendable /\ g \in Wallet /\ a \in Wallet /\ g # a
    BY <2>1, SortAssumption DEF IsGuest, Spendable, Live, Wallet
  <2>3. \A k, x : ~Has(emptyLedger, k, x)
    BY DEF Has, Rows, emptyLedger
  <2>4. Has(ledgers'[g], "topup", t) => Has(ledgers[g], "topup", t)
    BY <2>1, <2>3, MigrationShape
  <2>5. /\ Has(ledgers'[a], "topup", t) <=> Has(ledgers[g], "topup", t)
        /\ \A w \in Wallet \ {g, a} : ledgers'[w] = ledgers[w]
    BY <2>1, MigrationShape
  <2>6. topups'[t].wallet = IF topups[t].wallet = g THEN a ELSE topups[t].wallet
    BY <2>1, TopupShape
  <2>7. \A v \in Spendable' : Has(ledgers'[v], "topup", t) =>
          \/ v \in {g, a} /\ Has(ledgers[g], "topup", t)
          \/ v \notin {g, a} /\ v \in Spendable /\ Has(ledgers[v], "topup", t)
    BY <1>2, <1>4, <2>4, <2>5
  <2>8. topups[t].wallet # a
    BY <2>1, <2>2 DEF FreshIsBlank
  <2>9. /\ \A b : ~Heir(g, b) /\ ~Heir(b, g)
        /\ Heir(g, a)'
        /\ \A v, w : w # a /\ Heir(v, w) => Heir(v, w)'
    BY <2>1, SortAssumption DEF Heir, GuestsRetire, IsGuest, TypeOK
  <2>10. ASSUME NEW v \in Spendable', NEW w \in Spendable',
                Has(ledgers'[v], "topup", t), Has(ledgers'[w], "topup", t)
         PROVE  v = w \/ Heir(v, w)' \/ Heir(w, v)'
    <3>1. CASE v \in {g, a} /\ w \in {g, a}
      BY <2>9, <3>1
    <3>2. CASE v \notin {g, a} /\ w \notin {g, a}
      BY <1>1, <2>7, <2>9, <2>10, <3>2 DEF CreditOnce
    <3>3. CASE v \in {g, a} /\ w \notin {g, a}
      BY <1>1, <2>2, <2>7, <2>9, <2>10, <3>3 DEF CreditOnce
    <3>4. CASE v \notin {g, a} /\ w \in {g, a}
      BY <1>1, <2>2, <2>7, <2>9, <2>10, <3>4 DEF CreditOnce
    <3> QED
      BY <3>1, <3>2, <3>3, <3>4
  <2>11. ASSUME NEW v \in Spendable', Has(ledgers'[v], "topup", t)
         PROVE  \/ topups'[t].wallet \notin Spendable' \ {v}
                \/ topups'[t].wallet \in AccountId /\ former'[topups'[t].wallet] = v
    <3>1. CASE v \in {g, a}
      <4>1. topups[t].wallet \notin Spendable \ {g}
        BY <1>1, <2>2, <2>7, <2>9, <2>11, <3>1 DEF CreditOnce
      <4> QED
        BY <1>2, <1>3, <2>1, <2>2, <2>6, <3>1, <4>1 DEF TypeOK
    <3>2. CASE v \notin {g, a}
      <4>1. topups[t].wallet # g
        BY <1>1, <2>2, <2>7, <2>9, <2>11, <3>2 DEF CreditOnce
      <4> QED
        BY <1>1, <1>2, <1>3, <2>1, <2>6, <2>7, <2>8, <2>11, <3>2, <4>1
        DEF CreditOnce, Heir, TypeOK
    <3> QED
      BY <3>1, <3>2
  <2> QED
    BY <2>10, <2>11 DEF CreditOnce, Heir
<1>6. ASSUME NEW g \in Sid, NEW a \in AccountId, NEW e \in Email, RegisterCrash(g, a, e)
      PROVE  CreditOnce(t)'
  <2>1. /\ IsGuest(g) /\ Fresh(a)
        /\ ledgers' \in {LedgersCopied(g, a), LedgersMoved(g, a)}
        /\ topups' = TopupsMoved(g, a) \/ UNCHANGED topups
        /\ UNCHANGED former
    BY <1>6 DEF RegisterCrash
  <2>2. \A v \in Spendable' : v \in Spendable /\ v # a
    BY <1>6, SpendableFrom
  <2>3. \A k, x : ~Has(emptyLedger, k, x)
    BY DEF Has, Rows, emptyLedger
  <2>4. \A v \in Spendable' : Has(ledgers'[v], "topup", t) => Has(ledgers[v], "topup", t)
    BY <1>2, <2>1, <2>2, <2>3, MigrationShape
  <2>5. topups'[t].wallet \in {topups[t].wallet, a}
    BY <2>1, TopupShape
  <2> QED
    BY <1>1, <2>1, <2>2, <2>4, <2>5 DEF CreditOnce, Heir
<1>7. CASE /\ \A g, s \in Sid, a \in AccountId, e \in Email : ~RegisterGuest(g, s, a, e)
           /\ \A g \in Sid, a \in AccountId, e \in Email : ~RegisterCrash(g, a, e)
  <2>1. \A v \in Spendable' : Has(ledgers'[v], "topup", t) =>
          /\ v \in Spendable
          /\ topups'[t].wallet = topups[t].wallet
          /\ Has(ledgers[v], "topup", t) \/ v = topups[t].wallet
    BY <1>7, CreditFrom
  <2>2. UNCHANGED former
    BY <1>7, FormerWriters
  <2> QED
    BY <1>1, <1>2, <1>3, <2>1, <2>2 DEF CreditOnce, Heir
<1> QED
  BY <1>5, <1>6, <1>7

-----------------------------------------------------------------------------
\* The theorems

LEMMA StepInv == IInv /\ [Next]_vars => IInv'
  BY StepTyped, StepFresh, StepOwners, StepUnspent, StepSound, StepApproved, StepOneOpen,
    StepRetire, StepNoDouble DEF IInv

LEMMA Invariance == Spec => []IInv
<1>1. Init => IInv
  BY InitInv
<1>2. IInv /\ [Next]_vars => IInv'
  BY StepInv
<1> QED
  BY <1>1, <1>2, PTL DEF Spec

\* Every ledger file explains its balance, repeats no debit, refund or top-up
\* credit, and refunds only what it debited.
THEOREM LedgersAreSound == Spec => []LedgersAccount
<1>1. IInv => LedgersAccount
  BY DEF IInv, LedgersSound, Sound, LedgersAccount, LedgersChained, NothingTwice, RefundsBacked
<1> QED
  BY <1>1, Invariance, PTL

\* An approved top-up is on its owner's ledger, across registrations and crashes.
THEOREM ApprovedStaysCredited == Spec => []ApprovedIsCredited
<1>1. IInv => ApprovedIsCredited
  BY DEF IInv
<1> QED
  BY <1>1, Invariance, PTL

\* No two identities can spend the same credit, even when a registration was cut
\* or its unlink threw and two copies of the ledger are on disk: the only second
\* copy in use is that of the guest the owner was, held by a request in flight.
THEOREM CreditSpentOnce == Spec => []NoDoubleSpend
<1>1. ASSUME IInv PROVE NoDoubleSpend
  <2>1. Spendable \subseteq Wallet
    BY <1>1, SortAssumption DEF IInv, TypeOK, Owners, Spendable, Live, InFlight, Wallet
  <2> QED
    BY <1>1, <2>1, HeirRetired DEF IInv, OneCopy, NoDoubleSpend
<1> QED
  BY <1>1, Invariance, PTL

\* No wallet ever has two open top-up requests.
THEOREM OneOpenRequest == Spec => []OneOpenTopup
<1>1. IInv => OneOpenTopup
  BY DEF IInv
<1> QED
  BY <1>1, Invariance, PTL

\* An id that was not issued yet is blank in every store.
THEOREM NewIdsAreBlank == Spec => []FreshIsBlank
<1>1. IInv => FreshIsBlank
  BY DEF IInv
<1> QED
  BY <1>1, Invariance, PTL

\* A settled request is never reopened, switched or repriced by any step.
THEOREM SettledStays == Spec => SettledIsFinal
<1> DEFINE Final == \A t \in TopupId : topups[t].status \in {"approved", "cancelled"} =>
                      topups'[t].status = topups[t].status
                      /\ topups'[t].amount = topups[t].amount
<1>1. ASSUME IInv, [Next]_vars PROVE [Final]_vars
  <2>1. topups \in [TopupId -> Topup]
    BY <1>1 DEF IInv, TypeOK
  <2>2. CASE UNCHANGED topups
    BY <2>2
  <2>3. CASE \/ \E g, s \in Sid, a \in AccountId, e \in Email : RegisterGuest(g, s, a, e)
             \/ \E g \in Sid, a \in AccountId, e \in Email : RegisterCrash(g, a, e)
    <3>1. PICK g \in Sid, a \in AccountId : topups' = TopupsMoved(g, a) \/ UNCHANGED topups
      BY <2>3 DEF RegisterGuest, RegisterCrash
    <3> QED
      BY <1>1, <3>1, TopupShape
  <2>4. CASE \E r \in Request, u \in TopupId, n \in Packs : CreateTopup(r, u, n)
    BY <2>1, <2>4 DEF CreateTopup
  <2>5. CASE \E r \in Request, u \in TopupId : SubmitProof(r, u) \/ CancelTopup(r, u)
    BY <2>1, <2>5 DEF SubmitProof, CancelTopup, ProofAccepted, OpenStatus, Topup
  <2>6. CASE \E u \in TopupId : ApproveTopup(u)
    BY <2>1, <2>6 DEF ApproveTopup, OpenStatus, Topup
  <2> QED
    BY <1>1, <2>2, <2>3, <2>4, <2>5, <2>6, TopupWriters
<1> HIDE DEF Final
<1>2. Spec => [][Final]_vars
  BY <1>1, Invariance, PTL DEF Spec
<1> QED
  BY <1>2 DEF SettledIsFinal, Final
====
