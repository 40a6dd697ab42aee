---- MODULE KreditLedger ----
(***************************************************************************)
(* One Kredit ledger file of the Channel Portal                            *)
(* (nexus-gaas-web/src/lib/kredit-ledger.ts), as pure operators: each one  *)
(* is the ledger a call leaves on disk when it is started on the ledger l. *)
(*                                                                         *)
(* A ledger is its balance and its entries, oldest first.  A file that     *)
(* does not exist reads as the empty ledger, so a missing file is a ledger *)
(* with onDisk = FALSE.  Of an entry the model keeps its kind, its signed  *)
(* amount, the order or top-up it belongs to (orderId; the SKU is the      *)
(* Starter on debits and refunds and absent elsewhere), balanceAfter, and  *)
(* whether the note carries the slug= token.                               *)
(***************************************************************************)
EXTENDS Integers, Sequences

CONSTANTS
  Ref,     \* what an entry may name: order ids and top-up ids
  NoRef,   \* the orderId of an entry that has none
  Price    \* KREDIT.starterPriceKr

ASSUME PriceAssumption == Price \in Nat \ {0}

Kind == {"faucet", "debit", "refund", "topup"}

Entry == [kind : Kind, amount : Int, ref : Ref \cup {NoRef},
          balanceAfter : Int, slug : BOOLEAN]

Ledger == [onDisk : BOOLEAN, balance : Int, entries : Seq(Entry)]

-----------------------------------------------------------------------------

emptyLedger == [onDisk |-> FALSE, balance |-> 0, entries |-> <<>>]

\* pushEntry followed by writeLedger, as every caller does.
pushEntry(l, kind, delta, ref) ==
  [onDisk  |-> TRUE,
   balance |-> l.balance + delta,
   entries |-> Append(l.entries,
                      [kind |-> kind, amount |-> delta, ref |-> ref,
                       balanceAfter |-> l.balance + delta, slug |-> FALSE])]

\* The rows of one kind that name ref.
Rows(l, kind, ref) ==
  {i \in 1 .. Len(l.entries) : l.entries[i].kind = kind /\ l.entries[i].ref = ref}

Has(l, kind, ref) == Rows(l, kind, ref) # {}

\* The newest Starter row of the order is a debit: the order is already paid.
PriorIsDebit(l, o) ==
  \E i \in Rows(l, "debit", o) : \A j \in Rows(l, "refund", o) : j < i

-----------------------------------------------------------------------------

creditFaucet(l, n) == pushEntry(l, "faucet", n, NoRef)

\* A mutant: the credit does not look for an earlier credit of the top-up.
creditApprovedTopupTwice(l, t, n) == pushEntry(l, "topup", n, t)

creditApprovedTopup(l, t, n) ==
  IF Has(l, "topup", t) THEN l ELSE pushEntry(l, "topup", n, t)

\* debitStarter throws InsufficientKreditError exactly when this is false.
canDebitStarter(l, o) == PriorIsDebit(l, o) \/ l.balance >= Price

debitStarter(l, o) ==
  IF PriorIsDebit(l, o) THEN l ELSE pushEntry(l, "debit", -Price, o)

refundStarter(l, o) ==
  IF Has(l, "debit", o) /\ ~Has(l, "refund", o)
  THEN pushEntry(l, "refund", Price, o)
  ELSE l

\* The slug goes on the newest debit row of the order, unless it has one.
rememberStarterSlug(l, o) ==
  IF Has(l, "debit", o)
  THEN LET last == CHOOSE i \in Rows(l, "debit", o) :
                     \A j \in Rows(l, "debit", o) : j <= i
       IN  [l EXCEPT !.entries[last].slug = TRUE]
  ELSE l

-----------------------------------------------------------------------------
\* What a ledger file owes its owner

\* The balance is explained by the entries: every balanceAfter is the previous
\* one plus the amount, none is negative, and the last one is the balance.
Chained(l) ==
  /\ l.balance = IF l.entries = <<>> THEN 0
                 ELSE l.entries[Len(l.entries)].balanceAfter
  /\ \A i \in 1 .. Len(l.entries) :
       /\ l.entries[i].balanceAfter >= 0
       /\ l.entries[i].balanceAfter = l.entries[i].amount +
            (IF i = 1 THEN 0 ELSE l.entries[i - 1].balanceAfter)

\* No order has two debits or two refunds, and no top-up two credits.
Unrepeated(l) ==
  \A k \in {"debit", "refund", "topup"}, x \in Ref :
    \A i, j \in Rows(l, k, x) : i = j

\* A refund gives back a debit of the same ledger that is before it.
Backed(l) ==
  \A x \in Ref : \A j \in Rows(l, "refund", x) : \E i \in Rows(l, "debit", x) : i < j
====
