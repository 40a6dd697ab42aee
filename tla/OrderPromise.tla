---- MODULE OrderPromise ----
(***************************************************************************)
(* What the portal promises about a paid Generate order: it is paid once,  *)
(* nothing is delivered or refunded that was not paid, and an order is     *)
(* never both delivered and refunded.  A paid order may stay as it is for  *)
(* ever: the promise is about what is done with the money, not about when. *)
(* There are no ledger files, wallets, sessions or handlers here.          *)
(***************************************************************************)
CONSTANT Order

VARIABLES paid, delivered, refunded

Init == paid = {} /\ delivered = {} /\ refunded = {}

Pay(o) ==
  /\ o \notin paid
  /\ paid' = paid \cup {o}
  /\ UNCHANGED <<delivered, refunded>>

\* A paid order that is still open.
Due(o) == o \in paid /\ o \notin delivered \cup refunded

Deliver(o) ==
  /\ Due(o)
  /\ delivered' = delivered \cup {o}
  /\ UNCHANGED <<paid, refunded>>

Refund(o) ==
  /\ Due(o)
  /\ refunded' = refunded \cup {o}
  /\ UNCHANGED <<paid, delivered>>

Next == \E o \in Order : Pay(o) \/ Deliver(o) \/ Refund(o)

Spec == Init /\ [][Next]_<<paid, delivered, refunded>>
====
