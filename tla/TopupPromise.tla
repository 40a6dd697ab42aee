---- MODULE TopupPromise ----
(***************************************************************************)
(* What the portal promises about a manual top-up (DECISIONS_OPEN.md,      *)
(* LIMITATIONS.md): asking adds nothing to the balance, the operator's     *)
(* approval adds it once, in one step, and a cancelled request never adds  *)
(* anything.  There are no files, wallets or sessions here.                *)
(***************************************************************************)
CONSTANT TopupId

VARIABLES desk, credited

Init == desk = [t \in TopupId |-> "none"] /\ credited = {}

Ask(t) ==
  /\ desk[t] = "none"
  /\ desk' = [desk EXCEPT ![t] = "open"]
  /\ UNCHANGED credited

Cancel(t) ==
  /\ desk[t] = "open"
  /\ desk' = [desk EXCEPT ![t] = "cancelled"]
  /\ UNCHANGED credited

Approve(t) ==
  /\ desk[t] = "open"
  /\ desk' = [desk EXCEPT ![t] = "approved"]
  /\ credited' = credited \cup {t}

Next == \E t \in TopupId : Ask(t) \/ Cancel(t) \/ Approve(t)

Spec == Init /\ [][Next]_<<desk, credited>>
====
