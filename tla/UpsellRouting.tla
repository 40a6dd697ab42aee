---- MODULE UpsellRouting ----
(***************************************************************************)
(* What the routing files of StarterSites hold after an upsell.            *)
(*                                                                         *)
(* enable_upsell and disable_upsell save the manifest and then list all    *)
(* manifests once for the host map and once for Caddy (upsell.py:202-216,  *)
(* 250-262).  Nothing locks these files: handlers that overlap, a death,   *)
(* a torn manifest or a site that Generate replaced may leave them naming  *)
(* the wrong hosts.  This module adds the history that says when an upsell *)
(* has put them right again.                                               *)
(***************************************************************************)
EXTENDS StarterSites

VARIABLES
  alone,  \* history: upsells past their save into which nobody has written
  mended  \* history: the last to change the routing was such an upsell, now done

routingVars == <<vars, alone, mended>>

\* What an upsell does once its manifest is saved.
AfterUpsell == {"hosts", "map", "remaining", "reset", "list", "route"}

\* What a write of somebody else would change under an upsell.
routing == <<Active, hosts, routed>>

\* Handler t takes a step.
Follow(t) ==
  /\ alone' = {v \in Calls :
       /\ call'[v].op \in {"enable", "disable"} /\ call'[v].pc \in AfterUpsell
       /\ IF v = t THEN v \in alone \/ call[v].pc = "torn"
                   ELSE v \in alone /\ UNCHANGED routing}
  /\ mended' = \/ t \in alone /\ call'[t].pc = "idle"
               \/ mended /\ UNCHANGED routing

RoutingInit == Init /\ alone = {} /\ mended = TRUE

RoutingNext ==
  \/ \E c \in Customers : Register(c) /\ UNCHANGED <<alone, mended>>
  \/ \E t \in Calls : (SomebodyAsks(t) \/ Enter(t) \/ Work(t)) /\ Follow(t)
  \/ WizardDies /\ alone' = {} /\ UNCHANGED mended

RoutingSpec == RoutingInit /\ [][RoutingNext]_routingVars

-----------------------------------------------------------------------------
\* "routing uses nexus-host-map.json (portfolio + all gaas_active)", says the
\* note in the registry file (upsell.py:58).  Handlers that overlap break that;
\* an upsell puts it right: when nobody else changes the upsells or the routing
\* between its save and its end, the host map names exactly the active upsells
\* and Caddy sends exactly their hosts through the gateway, whatever overlapping
\* handlers, deaths, torn manifests and replaced sites had left there.
RoutingMended == mended => hosts = Active /\ routed = Active
====
