------------------------------ MODULE SocDesk ------------------------------
(***************************************************************************)
(* The operator's desk (nexus-admin-dashboard, app/page.tsx) over the      *)
(* gateway's control plane.  The desk shows one workspace at a time - a    *)
(* protected host, or All, the "Global Overwatch" - and three timers ask   *)
(* the gateway for it: telemetry (2 s), IP activity with the blacklist     *)
(* (3 s), and the list of the workspace switcher (10 s).  None waits for   *)
(* its previous answer, so answers arrive late, in any order, and after    *)
(* the operator has moved to another workspace.  The operator's own        *)
(* requests (purge, onboard, add a route, ban) are asynchronous too, and   *)
(* the desk stays usable while they run.                                   *)
(*                                                                         *)
(* A React effect that follows a state change is part of the action that   *)
(* makes the change.  A request is answered from the gateway's state at    *)
(* one instant: for the polls it is the instant they are sent (time spent  *)
(* before the gateway reads is time the timer had not fired yet), for the  *)
(* operator's requests it is Serve.  The gateway's handlers are external.  *)
(***************************************************************************)
EXTENDS Naturals, FiniteSets

CONSTANTS
  Hosts,      \* the protected hosts
  All,        \* the global workspace, "all"
  IPs,        \* the addresses the operator bans
  Timers,     \* the timers of the instance, of "telemetry", "ips", "domains"
  MaxActs,    \* bound on the operator's acts
  MaxTraffic, \* bound on the requests the gateway logs
  MaxLosses,  \* bound on the lost, refused or broken answers
  MaxPolls    \* bound on the polls of one timer in flight

ASSUME DeskAssumption ==
  /\ All \notin Hosts
  /\ MaxActs \in Nat /\ MaxTraffic \in Nat /\ MaxLosses \in Nat /\ MaxPolls \in Nat

VARIABLES
  desk,      \* what the page shows, and the one ref it keeps
  telePolls, \* the telemetry requests in flight, answered
  ipPolls,   \* the IP and blacklist requests in flight, answered
  listPolls, \* the requests for the list of workspaces in flight, answered
  tasks,     \* the operator's requests in flight
  gateway,   \* known hosts, recent log, honeypot total, banned addresses
  purged,    \* history: the hosts the gateway was told to purge
  confirmed, \* history: the hosts the operator confirmed to purge
  spent      \* acts, traffic and losses so far

vars == <<desk, telePolls, ipPolls, listPolls, tasks, gateway, purged, confirmed, spent>>

Domains == Hosts \cup {All}
Statuses == {"ALLOWED", "BLOCKED", "DIVERTED_TO_HONEYPOT"}
Nothing == "nothing"

TelePoll == [of : Domains, pollingActive : BOOLEAN, threat : BOOLEAN, honeypot : Nat]
IpPoll == [of : Domains, banned : SUBSET IPs]
ListPoll == [active : BOOLEAN, hosts : SUBSET Hosts, body : BOOLEAN]
Line == [at : Nat, host : Hosts, status : Statuses]   \* the at-th request logged
Task == [kind : {"purge", "onboard", "route", "ban", "unban", "reset"}, host : Domains,
         ip : IPs \cup {Nothing}, domain : Domains, served : BOOLEAN]

-----------------------------------------------------------------------------
(* The gateway, as the desk uses it (external). *)

\* Deleting a host drops its lines from the log and its counters with them;
\* the total of the global workspace keeps counting.
LogOf(d) == {line \in gateway.log : d \in {All, line.host}}

Diverted(d) ==
  IF d = All THEN gateway.trapped
  ELSE Cardinality({line \in LogOf(d) : line.status = "DIVERTED_TO_HONEYPOT"})

LatestIsThreat(d) ==
  \E line \in LogOf(d) : /\ line.status # "ALLOWED"
                          /\ \A other \in LogOf(d) : other.at <= line.at

\* The polls: one answer each, read when the request is sent.
Asked(timer, poll) == IF timer \in Timers THEN {poll} ELSE {}

AskTelemetry(d) ==
  Asked("telemetry", [of |-> d, pollingActive |-> TRUE,
                      threat |-> LatestIsThreat(d), honeypot |-> Diverted(d)])
AskIPs(d) == Asked("ips", [of |-> d, banned |-> gateway.banned])
AskDomains == Asked("domains", [active |-> TRUE, hosts |-> gateway.known, body |-> FALSE])

\* A visitor's request to a host is logged; a host nobody registered shows
\* up in the list from its first line on.
Traffic(h, status) ==
  /\ spent.traffic < MaxTraffic
  /\ gateway' = [gateway EXCEPT
       !.known = @ \cup {h},
       !.log = @ \cup {[at |-> spent.traffic, host |-> h, status |-> status]},
       !.trapped = IF status = "DIVERTED_TO_HONEYPOT" THEN @ + 1 ELSE @]
  /\ spent' = [spent EXCEPT !.traffic = @ + 1]
  /\ UNCHANGED <<desk, telePolls, ipPolls, listPolls, tasks, purged, confirmed>>

-----------------------------------------------------------------------------
(* The page. *)

\* Without its timer the switcher has its list from before.
BlankDesk ==
  [activeDomain |-> All, isLive |-> TRUE,
   shown |-> [of |-> All, threat |-> FALSE, honeypot |-> 0],
   lastHoneypotCount |-> 0, isEmergency |-> FALSE,
   entries |-> [of |-> Nothing, banned |-> {}], blacklist |-> {}, banTarget |-> Nothing,
   domains |-> IF "domains" \in Timers THEN {All} ELSE {All} \cup gateway.known]

Init ==
  /\ gateway \in [known : SUBSET Hosts, log : {{}}, trapped : {0}, banned : {{}}]
  /\ desk = BlankDesk
  /\ telePolls = {} /\ ipPolls = {} /\ listPolls = {} /\ tasks = {}
  /\ purged = {} /\ confirmed = {}
  /\ spent = [acts |-> 0, traffic |-> 0, losses |-> 0]

\* The alarm effect, run whenever the metrics, the log or the alarm change:
\* a threat on top of the log or a growing honeypot count raises it.
HasNewThreat(d) == d.shown.honeypot > d.lastHoneypotCount /\ d.lastHoneypotCount # 0

AlarmedByDelta(d) ==
  [d EXCEPT !.isEmergency = @ \/ HasNewThreat(d) \/ d.shown.threat,
            !.lastHoneypotCount = d.shown.honeypot - @]

Alarmed(d) ==
  [d EXCEPT !.isEmergency = @ \/ HasNewThreat(d) \/ d.shown.threat,
            !.lastHoneypotCount = d.shown.honeypot]

\* setActiveDomain(d): the telemetry and IP effects of the old workspace are
\* cleaned up and those of the new one ask at once.  Only the telemetry
\* effect disowns its requests in flight.
Disowned(polls) == {[p EXCEPT !.pollingActive = FALSE] : p \in polls}

MoveTo(d) ==
  /\ desk' = [desk EXCEPT !.activeDomain = d]
  /\ IF d = desk.activeDomain THEN UNCHANGED <<telePolls, ipPolls>>
     ELSE /\ telePolls' = Disowned(telePolls) \cup AskTelemetry(d)
          /\ ipPolls' = ipPolls \cup AskIPs(d)

\* setRefreshTrigger(prev + 1): the switcher's effect starts over.
RefreshList ==
  listPolls' = {[p EXCEPT !.active = FALSE] : p \in listPolls} \cup AskDomains

\* The three timers.
PollTelemetry ==
  /\ "telemetry" \in Timers
  /\ Cardinality(telePolls) < MaxPolls
  /\ telePolls' = telePolls \cup AskTelemetry(desk.activeDomain)
  /\ UNCHANGED <<desk, ipPolls, listPolls, tasks, gateway, purged, confirmed, spent>>

\* The workspace fetchData closes over: the effect restarts the timer when
\* it changes.
FetchDomainOnce == All
FetchDomain == desk.activeDomain

PollIPs ==
  /\ "ips" \in Timers
  /\ Cardinality(ipPolls) < MaxPolls
  /\ ipPolls' = ipPolls \cup AskIPs(FetchDomain)
  /\ UNCHANGED <<desk, telePolls, listPolls, tasks, gateway, purged, confirmed, spent>>

\* A request of the switcher is aborted after 3 s and its timer fires every
\* 10 s, so the effect has one in flight; a body being read is not aborted.
PollDomains ==
  /\ "domains" \in Timers
  /\ \A p \in listPolls : ~p.active \/ p.body
  /\ Cardinality(listPolls) < MaxPolls
  /\ listPolls' = listPolls \cup AskDomains
  /\ UNCHANGED <<desk, telePolls, ipPolls, tasks, gateway, purged, confirmed, spent>>

\* An answer of telemetry is shown if its effect still polls.
CurrentAnyway(p) == TRUE
Current(p) == p.pollingActive

TelemetryArrives(p) ==
  /\ p \in telePolls
  /\ telePolls' = telePolls \ {p}
  /\ desk' = IF Current(p)
             THEN Alarmed([desk EXCEPT !.isLive = TRUE,
                    !.shown = [of |-> p.of, threat |-> p.threat, honeypot |-> p.honeypot]])
             ELSE desk
  /\ UNCHANGED <<ipPolls, listPolls, tasks, gateway, purged, confirmed, spent>>

\* A broken answer covers the desk with "Gateway Offline".
TelemetryBreaks(p) ==
  /\ p \in telePolls /\ spent.losses < MaxLosses
  /\ telePolls' = telePolls \ {p}
  /\ desk' = [desk EXCEPT !.isLive = @ /\ ~p.pollingActive]
  /\ spent' = [spent EXCEPT !.losses = @ + 1]
  /\ UNCHANGED <<ipPolls, listPolls, tasks, gateway, purged, confirmed>>

\* The two answers of the IP console, shown whatever workspace they are of.
IPsArrive(p) ==
  /\ p \in ipPolls
  /\ ipPolls' = ipPolls \ {p}
  /\ desk' = [desk EXCEPT !.entries = p, !.blacklist = p.banned]
  /\ UNCHANGED <<telePolls, listPolls, tasks, gateway, purged, confirmed, spent>>

\* One of the two is an error and the other is shown, or both are lost.
IPsBreak(p) ==
  /\ p \in ipPolls /\ spent.losses < MaxLosses
  /\ ipPolls' = ipPolls \ {p}
  /\ desk' \in {desk, [desk EXCEPT !.entries = p], [desk EXCEPT !.blacklist = p.banned]}
  /\ spent' = [spent EXCEPT !.losses = @ + 1]
  /\ UNCHANGED <<telePolls, listPolls, tasks, gateway, purged, confirmed>>

\* "active" is tested when the headers are there, before the body is read.
DomainsArrive(p) ==
  /\ p \in listPolls /\ ~p.body
  /\ listPolls' = (listPolls \ {p}) \cup
                  (IF p.active THEN {[p EXCEPT !.body = TRUE]} ELSE {})
  /\ UNCHANGED <<desk, telePolls, ipPolls, tasks, gateway, purged, confirmed, spent>>

\* The new list replaces the old one; an empty one is not shown.
ListedToo(p) == desk.domains \cup p.hosts
Listed(p) == {All} \cup p.hosts

DomainsShown(p) ==
  /\ p \in listPolls /\ p.body
  /\ listPolls' = listPolls \ {p}
  /\ desk' = IF p.hosts = {} THEN desk ELSE [desk EXCEPT !.domains = Listed(p)]
  /\ UNCHANGED <<telePolls, ipPolls, tasks, gateway, purged, confirmed, spent>>

DomainsLost(p) ==
  /\ p \in listPolls /\ spent.losses < MaxLosses
  /\ listPolls' = listPolls \ {p}
  /\ spent' = [spent EXCEPT !.losses = @ + 1]
  /\ UNCHANGED <<desk, telePolls, ipPolls, tasks, gateway, purged, confirmed>>

-----------------------------------------------------------------------------
(* The operator, whom the offline overlay keeps from the desk. *)

Act ==
  /\ desk.isLive /\ spent.acts < MaxActs
  /\ spent' = [spent EXCEPT !.acts = @ + 1]

\* The switcher offers the list it shows.
ChooseDomain(d) ==
  /\ Act /\ d \in desk.domains /\ d # desk.activeDomain
  /\ MoveTo(d)
  /\ UNCHANGED <<listPolls, tasks, gateway, purged, confirmed>>

\* Acknowledging lowers the alarm, and the effect runs again.
AcknowledgeForGood ==
  /\ Act /\ desk.isEmergency
  /\ desk' = [desk EXCEPT !.isEmergency = FALSE]
  /\ UNCHANGED <<telePolls, ipPolls, listPolls, tasks, gateway, purged, confirmed>>

Acknowledge ==
  /\ Act /\ desk.isEmergency
  /\ desk' = Alarmed([desk EXCEPT !.isEmergency = FALSE])
  /\ UNCHANGED <<telePolls, ipPolls, listPolls, tasks, gateway, purged, confirmed>>

\* Every request first fetches a CSRF token.  It keeps the workspace it was
\* made in: the render its handler belongs to.
Request(kind, host, ip) ==
  /\ Act
  /\ tasks' = tasks \cup {[kind |-> kind, host |-> host, ip |-> ip,
                           domain |-> desk.activeDomain, served |-> FALSE]}
  /\ UNCHANGED <<desk, telePolls, ipPolls, listPolls, gateway, purged>>

\* handleDeleteDomain, after the operator confirmed the name in the dialog.
ConfirmPurge ==
  /\ desk.activeDomain # All
  /\ Request("purge", desk.activeDomain, Nothing)
  /\ confirmed' = confirmed \cup {desk.activeDomain}

SubmitOnboard(h) == Request("onboard", h, Nothing) /\ UNCHANGED confirmed

\* The dialog of a new route is never unmounted and lets one request go at a time;
\* the console's window can be closed and opened again while its request runs.
RouteForm == \A t \in tasks : t.kind # "route"
AddRoute(h) == RouteForm /\ Request("route", h, Nothing) /\ UNCHANGED confirmed

\* The live tab offers to ban an entry unless its is_banned is set, the
\* blacklist tab to unban its items.
BanOffered(ip) == desk.entries.of # Nothing /\ ip \notin desk.entries.banned
UnbanOffered(ip) == ip \in desk.blacklist

\* The dialog of a ban lies over both tabs and stays open while polls arrive,
\* and while its request is under way.
BanDialog(from, to) ==
  /\ desk.isLive /\ desk.banTarget = from
  /\ desk' = [desk EXCEPT !.banTarget = to]
  /\ UNCHANGED <<telePolls, ipPolls, listPolls, tasks, gateway, purged, confirmed, spent>>
OpenBan(ip) == BanOffered(ip) /\ BanDialog(Nothing, ip)
CancelBan(ip) == BanDialog(ip, Nothing)

HandleBanSubmit(ip) ==
  /\ desk.banTarget = ip
  /\ Request("ban", All, ip) /\ UNCHANGED confirmed
HandleUnban(ip) ==
  /\ desk.banTarget = Nothing /\ UnbanOffered(ip)
  /\ Request("unban", All, ip) /\ UNCHANGED confirmed
HandleReset == Request("reset", All, Nothing) /\ UNCHANGED confirmed

-----------------------------------------------------------------------------
(* A request at the gateway (external), and its answer at the desk. *)

\* The host the DELETE names: the one of the dialog.
PurgeTargetNow(t) == desk.activeDomain
PurgeTarget(t) == t.host

Served(t) ==
  CASE t.kind = "purge" /\ PurgeTarget(t) # All ->
         [gateway EXCEPT !.known = @ \ {PurgeTarget(t)},
            !.log = {line \in @ : line.host # PurgeTarget(t)}]
    [] t.kind \in {"onboard", "route"} -> [gateway EXCEPT !.known = @ \cup {t.host}]
    [] t.kind = "ban" -> [gateway EXCEPT !.banned = @ \cup {t.ip}]
    [] t.kind = "unban" -> [gateway EXCEPT !.banned = @ \ {t.ip}]
    [] t.kind = "reset" -> [gateway EXCEPT !.known = {}, !.log = {}, !.trapped = 0]
    [] OTHER -> gateway

Serve(t) ==
  /\ t \in tasks /\ ~t.served
  /\ gateway' = Served(t)
  /\ purged' = IF t.kind = "purge" THEN purged \cup ({PurgeTarget(t)} \ {All}) ELSE purged
  /\ tasks' = (tasks \ {t}) \cup {[t EXCEPT !.served = TRUE]}
  /\ UNCHANGED <<desk, telePolls, ipPolls, listPolls, confirmed, spent>>

\* A purge leads back to All and an onboarding to its host, whatever the
\* operator chose meanwhile; both, and a new route, start the list over.
PurgeAnswered(t) ==
  /\ t \in tasks /\ t.served /\ t.kind = "purge"
  /\ tasks' = tasks \ {t}
  /\ MoveTo(All) /\ RefreshList
  /\ UNCHANGED <<gateway, purged, confirmed, spent>>

OnboardAnswered(t) ==
  /\ t \in tasks /\ t.served /\ t.kind = "onboard"
  /\ tasks' = tasks \ {t}
  /\ MoveTo(t.host) /\ RefreshList
  /\ UNCHANGED <<gateway, purged, confirmed, spent>>

RouteAnswered(t) ==
  /\ t \in tasks /\ t.served /\ t.kind = "route"
  /\ tasks' = tasks \ {t}
  /\ RefreshList
  /\ UNCHANGED <<desk, telePolls, ipPolls, gateway, purged, confirmed, spent>>

\* onRefetch is the one of the render that asked: it fetches that workspace.
\* A ban closes the dialog, whichever address that is about by then.
BanAnswered(t) ==
  /\ t \in tasks /\ t.served /\ t.kind \in {"ban", "unban"}
  /\ tasks' = tasks \ {t}
  /\ ipPolls' = ipPolls \cup AskIPs(t.domain)
  /\ desk' = IF t.kind = "ban" THEN [desk EXCEPT !.banTarget = Nothing] ELSE desk
  /\ UNCHANGED <<telePolls, listPolls, gateway, purged, confirmed, spent>>

\* A refused or lost request, or a lost answer, changes nothing on the desk.
RequestLost(t) ==
  /\ t \in tasks /\ spent.losses < MaxLosses
  /\ tasks' = tasks \ {t}
  /\ spent' = [spent EXCEPT !.losses = @ + 1]
  /\ UNCHANGED <<desk, telePolls, ipPolls, listPolls, gateway, purged, confirmed>>

\* The page is loaded again; what it waited for is forgotten.
LoadPage ==
  /\ desk' = BlankDesk
  /\ telePolls' = {} /\ ipPolls' = {} /\ listPolls' = {} /\ tasks' = {}
  /\ UNCHANGED <<gateway, purged, confirmed, spent>>

ResetAnswered(t) ==
  /\ t \in tasks /\ t.served /\ t.kind = "reset"
  /\ LoadPage

\* "Hubungkan ulang" on the offline overlay.
Reload == ~desk.isLive /\ LoadPage

-----------------------------------------------------------------------------
Arrivals ==
  \/ \E p \in telePolls : TelemetryArrives(p) \/ TelemetryBreaks(p)
  \/ \E p \in ipPolls : IPsArrive(p) \/ IPsBreak(p)
  \/ \E p \in listPolls : DomainsArrive(p) \/ DomainsShown(p) \/ DomainsLost(p)
  \/ \E t \in tasks : PurgeAnswered(t) \/ OnboardAnswered(t) \/ RouteAnswered(t)
                      \/ BanAnswered(t) \/ ResetAnswered(t) \/ RequestLost(t)

Operator ==
  \/ \E d \in Domains : ChooseDomain(d)
  \/ Acknowledge \/ ConfirmPurge \/ Reload \/ HandleReset
  \/ \E h \in Hosts : SubmitOnboard(h) \/ AddRoute(h)
  \/ \E ip \in IPs : OpenBan(ip) \/ CancelBan(ip) \/ HandleBanSubmit(ip) \/ HandleUnban(ip)

Next ==
  \/ PollTelemetry \/ PollIPs \/ PollDomains
  \/ Arrivals \/ Operator
  \/ \E t \in tasks : Serve(t)
  \/ \E h \in Hosts, status \in Statuses : Traffic(h, status)

Spec == Init /\ [][Next]_vars

\* The timers fire for ever and an answered request arrives.
FairSpec ==
  /\ Spec
  /\ WF_vars(PollIPs) /\ WF_vars(PollDomains)
  /\ \A d \in Domains, b \in SUBSET IPs :
       WF_vars(IPsArrive([of |-> d, banned |-> b]))
  /\ \A a \in BOOLEAN, hs \in SUBSET Hosts :
       /\ WF_vars(DomainsArrive([active |-> a, hosts |-> hs, body |-> FALSE]))
       /\ WF_vars(DomainsShown([active |-> a, hosts |-> hs, body |-> TRUE]))

-----------------------------------------------------------------------------
(* Properties. *)

\* Types.
TypeOK ==
  /\ desk \in [activeDomain : Domains, isLive : BOOLEAN,
               shown : [of : Domains, threat : BOOLEAN, honeypot : Nat],
               lastHoneypotCount : Nat, isEmergency : BOOLEAN,
               entries : [of : Domains \cup {Nothing}, banned : SUBSET IPs],
               blacklist : SUBSET IPs, banTarget : IPs \cup {Nothing},
               domains : SUBSET Domains]
  /\ telePolls \subseteq TelePoll /\ ipPolls \subseteq IpPoll
  /\ listPolls \subseteq ListPoll /\ tasks \subseteq Task
  /\ gateway \in [known : SUBSET Hosts, log : SUBSET Line, trapped : Nat,
                  banned : SUBSET IPs]
  /\ purged \subseteq Hosts /\ confirmed \subseteq Hosts
  /\ spent \in [acts : Nat, traffic : Nat, losses : Nat]

\* The metrics and the log the operator sees never change to those of a
\* workspace other than the chosen one, however late an answer comes
\* (useTelemetry's pollingActive).
TelemetryOfDesk ==
  [][desk'.shown # desk.shown => desk'.shown.of = desk'.activeDomain]_vars

\* While the newest line of the shown log is a threat the alarm is up: it can
\* be acknowledged, and comes back (the alarm effect of NCCDashboard).
ThreatIsAlarmed == desk.shown.threat => desk.isEmergency

\* The gateway is told to purge only hosts whose name the operator confirmed,
\* also when the workspace changes before the request leaves
\* (handleDeleteDomain).
PurgedWasConfirmed == purged \subseteq confirmed

\* Once the operator stays in a workspace and the bans rest, the IP console
\* ends up showing that workspace and those bans for good, although answers
\* of workspaces left behind are shown when they come (useIPMonitoring, and
\* the onRefetch of an old render).
EntriesFollow ==
  <>[][desk'.activeDomain = desk.activeDomain /\ gateway'.banned = gateway.banned]_vars
    => <>[](desk.entries.of = desk.activeDomain /\ desk.blacklist = gateway.banned)

\* Once the gateway's hosts rest, and there is one, the switcher ends up
\* offering exactly those (DomainSwitcher's timer).
SwitcherFollows ==
  <>[][gateway'.known = gateway.known]_vars
    => <>[](gateway.known # {} => desk.domains = {All} \cup gateway.known)

=============================================================================
