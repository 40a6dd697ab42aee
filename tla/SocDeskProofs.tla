--------------------------- MODULE SocDeskProofs ---------------------------
(***************************************************************************)
(* Proofs about SocDesk, for any hosts, timers and bounds: its types; what *)
(* the desk shows is of the chosen workspace, a shown threat raises the    *)
(* alarm, and only confirmed hosts are purged.                             *)
(*                                                                         *)
(* The invariant behind them: a telemetry request whose effect still polls *)
(* asks for the chosen workspace (a change of workspace disowns the        *)
(* others), and a purge on its way names a host that was confirmed.        *)
(***************************************************************************)
EXTENDS SocDesk, FiniteSetTheorems, TLAPS

\* The records keep their fields.
DeskShape ==
  /\ desk = [activeDomain |-> desk.activeDomain, isLive |-> desk.isLive,
             shown |-> desk.shown, lastHoneypotCount |-> desk.lastHoneypotCount,
             isEmergency |-> desk.isEmergency, entries |-> desk.entries,
             blacklist |-> desk.blacklist, banTarget |-> desk.banTarget,
             domains |-> desk.domains]
  /\ desk.isEmergency \in BOOLEAN

PollShape(p) ==
  /\ p = [of |-> p.of, pollingActive |-> p.pollingActive,
          threat |-> p.threat, honeypot |-> p.honeypot]
  /\ p.pollingActive \in BOOLEAN /\ p.threat \in BOOLEAN

PollsOfDesk ==
  \A p \in telePolls : PollShape(p) /\ (p.pollingActive => p.of = desk.activeDomain)

TaskShape(t) ==
  t = [kind |-> t.kind, host |-> t.host, ip |-> t.ip, domain |-> t.domain,
       served |-> t.served]

PurgesConfirmed ==
  /\ \A t \in tasks : TaskShape(t) /\ (t.kind = "purge" => t.host \in confirmed)
  /\ purged \subseteq confirmed

ShownFine == desk.shown.threat \in BOOLEAN /\ ThreatIsAlarmed

-----------------------------------------------------------------------------
(* What the desk shows                                                     *)

\* A new poll is of the workspace it asks for.
LEMMA AskedFine ==
  ASSUME NEW d, NEW p \in AskTelemetry(d)
  PROVE  PollShape(p) /\ p.of = d
<1> DEFINE q == [of |-> d, pollingActive |-> TRUE,
                 threat |-> LatestIsThreat(d), honeypot |-> Diverted(d)]
<1>1. p = q
  BY DEF AskTelemetry, Asked
<1>2. LatestIsThreat(d) \in BOOLEAN
  BY DEF LatestIsThreat
<1> QED
  BY <1>1, <1>2 DEF PollShape

\* The alarm effect raises the alarm over a shown threat.
LEMMA AlarmFine ==
  ASSUME NEW d,
         d = [activeDomain |-> d.activeDomain, isLive |-> d.isLive,
              shown |-> d.shown, lastHoneypotCount |-> d.lastHoneypotCount,
              isEmergency |-> d.isEmergency, entries |-> d.entries,
              blacklist |-> d.blacklist, banTarget |-> d.banTarget,
              domains |-> d.domains],
         d.shown.threat \in BOOLEAN,
         desk' = Alarmed(d)
  PROVE  /\ DeskShape' /\ ShownFine'
         /\ desk'.activeDomain = d.activeDomain /\ desk'.shown = d.shown
<1> DEFINE e == d.isEmergency \/ HasNewThreat(d) \/ d.shown.threat
<1>1. desk' = [activeDomain |-> d.activeDomain, isLive |-> d.isLive,
               shown |-> d.shown, lastHoneypotCount |-> d.shown.honeypot,
               isEmergency |-> e, entries |-> d.entries,
               blacklist |-> d.blacklist, banTarget |-> d.banTarget,
               domains |-> d.domains]
  BY Zenon DEF Alarmed
<1>2. e \in BOOLEAN /\ (d.shown.threat => e)
  OBVIOUS
<1> HIDE DEF e
<1> QED
  BY <1>1, <1>2 DEF DeskShape, ShownFine, ThreatIsAlarmed

\* What a step owes the telemetry: the invariant, and no foreign display.
DeskInv == DeskShape /\ ShownFine /\ PollsOfDesk
ShownOfDesk == desk'.shown # desk.shown => desk'.shown.of = desk'.activeDomain

\* Steps that leave the chosen workspace, the display and the alarm alone.
LEMMA QuietDesk ==
  ASSUME DeskInv, DeskShape', desk'.activeDomain = desk.activeDomain,
         desk'.shown = desk.shown, desk'.isEmergency = desk.isEmergency,
         telePolls' \subseteq telePolls \cup AskTelemetry(desk.activeDomain)
  PROVE  DeskInv' /\ ShownOfDesk
<1>1. ASSUME NEW p \in telePolls'
      PROVE  PollShape(p) /\ (p.pollingActive => p.of = desk'.activeDomain)
  <2>1. CASE p \in telePolls
    BY <2>1 DEF DeskInv, PollsOfDesk
  <2>2. CASE p \in AskTelemetry(desk.activeDomain)
    BY <2>2, AskedFine
  <2> QED
    BY <2>1, <2>2
<1>2. PollsOfDesk'
  BY <1>1 DEF PollsOfDesk, PollShape
<1> QED
  BY <1>2 DEF DeskInv, ShownFine, ThreatIsAlarmed, ShownOfDesk

\* setActiveDomain: the polls of the old workspace are disowned.
LEMMA MoveFine ==
  ASSUME DeskInv, NEW d, MoveTo(d)
  PROVE  DeskInv' /\ ShownOfDesk
<1>1. desk' = [activeDomain |-> d, isLive |-> desk.isLive,
               shown |-> desk.shown, lastHoneypotCount |-> desk.lastHoneypotCount,
               isEmergency |-> desk.isEmergency, entries |-> desk.entries,
               blacklist |-> desk.blacklist, banTarget |-> desk.banTarget,
               domains |-> desk.domains]
  BY Zenon DEF DeskInv, DeskShape, MoveTo
<1>2. DeskShape' /\ desk'.shown = desk.shown /\ desk'.isEmergency = desk.isEmergency
      /\ desk'.activeDomain = d
  BY <1>1 DEF DeskInv, DeskShape
<1>3. CASE d = desk.activeDomain
  <2>1. telePolls' = telePolls
    BY <1>3 DEF MoveTo
  <2> QED
    BY <2>1, <1>2, <1>3, QuietDesk
<1>4. CASE d # desk.activeDomain
  <2>1. telePolls' = Disowned(telePolls) \cup AskTelemetry(d)
    BY <1>4 DEF MoveTo
  <2>2. ASSUME NEW p \in Disowned(telePolls)
        PROVE  PollShape(p) /\ ~ p.pollingActive
    <3>1. PICK q \in telePolls : p = [q EXCEPT !.pollingActive = FALSE]
      BY DEF Disowned
    <3>2. PollShape(q)
      BY DEF DeskInv, PollsOfDesk
    <3>3. p = [of |-> q.of, pollingActive |-> FALSE, threat |-> q.threat,
               honeypot |-> q.honeypot]
      BY <3>1, <3>2 DEF PollShape
    <3> QED
      BY <3>2, <3>3 DEF PollShape
  <2>3. ASSUME NEW p \in telePolls'
        PROVE  PollShape(p) /\ (p.pollingActive => p.of = desk'.activeDomain)
    BY <2>1, <2>2, <1>2, AskedFine
  <2>4. PollsOfDesk'
    BY <2>3 DEF PollsOfDesk, PollShape
  <2> QED
    BY <2>4, <1>2 DEF DeskInv, ShownFine, ThreatIsAlarmed, ShownOfDesk
<1> QED
  BY <1>3, <1>4

\* The page is loaded again.
LEMMA LoadFine == ASSUME LoadPage PROVE DeskInv' /\ ShownOfDesk
<1>1. desk' = BlankDesk /\ telePolls' = {}
  BY DEF LoadPage
<1> DEFINE doms == IF "domains" \in Timers THEN {All} ELSE {All} \cup gateway.known
<1>2. desk' = [activeDomain |-> All, isLive |-> TRUE,
               shown |-> [of |-> All, threat |-> FALSE, honeypot |-> 0],
               lastHoneypotCount |-> 0, isEmergency |-> FALSE,
               entries |-> [of |-> Nothing, banned |-> {}], blacklist |-> {},
               banTarget |-> Nothing, domains |-> doms]
  BY <1>1 DEF BlankDesk
<1> HIDE DEF doms
<1>3. DeskShape' /\ desk'.activeDomain = All /\ desk'.shown.of = All
      /\ desk'.shown.threat = FALSE
  BY <1>2 DEF DeskShape
<1> QED
  BY <1>1, <1>3 DEF DeskInv, ShownFine, ThreatIsAlarmed, PollsOfDesk, ShownOfDesk

\* An answer of telemetry.
LEMMA TelemetryFine ==
  ASSUME DeskInv, NEW p \in telePolls, TelemetryArrives(p)
  PROVE  DeskInv' /\ ShownOfDesk
<1>1. telePolls' \subseteq telePolls
  BY DEF TelemetryArrives
<1>2. CASE Current(p)
  <2>1. PICK d : d = [desk EXCEPT !.isLive = TRUE,
               !.shown = [of |-> p.of, threat |-> p.threat, honeypot |-> p.honeypot]]
    OBVIOUS
  <2>2. desk' = Alarmed(d)
    BY <1>2, <2>1, Zenon DEF TelemetryArrives
  <2>3. PollShape(p) /\ p.of = desk.activeDomain
    BY <1>2 DEF DeskInv, PollsOfDesk, Current
  <2>4. d = [activeDomain |-> desk.activeDomain, isLive |-> TRUE,
             shown |-> [of |-> p.of, threat |-> p.threat, honeypot |-> p.honeypot],
             lastHoneypotCount |-> desk.lastHoneypotCount,
             isEmergency |-> desk.isEmergency, entries |-> desk.entries,
             blacklist |-> desk.blacklist, banTarget |-> desk.banTarget,
             domains |-> desk.domains]
    BY <2>1, Zenon DEF DeskInv, DeskShape
  <2>5. /\ d = [activeDomain |-> d.activeDomain, isLive |-> d.isLive,
                 shown |-> d.shown, lastHoneypotCount |-> d.lastHoneypotCount,
                 isEmergency |-> d.isEmergency, entries |-> d.entries,
                 blacklist |-> d.blacklist, banTarget |-> d.banTarget,
                 domains |-> d.domains]
        /\ d.shown.threat = p.threat /\ d.shown.of = p.of
        /\ d.activeDomain = desk.activeDomain
    BY <2>4
  <2>6. DeskShape' /\ ShownFine' /\ desk'.activeDomain = d.activeDomain
        /\ desk'.shown = d.shown
    BY <2>2, <2>3, <2>5, AlarmFine DEF PollShape
  <2>7. PollsOfDesk'
    BY <1>1, <2>5, <2>6 DEF DeskInv, PollsOfDesk, PollShape
  <2> QED
    BY <2>3, <2>5, <2>6, <2>7 DEF DeskInv, ShownOfDesk
<1>3. CASE ~ Current(p)
  BY <1>1, <1>3, QuietDesk DEF TelemetryArrives, DeskInv, DeskShape
<1> QED
  BY <1>2, <1>3

\* Every step, by the action.
LEMMA DeskStep == DeskInv /\ [Next]_vars => DeskInv' /\ ShownOfDesk
<1> SUFFICES ASSUME DeskInv, [Next]_vars PROVE DeskInv' /\ ShownOfDesk
  OBVIOUS
<1> USE DEF DeskInv
<1>1. CASE UNCHANGED <<desk, telePolls>>
  BY <1>1, QuietDesk DEF DeskShape
<1>2. CASE PollTelemetry
  BY <1>2, QuietDesk DEF PollTelemetry, DeskShape
<1>3. CASE PollIPs \/ PollDomains
  BY <1>1, <1>3 DEF PollIPs, PollDomains
<1>4. CASE \E p \in telePolls : TelemetryArrives(p)
  BY <1>4, TelemetryFine
<1>5. ASSUME NEW p \in telePolls, TelemetryBreaks(p) PROVE DeskInv' /\ ShownOfDesk
  <2>1. desk' = [desk EXCEPT !.isLive = desk.isLive /\ ~p.pollingActive] /\ telePolls' \subseteq telePolls
    BY <1>5 DEF TelemetryBreaks
  <2> QED
    BY <2>1, QuietDesk DEF DeskShape
<1>6. ASSUME NEW p \in ipPolls, IPsArrive(p) \/ IPsBreak(p) PROVE DeskInv' /\ ShownOfDesk
  <2>1. \/ desk' = desk \/ desk' = [desk EXCEPT !.entries = p]
        \/ desk' = [desk EXCEPT !.blacklist = p.banned]
        \/ desk' = [desk EXCEPT !.entries = p, !.blacklist = p.banned]
    BY <1>6 DEF IPsArrive, IPsBreak
  <2>2. telePolls' = telePolls
    BY <1>6 DEF IPsArrive, IPsBreak
  <2> QED
    BY <2>1, <2>2, QuietDesk DEF DeskShape
<1>7. ASSUME NEW p \in listPolls, DomainsArrive(p) \/ DomainsLost(p) \/ DomainsShown(p)
      PROVE  DeskInv' /\ ShownOfDesk
  <2>1. desk' = desk \/ desk' = [desk EXCEPT !.domains = Listed(p)]
    BY <1>7 DEF DomainsArrive, DomainsLost, DomainsShown
  <2>2. telePolls' = telePolls
    BY <1>7 DEF DomainsArrive, DomainsLost, DomainsShown
  <2> QED
    BY <2>1, <2>2, QuietDesk DEF DeskShape
<1>8. ASSUME NEW t \in tasks, PurgeAnswered(t) \/ OnboardAnswered(t)
      PROVE  DeskInv' /\ ShownOfDesk
  <2>1. MoveTo(All) \/ MoveTo(t.host)
    BY <1>8 DEF PurgeAnswered, OnboardAnswered
  <2> QED
    BY <2>1, MoveFine
<1>9. ASSUME NEW t \in tasks, RouteAnswered(t) \/ RequestLost(t) \/ Serve(t)
      PROVE  DeskInv' /\ ShownOfDesk
  BY <1>1, <1>9 DEF RouteAnswered, RequestLost, Serve
<1>10. ASSUME NEW t \in tasks, BanAnswered(t) PROVE DeskInv' /\ ShownOfDesk
  <2>1. desk' = desk \/ desk' = [desk EXCEPT !.banTarget = Nothing]
    BY <1>10 DEF BanAnswered
  <2>2. telePolls' = telePolls
    BY <1>10 DEF BanAnswered
  <2> QED
    BY <2>1, <2>2, QuietDesk DEF DeskShape
<1>11. CASE Reload \/ \E t \in tasks : ResetAnswered(t)
  BY <1>11, LoadFine DEF Reload, ResetAnswered
<1>12. CASE \E d \in Domains : ChooseDomain(d)
  BY <1>12, MoveFine DEF ChooseDomain
<1>13. CASE Acknowledge
  <2>1. PICK d : d = [desk EXCEPT !.isEmergency = FALSE]
    OBVIOUS
  <2>2. desk' = Alarmed(d) /\ telePolls' = telePolls
    BY <1>13, <2>1, Zenon DEF Acknowledge
  <2>3. d = [activeDomain |-> desk.activeDomain, isLive |-> desk.isLive,
             shown |-> desk.shown, lastHoneypotCount |-> desk.lastHoneypotCount,
             isEmergency |-> FALSE, entries |-> desk.entries,
             blacklist |-> desk.blacklist, banTarget |-> desk.banTarget,
             domains |-> desk.domains]
    BY <2>1, Zenon DEF DeskShape
  <2>4. d = [activeDomain |-> d.activeDomain, isLive |-> d.isLive,
             shown |-> d.shown, lastHoneypotCount |-> d.lastHoneypotCount,
             isEmergency |-> d.isEmergency, entries |-> d.entries,
             blacklist |-> d.blacklist, banTarget |-> d.banTarget,
             domains |-> d.domains]
        /\ d.shown = desk.shown /\ d.activeDomain = desk.activeDomain
    BY <2>3
  <2>5. DeskShape' /\ ShownFine' /\ desk'.activeDomain = desk.activeDomain
        /\ desk'.shown = desk.shown
    BY <2>2, <2>4, AlarmFine DEF ShownFine
  <2> QED
    BY <2>2, <2>5 DEF PollsOfDesk, PollShape, ShownOfDesk
<1>14. CASE ConfirmPurge \/ HandleReset \/ \E h \in Hosts : SubmitOnboard(h) \/ AddRoute(h)
  BY <1>1, <1>14 DEF ConfirmPurge, HandleReset, SubmitOnboard, AddRoute, Request
<1>15. ASSUME NEW ip \in IPs, OpenBan(ip) \/ CancelBan(ip) PROVE DeskInv' /\ ShownOfDesk
  <2>1. (\E b : desk' = [desk EXCEPT !.banTarget = b]) /\ telePolls' = telePolls
    BY <1>15 DEF OpenBan, CancelBan, BanDialog
  <2> QED
    BY <2>1, QuietDesk DEF DeskShape
<1>16. ASSUME NEW ip \in IPs, HandleBanSubmit(ip) \/ HandleUnban(ip)
       PROVE  DeskInv' /\ ShownOfDesk
  BY <1>1, <1>16 DEF HandleBanSubmit, HandleUnban, Request
<1>17. CASE \E h \in Hosts, status \in Statuses : Traffic(h, status)
  BY <1>1, <1>17 DEF Traffic
<1> QED
  BY <1>1, <1>2, <1>3, <1>4, <1>5, <1>6, <1>7, <1>8, <1>9, <1>10, <1>11, <1>12, <1>13,
     <1>14, <1>15, <1>16, <1>17 DEF Next, Arrivals, Operator, vars

-----------------------------------------------------------------------------
(* What the gateway is told to purge                                       *)

\* A new request; only a purge says whom it deletes, and that host is confirmed.
LEMMA RequestFine ==
  ASSUME PurgesConfirmed, NEW kind, NEW host, NEW ip, Request(kind, host, ip),
         confirmed \subseteq confirmed', kind = "purge" => host \in confirmed'
  PROVE  PurgesConfirmed'
<1>1. purged' = purged
  BY DEF Request
<1>2. ASSUME NEW t \in tasks' PROVE TaskShape(t) /\ (t.kind = "purge" => t.host \in confirmed')
  <2>1. CASE t \in tasks
    BY <2>1 DEF PurgesConfirmed
  <2>2. CASE t = [kind |-> kind, host |-> host, ip |-> ip,
                  domain |-> desk.activeDomain, served |-> FALSE]
    BY <2>2 DEF TaskShape
  <2> QED
    BY <2>1, <2>2 DEF Request
<1> QED
  BY <1>1, <1>2 DEF PurgesConfirmed, TaskShape

\* The gateway serves a request.
LEMMA ServeFine == ASSUME PurgesConfirmed, NEW t \in tasks, Serve(t) PROVE PurgesConfirmed'
<1>1. TaskShape(t) /\ (t.kind = "purge" => t.host \in confirmed)
  BY DEF PurgesConfirmed
<1>2. PICK u : u = [t EXCEPT !.served = TRUE]
  OBVIOUS
<1>3. u = [kind |-> t.kind, host |-> t.host, ip |-> t.ip, domain |-> t.domain,
           served |-> TRUE]
  BY <1>1, <1>2 DEF TaskShape
<1>4. TaskShape(u) /\ u.kind = t.kind /\ u.host = t.host
  BY <1>3 DEF TaskShape
<1>5. tasks' = (tasks \ {t}) \cup {u} /\ confirmed' = confirmed
  BY <1>2 DEF Serve
<1>6. purged' \subseteq confirmed
  BY <1>1 DEF Serve, PurgeTarget, PurgesConfirmed
<1> QED
  BY <1>1, <1>4, <1>5, <1>6 DEF PurgesConfirmed, TaskShape

\* Requests that end, or are none of the operator's.
LEMMA FewerTasks ==
  ASSUME PurgesConfirmed, tasks' \subseteq tasks, purged' = purged, confirmed' = confirmed
  PROVE  PurgesConfirmed'
BY DEF PurgesConfirmed, TaskShape

\* Every step, by the action.
LEMMA PurgeStep == PurgesConfirmed /\ [Next]_vars => PurgesConfirmed'
<1> SUFFICES ASSUME PurgesConfirmed, [Next]_vars PROVE PurgesConfirmed'
  OBVIOUS
<1>1. CASE UNCHANGED vars
  BY <1>1, FewerTasks DEF vars
<1>2. CASE PollTelemetry \/ PollIPs \/ PollDomains
  BY <1>2, FewerTasks DEF PollTelemetry, PollIPs, PollDomains
<1>3. CASE \E p \in telePolls : TelemetryArrives(p) \/ TelemetryBreaks(p)
  BY <1>3, FewerTasks DEF TelemetryArrives, TelemetryBreaks
<1>4. CASE \E p \in ipPolls : IPsArrive(p) \/ IPsBreak(p)
  BY <1>4, FewerTasks DEF IPsArrive, IPsBreak
<1>5. CASE \E p \in listPolls : DomainsArrive(p) \/ DomainsShown(p) \/ DomainsLost(p)
  BY <1>5, FewerTasks DEF DomainsArrive, DomainsShown, DomainsLost
<1>6. ASSUME NEW t \in tasks, PurgeAnswered(t) \/ OnboardAnswered(t) \/ RouteAnswered(t)
      PROVE  PurgesConfirmed'
  BY <1>6, FewerTasks DEF PurgeAnswered, OnboardAnswered, RouteAnswered
<1>7. ASSUME NEW t \in tasks, BanAnswered(t) \/ RequestLost(t) PROVE PurgesConfirmed'
  BY <1>7, FewerTasks DEF BanAnswered, RequestLost
<1>8. CASE Reload \/ \E t \in tasks : ResetAnswered(t)
  BY <1>8, FewerTasks DEF Reload, ResetAnswered, LoadPage
<1>9. CASE \E d \in Domains : ChooseDomain(d)
  BY <1>9, FewerTasks DEF ChooseDomain
<1>10. CASE Acknowledge
  BY <1>10, FewerTasks DEF Acknowledge
<1>11. CASE ConfirmPurge
  <2>1. Request("purge", desk.activeDomain, Nothing)
        /\ confirmed' = confirmed \cup {desk.activeDomain}
    BY <1>11 DEF ConfirmPurge
  <2> QED
    BY <2>1, RequestFine
<1>12. CASE HandleReset
  BY <1>12, RequestFine DEF HandleReset
<1>13. CASE \E h \in Hosts : SubmitOnboard(h) \/ AddRoute(h)
  BY <1>13, RequestFine DEF SubmitOnboard, AddRoute
<1>14. CASE \E ip \in IPs : HandleBanSubmit(ip) \/ HandleUnban(ip)
  BY <1>14, RequestFine DEF HandleBanSubmit, HandleUnban
<1>15. CASE \E ip \in IPs : OpenBan(ip) \/ CancelBan(ip)
  BY <1>15, FewerTasks DEF OpenBan, CancelBan, BanDialog
<1>16. CASE \E t \in tasks : Serve(t)
  BY <1>16, ServeFine
<1>17. CASE \E h \in Hosts, status \in Statuses : Traffic(h, status)
  BY <1>17, FewerTasks DEF Traffic
<1> QED
  BY <1>1, <1>2, <1>3, <1>4, <1>5, <1>6, <1>7, <1>8, <1>9, <1>10, <1>11, <1>12, <1>13,
     <1>14, <1>15, <1>16, <1>17 DEF Next, Arrivals, Operator

-----------------------------------------------------------------------------
(* The theorems                                                            *)

LEMMA InitFine == Init => DeskInv /\ PurgesConfirmed
<1> SUFFICES ASSUME Init PROVE DeskInv /\ PurgesConfirmed
  OBVIOUS
<1>1. desk = BlankDesk /\ telePolls = {} /\ tasks = {} /\ purged = {}
  BY DEF Init
<1> DEFINE doms == IF "domains" \in Timers THEN {All} ELSE {All} \cup gateway.known
<1>2. desk = [activeDomain |-> All, isLive |-> TRUE,
              shown |-> [of |-> All, threat |-> FALSE, honeypot |-> 0],
              lastHoneypotCount |-> 0, isEmergency |-> FALSE,
              entries |-> [of |-> Nothing, banned |-> {}], blacklist |-> {},
              banTarget |-> Nothing, domains |-> doms]
  BY <1>1 DEF BlankDesk
<1> HIDE DEF doms
<1>3. DeskShape /\ desk.shown.threat = FALSE
  BY <1>2 DEF DeskShape
<1> QED
  BY <1>1, <1>3 DEF DeskInv, ShownFine, ThreatIsAlarmed, PollsOfDesk, PurgesConfirmed

\* The invariant of the desk holds in every run (useTelemetry's effect with its
\* pollingActive, and the alarm effect of NCCDashboard).
THEOREM DeskStays == Spec => [](DeskInv /\ PurgesConfirmed)
<1>1. Init => DeskInv /\ PurgesConfirmed
  BY InitFine
<1>2. (DeskInv /\ PurgesConfirmed) /\ [Next]_vars => (DeskInv /\ PurgesConfirmed)'
  BY DeskStep, PurgeStep
<1> QED
  BY <1>1, <1>2, PTL DEF Spec

\* In every instance a threat on top of the shown log keeps the alarm up,
\* whatever is acknowledged, purged or chosen meanwhile.
THEOREM ThreatsAreAlarmed == Spec => []ThreatIsAlarmed
<1>1. DeskInv => ThreatIsAlarmed
  BY DEF DeskInv, ShownFine
<1> QED
  BY <1>1, DeskStays, PTL

\* In every instance the gateway is told to purge only hosts the operator
\* confirmed, however late the request leaves (handleDeleteDomain).
THEOREM PurgesAreConfirmed == Spec => []PurgedWasConfirmed
<1>1. PurgesConfirmed => PurgedWasConfirmed
  BY DEF PurgesConfirmed, PurgedWasConfirmed
<1> QED
  BY <1>1, DeskStays, PTL

\* In every instance no answer that comes late puts another workspace's metrics,
\* log or alarm on the desk (useTelemetry's pollingActive).
THEOREM TelemetryIsOfTheDesk == Spec => TelemetryOfDesk
<1>1. DeskInv /\ [Next]_vars => [desk'.shown # desk.shown => desk'.shown.of = desk'.activeDomain]_vars
  BY DeskStep DEF ShownOfDesk
<1> QED
  BY <1>1, DeskStays, PTL DEF Spec, TelemetryOfDesk

-----------------------------------------------------------------------------
(* Types                                                                   *)

\* A ban names an address, an onboarding and a route name a host.
TaskNamed(t) ==
  /\ t.kind \in {"ban", "unban"} => t.ip \in IPs
  /\ t.kind \in {"onboard", "route"} => t.host \in Hosts

\* The log stays finite, so its honeypot lines can be counted.
DeskTyped == TypeOK /\ IsFiniteSet(gateway.log) /\ \A t \in tasks : TaskNamed(t)

Desk == [activeDomain : Domains, isLive : BOOLEAN,
         shown : [of : Domains, threat : BOOLEAN, honeypot : Nat],
         lastHoneypotCount : Nat, isEmergency : BOOLEAN,
         entries : [of : Domains \cup {Nothing}, banned : SUBSET IPs],
         blacklist : SUBSET IPs, banTarget : IPs \cup {Nothing},
         domains : SUBSET Domains]

Gateway == [known : SUBSET Hosts, log : SUBSET Line, trapped : Nat, banned : SUBSET IPs]

LEMMA Parts ==
  ASSUME TypeOK
  PROVE  /\ desk \in Desk /\ gateway \in Gateway
         /\ telePolls \subseteq TelePoll /\ ipPolls \subseteq IpPoll
         /\ listPolls \subseteq ListPoll /\ tasks \subseteq Task
         /\ purged \subseteq Hosts /\ confirmed \subseteq Hosts
         /\ spent \in [acts : Nat, traffic : Nat, losses : Nat]
         /\ All \in Domains /\ Hosts \subseteq Domains
         /\ desk.activeDomain \in Domains /\ desk.domains \subseteq Domains
         /\ desk.activeDomain # All => desk.activeDomain \in Hosts
  BY DEF TypeOK, Desk, Gateway, Domains

\* A poll carries typed answers; what it counts is finite.
LEMMA AskTyped ==
  ASSUME DeskTyped, NEW d \in Domains
  PROVE  AskTelemetry(d) \subseteq TelePoll /\ AskIPs(d) \subseteq IpPoll
<1>1. gateway \in Gateway /\ IsFiniteSet(gateway.log)
  BY Parts DEF DeskTyped
<1>2. Diverted(d) \in Nat
  <2> DEFINE lines == {line \in LogOf(d) : line.status = "DIVERTED_TO_HONEYPOT"}
  <2>1. lines \subseteq gateway.log
    BY DEF LogOf
  <2>2. Cardinality(lines) \in Nat
    BY <1>1, <2>1, FS_Subset, FS_CardinalityType
  <2> QED
    BY <1>1, <2>2 DEF Diverted, Gateway
<1>3. LatestIsThreat(d) \in BOOLEAN
  BY DEF LatestIsThreat
<1>4. ASSUME NEW p \in AskTelemetry(d) PROVE p \in TelePoll
  <2>1. p = [of |-> d, pollingActive |-> TRUE,
             threat |-> LatestIsThreat(d), honeypot |-> Diverted(d)]
    BY <1>4 DEF AskTelemetry, Asked
  <2> QED
    BY <1>2, <1>3, <2>1 DEF TelePoll
<1>5. ASSUME NEW p \in AskIPs(d) PROVE p \in IpPoll
  <2>1. p = [of |-> d, banned |-> gateway.banned]
    BY <1>5 DEF AskIPs, Asked
  <2> QED
    BY <1>1, <2>1 DEF IpPoll, Gateway
<1> QED
  BY <1>4, <1>5

LEMMA AskListTyped == TypeOK => AskDomains \subseteq ListPoll
<1> SUFFICES ASSUME TypeOK, NEW p \in AskDomains PROVE p \in ListPoll
  OBVIOUS
<1>1. p = [active |-> TRUE, hosts |-> gateway.known, body |-> FALSE]
  BY DEF AskDomains, Asked
<1> QED
  BY <1>1, Parts DEF ListPoll, Gateway

\* The alarm effect, and a page just loaded.
LEMMA AlarmedTyped == ASSUME NEW d \in Desk PROVE Alarmed(d) \in Desk
<1>1. d.isEmergency \/ HasNewThreat(d) \/ d.shown.threat \in BOOLEAN
  BY DEF Desk
<1>2. d.shown.honeypot \in Nat
  BY DEF Desk
<1> QED
  BY <1>1, <1>2 DEF Alarmed, Desk

LEMMA BlankTyped == TypeOK => BlankDesk \in Desk
  BY Parts DEF BlankDesk, Desk, Gateway

\* Steps that leave the gateway alone: enough that the rest is typed.
LEMMA PageTyped ==
  ASSUME DeskTyped, desk' \in Desk,
         telePolls' \subseteq TelePoll, ipPolls' \subseteq IpPoll,
         listPolls' \subseteq ListPoll, tasks' \subseteq Task,
         \A t \in tasks' : t \in tasks \/ TaskNamed(t),
         UNCHANGED <<gateway, purged>>, confirmed' \subseteq Hosts,
         spent' \in [acts : Nat, traffic : Nat, losses : Nat]
  PROVE  DeskTyped'
  BY DEF DeskTyped, TypeOK, Desk, TaskNamed

LEMMA SpendTyped ==
  ASSUME TypeOK
  PROVE  /\ [spent EXCEPT !.acts = @ + 1] \in [acts : Nat, traffic : Nat, losses : Nat]
         /\ [spent EXCEPT !.traffic = @ + 1] \in [acts : Nat, traffic : Nat, losses : Nat]
         /\ [spent EXCEPT !.losses = @ + 1] \in [acts : Nat, traffic : Nat, losses : Nat]
  BY Parts

LEMMA MoveTyped ==
  ASSUME DeskTyped, NEW d \in Domains, MoveTo(d)
  PROVE  desk' \in Desk /\ telePolls' \subseteq TelePoll /\ ipPolls' \subseteq IpPoll
<1>1. desk' \in Desk
  BY Parts DEF DeskTyped, MoveTo, Desk
<1>2. Disowned(telePolls) \subseteq TelePoll
  BY Parts DEF DeskTyped, Disowned, TelePoll
<1> QED
  BY <1>1, <1>2, Parts, AskTyped DEF DeskTyped, MoveTo

LEMMA RefreshTyped == ASSUME TypeOK, RefreshList PROVE listPolls' \subseteq ListPoll
  BY Parts, AskListTyped DEF RefreshList, ListPoll

\* The polls: sent, answered, broken.
LEMMA PollsTyped ==
  ASSUME DeskTyped,
         \/ PollTelemetry \/ PollIPs \/ PollDomains
         \/ \E p \in telePolls : TelemetryArrives(p) \/ TelemetryBreaks(p)
         \/ \E p \in ipPolls : IPsArrive(p) \/ IPsBreak(p)
         \/ \E p \in listPolls : DomainsArrive(p) \/ DomainsShown(p) \/ DomainsLost(p)
  PROVE  DeskTyped'
<1> USE Parts, SpendTyped
<1>1. TypeOK
  BY DEF DeskTyped
<1>2. CASE PollTelemetry \/ PollIPs \/ PollDomains
  BY <1>1, <1>2, AskTyped, AskListTyped, PageTyped DEF PollTelemetry, PollIPs, PollDomains, FetchDomain
<1>3. ASSUME NEW p \in telePolls, TelemetryArrives(p) PROVE DeskTyped'
  <2>1. p \in TelePoll /\ desk \in Desk
    BY <1>1
  <2>2. [desk EXCEPT !.isLive = TRUE,
                     !.shown = [of |-> p.of, threat |-> p.threat, honeypot |-> p.honeypot]] \in Desk
    BY <2>1 DEF TelePoll, Desk
  <2>3. desk' \in Desk
    BY <1>1, <1>3, <2>1, <2>2, AlarmedTyped DEF TelemetryArrives
  <2> QED
    BY <1>1, <1>3, <2>3, PageTyped DEF TelemetryArrives
<1>4. ASSUME NEW p \in telePolls, TelemetryBreaks(p) PROVE DeskTyped'
  <2>1. desk' \in Desk
    BY <1>1, <1>4 DEF TelemetryBreaks, TelePoll, Desk
  <2> QED
    BY <1>1, <1>4, <2>1, PageTyped DEF TelemetryBreaks
<1>5. ASSUME NEW p \in ipPolls, IPsArrive(p) \/ IPsBreak(p) PROVE DeskTyped'
  <2>1. p \in IpPoll /\ desk \in Desk
    BY <1>1
  <2>2. p \in [of : Domains \cup {Nothing}, banned : SUBSET IPs] /\ p.banned \in SUBSET IPs
    BY <2>1 DEF IpPoll
  <2>3. /\ [desk EXCEPT !.entries = p] \in Desk /\ [desk EXCEPT !.blacklist = p.banned] \in Desk
        /\ [desk EXCEPT !.entries = p, !.blacklist = p.banned] \in Desk
    BY <2>1, <2>2 DEF Desk
  <2>4. desk' \in Desk
    BY <1>5, <2>1, <2>3 DEF IPsArrive, IPsBreak
  <2> QED
    BY <1>1, <1>5, <2>4, PageTyped DEF IPsArrive, IPsBreak
<1>6. ASSUME NEW p \in listPolls, DomainsArrive(p) \/ DomainsShown(p) \/ DomainsLost(p)
      PROVE  DeskTyped'
  <2>1. p \in ListPoll /\ desk \in Desk
    BY <1>1
  <2>2. [p EXCEPT !.body = TRUE] \in ListPoll /\ [desk EXCEPT !.domains = Listed(p)] \in Desk
    BY <1>1, <2>1 DEF ListPoll, Listed, Desk
  <2> QED
    BY <1>1, <1>6, <2>1, <2>2, PageTyped DEF DomainsArrive, DomainsShown, DomainsLost
<1> QED
  BY <1>2, <1>3, <1>4, <1>5, <1>6

\* The operator.
LEMMA RequestTyped ==
  ASSUME TypeOK,
         NEW kind \in {"purge", "onboard", "route", "ban", "unban", "reset"},
         NEW host \in Domains, NEW ip \in IPs \cup {Nothing}, Request(kind, host, ip),
         kind \in {"ban", "unban"} => ip \in IPs,
         kind \in {"onboard", "route"} => host \in Hosts
  PROVE  /\ tasks' \subseteq Task /\ \A t \in tasks' : t \in tasks \/ TaskNamed(t)
         /\ UNCHANGED <<desk, telePolls, ipPolls, listPolls, gateway, purged>>
         /\ spent' \in [acts : Nat, traffic : Nat, losses : Nat]
<1> DEFINE t == [kind |-> kind, host |-> host, ip |-> ip,
                 domain |-> desk.activeDomain, served |-> FALSE]
<1>1. t \in Task /\ TaskNamed(t)
  BY Parts DEF Task, TaskNamed
<1>2. tasks' = tasks \cup {t}
  BY DEF Request
<1> HIDE DEF t
<1>3. tasks' \subseteq Task /\ \A u \in tasks' : u \in tasks \/ TaskNamed(u)
  BY <1>1, <1>2, Parts
<1> QED
  BY <1>3, SpendTyped DEF Request, Act

LEMMA OperatorTyped == ASSUME DeskTyped, Operator PROVE DeskTyped'
<1> USE Parts, SpendTyped
<1>1. TypeOK
  BY DEF DeskTyped
<1>2. ASSUME NEW d \in Domains, ChooseDomain(d) PROVE DeskTyped'
  <2>1. /\ desk' \in Desk /\ telePolls' \subseteq TelePoll /\ ipPolls' \subseteq IpPoll
    BY <1>2, MoveTyped DEF ChooseDomain
  <2> QED
    BY <1>1, <1>2, <2>1, PageTyped DEF ChooseDomain, Act
<1>3. CASE Acknowledge
  <2>1. [desk EXCEPT !.isEmergency = FALSE] \in Desk
    BY <1>1 DEF Desk
  <2>2. desk' \in Desk
    BY <1>3, <2>1, AlarmedTyped DEF Acknowledge
  <2> QED
    BY <1>1, <1>3, <2>2, PageTyped DEF Acknowledge, Act
<1>4. CASE Reload
  BY <1>1, <1>4, BlankTyped, PageTyped DEF Reload, LoadPage
<1>5. ASSUME NEW kind \in {"purge", "onboard", "route", "ban", "unban", "reset"},
             NEW host \in Domains, NEW ip \in IPs \cup {Nothing},
             Request(kind, host, ip), confirmed' \subseteq Hosts,
             kind \in {"ban", "unban"} => ip \in IPs,
             kind \in {"onboard", "route"} => host \in Hosts
      PROVE  DeskTyped'
  BY <1>1, <1>5, RequestTyped, PageTyped
<1>6. CASE ConfirmPurge
  BY <1>1, <1>5, <1>6 DEF ConfirmPurge
<1>7. CASE HandleReset
  BY <1>1, <1>5, <1>7 DEF HandleReset
<1>8. CASE \E h \in Hosts : SubmitOnboard(h) \/ AddRoute(h)
  BY <1>1, <1>5, <1>8 DEF SubmitOnboard, AddRoute
<1>9. CASE \E ip \in IPs : HandleBanSubmit(ip) \/ HandleUnban(ip)
  BY <1>1, <1>5, <1>9 DEF HandleBanSubmit, HandleUnban
<1>10. ASSUME NEW ip \in IPs, OpenBan(ip) \/ CancelBan(ip) PROVE DeskTyped'
  <2>1. PICK to \in {Nothing, ip} : desk' = [desk EXCEPT !.banTarget = to]
    BY <1>10 DEF OpenBan, CancelBan, BanDialog
  <2>2. desk' \in Desk
    BY <1>1, <2>1 DEF Desk
  <2> QED
    BY <1>1, <1>10, <2>2, PageTyped DEF OpenBan, CancelBan, BanDialog
<1> QED
  BY <1>2, <1>3, <1>4, <1>6, <1>7, <1>8, <1>9, <1>10 DEF Operator

\* The answers of the operator's requests.
LEMMA AnswersTyped ==
  ASSUME DeskTyped, NEW t \in tasks,
         \/ PurgeAnswered(t) \/ OnboardAnswered(t) \/ RouteAnswered(t)
         \/ BanAnswered(t) \/ ResetAnswered(t) \/ RequestLost(t)
  PROVE  DeskTyped'
<1> USE Parts, SpendTyped
<1>1. TypeOK /\ t \in Task
  BY DEF DeskTyped
<1>2. t.host \in Domains /\ t.domain \in Domains
  BY <1>1 DEF Task
<1>3. CASE PurgeAnswered(t) \/ OnboardAnswered(t)
  <2>1. PICK d \in Domains : MoveTo(d) /\ RefreshList
    BY <1>1, <1>2, <1>3 DEF PurgeAnswered, OnboardAnswered
  <2>2. /\ desk' \in Desk /\ telePolls' \subseteq TelePoll /\ ipPolls' \subseteq IpPoll
        /\ listPolls' \subseteq ListPoll
    BY <1>1, <2>1, MoveTyped, RefreshTyped
  <2> QED
    BY <1>1, <1>3, <2>2, PageTyped DEF PurgeAnswered, OnboardAnswered
<1>4. CASE RouteAnswered(t) \/ RequestLost(t)
  BY <1>1, <1>4, RefreshTyped, PageTyped DEF RouteAnswered, RequestLost
<1>5. CASE BanAnswered(t)
  <2>1. [desk EXCEPT !.banTarget = Nothing] \in Desk
    BY <1>1 DEF Desk
  <2> QED
    BY <1>1, <1>2, <1>5, <2>1, AskTyped, PageTyped DEF BanAnswered
<1>6. CASE ResetAnswered(t)
  BY <1>1, <1>6, BlankTyped, PageTyped DEF ResetAnswered, LoadPage
<1> QED
  BY <1>3, <1>4, <1>5, <1>6

\* The gateway: a line more, or a request served.
LEMMA TrafficTyped ==
  ASSUME DeskTyped, NEW h \in Hosts, NEW status \in Statuses, Traffic(h, status)
  PROVE  DeskTyped'
<1>1. /\ TypeOK /\ gateway \in Gateway /\ spent.traffic \in Nat /\ IsFiniteSet(gateway.log)
      /\ spent' \in [acts : Nat, traffic : Nat, losses : Nat]
  BY Parts, SpendTyped DEF DeskTyped, Traffic
<1> DEFINE line == [at |-> spent.traffic, host |-> h, status |-> status]
<1>2. line \in Line
  BY <1>1 DEF Line
<1> HIDE DEF line
<1>3. PICK n \in Nat :
         gateway' = [gateway EXCEPT !.known = gateway.known \cup {h},
                        !.log = gateway.log \cup {line}, !.trapped = n]
  <2> DEFINE m == IF status = "DIVERTED_TO_HONEYPOT" THEN gateway.trapped + 1
                  ELSE gateway.trapped
  <2>1. m \in Nat
    BY <1>1 DEF Gateway
  <2>2. gateway' = [gateway EXCEPT !.known = gateway.known \cup {h},
                        !.log = gateway.log \cup {line}, !.trapped = m]
    BY DEF Traffic, line
  <2> HIDE DEF m
  <2> QED
    BY <2>1, <2>2
<1>4. gateway' \in Gateway /\ gateway'.log = gateway.log \cup {line}
  BY <1>1, <1>2, <1>3 DEF Gateway
<1>5. IsFiniteSet(gateway'.log)
  BY <1>1, <1>4, FS_AddElement
<1> QED
  BY <1>1, <1>4, <1>5 DEF Traffic, DeskTyped, TypeOK, Gateway, TaskNamed

LEMMA ServeTyped == ASSUME DeskTyped, NEW t \in tasks, Serve(t) PROVE DeskTyped'
<1>1. /\ TypeOK /\ gateway \in Gateway /\ IsFiniteSet(gateway.log) /\ t \in Task
      /\ t.host \in Domains /\ TaskNamed(t) /\ tasks \subseteq Task
  BY Parts DEF DeskTyped, Task
<1>2. gateway' \in Gateway /\ gateway'.log \subseteq gateway.log
  <2>1. CASE t.kind = "purge" /\ t.host # All
    <3>1. gateway' = [gateway EXCEPT !.known = gateway.known \ {t.host},
                        !.log = {line \in gateway.log : line.host # t.host}]
      BY <2>1 DEF Serve, Served, PurgeTarget
    <3> QED
      BY <1>1, <3>1 DEF Gateway
  <2>2. CASE t.kind \in {"onboard", "route"}
    <3>1. gateway' = [gateway EXCEPT !.known = gateway.known \cup {t.host}]
      BY <2>2 DEF Serve, Served
    <3> QED
      BY <1>1, <2>2, <3>1 DEF Gateway, TaskNamed
  <2>3. CASE t.kind = "ban"
    <3>1. gateway' = [gateway EXCEPT !.banned = gateway.banned \cup {t.ip}]
      BY <2>3 DEF Serve, Served
    <3> QED
      BY <1>1, <2>3, <3>1 DEF Gateway, TaskNamed
  <2>4. CASE t.kind = "unban"
    <3>1. gateway' = [gateway EXCEPT !.banned = gateway.banned \ {t.ip}]
      BY <2>4 DEF Serve, Served
    <3> QED
      BY <1>1, <3>1 DEF Gateway
  <2>5. CASE t.kind = "reset"
    <3>1. gateway' = [gateway EXCEPT !.known = {}, !.log = {}, !.trapped = 0]
      BY <2>5 DEF Serve, Served
    <3> QED
      BY <1>1, <3>1 DEF Gateway
  <2>6. CASE t.kind = "purge" /\ t.host = All
    <3>1. gateway' = gateway
      BY <2>6 DEF Serve, Served, PurgeTarget
    <3> QED
      BY <1>1, <3>1
  <2> QED
    BY <1>1, <2>1, <2>2, <2>3, <2>4, <2>5, <2>6 DEF Task
<1>3. IsFiniteSet(gateway'.log)
  BY <1>1, <1>2, FS_Subset
<1>4. [t EXCEPT !.served = TRUE] \in Task /\ TaskNamed([t EXCEPT !.served = TRUE])
  BY <1>1 DEF Task, TaskNamed
<1>5. tasks' \subseteq Task /\ \A u \in tasks' : u \in tasks \/ TaskNamed(u)
  BY <1>1, <1>4 DEF Serve
<1>6. purged' \subseteq Hosts
  BY <1>1, Parts DEF Serve, PurgeTarget, Domains
<1> QED
  BY <1>2, <1>3, <1>5, <1>6 DEF Serve, DeskTyped, TypeOK, Gateway, TaskNamed

LEMMA InitTyped == Init => DeskTyped
<1> SUFFICES ASSUME Init PROVE DeskTyped
  OBVIOUS
<1>1. gateway \in Gateway /\ gateway.log = {} /\ All \in Domains
  BY DEF Init, Gateway, Domains
<1>2. desk \in Desk
  BY <1>1 DEF Init, BlankDesk, Desk, Gateway, Domains
<1>3. IsFiniteSet(gateway.log)
  BY <1>1, FS_EmptySet
<1> QED
  BY <1>1, <1>2, <1>3 DEF Init, DeskTyped, TypeOK, Desk, Gateway

\* In every instance the desk, the polls and requests in flight and what the
\* gateway holds keep their types: above all, a ban always names an address and
\* an onboarding a host, whatever the desk has moved to by then.
THEOREM TypeCorrect == Spec => []TypeOK
<1>1. DeskTyped /\ [Next]_vars => DeskTyped'
  <2> SUFFICES ASSUME DeskTyped, [Next]_vars PROVE DeskTyped'
    OBVIOUS
  <2>1. CASE UNCHANGED vars
    BY <2>1 DEF vars, DeskTyped, TypeOK, TaskNamed
  <2>2. CASE PollTelemetry \/ PollIPs \/ PollDomains
    BY <2>2, PollsTyped
  <2>3. CASE Arrivals
    BY <2>3, PollsTyped, AnswersTyped DEF Arrivals
  <2>4. CASE Operator
    BY <2>4, OperatorTyped
  <2>5. CASE \E t \in tasks : Serve(t)
    BY <2>5, ServeTyped
  <2>6. CASE \E h \in Hosts, status \in Statuses : Traffic(h, status)
    BY <2>6, TrafficTyped
  <2> QED
    BY <2>1, <2>2, <2>3, <2>4, <2>5, <2>6 DEF Next
<1>2. DeskTyped => TypeOK
  BY DEF DeskTyped
<1> QED
  BY <1>1, <1>2, InitTyped, PTL DEF Spec

=============================================================================
