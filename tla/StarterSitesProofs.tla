---- MODULE StarterSitesProofs ----
(***************************************************************************)
(* Who owns a Starter site, for every number of customers, sites, requests *)
(* in progress and deaths of the wizard; and where the traffic of the      *)
(* sites is routed once an upsell has ended into which nobody wrote.       *)
(***************************************************************************)
EXTENDS UpsellRouting, TLAPS

-----------------------------------------------------------------------------
\* Type correctness

\* The values the wizard builds are typed.
LEMMA ValuesTyped ==
  /\ NoOwner \in Owner
  /\ \A c \in Customers : Guest(c) \in Owner /\ Account(c) \in Owner
  /\ Absent \in File /\ Torn \in File
  /\ \A o \in Owner, g \in BOOLEAN : Manifest(o, g) \in File
  /\ Idle \in Call
  BY DEF NoOwner, Guest, Account, Owner, Absent, Torn, Manifest, File, Idle, Call, Op, Pc

\* A request that waits names a site, unless it reassigns whatever the guest has;
\* a handler works for a customer or for the operator, and claims for a customer.
WellAsked(r) ==
  /\ r.pc = "asked" /\ r.op # "reassign" => r.slug \in Slugs
  /\ r.who = NoOwner \/ r.who.of \in Customers
  /\ r.op = "claim" => r.who # NoOwner
Typed == TypeOK /\ \A t \in Calls : WellAsked(call[t])

\* The counts and program points of a handler.
LEMMA Ranges ==
  /\ 0 \in 0 .. 3 /\ 1 \in 0 .. 3 /\ 2 \in 0 .. 3 /\ 3 \in 0 .. 3
  /\ "torn" \in Pc /\ "save" \in Pc /\ "vercel" \in Pc /\ "list" \in Pc
  BY DEF Pc

LEMMA InitTyped == Init => Typed
  BY ValuesTyped, StarterAssumption DEF Init, TypeOK, Typed, WellAsked, Idle

\* A handler that takes a typed value leaves all handlers typed.
LEMMA BecomesTyped ==
  ASSUME Typed, NEW t \in Calls, NEW r \in Call, WellAsked(r), Becomes(t, r)
  PROVE  call' \in [Calls -> Call] /\ \A u \in Calls : WellAsked(call'[u])
  BY DEF Typed, TypeOK, Becomes

\* A request of the portal or the operator is typed.
LEMMA AskTyped ==
  ASSUME Typed, NEW t \in Calls, NEW op \in Op, NEW s \in Slugs \cup {NoSlug},
         NEW id \in Owner, op # "reassign" => s \in Slugs, Ask(t, op, s, id),
         id = NoOwner \/ id.of \in Customers, op = "claim" => id # NoOwner
  PROVE  Typed'
<1> DEFINE q == [Idle EXCEPT !.op = op, !.pc = "asked", !.slug = s, !.who = id]
<1>1. q \in Call /\ WellAsked(q)
  BY ValuesTyped DEF Call, Idle, Pc, WellAsked
<1>2. Becomes(t, q)
  BY DEF Ask
<1> HIDE DEF q
<1> QED
  BY <1>1, <1>2, BecomesTyped DEF Ask, Typed, TypeOK, siteVars

\* What is asked for: the handler, the slug and the identity.
LEMMA AskShape ==
  ASSUME NEW t \in Calls,
         SomebodyAsks(t),
         TypeOK
  PROVE  \E op \in Op, s \in Slugs \cup {NoSlug}, id \in Owner :
           /\ Ask(t, op, s, id)
           /\ op # "none"
           /\ op # "reassign" => s \in Slugs
           /\ id = NoOwner \/ \E c \in Customers :
                id = Guest(c) \/ (c \in registered /\ id = Account(c))
           /\ op = "claim" => id # NoOwner
           /\ op = "reassign" => id.kind = "account"
           /\ op = "publish" /\ id # NoOwner =>
                \E c \in Customers : id = Identity(c) /\ SiteOwnedBy(file[s], id)
<1> USE ValuesTyped DEF TypeOK, Op
<1>1. \A c \in Customers : Identity(c) \in {Guest(c), Account(c)}
                           /\ (Identity(c) = Account(c) => c \in registered)
  BY DEF Identity, Guest, Account
<1>2. \A c \in Customers : Guest(c) # NoOwner /\ Account(c) # NoOwner
                           /\ Account(c).kind = "account"
  BY DEF Guest, Account, NoOwner
<1>3. CASE AskGenerate(t)
  <2>1. PICK s \in Slugs, id \in {Identity(c) : c \in Customers} \cup {NoOwner} :
          Ask(t, "generate", s, id)
    BY <1>3 DEF AskGenerate
  <2>2. id = NoOwner \/ \E c \in Customers : id = Identity(c)
    BY <2>1
  <2>3. id \in Owner
    BY <2>2, <1>1
  <2> QED
    BY <2>1, <2>2, <2>3, <1>1
<1>4. CASE AskClaim(t) \/ AskAttach(t)
  <2>1. PICK s \in Slugs, c \in Customers :
          \E id \in {Identity(c), Guest(c)} : Ask(t, "claim", s, id)
    BY <1>4 DEF AskClaim, AskAttach
  <2> PICK id \in {Identity(c), Guest(c)} : Ask(t, "claim", s, id)
    BY <2>1
  <2>2. id = Guest(c) \/ (c \in registered /\ id = Account(c))
    BY <1>1
  <2> QED
    BY <2>2, <1>2
<1>5. CASE AskReassign(t)
  BY <1>5, <1>2 DEF AskReassign
<1>6. CASE AskPublish(t)
  <2>1. PICK c \in Customers : \E s \in OwnedList(Identity(c)) : Ask(t, "publish", s, Identity(c))
    BY <1>6 DEF AskPublish
  <2>2. PICK s \in Slugs : SiteOwnedBy(file[s], Identity(c)) /\ Ask(t, "publish", s, Identity(c))
    BY <2>1 DEF OwnedList
  <2> QED
    BY <2>2, <1>1
<1>7. CASE AskAsOperator(t)
  BY <1>7, StarterAssumption DEF AskAsOperator
<1> QED
  BY <1>3, <1>4, <1>5, <1>6, <1>7 DEF SomebodyAsks

\* A step of the wizard, the portal or the operator never breaks the types.
LEMMA StepTyped == Typed /\ [Next]_vars => Typed'
<1> SUFFICES ASSUME Typed, [Next]_vars PROVE Typed'
  OBVIOUS
<1>1. CASE UNCHANGED vars
  BY <1>1 DEF Typed, TypeOK, vars
<1>2. CASE \E c \in Customers : Register(c)
  BY <1>2 DEF Typed, TypeOK, Register, siteVars
<1>3. CASE WizardDies
  BY <1>3, ValuesTyped, StarterAssumption
  DEF Typed, TypeOK, WizardDies, siteVars, WellAsked, Idle
<1>4. ASSUME NEW t \in Calls,
             SomebodyAsks(t)
      PROVE  Typed'
  <2>1. PICK op \in Op, s \in Slugs \cup {NoSlug}, id \in Owner :
          /\ Ask(t, op, s, id)
          /\ op # "reassign" => s \in Slugs
          /\ id = NoOwner \/ \E c \in Customers : id = Guest(c) \/ id = Account(c)
          /\ op = "claim" => id # NoOwner
    BY <1>4, AskShape DEF Typed
  <2>2. id = NoOwner \/ id.of \in Customers
    BY <2>1 DEF Guest, Account
  <2> QED
    BY <2>1, <2>2, AskTyped
<1>5. ASSUME NEW t \in Calls, Enter(t) \/ Work(t) PROVE Typed'
  <2> DEFINE r == call[t]
  <2>1. r \in Call /\ WellAsked(r)
    BY DEF Typed, TypeOK
  <2>2. /\ \A s \in Slugs : file[s] \in File
        /\ Active \subseteq Slugs
        /\ \A c : GuestSites(c) \subseteq Slugs
    BY DEF Typed, TypeOK, Active, GuestSites
  <2>3. Idle \in Call /\ WellAsked(Idle)
    BY ValuesTyped DEF WellAsked, Idle
  <2>4. ASSUME NEW q \in Call, WellAsked(q), Becomes(t, q),
               UNCHANGED <<registered, file, maker, told, crashes>>,
               hosts' \subseteq Slugs, routed' \subseteq Slugs
        PROVE  Typed'
    BY <2>4, BecomesTyped DEF Typed, TypeOK
  <2>5. ASSUME NEW q \in Call, WellAsked(q), Becomes(t, q), UNCHANGED <<registered, siteVars, crashes>>
        PROVE  Typed'
    BY <2>5, <2>4 DEF siteVars, Typed, TypeOK
  <2>6. CASE GenerateSite(t)
    <3>1. r.slug \in Slugs
      BY <2>1, <2>6 DEF GenerateSite, At, WellAsked
    <3>2. PICK replace \in ReplaceFlags :
            \E d \in Allocate(call[t].slug, call[t].who, replace) :
              /\ file' = IF file[d].st = "absent" THEN [file EXCEPT ![d] = Torn] ELSE file
              /\ maker' = IF file[d].st = "absent"
                          THEN [maker EXCEPT ![d] = call[t].who.of] ELSE maker
              /\ Becomes(t, [call[t] EXCEPT !.pc = "save", !.slug = d, !.saves = 3,
                                            !.copy = Manifest(call[t].who, FALSE)])
      BY <2>6 DEF GenerateSite
    <3>3. PICK d \in Slugs :
              /\ file' = IF file[d].st = "absent" THEN [file EXCEPT ![d] = Torn] ELSE file
              /\ maker' = IF file[d].st = "absent"
                          THEN [maker EXCEPT ![d] = r.who.of] ELSE maker
              /\ Becomes(t, [r EXCEPT !.pc = "save", !.slug = d, !.saves = 3,
                                      !.copy = Manifest(r.who, FALSE)])
      BY <3>1, <3>2 DEF Allocate
    <3> DEFINE q == [r EXCEPT !.pc = "save", !.slug = d, !.saves = 3,
                              !.copy = Manifest(r.who, FALSE)]
    <3>4. r.who \in Owner /\ r.who.of \in Customers \cup {Nobody} /\ Manifest(r.who, FALSE) \in File
      BY <2>1, ValuesTyped DEF Call, Owner
    <3>5. q \in Call
      BY <2>1, <3>4, Ranges, Zenon DEF Call
    <3>6. WellAsked(q) /\ Becomes(t, q)
      BY <2>1, <3>3 DEF WellAsked, Call
    <3> HIDE DEF q
    <3>7. call' \in [Calls -> Call] /\ \A u \in Calls : WellAsked(call'[u])
      BY <3>5, <3>6, BecomesTyped
    <3> QED
      BY <2>6, <3>3, <3>4, <3>7, ValuesTyped DEF GenerateSite, Typed, TypeOK
  <2>7. CASE GenerateRejected(t)
    BY <2>7, <2>3, <2>5 DEF GenerateRejected
  <2>8. CASE ClaimSite(t)
    <3> DEFINE q == [r EXCEPT !.pc = "save", !.saves = 1,
                              !.copy = [file[r.slug] EXCEPT !.owner = r.who]]
    <3>1. r.slug \in Slugs
      BY <2>1, <2>8 DEF ClaimSite, At, WellAsked
    <3>2. [file[r.slug] EXCEPT !.owner = r.who] \in File
      BY <2>1, <2>2, <3>1 DEF File, Call
    <3>3. q \in Call
      BY <2>1, <3>2, Ranges, Zenon DEF Call
    <3>4. WellAsked(q)
      BY <2>1, <3>1 DEF WellAsked, Call
    <3>5. Becomes(t, q) \/ Becomes(t, Idle)
      BY <2>8 DEF ClaimSite
    <3> QED
      BY <2>8, <2>3, <2>5, <3>3, <3>4, <3>5 DEF ClaimSite
  <2>9. CASE ListGuestSites(t)
    <3> DEFINE q == [r EXCEPT !.pc = "next", !.seen = GuestSites(r.who.of)]
    <3>1. q \in Call /\ WellAsked(q)
      BY <2>1, <2>2 DEF Call, Pc, WellAsked
    <3> QED
      BY <2>9, <2>5, <3>1 DEF ListGuestSites
  <2>10. CASE ReassignNext(t)
    <3>1. CASE Becomes(t, Idle)
      BY <2>10, <2>3, <2>5, <3>1 DEF ReassignNext
    <3>2. CASE ~ Becomes(t, Idle)
      <4>1. PICK s \in r.seen :
              Becomes(t, [r EXCEPT !.pc = "save", !.slug = s, !.saves = 1, !.seen = @ \ {s},
                                   !.copy = Manifest(r.who, file[s].gaas)])
        BY <2>10, <3>2 DEF ReassignNext
      <4>2. s \in Slugs /\ r.seen \ {s} \in SUBSET Slugs /\ r.who \in Owner
        BY <2>1 DEF Call
      <4>3. Manifest(r.who, file[s].gaas) \in File
        BY <4>2, <2>2, ValuesTyped DEF File
      <4> DEFINE q == [r EXCEPT !.pc = "save", !.slug = s, !.saves = 1, !.seen = @ \ {s},
                                !.copy = Manifest(r.who, file[s].gaas)]
      <4>4. q \in Call
        BY <2>1, <4>2, <4>3, Ranges, Zenon DEF Call
      <4>5. WellAsked(q)
        BY <2>1, <4>2 DEF WellAsked, Call
      <4> QED
        BY <2>10, <2>5, <4>1, <4>4, <4>5 DEF ReassignNext
    <3> QED
      BY <3>1, <3>2
  <2>11. CASE ReadToDeploy(t)
    <3> DEFINE q == [r EXCEPT !.pc = IF r.op = "publish" THEN "vercel" ELSE "list",
                              !.saves = IF r.op = "publish" THEN 1 ELSE 2,
                              !.copy = file[r.slug]]
    <3>1. r.slug \in Slugs
      BY <2>1, <2>11 DEF ReadToDeploy, WellAsked
    <3>2. q \in Call
      BY <2>1, <2>2, <3>1, Ranges, Zenon DEF Call
    <3>3. WellAsked(q)
      BY <2>1, <3>1 DEF WellAsked, Call
    <3>4. Becomes(t, q) \/ Becomes(t, Idle)
      BY <2>11 DEF ReadToDeploy
    <3> QED
      BY <2>11, <2>3, <2>5, <3>2, <3>3, <3>4 DEF ReadToDeploy
  <2>12. CASE ReadToUpsell(t)
    <3> DEFINE q == [r EXCEPT !.pc = "save", !.saves = 1,
                              !.copy = [file[r.slug] EXCEPT !.gaas = (r.op = "enable")]]
    <3>1. r.slug \in Slugs
      BY <2>1, <2>12 DEF ReadToUpsell, WellAsked
    <3>2. [file[r.slug] EXCEPT !.gaas = (r.op = "enable")] \in File
      BY <2>2, <3>1 DEF File
    <3>3. q \in Call
      BY <2>1, <3>2, Ranges, Zenon DEF Call
    <3>4. WellAsked(q)
      BY <2>1, <3>1 DEF WellAsked, Call
    <3>5. Becomes(t, q) \/ Becomes(t, Idle)
      BY <2>12 DEF ReadToUpsell
    <3> QED
      BY <2>12, <2>3, <2>5, <3>3, <3>4, <3>5 DEF ReadToUpsell
  <2>13. CASE VercelAnswers(t)
    <3>1. PICK n \in 0 .. r.saves :
            Becomes(t, IF n = 0 THEN Idle ELSE [r EXCEPT !.pc = "save", !.saves = n])
      BY <2>13 DEF VercelAnswers
    <3> DEFINE q == [r EXCEPT !.pc = "save", !.saves = n]
    <3>2. n \in 0 .. 3
      BY <2>1 DEF Call
    <3>3. q \in Call
      BY <2>1, <3>2, Ranges, Zenon DEF Call
    <3>4. WellAsked(q)
      BY <2>1 DEF WellAsked, Call
    <3>5. Becomes(t, q) \/ Becomes(t, Idle)
      BY <3>1
    <3> QED
      BY <2>13, <2>3, <2>5, <3>3, <3>4, <3>5 DEF VercelAnswers
  <2>14. CASE SaveBegins(t)
    <3>1. [r EXCEPT !.pc = "torn"] \in Call /\ WellAsked([r EXCEPT !.pc = "torn"])
      BY <2>1 DEF Call, Pc, WellAsked
    <3>2. call' \in [Calls -> Call] /\ \A u \in Calls : WellAsked(call'[u])
      BY <2>14, <3>1, BecomesTyped DEF SaveBegins
    <3> QED
      BY <2>14, <3>2, ValuesTyped DEF SaveBegins, Typed, TypeOK
  <2>15. CASE SaveEnds(t)
    <3>1. AfterSave(r) \in Pc \ {"asked"}
      BY DEF AfterSave, Pc
    <3>2. Saved(r) \in Call
      <4>1. CASE r.saves > 1
        <5>1. r.saves - 1 \in 0 .. 3
          BY <2>1, <4>1 DEF Call
        <5>2. [r EXCEPT !.pc = AfterSave(r), !.saves = @ - 1] \in Call
          BY <2>1, <3>1, <5>1, Zenon DEF Call
        <5> QED
          BY <2>3, <4>1, <5>2 DEF Saved
      <4>2. CASE ~ (r.saves > 1)
        <5>1. [r EXCEPT !.pc = AfterSave(r), !.saves = 0, !.copy = Absent] \in Call
          BY <2>1, <3>1, Ranges, ValuesTyped, Zenon DEF Call
        <5> QED
          BY <2>3, <4>2, <5>1 DEF Saved
      <4> QED
        BY <4>1, <4>2
    <3>3. WellAsked(Saved(r))
      BY <2>1, <2>3, <3>1 DEF Saved, WellAsked, Call
    <3>4. call' \in [Calls -> Call] /\ \A u \in Calls : WellAsked(call'[u])
      BY <2>15, <3>2, <3>3, BecomesTyped DEF SaveEnds
    <3>5. r.copy \in File /\ Torn \in File /\ r.who.of \in Customers \cup {Nobody}
      BY <2>1, ValuesTyped DEF Call, Owner
    <3>6. Granting(r) => r.who.of \in Customers
      BY <2>1 DEF WellAsked, Granting
    <3>7. file' \in [Slugs -> File]
      BY <2>15, <3>5 DEF SaveEnds, Typed, TypeOK
    <3>8. told' \in [Slugs -> SUBSET Customers]
      BY <2>15, <3>6 DEF SaveEnds, Typed, TypeOK
    <3> QED
      BY <2>15, <3>4, <3>7, <3>8 DEF SaveEnds, Typed, TypeOK
  <2>16. CASE ListHosts(t)
    <3>1. [r EXCEPT !.pc = "map", !.seen = Active] \in Call
          /\ WellAsked([r EXCEPT !.pc = "map", !.seen = Active])
      BY <2>1, <2>2 DEF Call, Pc, WellAsked
    <3> QED
      BY <2>16, <2>5, <3>1 DEF ListHosts
  <2>17. CASE WriteHostMap(t)
    <3>1. [r EXCEPT !.pc = "list", !.seen = {}] \in Call
          /\ WellAsked([r EXCEPT !.pc = "list", !.seen = {}])
      BY <2>1 DEF Call, Pc, WellAsked
    <3> QED
      BY <2>17, <2>1, <2>4, <3>1 DEF WriteHostMap, Call, Typed, TypeOK
  <2>18. CASE CountRemaining(t)
    <3> DEFINE q == [r EXCEPT !.pc = IF Active = {} THEN "reset" ELSE "hosts"]
    <3>1. q \in Call /\ WellAsked(q)
      BY <2>1 DEF Call, Pc, WellAsked
    <3> QED
      BY <2>18, <2>5, <3>1 DEF CountRemaining
  <2>19. CASE ResetHostMap(t)
    <3>1. [r EXCEPT !.pc = "list"] \in Call /\ WellAsked([r EXCEPT !.pc = "list"])
      BY <2>1 DEF Call, Pc, WellAsked
    <3> QED
      BY <2>19, <2>4, <3>1 DEF ResetHostMap, Typed, TypeOK
  <2>20. CASE ListRouting(t)
    <3>1. [r EXCEPT !.pc = "route", !.seen = Active] \in Call
          /\ WellAsked([r EXCEPT !.pc = "route", !.seen = Active])
      BY <2>1, <2>2 DEF Call, Pc, WellAsked
    <3> QED
      BY <2>20, <2>5, <3>1 DEF ListRouting
  <2>21. CASE WriteRouting(t)
    <3>1. [r EXCEPT !.pc = "vercel", !.seen = {}] \in Call
          /\ WellAsked([r EXCEPT !.pc = "vercel", !.seen = {}])
      BY <2>1 DEF Call, Pc, WellAsked
    <3>2. Becomes(t, [r EXCEPT !.pc = "vercel", !.seen = {}]) \/ Becomes(t, Idle)
      BY <2>21 DEF WriteRouting
    <3>3. hosts' \subseteq Slugs /\ routed' \subseteq Slugs
      BY <2>21, <2>1 DEF WriteRouting, Call, Typed, TypeOK
    <3> QED
      BY <2>21, <2>3, <2>4, <3>1, <3>2, <3>3 DEF WriteRouting
  <2> QED
    BY <1>5, <2>6, <2>7, <2>8, <2>9, <2>10, <2>11, <2>12, <2>13, <2>14, <2>15, <2>16,
       <2>17, <2>18, <2>19, <2>20, <2>21 DEF Enter, Work
<1> QED
  BY <1>1, <1>2, <1>3, <1>4, <1>5 DEF Next

\* Every variable keeps its shape.
THEOREM TypeCorrect == Spec => []TypeOK
<1>1. Spec => []Typed
  BY InitTyped, StepTyped, PTL DEF Spec
<1>2. Typed => TypeOK
  BY DEF Typed
<1> QED
  BY <1>1, <1>2, PTL

-----------------------------------------------------------------------------
\* The deed: what a manifest may say of its owner, on disk or in a handler

\* Nobody, a guest, or an account that exists.
ValidOwner(o, reg) ==
  \/ o = NoOwner
  \/ o.of \in Customers /\ (o.kind = "guest" \/ (o.kind = "account" /\ o.of \in reg))

\* A manifest of a site that was generated for a customer names that customer.
Deed(m, s, reg, mk) ==
  ValidOwner(m.owner, reg) /\ (mk[s] # Nobody => m.owner.of = mk[s])

FileSound(s, reg, f, mk, td) ==
  /\ f[s].st = "ok" => /\ Deed(f[s], s, reg, mk)
                       /\ f[s].owner # NoOwner => f[s].owner.of \in td[s]
  /\ f[s].st = "absent" => mk[s] = Nobody

\* The copy in memory is as good as the file: the folder exists, so its maker is
\* settled; the owner it names has been told, or will be by the save itself.
CopySound(r, reg, f, mk, td) ==
  r.copy.st = "ok" =>
    /\ r.slug \in Slugs
    /\ f[r.slug].st # "absent"
    /\ Deed(r.copy, r.slug, reg, mk)
    /\ r.copy.owner # NoOwner =>
         r.copy.owner.of \in td[r.slug] \/ (Granting(r) /\ r.copy.owner = r.who)

\* The program points at which a copy is held, and the handlers that reach them.
PointSound(r) ==
  /\ r.copy.st # "torn"
  /\ r.pc \in {"save", "torn", "vercel"} => r.copy.st = "ok"
  /\ r.pc \in {"list", "route"} /\ r.op \in {"generate", "detail"} => r.copy.st = "ok"
  /\ r.pc \in {"list", "route"} => r.op \in {"generate", "detail", "enable", "disable"}
  /\ r.pc \in {"hosts", "map", "remaining", "reset"} => r.op \in {"enable", "disable"}
  /\ r.pc = "next" => r.op = "reassign"
  /\ r.op = "none" => r.pc = "idle"
  /\ r.op = "generate" /\ r.saves = 3 => r.pc \in {"save", "torn"}

\* Reassign goes through sites the guest of its account was told of; a session
\* publishes a site that no other customer made.
ErrandSound(r, reg, f, mk, td) ==
  /\ ValidOwner(r.who, reg)
  /\ r.op = "reassign" =>
       /\ r.who.kind = "account"
       /\ \A s \in r.seen : /\ f[s].st # "absent"
                            /\ r.who.of \in td[s]
                            /\ mk[s] \in {Nobody, r.who.of}
  /\ r.op = "publish" /\ r.who # NoOwner =>
       /\ r.slug \in Slugs
       /\ f[r.slug].st # "absent"
       /\ mk[r.slug] \in {Nobody, r.who.of}

CallSound(r, reg, f, mk, td) ==
  /\ CopySound(r, reg, f, mk, td)
  /\ PointSound(r)
  /\ ErrandSound(r, reg, f, mk, td)

DeedsSound ==
  /\ \A s \in Slugs : FileSound(s, registered, file, maker, told)
  /\ \A t \in Calls : CallSound(call[t], registered, file, maker, told)

IInv == Typed /\ DeedsSound

\* Deeds outlive later registrations, grants and folders: nothing that was settled
\* for an existing folder is undone.
LEMMA CallLasts ==
  ASSUME NEW r \in Call, NEW reg, NEW f, NEW mk, NEW td, NEW reg2, NEW f2, NEW mk2, NEW td2,
         reg \subseteq reg2,
         \A s \in Slugs : /\ f[s].st # "absent" => f2[s].st # "absent" /\ mk2[s] = mk[s]
                          /\ td[s] \subseteq td2[s],
         CallSound(r, reg, f, mk, td)
  PROVE  CallSound(r, reg2, f2, mk2, td2)
<1>1. r.seen \subseteq Slugs
  BY DEF Call
<1>2. CopySound(r, reg2, f2, mk2, td2)
  BY DEF CallSound, CopySound, Deed, ValidOwner
<1>3. ErrandSound(r, reg2, f2, mk2, td2)
  BY <1>1 DEF CallSound, ErrandSound, ValidOwner
<1> QED
  BY <1>2, <1>3 DEF CallSound

LEMMA IdleSound == CallSound(Idle, registered, file, maker, told)
  BY DEF CallSound, CopySound, PointSound, ErrandSound, ValidOwner, Idle, Absent, NoOwner

\* A step of one handler: its new record and the files are sound, the rest lasts.
LEMMA HandlerStep ==
  ASSUME IInv, NEW t \in Calls, NEW q, Becomes(t, q), registered' = registered,
         CallSound(q, registered, file', maker', told'),
         \A s \in Slugs : FileSound(s, registered, file', maker', told'),
         \A s \in Slugs : /\ file[s].st # "absent" => file'[s].st # "absent" /\ maker'[s] = maker[s]
                          /\ told[s] \subseteq told'[s]
  PROVE  DeedsSound'
<1>1. ASSUME NEW u \in Calls PROVE CallSound(call'[u], registered', file', maker', told')
  <2>1. CASE u = t
    BY <2>1 DEF Becomes, IInv, Typed, TypeOK
  <2>2. CASE u # t
    <3>1. call'[u] = call[u] /\ call[u] \in Call
      BY <2>2 DEF Becomes, IInv, Typed, TypeOK
    <3>2. CallSound(call[u], registered, file, maker, told)
      BY DEF IInv, DeedsSound
    <3>3. CallSound(call[u], registered, file', maker', told')
      BY <3>1, <3>2, CallLasts
    <3> QED
      BY <3>1, <3>3
  <2> QED
    BY <2>1, <2>2
<1> QED
  BY <1>1 DEF DeedsSound

\* The same for a step that touches no manifest.
LEMMA QuietStep ==
  ASSUME IInv, NEW t \in Calls, NEW q, Becomes(t, q), UNCHANGED <<registered, file, maker, told>>,
         CallSound(q, registered, file, maker, told)
  PROVE  DeedsSound'
<1>1. \A s \in Slugs : FileSound(s, registered, file, maker, told)
  BY DEF IInv, DeedsSound
<1> QED
  BY <1>1, HandlerStep

\* What the portal and the operator ask for is sound: in particular the publish
\* route's check finds a customer that may have made the site, and nobody else.
LEMMA AskSound ==
  ASSUME IInv, NEW t \in Calls,
         SomebodyAsks(t)
  PROVE  DeedsSound'
<1>1. PICK op \in Op, s \in Slugs \cup {NoSlug}, id \in Owner :
        /\ Ask(t, op, s, id)
        /\ op # "none"
        /\ op # "reassign" => s \in Slugs
        /\ id = NoOwner \/ \E c \in Customers :
             id = Guest(c) \/ (c \in registered /\ id = Account(c))
        /\ op = "claim" => id # NoOwner
        /\ op = "reassign" => id.kind = "account"
        /\ op = "publish" /\ id # NoOwner =>
             \E c \in Customers : id = Identity(c) /\ SiteOwnedBy(file[s], id)
  BY AskShape DEF IInv, Typed
<1> DEFINE q == [Idle EXCEPT !.op = op, !.pc = "asked", !.slug = s, !.who = id]
<1>2. ValidOwner(id, registered)
  BY <1>1 DEF ValidOwner, Guest, Account
<1>3. op = "publish" /\ id # NoOwner =>
        s \in Slugs /\ file[s].st # "absent" /\ maker[s] \in {Nobody, id.of}
  <2> SUFFICES ASSUME op = "publish", id # NoOwner
               PROVE s \in Slugs /\ file[s].st # "absent" /\ maker[s] \in {Nobody, id.of}
    OBVIOUS
  <2>1. PICK c \in Customers : id = Identity(c) /\ SiteOwnedBy(file[s], id)
    BY <1>1
  <2>2. s \in Slugs /\ FileSound(s, registered, file, maker, told)
    BY <1>1 DEF IInv, DeedsSound
  <2>3. file[s].owner.of = c /\ id.of = c /\ file[s].st = "ok"
    BY <2>1 DEF SiteOwnedBy, Identity, Guest, Account
  <2> QED
    BY <2>2, <2>3 DEF FileSound, Deed
<1>4. CallSound(q, registered, file, maker, told)
  <2>1. /\ q.op = op /\ q.pc = "asked" /\ q.slug = s /\ q.who = id
        /\ q.copy = Absent /\ q.seen = {} /\ q.saves = 0
    BY DEF Idle
  <2> HIDE DEF q
  <2>2. CopySound(q, registered, file, maker, told) /\ PointSound(q)
    BY <2>1, <1>1 DEF CopySound, PointSound, Absent
  <2>3. ErrandSound(q, registered, file, maker, told)
    BY <2>1, <1>1, <1>2, <1>3 DEF ErrandSound
  <2> QED
    BY <2>2, <2>3 DEF CallSound
<1>5. Becomes(t, q) /\ UNCHANGED <<registered, file, maker, told>>
  BY <1>1 DEF Ask, siteVars
<1> HIDE DEF q
<1> QED
  BY <1>4, <1>5, QuietStep

\* Generate takes a free folder for its customer, or one that is unowned or
\* already the customer's.
LEMMA GenerateSound == ASSUME IInv, NEW t \in Calls, GenerateSite(t) PROVE DeedsSound'
<1> DEFINE r == call[t]
<1>1. r \in Call /\ WellAsked(r) /\ r.op = "generate" /\ r.pc = "asked"
      /\ CallSound(r, registered, file, maker, told)
  BY DEF GenerateSite, At, IInv, Typed, TypeOK, DeedsSound
<1>2. r.slug \in Slugs
  BY <1>1 DEF WellAsked
<1>3. PICK replace \in ReplaceFlags : \E d \in Allocate(r.slug, r.who, replace) :
        /\ file' = IF file[d].st = "absent" THEN [file EXCEPT ![d] = Torn] ELSE file
        /\ maker' = IF file[d].st = "absent" THEN [maker EXCEPT ![d] = r.who.of] ELSE maker
        /\ Becomes(t, [r EXCEPT !.pc = "save", !.slug = d, !.saves = 3,
                                !.copy = Manifest(r.who, FALSE)])
  BY DEF GenerateSite
<1>4. PICK d \in Slugs :
        /\ file[d].st = "absent" \/ (file[d].st = "ok" /\ file[d].owner \in {NoOwner, r.who})
        /\ file' = IF file[d].st = "absent" THEN [file EXCEPT ![d] = Torn] ELSE file
        /\ maker' = IF file[d].st = "absent" THEN [maker EXCEPT ![d] = r.who.of] ELSE maker
        /\ Becomes(t, [r EXCEPT !.pc = "save", !.slug = d, !.saves = 3,
                                !.copy = Manifest(r.who, FALSE)])
  BY <1>2, <1>3 DEF Allocate, MayReplace, Readable
<1> DEFINE q == [r EXCEPT !.pc = "save", !.slug = d, !.saves = 3, !.copy = Manifest(r.who, FALSE)]
<1>5. /\ q.op = "generate" /\ q.pc = "save" /\ q.slug = d /\ q.saves = 3
      /\ q.copy = Manifest(r.who, FALSE) /\ q.who = r.who
  BY <1>1 DEF Call
<1>6. file \in [Slugs -> File] /\ maker \in [Slugs -> Customers \cup {Nobody}]
      /\ FileSound(d, registered, file, maker, told)
  BY DEF IInv, Typed, TypeOK, DeedsSound
<1>7. maker'[d] # Nobody => r.who.of = maker'[d]
  BY <1>4, <1>6 DEF FileSound, Deed, NoOwner
<1>8. Becomes(t, q)
  BY <1>4
<1> HIDE DEF q
<1>9. CallSound(q, registered, file', maker', told')
  <2>1. file'[d].st # "absent"
    BY <1>4, <1>6 DEF Torn
  <2>2. ValidOwner(r.who, registered)
    BY <1>1 DEF CallSound, ErrandSound
  <2>3. q.copy.owner = r.who /\ q.copy.st = "ok"
    BY <1>5 DEF Manifest
  <2>4. CopySound(q, registered, file', maker', told')
    BY <1>5, <1>7, <2>1, <2>2, <2>3 DEF CopySound, Deed, Granting
  <2> QED
    BY <1>5, <2>2, <2>3, <2>4 DEF CallSound, PointSound, ErrandSound
<1>10. ASSUME NEW s \in Slugs PROVE FileSound(s, registered, file', maker', told')
  <2>1. CASE s = d /\ file[d].st = "absent"
    BY <1>4, <1>6, <2>1 DEF FileSound, Torn
  <2>2. CASE s # d \/ file[d].st # "absent"
    <3>1. file'[s] = file[s] /\ maker'[s] = maker[s] /\ told' = told
      BY <1>4, <1>6, <2>2 DEF GenerateSite
    <3> QED
      BY <3>1 DEF IInv, DeedsSound, FileSound, Deed
  <2> QED
    BY <2>1, <2>2
<1>11. ASSUME NEW s \in Slugs
       PROVE  /\ file[s].st # "absent" => file'[s].st # "absent" /\ maker'[s] = maker[s]
              /\ told[s] \subseteq told'[s]
  BY <1>4, <1>6 DEF Torn, GenerateSite
<1> QED
  BY <1>8, <1>9, <1>10, <1>11, HandlerStep DEF GenerateSite

\* A claim takes an unowned site, which therefore nobody's Generate made.
LEMMA ClaimSound == ASSUME IInv, NEW t \in Calls, ClaimSite(t) PROVE DeedsSound'
<1> DEFINE r == call[t]
           m == file[r.slug]
           q == [r EXCEPT !.pc = "save", !.saves = 1, !.copy = [m EXCEPT !.owner = r.who]]
<1>1. r \in Call /\ WellAsked(r) /\ r.op = "claim" /\ r.pc = "asked"
      /\ CallSound(r, registered, file, maker, told)
  BY DEF ClaimSite, At, IInv, Typed, TypeOK, DeedsSound
<1>2. r.slug \in Slugs
  BY <1>1 DEF WellAsked
<1>3. UNCHANGED <<registered, file, maker, told>>
  BY DEF ClaimSite, siteVars
<1>4. CASE m.st = "ok" /\ m.owner = NoOwner
  <2>1. m \in File /\ FileSound(r.slug, registered, file, maker, told)
        /\ maker[r.slug] \in Customers \cup {Nobody}
    BY <1>2 DEF IInv, Typed, TypeOK, DeedsSound
  <2>2. maker[r.slug] = Nobody
    BY <1>4, <2>1, StarterAssumption DEF FileSound, Deed, NoOwner
  <2>3. /\ q.op = "claim" /\ q.pc = "save" /\ q.slug = r.slug /\ q.who = r.who
        /\ q.copy.st = "ok" /\ q.copy.owner = r.who
    BY <1>1, <1>4, <2>1 DEF Call, File
  <2>4. Becomes(t, q)
    BY <1>4 DEF ClaimSite
  <2> HIDE DEF q
  <2>5. ValidOwner(r.who, registered)
    BY <1>1 DEF CallSound, ErrandSound
  <2>6. CallSound(q, registered, file, maker, told)
    BY <1>2, <1>4, <2>2, <2>3, <2>5
    DEF CallSound, CopySound, PointSound, ErrandSound, Deed, Granting
  <2> QED
    BY <1>3, <2>4, <2>6, QuietStep
<1>5. CASE ~ (m.st = "ok" /\ m.owner = NoOwner)
  <2>1. Becomes(t, Idle)
    BY <1>5 DEF ClaimSite
  <2> QED
    BY <1>3, <2>1, IdleSound, QuietStep
<1> QED
  BY <1>4, <1>5

\* Reassign lists what the guest of the account was told of, and stamps no more.
LEMMA ReassignSound ==
  ASSUME IInv, NEW t \in Calls, ListGuestSites(t) \/ ReassignNext(t) PROVE DeedsSound'
<1> DEFINE r == call[t]
<1>1. r \in Call /\ r.op = "reassign" /\ CallSound(r, registered, file, maker, told)
      /\ (r.who = NoOwner \/ r.who.of \in Customers)
  BY DEF ListGuestSites, ReassignNext, At, IInv, Typed, TypeOK, DeedsSound, WellAsked
<1>2. UNCHANGED <<registered, file, maker, told>>
  BY DEF ListGuestSites, ReassignNext, siteVars
<1>3. r.who.of \in Customers /\ ValidOwner(r.who, registered) /\ r.who # NoOwner
  BY <1>1 DEF CallSound, ErrandSound, NoOwner
<1>4. CASE ListGuestSites(t)
  <2> DEFINE q == [r EXCEPT !.pc = "next", !.seen = GuestSites(r.who.of)]
  <2>1. /\ q.op = "reassign" /\ q.pc = "next" /\ q.slug = r.slug /\ q.who = r.who
        /\ q.copy = r.copy /\ q.saves = r.saves /\ q.seen = GuestSites(r.who.of)
    BY <1>1 DEF Call
  <2>2. Becomes(t, q)
    BY <1>4 DEF ListGuestSites
  <2> HIDE DEF q
  <2>3. ASSUME NEW s \in GuestSites(r.who.of)
        PROVE  /\ file[s].st # "absent"
               /\ r.who.of \in told[s]
               /\ maker[s] \in {Nobody, r.who.of}
    <3>1. s \in Slugs /\ file[s].st = "ok" /\ file[s].owner = Guest(r.who.of)
      BY DEF GuestSites, Readable
    <3>2. FileSound(s, registered, file, maker, told)
      BY <3>1 DEF IInv, DeedsSound
    <3> QED
      BY <3>1, <3>2 DEF FileSound, Deed, Guest, NoOwner
  <2>4. CallSound(q, registered, file, maker, told)
    BY <1>1, <2>1, <2>3 DEF CallSound, CopySound, PointSound, ErrandSound, Granting
  <2> QED
    BY <1>2, <2>2, <2>4, QuietStep
<1>5. CASE ReassignNext(t)
  <2>1. CASE Becomes(t, Idle)
    BY <1>2, <2>1, IdleSound, QuietStep
  <2>2. CASE ~ Becomes(t, Idle)
    <3>1. PICK s \in r.seen :
            /\ Readable(s)
            /\ Becomes(t, [r EXCEPT !.pc = "save", !.slug = s, !.saves = 1, !.seen = @ \ {s},
                                    !.copy = Manifest(r.who, file[s].gaas)])
      BY <1>5, <2>2 DEF ReassignNext
    <3> DEFINE q == [r EXCEPT !.pc = "save", !.slug = s, !.saves = 1, !.seen = @ \ {s},
                              !.copy = Manifest(r.who, file[s].gaas)]
    <3>2. /\ q.op = "reassign" /\ q.pc = "save" /\ q.slug = s /\ q.who = r.who
          /\ q.seen = r.seen \ {s} /\ q.copy.st = "ok" /\ q.copy.owner = r.who
      BY <1>1 DEF Call, Manifest
    <3>3. Becomes(t, q)
      BY <3>1
    <3> HIDE DEF q
    <3>4. s \in Slugs
      BY <1>1 DEF Call
    <3>5. CallSound(q, registered, file, maker, told)
      BY <1>1, <1>3, <3>1, <3>2, <3>4
      DEF CallSound, CopySound, PointSound, ErrandSound, Deed, Granting, Readable
    <3> QED
      BY <1>2, <3>3, <3>5, QuietStep
  <2> QED
    BY <2>1, <2>2
<1> QED
  BY <1>4, <1>5

\* The copy a thread takes is as sound as the file it is read from.
LEMMA ReadSound ==
  ASSUME IInv, NEW t \in Calls, ReadToDeploy(t) \/ ReadToUpsell(t) PROVE DeedsSound'
<1> DEFINE r == call[t]
           m == file[r.slug]
<1>1. r \in Call /\ r.pc = "asked" /\ r.op \in {"publish", "detail", "enable", "disable"}
      /\ CallSound(r, registered, file, maker, told) /\ WellAsked(r)
  BY DEF ReadToDeploy, ReadToUpsell, IInv, Typed, TypeOK, DeedsSound
<1>2. r.slug \in Slugs
  BY <1>1 DEF WellAsked
<1>3. UNCHANGED <<registered, file, maker, told>>
  BY DEF ReadToDeploy, ReadToUpsell, siteVars
<1>4. m \in File /\ FileSound(r.slug, registered, file, maker, told)
  BY <1>2 DEF IInv, Typed, TypeOK, DeedsSound
<1>5. ASSUME NEW q, m.st = "ok", Becomes(t, q),
             q.op = r.op, q.slug = r.slug, q.who = r.who,
             q.copy.st = "ok", q.copy.owner = m.owner,
             q.pc \in {"vercel", "save"} \/ (q.pc = "list" /\ r.op = "detail")
      PROVE  DeedsSound'
  <2>1. CopySound(q, registered, file, maker, told)
    BY <1>2, <1>4, <1>5 DEF CopySound, FileSound, Deed
  <2>2. PointSound(q) /\ ErrandSound(q, registered, file, maker, told)
    BY <1>1, <1>5 DEF CallSound, PointSound, ErrandSound
  <2> QED
    BY <1>3, <1>5, <2>1, <2>2, QuietStep DEF CallSound
<1>6. CASE Becomes(t, Idle)
  BY <1>3, <1>6, IdleSound, QuietStep
<1>7. CASE ReadToDeploy(t) /\ ~ Becomes(t, Idle)
  <2> DEFINE q == [r EXCEPT !.pc = IF r.op = "publish" THEN "vercel" ELSE "list",
                            !.saves = IF r.op = "publish" THEN 1 ELSE 2, !.copy = m]
  <2>1. m.st = "ok" /\ Becomes(t, q)
    BY <1>7 DEF ReadToDeploy, Readable
  <2>2. q.op = r.op /\ q.slug = r.slug /\ q.who = r.who /\ q.copy = m
        /\ (q.pc = "vercel" \/ (q.pc = "list" /\ r.op = "detail"))
    BY <1>1, <1>7 DEF ReadToDeploy, Call
  <2> HIDE DEF q
  <2> QED
    BY <1>5, <2>1, <2>2
<1>8. CASE ReadToUpsell(t) /\ ~ Becomes(t, Idle)
  <2> DEFINE q == [r EXCEPT !.pc = "save", !.saves = 1,
                            !.copy = [m EXCEPT !.gaas = (r.op = "enable")]]
  <2>1. m.st = "ok" /\ Becomes(t, q)
    BY <1>8 DEF ReadToUpsell
  <2>2. q.op = r.op /\ q.slug = r.slug /\ q.who = r.who /\ q.pc = "save"
        /\ q.copy.st = m.st /\ q.copy.owner = m.owner
    BY <1>1, <1>4 DEF Call, File
  <2> HIDE DEF q
  <2> QED
    BY <1>5, <2>1, <2>2
<1> QED
  BY <1>6, <1>7, <1>8

\* Steps that move a handler on without touching a manifest or its copy.
LEMMA MoveSound ==
  ASSUME IInv, NEW t \in Calls,
         \/ VercelAnswers(t) \/ ListHosts(t) \/ WriteHostMap(t) \/ CountRemaining(t)
         \/ ResetHostMap(t) \/ ListRouting(t) \/ WriteRouting(t)
  PROVE  DeedsSound'
<1> DEFINE r == call[t]
<1>1. r \in Call /\ CallSound(r, registered, file, maker, told)
  BY DEF IInv, Typed, TypeOK, DeedsSound
<1>2. UNCHANGED <<registered, file, maker, told>>
  BY DEF VercelAnswers, ListHosts, WriteHostMap, CountRemaining, ResetHostMap,
         ListRouting, WriteRouting, siteVars
<1>3. CASE Becomes(t, Idle)
  BY <1>2, <1>3, IdleSound, QuietStep
<1>4. ASSUME NEW p, NEW e,
             \/ r.pc \in {"hosts", "map", "remaining", "reset"}
                  /\ p \in {"hosts", "map", "reset", "list"}
             \/ r.pc \in {"list", "route"} /\ p = "route"
             \/ r.pc \in {"list", "route"} /\ p = "vercel" /\ r.op \in {"generate", "detail"},
             Becomes(t, [r EXCEPT !.pc = p, !.seen = e])
      PROVE  DeedsSound'
  <2> DEFINE q == [r EXCEPT !.pc = p, !.seen = e]
  <2>1. /\ q.op = r.op /\ q.pc = p /\ q.slug = r.slug /\ q.who = r.who
        /\ q.copy = r.copy /\ q.saves = r.saves /\ q.seen = e
    BY <1>1 DEF Call
  <2>2. Becomes(t, q)
    BY <1>4
  <2> HIDE DEF q
  <2>3. CopySound(q, registered, file, maker, told)
    BY <1>1, <2>1 DEF CallSound, CopySound, Granting
  <2>4. PointSound(q) /\ ErrandSound(q, registered, file, maker, told)
    BY <1>1, <1>4, <2>1 DEF CallSound, PointSound, ErrandSound
  <2> QED
    BY <1>2, <2>2, <2>3, <2>4, QuietStep DEF CallSound
<1>5. ASSUME NEW p PROVE [r EXCEPT !.pc = p] = [r EXCEPT !.pc = p, !.seen = r.seen]
  BY <1>1 DEF Call
<1>6. CASE VercelAnswers(t) /\ ~ Becomes(t, Idle)
  <2>1. PICK n \in 0 .. r.saves :
          r.pc = "vercel" /\ Becomes(t, [r EXCEPT !.pc = "save", !.saves = n])
    BY <1>6 DEF VercelAnswers
  <2> DEFINE q == [r EXCEPT !.pc = "save", !.saves = n]
  <2>2. /\ q.op = r.op /\ q.pc = "save" /\ q.slug = r.slug /\ q.who = r.who
        /\ q.copy = r.copy /\ q.saves = n /\ q.seen = r.seen
    BY <1>1, Zenon DEF Call
  <2>3. r.op = "generate" => r.saves # 3 /\ n # 3
    BY <1>1, <2>1 DEF CallSound, PointSound, Call
  <2> HIDE DEF q
  <2>4. CopySound(q, registered, file, maker, told)
    BY <1>1, <2>2, <2>3 DEF CallSound, CopySound, Granting
  <2>5. PointSound(q) /\ ErrandSound(q, registered, file, maker, told)
    BY <1>1, <2>1, <2>2, <2>3 DEF CallSound, PointSound, ErrandSound
  <2>6. Becomes(t, q)
    BY <2>1 DEF q
  <2> QED
    BY <1>2, <2>4, <2>5, <2>6, QuietStep DEF CallSound
<1>7. CASE ListHosts(t)
  BY <1>4, <1>7 DEF ListHosts
<1>8. CASE WriteHostMap(t)
  BY <1>4, <1>8 DEF WriteHostMap
<1>9. CASE CountRemaining(t)
  <2>1. PICK p \in {"reset", "hosts"} : r.pc = "remaining" /\ Becomes(t, [r EXCEPT !.pc = p])
    BY <1>9 DEF CountRemaining
  <2> QED
    BY <1>4, <1>5, <2>1
<1>10. CASE ResetHostMap(t)
  <2>1. r.pc = "reset" /\ Becomes(t, [r EXCEPT !.pc = "list"])
    BY <1>10 DEF ResetHostMap
  <2> QED
    BY <1>4, <1>5, <2>1
<1>11. CASE ListRouting(t)
  BY <1>4, <1>11 DEF ListRouting
<1>12. CASE WriteRouting(t) /\ ~ Becomes(t, Idle)
  BY <1>4, <1>12 DEF WriteRouting
<1> QED
  BY <1>3, <1>6, <1>7, <1>8, <1>9, <1>10, <1>11, <1>12

\* Truncating a manifest settles nothing and unsettles nothing.
LEMMA TruncateSound == ASSUME IInv, NEW t \in Calls, SaveBegins(t) PROVE DeedsSound'
<1> DEFINE r == call[t]
           q == [r EXCEPT !.pc = "torn"]
<1>1. r \in Call /\ CallSound(r, registered, file, maker, told) /\ r.pc = "save"
  BY DEF SaveBegins, IInv, Typed, TypeOK, DeedsSound
<1>2. r.copy.st = "ok" /\ r.slug \in Slugs /\ file[r.slug].st # "absent"
  BY <1>1 DEF CallSound, PointSound, CopySound
<1>3. file \in [Slugs -> File] /\ file' = [file EXCEPT ![r.slug] = Torn]
      /\ UNCHANGED <<registered, maker, told>> /\ Becomes(t, q)
  BY DEF SaveBegins, IInv, Typed, TypeOK
<1>4. \A s \in Slugs : file[s].st # "absent" => file'[s].st # "absent"
  BY <1>2, <1>3 DEF Torn
<1>5. \A s \in Slugs : file'[s] = file[s] \/ (file'[s].st = "torn" /\ file[s].st # "absent")
  BY <1>2, <1>3 DEF Torn
<1>6. \A s \in Slugs : FileSound(s, registered, file', maker', told')
  BY <1>3, <1>5 DEF IInv, DeedsSound, FileSound, Deed
<1>7. CallSound(q, registered, file, maker, told)
  <2>1. /\ q.op = r.op /\ q.pc = "torn" /\ q.slug = r.slug /\ q.who = r.who
        /\ q.copy = r.copy /\ q.saves = r.saves /\ q.seen = r.seen
    BY <1>1 DEF Call
  <2> HIDE DEF q
  <2> QED
    BY <1>1, <1>2, <2>1 DEF CallSound, CopySound, PointSound, ErrandSound, Granting
<1>8. q \in Call
  BY <1>1, Ranges, Zenon DEF Call
<1> HIDE DEF q
<1>9. CallSound(q, registered, file', maker', told')
  BY <1>3, <1>4, <1>7, <1>8, CallLasts
<1> QED
  BY <1>3, <1>4, <1>6, <1>9, HandlerStep

\* Writing a copy gives the site to the owner the copy names, and that owner has
\* been told, at the latest by this very save.
LEMMA WriteSound == ASSUME IInv, NEW t \in Calls, SaveEnds(t) PROVE DeedsSound'
<1> DEFINE r == call[t]
<1>1. r \in Call /\ CallSound(r, registered, file, maker, told) /\ r.pc = "torn"
  BY DEF SaveEnds, IInv, Typed, TypeOK, DeedsSound
<1>2. r.copy.st = "ok" /\ r.slug \in Slugs /\ file[r.slug].st # "absent"
      /\ Deed(r.copy, r.slug, registered, maker)
  BY <1>1 DEF CallSound, PointSound, CopySound
<1>3. PICK m \in {r.copy, Torn} : file' = [file EXCEPT ![r.slug] = m]
  BY DEF SaveEnds
<1>4. told' = IF Granting(r) THEN [told EXCEPT ![r.slug] = @ \cup {r.who.of}] ELSE told
  BY DEF SaveEnds
<1>5. file \in [Slugs -> File] /\ told \in [Slugs -> SUBSET Customers]
      /\ UNCHANGED <<registered, maker>> /\ Becomes(t, Saved(r))
  BY DEF SaveEnds, IInv, Typed, TypeOK
<1>6. \A s \in Slugs : told[s] \subseteq told'[s]
  BY <1>4, <1>5
<1>7. file'[r.slug] = m /\ \A s \in Slugs : s # r.slug => file'[s] = file[s]
  BY <1>2, <1>3, <1>5
<1>8. r.copy.owner # NoOwner => r.copy.owner.of \in told'[r.slug]
  BY <1>1, <1>2, <1>4, <1>5 DEF CallSound, CopySound
<1>9. ASSUME NEW s \in Slugs PROVE FileSound(s, registered, file', maker', told')
  <2>1. CASE s = r.slug
    BY <1>2, <1>5, <1>7, <1>8, <2>1 DEF FileSound, Torn, Deed
  <2>2. CASE s # r.slug
    BY <1>5, <1>6, <1>7, <2>2 DEF IInv, DeedsSound, FileSound, Deed
  <2> QED
    BY <2>1, <2>2
<1>10. \A s \in Slugs : file[s].st # "absent" => file'[s].st # "absent"
  BY <1>2, <1>7 DEF Torn
<1>11. CallSound(r, registered, file', maker', told')
  BY <1>1, <1>5, <1>6, <1>10, CallLasts
<1>12. CallSound(Saved(r), registered, file', maker', told')
  <2>1. CASE AfterSave(r) = "idle"
    BY <2>1 DEF Saved, CallSound, CopySound, PointSound, ErrandSound, ValidOwner, Idle,
                Absent, NoOwner
  <2> DEFINE n == IF r.saves > 1 THEN r.saves - 1 ELSE 0
             k == IF r.saves > 1 THEN r.copy ELSE Absent
             q == Saved(r)
  <2>2. CASE AfterSave(r) # "idle"
    <3>1. /\ q.op = r.op /\ q.pc = AfterSave(r) /\ q.slug = r.slug /\ q.who = r.who
          /\ q.copy = k /\ q.saves = n /\ q.seen = r.seen
      BY <1>1, <2>2 DEF Saved, Call
    <3> HIDE DEF q
    <3>2. CopySound(q, registered, file', maker', told')
      BY <1>8, <1>11, <3>1 DEF CallSound, CopySound, Absent
    <3>3. PointSound(q)
      BY <1>1, <1>2, <2>2, <3>1 DEF CallSound, PointSound, AfterSave, Absent, Call
    <3>4. ErrandSound(q, registered, file', maker', told')
      BY <1>11, <3>1 DEF CallSound, ErrandSound
    <3>5. CallSound(q, registered, file', maker', told')
      BY <3>2, <3>3, <3>4 DEF CallSound
    <3> QED
      BY <3>5 DEF q
  <2> QED
    BY <2>1, <2>2
<1> QED
  BY <1>5, <1>6, <1>9, <1>10, <1>12, HandlerStep

\* Every manifest, on disk and in memory, stays sound.
LEMMA Invariance == Spec => []IInv
<1>1. Init => IInv
  <2> SUFFICES ASSUME Init PROVE DeedsSound
    BY InitTyped DEF IInv
  <2>1. \A s \in Slugs : FileSound(s, registered, file, maker, told)
    BY DEF Init, FileSound, Absent
  <2>2. \A t \in Calls : call[t] = Idle
    BY DEF Init
  <2> QED
    BY <2>1, <2>2, IdleSound DEF DeedsSound
<1>2. IInv /\ [Next]_vars => IInv'
  <2> SUFFICES ASSUME IInv, [Next]_vars PROVE DeedsSound'
    BY StepTyped DEF IInv
  <2>1. CASE UNCHANGED vars
    BY <2>1 DEF IInv, DeedsSound, vars
  <2>2. ASSUME NEW c \in Customers, Register(c) PROVE DeedsSound'
    <3>1. /\ registered \subseteq registered'
          /\ UNCHANGED <<file, maker, told, call>>
      BY <2>2 DEF Register, siteVars
    <3>2. \A s \in Slugs : FileSound(s, registered', file, maker, told)
      BY <3>1 DEF IInv, DeedsSound, FileSound, Deed, ValidOwner
    <3>3. ASSUME NEW t \in Calls PROVE CallSound(call[t], registered', file, maker, told)
      <4>1. call[t] \in Call /\ CallSound(call[t], registered, file, maker, told)
        BY DEF IInv, Typed, TypeOK, DeedsSound
      <4> QED
        BY <3>1, <4>1, CallLasts
    <3> QED
      BY <3>1, <3>2, <3>3 DEF DeedsSound
  <2>3. CASE WizardDies
    <3>1. UNCHANGED <<registered, file, maker, told>> /\ call' = [t \in Calls |-> Idle]
      BY <2>3 DEF WizardDies, siteVars
    <3>2. \A s \in Slugs : FileSound(s, registered, file, maker, told)
      BY DEF IInv, DeedsSound
    <3> QED
      BY <3>1, <3>2, IdleSound DEF DeedsSound
  <2>4. ASSUME NEW t \in Calls,
               SomebodyAsks(t)
        PROVE  DeedsSound'
    BY <2>4, AskSound
  <2>5. ASSUME NEW t \in Calls, Enter(t) PROVE DeedsSound'
    <3>1. CASE GenerateRejected(t)
      BY <3>1, IdleSound, QuietStep DEF GenerateRejected, siteVars
    <3> QED
      BY <2>5, <3>1, GenerateSound, ClaimSound, ReassignSound DEF Enter
  <2>6. ASSUME NEW t \in Calls, Work(t) PROVE DeedsSound'
    BY <2>6, ReassignSound, ReadSound, MoveSound, TruncateSound, WriteSound DEF Work
  <2> QED
    BY <2>1, <2>2, <2>3, <2>4, <2>5, <2>6 DEF Next
<1> QED
  BY <1>1, <1>2, PTL DEF Spec

-----------------------------------------------------------------------------
\* What the invariant gives

\* A customer keeps the sites its Generate made, however calls and deaths interleave:
\* the manifest names its guest or its account, and a session that is still a
\* guest's cannot meet the account's stamp.
THEOREM MakersKeepSites == Spec => []MakerKeepsSite
<1>1. IInv => MakerKeepsSite
  <2> SUFFICES ASSUME IInv, NEW s \in Slugs, maker[s] # Nobody, Readable(s)
               PROVE  SiteOwnedBy(file[s], Identity(maker[s]))
    BY DEF MakerKeepsSite
  <2>1. file[s] \in File /\ maker[s] \in Customers /\ Deed(file[s], s, registered, maker)
    BY DEF IInv, Typed, TypeOK, DeedsSound, FileSound, Readable
  <2>2. file[s].owner \in Owner /\ file[s].owner.of = maker[s] /\ file[s].owner # NoOwner
    BY <2>1, StarterAssumption DEF Deed, File, NoOwner
  <2>3. file[s].owner = Guest(maker[s])
        \/ (file[s].owner = Account(maker[s]) /\ maker[s] \in registered)
    BY <2>1, <2>2 DEF Deed, ValidOwner, Owner, Guest, Account
  <2> QED
    BY <2>2, <2>3 DEF SiteOwnedBy, Identity, Readable, Guest, Account
<1> QED
  BY <1>1, Invariance, PTL

\* No manifest names a customer whom the wizard did not tell that the site is its own.
THEOREM OwnersWereTold == Spec => []OnlyGranted
<1>1. IInv => OnlyGranted
  BY DEF IInv, DeedsSound, FileSound, OnlyGranted, Readable
<1> QED
  BY <1>1, Invariance, PTL

\* The publish route's check still holds of the maker when the wizard publishes.
THEOREM PublishersAreOwners == Spec => []PublishIsOwners
<1>1. IInv => PublishIsOwners
  BY DEF IInv, DeedsSound, CallSound, ErrandSound, PublishIsOwners
<1> QED
  BY <1>1, Invariance, PTL

-----------------------------------------------------------------------------
\* The routing files

\* A step of the history is a step of the wizard.
LEMMA RoutingIsSpec == RoutingSpec => Spec
<1>1. RoutingInit => Init
  BY DEF RoutingInit
<1>2. [RoutingNext]_routingVars => [Next]_vars
  BY DEF RoutingNext, Next, routingVars
<1> QED
  BY <1>1, <1>2, PTL DEF RoutingSpec, Spec

\* What an upsell knows while nobody writes into it: its listing is still true,
\* no upsell is left when it resets the host map, and the host map is right once
\* it turns to Caddy.
Tail(r) ==
  /\ r.op \in {"enable", "disable"} /\ r.pc \in AfterUpsell
  /\ r.pc \in {"map", "route"} => r.seen = Active
  /\ r.pc = "reset" => Active = {}
  /\ r.pc \in {"list", "route"} => hosts = Active

Right == hosts = Active /\ routed = Active
TailsRight == alone \subseteq Calls /\ (\A t \in alone : Tail(call[t])) /\ (mended => Right)

\* Whoever is in its tail stays right when neither its record nor the routing changes.
LEMMA TailLasts ==
  ASSUME TailsRight, NEW v \in alone, call'[v] = call[v], UNCHANGED routing
  PROVE  Tail(call[v])'
  BY DEF TailsRight, Tail, routing

\* The upsell's own steps: from its save to its end.
LEMMA TailStep ==
  ASSUME IInv, TailsRight, NEW t \in Calls, Work(t),
         t \in alone \/ call[t].pc = "torn",
         call'[t].op \in {"enable", "disable"}, call'[t].pc \in AfterUpsell
  PROVE  Tail(call[t])'
<1> DEFINE r == call[t]
<1>1. r \in Call /\ call \in [Calls -> Call] /\ file \in [Slugs -> File]
  BY DEF IInv, Typed, TypeOK
<1>2. UNCHANGED file => Active' = Active
  BY DEF Active, Readable
<1>3. t \in alone => Tail(r)
  BY DEF TailsRight
<1>4. CASE SaveEnds(t)
  <2>1. call'[t] = Saved(r) /\ r.pc = "torn"
    BY <1>1, <1>4 DEF SaveEnds, Becomes
  <2>2. call'[t].op = r.op /\ call'[t].pc = AfterSave(r)
    BY <1>1, <2>1 DEF Saved, Idle, Call
  <2>3. AfterSave(r) \in {"hosts", "remaining"}
    BY <2>2 DEF AfterSave
  <2> QED
    BY <2>2, <2>3 DEF Tail
<1>5. CASE ~ SaveEnds(t)
  <2>1. Tail(r)
    BY <1>3, <1>5 DEF Work, ReassignNext, ReadToDeploy, ReadToUpsell, VercelAnswers,
                      SaveBegins, ListHosts, WriteHostMap, CountRemaining, ResetHostMap,
                      ListRouting, WriteRouting, At
  <2>2. \/ ListHosts(t) \/ WriteHostMap(t) \/ CountRemaining(t) \/ ResetHostMap(t)
        \/ ListRouting(t) \/ WriteRouting(t)
    BY <1>5, <2>1 DEF Tail, AfterUpsell, Work, ReassignNext, ReadToDeploy, ReadToUpsell,
                      VercelAnswers, SaveBegins, At
  <2>3. UNCHANGED file /\ Active' = Active
    BY <1>2, <2>2 DEF ListHosts, WriteHostMap, CountRemaining, ResetHostMap, ListRouting,
                      WriteRouting, siteVars
  <2>4. CASE ListHosts(t)
    <3>1. call'[t].pc = "map" /\ call'[t].seen = Active
      BY <1>1, <2>4 DEF ListHosts, Becomes, Call
    <3> QED
      BY <2>3, <3>1 DEF Tail
  <2>5. CASE WriteHostMap(t)
    <3>1. call'[t].pc = "list" /\ hosts' = Active
      BY <1>1, <2>1, <2>5 DEF WriteHostMap, Becomes, Call, Tail
    <3> QED
      BY <2>3, <3>1 DEF Tail
  <2>6. CASE CountRemaining(t)
    <3>1. call'[t].pc = IF Active = {} THEN "reset" ELSE "hosts"
      BY <1>1, <2>6 DEF CountRemaining, Becomes, Call
    <3> QED
      BY <2>3, <3>1 DEF Tail
  <2>7. CASE ResetHostMap(t)
    <3>1. call'[t].pc = "list" /\ hosts' = Active
      BY <1>1, <2>1, <2>7 DEF ResetHostMap, Becomes, Call, Tail
    <3> QED
      BY <2>3, <3>1 DEF Tail
  <2>8. CASE ListRouting(t)
    <3>1. call'[t].pc = "route" /\ call'[t].seen = Active /\ hosts' = Active
      BY <1>1, <2>1, <2>8 DEF ListRouting, Becomes, Call, Tail, siteVars
    <3> QED
      BY <2>3, <3>1 DEF Tail
  <2>9. CASE WriteRouting(t)
    <3>1. call'[t] = Idle
      BY <1>1, <2>1, <2>9 DEF WriteRouting, Becomes, Tail
    <3> QED
      BY <3>1 DEF Idle, AfterUpsell
  <2> QED
    BY <2>2, <2>4, <2>5, <2>6, <2>7, <2>8, <2>9
<1> QED
  BY <1>4, <1>5

\* An upsell in its tail ends with its write for Caddy, and then both files are right.
LEMMA TailEnds ==
  ASSUME IInv, TailsRight, NEW t \in alone, SomebodyAsks(t) \/ Enter(t) \/ Work(t),
         call'[t].pc = "idle"
  PROVE  Right'
<1> DEFINE r == call[t]
<1>1. r \in Call /\ call \in [Calls -> Call] /\ Tail(r) /\ t \in Calls
  BY DEF IInv, Typed, TypeOK, TailsRight
<1>2. r.pc \in AfterUpsell
  BY <1>1 DEF Tail
<1>3. ~ SomebodyAsks(t) /\ ~ Enter(t)
  BY <1>2 DEF AfterUpsell, SomebodyAsks, AskGenerate, AskClaim, AskAttach, AskReassign,
              AskPublish, AskAsOperator, Ask, Enter, GenerateSite, GenerateRejected,
              ClaimSite, ListGuestSites, At
<1>4. \/ ListHosts(t) \/ WriteHostMap(t) \/ CountRemaining(t) \/ ResetHostMap(t)
      \/ ListRouting(t) \/ WriteRouting(t)
  BY <1>2, <1>3 DEF AfterUpsell, Work, ReassignNext, ReadToDeploy, ReadToUpsell,
                    VercelAnswers, SaveBegins, SaveEnds, At
<1>5. ~ ListHosts(t) /\ ~ WriteHostMap(t) /\ ~ CountRemaining(t) /\ ~ ResetHostMap(t)
      /\ ~ ListRouting(t)
  BY <1>1 DEF ListHosts, WriteHostMap, CountRemaining, ResetHostMap, ListRouting,
              Becomes, Call
<1>6. WriteRouting(t)
  BY <1>4, <1>5
<1>7. routed' = Active /\ hosts' = Active /\ file' = file
  BY <1>1, <1>6 DEF WriteRouting, Tail
<1>8. Active' = Active
  BY <1>7 DEF Active, Readable
<1> QED
  BY <1>7, <1>8 DEF Right

\* A step of one handler leaves the records of the others.
LEMMA OthersStay ==
  ASSUME IInv, NEW t \in Calls, SomebodyAsks(t) \/ Enter(t) \/ Work(t),
         NEW v \in Calls, v # t
  PROVE  call'[v] = call[v]
<1>1. call \in [Calls -> Call]
  BY DEF IInv, Typed, TypeOK
<1>2. \E r : Becomes(t, r)
  <2>1. CASE SomebodyAsks(t)
    BY <2>1 DEF SomebodyAsks, AskGenerate, AskClaim, AskAttach, AskReassign, AskPublish,
                AskAsOperator, Ask
  <2>2. CASE Enter(t)
    BY <2>2 DEF Enter, GenerateSite, GenerateRejected, ClaimSite, ListGuestSites
  <2>3. CASE Work(t)
    BY <2>3 DEF Work, ReassignNext, ReadToDeploy, ReadToUpsell, VercelAnswers, SaveBegins,
                SaveEnds, ListHosts, WriteHostMap, CountRemaining, ResetHostMap, ListRouting,
                WriteRouting
  <2> QED
    BY <2>1, <2>2, <2>3
<1> QED
  BY <1>1, <1>2 DEF Becomes

LEMMA TailsNext == IInv /\ TailsRight /\ [RoutingNext]_routingVars => TailsRight'
<1> SUFFICES ASSUME IInv, TailsRight, [RoutingNext]_routingVars PROVE TailsRight'
  OBVIOUS
<1>1. ASSUME UNCHANGED <<call, file, hosts, routed, alone, mended>> PROVE TailsRight'
  BY <1>1 DEF TailsRight, Tail, Right, Active, Readable
<1>2. CASE UNCHANGED routingVars \/ \E c \in Customers : Register(c) /\ UNCHANGED <<alone, mended>>
  BY <1>1, <1>2 DEF routingVars, vars, Register, siteVars
<1>3. CASE WizardDies /\ alone' = {} /\ UNCHANGED mended
  BY <1>3 DEF WizardDies, siteVars, TailsRight, Right, Active, Readable
<1>4. ASSUME NEW t \in Calls, SomebodyAsks(t) \/ Enter(t) \/ Work(t), Follow(t)
      PROVE  TailsRight'
  <2>1. ASSUME NEW v \in alone' PROVE Tail(call[v])'
    <3>1. /\ v \in Calls
          /\ call'[v].op \in {"enable", "disable"} /\ call'[v].pc \in AfterUpsell
          /\ IF v = t THEN v \in alone \/ call[v].pc = "torn"
                      ELSE v \in alone /\ UNCHANGED routing
      BY <1>4, <2>1 DEF Follow
    <3>2. CASE v = t
      <4>1. Work(t)
        BY <1>4, <3>1, <3>2 DEF SomebodyAsks, AskGenerate, AskClaim, AskAttach, AskReassign,
             AskPublish, AskAsOperator, Ask, Enter, GenerateSite, GenerateRejected,
             ClaimSite, ListGuestSites, At, TailsRight, Tail, AfterUpsell
      <4> QED
        BY <3>1, <3>2, <4>1, TailStep
    <3>3. CASE v # t
      BY <1>4, <3>1, <3>3, OthersStay, TailLasts
    <3> QED
      BY <3>2, <3>3
  <2>2. ASSUME mended' PROVE Right'
    <3>1. CASE t \in alone /\ call'[t].pc = "idle"
      BY <1>4, <3>1, TailEnds
    <3>2. CASE mended /\ UNCHANGED routing
      BY <3>2 DEF TailsRight, Right, routing
    <3> QED
      BY <1>4, <2>2, <3>1, <3>2 DEF Follow
  <2> QED
    BY <1>4, <2>1, <2>2 DEF TailsRight, Follow
<1> QED
  BY <1>2, <1>3, <1>4 DEF RoutingNext

\* An upsell into which nobody writes between its save and its end leaves the host
\* map and the Caddy aggregate naming exactly the active upsells, whatever they
\* named before, for any number of overlapping handlers, deaths, torn manifests and
\* replaced sites (enable_upsell and disable_upsell).
THEOREM UpsellMendsRouting == RoutingSpec => []RoutingMended
<1>1. RoutingInit => TailsRight
  <2>1. Init => hosts = {} /\ routed = {} /\ Active = {}
    BY DEF Init, Active, Readable, Absent
  <2> QED
    BY <2>1 DEF RoutingInit, TailsRight, Right
<1>2. TailsRight => RoutingMended
  BY DEF TailsRight, Right, RoutingMended
<1> QED
  BY <1>1, <1>2, TailsNext, RoutingIsSpec, Invariance, PTL DEF RoutingSpec
====
