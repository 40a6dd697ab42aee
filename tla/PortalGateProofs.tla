-------------------------- MODULE PortalGateProofs --------------------------
(***************************************************************************)
(* Proofs about PortalGate, for any number of tabs, session ids, moves and *)
(* losses: the cookie names a session the server knows, unless the answer  *)
(* that replaces it is on its way or was never received.                   *)
(*                                                                         *)
(* The invariant follows the ids.  One that was drawn is in the answer     *)
(* that brings it and nowhere else until that answer is heard: it is not   *)
(* the cookie, no request carries it, and so nothing can delete it before  *)
(* the browser has it.                                                     *)
(***************************************************************************)
EXTENDS PortalGate, TLAPS

\* Who carries which id.
Known ==
  /\ cookie # Nobody => sessions[cookie] # "unissued"
  /\ \A c \in calls : c.sid # Nobody => sessions[c.sid] # "unissued"

\* An id under way is live and still unused.
Unused(c) ==
  c.issued # Nobody =>
    /\ Live(c.issued)
    /\ c.issued # cookie
    /\ \A d \in calls : d.sid # c.issued

UnderWay == \A c \in calls : Unused(c)

\* One answer brings it.
OneBearer == \A c, d \in calls : c.issued # Nobody /\ c.issued = d.issued => c = d

\* A sign-in that went well brings an id, a request brings none.
AnswersBring ==
  \A c \in calls :
    /\ c.answer = "none" => c.issued = Nobody
    /\ c.kind \in {"login", "register"} /\ c.answer = "ok" => c.issued # Nobody

IInv == TypeOK /\ Known /\ UnderWay /\ OneBearer /\ AnswersBring /\ CookieIsLive

\* An answer that tells the browser of a deleted session.
Tells(c) ==
  /\ c.answer = "ok" /\ c.of # Nobody
  /\ c.kind \in {"login", "register", "logout"}

\* What a call is to the invariant.
Same(c, d) ==
  d.kind = c.kind /\ d.sid = c.sid /\ d.answer = c.answer /\ d.issued = c.issued

-----------------------------------------------------------------------------
(* Steps that leave the sessions alone                                     *)

\* The calls that remain are old ones or requests with the cookie of the moment;
\* a call that tells of a deleted session remains, or its id is noted.
LEMMA Carried ==
  ASSUME IInv, TypeOK', OneBearer', sessions' = sessions,
         cookie' = cookie \/ cookie' = Nobody,
         \A d \in calls' : \/ \E c \in calls : Same(c, d)
                           \/ d.issued = Nobody /\ d.answer = "none" /\ d.sid \in {cookie, Nobody},
         strays \subseteq strays',
         \A c \in calls : Tells(c) /\ c.sid # Nobody =>
            c.sid \in strays' \/ cookie' # cookie \/ \E d \in calls' : Tells(d) /\ d.sid = c.sid
  PROVE  IInv'
<1>1. Known'
  BY DEF IInv, Known, Same
<1>2. UnderWay'
  <2> SUFFICES ASSUME NEW d \in calls', d.issued # Nobody PROVE Unused(d)'
    BY DEF UnderWay, Unused
  <2>1. PICK c \in calls : Same(c, d)
    OBVIOUS
  <2>2. c.issued = d.issued /\ Live(c.issued) /\ c.issued # cookie /\ \A e \in calls : e.sid # c.issued
    BY <2>1 DEF IInv, UnderWay, Unused, Same
  <2>3. \A e \in calls' : e.sid # d.issued
    BY <2>2 DEF Same
  <2> QED
    BY <2>2, <2>3 DEF Unused, Live
<1>3. AnswersBring'
  BY DEF IInv, AnswersBring, Same
<1>4. CookieIsLive'
  <2> SUFFICES ASSUME Stale' PROVE cookie' \in strays' \/ \E d \in calls' : Tells(d) /\ d.sid = cookie'
    BY DEF CookieIsLive, Tells
  <2>1. cookie' = cookie /\ Stale
    BY DEF Stale
  <2>2. cookie \in strays \/ \E c \in calls : Tells(c) /\ c.sid = cookie
    BY <2>1 DEF IInv, CookieIsLive, Tells
  <2> QED
    BY <2>1, <2>2 DEF Stale
<1> QED
  BY <1>1, <1>2, <1>3, <1>4 DEF IInv

LEMMA CallFields ==
  ASSUME TypeOK, NEW c \in calls
  PROVE  /\ c \in Call /\ c.sid \in Sids \cup {Nobody} /\ c.of \in Tabs \cup {Nobody}
         /\ c.issued \in Sids \cup {Nobody} /\ c.next \in NextPages /\ c.kind \in Kinds
         /\ c.who \in {"none", "guest", "account"} /\ c.mounted \in BOOLEAN
BY DEF TypeOK, Call

-----------------------------------------------------------------------------
(* Requests                                                                *)

LEMMA NewCallFields ==
  ASSUME NEW t \in Tabs, NEW kind \in Kinds, NEW next \in NextPages,
         NEW jar \in Sids \cup {Nobody}, NEW n, n = NewCall(t, kind, next, jar)
  PROVE  /\ n \in Call /\ n.issued = Nobody /\ n.answer = "none" /\ n.sid = jar
         /\ n.kind = kind /\ n.of = t
BY GateAssumption DEF NewCall, Call

\* A request joins the others.
LEMMA SendFine ==
  ASSUME IInv, NEW t \in Tabs, NEW kind \in Kinds, NEW next \in NextPages,
         Send(t, kind, next), tab' \in [Tabs -> Tab]
  PROVE  IInv'
<1>1. TypeOK /\ UNCHANGED <<cookie, sessions, strays>> /\ Move
  BY DEF IInv, Send
<1>2. PICK n : n = NewCall(t, kind, next, cookie)
  OBVIOUS
<1>3. n \in Call /\ n.issued = Nobody /\ n.answer = "none" /\ n.sid = cookie
  BY <1>1, <1>2, NewCallFields DEF TypeOK
<1>4. calls' = calls \cup {n}
  BY <1>2 DEF Send
<1>5. spent' \in [moves : Nat, losses : Nat]
  BY <1>1 DEF Move, TypeOK
<1>6. TypeOK'
  BY <1>1, <1>3, <1>4, <1>5 DEF TypeOK
<1>7. OneBearer'
  BY <1>3, <1>4 DEF IInv, OneBearer
<1> QED
  BY <1>1, <1>3, <1>4, <1>6, <1>7, Carried DEF Same

LEMMA TabStays ==
  ASSUME TypeOK, NEW t \in Tabs
  PROVE  /\ tab[t] \in Tab /\ tab[t].next \in NextPages /\ tab[t].at \in Pages
         /\ tab[t].sites \in {"null", "list", "error"}
         /\ [tab EXCEPT ![t].busy = TRUE] \in [Tabs -> Tab]
         /\ [tab EXCEPT ![t].sites = "list"] \in [Tabs -> Tab]
<1>1. tab \in [Tabs -> Tab] /\ tab[t] \in Tab
  BY DEF TypeOK
<1>2. PICK b : b = [tab[t] EXCEPT !.busy = TRUE]
  OBVIOUS
<1>3. b \in Tab
  BY <1>1, <1>2 DEF Tab
<1>4. PICK l : l = [tab[t] EXCEPT !.sites = "list"]
  OBVIOUS
<1>5. l \in Tab
  BY <1>1, <1>4 DEF Tab
<1>6. [tab EXCEPT ![t] = b] \in [Tabs -> Tab] /\ [tab EXCEPT ![t] = l] \in [Tabs -> Tab]
  BY <1>1, <1>3, <1>5
<1>7. /\ tab[t].next \in NextPages /\ tab[t].at \in Pages
      /\ tab[t].sites \in {"null", "list", "error"}
  BY <1>1 DEF Tab
<1> QED
  BY <1>1, <1>2, <1>4, <1>6, <1>7

LEMMA ButtonsFine ==
  ASSUME IInv, NEW t \in Tabs,
         \/ \E kind \in {"login", "register"} : Submit(t, kind)
         \/ ContinueAsGuest(t) \/ Logout(t) \/ Claim(t) \/ ReloadSites(t)
  PROVE  IInv'
<1>1. TypeOK
  BY DEF IInv
<1>2. /\ tab[t].next \in NextPages /\ "shop" \in NextPages
      /\ [tab EXCEPT ![t].busy = TRUE] \in [Tabs -> Tab]
      /\ [tab EXCEPT ![t].sites = "list"] \in [Tabs -> Tab]
      /\ tab \in [Tabs -> Tab]
  BY <1>1, TabStays DEF NextPages, TypeOK
<1>3. {"login", "register", "guest", "logout", "claim", "sites"} \subseteq Kinds
  BY DEF Kinds, Signing
<1>4. ASSUME NEW kind \in {"login", "register"}, Submit(t, kind) PROVE IInv'
  BY <1>2, <1>3, <1>4, SendFine DEF Submit
<1>5. CASE ContinueAsGuest(t)
  BY <1>2, <1>3, <1>5, SendFine DEF ContinueAsGuest
<1>6. CASE Logout(t)
  BY <1>2, <1>3, <1>6, SendFine DEF Logout
<1>7. CASE Claim(t)
  BY <1>2, <1>3, <1>7, SendFine DEF Claim
<1>8. CASE ReloadSites(t)
  BY <1>2, <1>3, <1>8, SendFine DEF ReloadSites
<1> QED
  BY <1>4, <1>5, <1>6, <1>7, <1>8

-----------------------------------------------------------------------------
(* Navigations                                                             *)

LEMMA MountFine ==
  ASSUME TypeOK, NEW t \in Tabs, NEW page \in Pages, NEW next \in NextPages,
         NEW jar \in Sids \cup {Nobody}, NEW rest \in SUBSET Call,
         Mount(t, page, next, jar, rest)
  PROVE  /\ tab' \in [Tabs -> Tab]
         /\ calls' \subseteq Call /\ rest \subseteq calls'
         /\ \A d \in calls' : \/ d \in rest
                              \/ d.issued = Nobody /\ d.answer = "none" /\ d.sid = jar
<1>1. PICK to : to = Middleware(page, next, jar)
  OBVIOUS
<1>2. to.at \in Pages /\ to.next \in NextPages
  <2>1. "gate" \in Pages /\ "shop" \in NextPages /\ NextPages \subseteq Pages
    BY DEF Pages, PublicPages, NextPages
  <2>2. CASE page = "gate" /\ jar # Nobody
    BY <1>1, <2>1, <2>2 DEF Middleware
  <2>3. CASE page \in NextPages /\ jar = Nobody
    <3>1. page # "gate"
      BY <2>3 DEF NextPages
    <3> QED
      BY <1>1, <2>1, <2>3, <3>1 DEF Middleware
  <2>4. CASE ~(page = "gate" /\ jar # Nobody) /\ ~(page \in NextPages /\ jar = Nobody)
    BY <1>1, <2>1, <2>4 DEF Middleware
  <2> QED
    BY <2>2, <2>3, <2>4
<1>3. PICK x : x = [at |-> to.at, next |-> to.next, busy |-> FALSE,
                    kind |-> "none", sites |-> "null"]
  OBVIOUS
<1>4. x \in Tab
  BY <1>2, <1>3 DEF Tab
<1>5. tab' = [tab EXCEPT ![t] = x]
  BY <1>1, <1>3 DEF Mount
<1>6. tab' \in [Tabs -> Tab]
  BY <1>4, <1>5 DEF TypeOK
<1>7. PICK m : m = Refresh(t, jar)
  OBVIOUS
<1>8. PICK l : l = LoadSites(t, jar)
  OBVIOUS
<1>9. /\ m \in Call /\ m.issued = Nobody /\ m.answer = "none" /\ m.sid = jar
      /\ l \in Call /\ l.issued = Nobody /\ l.answer = "none" /\ l.sid = jar
  <2>1. "me" \in Kinds /\ "sites" \in Kinds /\ "shop" \in NextPages
    BY DEF Kinds, NextPages
  <2> QED
    BY <1>7, <1>8, <2>1, NewCallFields DEF Refresh, LoadSites
<1>10. calls' = rest \cup {m} \cup (IF to.at = "situs" THEN {l} ELSE {})
  BY <1>1, <1>7, <1>8 DEF Mount
<1>11. rest \subseteq calls' /\ calls' \subseteq rest \cup {m, l}
  BY <1>10
<1> QED
  BY <1>6, <1>9, <1>11

LEMMA PushFine ==
  ASSUME TypeOK, NEW t \in Tabs, NEW page \in Pages, NEW next \in NextPages,
         NEW jar \in Sids \cup {Nobody}, NEW rest \in SUBSET calls,
         Push(t, page, next, jar, rest), OneBearer
  PROVE  /\ tab' \in [Tabs -> Tab] /\ calls' \subseteq Call /\ OneBearer'
         /\ \A d \in calls' : \/ \E c \in rest : Same(c, d)
                              \/ d.issued = Nobody /\ d.answer = "none" /\ d.sid = jar
         /\ \A c \in rest : c.kind # "me" => \E d \in calls' : Same(c, d) /\ d.of = c.of
<1>1. calls \subseteq Call
  BY DEF TypeOK
<1>2. PICK away : away = {x \in Of(t, rest) : x.kind # "me"}
  OBVIOUS
<1>3. PICK kept : kept = rest \ Of(t, rest)
  OBVIOUS
<1>4. kept \subseteq rest /\ away \subseteq rest
  BY <1>2, <1>3 DEF Of
<1>5. PICK gone : gone = {[c EXCEPT !.mounted = FALSE] : c \in away}
  OBVIOUS
<1>6. ASSUME NEW c \in away
      PROVE  /\ [c EXCEPT !.mounted = FALSE] \in Call
             /\ Same(c, [c EXCEPT !.mounted = FALSE])
             /\ [c EXCEPT !.mounted = FALSE].of = c.of
  <2>1. c \in Call
    BY <1>1, <1>4, <1>6
  <2> QED
    BY <2>1 DEF Call, Same
<1>7. \A g \in gone : g \in Call /\ \E c \in away : g = [c EXCEPT !.mounted = FALSE] /\ Same(c, g)
  <2> SUFFICES ASSUME NEW g \in gone
               PROVE  g \in Call /\ \E c \in away : g = [c EXCEPT !.mounted = FALSE] /\ Same(c, g)
    OBVIOUS
  <2>1. PICK c \in away : g = [c EXCEPT !.mounted = FALSE]
    BY <1>5
  <2>2. g \in Call /\ Same(c, g)
    BY <1>6, <2>1
  <2> QED
    BY <2>1, <2>2
<1>8. \A c \in away : \E g \in gone : Same(c, g) /\ g.of = c.of
  <2> SUFFICES ASSUME NEW c \in away PROVE \E g \in gone : Same(c, g) /\ g.of = c.of
    OBVIOUS
  <2>1. PICK g : g = [c EXCEPT !.mounted = FALSE]
    OBVIOUS
  <2>2. g \in gone
    BY <1>5, <2>1
  <2>3. Same(c, g) /\ g.of = c.of
    BY <1>6, <2>1
  <2> QED
    BY <2>2, <2>3
<1>9. PICK new \in SUBSET Call : new = kept \cup gone
  BY <1>1, <1>4, <1>7
<1>10. Mount(t, page, next, jar, new)
  BY <1>2, <1>3, <1>5, <1>9 DEF Push
<1>11. /\ tab' \in [Tabs -> Tab] /\ calls' \subseteq Call /\ new \subseteq calls'
       /\ \A d \in calls' : \/ d \in new
                            \/ d.issued = Nobody /\ d.answer = "none" /\ d.sid = jar
  BY <1>10, MountFine
<1>12. \A d \in new : \E c \in rest : Same(c, d)
  BY <1>4, <1>7, <1>9 DEF Same
<1>13. \A c \in rest : c.kind # "me" => c \in kept \/ c \in away
  BY <1>2, <1>3
<1>14. \A c \in rest : c.kind # "me" => \E d \in calls' : Same(c, d) /\ d.of = c.of
  BY <1>8, <1>9, <1>11, <1>13 DEF Same
\* A call and its copy of the page left behind are not both there.
<1>15. OneBearer'
  <2> SUFFICES ASSUME NEW d \in new, NEW e \in new, d.issued # Nobody, d.issued = e.issued
               PROVE  d = e
    BY <1>11 DEF OneBearer
  <2>1. \A c \in rest, f \in rest : c.issued = d.issued /\ f.issued = d.issued => c = f
    BY DEF OneBearer
  <2>2. CASE d \in kept /\ e \in kept
    BY <1>4, <2>1, <2>2
  <2>3. CASE d \in gone /\ e \in gone
    <3>1. PICK c \in away : d = [c EXCEPT !.mounted = FALSE] /\ Same(c, d)
      BY <1>7, <2>3
    <3>2. PICK f \in away : e = [f EXCEPT !.mounted = FALSE] /\ Same(f, e)
      BY <1>7, <2>3
    <3>3. c = f
      BY <1>4, <2>1, <3>1, <3>2 DEF Same
    <3> QED
      BY <3>1, <3>2, <3>3
  <2>4. ASSUME NEW a \in kept, NEW g \in gone, a.issued = d.issued, g.issued = d.issued PROVE FALSE
    <3>1. PICK c \in away : Same(c, g)
      BY <1>7
    <3>2. a = c
      BY <1>4, <2>1, <2>4, <3>1 DEF Same
    <3> QED
      BY <1>2, <1>3, <3>2
  <2> QED
    BY <1>9, <2>2, <2>3, <2>4
<1> QED
  BY <1>11, <1>12, <1>14, <1>15

LEMMA AssignFine ==
  ASSUME TypeOK, NEW t \in Tabs, NEW page \in Pages, NEW next \in NextPages,
         NEW jar \in Sids \cup {Nobody}, NEW rest \in SUBSET calls,
         Assign(t, page, next, jar, rest), OneBearer, AnswersBring
  PROVE  /\ tab' \in [Tabs -> Tab] /\ calls' \subseteq Call /\ OneBearer'
         /\ \A d \in calls' : \/ \E c \in rest : Same(c, d)
                              \/ d.issued = Nobody /\ d.answer = "none" /\ d.sid = jar
         /\ strays \subseteq strays' /\ strays' \subseteq Sids
         /\ \A c \in rest : Tells(c) /\ c.sid # Nobody => c \in calls' \/ c.sid \in strays'
<1>1. calls \subseteq Call /\ strays \subseteq Sids
  BY DEF TypeOK
<1>2. PICK open : open = {x \in Of(t, rest) : x.answer = "none"}
  OBVIOUS
<1>3. PICK kept : kept = rest \ Of(t, rest)
  OBVIOUS
<1>4. kept \subseteq rest /\ open \subseteq rest
  BY <1>2, <1>3 DEF Of
<1>5. PICK gone : gone = {[c EXCEPT !.of = Nobody] : c \in open}
  OBVIOUS
<1>6. ASSUME NEW c \in open
      PROVE  [c EXCEPT !.of = Nobody] \in Call /\ Same(c, [c EXCEPT !.of = Nobody])
  BY <1>1, <1>4, <1>6 DEF Call, Same
<1>7. \A g \in gone : g \in Call /\ \E c \in open : Same(c, g)
  BY <1>5, <1>6
<1>8. PICK new \in SUBSET Call : new = kept \cup gone
  BY <1>1, <1>4, <1>7
<1>9. Mount(t, page, next, jar, new) /\ strays' = strays \cup Abandoned(Of(t, rest))
  BY <1>2, <1>3, <1>5, <1>8 DEF Assign
<1>10. /\ tab' \in [Tabs -> Tab] /\ calls' \subseteq Call /\ new \subseteq calls'
       /\ \A d \in calls' : \/ d \in new
                            \/ d.issued = Nobody /\ d.answer = "none" /\ d.sid = jar
  BY <1>9, MountFine
<1>11. \A d \in new : \E c \in rest : Same(c, d)
  BY <1>4, <1>7, <1>8 DEF Same
<1>12. \A g \in gone : g.issued = Nobody
  BY <1>2, <1>4, <1>7 DEF AnswersBring, Same
<1>13. OneBearer'
  BY <1>4, <1>8, <1>10, <1>12 DEF OneBearer
<1>14. Abandoned(Of(t, rest)) \subseteq Sids
  <2>1. \A c \in Of(t, rest) : c.sid \in Sids \cup {Nobody}
    BY <1>1 DEF Of, Call
  <2> QED
    BY <2>1 DEF Abandoned
<1>15. ASSUME NEW c \in rest, Tells(c), c.sid # Nobody PROVE c \in calls' \/ c.sid \in strays'
  <2>1. CASE c \in Of(t, rest)
    BY <1>9, <1>15, <2>1 DEF Abandoned, Tells
  <2>2. CASE c \notin Of(t, rest)
    BY <1>3, <1>8, <1>10, <2>2
  <2> QED
    BY <2>1, <2>2
<1> QED
  BY <1>1, <1>9, <1>10, <1>11, <1>13, <1>14, <1>15

LEMMA FollowFine ==
  ASSUME IInv, NEW t \in Tabs, NEW page \in Pages, FollowLink(t, page) PROVE IInv'
<1>1. TypeOK /\ OneBearer /\ Move /\ UNCHANGED <<cookie, sessions, strays>>
      /\ cookie \in Sids \cup {Nobody}
  BY DEF IInv, FollowLink, TypeOK
<1>2. PICK next \in NextPages : Push(t, page, next, cookie, calls)
  <2>1. tab[t].next \in NextPages /\ "shop" \in NextPages
    BY <1>1, TabStays DEF NextPages
  <2> QED
    BY <2>1 DEF FollowLink
<1>3. /\ tab' \in [Tabs -> Tab] /\ calls' \subseteq Call /\ OneBearer'
      /\ \A d \in calls' : \/ \E c \in calls : Same(c, d)
                           \/ d.issued = Nobody /\ d.answer = "none" /\ d.sid = cookie
      /\ \A c \in calls : c.kind # "me" => \E d \in calls' : Same(c, d) /\ d.of = c.of
  BY <1>1, <1>2, PushFine
<1>4. spent' \in [moves : Nat, losses : Nat]
  BY <1>1 DEF Move, TypeOK
<1>5. TypeOK'
  BY <1>1, <1>3, <1>4 DEF TypeOK
<1>6. \A c \in calls : Tells(c) => \E d \in calls' : Tells(d) /\ d.sid = c.sid
  BY <1>3 DEF Tells, Same
<1> QED
  BY <1>1, <1>3, <1>5, <1>6, Carried

LEMMA OpenFine ==
  ASSUME IInv, NEW t \in Tabs, NEW page \in Pages, OpenPage(t, page) PROVE IInv'
<1>1. TypeOK /\ OneBearer /\ AnswersBring /\ Move /\ UNCHANGED <<cookie, sessions>>
      /\ cookie \in Sids \cup {Nobody} /\ "shop" \in NextPages
      /\ Assign(t, page, "shop", cookie, calls)
  BY DEF IInv, OpenPage, TypeOK, NextPages
<1>2. /\ tab' \in [Tabs -> Tab] /\ calls' \subseteq Call /\ OneBearer'
      /\ \A d \in calls' : \/ \E c \in calls : Same(c, d)
                           \/ d.issued = Nobody /\ d.answer = "none" /\ d.sid = cookie
      /\ strays \subseteq strays' /\ strays' \subseteq Sids
      /\ \A c \in calls : Tells(c) /\ c.sid # Nobody => c \in calls' \/ c.sid \in strays'
  BY <1>1, AssignFine
<1>3. spent' \in [moves : Nat, losses : Nat]
  BY <1>1 DEF Move, TypeOK
<1>4. TypeOK'
  BY <1>1, <1>2, <1>3 DEF TypeOK
<1> QED
  BY <1>1, <1>2, <1>4, Carried

-----------------------------------------------------------------------------
(* Answers                                                                 *)

LEMMA OutFine ==
  ASSUME IInv, NEW c \in calls,
         SignedOut(c) \/ LogoutRefused(c) \/ SentToGate(c)
  PROVE  IInv'
<1>1. TypeOK /\ OneBearer /\ AnswersBring /\ UNCHANGED <<sessions, spent>>
      /\ cookie \in Sids \cup {Nobody}
  BY DEF IInv, TypeOK, SignedOut, LogoutRefused, SentToGate
<1>2. c.of \in Tabs
  BY <1>1, CallFields DEF SignedOut, LogoutRefused, SentToGate, Heard
<1>3. PICK rest \in SUBSET calls : rest = calls \ {c}
  OBVIOUS
<1>4. "gate" \in Pages /\ {"shop", "situs"} \subseteq NextPages
  BY DEF Pages, PublicPages, NextPages
<1>5. /\ cookie' = cookie \/ cookie' = Nobody
      /\ cookie' = cookie => ~ Tells(c) \/ cookie = Nobody
  BY DEF SignedOut, LogoutRefused, SentToGate, Heard, Tells
<1>10. PICK jar \in Sids \cup {Nobody}, next \in NextPages :
         jar = cookie' /\ Assign(c.of, "gate", next, jar, rest)
  BY <1>1, <1>3, <1>4 DEF SignedOut, LogoutRefused, SentToGate
<1>6. /\ tab' \in [Tabs -> Tab] /\ calls' \subseteq Call /\ OneBearer'
      /\ \A d \in calls' : \/ \E e \in rest : Same(e, d)
                           \/ d.issued = Nobody /\ d.answer = "none" /\ d.sid = cookie'
      /\ strays \subseteq strays' /\ strays' \subseteq Sids
      /\ \A e \in rest : Tells(e) /\ e.sid # Nobody => e \in calls' \/ e.sid \in strays'
  BY <1>1, <1>2, <1>4, <1>10, AssignFine
<1>7. TypeOK'
  BY <1>1, <1>5, <1>6 DEF TypeOK
\* With no cookie there is nothing to delete.
<1>8. CASE cookie' # cookie \/ ~ Tells(c)
  BY <1>1, <1>3, <1>5, <1>6, <1>7, <1>8, Carried
<1>9. CASE cookie = Nobody
  <2>1. cookie' = Nobody
    BY <1>5, <1>9
  <2>2. Known'
    BY <1>1, <1>3, <1>6, <2>1 DEF IInv, Known, Same
  <2>3. UnderWay'
    BY <1>1, <1>3, <1>6, <2>1 DEF IInv, UnderWay, Unused, Same, Live
  <2>4. AnswersBring' /\ CookieIsLive'
    BY <1>1, <1>3, <1>6, <2>1 DEF AnswersBring, Same, CookieIsLive, Stale
  <2> QED
    BY <1>6, <1>7, <2>2, <2>3, <2>4 DEF IInv
<1> QED
  BY <1>5, <1>8, <1>9

\* The cookie becomes the id that was under way, or stays.
LEMMA SignedInFine ==
  ASSUME IInv, NEW c \in calls, SignedIn(c) PROVE IInv'
<1>1. TypeOK /\ OneBearer /\ AnswersBring /\ UNCHANGED <<sessions, strays, spent>>
      /\ cookie' = Jar(c) /\ c.answer = "ok" /\ c.kind \in Signing /\ c.of # Nobody
  BY DEF IInv, SignedIn, Heard
<1>2. c.of \in Tabs /\ c.next \in NextPages /\ Jar(c) \in Sids \cup {Nobody}
  BY <1>1, CallFields DEF Jar, TypeOK
<1>3. PICK rest \in SUBSET calls : rest = calls \ {c}
  OBVIOUS
<1>4. c.next \in Pages /\ "shop" \in NextPages
  BY <1>2 DEF Pages, NextPages
<1>5. PICK jar \in Sids \cup {Nobody}, t \in Tabs, page \in Pages :
        jar = cookie' /\ Push(t, page, "shop", jar, rest)
  BY <1>1, <1>2, <1>3, <1>4 DEF SignedIn
<1>6. /\ tab' \in [Tabs -> Tab] /\ calls' \subseteq Call /\ OneBearer'
      /\ \A d \in calls' : \/ \E e \in rest : Same(e, d)
                           \/ d.issued = Nobody /\ d.answer = "none" /\ d.sid = cookie'
      /\ \A e \in rest : e.kind # "me" => \E d \in calls' : Same(e, d) /\ d.of = e.of
  <2>1. /\ tab' \in [Tabs -> Tab] /\ calls' \subseteq Call /\ OneBearer'
        /\ \A d \in calls' : \/ \E e \in rest : Same(e, d)
                             \/ d.issued = Nobody /\ d.answer = "none" /\ d.sid = jar
        /\ \A e \in rest : e.kind # "me" => \E d \in calls' : Same(e, d) /\ d.of = e.of
    BY <1>1, <1>4, <1>5, PushFine
  <2> QED
    BY <1>5, <2>1
<1>7. TypeOK'
  BY <1>1, <1>2, <1>6 DEF TypeOK
<1>8. CASE c.issued = Nobody
  <2>1. cookie' = cookie /\ ~ Tells(c)
    BY <1>1, <1>8 DEF Jar, Tells, AnswersBring, Signing
  <2>2. \A e \in calls : Tells(e) => \E d \in calls' : Tells(d) /\ d.sid = e.sid
    BY <1>3, <1>6, <2>1 DEF Tells, Same
  <2> QED
    BY <1>1, <1>3, <1>6, <1>7, <2>1, <2>2, Carried
<1>9. CASE c.issued # Nobody
  <2>1. cookie' = c.issued /\ Live(c.issued) /\ \A e \in calls : e.sid # c.issued
    BY <1>1, <1>9 DEF Jar, IInv, UnderWay, Unused
  <2>2. sessions'[cookie'] \in {"guest", "account"} /\ cookie' # Nobody
    BY <1>1, <1>9, <2>1 DEF Live
  <2>3. Known'
    BY <1>1, <1>3, <1>6, <2>2 DEF IInv, Known, Same, Live
  <2>4. UnderWay'
    <3> SUFFICES ASSUME NEW d \in calls', d.issued # Nobody PROVE Unused(d)'
      BY DEF UnderWay, Unused
    <3>1. PICK e \in rest : Same(e, d)
      BY <1>6
    <3>2. /\ e.issued = d.issued /\ Live(e.issued) /\ e # c
          /\ \A f \in calls : f.sid # e.issued
      BY <1>3, <3>1 DEF IInv, UnderWay, Unused, Same
    <3>3. d.issued # c.issued
      BY <1>1, <1>9, <3>2 DEF OneBearer
    <3>4. \A f \in calls' : f.sid # d.issued
      BY <1>3, <1>6, <2>1, <3>2, <3>3 DEF Same
    <3> QED
      BY <1>1, <2>1, <3>2, <3>3, <3>4 DEF Unused, Live
  <2>5. AnswersBring'
    BY <1>1, <1>3, <1>6 DEF AnswersBring, Same
  <2>6. CookieIsLive'
    BY <2>2 DEF CookieIsLive, Stale, Live
  <2> QED
    BY <1>6, <1>7, <2>3, <2>4, <2>5, <2>6 DEF IInv
<1> QED
  BY <1>8, <1>9

\* A field of the tab is shown.
LEMMA ShowFine ==
  ASSUME TypeOK, NEW c \in calls, c.of # Nobody,
         \/ Show(c, "busy", FALSE)
         \/ \E k \in {"none", "guest", "account"} : Show(c, "kind", k)
         \/ \E l \in {"list", "error"} : Show(c, "sites", l)
         \/ tab' = [tab EXCEPT ![c.of].busy = FALSE, ![c.of].sites = "list"]
  PROVE  tab' \in [Tabs -> Tab]
<1>1. tab \in [Tabs -> Tab] /\ c.of \in Tabs
  BY CallFields DEF TypeOK
<1>2. PICK x : x = tab[c.of]
  OBVIOUS
<1>3. x \in Tab
  BY <1>1, <1>2
<1>4. CASE Show(c, "busy", FALSE)
  <2>1. PICK y : y = [x EXCEPT !.busy = FALSE]
    OBVIOUS
  <2>2. y \in Tab
    BY <1>3, <2>1 DEF Tab
  <2>3. tab' = tab \/ tab' = [tab EXCEPT ![c.of] = y]
    BY <1>2, <1>4, <2>1 DEF Show
  <2> QED
    BY <1>1, <2>2, <2>3
<1>5. ASSUME NEW k \in {"none", "guest", "account"}, Show(c, "kind", k)
      PROVE  tab' \in [Tabs -> Tab]
  <2>1. PICK y : y = [x EXCEPT !.kind = k]
    OBVIOUS
  <2>2. y \in Tab
    BY <1>3, <2>1 DEF Tab
  <2>3. tab' = tab \/ tab' = [tab EXCEPT ![c.of] = y]
    BY <1>2, <1>5, <2>1 DEF Show
  <2> QED
    BY <1>1, <2>2, <2>3
<1>6. ASSUME NEW l \in {"list", "error"}, Show(c, "sites", l)
      PROVE  tab' \in [Tabs -> Tab]
  <2>1. PICK y : y = [x EXCEPT !.sites = l]
    OBVIOUS
  <2>2. y \in Tab
    BY <1>3, <2>1 DEF Tab
  <2>3. tab' = tab \/ tab' = [tab EXCEPT ![c.of] = y]
    BY <1>2, <1>6, <2>1 DEF Show
  <2> QED
    BY <1>1, <2>2, <2>3
<1>7. CASE tab' = [tab EXCEPT ![c.of].busy = FALSE, ![c.of].sites = "list"]
  <2>1. PICK y : y = [x EXCEPT !.busy = FALSE]
    OBVIOUS
  <2>2. PICK z : z = [y EXCEPT !.sites = "list"]
    OBVIOUS
  <2>3. z \in Tab
    BY <1>3, <2>1, <2>2 DEF Tab
  <2>4. tab' = [[tab EXCEPT ![c.of] = y] EXCEPT ![c.of].sites = "list"]
    BY <1>2, <1>7, <2>1
  <2>5. [tab EXCEPT ![c.of] = y][c.of] = y
    BY <1>1
  <2>6. tab' = [[tab EXCEPT ![c.of] = y] EXCEPT ![c.of] = z]
    BY <2>2, <2>4, <2>5
  <2>7. y \in Tab
    BY <1>3, <2>1 DEF Tab
  <2>8. [tab EXCEPT ![c.of] = y] \in [Tabs -> Tab]
    BY <1>1, <2>7
  <2> QED
    BY <1>1, <2>3, <2>6, <2>8
<1> QED
  BY <1>4, <1>5, <1>6, <1>7

\* An answer leaves, and a page may ask again.
LEMMA ShownFine ==
  ASSUME IInv, NEW c \in calls,
         KnowsWho(c) \/ FormRefused(c) \/ SitesListed(c) \/ SitesRefused(c) \/ Claimed(c)
  PROVE  IInv'
<1>1. TypeOK /\ c.of # Nobody /\ ~ Tells(c) /\ UNCHANGED <<cookie, sessions, strays, spent>>
      /\ cookie \in Sids \cup {Nobody}
  BY DEF IInv, TypeOK, KnowsWho, FormRefused, SitesListed, SitesRefused, Claimed, Heard, Tells
<1>2. tab' \in [Tabs -> Tab]
  <2>1. CASE KnowsWho(c)
    BY <1>1, <2>1, ShowFine, CallFields DEF KnowsWho
  <2>2. CASE FormRefused(c)
    BY <1>1, <2>2, ShowFine DEF FormRefused
  <2>3. CASE SitesListed(c)
    <3>1. \E l \in {"list", "error"} : Show(c, "sites", l)
      BY <2>3 DEF SitesListed
    <3> QED
      BY <1>1, <3>1, ShowFine
  <2>4. CASE SitesRefused(c)
    BY <1>1, <2>4, ShowFine DEF SitesRefused
  <2>5. CASE Claimed(c)
    <3>1. tab' = tab \/ tab' = [tab EXCEPT ![c.of].busy = FALSE, ![c.of].sites = "list"]
      BY <2>5 DEF Claimed
    <3> QED
      BY <1>1, <3>1, ShowFine DEF TypeOK
  <2> QED
    BY <2>1, <2>2, <2>3, <2>4, <2>5
<1>3. PICK n : n = [LoadSites(c.of, cookie) EXCEPT !.mounted = c.mounted]
  OBVIOUS
<1>4. n \in Call /\ n.issued = Nobody /\ n.answer = "none" /\ n.sid = cookie
  <2>1. c.of \in Tabs /\ c.mounted \in BOOLEAN
    BY <1>1, CallFields
  <2>2. PICK l : l = LoadSites(c.of, cookie)
    OBVIOUS
  <2>3. l \in Call /\ l.issued = Nobody /\ l.answer = "none" /\ l.sid = cookie
    BY <1>1, <2>1, <2>2, NewCallFields DEF LoadSites, Kinds, NextPages
  <2> QED
    BY <1>3, <2>1, <2>2, <2>3 DEF Call
<1>5. calls' = calls \ {c} \/ calls' = (calls \ {c}) \cup {n}
  BY <1>3 DEF KnowsWho, FormRefused, SitesListed, SitesRefused, Claimed
<1>6. TypeOK'
  BY <1>1, <1>2, <1>4, <1>5 DEF TypeOK
<1>7. OneBearer'
  BY <1>4, <1>5 DEF IInv, OneBearer
<1>8. \A d \in calls' : \/ \E e \in calls : Same(e, d)
                        \/ d.issued = Nobody /\ d.answer = "none" /\ d.sid = cookie
  BY <1>4, <1>5 DEF Same
<1>9. \A e \in calls : Tells(e) => e \in calls'
  BY <1>1, <1>5
<1> QED
  BY <1>1, <1>6, <1>7, <1>8, <1>9, Carried

LEMMA LoseFine == ASSUME IInv, NEW c \in calls, Lose(c) PROVE IInv'
<1>1. TypeOK /\ c.of # Nobody /\ UNCHANGED <<cookie, sessions>> /\ calls' = calls \ {c}
      /\ strays' = strays \cup Abandoned({c})
      /\ spent' = [spent EXCEPT !.losses = @ + 1]
  BY DEF IInv, Lose
<1>2. tab' \in [Tabs -> Tab]
  <2>1. Show(c, "busy", FALSE) \/ Show(c, "sites", "error") \/ UNCHANGED tab
    BY DEF Lose
  <2> QED
    BY <1>1, <2>1, ShowFine DEF TypeOK
<1>3. c.sid \in Sids \cup {Nobody}
  BY <1>1, CallFields
<1>4. strays' \subseteq Sids
  BY <1>1, <1>3 DEF Abandoned, TypeOK
<1>5. spent' \in [moves : Nat, losses : Nat]
  BY <1>1 DEF TypeOK
<1>6. TypeOK'
  BY <1>1, <1>2, <1>4, <1>5 DEF TypeOK
<1>7. OneBearer'
  BY <1>1 DEF IInv, OneBearer
<1>8. Tells(c) /\ c.sid # Nobody => c.sid \in strays'
  BY <1>1 DEF Tells, Abandoned
<1>9. \A e \in calls : Tells(e) /\ e.sid # Nobody => e.sid \in strays' \/ e \in calls'
  BY <1>1, <1>8
<1> QED
  BY <1>1, <1>6, <1>7, <1>9, Carried DEF Same

-----------------------------------------------------------------------------
(* The server                                                              *)

\* A request is answered: with the id i, which is drawn and live, or with none;
\* the session of the request may be deleted, and its answer tells so.
LEMMA HandledFine ==
  ASSUME IInv, NEW c \in calls, c.answer = "none",
         NEW ans \in {"ok", "refused", "401"}, NEW i \in Sids \cup {Nobody},
         NEW who \in {"none", "guest", "account"}, Answer(c, ans, i, who),
         sessions' \in [Sids -> {"unissued", "guest", "account", "deleted"}],
         i # Nobody => i \in Unissued /\ Live(i)',
         c.kind \in {"login", "register"} /\ ans = "ok" => i # Nobody,
         \A x \in Sids : \/ sessions'[x] = sessions[x] \/ x = i
                         \/ x = c.sid /\ sessions'[x] = "deleted" /\ ans = "ok"
                            /\ c.kind \in {"login", "register", "logout"} /\ Live(x)
                            /\ (c.of = Nobody => x \in strays'),
         strays \subseteq strays', strays' \subseteq Sids,
         UNCHANGED <<cookie, tab, spent>>
  PROVE  IInv'
<1>1. TypeOK /\ cookie \in Sids \cup {Nobody} /\ c \in Call
  BY CallFields DEF IInv, TypeOK
<1>2. PICK a : a = [c EXCEPT !.answer = ans, !.issued = i, !.who = who]
  OBVIOUS
<1>3. a = [of |-> c.of, mounted |-> c.mounted, kind |-> c.kind, next |-> c.next, sid |-> c.sid,
           answer |-> ans, issued |-> i, who |-> who]
  BY <1>1, <1>2 DEF Call
<1>4. /\ a \in Call /\ a.of = c.of /\ a.sid = c.sid /\ a.kind = c.kind
      /\ a.issued = i /\ a.answer = ans
  BY <1>1, <1>3, CallFields DEF Call
<1>5. calls' = (calls \ {c}) \cup (IF c.of = Nobody THEN {} ELSE {a})
  BY <1>2 DEF Answer
<1>6. calls \ {c} \subseteq calls' /\ calls' \subseteq (calls \ {c}) \cup {a}
  BY <1>5
<1>7. TypeOK'
  BY <1>1, <1>4, <1>6 DEF TypeOK
<1>8. \A s \in Sids : s # Nobody
  BY GateAssumption
<1>9. \A d \in calls : d.sid \in Sids \cup {Nobody} /\ d.issued \in Sids \cup {Nobody}
  BY <1>1, CallFields
<1>10. i # Nobody => sessions[i] = "unissued" /\ ~ Live(i)
  BY DEF Unissued, Live
<1>11. \A x \in Sids : sessions[x] # "unissued" => sessions'[x] # "unissued"
  BY <1>8, <1>10 DEF Live
<1>12. Known'
  BY <1>1, <1>4, <1>6, <1>8, <1>9, <1>11 DEF IInv, Known
\* The id drawn is nobody's; the others stay unused.
<1>13. UnderWay'
  <2>1. ASSUME NEW d \in calls \ {c}, d.issued # Nobody PROVE Unused(d)'
    <3>1. /\ Live(d.issued) /\ d.issued # cookie /\ d.issued \in Sids
          /\ \A e \in calls : e.sid # d.issued
      BY <1>9, <2>1 DEF IInv, UnderWay, Unused
    <3>2. d.issued # i /\ d.issued # c.sid
      BY <1>10, <2>1, <3>1
    <3>3. sessions'[d.issued] = sessions[d.issued]
      BY <3>1, <3>2
    <3> QED
      BY <1>4, <1>6, <3>1, <3>3 DEF Unused, Live
  <2>2. ASSUME i # Nobody PROVE Unused(a)'
    <3>1. i # cookie /\ \A e \in calls : e.sid # i
      BY <1>10, <2>2 DEF IInv, Known
    <3> QED
      BY <1>4, <1>6, <2>2, <3>1 DEF Unused
  <2>3. \A d \in calls' : d.issued # Nobody => Unused(d)'
    BY <1>4, <1>6, <2>1, <2>2
  <2> QED
    BY <2>3 DEF UnderWay, Unused
<1>14. OneBearer'
  <2>1. \A d \in calls : d.issued # Nobody => d.issued # i
    BY <1>10 DEF IInv, UnderWay, Unused
  <2> QED
    BY <1>4, <1>6, <2>1 DEF IInv, OneBearer
<1>15. AnswersBring'
  BY <1>4, <1>6 DEF IInv, AnswersBring
<1>16. CookieIsLive'
  <2> SUFFICES ASSUME Stale'
               PROVE  cookie \in strays' \/ \E d \in calls' : Tells(d) /\ d.sid = cookie
    BY DEF CookieIsLive, Tells
  <2>1. cookie \in Sids /\ sessions'[cookie] = "deleted"
    BY <1>1 DEF Stale
  <2>2. CASE sessions[cookie] = "deleted"
    <3>1. cookie \in strays \/ \E d \in calls : Tells(d) /\ d.sid = cookie
      BY <1>8, <2>1, <2>2 DEF IInv, CookieIsLive, Stale, Tells
    <3>2. ~ Tells(c)
      BY DEF Tells
    <3> QED
      BY <1>6, <3>1, <3>2
  <2>3. CASE sessions[cookie] # "deleted"
    <3>1. cookie # i
      BY <1>8, <2>1 DEF Live
    <3>2. /\ cookie = c.sid /\ ans = "ok" /\ c.kind \in {"login", "register", "logout"}
          /\ c.of = Nobody => cookie \in strays'
      BY <2>1, <2>3, <3>1
    <3> QED
      BY <1>4, <1>5, <3>2 DEF Tells
  <2> QED
    BY <2>2, <2>3
<1> QED
  BY <1>7, <1>12, <1>13, <1>14, <1>15, <1>16 DEF IInv

LEMMA NewSessionFine ==
  ASSUME TypeOK, NEW old \in Sids \cup {Nobody}, NEW s \in Unissued,
         NEW kind \in {"guest", "account"}, NewSession(old, s, kind)
  PROVE  /\ sessions' \in [Sids -> {"unissued", "guest", "account", "deleted"}]
         /\ s \in Sids /\ s # Nobody /\ Live(s)'
         /\ \A x \in Sids : \/ sessions'[x] = sessions[x] \/ x = s
                            \/ x = old /\ sessions'[x] = "deleted" /\ Live(x)
<1>1. s \in Sids /\ s # Nobody /\ sessions \in [Sids -> {"unissued", "guest", "account", "deleted"}]
  BY GateAssumption DEF Unissued, TypeOK
<1>2. ASSUME NEW x \in Sids
      PROVE  /\ x = s => sessions'[x] = kind
             /\ \/ sessions'[x] = sessions[x] \/ x = s
                \/ x = old /\ sessions'[x] = "deleted" /\ Live(x)
  <2>1. sessions'[x] = CASE x = s -> kind [] x = old /\ Live(x) -> "deleted"
                         [] OTHER -> sessions[x]
    BY DEF NewSession
  <2>2. x = s => sessions'[x] = kind
    <3>1. s # old \/ ~ Live(s)
      BY DEF Unissued, Live
    <3> QED
      BY <2>1, <3>1
  <2> QED
    BY <2>1, <2>2
<1>3. \A x \in Sids : sessions'[x] \in {"unissued", "guest", "account", "deleted"}
  BY <1>1, <1>2
<1>4. sessions' \in [Sids -> {"unissued", "guest", "account", "deleted"}]
  BY <1>3 DEF NewSession
<1> QED
  BY <1>1, <1>2, <1>4 DEF Live

LEMMA HandleFine == ASSUME IInv, NEW c \in calls, Handle(c) PROVE IInv'
<1>1. TypeOK /\ c.answer = "none" /\ c.sid \in Sids \cup {Nobody} /\ strays \subseteq Sids
  BY CallFields DEF IInv, TypeOK, Handle, PostLogin, PostRegister, PostGuest, PostLogout,
                    GetMe, GetSites, PostClaim, Refuse, Waits
<1>2. lookupIdentity(c.sid) \in {"none", "guest", "account"}
  BY DEF lookupIdentity
<1>3. sessions \in [Sids -> {"unissued", "guest", "account", "deleted"}]
  BY <1>1 DEF TypeOK
<1>4. CASE PostLogin(c) \/ PostRegister(c)
  <2>1. PICK s \in Unissued : NewSession(c.sid, s, "account") /\ Answer(c, "ok", s, "account")
    BY <1>4 DEF PostLogin, PostRegister, loginAccount, registerAccount
  <2>2. strays' = strays \cup Unheard(c) /\ UNCHANGED <<cookie, tab, spent>>
        /\ c.kind \in {"login", "register"}
    BY <1>4 DEF PostLogin, PostRegister
  <2>3. strays' \subseteq Sids /\ (c.of = Nobody /\ c.sid # Nobody => c.sid \in strays')
    BY <1>1, <2>2 DEF Unheard
  <2>4. /\ sessions' \in [Sids -> {"unissued", "guest", "account", "deleted"}]
        /\ s \in Sids /\ s # Nobody /\ Live(s)'
        /\ \A x \in Sids : \/ sessions'[x] = sessions[x] \/ x = s
                           \/ x = c.sid /\ sessions'[x] = "deleted" /\ Live(x)
    BY <1>1, <2>1, NewSessionFine
  <2>5. \A x \in Sids : x # Nobody
    BY GateAssumption
  <2> QED
    BY <1>1, <2>1, <2>2, <2>3, <2>4, <2>5, HandledFine
<1>5. CASE PostGuest(c)
  <2>1. UNCHANGED <<cookie, tab, strays, spent>> /\ c.kind = "guest"
    BY <1>5 DEF PostGuest
  <2>2. CASE Answer(c, "ok", Nobody, "guest") /\ UNCHANGED sessions
    BY <1>1, <1>3, <2>1, <2>2, HandledFine
  <2>3. ASSUME NEW s \in Unissued, NewSession(Nobody, s, "guest"), Answer(c, "ok", s, "guest")
        PROVE  IInv'
    <3>1. /\ sessions' \in [Sids -> {"unissued", "guest", "account", "deleted"}]
          /\ s \in Sids /\ s # Nobody /\ Live(s)'
          /\ \A x \in Sids : \/ sessions'[x] = sessions[x] \/ x = s
                             \/ x = Nobody /\ sessions'[x] = "deleted" /\ Live(x)
      BY <1>1, <2>3, NewSessionFine
    <3>2. \A x \in Sids : x # Nobody
      BY GateAssumption
    <3> QED
      BY <1>1, <2>1, <2>3, <3>1, <3>2, HandledFine
  <2> QED
    BY <1>5, <2>2, <2>3 DEF PostGuest, continueAsGuest
<1>6. CASE PostLogout(c)
  <2>1. /\ strays' = strays \cup Unheard(c) /\ UNCHANGED <<cookie, tab, spent>>
        /\ c.kind = "logout" /\ Answer(c, "ok", Nobody, "none")
    BY <1>6 DEF PostLogout
  <2>2. strays' \subseteq Sids /\ (c.of = Nobody /\ c.sid # Nobody => c.sid \in strays')
    BY <1>1, <2>1 DEF Unheard
  <2>3. \A x \in Sids : sessions'[x] = IF x = c.sid /\ Live(x) THEN "deleted" ELSE sessions[x]
    BY <1>6 DEF PostLogout, logoutSession
  <2>4. \A x \in Sids : sessions'[x] \in {"unissued", "guest", "account", "deleted"}
    BY <1>3, <2>3
  <2>5. sessions' \in [Sids -> {"unissued", "guest", "account", "deleted"}]
    BY <1>6, <2>4 DEF PostLogout, logoutSession
  <2>6. \A x \in Sids : x # Nobody
    BY GateAssumption
  <2> QED
    BY <1>1, <2>1, <2>2, <2>3, <2>5, <2>6, HandledFine
<1>7. CASE GetMe(c) \/ GetSites(c) \/ PostClaim(c) \/ Refuse(c)
  <2>1. UNCHANGED <<cookie, sessions, tab, strays, spent>>
    BY <1>7 DEF GetMe, GetSites, PostClaim, Refuse
  <2>2. PICK ans \in {"ok", "refused", "401"}, who \in {"none", "guest", "account"} :
          /\ Answer(c, ans, Nobody, who)
          /\ ans = "ok" => c.kind \in {"me", "sites", "claim"}
    BY <1>2, <1>7 DEF GetMe, GetSites, PostClaim, Refuse
  <2> QED
    BY <1>1, <1>3, <2>1, <2>2, HandledFine
<1> QED
  BY <1>4, <1>5, <1>6, <1>7 DEF Handle

-----------------------------------------------------------------------------
(* The theorems                                                            *)

LEMMA InitInv == Init => IInv
<1> SUFFICES ASSUME Init PROVE IInv
  OBVIOUS
<1>1. /\ cookie = Nobody /\ calls = {} /\ strays = {}
      /\ sessions = [s \in Sids |-> "unissued"]
      /\ spent = [moves |-> 0, losses |-> 0]
      /\ tab = [t \in Tabs |-> [at |-> "gate", next |-> "shop", busy |-> FALSE,
                                kind |-> "none", sites |-> "null"]]
  BY DEF Init
<1>2. [at |-> "gate", next |-> "shop", busy |-> FALSE,
       kind |-> "none", sites |-> "null"] \in Tab
  BY DEF Tab, Pages, PublicPages, NextPages
<1>3. TypeOK
  BY <1>1, <1>2 DEF TypeOK
<1> QED
  BY <1>1, <1>3 DEF IInv, Known, UnderWay, OneBearer, AnswersBring, CookieIsLive, Stale

LEMMA StepInv == IInv /\ [Next]_vars => IInv'
<1> SUFFICES ASSUME IInv, [Next]_vars PROVE IInv'
  OBVIOUS
<1>1. ASSUME NEW t \in Tabs, Visitor(t) PROVE IInv'
  BY <1>1, FollowFine, OpenFine, ButtonsFine DEF Visitor
<1>2. ASSUME NEW c \in calls, Handle(c) PROVE IInv'
  BY <1>2, HandleFine
<1>3. ASSUME NEW c \in calls, Arrive(c) PROVE IInv'
  BY <1>3, SignedInFine, OutFine, ShownFine, LoseFine DEF Arrive
<1>4. CASE UNCHANGED vars
  <2>1. TypeOK' /\ OneBearer'
    BY <1>4 DEF vars, IInv, TypeOK, OneBearer
  <2> QED
    BY <1>4, <2>1, Carried DEF vars, Same
<1> QED
  BY <1>1, <1>2, <1>3, <1>4 DEF Next

\* However the tabs sign in, register, continue as a guest, sign out and reload
\* over one another, the invariant stays.
THEOREM GateStays == Spec => []IInv
  BY InitInv, StepInv, PTL DEF Spec

\* Cookie, sessions, tabs and requests keep their shape.
THEOREM TypeCorrect == Spec => []TypeOK
<1>1. IInv => TypeOK
  BY DEF IInv
<1> QED
  BY <1>1, GateStays, PTL

\* The cookie names a session the server knows, or the answer that replaces it
\* is on its way or was never received (portal-identity.ts, middleware.ts).
THEOREM CookiesAreLive == Spec => []CookieIsLive
<1>1. IInv => CookieIsLive
  BY DEF IInv
<1> QED
  BY <1>1, GateStays, PTL

=============================================================================
