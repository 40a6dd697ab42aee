------------------------------ MODULE PortalGate ------------------------------
(***************************************************************************)
(* Sessions of the Channel Portal as a browser sees them: the gate, the    *)
(* sign-in pages, the navigation bar and the list of own sites, in the     *)
(* tabs of one browser, which share the cookie nexus_portal_sid.           *)
(*                                                                         *)
(* The middleware only looks whether there is a cookie; the API routes     *)
(* look the session up and answer 401 when the server does not know it.    *)
(* Requests carry the cookie of the moment they are sent, an answer may    *)
(* set another one, and answers come in any order or not at all.  A link   *)
(* leaves the requests of the old page running, with their handlers; a     *)
(* full page load drops them, though the server still handles them.        *)
(*                                                                         *)
(* "auth" is /masuk and /daftar, "shop" any storefront page, "situs" the   *)
(* list of own sites, "pesan" an order form.  Prefetched pages are not     *)
(* modelled: every navigation asks the middleware.                         *)
(***************************************************************************)
EXTENDS Naturals, FiniteSets

CONSTANTS
  Tabs,       \* the tabs of the browser
  Sids,       \* the session ids the server may draw
  Nobody,     \* no cookie, no session, no tab
  MaxMoves,   \* bound on what the visitor does
  MaxLosses   \* bound on the requests and answers the network loses

ASSUME GateAssumption ==
  /\ Nobody \notin Tabs \cup Sids
  /\ MaxMoves \in Nat /\ MaxLosses \in Nat

VARIABLES
  cookie,     \* the cookie of the browser, or Nobody
  sessions,   \* the server's session store
  tab,        \* what each tab shows
  calls,      \* requests in flight, or answered and on the way back
  strays,     \* history: ids whose deletion the browser was never told of
  spent       \* moves and losses so far

vars == <<cookie, sessions, tab, calls, strays, spent>>

\* safeInternalNext lets only pages behind the gate be come back to.
NextPages == {"shop", "situs", "pesan"}
PublicPages == {"gate", "auth"}
Pages == NextPages \cup PublicPages

Tab == [at : Pages, next : NextPages, busy : BOOLEAN,
        kind : {"none", "guest", "account"}, sites : {"null", "list", "error"}]

Signing == {"login", "register", "guest"}
Kinds == Signing \cup {"logout", "me", "sites", "claim"}
Call == [of : Tabs \cup {Nobody}, mounted : BOOLEAN, kind : Kinds, next : NextPages,
         sid : Sids \cup {Nobody}, answer : {"none", "ok", "refused", "401"},
         issued : Sids \cup {Nobody}, who : {"none", "guest", "account"}]

Init ==
  /\ cookie = Nobody
  /\ sessions = [s \in Sids |-> "unissued"]
  /\ tab = [t \in Tabs |-> [at |-> "gate", next |-> "shop", busy |-> FALSE,
                            kind |-> "none", sites |-> "null"]]
  /\ calls = {}
  /\ strays = {}
  /\ spent = [moves |-> 0, losses |-> 0]

-----------------------------------------------------------------------------
(* The server: portal-identity.ts and the routes. *)

\* lookupIdentity of the request's cookie.
lookupIdentity(sid) ==
  IF sid # Nobody /\ sessions[sid] \in {"guest", "account"} THEN sessions[sid] ELSE "none"

Live(s) == sessions[s] \in {"guest", "account"}

\* The old session goes, a new id is drawn: loginAccount and registerAccount.
NewSession(old, s, kind) ==
  sessions' = [x \in Sids |-> CASE x = s -> kind
                                [] x = old /\ Live(x) -> "deleted"
                                [] OTHER -> sessions[x]]

Unissued == {s \in Sids : sessions[s] = "unissued"}

loginAccount(c, s) == NewSession(c.sid, s, "account")
registerAccount(c, s) == NewSession(c.sid, s, "account")

\* continueAsGuest keeps the session of a guest, and leaves an account's
\* session where it is.
continueAsGuest(s) == NewSession(Nobody, s, "guest")

logoutSession(c) ==
  sessions' = [x \in Sids |-> IF x = c.sid /\ Live(x) THEN "deleted" ELSE sessions[x]]

\* The answer of a call, if somebody waits for it.
Answer(c, answer, issued, who) ==
  calls' = (calls \ {c}) \cup
           (IF c.of = Nobody THEN {}
            ELSE {[c EXCEPT !.answer = answer, !.issued = issued, !.who = who]})

\* A replaced session of which no tab will hear.
Abandoned(cs) ==
  {c.sid : c \in {x \in cs : x.kind \in {"login", "register", "logout"}
                             /\ x.answer = "ok" /\ x.sid # Nobody}}
Unheard(c) == IF c.of = Nobody /\ c.sid # Nobody THEN {c.sid} ELSE {}

Waits(c) == c \in calls /\ c.answer = "none"

\* POST /api/auth/login: the cookie is set when everything is done.
PostLogin(c) ==
  /\ Waits(c) /\ c.kind = "login"
  /\ \E s \in Unissued : loginAccount(c, s) /\ Answer(c, "ok", s, "account")
  /\ strays' = strays \cup Unheard(c)
  /\ UNCHANGED <<cookie, tab, spent>>

PostRegister(c) ==
  /\ Waits(c) /\ c.kind = "register"
  /\ \E s \in Unissued : registerAccount(c, s) /\ Answer(c, "ok", s, "account")
  /\ strays' = strays \cup Unheard(c)
  /\ UNCHANGED <<cookie, tab, spent>>

PostGuest(c) ==
  /\ Waits(c) /\ c.kind = "guest"
  /\ IF lookupIdentity(c.sid) = "guest"
     THEN Answer(c, "ok", Nobody, "guest") /\ UNCHANGED sessions
     ELSE \E s \in Unissued : continueAsGuest(s) /\ Answer(c, "ok", s, "guest")
  /\ UNCHANGED <<cookie, tab, strays, spent>>

PostLogout(c) ==
  /\ Waits(c) /\ c.kind = "logout"
  /\ logoutSession(c)
  /\ Answer(c, "ok", Nobody, "none")
  /\ strays' = strays \cup Unheard(c)
  /\ UNCHANGED <<cookie, tab, spent>>

GetMe(c) ==
  /\ Waits(c) /\ c.kind = "me"
  /\ Answer(c, "ok", Nobody, lookupIdentity(c.sid))
  /\ UNCHANGED <<cookie, sessions, tab, strays, spent>>

\* GET /api/channel-starter/sites and POST .../claim of a known session reach
\* the wizard (module StarterSites).
GetSites(c) ==
  /\ Waits(c) /\ c.kind = "sites"
  /\ Answer(c, IF lookupIdentity(c.sid) = "none" THEN "401" ELSE "ok", Nobody, "none")
  /\ UNCHANGED <<cookie, sessions, tab, strays, spent>>

PostClaim(c) ==
  /\ Waits(c) /\ c.kind = "claim"
  /\ Answer(c, IF lookupIdentity(c.sid) = "none" THEN "401" ELSE "ok", Nobody, "none")
  /\ UNCHANGED <<cookie, sessions, tab, strays, spent>>

\* Rate limits, wrong or taken e-mails, errors of the store or of the wizard.
Refuse(c) ==
  /\ Waits(c)
  /\ c.kind \in {"sites", "claim"} => lookupIdentity(c.sid) # "none"
  /\ Answer(c, "refused", Nobody, "none")
  /\ UNCHANGED <<cookie, sessions, tab, strays, spent>>

-----------------------------------------------------------------------------
(* The browser. *)

\* What middleware.ts makes of a navigation with the cookie jar.
MiddlewareRewritten(page, next, jar) ==
  CASE page = "gate" /\ jar # Nobody -> [at |-> next, next |-> "shop"]
    [] page \in NextPages /\ jar = Nobody -> [at |-> "gate", next |-> "gate"]
    [] OTHER -> [at |-> page, next |-> IF page \in NextPages THEN "shop" ELSE next]

Middleware(page, next, jar) ==
  CASE page = "gate" /\ jar # Nobody -> [at |-> next, next |-> "shop"]
    [] page \in NextPages /\ jar = Nobody -> [at |-> "gate", next |-> page]
    [] OTHER -> [at |-> page, next |-> IF page \in NextPages THEN "shop" ELSE next]

NewCall(t, kind, next, jar) ==
  [of |-> t, mounted |-> TRUE, kind |-> kind, next |-> next, sid |-> jar,
   answer |-> "none", issued |-> Nobody, who |-> "none"]

\* A page that is mounted: its navigation bar asks who is signed in, the list
\* of own sites asks for them.
Refresh(t, jar) == NewCall(t, "me", "shop", jar)
LoadSites(t, jar) == NewCall(t, "sites", "shop", jar)

Mount(t, page, next, jar, rest) ==
  LET to == Middleware(page, next, jar) IN
  /\ tab' = [tab EXCEPT ![t] = [at |-> to.at, next |-> to.next, busy |-> FALSE,
                                kind |-> "none", sites |-> "null"]]
  /\ calls' = rest \cup {Refresh(t, jar)}
                   \cup (IF to.at = "situs" THEN {LoadSites(t, jar)} ELSE {})

Of(t, cs) == {c \in cs : c.of = t}

\* A link, or router.push: what the old page waits for goes on, but only a
\* sign-in, a logout and a 401 do anything when they are answered.
Push(t, page, next, jar, rest) ==
  Mount(t, page, next, jar,
        (rest \ Of(t, rest)) \cup
        {[c EXCEPT !.mounted = FALSE] : c \in {x \in Of(t, rest) : x.kind # "me"}})

\* window.location.assign, a bookmark, a reload: answers on the way are
\* dropped, and what the server has not handled yet is answered to nobody.
Assign(t, page, next, jar, rest) ==
  /\ Mount(t, page, next, jar,
           (rest \ Of(t, rest)) \cup
           {[c EXCEPT !.of = Nobody] : c \in {x \in Of(t, rest) : x.answer = "none"}})
  /\ strays' = strays \cup Abandoned(Of(t, rest))

Move == spent.moves < MaxMoves /\ spent' = [spent EXCEPT !.moves = @ + 1]

\* The links of the bar,
BarLinks(t) ==
  IF tab[t].at # "gate" THEN {"shop", "situs"}
  ELSE {"shop"} \cup (IF tab[t].kind # "none" THEN {"situs"} ELSE {})

\* and of each page; only those of the gate and the sign-in pages hand ?next=
\* on.
PageLinks(t) ==
  CASE tab[t].at = "gate" -> {"auth"}
    [] tab[t].at = "auth" -> {"gate", "auth"}
    [] tab[t].at = "shop" -> {"pesan"}
    [] tab[t].at = "situs" -> IF tab[t].sites = "list" THEN {"pesan"} ELSE {}
    [] tab[t].at = "pesan" -> {"gate", "auth"}

FollowLink(t, page) ==
  /\ Move
  /\ page \in BarLinks(t) \cup PageLinks(t) /\ ~(page = "situs" /\ tab[t].at = "situs")
  /\ Push(t, page, IF tab[t].at \in PublicPages THEN tab[t].next ELSE "shop", cookie, calls)
  /\ UNCHANGED <<cookie, sessions, strays>>

OpenPage(t, page) ==
  /\ Move
  /\ Assign(t, page, "shop", cookie, calls)
  /\ UNCHANGED <<cookie, sessions>>

\* The forms of AuthPage and the buttons of the gate, one at a time.
Send(t, kind, next) ==
  /\ Move
  /\ calls' = calls \cup {NewCall(t, kind, next, cookie)}
  /\ UNCHANGED <<cookie, sessions, strays>>

Submit(t, kind) ==
  /\ tab[t].at = "auth" /\ ~tab[t].busy
  /\ kind \in {"login", "register"}
  /\ tab' = [tab EXCEPT ![t].busy = TRUE]
  /\ Send(t, kind, tab[t].next)

ContinueAsGuest(t) ==
  /\ tab[t].at \in PublicPages /\ ~tab[t].busy
  /\ tab' = [tab EXCEPT ![t].busy = TRUE]
  /\ Send(t, "guest", tab[t].next)

\* "Keluar", shown to whom the bar knows.
Logout(t) ==
  /\ tab[t].kind # "none"
  /\ Send(t, "logout", "shop")
  /\ UNCHANGED tab

\* The panel of /situs, once it shows a list or an error: "Klaim slug" and
\* "Muat ulang".  A reload takes the error away and keeps the list.
PanelShown(t) == tab[t].at = "situs" /\ tab[t].sites # "null"

Claim(t) ==
  /\ PanelShown(t) /\ ~tab[t].busy
  /\ tab' = [tab EXCEPT ![t].busy = TRUE]
  /\ Send(t, "claim", "shop")

ReloadSites(t) ==
  /\ PanelShown(t)
  /\ tab' = [tab EXCEPT ![t].sites = "list"]
  /\ Send(t, "sites", "shop")

-----------------------------------------------------------------------------
(* Answers. *)

Jar(c) == IF c.issued # Nobody THEN c.issued ELSE cookie
Heard(c, answer) == c \in calls /\ c.of # Nobody /\ c.answer = answer

\* A signed-in visitor goes on to the page the form was opened for, also when
\* the tab has left the form.
SignedIn(c) ==
  /\ Heard(c, "ok") /\ c.kind \in Signing
  /\ cookie' = Jar(c)
  /\ Push(c.of, c.next, "shop", Jar(c), calls \ {c})
  /\ UNCHANGED <<sessions, strays, spent>>

\* The answer of a logout clears the cookie; the bar leaves for the gate.
SignedOutKept(c) ==
  /\ Heard(c, "ok") /\ c.kind = "logout"
  /\ Assign(c.of, "gate", "shop", cookie, calls \ {c})
  /\ UNCHANGED <<cookie, sessions, spent>>

SignedOut(c) ==
  /\ Heard(c, "ok") /\ c.kind = "logout"
  /\ cookie' = Nobody
  /\ Assign(c.of, "gate", "shop", Nobody, calls \ {c})
  /\ UNCHANGED <<sessions, spent>>

\* The bar looks at no error: it leaves for the gate also then.
LogoutRefused(c) ==
  /\ Heard(c, "refused") /\ c.kind = "logout"
  /\ Assign(c.of, "gate", "shop", cookie, calls \ {c})
  /\ UNCHANGED <<cookie, sessions, spent>>

Show(c, field, value) ==
  tab' = IF c.mounted THEN [tab EXCEPT ![c.of][field] = value] ELSE tab

KnowsWho(c) ==
  /\ c \in calls /\ c.of # Nobody /\ c.kind = "me" /\ c.answer # "none"
  /\ Show(c, "kind", c.who)
  /\ calls' = calls \ {c}
  /\ UNCHANGED <<cookie, sessions, strays, spent>>

FormRefused(c) ==
  /\ Heard(c, "refused") /\ c.kind \in Signing \cup {"claim"}
  /\ Show(c, "busy", FALSE)
  /\ calls' = calls \ {c}
  /\ UNCHANGED <<cookie, sessions, strays, spent>>

\* An error another request left stays above the list.
SitesListed(c) ==
  /\ Heard(c, "ok") /\ c.kind = "sites"
  /\ Show(c, "sites", IF tab[c.of].sites = "error" THEN "error" ELSE "list")
  /\ calls' = calls \ {c}
  /\ UNCHANGED <<cookie, sessions, strays, spent>>

\* An error of the wizard is shown in place of the list.
SitesRetried(c) ==
  /\ Heard(c, "refused") /\ c.kind = "sites"
  /\ calls' = (calls \ {c}) \cup {[NewCall(c.of, "sites", "shop", cookie)
                                    EXCEPT !.mounted = c.mounted]}
  /\ UNCHANGED <<cookie, sessions, tab, strays, spent>>

SitesRefused(c) ==
  /\ Heard(c, "refused") /\ c.kind = "sites"
  /\ Show(c, "sites", "error")
  /\ calls' = calls \ {c}
  /\ UNCHANGED <<cookie, sessions, strays, spent>>

\* A claimed slug reloads the list.
Claimed(c) ==
  /\ Heard(c, "ok") /\ c.kind = "claim"
  /\ tab' = IF c.mounted THEN [tab EXCEPT ![c.of].busy = FALSE, ![c.of].sites = "list"]
            ELSE tab
  /\ calls' = (calls \ {c}) \cup
              {[LoadSites(c.of, cookie) EXCEPT !.mounted = c.mounted]}
  /\ UNCHANGED <<cookie, sessions, strays, spent>>

\* A 401 leads to the gate, and from there back to the list - also when the
\* tab has left it.
SentToGate(c) ==
  /\ Heard(c, "401")
  /\ Assign(c.of, "gate", "situs", cookie, calls \ {c})
  /\ UNCHANGED <<cookie, sessions, spent>>

\* A request or its answer is lost: the forms and the list have a catch, the
\* bar has none.
Lose(c) ==
  /\ c \in calls /\ c.of # Nobody
  /\ spent.losses < MaxLosses
  /\ spent' = [spent EXCEPT !.losses = @ + 1]
  /\ calls' = calls \ {c}
  /\ strays' = strays \cup Abandoned({c})
  /\ CASE c.kind \in Signing \cup {"claim"} -> Show(c, "busy", FALSE)
       [] c.kind = "sites" -> Show(c, "sites", "error")
       [] OTHER -> UNCHANGED tab
  /\ UNCHANGED <<cookie, sessions>>

-----------------------------------------------------------------------------
Handle(c) ==
  \/ PostLogin(c) \/ PostRegister(c) \/ PostGuest(c) \/ PostLogout(c)
  \/ GetMe(c) \/ GetSites(c) \/ PostClaim(c) \/ Refuse(c)

Arrive(c) ==
  \/ SignedIn(c) \/ SignedOut(c) \/ LogoutRefused(c) \/ KnowsWho(c) \/ FormRefused(c)
  \/ SitesListed(c) \/ SitesRefused(c) \/ Claimed(c) \/ SentToGate(c) \/ Lose(c)

Visitor(t) ==
  \/ \E page \in Pages : FollowLink(t, page) \/ OpenPage(t, page)
  \/ \E kind \in {"login", "register"} : Submit(t, kind)
  \/ ContinueAsGuest(t) \/ Logout(t) \/ Claim(t) \/ ReloadSites(t)

Next ==
  \/ \E t \in Tabs : Visitor(t)
  \/ \E c \in calls : Handle(c) \/ Arrive(c)

Spec == Init /\ [][Next]_vars

\* The server handles a request for the list, and the network brings its
\* answer or loses it; nothing is assumed of the visitor.
ListAnswered(t) == \E c \in Of(t, calls) : c.kind = "sites" /\ (Handle(c) \/ Arrive(c))

FairSpec == Spec /\ \A t \in Tabs : WF_vars(ListAnswered(t))

-----------------------------------------------------------------------------
(* Properties. *)

\* Types.
TypeOK ==
  /\ cookie \in Sids \cup {Nobody}
  /\ sessions \in [Sids -> {"unissued", "guest", "account", "deleted"}]
  /\ tab \in [Tabs -> Tab]
  /\ calls \subseteq Call
  /\ strays \subseteq Sids
  /\ spent \in [moves : Nat, losses : Nat]

\* The cookie names a session the server has deleted.
Stale == cookie # Nobody /\ sessions[cookie] = "deleted"

\* However the tabs sign in, register, continue as a guest and sign out over
\* one another, the cookie names a session the server knows, unless the answer
\* that replaces it is still on its way or was never received (readers of the
\* cookie: middleware.ts and readSidFromRequest).
CookieIsLive ==
  Stale => \/ cookie \in strays
           \/ \E c \in calls : c.sid = cookie /\ c.answer = "ok" /\ c.of # Nobody
                               /\ c.kind \in {"login", "register", "logout"}

\* The list of own sites ends up showing something, or the tab is at the gate:
\* the round of 401, gate and redirect back ends, unless the cookie stays stale
\* for good (MySitesPanel's 401 and middleware.ts's redirect from the gate).
RedirectsEnd ==
  \A t \in Tabs :
    []<>(tab[t].at # "situs" \/ tab[t].sites # "null") \/ <>[]Stale

=============================================================================
