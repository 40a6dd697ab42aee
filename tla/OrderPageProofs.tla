-------------------------- MODULE OrderPageProofs --------------------------
(***************************************************************************)
(* Proofs about OrderPage, for any number of orders and forms: one request *)
(* is out at a time, a form pays for one site unless the page could not    *)
(* know that the first was charged, its texts are its own, "refunded" is   *)
(* said only while nothing else is charged; and its orders are those of    *)
(* OrderPromise.                                                           *)
(*                                                                         *)
(* The page knows no order: what it says it infers from the answer it just *)
(* got.  The invariant therefore follows the orders themselves: one that   *)
(* is charged is waited for, or hidden, or it is the site the page shows,  *)
(* or it belongs to an earlier form.                                       *)
(***************************************************************************)
EXTENDS OrderPage, TLAPS

\* The flags say what is waited for, and that is one request (OneCallAtATime,
\* without its tuples).
Alone ==
  /\ \A f, g \in fills : f = g
  /\ \A o, p \in Orders : orders[o].waits /\ orders[p].waits => o = p
  /\ \A o, p \in pubs : o = p
  /\ asking => fills = {} /\ Waiting = {} /\ pubs = {}
  /\ fills # {} => Waiting = {} /\ pubs = {}
  /\ Waiting # {} => pubs = {}
  /\ page.fillBusy <=> fills # {}
  /\ page.busy <=> asking \/ Waiting # {} \/ pubs # {}

\* The texts of the form are of this form, and those of an order of its own.
FormFresh ==
  /\ page.lead = Blank \/ page.lead.round = page.round
  /\ page.extra = Blank \/ page.extra.round = page.round
  /\ \A o \in Orders : orders[o].texts \subseteq {orders[o].round}

\* The note and a publish under way are about the site shown; while an order is
\* waited for, no site is shown and nothing is said.
SiteShown ==
  /\ page.site # NoOrder => page.note.of = page.site
  /\ \A o \in pubs : page.site \in {NoOrder, o}
  /\ Waiting # {} => page.site = NoOrder /\ page.said = "nothing"

\* Where the orders are.
Traced(o) ==
  /\ orders[o].round <= page.round
  /\ orders[o].waits => orders[o].round = page.round
  /\ orders[o].stage \in {"sent", "debited", "moved", "dropped", "stuck"} =>
       orders[o].waits \/ o \in lost
  /\ orders[o].stage = "built" =>
       orders[o].waits \/ o \in lost \/ page.site = o \/ orders[o].round # page.round

OrdersTraced == \A o \in Orders : Traced(o)

IInv == TypeOK /\ Alone /\ FormFresh /\ SiteShown /\ OrdersTraced
        /\ OneSitePerForm /\ RefundedIsRefunded

-----------------------------------------------------------------------------
(* What the invariant gives                                                *)

LEMMA InvOneCall == IInv => OneCallAtATime
<1> SUFFICES ASSUME IInv PROVE OneCallAtATime
  OBVIOUS
<1>1. ASSUME NEW c \in Calls, NEW d \in Calls PROVE c = d
  <2>1. c \in {<<"fill", f>> : f \in fills} \/ c \in {<<"ask", a>> : a \in {asking} \cap {TRUE}}
        \/ c \in {<<"pay", o>> : o \in Waiting} \/ c \in {<<"publish", o>> : o \in pubs}
    BY DEF Calls
  <2>2. d \in {<<"fill", f>> : f \in fills} \/ d \in {<<"ask", a>> : a \in {asking} \cap {TRUE}}
        \/ d \in {<<"pay", o>> : o \in Waiting} \/ d \in {<<"publish", o>> : o \in pubs}
    BY DEF Calls
  <2>3. \A o, p \in Waiting : o = p
    BY DEF IInv, Alone, Waiting
  <2>4. /\ \A f, g \in fills : f = g
        /\ \A o, p \in pubs : o = p
        /\ asking => fills = {} /\ Waiting = {} /\ pubs = {}
        /\ fills # {} => Waiting = {} /\ pubs = {}
        /\ Waiting # {} => pubs = {}
    BY DEF IInv, Alone
  <2> HIDE DEF Waiting
  <2>5. CASE c \in {<<"fill", f>> : f \in fills}
    BY <2>2, <2>4, <2>5
  <2>6. CASE c \in {<<"ask", a>> : a \in {asking} \cap {TRUE}}
    BY <2>2, <2>4, <2>6
  <2>7. CASE c \in {<<"pay", o>> : o \in Waiting}
    BY <2>2, <2>3, <2>4, <2>7
  <2>8. CASE c \in {<<"publish", o>> : o \in pubs}
    BY <2>2, <2>4, <2>8
  <2> QED
    BY <2>1, <2>5, <2>6, <2>7, <2>8
<1>2. /\ page.fillBusy <=> fills # {}
      /\ page.busy <=> asking \/ Waiting # {} \/ pubs # {}
  BY DEF IInv, Alone
<1> QED
  BY <1>1, <1>2 DEF OneCallAtATime

LEMMA InvOwnRound == IInv => OwnRoundOnly
  BY DEF IInv, FormFresh, SiteShown, OwnRoundOnly

-----------------------------------------------------------------------------
(* The orders                                                              *)

\* The answer of an order comes, or does not.
LEMMA StopWaiting ==
  ASSUME TypeOK, NEW o \in Orders, orders' = [orders EXCEPT ![o].waits = FALSE]
  PROVE  /\ orders' \in [Orders -> Order]
         /\ \A p \in Orders : /\ orders'[p].stage = orders[p].stage
                              /\ orders'[p].round = orders[p].round
                              /\ orders'[p].texts = orders[p].texts
                              /\ orders'[p].waits <=> orders[p].waits /\ p # o
<1>1. orders \in [Orders -> Order]
  BY DEF TypeOK
<1>2. \A p \in Orders : orders[p] \in Order
  BY <1>1
<1>3. PICK q : q = [orders[o] EXCEPT !.waits = FALSE]
  OBVIOUS
<1>4. q \in Order /\ q.stage = orders[o].stage /\ q.round = orders[o].round
      /\ q.texts = orders[o].texts /\ q.waits = FALSE
  BY <1>2, <1>3 DEF Order
<1>5. orders' = [orders EXCEPT ![o] = q]
  BY <1>3
<1>6. \A p \in Orders : orders'[p] = IF p = o THEN q ELSE orders[p]
  BY <1>1, <1>5
<1>7. orders' \in [Orders -> Order]
  BY <1>1, <1>4, <1>5
<1>8. \A p \in Orders : orders[p].waits \in BOOLEAN
  BY <1>2 DEF Order
<1> QED
  BY <1>4, <1>6, <1>7, <1>8

-----------------------------------------------------------------------------
(* Steps that leave the orders alone                                       *)

LEMMA SameOrders ==
  ASSUME IInv, orders' = orders, lost' = lost, page'.round = page.round,
         page'.site = page.site, page'.said = page.said \/ page'.said = "nothing"
  PROVE  /\ OrdersTraced' /\ OneSitePerForm' /\ RefundedIsRefunded'
         /\ Waiting' = Waiting
BY DEF IInv, OrdersTraced, Traced, OneSitePerForm, RefundedIsRefunded, Charged, Hidden, Waiting

\* A text that is put into a field is of the form shown.
LEMMA FromTyped ==
  ASSUME NEW src \in Sources, NEW r \in Rounds
  PROVE  From(src, r) \in Text /\ (From(src, r) = Blank \/ From(src, r).round = r)
<1>1. CASE src = "blank"
  BY <1>1, OrderAssumption DEF From, Blank, Text, Sources
<1>2. CASE src # "blank"
  BY <1>2 DEF From, Text, Rounds
<1> QED
  BY <1>1, <1>2

LEMMA PageFields ==
  ASSUME TypeOK
  PROVE  /\ page.round \in Rounds /\ page.busy \in BOOLEAN /\ page.fillBusy \in BOOLEAN
         /\ page.site \in Orders \cup {NoOrder} /\ page.lead \in Text /\ page.extra \in Text
         /\ page \in Page
BY DEF TypeOK, Page

LEMMA EditFine == IInv /\ (EditLead \/ EditExtra) => IInv'
<1> SUFFICES ASSUME IInv, EditLead \/ EditExtra PROVE IInv'
  OBVIOUS
<1>1. TypeOK /\ UNCHANGED <<fills, asking, pubs, orders, up, lost>>
  BY DEF IInv, EditLead, EditExtra
<1>2. PICK src \in {"typed", "blank"} :
        \/ page' = [page EXCEPT !.lead = From(src, page.round)]
        \/ page' = [page EXCEPT !.extra = From(src, page.round)]
  BY DEF EditLead, EditExtra
<1>3. PICK x : x = From(src, page.round)
  OBVIOUS
<1>4. x \in Text /\ (x = Blank \/ x.round = page.round)
  BY <1>1, <1>3, FromTyped, PageFields DEF Sources
<1>5. page' = [page EXCEPT !.lead = x] \/ page' = [page EXCEPT !.extra = x]
  BY <1>2, <1>3
<1>6. page' \in Page
  BY <1>1, <1>4, <1>5, PageFields, Zenon DEF Page
<1>7. /\ page'.round = page.round /\ page'.site = page.site /\ page'.said = page.said
      /\ page'.note = page.note /\ page'.busy = page.busy /\ page'.fillBusy = page.fillBusy
      /\ page'.lead \in {x, page.lead} /\ page'.extra \in {x, page.extra}
  BY <1>1, <1>5, PageFields DEF Page
<1>8. OrdersTraced' /\ OneSitePerForm' /\ RefundedIsRefunded' /\ Waiting' = Waiting
  BY <1>1, <1>7, SameOrders
<1>9. TypeOK'
  BY <1>1, <1>6 DEF TypeOK
<1>10. Alone' /\ SiteShown'
  BY <1>1, <1>7, <1>8 DEF IInv, Alone, SiteShown
<1>11. FormFresh'
  BY <1>1, <1>4, <1>7 DEF IInv, FormFresh
<1> QED
  BY <1>8, <1>9, <1>10, <1>11 DEF IInv

LEMMA WalletFine == IInv /\ (AskWallet \/ WalletAnswers) => IInv'
<1> SUFFICES ASSUME IInv, AskWallet \/ WalletAnswers PROVE IInv'
  OBVIOUS
<1>1. TypeOK /\ UNCHANGED <<fills, pubs, orders, up, lost>>
  BY DEF IInv, AskWallet, WalletAnswers
<1>2. page' = [page EXCEPT !.busy = asking'] /\ asking' \in BOOLEAN
  BY DEF AskWallet, WalletAnswers
<1>3. page' \in Page
  BY <1>1, <1>2, PageFields, Zenon DEF Page
<1>4. /\ page'.round = page.round /\ page'.site = page.site /\ page'.said = page.said
      /\ page'.note = page.note /\ page'.busy = asking' /\ page'.fillBusy = page.fillBusy
      /\ page'.lead = page.lead /\ page'.extra = page.extra
  BY <1>1, <1>2, PageFields DEF Page
<1>5. OrdersTraced' /\ OneSitePerForm' /\ RefundedIsRefunded' /\ Waiting' = Waiting
  BY <1>1, <1>4, SameOrders
<1>6. TypeOK'
  BY <1>1, <1>2, <1>3 DEF TypeOK
<1>7. fills = {} /\ Waiting = {} /\ pubs = {}
  BY DEF IInv, Alone, AskWallet, WalletAnswers, Blocked
<1>8. Alone'
  BY <1>1, <1>2, <1>4, <1>5, <1>7, PageFields DEF IInv, Alone
<1>9. SiteShown' /\ FormFresh'
  BY <1>1, <1>4, <1>5 DEF IInv, SiteShown, FormFresh
<1> QED
  BY <1>5, <1>6, <1>8, <1>9 DEF IInv

LEMMA PreviewFine == IInv /\ Preview => IInv'
<1> SUFFICES ASSUME IInv, Preview PROVE IInv'
  OBVIOUS
<1>1. TypeOK /\ UNCHANGED <<asking, pubs, orders, up, lost>>
  BY DEF IInv, Preview
<1>2. page' = [page EXCEPT !.fillBusy = TRUE, !.said = "nothing"]
  BY DEF Preview
<1>3. page' \in Page
  BY <1>1, <1>2, PageFields, Zenon DEF Page
<1>4. /\ page'.round = page.round /\ page'.site = page.site /\ page'.said = "nothing"
      /\ page'.note = page.note /\ page'.busy = page.busy /\ page'.fillBusy = TRUE
      /\ page'.lead = page.lead /\ page'.extra = page.extra
  BY <1>1, <1>2, PageFields DEF Page
<1>5. OrdersTraced' /\ OneSitePerForm' /\ RefundedIsRefunded' /\ Waiting' = Waiting
  BY <1>1, <1>4, SameOrders
<1>6. fills = {} /\ Waiting = {} /\ pubs = {} /\ asking = FALSE
  BY <1>1, PageFields DEF IInv, Alone, Preview, Blocked, TypeOK
<1>7. PICK story \in BOOLEAN : fills' = {[story |-> story, attempt |-> 0, ans |-> NoFill]}
  BY <1>6 DEF Preview
<1>8. [story |-> story, attempt |-> 0, ans |-> NoFill] \in Fill
  BY DEF Fill, FillAnswer, NoFill
<1>9. TypeOK'
  BY <1>1, <1>3, <1>7, <1>8 DEF TypeOK
<1>10. Alone'
  BY <1>1, <1>4, <1>5, <1>6, <1>7 DEF IInv, Alone
<1>11. SiteShown' /\ FormFresh'
  BY <1>1, <1>4, <1>5 DEF IInv, SiteShown, FormFresh
<1> QED
  BY <1>5, <1>9, <1>10, <1>11 DEF IInv

\* The helper at work: a request of the page becomes another of the same.
LEMMA HelperFine ==
  ASSUME IInv, NEW f \in fills, NEW g \in Fill, fills' = (fills \ {f}) \cup {g},
         UNCHANGED <<page, asking, pubs, orders, up, lost>>
  PROVE  IInv'
<1>1. TypeOK'
  BY DEF IInv, TypeOK
<1>2. OrdersTraced' /\ OneSitePerForm' /\ RefundedIsRefunded' /\ Waiting' = Waiting
  BY SameOrders
<1>3. fills' = {g}
  BY DEF IInv, Alone
<1>4. Alone' /\ SiteShown' /\ FormFresh'
  BY <1>2, <1>3 DEF IInv, Alone, SiteShown, FormFresh
<1> QED
  BY <1>1, <1>2, <1>4 DEF IInv

LEMMA FillSteps ==
  ASSUME IInv, NEW f \in fills,
         FillGate(f) \/ FillRefused(f) \/ FillPreset(f) \/ FillRetry(f) \/ FillModel(f)
  PROVE  IInv'
<1>1. f \in Fill
  BY DEF IInv, TypeOK
<1>2. UNCHANGED <<page, asking, pubs, orders, up, lost>>
  BY DEF FillGate, FillRefused, FillPreset, FillRetry, FillModel, FillAnswers
<1>3. CASE FillRetry(f)
  <2>1. [f EXCEPT !.attempt = 1] \in Fill
    BY <1>1 DEF Fill
  <2> QED
    BY <1>2, <1>3, <2>1, HelperFine DEF FillRetry
<1>4. ASSUME NEW ans \in FillAnswer, FillAnswers(f, ans) PROVE IInv'
  <2>1. [f EXCEPT !.ans = ans] \in Fill
    BY <1>1 DEF Fill
  <2> QED
    BY <1>2, <1>4, <2>1, HelperFine DEF FillAnswers
<1>5. CASE FillGate(f)
  <2>1. [NoFill EXCEPT !.got = "gate"] \in FillAnswer
    BY DEF NoFill, FillAnswer
  <2> QED
    BY <1>4, <1>5, <2>1 DEF FillGate
<1>6. CASE FillRefused(f) \/ FillPreset(f)
  <2>1. Slots("blank", "blank", TRUE) \in FillAnswer /\ Slots("preset", "preset", TRUE) \in FillAnswer
    BY DEF Slots, FillAnswer
  <2> QED
    BY <1>4, <1>6, <2>1 DEF FillRefused, FillPreset
<1>7. CASE FillModel(f)
  <2>1. PICK lead \in {"blank", "model"}, extra \in {"blank", "model"} :
          FillAnswers(f, Slots(lead, extra, FALSE))
    BY <1>7 DEF FillModel
  <2>2. Slots(lead, extra, FALSE) \in FillAnswer
    BY DEF Slots, FillAnswer
  <2> QED
    BY <1>4, <2>1, <2>2
<1> QED
  BY <1>3, <1>5, <1>6, <1>7

\* The page shows the helper's texts, or the category's.
LEMMA WithFillFine ==
  ASSUME IInv, NEW f \in fills, NEW ans \in FillAnswer,
         fills' = fills \ {f}, page' = WithFill(ans),
         UNCHANGED <<asking, pubs, orders, up, lost>>
  PROVE  IInv'
<1>1. TypeOK
  BY DEF IInv
<1>2. PICK x : x = From(ShownSlots(ans).lead, page.round)
  OBVIOUS
<1>3. PICK y : y = IF page.extra = Blank THEN From(ShownSlots(ans).extra, page.round)
                   ELSE page.extra
  OBVIOUS
<1>4. ShownSlots(ans).lead \in Sources /\ ShownSlots(ans).extra \in Sources
  BY DEF FillAnswer, ShownSlots, Sources
<1>5. /\ x \in Text /\ (x = Blank \/ x.round = page.round)
      /\ y \in Text /\ (y = Blank \/ y.round = page.round)
  BY <1>1, <1>2, <1>3, <1>4, FromTyped, PageFields DEF IInv, FormFresh
<1>6. PICK h \in {"preset", "model"} : h = IF ans.fallback THEN "preset" ELSE "model"
  OBVIOUS
<1>7. page' = [page EXCEPT !.lead = x, !.extra = y, !.hint = h,
                           !.previewed = TRUE, !.fillBusy = FALSE]
  BY <1>2, <1>3, <1>6, Zenon DEF WithFill
<1>8. page' \in Page
  BY <1>1, <1>5, <1>7, PageFields, Zenon DEF Page
<1>9. /\ page'.round = page.round /\ page'.site = page.site /\ page'.said = page.said
      /\ page'.note = page.note /\ page'.busy = page.busy /\ page'.fillBusy = FALSE
      /\ page'.lead = x /\ page'.extra = y
  BY <1>1, <1>7, PageFields DEF Page
<1>10. OrdersTraced' /\ OneSitePerForm' /\ RefundedIsRefunded' /\ Waiting' = Waiting
  BY <1>9, SameOrders
<1>11. fills' = {}
  BY DEF IInv, Alone
<1>12. TypeOK'
  BY <1>1, <1>8, <1>11 DEF TypeOK
<1>13. Alone' /\ SiteShown' /\ FormFresh'
  BY <1>5, <1>9, <1>10, <1>11 DEF IInv, Alone, SiteShown, FormFresh
<1> QED
  BY <1>10, <1>12, <1>13 DEF IInv

LEMMA ShowFillFine ==
  ASSUME IInv, NEW f \in fills, ShowFill(f) \/ LoseFill(f) PROVE IInv'
<1>1. f.ans \in FillAnswer
  BY DEF IInv, TypeOK, Fill
<1>2. Slots("preset", "preset", TRUE) \in FillAnswer
  BY DEF Slots, FillAnswer
<1> QED
  BY <1>1, <1>2, WithFillFine DEF ShowFill, LoseFill

LEMMA LeaveFine == ASSUME IInv, NEW f \in fills, LeaveForGate(f) PROVE IInv'
<1>1. TypeOK /\ UNCHANGED <<asking, pubs, orders, up, lost>>
  BY DEF IInv, LeaveForGate
<1>2. page' = [page EXCEPT !.away = TRUE, !.fillBusy = FALSE] /\ fills' = {}
  BY DEF IInv, Alone, LeaveForGate
<1>3. page' \in Page
  BY <1>1, <1>2, PageFields, Zenon DEF Page
<1>4. /\ page'.round = page.round /\ page'.site = page.site /\ page'.said = page.said
      /\ page'.note = page.note /\ page'.busy = page.busy /\ page'.fillBusy = FALSE
      /\ page'.lead = page.lead /\ page'.extra = page.extra
  BY <1>1, <1>2, PageFields DEF Page
<1>5. OrdersTraced' /\ OneSitePerForm' /\ RefundedIsRefunded' /\ Waiting' = Waiting
  BY <1>1, <1>4, SameOrders
<1>6. TypeOK'
  BY <1>1, <1>2, <1>3 DEF TypeOK
<1>7. Alone' /\ SiteShown' /\ FormFresh'
  BY <1>1, <1>2, <1>4, <1>5 DEF IInv, Alone, SiteShown, FormFresh
<1> QED
  BY <1>5, <1>6, <1>7 DEF IInv

-----------------------------------------------------------------------------
(* The site and its publish                                                *)

LEMMA PublishFine == IInv /\ Publish => IInv'
<1> SUFFICES ASSUME IInv, Publish PROVE IInv'
  OBVIOUS
<1>1. TypeOK /\ UNCHANGED <<fills, asking, orders, up, lost>>
  BY DEF IInv, Publish
<1>2. page' = [page EXCEPT !.busy = TRUE] /\ page.site \in Orders
  BY <1>1, PageFields DEF Publish
<1>3. page' \in Page
  BY <1>1, <1>2, PageFields, Zenon DEF Page
<1>4. /\ page'.round = page.round /\ page'.site = page.site /\ page'.said = page.said
      /\ page'.note = page.note /\ page'.busy = TRUE /\ page'.fillBusy = page.fillBusy
      /\ page'.lead = page.lead /\ page'.extra = page.extra
  BY <1>1, <1>2, PageFields DEF Page
<1>5. OrdersTraced' /\ OneSitePerForm' /\ RefundedIsRefunded' /\ Waiting' = Waiting
  BY <1>1, <1>4, SameOrders
<1>6. fills = {} /\ Waiting = {} /\ pubs = {} /\ asking = FALSE
  BY <1>1, PageFields DEF IInv, Alone, Publish, Blocked, TypeOK
<1>7. pubs' = {page.site}
  BY <1>6 DEF Publish
<1>8. TypeOK'
  BY <1>1, <1>2, <1>3, <1>7 DEF TypeOK
<1>9. Alone' /\ SiteShown' /\ FormFresh'
  BY <1>1, <1>4, <1>5, <1>6, <1>7 DEF IInv, Alone, SiteShown, FormFresh
<1> QED
  BY <1>5, <1>8, <1>9 DEF IInv

LEMMA ShowPublishedFine ==
  ASSUME IInv, NEW o \in Orders, ShowPublished(o) PROVE IInv'
<1>1. TypeOK /\ UNCHANGED <<fills, asking, orders, up, lost>> /\ o \in pubs
  BY DEF IInv, ShowPublished
<1>2. PICK ok \in BOOLEAN :
        page' = [page EXCEPT !.busy = FALSE,
                             !.note = IF page.site = NoOrder THEN page.note ELSE [of |-> o, ok |-> ok]]
  BY DEF ShowPublished
<1>3. PICK n : n = IF page.site = NoOrder THEN page.note ELSE [of |-> o, ok |-> ok]
  OBVIOUS
<1>4. n \in [of : Orders \cup {NoOrder}, ok : BOOLEAN]
  BY <1>1, <1>3, PageFields DEF Page
<1>5. page' = [page EXCEPT !.busy = FALSE, !.note = n]
  BY <1>2, <1>3
<1>6. page' \in Page
  BY <1>1, <1>4, <1>5, PageFields, Zenon DEF Page
<1>7. /\ page'.round = page.round /\ page'.site = page.site /\ page'.said = page.said
      /\ page'.note = n /\ page'.busy = FALSE /\ page'.fillBusy = page.fillBusy
      /\ page'.lead = page.lead /\ page'.extra = page.extra
  BY <1>1, <1>5, PageFields DEF Page
<1>8. OrdersTraced' /\ OneSitePerForm' /\ RefundedIsRefunded' /\ Waiting' = Waiting
  BY <1>1, <1>7, SameOrders
<1>9. fills = {} /\ Waiting = {} /\ asking = FALSE /\ pubs' = {}
  BY <1>1 DEF IInv, Alone, ShowPublished, TypeOK
<1>10. TypeOK'
  BY <1>1, <1>6, <1>9 DEF TypeOK
<1>11. Alone' /\ FormFresh'
  BY <1>1, <1>7, <1>8, <1>9 DEF IInv, Alone, FormFresh
<1>12. SiteShown'
  BY <1>1, <1>3, <1>7, <1>8, <1>9 DEF IInv, SiteShown
<1> QED
  BY <1>8, <1>10, <1>11, <1>12 DEF IInv

\* "Buat site lain": the orders are of forms before the new one.
LEMMA AnotherSiteFine == IInv /\ AnotherSite => IInv'
<1> SUFFICES ASSUME IInv, AnotherSite PROVE IInv'
  OBVIOUS
<1>1. TypeOK /\ UNCHANGED <<fills, asking, pubs, orders, up, lost>>
  BY DEF IInv, AnotherSite
<1>2. page.round + 1 \in Rounds /\ page.site # NoOrder
  BY <1>1, PageFields, OrderAssumption DEF AnotherSite, Rounds
<1>3. PICK r : r = page.round + 1
  OBVIOUS
<1>4. Blank \in Text
  BY OrderAssumption DEF Blank, Text, Sources
<1>5. page' = [page EXCEPT !.site = NoOrder, !.lead = Blank, !.extra = Blank,
                           !.previewed = FALSE, !.hint = "none", !.round = r]
  BY <1>3, Zenon DEF AnotherSite
<1>6. page' \in Page
  BY <1>1, <1>2, <1>3, <1>4, <1>5, PageFields, Zenon DEF Page
<1>7. /\ page'.round = page.round + 1 /\ page'.site = NoOrder /\ page'.said = page.said
      /\ page'.busy = page.busy /\ page'.fillBusy = page.fillBusy
      /\ page'.lead = Blank /\ page'.extra = Blank
  BY <1>1, <1>3, <1>5, PageFields DEF Page
<1>8. Waiting' = {} /\ Waiting = {}
  BY <1>1, <1>2 DEF IInv, SiteShown, Waiting
<1>9. \A o \in Orders : orders[o].round \in Nat /\ orders[o].round <= page.round /\ ~ orders[o].waits
  BY <1>1, <1>8 DEF IInv, OrdersTraced, Traced, Waiting, TypeOK, Order, Rounds
<1>10. page.round \in Nat
  BY <1>1, PageFields DEF Rounds
<1>11. OrdersTraced'
  BY <1>1, <1>7, <1>9, <1>10 DEF IInv, OrdersTraced, Traced
<1>12. OneSitePerForm' /\ RefundedIsRefunded'
  BY <1>1, <1>7, <1>9, <1>10 DEF IInv, OneSitePerForm, RefundedIsRefunded, Charged, Hidden
<1>13. TypeOK'
  BY <1>1, <1>6 DEF TypeOK
<1>14. Alone' /\ SiteShown' /\ FormFresh'
  BY <1>1, <1>7, <1>8 DEF IInv, Alone, SiteShown, FormFresh
<1> QED
  BY <1>11, <1>12, <1>13, <1>14 DEF IInv

\* The page is loaded again: what it waited for is lost to it.
LEMMA ReloadFine == IInv /\ Reload => IInv'
<1> SUFFICES ASSUME IInv, Reload PROVE IInv'
  OBVIOUS
<1>1. TypeOK /\ UNCHANGED up /\ fills' = {} /\ pubs' = {} /\ asking' = FALSE
      /\ lost' = lost \cup Waiting /\ page' = EmptyForm(page.round + 1)
  BY DEF IInv, Reload
<1>2. page.round + 1 \in Rounds /\ page.round \in Nat
  BY <1>1, PageFields, OrderAssumption DEF Reload, Rounds
<1>3. page' \in Page
  BY <1>1, <1>2, OrderAssumption DEF EmptyForm, Page, Blank, Text, Sources
<1>4. /\ page'.round = page.round + 1 /\ page'.site = NoOrder /\ page'.said = "nothing"
      /\ page'.busy = FALSE /\ page'.fillBusy = FALSE
      /\ page'.lead = Blank /\ page'.extra = Blank
  BY <1>1 DEF EmptyForm
<1>5. \A o \in Orders : orders[o] \in Order
  BY <1>1 DEF TypeOK
<1>6. \A o \in Orders : orders'[o] = [orders[o] EXCEPT !.waits = FALSE]
  BY DEF Reload
<1>7. \A o \in Orders : /\ orders'[o].stage = orders[o].stage /\ ~ orders'[o].waits
                        /\ orders'[o].round = orders[o].round
                        /\ orders'[o].texts = orders[o].texts
                        /\ orders'[o] \in Order
  BY <1>5, <1>6 DEF Order
<1>8. orders' \in [Orders -> Order]
  BY <1>7 DEF Reload
<1>9. Waiting' = {} /\ lost' \subseteq Orders
  BY <1>1, <1>7 DEF Waiting, TypeOK
<1>10. \A o \in Orders : orders[o].round \in Nat /\ orders[o].round <= page.round
  BY <1>5 DEF IInv, OrdersTraced, Traced, Order, Rounds
<1>11. OrdersTraced'
  BY <1>1, <1>2, <1>4, <1>7, <1>10 DEF IInv, OrdersTraced, Traced, Waiting
<1>12. OneSitePerForm' /\ RefundedIsRefunded'
  BY <1>1, <1>4, <1>7 DEF IInv, OneSitePerForm, RefundedIsRefunded, Charged, Hidden
<1>13. TypeOK'
  BY <1>1, <1>3, <1>8, <1>9 DEF TypeOK
<1>14. Alone' /\ SiteShown' /\ FormFresh'
  BY <1>1, <1>4, <1>7, <1>9 DEF IInv, Alone, SiteShown, FormFresh
<1> QED
  BY <1>11, <1>12, <1>13, <1>14 DEF IInv

-----------------------------------------------------------------------------
(* Paying                                                                  *)

LEMMA PayFine == ASSUME IInv, NEW o \in Orders, Pay(o) PROVE IInv'
<1>1. TypeOK /\ UNCHANGED <<fills, asking, pubs, up, lost>>
  BY DEF IInv, Pay
<1>2. page.site = NoOrder /\ orders[o].stage = "new"
  BY DEF Pay, OnForm
<1>3. fills = {} /\ Waiting = {} /\ pubs = {} /\ asking = FALSE
  BY <1>1, PageFields DEF IInv, Alone, Pay, Blocked, TypeOK
<1>4. page' = [page EXCEPT !.busy = TRUE, !.said = "nothing"]
  BY DEF Pay
<1>5. page' \in Page
  BY <1>1, <1>4, PageFields, Zenon DEF Page
<1>6. /\ page'.round = page.round /\ page'.site = NoOrder /\ page'.said = "nothing"
      /\ page'.note = page.note /\ page'.busy = TRUE /\ page'.fillBusy = page.fillBusy
      /\ page'.lead = page.lead /\ page'.extra = page.extra
  BY <1>1, <1>2, <1>4, PageFields DEF Page
<1>7. SentTexts \subseteq {page.round} /\ SentTexts \subseteq Rounds
  BY <1>1, PageFields DEF SentTexts, IInv, FormFresh
<1>8. PICK q : q = [NewOrder EXCEPT !.stage = "sent", !.waits = TRUE, !.round = page.round,
                                    !.texts = SentTexts]
  OBVIOUS
<1>9. q = [stage |-> "sent", waits |-> TRUE, round |-> page.round, texts |-> SentTexts]
  BY <1>8, Zenon DEF NewOrder
<1>10. q \in Order /\ q.stage = "sent" /\ q.waits = TRUE /\ q.round = page.round
       /\ q.texts = SentTexts
  BY <1>1, <1>7, <1>9, PageFields DEF Order
<1>11. orders' = [orders EXCEPT ![o] = q] /\ orders \in [Orders -> Order]
  BY <1>1, <1>8, Zenon DEF Pay, TypeOK
<1>12. orders' \in [Orders -> Order] /\ \A p \in Orders : orders'[p] = IF p = o THEN q ELSE orders[p]
  BY <1>10, <1>11
<1>13. \A p \in Orders : ~ orders[p].waits
  BY <1>3 DEF Waiting
<1>14. Waiting' = {o}
  BY <1>10, <1>12, <1>13 DEF Waiting
<1>15. page.round \in Nat
  BY <1>1, PageFields DEF Rounds
<1>16. OrdersTraced'
  BY <1>1, <1>2, <1>6, <1>10, <1>12, <1>15 DEF IInv, OrdersTraced, Traced
<1>17. OneSitePerForm' /\ RefundedIsRefunded'
  BY <1>1, <1>6, <1>10, <1>12 DEF IInv, OneSitePerForm, RefundedIsRefunded, Charged, Hidden
<1>18. TypeOK'
  BY <1>1, <1>5, <1>12 DEF TypeOK
<1>19. Alone'
  <2>1. \A p, r \in Orders : orders'[p].waits /\ orders'[r].waits => p = r
    BY <1>12, <1>13
  <2> QED
    BY <1>1, <1>3, <1>6, <1>14, <2>1 DEF IInv, Alone
<1>20. FormFresh'
  BY <1>6, <1>7, <1>10, <1>12 DEF IInv, FormFresh
<1>21. SiteShown'
  BY <1>1, <1>3, <1>6 DEF SiteShown
<1> QED
  BY <1>16, <1>17, <1>18, <1>19, <1>20, <1>21 DEF IInv

\* The portal works on an order; only a debit charges it.
LEMMA PortalFine ==
  ASSUME IInv, NEW o \in Orders, Refuse(o) \/ Debit(o) \/ Build(o) \/ FailOrder(o)
  PROVE  IInv'
<1>1. TypeOK /\ UNCHANGED <<page, fills, asking, pubs, up, lost>>
  BY DEF IInv, Refuse, Debit, Build, FailOrder, Portal
<1>2. PICK to \in {"refused", "debited", "built", "refunded", "unrefunded"} :
        /\ orders' = [orders EXCEPT ![o].stage = to]
        /\ to \in {"refused", "debited"} => orders[o].stage = "sent"
        /\ to \in {"built", "refunded", "unrefunded"} => orders[o].stage \in {"debited", "moved"}
  BY DEF Refuse, Debit, Build, FailOrder, Portal
<1>3. /\ orders' \in [Orders -> Order]
      /\ \A p \in Orders : /\ orders'[p].stage = IF p = o THEN to ELSE orders[p].stage
                           /\ orders'[p].round = orders[p].round
                           /\ orders'[p].texts = orders[p].texts
                           /\ orders'[p].waits = orders[p].waits
  <2>1. orders \in [Orders -> Order] /\ orders[o] \in Order
    BY <1>1 DEF TypeOK
  <2>2. PICK q : q = [orders[o] EXCEPT !.stage = to]
    OBVIOUS
  <2>3. q \in Order /\ q.stage = to /\ q.round = orders[o].round
        /\ q.texts = orders[o].texts /\ q.waits = orders[o].waits
    BY <2>1, <2>2 DEF Order
  <2>4. orders' = [orders EXCEPT ![o] = q]
    BY <1>2, <2>2
  <2>5. \A p \in Orders : orders'[p] = IF p = o THEN q ELSE orders[p]
    BY <2>1, <2>4
  <2>6. orders' \in [Orders -> Order]
    BY <2>1, <2>3, <2>4
  <2> QED
    BY <2>3, <2>5, <2>6
<1>4. Waiting' = Waiting
  BY <1>3 DEF Waiting
<1>5. \A p \in Orders : Traced(p)
  BY DEF IInv, OrdersTraced
<1>6. orders[o].waits \/ o \in lost
  BY <1>2, <1>5 DEF Traced
<1>7. OrdersTraced'
  BY <1>1, <1>2, <1>3, <1>5, <1>6 DEF OrdersTraced, Traced
<1>8. OneSitePerForm'
  <2> SUFFICES ASSUME NEW p \in Orders, NEW r \in Orders, p \in Charged', r \in Charged',
                      p # r, orders[p].round = orders[r].round, ~Hidden(p)', ~Hidden(r)'
               PROVE  FALSE
    BY <1>1, <1>3 DEF OneSitePerForm, Charged, Hidden
  <2>1. ASSUME NEW c \in Orders, c \in Charged', c # o PROVE c \in Charged
    BY <1>3, <2>1 DEF Charged
  <2>4. ASSUME NEW c \in Orders, ~Hidden(c)', c \in Charged PROVE ~Hidden(c)
    BY <1>1, <1>2, <1>3, <2>4 DEF Hidden
  <2>2. p \in Charged /\ r \in Charged => FALSE
    BY <2>4 DEF IInv, OneSitePerForm
  <2>3. ASSUME NEW c \in Orders, c \in Charged, c # o, ~Hidden(c), o \notin lost,
               orders[c].round = orders[o].round, o \notin Charged
        PROVE  FALSE
    <3>1. orders[o].waits /\ page.site = NoOrder /\ orders[o].round = page.round
      BY <1>5, <1>6, <2>3 DEF IInv, SiteShown, Waiting, Traced
    <3>2. ~ orders[c].waits
      BY <2>3, <3>1 DEF IInv, Alone
    <3>3. page.site = c
      BY <1>5, <2>3, <3>1, <3>2 DEF Traced, Charged, Hidden
    <3> QED
      BY <3>1, <3>3, OrderAssumption
  <2>5. ASSUME NEW c \in Orders, ~Hidden(c)' PROVE c \notin lost
    BY <1>1, <2>5 DEF Hidden
  <2>6. ASSUME NEW c \in Orders, c # o, c \in Charged', ~Hidden(c)',
               orders[c].round = orders[o].round, o \in Charged', ~Hidden(o)', o \notin Charged
        PROVE  FALSE
    BY <2>1, <2>3, <2>4, <2>5, <2>6
  <2> QED
    BY <2>1, <2>2, <2>6
<1>9. RefundedIsRefunded'
  <2> SUFFICES ASSUME page.said = "refunded", NEW p \in Charged', orders[p].round = page.round
               PROVE  p \in lost \/ orders'[p].stage = "unrefunded"
    BY <1>1, <1>3 DEF RefundedIsRefunded, Charged, Hidden
  <2>1. CASE p \in Charged
    BY <1>2, <1>3, <2>1 DEF IInv, RefundedIsRefunded, Hidden
  <2>2. CASE p \notin Charged
    <3>1. p = o
      BY <1>3, <2>2 DEF Charged
    <3> QED
      BY <1>6, <3>1 DEF IInv, SiteShown, Waiting
  <2> QED
    BY <2>1, <2>2
<1>10. TypeOK'
  BY <1>1, <1>3 DEF TypeOK
<1>11. Alone' /\ SiteShown' /\ FormFresh'
  BY <1>1, <1>3, <1>4 DEF IInv, Alone, SiteShown, FormFresh
<1> QED
  BY <1>7, <1>8, <1>9, <1>10, <1>11 DEF IInv

\* A registration in another tab: what is debited is moved.
LEMMA RegisterFine == IInv /\ Register => IInv'
<1> SUFFICES ASSUME IInv, Register PROVE IInv'
  OBVIOUS
<1>1. TypeOK /\ UNCHANGED <<page, fills, asking, pubs, up, lost>>
  BY DEF IInv, Register
<1>2. \A p \in Orders : orders[p] \in Order
  BY <1>1 DEF TypeOK
<1>3. PICK guests \in SUBSET {o \in Orders : orders[o].stage = "debited"} :
        orders' = [o \in Orders |-> IF o \in guests THEN [orders[o] EXCEPT !.stage = "moved"]
                                    ELSE orders[o]]
  BY DEF Register
<1>4. ASSUME NEW p \in Orders
      PROVE  /\ orders'[p] \in Order
             /\ orders'[p].round = orders[p].round
             /\ orders'[p].texts = orders[p].texts
             /\ orders'[p].waits = orders[p].waits
             /\ \/ orders'[p].stage = orders[p].stage
                \/ orders[p].stage = "debited" /\ orders'[p].stage = "moved"
  <2>1. CASE p \in guests
    <3>1. orders'[p] = [orders[p] EXCEPT !.stage = "moved"] /\ orders[p].stage = "debited"
      BY <1>3, <2>1
    <3> QED
      BY <1>2, <3>1 DEF Order
  <2>2. CASE p \notin guests
    BY <1>2, <1>3, <2>2
  <2> QED
    BY <2>1, <2>2
<1>5. orders' \in [Orders -> Order]
  BY <1>3, <1>4
<1>6. Waiting' = Waiting /\ Charged' = Charged
  BY <1>4 DEF Waiting, Charged
<1>7. OrdersTraced'
  BY <1>1, <1>4 DEF IInv, OrdersTraced, Traced
<1>8. OneSitePerForm' /\ RefundedIsRefunded'
  BY <1>1, <1>4, <1>6 DEF IInv, OneSitePerForm, RefundedIsRefunded, Charged, Hidden
<1>9. TypeOK'
  BY <1>1, <1>5 DEF TypeOK
<1>10. Alone' /\ SiteShown' /\ FormFresh'
  BY <1>1, <1>4, <1>6 DEF IInv, Alone, SiteShown, FormFresh
<1> QED
  BY <1>7, <1>8, <1>9, <1>10 DEF IInv

\* The portal dies: what was sent is dropped, what was debited is stuck.
LEMMA DiesFine == IInv /\ PortalDies => IInv'
<1> SUFFICES ASSUME IInv, PortalDies PROVE IInv'
  OBVIOUS
<1>1. TypeOK /\ UNCHANGED <<page, fills, asking, pubs, lost>> /\ up' = FALSE
  BY DEF IInv, PortalDies
<1>2. \A p \in Orders : orders[p] \in Order
  BY <1>1 DEF TypeOK
<1>3. ASSUME NEW p \in Orders
      PROVE  /\ orders'[p] \in Order
             /\ orders'[p].round = orders[p].round
             /\ orders'[p].texts = orders[p].texts
             /\ orders'[p].waits = orders[p].waits
             /\ \/ orders'[p].stage = orders[p].stage
                \/ orders[p].stage = "sent" /\ orders'[p].stage = "dropped"
                \/ orders[p].stage \in {"debited", "moved"} /\ orders'[p].stage = "stuck"
  <2>1. orders'[p] = CASE orders[p].stage = "sent" -> [orders[p] EXCEPT !.stage = "dropped"]
                       [] orders[p].stage \in {"debited", "moved"} ->
                            [orders[p] EXCEPT !.stage = "stuck"]
                       [] OTHER -> orders[p]
    BY DEF PortalDies
  <2>2. CASE orders[p].stage = "sent"
    <3>1. orders'[p] = [orders[p] EXCEPT !.stage = "dropped"]
      BY <2>1, <2>2
    <3> QED
      BY <1>2, <2>2, <3>1 DEF Order
  <2>3. CASE orders[p].stage \in {"debited", "moved"}
    <3>1. orders'[p] = [orders[p] EXCEPT !.stage = "stuck"]
      BY <2>1, <2>3
    <3> QED
      BY <1>2, <2>3, <3>1 DEF Order
  <2>4. CASE orders[p].stage \notin {"sent", "debited", "moved"}
    <3>1. orders'[p] = orders[p]
      BY <2>1, <2>4
    <3> QED
      BY <1>2, <3>1
  <2> QED
    BY <2>2, <2>3, <2>4
<1>4. orders' \in [Orders -> Order]
  BY <1>3 DEF PortalDies
<1>5. Waiting' = Waiting /\ Charged' = Charged
  BY <1>3 DEF Waiting, Charged
<1>6. OrdersTraced'
  BY <1>1, <1>3 DEF IInv, OrdersTraced, Traced
<1>7. OneSitePerForm' /\ RefundedIsRefunded'
  BY <1>1, <1>3, <1>5 DEF IInv, OneSitePerForm, RefundedIsRefunded, Charged, Hidden
<1>8. TypeOK'
  BY <1>1, <1>4 DEF TypeOK
<1>9. Alone' /\ SiteShown' /\ FormFresh'
  BY <1>1, <1>3, <1>5 DEF IInv, Alone, SiteShown, FormFresh
<1> QED
  BY <1>6, <1>7, <1>8, <1>9 DEF IInv

\* The one order waited for is not waited for any more.
LEMMA Settled ==
  ASSUME IInv, NEW o \in Orders, orders[o].waits,
         orders' = [orders EXCEPT ![o].waits = FALSE]
  PROVE  /\ orders' \in [Orders -> Order] /\ Waiting' = {} /\ Charged' = Charged
         /\ fills = {} /\ asking = FALSE /\ pubs = {}
         /\ page.site = NoOrder /\ orders[o].round = page.round
         /\ \A p \in Orders : /\ orders'[p].stage = orders[p].stage
                              /\ orders'[p].round = orders[p].round
                              /\ orders'[p].texts = orders[p].texts
                              /\ ~ orders'[p].waits
                              /\ orders[p].waits => p = o
<1>1. TypeOK /\ Waiting # {}
  BY DEF IInv, Waiting
<1>2. \A p \in Orders : orders[p].waits => p = o
  BY DEF IInv, Alone
<1>3. /\ orders' \in [Orders -> Order]
      /\ \A p \in Orders : /\ orders'[p].stage = orders[p].stage
                           /\ orders'[p].round = orders[p].round
                           /\ orders'[p].texts = orders[p].texts
                           /\ orders'[p].waits <=> orders[p].waits /\ p # o
  BY <1>1, StopWaiting
<1>4. fills = {} /\ asking = FALSE /\ pubs = {} /\ page.site = NoOrder
  BY <1>1 DEF IInv, Alone, SiteShown, TypeOK
<1>5. orders[o].round = page.round
  BY DEF IInv, OrdersTraced, Traced
<1>6. Waiting' = {} /\ Charged' = Charged
  BY <1>2, <1>3 DEF Waiting, Charged
<1> QED
  BY <1>2, <1>3, <1>4, <1>5, <1>6

LEMMA BuiltFine == ASSUME IInv, NEW o \in Orders, ShowBuilt(o) PROVE IInv'
<1>1. TypeOK /\ UNCHANGED <<fills, asking, pubs, up, lost>> /\ orders[o].stage = "built"
      /\ orders[o].waits /\ orders' = [orders EXCEPT ![o].waits = FALSE]
  BY DEF IInv, ShowBuilt
<1>2. /\ orders' \in [Orders -> Order] /\ Waiting' = {} /\ Charged' = Charged
      /\ fills = {} /\ asking = FALSE /\ pubs = {}
      /\ page.site = NoOrder /\ orders[o].round = page.round
      /\ \A p \in Orders : /\ orders'[p].stage = orders[p].stage
                           /\ orders'[p].round = orders[p].round
                           /\ orders'[p].texts = orders[p].texts
                           /\ ~ orders'[p].waits
                           /\ orders[p].waits => p = o
  BY <1>1, Settled
<1>3. PICK ok \in BOOLEAN :
        page' = [page EXCEPT !.busy = FALSE, !.site = o, !.note = [of |-> o, ok |-> ok]]
  BY DEF ShowBuilt
<1>4. PICK n : n = [of |-> o, ok |-> ok]
  OBVIOUS
<1>5. n \in [of : Orders \cup {NoOrder}, ok : BOOLEAN] /\ n.of = o
  BY <1>4
<1>6. page' = [page EXCEPT !.busy = FALSE, !.site = o, !.note = n]
  BY <1>3, <1>4
<1>7. page' \in Page
  BY <1>1, <1>5, <1>6, PageFields, Zenon DEF Page
<1>8. /\ page'.round = page.round /\ page'.site = o /\ page'.said = page.said
      /\ page'.note = n /\ page'.busy = FALSE /\ page'.fillBusy = page.fillBusy
      /\ page'.lead = page.lead /\ page'.extra = page.extra
  BY <1>1, <1>6, PageFields DEF Page
<1>9. OrdersTraced'
  BY <1>1, <1>2, <1>8, OrderAssumption DEF IInv, OrdersTraced, Traced
<1>10. OneSitePerForm' /\ RefundedIsRefunded'
  BY <1>1, <1>2, <1>8 DEF IInv, OneSitePerForm, RefundedIsRefunded, Charged, Hidden
<1>11. TypeOK'
  BY <1>1, <1>2, <1>7 DEF TypeOK
<1>12. Alone' /\ SiteShown' /\ FormFresh'
  BY <1>1, <1>2, <1>5, <1>8 DEF IInv, Alone, SiteShown, FormFresh
<1> QED
  BY <1>9, <1>10, <1>11, <1>12 DEF IInv

\* No site: the portal refused or refunded the order, or its answer is lost.
LEMMA NoSiteFine ==
  ASSUME IInv, NEW o \in Orders, orders[o].waits,
         orders' = [orders EXCEPT ![o].waits = FALSE],
         NEW s \in {"refused", "refunded"},
         page' = [page EXCEPT !.busy = FALSE, !.said = s],
         o \in lost' \/ orders[o].stage \in {"refused", "refunded", "unrefunded"},
         lost \subseteq lost', lost' \subseteq Orders,
         UNCHANGED <<fills, asking, pubs, up>>
  PROVE  IInv'
<1>1. TypeOK
  BY DEF IInv
<1>2. /\ orders' \in [Orders -> Order] /\ Waiting' = {} /\ Charged' = Charged
      /\ fills = {} /\ asking = FALSE /\ pubs = {}
      /\ page.site = NoOrder /\ orders[o].round = page.round
      /\ \A p \in Orders : /\ orders'[p].stage = orders[p].stage
                           /\ orders'[p].round = orders[p].round
                           /\ orders'[p].texts = orders[p].texts
                           /\ ~ orders'[p].waits
                           /\ orders[p].waits => p = o
  BY Settled
<1>3. page' \in Page
  BY <1>1, PageFields, Zenon DEF Page
<1>4. /\ page'.round = page.round /\ page'.site = page.site /\ page'.said = s
      /\ page'.note = page.note /\ page'.busy = FALSE /\ page'.fillBusy = page.fillBusy
      /\ page'.lead = page.lead /\ page'.extra = page.extra
  BY <1>1, PageFields DEF Page
<1>5. OrdersTraced'
  BY <1>1, <1>2, <1>4 DEF IInv, OrdersTraced, Traced
<1>6. OneSitePerForm'
  BY <1>2 DEF IInv, OneSitePerForm, Charged, Hidden
\* An order of this form that is charged is lost, or its site would be shown.
<1>7. RefundedIsRefunded'
  <2>1. ASSUME NEW p \in Orders, p \in Charged, orders[p].round = page.round
        PROVE  p \in lost' \/ orders[p].stage = "unrefunded"
    <3>1. p = o \/ ~ orders[p].waits
      BY <1>2
    <3>2. p \in lost \/ p = o \/ orders[p].stage = "unrefunded"
      BY <1>2, <2>1, <3>1, OrderAssumption DEF IInv, OrdersTraced, Traced, Charged
    <3> QED
      BY <2>1, <3>2 DEF Charged
  <2> QED
    BY <1>2, <1>4, <2>1 DEF RefundedIsRefunded, Charged, Hidden
<1>8. TypeOK'
  BY <1>1, <1>2, <1>3 DEF TypeOK
<1>9. Alone' /\ SiteShown' /\ FormFresh'
  BY <1>1, <1>2, <1>4 DEF IInv, Alone, SiteShown, FormFresh
<1> QED
  BY <1>5, <1>6, <1>7, <1>8, <1>9 DEF IInv

LEMMA AnswerFine ==
  ASSUME IInv, NEW o \in Orders, ShowRefused(o) \/ LosePay(o) PROVE IInv'
<1>1. TypeOK
  BY DEF IInv
<1>2. CASE ShowRefused(o)
  <2>1. PICK s \in {"refused", "refunded"} : s = Told(o)
    BY DEF Told
  <2>2. page' = [page EXCEPT !.busy = FALSE, !.said = s]
    BY <1>2, <2>1 DEF ShowRefused
  <2> QED
    BY <1>1, <1>2, <2>2, NoSiteFine DEF ShowRefused, TypeOK
<1>3. CASE LosePay(o)
  <2>1. lost' \subseteq Orders
    BY <1>1, <1>3 DEF LosePay, TypeOK
  <2> QED
    BY <1>3, <2>1, NoSiteFine DEF LosePay
<1> QED
  BY <1>2, <1>3

-----------------------------------------------------------------------------
(* The theorems                                                            *)

LEMMA InitInv == Init => IInv
<1> SUFFICES ASSUME Init PROVE IInv
  OBVIOUS
<1>1. page = EmptyForm(0) /\ 0 \in Rounds
  BY OrderAssumption DEF Init, Rounds
<1>2. page \in Page
  BY <1>1, OrderAssumption DEF EmptyForm, Page, Blank, Text, Sources
<1>3. /\ page.round = 0 /\ page.site = NoOrder /\ page.said = "nothing"
      /\ page.busy = FALSE /\ page.fillBusy = FALSE
      /\ page.lead = Blank /\ page.extra = Blank
  BY <1>1 DEF EmptyForm
<1>4. \A o \in Orders : orders[o] = NewOrder
  BY DEF Init
<1>5. NewOrder \in Order
  BY <1>1 DEF NewOrder, Order
<1>6. \A o \in Orders : /\ orders[o].stage = "new" /\ orders[o].waits = FALSE
                        /\ orders[o].round = 0 /\ orders[o].texts = {}
  BY <1>4 DEF NewOrder
<1>7. TypeOK
  BY <1>2, <1>5 DEF Init, TypeOK
<1>8. Waiting = {} /\ Charged = {}
  BY <1>6 DEF Waiting, Charged
<1>9. Alone /\ FormFresh /\ SiteShown
  BY <1>3, <1>6, <1>8 DEF Init, Alone, FormFresh, SiteShown
<1>10. OrdersTraced /\ OneSitePerForm /\ RefundedIsRefunded
  BY <1>3, <1>6, <1>8 DEF OrdersTraced, Traced, OneSitePerForm, RefundedIsRefunded
<1> QED
  BY <1>7, <1>9, <1>10 DEF IInv

LEMMA StillInv == IInv /\ UNCHANGED vars => IInv'
<1> SUFFICES ASSUME IInv, UNCHANGED vars PROVE IInv'
  OBVIOUS
<1>1. UNCHANGED <<page, fills, asking, pubs, orders, up, lost>>
  BY DEF vars
<1>2. OrdersTraced' /\ OneSitePerForm' /\ RefundedIsRefunded' /\ Waiting' = Waiting
  BY <1>1, SameOrders
<1>3. TypeOK' /\ Alone' /\ FormFresh' /\ SiteShown'
  BY <1>1, <1>2 DEF IInv, TypeOK, Alone, FormFresh, SiteShown
<1> QED
  BY <1>2, <1>3 DEF IInv

LEMMA StepInv == IInv /\ [Next]_vars => IInv'
<1> SUFFICES ASSUME IInv, [Next]_vars PROVE IInv'
  OBVIOUS
<1>1. CASE PageSteps
  <2>1. pubs \subseteq Orders
    BY DEF IInv, TypeOK
  <2> QED
    BY <1>1, <2>1, ShowFillFine, LeaveFine, BuiltFine, AnswerFine, ShowPublishedFine, WalletFine
       DEF PageSteps
<1>2. CASE PortalSteps
  BY <1>2, FillSteps, PortalFine DEF PortalSteps
<1>3. CASE Clicks
  BY <1>3, EditFine, PreviewFine, PayFine, PublishFine, AnotherSiteFine, ReloadFine, WalletFine,
     RegisterFine DEF Clicks
<1>4. CASE PortalDies
  BY <1>4, DiesFine
<1>5. CASE UNCHANGED vars
  BY <1>5, StillInv
<1> QED
  BY <1>1, <1>2, <1>3, <1>4, <1>5 DEF Next

\* Whatever the customer clicks, the portal does and the network loses, the
\* invariant stays.
THEOREM PageStays == Spec => []IInv
  BY InitInv, StepInv, PTL DEF Spec

\* Every variable of the page and of its requests keeps its type.
THEOREM TypeCorrect == Spec => []TypeOK
<1>1. IInv => TypeOK
  BY DEF IInv
<1> QED
  BY <1>1, PageStays, PTL

\* One request of the page is out at a time, whichever button sent it, and the
\* two flags of StarterCheckout are up exactly while it is.
THEOREM OneCall == Spec => []OneCallAtATime
  BY PageStays, InvOneCall, PTL

\* A form of StarterCheckout is charged for a second site only when the page could
\* not know that it was charged for the first: the answer was lost, or the guest
\* registered while the order was under way and its refund found nothing.  For any
\* number of orders, forms, reloads, registrations and failures.
THEOREM OneSite == Spec => []OneSitePerForm
<1>1. IInv => OneSitePerForm
  BY DEF IInv
<1> QED
  BY <1>1, PageStays, PTL

\* An order carries the texts of its own form, and the publish note under a
\* site is that site's.
THEOREM OwnRound == Spec => []OwnRoundOnly
  BY PageStays, InvOwnRound, PTL

\* "Kredit dikembalikan" is shown for a form only while every order of it that
\* is charged is one whose answer was lost or whose guest registered while it was
\* under way.
THEOREM Refunded == Spec => []RefundedIsRefunded
<1>1. IInv => RefundedIsRefunded
  BY DEF IInv
<1> QED
  BY <1>1, PageStays, PTL

\* What the customer wrote stays in its field through every step but a deletion
\* and a new form.
Kept == page.extra.src = "typed" /\ page'.extra # page.extra
          => \/ page'.extra.src = "blank"
             \/ page'.round # page.round

LEMMA FillKeeps ==
  ASSUME IInv, NEW ans, page' = WithFill(ans), page.extra.src = "typed"
  PROVE  page'.extra = page.extra
<1>1. TypeOK /\ page.extra # Blank
  BY DEF IInv, Blank
<1>2. PICK x : x = From(ShownSlots(ans).lead, page.round)
  OBVIOUS
<1>3. PICK h \in {"preset", "model"} : h = IF ans.fallback THEN "preset" ELSE "model"
  OBVIOUS
<1>4. PICK y : y = IF page.extra = Blank THEN From(ShownSlots(ans).extra, page.round)
                   ELSE page.extra
  OBVIOUS
<1>5. page' = [page EXCEPT !.lead = x, !.extra = y, !.hint = h,
                           !.previewed = TRUE, !.fillBusy = FALSE]
  BY <1>2, <1>3, <1>4, Zenon DEF WithFill
<1>6. page'.extra = y
  BY <1>1, <1>5, PageFields DEF Page
<1> QED
  BY <1>1, <1>4, <1>6

LEMMA EditKeeps ==
  ASSUME IInv, EditExtra, page.extra.src = "typed"
  PROVE  page'.extra = page.extra \/ page'.extra.src = "blank"
<1>1. TypeOK
  BY DEF IInv
<1>2. PICK src \in {"typed", "blank"} : page' = [page EXCEPT !.extra = From(src, page.round)]
  BY DEF EditExtra
<1>3. page'.extra = From(src, page.round)
  BY <1>1, <1>2, PageFields DEF Page
<1>4. page.extra = [src |-> "typed", round |-> page.round]
  BY <1>1, PageFields DEF IInv, FormFresh, Blank, Text
<1>5. CASE src = "typed"
  BY <1>3, <1>4, <1>5 DEF From
<1>6. CASE src = "blank"
  BY <1>3, <1>6 DEF From, Blank
<1> QED
  BY <1>2, <1>5, <1>6

LEMMA StepKeeps ==
  ASSUME IInv, [Next]_vars, page.extra.src = "typed"
  PROVE  page'.extra = page.extra \/ page'.extra.src = "blank" \/ page'.round # page.round
<1>1. TypeOK
  BY DEF IInv
<1>2. ASSUME NEW f \in fills, ShowFill(f) \/ LoseFill(f) PROVE page'.extra = page.extra
  BY <1>2, FillKeeps DEF ShowFill, LoseFill
<1>3. ASSUME NEW f \in fills, LeaveForGate(f) PROVE page'.extra = page.extra
  <2>1. page' = [page EXCEPT !.away = TRUE, !.fillBusy = FALSE]
    BY <1>3 DEF LeaveForGate
  <2> QED
    BY <1>1, <2>1, PageFields DEF Page
<1>4. ASSUME NEW o \in Orders, ShowBuilt(o) \/ ShowRefused(o) \/ LosePay(o) \/ ShowPublished(o)
      PROVE  page'.extra = page.extra
  <2>1. CASE ShowBuilt(o)
    <3>1. PICK ok \in BOOLEAN :
            page' = [page EXCEPT !.busy = FALSE, !.site = o, !.note = [of |-> o, ok |-> ok]]
      BY <2>1 DEF ShowBuilt
    <3> QED
      BY <1>1, <3>1, PageFields DEF Page
  <2>2. CASE ShowRefused(o)
    <3>1. page' = [page EXCEPT !.busy = FALSE, !.said = Told(o)]
      BY <2>2 DEF ShowRefused
    <3> QED
      BY <1>1, <3>1, PageFields DEF Page
  <2>3. CASE LosePay(o)
    <3>1. page' = [page EXCEPT !.busy = FALSE, !.said = "refunded"]
      BY <2>3 DEF LosePay
    <3> QED
      BY <1>1, <3>1, PageFields DEF Page
  <2>4. CASE ShowPublished(o)
    <3>1. PICK n : page' = [page EXCEPT !.busy = FALSE, !.note = n]
      BY <2>4 DEF ShowPublished
    <3> QED
      BY <1>1, <3>1, PageFields DEF Page
  <2> QED
    BY <1>4, <2>1, <2>2, <2>3, <2>4
<1>5. ASSUME WalletAnswers \/ AskWallet \/ Publish PROVE page'.extra = page.extra
  <2>1. PICK b : page' = [page EXCEPT !.busy = b]
    BY <1>5 DEF WalletAnswers, AskWallet, Publish
  <2> QED
    BY <1>1, <2>1, PageFields DEF Page
<1>6. CASE PageSteps
  BY <1>2, <1>3, <1>4, <1>5, <1>6 DEF PageSteps
<1>7. CASE PortalSteps \/ PortalDies \/ UNCHANGED vars
  <2>1. page' = page
    BY <1>7 DEF PortalSteps, PortalDies, vars, FillGate, FillRefused, FillPreset, FillRetry,
                FillModel, FillAnswers, Refuse, Debit, Build, FailOrder, Portal
  <2> QED
    BY <2>1
<1>8. CASE Clicks
  <2>4. CASE Register
    BY <2>4 DEF Register
  <2>1. CASE EditLead
    <3>1. PICK x : page' = [page EXCEPT !.lead = x]
      BY <2>1 DEF EditLead
    <3> QED
      BY <1>1, <3>1, PageFields DEF Page
  <2>2. CASE Preview \/ \E o \in Orders : Pay(o)
    <3>1. \/ page' = [page EXCEPT !.fillBusy = TRUE, !.said = "nothing"]
          \/ page' = [page EXCEPT !.busy = TRUE, !.said = "nothing"]
      BY <2>2 DEF Preview, Pay
    <3> QED
      BY <1>1, <3>1, PageFields DEF Page
  <2>3. CASE AnotherSite \/ Reload
    <3>1. page.round + 1 # page.round
      BY <1>1, PageFields DEF Rounds
    <3>2. page'.round = page.round + 1
      <4>1. CASE AnotherSite
        <5>1. PICK r : r = page.round + 1
          OBVIOUS
        <5>2. page' = [page EXCEPT !.site = NoOrder, !.lead = Blank, !.extra = Blank,
                                   !.previewed = FALSE, !.hint = "none", !.round = r]
          BY <4>1, <5>1, Zenon DEF AnotherSite
        <5> QED
          BY <1>1, <5>1, <5>2, PageFields DEF Page
      <4>2. CASE Reload
        BY <4>2 DEF Reload, EmptyForm
      <4> QED
        BY <2>3, <4>1, <4>2
    <3> QED
      BY <3>1, <3>2
  <2> QED
    BY <1>5, <1>8, <2>1, <2>2, <2>3, <2>4, EditKeeps DEF Clicks
<1> QED
  BY <1>6, <1>7, <1>8 DEF Next

\* An answer of the text helper, whenever it comes, keeps what the customer
\* wrote in the other fields of the form.
THEOREM ExtrasStay == Spec => ExtrasKept
<1>1. IInv /\ [Next]_vars => [Kept]_vars
  BY StepKeeps DEF Kept
<1> QED
  BY <1>1, PageStays, PTL DEF Spec, ExtrasKept, Kept

-----------------------------------------------------------------------------
(* The order at the portal, as the page's model has it                     *)

PaidStages == {"debited", "moved", "built", "refunded", "unrefunded", "stuck"}

\* OrderPromise is also what KreditPortal keeps: the generate route as this page
\* meets it is the same abstract order as the one with its ledgers.
Deal == INSTANCE OrderPromise WITH
    Order <- Orders,
    paid <- {o \in Orders : orders[o].stage \in PaidStages},
    delivered <- {o \in Orders : orders[o].stage = "built"},
    refunded <- {o \in Orders : orders[o].stage = "refunded"}

SameStages == \A o \in Orders : orders'[o].stage = orders[o].stage

Moves(o, from, to) ==
  /\ orders[o].stage = from /\ orders'[o].stage = to
  /\ \A p \in Orders \ {o} : orders'[p].stage = orders[p].stage

\* Sending an order, answering it and losing its answer move no money.
LEMMA StageSteps ==
  ASSUME TypeOK, [Next]_vars
  PROVE  \/ SameStages
         \/ \E o \in Orders : \/ Moves(o, "new", "sent") \/ Moves(o, "sent", "refused")
                              \/ Moves(o, "sent", "debited") \/ Moves(o, "debited", "built")
                              \/ Moves(o, "moved", "built") \/ Moves(o, "debited", "refunded")
                              \/ Moves(o, "moved", "unrefunded")
         \/ PortalDies \/ Register
<1>1. \A o \in Orders : orders[o] \in Order
  BY DEF TypeOK
<1>2. CASE UNCHANGED orders
  BY <1>2 DEF SameStages
<1>3. ASSUME NEW o \in Orders, ShowBuilt(o) \/ ShowRefused(o) \/ LosePay(o) PROVE SameStages
  <2>1. orders' = [orders EXCEPT ![o].waits = FALSE]
    BY <1>3 DEF ShowBuilt, ShowRefused, LosePay
  <2> QED
    BY <1>1, <2>1 DEF SameStages, TypeOK, Order
<1>4. ASSUME NEW o \in Orders, Pay(o) PROVE Moves(o, "new", "sent")
  <2>1. PICK q : q = [NewOrder EXCEPT !.stage = "sent", !.waits = TRUE,
                                      !.round = page.round, !.texts = SentTexts]
    OBVIOUS
  <2>2. q.stage = "sent"
    BY <2>1 DEF NewOrder
  <2>3. orders' = [orders EXCEPT ![o] = q] /\ orders[o].stage = "new"
    BY <1>4, <2>1 DEF Pay
  <2> QED
    BY <2>2, <2>3 DEF Moves, TypeOK
<1>5. ASSUME NEW o \in Orders, NEW from, NEW to, Portal(o, from, to) PROVE Moves(o, from, to)
  <2>1. orders[o].stage = from /\ orders' = [orders EXCEPT ![o].stage = to]
    BY <1>5 DEF Portal
  <2> QED
    BY <1>1, <2>1 DEF Moves, TypeOK, Order
<1>6. CASE Reload
  <2>1. \A o \in Orders : orders'[o] = [orders[o] EXCEPT !.waits = FALSE]
    BY <1>6 DEF Reload
  <2> QED
    BY <1>1, <2>1 DEF SameStages, Order
<1>7. CASE PageSteps
  BY <1>2, <1>3, <1>7
  DEF PageSteps, ShowFill, LoseFill, LeaveForGate, ShowPublished, WalletAnswers
<1>8. CASE PortalSteps
  BY <1>2, <1>5, <1>8
  DEF PortalSteps, FillGate, FillRefused, FillPreset, FillRetry, FillModel, FillAnswers,
      Refuse, Debit, Build, FailOrder
<1>9. CASE Clicks
  BY <1>2, <1>4, <1>6, <1>9
  DEF Clicks, EditLead, EditExtra, Preview, Publish, AnotherSite, AskWallet
<1>10. CASE UNCHANGED vars
  BY <1>2, <1>10 DEF vars
<1> QED
  BY <1>7, <1>8, <1>9, <1>10 DEF Next

\* A registration leaves what is debited debited, and so does the portal's death.
LEMMA RegisterSteps ==
  ASSUME TypeOK, Register, NEW o \in Orders
  PROVE  /\ orders'[o].stage \in PaidStages <=> orders[o].stage \in PaidStages
         /\ orders'[o].stage = "built" <=> orders[o].stage = "built"
         /\ orders'[o].stage = "refunded" <=> orders[o].stage = "refunded"
<1>1. orders[o] \in Order
  BY DEF TypeOK
<1>2. \/ orders'[o] = orders[o]
      \/ orders[o].stage = "debited" /\ orders'[o] = [orders[o] EXCEPT !.stage = "moved"]
  BY DEF Register
<1>3. CASE orders[o].stage = "debited" /\ orders'[o] = [orders[o] EXCEPT !.stage = "moved"]
  BY <1>1, <1>3 DEF Order, PaidStages
<1> QED
  BY <1>2, <1>3

LEMMA DeathSteps ==
  ASSUME TypeOK, PortalDies, NEW o \in Orders
  PROVE  /\ orders'[o].stage \in PaidStages <=> orders[o].stage \in PaidStages
         /\ orders'[o].stage = "built" <=> orders[o].stage = "built"
         /\ orders'[o].stage = "refunded" <=> orders[o].stage = "refunded"
<1>1. orders[o] \in Order
  BY DEF TypeOK
<1>2. orders'[o] = CASE orders[o].stage = "sent" -> [orders[o] EXCEPT !.stage = "dropped"]
                     [] orders[o].stage \in {"debited", "moved"} ->
                          [orders[o] EXCEPT !.stage = "stuck"]
                     [] OTHER -> orders[o]
  BY DEF PortalDies
<1>3. CASE orders[o].stage = "sent"
  <2>1. orders'[o] = [orders[o] EXCEPT !.stage = "dropped"]
    BY <1>2, <1>3
  <2> QED
    BY <1>1, <1>3, <2>1 DEF Order, PaidStages
<1>4. CASE orders[o].stage \in {"debited", "moved"}
  <2>1. orders'[o] = [orders[o] EXCEPT !.stage = "stuck"]
    BY <1>2, <1>4
  <2> QED
    BY <1>1, <1>4, <2>1 DEF Order, PaidStages
<1>5. CASE orders[o].stage \notin {"sent", "debited", "moved"}
  BY <1>2, <1>5
<1> QED
  BY <1>3, <1>4, <1>5

\* The order as the page's model has it, with answers lost, pages loaded again
\* and a portal that dies, implements OrderPromise too.
THEOREM PageOrdersAreKept == Spec => Deal!Spec
<1>1. Init => Deal!Init
  BY DEF Init, NewOrder, Deal!Init, PaidStages
<1>2. IInv /\ [Next]_vars =>
        [Deal!Next]_<<{o \in Orders : orders[o].stage \in PaidStages},
                      {o \in Orders : orders[o].stage = "built"},
                      {o \in Orders : orders[o].stage = "refunded"}>>
  <2> SUFFICES ASSUME IInv, [Next]_vars
               PROVE  \/ Deal!Next
                      \/ \A o \in Orders :
                           /\ orders'[o].stage \in PaidStages <=> orders[o].stage \in PaidStages
                           /\ orders'[o].stage = "built" <=> orders[o].stage = "built"
                           /\ orders'[o].stage = "refunded" <=> orders[o].stage = "refunded"
    OBVIOUS
  <2>1. TypeOK
    BY DEF IInv
  <2>2. ASSUME NEW o \in Orders, Moves(o, "sent", "debited") PROVE Deal!Pay(o)
    BY <2>2 DEF Moves, Deal!Pay, PaidStages
  <2>3. ASSUME NEW o \in Orders, Moves(o, "debited", "built") \/ Moves(o, "moved", "built")
        PROVE  Deal!Deliver(o)
    BY <2>3 DEF Moves, Deal!Deliver, Deal!Due, PaidStages
  <2>4. ASSUME NEW o \in Orders, Moves(o, "debited", "refunded") PROVE Deal!Refund(o)
    BY <2>4 DEF Moves, Deal!Refund, Deal!Due, PaidStages
  <2>5. ASSUME NEW o \in Orders, \/ Moves(o, "new", "sent") \/ Moves(o, "sent", "refused")
                                 \/ Moves(o, "moved", "unrefunded")
        PROVE  \A p \in Orders :
                 /\ orders'[p].stage \in PaidStages <=> orders[p].stage \in PaidStages
                 /\ orders'[p].stage = "built" <=> orders[p].stage = "built"
                 /\ orders'[p].stage = "refunded" <=> orders[p].stage = "refunded"
    BY <2>5 DEF Moves, PaidStages
  <2> QED
    BY <2>1, <2>2, <2>3, <2>4, <2>5, StageSteps, DeathSteps, RegisterSteps DEF Deal!Next, SameStages
<1> QED
  BY <1>1, <1>2, PageStays, PTL DEF Spec, Deal!Spec

=============================================================================
