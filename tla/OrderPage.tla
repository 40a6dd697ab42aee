----------------------------- MODULE OrderPage -----------------------------
(***************************************************************************)
(* The page on which a customer orders a Starter site:                     *)
(* components/StarterCheckout.tsx, the text helper it asks                 *)
(* (lib/local-llm-fill.ts) and the generate and publish routes as the page *)
(* meets them.  The balance it shows is KreditSession's.                   *)
(*                                                                         *)
(* Every button sends a request and goes on; its answer is applied when it *)
(* comes, to whatever the page has become.  Two flags, busy and fillBusy,  *)
(* close the buttons meanwhile, never the text fields.  An answer may be   *)
(* lost after the portal did its work, the customer may reload the page    *)
(* under a request or register in another tab, and the portal may die with *)
(* an order half done.                                                     *)
(*                                                                         *)
(* Texts are abstracted to where they come from; tagline, hero and "about" *)
(* are one text (lead), button, hours and description another (extra).     *)
(***************************************************************************)
EXTENDS Naturals, FiniteSets

CONSTANTS
    Orders,          \* orders the customer may send
    NoOrder,
    MaxRounds        \* bound on the forms filled in

ASSUME OrderAssumption ==
    /\ NoOrder \notin Orders
    /\ MaxRounds \in Nat

VARIABLES
    page,        \* React state of StarterCheckout
    fills,       \* text requests waited for
    asking,      \* a request of the Kredit panel is waited for
    pubs,        \* sites whose publish is waited for
    orders,      \* orders, at the page and at the portal
    up,          \* FALSE once the portal has died and been started again
    lost         \* history: orders whose answer the page did not get

vars == <<page, fills, asking, pubs, orders, up, lost>>

Sources == {"blank", "preset", "model", "typed", "story"}
Text == [src : Sources, round : 0..MaxRounds]
Blank == [src |-> "blank", round |-> 0]
From(src, round) == IF src = "blank" THEN Blank ELSE [src |-> src, round |-> round]

NoFill == [got |-> "none", lead |-> "blank", extra |-> "blank", fallback |-> TRUE]
Slots(lead, extra, fallback) ==
    [got |-> "slots", lead |-> lead, extra |-> extra, fallback |-> fallback]

EmptyForm(round) ==
    [lead |-> Blank, extra |-> Blank, previewed |-> FALSE, hint |-> "none",
     busy |-> FALSE, fillBusy |-> FALSE, site |-> NoOrder,
     note |-> [of |-> NoOrder, ok |-> FALSE], said |-> "nothing",
     round |-> round, away |-> FALSE]

NewOrder == [stage |-> "new", waits |-> FALSE, round |-> 0, texts |-> {}]

Init ==
    /\ page = EmptyForm(0)
    /\ fills = {} /\ pubs = {} /\ asking = FALSE
    /\ orders = [o \in Orders |-> NewOrder]
    /\ up = TRUE
    /\ lost = {}

Blocked == page.busy \/ page.fillBusy
OnForm == ~page.away /\ page.site = NoOrder
Charged ==
    {o \in Orders : orders[o].stage \in {"debited", "moved", "built", "stuck", "unrefunded"}}
Waiting == {o \in Orders : orders[o].waits}

-----------------------------------------------------------------------------
(* The wallet's buttons on this page (KreditSession has their requests)    *)

AskWallet ==
    /\ ~page.away /\ ~Blocked
    /\ asking' = TRUE
    /\ page' = [page EXCEPT !.busy = TRUE]
    /\ UNCHANGED <<fills, pubs, orders, up, lost>>

WalletAnswers ==
    /\ asking
    /\ asking' = FALSE
    /\ page' = [page EXCEPT !.busy = FALSE]
    /\ UNCHANGED <<fills, pubs, orders, up, lost>>

-----------------------------------------------------------------------------
(* The form and the text helper                                            *)

\* A field is typed into or cleared; no flag closes the fields.
EditLead ==
    /\ OnForm
    /\ \E src \in {"typed", "blank"} : page' = [page EXCEPT !.lead = From(src, page.round)]
    /\ UNCHANGED <<fills, asking, pubs, orders, up, lost>>

EditExtra ==
    /\ OnForm
    /\ \E src \in {"typed", "blank"} : page' = [page EXCEPT !.extra = From(src, page.round)]
    /\ UNCHANGED <<fills, asking, pubs, orders, up, lost>>

\* handlePreview; the story may be empty.
Preview ==
    /\ OnForm /\ ~Blocked
    /\ \E story \in BOOLEAN :
          fills' = fills \cup {[story |-> story, attempt |-> 0, ans |-> NoFill]}
    /\ page' = [page EXCEPT !.fillBusy = TRUE, !.said = "nothing"]
    /\ UNCHANGED <<asking, pubs, orders, up, lost>>

FillAnswers(f, ans) ==
    /\ f \in fills /\ f.ans = NoFill
    /\ fills' = (fills \ {f}) \cup {[f EXCEPT !.ans = ans]}
    /\ UNCHANGED <<page, asking, pubs, orders, up, lost>>

\* handleFillStarterHttp: no session; too many requests or no name.
FillGate(f) == FillAnswers(f, [NoFill EXCEPT !.got = "gate"])
FillRefused(f) == FillAnswers(f, Slots("blank", "blank", TRUE))

\* fillStarterCopy: no story, no local model, a model that is down, or a
\* second attempt without usable text.
FillPreset(f) == FillAnswers(f, Slots("preset", "preset", TRUE))

\* Mutant: the attempts are not counted up to two.
FillRetryMore(f) ==
    /\ f \in fills /\ f.ans = NoFill /\ f.story
    /\ fills' = (fills \ {f}) \cup {[f EXCEPT !.attempt = @ + 1]}
    /\ UNCHANGED <<page, asking, pubs, orders, up, lost>>

\* A first attempt was aborted after 35 s, or its text had no usable slot.
FillRetry(f) ==
    /\ f \in fills /\ f.ans = NoFill /\ f.story /\ f.attempt = 0
    /\ fills' = (fills \ {f}) \cup {[f EXCEPT !.attempt = 1]}
    /\ UNCHANGED <<page, asking, pubs, orders, up, lost>>

\* parseModelSlots: one of the slots it looks at has text.
FillModel(f) ==
    /\ f.story
    /\ \E lead, extra \in {"blank", "model"} :
          /\ lead = "model" \/ extra = "model"
          /\ FillAnswers(f, Slots(lead, extra, FALSE))

\* slotsFromFillBody: without tagline, hero and about everything is replaced
\* by the category's text, and so is every other slot that is blank.
ShownSlots(ans) ==
    [lead  |-> IF ans.lead = "blank" THEN "preset" ELSE ans.lead,
     extra |-> IF ans.lead = "blank" \/ ans.extra = "blank" THEN "preset" ELSE ans.extra]

\* Mutant: every slot replaces its field.
WithFillOver(ans) ==
    [page EXCEPT !.lead = From(ShownSlots(ans).lead, page.round),
                 !.extra = From(ShownSlots(ans).extra, page.round),
                 !.hint = IF ans.fallback THEN "preset" ELSE "model",
                 !.previewed = TRUE, !.fillBusy = FALSE]

\* applyFillSlotsToExtras: the lead is replaced, the extra only where blank.
WithFill(ans) ==
    [page EXCEPT !.lead = From(ShownSlots(ans).lead, page.round),
                 !.extra = IF @ = Blank THEN From(ShownSlots(ans).extra, page.round) ELSE @,
                 !.hint = IF ans.fallback THEN "preset" ELSE "model",
                 !.previewed = TRUE, !.fillBusy = FALSE]

ShowFill(f) ==
    /\ f \in fills /\ f.ans.got = "slots"
    /\ fills' = fills \ {f}
    /\ page' = WithFill(f.ans)
    /\ UNCHANGED <<asking, pubs, orders, up, lost>>

LoseFill(f) ==
    /\ f \in fills
    /\ fills' = fills \ {f}
    /\ page' = WithFill(Slots("preset", "preset", TRUE))
    /\ UNCHANGED <<asking, pubs, orders, up, lost>>

\* 401: the page is left for the gate.
LeaveForGate(f) ==
    /\ f \in fills /\ f.ans.got = "gate"
    /\ fills' = fills \ {f}
    /\ page' = [page EXCEPT !.away = TRUE, !.fillBusy = FALSE]
    /\ UNCHANGED <<asking, pubs, orders, up, lost>>

-----------------------------------------------------------------------------
(* Paying                                                                  *)

\* buildStarterGeneratePairs: a cleared field takes the story's or the
\* category's text, which are this form's.
SentTexts ==
    {IF text = Blank THEN page.round ELSE text.round : text \in {page.lead, page.extra}}

\* handlePay, for a form that was previewed.
Pay(o) ==
    /\ OnForm /\ ~Blocked /\ page.previewed
    /\ orders[o].stage = "new"
    /\ orders' = [orders EXCEPT ![o] = [NewOrder EXCEPT !.stage = "sent", !.waits = TRUE,
                                            !.round = page.round, !.texts = SentTexts]]
    /\ page' = [page EXCEPT !.busy = TRUE, !.said = "nothing"]
    /\ UNCHANGED <<fills, asking, pubs, up, lost>>

\* The generate route: refused (402, no session), debited, then built or
\* failed; the page's connection may be gone by then.
Portal(o, from, to) ==
    /\ orders[o].stage = from
    /\ orders' = [orders EXCEPT ![o].stage = to]
    /\ UNCHANGED <<page, fills, asking, pubs, up, lost>>

Refuse(o) == Portal(o, "sent", "refused")
Debit(o) == Portal(o, "sent", "debited")
Build(o) == Portal(o, "debited", "built") \/ Portal(o, "moved", "built")

\* Every error arm refunds on the ledger path the route captured and answers
\* "refunded": refundStarter changes nothing when that ledger has been moved.
FailOrder(o) == Portal(o, "debited", "refunded") \/ Portal(o, "moved", "unrefunded")

\* The guest registers in another tab of the browser: its ledger, with the debit
\* of its orders under way, becomes the account's.  Orders of an identity the
\* browser had before stay where they are.
Register ==
    /\ \E guests \in SUBSET {o \in Orders : orders[o].stage = "debited"} :
          /\ guests # {}
          /\ orders' = [o \in Orders |-> IF o \in guests
                                         THEN [orders[o] EXCEPT !.stage = "moved"]
                                         ELSE orders[o]]
    /\ UNCHANGED <<page, fills, asking, pubs, up, lost>>

\* The portal dies and is started again: no answer, no refund.
PortalDies ==
    /\ up
    /\ up' = FALSE
    /\ orders' = [o \in Orders |->
                     CASE orders[o].stage = "sent" -> [orders[o] EXCEPT !.stage = "dropped"]
                       [] orders[o].stage \in {"debited", "moved"} ->
                            [orders[o] EXCEPT !.stage = "stuck"]
                       [] OTHER -> orders[o]]
    /\ UNCHANGED <<page, fills, asking, pubs, lost>>

\* Mutant: the form stays after a site was built.
ShowBuiltForm(o) ==
    /\ orders[o].waits /\ orders[o].stage = "built"
    /\ orders' = [orders EXCEPT ![o].waits = FALSE]
    /\ page' = [page EXCEPT !.busy = FALSE]
    /\ UNCHANGED <<fills, asking, pubs, up, lost>>

ShowBuilt(o) ==
    /\ orders[o].waits /\ orders[o].stage = "built"
    /\ orders' = [orders EXCEPT ![o].waits = FALSE]
    /\ \E ok \in BOOLEAN :
          page' = [page EXCEPT !.busy = FALSE, !.site = o, !.note = [of |-> o, ok |-> ok]]
    /\ UNCHANGED <<fills, asking, pubs, up, lost>>

\* Mutant: the page gives up before the answer and says what it usually says.
ShowRefusedEarly(o) ==
    /\ orders[o].waits /\ orders[o].stage # "built"
    /\ orders' = [orders EXCEPT ![o].waits = FALSE]
    /\ page' = [page EXCEPT !.busy = FALSE, !.said = "refunded"]
    /\ UNCHANGED <<fills, asking, pubs, up, lost>>

\* What the answer says of an order without a site; it does not know whether
\* the refund found its debit.
Told(o) == IF orders[o].stage = "refused" THEN "refused" ELSE "refunded"

ShowRefused(o) ==
    /\ orders[o].waits /\ orders[o].stage \in {"refused", "refunded", "unrefunded"}
    /\ orders' = [orders EXCEPT ![o].waits = FALSE]
    /\ page' = [page EXCEPT !.busy = FALSE, !.said = Told(o)]
    /\ UNCHANGED <<fills, asking, pubs, up, lost>>

\* Mutant: the flag is lowered by answers only.
LosePayBusy(o) ==
    /\ orders[o].waits
    /\ orders' = [orders EXCEPT ![o].waits = FALSE]
    /\ page' = [page EXCEPT !.said = "refunded"]
    /\ lost' = lost \cup {o}
    /\ UNCHANGED <<fills, asking, pubs, up>>

\* The catch of handlePay: the page says refunded whatever happened.
LosePay(o) ==
    /\ orders[o].waits
    /\ orders' = [orders EXCEPT ![o].waits = FALSE]
    /\ page' = [page EXCEPT !.busy = FALSE, !.said = "refunded"]
    /\ lost' = lost \cup {o}
    /\ UNCHANGED <<fills, asking, pubs, up>>

-----------------------------------------------------------------------------
(* After the site                                                          *)

\* Mutant: the button does not set the flag.
PublishFree ==
    /\ ~page.away /\ page.site # NoOrder /\ ~page.note.ok /\ ~Blocked
    /\ pubs' = pubs \cup {page.site}
    /\ UNCHANGED <<page, fills, asking, orders, up, lost>>

\* "Coba publish lagi".
Publish ==
    /\ ~page.away /\ page.site # NoOrder /\ ~page.note.ok /\ ~Blocked
    /\ pubs' = pubs \cup {page.site}
    /\ page' = [page EXCEPT !.busy = TRUE]
    /\ UNCHANGED <<fills, asking, orders, up, lost>>

\* Its answer, an error or a failed connection: the note of the site shown,
\* if one is.
ShowPublished(o) ==
    /\ o \in pubs
    /\ pubs' = pubs \ {o}
    /\ \E ok \in BOOLEAN :
          page' = [page EXCEPT !.busy = FALSE,
                               !.note = IF page.site = NoOrder THEN @
                                        ELSE [of |-> o, ok |-> ok]]
    /\ UNCHANGED <<fills, asking, orders, up, lost>>

\* Mutant: the texts of the old form are kept.
AnotherSiteKept ==
    /\ ~page.away /\ page.site # NoOrder /\ page.round < MaxRounds
    /\ page' = [page EXCEPT !.site = NoOrder, !.previewed = FALSE, !.hint = "none",
                            !.round = @ + 1]
    /\ UNCHANGED <<fills, asking, pubs, orders, up, lost>>

\* "Buat site lain": open even while a publish is waited for.
AnotherSite ==
    /\ ~page.away /\ page.site # NoOrder /\ page.round < MaxRounds
    /\ page' = [page EXCEPT !.site = NoOrder, !.lead = Blank, !.extra = Blank,
                            !.previewed = FALSE, !.hint = "none", !.round = @ + 1]
    /\ UNCHANGED <<fills, asking, pubs, orders, up, lost>>

\* The page is loaded again: its requests are aborted, the portal's work is not.
Reload ==
    /\ page.round < MaxRounds
    /\ page' = EmptyForm(page.round + 1)
    /\ fills' = {} /\ pubs' = {} /\ asking' = FALSE
    /\ orders' = [o \in Orders |-> [orders[o] EXCEPT !.waits = FALSE]]
    /\ lost' = lost \cup Waiting
    /\ UNCHANGED up

-----------------------------------------------------------------------------

PageSteps ==
    \/ \E f \in fills : ShowFill(f) \/ LoseFill(f) \/ LeaveForGate(f)
    \/ \E o \in Orders : ShowBuilt(o) \/ ShowRefused(o) \/ LosePay(o) \/ ShowPublished(o)
    \/ WalletAnswers

PortalSteps ==
    \/ \E f \in fills : \/ FillGate(f) \/ FillRefused(f) \/ FillPreset(f)
                        \/ FillRetry(f) \/ FillModel(f)
    \/ \E o \in Orders : Refuse(o) \/ Debit(o) \/ Build(o) \/ FailOrder(o)

Clicks ==
    \/ EditLead \/ EditExtra \/ Preview
    \/ \E o \in Orders : Pay(o)
    \/ Publish \/ AnotherSite \/ Reload \/ AskWallet \/ Register

Next == PageSteps \/ PortalSteps \/ Clicks \/ PortalDies

Spec == Init /\ [][Next]_vars

\* Every wait ends: the helper stops after two attempts of 35 s, the portal
\* answers each request or its connection breaks, and the browser settles
\* every fetch with an answer or an error.
Fairness == WF_vars(PageSteps) /\ WF_vars(PortalSteps)
FairSpec == Spec /\ Fairness

-----------------------------------------------------------------------------
(* Types                                                                   *)

Rounds == 0..MaxRounds
Page == [lead : Text, extra : Text, previewed : BOOLEAN,
         hint : {"none", "preset", "model"}, busy : BOOLEAN, fillBusy : BOOLEAN,
         site : Orders \cup {NoOrder},
         note : [of : Orders \cup {NoOrder}, ok : BOOLEAN],
         said : {"nothing", "refused", "refunded"}, round : Rounds, away : BOOLEAN]
FillAnswer == [got : {"none", "gate", "slots"}, lead : {"blank", "preset", "model"},
               extra : {"blank", "preset", "model"}, fallback : BOOLEAN]
Fill == [story : BOOLEAN, attempt : 0..1, ans : FillAnswer]
Order == [stage : {"new", "sent", "refused", "debited", "moved", "built", "refunded",
                   "unrefunded", "dropped", "stuck"},
          waits : BOOLEAN, round : Rounds, texts : SUBSET Rounds]

\* Every variable keeps its shape.
TypeOK ==
    /\ page \in Page
    /\ fills \subseteq Fill
    /\ asking \in BOOLEAN
    /\ pubs \subseteq Orders
    /\ orders \in [Orders -> Order]
    /\ up \in BOOLEAN
    /\ lost \subseteq Orders

-----------------------------------------------------------------------------
(* Properties                                                              *)

Calls == {<<"fill", f>> : f \in fills} \cup {<<"ask", a>> : a \in {asking} \cap {TRUE}}
         \cup {<<"pay", o>> : o \in Waiting} \cup {<<"publish", o>> : o \in pubs}

\* The two flags together let one request out at a time, and are up exactly
\* while it is waited for (blocked = busy || fillBusy).
OneCallAtATime ==
    /\ \A c, d \in Calls : c = d
    /\ page.fillBusy <=> fills # {}
    /\ page.busy <=> asking \/ Waiting # {} \/ pubs # {}

\* The page cannot know that o is charged: its answer was lost, or it said
\* refunded although the guest had registered between the debit and the refund.
Hidden(o) == o \in lost \/ orders[o].stage = "unrefunded"

\* One form pays for one site: a second order of the same form is charged only
\* when the answer to the first was lost or hid its debit, for the page has no
\* order id of its own to repeat.
OneSitePerForm ==
    \A o, p \in Charged :
        o # p /\ orders[o].round = orders[p].round => Hidden(o) \/ Hidden(p)

\* No text of an earlier form is sent with a later one, and the publish note
\* under a site is its own, though "Buat site lain" is open during a publish.
OwnRoundOnly ==
    /\ \A o \in Orders : orders[o].texts \subseteq {orders[o].round}
    /\ page.site # NoOrder => page.note.of = page.site

\* While the page says "refunded" of a form, no order of that form is charged but
\* one whose answer was lost, or whose guest registered while it was under way:
\* not one that is still debited, built or stuck in a portal that died.
RefundedIsRefunded ==
    page.said = "refunded" =>
        \A o \in Charged : orders[o].round = page.round => Hidden(o)

\* lib/starter-generate-payload.ts:235: an answer of the text helper keeps what
\* the customer wrote in the other fields, at whatever time it was written.
ExtrasKept ==
    [][page.extra.src = "typed" /\ page'.extra # page.extra
          => \/ page'.extra.src = "blank"
             \/ page'.round # page.round]_vars

\* Whatever is lost, the buttons open again.
ButtonsReopen == []<>(~Blocked)

=============================================================================
