------------------------------- MODULE Paying -------------------------------
(***************************************************************************)
(* Paying in the storefront (apps/web/src/app/checkout, .../orders/[id],   *)
(* .../lib/load-razorpay.ts) over the API's checkout: one account, in one  *)
(* or several tabs, from the cart to the page that shows the order PAID.   *)
(*                                                                         *)
(* A call is one run of pay(), which goes on when its page is left, and    *)
(* its request, which the API works on whether or not anybody waits.  A    *)
(* page is one visit to /checkout: whoever comes back has a new one, with  *)
(* new React state, in a document that still has its script.  The cart is  *)
(* the set of the units in it, so that each can be followed.  Of the API   *)
(* there is what Orders and Payments show of it: the cart is read before   *)
(* the transaction that orders what was read and deletes what is there.    *)
(***************************************************************************)
EXTENDS Naturals

CONSTANTS
    Tabs, Pages, Calls,
    MaxUnits,   \* bound: units ever added to the cart
    MaxOrders,  \* bound: orders ever created
    Nothing

Units == 1..MaxUnits
Orders == 1..MaxOrders

ASSUME PayingAssumption ==
    /\ MaxUnits \in Nat /\ MaxOrders \in Nat
    /\ Nothing \notin Tabs \cup Pages \cup Calls \cup Orders
    /\ Pages \cap Orders = {}

VARIABLES
    cart, status, items,             \* the account's rows
    hasAddress,
    tab, at, visited, script,        \* the tabs: where each is, its script
    selected, paying,                \* React state of the checkout pages
    call,                            \* the runs of pay()
    shown, poll,                     \* the order page of each tab: its query
    added, during, boughtOn, before  \* history; boughtOn: the page that waited at the commit

rows == <<cart, status, items, hasAddress>>
places == <<tab, at, visited>>
query == <<shown, poll>>
history == <<added, during, boughtOn, before>>
vars == <<rows, places, script, selected, paying, call, query, history>>

\* What an order has gone through.
Created == {"created", "payable", "captured", "PAID"}

\* In the table an order is PENDING_PAYMENT until it is PAID.
Shown(s) == IF s = "PAID" THEN "PAID" ELSE "PENDING_PAYMENT"

AtServer == {"posted", "read", "committed", "stored"}
InBrowser == {"loading", "open"}
CallStates == [pc : {"idle"} \cup AtServer \cup InBrowser, page : Pages \cup {Nothing},
               read : SUBSET Units, saw : SUBSET Orders, order : Orders \cup {Nothing}]
NoCall == [pc |-> "idle", page |-> Nothing, read |-> {}, saw |-> {}, order |-> Nothing]

Existing == {o \in Orders : status[o] # "none"}

\* Bound: an order is left to be made.
Room == Existing # Orders

TypeOK ==
    /\ cart \subseteq 1..added
    /\ status \in [Orders -> {"none"} \cup Created]
    /\ items \in [Orders -> SUBSET Units]
    /\ hasAddress \in BOOLEAN
    /\ tab \in [Pages -> Tabs]
    /\ at \in [Tabs -> Pages \cup Orders \cup {Nothing}]
    /\ visited \subseteq Pages
    /\ script \in [Tabs -> {"none", "loading", "ready", "broken"}]
    /\ selected \subseteq Pages
    /\ paying \in [Pages -> Calls \cup {Nothing}]
    /\ call \in [Calls -> CallStates]
    /\ shown \in [Tabs -> {"nothing", "PENDING_PAYMENT", "PAID", "lost"}]
    /\ poll \in [Tabs -> {"idle", "PENDING_PAYMENT", "PAID"}]
    /\ added \in 0..MaxUnits
    /\ during \subseteq 1..added
    /\ boughtOn \in [Orders -> Pages \cup {Nothing}]
    /\ before \in [Orders -> SUBSET Orders]

Init ==
    /\ cart = {}
    /\ status = [o \in Orders |-> "none"]
    /\ items = [o \in Orders |-> {}]
    /\ hasAddress = FALSE
    /\ tab \in [Pages -> Tabs]
    /\ at = [t \in Tabs |-> Nothing]
    /\ visited = {}
    /\ script = [t \in Tabs |-> "none"]
    /\ selected = {}
    /\ paying = [p \in Pages |-> Nothing]
    /\ call = [c \in Calls |-> NoCall]
    /\ shown = [t \in Tabs |-> "nothing"]
    /\ poll = [t \in Tabs |-> "idle"]
    /\ added = 0
    /\ during = {}
    /\ boughtOn = [o \in Orders |-> Nothing]
    /\ before = [o \in Orders |-> {}]
-----------------------------------------------------------------------------
(* The tabs *)

IsOpen(p) == at[tab[p]] = p

\* The order page starts with no data and asks for it.
GoTo(t, place) ==
    /\ at' = [at EXCEPT ![t] = place]
    /\ shown' = [shown EXCEPT ![t] = "nothing"]
    /\ poll' = [poll EXCEPT ![t] = "idle"]

OpenCheckout(p) ==
    /\ p \notin visited
    /\ p = CHOOSE q \in Pages : q \notin visited    \* any will do
    /\ at[tab[p]] = Nothing
    /\ GoTo(tab[p], p)
    /\ visited' = visited \cup {p}
    /\ UNCHANGED <<rows, tab, script, selected, paying, call, history>>

\* By a link: the state of the page is gone, but not the document, and with it
\* whatever pay() is awaiting.
Leave(t) ==
    /\ at[t] # Nothing
    /\ GoTo(t, Nothing)
    /\ selected' = selected \ {at[t]}
    /\ paying' = [p \in Pages |-> IF p = at[t] THEN Nothing ELSE paying[p]]
    /\ UNCHANGED <<rows, tab, visited, script, call, history>>

\* The list of orders links to each.
OpenOrder(t, o) ==
    /\ at[t] = Nothing
    /\ o \in Existing
    /\ GoTo(t, o)
    /\ UNCHANGED <<rows, tab, visited, script, selected, paying, call, history>>

Freed(C) == [p \in Pages |-> IF paying[p] \in C THEN Nothing ELSE paying[p]]

\* A new document: nobody awaits the answers any more, which the API still gives.
Reload(t) ==
    LET C == {c \in Calls : call[c].page # Nothing /\ tab[call[c].page] = t}
    IN  /\ GoTo(t, IF at[t] \in Orders THEN at[t] ELSE Nothing)
        /\ script' = [script EXCEPT ![t] = "none"]
        /\ call' = [c \in Calls |->
                      IF c \notin C THEN call[c]
                      ELSE IF call[c].pc \in AtServer THEN [call[c] EXCEPT !.page = Nothing]
                      ELSE NoCall]
        /\ paying' = Freed(C)
        /\ selected' = selected \ {at[t]}
        /\ UNCHANGED <<rows, tab, visited, history>>

\* A unit goes into the cart, from any page, as long as an order can take it.
AddToCart ==
    /\ added < MaxUnits /\ Room
    /\ added' = added + 1
    /\ cart' = cart \cup {added + 1}
    /\ during' = IF \E c \in Calls : call[c].pc = "read" THEN during \cup {added + 1}
                                                         ELSE during
    /\ UNCHANGED <<status, items, hasAddress, places, script, selected, paying, call, query,
                   boughtOn, before>>
-----------------------------------------------------------------------------
(* Addresses *)

\* The query of the page selects the first address, or the shopper another.
LoadAddresses(p) ==
    /\ IsOpen(p) /\ hasAddress
    /\ selected' = selected \cup {p}
    /\ UNCHANGED <<rows, places, script, paying, call, query, history>>

\* There is a form until the addresses are there, and it may be sent twice.
AddAddress(p) ==
    /\ IsOpen(p)
    /\ hasAddress' = TRUE
    /\ selected' = selected \cup {p}
    /\ UNCHANGED <<cart, status, items, places, script, paying, call, query, history>>

\* The body of an error has no id: nothing is selected then.
AddAddressFails(p) ==
    /\ IsOpen(p)
    /\ selected' = selected \ {p}
    /\ UNCHANGED <<rows, places, script, paying, call, query, history>>
-----------------------------------------------------------------------------
(* pay() and the API *)

Step(c, label) == call' = [call EXCEPT ![c].pc = label]

\* Mutant: a button that is never disabled.
CanPayAlways(p) == p \in selected
CanPay(p) == p \in selected /\ paying[p] = Nothing

Pay(c, p) ==
    /\ call[c].pc = "idle"
    /\ c = CHOOSE d \in Calls : call[d].pc = "idle"    \* any will do
    /\ IsOpen(p)
    /\ CanPay(p)
    /\ Room
    /\ paying' = [paying EXCEPT ![p] = c]
    /\ call' = [call EXCEPT ![c] = [NoCall EXCEPT !.pc = "posted", !.page = p]]
    /\ UNCHANGED <<rows, places, script, selected, query, history>>

\* Mutant: emptied as soon as it is read, outside of the transaction.
ReadCartEmpties(c) ==
    /\ call[c].pc = "posted"
    /\ cart # {}
    /\ cart' = {}
    /\ call' = [call EXCEPT ![c].pc = "read", ![c].read = cart, ![c].saw = Existing]
    /\ UNCHANGED <<status, items, hasAddress, places, script, selected, paying, query, history>>

ReadCart(c) ==
    /\ call[c].pc = "posted"
    /\ cart # {}
    /\ call' = [call EXCEPT ![c].pc = "read", ![c].read = cart, ![c].saw = Existing]
    /\ UNCHANGED <<rows, places, script, selected, paying, query, history>>

\* Mutant: the cart is emptied later, by the client or not at all.
LeftInCartAll == cart

\* deleteMany: every row the cart has by now.
LeftInCart == {}

\* The transaction: all that was read is ordered.
Commit(c) ==
    \E o \in Orders \ Existing :
        /\ call[c].pc = "read"
        /\ \A p \in Orders \ Existing : o <= p
        /\ status' = [status EXCEPT ![o] = "created"]
        /\ items' = [items EXCEPT ![o] = call[c].read]
        /\ cart' = LeftInCart
        /\ call' = [call EXCEPT ![c] = [NoCall EXCEPT !.pc = "committed", !.page = call[c].page,
                                                     !.order = o]]
        /\ boughtOn' = [boughtOn EXCEPT ![o] = call[c].page]
        /\ before' = [before EXCEPT ![o] = call[c].saw]
        /\ UNCHANGED <<hasAddress, places, script, selected, paying, query, added, during>>

\* createRazorpayOrder
StorePayment(c) ==
    /\ call[c].pc = "committed"
    /\ status' = [status EXCEPT ![call[c].order] = "payable"]
    /\ Step(c, "stored")
    /\ UNCHANGED <<cart, items, hasAddress, places, script, selected, paying, query, history>>

\* Mutant: no finally, setPaying at the end of the try.
FinishInTry(c) ==
    /\ call' = [call EXCEPT ![c] = NoCall]
    /\ paying' = IF call[c].pc = "open" THEN Freed({c}) ELSE paying

\* pay() is over: finally.
Finish(c) ==
    /\ call' = [call EXCEPT ![c] = NoCall]
    /\ paying' = Freed({c})

\* An empty cart, an item out of stock, no Razorpay, a process that dies: the API is
\* done with the request, and if somebody waits, catch and finally.
CheckoutFails(c) ==
    /\ call[c].pc \in {"posted", "read", "committed"}
    /\ Finish(c)
    /\ UNCHANGED <<rows, places, script, selected, query, history>>

\* The fetch rejects: catch and finally, while the API goes on with the request.
AnswerLost(c) ==
    /\ call[c].pc \in AtServer
    /\ call[c].page # Nothing
    /\ call' = [call EXCEPT ![c].page = Nothing]
    /\ paying' = Freed({c})
    /\ UNCHANGED <<rows, places, script, selected, query, history>>

\* An answer for nobody.
AnswerUnheard(c) ==
    /\ call[c].pc = "stored"
    /\ call[c].page = Nothing
    /\ call' = [call EXCEPT ![c] = NoCall]
    /\ UNCHANGED <<rows, places, script, selected, paying, query, history>>

\* The answer is there; the script is asked for once in a document.
Receive(c) ==
    /\ call[c].pc = "stored"
    /\ call[c].page # Nothing
    /\ Step(c, "loading")
    /\ LET t == tab[call[c].page]
       IN  script' = [script EXCEPT ![t] = IF @ = "none" THEN "loading" ELSE @]
    /\ UNCHANGED <<rows, places, selected, paying, query, history>>

ScriptLoads(t) ==
    /\ script[t] = "loading"
    /\ script' = [script EXCEPT ![t] = "ready"]
    /\ UNCHANGED <<rows, places, selected, paying, call, query, history>>

\* The promise is kept, rejected, as long as the document.
ScriptFails(t) ==
    /\ script[t] = "loading"
    /\ script' = [script EXCEPT ![t] = "broken"]
    /\ UNCHANGED <<rows, places, selected, paying, call, query, history>>

OpenWidget(c) ==
    /\ call[c].pc = "loading"
    /\ script[tab[call[c].page]] = "ready"
    /\ Step(c, "open")
    /\ paying' = Freed({c})
    /\ UNCHANGED <<rows, places, script, selected, query, history>>

NoWidget(c) ==
    /\ call[c].pc = "loading"
    /\ script[tab[call[c].page]] = "broken"
    /\ Finish(c)
    /\ UNCHANGED <<rows, places, script, selected, query, history>>

\* The shopper pays, and Razorpay's handler takes the tab to the order.
PayInWidget(c) ==
    /\ call[c].pc = "open"
    /\ status' = [status EXCEPT ![call[c].order] = "captured"]
    /\ LET t == tab[call[c].page]
       IN  /\ GoTo(t, call[c].order)
           /\ selected' = selected \ {at[t]}
    /\ Finish(c)
    /\ UNCHANGED <<cart, items, hasAddress, tab, visited, script, history>>

Dismiss(c) ==
    /\ call[c].pc = "open"
    /\ call' = [call EXCEPT ![c] = NoCall]
    /\ UNCHANGED <<rows, places, script, selected, paying, query, history>>

\* The webhook: see CaptureIsAnnounced of Payments.
Settle(o) ==
    /\ status[o] = "captured"
    /\ status' = [status EXCEPT ![o] = "PAID"]
    /\ UNCHANGED <<cart, items, hasAddress, places, script, selected, paying, call, query, history>>
-----------------------------------------------------------------------------
(* The order page *)

\* Mutant: asked once, on mount.
PollsOnce(t) == shown[t] = "nothing"

\* On mount, and every three seconds while the order is pending.
Polls(t) == shown[t] \in {"nothing", "PENDING_PAYMENT"}

ReadOrder(t) ==
    /\ at[t] \in Orders
    /\ Polls(t)
    /\ poll[t] = "idle"
    /\ poll' = [poll EXCEPT ![t] = Shown(status[at[t]])]
    /\ UNCHANGED <<rows, places, script, selected, paying, call, shown, history>>

ShowOrder(t) ==
    /\ poll[t] # "idle"
    /\ shown' = [shown EXCEPT ![t] = poll[t]]
    /\ poll' = [poll EXCEPT ![t] = "idle"]
    /\ UNCHANGED <<rows, places, script, selected, paying, call, history>>

\* The fetch and its retries fail: with no data yet there is no interval to ask
\* again, and the page says "Loading..." for good.
PollFails(t) ==
    /\ poll[t] # "idle"
    /\ shown' = [shown EXCEPT ![t] = IF @ = "nothing" THEN "lost" ELSE @]
    /\ poll' = [poll EXCEPT ![t] = "idle"]
    /\ UNCHANGED <<rows, places, script, selected, paying, call, history>>

\* An answer other than 200 is taken for an order, which has no id to show.
PollRefused(t) ==
    /\ poll[t] # "idle"
    /\ shown' = [shown EXCEPT ![t] = "lost"]
    /\ poll' = [poll EXCEPT ![t] = "idle"]
    /\ UNCHANGED <<rows, places, script, selected, paying, call, history>>
-----------------------------------------------------------------------------
Answering(c) ==
    \/ ReadCart(c) \/ Commit(c) \/ StorePayment(c)
    \/ CheckoutFails(c) \/ AnswerLost(c) \/ AnswerUnheard(c) \/ Receive(c)
    \/ OpenWidget(c) \/ NoWidget(c)

Next ==
    \/ \E p \in Pages :
          \/ OpenCheckout(p) \/ LoadAddresses(p) \/ AddAddress(p) \/ AddAddressFails(p)
          \/ \E c \in Calls : Pay(c, p)
    \/ \E c \in Calls : Answering(c) \/ PayInWidget(c) \/ Dismiss(c)
    \/ \E t \in Tabs :
          \/ Leave(t) \/ Reload(t) \/ ScriptLoads(t) \/ ScriptFails(t)
          \/ ReadOrder(t) \/ ShowOrder(t) \/ PollFails(t) \/ PollRefused(t)
          \/ \E o \in Orders : OpenOrder(t, o)
    \/ \E o \in Orders : Settle(o)
    \/ AddToCart

Spec == Init /\ [][Next]_vars

\* Requests are answered or fail and scripts load or do not; the webhook comes;
\* the timer of an open page ticks, and its requests do not fail every time.
Fairness ==
    /\ \A c \in Calls : WF_vars(Answering(c))
    /\ \A t \in Tabs : WF_vars(ScriptLoads(t) \/ ScriptFails(t))
    /\ \A o \in Orders : WF_vars(Settle(o))
    /\ \A t \in Tabs : WF_vars(ReadOrder(t)) /\ SF_vars(ShowOrder(t))

FairSpec == Spec /\ Fairness
-----------------------------------------------------------------------------
(* Properties *)

Share(o, p) == o # p /\ items[o] \cap items[p] # {}

\* A unit is ordered twice only by checkouts that overlap at the API: neither order was
\* there when the other's cart was read.  Paying again after an error buys nothing again
\* that had been ordered by then; it may buy what the API goes on to order.
OnlyOverlapsOrderTwice ==
    \A o, p \in Existing : Share(o, p) => o \notin before[p] /\ p \notin before[o]

\* Checkouts that one visit to the page waits for never order a unit twice, however often
\* the button is pressed.  Two orders from one visit that share a unit take a fetch that
\* rejected, or a document that went, before the API had committed one of them.
OncePerPage ==
    \A o, p \in Existing : Share(o, p) => boughtOn[o] # boughtOn[p] \/ boughtOn[o] = Nothing

\* A unit added is in the cart or in an order, unless it was added while a checkout
\* was between reading the cart and deleting its rows.
UnitsAreAccountedFor ==
    \A u \in 1..added : u \in cart \cup during \/ \E o \in Existing : u \in items[o]

Waits(t) == at[t] \in Pages /\ paying[at[t]] # Nothing

\* The button comes back, whatever became of the checkout and of the script.
PayButtonReturns == \A t \in Tabs : Waits(t) ~> ~Waits(t)

\* Whoever has paid and stays on the order's page sees that it is PAID, unless a request
\* of the page was refused or its first ones failed, which leave it with no order to show.
PaidIsShown ==
    \A t \in Tabs, o \in Orders :
        at[t] = o /\ status[o] = "captured"
          ~> at[t] # o \/ shown[t] \in {"PAID", "lost"}
=============================================================================
