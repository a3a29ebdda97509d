---------------------------- MODULE PayingProofs ----------------------------
(***************************************************************************)
(* The safety properties of Paying, for any number of tabs, pages, runs of *)
(* pay(), units and orders.                                                *)
(***************************************************************************)
EXTENDS Paying, TLAPS

\* No unit of an order is in the cart; what was there when the cart of an order was
\* read shares nothing with it, and that is so of whatever its page had ordered.
OrdersApart ==
    /\ \A o \in Existing : /\ items[o] \subseteq 1..added
                           /\ items[o] \cap cart = {}
                           /\ before[o] \subseteq Existing
    /\ \A o, p \in Existing : o \in before[p] /\ o # p => items[o] \cap items[p] = {}
    /\ \A o, p \in Existing : o # p /\ boughtOn[o] = boughtOn[p] /\ boughtOn[o] # Nothing
                                => o \in before[p] \/ p \in before[o]

\* The same of a cart that was read and not yet ordered.
ReadsApart ==
    \A c \in Calls : call[c].pc = "read" =>
        /\ call[c].read \subseteq 1..added
        /\ cart \subseteq call[c].read \cup during
        /\ call[c].saw \subseteq Existing
        /\ \A o \in call[c].saw : items[o] \cap call[c].read = {}
        /\ call[c].page # Nothing =>
              \A o \in Existing : boughtOn[o] = call[c].page => o \in call[c].saw

HasOrder == {"committed", "stored", "loading", "open"}

OrdersExist ==
    \A c \in Calls : call[c].pc \in HasOrder => call[c].order \in Existing

Busy(c) == call[c].pc \in AtServer \cup {"loading"} /\ call[c].page # Nothing

\* As long as a page is open its button waits for the call it made, so that no two
\* calls of one page are ever at work.
OneCallPerPage ==
    /\ \A t \in Tabs : at[t] \in Pages => at[t] \in visited /\ tab[at[t]] = t
    /\ \A c \in Calls : Busy(c) => /\ call[c].page \in visited
                                   /\ IsOpen(call[c].page) => paying[call[c].page] = c
    /\ \A c, d \in Calls : Busy(c) /\ Busy(d) /\ call[c].page = call[d].page => c = d

RowsInv == OrdersApart /\ ReadsApart /\ OrdersExist /\ UnitsAreAccountedFor

PayingInv == TypeOK /\ RowsInv /\ OneCallPerPage
-----------------------------------------------------------------------------
\* What the steps of a call leave is a call.
LEMMA CallTypes ==
    /\ NoCall \in CallStates
    /\ \A cs \in CallStates :
          /\ \A l \in AtServer \cup InBrowser : [cs EXCEPT !.pc = l] \in CallStates
          /\ [cs EXCEPT !.page = Nothing] \in CallStates
          /\ \A R \in SUBSET Units, S \in SUBSET Orders :
                [cs EXCEPT !.pc = "read", !.read = R, !.saw = S] \in CallStates
          /\ \A o \in Orders :
                [NoCall EXCEPT !.pc = "committed", !.page = cs.page, !.order = o] \in CallStates
    /\ \A p \in Pages : [NoCall EXCEPT !.pc = "posted", !.page = p] \in CallStates
  BY DEF NoCall, CallStates, AtServer, InBrowser

LEMMA FreedType == ASSUME TypeOK, NEW C PROVE Freed(C) \in [Pages -> Calls \cup {Nothing}]
  BY DEF Freed, TypeOK

\* What is in the cart, the orders and the pages stays what it should be.
LEMMA TypeInit == Init => TypeOK
  <1> SUFFICES ASSUME Init PROVE TypeOK
    OBVIOUS
  <1>1. call \in [Calls -> CallStates]
    BY CallTypes DEF Init
  <1>2. added \in 0..MaxUnits
    BY PayingAssumption DEF Init
  <1>3. QED
    BY <1>1, <1>2 DEF Init, TypeOK

LEMMA TypeStep == TypeOK /\ [Next]_vars => TypeOK'
  <1> SUFFICES ASSUME TypeOK, [Next]_vars PROVE TypeOK'
    OBVIOUS
  <1>1. ASSUME NEW p \in Pages, OpenCheckout(p) PROVE TypeOK'
    BY <1>1 DEF TypeOK, OpenCheckout, GoTo, rows, places, query, history
  <1>2. ASSUME NEW p \in Pages, LoadAddresses(p) PROVE TypeOK'
    BY <1>2 DEF TypeOK, LoadAddresses, rows, places, query, history
  <1>3. ASSUME NEW p \in Pages, AddAddress(p) PROVE TypeOK'
    BY <1>3 DEF TypeOK, AddAddress, rows, places, query, history
  <1>4. ASSUME NEW p \in Pages, AddAddressFails(p) PROVE TypeOK'
    BY <1>4 DEF TypeOK, AddAddressFails, rows, places, query, history
  <1>5. ASSUME NEW p \in Pages, NEW c \in Calls, Pay(c, p) PROVE TypeOK'
    BY <1>5, PayingAssumption, CallTypes DEF TypeOK, Pay, CanPay, rows, places, query, history
  <1>6. ASSUME NEW c \in Calls, ReadCart(c) PROVE TypeOK'
    <2>1. cart \in SUBSET Units /\ Existing \in SUBSET Orders
      BY PayingAssumption DEF TypeOK, Existing, Units
    <2>2. call' \in [Calls -> CallStates]
      BY <1>6, <2>1, CallTypes DEF TypeOK, ReadCart
    <2>3. QED
      BY <1>6, <2>2 DEF TypeOK, ReadCart, rows, places, query, history
  <1>7. ASSUME NEW c \in Calls, Commit(c) PROVE TypeOK'
    <2>1. PICK o \in Orders \ Existing : Commit(c)!(o)
      BY <1>7 DEF Commit
    <2>2. call' \in [Calls -> CallStates]
      BY <2>1, CallTypes DEF TypeOK
    <2>3. call[c].page \in Pages \cup {Nothing} /\ call[c].read \subseteq Units
             /\ call[c].saw \subseteq Orders
      BY DEF TypeOK, CallStates
    <2>4. QED
      BY <2>1, <2>2, <2>3 DEF TypeOK, LeftInCart, Created, places, query
  <1>8. ASSUME NEW c \in Calls, StorePayment(c) PROVE TypeOK'
    <2>1. call' \in [Calls -> CallStates]
      BY <1>8, CallTypes DEF TypeOK, StorePayment, Step, AtServer, InBrowser
    <2>2. QED
      BY <1>8, <2>1 DEF TypeOK, StorePayment, Created, rows, places, query, history
  <1>9. ASSUME NEW c \in Calls, CheckoutFails(c) PROVE TypeOK'
    BY <1>9, CallTypes, FreedType DEF TypeOK, CheckoutFails, Finish, rows, places, query, history
  <1>10. ASSUME NEW c \in Calls, AnswerLost(c) PROVE TypeOK'
    BY <1>10, CallTypes, FreedType DEF TypeOK, AnswerLost, rows, places, query, history
  <1>11. ASSUME NEW c \in Calls, AnswerUnheard(c) PROVE TypeOK'
    BY <1>11, CallTypes DEF TypeOK, AnswerUnheard, rows, places, query, history
  <1>12. ASSUME NEW c \in Calls, Receive(c) PROVE TypeOK'
    <2>1. call' \in [Calls -> CallStates]
      BY <1>12, CallTypes DEF TypeOK, Receive, Step, AtServer, InBrowser
    <2>2. QED
      BY <1>12, <2>1 DEF TypeOK, Receive, Created, rows, places, query, history
  <1>13. ASSUME NEW c \in Calls, OpenWidget(c) PROVE TypeOK'
    <2>1. call' \in [Calls -> CallStates]
      BY <1>13, CallTypes DEF TypeOK, OpenWidget, Step, InBrowser
    <2>2. QED
      BY <1>13, <2>1, FreedType DEF TypeOK, OpenWidget, rows, places, query, history
  <1>14. ASSUME NEW c \in Calls, NoWidget(c) PROVE TypeOK'
    BY <1>14, CallTypes, FreedType DEF TypeOK, NoWidget, Finish, rows, places, query, history
  <1>15. ASSUME NEW c \in Calls, PayInWidget(c) PROVE TypeOK'
    <2>1. call[c].order \in Orders \cup {Nothing}
      BY DEF TypeOK, CallStates
    <2>2. QED
      BY <1>15, <2>1, CallTypes, FreedType DEF TypeOK, PayInWidget, Finish, GoTo, Created, history
  <1>16. ASSUME NEW c \in Calls, Dismiss(c) PROVE TypeOK'
    BY <1>16, PayingAssumption, CallTypes DEF TypeOK, Dismiss, rows, places, query, history
  <1>17. ASSUME NEW t \in Tabs, Leave(t) PROVE TypeOK'
    BY <1>17 DEF TypeOK, Leave, GoTo, rows, places, query, history
  <1>18. ASSUME NEW t \in Tabs, Reload(t) PROVE TypeOK'
    <2>1. call' \in [Calls -> CallStates]
      BY <1>18, CallTypes DEF TypeOK, Reload
    <2>2. at' \in [Tabs -> Pages \cup Orders \cup {Nothing}]
      BY <1>18 DEF TypeOK, Reload, GoTo
    <2>3. QED
      BY <1>18, <2>1, <2>2, FreedType DEF TypeOK, Reload, GoTo, rows, history
  <1>19. ASSUME NEW t \in Tabs, ScriptLoads(t) PROVE TypeOK'
    BY <1>19 DEF TypeOK, ScriptLoads, rows, places, query, history
  <1>20. ASSUME NEW t \in Tabs, ScriptFails(t) PROVE TypeOK'
    BY <1>20 DEF TypeOK, ScriptFails, rows, places, query, history
  <1>21. ASSUME NEW t \in Tabs, ReadOrder(t) PROVE TypeOK'
    BY <1>21 DEF TypeOK, ReadOrder, Shown, rows, places, query, history
  <1>22. ASSUME NEW t \in Tabs, ShowOrder(t) PROVE TypeOK'
    BY <1>22 DEF TypeOK, ShowOrder, rows, places, query, history
  <1>23. ASSUME NEW t \in Tabs, PollFails(t) PROVE TypeOK'
    BY <1>23 DEF TypeOK, PollFails, rows, places, query, history
  <1>24. ASSUME NEW t \in Tabs, PollRefused(t) PROVE TypeOK'
    BY <1>24 DEF TypeOK, PollRefused, rows, places, query, history
  <1>25. ASSUME NEW t \in Tabs, NEW o \in Orders, OpenOrder(t, o) PROVE TypeOK'
    BY <1>25 DEF TypeOK, OpenOrder, GoTo, Existing, Created, rows, places, query, history
  <1>26. ASSUME NEW o \in Orders, Settle(o) PROVE TypeOK'
    BY <1>26 DEF TypeOK, Settle, Created, rows, places, query, history
  <1>27. ASSUME AddToCart PROVE TypeOK'
    BY <1>27, PayingAssumption DEF TypeOK, AddToCart, rows, places, query, history
  <1>28. CASE UNCHANGED vars
    BY <1>28 DEF TypeOK, vars, rows, places, query, history
  <1>29. QED
    BY <1>1, <1>2, <1>3, <1>4, <1>5, <1>6, <1>7, <1>8, <1>9, <1>10, <1>11, <1>12, <1>13, <1>14, <1>15, <1>16, <1>17, <1>18, <1>19, <1>20, <1>21, <1>22, <1>23, <1>24, <1>25, <1>26, <1>27, <1>28 DEF Next, Answering
-----------------------------------------------------------------------------
\* A step that neither reads the cart nor writes the cart or an order.
LEMMA QuietStep ==
    ASSUME TypeOK, RowsInv,
           UNCHANGED <<cart, items, added, during, boughtOn, before>>,
           Existing' = Existing,
           \A c \in Calls : call'[c].pc = "read" =>
               /\ call[c].pc = "read"
               /\ call'[c].read = call[c].read /\ call'[c].saw = call[c].saw
               /\ call'[c].page \in {call[c].page, Nothing},
           \A c \in Calls : call'[c].pc \in HasOrder =>
               call[c].pc \in HasOrder /\ call'[c].order = call[c].order
    PROVE  RowsInv'
  <1>1. OrdersApart'
    BY DEF RowsInv, OrdersApart
  <1>2. ReadsApart'
    BY DEF RowsInv, ReadsApart
  <1>3. OrdersExist'
    BY DEF RowsInv, OrdersExist
  <1>4. UnitsAreAccountedFor'
    BY DEF RowsInv, UnitsAreAccountedFor
  <1>5. QED
    BY <1>1, <1>2, <1>3, <1>4 DEF RowsInv

LEMMA RowsAddToCart == ASSUME TypeOK, RowsInv, AddToCart PROVE RowsInv'
  <1>1. /\ Existing' = Existing
        /\ UNCHANGED <<items, call, boughtOn, before>>
        /\ cart' = cart \cup {added + 1}
    BY DEF AddToCart, Existing
  <1>2. added + 1 \notin 1..added /\ 1..added' = 1..added \cup {added + 1}
    <2>1. added' = added + 1 /\ added \in Nat
      BY PayingAssumption DEF AddToCart, TypeOK
    <2>2. QED
      BY <2>1
  <1>3. during \subseteq during' /\ \A c \in Calls : call[c].pc = "read" => added + 1 \in during'
    BY DEF AddToCart
  <1>4. OrdersApart'
    BY <1>1, <1>2, <1>3 DEF RowsInv, OrdersApart
  <1>5. ReadsApart'
    BY <1>1, <1>2, <1>3 DEF RowsInv, ReadsApart
  <1>6. OrdersExist'
    BY <1>1, <1>2, <1>3 DEF RowsInv, OrdersExist
  <1>7. UnitsAreAccountedFor'
    BY <1>1, <1>2, <1>3 DEF RowsInv, UnitsAreAccountedFor
  <1>8. QED
    BY <1>4, <1>5, <1>6, <1>7 DEF RowsInv

LEMMA RowsReadCart ==
    ASSUME TypeOK, RowsInv, NEW c \in Calls, ReadCart(c) PROVE RowsInv'
  <1>1. /\ Existing' = Existing
        /\ UNCHANGED <<cart, items, added, during, boughtOn, before>>
        /\ \A d \in Calls \ {c} : call'[d] = call[d]
        /\ call'[c].pc = "read" /\ call'[c].read = cart /\ call'[c].saw = Existing
    BY DEF ReadCart, Existing, rows, history, TypeOK, CallStates
  <1>2. OrdersApart'
    BY <1>1 DEF RowsInv, OrdersApart
  <1>3. ReadsApart'
    BY <1>1 DEF RowsInv, ReadsApart, OrdersApart, TypeOK
  <1>4. OrdersExist'
    BY <1>1 DEF RowsInv, OrdersExist, HasOrder
  <1>5. UnitsAreAccountedFor'
    BY <1>1 DEF RowsInv, UnitsAreAccountedFor
  <1>6. QED
    BY <1>2, <1>3, <1>4, <1>5 DEF RowsInv

LEMMA RowsCommit ==
    ASSUME TypeOK, RowsInv, OneCallPerPage, NEW c \in Calls, Commit(c) PROVE RowsInv'
  <1>1. PICK n \in Orders \ Existing : Commit(c)!(n)
    BY DEF Commit
  <1>2. /\ Existing' = Existing \cup {n}
        /\ \A o \in Existing : /\ items'[o] = items[o] /\ boughtOn'[o] = boughtOn[o]
                               /\ before'[o] = before[o] /\ o \in Orders /\ o # n
        /\ items'[n] = call[c].read /\ boughtOn'[n] = call[c].page /\ before'[n] = call[c].saw
        /\ cart' = {} /\ UNCHANGED <<added, during>>
        /\ \A d \in Calls \ {c} : call'[d] = call[d]
        /\ call'[c].pc = "committed" /\ call'[c].order = n
        /\ call[c].pc = "read"
    BY <1>1 DEF Existing, TypeOK, Created, LeftInCart, NoCall
  <1>3. /\ call[c].read \subseteq 1..added
        /\ cart \subseteq call[c].read \cup during
        /\ call[c].saw \subseteq Existing
        /\ \A o \in call[c].saw : items[o] \cap call[c].read = {}
        /\ call[c].page # Nothing =>
              \A o \in Existing : boughtOn[o] = call[c].page => o \in call[c].saw
    BY <1>2 DEF RowsInv, ReadsApart
  <1>4. OrdersApart'
    <2>1. \A o \in Existing' : items'[o] \subseteq 1..added' /\ before'[o] \subseteq Existing'
      BY <1>2, <1>3 DEF RowsInv, OrdersApart
    <2>2. \A o, p \in Existing' : o \in before'[p] /\ o # p => items'[o] \cap items'[p] = {}
      <3> SUFFICES ASSUME NEW o \in Existing', NEW p \in Existing', o \in before'[p], o # p
                   PROVE  items'[o] \cap items'[p] = {}
        OBVIOUS
      <3>1. CASE p = n
        BY <3>1, <1>2, <1>3
      <3>2. CASE p # n
        BY <3>2, <1>2 DEF RowsInv, OrdersApart
      <3>3. QED
        BY <3>1, <3>2
    <2>3. \A o, p \in Existing' :
             o # p /\ boughtOn'[o] = boughtOn'[p] /\ boughtOn'[o] # Nothing
               => o \in before'[p] \/ p \in before'[o]
      BY <1>2, <1>3 DEF RowsInv, OrdersApart
    <2>4. QED
      BY <1>2, <2>1, <2>2, <2>3 DEF OrdersApart
  <1>5. ReadsApart'
    <2> SUFFICES ASSUME NEW d \in Calls, call'[d].pc = "read"
                 PROVE  /\ call'[d].read \subseteq 1..added'
                        /\ call'[d].saw \subseteq Existing'
                        /\ \A o \in call'[d].saw : items'[o] \cap call'[d].read = {}
                        /\ call'[d].page # Nothing =>
                              \A o \in Existing' :
                                 boughtOn'[o] = call'[d].page => o \in call'[d].saw
      BY <1>2 DEF ReadsApart
    <2>1. d # c /\ call'[d] = call[d]
      BY <1>2
    <2>2. ~(call[c].page # Nothing /\ call[c].page = call[d].page)
      BY <1>2, <2>1 DEF OneCallPerPage, Busy, AtServer
    <2>3. QED
      BY <1>2, <2>1, <2>2 DEF RowsInv, ReadsApart
  <1>6. OrdersExist'
    BY <1>2 DEF RowsInv, OrdersExist
  <1>7. UnitsAreAccountedFor'
    BY <1>2, <1>3 DEF RowsInv, UnitsAreAccountedFor
  <1>8. QED
    BY <1>4, <1>5, <1>6, <1>7 DEF RowsInv
-----------------------------------------------------------------------------
\* A step that opens no page that was visited and puts no call to work, and takes
\* no button of an open page from the call it waits for.
LEMMA PagesStep ==
    ASSUME TypeOK, OneCallPerPage, tab' = tab, visited \subseteq visited',
           \A t \in Tabs : at'[t] \in Pages =>
               \/ at'[t] = at[t]
               \/ at'[t] \in visited' \ visited /\ tab[at'[t]] = t,
           \A c \in Calls : Busy(c)' => Busy(c) /\ call'[c].page = call[c].page,
           \A c \in Calls : Busy(c)' /\ at'[tab[call[c].page]] = call[c].page
                              /\ paying[call[c].page] = c => paying'[call[c].page] = c
    PROVE  OneCallPerPage'
  <1>1. \A t \in Tabs : at'[t] \in Pages => at'[t] \in visited' /\ tab'[at'[t]] = t
    BY DEF OneCallPerPage
  <1>2. ASSUME NEW c \in Calls, Busy(c)'
        PROVE  /\ call'[c].page \in visited'
               /\ at'[tab'[call'[c].page]] = call'[c].page => paying'[call'[c].page] = c
    <2>1. Busy(c) /\ call'[c].page = call[c].page /\ call[c].page \in visited
      BY <1>2 DEF OneCallPerPage
    <2>2. call[c].page \in Pages
      BY <2>1 DEF TypeOK
    <2>3. at'[tab'[call[c].page]] = call[c].page => at[tab[call[c].page]] = call[c].page
      BY <2>1, <2>2 DEF TypeOK
    <2>4. QED
      BY <1>2, <2>1, <2>3 DEF OneCallPerPage, IsOpen
  <1>3. \A c, d \in Calls : Busy(c)' /\ Busy(d)' /\ call'[c].page = call'[d].page => c = d
    BY DEF OneCallPerPage
  <1>4. QED
    BY <1>1, <1>2, <1>3 DEF OneCallPerPage, IsOpen

LEMMA PagesPay ==
    ASSUME TypeOK, OneCallPerPage, NEW c \in Calls, NEW p \in Pages, Pay(c, p)
    PROVE  OneCallPerPage'
  <1>1. /\ UNCHANGED <<tab, at, visited>>
        /\ IsOpen(p) /\ paying[p] = Nothing
        /\ paying' = [paying EXCEPT ![p] = c]
        /\ call'[c].pc = "posted" /\ call'[c].page = p
        /\ \A d \in Calls \ {c} : call'[d] = call[d]
        /\ p \in visited
    BY DEF Pay, CanPay, places, TypeOK, OneCallPerPage, IsOpen, NoCall
  <1>2. \A d \in Calls : Busy(d) => call[d].page # p
    BY <1>1, PayingAssumption DEF OneCallPerPage
  <1>3. \A d \in Calls \ {c} : Busy(d)' <=> Busy(d)
    BY <1>1 DEF Busy
  <1>4. QED
    BY <1>1, <1>2, <1>3 DEF OneCallPerPage, IsOpen, TypeOK

\* Only ReadCart, Commit and AddToCart are not quiet.
LEMMA RowsStep == TypeOK /\ RowsInv /\ OneCallPerPage /\ [Next]_vars => RowsInv'
  <1> SUFFICES ASSUME TypeOK, RowsInv, OneCallPerPage, [Next]_vars PROVE RowsInv'
    OBVIOUS
  <1>1. ASSUME NEW p \in Pages, OpenCheckout(p) PROVE RowsInv'
    BY <1>1, QuietStep DEF OpenCheckout, Existing, GoTo, rows, history
  <1>2. ASSUME NEW p \in Pages, LoadAddresses(p) PROVE RowsInv'
    BY <1>2, QuietStep DEF LoadAddresses, Existing, rows, history
  <1>3. ASSUME NEW p \in Pages, AddAddress(p) PROVE RowsInv'
    BY <1>3, QuietStep DEF AddAddress, Existing, history
  <1>4. ASSUME NEW p \in Pages, AddAddressFails(p) PROVE RowsInv'
    BY <1>4, QuietStep DEF AddAddressFails, Existing, rows, history
  <1>5. ASSUME NEW p \in Pages, NEW c \in Calls, Pay(c, p) PROVE RowsInv'
    BY <1>5, QuietStep DEF Pay, Existing, NoCall, rows, history, HasOrder, TypeOK, CallStates
  <1>6. ASSUME NEW c \in Calls, ReadCart(c) PROVE RowsInv'
    BY <1>6, RowsReadCart
  <1>7. ASSUME NEW c \in Calls, Commit(c) PROVE RowsInv'
    BY <1>7, RowsCommit
  <1>8. ASSUME NEW c \in Calls, StorePayment(c) PROVE RowsInv'
    BY <1>8, QuietStep DEF StorePayment, Existing, Step, history, HasOrder, TypeOK, CallStates, RowsInv, OrdersExist
  <1>9. ASSUME NEW c \in Calls, CheckoutFails(c) PROVE RowsInv'
    BY <1>9, QuietStep DEF CheckoutFails, Existing, Finish, NoCall, rows, history, HasOrder, TypeOK, CallStates
  <1>10. ASSUME NEW c \in Calls, AnswerLost(c) PROVE RowsInv'
    BY <1>10, QuietStep DEF AnswerLost, Existing, rows, history, HasOrder, TypeOK, CallStates
  <1>11. ASSUME NEW c \in Calls, AnswerUnheard(c) PROVE RowsInv'
    BY <1>11, QuietStep DEF AnswerUnheard, Existing, NoCall, rows, history, HasOrder, TypeOK, CallStates
  <1>12. ASSUME NEW c \in Calls, Receive(c) PROVE RowsInv'
    BY <1>12, QuietStep DEF Receive, Existing, Step, rows, history, HasOrder, TypeOK, CallStates
  <1>13. ASSUME NEW c \in Calls, OpenWidget(c) PROVE RowsInv'
    BY <1>13, QuietStep DEF OpenWidget, Existing, Step, rows, history, HasOrder, TypeOK, CallStates
  <1>14. ASSUME NEW c \in Calls, NoWidget(c) PROVE RowsInv'
    BY <1>14, QuietStep DEF NoWidget, Existing, Finish, NoCall, rows, history, HasOrder, TypeOK, CallStates
  <1>15. ASSUME NEW c \in Calls, PayInWidget(c) PROVE RowsInv'
    BY <1>15, QuietStep DEF PayInWidget, Existing, Finish, NoCall, history, HasOrder, TypeOK, CallStates, RowsInv, OrdersExist
  <1>16. ASSUME NEW c \in Calls, Dismiss(c) PROVE RowsInv'
    BY <1>16, QuietStep DEF Dismiss, Existing, NoCall, rows, history, HasOrder, TypeOK, CallStates
  <1>17. ASSUME NEW t \in Tabs, Leave(t) PROVE RowsInv'
    BY <1>17, QuietStep DEF Leave, Existing, GoTo, rows, history
  <1>18. ASSUME NEW t \in Tabs, Reload(t) PROVE RowsInv'
    BY <1>18, QuietStep DEF Reload, Existing, NoCall, rows, history, HasOrder, TypeOK, CallStates
  <1>19. ASSUME NEW t \in Tabs, ScriptLoads(t) PROVE RowsInv'
    BY <1>19, QuietStep DEF ScriptLoads, Existing, rows, history
  <1>20. ASSUME NEW t \in Tabs, ScriptFails(t) PROVE RowsInv'
    BY <1>20, QuietStep DEF ScriptFails, Existing, rows, history
  <1>21. ASSUME NEW t \in Tabs, ReadOrder(t) PROVE RowsInv'
    BY <1>21, QuietStep DEF ReadOrder, Existing, rows, history
  <1>22. ASSUME NEW t \in Tabs, ShowOrder(t) PROVE RowsInv'
    BY <1>22, QuietStep DEF ShowOrder, Existing, rows, history
  <1>23. ASSUME NEW t \in Tabs, PollFails(t) PROVE RowsInv'
    BY <1>23, QuietStep DEF PollFails, Existing, rows, history
  <1>24. ASSUME NEW t \in Tabs, PollRefused(t) PROVE RowsInv'
    BY <1>24, QuietStep DEF PollRefused, Existing, rows, history
  <1>25. ASSUME NEW t \in Tabs, NEW o \in Orders, OpenOrder(t, o) PROVE RowsInv'
    BY <1>25, QuietStep DEF OpenOrder, Existing, GoTo, rows, history
  <1>26. ASSUME NEW o \in Orders, Settle(o) PROVE RowsInv'
    BY <1>26, QuietStep DEF Settle, Existing, history, TypeOK
  <1>27. ASSUME AddToCart PROVE RowsInv'
    BY <1>27, RowsAddToCart
  <1>28. CASE UNCHANGED vars
    BY <1>28, QuietStep DEF vars, rows, history, Existing
  <1>29. QED
    BY <1>1, <1>2, <1>3, <1>4, <1>5, <1>6, <1>7, <1>8, <1>9, <1>10, <1>11, <1>12, <1>13, <1>14, <1>15, <1>16, <1>17, <1>18, <1>19, <1>20, <1>21, <1>22, <1>23, <1>24, <1>25, <1>26, <1>27, <1>28 DEF Next, Answering

\* Only Pay puts a call to work.
LEMMA OneCallPerPageStep == TypeOK /\ OneCallPerPage /\ [Next]_vars => OneCallPerPage'
  <1> SUFFICES ASSUME TypeOK, OneCallPerPage, [Next]_vars PROVE OneCallPerPage'
    OBVIOUS
  <1>1. ASSUME NEW p \in Pages, OpenCheckout(p) PROVE OneCallPerPage'
    BY <1>1, PagesStep, PayingAssumption DEF OpenCheckout, Busy, TypeOK, GoTo
  <1>2. ASSUME NEW p \in Pages, LoadAddresses(p) PROVE OneCallPerPage'
    BY <1>2, PagesStep, PayingAssumption DEF LoadAddresses, Busy, TypeOK, places
  <1>3. ASSUME NEW p \in Pages, AddAddress(p) PROVE OneCallPerPage'
    BY <1>3, PagesStep, PayingAssumption DEF AddAddress, Busy, TypeOK, places
  <1>4. ASSUME NEW p \in Pages, AddAddressFails(p) PROVE OneCallPerPage'
    BY <1>4, PagesStep, PayingAssumption DEF AddAddressFails, Busy, TypeOK, places
  <1>5. ASSUME NEW p \in Pages, NEW c \in Calls, Pay(c, p) PROVE OneCallPerPage'
    BY <1>5, PagesPay
  <1>6. ASSUME NEW c \in Calls, ReadCart(c) PROVE OneCallPerPage'
    BY <1>6, PagesStep, PayingAssumption DEF ReadCart, Busy, TypeOK, places, CallStates, AtServer
  <1>7. ASSUME NEW c \in Calls, Commit(c) PROVE OneCallPerPage'
    BY <1>7, PagesStep, PayingAssumption DEF Commit, Busy, TypeOK, places, NoCall, CallStates, AtServer
  <1>8. ASSUME NEW c \in Calls, StorePayment(c) PROVE OneCallPerPage'
    BY <1>8, PagesStep, PayingAssumption DEF StorePayment, Busy, TypeOK, Step, places, CallStates, AtServer
  <1>9. ASSUME NEW c \in Calls, CheckoutFails(c) PROVE OneCallPerPage'
    BY <1>9, PagesStep, PayingAssumption DEF CheckoutFails, Busy, TypeOK, Finish, Freed, NoCall, places, CallStates, AtServer
  <1>10. ASSUME NEW c \in Calls, AnswerLost(c) PROVE OneCallPerPage'
    BY <1>10, PagesStep, PayingAssumption DEF AnswerLost, Busy, TypeOK, Freed, places, CallStates, AtServer
  <1>11. ASSUME NEW c \in Calls, AnswerUnheard(c) PROVE OneCallPerPage'
    BY <1>11, PagesStep, PayingAssumption DEF AnswerUnheard, Busy, TypeOK, NoCall, places, CallStates, AtServer
  <1>12. ASSUME NEW c \in Calls, Receive(c) PROVE OneCallPerPage'
    BY <1>12, PagesStep, PayingAssumption DEF Receive, Busy, TypeOK, Step, places, CallStates, AtServer
  <1>13. ASSUME NEW c \in Calls, OpenWidget(c) PROVE OneCallPerPage'
    BY <1>13, PagesStep, PayingAssumption DEF OpenWidget, Busy, TypeOK, Step, Freed, places, CallStates, AtServer
  <1>14. ASSUME NEW c \in Calls, NoWidget(c) PROVE OneCallPerPage'
    BY <1>14, PagesStep, PayingAssumption DEF NoWidget, Busy, TypeOK, Finish, Freed, NoCall, places, CallStates, AtServer
  <1>15. ASSUME NEW c \in Calls, PayInWidget(c) PROVE OneCallPerPage'
    BY <1>15, PagesStep, PayingAssumption DEF PayInWidget, Busy, TypeOK, Finish, Freed, NoCall, GoTo, CallStates, AtServer
  <1>16. ASSUME NEW c \in Calls, Dismiss(c) PROVE OneCallPerPage'
    BY <1>16, PagesStep, PayingAssumption DEF Dismiss, Busy, TypeOK, NoCall, places, CallStates, AtServer
  <1>17. ASSUME NEW t \in Tabs, Leave(t) PROVE OneCallPerPage'
    BY <1>17, PagesStep, PayingAssumption DEF Leave, Busy, OneCallPerPage, TypeOK, GoTo
  <1>18. ASSUME NEW t \in Tabs, Reload(t) PROVE OneCallPerPage'
    BY <1>18, PagesStep, PayingAssumption DEF Reload, Busy, TypeOK, NoCall, GoTo, Freed, CallStates, AtServer
  <1>19. ASSUME NEW t \in Tabs, ScriptLoads(t) PROVE OneCallPerPage'
    BY <1>19, PagesStep, PayingAssumption DEF ScriptLoads, Busy, TypeOK, places
  <1>20. ASSUME NEW t \in Tabs, ScriptFails(t) PROVE OneCallPerPage'
    BY <1>20, PagesStep, PayingAssumption DEF ScriptFails, Busy, TypeOK, places
  <1>21. ASSUME NEW t \in Tabs, ReadOrder(t) PROVE OneCallPerPage'
    BY <1>21, PagesStep, PayingAssumption DEF ReadOrder, Busy, TypeOK, places
  <1>22. ASSUME NEW t \in Tabs, ShowOrder(t) PROVE OneCallPerPage'
    BY <1>22, PagesStep, PayingAssumption DEF ShowOrder, Busy, TypeOK, places
  <1>23. ASSUME NEW t \in Tabs, PollFails(t) PROVE OneCallPerPage'
    BY <1>23, PagesStep, PayingAssumption DEF PollFails, Busy, TypeOK, places
  <1>24. ASSUME NEW t \in Tabs, PollRefused(t) PROVE OneCallPerPage'
    BY <1>24, PagesStep, PayingAssumption DEF PollRefused, Busy, TypeOK, places
  <1>25. ASSUME NEW t \in Tabs, NEW o \in Orders, OpenOrder(t, o) PROVE OneCallPerPage'
    BY <1>25, PagesStep, PayingAssumption DEF OpenOrder, Busy, TypeOK, GoTo
  <1>26. ASSUME NEW o \in Orders, Settle(o) PROVE OneCallPerPage'
    BY <1>26, PagesStep, PayingAssumption DEF Settle, Busy, TypeOK, places
  <1>27. ASSUME AddToCart PROVE OneCallPerPage'
    BY <1>27, PagesStep, PayingAssumption DEF AddToCart, Busy, TypeOK, places
  <1>28. CASE UNCHANGED vars
    BY <1>28, PagesStep DEF vars, places, Busy
  <1>29. QED
    BY <1>1, <1>2, <1>3, <1>4, <1>5, <1>6, <1>7, <1>8, <1>9, <1>10, <1>11, <1>12, <1>13, <1>14, <1>15, <1>16, <1>17, <1>18, <1>19, <1>20, <1>21, <1>22, <1>23, <1>24, <1>25, <1>26, <1>27, <1>28 DEF Next, Answering
-----------------------------------------------------------------------------
LEMMA PayingIsInvariant == Spec => []PayingInv
  <1>1. Init => PayingInv
    <2> SUFFICES ASSUME Init PROVE PayingInv
      OBVIOUS
    <2>1. Existing = {} /\ (\A c \in Calls : call[c] = NoCall) /\ added = 0
      BY DEF Init, Existing
    <2>2. RowsInv
      BY <2>1 DEF RowsInv, OrdersApart, ReadsApart, OrdersExist, UnitsAreAccountedFor, NoCall, HasOrder
    <2>3. OneCallPerPage
      BY <2>1, PayingAssumption DEF Init, OneCallPerPage, Busy, NoCall
    <2>4. QED
      BY <2>2, <2>3, TypeInit DEF PayingInv
  <1>2. PayingInv /\ [Next]_vars => PayingInv'
    BY TypeStep, RowsStep, OneCallPerPageStep DEF PayingInv
  <1>3. QED
    BY <1>1, <1>2, PTL DEF Spec

\* Every row, page, call and query is one of those it may be.
THEOREM TypeCorrect == Spec => []TypeOK
  BY PayingIsInvariant, PTL DEF PayingInv

\* Only checkouts that overlap order the same: what reads the cart after a commit buys
\* nothing that the commit bought.
THEOREM OnlyOverlapsBuyTwice == Spec => []OnlyOverlapsOrderTwice
  <1>1. PayingInv => OnlyOverlapsOrderTwice
    BY DEF PayingInv, RowsInv, OrdersApart, OnlyOverlapsOrderTwice, Share
  <1>2. QED
    BY <1>1, PayingIsInvariant, PTL

\* The checkouts that one visit to the page waits for order no unit twice.
THEOREM AwaitedOrdersApart == Spec => []OncePerPage
  <1>1. PayingInv => OncePerPage
    BY DEF PayingInv, RowsInv, OrdersApart, OncePerPage, Share
  <1>2. QED
    BY <1>1, PayingIsInvariant, PTL

\* Only what is added between a checkout's two looks at the cart can get lost.
THEOREM UnitsAreKept == Spec => []UnitsAreAccountedFor
  BY PayingIsInvariant, PTL DEF PayingInv, RowsInv
=============================================================================
