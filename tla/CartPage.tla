------------------------------- MODULE CartPage -------------------------------
(***************************************************************************)
(* The cart page (apps/web/src/app/cart/page.tsx): one line of one cart,   *)
(* the query that shows it, and the fields that change it with a PATCH for *)
(* every change of their text, in any number at once.                      *)
(*                                                                         *)
(* Of the API there is what Cart shows of it.  A guest's PATCH reads the   *)
(* map of all the lines and writes it back, so that one for another line   *)
(* of the page puts this line back as it was read.  An account's changes   *)
(* one row by its id, in one step, and does not find a line that is gone.  *)
(* Of react-query there is what the page gets from it: the answer that is  *)
(* kept when the page is left, one fetch at a time, and invalidation.      *)
(***************************************************************************)
EXTENDS Naturals

CONSTANTS
    Edits,
    MaxTyped,     \* bound: quantities typed
    MaxRows,      \* bound: rows the line ever has
    NoLine, Nothing

LineRows == 1..MaxRows
Lines == [row : LineRows, quantity : 1..MaxTyped]

ASSUME CartPageAssumption ==
    /\ MaxTyped \in Nat /\ MaxRows \in Nat
    /\ NoLine \notin Lines /\ Nothing \notin Lines /\ NoLine # Nothing

VARIABLES
    guest, line, made,        \* the cart: whose it is, its line, and the rows made so far
    open, shown, fetch,       \* the page, the data of its query, and the fetch under way
    edit,                     \* the runs of updateQuantity
    untold                    \* history: something changed that the query is not told of

cart == <<guest, line, made>>
query == <<open, shown, fetch>>
pageVars == <<cart, query, edit, untold>>

NoFetch == [pc |-> "idle", line |-> Nothing]
Started == [pc |-> "sent", line |-> Nothing]
FetchStates == {NoFetch, Started} \cup [pc : {"read"}, line : Lines \cup {NoLine}]

NoEdit == [pc |-> "idle"]
EditStates == [pc : {"sent", "read", "answered"}, row : LineRows \cup {Nothing},
               leaves : Lines \cup {NoLine, Nothing}]

PageTypeOK ==
    /\ guest \in BOOLEAN
    /\ line \in Lines \cup {NoLine}
    /\ made \in 0..MaxRows
    /\ open \in BOOLEAN
    /\ shown \in Lines \cup {NoLine, Nothing}
    /\ fetch \in FetchStates
    /\ edit \in [Edits -> {NoEdit} \cup EditStates]
    /\ untold \in BOOLEAN

PageInit ==
    /\ guest \in BOOLEAN
    /\ line = NoLine /\ made = 0
    /\ open = FALSE /\ shown = Nothing /\ fetch = NoFetch
    /\ edit = [e \in Edits |-> NoEdit]
    /\ untold = FALSE

NoPatch == \A e \in Edits : edit[e] = NoEdit
-----------------------------------------------------------------------------
(* The query *)

\* A fetch that starts now reads whatever has been changed by now.
StartFetch == fetch' = Started /\ untold' = FALSE

\* staleTime is 0: asked for on every mount, unless a fetch of an earlier visit is
\* still under way, which it then waits for.
Mount ==
    /\ ~open
    /\ open' = TRUE
    /\ IF fetch = NoFetch THEN StartFetch ELSE UNCHANGED <<fetch, untold>>
    /\ UNCHANGED <<cart, shown, edit>>

\* The fetch goes on.
Unmount ==
    /\ open
    /\ open' = FALSE
    /\ UNCHANGED <<cart, shown, fetch, edit, untold>>

\* The window gets the focus back.
Focus ==
    /\ open
    /\ fetch = NoFetch
    /\ StartFetch
    /\ UNCHANGED <<cart, open, shown, edit>>

FetchRead ==
    /\ fetch = Started
    /\ fetch' = [pc |-> "read", line |-> line]
    /\ UNCHANGED <<cart, open, shown, edit, untold>>

FetchShown ==
    /\ fetch.pc = "read"
    /\ shown' = fetch.line
    /\ fetch' = NoFetch
    /\ UNCHANGED <<cart, open, edit, untold>>

\* So have its retries: what was shown stays, or the cart is said to be empty.
FetchFails ==
    /\ fetch # NoFetch
    /\ fetch' = NoFetch
    /\ untold' = TRUE
    /\ UNCHANGED <<cart, open, shown, edit>>

\* Five minutes after the page was left.
Forget ==
    /\ ~open /\ fetch = NoFetch
    /\ shown' = Nothing
    /\ UNCHANGED <<cart, open, fetch, edit, untold>>
-----------------------------------------------------------------------------
(* updateQuantity *)

AsLine(row, quantity) ==
    IF quantity = 0 THEN NoLine ELSE [row |-> row, quantity |-> quantity]

\* What the PATCH leaves of the line is known, unless it is of another line.
Send(e, row, leaves) ==
    /\ edit[e] = NoEdit
    /\ e = CHOOSE d \in Edits : edit[d] = NoEdit    \* any will do
    /\ edit' = [edit EXCEPT ![e] = [pc |-> "sent", row |-> row, leaves |-> leaves]]
    /\ UNCHANGED <<cart, query, untold>>

\* The field, which is 0 when it is emptied, or Remove.
Change(e, quantity) ==
    /\ open /\ shown \in Lines
    /\ Send(e, shown.row, AsLine(shown.row, quantity))

\* The same in another line of the page.
ChangeAnother(e) ==
    /\ open /\ shown # Nothing
    /\ Send(e, Nothing, Nothing)

\* updateGuestItemQuantity: GET.
ReadMap(e) ==
    /\ guest
    /\ edit[e].pc = "sent"
    /\ edit' = [edit EXCEPT ![e].pc = "read",
                           ![e].leaves = IF @ = Nothing THEN line ELSE @]
    /\ UNCHANGED <<cart, query, untold>>

\* SET: the line is made again if it is gone, and goes if it was not there.
WriteMap(e) ==
    /\ edit[e].pc = "read"
    /\ line' = edit[e].leaves
    /\ edit' = [edit EXCEPT ![e].pc = "answered"]
    /\ UNCHANGED <<guest, made, query, untold>>

\* updateItemQuantity
UpdateRow(e) ==
    /\ ~guest
    /\ edit[e].pc = "sent"
    /\ \/ edit[e].leaves = Nothing /\ line' = line
       \/ /\ edit[e].leaves # Nothing
          /\ line # NoLine /\ line.row = edit[e].row
          /\ line' = edit[e].leaves
    /\ edit' = [edit EXCEPT ![e].pc = "answered"]
    /\ UNCHANGED <<guest, made, query, untold>>

\* Any answer is taken for a good one: not found, 401, ...
Refuse(e) ==
    /\ edit[e].pc \in {"sent", "read"}
    /\ edit' = [edit EXCEPT ![e].pc = "answered"]
    /\ UNCHANGED <<cart, query, untold>>

\* Mutant: a fetch that is under way is left to end.
InvalidateJoins ==
    IF open /\ fetch = NoFetch THEN StartFetch ELSE UNCHANGED <<fetch, untold>>

\* Of an open page, whose fetch is cancelled for a new one when there is data to keep;
\* when the page is not open the next visit asks, but for a fetch under way.
Invalidate ==
    IF open /\ (fetch = NoFetch \/ shown # Nothing)
    THEN StartFetch
    ELSE fetch' = fetch /\ untold' = (untold \/ fetch.pc = "read")

Answered(e) ==
    /\ edit[e].pc = "answered"
    /\ edit' = [edit EXCEPT ![e] = NoEdit]
    /\ Invalidate
    /\ UNCHANGED <<cart, open, shown>>

\* authFetch rejects, whatever the API has done: nothing is invalidated.  What it goes
\* on to do is an Elsewhere to the page.
Lost(e) ==
    /\ edit[e] # NoEdit
    /\ edit' = [edit EXCEPT ![e] = NoEdit]
    /\ untold' = (untold \/ fetch # Started)
    /\ UNCHANGED <<cart, query>>
-----------------------------------------------------------------------------
(* The rest of the shop *)

\* Another tab, the product page, a login or a checkout: of it the query is not told.
Elsewhere(new) ==
    /\ new # line
    /\ \/ new = NoLine /\ made' = made
       \/ new # NoLine /\ line # NoLine /\ new.row = line.row /\ made' = made
       \/ new # NoLine /\ line = NoLine /\ guest /\ new.row = 1 /\ made' = 1
       \/ /\ new # NoLine /\ line = NoLine /\ ~guest
          /\ new.row = made + 1 /\ made' = made + 1
    /\ line' = new
    /\ untold' = (untold \/ fetch # Started)
    /\ UNCHANGED <<guest, query, edit>>

PageNext ==
    \/ Mount \/ Unmount \/ Focus
    \/ FetchRead \/ FetchShown \/ FetchFails \/ Forget
    \/ \E e \in Edits :
          \/ ReadMap(e) \/ WriteMap(e) \/ UpdateRow(e)
          \/ Refuse(e) \/ Answered(e) \/ Lost(e)
          \/ ChangeAnother(e)
          \/ \E quantity \in 0..MaxTyped : Change(e, quantity)
    \/ \E new \in Lines \cup {NoLine} : Elsewhere(new)

PageSpec == PageInit /\ [][PageNext]_pageVars
-----------------------------------------------------------------------------
(* Properties *)

\* Once everything is answered an open page shows what is stored, in whatever order
\* the PATCHes and the fetches came, unless there was a change that it was not told
\* of: made elsewhere, answered to nobody, or while a fetch of an earlier visit ran.
SettledPageIsCurrent ==
    open /\ NoPatch /\ fetch = NoFetch /\ ~untold => shown = line
=============================================================================
