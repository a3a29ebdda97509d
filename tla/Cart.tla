-------------------------------- MODULE Cart --------------------------------
(***************************************************************************)
(* CartService (apps/api/src/cart/cart.service.ts) for one browser: its    *)
(* guest cart, a JSON map in one Redis key, and the account it signs in    *)
(* to, whose cart is rows in PostgreSQL.  Requests overlap: two tabs, a    *)
(* double click, a retry after a failure.                                  *)
(*                                                                         *)
(* Each action is one statement sent to PostgreSQL or Redis, with the code *)
(* that leads to it.  An upsert with an empty update, as the cart's, is a  *)
(* SELECT followed by an INSERT; the item's upsert is one INSERT ... ON    *)
(* CONFLICT.  What a handler reads back for its response is left out.      *)
(*                                                                         *)
(* A guest cart is a quantity per key, 0 for no entry; an absent Redis key *)
(* is the guest cart with no entry.                                        *)
(***************************************************************************)
EXTENDS Integers, FiniteSets

CONSTANTS
    Variants,
    UnknownKeys,  \* strings a guest may send in place of a variant's id
    Requests,     \* requests the API can be working on at once
    RowIds,       \* ids of cart_items rows; one that nothing refers to is new
    MaxQuantity,  \* largest value of cart_items.quantity
    MaxGuest,     \* bound: units of one key a guest asks for
    Quiet,        \* TRUE: requests do not overlap and nothing fails
    NoRow

ASSUME CartAssumption ==
    /\ Variants \cap UnknownKeys = {}
    /\ MaxQuantity \in Nat /\ MaxGuest \in Nat
    /\ Quiet \in BOOLEAN
    /\ Variants \cup UnknownKeys # {}
    /\ IsFiniteSet(Variants) /\ IsFiniteSet(Requests)
    /\ IsFiniteSet(RowIds) =>
          Cardinality(RowIds) > Cardinality(Variants) + Cardinality(Requests)

Keys == Variants \cup UnknownKeys

VARIABLES
    cartExists,   \* the account has a row in carts
    rows,         \* cart_items of the account
    guestCart,    \* the Redis key
    req,          \* the requests in the API
    acked,        \* history: units added to a row since it was last set
    moved,        \* history: lines that a merge has added, and no guest has put since
    again         \* history: those of them that are left, or put back, to be merged again

history == <<moved, again>>
vars == <<cartExists, rows, guestCart, req, acked, history>>

Quantities == [Keys -> 0..MaxGuest]
NoQuantities == [k \in Keys |-> 0]
Entries(q) == {k \in Keys : q[k] > 0}

Rows == [id : RowIds, quantity : 1..MaxQuantity]

ASSUME NoRowAssumption == NoRow \notin Rows

Idle == [pc |-> "idle"]

AddItems == [op : {"addItem"}, pc : {"cart", "insertCart", "item"}, item : Variants,
             n : 1..MaxGuest]
UpdateItems == [op : {"updateItem"}, pc : {"cart", "insertCart", "write"}, item : RowIds,
                n : 0..MaxQuantity]
GuestAdds == [op : {"addGuest"}, pc : {"read", "writeGuest"}, item : Variants,
              n : 1..MaxGuest, seen : Quantities]
GuestUpdates == [op : {"updateGuest"}, pc : {"read", "writeGuest"}, item : Keys,
                 n : 0..MaxGuest, seen : Quantities]
Merges == [op : {"merge"}, pc : {"read", "line", "cart", "insertCart", "item"}, item : Keys,
           n : 0..MaxGuest, seen : Quantities, todo : SUBSET Keys]

TypeOK ==
    /\ cartExists \in BOOLEAN
    /\ rows \in [Variants -> Rows \cup {NoRow}]
    /\ guestCart \in Quantities
    /\ req \in [Requests -> {Idle} \cup AddItems \cup UpdateItems \cup GuestAdds
                                   \cup GuestUpdates \cup Merges]
    /\ acked \in [Variants -> 0..MaxQuantity]
    /\ moved \in SUBSET Keys
    /\ again \in SUBSET moved

Init ==
    /\ cartExists = FALSE
    /\ rows = [v \in Variants |-> NoRow]
    /\ guestCart = NoQuantities
    /\ req = [r \in Requests |-> Idle]
    /\ acked = [v \in Variants |-> 0]
    /\ moved = {}
    /\ again = {}

AllIdle == \A r \in Requests : req[r] = Idle
-----------------------------------------------------------------------------
(* A request arrives *)

Start(r, request) ==
    /\ req[r] = Idle
    /\ Quiet => AllIdle
    /\ req' = [req EXCEPT ![r] = request]
    /\ UNCHANGED <<cartExists, rows, guestCart, acked, history>>

\* The quantity is at least 1 and the variant exists or not.
AddItem(r) ==
    \E v \in Variants, n \in 1..MaxGuest :
        Start(r, [op |-> "addItem", pc |-> "cart", item |-> v, n |-> n])

\* The row is one the shopper's page has shown, perhaps a while ago; removeItem
\* is the quantity 0.
UpdateItemQuantity(r) ==
    \E i \in RowIds, n \in 0..MaxQuantity :
        Start(r, [op |-> "updateItem", pc |-> "cart", item |-> i, n |-> n])

\* MaxGuest bounds what a guest's adds come to, here and in ReadGuest.
AddGuestItem(r) ==
    \E v \in Variants, n \in 1..MaxGuest :
        /\ guestCart[v] + n <= MaxGuest
        /\ Start(r, [op |-> "addGuest", pc |-> "read", item |-> v, n |-> n,
                     seen |-> NoQuantities])

\* Any string passes for a variant here; removeGuestItem is the quantity 0.
UpdateGuestItemQuantity(r) ==
    \E k \in Keys, n \in 0..MaxGuest :
        Start(r, [op |-> "updateGuest", pc |-> "read", item |-> k, n |-> n,
                  seen |-> NoQuantities])

\* Login or register, credentials accepted.
MergeGuestCart(r) ==
    Start(r, [op |-> "merge", pc |-> "read", item |-> CHOOSE k \in Keys : TRUE, n |-> 0,
              seen |-> NoQuantities, todo |-> {}])
-----------------------------------------------------------------------------
(* The account's cart *)

\* addItem or updateItemQuantity is over: the handler answers, or the merge that
\* called addItem, which swallows its errors, goes on to the next line.
Finished(r) ==
    IF req[r].op = "merge" THEN [req[r] EXCEPT !.pc = "line"] ELSE Idle

Finish(r) == req' = [req EXCEPT ![r] = Finished(r)]

Goto(r, pc) == req' = [req EXCEPT ![r].pc = pc]

RowOf(i) == {v \in Variants : rows[v] # NoRow /\ rows[v].id = i}

\* The SELECT of the cart's upsert, which for an update also reads the items: an
\* item that is not among them is 404.
SelectCart(r) ==
    /\ req[r].pc = "cart"
    /\ IF ~cartExists THEN Goto(r, "insertCart")
       ELSE IF req[r].op # "updateItem" THEN Goto(r, "item")
       ELSE IF RowOf(req[r].item) # {} THEN Goto(r, "write")
       ELSE Finish(r)
    /\ UNCHANGED <<cartExists, rows, guestCart, acked, history>>

\* Its INSERT, which breaks the unique index on userId when another request has
\* inserted the cart since the SELECT.
InsertCart(r) ==
    /\ req[r].pc = "insertCart"
    /\ cartExists' = TRUE
    /\ IF cartExists \/ req[r].op = "updateItem" THEN Finish(r) ELSE Goto(r, "item")
    /\ UNCHANGED <<rows, guestCart, acked, history>>

Quantity(v) == IF rows[v] = NoRow THEN 0 ELSE rows[v].quantity

\* An id no row has and no request remembers.
IsNewId(i) ==
    /\ RowOf(i) = {}
    /\ \A r \in Requests : req[r] # Idle => req[r].item # i

\* The quantity the item's upsert leaves: the row's own plus what is added.
Overwrite(r) == req[r].n              \* mutant: the update sets instead of adding
Increment(r) == Quantity(req[r].item) + req[r].n

UpsertItem(r) ==
    LET v == req[r].item
        id == IF rows[v] = NoRow THEN CHOOSE i \in RowIds : IsNewId(i) ELSE rows[v].id
    IN
    /\ req[r].pc = "item"
    /\ Quantity(v) + req[r].n <= MaxQuantity
    /\ rows' = [rows EXCEPT ![v] = [id |-> id, quantity |-> Increment(r)]]
    /\ acked' = [acked EXCEPT ![v] = @ + req[r].n]
    /\ moved' = IF req[r].op = "merge" THEN moved \cup {v} ELSE moved
    /\ Finish(r)
    /\ UNCHANGED <<cartExists, guestCart, again>>

\* The sum does not fit the column: the statement fails.
QuantityTooLarge(r) ==
    /\ req[r].pc = "item"
    /\ Quantity(req[r].item) + req[r].n > MaxQuantity
    /\ Finish(r)
    /\ UNCHANGED <<cartExists, rows, guestCart, acked, history>>

\* The rows an UPDATE or DELETE by the request's item id reaches: none when the
\* row is gone since the SELECT, which is an error.
Target(r) == RowOf(req[r].item)

\* Mutant: the quantity 0 is written, not deleted.
WriteRowKeepsZero(r) ==
    /\ req[r].pc = "write"
    /\ rows' = [v \in Variants |->
                  IF v \notin Target(r) THEN rows[v]
                  ELSE [rows[v] EXCEPT !.quantity = req[r].n]]
    /\ acked' = [v \in Variants |-> IF v \in Target(r) THEN 0 ELSE acked[v]]
    /\ Finish(r)
    /\ UNCHANGED <<cartExists, guestCart, history>>

WriteRow(r) ==
    /\ req[r].pc = "write"
    /\ rows' = [v \in Variants |->
                  IF v \notin Target(r) THEN rows[v]
                  ELSE IF req[r].n = 0 THEN NoRow
                  ELSE [rows[v] EXCEPT !.quantity = req[r].n]]
    /\ acked' = [v \in Variants |-> IF v \in Target(r) THEN 0 ELSE acked[v]]
    /\ Finish(r)
    /\ UNCHANGED <<cartExists, guestCart, history>>
-----------------------------------------------------------------------------
(* The guest cart *)

\* GET of the whole map.
ReadGuest(r) ==
    /\ req[r].pc = "read"
    /\ req[r].op = "addGuest" => guestCart[req[r].item] + req[r].n <= MaxGuest
    /\ req' = [req EXCEPT ![r] =
                 IF @.op = "merge"
                 THEN [@ EXCEPT !.pc = "line", !.seen = guestCart, !.todo = Entries(guestCart)]
                 ELSE [@ EXCEPT !.pc = "writeGuest", !.seen = guestCart]]
    /\ UNCHANGED <<cartExists, rows, guestCart, acked, history>>

\* The line the shopper puts into the guest cart, unless it adds to one that was there.
NewLine(r) ==
    {k \in {req[r].item} : req[r].op = "updateGuest" \/ req[r].seen[k] = 0}

\* The lines that were there when the map was read and have changed, or gone, since.
BroughtBack(r) ==
    {k \in Entries(req[r].seen) \ NewLine(r) : req[r].seen[k] # guestCart[k]}

\* SET of the whole map, as read and changed in memory.
WriteGuest(r) ==
    LET k == req[r].item
        n == IF req[r].op = "addGuest" THEN req[r].seen[k] + req[r].n ELSE req[r].n
    IN
    /\ req[r].pc = "writeGuest"
    /\ guestCart' = [req[r].seen EXCEPT ![k] = n]
    /\ moved' = moved \ NewLine(r)
    /\ again' = (again \ NewLine(r)) \cup (moved \cap BroughtBack(r))
    /\ req' = [req EXCEPT ![r] = Idle]
    /\ UNCHANGED <<cartExists, rows, acked>>
-----------------------------------------------------------------------------
(* mergeGuestCartIntoUserCart *)

\* The merges at work on the guest cart they have read.
Merging == {r \in Requests : req[r] # Idle /\ req[r].op = "merge" /\ req[r].pc # "read"}

\* The lines a merge has yet to add.
LinesLeft(r) ==
    req[r].todo \cup (IF req[r].pc = "line" THEN {} ELSE {req[r].item})

LeftToOthers(r) == UNION {LinesLeft(q) : q \in Merging \ {r}}

\* Mutant: the loop ends at a key that is no variant, and the rest is lost.
NextLineStops(r, k) ==
    /\ req[r].pc = "line"
    /\ k \in req[r].todo
    /\ req' = [req EXCEPT ![r] =
                 [@ EXCEPT !.todo = IF k \in Variants THEN req[r].todo \ {k} ELSE {},
                           !.item = k, !.n = req[r].seen[k],
                           !.pc = IF k \in Variants THEN "cart" ELSE "line"]]
    /\ UNCHANGED <<cartExists, rows, guestCart, acked, history>>

\* The loop reaches a line: addItem is called for it, which throws at once for a
\* key that is no variant.
NextLine(r, k) ==
    /\ req[r].pc = "line"
    /\ k \in req[r].todo
    /\ req' = [req EXCEPT ![r] =
                 [@ EXCEPT !.todo = req[r].todo \ {k}, !.item = k, !.n = req[r].seen[k],
                           !.pc = IF k \in Variants THEN "cart" ELSE "line"]]
    /\ UNCHANGED <<cartExists, rows, guestCart, acked, history>>

\* Mutant: nothing is deleted, and the key is left to expire.
ClearGuestKeeps(r) ==
    /\ req[r].pc = "line"
    /\ req[r].todo = {}
    /\ req' = [req EXCEPT ![r] = Idle]
    /\ UNCHANGED <<cartExists, rows, guestCart, acked, history>>

\* The loop is done: DEL.
ClearGuest(r) ==
    /\ req[r].pc = "line"
    /\ req[r].todo = {}
    /\ guestCart' = NoQuantities
    /\ again' = again \cup (moved \cap LeftToOthers(r))
    /\ req' = [req EXCEPT ![r] = Idle]
    /\ UNCHANGED <<cartExists, rows, acked, moved>>
-----------------------------------------------------------------------------
(* Failures and the rest of the system *)

\* A statement fails inside addItem: the request is over, or the merge skips the
\* line.
StatementFails(r) ==
    /\ ~Quiet
    /\ req[r].pc \in {"cart", "insertCart", "item", "write"}
    /\ Finish(r)
    /\ UNCHANGED <<cartExists, rows, guestCart, acked, history>>

\* Redis fails or the API dies: the request ends where it is.
RequestFails(r) ==
    /\ ~Quiet
    /\ req[r] # Idle
    /\ req' = [req EXCEPT ![r] = Idle]
    /\ again' = IF r \in Merging
                THEN again \cup (moved \cap (Entries(guestCart) \cup LeftToOthers(r)))
                ELSE again
    /\ UNCHANGED <<cartExists, rows, guestCart, acked, moved>>

\* A checkout commits and deletes the cart's rows.
CheckOut ==
    /\ Quiet => AllIdle
    /\ rows' = [v \in Variants |-> NoRow]
    /\ acked' = [v \in Variants |-> 0]
    /\ UNCHANGED <<cartExists, guestCart, req, history>>

\* Seven days without a write.
Expire ==
    /\ Quiet => AllIdle
    /\ guestCart' = NoQuantities
    /\ UNCHANGED <<cartExists, rows, req, acked, history>>
-----------------------------------------------------------------------------
Arrive(r) ==
    \/ AddItem(r)
    \/ UpdateItemQuantity(r)
    \/ AddGuestItem(r)
    \/ UpdateGuestItemQuantity(r)
    \/ MergeGuestCart(r)

Work(r) ==
    \/ SelectCart(r)
    \/ InsertCart(r)
    \/ UpsertItem(r)
    \/ QuantityTooLarge(r)
    \/ WriteRow(r)
    \/ ReadGuest(r)
    \/ WriteGuest(r)
    \/ \E k \in Keys : NextLine(r, k)
    \/ ClearGuest(r)

Next ==
    \/ \E r \in Requests : Arrive(r) \/ Work(r) \/ StatementFails(r) \/ RequestFails(r)
    \/ CheckOut
    \/ Expire

Spec == Init /\ [][Next]_vars
-----------------------------------------------------------------------------
(* Properties *)

\* A row holds at least what has been added to it since it was last set: of two
\* requests that add to one row at once, neither's units are lost.  The item's
\* upsert increments the row in the database; the guest cart, read and written
\* back, gives no such promise.
AcknowledgedAddsKept == \A v \in Variants : Quantity(v) >= acked[v]

\* A line of a guest cart goes into the account's cart once ("Folds a guest cart into
\* the user's DB cart once, then clears it", cart.service.ts 112), whatever statement
\* of the merge fails and whoever logs in later, but in three cases: logins merge it
\* together, a merge was cut off before its DEL, or a guest's request that had read the
\* line has put it back since.
MergedOnce ==
    [][\A r \in Merging :
          UpsertItem(r) => \/ req[r].item \notin moved
                           \/ req[r].item \in again
                           \/ Merging # {r}]_vars

\* The guest cart as the shopper sees it: during a merge, the lines left.
GuestView ==
    IF Merging = {} THEN guestCart
    ELSE LET r == CHOOSE r \in Merging : TRUE
         IN  [k \in Keys |-> IF k \in LinesLeft(r) THEN req[r].seen[k] ELSE 0]

\* With requests that do not overlap, the service is the shopping cart: every
\* operation takes effect as a whole, and signing in neither loses a line that
\* could be added nor adds one twice.
Shopping == INSTANCE ShoppingCart WITH
    guest <- GuestView,
    account <- [v \in Variants |-> Quantity(v)],
    signingIn <- Merging # {}

ImplementsShoppingCart == Shopping!Spec
=============================================================================
