------------------------------- MODULE Orders -------------------------------
(***************************************************************************)
(* OrdersService.createOrderFromCart                                       *)
(* (apps/api/src/orders/orders.service.ts): the transaction that turns a   *)
(* shopper's cart into an order, run by any number of concurrent checkout  *)
(* requests against one PostgreSQL database, while the carts change under  *)
(* them.                                                                   *)
(*                                                                         *)
(* The database runs each transaction at READ COMMITTED, Prisma's default: *)
(* a statement sees what is committed, an UPDATE or DELETE takes the locks *)
(* of the rows it writes, waits for a row another transaction has locked,  *)
(* and evaluates its WHERE again on the row it finds then.  The rows a     *)
(* transaction has written but not committed are kept apart from the       *)
(* tables (reserved, version, deleted, draft) and installed by Commit.     *)
(*                                                                         *)
(* A cart is a quantity per variant, 0 for no row.                         *)
(***************************************************************************)
EXTENDS Integers, FiniteSetsExt

CONSTANTS
    Users,
    Addresses,
    Variants,
    Requests,      \* checkout requests; a request names the order it creates
    AddressOwner,  \* the user of each address
    Stock,         \* inventoryQty of each variant before the first checkout
    Price,         \* price of each variant
    MaxQuantity,   \* largest value of cart_items.quantity
    MaxTotal,      \* largest value of orders.total, a Decimal(10, 2)
    NoOrder,       \* "this order does not exist"
    NoVariant      \* "no UPDATE of a variant is in flight"

ASSUME OrdersAssumption ==
    /\ AddressOwner \in [Addresses -> Users]
    /\ Stock \in [Variants -> Nat]
    /\ Price \in [Variants -> Nat]
    /\ MaxQuantity \in Nat
    /\ MaxTotal \in Nat
    /\ NoVariant \notin Variants
    /\ IsFiniteSet(Variants)

Carts == [Variants -> 0..MaxQuantity]

\* A row of orders with its order_items.
OrderRows == [userId : Users, addressId : Addresses, items : Carts, total : Nat]

ASSUME NoOrderAssumption == NoOrder \notin OrderRows

VARIABLES
    inventoryQty,   \* product_variants.inventoryQty, as committed
    cartItems,      \* cart_items: the cart of each user, as committed
    orders,         \* orders and order_items: the order each request created
    inventoryLogs,  \* inventory_logs: a set of rows
    pc,             \* what each request is about to do, or how it ended
    userId,         \* the user each request is for
    addressId,      \* the address each request names
    cart,           \* the cart as the request read it before its transaction
    updating,       \* the variant whose guarded UPDATE is in flight
    reserved,       \* variants the transaction has updated, and so locked
    version,        \* the uncommitted inventoryQty of the variants in reserved
    subtotal,       \* the running total of the loop
    draft,          \* the order row written but not committed
    deleted         \* cart rows deleted, and so locked, but not committed

tables == <<inventoryQty, cartItems, orders, inventoryLogs>>
request == <<userId, addressId>>
transaction == <<cart, updating, reserved, version, subtotal, draft, deleted>>
vars == <<tables, pc, request, transaction>>

InTransaction == {"reserving", "clearing", "committing"}
Open == {"reading"} \cup InTransaction
Answered == {"created", "refused", "failed"}

EmptyCart == [v \in Variants |-> 0]

LogRows == [orderId : Requests, variantId : Variants, delta : Int]

TypeOK ==
    /\ inventoryQty \in [Variants -> Nat]
    /\ cartItems \in [Users -> Carts]
    /\ orders \in [Requests -> OrderRows \cup {NoOrder}]
    /\ inventoryLogs \in SUBSET LogRows
    /\ pc \in [Requests -> {"idle"} \cup Open \cup Answered]
    /\ userId \in [Requests -> Users]
    /\ addressId \in [Requests -> Addresses]
    /\ cart \in [Requests -> Carts]
    /\ updating \in [Requests -> Variants \cup {NoVariant}]
    /\ reserved \in [Requests -> SUBSET Variants]
    /\ version \in [Requests -> [Variants -> Nat]]
    /\ subtotal \in [Requests -> Nat]
    /\ draft \in [Requests -> OrderRows \cup {NoOrder}]
    /\ deleted \in [Requests -> SUBSET Variants]

Init ==
    /\ inventoryQty = Stock
    /\ cartItems = [u \in Users |-> EmptyCart]
    /\ orders = [r \in Requests |-> NoOrder]
    /\ inventoryLogs = {}
    /\ pc = [r \in Requests |-> "idle"]
    /\ userId \in [Requests -> Users]
    /\ addressId \in [Requests -> Addresses]
    /\ cart = [r \in Requests |-> EmptyCart]
    /\ updating = [r \in Requests |-> NoVariant]
    /\ reserved = [r \in Requests |-> {}]
    /\ version = [r \in Requests |-> EmptyCart]
    /\ subtotal = [r \in Requests |-> 0]
    /\ draft = [r \in Requests |-> NoOrder]
    /\ deleted = [r \in Requests |-> {}]
-----------------------------------------------------------------------------
(* Rows and locks *)

\* The variants a cart has a row for.
Lines(c) == {v \in Variants : c[v] > 0}

\* Another transaction has updated the variant's row and not ended.
LockedByOtherIgnored(r, v) == FALSE   \* mutant: the UPDATE takes no row lock
LockedByOther(r, v) == \E q \in Requests \ {r} : v \in reserved[q]

\* A transaction has deleted the user's cart row and not ended.
CartRowLocked(u, v) == \E q \in Requests : userId[q] = u /\ v \in deleted[q]

\* The inventory_logs rows written with an order.
LogsOfOneUnit(r) ==                   \* mutant: one unit logged per line
    {[orderId |-> r, variantId |-> v, delta |-> -1] : v \in Lines(cart[r])}
LogsOf(r) ==
    {[orderId |-> r, variantId |-> v, delta |-> -cart[r][v]] : v \in Lines(cart[r])}

\* The request leaves its transaction: the locks go, and what it wrote and did
\* not commit is gone.
EndTransaction(r, outcome) ==
    /\ pc' = [pc EXCEPT ![r] = outcome]
    /\ cart' = [cart EXCEPT ![r] = EmptyCart]
    /\ updating' = [updating EXCEPT ![r] = NoVariant]
    /\ reserved' = [reserved EXCEPT ![r] = {}]
    /\ version' = [version EXCEPT ![r] = EmptyCart]
    /\ subtotal' = [subtotal EXCEPT ![r] = 0]
    /\ draft' = [draft EXCEPT ![r] = NoOrder]
    /\ deleted' = [deleted EXCEPT ![r] = {}]
-----------------------------------------------------------------------------
(* The checkout request *)

\* The address is looked up among the user's own.
Submit(r) ==
    /\ pc[r] = "idle"
    /\ pc' = [pc EXCEPT ![r] = IF AddressOwner[addressId[r]] = userId[r]
                               THEN "reading" ELSE "refused"]
    /\ UNCHANGED <<tables, request, transaction>>

\* The cart is read before the transaction begins, and never again.
ReadCart(r) ==
    /\ pc[r] = "reading"
    /\ cart' = [cart EXCEPT ![r] = cartItems[userId[r]]]
    /\ pc' = [pc EXCEPT ![r] = IF Lines(cartItems[userId[r]]) = {}
                               THEN "refused" ELSE "reserving"]
    /\ UNCHANGED <<tables, request, updating, reserved, version, subtotal, draft, deleted>>

\* The loop reaches the item of variant v and sends its guarded UPDATE.  The
\* items come back in no particular order: the query has no orderBy.
SendUpdate(r, v) ==
    /\ pc[r] = "reserving"
    /\ updating[r] = NoVariant
    /\ v \in Lines(cart[r]) \ reserved[r]
    /\ updating' = [updating EXCEPT ![r] = v]
    /\ UNCHANGED <<tables, pc, request, cart, reserved, version, subtotal, draft, deleted>>

\* The WHERE of the guarded UPDATE, on the row as last committed.
EnoughStockUnchecked(r, v) == v \in Lines(cart[r])   \* mutant: no gte in the WHERE
EnoughStock(r, v) == inventoryQty[v] >= cart[r][v]

\* What the loop adds to the running total for a line.
LinePriceOnce(r, v) == Price[v]       \* mutant: not times the quantity
LinePrice(r, v) == Price[v] * cart[r][v]

\* Mutant: the UPDATE runs outside the transaction and is visible at once.
ReserveAtOnce(r) ==
    LET v == updating[r] IN
    /\ pc[r] = "reserving"
    /\ v # NoVariant
    /\ EnoughStock(r, v)
    /\ inventoryQty' = [inventoryQty EXCEPT ![v] = @ - cart[r][v]]
    /\ reserved' = [reserved EXCEPT ![r] = @ \cup {v}]
    /\ version' = [version EXCEPT ![r][v] = inventoryQty[v] - cart[r][v]]
    /\ subtotal' = [subtotal EXCEPT ![r] = @ + LinePrice(r, v)]
    /\ updating' = [updating EXCEPT ![r] = NoVariant]
    /\ UNCHANGED <<cartItems, orders, inventoryLogs, pc, request, cart, draft, deleted>>

\* The UPDATE finds the row free and the stock sufficient.
Reserve(r) ==
    LET v == updating[r] IN
    /\ pc[r] = "reserving"
    /\ v # NoVariant
    /\ ~LockedByOther(r, v)
    /\ EnoughStock(r, v)
    /\ reserved' = [reserved EXCEPT ![r] = @ \cup {v}]
    /\ version' = [version EXCEPT ![r][v] = inventoryQty[v] - cart[r][v]]
    /\ subtotal' = [subtotal EXCEPT ![r] = @ + LinePrice(r, v)]
    /\ updating' = [updating EXCEPT ![r] = NoVariant]
    /\ UNCHANGED <<tables, pc, request, cart, draft, deleted>>

\* The UPDATE matches no row: the callback throws and everything is rolled back.
OutOfStock(r) ==
    LET v == updating[r] IN
    /\ pc[r] = "reserving"
    /\ v # NoVariant
    /\ ~LockedByOther(r, v)
    /\ ~EnoughStock(r, v)
    /\ EndTransaction(r, "refused")
    /\ UNCHANGED <<tables, request>>

AllReservedButOne(r) == reserved[r] # {}   \* mutant: the loop ends too early
AllReserved(r) == Lines(cart[r]) \subseteq reserved[r]

\* The loop is done: the order, its items and its log rows are inserted.
CreateOrder(r) ==
    /\ pc[r] = "reserving"
    /\ updating[r] = NoVariant
    /\ AllReserved(r)
    /\ subtotal[r] <= MaxTotal
    /\ draft' = [draft EXCEPT ![r] = [userId |-> userId[r], addressId |-> addressId[r],
                                      items |-> cart[r], total |-> subtotal[r]]]
    /\ pc' = [pc EXCEPT ![r] = "clearing"]
    /\ UNCHANGED <<tables, request, cart, updating, reserved, version, subtotal, deleted>>

\* The total does not fit its column: the INSERT fails.
TotalTooLarge(r) ==
    /\ pc[r] = "reserving"
    /\ updating[r] = NoVariant
    /\ AllReserved(r)
    /\ subtotal[r] > MaxTotal
    /\ EndTransaction(r, "failed")
    /\ UNCHANGED <<tables, request>>

\* deleteMany: every row the cart has now, whatever the request read earlier.
\* The DELETE takes all its row locks in one step.
ClearCart(r) ==
    LET rows == Lines(cartItems[userId[r]]) IN
    /\ pc[r] = "clearing"
    /\ \A v \in rows : ~CartRowLocked(userId[r], v)
    /\ deleted' = [deleted EXCEPT ![r] = rows]
    /\ pc' = [pc EXCEPT ![r] = "committing"]
    /\ UNCHANGED <<tables, request, cart, updating, reserved, version, subtotal, draft>>

Commit(r) ==
    /\ pc[r] = "committing"
    /\ inventoryQty' = [v \in Variants |-> IF v \in reserved[r] THEN version[r][v]
                                                               ELSE inventoryQty[v]]
    /\ cartItems' = [cartItems EXCEPT ![userId[r]] =
                        [v \in Variants |-> IF v \in deleted[r] THEN 0 ELSE @[v]]]
    /\ orders' = [orders EXCEPT ![r] = draft[r]]
    /\ inventoryLogs' = inventoryLogs \cup LogsOf(r)
    /\ EndTransaction(r, "created")
    /\ UNCHANGED request

\* The transaction outlives Prisma's five-second limit, no connection is free,
\* or the API process dies: the database rolls back.
Abort(r) ==
    /\ pc[r] \in Open
    /\ EndTransaction(r, "failed")
    /\ UNCHANGED <<tables, request>>

WaitsFor(r, q) ==
    /\ q # r
    /\ pc[r] = "reserving"
    /\ updating[r] \in reserved[q]

DeadlockedUnseen(r) == FALSE          \* mutant: nobody looks for deadlocks

\* r is one of a set of transactions each of which waits for another of them.
Deadlocked(r) ==
    \E S \in SUBSET Requests : r \in S /\ \A s \in S : \E q \in S : WaitsFor(s, q)

\* PostgreSQL breaks a deadlock by failing a statement of one of its members;
\* nothing in the code retries it.
DeadlockVictim(r) ==
    /\ Deadlocked(r)
    /\ EndTransaction(r, "failed")
    /\ UNCHANGED <<tables, request>>
-----------------------------------------------------------------------------
(* The carts change meanwhile: the row writes of CartService *)

\* INSERT ... ON CONFLICT ... quantity + n; a sum too large for the column is
\* an error.
AddItem(u, v, n) ==
    /\ cartItems[u][v] + n <= MaxQuantity
    /\ ~CartRowLocked(u, v)
    /\ cartItems' = [cartItems EXCEPT ![u][v] = @ + n]
    /\ UNCHANGED <<inventoryQty, orders, inventoryLogs, pc, request, transaction>>

\* UPDATE or, for a quantity of 0, DELETE of a row that exists.
UpdateItemQuantity(u, v, n) ==
    /\ cartItems[u][v] > 0
    /\ ~CartRowLocked(u, v)
    /\ cartItems' = [cartItems EXCEPT ![u][v] = n]
    /\ UNCHANGED <<inventoryQty, orders, inventoryLogs, pc, request, transaction>>
-----------------------------------------------------------------------------
Progress(r) ==
    \/ ReadCart(r)
    \/ \E v \in Variants : SendUpdate(r, v)
    \/ Reserve(r)
    \/ OutOfStock(r)
    \/ CreateOrder(r)
    \/ TotalTooLarge(r)
    \/ ClearCart(r)
    \/ Commit(r)
    \/ DeadlockVictim(r)

CartEdit(u) ==
    \E v \in Variants :
        \/ \E n \in 1..MaxQuantity : AddItem(u, v, n)
        \/ \E n \in 0..MaxQuantity : UpdateItemQuantity(u, v, n)

Next ==
    \/ \E r \in Requests : Submit(r) \/ Progress(r) \/ Abort(r)
    \/ \E u \in Users : CartEdit(u)

Spec == Init /\ [][Next]_vars

\* A request that has been taken up keeps running, and the database ends its
\* waits; shoppers owe nobody anything.
FairSpec == Spec /\ \A r \in Requests : WF_vars(Progress(r))
-----------------------------------------------------------------------------
(* Properties *)

\* Two transactions never hold the row of one variant at once.
ReservationsExclusive ==
    \A r, q \in Requests : r # q => reserved[r] \cap reserved[q] = {}

\* While a transaction holds a variant, the quantity it will install is still
\* the committed one less what its cart asks for: no update is lost.
VersionsCurrent ==
    \A r \in Requests : \A v \in reserved[r] :
        /\ version[r][v] = inventoryQty[v] - cart[r][v]
        /\ version[r][v] >= 0

\* A transaction holds rows of variants its cart lists and no others, all of
\* them once it has written the order, which is for exactly that cart; outside a
\* transaction a request holds nothing; and a request that has not committed has
\* no order.
DraftMatchesReservation ==
    \A r \in Requests :
        /\ pc[r] # "created" => orders[r] = NoOrder
        /\ reserved[r] \subseteq Lines(cart[r])
        /\ updating[r] # NoVariant => updating[r] \in Lines(cart[r])
        /\ pc[r] \notin InTransaction => reserved[r] = {} /\ updating[r] = NoVariant
        /\ pc[r] \in InTransaction => Lines(cart[r]) # {}
        /\ pc[r] \in {"clearing", "committing"} =>
              /\ reserved[r] = Lines(cart[r])
              /\ draft[r] \in OrderRows
              /\ draft[r].items = cart[r]

\* The locking discipline the guarded updates give the transaction.
ReservationInv == ReservationsExclusive /\ VersionsCurrent /\ DraftMatchesReservation

Placed == {r \in Requests : orders[r] # NoOrder}

\* The units of a variant in committed orders, the changes of its stock that
\* inventory_logs lists, and what the items of a cart in S cost.
UnitsOrdered(v) == MapThenSumSet(LAMBDA r : orders[r].items[v], Placed)
LogsFor(v) == {l \in inventoryLogs : l.variantId = v}
DeltaLogged(v) == MapThenSumSet(LAMBDA l : l.delta, LogsFor(v))
PriceOf(c, S) == MapThenSumSet(LAMBDA v : Price[v] * c[v], S)

\* The units of a variant in committed orders are units that were in stock, and
\* what is left is the rest ("two shoppers racing for the last unit can't both
\* succeed", the comment on createOrderFromCart).
OrdersWithinStock ==
    \A v \in Variants : Stock[v] - inventoryQty[v] = UnitsOrdered(v)

\* inventory_logs accounts for every change of stock ("Audit trail for every
\* stock change", schema.prisma, model InventoryLog).
AuditTrailExplainsStock ==
    \A v \in Variants : inventoryQty[v] = Stock[v] + DeltaLogged(v)

\* The books of the shop: finitely many orders and log rows, every log row that
\* of a committed order, and the two balances.
LedgerInv ==
    /\ IsFiniteSet(Placed)
    /\ IsFiniteSet(inventoryLogs)
    /\ \A l \in inventoryLogs : l.orderId \in Placed
    /\ OrdersWithinStock
    /\ AuditTrailExplainsStock

\* The total the loop ran up is the price of the items the order lists.
TotalIsSumOfItems ==
    \A r \in Placed : orders[r].total = PriceOf(orders[r].items, Variants)

\* The running total is the price of the lines reserved so far, each reserved
\* once; the order is written with it.
RunningTotalInv ==
    /\ \A r \in Requests :
        /\ subtotal[r] = PriceOf(cart[r], reserved[r])
        /\ updating[r] \notin reserved[r]
        /\ pc[r] \in {"clearing", "committing"} => draft[r].total = subtotal[r]
    /\ TotalIsSumOfItems

\* Stock moves only in the step that makes an order visible, by exactly what the
\* order lists, all variants at once; and no order appears without its stock.
StockMovesOnlyWithOrder ==
    [][<<inventoryQty, orders>>' # <<inventoryQty, orders>> =>
          \E r \in Requests :
              /\ orders[r] = NoOrder
              /\ orders' = [orders EXCEPT ![r] = orders'[r]]
              /\ orders'[r] \in OrderRows
              /\ \A v \in Variants :
                    inventoryQty'[v] = inventoryQty[v] - orders'[r].items[v]]_vars

\* The checkout transaction implements an atomic purchase.
Checkout == INSTANCE AtomicCheckout WITH
    Purchases <- Requests,
    MaxBasket <- MaxQuantity,
    NoBasket <- NoOrder,
    stock <- inventoryQty,
    sales <- [r \in Requests |-> IF orders[r] = NoOrder THEN NoOrder ELSE orders[r].items]

ImplementsAtomicCheckout == Checkout!Spec

\* A request whose address was accepted is answered, even when transactions
\* wait for each other's rows in a circle.
CheckoutAnswered ==
    \A r \in Requests : pc[r] \in Open ~> pc[r] \in Answered
=============================================================================
