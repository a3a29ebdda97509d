--------------------------- MODULE AtomicCheckout ---------------------------
(***************************************************************************)
(* What checkout promises, without transactions, locks or carts: a stock   *)
(* and the purchases made from it.  A purchase takes everything it asks    *)
(* for in one step, or does not happen.  OrdersService.createOrderFromCart *)
(* (apps/api/src/orders/orders.service.ts) promises it in the comment      *)
(* above it: "Reserves inventory and creates the order in a single         *)
(* transaction ... two shoppers racing for the last unit can't both        *)
(* succeed".                                                               *)
(***************************************************************************)
EXTENDS Integers

CONSTANTS
    Variants,   \* product variants on sale
    Purchases,  \* names of the purchases that may be made
    Stock,      \* units of each variant when the shop opens, at least 0
    MaxBasket,  \* most units of one variant a basket can hold
    NoBasket    \* the basket of a purchase that has not been made

VARIABLES
    stock,      \* units left of each variant
    sales       \* the basket each purchase took, or NoBasket

vars == <<stock, sales>>

\* A basket names a quantity of every variant, and at least one unit in all.
Baskets == {b \in [Variants -> 0..MaxBasket] : \E v \in Variants : b[v] > 0}

Init ==
    /\ stock = Stock
    /\ sales = [p \in Purchases |-> NoBasket]

Buy(p, b) ==
    /\ sales[p] = NoBasket
    /\ \A v \in Variants : b[v] <= stock[v]
    /\ stock' = [v \in Variants |-> stock[v] - b[v]]
    /\ sales' = [sales EXCEPT ![p] = b]

Next == \E p \in Purchases, b \in Baskets : Buy(p, b)

Spec == Init /\ [][Next]_vars
=============================================================================
