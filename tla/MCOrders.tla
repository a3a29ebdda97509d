------------------------------ MODULE MCOrders ------------------------------
(* Small shops for TLC: who lives where, what is in stock, what it costs.  *)
EXTENDS Orders, TLC

CONSTANTS u1, u2, a1, a2, v1, v2, r1, r2, r3

MCAddressOwner == (a1 :> u1) @@ (a2 :> u2)

\* One unit to race for, and enough of the other variant for one large order
\* or two small ones.
MCStock == (v1 :> 1) @@ (v2 :> 2)
MCPrice == (v1 :> 3) @@ (v2 :> 2)

\* Every pair of concurrent checkouts fits.
MCStockTwo == (v1 :> 2) @@ (v2 :> 2)

RequestSymmetry == Permutations(Requests)
=============================================================================
