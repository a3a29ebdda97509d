---------------------------- MODULE ShoppingCart ----------------------------
(***************************************************************************)
(* What the cart service means to a shopper: a cart kept before signing in *)
(* and one kept with the account, every operation taking effect at once,   *)
(* and signing in moving the first into the second line by line (README,   *)
(* "Guest carts": "whatever was in it merges into the account's real       *)
(* (Postgres) cart and the Redis key is deleted").                         *)
(***************************************************************************)
EXTENDS Integers

CONSTANTS
    Keys,         \* what a guest cart may hold: the variants, and other strings
    Variants,
    MaxQuantity,  \* most units of a variant an account's cart can hold
    MaxGuest      \* most units of a key a guest cart is taken to

VARIABLES
    guest,        \* units of each key in the guest cart
    account,      \* units of each variant in the account's cart
    signingIn     \* the guest cart is moving into the account's

vars == <<guest, account, signingIn>>

Init ==
    /\ guest = [k \in Keys |-> 0]
    /\ account = [v \in Variants |-> 0]
    /\ signingIn = FALSE
-----------------------------------------------------------------------------
(* Shopping: while nobody is signing in *)

AddGuest(v, n) ==
    /\ guest' = [guest EXCEPT ![v] = @ + n]
    /\ UNCHANGED account

SetGuest(k, n) ==
    /\ guest' = [guest EXCEPT ![k] = n]
    /\ UNCHANGED account

AddAccount(v, n) ==
    /\ account[v] + n <= MaxQuantity
    /\ account' = [account EXCEPT ![v] = @ + n]
    /\ UNCHANGED guest

SetAccount(v, n) ==
    /\ account[v] > 0
    /\ account' = [account EXCEPT ![v] = n]
    /\ UNCHANGED guest

Expire ==
    /\ guest' = [k \in Keys |-> 0]
    /\ UNCHANGED account

CheckOut ==
    /\ account' = [v \in Variants |-> 0]
    /\ UNCHANGED guest

Shop ==
    \/ \E v \in Variants :
          \/ \E n \in 1..MaxGuest : AddGuest(v, n) \/ AddAccount(v, n)
          \/ \E n \in 0..MaxQuantity : SetAccount(v, n)
    \/ \E k \in Keys, n \in 0..MaxGuest : SetGuest(k, n)
    \/ Expire
    \/ CheckOut
-----------------------------------------------------------------------------
(* Signing in: every line of the guest cart is accounted for *)

SignIn == signingIn' = TRUE /\ UNCHANGED <<guest, account>>

\* A line moves as a whole ...
MoveLine(v) ==
    /\ guest[v] > 0
    /\ account[v] + guest[v] <= MaxQuantity
    /\ account' = [account EXCEPT ![v] = @ + guest[v]]
    /\ guest' = [guest EXCEPT ![v] = 0]

\* ... or is dropped, when it names no variant or does not fit ...
DropLine(k) ==
    /\ k \in Variants => account[k] + guest[k] > MaxQuantity
    /\ guest' = [guest EXCEPT ![k] = 0]
    /\ UNCHANGED account

\* ... and it is over when there is no line left.
SignedIn ==
    /\ guest = [k \in Keys |-> 0]
    /\ signingIn' = FALSE
    /\ UNCHANGED <<guest, account>>

Next ==
    \/ ~signingIn /\ Shop /\ UNCHANGED signingIn
    \/ ~signingIn /\ SignIn
    \/ /\ signingIn
       /\ (\E v \in Variants : MoveLine(v)) \/ (\E k \in Keys : DropLine(k))
       /\ UNCHANGED signingIn
    \/ signingIn /\ SignedIn

Spec == Init /\ [][Next]_vars
=============================================================================
