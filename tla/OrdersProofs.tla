---------------------------- MODULE OrdersProofs ----------------------------
(***************************************************************************)
(* For any number of users, variants and concurrent checkouts: the types,  *)
(* the locking discipline of the transactions, that checkout implements    *)
(* AtomicCheckout, that the books balance (stock, orders and inventory_    *)
(* logs), and that an order's totals are the sums of its lines.            *)
(***************************************************************************)
EXTENDS Orders, FiniteSetTheorems, WellFoundedInduction, TLAPS

\* What EndTransaction leaves is well typed, however the request ended.
LEMMA EndTransactionType ==
    ASSUME TypeOK, NEW r \in Requests, NEW outcome \in Answered,
           EndTransaction(r, outcome)
    PROVE  /\ pc' \in [Requests -> {"idle"} \cup Open \cup Answered]
           /\ cart' \in [Requests -> Carts]
           /\ updating' \in [Requests -> Variants \cup {NoVariant}]
           /\ reserved' \in [Requests -> SUBSET Variants]
           /\ version' \in [Requests -> [Variants -> Nat]]
           /\ subtotal' \in [Requests -> Nat]
           /\ draft' \in [Requests -> OrderRows \cup {NoOrder}]
           /\ deleted' \in [Requests -> SUBSET Variants]
  <1>1. EmptyCart \in Carts /\ EmptyCart \in [Variants -> Nat]
    BY OrdersAssumption DEF EmptyCart, Carts
  <1>2. QED
    BY <1>1 DEF TypeOK, EndTransaction

\* Every table, every request and every transaction stays well typed.
LEMMA TypeInit == Init => TypeOK
  BY OrdersAssumption DEF Init, TypeOK, EmptyCart, Carts

LEMMA TypeStep == TypeOK /\ [Next]_vars => TypeOK'
  <1> SUFFICES ASSUME TypeOK, [Next]_vars PROVE TypeOK'
    OBVIOUS
  <1>1. ASSUME NEW r \in Requests, Submit(r) PROVE TypeOK'
    BY <1>1 DEF TypeOK, Submit, tables, request, transaction, Open, Answered
  <1>2. ASSUME NEW r \in Requests, ReadCart(r) PROVE TypeOK'
    BY <1>2 DEF TypeOK, ReadCart, tables, request, Open, InTransaction, Answered
  <1>3. ASSUME NEW r \in Requests, NEW v \in Variants, SendUpdate(r, v) PROVE TypeOK'
    BY <1>3 DEF TypeOK, SendUpdate, tables, request
  <1>4. ASSUME NEW r \in Requests, Reserve(r) PROVE TypeOK'
    <2> DEFINE v == updating[r]
    <2>1. v \in Variants /\ inventoryQty[v] \in Nat /\ cart[r][v] \in Nat
      BY <1>4, OrdersAssumption DEF TypeOK, Reserve, Carts
    <2>2. inventoryQty[v] - cart[r][v] \in Nat
      BY <1>4, <2>1 DEF Reserve, EnoughStock
    <2>3. Price[v] * cart[r][v] \in Nat
      BY <2>1, OrdersAssumption
    <2>4. version' \in [Requests -> [Variants -> Nat]]
      BY <1>4, <2>1, <2>2 DEF TypeOK, Reserve
    <2>5. subtotal' \in [Requests -> Nat]
      BY <1>4, <2>1, <2>3 DEF TypeOK, Reserve, LinePrice
    <2>6. reserved' \in [Requests -> SUBSET Variants]
      BY <1>4, <2>1 DEF TypeOK, Reserve
    <2>7. QED
      BY <1>4, <2>4, <2>5, <2>6 DEF TypeOK, Reserve, tables, request
  <1>5. ASSUME NEW r \in Requests, OutOfStock(r) PROVE TypeOK'
    BY <1>5, EndTransactionType DEF TypeOK, OutOfStock, tables, request, Answered
  <1>6. ASSUME NEW r \in Requests, CreateOrder(r) PROVE TypeOK'
    <2>1. draft' \in [Requests -> OrderRows \cup {NoOrder}]
      BY <1>6 DEF TypeOK, CreateOrder, OrderRows
    <2>2. QED
      BY <1>6, <2>1 DEF TypeOK, CreateOrder, tables, request, Open, InTransaction
  <1>7. ASSUME NEW r \in Requests, TotalTooLarge(r) PROVE TypeOK'
    BY <1>7, EndTransactionType DEF TypeOK, TotalTooLarge, tables, request, Answered
  <1>8. ASSUME NEW r \in Requests, ClearCart(r) PROVE TypeOK'
    BY <1>8 DEF TypeOK, ClearCart, Lines, tables, request, Open, InTransaction
  <1>9. ASSUME NEW r \in Requests, Commit(r) PROVE TypeOK'
    <2>1. inventoryQty' \in [Variants -> Nat]
      BY <1>9 DEF TypeOK, Commit
    <2>2. cartItems' \in [Users -> Carts]
      BY <1>9, OrdersAssumption DEF TypeOK, Commit, Carts
    <2>3. LogsOf(r) \in SUBSET LogRows
      BY DEF TypeOK, LogsOf, LogRows, Lines, Carts
    <2>4. inventoryLogs' \in SUBSET LogRows
      BY <1>9, <2>3 DEF TypeOK, Commit
    <2>5. orders' \in [Requests -> OrderRows \cup {NoOrder}]
      BY <1>9 DEF TypeOK, Commit
    <2>6. EndTransaction(r, "created") /\ "created" \in Answered
      BY <1>9 DEF Commit, Answered
    <2>7. QED
      BY <1>9, <2>1, <2>2, <2>4, <2>5, <2>6, EndTransactionType
      DEF TypeOK, Commit, request
  <1>10. ASSUME NEW r \in Requests, Abort(r) PROVE TypeOK'
    BY <1>10, EndTransactionType DEF TypeOK, Abort, tables, request, Answered
  <1>11. ASSUME NEW r \in Requests, DeadlockVictim(r) PROVE TypeOK'
    BY <1>11, EndTransactionType DEF TypeOK, DeadlockVictim, tables, request, Answered
  <1>12. ASSUME NEW u \in Users, NEW v \in Variants, NEW n \in 1..MaxQuantity,
                AddItem(u, v, n)
         PROVE  TypeOK'
    <2>1. cartItems[u][v] + n \in 0..MaxQuantity
      BY <1>12, OrdersAssumption DEF TypeOK, AddItem, Carts
    <2>2. cartItems' \in [Users -> Carts]
      BY <1>12, <2>1 DEF TypeOK, AddItem, Carts
    <2>3. QED
      BY <1>12, <2>2 DEF TypeOK, AddItem, request, transaction
  <1>13. ASSUME NEW u \in Users, NEW v \in Variants, NEW n \in 0..MaxQuantity,
                UpdateItemQuantity(u, v, n)
         PROVE  TypeOK'
    <2>1. cartItems' \in [Users -> Carts]
      BY <1>13 DEF TypeOK, UpdateItemQuantity, Carts
    <2>2. QED
      BY <1>13, <2>1 DEF TypeOK, UpdateItemQuantity, request, transaction
  <1>14. CASE UNCHANGED vars
    BY <1>14 DEF TypeOK, vars, tables, request, transaction
  <1>15. QED
    BY <1>1, <1>2, <1>3, <1>4, <1>5, <1>6, <1>7, <1>8, <1>9, <1>10, <1>11, <1>12,
       <1>13, <1>14
    DEF Next, Progress, CartEdit

\* Type correctness of the checkout transaction and of the tables it writes.
THEOREM TypeCorrect == Spec => []TypeOK
  BY TypeInit, TypeStep, PTL DEF Spec
-----------------------------------------------------------------------------
\* A request that ends its transaction without committing gives up its locks and
\* touches no table, so what the others hold is as good as before.
LEMMA RollbackKeepsInv ==
    ASSUME TypeOK, ReservationInv, NEW r \in Requests, NEW outcome \in {"refused", "failed"},
           EndTransaction(r, outcome), UNCHANGED <<tables, request>>, pc[r] # "created"
    PROVE  ReservationInv'
  <1>1. ReservationsExclusive'
    BY DEF TypeOK, ReservationInv, ReservationsExclusive, EndTransaction
  <1>2. VersionsCurrent'
    BY DEF TypeOK, ReservationInv, VersionsCurrent, EndTransaction, tables
  <1>3. DraftMatchesReservation'
    BY DEF TypeOK, ReservationInv, DraftMatchesReservation, EndTransaction, tables,
       Lines, InTransaction
  <1>4. QED
    BY <1>1, <1>2, <1>3 DEF ReservationInv

\* A step that leaves stock, orders and every transaction alone keeps the invariant.
LEMMA OtherStepsKeepInv ==
    ASSUME ReservationInv, UNCHANGED <<inventoryQty, orders, pc, request, transaction>>
    PROVE  ReservationInv'
  BY DEF ReservationInv, ReservationsExclusive, VersionsCurrent,
     DraftMatchesReservation, transaction, Lines, InTransaction

LEMMA ReservationInit == Init => ReservationInv
  BY DEF Init, ReservationInv, ReservationsExclusive, VersionsCurrent,
     DraftMatchesReservation, Lines, EmptyCart, InTransaction

LEMMA ReservationStep == TypeOK /\ ReservationInv /\ [Next]_vars => ReservationInv'
  <1> SUFFICES ASSUME TypeOK, ReservationInv, [Next]_vars PROVE ReservationInv'
    OBVIOUS
  <1>1. ASSUME NEW r \in Requests, Submit(r) PROVE ReservationInv'
    BY <1>1 DEF TypeOK, ReservationInv, ReservationsExclusive, VersionsCurrent,
       DraftMatchesReservation, Submit, tables, transaction, Lines, InTransaction
  <1>2. ASSUME NEW r \in Requests, ReadCart(r) PROVE ReservationInv'
    <2>1. reserved[r] = {} /\ updating[r] = NoVariant /\ pc[r] = "reading"
      BY <1>2 DEF ReservationInv, DraftMatchesReservation, ReadCart, InTransaction
    <2>2. ReservationsExclusive'
      BY <1>2 DEF ReservationInv, ReservationsExclusive, ReadCart
    <2>3. VersionsCurrent'
      BY <1>2, <2>1 DEF TypeOK, ReservationInv, VersionsCurrent, ReadCart, tables
    <2>4. DraftMatchesReservation'
      BY <1>2, <2>1 DEF TypeOK, ReservationInv, DraftMatchesReservation, ReadCart,
         tables, Lines, InTransaction
    <2>5. QED
      BY <2>2, <2>3, <2>4 DEF ReservationInv
  <1>3. ASSUME NEW r \in Requests, NEW v \in Variants, SendUpdate(r, v)
        PROVE  ReservationInv'
    BY <1>3 DEF TypeOK, ReservationInv, ReservationsExclusive, VersionsCurrent,
       DraftMatchesReservation, SendUpdate, tables, Lines, InTransaction
  <1>4. ASSUME NEW r \in Requests, Reserve(r) PROVE ReservationInv'
    <2> DEFINE v == updating[r]
    <2>1. v \in Variants /\ inventoryQty[v] \in Nat /\ cart[r][v] \in Nat
      BY <1>4, OrdersAssumption DEF TypeOK, Reserve, Carts
    <2>2. ReservationsExclusive'
      BY <1>4, <2>1 DEF TypeOK, ReservationInv, ReservationsExclusive, Reserve,
         LockedByOther
    <2>3. VersionsCurrent'
      BY <1>4, <2>1 DEF TypeOK, ReservationInv, VersionsCurrent, Reserve,
         EnoughStock, tables
    <2>4. DraftMatchesReservation'
      BY <1>4, <2>1 DEF TypeOK, ReservationInv, DraftMatchesReservation, Reserve,
         tables, Lines, InTransaction
    <2>5. QED
      BY <2>2, <2>3, <2>4 DEF ReservationInv
  <1>5. ASSUME NEW r \in Requests, OutOfStock(r) PROVE ReservationInv'
    BY <1>5, RollbackKeepsInv DEF OutOfStock
  <1>6. ASSUME NEW r \in Requests, CreateOrder(r) PROVE ReservationInv'
    <2>1. ReservationsExclusive' /\ VersionsCurrent'
      BY <1>6 DEF ReservationInv, ReservationsExclusive, VersionsCurrent, CreateOrder,
         tables
    <2>2. draft'[r] \in OrderRows /\ draft'[r].items = cart[r]
      BY <1>6 DEF TypeOK, CreateOrder, OrderRows
    <2>3. DraftMatchesReservation'
      BY <1>6, <2>2 DEF TypeOK, ReservationInv, DraftMatchesReservation, CreateOrder,
         AllReserved, tables, Lines, InTransaction
    <2>4. QED
      BY <2>1, <2>3 DEF ReservationInv
  <1>7. ASSUME NEW r \in Requests, TotalTooLarge(r) PROVE ReservationInv'
    BY <1>7, RollbackKeepsInv DEF TotalTooLarge
  <1>8. ASSUME NEW r \in Requests, ClearCart(r) PROVE ReservationInv'
    BY <1>8 DEF TypeOK, ReservationInv, ReservationsExclusive, VersionsCurrent,
       DraftMatchesReservation, ClearCart, tables, Lines, InTransaction
  <1>9. ASSUME NEW r \in Requests, Commit(r) PROVE ReservationInv'
    <2>1. ReservationsExclusive'
      BY <1>9 DEF TypeOK, ReservationInv, ReservationsExclusive, Commit, EndTransaction
    <2>2. ASSUME NEW q \in Requests, NEW v \in reserved'[q]
          PROVE  version'[q][v] = inventoryQty'[v] - cart'[q][v] /\ version'[q][v] >= 0
      <3>1. q # r /\ v \in reserved[q] /\ v \notin reserved[r] /\ v \in Variants
        BY <1>9, <2>2 DEF TypeOK, ReservationInv, ReservationsExclusive, Commit,
           EndTransaction
      <3>2. version'[q] = version[q] /\ cart'[q] = cart[q] /\ inventoryQty'[v] = inventoryQty[v]
        BY <1>9, <3>1 DEF TypeOK, Commit, EndTransaction
      <3>3. QED
        BY <3>1, <3>2 DEF ReservationInv, VersionsCurrent
    <2>3. VersionsCurrent'
      BY <2>2 DEF VersionsCurrent
    <2>4. DraftMatchesReservation'
      BY <1>9 DEF TypeOK, ReservationInv, DraftMatchesReservation, Commit,
         EndTransaction, Lines, InTransaction
    <2>5. QED
      BY <2>1, <2>3, <2>4 DEF ReservationInv
  <1>10. ASSUME NEW r \in Requests, Abort(r) PROVE ReservationInv'
    BY <1>10, RollbackKeepsInv DEF Abort, Open, InTransaction
  <1>11. ASSUME NEW r \in Requests, DeadlockVictim(r) PROVE ReservationInv'
    <2>1. pc[r] = "reserving"
      BY <1>11 DEF DeadlockVictim, Deadlocked, WaitsFor
    <2>2. QED
      BY <1>11, <2>1, RollbackKeepsInv DEF DeadlockVictim
  <1>12. ASSUME NEW u \in Users, CartEdit(u) PROVE ReservationInv'
    BY <1>12, OtherStepsKeepInv DEF CartEdit, AddItem, UpdateItemQuantity
  <1>13. CASE UNCHANGED vars
    BY <1>13, OtherStepsKeepInv DEF vars, tables
  <1>14. QED
    BY <1>1, <1>2, <1>3, <1>4, <1>5, <1>6, <1>7, <1>8, <1>9, <1>10, <1>11, <1>12,
       <1>13
    DEF Next, Progress

\* The transactions lock as the guarded UPDATEs make them: no two hold one
\* variant, and what each will install is still current.
THEOREM Reservations == Spec => []ReservationInv
  BY TypeInit, TypeStep, ReservationInit, ReservationStep, PTL DEF Spec
-----------------------------------------------------------------------------
\* What a commit does to the stock: the order takes what it lists, and no other
\* variant moves.
LEMMA CommitTakesItems ==
    ASSUME TypeOK, ReservationInv, NEW r \in Requests, Commit(r)
    PROVE  /\ orders[r] = NoOrder
           /\ orders' = [orders EXCEPT ![r] = draft[r]]
           /\ draft[r] \in OrderRows
           /\ draft[r].items = cart[r]
           /\ Lines(cart[r]) # {}
           /\ \A v \in Variants : /\ inventoryQty'[v] = inventoryQty[v] - cart[r][v]
                                  /\ cart[r][v] <= inventoryQty[v]
           /\ inventoryQty' = [v \in Variants |-> inventoryQty[v] - cart[r][v]]
  <1>1. /\ orders[r] = NoOrder
        /\ orders' = [orders EXCEPT ![r] = draft[r]]
        /\ draft[r] \in OrderRows
        /\ draft[r].items = cart[r]
        /\ reserved[r] = Lines(cart[r])
        /\ Lines(cart[r]) # {}
    BY DEF ReservationInv, DraftMatchesReservation, Commit, InTransaction
  <1>2. ASSUME NEW v \in Variants
        PROVE  /\ inventoryQty'[v] = inventoryQty[v] - cart[r][v]
               /\ cart[r][v] <= inventoryQty[v]
    <2>1. inventoryQty[v] \in Nat /\ cart[r][v] \in Nat /\ version[r][v] \in Nat
      BY OrdersAssumption DEF TypeOK, Carts
    <2>2. CASE v \in reserved[r]
      BY <2>1, <2>2 DEF ReservationInv, VersionsCurrent, Commit
    <2>3. CASE v \notin reserved[r]
      BY <1>1, <2>1, <2>3 DEF Commit, Lines
    <2>4. QED
      BY <2>2, <2>3
  <1>3. inventoryQty' = [v \in Variants |-> inventoryQty[v] - cart[r][v]]
    BY <1>2 DEF Commit
  <1>4. QED
    BY <1>1, <1>2, <1>3

\* No step but a commit touches the stock or the orders.
LEMMA OnlyCommitMoves ==
    ASSUME [Next]_vars, ~\E r \in Requests : Commit(r)
    PROVE  UNCHANGED <<inventoryQty, orders>>
  BY DEF Next, Progress, CartEdit, Submit, ReadCart, SendUpdate, Reserve, OutOfStock,
     CreateOrder, TotalTooLarge, ClearCart, DeadlockVictim, Abort, AddItem,
     UpdateItemQuantity, vars, tables

\* Stock moves only in the step that makes an order visible, and by exactly what
\* that order lists.
THEOREM StockMoves == Spec => StockMovesOnlyWithOrder
  <1>1. TypeOK /\ ReservationInv /\ [Next]_vars =>
           [<<inventoryQty, orders>>' # <<inventoryQty, orders>> =>
              \E r \in Requests :
                  /\ orders[r] = NoOrder
                  /\ orders' = [orders EXCEPT ![r] = orders'[r]]
                  /\ orders'[r] \in OrderRows
                  /\ \A v \in Variants :
                        inventoryQty'[v] = inventoryQty[v] - orders'[r].items[v]]_vars
    <2> SUFFICES ASSUME TypeOK, ReservationInv, [Next]_vars,
                        <<inventoryQty, orders>>' # <<inventoryQty, orders>>
                 PROVE  \E r \in Requests :
                          /\ orders[r] = NoOrder
                          /\ orders' = [orders EXCEPT ![r] = orders'[r]]
                          /\ orders'[r] \in OrderRows
                          /\ \A v \in Variants :
                                inventoryQty'[v] = inventoryQty[v] - orders'[r].items[v]
      OBVIOUS
    <2>1. PICK r \in Requests : Commit(r)
      BY OnlyCommitMoves
    <2>2. orders'[r] = draft[r]
      BY <2>1, CommitTakesItems DEF TypeOK
    <2>3. QED
      BY <2>1, <2>2, CommitTakesItems
  <1>2. QED
    BY <1>1, TypeCorrect, Reservations, PTL DEF Spec, StockMovesOnlyWithOrder

\* Checkout, with its transactions, locks, rollbacks and deadlocks, implements
\* the atomic purchase: a commit is a purchase and every other step a stutter.
THEOREM Refinement == Spec => Checkout!Spec
  <1>1. Init => Checkout!Init
    BY DEF Init, Checkout!Init
  <1>2. TypeOK /\ ReservationInv /\ [Next]_vars => [Checkout!Next]_Checkout!vars
    <2> SUFFICES ASSUME TypeOK, ReservationInv, [Next]_vars
                 PROVE  [Checkout!Next]_Checkout!vars
      OBVIOUS
    <2>1. CASE ~\E r \in Requests : Commit(r)
      BY <2>1, OnlyCommitMoves DEF Checkout!vars
    <2>2. ASSUME NEW r \in Requests, Commit(r) PROVE Checkout!Next
      <3> DEFINE sold == [q \in Requests |-> IF orders[q] = NoOrder THEN NoOrder
                                                                   ELSE orders[q].items]
      <3>1. cart[r] \in Checkout!Baskets
        BY <2>2, CommitTakesItems DEF TypeOK, Carts, Lines, Checkout!Baskets
      <3>2. orders'[r] = draft[r] /\ draft[r] # NoOrder
        BY <2>2, CommitTakesItems, NoOrderAssumption DEF TypeOK
      <3>3. sold' = [sold EXCEPT ![r] = cart[r]]
        BY <2>2, <3>2, CommitTakesItems DEF TypeOK
      <3>4. sold[r] = NoOrder
        BY <2>2, CommitTakesItems
      <3>5. Checkout!Buy(r, cart[r])
        <4>1. /\ \A v \in Variants : cart[r][v] <= inventoryQty[v]
              /\ inventoryQty' = [v \in Variants |-> inventoryQty[v] - cart[r][v]]
          BY <2>2, CommitTakesItems
        <4>2. QED
          BY <3>3, <3>4, <4>1 DEF Checkout!Buy
      <3>6. QED
        BY <3>1, <3>5 DEF Checkout!Next, Checkout!Buy
    <2>3. QED
      BY <2>1, <2>2
  <1>3. QED
    BY <1>1, <1>2, TypeCorrect, Reservations, PTL DEF Spec, Checkout!Spec

\* The same, as the property the run checks.
COROLLARY CheckoutIsAtomic == Spec => ImplementsAtomicCheckout
  BY Refinement DEF ImplementsAtomicCheckout
-----------------------------------------------------------------------------
(* Sums over finite sets.  The model adds with MapThenSumSet, a fold that takes *)
(* the elements of a set out one by one; the lemmas say that the order does not *)
(* matter and what one element more changes.                                    *)

\* Complete induction on a finite set: a property that a subset inherits from
\* its proper subsets holds of every subset.
LEMMA SubsetInduction ==
    ASSUME NEW S, IsFiniteSet(S), NEW G,
           \A A \in SUBSET S : (\A B \in SUBSET A : B # A => B \in G) => A \in G
    PROVE  SUBSET S \subseteq G
  <1> DEFINE bad == (SUBSET S) \ G
             R == StrictSubsetOrdering(S)
  <1>1. IsWellFoundedOn(R, SUBSET S)
    BY FS_StrictSubsetOrderingWellFounded, FS_FiniteSubsetsOfFinite
  <1>2. SUFFICES ASSUME bad # {} PROVE FALSE
    OBVIOUS
  <1>3. PICK A \in bad : \A B \in bad : <<B, A>> \notin R
    <2>1. bad \subseteq SUBSET S
      OBVIOUS
    <2> HIDE DEF bad, R
    <2>2. QED
      BY <1>1, <1>2, <2>1, WFMin
  <1>4. ASSUME NEW B \in SUBSET A, B # A PROVE B \in G
    BY <1>3, <1>4 DEF StrictSubsetOrdering
  <1>5. QED
    BY <1>3, <1>4

\* The element the fold takes out first.
Pick(A) == CHOOSE x \in A : TRUE

\* sum is the table a fold with + builds: the sums of f over the subsets of S.
IsSumTable(sum, f, S) ==
    sum = [A \in SUBSET S |-> IF A = {} THEN 0 ELSE f[Pick(A)] + sum[A \ {Pick(A)}]]

SumOver(f, S) == (CHOOSE sum : IsSumTable(sum, f, S))[S]

LEMMA Picked == \A A : A # {} => Pick(A) \in A
  BY DEF Pick

\* Two tables agree wherever both are defined.
LEMMA SumTablesAgree ==
    ASSUME NEW S, IsFiniteSet(S), NEW T, NEW f, NEW s, NEW t,
           IsSumTable(s, f, S), IsSumTable(t, f, T)
    PROVE  \A A \in SUBSET S : A \in SUBSET T => s[A] = t[A]
  <1> DEFINE G == {A \in SUBSET S : A \in SUBSET T => s[A] = t[A]}
  <1>1. ASSUME NEW A \in SUBSET S, \A B \in SUBSET A : B # A => B \in G,
               A \in SUBSET T
        PROVE  s[A] = t[A]
    <2>1. CASE A = {}
      BY <2>1 DEF IsSumTable
    <2>2. CASE A # {}
      <3> DEFINE B == A \ {Pick(A)}
      <3>1. B \in SUBSET A /\ B # A
        BY <2>2, Picked
      <3>2. s[B] = t[B]
        BY <1>1, <3>1
      <3>3. s[A] = f[Pick(A)] + s[B] /\ t[A] = f[Pick(A)] + t[B]
        BY <1>1, <2>2 DEF IsSumTable
      <3>4. QED
        BY <3>2, <3>3
    <2>3. QED
      BY <2>1, <2>2
  <1>2. SUBSET S \subseteq G
    <2>1. \A A \in SUBSET S : (\A B \in SUBSET A : B # A => B \in G) => A \in G
      BY <1>1
    <2> HIDE DEF G
    <2>2. QED
      BY <2>1, SubsetInduction
  <1>3. QED
    BY <1>2

\* There is such a table for every finite set.
LEMMA SumTableExists ==
    ASSUME NEW S, IsFiniteSet(S), NEW f
    PROVE  \E sum : IsSumTable(sum, f, S)
  <1> DEFINE G == {A \in SUBSET S : \E sum : IsSumTable(sum, f, A)}
             below(A) == CHOOSE sum : IsSumTable(sum, f, A)
             table(A) == [B \in SUBSET A |->
                            IF B = {} THEN 0
                            ELSE f[Pick(B)] + below(B \ {Pick(B)})[B \ {Pick(B)}]]
  <1>1. ASSUME NEW A \in SUBSET S, \A B \in SUBSET A : B # A => B \in G
        PROVE  IsSumTable(table(A), f, A)
    <2>1. ASSUME NEW B \in SUBSET A, B # A
          PROVE  IsSumTable(below(B), f, B)
      <3>1. \E sum : IsSumTable(sum, f, B)
        BY <1>1, <2>1
      <3>2. QED
        BY <3>1
    <2>2. ASSUME NEW B \in SUBSET A, B # A
          PROVE  table(A)[B] = below(B)[B]
      <3>1. CASE B = {}
        <4>1. below(B)[B] = 0
          <5> HIDE DEF below
          <5>1. QED
            BY <2>1, <2>2, <3>1 DEF IsSumTable
        <4>2. QED
          BY <4>1, <3>1
      <3>2. CASE B # {}
        <4> DEFINE C == B \ {Pick(B)}
        <4>1. C \in SUBSET A /\ C # A /\ C \in SUBSET B /\ C # B
          BY <2>2, <3>2, Picked
        <4>2. below(B)[B] = f[Pick(B)] + below(B)[C]
          <5> HIDE DEF below
          <5>1. QED
            BY <2>1, <2>2, <3>2 DEF IsSumTable
        <4>3. below(B)[C] = below(C)[C]
          <5>1. IsSumTable(below(B), f, B) /\ IsSumTable(below(C), f, C)
            BY <2>1, <2>2, <4>1
          <5>2. IsFiniteSet(B)
            BY FS_Subset
          <5> HIDE DEF below, C
          <5>3. QED
            BY <5>1, <5>2, <4>1, SumTablesAgree
        <4>4. table(A)[B] = f[Pick(B)] + below(C)[C]
          <5> HIDE DEF below
          <5>1. QED
            BY <3>2
        <4> HIDE DEF table, below, C
        <4>5. QED
          BY <4>2, <4>3, <4>4
      <3>3. QED
        BY <3>1, <3>2
    <2>3. ASSUME NEW B \in SUBSET A
          PROVE  table(A)[B] = IF B = {} THEN 0
                               ELSE f[Pick(B)] + table(A)[B \ {Pick(B)}]
      <3>1. CASE B = {}
        <4> HIDE DEF below
        <4>1. QED
          BY <3>1
      <3>2. CASE B # {}
        <4> DEFINE C == B \ {Pick(B)}
        <4>1. C \in SUBSET A /\ C # A
          BY <3>2, Picked
        <4>2. table(A)[B] = f[Pick(B)] + below(C)[C]
          <5> HIDE DEF below
          <5>1. QED
            BY <3>2
        <4>3. table(A)[C] = below(C)[C]
          BY <2>2, <4>1
        <4> HIDE DEF table, below
        <4>4. QED
          BY <3>2, <4>2, <4>3
      <3>3. QED
        BY <3>1, <3>2
    <2>4. table(A) = [B \in SUBSET A |-> table(A)[B]]
      <3> HIDE DEF below
      <3>1. QED
        OBVIOUS
    <2> HIDE DEF table
    <2>5. QED
      BY <2>3, <2>4 DEF IsSumTable
  <1>2. \A A \in SUBSET S : (\A B \in SUBSET A : B # A => B \in G) => A \in G
    <2> HIDE DEF table
    <2>1. QED
      BY <1>1
  <1>3. SUBSET S \subseteq G
    <2> HIDE DEF G
    <2>1. QED
      BY <1>2, SubsetInduction
  <1>4. QED
    BY <1>3

\* A sum over a finite set, one element at a time.
LEMMA SumUnfold ==
    ASSUME NEW S, IsFiniteSet(S), NEW f
    PROVE  /\ SumOver(f, {}) = 0
           /\ S # {} => SumOver(f, S) = f[Pick(S)] + SumOver(f, S \ {Pick(S)})
  <1> DEFINE t(A) == CHOOSE sum : IsSumTable(sum, f, A)
  <1>1. ASSUME NEW A, IsFiniteSet(A) PROVE IsSumTable(t(A), f, A)
    <2>1. \E sum : IsSumTable(sum, f, A)
      BY <1>1, SumTableExists
    <2>2. QED
      BY <2>1
  <1>2. \A A : SumOver(f, A) = t(A)[A]
    BY DEF SumOver
  <1> HIDE DEF t
  <1>3. SumOver(f, {}) = 0
    BY <1>1, <1>2, FS_EmptySet DEF IsSumTable
  <1>4. ASSUME S # {}
        PROVE  SumOver(f, S) = f[Pick(S)] + SumOver(f, S \ {Pick(S)})
    <2> DEFINE B == S \ {Pick(S)}
    <2>1. IsFiniteSet(B) /\ B \in SUBSET S
      BY FS_Subset
    <2>2. t(S)[S] = f[Pick(S)] + t(S)[B]
      BY <1>1, <1>4 DEF IsSumTable
    <2>3. t(S)[B] = t(B)[B]
      <3>1. IsSumTable(t(S), f, S) /\ IsSumTable(t(B), f, B)
        BY <1>1, <2>1
      <3> HIDE DEF B
      <3>2. QED
        BY <3>1, <2>1, SumTablesAgree
    <2>4. QED
      BY <1>2, <2>2, <2>3
  <1>5. QED
    BY <1>3, <1>4
\* The sum of integers is an integer.
LEMMA SumIsInteger ==
    ASSUME NEW S, IsFiniteSet(S), NEW f, \A x \in S : f[x] \in Int
    PROVE  SumOver(f, S) \in Int
  <1> DEFINE G == {A \in SUBSET S : SumOver(f, A) \in Int}
  <1>1. ASSUME NEW A \in SUBSET S, \A B \in SUBSET A : B # A => B \in G
        PROVE  SumOver(f, A) \in Int
    <2>1. IsFiniteSet(A)
      BY FS_Subset
    <2>2. CASE A = {}
      BY <2>1, <2>2, SumUnfold
    <2>3. CASE A # {}
      <3>1. Pick(A) \in A /\ A \ {Pick(A)} \in G
        BY <1>1, <2>3, Picked
      <3>2. f[Pick(A)] \in Int /\ SumOver(f, A \ {Pick(A)}) \in Int
        BY <3>1
      <3>3. SumOver(f, A) = f[Pick(A)] + SumOver(f, A \ {Pick(A)})
        BY <2>1, <2>3, SumUnfold
      <3>4. QED
        BY <3>2, <3>3
    <2>4. QED
      BY <2>2, <2>3
  <1>2. SUBSET S \subseteq G
    <2>1. \A A \in SUBSET S : (\A B \in SUBSET A : B # A => B \in G) => A \in G
      BY <1>1
    <2> HIDE DEF G
    <2>2. QED
      BY <2>1, SubsetInduction
  <1>3. QED
    BY <1>2

\* Which element is taken out first does not matter.
LEMMA SumTakeOut ==
    ASSUME NEW S, IsFiniteSet(S), NEW f, \A x \in S : f[x] \in Int
    PROVE  \A x \in S : SumOver(f, S) = f[x] + SumOver(f, S \ {x})
  <1> DEFINE G == {A \in SUBSET S : \A x \in A : SumOver(f, A) = f[x] + SumOver(f, A \ {x})}
  <1>1. ASSUME NEW A \in SUBSET S, \A B \in SUBSET A : B # A => B \in G, NEW x \in A
        PROVE  SumOver(f, A) = f[x] + SumOver(f, A \ {x})
    <2> DEFINE c == Pick(A)
    <2>1. c \in A /\ IsFiniteSet(A)
      BY Picked, FS_Subset
    <2>2. SumOver(f, A) = f[c] + SumOver(f, A \ {c})
      BY <2>1, SumUnfold
    <2>3. CASE x = c
      BY <2>2, <2>3
    <2>4. CASE x # c
      <3> DEFINE D == A \ {c, x}
      <3>1. /\ A \ {c} \in G /\ x \in A \ {c} /\ (A \ {c}) \ {x} = D
            /\ A \ {x} \in G /\ c \in A \ {x} /\ (A \ {x}) \ {c} = D
        BY <1>1, <2>1, <2>4
      <3>2. /\ SumOver(f, A \ {c}) = f[x] + SumOver(f, D)
            /\ SumOver(f, A \ {x}) = f[c] + SumOver(f, D)
        BY <3>1
      <3>3. f[c] \in Int /\ f[x] \in Int /\ SumOver(f, D) \in Int
        <4>1. D \in SUBSET S /\ IsFiniteSet(D)
          BY FS_Subset
        <4> HIDE DEF D
        <4>2. SumOver(f, D) \in Int
          BY <4>1, SumIsInteger
        <4>3. QED
          BY <4>2, <2>1
      <3> HIDE DEF D, c
      <3>4. QED
        BY <2>2, <3>2, <3>3
    <2>5. QED
      BY <2>3, <2>4
  <1>2. SUBSET S \subseteq G
    <2>1. \A A \in SUBSET S : (\A B \in SUBSET A : B # A => B \in G) => A \in G
      BY <1>1
    <2> HIDE DEF G
    <2>2. QED
      BY <2>1, SubsetInduction
  <1>3. QED
    BY <1>2

\* A sum depends on the terms only.
LEMMA SumSameTerms ==
    ASSUME NEW S, IsFiniteSet(S), NEW f, NEW g, \A x \in S : f[x] = g[x]
    PROVE  SumOver(f, S) = SumOver(g, S)
  <1> DEFINE G == {A \in SUBSET S : SumOver(f, A) = SumOver(g, A)}
  <1>1. ASSUME NEW A \in SUBSET S, \A B \in SUBSET A : B # A => B \in G
        PROVE  SumOver(f, A) = SumOver(g, A)
    <2>1. IsFiniteSet(A)
      BY FS_Subset
    <2>2. CASE A = {}
      BY <2>1, <2>2, SumUnfold
    <2>3. CASE A # {}
      <3>1. Pick(A) \in A /\ A \ {Pick(A)} \in G
        BY <1>1, <2>3, Picked
      <3>2. QED
        BY <2>1, <2>3, <3>1, SumUnfold
    <2>4. QED
      BY <2>2, <2>3
  <1>2. SUBSET S \subseteq G
    <2>1. \A A \in SUBSET S : (\A B \in SUBSET A : B # A => B \in G) => A \in G
      BY <1>1
    <2> HIDE DEF G
    <2>2. QED
      BY <2>1, SubsetInduction
  <1>3. QED
    BY <1>2

\* Terms that are 0 may be left out.
LEMMA SumWithoutZeros ==
    ASSUME NEW S, IsFiniteSet(S), NEW T \in SUBSET S, NEW f,
           \A x \in S : f[x] \in Int, \A x \in S \ T : f[x] = 0
    PROVE  SumOver(f, S) = SumOver(f, T)
  <1> DEFINE G == {A \in SUBSET S : T \subseteq A => SumOver(f, A) = SumOver(f, T)}
  <1>1. ASSUME NEW A \in SUBSET S, \A B \in SUBSET A : B # A => B \in G, T \subseteq A
        PROVE  SumOver(f, A) = SumOver(f, T)
    <2>1. CASE A = T
      BY <2>1
    <2>2. CASE A # T
      <3>1. PICK x \in A : x \notin T
        BY <1>1, <2>2
      <3>2. A \ {x} \in G /\ T \subseteq A \ {x}
        BY <1>1, <3>1
      <3>3. IsFiniteSet(A) /\ IsFiniteSet(T)
        BY FS_Subset
      <3>4. SumOver(f, A) = f[x] + SumOver(f, A \ {x})
        BY <3>3, SumTakeOut
      <3>5. f[x] = 0 /\ SumOver(f, A \ {x}) = SumOver(f, T) /\ SumOver(f, T) \in Int
        BY <3>1, <3>2, <3>3, SumIsInteger
      <3>6. QED
        BY <3>4, <3>5
    <2>3. QED
      BY <2>1, <2>2
  <1>2. SUBSET S \subseteq G
    <2>1. \A A \in SUBSET S : (\A B \in SUBSET A : B # A => B \in G) => A \in G
      BY <1>1
    <2> HIDE DEF G
    <2>2. QED
      BY <2>1, SubsetInduction
  <1>3. QED
    BY <1>2
-----------------------------------------------------------------------------
(* The sums of the model *)

\* What MapThenSumSet computes, for the three terms the model adds up: it is the
\* sum of the table of those terms.
LEMMA UnitsFold ==
    ASSUME NEW T, IsFiniteSet(T), NEW o, NEW v
    PROVE  MapThenSumSet(LAMBDA r : o[r].items[v], T) =
             SumOver([r \in T |-> o[r].items[v]], T)
  <1> DEFINE f == [r \in T |-> o[r].items[v]]
             F(i) == [A \in SUBSET T |->
                        IF A = {} THEN 0
                        ELSE o[CHOOSE x \in A : TRUE].items[v]
                               + i[A \ {CHOOSE x \in A : TRUE}]]
  <1>1. MapThenSumSet(LAMBDA r : o[r].items[v], T) = (CHOOSE i : i = F(i))[T]
    BY DEF MapThenSumSet, MapThenFoldSet
  <1>2. \A i : i = F(i) <=> IsSumTable(i, f, T)
    <2>1. \A A \in SUBSET T : A # {} => Pick(A) \in T /\ f[Pick(A)] = o[Pick(A)].items[v]
      BY Picked
    <2>2. QED
      BY <2>1 DEF IsSumTable, Pick
  <1>3. (CHOOSE i : i = F(i)) = CHOOSE i : IsSumTable(i, f, T)
    <2> HIDE DEF F, f
    <2>1. QED
      BY <1>2
  <1>4. QED
    BY <1>1, <1>3 DEF SumOver

LEMMA DeltaFold ==
    ASSUME NEW T, IsFiniteSet(T)
    PROVE  MapThenSumSet(LAMBDA l : l.delta, T) = SumOver([l \in T |-> l.delta], T)
  <1> DEFINE f == [l \in T |-> l.delta]
             F(i) == [A \in SUBSET T |->
                        IF A = {} THEN 0
                        ELSE (CHOOSE x \in A : TRUE).delta
                               + i[A \ {CHOOSE x \in A : TRUE}]]
  <1>1. MapThenSumSet(LAMBDA l : l.delta, T) = (CHOOSE i : i = F(i))[T]
    BY DEF MapThenSumSet, MapThenFoldSet
  <1>2. \A i : i = F(i) <=> IsSumTable(i, f, T)
    <2>1. \A A \in SUBSET T : A # {} => Pick(A) \in T /\ f[Pick(A)] = Pick(A).delta
      BY Picked
    <2>2. QED
      BY <2>1 DEF IsSumTable, Pick
  <1>3. (CHOOSE i : i = F(i)) = CHOOSE i : IsSumTable(i, f, T)
    <2> HIDE DEF F, f
    <2>1. QED
      BY <1>2
  <1>4. QED
    BY <1>1, <1>3 DEF SumOver

\* What each line of a cart costs.
LineTotals(c) == [v \in Variants |-> Price[v] * c[v]]

LEMMA PriceFold ==
    ASSUME NEW c, NEW T \in SUBSET Variants
    PROVE  PriceOf(c, T) = SumOver(LineTotals(c), T)
  <1> DEFINE f == LineTotals(c)
             F(i) == [A \in SUBSET T |->
                        IF A = {} THEN 0
                        ELSE Price[CHOOSE x \in A : TRUE] * c[CHOOSE x \in A : TRUE]
                               + i[A \ {CHOOSE x \in A : TRUE}]]
  <1>1. PriceOf(c, T) = (CHOOSE i : i = F(i))[T]
    BY DEF PriceOf, MapThenSumSet, MapThenFoldSet
  <1>2. \A i : i = F(i) <=> IsSumTable(i, f, T)
    <2>1. \A A \in SUBSET T : A # {} => /\ Pick(A) \in T
                                        /\ f[Pick(A)] = Price[Pick(A)] * c[Pick(A)]
      BY Picked DEF LineTotals
    <2> HIDE DEF f
    <2>2. QED
      BY <2>1 DEF IsSumTable, Pick
  <1>3. (CHOOSE i : i = F(i)) = CHOOSE i : IsSumTable(i, f, T)
    <2> HIDE DEF F, f
    <2>1. QED
      BY <1>2
  <1>4. QED
    BY <1>1, <1>3 DEF SumOver

\* The units in committed orders and the deltas of the log, as sums, in any state
\* with finitely many of each.
UnitsAreSummed ==
    IsFiniteSet(Placed) =>
        \A v \in Variants :
            UnitsOrdered(v) = SumOver([r \in Placed |-> orders[r].items[v]], Placed)

DeltasAreSummed ==
    IsFiniteSet(inventoryLogs) =>
        \A v \in Variants :
            DeltaLogged(v) = SumOver([l \in LogsFor(v) |-> l.delta], LogsFor(v))

LEMMA UnitsSum == UnitsAreSummed
  BY UnitsFold DEF UnitsAreSummed, UnitsOrdered

LEMMA DeltasSum == DeltasAreSummed
  <1> SUFFICES ASSUME IsFiniteSet(inventoryLogs), NEW v \in Variants
               PROVE  DeltaLogged(v) = SumOver([l \in LogsFor(v) |-> l.delta], LogsFor(v))
    BY DEF DeltasAreSummed
  <1>1. IsFiniteSet(LogsFor(v))
    BY FS_Subset DEF LogsFor
  <1>2. QED
    BY <1>1, DeltaFold DEF DeltaLogged

LEMMA SumsAfterStep == UnitsAreSummed' /\ DeltasAreSummed'
  BY UnitsSum, DeltasSum, PTL
-----------------------------------------------------------------------------
\* A commit writes one order, and one log row for each of its lines.
LEMMA LogsOfFinite ==
    ASSUME NEW r \in Requests, TypeOK
    PROVE  IsFiniteSet(LogsOf(r))
  <1> DEFINE row(v) == [orderId |-> r, variantId |-> v, delta |-> -cart[r][v]]
             f == [v \in Lines(cart[r]) |-> row(v)]
  <1>1. IsFiniteSet(Lines(cart[r]))
    BY OrdersAssumption, FS_Subset DEF Lines
  <1>2. f \in Surjection(Lines(cart[r]), LogsOf(r))
    BY DEF LogsOf, Surjection
  <1> HIDE DEF f
  <1>3. QED
    BY <1>1, <1>2, FS_Surjection

\* The units ordered grow by what the new order lists.
LEMMA CommitAddsUnits ==
    ASSUME TypeOK, ReservationInv, IsFiniteSet(Placed), NEW r \in Requests, Commit(r)
    PROVE  /\ r \notin Placed
           /\ Placed' = Placed \cup {r}
           /\ IsFiniteSet(Placed')
           /\ \A v \in Variants : UnitsOrdered(v)' = UnitsOrdered(v) + cart[r][v]
  <1>1. /\ orders[r] = NoOrder /\ orders' = [orders EXCEPT ![r] = draft[r]]
        /\ draft[r] \in OrderRows /\ draft[r].items = cart[r] /\ draft[r] # NoOrder
    BY CommitTakesItems, NoOrderAssumption
  <1>2. r \notin Placed /\ Placed' = Placed \cup {r}
    BY <1>1 DEF Placed, TypeOK
  <1>3. IsFiniteSet(Placed')
    BY <1>2, FS_AddElement
  <1>4. ASSUME NEW v \in Variants
        PROVE  UnitsOrdered(v)' = UnitsOrdered(v) + cart[r][v]
    <2> DEFINE f == [q \in Placed |-> orders[q].items[v]]
               g == [q \in Placed' |-> orders'[q].items[v]]
    <2>1. UnitsOrdered(v) = SumOver(f, Placed)
      BY UnitsSum DEF UnitsAreSummed
    <2>2. UnitsOrdered(v)' = SumOver(g, Placed')
      BY <1>3, SumsAfterStep DEF UnitsAreSummed
    <2>3. \A q \in Placed : f[q] = g[q] /\ f[q] \in Int
      BY <1>1, <1>2 DEF Placed, TypeOK, OrderRows, Carts
    <2>4. g[r] = cart[r][v] /\ cart[r][v] \in Int
      BY <1>1, <1>2 DEF TypeOK, Carts
    <2>5. \A q \in Placed' : g[q] \in Int
      BY <1>2, <2>3, <2>4
    <2> HIDE DEF f, g
    <2>6. SumOver(g, Placed') = g[r] + SumOver(g, Placed' \ {r})
      BY <1>2, <1>3, <2>5, SumTakeOut
    <2>7. SumOver(g, Placed') = g[r] + SumOver(g, Placed)
      <3>1. Placed' \ {r} = Placed
        BY <1>2
      <3>2. QED
        BY <2>6, <3>1, Zenon
    <2>8. SumOver(g, Placed) = SumOver(f, Placed)
      BY <2>3, SumSameTerms
    <2>9. SumOver(f, Placed) \in Int
      BY <2>3, SumIsInteger
    <2>10. QED
      BY <2>1, <2>2, <2>4, <2>7, <2>8, <2>9
  <1>5. QED
    BY <1>2, <1>3, <1>4

\* The log's account of a variant moves by what the new order takes of it.
LEMMA CommitAddsDeltas ==
    ASSUME TypeOK, ReservationInv, LedgerInv, NEW r \in Requests, Commit(r)
    PROVE  /\ IsFiniteSet(inventoryLogs')
           /\ \A v \in Variants : DeltaLogged(v)' = DeltaLogged(v) - cart[r][v]
  <1>1. inventoryLogs' = inventoryLogs \cup LogsOf(r) /\ IsFiniteSet(inventoryLogs)
    BY DEF Commit, LedgerInv
  <1>2. IsFiniteSet(inventoryLogs')
    BY <1>1, LogsOfFinite, FS_Union
  <1>3. ASSUME NEW v \in Variants
        PROVE  DeltaLogged(v)' = DeltaLogged(v) - cart[r][v]
    <2> DEFINE f == [l \in LogsFor(v) |-> l.delta]
               g == [l \in LogsFor(v)' |-> l.delta]
               row == [orderId |-> r, variantId |-> v, delta |-> -cart[r][v]]
    <2>1. DeltaLogged(v) = SumOver(f, LogsFor(v))
      BY <1>1, DeltasSum DEF DeltasAreSummed
    <2>2. DeltaLogged(v)' = SumOver(g, LogsFor(v)')
      BY <1>2, SumsAfterStep DEF DeltasAreSummed
    <2>3. IsFiniteSet(LogsFor(v)) /\ IsFiniteSet(LogsFor(v)')
      BY <1>1, <1>2, FS_Subset DEF LogsFor
    <2>4. cart[r][v] \in Nat
      BY DEF TypeOK, Carts
    <2>5. \A l \in LogsFor(v) : f[l] \in Int
      BY DEF LogsFor, TypeOK, LogRows
    <2>6. SumOver(f, LogsFor(v)) \in Int
      <3> HIDE DEF f
      <3>1. QED
        BY <2>3, <2>5, SumIsInteger
    <2>7. CASE v \notin Lines(cart[r])
      <3>1. LogsFor(v)' = LogsFor(v) /\ cart[r][v] = 0
        BY <1>1, <2>4, <2>7 DEF LogsFor, LogsOf, Lines
      <3>2. f = g
        BY <3>1
      <3> HIDE DEF f, g
      <3>3. QED
        BY <2>1, <2>2, <2>6, <3>1, <3>2
    <2>8. CASE v \in Lines(cart[r])
      <3>1. LogsFor(v)' = LogsFor(v) \cup {row}
        BY <1>1, <2>8 DEF LogsFor, LogsOf
      <3>2. row \notin LogsFor(v)
        <4>1. r \notin Placed
          BY CommitAddsUnits DEF LedgerInv
        <4>2. QED
          BY <4>1 DEF LogsFor, LedgerInv
      <3>3. \A l \in LogsFor(v) : f[l] = g[l]
        BY <3>1
      <3>4. g[row] = -cart[r][v] /\ row \in LogsFor(v)'
        BY <3>1
      <3>5. \A l \in LogsFor(v)' : g[l] \in Int
        BY <2>4, <2>5, <3>1, <3>3, <3>4
      <3>6. LogsFor(v)' \ {row} = LogsFor(v)
        BY <3>1, <3>2
      <3> HIDE DEF f, g, row
      <3>7. SumOver(g, LogsFor(v)') = g[row] + SumOver(g, LogsFor(v)' \ {row})
        BY <2>3, <3>4, <3>5, SumTakeOut
      <3>8. SumOver(g, LogsFor(v)) = SumOver(f, LogsFor(v))
        BY <2>3, <3>3, SumSameTerms
      <3>9. QED
        BY <2>1, <2>2, <2>4, <2>6, <3>4, <3>6, <3>7, <3>8
    <2>9. QED
      BY <2>7, <2>8
  <1>4. QED
    BY <1>2, <1>3

LEMMA LedgerInit == Init => LedgerInv
  <1> SUFFICES ASSUME Init PROVE LedgerInv
    OBVIOUS
  <1>1. Placed = {} /\ inventoryLogs = {}
    BY DEF Init, Placed
  <1>2. IsFiniteSet(Placed) /\ IsFiniteSet(inventoryLogs)
    BY <1>1, FS_EmptySet
  <1>3. ASSUME NEW v \in Variants
        PROVE  UnitsOrdered(v) = 0 /\ DeltaLogged(v) = 0
    <2>1. LogsFor(v) = {}
      BY <1>1 DEF LogsFor
    <2>2. /\ UnitsOrdered(v) = SumOver([r \in Placed |-> orders[r].items[v]], {})
          /\ DeltaLogged(v) = SumOver([l \in LogsFor(v) |-> l.delta], {})
      BY <1>1, <1>2, <2>1, UnitsSum, DeltasSum DEF UnitsAreSummed, DeltasAreSummed
    <2>3. QED
      BY <2>2, SumUnfold, FS_EmptySet
  <1>4. OrdersWithinStock /\ AuditTrailExplainsStock
    BY <1>3, OrdersAssumption DEF Init, OrdersWithinStock, AuditTrailExplainsStock
  <1>5. QED
    BY <1>1, <1>2, <1>4 DEF LedgerInv

LEMMA LedgerStep == TypeOK /\ ReservationInv /\ LedgerInv /\ [Next]_vars => LedgerInv'
  <1> SUFFICES ASSUME TypeOK, ReservationInv, LedgerInv, [Next]_vars PROVE LedgerInv'
    OBVIOUS
  <1>1. CASE ~\E r \in Requests : Commit(r)
    <2>1. UNCHANGED <<inventoryQty, orders, inventoryLogs>>
      BY <1>1 DEF Next, Progress, CartEdit, Submit, ReadCart, SendUpdate, Reserve,
         OutOfStock, CreateOrder, TotalTooLarge, ClearCart, DeadlockVictim, Abort,
         AddItem, UpdateItemQuantity, vars, tables
    <2>2. Placed' = Placed /\ \A v \in Variants : LogsFor(v)' = LogsFor(v)
      BY <2>1 DEF Placed, LogsFor
    <2>3. ASSUME NEW v \in Variants
          PROVE  UnitsOrdered(v)' = UnitsOrdered(v) /\ DeltaLogged(v)' = DeltaLogged(v)
      BY <2>1, <2>2, UnitsSum, DeltasSum, SumsAfterStep
      DEF LedgerInv, UnitsAreSummed, DeltasAreSummed
    <2>4. QED
      BY <2>1, <2>2, <2>3 DEF LedgerInv, OrdersWithinStock, AuditTrailExplainsStock
  <1>2. ASSUME NEW r \in Requests, Commit(r) PROVE LedgerInv'
    <2>1. IsFiniteSet(Placed') /\ IsFiniteSet(inventoryLogs')
      BY <1>2, CommitAddsUnits, CommitAddsDeltas DEF LedgerInv
    <2>2. ASSUME NEW l \in inventoryLogs' PROVE l.orderId \in Placed'
      <3>1. Placed' = Placed \cup {r}
        BY <1>2, CommitAddsUnits DEF LedgerInv
      <3>2. l \in inventoryLogs \/ l.orderId = r
        BY <1>2 DEF Commit, LogsOf
      <3>3. QED
        BY <3>1, <3>2 DEF LedgerInv
    <2>3. ASSUME NEW v \in Variants
          PROVE  /\ Stock[v] - inventoryQty'[v] = UnitsOrdered(v)'
                 /\ inventoryQty'[v] = Stock[v] + DeltaLogged(v)'
      <3>1. /\ inventoryQty'[v] = inventoryQty[v] - cart[r][v]
            /\ UnitsOrdered(v)' = UnitsOrdered(v) + cart[r][v]
            /\ DeltaLogged(v)' = DeltaLogged(v) - cart[r][v]
        BY <1>2, CommitTakesItems, CommitAddsUnits, CommitAddsDeltas DEF LedgerInv
      <3>2. /\ Stock[v] - inventoryQty[v] = UnitsOrdered(v)
            /\ inventoryQty[v] = Stock[v] + DeltaLogged(v)
        BY DEF LedgerInv, OrdersWithinStock, AuditTrailExplainsStock
      <3>3. /\ inventoryQty[v] \in Int /\ Stock[v] \in Int /\ cart[r][v] \in Int
            /\ UnitsOrdered(v) \in Int /\ DeltaLogged(v) \in Int
        <4>1. inventoryQty[v] \in Int /\ Stock[v] \in Int /\ cart[r][v] \in Int
          BY OrdersAssumption DEF TypeOK, Carts
        <4>2. \A q \in Placed : orders[q].items[v] \in Int
          BY DEF TypeOK, Placed, OrderRows, Carts
        <4>3. UnitsOrdered(v) \in Int
          BY <3>2, <4>1
        <4>4. \A l \in LogsFor(v) : l.delta \in Int
          BY DEF TypeOK, LogsFor, LogRows
        <4>5. IsFiniteSet(LogsFor(v))
          BY FS_Subset DEF LedgerInv, LogsFor
        <4>6. DeltaLogged(v) \in Int
          BY <4>4, <4>5, DeltasSum, SumIsInteger DEF LedgerInv, DeltasAreSummed
        <4>7. QED
          BY <4>1, <4>3, <4>6
      <3>4. QED
        BY <3>1, <3>2, <3>3
    <2>4. OrdersWithinStock' /\ AuditTrailExplainsStock'
      <3>1. Stock' = Stock
        OBVIOUS
      <3>2. QED
        BY <2>3, <3>1 DEF OrdersWithinStock, AuditTrailExplainsStock
    <2>5. QED
      BY <2>1, <2>2, <2>4 DEF LedgerInv
  <1>3. QED
    BY <1>1, <1>2

\* The books balance in every state: what has left the stock is in committed
\* orders, and the log accounts for all of it.
THEOREM LedgerBalances == Spec => []LedgerInv
  BY TypeInit, TypeStep, ReservationInit, ReservationStep, LedgerInit, LedgerStep, PTL
  DEF Spec

\* No unit is sold that was not in stock, whatever races with whatever.
COROLLARY SoldWasInStock == Spec => []OrdersWithinStock
  BY LedgerBalances, PTL DEF LedgerInv

\* Every change of stock is in the audit trail.
COROLLARY AuditTrailComplete == Spec => []AuditTrailExplainsStock
  BY LedgerBalances, PTL DEF LedgerInv
-----------------------------------------------------------------------------
\* What the lines of a cart in a set cost, when there are none, with one line
\* more, and in all: variants that are not in the cart cost nothing.
LEMMA PriceOfNone == \A c : PriceOf(c, {}) = 0
  BY PriceFold, SumUnfold, FS_EmptySet

LEMMA LineTotalsType ==
    ASSUME NEW c \in Carts
    PROVE  \A v \in Variants : LineTotals(c)[v] = Price[v] * c[v] /\ LineTotals(c)[v] \in Nat
  BY OrdersAssumption DEF Carts, LineTotals

LEMMA PriceOfOneMore ==
    ASSUME NEW c \in Carts, NEW T \in SUBSET Variants, NEW v \in Variants \ T
    PROVE  PriceOf(c, T \cup {v}) = PriceOf(c, T) + Price[v] * c[v]
  <1> DEFINE f == LineTotals(c)
             U == T \cup {v}
  <1>1. U \in SUBSET Variants /\ IsFiniteSet(U) /\ IsFiniteSet(T) /\ v \in U
    BY OrdersAssumption, FS_Subset
  <1>2. PriceOf(c, U) = SumOver(f, U) /\ PriceOf(c, T) = SumOver(f, T)
    BY <1>1, PriceFold
  <1>3. \A x \in U : f[x] \in Int
    BY <1>1, LineTotalsType
  <1>4. f[v] = Price[v] * c[v] /\ f[v] \in Int
    BY LineTotalsType
  <1>5. U \ {v} = T
    OBVIOUS
  <1> HIDE DEF f, U
  <1>6. SumOver(f, U) = f[v] + SumOver(f, U \ {v})
    BY <1>1, <1>3, SumTakeOut
  <1>7. SumOver(f, U) = f[v] + SumOver(f, T)
    BY <1>5, <1>6, Zenon
  <1>8. SumOver(f, T) \in Int
    BY <1>1, <1>3, <1>5, SumIsInteger
  <1>9. PriceOf(c, U) = PriceOf(c, T) + f[v]
    BY <1>2, <1>4, <1>7, <1>8
  <1>10. QED
    BY <1>4, <1>9 DEF U

LEMMA PriceOfLines ==
    ASSUME NEW c \in Carts
    PROVE  PriceOf(c, Lines(c)) = PriceOf(c, Variants)
  <1> DEFINE f == LineTotals(c)
             T == Lines(c)
  <1>1. T \in SUBSET Variants /\ IsFiniteSet(Variants)
    BY OrdersAssumption DEF Lines
  <1>2. PriceOf(c, T) = SumOver(f, T) /\ PriceOf(c, Variants) = SumOver(f, Variants)
    BY <1>1, PriceFold
  <1>3. \A x \in Variants : f[x] \in Int
    BY LineTotalsType
  <1>4. \A x \in Variants \ T : f[x] = 0
    <2>1. \A x \in Variants \ T : c[x] = 0
      BY DEF Lines, Carts
    <2>2. QED
      BY <2>1, LineTotalsType, OrdersAssumption
  <1> HIDE DEF f, T
  <1>5. SumOver(f, Variants) = SumOver(f, T)
    BY <1>1, <1>3, <1>4, SumWithoutZeros
  <1>6. QED
    BY <1>2, <1>5 DEF T

LEMMA RunningTotalInit == Init => RunningTotalInv
  <1> SUFFICES ASSUME Init PROVE RunningTotalInv
    OBVIOUS
  <1>1. Placed = {}
    BY DEF Init, Placed
  <1>2. QED
    BY <1>1, PriceOfNone DEF Init, RunningTotalInv, TotalIsSumOfItems

\* A transaction that ends has run up nothing, and what it did to the orders is
\* said apart.
LEMMA EndKeepsTotals ==
    ASSUME TypeOK, RunningTotalInv, NEW r \in Requests, NEW outcome \in Answered,
           EndTransaction(r, outcome), TotalIsSumOfItems'
    PROVE  RunningTotalInv'
  <1>1. ASSUME NEW q \in Requests
        PROVE  /\ subtotal'[q] = PriceOf(cart'[q], reserved'[q])
               /\ updating'[q] \notin reserved'[q]
               /\ pc'[q] \in {"clearing", "committing"} => draft'[q].total = subtotal'[q]
    <2>1. CASE q = r
      BY <2>1, PriceOfNone DEF EndTransaction, TypeOK, Answered
    <2>2. CASE q # r
      BY <2>2 DEF EndTransaction, TypeOK, RunningTotalInv
    <2>3. QED
      BY <2>1, <2>2
  <1>2. QED
    BY <1>1 DEF RunningTotalInv

LEMMA SameOrdersSameTotals ==
    ASSUME TotalIsSumOfItems, UNCHANGED orders
    PROVE  TotalIsSumOfItems'
  BY DEF TotalIsSumOfItems, Placed

LEMMA RunningTotalStep ==
    TypeOK /\ ReservationInv /\ RunningTotalInv /\ [Next]_vars => RunningTotalInv'
  <1> SUFFICES ASSUME TypeOK, ReservationInv, RunningTotalInv, [Next]_vars
               PROVE  RunningTotalInv'
    OBVIOUS
  <1> USE SameOrdersSameTotals
  <1>1. ASSUME NEW r \in Requests, Submit(r) PROVE RunningTotalInv'
    BY <1>1 DEF TypeOK, RunningTotalInv, Submit, tables, transaction
  <1>2. ASSUME NEW r \in Requests, ReadCart(r) PROVE RunningTotalInv'
    <2>1. reserved[r] = {} /\ reserved' = reserved /\ subtotal' = subtotal
      BY <1>2 DEF ReservationInv, DraftMatchesReservation, ReadCart, InTransaction
    <2>2. ASSUME NEW q \in Requests
          PROVE  subtotal'[q] = PriceOf(cart'[q], reserved'[q])
      <3>1. CASE q = r
        BY <2>1, <3>1, PriceOfNone DEF RunningTotalInv
      <3>2. CASE q # r
        BY <1>2, <2>1, <3>2 DEF TypeOK, RunningTotalInv, ReadCart
      <3>3. QED
        BY <3>1, <3>2
    <2>3. QED
      BY <1>2, <2>1, <2>2 DEF TypeOK, RunningTotalInv, ReadCart, tables
  <1>3. ASSUME NEW r \in Requests, NEW v \in Variants, SendUpdate(r, v)
        PROVE  RunningTotalInv'
    BY <1>3 DEF TypeOK, RunningTotalInv, SendUpdate, tables
  <1>4. ASSUME NEW r \in Requests, Reserve(r) PROVE RunningTotalInv'
    <2> DEFINE v == updating[r]
    <2>1. v \in Variants \ reserved[r] /\ reserved[r] \in SUBSET Variants /\ cart[r] \in Carts
      BY <1>4 DEF TypeOK, Reserve, RunningTotalInv
    <2>2. subtotal'[r] = PriceOf(cart'[r], reserved'[r])
      <3>1. subtotal'[r] = subtotal[r] + Price[v] * cart[r][v]
        BY <1>4 DEF TypeOK, Reserve, LinePrice
      <3>2. reserved'[r] = reserved[r] \cup {v} /\ cart'[r] = cart[r]
        BY <1>4 DEF TypeOK, Reserve
      <3>3. PriceOf(cart[r], reserved[r] \cup {v}) = PriceOf(cart[r], reserved[r]) + Price[v] * cart[r][v]
        BY <2>1, PriceOfOneMore
      <3>4. subtotal[r] = PriceOf(cart[r], reserved[r])
        BY DEF RunningTotalInv
      <3> HIDE DEF v
      <3>5. QED
        BY <3>1, <3>2, <3>3, <3>4, Zenon
    <2>3. updating'[r] \notin reserved'[r]
      BY <1>4, <2>1, OrdersAssumption DEF TypeOK, Reserve
    <2>4. ASSUME NEW q \in Requests \ {r}
          PROVE  subtotal'[q] = PriceOf(cart'[q], reserved'[q]) /\ updating'[q] \notin reserved'[q]
      BY <1>4 DEF TypeOK, Reserve, RunningTotalInv
    <2>5. ASSUME NEW q \in Requests, pc'[q] \in {"clearing", "committing"}
          PROVE  draft'[q].total = subtotal'[q]
      BY <1>4, <2>5 DEF TypeOK, Reserve, RunningTotalInv
    <2>6. TotalIsSumOfItems'
      BY <1>4 DEF Reserve, RunningTotalInv, tables
    <2>7. QED
      BY <2>2, <2>3, <2>4, <2>5, <2>6 DEF RunningTotalInv
  <1>5. ASSUME NEW r \in Requests, OutOfStock(r) PROVE RunningTotalInv'
    BY <1>5, EndKeepsTotals DEF OutOfStock, RunningTotalInv, tables, Answered
  <1>6. ASSUME NEW r \in Requests, CreateOrder(r) PROVE RunningTotalInv'
    BY <1>6 DEF TypeOK, RunningTotalInv, CreateOrder, tables
  <1>7. ASSUME NEW r \in Requests, TotalTooLarge(r) PROVE RunningTotalInv'
    BY <1>7, EndKeepsTotals DEF TotalTooLarge, RunningTotalInv, tables, Answered
  <1>8. ASSUME NEW r \in Requests, ClearCart(r) PROVE RunningTotalInv'
    BY <1>8 DEF TypeOK, RunningTotalInv, ClearCart, tables
  <1>9. ASSUME NEW r \in Requests, Commit(r) PROVE RunningTotalInv'
    <2>1. /\ orders' = [orders EXCEPT ![r] = draft[r]]
          /\ draft[r].items = cart[r] /\ cart[r] \in Carts
          /\ reserved[r] = Lines(cart[r])
          /\ draft[r].total = subtotal[r]
      BY <1>9 DEF TypeOK, ReservationInv, DraftMatchesReservation, RunningTotalInv,
         Commit, InTransaction
    <2>2. draft[r].total = PriceOf(cart[r], Variants)
      BY <2>1, PriceOfLines DEF RunningTotalInv
    <2>3. TotalIsSumOfItems'
      BY <2>1, <2>2 DEF TypeOK, RunningTotalInv, TotalIsSumOfItems, Placed
    <2>4. QED
      BY <1>9, <2>3, EndKeepsTotals DEF Commit, Answered
  <1>10. ASSUME NEW r \in Requests, Abort(r) PROVE RunningTotalInv'
    BY <1>10, EndKeepsTotals DEF Abort, RunningTotalInv, tables, Answered
  <1>11. ASSUME NEW r \in Requests, DeadlockVictim(r) PROVE RunningTotalInv'
    BY <1>11, EndKeepsTotals DEF DeadlockVictim, RunningTotalInv, tables, Answered
  <1>12. ASSUME NEW u \in Users, CartEdit(u) PROVE RunningTotalInv'
    BY <1>12 DEF CartEdit, AddItem, UpdateItemQuantity, RunningTotalInv, transaction
  <1>13. CASE UNCHANGED vars
    BY <1>13 DEF vars, tables, transaction, RunningTotalInv
  <1>14. QED
    BY <1>1, <1>2, <1>3, <1>4, <1>5, <1>6, <1>7, <1>8, <1>9, <1>10, <1>11, <1>12,
       <1>13
    DEF Next, Progress

\* The running total of a transaction is the price of what it has reserved, and an
\* order is written with it.
THEOREM RunningTotals == Spec => []RunningTotalInv
  BY TypeInit, TypeStep, ReservationInit, ReservationStep, RunningTotalInit,
     RunningTotalStep, PTL
  DEF Spec

\* Every committed order charges the price of the items it lists.
COROLLARY TotalsAddUp == Spec => []TotalIsSumOfItems
  BY RunningTotals, PTL DEF RunningTotalInv
=============================================================================
