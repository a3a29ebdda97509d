----------------------------- MODULE CartProofs -----------------------------
(***************************************************************************)
(* For any number of variants, unknown keys and overlapping requests: the  *)
(* types, the safety properties of Cart, and that it implements            *)
(* ShoppingCart when requests do not overlap.  Then the safety properties  *)
(* of CartPage, for any number of PATCHes, rows and quantities.            *)
(***************************************************************************)
EXTENDS Cart, CartPage, FiniteSetTheorems, TLAPS

\* The steps of addItem, called by itself or by a merge.
AddSteps == {"cart", "insertCart", "item"}

RequestStates ==
    {Idle} \cup AddItems \cup UpdateItems \cup GuestAdds \cup GuestUpdates \cup Merges

\* A request that adds to the guest cart stays within the bound it was let in by; a
\* merge works through the entries it has read, each of them once, and calls addItem
\* for variants only.
InOrder(q) ==
    /\ q \in GuestAdds /\ q.pc = "writeGuest" => q.seen[q.item] + q.n <= MaxGuest
    /\ q \in Merges =>
          /\ q.todo \subseteq Entries(q.seen)
          /\ q.pc \in AddSteps =>
                /\ q.item \in (Variants \cap Entries(q.seen)) \ q.todo
                /\ q.n = q.seen[q.item]

RequestInv == \A r \in Requests : InOrder(req[r])

\* Two rows never have one id.
RowIdsDistinct ==
    \A v, w \in Variants :
        rows[v] # NoRow /\ rows[w] # NoRow /\ rows[v].id = rows[w].id => v = w

\* Of what a merge has added, only lines left or put back are in the guest cart, or yet
\* to be added by the only merge at work.
MergeInv ==
    /\ Merging = {} => Entries(guestCart) \cap moved \subseteq again
    /\ \A r \in Merging : Merging = {r} => LinesLeft(r) \cap moved \subseteq again

-----------------------------------------------------------------------------
(* The states of one request *)

\* The operation and the step tell what a request holds.
LEMMA RequestShape ==
    ASSUME NEW q \in RequestStates
    PROVE  /\ q = Idle <=> q.pc = "idle"
           /\ q.pc \in {"cart", "insertCart"} => q \in AddItems \cup UpdateItems \cup Merges
           /\ q.pc = "item" => q \in AddItems \cup Merges
           /\ q.pc = "write" => q \in UpdateItems
           /\ q.pc = "read" => q \in GuestAdds \cup GuestUpdates \cup Merges
           /\ q.pc = "writeGuest" => q \in GuestAdds \cup GuestUpdates
           /\ q.pc = "line" => q \in Merges
           /\ q \in AddItems => q.op = "addItem"
           /\ q \in UpdateItems => q.op = "updateItem"
           /\ q \in GuestAdds => q.op = "addGuest"
           /\ q \in GuestUpdates => q.op = "updateGuest"
           /\ q \in Merges => q.op = "merge"
  <1> USE DEF Idle, AddItems, UpdateItems, GuestAdds, GuestUpdates, Merges
  <1>1. CASE q = Idle
    BY <1>1
  <1>2. CASE q \in AddItems
    BY <1>2
  <1>3. CASE q \in UpdateItems
    BY <1>3
  <1>4. CASE q \in GuestAdds
    BY <1>4
  <1>5. CASE q \in GuestUpdates
    BY <1>5
  <1>6. CASE q \in Merges
    BY <1>6
  <1>7. QED
    BY <1>1, <1>2, <1>3, <1>4, <1>5, <1>6 DEF RequestStates

\* A request that goes on with addItem, or a merge that is done with it, is in order.
LEMMA NextStep ==
    ASSUME NEW q \in RequestStates, InOrder(q), NEW p
    PROVE  /\ q \in AddItems /\ p \in AddSteps => [q EXCEPT !.pc = p] \in AddItems
           /\ q \in UpdateItems /\ p \in {"insertCart", "write"} =>
                 [q EXCEPT !.pc = p] \in UpdateItems
           /\ q \in Merges /\ q.pc \in AddSteps /\ p \in AddSteps \cup {"line"} =>
                 [q EXCEPT !.pc = p] \in Merges /\ InOrder([q EXCEPT !.pc = p])
  <1>1. ASSUME q \in AddItems, p \in AddSteps
        PROVE  [q EXCEPT !.pc = p] \in AddItems
    BY <1>1 DEF AddItems, AddSteps
  <1>2. ASSUME q \in UpdateItems, p \in {"insertCart", "write"}
        PROVE  [q EXCEPT !.pc = p] \in UpdateItems
    BY <1>2 DEF UpdateItems
  <1>3. ASSUME q \in Merges, q.pc \in AddSteps, p \in AddSteps \cup {"line"}
        PROVE  [q EXCEPT !.pc = p] \in Merges /\ InOrder([q EXCEPT !.pc = p])
    <2>1. [q EXCEPT !.pc = p] \in Merges
      BY <1>3 DEF Merges, AddSteps
    <2>2. /\ [q EXCEPT !.pc = p].todo = q.todo /\ [q EXCEPT !.pc = p].seen = q.seen
          /\ [q EXCEPT !.pc = p].item = q.item /\ [q EXCEPT !.pc = p].n = q.n
          /\ [q EXCEPT !.pc = p].op = "merge"
      BY <1>3 DEF Merges
    <2>3. [q EXCEPT !.pc = p] \notin GuestAdds
      BY <2>2 DEF GuestAdds
    <2> HIDE DEF Merges
    <2>4. QED
      BY <1>3, <2>1, <2>2, <2>3 DEF InOrder
  <1>4. QED
    BY <1>1, <1>2, <1>3

\* A request that is no merge and writes no guest cart is in order.
LEMMA OthersInOrder ==
    /\ InOrder(Idle)
    /\ \A q \in AddItems \cup UpdateItems \cup GuestUpdates : InOrder(q)
    /\ \A q \in GuestAdds : q.pc = "read" => InOrder(q)
  BY DEF InOrder, Idle, AddItems, UpdateItems, GuestUpdates, GuestAdds, Merges

\* A step of one request keeps the others in order.
LEMMA OneRequest ==
    ASSUME TypeOK, RequestInv, NEW r \in Requests, NEW q \in RequestStates, InOrder(q),
           req' = [req EXCEPT ![r] = q]
    PROVE  req' \in [Requests -> RequestStates] /\ RequestInv'
  BY DEF TypeOK, RequestStates, RequestInv

\* What the end of an addItem or an updateItem leaves of the request.
LEMMA FinishedInOrder ==
    ASSUME TypeOK, RequestInv, NEW r \in Requests, req[r].pc \in AddSteps \cup {"write"}
    PROVE  Finished(r) \in RequestStates /\ InOrder(Finished(r))
  <1>1. req[r] \in RequestStates /\ InOrder(req[r])
    BY DEF TypeOK, RequestStates, RequestInv
  <1>2. CASE req[r].op = "merge"
    <2>1. req[r] \in Merges /\ req[r].pc \in AddSteps
      BY <1>1, <1>2, RequestShape DEF AddSteps
    <2>2. QED
      BY <1>1, <1>2, <2>1, NextStep DEF Finished, RequestStates
  <1>3. CASE req[r].op # "merge"
    BY <1>3, OthersInOrder DEF Finished, RequestStates
  <1>4. QED
    BY <1>2, <1>3

\* Every step of a request leaves it in a state of its operation, and in order.
LEMMA RequestsStep ==
    TypeOK /\ RequestInv /\ [Next]_vars =>
        req' \in [Requests -> RequestStates] /\ RequestInv'
  <1> SUFFICES ASSUME TypeOK, RequestInv, [Next]_vars
               PROVE  req' \in [Requests -> RequestStates] /\ RequestInv'
    OBVIOUS
  <1>0. \A r \in Requests : req[r] \in RequestStates /\ InOrder(req[r])
    BY DEF TypeOK, RequestStates, RequestInv
  <1>a. NoQuantities \in Quantities /\ guestCart \in Quantities
    BY CartAssumption DEF NoQuantities, Quantities, TypeOK
  <1>1. ASSUME NEW r \in Requests, AddItem(r)
        PROVE  req' \in [Requests -> RequestStates] /\ RequestInv'
    <2>1. PICK v \in Variants, n \in 1..MaxGuest :
              req' = [req EXCEPT ![r] = [op |-> "addItem", pc |-> "cart", item |-> v, n |-> n]]
      BY <1>1 DEF AddItem, Start
    <2> DEFINE q == [op |-> "addItem", pc |-> "cart", item |-> v, n |-> n]
    <2>2. q \in AddItems
      BY DEF AddItems
    <2> HIDE DEF q
    <2>3. QED
      BY <2>1, <2>2, OthersInOrder, OneRequest DEF RequestStates, q
  <1>2. ASSUME NEW r \in Requests, UpdateItemQuantity(r)
        PROVE  req' \in [Requests -> RequestStates] /\ RequestInv'
    <2>1. PICK i \in RowIds, n \in 0..MaxQuantity :
              req' = [req EXCEPT ![r] = [op |-> "updateItem", pc |-> "cart", item |-> i, n |-> n]]
      BY <1>2 DEF UpdateItemQuantity, Start
    <2> DEFINE q == [op |-> "updateItem", pc |-> "cart", item |-> i, n |-> n]
    <2>2. q \in UpdateItems
      BY DEF UpdateItems
    <2> HIDE DEF q
    <2>3. QED
      BY <2>1, <2>2, OthersInOrder, OneRequest DEF RequestStates, q
  <1>3. ASSUME NEW r \in Requests, AddGuestItem(r)
        PROVE  req' \in [Requests -> RequestStates] /\ RequestInv'
    <2>1. PICK v \in Variants, n \in 1..MaxGuest :
              req' = [req EXCEPT ![r] = [op |-> "addGuest", pc |-> "read", item |-> v,
                                         n |-> n, seen |-> NoQuantities]]
      BY <1>3 DEF AddGuestItem, Start
    <2> DEFINE q == [op |-> "addGuest", pc |-> "read", item |-> v, n |-> n,
                     seen |-> NoQuantities]
    <2>2. q \in GuestAdds /\ q.pc = "read"
      BY <1>a DEF GuestAdds
    <2> HIDE DEF q
    <2>3. QED
      BY <2>1, <2>2, OthersInOrder, OneRequest DEF RequestStates, q
  <1>4. ASSUME NEW r \in Requests, UpdateGuestItemQuantity(r)
        PROVE  req' \in [Requests -> RequestStates] /\ RequestInv'
    <2>1. PICK k \in Keys, n \in 0..MaxGuest :
              req' = [req EXCEPT ![r] = [op |-> "updateGuest", pc |-> "read", item |-> k,
                                         n |-> n, seen |-> NoQuantities]]
      BY <1>4 DEF UpdateGuestItemQuantity, Start
    <2> DEFINE q == [op |-> "updateGuest", pc |-> "read", item |-> k, n |-> n,
                     seen |-> NoQuantities]
    <2>2. q \in GuestUpdates
      BY <1>a DEF GuestUpdates
    <2> HIDE DEF q
    <2>3. QED
      BY <2>1, <2>2, OthersInOrder, OneRequest DEF RequestStates, q
  <1>5. ASSUME NEW r \in Requests, MergeGuestCart(r)
        PROVE  req' \in [Requests -> RequestStates] /\ RequestInv'
    <2> DEFINE k == CHOOSE k \in Keys : TRUE
               q == [op |-> "merge", pc |-> "read", item |-> k, n |-> 0,
                     seen |-> NoQuantities, todo |-> {}]
    <2>1. req' = [req EXCEPT ![r] = q]
      BY <1>5 DEF MergeGuestCart, Start
    <2>2. k \in Keys
      BY CartAssumption DEF Keys
    <2>3. q \in Merges /\ q.pc = "read" /\ q.todo = {} /\ q.op = "merge"
      <3> HIDE DEF k
      <3>1. QED
        BY <1>a, <2>2, CartAssumption DEF Merges
    <2> HIDE DEF q
    <2>4. InOrder(q)
      BY <2>3, RequestShape DEF InOrder, AddSteps, RequestStates
    <2>5. QED
      BY <2>1, <2>3, <2>4, OneRequest DEF RequestStates
  <1>6. ASSUME NEW r \in Requests, SelectCart(r)
        PROVE  req' \in [Requests -> RequestStates] /\ RequestInv'
    <2>1. /\ req[r] \in AddItems \cup UpdateItems \cup Merges
          /\ req[r].pc \in AddSteps
      BY <1>0, <1>6, RequestShape DEF SelectCart, AddSteps
    <2>2. CASE Goto(r, "insertCart")
      <3> DEFINE q == [req[r] EXCEPT !.pc = "insertCart"]
      <3>1. q \in RequestStates /\ InOrder(q)
        BY <1>0, <2>1, NextStep, OthersInOrder DEF RequestStates, AddSteps
      <3>2. req' = [req EXCEPT ![r] = q]
        BY <2>2 DEF Goto, TypeOK
      <3> HIDE DEF q
      <3>3. QED
        BY <3>1, <3>2, OneRequest
    <2>3. CASE Goto(r, "item") /\ req[r].op # "updateItem"
      <3> DEFINE q == [req[r] EXCEPT !.pc = "item"]
      <3>0. req[r] \in AddItems \cup Merges
        BY <1>0, <2>1, <2>3, RequestShape
      <3>1. q \in RequestStates /\ InOrder(q)
        BY <1>0, <2>1, <3>0, NextStep, OthersInOrder DEF RequestStates, AddSteps
      <3>2. req' = [req EXCEPT ![r] = q]
        BY <2>3 DEF Goto, TypeOK
      <3> HIDE DEF q
      <3>3. QED
        BY <3>1, <3>2, OneRequest
    <2>4. CASE Goto(r, "write") /\ req[r].op = "updateItem"
      <3> DEFINE q == [req[r] EXCEPT !.pc = "write"]
      <3>0. req[r] \in UpdateItems
        BY <1>0, <2>1, <2>4, RequestShape
      <3>1. q \in RequestStates /\ InOrder(q)
        BY <1>0, <3>0, NextStep, OthersInOrder DEF RequestStates
      <3>2. req' = [req EXCEPT ![r] = q]
        BY <2>4 DEF Goto, TypeOK
      <3> HIDE DEF q
      <3>3. QED
        BY <3>1, <3>2, OneRequest
    <2>5. CASE Finish(r)
      BY <2>1, <2>5, FinishedInOrder, OneRequest DEF Finish
    <2>6. QED
      BY <1>6, <2>2, <2>3, <2>4, <2>5 DEF SelectCart
  <1>7. ASSUME NEW r \in Requests, InsertCart(r)
        PROVE  req' \in [Requests -> RequestStates] /\ RequestInv'
    <2>1. /\ req[r] \in AddItems \cup UpdateItems \cup Merges
          /\ req[r].pc \in AddSteps
      BY <1>0, <1>7, RequestShape DEF InsertCart, AddSteps
    <2>2. CASE Goto(r, "item") /\ req[r].op # "updateItem"
      <3> DEFINE q == [req[r] EXCEPT !.pc = "item"]
      <3>0. req[r] \in AddItems \cup Merges
        BY <1>0, <2>1, <2>2, RequestShape
      <3>1. q \in RequestStates /\ InOrder(q)
        BY <1>0, <2>1, <3>0, NextStep, OthersInOrder DEF RequestStates, AddSteps
      <3>2. req' = [req EXCEPT ![r] = q]
        BY <2>2 DEF Goto, TypeOK
      <3> HIDE DEF q
      <3>3. QED
        BY <3>1, <3>2, OneRequest
    <2>3. CASE Finish(r)
      BY <2>1, <2>3, FinishedInOrder, OneRequest DEF Finish
    <2>4. QED
      BY <1>7, <2>2, <2>3 DEF InsertCart
  <1>8. ASSUME NEW r \in Requests,
               \/ UpsertItem(r) \/ QuantityTooLarge(r) \/ WriteRow(r) \/ StatementFails(r)
        PROVE  req' \in [Requests -> RequestStates] /\ RequestInv'
    BY <1>8, FinishedInOrder, OneRequest
    DEF UpsertItem, QuantityTooLarge, WriteRow, StatementFails, Finish, AddSteps
  <1>9. ASSUME NEW r \in Requests, ReadGuest(r)
        PROVE  req' \in [Requests -> RequestStates] /\ RequestInv'
    <2>1. req[r] \in GuestAdds \cup GuestUpdates \cup Merges
      BY <1>0, <1>9, RequestShape DEF ReadGuest
    <2>2. CASE req[r] \in Merges
      <3> DEFINE q == [req[r] EXCEPT !.pc = "line", !.seen = guestCart,
                                     !.todo = Entries(guestCart)]
      <3>1. /\ q \in Merges /\ q.pc = "line" /\ q.todo = Entries(q.seen) /\ q.op = "merge"
        BY <2>2, <1>a DEF Merges, Entries
      <3>2. req' = [req EXCEPT ![r] = q]
        BY <1>0, <1>9, <2>2, RequestShape DEF ReadGuest, TypeOK
      <3> HIDE DEF q
      <3>3. InOrder(q)
        BY <3>1, RequestShape DEF InOrder, AddSteps, RequestStates
      <3>4. QED
        BY <3>1, <3>2, <3>3, OneRequest DEF RequestStates
    <2>3. CASE req[r] \in GuestAdds
      <3> DEFINE q == [req[r] EXCEPT !.pc = "writeGuest", !.seen = guestCart]
      <3>1. /\ q \in GuestAdds /\ q.op = "addGuest"
            /\ q.item = req[r].item /\ q.n = req[r].n /\ q.seen = guestCart
        BY <2>3, <1>a DEF GuestAdds
      <3>2. req[r].op = "addGuest"
        BY <2>3 DEF GuestAdds
      <3>3. req' = [req EXCEPT ![r] = q]
        BY <1>9, <3>2 DEF ReadGuest, TypeOK
      <3>4. guestCart[req[r].item] + req[r].n <= MaxGuest
        BY <1>9, <3>2 DEF ReadGuest
      <3> HIDE DEF q
      <3>5. InOrder(q)
        BY <3>1, <3>4, RequestShape DEF InOrder, RequestStates
      <3>6. QED
        BY <3>1, <3>3, <3>5, OneRequest DEF RequestStates
    <2>4. CASE req[r] \in GuestUpdates
      <3> DEFINE q == [req[r] EXCEPT !.pc = "writeGuest", !.seen = guestCart]
      <3>1. q \in GuestUpdates
        BY <2>4, <1>a DEF GuestUpdates
      <3>2. req' = [req EXCEPT ![r] = q]
        BY <1>0, <1>9, <2>4, RequestShape DEF ReadGuest, TypeOK
      <3> HIDE DEF q
      <3>3. QED
        BY <3>1, <3>2, OthersInOrder, OneRequest DEF RequestStates
    <2>5. QED
      BY <2>1, <2>2, <2>3, <2>4
  <1>10. ASSUME NEW r \in Requests, WriteGuest(r) \/ ClearGuest(r) \/ RequestFails(r)
         PROVE  req' \in [Requests -> RequestStates] /\ RequestInv'
    BY <1>10, OthersInOrder, OneRequest
    DEF WriteGuest, ClearGuest, RequestFails, RequestStates
  <1>11. ASSUME NEW r \in Requests, NEW k \in Keys, NextLine(r, k)
         PROVE  req' \in [Requests -> RequestStates] /\ RequestInv'
    <2>1. req[r] \in Merges /\ k \in req[r].todo
      BY <1>0, <1>11, RequestShape DEF NextLine
    <2> DEFINE q == [req[r] EXCEPT !.todo = req[r].todo \ {k}, !.item = k,
                                   !.n = req[r].seen[k],
                                   !.pc = IF k \in Variants THEN "cart" ELSE "line"]
    <2>2. req[r].seen[k] \in 0..MaxGuest
      BY <2>1 DEF Merges, Quantities
    <2>3. /\ q \in Merges /\ q.op = "merge" /\ q.item = k /\ q.seen = req[r].seen
          /\ q.n = q.seen[k] /\ q.todo = req[r].todo \ {k}
          /\ q.pc = IF k \in Variants THEN "cart" ELSE "line"
      BY <2>1, <2>2 DEF Merges
    <2>4. req' = [req EXCEPT ![r] = q]
      BY <1>11 DEF NextLine, TypeOK
    <2>5. req[r].todo \subseteq Entries(req[r].seen)
      BY <1>0, <2>1 DEF InOrder
    <2> HIDE DEF q
    <2>6. InOrder(q)
      BY <2>1, <2>3, <2>5, RequestShape DEF InOrder, AddSteps, RequestStates
    <2>7. QED
      BY <2>3, <2>4, <2>6, OneRequest DEF RequestStates
  <1>12. CASE CheckOut \/ Expire \/ UNCHANGED vars
    BY <1>12 DEF CheckOut, Expire, vars, TypeOK, RequestStates, RequestInv
  <1>13. QED
    BY <1>1, <1>2, <1>3, <1>4, <1>5, <1>6, <1>7, <1>8, <1>9, <1>10, <1>11, <1>12
    DEF Next, Arrive, Work
-----------------------------------------------------------------------------
(* The rows *)

\* The ids in use are fewer than the ids there are: one for each row, one for each
\* request that remembers one.
LEMMA NewIdExists == ASSUME TypeOK PROVE \E i \in RowIds : IsNewId(i)
  <1> DEFINE held == {v \in Variants : rows[v] # NoRow}
             busy == {r \in Requests : req[r] # Idle}
             idOf == [v \in held |-> rows[v].id]
             itemOf == [r \in busy |-> req[r].item]
             ids == {idOf[v] : v \in held}
             items == {itemOf[r] : r \in busy}
  <1>1. /\ IsFiniteSet(held) /\ Cardinality(held) <= Cardinality(Variants)
        /\ IsFiniteSet(busy) /\ Cardinality(busy) <= Cardinality(Requests)
    BY CartAssumption, FS_Subset
  <1>2. IsFiniteSet(ids) /\ Cardinality(ids) <= Cardinality(held)
    <2>1. idOf \in Surjection(held, ids)
      BY DEF Surjection
    <2> HIDE DEF idOf, ids, held
    <2>2. QED
      BY <1>1, <2>1, FS_Surjection
  <1>3. IsFiniteSet(items) /\ Cardinality(items) <= Cardinality(busy)
    <2>1. itemOf \in Surjection(busy, items)
      BY DEF Surjection
    <2> HIDE DEF itemOf, items, busy
    <2>2. QED
      BY <1>1, <2>1, FS_Surjection
  <1>4. /\ IsFiniteSet(ids \cup items)
        /\ Cardinality(ids \cup items) <= Cardinality(Variants) + Cardinality(Requests)
    <2> HIDE DEF ids, items, held, busy
    <2>1. /\ IsFiniteSet(ids \cap items) /\ IsFiniteSet(ids \cup items)
          /\ Cardinality(ids \cup items) =
                Cardinality(ids) + Cardinality(items) - Cardinality(ids \cap items)
      BY <1>2, <1>3, FS_Union, FS_Subset
    <2>2. /\ Cardinality(ids) \in Nat /\ Cardinality(items) \in Nat
          /\ Cardinality(ids \cap items) \in Nat /\ Cardinality(held) \in Nat
          /\ Cardinality(busy) \in Nat /\ Cardinality(Variants) \in Nat
          /\ Cardinality(Requests) \in Nat
      BY <1>1, <1>2, <1>3, <2>1, CartAssumption, FS_CardinalityType
    <2>3. QED
      BY <1>1, <1>2, <1>3, <2>1, <2>2
  <1>5. \E i \in RowIds : i \notin ids \cup items
    <2> HIDE DEF ids, items
    <2>1. SUFFICES ASSUME RowIds \subseteq ids \cup items PROVE FALSE
      OBVIOUS
    <2>2. IsFiniteSet(RowIds) /\ Cardinality(RowIds) <= Cardinality(ids \cup items)
      BY <1>4, <2>1, FS_Subset
    <2>3. Cardinality(RowIds) \in Nat /\ Cardinality(ids \cup items) \in Nat
      BY <1>4, <2>2, FS_CardinalityType
    <2>4. Cardinality(Variants) \in Nat /\ Cardinality(Requests) \in Nat
      BY CartAssumption, FS_CardinalityType
    <2>5. QED
      BY <1>4, <2>2, <2>3, <2>4, CartAssumption
  <1>6. PICK i \in RowIds : i \notin ids \cup items
    BY <1>5
  <1>7. RowOf(i) = {}
    BY <1>6 DEF RowOf
  <1>8. \A r \in Requests : req[r] # Idle => req[r].item # i
    BY <1>6
  <1>9. QED
    BY <1>7, <1>8 DEF IsNewId

\* A row's units are a number, of a row that is there at least one.
LEMMA QuantityType ==
    ASSUME TypeOK, NEW v \in Variants
    PROVE  /\ Quantity(v) \in 0..MaxQuantity
           /\ rows[v] # NoRow => rows[v] \in Rows /\ Quantity(v) = rows[v].quantity
           /\ rows[v] # NoRow <=> Quantity(v) > 0
  BY CartAssumption DEF TypeOK, Quantity, Rows

\* What the item's upsert does to the row of its variant: it keeps its id, or has one
\* no row has, and holds the sum.
LEMMA Upserted ==
    ASSUME TypeOK, RequestInv, RowIdsDistinct, NEW r \in Requests, UpsertItem(r)
    PROVE  /\ req[r] \in AddItems \cup Merges
           /\ req[r].item \in Variants
           /\ req[r].n \in 1..MaxGuest
           /\ \E row \in Rows :
                 /\ rows' = [rows EXCEPT ![req[r].item] = row]
                 /\ row.quantity = Quantity(req[r].item) + req[r].n
                 /\ \A w \in Variants \ {req[r].item} : rows[w] # NoRow => rows[w].id # row.id
  <1> DEFINE v == req[r].item
             id == IF rows[v] = NoRow THEN CHOOSE i \in RowIds : IsNewId(i) ELSE rows[v].id
             row == [id |-> id, quantity |-> Increment(r)]
  <1>1. req[r] \in RequestStates /\ InOrder(req[r]) /\ req[r].pc = "item"
    BY DEF TypeOK, RequestStates, RequestInv, UpsertItem
  <1>2. req[r] \in AddItems \cup Merges
    BY <1>1, RequestShape
  <1>3. v \in Variants /\ req[r].n \in 1..MaxGuest
    <2>1. CASE req[r] \in AddItems
      BY <2>1 DEF AddItems
    <2>2. CASE req[r] \in Merges
      <3>1. v \in Variants /\ v \in Entries(req[r].seen) /\ req[r].n = req[r].seen[v]
        BY <1>1, <2>2 DEF InOrder, AddSteps
      <3>2. req[r].seen \in Quantities
        BY <2>2 DEF Merges
      <3>3. QED
        BY <3>1, <3>2, CartAssumption DEF Entries, Quantities
    <2>3. QED
      BY <1>2, <2>1, <2>2
  <1>4. id \in RowIds /\ \A w \in Variants \ {v} : rows[w] # NoRow => rows[w].id # id
    <2>1. CASE rows[v] # NoRow
      BY <1>3, <2>1, QuantityType DEF Rows, RowIdsDistinct
    <2>2. CASE rows[v] = NoRow
      <3> DEFINE i == CHOOSE i \in RowIds : IsNewId(i)
      <3>1. i \in RowIds /\ IsNewId(i)
        BY NewIdExists
      <3> HIDE DEF i
      <3>2. \A w \in Variants : rows[w] # NoRow => rows[w].id # i
        BY <3>1 DEF IsNewId, RowOf
      <3>3. id = i
        BY <2>2 DEF i
      <3> HIDE DEF id
      <3>4. QED
        BY <3>1, <3>2, <3>3
    <2>3. QED
      BY <2>1, <2>2
  <1>5. Quantity(v) + req[r].n \in 1..MaxQuantity
    <2>1. Quantity(v) + req[r].n <= MaxQuantity
      BY DEF UpsertItem
    <2>2. QED
      BY <1>3, <2>1, QuantityType, CartAssumption
  <1>6. rows' = [rows EXCEPT ![v] = row]
    BY DEF UpsertItem
  <1> HIDE DEF id
  <1>7. row \in Rows /\ row.quantity = Quantity(v) + req[r].n /\ row.id = id
    BY <1>4, <1>5 DEF Rows, Increment
  <1> HIDE DEF row, v
  <1>8. QED
    BY <1>2, <1>3, <1>4, <1>6, <1>7 DEF v

\* The rows stay typed, their ids distinct, and what was added to them in them.
LEMMA RowsStep ==
    ASSUME TypeOK, RequestInv, RowIdsDistinct, AcknowledgedAddsKept, [Next]_vars
    PROVE  /\ rows' \in [Variants -> Rows \cup {NoRow}]
           /\ acked' \in [Variants -> 0..MaxQuantity]
           /\ RowIdsDistinct'
           /\ AcknowledgedAddsKept'
  <1> DEFINE Goal == /\ rows' \in [Variants -> Rows \cup {NoRow}]
                     /\ acked' \in [Variants -> 0..MaxQuantity]
                     /\ RowIdsDistinct'
                     /\ AcknowledgedAddsKept'
  <1>1. CASE UNCHANGED <<rows, acked>>
    BY <1>1 DEF TypeOK, RowIdsDistinct, AcknowledgedAddsKept, Quantity
  <1>2. ASSUME NEW r \in Requests, UpsertItem(r) PROVE Goal
    <2> DEFINE v == req[r].item
    <2>1. v \in Variants /\ req[r].n \in 1..MaxGuest
      BY <1>2, Upserted
    <2>2. PICK row \in Rows :
             /\ rows' = [rows EXCEPT ![v] = row]
             /\ row.quantity = Quantity(v) + req[r].n
             /\ \A w \in Variants \ {v} : rows[w] # NoRow => rows[w].id # row.id
      BY <1>2, Upserted
    <2>3. acked' = [acked EXCEPT ![v] = acked[v] + req[r].n]
      BY <1>2, <2>1 DEF UpsertItem, TypeOK
    <2>4. /\ acked[v] \in Nat /\ Quantity(v) \in Nat /\ acked[v] <= Quantity(v)
          /\ row.quantity <= MaxQuantity
      BY <2>1, QuantityType DEF TypeOK, AcknowledgedAddsKept, Rows
    <2> HIDE DEF v
    <2>5. rows' \in [Variants -> Rows \cup {NoRow}]
      BY <2>2 DEF TypeOK
    <2>6. acked' \in [Variants -> 0..MaxQuantity]
      <3>1. acked[v] + req[r].n \in 0..MaxQuantity
        BY <2>1, <2>2, <2>4, CartAssumption
      <3>2. QED
        BY <2>3, <3>1 DEF TypeOK
    <2>7. RowIdsDistinct'
      BY <2>1, <2>2 DEF TypeOK, RowIdsDistinct
    <2>8. ASSUME NEW w \in Variants PROVE Quantity(w)' >= acked'[w]
      <3>1. CASE w = v
        <4>1. Quantity(w)' = row.quantity /\ acked'[w] = acked[v] + req[r].n
          BY <2>1, <2>2, <2>3, <3>1, NoRowAssumption DEF TypeOK, Quantity
        <4>2. QED
          BY <2>1, <2>2, <2>4, <4>1
      <3>2. CASE w # v
        BY <2>2, <2>3, <3>2 DEF TypeOK, Quantity, AcknowledgedAddsKept
      <3>3. QED
        BY <3>1, <3>2
    <2>9. QED
      BY <2>5, <2>6, <2>7, <2>8 DEF AcknowledgedAddsKept
  <1>3. ASSUME NEW r \in Requests, WriteRow(r) PROVE Goal
    <2>1. req[r] \in UpdateItems /\ req[r].n \in 0..MaxQuantity
      <3>1. req[r] \in UpdateItems
        BY <1>3, RequestShape DEF WriteRow, TypeOK, RequestStates
      <3>2. QED
        BY <3>1 DEF UpdateItems
    <2>2. ASSUME NEW v \in Variants
          PROVE  \/ rows'[v] = rows[v] /\ acked'[v] = acked[v]
                 \/ rows'[v] = NoRow /\ acked'[v] = 0
                 \/ /\ rows'[v] \in Rows /\ rows[v] \in Rows
                    /\ rows'[v].id = rows[v].id /\ acked'[v] = 0
      <3>1. CASE v \notin Target(r)
        BY <1>3, <3>1 DEF WriteRow
      <3>2. CASE v \in Target(r) /\ req[r].n = 0
        BY <1>3, <3>2 DEF WriteRow
      <3>3. CASE v \in Target(r) /\ req[r].n # 0
        <4>1. /\ rows[v] \in Rows
              /\ rows'[v] = [rows[v] EXCEPT !.quantity = req[r].n] /\ acked'[v] = 0
          BY <1>3, <3>3, QuantityType DEF WriteRow, Target, RowOf
        <4>2. req[r].n \in 1..MaxQuantity
          BY <2>1, <3>3, CartAssumption
        <4>3. QED
          BY <4>1, <4>2 DEF Rows
      <3>4. QED
        BY <3>1, <3>2, <3>3
    <2>3. rows' \in [Variants -> Rows \cup {NoRow}]
      <3>1. rows' = [v \in Variants |-> rows'[v]]
        BY <1>3 DEF WriteRow
      <3>2. QED
        BY <2>2, <3>1 DEF TypeOK
    <2>4. acked' \in [Variants -> 0..MaxQuantity]
      <3>1. acked' = [v \in Variants |-> acked'[v]]
        BY <1>3 DEF WriteRow
      <3>2. QED
        BY <2>2, <3>1, CartAssumption DEF TypeOK
    <2>5. RowIdsDistinct'
      BY <2>2, NoRowAssumption DEF RowIdsDistinct
    <2>6. AcknowledgedAddsKept'
      <3>1. ASSUME NEW v \in Variants PROVE Quantity(v)' >= acked'[v]
        BY <2>2, QuantityType, CartAssumption, NoRowAssumption
        DEF AcknowledgedAddsKept, Quantity, Rows, TypeOK
      <3>2. QED
        BY <3>1 DEF AcknowledgedAddsKept
    <2>7. QED
      BY <2>3, <2>4, <2>5, <2>6
  <1>4. CASE CheckOut
    BY <1>4, CartAssumption DEF CheckOut, RowIdsDistinct, AcknowledgedAddsKept, Quantity
  <1>5. QED
    BY <1>1, <1>2, <1>3, <1>4
    DEF Next, Arrive, Work, AddItem, UpdateItemQuantity, AddGuestItem,
        UpdateGuestItemQuantity, MergeGuestCart, Start, SelectCart, InsertCart,
        QuantityTooLarge, ReadGuest, WriteGuest, NextLine, ClearGuest, StatementFails,
        RequestFails, Expire, vars
-----------------------------------------------------------------------------
(* The whole state *)

\* A guest cart stays within its bound.
LEMMA GuestCartStep ==
    ASSUME TypeOK, RequestInv, [Next]_vars
    PROVE  guestCart' \in Quantities
  <1>1. CASE UNCHANGED guestCart
    BY <1>1 DEF TypeOK
  <1>2. CASE guestCart' = NoQuantities
    BY <1>2, CartAssumption DEF NoQuantities, Quantities
  <1>3. ASSUME NEW r \in Requests, WriteGuest(r) PROVE guestCart' \in Quantities
    <2>1. req[r] \in GuestAdds \cup GuestUpdates /\ InOrder(req[r]) /\ req[r].pc = "writeGuest"
      BY <1>3, RequestShape DEF WriteGuest, TypeOK, RequestStates, RequestInv
    <2>2. CASE req[r] \in GuestAdds
      <3>1. /\ req[r].op = "addGuest" /\ req[r].seen \in Quantities
            /\ req[r].item \in Keys /\ req[r].n \in 1..MaxGuest
        BY <2>2 DEF GuestAdds, Keys
      <3>2. req[r].seen[req[r].item] + req[r].n <= MaxGuest
        BY <2>1, <2>2 DEF InOrder
      <3>3. req[r].seen[req[r].item] + req[r].n \in 0..MaxGuest
        BY <3>1, <3>2, CartAssumption DEF Quantities
      <3>4. QED
        BY <1>3, <3>1, <3>3 DEF WriteGuest, Quantities
    <2>3. CASE req[r] \in GuestUpdates
      <3>1. /\ req[r].op = "updateGuest" /\ req[r].seen \in Quantities
            /\ req[r].item \in Keys /\ req[r].n \in 0..MaxGuest
        BY <2>3 DEF GuestUpdates
      <3>2. QED
        BY <1>3, <3>1 DEF WriteGuest, Quantities
    <2>4. QED
      BY <2>1, <2>2, <2>3
  <1>4. QED
    BY <1>1, <1>2, <1>3
    DEF Next, Arrive, Work, AddItem, UpdateItemQuantity, AddGuestItem,
        UpdateGuestItemQuantity, MergeGuestCart, Start, SelectCart, InsertCart, UpsertItem,
        QuantityTooLarge, WriteRow, ReadGuest, NextLine, ClearGuest, StatementFails,
        RequestFails, CheckOut, Expire, vars

\* The history of a merge names keys only.
LEMMA MovedStep ==
    ASSUME TypeOK, RequestInv, RowIdsDistinct, [Next]_vars
    PROVE  cartExists' \in BOOLEAN /\ moved' \in SUBSET Keys /\ again' \in SUBSET moved'
  <1>1. ASSUME NEW r \in Requests, UpsertItem(r)
        PROVE  cartExists' \in BOOLEAN /\ moved' \in SUBSET Keys /\ again' \in SUBSET moved'
    <2>1. req[r].item \in Keys
      BY <1>1, Upserted DEF Keys
    <2>2. QED
      BY <1>1, <2>1 DEF UpsertItem, TypeOK
  <1>2. ASSUME NEW r \in Requests, WriteGuest(r) \/ ClearGuest(r) \/ RequestFails(r)
        PROVE  cartExists' \in BOOLEAN /\ moved' \in SUBSET Keys /\ again' \in SUBSET moved'
    BY <1>2 DEF WriteGuest, BroughtBack, ClearGuest, RequestFails, TypeOK
  <1>3. QED
    BY <1>1, <1>2
    DEF TypeOK, Next, Arrive, Work, AddItem, UpdateItemQuantity, AddGuestItem,
        UpdateGuestItemQuantity, MergeGuestCart, Start, SelectCart, InsertCart,
        QuantityTooLarge, WriteRow, ReadGuest, NextLine, StatementFails, CheckOut,
        Expire, vars, history

\* What every step keeps, of the types, the requests and the rows.
RowsInv == TypeOK /\ RequestInv /\ RowIdsDistinct /\ AcknowledgedAddsKept

LEMMA RowsInvInit == Init => RowsInv
  <1> SUFFICES ASSUME Init PROVE RowsInv
    OBVIOUS
  <1>1. TypeOK
    <2>1. req \in [Requests -> RequestStates]
      BY DEF Init, RequestStates
    <2>2. guestCart \in Quantities /\ acked \in [Variants -> 0..MaxQuantity]
      BY CartAssumption DEF Init, NoQuantities, Quantities
    <2>3. rows \in [Variants -> Rows \cup {NoRow}]
      BY DEF Init
    <2>4. QED
      BY <2>1, <2>2, <2>3 DEF Init, TypeOK, RequestStates
  <1>2. RequestInv
    BY OthersInOrder DEF Init, RequestInv
  <1>3. RowIdsDistinct /\ AcknowledgedAddsKept
    BY DEF Init, RowIdsDistinct, AcknowledgedAddsKept, Quantity
  <1>4. QED
    BY <1>1, <1>2, <1>3 DEF RowsInv

\* The types, the requests' order and the rows are one inductive invariant.
LEMMA RowsInvStep == RowsInv /\ [Next]_vars => RowsInv'
  <1> SUFFICES ASSUME RowsInv, [Next]_vars PROVE RowsInv'
    OBVIOUS
  <1> USE DEF RowsInv
  <1>1. req' \in [Requests -> RequestStates] /\ RequestInv'
    BY RequestsStep
  <1>2. /\ rows' \in [Variants -> Rows \cup {NoRow}]
        /\ acked' \in [Variants -> 0..MaxQuantity]
        /\ RowIdsDistinct' /\ AcknowledgedAddsKept'
    BY RowsStep
  <1>3. /\ guestCart' \in Quantities /\ cartExists' \in BOOLEAN
        /\ moved' \in SUBSET Keys /\ again' \in SUBSET moved'
    BY GuestCartStep, MovedStep
  <1>4. QED
    BY <1>1, <1>2, <1>3 DEF TypeOK, RequestStates

LEMMA RowsInvariant == Spec => []RowsInv
  BY RowsInvInit, RowsInvStep, PTL DEF Spec

\* The tables, the guest cart and every request stay well typed, however the requests
\* overlap and fail; a new row always finds an id.
THEOREM CartTypeCorrect == Spec => []TypeOK
  BY RowsInvariant, PTL DEF RowsInv

\* Of requests that add to one row at once, none's units are lost.
THEOREM AddsKept == Spec => []AcknowledgedAddsKept
  BY RowsInvariant, PTL DEF RowsInv
-----------------------------------------------------------------------------
(* Merges *)

\* The merges at work are those past their read.
LEMMA MergingShape ==
    ASSUME TypeOK, NEW r \in Requests
    PROVE  /\ r \in Merging <=> req[r] \in Merges /\ req[r].pc # "read"
           /\ req[r] \in Merges => LinesLeft(r) = req[r].todo \cup
                                     (IF req[r].pc = "line" THEN {} ELSE {req[r].item})
  <1>1. req[r] \in RequestStates
    BY DEF TypeOK, RequestStates
  <1>2. req[r] \in Merges => req[r] # Idle /\ req[r].op = "merge"
    BY <1>1, RequestShape DEF Idle, Merges
  <1>3. req[r] # Idle /\ req[r].op = "merge" => req[r] \in Merges
    BY <1>1, RequestShape DEF RequestStates
  <1>4. QED
    BY <1>2, <1>3 DEF Merging, LinesLeft

MergesShaped ==
    TypeOK => \A r \in Requests : r \in Merging <=> req[r] \in Merges /\ req[r].pc # "read"

LEMMA MergesShapedAlways == MergesShaped /\ MergesShaped'
  <1>1. MergesShaped
    BY MergingShape DEF MergesShaped
  <1>2. QED
    BY <1>1, PTL

\* A step of addItem or updateItem: a merge goes on with its line or is done with it,
\* and no other request becomes a merge.
LEMMA AddStepMoves ==
    ASSUME TypeOK, NEW r \in Requests,
           \/ SelectCart(r) \/ InsertCart(r) \/ UpsertItem(r)
           \/ QuantityTooLarge(r) \/ WriteRow(r) \/ StatementFails(r)
    PROVE  /\ req[r].pc \in AddSteps \cup {"write"}
           /\ \A q \in Requests \ {r} : req'[q] = req[q]
           /\ req[r] \in Merges =>
                 \E p \in AddSteps \cup {"line"} : req'[r] = [req[r] EXCEPT !.pc = p]
           /\ req[r] \notin Merges => req'[r] \notin Merges
  <1>1. req[r].pc \in AddSteps \cup {"write"}
    BY DEF SelectCart, InsertCart, UpsertItem, QuantityTooLarge, WriteRow, StatementFails,
       AddSteps
  <1>2. req[r] \in RequestStates
    BY DEF TypeOK, RequestStates
  <1>3. \/ \E p \in {"insertCart", "item", "write"} :
              Goto(r, p) /\ (p = "write" => req[r].op = "updateItem")
        \/ Finish(r)
    BY DEF SelectCart, InsertCart, UpsertItem, QuantityTooLarge, WriteRow, StatementFails
  <1>4. \A q \in Requests \ {r} : req'[q] = req[q]
    BY <1>3 DEF Goto, Finish, TypeOK
  <1>5. ASSUME req[r] \in Merges
        PROVE  \E p \in AddSteps \cup {"line"} : req'[r] = [req[r] EXCEPT !.pc = p]
    <2>1. req[r].op = "merge"
      BY <1>2, <1>5, RequestShape
    <2>2. QED
      BY <1>3, <2>1 DEF Goto, Finish, Finished, TypeOK, AddSteps
  <1>6. ASSUME req[r] \notin Merges PROVE req'[r] \notin Merges
    <2>1. req[r] \in AddItems \cup UpdateItems
      BY <1>1, <1>2, <1>6, RequestShape DEF AddSteps
    <2>2. req[r].op # "merge"
      BY <1>2, <2>1, RequestShape
    <2>3. \/ req'[r] = Idle
          \/ \E p \in {"insertCart", "item", "write"} : req'[r] = [req[r] EXCEPT !.pc = p]
      BY <1>3, <2>2 DEF Goto, Finish, Finished, TypeOK
    <2>4. \A p : [req[r] EXCEPT !.pc = p].op = req[r].op
      BY <2>1 DEF AddItems, UpdateItems
    <2>5. Idle \notin Merges
      BY DEF Idle, Merges
    <2>6. \A q \in Merges : q.op = "merge"
      BY DEF Merges
    <2>7. QED
      BY <2>2, <2>3, <2>4, <2>5, <2>6
  <1>7. QED
    BY <1>1, <1>4, <1>5, <1>6

\* A merge whose lines only get fewer, while nothing more is moved and the guest cart
\* gains nothing that was, and a request that is none, disturb nobody.
LEMMA MergeGoesOn ==
    ASSUME MergeInv, NEW r \in Requests,
           \A q \in Requests \ {r} : req'[q] = req[q],
           r \in Merging' <=> r \in Merging,
           r \in Merging => LinesLeft(r)' \subseteq LinesLeft(r),
           moved' \ again' \subseteq moved \ again,
           guestCart' # guestCart /\ Merging = {} =>
               Entries(guestCart)' \cap moved' \subseteq again'
    PROVE  MergeInv'
  <1>1. Merging' = Merging
    BY DEF Merging
  <1>2. \A q \in Merging \ {r} : LinesLeft(q)' = LinesLeft(q)
    BY DEF Merging, LinesLeft
  <1>3. guestCart' = guestCart => Entries(guestCart)' = Entries(guestCart)
    BY DEF Entries
  <1>4. QED
    BY <1>1, <1>2, <1>3 DEF MergeInv

\* A merge that is over, and leaves as left what is.
LEMMA MergeEnds ==
    ASSUME MergeInv, NEW r \in Requests,
           \A q \in Requests \ {r} : req'[q] = req[q],
           req'[r] = Idle, moved' = moved, again \subseteq again',
           moved \cap LeftToOthers(r) \subseteq again',
           Entries(guestCart)' \cap moved \subseteq again'
    PROVE  MergeInv'
  <1>1. Merging' = Merging \ {r}
    BY DEF Merging
  <1>2. \A q \in Merging' : LinesLeft(q)' = LinesLeft(q) /\ LinesLeft(q) \subseteq LeftToOthers(r)
    BY <1>1 DEF Merging, LinesLeft, LeftToOthers
  <1>3. QED
    BY <1>1, <1>2 DEF MergeInv

LEMMA MergeInit == Init => MergeInv
  BY DEF Init, MergeInv, Merging, Idle

LEMMA MergeStep == RowsInv /\ MergeInv /\ [Next]_vars => MergeInv'
  <1> SUFFICES ASSUME RowsInv, MergeInv, [Next]_vars PROVE MergeInv'
    OBVIOUS
  <1>0. TypeOK /\ TypeOK' /\ RequestInv /\ RowIdsDistinct
    BY RowsInvStep DEF RowsInv
  <1>a. \A r \in Requests : /\ r \in Merging <=> req[r] \in Merges /\ req[r].pc # "read"
                            /\ r \in Merging' <=> req'[r] \in Merges /\ req'[r].pc # "read"
    BY <1>0, MergesShapedAlways DEF MergesShaped
  <1>b. \A r \in Requests : req[r] \in RequestStates /\ InOrder(req[r])
    BY <1>0 DEF TypeOK, RequestStates, RequestInv
  <1>1. ASSUME NEW r \in Requests, Arrive(r) PROVE MergeInv'
    <2>1. /\ req[r] = Idle /\ UNCHANGED <<guestCart, moved, again>>
          /\ \A q \in Requests \ {r} : req'[q] = req[q]
      BY <1>0, <1>1 DEF Arrive, AddItem, UpdateItemQuantity, AddGuestItem,
         UpdateGuestItemQuantity, MergeGuestCart, Start, TypeOK, history
    <2>2. req'[r].pc = "read" \/ req'[r].op # "merge"
      BY <1>0, <1>1 DEF Arrive, AddItem, UpdateItemQuantity, AddGuestItem,
         UpdateGuestItemQuantity, MergeGuestCart, Start, TypeOK
    <2>3. r \notin Merging /\ r \notin Merging'
      BY <2>1, <2>2 DEF Merging
    <2>4. QED
      BY <2>1, <2>3, MergeGoesOn
  <1>2. ASSUME NEW r \in Requests,
               \/ SelectCart(r) \/ InsertCart(r) \/ QuantityTooLarge(r)
               \/ WriteRow(r) \/ StatementFails(r)
        PROVE  MergeInv'
    <2>1. /\ req[r].pc \in AddSteps \cup {"write"}
          /\ \A q \in Requests \ {r} : req'[q] = req[q]
          /\ req[r] \in Merges =>
                \E p \in AddSteps \cup {"line"} : req'[r] = [req[r] EXCEPT !.pc = p]
          /\ req[r] \notin Merges => req'[r] \notin Merges
      BY <1>0, <1>2, AddStepMoves
    <2>2. UNCHANGED <<guestCart, moved, again>>
      BY <1>2 DEF SelectCart, InsertCart, QuantityTooLarge, WriteRow, StatementFails, history
    <2>3. CASE req[r] \notin Merges
      BY <1>a, <2>1, <2>2, <2>3, MergeGoesOn
    <2>4. CASE req[r] \in Merges
      <3>1. PICK p \in AddSteps \cup {"line"} : req'[r] = [req[r] EXCEPT !.pc = p]
        BY <2>1, <2>4
      <3>2. req[r].pc \in AddSteps
        BY <1>b, <2>1, <2>4, RequestShape DEF AddSteps
      <3>3. /\ req'[r] \in Merges /\ req'[r].pc = p
            /\ req'[r].todo = req[r].todo /\ req'[r].item = req[r].item
        BY <2>4, <3>1 DEF Merges, AddSteps
      <3>4. r \in Merging /\ r \in Merging'
        BY <1>a, <2>4, <3>2, <3>3 DEF AddSteps
      <3>5. LinesLeft(r)' \subseteq LinesLeft(r)
        BY <3>2, <3>3 DEF LinesLeft, AddSteps
      <3>6. QED
        BY <2>1, <2>2, <3>4, <3>5, MergeGoesOn
    <2>5. QED
      BY <2>3, <2>4
  <1>3. ASSUME NEW r \in Requests, UpsertItem(r) PROVE MergeInv'
    <2>1. /\ \A q \in Requests \ {r} : req'[q] = req[q]
          /\ req[r] \notin Merges => req'[r] \notin Merges
      BY <1>0, <1>3, AddStepMoves
    <2>2. CASE req[r] \notin Merges
      <3>1. UNCHANGED <<guestCart, moved, again>>
        BY <1>0, <1>3, <1>b, <2>2, Upserted, RequestShape DEF UpsertItem
      <3>2. QED
        BY <1>a, <2>1, <2>2, <3>1, MergeGoesOn
    <2>3. CASE req[r] \in Merges
      <3>1. req[r].op = "merge" /\ req[r].pc = "item"
        BY <1>3, <1>b, <2>3, RequestShape DEF UpsertItem
      <3>2. req'[r] = [req[r] EXCEPT !.pc = "line"]
        BY <1>0, <1>3, <3>1 DEF UpsertItem, Finish, Finished, TypeOK
      <3>3. /\ req'[r] \in Merges /\ req'[r].pc = "line" /\ req'[r].todo = req[r].todo
        BY <2>3, <3>2 DEF Merges
      <3>4. r \in Merging /\ r \in Merging'
        BY <1>a, <2>3, <3>1, <3>3
      <3>5. Merging' = Merging
        BY <2>1, <3>4 DEF Merging
      <3>6. moved' = moved \cup {req[r].item} /\ again' = again
        BY <1>3, <3>1 DEF UpsertItem
      <3>7. req[r].item \notin req[r].todo
        BY <1>b, <2>3, <3>1 DEF InOrder, AddSteps
      <3>8. LinesLeft(r)' \subseteq LinesLeft(r) \ {req[r].item}
        BY <3>3, <3>7 DEF LinesLeft
      <3>9. QED
        BY <3>4, <3>5, <3>6, <3>8 DEF MergeInv
    <2>4. QED
      BY <2>2, <2>3
  <1>4. ASSUME NEW r \in Requests, ReadGuest(r) PROVE MergeInv'
    <2>1. req[r].pc = "read" /\ UNCHANGED <<guestCart, moved, again>>
      BY <1>4 DEF ReadGuest, history
    <2>2. \A q \in Requests \ {r} : req'[q] = req[q]
      BY <1>0, <1>4 DEF ReadGuest, TypeOK
    <2>3. r \notin Merging
      BY <2>1 DEF Merging
    <2>4. CASE r \notin Merging'
      BY <2>1, <2>2, <2>3, <2>4, MergeGoesOn
    <2>5. CASE r \in Merging'
      <3>1. Merging' = Merging \cup {r}
        BY <2>2, <2>5 DEF Merging
      <3>2. ASSUME NEW q \in Merging', Merging' = {q}
            PROVE  LinesLeft(q)' \cap moved' \subseteq again'
        <4>1. Merging = {} /\ q = r
          BY <2>3, <3>1, <3>2
        <4>2. req[r] \in Merges
          <5>1. SUFFICES ASSUME req[r] \in GuestAdds \cup GuestUpdates PROVE FALSE
            BY <1>b, <2>1, RequestShape
          <5>2. req[r].op # "merge"
            BY <1>b, <5>1, RequestShape
          <5>3. req'[r] = [req[r] EXCEPT !.pc = "writeGuest", !.seen = guestCart]
            BY <1>4, <1>0, <5>2 DEF ReadGuest, TypeOK
          <5>4. req'[r].op = req[r].op
            BY <5>1, <5>3 DEF GuestAdds, GuestUpdates
          <5>5. req'[r].op = "merge"
            BY <1>a, <2>5 DEF Merges
          <5>6. QED
            BY <5>2, <5>4, <5>5
        <4>3. req'[r] = [req[r] EXCEPT !.pc = "line", !.seen = guestCart,
                                       !.todo = Entries(guestCart)]
          BY <1>4, <1>0, <1>b, <4>2, RequestShape DEF ReadGuest, TypeOK
        <4>4. req'[r].pc = "line" /\ req'[r].todo = Entries(guestCart)
          BY <4>2, <4>3 DEF Merges
        <4>5. LinesLeft(q)' = Entries(guestCart)
          BY <4>1, <4>4 DEF LinesLeft
        <4>6. QED
          BY <2>1, <4>1, <4>5 DEF MergeInv
      <3>3. QED
        BY <2>5, <3>2 DEF MergeInv
    <2>6. QED
      BY <2>4, <2>5
  <1>5. ASSUME NEW r \in Requests, NEW k \in Keys, NextLine(r, k) PROVE MergeInv'
    <2>1. req[r] \in Merges /\ req[r].pc = "line" /\ k \in req[r].todo
          /\ UNCHANGED <<guestCart, moved, again>>
      BY <1>5, <1>b, RequestShape DEF NextLine, history
    <2>2. \A q \in Requests \ {r} : req'[q] = req[q]
      BY <1>0, <1>5 DEF NextLine, TypeOK
    <2>3. /\ req'[r] \in Merges /\ req'[r].pc \in {"cart", "line"}
          /\ req'[r].todo = req[r].todo \ {k} /\ req'[r].item = k
      <3>1. req[r].seen[k] \in 0..MaxGuest
        BY <2>1 DEF Merges, Quantities
      <3>2. PICK pc \in {"cart", "line"} :
               req'[r] = [req[r] EXCEPT !.todo = req[r].todo \ {k}, !.item = k,
                                        !.n = req[r].seen[k], !.pc = pc]
        BY <1>0, <1>5 DEF NextLine, TypeOK
      <3>3. QED
        BY <2>1, <3>1, <3>2 DEF Merges
    <2>4. r \in Merging /\ r \in Merging'
      BY <1>a, <2>1, <2>3
    <2>5. LinesLeft(r)' \subseteq LinesLeft(r)
      BY <2>1, <2>3 DEF LinesLeft
    <2>6. QED
      BY <2>1, <2>2, <2>4, <2>5, MergeGoesOn
  <1>6. ASSUME NEW r \in Requests, WriteGuest(r) PROVE MergeInv'
    <2>1. (\A q \in Requests \ {r} : req'[q] = req[q]) /\ req'[r] = Idle
      BY <1>0, <1>6 DEF WriteGuest, TypeOK
    <2>2. r \notin Merging /\ r \notin Merging'
      BY <1>a, <1>b, <1>6, <2>1, RequestShape DEF WriteGuest, Merging
    <2>3. /\ moved' = moved \ NewLine(r)
          /\ again' = (again \ NewLine(r)) \cup (moved \cap BroughtBack(r))
      BY <1>6 DEF WriteGuest
    <2>4. Entries(guestCart)' \subseteq NewLine(r) \cup BroughtBack(r) \cup Entries(guestCart)
      <3>1. req[r] \in GuestAdds \cup GuestUpdates
        BY <1>b, <1>6, RequestShape DEF WriteGuest
      <3>2. /\ req[r].seen \in Quantities /\ req[r].item \in Keys
            /\ req[r].op = "updateGuest" \/ req[r].op = "addGuest"
        BY <3>1 DEF GuestAdds, GuestUpdates, Keys
      <3>3. PICK n : guestCart' = [req[r].seen EXCEPT ![req[r].item] = n]
        BY <1>6 DEF WriteGuest
      <3>4. ASSUME NEW k \in Entries(guestCart)', k \notin NewLine(r)
            PROVE  k \in BroughtBack(r) \cup Entries(guestCart)
        <4>1. k \in Keys /\ guestCart'[k] > 0
          BY <3>4 DEF Entries
        <4>2. k = req[r].item => req[r].seen[k] # 0
          BY <3>4 DEF NewLine
        <4>3. req[r].seen[k] \in Nat
          BY <3>2, <4>1, CartAssumption DEF Quantities
        <4>4. req[r].seen[k] > 0
          BY <3>2, <3>3, <4>1, <4>2, <4>3 DEF Quantities
        <4>5. QED
          BY <3>4, <4>1, <4>4 DEF BroughtBack, Entries
      <3>5. QED
        BY <3>4
    <2>5. moved' \ again' \subseteq moved \ again
      BY <2>3
    <2>6. Merging = {} => Entries(guestCart)' \cap moved' \subseteq again'
      BY <2>3, <2>4 DEF MergeInv
    <2>7. QED
      BY <2>1, <2>2, <2>5, <2>6, MergeGoesOn
  <1>7. ASSUME NEW r \in Requests, RequestFails(r) PROVE MergeInv'
    <2>1. /\ \A q \in Requests \ {r} : req'[q] = req[q]
          /\ req'[r] = Idle /\ UNCHANGED <<guestCart, moved>>
      BY <1>0, <1>7 DEF RequestFails, TypeOK
    <2>2. CASE r \in Merging
      <3>1. again' = again \cup (moved \cap (Entries(guestCart) \cup LeftToOthers(r)))
        BY <1>7, <2>2 DEF RequestFails
      <3>2. Entries(guestCart)' = Entries(guestCart)
        BY <2>1 DEF Entries
      <3>3. QED
        BY <2>1, <3>1, <3>2, MergeEnds
    <2>3. CASE r \notin Merging
      <3>1. again' = again /\ r \notin Merging'
        BY <1>7, <2>1, <2>3 DEF RequestFails, Merging
      <3>2. QED
        BY <2>1, <2>3, <3>1, MergeGoesOn
    <2>4. QED
      BY <2>2, <2>3
  <1>8. ASSUME NEW r \in Requests, ClearGuest(r) PROVE MergeInv'
    <2>1. /\ \A q \in Requests \ {r} : req'[q] = req[q]
          /\ req'[r] = Idle /\ moved' = moved
          /\ again' = again \cup (moved \cap LeftToOthers(r))
          /\ guestCart' = NoQuantities
      BY <1>0, <1>8 DEF ClearGuest, TypeOK
    <2>2. Entries(guestCart)' = {}
      BY <2>1 DEF Entries, NoQuantities
    <2>3. QED
      BY <2>1, <2>2, MergeEnds
  <1>9. CASE Expire
    <2>1. guestCart' = NoQuantities /\ UNCHANGED <<req, moved, again>>
      BY <1>9 DEF Expire, history
    <2>2. Entries(guestCart)' = {}
      BY <2>1 DEF Entries, NoQuantities
    <2>3. QED
      BY <2>1, <2>2 DEF MergeInv, Merging, LinesLeft
  <1>10. CASE UNCHANGED <<req, guestCart, moved, again>>
    BY <1>10 DEF MergeInv, Merging, LinesLeft, Entries
  <1>11. QED
    BY <1>1, <1>2, <1>3, <1>4, <1>5, <1>6, <1>7, <1>8, <1>9, <1>10
    DEF Next, Work, CheckOut, vars, history

LEMMA MergeInvariant == Spec => []MergeInv
  BY RowsInvInit, RowsInvStep, MergeInit, MergeStep, PTL DEF Spec

\* A line of a guest cart goes into the account's cart once, unless two logins merge it
\* together, a merge was cut off, or a guest's request puts it back.
THEOREM MergesOnce == Spec => MergedOnce
  <1>1. MergeInv /\ TypeOK /\ [Next]_vars =>
           [\A r \in Merging :
              UpsertItem(r) => \/ req[r].item \notin moved
                               \/ req[r].item \in again
                               \/ Merging # {r}]_vars
    <2> SUFFICES ASSUME MergeInv, NEW r \in Merging, UpsertItem(r), Merging = {r},
                        req[r].item \in moved
                 PROVE  req[r].item \in again
      OBVIOUS
    <2>1. req[r].item \in LinesLeft(r)
      BY DEF UpsertItem, LinesLeft
    <2>2. QED
      BY <2>1 DEF MergeInv
  <1>2. QED
    BY <1>1, MergeInvariant, RowsInvariant, PTL DEF Spec, MergedOnce, RowsInv
-----------------------------------------------------------------------------
(* Requests one after the other *)

OneAtATime == \A r, q \in Requests : req[r] # Idle /\ req[q] # Idle => r = q

\* A request is alone from its first step to its last, so that what it has read is
\* still so when it acts on it.
QuietInv ==
    /\ OneAtATime
    /\ \A r \in Requests :
          /\ req[r].pc = "insertCart" => ~cartExists
          /\ req[r].pc = "writeGuest" => req[r].seen = guestCart

LEMMA QuietInit == Init => QuietInv
  BY DEF Init, QuietInv, OneAtATime, Idle

\* While one request works, the others are idle, before the step and after it.
LEMMA Alone ==
    ASSUME OneAtATime, NEW r \in Requests, req[r] # Idle,
           \A q \in Requests \ {r} : req'[q] = req[q]
    PROVE  /\ \A q \in Requests \ {r} : req[q] = Idle /\ req'[q] = Idle
           /\ OneAtATime'
  BY DEF OneAtATime

LEMMA IdleStep == Idle.pc = "idle"
  BY DEF Idle

LEMMA QuietStep == Quiet /\ RowsInv /\ QuietInv /\ [Next]_vars => QuietInv'
  <1> SUFFICES ASSUME Quiet, RowsInv, QuietInv, [Next]_vars PROVE QuietInv'
    OBVIOUS
  <1>0. TypeOK /\ \A r \in Requests : req[r] \in RequestStates
    BY DEF RowsInv, TypeOK, RequestStates
  <1> USE DEF QuietInv
  <1>1. ASSUME NEW r \in Requests, Arrive(r) PROVE QuietInv'
    <2>1. /\ AllIdle /\ UNCHANGED <<cartExists, guestCart>>
          /\ \A q \in Requests \ {r} : req'[q] = req[q]
          /\ req'[r].pc \in {"cart", "read"}
      BY <1>0, <1>1 DEF Arrive, AddItem, UpdateItemQuantity, AddGuestItem,
         UpdateGuestItemQuantity, MergeGuestCart, Start, TypeOK
    <2>2. \A q \in Requests \ {r} : req'[q] = Idle
      BY <2>1 DEF AllIdle
    <2>3. QED
      BY <2>1, <2>2, IdleStep DEF OneAtATime
  <1>2. ASSUME NEW r \in Requests, req[r] # Idle,
               \A q \in Requests \ {r} : req'[q] = req[q],
               req'[r].pc = "insertCart" => ~cartExists',
               req'[r].pc = "writeGuest" => req'[r].seen = guestCart'
        PROVE  QuietInv'
    BY <1>2, Alone, IdleStep
  <1>3. ASSUME NEW r \in Requests, SelectCart(r) PROVE QuietInv'
    <2>1. req[r] # Idle /\ \A q \in Requests \ {r} : req'[q] = req[q]
      BY <1>0, <1>3, AddStepMoves, IdleStep DEF AddSteps
    <2>2. /\ cartExists' = cartExists
          /\ \/ ~cartExists
             \/ req'[r].pc \in {"item", "write", "line", "idle"}
      BY <1>0, <1>3, IdleStep DEF SelectCart, Goto, Finish, Finished, TypeOK,
         RequestStates, AddItems, UpdateItems, GuestAdds, GuestUpdates, Merges
    <2>3. req'[r].pc # "writeGuest"
      BY <1>0, <1>3, IdleStep DEF SelectCart, Goto, Finish, Finished, TypeOK,
         RequestStates, AddItems, UpdateItems, GuestAdds, GuestUpdates, Merges
    <2>4. QED
      BY <1>2, <2>1, <2>2, <2>3
  <1>4. ASSUME NEW r \in Requests,
               \/ InsertCart(r) \/ UpsertItem(r) \/ QuantityTooLarge(r) \/ WriteRow(r)
        PROVE  QuietInv'
    <2>1. req[r] # Idle /\ \A q \in Requests \ {r} : req'[q] = req[q]
      BY <1>0, <1>4, AddStepMoves, IdleStep DEF AddSteps
    <2>2. req'[r].pc \in {"item", "line", "idle"}
      BY <1>0, <1>4, IdleStep DEF InsertCart, UpsertItem, QuantityTooLarge, WriteRow,
         Goto, Finish, Finished, TypeOK,
         RequestStates, AddItems, UpdateItems, GuestAdds, GuestUpdates, Merges
    <2>3. QED
      BY <1>2, <2>1, <2>2
  <1>5. ASSUME NEW r \in Requests, ReadGuest(r) PROVE QuietInv'
    <2>1. req[r] # Idle /\ guestCart' = guestCart /\ \A q \in Requests \ {r} : req'[q] = req[q]
      BY <1>0, <1>5, IdleStep DEF ReadGuest, TypeOK
    <2>2. req'[r].pc \in {"line", "writeGuest"} /\ req'[r].seen = guestCart
      <3>1. req[r] \in GuestAdds \cup GuestUpdates \cup Merges
        BY <1>0, <1>5, RequestShape DEF ReadGuest
      <3>2. QED
        BY <1>0, <1>5, <3>1 DEF ReadGuest, TypeOK, GuestAdds, GuestUpdates, Merges
    <2>3. QED
      BY <1>2, <2>1, <2>2
  <1>6. ASSUME NEW r \in Requests, WriteGuest(r) \/ ClearGuest(r) PROVE QuietInv'
    <2>1. /\ req[r] # Idle /\ req'[r] = Idle
          /\ \A q \in Requests \ {r} : req'[q] = req[q]
      BY <1>0, <1>6, IdleStep DEF WriteGuest, ClearGuest, TypeOK
    <2>2. QED
      BY <1>2, <2>1, IdleStep
  <1>7. ASSUME NEW r \in Requests, NEW k \in Keys, NextLine(r, k) PROVE QuietInv'
    <2>1. req[r] # Idle /\ \A q \in Requests \ {r} : req'[q] = req[q]
      BY <1>0, <1>7, IdleStep DEF NextLine, TypeOK
    <2>2. req'[r].pc \in {"cart", "line"}
      <3>1. req[r] \in Merges
        BY <1>0, <1>7, RequestShape DEF NextLine
      <3>2. QED
        BY <1>0, <1>7, <3>1 DEF NextLine, TypeOK, Merges
    <2>3. QED
      BY <1>2, <2>1, <2>2
  <1>8. CASE CheckOut \/ UNCHANGED vars
    BY <1>8 DEF CheckOut, vars, OneAtATime
  <1>9. CASE Expire
    <2>1. /\ \A r \in Requests : req[r] = Idle
          /\ req' = req /\ cartExists' = cartExists
      BY <1>9 DEF Expire, AllIdle
    <2>2. QED
      BY <2>1, IdleStep DEF OneAtATime
  <1>10. QED
    BY <1>1, <1>3, <1>4, <1>5, <1>6, <1>7, <1>8, <1>9
    DEF Next, Work, StatementFails, RequestFails
-----------------------------------------------------------------------------
(* The shopping cart behind the requests *)

Account == [v \in Variants |-> Quantity(v)]

\* The guest cart as a merge at work leaves it to be seen.
ViewOf(r) == [k \in Keys |-> IF k \in LinesLeft(r) THEN req[r].seen[k] ELSE 0]

Views ==
    OneAtATime =>
        /\ Merging = {} => GuestView = guestCart
        /\ \A r \in Merging : Merging = {r} /\ GuestView = ViewOf(r)

\* Without an overlap, the merge at work decides what is seen.
LEMMA ViewsAlways == Views /\ Views'
  <1>1. Views
    <2>1. ASSUME OneAtATime, NEW r \in Merging
          PROVE  Merging = {r} /\ GuestView = ViewOf(r)
      <3>1. Merging = {r}
        BY <2>1 DEF OneAtATime, Merging
      <3>2. (CHOOSE q \in Merging : TRUE) = r
        BY <3>1
      <3>3. QED
        BY <3>1, <3>2 DEF GuestView, ViewOf
    <2>2. QED
      BY <2>1 DEF Views, GuestView
  <1>2. QED
    BY <1>1, PTL

\* The row of a variant decides what the account holds of it.
LEMMA AccountAfter ==
    ASSUME TypeOK, NEW v \in Variants, NEW row \in Rows, rows' = [rows EXCEPT ![v] = row]
    PROVE  Account' = [Account EXCEPT ![v] = row.quantity]
  BY NoRowAssumption DEF Account, Quantity, TypeOK

LEMMA ShoppingInit == Init => Shopping!Init
  <1> SUFFICES ASSUME Init PROVE Shopping!Init
    OBVIOUS
  <1>1. Merging = {}
    BY DEF Init, Merging
  <1>2. QED
    BY <1>1 DEF Init, Shopping!Init, GuestView, Quantity, NoQuantities

\* A step of the service is a step of the shopping cart, or none.
LEMMA ShoppingStep ==
    Quiet /\ RowsInv /\ QuietInv /\ [Next]_vars => [Shopping!Next]_Shopping!vars
  <1> SUFFICES ASSUME Quiet, RowsInv, QuietInv, [Next]_vars
               PROVE  [Shopping!Next]_Shopping!vars
    OBVIOUS
  <1>0. /\ TypeOK /\ TypeOK' /\ RequestInv /\ RowIdsDistinct
        /\ OneAtATime /\ OneAtATime'
    BY RowsInvStep, QuietStep DEF RowsInv, QuietInv
  <1>a. \A r \in Requests : /\ r \in Merging <=> req[r] \in Merges /\ req[r].pc # "read"
                            /\ r \in Merging' <=> req'[r] \in Merges /\ req'[r].pc # "read"
    BY <1>0, MergesShapedAlways DEF MergesShaped
  <1>b. \A r \in Requests : req[r] \in RequestStates /\ InOrder(req[r])
    BY <1>0 DEF TypeOK, RequestStates, RequestInv
  <1>c. /\ Merging = {} => GuestView = guestCart
        /\ Merging' = {} => GuestView' = guestCart'
        /\ \A r \in Merging : Merging = {r} /\ GuestView = ViewOf(r)
        /\ \A r \in Merging' : Merging' = {r} /\ GuestView' = ViewOf(r)'
    BY <1>0, ViewsAlways DEF Views
  <1>d. UNCHANGED rows => UNCHANGED Account
    BY DEF Account, Quantity
  <1>e. ASSUME UNCHANGED <<GuestView, Account>>, Merging = {} <=> Merging' = {}
        PROVE  [Shopping!Next]_Shopping!vars
    BY <1>e DEF Shopping!vars, Account
  <1>f. ASSUME AllIdle PROVE Merging = {}
    BY <1>f DEF AllIdle, Merging
  <1>1. ASSUME NEW r \in Requests, Arrive(r) PROVE [Shopping!Next]_Shopping!vars
    <2>1. /\ AllIdle /\ UNCHANGED <<rows, guestCart>>
          /\ \A q \in Requests \ {r} : req'[q] = req[q]
          /\ req'[r].pc = "read" \/ req'[r].op # "merge"
      BY <1>0, <1>1 DEF Arrive, AddItem, UpdateItemQuantity, AddGuestItem,
         UpdateGuestItemQuantity, MergeGuestCart, Start, TypeOK
    <2>2. Merging = {} /\ Merging' = {}
      BY <2>1 DEF AllIdle, Merging
    <2>3. QED
      BY <1>c, <1>d, <1>e, <2>1, <2>2
  <1>2. ASSUME NEW r \in Requests, req[r] # Idle, req[r] \notin Merges, req'[r] \notin Merges,
               \A q \in Requests \ {r} : req'[q] = req[q]
        PROVE  /\ Merging = {} /\ Merging' = {}
               /\ GuestView = guestCart /\ GuestView' = guestCart'
    <2>1. \A q \in Requests \ {r} : req[q] = Idle /\ req'[q] = Idle
      BY <1>0, <1>2, Alone
    <2>2. Merging = {} /\ Merging' = {}
      BY <1>2, <1>a, <2>1 DEF Merging
    <2>3. QED
      BY <1>c, <2>2
  <1>3. ASSUME NEW r \in Requests, req[r] \notin Merges,
               \/ SelectCart(r) \/ InsertCart(r) \/ QuantityTooLarge(r)
        PROVE  [Shopping!Next]_Shopping!vars
    <2>1. /\ req[r] # Idle /\ req'[r] \notin Merges
          /\ \A q \in Requests \ {r} : req'[q] = req[q]
      BY <1>0, <1>3, AddStepMoves, IdleStep DEF AddSteps
    <2>2. UNCHANGED <<rows, guestCart>>
      BY <1>3 DEF SelectCart, InsertCart, QuantityTooLarge
    <2>3. QED
      BY <1>2, <1>3, <1>d, <1>e, <2>1, <2>2
  <1>4. ASSUME NEW r \in Requests, req[r] \notin Merges, UpsertItem(r)
        PROVE  [Shopping!Next]_Shopping!vars
    <2>1. /\ req[r] # Idle /\ req'[r] \notin Merges
          /\ \A q \in Requests \ {r} : req'[q] = req[q]
      BY <1>0, <1>4, AddStepMoves, IdleStep DEF AddSteps
    <2> DEFINE v == req[r].item
               n == req[r].n
    <2>2. v \in Variants /\ n \in 1..MaxGuest
      BY <1>0, <1>4, Upserted
    <2>3. Account' = [Account EXCEPT ![v] = Quantity(v) + n]
      <3>1. PICK row \in Rows : /\ rows' = [rows EXCEPT ![v] = row]
                                /\ row.quantity = Quantity(v) + n
        BY <1>0, <1>4, Upserted
      <3> HIDE DEF v, n
      <3>2. QED
        BY <1>0, <2>2, <3>1, AccountAfter
    <2>4. Quantity(v) + n <= MaxQuantity /\ guestCart' = guestCart
      BY <1>4 DEF UpsertItem
    <2>5. Merging = {} /\ Merging' = {} /\ GuestView' = GuestView
      BY <1>2, <1>4, <2>1, <2>4
    <2> HIDE DEF v, n
    <2>6. Shopping!AddAccount(v, n)
      BY <2>2, <2>3, <2>4, <2>5 DEF Shopping!AddAccount, Account
    <2>7. QED
      BY <2>2, <2>5, <2>6 DEF Shopping!Next, Shopping!Shop
  <1>5. ASSUME NEW r \in Requests, WriteRow(r) PROVE [Shopping!Next]_Shopping!vars
    <2>1. req[r] \in UpdateItems /\ req[r] \notin Merges
      BY <1>5, <1>b, RequestShape DEF WriteRow
    <2>2. /\ req[r] # Idle /\ req'[r] \notin Merges
          /\ \A q \in Requests \ {r} : req'[q] = req[q]
      BY <1>0, <1>5, <2>1, AddStepMoves, IdleStep DEF AddSteps
    <2>3. Merging = {} /\ Merging' = {} /\ GuestView' = GuestView
      BY <1>2, <1>5, <2>1, <2>2 DEF WriteRow
    <2>4. CASE Target(r) = {}
      <3>1. rows' = rows
        BY <1>0, <1>5, <2>4 DEF WriteRow, TypeOK
      <3>2. QED
        BY <1>d, <1>e, <2>3, <3>1
    <2>5. CASE Target(r) # {}
      <3>1. PICK v \in Variants : v \in Target(r)
        BY <2>5 DEF Target, RowOf
      <3>2. Target(r) = {v}
        BY <1>0, <3>1 DEF Target, RowOf, RowIdsDistinct
      <3> DEFINE n == req[r].n
      <3>3. n \in 0..MaxQuantity
        BY <2>1 DEF UpdateItems
      <3>4. rows[v] \in Rows /\ Quantity(v) > 0
        BY <1>0, <3>1, QuantityType DEF Target, RowOf
      <3>5. Quantity(v)' = n
        <4>1. CASE n = 0
          BY <1>5, <3>2, <4>1 DEF WriteRow, Quantity
        <4>2. CASE n # 0
          <5>1. n \in 1..MaxQuantity
            BY <3>3, <4>2, CartAssumption
          <5>2. rows'[v] = [rows[v] EXCEPT !.quantity = n]
            BY <1>5, <3>2, <4>2 DEF WriteRow
          <5>3. rows'[v] \in Rows /\ rows'[v].quantity = n
            BY <3>4, <5>1, <5>2 DEF Rows
          <5>4. QED
            BY <5>3, NoRowAssumption DEF Quantity
        <4>3. QED
          BY <4>1, <4>2
      <3>6. \A w \in Variants \ {v} : Quantity(w)' = Quantity(w)
        BY <1>5, <3>2 DEF WriteRow, Quantity
      <3>7. Account' = [Account EXCEPT ![v] = n]
        BY <3>5, <3>6 DEF Account
      <3> HIDE DEF n
      <3>8. Shopping!SetAccount(v, n)
        BY <2>3, <3>4, <3>7 DEF Shopping!SetAccount, Account
      <3>9. QED
        BY <2>3, <3>3, <3>8 DEF Shopping!Next, Shopping!Shop
    <2>6. QED
      BY <2>4, <2>5
  <1>6. ASSUME NEW r \in Requests, ReadGuest(r), req[r] \notin Merges
        PROVE  [Shopping!Next]_Shopping!vars
    <2>1. /\ req[r] # Idle /\ UNCHANGED <<rows, guestCart>>
          /\ \A q \in Requests \ {r} : req'[q] = req[q]
      BY <1>0, <1>6, IdleStep DEF ReadGuest, TypeOK
    <2>2. req'[r] \notin Merges
      <3>1. req[r] \in GuestAdds \cup GuestUpdates /\ req[r].op # "merge"
        BY <1>6, <1>b, RequestShape DEF ReadGuest
      <3>2. req'[r].op = req[r].op
        BY <1>0, <1>6, <3>1 DEF ReadGuest, TypeOK, GuestAdds, GuestUpdates
      <3>3. QED
        BY <3>1, <3>2 DEF Merges
    <2>3. QED
      BY <1>2, <1>6, <1>d, <1>e, <2>1, <2>2
  <1>7. ASSUME NEW r \in Requests, WriteGuest(r) PROVE [Shopping!Next]_Shopping!vars
    <2> DEFINE k == req[r].item
               n == req[r].n
    <2>1. req[r] \in GuestAdds \cup GuestUpdates /\ req[r] \notin Merges
      BY <1>7, <1>b, RequestShape DEF WriteGuest
    <2>2. /\ req[r] # Idle /\ req'[r] = Idle /\ UNCHANGED rows
          /\ \A q \in Requests \ {r} : req'[q] = req[q]
      BY <1>0, <1>7, IdleStep DEF WriteGuest, TypeOK
    <2>3. /\ Merging = {} /\ Merging' = {}
          /\ GuestView = guestCart /\ GuestView' = guestCart'
      <3>1. Idle \notin Merges
        BY DEF Idle, Merges
      <3>2. QED
        BY <1>2, <2>1, <2>2, <3>1
    <2>4. req[r].seen = guestCart
      BY <1>7 DEF WriteGuest, QuietInv
    <2>5. CASE req[r] \in GuestAdds
      <3>1. k \in Variants /\ n \in 1..MaxGuest /\ req[r].op = "addGuest"
        BY <2>5 DEF GuestAdds
      <3>2. guestCart' = [guestCart EXCEPT ![k] = guestCart[k] + n]
        BY <1>7, <2>4, <3>1 DEF WriteGuest
      <3> HIDE DEF k, n
      <3>3. Shopping!AddGuest(k, n)
        BY <1>0, <1>d, <2>2, <2>3, <3>1, <3>2
        DEF Shopping!AddGuest, Account, TypeOK, Quantities, Keys
      <3>4. QED
        BY <2>3, <3>1, <3>3 DEF Shopping!Next, Shopping!Shop
    <2>6. CASE req[r] \in GuestUpdates
      <3>1. k \in Keys /\ n \in 0..MaxGuest /\ req[r].op = "updateGuest"
        BY <2>6 DEF GuestUpdates
      <3>2. guestCart' = [guestCart EXCEPT ![k] = n]
        BY <1>7, <2>4, <3>1 DEF WriteGuest
      <3> HIDE DEF k, n
      <3>3. Shopping!SetGuest(k, n)
        BY <1>d, <2>2, <2>3, <3>2 DEF Shopping!SetGuest, Account
      <3>4. QED
        BY <2>3, <3>1, <3>3 DEF Shopping!Next, Shopping!Shop
    <2>7. QED
      BY <2>1, <2>5, <2>6
  <1>8. ASSUME NEW r \in Requests, ReadGuest(r), req[r] \in Merges
        PROVE  [Shopping!Next]_Shopping!vars
    <2>1. /\ req[r] # Idle /\ req[r].pc = "read" /\ UNCHANGED <<rows, guestCart>>
          /\ \A q \in Requests \ {r} : req'[q] = req[q]
      BY <1>0, <1>8, IdleStep DEF ReadGuest, TypeOK
    <2>2. /\ req'[r] \in Merges /\ req'[r].pc = "line"
          /\ req'[r].seen = guestCart /\ req'[r].todo = Entries(guestCart)
      <3>1. req'[r] = [req[r] EXCEPT !.pc = "line", !.seen = guestCart,
                                     !.todo = Entries(guestCart)]
        BY <1>0, <1>8, <1>b, RequestShape DEF ReadGuest, TypeOK
      <3>2. guestCart \in Quantities /\ Entries(guestCart) \subseteq Keys
        BY <1>0 DEF TypeOK, Entries
      <3>3. QED
        BY <1>8, <3>1, <3>2 DEF Merges
    <2>3. Merging = {}
      <3>1. \A q \in Requests \ {r} : req[q] = Idle
        BY <1>0, <2>1, Alone
      <3>2. QED
        BY <2>1, <3>1 DEF Merging
    <2>4. r \in Merging'
      BY <1>a, <2>2
    <2>5. GuestView' = guestCart
      <3>1. ViewOf(r)' = [k \in Keys |-> IF k \in Entries(guestCart) THEN guestCart[k] ELSE 0]
        BY <2>2 DEF ViewOf, LinesLeft
      <3>2. \A k \in Keys : k \notin Entries(guestCart) => guestCart[k] = 0
        BY <1>0, CartAssumption DEF TypeOK, Quantities, Entries
      <3>3. ViewOf(r)' = guestCart
        BY <1>0, <3>1, <3>2 DEF TypeOK, Quantities
      <3>4. QED
        BY <1>c, <2>4, <3>3
    <2>6. Shopping!SignIn
      BY <1>c, <1>d, <2>1, <2>3, <2>4, <2>5 DEF Shopping!SignIn, Account
    <2>7. QED
      BY <2>3, <2>6 DEF Shopping!Next
  <1>9. ASSUME NEW r \in Requests, req[r] \in Merges, req'[r] \in Merges,
               req[r].pc # "read", req'[r].pc # "read"
        PROVE  /\ Merging # {} /\ Merging' # {}
               /\ GuestView = ViewOf(r) /\ GuestView' = ViewOf(r)'
    BY <1>9, <1>a, <1>c
  <1>10. ASSUME NEW r \in Requests, req[r] \in Merges,
                \/ SelectCart(r) \/ InsertCart(r) \/ UpsertItem(r) \/ QuantityTooLarge(r)
         PROVE  /\ req[r].pc \in AddSteps /\ req'[r] \in Merges /\ req'[r].pc # "read"
                /\ req'[r].seen = req[r].seen /\ req'[r].todo = req[r].todo
                /\ req'[r].item = req[r].item
                /\ req[r].item \in Variants \cap Entries(req[r].seen)
                /\ req[r].item \notin req[r].todo
                /\ req[r].n = req[r].seen[req[r].item]
    <2>1. PICK p \in AddSteps \cup {"line"} : req'[r] = [req[r] EXCEPT !.pc = p]
      BY <1>0, <1>10, AddStepMoves
    <2>2. req[r].pc \in AddSteps
      BY <1>10 DEF SelectCart, InsertCart, UpsertItem, QuantityTooLarge, AddSteps
    <2>3. /\ req'[r] \in Merges /\ req'[r].pc # "read"
          /\ req'[r].seen = req[r].seen /\ req'[r].todo = req[r].todo
          /\ req'[r].item = req[r].item
      BY <1>10, <2>1 DEF Merges, AddSteps
    <2>4. QED
      BY <1>10, <1>b, <2>2, <2>3 DEF InOrder
  <1>11. ASSUME NEW r \in Requests, req[r] \in Merges, SelectCart(r) \/ InsertCart(r)
         PROVE  [Shopping!Next]_Shopping!vars
    <2>1. req[r].op = "merge" /\ ~(InsertCart(r) /\ cartExists)
      BY <1>11, <1>b, RequestShape DEF InsertCart, QuietInv
    <2>2. req'[r].pc \in {"insertCart", "item"}
      BY <1>0, <1>11, <2>1 DEF SelectCart, InsertCart, Goto, TypeOK, Merges
    <2>3. LinesLeft(r)' = LinesLeft(r)
      BY <1>10, <1>11, <2>2 DEF LinesLeft, AddSteps
    <2>4. ViewOf(r)' = ViewOf(r)
      BY <1>10, <1>11, <2>3 DEF ViewOf
    <2>5. UNCHANGED rows
      BY <1>11 DEF SelectCart, InsertCart
    <2>6. QED
      BY <1>9, <1>10, <1>11, <1>d, <1>e, <2>4, <2>5 DEF AddSteps
  <1>12. ASSUME NEW r \in Requests, req[r] \in Merges, UpsertItem(r) \/ QuantityTooLarge(r)
         PROVE  [Shopping!Next]_Shopping!vars
    <2> DEFINE v == req[r].item
               n == req[r].n
    <2>1. /\ req[r].pc = "item" /\ req[r].op = "merge" /\ Finish(r)
      BY <1>12, <1>b, RequestShape DEF UpsertItem, QuantityTooLarge
    <2>2. req'[r].pc = "line"
      BY <1>0, <1>12, <2>1 DEF Finish, Finished, TypeOK, Merges
    <2>3. /\ v \in Variants /\ v \in Keys /\ v \notin req[r].todo
          /\ n = req[r].seen[v] /\ n > 0
      BY <1>10, <1>12 DEF Keys, Entries
    <2>4. LinesLeft(r) = req[r].todo \cup {v} /\ LinesLeft(r)' = req[r].todo
      BY <1>10, <1>12, <2>1, <2>2 DEF LinesLeft
    <2>5. ViewOf(r)[v] = n /\ ViewOf(r)' = [ViewOf(r) EXCEPT ![v] = 0]
      BY <1>10, <1>12, <2>3, <2>4 DEF ViewOf
    <2>6. /\ Merging # {} /\ Merging' # {}
          /\ GuestView[v] = n /\ GuestView' = [GuestView EXCEPT ![v] = 0]
      <3>1. req[r].pc # "read" /\ req'[r].pc # "read" /\ req'[r] \in Merges
        BY <1>10, <1>12, <2>1, <2>2
      <3>2. QED
        BY <1>9, <1>12, <2>5, <3>1
    <2>7. CASE UpsertItem(r)
      <3>1. Account' = [Account EXCEPT ![v] = Quantity(v) + n]
        <4>1. PICK row \in Rows : /\ rows' = [rows EXCEPT ![v] = row]
                                  /\ row.quantity = Quantity(v) + n
          BY <1>0, <2>7, Upserted
        <4> HIDE DEF v, n
        <4>2. QED
          BY <1>0, <2>3, <4>1, AccountAfter
      <3>2. Quantity(v) + n <= MaxQuantity
        BY <2>7 DEF UpsertItem
      <3> HIDE DEF v, n
      <3>3. Shopping!MoveLine(v)
        BY <2>3, <2>6, <3>1, <3>2 DEF Shopping!MoveLine, Account
      <3>4. QED
        BY <2>3, <2>6, <3>3 DEF Shopping!Next
    <2>8. CASE QuantityTooLarge(r)
      <3>1. Quantity(v) + n > MaxQuantity /\ UNCHANGED rows
        BY <2>8 DEF QuantityTooLarge
      <3> HIDE DEF v, n
      <3>2. Shopping!DropLine(v)
        BY <1>d, <2>3, <2>6, <3>1 DEF Shopping!DropLine, Account
      <3>3. QED
        BY <2>3, <2>6, <3>2 DEF Shopping!Next
    <2>9. QED
      BY <1>12, <2>7, <2>8
  <1>13. ASSUME NEW r \in Requests, NEW k \in Keys, NextLine(r, k)
         PROVE  [Shopping!Next]_Shopping!vars
    <2>1. req[r] \in Merges /\ req[r].pc = "line" /\ k \in req[r].todo /\ UNCHANGED rows
      BY <1>13, <1>b, RequestShape DEF NextLine
    <2>2. PICK pc \in {"cart", "line"} :
             /\ pc = "cart" <=> k \in Variants
             /\ req'[r] = [req[r] EXCEPT !.todo = req[r].todo \ {k}, !.item = k,
                                         !.n = req[r].seen[k], !.pc = pc]
      BY <1>0, <1>13 DEF NextLine, TypeOK
    <2>3. /\ req'[r] \in Merges /\ req'[r].pc = pc /\ req'[r].seen = req[r].seen
          /\ req'[r].todo = req[r].todo \ {k} /\ req'[r].item = k
      <3>1. req[r].seen[k] \in 0..MaxGuest /\ req[r].todo \ {k} \in SUBSET Keys
        BY <2>1 DEF Merges, Quantities
      <3>2. req'[r] = [req[r] EXCEPT !.todo = req[r].todo \ {k}, !.item = k,
                                     !.n = req[r].seen[k], !.pc = pc]
        BY <2>2
      <3>3. QED
        BY <2>1, <3>1, <3>2 DEF Merges
    <2>4. /\ Merging # {} /\ Merging' # {}
          /\ GuestView = ViewOf(r) /\ GuestView' = ViewOf(r)'
      BY <1>9, <2>1, <2>3
    <2>5. CASE k \in Variants
      <3>1. LinesLeft(r)' = LinesLeft(r)
        BY <2>1, <2>2, <2>3, <2>5 DEF LinesLeft
      <3>2. ViewOf(r)' = ViewOf(r)
        BY <2>3, <3>1 DEF ViewOf
      <3>3. QED
        BY <1>d, <1>e, <2>1, <2>4, <3>2
    <2>6. CASE k \notin Variants
      <3>1. LinesLeft(r)' = LinesLeft(r) \ {k}
        BY <2>1, <2>2, <2>3, <2>6 DEF LinesLeft
      <3>2. ViewOf(r)' = [ViewOf(r) EXCEPT ![k] = 0]
        BY <2>3, <3>1 DEF ViewOf
      <3>3. Shopping!DropLine(k)
        BY <1>d, <2>1, <2>4, <2>6, <3>2 DEF Shopping!DropLine, Account
      <3>4. QED
        BY <2>4, <3>3 DEF Shopping!Next
    <2>7. QED
      BY <2>5, <2>6
  <1>14. ASSUME NEW r \in Requests, ClearGuest(r) PROVE [Shopping!Next]_Shopping!vars
    <2>1. /\ req[r] \in Merges /\ req[r].pc = "line" /\ req[r].todo = {}
          /\ req'[r] = Idle /\ guestCart' = NoQuantities /\ UNCHANGED rows
          /\ \A q \in Requests \ {r} : req'[q] = req[q]
      BY <1>0, <1>14, <1>b, RequestShape DEF ClearGuest, TypeOK
    <2>2. r \in Merging /\ GuestView = NoQuantities
      <3>1. r \in Merging /\ LinesLeft(r) = {}
        BY <1>a, <2>1 DEF LinesLeft
      <3>2. ViewOf(r) = NoQuantities
        BY <3>1 DEF ViewOf, NoQuantities
      <3>3. QED
        BY <1>c, <3>1, <3>2
    <2>3. Merging' = {}
      <3>1. req[r] # Idle
        BY <2>1, IdleStep
      <3>2. \A q \in Requests : req'[q] = Idle
        BY <1>0, <2>1, <3>1, Alone
      <3>3. QED
        BY <3>2 DEF Merging
    <2>4. GuestView' = NoQuantities
      BY <1>c, <2>1, <2>3
    <2>5. Shopping!SignedIn
      BY <1>d, <2>1, <2>2, <2>3, <2>4 DEF Shopping!SignedIn, Account, NoQuantities
    <2>6. QED
      BY <2>2, <2>5 DEF Shopping!Next
  <1>15. CASE CheckOut
    <2>1. Merging = {} /\ Merging' = {} /\ UNCHANGED guestCart
      BY <1>15, <1>f DEF CheckOut, Merging
    <2>2. Account' = [v \in Variants |-> 0]
      BY <1>15 DEF CheckOut, Account, Quantity
    <2>3. Shopping!CheckOut
      BY <1>c, <2>1, <2>2 DEF Shopping!CheckOut, Account
    <2>4. QED
      BY <2>1, <2>3 DEF Shopping!Next, Shopping!Shop
  <1>16. CASE Expire
    <2>1. Merging = {} /\ Merging' = {} /\ UNCHANGED rows /\ guestCart' = NoQuantities
      BY <1>16, <1>f DEF Expire, Merging
    <2>2. Shopping!Expire
      BY <1>c, <1>d, <2>1 DEF Shopping!Expire, Account, NoQuantities
    <2>3. QED
      BY <2>1, <2>2 DEF Shopping!Next, Shopping!Shop
  <1>17. CASE UNCHANGED vars
    <2>1. UNCHANGED <<req, rows, guestCart>>
      BY <1>17 DEF vars
    <2>2. Merging' = Merging /\ GuestView' = GuestView
      BY <2>1 DEF Merging, GuestView, LinesLeft
    <2>3. QED
      BY <1>d, <1>e, <2>1, <2>2
  <1>18. QED
    BY <1>1, <1>3, <1>4, <1>5, <1>6, <1>7, <1>8, <1>11, <1>12, <1>13, <1>14, <1>15,
       <1>16, <1>17
    DEF Next, Work, StatementFails, RequestFails

\* With requests that do not overlap and nothing that fails, the service is the
\* shopping cart a shopper expects: every operation takes effect as a whole, and signing
\* in neither loses a line that fits nor adds one twice.
THEOREM ServesAsShoppingCart == Quiet /\ Spec => ImplementsShoppingCart
  <1> SUFFICES ASSUME Quiet PROVE Spec => ImplementsShoppingCart
    OBVIOUS
  <1>1. Init => Shopping!Init
    BY ShoppingInit
  <1>2. Init => RowsInv /\ QuietInv
    BY RowsInvInit, QuietInit
  <1>3. RowsInv /\ QuietInv /\ [Next]_vars => RowsInv' /\ QuietInv'
    BY RowsInvStep, QuietStep
  <1>4. RowsInv /\ QuietInv /\ [Next]_vars => [Shopping!Next]_Shopping!vars
    BY ShoppingStep
  <1>5. QED
    BY <1>1, <1>2, <1>3, <1>4, PTL DEF Spec, ImplementsShoppingCart, Shopping!Spec
-----------------------------------------------------------------------------
(* The cart page *)

\* A PATCH was answered, and the page has not been told yet.
Due == \E e \in Edits : edit[e].pc = "answered"

\* Unless one is due, what was read, and what an open page that fetches nothing shows,
\* is what is stored.
ToldInv ==
    ~untold /\ ~Due => /\ open /\ fetch = NoFetch => shown = line
                       /\ fetch.pc = "read" => fetch.line = line

CartPageInv == PageTypeOK /\ ToldInv
-----------------------------------------------------------------------------
\* What is typed for a row is a line or none, and what a PATCH goes through is one.
LEMMA LineTypes ==
    \A row \in LineRows, q \in 0..MaxTyped : AsLine(row, q) \in Lines \cup {NoLine}
  BY CartPageAssumption DEF AsLine, Lines

LEMMA EditTypes ==
    /\ NoEdit.pc = "idle"
    /\ \A u \in EditStates :
          /\ [u EXCEPT !.pc = "answered"] \in EditStates
          /\ \A l \in Lines \cup {NoLine, Nothing} :
                [u EXCEPT !.pc = "read", !.leaves = l] \in EditStates
    /\ \A row \in LineRows \cup {Nothing}, l \in Lines \cup {NoLine, Nothing} :
          [pc |-> "sent", row |-> row, leaves |-> l] \in EditStates
  BY DEF NoEdit, EditStates

\* A PATCH that is under way has all its fields.
LEMMA InFlight ==
    ASSUME PageTypeOK, NEW e \in Edits, edit[e].pc \in {"sent", "read", "answered"}
    PROVE  edit[e] \in EditStates /\ edit[e] # NoEdit
  BY DEF PageTypeOK, NoEdit

LEMMA PageTypeInit == PageInit => PageTypeOK
  <1> SUFFICES ASSUME PageInit PROVE PageTypeOK
    OBVIOUS
  <1>1. made \in 0..MaxRows
    BY CartPageAssumption DEF PageInit
  <1>2. edit \in [Edits -> {NoEdit} \cup EditStates]
    BY DEF PageInit
  <1>3. QED
    BY <1>1, <1>2 DEF PageInit, PageTypeOK, FetchStates

\* What a guest's PATCH has read, or was typed, is what it leaves.
LeavesLine == \A e \in Edits : edit[e].pc = "read" => edit[e].leaves # Nothing

LEMMA TypeReadMap ==
    ASSUME PageTypeOK, LeavesLine, NEW e \in Edits, ReadMap(e) PROVE PageTypeOK' /\ LeavesLine'
  <1>1. edit[e] \in EditStates
    BY InFlight DEF ReadMap
  <1>2. PICK l \in Lines \cup {NoLine} :
           edit' = [edit EXCEPT ![e] = [edit[e] EXCEPT !.pc = "read", !.leaves = l]]
    BY <1>1 DEF ReadMap, PageTypeOK, EditStates
  <1>3. edit' \in [Edits -> {NoEdit} \cup EditStates]
    BY <1>1, <1>2, EditTypes DEF PageTypeOK
  <1>4. edit'[e].leaves = l
    BY <1>1, <1>2 DEF PageTypeOK, EditStates
  <1>5. \A d \in Edits \ {e} : edit'[d] = edit[d]
    BY <1>2 DEF PageTypeOK
  <1>6. LeavesLine'
    BY <1>4, <1>5, CartPageAssumption DEF LeavesLine
  <1>7. QED
    BY <1>3, <1>6 DEF PageTypeOK, ReadMap, cart, query

\* A step that answers a PATCH, or forgets it, and puts a line or none in its place.
LEMMA TypeEnds ==
    ASSUME PageTypeOK, LeavesLine, NEW e \in Edits, edit[e] \in EditStates,
           \/ edit' = [edit EXCEPT ![e].pc = "answered"]
           \/ edit' = [edit EXCEPT ![e] = NoEdit]
    PROVE  edit' \in [Edits -> {NoEdit} \cup EditStates] /\ LeavesLine'
  <1>1. edit' \in [Edits -> {NoEdit} \cup EditStates]
    BY EditTypes DEF PageTypeOK
  <1>2. edit'[e].pc # "read"
    BY DEF PageTypeOK, NoEdit, EditStates
  <1>3. \A d \in Edits \ {e} : edit'[d] = edit[d]
    BY DEF PageTypeOK
  <1>4. QED
    BY <1>1, <1>2, <1>3 DEF LeavesLine

LEMMA TypeSend ==
    ASSUME PageTypeOK, LeavesLine, NEW e \in Edits, NEW row \in LineRows \cup {Nothing},
           NEW l \in Lines \cup {NoLine, Nothing}, Send(e, row, l)
    PROVE  PageTypeOK' /\ LeavesLine'
  <1>1. edit' \in [Edits -> {NoEdit} \cup EditStates]
    BY EditTypes DEF Send, PageTypeOK
  <1>2. edit'[e].pc # "read" /\ \A d \in Edits \ {e} : edit'[d] = edit[d]
    BY DEF Send, PageTypeOK
  <1>3. LeavesLine'
    BY <1>2 DEF LeavesLine
  <1>4. QED
    BY <1>1, <1>3 DEF PageTypeOK, Send, cart, query

LEMMA TypeElsewhere ==
    ASSUME PageTypeOK, NEW new \in Lines \cup {NoLine}, Elsewhere(new) PROVE PageTypeOK'
  <1>1. made' \in 0..MaxRows
    <2>1. new # NoLine => new.row \in 1..MaxRows
      BY DEF Lines, LineRows
    <2>2. QED
      BY <2>1, CartPageAssumption DEF Elsewhere, PageTypeOK
  <1>2. untold' \in BOOLEAN
    BY DEF Elsewhere, PageTypeOK
  <1>3. QED
    BY <1>1, <1>2 DEF PageTypeOK, Elsewhere, query

LEMMA PageTypeStep ==
    PageTypeOK /\ LeavesLine /\ [PageNext]_pageVars => PageTypeOK' /\ LeavesLine'
  <1> SUFFICES ASSUME PageTypeOK, LeavesLine, [PageNext]_pageVars
               PROVE  PageTypeOK' /\ LeavesLine'
    OBVIOUS
  <1> USE DEF LeavesLine
  <1>1. ASSUME Mount PROVE PageTypeOK' /\ LeavesLine'
    BY <1>1 DEF PageTypeOK, Mount, StartFetch, cart, FetchStates
  <1>2. ASSUME Unmount PROVE PageTypeOK' /\ LeavesLine'
    BY <1>2 DEF PageTypeOK, Unmount, cart
  <1>3. ASSUME Focus PROVE PageTypeOK' /\ LeavesLine'
    BY <1>3 DEF PageTypeOK, Focus, StartFetch, cart, FetchStates
  <1>4. ASSUME FetchRead PROVE PageTypeOK' /\ LeavesLine'
    BY <1>4 DEF PageTypeOK, FetchRead, cart, FetchStates
  <1>5. ASSUME FetchShown PROVE PageTypeOK' /\ LeavesLine'
    BY <1>5 DEF PageTypeOK, FetchShown, cart, FetchStates, NoFetch, Started
  <1>6. ASSUME FetchFails PROVE PageTypeOK' /\ LeavesLine'
    BY <1>6 DEF PageTypeOK, FetchFails, cart, FetchStates
  <1>7. ASSUME Forget PROVE PageTypeOK' /\ LeavesLine'
    BY <1>7 DEF PageTypeOK, Forget, cart
  <1> HIDE DEF LeavesLine
  <1>8. ASSUME NEW e \in Edits, ReadMap(e) PROVE PageTypeOK' /\ LeavesLine'
    BY <1>8, TypeReadMap
  <1>9. ASSUME NEW e \in Edits, WriteMap(e) \/ UpdateRow(e) PROVE PageTypeOK' /\ LeavesLine'
    <2>1. edit[e] \in EditStates
      BY <1>9, InFlight DEF WriteMap, UpdateRow
    <2>2. line' \in Lines \cup {NoLine}
      BY <1>9, <2>1 DEF WriteMap, UpdateRow, LeavesLine, PageTypeOK, EditStates
    <2>3. edit' \in [Edits -> {NoEdit} \cup EditStates] /\ LeavesLine'
      BY <1>9, <2>1, TypeEnds DEF WriteMap, UpdateRow
    <2>4. QED
      BY <1>9, <2>2, <2>3 DEF PageTypeOK, WriteMap, UpdateRow, query
  <1>10. ASSUME NEW e \in Edits, Refuse(e) PROVE PageTypeOK' /\ LeavesLine'
    BY <1>10, InFlight, TypeEnds DEF PageTypeOK, Refuse, cart, query
  <1>11. ASSUME NEW e \in Edits, Answered(e) PROVE PageTypeOK' /\ LeavesLine'
    BY <1>11, InFlight, TypeEnds
    DEF PageTypeOK, Answered, Invalidate, StartFetch, cart, FetchStates
  <1>12. ASSUME NEW e \in Edits, Lost(e) PROVE PageTypeOK' /\ LeavesLine'
    <2>1. edit[e] \in EditStates
      BY <1>12 DEF Lost, PageTypeOK
    <2>2. QED
      BY <1>12, <2>1, TypeEnds DEF PageTypeOK, Lost, cart, query
  <1>13. ASSUME NEW e \in Edits, NEW q \in 0..MaxTyped, Change(e, q)
         PROVE  PageTypeOK' /\ LeavesLine'
    <2>1. shown.row \in LineRows
      BY <1>13 DEF Change, Lines
    <2>2. QED
      BY <1>13, <2>1, LineTypes, TypeSend DEF Change
  <1>14. ASSUME NEW e \in Edits, ChangeAnother(e) PROVE PageTypeOK' /\ LeavesLine'
    BY <1>14, TypeSend DEF ChangeAnother
  <1>15. ASSUME NEW new \in Lines \cup {NoLine}, Elsewhere(new)
         PROVE  PageTypeOK' /\ LeavesLine'
    BY <1>15, TypeElsewhere DEF Elsewhere, LeavesLine
  <1>16. CASE UNCHANGED pageVars
    BY <1>16 DEF PageTypeOK, LeavesLine, pageVars, cart, query
  <1>17. QED
    BY <1>1, <1>2, <1>3, <1>4, <1>5, <1>6, <1>7, <1>8, <1>9, <1>10, <1>11, <1>12, <1>13, <1>14, <1>15, <1>16
    DEF PageNext

-----------------------------------------------------------------------------
(* What the page is told *)

LEMMA StartedIsSent == Started # NoFetch /\ Started.pc # "read"
  BY DEF Started, NoFetch

\* A PATCH that is answered is due.
LEMMA ToldDue ==
    ASSUME PageTypeOK, NEW e \in Edits, edit' = [edit EXCEPT ![e].pc = "answered"],
           edit[e] \in EditStates
    PROVE  ToldInv'
  <1>1. Due'
    BY DEF Due, PageTypeOK, EditStates
  <1>2. QED
    BY <1>1 DEF ToldInv

LEMMA ToldAnswered == ASSUME PageTypeOK, ToldInv, NEW e \in Edits, Answered(e) PROVE ToldInv'
  <1>1. CASE open /\ (fetch = NoFetch \/ shown # Nothing)
    BY <1>1 DEF Answered, Invalidate, StartFetch, ToldInv, NoFetch, Started
  <1>2. CASE ~(open /\ (fetch = NoFetch \/ shown # Nothing))
    BY <1>2 DEF Answered, Invalidate, ToldInv, NoFetch
  <1>3. QED
    BY <1>1, <1>2

LEMMA ToldLost == ASSUME PageTypeOK, ToldInv, NEW e \in Edits, Lost(e) PROVE ToldInv'
  <1>1. ~untold' => fetch' = Started
    BY DEF Lost, query
  <1>2. QED
    BY <1>1, StartedIsSent DEF ToldInv

LEMMA ToldElsewhere ==
    ASSUME PageTypeOK, ToldInv, NEW new \in Lines \cup {NoLine}, Elsewhere(new) PROVE ToldInv'
  <1>1. ~untold' => fetch' = Started
    BY DEF Elsewhere, query
  <1>2. QED
    BY <1>1, StartedIsSent DEF ToldInv

LEMMA ToldSend ==
    ASSUME PageTypeOK, ToldInv, NEW e \in Edits, NEW row, NEW l, Send(e, row, l)
    PROVE  ToldInv'
  <1>1. Due' = Due
    BY DEF Send, Due, PageTypeOK, NoEdit
  <1>2. QED
    BY <1>1 DEF Send, ToldInv, cart, query

LEMMA ToldReadMap == ASSUME PageTypeOK, ToldInv, NEW e \in Edits, ReadMap(e) PROVE ToldInv'
  <1>1. edit[e] \in EditStates
    BY InFlight DEF ReadMap
  <1>2. PICK l :
           edit' = [edit EXCEPT ![e] = [edit[e] EXCEPT !.pc = "read", !.leaves = l]]
    BY <1>1 DEF ReadMap, PageTypeOK, EditStates
  <1>3. edit'[e].pc = "read" /\ edit[e].pc = "sent" /\ \A d \in Edits \ {e} : edit'[d] = edit[d]
    BY <1>1, <1>2 DEF ReadMap, PageTypeOK, EditStates
  <1>4. Due' = Due
    BY <1>3 DEF Due
  <1>5. QED
    BY <1>4 DEF ReadMap, ToldInv, cart, query

LEMMA ToldStep == PageTypeOK /\ ToldInv /\ [PageNext]_pageVars => ToldInv'
  <1> SUFFICES ASSUME PageTypeOK, ToldInv, [PageNext]_pageVars PROVE ToldInv'
    OBVIOUS
  <1>1. ASSUME Mount PROVE ToldInv'
    BY <1>1 DEF ToldInv, Due, Mount, StartFetch, cart, NoFetch, Started
  <1>2. ASSUME Unmount PROVE ToldInv'
    BY <1>2 DEF ToldInv, Due, Unmount, cart
  <1>3. ASSUME Focus PROVE ToldInv'
    BY <1>3 DEF ToldInv, Due, Focus, StartFetch, cart, NoFetch, Started
  <1>4. ASSUME FetchRead PROVE ToldInv'
    BY <1>4 DEF ToldInv, Due, FetchRead, cart, NoFetch
  <1>5. ASSUME FetchShown PROVE ToldInv'
    BY <1>5 DEF ToldInv, Due, FetchShown, cart, NoFetch
  <1>6. ASSUME FetchFails PROVE ToldInv'
    BY <1>6 DEF ToldInv, Due, FetchFails, cart
  <1>7. ASSUME Forget PROVE ToldInv'
    BY <1>7 DEF ToldInv, Due, Forget, cart
  <1>8. ASSUME NEW e \in Edits, WriteMap(e) \/ UpdateRow(e) \/ Refuse(e) PROVE ToldInv'
    BY <1>8, InFlight, ToldDue DEF WriteMap, UpdateRow, Refuse
  <1>9. ASSUME NEW e \in Edits, ReadMap(e) PROVE ToldInv'
    BY <1>9, ToldReadMap
  <1>10. ASSUME NEW e \in Edits, Answered(e) PROVE ToldInv'
    BY <1>10, ToldAnswered
  <1>11. ASSUME NEW e \in Edits, Lost(e) PROVE ToldInv'
    BY <1>11, ToldLost
  <1>12. ASSUME NEW e \in Edits, ChangeAnother(e) \/ \E q \in 0..MaxTyped : Change(e, q)
         PROVE  ToldInv'
    BY <1>12, ToldSend DEF ChangeAnother, Change
  <1>13. ASSUME NEW new \in Lines \cup {NoLine}, Elsewhere(new) PROVE ToldInv'
    BY <1>13, ToldElsewhere
  <1>14. CASE UNCHANGED pageVars
    BY <1>14 DEF ToldInv, Due, pageVars, cart, query
  <1>15. QED
    BY <1>1, <1>2, <1>3, <1>4, <1>5, <1>6, <1>7, <1>8, <1>9, <1>10, <1>11, <1>12, <1>13, <1>14
    DEF PageNext

-----------------------------------------------------------------------------
LEMMA CartPageIsInvariant == PageSpec => [](CartPageInv /\ LeavesLine)
  <1>1. PageInit => CartPageInv /\ LeavesLine
    BY PageTypeInit DEF PageInit, CartPageInv, ToldInv, LeavesLine, Due, NoPatch, NoEdit, NoFetch
  <1>2. CartPageInv /\ LeavesLine /\ [PageNext]_pageVars => CartPageInv' /\ LeavesLine'
    BY PageTypeStep, ToldStep DEF CartPageInv
  <1>3. QED
    BY <1>1, <1>2, PTL DEF PageSpec

\* Every line, fetch and PATCH is one of those it may be.
THEOREM PageTypeCorrect == PageSpec => []PageTypeOK
  BY CartPageIsInvariant, PTL DEF CartPageInv

\* The page settles on what is stored, whatever order its requests took.
THEOREM PagesSettle == PageSpec => []SettledPageIsCurrent
  <1>1. CartPageInv => SettledPageIsCurrent
    BY DEF CartPageInv, ToldInv, Due, SettledPageIsCurrent, NoPatch, NoEdit
  <1>2. QED
    BY <1>1, CartPageIsInvariant, PTL
=============================================================================
