--------------------------- MODULE CatalogProofs ---------------------------
(***************************************************************************)
(* For any number of readers, admins, keys, products and changes: the      *)
(* types, that a 404 is never a cached one, and, while Redis takes the     *)
(* bumps, that an answer reflects every change acknowledged before it was  *)
(* asked for.                                                              *)
(***************************************************************************)
EXTENDS Catalog, FiniteSetTheorems, TLAPS

-----------------------------------------------------------------------------
(* What the source answers is an answer *)

LEMMA MatchingSize ==
    ASSUME NEW k, NEW d
    PROVE  /\ Matching(k, d) \subseteq Ids
           /\ Cardinality(Matching(k, d)) \in Nat
  <1>1. Matching(k, d) \subseteq Ids
    BY DEF Matching
  <1>2. IsFiniteSet(Ids)
    BY CatalogAssumption, FS_Interval DEF Ids
  <1>3. IsFiniteSet(Matching(k, d))
    BY <1>1, <1>2, FS_Subset
  <1>4. QED
    BY <1>1, <1>3, FS_CardinalityType

LEMMA ListType ==
    ASSUME NEW S \in SUBSET Ids, NEW f \in [S -> Statuses], NEW n \in Nat
    PROVE  [is |-> "list", total |-> n, items |-> f] \in Lists
  <1>1. f \in UNION {[T -> Statuses] : T \in SUBSET Ids}
    OBVIOUS
  <1>2. QED
    BY <1>1 DEF Lists

\* A list is a list, everything else is a page or a 404, and a 404 is for a product.
LEMMA FirstType ==
    ASSUME NEW k \in Keys, NEW d \in Contents, NEW a \in First(k, d)
    PROVE  /\ k.kind \in ListKinds => a \in Lists
           /\ k.kind \notin ListKinds => a \in Pages \cup {NotFound}
  <1>k. k \in AllKeys
    BY CatalogAssumption
  <1>1. CASE k.kind = "product"
    <2>1. k.id \in Ids
      BY <1>k, <1>1 DEF AllKeys, ListKinds
    <2>2. a = IF Shown(d, k.id) THEN [is |-> "product", status |-> d.products[k.id].status]
                                ELSE NotFound
      BY <1>1 DEF First
    <2>3. QED
      BY <1>1, <2>1, <2>2 DEF Pages, ListKinds, Shown
  <1>2. CASE k.kind = "categories"
    <2>1. a = [is |-> "categories", names |-> d.categories]
      BY <1>2 DEF First
    <2>2. QED
      BY <1>2, <2>1 DEF Pages, Contents, ListKinds
  <1>3. CASE k.kind = "browse"
    <2> DEFINE S == NewestOf(k, Matching(k, d))
               f == [p \in S |-> d.products[p].status]
    <2>1. a = [is |-> "list", total |-> 0, items |-> f]
      BY <1>3 DEF First
    <2>2. S \in SUBSET Ids
      BY MatchingSize DEF NewestOf
    <2>3. \A p \in S : d.products[p].status \in Statuses
      BY DEF NewestOf, Matching, Shown, Statuses
    <2>4. f \in [S -> Statuses]
      BY <2>3
    <2> HIDE DEF S, f
    <2>5. QED
      BY <1>3, <2>1, <2>2, <2>4, ListType DEF ListKinds
  <1>4. CASE k.kind = "search"
    <2>1. PICK T \in RankedOf(k, Matching(k, d)) :
            a = [is |-> "list", total |-> IF T = {} THEN 0 ELSE Cardinality(Matching(k, d)),
                 items |-> [p \in T |-> d.products[p].status]]
      BY <1>4 DEF First
    <2> DEFINE n == IF T = {} THEN 0 ELSE Cardinality(Matching(k, d))
               f == [p \in T |-> d.products[p].status]
    <2>2. T \in SUBSET Ids
      BY MatchingSize DEF RankedOf
    <2>3. \A p \in T : d.products[p].status \in Statuses
      BY DEF RankedOf, Matching, Shown, Statuses
    <2>4. f \in [T -> Statuses] /\ n \in Nat
      BY <2>3, MatchingSize
    <2>5. a = [is |-> "list", total |-> n, items |-> f]
      BY <2>1
    <2> HIDE DEF n, f
    <2>6. QED
      BY <1>4, <2>2, <2>4, <2>5, ListType DEF ListKinds
  <1>5. QED
    BY <1>k, <1>1, <1>2, <1>3, <1>4 DEF AllKeys, ListKinds

\* A product that was ranked is still there when it is fetched.
LEMMA SecondType ==
    ASSUME NEW k \in Keys, k.kind \in ListKinds, NEW a \in Lists, NEW d \in Contents,
           k.kind = "search" =>
             \A p \in DOMAIN a.items : d.products[p].status \in Statuses
    PROVE  Second(k, a, d) \in Lists
  <1>1. PICK S \in SUBSET Ids : a.items \in [S -> Statuses]
    BY DEF Lists
  <1>2. CASE k.kind = "browse"
    <2>1. Second(k, a, d) = [a EXCEPT !.total = Cardinality(Matching(k, d))]
      BY <1>2 DEF Second
    <2>2. QED
      BY <2>1, MatchingSize DEF Lists
  <1>3. CASE k.kind = "search"
    <2> DEFINE f == [p \in DOMAIN a.items |-> d.products[p].status]
    <2>1. Second(k, a, d) = [a EXCEPT !.items = f]
      BY <1>3 DEF Second
    <2>2. f \in [S -> Statuses]
      BY <1>1, <1>3
    <2>3. f \in UNION {[T -> Statuses] : T \in SUBSET Ids}
      BY <2>2
    <2> HIDE DEF f
    <2>4. QED
      BY <2>1, <2>3 DEF Lists
  <1>4. QED
    BY <1>2, <1>3 DEF ListKinds
-----------------------------------------------------------------------------
(* Types *)

TypeInv == TypeOK /\ RankedStay

LEMMA TypeInit == Init => TypeInv
  <1> SUFFICES ASSUME Init PROVE TypeInv
    OBVIOUS
  <1>1. [products |-> [p \in Ids |-> [status |-> "none", tags |-> {}]], categories |-> {}]
          \in Contents
    BY DEF Contents, Products
  <1>2. states \in Seq(Contents) /\ Len(states) = 1
    BY <1>1 DEF Init
  <1>3. EmptyStore \in Stores
    BY DEF EmptyStore, Stores
  <1>4. 0 \in Versions /\ 1 \in 1..(MaxWrites + 1)
    BY CatalogAssumption DEF Versions
  <1>5. QED
    BY <1>2, <1>3, <1>4 DEF Init, TypeInv, TypeOK, RankedStay

LEMMA PresentType == ASSUME TypeOK PROVE Db \in Contents /\ Len(states) \in Nat
  BY CatalogAssumption DEF TypeOK, Db

\* A change adds one content and keeps the others, the present one as last but one.
LEMMA CommitType ==
    ASSUME TypeInv, NEW a \in Admins, NEW d \in Contents, Commit(a, d),
           \A p \in Ids : Db.products[p].status \in Statuses
                            => d.products[p].status \in Statuses
    PROVE  TypeInv'
  <1>1. /\ states' \in Seq(Contents)
        /\ Len(states') = Len(states) + 1
        /\ states'[Len(states')] = d
    BY DEF TypeInv, TypeOK, Commit
  <1>2. Len(states') \in 1..(MaxWrites + 1) /\ Len(states) \in Nat
    BY <1>1, CatalogAssumption DEF TypeInv, TypeOK, Commit
  <1>3. writing' \in [Admins -> 0..Len(states')]
    BY <1>1, <1>2 DEF TypeInv, TypeOK, Commit
  <1>4. /\ from' \in [Readers -> 1..Len(states')]
        /\ floor' \in [Readers -> 1..Len(states')]
        /\ acked' \in 1..Len(states')
    BY <1>1, <1>2 DEF TypeInv, TypeOK, Commit, reading
  <1>5. TypeOK'
    BY <1>1, <1>2, <1>3, <1>4 DEF TypeInv, TypeOK, Commit, reading, redis
  <1>6. RankedStay'
    <2> SUFFICES ASSUME NEW r \in Readers, pc[r] = "second", NEW p \in DOMAIN answer[r].items
                 PROVE  d.products[p].status \in Statuses
      BY <1>1 DEF RankedStay, Db, Commit, reading
    <2>1. p \in Ids
      BY DEF TypeInv, TypeOK, Lists
    <2>2. QED
      BY <2>1 DEF TypeInv, RankedStay
  <1>7. QED
    BY <1>5, <1>6 DEF TypeInv

LEMMA ChangeType == ASSUME TypeInv, NEW a \in Admins, Change(a) PROVE TypeInv'
  <1>d. Db \in Contents
    BY PresentType DEF TypeInv
  <1>1. CASE CreateCategory(a)
    <2>1. PICK c \in Categories : Commit(a, [Db EXCEPT !.categories = @ \cup {c}])
      BY <1>1 DEF CreateCategory
    <2> DEFINE d == [Db EXCEPT !.categories = @ \cup {c}]
    <2>2. d \in Contents /\ d.products = Db.products
      BY <1>d DEF Contents
    <2> HIDE DEF d
    <2>3. QED
      BY <2>1, <2>2, CommitType DEF d
  <1>2. CASE CreateProduct(a)
    <2>1. PICK p \in Ids, s \in Statuses, T \in SUBSET Tags :
            Commit(a, [Db EXCEPT !.products[p] = [status |-> s, tags |-> T]])
      BY <1>2 DEF CreateProduct
    <2> DEFINE d == [Db EXCEPT !.products[p] = [status |-> s, tags |-> T]]
    <2>2. /\ d.products = [Db.products EXCEPT ![p] = [status |-> s, tags |-> T]]
          /\ d \in Contents
      BY <1>d DEF Contents, Products
    <2>3. \A q \in Ids : Db.products[q].status \in Statuses => d.products[q].status \in Statuses
      BY <1>d, <2>2 DEF Contents
    <2> HIDE DEF d
    <2>4. QED
      BY <2>1, <2>2, <2>3, CommitType DEF d
  <1>3. CASE UpdateProductStatus(a)
    <2>1. PICK p \in Ids, s \in Statuses : Commit(a, [Db EXCEPT !.products[p].status = s])
      BY <1>3 DEF UpdateProductStatus
    <2> DEFINE d == [Db EXCEPT !.products[p].status = s]
               row == [Db.products[p] EXCEPT !.status = s]
    <2>2. row \in Products /\ row.status = s
      BY <1>d DEF Contents, Products
    <2>3. d.products = [Db.products EXCEPT ![p] = row] /\ d \in Contents
      BY <1>d, <2>2 DEF Contents
    <2>4. \A q \in Ids : Db.products[q].status \in Statuses => d.products[q].status \in Statuses
      BY <1>d, <2>2, <2>3 DEF Contents
    <2> HIDE DEF d
    <2>5. QED
      BY <2>1, <2>3, <2>4, CommitType DEF d
  <1>4. QED
    BY <1>1, <1>2, <1>3 DEF Change

\* A request that ends leaves everything else as it is.
LEMMA LeaveType == ASSUME TypeInv, NEW r \in Readers, Leave(r) PROVE TypeInv'
  <1>1. 1 \in 1..Len(states)
    BY CatalogAssumption DEF TypeInv, TypeOK
  <1>2. TypeOK'
    BY <1>1 DEF TypeInv, TypeOK, Leave, Goto, redis
  <1>3. RankedStay'
    BY DEF TypeInv, TypeOK, RankedStay, Leave, Goto, Db
  <1>4. QED
    BY <1>2, <1>3 DEF TypeInv

LEMMA ReadSourceType == ASSUME TypeInv, NEW r \in Readers, ReadSource(r) PROVE TypeInv'
  <1>1. PICK a \in First(asks[r], Db) :
          /\ answer' = [answer EXCEPT ![r] = a]
          /\ Goto(r, IF asks[r].kind \in ListKinds THEN "second" ELSE AfterSource(r, a))
    BY DEF ReadSource
  <1>2. asks[r] \in Keys /\ Db \in Contents
    BY PresentType DEF ReadSource, TypeInv, TypeOK
  <1>3. /\ asks[r].kind \in ListKinds => a \in Lists
        /\ asks[r].kind \notin ListKinds => a \in Pages \cup {NotFound}
    BY <1>1, <1>2, FirstType
  <1>4. Lists \subseteq Pages
    BY DEF Pages
  <1>5. TypeOK'
    BY <1>1, <1>3, <1>4 DEF TypeInv, TypeOK, ReadSource, Goto, AfterSource, AtWork, redis
  <1>6. asks[r].kind = "search" => \A p \in DOMAIN a.items : Db.products[p].status \in Statuses
    <2> SUFFICES ASSUME asks[r].kind = "search", NEW p \in DOMAIN a.items
                 PROVE  Db.products[p].status \in Statuses
      OBVIOUS
    <2>1. PICK T \in RankedOf(asks[r], Matching(asks[r], Db)) :
            a = [is |-> "list",
                 total |-> IF T = {} THEN 0 ELSE Cardinality(Matching(asks[r], Db)),
                 items |-> [q \in T |-> Db.products[q].status]]
      BY <1>1 DEF First
    <2>2. p \in Matching(asks[r], Db)
      BY <2>1 DEF RankedOf
    <2>3. QED
      BY <2>2 DEF Matching, Shown, Statuses
  <1>7. asks[r].kind = "browse" => \A p \in DOMAIN a.items : Db.products[p].status \in Statuses
    <2> SUFFICES ASSUME asks[r].kind = "browse", NEW p \in DOMAIN a.items
                 PROVE  Db.products[p].status \in Statuses
      OBVIOUS
    <2>1. a = [is |-> "list", total |-> 0,
               items |-> [q \in NewestOf(asks[r], Matching(asks[r], Db))
                            |-> Db.products[q].status]]
      BY <1>1 DEF First
    <2>2. p \in Matching(asks[r], Db)
      BY <2>1 DEF NewestOf
    <2>3. QED
      BY <2>2 DEF Matching, Shown, Statuses
  <1>8. RankedStay'
    <2> SUFFICES ASSUME NEW s \in Readers, pc'[s] = "second", NEW p \in DOMAIN answer'[s].items
                 PROVE  Db.products[p].status \in Statuses
      BY DEF RankedStay, ReadSource, Db
    <2>1. CASE s = r
      <3>1. answer'[r] = a
        BY <1>1 DEF TypeInv, TypeOK
      <3>2. asks[r].kind \in ListKinds
        BY <1>1, <2>1 DEF TypeInv, TypeOK, Goto, AfterSource
      <3>3. QED
        BY <1>6, <1>7, <2>1, <3>1, <3>2 DEF ListKinds
    <2>2. CASE s # r
      BY <1>1, <2>2 DEF TypeInv, TypeOK, RankedStay, Goto
    <2>3. QED
      BY <2>1, <2>2
  <1>9. QED
    BY <1>5, <1>8 DEF TypeInv

LEMMA ReadSecondType == ASSUME TypeInv, NEW r \in Readers, ReadSecond(r) PROVE TypeInv'
  <1> DEFINE a == Second(asks[r], answer[r], Db)
  <1>1. /\ asks[r] \in Keys /\ asks[r].kind \in ListKinds
        /\ answer[r] \in Lists /\ Db \in Contents
    BY PresentType DEF ReadSecond, TypeInv, TypeOK
  <1>2. \A p \in DOMAIN answer[r].items : Db.products[p].status \in Statuses
    BY DEF TypeInv, RankedStay, ReadSecond
  <1>3. a \in Lists
    BY <1>1, <1>2, SecondType
  <1>4. a \in Pages /\ answer' = [answer EXCEPT ![r] = a]
    BY <1>3 DEF Pages, ReadSecond
  <1> HIDE DEF a
  <1>5. TypeOK'
    BY <1>3, <1>4 DEF TypeInv, TypeOK, ReadSecond, Goto, AfterSource, AtWork, redis
  <1>6. RankedStay'
    BY <1>4 DEF TypeInv, TypeOK, RankedStay, ReadSecond, Goto, AfterSource, Db
  <1>7. QED
    BY <1>5, <1>6 DEF TypeInv

LEMMA WithoutType ==
    ASSUME NEW s \in Stores, NEW v \in Versions, NEW k \in Keys
    PROVE  Without(s, v, k) \in Stores
  BY DEF Without, Stores

LEMMA TypeStep == TypeInv /\ [Next]_vars => TypeInv'
  <1> SUFFICES ASSUME TypeInv, [Next]_vars PROVE TypeInv'
    OBVIOUS
  <1>s. \* steps that leave the database, and no request at its second statement, alone
        ASSUME UNCHANGED states,
               \A r \in Readers : pc'[r] = "second" => pc[r] = "second" /\ answer'[r] = answer[r]
        PROVE  RankedStay'
    BY <1>s DEF TypeInv, RankedStay, Db
  <1>1. ASSUME NEW r \in Readers, NEW k \in Keys, Ask(r, k) PROVE TypeInv'
    <2>1. Len(states) \in 1..Len(states) /\ acked \in 1..Len(states)
      BY DEF TypeInv, TypeOK
    <2>2. TypeOK'
      BY <1>1, <2>1 DEF TypeInv, TypeOK, Ask, Goto, AtWork, redis
    <2>3. RankedStay'
      BY <1>1, <1>s DEF TypeInv, TypeOK, Ask, Goto
    <2>4. QED
      BY <2>2, <2>3 DEF TypeInv
  <1>2. ASSUME NEW r \in Readers, BuildKey(r) PROVE TypeInv'
    <2>1. version \in Versions /\ version # NoVersion
      BY DEF TypeInv, TypeOK, Versions, NoVersion
    <2>2. TypeOK'
      BY <1>2, <2>1 DEF TypeInv, TypeOK, BuildKey, Goto, AtWork, redis
    <2>3. RankedStay'
      BY <1>2, <1>s DEF TypeInv, TypeOK, BuildKey, Goto
    <2>4. QED
      BY <2>2, <2>3 DEF TypeInv
  <1>3. ASSUME NEW r \in Readers, BuildKeyFails(r) \/ Miss(r) \/ StoreFails(r) PROVE TypeInv'
    <2>1. TypeOK'
      BY <1>3 DEF TypeInv, TypeOK, BuildKeyFails, Miss, StoreFails, Goto, AtWork, redis
    <2>2. RankedStay'
      BY <1>3, <1>s DEF TypeInv, TypeOK, BuildKeyFails, Miss, StoreFails, Goto
    <2>3. QED
      BY <2>1, <2>2 DEF TypeInv
  <1>4. ASSUME NEW r \in Readers, Hit(r) PROVE TypeInv'
    <2>1. ver[r] \in Versions /\ asks[r] \in Keys
      BY <1>4 DEF TypeInv, TypeOK, Hit
    <2>2. Cached(r) \in Pages
      BY <1>4, <2>1 DEF TypeInv, TypeOK, Stores, Cached, Hit
    <2>3. TypeOK'
      BY <1>4, <2>2 DEF TypeInv, TypeOK, Hit, Goto, AtWork, redis
    <2>4. RankedStay'
      BY <1>4, <1>s DEF TypeInv, TypeOK, Hit, Goto
    <2>5. QED
      BY <2>3, <2>4 DEF TypeInv
  <1>5. ASSUME NEW r \in Readers, Store(r) PROVE TypeInv'
    <2>1. ver[r] \in Versions /\ asks[r] \in Keys /\ answer[r] \in Pages
      BY <1>5 DEF TypeInv, TypeOK, Store
    <2>2. store' \in Stores
      BY <1>5, <2>1 DEF TypeInv, TypeOK, Stores, Store, StoredUnder
    <2>3. TypeOK'
      BY <1>5, <2>2 DEF TypeInv, TypeOK, Store, Goto, AtWork
    <2>4. RankedStay'
      BY <1>5, <1>s DEF TypeInv, TypeOK, Store, Goto
    <2>5. QED
      BY <2>3, <2>4 DEF TypeInv
  <1>6. ASSUME NEW a \in Admins, BumpVersion(a) \/ BumpFails(a) \/ AdminFails(a) PROVE TypeInv'
    <2>1. writing' = [writing EXCEPT ![a] = 0] /\ UNCHANGED <<states, store, saved, reading>>
      BY <1>6 DEF BumpVersion, BumpFails, AdminFails, Acknowledge, redis
    <2>2. acked' \in 1..Len(states)
      BY <1>6 DEF TypeInv, TypeOK, BumpVersion, BumpFails, AdminFails, Acknowledge
    <2>3. version' \in Versions
      BY <1>6, CatalogAssumption
      DEF TypeInv, TypeOK, BumpVersion, BumpFails, AdminFails, Versions, redis
    <2>4. TypeOK'
      BY <2>1, <2>2, <2>3, CatalogAssumption DEF TypeInv, TypeOK, reading
    <2>5. RankedStay'
      BY <2>1, <1>s DEF reading
    <2>6. QED
      BY <2>4, <2>5 DEF TypeInv
  <1>7. ASSUME NEW v \in Versions, NEW k \in Keys, Expire(v, k) \/ ExpireSaved(v, k)
        PROVE  TypeInv'
    <2>1. Without(store, v, k) \in Stores /\ Without(saved.store, v, k) \in Stores
      BY WithoutType DEF TypeInv, TypeOK
    <2>2. saved' = [version |-> saved.version, store |-> Without(saved.store, v, k)]
      BY <1>7 DEF TypeInv, TypeOK, Expire, ExpireSaved
    <2>3. TypeOK'
      BY <1>7, <2>1, <2>2 DEF TypeInv, TypeOK, Expire, ExpireSaved, reading
    <2>4. RankedStay'
      BY <1>7, <1>s DEF Expire, ExpireSaved, reading
    <2>5. QED
      BY <2>3, <2>4 DEF TypeInv
  <1>8. ASSUME Save \/ RedisRestarts PROVE TypeInv'
    <2>1. TypeOK'
      BY <1>8 DEF TypeInv, TypeOK, Save, RedisRestarts, reading
    <2>2. RankedStay'
      BY <1>8, <1>s DEF Save, RedisRestarts, reading
    <2>3. QED
      BY <2>1, <2>2 DEF TypeInv
  <1>9. CASE UNCHANGED vars
    BY <1>9 DEF vars, redis, reading, TypeInv, TypeOK, RankedStay, Db
  <1>10. QED
    BY <1>1, <1>2, <1>3, <1>4, <1>5, <1>6, <1>7, <1>8, <1>9, LeaveType, ReadSourceType,
       ReadSecondType, ChangeType
    DEF Next, Answering, Send, ReaderFails, Expiry

\* TypeOK for any constants: what is cached is a page of the catalog, and what a
\* request has in hand is one too, or a 404.
THEOREM TypeCorrect == Spec => []TypeOK
  <1>1. Spec => []TypeInv
    BY TypeInit, TypeStep, PTL DEF Spec
  <1>2. TypeInv => TypeOK
    BY DEF TypeInv
  <1>3. QED
    BY <1>1, <1>2, PTL
-----------------------------------------------------------------------------
(* The past stays as it is *)

\* Every step keeps the contents the database has had.
StatesGrow ==
    /\ Len(states) <= Len(states')
    /\ \A i \in 1..Len(states) : states'[i] = states[i]

LEMMA Growth == ASSUME TypeInv, [Next]_vars PROVE StatesGrow
  <1>1. ASSUME NEW a \in Admins, Change(a) PROVE StatesGrow
    <2>1. PICK d : states' = Append(states, d)
      BY <1>1 DEF Change, CreateCategory, CreateProduct, UpdateProductStatus, Commit
    <2>2. states \in Seq(Contents)
      BY DEF TypeInv, TypeOK
    <2>3. QED
      BY <2>1, <2>2 DEF StatesGrow
  <1>2. CASE UNCHANGED states
    BY <1>2 DEF StatesGrow, TypeInv, TypeOK
  <1>3. ASSUME NEW r \in Readers, (\E k \in Keys : Ask(r, k)) \/ Answering(r) \/ ReaderFails(r)
        PROVE  UNCHANGED states
    BY <1>3 DEF Ask, Answering, BuildKey, BuildKeyFails, Hit, Miss, ReadSource, ReadSecond, Store,
                StoreFails, Send, ReaderFails, Leave
  <1>4. ASSUME NEW a \in Admins, BumpVersion(a) \/ BumpFails(a) \/ AdminFails(a)
        PROVE  UNCHANGED states
    BY <1>4 DEF BumpVersion, BumpFails, AdminFails
  <1>5. Expiry \/ Save \/ RedisRestarts \/ UNCHANGED vars => UNCHANGED states
    BY DEF Expiry, Expire, ExpireSaved, Save, RedisRestarts, vars
  <1>6. QED
    BY <1>1, <1>2, <1>3, <1>4, <1>5 DEF Next

LEMMA SinceStays ==
    ASSUME TypeInv, TypeInv', StatesGrow,
           NEW k, NEW a, NEW start \in Nat \ {0}, Since(k, a, start)
    PROVE  Since(k, a, start)'
  <1>1. PICK i \in start..Len(states), j \in start..Len(states) :
          i <= j /\ a \in Answers(k, states[i], states[j])
    BY DEF Since
  <1>2. Len(states) \in Nat /\ Len(states') \in Nat
    BY CatalogAssumption DEF TypeInv, TypeOK
  <1>3. /\ i \in start..Len(states') /\ j \in start..Len(states')
        /\ states'[i] = states[i] /\ states'[j] = states[j]
    BY <1>1, <1>2 DEF StatesGrow
  <1>4. QED
    BY <1>1, <1>3 DEF Since

\* An answer that is current since some moment is current since any earlier one.
LEMMA SinceEarlier ==
    ASSUME TypeInv, NEW k, NEW a, NEW start \in Nat \ {0}, NEW earlier \in Nat \ {0},
           earlier <= start, Since(k, a, start)
    PROVE  Since(k, a, earlier)
  <1>1. Len(states) \in Nat
    BY CatalogAssumption DEF TypeInv, TypeOK
  <1>2. QED
    BY <1>1 DEF Since

\* What the source says in its only statement is current since now.
LEMMA SinceNow ==
    ASSUME TypeInv, NEW k \in Keys, NEW a \in First(k, Db), k.kind \notin ListKinds,
           NEW start \in 1..Len(states)
    PROVE  Since(k, a, start)
  <1>1. Second(k, a, Db) = a
    BY DEF Second, ListKinds
  <1>2. a \in Answers(k, Db, Db)
    BY <1>1 DEF Answers
  <1>3. Len(states) \in start..Len(states)
    BY CatalogAssumption DEF TypeInv, TypeOK
  <1>4. QED
    BY <1>2, <1>3 DEF Since, Db
-----------------------------------------------------------------------------
(* A 404 is not a cached one *)

NotFoundInv == TypeInv /\ NotFoundIsCurrent

LEMMA NotFoundStep == NotFoundInv /\ [Next]_vars => NotFoundInv'
  <1> SUFFICES ASSUME NotFoundInv, [Next]_vars PROVE NotFoundIsCurrent'
    BY TypeStep DEF NotFoundInv
  <1>t. TypeInv /\ TypeInv' /\ StatesGrow
    BY TypeStep, Growth DEF NotFoundInv
  <1>f. NotFound \notin Pages
    BY DEF NotFound, Pages, Lists
  <1>k. \* a request that had its 404 before the step keeps it
        ASSUME NEW r \in Readers, pc[r] = "send", answer[r] = NotFound,
               asks'[r] = asks[r], from'[r] = from[r]
        PROVE  (Since(asks[r], NotFound, from[r]))'
    <2>1. PICK k, start : k = asks[r] /\ start = from[r]
      OBVIOUS
    <2>2. Since(k, NotFound, start) /\ start \in Nat \ {0}
      BY <1>k, <2>1 DEF NotFoundInv, NotFoundIsCurrent, TypeInv, TypeOK
    <2>3. Since(k, NotFound, start)'
      BY <1>t, <2>2, SinceStays
    <2>4. QED
      BY <1>k, <2>1, <2>3
  <1> SUFFICES ASSUME NEW r \in Readers, pc'[r] = "send", answer'[r] = NotFound
               PROVE  \/ /\ pc[r] = "send" /\ answer[r] = NotFound
                         /\ asks'[r] = asks[r] /\ from'[r] = from[r]
                      \/ (Since(asks[r], NotFound, from[r]))'
    BY <1>k DEF NotFoundIsCurrent
  <1> DEFINE Kept == /\ pc[r] = "send" /\ answer[r] = NotFound
                     /\ asks'[r] = asks[r] /\ from'[r] = from[r]
  <1>1. ASSUME NEW s \in Readers, NEW k \in Keys, Ask(s, k) PROVE Kept
    BY <1>1, <1>t DEF TypeInv, TypeOK, Ask, Goto
  <1>2. ASSUME NEW s \in Readers, BuildKey(s) \/ BuildKeyFails(s) \/ Miss(s) \/ Send(s)
                                  \/ ReaderFails(s)
        PROVE  Kept
    BY <1>2, <1>t DEF TypeInv, TypeOK, BuildKey, BuildKeyFails, Miss, Send, ReaderFails, Leave, Goto
  <1>3. ASSUME NEW s \in Readers, Hit(s) PROVE Kept
    <2>1. ver[s] \in Versions /\ asks[s] \in Keys
      BY <1>3 DEF NotFoundInv, TypeInv, TypeOK, Hit
    <2>2. Cached(s) # NotFound
      BY <1>3, <1>f, <2>1 DEF NotFoundInv, TypeInv, TypeOK, Stores, Hit, Cached
    <2>3. QED
      BY <1>3, <2>2 DEF NotFoundInv, TypeInv, TypeOK, Hit, Goto
  <1>4. ASSUME NEW s \in Readers, ReadSource(s) PROVE Kept \/ (Since(asks[r], NotFound, from[r]))'
    <2>1. CASE s # r
      BY <1>4, <2>1 DEF NotFoundInv, TypeInv, TypeOK, ReadSource, Goto
    <2>2. CASE s = r
      <3>1. /\ NotFound \in First(asks[r], Db)
            /\ asks[r].kind \notin ListKinds
            /\ UNCHANGED <<states, asks, from>>
        BY <1>4, <2>2 DEF NotFoundInv, TypeInv, TypeOK, ReadSource, Goto
      <3>2. PICK k, start : k = asks[r] /\ start = from[r]
        OBVIOUS
      <3>3. k \in Keys /\ start \in 1..Len(states)
        BY <1>4, <2>2, <3>2 DEF NotFoundInv, TypeInv, TypeOK, ReadSource
      <3>4. Since(k, NotFound, start)
        BY <1>t, <3>1, <3>2, <3>3, SinceNow
      <3>5. Since(k, NotFound, start)'
        BY <3>1, <3>4 DEF Since
      <3>6. QED
        BY <3>1, <3>2, <3>5
    <2>3. QED
      BY <2>1, <2>2
  <1>5. ASSUME NEW s \in Readers, ReadSecond(s) PROVE Kept
    <2>1. CASE s # r
      BY <1>5, <2>1 DEF NotFoundInv, TypeInv, TypeOK, ReadSecond, Goto
    <2>2. CASE s = r
      <3>1. /\ asks[r] \in Keys /\ asks[r].kind \in ListKinds
            /\ answer[r] \in Lists /\ Db \in Contents
        BY <1>5, <1>t, <2>2, PresentType DEF ReadSecond, TypeInv, TypeOK
      <3>2. \A p \in DOMAIN answer[r].items : Db.products[p].status \in Statuses
        BY <1>5, <1>t, <2>2 DEF TypeInv, RankedStay, ReadSecond
      <3>3. Second(asks[r], answer[r], Db) \in Lists
        BY <3>1, <3>2, SecondType
      <3>4. answer'[r] \in Lists
        BY <1>5, <1>t, <2>2, <3>3 DEF ReadSecond, TypeInv, TypeOK
      <3>5. QED
        BY <1>f, <3>4 DEF Pages
    <2>3. QED
      BY <2>1, <2>2
  <1>6. ASSUME NEW s \in Readers, Store(s) \/ StoreFails(s) PROVE Kept
    BY <1>6, <1>t, <1>f DEF TypeInv, TypeOK, Store, StoreFails, Goto
  <1>7. CASE UNCHANGED reading
    BY <1>7 DEF reading
  <1>8. ASSUME NEW a \in Admins, Change(a) \/ BumpVersion(a) \/ BumpFails(a) \/ AdminFails(a)
        PROVE  UNCHANGED reading
    BY <1>8 DEF Change, CreateCategory, CreateProduct, UpdateProductStatus, Commit,
                BumpVersion, BumpFails, AdminFails
  <1>9. Expiry \/ Save \/ RedisRestarts \/ UNCHANGED vars => UNCHANGED reading
    BY DEF Expiry, Expire, ExpireSaved, Save, RedisRestarts, vars
  <1>10. QED
    BY <1>1, <1>2, <1>3, <1>4, <1>5, <1>6, <1>7, <1>8, <1>9 DEF Next, Answering

\* A 404 is never a cached one, for any constants and whatever Redis loses.
THEOREM MissingIsMissing == Spec => []NotFoundIsCurrent
  <1>1. Init => NotFoundInv
    BY TypeInit DEF Init, NotFoundInv, NotFoundIsCurrent
  <1>2. Spec => []NotFoundInv
    BY <1>1, NotFoundStep, PTL DEF Spec
  <1>3. NotFoundInv => NotFoundIsCurrent
    BY DEF NotFoundInv
  <1>4. QED
    BY <1>2, <1>3, PTL
-----------------------------------------------------------------------------
(* An answer reflects what was acknowledged before it was asked for.  What *)
(* is cached under the present version has been read since the last change *)
(* acknowledged, because the version was read before the rows; and what is *)
(* or will be cached under an older one is recent enough for any request   *)
(* that still holds that version.                                          *)

\* What r has in hand comes from contents at or after start.
InHand(r, start) ==
    /\ pc[r] = "second" =>
         \E i \in start..Len(states) : answer[r] \in First(asks[r], states[i])
    /\ pc[r] = "store" => Since(asks[r], answer[r], start)

CacheFresh ==
    /\ \A v \in Versions : v > version => \A k \in Keys : store[v][k] = NoAnswer
    /\ \A k \in Keys : store[version][k] # NoAnswer => Since(k, store[version][k], acked)

ReadersFresh ==
    /\ \A r \in Readers : ver[r] <= version /\ floor[r] <= acked
    /\ \A r \in Readers : InHand(r, floor[r])
    /\ \A r \in Readers : ver[r] = version => InHand(r, acked)
    /\ \A r, s \in Readers : pc[s] = "lookup" /\ ver[r] = ver[s] => InHand(r, floor[s])
    /\ \A r \in Readers, k \in Keys :
          pc[r] = "lookup" /\ store[ver[r]][k] # NoAnswer => Since(k, store[ver[r]][k], floor[r])

FreshInv == TypeInv /\ CacheFresh /\ ReadersFresh /\ AcknowledgedWritesAreSeen

\* What a request has in hand stays as recent when the request does not move.
LEMMA InHandStays ==
    ASSUME TypeInv, TypeInv', StatesGrow, NEW r \in Readers, NEW start \in Nat \ {0},
           InHand(r, start),
           pc'[r] = pc[r], asks'[r] = asks[r], answer'[r] = answer[r]
    PROVE  InHand(r, start)'
  <1>1. Len(states) \in Nat /\ Len(states') \in Nat
    BY CatalogAssumption DEF TypeInv, TypeOK
  <1>2. ASSUME pc[r] = "second"
        PROVE  \E i \in start..Len(states') : answer[r] \in First(asks[r], states'[i])
    <2>1. PICK i \in start..Len(states) : answer[r] \in First(asks[r], states[i])
      BY <1>2 DEF InHand
    <2>2. i \in start..Len(states') /\ states'[i] = states[i]
      BY <1>1, <2>1 DEF StatesGrow
    <2>3. QED
      BY <2>1, <2>2
  <1>3. ASSUME pc[r] = "store" PROVE (Since(asks[r], answer[r], start))'
    <2>1. PICK k, a : k = asks[r] /\ a = answer[r]
      OBVIOUS
    <2>2. Since(k, a, start)'
      BY <1>3, <2>1, SinceStays DEF InHand
    <2>3. QED
      BY <2>1, <2>2
  <1>4. QED
    BY <1>2, <1>3 DEF InHand

LEMMA InHandEarlier ==
    ASSUME TypeInv, NEW r \in Readers, NEW start \in Nat \ {0}, NEW earlier \in Nat \ {0},
           earlier <= start, InHand(r, start)
    PROVE  InHand(r, earlier)
  <1>1. Len(states) \in Nat
    BY CatalogAssumption DEF TypeInv, TypeOK
  <1>2. pc[r] = "store" => Since(asks[r], answer[r], earlier)
    BY SinceEarlier DEF InHand
  <1>3. QED
    BY <1>1, <1>2 DEF InHand

\* Answers that only disappear leave the cache fresh.
LEMMA CacheStays ==
    ASSUME FreshInv, TypeInv', StatesGrow, version' = version, acked' = acked,
           \A v \in Versions, k \in Keys :
              store'[v][k] = store[v][k] \/ store'[v][k] = NoAnswer
    PROVE  CacheFresh'
  <1>1. version \in Versions /\ acked \in Nat \ {0}
    BY DEF FreshInv, TypeInv, TypeOK
  <1>2. ASSUME NEW k \in Keys, store'[version][k] # NoAnswer
        PROVE  (Since(k, store[version][k], acked))'
    <2>1. store'[version][k] = store[version][k]
      BY <1>1, <1>2
    <2>2. PICK a, start : a = store[version][k] /\ start = acked
      OBVIOUS
    <2>3. Since(k, a, start)
      BY <1>2, <2>1, <2>2 DEF FreshInv, CacheFresh
    <2>4. Since(k, a, start)'
      BY <1>1, <2>2, <2>3, SinceStays DEF FreshInv
    <2>5. QED
      BY <2>1, <2>2, <2>4
  <1>3. QED
    BY <1>1, <1>2 DEF FreshInv, CacheFresh

\* A step of nobody's request.
LEMMA ReadersStay ==
    ASSUME FreshInv, TypeInv', StatesGrow, version' = version, acked' = acked,
           UNCHANGED reading,
           \A v \in Versions, k \in Keys :
              store'[v][k] = store[v][k] \/ store'[v][k] = NoAnswer
    PROVE  ReadersFresh' /\ AcknowledgedWritesAreSeen'
  <1>t. TypeInv
    BY DEF FreshInv
  <1>1. acked \in Nat \ {0} /\ \A r \in Readers : floor[r] \in Nat \ {0}
    BY <1>t DEF TypeInv, TypeOK
  <1>2. \A r \in Readers, start \in Nat \ {0} : InHand(r, start) => InHand(r, start)'
    BY <1>t, InHandStays DEF reading
  <1>3. \A start \in Nat \ {0} : \A k, a : Since(k, a, start) => Since(k, a, start)'
    <2> SUFFICES ASSUME NEW k, NEW a, NEW start \in Nat \ {0}, Since(k, a, start)
                 PROVE  Since(k, a, start)'
      OBVIOUS
    <2> QED
      BY <1>t, SinceStays
  <1>4. ASSUME NEW r \in Readers, NEW k \in Keys, pc[r] = "lookup", store'[ver[r]][k] # NoAnswer
        PROVE  (Since(k, store[ver[r]][k], floor[r]))'
    <2>1. ver[r] \in Versions
      BY <1>4, <1>t DEF TypeInv, TypeOK
    <2>2. store'[ver[r]][k] = store[ver[r]][k]
      BY <1>4, <2>1
    <2>3. PICK a, start : a = store[ver[r]][k] /\ start = floor[r]
      OBVIOUS
    <2>4. Since(k, a, start)'
      BY <1>1, <1>3, <1>4, <2>2, <2>3 DEF FreshInv, ReadersFresh
    <2>5. QED
      BY <2>2, <2>3, <2>4 DEF reading
  <1>5. ASSUME NEW r \in Readers, pc[r] = "send" PROVE (Since(asks[r], answer[r], floor[r]))'
    <2>1. PICK k, a, start : k = asks[r] /\ a = answer[r] /\ start = floor[r]
      OBVIOUS
    <2>2. Since(k, a, start)'
      BY <1>1, <1>3, <1>5, <2>1 DEF FreshInv, AcknowledgedWritesAreSeen
    <2>3. QED
      BY <2>1, <2>2 DEF reading
  <1>6. ReadersFresh'
    BY <1>1, <1>2, <1>4 DEF FreshInv, ReadersFresh, reading
  <1>7. QED
    BY <1>5, <1>6 DEF AcknowledgedWritesAreSeen, reading

\* A step of the request r that leaves the database and the version alone, and
\* after which r has nothing else in hand than what is as recent as before.
LEMMA ReaderStep ==
    ASSUME FreshInv, TypeInv', NEW r \in Readers,
           UNCHANGED <<states, version, acked>>,
           \A s \in Readers \ {r} : /\ pc'[s] = pc[s] /\ asks'[s] = asks[s] /\ ver'[s] = ver[s]
                                    /\ answer'[s] = answer[s] /\ floor'[s] = floor[s],
           \/ pc'[r] \notin {"second", "store"} /\ ver'[r] <= version /\ floor'[r] <= acked
           \/ /\ ver'[r] = ver[r] /\ floor'[r] = floor[r]
              /\ \A start \in 1..Len(states) : InHand(r, start) => InHand(r, start)',
           pc'[r] # "lookup"
    PROVE  /\ \A s \in Readers : ver'[s] <= version /\ floor'[s] <= acked
           /\ \A s \in Readers : (InHand(s, floor[s]))'
           /\ \A s \in Readers : ver'[s] = version => (InHand(s, acked))'
           /\ \A s, q \in Readers : pc'[q] = "lookup" /\ ver'[s] = ver'[q]
                                      => (InHand(s, floor[q]))'
  <1>t. TypeInv /\ StatesGrow /\ acked \in 1..Len(states)
        /\ \A s \in Readers : floor[s] \in 1..Len(states)
    BY DEF FreshInv, TypeInv, TypeOK, StatesGrow
  <1>1. \A s \in Readers \ {r}, start \in 1..Len(states) : InHand(s, start) => InHand(s, start)'
    BY <1>t, InHandStays
  <1>2. \A s \in Readers \ {r} : pc'[s] = "lookup" => pc[s] = "lookup"
    OBVIOUS
  <1>3. CASE pc'[r] \notin {"second", "store"} /\ ver'[r] <= version /\ floor'[r] <= acked
    <2>1. \A start \in 1..Len(states) : InHand(r, start)'
      BY <1>3 DEF InHand
    <2>2. \A s \in Readers : floor'[s] \in 1..Len(states)
      BY DEF TypeInv, TypeOK
    <2>3. QED
      BY <1>t, <1>1, <1>2, <1>3, <2>1, <2>2 DEF FreshInv, ReadersFresh
  <1>4. CASE /\ ver'[r] = ver[r] /\ floor'[r] = floor[r]
             /\ \A start \in 1..Len(states) : InHand(r, start) => InHand(r, start)'
    BY <1>t, <1>1, <1>2, <1>4 DEF FreshInv, ReadersFresh
  <1>5. QED
    BY <1>3, <1>4

\* A step of r that changes nothing in the cache and sends nothing stale.
LEMMA CacheUntouched ==
    ASSUME FreshInv, TypeInv', NEW r \in Readers, UNCHANGED <<states, redis, acked>>,
           \A s \in Readers \ {r} : /\ pc'[s] = pc[s] /\ asks'[s] = asks[s] /\ ver'[s] = ver[s]
                                    /\ answer'[s] = answer[s] /\ floor'[s] = floor[s],
           pc'[r] # "lookup",
           pc'[r] = "send" => (Since(asks[r], answer[r], floor[r]))'
    PROVE  /\ CacheFresh'
           /\ \A s \in Readers, k \in Keys :
                 pc'[s] = "lookup" /\ store'[ver'[s]][k] # NoAnswer
                   => (Since(k, store[ver[s]][k], floor[s]))'
           /\ AcknowledgedWritesAreSeen'
  <1>1. CacheFresh'
    BY CacheStays DEF FreshInv, StatesGrow, TypeInv, TypeOK, redis
  <1>2. \A k, a, start : Since(k, a, start) => Since(k, a, start)'
    BY DEF Since
  <1>3. ASSUME NEW s \in Readers, NEW k \in Keys, pc'[s] = "lookup", store'[ver'[s]][k] # NoAnswer
        PROVE  (Since(k, store[ver[s]][k], floor[s]))'
    <2>1. s # r
      BY <1>3
    <2>2. PICK a, start : a = store[ver[s]][k] /\ start = floor[s]
      OBVIOUS
    <2>3. Since(k, a, start)'
      BY <1>2, <1>3, <2>1, <2>2 DEF FreshInv, ReadersFresh, redis
    <2>4. QED
      BY <2>1, <2>2, <2>3 DEF redis
  <1>4. ASSUME NEW s \in Readers, pc'[s] = "send" PROVE (Since(asks[s], answer[s], floor[s]))'
    <2>1. CASE s = r
      BY <1>4, <2>1
    <2>2. CASE s # r
      <3>1. PICK k, a, start : k = asks[s] /\ a = answer[s] /\ start = floor[s]
        OBVIOUS
      <3>2. Since(k, a, start)'
        BY <1>2, <1>4, <2>2, <3>1 DEF FreshInv, AcknowledgedWritesAreSeen
      <3>3. QED
        BY <2>2, <3>1, <3>2
    <2>3. QED
      BY <2>1, <2>2
  <1>5. QED
    BY <1>1, <1>3, <1>4 DEF AcknowledgedWritesAreSeen

\* A request that asks, misses, fails, is answered or leaves.
LEMMA SimpleStepsFresh ==
    ASSUME FreshInv, TypeInv', NEW r \in Readers,
           \/ \E k \in Keys : Ask(r, k)
           \/ BuildKeyFails(r) \/ Hit(r) \/ Miss(r) \/ StoreFails(r) \/ Send(r) \/ ReaderFails(r)
    PROVE  FreshInv'
  <1>t. TypeInv
    BY DEF FreshInv
  <1>1. /\ UNCHANGED <<states, redis, acked>>
        /\ \A s \in Readers \ {r} : /\ pc'[s] = pc[s] /\ asks'[s] = asks[s] /\ ver'[s] = ver[s]
                                    /\ answer'[s] = answer[s] /\ floor'[s] = floor[s]
        /\ pc'[r] \notin {"second", "store", "lookup"}
    BY <1>t DEF TypeInv, TypeOK, Ask, BuildKeyFails, Hit, Miss, StoreFails, Send, ReaderFails,
                Leave, Goto
  <1>2. ver'[r] <= version /\ floor'[r] <= acked
    <2>1. ver[r] <= version /\ floor[r] <= acked /\ NoVersion <= version /\ 1 <= acked
          /\ acked <= acked
      BY <1>t DEF FreshInv, ReadersFresh, TypeInv, TypeOK, Versions, NoVersion
    <2>2. ver'[r] \in {ver[r], NoVersion} /\ floor'[r] \in {floor[r], acked, 1}
      BY <1>t DEF TypeInv, TypeOK, Ask, BuildKeyFails, Hit, Miss, StoreFails, Send, ReaderFails,
                  Leave, Goto
    <2>3. QED
      BY <2>1, <2>2
  <1>3. ASSUME pc'[r] = "send" PROVE (Since(asks[r], answer[r], floor[r]))'
    <2>1. \A k, a, start : Since(k, a, start) => Since(k, a, start)'
      BY <1>1 DEF Since
    <2>2. CASE Hit(r)
      <3>1. PICK k, a, start : k = asks[r] /\ a = Cached(r) /\ start = floor[r]
        OBVIOUS
      <3>2. Since(k, a, start)
        BY <1>t, <2>2, <3>1 DEF FreshInv, ReadersFresh, TypeInv, TypeOK, Hit, Cached
      <3>3. asks'[r] = k /\ answer'[r] = a /\ floor'[r] = start
        BY <1>t, <2>2, <3>1 DEF TypeInv, TypeOK, Hit
      <3>4. Since(k, a, start)'
        BY <2>1, <3>2
      <3>5. QED
        BY <3>3, <3>4
    <2>3. CASE StoreFails(r)
      <3>1. PICK k, a, start : k = asks[r] /\ a = answer[r] /\ start = floor[r]
        OBVIOUS
      <3>2. Since(k, a, start)
        BY <2>3, <3>1 DEF FreshInv, ReadersFresh, InHand, StoreFails
      <3>3. asks'[r] = k /\ answer'[r] = a /\ floor'[r] = start
        BY <2>3, <3>1 DEF StoreFails
      <3>4. Since(k, a, start)'
        BY <2>1, <3>2
      <3>5. QED
        BY <3>3, <3>4
    <2>4. Hit(r) \/ StoreFails(r)
      BY <1>3, <1>t DEF TypeInv, TypeOK, Ask, BuildKeyFails, Miss, Send, ReaderFails, Leave, Goto
    <2>5. QED
      BY <2>2, <2>3, <2>4
  <1>4. CacheFresh' /\ AcknowledgedWritesAreSeen'
    BY <1>1, <1>3, CacheUntouched
  <1>5. ReadersFresh'
    BY <1>1, <1>2, <1>3, ReaderStep, CacheUntouched DEF ReadersFresh, redis
  <1>6. QED
    BY <1>4, <1>5 DEF FreshInv

\* A request that gets its version may find what is cached under it: all of it
\* read since the last change acknowledged, and so since the request came.
LEMMA BuildKeyFresh ==
    ASSUME FreshInv, TypeInv', NEW r \in Readers, BuildKey(r)
    PROVE  FreshInv'
  <1>t. /\ TypeInv /\ StatesGrow /\ acked \in 1..Len(states) /\ Len(states) \in Nat
        /\ \A s \in Readers : floor[s] \in 1..Len(states)
    BY CatalogAssumption DEF FreshInv, TypeInv, TypeOK, StatesGrow, BuildKey
  <1>1. /\ UNCHANGED <<states, redis, acked, asks, answer, floor>>
        /\ \A s \in Readers \ {r} : pc'[s] = pc[s] /\ ver'[s] = ver[s]
        /\ pc'[r] = "lookup" /\ ver'[r] = version
    BY <1>t DEF TypeInv, TypeOK, BuildKey, Goto
  <1>2. \A k, a, start : Since(k, a, start) => Since(k, a, start)'
    BY <1>1 DEF Since
  <1>3. /\ \A s \in Readers \ {r}, start \in 1..Len(states) : InHand(s, start) => InHand(s, start)'
        /\ \A start \in 1..Len(states) : InHand(r, start)'
    <2>1. \A s \in Readers \ {r}, start \in 1..Len(states) : InHand(s, start) => InHand(s, start)'
      BY <1>t, <1>1, InHandStays
    <2>2. QED
      BY <1>1, <2>1 DEF InHand
  <1>4. CacheFresh'
    BY <1>1, <1>t, CacheStays DEF redis
  <1>5. \A s \in Readers : ver'[s] <= version /\ floor'[s] <= acked
    <2>1. version \in Nat
      BY <1>t, CatalogAssumption DEF TypeInv, TypeOK, Versions
    <2>2. \A s \in Readers : ver[s] <= version /\ floor[s] <= acked
      BY DEF FreshInv, ReadersFresh
    <2>3. \A s \in Readers : ver'[s] = ver[s] \/ ver'[s] = version
      BY <1>1
    <2>4. QED
      BY <1>1, <2>1, <2>2, <2>3
  <1>6. \A s \in Readers : (InHand(s, floor[s]))'
    BY <1>t, <1>1, <1>3 DEF FreshInv, ReadersFresh
  <1>7. \A s \in Readers : ver'[s] = version => (InHand(s, acked))'
    BY <1>t, <1>1, <1>3 DEF FreshInv, ReadersFresh
  <1>8. ASSUME NEW s \in Readers, NEW q \in Readers, pc'[q] = "lookup", ver'[s] = ver'[q]
        PROVE  (InHand(s, floor[q]))'
    <2>1. CASE q # r /\ s # r
      BY <1>t, <1>1, <1>3, <1>8, <2>1 DEF FreshInv, ReadersFresh
    <2>2. CASE s = r
      BY <1>t, <1>1, <1>3, <2>2
    <2>3. CASE q = r /\ s # r
      <3>1. InHand(s, acked) /\ floor[r] <= acked
        BY <1>1, <1>8, <2>3 DEF FreshInv, ReadersFresh
      <3>2. InHand(s, floor[r])
        BY <1>t, <3>1, InHandEarlier
      <3>3. QED
        BY <1>t, <1>1, <1>3, <2>3, <3>2
    <2>4. QED
      BY <2>1, <2>2, <2>3
  <1>9. ASSUME NEW s \in Readers, NEW k \in Keys, pc'[s] = "lookup", store'[ver'[s]][k] # NoAnswer
        PROVE  (Since(k, store[ver[s]][k], floor[s]))'
    <2>1. PICK a, start : a = store[ver'[s]][k] /\ start = floor[s]
      OBVIOUS
    <2>2. CASE s # r
      BY <1>1, <1>2, <1>9, <2>1, <2>2 DEF FreshInv, ReadersFresh, redis
    <2>3. CASE s = r
      <3>1. Since(k, a, acked)
        BY <1>1, <1>9, <2>1, <2>3 DEF FreshInv, CacheFresh, redis
      <3>2. start <= acked
        BY <2>1 DEF FreshInv, ReadersFresh
      <3>3. Since(k, a, start)
        BY <1>t, <2>1, <3>1, <3>2, SinceEarlier
      <3>4. Since(k, a, start)'
        BY <1>2, <3>3
      <3>5. QED
        BY <1>1, <2>1, <3>4 DEF redis
    <2>4. QED
      BY <2>2, <2>3
  <1>10. ReadersFresh'
    BY <1>1, <1>5, <1>6, <1>7, <1>8, <1>9 DEF ReadersFresh, redis
  <1>11. ASSUME NEW s \in Readers, pc'[s] = "send" PROVE (Since(asks[s], answer[s], floor[s]))'
    <2>1. PICK k, a, start : k = asks[s] /\ a = answer[s] /\ start = floor[s]
      OBVIOUS
    <2>2. pc[s] = "send"
      BY <1>1, <1>11
    <2>3. Since(k, a, start)'
      BY <1>2, <2>1, <2>2 DEF FreshInv, AcknowledgedWritesAreSeen
    <2>4. QED
      BY <1>1, <2>1, <2>3
  <1>12. AcknowledgedWritesAreSeen'
    BY <1>11 DEF AcknowledgedWritesAreSeen
  <1>13. QED
    BY <1>4, <1>10, <1>12 DEF FreshInv

\* What the source says now is as recent as can be.
LEMMA ReadSourceFresh ==
    ASSUME FreshInv, TypeInv', NEW r \in Readers, ReadSource(r)
    PROVE  FreshInv'
  <1>t. /\ TypeInv /\ Len(states) \in Nat \ {0} /\ floor[r] \in 1..Len(states)
    BY CatalogAssumption DEF FreshInv, TypeInv, TypeOK
  <1>1. PICK a \in First(asks[r], Db) :
          /\ answer' = [answer EXCEPT ![r] = a]
          /\ Goto(r, IF asks[r].kind \in ListKinds THEN "second" ELSE AfterSource(r, a))
    BY DEF ReadSource
  <1>2. /\ UNCHANGED <<states, redis, acked, asks, ver, floor>>
        /\ \A s \in Readers \ {r} : pc'[s] = pc[s] /\ answer'[s] = answer[s]
        /\ answer'[r] = a
        /\ pc'[r] = "second" \/ (pc'[r] \in {"send", "store"} /\ asks[r].kind \notin ListKinds)
    BY <1>t, <1>1 DEF TypeInv, TypeOK, ReadSource, Goto, AfterSource
  <1>3. PICK k : k = asks[r]
    OBVIOUS
  <1>4. k \in Keys
    BY <1>t, <1>3 DEF TypeInv, TypeOK, ReadSource
  <1>5. k.kind \notin ListKinds => \A start \in 1..Len(states) : Since(k, a, start)
    BY <1>t, <1>1, <1>3, <1>4, SinceNow
  <1>6. k.kind \notin ListKinds => \A start \in 1..Len(states) : Since(k, a, start)'
    BY <1>2, <1>5 DEF Since
  <1>7. \A start \in 1..Len(states) : InHand(r, start)'
    <2> SUFFICES ASSUME NEW start \in 1..Len(states) PROVE InHand(r, start)'
      OBVIOUS
    <2>1. Len(states) \in start..Len(states) /\ a \in First(asks[r], states[Len(states)])
      BY <1>t, <1>1 DEF Db
    <2>2. pc'[r] = "second" =>
            \E i \in start..Len(states') : answer'[r] \in First(asks'[r], states'[i])
      BY <1>2, <2>1
    <2>3. pc'[r] = "store" => (Since(asks[r], answer[r], start))'
      BY <1>2, <1>3, <1>6
    <2>4. QED
      BY <2>2, <2>3 DEF InHand
  <1>8. pc'[r] = "send" => (Since(asks[r], answer[r], floor[r]))'
    <2>1. PICK start : start = floor[r]
      OBVIOUS
    <2>2. QED
      BY <1>t, <1>2, <1>3, <1>6, <2>1
  <1>9. CacheFresh' /\ AcknowledgedWritesAreSeen'
    BY <1>2, <1>8, CacheUntouched
  <1>10. ReadersFresh'
    BY <1>2, <1>7, <1>8, ReaderStep, CacheUntouched DEF ReadersFresh, redis
  <1>11. QED
    BY <1>9, <1>10 DEF FreshInv

\* With its second statement a list is as recent as with its first.
LEMMA ReadSecondFresh ==
    ASSUME FreshInv, TypeInv', NEW r \in Readers, ReadSecond(r)
    PROVE  FreshInv'
  <1>t. /\ TypeInv /\ Len(states) \in Nat \ {0} /\ floor[r] \in 1..Len(states)
    BY CatalogAssumption DEF FreshInv, TypeInv, TypeOK
  <1>1. PICK k, a, b : k = asks[r] /\ a = answer[r] /\ b = Second(k, a, Db)
    OBVIOUS
  <1>2. /\ UNCHANGED <<states, redis, acked, asks, ver, floor>>
        /\ \A s \in Readers \ {r} : pc'[s] = pc[s] /\ answer'[s] = answer[s]
        /\ answer'[r] = b
        /\ pc[r] = "second" /\ pc'[r] \in {"send", "store"}
    BY <1>t, <1>1 DEF TypeInv, TypeOK, ReadSecond, Goto, AfterSource
  <1>3. ASSUME NEW start \in 1..Len(states), InHand(r, start) PROVE Since(k, b, start)'
    <2>1. PICK i \in start..Len(states) : a \in First(k, states[i])
      BY <1>1, <1>2, <1>3 DEF InHand
    <2>2. b \in Answers(k, states[i], states[Len(states)])
      BY <1>1, <2>1 DEF Answers, Db
    <2>3. Len(states) \in start..Len(states) /\ i <= Len(states)
      BY <1>t, <2>1
    <2>4. Since(k, b, start)
      BY <2>1, <2>2, <2>3 DEF Since
    <2>5. QED
      BY <1>2, <2>4 DEF Since
  <1>4. ASSUME NEW start \in 1..Len(states), InHand(r, start) PROVE InHand(r, start)'
    <2>1. (Since(asks[r], answer[r], start))'
      BY <1>1, <1>2, <1>3, <1>4
    <2>2. QED
      BY <1>2, <2>1 DEF InHand
  <1>5. (Since(asks[r], answer[r], floor[r]))'
    <2>1. PICK start : start = floor[r]
      OBVIOUS
    <2>2. Since(k, b, start)'
      BY <1>t, <1>3, <2>1 DEF FreshInv, ReadersFresh
    <2>3. QED
      BY <1>1, <1>2, <2>1, <2>2
  <1>6. CacheFresh' /\ AcknowledgedWritesAreSeen'
    BY <1>2, <1>5, CacheUntouched
  <1>7. ReadersFresh'
    BY <1>2, <1>4, <1>5, ReaderStep, CacheUntouched DEF ReadersFresh, redis
  <1>8. QED
    BY <1>6, <1>7 DEF FreshInv

\* What is stored is recent enough for the version it is stored under.
LEMMA StoreFresh ==
    ASSUME FreshInv, TypeInv', NEW r \in Readers, Store(r)
    PROVE  FreshInv'
  <1>t. /\ TypeInv /\ StatesGrow /\ acked \in 1..Len(states)
        /\ version \in Versions /\ version \in Nat
        /\ ver[r] \in Versions /\ ver[r] \in Nat /\ asks[r] \in Keys
        /\ ver[r] <= version
    BY CatalogAssumption
    DEF FreshInv, ReadersFresh, TypeInv, TypeOK, StatesGrow, Store, Versions, NoVersion
  <1>1. PICK k, b : k = asks[r] /\ b = answer[r]
    OBVIOUS
  <1>2. /\ UNCHANGED <<states, version, saved, acked, asks, ver, answer, floor>>
        /\ pc[r] = "store" /\ pc'[r] = "send"
        /\ \A s \in Readers \ {r} : pc'[s] = pc[s]
        /\ \A v \in Versions, q \in Keys :
              store'[v][q] = IF v = ver[r] /\ q = k THEN b ELSE store[v][q]
    BY <1>t, <1>1 DEF TypeInv, TypeOK, Stores, Store, StoredUnder, Goto
  <1>3. \A q, a, start : Since(q, a, start) => Since(q, a, start)'
    BY <1>2 DEF Since
  <1>4. \A start : InHand(r, start) => Since(k, b, start)
    BY <1>1, <1>2 DEF InHand
  <1>5. CacheFresh'
    <2>1. \A v \in Versions : v > version => \A q \in Keys : store'[v][q] = NoAnswer
      BY <1>t, <1>2 DEF FreshInv, CacheFresh, Versions
    <2>2. ASSUME NEW q \in Keys, store'[version][q] # NoAnswer
          PROVE  (Since(q, store[version][q], acked))'
      <3>1. PICK a, start : a = store'[version][q] /\ start = acked
        OBVIOUS
      <3>2. CASE version = ver[r] /\ q = k
        <4>1. a = b /\ Since(k, b, start)
          BY <1>t, <1>2, <1>4, <3>1, <3>2 DEF FreshInv, ReadersFresh
        <4>2. Since(q, a, start)'
          BY <1>3, <3>2, <4>1
        <4>3. QED
          BY <1>2, <3>1, <4>2
      <3>3. CASE ~(version = ver[r] /\ q = k)
        <4>1. a = store[version][q]
          BY <1>t, <1>2, <3>1, <3>3
        <4>2. Since(q, a, start)
          BY <2>2, <3>1, <4>1 DEF FreshInv, CacheFresh
        <4>3. Since(q, a, start)'
          BY <1>3, <4>2
        <4>4. QED
          BY <1>2, <3>1, <4>3
      <3>4. QED
        BY <3>2, <3>3
    <2>3. QED
      BY <1>2, <2>1, <2>2 DEF CacheFresh
  <1>6. ASSUME NEW s \in Readers, NEW q \in Keys, pc'[s] = "lookup", store'[ver'[s]][q] # NoAnswer
        PROVE  (Since(q, store[ver[s]][q], floor[s]))'
    <2>1. pc[s] = "lookup" /\ ver'[s] = ver[s]
      BY <1>2, <1>6
    <2>2. ver[s] \in Versions
      BY <1>t, <2>1 DEF TypeInv, TypeOK
    <2>3. PICK a, start : a = store'[ver[s]][q] /\ start = floor[s]
      OBVIOUS
    <2>4. CASE ver[s] = ver[r] /\ q = k
      <3>1. a = b /\ Since(k, b, start)
        BY <1>2, <1>4, <2>1, <2>2, <2>3, <2>4 DEF FreshInv, ReadersFresh
      <3>2. Since(q, a, start)'
        BY <1>3, <2>4, <3>1
      <3>3. QED
        BY <1>2, <2>1, <2>3, <3>2
    <2>5. CASE ~(ver[s] = ver[r] /\ q = k)
      <3>1. a = store[ver[s]][q]
        BY <1>2, <2>2, <2>3, <2>5
      <3>2. Since(q, a, start)
        BY <1>6, <2>1, <2>3, <3>1 DEF FreshInv, ReadersFresh
      <3>3. Since(q, a, start)'
        BY <1>3, <3>2
      <3>4. QED
        BY <1>2, <2>1, <2>3, <3>3
    <2>6. QED
      BY <2>4, <2>5
  <1>7. ReadersFresh'
    <2>1. /\ pc'[r] \notin {"second", "store"} /\ pc'[r] # "lookup"
          /\ ver'[r] <= version /\ floor'[r] <= acked
      BY <1>t, <1>2 DEF FreshInv, ReadersFresh
    <2>2. QED
      BY <1>2, <1>6, <2>1, ReaderStep DEF ReadersFresh
  <1>8. ASSUME NEW s \in Readers, pc'[s] = "send" PROVE (Since(asks[s], answer[s], floor[s]))'
    <2>1. PICK q, a, start : q = asks[s] /\ a = answer[s] /\ start = floor[s]
      OBVIOUS
    <2>2. Since(q, a, start)
      <3>1. CASE s = r
        BY <1>1, <1>4, <2>1, <3>1 DEF FreshInv, ReadersFresh
      <3>2. CASE s # r
        BY <1>2, <1>8, <2>1, <3>2 DEF FreshInv, AcknowledgedWritesAreSeen
      <3>3. QED
        BY <3>1, <3>2
    <2>3. Since(q, a, start)'
      BY <1>3, <2>2
    <2>4. QED
      BY <1>2, <2>1, <2>3
  <1>9. AcknowledgedWritesAreSeen'
    BY <1>8 DEF AcknowledgedWritesAreSeen
  <1>10. QED
    BY <1>5, <1>7, <1>9 DEF FreshInv

\* A bump leaves every cached answer behind and nobody holds the new version yet.
LEMMA BumpFresh ==
    ASSUME FreshInv, TypeInv', NEW a \in Admins, BumpVersion(a)
    PROVE  FreshInv'
  <1>t. /\ TypeInv /\ version \in Nat /\ version' \in Versions /\ version' = version + 1
        /\ acked \in Nat /\ acked' \in Nat /\ acked <= acked'
        /\ UNCHANGED <<states, store, reading>>
    BY CatalogAssumption
    DEF FreshInv, TypeInv, TypeOK, Versions, BumpVersion, Acknowledge
  <1>1. \A k, b, start : Since(k, b, start) => Since(k, b, start)'
    BY <1>t DEF Since
  <1>2. \A s \in Readers : \A start : InHand(s, start) => InHand(s, start)'
    BY <1>t DEF InHand, Since, reading
  <1>3. \A k \in Keys : store'[version'][k] = NoAnswer
    BY <1>t DEF FreshInv, CacheFresh
  <1>4. \A v \in Versions : v > version' => \A k \in Keys : store'[v][k] = NoAnswer
    BY <1>t DEF FreshInv, CacheFresh, Versions
  <1>5. CacheFresh'
    BY <1>3, <1>4 DEF CacheFresh
  <1>6. \A s \in Readers : ver[s] <= version' /\ ver[s] # version' /\ floor[s] <= acked'
    <2> SUFFICES ASSUME NEW s \in Readers
                 PROVE  ver[s] <= version' /\ ver[s] # version' /\ floor[s] <= acked'
      OBVIOUS
    <2>1. ver[s] \in Int /\ floor[s] \in Int
      BY <1>t DEF TypeInv, TypeOK, Versions, NoVersion
    <2>2. ver[s] <= version /\ floor[s] <= acked
      BY DEF FreshInv, ReadersFresh
    <2>3. QED
      BY <1>t, <2>1, <2>2
  <1>7. ReadersFresh'
    BY <1>t, <1>1, <1>2, <1>6 DEF FreshInv, ReadersFresh, reading
  <1>8. AcknowledgedWritesAreSeen'
    BY <1>t, <1>1 DEF FreshInv, AcknowledgedWritesAreSeen, reading
  <1>9. QED
    BY <1>5, <1>7, <1>8 DEF FreshInv

LEMMA FreshStep == Reliable /\ FreshInv /\ [Next]_vars => FreshInv'
  <1> SUFFICES ASSUME Reliable, FreshInv, [Next]_vars PROVE FreshInv'
    OBVIOUS
  <1>t. TypeInv' /\ StatesGrow
    BY TypeStep, Growth DEF FreshInv
  <1>1. ASSUME NEW r \in Readers, (\E k \in Keys : Ask(r, k)) \/ Answering(r) \/ ReaderFails(r)
        PROVE  FreshInv'
    BY <1>1, <1>t, SimpleStepsFresh, BuildKeyFresh, ReadSourceFresh, ReadSecondFresh, StoreFresh
    DEF Answering
  <1>q. \* steps of nobody's request that leave versions alone
        ASSUME version' = version, acked' = acked, UNCHANGED reading,
               \A v \in Versions, k \in Keys :
                  store'[v][k] = store[v][k] \/ store'[v][k] = NoAnswer
        PROVE  FreshInv'
    BY <1>t, <1>q, CacheStays, ReadersStay DEF FreshInv
  <1>2. ASSUME NEW a \in Admins, Change(a) \/ AdminFails(a) PROVE FreshInv'
    <2>1. UNCHANGED <<redis, reading, acked>>
      BY <1>2 DEF Change, CreateCategory, CreateProduct, UpdateProductStatus, Commit, AdminFails
    <2>2. QED
      BY <1>q, <2>1 DEF redis
  <1>3. ASSUME NEW a \in Admins, BumpVersion(a) PROVE FreshInv'
    BY <1>3, <1>t, BumpFresh
  <1>4. ASSUME NEW a \in Admins, BumpFails(a) PROVE FreshInv'
    BY <1>4 DEF BumpFails
  <1>5. ASSUME NEW v \in Versions, NEW k \in Keys, Expire(v, k) PROVE FreshInv'
    <2>1. \A w \in Versions, q \in Keys : store'[w][q] = store[w][q] \/ store'[w][q] = NoAnswer
      BY <1>5 DEF Expire, Without, FreshInv, TypeInv, TypeOK, Stores
    <2>2. QED
      BY <1>5, <1>q, <2>1 DEF Expire
  <1>6. ASSUME NEW v \in Versions, NEW k \in Keys, ExpireSaved(v, k) PROVE FreshInv'
    BY <1>6, <1>q DEF ExpireSaved
  <1>7. CASE Save \/ RedisRestarts
    BY <1>7 DEF Save, RedisRestarts
  <1>8. CASE UNCHANGED vars
    BY <1>8, <1>q DEF vars, redis
  <1>9. QED
    BY <1>1, <1>2, <1>3, <1>4, <1>5, <1>6, <1>7, <1>8 DEF Next, Expiry

\* While Redis takes every bump and does not restart: whatever overlaps with
\* whatever, an answer reflects every change acknowledged before it was asked for.
THEOREM WritesAreSeen == Reliable /\ Spec => []AcknowledgedWritesAreSeen
  <1>1. Init => FreshInv
    <2> SUFFICES ASSUME Init PROVE FreshInv
      OBVIOUS
    <2>1. TypeInv
      BY TypeInit
    <2>2. \A v \in Versions, k \in Keys : store[v][k] = NoAnswer
      BY DEF Init, EmptyStore
    <2>3. version \in Versions
      BY <2>1 DEF TypeInv, TypeOK
    <2>4. CacheFresh
      BY <2>2, <2>3 DEF CacheFresh
    <2>5. \A r \in Readers : /\ pc[r] = "idle" /\ ver[r] <= version /\ floor[r] <= acked
      BY DEF Init, NoVersion
    <2>6. ReadersFresh
      BY <2>5 DEF ReadersFresh, InHand
    <2>7. AcknowledgedWritesAreSeen
      BY <2>5 DEF AcknowledgedWritesAreSeen
    <2>8. QED
      BY <2>1, <2>4, <2>6, <2>7 DEF FreshInv
  <1>2. Reliable /\ Spec => []FreshInv
    <2> SUFFICES ASSUME Reliable PROVE Spec => []FreshInv
      OBVIOUS
    <2>1. FreshInv /\ [Next]_vars => FreshInv'
      BY FreshStep
    <2>2. QED
      BY <1>1, <2>1, PTL DEF Spec
  <1>3. FreshInv => AcknowledgedWritesAreSeen
    BY DEF FreshInv
  <1>4. QED
    BY <1>2, <1>3, PTL
-----------------------------------------------------------------------------
(* Pages *)

LEMMA Division ==
    ASSUME NEW a \in Nat, NEW b \in Nat \ {0}
    PROVE  /\ a \div b \in Nat
           /\ (a \div b) * b <= a
           /\ a < (a \div b) * b + b
  OBVIOUS

LEMMA NextMultiple ==
    ASSUME NEW b \in Nat \ {0}, NEW m \in Nat, NEW n \in Nat, m < n
    PROVE  m * b + b <= n * b
  <1>1. PICK d \in Nat : n = m + 1 + d
    <2>1. n - m - 1 \in Nat /\ n = m + 1 + (n - m - 1)
      OBVIOUS
    <2>2. QED
      BY <2>1
  <1>2. n * b = m * b + b + d * b
    BY <1>1
  <1>3. d * b >= 0
    BY <1>1
  <1>4. QED
    BY <1>2, <1>3

\* A reader who goes through all the pages of a list that does not change meets
\* each of its places on exactly one of them, for any size of a page.
THEOREM PagesPartition ==
    ASSUME NEW total \in Nat, NEW place \in 1..total
    PROVE  \E n \in 1..PageCount(total) :
              \A k : k.page \in Nat \ {0} => (OnPage(k, place) <=> k.page = n)
  <1> DEFINE q == (place - 1) \div PageSize
             c == PageCount(total)
  <1>0. PageSize \in Nat \ {0} /\ place - 1 \in Nat /\ total + PageSize - 1 \in Nat
    BY CatalogAssumption
  <1>1. /\ q \in Nat
        /\ q * PageSize <= place - 1
        /\ place - 1 < q * PageSize + PageSize
    BY <1>0, Division
  <1>2. c \in Nat /\ total + PageSize - 1 < c * PageSize + PageSize
    BY <1>0, Division DEF PageCount
  <1> HIDE DEF q, c
  <1>3. q < c
    <2> SUFFICES ASSUME c <= q PROVE FALSE
      BY <1>1, <1>2
    <2>1. c * PageSize <= q * PageSize
      <3>1. CASE c = q
        BY <1>0, <1>1, <1>2, <3>1
      <3>2. CASE c < q
        <4>1. c * PageSize + PageSize <= q * PageSize
          BY <1>0, <1>1, <1>2, <3>2, NextMultiple
        <4>2. c * PageSize \in Int /\ q * PageSize \in Int
          BY <1>0, <1>1, <1>2
        <4>3. QED
          BY <1>0, <4>1, <4>2
      <3>3. QED
        BY <1>1, <1>2, <3>1, <3>2
    <2>2. c * PageSize \in Int /\ q * PageSize \in Int
      BY <1>0, <1>1, <1>2
    <2>3. QED
      BY <1>0, <1>1, <1>2, <2>1, <2>2
  <1>4. ASSUME NEW k, k.page \in Nat \ {0} PROVE OnPage(k, place) <=> k.page = q + 1
    <2> DEFINE m == k.page - 1
    <2>1. m \in Nat /\ k.page = m + 1 /\ k.page * PageSize = m * PageSize + PageSize
          /\ m * PageSize \in Int /\ q * PageSize \in Int
      BY <1>0, <1>1, <1>4
    <2>2. OnPage(k, place) <=> m * PageSize < place /\ place <= m * PageSize + PageSize
      BY <2>1 DEF OnPage
    <2> HIDE DEF m
    <2>3. CASE m = q
      BY <1>0, <1>1, <2>1, <2>2, <2>3
    <2>4. CASE m < q
      <3>1. m * PageSize + PageSize <= q * PageSize
        BY <1>0, <1>1, <2>1, <2>4, NextMultiple
      <3>2. QED
        BY <1>0, <1>1, <2>1, <2>2, <2>4, <3>1
    <2>5. CASE q < m
      <3>1. q * PageSize + PageSize <= m * PageSize
        BY <1>0, <1>1, <2>1, <2>5, NextMultiple
      <3>2. QED
        BY <1>0, <1>1, <2>1, <2>2, <2>5, <3>1
    <2>6. QED
      BY <1>1, <2>1, <2>3, <2>4, <2>5
  <1>5. q + 1 \in 1..c
    BY <1>1, <1>2, <1>3
  <1>6. QED
    BY <1>4, <1>5 DEF c
=============================================================================
