------------------------------ MODULE Catalog ------------------------------
(***************************************************************************)
(* CatalogService over CacheService (apps/api/src/catalog, .../cache): the *)
(* answers of the catalog are cached in Redis under a version, which every *)
(* admin's change bumps once the change is in PostgreSQL.                  *)
(*                                                                         *)
(* Each action of a reader or an admin is one command to Redis or one      *)
(* statement to PostgreSQL with the code that leads to it.  A list takes   *)
(* two statements and each sees what is committed when it starts: the      *)
(* transaction around the two of browseProducts is READ COMMITTED.         *)
(*                                                                         *)
(* The category filter of a list and the words of a search are both a tag  *)
(* that a product has from its creation.  Answers leave out what does not  *)
(* change (names, prices, images) and the stock.  Distinct keys are cached *)
(* apart: slugs and search terms hold none of the text that separates them *)
(* in the string the code builds.                                          *)
(***************************************************************************)
EXTENDS Integers, Sequences, FiniteSets

CONSTANTS
    Readers,
    Admins,
    Keys,         \* what readers ask for
    Tags,
    Categories,
    PageSize,
    MaxProducts,  \* bound: products ever created
    MaxWrites,    \* bound: changes by admins
    Reliable,     \* TRUE: Redis takes every bump and never restarts
    NoAnswer

Ids == 1..MaxProducts                   \* products in order of creation
Statuses == {"DRAFT", "ACTIVE", "ARCHIVED"}
ListKinds == {"browse", "search"}
AllKeys == [kind : {"product"}, id : Ids] \cup [kind : {"categories"}]
           \cup [kind : ListKinds, tag : Tags, page : Nat \ {0}]

Lists == [is : {"list"}, items : UNION {[S -> Statuses] : S \in SUBSET Ids}, total : Nat]
Pages == [is : {"product"}, status : {"ACTIVE"}]
         \cup [is : {"categories"}, names : SUBSET Categories] \cup Lists
NotFound == [is |-> "notFound"]

ASSUME CatalogAssumption ==
    /\ MaxProducts \in Nat /\ MaxWrites \in Nat /\ PageSize \in Nat \ {0}
    /\ Reliable \in BOOLEAN
    /\ Keys \subseteq AllKeys
    /\ NoAnswer \notin Pages \cup {NotFound}

VARIABLES
    states,       \* contents of the database, one after the other; the last is present
    version,      \* catalog:v, 0 when absent
    store,        \* the cached answers, by version and key
    saved,        \* what Redis has on disk
    pc, asks, ver, answer,  \* the readers' requests
    from, floor,  \* history: Len(states) and acked when the request began
    writing,      \* the admins' requests: their place in states, 0 for none
    acked         \* history: the last of states whose admin has been answered

redis == <<version, store, saved>>
reading == <<pc, asks, ver, answer, from, floor>>
vars == <<states, redis, reading, writing, acked>>

Products == [status : Statuses \cup {"none"}, tags : SUBSET Tags]
Contents == [products : [Ids -> Products], categories : SUBSET Categories]
Versions == 0..MaxWrites
NoVersion == -1
Stores == [Versions -> [Keys -> Pages \cup {NoAnswer}]]
EmptyStore == [v \in Versions |-> [k \in Keys |-> NoAnswer]]

AtWork == {"version", "lookup", "source", "second", "store", "send"}

TypeOK ==
    /\ states \in Seq(Contents)
    /\ Len(states) \in 1..(MaxWrites + 1)
    /\ version \in Versions
    /\ store \in Stores
    /\ saved \in [version : Versions, store : Stores]
    /\ pc \in [Readers -> {"idle"} \cup AtWork]
    /\ asks \in [Readers -> Keys \cup {NoAnswer}]
    /\ ver \in [Readers -> Versions \cup {NoVersion}]
    /\ answer \in [Readers -> Pages \cup {NotFound, NoAnswer}]
    /\ \A r \in Readers :
          /\ pc[r] # "idle" => asks[r] \in Keys
          /\ pc[r] \in {"lookup", "store"} => ver[r] # NoVersion
          /\ pc[r] = "second" => asks[r].kind \in ListKinds /\ answer[r] \in Lists
          /\ pc[r] = "store" => answer[r] \in Pages
    /\ from \in [Readers -> 1..Len(states)]
    /\ floor \in [Readers -> 1..Len(states)]
    /\ writing \in [Admins -> 0..Len(states)]
    /\ acked \in 1..Len(states)

Init ==
    /\ states = <<[products |-> [p \in Ids |-> [status |-> "none", tags |-> {}]],
                   categories |-> {}]>>
    /\ version = 0
    /\ store = EmptyStore
    /\ saved = [version |-> 0, store |-> EmptyStore]
    /\ pc = [r \in Readers |-> "idle"]
    /\ asks = [r \in Readers |-> NoAnswer]
    /\ ver = [r \in Readers |-> NoVersion]
    /\ answer = [r \in Readers |-> NoAnswer]
    /\ from = [r \in Readers |-> 1]
    /\ floor = [r \in Readers |-> 1]
    /\ writing = [a \in Admins |-> 0]
    /\ acked = 1

Db == states[Len(states)]
-----------------------------------------------------------------------------
(* What the source answers *)

Shown(d, p) == d.products[p].status = "ACTIVE"

Matching(k, d) == {p \in Ids : Shown(d, p) /\ k.tag \in d.products[p].tags}

\* Places on the page asked for: OFFSET (page - 1) * PAGE_SIZE, LIMIT PAGE_SIZE.
OnPage(k, place) == (k.page - 1) * PageSize < place /\ place <= k.page * PageSize

\* Math.ceil(total / PAGE_SIZE), which goes with every list.
PageCount(total) == (total + PageSize - 1) \div PageSize

\* Newest first.
NewestOf(k, S) == {p \in S : OnPage(k, Cardinality({q \in S : q >= p}))}

\* By rank, which the query does not make unique: any products of that number.
RankedOf(k, S) ==
    {T \in SUBSET S : Cardinality(T) = Cardinality({i \in 1..Cardinality(S) : OnPage(k, i)})}

\* The first statement of each read.  A search counts on the rows of its page,
\* and so 0 on a page past the end.
First(k, d) ==
    CASE k.kind = "product" ->
           {IF Shown(d, k.id) THEN [is |-> "product", status |-> d.products[k.id].status]
                              ELSE NotFound}
      [] k.kind = "categories" -> {[is |-> "categories", names |-> d.categories]}
      [] k.kind = "browse" ->
           {[is |-> "list", total |-> 0,
             items |-> [p \in NewestOf(k, Matching(k, d)) |-> d.products[p].status]]}
      [] k.kind = "search" ->
           {[is |-> "list", total |-> IF T = {} THEN 0 ELSE Cardinality(Matching(k, d)),
             items |-> [p \in T |-> d.products[p].status]]
               : T \in RankedOf(k, Matching(k, d))}

\* The second one: the count of a browse, the products of a search.
Second(k, a, d) ==
    CASE k.kind = "browse" -> [a EXCEPT !.total = Cardinality(Matching(k, d))]
      [] k.kind = "search" -> [a EXCEPT !.items = [p \in DOMAIN @ |-> d.products[p].status]]
      [] OTHER -> a

\* The answers whose statements saw d and then e.
Answers(k, d, e) == {Second(k, a, e) : a \in First(k, d)}
-----------------------------------------------------------------------------
(* getOrSet *)

Goto(r, label) == pc' = [pc EXCEPT ![r] = label]

\* A page of the catalog is asked for.
Ask(r, k) ==
    /\ pc[r] = "idle"
    /\ Goto(r, "version")
    /\ asks' = [asks EXCEPT ![r] = k]
    /\ from' = [from EXCEPT ![r] = Len(states)]
    /\ floor' = [floor EXCEPT ![r] = acked]
    /\ UNCHANGED <<states, redis, ver, answer, writing, acked>>

BuildKey(r) ==
    /\ pc[r] = "version"
    /\ ver' = [ver EXCEPT ![r] = version]
    /\ Goto(r, "lookup")
    /\ UNCHANGED <<states, redis, asks, answer, from, floor, writing, acked>>

\* Redis fails to give the version: no cache for this request.
BuildKeyFails(r) ==
    /\ pc[r] = "version"
    /\ Goto(r, "source")
    /\ UNCHANGED <<states, redis, asks, ver, answer, from, floor, writing, acked>>

Cached(r) == store[ver[r]][asks[r]]

Hit(r) ==
    /\ pc[r] = "lookup"
    /\ Cached(r) # NoAnswer
    /\ answer' = [answer EXCEPT ![r] = Cached(r)]
    /\ Goto(r, "send")
    /\ UNCHANGED <<states, redis, asks, ver, from, floor, writing, acked>>

\* Nothing cached, or Redis fails: the source is asked.
Miss(r) ==
    /\ pc[r] = "lookup"
    /\ Goto(r, "source")
    /\ UNCHANGED <<states, redis, asks, ver, answer, from, floor, writing, acked>>

\* Mutant: what the source throws is cached like an answer.
AfterSourceAlways(r, a) == IF ver[r] = NoVersion THEN "send" ELSE "store"

\* Mutant: it is taken for a failure of the cache, and the source is asked again.
AfterSourceRetries(r, a) ==
    IF a = NotFound THEN "source" ELSE IF ver[r] = NoVersion THEN "send" ELSE "store"

\* Where a request goes once it has all of its answer: only a key with a version
\* is stored, and a NotFoundException passes by the cache.
AfterSource(r, a) ==
    IF a = NotFound \/ ver[r] = NoVersion THEN "send" ELSE "store"

ReadSource(r) ==
    /\ pc[r] = "source"
    /\ \E a \in First(asks[r], Db) :
          /\ answer' = [answer EXCEPT ![r] = a]
          /\ Goto(r, IF asks[r].kind \in ListKinds THEN "second" ELSE AfterSource(r, a))
    /\ UNCHANGED <<states, redis, asks, ver, from, floor, writing, acked>>

ReadSecond(r) ==
    /\ pc[r] = "second"
    /\ answer' = [answer EXCEPT ![r] = Second(asks[r], @, Db)]
    /\ Goto(r, AfterSource(r, answer[r]))
    /\ UNCHANGED <<states, redis, asks, ver, from, floor, writing, acked>>

\* The version an answer is stored under: the one read before the source.
StoredUnderPresent(r) == version      \* mutant: the one of the moment
StoredUnder(r) == ver[r]

Store(r) ==
    /\ pc[r] = "store"
    /\ store' = [store EXCEPT ![StoredUnder(r)][asks[r]] = answer[r]]
    /\ Goto(r, "send")
    /\ UNCHANGED <<states, version, saved, asks, ver, answer, from, floor, writing, acked>>

StoreFails(r) ==
    /\ pc[r] = "store"
    /\ Goto(r, "send")
    /\ UNCHANGED <<states, redis, asks, ver, answer, from, floor, writing, acked>>

\* The request is over.
Leave(r) ==
    /\ Goto(r, "idle")
    /\ asks' = [asks EXCEPT ![r] = NoAnswer]
    /\ ver' = [ver EXCEPT ![r] = NoVersion]
    /\ answer' = [answer EXCEPT ![r] = NoAnswer]
    /\ from' = [from EXCEPT ![r] = 1]
    /\ floor' = [floor EXCEPT ![r] = 1]
    /\ UNCHANGED <<states, redis, writing, acked>>

Send(r) == pc[r] = "send" /\ Leave(r)

\* PostgreSQL fails or the API dies.
ReaderFails(r) == pc[r] \in AtWork \ {"send"} /\ Leave(r)
-----------------------------------------------------------------------------
(* The admin's changes; one that is refused leaves everything as it is *)

Commit(a, d) ==
    /\ writing[a] = 0
    /\ Len(states) <= MaxWrites
    /\ states' = Append(states, d)
    /\ writing' = [writing EXCEPT ![a] = Len(states) + 1]
    /\ UNCHANGED <<redis, reading, acked>>

CreateCategory(a) ==
    \E c \in Categories \ Db.categories :
        Commit(a, [Db EXCEPT !.categories = @ \cup {c}])

CreateProduct(a) ==
    \E p \in Ids, s \in Statuses, T \in SUBSET Tags :
        /\ \A q \in Ids : Db.products[q].status = "none" <=> q >= p
        /\ Commit(a, [Db EXCEPT !.products[p] = [status |-> s, tags |-> T]])

UpdateProductStatus(a) ==
    \E p \in Ids, s \in Statuses :
        /\ Db.products[p].status # "none"
        /\ Commit(a, [Db EXCEPT !.products[p].status = s])

Acknowledge(a) ==
    /\ acked' = IF writing[a] > acked THEN writing[a] ELSE acked
    /\ writing' = [writing EXCEPT ![a] = 0]

BumpVersion(a) ==
    /\ writing[a] # 0
    /\ version < MaxWrites    \* always so: one bump per change
    /\ version' = version + 1
    /\ Acknowledge(a)
    /\ UNCHANGED <<states, store, saved, reading>>

\* Redis fails: logged, and the admin is answered as if it had not.
BumpFails(a) ==
    /\ ~Reliable
    /\ writing[a] # 0
    /\ Acknowledge(a)
    /\ UNCHANGED <<states, redis, reading>>

\* The API dies after the change, before the bump.
AdminFails(a) ==
    /\ writing[a] # 0
    /\ writing' = [writing EXCEPT ![a] = 0]
    /\ UNCHANGED <<states, redis, reading, acked>>
-----------------------------------------------------------------------------
(* Redis *)

Without(s, v, k) == [s EXCEPT ![v][k] = NoAnswer]

\* Mutant: the answers are stored without EX.
ExpireNever(v, k) == FALSE /\ UNCHANGED vars

\* The time to live of an answer is over: it goes, and with it the copy on disk,
\* which is no younger.
Expire(v, k) ==
    /\ store[v][k] # NoAnswer
    /\ store' = Without(store, v, k)
    /\ saved' = [saved EXCEPT !.store = Without(@, v, k)]
    /\ UNCHANGED <<states, version, reading, writing, acked>>

\* That of a copy on disk.
ExpireSaved(v, k) ==
    /\ saved.store[v][k] # NoAnswer
    /\ saved' = [saved EXCEPT !.store = Without(@, v, k)]
    /\ UNCHANGED <<states, version, store, reading, writing, acked>>

Save ==
    /\ ~Reliable
    /\ saved' = [version |-> version, store |-> store]
    /\ UNCHANGED <<states, version, store, reading, writing, acked>>

\* It comes back as it was when it last saved.
RedisRestarts ==
    /\ ~Reliable
    /\ version' = saved.version
    /\ store' = saved.store
    /\ UNCHANGED <<states, saved, reading, writing, acked>>
-----------------------------------------------------------------------------
Answering(r) ==
    \/ BuildKey(r)
    \/ BuildKeyFails(r)
    \/ Hit(r)
    \/ Miss(r)
    \/ ReadSource(r)
    \/ ReadSecond(r)
    \/ Store(r)
    \/ StoreFails(r)
    \/ Send(r)

Change(a) ==
    \/ CreateCategory(a)
    \/ CreateProduct(a)
    \/ UpdateProductStatus(a)

Expiry == \E v \in Versions, k \in Keys : Expire(v, k) \/ ExpireSaved(v, k)

Next ==
    \/ \E r \in Readers : (\E k \in Keys : Ask(r, k)) \/ Answering(r) \/ ReaderFails(r)
    \/ \E a \in Admins : Change(a) \/ BumpVersion(a) \/ BumpFails(a) \/ AdminFails(a)
    \/ Expiry
    \/ Save
    \/ RedisRestarts

Spec == Init /\ [][Next]_vars

Fairness ==
    /\ \A r \in Readers : WF_vars(Answering(r))
    /\ \A v \in Versions, k \in Keys : WF_vars(Expire(v, k)) /\ WF_vars(ExpireSaved(v, k))

FairSpec == Spec /\ Fairness
-----------------------------------------------------------------------------
(* Properties *)

\* Between the two statements of a search the products ranked stay in the table:
\* no change deletes one.
RankedStay ==
    \A r \in Readers : pc[r] = "second" =>
        \A p \in DOMAIN answer[r].items : Db.products[p].status \in Statuses

\* a is an answer whose statements saw the database at moments, in their order,
\* at or after the given one.
Since(k, a, start) ==
    \E i, j \in start..Len(states) : i <= j /\ a \in Answers(k, states[i], states[j])

\* While Redis takes the bumps, an answer reflects every change that an admin was
\* told of before the request for it arrived, wherever it comes from: an answer
\* computed from the old rows and stored after the bump is stored where nobody
\* looks any more.
AcknowledgedWritesAreSeen ==
    \A r \in Readers : pc[r] = "send" => Since(asks[r], answer[r], floor[r])

\* A 404 is never a cached one: the product was not active at some moment of the
\* request itself, even if the bumps of earlier changes were lost.
NotFoundIsCurrent ==
    \A r \in Readers :
        pc[r] = "send" /\ answer[r] = NotFound => Since(asks[r], NotFound, from[r])

\* A request is over whatever Redis does ("Redis hiccups fail open", README 86).
ReadsEnd == \A r \in Readers : pc[r] # "idle" ~> pc[r] = "idle"

\* Once the admins have made their last change, what readers find in the cache
\* becomes what the source would answer and stays so, even if bumps were lost or
\* Redis came back with an older version.
CacheSettles ==
    <>[](\A k \in Keys : store[version][k] # NoAnswer
                           => store[version][k] \in Answers(k, Db, Db))
=============================================================================
