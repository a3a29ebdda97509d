# tech-hub in TLA+

tech-hub is a direct-to-consumer shop: a Next.js storefront (`apps/web`), a
NestJS API (`apps/api`), a BullMQ worker (`apps/worker`), PostgreSQL through
Prisma (`packages/db`), Redis, and two services outside: Razorpay, which takes
the money, and Resend, which sends the mail. These modules model the part of it
that decides what is sold, what is paid for, what is in a cart, what the catalog
shows, who is who, and what a shopper and an admin are left with in the browser.

## Inventory

| Part | State it keeps | Operations | What is hard | Makes it correct |
|---|---|---|---|---|
| Checkout (`orders.service.ts`) | stock, orders, order items, inventory logs, cart rows | `createOrderFromCart` (the reads only read) | concurrent transactions, guarded updates, lock waits, deadlock, rollback, a cart read before the transaction and deleted in it | no overselling, all or nothing, stock explained by orders and logs, an answer |
| Payments (`payments.service.ts`) | payments, order status | `createRazorpayOrder`, `handleWebhook` | lost answers, overlapping and repeated webhooks, failure between the transaction and the queue | PAID exactly when captured, nothing acknowledged before it is done |
| Queue and worker (`queue.module.ts`, `handlers.ts`) | jobs | `order.confirmation`, `inventory.sync` (a log line nobody asks for) | a worker that dies, an answer of Resend that is lost, retries | mail only for PAID orders, no job completed without a mail |
| Cart (`cart.service.ts`) | `carts`, `cart_items`; one Redis key per guest | add, update, remove, for an account and for a guest; merge on login | requests that overlap, read-modify-write of the Redis map, a merge of many statements | adds to a row are not lost, a merge happens once but for the cases it cannot |
| Authentication (`auth.service.ts`, guards) | users; tokens in the browser | register, login, refresh | two registrations of one email, a merge that fails after the account is there, a role that outlives its change | one account per email, tokens for the account whose password was given, a role that is at most a token's life old |
| Catalog and cache (`catalog.service.ts`, `cache.service.ts`) | categories, products, variants; cached answers under a version | list, search, product page; create, archive | an answer computed from old rows stored after the version was bumped, a bump that fails | no answer older than an acknowledged change while Redis works; staleness that ends with the TTL when it does not |
| Paying in the storefront (`checkout/page.tsx`, `load-razorpay.ts`, `orders/[id]/page.tsx`, addresses) | the page's address and button, the promise of the script, the query of an order | add and select an address, pay, poll | an answer lost before or after the commit and the button pressed again, a page left or reloaded under a running `pay()`, a script that failed for good | nothing that is ordered is bought again by what comes later, no unit lost, a button that comes back, a payment that is shown |
| Sessions (`auth-context.tsx`, `guest-cart.ts`, `login/page.tsx`) | session and guest cart id in localStorage, the session each tab read from it | login, register, logout, every request with its headers | tabs that share the storage and not the state, a token that expires, a login next to a write | no cart with something in it under an id that is forgotten; a user's writes end in no guest's cart |
| Cart page (`cart/page.tsx`) | the cached answer of one query | change, remove, refetch | a PATCH for every keystroke, in no order, a guest's that writes the other lines back, fetches that overlap them | what is shown in the end is what is stored |
| Admin forms (`admin/.../new/page.tsx`, `media.service.ts`) | React state of the form; objects in R2 | pick a photo, presign, PUT, submit | uploads that overlap, a form that is left, sent again, refused | the image that was picked is there and is the one sent; the form comes back |
| Health, configuration, rate limits, seed | none | | | |

The parts meet in the database (checkout and the cart share `cart_items`;
checkout, payments and worker share `orders`), by calls (`orders.controller.ts`
calls checkout and then payments in one request; `auth.service.ts` calls the
cart's merge), by webhook (Razorpay to payments) and by the queue (payments to
worker). The browser meets the API by requests that may fail, be lost, or be
answered to a page that is gone, and R2 by a PUT the API has signed.

## Modules

| Module | What it is |
|---|---|
| `AtomicCheckout` | The promise of checkout: purchases from a stock, each in one step. |
| `Orders` | `createOrderFromCart`, statement by statement, for concurrent requests, over changing carts. |
| `OrdersProofs` | Theorems about `Orders`. |
| `Payments` | The rest of the checkout request, Razorpay, the webhook, the queue and the worker. |
| `PaymentsProofs` | Theorems about `Payments`. |
| `ShoppingCart` | What a cart means to a shopper: every operation in one step, and a sign-in that accounts for every line. |
| `Cart` | `CartService`, statement by statement, for overlapping requests. |
| `Catalog` | `CatalogService` over the versioned cache of `CacheService`, with Redis failing and restarting. |
| `CatalogProofs` | Theorems about `Catalog`. |
| `Auth` | `AuthService` and the guards: register, login, refresh, a route for admins. |
| `AuthProofs` | Theorems about `Auth`. |
| `Paying`, `PayingProofs` | From the cart to the page that shows the order PAID: tabs, visits of the checkout page, runs of `pay()`, the script, the widget, the polling. |
| `Sessions`, `SessionsProofs` | The tabs of one browser, their storage, and the cart that each request ends in. |
| `CartPage` | The cart page's query and its PATCHes, over one line of a cart. |
| `CartProofs` | Theorems about `Cart` and `CartPage`. |
| `AdminForms`, `AdminFormsProofs` | The admin's two forms, and the upload of a photo through a signed URL. |
| `MCOrders`, `MCCart`, `MCCatalog`, `MCAuth` | Constants and symmetry for TLC; the other modules are instantiated by their `.cfg` alone. |

Definitions named after a failure (`EnoughStockUnchecked`, `AnswerEarly`, ...)
and marked "mutant" are never part of a specification. Each is a plausible bug;
put in place of the definition that follows it, it makes the property it is
listed with in `PROJECT.json` fail, which shows that the property says something
about the code.

### Orders

`inventoryQty`, `cartItems`, `orders` and `inventoryLogs` are the tables as
committed. Each checkout request has a `pc` and the state of its transaction:
the cart it read, the variant whose UPDATE is in flight, the rows it has updated
and so locked (`reserved`) with the values it will install (`version`), the
running total, the order it has written (`draft`) and the cart rows it has
deleted (`deleted`). A request goes

    Submit -> ReadCart -> (SendUpdate -> Reserve)* -> CreateOrder -> ClearCart -> Commit

and may leave by `OutOfStock`, `TotalTooLarge`, `Abort` (Prisma's five seconds, a
connection that is not to be had, a process that dies) or `DeadlockVictim`, all
of which roll back. Each is the statement or branch of the same lines of the
code. The database is PostgreSQL at READ COMMITTED, which is what Prisma's
`$transaction` uses when, as here, no level is given: an UPDATE waits for a
locked row and then evaluates its WHERE on the row as committed. Values are
installed at commit from `version`, not subtracted then, so a transaction that
updated a row without its lock would be seen to lose an update. The items of a
cart are reserved in any order, since the query that reads them names none.
`AddItem` and `UpdateItemQuantity` are the row writes of the cart service, which
go on meanwhile. DELETE takes all its row locks in one step.

### Payments

`checkout` is how far a checkout request has come after its transaction:
`PlaceOrder`, `OpenRazorpayOrder`, `StorePayment`, `Answer`, or `CheckoutFails`
at any point between. Razorpay captures a payment only for an order whose id the
storefront was given. It then has the event `due` and delivers it, also while an
earlier delivery is at work, until a delivery is acknowledged. A delivery in the
API goes

    Deliver -> FindPayment -> Settle -> Enqueue -> Ack

with `RejectSignature` for a wrong signature, other events and unknown orders
going to `Ack` at once, and `WebhookFails` at every point. A job is taken, sends
its mail and completes; it fails when Resend reports an error (also when the
mail did go out and only the answer was lost); when its worker dies BullMQ gives
it back, `MaxStalled` times. `announced` is a history variable: orders a
confirmation was ever queued for. An order cannot be missing when the worker
looks for it, since nothing deletes orders.

### Cart

One browser and one account, any number of overlapping requests. A request is a
record with the statement it is about to send (`pc`). The signed-in handlers
select or insert the cart and then write the row; the guest handlers read the
Redis map and write it back; the merge reads the map, runs `addItem` for each
line, swallowing its errors, and deletes the key. The environment commits a
checkout (deleting the rows) and lets the key expire. What becomes of a product
is left out, since `addItem` never looks at its status. `Quiet`
makes requests run one after the other without failures. `acked`, `moved` and
`again` are history variables: the units added to a row since it was last set, the
lines of the guest cart that a merge has added and no guest has put there since
(`NewLine`), and those of them that are to be merged again all the same. A line
comes into `again` in three ways: another merge that has read it still has it left
(`LeftToOthers`), a merge was cut off before its `DEL`, or a guest's request that had
read it writes it back (`BroughtBack`). `moved` outlives the `DEL` and the expiry of
the key, so what comes back later is seen. `Cart` maps to `ShoppingCart` by `GuestView`: while a merge is at
work, the guest cart is the lines it has left, so a line that is added to the
account leaves the guest cart in the same step, and `signingIn` forbids every
other way for a line to go.

### Catalog

`states` is every content the database has had, the last one being the present
one; `version`, `store` and `saved` are Redis and its copy on disk. A reader's
request goes

    Ask -> BuildKey -> Hit -> Send
                    -> Miss -> ReadSource (-> ReadSecond) -> Store -> Send

with `BuildKeyFails`, `Miss` and `StoreFails` for the three places where
`getOrSet` swallows an error of Redis. A list is two statements; the transaction
of `browseProducts` is READ COMMITTED, so each of the two sees what is committed
when it starts. An admin's request is a change and then `BumpVersion`,
`BumpFails` or `AdminFails`. `from`, `floor` and `acked` are history variables:
what was the present when a request arrived, and the last content whose admin
had been answered by then. A page of a list is what `OFFSET` and `LIMIT` leave
of the products that match, newest first for `browse`; the rank of `search` does
not decide between equal ranks, so any products of that number.

The category filter and the words of a search are one thing here, a tag that a
product is created with. Answers hold what an admin can change after creation
(the status) and which products and categories there are; the stock that a
product page also shows changes without a bump and is left out. Keys are cached
apart, as slugs and search terms hold none of the text the code joins them
with; a `page` that is no number, which the query refuses, is not asked for.

### Auth

`users` is the table in order of creation, `now` the clock the tokens' lives are
measured by. A client has one request at a time and keeps the tokens of its last
answer, as the storefront does; unlike the storefront it also refreshes. A
request goes

    Register -> FindExisting -> CreateUser -> SignIn
    Login    -> FindUser                   -> SignIn
    Refresh  -> FindRefreshed
    AdminRequest -> AdminDone

and `RequestFails` at every point. `CreateUser` meets the unique index that
`FindExisting` looked for one statement, and one hash, earlier. Between the row
and the tokens lies the merge, so `SignIn` signs the role that was read before
it. The two kinds of token are signed with different secrets, which a token's
`secret` stands for; `Verifies` is `jwt.verify` and the strategy of the guards. A
refused token changes nothing and is no step. `SetRole` is the UPDATE of README
51, in both directions. `asked` in a token, `arrived` and `adminUntil` are
history. Passwords are compared for equality, which is what bcrypt does.

### Paying

One account in one or several tabs. A *call* is one run of `pay()`; it outlives
the page that started it, as an `await` does. A *page* is one visit to
`/checkout` with React state of its own (`selected`, `paying`); `at` is where each
tab is, `script` the promise that `load-razorpay.ts` keeps for the life of the
document. A call goes

    Pay -> ReadCart -> Commit -> StorePayment -> Receive -> OpenWidget -> PayInWidget

with `CheckoutFails` where the API ends the request (an empty cart, no stock, no
Razorpay, a process that dies), `NoWidget` for a script that did not load, and
`Dismiss`. `AnswerLost` is a fetch that rejects at any point: the button is free
again while the API goes on with the request, next to which the same page may send
another, until `AnswerUnheard`. `Leave` drops the state of the page and not the call;
`Reload` drops both, and what the API is doing goes on, too. `Room` bounds what goes
into the cart and how often the button is pressed to what `MaxOrders` can take. The cart is the set of the
units in it, so that each can be followed into orders; the statements of the
transaction are in `Orders` and the webhook's in `Payments`. `Polls` is the
`refetchInterval`: with no data, an error, or an order that is not pending it does
not ask again, so a first load that fails leaves "Loading..." until the page is
opened anew, and an error body taken for an order breaks the page; both are the
value `lost`, which `PaidIsShown` allows. That react-query may show an order of an
earlier visit at first is left out. `LoadAddresses`, `AddAddress` and
`AddAddressFails` are the address service as the page uses it.
`during`, `boughtOn` and `before` are history: units added between a checkout's
read and its commit, the page that was waiting when an order was committed (none,
if its fetch had rejected or its document had gone), the orders that were there
when its cart was read.

### Sessions

The tabs of one browser share `stored` and `guestId`, which are localStorage, and
each has the `session` that `AuthProvider` read when the tab was loaded. A request
carries what `authFetch` gives it, a token or the guest id and never both, and the
API finds the cart by it (`CartOf`): an expired token is no token, and with no
guest id next to it there is no cart. A request is served in one step; its answer
may be lost before or after. `LoginAnswered` is `persist`, which forgets whichever
guest id is stored by then. `Reload` takes the session that is stored and drops the
answers the tab was waiting for. `raced` is history: the guest ids that had a write
in flight next to a login, where the read-modify-write of `Cart` loses anyway. A
`Login` moves the guest cart's line into the account's cart or, when the merge's
`addItem` fails and is passed over, drops it; the key is deleted either way, so
`GuestCartsTracked` is about ids that nobody has, not about lines that are kept.

### CartPage

One line of one cart, a guest's or an account's, with a row id that is new
whenever an account's line is made again. `shown` and `fetch` are the page's query:
a mount asks, unless a fetch of an earlier visit is still under way, which it then
waits for; the focus asks; `Invalidate` is `invalidateQueries`, which cancels a
fetch for a new one when there is data to keep and does nothing to a page that is
not open. `edit` are the runs of `updateQuantity`, any number at once, each for the
text of the field by then: 0 when it is emptied. A guest's PATCH is two steps,
`ReadMap` and `WriteMap`, so one of another line (`ChangeAnother`) puts this line back
as it was read; an account's is `UpdateRow`, which does not find a row that is gone.
Any answer, also an error, leads to `Invalidate`; a request that is lost does not, and
what the API goes on to do with it is an `Elsewhere`, which is every other part of
the shop that changes the line. `untold` is history: whether a change was made that
no later fetch can have read and nobody will tell the page of. That the last PATCH
to arrive wins, and not the last typed, is what the code does.

### AdminForms

A form is one visit to the product's or the category's page, a pick one run of
`onSelectImage`, a press one run of `onSubmit`; both go on when the page is left. A
pick goes `SelectImage -> Presigned -> Put -> Uploaded` or ends in `UploadFails`;
the key that `media.service.ts` signs is new each time, so pick and object are one.
`uploading` is one flag for all the picks of a form. A press goes
`Submit -> Create -> Created -> Arrive` or ends in `SubmitFails`, refused by a unique
column (`Free`) or with its answer lost. `router.push` arrives later, and a link
chosen meanwhile supersedes it, so a form can be sent again after it was accepted.
`overlapped`, and `last` and `clean` of a press, are history.

## Runs

| Run | Question | Bounds |
|---|---|---|
| `checkout` | Does checkout oversell, half-happen, or lose an update; do logs and totals add up; does it implement `AtomicCheckout`? | 2 requests by 2 users (or both by one), 2 variants with 1 and 2 units, carts of up to 2 of each, totals up to 6 of a possible 10 |
| `checkout_answered` | Is every checkout answered, with lock waits and deadlocks? | 2 requests, 2 variants, carts of up to 1 of each |
| `payments` | Do order status, payment, acknowledgement and mail agree? Is money taken settled and announced in the end, and every job ended? | 1 order, 2 overlapping deliveries, 2 unfinished jobs, 1 stall |
| `cart` | Are concurrent adds kept? Is a line merged once, but for overlapping logins, a merge cut off and a write that puts it back? | 2 requests, 1 variant and 1 key that is none, 4 row ids, up to 3 units, guests' lines of up to 2 |
| `cart_quiet` | Is the service a `ShoppingCart` when nothing overlaps? | 2 variants and 1 key that is none, up to 2 units, merges of up to 3 lines |
| `catalog` | Does a reader ever get an answer older than a change acknowledged before it asked, where an answer is a list of two statements? | 1 reader, 1 admin, 2 products, 2 changes, page 1 of a browse and page 2 of a search, 1 product to a page |
| `catalog_lossy` | When bumps are lost and Redis comes back from its snapshot: is a 404 current, does every read end, is the cache right in the end? | 1 reader, 1 admin, 1 product, 2 changes |
| `auth` | Are tokens for the account whose credentials were sent, and how long does a role outlive its change? | 2 clients, 1 email, 2 passwords, access tokens of 1 tick, refresh tokens of 2, 3 ticks |
| `paying` | When does a checkout that fails anywhere, goes on unheard, or is pressed again order a unit twice or lose one? Does the button come back, is the payment shown? | 1 tab, 2 visits to the checkout page, 2 calls, 2 units, 2 orders |
| `sessions` | Is a cart that somebody filled ever left under an id that is forgotten? Does a user's write ever end in a guest's cart? | 2 tabs, 2 requests in flight, 3 guest ids |
| `admin_forms` | Is a product's image there, and the last one picked? Does the form come back? | 2 forms of either kind, 2 photos, 2 presses, 2 slugs and SKUs |
| `cart_page` | When all is answered, does the page show what is stored? | 3 PATCHes at once, quantities up to 2, a line made twice |

Why the bounds are enough: two requests and two variants make every race for a
unit, both orders of locking and the deadlock between them; the stock is below
what two carts can ask for, so refusals with earlier lines already reserved
happen; totals can exceed `MaxTotal`. Two deliveries are the overlap of a retry
with the attempt it repeats. One stall is BullMQ's own limit. Row ids are one
more than all that rows and requests can refer to, so an id can be new and a
page's id can be stale. A reader's own later requests are the ones that would
find what an earlier one stored too late, so one reader is enough; two changes
are enough for a bump to make good for a lost one, and `version < MaxWrites`
never stops a bump, as there is one per change. With three ticks an access token
expires, and a refresh token gives another one and expires itself; one email and
two passwords are two people who register it. Two visits to the checkout page are
a call that goes on under the next one, two calls one that its page no longer waits
for and the press that follows it, and two units are one that is in the cart
and one that comes while it is read; two tabs, which overlap as two calls do, are
in the proof. Two tabs and two requests are a login of one tab next to a write or a
login of the other, and three guest ids one for each of them and a new one. Two
picks overlap or follow each other; the second of two presses is the retry, of a
slug that is taken or free. Of three PATCHes two are answered in the wrong order
while a third meets a row that is gone. What holds for any number, such as two
orders, two readers, or the categories cached next to the lists, is proved (see
Proofs). `checkout`, the `cart` runs
and `auth` use symmetry of names; liveness runs use none. Deadlock is checked in
every run.

### Where the code and its documents differ

Met while modelling, and in the modules as the code has it:

- `queue.module.ts` 18 builds the queue without `defaultJobOptions` and
  `payments.service.ts` 94 adds jobs without options, so a job has one attempt
  (`SendRejected`). README 134-135 says BullMQ retries it.
- The comment at `cart.service.ts` 112 says that a guest cart is folded into the
  user's once. Its lines are added again when two merges of one guest cart overlap,
  when a merge fails before its `DEL` and the shopper signs in again, and when a
  guest's add or update that had read the map before the `DEL` writes it back after
  it (91, 98-104). `MergedOnce` states what is left: only in those three cases.
- `addItem` never looks at the product's status, so an archived variant is merged.
  The comment at `cart.service.ts` 119 says it is skipped.
- `register` looks the email up, hashes and inserts, and nothing catches the error
  of the unique index (`CreateTaken`), so the loser of two overlapping registrations
  gets a 500. The test at `auth.service.spec.ts` 51 expects a `ConflictException`.

## Fairness

- `Orders!FairSpec`: weak fairness of each accepted request's next step and of
  the database's deadlock detector. Node runs the continuation of every answered
  query, and PostgreSQL looks for deadlocks after its `deadlock_timeout`.
  Shoppers, timeouts and failures are not fair; the five-second limit is not
  needed for `CheckoutAnswered`.
- `Payments!FairSpec`: Razorpay goes on delivering an event that is due (strong
  fairness of delivery, as other traffic may take the handlers meanwhile), and
  the lookup, the transaction and the enqueueing of a capture do not fail every
  time they are tried (strong fairness each). Razorpay in fact gives up after a
  day, so the liveness results hold for outages shorter than that. A delivery
  ends in some way, and the worker runs: weak fairness. A mail need not succeed.
- `Catalog!FairSpec`: weak fairness of each reader's next step and of the
  expiry of each entry, in Redis and in its copy on disk: an entry is written
  with `EX`, and Redis drops it then. Admins, snapshots and restarts are not
  fair; `CacheSettles` asks nothing of them, since there are finitely many
  changes and a restart brings back nothing that has expired.
- `Paying!FairSpec`: every request of a running `pay()` is answered or fails and
  every script loads or does not (weak fairness of each); the webhook comes, which
  is what `CaptureIsAnnounced` shows of `Payments`; the timer of an open page
  ticks (weak), and its requests do not fail every time (strong: each failed one
  is followed by another three seconds later, as the page has data by then).
  Shoppers are not fair.
- `AdminForms!FairSpec`: each upload and each press goes on, to its end or to a
  failure. Admins are not fair.
- The `Cart`, `Auth`, `Sessions` and `CartPage` runs check safety only.

## Proofs

TLAPS proves, for every value of the constants (under `OrdersAssumption`,
`NoOrderAssumption`, `CartAssumption`, `NoRowAssumption`, `PaymentsAssumption`,
`CatalogAssumption`, `AuthAssumption`, `PayingAssumption`,
`SessionsAssumption`, `AdminFormsAssumption` and `CartPageAssumption`). The sets of
variants of `Orders`, and of variants and requests of `Cart`, are finite, as what a
database holds and a server works on is; the ids a row of `Cart` may get are infinitely
many, or more than the rows and the requests that remember one, so that a new one is
never missing.

- `OrdersProofs!TypeCorrect`: types; with it, stock is never negative.
- `OrdersProofs!Reservations`: `ReservationInv`, the inductive invariant of the
  transactions: no two hold one variant, the value each will install is the
  committed one less its cart's quantity and not negative, a request past the
  loop holds exactly its cart's lines and has written an order for them, and a
  request that has not committed has no order. `TypeOK /\ ReservationInv` is
  inductive; the interesting step is `Commit`, where exclusivity keeps everyone
  else's `version` current.
- `OrdersProofs!StockMoves` and `CheckoutIsAtomic`: from the invariant, a commit
  takes exactly what its order lists (`CommitTakesItems`) and no other step
  touches stock or orders (`OnlyCommitMoves`), so a commit is `Buy` of
  `AtomicCheckout` and all other steps stutter.
- `OrdersProofs!LedgerBalances`, and from it `SoldWasInStock` and
  `AuditTrailComplete`: `LedgerInv` says that there are finitely many orders and log
  rows, that every log row is of a committed order, and the two balances. With
  `TypeOK /\ ReservationInv` it is inductive: a commit adds one order and one log row
  for each of its lines (`CommitAddsUnits`, `CommitAddsDeltas`), neither of which was
  there before, and it takes exactly the units that the order lists.
- `OrdersProofs!RunningTotals`, and from it `TotalsAddUp`: `RunningTotalInv` says that
  a request's `subtotal` is the price of the lines it has reserved, and that the line
  in flight is not one of them; after the loop these are all the lines of its cart, and
  the order is written with that total.
- The two rest on lemmas about `MapThenSumSet`, the fold that adds up a finite set:
  what it computes is the entry of a table of the sums over all subsets
  (`IsSumTable`), which exists and is unique (`SumTableExists`, `SumTablesAgree`), and
  so one member more adds its term, whichever the fold takes out first (`SumUnfold`,
  `SumTakeOut`, `SumSameTerms`, `SumWithoutZeros`, `SumIsInteger`). Induction over the
  set needs no theorem that takes an operator: `SubsetInduction` is about a set G of
  subsets, and says that if a subset is in G whenever its proper subsets are, all are.
- `CartProofs!CartTypeCorrect`, `AddsKept` and `MergesOnce`, for requests that
  overlap and fail in any way. `RequestInv` is what a request knows of itself: a merge
  works through the entries it has read, each of them once, with the quantity it read,
  and adds variants only. `RowIdsDistinct` is why an id leads to one row, and is kept
  because a new id is one that no row has; that there is one is a count (`IsNewId`
  excludes at most one id for each variant and each request). `MergeInv`, from which
  `MergesOnce` follows, says of the lines that are in the account already (`moved`) and
  not due again: while no merge is at work the guest cart has none of them, and a merge
  that is alone has none of them left. It is why `ClearGuest`, the last step, matters.
  `AddsKept` is itself inductive with the types.
- `CartProofs!ServesAsShoppingCart`: `Quiet /\ Spec => ImplementsShoppingCart`. A
  request is alone from its first step to its last (`QuietInv`), so the cart row that
  was missing is still missing when it is inserted and the map that is written back is
  the one that was read. `ShoppingStep` goes through the actions: the upsert, the write
  of a row and the write of the map are the shopper's operations; `ReadGuest` of a merge
  is `SignIn`, after which the guest cart that is seen is the lines left (`ViewsAlways`);
  each upsert of a merge is `MoveLine`, a line that is no variant or does not fit is
  `DropLine`, `ClearGuest` is `SignedIn`; all other steps stutter. Without `Quiet` it
  is false: the map of a guest cart is read, changed and written back.
- `PaymentsProofs!TypeCorrect`, `PaidOrdersAreCaptured`, `AcknowledgedIsDone`,
  `CapturesAreKnown`: from `PaymentInv`. The properties alone are not inductive:
  that a settled order was captured depends on the signature having been checked
  two steps earlier, and that an acknowledged one was queued on what each
  delivery has done so far, which is what `DeliveryInv` records.
- `PaymentsProofs!ConfirmationsArePaid`: from `PaymentInv` and that a PAID order
  stays PAID (`PaidStays`).
- `CatalogProofs!WritesAreSeen`: `Reliable /\ Spec => []AcknowledgedWritesAreSeen`,
  from `FreshInv`. The property speaks of an answer that is about to be sent and
  is far from inductive: an answer may come from the cache, where an earlier
  request put it. `FreshInv` says that an entry under the present version, and
  one in the hands of a request whose version is the present one, is no older
  than every acknowledged change. It is inductive because a request reads its
  version before its rows, and an admin's change is bumped before it is
  acknowledged: when the version moves on, all that was computed before it is
  stored where no later request looks.
- `CatalogProofs!TypeCorrect`, `MissingIsMissing` (a 404 is never a cached one,
  whatever Redis does) and `PagesPartition`, which is about paging alone: each
  place of a list is on exactly one of the pages that `pageCount` announces.
- `AuthProofs!AdminsAreRecent`: from `RoleInv`, which says of every role around,
  in a row that was read, in a token held and in a token shown, that its user had
  it at some moment since the request that brought it arrived. A login keeps it
  through the merge because `arrived` is from before the row was read; a refresh,
  because it reads the row again.
- `AuthProofs!TokensAreOwn`: from `OwnInv`, that the row a request has is the one
  of its credentials; `CreateUser` is where the unique index is needed.
  `AuthProofs!TypeCorrect` includes that an email has one account.

- `PaymentsProofs!DeliveriesAreSound`, that `DeliveryInv` holds, and
  `CompletedJobsMailed`: a job's mails are counted up before its state moves on, and
  a job that stalled keeps its count.
- `PayingProofs!OnlyOverlapsBuyTwice`, `AwaitedOrdersApart` and `UnitsAreKept`: from
  `PayingInv`. `OrdersApart` says that an order shares nothing with the cart nor with
  an order that was there when its cart was read, and `ReadsApart` the same of a cart
  that was read and is not ordered yet, of which the rest of the cart can only be
  what came `during` the checkout. `OneCallPerPage` is why the checkouts that a page
  waits for are apart: the button of an open page stays shut while a call of it is
  awaited, and a page that was left is never opened again, so of two calls that were
  awaited at their commits the second begins after the first has ended, and sees its
  order. A call whose fetch has rejected is awaited by nobody and is only what
  `OnlyOverlapsBuyTwice` says of it.
- `SessionsProofs!CartsAreTracked`: from `RacedInv`. A write in flight is to the cart
  of the browser or to a raced one, and a guest cart that a login finds filled is the
  one it will merge, or raced: so when `persist` forgets the id, nothing of it is left
  behind. `UsersStayUsers` needs that no request carries both headers (`OneHeader`).
- `AdminFormsProofs!ImagesAreThere` and `LatestIsSent`: from `FormsInv` and
  `PressesInv`. Without an overlap the one upload that runs is of the last pick and
  keeps the submit button shut, so a form that is sent shows the last that was done
  (`LatestOf`), and what was picked later is later than the press (`Settled`).
- `CartProofs!PagesSettle`: from `ToldInv`. As long as an answered PATCH has still to
  tell the page (`Due`) nothing is claimed; the last one to be answered starts a fetch,
  and a fetch reads what is stored unless a change follows it, which then is due itself
  or leaves the page untold. What a PATCH leaves is a line, once it has read the map or
  is a row's (`LeavesLine`).
- `TypeCorrect` of each of these modules (`PageTypeCorrect` of `CartPage`).

Every safety invariant and every action property that a run checks is a theorem, and so
are both refinements. Only model-checked: the liveness properties (`CheckoutAnswered`,
`CaptureIsAnnounced`, `JobsEnd`, `ReadsEnd`, `CacheSettles`, `PayButtonReturns`,
`PaidIsShown`, `FormReturns`), which rest on fairness and so on ENABLED, out of the
prover's reach. Only proved, and in no run: `TypeOK` of `Payments`, `Catalog`, `Paying`,
`Sessions` and `AdminForms` and `PageTypeOK` of `CartPage`, which say no more than types,
and the inductive invariants that are not named in a `.cfg`.

## Not modelled, and the plan

Not modelled: the pages of the catalog, which only render (and the minute that Next
keeps them, which is Next's); configuration, health, rate limits, error
reporting; the seed (see `PROJECT.json`); names, wording and mail text; the payload
of webhooks; `inventory.sync`, which nothing adds. No code ever restocks, cancels or
refunds, so neither do the modules. A password is compared and never looked into, a
signature is right or wrong, an image is an image.

In this order:

1. done: `Orders`, `AtomicCheckout`, `OrdersProofs`; `Payments`,
   `PaymentsProofs`; `Cart`, `ShoppingCart`; `Catalog`, `CatalogProofs`;
   `Auth`, `AuthProofs`.
2. done: the browser, as `Paying`, `Sessions`, `CartPage` and `AdminForms`, with
   their proofs; `DeliveryInv` and `CompletedMeansMailed` proved.
3. done: `CartProofs`, and the sums of `Orders`.
4. `Shop`: `Orders` and `Payments` on one `orders` table, with two orders. What
   they share today is an order that exists before it is paid, which is `PlaceOrder`
   of the one and `Commit` of the other, and `Paying` goes through both.
