------------------------------ MODULE Payments ------------------------------
(***************************************************************************)
(* From a committed order to the confirmation email:                       *)
(*                                                                         *)
(*   - the rest of the checkout request, PaymentsService.createRazorpayOrder *)
(*     (apps/api/src/payments/payments.service.ts);                        *)
(*   - Razorpay, which takes the money and reports it by webhook, again and *)
(*     again until the API answers 2xx (external);                         *)
(*   - PaymentsService.handleWebhook, any number of deliveries at a time;  *)
(*   - the BullMQ queue "order-events" with the options queue.module.ts    *)
(*     gives it, none: one attempt per job, and a job whose worker died is *)
(*     taken back MaxStalled times (external);                             *)
(*   - the worker (apps/worker/src/index.ts and handlers.ts).              *)
(*                                                                         *)
(* Orders, payments and the email's content are names; the amount and the  *)
(* payload do not matter here.  Nothing deletes an order, so the worker's  *)
(* "order not found" branch has no state to run in.                        *)
(***************************************************************************)
EXTENDS Integers

CONSTANTS
    Orders,       \* orders a checkout may create
    Handlers,     \* webhook requests the API can be working on at once
    Jobs,         \* jobs waiting or being worked on at once
    MaxStalled,   \* BullMQ's maxStalledCount
    NoOrder

ASSUME PaymentsAssumption ==
    /\ NoOrder \notin Orders
    /\ MaxStalled \in Nat

VARIABLES
    checkout,     \* how far the checkout request of each order has come
    orderStatus,  \* orders.status
    payment,      \* payments.status, "NONE" while there is no row
    razorpay,     \* the Razorpay order behind it
    due,          \* events Razorpay has yet to see acknowledged
    handler,      \* the webhook requests in the API
    jobs,         \* the queue
    announced     \* orders for which a confirmation job was ever added

vars == <<checkout, orderStatus, payment, razorpay, due, handler, jobs, announced>>

Events == [type : {"payment.captured", "payment.failed"}, order : Orders]

\* A request to the webhook route: an event, and whether its signature is
\* Razorpay's.
Deliveries == [event : Events, signed : BOOLEAN]

IdleHandler == [pc |-> "idle"]
BusyHandlers == [pc : {"received", "settling", "enqueueing", "acking"},
                 event : Events, signed : BOOLEAN]

FreeJob == [state |-> "none", order |-> NoOrder, stalls |-> 0, mails |-> 0]
JobRecords == [state : {"none", "waiting", "active", "sent", "completed", "failed"},
               order : Orders \cup {NoOrder},
               stalls : 0..MaxStalled,
               mails : Nat]

TypeOK ==
    /\ checkout \in [Orders -> {"none", "placed", "opened", "stored", "answered", "failed"}]
    /\ orderStatus \in [Orders -> {"NONE", "PENDING_PAYMENT", "PAID"}]
    /\ payment \in [Orders -> {"NONE", "CREATED", "CAPTURED"}]
    /\ razorpay \in [Orders -> {"none", "created", "captured"}]
    /\ due \in SUBSET Events
    /\ handler \in [Handlers -> {IdleHandler} \cup BusyHandlers]
    /\ jobs \in [Jobs -> JobRecords]
    /\ announced \in SUBSET Orders

Init ==
    /\ checkout = [o \in Orders |-> "none"]
    /\ orderStatus = [o \in Orders |-> "NONE"]
    /\ payment = [o \in Orders |-> "NONE"]
    /\ razorpay = [o \in Orders |-> "none"]
    /\ due = {}
    /\ handler = [h \in Handlers |-> IdleHandler]
    /\ jobs = [j \in Jobs |-> FreeJob]
    /\ announced = {}
-----------------------------------------------------------------------------
(* The checkout request, once its transaction has committed *)

PlaceOrder(o) ==
    /\ checkout[o] = "none"
    /\ checkout' = [checkout EXCEPT ![o] = "placed"]
    /\ orderStatus' = [orderStatus EXCEPT ![o] = "PENDING_PAYMENT"]
    /\ UNCHANGED <<payment, razorpay, due, handler, jobs, announced>>

OpenRazorpayOrder(o) ==
    /\ checkout[o] = "placed"
    /\ checkout' = [checkout EXCEPT ![o] = "opened"]
    /\ razorpay' = [razorpay EXCEPT ![o] = "created"]
    /\ UNCHANGED <<orderStatus, payment, due, handler, jobs, announced>>

StorePayment(o) ==
    /\ checkout[o] = "opened"
    /\ checkout' = [checkout EXCEPT ![o] = "stored"]
    /\ payment' = [payment EXCEPT ![o] = "CREATED"]
    /\ UNCHANGED <<orderStatus, razorpay, due, handler, jobs, announced>>

\* Mutant: the id is given away before the payment row is written.
AnswerEarly(o) ==
    /\ checkout[o] = "opened"
    /\ checkout' = [checkout EXCEPT ![o] = "answered"]
    /\ UNCHANGED <<orderStatus, payment, razorpay, due, handler, jobs, announced>>

\* Only now does the shopper learn the Razorpay order's id.
Answer(o) ==
    /\ checkout[o] = "stored"
    /\ checkout' = [checkout EXCEPT ![o] = "answered"]
    /\ UNCHANGED <<orderStatus, payment, razorpay, due, handler, jobs, announced>>

\* Razorpay or the database refuses, the API dies, or the answer is lost: the
\* request ends with the order and whatever else it has written left behind.
CheckoutFails(o) ==
    /\ checkout[o] \in {"placed", "opened", "stored"}
    /\ checkout' = [checkout EXCEPT ![o] = "failed"]
    /\ UNCHANGED <<orderStatus, payment, razorpay, due, handler, jobs, announced>>
-----------------------------------------------------------------------------
(* Razorpay *)

Event(type, o) == [type |-> type, order |-> o]

\* The shopper pays in the window the storefront opened with the id it was given.
Capture(o) ==
    /\ checkout[o] = "answered"
    /\ razorpay[o] = "created"
    /\ razorpay' = [razorpay EXCEPT ![o] = "captured"]
    /\ due' = due \cup {Event("payment.captured", o)}
    /\ UNCHANGED <<checkout, orderStatus, payment, handler, jobs, announced>>

\* A card is declined; the shopper may try again.
Decline(o) ==
    /\ checkout[o] = "answered"
    /\ razorpay[o] = "created"
    /\ due' = due \cup {Event("payment.failed", o)}
    /\ UNCHANGED <<checkout, orderStatus, payment, razorpay, handler, jobs, announced>>

Receive(h, e, signed) ==
    /\ handler[h].pc = "idle"
    /\ handler' = [handler EXCEPT ![h] = [pc |-> "received", event |-> e, signed |-> signed]]
    /\ UNCHANGED <<checkout, orderStatus, payment, razorpay, due, jobs, announced>>

\* Razorpay delivers an event it has not seen acknowledged; it does not wait for
\* an earlier delivery of it that is still being worked on.
Deliver(h, e) == e \in due /\ Receive(h, e, TRUE)

\* A request Razorpay did not sign: another secret, or another sender.
DeliverUnsigned(h, e) == Receive(h, e, FALSE)
-----------------------------------------------------------------------------
(* handleWebhook *)

Goto(h, pc) == handler' = [handler EXCEPT ![h].pc = pc]
Release(h) == handler' = [handler EXCEPT ![h] = IdleHandler]

\* The HMAC of the raw body is the signature that came with it.
SignatureIgnored(h) == TRUE           \* mutant: the comparison is dropped
SignatureMatches(h) == handler[h].signed

\* 400: the signature is not the one computed from the body.
RejectSignature(h) ==
    /\ handler[h].pc = "received"
    /\ ~SignatureMatches(h)
    /\ Release(h)
    /\ UNCHANGED <<checkout, orderStatus, payment, razorpay, due, jobs, announced>>

IsCaptureAny(h) == TRUE               \* mutant: the event's type is not looked at
IsCapture(h) == handler[h].event.type = "payment.captured"

\* Mutant: the confirmation is queued first, the transaction never run.
FindPaymentQueuesFirst(h) ==
    /\ handler[h].pc = "received"
    /\ SignatureMatches(h)
    /\ Goto(h, IF IsCapture(h) /\ payment[handler[h].event.order] # "NONE"
               THEN "enqueueing" ELSE "acking")
    /\ UNCHANGED <<checkout, orderStatus, payment, razorpay, due, jobs, announced>>

\* The payment is looked up by its Razorpay order; an event of another type, or
\* for an order the database does not know, is acknowledged and dropped.
FindPayment(h) ==
    /\ handler[h].pc = "received"
    /\ SignatureMatches(h)
    /\ Goto(h, IF IsCapture(h) /\ payment[handler[h].event.order] # "NONE"
               THEN "settling" ELSE "acking")
    /\ UNCHANGED <<checkout, orderStatus, payment, razorpay, due, jobs, announced>>

\* Mutant: orderQueue.add is not waited for, and is lost with the process.
SettleAndForget(h) ==
    LET o == handler[h].event.order IN
    /\ handler[h].pc = "settling"
    /\ payment' = [payment EXCEPT ![o] = "CAPTURED"]
    /\ orderStatus' = [orderStatus EXCEPT ![o] = "PAID"]
    /\ Goto(h, "acking")
    /\ UNCHANGED <<checkout, razorpay, due, jobs, announced>>

\* One transaction: payment CAPTURED and order PAID, again for a redelivery.
Settle(h) ==
    LET o == handler[h].event.order IN
    /\ handler[h].pc = "settling"
    /\ payment' = [payment EXCEPT ![o] = "CAPTURED"]
    /\ orderStatus' = [orderStatus EXCEPT ![o] = "PAID"]
    /\ Goto(h, "enqueueing")
    /\ UNCHANGED <<checkout, razorpay, due, jobs, announced>>

Unfinished(j) == jobs[j].state \in {"waiting", "active", "sent"}

\* orderQueue.add, after the transaction and outside it.  Jobs bounds the jobs
\* that are waiting or being worked on; finished ones are kept and do not count.
Enqueue(h) ==
    LET o == handler[h].event.order IN
    /\ handler[h].pc = "enqueueing"
    /\ \E j \in Jobs :
          /\ ~Unfinished(j)
          /\ jobs' = [jobs EXCEPT ![j] = [state |-> "waiting", order |-> o,
                                          stalls |-> 0, mails |-> 0]]
    /\ announced' = announced \cup {o}
    /\ Goto(h, "acking")
    /\ UNCHANGED <<checkout, orderStatus, payment, razorpay, due>>

\* The 2xx reaches Razorpay, which stops delivering the event.
Ack(h) ==
    /\ handler[h].pc = "acking"
    /\ due' = due \ {handler[h].event}
    /\ Release(h)
    /\ UNCHANGED <<checkout, orderStatus, payment, razorpay, jobs, announced>>

\* Mutant: the failure is swallowed and answered with a 2xx.
WebhookFailsQuietly(h) ==
    /\ handler[h].pc # "idle"
    /\ due' = due \ {handler[h].event}
    /\ Release(h)
    /\ UNCHANGED <<checkout, orderStatus, payment, razorpay, jobs, announced>>

\* The database or Redis fails, the API dies, or Razorpay gives up waiting for
\* the answer: the event stays due.
WebhookFails(h) ==
    /\ handler[h].pc # "idle"
    /\ Release(h)
    /\ UNCHANGED <<checkout, orderStatus, payment, razorpay, due, jobs, announced>>
-----------------------------------------------------------------------------
(* The worker *)

SetJob(j, state, mails) ==
    /\ jobs' = [jobs EXCEPT ![j].state = state, ![j].mails = mails]
    /\ UNCHANGED <<checkout, orderStatus, payment, razorpay, due, handler, announced>>

Take(j) ==
    /\ jobs[j].state = "waiting"
    /\ SetJob(j, "active", jobs[j].mails)

\* resend.emails.send succeeds.
SendEmail(j) ==
    /\ jobs[j].state = "active"
    /\ SetJob(j, "sent", jobs[j].mails + 1)

\* Mutant: the error Resend returns is not looked at.
SendRejectedUnseen(j) ==
    /\ jobs[j].state = "active"
    /\ SetJob(j, "sent", jobs[j].mails)

\* It reports an error instead, which the handler throws: the job's only attempt
\* has failed.
SendRejected(j) ==
    /\ jobs[j].state = "active"
    /\ SetJob(j, "failed", jobs[j].mails)

\* The mail went out but its answer did not come back, which is an error too.
SendReplyLost(j) ==
    /\ jobs[j].state = "active"
    /\ SetJob(j, "failed", jobs[j].mails + 1)

Complete(j) ==
    /\ jobs[j].state = "sent"
    /\ SetJob(j, "completed", jobs[j].mails)

\* Mutant: a stalled job is taken back without being counted.
StallUncounted(j) ==
    /\ jobs[j].state = "active"
    /\ SetJob(j, "waiting", jobs[j].mails)

\* The worker dies with the job: its lock runs out and BullMQ puts it back, or
\* fails it when that has happened before.
Stall(j) ==
    /\ jobs[j].state \in {"active", "sent"}
    /\ jobs' = [jobs EXCEPT ![j] =
                  IF jobs[j].stalls < MaxStalled
                  THEN [@ EXCEPT !.state = "waiting", !.stalls = jobs[j].stalls + 1]
                  ELSE [@ EXCEPT !.state = "failed"]]
    /\ UNCHANGED <<checkout, orderStatus, payment, razorpay, due, handler, announced>>
-----------------------------------------------------------------------------
CheckoutStep(o) ==
    \/ PlaceOrder(o)
    \/ OpenRazorpayOrder(o)
    \/ StorePayment(o)
    \/ Answer(o)
    \/ CheckoutFails(o)

RazorpayStep ==
    \/ \E o \in Orders : Capture(o) \/ Decline(o)
    \/ \E h \in Handlers, e \in Events : Deliver(h, e) \/ DeliverUnsigned(h, e)

\* What a delivery in the API does next when nothing fails.
WebhookStep(h) ==
    \/ RejectSignature(h)
    \/ FindPayment(h)
    \/ Settle(h)
    \/ Enqueue(h)
    \/ Ack(h)

WorkerStep(j) ==
    \/ Take(j)
    \/ SendEmail(j)
    \/ SendRejected(j)
    \/ SendReplyLost(j)
    \/ Complete(j)

Next ==
    \/ \E o \in Orders : CheckoutStep(o)
    \/ RazorpayStep
    \/ \E h \in Handlers : WebhookStep(h) \/ WebhookFails(h)
    \/ \E j \in Jobs : WorkerStep(j) \/ Stall(j)

Spec == Init /\ [][Next]_vars

\* A step of some delivery of the capture of o.
OfCapture(o, Step(_)) ==
    \E h \in Handlers : /\ handler[h].pc # "idle"
                        /\ handler[h].event = Event("payment.captured", o)
                        /\ Step(h)

\* Razorpay goes on delivering what is due, no step of the webhook fails for
\* ever, and the worker works.
Fairness ==
    /\ \A o \in Orders :
          /\ SF_vars(\E h \in Handlers : Deliver(h, Event("payment.captured", o)))
          /\ SF_vars(OfCapture(o, FindPayment))
          /\ SF_vars(OfCapture(o, Settle))
          /\ SF_vars(OfCapture(o, Enqueue))
    /\ \A h \in Handlers : WF_vars(WebhookStep(h) \/ WebhookFails(h))
    /\ \A j \in Jobs : WF_vars(WorkerStep(j))

FairSpec == Spec /\ Fairness
-----------------------------------------------------------------------------
(* Properties *)

\* An order is PAID exactly when its payment is CAPTURED, and then Razorpay has
\* the money ("the only place an order is allowed to become PAID", the comment
\* on handleWebhook).
PaidMeansCaptured ==
    \A o \in Orders :
        /\ orderStatus[o] = "PAID" <=> payment[o] = "CAPTURED"
        /\ orderStatus[o] = "PAID" => razorpay[o] = "captured"

\* Nobody can pay before the payment row is there, so the webhook never drops a
\* captured payment as an unknown order.
CaptureIsKnown ==
    \A o \in Orders : razorpay[o] = "captured" => payment[o] # "NONE"

\* Once Razorpay has stopped delivering a capture, the order is PAID and its
\* confirmation has been queued: the acknowledgement is never ahead of the work.
AcknowledgedMeansDone ==
    \A o \in Orders :
        razorpay[o] = "captured" /\ Event("payment.captured", o) \notin due =>
            orderStatus[o] = "PAID" /\ o \in announced

\* No confirmation is queued for an order that is not PAID, so no shopper is
\* thanked for an order the money for which did not come.
ConfirmedMeansPaid ==
    /\ \A j \in Jobs : jobs[j].state # "none" => jobs[j].order \in announced
    /\ \A o \in announced : orderStatus[o] = "PAID"

\* A completed job has sent its mail ("a rejected send silently reports the job
\* as completed" is what the handler's check of error is for), and a job sends a
\* second one only if its worker died in between.
CompletedMeansMailed ==
    \A j \in Jobs :
        /\ jobs[j].state \in {"sent", "completed"} => jobs[j].mails >= 1
        /\ jobs[j].state \in {"waiting", "active"} => jobs[j].mails <= jobs[j].stalls
        /\ jobs[j].mails <= jobs[j].stalls + 1

\* What the webhook relies on at each of its steps: a signed report of a capture
\* is about a capture that happened, a delivery past the lookup is such a report,
\* past the transaction its order is PAID, and past the queue it is announced.
DeliveryInv ==
    /\ \A o \in Orders :
          /\ checkout[o] \in {"stored", "answered"} => payment[o] # "NONE"
          /\ checkout[o] \in {"none", "placed"} => razorpay[o] = "none"
          /\ razorpay[o] = "captured" => checkout[o] = "answered"
          /\ Event("payment.captured", o) \in due => razorpay[o] = "captured"
    /\ \A h \in Handlers : handler[h].pc # "idle" =>
          LET o == handler[h].event.order IN
          /\ IsCapture(h) /\ handler[h].signed => razorpay[o] = "captured"
          /\ handler[h].pc # "received" => handler[h].signed
          /\ handler[h].pc \in {"settling", "enqueueing"} => IsCapture(h)
          /\ handler[h].pc = "enqueueing" => orderStatus[o] = "PAID"
          /\ handler[h].pc = "acking" /\ IsCapture(h) =>
                orderStatus[o] = "PAID" /\ o \in announced

\* A queued confirmation is worked on to an end.
JobsEnd ==
    \A j \in Jobs : jobs[j].state = "waiting" ~> jobs[j].state \in {"completed", "failed"}

\* For money taken a confirmation is queued in the end, whatever deliveries fail, and
\* so the order is PAID (ConfirmedMeansPaid).
CaptureIsAnnounced ==
    \A o \in Orders : razorpay[o] = "captured" ~> o \in announced
=============================================================================
