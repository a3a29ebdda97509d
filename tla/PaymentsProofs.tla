--------------------------- MODULE PaymentsProofs ---------------------------
(***************************************************************************)
(* For any number of orders, concurrent webhook deliveries and jobs: money *)
(* and order status agree, and an acknowledged capture is settled and      *)
(* announced.                                                              *)
(***************************************************************************)
EXTENDS Payments, TLAPS

LEMMA TypeInit == Init => TypeOK
  BY PaymentsAssumption DEF Init, TypeOK, FreeJob, JobRecords

\* A job moves on within its types.
LEMMA SetJobType ==
    ASSUME TypeOK, NEW j \in Jobs, NEW state \in {"active", "sent", "completed", "failed"},
           NEW mails \in Nat, SetJob(j, state, mails)
    PROVE  TypeOK'
  <1>1. jobs[j] \in JobRecords /\ jobs \in [Jobs -> JobRecords]
    BY DEF TypeOK
  <1>2. [jobs[j] EXCEPT !.state = state, !.mails = mails] \in JobRecords
    BY <1>1 DEF JobRecords
  <1>3. jobs' = [jobs EXCEPT ![j] = [jobs[j] EXCEPT !.state = state, !.mails = mails]]
    BY <1>1 DEF SetJob, JobRecords
  <1>4. QED
    BY <1>1, <1>2, <1>3 DEF TypeOK, SetJob

\* Every step keeps orders, payments, deliveries and jobs well typed.
LEMMA TypeStep == TypeOK /\ [Next]_vars => TypeOK'
  <1> SUFFICES ASSUME TypeOK, [Next]_vars PROVE TypeOK'
    OBVIOUS
  <1>1. ASSUME NEW o \in Orders, CheckoutStep(o) PROVE TypeOK'
    BY <1>1 DEF TypeOK, CheckoutStep, PlaceOrder, OpenRazorpayOrder, StorePayment,
       Answer, CheckoutFails
  <1>2. ASSUME NEW o \in Orders, Capture(o) \/ Decline(o) PROVE TypeOK'
    BY <1>2 DEF TypeOK, Capture, Decline, Event, Events
  <1>3. ASSUME NEW h \in Handlers, NEW e \in Events, NEW signed \in BOOLEAN,
               Receive(h, e, signed)
        PROVE  TypeOK'
    BY <1>3 DEF TypeOK, Receive, BusyHandlers
  <1>4. ASSUME NEW h \in Handlers, WebhookStep(h) PROVE TypeOK'
    <2>1. ASSUME handler[h].pc # "idle"
          PROVE  handler[h] \in BusyHandlers /\ handler[h].event.order \in Orders
      BY <2>1 DEF TypeOK, IdleHandler, BusyHandlers, Events
    <2>2. CASE RejectSignature(h)
      BY <2>2 DEF TypeOK, RejectSignature, Release
    <2>3. CASE FindPayment(h)
      BY <2>1, <2>3 DEF TypeOK, FindPayment, Goto, BusyHandlers
    <2>4. CASE Settle(h)
      BY <2>1, <2>4 DEF TypeOK, Settle, Goto, BusyHandlers
    <2>5. CASE Enqueue(h)
      <3>1. handler[h] \in BusyHandlers /\ handler[h].event.order \in Orders
        BY <2>1, <2>5 DEF Enqueue
      <3>2. jobs' \in [Jobs -> JobRecords]
        BY <2>5, <3>1, PaymentsAssumption DEF TypeOK, Enqueue, JobRecords
      <3>3. QED
        BY <2>5, <3>1, <3>2 DEF TypeOK, Enqueue, Goto, BusyHandlers
    <2>6. CASE Ack(h)
      BY <2>6 DEF TypeOK, Ack, Release
    <2>7. QED
      BY <1>4, <2>2, <2>3, <2>4, <2>5, <2>6 DEF WebhookStep
  <1>5. ASSUME NEW h \in Handlers, WebhookFails(h) PROVE TypeOK'
    BY <1>5 DEF TypeOK, WebhookFails, Release
  <1>6. ASSUME NEW j \in Jobs, WorkerStep(j) PROVE TypeOK'
    <2>1. jobs[j].mails \in Nat /\ jobs[j].mails + 1 \in Nat
      BY DEF TypeOK, JobRecords
    <2>2. QED
      BY <1>6, <2>1, SetJobType
      DEF WorkerStep, Take, SendEmail, SendRejected, SendReplyLost, Complete
  <1>7. ASSUME NEW j \in Jobs, Stall(j) PROVE TypeOK'
    <2>1. jobs[j] \in JobRecords
      BY DEF TypeOK
    <2>2. jobs' \in [Jobs -> JobRecords]
      <3>1. CASE jobs[j].stalls < MaxStalled
        <4>1. jobs[j].stalls + 1 \in 0..MaxStalled
          BY <2>1, <3>1, PaymentsAssumption DEF JobRecords
        <4>2. [jobs[j] EXCEPT !.state = "waiting", !.stalls = jobs[j].stalls + 1]
                 \in JobRecords
          BY <2>1, <4>1 DEF JobRecords
        <4>3. QED
          BY <1>7, <3>1, <4>2 DEF TypeOK, Stall
      <3>2. CASE ~(jobs[j].stalls < MaxStalled)
        <4>1. [jobs[j] EXCEPT !.state = "failed"] \in JobRecords
          BY <2>1 DEF JobRecords
        <4>2. QED
          BY <1>7, <3>2, <4>1 DEF TypeOK, Stall
      <3>3. QED
        BY <3>1, <3>2
    <2>3. QED
      BY <1>7, <2>2 DEF TypeOK, Stall
  <1>8. CASE UNCHANGED vars
    BY <1>8 DEF TypeOK, vars
  <1>9. QED
    BY <1>1, <1>2, <1>3, <1>4, <1>5, <1>6, <1>7, <1>8
    DEF Next, RazorpayStep, Deliver, DeliverUnsigned

\* Type correctness of orders, payments, webhook deliveries and jobs.
THEOREM TypeCorrect == Spec => []TypeOK
  BY TypeInit, TypeStep, PTL DEF Spec
-----------------------------------------------------------------------------
(* Money and order status *)

\* The invariant of the deliveries and the properties it carries.
PaymentInv == DeliveryInv /\ PaidMeansCaptured /\ AcknowledgedMeansDone

LEMMA PaymentInit == Init => PaymentInv
  BY DEF Init, PaymentInv, DeliveryInv, PaidMeansCaptured, AcknowledgedMeansDone,
     IdleHandler, Event

\* A handler that is released keeps what the others rely on.
LEMMA ReleaseKeepsInv ==
    ASSUME TypeOK, PaymentInv, NEW h \in Handlers, Release(h),
           UNCHANGED <<checkout, orderStatus, payment, razorpay, due, announced>>
    PROVE  PaymentInv'
  BY DEF TypeOK, PaymentInv, DeliveryInv, PaidMeansCaptured, AcknowledgedMeansDone,
     Release, IdleHandler, IsCapture, Event

\* The worker touches nothing the webhook relies on.
LEMMA WorkerKeepsInv ==
    ASSUME PaymentInv,
           UNCHANGED <<checkout, orderStatus, payment, razorpay, due, handler, announced>>
    PROVE  PaymentInv'
  BY DEF PaymentInv, DeliveryInv, PaidMeansCaptured, AcknowledgedMeansDone, IsCapture,
     Event

LEMMA PaymentStep == TypeOK /\ PaymentInv /\ [Next]_vars => PaymentInv'
  <1> SUFFICES ASSUME TypeOK, PaymentInv, [Next]_vars PROVE PaymentInv'
    OBVIOUS
  <1> USE DEF PaymentInv, DeliveryInv, PaidMeansCaptured, AcknowledgedMeansDone, IsCapture,
              Event
  <1>0. ASSUME NEW h \in Handlers, handler[h].pc # "idle"
        PROVE  handler[h] \in BusyHandlers /\ handler[h].event \in Events
    BY <1>0 DEF TypeOK, IdleHandler, BusyHandlers
  <1>1. ASSUME NEW o \in Orders, CheckoutStep(o) PROVE PaymentInv'
    <2>0. \A h \in Handlers : handler[h].pc # "idle" => handler[h].event.order \in Orders
      BY <1>0 DEF Events
    <2>1. CASE PlaceOrder(o)
      <3>1. razorpay[o] = "none" /\ orderStatus[o] # "PAID"
        BY <2>1 DEF PlaceOrder
      <3>2. \A p \in Orders : /\ orderStatus'[p] = "PAID" <=> orderStatus[p] = "PAID"
                              /\ p # o => checkout'[p] = checkout[p]
        BY <2>1, <3>1 DEF TypeOK, PlaceOrder
      <3>3. checkout'[o] = "placed"
        BY <2>1 DEF TypeOK, PlaceOrder
      <3>4. UNCHANGED <<payment, razorpay, due, handler, announced>>
        BY <2>1 DEF PlaceOrder
      <3>5. DeliveryInv'
        BY <2>0, <3>1, <3>2, <3>3, <3>4
      <3>6. PaidMeansCaptured' /\ AcknowledgedMeansDone'
        BY <3>2, <3>4
      <3>7. QED
        BY <3>5, <3>6
    <2>2. CASE OpenRazorpayOrder(o)
      <3>1. razorpay[o] = "none"
        BY <2>2 DEF OpenRazorpayOrder
      <3>2. \A p \in Orders : /\ razorpay'[p] = "captured" <=> razorpay[p] = "captured"
                              /\ p # o => checkout'[p] = checkout[p] /\ razorpay'[p] = razorpay[p]
        BY <2>2, <3>1 DEF TypeOK, OpenRazorpayOrder
      <3>3. checkout'[o] = "opened"
        BY <2>2 DEF TypeOK, OpenRazorpayOrder
      <3>4. UNCHANGED <<orderStatus, payment, due, handler, announced>>
        BY <2>2 DEF OpenRazorpayOrder
      <3>5. DeliveryInv'
        BY <2>0, <3>1, <3>2, <3>3, <3>4
      <3>6. PaidMeansCaptured' /\ AcknowledgedMeansDone'
        BY <3>2, <3>4
      <3>7. QED
        BY <3>5, <3>6
    <2>3. CASE StorePayment(o)
      BY <2>3 DEF TypeOK, StorePayment
    <2>4. CASE Answer(o)
      BY <2>4 DEF TypeOK, Answer
    <2>5. CASE CheckoutFails(o)
      BY <2>5 DEF TypeOK, CheckoutFails
    <2>6. QED
      BY <1>1, <2>1, <2>2, <2>3, <2>4, <2>5 DEF CheckoutStep
  <1>2. ASSUME NEW o \in Orders, Capture(o) PROVE PaymentInv'
    BY <1>2 DEF TypeOK, Capture
  <1>3. ASSUME NEW o \in Orders, Decline(o) PROVE PaymentInv'
    BY <1>3 DEF TypeOK, Decline
  <1>4. ASSUME NEW h \in Handlers, NEW e \in Events, Deliver(h, e) PROVE PaymentInv'
    BY <1>4 DEF TypeOK, Deliver, Receive, Events
  <1>5. ASSUME NEW h \in Handlers, NEW e \in Events, DeliverUnsigned(h, e)
        PROVE  PaymentInv'
    BY <1>5 DEF TypeOK, DeliverUnsigned, Receive, Events
  <1>6. ASSUME NEW h \in Handlers, RejectSignature(h) \/ WebhookFails(h)
        PROVE  PaymentInv'
    BY <1>6, ReleaseKeepsInv DEF RejectSignature, WebhookFails
  <1>8. ASSUME NEW h \in Handlers, FindPayment(h) PROVE PaymentInv'
    BY <1>0, <1>8 DEF TypeOK, FindPayment, SignatureMatches, Goto, BusyHandlers, Events
  <1>9. ASSUME NEW h \in Handlers, Settle(h) PROVE PaymentInv'
    BY <1>0, <1>9 DEF TypeOK, Settle, Goto, BusyHandlers, Events
  <1>10. ASSUME NEW h \in Handlers, Enqueue(h) PROVE PaymentInv'
    <2>1. handler[h] \in BusyHandlers /\ handler[h].event.order \in Orders
      BY <1>0, <1>10 DEF Enqueue, Events
    <2>2. announced' = announced \cup {handler[h].event.order}
      BY <1>10 DEF Enqueue
    <2>3. /\ \A k \in Handlers \ {h} : handler'[k] = handler[k]
          /\ handler'[h].pc = "acking"
          /\ handler'[h].event = handler[h].event
          /\ handler'[h].signed = handler[h].signed
      BY <1>10, <2>1 DEF TypeOK, Enqueue, Goto, BusyHandlers
    <2>4. handler[h].pc = "enqueueing"
          /\ UNCHANGED <<checkout, orderStatus, payment, razorpay, due>>
      BY <1>10 DEF Enqueue
    <2>5. DeliveryInv'
      BY <2>1, <2>2, <2>3, <2>4 DEF TypeOK, BusyHandlers
    <2>6. PaidMeansCaptured' /\ AcknowledgedMeansDone'
      BY <2>2, <2>4
    <2>7. QED
      BY <2>5, <2>6
  <1>11. ASSUME NEW h \in Handlers, Ack(h) PROVE PaymentInv'
    BY <1>0, <1>11 DEF TypeOK, Ack, Release, IdleHandler, BusyHandlers, Events
  <1>12. ASSUME NEW j \in Jobs, WorkerStep(j) \/ Stall(j) PROVE PaymentInv'
    BY <1>12, WorkerKeepsInv
    DEF WorkerStep, Take, SendEmail, SendRejected, SendReplyLost, Complete, SetJob, Stall
  <1>13. CASE UNCHANGED vars
    BY <1>13, WorkerKeepsInv DEF vars
  <1>14. QED
    BY <1>1, <1>2, <1>3, <1>4, <1>5, <1>6, <1>8, <1>9, <1>10, <1>11, <1>12, <1>13
    DEF Next, RazorpayStep, WebhookStep

\* An order is PAID exactly when its payment is CAPTURED, and then the money is in.
THEOREM PaidOrdersAreCaptured == Spec => []PaidMeansCaptured
  <1>1. PaymentInv => PaidMeansCaptured
    BY DEF PaymentInv
  <1>2. QED
    BY <1>1, TypeInit, TypeStep, PaymentInit, PaymentStep, PTL DEF Spec

\* Razorpay never stops delivering a capture that is not settled and announced.
THEOREM AcknowledgedIsDone == Spec => []AcknowledgedMeansDone
  <1>1. PaymentInv => AcknowledgedMeansDone
    BY DEF PaymentInv
  <1>2. QED
    BY <1>1, TypeInit, TypeStep, PaymentInit, PaymentStep, PTL DEF Spec

\* A captured payment is never one the webhook does not know.
THEOREM CapturesAreKnown == Spec => []CaptureIsKnown
  <1>1. PaymentInv => CaptureIsKnown
    BY DEF PaymentInv, DeliveryInv, CaptureIsKnown
  <1>2. QED
    BY <1>1, TypeInit, TypeStep, PaymentInit, PaymentStep, PTL DEF Spec
\* Every step of a delivery finds what the step before it left.
THEOREM DeliveriesAreSound == Spec => []DeliveryInv
  <1>1. PaymentInv => DeliveryInv
    BY DEF PaymentInv
  <1>2. QED
    BY <1>1, TypeInit, TypeStep, PaymentInit, PaymentStep, PTL DEF Spec
-----------------------------------------------------------------------------
(* Confirmations *)

\* An order that is PAID stays PAID.
LEMMA PaidStays ==
    ASSUME TypeOK, PaymentInv, [Next]_vars, NEW o \in Orders, orderStatus[o] = "PAID"
    PROVE  orderStatus'[o] = "PAID"
  <1>1. checkout[o] = "answered"
    BY DEF PaymentInv, PaidMeansCaptured, DeliveryInv
  <1>2. ASSUME NEW p \in Orders, CheckoutStep(p) PROVE orderStatus'[o] = "PAID"
    BY <1>1, <1>2
    DEF TypeOK, CheckoutStep, PlaceOrder, OpenRazorpayOrder, StorePayment, Answer, CheckoutFails
  <1>3. ASSUME NEW h \in Handlers, Settle(h) PROVE orderStatus'[o] = "PAID"
    BY <1>3 DEF TypeOK, Settle
  <1>4. QED
    BY <1>2, <1>3
    DEF Next, RazorpayStep, Capture, Decline, Deliver, DeliverUnsigned, Receive,
        WebhookStep, RejectSignature, FindPayment, Enqueue, Ack, WebhookFails,
        WorkerStep, SetJob, Take, SendEmail, SendRejected, SendReplyLost, Complete, Stall,
        vars

LEMMA ConfirmationStep ==
    TypeOK /\ PaymentInv /\ ConfirmedMeansPaid /\ [Next]_vars => ConfirmedMeansPaid'
  <1> SUFFICES ASSUME TypeOK, PaymentInv, ConfirmedMeansPaid, [Next]_vars
               PROVE  ConfirmedMeansPaid'
    OBVIOUS
  <1>1. ASSUME NEW o \in Orders, o \in announced PROVE orderStatus'[o] = "PAID"
    BY <1>1, PaidStays DEF ConfirmedMeansPaid
  <1>2. \A o \in announced' : orderStatus'[o] = "PAID"
    <2>1. CASE announced' = announced
      BY <1>1, <2>1 DEF TypeOK
    <2>2. ASSUME NEW h \in Handlers, Enqueue(h)
          PROVE  \A o \in announced' : orderStatus'[o] = "PAID"
      <3>1. orderStatus[handler[h].event.order] = "PAID"
        BY <2>2 DEF Enqueue, PaymentInv, DeliveryInv
      <3>2. QED
        BY <1>1, <2>2, <3>1 DEF TypeOK, Enqueue
    <2>3. QED
      BY <2>1, <2>2
      DEF Next, CheckoutStep, PlaceOrder, OpenRazorpayOrder, StorePayment, Answer,
          CheckoutFails, RazorpayStep, Capture, Decline, Deliver, DeliverUnsigned, Receive,
          WebhookStep, RejectSignature, FindPayment, Settle, Ack, WebhookFails,
          WorkerStep, SetJob, Take, SendEmail, SendRejected, SendReplyLost, Complete,
          Stall, vars
  <1>3. \A j \in Jobs : jobs'[j].state # "none" => jobs'[j].order \in announced'
    <2>1. CASE UNCHANGED <<jobs, announced>>
      BY <2>1 DEF ConfirmedMeansPaid
    <2>2. ASSUME NEW h \in Handlers, Enqueue(h)
          PROVE  \A j \in Jobs : jobs'[j].state # "none" => jobs'[j].order \in announced'
      BY <2>2 DEF ConfirmedMeansPaid, Enqueue, TypeOK
    <2>3. ASSUME NEW j \in Jobs, WorkerStep(j) \/ Stall(j)
          PROVE  \A i \in Jobs : jobs'[i].state # "none" => jobs'[i].order \in announced'
      <3>0. jobs \in [Jobs -> JobRecords] /\ jobs[j] \in JobRecords
        BY DEF TypeOK
      <3>1. /\ UNCHANGED announced
            /\ jobs[j].state # "none"
            /\ \A i \in Jobs : i # j => jobs'[i] = jobs[i]
            /\ jobs'[j].order = jobs[j].order
        <4>1. CASE WorkerStep(j)
          BY <3>0, <4>1
          DEF JobRecords, WorkerStep, SetJob, Take, SendEmail, SendRejected,
              SendReplyLost, Complete
        <4>2. CASE Stall(j)
          BY <3>0, <4>2 DEF JobRecords, Stall
        <4>3. QED
          BY <2>3, <4>1, <4>2
      <3>2. QED
        BY <3>1 DEF ConfirmedMeansPaid
    <2>4. QED
      BY <2>1, <2>2, <2>3
      DEF Next, CheckoutStep, PlaceOrder, OpenRazorpayOrder, StorePayment, Answer,
          CheckoutFails, RazorpayStep, Capture, Decline, Deliver, DeliverUnsigned, Receive,
          WebhookStep, RejectSignature, FindPayment, Settle, Ack, WebhookFails, vars
  <1>4. QED
    BY <1>2, <1>3 DEF ConfirmedMeansPaid

\* A confirmation is only ever queued for an order that is PAID.
THEOREM ConfirmationsArePaid == Spec => []ConfirmedMeansPaid
  <1>1. Init => ConfirmedMeansPaid
    BY DEF Init, ConfirmedMeansPaid, FreeJob
  <1>2. QED
    BY <1>1, ConfirmationStep, TypeInit, TypeStep, PaymentInit, PaymentStep, PTL DEF Spec
-----------------------------------------------------------------------------
(* Mails *)

\* What CompletedMeansMailed says of one job.
MailsOf(j) ==
    /\ jobs[j].state \in {"sent", "completed"} => jobs[j].mails >= 1
    /\ jobs[j].state \in {"waiting", "active"} => jobs[j].mails <= jobs[j].stalls
    /\ jobs[j].mails <= jobs[j].stalls + 1

LEMMA MailsStep == TypeOK /\ CompletedMeansMailed /\ [Next]_vars => CompletedMeansMailed'
  <1> SUFFICES ASSUME TypeOK, CompletedMeansMailed, [Next]_vars, NEW i \in Jobs
               PROVE  MailsOf(i)'
    BY DEF CompletedMeansMailed, MailsOf
  <1>0. /\ MailsOf(i)
        /\ jobs \in [Jobs -> JobRecords] /\ jobs[i] \in JobRecords
        /\ jobs[i].mails \in Nat /\ jobs[i].stalls \in Nat
    BY PaymentsAssumption DEF CompletedMeansMailed, MailsOf, TypeOK, JobRecords
  <1>1. CASE jobs' = jobs
    BY <1>0, <1>1 DEF MailsOf
  <1>2. ASSUME NEW h \in Handlers, Enqueue(h) PROVE MailsOf(i)'
    <2>1. \/ jobs'[i] = jobs[i]
          \/ jobs'[i].state = "waiting" /\ jobs'[i].stalls = 0 /\ jobs'[i].mails = 0
      BY <1>0, <1>2 DEF Enqueue
    <2>2. QED
      BY <1>0, <2>1 DEF MailsOf
  <1>3. ASSUME NEW j \in Jobs, WorkerStep(j) \/ Stall(j) PROVE MailsOf(i)'
    <2>1. CASE i # j
      <3>1. jobs'[i] = jobs[i]
        BY <1>0, <1>3, <2>1
        DEF WorkerStep, SetJob, Take, SendEmail, SendRejected, SendReplyLost, Complete, Stall
      <3>2. QED
        BY <1>0, <3>1 DEF MailsOf
    <2>2. CASE i = j /\ WorkerStep(j)
      BY <1>0, <2>2
      DEF MailsOf, JobRecords, WorkerStep, SetJob, Take, SendEmail, SendRejected,
          SendReplyLost, Complete
    <2>3. CASE i = j /\ Stall(j)
      BY <1>0, <2>3 DEF MailsOf, JobRecords, Stall
    <2>4. QED
      BY <1>3, <2>1, <2>2, <2>3
  <1>4. QED
    BY <1>1, <1>2, <1>3
    DEF Next, CheckoutStep, PlaceOrder, OpenRazorpayOrder, StorePayment, Answer,
        CheckoutFails, RazorpayStep, Capture, Decline, Deliver, DeliverUnsigned, Receive,
        WebhookStep, RejectSignature, FindPayment, Settle, Ack, WebhookFails, vars

\* A job that completed has sent its mail, and one more at most for each time that its
\* worker died.
THEOREM CompletedJobsMailed == Spec => []CompletedMeansMailed
  <1>1. Init => CompletedMeansMailed
    BY PaymentsAssumption DEF Init, CompletedMeansMailed, FreeJob
  <1>2. QED
    BY <1>1, MailsStep, TypeInit, TypeStep, PTL DEF Spec
=============================================================================
