\* One order, two deliveries and two jobs at a time, under fairness.
SPECIFICATION FairSpec
CONSTANTS
    Orders = {o1}
    Handlers = {h1, h2}
    Jobs = {j1, j2}
    MaxStalled = 1
    NoOrder = NoOrder
INVARIANTS PaidMeansCaptured CaptureIsKnown AcknowledgedMeansDone ConfirmedMeansPaid CompletedMeansMailed DeliveryInv
PROPERTIES CaptureIsAnnounced JobsEnd
