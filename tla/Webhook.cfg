SPECIFICATION Spec
CONSTANTS
    Orders = {o1}
    Events = {e1, e2, e3}
    Payloads <- AllPayloads
    Deliveries = {d1, d2, d3}
    NoDelivery = NoDelivery
    MaxQueue = 2
SYMMETRY Symmetry
INVARIANTS ConfirmedIffCaptured AnnouncedOnce ComparisonStillHolds
PROPERTY CapturedIsFinal
CHECK_DEADLOCK FALSE
