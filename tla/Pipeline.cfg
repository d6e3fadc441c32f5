SPECIFICATION PipelineSpec
CONSTANTS
    Orders = {o1, o2}
    Events = {e1, e2}
    Payloads <- CorePayloads
    Deliveries = {d1, d2, d3}
    NoDelivery = NoDelivery
    MaxQueue = 3
    Products = {p1}
    Workers = {w1, w2}
    Items <- OneOfEach
    NoWorker = NoWorker
    NoOrder = NoOrder
    MaxAttempts = 2
    MaxQty = 1
    MaxStock = 1
SYMMETRY Symmetry
INVARIANT StockOnlyForPaid
PROPERTIES ImplementsWorker ImplementsWebhook
CHECK_DEADLOCK FALSE
