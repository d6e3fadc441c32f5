SPECIFICATION Spec
CONSTANTS
    o1 = o1
    Orders = {o1, o2}
    Products = {p1, p2}
    Workers = {w1, w2}
    Items <- Uneven
    NoWorker = NoWorker
    NoOrder = NoOrder
    MaxAttempts = 2
    MaxQty = 2
    MaxStock = 2
    MaxQueue = 3
SYMMETRY Symmetry
INVARIANTS StockConserved StockNeverNegative DoneMeansTaken
CHECK_DEADLOCK FALSE
