SPECIFICATION Spec
CONSTANTS
    Users = {u1}
    Products = {p1}
    Checkouts = {c1}
    Requests = {r1, r2}
    Methods = {"UPI"}
    NoUser = NoUser
    NoRequest = NoRequest
    MaxItemQty = 2
    MaxStock = 3
    Ttl = 1
    MaxClock = 1
INVARIANT ReservationMatchesSnapshot
CHECK_DEADLOCK FALSE
