SPECIFICATION FairSpec
CONSTANTS
    Users = {u1, u2}
    Products = {p1, p2}
    Checkouts = {c1, c2}
    Requests = {r1, r2}
    Methods = {"UPI"}
    NoUser = NoUser
    NoRequest = NoRequest
    MaxItemQty = 1
    MaxStock = 1
    Ttl = 1
    MaxClock = 0
PROPERTY RequestsAnswered
CHECK_DEADLOCK FALSE
