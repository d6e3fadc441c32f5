SPECIFICATION FairSpec
CONSTANTS
    u1 = u1
    u2 = u2
    c3 = c3
    Requests = {q1, q2}
    Keys = {k1, k2}
    Checkouts = {c1, c2}
    OwnerOf <- Owners
    MethodOf <- Methods
    ProviderOrders = {o1, o2}
    NoProvider = NoProvider
    NoRequest = NoRequest
    NoCheckout = NoCheckout
    NoKey = NoKey
    MaxRetries = 2
PROPERTIES RequestsAnswered OrderNeedsOpenCheckout
CHECK_DEADLOCK FALSE
