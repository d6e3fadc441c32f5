SPECIFICATION Spec
CONSTANTS
    u1 = u1
    u2 = u2
    c3 = c3
    Requests = {q1, q2, q3}
    Keys = {k1}
    Checkouts = {c1, c2, c3}
    OwnerOf <- Owners
    MethodOf <- Methods
    ProviderOrders = {o1, o2}
    NoProvider = NoProvider
    NoRequest = NoRequest
    NoCheckout = NoCheckout
    NoKey = NoKey
    MaxRetries = 2
SYMMETRY Symmetry
INVARIANTS TypeOK AnswerBacked AnswerForCheckout OneCallerPerKey AttemptsAreOneRun
PROPERTY Idempotent
CHECK_DEADLOCK FALSE
