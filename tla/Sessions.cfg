SPECIFICATION Spec
CONSTANTS
    Users = {ann, bob}
    Devices = {d1}
    Tokens = {t1, t2, t3}
    Requests = {r1, r2, r3, r4}
    None = None
    Roles = {buyer, admin}
    DEFAULT_ROLE = buyer
    Admin = admin
SYMMETRY Symmetry
INVARIANTS TypeOK OneLiveToken CurrentVersionMeansCurrentRoles
PROPERTY LinkedForGood
CHECK_DEADLOCK FALSE
