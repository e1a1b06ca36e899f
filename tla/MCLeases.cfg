SPECIFICATION LeaseSpec
CONSTANTS
    Clients = {"c1", "c2"}
    Leases = {"l1", "l2"}
    Keys = {"k1", "bad"}
    Invalid = {"bad"}
    Capacity = 1
    MaxRequests = 2
CHECK_DEADLOCK FALSE
INVARIANTS
    FirstEndDecides
PROPERTIES
    RequestsEnd
