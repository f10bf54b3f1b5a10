SPECIFICATION Spec
CONSTANTS
    k1 = k1
    vp1 = vp1
    Key <- MCKey
    VpKey <- MCVpKey
    vp_key <- MCvp_key
    Val = {v1}
    NoVal = NoVal
    Hash = {h1}
    Event = {e1}
INVARIANTS FreshAddress
PROPERTIES VpNeverDeleted ImplementsStore OperationsMatch
