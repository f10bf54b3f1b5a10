SPECIFICATION Spec
CONSTANTS
    a = a
    b = b
    val = val
    masp = masp
    w1 = w1
    w2 = w2
    w3 = w3
    w4 = w4
    w5 = w5
    w6 = w6
    w7 = w7
    r5 = r5
    r1 = r1
    r4 = r4
    Key <- MCKey
    VpKey = {}
    vp_key <- MCno_vp_key
    Val <- MCVal
    NoVal = NoVal
    Hash <- MCHash
    Event <- MCWrapper
    Node = {n1, n2}
    Wrapper <- MCWrapper
    Raw <- MCRaw
    raw <- MCraw
    payer <- MCpayer
    fee <- MCfee
    unshield <- MCunshield
    inner <- MCinner
    ending <- MCending
    proposer = val
    pool = masp
    genesis <- MCgenesis
    MaxBlockTxs = 2
    MaxHeight = 3
INVARIANTS TypeOK NoPanic AppliedOnce ChargedOnce SupplyConserved ReplicasAgree
SYMMETRY Symmetry
CHECK_DEADLOCK FALSE
