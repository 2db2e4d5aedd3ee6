SPECIFICATION FairSpec
CONSTANTS
    d1 = d1
    d2 = d2
    d3 = d3
    d4 = d4
    a1 = a1
    a2 = a2
    a3 = a3
    p1 = p1
    p2 = p2
    k1 = k1
    None = None
    Genesis = Genesis
    Writers = {w1, w2}
    Requests <- MCRequests
    MaxSeq = 4
    Serialised = FALSE
CHECK_DEADLOCK FALSE
INVARIANTS AcceptedHasConsequences OneAcceptancePerId ChainIsRooted IInv
PROPERTY TransactionsEnd
