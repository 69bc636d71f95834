SPECIFICATION Spec
CONSTANTS
    ct1 = ct1
    ct2 = ct2
    addr1 = addr1
    addr2 = addr2
    garbage = garbage
    documented = documented
    shfe = shfe
    cffex = cffex
    on = on
    NoAddress = NoAddress
    Wrong = Wrong
    PlainDefault = PlainDefault
    Contract <- MCContract
    contractList <- MCContractList
    Node <- MCNode
    Address <- MCAddress
    PlainField <- MCPlainField
INVARIANT DefaultAddress
CHECK_DEADLOCK FALSE
