CONSTANTS
    f1 = f1
    f2 = f2
    FnIds <- MCFnIds
    BlockIds <- MCBlockIds
    MaxBlockLen = 4
    Programs <- MCPrograms
SPECIFICATION Spec
INVARIANTS
    TypeOK
    CfgStaysConsistent
PROPERTIES
    BarrierHolds
    RefinesAbstractInit
    InitEventuallyReturns
