CONSTANTS
    F = F
    G = G
    b1 = b1
    b2 = b2
    b3 = b3
    k1 = k1
    NoKey = NoKey
    Funcs <- MCFuncs
    Blocks <- MCBlocks
    BlockOrder <- MCBlockOrder
    Parent <- MCParent
    InitialFunctions <- MCInitialFunctions
    Keys <- MCKeys
    Methods <- MCMethods
    Programs <- IntraPrograms
SPECIFICATION Spec
INVARIANT SelfDoubleLockInLoopReported
