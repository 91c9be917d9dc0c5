CONSTANTS
    r1 = r1
    r2 = r2
    Receivers <- MCReceivers
    Programs <- FullPrograms
SPECIFICATION Spec
INVARIANT
    NoCheckerPanics
