CONSTANTS
    Files <- MCFiles
    Msgs <- MCMsgs
SPECIFICATION Spec
INVARIANTS
    TypeOK
    DeprecatedNamesComplete
