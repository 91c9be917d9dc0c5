CONSTANTS
    Files <- MCFiles
    Msgs <- MCMsgs
SPECIFICATION Spec
INVARIANT
    NoDeprecationFromUnrelatedDoc
