CONSTANTS
    FuncIds <- MCFuncIds
    Programs <- MCPrograms
SPECIFICATION Spec
INVARIANT
    FatalGoroutinesReported
