SPECIFICATION Spec
CONSTANTS
    f1 = f1  f2 = f2  f3 = f3
    d1 = d1
    None = None
    Funcs <- MCFuncs
    Dispatchers = {d1}
    Commands <- MCCommands
    ConnectFirst = FALSE
SYMMETRY Symmetric
CHECK_DEADLOCK FALSE
INVARIANTS
    OneRegistrationPerId
    RemovedNeverRuns
    EachRunsOnce
    BaseRunsFirst
