CONSTANTS
    Programs <- MCPrograms
    Funcs <- MCFuncs
    Types <- MCTypes
    InitEnv <- MCInitEnv
    InitMemory <- MCInitMemory
    Result <- MCResult
SPECIFICATION Spec
INVARIANTS ResultIsMeaning StackRestored TempsFreed NoPanic
CHECK_DEADLOCK FALSE
