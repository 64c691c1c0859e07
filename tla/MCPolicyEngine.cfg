SPECIFICATION EngineSpec
CONSTANTS
    sync = sync
    slow = slow
    Providers = {sync, slow}
    AsyncProviders = {slow}
    FlakyProviders = {slow}
    Opaque = {}
    Unrestorable = {}
    InitialChain <- MCInitialChain
    ReplacementChains <- MCReplacementChains
    DirectOps = {"add", "swap", "replace", "rollback"}
    Proposals = {}
    Direct = Direct
    Tasks = {t1, t2}
    Requests = {r1}
    NoTask = NoTask
    NoProvider = NoProvider
    SaveMayFail = FALSE
    FailClosed = TRUE
    MaxChanges = 2
INVARIANTS TypeOK AllowedByAll
PROPERTIES WaitersServed EvaluationsEnd
CHECK_DEADLOCK FALSE
