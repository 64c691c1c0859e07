SPECIFICATION EngineSpec
CONSTANTS
    sync = sync
    slow = slow
    Providers = {sync, slow}
    AsyncProviders = {slow}
    FlakyProviders = {slow}
    Opaque = {}
    Unrestorable = {}
    InitialChain <- MCInitialChain
    ReplacementChains <- MCReplacementChains
    DirectOps = {"remove"}
    Proposals = {}
    Direct = Direct
    Tasks = {t1, t2}
    Requests = {r1}
    NoTask = NoTask
    NoProvider = NoProvider
    SaveMayFail = FALSE
    FailClosed = TRUE
    MaxChanges = 2
INVARIANTS AllowedByAll
CHECK_DEADLOCK FALSE
