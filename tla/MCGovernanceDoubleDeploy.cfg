SPECIFICATION Spec
CONSTANTS
    base = base
    extra = extra
    odd = odd
    Providers = {base, extra}
    AsyncProviders = {base, extra}
    FlakyProviders = {}
    Opaque = {}
    Unrestorable = {}
    InitialChain <- MCInitialChain
    ReplacementChains <- MCReplacementChains
    DirectOps = {}
    Proposals = {p1, p2}
    Direct = Direct
    Tasks = {t1, t2}
    Requests = {}
    NoTask = NoTask
    NoProvider = NoProvider
    SaveMayFail = FALSE
    FailClosed = TRUE
    MaxChanges = 2
    RequireSimulation = TRUE
    RequireApproval = TRUE
    Clashes <- MCClashes
    ProposalOps = {"add"}
INVARIANTS DeployedAsReviewed
SYMMETRY Symmetry
CHECK_DEADLOCK FALSE
