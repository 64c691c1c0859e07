SPECIFICATION Spec
CONSTANTS
    base = base
    extra = extra
    odd = odd
    Providers = {base, extra}
    AsyncProviders = {}
    FlakyProviders = {}
    Opaque = {}
    Unrestorable = {}
    InitialChain <- MCInitialChain
    ReplacementChains <- MCPairs
    DirectOps = {"replace", "rollback"}
    Proposals = {p1, p2}
    Direct = Direct
    Tasks = {t1}
    Requests = {}
    NoTask = NoTask
    NoProvider = NoProvider
    SaveMayFail = FALSE
    FailClosed = TRUE
    MaxChanges = 3
    RequireSimulation = TRUE
    RequireApproval = TRUE
    Clashes <- MCClashes
    ProposalOps = {"swap", "remove"}
INVARIANTS GovTypeOK DeployedAsReviewed LiveChainIsCurrent
PROPERTIES ImplementsReview
SYMMETRY Symmetry
CHECK_DEADLOCK FALSE
