SPECIFICATION Spec
CONSTANTS
    base = base
    extra = extra
    odd = odd
    Providers = {base, extra, odd}
    AsyncProviders = {base}
    FlakyProviders = {}
    Opaque = {extra}
    Unrestorable = {odd}
    InitialChain <- MCInitialChain
    ReplacementChains <- MCReplacementChains
    DirectOps = {"rollback"}
    Proposals = {p1, p2}
    Direct = Direct
    Tasks = {t1, t2}
    Requests = {}
    NoTask = NoTask
    NoProvider = NoProvider
    SaveMayFail = TRUE
    FailClosed = TRUE
    MaxChanges = 2
    RequireSimulation = TRUE
    RequireApproval = TRUE
    Clashes <- MCClashes
    ProposalOps = {"swap", "remove"}
INVARIANTS OnlyReviewed DeployedWasMade LiveChainAudited
SYMMETRY Symmetry
CHECK_DEADLOCK FALSE
