SPECIFICATION Spec
CONSTANTS
    Jobs = {j1}
    Workers = {w1, w2}
    NoJob = NoJob
    MAX_ATTEMPTS = 2
    TtlHours = {0, 24}
    MaxFaults = 2
    MaxLost = 1
SYMMETRY WorkerSymmetry
CHECK_DEADLOCK FALSE
INVARIANTS
    StrandedByLossOnly
    SingleHolder
    DoneLinksNewestClaim
    DownloadsHaveBytes
    
    BilledExactlyOnce
    OutboxAgreesWithRow
    RetriesWithinBudget
    ActiveKeepsInput
    
PROPERTIES
    FencedWorkerIsInert
    CancelBeforePromotionWins
    ContractSpec
