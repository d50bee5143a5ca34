\* Two batches on one account: one isolates it, the other logs in again.
CONSTANTS
    t1 = t1
    t2 = t2
    a1 = a1
    a2 = a2
    Never = Never
    NoKey = NoKey
    NoTarget = NoTarget
    Target = {t1, t2}
    Account = {a1}
    Batch = {b1, b2}
    Pin <- PinNone
    HasPassword = {a1}
    CrawlInterval = 1
    Cooldown = 1
    BatchSize = 1
    Concurrency = 2
    Budget = 1
    HardLimit = 2
    MinLockTtl = 3
    MaxQueueWait = 1
    Deletable = {}
    Crashing = {}
SPECIFICATION Spec
SYMMETRY Symmetry
PROPERTIES CheckpointIsolated
CHECK_DEADLOCK FALSE
