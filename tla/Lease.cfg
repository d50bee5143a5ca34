\* Two targets and two accounts; two batches at work on one target, or one pinned target.
CONSTANTS
    t1 = t1
    t2 = t2
    a1 = a1
    a2 = a2
    Never = Never
    NoKey = NoKey
    NoTarget = NoTarget
    Target = {t1, t2}
    Account = {a1, a2}
    Batch = {b1, b2}
    Pin <- PinOther
    HasPassword = {a1}
    CrawlInterval = 1
    Cooldown = 1
    BatchSize = 2
    Concurrency = 2
    Budget = 1
    HardLimit = 2
    MinLockTtl = 3
    MaxQueueWait = 1
    Deletable = {t1, t2}
    Crashing = {"dispatcher", "worker"}
SPECIFICATION LeaseMCSpec
SYMMETRY Symmetry
INVARIANTS LeaseInv ExclusiveCrawl LeaseOutlivesBatch PinnedOnOwnAccount
PROPERTIES KeyFreedWhenDone AcquireSpacing ImplementsLease
CHECK_DEADLOCK FALSE
