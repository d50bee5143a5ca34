\* Two organizations; requests at any moment of the runs, calls that fail, runs that die.
CONSTANTS
    o1 = o1
    o2 = o2
    d1 = d1
    d2 = d2
    k1 = k1
    k2 = k2
    NoOrg = NoOrg
    NoOwner = NoOwner
    NoTopic = NoTopic
    Doc = {d1, d2}
    Org = {o1, o2}
    OrgOf <- AcrossOrgs
    Brand = {b}
    Competitor = {}
    Industry = {i}
    HasImages = {d1}
    HasKey = TRUE
    DefaultMode = "normal"
    FilterSize = 1
    BatchSize = 1
    MaxRequests = 2
    MaxEdits = 0
    MaxCalls = 3
    Term = {k1, k2}
    Count <- MCCount
    TagBatchSize = 1
    MaxTopic = 3
    MaxImport = 2
    MaxChange = 4
    Form = {"f1", "f2", "f3"}
    ConceptOf <- MCConcept
    NameOf <- MCName
    FoundIn <- MCFound
    MatchBatch = 1
    MaxForms = 2
SPECIFICATION PipelineSpec
INVARIANTS GateHolds OwnKeywords OwnMode TaggedByCurrentRules
PROPERTIES PaidOnce ImplementsQueues
CHECK_DEADLOCK FALSE
