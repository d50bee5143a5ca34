\* Batches of one document of two, failures, runs that die, a document edited, a
\* gazetteer that changes.
CONSTANTS
    o1 = o1
    o2 = o2
    d1 = d1
    d2 = d2
    k1 = k1
    k2 = k2
    NoOrg = NoOrg
    NoOwner = NoOwner
    NoTopic = NoTopic
    Doc = {d1, d2}
    Org = {o1}
    OrgOf <- SameOrg
    Brand = {b}
    Competitor = {}
    Industry = {}
    HasImages = {}
    HasKey = TRUE
    DefaultMode = "llm_text"
    FilterSize = 1
    BatchSize = 1
    MaxRequests = 0
    MaxEdits = 1
    MaxCalls = 2
    Term = {k1, k2}
    Count <- MCCount
    TagBatchSize = 1
    MaxTopic = 2
    MaxImport = 1
    MaxChange = 2
    Form = {"f1", "f2", "f3"}
    ConceptOf <- MCConcept
    NameOf <- MCName
    FoundIn <- MCFound
    MatchBatch = 1
    MaxForms = 2
SPECIFICATION LiveSpec
PROPERTIES AllProcessed EventuallyTagged AllMatched
CHECK_DEADLOCK FALSE
