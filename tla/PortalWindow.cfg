\* A report and the figures of the day before.
CONSTANTS
    Parts = {"views"}
    m1 = m1
    m2 = m2
    u1 = u1
    s1 = s1
    s2 = s2
    s3 = s3
    Main = {m1, m2}
    Sub = {u1}
    OrgOfUser <- MCOrgOf
    Source = {s1, s2, s3}
    Url <- TwoPages
    Request = {x1, x2}
    Files <- TwoFiles
    Given <- RowOfEach
    Crawled = {s2}
    MaxRequests = 3
    d1 = d1
    d2 = d2
    d3 = d3
    t1 = t1
    t2 = t2
    t3 = t3
    n1 = n1
    n2 = n2
    n3 = n3
    topic = topic
    NoTopic = NoTopic
    Doc = {d1, d2, d3}
    Target = {t1, t2, t3}
    TargetOf <- MCTargetOf
    Foreign = {t3}
    PlatformOf <- MCPlatformOf
    Published <- MCPublished
    DayLength = 8
    Name = {n1, n2, n3}
    Sentiment = {"positive", "negative", "neutral"}
    Topic = {topic}
    Seeds <- MCSeeds
    MaxWrites = 0
    MaxTopics = 3
    MaxNodes = 2
    Brands = {n1, n2}
    Callers = {"main", "sub"}
    Queries <- MCQueries
    a1 = a1
    a2 = a2
    k1 = k1
    k2 = k2
    Report = {r1, r2}
    Article = {a1, a2}
    Term = {k1, k2}
    BrandOf <- MCBrandOf
    Mentions <- MCMentions
    Spans <- MCSpans
    Verdict = {"neutral", "negative"}
    MaxReports = 2
    MaxTerms = 1
    Subscriber = {"org1", "org2"}
    Address = {"x", "y"}
    AlwaysCc = {"y"}
    MaxSettings = 2
    MaxJobs = 2
    MaxDays = 2
SPECIFICATION PortalSpec
INVARIANTS WindowHalfOpen
CHECK_DEADLOCK FALSE
