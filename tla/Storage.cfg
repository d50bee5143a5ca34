\* Overlapping crawls that save posts and comments, the proxies of their children, the
\* choice of posts, and the browser session of a batch.
CONSTANTS
    t1 = t1
    t2 = t2
    t3 = t3
    o1 = o1
    o2 = o2
    p1 = p1
    p2 = p2
    p3 = p3
    NoText = NoText
    NoRow = NoRow
    Parts = {"posts", "comments", "proxies"}
    Crawl = {w1, w2}
    Text = {x, y}
    Content = {u, v}
    Target = {t1, t2, t3}
    Post = {p1, p2, p3}
    Owner = {o1, o2}
    OwnerOf <- MCOwnerOf
    PostsOf <- MCPostsOf
    MaxEdits = 1
    Slot = {s1, s2}
    Habits = {"any", "tidy"}
    MaxFetched = 2
    MaxPosted = 3
    Child = {c1, c2}
    ProxyCount = 3
    ProxyCooldown = 1
    Kinds = {"group", "profile"}
    Sources = 2
    Links = 2
    Tabs = 1
    MaxRounds = 2
    Patience = 1
    Tries = 2
    Profile = FALSE
    FeedOnly = FALSE
    MaxPosts = 2
    RecheckLimit = 1
    Copies = {p1}
    Undated = {p2}
    Ageing = {p3}
    MaxComments <- OneEach
SPECIFICATION SavingSpec
SYMMETRY Symmetry
INVARIANTS SavingTypeOK DuplicatesOnlyByRace ReportedOnce FetchBounded ReportedStored SessionSpared
PROPERTIES NothingLost EditsInPlace TakesTurns
CHECK_DEADLOCK FALSE
