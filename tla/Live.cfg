\* A target with crashes and kills; the browser session of a profile; a backlog of posts
\* longer than the cap; a site whose feed holds all kinds of pages.
CONSTANTS
    p1 = p1
    p2 = p2
    p3 = p3
    Post = {p1, p2, p3}
    Profile = FALSE
    FeedOnly = FALSE
    MaxPosts = 2
    RecheckLimit = 1
    Copies = {}
    Undated = {}
    Ageing = {}
    MaxComments <- TwoOfOne
    Site = {"site", "new"}
    Unparsed = {"new"}
    Feed <- MCFeed
    Cutoff = 1
    MaxPages = 3
    Gone = {"gone"}
    Unstorable = {"odd"}
    BatchCap = 2
    Attempts = 2
    target = target
    account = account
    Never = Never
    NoKey = NoKey
    NoTarget = NoTarget
    Kinds = {"profile"}
    Sources = 1
    Links = 1
    Tabs = 1
    MaxRounds = 2
    Patience = 1
    Tries = 2
SPECIFICATION LiveSpec
PROPERTIES KeyEventuallyFreed RunningRecovers NewPostStored CommentsFollowed AllPagesStored SessionCloses
CHECK_DEADLOCK FALSE
