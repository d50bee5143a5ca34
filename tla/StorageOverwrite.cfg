\* A second comment of the same author, and no edits back, one crawl at a time.
CONSTANTS
    t1 = t1
    t2 = t2
    t3 = t3
    o1 = o1
    o2 = o2
    p1 = p1
    p2 = p2
    p3 = p3
    NoText = NoText
    NoRow = NoRow
    Parts = {"comments"}
    Crawl = {w1}
    Text = {x, y}
    Content = {u, v}
    Target = {t1, t2, t3}
    Post = {p1, p2, p3}
    Owner = {o1, o2}
    OwnerOf <- MCOwnerOf
    PostsOf <- MCPostsOf
    MaxEdits = 0
    Slot = {s1}
    Habits = {"any"}
    MaxFetched = 2
    MaxPosted = 2
    Child = {c1, c2}
    ProxyCount = 3
    ProxyCooldown = 1
SPECIFICATION StorageSpec
SYMMETRY Symmetry
PROPERTIES NoForeignOverwrite
CHECK_DEADLOCK FALSE
