------------------------------- MODULE CrawlSelection -------------------------------
(***************************************************************************)
(* Which posts of a source a crawl fetches and stores: GroupCrawlService,  *)
(* PageCrawlService and ProfileCrawlService of fb_crawl, with the queries  *)
(* of PgStorage they rest on.  One source, crawled again and again while   *)
(* posts appear, age, collect comments and leave the feed.                 *)
(*                                                                         *)
(* A crawl discovers the feed and chooses (Discover), fetches for minutes  *)
(* and stores what it has fetched (Save), or loses all of it (Fail).       *)
(***************************************************************************)
EXTENDS Integers, FiniteSets, Sequences, SequencesExt, FiniteSetsExt, Posts

CONSTANTS
    Profile,      \* ProfileCrawlService: no selection, everything is fetched
    FeedOnly,     \* the source's feed_only setting
    MaxPosts,     \* max_posts_per_crawl, 40 in the code
    RecheckLimit, \* the LIMIT of list_posts_to_recheck, 25 in the code
    Copies,       \* posts whose text another row of the owner has: save_post stores nothing
    Undated,      \* posts whose comments show no time
    Ageing,       \* bound: posts that may get older than new_post_hours
    MaxComments   \* bound: how many comments a post may get

ASSUME SelectionSizes == MaxPosts \in Nat /\ RecheckLimit \in 0..MaxPosts /\ MaxComments \in [Post -> Nat]
ASSUME ModeAssumption == Profile \in BOOLEAN /\ FeedOnly \in BOOLEAN
ASSUME PostAssumption == IsFiniteSet(Post) /\ Copies \subseteq Post /\ Undated \subseteq Post /\ Ageing \subseteq Post

NotStored == -1

VARIABLES
    feed,      \* the posts the feed shows
    age,       \* of a post: "unborn", "new" (within new_post_hours), "old"
    comments,  \* how many comments a post has
    fresh,     \* posts with a comment of the last recent_comment_minutes
    counted,   \* documents: how many comments the row of the post counts, or NotStored
    lastSeen,  \* the stored posts by last_seen_at, oldest first
    crawling,  \* a crawl is fetching
    picked,    \* what it fetches
    results    \* the posts of the last crawl's result

facebook == <<feed, age, comments, fresh>>
selectionVars == <<feed, age, comments, fresh, counted, lastSeen, crawling, picked, results>>

SelectionTypeOK ==
    /\ feed \subseteq Post /\ fresh \subseteq Post /\ picked \subseteq Post
    /\ age \in [Post -> {"unborn", "new", "old"}]
    /\ \A p \in Post : comments[p] \in 0..MaxComments[p] /\ counted[p] \in NotStored..comments[p]
    /\ ToSet(lastSeen) = {p \in Post : counted[p] # NotStored} /\ IsInjective(lastSeen)
    /\ crawling \in BOOLEAN
    /\ results \subseteq Post

SelectionInit ==
    /\ feed = {} /\ fresh = {} /\ picked = {} /\ results = {}
    /\ age = [p \in Post |-> "unborn"]
    /\ comments = [p \in Post |-> 0]
    /\ counted = [p \in Post |-> NotStored]
    /\ lastSeen = <<>>
    /\ crawling = FALSE

-----------------------------------------------------------------------------
(* Facebook *)

Unchanged == UNCHANGED <<counted, lastSeen, crawling, picked, results>>

Publish(p) ==
    /\ age[p] = "unborn"
    /\ age' = [age EXCEPT ![p] = "new"]
    /\ feed' = feed \union {p}
    /\ UNCHANGED <<comments, fresh>> /\ Unchanged

Age(p) ==
    /\ p \in Ageing /\ age[p] = "new"
    /\ age' = [age EXCEPT ![p] = "old"]
    /\ UNCHANGED <<feed, comments, fresh>> /\ Unchanged

\* A post falls out of what max_scrolls shows, or a comment brings it back.
Leave(p) ==
    /\ p \in feed
    /\ feed' = feed \ {p}
    /\ UNCHANGED <<age, comments, fresh>> /\ Unchanged

Reply(p) ==
    /\ age[p] # "unborn" /\ comments[p] < MaxComments[p]
    /\ comments' = [comments EXCEPT ![p] = @ + 1]
    /\ fresh' = fresh \union {p}
    /\ feed' = feed \union {p}
    /\ UNCHANGED age /\ Unchanged

Quiet(p) ==
    /\ p \in fresh
    /\ fresh' = fresh \ {p}
    /\ UNCHANGED <<feed, age, comments>> /\ Unchanged

-----------------------------------------------------------------------------
(* What a crawl fetches *)

\* Stored posts that have comments and are still within the window.
Waiting == {p \in Post : counted[p] > 0 /\ age[p] = "new"}

SeenAt(p) == CHOOSE i \in DOMAIN lastSeen : lastSeen[i] = p

\* list_posts_to_recheck: of those, the ones seen last.
Due ==
    {p \in Waiting : /\ ~FeedOnly
                     /\ Cardinality({q \in Waiting : SeenAt(q) > SeenAt(p)}) < RecheckLimit}

\* (mutant) What is known is fetched again every time.
WantedAll(seen) == seen

\* (mutant) What is known is not fetched again.
WantedUnknown(seen) == {p \in seen : counted[p] = NotStored}

\* new_feed_urls: unknown posts, and known ones that are due.
Wanted(seen) == {p \in seen : counted[p] = NotStored} \union (seen \intersect Due)

\* (mutant) No cap.
SelectionUncapped(seen) == {Wanted(seen) \union Due}

\* all_urls.  Over the cap, the rechecks outside the feed stay and the first
\* new_feed_urls fill what room is left; their order is that of a Python set.
Selection(seen) ==
    LET recheckOnly == Due \ seen
        all == Wanted(seen) \union recheckOnly
        room == MaxPosts - Cardinality(recheckOnly)
    IN  IF Profile THEN {seen}
        ELSE IF Cardinality(all) <= MaxPosts THEN {all}
        ELSE {first \union recheckOnly : first \in kSubset(room, Wanted(seen))}

Discover ==
    /\ ~crawling
    /\ \E urls \in Selection(feed) : picked' = urls
    /\ crawling' = TRUE
    /\ UNCHANGED <<facebook, counted, lastSeen, results>>

-----------------------------------------------------------------------------
(* What it stores *)

\* A post seen for the first time is stored when it is still new.
Kept(p) == p \notin Copies /\ (counted[p] # NotStored \/ age[p] = "new")

\* post_has_new_comments_since_storage.
HasNews(p) ==
    \/ p \in fresh \ Undated
    \/ p \in Undated /\ counted[p] > 0 /\ comments[p] > counted[p]

\* (mutant) A post that was not stored for its age is classified all the same.
ReportedUnstored(p) == age[p] = "new" \/ HasNews(p)

\* classify_post, for the posts that reach it.
Reported(p) == age[p] = "new" \/ (counted[p] # NotStored /\ HasNews(p))

\* The rows that saving leaves as they are, in the order they have.
OthersSeen(saved) ==
    LET kept[n \in 0..Len(lastSeen)] ==
            IF n = 0 THEN <<>>
            ELSE IF lastSeen[n] \in saved THEN kept[n - 1] ELSE Append(kept[n - 1], lastSeen[n])
    IN  kept[Len(lastSeen)]

Save(fetched) ==
    /\ crawling /\ fetched \subseteq picked
    /\ LET saved == {p \in fetched : Kept(p)}
       IN  /\ counted' = [p \in Post |-> IF p \in saved THEN comments[p] ELSE counted[p]]
           /\ \E order \in SetToSeqs(saved) : lastSeen' = OthersSeen(saved) \o order
    /\ results' = {p \in fetched : Reported(p)}
    /\ crawling' = FALSE /\ picked' = {}
    /\ UNCHANGED facebook

\* Single posts may fail to load; the crawl goes on without them.
SaveSome == \E fetched \in SUBSET picked : Save(fetched)

\* A checkpoint, a network error or the time limit: nothing is stored, whatever
\* had been fetched.
Fail ==
    /\ crawling
    /\ crawling' = FALSE /\ picked' = {} /\ results' = {}
    /\ UNCHANGED <<facebook, counted, lastSeen>>

SelectionNext ==
    \/ \E p \in Post : Publish(p) \/ Age(p) \/ Leave(p) \/ Reply(p) \/ Quiet(p)
    \/ Discover \/ SaveSome \/ Fail

SelectionSpec == SelectionInit /\ [][SelectionNext]_selectionVars

\* The source is dispatched again and again, and time and again nothing fails.
FairSelectionSpec == SelectionSpec /\ WF_selectionVars(Discover) /\ SF_selectionVars(Save(picked)) /\ WF_selectionVars(SaveSome \/ Fail)

-----------------------------------------------------------------------------
\* No crawl fetches more than its cap, however long the feed and the rechecks
\* are: the unbounded fetch had blown the broker's acknowledgement timeout.
FetchBounded == ~Profile => Cardinality(picked) <= MaxPosts

\* What a crawl reports has a row by then: update_extra of the runner, which
\* updates the row of every reported post, finds it.
ReportedStored == results \ Copies \subseteq {p \in Post : counted[p] # NotStored}

\* "The rest naturally get picked up on the next tick": a new post is stored
\* if the feed keeps showing it.
NewPostStored ==
    \A p \in Post \ (Ageing \union Copies) :
        p \in feed ~> (counted[p] # NotStored \/ p \notin feed)

\* The comments of a stored post that had some are followed for as long as the
\* post is new.
CommentsFollowed ==
    \A p \in Post :
        (counted[p] > 0 /\ counted[p] < comments[p]) ~> (counted[p] = comments[p] \/ age[p] = "old")
=============================================================================
