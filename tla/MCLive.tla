---------------------------------- MODULE MCLive ----------------------------------
(***************************************************************************)
(* What must happen to crawls at last, for TLC: keys and rows of Facebook  *)
(* targets (FbCrawl), the browser session of a batch (BrowserCrawl), posts *)
(* and comments of a source (CrawlSelection), and pages of forums and news *)
(* (HttpCrawl).                                                            *)
(*                                                                         *)
(* They share no variable, so a behaviour moves in one of them, the part   *)
(* it starts with.                                                         *)
(***************************************************************************)
EXTENDS CrawlSelection, HttpCrawl, BrowserCrawl, TLC

CONSTANTS p1, p2, p3, target, account, Never, NoKey, NoTarget

VARIABLES part, keyRows, keyPool, keys, keyDispatch, keyBatch, keyExpired, keyStolen

keyVars == <<keyRows, keyPool, keys, keyDispatch, keyBatch, keyExpired, keyStolen>>

Unpinned == target :> NoKey

\* One target and one account, a batch outstanding at a time, crashes and kills.
Keys == INSTANCE FbCrawl WITH
    Target <- {target}, Account <- {account}, Batch <- {"batch"}, Pin <- Unpinned, HasPassword <- {account},
    CrawlInterval <- 1, Cooldown <- 1, BatchSize <- 2, Concurrency <- 2, Budget <- 1, HardLimit <- 2,
    MinLockTtl <- 3, MaxQueueWait <- 1, Deletable <- {target}, Crashing <- {"dispatcher", "worker"},
    crawl_targets <- keyRows, fb_accounts <- keyPool, inflight <- keys, dispatch <- keyDispatch,
    batch <- keyBatch, expired <- keyExpired, stolen <- keyStolen

TwoOfOne == p1 :> 2 @@ p2 :> 0 @@ p3 :> 0

\* An entry without a date, one too many, one that cannot be fetched, a good one, and
\* one that cannot be stored; beside it a site without a parser.
Entry(name, date) == [page |-> name, date |-> date]
MCFeed == "site" :> <<Entry("undated", 0), Entry("early", 1), Entry("gone", 2), Entry("good", 3), Entry("odd", 4)>>
             @@ "new" :> <<>>

-----------------------------------------------------------------------------
liveVars == <<part, keyVars, selectionVars, httpVars, browserVars>>

\* A part that rests rests in one initial state.
LiveInit ==
    /\ part \in {"keys", "posts", "pages", "browser"}
    /\ Keys!Init /\ SelectionInit /\ HttpInit /\ BrowserInit
    /\ part # "keys" => keyPool[account].session
    /\ part # "pages" => order = <<"site", "new">>
    /\ named = {}

\* A step of one part.
OfKeys == part = "keys" /\ UNCHANGED <<part, selectionVars, httpVars, browserVars>>
OfPosts == part = "posts" /\ UNCHANGED <<part, keyVars, httpVars, browserVars>>
OfPages == part = "pages" /\ UNCHANGED <<part, keyVars, selectionVars, browserVars>>
OfBrowser == part = "browser" /\ UNCHANGED <<part, keyVars, selectionVars, httpVars>>

LiveNext == (OfKeys /\ Keys!Next) \/ (OfPosts /\ SelectionNext) \/ (OfPages /\ HttpNext) \/ (OfBrowser /\ BrowserNext)

-----------------------------------------------------------------------------
(* The fairness of the modules.  Only one part is at work in a behaviour, so the n-th *)
(* conditions of the parts can be one: what TLC does grows exponentially with the     *)
(* number of strong conditions.                                                       *)

ToPage(n) == n \in DOMAIN FeedPages("site") /\ Handle("site", FeedPages("site")[n])

Weak(n) ==
    \/ OfKeys /\ CASE n = 1 -> Keys!Dispatcher [] n = 2 -> Keys!TaskStep("batch") [] OTHER -> FALSE
    \/ OfPosts /\ CASE n = 1 -> Discover [] n = 2 -> SaveSome \/ Fail [] OTHER -> FALSE
    \/ OfPages /\ CASE n = 1 -> StartRun [] n = 2 -> TriggerPipeline [] n = 3 -> RunPipeline
                     [] n = 4 -> SiteStep("site") [] n = 5 -> FallDue("site")
                     [] n = 6 -> SiteStep("new") [] n = 7 -> FallDue("new")
    \/ OfBrowser /\ n = 1 /\ BrowserStep

Strong(n) ==
    \/ OfKeys /\ CASE n = 1 -> Keys!Start("batch") \/ Keys!Drop("batch") [] n = 2 -> Keys!Tick [] OTHER -> FALSE
    \/ OfPosts /\ n = 1 /\ Save(picked)
    \/ OfPages /\ CASE n = 1 -> ReadFeed("site") [] n = 2 -> FinishSite("site") [] OTHER -> ToPage(n - 2)

LiveSpec ==
    /\ LiveInit /\ [][LiveNext]_liveVars
    /\ \A n \in 1..7 : WF_liveVars(Weak(n))
    /\ \A n \in 1..4 : SF_liveVars(Strong(n))  \* there is no storing the third page

-----------------------------------------------------------------------------
\* KeyEventuallyFreed of FbCrawl.
KeyEventuallyFreed == Keys!KeyEventuallyFreed

\* RunningRecovers of FbCrawl.
RunningRecovers == Keys!RunningRecovers

\* PagesStored of HttpCrawl, where that part is at work.
AllPagesStored == part = "pages" => PagesStored

\* CrawlEnds of BrowserCrawl, where that part is at work.
SessionCloses == part = "browser" => CrawlEnds
=============================================================================
