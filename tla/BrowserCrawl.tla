--------------------------------- MODULE BrowserCrawl ---------------------------------
(***************************************************************************)
(* One browser session: the sources of a batch, one after the other in the *)
(* context of one account, as PlaywrightGroupCrawler, PlaywrightPageCrawler *)
(* and PlaywrightProfileCrawler crawl them under _run_batch.  A source is  *)
(* opened, its feed is scrolled until nothing new comes, and its posts are *)
(* fetched in tabs of their own by tasks under a semaphore.                *)
(*                                                                         *)
(* The first task that raises ends the gather that waits for them.  The    *)
(* profile crawler then cancels the others; the crawlers of groups and     *)
(* pages leave them running beside the next source.                        *)
(***************************************************************************)
EXTENDS Naturals, FiniteSets

CONSTANTS
    Kinds,     \* platform types: "group", "page", "profile"
    Sources,   \* length of the batch
    Links,     \* bound: posts a source has
    Tabs,      \* concurrency
    MaxRounds, \* max_scrolls, 50; max_scroll_rounds, 400
    Patience,  \* rounds without anything new: 2; max_idle_scrolls, 8
    Tries      \* of a post of a profile: 3

ASSUME BrowserAssumption == {Sources, Links, Tabs, MaxRounds, Patience, Tries} \subseteq Nat \ {0}

Link == (1..Sources) \X (1..Links)

VARIABLES
    kind,
    session,    \* what Facebook makes of the account's cookies
    source,     \* the source the batch is at
    phase,
    rounds, quiet,  \* of the scrolling: rounds so far, and without anything new
    found,      \* posts the feed has shown
    tab,        \* the task of every post
    tries,      \* loads of it that failed
    named,      \* sources whose name was read or is stored
    refreshed,  \* session_refresh_attempted
    met         \* history: a post's page was loaded and was the checkpoint

browserVars == <<kind, session, source, phase, rounds, quiet, found, tab, tries, named, refreshed, met>>

BrowserTypeOK ==
    /\ kind \in Kinds /\ session \in {"live", "expired", "checkpoint"} /\ source \in 1..Sources
    /\ phase \in {"open", "scroll", "choose", "fetch", "login", "closed"}
    /\ rounds \in 0..MaxRounds /\ quiet \in 0..Patience /\ found \subseteq Link
    /\ tab \in [Link -> {"none", "waiting", "loading", "kept", "skipped", "raised", "cancelled"}]
    /\ tries \in [Link -> 0..Tries] /\ named \subseteq 1..Sources
    /\ refreshed \in BOOLEAN /\ met \in BOOLEAN

BrowserInit ==
    /\ kind \in Kinds /\ session = "live" /\ source = 1 /\ phase = "open"
    /\ rounds = 0 /\ quiet = 0 /\ found = {}
    /\ tab = [p \in Link |-> "none"] /\ tries = [p \in Link |-> 0]
    /\ named \in SUBSET (1..Sources) /\ refreshed = FALSE /\ met = FALSE

Own == {p \in Link : p[1] = source}
Loading == {p \in Link : tab[p] = "loading"}
Pending == {p \in Link : tab[p] \in {"waiting", "loading"}}

\* The cookies stop working, or the account is locked.
LoseSession ==
    /\ phase # "closed" /\ session # "checkpoint"
    /\ session' \in {"expired", "checkpoint"} \ {session}
    /\ UNCHANGED <<kind, source, phase, rounds, quiet, found, tab, tries, named, refreshed, met>>

-----------------------------------------------------------------------------
(* The loop of _run_batch *)

\* __aexit__: the context is closed under whatever still runs in it.
Close(tasks) ==
    /\ phase' = "closed"
    /\ tab' = [p \in Link |-> IF p \in Pending THEN "cancelled" ELSE tasks[p]]
    /\ UNCHANGED <<source, rounds, quiet, found>>

\* Whatever ended the crawl of the source, the batch goes on in the same context.
NextSource(tasks) ==
    IF source = Sources THEN Close(tasks)
    ELSE /\ source' = source + 1 /\ phase' = "open"
         /\ rounds' = 0 /\ quiet' = 0 /\ found' = {}
         /\ tab' = tasks

Named == named' \in {named, IF session = "live" THEN named \union {source} ELSE named}

BeginScroll == phase' = "scroll" /\ UNCHANGED <<source, rounds, quiet, found, tab>>

\* fetch_group_name, fetch_page_name.  A name that cannot be read, or a first load that
\* fails, is no obstacle; a group that shows a join wall and no posts is.
OpenFeed ==
    \/ session = "checkpoint" /\ Close(tab) /\ UNCHANGED named
    \/ session # "checkpoint" /\ kind = "group" /\ NextSource(tab) /\ UNCHANGED named
    \/ BeginScroll /\ Named

\* discover_posts: the timeline must load.
OpenTimeline ==
    \/ session = "checkpoint" /\ Close(tab) /\ UNCHANGED named
    \/ NextSource(tab) /\ UNCHANGED named
    \/ session # "checkpoint" /\ BeginScroll /\ Named

OpenSource ==
    /\ phase = "open"
    /\ IF kind = "profile" THEN OpenTimeline ELSE OpenFeed
    /\ UNCHANGED <<kind, session, tries, refreshed, met>>

\* refresh_login, once in a batch and with a password; without, the source failed.
Login ==
    /\ phase = "login"
    /\ \/ session' \in {session, IF session = "expired" THEN "live" ELSE session} /\ NextSource(tab)
       \/ UNCHANGED session /\ Close(tab)
    /\ refreshed' = TRUE
    /\ UNCHANGED <<kind, tries, named, met>>

\* The budget of the batch is used up: wait_for cancels the crawl with its tasks, and
\* the sources that are left are skipped.
OutOfTime ==
    /\ phase \in {"open", "scroll", "choose", "fetch"}
    /\ Close(tab)
    /\ UNCHANGED <<kind, session, tries, named, refreshed, met>>

-----------------------------------------------------------------------------
(* The feed: discover_feed_post_urls, _scroll_timeline *)

\* A round: what the feed shows is read, and it is scrolled on, but not for ever.
Round(shown, new, last) ==
    /\ phase = "scroll" /\ (shown # {} => session # "checkpoint")
    /\ found' = found \union shown
    /\ rounds' = rounds + 1
    /\ quiet' = IF new THEN 0 ELSE quiet + 1
    /\ phase' = IF quiet' = Patience \/ rounds' = MaxRounds \/ last THEN "choose" ELSE "scroll"
    /\ UNCHANGED <<kind, session, source, tab, tries, named, refreshed, met>>

ScrollFeed ==
    /\ kind # "profile"
    /\ \E shown \in SUBSET (Own \ found) : Round(shown, shown # {}, FALSE)

\* Of a profile everything the page loads counts as new, and a post older than the
\* window ends it.
ScrollTimeline ==
    /\ kind = "profile"
    /\ \E shown \in SUBSET (Own \ found), noise, old \in BOOLEAN :
          Round(shown, shown # {} \/ noise, old /\ found \union shown # {})

\* The page of the feed does not load.
ScrollError ==
    /\ phase = "scroll" /\ rounds = 0 /\ kind # "profile"
    /\ NextSource(tab)
    /\ UNCHANGED <<kind, session, tries, named, refreshed, met>>

\* Of a group or page what is known already is left out and rechecks come in
\* (CrawlSelection); of a profile it is what the feed has shown, but for reels and what
\* is older than the window.
Choose ==
    /\ phase = "choose"
    /\ \E chosen \in SUBSET IF kind = "profile" THEN found ELSE Own :
          tab' = [p \in Link |-> IF p \in chosen THEN "waiting" ELSE tab[p]]
    /\ phase' = "fetch"
    /\ UNCHANGED <<kind, session, source, rounds, quiet, found, tries, named, refreshed, met>>

-----------------------------------------------------------------------------
(* The posts: fetch_posts_from_urls with fetch_one, build_post with _fetch_post_comments *)

\* The semaphore is the source's own.
Load(p) ==
    /\ tab[p] = "waiting"
    /\ Cardinality({q \in Loading : q[1] = p[1]}) < Tabs
    /\ tab' = [tab EXCEPT ![p] = "loading"]
    /\ UNCHANGED <<kind, session, source, phase, rounds, quiet, found, tries, named, refreshed, met>>

Settle(p, state) ==
    /\ tab' = [tab EXCEPT ![p] = state]
    /\ UNCHANGED <<source, phase, rounds, quiet, found, tries>>

\* (mutant) Nobody cancels.
AfterRaiseUncancelled(p) == [tab EXCEPT ![p] = "raised"]

\* discover_posts cancels the tasks that are left, fetch_posts_from_urls does not.
AfterRaise(p) ==
    [q \in Link |-> IF q = p THEN "raised"
                    ELSE IF kind = "profile" /\ q \in Pending THEN "cancelled" ELSE tab[q]]

Awaited(p) == phase = "fetch" /\ p[1] = source

\* A network error: the gather raises it, the batch rotates its proxy and goes on.
\* Nobody hears of it when the gather is over.
Raise(p) ==
    /\ IF Awaited(p) THEN NextSource(AfterRaise(p))
       ELSE tab' = AfterRaise(p) /\ UNCHANGED <<source, phase, rounds, quiet, found>>
    /\ UNCHANGED tries

\* _extract_post_page: what a page that has loaded comes to.
PostPage == IF session = "checkpoint" THEN {"skipped"} ELSE {"kept", "skipped"}

\* A post of a group or page: a page without one, a checkpoint too, is skipped.
LoadPost(p) ==
    /\ kind # "profile"
    /\ \/ \E result \in PostPage : Settle(p, result) /\ met' = (met \/ session = "checkpoint")
       \/ Raise(p) /\ UNCHANGED met

\* _fetch_post_comments_once: what an attempt comes to.
Attempt == {"failed", IF session = "checkpoint" THEN "checkpoint" ELSE "done"}

\* (mutant) A load that has failed is put back into the queue, and not counted.
LoadCommentsAgain(p) ==
    /\ kind = "profile"
    /\ \E state \in {"kept", "waiting"} : Settle(p, state)
    /\ UNCHANGED met

\* A post of a profile is known from the feed and loaded for its comments.  The
\* checkpoint ends the batch; other errors are retried in a new tab, and then the post
\* is kept as it is, unless the network failed.
LoadComments(p) ==
    /\ kind = "profile"
    /\ \E result \in Attempt :
          \/ result = "checkpoint" /\ Close(AfterRaise(p)) /\ met' = TRUE /\ UNCHANGED tries
          \/ result = "done" /\ Settle(p, "kept") /\ UNCHANGED met
          \/ /\ result = "failed" /\ tries[p] + 1 < Tries
             /\ tries' = [tries EXCEPT ![p] = @ + 1]
             /\ UNCHANGED <<source, phase, rounds, quiet, found, tab, met>>
          \/ /\ result = "failed" /\ tries[p] + 1 = Tries
             /\ Settle(p, "kept") \/ Raise(p)
             /\ UNCHANGED met

Loaded(p) ==
    /\ tab[p] = "loading"
    /\ LoadPost(p) \/ LoadComments(p)
    /\ UNCHANGED <<kind, session, named, refreshed>>

\* All tasks have returned and their posts are stored.  Without a name, read now or
\* stored before, the session counts as expired.
Finish ==
    /\ phase = "fetch" /\ Own \intersect Pending = {}
    /\ \/ (source \in named \/ refreshed) /\ NextSource(tab)
       \/ /\ source \notin named /\ ~refreshed
          /\ phase' = "login" /\ UNCHANGED <<source, rounds, quiet, found, tab>>
    /\ UNCHANGED <<kind, session, tries, named, refreshed, met>>

BrowserStep ==
    \/ OpenSource \/ Login \/ OutOfTime \/ ScrollFeed \/ ScrollTimeline \/ ScrollError \/ Choose \/ Finish
    \/ \E p \in Link : Load(p) \/ Loaded(p)

BrowserNext == LoseSession \/ BrowserStep

BrowserSpec == BrowserInit /\ [][BrowserNext]_browserVars

\* Every call to the browser has a timeout of its own, and the loop goes on.
FairBrowserSpec == BrowserSpec /\ WF_browserVars(BrowserStep)

-----------------------------------------------------------------------------
\* The tabs of a profile's posts share one logged-in session and are limited for the
\* account's sake: no more than the limit load at a time, whatever has failed before,
\* and after the checkpoint none is loaded any more.
SessionSpared ==
    kind = "profile" => Cardinality(Loading) <= Tabs /\ (met => Pending = {})

\* The session is closed at last, whatever the feed keeps loading.
CrawlEnds == <>(phase = "closed")

\* playwright_crawler.py: a checkpoint "must propagate so the caller isolates the
\* account instead of silently hammering the same checkpointed session for every
\* remaining post".
CheckpointStops == [][met => Loading' \subseteq Loading]_browserVars
=============================================================================
