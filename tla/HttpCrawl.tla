---------------------------------- MODULE HttpCrawl ----------------------------------
(***************************************************************************)
(* Forums and news over HTTP: the DAGs forums_crawl and news_crawl,        *)
(* crawlers/forum_runner.py and news_runner.py, the parsers' discovery of  *)
(* pages, and the fetcher they share (parsers/http_client.py).  The two    *)
(* DAGs are the same program for two platform types.                       *)
(*                                                                         *)
(* A DAG run takes the due sites and crawls each in a task of its own,     *)
(* twice if the first attempt fails, and starts the content pipeline when  *)
(* all tasks are over.                                                     *)
(***************************************************************************)
EXTENDS Naturals, FiniteSets, Sequences, SequencesExt

CONSTANTS
    Site,           \* crawl_targets of one platform type
    Unparsed,       \* sites without parser_key, as the portal creates them
    Feed,           \* a site's entries by date: a sequence of [page, date], date 0 without one
    Cutoff,         \* the date max_history_days ago
    MaxPages,       \* max_articles_per_run, max_threads_per_run
    Gone,           \* pages no fetch gets
    Unstorable,     \* pages that no row can hold (a NUL in the text)
    BatchCap,       \* 100 in the code
    Attempts        \* 1 + retries

ASSUME HttpAssumption ==
    /\ IsFiniteSet(Site) /\ Unparsed \subseteq Site /\ Cutoff \in Nat
    /\ {MaxPages, BatchCap, Attempts} \subseteq Nat \ {0}

Pages == UNION {{entry.page : entry \in ToSet(Feed[s])} : s \in Site}

ASSUME FeedAssumption ==
    /\ DOMAIN Feed = Site
    /\ \A s \in Site :
          /\ Feed[s] \in Seq([page : Pages, date : Nat])
          /\ \A i, j \in DOMAIN Feed[s] : i <= j => Feed[s][i].date <= Feed[s][j].date

VARIABLES
    order,     \* the sites by last_crawled_at, those without first
    dueSites,  \* enabled, and crawled an interval ago or never
    lastStatus,    \* last_status
    dag,       \* the DAG run: "idle" or the sites it has to crawl
    tasks,     \* crawl_one of a site: [step, attempt, pages]
    stored,    \* pages with a document
    pipeline   \* content_pipeline runs that wait

httpVars == <<order, dueSites, lastStatus, dag, tasks, stored, pipeline>>

NoTask == [step |-> "none", attempt |-> 0, pages |-> <<>>]

HttpTypeOK ==
    /\ ToSet(order) = Site /\ Len(order) = Cardinality(Site) /\ dueSites \subseteq Site
    /\ lastStatus \in [Site -> {"", "running", "ok", "error"}]
    /\ dag \in {"idle", "crawl"} /\ pipeline \in BOOLEAN
    /\ \A s \in Site : /\ tasks[s].step \in {"none", "start", "discover", "pages", "over", "failed"}
                       /\ tasks[s].attempt \in 0..Attempts /\ tasks[s].pages \in Seq(Pages)
    /\ stored \subseteq Pages \ Unstorable

HttpInit ==
    /\ order \in {o \in [1..Cardinality(Site) -> Site] : IsInjective(o)}
    /\ dueSites = Site
    /\ lastStatus = [s \in Site |-> ""]
    /\ dag = "idle" /\ tasks = [s \in Site |-> NoTask]
    /\ stored = {} /\ pipeline = FALSE

-----------------------------------------------------------------------------
(* The DAG *)

\* get_due_targets: the first of the due ones (by priority before, a column no route writes).
DueFirst ==
    {order[i] : i \in {k \in DOMAIN order : /\ order[k] \in dueSites
                                            /\ Cardinality({j \in 1..k : order[j] \in dueSites}) <= BatchCap}}

StartRun ==
    /\ dag = "idle" /\ dag' = "crawl"
    /\ tasks' = [s \in Site |-> IF s \in DueFirst THEN [NoTask EXCEPT !.step = "start", !.attempt = 1] ELSE NoTask]
    /\ UNCHANGED <<order, dueSites, lastStatus, stored, pipeline>>

TasksDone == \A s \in Site : tasks[s].step \in {"none", "over", "failed"}

\* trigger_content_pipeline, whatever the tasks have come to; a run that waits already
\* is as good.
TriggerPipeline ==
    /\ dag = "crawl" /\ TasksDone
    /\ dag' = "idle" /\ tasks' = [s \in Site |-> NoTask]
    /\ pipeline' = TRUE
    /\ UNCHANGED <<order, dueSites, lastStatus, stored>>

RunPipeline ==
    /\ pipeline /\ pipeline' = FALSE
    /\ UNCHANGED <<order, dueSites, lastStatus, dag, tasks, stored>>

\* crawl_interval_sec goes by.
FallDue(s) ==
    /\ s \notin dueSites
    /\ dueSites' = dueSites \union {s}
    /\ UNCHANGED <<order, lastStatus, dag, tasks, stored, pipeline>>

-----------------------------------------------------------------------------
(* A task *)

\* The task fails: another attempt, or none is left.
AfterFailure(s) ==
    IF tasks[s].attempt < Attempts THEN [NoTask EXCEPT !.step = "start", !.attempt = tasks[s].attempt + 1]
    ELSE [NoTask EXCEPT !.step = "failed", !.attempt = tasks[s].attempt]

Fails(s) == tasks' = [tasks EXCEPT ![s] = AfterFailure(s)]

\* last_crawled_at = now(): the last in the order, and not due.
Crawled(s) ==
    /\ \E k \in DOMAIN order : order[k] = s /\ order' = Append(RemoveAt(order, k), s)
    /\ dueSites' = dueSites \ {s}

MarkHttpFailed(s) == lastStatus' = [lastStatus EXCEPT ![s] = "error"] /\ Crawled(s)

\* Without a parser_key nothing is marked: the site stays due, and among the first.
RefuseSite(s) ==
    /\ tasks[s].step = "start" /\ s \in Unparsed
    /\ Fails(s)
    /\ UNCHANGED <<order, dueSites, lastStatus, dag, stored, pipeline>>

BeginSite(s) ==
    /\ tasks[s].step = "start" /\ s \notin Unparsed
    /\ lastStatus' = [lastStatus EXCEPT ![s] = "running"]
    /\ tasks' = [tasks EXCEPT ![s].step = "discover"]
    /\ UNCHANGED <<order, dueSites, dag, stored, pipeline>>

\* The places of the entries with a date after the cutoff: the last ones.
Dated(s) == {i \in DOMAIN Feed[s] : Feed[s][i].date > 0 /\ Feed[s][i].date >= Cutoff}

\* The newest of them, oldest first.
FeedPages(s) ==
    LET n == IF Cardinality(Dated(s)) > MaxPages THEN MaxPages ELSE Cardinality(Dated(s))
    IN  [i \in 1..n |-> Feed[s][Len(Feed[s]) - n + i].page]

\* discover_urls.
ReadFeed(s) ==
    /\ tasks[s].step = "discover"
    /\ tasks' = [tasks EXCEPT ![s].step = "pages", ![s].pages = FeedPages(s)]
    /\ UNCHANGED <<order, dueSites, lastStatus, dag, stored, pipeline>>

\* Only a failure here marks the source.
FailDiscovery(s) ==
    /\ tasks[s].step = "discover"
    /\ MarkHttpFailed(s) /\ Fails(s)
    /\ UNCHANGED <<dag, stored, pipeline>>

\* fetch_and_parse.  Its delay between requests never comes into effect: every page
\* has a fetcher of its own.
Ask(s) == tasks[s].step = "pages" /\ tasks[s].pages # <<>>

\* (mutant) A page that cannot be fetched fails the site.
SkipPageFailing(s) ==
    /\ Ask(s)
    /\ MarkHttpFailed(s) /\ Fails(s)
    /\ UNCHANGED <<dag, stored, pipeline>>

\* The page cannot be fetched, or is no document: the next one's turn.
SkipPage(s) ==
    /\ Ask(s)
    /\ tasks' = [tasks EXCEPT ![s].pages = Tail(@)]
    /\ UNCHANGED <<order, dueSites, lastStatus, dag, stored, pipeline>>

\* save_document.
StorePage(s) ==
    /\ Ask(s) /\ Head(tasks[s].pages) \notin Gone \union Unstorable
    /\ stored' = stored \union {Head(tasks[s].pages)}
    /\ tasks' = [tasks EXCEPT ![s].pages = Tail(@)]
    /\ UNCHANGED <<order, dueSites, lastStatus, dag, pipeline>>

\* What save_document raises nobody catches: the task fails, the row stays "running".
FailStore(s) ==
    /\ Ask(s) /\ Head(tasks[s].pages) \in Unstorable
    /\ Fails(s)
    /\ UNCHANGED <<order, dueSites, lastStatus, dag, stored, pipeline>>

FinishSite(s) ==
    /\ tasks[s].step = "pages" /\ tasks[s].pages = <<>>
    /\ lastStatus' = [lastStatus EXCEPT ![s] = "ok"] /\ Crawled(s)
    /\ tasks' = [tasks EXCEPT ![s].step = "over"]
    /\ UNCHANGED <<dag, stored, pipeline>>

\* The worker is lost.
KillTask(s) ==
    /\ tasks[s].step \in {"discover", "pages"}
    /\ Fails(s)
    /\ UNCHANGED <<order, dueSites, lastStatus, dag, stored, pipeline>>

SiteStep(s) == RefuseSite(s) \/ BeginSite(s) \/ ReadFeed(s) \/ FailDiscovery(s) \/ SkipPage(s) \/ StorePage(s)
                   \/ FailStore(s) \/ FinishSite(s)

HttpNext ==
    \/ StartRun \/ TriggerPipeline \/ RunPipeline
    \/ \E s \in Site : SiteStep(s) \/ FallDue(s) \/ KillTask(s)

HttpSpec == HttpInit /\ [][HttpNext]_httpVars

\* What a page comes to at last: a document, or nothing.
Handle(s, p) ==
    /\ tasks[s].pages # <<>> /\ Head(tasks[s].pages) = p
    /\ IF p \in Gone THEN SkipPage(s) ELSE StorePage(s)

\* The scheduler and the workers go on, time passes, a feed or a page that is asked for
\* again and again is there at last, and not every worker is lost on it.
HttpFairness ==
    /\ WF_httpVars(StartRun) /\ WF_httpVars(TriggerPipeline) /\ WF_httpVars(RunPipeline)
    /\ \A s \in Site :
        /\ WF_httpVars(SiteStep(s)) /\ WF_httpVars(FallDue(s))
        /\ SF_httpVars(ReadFeed(s)) /\ SF_httpVars(FinishSite(s))
        /\ \A p \in ToSet(FeedPages(s)) : SF_httpVars(Handle(s, p))

-----------------------------------------------------------------------------
Before(s, x) == \E i, j \in DOMAIN order : i < j /\ order[i] = s /\ order[j] = x

\* Nobody is overtaken: a site gets behind another one only by a crawl that leaves it not
\* due, and no run takes a site and leaves a due one that is before it.
InTurn == [][
    /\ \A s, x \in Site : Before(s, x) /\ ~Before(s, x)' => s \notin dueSites'
    /\ dag = "idle" /\ dag' = "crawl" =>
          \A s \in dueSites, x \in Site : tasks'[s].step = "none" /\ tasks'[x].step # "none" => Before(x, s)]_httpVars

\* A run has no more tasks than the cap, whatever fails and is tried again.
RunBounded == Cardinality({s \in Site : tasks[s].step # "none"}) <= BatchCap

\* What is stored was in a feed with a date after the cutoff, with fewer than MaxPages
\* entries after it.
FreshStored ==
    \A p \in stored : \E s \in Site : \E i \in Dated(s) : Feed[s][i].page = p /\ Len(Feed[s]) - i < MaxPages

\* What a crawl comes to before a page that cannot be stored.
Storable(s) ==
    {p \in ToSet(FeedPages(s)) \ Gone : \A i, j \in DOMAIN FeedPages(s) :
        FeedPages(s)[j] = p /\ i <= j => FeedPages(s)[i] \notin Unstorable}

\* "One article failing to fetch must not discard every other article": every page a
\* feed goes on offering is stored and handed to a content pipeline at last, though
\* feeds, workers, tasks and other pages fail and sites without a parser stay due for
\* ever.  Those sites, and the ones with a page that cannot be stored, stay at the head
\* of the order: they have to be fewer than BatchCap, or they starve all others.
PagesStored == \A s \in Site \ Unparsed : \A p \in Storable(s) : <>(p \in stored /\ <>pipeline)
=============================================================================
