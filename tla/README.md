# Verification of the crawl platform

TLA+ modules, TLC configurations and TLAPS proofs about the code of this
repository: a platform that crawls Facebook groups, pages and profiles, news
sites and forums for several customer organizations, stores the posts and their
comments in Postgres, tags and classifies them, and shows every organization its
own part in a portal, in reports and in a daily mail.

Contents

1. [Inventory](#1-inventory): the parts, their state, how they interact
2. [Modules](#2-modules): which module models what, and how it corresponds to the code
3. [Runs](#3-runs): what TLC checks, with which bounds
4. [Fairness](#4-fairness)
5. [Proofs](#5-proofs)
6. [Where the code and its documents disagree](#6-where-the-code-and-its-documents-disagree)
7. [Not modelled](#7-not-modelled)
8. [What could come next](#8-what-could-come-next)

To repeat everything, in this directory: `tlc -workers 2 -config X.cfg M` for the
pairs of section 3, and `tlapm M.tla` for the eight modules of section 5.

## 1. Inventory

### The parts

| Part | Code | State it keeps | Operations |
|---|---|---|---|
| Dispatcher | `platform_app/crawlers/dispatch_tasks.py`, started by `airflow/dags/dag_facebook_*.py` | the in-flight keys in Redis; messages on the queue `fb_crawl` | list due targets, lock them, cut batches per session key, send |
| Batch worker | `platform_app/crawlers/batch_tasks.py` on Celery | which account and proxy a batch has, what is left of it | start, crawl target by target, refresh the login, isolate, release |
| Account pool | `platform_app/crawlers/account_pool.py` | `fb_accounts` | acquire, acquire_specific, release, update_session, release_checkpoint |
| Proxy pool | `platform_app/crawlers/proxy_pool.py` | in the memory of each worker child: rotation, cooldowns | acquire, mark_unhealthy, reset |
| Targets | `platform_app/targets/repository.py` | `crawl_targets` | get_due_targets, mark_running, mark_success, mark_failed |
| Browser crawlers | `crawling_facebook/fb_crawl/playwright_*crawler.py`, `browser.py` | one logged-in context with its tabs | open a source, scroll its feed, fetch its posts in tabs, log in again |
| Post selection | `crawling_facebook/fb_crawl/{service,page_service,profile_service,filters}.py` | none; it reads `documents` | discover the feed, choose what to fetch, store, report |
| Document store | `platform_app/adapters/{fb_pg_storage,document_store}.py` | `documents`, `document_comments` | save_post, save_document, upsert_comments |
| HTTP crawlers | `platform_app/crawlers/{news,forum}_runner.py`, `platform_app/parsers/`, `airflow/dags/dag_{news,forums}.py` | a target's status | read a feed, fetch and store its pages, start the pipeline |
| Content pipeline | `platform_app/pipeline/`, `airflow/dags/dag_content_pipeline.py` | columns of `documents`; `document_entities`; `pipeline_settings` | keyword_filter, classify, topic_tag, entity_match |
| Admin API | `platform_app/api/routers/admin.py` | `organization_topics`, `organization_topic_keywords`, `keywords_catalog`, `entity_gazetteer` | topics, their keywords, names |
| Portal API | `platform_app/api/routers/{org,members,auth}.py`, `deps.py`, `security.py` | `organization_*`, `crawl_targets`, `users`, `user_target_access` | register, log in, manage sources and members, choose keywords, modes and names, read documents and reports |
| Event report | `platform_app/pipeline/event_report.py` | `event_report_matches` | assess articles, keep the answers, compose |
| Report e-mail | `platform_app/pipeline/report_email.py`, `notifications/email.py`, `airflow/dags/dag_report_email.py` | `organization_report_email` | the daily job, "send now" |
| Reports | `platform_app/reporting/`, `pipeline/{negative_brand,competitor}_report.py` | none | count documents of a window, lay out a Word file |
| Internal dashboard | `platform_app/dashboard/` | none of its own | show documents and reports of all organizations, release an account |
| Parsers of pages, frontend, scripts, migrations | | | see section 7 |

### How they interact

```
 Airflow: dag_facebook_*      Redis: in-flight keys      RabbitMQ: fb_crawl
   dispatch_due_sources ---SET NX EX--->|                      |
        |------------------------ send_task ------------------>|
        |                                                      v
        |                               delete  <---  crawl_batch_task (children)
        |                                             |  fb_accounts   |  ProxyPool
        |                                             v                v  (per child)
        |                      browser session  <-- Group/Page/ProfileCrawlService
        |                                             |
   trigger content_pipeline                           v
        |                               documents, document_comments, crawl_targets
        |      news_crawl, forums_crawl ------>       ^
        v                                             |
   keyword_filter >> classify;  topic_tag;  entity_match
        ^                            ^            ^
   organizations: keywords, mode     admin: topics, names
                                                      |
   portal: pages, reports     event report     daily mail     internal dashboard
```

Nothing but the database, Redis and the queue is shared. The parts are separate
processes: what one of them read in one statement, another may have changed
before the next statement.

### What is hard

- **Interleaving.** Batches overlap; accounts and keys change hands while they
  run. Tabs of one session fail and go on beside each other. Crawls of one source,
  or of two sources of one owner, overlap in the store. Customers and admins edit
  at any moment of a pipeline run, and of a page that is being read.
- **Crashes.** A child is killed at its `time_limit` (nothing is cleaned up),
  the dispatcher dies between locking and sending, a pipeline task dies with
  paid answers not committed, a report's transaction ends in a deadlock.
- **Time.** Cooldown, budget, time limit and lock TTL must keep their order, and
  the wait in the queue runs on the TTL.
- **Limits.** Every pass takes at most so many rows, often in no order; what is
  left must come up again.
- **Long sequences.** Which comment row is claimed, which posts are followed and
  which tag a document has depends on everything earlier crawls and edits left.
- **Many queries for one screen.** A page or a report is a dozen statements with
  conditions of their own; they must ask for the same documents.

The 40 hazards in `PROJECT.json` put these at their lines.

### What makes each part correct

- Dispatch and batches: a batch holds the key of every target it still has to
  crawl; two batches never have the same target; keys do not stay for ever, nor
  rows `running`. Together: the keys implement a lease.
- Accounts: a pinned target is crawled on its account only; an account is not
  used again before its cooldown; an isolated one comes back through an operator.
- Browser sessions: never more tabs than the limit, nothing after a checkpoint,
  and an end, whatever the feed keeps loading.
- Proxies: a child gives every proxy its turn, cooldowns and all.
- Selection: a crawl is bounded; new posts are stored; comments are followed;
  what is reported exists.
- Store: one row per post and comment, nothing lost, nothing under the wrong name.
- HTTP crawlers: one bad page, feed or site does not keep the others back.
- Pipeline: nothing is paid for twice, or before the gate opened, or in somebody
  else's mode; every document gets through, those without a match too.
- Topics: tags belong to the document's organization and are what the current
  rules say.
- Portal: nobody changes a source without the right to; grants stay within the
  organization and are what was asked for; what is shown was granted.
- Reports: their numbers fit together; assessments once kept stand; one
  organization's failure is not another one's.

## 2. Modules

```
 CrawlLease                     TargetRepository  AccountPool
      \                                  \          /
       `-------- INSTANCE -------------- FbCrawl ---- FbCrawlProofs
                                            |   \
                                       MCFbCrawl MCLive --- HttpCrawl --------.
                                            |     |  \
                                        MCLease   |   CrawlSelection --- CrawlProofs
                                                  |   |  |                    |
 StoredText -- PostStore ---- Posts ----------- BrowserCrawl -----------------'
       \         \                                |   |
        CommentStore -- MCStorage ------------- MCSaving --- StorageProofs
                         |
                      ProxyPool

 WorkQueue                       .---- ContentPipelineProofs ----.
     \                          /                               \
      `-- INSTANCE -- ContentPipeline                             \
                      TopicTags   --- MCPipeline -- MCPipelineLive -- PipelineProofs
      Documents ----- EntityMatch

 OrgPortal ------------------------ OrgPortalProofs ---.
       \                                                |
        \         ReportEmail, EventReport -- ReportProofs
         \          /                                   |
          MCPortal -'----------------------- PortalViewsProofs
         /
 PortalViews -- DashboardViews -- BrandReports -- DocumentViews -- PortalData -- Maps
```

| Module | Code | State |
|---|---|---|
| `TargetRepository` | `targets/repository.py`, `_upsert_owner` and `_mark_synced` of `fb_pg_storage.py` | `crawl_targets`: state, last status, age since the last crawl |
| `AccountPool` | `crawlers/account_pool.py`, the session import script | `fb_accounts`: status, session or not, ticks since the last use |
| `FbCrawl` | `dispatch_tasks.py`, `batch_tasks.py` | Redis keys with their TTL, the running dispatch, the outstanding batches |
| `CrawlLease` | what the keys are for (abstract) | how long a target's lease lasts, who has it, whether it was lost |
| `WorkQueue` | what a task of the pipeline promises (abstract) | the documents that wait, those a run has taken |
| `ProxyPool` | `proxy_pool.py` | the parent's copy and one copy per child: position and cooldowns |
| `BrowserCrawl` | the three Playwright crawlers under `_run_batch` | the session, the source and phase it is at, the scrolling, a task per post |
| `CrawlSelection` | the three crawl services and the queries they rest on | Facebook's feed; how many comments every stored post counts, `last_seen_at`; the crawl at work |
| `PostStore` | `save_post`, `save_document` | Facebook's texts; `documents` by (target, post); what every crawl is saving |
| `CommentStore` | `upsert_comments` | Facebook's comments; `document_comments`; what every crawl has fetched and read |
| `HttpCrawl` | `news_runner.py`, `forum_runner.py`, their DAGs, `rss_news.py` | the sites in the order of their last crawl, a task per site, what is stored |
| `ContentPipeline` | `keyword_filter.py`, `classify.py`, `settings.py`, the DAG, keyword and mode routes | the pipeline's columns, choices and settings, the run at work |
| `TopicTags` | topic routes of `api/routers/admin.py`, `topic_tag.py` | topics, keywords, tags, the tagger's two transactions |
| `EntityMatch` | `entity_match.py`, gazetteer routes of `admin.py` | the gazetteer, `document_entities`, the run at work |
| `OrgPortal` | `auth.py`, `deps.py`, `members.py`, the sources of `org.py` | sources, accounts, grants, tokens, what every request has read |
| `PortalData` | what pages and reports read | documents with what the pipeline wrote, tracked names, grants |
| `DocumentViews`, `BrandReports`, `DashboardViews` | the queries of `org.py`, `word_report.py`'s windows, `dashboard/app.py`, `report_data.py` | none: a query is an operator |
| `PortalViews` | a page or report as the sequence of its queries | the request under way and what its queries gave |
| `EventReport` | `event_report.py`, `compute_event_report_data` | kept assessments, keywords, the reports under way |
| `ReportEmail` | `report_email.py`, `email.py`, the settings routes | settings, the job, the mails that left |

`Documents`, `StoredText` and `Posts` hold the constants two modules share, and
`Maps` says how a function grows by entries (a result among the results of a
request, a row among the rows), in a form the provers can expand. The `MC`
modules give TLC its instances. `MCSaving` (with `MCStorage`),
`MCPipeline`, `MCPipelineLive`, `MCLive` and `MCPortal` are unions: their parts
share no variable, so a behaviour moves in the part it starts with and the others
rest in one initial state. `MCLease` has two kinds of behaviours of `FbCrawl`.

Every operator that stands for code is in `PROJECT.json` under `map` with its
lines. An operator marked `(mutant)` is what the one after it could have been
by mistake; nothing uses it. Variables marked `history` are read by properties only.

### FbCrawl

*A batch is a message, then the child that took it.* `phase` is the place the
child is at: `queued`; `next` (top of the loop over target ids); `crawling` (in
the service); `synced` (the service returned and has marked the row);
`refreshing` (in `refresh_login`); `isolating` (the inner loop over what remains
after a checkpoint); `closing` (browser closed, account not released yet). The
phases are the places where a step of somebody else matters: the row is written
by the service before the runner writes it again, the keys go one by one, and the
account last.

*Time* is `Tick`. One tick is about 450 s in the instances: cooldown 900 s,
budget 1500 s (less the 30 s the loop keeps), limit 1680 s, TTL 1800 s keep their
order. A dispatch takes less than a tick. `Tick` cannot go past a child's time
limit: `HardKill` comes first. `MaxQueueWait` is the only assumption about the
queue, and `LeaseOutlivesBatch` says what depends on it.

*Exits.* Every way out of the loop body is an action: `Succeed`, `FailTarget`,
`TargetTimeout`, `SessionExpired` (with or without a refresh to try), `RefreshOk`,
`DeadAccount` with `IsolateOne` and `FinishIsolation`, `BudgetSkip`,
`SkipMissing`, and `BatchError` for what leaves `_run_batch` as an exception.
`Drop` is the task that finds no account. `HardKill` and `WorkerCrash` clean up
nothing.

*Accounts.* `SKIP LOCKED` passes over rows another transaction is updating at that
moment, which can only be rows in use: `skipped` is any subset of them.

*Two modelled facts about Celery:* a message is acknowledged when its task starts
and there are no retries, so a started batch never comes back.

### CrawlLease, and how FbCrawl implements it

The abstract specification knows targets, holders and leases: a free target is
taken by the dispatcher, passed on to a batch, given back, or its lease runs out.
A lease that ends under a holder is *lost*, and only a lost target may have a
second holder. `FbCrawl!ImplementsLease` is `Lease!LeaseSpec` with

| CrawlLease | FbCrawl |
|---|---|
| `left[t]` | the TTL of the in-flight key of `t` |
| `holders[t]` | the dispatcher, while it has taken `t` and not sent it; every batch with `t` in `todo` |
| `lost` | targets whose key ran out under somebody (`expired`), or was deleted by a batch that had done with them (`stolen`) |

`TryLock` is `Take`, `Publish` is `PassOn`, `Tick` is `Elapse`; everything a batch
does after that is a `GiveBack` of nothing, of one target or of all that is left,
with the keys or without. Crashes and kills are given back without keys.

### BrowserCrawl

A session goes through the sources of its batch: `open`, `scroll`, `choose`,
`fetch`, then `login` when the cookies have expired, and `closed`. Facebook may
expire the cookies or put up the checkpoint at any moment (`LoseSession`). Every
chosen post is a task: waiting for the semaphore, loading, and kept, skipped,
raised or cancelled at the end. `Raise` is a network error: the first one ends the
gather. What happens to the other tasks then is the difference between the
crawlers (`AfterRaise`): the one of profiles cancels them, those of groups and
pages leave them running beside the next source (section 6). `LoadPost` and
`LoadComments` are the two ways a post is read: skipped when its page shows none,
or tried up to three times and kept as the feed showed it. What CrawlSelection
decides (which posts) is chosen freely here, and what is decided here (which of
them could be fetched) is chosen freely there.

### CommentStore

The parser makes the id of a comment from its author, parent, depth and text; a
`Slot` is the first three, so a comment *is* a slot and a text. An edit on
Facebook is a new id in the old slot, which is why `upsert_comments` has to guess
which stored row it was: the model follows that guess (`by_match`, `pop`,
`ON CONFLICT DO NOTHING`) with two crawls between SELECT and commit. Loops of two
transactions on the same rows wait for each other, so each loop takes effect at
its commit. Two habits: `any` lets people write, edit and remove as they like and
crawls overlap; `tidy` is the case the code means to handle (one comment in a
slot, no old texts again, one crawl at a time), in which `EditsInPlace` holds.

### PostStore

The duplicate guard (SELECT by owner and content hash) and the upsert are two
statements under READ COMMITTED. `raced` remembers whether two saves for one owner
were between the two at the same time. The hash is taken as the content.

### CrawlSelection

One source and the crawls of it, one after the other (that they do not overlap is
FbCrawl's `ExclusiveCrawl`). The feed is a set: which of its posts come first is
Python's set order in the code too. Ages matter at two points of a crawl: when it
chooses and, minutes later, when it stores. Comments of a post count in its row;
`lastSeen` is the order of `last_seen_at`.

### HttpCrawl

The two DAGs are one program for two platform types. A DAG run takes the first
`BatchCap` of the due sites, in the order of `last_crawled_at`; each is a task with
a second attempt. A failing page is skipped, a failing feed marks the site, a
failing *save* is caught by nobody: the row stays `running` and the task fails. A
site without a parser fails before anything is marked and stays at the head of the
order. The feed is data, in the order of its dates (`FeedAssumption`): entries without
a date, before the cutoff, over the limit. A crawl reads the newest `MaxPages` of
the others, the oldest of them first.

### ContentPipeline

One DAG run at a time (`max_active_runs=1`), its two tasks in a row. Within an
organization the classifier is one transaction: `Classify` of every document, then
`CommitClasses`. An answer of the model costs something when it arrives (`answers`)
and is written as cost with the commit (`booked`); `llm_image` may call twice. The
overrides a person can give on the command line (a mode, document ids) are left
out; `brand_focus` can be derived from `hits`. A keyword is switched on and off; its term
and category, which the same route may rewrite (admin.py:152-165), are constants.

### TopicTags

The tagger reads the rules in one transaction, and selects and updates in a second
one, in which the row locks of the updates make the loop one step. An admin
request may come anywhere; `stale` remembers which documents were tagged by rules
that were no longer the rules.
`Occurrences` adds up a topic's keywords in a document. The sum is a fold, which
the provers cannot unfold; `OccurrencesAssumption` states the two facts about it
that the proofs need, and TLC evaluates them in every run of `MCPipeline`.

### EntityMatch

A run is one transaction: it reads the active forms (in no order), a batch of
documents without a row, and writes their rows, one per concept, or the row
`__none__` for a document with no name. Which forms a text contains is data
(`FoundIn`). Admin requests change the gazetteer at any moment.

### WorkQueue, and how three tasks implement it

Classifier, tagger and matcher are written to one plan: take a batch of what has no
result yet, commit the results of the whole batch, and if the run dies leave
everything as it was. `WorkQueue` is that plan. `Take` takes up to `Limit` of what
waits, `Complete` takes all of a batch out of the queue, `Abandon` none, and others
may put documents into the queue, or back, at any time (`Arrive`); a document leaves
the queue in no other way. The gate is not such a queue: it commits chunk by chunk.

| WorkQueue | ContentPipeline (`ClassQueue`) | TopicTags (`TagQueue`) | EntityMatch (`MatchQueue`) |
|---|---|---|---|
| `waiting` | let pass by the gate, class pending | tag pending | without a row |
| `taken` | `todo` of the run and what has an outcome in it | the tagger's batch | the matcher's batch |
| `Limit` | `BatchSize` | `TagBatchSize` | `MatchBatch` |
| `Arrive` | `FilterBatch` | `Reset` | never |

### OrgPortal

A request reads who its caller is (`Start`: role, grants) in a transaction of its
own and does its work later, statement by statement; up to two requests overlap
with each other and with everything that changes accounts. `able` and `reach` are
what it read; `entitled` is the history of what was true at that moment, computed
from the tables and not from the code's checks. `PyKey` and `SqlKey` are the two
normal forms of an address, which differ in the scheme, slashes and blanks they
remove. `ClearGrants` and `SetGrants` are the DELETE and INSERTs of
`update_member`; a grant for a source that is gone fails by its foreign key. The
transactions are READ COMMITTED, so two edits of one sub-account may overlap: a DELETE
reaches the rows that were committed when it started and no row that is inserted later,
not even for the same source. `since` is a history per request: what others have granted
the sub-account since the request's DELETE and that still exists. `SetGrants` takes away
`gone` (what the DELETE saw, without what is in `since`) and adds its list, so
overlapping edits add up, and `asked` says to what. State and role may change in the
same PATCH.

### PortalData, the views, PortalViews

A document is what the pipeline's columns say of it; a request may find any
documents that have gone through the pipeline's steps in their order (`Processed`). Writers (`Crawl`, `Gate`,
`Classify`, `Tag`, `Mention`, `Track`, `Grant`) commit between any two queries.
A query is an operator of the request that gives the documents it selects (where
the code counts rows, the rows it counts), and where it has a LIMIT with ties, any
of the choices. `Program` lists the queries of every page in the code's order,
with `auth` where a page consists of several HTTP requests. Three kinds of callers:
a main account, its sub-account, and staff on the internal dashboard, whose
queries see all organizations. Time within a day matters only as "at 08:00" and
"later": a day is eight units long.

### EventReport

Two reports may be under way. Each goes through two windows, each window one
transaction that stays open over all calls of the model; `mine` is what it has
inserted and not committed, and an insert of a pair somebody else has inserted
waits; when that one has committed, ON CONFLICT DO NOTHING drops the insert, but the
report shows its own answer (`shown`) all the same; `late` is a history of such pairs. `BreakDeadlock` is Postgres ending one of two that wait for each other,
`LoseReport` a restart of the server in the middle.

### ReportEmail

The job reads all settings, then sends or fails one organization after the other;
`FailReport` may still have let the mail leave (the connection breaks after the
server took it). Each mail carries its number within the run (`nth`), so that a second
one with the same content is a second element of `mails`. `JobDies` at any moment, and a run by hand starts from the
beginning.

## 3. Runs

State counts are of distinct states. The longest run takes less than four minutes with
two workers.

| Run | Module, cfg | Checks | States |
|---|---|---|---|
| `fb_crawl_lease` | MCLease, Lease | `LeaseInv`, `ExclusiveCrawl`, `LeaseOutlivesBatch`, `PinnedOnOwnAccount`, `KeyFreedWhenDone`, `AcquireSpacing`, `ImplementsLease` | 498 k |
| `storage` | MCSaving, Storage | `SavingTypeOK`; posts: `DuplicatesOnlyByRace`, `NothingLost`; comments: `ReportedOnce`, `EditsInPlace`; selection: `FetchBounded`, `ReportedStored`; proxies: `TakesTurns`; session: `SessionSpared` | 535 k |
| `pipeline` | MCPipeline, Pipeline | `GateHolds`, `OwnKeywords`, `OwnMode`, `PaidOnce`; `TaggedByCurrentRules`; all three tasks: `ImplementsQueues` | 1.2 M |
| `pipeline_live` | MCPipelineLive, PipelineLive | `AllProcessed`, `EventuallyTagged`, `AllMatched` | 7 k |
| `crawl_live` | MCLive, Live | `KeyEventuallyFreed`, `RunningRecovers`; `NewPostStored`, `CommentsFollowed`; `AllPagesStored`; `SessionCloses` | 25 k |
| `portal` | MCPortal, Portal | `PortalTypeOK`; sources and members: `GrantsOwnOrg`, `GrantsAsAsked`, `WrittenByEntitled`; pages and reports: `ShownWasGranted`, `CountsAgree`, `ReportAddsUp`; event: `AssessmentStands`; mail: `JobServesAll` | 656 k |
| `fb_crawl_checkpoint_isolated` | MCFbCrawl, FbCrawlCheckpointIsolated | `CheckpointIsolated` is violated | |
| `browser_checkpoint` | BrowserCrawl, BrowserCheckpoint | `CheckpointStops` is violated | |
| `storage_own_row` | MCStorage, StorageOwnRow | `OwnRow` is violated | |
| `storage_overwrite` | MCStorage, StorageOverwrite | `NoForeignOverwrite` is violated | |
| `portal_duplicate_url` | MCPortal, PortalDuplicateUrl | `OneSourcePerPage` is violated | |
| `report_window` | MCPortal, PortalWindow | `WindowHalfOpen` is violated | |

### Bounds, and why they are enough

- `fb_crawl_lease`, behaviours `lease`: one target, one account and two outstanding
  batches, both crashing parties, a source that can be deleted. The properties are
  about a target and two batches, or an account and two batches; a second target
  would only run beside it. Two batches at work on one target is what takes the
  most steps to reach: a batch that lost its key must still be running. The TTL
  here is one tick longer than the time limit and a message may wait one tick, so
  keys do run out under batches. Behaviours `pinned`: two targets, one of them pinned,
  because `PinnedOnOwnAccount` is about keeping two session keys apart, and one batch
  at a time, because it is about one batch.
- `fb_crawl_checkpoint_isolated`: two batches on one account are the smallest
  instance of the divergence.
- `storage`: three targets of two owners, so that a duplicate of the same owner
  and one of another owner are both there; two slots with two texts and up to
  three comments ever, so that a slot has none, one or two rows to claim; three
  proxies, so that a rotation has a middle; three posts for a cap of two with one
  recheck (40 and 25 in the code), so that the feed is longer than the cap and the
  rechecks compete with it; sessions of two sources with two posts each and one
  tab, so that a task of one source can meet the next source and the limit.
- `pipeline`: two organizations with one document each, a brand and an industry
  term, batches of one, two requests at any moment of any run; up to three
  answers per document, which is one more than a single attempt can need. For
  topics: three topic ids and four requests, enough for create, fill, tag, then
  delete or import. For names: two of one concept and one of them again for another
  concept, a document that has the first two and one that has none, and two changes
  of the gazetteer around runs that take one document each.
- `portal`: two organizations, the sub-account of one and three source ids, two
  requests at once and three in all (log in and change something, twice
  overlapping, with something deleted in between); three documents, one of
  another organization, in three seeds, one write between the queries of a
  request, three sets of query parameters, two of them with a name or a search
  text; two topics in the table's limit and three names, so that the limit cuts;
  two reports over two articles in opposite orders, one change of keywords; two
  organizations, two jobs, two days, two changes of settings.
- `portal_duplicate_url`, `report_window`: one organization and one request at a
  time, no write while a report is counted.
- Liveness runs are as small as they can be while failing and dying steps stay
  possible; symmetry is not used in them. The feed of the news site holds one entry
  of each kind: undated, early, gone, good, one that cannot be stored. In the
  others, `SYMMETRY` permutes constants that nothing in the configuration tells
  apart.

### CHECK_DEADLOCK FALSE

The bounds stop a behaviour that the program would continue: no request or edit is
left, all topics have been used, every account is isolated and every source
deleted, the mail has been sent on the last day. A system with nothing due and
nothing to do rests rightly, and a browser session that is closed stays closed.

### Mutants

Every property of a passing run has a mutant in `PROJECT.json`: an operator that
differs from the code's as a plausible bug would (a lock without NX, a missing
`finally`, a guard without its owner, a batch without its status filter, a cap
left out, an inner for an outer join, tasks nobody cancels), with which TLC finds
that property violated in the same run.

## 4. Fairness

- `FbCrawl`: weak fairness of the dispatcher (Airflow runs it on a schedule), of
  every task step (a running child proceeds, or is killed), strong fairness of
  taking a message (the queue is first in first out, but children may all be busy)
  and of `Tick` (time goes on). Nothing is assumed of operators: no account has
  to be repaired.
- `BrowserCrawl`: weak fairness of the session's next step (every call to the
  browser has a timeout of its own). That the session closes rests on the limits
  of rounds and tries, not on the budget that would cancel it: which step is taken
  is left open.
- `CrawlSelection`: crawls are started again and again; a crawl ends; and from
  time to time one stores all it has chosen (`SF` of `Save(picked)`): a source
  whose every crawl fails stores nothing, whatever the code does.
- `HttpCrawl`: weak fairness of the DAG, of tasks and of time; strong fairness of
  reading a feed, of what a page comes to and of finishing a site (a worker is not
  lost every time at the same place).
- `ContentPipeline`, `TopicTags`, `EntityMatch`: runs are triggered by the crawl
  DAGs again and again (`WF`); a run may die at any step for ever, but no step is
  the one at which every run dies (`SF` of each).

`MCLive` and `MCPipelineLive` join the conditions of their parts by number
(`Weak(n)`, `Strong(n)`): since `part` never changes, `WF(A \/ B)`, where `A` is
enabled in one part and `B` in another, says `WF(A)` where the first is at work and
`WF(B)` where the second is. TLC's work grows exponentially with the number of
strong conditions.

Where a liveness property holds only under a condition the code does not
establish, the condition is a bound of the run and is named in section 6:
`NewPostStored` and `CommentsFollowed` need room under the cap, that is
|Ageing ∪ Copies| + RecheckLimit < MaxPosts. `AllPagesStored` needs fewer sites
without a parser, or with a page that cannot be stored, than `BatchCap`, and speaks
of the pages before such a page. `AllMatched` excepts a gazetteer that is empty
again and again.

## 5. Proofs

Checked by `tlapm` from nothing; valid for all values of the constants that
satisfy the `ASSUME`s of the modules.

| Module | Theorem | Statement |
|---|---|---|
| `FbCrawlProofs` | `TypeCorrect` | `Spec => []TypeOK` |
| | `LeaseHeld` | `Spec => []LeaseInv` |
| | `CrawlExclusive` | `Spec => []ExclusiveCrawl` |
| | `LeaseOutlives` | `Spec => []LeaseOutlivesBatch` |
| | `NeverExpires` | wait + limit < TTL floor `=> (Spec => [](expired = {}))` |
| | `KeysFreed` | `Spec => KeyFreedWhenDone` |
| | `AccountsSpaced` | `Spec => AcquireSpacing` |
| | `PinsKept` | `Spec => []PinnedOnOwnAccount` |
| | `LeaseImplemented` | `Spec => ImplementsLease`, the refinement |
| `CrawlProofs` | `SelectionTypeCorrect` | `SelectionSpec => []SelectionTypeOK` |
| | `FetchesBounded` | `SelectionSpec => []FetchBounded` |
| | `ReportsStored` | `SelectionSpec => []ReportedStored` |
| | `BrowserTypeCorrect` | `BrowserSpec => []BrowserTypeOK` |
| | `SparedAlways` | `BrowserSpec => []SessionSpared` |
| | `HttpTypeCorrect` | `HttpSpec => []HttpTypeOK` |
| | `RunsAreBounded` | `HttpSpec => []RunBounded` |
| | `FreshIsStored` | `HttpSpec => []FreshStored` |
| | `TurnsInOrder` | `HttpSpec => InTurn` |
| `StorageProofs` | `PostTypeCorrect` | `PostSpec => []PostTypeOK` |
| | `NothingIsLost` | `PostSpec => NothingLost` |
| | `GuardSuffices` | `PostSpec => []DuplicatesOnlyByRace` |
| | `CommentTypeCorrect` | `CommentSpec => []CommentTypeOK` |
| | `CommentsReportedOnce` | `CommentSpec => []ReportedOnce` |
| | `EditsAreInPlace` | `CommentSpec => EditsInPlace` |
| | `ProxyTypeCorrect` | `ProxySpec => []ProxyTypeOK` |
| | `ProxiesTakeTurns` | `ProxySpec => TakesTurns` |
| | `SavingIsItsParts` | a behaviour of `SavingSpec` is one of each of its parts |
| | `SavingTypeCorrect` | `SavingSpec => []SavingTypeOK` |
| `PipelineProofs` | `TopicTypeCorrect` | `TopicSpec => []TopicTypeOK` |
| | `StatusAndTag` | `TopicSpec => []StatusAgrees` |
| | `OwnTags` | `TopicSpec => []TagOfOwnOrg` |
| | `CurrentTags` | `TopicSpec => []TaggedByCurrentRules` |
| | `MatchTypeCorrect` | `MatchSpec => []MatchTypeOK` |
| | `RowsAreRight` | `MatchSpec => []MatchedRight` |
| | `RowsStay` | `MatchSpec => MatchedOnce` |
| | `ClassifierIsQueue`, `TaggerIsQueue`, `MatcherIsQueue` | each task's specification implements `WorkQueue` |
| | `PipelineIsItsParts` | a behaviour of `PipelineSpec` is one of each of its parts |
| | `QueuesImplemented` | `PipelineSpec => ImplementsQueues` |
| | `StepsAreOnce` | `ContentSpec => StepsOnce` |
| | `WhatThePortalReads` | the documents of the pipeline are always such as `PortalData` begins with |
| `ContentPipelineProofs` | `ContentTypeCorrect` | `ContentSpec => []ContentTypeOK` |
| | `GateAlways` | `ContentSpec => []GateHolds` |
| | `KeywordsOwn` | `ContentSpec => []OwnKeywords` |
| | `ModesOwn` | `ContentSpec => []OwnMode` |
| | `PaidOnlyOnce` | `ContentSpec => PaidOnce` |
| `OrgPortalProofs` | `PortalTypeCorrect` | `OrgSpec => []OrgTypeOK` |
| | `SourcesByEntitled` | `OrgSpec => WrittenByEntitled` |
| | `GrantsOwn` | `OrgSpec => []GrantsOwnOrg` |
| | `GrantedAsAsked` | `OrgSpec => []GrantsAsAsked` |
| `ReportProofs` | `MailTypeCorrect` | `MailSpec => []MailTypeOK` |
| | `JobServes` | `MailSpec => []JobServesAll` |
| | `EventTypeCorrect` | `EventSpec => []EventTypeOK` |
| | `AssessmentsStand` | `EventSpec => AssessmentStands` |
| `PortalViewsProofs` | `DataTypeCorrect` | `ViewSpec => []DataTypeOK` |
| | `OnlyGrantedIsShown` | `ViewSpec => []ShownWasGranted` |
| | `SectionsAgree` | `ViewSpec => []CountsAgree` |
| | `ReportsAddUp` | `ViewSpec => []ReportAddsUp` |
| | `PortalIsItsParts` | a behaviour of `PortalSpec` is one of each of its parts |
| | `EveryPartTypeCorrect` | `PortalSpec => []PortalTypeOK` |

Every invariant and every action property that a passing run checks is the
statement of one of these theorems. A component's theorem is about
the component's own specification. The runs check unions, and `SavingIsItsParts`,
`PipelineIsItsParts` and `PortalIsItsParts` carry the theorems over to them.
Some properties are proved and belong to no run: `StatusAgrees`, `TagOfOwnOrg`,
`MatchedRight`, `MatchedOnce` and `StepsOnce` of the pipeline, `InTurn`, `RunBounded` and
`FreshStored` of the sites over HTTP, of which a run checks liveness.

**Assumptions.** Budget < time limit < TTL floor, positive sizes, finite sets of
posts, sentinels that are no members of the sets they stand beside, functions with
the domains one expects, parameters of requests of the types the routes declare
(`QueryAssumption`). `SeedAssumption` says that the documents a request begins
with have been through the pipeline in its order: no classification without a match,
no sentiment but with a completed one; that the pipeline leaves no others is the
theorem `WhatThePortalReads`. The tagger's theorems rest on
`OccurrencesAssumption` (section 2). Documents, surface forms and sites are finite
sets. `FeedAssumption`: the entries of a feed are listed by date, which is the order
the code sorts them in.

**FbCrawlProofs.** `TypeInv` is `TypeOK` with how `todo` and `cur` follow the loop
(`RecordOK`) and that no dispatch has targets while none runs. The lease needs to
be said of everybody who can have a target: `OwnInv` says that the key is there
for a target that a dispatch has *taken* or a batch has to do, and that nobody else
has it then, all apart from the targets in `Lost`. `LeaseInv` alone is not
inductive: `Publish` moves targets from the dispatch to a batch, and a batch
deletes keys without looking whose they are, so it must be known that they are
nobody else's. `LeaseOutlives` needs `TimeInv`: what is left of a pending key's TTL
and what its batch has spent, in the queue and at work, together are the whole TTL; a
key just taken has all of it. `NeverExpires` follows where a batch cannot spend that much.
`KeysFreed` is a fact about single steps of typed states. `AccountsSpaced` rests on
`UsedInv`: `last_used` of an account in use is no greater than the clock of any
batch that runs on it, unless an operator cleared it. `PinsKept` rests on `PinInv`:
all targets of a message have one session key, since a batch asks the pool for the
key of one of them. For `LeaseImplemented`, initial states map to initial states and
every step to a step or a stutter of `CrawlLease`. One lemma (`ReturnIsGiveBack`)
covers all steps of a batch: each deletes the keys of some targets and is done with
some of its own. What makes it legal there is `OwnInv`: a key deleted with a target
is nobody else's, or the target was lost before.

**CrawlProofs.** `FetchesBounded` is a fact about cardinalities: over the
cap, the rechecks outside the feed and what fills the room they leave are the cap
together (`SelectionBounded`). `ReportsStored` needs that rows are never deleted and
that what is reported at the end of a crawl has passed the same test as what is kept.
`SessionSpared` counts the tabs of the whole context, a semaphore only those of its
own source. So `SparedInv` says that no task of an earlier source is left: every way
to the next source comes when all tasks have returned, or cancels them.
*Sites.* `HttpInv` is the type with what the order is (`Ordered`): each site at one place,
which a crawl keeps although it takes its site out and appends it (`OrderAfter`), and it
overtakes nobody else by that. `RunBounded` holds since a run takes the due sites up to
a last one that has no more than `BatchCap` of them up to its place (`DueBounded`), and what
is retried has been taken before. A due site that is left out has more of them up to its
place, so all that were taken are before it (`FirstAreBefore`): with `OrderAfter` this
is `InTurn`. For `FreshStored` the tasks must carry fresh pages only, between reading the
feed and storing; that the newest entries all have a date after the cutoff is counted from
the end of the sorted feed (`DatedLast`).

**StorageProofs.** *Posts.* `DuplicatesOnlyByRace` becomes inductive with what a crawl
past the guard knows: its guard would find nothing still (`GuardStillTrue`), and
it is alone there for its owner (`OneAtATime`), unless saves have raced.
*Comments.* `upsert_comments` is one pass over what a crawl has read, a fold in the
model. `LoopOf` turns it into a function of how many comments have been gone
through, and two facts are shown of every such number, each from the one before:
`LoopOK` (rows stay, in their slots, and exactly the inserted ones are new), from
which `ReportedOnce` is inductive with the types of rows and crawls (`CommentInv`); and
`Upto` (the slots come to have one row with the text that was seen, the others are
as they were), from which `EditsInPlace` follows. That one needs `Tidy`, which says
what the tidy habit keeps up: one comment in a slot of the page, of a list and of
the table, one crawl at a time, and a row whose text was edited away is
nobody's any more.
*Proxies.* `TurnInv` says in which order a child comes to its proxies: counted from
its position (`Place`), those it has given out while `q` waited come after `q`. So
when one of them is given out again, `q` has been come to and was cooling down.

**PipelineProofs.** *Topics.* Besides the properties themselves, `TopicInv` says that
ids not given yet have
neither topic nor keywords (`NewIds`), that a topic the tagger has read is still its
owner's, or deleted, since ids are not given twice (`ReadIds`), and that the batch
it has read is pending (`BatchPending`). `WinnerExists`, that a most frequent topic with the
lowest id exists, is an induction put as "there is no smallest exception"
(`WFMin`), since theorems that take an operator cannot be used.
*Names.* `MatchInv` is the type with what makes a commit safe: the documents a run holds
have no rows yet (`HoldsUnmatched`), since a run is one transaction and only one is at work.
That the forms found give one row per concept (`RowsFoundWell`) is again the smallest place
in the gazetteer. `MatchedRight` is inductive although the gazetteer changes, because it speaks
of the text and the forms there can be, not of those that are active now.
*Queues.* Every step of a task maps to `Take`, `Complete`, `Abandon`, `Arrive` or nothing.
`Complete` is the case that needs the invariants: what a commit takes out of the queue is all
of the batch, which was waiting when it was read and, nobody else writing those columns,
waits still (`BatchPending`, `RunHolds`, `HoldsUnmatched`). For the tagger an admin's reset in
between puts a document back that is in the batch already, which changes nothing.
`QueuesImplemented` then follows from `PipelineIsItsParts`.
*What the portal reads.* `PortalRow` puts together the columns that gate, classifier, tagger
and matcher have written about a document, `Portal` is `PortalData` on such rows. That they are
`Processed` follows from the invariants of the three tasks and `HitsWithGate`; the sentiment
is what a model has said, whatever that is, and no more than that can be: the mapping gives
one to a completed classification only, as the classifier's UPDATE does.

**ContentPipelineProofs.** The properties speak of what is committed, and what is
committed comes out of the run, so the invariant speaks of the run: whatever it
still has to classify, or has classified and not committed, waits for it in the
table and belongs to the organization the run is at (`RunHolds`); the keywords
and the mode it has read, and those that are set now, were chosen at some
moment (`ReadFromEver`); and a document has a mode exactly when it is classified
(`ClassWithMode`). `PaidOnce` is then a fact about single steps: a document at
hand is a pending one. All of it rests on `max_active_runs=1`: one run is at work
at a time.

**OrgPortalProofs.** `TypeInv` says of every request what its own steps have made
sure of, whatever others do since (`RequestOK`): an able caller's reach is within
what it was entitled to, and a request that is about to write a source has passed
the check. `WrittenByEntitled` follows for single steps. `GrantsOwnOrg` needs
`ListsOK`: the sources a request is about to grant were the organization's when it
looked, and, ids not being given twice, are so still or are gone. `GrantsAsAsked`
says of all states, those of overlapping edits included, what is granted; it needs
`Pending`: a request between its DELETE and its INSERTs knows of each grant there is
whether its DELETE saw it or others have inserted it since (`since`), all of `since` that
still has a source is granted, and a sub-account that is being created has no grants. An
edit that commits then leaves its list and what is in `since`, and every other pending
request's `since` changes by what this one took away and added.

**ReportProofs.** *Mail.* The daily job is restarted from the beginning after a crash, so
`JobServesAll` must tell the mails of one run from those of the runs that died.
`SentInv` says of the mails with the number of the run at work that they are about
organizations it has tried, each about another, with its own window and
recipients; with `done` only when nobody is waiting this is the property.
*Event.* `EventInv` says that what open transactions have inserted is disjoint from what
is kept and from each other (the unique key makes the second one wait), and, value by
value (`ShowsKept`), that the answer a report shows is the one it has inserted or the one
that is kept; for the pairs in `late` it says only that some answer is kept.
`AssessmentStands` is then a fact about single steps.

**PortalViewsProofs.** Forty queries on twelve pages would make as many cases in
every proof. So the proofs speak of what a query rests on and gives, not of the page it
is on: `Ordered` says of a page that it does what each of its queries rests on before it,
and none twice, and is checked once per page. `DataInv` is the type of the data with
`Processed`: writers respect the order of the
pipeline's steps, so that a sentiment, for instance, is never without a match. `ViewInv`
says where a request stands (`PageOK`): it has done the first n queries of its page and has
their results and no others (`Done`); what its checks have made sure of still holds,
whatever was committed since (`Met`); and everything given so far is within what was
granted and tracked (`Shown`). `ShownWasGranted` alone is not inductive: it says nothing of
`reach`, which the next query uses, nor of the document a page is on after it was found
visible. `CountsAgree` and `ReportAddsUp` both follow from `FreshInv`: as long as nothing was
committed since the request began, every result it has is what its query would count now
(`Counts`), and where a query chooses among ties, or reads the result of another one, the
two are linked (`Links`). From there each line of the two properties is a fact about
sets of documents in one state.

**Only model-checked.** Liveness (`KeyEventuallyFreed`, `RunningRecovers`,
`NewPostStored`, `CommentsFollowed`, `AllPagesStored`, `SessionCloses`, `AllProcessed`,
`EventuallyTagged`, `AllMatched`): the prover has neither fairness nor `ENABLED`.
What `Occurrences` of TopicTags adds up, a fold, rests on an assumption TLC
evaluates. That the properties of section 6 are violated is shown by
counterexample.

## 6. Where the code and its documents disagree

Shown by runs that end in a violation (details and quotations under `findings`):

1. **An isolated account returns by itself** (`fb_crawl_checkpoint_isolated`).
   `update_session` sets `LIVE` whatever the status is; with two batches on one
   account, the login of one undoes the isolation by the other.
2. **The checkpoint at a post is not noticed** (`browser_checkpoint`). The post
   pages of groups and pages are never looked at for it, and the session goes on
   with the posts and sources that are left.
3. **No own row** (`storage_own_row`). The guard of `save_post` asks for the
   owner, so the second organization that follows a page gets no row.
4. **A comment overwritten** (`storage_overwrite`). A second comment of one
   author takes the stored row of the first.
5. **One page twice** (`portal_duplicate_url`). Python and SQL normalize addresses
   differently, and an import adds a page that is there.
6. **A document in two windows** (`report_window`). Both ends of a window belong
   to it, so what is published as one ends and the next begins is counted twice.

Met while modelling, and not run:

- Duplicate dispatch (dag-flow.md:54): the keys carry no owner, and the `except`
  branch of `crawl_batch_task` (batch_tasks.py:258-262) deletes those of all its
  targets, also of targets that were finished and dispatched again since.
  `stolen` in `LeaseInv`, `lost` in `CrawlLease`.
- Proxies rotate and cool down per process, not per pool (proxy_pool.py:70-71,
  191-193).
- Batches can share an account, since a cooldown is shorter than a batch
  (dag-flow.md:94-97). `AcquireSpacing` says what does hold.
- The TTL is counted from the dispatch, not from the start of the crawl
  (dispatch_tasks.py:33-35): a long queue uses it up. `NeverExpires` has the condition.
- After a network error the gather over a group's or page's posts ends, and the
  other tasks run on in the context beside the next source
  (playwright_crawler.py:432, playwright_page_crawler.py:432); the profile crawler
  cancels them (playwright_profile_crawler.py:804-816). `SessionSpared` speaks of
  profiles only.
- An expired session of a source whose name is stored goes unnoticed, because the
  name falls back to the stored one.
- "The rest naturally get picked up" (page_service.py:57-58) fails when posts that
  are never stored, because they are copies or too old when first seen, fill the
  cap at every crawl (106-110, 136).
- The first comment on a post that had none is not followed once the post has left
  the feed (fb_pg_storage.py:384; HUONG_DAN.md:370), rechecks that are still in the
  feed can be cut by the cap, and the rechecks are the posts seen last, which a
  recheck makes them again (389).
- A profile's age rule runs after everything was fetched (profile_service.py:58-62,
  79).
- News on old posts is not reported (HUONG_DAN.md:343).
- A post's likes that are known only as `reactions["like"]` are dropped before they
  are looked for, and come back as `other` (parser.py:472-478; the sum promised at
  465 still holds).
- The "per-host minimum delay between requests" (http_client.py:20) never takes
  effect: every page gets a fetcher of its own (rss_news.py:126, tinhte.py:167).
- Rules changed between the tagger's two transactions leave documents tagged by
  the old ones (admin.py:189-192 promises otherwise); `stale` in
  `TaggedByCurrentRules`.
- Two edits of one sub-account that overlap leave the union of both lists, which neither
  main account asked for (members.py:102-109 takes no lock): the second DELETE does not
  see the rows that the first has inserted meanwhile. `GrantsAsAsked` allows just this
  (`since`), and nothing beyond it. Where both lists share a source, the second edit fails
  by the unique key.
- The cost of an image description that cannot be read is not booked, although the call
  was paid (classify.py:263-265). No property reads the sums.
- An industry keyword alone does not open the gate (classification-pipeline.md:44);
  the keyword file named there (49-51) is not read.
- What an answer cost is lost when the transaction around it dies
  (classification-pipeline.md:76).
- "A delayed Airflow run still produces the intended window" (report_email.py:13-20)
  does not hold past midnight UTC: the day is that of the run (24).
- "One (document, brand) pair is LLM-assessed once ... re-running the same window just
  reads the cached rows back" (event_report.py:131-134) fails for two reports that assess
  one pair at once: the second insert is dropped, its report goes out with its own answer
  (185-204), and the next one reads the other. In `AssessmentStands` these pairs are
  `late`; for all others what is shown is what is kept.
- A failed call of the model is kept as "neutral" for good (event_report.py:86,
  110-112, 185-193).
- `get_document_entity_network` promises "how many OTHER documents"
  (org.py:2588-2589) and counts the document itself.
- The two topic tables of the dashboard's report choose their top 15 separately
  (report_data.py:104-118, 121-153): with ties, a topic may show no sentiments.
- A comment edited back to an earlier text is taken for known
  (fb_pg_storage.py:312), and a crawl that commits late puts an older text back
  (319).
- A document whose text changes after the gate keeps what the gate said of the old
  text (keyword_filter.py:60).
- Two saves at the same moment both pass the guard (fb_pg_storage.py:184-190).

## 7. Not modelled

- **Facebook extraction and text parsers** (`facebook_extract.py`, `parser.py`,
  `profile_parser.py`, `parsers/*` beyond the discovery of pages), **text
  normalization**: pure functions of a page or text, without state. What they
  produce is chosen freely in the models.
- **Browser automation below the level of pages and tabs**: which element is
  clicked, waited for and read.
- **Standalone Facebook crawler**: SQLite storage, command line and the older
  single-target runner, for use by hand.
- **What a language model answers, report layout, frontend, Excel and seed
  scripts**: they format, or run by hand. Answers of the model are chosen freely.
- **System statistics and lists of DAG runs** in portal and dashboard: read from
  Airflow, Celery and RabbitMQ, used for display only.
- **Hashing, tokens' encoding**: data; that a token expires is modelled.
- **Migrations**: the constraints they create are in the models where code relies
  on them.
- **Airflow, Celery, RabbitMQ, Redis, Postgres, Facebook, OpenAI, SMTP**: external;
  modelled as the code uses them (`external` in the map).

## 8. What could come next

1. The order of rechecks and of a backlog under the cap, if the code is to promise
   a turn to each: `CommentsFollowed` and `NewPostStored` without their conditions.
2. `HttpCrawl` and `ContentPipeline` in one behaviour: the run that a DAG triggers and
   the documents it has stored, which are joined by nothing but `pipeline` now.
3. The counts of reactions from the parser to the snapshots of a post.
4. `FbCrawl` and `BrowserCrawl` in one module: the login of a session as the cause
   of `SessionExpired` and `DeadAccount`, which each chooses freely now.
