---------------------------- MODULE TargetRepository ----------------------------
(***************************************************************************)
(* The rows of crawl_targets as the crawl path reads and writes them       *)
(* (platform_app/targets/repository.py, and the owner statements of        *)
(* adapters/fb_pg_storage.py).                                             *)
(*                                                                         *)
(* `age` is the whole number of clock ticks since last_crawled_at,         *)
(* saturating at CrawlInterval: a saturated age is exactly "never crawled, *)
(* or last crawled at least crawl_interval_sec ago".  The write-only       *)
(* columns (last_error, last_success_at, consecutive_failures, updated_at) *)
(* are not modelled: nothing on the crawl path reads them.  The status     *)
(* texts unknown, error, timeout, not_a_member, session_expired and        *)
(* checkpoint are one value, "not_ok": no code tells them apart after      *)
(* writing them.                                                           *)
(***************************************************************************)
EXTENDS Naturals

CONSTANTS
    Target,        \* ids of the crawl_targets rows of one platform_type
    CrawlInterval  \* crawl_interval_sec, in ticks

ASSUME CrawlIntervalAssumption == CrawlInterval \in Nat \ {0}

VARIABLE crawl_targets

RowState == {"enabled", "disabled", "deleted"}
RowStatus == {"running", "ok", "not_ok"}

TargetRow == [state: RowState, last_status: RowStatus, age: 0..CrawlInterval]

TargetTypeOK == crawl_targets \in [Target -> TargetRow]

\* A registered source that was never crawled: last_crawled_at IS NULL.
TargetInit ==
    crawl_targets = [t \in Target |->
        [state |-> "enabled", last_status |-> "not_ok", age |-> CrawlInterval]]

Exists(t) == crawl_targets[t].state # "deleted"

\* (mutant) A row somebody is crawling is not due.
DueTargetsNotRunning ==
    {t \in Target : /\ crawl_targets[t].state = "enabled"
                    /\ crawl_targets[t].age = CrawlInterval
                    /\ crawl_targets[t].last_status # "running"}

\* get_due_targets: enabled, and never crawled or crawled an interval ago.
\* The ORDER BY and the LIMIT of 200 only choose among due rows.
DueTargets ==
    {t \in Target : crawl_targets[t].state = "enabled" /\ crawl_targets[t].age = CrawlInterval}

\* An UPDATE ... WHERE id = %s: it changes nothing when the row is gone.
UpdateRow(t, row) ==
    crawl_targets' = IF Exists(t) THEN [crawl_targets EXCEPT ![t] = row] ELSE crawl_targets

\* mark_running touches the status only: last_crawled_at keeps its old value.
MarkRunning(t) == UpdateRow(t, [crawl_targets[t] EXCEPT !.last_status = "running"])

MarkSuccess(t) == UpdateRow(t, [crawl_targets[t] EXCEPT !.last_status = "ok", !.age = 0])

MarkFailed(t) == UpdateRow(t, [crawl_targets[t] EXCEPT !.last_status = "not_ok", !.age = 0])

\* PgStorage._mark_synced, called by each crawl service before it returns.
MarkSynced(t) == UpdateRow(t, [crawl_targets[t] EXCEPT !.last_status = "ok", !.age = 0])

\* PgStorage._upsert_owner on UniqueViolation: the target is a duplicate of
\* another row and turns itself off.
DisableDuplicate(t) == UpdateRow(t, [crawl_targets[t] EXCEPT !.state = "disabled"])

\* DELETE FROM crawl_targets (delete_source of the customer API).
DeleteRow(t) == UpdateRow(t, [crawl_targets[t] EXCEPT !.state = "deleted"])

TargetTick ==
    crawl_targets' = [t \in Target |->
        [crawl_targets[t] EXCEPT !.age = IF @ < CrawlInterval THEN @ + 1 ELSE @]]
=============================================================================
