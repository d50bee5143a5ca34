--------------------------------- MODULE FbCrawl ---------------------------------
(***************************************************************************)
(* Facebook crawling of one platform_type: the dispatcher run by Airflow   *)
(* (crawlers/dispatch_tasks.py), the fb_crawl queue on RabbitMQ, the       *)
(* Celery worker children running crawl_batch_task                         *)
(* (crawlers/batch_tasks.py), the Redis in-flight locks with their TTL,    *)
(* the fb_accounts table and the crawl_targets rows.                       *)
(*                                                                         *)
(* One Tick is one unit of wall-clock time.  The scaled durations keep the *)
(* order of the real ones: cooldown 900 s < budget 1500 s < time_limit     *)
(* 1680 s < lock TTL 1800 s.                                               *)
(*                                                                         *)
(* A batch is a message: queued, then held by the one child that started   *)
(* it (Celery acks a message when its task starts, max_retries=0, so a     *)
(* started batch is never delivered again).  The order of the targets in a *)
(* batch is left open: BeginTarget picks any target not yet done.          *)
(***************************************************************************)
EXTENDS TargetRepository, AccountPool, FiniteSets

CONSTANTS
    Batch,          \* identities of the batches outstanding at the same time
    NoTarget,       \* no target, no account, no batch
    Pin,            \* fb_session_key of every target, or NoKey
    HasPassword,    \* accounts with stored credentials
    BatchSize,      \* FB_BATCH_SIZE
    Concurrency,    \* worker children consuming the queue
    Budget,         \* FB_TASK_TIME_BUDGET_SECONDS, in ticks
    HardLimit,      \* time_limit of the task, in ticks
    MinLockTtl,     \* MIN_LOCK_TTL_SECONDS, in ticks
    MaxQueueWait,   \* bound: the longest a message waits in the queue, in ticks
    Deletable,      \* bound: the targets whose source a customer may delete
    Crashing        \* bound: which of "dispatcher" and "worker" may crash

ASSUME PinAssumption == Pin \in [Target -> Account \union {NoKey}]
ASSUME NoTargetAssumption == NoTarget \notin Target /\ NoTarget \notin Account /\ NoTarget \notin Batch
ASSUME PasswordAssumption == HasPassword \subseteq Account
ASSUME SizeAssumption == BatchSize \in Nat \ {0} /\ Concurrency \in Nat \ {0}
ASSUME TimeAssumption ==
    /\ {Budget, HardLimit, MinLockTtl} \subseteq Nat \ {0} /\ MaxQueueWait \in Nat
    /\ Budget < HardLimit /\ HardLimit < MinLockTtl

VARIABLES
    inflight,  \* the Redis key of every target: remaining TTL, 0 when there is no key
    dispatch,  \* the running dispatch_due_sources call, if any
    batch,     \* the outstanding batches
    expired,   \* history: targets whose key ran out under an unfinished batch
    stolen     \* history: targets whose key was deleted by a batch done with them

history == <<expired, stolen>>
vars == <<crawl_targets, fb_accounts, inflight, dispatch, batch, history>>

TtlWithoutFloor == CrawlInterval  \* (mutant)

\* max(crawl_interval_sec, MIN_LOCK_TTL_SECONDS)
Ttl == IF CrawlInterval > MinLockTtl THEN CrawlInterval ELSE MinLockTtl

Phase == {"free", "queued", "next", "crawling", "synced", "refreshing", "isolating", "closing"}

BatchRecord == [
    phase: Phase,
    targets: SUBSET Target,                 \* the ids in the message
    todo: SUBSET Target,                    \* those the loop has not finished with
    cur: Target \union {NoTarget},          \* the target of the running iteration
    account: Account \union {NoTarget},
    clock: Nat,                             \* ticks in the queue, then since the task started
    refreshed: BOOLEAN,                     \* session_refresh_attempted
    checkpointed: BOOLEAN]                  \* account_checkpointed

Idle == [phase |-> "free", targets |-> {}, todo |-> {}, cur |-> NoTarget, account |-> NoTarget,
         clock |-> 0, refreshed |-> FALSE, checkpointed |-> FALSE]

\* due: listed and not looked at yet; taken: locked and not sent yet.
Dispatch == [active: BOOLEAN, due: SUBSET Target, taken: SUBSET Target]
NoDispatch == [active |-> FALSE, due |-> {}, taken |-> {}]

Running(b) == batch[b].phase \notin {"free", "queued"}
Held(t) == inflight[t] > 0

TypeOK ==
    /\ TargetTypeOK
    /\ AccountTypeOK
    /\ inflight \in [Target -> 0..Ttl]
    /\ dispatch \in Dispatch
    /\ batch \in [Batch -> BatchRecord]
    /\ \A b \in Batch :
          IF Running(b) THEN batch[b].account \in Account /\ batch[b].clock <= HardLimit
          ELSE batch[b].clock <= MaxQueueWait
    /\ expired \subseteq Target
    /\ stolen \subseteq Target

InUse == {batch[b].account : b \in {c \in Batch : Running(c)}}

\* dispatch_due_sources puts targets of one session key in one message.
SessionKey(b) == Pin[CHOOSE t \in batch[b].targets : TRUE]

Init ==
    /\ TargetInit
    /\ AccountInit
    /\ inflight = [t \in Target |-> 0]
    /\ dispatch = NoDispatch
    /\ batch = [b \in Batch |-> Idle]
    /\ expired = {}
    /\ stolen = {}

-----------------------------------------------------------------------------
(* dispatch_due_sources *)

ReadDue ==
    /\ ~dispatch.active
    /\ DueTargets # {}
    /\ dispatch' = [active |-> TRUE, due |-> DueTargets, taken |-> {}]
    /\ UNCHANGED <<crawl_targets, fb_accounts, inflight, batch, history>>

\* (mutant) SET EX without NX.
TryLockOverwriting(t) ==
    /\ t \in dispatch.due
    /\ dispatch' = [dispatch EXCEPT !.due = @ \ {t}, !.taken = @ \union {t}]
    /\ inflight' = [inflight EXCEPT ![t] = Ttl]
    /\ UNCHANGED <<crawl_targets, fb_accounts, batch, history>>

\* (mutant) Every dispatch renews the TTL of the keys it finds set.
TryLockRenewing(t) ==
    /\ t \in dispatch.due
    /\ dispatch' = [dispatch EXCEPT !.due = @ \ {t},
                                   !.taken = IF Held(t) THEN @ ELSE @ \union {t}]
    /\ inflight' = [inflight EXCEPT ![t] = Ttl]
    /\ UNCHANGED <<crawl_targets, fb_accounts, batch, history>>

\* SET NX EX: the due list was read before, so t may have been crawled since.
TryLock(t) ==
    /\ t \in dispatch.due
    /\ IF Held(t)
       THEN /\ dispatch' = [dispatch EXCEPT !.due = @ \ {t}]
            /\ UNCHANGED inflight
       ELSE /\ dispatch' = [dispatch EXCEPT !.due = @ \ {t}, !.taken = @ \union {t}]
            /\ inflight' = [inflight EXCEPT ![t] = Ttl]
    /\ UNCHANGED <<crawl_targets, fb_accounts, batch, history>>

\* (mutant) One list for all keys.
GroupAll(t) == dispatch.taken

\* The targets taken this time that share t's session key.
Group(t) == {u \in dispatch.taken : Pin[u] = Pin[t]}

\* One send_task: a chunk of BATCH_SIZE targets of one key, or what is left of it.
Publish(b, chunk) ==
    /\ dispatch.due = {}
    /\ batch[b].phase = "free"
    /\ \E t \in dispatch.taken :
          /\ chunk \subseteq Group(t)
          /\ Cardinality(chunk) = BatchSize \/ (Cardinality(chunk) < BatchSize /\ chunk = Group(t))
    /\ batch' = [batch EXCEPT ![b] =
                    [Idle EXCEPT !.phase = "queued", !.targets = chunk, !.todo = chunk]]
    /\ dispatch' = [dispatch EXCEPT !.taken = @ \ chunk]
    /\ UNCHANGED <<crawl_targets, fb_accounts, inflight, history>>

EndDispatch ==
    /\ dispatch.active /\ dispatch.due = {} /\ dispatch.taken = {}
    /\ dispatch' = NoDispatch
    /\ UNCHANGED <<crawl_targets, fb_accounts, inflight, batch, history>>

\* The Airflow task dies, or Redis or RabbitMQ fails under it: the keys already
\* set stay, without a message.
DispatchCrash ==
    /\ "dispatcher" \in Crashing /\ dispatch.active
    /\ dispatch' = NoDispatch
    /\ UNCHANGED <<crawl_targets, fb_accounts, inflight, batch, history>>

-----------------------------------------------------------------------------
(* crawl_batch_task, up to the browser session *)

\* _redis.delete of the keys of these targets, whoever set them.
Unlock(S) == inflight' = [t \in Target |-> IF t \in S THEN 0 ELSE inflight[t]]

\* A child takes the message and an account.  SKIP LOCKED passes over a row
\* that a statement of another batch is updating at that moment.
Start(b) ==
    /\ batch[b].phase = "queued"
    /\ Cardinality({c \in Batch : Running(c)}) < Concurrency
    /\ \E skipped \in SUBSET InUse, a \in Account :
          /\ a \in Candidates(SessionKey(b), skipped)
          /\ Acquire(a)
          /\ batch' = [batch EXCEPT ![b] = [@ EXCEPT !.phase = "next", !.account = a, !.clock = 0]]
    /\ UNCHANGED <<crawl_targets, inflight, dispatch, history>>

\* No account: the batch is dropped and its targets are due at once.
Drop(b) ==
    /\ batch[b].phase = "queued"
    /\ Cardinality({c \in Batch : Running(c)}) < Concurrency
    /\ \E skipped \in SUBSET InUse : Candidates(SessionKey(b), skipped) = {}
    /\ Unlock(batch[b].targets)
    /\ batch' = [batch EXCEPT ![b] = Idle]
    /\ UNCHANGED <<crawl_targets, fb_accounts, dispatch, history>>

-----------------------------------------------------------------------------
(* _run_batch: the loop over target_ids *)

\* Less than 30 s of the time budget left: the target is left for another day.
BudgetSkip(b, t) ==
    /\ batch[b].phase = "next" /\ t \in batch[b].todo
    /\ batch[b].clock >= Budget
    /\ Unlock({t})
    /\ batch' = [batch EXCEPT ![b] = [@ EXCEPT !.todo = batch[b].todo \ {t}]]
    /\ UNCHANGED <<crawl_targets, fb_accounts, dispatch, history>>

\* The row was deleted meanwhile: the loop goes on without deleting the key.
SkipMissing(b, t) ==
    /\ batch[b].phase = "next" /\ t \in batch[b].todo
    /\ batch[b].clock < Budget
    /\ ~Exists(t)
    /\ batch' = [batch EXCEPT ![b] = [@ EXCEPT !.todo = batch[b].todo \ {t}]]
    /\ UNCHANGED <<crawl_targets, fb_accounts, inflight, dispatch, history>>

BeginTarget(b, t) ==
    /\ batch[b].phase = "next" /\ t \in batch[b].todo
    /\ batch[b].clock < Budget
    /\ Exists(t)
    /\ MarkRunning(t)
    /\ batch' = [batch EXCEPT ![b] = [@ EXCEPT !.phase = "crawling", !.cur = t]]
    /\ UNCHANGED <<fb_accounts, inflight, dispatch, history>>

\* upsert_group/page/profile meets a row that already has this external_id.
DuplicateFound(b) ==
    /\ batch[b].phase = "crawling" /\ batch[b].clock < Budget
    /\ DisableDuplicate(batch[b].cur)
    /\ UNCHANGED <<fb_accounts, inflight, dispatch, batch, history>>

\* (mutant) The key is deleted as soon as the crawl returns.
SyncedUnlocking(b) ==
    /\ batch[b].phase = "crawling" /\ batch[b].clock < Budget
    /\ MarkSynced(batch[b].cur)
    /\ Unlock({batch[b].cur})
    /\ batch' = [batch EXCEPT ![b] = [@ EXCEPT !.phase = "synced"]]
    /\ UNCHANGED <<fb_accounts, dispatch, history>>

\* The crawl service returns within the time left.  It has marked the row
\* already, before _run_batch looks at the name the crawl found.
Synced(b) ==
    /\ batch[b].phase = "crawling" /\ batch[b].clock < Budget
    /\ MarkSynced(batch[b].cur)
    /\ batch' = [batch EXCEPT ![b] = [@ EXCEPT !.phase = "synced"]]
    /\ UNCHANGED <<fb_accounts, inflight, dispatch, history>>

\* (mutant) No `finally`.
LeaveTargetLocked(b) ==
    /\ batch' = [batch EXCEPT ![b] =
                    [@ EXCEPT !.phase = "next", !.cur = NoTarget,
                              !.todo = batch[b].todo \ {batch[b].cur}]]
    /\ UNCHANGED <<inflight, dispatch, history>>

\* The `finally` of the iteration, and on to the next one.
LeaveTarget(b) ==
    /\ Unlock({batch[b].cur})
    /\ batch' = [batch EXCEPT ![b] =
                    [@ EXCEPT !.phase = "next", !.cur = NoTarget,
                              !.todo = batch[b].todo \ {batch[b].cur}]]
    /\ UNCHANGED <<dispatch, history>>

Succeed(b) ==
    /\ batch[b].phase = "synced"
    /\ MarkSuccess(batch[b].cur)
    /\ LeaveTarget(b)
    /\ UNCHANGED fb_accounts

\* NotGroupMemberError or any other error of the crawl, or one of update_extra
\* after mark_success: the row ends as failed either way.
FailTarget(b) ==
    /\ batch[b].phase = "synced" \/ (batch[b].phase = "crawling" /\ batch[b].clock < Budget)
    /\ MarkFailed(batch[b].cur)
    /\ LeaveTarget(b)
    /\ UNCHANGED fb_accounts

\* asyncio.wait_for cancels the crawl at the deadline.
TargetTimeout(b) ==
    /\ batch[b].phase = "crawling" /\ batch[b].clock >= Budget
    /\ MarkFailed(batch[b].cur)
    /\ LeaveTarget(b)
    /\ UNCHANGED fb_accounts

\* The crawl found no name: one refresh_login per batch, if it can log in at all.
SessionExpired(b) ==
    /\ batch[b].phase = "synced"
    /\ IF batch[b].account \in HasPassword /\ ~batch[b].refreshed
       THEN /\ batch' = [batch EXCEPT ![b] = [@ EXCEPT !.phase = "refreshing", !.refreshed = TRUE]]
            /\ UNCHANGED <<crawl_targets, inflight, dispatch, history>>
       ELSE /\ MarkFailed(batch[b].cur)
            /\ LeaveTarget(b)
    /\ UNCHANGED fb_accounts

RefreshOk(b) ==
    /\ batch[b].phase = "refreshing"
    /\ UpdateSession(batch[b].account)
    /\ MarkFailed(batch[b].cur)
    /\ LeaveTarget(b)

\* CheckpointError from the crawl, or refresh_login without a new session: the
\* account is dead, and so is what is left of the batch.
DeadAccount(b) ==
    /\ batch[b].phase = "refreshing" \/ (batch[b].phase = "crawling" /\ batch[b].clock < Budget)
    /\ batch' = [batch EXCEPT ![b] = [@ EXCEPT !.phase = "isolating", !.checkpointed = TRUE]]
    /\ UNCHANGED <<crawl_targets, fb_accounts, inflight, dispatch, history>>

\* for remaining_id in target_ids[i:], the current target first.
IsolateOne(b, t) ==
    /\ batch[b].phase = "isolating" /\ t \in batch[b].todo
    /\ batch[b].cur \in batch[b].todo => t = batch[b].cur
    /\ MarkFailed(t)
    /\ Unlock({t})
    /\ batch' = [batch EXCEPT ![b] = [@ EXCEPT !.todo = batch[b].todo \ {t}]]
    /\ UNCHANGED <<fb_accounts, dispatch, history>>

\* Targets in S that somebody else than batch b was given meanwhile.
Foreign(b, S) ==
    {t \in S : t \in dispatch.taken \/ \E c \in Batch \ {b} : t \in batch[c].todo}

\* After the break, the `finally` deletes the current target's key once more.
FinishIsolation(b) ==
    /\ batch[b].phase = "isolating" /\ batch[b].todo = {}
    /\ Unlock({batch[b].cur})
    /\ stolen' = stolen \union Foreign(b, {batch[b].cur})
    /\ batch' = [batch EXCEPT ![b] = [@ EXCEPT !.phase = "closing", !.cur = NoTarget]]
    /\ UNCHANGED <<crawl_targets, fb_accounts, dispatch, expired>>

Finish(b) ==
    /\ batch[b].phase = "next" /\ batch[b].todo = {}
    /\ batch' = [batch EXCEPT ![b] = [@ EXCEPT !.phase = "closing"]]
    /\ UNCHANGED <<crawl_targets, fb_accounts, inflight, dispatch, history>>

-----------------------------------------------------------------------------
(* crawl_batch_task, after the browser session *)

\* Anything raised out of _run_batch (browser start and close, get_target,
\* mark_running, refresh_login, a statement of an except branch): the account
\* counts as checkpointed and the keys of ALL the targets are deleted.
BatchError(b) ==
    /\ batch[b].phase \in {"next", "crawling", "synced", "refreshing", "isolating"}
    /\ Unlock(batch[b].targets)
    /\ stolen' = stolen \union Foreign(b, batch[b].targets \ batch[b].todo)
    /\ batch' = [batch EXCEPT ![b] =
                    [@ EXCEPT !.phase = "closing", !.cur = NoTarget,
                              !.todo = {}, !.checkpointed = TRUE]]
    /\ UNCHANGED <<crawl_targets, fb_accounts, dispatch, expired>>

\* The `finally` of the task: _account_pool.release.
ReleaseAccount(b) ==
    /\ batch[b].phase = "closing"
    /\ Release(batch[b].account, ~batch[b].checkpointed)
    /\ batch' = [batch EXCEPT ![b] = Idle]
    /\ UNCHANGED <<crawl_targets, inflight, dispatch, history>>

\* time_limit: SIGKILL of the child, nothing is cleaned up.
HardKill(b) ==
    /\ Running(b) /\ batch[b].clock = HardLimit
    /\ batch' = [batch EXCEPT ![b] = Idle]
    /\ UNCHANGED <<crawl_targets, fb_accounts, inflight, dispatch, history>>

\* The child dies, or acquire(), _proxy_pool.acquire() or release() raises
\* outside the try: same as a kill.
WorkerCrash(b) ==
    /\ "worker" \in Crashing /\ Running(b)
    /\ batch' = [batch EXCEPT ![b] = Idle]
    /\ UNCHANGED <<crawl_targets, fb_accounts, inflight, dispatch, history>>

-----------------------------------------------------------------------------
(* Operators, customers and the clock *)

OperatorRelease(a) ==
    /\ fb_accounts[a].status = "CHECKPOINT"
    /\ ReleaseCheckpoint(a)
    /\ UNCHANGED <<crawl_targets, inflight, dispatch, batch, history>>

OperatorImport(a) ==
    /\ ~fb_accounts[a].session
    /\ ImportSession(a)
    /\ UNCHANGED <<crawl_targets, inflight, dispatch, batch, history>>

DeleteSource(t) ==
    /\ t \in Deletable /\ Exists(t)
    /\ DeleteRow(t)
    /\ UNCHANGED <<fb_accounts, inflight, dispatch, batch, history>>

ExpiringUnderBatch == {t \in Target : inflight[t] = 1 /\ \E b \in Batch : t \in batch[b].todo}

\* Time passes.  A dispatch takes no time on this scale, a killed child is
\* killed on time, and no message waits longer than the bound.
Tick ==
    /\ ~dispatch.active
    /\ \A b \in Batch : Running(b) => batch[b].clock < HardLimit
    /\ \A b \in Batch : batch[b].phase = "queued" => batch[b].clock < MaxQueueWait
    /\ inflight' = [t \in Target |-> IF Held(t) THEN inflight[t] - 1 ELSE 0]
    /\ expired' = expired \union (ExpiringUnderBatch \ stolen)
    /\ batch' = [b \in Batch |-> IF batch[b].phase = "free" THEN batch[b]
                                 ELSE [batch[b] EXCEPT !.clock = @ + 1]]
    /\ TargetTick
    /\ AccountTick
    /\ UNCHANGED <<dispatch, stolen>>

-----------------------------------------------------------------------------
Dispatcher ==
    \/ ReadDue
    \/ \E t \in Target : TryLock(t)
    \/ \E b \in Batch, chunk \in SUBSET Target : Publish(b, chunk)
    \/ EndDispatch

LoopStep(b) ==
    \/ \E t \in Target : BudgetSkip(b, t) \/ SkipMissing(b, t) \/ BeginTarget(b, t)
    \/ Synced(b)
    \/ Succeed(b) \/ FailTarget(b) \/ TargetTimeout(b)
    \/ SessionExpired(b) \/ RefreshOk(b) \/ DeadAccount(b)
    \/ \E t \in Target : IsolateOne(b, t)
    \/ FinishIsolation(b) \/ Finish(b)

TaskStep(b) == LoopStep(b) \/ BatchError(b) \/ ReleaseAccount(b) \/ HardKill(b)

Worker(b) == Start(b) \/ Drop(b) \/ DuplicateFound(b) \/ TaskStep(b) \/ WorkerCrash(b)

Environment ==
    \/ DispatchCrash
    \/ \E a \in Account : OperatorRelease(a) \/ OperatorImport(a)
    \/ \E t \in Target : DeleteSource(t)

Next ==
    \/ Dispatcher
    \/ \E b \in Batch : Worker(b)
    \/ Environment
    \/ Tick

Spec == Init /\ [][Next]_vars

\* The Airflow task and the children keep running, the queue is first in first
\* out, and time goes on; nobody has to come and fix an account.
Fairness ==
    /\ WF_vars(Dispatcher)
    /\ \A b \in Batch : SF_vars(Start(b) \/ Drop(b)) /\ WF_vars(TaskStep(b))
    /\ SF_vars(Tick)

FairSpec == Spec /\ Fairness

-----------------------------------------------------------------------------
(* Properties *)

Lost == expired \union stolen

\* The in-flight key of every target a batch still has to crawl is there,
\* unless it ran out under the batch or was deleted by another one: the many
\* places of batch_tasks.py that delete keys leave no other way to lose it.
LeaseInv == \A b \in Batch : \A t \in batch[b].todo \ Lost : Held(t)

\* Two outstanding batches never have the same target to crawl, with the same
\* two exceptions.
ExclusiveCrawl ==
    \A b, c \in Batch : \A t \in batch[b].todo \intersect batch[c].todo :
        b = c \/ t \in Lost

\* What a batch may have spent of the TTL of its keys, in the queue and at work.
Spent(b) == IF Running(b) THEN MaxQueueWait + batch[b].clock ELSE batch[b].clock

\* dispatch_tasks.py sets a floor under the TTL "that could expire mid-crawl": the key of
\* a target that a batch has to crawl has all of its TTL ahead but what the batch has
\* spent since it was sent, so that it outlives the batch when the wait in the queue
\* and the time limit of the task together stay below the floor.
LeaseOutlivesBatch ==
    \A b \in Batch : \A t \in batch[b].todo \ Lost : inflight[t] + Spent(b) >= MinLockTtl

\* A batch that is done with a target, whichever way (dropped, skipped,
\* crawled, failed, isolated, thrown), frees its key, so that it can be
\* dispatched again.  The exceptions are a kill and a deleted row.
FreesWhatIsDone ==
    \A b \in Batch : \A t \in batch[b].todo \ batch'[b].todo :
        \/ ~Held(t)'
        \/ ~Exists(t)
        \/ Running(b) /\ batch'[b] = Idle

KeyFreedWhenDone == [][FreesWhatIsDone]_vars

\* A batch crawls pinned targets with the account they are pinned to, and no
\* other (a group is crawled by a member): grouping by key in the dispatcher,
\* acquire_specific in the worker.
PinnedOnOwnAccount ==
    \A b \in Batch : Running(b) =>
        \A t \in batch[b].targets : Pin[t] \in {NoKey, batch[b].account}

\* An account in use by one batch is given to a second one only a cooldown
\* after the first batch took it, or after an operator's release_checkpoint.
\* With a cooldown above the time limit, two batches share an account only in
\* the second case.
SpacedStart ==
    \A b, c \in Batch :
        /\ batch[b].phase = "queued" /\ Running(b)'
        /\ Running(c) /\ batch[c].account = batch[b].account'
        => \/ batch[c].clock >= Cooldown
           \/ fb_accounts[batch[c].account].last_used = Never

AcquireSpacing == [][SpacedStart]_vars

\* A key is never kept for ever: a crash of the dispatcher or a kill of a
\* worker delays a target, it does not lose it.
KeyEventuallyFreed == \A t \in Target : Held(t) ~> ~Held(t)

\* A row left "running" by a killed child becomes due again and free, or is
\* given its outcome, or is deleted.
RunningRecovers ==
    \A t \in Target : crawl_targets[t].last_status = "running" ~>
        \/ crawl_targets[t].last_status # "running"
        \/ ~Exists(t)
        \/ t \in DueTargets /\ ~Held(t)
        \/ crawl_targets[t].state = "disabled" /\ ~Held(t)

-----------------------------------------------------------------------------
(* The abstract specification *)

\* Who has target t to crawl.
HoldersOf(t) == (IF t \in dispatch.taken THEN {NoTarget} ELSE {}) \union {b \in Batch : t \in batch[b].todo}

Lease == INSTANCE CrawlLease WITH
    Holder <- Batch \union {NoTarget}, Dispatcher <- NoTarget,
    left <- inflight, holders <- [t \in Target |-> HoldersOf(t)], lost <- Lost

\* Redis keys, messages, batches and their many ways to end come to leases that one
\* holder has at a time, or that were lost by time or by another batch's deletion.
ImplementsLease == Lease!LeaseSpec

-----------------------------------------------------------------------------
(* What the documentation says and the code does not do *)

\* AccountPool: "a CHECKPOINT account stays isolated until release_checkpoint()
\* is called by an operator".
CheckpointIsolated ==
    [][\A a \in Account :
          fb_accounts[a].status = "CHECKPOINT" /\ fb_accounts[a].status' = "LIVE"
          => ReleaseCheckpoint(a)]_vars
=============================================================================
