------------------------------ MODULE FbCrawlProofs ------------------------------
(***************************************************************************)
(* Theorems about FbCrawl, for every set of targets, accounts and batches  *)
(* and every value of the durations and sizes.                             *)
(***************************************************************************)
EXTENDS FbCrawl, TLAPS

LEMMA TtlType == Ttl \in Nat /\ Ttl >= MinLockTtl /\ Ttl > 0
  BY CrawlIntervalAssumption, TimeAssumption DEF Ttl

(***************************************************************************)
(* Type correctness                                                        *)
(***************************************************************************)

LEMMA RowsType ==
  ASSUME TargetTypeOK, NEW t \in Target
  PROVE  /\ MarkRunning(t) => TargetTypeOK'
         /\ MarkSuccess(t) => TargetTypeOK'
         /\ MarkFailed(t) => TargetTypeOK'
         /\ MarkSynced(t) => TargetTypeOK'
         /\ DisableDuplicate(t) => TargetTypeOK'
         /\ DeleteRow(t) => TargetTypeOK'
         /\ TargetTick => TargetTypeOK'
  <1>1. ASSUME NEW row \in TargetRow, UpdateRow(t, row) PROVE TargetTypeOK'
    BY <1>1 DEF UpdateRow, TargetTypeOK
  <1>2. crawl_targets[t] \in TargetRow /\ 0 \in 0..CrawlInterval
    BY CrawlIntervalAssumption DEF TargetTypeOK
  <1>3. MarkRunning(t) => TargetTypeOK'
    <2>1. [crawl_targets[t] EXCEPT !.last_status = "running"] \in TargetRow
      BY <1>2 DEF TargetRow, RowStatus
    <2>2. QED
      BY <1>1, <2>1 DEF MarkRunning
  <1>4. MarkSuccess(t) \/ MarkSynced(t) => TargetTypeOK'
    <2>1. [crawl_targets[t] EXCEPT !.last_status = "ok", !.age = 0] \in TargetRow
      BY <1>2 DEF TargetRow, RowStatus
    <2>2. QED
      BY <1>1, <2>1 DEF MarkSuccess, MarkSynced
  <1>5. MarkFailed(t) => TargetTypeOK'
    <2>1. [crawl_targets[t] EXCEPT !.last_status = "not_ok", !.age = 0] \in TargetRow
      BY <1>2 DEF TargetRow, RowStatus
    <2>2. QED
      BY <1>1, <2>1 DEF MarkFailed
  <1>6. DisableDuplicate(t) => TargetTypeOK'
    <2>1. [crawl_targets[t] EXCEPT !.state = "disabled"] \in TargetRow
      BY <1>2 DEF TargetRow, RowState
    <2>2. QED
      BY <1>1, <2>1 DEF DisableDuplicate
  <1>7. DeleteRow(t) => TargetTypeOK'
    <2>1. [crawl_targets[t] EXCEPT !.state = "deleted"] \in TargetRow
      BY <1>2 DEF TargetRow, RowState
    <2>2. QED
      BY <1>1, <2>1 DEF DeleteRow
  <1>8. TargetTick => TargetTypeOK'
    BY CrawlIntervalAssumption DEF TargetTick, TargetTypeOK, TargetRow
  <1>9. QED
    BY <1>3, <1>4, <1>5, <1>6, <1>7, <1>8

LEMMA PoolType ==
  ASSUME AccountTypeOK, NEW a \in Account
  PROVE  /\ Acquire(a) => AccountTypeOK'
         /\ \A success \in BOOLEAN : Release(a, success) => AccountTypeOK'
         /\ ReleaseCheckpoint(a) => AccountTypeOK'
         /\ UpdateSession(a) => AccountTypeOK'
         /\ ImportSession(a) => AccountTypeOK'
         /\ AccountTick => AccountTypeOK'
  <1> DEFINE Used == (0..Cooldown) \union {Never}
  <1>1. 0 \in Used /\ Never \in Used
    BY CooldownAssumption
  <1>2. \A u \in Used : (IF u \in 0..(Cooldown - 1) THEN u + 1 ELSE u) \in Used
    BY CooldownAssumption, NeverAssumption
  <1>3. AccountRow = [status: {"LIVE", "CHECKPOINT"}, session: BOOLEAN, last_used: Used]
    BY DEF AccountRow
  <1> HIDE DEF Used
  <1>4. Acquire(a) => AccountTypeOK'
    BY <1>1, <1>3 DEF Acquire, AccountTypeOK
  <1>5. \A success \in BOOLEAN : Release(a, success) => AccountTypeOK'
    BY <1>3 DEF Release, AccountTypeOK
  <1>6. ReleaseCheckpoint(a) => AccountTypeOK'
    BY <1>1, <1>3 DEF ReleaseCheckpoint, AccountTypeOK
  <1>7. UpdateSession(a) => AccountTypeOK'
    <2>1. ASSUME UpdateSession(a) PROVE fb_accounts' \in [Account -> AccountRow]
      <3>1. fb_accounts' = [fb_accounts EXCEPT ![a] =
                              [fb_accounts[a] EXCEPT !.status = "LIVE", !.session = TRUE]]
        BY <2>1 DEF UpdateSession, AccountTypeOK
      <3>2. fb_accounts[a] \in AccountRow
        BY DEF AccountTypeOK
      <3>3. [fb_accounts[a] EXCEPT !.status = "LIVE", !.session = TRUE] \in AccountRow
        BY <1>3, <3>2
      <3>4. QED
        BY <3>1, <3>3 DEF AccountTypeOK
    <2>2. QED
      BY <2>1 DEF AccountTypeOK
  <1>8. ImportSession(a) => AccountTypeOK'
    BY <1>3 DEF ImportSession, AccountTypeOK
  <1>9. AccountTick => AccountTypeOK'
    BY <1>2, <1>3 DEF AccountTick, AccountTypeOK
  <1>10. QED
    BY <1>4, <1>5, <1>6, <1>7, <1>8, <1>9

\* What a batch record satisfies beyond its type: its clock is within bounds,
\* it has an account while it runs, and todo and cur follow the loop.
RecordOK(r) ==
    /\ r \in BatchRecord
    /\ IF r.phase \notin {"free", "queued"}
       THEN r.account \in Account /\ r.clock <= HardLimit
       ELSE r.clock <= MaxQueueWait
    /\ r.todo \subseteq r.targets
    /\ r.phase = "queued" => r.todo = r.targets
    /\ r.phase \in {"free", "closing"} => r.todo = {}
    /\ r.phase \in {"crawling", "synced", "refreshing"} => r.cur \in r.todo

BatchesOK == batch \in [Batch -> BatchRecord] /\ \A b \in Batch : RecordOK(batch[b])

DispatchOK == dispatch \in Dispatch /\ (~dispatch.active => dispatch.due = {} /\ dispatch.taken = {})

\* The inductive invariant behind type correctness.
TypeInv ==
    /\ TargetTypeOK
    /\ AccountTypeOK
    /\ inflight \in [Target -> 0..Ttl]
    /\ DispatchOK
    /\ BatchesOK
    /\ expired \subseteq Target
    /\ stolen \subseteq Target

LEMMA TypeInvImpliesTypeOK == TypeInv => TypeOK
  BY DEF TypeInv, TypeOK, DispatchOK, BatchesOK, RecordOK, Running

\* A step that gives one batch a new record.
LEMMA OneBatch ==
  ASSUME BatchesOK, NEW b \in Batch, NEW r, RecordOK(r), batch' = [batch EXCEPT ![b] = r]
  PROVE  BatchesOK'
  BY DEF BatchesOK, RecordOK

LEMMA IdleOK == RecordOK(Idle)
  BY TimeAssumption DEF RecordOK, Idle, BatchRecord, Phase

LEMMA UnlockType ==
  ASSUME inflight \in [Target -> 0..Ttl], NEW S, Unlock(S)
  PROVE  inflight' \in [Target -> 0..Ttl]
  BY TtlType DEF Unlock

LEMMA InitType == Init => TypeInv
  <1> SUFFICES ASSUME Init PROVE TypeInv
    OBVIOUS
  <1>1. TargetTypeOK
    <2>1. CrawlInterval \in 0..CrawlInterval
      BY CrawlIntervalAssumption
    <2>2. QED
      BY <2>1 DEF Init, TargetInit, TargetTypeOK, TargetRow, RowState, RowStatus
  <1>2. AccountTypeOK
    BY DEF Init, AccountInit, AccountTypeOK, AccountRow
  <1>3. inflight \in [Target -> 0..Ttl]
    BY TtlType DEF Init
  <1>4. DispatchOK
    BY DEF Init, NoDispatch, Dispatch, DispatchOK
  <1>5. BatchesOK
    BY IdleOK DEF Init, BatchesOK, RecordOK
  <1>6. QED
    BY <1>1, <1>2, <1>3, <1>4, <1>5 DEF Init, TypeInv

LEMMA DispatcherType ==
  ASSUME TypeInv, Dispatcher \/ DispatchCrash
  PROVE  TypeInv'
  <1> USE DEF TypeInv
  <1>1. CASE ReadDue
    <2>1. DispatchOK'
      BY <1>1 DEF ReadDue, DispatchOK, Dispatch, DueTargets
    <2>2. QED
      BY <1>1, <2>1 DEF ReadDue, history, BatchesOK, TargetTypeOK, AccountTypeOK
  <1>2. ASSUME NEW t \in Target, TryLock(t) PROVE TypeInv'
    <2>1. DispatchOK'
      <3>1. dispatch.active /\ dispatch \in Dispatch /\ dispatch.taken \union {t} \in SUBSET Target
        BY <1>2 DEF TryLock, DispatchOK, Dispatch
      <3>2. \/ dispatch' = [dispatch EXCEPT !.due = @ \ {t}]
            \/ dispatch' = [dispatch EXCEPT !.due = @ \ {t}, !.taken = @ \union {t}]
        BY <1>2 DEF TryLock
      <3>3. QED
        BY <3>1, <3>2 DEF DispatchOK, Dispatch
    <2>2. inflight' \in [Target -> 0..Ttl]
      BY <1>2, TtlType DEF TryLock
    <2>3. QED
      BY <1>2, <2>1, <2>2 DEF TryLock, history, BatchesOK, TargetTypeOK, AccountTypeOK
  <1>3. ASSUME NEW b \in Batch, NEW chunk \in SUBSET Target, Publish(b, chunk) PROVE TypeInv'
    <2> DEFINE r == [Idle EXCEPT !.phase = "queued", !.targets = chunk, !.todo = chunk]
    <2>1. r \in BatchRecord
      BY DEF Idle, BatchRecord, Phase
    <2>2. r.phase = "queued" /\ r.todo = r.targets /\ r.clock = 0
      BY DEF Idle
    <2>3. RecordOK(r)
      BY <2>1, <2>2, TimeAssumption DEF RecordOK
    <2>4. BatchesOK'
      BY <1>3, <2>3, OneBatch DEF Publish
    <2>5. DispatchOK'
      <3>1. dispatch.active /\ dispatch \in Dispatch
        BY <1>3 DEF Publish, DispatchOK
      <3>2. dispatch' = [dispatch EXCEPT !.taken = @ \ chunk]
        BY <1>3 DEF Publish
      <3>3. QED
        BY <3>1, <3>2 DEF DispatchOK, Dispatch
    <2>6. QED
      BY <1>3, <2>4, <2>5 DEF Publish, history, TargetTypeOK, AccountTypeOK
  <1>4. CASE EndDispatch \/ DispatchCrash
    <2>1. DispatchOK'
      <3>1. dispatch' = NoDispatch
        BY <1>4 DEF EndDispatch, DispatchCrash
      <3>2. QED
        BY <3>1 DEF DispatchOK, Dispatch, NoDispatch
    <2>2. QED
      BY <1>4, <2>1
      DEF EndDispatch, DispatchCrash, history, BatchesOK, TargetTypeOK, AccountTypeOK
  <1>5. QED
    BY <1>1, <1>2, <1>3, <1>4 DEF Dispatcher

\* The iteration of batch b leaves its target.
LEMMA LeaveTargetType ==
  ASSUME BatchesOK, inflight \in [Target -> 0..Ttl], NEW b \in Batch,
         batch[b].phase \in {"crawling", "synced", "refreshing"}, LeaveTarget(b)
  PROVE  BatchesOK' /\ inflight' \in [Target -> 0..Ttl]
  <1> DEFINE r == [batch[b] EXCEPT !.phase = "next", !.cur = NoTarget,
                                !.todo = batch[b].todo \ {batch[b].cur}]
  <1>1. RecordOK(batch[b])
    BY DEF BatchesOK
  <1>2. r \in BatchRecord /\ r.phase = "next" /\ r.todo = batch[b].todo \ {batch[b].cur}
        /\ r.targets = batch[b].targets /\ r.clock = batch[b].clock
        /\ r.account = batch[b].account
    BY <1>1 DEF RecordOK, BatchRecord, Phase
  <1>3. RecordOK(r)
    BY <1>1, <1>2 DEF RecordOK
  <1>4. batch' = [batch EXCEPT ![b] = r] /\ Unlock({batch[b].cur})
    BY DEF LeaveTarget
  <1> HIDE DEF r
  <1>5. BatchesOK'
    BY <1>3, <1>4, OneBatch
  <1>6. QED
    BY <1>4, <1>5, UnlockType

LEMMA CurType ==
  ASSUME BatchesOK, NEW b \in Batch, batch[b].phase \in {"crawling", "synced", "refreshing"}
  PROVE  batch[b].cur \in Target /\ batch[b].cur \in batch[b].todo /\ batch[b].account \in Account
  BY DEF BatchesOK, RecordOK, BatchRecord

\* Starting and dropping a batch.
LEMMA StartType ==
  ASSUME TypeInv, NEW b \in Batch, Start(b) \/ Drop(b)
  PROVE  TypeInv'
  <1> USE DEF TypeInv
  <1>1. RecordOK(batch[b])
    BY DEF BatchesOK
  <1>2. CASE Start(b)
    <2>1. PICK a \in Account : /\ Acquire(a)
                               /\ batch' = [batch EXCEPT ![b] =
                                    [@ EXCEPT !.phase = "next", !.account = a, !.clock = 0]]
      BY <1>2 DEF Start
    <2> DEFINE r == [batch[b] EXCEPT !.phase = "next", !.account = a, !.clock = 0]
    <2>2. r \in BatchRecord /\ r.phase = "next" /\ r.account = a /\ r.clock = 0
          /\ r.todo = batch[b].todo /\ r.targets = batch[b].targets
      BY <1>1 DEF RecordOK, BatchRecord, Phase
    <2>3. RecordOK(r)
      BY <1>1, <2>2, TimeAssumption DEF RecordOK
    <2>4. batch' = [batch EXCEPT ![b] = r]
      BY <2>1
    <2> HIDE DEF r
    <2>5. BatchesOK'
      BY <2>3, <2>4, OneBatch
    <2>6. AccountTypeOK'
      BY <2>1, PoolType
    <2>7. QED
      BY <1>2, <2>5, <2>6 DEF Start, history, TargetTypeOK, DispatchOK
  <1>3. CASE Drop(b)
    <2>1. BatchesOK'
      BY <1>3, IdleOK, OneBatch DEF Drop
    <2>2. inflight' \in [Target -> 0..Ttl]
      BY <1>3, UnlockType DEF Drop
    <2>3. QED
      BY <1>3, <2>1, <2>2 DEF Drop, history, TargetTypeOK, AccountTypeOK, DispatchOK
  <1>4. QED
    BY <1>2, <1>3

\* The steps that end an iteration.
LEMMA LeavingType ==
  ASSUME TypeInv, NEW b \in Batch,
         Succeed(b) \/ FailTarget(b) \/ TargetTimeout(b) \/ RefreshOk(b)
  PROVE  TypeInv'
  <1> USE DEF TypeInv
  <1>1. batch[b].phase \in {"crawling", "synced", "refreshing"} /\ LeaveTarget(b)
    BY DEF Succeed, FailTarget, TargetTimeout, RefreshOk
  <1>2. batch[b].cur \in Target /\ batch[b].account \in Account
    BY <1>1, CurType
  <1>3. BatchesOK' /\ inflight' \in [Target -> 0..Ttl]
    BY <1>1, LeaveTargetType
  <1>4. TargetTypeOK'
    BY <1>2, RowsType DEF Succeed, FailTarget, TargetTimeout, RefreshOk
  <1>5. AccountTypeOK'
    <2>1. UpdateSession(batch[b].account) \/ UNCHANGED fb_accounts
      BY DEF Succeed, FailTarget, TargetTimeout, RefreshOk
    <2>2. QED
      BY <1>2, <2>1, PoolType DEF AccountTypeOK
  <1>6. DispatchOK' /\ UNCHANGED history
    BY <1>1 DEF LeaveTarget, DispatchOK
  <1>7. QED
    BY <1>3, <1>4, <1>5, <1>6 DEF history

\* The steps that only cross targets off the list.
LEMMA CrossOffType ==
  ASSUME TypeInv, NEW b \in Batch, NEW t \in Target,
         BudgetSkip(b, t) \/ SkipMissing(b, t) \/ IsolateOne(b, t)
  PROVE  TypeInv'
  <1> USE DEF TypeInv
  <1> DEFINE r == [batch[b] EXCEPT !.todo = batch[b].todo \ {t}]
  <1>1. RecordOK(batch[b]) /\ batch[b].phase \in {"next", "isolating"}
    BY DEF BatchesOK, BudgetSkip, SkipMissing, IsolateOne
  <1>2. r \in BatchRecord /\ r.todo = batch[b].todo \ {t} /\ r.phase = batch[b].phase
        /\ r.targets = batch[b].targets /\ r.clock = batch[b].clock
        /\ r.account = batch[b].account
    BY <1>1 DEF RecordOK, BatchRecord
  <1>3. RecordOK(r)
    BY <1>1, <1>2 DEF RecordOK
  <1>4. batch' = [batch EXCEPT ![b] = r]
    BY DEF BudgetSkip, SkipMissing, IsolateOne
  <1> HIDE DEF r
  <1>5. BatchesOK'
    BY <1>3, <1>4, OneBatch
  <1>6. inflight' \in [Target -> 0..Ttl]
    <2>1. Unlock({t}) \/ UNCHANGED inflight
      BY DEF BudgetSkip, SkipMissing, IsolateOne
    <2>2. QED
      BY <2>1, UnlockType
  <1>7. TargetTypeOK'
    <2>1. MarkFailed(t) \/ UNCHANGED crawl_targets
      BY DEF BudgetSkip, SkipMissing, IsolateOne
    <2>2. QED
      BY <2>1, RowsType DEF TargetTypeOK
  <1>8. QED
    BY <1>5, <1>6, <1>7
    DEF BudgetSkip, SkipMissing, IsolateOne, history, AccountTypeOK, DispatchOK

\* The steps that move a batch to another phase with its list untouched.
LEMMA PhaseType ==
  ASSUME TypeInv, NEW b \in Batch,
         \/ \E t \in Target : BeginTarget(b, t)
         \/ DuplicateFound(b) \/ Synced(b) \/ SessionExpired(b) \/ DeadAccount(b)
         \/ FinishIsolation(b) \/ Finish(b)
  PROVE  TypeInv'
  <1> USE DEF TypeInv
  <1>1. RecordOK(batch[b])
    BY DEF BatchesOK
  <1>2. ASSUME NEW r \in BatchRecord, r.todo = batch[b].todo, r.targets = batch[b].targets,
               r.account = batch[b].account, r.clock = batch[b].clock,
               r.phase \notin {"free", "queued"}, batch[b].phase \notin {"free", "queued"},
               r.phase = "closing" => r.todo = {},
               r.phase \in {"crawling", "synced", "refreshing"} => r.cur \in r.todo,
               batch' = [batch EXCEPT ![b] = r]
        PROVE  BatchesOK'
    <2>1. RecordOK(r)
      BY <1>1, <1>2 DEF RecordOK
    <2>2. QED
      BY <1>2, <2>1, OneBatch
  <1>3. ASSUME NEW t \in Target, BeginTarget(b, t) PROVE TypeInv'
    <2> DEFINE r == [batch[b] EXCEPT !.phase = "crawling", !.cur = t]
    <2>1. r \in BatchRecord /\ r.phase = "crawling" /\ r.cur = t /\ r.todo = batch[b].todo
          /\ r.targets = batch[b].targets /\ r.account = batch[b].account
          /\ r.clock = batch[b].clock
      BY <1>1 DEF RecordOK, BatchRecord, Phase
    <2>2. batch' = [batch EXCEPT ![b] = r] /\ t \in batch[b].todo /\ batch[b].phase = "next"
      BY <1>3 DEF BeginTarget
    <2> HIDE DEF r
    <2>3. BatchesOK'
      BY <1>2, <2>1, <2>2
    <2>4. TargetTypeOK'
      BY <1>3, RowsType DEF BeginTarget
    <2>5. QED
      BY <1>3, <2>3, <2>4 DEF BeginTarget, history, AccountTypeOK, DispatchOK
  <1>4. CASE DuplicateFound(b)
    <2>1. TargetTypeOK'
      BY <1>4, CurType, RowsType DEF DuplicateFound
    <2>2. QED
      BY <1>4, <2>1 DEF DuplicateFound, history, AccountTypeOK, DispatchOK, BatchesOK
  <1>5. CASE Synced(b)
    <2> DEFINE r == [batch[b] EXCEPT !.phase = "synced"]
    <2>1. r \in BatchRecord /\ r.phase = "synced" /\ r.cur = batch[b].cur
          /\ r.todo = batch[b].todo /\ r.targets = batch[b].targets
          /\ r.account = batch[b].account /\ r.clock = batch[b].clock
      BY <1>1 DEF RecordOK, BatchRecord, Phase
    <2>2. batch' = [batch EXCEPT ![b] = r] /\ batch[b].phase = "crawling"
      BY <1>5 DEF Synced
    <2> HIDE DEF r
    <2>3. BatchesOK'
      BY <1>2, <2>1, <2>2, CurType
    <2>4. TargetTypeOK'
      BY <1>5, CurType, RowsType DEF Synced
    <2>5. QED
      BY <1>5, <2>3, <2>4 DEF Synced, history, AccountTypeOK, DispatchOK
  <1>6. CASE SessionExpired(b)
    <2>1. CASE batch[b].account \in HasPassword /\ ~batch[b].refreshed
      <3> DEFINE r == [batch[b] EXCEPT !.phase = "refreshing", !.refreshed = TRUE]
      <3>1. r \in BatchRecord /\ r.phase = "refreshing" /\ r.cur = batch[b].cur
            /\ r.todo = batch[b].todo /\ r.targets = batch[b].targets
            /\ r.account = batch[b].account /\ r.clock = batch[b].clock
        BY <1>1 DEF RecordOK, BatchRecord, Phase
      <3>2. batch' = [batch EXCEPT ![b] = r] /\ batch[b].phase = "synced"
        BY <1>6, <2>1 DEF SessionExpired
      <3> HIDE DEF r
      <3>3. BatchesOK'
        BY <1>2, <3>1, <3>2, CurType
      <3>4. QED
        BY <1>6, <2>1, <3>3
        DEF SessionExpired, history, TargetTypeOK, AccountTypeOK, DispatchOK
    <2>2. CASE ~(batch[b].account \in HasPassword /\ ~batch[b].refreshed)
      <3>1. MarkFailed(batch[b].cur) /\ LeaveTarget(b) /\ batch[b].phase = "synced"
            /\ UNCHANGED fb_accounts
        BY <1>6, <2>2 DEF SessionExpired
      <3>2. BatchesOK' /\ inflight' \in [Target -> 0..Ttl]
        BY <3>1, LeaveTargetType
      <3>3. TargetTypeOK'
        BY <3>1, CurType, RowsType
      <3>4. QED
        BY <3>1, <3>2, <3>3 DEF LeaveTarget, history, AccountTypeOK, DispatchOK
    <2>3. QED
      BY <2>1, <2>2
  <1>7. CASE DeadAccount(b)
    <2> DEFINE r == [batch[b] EXCEPT !.phase = "isolating", !.checkpointed = TRUE]
    <2>1. r \in BatchRecord /\ r.phase = "isolating"
          /\ r.todo = batch[b].todo /\ r.targets = batch[b].targets
          /\ r.account = batch[b].account /\ r.clock = batch[b].clock
      BY <1>1 DEF RecordOK, BatchRecord, Phase
    <2>2. batch' = [batch EXCEPT ![b] = r] /\ batch[b].phase \in {"crawling", "refreshing"}
      BY <1>7 DEF DeadAccount
    <2> HIDE DEF r
    <2>3. BatchesOK'
      BY <1>2, <2>1, <2>2
    <2>4. QED
      BY <1>7, <2>3 DEF DeadAccount, history, TargetTypeOK, AccountTypeOK, DispatchOK
  <1>8. CASE FinishIsolation(b)
    <2> DEFINE r == [batch[b] EXCEPT !.phase = "closing", !.cur = NoTarget]
    <2>1. r \in BatchRecord /\ r.phase = "closing"
          /\ r.todo = batch[b].todo /\ r.targets = batch[b].targets
          /\ r.account = batch[b].account /\ r.clock = batch[b].clock
      BY <1>1 DEF RecordOK, BatchRecord, Phase
    <2>2. batch' = [batch EXCEPT ![b] = r] /\ batch[b].phase = "isolating" /\ batch[b].todo = {}
      BY <1>8 DEF FinishIsolation
    <2> HIDE DEF r
    <2>3. BatchesOK'
      BY <1>2, <2>1, <2>2
    <2>4. inflight' \in [Target -> 0..Ttl]
      BY <1>8, UnlockType DEF FinishIsolation
    <2>5. stolen' \subseteq Target
      BY <1>8, <1>1 DEF FinishIsolation, Foreign, DispatchOK, Dispatch, BatchesOK, RecordOK,
                        BatchRecord
    <2>6. QED
      BY <1>8, <2>3, <2>4, <2>5
      DEF FinishIsolation, history, TargetTypeOK, AccountTypeOK, DispatchOK
  <1>9. CASE Finish(b)
    <2> DEFINE r == [batch[b] EXCEPT !.phase = "closing"]
    <2>1. r \in BatchRecord /\ r.phase = "closing"
          /\ r.todo = batch[b].todo /\ r.targets = batch[b].targets
          /\ r.account = batch[b].account /\ r.clock = batch[b].clock
      BY <1>1 DEF RecordOK, BatchRecord, Phase
    <2>2. batch' = [batch EXCEPT ![b] = r] /\ batch[b].phase = "next" /\ batch[b].todo = {}
      BY <1>9 DEF Finish
    <2> HIDE DEF r
    <2>3. BatchesOK'
      BY <1>2, <2>1, <2>2
    <2>4. QED
      BY <1>9, <2>3 DEF Finish, history, TargetTypeOK, AccountTypeOK, DispatchOK
  <1>10. QED
    BY <1>3, <1>4, <1>5, <1>6, <1>7, <1>8, <1>9

\* The steps that end a batch.
LEMMA EndType ==
  ASSUME TypeInv, NEW b \in Batch,
         BatchError(b) \/ ReleaseAccount(b) \/ HardKill(b) \/ WorkerCrash(b)
  PROVE  TypeInv'
  <1> USE DEF TypeInv
  <1>1. RecordOK(batch[b])
    BY DEF BatchesOK
  <1>2. CASE BatchError(b)
    <2> DEFINE r == [batch[b] EXCEPT !.phase = "closing", !.cur = NoTarget,
                                     !.todo = {}, !.checkpointed = TRUE]
    <2>1. r \in BatchRecord /\ r.phase = "closing" /\ r.todo = {}
          /\ r.targets = batch[b].targets /\ r.account = batch[b].account
          /\ r.clock = batch[b].clock
      BY <1>1 DEF RecordOK, BatchRecord, Phase
    <2>2. batch' = [batch EXCEPT ![b] = r] /\ batch[b].phase \notin {"free", "queued"}
      BY <1>2 DEF BatchError
    <2>3. RecordOK(r)
      BY <1>1, <2>1, <2>2 DEF RecordOK
    <2> HIDE DEF r
    <2>4. BatchesOK'
      BY <2>2, <2>3, OneBatch
    <2>5. inflight' \in [Target -> 0..Ttl]
      BY <1>2, UnlockType DEF BatchError
    <2>6. stolen' \subseteq Target
      BY <1>1, <1>2 DEF BatchError, Foreign, RecordOK, BatchRecord
    <2>7. QED
      BY <1>2, <2>4, <2>5, <2>6 DEF BatchError, history, TargetTypeOK, AccountTypeOK, DispatchOK
  <1>3. CASE ReleaseAccount(b) \/ HardKill(b) \/ WorkerCrash(b)
    <2>1. BatchesOK'
      BY <1>3, IdleOK, OneBatch DEF ReleaseAccount, HardKill, WorkerCrash
    <2>2. AccountTypeOK'
      <3>1. CASE ReleaseAccount(b)
        <4>1. batch[b].account \in Account /\ (~batch[b].checkpointed) \in BOOLEAN
          BY <3>1, <1>1 DEF ReleaseAccount, RecordOK
        <4>2. QED
          BY <3>1, <4>1, PoolType DEF ReleaseAccount
      <3>2. CASE HardKill(b) \/ WorkerCrash(b)
        BY <3>2 DEF HardKill, WorkerCrash, AccountTypeOK
      <3>3. QED
        BY <1>3, <3>1, <3>2
    <2>3. QED
      BY <1>3, <2>1, <2>2
      DEF ReleaseAccount, HardKill, WorkerCrash, history, TargetTypeOK, DispatchOK
  <1>4. QED
    BY <1>2, <1>3

LEMMA EnvironmentType ==
  ASSUME TypeInv, Environment
  PROVE  TypeInv'
  <1> USE DEF TypeInv
  <1>1. CASE DispatchCrash
    BY <1>1, DispatcherType
  <1>2. ASSUME NEW a \in Account, OperatorRelease(a) \/ OperatorImport(a) PROVE TypeInv'
    <2>1. AccountTypeOK'
      BY <1>2, PoolType DEF OperatorRelease, OperatorImport
    <2>2. QED
      BY <1>2, <2>1
      DEF OperatorRelease, OperatorImport, history, TargetTypeOK, DispatchOK, BatchesOK
  <1>3. ASSUME NEW t \in Target, DeleteSource(t) PROVE TypeInv'
    <2>1. TargetTypeOK'
      BY <1>3, RowsType DEF DeleteSource
    <2>2. QED
      BY <1>3, <2>1 DEF DeleteSource, history, AccountTypeOK, DispatchOK, BatchesOK
  <1>4. QED
    BY <1>1, <1>2, <1>3 DEF Environment

LEMMA TickType ==
  ASSUME TypeInv, Tick
  PROVE  TypeInv'
  <1> USE DEF TypeInv
  <1>1. inflight' \in [Target -> 0..Ttl]
    BY TtlType DEF Tick, Held
  <1>2. BatchesOK'
    <2>1. ASSUME NEW b \in Batch PROVE RecordOK(batch'[b]) /\ batch'[b] \in BatchRecord
      <3>1. RecordOK(batch[b])
        BY DEF BatchesOK
      <3>2. CASE batch[b].phase = "free"
        <4>1. batch'[b] = batch[b]
          BY <3>2 DEF Tick
        <4>2. QED
          BY <3>1, <4>1 DEF RecordOK
      <3>3. CASE batch[b].phase # "free"
        <4> DEFINE r == [batch[b] EXCEPT !.clock = batch[b].clock + 1]
        <4>1. batch[b].clock \in Nat /\ HardLimit \in Nat /\ MaxQueueWait \in Nat
          BY <3>1, TimeAssumption DEF RecordOK, BatchRecord
        <4>2. batch[b].clock + 1 \in Nat
          BY <4>1
        <4>3. r \in BatchRecord /\ r.clock = batch[b].clock + 1 /\ r.phase = batch[b].phase
              /\ r.todo = batch[b].todo /\ r.targets = batch[b].targets
              /\ r.account = batch[b].account /\ r.cur = batch[b].cur
          BY <3>1, <4>2 DEF RecordOK, BatchRecord
        <4>4. batch'[b] = r
          BY <3>3 DEF Tick
        <4>5. IF r.phase \notin {"free", "queued"} THEN r.clock <= HardLimit
              ELSE r.clock <= MaxQueueWait
          BY <3>3, <4>1, <4>3 DEF Tick, Running
        <4> HIDE DEF r
        <4>6. RecordOK(r)
          BY <3>1, <4>3, <4>5 DEF RecordOK
        <4>7. QED
          BY <4>4, <4>6 DEF RecordOK
      <3>4. QED
        BY <3>2, <3>3
    <2>2. batch' \in [Batch -> BatchRecord]
      <3>1. batch' = [b \in Batch |-> batch'[b]]
        BY DEF Tick
      <3>2. QED
        BY <2>1, <3>1
    <2>3. QED
      BY <2>1, <2>2 DEF BatchesOK
  <1>3. TargetTypeOK'
    <2>1. CASE Target = {}
      BY <2>1, RowsType DEF Tick, TargetTick, TargetTypeOK
    <2>2. CASE Target # {}
      BY <2>2, RowsType DEF Tick
    <2>3. QED
      BY <2>1, <2>2
  <1>4. AccountTypeOK'
    <2>1. CASE Account = {}
      BY <2>1 DEF Tick, AccountTick, AccountTypeOK
    <2>2. CASE Account # {}
      BY <2>2, PoolType DEF Tick
    <2>3. QED
      BY <2>1, <2>2
  <1>5. expired' \subseteq Target
    BY DEF Tick, ExpiringUnderBatch
  <1>6. QED
    BY <1>1, <1>2, <1>3, <1>4, <1>5 DEF Tick, DispatchOK

LEMMA TypeStep == TypeInv /\ [Next]_vars => TypeInv'
  <1> SUFFICES ASSUME TypeInv, [Next]_vars PROVE TypeInv'
    OBVIOUS
  <1>1. CASE Dispatcher
    BY <1>1, DispatcherType
  <1>2. ASSUME NEW b \in Batch, Worker(b) PROVE TypeInv'
    BY <1>2, StartType, LeavingType, CrossOffType, PhaseType, EndType
    DEF Worker, TaskStep, LoopStep
  <1>3. CASE Environment
    BY <1>3, EnvironmentType
  <1>4. CASE Tick
    BY <1>4, TickType
  <1>5. CASE UNCHANGED vars
    BY <1>5 DEF vars, history, TypeInv, TargetTypeOK, AccountTypeOK, DispatchOK, BatchesOK
  <1>6. QED
    BY <1>1, <1>2, <1>3, <1>4, <1>5 DEF Next

\* Every variable keeps its type, clocks stay within their limits, a running
\* batch has an account.
THEOREM TypeCorrect == Spec => []TypeOK
  <1>1. Init => TypeInv
    BY InitType
  <1>2. TypeInv /\ [Next]_vars => TypeInv'
    BY TypeStep
  <1>3. TypeInv => TypeOK
    BY TypeInvImpliesTypeOK
  <1>4. QED
    BY <1>1, <1>2, <1>3, PTL DEF Spec

(***************************************************************************)
(* The in-flight keys                                                      *)
(*                                                                         *)
(* Besides the key of every pending target being set, a target is pending  *)
(* in one place only: the dispatcher that took its key, or one batch.      *)
(* Without the second part the invariant is not inductive, because a batch *)
(* deletes keys without looking whose they are.                            *)
(***************************************************************************)
OwnInv ==
    /\ \A t \in dispatch.taken \ Lost : Held(t) /\ \A b \in Batch : t \notin batch[b].todo
    /\ \A b \in Batch : \A t \in batch[b].todo \ Lost :
          Held(t) /\ \A c \in Batch : t \in batch[c].todo => c = b

LEMMA OwnInvImplies == OwnInv => LeaseInv /\ ExclusiveCrawl
  BY DEF OwnInv, LeaseInv, ExclusiveCrawl

\* A step that takes nothing new and keeps the keys of what is pending.
LEMMA ShrinkOwn ==
  ASSUME OwnInv, Lost \subseteq Lost', dispatch'.taken \subseteq dispatch.taken,
         \A b \in Batch : batch'[b].todo \subseteq batch[b].todo,
         \A t \in dispatch'.taken \ Lost' : Held(t) => Held(t)',
         \A b \in Batch : \A t \in batch'[b].todo \ Lost' : Held(t) => Held(t)'
  PROVE  OwnInv'
  BY DEF OwnInv

\* A step of batch b that deletes the keys in S: what b had pending there is
\* done, and what somebody else has pending there is recorded as lost.
LEMMA UnlockOwn ==
  ASSUME TypeInv, OwnInv, NEW b \in Batch, NEW S, NEW r, Unlock(S),
         batch' = [batch EXCEPT ![b] = r], r.todo \subseteq batch[b].todo \ S,
         UNCHANGED dispatch, Lost \subseteq Lost',
         \A t \in S \ batch[b].todo :
            t \in dispatch.taken \/ (\E c \in Batch \ {b} : t \in batch[c].todo) => t \in Lost'
  PROVE  OwnInv'
  <1>1. batch'[b].todo \subseteq batch[b].todo \ S
        /\ \A c \in Batch \ {b} : batch'[c] = batch[c]
    BY DEF TypeInv, BatchesOK
  <1>2. \A t \in Target : t \notin S => (Held(t) <=> Held(t)')
    BY DEF Unlock, Held
  <1>3. ASSUME NEW t \in dispatch'.taken \ Lost', Held(t) PROVE Held(t)'
    <2>1. t \in dispatch.taken \ Lost /\ t \in Target
      BY DEF TypeInv, DispatchOK, Dispatch
    <2>2. t \notin batch[b].todo
      BY <2>1 DEF OwnInv
    <2>3. t \notin S
      BY <2>1, <2>2
    <2>4. QED
      BY <1>2, <1>3, <2>1, <2>3
  <1>4. ASSUME NEW c \in Batch, NEW t \in batch'[c].todo \ Lost', Held(t) PROVE Held(t)'
    <2>1. t \in batch[c].todo \ Lost /\ t \in Target
      BY <1>1 DEF TypeInv, BatchesOK, RecordOK, BatchRecord
    <2>2. t \notin S
      <3>1. CASE c = b
        BY <1>1, <3>1
      <3>2. CASE c # b
        <4>1. t \notin batch[b].todo
          BY <2>1, <3>2 DEF OwnInv
        <4>2. QED
          BY <2>1, <3>2, <4>1
      <3>3. QED
        BY <3>1, <3>2
    <2>3. QED
      BY <1>2, <1>4, <2>1, <2>2
  <1>5. dispatch'.taken \subseteq dispatch.taken
        /\ \A c \in Batch : batch'[c].todo \subseteq batch[c].todo
    BY <1>1
  <1>6. QED
    BY <1>3, <1>4, <1>5, ShrinkOwn

\* A step that only gives batch b a new record, with no more to do.
LEMMA QuietOwn ==
  ASSUME TypeInv, OwnInv, NEW b \in Batch, NEW r, batch' = [batch EXCEPT ![b] = r],
         r.todo \subseteq batch[b].todo, UNCHANGED <<inflight, dispatch, history>>
  PROVE  OwnInv'
  <1>1. batch'[b] = r /\ \A c \in Batch \ {b} : batch'[c] = batch[c]
    BY DEF TypeInv, BatchesOK
  <1>2. QED
    BY <1>1, ShrinkOwn DEF Lost, history, Held

LEMMA DispatcherOwn ==
  ASSUME TypeInv, OwnInv, Dispatcher \/ DispatchCrash
  PROVE  OwnInv'
  <1>1. CASE ReadDue
    BY <1>1, ShrinkOwn DEF ReadDue, Lost, history, Held
  <1>2. ASSUME NEW t \in Target, TryLock(t) PROVE OwnInv'
    <2>1. CASE Held(t)
      <3>1. dispatch'.taken = dispatch.taken
        BY <1>2, <2>1 DEF TryLock, TypeInv, DispatchOK, Dispatch
      <3>2. QED
        BY <1>2, <2>1, <3>1, ShrinkOwn DEF TryLock, Lost, history, Held
    <2>2. CASE ~Held(t)
      <3>1. dispatch'.taken = dispatch.taken \union {t} /\ inflight' = [inflight EXCEPT ![t] = Ttl]
        BY <1>2, <2>2 DEF TryLock, TypeInv, DispatchOK, Dispatch
      <3>2. Lost' = Lost /\ batch' = batch
        BY <1>2 DEF TryLock, Lost, history
      <3>3. \A u \in Target : Held(u) => Held(u)'
        BY <3>1, TtlType DEF Held, TypeInv
      <3>4. Held(t)'
        BY <3>1, TtlType DEF Held, TypeInv
      <3>5. t \notin Lost => \A b \in Batch : t \notin batch[b].todo
        BY <2>2 DEF OwnInv
      <3>6. ASSUME NEW u \in dispatch'.taken \ Lost'
            PROVE  Held(u)' /\ \A b \in Batch : u \notin batch'[b].todo
        <4>1. CASE u = t
          BY <4>1, <3>2, <3>4, <3>5, <3>6
        <4>2. CASE u # t
          <5>1. u \in dispatch.taken \ Lost /\ u \in Target
            BY <3>1, <3>2, <3>6, <4>2 DEF TypeInv, DispatchOK, Dispatch
          <5>2. QED
            BY <5>1, <3>2, <3>3 DEF OwnInv
        <4>3. QED
          BY <4>1, <4>2
      <3>7. ASSUME NEW b \in Batch, NEW u \in batch'[b].todo \ Lost'
            PROVE  Held(u)' /\ \A c \in Batch : u \in batch'[c].todo => c = b
        <4>1. u \in batch[b].todo \ Lost /\ u \in Target
          BY <3>2 DEF TypeInv, BatchesOK, RecordOK, BatchRecord
        <4>2. QED
          BY <4>1, <3>2, <3>3 DEF OwnInv
      <3>8. QED
        BY <3>6, <3>7 DEF OwnInv
    <2>3. QED
      BY <2>1, <2>2
  <1>3. ASSUME NEW b \in Batch, NEW chunk \in SUBSET Target, Publish(b, chunk) PROVE OwnInv'
    <2>1. chunk \subseteq dispatch.taken
      BY <1>3 DEF Publish, Group
    <2>2. dispatch'.taken = dispatch.taken \ chunk
      BY <1>3 DEF Publish, TypeInv, DispatchOK, Dispatch
    <2>3. batch'[b].todo = chunk /\ \A c \in Batch \ {b} : batch'[c] = batch[c]
      BY <1>3 DEF Publish, TypeInv, BatchesOK, Idle
    <2>4. batch[b].todo = {}
      BY <1>3 DEF Publish, TypeInv, BatchesOK, RecordOK
    <2>5. Lost' = Lost /\ \A u \in Target : Held(u) => Held(u)'
      BY <1>3 DEF Publish, Lost, history, Held
    <2>6. ASSUME NEW u \in dispatch'.taken \ Lost'
          PROVE  Held(u)' /\ \A c \in Batch : u \notin batch'[c].todo
      <3>1. u \in dispatch.taken \ Lost /\ u \notin chunk /\ u \in Target
        BY <2>2, <2>5 DEF TypeInv, DispatchOK, Dispatch
      <3>2. Held(u) /\ \A c \in Batch : u \notin batch[c].todo
        BY <3>1 DEF OwnInv
      <3>3. QED
        BY <2>3, <2>5, <3>1, <3>2
    <2>7. ASSUME NEW d \in Batch, NEW u \in batch'[d].todo \ Lost'
          PROVE  Held(u)' /\ \A c \in Batch : u \in batch'[c].todo => c = d
      <3>1. CASE d = b
        <4>1. u \in dispatch.taken \ Lost /\ u \in Target
          BY <2>1, <2>3, <2>5, <3>1
        <4>2. Held(u) /\ \A c \in Batch : u \notin batch[c].todo
          BY <4>1 DEF OwnInv
        <4>3. QED
          BY <2>3, <2>5, <3>1, <4>1, <4>2
      <3>2. CASE d # b
        <4>1. u \in batch[d].todo \ Lost /\ u \in Target
          BY <2>3, <2>5, <3>2 DEF TypeInv, BatchesOK, RecordOK, BatchRecord
        <4>2. Held(u) /\ u \notin dispatch.taken
              /\ \A c \in Batch : u \in batch[c].todo => c = d
          BY <4>1 DEF OwnInv
        <4>3. QED
          BY <2>1, <2>3, <2>5, <4>1, <4>2
      <3>3. QED
        BY <3>1, <3>2
    <2>8. QED
      BY <2>6, <2>7 DEF OwnInv
  <1>4. CASE EndDispatch \/ DispatchCrash
    <2>1. dispatch'.taken = {}
      BY <1>4 DEF EndDispatch, DispatchCrash, NoDispatch
    <2>2. UNCHANGED <<inflight, batch, history>>
      BY <1>4 DEF EndDispatch, DispatchCrash
    <2>3. QED
      BY <2>1, <2>2, ShrinkOwn DEF Lost, history, Held
  <1>5. QED
    BY <1>1, <1>2, <1>3, <1>4 DEF Dispatcher

LEMMA LeaveTargetOwn ==
  ASSUME TypeInv, OwnInv, NEW b \in Batch,
         batch[b].phase \in {"crawling", "synced", "refreshing"}, LeaveTarget(b)
  PROVE  OwnInv'
  <1> DEFINE r == [batch[b] EXCEPT !.phase = "next", !.cur = NoTarget,
                                   !.todo = batch[b].todo \ {batch[b].cur}]
  <1>1. r.todo = batch[b].todo \ {batch[b].cur} /\ batch[b].cur \in batch[b].todo
    BY CurType DEF TypeInv, BatchesOK, RecordOK, BatchRecord
  <1>2. batch' = [batch EXCEPT ![b] = r] /\ Unlock({batch[b].cur})
        /\ UNCHANGED dispatch /\ Lost' = Lost
    BY DEF LeaveTarget, Lost, history
  <1> HIDE DEF r
  <1>3. QED
    BY <1>1, <1>2, UnlockOwn

LEMMA WorkerOwn ==
  ASSUME TypeInv, OwnInv, NEW b \in Batch, Worker(b)
  PROVE  OwnInv'
  <1>1. RecordOK(batch[b]) /\ batch[b] \in BatchRecord
    BY DEF TypeInv, BatchesOK, RecordOK
  <1>2. CASE Start(b)
    <2>1. PICK a \in Account : batch' = [batch EXCEPT ![b] =
                                  [batch[b] EXCEPT !.phase = "next", !.account = a, !.clock = 0]]
      BY <1>2 DEF Start
    <2>2. [batch[b] EXCEPT !.phase = "next", !.account = a, !.clock = 0].todo = batch[b].todo
      BY <1>1 DEF BatchRecord
    <2>3. UNCHANGED <<inflight, dispatch, history>>
      BY <1>2 DEF Start
    <2>4. QED
      BY <2>1, <2>2, <2>3, QuietOwn
  <1>3. CASE Drop(b)
    <2>1. batch[b].todo = batch[b].targets /\ Idle.todo = {}
      BY <1>1, <1>3 DEF Drop, RecordOK, Idle
    <2>2. batch' = [batch EXCEPT ![b] = Idle] /\ Unlock(batch[b].targets)
          /\ UNCHANGED dispatch /\ Lost' = Lost
      BY <1>3 DEF Drop, Lost, history
    <2>3. QED
      BY <2>1, <2>2, UnlockOwn
  <1>4. ASSUME NEW t \in Target, BudgetSkip(b, t) \/ IsolateOne(b, t) PROVE OwnInv'
    <2> DEFINE r == [batch[b] EXCEPT !.todo = batch[b].todo \ {t}]
    <2>1. r.todo = batch[b].todo \ {t} /\ t \in batch[b].todo
      BY <1>1, <1>4 DEF BudgetSkip, IsolateOne, BatchRecord
    <2>2. batch' = [batch EXCEPT ![b] = r] /\ Unlock({t}) /\ UNCHANGED dispatch /\ Lost' = Lost
      BY <1>4 DEF BudgetSkip, IsolateOne, Lost, history
    <2> HIDE DEF r
    <2>3. QED
      BY <2>1, <2>2, UnlockOwn
  <1>5. ASSUME NEW t \in Target, SkipMissing(b, t) PROVE OwnInv'
    <2> DEFINE r == [batch[b] EXCEPT !.todo = batch[b].todo \ {t}]
    <2>1. r.todo \subseteq batch[b].todo
      BY <1>1 DEF BatchRecord
    <2>2. batch' = [batch EXCEPT ![b] = r] /\ UNCHANGED <<inflight, dispatch, history>>
      BY <1>5 DEF SkipMissing
    <2> HIDE DEF r
    <2>3. QED
      BY <2>1, <2>2, QuietOwn
  <1>6. ASSUME NEW t \in Target, BeginTarget(b, t) PROVE OwnInv'
    <2> DEFINE r == [batch[b] EXCEPT !.phase = "crawling", !.cur = t]
    <2>1. r.todo \subseteq batch[b].todo
      BY <1>1 DEF BatchRecord
    <2>2. batch' = [batch EXCEPT ![b] = r] /\ UNCHANGED <<inflight, dispatch, history>>
      BY <1>6 DEF BeginTarget
    <2> HIDE DEF r
    <2>3. QED
      BY <2>1, <2>2, QuietOwn
  <1>7. CASE DuplicateFound(b)
    BY <1>7, ShrinkOwn DEF DuplicateFound, Lost, history, Held
  <1>8. CASE Synced(b)
    <2> DEFINE r == [batch[b] EXCEPT !.phase = "synced"]
    <2>1. r.todo \subseteq batch[b].todo
      BY <1>1 DEF BatchRecord
    <2>2. batch' = [batch EXCEPT ![b] = r] /\ UNCHANGED <<inflight, dispatch, history>>
      BY <1>8 DEF Synced
    <2> HIDE DEF r
    <2>3. QED
      BY <2>1, <2>2, QuietOwn
  <1>9. CASE Succeed(b) \/ FailTarget(b) \/ TargetTimeout(b) \/ RefreshOk(b)
    <2>1. batch[b].phase \in {"crawling", "synced", "refreshing"} /\ LeaveTarget(b)
      BY <1>9 DEF Succeed, FailTarget, TargetTimeout, RefreshOk
    <2>2. QED
      BY <2>1, LeaveTargetOwn
  <1>10. CASE SessionExpired(b)
    <2>1. CASE batch[b].account \in HasPassword /\ ~batch[b].refreshed
      <3> DEFINE r == [batch[b] EXCEPT !.phase = "refreshing", !.refreshed = TRUE]
      <3>1. r.todo \subseteq batch[b].todo
        BY <1>1 DEF BatchRecord
      <3>2. batch' = [batch EXCEPT ![b] = r] /\ UNCHANGED <<inflight, dispatch, history>>
        BY <1>10, <2>1 DEF SessionExpired
      <3> HIDE DEF r
      <3>3. QED
        BY <3>1, <3>2, QuietOwn
    <2>2. CASE ~(batch[b].account \in HasPassword /\ ~batch[b].refreshed)
      <3>1. batch[b].phase \in {"crawling", "synced", "refreshing"} /\ LeaveTarget(b)
        BY <1>10, <2>2 DEF SessionExpired
      <3>2. QED
        BY <3>1, LeaveTargetOwn
    <2>3. QED
      BY <2>1, <2>2
  <1>11. CASE DeadAccount(b)
    <2> DEFINE r == [batch[b] EXCEPT !.phase = "isolating", !.checkpointed = TRUE]
    <2>1. r.todo \subseteq batch[b].todo
      BY <1>1 DEF BatchRecord
    <2>2. batch' = [batch EXCEPT ![b] = r] /\ UNCHANGED <<inflight, dispatch, history>>
      BY <1>11 DEF DeadAccount
    <2> HIDE DEF r
    <2>3. QED
      BY <2>1, <2>2, QuietOwn
  <1>12. CASE FinishIsolation(b)
    <2> DEFINE r == [batch[b] EXCEPT !.phase = "closing", !.cur = NoTarget]
    <2>1. r.todo = {} /\ batch[b].todo = {}
      BY <1>1, <1>12 DEF FinishIsolation, BatchRecord
    <2>2. batch' = [batch EXCEPT ![b] = r] /\ Unlock({batch[b].cur}) /\ UNCHANGED dispatch
          /\ Lost' = Lost \union Foreign(b, {batch[b].cur})
      BY <1>12 DEF FinishIsolation, Lost
    <2> HIDE DEF r
    <2>3. QED
      BY <2>1, <2>2, UnlockOwn DEF Foreign
  <1>13. CASE Finish(b)
    <2> DEFINE r == [batch[b] EXCEPT !.phase = "closing"]
    <2>1. r.todo \subseteq batch[b].todo
      BY <1>1 DEF BatchRecord
    <2>2. batch' = [batch EXCEPT ![b] = r] /\ UNCHANGED <<inflight, dispatch, history>>
      BY <1>13 DEF Finish
    <2> HIDE DEF r
    <2>3. QED
      BY <2>1, <2>2, QuietOwn
  <1>14. CASE BatchError(b)
    <2> DEFINE r == [batch[b] EXCEPT !.phase = "closing", !.cur = NoTarget,
                                     !.todo = {}, !.checkpointed = TRUE]
    <2>1. r.todo = {}
      BY <1>1 DEF BatchRecord
    <2>2. batch' = [batch EXCEPT ![b] = r] /\ Unlock(batch[b].targets) /\ UNCHANGED dispatch
          /\ Lost' = Lost \union Foreign(b, batch[b].targets \ batch[b].todo)
      BY <1>14 DEF BatchError, Lost
    <2> HIDE DEF r
    <2>3. QED
      BY <2>1, <2>2, UnlockOwn DEF Foreign
  <1>15. CASE ReleaseAccount(b) \/ HardKill(b) \/ WorkerCrash(b)
    <2>1. Idle.todo \subseteq batch[b].todo
      BY DEF Idle
    <2>2. batch' = [batch EXCEPT ![b] = Idle] /\ UNCHANGED <<inflight, dispatch, history>>
      BY <1>15 DEF ReleaseAccount, HardKill, WorkerCrash
    <2>3. QED
      BY <2>1, <2>2, QuietOwn
  <1>16. QED
    BY <1>2, <1>3, <1>4, <1>5, <1>6, <1>7, <1>8, <1>9, <1>10, <1>11, <1>12, <1>13, <1>14, <1>15
    DEF Worker, TaskStep, LoopStep

LEMMA TickOwn ==
  ASSUME TypeInv, OwnInv, Tick
  PROVE  OwnInv'
  <1>1. dispatch.taken = {} /\ dispatch' = dispatch
    BY DEF Tick, TypeInv, DispatchOK
  <1>2. \A b \in Batch : batch'[b].todo = batch[b].todo
    BY DEF Tick, TypeInv, BatchesOK, RecordOK, BatchRecord
  <1>3. ASSUME NEW b \in Batch, NEW t \in batch'[b].todo \ Lost', Held(t) PROVE Held(t)'
    <2>1. t \in batch[b].todo /\ t \in Target
      BY <1>2 DEF TypeInv, BatchesOK, RecordOK, BatchRecord
    <2>2. t \notin expired' /\ t \notin stolen
      BY DEF Lost, Tick
    <2>3. inflight[t] # 1
      BY <2>1, <2>2 DEF Tick, ExpiringUnderBatch
    <2>4. inflight[t] \in Nat /\ inflight'[t] = inflight[t] - 1
      BY <1>3, <2>1, TtlType DEF Tick, TypeInv
    <2>5. QED
      BY <1>3, <2>3, <2>4 DEF Held
  <1>4. Lost \subseteq Lost'
    BY DEF Tick, Lost
  <1>5. QED
    BY <1>1, <1>2, <1>3, <1>4, ShrinkOwn

LEMMA OwnStep == TypeInv /\ OwnInv /\ [Next]_vars => OwnInv'
  <1> SUFFICES ASSUME TypeInv, OwnInv, [Next]_vars PROVE OwnInv'
    OBVIOUS
  <1>1. CASE Dispatcher
    BY <1>1, DispatcherOwn
  <1>2. ASSUME NEW b \in Batch, Worker(b) PROVE OwnInv'
    BY <1>2, WorkerOwn
  <1>3. CASE Environment
    <2>1. CASE DispatchCrash
      BY <2>1, DispatcherOwn
    <2>2. CASE ~DispatchCrash
      <3>1. UNCHANGED <<inflight, dispatch, batch, history>>
        BY <1>3, <2>2 DEF Environment, OperatorRelease, OperatorImport, DeleteSource
      <3>2. QED
        BY <3>1, ShrinkOwn DEF Lost, history, Held
    <2>3. QED
      BY <2>1, <2>2
  <1>4. CASE Tick
    BY <1>4, TickOwn
  <1>5. CASE UNCHANGED vars
    BY <1>5, ShrinkOwn DEF vars, Lost, history, Held
  <1>6. QED
    BY <1>1, <1>2, <1>3, <1>4, <1>5 DEF Next

LEMMA InitOwn == Init => OwnInv
  BY DEF Init, OwnInv, NoDispatch, Idle

\* The key of every target a batch has yet to crawl is set, unless it ran out
\* or another batch deleted it.
THEOREM LeaseHeld == Spec => []LeaseInv
  <1>1. Init => TypeInv /\ OwnInv
    BY InitType, InitOwn
  <1>2. TypeInv /\ OwnInv /\ [Next]_vars => (TypeInv /\ OwnInv)'
    BY TypeStep, OwnStep
  <1>3. OwnInv => LeaseInv
    BY OwnInvImplies
  <1>4. QED
    BY <1>1, <1>2, <1>3, PTL DEF Spec

\* Two batches have the same target to crawl only after its key ran out or was
\* deleted by a batch that was done with it.
THEOREM CrawlExclusive == Spec => []ExclusiveCrawl
  <1>1. Init => TypeInv /\ OwnInv
    BY InitType, InitOwn
  <1>2. TypeInv /\ OwnInv /\ [Next]_vars => (TypeInv /\ OwnInv)'
    BY TypeStep, OwnStep
  <1>3. OwnInv => ExclusiveCrawl
    BY OwnInvImplies
  <1>4. QED
    BY <1>1, <1>2, <1>3, PTL DEF Spec

(***************************************************************************)
(* The TTL                                                                 *)
(*                                                                         *)
(* A pending key has lost no more of its TTL than its batch has spent in   *)
(* the queue and at work.                                                  *)
(***************************************************************************)
TimeInv ==
    /\ \A t \in dispatch.taken \ Lost : inflight[t] = Ttl
    /\ \A b \in Batch : \A t \in batch[b].todo \ Lost : inflight[t] + Spent(b) >= Ttl

\* What a step other than taking a key, sending or starting a batch, or the
\* passing of time may do to what TimeInv is about.
Frame ==
    /\ dispatch'.taken \subseteq dispatch.taken
    /\ \A t \in Target : inflight'[t] \in {0, inflight[t]}
    /\ \A b \in Batch :
          /\ batch'[b].todo \subseteq batch[b].todo
          /\ \/ batch'[b].todo = {}
             \/ batch'[b].clock = batch[b].clock /\ (Running(b)' <=> Running(b))
    /\ expired' = expired
    /\ stolen \subseteq stolen'

LEMMA FrameTime ==
  ASSUME TypeInv, TypeInv', OwnInv', TimeInv, Frame
  PROVE  TimeInv'
  <1>1. Lost \subseteq Lost'
    BY DEF Frame, Lost
  <1>2. ASSUME NEW t \in dispatch'.taken \ Lost' PROVE inflight'[t] = Ttl'
    <2>1. t \in Target /\ t \in dispatch.taken \ Lost /\ Ttl' = Ttl
      BY <1>1 DEF Frame, TypeInv, DispatchOK, Dispatch, Ttl
    <2>2. inflight'[t] > 0
      BY DEF OwnInv, Held
    <2>3. inflight'[t] \in {0, inflight[t]} /\ inflight[t] = Ttl
      BY <2>1 DEF Frame, TimeInv
    <2>4. QED
      BY <2>1, <2>2, <2>3
  <1>3. ASSUME NEW b \in Batch, NEW t \in batch'[b].todo \ Lost'
        PROVE  inflight'[t] + Spent(b)' >= Ttl'
    <2>1. t \in Target /\ t \in batch[b].todo \ Lost /\ Ttl' = Ttl
      BY <1>1 DEF Frame, TypeInv, BatchesOK, RecordOK, BatchRecord, Ttl
    <2>2. inflight'[t] > 0
      BY DEF OwnInv, Held
    <2>3. inflight'[t] = inflight[t] /\ inflight[t] + Spent(b) >= Ttl
      BY <2>1, <2>2 DEF Frame, TimeInv
    <2>4. Spent(b)' = Spent(b)
      BY DEF Frame, Spent
    <2>5. QED
      BY <2>1, <2>3, <2>4
  <1>4. QED
    BY <1>2, <1>3 DEF TimeInv

\* A new record for batch b that keeps its clock, or has nothing left to do.
LEMMA OneBatchFrame ==
  ASSUME TypeInv, NEW b \in Batch, NEW r, batch' = [batch EXCEPT ![b] = r],
         r.todo \subseteq batch[b].todo,
         \/ r.todo = {}
         \/ /\ r.clock = batch[b].clock
            /\ r.phase \notin {"free", "queued"} /\ batch[b].phase \notin {"free", "queued"},
         \/ UNCHANGED inflight
         \/ \E S : Unlock(S),
         dispatch'.taken \subseteq dispatch.taken, expired' = expired, stolen \subseteq stolen'
  PROVE  Frame
  <1>1. batch'[b] = r /\ \A c \in Batch \ {b} : batch'[c] = batch[c]
    BY DEF TypeInv, BatchesOK
  <1>2. \A t \in Target : inflight'[t] \in {0, inflight[t]}
    BY DEF Unlock
  <1>3. ASSUME NEW c \in Batch
        PROVE  /\ batch'[c].todo \subseteq batch[c].todo
               /\ \/ batch'[c].todo = {}
                  \/ batch'[c].clock = batch[c].clock /\ (Running(c)' <=> Running(c))
    <2>1. CASE c = b
      BY <1>1, <2>1 DEF Running
    <2>2. CASE c # b
      BY <1>1, <2>2 DEF Running
    <2>3. QED
      BY <2>1, <2>2
  <1>4. QED
    BY <1>2, <1>3 DEF Frame

\* What a step of a batch after its start does to its record: it is freed, or
\* the batch goes on with its account and clock and no new targets.
GoesOn(b, r) ==
    /\ r.phase \notin {"free", "queued"} /\ batch[b].phase \notin {"free", "queued"}
    /\ r.account = batch[b].account /\ r.clock = batch[b].clock
    /\ r.targets = batch[b].targets /\ r.todo \subseteq batch[b].todo

LEMMA TaskRecord ==
  ASSUME TypeInv, NEW b \in Batch,
         Drop(b) \/ DuplicateFound(b) \/ TaskStep(b) \/ WorkerCrash(b)
  PROVE  \E r : batch' = [batch EXCEPT ![b] = r] /\ (r = Idle \/ r = batch[b] \/ GoesOn(b, r))
  <1>1. batch[b] \in BatchRecord
    BY DEF TypeInv, BatchesOK
  <1>2. CASE Drop(b) \/ ReleaseAccount(b) \/ HardKill(b) \/ WorkerCrash(b)
    BY <1>2 DEF Drop, ReleaseAccount, HardKill, WorkerCrash
  <1>3. CASE DuplicateFound(b)
    <2>1. batch' = [batch EXCEPT ![b] = batch[b]]
      BY <1>3 DEF DuplicateFound, TypeInv, BatchesOK
    <2>2. QED
      BY <2>1
  <1>4. ASSUME NEW t \in Target, BudgetSkip(b, t) \/ SkipMissing(b, t) \/ IsolateOne(b, t)
        PROVE  \E r : batch' = [batch EXCEPT ![b] = r] /\ GoesOn(b, r)
    <2>1. GoesOn(b, [batch[b] EXCEPT !.todo = batch[b].todo \ {t}])
      BY <1>1, <1>4 DEF BudgetSkip, SkipMissing, IsolateOne, GoesOn, BatchRecord
    <2>2. QED
      BY <1>4, <2>1 DEF BudgetSkip, SkipMissing, IsolateOne
  <1>5. ASSUME NEW t \in Target, BeginTarget(b, t)
        PROVE  \E r : batch' = [batch EXCEPT ![b] = r] /\ GoesOn(b, r)
    <2>1. GoesOn(b, [batch[b] EXCEPT !.phase = "crawling", !.cur = t])
      BY <1>1, <1>5 DEF BeginTarget, GoesOn, BatchRecord
    <2>2. QED
      BY <1>5, <2>1 DEF BeginTarget
  <1>6. ASSUME batch[b].phase \in {"crawling", "synced", "refreshing"}, LeaveTarget(b)
        PROVE  \E r : batch' = [batch EXCEPT ![b] = r] /\ GoesOn(b, r)
    <2>1. GoesOn(b, [batch[b] EXCEPT !.phase = "next", !.cur = NoTarget,
                                     !.todo = batch[b].todo \ {batch[b].cur}])
      BY <1>1, <1>6 DEF GoesOn, BatchRecord
    <2>2. QED
      BY <1>6, <2>1 DEF LeaveTarget
  <1>7. CASE Succeed(b) \/ FailTarget(b) \/ TargetTimeout(b) \/ RefreshOk(b)
    BY <1>6, <1>7 DEF Succeed, FailTarget, TargetTimeout, RefreshOk
  <1>8. CASE SessionExpired(b)
    <2>1. CASE batch[b].account \in HasPassword /\ ~batch[b].refreshed
      <3>1. GoesOn(b, [batch[b] EXCEPT !.phase = "refreshing", !.refreshed = TRUE])
        BY <1>1, <1>8 DEF SessionExpired, GoesOn, BatchRecord
      <3>2. QED
        BY <1>8, <2>1, <3>1 DEF SessionExpired
    <2>2. CASE ~(batch[b].account \in HasPassword /\ ~batch[b].refreshed)
      BY <1>6, <1>8, <2>2 DEF SessionExpired
    <2>3. QED
      BY <2>1, <2>2
  <1>9. CASE Synced(b)
    <2>1. GoesOn(b, [batch[b] EXCEPT !.phase = "synced"])
      BY <1>1, <1>9 DEF Synced, GoesOn, BatchRecord
    <2>2. QED
      BY <1>9, <2>1 DEF Synced
  <1>10. CASE DeadAccount(b)
    <2>1. GoesOn(b, [batch[b] EXCEPT !.phase = "isolating", !.checkpointed = TRUE])
      BY <1>1, <1>10 DEF DeadAccount, GoesOn, BatchRecord
    <2>2. QED
      BY <1>10, <2>1 DEF DeadAccount
  <1>11. CASE FinishIsolation(b)
    <2>1. GoesOn(b, [batch[b] EXCEPT !.phase = "closing", !.cur = NoTarget])
      BY <1>1, <1>11 DEF FinishIsolation, GoesOn, BatchRecord
    <2>2. QED
      BY <1>11, <2>1 DEF FinishIsolation
  <1>12. CASE Finish(b)
    <2>1. GoesOn(b, [batch[b] EXCEPT !.phase = "closing"])
      BY <1>1, <1>12 DEF Finish, GoesOn, BatchRecord
    <2>2. QED
      BY <1>12, <2>1 DEF Finish
  <1>13. CASE BatchError(b)
    <2>1. GoesOn(b, [batch[b] EXCEPT !.phase = "closing", !.cur = NoTarget,
                                     !.todo = {}, !.checkpointed = TRUE])
      BY <1>1, <1>13 DEF BatchError, GoesOn, BatchRecord
    <2>2. QED
      BY <1>13, <2>1 DEF BatchError
  <1>14. QED
    BY <1>2, <1>3, <1>4, <1>5, <1>7, <1>8, <1>9, <1>10, <1>11, <1>12, <1>13
    DEF TaskStep, LoopStep

LEMMA TaskFrame ==
  ASSUME TypeInv, NEW b \in Batch,
         Drop(b) \/ DuplicateFound(b) \/ TaskStep(b) \/ WorkerCrash(b)
  PROVE  Frame
  <1>1. PICK r : batch' = [batch EXCEPT ![b] = r] /\ (r = Idle \/ r = batch[b] \/ GoesOn(b, r))
    BY TaskRecord
  <1>2. UNCHANGED inflight \/ \E S : Unlock(S)
    BY DEF Drop, DuplicateFound, TaskStep, WorkerCrash, LoopStep, BudgetSkip, SkipMissing,
           BeginTarget, Synced, Succeed, FailTarget, TargetTimeout, SessionExpired, RefreshOk,
           DeadAccount, IsolateOne, FinishIsolation, Finish, BatchError, ReleaseAccount,
           HardKill, LeaveTarget
  <1>3. UNCHANGED <<dispatch, expired>> /\ stolen \subseteq stolen'
    BY DEF Drop, DuplicateFound, TaskStep, WorkerCrash, LoopStep, BudgetSkip, SkipMissing,
           BeginTarget, Synced, Succeed, FailTarget, TargetTimeout, SessionExpired, RefreshOk,
           DeadAccount, IsolateOne, FinishIsolation, Finish, BatchError, ReleaseAccount,
           HardKill, LeaveTarget, history
  <1>4. \/ r.todo = {} /\ r.todo \subseteq batch[b].todo
        \/ r = batch[b]
        \/ GoesOn(b, r)
    BY <1>1 DEF Idle
  <1>5. CASE r = batch[b]
    <2>1. batch' = batch
      BY <1>1, <1>5 DEF TypeInv, BatchesOK
    <2>2. QED
      BY <1>2, <1>3, <2>1 DEF Frame, Unlock, Running
  <1>6. CASE r # batch[b]
    BY <1>1, <1>2, <1>3, <1>4, <1>6, OneBatchFrame DEF GoesOn
  <1>7. QED
    BY <1>5, <1>6

LEMMA QuietFrame ==
  ASSUME TypeInv, dispatch'.taken \subseteq dispatch.taken,
         UNCHANGED <<inflight, batch, history>>
  PROVE  Frame
  BY DEF Frame, history, Running

LEMMA TryLockTime ==
  ASSUME TypeInv, TimeInv, OwnInv, NEW t \in Target, TryLock(t)
  PROVE  TimeInv' \/ Frame
  <1>1. CASE Held(t)
    <2>1. dispatch'.taken = dispatch.taken
      BY <1>1 DEF TryLock, TypeInv, DispatchOK, Dispatch
    <2>2. QED
      BY <1>1, <2>1, QuietFrame DEF TryLock
  <1>2. CASE ~Held(t)
    <2>1. dispatch'.taken = dispatch.taken \union {t} /\ inflight' = [inflight EXCEPT ![t] = Ttl]
      BY <1>2 DEF TryLock, TypeInv, DispatchOK, Dispatch
    <2>2. UNCHANGED batch /\ Lost' = Lost /\ Ttl' = Ttl
      BY <1>2 DEF TryLock, history, Ttl, Lost
    <2>3. ASSUME NEW u \in dispatch'.taken \ Lost' PROVE inflight'[u] = Ttl'
      BY <2>1, <2>2 DEF TimeInv, TypeInv, DispatchOK, Dispatch
    <2>4. ASSUME NEW b \in Batch, NEW u \in batch'[b].todo \ Lost'
          PROVE  inflight'[u] + Spent(b)' >= Ttl'
      <3>1. u \in Target /\ u \in batch[b].todo \ Lost
        BY <2>2 DEF TypeInv, BatchesOK, RecordOK, BatchRecord
      <3>2. Held(u)
        BY <3>1 DEF OwnInv
      <3>3. inflight'[u] = inflight[u]
        BY <1>2, <2>1, <3>1, <3>2
      <3>4. Spent(b)' = Spent(b)
        BY <2>2 DEF Spent, Running
      <3>5. QED
        BY <2>2, <3>1, <3>3, <3>4 DEF TimeInv
    <2>5. QED
      BY <2>3, <2>4 DEF TimeInv
  <1>3. QED
    BY <1>1, <1>2

LEMMA PublishTime ==
  ASSUME TypeInv, TimeInv, NEW b \in Batch, NEW chunk \in SUBSET Target, Publish(b, chunk)
  PROVE  TimeInv'
  <1>1. chunk \subseteq dispatch.taken /\ dispatch'.taken = dispatch.taken \ chunk
    BY DEF Publish, Group, TypeInv, DispatchOK, Dispatch
  <1>2. /\ batch'[b].todo = chunk /\ batch'[b].phase = "queued" /\ batch'[b].clock = 0
        /\ \A c \in Batch \ {b} : batch'[c] = batch[c]
    BY DEF Publish, TypeInv, BatchesOK, Idle
  <1>3. UNCHANGED inflight /\ Lost' = Lost /\ Ttl' = Ttl
    BY DEF Publish, history, Ttl, Lost
  <1>4. ASSUME NEW c \in Batch, NEW u \in batch'[c].todo \ Lost'
        PROVE  inflight'[u] + Spent(c)' >= Ttl'
    <2>1. CASE c = b
      <3>1. inflight[u] = Ttl /\ Spent(c)' = 0
        BY <1>1, <1>2, <1>3, <2>1 DEF TimeInv, Spent, Running
      <3>2. QED
        BY <1>3, <3>1, TtlType
    <2>2. CASE c # b
      BY <1>2, <1>3, <2>2 DEF TimeInv, Spent, Running
    <2>3. QED
      BY <2>1, <2>2
  <1>5. QED
    BY <1>1, <1>3, <1>4 DEF TimeInv

LEMMA StartTime ==
  ASSUME TypeInv, TimeInv, NEW b \in Batch, Start(b)
  PROVE  TimeInv'
  <1>1. PICK a \in Account : batch' = [batch EXCEPT ![b] =
                                [batch[b] EXCEPT !.phase = "next", !.account = a, !.clock = 0]]
    BY DEF Start
  <1>2. batch[b].phase = "queued" /\ batch[b].clock <= MaxQueueWait /\ batch[b].clock \in Nat
    BY DEF Start, TypeInv, BatchesOK, RecordOK, BatchRecord
  <1>3. /\ batch'[b].todo = batch[b].todo /\ batch'[b].phase = "next" /\ batch'[b].clock = 0
        /\ \A c \in Batch \ {b} : batch'[c] = batch[c]
    BY <1>1 DEF TypeInv, BatchesOK, RecordOK, BatchRecord
  <1>4. UNCHANGED <<inflight, dispatch>> /\ Lost' = Lost /\ Ttl' = Ttl
    BY DEF Start, history, Ttl, Lost
  <1>5. ASSUME NEW c \in Batch, NEW u \in batch'[c].todo \ Lost'
        PROVE  inflight'[u] + Spent(c)' >= Ttl'
    <2>1. CASE c = b
      <3>1. inflight[u] + batch[b].clock >= Ttl /\ inflight[u] \in Nat
        <4>1. u \in Target /\ u \in batch[b].todo \ Lost
          BY <1>3, <1>4, <2>1 DEF TypeInv, BatchesOK, RecordOK, BatchRecord
        <4>2. QED
          BY <1>2, <4>1, TtlType DEF TimeInv, Spent, Running, TypeInv
      <3>2. Spent(c)' = MaxQueueWait
        BY <1>3, <2>1, TimeAssumption DEF Spent, Running
      <3>3. QED
        BY <1>2, <1>4, <3>1, <3>2, TtlType, TimeAssumption
    <2>2. CASE c # b
      BY <1>3, <1>4, <2>2 DEF TimeInv, Spent, Running
    <2>3. QED
      BY <2>1, <2>2
  <1>6. QED
    BY <1>4, <1>5 DEF TimeInv

\* A tick takes one off every pending key that does not run out with it, and adds
\* one to what its batch has spent.
LEMMA TickTime ==
  ASSUME TypeInv, OwnInv, TimeInv, Tick
  PROVE  TimeInv'
  <1>1. dispatch.taken = {} /\ dispatch' = dispatch /\ Lost \subseteq Lost' /\ Ttl' = Ttl
    BY DEF Tick, TypeInv, DispatchOK, Lost, Ttl
  <1>2. ASSUME NEW b \in Batch, NEW t \in batch[b].todo \ Lost
        PROVE  /\ inflight[t] \in Nat /\ inflight'[t] = inflight[t] - 1
               /\ Spent(b) \in Nat /\ Spent(b)' = Spent(b) + 1
    <2>1. t \in Target /\ batch[b].clock \in Nat /\ batch[b].phase # "free"
      BY DEF TypeInv, BatchesOK, RecordOK, BatchRecord
    <2>2. inflight[t] \in Nat /\ Held(t)
      BY <2>1, TtlType DEF TypeInv, OwnInv
    <2>3. batch'[b].clock = batch[b].clock + 1 /\ batch'[b].phase = batch[b].phase
      BY <2>1 DEF Tick, TypeInv, BatchesOK, RecordOK, BatchRecord
    <2>4. Spent(b) \in Nat /\ Spent(b)' = Spent(b) + 1
      BY <2>1, <2>3, TimeAssumption DEF Spent, Running
    <2>5. inflight'[t] = inflight[t] - 1
      BY <2>1, <2>2 DEF Tick
    <2>6. QED
      BY <2>2, <2>4, <2>5
  <1>3. \A b \in Batch : batch'[b].todo = batch[b].todo
    BY DEF Tick, TypeInv, BatchesOK, RecordOK, BatchRecord
  <1>4. ASSUME NEW b \in Batch, NEW t \in batch'[b].todo \ Lost'
        PROVE  inflight'[t] + Spent(b)' >= Ttl'
    <2>1. t \in batch[b].todo \ Lost
      BY <1>1, <1>3
    <2>2. inflight[t] + Spent(b) >= Ttl
      BY <2>1 DEF TimeInv
    <2>3. QED
      BY <1>1, <1>2, <2>1, <2>2, TtlType
  <1>5. QED
    BY <1>1, <1>4 DEF TimeInv

LEMMA TimeStep ==
  TypeInv /\ OwnInv /\ TimeInv /\ [Next]_vars => TimeInv'
  <1> SUFFICES ASSUME TypeInv, OwnInv, TimeInv, [Next]_vars PROVE TimeInv'
    OBVIOUS
  <1>1. TypeInv' /\ OwnInv'
    BY TypeStep, OwnStep
  <1>2. CASE Dispatcher
    <2>1. CASE ReadDue \/ EndDispatch
      <3>1. dispatch'.taken = {} /\ UNCHANGED <<inflight, batch, history>>
        BY <2>1 DEF ReadDue, EndDispatch, NoDispatch
      <3>2. QED
        BY <1>1, <3>1, QuietFrame, FrameTime
    <2>2. ASSUME NEW t \in Target, TryLock(t) PROVE TimeInv'
      BY <1>1, <2>2, TryLockTime, FrameTime
    <2>3. ASSUME NEW b \in Batch, NEW chunk \in SUBSET Target, Publish(b, chunk) PROVE TimeInv'
      BY <2>3, PublishTime
    <2>4. QED
      BY <1>2, <2>1, <2>2, <2>3 DEF Dispatcher
  <1>3. ASSUME NEW b \in Batch, Worker(b) PROVE TimeInv'
    <2>1. CASE Start(b)
      BY <2>1, StartTime
    <2>2. CASE ~Start(b)
      BY <1>1, <1>3, <2>2, TaskFrame, FrameTime DEF Worker
    <2>3. QED
      BY <2>1, <2>2
  <1>4. CASE Environment
    <2>1. dispatch'.taken \subseteq dispatch.taken /\ UNCHANGED <<inflight, batch, history>>
      BY <1>4 DEF Environment, DispatchCrash, NoDispatch, OperatorRelease, OperatorImport,
                  DeleteSource
    <2>2. QED
      BY <1>1, <2>1, QuietFrame, FrameTime
  <1>5. CASE Tick
    BY <1>5, TickTime
  <1>6. CASE UNCHANGED vars
    <2>1. dispatch'.taken \subseteq dispatch.taken /\ UNCHANGED <<inflight, batch, history>>
      BY <1>6 DEF vars
    <2>2. QED
      BY <1>1, <2>1, QuietFrame, FrameTime
  <1>7. QED
    BY <1>2, <1>3, <1>4, <1>5, <1>6 DEF Next

LEMMA InitTime == Init => TimeInv
  BY DEF Init, TimeInv, NoDispatch, Idle

\* The floor under the TTL is kept to the end: a pending key has all of MIN_LOCK_TTL_SECONDS
\* ahead but what its batch has spent since it was sent, however the rest goes.
THEOREM LeaseOutlives == Spec => []LeaseOutlivesBatch
  <1>1. Init => TypeInv /\ OwnInv /\ TimeInv
    BY InitType, InitOwn, InitTime
  <1>2. TypeInv /\ OwnInv /\ TimeInv /\ [Next]_vars => (TypeInv /\ OwnInv /\ TimeInv)'
    BY TypeStep, OwnStep, TimeStep
  <1>3. TypeInv /\ TimeInv => LeaseOutlivesBatch
    <2> SUFFICES ASSUME TypeInv, TimeInv, NEW b \in Batch, NEW t \in batch[b].todo \ Lost
                 PROVE  inflight[t] + Spent(b) >= MinLockTtl
      BY DEF LeaseOutlivesBatch
    <2>1. t \in Target /\ batch[b].clock \in Nat
      BY DEF TypeInv, BatchesOK, RecordOK, BatchRecord
    <2>2. inflight[t] \in Nat /\ Spent(b) \in Nat
      BY <2>1, TtlType, TimeAssumption DEF TypeInv, Spent
    <2>3. QED
      BY <2>2, TtlType, TimeAssumption DEF TimeInv
  <1>4. QED
    BY <1>1, <1>2, <1>3, PTL DEF Spec

\* Where the wait in the queue and the time limit of the task together stay below the
\* floor, no key ever runs out under a batch that still has its target to crawl.
THEOREM NeverExpires == MaxQueueWait + HardLimit < MinLockTtl => (Spec => [](expired = {}))
  <1> SUFFICES ASSUME MaxQueueWait + HardLimit < MinLockTtl PROVE Spec => [](expired = {})
    OBVIOUS
  <1>1. Init => TypeInv /\ OwnInv /\ TimeInv /\ expired = {}
    BY InitType, InitOwn, InitTime DEF Init
  <1>2. ASSUME TypeInv, TimeInv, Tick, expired = {} PROVE expired' = {}
    <2>1. ASSUME NEW b \in Batch, NEW t \in batch[b].todo \ Lost PROVE inflight[t] # 1
      <3>1. t \in Target /\ batch[b].clock \in Nat /\ batch[b].phase # "free"
        BY <1>2 DEF TypeInv, BatchesOK, RecordOK, BatchRecord
      <3>2. Spent(b) \in Nat /\ Spent(b) < MaxQueueWait + HardLimit
        BY <1>2, <3>1, TimeAssumption DEF Tick, Spent, Running
      <3>3. inflight[t] \in Nat /\ inflight[t] + Spent(b) >= Ttl
        BY <1>2, <3>1, TtlType DEF TypeInv, TimeInv
      <3>4. QED
        BY <3>2, <3>3, TtlType, TimeAssumption
    <2>2. ExpiringUnderBatch \ stolen = {}
      BY <1>2, <2>1 DEF ExpiringUnderBatch, Lost
    <2>3. QED
      BY <1>2, <2>2 DEF Tick
  <1>3. ASSUME [Next]_vars, ~Tick PROVE expired' = expired
    BY <1>3 DEF Next, vars, history, Dispatcher, ReadDue, TryLock, Publish, EndDispatch, Worker,
                Start, Drop, DuplicateFound, TaskStep, WorkerCrash, LoopStep, BudgetSkip,
                SkipMissing, BeginTarget, Synced, Succeed, FailTarget, TargetTimeout,
                SessionExpired, RefreshOk, DeadAccount, IsolateOne, FinishIsolation, Finish,
                BatchError, ReleaseAccount, HardKill, LeaveTarget, Environment, DispatchCrash,
                OperatorRelease, OperatorImport, DeleteSource
  <1>4. TypeInv /\ OwnInv /\ TimeInv /\ expired = {} /\ [Next]_vars
        => (TypeInv /\ OwnInv /\ TimeInv /\ expired = {})'
    BY <1>2, <1>3, TypeStep, OwnStep, TimeStep
  <1>5. QED
    BY <1>1, <1>4, PTL DEF Spec

(***************************************************************************)
(* Keys of what is done                                                    *)
(***************************************************************************)
LEMMA UnlockFrees ==
  ASSUME TypeInv, NEW b \in Batch, NEW S, NEW r, Unlock(S), batch' = [batch EXCEPT ![b] = r],
         batch[b].todo \ S \subseteq r.todo
  PROVE  FreesWhatIsDone
  <1>1. batch'[b] = r /\ \A c \in Batch \ {b} : batch'[c] = batch[c]
    BY DEF TypeInv, BatchesOK
  <1>2. ASSUME NEW c \in Batch, NEW t \in batch[c].todo \ batch'[c].todo PROVE ~Held(t)'
    <2>1. c = b /\ t \in S
      BY <1>1
    <2>2. t \in Target
      BY DEF TypeInv, BatchesOK, RecordOK, BatchRecord
    <2>3. QED
      BY <2>1, <2>2 DEF Unlock, Held
  <1>3. QED
    BY <1>2 DEF FreesWhatIsDone

LEMMA NothingDone ==
  ASSUME \A b \in Batch : batch[b].todo \subseteq batch'[b].todo
  PROVE  FreesWhatIsDone
  BY DEF FreesWhatIsDone

LEMMA SameTodo ==
  ASSUME TypeInv, NEW b \in Batch, NEW r, batch' = [batch EXCEPT ![b] = r],
         batch[b].todo \subseteq r.todo
  PROVE  FreesWhatIsDone
  BY DEF TypeInv, BatchesOK, FreesWhatIsDone

LEMMA LeaveTargetFrees ==
  ASSUME TypeInv, NEW b \in Batch, LeaveTarget(b)
  PROVE  FreesWhatIsDone
  <1> DEFINE r == [batch[b] EXCEPT !.phase = "next", !.cur = NoTarget,
                                   !.todo = batch[b].todo \ {batch[b].cur}]
  <1>1. r.todo = batch[b].todo \ {batch[b].cur}
    BY DEF TypeInv, BatchesOK, RecordOK, BatchRecord
  <1>2. batch' = [batch EXCEPT ![b] = r] /\ Unlock({batch[b].cur})
    BY DEF LeaveTarget
  <1> HIDE DEF r
  <1>3. QED
    BY <1>1, <1>2, UnlockFrees

LEMMA WorkerFrees ==
  ASSUME TypeInv, NEW b \in Batch, Worker(b)
  PROVE  FreesWhatIsDone
  <1>1. RecordOK(batch[b]) /\ batch[b] \in BatchRecord
    BY DEF TypeInv, BatchesOK
  <1>2. CASE Start(b)
    <2>1. PICK a \in Account : batch' = [batch EXCEPT ![b] =
                                  [batch[b] EXCEPT !.phase = "next", !.account = a, !.clock = 0]]
      BY <1>2 DEF Start
    <2>2. [batch[b] EXCEPT !.phase = "next", !.account = a, !.clock = 0].todo = batch[b].todo
      BY <1>1 DEF BatchRecord
    <2>3. QED
      BY <2>1, <2>2, SameTodo
  <1>3. CASE Drop(b)
    BY <1>1, <1>3, UnlockFrees DEF Drop, RecordOK, Idle
  <1>4. ASSUME NEW t \in Target, BudgetSkip(b, t) \/ IsolateOne(b, t) PROVE FreesWhatIsDone
    <2> DEFINE r == [batch[b] EXCEPT !.todo = batch[b].todo \ {t}]
    <2>1. r.todo = batch[b].todo \ {t}
      BY <1>1 DEF BatchRecord
    <2>2. batch' = [batch EXCEPT ![b] = r] /\ Unlock({t})
      BY <1>4 DEF BudgetSkip, IsolateOne
    <2> HIDE DEF r
    <2>3. QED
      BY <2>1, <2>2, UnlockFrees
  <1>5. ASSUME NEW t \in Target, SkipMissing(b, t) PROVE FreesWhatIsDone
    <2> DEFINE r == [batch[b] EXCEPT !.todo = batch[b].todo \ {t}]
    <2>1. r.todo = batch[b].todo \ {t}
      BY <1>1 DEF BatchRecord
    <2>2. batch' = [batch EXCEPT ![b] = r] /\ ~Exists(t)
      BY <1>5 DEF SkipMissing
    <2>3. batch'[b] = r /\ \A c \in Batch \ {b} : batch'[c] = batch[c]
      BY <2>2 DEF TypeInv, BatchesOK
    <2>4. QED
      BY <2>1, <2>2, <2>3 DEF FreesWhatIsDone
  <1>6. CASE \/ \E t \in Target : BeginTarget(b, t)
             \/ Synced(b) \/ DeadAccount(b) \/ FinishIsolation(b) \/ Finish(b)
    <2>1. \A t \in Target :
            [batch[b] EXCEPT !.phase = "crawling", !.cur = t].todo = batch[b].todo
      BY <1>1 DEF BatchRecord
    <2>2. /\ [batch[b] EXCEPT !.phase = "synced"].todo = batch[b].todo
          /\ [batch[b] EXCEPT !.phase = "isolating", !.checkpointed = TRUE].todo = batch[b].todo
          /\ [batch[b] EXCEPT !.phase = "closing", !.cur = NoTarget].todo = batch[b].todo
          /\ [batch[b] EXCEPT !.phase = "closing"].todo = batch[b].todo
      BY <1>1 DEF BatchRecord
    <2>3. PICK r : batch' = [batch EXCEPT ![b] = r] /\ r.todo = batch[b].todo
      BY <1>6, <2>1, <2>2 DEF BeginTarget, Synced, DeadAccount, FinishIsolation, Finish
    <2>4. QED
      BY <2>3, SameTodo
  <1>7. CASE DuplicateFound(b)
    BY <1>7, NothingDone DEF DuplicateFound
  <1>8. CASE Succeed(b) \/ FailTarget(b) \/ TargetTimeout(b) \/ RefreshOk(b)
    BY <1>8, LeaveTargetFrees DEF Succeed, FailTarget, TargetTimeout, RefreshOk
  <1>9. CASE SessionExpired(b)
    <2>1. CASE batch[b].account \in HasPassword /\ ~batch[b].refreshed
      <3>1. [batch[b] EXCEPT !.phase = "refreshing", !.refreshed = TRUE].todo = batch[b].todo
        BY <1>1 DEF BatchRecord
      <3>2. batch' = [batch EXCEPT ![b] =
                        [batch[b] EXCEPT !.phase = "refreshing", !.refreshed = TRUE]]
        BY <1>9, <2>1 DEF SessionExpired
      <3>3. QED
        BY <3>1, <3>2, SameTodo
    <2>2. CASE ~(batch[b].account \in HasPassword /\ ~batch[b].refreshed)
      BY <1>9, <2>2, LeaveTargetFrees DEF SessionExpired
    <2>3. QED
      BY <2>1, <2>2
  <1>10. CASE BatchError(b)
    <2> DEFINE r == [batch[b] EXCEPT !.phase = "closing", !.cur = NoTarget,
                                     !.todo = {}, !.checkpointed = TRUE]
    <2>1. batch[b].todo \ batch[b].targets \subseteq r.todo
      BY <1>1 DEF RecordOK
    <2>2. batch' = [batch EXCEPT ![b] = r] /\ Unlock(batch[b].targets)
      BY <1>10 DEF BatchError
    <2> HIDE DEF r
    <2>3. QED
      BY <2>1, <2>2, UnlockFrees
  <1>11. CASE ReleaseAccount(b) \/ HardKill(b) \/ WorkerCrash(b)
    <2>1. batch' = [batch EXCEPT ![b] = Idle] /\ Running(b)
      BY <1>11 DEF ReleaseAccount, HardKill, WorkerCrash, Running
    <2>2. batch'[b] = Idle /\ \A c \in Batch \ {b} : batch'[c] = batch[c]
      BY <2>1 DEF TypeInv, BatchesOK
    <2>3. QED
      BY <2>1, <2>2 DEF FreesWhatIsDone
  <1>12. QED
    BY <1>2, <1>3, <1>4, <1>5, <1>6, <1>7, <1>8, <1>9, <1>10, <1>11
    DEF Worker, TaskStep, LoopStep

LEMMA StepFrees ==
  ASSUME TypeInv, Next
  PROVE  FreesWhatIsDone
  <1>1. ASSUME NEW b \in Batch, Worker(b) PROVE FreesWhatIsDone
    BY <1>1, WorkerFrees
  <1>2. CASE Dispatcher
    <2>1. ASSUME NEW b \in Batch, NEW chunk \in SUBSET Target, Publish(b, chunk)
          PROVE  FreesWhatIsDone
      <3>1. batch[b].todo = {}
        BY <2>1 DEF Publish, TypeInv, BatchesOK, RecordOK
      <3>2. QED
        BY <2>1, <3>1, SameTodo DEF Publish
    <2>2. CASE UNCHANGED batch
      BY <2>2, NothingDone
    <2>3. QED
      BY <1>2, <2>1, <2>2 DEF Dispatcher, ReadDue, TryLock, EndDispatch
  <1>3. CASE Environment
    BY <1>3, NothingDone
    DEF Environment, DispatchCrash, OperatorRelease, OperatorImport, DeleteSource
  <1>4. CASE Tick
    <2>1. \A b \in Batch : batch'[b].todo = batch[b].todo
      BY <1>4 DEF Tick, TypeInv, BatchesOK, RecordOK, BatchRecord
    <2>2. QED
      BY <2>1, NothingDone
  <1>5. QED
    BY <1>1, <1>2, <1>3, <1>4 DEF Next

\* A batch done with a target has freed its key, except in a kill or when the
\* row is gone.
THEOREM KeysFreed == Spec => KeyFreedWhenDone
  <1>1. Init => TypeInv
    BY InitType
  <1>2. TypeInv /\ [Next]_vars => TypeInv'
    BY TypeStep
  <1>3. TypeInv /\ [Next]_vars => [FreesWhatIsDone]_vars
    BY StepFrees
  <1>4. QED
    BY <1>1, <1>2, <1>3, PTL DEF Spec, KeyFreedWhenDone

(***************************************************************************)
(* Accounts                                                                *)
(*                                                                         *)
(* last_used_at of an account in use is not older than the start of the    *)
(* batch, unless an operator cleared it.                                   *)
(***************************************************************************)
LastUse(a) == fb_accounts[a].last_used

UsedInv ==
    \A b \in Batch : Running(b) =>
        LastUse(batch[b].account) = Never \/ LastUse(batch[b].account) <= batch[b].clock

LEMMA LastUseType ==
  ASSUME TypeInv, NEW a \in Account
  PROVE  LastUse(a) = Never \/ (LastUse(a) \in Nat /\ LastUse(a) <= Cooldown)
  BY CooldownAssumption DEF TypeInv, AccountTypeOK, AccountRow, LastUse

\* What any other statement than Acquire does to last_used_at.
LEMMA PoolFrame ==
  ASSUME TypeInv, NEW a \in Account,
         UNCHANGED fb_accounts \/ ReleaseCheckpoint(a) \/ UpdateSession(a) \/ ImportSession(a)
         \/ \E success \in BOOLEAN : Release(a, success)
  PROVE  \A c \in Account : LastUse(c)' \in {LastUse(c), Never}
  BY DEF TypeInv, AccountTypeOK, AccountRow, LastUse, ReleaseCheckpoint, UpdateSession,
         ImportSession, Release

LEMMA UsedFrame ==
  ASSUME TypeInv, UsedInv,
         \A a \in Account : LastUse(a)' \in {LastUse(a), Never},
         \A b \in Batch : Running(b)' => /\ Running(b)
                                         /\ batch'[b].account = batch[b].account
                                         /\ batch'[b].clock = batch[b].clock
  PROVE  UsedInv'
  <1> SUFFICES ASSUME NEW b \in Batch, Running(b)'
               PROVE  \/ LastUse(batch[b].account)' = Never
                      \/ LastUse(batch[b].account)' <= batch'[b].clock
    BY DEF UsedInv
  <1>1. batch[b].account \in Account /\ batch'[b].account = batch[b].account
    BY DEF TypeInv, BatchesOK, RecordOK, Running
  <1>2. LastUse(batch[b].account)' = fb_accounts'[batch[b].account].last_used
    BY <1>1 DEF LastUse
  <1>3. fb_accounts'[batch[b].account].last_used \in {LastUse(batch[b].account), Never}
    BY <1>1 DEF LastUse
  <1>4. QED
    BY <1>1, <1>2, <1>3 DEF UsedInv

LEMMA StartUsed ==
  ASSUME TypeInv, UsedInv, NEW b \in Batch, Start(b)
  PROVE  UsedInv' /\ SpacedStart
  <1>1. PICK skipped \in SUBSET InUse, a \in Account :
            /\ a \in Candidates(SessionKey(b), skipped)
            /\ Acquire(a)
            /\ batch' = [batch EXCEPT ![b] =
                  [batch[b] EXCEPT !.phase = "next", !.account = a, !.clock = 0]]
    BY DEF Start
  <1>2. Available(a)
    BY <1>1 DEF Candidates, Unused
  <1>3. LastUse(a) \in {Never, Cooldown}
    BY <1>2 DEF Available, OffCooldown, LastUse
  <1>4. /\ batch'[b].phase = "next" /\ batch'[b].account = a /\ batch'[b].clock = 0
        /\ \A c \in Batch \ {b} : batch'[c] = batch[c]
    BY <1>1 DEF TypeInv, BatchesOK, RecordOK, BatchRecord
  <1>5. fb_accounts'[a].last_used = 0
        /\ \A c \in Account \ {a} : fb_accounts'[c] = fb_accounts[c]
    BY <1>1 DEF Acquire, TypeInv, AccountTypeOK, AccountRow
  <1>6. ASSUME NEW c \in Batch, Running(c)'
        PROVE  \/ fb_accounts'[batch'[c].account].last_used = Never
               \/ fb_accounts'[batch'[c].account].last_used <= batch'[c].clock
    <2>1. CASE c = b
      BY <1>4, <1>5, <2>1
    <2>2. CASE c # b
      <3>1. Running(c) /\ batch'[c] = batch[c] /\ batch[c].account \in Account
            /\ batch[c].clock \in Nat
        BY <1>4, <1>6, <2>2 DEF Running, TypeInv, BatchesOK, RecordOK, BatchRecord
      <3>2. CASE batch[c].account = a
        BY <1>5, <3>1, <3>2
      <3>3. CASE batch[c].account # a
        BY <1>5, <3>1, <3>3 DEF UsedInv, LastUse
      <3>4. QED
        BY <3>2, <3>3
    <2>3. QED
      BY <2>1, <2>2
  <1>7. UsedInv'
    BY <1>6 DEF UsedInv, LastUse
  <1>8. SpacedStart
    <2> SUFFICES ASSUME NEW d \in Batch, NEW c \in Batch, batch[d].phase = "queued", Running(d)',
                        Running(c), batch[c].account = batch'[d].account
                 PROVE  \/ batch[c].clock >= Cooldown
                        \/ fb_accounts[batch[c].account].last_used = Never
      BY DEF SpacedStart
    <2>1. d = b
      BY <1>4 DEF Running
    <2>2. batch[c].account = a /\ batch[c].clock \in Nat
      BY <1>4, <2>1 DEF TypeInv, BatchesOK, RecordOK, BatchRecord
    <2>3. QED
      BY <1>3, <2>2, CooldownAssumption DEF UsedInv, LastUse
  <1>9. QED
    BY <1>7, <1>8

LEMMA TickUsed ==
  ASSUME TypeInv, UsedInv, Tick
  PROVE  UsedInv'
  <1> SUFFICES ASSUME NEW b \in Batch, Running(b)'
               PROVE  \/ fb_accounts'[batch'[b].account].last_used = Never
                      \/ fb_accounts'[batch'[b].account].last_used <= batch'[b].clock
    BY DEF UsedInv, LastUse
  <1>1. Running(b) /\ batch'[b].account = batch[b].account /\ batch[b].clock \in Nat
        /\ batch'[b].clock = batch[b].clock + 1 /\ batch[b].account \in Account
    BY DEF Tick, Running, TypeInv, BatchesOK, RecordOK, BatchRecord
  <1> DEFINE a == batch[b].account
  <1>2. fb_accounts'[a].last_used =
          IF LastUse(a) \in 0..(Cooldown - 1) THEN LastUse(a) + 1 ELSE LastUse(a)
    BY <1>1 DEF Tick, AccountTick, TypeInv, AccountTypeOK, AccountRow, LastUse
  <1>3. LastUse(a) = Never \/ (LastUse(a) \in Nat /\ LastUse(a) <= batch[b].clock)
    BY <1>1, LastUseType DEF UsedInv
  <1>4. QED
    BY <1>1, <1>2, <1>3, NeverAssumption, CooldownAssumption

LEMMA UsedStep ==
  ASSUME TypeInv, UsedInv, [Next]_vars
  PROVE  UsedInv' /\ [SpacedStart]_vars
  <1>1. ASSUME NEW b \in Batch, Start(b) PROVE UsedInv' /\ SpacedStart
    BY <1>1, StartUsed
  <1>2. ASSUME \A b \in Batch : Running(b)' =>
                  Running(b) \/ batch[b].phase # "queued"
        PROVE  SpacedStart
    BY <1>2 DEF SpacedStart, Running
  <1>3. ASSUME \A a \in Account : LastUse(a)' \in {LastUse(a), Never},
               \A b \in Batch : Running(b)' => /\ Running(b)
                                               /\ batch'[b].account = batch[b].account
                                               /\ batch'[b].clock = batch[b].clock
        PROVE  UsedInv' /\ SpacedStart
    BY <1>2, <1>3, UsedFrame
  <1>4. ASSUME NEW b \in Batch, Drop(b) \/ DuplicateFound(b) \/ TaskStep(b) \/ WorkerCrash(b)
        PROVE  UsedInv' /\ SpacedStart
    <2>1. PICK r : /\ batch' = [batch EXCEPT ![b] = r]
                   /\ r = Idle \/ r = batch[b] \/ GoesOn(b, r)
      BY <1>4, TaskRecord
    <2>2. batch'[b] = r /\ \A c \in Batch \ {b} : batch'[c] = batch[c]
      BY <2>1 DEF TypeInv, BatchesOK
    <2>3. \A c \in Batch : Running(c)' => /\ Running(c)
                                          /\ batch'[c].account = batch[c].account
                                          /\ batch'[c].clock = batch[c].clock
      BY <2>1, <2>2 DEF GoesOn, Running, Idle
    <2>4. \/ UNCHANGED fb_accounts
          \/ /\ Running(b)
             /\ UpdateSession(batch[b].account)
                \/ \E success \in BOOLEAN : Release(batch[b].account, success)
      <3>1. CASE ReleaseAccount(b)
        <4>1. (~batch[b].checkpointed) \in BOOLEAN
          BY DEF ReleaseAccount
        <4>2. QED
          BY <3>1, <4>1 DEF ReleaseAccount, Running
      <3>2. CASE ~ReleaseAccount(b)
        BY <1>4, <3>2
        DEF Drop, DuplicateFound, TaskStep, WorkerCrash, LoopStep, BudgetSkip, SkipMissing,
            BeginTarget, Synced, Succeed, FailTarget, TargetTimeout, SessionExpired, RefreshOk,
            DeadAccount, IsolateOne, FinishIsolation, Finish, BatchError, HardKill, Running
      <3>3. QED
        BY <3>1, <3>2
    <2>5. Running(b) => batch[b].account \in Account
      BY DEF TypeInv, BatchesOK, RecordOK, Running
    <2>6. \A a \in Account : LastUse(a)' \in {LastUse(a), Never}
      <3>1. CASE UNCHANGED fb_accounts
        BY <3>1 DEF LastUse
      <3>2. CASE ~UNCHANGED fb_accounts
        BY <2>4, <2>5, <3>2, PoolFrame
      <3>3. QED
        BY <3>1, <3>2
    <2>7. QED
      BY <1>3, <2>3, <2>6
  <1>5. CASE Dispatcher
    <2>1. UNCHANGED fb_accounts
      BY <1>5 DEF Dispatcher, ReadDue, TryLock, Publish, EndDispatch
    <2>2. \A b \in Batch : Running(b)' => batch'[b] = batch[b]
      <3>1. ASSUME NEW b \in Batch, NEW chunk \in SUBSET Target, Publish(b, chunk),
                   NEW c \in Batch, Running(c)'
            PROVE  batch'[c] = batch[c]
        BY <3>1 DEF Publish, TypeInv, BatchesOK, Running, Idle
      <3>2. QED
        BY <1>5, <3>1 DEF Dispatcher, ReadDue, TryLock, EndDispatch
    <2>3. QED
      BY <1>3, <2>1, <2>2 DEF LastUse, Running
  <1>6. CASE Environment
    <2>1. UNCHANGED batch
      BY <1>6 DEF Environment, DispatchCrash, OperatorRelease, OperatorImport, DeleteSource
    <2>2. \A a \in Account : LastUse(a)' \in {LastUse(a), Never}
      <3>1. CASE UNCHANGED fb_accounts
        BY <3>1 DEF LastUse
      <3>2. CASE ~UNCHANGED fb_accounts
        BY <1>6, <3>2, PoolFrame
        DEF Environment, DispatchCrash, OperatorRelease, OperatorImport, DeleteSource
      <3>3. QED
        BY <3>1, <3>2
    <2>3. QED
      BY <1>3, <2>1, <2>2 DEF Running
  <1>7. CASE Tick
    <2>1. \A b \in Batch : Running(b)' <=> Running(b)
      BY <1>7 DEF Tick, Running, TypeInv, BatchesOK, RecordOK, BatchRecord
    <2>2. QED
      BY <1>2, <1>7, <2>1, TickUsed
  <1>8. CASE UNCHANGED vars
    <2>1. UNCHANGED <<fb_accounts, batch>>
      BY <1>8 DEF vars
    <2>2. QED
      BY <1>3, <2>1 DEF LastUse, Running
  <1>9. QED
    BY <1>1, <1>4, <1>5, <1>6, <1>7, <1>8 DEF Next, Worker

\* A second batch gets an account in use only after a cooldown, or after an
\* operator released it.
THEOREM AccountsSpaced == Spec => AcquireSpacing
  <1>1. Init => TypeInv /\ UsedInv
    BY InitType DEF Init, UsedInv, Running, Idle
  <1>2. TypeInv /\ UsedInv /\ [Next]_vars => (TypeInv /\ UsedInv)' /\ [SpacedStart]_vars
    BY TypeStep, UsedStep
  <1>3. QED
    BY <1>1, <1>2, PTL DEF Spec, AcquireSpacing

(***************************************************************************)
(* Pinned targets                                                          *)
(*                                                                         *)
(* The worker reads the key of one target of its message only, so all of   *)
(* them must have the same, which is the dispatcher's doing.               *)
(***************************************************************************)
PinInv ==
    \A b \in Batch :
        /\ \A t, u \in batch[b].targets : Pin[t] = Pin[u]
        /\ Running(b) => \A t \in batch[b].targets : Pin[t] \in {NoKey, batch[b].account}

\* A record that keeps targets and account, or has no targets.
LEMMA SamePins ==
  ASSUME PinInv,
         \A b \in Batch :
            \/ batch'[b].targets = {}
            \/ /\ batch'[b].targets = batch[b].targets
               /\ Running(b)' => Running(b) /\ batch'[b].account = batch[b].account
  PROVE  PinInv'
  BY DEF PinInv

LEMMA PublishPins ==
  ASSUME TypeInv, PinInv, NEW b \in Batch, NEW chunk \in SUBSET Target, Publish(b, chunk)
  PROVE  PinInv'
  <1>1. /\ batch'[b].targets = chunk /\ batch'[b].phase = "queued"
        /\ \A c \in Batch \ {b} : batch'[c] = batch[c]
    BY DEF Publish, TypeInv, BatchesOK, Idle
  <1>2. PICK t \in dispatch.taken : chunk \subseteq Group(t)
    BY DEF Publish
  <1>3. \A u, v \in chunk : Pin[u] = Pin[v]
    BY <1>2 DEF Group
  <1>4. QED
    BY <1>1, <1>3 DEF PinInv, Running

LEMMA StartPins ==
  ASSUME TypeInv, PinInv, NEW b \in Batch, Start(b)
  PROVE  PinInv'
  <1>1. PICK a \in Account :
          /\ \E skipped \in SUBSET InUse : a \in Candidates(SessionKey(b), skipped)
          /\ batch' = [batch EXCEPT ![b] = [batch[b] EXCEPT !.phase = "next", !.account = a, !.clock = 0]]
    BY DEF Start
  <1>2. /\ batch'[b].targets = batch[b].targets /\ batch'[b].account = a
        /\ \A c \in Batch \ {b} : batch'[c] = batch[c]
    BY <1>1 DEF TypeInv, BatchesOK, BatchRecord
  <1>3. ASSUME NEW t \in batch[b].targets PROVE Pin[t] \in {NoKey, a}
    <2>1. SessionKey(b) = Pin[t]
      BY <1>3 DEF SessionKey, PinInv
    <2>2. SessionKey(b) # NoKey => a = SessionKey(b)
      BY <1>1 DEF Candidates
    <2>3. QED
      BY <2>1, <2>2
  <1>4. QED
    BY <1>2, <1>3 DEF PinInv, Running

LEMMA PinStep == TypeInv /\ PinInv /\ [Next]_vars => PinInv'
  <1> SUFFICES ASSUME TypeInv, PinInv, [Next]_vars PROVE PinInv'
    OBVIOUS
  <1>1. CASE UNCHANGED batch
    BY <1>1, SamePins DEF Running
  <1>2. ASSUME NEW b \in Batch, NEW chunk \in SUBSET Target, Publish(b, chunk) PROVE PinInv'
    BY <1>2, PublishPins
  <1>3. ASSUME NEW b \in Batch, Start(b) PROVE PinInv'
    BY <1>3, StartPins
  <1>4. ASSUME NEW b \in Batch, Drop(b) \/ DuplicateFound(b) \/ TaskStep(b) \/ WorkerCrash(b)
        PROVE  PinInv'
    <2>1. PICK r : batch' = [batch EXCEPT ![b] = r] /\ (r = Idle \/ r = batch[b] \/ GoesOn(b, r))
      BY <1>4, TaskRecord
    <2>2. batch'[b] = r /\ \A c \in Batch \ {b} : batch'[c] = batch[c]
      BY <2>1 DEF TypeInv, BatchesOK
    <2>3. r.targets = {} \/ (r.targets = batch[b].targets /\ (Running(b)' => Running(b) /\ r.account = batch[b].account))
      BY <2>1, <2>2 DEF Idle, GoesOn, Running
    <2>4. QED
      BY <2>2, <2>3, SamePins DEF Running
  <1>5. CASE Tick
    <2>1. \A b \in Batch : batch[b] \in BatchRecord
      BY DEF TypeInv, BatchesOK
    <2>2. \A b \in Batch : batch'[b] = IF batch[b].phase = "free" THEN batch[b]
                                      ELSE [batch[b] EXCEPT !.clock = batch[b].clock + 1]
      BY <1>5 DEF Tick
    <2>3. \A b \in Batch : /\ batch'[b].targets = batch[b].targets
                           /\ batch'[b].account = batch[b].account /\ batch'[b].phase = batch[b].phase
      BY <2>1, <2>2 DEF BatchRecord
    <2>4. QED
      BY <2>3, SamePins DEF Running
  <1>6. CASE ReadDue \/ (\E t \in Target : TryLock(t)) \/ EndDispatch \/ Environment \/ UNCHANGED vars
    BY <1>1, <1>6 DEF ReadDue, TryLock, EndDispatch, Environment, DispatchCrash, OperatorRelease, OperatorImport,
                      DeleteSource, vars
  <1>7. QED
    BY <1>2, <1>3, <1>4, <1>5, <1>6 DEF Next, Dispatcher, Worker

\* A pinned target is crawled on its own account and no other, through chunks,
\* cooldowns, isolations and retries, for any pins and any size of a batch.
THEOREM PinsKept == Spec => []PinnedOnOwnAccount
  <1>1. Init => PinInv
    BY DEF Init, PinInv, Running, Idle
  <1>2. PinInv => PinnedOnOwnAccount
    BY DEF PinInv, PinnedOnOwnAccount
  <1>3. Init => TypeInv
    BY InitType
  <1>4. TypeInv /\ [Next]_vars => TypeInv'
    BY TypeStep
  <1>5. TypeInv /\ PinInv /\ [Next]_vars => PinInv'
    BY PinStep
  <1>6. QED
    BY <1>1, <1>2, <1>3, <1>4, <1>5, PTL DEF Spec

(***************************************************************************)
(* FbCrawl implements CrawlLease                                           *)
(*                                                                         *)
(* Whatever a batch does after it got its message is a GiveBack: of        *)
(* nothing, of one target or of all it has left, with their keys or        *)
(* without.  What makes the step legal in CrawlLease is OwnInv: a key      *)
(* deleted with a target is nobody else's, or it was lost before.          *)
(***************************************************************************)

\* Who else than b has t.
LEMMA OtherHolders ==
  ASSUME TypeInv, NEW b \in Batch, NEW r, batch' = [batch EXCEPT ![b] = r], UNCHANGED dispatch,
         NEW S, S \intersect r.todo = {}, NEW t \in S \intersect Target
  PROVE  /\ HoldersOf(t)' # {} <=>
              t \in dispatch.taken \/ \E c \in Batch \ {b} : t \in batch[c].todo
         /\ t \notin batch[b].todo => (HoldersOf(t)' # {} <=> t \in Foreign(b, S \ batch[b].todo))
  <1>1. batch'[b].todo = r.todo /\ \A c \in Batch \ {b} : batch'[c] = batch[c]
    BY DEF TypeInv, BatchesOK
  <1>2. t \notin batch'[b].todo
    BY <1>1
  <1>3. QED
    BY <1>1, <1>2 DEF HoldersOf, Foreign

\* A step of batch b after the start that deletes the keys of S, records what is
\* somebody else's there, and is done with part of what b had to do.
Returns(b, S) ==
    /\ UNCHANGED <<dispatch, expired>>
    /\ inflight' = [t \in Target |-> IF t \in S THEN 0 ELSE inflight[t]]
    /\ stolen' = stolen \union Foreign(b, S \ batch[b].todo)
    /\ S \intersect batch'[b].todo = {}

LEMMA ReturnIsGiveBack ==
  ASSUME TypeInv, OwnInv, NEW b \in Batch, NEW r, batch' = [batch EXCEPT ![b] = r],
         r.todo \subseteq batch[b].todo, NEW S, Returns(b, S)
  PROVE  Lease!LeaseNext
  <1> DEFINE D == batch[b].todo \ r.todo
             U == S \intersect Target
  <1>1. batch'[b] = r /\ \A c \in Batch \ {b} : batch'[c] = batch[c]
    BY DEF TypeInv, BatchesOK
  <1>2. batch[b].todo \subseteq Target
    BY DEF TypeInv, BatchesOK, BatchRecord
  <1>3. dispatch.taken \subseteq Target /\ \A c \in Batch : batch[c].todo \subseteq Target
    BY DEF TypeInv, DispatchOK, Dispatch, BatchesOK, BatchRecord
  <1>4. b # NoTarget
    BY NoTargetAssumption
  <1>5. \A t \in D : b \in HoldersOf(t)
    BY DEF HoldersOf
  <1>6. ASSUME NEW t \in Target
        PROVE  HoldersOf(t)' = IF t \in D THEN HoldersOf(t) \ {b} ELSE HoldersOf(t)
    BY <1>1, <1>4 DEF HoldersOf, Returns
  <1>7. inflight' = [t \in Target |-> IF t \in U THEN 0 ELSE inflight[t]]
    BY DEF Returns
  <1>8. Lost' = Lost \union {t \in U : HoldersOf(t)' # {}}
    <2>1. ASSUME NEW t \in U, HoldersOf(t)' # {} PROVE t \in Lost'
      <3>1. S \intersect r.todo = {} /\ UNCHANGED dispatch
        BY <1>1 DEF Returns
      <3>2. CASE t \in batch[b].todo
        <4>1. t \in dispatch.taken \/ \E c \in Batch \ {b} : t \in batch[c].todo
          BY <2>1, <3>1, OtherHolders
        <4>2. t \in Lost
          BY <3>2, <4>1 DEF OwnInv
        <4>3. QED
          BY <4>2 DEF Lost, Returns
      <3>3. CASE t \notin batch[b].todo
        <4>1. t \in Foreign(b, S \ batch[b].todo)
          BY <2>1, <3>1, <3>3, OtherHolders
        <4>2. QED
          BY <4>1 DEF Lost, Returns
      <3>4. QED
        BY <3>2, <3>3
    <2>2. ASSUME NEW t \in Lost' PROVE t \in Lost \/ (t \in U /\ HoldersOf(t)' # {})
      <3>1. CASE t \in Lost
        BY <3>1
      <3>2. CASE t \in Foreign(b, S \ batch[b].todo)
        <4>1. t \in U
          BY <1>3, <3>2 DEF Foreign
        <4>2. S \intersect r.todo = {} /\ UNCHANGED dispatch /\ t \notin batch[b].todo
          BY <1>1, <3>2 DEF Returns, Foreign
        <4>3. HoldersOf(t)' # {}
          BY <3>2, <4>1, <4>2, OtherHolders
        <4>4. QED
          BY <4>1, <4>3
      <3>3. QED
        BY <2>2, <3>1, <3>2 DEF Lost, Returns
    <2>3. Lost \subseteq Lost'
      BY DEF Lost, Returns
    <2>4. QED
      BY <2>1, <2>2, <2>3
  <1>9. Lease!GiveBack(b, D, U)
    BY <1>2, <1>5, <1>6, <1>7, <1>8 DEF Lease!GiveBack
  <1>10. D \in SUBSET Target /\ U \in SUBSET Target
    BY <1>2
  <1>11. QED
    BY <1>9, <1>10 DEF Lease!LeaseNext

LEMMA QuietReturn ==
  ASSUME TypeInv, NEW b \in Batch, UNCHANGED <<inflight, dispatch, history>>
  PROVE  Returns(b, {})
  BY DEF TypeInv, Returns, Foreign, history

\* The keys a batch deletes are those of targets it is done with, and the two
\* places that delete more record whose they were.
LEMMA TaskReturns ==
  ASSUME TypeInv, NEW b \in Batch,
         Drop(b) \/ DuplicateFound(b) \/ TaskStep(b) \/ WorkerCrash(b)
  PROVE  \E S : Returns(b, S)
  <1>1. batch \in [Batch -> BatchRecord] /\ RecordOK(batch[b])
    BY DEF TypeInv, BatchesOK
  <1>2. CASE Drop(b)
    <2>1. batch[b].targets = batch[b].todo
      BY <1>1, <1>2 DEF RecordOK, Drop
    <2>2. Foreign(b, batch[b].targets \ batch[b].todo) = {}
      BY <2>1 DEF Foreign
    <2>3. Returns(b, batch[b].targets)
      BY <1>1, <1>2, <2>2 DEF Drop, Returns, Unlock, Idle, history
    <2>4. QED
      BY <2>3
  <1>3. CASE \E t \in Target : BudgetSkip(b, t) \/ IsolateOne(b, t)
    <2>1. PICK t \in batch[b].todo :
              /\ Unlock({t}) /\ UNCHANGED <<dispatch, history>>
              /\ batch' = [batch EXCEPT ![b] = [@ EXCEPT !.todo = batch[b].todo \ {t}]]
      BY <1>3 DEF BudgetSkip, IsolateOne
    <2>2. Foreign(b, {t} \ batch[b].todo) = {}
      BY DEF Foreign
    <2>3. batch'[b].todo = batch[b].todo \ {t}
      BY <1>1, <2>1 DEF BatchRecord
    <2>4. Returns(b, {t})
      BY <2>1, <2>2, <2>3 DEF Returns, Unlock, history
    <2>5. QED
      BY <2>4
  <1>4. ASSUME LeaveTarget(b), batch[b].phase \in {"crawling", "synced", "refreshing"}
        PROVE  \E S : Returns(b, S)
    <2>1. batch[b].cur \in batch[b].todo
      BY <1>4, CurType DEF TypeInv
    <2>2. Foreign(b, {batch[b].cur} \ batch[b].todo) = {}
      BY <2>1 DEF Foreign
    <2>3. batch'[b].todo = batch[b].todo \ {batch[b].cur}
      BY <1>1, <1>4 DEF BatchRecord, LeaveTarget
    <2>4. Returns(b, {batch[b].cur})
      BY <1>4, <2>2, <2>3 DEF Returns, LeaveTarget, Unlock, history
    <2>5. QED
      BY <2>4
  <1>5. CASE Succeed(b) \/ FailTarget(b) \/ TargetTimeout(b) \/ RefreshOk(b)
    BY <1>4, <1>5 DEF Succeed, FailTarget, TargetTimeout, RefreshOk
  <1>6. CASE SessionExpired(b)
    <2>1. LeaveTarget(b) \/ UNCHANGED <<inflight, dispatch, history>>
      BY <1>6 DEF SessionExpired
    <2>2. batch[b].phase = "synced"
      BY <1>6 DEF SessionExpired
    <2>3. QED
      BY <1>4, <2>1, <2>2, QuietReturn
  <1>7. CASE FinishIsolation(b)
    <2>1. batch[b].todo = {} /\ batch'[b].todo = {}
      BY <1>1, <1>7 DEF FinishIsolation, BatchRecord
    <2>2. Returns(b, {batch[b].cur})
      BY <1>7, <2>1 DEF FinishIsolation, Returns, Unlock
    <2>3. QED
      BY <2>2
  <1>8. CASE BatchError(b)
    <2>1. batch'[b].todo = {}
      BY <1>1, <1>8 DEF BatchError, BatchRecord
    <2>2. Returns(b, batch[b].targets)
      BY <1>8, <2>1 DEF BatchError, Returns, Unlock
    <2>3. QED
      BY <2>2
  <1>9. CASE \/ \E t \in Target : SkipMissing(b, t) \/ BeginTarget(b, t)
             \/ DuplicateFound(b) \/ Synced(b) \/ DeadAccount(b) \/ Finish(b)
             \/ ReleaseAccount(b) \/ HardKill(b) \/ WorkerCrash(b)
    <2>1. UNCHANGED <<inflight, dispatch, history>>
      BY <1>9 DEF SkipMissing, BeginTarget, DuplicateFound, Synced, DeadAccount, Finish,
                  ReleaseAccount, HardKill, WorkerCrash
    <2>2. QED
      BY <2>1, QuietReturn
  <1>10. QED
    BY <1>2, <1>3, <1>5, <1>6, <1>7, <1>8, <1>9 DEF TaskStep, LoopStep

LEMMA WorkerLease ==
  ASSUME TypeInv, OwnInv, NEW b \in Batch, Worker(b)
  PROVE  Lease!LeaseNext
  <1>1. CASE Start(b)
    <2>1. PICK a \in Account : batch' = [batch EXCEPT ![b] =
                                  [batch[b] EXCEPT !.phase = "next", !.account = a, !.clock = 0]]
      BY <1>1 DEF Start
    <2>2. [batch[b] EXCEPT !.phase = "next", !.account = a, !.clock = 0].todo = batch[b].todo
      BY DEF TypeInv, BatchesOK, BatchRecord
    <2>3. Returns(b, {})
      BY <1>1, QuietReturn DEF Start
    <2>4. QED
      BY <2>1, <2>2, <2>3, ReturnIsGiveBack
  <1>2. CASE ~Start(b)
    <2>1. PICK r : batch' = [batch EXCEPT ![b] = r] /\ (r = Idle \/ r = batch[b] \/ GoesOn(b, r))
      BY <1>2, TaskRecord DEF Worker
    <2>2. r.todo \subseteq batch[b].todo
      BY <2>1 DEF Idle, GoesOn
    <2>3. PICK S : Returns(b, S)
      BY <1>2, TaskReturns DEF Worker
    <2>4. QED
      BY <2>1, <2>2, <2>3, ReturnIsGiveBack
  <1>3. QED
    BY <1>1, <1>2

LEMMA TryLockLease ==
  ASSUME TypeInv, OwnInv, NEW t \in Target, TryLock(t)
  PROVE  Lease!Take(t) \/ UNCHANGED <<inflight, dispatch.taken, batch, history>>
  <1>1. CASE Held(t)
    BY <1>1 DEF TryLock, TypeInv, DispatchOK, Dispatch
  <1>2. CASE ~Held(t)
    <2>1. dispatch'.taken = dispatch.taken \union {t}
          /\ inflight' = [inflight EXCEPT ![t] = Ttl] /\ UNCHANGED <<batch, history>>
      BY <1>2 DEF TryLock, TypeInv, DispatchOK, Dispatch
    <2>2. inflight[t] = 0
      BY <1>2, TtlType DEF TypeInv, Held
    <2>3. HoldersOf(t) = {} \/ t \in Lost
      BY <1>2 DEF HoldersOf, OwnInv
    <2>4. \A u \in Target : HoldersOf(u)' = IF u = t THEN HoldersOf(t) \union {NoTarget} ELSE HoldersOf(u)
      BY <2>1 DEF HoldersOf
    <2>5. QED
      BY <2>1, <2>2, <2>3, <2>4 DEF Lease!Take, Lost, history
  <1>3. QED
    BY <1>1, <1>2

LEMMA PublishLease ==
  ASSUME TypeInv, NEW b \in Batch, NEW chunk \in SUBSET Target, Publish(b, chunk)
  PROVE  Lease!PassOn(b, chunk)
  <1>1. batch[b].todo = {} /\ chunk \subseteq dispatch.taken /\ b # NoTarget
    BY NoTargetAssumption DEF Publish, Group, TypeInv, BatchesOK, RecordOK
  <1>2. /\ dispatch'.taken = dispatch.taken \ chunk
        /\ batch'[b].todo = chunk /\ \A c \in Batch \ {b} : batch'[c] = batch[c]
        /\ UNCHANGED <<inflight, history>>
    BY DEF Publish, TypeInv, DispatchOK, Dispatch, BatchesOK, Idle
  <1>3. \A t \in Target : NoTarget \in HoldersOf(t) <=> t \in dispatch.taken
    BY NoTargetAssumption DEF HoldersOf
  <1>4. \A t \in Target : HoldersOf(t)' =
            IF t \in chunk THEN (HoldersOf(t) \ {NoTarget}) \union {b} ELSE HoldersOf(t)
    BY <1>1, <1>2, NoTargetAssumption DEF HoldersOf
  <1>5. \A t \in Target : b \notin HoldersOf(t)
    BY <1>1 DEF HoldersOf
  <1>6. QED
    BY <1>1, <1>2, <1>3, <1>4, <1>5 DEF Lease!PassOn, Lost, history

LEMMA DispatchCrashLease ==
  ASSUME TypeInv, DispatchCrash
  PROVE  Lease!GiveBack(NoTarget, dispatch.taken, {})
  <1>1. dispatch'.taken = {} /\ dispatch.taken \subseteq Target /\ UNCHANGED <<inflight, batch, history>>
    BY DEF DispatchCrash, NoDispatch, TypeInv, DispatchOK, Dispatch
  <1>2. \A t \in Target : HoldersOf(t)' =
            IF t \in dispatch.taken THEN HoldersOf(t) \ {NoTarget} ELSE HoldersOf(t)
    BY <1>1, NoTargetAssumption DEF HoldersOf
  <1>3. \A t \in dispatch.taken : NoTarget \in HoldersOf(t)
    BY DEF HoldersOf
  <1>4. QED
    BY <1>1, <1>2, <1>3 DEF Lease!GiveBack, TypeInv, Lost, history

LEMMA TickLease ==
  ASSUME TypeInv, Tick
  PROVE  Lease!Elapse
  <1>1. dispatch.taken = {} /\ UNCHANGED dispatch
    BY DEF Tick, TypeInv, DispatchOK
  <1>2. \A b \in Batch : batch'[b].todo = batch[b].todo
    BY DEF Tick, TypeInv, BatchesOK, BatchRecord
  <1>3. \A t \in Target : HoldersOf(t)' = HoldersOf(t)
    BY <1>1, <1>2 DEF HoldersOf
  <1>4. ExpiringUnderBatch = {t \in Target : inflight[t] = 1 /\ HoldersOf(t) # {}}
    BY <1>1 DEF ExpiringUnderBatch, HoldersOf
  <1>5. Lost' = Lost \union ExpiringUnderBatch
    BY DEF Tick, Lost
  <1>6. inflight' = [t \in Target |-> IF inflight[t] > 0 THEN inflight[t] - 1 ELSE 0]
    BY DEF Tick, Held
  <1>7. QED
    BY <1>3, <1>4, <1>5, <1>6 DEF Lease!Elapse

LEMMA LeaseStep == TypeInv /\ OwnInv /\ [Next]_vars => [Lease!LeaseNext]_(Lease!leaseVars)
  <1> SUFFICES ASSUME TypeInv, OwnInv, [Next]_vars PROVE [Lease!LeaseNext]_(Lease!leaseVars)
    OBVIOUS
  <1>1. ASSUME UNCHANGED <<inflight, dispatch.taken, batch, history>>
        PROVE  UNCHANGED Lease!leaseVars
    BY <1>1 DEF Lease!leaseVars, HoldersOf, Lost, history
  <1>2. CASE ReadDue
    <2>1. UNCHANGED <<inflight, dispatch.taken, batch, history>>
      BY <1>2 DEF ReadDue, TypeInv, DispatchOK
    <2>2. QED
      BY <1>1, <2>1
  <1>3. ASSUME NEW t \in Target, TryLock(t) PROVE [Lease!LeaseNext]_(Lease!leaseVars)
    BY <1>1, <1>3, TryLockLease DEF Lease!LeaseNext
  <1>4. ASSUME NEW b \in Batch, NEW chunk \in SUBSET Target, Publish(b, chunk)
        PROVE  Lease!LeaseNext
    <2>1. Lease!PassOn(b, chunk)
      BY <1>4, PublishLease
    <2>2. QED
      BY <2>1 DEF Lease!LeaseNext
  <1>5. CASE EndDispatch
    <2>1. UNCHANGED <<inflight, dispatch.taken, batch, history>>
      BY <1>5 DEF EndDispatch, NoDispatch
    <2>2. QED
      BY <1>1, <2>1
  <1>6. ASSUME NEW b \in Batch, Worker(b) PROVE Lease!LeaseNext
    BY <1>6, WorkerLease
  <1>7. CASE DispatchCrash
    <2>1. dispatch.taken \in SUBSET Target /\ {} \in SUBSET Target
      BY DEF TypeInv, DispatchOK, Dispatch
    <2>2. Lease!GiveBack(NoTarget, dispatch.taken, {})
      BY <1>7, DispatchCrashLease
    <2>3. QED
      BY <2>1, <2>2 DEF Lease!LeaseNext
  <1>8. CASE Environment /\ ~DispatchCrash
    <2>1. UNCHANGED <<inflight, dispatch, batch, history>>
      BY <1>8 DEF Environment, OperatorRelease, OperatorImport, DeleteSource
    <2>2. QED
      BY <1>1, <2>1
  <1>9. CASE Tick
    BY <1>9, TickLease DEF Lease!LeaseNext
  <1>10. CASE UNCHANGED vars
    BY <1>1, <1>10 DEF vars
  <1>11. QED
    BY <1>2, <1>3, <1>4, <1>5, <1>6, <1>7, <1>8, <1>9, <1>10 DEF Next, Dispatcher

\* Keys, messages, batches and the many ways in which they end implement leases: one
\* holder at a time, and whatever is lost is recorded as lost.
THEOREM LeaseImplemented == Spec => ImplementsLease
  <1>1. Init => TypeInv /\ OwnInv
    BY InitType, InitOwn
  <1>2. Init => Lease!LeaseInit
    BY DEF Init, NoDispatch, Idle, Lease!LeaseInit, HoldersOf, Lost
  <1>3. TypeInv /\ OwnInv /\ [Next]_vars => (TypeInv /\ OwnInv)'
    BY TypeStep, OwnStep
  <1>4. TypeInv /\ OwnInv /\ [Next]_vars => [Lease!LeaseNext]_(Lease!leaseVars)
    BY LeaseStep
  <1>5. QED
    BY <1>1, <1>2, <1>3, <1>4, PTL DEF Spec, ImplementsLease, Lease!LeaseSpec
=============================================================================
