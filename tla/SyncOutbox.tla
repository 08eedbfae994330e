----------------------------- MODULE SyncOutbox -----------------------------
(***************************************************************************)
(* The Discord outbox: the table discord_sync_jobs, the worker that drains *)
(* it every three seconds, the reaper that recovers it after a restart,    *)
(* the operations ledger it reports to and the sync status it writes back  *)
(* on the audit entries it mirrors.                                        *)
(*                                                                         *)
(* One action is one database round trip or one call of the gateway: the   *)
(* process may die, and a cancel, an enqueue or the reaper may run,        *)
(* between any two of them.  The worker holds the rows it read as entities *)
(* in memory and saves whole entities, so a save writes back every column  *)
(* as it was READ, whatever the row holds by then.                         *)
(***************************************************************************)
EXTENDS Naturals, FiniteSets

CONSTANTS
  Jobs,         \* the rows that will ever be inserted
  JobType,      \* the type of each of them
  None,         \* no row at hand
  MaxAttempts,  \* the column maxAttempts
  BatchSize,    \* BATCH_SIZE, rows drained per tick
  BulkSlots,    \* BULK_SLOTS_PER_TICK
  ReapFirst,    \* TRUE: the reaper's read returns before the first tick
  MaxBoots,     \* bound: starts of the process
  MaxDbErrors   \* bound: database calls that fail

\* Mutant: audit mirrors are taken to be safe to repeat.
IdempotentTypes_WithMirror == {"role_grant", "role_relink_apply", "audit_log"}

IdempotentTypes == {"role_grant", "role_relink_apply"}
BulkTypes == {"role_relink_apply"}
JobTypes == IdempotentTypes \cup {"announce", "audit_log"}

ASSUME TypesAssumption == JobType \in [Jobs -> JobTypes]
ASSUME NoneAssumption == None \notin Jobs
ASSUME FiniteAssumption == IsFiniteSet(Jobs)
ASSUME BoundsAssumption ==
  /\ MaxAttempts \in Nat \ {0}
  /\ BatchSize \in Nat /\ BulkSlots \in Nat /\ BulkSlots <= BatchSize
  /\ ReapFirst \in BOOLEAN
  /\ MaxBoots \in Nat \ {0} /\ MaxDbErrors \in Nat

Idempotent(j) == JobType[j] \in IdempotentTypes
Bulk(j) == JobType[j] \in BulkTypes
Mirror(j) == JobType[j] = "audit_log"

VARIABLES
  \* discord_sync_jobs
  status, attempts, due, createdAt,
  \* the audit entry each mirror job reports on, and the record() calls that
  \* have enqueued their mirror and not yet written its status
  syncStatus, recording,
  \* bot_operations, counted per job and outcome
  opsOk, opsFailed,
  \* the drain: where it stands, the rows read and not yet processed, the
  \* column attempts as read, the row in hand
  pc, bulk, interactive, readAttempts, job,
  \* the reaper: likewise
  reaper, orphaned, orphanAttempts, orphan,
  \* bounded by MaxBoots and MaxDbErrors
  boots, dbErrors,
  \* history: calls of the gateway made for a job; those that did not throw
  dispatches, delivered

rows == <<status, attempts, due, createdAt>>
audit == <<syncStatus, recording>>
ops == <<opsOk, opsFailed>>
drain == <<pc, bulk, interactive, readAttempts, job>>
reap == <<reaper, orphaned, orphanAttempts, orphan>>
history == <<dispatches, delivered>>
vars == <<rows, audit, ops, drain, reap, boots, dbErrors, history>>

Statuses == {"absent", "pending", "processing", "succeeded", "failed", "cancelled"}
Terminal == {"succeeded", "failed", "cancelled"}

Init ==
  /\ status = [j \in Jobs |-> "absent"]
  /\ attempts = [j \in Jobs |-> 0]
  /\ due = [j \in Jobs |-> FALSE]
  /\ createdAt = [j \in Jobs |-> 0]
  /\ syncStatus = [j \in Jobs |-> "none"]
  /\ recording = {}
  /\ opsOk = [j \in Jobs |-> 0]
  /\ opsFailed = [j \in Jobs |-> 0]
  /\ pc = "down" /\ bulk = {} /\ interactive = {} /\ job = None
  /\ readAttempts = [j \in Jobs |-> 0]
  /\ reaper = "off" /\ orphaned = {} /\ orphan = None
  /\ orphanAttempts = [j \in Jobs |-> 0]
  /\ boots = 0 /\ dbErrors = 0
  /\ dispatches = [j \in Jobs |-> 0]
  /\ delivered = [j \in Jobs |-> 0]

Up == pc # "down"

\* A database call may fail: a step of the environment, boundedly often.
DbFails == dbErrors < MaxDbErrors /\ dbErrors' = dbErrors + 1
DbWorks == UNCHANGED dbErrors

\* take: n, order: createdAt ASC
Oldest(S, n) ==
  {j \in S : Cardinality({k \in S : createdAt[k] < createdAt[j]}) < n}

-----------------------------------------------------------------------------
(* The producers.                                                          *)

\* DiscordSyncService.insertJob, and the first half of AuditService.record:
\* the entry is saved with a null status before its mirror is enqueued.
Enqueue(j) ==
  /\ Up /\ status[j] = "absent"
  /\ status' = [status EXCEPT ![j] = "pending"]
  /\ due' = [due EXCEPT ![j] = TRUE]
  /\ createdAt' = [createdAt EXCEPT ![j] = Cardinality({k \in Jobs : status[k] # "absent"})]
  /\ IF Mirror(j)
     THEN /\ syncStatus' = [syncStatus EXCEPT ![j] = "null"]
          /\ recording' = recording \cup {j}
     ELSE UNCHANGED audit
  /\ UNCHANGED <<attempts, ops, drain, reap, boots, dbErrors, history>>

\* Mutant: the write of pending is unconditional.
RecordPending_Unguarded(j) ==
  /\ j \in recording
  /\ recording' = recording \ {j}
  /\ syncStatus' = [syncStatus EXCEPT ![j] = "pending"]
  /\ UNCHANGED <<rows, ops, drain, reap, boots, dbErrors, history>>

\* The end of AuditService.record: UPDATE ... SET pending WHERE status IS NULL.
RecordPending(j) ==
  /\ j \in recording
  /\ recording' = recording \ {j}
  /\ \/ /\ DbWorks
        /\ syncStatus' = IF syncStatus[j] = "null"
                         THEN [syncStatus EXCEPT ![j] = "pending"]
                         ELSE syncStatus
     \/ DbFails /\ UNCHANGED syncStatus
  /\ UNCHANGED <<rows, ops, drain, reap, boots, history>>

\* cancelRelink and supersedeRelinkBatches: one UPDATE of the batch's pending rows.
CancelRelink ==
  LET hit == {j \in Jobs : Bulk(j) /\ status[j] = "pending"} IN
  /\ Up /\ hit # {}
  /\ status' = [j \in Jobs |-> IF j \in hit THEN "cancelled" ELSE status[j]]
  /\ UNCHANGED <<attempts, due, createdAt, audit, ops, drain, reap, boots, dbErrors, history>>

BackoffElapses(j) ==
  /\ status[j] = "pending" /\ ~due[j]
  /\ due' = [due EXCEPT ![j] = TRUE]
  /\ UNCHANGED <<status, attempts, createdAt, audit, ops, drain, reap, boots, dbErrors, history>>

-----------------------------------------------------------------------------
(* The drain.                                                              *)

DuePending == {j \in Jobs : status[j] = "pending" /\ due[j]}

Read(S) == readAttempts' = [j \in Jobs |-> IF j \in S THEN attempts[j] ELSE readAttempts[j]]

\* The first find of a tick.  setInterval fires it three seconds after the
\* reaper was started, and nothing else orders the two.
ReadBulk ==
  /\ pc = "idle"
  /\ ReapFirst => reaper # "read"
  /\ bulk' = Oldest({j \in DuePending : Bulk(j)}, BulkSlots)
  /\ Read(bulk')
  /\ pc' = "bulk_read"
  /\ UNCHANGED <<rows, audit, ops, interactive, job, reap, boots, dbErrors, history>>

\* A query that throws out of drain's loop ends the tick: drain() catches it.
LeaveTick ==
  /\ DbFails
  /\ pc' = "idle" /\ bulk' = {} /\ interactive' = {} /\ job' = None
  /\ UNCHANGED <<rows, audit, readAttempts, reap, boots, history>>
AbortTick == LeaveTick /\ UNCHANGED ops

ReadInteractive ==
  /\ pc = "bulk_read"
  /\ \/ /\ DbWorks
        /\ interactive' = Oldest({j \in DuePending : ~Bulk(j)}, BatchSize - Cardinality(bulk))
        /\ Read(interactive')
        /\ pc' = "draining"
        /\ UNCHANGED <<rows, audit, ops, bulk, job, reap, boots, history>>
     \/ AbortTick

NextUp ==
  LET S == IF interactive # {} THEN interactive ELSE bulk IN Oldest(S, 1)

\* jobs.save(job): every column of the entity as the worker holds it.
SaveRow(j, newStatus, newAttempts, newDue) ==
  /\ status' = [status EXCEPT ![j] = newStatus]
  /\ attempts' = [attempts EXCEPT ![j] = newAttempts]
  /\ due' = [due EXCEPT ![j] = newDue]
  /\ UNCHANGED createdAt

\* processJob: "claim the job".  The status the row has by now is not looked at.
Claim(j) ==
  /\ pc = "draining" /\ j \in NextUp
  /\ \/ /\ DbWorks
        /\ SaveRow(j, "processing", readAttempts[j], TRUE)
        /\ interactive' = interactive \ {j} /\ bulk' = bulk \ {j}
        /\ job' = j /\ pc' = "claimed"
        /\ UNCHANGED <<audit, ops, readAttempts, reap, boots, history>>
     \/ AbortTick

EndTick ==
  /\ pc = "draining" /\ interactive = {} /\ bulk = {}
  /\ pc' = "idle"
  /\ UNCHANGED <<rows, audit, ops, bulk, interactive, readAttempts, job, reap, boots, dbErrors, history>>

\* markAuditSync swallows its own failure.
MarkAuditSync(j, outcome) ==
  \/ DbWorks /\ syncStatus' = [syncStatus EXCEPT ![j] = outcome]
  \/ DbFails /\ UNCHANGED syncStatus

\* dispatch returns: the gateway did what was asked.
DispatchDelivers ==
  /\ pc = "claimed"
  /\ dispatches' = [dispatches EXCEPT ![job] = @ + 1]
  /\ delivered' = [delivered EXCEPT ![job] = @ + 1]
  /\ IF Mirror(job) THEN pc' = "posted" ELSE pc' = "sent"
  /\ UNCHANGED <<rows, audit, ops, bulk, interactive, readAttempts, job, reap, boots, dbErrors>>

\* The mirror is in the channel: write the outcome back on its entry.
MirrorSynced ==
  /\ pc = "posted"
  /\ MarkAuditSync(job, "synced")
  /\ pc' = "sent"
  /\ UNCHANGED <<rows, recording, ops, bulk, interactive, readAttempts, job, reap, boots, history>>

\* dispatch returns without touching Discord: role syncing is off by now.
DispatchSkips ==
  /\ pc = "claimed" /\ JobType[job] \in {"role_grant", "role_relink_apply"}
  /\ pc' = "sent"
  /\ UNCHANGED <<rows, audit, ops, bulk, interactive, readAttempts, job, reap, boots, dbErrors, history>>

\* dispatch throws, for good or for now.
DispatchThrows ==
  /\ pc = "claimed"
  /\ dispatches' = [dispatches EXCEPT ![job] = @ + 1]
  /\ pc' \in {"refused", "threw"}
  /\ UNCHANGED <<rows, audit, ops, bulk, interactive, readAttempts, job, reap, boots, dbErrors, delivered>>

BackToQueue == pc' = "draining" /\ job' = None

\* Mutant: the bookkeeping is inside the retry try.
SaveSucceeded_Retried ==
  /\ pc = "sent"
  /\ \/ /\ DbWorks
        /\ SaveRow(job, "succeeded", readAttempts[job], TRUE)
        /\ pc' = "succeeded"
     \/ DbFails /\ pc' = "threw" /\ UNCHANGED rows
  /\ UNCHANGED <<audit, ops, bulk, interactive, readAttempts, job, reap, boots, history>>

\* After a success nothing re-opens the row: a failed save leaves it processing.
SaveSucceeded ==
  /\ pc = "sent"
  /\ \/ /\ DbWorks
        /\ SaveRow(job, "succeeded", readAttempts[job], TRUE)
        /\ pc' = "succeeded" /\ UNCHANGED job
     \/ DbFails /\ BackToQueue /\ UNCHANGED rows
  /\ UNCHANGED <<audit, ops, bulk, interactive, readAttempts, reap, boots, history>>

\* recordOperation: an entry of the ledger, then the connection's heartbeat; a
\* query of its that fails leaves the entry written or not.
Entered(ledger, j) == [ledger EXCEPT ![j] = @ + 1]

\* recordOperation(job, true, false): bulk successes only refresh the heartbeat.
LedgerSuccess ==
  LET entered == IF Bulk(job) THEN opsOk ELSE Entered(opsOk, job) IN
  /\ pc = "succeeded"
  /\ \/ DbWorks /\ opsOk' = entered
     \/ DbFails /\ opsOk' \in {opsOk, entered}
  /\ BackToQueue
  /\ UNCHANGED <<rows, audit, opsFailed, bulk, interactive, readAttempts, reap, boots, history>>

\* Mutant: off by one.
Retryable_OneMore == pc = "threw" /\ readAttempts[job] + 1 <= MaxAttempts

Retryable == pc = "threw" /\ readAttempts[job] + 1 < MaxAttempts

\* Mutant: the attempt is not counted.
SaveRetry_Uncounted ==
  /\ Retryable
  /\ DbWorks
  /\ SaveRow(job, "pending", readAttempts[job], FALSE)
  /\ BackToQueue
  /\ UNCHANGED <<audit, ops, bulk, interactive, readAttempts, reap, boots, history>>

\* handleFailure: put the row back with a backoff ...
SaveRetry ==
  /\ Retryable
  /\ \/ /\ DbWorks
        /\ SaveRow(job, "pending", readAttempts[job] + 1, FALSE)
        /\ BackToQueue
        /\ UNCHANGED <<audit, ops, bulk, interactive, readAttempts, reap, boots, history>>
     \/ AbortTick

\* ... or give up and surface the failure.
SaveFailed ==
  /\ pc \in {"threw", "refused"} /\ ~Retryable
  /\ \/ /\ DbWorks
        /\ SaveRow(job, "failed", readAttempts[job] + 1, TRUE)
        /\ pc' = "failed"
        /\ UNCHANGED <<audit, ops, bulk, interactive, readAttempts, job, reap, boots, history>>
     \/ AbortTick

\* Mutant: a mirror that failed does not tell its audit entry.
LedgerFailure_NoMirror ==
  /\ pc = "failed"
  /\ DbWorks
  /\ opsFailed' = [opsFailed EXCEPT ![job] = @ + 1]
  /\ BackToQueue
  /\ UNCHANGED <<rows, audit, opsOk, bulk, interactive, readAttempts, reap, boots, history>>

\* The worker's own report, audit.record at the end of handleFailure, is one more
\* Enqueue; where it throws, the tick ends as where the next claim does.
LedgerFailure ==
  /\ pc = "failed"
  /\ \/ /\ DbWorks
        /\ opsFailed' = Entered(opsFailed, job)
        /\ IF Mirror(job) THEN pc' = "mirror_lost" /\ UNCHANGED job ELSE BackToQueue
        /\ UNCHANGED <<rows, audit, opsOk, bulk, interactive, readAttempts, reap, boots, history>>
     \/ LeaveTick /\ opsFailed' \in {opsFailed, Entered(opsFailed, job)} /\ UNCHANGED opsOk

MirrorFailed ==
  /\ pc = "mirror_lost"
  /\ MarkAuditSync(job, "failed")
  /\ BackToQueue
  /\ UNCHANGED <<rows, recording, ops, bulk, interactive, readAttempts, reap, boots, history>>

-----------------------------------------------------------------------------
(* Restarts and the reaper.                                                *)

Crash ==
  /\ Up /\ boots < MaxBoots
  /\ pc' = "down" /\ bulk' = {} /\ interactive' = {} /\ job' = None
  /\ reaper' = "off" /\ orphaned' = {} /\ orphan' = None
  /\ recording' = {}
  /\ UNCHANGED <<rows, syncStatus, ops, readAttempts, orphanAttempts, boots, dbErrors, history>>

\* onModuleInit: the reaper is started and not awaited, then the timer is armed.
Boot ==
  /\ ~Up
  /\ boots' = boots + 1
  /\ pc' = "idle" /\ reaper' = "read"
  /\ UNCHANGED <<rows, audit, ops, bulk, interactive, readAttempts, job,
                 orphaned, orphanAttempts, orphan, dbErrors, history>>

LeaveReap ==
  /\ DbFails
  /\ reaper' = "off" /\ orphaned' = {} /\ orphan' = None
  /\ UNCHANGED <<rows, audit, drain, orphanAttempts, boots, history>>
AbortReap == LeaveReap /\ UNCHANGED ops

\* Mutant: only the rows to be reported are looked for.
ReapRead_OneShotOnly ==
  /\ reaper = "read"
  /\ DbWorks
  /\ orphaned' = {j \in Jobs : status[j] = "processing" /\ ~Idempotent(j)}
  /\ orphanAttempts' = attempts
  /\ reaper' = "saving"
  /\ UNCHANGED <<rows, audit, ops, drain, orphan, boots, history>>

ReapRead ==
  /\ reaper = "read"
  /\ \/ /\ DbWorks
        /\ orphaned' = {j \in Jobs : status[j] = "processing"}
        /\ orphanAttempts' = attempts
        /\ reaper' = "saving" /\ UNCHANGED orphan
        /\ UNCHANGED <<rows, audit, ops, drain, boots, history>>
     \/ AbortReap

ReapIdempotent(j) ==
  /\ reaper = "saving" /\ j \in orphaned /\ Idempotent(j)
  /\ \/ /\ DbWorks
        /\ SaveRow(j, "pending", orphanAttempts[j], TRUE)
        /\ orphaned' = orphaned \ {j}
        /\ UNCHANGED <<audit, ops, drain, reaper, orphanAttempts, orphan, boots, history>>
     \/ AbortReap

ReapOther(j) ==
  /\ reaper = "saving" /\ j \in orphaned /\ ~Idempotent(j)
  /\ \/ /\ DbWorks
        /\ SaveRow(j, "failed", orphanAttempts[j], TRUE)
        /\ orphaned' = orphaned \ {j} /\ orphan' = j /\ reaper' = "saved"
        /\ UNCHANGED <<audit, ops, drain, orphanAttempts, boots, history>>
     \/ AbortReap

ReapLedger ==
  /\ reaper = "saved"
  /\ \/ /\ DbWorks
        /\ opsFailed' = Entered(opsFailed, orphan)
        /\ IF Mirror(orphan)
           THEN reaper' = "ledgered" /\ UNCHANGED orphan
           ELSE reaper' = "saving" /\ orphan' = None
        /\ UNCHANGED <<rows, audit, opsOk, drain, orphaned, orphanAttempts, boots, history>>
     \/ LeaveReap /\ opsFailed' \in {opsFailed, Entered(opsFailed, orphan)} /\ UNCHANGED opsOk

ReapMirror ==
  /\ reaper = "ledgered"
  /\ MarkAuditSync(orphan, "failed")
  /\ reaper' = "saving" /\ orphan' = None
  /\ UNCHANGED <<rows, recording, ops, drain, orphaned, orphanAttempts, boots, history>>

ReapDone ==
  /\ reaper = "saving" /\ orphaned = {}
  /\ reaper' = "off"
  /\ UNCHANGED <<rows, audit, ops, drain, orphaned, orphanAttempts, orphan, boots, dbErrors, history>>

-----------------------------------------------------------------------------
Producers ==
  \/ \E j \in Jobs : Enqueue(j) \/ RecordPending(j)
  \/ CancelRelink

Drain ==
  \/ ReadBulk \/ ReadInteractive \/ EndTick
  \/ \E j \in Jobs : Claim(j)
  \/ DispatchDelivers \/ MirrorSynced \/ DispatchSkips \/ DispatchThrows
  \/ SaveSucceeded \/ LedgerSuccess
  \/ SaveRetry \/ SaveFailed \/ LedgerFailure \/ MirrorFailed

Reap ==
  \/ ReapRead \/ ReapLedger \/ ReapMirror \/ ReapDone
  \/ \E j \in Jobs : ReapIdempotent(j) \/ ReapOther(j)

Next ==
  \/ Producers
  \/ \E j \in Jobs : BackoffElapses(j)
  \/ Drain
  \/ Reap
  \/ Crash
  \/ Boot

Spec == Init /\ [][Next]_vars

(* The timer keeps ticking while the process is up, awaited calls return,  *)
(* time passes, and the supervisor restarts a dead process                 *)
(* (docker-compose.prod.yml: restart: unless-stopped).  Nobody is obliged  *)
(* to enqueue or to cancel.                                                *)
Fairness ==
  /\ WF_vars(Drain)
  /\ WF_vars(Reap)
  /\ WF_vars(Boot)
  /\ \A j \in Jobs : WF_vars(BackoffElapses(j))

FairSpec == Spec /\ Fairness
-----------------------------------------------------------------------------
(* Properties.                                                             *)

Positions == {"down", "idle", "bulk_read", "draining", "claimed", "posted", "sent",
              "succeeded", "threw", "refused", "failed", "mirror_lost"}

\* Types; a row never carries more attempts than maxAttempts, and the drain has
\* a row in hand exactly between claiming it and putting it away.
TypeOK ==
  /\ status \in [Jobs -> Statuses]
  /\ attempts \in [Jobs -> 0..MaxAttempts]
  /\ due \in [Jobs -> BOOLEAN]
  /\ createdAt \in [Jobs -> Nat]
  /\ syncStatus \in [Jobs -> {"none", "null", "pending", "synced", "failed"}]
  /\ recording \subseteq Jobs
  /\ opsOk \in [Jobs -> Nat] /\ opsFailed \in [Jobs -> Nat]
  /\ pc \in Positions
  /\ bulk \subseteq Jobs /\ interactive \subseteq Jobs
  /\ readAttempts \in [Jobs -> 0..MaxAttempts]
  /\ job \in Jobs \cup {None}
  /\ (job = None) <=> (pc \in {"down", "idle", "bulk_read", "draining"})
  /\ reaper \in {"off", "read", "saving", "saved", "ledgered"}
  /\ orphaned \subseteq Jobs
  /\ orphanAttempts \in [Jobs -> 0..MaxAttempts]
  /\ orphan \in Jobs \cup {None}
  /\ (orphan = None) <=> (reaper \in {"off", "read", "saving"})
  /\ pc = "down" => reaper = "off"
  /\ boots \in Nat /\ dbErrors \in Nat
  /\ dispatches \in [Jobs -> Nat] /\ delivered \in [Jobs -> Nat]

\* What the type invariant needs to be inductive: whoever holds a row that may
\* still be tried holds it with an attempt left.
AttemptsLeft ==
  /\ \A j \in Jobs : status[j] \notin {"succeeded", "failed"} => attempts[j] < MaxAttempts
  /\ \A j \in bulk \cup interactive \cup {job} : j # None => readAttempts[j] < MaxAttempts
  /\ \A j \in orphaned : orphanAttempts[j] < MaxAttempts

\* What AtMostOnce needs: a one-shot job that was delivered has left the queue
\* for good, and the drain cannot fail or retry it any more.
DeliveredIsSpent ==
  \A j \in Jobs : ~Idempotent(j) =>
    /\ job = j => j \notin bulk \cup interactive
    /\ job = j /\ pc = "claimed" => status[j] \in {"processing", "failed"}
    /\ delivered[j] > 0 =>
         /\ status[j] \in {"processing", "succeeded", "failed"}
         /\ j \notin bulk \cup interactive
         /\ job = j => pc \in {"posted", "sent", "succeeded"}

\* "Post-success bookkeeping must NEVER re-open the job": whatever crashes,
\* restarts, failed saves and slow reaper come between, a job whose effect must
\* not be repeated (an announcement, an audit mirror) is delivered at most once.
AtMostOnce == \A j \in Jobs : ~Idempotent(j) => delivered[j] <= 1

\* The worker's budget of invalid requests: over its whole life a job reaches
\* Discord at most maxAttempts times, plus once for every restart (the attempt
\* a crash, or a save that failed, has left uncounted).
DispatchBudget ==
  \A j \in Jobs : dispatches[j] > 0 => dispatches[j] <= MaxAttempts + (boots - 1)

\* Nobody holds j: the drain is not between its claim and its last write, and
\* neither is the reaper.
PutAway(j) == job # j /\ orphan # j /\ j \notin orphaned \cup recording

\* While no database call has failed and the process has stayed up, every settled
\* row has been reported exactly once, with the outcome it settled with, and the
\* audit entry of a settled mirror says what became of it.
SettledIsReported ==
  \A j \in Jobs : PutAway(j) /\ Up /\ boots = 1 /\ dbErrors = 0 =>
    /\ opsFailed[j] = IF status[j] = "failed" THEN 1 ELSE 0
    /\ opsOk[j] = IF status[j] = "succeeded" /\ ~Bulk(j) THEN 1 ELSE 0
    /\ Mirror(j) => /\ status[j] = "succeeded" <=> syncStatus[j] = "synced"
                    /\ status[j] = "failed" <=> syncStatus[j] = "failed"

\* The status of an audit entry: pending only until the mirror's outcome is
\* known, however the slow end of record() and a fast worker interleave.  Which
\* outcome that is may still change, where the reaper and the drain differ.
AuditStatusFinal ==
  [][\A j \in Jobs : syncStatus[j] \in {"synced", "failed"}
       => syncStatus'[j] \in {"synced", "failed"}]_syncStatus

\* Every row that waits is settled in the end, through retries and restarts, as
\* long as no database call fails (a row whose last save failed waits for the
\* next restart, which may never come).
EveryJobSettles ==
  \A j \in Jobs : status[j] = "pending" ~> (status[j] \in Terminal \/ dbErrors > 0)

\* onModuleInit: "Recover any jobs left mid-flight by a previous process before
\* draining": the reaper never takes the row the drain has in hand for an orphan.
ReapedAreOrphans == job \notin orphaned
=============================================================================
