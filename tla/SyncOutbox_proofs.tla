------------------------- MODULE SyncOutbox_proofs -------------------------
(***************************************************************************)
(* Theorems about the outbox, for every set of jobs, every number of       *)
(* restarts and of failing database calls, and a reaper however slow.      *)
(***************************************************************************)
EXTENDS SyncOutboxContract, FiniteSetTheorems, TLAPS

\* The first invariant: types, and an attempt left on every row in play.
TypeInv == TypeOK /\ AttemptsLeft

\* A position in creation order is a natural number.
LEMMA InsertedIsNat == ASSUME TRUE PROVE Cardinality({k \in Jobs : status[k] # "absent"}) \in Nat
  BY FiniteAssumption, FS_Subset, FS_CardinalityType

\* The rows a find returns are among the rows it looks for.
LEMMA OldestIn == ASSUME NEW S, NEW n PROVE Oldest(S, n) \subseteq S
  BY DEF Oldest

\* The part of the first invariant that is about the table.
RowsOK ==
  /\ status \in [Jobs -> Statuses] /\ attempts \in [Jobs -> 0..MaxAttempts]
  /\ due \in [Jobs -> BOOLEAN] /\ createdAt \in [Jobs -> Nat]
  /\ \A j \in Jobs : status[j] \notin {"succeeded", "failed"} => attempts[j] < MaxAttempts

\* What a save leaves in the table.
LEMMA SavedRow ==
  ASSUME RowsOK, NEW j \in Jobs, NEW s \in Statuses, NEW n \in 0..MaxAttempts, NEW d \in BOOLEAN,
         SaveRow(j, s, n, d), s \in {"succeeded", "failed"} \/ n < MaxAttempts
  PROVE  RowsOK'
<1>1. \A i \in Jobs : status'[i] = (IF i = j THEN s ELSE status[i])
                   /\ attempts'[i] = (IF i = j THEN n ELSE attempts[i])
  BY DEF SaveRow, RowsOK
<1> QED
  BY <1>1, BoundsAssumption DEF SaveRow, RowsOK

\* The initial state.
LEMMA TypeInit == Init => TypeInv
  BY NoneAssumption, BoundsAssumption
  DEF Init, TypeInv, TypeOK, AttemptsLeft, Statuses, Positions

\* Every step preserves the first invariant.
LEMMA TypeStep == TypeInv /\ [Next]_vars => TypeInv'
<1> SUFFICES ASSUME TypeInv, [Next]_vars PROVE TypeInv'
  OBVIOUS
<1> USE NoneAssumption, BoundsAssumption
        DEF TypeInv, TypeOK, AttemptsLeft, Statuses, Positions, rows, audit, ops, drain, reap, history
<1>1. ASSUME NEW j \in Jobs, Enqueue(j) PROVE TypeInv'
  BY <1>1, InsertedIsNat DEF Enqueue
<1>2. ASSUME NEW j \in Jobs, RecordPending(j) PROVE TypeInv'
  BY <1>2 DEF RecordPending, DbFails, DbWorks
<1>3. CASE CancelRelink
  BY <1>3 DEF CancelRelink
<1>4. ASSUME NEW j \in Jobs, BackoffElapses(j) PROVE TypeInv'
  BY <1>4 DEF BackoffElapses
<1>5. CASE ReadBulk
  <2>1. bulk' \subseteq {j \in Jobs : status[j] = "pending"}
    BY <1>5, OldestIn DEF ReadBulk, DuePending
  <2> QED
    BY <1>5, <2>1 DEF ReadBulk, Read
<1>6. CASE AbortTick /\ pc # "down"
  BY <1>6 DEF AbortTick, LeaveTick, DbFails
<1>7. CASE ReadInteractive
  <2>1. CASE AbortTick
    BY <1>7, <2>1, <1>6 DEF ReadInteractive
  <2>2. CASE ~AbortTick
    <3>1. interactive' \subseteq {j \in Jobs : status[j] = "pending"}
      BY <1>7, <2>2, OldestIn DEF ReadInteractive, DuePending
    <3> QED
      BY <1>7, <2>2, <3>1 DEF ReadInteractive, Read, DbWorks
  <2> QED
    BY <2>1, <2>2
<1>8. CASE EndTick
  BY <1>8 DEF EndTick
<1>0. RowsOK
  BY DEF RowsOK
<1>9. ASSUME NEW j \in Jobs, Claim(j) PROVE TypeInv'
  <2>1. j \in bulk \cup interactive
    BY <1>9, OldestIn DEF Claim, NextUp
  <2>2. CASE AbortTick
    BY <1>9, <2>2, <1>6 DEF Claim
  <2>3. CASE ~AbortTick
    <3>1. readAttempts[j] \in 0..MaxAttempts /\ readAttempts[j] < MaxAttempts /\ j # None
      BY <2>1
    <3>2. SaveRow(j, "processing", readAttempts[j], TRUE)
      BY <1>9, <2>3 DEF Claim
    <3>3. RowsOK'
      BY <3>1, <3>2, <1>0, SavedRow
    <3> QED
      BY <1>9, <2>1, <2>3, <3>1, <3>3 DEF Claim, DbWorks, RowsOK
  <2> QED
    BY <2>2, <2>3
<1>10. CASE DispatchDelivers
  BY <1>10 DEF DispatchDelivers
<1>11. CASE MirrorSynced
  BY <1>11 DEF MirrorSynced, MarkAuditSync, DbFails, DbWorks
<1>12. CASE DispatchSkips
  BY <1>12 DEF DispatchSkips
<1>13. CASE DispatchThrows
  BY <1>13 DEF DispatchThrows
<1>14. CASE SaveSucceeded
  <2>1. job \in Jobs /\ readAttempts[job] \in 0..MaxAttempts
    BY <1>14 DEF SaveSucceeded
  <2>2. RowsOK'
    BY <1>0, <1>14, <2>1, SavedRow DEF SaveSucceeded, RowsOK
  <2>3. CASE BackToQueue
    BY <1>14, <2>2, <2>3 DEF SaveSucceeded, BackToQueue, DbFails, DbWorks, RowsOK
  <2>4. CASE ~BackToQueue
    BY <1>14, <2>1, <2>2, <2>4 DEF SaveSucceeded, DbWorks, RowsOK
  <2> QED
    BY <2>3, <2>4
<1>15. CASE LedgerSuccess
  BY <1>15 DEF LedgerSuccess, Entered, BackToQueue, DbFails, DbWorks
<1>16. CASE SaveRetry
  <2>1. job \in Jobs /\ readAttempts[job] \in 0..MaxAttempts /\ readAttempts[job] + 1 < MaxAttempts
    BY <1>16 DEF SaveRetry, Retryable
  <2>2. CASE AbortTick
    BY <1>16, <2>2, <1>6 DEF SaveRetry, Retryable
  <2>3. CASE ~AbortTick
    <3>1. readAttempts[job] + 1 \in 0..MaxAttempts
      BY <2>1
    <3>2. RowsOK'
      BY <1>0, <1>16, <2>1, <2>3, <3>1, SavedRow DEF SaveRetry
    <3> QED
      BY <1>16, <2>1, <2>3, <3>2 DEF SaveRetry, BackToQueue, DbWorks, RowsOK
  <2> QED
    BY <2>2, <2>3
<1>17. CASE SaveFailed
  <2>1. job \in Jobs /\ readAttempts[job] \in 0..MaxAttempts /\ readAttempts[job] < MaxAttempts
    BY <1>17 DEF SaveFailed
  <2>2. CASE AbortTick
    BY <1>17, <2>2, <1>6 DEF SaveFailed
  <2>3. CASE ~AbortTick
    <3>1. readAttempts[job] + 1 \in 0..MaxAttempts
      BY <2>1
    <3>2. RowsOK'
      BY <1>0, <1>17, <2>1, <2>3, <3>1, SavedRow DEF SaveFailed
    <3> QED
      BY <1>17, <2>1, <2>3, <3>2 DEF SaveFailed, DbWorks, RowsOK
  <2> QED
    BY <2>2, <2>3
<1>18. CASE LedgerFailure
  <2>1. opsFailed' \in {opsFailed, Entered(opsFailed, job)}
    BY <1>18 DEF LedgerFailure
  <2>2. opsFailed' \in [Jobs -> Nat]
    BY <2>1 DEF Entered
  <2>3. CASE LeaveTick /\ UNCHANGED opsOk
    BY <1>18, <2>2, <2>3 DEF LedgerFailure, LeaveTick, DbFails
  <2>4. CASE ~(LeaveTick /\ UNCHANGED opsOk)
    BY <1>18, <2>2, <2>4 DEF LedgerFailure, BackToQueue, DbWorks
  <2> QED
    BY <2>3, <2>4
<1>19. CASE MirrorFailed
  BY <1>19 DEF MirrorFailed, MarkAuditSync, BackToQueue, DbFails, DbWorks
<1>20. CASE AbortReap
  BY <1>20 DEF AbortReap, LeaveReap, DbFails
<1>21. CASE ReapRead
  BY <1>21, <1>20 DEF ReapRead, DbWorks
<1>22. ASSUME NEW j \in Jobs, ReapIdempotent(j) PROVE TypeInv'
  <2>1. orphanAttempts[j] \in 0..MaxAttempts /\ orphanAttempts[j] < MaxAttempts
    BY <1>22 DEF ReapIdempotent
  <2>2. CASE AbortReap
    BY <2>2, <1>20
  <2>3. CASE ~AbortReap
    <3>1. SaveRow(j, "pending", orphanAttempts[j], TRUE)
      BY <1>22, <2>3 DEF ReapIdempotent
    <3>2. RowsOK'
      BY <1>0, <2>1, <3>1, SavedRow
    <3> QED
      BY <1>22, <2>1, <2>3, <3>2 DEF ReapIdempotent, DbWorks, RowsOK
  <2> QED
    BY <2>2, <2>3
<1>23. ASSUME NEW j \in Jobs, ReapOther(j) PROVE TypeInv'
  <2>1. orphanAttempts[j] \in 0..MaxAttempts /\ orphanAttempts[j] < MaxAttempts
    BY <1>23 DEF ReapOther
  <2>2. CASE AbortReap
    BY <2>2, <1>20
  <2>3. CASE ~AbortReap
    <3>1. SaveRow(j, "failed", orphanAttempts[j], TRUE)
      BY <1>23, <2>3 DEF ReapOther
    <3>2. RowsOK'
      BY <1>0, <2>1, <3>1, SavedRow
    <3> QED
      BY <1>23, <2>1, <2>3, <3>2 DEF ReapOther, DbWorks, RowsOK
  <2> QED
    BY <2>2, <2>3
<1>24. CASE ReapLedger
  <2>1. opsFailed' \in {opsFailed, Entered(opsFailed, orphan)}
    BY <1>24 DEF ReapLedger
  <2>2. opsFailed' \in [Jobs -> Nat]
    BY <2>1 DEF Entered
  <2>3. CASE LeaveReap /\ UNCHANGED opsOk
    BY <1>24, <2>2, <2>3 DEF ReapLedger, LeaveReap, DbFails
  <2>4. CASE ~(LeaveReap /\ UNCHANGED opsOk)
    BY <1>24, <2>2, <2>4 DEF ReapLedger, DbWorks
  <2> QED
    BY <2>3, <2>4
<1>25. CASE ReapMirror
  BY <1>25 DEF ReapMirror, MarkAuditSync, DbFails, DbWorks
<1>26. CASE ReapDone
  BY <1>26 DEF ReapDone
<1>27. CASE Crash
  BY <1>27 DEF Crash
<1>28. CASE Boot
  BY <1>28 DEF Boot, Up
<1>29. CASE UNCHANGED vars
  BY <1>29 DEF vars
<1> QED
  BY <1>1, <1>2, <1>3, <1>4, <1>5, <1>7, <1>8, <1>9, <1>10, <1>11, <1>12, <1>13, <1>14, <1>15,
     <1>16, <1>17, <1>18, <1>19, <1>21, <1>22, <1>23, <1>24, <1>25, <1>26, <1>27, <1>28, <1>29
  DEF Next, Producers, Drain, Reap

\* The rows, the worker and the reaper keep their types in every execution, and
\* no row is ever charged more than maxAttempts attempts.
THEOREM TypeCorrect == Spec => []TypeOK
<1>1. TypeInv => TypeOK
  BY DEF TypeInv
<1> QED
  BY TypeInit, TypeStep, <1>1, PTL DEF Spec

-----------------------------------------------------------------------------
\* The second invariant: at most one delivery, and none left to come.
OnceInv == AtMostOnce /\ DeliveredIsSpent

\* Nothing is delivered before anything is enqueued.
LEMMA OnceInit == Init => OnceInv
  BY NoneAssumption DEF Init, OnceInv, AtMostOnce, DeliveredIsSpent

\* Every step preserves the second invariant.
LEMMA OnceStep == TypeOK /\ OnceInv /\ [Next]_vars => OnceInv'
<1> SUFFICES ASSUME TypeOK, OnceInv, [Next]_vars PROVE OnceInv'
  OBVIOUS
<1> USE NoneAssumption
        DEF TypeOK, OnceInv, AtMostOnce, DeliveredIsSpent, rows, audit, ops, drain, reap, history
<1>1. ASSUME NEW j \in Jobs, Enqueue(j) PROVE OnceInv'
  BY <1>1 DEF Enqueue
<1>2. ASSUME NEW j \in Jobs, RecordPending(j) PROVE OnceInv'
  BY <1>2 DEF RecordPending
<1>3. CASE CancelRelink
  BY <1>3 DEF CancelRelink
<1>4. ASSUME NEW j \in Jobs, BackoffElapses(j) PROVE OnceInv'
  BY <1>4 DEF BackoffElapses
<1>5. CASE ReadBulk
  <2>1. bulk' \subseteq {j \in Jobs : status[j] = "pending"}
    BY <1>5, OldestIn DEF ReadBulk, DuePending
  <2> QED
    BY <1>5, <2>1 DEF ReadBulk
<1>6. CASE AbortTick
  BY <1>6 DEF AbortTick, LeaveTick
<1>7. CASE ReadInteractive
  <2>1. AbortTick \/ interactive' \subseteq {j \in Jobs : status[j] = "pending"}
    BY <1>7, OldestIn DEF ReadInteractive, DuePending
  <2> QED
    BY <1>6, <1>7, <2>1 DEF ReadInteractive
<1>8. CASE EndTick
  BY <1>8 DEF EndTick
<1>9. ASSUME NEW j \in Jobs, Claim(j) PROVE OnceInv'
  <2>1. j \in bulk \cup interactive
    BY <1>9, OldestIn DEF Claim, NextUp
  <2> QED
    BY <1>9, <2>1, <1>6 DEF Claim, SaveRow
<1>10. CASE DispatchDelivers
  BY <1>10 DEF DispatchDelivers
<1>11. CASE MirrorSynced
  BY <1>11 DEF MirrorSynced
<1>12. CASE DispatchSkips
  BY <1>12 DEF DispatchSkips, Idempotent, IdempotentTypes
<1>13. CASE DispatchThrows
  BY <1>13 DEF DispatchThrows
<1>14. CASE SaveSucceeded
  <2>1. CASE BackToQueue
    BY <1>14, <2>1 DEF SaveSucceeded, SaveRow, BackToQueue
  <2>2. CASE ~BackToQueue
    BY <1>14, <2>2 DEF SaveSucceeded, SaveRow
  <2> QED
    BY <2>1, <2>2
<1>15. CASE LedgerSuccess
  BY <1>15 DEF LedgerSuccess, Entered, BackToQueue
<1>16. CASE SaveRetry
  BY <1>16, <1>6 DEF SaveRetry, Retryable, SaveRow, BackToQueue
<1>17. CASE SaveFailed
  BY <1>17, <1>6 DEF SaveFailed, SaveRow
<1>18. CASE LedgerFailure
  BY <1>18, <1>6 DEF LedgerFailure, LeaveTick, Entered, BackToQueue
<1>19. CASE MirrorFailed
  BY <1>19 DEF MirrorFailed, BackToQueue
<1>20. CASE AbortReap
  BY <1>20 DEF AbortReap, LeaveReap
<1>21. CASE ReapRead
  BY <1>21, <1>20 DEF ReapRead
<1>22. ASSUME NEW j \in Jobs, ReapIdempotent(j) PROVE OnceInv'
  BY <1>22, <1>20 DEF ReapIdempotent, SaveRow
<1>23. ASSUME NEW j \in Jobs, ReapOther(j) PROVE OnceInv'
  BY <1>23, <1>20 DEF ReapOther, SaveRow
<1>24. CASE ReapLedger
  BY <1>24, <1>20 DEF ReapLedger, LeaveReap, Entered
<1>25. CASE ReapMirror
  BY <1>25 DEF ReapMirror
<1>26. CASE ReapDone
  BY <1>26 DEF ReapDone
<1>27. CASE Crash
  BY <1>27 DEF Crash
<1>28. CASE Boot
  BY <1>28 DEF Boot, Up
<1>29. CASE UNCHANGED vars
  BY <1>29 DEF vars
<1> QED
  BY <1>1, <1>2, <1>3, <1>4, <1>5, <1>7, <1>8, <1>9, <1>10, <1>11, <1>12, <1>13, <1>14, <1>15,
     <1>16, <1>17, <1>18, <1>19, <1>21, <1>22, <1>23, <1>24, <1>25, <1>26, <1>27, <1>28, <1>29
  DEF Next, Producers, Drain, Reap

\* An announcement, a reminder, a welcome or an audit mirror is delivered at
\* most once, whatever crashes, restarts, failed saves and reaper there are.
THEOREM DeliveredAtMostOnce == Spec => []AtMostOnce
<1>1. OnceInv => AtMostOnce
  BY DEF OnceInv
<1> QED
  BY TypeCorrect, OnceInit, OnceStep, <1>1, PTL DEF Spec

-----------------------------------------------------------------------------
\* The rest holds where the reaper has read before the first tick.  Then every
\* row is in one pair of hands at most, and the table says whose: what the drain
\* has read still waits (or was cancelled since), what it has in hand it has
\* marked, what the reaper has read is still as the dead process left it, and
\* the attempts in memory are those of the row.
InFlight == {"claimed", "posted", "sent", "threw", "refused"}
Custody ==
  /\ reaper = "read" => pc = "idle"
  /\ pc \in {"down", "idle"} => bulk = {} /\ interactive = {}
  /\ \A j \in bulk \cup interactive :
       status[j] \in {"pending", "cancelled"} /\ readAttempts[j] = attempts[j]
  /\ pc \in InFlight => /\ status[job] = "processing" /\ job \notin orphaned
                        /\ readAttempts[job] = attempts[job]
  /\ pc = "succeeded" => status[job] = "succeeded"
  /\ pc \in {"failed", "mirror_lost"} => status[job] = "failed"
  /\ \A j \in orphaned : status[j] = "processing" /\ orphanAttempts[j] = attempts[j]
  /\ orphan # None => status[orphan] = "failed"

\* Nothing is held at first.
LEMMA CustodyInit == Init => Custody
  BY DEF Init, Custody, InFlight

\* Every step preserves custody.
LEMMA CustodyStep == ReapFirst /\ TypeOK /\ Custody /\ [Next]_vars => Custody'
<1> SUFFICES ASSUME ReapFirst, TypeOK, Custody, [Next]_vars PROVE Custody'
  OBVIOUS
<1> USE NoneAssumption
        DEF TypeOK, Custody, InFlight, rows, audit, ops, drain, reap, history
<1>1. ASSUME NEW j \in Jobs, Enqueue(j) PROVE Custody'
  BY <1>1 DEF Enqueue
<1>2. ASSUME NEW j \in Jobs, RecordPending(j) PROVE Custody'
  BY <1>2 DEF RecordPending
<1>3. CASE CancelRelink
  BY <1>3 DEF CancelRelink
<1>4. ASSUME NEW j \in Jobs, BackoffElapses(j) PROVE Custody'
  BY <1>4 DEF BackoffElapses
<1>5. CASE ReadBulk
  <2>1. bulk' \subseteq {j \in Jobs : status[j] = "pending"}
    BY <1>5, OldestIn DEF ReadBulk, DuePending
  <2> QED
    BY <1>5, <2>1 DEF ReadBulk, Read
<1>6. CASE AbortTick /\ pc \notin {"down"}  /\ reaper # "read"
  BY <1>6 DEF AbortTick, LeaveTick
<1>7. CASE ReadInteractive
  <2>1. CASE AbortTick
    BY <1>7, <1>6, <2>1 DEF ReadInteractive
  <2>2. CASE ~AbortTick
    <3>1. interactive' \subseteq {j \in Jobs : status[j] = "pending"}
      BY <1>7, <2>2, OldestIn DEF ReadInteractive, DuePending
    <3> QED
      BY <1>7, <2>2, <3>1 DEF ReadInteractive, Read
  <2> QED
    BY <2>1, <2>2
<1>8. CASE EndTick
  BY <1>8 DEF EndTick
<1>9. ASSUME NEW j \in Jobs, Claim(j) PROVE Custody'
  <2>1. j \in bulk \cup interactive
    BY <1>9, OldestIn DEF Claim, NextUp
  <2> QED
    BY <1>9, <2>1, <1>6 DEF Claim, SaveRow
<1>10. CASE DispatchDelivers
  BY <1>10 DEF DispatchDelivers
<1>11. CASE MirrorSynced
  BY <1>11 DEF MirrorSynced
<1>12. CASE DispatchSkips
  BY <1>12 DEF DispatchSkips
<1>13. CASE DispatchThrows
  BY <1>13 DEF DispatchThrows
<1>14. CASE SaveSucceeded
  <2>1. CASE BackToQueue
    BY <1>14, <2>1 DEF SaveSucceeded, SaveRow, BackToQueue
  <2>2. CASE ~BackToQueue
    BY <1>14, <2>2 DEF SaveSucceeded, SaveRow
  <2> QED
    BY <2>1, <2>2
<1>15. CASE LedgerSuccess
  BY <1>15 DEF LedgerSuccess, Entered, BackToQueue
<1>16. CASE SaveRetry
  BY <1>16, <1>6 DEF SaveRetry, Retryable, SaveRow, BackToQueue
<1>17. CASE SaveFailed
  BY <1>17, <1>6 DEF SaveFailed, SaveRow
<1>18. CASE LedgerFailure
  BY <1>18, <1>6 DEF LedgerFailure, LeaveTick, Entered, BackToQueue
<1>19. CASE MirrorFailed
  BY <1>19 DEF MirrorFailed, BackToQueue
<1>20. CASE AbortReap
  BY <1>20 DEF AbortReap, LeaveReap
<1>21. CASE ReapRead
  BY <1>21, <1>20 DEF ReapRead
<1>22. ASSUME NEW j \in Jobs, ReapIdempotent(j) PROVE Custody'
  BY <1>22, <1>20 DEF ReapIdempotent, SaveRow
<1>23. ASSUME NEW j \in Jobs, ReapOther(j) PROVE Custody'
  BY <1>23, <1>20 DEF ReapOther, SaveRow
<1>24. CASE ReapLedger
  BY <1>24, <1>20 DEF ReapLedger, LeaveReap, Entered
<1>25. CASE ReapMirror
  BY <1>25 DEF ReapMirror
<1>26. CASE ReapDone
  BY <1>26 DEF ReapDone
<1>27. CASE Crash
  BY <1>27 DEF Crash
<1>28. CASE Boot
  BY <1>28 DEF Boot, Up
<1>29. CASE UNCHANGED vars
  BY <1>29 DEF vars
<1> QED
  BY <1>1, <1>2, <1>3, <1>4, <1>5, <1>7, <1>8, <1>9, <1>10, <1>11, <1>12, <1>13, <1>14, <1>15,
     <1>16, <1>17, <1>18, <1>19, <1>21, <1>22, <1>23, <1>24, <1>25, <1>26, <1>27, <1>28, <1>29
  DEF Next, Producers, Drain, Reap

\* The order the source's comment asks for ("recover any jobs left mid-flight by
\* a previous process before draining") is enough: where the reaper has read
\* before the first tick, it never takes the row in hand for an orphan.
THEOREM OrphansAreDead == ReapFirst => (Spec => []ReapedAreOrphans)
<1> SUFFICES ASSUME ReapFirst PROVE Spec => []ReapedAreOrphans
  OBVIOUS
<1>1. TypeInv => TypeOK
  BY DEF TypeInv
<1>2. TypeOK /\ Custody => ReapedAreOrphans
  BY NoneAssumption DEF TypeOK, Positions, Custody, InFlight, ReapedAreOrphans
<1> QED
  BY TypeInit, TypeStep, CustodyInit, CustodyStep, <1>1, <1>2, PTL DEF Spec

-----------------------------------------------------------------------------
(* The contract.                                                           *)

\* A save that changes neither what is accepted nor what is closed.
LEMMA SilentSave ==
  ASSUME TypeOK, TypeOK', UNCHANGED delivered,
         \A j \in Jobs : \/ status'[j] = status[j]
                         \/ /\ status[j] \in {"pending", "processing", "cancelled"}
                            /\ status'[j] \in {"pending", "processing", "cancelled"}
  PROVE  UNCHANGED <<Accepted, delivered, Verdict>>
<1>1. Accepted' = Accepted
  BY DEF Accepted
<1>2. Verdict' = Verdict
  BY DEF Verdict
<1> QED
  BY <1>1, <1>2

\* A save that closes a job the contract holds open.
LEMMA ClosingSave ==
  ASSUME TypeOK, TypeOK', UNCHANGED delivered, NEW j \in Jobs,
         status[j] = "processing", status'[j] \in {"succeeded", "failed"},
         \A i \in Jobs \ {j} : status'[i] = status[i],
         status'[j] = "succeeded" /\ ~Idempotent(j) => delivered[j] > 0
  PROVE  Contract!ReportDone(j) \/ Contract!ReportFailed(j)
<1>1. Accepted' = Accepted /\ j \in Accepted
  BY DEF Accepted
<1>2. Verdict[j] = "open"
  BY DEF Verdict
<1>3. Verdict' = [Verdict EXCEPT ![j] = IF status'[j] = "succeeded" THEN "done" ELSE "failed"]
  <2>1. \A i \in Jobs \ {j} : Verdict'[i] = Verdict[i]
    BY DEF Verdict
  <2>2. Verdict'[j] = IF status'[j] = "succeeded" THEN "done" ELSE "failed"
    BY DEF Verdict
  <2>3. Verdict = [i \in Jobs |-> Verdict[i]] /\ Verdict' = [i \in Jobs |-> Verdict'[i]]
    BY DEF Verdict
  <2> QED
    BY <2>1, <2>2, <2>3
<1>4. j \notin {i \in Jobs : JobType[i] \in {"role_grant", "role_relink_apply"}} => delivered[j] > 0 \/ status'[j] = "failed"
  BY DEF Idempotent, IdempotentTypes
<1> QED
  BY <1>1, <1>2, <1>3, <1>4 DEF Contract!ReportDone, Contract!ReportFailed

\* The initial table is empty, and so is the contract.
LEMMA ContractInit == Init => Contract!Init
  BY DEF Init, Contract!Init, Accepted, Verdict

\* A job that has been sent and may not be repeated was delivered.
SentIsDelivered ==
  pc \in {"posted", "sent"} /\ ~Idempotent(job) => delivered[job] > 0

\* Every step preserves it.
LEMMA SentStep == TypeOK /\ SentIsDelivered /\ [Next]_vars => SentIsDelivered'
<1> SUFFICES ASSUME TypeOK, SentIsDelivered, [Next]_vars PROVE SentIsDelivered'
  OBVIOUS
<1> USE DEF TypeOK, SentIsDelivered, rows, audit, ops, drain, reap, history
<1>1. CASE DispatchDelivers
  BY <1>1 DEF DispatchDelivers
<1>2. CASE DispatchSkips
  BY <1>2 DEF DispatchSkips, Idempotent, IdempotentTypes
<1>3. CASE MirrorSynced
  BY <1>3 DEF MirrorSynced
<1>4. CASE UNCHANGED <<pc, job, delivered>>
  BY <1>4 DEF Idempotent
<1>5. CASE pc' \notin {"posted", "sent"}
  BY <1>5
<1> QED
  BY <1>1, <1>2, <1>3, <1>4, <1>5
  DEF Next, Producers, Drain, Reap, vars, Enqueue, RecordPending, CancelRelink,
      BackoffElapses, ReadBulk, ReadInteractive, AbortTick, LeaveTick, EndTick, Claim,
      DispatchThrows, SaveSucceeded, LedgerSuccess, Entered, SaveRetry, SaveFailed,
      LedgerFailure, MirrorFailed, BackToQueue, Crash, Boot, AbortReap, LeaveReap,
      ReapRead, ReapIdempotent, ReapOther, ReapLedger, ReapMirror, ReapDone

\* A step of the table is a step of the contract or leaves its view alone.
LEMMA ContractStep ==
  ReapFirst /\ TypeInv /\ TypeInv' /\ OnceInv /\ Custody /\ SentIsDelivered /\ [Next]_vars
    => [Contract!Next]_(Contract!contractVars)
<1> SUFFICES ASSUME ReapFirst, TypeInv, TypeInv', OnceInv, Custody, SentIsDelivered, [Next]_vars
             PROVE  Contract!Next \/ UNCHANGED <<Accepted, delivered, Verdict>>
  BY DEF Contract!contractVars
<1> DEFINE Goal == Contract!Next \/ UNCHANGED <<Accepted, delivered, Verdict>>
<1> SUFFICES Goal
  OBVIOUS
<1>a. TypeOK /\ TypeOK'
  BY DEF TypeInv
<1>b. ASSUME UNCHANGED <<status, delivered>> PROVE Goal
  BY <1>b DEF Accepted, Verdict
<1>c. ASSUME NEW j \in Jobs, Contract!ReportDone(j) \/ Contract!ReportFailed(j) PROVE Goal
  BY <1>c DEF Contract!Next
<1> USE NoneAssumption DEF rows, audit, ops, drain, reap, history
<1>1. ASSUME NEW j \in Jobs, Enqueue(j) PROVE Goal
  <2>1. /\ j \notin Accepted /\ Accepted' = Accepted \cup {j}
        /\ UNCHANGED delivered
    BY <1>1, <1>a DEF Enqueue, Accepted, TypeOK
  <2>2. \A i \in Jobs : Verdict'[i] = Verdict[i]
    BY <1>1, <1>a DEF Enqueue, Verdict, TypeOK
  <2>3. Verdict' = Verdict
    BY <2>2 DEF Verdict
  <2> QED
    BY <2>1, <2>3 DEF Contract!Accept, Contract!Next
<1>2. CASE CancelRelink
  <2>1. UNCHANGED delivered /\ \A i \in Jobs : \/ status'[i] = status[i]
                       \/ (status[i] = "pending" /\ status'[i] = "cancelled")
    BY <1>2, <1>a DEF CancelRelink, TypeOK
  <2> QED
    BY <1>a, <2>1, SilentSave
<1>3. ASSUME NEW j \in Jobs, Claim(j) PROVE Goal
  <2>1. j \in bulk \cup interactive
    BY <1>3, OldestIn DEF Claim, NextUp
  <2>2. UNCHANGED delivered /\ \A i \in Jobs : \/ status'[i] = status[i]
                       \/ (status[i] \in {"pending", "cancelled"} /\ status'[i] = "processing")
    BY <1>3, <1>a, <2>1 DEF Claim, SaveRow, AbortTick, LeaveTick, Custody, TypeOK
  <2> QED
    BY <1>a, <2>2, SilentSave
<1>4. CASE DispatchDelivers
  <2>1. job \in Jobs /\ pc = "claimed" /\ status[job] = "processing"
    BY <1>4, <1>a DEF DispatchDelivers, Custody, InFlight, TypeOK
  <2>2. ~Idempotent(job) => delivered[job] = 0
    BY <1>a, <2>1 DEF OnceInv, DeliveredIsSpent, TypeOK
  <2>3. job \in {i \in Jobs : JobType[i] \in {"announce", "audit_log"}} => ~Idempotent(job)
    BY DEF Idempotent, IdempotentTypes
  <2>4. UNCHANGED <<Accepted, Verdict>>
    BY <1>4 DEF DispatchDelivers, Accepted, Verdict
  <2>5. job \in Accepted /\ Verdict[job] = "open"
    BY <2>1 DEF Accepted, Verdict
  <2>6. Contract!Deliver(job)
    BY <1>4, <2>2, <2>3, <2>4, <2>5 DEF DispatchDelivers, Contract!Deliver
  <2> QED
    BY <2>1, <2>6 DEF Contract!Next
<1>5. CASE SaveSucceeded
  <2>1. CASE UNCHANGED rows
    BY <1>5, <1>b, <2>1 DEF SaveSucceeded
  <2>2. CASE ~UNCHANGED rows
    <3>1. /\ job \in Jobs /\ status[job] = "processing" /\ status'[job] = "succeeded"
          /\ \A i \in Jobs \ {job} : status'[i] = status[i]
          /\ UNCHANGED delivered
      BY <1>5, <1>a, <2>2 DEF SaveSucceeded, SaveRow, Custody, InFlight, TypeOK
    <3>2. ~Idempotent(job) => delivered[job] > 0
      BY <1>5 DEF SaveSucceeded, SentIsDelivered
    <3> QED
      BY <1>a, <1>c, <3>1, <3>2, ClosingSave
  <2> QED
    BY <2>1, <2>2
<1>6. CASE SaveRetry
  <2>1. UNCHANGED delivered /\ \A i \in Jobs : \/ status'[i] = status[i]
                       \/ (status[i] = "processing" /\ status'[i] = "pending")
    BY <1>6, <1>a DEF SaveRetry, Retryable, SaveRow, AbortTick, LeaveTick, Custody,
        InFlight, TypeOK
  <2> QED
    BY <1>a, <2>1, SilentSave
<1>7. CASE SaveFailed
  <2>1. CASE AbortTick
    BY <1>b, <2>1 DEF AbortTick, LeaveTick
  <2>2. CASE ~AbortTick
    <3>1. /\ job \in Jobs /\ status[job] = "processing" /\ status'[job] = "failed"
          /\ \A i \in Jobs \ {job} : status'[i] = status[i]
          /\ UNCHANGED delivered
      BY <1>7, <1>a, <2>2 DEF SaveFailed, SaveRow, Custody, InFlight, TypeOK
    <3> QED
      BY <1>a, <1>c, <3>1, ClosingSave
  <2> QED
    BY <2>1, <2>2
<1>8. ASSUME NEW j \in Jobs, ReapIdempotent(j) PROVE Goal
  <2>1. CASE AbortReap
    BY <1>b, <2>1 DEF AbortReap, LeaveReap
  <2>2. CASE ~AbortReap
    <3>1. UNCHANGED delivered /\ \A i \in Jobs : \/ status'[i] = status[i]
                         \/ (status[i] = "processing" /\ status'[i] = "pending")
      BY <1>8, <1>a, <2>2 DEF ReapIdempotent, SaveRow, Custody, TypeOK
    <3> QED
      BY <1>a, <3>1, SilentSave
  <2> QED
    BY <2>1, <2>2
<1>9. ASSUME NEW j \in Jobs, ReapOther(j) PROVE Goal
  <2>1. CASE AbortReap
    BY <1>b, <2>1 DEF AbortReap, LeaveReap
  <2>2. CASE ~AbortReap
    <3>1. /\ status[j] = "processing" /\ status'[j] = "failed"
          /\ \A i \in Jobs \ {j} : status'[i] = status[i]
          /\ UNCHANGED delivered
      BY <1>9, <1>a, <2>2 DEF ReapOther, SaveRow, Custody, TypeOK
    <3> QED
      BY <1>a, <1>c, <3>1, ClosingSave
  <2> QED
    BY <2>1, <2>2
<1> QED
  BY <1>b, <1>1, <1>2, <1>3, <1>4, <1>5, <1>6, <1>7, <1>8, <1>9
  DEF Next, Producers, Drain, Reap, vars, RecordPending, BackoffElapses, ReadBulk,
      ReadInteractive, AbortTick, LeaveTick, EndTick, MirrorSynced, DispatchSkips,
      DispatchThrows, LedgerSuccess, Entered, LedgerFailure, MirrorFailed, Crash, Boot,
      AbortReap, LeaveReap, ReapRead, ReapLedger, ReapMirror, ReapDone

\* The outbox implements DeliveryContract where the reaper has read before the
\* first tick: no step delivers a job that is closed, repeats a one-shot job,
\* closes a job twice, or calls done what has not reached Discord.
THEOREM Refinement == ReapFirst => (Spec => ImplementsContract)
<1> SUFFICES ASSUME ReapFirst PROVE Spec => ImplementsContract
  OBVIOUS
<1>1. Init => Custody /\ SentIsDelivered /\ OnceInv /\ TypeInv /\ Contract!Init
  BY CustodyInit, OnceInit, TypeInit, ContractInit DEF Init, SentIsDelivered
<1>2. TypeInv => TypeOK
  BY DEF TypeInv
<1>3. TypeInv /\ OnceInv /\ Custody /\ SentIsDelivered /\ [Next]_vars
        => TypeInv' /\ OnceInv' /\ Custody' /\ SentIsDelivered' /\ [Contract!Next]_(Contract!contractVars)
  BY <1>2, TypeStep, OnceStep, CustodyStep, SentStep, ContractStep
<1> QED
  BY <1>1, <1>3, PTL DEF Spec, ImplementsContract, Contract!Spec

-----------------------------------------------------------------------------
\* No row vanishes, so no entry is begun again.
Begun ==
  /\ \A j \in Jobs : syncStatus[j] # "none" => status[j] # "absent"
  /\ job # None => status[job] # "absent"
  /\ orphan # None => status[orphan] # "absent"

\* Every step preserves it, and leaves an outcome an outcome.
LEMMA AuditStep ==
  TypeOK /\ Begun /\ [Next]_vars
    => /\ Begun'
       /\ \A j \in Jobs : syncStatus[j] \in {"synced", "failed"} => syncStatus'[j] \in {"synced", "failed"}
<1> DEFINE Final == \A j \in Jobs : syncStatus[j] \in {"synced", "failed"} => syncStatus'[j] \in {"synced", "failed"}
<1> SUFFICES ASSUME TypeOK, Begun, [Next]_vars PROVE Begun' /\ Final
  OBVIOUS
<1> USE NoneAssumption DEF TypeOK, Begun, rows, audit, ops, drain, reap, history
<1>1. ASSUME NEW j \in Jobs, Enqueue(j) PROVE Begun' /\ Final
  BY <1>1 DEF Enqueue
<1>2. ASSUME NEW j \in Jobs, RecordPending(j) PROVE Begun' /\ Final
  BY <1>2 DEF RecordPending
<1>3. ASSUME NEW j \in Jobs, Claim(j) PROVE Begun' /\ Final
  BY <1>3 DEF Claim, SaveRow, AbortTick, LeaveTick
<1>4. ASSUME NEW j \in Jobs, ReapIdempotent(j) \/ ReapOther(j) PROVE Begun' /\ Final
  BY <1>4 DEF ReapIdempotent, ReapOther, SaveRow, AbortReap, LeaveReap
<1>5. CASE CancelRelink
  BY <1>5 DEF CancelRelink
<1>6. CASE SaveSucceeded
  BY <1>6 DEF SaveSucceeded, SaveRow, BackToQueue
<1>9. CASE SaveRetry
  <2>1. CASE AbortTick
    BY <1>9, <2>1 DEF SaveRetry, AbortTick, LeaveTick
  <2>2. CASE ~AbortTick
    BY <1>9, <2>2 DEF SaveRetry, Retryable, SaveRow, BackToQueue
  <2> QED
    BY <2>1, <2>2
<1>10. CASE SaveFailed
  <2>1. CASE AbortTick
    BY <1>10, <2>1 DEF SaveFailed, AbortTick, LeaveTick
  <2>2. CASE ~AbortTick
    BY <1>10, <2>2 DEF SaveFailed, Retryable, SaveRow
  <2> QED
    BY <2>1, <2>2
<1>7. CASE MirrorSynced \/ MirrorFailed \/ ReapMirror
  <2>1. UNCHANGED status /\ \E j \in Jobs, s \in {"synced", "failed"} : MarkAuditSync(j, s) /\ status[j] # "absent"
    BY <1>7 DEF MirrorSynced, MirrorFailed, ReapMirror
  <2> QED
    BY <1>7, <2>1 DEF MarkAuditSync, MirrorSynced, MirrorFailed, ReapMirror, BackToQueue
<1>8. CASE /\ UNCHANGED <<status, syncStatus>>
           /\ job' = job \/ job' = None
           /\ orphan' = orphan \/ orphan' = None
  BY <1>8
<1> QED
  BY <1>1, <1>2, <1>3, <1>4, <1>5, <1>6, <1>7, <1>8, <1>9, <1>10
  DEF Next, Producers, Drain, Reap, vars, BackoffElapses, ReadBulk, ReadInteractive,
      AbortTick, LeaveTick, EndTick, DispatchDelivers, DispatchSkips, DispatchThrows,
      LedgerSuccess, Entered, LedgerFailure, BackToQueue, Crash, Boot, AbortReap,
      LeaveReap, ReapRead, ReapLedger, ReapDone

\* The initial table has no entries.
LEMMA BegunInit == Init => Begun
  BY DEF Init, Begun

\* However late record() writes its half and whatever settles the mirror
\* meanwhile, an entry that has a verdict, synced or failed, never again says that
\* its mirror is pending (or has none). The verdict itself may still change:
\* the reaper writes failed over a mirror that was posted before a crash, and the
\* drain synced over one that the reaper has given up beside it.
THEOREM AuditNeverPendingAgain == Spec => AuditStatusFinal
<1>1. TypeInv => TypeOK
  BY DEF TypeInv
<1>2. TypeOK /\ Begun /\ [Next]_vars
        => Begun' /\ [\A j \in Jobs : syncStatus[j] \in {"synced", "failed"}
                        => syncStatus'[j] \in {"synced", "failed"}]_syncStatus
  BY AuditStep
<1> QED
  BY TypeInit, TypeStep, BegunInit, <1>1, <1>2, PTL DEF Spec, AuditStatusFinal

-----------------------------------------------------------------------------
\* A row left processing may have cost an attempt that its column does not
\* count yet: not while it is only claimed, and not any more once a restart has
\* paid for it and the reaper is to put it back.
Uncounted(j) ==
  /\ status[j] = "processing"
  /\ ~(pc = "claimed" /\ job = j)
  /\ reaper # "read" /\ j \notin orphaned

\* The calls made so far are covered by the attempts counted and the starts of
\* the process, with the one uncounted attempt on top.
Covered(j) ==
  /\ Uncounted(j) => dispatches[j] <= attempts[j] + boots
  /\ ~Uncounted(j) /\ status[j] \notin {"succeeded", "failed"} => dispatches[j] < attempts[j] + boots
  /\ status[j] \in {"succeeded", "failed"} => dispatches[j] < MaxAttempts + boots

Tally ==
  /\ Up => boots > 0
  /\ \A j \in Jobs : dispatches[j] > 0 => Covered(j)

\* Nothing has been called at first.
LEMMA TallyInit == Init => Tally
  BY DEF Init, Tally, Up

\* What a step may do to a row: leave it, count nothing while the row is still
\* covered without the uncounted attempt, call Discord for it, settle or count
\* the uncounted attempt, or start the process.
SameCount(j) == attempts'[j] = attempts[j] /\ dispatches'[j] = dispatches[j] /\ boots' = boots
Open(j) == status[j] \notin {"succeeded", "failed"}
Moved(j) ==
  \/ SameCount(j) /\ status'[j] = status[j] /\ (Uncounted(j) => Uncounted(j)')
  \/ SameCount(j) /\ Open(j) /\ ~Uncounted(j)
  \/ /\ Open(j) /\ ~Uncounted(j) /\ Uncounted(j)' /\ boots > 0
     /\ attempts'[j] = attempts[j] /\ dispatches'[j] = dispatches[j] + 1 /\ boots' = boots
  \/ SameCount(j) /\ Uncounted(j) /\ status'[j] = "succeeded"
  \/ /\ Uncounted(j) /\ ~Uncounted(j)'
     /\ attempts'[j] = attempts[j] + 1 /\ dispatches'[j] = dispatches[j] /\ boots' = boots
  \/ /\ attempts'[j] = attempts[j] /\ dispatches'[j] = dispatches[j] /\ boots' = boots + 1
     /\ status'[j] = status[j]

\* A row so moved stays covered.
LEMMA MovedIsCovered ==
  ASSUME TypeOK, AttemptsLeft, NEW j \in Jobs, dispatches[j] > 0 => Covered(j), Moved(j)
  PROVE  dispatches'[j] > 0 => Covered(j)'
<1>1. /\ MaxAttempts \in Nat /\ boots \in Nat /\ attempts[j] \in Nat /\ dispatches[j] \in Nat
      /\ Open(j) => attempts[j] < MaxAttempts
      /\ Uncounted(j) => Open(j)
      /\ Uncounted(j)' => status'[j] = "processing"
  BY BoundsAssumption DEF TypeOK, AttemptsLeft, Open, Uncounted
<1> HIDE DEF TypeOK, AttemptsLeft
<1> QED
  BY <1>1 DEF Covered, Moved, SameCount, Open

\* Every step moves every row in one of those ways.
LEMMA StepMoves ==
  ReapFirst /\ TypeOK /\ Custody /\ (Up => boots > 0) /\ [Next]_vars => \A j \in Jobs : Moved(j)
<1> SUFFICES ASSUME ReapFirst, TypeOK, Custody, Up => boots > 0, [Next]_vars
             PROVE \A j \in Jobs : Moved(j)
  OBVIOUS
<1> DEFINE Goal == \A j \in Jobs : Moved(j)
<1> USE NoneAssumption
        DEF TypeOK, Custody, InFlight, rows, audit, ops, drain, reap, history,
            Moved, SameCount, Open, Uncounted
<1>1. ASSUME NEW k \in Jobs, Enqueue(k) PROVE Goal
  BY <1>1 DEF Enqueue
<1>2. ASSUME NEW k \in Jobs, RecordPending(k) \/ BackoffElapses(k) PROVE Goal
  BY <1>2 DEF RecordPending, BackoffElapses
<1>3. CASE CancelRelink
  BY <1>3 DEF CancelRelink
<1>4. CASE AbortTick
  BY <1>4 DEF AbortTick, LeaveTick
<1>5. CASE AbortReap
  BY <1>5 DEF AbortReap, LeaveReap
<1>6. CASE ReadBulk \/ ReadInteractive \/ EndTick
  BY <1>4, <1>6 DEF ReadBulk, ReadInteractive, EndTick
<1>7. ASSUME NEW k \in Jobs, Claim(k) PROVE Goal
  <2>1. k \in bulk \cup interactive
    BY <1>7, OldestIn DEF Claim, NextUp
  <2> QED
    BY <1>4, <1>7, <2>1 DEF Claim, SaveRow
<1>8. CASE DispatchDelivers \/ DispatchThrows
  <2>1. /\ pc = "claimed" /\ pc' # "claimed" /\ job \in Jobs /\ boots > 0
        /\ reaper # "read" /\ job \notin orphaned /\ status[job] = "processing"
        /\ dispatches' = [dispatches EXCEPT ![job] = @ + 1]
        /\ UNCHANGED <<status, attempts, boots, reaper, orphaned, job>>
    BY <1>8 DEF DispatchDelivers, DispatchThrows, Up
  <2> QED
    BY <2>1
<1>9. CASE MirrorSynced \/ DispatchSkips \/ LedgerSuccess \/ MirrorFailed
  BY <1>9 DEF MirrorSynced, DispatchSkips, LedgerSuccess, Entered, MirrorFailed,
      BackToQueue
<1>10. CASE SaveSucceeded
  BY <1>10 DEF SaveSucceeded, SaveRow, BackToQueue
<1>11. CASE SaveRetry
  <2>1. CASE ~AbortTick
    BY <1>11, <2>1 DEF SaveRetry, Retryable, SaveRow, BackToQueue
  <2> QED
    BY <1>4, <2>1
<1>12. CASE SaveFailed
  <2>1. CASE ~AbortTick
    BY <1>12, <2>1 DEF SaveFailed, SaveRow
  <2> QED
    BY <1>4, <2>1
<1>13. CASE LedgerFailure
  BY <1>4, <1>13 DEF LedgerFailure, LeaveTick, Entered, BackToQueue
<1>14. CASE Crash
  BY <1>14 DEF Crash
<1>15. CASE Boot
  BY <1>15 DEF Boot
<1>16. CASE ReapRead
  BY <1>5, <1>16 DEF ReapRead
<1>17. ASSUME NEW k \in Jobs, ReapIdempotent(k) \/ ReapOther(k) PROVE Goal
  <2>1. CASE ~AbortReap
    BY <1>17, <2>1 DEF ReapIdempotent, ReapOther, SaveRow
  <2> QED
    BY <1>5, <2>1
<1>18. CASE ReapLedger \/ ReapMirror \/ ReapDone
  BY <1>5, <1>18 DEF ReapLedger, LeaveReap, Entered, ReapMirror, ReapDone
<1>19. CASE UNCHANGED vars
  BY <1>19 DEF vars
<1> QED
  BY <1>1, <1>2, <1>3, <1>6, <1>7, <1>8, <1>9, <1>10, <1>11, <1>12, <1>13, <1>14, <1>15, <1>16,
     <1>17, <1>18, <1>19
  DEF Next, Producers, Drain, Reap

\* A process that is up has been started.
LEMMA StartedStep == TypeOK /\ (Up => boots > 0) /\ [Next]_vars => (Up => boots > 0)'
<1> SUFFICES ASSUME TypeOK, Up => boots > 0, [Next]_vars PROVE (Up => boots > 0)'
  OBVIOUS
<1>1. CASE Boot
  BY <1>1 DEF Boot, TypeOK
<1>2. CASE ~Boot
  <2>1. boots' = boots /\ (Up' => Up)
    BY <1>2 DEF Up, TypeOK, Next, Producers, Drain, Reap, vars, drain, Enqueue,
        RecordPending, CancelRelink, BackoffElapses, ReadBulk, ReadInteractive, AbortTick,
        LeaveTick, Claim, EndTick, DispatchDelivers, MirrorSynced, DispatchSkips,
        DispatchThrows, SaveSucceeded, LedgerSuccess, Entered, SaveRetry, Retryable,
        SaveFailed, LedgerFailure, MirrorFailed, Crash, AbortReap, LeaveReap, ReapRead,
        ReapIdempotent, ReapOther, ReapLedger, ReapMirror, ReapDone
  <2> QED
    BY <2>1
<1> QED
  BY <1>1, <1>2

\* Every step keeps the tally.
LEMMA TallyStep ==
  ReapFirst /\ TypeOK /\ AttemptsLeft /\ Custody /\ Tally /\ [Next]_vars => Tally'
<1> SUFFICES ASSUME ReapFirst, TypeOK, AttemptsLeft, Custody, Tally, [Next]_vars
             PROVE Tally'
  OBVIOUS
<1>1. (Up => boots > 0)'
  BY StartedStep DEF Tally
<1>2. ASSUME NEW j \in Jobs PROVE (dispatches[j] > 0 => Covered(j))'
  BY StepMoves, MovedIsCovered DEF Tally
<1> QED
  BY <1>1, <1>2 DEF Tally

\* Where the reaper has read before the first tick, a job reaches Discord at most
\* maxAttempts times over its whole life, plus once for every restart: no save
\* that failed and no crash ever lets a call go uncounted twice.
THEOREM CallsAreBudgeted == ReapFirst => (Spec => []DispatchBudget)
<1> SUFFICES ASSUME ReapFirst PROVE Spec => []DispatchBudget
  OBVIOUS
<1>1. TypeInv => TypeOK /\ AttemptsLeft
  BY DEF TypeInv
<1>2. TypeInv /\ Custody /\ Tally /\ [Next]_vars => TypeInv' /\ Custody' /\ Tally'
  BY <1>1, TypeStep, CustodyStep, TallyStep
<1>3. TypeOK /\ AttemptsLeft /\ Tally => DispatchBudget
  <2> SUFFICES ASSUME TypeOK, AttemptsLeft, Tally, NEW j \in Jobs, dispatches[j] > 0
               PROVE dispatches[j] <= MaxAttempts + (boots - 1)
    BY DEF DispatchBudget
  <2>1. /\ MaxAttempts \in Nat /\ boots \in Nat /\ attempts[j] \in Nat /\ dispatches[j] \in Nat
        /\ status[j] \notin {"succeeded", "failed"} => attempts[j] < MaxAttempts
    BY BoundsAssumption DEF TypeOK, AttemptsLeft
  <2> QED
    BY <2>1 DEF Tally, Covered
<1> QED
  BY TypeInit, CustodyInit, TallyInit, <1>1, <1>2, <1>3, PTL DEF Spec

-----------------------------------------------------------------------------
\* Nothing has happened before the first start.  While that process is up and
\* no database call has failed, a row is processing only in the hands of the
\* drain, the reaper finds nothing, and the ledger and the audit entry of a row
\* are behind its status only by what the drain is about to write.
Fresh == /\ ~Up
         /\ \A j \in Jobs : /\ status[j] = "absent" /\ opsOk[j] = 0 /\ opsFailed[j] = 0
                            /\ syncStatus[j] = "none"

Smooth == Up /\ boots = 1 /\ dbErrors = 0

Told(j) ==
  /\ status[j] = "processing" => job = j /\ pc \in InFlight
  /\ opsFailed[j] = IF status[j] = "failed" /\ ~(job = j /\ pc = "failed") THEN 1 ELSE 0
  /\ opsOk[j] = IF status[j] = "succeeded" /\ ~Bulk(j) /\ ~(job = j /\ pc = "succeeded") THEN 1 ELSE 0
  /\ Mirror(j) =>
       /\ (syncStatus[j] = "synced") <=> (status[j] = "succeeded" \/ (job = j /\ pc = "sent"))
       /\ (syncStatus[j] = "failed") <=> (status[j] = "failed" /\ ~(job = j /\ pc \in {"failed", "mirror_lost"}))

Reporting ==
  /\ boots = 0 => Fresh
  /\ Smooth => /\ orphaned = {} /\ orphan = None
               /\ \A j \in Jobs : Told(j)

\* Nothing is there to be reported at first.
LEMMA ReportingInit == Init => Reporting
  BY DEF Init, Reporting, Fresh, Smooth, Up

\* Every step keeps the reports level with the table.
LEMMA ReportingStep ==
  ReapFirst /\ TypeOK /\ Custody /\ Tally /\ Reporting /\ [Next]_vars => Reporting'
<1> SUFFICES ASSUME ReapFirst, TypeOK, Custody, Tally, Reporting, [Next]_vars
             PROVE Reporting'
  OBVIOUS
<1> DEFINE Fresher == (boots = 0 => Fresh)'
           Quiet == (orphaned = {} /\ orphan = None)'
           Tell == \A j \in Jobs : Told(j)'
<1>0. boots \in Nat /\ dbErrors \in Nat /\ (Up => boots > 0)
  BY DEF TypeOK, Tally
<1>1. CASE Boot
  <2>1. boots' > 0
    BY <1>0, <1>1 DEF Boot
  <2>2. ASSUME boots' = 1 PROVE Quiet /\ Tell
    <3>1. Fresh /\ job = None /\ pc' = "idle" /\ reaper = "off" /\ orphan = None
      BY <1>0, <1>1, <2>2 DEF Boot, Reporting, TypeOK, Up
    <3>2. orphaned = {}
      BY <3>1, <2>2, <1>0, <1>1 DEF Custody, Fresh, TypeOK
    <3> QED
      BY <1>1, <3>1, <3>2, NoneAssumption DEF Boot, Fresh, Told, rows, audit, ops, InFlight
  <2> QED
    BY <2>1, <2>2 DEF Reporting, Smooth
<1>2. CASE UNCHANGED vars
  BY <1>2 DEF vars, rows, audit, ops, drain, reap, history, Reporting, Fresh, Smooth, Told, Up
<1>3. CASE Crash
  BY <1>0, <1>3 DEF Crash, Reporting, Smooth, Up
<1>4. CASE ~Up /\ ~Boot /\ ~UNCHANGED vars
  <2>1. /\ UNCHANGED <<opsOk, opsFailed, status, pc, boots, orphaned, orphan, job>>
        /\ \A j \in Jobs : syncStatus[j] = "none" => syncStatus'[j] = "none"
    <3>1. /\ pc = "down" /\ job = None /\ reaper = "off" /\ bulk = {} /\ interactive = {}
      BY <1>4 DEF Up, TypeOK, Custody
    <3>2. (\E j \in Jobs : RecordPending(j) \/ BackoffElapses(j))
      BY <1>4, <3>1 DEF Up, Next, Producers, Drain, Reap, Enqueue, CancelRelink, ReadBulk,
          ReadInteractive, Claim, EndTick, DispatchDelivers, MirrorSynced, DispatchSkips,
          DispatchThrows, SaveSucceeded, LedgerSuccess, Entered, SaveRetry, Retryable,
          SaveFailed, LedgerFailure, LeaveTick, MirrorFailed, Crash, ReapRead,
          ReapIdempotent, ReapOther, ReapLedger, LeaveReap, ReapMirror, ReapDone
    <3> QED
      BY <3>2 DEF RecordPending, BackoffElapses, TypeOK, ops, rows, audit, drain, reap
  <2> QED
    BY <1>4, <2>1 DEF Reporting, Fresh, Smooth, Up
<1>5. CASE Up /\ ~Boot /\ ~Crash /\ ~UNCHANGED vars
  <2> SUFFICES ASSUME Smooth' PROVE Quiet /\ Tell
    <3>1. boots' = boots
      BY <1>5 DEF Next, Producers, Drain, Reap, Enqueue, RecordPending, CancelRelink,
          BackoffElapses, ReadBulk, ReadInteractive, AbortTick, LeaveTick, Claim, EndTick,
          DispatchDelivers, MirrorSynced, DispatchSkips, DispatchThrows, SaveSucceeded,
          LedgerSuccess, Entered, SaveRetry, SaveFailed, LedgerFailure, MirrorFailed,
          AbortReap, LeaveReap, ReapRead, ReapIdempotent, ReapOther, ReapLedger,
          ReapMirror, ReapDone
    <3> QED
      BY <1>0, <1>5, <3>1 DEF Reporting
  <2>1. boots' = 1 /\ dbErrors' = 0 /\ ~DbFails
    BY <1>0 DEF Smooth, DbFails
  <2>2. ~AbortTick /\ ~AbortReap
    BY <2>1 DEF AbortTick, LeaveTick, AbortReap, LeaveReap
  <2>3. Next /\ boots = 1 /\ dbErrors = 0
    BY <1>0, <1>5, <2>1, <2>2 DEF Next, Producers, Drain, Reap, Enqueue, RecordPending,
        CancelRelink, BackoffElapses, ReadBulk, ReadInteractive, Claim, EndTick,
        DispatchDelivers, MirrorSynced, DbWorks, MarkAuditSync, DispatchSkips,
        DispatchThrows, SaveSucceeded, LedgerSuccess, Entered, SaveRetry, SaveFailed,
        LedgerFailure, LeaveTick, MirrorFailed, ReapRead, ReapIdempotent, ReapOther,
        ReapLedger, LeaveReap, ReapMirror, ReapDone
  <2>4. orphaned = {} /\ orphan = None /\ \A j \in Jobs : Told(j)
    BY <1>5, <2>3 DEF Reporting, Smooth
  <2> HIDE DEF Reporting, Smooth, Tally
  <2> USE NoneAssumption, <2>1, <2>2, <2>4
          DEF TypeOK, Custody, InFlight, rows, audit, ops, drain, reap, history, Told
  <2>5. ASSUME NEW k \in Jobs, Enqueue(k) PROVE Quiet /\ Tell
    BY <2>5 DEF Enqueue
  <2>6. ASSUME NEW k \in Jobs, RecordPending(k) PROVE Quiet /\ Tell
    BY <2>6 DEF RecordPending
  <2>7. CASE CancelRelink
    BY <2>7 DEF CancelRelink
  <2>8. CASE ReadBulk \/ ReadInteractive \/ EndTick
    BY <2>8 DEF ReadBulk, ReadInteractive, EndTick
  <2>9. ASSUME NEW k \in Jobs, Claim(k) PROVE Quiet /\ Tell
    <3>1. k \in bulk \cup interactive
      BY <2>9, OldestIn DEF Claim, NextUp
    <3> QED
      BY <2>9, <3>1 DEF Claim, SaveRow
  <2>10. CASE DispatchDelivers
    BY <2>10 DEF DispatchDelivers
  <2>11. CASE MirrorSynced
    BY <2>11 DEF MirrorSynced, MarkAuditSync
  <2>12. CASE DispatchSkips
    BY <2>12 DEF DispatchSkips, Mirror
  <2>13. CASE DispatchThrows
    BY <2>13 DEF DispatchThrows
  <2>14. CASE SaveSucceeded
    BY <2>14 DEF SaveSucceeded, SaveRow
  <2>15. CASE LedgerSuccess
    BY <2>15 DEF LedgerSuccess, Entered, BackToQueue
  <2>16. CASE SaveRetry
    BY <2>16 DEF SaveRetry, Retryable, SaveRow, BackToQueue
  <2>17. CASE SaveFailed
    BY <2>17 DEF SaveFailed, SaveRow
  <2>18. CASE LedgerFailure
    BY <2>18 DEF LedgerFailure, LeaveTick, Entered, BackToQueue
  <2>19. CASE MirrorFailed
    BY <2>19 DEF MirrorFailed, MarkAuditSync, BackToQueue
  <2>20. CASE ReapRead
    BY <2>20 DEF ReapRead
  <2>21. CASE ReapLedger \/ ReapMirror \/ ReapDone
    BY <2>21 DEF ReapLedger, LeaveReap, Entered, ReapMirror, ReapDone
  <2>22. ASSUME NEW k \in Jobs, ReapIdempotent(k) \/ ReapOther(k) PROVE Quiet /\ Tell
    BY <2>22 DEF ReapIdempotent, ReapOther
  <2>23. ASSUME NEW k \in Jobs, BackoffElapses(k) PROVE Quiet /\ Tell
    BY <2>23 DEF BackoffElapses
  <2> QED
    BY <1>5, <2>3, <2>5, <2>6, <2>7, <2>8, <2>9, <2>10, <2>11, <2>12, <2>13, <2>14, <2>15, <2>16,
       <2>17, <2>18, <2>19, <2>20, <2>21, <2>22, <2>23
    DEF Next, Producers, Drain, Reap
<1> QED
  BY <1>1, <1>2, <1>3, <1>4, <1>5

\* While the first process stays up and the database answers, a settled row has
\* been reported exactly once with the outcome it settled with, and the audit
\* entry of a settled mirror says what became of it.
THEOREM SettledAreReported == ReapFirst => (Spec => []SettledIsReported)
<1> SUFFICES ASSUME ReapFirst PROVE Spec => []SettledIsReported
  OBVIOUS
<1>1. TypeInv => TypeOK /\ AttemptsLeft
  BY DEF TypeInv
<1>2. TypeInv /\ Custody /\ Tally /\ Reporting /\ [Next]_vars => TypeInv' /\ Custody' /\ Tally' /\ Reporting'
  BY <1>1, TypeStep, CustodyStep, TallyStep, ReportingStep
<1>3. Reporting => SettledIsReported
  BY DEF Reporting, Smooth, Told, SettledIsReported, PutAway
<1> QED
  BY TypeInit, CustodyInit, TallyInit, ReportingInit, <1>1, <1>2, <1>3, PTL DEF Spec
=============================================================================
