------------------------- MODULE SyncOutboxContract -------------------------
(***************************************************************************)
(* The outbox implements its contract, provided that the reaper has read   *)
(* the orphans before the first tick (ReapFirst).                          *)
(***************************************************************************)
EXTENDS SyncOutbox

\* A row the database holds is a job accepted.
Accepted == {j \in Jobs : status[j] # "absent"}

\* Only the two statuses the worker and the reaper write last close a job.
Verdict == [j \in Jobs |-> CASE status[j] = "succeeded" -> "done"
                             [] status[j] = "failed" -> "failed"
                             [] OTHER -> "open"]

Contract == INSTANCE DeliveryContract WITH
  OneShot <- {j \in Jobs : JobType[j] \in {"announce", "audit_log"}},
  Gated <- {j \in Jobs : JobType[j] \in {"role_grant", "role_relink_apply"}},
  accepted <- Accepted, verdict <- Verdict

\* Every step of the table, the worker, the reaper and the process is a step of
\* the contract or invisible to it: no restart delivers a one-shot job twice,
\* no settled row is settled again or delivered again.
ImplementsContract == Contract!Spec
=============================================================================
