---------------------------- MODULE MCSyncOutbox ----------------------------
(* Small instances of SyncOutbox.                                          *)
EXTENDS SyncOutboxContract

CONSTANTS a, m, r, k

\* One-shot jobs, and jobs that converge: an announcement, an audit mirror,
\* a role grant, a member's share of a re-link.
MCJobType == [j \in Jobs |-> CASE j = a -> "announce"
                               [] j = m -> "audit_log"
                               [] j = r -> "role_grant"
                               [] j = k -> "role_relink_apply"]
=============================================================================
