-------------------------- MODULE DeliveryContract --------------------------
(***************************************************************************)
(* What the outbox promises the code that enqueues a job, whatever fails   *)
(* underneath: an accepted job is closed at most once, nothing reaches     *)
(* Discord for it after that, a one-shot job reaches Discord at most once, *)
(* and a job reported done has reached it, unless it is of a kind that     *)
(* asks at the last moment whether it is still wanted.                     *)
(*                                                                         *)
(* The contract is silent about a cancel: the outbox may deliver a job     *)
(* whose row was cancelled, and then closes it like any other.             *)
(***************************************************************************)
EXTENDS Naturals

CONSTANTS Jobs, OneShot, Gated

VARIABLES accepted, delivered, verdict

contractVars == <<accepted, delivered, verdict>>

Init ==
  /\ accepted = {}
  /\ delivered = [j \in Jobs |-> 0]
  /\ verdict = [j \in Jobs |-> "open"]

Accept(j) ==
  /\ j \notin accepted
  /\ accepted' = accepted \cup {j}
  /\ UNCHANGED <<delivered, verdict>>

Deliver(j) ==
  /\ j \in accepted /\ verdict[j] = "open"
  /\ j \in OneShot => delivered[j] = 0
  /\ delivered' = [delivered EXCEPT ![j] = @ + 1]
  /\ UNCHANGED <<accepted, verdict>>

ReportDone(j) ==
  /\ j \in accepted /\ verdict[j] = "open"
  /\ j \notin Gated => delivered[j] > 0
  /\ verdict' = [verdict EXCEPT ![j] = "done"]
  /\ UNCHANGED <<accepted, delivered>>

ReportFailed(j) ==
  /\ j \in accepted /\ verdict[j] = "open"
  /\ verdict' = [verdict EXCEPT ![j] = "failed"]
  /\ UNCHANGED <<accepted, delivered>>

Next == \E j \in Jobs : Accept(j) \/ Deliver(j) \/ ReportDone(j) \/ ReportFailed(j)

Spec == Init /\ [][Next]_contractVars
=============================================================================
