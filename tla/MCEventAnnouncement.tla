-------------------------- MODULE MCEventAnnouncement --------------------------
(***************************************************************************)
(* EventAnnouncement with one event: events share nothing but the worker,  *)
(* and the worker is taken up by a second job of the same event as well.   *)
(***************************************************************************)
EXTENDS EventAnnouncement

MCEvents == {"muster"}
MCMembers == {"m1"}
================================================================================
