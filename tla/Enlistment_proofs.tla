-------------------------- MODULE Enlistment_proofs --------------------------
(***************************************************************************)
(* Theorems about enlistment, for any number of people, of concurrent      *)
(* requests, and of crashes.                                               *)
(***************************************************************************)
EXTENDS Enlistment, FiniteSetTheorems, TLAPS

\* The applications may grow and change, but none changes hands.
Kept(rows, rows2) ==
  /\ Len(rows) <= Len(rows2)
  /\ \A a \in 1..Len(rows) : rows2[a].owner = rows[a].owner

\* A request is as well formed after a write to the table as before it.
LEMMA CallKept ==
  ASSUME NEW rows \in Seq(Apps), NEW rows2 \in Seq(Apps), Kept(rows, rows2),
         NEW c, CallOK(c, rows)
  PROVE  CallOK(c, rows2)
<1> Len(rows) \in Nat /\ Len(rows2) \in Nat
  OBVIOUS
<1> QED
  BY DEF CallOK, LoadedOK, Kept

\* An idle slot is well formed.
LEMMA NoCallOK == ASSUME NEW rows PROVE CallOK(NoCall, rows)
<1> <<>> \in Seq(Apps)
  OBVIOUS
<1> QED
  BY DEF CallOK, NoCall, Call, Calls, Stages, LoadedOK, Loaded, SubmitStages

\* The stages a request may go to from the one it is at.
Follows(stage, c) ==
  /\ stage \in Stages \ {"idle"}
  /\ c.at # "idle"
  /\ stage \in Loaded => c.at \in Loaded
  /\ stage \in SubmitStages => c.at \in SubmitStages

\* Going on to the next stage leaves a request well formed.
LEMMA CallMoved ==
  ASSUME NEW rows, NEW c, CallOK(c, rows), NEW stage, Follows(stage, c)
  PROVE  CallOK([c EXCEPT !.at = stage], rows)
  BY DEF CallOK, LoadedOK, Calls, Follows

\* So does taking note of another request's write.
LEMMA CallStale ==
  ASSUME NEW rows, NEW c, CallOK(c, rows)
  PROVE  CallOK([c EXCEPT !.stale = TRUE], rows)
  BY DEF CallOK, LoadedOK, Calls

\* The part of TypeOK about the requests.
CallsOK ==
  /\ calls \in [Slots -> Calls]
  /\ \A s \in Slots : CallOK(calls[s], apps)

\* One slot replaced, the table untouched.
LEMMA SlotSet ==
  ASSUME CallsOK, NEW s \in Slots, NEW c, CallOK(c, apps),
         calls' = [calls EXCEPT ![s] = c], UNCHANGED apps
  PROVE  CallsOK'
<1>1. c \in Calls
  BY DEF CallOK
<1>2. \A t \in Slots : calls'[t] = IF t = s THEN c ELSE calls[t]
  BY DEF CallsOK
<1> QED
  BY <1>1, <1>2 DEF CallsOK

\* A request goes on, or ends, without writing.
LEMMA Moves ==
  ASSUME CallsOK, NEW s \in Slots, UNCHANGED apps, NEW stage,
         \/ End(s)
         \/ Goto(s, stage) /\ Follows(stage, calls[s])
  PROVE  CallsOK'
<1>1. CASE End(s)
  BY <1>1, NoCallOK, SlotSet DEF End
<1>2. CASE Goto(s, stage) /\ Follows(stage, calls[s])
  <2>1. CallOK([calls[s] EXCEPT !.at = stage], apps)
    BY <1>2, CallMoved DEF CallsOK
  <2>2. calls' = [calls EXCEPT ![s] = [calls[s] EXCEPT !.at = stage]]
    BY <1>2 DEF Goto, CallsOK
  <2> QED
    BY <2>1, <2>2, SlotSet
<1> QED
  BY <1>1, <1>2

\* A request writes, and the others that concern the same person take note.
LEMMA Writes ==
  ASSUME CallsOK, NEW s \in Slots, apps \in Seq(Apps), apps' \in Seq(Apps), Kept(apps, apps'),
         NEW stage, Wrote(s, stage), stage = "idle" \/ Follows(stage, calls[s])
  PROVE  CallsOK'
<1>1. ASSUME NEW t \in Slots PROVE CallOK(calls'[t], apps')
  <2>1. CallOK(calls[t], apps')
    BY CallKept DEF CallsOK
  <2>2. CASE t = s /\ stage = "idle"
    BY <2>2, NoCallOK DEF Wrote
  <2>3. CASE t = s /\ stage # "idle"
    <3>1. CallOK([calls[s] EXCEPT !.at = stage], apps')
      BY <2>1, <2>3, CallMoved
    <3> QED
      BY <3>1, <2>3 DEF Wrote
  <2>4. CASE t # s /\ Concerns(t, calls[s].who)
    <3>1. CallOK([calls[t] EXCEPT !.stale = TRUE], apps')
      BY <2>1, CallStale
    <3> QED
      BY <3>1, <2>4 DEF Wrote
  <2>5. CASE t # s /\ ~Concerns(t, calls[s].who)
    BY <2>1, <2>5 DEF Wrote
  <2> QED
    BY <2>2, <2>3, <2>4, <2>5
<1>2. calls' \in [Slots -> Calls]
  <2>1. calls' = [t \in Slots |-> calls'[t]]
    BY DEF Wrote
  <2> QED
    BY <1>1, <2>1 DEF CallOK
<1> QED
  BY <1>1, <1>2 DEF CallsOK

\* Saving a row of the same person keeps the table.
LEMMA Saved ==
  ASSUME apps \in Seq(Apps), NEW s \in Slots, CallsOK, calls[s].at \in Loaded,
         NEW row \in Apps, row.owner = calls[s].who, Save(s, row)
  PROVE  /\ apps' \in Seq(Apps) /\ Len(apps') = Len(apps) /\ Kept(apps, apps')
         /\ \A a \in Ids : apps'[a] = IF a = calls[s].app THEN row ELSE apps[a]
<1>1. calls[s].app \in Ids /\ apps[calls[s].app].owner = calls[s].who
  BY DEF CallsOK, CallOK, LoadedOK, Ids
<1>2. apps' \in Seq(Apps) /\ Len(apps') = Len(apps)
  BY <1>1 DEF Save, Ids
<1>3. \A a \in Ids : apps'[a] = IF a = calls[s].app THEN row ELSE apps[a]
  BY <1>1 DEF Save, Ids
<1> QED
  BY <1>1, <1>2, <1>3 DEF Kept, Ids

\* What a request past its load holds.
LEMMA CopyOK ==
  ASSUME CallsOK, NEW s \in Slots, calls[s].at \in Loaded
  PROVE  /\ Copy(s) \in Apps /\ Copy(s).owner = calls[s].who
         /\ Copy(s).status \in OpenStatuses
         /\ calls[s].who \in Identities /\ calls[s].app \in Ids
<1>1. CallOK(calls[s], apps)
  BY DEF CallsOK
<1>2. calls[s].copy \in Seq(Apps) /\ Len(calls[s].copy) = 1
  BY <1>1 DEF CallOK, Calls, LoadedOK
<1>3. Copy(s) \in Apps
  BY <1>2 DEF Copy
<1> QED
  BY <1>1, <1>3 DEF CallOK, LoadedOK, Loaded, Copy, Ids

\* A fresh request without a copy is well formed, and so is one with the row
\* it has just loaded.
LEMMA Fresh ==
  ASSUME NEW rows, NEW at \in Stages \ Loaded, NEW who \in Identities, NEW app \in Nat,
         NEW type \in Types \cup {"same"}, at \in SubmitStages => type \in Types
  PROVE  CallOK(Call(at, who, app, type, <<>>), rows)
<1>1. <<>> \in Seq(Apps)
  OBVIOUS
<1>2. Call(at, who, app, type, <<>>) \in Calls
  BY <1>1 DEF Call, Calls
<1> QED
  BY <1>2 DEF CallOK, Call, LoadedOK

LEMMA FreshLoaded ==
  ASSUME apps \in Seq(Apps), NEW a \in Ids, NEW at \in Loaded, IsOpen(a)
  PROVE  CallOK(Call(at, apps[a].owner, a, "same", <<apps[a]>>), apps)
<1>1. apps[a] \in Apps /\ a \in Nat
  BY DEF Ids
<1>2. <<apps[a]>> \in Seq(Apps) /\ Len(<<apps[a]>>) = 1 /\ <<apps[a]>>[1] = apps[a]
  BY <1>1
<1>3. at \in Stages /\ at \notin SubmitStages /\ apps[a].owner \in Identities
  BY <1>1 DEF Loaded, Stages, SubmitStages, Apps
<1>4. Call(at, apps[a].owner, a, "same", <<apps[a]>>) \in Calls
  BY <1>1, <1>2, <1>3 DEF Call, Calls
<1> QED
  BY <1>2, <1>3, <1>4 DEF CallOK, Call, LoadedOK, IsOpen, Ids

\* The part of TypeOK about the rest of the state.
TablesOK ==
  /\ apps \in Seq(Apps)
  /\ members \in Seq([owner : Identities, role : Types])
  /\ blocked \in [Identities -> BOOLEAN]
  /\ settings \in [recruit : BOOLEAN, mercenaries : BOOLEAN, bot : BOOLEAN]
  /\ marker \in [Identities -> {"none", "add", "remove"}]
  /\ time \in Nat /\ used \in [calls : Nat, toggles : Nat]
  /\ raced \subseteq Identities

\* A request begins.
LEMMA Begins ==
  ASSUME TablesOK, CallsOK, NEW s \in Slots, NEW c, CallOK(c, apps), Begin(s, c),
         UNCHANGED <<apps, members, blocked, settings, marker, time, raced>>
  PROVE  TypeOK'
<1>1. CallsOK'
  BY SlotSet DEF Begin
<1>2. used.calls + 1 \in Nat /\ used \in [calls : Nat, toggles : Nat]
  BY DEF TablesOK
<1>3. used' \in [calls : Nat, toggles : Nat]
  BY <1>2 DEF Begin
<1> QED
  BY <1>1, <1>3 DEF TablesOK, CallsOK, TypeOK

\* What the initial state satisfies.
LEMMA TypeInit == Init => TypeOK
<1>1. <<>> \in Seq(Apps) /\ <<>> \in Seq([owner : Identities, role : Types])
  OBVIOUS
<1>2. CallOK(NoCall, <<>>)
  BY NoCallOK
<1>3. NoCall \in Calls
  BY <1>2 DEF CallOK
<1> QED
  BY <1>1, <1>2, <1>3 DEF Init, TypeOK

\* The history stays a set of people, and the marker a request.
LEMMA RacedOK ==
  ASSUME TablesOK, NEW s \in Slots, calls[s].who \in Identities, NEW clean, Race(s, clean)
  PROVE  raced' \subseteq Identities
  BY DEF TablesOK, Race

LEMMA MarkerOK ==
  ASSUME TablesOK, NEW i \in Identities, NEW r \in {"add", "remove"}, QueueMarker(i, r)
  PROVE  marker' \in [Identities -> {"none", "add", "remove"}]
  BY DEF TablesOK, QueueMarker

\* Every step preserves the type invariant.
LEMMA TypeStep == TypeOK /\ [Next]_vars => TypeOK'
<1> SUFFICES ASSUME TypeOK, [Next]_vars PROVE TypeOK'
  OBVIOUS
<1>0. TablesOK /\ CallsOK
  BY DEF TypeOK, TablesOK, CallsOK
<1>a. (TablesOK' /\ CallsOK') => TypeOK'
  BY DEF TypeOK, TablesOK, CallsOK
<1>b. \A s \in Slots : calls[s].at # "idle" => calls[s].who \in Identities
  BY <1>0 DEF CallsOK, CallOK
<1>c. ASSUME apps \in Seq(Apps), NEW a \in Ids PROVE apps[a] \in Apps /\ a \in Nat
  BY <1>c DEF Ids
<1> USE DEF At
<1>1. ASSUME NEW s \in Slots, NEW i \in Identities, NEW t \in Types, Submit(s, i, t)
      PROVE  TypeOK'
  <2>1. CallOK(Call("submit-settings", i, 0, t, <<>>), apps)
    BY Fresh DEF Stages, Loaded
  <2> QED
    BY <1>0, <1>1, <2>1, Begins DEF Submit
<1>2. ASSUME NEW s \in Slots, NEW i \in Identities, NEW t \in Types \cup {"same"},
             Edit(s, i, t)
      PROVE  TypeOK'
  <2>1. CallOK(Call("edit-load", i, 0, t, <<>>), apps)
    BY Fresh DEF Stages, Loaded, SubmitStages
  <2> QED
    BY <1>0, <1>2, <2>1, Begins DEF Edit
<1>3. ASSUME NEW s \in Slots, SubmitSettings(s) PROVE TypeOK'
  <2>1. Follows("submit-priors", calls[s])
    BY <1>3 DEF SubmitSettings, Follows, Stages, Loaded, SubmitStages
  <2>2. CallsOK'
    BY <1>0, <1>3, <2>1, Moves DEF SubmitSettings
  <2> QED
    BY <1>0, <1>3, <1>a, <2>2 DEF SubmitSettings, TablesOK
<1>4. ASSUME NEW s \in Slots, SubmitPriors(s) PROVE TypeOK'
  <2>1. Follows("submit-save", calls[s])
    BY <1>4 DEF SubmitPriors, Follows, Stages, Loaded, SubmitStages
  <2>2. CallsOK'
    BY <1>0, <1>4, <2>1, Moves DEF SubmitPriors
  <2> QED
    BY <1>0, <1>4, <1>a, <2>2 DEF SubmitPriors, TablesOK
<1>5. ASSUME NEW s \in Slots, SubmitSave(s) PROVE TypeOK'
  <2> DEFINE row == [owner |-> calls[s].who, type |-> calls[s].type, status |-> "pending",
                     promoted |-> 0, submitted |-> time + 1]
  <2>1. row \in Apps
    <3>1. calls[s].type \in Types /\ calls[s].who \in Identities
      BY <1>0, <1>5 DEF SubmitSave, CallsOK, CallOK, SubmitStages
    <3> QED
      BY <1>0, <3>1 DEF TablesOK, Apps, Statuses
  <2>2. apps' = Append(apps, row) /\ apps' \in Seq(Apps)
    BY <1>0, <1>5, <2>1 DEF SubmitSave, TablesOK
  <2> HIDE DEF row
  <2>3. Kept(apps, apps')
    BY <1>0, <2>1, <2>2 DEF TablesOK, Kept
  <2>4. Follows("submit-mark", calls[s])
    BY <1>5 DEF SubmitSave, Follows, Stages, Loaded, SubmitStages
  <2>5. CallsOK'
    BY <1>0, <1>5, <2>2, <2>3, <2>4, Writes DEF SubmitSave, TablesOK
  <2> QED
    <3>1. time' \in Nat
      BY <1>0, <1>5 DEF SubmitSave, TablesOK
    <3>2. raced' \subseteq Identities
      BY <1>0, <1>5, <1>b, RacedOK DEF SubmitSave
    <3> QED
      BY <1>0, <1>5, <1>a, <2>2, <2>5, <3>1, <3>2 DEF SubmitSave, TablesOK
<1>6. ASSUME NEW s \in Slots, SubmitMark(s) PROVE TypeOK'
  <2>1. CallsOK'
    BY <1>0, <1>6, Moves DEF SubmitMark
  <2> QED
    BY <1>0, <1>6, <1>a, <1>b, <2>1, RacedOK, MarkerOK DEF SubmitMark, TablesOK
<1>7. ASSUME NEW s \in Slots, EditLoad(s) PROVE TypeOK'
  <2>1. CASE End(s)
    <3>1. CallsOK'
      BY <1>0, <1>7, <2>1, Moves DEF EditLoad
    <3> QED
      BY <1>0, <1>7, <1>a, <3>1 DEF EditLoad, TablesOK
  <2>2. ASSUME NEW a \in Latest(calls[s].who), apps[a].status = "pending",
               calls' = [calls EXCEPT ![s].at = "edit-track", ![s].app = a,
                                      ![s].copy = <<apps[a]>>]
        PROVE  TypeOK'
    <3> DEFINE c == [calls[s] EXCEPT !.at = "edit-track", !.app = a, !.copy = <<apps[a]>>]
    <3>1. a \in Ids /\ apps[a].owner = calls[s].who /\ apps[a] \in Apps /\ a \in Nat
      BY <1>0, <1>c DEF Latest, Of, TablesOK
    <3>2. <<apps[a]>> \in Seq(Apps) /\ Len(<<apps[a]>>) = 1 /\ <<apps[a]>>[1] = apps[a]
      BY <3>1
    <3>3. calls[s] \in Calls /\ calls[s].who \in Identities
      BY <1>0, <1>7, <1>b DEF CallsOK, EditLoad
    <3>4. c \in Calls
      BY <3>1, <3>2, <3>3 DEF Calls, Stages
    <3>5. CallOK(c, apps)
      BY <2>2, <3>1, <3>2, <3>3, <3>4 DEF CallOK, LoadedOK, Calls, OpenStatuses, SubmitStages, Ids
    <3>6. calls' = [calls EXCEPT ![s] = c]
      BY <1>0, <2>2 DEF CallsOK
    <3>7. CallsOK'
      BY <1>0, <1>7, <3>5, <3>6, SlotSet DEF EditLoad
    <3> QED
      BY <1>0, <1>7, <1>a, <3>7 DEF EditLoad, TablesOK
  <2> QED
    BY <1>7, <2>1, <2>2 DEF EditLoad
<1>8. ASSUME NEW s \in Slots, EditTrack(s) PROVE TypeOK'
  <2>1. Follows("edit-save", calls[s])
    BY <1>8 DEF EditTrack, Follows, Stages, Loaded, SubmitStages
  <2>2. CallsOK'
    BY <1>0, <1>8, <2>1, Moves DEF EditTrack
  <2> QED
    BY <1>0, <1>8, <1>a, <2>2 DEF EditTrack, TablesOK
<1>9. ASSUME NEW s \in Slots, EditSave(s) PROVE TypeOK'
  <2> DEFINE type == IF calls[s].type = "same" THEN Copy(s).type ELSE calls[s].type
             row == [Copy(s) EXCEPT !.type = type, !.submitted = time + 1]
  <2>1. Copy(s) \in Apps /\ Copy(s).owner = calls[s].who
    BY <1>0, <1>9, CopyOK DEF EditSave, Loaded
  <2>2. type \in Types
    BY <1>0, <2>1 DEF CallsOK, Calls, Apps
  <2>3. row \in Apps /\ row.owner = calls[s].who
    <3>1. time + 1 \in Nat
      BY <1>0 DEF TablesOK
    <3> HIDE DEF type
    <3> QED
      BY <2>1, <2>2, <3>1 DEF Apps
  <2>4. Save(s, row)
    BY <1>9 DEF EditSave
  <2> HIDE DEF row
  <2>5. apps' \in Seq(Apps) /\ Kept(apps, apps')
    BY <1>0, <1>9, <2>3, <2>4, Saved DEF EditSave, Loaded, TablesOK
  <2>6. CallsOK'
    BY <1>0, <1>9, <2>5, Writes DEF EditSave, TablesOK
  <2> QED
    <3>1. time' \in Nat
      BY <1>0, <1>9 DEF EditSave, TablesOK
    <3>2. raced' \subseteq Identities
      BY <1>0, <1>9, <1>b, RacedOK DEF EditSave
    <3> QED
      BY <1>0, <1>9, <1>a, <2>5, <2>6, <3>1, <3>2 DEF EditSave, TablesOK
<1>10. ASSUME NEW s \in Slots, NEW a \in Ids, Block(s, a) PROVE TypeOK'
  <2>1. apps[a].owner \in Identities /\ a \in Nat
    BY <1>0, <1>c DEF TablesOK, Apps
  <2>2. CallOK(Call("block-identity", apps[a].owner, a, "same", <<>>), apps)
    BY <2>1, Fresh DEF Stages, Loaded, SubmitStages
  <2> QED
    BY <1>0, <1>10, <2>2, Begins DEF Block
<1>11. ASSUME NEW s \in Slots, NEW a \in Ids, Unblock(s, a) PROVE TypeOK'
  <2>1. apps[a].owner \in Identities /\ a \in Nat
    BY <1>0, <1>c DEF TablesOK, Apps
  <2>2. CallOK(Call("unblock-save", apps[a].owner, a, "same", <<>>), apps)
    BY <2>1, Fresh DEF Stages, Loaded, SubmitStages
  <2> QED
    BY <1>0, <1>11, <2>2, Begins DEF Unblock
<1>12. ASSUME NEW s \in Slots, BlockIdentity(s) PROVE TypeOK'
  <2>1. Follows("block-decline", calls[s])
    BY <1>12 DEF BlockIdentity, Follows, Stages, Loaded, SubmitStages
  <2>2. Kept(apps, apps') /\ apps' \in Seq(Apps)
    BY <1>0, <1>12 DEF BlockIdentity, Kept, TablesOK
  <2>3. CallsOK'
    BY <1>0, <1>12, <2>1, <2>2, Writes DEF BlockIdentity, TablesOK
  <2> QED
    BY <1>0, <1>12, <1>a, <2>3 DEF BlockIdentity, TablesOK
<1>13. ASSUME NEW s \in Slots, BlockDecline(s) PROVE TypeOK'
  <2> DEFINE declined(a) == [apps[a] EXCEPT !.status = "declined"]
  <2>1. \A a \in Ids : apps[a] \in Apps /\ declined(a) \in Apps
                        /\ declined(a).owner = apps[a].owner
    BY <1>0, <1>c DEF TablesOK, Apps, Statuses
  <2>2. apps' = [a \in Ids |-> IF a \in Open(calls[s].who) THEN declined(a) ELSE apps[a]]
    BY <1>13 DEF BlockDecline
  <2> HIDE DEF declined
  <2>3. apps' \in Seq(Apps) /\ Len(apps') = Len(apps)
    BY <1>0, <2>1, <2>2 DEF TablesOK, Ids
  <2>4. Kept(apps, apps')
    BY <1>0, <2>1, <2>2, <2>3 DEF TablesOK, Kept, Ids
  <2>5. Follows("strip", calls[s])
    BY <1>13 DEF BlockDecline, Follows, Stages, Loaded, SubmitStages
  <2>6. CallsOK'
    BY <1>0, <1>13, <2>3, <2>4, <2>5, Writes DEF BlockDecline, TablesOK
  <2> QED
    BY <1>0, <1>13, <1>a, <2>3, <2>6 DEF BlockDecline, TablesOK
<1>14. ASSUME NEW s \in Slots, Strip(s) PROVE TypeOK'
  <2>1. CallsOK'
    BY <1>0, <1>14, Moves DEF Strip
  <2> QED
    BY <1>0, <1>14, <1>a, <1>b, <2>1, RacedOK, MarkerOK DEF Strip, TablesOK
<1>15. ASSUME NEW s \in Slots, UnblockSave(s) PROVE TypeOK'
  <2>1. Kept(apps, apps') /\ apps' \in Seq(Apps)
    BY <1>0, <1>15 DEF UnblockSave, Kept, TablesOK
  <2>2. CallsOK'
    BY <1>0, <1>15, <2>1, Writes DEF UnblockSave, TablesOK
  <2> QED
    BY <1>0, <1>15, <1>a, <2>2 DEF UnblockSave, TablesOK
<1>16. ASSUME NEW s \in Slots, NEW a \in Ids, NEW stage \in Loaded,
              IsOpen(a), Load(s, a, stage),
              UNCHANGED <<apps, members, blocked, settings, marker, time, raced>>
       PROVE  TypeOK'
  <2>1. CallOK(Call(stage, apps[a].owner, a, "same", <<apps[a]>>), apps)
    BY <1>0, <1>16, FreshLoaded DEF TablesOK
  <2> QED
    BY <1>0, <1>16, <2>1, Begins DEF Load
<1>17. ASSUME NEW s \in Slots, NEW a \in Ids, Approve(s, a) \/ Decline(s, a) \/ Hold(s, a)
       PROVE  TypeOK'
  BY <1>16, <1>17 DEF Approve, Decline, Hold, Loaded
<1>18. ASSUME NEW s \in Slots, ApproveTrack(s) PROVE TypeOK'
  <2>1. Follows("approve-commit", calls[s])
    BY <1>18 DEF ApproveTrack, Follows, Stages, Loaded, SubmitStages
  <2>2. CallsOK'
    BY <1>0, <1>18, <2>1, Moves DEF ApproveTrack
  <2> QED
    BY <1>0, <1>18, <1>a, <2>2 DEF ApproveTrack, TablesOK
<1>19. ASSUME NEW s \in Slots, ApproveCommit(s) PROVE TypeOK'
  <2>1. CASE Enlisted(calls[s].who)
    <3>1. CallsOK'
      BY <1>0, <1>19, <2>1, Moves DEF ApproveCommit
    <3> QED
      BY <1>0, <1>19, <1>a, <2>1, <3>1 DEF ApproveCommit, TablesOK
  <2>2. CASE ~Enlisted(calls[s].who)
    <3> DEFINE row == [Copy(s) EXCEPT !.status = "approved", !.promoted = Len(members) + 1]
               member == [owner |-> calls[s].who, role |-> EnrolledRole(Copy(s).type)]
    <3>1. Copy(s) \in Apps /\ Copy(s).owner = calls[s].who
      BY <1>0, <1>19, CopyOK DEF ApproveCommit, Loaded
    <3>2. row \in Apps /\ row.owner = calls[s].who
      <4>1. Len(members) + 1 \in Nat
        BY <1>0 DEF TablesOK
      <4> QED
        BY <3>1, <4>1 DEF Apps, Statuses
    <3>3. Save(s, row) /\ members' = Append(members, member)
      BY <1>19, <2>2 DEF ApproveCommit
    <3>4. member \in [owner : Identities, role : Types]
      BY <1>19, <1>b DEF ApproveCommit, EnrolledRole, Types
    <3> HIDE DEF row, member
    <3>5. apps' \in Seq(Apps) /\ Kept(apps, apps')
      BY <1>0, <1>19, <3>2, <3>3, Saved DEF ApproveCommit, Loaded, TablesOK
    <3>6. members' \in Seq([owner : Identities, role : Types])
      BY <1>0, <3>3, <3>4 DEF TablesOK
    <3>7. Follows("approve-strip", calls[s])
      BY <1>19 DEF ApproveCommit, Follows, Stages, Loaded, SubmitStages
    <3>8. CallsOK'
      BY <1>0, <1>19, <2>2, <3>5, <3>7, Writes DEF ApproveCommit, TablesOK
    <3> QED
      BY <1>0, <1>19, <1>a, <1>b, <2>2, <3>5, <3>6, <3>8, RacedOK DEF ApproveCommit, TablesOK
  <2> QED
    BY <2>1, <2>2
<1>20. ASSUME NEW s \in Slots, ApproveStrip(s) PROVE TypeOK'
  <2>1. CallsOK'
    BY <1>0, <1>20, Moves DEF ApproveStrip
  <2> QED
    BY <1>0, <1>20, <1>a, <1>b, <2>1, RacedOK, MarkerOK DEF ApproveStrip, TablesOK
<1>21. ASSUME NEW s \in Slots, NEW status \in Statuses, NEW stage,
              calls[s].at \in Loaded, Save(s, [Copy(s) EXCEPT !.status = status]),
              Wrote(s, stage), stage = "idle" \/ Follows(stage, calls[s]), Race(s, TRUE),
              UNCHANGED <<members, blocked, settings, marker, time, used>>
       PROVE  TypeOK'
  <2> DEFINE row == [Copy(s) EXCEPT !.status = status]
  <2>1. Copy(s) \in Apps /\ Copy(s).owner = calls[s].who /\ calls[s].who \in Identities
    BY <1>0, <1>21, CopyOK
  <2>2. row \in Apps /\ row.owner = calls[s].who
    BY <2>1 DEF Apps
  <2> HIDE DEF row
  <2>3. apps' \in Seq(Apps) /\ Kept(apps, apps')
    BY <1>0, <1>21, <2>2, Saved DEF TablesOK, row
  <2>4. CallsOK'
    BY <1>0, <1>21, <2>3, Writes DEF TablesOK
  <2> QED
    BY <1>0, <1>21, <1>a, <2>1, <2>3, <2>4, RacedOK DEF TablesOK
<1>22. ASSUME NEW s \in Slots, DeclineSave(s) PROVE TypeOK'
  <2>1. Follows("strip", calls[s])
    BY <1>22 DEF DeclineSave, Follows, Stages, Loaded, SubmitStages
  <2>2. /\ calls[s].at \in Loaded /\ Save(s, [Copy(s) EXCEPT !.status = "declined"])
        /\ Wrote(s, "strip") /\ Race(s, TRUE)
        /\ UNCHANGED <<members, blocked, settings, marker, time, used>>
    BY <1>22 DEF DeclineSave, Loaded
  <2>3. "declined" \in Statuses
    BY DEF Statuses
  <2> QED
    BY <2>1, <2>2, <2>3, <1>21
<1>23. ASSUME NEW s \in Slots, HoldSave(s) PROVE TypeOK'
  <2>1. /\ calls[s].at \in Loaded /\ Save(s, [Copy(s) EXCEPT !.status = "held"])
        /\ Wrote(s, "idle") /\ Race(s, TRUE)
        /\ UNCHANGED <<members, blocked, settings, marker, time, used>>
    BY <1>23 DEF HoldSave, Loaded
  <2>2. "held" \in Statuses
    BY DEF Statuses
  <2> QED
    BY <2>1, <2>2, <1>21
<1>24. ASSUME NEW f \in {"recruit", "mercenaries", "bot"}, Toggle(f) PROVE TypeOK'
  <2>1. CallsOK'
    BY <1>0, <1>24 DEF Toggle, CallsOK
  <2>2. used.toggles + 1 \in Nat /\ used' = [used EXCEPT !.toggles = used.toggles + 1]
    BY <1>0, <1>24 DEF Toggle, TablesOK
  <2>3. used' \in [calls : Nat, toggles : Nat]
    BY <1>0, <2>2 DEF TablesOK
  <2>4. settings' \in [recruit : BOOLEAN, mercenaries : BOOLEAN, bot : BOOLEAN]
    BY <1>0, <1>24 DEF Toggle, TablesOK
  <2> QED
    BY <1>0, <1>24, <1>a, <2>1, <2>3, <2>4 DEF Toggle, TablesOK
<1>25. CASE Crash
  <2>1. NoCall \in Calls
    BY NoCallOK DEF CallOK
  <2>2. CallsOK'
    BY <1>0, <1>25, <2>1, NoCallOK DEF Crash, CallsOK
  <2>3. raced' \subseteq Identities
    BY <1>0, <1>25, <1>b DEF Crash, TablesOK, HalfDone
  <2> QED
    BY <1>0, <1>25, <1>a, <2>2, <2>3 DEF Crash, TablesOK
<1>26. CASE UNCHANGED vars
  BY <1>26 DEF vars, TypeOK, CallOK, LoadedOK
<1>27. ASSUME NEW s \in Slots, Applicant(s) PROVE TypeOK'
  BY <1>27, <1>1, <1>2, <1>3, <1>4, <1>5, <1>6, <1>7, <1>8, <1>9 DEF Applicant
<1>28. ASSUME NEW s \in Slots, Officer(s) PROVE TypeOK'
  BY <1>28, <1>10, <1>11, <1>12, <1>13, <1>14, <1>15, <1>17, <1>18, <1>19, <1>20,
     <1>22, <1>23 DEF Officer
<1> QED
  BY <1>24, <1>25, <1>26, <1>27, <1>28 DEF Next

\* Whatever a request holds was loaded from its own person's row while that row
\* was open, however many requests are served at once (the loads and guards of
\* applications.service).
THEOREM TypeCorrect == Spec => []TypeOK
  BY TypeInit, TypeStep, PTL DEF Spec

(***************************************************************************)
(* The roster agrees with the decisions.                                   *)
(***************************************************************************)
Roster == ApprovedIsEnlisted /\ EnlistedOnce

\* A write that approves nothing, and leaves approved rows as they were, keeps
\* the roster in agreement.
LEMMA NothingApproved ==
  ASSUME Roster, UNCHANGED members,
         \A a \in 1..Len(apps') : apps'[a].status = "approved"
             => a \in Ids /\ apps'[a] = apps[a]
  PROVE  Roster'
  BY DEF Roster, ApprovedIsEnlisted, EnlistedOnce, Ids

\* Saving a copy with another status than approved approves nothing.
LEMMA SaveApprovesNothing ==
  ASSUME TypeOK, Roster, NEW s \in Slots, calls[s].at \in Loaded, NEW row \in Apps,
         row.owner = calls[s].who, row.status # "approved", Save(s, row), UNCHANGED members
  PROVE  Roster'
<1>1. /\ Len(apps') = Len(apps)
      /\ \A a \in Ids : apps'[a] = IF a = calls[s].app THEN row ELSE apps[a]
  BY Saved DEF TypeOK, CallsOK
<1> QED
  BY <1>1, NothingApproved DEF Ids

\* The commit of an approval: the member it adds is the one its row names, and
\* is not yet on the roster.
LEMMA CommitKeepsRoster ==
  ASSUME TypeOK, Roster, NEW s \in Slots, ApproveCommit(s)
  PROVE  Roster'
<1>1. CASE Enlisted(calls[s].who)
  BY <1>1, NothingApproved DEF ApproveCommit, Ids
<1>2. CASE ~Enlisted(calls[s].who)
  <2> DEFINE i == calls[s].who
             n == Len(members) + 1
             row == [Copy(s) EXCEPT !.status = "approved", !.promoted = n]
             member == [owner |-> i, role |-> EnrolledRole(Copy(s).type)]
  <2>0. CallsOK /\ calls[s].at \in Loaded /\ apps \in Seq(Apps)
    BY DEF TypeOK, CallsOK, ApproveCommit, At, Loaded
  <2>1. Copy(s) \in Apps /\ Copy(s).owner = i
    BY <2>0, CopyOK
  <2>2. n \in Nat /\ Len(members) \in Nat
    BY DEF TypeOK
  <2>3. /\ row \in Apps /\ row.owner = i /\ row.promoted = n
        /\ row.type = Copy(s).type
    BY <2>1, <2>2 DEF Apps, Statuses
  <2>4. Save(s, row) /\ members' = Append(members, member)
    BY <1>2 DEF ApproveCommit
  <2>5. member.owner = i /\ member.role = EnrolledRole(row.type)
    BY <2>3
  <2>6. member = [owner |-> row.owner, role |-> EnrolledRole(row.type)]
    BY <2>3
  <2> HIDE DEF row, member
  <2>7. /\ Len(apps') = Len(apps)
        /\ \A a \in Ids : apps'[a] = IF a = calls[s].app THEN row ELSE apps[a]
    BY <2>0, <2>3, <2>4, Saved
  <2>8. /\ Len(members') = n /\ members'[n] = member
        /\ \A m \in 1..Len(members) : members'[m] = members[m]
    BY <2>2, <2>4 DEF TypeOK
  <2>9. ApprovedIsEnlisted'
    <3> SUFFICES ASSUME NEW a \in 1..Len(apps'), apps'[a].status = "approved"
                 PROVE  /\ apps'[a].promoted \in 1..Len(members')
                        /\ members'[apps'[a].promoted]
                             = [owner |-> apps'[a].owner, role |-> EnrolledRole(apps'[a].type)]
      BY DEF ApprovedIsEnlisted, Ids
    <3>1. CASE a = calls[s].app
      BY <2>2, <2>3, <2>6, <2>7, <2>8, <3>1 DEF Ids
    <3>2. CASE a # calls[s].app
      <4>1. apps'[a] = apps[a] /\ a \in Ids
        BY <2>7, <3>2 DEF Ids
      <4>2. /\ apps[a].promoted \in 1..Len(members)
            /\ members[apps[a].promoted]
                 = [owner |-> apps[a].owner, role |-> EnrolledRole(apps[a].type)]
        BY <4>1 DEF Roster, ApprovedIsEnlisted
      <4> QED
        BY <2>2, <2>8, <4>1, <4>2
    <3> QED
      BY <3>1, <3>2
  <2>10. EnlistedOnce'
    <3> SUFFICES ASSUME NEW m \in 1..n, NEW k \in 1..n, members'[m].owner = members'[k].owner
                 PROVE  m = k
      BY <2>8 DEF EnlistedOnce
    <3>1. \A j \in 1..Len(members) : members'[j].owner # i
      BY <1>2, <2>8 DEF Enlisted
    <3>2. CASE m = n \/ k = n
      BY <2>2, <2>5, <2>8, <3>1, <3>2
    <3>3. CASE m # n /\ k # n
      <4>1. m \in 1..Len(members) /\ k \in 1..Len(members)
        BY <2>2, <3>3
      <4> QED
        BY <2>8, <4>1 DEF Roster, EnlistedOnce
    <3> QED
      BY <3>2, <3>3
  <2> QED
    BY <2>9, <2>10 DEF Roster
<1> QED
  BY <1>1, <1>2

\* Every step keeps the roster in agreement with the decisions.
LEMMA RosterStep == TypeOK /\ Roster /\ [Next]_vars => Roster'
<1> SUFFICES ASSUME TypeOK, Roster, [Next]_vars PROVE Roster'
  OBVIOUS
<1>0. ASSUME UNCHANGED <<apps, members>> PROVE Roster'
  BY <1>0, NothingApproved DEF Ids
<1>1. ASSUME NEW s \in Slots, SubmitSave(s) PROVE Roster'
  <2> DEFINE row == [owner |-> calls[s].who, type |-> calls[s].type, status |-> "pending",
                     promoted |-> 0, submitted |-> time + 1]
  <2>1. apps' = Append(apps, row) /\ row.status = "pending"
    BY <1>1 DEF SubmitSave
  <2> HIDE DEF row
  <2>2. /\ Len(apps') = Len(apps) + 1 /\ apps'[Len(apps) + 1] = row /\ Len(apps) \in Nat
        /\ \A a \in 1..Len(apps) : apps'[a] = apps[a]
    BY <2>1 DEF TypeOK
  <2>3. \A a \in 1..Len(apps') : apps'[a].status = "approved" => a \in Ids /\ apps'[a] = apps[a]
    BY <2>1, <2>2 DEF Ids
  <2> QED
    BY <1>1, <2>3, NothingApproved DEF SubmitSave
<1>2. ASSUME NEW s \in Slots, EditSave(s) PROVE Roster'
  <2> DEFINE type == IF calls[s].type = "same" THEN Copy(s).type ELSE calls[s].type
             row == [Copy(s) EXCEPT !.type = type, !.submitted = time + 1]
  <2>1. CallsOK /\ calls[s].at \in Loaded
    BY <1>2 DEF TypeOK, CallsOK, EditSave, At, Loaded
  <2>2. Copy(s) \in Apps /\ Copy(s).owner = calls[s].who /\ Copy(s).status \in OpenStatuses
    BY <2>1, CopyOK
  <2>3. type \in Types /\ time + 1 \in Nat
    BY <2>1, <2>2 DEF CallsOK, Calls, Apps, TypeOK
  <2> HIDE DEF type
  <2>4. row \in Apps /\ row.owner = calls[s].who /\ row.status # "approved"
    BY <2>2, <2>3 DEF Apps, OpenStatuses
  <2>5. Save(s, row) /\ UNCHANGED members
    BY <1>2 DEF EditSave, type
  <2> HIDE DEF row
  <2> QED
    BY <2>1, <2>4, <2>5, SaveApprovesNothing
<1>3. ASSUME NEW s \in Slots, BlockDecline(s) PROVE Roster'
  <2>1. /\ apps' = [a \in Ids |-> IF a \in Open(calls[s].who)
                                  THEN [apps[a] EXCEPT !.status = "declined"] ELSE apps[a]]
        /\ UNCHANGED members
    BY <1>3 DEF BlockDecline
  <2>2. Len(apps) \in Nat /\ \A a \in Ids : apps[a] \in Apps
    BY DEF TypeOK, Ids
  <2>3. Len(apps') = Len(apps)
    BY <2>1, <2>2 DEF Ids
  <2>4. \A a \in 1..Len(apps') : apps'[a].status = "approved" => a \in Ids /\ apps'[a] = apps[a]
    BY <2>1, <2>2, <2>3 DEF Ids, Apps
  <2> QED
    BY <2>1, <2>4, NothingApproved
<1>4. ASSUME NEW s \in Slots, NEW status \in Statuses \ {"approved"},
             calls[s].at \in Loaded, Save(s, [Copy(s) EXCEPT !.status = status]),
             UNCHANGED members
      PROVE  Roster'
  <2> DEFINE row == [Copy(s) EXCEPT !.status = status]
  <2>1. Copy(s) \in Apps /\ Copy(s).owner = calls[s].who
    BY <1>4, CopyOK DEF TypeOK, CallsOK
  <2>2. row \in Apps /\ row.owner = calls[s].who /\ row.status # "approved"
    BY <2>1 DEF Apps
  <2>3. Save(s, row)
    BY <1>4
  <2> HIDE DEF row
  <2> QED
    BY <1>4, <2>2, <2>3, SaveApprovesNothing
<1>5. ASSUME NEW s \in Slots, DeclineSave(s) PROVE Roster'
  <2>1. /\ calls[s].at \in Loaded /\ Save(s, [Copy(s) EXCEPT !.status = "declined"])
        /\ UNCHANGED members
    BY <1>5 DEF DeclineSave, At, Loaded
  <2>2. "declined" \in Statuses \ {"approved"}
    BY DEF Statuses
  <2> QED
    BY <2>1, <2>2, <1>4
<1>6. ASSUME NEW s \in Slots, HoldSave(s) PROVE Roster'
  <2>1. /\ calls[s].at \in Loaded /\ Save(s, [Copy(s) EXCEPT !.status = "held"])
        /\ UNCHANGED members
    BY <1>6 DEF HoldSave, At, Loaded
  <2>2. "held" \in Statuses \ {"approved"}
    BY DEF Statuses
  <2> QED
    BY <2>1, <2>2, <1>4
<1>7. ASSUME NEW s \in Slots, Applicant(s) PROVE Roster'
  BY <1>7, <1>0, <1>1, <1>2 DEF Applicant, Submit, Edit, SubmitSettings, SubmitPriors,
     SubmitMark, EditLoad, EditTrack
<1>8. ASSUME NEW s \in Slots, Officer(s) PROVE Roster'
  BY <1>8, <1>0, <1>3, <1>5, <1>6, CommitKeepsRoster DEF Officer, Block, Unblock, Approve,
     Decline, Hold, BlockIdentity, Strip, UnblockSave, ApproveTrack, ApproveStrip
<1>9. ASSUME NEW f \in {"recruit", "mercenaries", "bot"}, Toggle(f) PROVE Roster'
  BY <1>9, <1>0 DEF Toggle
<1> QED
  BY <1>0, <1>7, <1>8, <1>9 DEF Next, Crash, vars

\* Nobody is approved and nobody enlisted at the start.
LEMMA RosterInit == Init => Roster
  BY DEF Init, Roster, ApprovedIsEnlisted, EnlistedOnce, Ids

\* An approved application is behind a roster member, its applicant in the role
\* of the track it names, however many officers and applicants act at once and
\* however stale the copies they save (the transaction of approve).
THEOREM ApprovedAreEnlisted == Spec => []ApprovedIsEnlisted
<1>1. Spec => []Roster
  BY RosterInit, RosterStep, TypeCorrect, PTL DEF Spec
<1>2. Roster => ApprovedIsEnlisted
  BY DEF Roster
<1> QED
  BY <1>1, <1>2, PTL

\* Nobody is on the roster twice, however many approvals of however many of
\* their applications commit (the unique identity of a member).
THEOREM NobodyEnlistedTwice == Spec => []EnlistedOnce
<1>1. Spec => []Roster
  BY RosterInit, RosterStep, TypeCorrect, PTL DEF Spec
<1>2. Roster => EnlistedOnce
  BY DEF Roster
<1> QED
  BY <1>1, <1>2, PTL

(***************************************************************************)
(* What holds unless somebody's requests have raced.  A request that no    *)
(* other has overtaken (not stale) knows the truth: the row it loaded is   *)
(* as it loaded it, the priors it found closed are closed, the person it   *)
(* found free is free.  So a write on it cannot break the promises below,  *)
(* and a stale one puts the person among the raced.                        *)
(***************************************************************************)
FreshOK(s) ==
  ~calls[s].stale =>
    /\ calls[s].at \in Loaded => apps[calls[s].app] = Copy(s)
    /\ calls[s].at = "submit-save" => Open(calls[s].who) = {}
    /\ calls[s].at \in SubmitStages => ~blocked[calls[s].who]

\* i is between the two writes of a block.
Blocking(i) == \E s \in Slots : calls[s].at = "block-decline" /\ calls[s].who = i

PersonOK(i) ==
  i \notin raced =>
    /\ \A a, b \in Open(i) : a = b
    /\ blocked[i] /\ ~Blocking(i) => Open(i) = {}

Unraced == (\A s \in Slots : FreshOK(s)) /\ (\A i \in Identities : PersonOK(i))

\* A step that neither writes nor enters or leaves a block.
LEMMA ReadKeepsUnraced ==
  ASSUME Unraced, UNCHANGED <<apps, blocked>>, raced \subseteq raced',
         \A s \in Slots : FreshOK(s)',
         \A i \in Identities \ raced' : Blocking(i) => Blocking(i)'
  PROVE  Unraced'
<1>1. \A i \in Identities : Open(i)' = Open(i)
  BY DEF Open, Of, IsOpen, Ids
<1>2. ASSUME NEW i \in Identities PROVE PersonOK(i)'
  BY <1>1, <1>2 DEF Unraced, PersonOK
<1> QED
  BY <1>2 DEF Unraced

\* One request begins, goes on or ends, outside a block, without writing.
LEMMA SlotKeepsUnraced ==
  ASSUME TypeOK, Unraced, NEW s \in Slots, NEW c, calls' = [calls EXCEPT ![s] = c],
         UNCHANGED <<apps, blocked>>, raced \subseteq raced', calls[s].at # "block-decline",
         FreshOK(s)'
  PROVE  Unraced'
<1>1. \A t \in Slots : t # s => calls'[t] = calls[t]
  BY DEF TypeOK
<1>2. \A i : Open(i)' = Open(i)
  BY DEF Open, Of, IsOpen, Ids
<1>3. ASSUME NEW t \in Slots PROVE FreshOK(t)'
  <2>1. CASE t = s
    BY <2>1
  <2>2. CASE t # s
    BY <1>1, <1>2, <2>2 DEF Unraced, FreshOK, Copy
  <2> QED
    BY <2>1, <2>2
<1>4. \A i \in Identities \ raced' : Blocking(i) => Blocking(i)'
  BY <1>1 DEF Blocking
<1> QED
  BY <1>3, <1>4, ReadKeepsUnraced

\* A write concerns one person: the rows and the block of the others stay.
OnlyAbout(i) ==
  /\ apps \in Seq(Apps) /\ apps' \in Seq(Apps) /\ Kept(apps, apps')
  /\ \A a \in 1..Len(apps) : apps[a].owner # i => apps'[a] = apps[a]
  /\ \A a \in 1..Len(apps') : a \notin 1..Len(apps) => apps'[a].owner = i
  /\ \A j \in Identities : j # i => blocked'[j] = blocked[j]
  /\ raced \subseteq raced'

LEMMA OthersKeepOpen ==
  ASSUME NEW i, OnlyAbout(i), NEW j, j # i
  PROVE  Open(j)' = Open(j)
<1> Len(apps) \in Nat /\ Len(apps') \in Nat
  BY DEF OnlyAbout
<1>1. \A a : a \in Open(j)' <=> a \in Open(j)
  BY DEF OnlyAbout, Kept, Open, Of, IsOpen, Ids
<1> QED
  BY <1>1 DEF Open, Of, Ids

\* A write leaves the other requests knowing the truth, or marked stale, and
\* the promises to other people kept; there remains the person it is about.
LEMMA WriteKeepsUnraced ==
  ASSUME TypeOK, Unraced, NEW s \in Slots, calls[s].at # "idle",
         NEW stage, Wrote(s, stage), stage \notin Loaded \cup SubmitStages,
         NEW i, i = calls[s].who, OnlyAbout(i), PersonOK(i)'
  PROVE  Unraced'
<1>0. i \in Identities /\ \A t \in Slots : CallOK(calls[t], apps)
  BY DEF TypeOK, CallOK
<1>1. ASSUME NEW t \in Slots PROVE FreshOK(t)'
  <2>1. CASE t = s
    <3>1. calls'[s].at \notin Loaded \cup SubmitStages
      <4>1. CASE stage = "idle"
        BY <4>1 DEF Wrote, NoCall, Call, Loaded, SubmitStages
      <4>2. CASE stage # "idle"
        <5>1. calls'[s] = [calls[s] EXCEPT !.at = stage] /\ calls[s] \in Calls
          BY <4>2, <1>0 DEF Wrote, CallOK
        <5> QED
          BY <5>1 DEF Calls
      <4> QED
        BY <4>1, <4>2
    <3> QED
      BY <2>1, <3>1 DEF FreshOK, SubmitStages
  <2>2. CASE t # s /\ calls[t].who = i
    <3>1. calls'[t] = [calls[t] EXCEPT !.stale = TRUE] /\ calls[t] \in Calls
      BY <2>2, <1>0 DEF Wrote, Concerns, CallOK
    <3> QED
      BY <3>1 DEF FreshOK, Calls
  <2>3. CASE t # s /\ calls[t].who # i
    <3>1. calls'[t] = calls[t]
      BY <2>3 DEF Wrote, Concerns
    <3>2. Open(calls[t].who)' = Open(calls[t].who)
      <4> DEFINE k == calls[t].who
      <4>1. {a \in {b \in 1..Len(apps') : apps'[b].owner = k} : apps'[a].status \in OpenStatuses}
             = Open(k)
        <5>1. \A j : j # i => Open(j)' = Open(j)
          BY OthersKeepOpen
        <5> QED
          BY <2>3, <5>1 DEF Open, Of, IsOpen, Ids
      <4> QED
        BY <3>1, <4>1 DEF Open, Of, IsOpen, Ids
    <3>3. ASSUME calls[t].at \in Loaded PROVE apps'[calls[t].app] = apps[calls[t].app]
      BY <1>0, <2>3, <3>3 DEF CallOK, LoadedOK, OnlyAbout
    <3>4. ASSUME calls[t].at \in SubmitStages
          PROVE  blocked'[calls[t].who] = blocked[calls[t].who]
      BY <1>0, <2>3, <3>4 DEF CallOK, OnlyAbout, SubmitStages
    <3>5. FreshOK(t)
      BY DEF Unraced
    <3> QED
      BY <3>1, <3>2, <3>3, <3>4, <3>5 DEF FreshOK, Copy
  <2> QED
    BY <2>1, <2>2, <2>3
<1>2. ASSUME NEW j \in Identities, j # i PROVE PersonOK(j)'
  <2>1. Blocking(j) => Blocking(j)'
    <3> SUFFICES ASSUME NEW t \in Slots, calls[t].at = "block-decline", calls[t].who = j
                 PROVE  Blocking(j)'
      BY DEF Blocking
    <3>1. calls'[t] = calls[t]
      BY <1>2 DEF Wrote, Concerns
    <3> QED
      BY <3>1 DEF Blocking
  <2>2. Open(j)' = Open(j)
    BY <1>2, OthersKeepOpen
  <2>3. PersonOK(j) /\ blocked'[j] = blocked[j] /\ raced \subseteq raced'
    BY <1>2 DEF Unraced, OnlyAbout
  <2> QED
    BY <2>1, <2>2, <2>3 DEF PersonOK
<1> QED
  BY <1>0, <1>1, <1>2 DEF Unraced

\* A request that ends, or whose next stage presumes nothing new.
LEMMA MoveKeepsUnraced ==
  ASSUME TypeOK, Unraced, NEW s \in Slots, UNCHANGED <<apps, blocked>>, raced \subseteq raced',
         calls[s].at # "block-decline", NEW stage,
         \/ End(s)
         \/ /\ Goto(s, stage)
            /\ stage \in Loaded => calls[s].at \in Loaded
            /\ stage \in SubmitStages => calls[s].at \in SubmitStages
            /\ stage = "submit-save" => Open(calls[s].who) = {}
  PROVE  Unraced'
<1>1. CASE End(s)
  <2>1. calls'[s] = NoCall /\ calls' = [calls EXCEPT ![s] = NoCall]
    BY <1>1 DEF End, TypeOK
  <2>2. FreshOK(s)'
    BY <2>1 DEF FreshOK, NoCall, Call, Loaded, SubmitStages
  <2> QED
    BY <2>1, <2>2, SlotKeepsUnraced
<1>2. CASE ~End(s)
  <2> DEFINE c == [calls[s] EXCEPT !.at = stage]
  <2>1. calls' = [calls EXCEPT ![s] = c] /\ calls'[s] = c /\ calls[s] \in Calls
    BY <1>2 DEF Goto, TypeOK
  <2>2. /\ calls'[s].at = stage /\ calls'[s].stale = calls[s].stale /\ calls'[s].app = calls[s].app
        /\ calls'[s].copy = calls[s].copy /\ calls'[s].who = calls[s].who
    BY <2>1 DEF Calls
  <2>3. FreshOK(s)
    BY DEF Unraced
  <2>4. Open(calls[s].who)' = Open(calls[s].who)
    BY <2>2 DEF Open, Of, IsOpen, Ids
  <2>5. FreshOK(s)'
    BY <1>2, <2>2, <2>3, <2>4 DEF FreshOK, Copy
  <2> HIDE DEF c
  <2> QED
    BY <2>1, <2>5, SlotKeepsUnraced
<1> QED
  BY <1>1, <1>2

\* A request that begins, presuming what it has just seen.
LEMMA BeginKeepsUnraced ==
  ASSUME TypeOK, Unraced, NEW s \in Slots, NEW at, NEW i, NEW a, NEW type, NEW copy,
         Begin(s, Call(at, i, a, type, copy)),
         UNCHANGED <<apps, blocked, raced>>, at # "submit-save",
         at \in SubmitStages => ~blocked[i], at \in Loaded => copy = <<apps[a]>>
  PROVE  Unraced'
<1> DEFINE c == Call(at, i, a, type, copy)
<1>1. calls' = [calls EXCEPT ![s] = c] /\ calls'[s] = c /\ calls[s].at = "idle"
  BY DEF Begin, TypeOK
<1>2. /\ calls'[s].at = at /\ calls'[s].app = a /\ calls'[s].copy = copy /\ calls'[s].who = i
  BY <1>1 DEF Call
<1>3. FreshOK(s)'
  BY <1>2 DEF FreshOK, Copy
<1> QED
  BY <1>1, <1>3, SlotKeepsUnraced

\* A write that opens nothing and leaves the block alone keeps the promises to
\* the person it is about.
LEMMA PersonKept ==
  ASSUME Unraced, NEW i \in Identities, Open(i)' \subseteq Open(i), raced \subseteq raced',
         blocked'[i] = blocked[i], Blocking(i) => Blocking(i)'
  PROVE  PersonOK(i)'
  BY DEF Unraced, PersonOK

\* The requests about a person that are blocking stay so while another writes.
LEMMA BlockingKept ==
  ASSUME TypeOK, NEW s \in Slots, calls[s].at # "block-decline", NEW stage, Wrote(s, stage),
         NEW i, Blocking(i)
  PROVE  Blocking(i)'
<1>1. PICK t \in Slots : calls[t].at = "block-decline" /\ calls[t].who = i
  BY DEF Blocking
<1>2. calls[t] \in Calls /\ t # s
  BY <1>1 DEF TypeOK
<1>3. calls'[t].at = "block-decline" /\ calls'[t].who = i
  BY <1>1, <1>2 DEF Wrote, Calls
<1> QED
  BY <1>3 DEF Blocking

\* Saving a row keeps the promises when what it puts back is closed, or is open
\* where the row was open and the request knows the truth.
LEMMA SaveKeepsUnraced ==
  ASSUME TypeOK, Unraced, NEW s \in Slots, calls[s].at \in Loaded, NEW row \in Apps,
         row.owner = calls[s].who, Save(s, row), UNCHANGED blocked,
         NEW stage, Wrote(s, stage), stage \notin Loaded \cup SubmitStages, Race(s, TRUE)
  PROVE  Unraced'
<1>i. PICK i : i = calls[s].who
  OBVIOUS
<1>0. CallsOK /\ apps \in Seq(Apps) /\ Len(apps) \in Nat
  BY DEF TypeOK, CallsOK
<1>1. /\ apps' \in Seq(Apps) /\ Len(apps') = Len(apps) /\ Kept(apps, apps')
      /\ \A a \in Ids : apps'[a] = IF a = calls[s].app THEN row ELSE apps[a]
  BY <1>0, Saved
<1>2. /\ i \in Identities /\ calls[s].app \in Ids /\ apps[calls[s].app].owner = i
      /\ Copy(s).status \in OpenStatuses
  BY <1>i, <1>0, CopyOK DEF CallsOK, CallOK, LoadedOK, Ids
<1>3. raced \subseteq raced'
  BY DEF Race
<1>4. OnlyAbout(i)
  BY <1>i, <1>0, <1>1, <1>2, <1>3 DEF OnlyAbout, Ids
<1>5. PersonOK(i)'
  <2>1. CASE calls[s].stale
    BY <1>i, <2>1 DEF Race, PersonOK
  <2>2. CASE ~calls[s].stale
    <3>1. calls[s].app \in Open(i)
      <4>1. apps[calls[s].app] = Copy(s)
        BY <2>2 DEF Unraced, FreshOK
      <4> QED
        BY <1>2, <4>1 DEF Open, Of, IsOpen
    <3>2. Open(i)' \subseteq Open(i)
      BY <1>i, <1>1, <3>1 DEF Open, Of, IsOpen, Ids
    <3>3. Blocking(i) => Blocking(i)'
      BY BlockingKept DEF Loaded
    <3> QED
      BY <1>2, <1>3, <3>2, <3>3, PersonKept
  <2> QED
    BY <2>1, <2>2
<1>6. calls[s].at # "idle"
  BY DEF Loaded
<1> QED
  BY <1>i, <1>4, <1>5, <1>6, WriteKeepsUnraced

\* Nobody has applied at the start.
LEMMA UnracedInit == Init => Unraced
  BY DEF Init, Unraced, FreshOK, PersonOK, Open, Of, Ids, NoCall, Call, Loaded, SubmitStages

\* Every step keeps the promises to those whose requests have not raced.
LEMMA UnracedStep == TypeOK /\ TypeOK' /\ Unraced /\ [Next]_vars => Unraced'
<1> SUFFICES ASSUME TypeOK, TypeOK', Unraced, [Next]_vars PROVE Unraced'
  OBVIOUS
<1> USE DEF At
<1>0. apps \in Seq(Apps) /\ apps' \in Seq(Apps) /\ Len(apps) \in Nat /\ Len(apps') \in Nat
  BY DEF TypeOK
<1>a. ASSUME NEW s \in Slots, calls[s].at # "idle"
      PROVE  calls[s].who \in Identities /\ calls[s] \in Calls
  BY <1>a DEF TypeOK, CallOK
<1>1. ASSUME NEW s \in Slots, NEW i \in Identities, NEW t \in Types, Submit(s, i, t)
      PROVE  Unraced'
  BY <1>1, BeginKeepsUnraced DEF Submit, Loaded
<1>2. ASSUME NEW s \in Slots, NEW i \in Identities, NEW t \in Types \cup {"same"},
             Edit(s, i, t)
      PROVE  Unraced'
  BY <1>2, BeginKeepsUnraced DEF Edit, Loaded, SubmitStages
<1>3. ASSUME NEW s \in Slots, SubmitSettings(s) PROVE Unraced'
  BY <1>3, MoveKeepsUnraced DEF SubmitSettings, Loaded, SubmitStages
<1>4. ASSUME NEW s \in Slots, SubmitPriors(s) PROVE Unraced'
  BY <1>4, MoveKeepsUnraced DEF SubmitPriors, Loaded, SubmitStages
<1>5. ASSUME NEW s \in Slots, SubmitSave(s) PROVE Unraced'
  <2>i. PICK i : i = calls[s].who
    OBVIOUS
  <2> DEFINE row == [owner |-> i, type |-> calls[s].type, status |-> "pending",
                     promoted |-> 0, submitted |-> time + 1]
             n == Len(apps) + 1
  <2>1. apps' = Append(apps, row) /\ row.owner = i
    BY <1>5, <2>i DEF SubmitSave
  <2> HIDE DEF row
  <2>2. /\ Len(apps') = n /\ apps'[n] = row
        /\ \A a \in 1..Len(apps) : apps'[a] = apps[a]
    BY <1>0, <2>1
  <2>3. OnlyAbout(i)
    <3>1. raced \subseteq raced' /\ UNCHANGED blocked
      BY <1>5 DEF SubmitSave, Race
    <3>2. Kept(apps, apps')
      BY <1>0, <2>2 DEF Kept
    <3> QED
      BY <1>0, <2>1, <2>2, <3>1, <3>2 DEF OnlyAbout
  <2>4. PersonOK(i)'
    <3>1. CASE calls[s].stale
      BY <1>5, <2>i, <3>1 DEF SubmitSave, Race, PersonOK
    <3>2. CASE ~calls[s].stale
      <4>1. FreshOK(s) /\ calls[s].at = "submit-save"
        BY <1>5 DEF Unraced, SubmitSave
      <4>2. Open(i) = {} /\ ~blocked[i]
        BY <2>i, <3>2, <4>1 DEF FreshOK, SubmitStages
      <4>3. ~blocked'[i]
        BY <1>5, <4>2 DEF SubmitSave
      <4>4. \A a \in Open(i)' : a = n
        BY <1>0, <2>2, <4>2 DEF Open, Of, IsOpen, Ids
      <4> QED
        BY <4>3, <4>4 DEF PersonOK
    <3> QED
      BY <3>1, <3>2
  <2>5. Wrote(s, "submit-mark") /\ calls[s].at # "idle"
    BY <1>5 DEF SubmitSave
  <2>6. "submit-mark" \notin Loaded \cup SubmitStages
    BY DEF Loaded, SubmitStages
  <2> QED
    BY <2>i, <2>3, <2>4, <2>5, <2>6, WriteKeepsUnraced
<1>6. ASSUME NEW s \in Slots, SubmitMark(s) \/ Strip(s) \/ ApproveStrip(s) PROVE Unraced'
  <2>1. /\ End(s) /\ UNCHANGED <<apps, blocked>> /\ calls[s].at # "block-decline"
        /\ raced \subseteq raced'
    BY <1>6 DEF SubmitMark, Strip, ApproveStrip, Race
  <2> QED
    BY <2>1, MoveKeepsUnraced
<1>7. ASSUME NEW s \in Slots, EditLoad(s) PROVE Unraced'
  <2>0. UNCHANGED <<apps, blocked>> /\ raced' = raced /\ calls[s].at = "edit-load"
    BY <1>7 DEF EditLoad
  <2>1. CASE End(s)
    BY <2>0, <2>1, MoveKeepsUnraced
  <2>2. ASSUME NEW a \in Latest(calls[s].who),
               calls' = [calls EXCEPT ![s].at = "edit-track", ![s].app = a,
                                      ![s].copy = <<apps[a]>>]
        PROVE  Unraced'
    <3> DEFINE c == [calls[s] EXCEPT !.at = "edit-track", !.app = a, !.copy = <<apps[a]>>]
    <3>1. calls' = [calls EXCEPT ![s] = c] /\ calls'[s] = c /\ calls[s] \in Calls
      BY <2>0, <2>2, <1>a DEF TypeOK
    <3>2. /\ calls'[s].at = "edit-track" /\ calls'[s].app = a
          /\ calls'[s].copy = <<apps[a]>>
      BY <3>1 DEF Calls
    <3>3. FreshOK(s)'
      BY <2>0, <3>2 DEF FreshOK, Copy, SubmitStages
    <3> HIDE DEF c
    <3> QED
      BY <2>0, <3>1, <3>3, SlotKeepsUnraced
  <2> QED
    BY <1>7, <2>1, <2>2 DEF EditLoad
<1>8. ASSUME NEW s \in Slots, EditTrack(s) PROVE Unraced'
  BY <1>8, MoveKeepsUnraced DEF EditTrack, Loaded, SubmitStages
<1>9. ASSUME NEW s \in Slots, EditSave(s) PROVE Unraced'
  <2> DEFINE type == IF calls[s].type = "same" THEN Copy(s).type ELSE calls[s].type
             row == [Copy(s) EXCEPT !.type = type, !.submitted = time + 1]
  <2>1. CallsOK /\ calls[s].at \in Loaded
    BY <1>9 DEF TypeOK, CallsOK, EditSave, Loaded
  <2>2. Copy(s) \in Apps /\ Copy(s).owner = calls[s].who
    BY <2>1, CopyOK
  <2>3. type \in Types /\ time + 1 \in Nat
    BY <2>1, <2>2 DEF CallsOK, Calls, Apps, TypeOK
  <2> HIDE DEF type
  <2>4. row \in Apps /\ row.owner = calls[s].who
    BY <2>2, <2>3 DEF Apps
  <2>5. Save(s, row) /\ UNCHANGED blocked /\ Wrote(s, "idle") /\ Race(s, TRUE)
    BY <1>9 DEF EditSave, type
  <2>6. "idle" \notin Loaded \cup SubmitStages
    BY DEF Loaded, SubmitStages
  <2> HIDE DEF row
  <2> QED
    BY <2>1, <2>4, <2>5, <2>6, SaveKeepsUnraced
<1>10. ASSUME NEW s \in Slots, NEW a \in Ids, Block(s, a) \/ Unblock(s, a) PROVE Unraced'
  BY <1>10, BeginKeepsUnraced DEF Block, Unblock, Loaded, SubmitStages
<1>11. ASSUME NEW s \in Slots, NEW a \in Ids, Approve(s, a) \/ Decline(s, a) \/ Hold(s, a)
       PROVE  Unraced'
  BY <1>11, BeginKeepsUnraced DEF Approve, Decline, Hold, Load, SubmitStages
<1>12. ASSUME NEW s \in Slots, BlockIdentity(s) PROVE Unraced'
  <2>i. PICK i : i = calls[s].who
    OBVIOUS
  <2>1. /\ UNCHANGED <<apps, raced>> /\ blocked' = [blocked EXCEPT ![i] = TRUE]
        /\ Wrote(s, "block-decline") /\ calls[s].at = "block-identity" /\ i \in Identities
    BY <1>12, <1>a, <2>i DEF BlockIdentity
  <2>2. OnlyAbout(i)
    BY <1>0, <2>1 DEF OnlyAbout, Kept, TypeOK
  <2>3. calls'[s].at = "block-decline" /\ calls'[s].who = i
    BY <2>1, <2>i, <1>a DEF Wrote, Calls
  <2>4. Open(i)' = Open(i) /\ Blocking(i)'
    BY <2>1, <2>3 DEF Open, Of, IsOpen, Ids, Blocking
  <2>5. PersonOK(i)'
    BY <2>1, <2>4 DEF PersonOK, Unraced
  <2>6. "block-decline" \notin Loaded \cup SubmitStages
    BY DEF Loaded, SubmitStages
  <2> QED
    BY <2>i, <2>1, <2>2, <2>5, <2>6, WriteKeepsUnraced
<1>13. ASSUME NEW s \in Slots, BlockDecline(s) PROVE Unraced'
  <2>i. PICK i : i = calls[s].who
    OBVIOUS
  <2>1. /\ UNCHANGED <<blocked, raced>> /\ calls[s].at = "block-decline" /\ Wrote(s, "strip")
        /\ apps' = [a \in Ids |-> IF a \in Open(i) THEN [apps[a] EXCEPT !.status = "declined"]
                                                   ELSE apps[a]]
    BY <1>13, <2>i DEF BlockDecline
  <2>2. Len(apps') = Len(apps) /\ \A a \in Ids : apps[a] \in Apps
    BY <1>0, <2>1 DEF Ids
  <2>3. \A a \in Ids : apps'[a].owner = apps[a].owner
                      /\ (a \notin Open(i) => apps'[a] = apps[a])
                      /\ (a \in Open(i) => apps'[a].status = "declined")
    BY <2>1, <2>2 DEF Apps
  <2>4. OnlyAbout(i)
    BY <1>0, <2>1, <2>2, <2>3 DEF OnlyAbout, Kept, Open, Of, Ids
  <2>5. Open(i)' = {}
    BY <2>2, <2>3 DEF Open, Of, IsOpen, Ids, OpenStatuses
  <2>6. PersonOK(i)'
    BY <2>5 DEF PersonOK
  <2>7. "strip" \notin Loaded \cup SubmitStages
    BY DEF Loaded, SubmitStages
  <2> QED
    BY <2>i, <2>1, <2>4, <2>6, <2>7, WriteKeepsUnraced
<1>14. ASSUME NEW s \in Slots, UnblockSave(s) PROVE Unraced'
  <2>i. PICK i : i = calls[s].who
    OBVIOUS
  <2>1. /\ UNCHANGED <<apps, raced>> /\ blocked' = [blocked EXCEPT ![i] = FALSE]
        /\ Wrote(s, "idle") /\ calls[s].at = "unblock-save" /\ i \in Identities
    BY <1>14, <1>a, <2>i DEF UnblockSave
  <2>2. OnlyAbout(i)
    BY <1>0, <2>1 DEF OnlyAbout, Kept, TypeOK
  <2>3. Open(i)' = Open(i) /\ ~blocked'[i]
    BY <2>1 DEF Open, Of, IsOpen, Ids, TypeOK
  <2>4. PersonOK(i)'
    BY <2>1, <2>3 DEF PersonOK, Unraced
  <2>5. "idle" \notin Loaded \cup SubmitStages
    BY DEF Loaded, SubmitStages
  <2> QED
    BY <2>i, <2>1, <2>2, <2>4, <2>5, WriteKeepsUnraced
<1>15. ASSUME NEW s \in Slots, ApproveTrack(s) PROVE Unraced'
  BY <1>15, MoveKeepsUnraced DEF ApproveTrack, Loaded, SubmitStages
<1>16. ASSUME NEW s \in Slots, ApproveCommit(s) PROVE Unraced'
  <2>1. CASE Enlisted(calls[s].who)
    BY <1>16, <2>1, MoveKeepsUnraced DEF ApproveCommit
  <2>2. CASE ~Enlisted(calls[s].who)
    <3> DEFINE row == [Copy(s) EXCEPT !.status = "approved", !.promoted = Len(members) + 1]
    <3>1. calls[s].at \in Loaded /\ "approve-strip" \notin Loaded \cup SubmitStages
      BY <1>16 DEF ApproveCommit, Loaded, SubmitStages
    <3>2. Copy(s) \in Apps /\ Copy(s).owner = calls[s].who
      BY <3>1, CopyOK DEF TypeOK, CallsOK
    <3>3. Len(members) + 1 \in Nat
      BY DEF TypeOK
    <3>4. row \in Apps /\ row.owner = calls[s].who
      BY <3>2, <3>3 DEF Apps, Statuses
    <3>5. Save(s, row) /\ UNCHANGED blocked /\ Wrote(s, "approve-strip") /\ Race(s, TRUE)
      BY <1>16, <2>2 DEF ApproveCommit
    <3> HIDE DEF row
    <3> QED
      BY <3>1, <3>4, <3>5, SaveKeepsUnraced
  <2> QED
    BY <2>1, <2>2
<1>17. ASSUME NEW s \in Slots, NEW status \in Statuses, calls[s].at \in Loaded,
              Save(s, [Copy(s) EXCEPT !.status = status]), UNCHANGED blocked,
              NEW stage \in {"idle", "strip"}, Wrote(s, stage), Race(s, TRUE)
       PROVE  Unraced'
  <2> DEFINE row == [Copy(s) EXCEPT !.status = status]
  <2>1. Copy(s) \in Apps /\ Copy(s).owner = calls[s].who
    BY <1>17, CopyOK DEF TypeOK, CallsOK
  <2>2. row \in Apps /\ row.owner = calls[s].who
    BY <2>1 DEF Apps
  <2>3. stage \notin Loaded \cup SubmitStages
    BY DEF Loaded, SubmitStages
  <2>4. Save(s, row)
    BY <1>17
  <2> HIDE DEF row
  <2> QED
    BY <1>17, <2>2, <2>3, <2>4, SaveKeepsUnraced
<1>18. ASSUME NEW s \in Slots, DeclineSave(s) PROVE Unraced'
  <2>1. /\ calls[s].at \in Loaded /\ Save(s, [Copy(s) EXCEPT !.status = "declined"])
        /\ Wrote(s, "strip") /\ Race(s, TRUE) /\ UNCHANGED blocked
    BY <1>18 DEF DeclineSave, Loaded
  <2>2. "declined" \in Statuses
    BY DEF Statuses
  <2> QED
    BY <2>1, <2>2, <1>17
<1>19. ASSUME NEW s \in Slots, HoldSave(s) PROVE Unraced'
  <2>1. /\ calls[s].at \in Loaded /\ Save(s, [Copy(s) EXCEPT !.status = "held"])
        /\ Wrote(s, "idle") /\ Race(s, TRUE) /\ UNCHANGED blocked
    BY <1>19 DEF HoldSave, Loaded
  <2>2. "held" \in Statuses
    BY DEF Statuses
  <2> QED
    BY <2>1, <2>2, <1>17
<1>20. ASSUME UNCHANGED <<apps, blocked, calls, raced>> PROVE Unraced'
  BY <1>20 DEF Unraced, FreshOK, PersonOK, Blocking, Open, Of, IsOpen, Ids, Copy
<1>21. CASE Crash
  <2>1. \A s \in Slots : FreshOK(s)'
    BY <1>21 DEF Crash, FreshOK, NoCall, Call, Loaded, SubmitStages
  <2>2. \A i \in Identities \ raced' : ~Blocking(i)
    BY <1>21 DEF Crash, Blocking, HalfDone
  <2>3. UNCHANGED <<apps, blocked>> /\ raced \subseteq raced'
    BY <1>21 DEF Crash
  <2> QED
    BY <2>1, <2>2, <2>3, ReadKeepsUnraced
<1>22. ASSUME NEW s \in Slots, Applicant(s) PROVE Unraced'
  BY <1>22, <1>1, <1>2, <1>3, <1>4, <1>5, <1>6, <1>7, <1>8, <1>9 DEF Applicant
<1>23. ASSUME NEW s \in Slots, Officer(s) PROVE Unraced'
  BY <1>23, <1>6, <1>10, <1>11, <1>12, <1>13, <1>14, <1>15, <1>16, <1>18, <1>19 DEF Officer
<1>24. ASSUME NEW f \in {"recruit", "mercenaries", "bot"}, Toggle(f) PROVE Unraced'
  BY <1>24, <1>20 DEF Toggle
<1> QED
  BY <1>20, <1>21, <1>22, <1>23, <1>24 DEF Next, vars

LEMMA AlwaysUnraced == Spec => []Unraced
<1>1. Spec => []TypeOK
  BY TypeCorrect
<1> QED
  BY <1>1, UnracedInit, UnracedStep, PTL DEF Spec

\* Unless requests about them have raced, an applicant has one open application
\* at most (the check of the priors in submit).
THEOREM OneOpen == Spec => []OneOpenApplication
<1>1. Unraced => OneOpenApplication
  <2> SUFFICES ASSUME Unraced, NEW i \in Identities \ raced PROVE Cardinality(Open(i)) <= 1
    BY DEF OneOpenApplication
  <2>1. CASE Open(i) = {}
    BY <2>1, FS_EmptySet
  <2>2. ASSUME NEW a \in Open(i) PROVE Cardinality(Open(i)) <= 1
    <3>1. Open(i) = {a}
      BY DEF Unraced, PersonOK
    <3>2. Cardinality({a}) = 1
      BY FS_Singleton
    <3> QED
      BY <3>1, <3>2
  <2> QED
    BY <2>1, <2>2
<1> QED
  BY <1>1, AlwaysUnraced, PTL

\* Unless requests about them have raced, a blocked person has nothing in the
\* queue once the block is through (blockApplicant).
THEOREM BlockedAreOut == Spec => []BlockedIsOut
<1>1. Unraced => BlockedIsOut
  BY DEF Unraced, PersonOK, BlockedIsOut, Blocking, Concerns
<1> QED
  BY <1>1, AlwaysUnraced, PTL

\* Unless requests about its applicant have raced, a decision is never moved
\* (assertDecidable, hold, updateMine).
THEOREM DecisionsStand == Spec => DecisionStands
<1> DEFINE Stands == \A a \in Ids : Decided(a) /\ apps[a].owner \notin raced'
                        => apps'[a].status = apps[a].status
<1>1. TypeOK /\ Unraced /\ [Next]_vars => [Stands]_vars
  <2> SUFFICES ASSUME TypeOK, Unraced, [Next]_vars, vars' # vars, NEW a \in Ids, Decided(a),
                      apps[a].owner \notin raced'
               PROVE  apps'[a].status = apps[a].status
    OBVIOUS
  <2>0. CallsOK /\ apps \in Seq(Apps)
    BY DEF TypeOK, CallsOK
  <2>1. ASSUME UNCHANGED apps PROVE apps'[a].status = apps[a].status
    BY <2>1
  <2>2. ASSUME NEW s \in Slots, calls[s].at \in Loaded, NEW row, Save(s, row), Race(s, TRUE)
        PROVE  apps'[a].status = apps[a].status
    <3>1. calls[s].app \in Ids /\ Copy(s).status \in OpenStatuses
          /\ apps[calls[s].app].owner = calls[s].who
      BY <2>0, <2>2, CopyOK DEF CallsOK, CallOK, LoadedOK
    <3>2. CASE a = calls[s].app
      <4>1. ~calls[s].stale
        BY <2>2, <3>1, <3>2 DEF Race
      <4>2. apps[a] = Copy(s)
        BY <2>2, <3>2, <4>1 DEF Unraced, FreshOK
      <4> QED
        BY <3>1, <4>2 DEF Decided, OpenStatuses
    <3>3. CASE a # calls[s].app
      BY <2>0, <2>2, <3>1, <3>3 DEF Save, Ids
    <3> QED
      BY <3>2, <3>3
  <2>3. ASSUME NEW s \in Slots, EditSave(s) \/ DeclineSave(s) \/ HoldSave(s) \/ ApproveCommit(s)
        PROVE  apps'[a].status = apps[a].status
    BY <2>1, <2>2, <2>3 DEF EditSave, DeclineSave, HoldSave, ApproveCommit, Loaded, At
  <2>4. ASSUME NEW s \in Slots, SubmitSave(s) PROVE apps'[a].status = apps[a].status
    BY <2>0, <2>4 DEF SubmitSave, Ids
  <2>5. ASSUME NEW s \in Slots, BlockDecline(s) PROVE apps'[a].status = apps[a].status
    BY <2>0, <2>5 DEF BlockDecline, Ids, Open, IsOpen, Decided, OpenStatuses
  <2>6. ASSUME NEW s \in Slots, Applicant(s) PROVE apps'[a].status = apps[a].status
    BY <2>6, <2>1, <2>3, <2>4 DEF Applicant, Submit, Edit, SubmitSettings, SubmitPriors,
       SubmitMark, EditLoad, EditTrack
  <2>7. ASSUME NEW s \in Slots, Officer(s) PROVE apps'[a].status = apps[a].status
    BY <2>7, <2>1, <2>3, <2>5 DEF Officer, Block, Unblock, Approve, Decline, Hold,
       BlockIdentity, Strip, UnblockSave, ApproveTrack, ApproveStrip
  <2> QED
    BY <2>1, <2>6, <2>7 DEF Next, Toggle, Crash, vars
<1>2. Spec => [][Stands]_vars
  BY <1>1, TypeCorrect, AlwaysUnraced, PTL DEF Spec
<1> QED
  BY <1>2 DEF DecisionStands

(***************************************************************************)
(* The Applicant role.  A request that is about to queue the role and that *)
(* nobody has overtaken knows whether its person has anything open; while  *)
(* no such request is under way, the last one queued tells it.             *)
(***************************************************************************)
\* The stages that queue the role next.
Marks == {"submit-mark", "strip", "approve-strip"}
MarkOK(s) ==
  ~calls[s].stale /\ calls[s].who \notin raced =>
    /\ calls[s].at = "submit-mark" => Open(calls[s].who) # {}
    /\ calls[s].at \in {"strip", "approve-strip"} => Open(calls[s].who) = {}

\* A request about i is at one of them.
Marking(i) == \E s \in Slots : calls[s].at \in Marks /\ calls[s].who = i

\* What the queue says of i.
ToldOK(i) == i \notin raced /\ ~Marking(i) => (marker[i] = "add" <=> Open(i) # {})

\* Of everybody.
Told == (\A s \in Slots : MarkOK(s)) /\ (\A i \in Identities : ToldOK(i))

\* A step that neither writes nor queues.
LEMMA ReadKeepsTold ==
  ASSUME Told, UNCHANGED <<apps, marker>>, raced \subseteq raced', \A s \in Slots : MarkOK(s)',
         \A i \in Identities \ raced' : Marking(i) => Marking(i)'
  PROVE  Told'
<1>1. \A i \in Identities : Open(i)' = Open(i)
  BY DEF Open, Of, IsOpen, Ids
<1>2. ASSUME NEW i \in Identities PROVE ToldOK(i)'
  BY <1>1, <1>2 DEF Told, ToldOK
<1> QED
  BY <1>2 DEF Told

\* One request begins, goes on or ends without writing, and queues nothing next.
LEMMA SlotKeepsTold ==
  ASSUME TypeOK, Told, NEW s \in Slots, NEW c, calls' = [calls EXCEPT ![s] = c],
         UNCHANGED <<apps, marker>>, raced \subseteq raced', calls[s].at \notin Marks,
         c.at \notin Marks
  PROVE  Told'
<1>1. calls'[s] = c /\ \A t \in Slots : t # s => calls'[t] = calls[t]
  BY DEF TypeOK
<1>2. \A i : Open(i)' = Open(i)
  BY DEF Open, Of, IsOpen, Ids
<1>3. ASSUME NEW t \in Slots PROVE MarkOK(t)'
  <2>1. CASE t = s
    BY <1>1, <2>1 DEF MarkOK, Marks
  <2>2. CASE t # s
    <3>1. calls'[t] = calls[t] /\ MarkOK(t)
      BY <1>1, <2>2 DEF Told
    <3>2. Open(calls[t].who)' = Open(calls[t].who)
      BY <3>1 DEF Open, Of, IsOpen, Ids
    <3> QED
      BY <3>1, <3>2 DEF MarkOK
  <2> QED
    BY <2>1, <2>2
<1>4. \A i \in Identities \ raced' : Marking(i) => Marking(i)'
  BY <1>1 DEF Marking
<1> QED
  BY <1>3, <1>4, ReadKeepsTold

\* A request that ends, or goes on to a stage that queues nothing.
LEMMA MoveKeepsTold ==
  ASSUME TypeOK, Told, NEW s \in Slots, UNCHANGED <<apps, marker>>, raced \subseteq raced',
         calls[s].at \notin Marks, NEW stage, stage \notin Marks, End(s) \/ Goto(s, stage)
  PROVE  Told'
<1>1. CASE End(s)
  <2>1. calls' = [calls EXCEPT ![s] = NoCall] /\ NoCall.at \notin Marks
    BY <1>1 DEF End, NoCall, Call, Marks
  <2> QED
    BY <2>1, SlotKeepsTold
<1>2. CASE Goto(s, stage)
  <2> DEFINE c == [calls[s] EXCEPT !.at = stage]
  <2>1. calls' = [calls EXCEPT ![s] = c] /\ calls[s] \in Calls
    BY <1>2 DEF Goto, TypeOK
  <2>2. c.at = stage
    BY <2>1 DEF Calls
  <2> HIDE DEF c
  <2> QED
    BY <2>1, <2>2, SlotKeepsTold
<1> QED
  BY <1>1, <1>2

\* A request begins.
LEMMA BeginKeepsTold ==
  ASSUME TypeOK, Told, NEW s \in Slots, NEW at, NEW i, NEW a, NEW type, NEW copy,
         Begin(s, Call(at, i, a, type, copy)), UNCHANGED <<apps, marker, raced>>,
         at \notin Marks
  PROVE  Told'
<1> DEFINE c == Call(at, i, a, type, copy)
<1>1. calls' = [calls EXCEPT ![s] = c] /\ calls[s].at = "idle"
  BY DEF Begin
<1>2. c.at = at /\ calls[s].at \notin Marks
  BY <1>1 DEF Call, Marks
<1> HIDE DEF c
<1> QED
  BY <1>1, <1>2, SlotKeepsTold

\* A write: who has something to queue about the person is marked stale; then either
\* the writer is the next to queue, and knows, or nothing was opened or closed.
LEMMA WriteKeepsTold ==
  ASSUME TypeOK, Told, NEW s \in Slots, calls[s].at # "idle", calls[s].at \notin Marks,
         NEW stage, Wrote(s, stage), NEW i, i = calls[s].who, OnlyAbout(i), UNCHANGED marker,
         \/ stage \in Marks /\ MarkOK(s)'
         \/ stage \notin Marks /\ (i \in raced' \/ (Open(i)' = {} <=> Open(i) = {}))
  PROVE  Told'
<1>0. i \in Identities /\ \A t \in Slots : calls[t] \in Calls
  BY DEF TypeOK, CallOK
<1>1. stage # "idle" => calls'[s].at = stage /\ calls'[s].who = i
  BY <1>0 DEF Wrote, Calls
<1>2. stage = "idle" => calls'[s].at = "idle"
  BY DEF Wrote, NoCall, Call
<1>3. \A t \in Slots : t # s => calls'[t].at = calls[t].at /\ calls'[t].who = calls[t].who
  BY <1>0 DEF Wrote, Calls
<1>4. ASSUME NEW t \in Slots PROVE MarkOK(t)'
  <2>1. CASE t = s
    BY <2>1, <1>1, <1>2 DEF MarkOK, Marks
  <2>2. CASE t # s /\ calls[t].who = i
    <3>1. calls'[t] = [calls[t] EXCEPT !.stale = TRUE] /\ calls[t] \in Calls
      BY <2>2, <1>0 DEF Wrote, Concerns
    <3> QED
      BY <3>1 DEF MarkOK, Calls
  <2>3. CASE t # s /\ calls[t].who # i
    <3>1. calls'[t] = calls[t] /\ MarkOK(t)
      BY <2>3 DEF Wrote, Concerns, Told
    <3>2. PICK k : k = calls[t].who
      OBVIOUS
    <3>3. Open(k)' = Open(k)
      BY <2>3, <3>2, OthersKeepOpen
    <3>4. {a \in {b \in 1..Len(apps') : apps'[b].owner = k} : apps'[a].status \in OpenStatuses}
           = Open(k)
      BY <3>3 DEF Open, Of, IsOpen, Ids
    <3>5. MarkOK(t)' <=> (~calls[t].stale /\ k \notin raced' =>
                              /\ calls[t].at = "submit-mark" => Open(k) # {}
                              /\ calls[t].at \in {"strip", "approve-strip"} => Open(k) = {})
      BY <3>1, <3>2, <3>4 DEF MarkOK, Open, Of, IsOpen, Ids
    <3> QED
      BY <3>1, <3>2, <3>5 DEF MarkOK, OnlyAbout
  <2> QED
    BY <2>1, <2>2, <2>3
<1>5. ASSUME NEW j \in Identities, j # i PROVE ToldOK(j)'
  <2>1. Marking(j) => Marking(j)'
    <3> SUFFICES ASSUME NEW t \in Slots, calls[t].at \in Marks, calls[t].who = j
                 PROVE  Marking(j)'
      BY DEF Marking
    <3> QED
      BY <1>3, <1>5 DEF Marking
  <2>2. Open(j)' = Open(j)
    BY <1>5, OthersKeepOpen
  <2> QED
    BY <2>1, <2>2 DEF Told, ToldOK, OnlyAbout
<1>6. ToldOK(i)'
  <2>1. CASE stage \in Marks
    <3>1. calls'[s].at \in Marks /\ calls'[s].who = i
      BY <2>1, <1>1 DEF Marks
    <3> QED
      BY <3>1 DEF ToldOK, Marking
  <2>2. CASE i \in raced'
    BY <2>2 DEF ToldOK
  <2>3. CASE Open(i)' = {} <=> Open(i) = {}
    <3>1. Marking(i) => Marking(i)'
      <4> SUFFICES ASSUME NEW t \in Slots, calls[t].at \in Marks, calls[t].who = i
                   PROVE  Marking(i)'
        BY DEF Marking
      <4> QED
        BY <1>3 DEF Marking
    <3>2. raced \subseteq raced' /\ ToldOK(i) /\ marker' = marker
      BY <1>0 DEF OnlyAbout, Told
    <3> QED
      BY <2>3, <3>1, <3>2 DEF ToldOK
  <2> QED
    BY <2>1, <2>2, <2>3
<1> QED
  BY <1>4, <1>5, <1>6 DEF Told

\* A row is saved that a request had loaded: whoever knew the truth leaves the person
\* with nothing open but what it saves.
LEMMA SaveKeepsTold ==
  ASSUME TypeOK, Unraced, Told, NEW s \in Slots, calls[s].at \in Loaded, NEW row \in Apps,
         row.owner = calls[s].who, Save(s, row), UNCHANGED <<blocked, marker>>,
         NEW stage, Wrote(s, stage), Race(s, TRUE),
         \/ stage \in {"strip", "approve-strip"} /\ row.status \notin OpenStatuses
         \/ stage = "idle" /\ row.status \in OpenStatuses
  PROVE  Told'
<1>i. PICK i : i = calls[s].who
  OBVIOUS
<1>0. CallsOK /\ apps \in Seq(Apps) /\ Len(apps) \in Nat
  BY DEF TypeOK, CallsOK
<1>1. /\ apps' \in Seq(Apps) /\ Len(apps') = Len(apps) /\ Kept(apps, apps')
      /\ \A a \in Ids : apps'[a] = IF a = calls[s].app THEN row ELSE apps[a]
  BY <1>0, Saved
<1>2. /\ i \in Identities /\ calls[s].app \in Ids /\ apps[calls[s].app].owner = i
      /\ Copy(s).status \in OpenStatuses
  BY <1>i, <1>0, CopyOK DEF CallsOK, CallOK, LoadedOK, Ids
<1>3. raced \subseteq raced'
  BY DEF Race
<1>4. OnlyAbout(i)
  BY <1>i, <1>0, <1>1, <1>2, <1>3 DEF OnlyAbout, Ids
<1>5. calls[s].at # "idle" /\ calls[s].at \notin Marks
  BY DEF Loaded, Marks
<1>6. ASSUME i \notin raced'
      PROVE  /\ Open(i) = {calls[s].app}
             /\ Open(i)' = IF row.status \in OpenStatuses THEN {calls[s].app} ELSE {}
  <2>1. ~calls[s].stale /\ i \notin raced
    BY <1>i, <1>6 DEF Race
  <2>2. calls[s].app \in Open(i)
    <3>1. apps[calls[s].app] = Copy(s)
      BY <2>1 DEF Unraced, FreshOK
    <3> QED
      BY <1>2, <3>1 DEF Open, Of, IsOpen
  <2>3. Open(i) = {calls[s].app}
    BY <1>2, <2>1, <2>2 DEF Unraced, PersonOK
  <2>4. \A a : a \in Open(i)' <=> a = calls[s].app /\ row.status \in OpenStatuses
    BY <1>i, <1>1, <1>2, <2>3 DEF Open, Of, IsOpen, Ids
  <2> QED
    BY <2>3, <2>4 DEF Open, Of, IsOpen, Ids
<1>7. CASE stage \in {"strip", "approve-strip"} /\ row.status \notin OpenStatuses
  <2>1. stage \in Marks /\ stage # "idle"
    BY <1>7 DEF Marks
  <2>2. calls'[s] = [calls[s] EXCEPT !.at = stage] /\ calls[s] \in Calls
    BY <2>1 DEF Wrote, TypeOK
  <2>3. calls'[s].at = stage /\ calls'[s].who = i /\ calls'[s].stale = calls[s].stale
    BY <2>2, <1>i DEF Calls
  <2>4. MarkOK(s)'
    <3>1. CASE calls[s].stale
      BY <3>1, <2>3 DEF MarkOK
    <3>2. CASE ~calls[s].stale
      <4>1. i \notin raced' => Open(i)' = {}
        BY <1>6, <1>7
      <4>2. {a \in {b \in 1..Len(apps') : apps'[b].owner = i} : apps'[a].status \in OpenStatuses}
              = Open(i)'
        BY DEF Open, Of, IsOpen, Ids
      <4> QED
        BY <1>7, <2>3, <4>1, <4>2 DEF MarkOK, Open, Of, IsOpen, Ids
    <3> QED
      BY <3>1, <3>2
  <2> QED
    BY <1>i, <1>4, <1>5, <2>1, <2>4, WriteKeepsTold
<1>8. CASE stage = "idle" /\ row.status \in OpenStatuses
  <2>1. stage \notin Marks
    BY <1>8 DEF Marks
  <2>2. i \in raced' \/ (Open(i)' = {} <=> Open(i) = {})
    BY <1>6, <1>8
  <2> QED
    BY <1>i, <1>4, <1>5, <2>1, <2>2, WriteKeepsTold
<1> QED
  BY <1>7, <1>8

\* The role is queued, or the person has raced.
LEMMA QueueKeepsTold ==
  ASSUME TypeOK, Told, NEW s \in Slots, calls[s].at \in Marks, End(s), NEW i, i = calls[s].who,
         QueueMarker(i, IF calls[s].at = "submit-mark" THEN "add" ELSE "remove"),
         Race(s, settings.bot), UNCHANGED apps
  PROVE  Told'
<1>0. i \in Identities /\ calls' = [calls EXCEPT ![s] = NoCall]
  BY DEF TypeOK, CallOK, Marks, End
<1>1. calls'[s] = NoCall /\ \A t \in Slots : t # s => calls'[t] = calls[t]
  BY <1>0 DEF TypeOK
<1>2. NoCall.at \notin Marks
  BY DEF NoCall, Call, Marks
<1>3. \A j : Open(j)' = Open(j)
  BY DEF Open, Of, IsOpen, Ids
<1>4. raced \subseteq raced'
  BY DEF Race
<1>5. ASSUME NEW t \in Slots PROVE MarkOK(t)'
  <2>1. CASE t = s
    BY <1>1, <1>2, <2>1 DEF MarkOK, Marks
  <2>2. CASE t # s
    <3>1. calls'[t] = calls[t] /\ MarkOK(t)
      BY <1>1, <2>2 DEF Told
    <3>2. Open(calls[t].who)' = Open(calls[t].who)
      BY <3>1 DEF Open, Of, IsOpen, Ids
    <3> QED
      BY <1>4, <3>1, <3>2 DEF MarkOK
  <2> QED
    BY <2>1, <2>2
<1>6. ASSUME NEW j \in Identities, j # i PROVE ToldOK(j)'
  <2>1. Marking(j) => Marking(j)'
    BY <1>1, <1>6 DEF Marking
  <2>2. marker'[j] = marker[j]
    BY <1>6 DEF QueueMarker, TypeOK
  <2> QED
    BY <1>3, <1>4, <2>1, <2>2, <1>6 DEF Told, ToldOK
<1>7. ToldOK(i)'
  <2> SUFFICES ASSUME i \notin raced' PROVE marker'[i] = "add" <=> Open(i)' # {}
    BY DEF ToldOK
  <2>1. ~calls[s].stale /\ settings.bot /\ i \notin raced
    BY DEF Race
  <2>2. marker'[i] = IF calls[s].at = "submit-mark" THEN "add" ELSE "remove"
    BY <1>0, <2>1 DEF QueueMarker, TypeOK
  <2>3. MarkOK(s)
    BY DEF Told
  <2>4. calls[s].at = "submit-mark" \/ calls[s].at \in {"strip", "approve-strip"}
    BY DEF Marks
  <2> QED
    BY <1>3, <2>1, <2>2, <2>3, <2>4 DEF MarkOK
<1> QED
  BY <1>5, <1>6, <1>7 DEF Told

\* At the start nothing is open and nothing was queued.
LEMMA ToldInit == Init => Told
  BY DEF Init, Told, MarkOK, ToldOK, Open, Of, Ids, NoCall, Call

\* Every step keeps the role told.
LEMMA ToldStep == TypeOK /\ Unraced /\ Told /\ [Next]_vars => Told'
<1> SUFFICES ASSUME TypeOK, Unraced, Told, [Next]_vars PROVE Told'
  OBVIOUS
<1> USE DEF At
<1>0. apps \in Seq(Apps) /\ Len(apps) \in Nat
  BY DEF TypeOK
<1>a. ASSUME NEW s \in Slots, calls[s].at # "idle"
      PROVE  calls[s].who \in Identities /\ calls[s] \in Calls
  BY <1>a DEF TypeOK, CallOK
<1>1. ASSUME NEW s \in Slots, NEW i \in Identities, NEW t \in Types, Submit(s, i, t)
      PROVE  Told'
  BY <1>1, BeginKeepsTold DEF Submit, Marks
<1>2. ASSUME NEW s \in Slots, NEW i \in Identities, NEW t \in Types \cup {"same"},
             Edit(s, i, t)
      PROVE  Told'
  BY <1>2, BeginKeepsTold DEF Edit, Marks
<1>3. ASSUME NEW s \in Slots, SubmitSettings(s) PROVE Told'
  BY <1>3, MoveKeepsTold DEF SubmitSettings, Marks
<1>4. ASSUME NEW s \in Slots, SubmitPriors(s) PROVE Told'
  BY <1>4, MoveKeepsTold DEF SubmitPriors, Marks
<1>5. ASSUME NEW s \in Slots, SubmitSave(s) PROVE Told'
  <2>i. PICK i : i = calls[s].who
    OBVIOUS
  <2> DEFINE entry == [owner |-> i, type |-> calls[s].type, status |-> "pending",
                       promoted |-> 0, submitted |-> time + 1]
             n == Len(apps) + 1
  <2>1. /\ apps' = Append(apps, entry) /\ entry.owner = i /\ entry.status = "pending"
        /\ Wrote(s, "submit-mark") /\ Race(s, TRUE) /\ UNCHANGED <<blocked, marker>>
        /\ calls[s].at = "submit-save"
    BY <1>5, <2>i DEF SubmitSave
  <2>2. i \in Identities /\ calls[s] \in Calls /\ entry \in Apps
    <3>1. i \in Identities /\ calls[s] \in Calls /\ calls[s].type \in Types /\ time + 1 \in Nat
      BY <2>1, <2>i DEF TypeOK, CallOK, SubmitStages
    <3> QED
      BY <3>1 DEF Apps, Statuses
  <2> HIDE DEF entry
  <2>3. /\ apps' \in Seq(Apps) /\ Len(apps') = n /\ apps'[n] = entry
        /\ \A a \in 1..Len(apps) : apps'[a] = apps[a]
    BY <1>0, <2>1, <2>2
  <2>4. OnlyAbout(i)
    <3>1. raced \subseteq raced'
      BY <2>1 DEF Race
    <3>2. Kept(apps, apps')
      BY <1>0, <2>3 DEF Kept
    <3> QED
      BY <1>0, <2>1, <2>3, <3>1, <3>2 DEF OnlyAbout
  <2>5. calls'[s] = [calls[s] EXCEPT !.at = "submit-mark"]
    BY <2>1 DEF Wrote
  <2>6. calls'[s].at = "submit-mark" /\ calls'[s].who = i
    BY <2>2, <2>5, <2>i DEF Calls
  <2>7. n \in Open(i)'
    BY <1>0, <2>1, <2>3 DEF Open, Of, IsOpen, Ids, OpenStatuses
  <2>8. MarkOK(s)'
    BY <2>6, <2>7 DEF MarkOK, Open, Of, IsOpen, Ids
  <2>9. "submit-mark" \in Marks /\ calls[s].at # "idle" /\ calls[s].at \notin Marks
    BY <2>1 DEF Marks
  <2> QED
    BY <2>i, <2>1, <2>4, <2>8, <2>9, WriteKeepsTold
<1>6. ASSUME NEW s \in Slots, SubmitMark(s) \/ Strip(s) \/ ApproveStrip(s) PROVE Told'
  <2>1. PICK i : i = calls[s].who
    OBVIOUS
  <2>2. /\ End(s) /\ UNCHANGED apps /\ calls[s].at \in Marks /\ Race(s, settings.bot)
        /\ QueueMarker(i, IF calls[s].at = "submit-mark" THEN "add" ELSE "remove")
    BY <1>6, <2>1 DEF SubmitMark, Strip, ApproveStrip, Marks
  <2> QED
    BY <2>1, <2>2, QueueKeepsTold
<1>7. ASSUME NEW s \in Slots, EditLoad(s) PROVE Told'
  <2>0. UNCHANGED <<apps, marker, raced>> /\ calls[s].at = "edit-load" /\ calls[s].at \notin Marks
    BY <1>7 DEF EditLoad, Marks
  <2>1. CASE End(s)
    <3>1. "idle" \notin Marks
      BY DEF Marks
    <3> QED
      BY <2>0, <2>1, <3>1, MoveKeepsTold
  <2>2. ASSUME NEW a \in Latest(calls[s].who),
               calls' = [calls EXCEPT ![s].at = "edit-track", ![s].app = a,
                                      ![s].copy = <<apps[a]>>]
        PROVE  Told'
    <3> DEFINE c == [calls[s] EXCEPT !.at = "edit-track", !.app = a, !.copy = <<apps[a]>>]
    <3>1. calls' = [calls EXCEPT ![s] = c] /\ calls[s] \in Calls
      BY <2>0, <2>2, <1>a DEF TypeOK
    <3>2. c.at \notin Marks
      BY <3>1 DEF Calls, Marks
    <3> HIDE DEF c
    <3> QED
      BY <2>0, <3>1, <3>2, SlotKeepsTold
  <2> QED
    BY <1>7, <2>1, <2>2 DEF EditLoad
<1>8. ASSUME NEW s \in Slots, EditTrack(s) PROVE Told'
  BY <1>8, MoveKeepsTold DEF EditTrack, Marks
<1>9. ASSUME NEW s \in Slots, EditSave(s) PROVE Told'
  <2> DEFINE type == IF calls[s].type = "same" THEN Copy(s).type ELSE calls[s].type
             entry == [Copy(s) EXCEPT !.type = type, !.submitted = time + 1]
  <2>1. CallsOK /\ calls[s].at \in Loaded
    BY <1>9 DEF TypeOK, CallsOK, EditSave, Loaded
  <2>2. /\ Copy(s) \in Apps /\ Copy(s).owner = calls[s].who
        /\ Copy(s).status \in OpenStatuses
    BY <2>1, CopyOK DEF CallsOK, CallOK, LoadedOK
  <2>3. type \in Types /\ time + 1 \in Nat
    BY <2>1, <2>2 DEF CallsOK, Calls, Apps, TypeOK
  <2> HIDE DEF type
  <2>4. entry \in Apps /\ entry.owner = calls[s].who /\ entry.status \in OpenStatuses
    BY <2>2, <2>3 DEF Apps
  <2>5. Save(s, entry) /\ UNCHANGED <<blocked, marker>> /\ Wrote(s, "idle") /\ Race(s, TRUE)
    BY <1>9 DEF EditSave, type
  <2> HIDE DEF entry
  <2> QED
    BY <2>1, <2>4, <2>5, SaveKeepsTold
<1>10. ASSUME NEW s \in Slots, NEW a \in Ids, Block(s, a) \/ Unblock(s, a) PROVE Told'
  BY <1>10, BeginKeepsTold DEF Block, Unblock, Marks
<1>11. ASSUME NEW s \in Slots, NEW a \in Ids, Approve(s, a) \/ Decline(s, a) \/ Hold(s, a)
       PROVE  Told'
  BY <1>11, BeginKeepsTold DEF Approve, Decline, Hold, Load, Marks
<1>12. ASSUME NEW s \in Slots, NEW stage \in {"block-decline", "idle"}, NEW value,
              calls[s].at \in {"block-identity", "unblock-save"}, Wrote(s, stage),
              blocked' = [blocked EXCEPT ![calls[s].who] = value],
              UNCHANGED <<apps, marker, raced>>
       PROVE  Told'
  <2>i. PICK i : i = calls[s].who
    OBVIOUS
  <2>1. /\ calls[s].at # "idle" /\ calls[s].at \notin Marks /\ stage \notin Marks
        /\ blocked' = [blocked EXCEPT ![i] = value]
    BY <1>12, <2>i DEF Marks
  <2>2. OnlyAbout(i)
    BY <1>0, <1>12, <2>1 DEF OnlyAbout, Kept, TypeOK
  <2>3. Open(i)' = Open(i)
    BY <1>12 DEF Open, Of, IsOpen, Ids
  <2> QED
    BY <2>i, <1>12, <2>1, <2>2, <2>3, WriteKeepsTold
<1>13. ASSUME NEW s \in Slots, BlockDecline(s) PROVE Told'
  <2>i. PICK i : i = calls[s].who
    OBVIOUS
  <2>1. /\ UNCHANGED <<blocked, raced, marker>> /\ calls[s].at = "block-decline"
        /\ Wrote(s, "strip")
        /\ apps' = [a \in Ids |-> IF a \in Open(i) THEN [apps[a] EXCEPT !.status = "declined"]
                                                   ELSE apps[a]]
    BY <1>13, <2>i DEF BlockDecline
  <2>2. Len(apps') = Len(apps) /\ \A a \in Ids : apps[a] \in Apps
    BY <1>0, <2>1 DEF Ids
  <2>3. \A a \in Ids : /\ apps'[a].owner = apps[a].owner /\ apps'[a] \in Apps
                      /\ (a \notin Open(i) => apps'[a] = apps[a])
                      /\ (a \in Open(i) => apps'[a].status = "declined")
    BY <2>1, <2>2 DEF Apps, Statuses
  <2>4. OnlyAbout(i)
    <3>1. apps' \in Seq(Apps)
      BY <1>0, <2>1, <2>2, <2>3 DEF Ids
    <3> QED
      BY <1>0, <2>1, <2>2, <2>3, <3>1 DEF OnlyAbout, Kept, Open, Of, Ids
  <2>5. Open(i)' = {}
    BY <2>2, <2>3 DEF Open, Of, IsOpen, Ids, OpenStatuses
  <2>6. calls'[s] = [calls[s] EXCEPT !.at = "strip"] /\ calls[s] \in Calls
    BY <2>1, <1>a DEF Wrote
  <2>7. calls'[s].at = "strip" /\ calls'[s].who = i
    BY <2>6, <2>i DEF Calls
  <2>8. MarkOK(s)'
    BY <2>5, <2>7 DEF MarkOK, Open, Of, IsOpen, Ids
  <2>9. "strip" \in Marks /\ calls[s].at # "idle" /\ calls[s].at \notin Marks
    BY <2>1 DEF Marks
  <2> QED
    BY <2>i, <2>1, <2>4, <2>8, <2>9, WriteKeepsTold
<1>15. ASSUME NEW s \in Slots, ApproveTrack(s) PROVE Told'
  BY <1>15, MoveKeepsTold DEF ApproveTrack, Marks
<1>16. ASSUME NEW s \in Slots, ApproveCommit(s) PROVE Told'
  <2>1. CASE Enlisted(calls[s].who)
    <3>1. End(s) /\ UNCHANGED <<apps, marker, raced>> /\ calls[s].at \notin Marks
      BY <1>16, <2>1 DEF ApproveCommit, Marks
    <3>2. "idle" \notin Marks
      BY DEF Marks
    <3> QED
      BY <3>1, <3>2, MoveKeepsTold
  <2>2. CASE ~Enlisted(calls[s].who)
    <3> DEFINE entry == [Copy(s) EXCEPT !.status = "approved", !.promoted = Len(members) + 1]
    <3>1. calls[s].at \in Loaded
      BY <1>16 DEF ApproveCommit, Loaded
    <3>2. Copy(s) \in Apps /\ Copy(s).owner = calls[s].who
      BY <3>1, CopyOK DEF TypeOK, CallsOK
    <3>3. Len(members) + 1 \in Nat
      BY DEF TypeOK
    <3>4. entry \in Apps /\ entry.owner = calls[s].who /\ entry.status \notin OpenStatuses
      BY <3>2, <3>3 DEF Apps, Statuses, OpenStatuses
    <3>5. /\ Save(s, entry) /\ UNCHANGED <<blocked, marker>> /\ Wrote(s, "approve-strip")
          /\ Race(s, TRUE)
      BY <1>16, <2>2 DEF ApproveCommit
    <3> HIDE DEF entry
    <3> QED
      BY <3>1, <3>4, <3>5, SaveKeepsTold
  <2> QED
    BY <2>1, <2>2
<1>17. ASSUME NEW s \in Slots, NEW status \in Statuses, calls[s].at \in Loaded,
              Save(s, [Copy(s) EXCEPT !.status = status]), UNCHANGED <<blocked, marker>>,
              NEW stage, Wrote(s, stage), Race(s, TRUE),
              \/ stage = "strip" /\ status = "declined"
              \/ stage = "idle" /\ status = "held"
       PROVE  Told'
  <2> DEFINE entry == [Copy(s) EXCEPT !.status = status]
  <2>1. Copy(s) \in Apps /\ Copy(s).owner = calls[s].who
    BY <1>17, CopyOK DEF TypeOK, CallsOK
  <2>2. entry \in Apps /\ entry.owner = calls[s].who /\ entry.status = status
    BY <2>1 DEF Apps
  <2>3. Save(s, entry)
    BY <1>17
  <2> HIDE DEF entry
  <2>4. \/ stage \in {"strip", "approve-strip"} /\ entry.status \notin OpenStatuses
        \/ stage = "idle" /\ entry.status \in OpenStatuses
    BY <1>17, <2>2 DEF OpenStatuses
  <2> QED
    BY <1>17, <2>2, <2>3, <2>4, SaveKeepsTold
<1>18. ASSUME NEW s \in Slots, DeclineSave(s) PROVE Told'
  <2>1. /\ calls[s].at \in Loaded /\ Save(s, [Copy(s) EXCEPT !.status = "declined"])
        /\ Wrote(s, "strip") /\ Race(s, TRUE) /\ UNCHANGED <<blocked, marker>>
    BY <1>18 DEF DeclineSave, Loaded
  <2>2. "declined" \in Statuses
    BY DEF Statuses
  <2> QED
    BY <2>1, <2>2, <1>17
<1>19. ASSUME NEW s \in Slots, HoldSave(s) PROVE Told'
  <2>1. /\ calls[s].at \in Loaded /\ Save(s, [Copy(s) EXCEPT !.status = "held"])
        /\ Wrote(s, "idle") /\ Race(s, TRUE) /\ UNCHANGED <<blocked, marker>>
    BY <1>19 DEF HoldSave, Loaded
  <2>2. "held" \in Statuses
    BY DEF Statuses
  <2> QED
    BY <2>1, <2>2, <1>17
<1>20. ASSUME UNCHANGED <<apps, marker, calls, raced>> PROVE Told'
  BY <1>20 DEF Told, MarkOK, ToldOK, Marking, Open, Of, IsOpen, Ids
<1>21. CASE Crash
  <2>1. \A s \in Slots : MarkOK(s)'
    BY <1>21 DEF Crash, MarkOK, NoCall, Call
  <2>2. \A i \in Identities \ raced' : ~Marking(i)
    BY <1>21 DEF Crash, Marking, Marks, HalfDone
  <2>3. UNCHANGED <<apps, marker>> /\ raced \subseteq raced'
    BY <1>21 DEF Crash
  <2> QED
    BY <2>1, <2>2, <2>3, ReadKeepsTold
<1>22. ASSUME NEW s \in Slots, Applicant(s) PROVE Told'
  BY <1>22, <1>1, <1>2, <1>3, <1>4, <1>5, <1>6, <1>7, <1>8, <1>9 DEF Applicant
<1>23. ASSUME NEW s \in Slots, Officer(s) PROVE Told'
  <2>1. ASSUME BlockIdentity(s) \/ UnblockSave(s) PROVE Told'
    BY <2>1, <1>12 DEF BlockIdentity, UnblockSave
  <2> QED
    BY <1>23, <2>1, <1>6, <1>10, <1>11, <1>13, <1>15, <1>16, <1>18, <1>19 DEF Officer
<1>24. ASSUME NEW f \in {"recruit", "mercenaries", "bot"}, Toggle(f) PROVE Told'
  BY <1>24, <1>20 DEF Toggle
<1> QED
  BY <1>20, <1>21, <1>22, <1>23, <1>24 DEF Next, vars

\* Unless requests about them have raced or found the bot off, the last request for
\* the Applicant role gives it to those with an open application and to nobody else
\* (submit, approve, decline, block).
THEOREM RoleTellsOpen == Spec => []MarkerTellsOpen
<1>1. Told => MarkerTellsOpen
  <2> SUFFICES ASSUME Told, NEW i \in Identities \ raced, \A s \in Slots : ~Concerns(s, i)
               PROVE  marker[i] = "add" <=> Open(i) # {}
    BY DEF MarkerTellsOpen
  <2>1. ~Marking(i)
    BY DEF Marking, Concerns
  <2> QED
    BY <2>1 DEF Told, ToldOK
<1> QED
  BY <1>1, ToldInit, ToldStep, TypeCorrect, AlwaysUnraced, PTL DEF Spec
================================================================================
