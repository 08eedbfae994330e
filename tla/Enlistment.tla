------------------------------ MODULE Enlistment ------------------------------
(***************************************************************************)
(* Applications, the block on an applicant, and enlistment onto the        *)
(* roster (applications.service).                                          *)
(*                                                                         *)
(* Every handler reads with one await and writes with a later one, on a    *)
(* copy of the row: repository.save puts every column of the copy back, so *)
(* what another request wrote in between is undone.  A request is a slot   *)
(* that holds what it has read; its steps are the moments between awaits.  *)
(*                                                                         *)
(* The permission gate (ApplyToJoin, ManageApplications) reads a context   *)
(* cached for up to thirty seconds and belongs to the session: here anyone *)
(* may call.  Rank and medal adoption, the texts and the audit are left    *)
(* out; the deletion of an identity, which orphans its applications, too.  *)
(***************************************************************************)
EXTENDS Naturals, Sequences, FiniteSets

CONSTANTS
    Identities, \* discord_identities: the people who may apply
    Nobody,     \* whom an idle slot concerns
    Slots,      \* the requests the process may be serving at once
    MaxApps,    \* bound: applications submitted
    MaxCalls,   \* bound: requests of all kinds
    MaxToggles  \* bound: saves of the regiment's and the bot's settings

ASSUME NobodyAssumption == Nobody \notin Identities
ASSUME BoundsAssumption == {MaxApps, MaxCalls, MaxToggles} \subseteq Nat

VARIABLES
    apps,    \* the applications, in order of creation
    members, \* the roster rows enlistment has created, in order
    blocked, \* [Identities -> BOOLEAN]: applicationsBlockedAt is set
    settings,\* openRecruitment, allowMercenaries, botEnabled
    marker,  \* [Identities -> the last request queued for the Applicant role]
    calls,   \* [Slots -> the request being served]
    time,    \* what submittedAt is read from
    used,    \* spent of MaxCalls and of MaxToggles
    raced    \* history: the people for whom a request wrote after another had
             \* written since it first read, lost its second half, or found
             \* the bot off

vars == <<apps, members, blocked, settings, marker, calls, time, used, raced>>

Types == {"Member", "Mercenary"}
Statuses == {"pending", "held", "approved", "declined"}
OpenStatuses == {"pending", "held"}
Stages == {"idle", "submit-settings", "submit-priors", "submit-save",
           "submit-mark", "edit-load", "edit-track", "edit-save",
           "block-identity", "block-decline", "strip", "unblock-save",
           "approve-track", "approve-commit", "approve-strip",
           "decline-save", "hold-save"}

\* promoted is the position of promotedMember on the roster, 0 for null.
Apps == [owner : Identities, type : Types, status : Statuses,
         promoted : Nat, submitted : Nat]

Ids == 1..Len(apps)
Of(i) == {a \in Ids : apps[a].owner = i}
IsOpen(a) == apps[a].status \in OpenStatuses
Open(i) == {a \in Of(i) : IsOpen(a)}
Decided(a) == apps[a].status \in {"approved", "declined"}
Latest(i) == {a \in Of(i) : \A b \in Of(i) : apps[b].submitted <= apps[a].submitted}
Enlisted(i) == \E m \in 1..Len(members) : members[m].owner = i

\* The role an application of this type is enrolled with.
EnrolledRole(type) == IF type = "Mercenary" THEN "Mercenary" ELSE "Member"

\* A request: where it stands, whom and which application it concerns, what it
\* was sent, the copy of the row it works on (<<>> before it has one), and
\* (history) whether another request has written about that person meanwhile.
Call(at, who, app, type, copy) ==
    [at |-> at, who |-> who, app |-> app, type |-> type, copy |-> copy, stale |-> FALSE]
NoCall == Call("idle", Nobody, 0, "same", <<>>)
Concerns(s, i) == calls[s].who = i
Copy(s) == calls[s].copy[1]

Begin(s, c) ==
    /\ calls[s].at = "idle"
    /\ used.calls < MaxCalls
    /\ used' = [used EXCEPT !.calls = @ + 1]
    /\ calls' = [calls EXCEPT ![s] = c]
At(s, stage) == calls[s].at = stage
Goto(s, stage) == calls' = [calls EXCEPT ![s].at = stage]
End(s) == calls' = [calls EXCEPT ![s] = NoCall]

\* s goes on to stage having written about its person.
Wrote(s, stage) ==
    calls' = [t \in Slots |->
        IF t = s THEN IF stage = "idle" THEN NoCall ELSE [calls[s] EXCEPT !.at = stage]
        ELSE IF Concerns(t, calls[s].who) THEN [calls[t] EXCEPT !.stale = TRUE]
        ELSE calls[t]]
Race(s, clean) ==
    raced' = IF calls[s].stale \/ ~clean THEN raced \cup {calls[s].who} ELSE raced

\* repository.save of the copy, changed as the handler changes it.
Save(s, row) == apps' = [apps EXCEPT ![calls[s].app] = row]

\* enqueueApplicantRole: nothing is queued while the bot is off.
QueueMarker(i, request) ==
    marker' = IF settings.bot THEN [marker EXCEPT ![i] = request] ELSE marker

Init ==
    /\ apps = <<>>
    /\ members = <<>>
    /\ blocked = [i \in Identities |-> FALSE]
    /\ settings = [recruit |-> TRUE, mercenaries |-> TRUE, bot |-> TRUE]
    /\ marker = [i \in Identities |-> "none"]
    /\ calls = [s \in Slots |-> NoCall]
    /\ time = 0
    /\ used = [calls |-> 0, toggles |-> 0]
    /\ raced = {}

(***************************************************************************)
(* submit                                                                  *)
(***************************************************************************)
SubmitStages == {"submit-settings", "submit-priors", "submit-save"}
Submitting == {s \in Slots : calls[s].at \in SubmitStages}

Submit(s, i, type) ==
    /\ Len(apps) + Cardinality(Submitting) < MaxApps
    /\ ~blocked[i]
    /\ Begin(s, Call("submit-settings", i, 0, type, <<>>))
    /\ UNCHANGED <<apps, members, blocked, settings, marker, time, raced>>

SubmitSettings(s) ==
    /\ At(s, "submit-settings")
    /\ IF settings.recruit /\ (calls[s].type = "Mercenary" => settings.mercenaries)
       THEN Goto(s, "submit-priors")
       ELSE End(s)
    /\ UNCHANGED <<apps, members, blocked, settings, marker, time, used, raced>>

\* Takes only a pending prior for an open one.
SubmitPriors_PendingOnly(s) ==
    /\ At(s, "submit-priors")
    /\ IF \A a \in Of(calls[s].who) : apps[a].status # "pending"
       THEN Goto(s, "submit-save")
       ELSE End(s)
    /\ UNCHANGED <<apps, members, blocked, settings, marker, time, used, raced>>

SubmitPriors(s) ==
    /\ At(s, "submit-priors")
    /\ IF Open(calls[s].who) = {} THEN Goto(s, "submit-save") ELSE End(s)
    /\ UNCHANGED <<apps, members, blocked, settings, marker, time, used, raced>>

SubmitSave(s) ==
    LET i == calls[s].who IN
    /\ At(s, "submit-save")
    /\ apps' = Append(apps, [owner |-> i, type |-> calls[s].type, status |-> "pending",
                             promoted |-> 0, submitted |-> time + 1])
    /\ time' = time + 1
    /\ Race(s, TRUE)
    /\ Wrote(s, "submit-mark")
    /\ UNCHANGED <<members, blocked, settings, marker, used>>

SubmitMark(s) ==
    LET i == calls[s].who IN
    /\ At(s, "submit-mark")
    /\ QueueMarker(i, "add")
    /\ Race(s, settings.bot)
    /\ End(s)
    /\ UNCHANGED <<apps, members, blocked, settings, time, used>>

(***************************************************************************)
(* updateMine.  A patch need not name a type ("same").  The row is loaded  *)
(* without its relations, with the columns the save writes back.           *)
(***************************************************************************)
Edit(s, i, type) ==
    /\ ~blocked[i]
    /\ Begin(s, Call("edit-load", i, 0, type, <<>>))
    /\ UNCHANGED <<apps, members, blocked, settings, marker, time, raced>>

\* Lets the applicant rewrite an application whatever its state.
EditLoad_AnyState(s) ==
    /\ At(s, "edit-load")
    /\ \/ \E a \in Latest(calls[s].who) :
              calls' = [calls EXCEPT ![s].at = "edit-track", ![s].app = a,
                                     ![s].copy = <<apps[a]>>]
       \/ Latest(calls[s].who) = {} /\ End(s)
    /\ UNCHANGED <<apps, members, blocked, settings, marker, time, used, raced>>

EditLoad(s) ==
    /\ At(s, "edit-load")
    /\ \/ \E a \in Latest(calls[s].who) :
              /\ apps[a].status = "pending"
              /\ calls' = [calls EXCEPT ![s].at = "edit-track", ![s].app = a,
                                        ![s].copy = <<apps[a]>>]
       \/ /\ \A a \in Latest(calls[s].who) : apps[a].status # "pending"
          /\ End(s)
    /\ UNCHANGED <<apps, members, blocked, settings, marker, time, used, raced>>

EditTrack(s) ==
    /\ At(s, "edit-track")
    /\ IF calls[s].type = "Mercenary" => settings.mercenaries
       THEN Goto(s, "edit-save")
       ELSE End(s)
    /\ UNCHANGED <<apps, members, blocked, settings, marker, time, used, raced>>

EditSave(s) ==
    LET type == IF calls[s].type = "same" THEN Copy(s).type ELSE calls[s].type IN
    /\ At(s, "edit-save")
    /\ Save(s, [Copy(s) EXCEPT !.type = type, !.submitted = time + 1])
    /\ time' = time + 1
    /\ Race(s, TRUE)
    /\ Wrote(s, "idle")
    /\ UNCHANGED <<members, blocked, settings, marker, used>>

(***************************************************************************)
(* blockApplicant and unblockApplicant.  The block is two writes: the      *)
(* identity, then an UPDATE of what is open at that moment.                *)
(***************************************************************************)
Block(s, a) ==
    /\ Begin(s, Call("block-identity", apps[a].owner, a, "same", <<>>))
    /\ UNCHANGED <<apps, members, blocked, settings, marker, time, raced>>

BlockIdentity(s) ==
    /\ At(s, "block-identity")
    /\ blocked' = [blocked EXCEPT ![calls[s].who] = TRUE]
    /\ Wrote(s, "block-decline")
    /\ UNCHANGED <<apps, members, settings, marker, time, used, raced>>

\* Leaves a held application alone.
BlockDecline_PendingOnly(s) ==
    LET out == {a \in Of(calls[s].who) : apps[a].status = "pending"} IN
    /\ At(s, "block-decline")
    /\ apps' = [a \in Ids |-> IF a \in out THEN [apps[a] EXCEPT !.status = "declined"]
                                           ELSE apps[a]]
    /\ Wrote(s, "strip")
    /\ UNCHANGED <<members, blocked, settings, marker, time, used, raced>>

BlockDecline(s) ==
    LET out == Open(calls[s].who) IN
    /\ At(s, "block-decline")
    /\ apps' = [a \in Ids |-> IF a \in out THEN [apps[a] EXCEPT !.status = "declined"]
                                           ELSE apps[a]]
    /\ Wrote(s, "strip")
    /\ UNCHANGED <<members, blocked, settings, marker, time, used, raced>>

\* stripApplicantRole, the last step of a block and of a decline.
Strip(s) ==
    LET i == calls[s].who IN
    /\ At(s, "strip")
    /\ QueueMarker(i, "remove")
    /\ Race(s, settings.bot)
    /\ End(s)
    /\ UNCHANGED <<apps, members, blocked, settings, time, used>>

Unblock(s, a) ==
    /\ blocked[apps[a].owner]
    /\ Begin(s, Call("unblock-save", apps[a].owner, a, "same", <<>>))
    /\ UNCHANGED <<apps, members, blocked, settings, marker, time, raced>>

UnblockSave(s) ==
    /\ At(s, "unblock-save")
    /\ blocked' = [blocked EXCEPT ![calls[s].who] = FALSE]
    /\ Wrote(s, "idle")
    /\ UNCHANGED <<apps, members, settings, marker, time, used, raced>>

(***************************************************************************)
(* approve.  Between the load and the transaction the handler reads the    *)
(* settings, the decider, the entry rank and the guild.  The transaction   *)
(* inserts the member, whose identity is unique, and saves the copy with   *)
(* the member as its relation; a duplicate rolls both back.                *)
(***************************************************************************)

Load(s, a, stage) ==
    Begin(s, Call(stage, apps[a].owner, a, "same", <<apps[a]>>))

Approve(s, a) ==
    /\ IsOpen(a)
    /\ Load(s, a, "approve-track")
    /\ UNCHANGED <<apps, members, blocked, settings, marker, time, raced>>

ApproveTrack(s) ==
    /\ At(s, "approve-track")
    /\ IF Copy(s).type = "Mercenary" => settings.mercenaries
       THEN Goto(s, "approve-commit")
       ELSE End(s)
    /\ UNCHANGED <<apps, members, blocked, settings, marker, time, used, raced>>

\* Saves the decision without putting the new member in the loaded relation,
\* whose null then outranks the column.
ApproveCommit_NullRelation(s) ==
    LET i == calls[s].who IN
    /\ At(s, "approve-commit")
    /\ IF Enlisted(i)
       THEN End(s) /\ UNCHANGED <<apps, members, raced>>
       ELSE /\ members' = Append(members, [owner |-> i, role |-> EnrolledRole(Copy(s).type)])
            /\ Save(s, [Copy(s) EXCEPT !.status = "approved"])
            /\ Race(s, TRUE)
            /\ Wrote(s, "approve-strip")
    /\ UNCHANGED <<blocked, settings, marker, time, used>>

\* The roster lets one person in twice.
ApproveCommit_NotUnique(s) ==
    LET i == calls[s].who IN
    /\ At(s, "approve-commit")
    /\ members' = Append(members, [owner |-> i, role |-> EnrolledRole(Copy(s).type)])
    /\ Save(s, [Copy(s) EXCEPT !.status = "approved", !.promoted = Len(members) + 1])
    /\ Race(s, TRUE)
    /\ Wrote(s, "approve-strip")
    /\ UNCHANGED <<blocked, settings, marker, time, used>>

ApproveCommit(s) ==
    LET i == calls[s].who IN
    /\ At(s, "approve-commit")
    /\ IF Enlisted(i)
       THEN End(s) /\ UNCHANGED <<apps, members, raced>>
       ELSE /\ members' = Append(members, [owner |-> i, role |-> EnrolledRole(Copy(s).type)])
            /\ Save(s, [Copy(s) EXCEPT !.status = "approved", !.promoted = Len(members) + 1])
            /\ Race(s, TRUE)
            /\ Wrote(s, "approve-strip")
    /\ UNCHANGED <<blocked, settings, marker, time, used>>

\* The marker comes off; the role grant, the message and the session follow.
ApproveStrip(s) ==
    LET i == calls[s].who IN
    /\ At(s, "approve-strip")
    /\ QueueMarker(i, "remove")
    /\ Race(s, settings.bot)
    /\ End(s)
    /\ UNCHANGED <<apps, members, blocked, settings, time, used>>

(***************************************************************************)
(* decline and hold.                                                       *)
(***************************************************************************)
Decline(s, a) ==
    /\ IsOpen(a)
    /\ Load(s, a, "decline-save")
    /\ UNCHANGED <<apps, members, blocked, settings, marker, time, raced>>

\* Records the decision and forgets the marker.
DeclineSave_NoStrip(s) ==
    /\ At(s, "decline-save")
    /\ Save(s, [Copy(s) EXCEPT !.status = "declined"])
    /\ Race(s, TRUE)
    /\ Wrote(s, "idle")
    /\ UNCHANGED <<members, blocked, settings, marker, time, used>>

DeclineSave(s) ==
    /\ At(s, "decline-save")
    /\ Save(s, [Copy(s) EXCEPT !.status = "declined"])
    /\ Race(s, TRUE)
    /\ Wrote(s, "strip")
    /\ UNCHANGED <<members, blocked, settings, marker, time, used>>

\* Puts any application on hold, decided ones too.
Hold_Decided(s, a) ==
    /\ Load(s, a, "hold-save")
    /\ UNCHANGED <<apps, members, blocked, settings, marker, time, raced>>

Hold(s, a) ==
    /\ IsOpen(a)
    /\ Load(s, a, "hold-save")
    /\ UNCHANGED <<apps, members, blocked, settings, marker, time, raced>>

HoldSave(s) ==
    /\ At(s, "hold-save")
    /\ Save(s, [Copy(s) EXCEPT !.status = "held"])
    /\ Race(s, TRUE)
    /\ Wrote(s, "idle")
    /\ UNCHANGED <<members, blocked, settings, marker, time, used>>

(***************************************************************************)
(* The settings page, and the death of the process with its requests.      *)
(***************************************************************************)
Toggle(field) ==
    /\ used.toggles < MaxToggles
    /\ used' = [used EXCEPT !.toggles = @ + 1]
    /\ settings' = [settings EXCEPT ![field] = ~@]
    /\ UNCHANGED <<apps, members, blocked, marker, calls, time, raced>>

\* The stages that leave a request half done: one of its writes is behind it.
HalfDone == {"submit-mark", "block-decline", "strip", "approve-strip"}

Crash ==
    /\ raced' = raced \cup {calls[s].who : s \in {t \in Slots : calls[t].at \in HalfDone}}
    /\ calls' = [s \in Slots |-> NoCall]
    /\ UNCHANGED <<apps, members, blocked, settings, marker, time, used>>

Applicant(s) ==
    \/ \E i \in Identities : \/ \E t \in Types : Submit(s, i, t)
                             \/ \E t \in Types \cup {"same"} : Edit(s, i, t)
    \/ SubmitSettings(s) \/ SubmitPriors(s) \/ SubmitSave(s) \/ SubmitMark(s)
    \/ EditLoad(s) \/ EditTrack(s) \/ EditSave(s)

Officer(s) ==
    \/ \E a \in Ids : \/ Block(s, a) \/ Unblock(s, a)
                      \/ Approve(s, a) \/ Decline(s, a) \/ Hold(s, a)
    \/ BlockIdentity(s) \/ BlockDecline(s) \/ Strip(s) \/ UnblockSave(s)
    \/ ApproveTrack(s) \/ ApproveCommit(s) \/ ApproveStrip(s)
    \/ DeclineSave(s) \/ HoldSave(s)

Next ==
    \/ \E s \in Slots : Applicant(s) \/ Officer(s)
    \/ \E f \in {"recruit", "mercenaries", "bot"} : Toggle(f)
    \/ Crash

Spec == Init /\ [][Next]_vars

(***************************************************************************)
(* Properties                                                              *)
(***************************************************************************)
\* What a request works on after its load: the row of its own person, which
\* was open when read, so that no handler saves a copy it read as decided.
Loaded == {"edit-track", "edit-save", "approve-track", "approve-commit",
           "decline-save", "hold-save"}
LoadedOK(c, rows) ==
    c.at \in Loaded => /\ c.app \in 1..Len(rows)
                       /\ Len(c.copy) = 1
                       /\ c.copy[1].owner = c.who
                       /\ c.copy[1].status \in OpenStatuses
                       /\ rows[c.app].owner = c.who

Calls == [at : Stages, who : Identities \cup {Nobody}, app : Nat,
          type : Types \cup {"same"}, copy : Seq(Apps), stale : BOOLEAN]
CallOK(c, rows) ==
    /\ c \in Calls
    /\ LoadedOK(c, rows)
    /\ c.at # "idle" => c.who \in Identities
    /\ c.at \in SubmitStages => c.type \in Types

\* The shape of the state, and of what a request holds at each stage.
TypeOK ==
    /\ apps \in Seq(Apps)
    /\ members \in Seq([owner : Identities, role : Types])
    /\ blocked \in [Identities -> BOOLEAN]
    /\ settings \in [recruit : BOOLEAN, mercenaries : BOOLEAN, bot : BOOLEAN]
    /\ marker \in [Identities -> {"none", "add", "remove"}]
    /\ time \in Nat /\ used \in [calls : Nat, toggles : Nat]
    /\ raced \subseteq Identities
    /\ calls \in [Slots -> Calls]
    /\ \A s \in Slots : CallOK(calls[s], apps)

\* An approved application is behind a roster member: its applicant, in the
\* role of the track it names, whatever edits, holds and decisions it raced
\* with (the transaction and the relation kept in step with its column).
ApprovedIsEnlisted ==
    \A a \in Ids : apps[a].status = "approved" =>
        /\ apps[a].promoted \in 1..Len(members)
        /\ members[apps[a].promoted] = [owner |-> apps[a].owner,
                                        role |-> EnrolledRole(apps[a].type)]

\* Officers who approve at the same moment, the same application or two of
\* one applicant, enlist that person once (the unique identity of a member).
EnlistedOnce ==
    \A m, n \in 1..Len(members) : members[m].owner = members[n].owner => m = n

\* An applicant has one open application at most, unless a request wrote on a
\* premise that had gone since it read it (submit's check of the priors).
OneOpenApplication ==
    \A i \in Identities \ raced : Cardinality(Open(i)) <= 1

\* A decision is final: no edit, hold, block or second decision moves it,
\* with the same proviso (assertDecidable, the pending check of updateMine).
DecisionStands ==
    [][\A a \in Ids : Decided(a) /\ apps[a].owner \notin raced'
            => apps'[a].status = apps[a].status]_vars

\* Someone blocked has nothing in the queue once the block is through, with
\* the same proviso (blockApplicant, the block check of submit and of edit).
BlockedIsOut ==
    \A i \in Identities \ raced :
        blocked[i] /\ (\A s \in Slots : ~Concerns(s, i)) => Open(i) = {}

\* At rest, the last request for the Applicant role gives it to those with an
\* open application and to nobody else, with the same proviso and unless the
\* bot was off when it was due (submit, approve, decline, block).
MarkerTellsOpen ==
    \A i \in Identities \ raced :
        (\A s \in Slots : ~Concerns(s, i)) => (marker[i] = "add" <=> Open(i) # {})

\* What the block promises: an application "can never be approved while
\* blocked" (applications.service.ts:329-330).  An approval that had loaded
\* the row before commits after.
NeverApprovedWhileBlocked ==
    [][\A a \in Ids : apps[a].status # "approved" /\ apps'[a].status = "approved"
            => ~blocked[apps[a].owner]]_vars
=============================================================================
