--------------------------- MODULE EventAnnouncement ---------------------------
(***************************************************************************)
(* The Discord announcement of an event: posted once when the event is     *)
(* created, edited whenever the roster or the details move, given one      *)
(* thread before the start, and stripped of its buttons when the event is  *)
(* over.                                                                   *)
(*                                                                         *)
(* Requests commit to the database first and queue outbox jobs afterwards; *)
(* the worker recomposes from the database when a job drains; two sweeps   *)
(* run beside both.  The outbox itself is SyncOutbox's subject: here the   *)
(* worker serves any waiting row, which backoff and the tick's snapshot    *)
(* make possible, a dispatch that throws is retried or given up, and a     *)
(* crash includes the reaper that follows it.                              *)
(***************************************************************************)
EXTENDS Naturals, FiniteSets, Bags

CONSTANTS
    Events,     \* event ids
    Members,    \* members who may answer
    Calls,      \* slots for the requests under way, numbered
    MaxRsvps,   \* bound: answers given or withdrawn
    MaxEdits,   \* bound: authoring requests after creation
    MaxReminds, \* bound: reminders the reminder sweep sends here
    MaxJobs,    \* bound: rows waiting or in hand
    MaxTrouble, \* bound: throws, crashes, failed write-backs, gate flips
    MaxTotal    \* bound: all of these together

ASSUME ConstantsAssumption ==
    /\ IsFiniteSet(Members) /\ Calls \subseteq Nat
    /\ MaxJobs \in Nat \ {0}
    /\ {MaxRsvps, MaxEdits, MaxReminds, MaxTrouble, MaxTotal} \subseteq Nat

VARIABLES
    ev,       \* [Events -> the events row]
    rsvp,     \* [Events -> SUBSET Members]: who answered that they come
    delivery, \* [Events -> the event_announcements row]
    post,     \* [Events -> what the channel shows]
    jobs,     \* discord_sync_jobs of the event types, waiting: a bag of rows
    hand,     \* the row in hand, where its dispatch stands, what it has read
    calls,    \* [Calls -> a request between two of its awaits]
    on,       \* botEnabled, with a channel configured
    used,     \* how much of each bound is spent
    behind    \* history: an answer or edit whose refresh was dropped

vars == <<ev, rsvp, delivery, post, jobs, hand, calls, on, used, behind>>
database == <<ev, rsvp>>
discord == <<delivery, post>>

\* "coming" is upcoming or ongoing: nothing here tells the two apart.
Statuses == {"coming", "previous"}
JobTypes == {"announce", "refresh", "thread", "close"}
Idempotent == {"refresh", "close"}

\* "over" compares the row's instants with the clock; "text" stands for the
\* details the card shows.
NoEvent == [born |-> FALSE, status |-> "coming", archived |-> FALSE,
            deleted |-> FALSE, over |-> FALSE, text |-> 0]
Card(e) == [text |-> ev[e].text, roster |-> rsvp[e]]
Blank == [text |-> 0, roster |-> {}]
NoDelivery == [made |-> FALSE, thread |-> FALSE, closed |-> FALSE]
NoPost == [count |-> 0, card |-> Blank, live |-> FALSE, threads |-> 0,
           pings |-> 0]
AnEvent == CHOOSE e \in Events : TRUE
Free == [op |-> "none", e |-> AnEvent, step |-> "idle", copy |-> NoEvent]
Row(type, e, card) == [type |-> type, e |-> e, card |-> card]
Empty == [row |-> Row("none", AnEvent, Blank), step |-> "idle",
          seen |-> Blank, visible |-> FALSE]

\* EventAnnouncementService.loadEvent: drafts do not occur, see create().
Visible(e) == ev[e].born /\ ~ev[e].archived /\ ~ev[e].deleted
Open(e) == delivery[e].made /\ ~delivery[e].closed

Spend(what) == used' = [used EXCEPT ![what] = @ + 1]
Spare(what, max) ==
    /\ used[what] < max
    /\ used.rsvps + used.edits + used.trouble < MaxTotal \/ what = "reminds"
InTrouble == Spare("trouble", MaxTrouble) /\ Spend("trouble")
CallsOn(e) == {c \in Calls : calls[c].step # "idle" /\ calls[c].e = e}
\* A request takes the first slot that is free.
Arrives(c) == \A d \in Calls : d <= c => (calls[d].step = "idle" <=> d = c)
Step(c, s) == calls' = [calls EXCEPT ![c].step = s]
Return(c) == calls' = [calls EXCEPT ![c] = Free]

InHand(type, s) == hand.row.type = type /\ hand.step = s
Of(e, types) == {r \in BagToSet(jobs) : r.e = e /\ r.type \in types}
Handling(e, types) == hand.row.e = e /\ hand.row.type \in types
\* Each row that waits, however many of them are alike.
Copies(bag) == UNION {{row} \X (1 .. bag[row]) : row \in BagToSet(bag)}
Room == Cardinality(Copies(jobs)) < MaxJobs
Insert(row) == Room /\ jobs' = jobs (+) SetToBag({row})

Init ==
    /\ ev = [e \in Events |-> NoEvent]
    /\ rsvp = [e \in Events |-> {}]
    /\ delivery = [e \in Events |-> NoDelivery]
    /\ post = [e \in Events |-> NoPost]
    /\ jobs = EmptyBag
    /\ hand = Empty
    /\ calls = [c \in Calls |-> Free]
    /\ on = TRUE
    /\ used = [rsvps |-> 0, edits |-> 0, reminds |-> 0, trouble |-> 0]
    /\ behind = [e \in Events |-> FALSE]

(***************************************************************************)
(* Requests.                                                               *)
(***************************************************************************)

\* create() commits the event; the announcement is queued after it.  The
\* recurrence sweep creates an occurrence the same way.
Create(c, e) ==
    /\ Arrives(c) /\ ~ev[e].born
    /\ ev' = [ev EXCEPT ![e].born = TRUE]
    /\ calls' = [calls EXCEPT ![c] = [Free EXCEPT !.op = "create", !.e = e,
                                                  !.step = "announce"]]
    /\ UNCHANGED <<rsvp, discord, jobs, hand, on, used, behind>>

\* The card is composed here and travels in the payload.
EnqueueAnnounce(c) ==
    LET e == calls[c].e IN
    /\ calls[c].step = "announce"
    /\ IF on /\ Visible(e)
         THEN Insert(Row("announce", e, Card(e))) ELSE UNCHANGED jobs
    /\ Return(c)
    /\ UNCHANGED <<database, discord, hand, on, used, behind>>

\* update(), archive(), unarchive() and complete() load the whole row and
\* work on that copy.
LoadEvent(c, e, op) ==
    /\ Arrives(c)
    /\ Spare("edits", MaxEdits) /\ Spend("edits")
    /\ ev[e].born /\ ~ev[e].deleted
    /\ calls' = [calls EXCEPT ![c] =
         [op |-> op, e |-> e, step |-> "save",
          copy |-> [ev[e] EXCEPT !.over = FALSE]]]
    /\ UNCHANGED <<database, discord, jobs, hand, on, behind>>

\* save() writes the loaded columns back, whatever they became meanwhile; the
\* clock is not a column.  A copy that takes an edit back and queues no refresh
\* leaves the card behind.
WriteBack(c, row) ==
    LET e == calls[c].e IN
    /\ ev' = [ev EXCEPT ![e] = [row EXCEPT !.over = ev[e].over]]
    /\ behind' = [behind EXCEPT ![e] = @ \/ row.text # ev[e].text]

\* update(): the details change, the start and end among them.
SaveUpdate(c) ==
    LET e == calls[c].e IN
    /\ calls[c].step = "save" /\ calls[c].op = "update"
    /\ \E over \in BOOLEAN :
         ev' = [ev EXCEPT ![e] = [calls[c].copy EXCEPT
                  !.text = ev[e].text + 1, !.over = over]]
    /\ Step(c, "refresh")
    /\ UNCHANGED <<rsvp, discord, jobs, hand, on, used, behind>>

SaveArchive(c) ==
    /\ calls[c].step = "save" /\ calls[c].op = "archive"
    /\ WriteBack(c, [calls[c].copy EXCEPT !.archived = TRUE])
    /\ Step(c, "close")
    /\ UNCHANGED <<rsvp, discord, jobs, hand, on, used>>

SaveUnarchive(c) ==
    /\ calls[c].step = "save" /\ calls[c].op = "unarchive"
    /\ WriteBack(c, [calls[c].copy EXCEPT !.archived = FALSE])
    /\ Return(c)
    /\ UNCHANGED <<rsvp, discord, jobs, hand, on, used>>

SaveComplete(c) ==
    /\ calls[c].step = "save" /\ calls[c].op = "complete"
    /\ WriteBack(c, [calls[c].copy EXCEPT !.status = "previous"])
    /\ Return(c)
    /\ UNCHANGED <<rsvp, discord, jobs, hand, on, used>>

\* reanchor(): a targeted UPDATE of the two instants, whatever was loaded.
Reanchor(c, e) ==
    /\ Arrives(c)
    /\ Spare("edits", MaxEdits) /\ Spend("edits")
    /\ ev[e].born /\ ~ev[e].deleted
    /\ \E over \in BOOLEAN : ev' = [ev EXCEPT ![e].text = @ + 1, ![e].over = over]
    /\ calls' = [calls EXCEPT ![c] = [Free EXCEPT !.op = "reanchor", !.e = e,
                                                  !.step = "refresh"]]
    /\ UNCHANGED <<rsvp, discord, jobs, hand, on, behind>>

\* remove(), and removeSeries() for each row of the series; nothing follows.
Remove(e) ==
    /\ Spare("edits", MaxEdits) /\ Spend("edits")
    /\ ev[e].born /\ ~ev[e].deleted
    /\ ev' = [ev EXCEPT ![e].deleted = TRUE]
    /\ UNCHANGED <<rsvp, discord, jobs, hand, calls, on, behind>>

\* The answer is committed, then the refresh is queued.
Answer(c, e, m) ==
    /\ Arrives(c)
    /\ Spare("rsvps", MaxRsvps) /\ Spend("rsvps")
    /\ rsvp' = [rsvp EXCEPT ![e] = IF m \in @ THEN @ \ {m} ELSE @ \cup {m}]
    /\ calls' = [calls EXCEPT ![c] = [Free EXCEPT !.op = "rsvp", !.e = e,
                                                  !.step = "refresh"]]
    /\ UNCHANGED <<ev, discord, jobs, hand, on, behind>>

\* rsvp() and removeRsvp(), on the website: an archived event still answers.
Rsvp(c, e, m) == ev[e].born /\ ~ev[e].deleted /\ Answer(c, e, m)

\* A press on a live button.
Press(c, e, m) ==
    /\ post[e].live /\ Visible(e) /\ on /\ ev[e].status # "previous"
    /\ Answer(c, e, m)

\* enqueueEventAnnouncementRefresh, first half: the gate and the delivery.
LookRefresh(c) ==
    LET e == calls[c].e IN
    /\ calls[c].step = "refresh"
    /\ IF on /\ Open(e)
         THEN Step(c, "count") /\ UNCHANGED behind
         ELSE /\ Return(c)
              /\ behind' = [behind EXCEPT ![e] = TRUE]
    /\ UNCHANGED <<database, discord, jobs, hand, on, used>>

\* Counts a row in hand as one that will still show this answer.
Waiting_AnyStatus(e) == Of(e, {"refresh"}) # {} \/ Handling(e, {"refresh"})
Waiting(e) == Of(e, {"refresh"}) # {}

\* Second half: coalesce on the waiting rows.  A second caller between the
\* count and the insert would only queue a redundant refresh.
QueueRefresh(c) ==
    LET e == calls[c].e IN
    /\ calls[c].step = "count"
    /\ IF Waiting(e) THEN UNCHANGED jobs ELSE Insert(Row("refresh", e, Blank))
    /\ Return(c)
    /\ UNCHANGED <<database, discord, hand, on, used, behind>>

\* enqueueEventAnnouncementClose.
EnqueueClose(e) ==
    IF on /\ Open(e) THEN Insert(Row("close", e, Blank)) ELSE UNCHANGED jobs

QueueClose(c) ==
    /\ calls[c].step = "close"
    /\ EnqueueClose(calls[c].e)
    /\ Return(c)
    /\ UNCHANGED <<database, discord, hand, on, used, behind>>

(***************************************************************************)
(* The sweeps, and the clock they read.                                    *)
(***************************************************************************)
Clock(e) ==
    /\ ev[e].born /\ ~ev[e].over
    /\ ev' = [ev EXCEPT ![e].over = TRUE]
    /\ UNCHANGED <<rsvp, discord, jobs, hand, calls, on, used, behind>>

AdvanceStatuses ==
    /\ ev' = [e \in Events |->
         IF ev[e].over /\ ~ev[e].deleted /\ ~ev[e].archived
           THEN [ev[e] EXCEPT !.status = "previous"] ELSE ev[e]]
    /\ UNCHANGED <<rsvp, discord, jobs, hand, calls, on, used, behind>>

\* Sees only what the status pass has marked.
Due_PreviousOnly(e) == Open(e) /\ ev[e].status = "previous"
Due(e) == Open(e) /\ (ev[e].status = "previous" \/ ev[e].deleted)

\* closeEndedAnnouncements reaches one of its rows.
CloseEnded(e) ==
    /\ Due(e)
    /\ EnqueueClose(e)
    /\ UNCHANGED <<database, discord, hand, calls, on, used, behind>>

\* The reminder sweep, where the event has an announcement without a thread;
\* elsewhere it sends a plain message that touches nothing here.
EnqueueReminder(e) ==
    /\ Spare("reminds", MaxReminds) /\ Spend("reminds")
    /\ on /\ Visible(e) /\ ~ev[e].over
    /\ delivery[e].made /\ ~delivery[e].thread
    /\ Insert(Row("thread", e, Blank))
    /\ UNCHANGED <<database, discord, hand, calls, on, behind>>

Toggle ==
    /\ InTrouble
    /\ on' = ~on
    /\ UNCHANGED <<database, discord, jobs, hand, calls, behind>>

(***************************************************************************)
(* The worker.                                                             *)
(***************************************************************************)
Goto(s) == hand' = [hand EXCEPT !.step = s]
Done == hand' = Empty

Take(row) ==
    /\ hand = Empty
    /\ jobs' = jobs (-) SetToBag({row})
    /\ hand' = [Empty EXCEPT !.row = row, !.step = "start"]
    /\ UNCHANGED <<database, discord, calls, on, used, behind>>

\* postEventAnnouncement: the frozen payload goes out, with live buttons.
SendAnnouncement ==
    LET e == hand.row.e IN
    /\ InHand("announce", "start")
    /\ post' = [post EXCEPT ![e].count = @ + 1, ![e].card = hand.row.card,
                            ![e].live = TRUE]
    /\ Goto("record")
    /\ UNCHANGED <<database, delivery, jobs, calls, on, used, behind>>

\* Lets the write-back fail the job, which is then retried.
RecordDelivery_Unguarded ==
    LET e == hand.row.e IN
    /\ InHand("announce", "record")
    /\ \/ /\ delivery' = [delivery EXCEPT ![e] = [NoDelivery EXCEPT !.made = TRUE]]
          /\ Done
          /\ UNCHANGED <<jobs, used>>
       \/ /\ InTrouble
          /\ jobs' = jobs (+) SetToBag({hand.row})
          /\ Done
          /\ UNCHANGED delivery
    /\ UNCHANGED <<database, post, calls, on, behind>>

\* The write-back is guarded: when it fails the job has still succeeded.
RecordDelivery ==
    LET e == hand.row.e IN
    /\ InHand("announce", "record")
    /\ \/ /\ delivery' = [delivery EXCEPT ![e] = [NoDelivery EXCEPT !.made = TRUE]]
          /\ UNCHANGED used
       \/ InTrouble /\ UNCHANGED delivery
    /\ Done
    /\ UNCHANGED <<database, post, jobs, calls, on, behind>>

\* Does not look at closedAt.
ReadRefresh_EvenClosed ==
    LET e == hand.row.e IN
    /\ InHand("refresh", "start")
    /\ IF delivery[e].made /\ Visible(e)
         THEN /\ hand' = [hand EXCEPT !.step = "roster", !.visible = TRUE,
                                      !.seen = [Blank EXCEPT !.text = ev[e].text]]
              /\ behind' = [behind EXCEPT ![e] = FALSE]
         ELSE /\ Done
              /\ behind' = [behind EXCEPT ![e] = TRUE]
    /\ UNCHANGED <<database, discord, jobs, calls, on, used>>

\* refreshEventAnnouncement: the delivery and the event ...
ReadRefresh ==
    LET e == hand.row.e IN
    /\ InHand("refresh", "start")
    /\ IF Open(e) /\ Visible(e)
         THEN /\ hand' = [hand EXCEPT !.step = "roster", !.visible = TRUE,
                                      !.seen = [Blank EXCEPT !.text = ev[e].text]]
              /\ behind' = [behind EXCEPT ![e] = FALSE]
         ELSE /\ Done
              /\ behind' = [behind EXCEPT ![e] = TRUE]
    /\ UNCHANGED <<database, discord, jobs, calls, on, used>>

\* ... then the roster ...
ReadRoster ==
    /\ hand.step = "roster"
    /\ hand' = [hand EXCEPT !.step = "edit", !.seen.roster = rsvp[hand.row.e]]
    /\ UNCHANGED <<database, discord, jobs, calls, on, used, behind>>

\* Leaves the worker with the row it has served.
EditRefresh_KeepsRow ==
    LET e == hand.row.e IN
    /\ InHand("refresh", "edit")
    /\ post' = [post EXCEPT ![e].card = hand.seen, ![e].live = TRUE]
    /\ Goto("idle")
    /\ UNCHANGED <<database, delivery, jobs, calls, on, used, behind>>

\* ... and the edit, which always sends the buttons along.
EditRefresh ==
    LET e == hand.row.e IN
    /\ InHand("refresh", "edit")
    /\ post' = [post EXCEPT ![e].card = hand.seen, ![e].live = TRUE]
    /\ Done
    /\ UNCHANGED <<database, delivery, jobs, calls, on, used, behind>>

\* closeEventAnnouncement: an event that is gone is closed without its card.
ReadClose ==
    LET e == hand.row.e IN
    /\ InHand("close", "start")
    /\ IF Open(e)
         THEN /\ hand' = [hand EXCEPT !.step = IF Visible(e) THEN "roster" ELSE "edit",
                                      !.visible = Visible(e),
                                      !.seen = [Blank EXCEPT !.text = ev[e].text]]
         ELSE Done
    /\ UNCHANGED <<database, discord, jobs, calls, on, used, behind>>

EditClose ==
    LET e == hand.row.e IN
    /\ InHand("close", "edit")
    /\ post' = [post EXCEPT ![e].live = FALSE,
                            ![e].card = IF hand.visible THEN hand.seen ELSE @]
    /\ Goto("stamp")
    /\ UNCHANGED <<database, delivery, jobs, calls, on, used, behind>>

MarkClosed ==
    /\ InHand("close", "stamp")
    /\ delivery' = [delivery EXCEPT ![hand.row.e].closed = TRUE]
    /\ Done
    /\ UNCHANGED <<database, post, jobs, calls, on, used, behind>>

\* openEventThread: the guards and everything it reads ...
ReadThread ==
    LET e == hand.row.e IN
    /\ InHand("thread", "start")
    /\ IF delivery[e].made /\ ~delivery[e].thread /\ Visible(e)
         THEN Goto("open")
         ELSE Done
    /\ UNCHANGED <<database, discord, jobs, calls, on, used, behind>>

\* Goes on to ping in the thread that is there already.
OpenThread_Reuse ==
    LET e == hand.row.e IN
    /\ InHand("thread", "open")
    /\ post' = [post EXCEPT ![e].threads = 1]
    /\ Goto("record")
    /\ UNCHANGED <<database, delivery, jobs, calls, on, used, behind>>

\* ... the thread, which Discord refuses to open twice on one message ...
OpenThread ==
    LET e == hand.row.e IN
    /\ InHand("thread", "open") /\ post[e].threads = 0
    /\ post' = [post EXCEPT ![e].threads = 1]
    /\ Goto("record")
    /\ UNCHANGED <<database, delivery, jobs, calls, on, used, behind>>

\* ... its write-back, guarded ...
RecordThread ==
    LET e == hand.row.e IN
    /\ InHand("thread", "record")
    /\ \/ delivery' = [delivery EXCEPT ![e].thread = TRUE] /\ UNCHANGED used
       \/ InTrouble /\ UNCHANGED delivery
    /\ Goto("ping")
    /\ UNCHANGED <<database, post, jobs, calls, on, behind>>

\* ... and the card with the pings; the later chunks cannot fail the job.
Ping ==
    LET e == hand.row.e IN
    /\ InHand("thread", "ping")
    /\ post' = [post EXCEPT ![e].pings = @ + 1]
    /\ Done
    /\ UNCHANGED <<database, delivery, jobs, calls, on, used, behind>>

\* handleFailure.  A job that is out of attempts, or failed for good, is lost.
Fail(final) ==
    LET e == hand.row.e IN
    /\ IF final
         THEN /\ behind' = [behind EXCEPT ![e] = @ \/ hand.row.type = "refresh"]
              /\ UNCHANGED jobs
         ELSE /\ jobs' = jobs (+) SetToBag({hand.row})
              /\ UNCHANGED behind
    /\ Done
    /\ UNCHANGED <<database, discord, calls, on>>

\* Any gateway call or read of the database may throw; the two write-backs
\* after a send are guarded and may not.
Throw ==
    /\ hand # Empty /\ hand.step # "record"
    /\ InTrouble
    /\ \E final \in BOOLEAN : Fail(final)

\* The second thread on one message is refused, on every attempt.
Refused ==
    /\ InHand("thread", "open") /\ post[hand.row.e].threads > 0
    /\ Fail(TRUE)
    /\ UNCHANGED used

\* The process dies and comes back: what its requests still had to queue is
\* lost, and the reaper re-queues the row in hand or gives it up.
Reaped == IF hand.row.type \in Idempotent
            THEN jobs (+) SetToBag({hand.row}) ELSE jobs
Crash ==
    /\ InTrouble
    /\ behind' = [e \in Events |-> behind[e] \/ CallsOn(e) # {}]
    /\ jobs' = Reaped
    /\ Done
    /\ calls' = [c \in Calls |-> Free]
    /\ UNCHANGED <<database, discord, on>>

(***************************************************************************)
(* The specification.                                                      *)
(***************************************************************************)
Ops == {"update", "archive", "unarchive", "complete"}
Request(c) ==
    \/ \E e \in Events : Create(c, e) \/ Reanchor(c, e)
    \/ \E e \in Events, op \in Ops : LoadEvent(c, e, op)
    \/ \E e \in Events, m \in Members : Rsvp(c, e, m) \/ Press(c, e, m)
Continue(c) ==
    \/ EnqueueAnnounce(c) \/ LookRefresh(c) \/ QueueRefresh(c) \/ QueueClose(c)
    \/ SaveUpdate(c) \/ SaveArchive(c) \/ SaveUnarchive(c) \/ SaveComplete(c)
Alone(e) == Remove(e) \/ Clock(e) \/ CloseEnded(e) \/ EnqueueReminder(e)
Dispatch ==
    \/ SendAnnouncement \/ RecordDelivery
    \/ ReadRefresh \/ ReadRoster \/ EditRefresh
    \/ ReadClose \/ EditClose \/ MarkClosed
    \/ ReadThread \/ OpenThread \/ RecordThread \/ Ping \/ Refused

Next ==
    \/ \E c \in Calls : Request(c) \/ Continue(c)
    \/ \E e \in Events : Alone(e)
    \/ AdvanceStatuses \/ Toggle
    \/ \E row \in BagToSet(jobs) : Take(row)
    \/ Dispatch \/ Throw \/ Crash

Spec == Init /\ [][Next]_vars

\* The sweeps and the drain run on timers, and a row that is due is reached
\* once the older ones are served: rows are drained in order of creation.
Fairness ==
    /\ WF_vars(AdvanceStatuses)
    /\ WF_vars(Dispatch) /\ WF_vars(\E row \in BagToSet(jobs) : Take(row))
    /\ \A e \in Events :
         /\ WF_vars(CloseEnded(e))
         /\ SF_vars(\E row \in Of(e, {"close"}) : Take(row))
FairSpec == Spec /\ Fairness

(***************************************************************************)
(* Properties.                                                             *)
(***************************************************************************)

Cards == [text : Nat, roster : SUBSET Members]
Rows == [type : JobTypes, e : Events, card : Cards]

\* Every variable holds a value of its kind, the hand is at a step of its row's
\* dispatch, and no more rows wait than the bound and the row in hand allow.
TypeOK ==
    /\ ev \in [Events -> [born : BOOLEAN, status : Statuses, archived : BOOLEAN,
                          deleted : BOOLEAN, over : BOOLEAN, text : Nat]]
    /\ rsvp \in [Events -> SUBSET Members]
    /\ delivery \in [Events -> [made : BOOLEAN, thread : BOOLEAN, closed : BOOLEAN]]
    /\ post \in [Events -> [count : Nat, card : Cards, live : BOOLEAN,
                            threads : Nat, pings : Nat]]
    /\ IsABag(jobs) /\ BagToSet(jobs) \subseteq Rows
    /\ Cardinality(Copies(jobs)) <= MaxJobs + IF hand = Empty THEN 1 ELSE 0
    /\ hand = Empty \/ hand.row \in Rows
    /\ hand.step = "idle" <=> hand = Empty
    /\ hand.step \in {"roster", "stamp"} => hand.row.type \in Idempotent
    /\ on \in BOOLEAN /\ behind \in [Events -> BOOLEAN]
    /\ \A c \in Calls : calls[c].step # "idle" => calls[c].e \in Events

\* Nothing that would still edit the card of e is under way.
Quiet(e) ==
    LET types == {"announce", "refresh", "close"}
    IN  CallsOn(e) = {} /\ Of(e, types) = {} /\ ~Handling(e, types)

\* When nothing is under way, an open announcement shows the details and the
\* roster of the database, unless a refresh was dropped for a stated reason:
\* coalescing the refreshes (enqueueEventAnnouncementRefresh) loses no answer.
CardIsCurrent ==
    \A e \in Events :
        Quiet(e) /\ Open(e) /\ Visible(e) /\ ~behind[e]
            => post[e].card = Card(e)

\* Once closedAt is stamped the buttons are dead and stay dead, whatever
\* refresh or press was under way (refreshEventAnnouncement).
RetiredStaysDead ==
    \A e \in Events : delivery[e].closed => ~post[e].live

\* One event, one announcement, so one ping of its role, through retries,
\* crashes and failed write-backs (postEventAnnouncement); and the attendees are
\* pinged at most once, and in the thread of the message, however many
\* reminders were queued (openEventThread).
PingedOnce ==
    \A e \in Events : post[e].count <= 1 /\ post[e].pings <= post[e].threads

\* An event is over for its announcement.
Ended(e) ==
    \/ ev[e].deleted \/ ev[e].status = "previous"
    \/ ev[e].over /\ ~ev[e].archived

\* The announcement of an event that is over is retired, while the bot is on
\* and the event is not moved back (closeEndedAnnouncements).
EndedIsRetired ==
    \A e \in Events :
        (Ended(e) /\ delivery[e].made) ~> (delivery[e].closed \/ ~Ended(e) \/ ~on)

\* "Archiving hides the event from the calendar, so its announcement must stop
\* taking RSVPs too": when nothing is under way, no archived event has live
\* buttons (archive).
ArchivedIsRetired ==
    \A e \in Events : Quiet(e) /\ ev[e].archived => ~post[e].live
================================================================================
