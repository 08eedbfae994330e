------------------------------ MODULE RoleRelink ------------------------------
(***************************************************************************)
(* The bulk re-link of a rank or a medal.  An administrator points the     *)
(* catalogue row at another Discord role; one cursor job is queued, which  *)
(* the outbox worker expands page by page into one job per holder.         *)
(*                                                                         *)
(* The outbox is reduced to what this component tells apart: a tick reads  *)
(* due rows, then serves them one at a time from what it read.  Backoff,   *)
(* slots and the attempt counter are in SyncOutbox; here a tick may read   *)
(* any of the waiting rows and a dispatch that throws is retried or fails. *)
(* The reaper runs inside Restart, since every job here is idempotent.     *)
(***************************************************************************)
EXTENDS Naturals, Sequences, FiniteSets

CONSTANTS
    Members,     \* member ids, ordered: the cursor compares them
    Subjects,    \* the ranks and medals of the catalogue
    Roles,       \* Discord role ids
    NoRole,      \* the null role of an unlinked rank or medal
    Admins,      \* the requests that may be editing the catalogue at once
    Actor,       \* [Admins -> Members \cup {0}]: the member behind an admin
    InitLink,    \* [Subjects -> Roles \cup {NoRole}]
    InitHolders, \* [Subjects -> SUBSET Members]
    PageSize,    \* RELINK_PAGE_SIZE
    MaxRows,     \* bound: rows of the job table
    MaxRelinks,  \* bound: link and unlink requests
    MaxMoves,    \* bound: rank changes, medals given and taken
    MaxThrows,   \* bound: dispatches that throw
    MaxRestarts, \* bound: deaths of the process
    MaxCancels,  \* bound: cancel requests
    MaxToggles,  \* bound: flips of botEnabled / syncRolesOnChange
    MaxTrouble   \* bound: all of these together

ASSUME ConstantsAssumption ==
    /\ Members \subseteq Nat \ {0} /\ IsFiniteSet(Members)
    /\ NoRole \notin Roles
    /\ Actor \in [Admins -> Members \cup {0}]
    /\ InitLink \in [Subjects -> Roles \cup {NoRole}]
    /\ InitHolders \in [Subjects -> SUBSET Members]
    /\ PageSize \in Nat \ {0} /\ MaxRows \in Nat
    /\ {MaxRelinks, MaxMoves, MaxThrows, MaxRestarts, MaxCancels, MaxToggles,
        MaxTrouble} \subseteq Nat

VARIABLES
    link,     \* [Subjects -> role]: rank.discordRoleId, medal.discordRoleId
    holders,  \* [Subjects -> SUBSET Members]: member.rankId, member_medals
    wears,    \* [Members -> SUBSET Roles]: the guild, managed roles only
    live,     \* botEnabled /\ syncRolesOnChange
    rows,     \* discord_sync_jobs, in order of insertion
    due,      \* rows the tick has read and not served yet
    hand,     \* the row in hand and where its dispatch stands
    req,      \* [Admins -> the state of a link or unlink request]
    move,     \* a request that changes who holds a subject
    used,     \* how much of each bound is spent
    moved,    \* history: members whose holding has changed
    halted,   \* history: runs an operator or a newer run stopped
    strayed,  \* history: runs during which the mapping was another one
    missed    \* history: mappings saved over one that was not read, or whose
              \* re-link died before it was queued

vars == <<link, holders, wears, live, rows, due, hand, req, move, used, moved,
          halted, strayed, missed>>
catalogue == <<link, holders>>
worker == <<due, hand>>
detours == <<strayed, missed>>
history == <<moved, halted, detours>>

RoleOrNone == Roles \cup {NoRole}
Statuses == {"pending", "processing", "succeeded", "failed", "cancelled"}

(***************************************************************************)
(* Rows.  "batch" is the position of the seed row, 0 outside a re-link;    *)
(* "who" is the cursor of an expand row and the member of the others.      *)
(***************************************************************************)
Ids == 1..Len(rows)
Row(kind, batch, subject, who, out, in, skip) ==
    [kind |-> kind, batch |-> batch, subject |-> subject, who |-> who,
     out |-> out, in |-> in, skip |-> skip, status |-> "pending"]
Of(b) == {i \in Ids : rows[i].batch = b}
Batches == {i \in Ids : rows[i].kind = "expand" /\ rows[i].batch = i}
InState(S, s) == {i \in S : rows[i].status = s}
Scope(r) == {r.out, r.in} \ {NoRole}
Room == Len(rows) < MaxRows

\* The managed roles the roster says m should wear (desiredRoleIds).
Desired(m) == {link[s] : s \in {t \in Subjects : m \in holders[t]}} \ {NoRole}

Idle == [row |-> 0, step |-> "idle", todo |-> {}, more |-> 0, want |-> {}]
NoReq == [step |-> "idle", subject |-> CHOOSE s \in Subjects : TRUE,
          prev |-> NoRole, next |-> NoRole]
NoMove == [step |-> "idle", subject |-> CHOOSE s \in Subjects : TRUE,
           who |-> 0, role |-> NoRole]

InitUsed == [relinks |-> 0, moves |-> 0, throws |-> 0, restarts |-> 0,
             cancels |-> 0, toggles |-> 0]
Spend(what) == used' = [used EXCEPT ![what] = @ + 1]
Trouble == used.relinks + used.moves + used.throws + used.restarts
             + used.cancels + used.toggles
Spare(what, max) == used[what] < max /\ Trouble < MaxTrouble

\* The guild starts in agreement with the roster.
Init ==
    /\ link = InitLink
    /\ holders = InitHolders
    /\ wears = [m \in Members |-> Desired(m)]
    /\ live = TRUE
    /\ rows = <<>>
    /\ due = {}
    /\ hand = Idle
    /\ req = [a \in Admins |-> NoReq]
    /\ move = NoMove
    /\ used = InitUsed
    /\ moved = {}
    /\ halted = {}
    /\ strayed = {}
    /\ missed = {}

(***************************************************************************)
(* getRelinkProgress: the state of a run, from its rows alone.             *)
(***************************************************************************)
Expands(b) == {i \in Of(b) : rows[i].kind = "expand"}
Applies(b) == {i \in Of(b) : rows[i].kind = "apply"}
Active(S) == InState(S, "pending") \cup InState(S, "processing")

Progress(b) ==
    IF Active(Expands(b)) \cup Active(Applies(b)) # {} THEN "running"
    ELSE IF InState(Of(b), "cancelled") = {} THEN "completed"
    ELSE IF InState(Applies(b), "succeeded") # {} THEN "partial"
    ELSE "cancelled"

(***************************************************************************)
(* linkDiscord / unlinkDiscord.  The row is loaded, the policy asks the    *)
(* gateway about the role, the row is saved, the re-link is queued: four   *)
(* moments other requests, the worker and a crash can come between.        *)
(***************************************************************************)
Load(a, s, r) ==
    /\ req[a].step = "idle"
    /\ Spare("relinks", MaxRelinks)
    /\ Spend("relinks")
    /\ req' = [req EXCEPT ![a] =
                 [step |-> "loaded", subject |-> s, prev |-> link[s], next |-> r]]
    /\ UNCHANGED <<catalogue, wears, live, rows, worker, move, history>>

SaveLink(a) ==
    /\ req[a].step = "loaded"
    /\ link' = [link EXCEPT ![req[a].subject] = req[a].next]
    /\ req' = [req EXCEPT ![a].step = "saved"]
    /\ strayed' = strayed \cup {b \in Batches : /\ rows[b].subject = req[a].subject
                                               /\ rows[b].in # req[a].next}
    /\ missed' = missed \cup {s \in {req[a].subject} : link[s] # req[a].prev}
    /\ UNCHANGED <<holders, wears, live, rows, worker, move, used, moved, halted>>

\* relinkHolders: the holders with a Discord identity, less the actor.
Affected(s, skip) == holders[s] \ {skip}

\* enqueueRoleRelink returns null.
NothingToRelink(a) ==
    \/ ~live
    \/ req[a].prev = req[a].next
    \/ Affected(req[a].subject, Actor[a]) = {}

DropRelink(a) ==
    /\ req[a].step = "saved"
    /\ NothingToRelink(a)
    /\ req' = [req EXCEPT ![a] = NoReq]
    /\ UNCHANGED <<catalogue, wears, live, rows, worker, move, used, history>>

\* Stops the runs of every other rank and medal instead.
Superseded_Other(a) ==
    {b \in Batches : /\ rows[b].subject # req[a].subject
                     /\ InState(Of(b), "pending") # {}}

\* The batches supersedeRelinkBatches stops: those of this subject with a
\* waiting row, whichever re-link they came from.
Superseded(a) ==
    {b \in Batches : /\ rows[b].subject = req[a].subject
                     /\ InState(Of(b), "pending") # {}}

CancelRows(S) ==
    rows' = [i \in Ids |->
               IF i \in InState(S, "pending")
               THEN [rows[i] EXCEPT !.status = "cancelled"] ELSE rows[i]]

SupersedeBatches(a) ==
    /\ req[a].step = "saved"
    /\ ~NothingToRelink(a)
    /\ CancelRows(UNION {Of(b) : b \in Superseded(a)})
    /\ req' = [req EXCEPT ![a].step = "superseded"]
    /\ halted' = halted \cup {<<b, "newer run">> : b \in Superseded(a)}
    /\ UNCHANGED <<catalogue, wears, live, worker, move, used, moved, detours>>

QueueRelink(a) ==
    /\ req[a].step = "superseded"
    /\ Room
    /\ rows' = Append(rows, Row("expand", Len(rows) + 1, req[a].subject, 0,
                                req[a].prev, req[a].next, Actor[a]))
    /\ req' = [req EXCEPT ![a] = NoReq]
    /\ strayed' = strayed \cup {b \in {Len(rows) + 1} :
                                  link[req[a].subject] # req[a].next}
    /\ UNCHANGED <<catalogue, wears, live, worker, move, used, moved, halted, missed>>

(***************************************************************************)
(* changeRank, awardMedal, removeMedal: the member and the catalogue row   *)
(* are loaded, the roster is saved, and one job scoped to the role that    *)
(* was LOADED is queued.                                                   *)
(***************************************************************************)
LoadMove(m, s) ==
    /\ move.step = "idle"
    /\ Spare("moves", MaxMoves)
    /\ Spend("moves")
    /\ move' = [step |-> "loaded", subject |-> s, who |-> m, role |-> link[s]]
    /\ UNCHANGED <<catalogue, wears, live, rows, worker, req, history>>

SaveMove ==
    /\ move.step = "loaded"
    /\ holders' = [holders EXCEPT ![move.subject] =
                     IF move.who \in @ THEN @ \ {move.who} ELSE @ \cup {move.who}]
    /\ moved' = moved \cup {move.who}
    /\ move' = [move EXCEPT !.step = "saved"]
    /\ UNCHANGED <<link, wears, live, rows, worker, req, used, halted, detours>>

QueueMove ==
    /\ move.step = "saved"
    /\ IF live /\ move.role # NoRole
       THEN /\ Room
            /\ rows' = Append(rows, Row("scoped", 0, move.subject, move.who,
                                        move.role, NoRole, 0))
       ELSE UNCHANGED rows
    /\ move' = NoMove
    /\ UNCHANGED <<catalogue, wears, live, worker, req, used, history>>

\* The bot or role syncing is switched off, or on again.
Toggle ==
    /\ Spare("toggles", MaxToggles)
    /\ Spend("toggles")
    /\ live' = ~live
    /\ UNCHANGED <<catalogue, wears, rows, worker, req, move, history>>

\* cancelRelink: one UPDATE over the waiting rows of the batch.
Cancel(b) ==
    /\ Spare("cancels", MaxCancels)
    /\ Spend("cancels")
    /\ CancelRows(Of(b))
    /\ halted' = halted \cup
                   IF Progress(b) = "running" THEN {<<b, "operator">>} ELSE {}
    /\ UNCHANGED <<catalogue, wears, live, worker, req, move, moved, detours>>

(***************************************************************************)
(* The worker.                                                             *)
(***************************************************************************)
Tick ==
    /\ hand = Idle /\ due = {}
    /\ due' \in SUBSET InState(Ids, "pending") \ {{}}
    /\ UNCHANGED <<catalogue, wears, live, rows, hand, req, move, used, history>>

\* The row is claimed from what the tick read: a cancel in between is lost.
Claim(i) ==
    /\ hand = Idle /\ i \in due
    /\ due' = due \ {i}
    /\ rows' = [rows EXCEPT ![i].status = "processing"]
    /\ hand' = [Idle EXCEPT !.row = i, !.step = rows[i].kind]
    /\ UNCHANGED <<catalogue, wears, live, req, move, used, history>>

Held == rows[hand.row]

\* The gates are off, or a row of the batch is cancelled: the page is skipped.
StopsExpanding ==
    ~live \/ InState(Of(Held.batch), "cancelled") # {}

CheckExpand ==
    /\ hand.step = "expand"
    /\ hand' = [hand EXCEPT !.step = IF StopsExpanding THEN "done" ELSE "page"]
    /\ UNCHANGED <<catalogue, wears, live, rows, due, req, move, used, history>>

\* relinkHolderPage: the PageSize smallest holders beyond the cursor.
Beyond == {m \in Affected(Held.subject, Held.skip) : m > Held.who}
\* An off-by-one in the keyset comparison.
Page_SkipOne ==
    {m \in Beyond : /\ Cardinality({n \in Beyond : n <= m}) <= PageSize
                    /\ m > Held.who + 1}

Page == {m \in Beyond : Cardinality({n \in Beyond : n <= m}) <= PageSize}

Last(S) == CHOOSE m \in S : \A n \in S : n <= m
First(S) == CHOOSE m \in S : \A n \in S : m <= n

\* The short page is the last one; "more" is the cursor of the next.
NextCursor == IF Cardinality(Page) = PageSize THEN Last(Page) ELSE 0

ReadPage ==
    /\ hand.step = "page"
    /\ hand' = [hand EXCEPT !.step = "insert", !.todo = Page, !.more = NextCursor]
    /\ UNCHANGED <<catalogue, wears, live, rows, due, req, move, used, history>>

InsertApply ==
    /\ hand.step = "insert" /\ hand.todo # {}
    /\ Room
    /\ rows' = Append(rows, Row("apply", Held.batch, Held.subject,
                                First(hand.todo), Held.out, Held.in, Held.skip))
    /\ hand' = [hand EXCEPT !.todo = @ \ {First(@)}]
    /\ UNCHANGED <<catalogue, wears, live, due, req, move, used, history>>

InsertCursor ==
    /\ hand.step = "insert" /\ hand.todo = {}
    /\ IF hand.more = 0
       THEN UNCHANGED rows
       ELSE /\ Room
            /\ rows' = Append(rows, Row("expand", Held.batch, Held.subject,
                                        hand.more, Held.out, Held.in, Held.skip))
    /\ hand' = [hand EXCEPT !.step = "done"]
    /\ UNCHANGED <<catalogue, wears, live, due, req, move, used, history>>

\* roleSyncingLive, then desiredRoleIds: what the roster says now.
Decide ==
    /\ hand.step \in {"apply", "scoped"}
    /\ hand' = IF live THEN [hand EXCEPT !.step = "act", !.want = Desired(Held.who)]
                       ELSE [hand EXCEPT !.step = "done"]
    /\ UNCHANGED <<catalogue, wears, live, rows, due, req, move, used, history>>

\* Adds what is wanted and forgets to take the outgoing role off.
Converge_AddOnly(m, scope, want) ==
    [wears EXCEPT ![m] = @ \cup (scope \cap want)]

Converge(m, scope, want) ==
    [wears EXCEPT ![m] = (@ \ (scope \ want)) \cup (scope \cap want)]

\* reconcileScoped, and the additive pass of a row without an incoming role.
Act ==
    /\ hand.step = "act"
    /\ wears' = Converge(Held.who, Scope(Held), hand.want)
    /\ hand' = [hand EXCEPT !.step = IF Held.kind = "apply" /\ Held.in = NoRole
                                     THEN "grant" ELSE "done"]
    /\ UNCHANGED <<catalogue, live, rows, due, req, move, used, history>>

Grant ==
    /\ hand.step = "grant"
    /\ wears' = [wears EXCEPT ![Held.who] = @ \cup Desired(Held.who)]
    /\ hand' = [hand EXCEPT !.step = "done"]
    /\ UNCHANGED <<catalogue, live, rows, due, req, move, used, history>>

Finish ==
    /\ hand.step = "done"
    /\ rows' = [rows EXCEPT ![hand.row].status = "succeeded"]
    /\ hand' = Idle
    /\ UNCHANGED <<catalogue, wears, live, due, req, move, used, history>>

\* The worker keeps serving a row it has put back.
Throw_KeepsRow ==
    /\ hand.step \notin {"idle", "done"}
    /\ Spare("throws", MaxThrows)
    /\ Spend("throws")
    /\ \E s \in {"pending", "failed"} :
         rows' = [rows EXCEPT ![hand.row].status = s]
    /\ UNCHANGED <<catalogue, wears, live, worker, req, move, history>>

\* Discord or the database refuses: the row is retried, or fails for good.
Throw ==
    /\ hand.step \notin {"idle", "done"}
    /\ Spare("throws", MaxThrows)
    /\ Spend("throws")
    /\ \E s \in {"pending", "failed"} :
         rows' = [rows EXCEPT ![hand.row].status = s]
    /\ hand' = Idle
    /\ UNCHANGED <<catalogue, wears, live, due, req, move, history>>

\* The mappings whose re-link is still to be queued.
Unqueued == {req[a].subject : a \in {c \in Admins : req[c].step \in {"saved", "superseded"}}}

\* The reaper takes every row that is not cancelled for an orphan.
Restart_All ==
    /\ Spare("restarts", MaxRestarts)
    /\ Spend("restarts")
    /\ rows' = [i \in Ids |-> IF rows[i].status # "cancelled"
                              THEN [rows[i] EXCEPT !.status = "pending"]
                              ELSE rows[i]]
    /\ due' = {}
    /\ hand' = Idle
    /\ req' = [a \in Admins |-> NoReq]
    /\ move' = NoMove
    /\ missed' = missed \cup Unqueued
    /\ UNCHANGED <<catalogue, wears, live, moved, halted, strayed>>

\* Nobody takes the claimed rows back.
Restart_Unreaped ==
    /\ Spare("restarts", MaxRestarts)
    /\ Spend("restarts")
    /\ due' = {}
    /\ hand' = Idle
    /\ req' = [a \in Admins |-> NoReq]
    /\ move' = NoMove
    /\ missed' = missed \cup Unqueued
    /\ UNCHANGED <<catalogue, wears, live, rows, moved, halted, strayed>>

\* The process dies and comes back: requests die where they stand, and the
\* reaper hands every claimed row back to the queue.
Restart ==
    /\ Spare("restarts", MaxRestarts)
    /\ Spend("restarts")
    /\ rows' = [i \in Ids |-> IF rows[i].status = "processing"
                              THEN [rows[i] EXCEPT !.status = "pending"]
                              ELSE rows[i]]
    /\ due' = {}
    /\ hand' = Idle
    /\ req' = [a \in Admins |-> NoReq]
    /\ move' = NoMove
    /\ missed' = missed \cup Unqueued
    /\ UNCHANGED <<catalogue, wears, live, moved, halted, strayed>>

Request(a) == SaveLink(a) \/ DropRelink(a) \/ SupersedeBatches(a) \/ QueueRelink(a)
Serve == CheckExpand \/ ReadPage \/ InsertApply \/ InsertCursor \/ Decide \/ Act
           \/ Grant \/ Finish

Next ==
    \/ \E a \in Admins, s \in Subjects, r \in RoleOrNone : Load(a, s, r)
    \/ \E a \in Admins : Request(a)
    \/ \E m \in Members, s \in Subjects : LoadMove(m, s)
    \/ SaveMove \/ QueueMove
    \/ Toggle
    \/ \E b \in Batches : Cancel(b)
    \/ Tick
    \/ \E i \in due : Claim(i)
    \/ Serve
    \/ Throw
    \/ Restart

Spec == Init /\ [][Next]_vars

\* The 3-second timer ticks, a tick serves what it read, a request that
\* started goes on.  No administrator is obliged to start one.
Fairness ==
    /\ WF_vars(Tick) /\ WF_vars(\E i \in due : Claim(i)) /\ WF_vars(Serve)
    /\ \A a \in Admins : WF_vars(Request(a))

FairSpec == Spec /\ Fairness

(***************************************************************************)
(* Properties.                                                             *)
(***************************************************************************)
RowType ==
    [kind : {"expand", "apply", "scoped"}, batch : Nat, subject : Subjects,
     who : Members \cup {0}, out : RoleOrNone, in : RoleOrNone,
     skip : Members \cup {0}, status : Statuses]

\* Every variable has its type; a row in hand is a claimed row of the table.
TypeOK ==
    /\ link \in [Subjects -> RoleOrNone]
    /\ holders \in [Subjects -> SUBSET Members]
    /\ wears \in [Members -> SUBSET Roles]
    /\ live \in BOOLEAN
    /\ rows \in Seq(RowType)
    /\ \A i \in Ids : rows[i].batch \in Nat /\ rows[i].batch <= i
    /\ due \subseteq Ids
    /\ hand.row \in Ids \cup {0}
    /\ hand.row # 0 => rows[hand.row].status = "processing"
    /\ hand.todo \subseteq Members /\ hand.more \in Members \cup {0}
    /\ moved \subseteq Members
    /\ halted \subseteq Ids \X {"operator", "newer run"}
    /\ strayed \subseteq Ids /\ missed \subseteq Subjects

Quiet ==
    /\ Active(Ids) = {}
    /\ move.step = "idle" /\ \A a \in Admins : req[a].step = "idle"

Stopped(b) == <<b, "operator">> \in halted

\* A run no cancel, no newer run, no failed row and no closed gate has touched.
Undisturbed(b) ==
    /\ used.toggles = 0
    /\ \A h \in halted : h[1] # b
    /\ InState(Of(b), "failed") = {}

\* The members an active cursor row has still to turn into jobs.
Ahead(i) ==
    IF hand.row = i /\ hand.step \in {"insert", "done"}
    THEN hand.todo \cup {m \in Members : hand.more # 0 /\ m > hand.more
                                           /\ hand.step = "insert"}
    ELSE {m \in Members : m > rows[i].who}

\* A re-link reaches every holder (expandRelinkPage): at every moment of an
\* undisturbed run, whoever held the subject all along either has a job of
\* their own or is ahead of a cursor that is still in the queue.  Crashes,
\* retries and pages that are expanded twice leave nobody behind.
NobodySkipped ==
    \A b \in Batches : Undisturbed(b) =>
      \A m \in Affected(rows[b].subject, rows[b].skip) \ moved :
        \/ \E i \in Applies(b) : rows[i].who = m
        \/ \E i \in Active(Expands(b)) : m \in Ahead(i)

\* The summary can be trusted (getRelinkProgress).  When a run that nothing
\* disturbed, and during which the mapping stayed the one it delivers, reads
\* "completed", its holders wear the new role.  And once every run has, and
\* the re-link of every mapping was queued by a request that had read the mapping it
\* replaced, each holder wears what the roster says, no outgoing role left
\* behind; an administrator's own roles are nobody's to change.
CompletedMeansApplied ==
    /\ \A b \in Batches :
         /\ Undisturbed(b) /\ Progress(b) = "completed" /\ b \notin strayed
         /\ rows[b].in # NoRole
         => \A m \in Affected(rows[b].subject, rows[b].skip) \ moved :
              rows[b].in \in wears[m]
    /\ /\ Quiet /\ missed = {} /\ used.toggles = 0
       /\ \A b \in Batches : Undisturbed(b)
       => \A m \in Members \ moved :
            (\A a \in Admins : Actor[a] # m) => wears[m] = Desired(m)

\* Runs for different catalogue rows are independent (supersedeRelinkBatches,
\* "cancelling it would silently leave that row's holders on their old
\* role"): a new run of one subject never cancels a row of another.
OnlyOwnSubjectSuperseded ==
    [][\A a \in Admins : SupersedeBatches(a) =>
         \A i \in Ids : rows'[i] # rows[i] => rows[i].subject = req[a].subject]_vars

\* Rows that are done stay done: a restart, a retry and a cancel only touch
\* rows that were still to be worked on, except that a claim may take back a
\* row cancelled after the tick read it.
DoneStaysDone ==
    [][\A i \in Ids : rows[i].status \in {"succeeded", "failed"} =>
                        rows'[i].status = rows[i].status]_vars

\* Every run ends (RoleRelinkExpand queues itself again): requests are
\* bounded, so from some moment on no run reads "running" any more.
RunsEnd == <>[](\A b \in Batches : Progress(b) # "running")

\* expandRelinkPage: "Re-read the batch before queueing another page, or cancel
\* would race the expansion and the run would keep growing after the operator
\* stopped it".  The check lets no page of a stopped run through.
CancelStopsExpansion ==
    [][hand.step = "expand" /\ hand'.step = "page" => ~Stopped(Held.batch)]_vars
=============================================================================
