--------------------------------- MODULE Console --------------------------------
(***************************************************************************)
(* The console of the administrators, and the notices that leave through   *)
(* the bot.                                                                *)
(*                                                                         *)
(* Five single rows carry what they set: the regiment, its settings, the   *)
(* settings of the bot, its connection and a document.  A request loads a  *)
(* row, changes fields of its copy and saves it; repository.save puts back *)
(* every column of the copy.  Rows that are missing are made on the way.   *)
(*                                                                         *)
(* A notice is asked for after something has been committed: the switches  *)
(* are read, and a job with a frozen destination is queued.  The worker    *)
(* sends it, keeps the ledger, and records a job that has failed for good; *)
(* every record is itself a notice for the audit channel.  Retries, claims *)
(* and the reaper are in SyncOutbox, role jobs in RoleSync.                *)
(***************************************************************************)
EXTENDS Integers, Sequences

CONSTANTS
    Bureaux,  \* requests under way at once
    Agendas,  \* what a behaviour may be about: acts, how many in all, the bot's row
    Tries     \* bound: how often a job is tried (maxAttempts)

NoticeKinds == {"application", "audit", "pending", "approved", "welcome", "decision"}
BotColumns == {"there", "on", "greet", "welcome", "application", "audit", "pending",
               "approved"}
Acts == {"update", "present", "setup", "document", "dissolve", "bind", "verify",
         "configure", "resolve"}

\* An act is asked for by name with the fields of its body; whether a row is
\* there is not one of them.
ASSUME ConsoleAssumption ==
    /\ Bureaux \subseteq Nat \ {0} /\ Tries \in Nat \ {0}
    /\ \A a \in Agendas :
         /\ a.most \in Nat /\ DOMAIN a.bot = BotColumns
         /\ \A d \in a.acts : d.act \in Acts \cup NoticeKinds /\ "there" \notin DOMAIN d.ask

VARIABLES
    agenda,     \* what this behaviour is about
    rows,       \* the five rows
    online,     \* the client of the gateway is ready
    letters,    \* notices waiting in discord_sync_jobs
    numbered,   \* how many were queued, to tell them apart
    unresolved, \* bot_operations rows that failed and are not resolved
    bureaux,    \* [Bureaux and the worker -> a request, its copies and what is left]
    acts,       \* how many of agenda.most are spent
    meant,      \* history: what was last asked for, of each field
    overtaken   \* history: fields put back by a save whose copy was older than that

desk == <<agenda, rows, online, letters, numbered, unresolved, acts, meant, overtaken>>
consoleVars == <<desk, bureaux>>

Postman == 0  \* the slot of the worker

\* Entities as they are created: defaultSettings() and the columns' defaults.  The
\* bot's row holds a channel for each kind of notice.
Fresh == [regiment |-> [there |-> TRUE, name |-> 0, server |-> 0, setup |-> FALSE],
          settings |-> [there |-> FALSE, limits |-> 0, look |-> 0],
          papers |-> [there |-> FALSE, body |-> 0],
          bot |-> [there |-> FALSE, on |-> FALSE, greet |-> TRUE, welcome |-> "none",
                   application |-> "none", audit |-> "none", pending |-> "none",
                   approved |-> "none"],
          link |-> [there |-> FALSE, status |-> "idle"]]
\* The worker takes a missing connection for a live one.
FreshFor(s, x) == IF x = "link" /\ s = Postman
                    THEN [Fresh.link EXCEPT !.status = "connected"] ELSE Fresh[x]

(***************************************************************************)
(* Where a notice goes, if it goes at all: guarded() and the enqueue       *)
(* operation of its kind.                                                  *)
(***************************************************************************)
SwitchedOn(bot) == "on" \in DOMAIN bot /\ bot.on
Target(kind, bot) ==
    IF ~SwitchedOn(bot) THEN "none"
    ELSE IF kind = "decision" THEN "user"
    ELSE IF kind = "welcome" /\ ~bot.greet THEN "none"
    ELSE IF kind = "welcome" /\ bot.welcome = "none" THEN "user"
    ELSE bot[kind]
LiveTargets(bot) ==
    {<<k, Target(k, bot)>> : k \in NoticeKinds} \ (NoticeKinds \X {"none"})

\* mirrorToDiscord()
Mirrored(about) == about # "failure"

(***************************************************************************)
(* What a request does, step by step, an await between any two.            *)
(***************************************************************************)
Notify(kind) == <<<<"ensure", "bot">>, <<"queue", kind>>>>
Record == <<<<"record", "deed">>>>
UpdateRegiment == <<<<"load", "regiment">>, <<"load", "settings">>,
            <<"amend", "regiment">>, <<"amend", "settings">>>> \o Record
UpdatePresentation == <<<<"find", "regiment">>, <<"load", "settings">>,
                        <<"amend", "settings">>>> \o Record
CompleteSetup == <<<<"load", "regiment">>, <<"amend", "regiment">>>> \o Record
UpdateDocument == <<<<"find", "regiment">>, <<"load", "papers">>,
                    <<"save", "papers">>>> \o Record
DissolveRegiment == <<<<"find", "regiment">>, <<"drop", "regiment">>>> \o Record
Bind == <<<<"load", "regiment">>, <<"save", "regiment">>, <<"ensure", "bot">>,
          <<"ensure", "link">>>> \o Record
VerifyConnection == <<<<"ask", "status">>, <<"ensure", "link">>,
                      <<"save", "link">>>> \o Record
Configure == <<<<"ensure", "bot">>, <<"save", "bot">>>> \o Record
ResolveOperation == <<<<"resolve", "one">>>> \o Record
RecordOperation(outcome) == <<<<"ensure", "link">>, <<"ledger", outcome>>,
                              <<"save", "link">>>>

ScriptOf(act) ==
    CASE act = "update" -> UpdateRegiment
      [] act = "present" -> UpdatePresentation
      [] act = "setup" -> CompleteSetup
      [] act = "document" -> UpdateDocument
      [] act = "dissolve" -> DissolveRegiment
      [] act = "bind" -> Bind
      [] act = "verify" -> VerifyConnection
      [] act = "configure" -> Configure
      [] act = "resolve" -> ResolveOperation
      [] OTHER -> Notify(act)

NoJob == [id |-> 0, kind |-> "none", to |-> "none", about |-> "none", tries |-> 0,
          wanted |-> TRUE]
\* ask: [fields -> values]; copy: [rows that are loaded -> their entities];
\* stale: fields changed since; wanted: what was live at some time since.
Vacant == [ask |-> <<>>, todo |-> <<>>, copy |-> <<>>, stale |-> {}, wanted |-> {},
           changed |-> FALSE, about |-> "deed", job |-> NoJob]

ConsoleInit ==
    /\ agenda \in Agendas
    /\ rows = [Fresh EXCEPT !.bot = agenda.bot]
    /\ meant = rows /\ overtaken = {}
    /\ online \in BOOLEAN
    /\ letters = {} /\ numbered = 0 /\ unresolved = 0 /\ acts = 0
    /\ bureaux = [s \in Bureaux \cup {Postman} |-> Vacant]

(***************************************************************************)
(* The steps of the requests.                                              *)
(***************************************************************************)
NowDue(s, verb) == bureaux[s].todo # <<>> /\ Head(bureaux[s].todo)[1] = verb
Of(s) == Head(bureaux[s].todo)[2]
\* The request q with rest in place of its first step.
Then(q, rest) ==
    LET todo == rest \o Tail(q.todo)
    IN  IF todo = <<>> THEN Vacant ELSE [q EXCEPT !.todo = todo]
Continue(s, q) == bureaux' = [bureaux EXCEPT ![s] = q]
Taken(q, x, entity) ==
    [q EXCEPT !.copy = [y \in DOMAIN q.copy \cup {x} |->
                          IF y = x THEN entity ELSE q.copy[y]],
              !.stale = {p \in q.stale : p[1] # x}]

BeginAct(s, a) ==
    /\ acts < agenda.most /\ acts' = acts + 1
    /\ bureaux[s] = Vacant /\ \A r \in Bureaux : r < s => bureaux[r] # Vacant
    /\ Continue(s, [Vacant EXCEPT !.ask = a.ask, !.todo = ScriptOf(a.act),
                                  !.wanted = LiveTargets(rows.bot)])
    /\ UNCHANGED <<agenda, rows, online, letters, numbered, unresolved, meant,
                   overtaken>>

\* The defaults are taken without a look at the row.
Loaded_Afresh(x) == [Fresh[x] EXCEPT !.there = TRUE]
\* An entity of the row, or a new one.
Loaded(x) == IF rows[x].there THEN rows[x] ELSE Fresh[x]

\* loadRegiment() answers 404 once the regiment is dissolved.
LoadRow(s) ==
    /\ NowDue(s, "load") \/ NowDue(s, "find")
    /\ Continue(s, IF Of(s) = "regiment" /\ ~rows.regiment.there THEN Vacant
                   ELSE Then(IF NowDue(s, "find") THEN bureaux[s]
                             ELSE Taken(bureaux[s], Of(s), Loaded(Of(s))), <<>>))
    /\ UNCHANGED desk

\* getSettings() and ensureConnection(): the row, or else
EnsureRow(s) ==
    /\ NowDue(s, "ensure")
    /\ LET x == Of(s) IN
       Continue(s, IF rows[x].there THEN Then(Taken(bureaux[s], x, rows[x]), <<>>)
                   ELSE Then(bureaux[s], <<<<"create", x>>>>))
    /\ UNCHANGED desk

\* a new one.  Where the bot's has come since, the save finds nothing to write and
\* the entity is without its columns; a second connection the index refuses.
CreateRow(s) ==
    /\ NowDue(s, "create")
    /\ LET x == Of(s)
           new == [FreshFor(s, x) EXCEPT !.there = TRUE]
           bare == [there |-> TRUE]
       IN  /\ rows' = [rows EXCEPT ![x] = IF @.there THEN @ ELSE new]
           /\ meant' = [meant EXCEPT ![x] = IF rows[x].there THEN @ ELSE new]
           /\ Continue(s, IF x = "link" /\ rows.link.there THEN Vacant
                          ELSE IF x = "bot" /\ rows.bot.there
                                 THEN Then(Taken(bureaux[s], x, bare), <<>>)
                          ELSE Then(Taken(bureaux[s], x, new), <<>>))
    /\ UNCHANGED <<agenda, online, letters, numbered, unresolved, acts, overtaken>>

\* The others' copies of x have fallen behind in these fields.
Switches(x, row) == IF x = "bot" THEN LiveTargets(row) ELSE {}
FallBehind(x, fields, q, row) ==
    IF q = Vacant THEN q
    ELSE [q EXCEPT !.stale = IF x \in DOMAIN q.copy THEN @ \cup ({x} \X fields) ELSE @,
                   !.wanted = @ \cup Switches(x, row)]

\* An entity without a column leaves the column as it is.
SaveRow(s) ==
    /\ NowDue(s, "save") \/ NowDue(s, "amend")
    /\ LET x == Of(s)
           q == bureaux[s]
           asked == DOMAIN q.ask \cap DOMAIN rows[x]
           row == [f \in DOMAIN rows[x] |->
                     IF f \in asked THEN q.ask[f]
                     ELSE IF f = "there" /\ x # "regiment" THEN TRUE
                     ELSE IF f \in DOMAIN q.copy[x] THEN q.copy[x][f] ELSE rows[x][f]]
           behind == {p \in q.stale : p[1] = x /\ p[2] \in DOMAIN q.copy[x]}
       IN  IF NowDue(s, "amend") /\ \A f \in asked : q.ask[f] = q.copy[x][f]
             THEN /\ Continue(s, Then(q, <<>>))
                  /\ UNCHANGED <<rows, meant, overtaken>>
             ELSE /\ rows' = [rows EXCEPT ![x] = row]
                  /\ meant' = [meant EXCEPT ![x] = [f \in DOMAIN @ |->
                                 IF f \in asked THEN q.ask[f] ELSE @[f]]]
                  /\ overtaken' = (overtaken \cup behind) \ ({x} \X asked)
                  /\ bureaux' = [r \in DOMAIN bureaux |->
                       IF r = s THEN Then([q EXCEPT !.changed = TRUE,
                                             !.wanted = @ \cup Switches(x, row)], <<>>)
                       ELSE FallBehind(x, asked, bureaux[r], row)]
    /\ UNCHANGED <<agenda, online, letters, numbered, unresolved, acts>>

\* softDelete()
DropRegiment(s) ==
    /\ NowDue(s, "drop")
    /\ rows' = [rows EXCEPT !.regiment.there = FALSE]
    /\ meant' = [meant EXCEPT !.regiment.there = FALSE]
    /\ overtaken' = overtaken \ {<<"regiment", "there">>}
    /\ bureaux' = [r \in DOMAIN bureaux |->
         IF r = s THEN Then([bureaux[s] EXCEPT !.changed = TRUE], <<>>)
         ELSE FallBehind("regiment", {"there"}, bureaux[r], rows.regiment)]
    /\ UNCHANGED <<agenda, online, letters, numbered, unresolved, acts>>

\* getStatus(), which never throws.
AskStatus(s) ==
    /\ NowDue(s, "ask")
    /\ Continue(s, Then([bureaux[s] EXCEPT
         !.ask = [status |-> IF online THEN "connected" ELSE "error"]], <<>>))
    /\ UNCHANGED desk

TickOff(s) ==
    /\ NowDue(s, "resolve")
    /\ \/ /\ rows.link.there /\ unresolved > 0 /\ unresolved' = unresolved - 1
          /\ Continue(s, Then([bureaux[s] EXCEPT !.changed = TRUE], <<>>))
       \/ ~rows.link.there /\ Continue(s, Vacant) /\ UNCHANGED unresolved
    /\ UNCHANGED <<agenda, rows, online, letters, numbered, acts, meant, overtaken>>

\* record(): where an amendment found nothing to change there is nothing to record.
RecordEntry(s) ==
    /\ NowDue(s, "record")
    /\ LET about == Of(s)
           q == [bureaux[s] EXCEPT !.about = about]
       IN  Continue(s, Then(q, IF Mirrored(about) /\ (q.changed \/ about = "failure")
                                 THEN Notify("audit") ELSE <<>>))
    /\ UNCHANGED desk

\* The switches are the ones that were read, an await or two ago.
QueueNotice(s) ==
    /\ NowDue(s, "queue")
    /\ LET kind == Of(s)
           q == bureaux[s]
           to == Target(kind, q.copy.bot)
       IN  IF to = "none" THEN UNCHANGED <<letters, numbered>>
           ELSE /\ numbered' = numbered + 1
                /\ letters' = letters \cup {[id |-> numbered', kind |-> kind, to |-> to,
                                       about |-> q.about, tries |-> 0,
                                       wanted |-> <<kind, to>> \in q.wanted]}
    /\ Continue(s, Then(bureaux[s], <<>>))
    /\ UNCHANGED <<agenda, rows, online, unresolved, acts, meant, overtaken>>

(***************************************************************************)
(* The worker.                                                             *)
(***************************************************************************)
ClaimLetter(j) ==
    /\ bureaux[Postman] = Vacant /\ j \in letters /\ letters' = letters \ {j}
    /\ Continue(Postman, [Vacant EXCEPT
         !.job = [j EXCEPT !.tries = @ + 1], !.wanted = LiveTargets(rows.bot),
         !.todo = (IF j.kind = "welcome" THEN <<<<"recheck", j.kind>>>> ELSE <<>>)
                  \o <<<<"send", j.kind>>>>])
    /\ UNCHANGED <<agenda, rows, online, numbered, unresolved, acts, meant, overtaken>>

\* welcomeLive(): one that is no longer wanted is done without being sent.
WelcomeLive(s) ==
    /\ NowDue(s, "recheck")
    /\ Continue(s, IF Target("welcome", rows.bot) # "none"
                     THEN Then(bureaux[s], <<>>)
                     ELSE [bureaux[s] EXCEPT !.todo = RecordOperation("done")])
    /\ UNCHANGED desk

\* postToChannel() or dmUser()
SendNotice(s) ==
    /\ NowDue(s, "send") /\ online
    /\ Continue(s, Then(bureaux[s], RecordOperation("done")))
    /\ UNCHANGED desk

\* handleFailure(): later again, or failed for good.
SendFails(s) ==
    /\ NowDue(s, "send")
    /\ LET q == bureaux[s] IN
       \/ /\ q.job.tries < Tries
          /\ letters' = letters \cup {q.job} /\ Continue(s, Vacant)
       \/ /\ Continue(s, Then(q, RecordOperation("failed")
                                  \o <<<<"record", "failure">>>>))
          /\ UNCHANGED letters
    /\ UNCHANGED <<agenda, rows, online, numbered, unresolved, acts, meant, overtaken>>

KeepLedger(s) ==
    /\ NowDue(s, "ledger")
    /\ unresolved' = unresolved + (IF Of(s) = "failed" THEN 1 ELSE 0)
    /\ Continue(s, Then(bureaux[s], <<>>))
    /\ UNCHANGED <<agenda, rows, online, letters, numbered, acts, meant, overtaken>>

\* A query rejects: an answer of 500, or an error that is logged.
QueryFails(s) ==
    /\ bureaux[s] # Vacant /\ Continue(s, Vacant)
    /\ UNCHANGED desk

\* The client connects, and is gone after a shutdown or when it fails to log in.
GatewayTurns ==
    /\ online' = ~online
    /\ UNCHANGED <<agenda, rows, letters, numbered, unresolved, bureaux, acts, meant,
                   overtaken>>

ConsoleNext ==
    \/ \E s \in Bureaux : \E a \in agenda.acts : BeginAct(s, a)
    \/ \E s \in DOMAIN bureaux :
         \/ LoadRow(s) \/ EnsureRow(s) \/ CreateRow(s) \/ SaveRow(s) \/ DropRegiment(s)
         \/ AskStatus(s) \/ TickOff(s) \/ RecordEntry(s) \/ QueueNotice(s)
         \/ WelcomeLive(s) \/ SendNotice(s) \/ SendFails(s) \/ KeepLedger(s)
         \/ QueryFails(s)
    \/ \E j \in letters : ClaimLetter(j)
    \/ GatewayTurns

ConsoleSpec == ConsoleInit /\ [][ConsoleNext]_consoleVars

(***************************************************************************)
(* Properties.                                                             *)
(***************************************************************************)
ConsoleTypeOK ==
    /\ agenda \in Agendas /\ acts \in 0 .. agenda.most
    /\ \A x \in DOMAIN Fresh : DOMAIN rows[x] = DOMAIN Fresh[x]
    /\ \A j \in letters : j.kind \in NoticeKinds /\ j.tries \in 0 .. Tries
    /\ online \in BOOLEAN /\ unresolved \in Nat

\* The console keeps its three promises.
ConsoleHolds ==
    \* What an administrator has saved stays saved, and a dissolved regiment
    \* dissolved, until somebody asks for something else: only a save whose copy was
    \* loaded before may put an older value back.  Two requests that find no row of
    \* the bot and both make one never reset it.
    /\ \A x \in DOMAIN rows : \A f \in DOMAIN rows[x] :
         \/ rows[x][f] = meant[x][f]
         \/ <<x, f>> \in overtaken
         \/ f = "there" /\ x # "regiment"
    \* A notice goes where its kind was sent at some time since it was asked for, with
    \* the bot switched on; a welcome is not sent once the switch was off all the time
    \* the worker had it in hand.
    /\ \A j \in letters : j.wanted
    /\ NowDue(Postman, "send") /\ Of(Postman) = "welcome" =>
         \E p \in bureaux[Postman].wanted : p[1] = "welcome"
    \* "The `discord.sync.failed` action is EXCLUDED to break a feedback loop": a
    \* failure queues no notice of itself, so notices do not breed; and what is to be
    \* resolved by hand can be found, by the connection it belongs to.
    /\ \A j \in letters : j.about = "deed"
    /\ unresolved > 0 => rows.link.there
================================================================================
