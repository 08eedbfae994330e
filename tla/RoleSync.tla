-------------------------------- MODULE RoleSync --------------------------------
(***************************************************************************)
(* The Discord roles of one person: what the roster says they should wear, *)
(* and what the guild shows.  Requests change the roster and queue a job   *)
(* that names the roles they can have moved; the worker drains the jobs    *)
(* one by one and decides when it drains what the roster wants.            *)
(*                                                                         *)
(* The rank names are their roles' names too; which role a rank or a medal *)
(* is linked to is RoleRelink's subject, the outbox itself SyncOutbox's,   *)
(* the decision on an application Enlistment's.                            *)
(***************************************************************************)
EXTENDS Integers, Sequences, FiniteSets, SequencesExt

CONSTANTS
    Callers,    \* requests under way at once, numbered
    Ladder,     \* the ranks, the highest first, the entry rank last
    MaxAwards,  \* bound: awards of the one medal
    MaxCommands,\* bound: requests, guild events and switches together
    MaxFails    \* bound: calls to the gateway that throw

Ranks == ToSet(Ladder)
Entry == Ladder[Len(Ladder)]
Precedence(r) == CHOOSE i \in DOMAIN Ladder : Ladder[i] = r

\* managedRoleIds(): of every rank, the Applicant's among them, of every medal,
\* and the Membership role.
Managed == Ranks \cup {"applicant", "medal", "enrolled"}
GuildRoles == Managed \cup {"ban"}

ASSUME RoleSyncAssumption ==
    /\ Len(Ladder) > 0 /\ IsInjective(Ladder)
    /\ Ranks \cap {"applicant", "medal", "enrolled", "ban", "none"} = {}
    /\ Callers \subseteq Nat /\ {MaxCommands, MaxFails} \subseteq Nat
    /\ MaxAwards \in Nat \ {0}

VARIABLES
    phase,     \* a guest, an applicant, or a member
    row,       \* the members row
    awards,    \* rows of member_medals
    present,   \* in the guild
    worn,      \* the roles worn there
    onboarded, \* the bot has welcomed this person since it was started
    switches,  \* botEnabled, syncRolesOnChange, applyBanRoleOnBan
    jobs,      \* role jobs not done yet; owes is what a job answers for
    drain,     \* the dispatch under way
    callers,   \* [Callers -> a request and what it has read]
    commands,  \* how much of MaxCommands is spent
    fails,     \* how much of MaxFails is spent
    adrift     \* history: roles no job answers for any more

roleVars == <<phase, row, awards, present, worn, onboarded, switches, jobs, drain,
              callers, commands, fails, adrift>>
roster == <<phase, row, awards>>
guild == <<present, worn, onboarded>>

Calm == [op |-> "none", at |-> "idle", copy |-> <<>>, rank |-> "none",
         medal |-> FALSE, names |-> {}, owes |-> {}]
Idle == [at |-> "idle", job |-> <<>>, wanted |-> {}, add |-> {}, drop |-> {},
         heals |-> {}]

\* desiredRoleIds() of a row: none of them while it is banned.
Desired(p, r, n) ==
    IF p # "member" \/ r.banned THEN {}
    ELSE {r.rank} \cup (IF n > 0 THEN {"medal"} ELSE {})
                  \cup (IF r.enrolled THEN {"enrolled"} ELSE {})
\* What the guild should show: an applicant's role, a ban's, or the roster's.
Wants(p, r, n) == CASE p = "applicant" -> {"applicant"}
                    [] p = "member" /\ r.banned -> {"ban"}
                    [] OTHER -> Desired(p, r, n)
Wanted == Wants(phase, row, awards)

RolesInit ==
    /\ phase \in {"guest", "applicant", "member"}
    /\ \E banned \in BOOLEAN :
         row = [rank |-> Entry, enrolled |-> TRUE, banned |-> banned]
    /\ awards = 0
    /\ present \in BOOLEAN /\ onboarded \in {FALSE, present}
    /\ \E byHand \in {{}, {Ladder[1], "medal"}} :
         IF present THEN worn = byHand \cup Wanted /\ adrift = byHand
         ELSE byHand = {} /\ worn = {} /\ adrift = Wanted
    /\ switches = [bot |-> TRUE, sync |-> TRUE, strip |-> TRUE]
    /\ jobs = <<>>
    /\ drain = Idle
    /\ callers = [c \in Callers |-> Calm]
    /\ commands = 0 /\ fails = 0

\* Roles that are out of the outbox's hands from now on.
Drift(roles) ==
    /\ adrift' = adrift \cup roles
    /\ drain' = [drain EXCEPT !.heals = @ \ roles]
Command == commands < MaxCommands /\ commands' = commands + 1
BeginCommand(c, call) ==
    /\ \A d \in Callers : d <= c => (callers[d].at = "idle" <=> d = c)
    /\ Command
    /\ callers' = [callers EXCEPT ![c] = call]
CallerAt(c, op, at) == callers[c].op = op /\ callers[c].at = at
ReturnCaller(c) == callers' = [callers EXCEPT ![c] = Calm]

(***************************************************************************)
(* The enqueues: each asks the bot's switch, and swallows what goes wrong. *)
(***************************************************************************)
Job(type, names, owes) == [type |-> type, names |-> names, owes |-> owes, tried |-> FALSE]
Nothing == Job("none", {}, {})

\* enqueueApplicantRole() asks for nothing but the bot, enqueueMemberBanRole()
\* for the ban's own switch, the others for syncRolesOnChange and for a name.
\* The worker asks the same again, but for the frozen kinds.
GateOpen(type) ==
    /\ switches.bot
    /\ type = "ban" => switches.strip
    /\ type \in {"grant", "scoped"} => switches.sync
\* One job after the other: what passes is queued, what does not is left to nobody.
Passes(j) == GateOpen(j.type) /\ j # Nothing /\ (j.type = "scoped" => j.names # {})
Kept(j) == IF Passes(j) THEN <<j>> ELSE <<>>
Lost(j) == IF Passes(j) THEN {} ELSE j.owes
Enqueue(first, second) ==
    /\ jobs' = jobs \o Kept(first) \o Kept(second)
    /\ Drift(Lost(first) \cup Lost(second))

(***************************************************************************)
(* Requests that write the roster: the row is loaded and the whole of it   *)
(* saved.  A copy that has gone stale puts back what others have written,  *)
(* and no job names what moves that way: everything, if it is a ban.       *)
(***************************************************************************)
SaveMember(c, new, names, owes) ==
    LET copy == callers[c].copy
        next == Wants(phase, new, awards)
        moved == (Wanted \ next) \cup (next \ Wanted)
    IN /\ row' = new
       /\ Drift(CASE copy = row -> {}
                  [] callers[c].op # "ban" /\ copy.banned # row.banned -> GuildRoles
                  [] OTHER -> moved \ owes)
       /\ callers' = [callers EXCEPT ![c].at = "enqueue", ![c].names = names,
                                     ![c].owes = owes]

LoadMember(c, op, rank) ==
    /\ phase = "member"
    /\ op = "ban" => ~row.banned
    /\ op = "unban" => row.banned
    /\ BeginCommand(c, [Calm EXCEPT !.op = op, !.at = "save", !.copy = row, !.rank = rank])
    /\ UNCHANGED <<roster, guild, switches, jobs, drain, fails, adrift>>

\* Only the new rank's role is named.
RankScope_NewOnly(old, new) == {new}

\* The roles of the rank as it was loaded, and of the new one.
RankScope(old, new) == {old, new}

ChangeRank(c) ==
    LET copy == callers[c].copy
        rank == callers[c].rank
        scope == RankScope(copy.rank, rank)
    IN /\ CallerAt(c, "rank", "save")
       /\ SaveMember(c, [copy EXCEPT !.rank = rank], scope, {copy.rank, rank})
       /\ UNCHANGED <<phase, awards, guild, switches, jobs, commands, fails>>

ChangeRole(c) ==
    LET copy == callers[c].copy
    IN /\ CallerAt(c, "role", "save")
       /\ SaveMember(c, [copy EXCEPT !.enrolled = ~copy.enrolled], {"enrolled"}, {"enrolled"})
       /\ UNCHANGED <<phase, awards, guild, switches, jobs, commands, fails>>

Ban(c) ==
    /\ CallerAt(c, "ban", "save")
    /\ SaveMember(c, [callers[c].copy EXCEPT !.banned = TRUE], {}, GuildRoles)
    /\ UNCHANGED <<phase, awards, guild, switches, jobs, commands, fails>>

\* unban() queues nothing: what the ban took is not given back.
Unban(c) ==
    /\ CallerAt(c, "unban", "save")
    /\ row' = [callers[c].copy EXCEPT !.banned = FALSE]
    /\ Drift(GuildRoles)
    /\ ReturnCaller(c)
    /\ UNCHANGED <<phase, awards, guild, switches, jobs, commands, fails>>

\* awardMedal() and removeMedal(): rows of their own, inserted and deleted.
AwardMedal(c) ==
    /\ phase = "member"
    /\ awards' \in {n \in {awards - 1, awards + 1} : n \in 0 .. MaxAwards}
    /\ BeginCommand(c, [Calm EXCEPT !.op = "medal", !.at = "enqueue", !.names = {"medal"},
                             !.owes = {"medal"}])
    /\ UNCHANGED <<phase, row, guild, switches, jobs, drain, fails, adrift>>

(***************************************************************************)
(* What the guild already shows is adopted: at enlistment, and by a derive.*)
(***************************************************************************)

\* highestHeldRank(): above the floor, and never a protected one.
HeldAbove(floor) == {r \in worn \cap (Ranks \ {Entry}) : Precedence(r) < floor}
HighestHeld(floor) ==
    IF HeldAbove(floor) = {} THEN "none"
    ELSE CHOOSE r \in HeldAbove(floor) :
           \A s \in HeldAbove(floor) : Precedence(r) <= Precedence(s)
Readable == switches.bot /\ present

\* deriveFromDiscord() reads the guild against the row it loaded, and
\* fails when it cannot ...
Derive(c) ==
    /\ phase = "member" /\ Readable
    /\ LET rank == HighestHeld(Precedence(row.rank))
           medal == "medal" \in worn /\ awards = 0
       IN /\ rank # "none" \/ medal
          /\ BeginCommand(c, [Calm EXCEPT !.op = "derive", !.at = "commit", !.copy = row,
                                   !.rank = rank, !.medal = medal])
    /\ UNCHANGED <<roster, guild, switches, jobs, drain, fails, adrift>>

\* ... and writes the rank alone and the missing awards, in one transaction.
DeriveCommit(c) ==
    LET copy == callers[c].copy
        rank == callers[c].rank
        names == {copy.rank} \cup ({rank} \ {"none"})
    IN /\ CallerAt(c, "derive", "commit")
       /\ awards' = IF callers[c].medal THEN awards + 1 ELSE awards
       /\ awards' <= MaxAwards
       /\ row' = IF rank = "none" THEN row ELSE [row EXCEPT !.rank = rank]
       /\ Drift(IF copy = row THEN {} ELSE {row.rank} \ names)
       /\ callers' = [callers EXCEPT ![c].at = "enqueue", ![c].names = names,
            ![c].owes = names \cup (IF callers[c].medal THEN {"medal"} ELSE {})]
       /\ UNCHANGED <<phase, guild, switches, jobs, commands, fails>>

\* submit() and a decision against: the Applicant role, as a frozen request.  Two
\* of them may be queued in the other order than they committed in.
Crossed == IF \E d \in Callers : /\ callers[d].at = "enqueue"
                                 /\ callers[d].op \in {"assign", "remove", "approve"}
             THEN {"applicant"} ELSE {}
Apply(c) ==
    /\ phase = "guest"
    /\ phase' = "applicant"
    /\ BeginCommand(c, [Calm EXCEPT !.op = "assign", !.at = "enqueue", !.owes = {"applicant"}])
    /\ Drift(Crossed)
    /\ UNCHANGED <<row, awards, guild, switches, jobs, fails>>
Decline(c) ==
    /\ phase = "applicant"
    /\ phase' = "guest"
    /\ BeginCommand(c, [Calm EXCEPT !.op = "remove", !.at = "enqueue", !.owes = {"applicant"}])
    /\ Drift(Crossed)
    /\ UNCHANGED <<row, awards, guild, switches, jobs, fails>>

\* approve(): an unreadable guild adopts nothing.
Approve(c) ==
    /\ phase = "applicant"
    /\ BeginCommand(c, [Calm EXCEPT !.op = "approve", !.at = "commit",
         !.rank = IF Readable THEN HighestHeld(Precedence(Entry)) ELSE "none",
         !.medal = Readable /\ "medal" \in worn])
    /\ UNCHANGED <<roster, guild, switches, jobs, drain, fails, adrift>>
ApproveCommit(c) ==
    /\ CallerAt(c, "approve", "commit")
    /\ IF phase # "applicant" THEN ReturnCaller(c) /\ UNCHANGED <<roster, drain, adrift>>
       ELSE /\ Drift(Crossed)
            /\ phase' = "member"
            /\ \E enrolled \in BOOLEAN :
                 row' = [rank |-> IF callers[c].rank = "none" THEN Entry
                                  ELSE callers[c].rank,
                         enrolled |-> enrolled, banned |-> FALSE]
            /\ awards' = IF callers[c].medal THEN 1 ELSE 0
            /\ callers' = [callers EXCEPT ![c].at = "enqueue",
                 ![c].owes = {"applicant"} \cup Desired("member", row', awards')]
    /\ UNCHANGED <<guild, switches, jobs, commands, fails>>

\* What each of them queues, once it has committed: one job, or one more.
Queues(call) ==
    CASE call.op \in {"rank", "role", "medal", "derive"} -> Job("scoped", call.names, call.names)
      [] call.op = "ban" -> Job("ban", {}, call.owes)
      [] call.op = "assign" -> Job("assign", {"applicant"}, {"applicant"})
      [] OTHER -> Job("remove", {"applicant"}, {"applicant"})
QueuesThen(call) ==
    CASE call.op = "derive" -> Job("grant", {}, call.owes)
      [] call.op = "approve" -> Job("grant", {}, call.owes \ {"applicant"})
      [] OTHER -> Nothing
AfterCommit(c) ==
    /\ callers[c].at = "enqueue"
    /\ Enqueue(Queues(callers[c]), QueuesThen(callers[c]))
    /\ ReturnCaller(c)
    /\ UNCHANGED <<roster, guild, switches, commands, fails>>

(***************************************************************************)
(* The worker.  One dispatch at a time; a job that threw is due again only *)
(* after its backoff, when later ones may be done.                         *)
(***************************************************************************)
Due(i) == jobs[i].tried \/ \A k \in 1 .. i - 1 : jobs[k].tried

\* The ban is not looked at.
DesiredNow_Banned == Desired(phase, [row EXCEPT !.banned = FALSE], awards)

\* Nothing is desired of somebody who is banned, and no job may touch them.
DesiredNow == Desired(phase, row, awards)
Untouchable == DesiredNow = {}

\* The gate is asked again and the roster read.  The two frozen kinds ask
\* nothing; the ban does not ask whether it still holds.  A resync or a
\* ban is no answer for the Applicant role: a frozen request may still come.
Take(i) ==
    LET j == jobs[i]
        frozen == j.type \in {"assign", "remove"}
        done == ~frozen /\ (~GateOpen(j.type) \/ (j.type # "ban" /\ Untouchable))
        lifted == IF j.type = "ban" /\ ~row.banned THEN GuildRoles ELSE {}
    IN /\ drain.at = "idle" /\ Due(i)
       /\ jobs' = RemoveAt(jobs, i)
       /\ IF done
            THEN /\ drain' = drain
                 /\ adrift' = adrift \cup IF GateOpen(j.type) THEN {} ELSE j.owes
            ELSE /\ drain' = [Idle EXCEPT !.at = IF frozen THEN "call" ELSE "read",
                      !.job = j, !.wanted = DesiredNow,
                      !.add = IF j.type = "assign" THEN j.names ELSE {},
                      !.drop = IF j.type = "remove" THEN j.names ELSE {},
                      !.heals = CASE j.type = "scoped" -> j.names
                                  [] j.type = "grant" -> DesiredNow
                                  [] j.type = "resync" -> Managed \ {"applicant"}
                                  [] j.type = "ban" -> GuildRoles \ (lifted \cup {"applicant"})
                                  [] OTHER -> {}]
                 /\ adrift' = adrift \cup lifted
       /\ UNCHANGED <<roster, guild, switches, callers, commands, fails>>

\* What each kind does with the roles it read, or could not read.
Additions(j, wanted, seen) ==
    CASE j.type = "scoped" -> (wanted \cap j.names) \ seen
      [] j.type = "ban" -> {"ban"}
      [] OTHER -> wanted \ seen
Removals(j, wanted, readable, seen) ==
    CASE j.type = "scoped" -> IF readable THEN (j.names \cap seen) \ wanted
                              ELSE j.names \ wanted
      [] j.type = "grant" -> {}
      [] j.type = "resync" -> (seen \cap Managed) \ wanted
      [] j.type = "ban" -> seen \cap Managed

\* fetchMember(): null for somebody who left and for a call that failed alike.
\* A blind resync or ban removes nothing, and so answers for less.
FetchMember ==
    LET j == drain.job
    IN /\ drain.at = "read"
       /\ \E readable \in {present, FALSE} :
            LET seen == IF readable THEN worn ELSE {}
                add == Additions(j, drain.wanted, seen)
                missed == IF readable \/ j.type \notin {"resync", "ban"} THEN {}
                          ELSE drain.heals \ add
            IN /\ drain' = [drain EXCEPT !.at = "call", !.add = add,
                              !.drop = Removals(j, drain.wanted, readable, seen),
                              !.heals = @ \ missed]
               /\ adrift' = adrift \cup missed
               /\ fails' = IF present /\ ~readable THEN fails + 1 ELSE fails
               /\ fails' <= MaxFails
       /\ UNCHANGED <<roster, guild, switches, jobs, callers, commands>>

\* One call to the gateway at a time: additions first, but a ban strips first,
\* and a scoped sync goes through its list.
Calls == CASE drain.job.type = "scoped" -> drain.add \cup drain.drop
           [] drain.job.type = "ban" /\ drain.drop # {} -> drain.drop
           [] OTHER -> IF drain.add = {} THEN drain.drop ELSE drain.add
CallGateway(r) ==
    /\ drain.at = "call" /\ present /\ r \in Calls
    /\ worn' = IF r \in drain.add THEN worn \cup {r} ELSE worn \ {r}
    /\ drain' = [drain EXCEPT !.add = @ \ {r}, !.drop = @ \ {r}]
    /\ UNCHANGED <<roster, present, onboarded, switches, jobs, callers, commands,
                   fails, adrift>>

\* handleFailure(): again later, or given up, at once for somebody who left.  A
\* frozen request that comes again may come after its opposite.
CallFails ==
    LET j == drain.job
    IN /\ drain.at = "call" /\ Calls # {}
       /\ IF present THEN fails < MaxFails /\ fails' = fails + 1 ELSE fails' = fails
       /\ \/ /\ present
             /\ jobs' = <<[j EXCEPT !.tried = TRUE]>> \o jobs
             /\ adrift' = adrift \cup IF j.type \in {"assign", "remove"} THEN j.owes ELSE {}
          \/ /\ jobs' = jobs
             /\ adrift' = adrift \cup j.owes
       /\ drain' = Idle
       /\ UNCHANGED <<roster, guild, switches, callers, commands>>
Done ==
    /\ drain.at = "call" /\ drain.add \cup drain.drop = {}
    /\ drain' = Idle
    /\ adrift' = adrift \ drain.heals
    /\ UNCHANGED <<roster, guild, switches, jobs, callers, commands, fails>>

(***************************************************************************)
(* The guild, the operator, the process.                                   *)
(***************************************************************************)

\* Somebody gives or takes a managed role in Discord.
ByHand(r) ==
    /\ Command /\ present
    /\ worn' = IF r \in worn THEN worn \ {r} ELSE worn \cup {r}
    /\ Drift({r})
    /\ UNCHANGED <<roster, present, onboarded, switches, jobs, callers, fails>>

Leave ==
    /\ Command /\ present
    /\ present' = FALSE /\ worn' = {}
    /\ Drift(worn)
    /\ UNCHANGED <<roster, onboarded, switches, jobs, callers, fails>>

\* onMemberJoin(): welcomed, and given back what the roster says, if that was
\* not done a moment ago and no suspension runs; to a banned member, the ban.
Restores(suspended) ==
    CASE phase # "member" -> Nothing
      [] phase = "member" /\ row.banned -> Job("ban", {}, {"ban"})
      [] OTHER -> IF suspended THEN Nothing ELSE Job("grant", {}, Wanted)
Join ==
    /\ Command /\ ~present
    /\ present' = TRUE
    /\ \E recent \in {FALSE, onboarded}, suspended \in BOOLEAN :
         IF recent THEN UNCHANGED <<onboarded, jobs, drain, adrift>>
         ELSE onboarded' = TRUE /\ Enqueue(Restores(suspended), Nothing)
    /\ UNCHANGED <<roster, worn, switches, callers, fails>>

\* resyncAll(): the automatic switch is not asked.
Resync ==
    /\ Command /\ switches.bot /\ phase = "member"
    /\ jobs' = Append(jobs, Job("resync", {}, {}))
    /\ UNCHANGED <<roster, guild, switches, drain, callers, fails, adrift>>

Switch(s) ==
    /\ Command
    /\ switches' = [switches EXCEPT ![s] = ~@]
    /\ UNCHANGED <<roster, guild, jobs, drain, callers, fails, adrift>>

\* The process dies: what its requests had still to queue is never queued, the
\* job in hand is put back by the reaper.
RolesCrash ==
    /\ Command
    /\ \E c \in Callers : callers[c].at # "idle"
    /\ callers' = [c \in Callers |-> Calm]
    /\ drain' = Idle /\ onboarded' = FALSE
    /\ jobs' = IF drain.at = "idle" THEN jobs
               ELSE <<[drain.job EXCEPT !.tried = TRUE]>> \o jobs
    /\ adrift' = adrift \cup (UNION {callers[c].owes : c \in Callers})
                   \cup (IF drain.at # "idle" /\ drain.job.type \in {"assign", "remove"}
                          THEN drain.job.owes ELSE {})
    /\ UNCHANGED <<roster, present, worn, switches, fails>>

RosterRequests(c) ==
    \/ \E rank \in Ranks : LoadMember(c, "rank", rank)
    \/ \E op \in {"role", "ban", "unban"} : LoadMember(c, op, "none")
    \/ ChangeRank(c) \/ ChangeRole(c) \/ Ban(c) \/ Unban(c) \/ AwardMedal(c)
    \/ Derive(c) \/ DeriveCommit(c)
    \/ Apply(c) \/ Decline(c) \/ Approve(c) \/ ApproveCommit(c)
    \/ AfterCommit(c)
Worker == \/ \E i \in DOMAIN jobs : Take(i)
          \/ FetchMember \/ (\E r \in GuildRoles : CallGateway(r)) \/ CallFails \/ Done
Surroundings ==
    \/ \E r \in Managed : ByHand(r)
    \/ Leave \/ Join \/ Resync \/ RolesCrash
    \/ \E s \in {"bot", "sync", "strip"} : Switch(s)
RolesNext == (\E c \in Callers : RosterRequests(c)) \/ Worker \/ Surroundings

RolesSpec == RolesInit /\ [][RolesNext]_roleVars

(***************************************************************************)
(* Properties.                                                             *)
(***************************************************************************)
RolesTypeOK ==
    /\ phase \in {"guest", "applicant", "member"}
    /\ row \in [rank : Ranks, enrolled : BOOLEAN, banned : BOOLEAN]
    /\ awards \in 0 .. MaxAwards
    /\ {worn, adrift} \subseteq SUBSET GuildRoles
    /\ ~present => worn = {}
    /\ \A i \in DOMAIN jobs :
         jobs[i].type \in {"assign", "remove", "grant", "scoped", "ban", "resync"}
    /\ fails \in 0 .. MaxFails /\ commands \in 0 .. MaxCommands

\* What somebody still has to do about the guild.
AnsweredFor == (UNION {jobs[i].owes : i \in DOMAIN jobs})
              \cup (UNION {callers[c].owes : c \in Callers})
              \cup (IF drain.at = "idle" THEN {} ELSE drain.job.owes \cup drain.heals)

\* The guild shows of each role what the roster wants, or somebody is still to
\* see to it: after any interleaving of rank changes, awards, bans, enlistments,
\* derives and rejoins, of retries and of crashes.  Left out are the roles in
\* adrift: touched by hand, switched off, given up, taken by a ban that was
\* lifted, lost to a crash before the enqueue, moved by a stale copy of the row,
\* or asked for by a frozen request that had to be tried again; an operator's
\* resync takes them back.
GuildFollowsRoster ==
    \A r \in GuildRoles \ (adrift \cup AnsweredFor) : r \in worn <=> r \in Wanted
================================================================================
