------------------------------ MODULE RoleSync_proofs ---------------------------
(***************************************************************************)
(* The guild follows the roster (RoleSync), proved for any ladder and any  *)
(* number of requests.  The invariant has three parts: what jobs, requests *)
(* and the dispatch may hold (Ground); for every role but the Applicant's  *)
(* that it is right, given up, claimed by what is still to run or held by  *)
(* what runs (RuleInv); and for the Applicant's, whose jobs do not look at *)
(* the roster again, that the last of them fits (PhaseInv).                *)
(***************************************************************************)
EXTENDS RoleSync, SequenceTheorems, WellFoundedInduction, TLAPS

(***************************************************************************)
(* The state is well formed.                                               *)
(***************************************************************************)
\* The two kinds that carry their roles with them.
FrozenKinds == {"assign", "remove"}
StepKinds == {"grant", "scoped", "ban", "resync"} \cup FrozenKinds
RoleJobs == [type : StepKinds, names : SUBSET GuildRoles, owes : SUBSET GuildRoles,
             tried : BOOLEAN]
Rows == [rank : Ranks, enrolled : BOOLEAN, banned : BOOLEAN]
Requests == [op : {"none", "rank", "role", "ban", "unban", "medal", "derive", "assign",
                   "remove", "approve"},
             at : {"idle", "save", "commit", "enqueue"}, copy : Rows \cup {<<>>},
             rank : Ranks \cup {"none"}, medal : BOOLEAN, names : SUBSET GuildRoles,
             owes : SUBSET GuildRoles]
Drains == [at : {"idle", "read", "call"}, job : RoleJobs \cup {<<>>},
           wanted : SUBSET GuildRoles, add : SUBSET GuildRoles, drop : SUBSET GuildRoles,
           heals : SUBSET GuildRoles]
Rostered == Managed \ {"applicant"}

\* What a queued job may name and owe.
JobShape(j) ==
    /\ j.type = "scoped" => j.owes = j.names /\ j.names \subseteq Rostered
    /\ j.type = "grant" => j.owes \subseteq Rostered
    /\ j.type \in FrozenKinds => j.names = {"applicant"} /\ j.owes = {"applicant"}
    /\ j.type = "resync" => j.owes = {}

\* What a request may hold at each of its steps.
CallerShape(q) ==
    /\ q.at = "idle" <=> q.op = "none"
    /\ q.at # "enqueue" => q.owes = {}
    /\ q.at = "save" => q.copy \in Rows /\ q.op \in {"rank", "role", "ban", "unban"}
    /\ q.at = "commit" => q.op \in {"derive", "approve"}
    /\ q.op = "unban" => q.at = "save"
    /\ q.op = "rank" => q.rank \in Ranks
    /\ q.op = "derive" /\ q.at = "commit" => q.copy \in Rows
    /\ q.at = "enqueue" /\ q.op \in {"rank", "role", "medal", "derive"} =>
         q.names # {} /\ q.names \subseteq Rostered /\ q.names \subseteq q.owes
    /\ q.at = "enqueue" /\ q.op \in {"rank", "role", "medal"} => q.owes = q.names
    /\ q.at = "enqueue" /\ q.op = "derive" => q.owes \subseteq q.names \cup {"medal"}
    /\ q.at = "enqueue" /\ q.op = "ban" => q.owes = GuildRoles
    /\ q.at = "enqueue" /\ q.op \in FrozenKinds => q.owes = {"applicant"}
    /\ q.at = "enqueue" /\ q.op = "approve" =>
         "applicant" \in q.owes /\ q.owes \subseteq Managed

\* The state is well formed; nobody who is not a member has a member's jobs.
RosterOK == phase \in {"guest", "applicant", "member"} /\ row \in Rows /\ awards \in 0 .. MaxAwards
GuildOK == /\ present \in BOOLEAN /\ onboarded \in BOOLEAN
           /\ worn \in SUBSET GuildRoles /\ (~present => worn = {})
           /\ adrift \in SUBSET GuildRoles
           /\ switches \in [bot : BOOLEAN, sync : BOOLEAN, strip : BOOLEAN]
JobsOK == jobs \in Seq(RoleJobs) /\ \A j \in ToSet(jobs) : JobShape(j)
DrainOK ==
    /\ drain \in Drains
    /\ drain.at = "idle" => drain.heals = {}
    /\ drain.at # "idle" => drain.job \in RoleJobs /\ JobShape(drain.job)
    /\ drain.at = "read" => drain.job.type \notin FrozenKinds
CallersOK == /\ callers \in [Callers -> Requests]
             /\ \A c \in Callers : CallerShape(callers[c])
Early == phase # "member" =>
    /\ \A j \in ToSet(jobs) : j.type \in FrozenKinds
    /\ drain.at # "idle" => drain.job.type \in FrozenKinds
    /\ \A c \in Callers : \/ callers[c].op \in {"none", "assign", "remove"}
                          \/ callers[c].op = "approve" /\ callers[c].at = "commit"
RoleBounded == commands \in 0 .. MaxCommands /\ fails \in 0 .. MaxFails
Ground == RosterOK /\ GuildOK /\ JobsOK /\ DrainOK /\ CallersOK /\ Early /\ RoleBounded

\* Which roles are which.
LEMMA RoleSet ==
    /\ Ranks \subseteq Rostered /\ {"medal", "enrolled"} \subseteq Rostered
    /\ Rostered \subseteq GuildRoles /\ Managed \subseteq GuildRoles
    /\ "applicant" \in GuildRoles /\ "ban" \in GuildRoles /\ "none" \notin Ranks
    /\ "applicant" \notin Rostered /\ "ban" \notin Rostered
    /\ GuildRoles = Rostered \cup {"applicant", "ban"}
    /\ "ban" \notin Managed /\ "applicant" \in Managed /\ Managed = Rostered \cup {"applicant"}
  BY RoleSyncAssumption DEF Managed, GuildRoles, Rostered

\* The entry rank is a rank.
LEMMA EntryRank == Entry \in Ranks
  BY RoleSyncAssumption DEF Entry, Ranks, ToSet

\* What the roster desires and wants, by what the person is.
LEMMA DesiredType ==
    ASSUME NEW p, NEW r \in Rows, NEW n
    PROVE  /\ Desired(p, r, n) \subseteq Rostered
           /\ Wants(p, r, n) \subseteq GuildRoles
           /\ p = "member" /\ ~r.banned =>
                /\ Desired(p, r, n) # {}
                /\ Wants(p, r, n) = Desired(p, r, n)
           /\ p # "member" \/ r.banned => Desired(p, r, n) = {}
           /\ p = "member" /\ r.banned => Wants(p, r, n) = {"ban"}
           /\ p = "applicant" => Wants(p, r, n) = {"applicant"}
           /\ p # "applicant" /\ p # "member" => Wants(p, r, n) = {}
<1>1. r.rank \in Ranks /\ r.banned \in BOOLEAN
  BY DEF Rows
<1> QED
  BY <1>1, RoleSet DEF Desired, Wants

\* Queueing at the end.
LEMMA RoleAppended ==
    ASSUME NEW s \in Seq(RoleJobs), NEW j \in RoleJobs
    PROVE  /\ s \o <<j>> \in Seq(RoleJobs)
           /\ ToSet(s \o <<j>>) = ToSet(s) \cup {j}
           /\ DOMAIN (s \o <<j>>) = DOMAIN s \cup {Len(s) + 1}
           /\ \A i \in DOMAIN s : (s \o <<j>>)[i] = s[i] /\ i < Len(s) + 1
           /\ (s \o <<j>>)[Len(s) + 1] = j
<1> DEFINE t == s \o <<j>>
<1>1. t \in Seq(RoleJobs) /\ Len(t) = Len(s) + 1
  OBVIOUS
<1>2. \A i \in 1 .. Len(s) : t[i] = s[i]
  OBVIOUS
<1>3. t[Len(s) + 1] = j
  OBVIOUS
<1>4. DOMAIN s = 1 .. Len(s) /\ DOMAIN t = 1 .. Len(s) + 1 /\ Len(s) \in Nat
  BY <1>1
<1> HIDE DEF t
<1>5. ToSet(t) = ToSet(s) \cup {j}
  BY <1>2, <1>3, <1>4 DEF ToSet
<1> QED
  BY <1>1, <1>2, <1>3, <1>4, <1>5 DEF t

\* Put back in front.
LEMMA PutBack ==
    ASSUME NEW s \in Seq(RoleJobs), NEW j \in RoleJobs
    PROVE  /\ <<j>> \o s \in Seq(RoleJobs)
           /\ ToSet(<<j>> \o s) = ToSet(s) \cup {j}
           /\ DOMAIN (<<j>> \o s) = 1 .. Len(s) + 1
           /\ (<<j>> \o s)[1] = j
           /\ \A i \in DOMAIN s : (<<j>> \o s)[i + 1] = s[i]
           /\ \A i \in 2 .. Len(s) + 1 : (<<j>> \o s)[i] = s[i - 1] /\ i - 1 \in DOMAIN s
<1> DEFINE t == <<j>> \o s
<1>1. t \in Seq(RoleJobs) /\ Len(t) = Len(s) + 1
  OBVIOUS
<1>2. \A i \in 1 .. Len(s) : t[i + 1] = s[i]
  OBVIOUS
<1>3. t[1] = j
  OBVIOUS
<1>4. DOMAIN s = 1 .. Len(s) /\ DOMAIN t = 1 .. Len(s) + 1 /\ Len(s) \in Nat
  BY <1>1
<1> HIDE DEF t
<1>6. \A i \in 2 .. Len(s) + 1 : i - 1 \in 1 .. Len(s) /\ i = (i - 1) + 1
  BY <1>4
<1>7. \A i \in 2 .. Len(s) + 1 : t[i] = s[i - 1]
  BY <1>6, <1>2
<1>8. \A i \in 1 .. Len(s) + 1 : i = 1 \/ i \in 2 .. Len(s) + 1
  BY <1>4
<1>9. \A i \in 1 .. Len(s) : i + 1 \in 1 .. Len(s) + 1
  BY <1>4
<1>5. ToSet(t) = ToSet(s) \cup {j}
  <2>1. ToSet(t) \subseteq ToSet(s) \cup {j}
    BY <1>7, <1>3, <1>4, <1>8, <1>6 DEF ToSet
  <2>2. ToSet(s) \cup {j} \subseteq ToSet(t)
    BY <1>2, <1>3, <1>4, <1>9 DEF ToSet
  <2> QED
    BY <2>1, <2>2
<1> QED
  BY <1>1, <1>2, <1>3, <1>4, <1>5, <1>6, <1>7 DEF t

\* Taken out.
LEMMA TakenOut ==
    ASSUME NEW s \in Seq(RoleJobs), NEW i \in DOMAIN s
    PROVE  /\ RemoveAt(s, i) \in Seq(RoleJobs)
           /\ ToSet(RemoveAt(s, i)) \subseteq ToSet(s)
           /\ ToSet(s) \subseteq ToSet(RemoveAt(s, i)) \cup {s[i]}
           /\ DOMAIN RemoveAt(s, i) = 1 .. Len(s) - 1
           /\ \A k \in DOMAIN RemoveAt(s, i) :
                RemoveAt(s, i)[k] = IF k < i THEN s[k] ELSE s[k + 1]
<1>0. i \in 1 .. Len(s) /\ Len(s) \in Nat /\ DOMAIN s = 1 .. Len(s)
  OBVIOUS
<1> DEFINE a == SubSeq(s, 1, i - 1)
           b == SubSeq(s, i + 1, Len(s))
           t == RemoveAt(s, i)
<1>1. t = a \o b
  BY DEF RemoveAt
<1>2. a \in Seq(RoleJobs) /\ Len(a) = i - 1 /\ \A k \in 1 .. i - 1 : a[k] = s[k]
  BY <1>0, SubSeqProperties
<1>3. b \in Seq(RoleJobs) /\ Len(b) = Len(s) - i /\ \A k \in 1 .. Len(s) - i : b[k] = s[i + k]
  BY <1>0, SubSeqProperties
<1> HIDE DEF a, b, t
<1>4. t \in Seq(RoleJobs) /\ Len(t) = Len(s) - 1
  <2>1. t \in Seq(RoleJobs) /\ Len(t) = Len(a) + Len(b)
    BY <1>1, <1>2, <1>3, ConcatProperties
  <2> QED
    BY <2>1, <1>0, <1>2, <1>3
<1>5. \A k \in 1 .. Len(s) - 1 : t[k] = IF k < i THEN s[k] ELSE s[k + 1]
  <2> TAKE k \in 1 .. Len(s) - 1
  <2>1. t[k] = IF k <= Len(a) THEN a[k] ELSE b[k - Len(a)]
    <3>1. k \in 1 .. Len(a) + Len(b)
      BY <1>0, <1>2, <1>3
    <3> QED
      BY <3>1, <1>1, <1>2, <1>3, ConcatProperties
  <2>2. CASE k < i
    BY <2>1, <2>2, <1>0, <1>2
  <2>3. CASE ~(k < i)
    <3>1. ~(k <= Len(a)) /\ k - Len(a) = k - i + 1 /\ k - i + 1 \in 1 .. Len(s) - i
      BY <2>3, <1>0, <1>2
    <3>2. i + (k - i + 1) = k + 1
      BY <1>0
    <3> QED
      BY <3>1, <3>2, <2>1, <2>3, <1>3
  <2> QED
    BY <2>2, <2>3
<1>6. DOMAIN t = 1 .. Len(s) - 1
  BY <1>4
<1>7. ToSet(t) \subseteq ToSet(s)
  <2>1. \A k \in 1 .. Len(s) - 1 : k \in 1 .. Len(s) /\ k + 1 \in 1 .. Len(s)
    BY <1>0
  <2> QED
    BY <1>5, <1>6, <1>0, <2>1 DEF ToSet
<1>8. ToSet(s) \subseteq ToSet(t) \cup {s[i]}
  <2> SUFFICES ASSUME NEW k \in 1 .. Len(s), k # i PROVE s[k] \in ToSet(t)
    BY <1>0 DEF ToSet
  <2>1. CASE k < i
    <3>1. k \in 1 .. Len(s) - 1
      BY <2>1, <1>0
    <3> QED
      BY <3>1, <2>1, <1>5, <1>6 DEF ToSet
  <2>2. CASE k > i
    <3>1. k - 1 \in 1 .. Len(s) - 1 /\ ~(k - 1 < i) /\ (k - 1) + 1 = k
      BY <2>2, <1>0
    <3> QED
      BY <3>1, <1>5, <1>6 DEF ToSet
  <2> QED
    BY <2>1, <2>2, <1>0
<1> QED
  BY <1>4, <1>5, <1>6, <1>7, <1>8 DEF t

\* A request that is not under way is well formed.
LEMMA CalmCaller == /\ Calm \in Requests /\ CallerShape(Calm) /\ Calm.at = "idle"
                    /\ Calm.op = "none" /\ Calm.owes = {}
  BY DEF Calm, Requests, CallerShape, FrozenKinds

\* A dispatch that is not under way answers for nothing.
LEMMA IdleDrain == Idle \in Drains /\ Idle.at = "idle" /\ Idle.heals = {}
  BY DEF Idle, Drains

\* The jobs the surroundings queue are well formed.
LEMMA NewJobs ==
    /\ \A n \in SUBSET Rostered : Job("scoped", n, n) \in RoleJobs /\ JobShape(Job("scoped", n, n))
    /\ \A n \in SUBSET Rostered : Job("grant", {}, n) \in RoleJobs /\ JobShape(Job("grant", {}, n))
    /\ \A n \in SUBSET GuildRoles : Job("ban", {}, n) \in RoleJobs /\ JobShape(Job("ban", {}, n))
    /\ \A k \in FrozenKinds : /\ Job(k, {"applicant"}, {"applicant"}) \in RoleJobs
                              /\ JobShape(Job(k, {"applicant"}, {"applicant"}))
    /\ Job("resync", {}, {}) \in RoleJobs /\ JobShape(Job("resync", {}, {}))
    /\ \A t, n, o : /\ Job(t, n, o).type = t /\ Job(t, n, o).names = n
                    /\ Job(t, n, o).owes = o /\ Job(t, n, o).tried = FALSE
    /\ Nothing.owes = {} /\ Nothing.type = "none"
  BY RoleSet DEF Job, Nothing, RoleJobs, JobShape, StepKinds, FrozenKinds

\* A job that is put back differs in having been tried.
LEMMA Retried ==
    ASSUME NEW j \in RoleJobs, JobShape(j)
    PROVE  LET k == [j EXCEPT !.tried = TRUE]
           IN /\ k \in RoleJobs /\ JobShape(k) /\ k.type = j.type /\ k.owes = j.owes
              /\ k.names = j.names /\ k.tried
  BY DEF RoleJobs, JobShape

\* One job after the other is queued.
LEMMA KeptJob ==
    ASSUME NEW s \in Seq(RoleJobs), NEW j, j \in RoleJobs \/ j = Nothing
    PROVE  /\ s \o Kept(j) \in Seq(RoleJobs)
           /\ ToSet(s \o Kept(j)) = ToSet(s) \cup (IF Passes(j) THEN {j} ELSE {})
           /\ \A i \in DOMAIN s : i \in DOMAIN (s \o Kept(j)) /\ (s \o Kept(j))[i] = s[i]
           /\ \A i \in DOMAIN (s \o Kept(j)) \ DOMAIN s :
                Passes(j) /\ (s \o Kept(j))[i] = j /\ \A k \in DOMAIN s : k < i
           /\ \A i, k \in DOMAIN (s \o Kept(j)) \ DOMAIN s : i = k
           /\ DOMAIN s \subseteq Int /\ DOMAIN (s \o Kept(j)) \subseteq Int
           /\ Passes(j) => \E i \in DOMAIN (s \o Kept(j)) \ DOMAIN s : TRUE
<1>1. CASE Passes(j)
  <2>1. j \in RoleJobs
    BY <1>1 DEF Passes
  <2>2. Kept(j) = <<j>>
    BY <1>1 DEF Kept
  <2>3. Len(s) + 1 \notin DOMAIN s /\ DOMAIN s \subseteq Int /\ Len(s) + 1 \in Int
    OBVIOUS
  <2> QED
    BY <2>1, <2>2, <2>3, <1>1, RoleAppended
<1>2. CASE ~Passes(j)
  <2>1. Kept(j) = <<>>
    BY <1>2 DEF Kept
  <2>2. s \o <<>> = s
    BY ConcatEmptySeq
  <2>3. DOMAIN s \subseteq Int
    OBVIOUS
  <2> QED
    BY <2>1, <2>2, <2>3, <1>2
<1> QED
  BY <1>1, <1>2

\* Enqueue() leaves a queue of well-formed jobs.
LEMMA QueuedJobs ==
    ASSUME JobsOK, NEW a, a \in RoleJobs \/ a = Nothing, a \in RoleJobs => JobShape(a),
           NEW b, b \in RoleJobs \/ b = Nothing, b \in RoleJobs => JobShape(b),
           Enqueue(a, b)
    PROVE  /\ JobsOK'
           /\ ToSet(jobs') = ToSet(jobs) \cup (IF Passes(a) THEN {a} ELSE {})
                                         \cup (IF Passes(b) THEN {b} ELSE {})
<1>1. jobs \in Seq(RoleJobs)
  BY DEF JobsOK
<1>2. jobs \o Kept(a) \in Seq(RoleJobs)
  BY <1>1, KeptJob
<1>3. jobs' = (jobs \o Kept(a)) \o Kept(b)
  BY DEF Enqueue
<1>4. ToSet(jobs \o Kept(a)) = ToSet(jobs) \cup (IF Passes(a) THEN {a} ELSE {})
  BY <1>1, KeptJob
<1>5. /\ jobs' \in Seq(RoleJobs)
      /\ ToSet(jobs') = ToSet(jobs \o Kept(a)) \cup (IF Passes(b) THEN {b} ELSE {})
  BY <1>2, <1>3, KeptJob
<1>6. (Passes(a) => a \in RoleJobs) /\ (Passes(b) => b \in RoleJobs)
  BY DEF Passes
<1> QED
  BY <1>4, <1>5, <1>6 DEF JobsOK

\* What drifts is no longer healed by the dispatch, and is adrift.
LEMMA Drifted ==
    ASSUME DrainOK, adrift \in SUBSET GuildRoles, NEW R \in SUBSET GuildRoles, Drift(R)
    PROVE  /\ adrift' \in SUBSET GuildRoles /\ adrift' = adrift \cup R
           /\ DrainOK'
           /\ drain'.at = drain.at /\ drain'.job = drain.job /\ drain'.wanted = drain.wanted
           /\ drain'.add = drain.add /\ drain'.drop = drain.drop
           /\ drain'.heals = drain.heals \ R
<1>1. drain \in Drains
  BY DEF DrainOK
<1>2. LET d == [drain EXCEPT !.heals = @ \ R]
      IN /\ d \in Drains /\ d.at = drain.at /\ d.job = drain.job /\ d.wanted = drain.wanted
         /\ d.add = drain.add /\ d.drop = drain.drop /\ d.heals = drain.heals \ R
  BY <1>1 DEF Drains
<1>3. drain' = [drain EXCEPT !.heals = @ \ R] /\ adrift' = adrift \cup R
  BY DEF Drift
<1> QED
  BY <1>2, <1>3 DEF DrainOK

\* One request moves on.
LEMMA CallerPut ==
    ASSUME CallersOK, NEW c \in Callers, NEW q \in Requests, CallerShape(q),
           callers' = [callers EXCEPT ![c] = q]
    PROVE  /\ CallersOK'
           /\ callers'[c] = q
           /\ \A d \in Callers : callers'[d] = IF d = c THEN q ELSE callers[d]
  BY DEF CallersOK

\* One request has committed.
LEMMA RoleCommitted ==
    ASSUME NEW q \in Requests, NEW n \in SUBSET GuildRoles, NEW o \in SUBSET GuildRoles
    PROVE  LET e == [q EXCEPT !.at = "enqueue", !.names = n, !.owes = o]
           IN /\ e \in Requests /\ e.at = "enqueue" /\ e.names = n /\ e.owes = o
              /\ e.op = q.op /\ e.copy = q.copy /\ e.rank = q.rank /\ e.medal = q.medal
  BY DEF Requests

\* A request begins.
LEMMA Begun ==
    ASSUME Ground, NEW c \in Callers, NEW q \in Requests, CallerShape(q), BeginCommand(c, q)
    PROVE  /\ CallersOK' /\ callers[c].at = "idle" /\ callers[c].op = "none"
           /\ commands' \in 0 .. MaxCommands
           /\ \A d \in Callers : callers'[d] = IF d = c THEN q ELSE callers[d]
<1>1. c <= c
  BY RoleSyncAssumption
<1>2. callers[c].at = "idle" /\ callers' = [callers EXCEPT ![c] = q]
  BY <1>1 DEF BeginCommand
<1>3. commands < MaxCommands /\ commands' = commands + 1 /\ MaxCommands \in Nat
  BY RoleSyncAssumption DEF BeginCommand, Command
<1>4. commands' \in 0 .. MaxCommands
  BY <1>3 DEF Ground, RoleBounded
<1>5. callers[c].op = "none"
  BY <1>2 DEF Ground, CallersOK, CallerShape
<1>6. CallersOK' /\ \A d \in Callers : callers'[d] = IF d = c THEN q ELSE callers[d]
  BY <1>2, CallerPut DEF Ground
<1> QED
  BY <1>2, <1>4, <1>5, <1>6

\* One request returns.
LEMMA CalledBack ==
    ASSUME Ground, NEW c \in Callers, ReturnCaller(c)
    PROVE  CallersOK' /\ \A d \in Callers : callers'[d] = IF d = c THEN Calm ELSE callers[d]
  BY CalmCaller, CallerPut DEF Ground, ReturnCaller

\* A request has written the roster.
LEMMA Saved ==
    ASSUME Ground, NEW c \in Callers, NEW n \in SUBSET GuildRoles, NEW o \in SUBSET GuildRoles,
           callers[c].at \in {"save", "commit"},
           callers' = [callers EXCEPT ![c].at = "enqueue", ![c].names = n, ![c].owes = o],
           callers[c].op \in {"rank", "role", "derive"} =>
             n # {} /\ n \subseteq Rostered /\ n \subseteq o,
           callers[c].op \in {"rank", "role"} => o = n,
           callers[c].op = "derive" => o \subseteq n \cup {"medal"},
           callers[c].op = "ban" => o = GuildRoles,
           callers[c].op = "approve" => "applicant" \in o /\ o \subseteq Managed,
           callers[c].op # "unban"
    PROVE  /\ CallersOK'
           /\ \A d \in Callers : d # c => callers'[d] = callers[d]
           /\ callers'[c].at = "enqueue" /\ callers'[c].op = callers[c].op
           /\ callers'[c].names = n /\ callers'[c].owes = o
<1> DEFINE q == callers[c]
           e == [q EXCEPT !.at = "enqueue", !.names = n, !.owes = o]
<1>1. q \in Requests /\ CallerShape(q)
  BY DEF Ground, CallersOK
<1>2. callers' = [callers EXCEPT ![c] = e]
  BY DEF Ground, CallersOK
<1>3. /\ e \in Requests /\ e.at = "enqueue" /\ e.names = n /\ e.owes = o /\ e.op = q.op
      /\ e.copy = q.copy /\ e.rank = q.rank
  <2> HIDE DEF q
  <2> QED
    BY <1>1 DEF Requests
<1>4. q.op \in {"rank", "role", "ban", "unban", "derive", "approve"} /\ q.op # "none"
  BY <1>1 DEF CallerShape
<1>5. CallerShape(e)
  <2> HIDE DEF e, q
  <2> USE <1>3, <1>4
  <2>1. q.op # "unban"
    BY DEF q
  <2>2. q.op = "rank" => q.rank \in Ranks
    BY <1>1 DEF CallerShape
  <2> QED
    BY <2>1, <2>2 DEF CallerShape, FrozenKinds, q
<1> HIDE DEF e
<1>6. CallersOK' /\ \A d \in Callers : callers'[d] = IF d = c THEN e ELSE callers[d]
  BY <1>2, <1>3, <1>5, CallerPut DEF Ground
<1> QED
  BY <1>3, <1>6

\* No other request moves.
Apart(c) == \A d \in Callers : d # c => callers'[d] = callers[d]

(***************************************************************************)
(* What each step does, and that the state stays well formed.              *)
(***************************************************************************)
\* A member is loaded: only the request begins.
LEMMA LoadEffect ==
    ASSUME Ground, NEW c \in Callers, NEW o \in {"rank", "role", "ban", "unban"},
           NEW g \in Ranks \cup {"none"}, o = "rank" => g \in Ranks, LoadMember(c, o, g)
    PROVE  /\ Ground' /\ Apart(c) /\ callers[c].at # "enqueue" /\ callers'[c].at # "enqueue"
<1> DEFINE q == [Calm EXCEPT !.op = o, !.at = "save", !.copy = row, !.rank = g]
<1>1. q \in Requests /\ CallerShape(q) /\ q.at = "save" /\ q.op = o
  <2>1. row \in Rows
    BY DEF Ground, RosterOK
  <2> QED
    BY <2>1 DEF Calm, Requests, CallerShape, FrozenKinds
<1>2. BeginCommand(c, q) /\ phase = "member" /\ phase' = "member"
  BY DEF LoadMember, roster
<1> HIDE DEF q
<1>3. /\ CallersOK' /\ callers[c].at = "idle" /\ commands' \in 0 .. MaxCommands
      /\ \A d \in Callers : callers'[d] = IF d = c THEN q ELSE callers[d]
  BY <1>1, <1>2, Begun
<1>4. UNCHANGED <<roster, guild, switches, jobs, drain, fails, adrift>>
  BY DEF LoadMember
<1>5. Ground'
  BY <1>2, <1>3, <1>4
  DEF Ground, RosterOK, GuildOK, JobsOK, DrainOK, Early, RoleBounded, roster, guild
<1> QED
  BY <1>1, <1>3, <1>5 DEF Apart

\* What SaveMember leaves alone, as each handler does.
LEMMA SaveEffect ==
    ASSUME Ground, NEW c \in Callers, callers[c].at = "save",
           callers[c].op \in {"rank", "role", "ban"}, NEW new \in Rows,
           NEW n \in SUBSET GuildRoles, NEW o \in SUBSET GuildRoles,
           callers[c].op \in {"rank", "role"} => n # {} /\ n \subseteq Rostered /\ o = n,
           callers[c].op = "ban" => o = GuildRoles,
           SaveMember(c, new, n, o),
           UNCHANGED <<phase, awards, guild, switches, jobs, commands, fails>>
    PROVE  /\ Ground' /\ Apart(c) /\ callers'[c].at = "enqueue"
           /\ callers'[c].op = callers[c].op /\ callers'[c].names = n /\ callers'[c].owes = o
           /\ phase = "member"
<1>1. phase = "member"
  BY DEF Ground, Early
<1>2. /\ CallersOK' /\ Apart(c) /\ callers'[c].at = "enqueue"
      /\ callers'[c].op = callers[c].op /\ callers'[c].names = n /\ callers'[c].owes = o
  <2>1. callers' = [callers EXCEPT ![c].at = "enqueue", ![c].names = n, ![c].owes = o]
    BY DEF SaveMember
  <2>2. /\ callers[c].at \in {"save", "commit"} /\ callers[c].op # "unban"
        /\ callers[c].op # "derive" /\ callers[c].op # "approve"
        /\ callers[c].op \in {"rank", "role", "derive"} =>
             n # {} /\ n \subseteq Rostered /\ n \subseteq o
    OBVIOUS
  <2>3. /\ CallersOK' /\ \A d \in Callers : d # c => callers'[d] = callers[d]
        /\ callers'[c].at = "enqueue" /\ callers'[c].op = callers[c].op
        /\ callers'[c].names = n /\ callers'[c].owes = o
    BY <2>1, <2>2, Saved
  <2> QED
    BY <2>3 DEF Apart
<1>3. PICK R \in SUBSET GuildRoles : Drift(R)
  <2>1. Wanted \subseteq GuildRoles /\ Wants(phase, new, awards) \subseteq GuildRoles
    BY DesiredType DEF Ground, RosterOK, Wanted
  <2> QED
    BY <2>1 DEF SaveMember
<1>4. DrainOK' /\ adrift' \in SUBSET GuildRoles /\ drain'.at = drain.at /\ drain'.job = drain.job
  BY <1>3, Drifted DEF Ground, GuildOK
<1>5. row' = new
  BY DEF SaveMember
<1>6. Ground'
  BY <1>1, <1>2, <1>4, <1>5
  DEF Ground, RosterOK, GuildOK, JobsOK, Early, RoleBounded, guild
<1> QED
  BY <1>1, <1>2, <1>6

\* The edits of a row leave a row.
LEMMA RowEdits ==
    /\ \A k \in Rows, g \in Ranks : /\ [k EXCEPT !.rank = g] \in Rows
                                    /\ [k EXCEPT !.rank = g].rank = g
                                    /\ [k EXCEPT !.rank = g].banned = k.banned
                                    /\ [k EXCEPT !.rank = g].enrolled = k.enrolled
    /\ \A k \in Rows, b \in BOOLEAN : /\ [k EXCEPT !.enrolled = b] \in Rows
                                      /\ [k EXCEPT !.enrolled = b].rank = k.rank
                                      /\ [k EXCEPT !.enrolled = b].banned = k.banned
    /\ \A k \in Rows, b \in BOOLEAN : /\ [k EXCEPT !.banned = b] \in Rows
                                      /\ [k EXCEPT !.banned = b].rank = k.rank
                                      /\ [k EXCEPT !.banned = b].banned = b
    /\ \A k \in Rows : k.rank \in Ranks /\ k.enrolled \in BOOLEAN /\ k.banned \in BOOLEAN
  BY DEF Rows

\* A rank change saves the copy with the new rank.
LEMMA RankEffect ==
    ASSUME Ground, NEW c \in Callers, ChangeRank(c)
    PROVE  /\ Ground' /\ Apart(c) /\ callers'[c].at = "enqueue" /\ callers'[c].op = "rank"
           /\ callers[c].at = "save" /\ callers[c].copy \in Rows /\ callers[c].rank \in Ranks
           /\ callers'[c].names = {callers[c].copy.rank, callers[c].rank}
           /\ phase = "member"
<1>1. callers[c].op = "rank" /\ callers[c].at = "save"
  BY DEF ChangeRank, CallerAt
<1>2. callers[c].copy \in Rows /\ callers[c].rank \in Ranks
  BY <1>1 DEF Ground, CallersOK, CallerShape
<1> DEFINE new == [callers[c].copy EXCEPT !.rank = callers[c].rank]
           n == {callers[c].copy.rank, callers[c].rank}
<1>3. new \in Rows /\ n \subseteq Rostered /\ n # {} /\ n \in SUBSET GuildRoles
  BY <1>2, RowEdits, RoleSet
<1>4. /\ SaveMember(c, new, n, n)
      /\ UNCHANGED <<phase, awards, guild, switches, jobs, commands, fails>>
  BY DEF ChangeRank, RankScope
<1> HIDE DEF new, n
<1>5. /\ Ground' /\ Apart(c) /\ callers'[c].at = "enqueue"
      /\ callers'[c].op = callers[c].op /\ callers'[c].names = n /\ phase = "member"
  BY <1>1, <1>3, <1>4, SaveEffect
<1> QED
  BY <1>1, <1>2, <1>5 DEF n

\* A change of the Membership role saves the copy.
LEMMA RoleEffect ==
    ASSUME Ground, NEW c \in Callers, ChangeRole(c)
    PROVE  /\ Ground' /\ Apart(c) /\ callers'[c].at = "enqueue" /\ callers'[c].op = "role"
           /\ callers[c].at = "save" /\ callers[c].copy \in Rows
           /\ callers'[c].names = {"enrolled"} /\ phase = "member"
<1>1. callers[c].op = "role" /\ callers[c].at = "save"
  BY DEF ChangeRole, CallerAt
<1>2. callers[c].copy \in Rows
  BY <1>1 DEF Ground, CallersOK, CallerShape
<1> DEFINE new == [callers[c].copy EXCEPT !.enrolled = ~callers[c].copy.enrolled]
           n == {"enrolled"}
<1>3. new \in Rows
  <2>1. (~callers[c].copy.enrolled) \in BOOLEAN
    OBVIOUS
  <2> QED
    BY <1>2, <2>1, RowEdits
<1>4. n \subseteq Rostered /\ n # {} /\ n \in SUBSET GuildRoles
  BY RoleSet
<1>5. /\ SaveMember(c, new, n, n)
      /\ UNCHANGED <<phase, awards, guild, switches, jobs, commands, fails>>
  BY <1>2 DEF ChangeRole
<1> HIDE DEF new, n
<1>6. /\ Ground' /\ Apart(c) /\ callers'[c].at = "enqueue"
      /\ callers'[c].op = callers[c].op /\ callers'[c].names = n /\ phase = "member"
  BY <1>1, <1>3, <1>4, <1>5, SaveEffect
<1> QED
  BY <1>1, <1>2, <1>6 DEF n

\* A ban saves the copy, banned, and answers for every role.
LEMMA BanEffect ==
    ASSUME Ground, NEW c \in Callers, Ban(c)
    PROVE  /\ Ground' /\ Apart(c) /\ callers'[c].at = "enqueue" /\ callers'[c].op = "ban"
           /\ callers'[c].owes = GuildRoles /\ phase = "member" /\ row'.banned
<1>1. callers[c].op = "ban" /\ callers[c].at = "save"
  BY DEF Ban, CallerAt
<1>2. callers[c].copy \in Rows
  BY <1>1 DEF Ground, CallersOK, CallerShape
<1> DEFINE new == [callers[c].copy EXCEPT !.banned = TRUE]
<1>3. new \in Rows /\ new.banned
  BY <1>2, RowEdits
<1>4. /\ SaveMember(c, new, {}, GuildRoles)
      /\ UNCHANGED <<phase, awards, guild, switches, jobs, commands, fails>>
  BY DEF Ban
<1> HIDE DEF new
<1>5. /\ Ground' /\ Apart(c) /\ callers'[c].at = "enqueue"
      /\ callers'[c].op = callers[c].op /\ callers'[c].owes = GuildRoles /\ phase = "member"
  BY <1>1, <1>3, <1>4, SaveEffect
<1>6. row' = new
  BY <1>4 DEF SaveMember
<1> QED
  BY <1>1, <1>3, <1>5, <1>6

\* An unban gives every role up.
LEMMA UnbanEffect ==
    ASSUME Ground, NEW c \in Callers, Unban(c)
    PROVE  Ground' /\ Drift(GuildRoles)
<1>1. callers[c].op = "unban" /\ callers[c].at = "save" /\ Drift(GuildRoles) /\ ReturnCaller(c)
  BY DEF Unban, CallerAt
<1>2. callers[c].copy \in Rows /\ phase = "member"
  BY <1>1 DEF Ground, CallersOK, CallerShape, Early
<1>3. row' \in Rows
  BY <1>2, RowEdits DEF Unban
<1>4. CallersOK'
  BY <1>1, CalledBack
<1>5. DrainOK' /\ adrift' \in SUBSET GuildRoles /\ drain'.at = drain.at /\ drain'.job = drain.job
  BY <1>1, Drifted DEF Ground, GuildOK
<1>6. UNCHANGED <<phase, awards, guild, switches, jobs, commands, fails>>
  BY DEF Unban
<1>7. Ground'
  BY <1>2, <1>3, <1>4, <1>5, <1>6
  DEF Ground, RosterOK, GuildOK, JobsOK, Early, RoleBounded, guild
<1> QED
  BY <1>1, <1>7

\* An award commits and names the medal.
LEMMA AwardEffect ==
    ASSUME Ground, NEW c \in Callers, AwardMedal(c)
    PROVE  /\ Ground' /\ Apart(c) /\ callers[c].at # "enqueue" /\ callers'[c].at = "enqueue"
           /\ callers'[c].op = "medal" /\ callers'[c].names = {"medal"} /\ phase = "member"
<1> DEFINE q == [Calm EXCEPT !.op = "medal", !.at = "enqueue", !.names = {"medal"},
                             !.owes = {"medal"}]
<1>1. /\ q \in Requests /\ CallerShape(q) /\ q.at = "enqueue" /\ q.op = "medal"
      /\ q.names = {"medal"}
  BY RoleSet DEF Calm, Requests, CallerShape, FrozenKinds
<1>2. BeginCommand(c, q) /\ phase = "member" /\ phase' = "member" /\ awards' \in 0 .. MaxAwards
  BY DEF AwardMedal
<1> HIDE DEF q
<1>3. /\ CallersOK' /\ callers[c].at = "idle" /\ commands' \in 0 .. MaxCommands
      /\ \A d \in Callers : callers'[d] = IF d = c THEN q ELSE callers[d]
  BY <1>1, <1>2, Begun
<1>4. UNCHANGED <<phase, row, guild, switches, jobs, drain, fails, adrift>>
  BY DEF AwardMedal
<1>5. Ground'
  BY <1>2, <1>3, <1>4
  DEF Ground, RosterOK, GuildOK, JobsOK, DrainOK, Early, RoleBounded, guild
<1> QED
  BY <1>1, <1>2, <1>3, <1>5 DEF Apart

\* The order of the naturals.
RoleLess == {p \in Nat \X Nat : p[1] < p[2]}

\* A set of naturals has a least member.
LEMMA RoleLeast == ASSUME NEW T \in SUBSET Nat, T # {} PROVE \E n \in T : \A m \in T : n <= m
<1>1. OpToRel(<, Nat) = RoleLess
  BY DEF OpToRel, RoleLess
<1>2. \E n \in T : \A m \in T : ~(<<m, n>> \in RoleLess)
  BY <1>1, NatLessThanWellFounded, WFMin
<1>3. \A n, m \in Nat : m < n => <<m, n>> \in RoleLess
  BY DEF RoleLess
<1>4. \A n, m \in Nat : ~(m < n) => n <= m
  OBVIOUS
<1> QED
  BY <1>2, <1>3, <1>4

\* Adoption finds a rank or none.
LEMMA HighestRank == ASSUME NEW floor PROVE HighestHeld(floor) \in Ranks \cup {"none"}
<1>1. CASE HeldAbove(floor) = {}
  BY <1>1 DEF HighestHeld
<1>2. CASE HeldAbove(floor) # {}
  <2> DEFINE H == HeldAbove(floor)
             T == {Precedence(r) : r \in H}
  <2>1. H \subseteq Ranks
    BY DEF HeldAbove
  <2>2. \A r \in Ranks : Precedence(r) \in Nat
    <3> TAKE r \in Ranks
    <3>1. \E i \in DOMAIN Ladder : Ladder[i] = r
      BY DEF Ranks, ToSet
    <3>2. DOMAIN Ladder \subseteq Nat
      BY RoleSyncAssumption
    <3> QED
      BY <3>1, <3>2 DEF Precedence
  <2>3. T \in SUBSET Nat /\ T # {}
    BY <2>1, <2>2, <1>2
  <2> HIDE DEF T
  <2>4. PICK n \in T : \A m \in T : n <= m
    BY <2>3, RoleLeast
  <2>5. PICK r \in H : n = Precedence(r)
    BY <2>4 DEF T
  <2>6. \A s \in H : Precedence(r) <= Precedence(s)
    BY <2>4, <2>5 DEF T
  <2>7. HighestHeld(floor) \in H
    BY <2>5, <2>6, <1>2 DEF HighestHeld
  <2> QED
    BY <2>1, <2>7
<1> QED
  BY <1>1, <1>2

\* A derive reads the guild.
LEMMA DeriveEffect ==
    ASSUME Ground, NEW c \in Callers, Derive(c)
    PROVE  /\ Ground' /\ Apart(c) /\ callers[c].at # "enqueue" /\ callers'[c].at # "enqueue"
<1>1. PICK g \in Ranks \cup {"none"}, b \in BOOLEAN :
        BeginCommand(c, [Calm EXCEPT !.op = "derive", !.at = "commit", !.copy = row,
                                     !.rank = g, !.medal = b])
  <2>1. HighestHeld(Precedence(row.rank)) \in Ranks \cup {"none"}
    BY HighestRank
  <2>2. ("medal" \in worn /\ awards = 0) \in BOOLEAN
    OBVIOUS
  <2> QED
    BY <2>1, <2>2 DEF Derive
<1> DEFINE q == [Calm EXCEPT !.op = "derive", !.at = "commit", !.copy = row,
                             !.rank = g, !.medal = b]
<1>2. q \in Requests /\ CallerShape(q) /\ q.at = "commit" /\ q.op = "derive"
  <2>1. row \in Rows
    BY DEF Ground, RosterOK
  <2> QED
    BY <2>1 DEF Calm, Requests, CallerShape, FrozenKinds
<1>3. BeginCommand(c, q) /\ phase = "member" /\ phase' = "member"
  BY <1>1 DEF Derive, roster
<1> HIDE DEF q
<1>4. /\ CallersOK' /\ callers[c].at = "idle" /\ commands' \in 0 .. MaxCommands
      /\ \A d \in Callers : callers'[d] = IF d = c THEN q ELSE callers[d]
  BY <1>2, <1>3, Begun
<1>5. UNCHANGED <<roster, guild, switches, jobs, drain, fails, adrift>>
  BY DEF Derive
<1>6. Ground'
  BY <1>3, <1>4, <1>5
  DEF Ground, RosterOK, GuildOK, JobsOK, DrainOK, Early, RoleBounded, roster, guild
<1> QED
  BY <1>2, <1>4, <1>6 DEF Apart

\* What a derive saves is well formed.
LEMMA SavedDerived ==
    ASSUME Ground, NEW c \in Callers, NEW n \in SUBSET GuildRoles, NEW o \in SUBSET GuildRoles,
           callers[c].at = "commit", callers[c].op = "derive",
           callers' = [callers EXCEPT ![c].at = "enqueue", ![c].names = n, ![c].owes = o],
           n # {}, n \subseteq Rostered, n \subseteq o, o \subseteq n \cup {"medal"}
    PROVE  /\ CallersOK'
           /\ \A d \in Callers : d # c => callers'[d] = callers[d]
           /\ callers'[c].at = "enqueue" /\ callers'[c].op = callers[c].op
           /\ callers'[c].names = n /\ callers'[c].owes = o
<1>1. /\ callers[c].at \in {"save", "commit"}
      /\ (callers[c].op \in {"rank", "role", "derive"} =>
            n # {} /\ n \subseteq Rostered /\ n \subseteq o)
      /\ (callers[c].op \in {"rank", "role"} => o = n)
      /\ (callers[c].op = "derive" => o \subseteq n \cup {"medal"})
      /\ (callers[c].op = "ban" => o = GuildRoles)
      /\ (callers[c].op = "approve" => "applicant" \in o /\ o \subseteq Managed)
      /\ callers[c].op # "unban"
  OBVIOUS
<1> QED
  BY <1>1, Saved

\* A derive commits.
LEMMA DerivedEffect ==
    ASSUME Ground, NEW c \in Callers, DeriveCommit(c)
    PROVE  /\ Ground' /\ Apart(c) /\ callers'[c].at = "enqueue" /\ callers'[c].op = "derive"
           /\ callers[c].at = "commit" /\ callers[c].copy \in Rows /\ phase = "member"
           /\ callers'[c].names = {callers[c].copy.rank} \cup ({callers[c].rank} \ {"none"})
           /\ callers[c].medal => "medal" \in callers'[c].owes
           /\ callers'[c].names \subseteq callers'[c].owes
           /\ \E R \in SUBSET GuildRoles : Drift(R)
<1>1. callers[c].op = "derive" /\ callers[c].at = "commit"
  BY DEF DeriveCommit, CallerAt
<1>2. callers[c].copy \in Rows /\ callers[c].rank \in Ranks \cup {"none"} /\ phase = "member"
  <2>1. callers[c] \in Requests
    BY DEF Ground, CallersOK
  <2> QED
    BY <1>1, <2>1 DEF Ground, CallersOK, CallerShape, Early, Requests
<1> DEFINE n == {callers[c].copy.rank} \cup ({callers[c].rank} \ {"none"})
           o == n \cup (IF callers[c].medal THEN {"medal"} ELSE {})
<1>3. n \subseteq Rostered /\ n # {} /\ n \in SUBSET GuildRoles /\ o \in SUBSET GuildRoles
  BY <1>2, RowEdits, RoleSet
<1>4. callers' = [callers EXCEPT ![c].at = "enqueue", ![c].names = n, ![c].owes = o]
  BY DEF DeriveCommit
<1>5. n \subseteq o /\ o \subseteq n \cup {"medal"} /\ (callers[c].medal => "medal" \in o)
  OBVIOUS
<1>6. awards' \in 0 .. MaxAwards /\ row' \in Rows
  <2>1. awards' = awards \/ awards' = awards + 1
    BY DEF DeriveCommit
  <2>2. awards' <= MaxAwards
    BY DEF DeriveCommit
  <2>3. awards' \in 0 .. MaxAwards
    BY <2>1, <2>2, RoleSyncAssumption DEF Ground, RosterOK
  <2>4. row' \in Rows
    BY <1>2, RowEdits DEF DeriveCommit, Ground, RosterOK
  <2> QED
    BY <2>3, <2>4
<1> HIDE DEF n, o
<1>8. /\ CallersOK' /\ \A d \in Callers : d # c => callers'[d] = callers[d]
      /\ callers'[c].at = "enqueue" /\ callers'[c].op = callers[c].op
      /\ callers'[c].names = n /\ callers'[c].owes = o
  <2> QED
    BY <1>1, <1>3, <1>4, <1>5, SavedDerived
<1>7. PICK R \in SUBSET GuildRoles : Drift(R)
  <2>1. {row.rank} \subseteq GuildRoles
    BY RowEdits, RoleSet DEF Ground, RosterOK
  <2> QED
    BY <2>1 DEF DeriveCommit
<1>9. DrainOK' /\ adrift' \in SUBSET GuildRoles /\ drain'.at = drain.at /\ drain'.job = drain.job
  BY <1>7, Drifted DEF Ground, GuildOK
<1>10. UNCHANGED <<phase, guild, switches, jobs, commands, fails>>
  BY DEF DeriveCommit
<1>11. Ground'
  BY <1>2, <1>6, <1>8, <1>9, <1>10
  DEF Ground, RosterOK, GuildOK, JobsOK, Early, RoleBounded, guild
<1> QED
  BY <1>1, <1>2, <1>5, <1>7, <1>8, <1>11 DEF Apart, n

\* A request for the Applicant role is well formed.
LEMMA FrozenCall ==
    ASSUME NEW o \in FrozenKinds
    PROVE  LET q == [Calm EXCEPT !.op = o, !.at = "enqueue", !.owes = {"applicant"}]
           IN q \in Requests /\ CallerShape(q) /\ q.at = "enqueue" /\ q.op = o
  BY RoleSet DEF Calm, Requests, CallerShape, FrozenKinds

\* submit() and a decision against.
LEMMA FrozenEffect ==
    ASSUME Ground, NEW c \in Callers, NEW o \in FrozenKinds,
           phase # "member", phase' \in {"guest", "applicant"},
           BeginCommand(c, [Calm EXCEPT !.op = o, !.at = "enqueue", !.owes = {"applicant"}]),
           Drift(Crossed), UNCHANGED <<row, awards, guild, switches, jobs, fails>>
    PROVE  /\ Ground' /\ Apart(c) /\ callers[c].at # "enqueue" /\ callers'[c].at = "enqueue"
           /\ callers'[c].op = o
<1> DEFINE q == [Calm EXCEPT !.op = o, !.at = "enqueue", !.owes = {"applicant"}]
<1>1. q \in Requests /\ CallerShape(q) /\ q.at = "enqueue" /\ q.op = o
  BY FrozenCall
<1>2. BeginCommand(c, q)
  OBVIOUS
<1> HIDE DEF q
<1>3. /\ CallersOK' /\ callers[c].at = "idle" /\ commands' \in 0 .. MaxCommands
      /\ \A d \in Callers : callers'[d] = IF d = c THEN q ELSE callers[d]
  BY <1>1, <1>2, Begun DEF FrozenKinds
<1>4. Crossed \in SUBSET GuildRoles
  BY RoleSet DEF Crossed
<1>5. DrainOK' /\ adrift' \in SUBSET GuildRoles /\ drain'.at = drain.at /\ drain'.job = drain.job
  BY <1>4, Drifted DEF Ground, GuildOK
<1>6. Early'
  BY <1>1, <1>3, <1>5 DEF Ground, Early, FrozenKinds
<1>7. Ground'
  BY <1>3, <1>5, <1>6 DEF Ground, RosterOK, GuildOK, JobsOK, RoleBounded, guild
<1> QED
  BY <1>1, <1>3, <1>7 DEF Apart

\* An application is submitted.
LEMMA ApplyEffect ==
    ASSUME Ground, NEW c \in Callers, Apply(c)
    PROVE  /\ Ground' /\ Apart(c) /\ callers[c].at # "enqueue" /\ callers'[c].at = "enqueue"
           /\ callers'[c].op = "assign"
<1>1. /\ phase # "member" /\ phase' \in {"guest", "applicant"} /\ Drift(Crossed)
      /\ BeginCommand(c, [Calm EXCEPT !.op = "assign", !.at = "enqueue", !.owes = {"applicant"}])
      /\ UNCHANGED <<row, awards, guild, switches, jobs, fails>>
  BY DEF Apply
<1> QED
  BY <1>1, FrozenEffect DEF FrozenKinds

\* An application is declined.
LEMMA DeclineEffect ==
    ASSUME Ground, NEW c \in Callers, Decline(c)
    PROVE  /\ Ground' /\ Apart(c) /\ callers[c].at # "enqueue" /\ callers'[c].at = "enqueue"
           /\ callers'[c].op = "remove"
<1>1. /\ phase # "member" /\ phase' \in {"guest", "applicant"} /\ Drift(Crossed)
      /\ BeginCommand(c, [Calm EXCEPT !.op = "remove", !.at = "enqueue", !.owes = {"applicant"}])
      /\ UNCHANGED <<row, awards, guild, switches, jobs, fails>>
  BY DEF Decline
<1> QED
  BY <1>1, FrozenEffect DEF FrozenKinds

\* An approval reads the guild.
LEMMA ApproveEffect ==
    ASSUME Ground, NEW c \in Callers, Approve(c)
    PROVE  /\ Ground' /\ Apart(c) /\ callers[c].at # "enqueue" /\ callers'[c].at # "enqueue"
<1>1. PICK g \in Ranks \cup {"none"}, b \in BOOLEAN :
        BeginCommand(c, [Calm EXCEPT !.op = "approve", !.at = "commit", !.rank = g, !.medal = b])
  <2>1. (IF Readable THEN HighestHeld(Precedence(Entry)) ELSE "none") \in Ranks \cup {"none"}
    BY HighestRank
  <2>2. (Readable /\ "medal" \in worn) \in BOOLEAN
    OBVIOUS
  <2> QED
    BY <2>1, <2>2 DEF Approve
<1> DEFINE q == [Calm EXCEPT !.op = "approve", !.at = "commit", !.rank = g, !.medal = b]
<1>2. q \in Requests /\ CallerShape(q) /\ q.at = "commit" /\ q.op = "approve"
  BY DEF Calm, Requests, CallerShape, FrozenKinds
<1>3. BeginCommand(c, q)
  BY <1>1
<1> HIDE DEF q
<1>4. UNCHANGED <<roster, guild, switches, jobs, drain, fails, adrift>>
  BY DEF Approve
<1>5. /\ CallersOK' /\ callers[c].at = "idle" /\ commands' \in 0 .. MaxCommands
      /\ \A d \in Callers : callers'[d] = IF d = c THEN q ELSE callers[d]
  BY <1>2, <1>3, Begun
<1>6. Ground'
  BY <1>2, <1>4, <1>5
  DEF Ground, RosterOK, GuildOK, JobsOK, DrainOK, Early, RoleBounded, roster, guild
<1> QED
  BY <1>2, <1>5, <1>6 DEF Apart

\* approve(), where the applicant still waits.
Enlists(c) == CallerAt(c, "approve", "commit") /\ phase = "applicant" /\ ApproveCommit(c)

\* An approval commits: a member, with what they hold.
LEMMA EnlistsEffect ==
    ASSUME Ground, NEW c \in Callers, Enlists(c)
    PROVE  /\ Ground' /\ Apart(c) /\ callers'[c].at = "enqueue" /\ callers'[c].op = "approve"
           /\ callers[c].at = "commit" /\ phase' = "member" /\ ~row'.banned
           /\ callers'[c].owes = {"applicant"} \cup Desired("member", row', awards')
           /\ Drift(Crossed)
<1>1. callers[c].op = "approve" /\ callers[c].at = "commit"
  BY DEF Enlists, CallerAt
<1> DEFINE o == {"applicant"} \cup Desired("member", row', awards')
<1>2. /\ Drift(Crossed) /\ phase' = "member"
      /\ callers' = [callers EXCEPT ![c].at = "enqueue", ![c].owes = o]
      /\ UNCHANGED <<guild, switches, jobs, commands, fails>>
  BY DEF Enlists, ApproveCommit
<1>3. callers[c] \in Requests /\ callers \in [Callers -> Requests]
  BY DEF Ground, CallersOK
<1>4. row' \in Rows /\ ~row'.banned
  <2>1. callers[c].rank \in Ranks \cup {"none"}
    BY <1>3 DEF Requests
  <2>2. PICK enrolled \in BOOLEAN :
          row' = [rank |-> IF callers[c].rank = "none" THEN Entry ELSE callers[c].rank,
                  enrolled |-> enrolled, banned |-> FALSE]
    BY DEF Enlists, ApproveCommit
  <2> QED
    BY <2>1, <2>2, EntryRank DEF Rows
<1>5. awards' \in 0 .. MaxAwards
  <2>1. awards' \in {0, 1}
    BY DEF Enlists, ApproveCommit
  <2> QED
    BY <2>1, RoleSyncAssumption
<1>6. Desired("member", row', awards') \subseteq Rostered
  BY <1>4, DesiredType
<1>7. o \in SUBSET GuildRoles /\ "applicant" \in o /\ o \subseteq Managed
  BY <1>6, RoleSet
<1> HIDE DEF o
<1>8. callers[c].names \in SUBSET GuildRoles
  BY <1>3 DEF Requests
<1>9. callers' = [callers EXCEPT ![c].at = "enqueue", ![c].names = callers[c].names,
                                 ![c].owes = o]
  <2>1. [callers[c] EXCEPT !.at = "enqueue", !.owes = o]
          = [callers[c] EXCEPT !.at = "enqueue", !.names = callers[c].names, !.owes = o]
    BY <1>3 DEF Requests
  <2> QED
    BY <1>2, <1>3, <2>1
<1>10. /\ CallersOK' /\ \A d \in Callers : d # c => callers'[d] = callers[d]
       /\ callers'[c].at = "enqueue" /\ callers'[c].op = callers[c].op /\ callers'[c].owes = o
  <2>1. /\ callers[c].at \in {"save", "commit"} /\ callers[c].op # "unban"
        /\ callers[c].op \notin {"rank", "role", "ban", "derive"}
    BY <1>1
  <2> QED
    BY <2>1, <1>7, <1>8, <1>9, Saved
<1>11. DrainOK' /\ adrift' \in SUBSET GuildRoles
  <2>1. Crossed \in SUBSET GuildRoles
    BY RoleSet DEF Crossed
  <2> QED
    BY <2>1, <1>2, Drifted DEF Ground, GuildOK
<1>12. Ground'
  BY <1>2, <1>4, <1>5, <1>10, <1>11
  DEF Ground, RosterOK, GuildOK, JobsOK, Early, RoleBounded, guild
<1> QED
  BY <1>1, <1>2, <1>4, <1>10, <1>12 DEF Apart, o

\* ... and where somebody else has decided.
LEMMA LateEffect ==
    ASSUME Ground, NEW c \in Callers, ApproveCommit(c), phase # "applicant"
    PROVE  /\ Ground' /\ Apart(c) /\ callers[c].at # "enqueue" /\ callers'[c].at # "enqueue"
           /\ UNCHANGED <<roster, guild, switches, jobs, drain, adrift>>
<1>1. callers[c].at = "commit" /\ ReturnCaller(c)
  BY DEF ApproveCommit, CallerAt
<1>2. UNCHANGED <<roster, drain, adrift, guild, switches, jobs, commands, fails>>
  BY DEF ApproveCommit
<1>3. CallersOK' /\ \A d \in Callers : callers'[d] = IF d = c THEN Calm ELSE callers[d]
  BY <1>1, CalledBack
<1>4. Ground'
  BY <1>2, <1>3, CalmCaller
  DEF Ground, RosterOK, GuildOK, JobsOK, DrainOK, Early, RoleBounded, roster, guild
<1> QED
  BY <1>1, <1>2, <1>3, <1>4, CalmCaller DEF Apart

\* No job is not a job.
LEMMA NothingIsNone == Nothing \notin RoleJobs
  BY DEF Nothing, Job, RoleJobs, StepKinds, FrozenKinds

\* What a request queues.
LEMMA QueuesJobs ==
    ASSUME NEW q \in Requests, CallerShape(q), q.at = "enqueue"
    PROVE  /\ Queues(q) \in RoleJobs /\ JobShape(Queues(q))
           /\ QueuesThen(q) \in RoleJobs \/ QueuesThen(q) = Nothing
           /\ QueuesThen(q) \in RoleJobs => JobShape(QueuesThen(q))
           /\ Queues(q).owes \in SUBSET GuildRoles /\ QueuesThen(q).owes \in SUBSET GuildRoles
           /\ q.op \in {"rank", "role", "medal", "derive"} =>
                Queues(q).type = "scoped" /\ Queues(q).owes = q.names
           /\ q.op = "ban" => Queues(q).type = "ban" /\ Queues(q).owes = q.owes
           /\ q.op \in FrozenKinds => Queues(q).type = q.op
           /\ q.op = "approve" => Queues(q).type = "remove"
           /\ q.op \in {"assign", "remove", "approve"} => Queues(q).owes = {"applicant"}
           /\ q.op \in {"derive", "approve"} =>
                QueuesThen(q).type = "grant" /\ QueuesThen(q).owes = q.owes \ {"applicant"}
           /\ q.op \notin {"derive", "approve"} => QueuesThen(q) = Nothing
<1>1. q.op \in {"rank", "role", "ban", "medal", "derive", "assign", "remove", "approve"}
  BY DEF CallerShape, Requests
<1>2. CASE q.op \in {"rank", "role", "medal"}
  <2>1. q.names \in SUBSET Rostered
    BY <1>2 DEF CallerShape
  <2>2. Queues(q) = Job("scoped", q.names, q.names) /\ QueuesThen(q) = Nothing
    BY <1>2 DEF Queues, QueuesThen
  <2>3. /\ Queues(q) \in RoleJobs /\ JobShape(Queues(q)) /\ Queues(q).type = "scoped"
        /\ Queues(q).owes = q.names /\ QueuesThen(q).owes = {} /\ QueuesThen(q) = Nothing
    BY <2>1, <2>2, NewJobs
  <2>4. Nothing \notin RoleJobs
    BY NothingIsNone
  <2> QED
    BY <2>1, <2>3, <2>4, <1>2, RoleSet DEF FrozenKinds
<1>3. CASE q.op = "derive"
  <2>1. q.names \in SUBSET Rostered /\ q.owes \in SUBSET Rostered
    BY <1>3, RoleSet DEF CallerShape
  <2>2. Queues(q) = Job("scoped", q.names, q.names) /\ QueuesThen(q) = Job("grant", {}, q.owes)
    BY <1>3 DEF Queues, QueuesThen
  <2>3. q.owes \ {"applicant"} = q.owes
    BY <2>1, RoleSet
  <2>4. /\ Queues(q) \in RoleJobs /\ JobShape(Queues(q)) /\ Queues(q).type = "scoped"
        /\ Queues(q).owes = q.names /\ QueuesThen(q).owes = q.owes
        /\ QueuesThen(q) \in RoleJobs /\ JobShape(QueuesThen(q)) /\ QueuesThen(q).type = "grant"
    BY <2>1, <2>2, NewJobs
  <2> QED
    BY <2>1, <2>3, <2>4, <1>3, RoleSet DEF FrozenKinds
<1>4. CASE q.op = "ban"
  <2>1. q.owes \in SUBSET GuildRoles
    BY DEF Requests
  <2>2. Queues(q) = Job("ban", {}, q.owes) /\ QueuesThen(q) = Nothing
    BY <1>4 DEF Queues, QueuesThen
  <2>3. /\ Queues(q) \in RoleJobs /\ JobShape(Queues(q)) /\ Queues(q).type = "ban"
        /\ Queues(q).owes = q.owes /\ QueuesThen(q).owes = {} /\ QueuesThen(q) = Nothing
    BY <2>1, <2>2, NewJobs
  <2>4. Nothing \notin RoleJobs
    BY NothingIsNone
  <2> QED
    BY <2>1, <2>3, <2>4, <1>4, RoleSet DEF FrozenKinds
<1>5. CASE q.op \in FrozenKinds
  <2>2. Queues(q) = Job(q.op, {"applicant"}, {"applicant"}) /\ QueuesThen(q) = Nothing
    BY <1>5 DEF Queues, QueuesThen, FrozenKinds
  <2>3. /\ Queues(q) \in RoleJobs /\ JobShape(Queues(q)) /\ Queues(q).type = q.op
        /\ Queues(q).owes = {"applicant"} /\ QueuesThen(q).owes = {}
        /\ QueuesThen(q) = Nothing
    BY <2>2, <1>5, NewJobs
  <2>4. Nothing \notin RoleJobs
    BY NothingIsNone
  <2> QED
    BY <2>3, <2>4, <1>5, RoleSet DEF FrozenKinds
<1>6. CASE q.op = "approve"
  <2>1. q.owes \ {"applicant"} \in SUBSET Rostered
    BY <1>6, RoleSet DEF CallerShape
  <2>2. /\ Queues(q) = Job("remove", {"applicant"}, {"applicant"})
        /\ QueuesThen(q) = Job("grant", {}, q.owes \ {"applicant"})
    BY <1>6 DEF Queues, QueuesThen
  <2>3. Queues(q) \in RoleJobs /\ JobShape(Queues(q))
    BY <2>2, NewJobs DEF FrozenKinds
  <2>4. /\ Queues(q).type = "remove" /\ Queues(q).owes = {"applicant"}
        /\ QueuesThen(q).owes = q.owes \ {"applicant"}
        /\ QueuesThen(q) \in RoleJobs /\ JobShape(QueuesThen(q)) /\ QueuesThen(q).type = "grant"
    BY <2>1, <2>2, NewJobs
  <2> QED
    BY <2>1, <2>3, <2>4, <1>6, RoleSet DEF FrozenKinds
<1> QED
  BY <1>1, <1>2, <1>3, <1>4, <1>5, <1>6 DEF FrozenKinds

\* A request queues its jobs and returns.
LEMMA AfterEffect ==
    ASSUME Ground, NEW c \in Callers, AfterCommit(c)
    PROVE  /\ Ground' /\ Apart(c) /\ callers[c].at = "enqueue" /\ callers'[c].at # "enqueue"
           /\ callers[c] \in Requests /\ CallerShape(callers[c])
           /\ ToSet(jobs') = ToSet(jobs)
                \cup (IF Passes(Queues(callers[c])) THEN {Queues(callers[c])} ELSE {})
                \cup (IF Passes(QueuesThen(callers[c])) THEN {QueuesThen(callers[c])} ELSE {})
           /\ Drift(Lost(Queues(callers[c])) \cup Lost(QueuesThen(callers[c])))
           /\ Lost(Queues(callers[c])) \cup Lost(QueuesThen(callers[c])) \in SUBSET GuildRoles
<1> DEFINE q == callers[c]
           a == Queues(q)
           b == QueuesThen(q)
<1>1. q \in Requests /\ CallerShape(q) /\ q.at = "enqueue"
  BY DEF AfterCommit, Ground, CallersOK
<1>2. Enqueue(a, b) /\ ReturnCaller(c)
  BY DEF AfterCommit
<1>3. UNCHANGED <<roster, guild, switches, commands, fails>>
  BY DEF AfterCommit
<1>4. /\ a \in RoleJobs /\ JobShape(a) /\ (b \in RoleJobs \/ b = Nothing)
      /\ (b \in RoleJobs => JobShape(b)) /\ a.owes \in SUBSET GuildRoles
      /\ b.owes \in SUBSET GuildRoles
  <2> HIDE DEF q
  <2> QED
    BY <1>1, QueuesJobs
<1>5. phase # "member" => a.type \in FrozenKinds /\ b = Nothing
  <2>1. phase # "member" => q.op \in {"none", "assign", "remove"}
    BY <1>1 DEF Ground, Early
  <2>2. q.op # "none"
    BY <1>1 DEF CallerShape
  <2> HIDE DEF q
  <2> QED
    BY <2>1, <2>2, <1>1, QueuesJobs DEF FrozenKinds
<1> HIDE DEF a, b, q
<1>6. /\ JobsOK'
      /\ ToSet(jobs') = ToSet(jobs) \cup (IF Passes(a) THEN {a} ELSE {})
                                    \cup (IF Passes(b) THEN {b} ELSE {})
  BY <1>2, <1>4, QueuedJobs DEF Ground
<1>7. CallersOK' /\ \A d \in Callers : callers'[d] = IF d = c THEN Calm ELSE callers[d]
  BY <1>2, CalledBack
<1>8. Lost(a) \cup Lost(b) \in SUBSET GuildRoles /\ Drift(Lost(a) \cup Lost(b))
  BY <1>2, <1>4 DEF Lost, Enqueue
<1>9. DrainOK' /\ adrift' \in SUBSET GuildRoles /\ drain'.at = drain.at /\ drain'.job = drain.job
  BY <1>8, Drifted DEF Ground, GuildOK
<1>10. Early'
  <2>1. phase # "member" => \A j \in ToSet(jobs') : j.type \in FrozenKinds
    <3>1. ~Passes(Nothing)
      BY DEF Passes
    <3> QED
      BY <3>1, <1>5, <1>6 DEF Ground, Early
  <2> QED
    BY <2>1, <1>3, <1>7, <1>9, CalmCaller DEF Ground, Early, roster
<1>11. Ground'
  BY <1>3, <1>6, <1>7, <1>9, <1>10 DEF Ground, RosterOK, GuildOK, RoleBounded, roster, guild
<1> QED
  BY <1>1, <1>6, <1>7, <1>8, <1>11, CalmCaller DEF Apart, a, b, q

\* A job the worker passes over: its gate has closed, or nothing is wanted of anyone.
Skips(i) ==
    /\ jobs[i].type \notin FrozenKinds
    /\ ~GateOpen(jobs[i].type) \/ (jobs[i].type # "ban" /\ Untouchable)

\* What a job that starts answers for, and what it gives up.
Lifted(j) == IF j.type = "ban" /\ ~row.banned THEN GuildRoles ELSE {}
Cures(j) == CASE j.type = "scoped" -> j.names
              [] j.type = "grant" -> DesiredNow
              [] j.type = "resync" -> Rostered
              [] j.type = "ban" -> GuildRoles \ (Lifted(j) \cup {"applicant"})
              [] OTHER -> {}

\* A job of the queue is well formed.
LEMMA JobFacts ==
    ASSUME JobsOK, NEW i \in DOMAIN jobs
    PROVE  /\ jobs[i] \in ToSet(jobs) /\ jobs[i] \in RoleJobs /\ JobShape(jobs[i])
           /\ jobs[i].owes \in SUBSET GuildRoles /\ jobs[i].names \in SUBSET GuildRoles
           /\ jobs[i].type \in StepKinds
<1>1. jobs[i] \in ToSet(jobs) /\ jobs[i] \in RoleJobs
  BY DEF JobsOK, ToSet
<1> QED
  BY <1>1 DEF JobsOK, RoleJobs

\* The worker passes over a job.
LEMMA SkipEffect ==
    ASSUME Ground, NEW i \in DOMAIN jobs, Take(i), Skips(i)
    PROVE  /\ Ground' /\ drain.at = "idle" /\ drain' = drain /\ jobs' = RemoveAt(jobs, i)
           /\ adrift' = adrift \cup (IF GateOpen(jobs[i].type) THEN {} ELSE jobs[i].owes)
           /\ UNCHANGED <<roster, guild, switches, callers>>
<1>1. /\ drain.at = "idle" /\ jobs' = RemoveAt(jobs, i) /\ drain' = drain
      /\ adrift' = adrift \cup (IF GateOpen(jobs[i].type) THEN {} ELSE jobs[i].owes)
  BY DEF Take, Skips, FrozenKinds
<1>2. UNCHANGED <<roster, guild, switches, callers, commands, fails>>
  BY DEF Take
<1>3. jobs[i].owes \in SUBSET GuildRoles
  BY JobFacts DEF Ground
<1>4. jobs' \in Seq(RoleJobs) /\ ToSet(jobs') \subseteq ToSet(jobs)
  BY <1>1, TakenOut DEF Ground, JobsOK
<1>5. adrift' \in SUBSET GuildRoles
  BY <1>1, <1>3 DEF Ground, GuildOK
<1>6. Ground'
  BY <1>1, <1>2, <1>4, <1>5
  DEF Ground, RosterOK, GuildOK, JobsOK, DrainOK, CallersOK, Early, RoleBounded, roster, guild
<1> QED
  BY <1>1, <1>2, <1>6

\* The worker starts a job.
LEMMA StartEffect ==
    ASSUME Ground, NEW i \in DOMAIN jobs, Take(i), ~Skips(i)
    PROVE  /\ Ground' /\ drain.at = "idle" /\ jobs' = RemoveAt(jobs, i)
           /\ drain'.at = (IF jobs[i].type \in FrozenKinds THEN "call" ELSE "read")
           /\ drain'.job = jobs[i] /\ drain'.wanted = DesiredNow
           /\ drain'.add = (IF jobs[i].type = "assign" THEN jobs[i].names ELSE {})
           /\ drain'.drop = (IF jobs[i].type = "remove" THEN jobs[i].names ELSE {})
           /\ drain'.heals = Cures(jobs[i])
           /\ adrift' = adrift \cup Lifted(jobs[i])
           /\ UNCHANGED <<roster, guild, switches, callers>>
<1> DEFINE j == jobs[i]
           d == [at |-> IF j.type \in FrozenKinds THEN "call" ELSE "read", job |-> j,
                 wanted |-> DesiredNow, add |-> IF j.type = "assign" THEN j.names ELSE {},
                 drop |-> IF j.type = "remove" THEN j.names ELSE {}, heals |-> Cures(j)]
<1>1. /\ drain.at = "idle" /\ jobs' = RemoveAt(jobs, i)
      /\ drain' = [Idle EXCEPT
                      !.at = IF j.type \in {"assign", "remove"} THEN "call" ELSE "read",
                      !.job = j, !.wanted = DesiredNow,
                      !.add = IF j.type = "assign" THEN j.names ELSE {},
                      !.drop = IF j.type = "remove" THEN j.names ELSE {},
                      !.heals = CASE j.type = "scoped" -> j.names
                                  [] j.type = "grant" -> DesiredNow
                                  [] j.type = "resync" -> Managed \ {"applicant"}
                                  [] j.type = "ban" -> GuildRoles \ (Lifted(j) \cup {"applicant"})
                                  [] OTHER -> {}]
      /\ adrift' = adrift \cup Lifted(j)
  BY DEF Take, Skips, FrozenKinds, Lifted
<1>2. UNCHANGED <<roster, guild, switches, callers, commands, fails>>
  BY DEF Take
<1>3. /\ j \in ToSet(jobs) /\ j \in RoleJobs /\ JobShape(j)
      /\ j.names \in SUBSET GuildRoles /\ j.type \in StepKinds
  BY JobFacts DEF Ground
<1>4. drain' = d
  <2> HIDE DEF j
  <2> QED
    BY <1>1 DEF Idle, Cures, Rostered, FrozenKinds
<1>5. DesiredNow \in SUBSET GuildRoles /\ Cures(j) \in SUBSET GuildRoles
  <2>1. DesiredNow \in SUBSET GuildRoles
    BY DesiredType, RoleSet DEF Ground, RosterOK, DesiredNow
  <2> HIDE DEF j
  <2> QED
    BY <2>1, <1>3, RoleSet DEF Cures
<1>6. Lifted(j) \in SUBSET GuildRoles
  BY DEF Lifted
<1> HIDE DEF j
<1>7. /\ d \in Drains /\ d.job = j /\ d.at \in {"read", "call"}
      /\ (d.at = "read" => j.type \notin FrozenKinds)
  BY <1>3, <1>5 DEF Drains
<1>8. DrainOK'
  BY <1>3, <1>4, <1>7 DEF DrainOK
<1>9. jobs' \in Seq(RoleJobs) /\ ToSet(jobs') \subseteq ToSet(jobs)
  BY <1>1, TakenOut DEF Ground, JobsOK
<1>10. adrift' \in SUBSET GuildRoles
  BY <1>1, <1>6 DEF Ground, GuildOK
<1>11. Early'
  BY <1>2, <1>3, <1>4, <1>7, <1>9 DEF Ground, Early, roster
<1>12. Ground'
  BY <1>1, <1>2, <1>8, <1>9, <1>10, <1>11
  DEF Ground, RosterOK, GuildOK, JobsOK, CallersOK, RoleBounded, roster, guild
<1>13. /\ drain'.at = (IF j.type \in FrozenKinds THEN "call" ELSE "read")
       /\ drain'.job = j /\ drain'.wanted = DesiredNow
       /\ drain'.add = (IF j.type = "assign" THEN j.names ELSE {})
       /\ drain'.drop = (IF j.type = "remove" THEN j.names ELSE {})
       /\ drain'.heals = Cures(j)
  BY <1>4
<1> HIDE DEF d
<1> QED
  BY <1>1, <1>2, <1>12, <1>13 DEF j

\* What a dispatch that could not read the guild does not answer for.
Missed(readable, add) == IF readable \/ drain.job.type \notin {"resync", "ban"} THEN {}
                         ELSE drain.heals \ add

\* The worker reads the guild.
LEMMA FetchEffect ==
    ASSUME Ground, FetchMember
    PROVE  /\ Ground' /\ drain.at = "read"
           /\ \E readable \in BOOLEAN :
                LET seen == IF readable THEN worn ELSE {}
                    add == Additions(drain.job, drain.wanted, seen)
                IN /\ drain'.at = "call" /\ drain'.job = drain.job
                   /\ drain'.wanted = drain.wanted /\ drain'.add = add
                   /\ drain'.drop = Removals(drain.job, drain.wanted, readable, seen)
                   /\ drain'.heals = drain.heals \ Missed(readable, add)
                   /\ adrift' = adrift \cup Missed(readable, add)
           /\ UNCHANGED <<roster, guild, switches, callers, jobs>>
<1>1. PICK readable \in {present, FALSE} :
        LET seen == IF readable THEN worn ELSE {}
            add == Additions(drain.job, drain.wanted, seen)
        IN /\ drain' = [drain EXCEPT !.at = "call", !.add = add,
                          !.drop = Removals(drain.job, drain.wanted, readable, seen),
                          !.heals = @ \ Missed(readable, add)]
           /\ adrift' = adrift \cup Missed(readable, add)
           /\ fails' = IF present /\ ~readable THEN fails + 1 ELSE fails
           /\ fails' <= MaxFails
  BY DEF FetchMember, Missed
<1>2. drain.at = "read" /\ UNCHANGED <<roster, guild, switches, jobs, callers, commands>>
  BY DEF FetchMember
<1>3. readable \in BOOLEAN
  BY DEF Ground, GuildOK
<1> DEFINE seen == IF readable THEN worn ELSE {}
           add == Additions(drain.job, drain.wanted, seen)
           drop == Removals(drain.job, drain.wanted, readable, seen)
           missed == Missed(readable, add)
<1>4. /\ drain \in Drains /\ drain.job \in RoleJobs /\ drain.job.type \notin FrozenKinds
      /\ drain.wanted \in SUBSET GuildRoles /\ drain.heals \in SUBSET GuildRoles
      /\ drain.job.type \in StepKinds /\ drain.job.names \in SUBSET GuildRoles
  BY <1>2 DEF Ground, DrainOK, Drains, RoleJobs
<1>5. seen \in SUBSET GuildRoles
  BY DEF Ground, GuildOK
<1> HIDE DEF seen
<1>6. add \in SUBSET GuildRoles
  BY <1>4, <1>5, RoleSet DEF Additions
<1>7. drop \in SUBSET GuildRoles
  <2>1. drain.job.type \in {"scoped", "grant", "resync", "ban"}
    BY <1>4 DEF StepKinds, FrozenKinds
  <2> QED
    BY <2>1, <1>4, <1>5, RoleSet DEF Removals
<1> HIDE DEF add, drop
<1>8. missed \in SUBSET GuildRoles
  BY <1>4 DEF Missed
<1>9. /\ drain' = [drain EXCEPT !.at = "call", !.add = add, !.drop = drop, !.heals = @ \ missed]
      /\ adrift' = adrift \cup missed
  BY <1>1 DEF add, drop, seen
<1> HIDE DEF missed
<1>10. /\ drain' \in Drains /\ drain'.at = "call" /\ drain'.job = drain.job
       /\ drain'.wanted = drain.wanted /\ drain'.add = add /\ drain'.drop = drop
       /\ drain'.heals = drain.heals \ missed
  BY <1>4, <1>6, <1>7, <1>8, <1>9 DEF Drains
<1>11. DrainOK' /\ adrift' \in SUBSET GuildRoles
  BY <1>2, <1>8, <1>9, <1>10 DEF Ground, DrainOK, GuildOK
<1>12. fails' \in 0 .. MaxFails
  <2>1. fails' = fails \/ fails' = fails + 1
    BY <1>1
  <2> QED
    BY <2>1, <1>1, RoleSyncAssumption DEF Ground, RoleBounded
<1>13. Ground'
  BY <1>2, <1>10, <1>11, <1>12
  DEF Ground, RosterOK, GuildOK, JobsOK, CallersOK, Early, RoleBounded, roster, guild
<1> QED
  BY <1>2, <1>3, <1>9, <1>10, <1>13 DEF add, drop, seen, missed

\* One call to the gateway.
LEMMA GatewayEffect ==
    ASSUME Ground, NEW r \in GuildRoles, CallGateway(r)
    PROVE  /\ Ground' /\ drain.at = "call" /\ present /\ r \in drain.add \cup drain.drop
           /\ worn' = (IF r \in drain.add THEN worn \cup {r} ELSE worn \ {r})
           /\ drain'.at = drain.at /\ drain'.job = drain.job /\ drain'.wanted = drain.wanted
           /\ drain'.add = drain.add \ {r} /\ drain'.drop = drain.drop \ {r}
           /\ drain'.heals = drain.heals
           /\ UNCHANGED <<roster, present, switches, callers, jobs, adrift>>
<1>1. /\ drain.at = "call" /\ present
      /\ worn' = (IF r \in drain.add THEN worn \cup {r} ELSE worn \ {r})
      /\ drain' = [drain EXCEPT !.add = @ \ {r}, !.drop = @ \ {r}]
      /\ UNCHANGED <<roster, present, onboarded, switches, jobs, callers, commands, fails,
                     adrift>>
  BY DEF CallGateway
<1>2. r \in drain.add \cup drain.drop
  BY DEF CallGateway, Calls
<1>3. /\ drain \in Drains /\ drain.add \in SUBSET GuildRoles /\ drain.drop \in SUBSET GuildRoles
  BY DEF Ground, DrainOK, Drains
<1>4. /\ drain' \in Drains /\ drain'.at = drain.at /\ drain'.job = drain.job
      /\ drain'.wanted = drain.wanted /\ drain'.add = drain.add \ {r}
      /\ drain'.drop = drain.drop \ {r} /\ drain'.heals = drain.heals
  BY <1>1, <1>3 DEF Drains
<1>5. worn' \in SUBSET GuildRoles
  BY <1>1 DEF Ground, GuildOK
<1>6. Ground'
  BY <1>1, <1>4, <1>5
  DEF Ground, RosterOK, GuildOK, JobsOK, DrainOK, CallersOK, Early, RoleBounded, roster
<1> QED
  BY <1>1, <1>2, <1>4, <1>6

\* A call throws.
LEMMA FailEffect ==
    ASSUME Ground, CallFails
    PROVE  /\ Ground' /\ drain.at = "call" /\ drain' = Idle
           /\ drain.job \in RoleJobs /\ JobShape(drain.job)
           /\ \/ /\ jobs' = <<[drain.job EXCEPT !.tried = TRUE]>> \o jobs
                 /\ adrift' = adrift \cup (IF drain.job.type \in FrozenKinds THEN drain.job.owes
                                           ELSE {})
              \/ jobs' = jobs /\ adrift' = adrift \cup drain.job.owes
           /\ UNCHANGED <<roster, guild, switches, callers>>
<1> DEFINE j == drain.job
<1>1. /\ drain.at = "call" /\ drain' = Idle
      /\ UNCHANGED <<roster, guild, switches, callers, commands>>
  BY DEF CallFails
<1>2. /\ j \in RoleJobs /\ JobShape(j) /\ j.owes \in SUBSET GuildRoles
      /\ (phase # "member" => j.type \in FrozenKinds)
  BY <1>1 DEF Ground, DrainOK, RoleJobs, Early
<1>3. fails' \in 0 .. MaxFails
  <2>1. (fails < MaxFails /\ fails' = fails + 1) \/ fails' = fails
    BY DEF CallFails
  <2> QED
    BY <2>1, RoleSyncAssumption DEF Ground, RoleBounded
<1>4. \/ /\ jobs' = <<[j EXCEPT !.tried = TRUE]>> \o jobs
         /\ adrift' = adrift \cup (IF j.type \in FrozenKinds THEN j.owes ELSE {})
      \/ jobs' = jobs /\ adrift' = adrift \cup j.owes
  BY DEF CallFails, FrozenKinds
<1> HIDE DEF j
<1>5. jobs \in Seq(RoleJobs)
  BY DEF Ground, JobsOK
<1>6. PICK k \in RoleJobs : /\ k = [j EXCEPT !.tried = TRUE] /\ JobShape(k) /\ k.type = j.type
  BY <1>2, Retried
<1>7. /\ jobs' \in Seq(RoleJobs) /\ \A x \in ToSet(jobs') : x \in ToSet(jobs) \/ x = k
  <2>1. CASE jobs' = <<k>> \o jobs
    BY <2>1, <1>5, PutBack
  <2>2. CASE jobs' = jobs
    BY <2>2, <1>5
  <2> QED
    BY <2>1, <2>2, <1>4, <1>6
<1>8. JobsOK' /\ Early'
  BY <1>1, <1>2, <1>6, <1>7, IdleDrain DEF Ground, JobsOK, Early, roster
<1>9. DrainOK' /\ adrift' \in SUBSET GuildRoles
  BY <1>1, <1>2, <1>4, IdleDrain DEF DrainOK, Ground, GuildOK
<1>10. Ground'
  BY <1>1, <1>3, <1>8, <1>9
  DEF Ground, RosterOK, GuildOK, CallersOK, RoleBounded, roster, guild
<1> QED
  BY <1>1, <1>2, <1>4, <1>10 DEF j

\* A dispatch is over.
LEMMA DoneEffect ==
    ASSUME Ground, Done
    PROVE  /\ Ground' /\ drain.at = "call" /\ drain.add = {} /\ drain.drop = {} /\ drain' = Idle
           /\ adrift' = adrift \ drain.heals
           /\ UNCHANGED <<roster, guild, switches, callers, jobs>>
<1>1. /\ drain.at = "call" /\ drain.add = {} /\ drain.drop = {} /\ drain' = Idle
      /\ adrift' = adrift \ drain.heals
      /\ UNCHANGED <<roster, guild, switches, jobs, callers, commands, fails>>
  BY DEF Done
<1>2. DrainOK' /\ adrift' \in SUBSET GuildRoles
  BY <1>1, IdleDrain DEF DrainOK, Ground, GuildOK
<1>3. Ground'
  BY <1>1, <1>2, IdleDrain
  DEF Ground, RosterOK, GuildOK, JobsOK, CallersOK, Early, RoleBounded, roster, guild
<1> QED
  BY <1>1, <1>3

\* A role is given or taken by hand.
LEMMA HandEffect ==
    ASSUME Ground, NEW r \in Managed, ByHand(r)
    PROVE  /\ Ground' /\ Drift({r}) /\ (\A s \in GuildRoles \ {r} : s \in worn' <=> s \in worn)
           /\ UNCHANGED <<roster, switches, callers, jobs>>
<1>1. /\ Command /\ present /\ Drift({r})
      /\ worn' = (IF r \in worn THEN worn \ {r} ELSE worn \cup {r})
      /\ UNCHANGED <<roster, present, onboarded, switches, jobs, callers, fails>>
  BY DEF ByHand
<1>2. {r} \in SUBSET GuildRoles
  BY RoleSet
<1>3. DrainOK' /\ adrift' \in SUBSET GuildRoles /\ drain'.at = drain.at /\ drain'.job = drain.job
  BY <1>1, <1>2, Drifted DEF Ground, GuildOK
<1>4. worn' \in SUBSET GuildRoles
  BY <1>1, <1>2 DEF Ground, GuildOK
<1>5. commands' \in 0 .. MaxCommands
  BY <1>1, RoleSyncAssumption DEF Command, Ground, RoleBounded
<1>6. Ground'
  BY <1>1, <1>3, <1>4, <1>5
  DEF Ground, RosterOK, GuildOK, JobsOK, CallersOK, Early, RoleBounded, roster
<1> QED
  BY <1>1, <1>6

\* Somebody leaves the guild.
LEMMA LeaveEffect ==
    ASSUME Ground, Leave
    PROVE  /\ Ground' /\ Drift(worn) /\ worn \in SUBSET GuildRoles /\ worn' = {}
           /\ UNCHANGED <<roster, switches, callers, jobs>>
<1>1. /\ Command /\ Drift(worn) /\ worn' = {} /\ present' = FALSE
      /\ UNCHANGED <<roster, onboarded, switches, jobs, callers, fails>>
  BY DEF Leave
<1>2. worn \in SUBSET GuildRoles
  BY DEF Ground, GuildOK
<1>3. DrainOK' /\ adrift' \in SUBSET GuildRoles /\ drain'.at = drain.at /\ drain'.job = drain.job
  BY <1>1, <1>2, Drifted DEF Ground, GuildOK
<1>5. commands' \in 0 .. MaxCommands
  BY <1>1, RoleSyncAssumption DEF Command, Ground, RoleBounded
<1>6. Ground'
  BY <1>1, <1>3, <1>5
  DEF Ground, RosterOK, GuildOK, JobsOK, CallersOK, Early, RoleBounded, roster
<1> QED
  BY <1>1, <1>2, <1>6

\* Somebody joins: nothing, or one more job.
LEMMA JoinEffect ==
    ASSUME Ground, Join
    PROVE  /\ Ground' /\ ToSet(jobs) \subseteq ToSet(jobs')
           /\ \E R \in SUBSET GuildRoles : Drift(R)
           /\ UNCHANGED <<roster, worn, switches, callers>>
           /\ \/ jobs' = jobs
              \/ \E j \in RoleJobs : j.type \in {"grant", "ban"} /\ jobs' = jobs \o <<j>>
<1>1. Command /\ UNCHANGED <<roster, worn, switches, callers, fails>> /\ present' = TRUE
  BY DEF Join
<1>2. CASE UNCHANGED <<onboarded, jobs, drain, adrift>>
  <2>1. commands' \in 0 .. MaxCommands
    BY <1>1, RoleSyncAssumption DEF Command, Ground, RoleBounded
  <2>2. Ground'
    BY <1>1, <1>2, <2>1
    DEF Ground, RosterOK, GuildOK, JobsOK, DrainOK, CallersOK, Early, RoleBounded, roster
  <2>3. Drift({})
    <3>1. drain \in Drains
      BY DEF Ground, DrainOK
    <3>2. [drain EXCEPT !.heals = @ \ {}] = drain
      BY <3>1 DEF Drains
    <3> QED
      BY <3>2, <1>2 DEF Drift
  <2> QED
    BY <1>1, <1>2, <2>2, <2>3
<1>3. ASSUME NEW suspended \in BOOLEAN, onboarded' = TRUE, Enqueue(Restores(suspended), Nothing)
      PROVE  /\ Ground' /\ ToSet(jobs) \subseteq ToSet(jobs')
             /\ \E R \in SUBSET GuildRoles : Drift(R)
             /\ \/ jobs' = jobs
                \/ \E j \in RoleJobs : j.type \in {"grant", "ban"} /\ jobs' = jobs \o <<j>>
  <2> DEFINE j == Restores(suspended)
  <2>1. \/ j = Nothing
        \/ phase = "member" /\ j \in RoleJobs /\ JobShape(j) /\ j.type \in {"grant", "ban"}
    <3>1. CASE phase = "member" /\ row.banned
      <4>1. j = Job("ban", {}, {"ban"})
        BY <3>1 DEF Restores
      <4>2. {"ban"} \in SUBSET GuildRoles
        BY RoleSet
      <4> QED
        BY <3>1, <4>1, <4>2, NewJobs
    <3>2. CASE phase = "member" /\ ~row.banned /\ ~suspended
      <4>1. j = Job("grant", {}, Wanted)
        BY <3>2 DEF Restores
      <4>2. Wanted \in SUBSET Rostered
        <5>1. row \in Rows
          BY DEF Ground, RosterOK
        <5>2. Desired(phase, row, awards) \subseteq Rostered /\ Wanted = Desired(phase, row, awards)
          BY <5>1, <3>2, DesiredType DEF Wanted
        <5> QED
          BY <5>2
      <4> QED
        BY <3>2, <4>1, <4>2, NewJobs
    <3>3. CASE phase # "member" \/ (~row.banned /\ suspended)
      BY <3>3 DEF Restores
    <3> QED
      BY <3>1, <3>2, <3>3
  <2> HIDE DEF j
  <2>2. j.owes \in SUBSET GuildRoles /\ (j \in RoleJobs => JobShape(j)) /\ Nothing.owes = {}
    BY <2>1, NewJobs, NothingIsNone DEF RoleJobs
  <2>3. Enqueue(j, Nothing)
    BY <1>3 DEF j
  <2>4. /\ JobsOK'
        /\ ToSet(jobs') = ToSet(jobs) \cup (IF Passes(j) THEN {j} ELSE {})
                                      \cup (IF Passes(Nothing) THEN {Nothing} ELSE {})
    BY <2>1, <2>2, <2>3, NothingIsNone, QueuedJobs DEF Ground
  <2>5. ~Passes(Nothing)
    BY DEF Passes
  <2>6. /\ Drift(Lost(j) \cup Lost(Nothing)) /\ Lost(j) \cup Lost(Nothing) \in SUBSET GuildRoles
        /\ jobs' = jobs \o Kept(j) \o Kept(Nothing)
    BY <2>2, <2>3 DEF Enqueue, Lost
  <2>7. DrainOK' /\ adrift' \in SUBSET GuildRoles /\ drain'.at = drain.at /\ drain'.job = drain.job
    BY <2>6, Drifted DEF Ground, GuildOK
  <2>8. Early'
    BY <1>1, <2>1, <2>4, <2>5, <2>7 DEF Ground, Early, Passes, roster
  <2>9. commands' \in 0 .. MaxCommands
    BY <1>1, RoleSyncAssumption DEF Command, Ground, RoleBounded
  <2>10. Ground'
    BY <1>1, <1>3, <2>4, <2>7, <2>8, <2>9
    DEF Ground, RosterOK, GuildOK, CallersOK, RoleBounded, roster
  <2>11. \/ jobs' = jobs
         \/ j \in RoleJobs /\ j.type \in {"grant", "ban"} /\ jobs' = jobs \o <<j>>
    <3>1. jobs \in Seq(RoleJobs) /\ Kept(Nothing) = <<>>
      BY <2>5 DEF Ground, JobsOK, Kept
    <3>2. CASE Passes(j)
      <4>1. Kept(j) = <<j>> /\ j \in RoleJobs /\ j.type \in {"grant", "ban"}
        BY <3>2, <2>1 DEF Kept, Passes
      <4>2. jobs \o <<j>> \in Seq(RoleJobs)
        BY <3>1, <4>1, RoleAppended
      <4>3. (jobs \o <<j>>) \o <<>> = jobs \o <<j>>
        BY <4>2, ConcatEmptySeq
      <4> QED
        BY <2>6, <3>1, <4>1, <4>3
    <3>3. CASE ~Passes(j)
      <4>1. Kept(j) = <<>>
        BY <3>3 DEF Kept
      <4>2. jobs \o <<>> = jobs
        BY <3>1, ConcatEmptySeq
      <4> QED
        BY <2>6, <3>1, <4>1, <4>2
    <3> QED
      BY <3>2, <3>3
  <2> QED
    BY <2>4, <2>6, <2>10, <2>11
<1> QED
  BY <1>1, <1>2, <1>3 DEF Join

\* A resync is queued.
LEMMA ResyncEffect ==
    ASSUME Ground, Resync
    PROVE  /\ Ground' /\ ToSet(jobs) \subseteq ToSet(jobs')
           /\ jobs' = jobs \o <<Job("resync", {}, {})>>
           /\ UNCHANGED <<roster, guild, switches, callers, drain, adrift>>
<1>1. /\ Command /\ phase = "member" /\ jobs' = Append(jobs, Job("resync", {}, {}))
      /\ UNCHANGED <<roster, guild, switches, drain, callers, fails, adrift>>
  BY DEF Resync
<1>2. jobs \in Seq(RoleJobs) /\ Job("resync", {}, {}) \in RoleJobs
      /\ JobShape(Job("resync", {}, {}))
  BY NewJobs DEF Ground, JobsOK
<1>3. jobs' = jobs \o <<Job("resync", {}, {})>>
  BY <1>1, <1>2
<1>4. jobs' \in Seq(RoleJobs) /\ ToSet(jobs') = ToSet(jobs) \cup {Job("resync", {}, {})}
  BY <1>2, <1>3, RoleAppended
<1>5. commands' \in 0 .. MaxCommands
  BY <1>1, RoleSyncAssumption DEF Command, Ground, RoleBounded
<1>6. Ground'
  BY <1>1, <1>2, <1>4, <1>5
  DEF Ground, RosterOK, GuildOK, JobsOK, DrainOK, CallersOK, Early, RoleBounded, roster, guild
<1> QED
  BY <1>1, <1>3, <1>4, <1>6

\* A switch is turned.
LEMMA SwitchEffect ==
    ASSUME Ground, NEW s \in {"bot", "sync", "strip"}, Switch(s)
    PROVE  /\ Ground' /\ UNCHANGED <<roster, guild, jobs, callers, drain, adrift>>
<1>1. /\ Command /\ switches' = [switches EXCEPT ![s] = ~@]
      /\ UNCHANGED <<roster, guild, jobs, drain, callers, fails, adrift>>
  BY DEF Switch
<1>2. switches' \in [bot : BOOLEAN, sync : BOOLEAN, strip : BOOLEAN]
  BY <1>1 DEF Ground, GuildOK
<1>5. commands' \in 0 .. MaxCommands
  BY <1>1, RoleSyncAssumption DEF Command, Ground, RoleBounded
<1>6. Ground'
  BY <1>1, <1>2, <1>5
  DEF Ground, RosterOK, GuildOK, JobsOK, DrainOK, CallersOK, Early, RoleBounded, roster, guild
<1> QED
  BY <1>1, <1>6

\* The process dies: requests are lost, the job in hand goes back.
LEMMA RestartEffect ==
    ASSUME Ground, RolesCrash
    PROVE  /\ Ground' /\ drain' = Idle /\ callers' = [c \in Callers |-> Calm]
           /\ \A c \in Callers : callers[c].owes \subseteq adrift'
           /\ adrift \subseteq adrift'
           /\ \/ drain.at = "idle" /\ jobs' = jobs
              \/ /\ drain.at # "idle" /\ jobs' = <<[drain.job EXCEPT !.tried = TRUE]>> \o jobs
                 /\ drain.job \in RoleJobs /\ JobShape(drain.job)
                 /\ drain.job.type \in FrozenKinds => drain.job.owes \subseteq adrift'
           /\ UNCHANGED <<roster, worn, switches>>
<1> DEFINE j == drain.job
<1>1. /\ Command /\ drain' = Idle /\ callers' = [c \in Callers |-> Calm] /\ onboarded' = FALSE
      /\ UNCHANGED <<roster, present, worn, switches, fails>>
  BY DEF RolesCrash
<1>2. \/ drain.at = "idle" /\ jobs' = jobs
      \/ drain.at # "idle" /\ jobs' = <<[j EXCEPT !.tried = TRUE]>> \o jobs
  BY DEF RolesCrash
<1>3. adrift' = adrift \cup (UNION {callers[c].owes : c \in Callers})
                  \cup (IF drain.at # "idle" /\ j.type \in FrozenKinds THEN j.owes ELSE {})
  BY DEF RolesCrash, FrozenKinds
<1>4. drain.at # "idle" => /\ j \in RoleJobs /\ JobShape(j) /\ j.owes \in SUBSET GuildRoles
                           /\ (phase # "member" => j.type \in FrozenKinds)
  BY DEF Ground, DrainOK, RoleJobs, Early
<1> HIDE DEF j
<1>5. jobs \in Seq(RoleJobs)
  BY DEF Ground, JobsOK
<1>6. JobsOK' /\ Early'
  <2>1. CallersOK' /\ \A c \in Callers : callers'[c] = Calm
    BY <1>1, CalmCaller DEF CallersOK
  <2>2. CASE drain.at = "idle"
    BY <2>1, <2>2, <1>1, <1>2, IdleDrain, CalmCaller DEF Ground, JobsOK, Early, roster
  <2>3. CASE drain.at # "idle"
    <3>1. PICK k \in RoleJobs : k = [j EXCEPT !.tried = TRUE] /\ JobShape(k) /\ k.type = j.type
      BY <2>3, <1>4, Retried
    <3>2. jobs' \in Seq(RoleJobs) /\ ToSet(jobs') = ToSet(jobs) \cup {k}
      <4>1. jobs' = <<k>> \o jobs
        BY <2>3, <3>1, <1>2
      <4> QED
        BY <4>1, <1>5, PutBack
    <3> QED
      BY <2>1, <2>3, <3>1, <3>2, <1>1, <1>4, IdleDrain, CalmCaller
      DEF Ground, JobsOK, Early, roster
  <2> QED
    BY <2>2, <2>3
<1>7. CallersOK'
  BY <1>1, CalmCaller DEF CallersOK
<1>8. DrainOK'
  BY <1>1, IdleDrain DEF DrainOK
<1>9. adrift' \in SUBSET GuildRoles
  <2> DEFINE owed == UNION {callers[c].owes : c \in Callers}
             extra == IF drain.at # "idle" /\ j.type \in FrozenKinds THEN j.owes ELSE {}
  <2>1. \A c \in Callers : callers[c].owes \in SUBSET GuildRoles
    BY DEF Ground, CallersOK, Requests
  <2>2. UNION {callers[c].owes : c \in Callers} \in SUBSET GuildRoles
    BY <2>1
  <2>3. adrift \in SUBSET GuildRoles
    BY DEF Ground, GuildOK
  <2>4. (IF drain.at # "idle" /\ j.type \in FrozenKinds THEN j.owes ELSE {})
           \in SUBSET GuildRoles
    BY <1>4
  <2> HIDE DEF owed, extra
  <2>5. owed \in SUBSET GuildRoles /\ extra \in SUBSET GuildRoles
    BY <2>2, <2>4 DEF owed, extra
  <2>6. adrift' = adrift \cup owed \cup extra
    BY <1>3 DEF owed, extra
  <2> QED
    BY <2>3, <2>5, <2>6
<1>10. commands' \in 0 .. MaxCommands
  BY <1>1, RoleSyncAssumption DEF Command, Ground, RoleBounded
<1>11. Ground'
  BY <1>1, <1>6, <1>7, <1>8, <1>9, <1>10 DEF Ground, RosterOK, GuildOK, RoleBounded, roster
<1>12. (\A c \in Callers : callers[c].owes \subseteq adrift') /\ adrift \subseteq adrift'
  BY <1>3
<1>13. \/ drain.at = "idle" /\ jobs' = jobs
       \/ /\ drain.at # "idle" /\ jobs' = <<[j EXCEPT !.tried = TRUE]>> \o jobs
          /\ j \in RoleJobs /\ JobShape(j)
          /\ j.type \in FrozenKinds => j.owes \subseteq adrift'
  <2>1. drain.at # "idle" /\ j.type \in FrozenKinds => j.owes \subseteq adrift'
    BY <1>3
  <2> QED
    BY <2>1, <1>2, <1>4
<1> QED
  BY <1>1, <1>11, <1>12, <1>13 DEF j

(***************************************************************************)
(* The roles a dispatch decides about when it drains.                      *)
(***************************************************************************)
\* The roles a dispatch decides about when it drains: all but the Applicant's.
Ruled == Rostered \cup {"ban"}
Banned == phase = "member" /\ row.banned
RoleAsks(c, ops) == callers[c].at = "enqueue" /\ callers[c].op \in ops
RoleNames == {"rank", "role", "medal", "derive"}

\* Somebody will decide about the role, whatever the roster then wants,
Strong(r) ==
    \/ \E c \in Callers : RoleAsks(c, RoleNames) /\ r \in callers[c].names
    \/ \E j \in ToSet(jobs) : j.type = "scoped" /\ r \in j.owes
\* give it, if the roster wants it,
Weak(r) ==
    \/ \E c \in Callers : RoleAsks(c, {"derive", "approve"}) /\ r \in callers[c].owes
    \/ \E j \in ToSet(jobs) : j.type = "grant" /\ r \in j.owes
\* or take it, and give the ban.
Banning(r) ==
    \/ \E c \in Callers : RoleAsks(c, {"ban"}) /\ r \in callers[c].owes
    \/ \E j \in ToSet(jobs) : j.type = "ban" /\ r \in j.owes
\* Under a ban only ban jobs count; they read the guild when they run.
Claimed(r) == IF Banned THEN Banning(r) ELSE Strong(r) \/ (r \in Wanted /\ Weak(r))
Counts(j, r) == IF Banned THEN j.type = "ban"
                ELSE j.type = "scoped" \/ (j.type = "grant" /\ r \in Wanted)
\* The dispatch under way was queued for this role.
RolesHeld(r) == /\ drain.at # "idle" /\ r \in drain.heals /\ r \in drain.job.owes
           /\ Counts(drain.job, r)
Right(r) == r \in worn <=> r \in Wanted

\* The four ways in which a role is seen to.
Answered(r) == r \in adrift \/ Right(r) \/ Claimed(r) \/ RolesHeld(r)
\* What the dispatch wants, and whether it gets there.
Aim == IF drain.job.type = "ban" THEN {"ban"} ELSE drain.wanted
Heading(r) == IF r \in Wanted THEN r \in worn \/ r \in drain.add
              ELSE r \notin worn \/ r \in drain.drop
\* A dispatch that says it heals a role does, or the role is claimed again.
Healing(r) ==
    drain.at # "idle" /\ r \in drain.heals =>
      \/ Claimed(r)
      \/ drain.at = "read" /\ (r \in Aim <=> r \in Wanted)
      \/ drain.at = "call" /\ Heading(r)
\* A dispatch touches only what it reaches, and does no harm.
Reaches == CASE drain.job.type = "scoped" -> drain.job.names
             [] drain.job.type = "grant" -> drain.wanted
             [] drain.job.type = "resync" -> Rostered \cup drain.wanted
             [] OTHER -> GuildRoles
Proper(r) == (r \in drain.add => r \in Wanted) /\ (r \in drain.drop => r \notin Wanted)
Harmless(r) ==
    /\ drain.at = "read" => /\ r \in drain.heals => r \in Reaches
                            /\ r \in drain.heals \/ r \in adrift \/ r \notin Reaches
    /\ drain.at = "call" => \/ r \in adrift /\ r \notin drain.heals
                            \/ Claimed(r) \/ Proper(r)
Followed(r) == Answered(r) /\ Healing(r) /\ Harmless(r)
\* The rule of every role but the Applicant's.
RuleInv == \A r \in Ruled : Followed(r)

\* A step that leaves the dispatch alone but for what it gives up.
Drifts(R) ==
    /\ adrift' = adrift \cup R /\ drain'.heals = drain.heals \ R
    /\ drain'.at = drain.at /\ drain'.job = drain.job /\ drain'.wanted = drain.wanted
    /\ drain'.add = drain.add /\ drain'.drop = drain.drop
\* What is claimed stays claimed; nothing else about the role changes.
StillClaimed(r) == /\ (Strong(r) => Strong(r)') /\ (Weak(r) => Weak(r)')
                   /\ Banning(r) => Banning(r)'
Unmoved(r) == Banned' = Banned /\ (r \in Wanted' <=> r \in Wanted) /\ (r \in worn' <=> r \in worn)

\* A request that moves on before its enqueue drops no claim.
LEMMA FreshClaims ==
    ASSUME NEW c \in Callers, Apart(c), callers[c].at # "enqueue",
           ToSet(jobs) \subseteq ToSet(jobs'), NEW r
    PROVE  StillClaimed(r)
<1>1. \A d \in Callers : \A ops : RoleAsks(d, ops) => RoleAsks(d, ops)' /\ callers'[d] = callers[d]
  BY DEF RoleAsks, Apart
<1>2. Strong(r) => Strong(r)'
  BY <1>1 DEF Strong
<1>3. Weak(r) => Weak(r)'
  BY <1>1 DEF Weak
<1>4. Banning(r) => Banning(r)'
  BY <1>1 DEF Banning
<1> QED
  BY <1>2, <1>3, <1>4 DEF StillClaimed

\* Claims stay while requests do and jobs are only added.
LEMMA KeptClaims ==
    ASSUME callers' = callers, ToSet(jobs) \subseteq ToSet(jobs'), NEW r
    PROVE  StillClaimed(r)
  BY DEF StillClaimed, Strong, Weak, Banning, RoleAsks

\* Anything but the drain moves.
LEMMA QuietRow ==
    ASSUME NEW r, Followed(r), NEW R, Drifts(R),
           r \in R \/ Claimed(r)' \/ (StillClaimed(r) /\ Unmoved(r))
    PROVE  Followed(r)'
<1>1. Reaches' = Reaches /\ Aim' = Aim
  BY DEF Reaches, Aim, Drifts
<1>0. /\ r \in drain'.heals => r \in drain.heals
      /\ r \notin R => /\ r \in drain'.heals <=> r \in drain.heals
                       /\ r \in adrift' <=> r \in adrift
      /\ r \in adrift => r \in adrift'
      /\ r \in R => r \in adrift' /\ r \notin drain'.heals
      /\ drain'.at = drain.at /\ drain'.job = drain.job
      /\ drain'.add = drain.add /\ drain'.drop = drain.drop
  BY DEF Drifts
<1>2. CASE r \in R
  BY <1>2, <1>0 DEF Followed, Answered, Healing, Harmless
<1>3. CASE Claimed(r)'
  <2>1. Answered(r)' /\ Healing(r)'
    BY <1>3 DEF Answered, Healing
  <2>2. Harmless(r)'
    <3>1. CASE r \in R
      BY <3>1, <1>0 DEF Harmless
    <3>2. CASE r \notin R
      BY <3>2, <1>3, <1>1, <1>0 DEF Harmless, Followed
    <3> QED
      BY <3>1, <3>2
  <2> QED
    BY <2>1, <2>2 DEF Followed
<1>4. CASE StillClaimed(r) /\ Unmoved(r) /\ r \notin R
  <2>1. Claimed(r) => Claimed(r)'
    BY <1>4 DEF Claimed, StillClaimed, Unmoved
  <2>2. Counts(drain.job, r) => Counts(drain.job, r)'
    BY <1>0, <1>4 DEF Counts, Unmoved
  <2>3. Answered(r)'
    <3>1. r \in adrift \/ Right(r) \/ Claimed(r) \/ RolesHeld(r)
      BY DEF Followed, Answered
    <3>2. Right(r) => Right(r)'
      BY <1>4 DEF Right, Unmoved
    <3>3. RolesHeld(r) => RolesHeld(r)'
      BY <1>4, <1>0, <2>2 DEF RolesHeld
    <3> QED
      BY <3>1, <3>2, <3>3, <2>1, <1>4, <1>0 DEF Answered
  <2>4. Healing(r)'
    <3>1. Heading(r) => Heading(r)'
      BY <1>4, <1>0 DEF Heading, Unmoved
    <3>2. r \in Wanted' <=> r \in Wanted
      BY <1>4 DEF Unmoved
    <3> QED
      BY <3>1, <3>2, <2>1, <1>4, <1>1, <1>0 DEF Followed, Healing
  <2>5. Harmless(r)'
    <3>1. Proper(r) => Proper(r)'
      BY <1>4, <1>0 DEF Proper, Unmoved
    <3> QED
      BY <3>1, <2>1, <1>4, <1>1, <1>0 DEF Followed, Harmless
  <2> QED
    BY <2>3, <2>4, <2>5 DEF Followed
<1> QED
  BY <1>2, <1>3, <1>4

\* Every role but the Applicant's.
LEMMA RuledRoles == /\ Ruled \subseteq GuildRoles /\ "applicant" \notin Ruled
                    /\ Rostered \subseteq Ruled /\ Ruled' = Ruled
  BY RoleSet DEF Ruled, Rostered, Managed, Ranks

\* So the rules hold after it, if each role is given up, claimed, or as before.
LEMMA DriftRules ==
    ASSUME Ground, RuleInv, NEW R \in SUBSET GuildRoles, Drift(R),
           \A r \in Ruled : r \in R \/ Claimed(r)' \/ (StillClaimed(r) /\ Unmoved(r))
    PROVE  RuleInv'
<1>1. Drifts(R)
  BY Drifted DEF Ground, GuildOK, Drifts
<1>2. ASSUME NEW r \in Ruled PROVE Followed(r)'
  <2>1. Followed(r)
    BY DEF RuleInv
  <2>2. r \in R \/ Claimed(r)' \/ (StillClaimed(r) /\ Unmoved(r))
    OBVIOUS
  <2> QED
    BY <1>1, <2>1, <2>2, QuietRow
<1> QED
  BY <1>2, RuledRoles DEF RuleInv

\* The same of a step that gives nothing up.
LEMMA StillRules ==
    ASSUME RuleInv, UNCHANGED <<drain, adrift>>,
           \A r \in Ruled : Claimed(r)' \/ (StillClaimed(r) /\ Unmoved(r))
    PROVE  RuleInv'
<1>1. Drifts({})
  BY DEF Drifts
<1>2. ASSUME NEW r \in Ruled PROVE Followed(r)'
  <2>1. Followed(r)
    BY DEF RuleInv
  <2>2. Claimed(r)' \/ (StillClaimed(r) /\ Unmoved(r))
    OBVIOUS
  <2> QED
    BY <1>1, <2>1, <2>2, QuietRow
<1> QED
  BY <1>2, RuledRoles DEF RuleInv

\* Roles whose roster and guild stay do not move.
LEMMA SameRoster ==
    ASSUME UNCHANGED <<roster, worn>>, NEW r
    PROVE  Unmoved(r)
  BY DEF roster, Banned, Wanted, Unmoved

\* A request that only reads.
LEMMA ReadingRules ==
    ASSUME RuleInv, NEW c \in Callers, Apart(c), callers[c].at # "enqueue",
           UNCHANGED <<roster, worn, jobs, drain, adrift>>
    PROVE  RuleInv'
<1>1. \A r \in Ruled : StillClaimed(r)
  BY FreshClaims
<1>2. \A r \in Ruled : Unmoved(r)
  BY SameRoster
<1> QED
  BY <1>1, <1>2, StillRules

\* The rules survive a load ...
LEMMA LoadRules ==
    ASSUME Ground, RuleInv, NEW c \in Callers, NEW o \in {"rank", "role", "ban", "unban"},
           NEW g \in Ranks \cup {"none"}, o = "rank" => g \in Ranks, LoadMember(c, o, g)
    PROVE  RuleInv'
<1>1. Apart(c) /\ callers[c].at # "enqueue"
  BY LoadEffect
<1>2. UNCHANGED <<roster, worn, jobs, drain, adrift>>
  BY DEF LoadMember, guild
<1> QED
  BY <1>1, <1>2, ReadingRules

\* ... a derive ...
LEMMA DeriveRules ==
    ASSUME Ground, RuleInv, NEW c \in Callers, Derive(c)
    PROVE  RuleInv'
<1>1. Apart(c) /\ callers[c].at # "enqueue"
  BY DeriveEffect
<1>2. UNCHANGED <<roster, worn, jobs, drain, adrift>>
  BY DEF Derive, guild
<1> QED
  BY <1>1, <1>2, ReadingRules

\* ... an approval that reads the guild ...
LEMMA ApproveRules ==
    ASSUME Ground, RuleInv, NEW c \in Callers, Approve(c)
    PROVE  RuleInv'
<1>1. Apart(c) /\ callers[c].at # "enqueue"
  BY ApproveEffect
<1>2. UNCHANGED <<roster, worn, jobs, drain, adrift>>
  BY DEF Approve, guild
<1> QED
  BY <1>1, <1>2, ReadingRules

\* ... one that comes too late ...
LEMMA LateRules ==
    ASSUME Ground, RuleInv, NEW c \in Callers, ApproveCommit(c), phase # "applicant"
    PROVE  RuleInv'
<1>1. /\ Apart(c) /\ callers[c].at # "enqueue"
      /\ UNCHANGED <<roster, guild, switches, jobs, drain, adrift>>
  BY LateEffect
<1>2. UNCHANGED <<roster, worn, jobs, drain, adrift>>
  BY <1>1 DEF guild
<1> QED
  BY <1>1, <1>2, ReadingRules

\* What a member who is not banned should wear.
LEMMA WantedIs ==
    ASSUME NEW r
    PROVE  /\ Banned => (r \in Wanted <=> r = "ban")
           /\ phase = "member" /\ ~Banned =>
                (r \in Wanted <=> \/ r = row.rank
                                  \/ r = "medal" /\ awards > 0
                                  \/ r = "enrolled" /\ row.enrolled)
  BY DEF Banned, Wanted, Wants, Desired

\* A request about the rank or the role, however old its copy.
LEMMA SaveRules ==
    ASSUME Ground, RuleInv, NEW c \in Callers, callers[c].op \in {"rank", "role"},
           Apart(c), callers[c].at = "save", callers'[c].at = "enqueue",
           callers'[c].op \in {"rank", "role"}, phase = "member",
           NEW new \in Rows, NEW n \in SUBSET GuildRoles, callers'[c].names = n,
           callers[c].copy \in Rows, new.banned = callers[c].copy.banned,
           new.rank # callers[c].copy.rank => {new.rank, callers[c].copy.rank} \subseteq n,
           new.enrolled # callers[c].copy.enrolled => "enrolled" \in n,
           SaveMember(c, new, n, n), UNCHANGED <<phase, awards, guild, jobs>>
    PROVE  RuleInv'
<1> DEFINE copy == callers[c].copy
           next == Wants(phase, new, awards)
           moved == (Wanted \ next) \cup (next \ Wanted)
           R == CASE copy = row -> {}
                  [] callers[c].op # "ban" /\ copy.banned # row.banned -> GuildRoles
                  [] OTHER -> moved \ n
<1>1. row' = new /\ Drift(R) /\ row \in Rows /\ worn' = worn
  BY DEF SaveMember, Ground, RosterOK, guild
<1>2. Wanted \subseteq GuildRoles /\ next \subseteq GuildRoles /\ next = Wanted'
  BY <1>1, DesiredType DEF Wanted
<1>3. R \in SUBSET GuildRoles
  BY <1>2
<1>4. ASSUME NEW r \in Ruled PROVE r \in R \/ Claimed(r)' \/ (StillClaimed(r) /\ Unmoved(r))
  <2>1. r \in GuildRoles
    BY RuledRoles
  <2>2. StillClaimed(r)
    BY FreshClaims
  <2>3. CASE copy = row
    <3>1. Banned' = Banned
      BY <1>1, <2>3 DEF Banned
    <3>2. r \in n => Strong(r)'
      BY DEF Strong, RoleAsks, RoleNames
    <3>3. r \notin n => (r \in Wanted' <=> r \in Wanted)
      BY <1>1, <2>3 DEF Wanted, Wants, Desired
    <3>4. CASE r \in n /\ ~Banned
      BY <3>1, <3>2, <3>4 DEF Claimed
    <3>5. CASE Banned
      BY <3>1, <3>5, <2>2, <1>1 DEF Banned, Wanted, Wants, Unmoved
    <3> QED
      BY <3>1, <3>3, <3>4, <3>5, <2>2, <1>1 DEF Unmoved
  <2>4. CASE copy # row /\ copy.banned # row.banned
    BY <2>1, <2>4
  <2>5. CASE copy # row /\ copy.banned = row.banned
    <3>1. R = moved \ n
      BY <2>5
    <3> HIDE DEF R, next
    <3>2. Banned' = Banned
      BY <1>1, <2>5 DEF Banned
    <3>3. r \in R \/ r \in n \/ (r \in Wanted' <=> r \in Wanted)
      BY <3>1, <1>2
    <3>4. r \in n => Strong(r)'
      BY DEF Strong, RoleAsks, RoleNames
    <3>5. CASE r \in n /\ ~Banned
      BY <3>2, <3>4, <3>5 DEF Claimed
    <3>6. CASE Banned
      BY <3>2, <3>6, <2>2, <1>1 DEF Banned, Wanted, Wants, Unmoved
    <3> QED
      BY <3>2, <3>3, <3>5, <3>6, <2>2, <1>1 DEF Unmoved
  <2> QED
    BY <2>3, <2>4, <2>5
<1> HIDE DEF R
<1> QED
  BY <1>1, <1>3, <1>4, DriftRules

\* ... a rank change ...
LEMMA RankRules ==
    ASSUME Ground, RuleInv, NEW c \in Callers, ChangeRank(c)
    PROVE  RuleInv'
<1> DEFINE copy == callers[c].copy
           new == [copy EXCEPT !.rank = callers[c].rank]
           n == {copy.rank, callers[c].rank}
<1>1. /\ Apart(c) /\ callers'[c].at = "enqueue" /\ callers'[c].op = "rank"
      /\ callers[c].at = "save" /\ copy \in Rows /\ callers[c].rank \in Ranks
      /\ callers'[c].names = n /\ phase = "member"
  BY RankEffect
<1>2. /\ callers[c].op = "rank" /\ SaveMember(c, new, n, n)
      /\ UNCHANGED <<phase, awards, guild, jobs>>
  BY DEF ChangeRank, CallerAt, RankScope
<1>3. /\ new \in Rows /\ new.rank = callers[c].rank /\ new.banned = copy.banned
      /\ new.enrolled = copy.enrolled /\ copy.rank \in Ranks
  BY <1>1, RowEdits
<1>4. n \in SUBSET GuildRoles
  BY <1>1, <1>3, RoleSet
<1>5. {new.rank, copy.rank} \subseteq n
  BY <1>3
<1> HIDE DEF new, n
<1> QED
  BY <1>1, <1>2, <1>3, <1>4, <1>5, SaveRules

\* ... a change of the Membership role ...
LEMMA RoleRules ==
    ASSUME Ground, RuleInv, NEW c \in Callers, ChangeRole(c)
    PROVE  RuleInv'
<1> DEFINE copy == callers[c].copy
           new == [copy EXCEPT !.enrolled = ~copy.enrolled]
           n == {"enrolled"}
<1>1. /\ Apart(c) /\ callers'[c].at = "enqueue" /\ callers'[c].op = "role"
      /\ callers[c].at = "save" /\ copy \in Rows
      /\ callers'[c].names = n /\ phase = "member"
  BY RoleEffect
<1>2. /\ callers[c].op = "role" /\ SaveMember(c, new, n, n)
      /\ UNCHANGED <<phase, awards, guild, jobs>>
  BY DEF ChangeRole, CallerAt
<1>3. new \in Rows /\ new.rank = copy.rank /\ new.banned = copy.banned
  <2>1. (~copy.enrolled) \in BOOLEAN
    OBVIOUS
  <2>2. \A b \in BOOLEAN : /\ [copy EXCEPT !.enrolled = b] \in Rows
                          /\ [copy EXCEPT !.enrolled = b].rank = copy.rank
                          /\ [copy EXCEPT !.enrolled = b].banned = copy.banned
    BY <1>1, RowEdits
  <2> QED
    BY <2>1, <2>2
<1>4. n \in SUBSET GuildRoles /\ "enrolled" \in n
  BY RoleSet
<1> HIDE DEF new, n
<1> QED
  BY <1>1, <1>2, <1>3, <1>4, SaveRules

\* ... a ban ...
LEMMA BanRules ==
    ASSUME Ground, RuleInv, NEW c \in Callers, Ban(c)
    PROVE  RuleInv'
<1> DEFINE copy == callers[c].copy
           new == [copy EXCEPT !.banned = TRUE]
           next == Wants(phase, new, awards)
           moved == (Wanted \ next) \cup (next \ Wanted)
           R == CASE copy = row -> {}
                  [] callers[c].op # "ban" /\ copy.banned # row.banned -> GuildRoles
                  [] OTHER -> moved \ GuildRoles
<1>1. /\ callers'[c].at = "enqueue" /\ callers'[c].op = "ban"
      /\ callers'[c].owes = GuildRoles /\ phase = "member" /\ row'.banned
  BY BanEffect
<1>2. callers[c].op = "ban" /\ Drift(R) /\ phase' = phase
  BY DEF Ban, CallerAt, SaveMember
<1>3. R \in SUBSET GuildRoles
  <2>1. next \subseteq GuildRoles /\ Wanted \subseteq GuildRoles
    <3>1. copy \in Rows
      BY DEF Ground, CallersOK, CallerShape, Ban, CallerAt
    <3>2. new \in Rows
      BY <3>1, RowEdits
    <3> QED
      BY <3>2, DesiredType DEF Wanted, Ground, RosterOK
  <2> HIDE DEF next
  <2> QED
    BY <2>1
<1> HIDE DEF R
<1>4. ASSUME NEW r \in Ruled PROVE Claimed(r)'
  BY <1>1, <1>2, RuledRoles DEF Claimed, Banned, Banning, RoleAsks
<1> QED
  BY <1>2, <1>3, <1>4, DriftRules

\* ... an unban ...
LEMMA UnbanRules ==
    ASSUME Ground, RuleInv, NEW c \in Callers, Unban(c)
    PROVE  RuleInv'
<1>1. Drift(GuildRoles)
  BY UnbanEffect
<1> QED
  BY <1>1, RuledRoles, DriftRules

\* ... an award or its removal ...
LEMMA AwardRules ==
    ASSUME Ground, RuleInv, NEW c \in Callers, AwardMedal(c)
    PROVE  RuleInv'
<1>1. /\ Apart(c) /\ callers[c].at # "enqueue" /\ callers'[c].at = "enqueue"
      /\ callers'[c].op = "medal" /\ callers'[c].names = {"medal"} /\ phase = "member"
  BY AwardEffect
<1>2. UNCHANGED <<phase, row, worn, jobs, drain, adrift>>
  BY DEF AwardMedal, guild
<1>3. ASSUME NEW r \in Ruled PROVE Claimed(r)' \/ (StillClaimed(r) /\ Unmoved(r))
  <2>1. StillClaimed(r)
    BY <1>1, <1>2, FreshClaims
  <2>2. Banned' = Banned
    BY <1>2 DEF Banned
  <2>3. CASE Banned \/ r # "medal"
    BY <2>1, <2>2, <2>3, <1>2 DEF Unmoved, Banned, Wanted, Wants, Desired
  <2>4. CASE ~Banned /\ r = "medal"
    BY <2>2, <2>4, <1>1 DEF Claimed, Strong, RoleAsks, RoleNames
  <2> QED
    BY <2>3, <2>4
<1> QED
  BY <1>2, <1>3, StillRules

\* ... a derive that commits ...
LEMMA DerivedRules ==
    ASSUME Ground, RuleInv, NEW c \in Callers, DeriveCommit(c)
    PROVE  RuleInv'
<1> DEFINE copy == callers[c].copy
           rank == callers[c].rank
           n == {copy.rank} \cup ({rank} \ {"none"})
           R == IF copy = row THEN {} ELSE {row.rank} \ n
<1>1. /\ Apart(c) /\ callers'[c].at = "enqueue" /\ callers'[c].op = "derive"
      /\ callers[c].at = "commit" /\ copy \in Rows /\ phase = "member"
      /\ callers'[c].names = n
      /\ callers[c].medal => "medal" \in callers'[c].owes
  BY DerivedEffect
<1>2. /\ Drift(R) /\ phase' = phase /\ worn' = worn /\ jobs' = jobs
      /\ awards' = IF callers[c].medal THEN awards + 1 ELSE awards
      /\ row' = IF rank = "none" THEN row ELSE [row EXCEPT !.rank = rank]
  BY DEF DeriveCommit, guild
<1>3. /\ row \in Rows /\ row.rank \in Ranks /\ awards \in Nat
      /\ rank \in Ranks \cup {"none"}
  BY RowEdits DEF Ground, RosterOK, CallersOK, Requests
<1>4. /\ row'.banned = row.banned /\ row'.enrolled = row.enrolled
      /\ row'.rank = IF rank = "none" THEN row.rank ELSE rank
  BY <1>2, <1>3, RowEdits
<1>5. R \in SUBSET GuildRoles
  BY <1>3, RoleSet
<1>6. ASSUME NEW r \in Ruled PROVE r \in R \/ Claimed(r)' \/ (StillClaimed(r) /\ Unmoved(r))
  <2>1. StillClaimed(r)
    BY <1>1, <1>2, FreshClaims
  <2>2. Banned' = Banned
    BY <1>2, <1>4 DEF Banned
  <2>3. CASE Banned
    BY <2>1, <2>2, <2>3, <1>2 DEF Unmoved, Banned, Wanted, Wants
  <2>4. CASE ~Banned /\ r \in n
    BY <2>2, <2>4, <1>1 DEF Claimed, Strong, RoleAsks, RoleNames
  <2>5. CASE ~Banned /\ r = "medal" /\ callers[c].medal
    <3>1. r \in Wanted'
      <4>1. awards + 1 > 0
        BY <1>3
      <4>2. ~row'.banned /\ phase' = "member" /\ awards' = awards + 1
        BY <1>1, <1>2, <1>4, <2>5 DEF Banned
      <4> QED
        BY <4>1, <4>2, <2>5 DEF Wanted, Wants, Desired
    <3>2. Weak(r)'
      BY <1>1, <2>5 DEF Weak, RoleAsks
    <3> QED
      BY <3>1, <3>2, <2>2, <2>5 DEF Claimed
  <2>6. CASE ~Banned /\ r \notin n /\ ~(r = "medal" /\ callers[c].medal) /\ r \notin R
    <3>1. r # row.rank
      BY <2>6
    <3>2. r # row'.rank
      BY <2>6, <1>4
    <3>3. r = "medal" => (awards' > 0 <=> awards > 0)
      BY <1>2, <2>6
    <3> HIDE DEF R, n
    <3>4. ~row.banned /\ ~row'.banned /\ phase' = "member"
      BY <2>6, <1>1, <1>2, <1>4 DEF Banned
    <3>5. (r \in Wanted' <=> r \in Wanted)
      BY <3>1, <3>2, <3>3, <3>4, <1>1, <1>4 DEF Wanted, Wants, Desired
    <3> QED
      BY <3>5, <2>1, <2>2, <1>2 DEF Unmoved
  <2> QED
    BY <2>3, <2>4, <2>5, <2>6
<1> HIDE DEF R
<1> QED
  BY <1>2, <1>5, <1>6, DriftRules

\* Before enlistment the rules say nothing but the Applicant role moves.
LEMMA FrozenRules ==
    ASSUME Ground, RuleInv, NEW c \in Callers, Apart(c), callers[c].at # "enqueue",
           phase # "member", phase' # "member", Drift(Crossed), UNCHANGED <<row, worn, jobs>>
    PROVE  RuleInv'
<1>1. Crossed \in SUBSET GuildRoles
  BY RoleSet DEF Crossed
<1>2. ASSUME NEW r \in Ruled PROVE StillClaimed(r) /\ Unmoved(r)
  <2>1. StillClaimed(r)
    BY FreshClaims
  <2>2. r # "applicant"
    BY RuledRoles
  <2> QED
    BY <2>1, <2>2 DEF Unmoved, Banned, Wanted, Wants, Desired
<1> QED
  BY <1>1, <1>2, DriftRules

\* ... an application ...
LEMMA ApplyRules ==
    ASSUME Ground, RuleInv, NEW c \in Callers, Apply(c)
    PROVE  RuleInv'
<1>1. Apart(c) /\ callers[c].at # "enqueue"
  BY ApplyEffect
<1>2. phase # "member" /\ phase' # "member" /\ Drift(Crossed) /\ UNCHANGED <<row, worn, jobs>>
  BY DEF Apply, guild
<1> QED
  BY <1>1, <1>2, FrozenRules

\* ... a decision against it ...
LEMMA DeclineRules ==
    ASSUME Ground, RuleInv, NEW c \in Callers, Decline(c)
    PROVE  RuleInv'
<1>1. Apart(c) /\ callers[c].at # "enqueue"
  BY DeclineEffect
<1>2. phase # "member" /\ phase' # "member" /\ Drift(Crossed) /\ UNCHANGED <<row, worn, jobs>>
  BY DEF Decline, guild
<1> QED
  BY <1>1, <1>2, FrozenRules

\* ... an enlistment ...
LEMMA EnlistsRules ==
    ASSUME Ground, RuleInv, NEW c \in Callers, Enlists(c)
    PROVE  RuleInv'
<1>1. /\ Apart(c) /\ callers'[c].at = "enqueue" /\ callers'[c].op = "approve"
      /\ callers[c].at = "commit" /\ phase' = "member" /\ ~row'.banned
      /\ callers'[c].owes = {"applicant"} \cup Desired("member", row', awards')
      /\ Drift(Crossed)
  BY EnlistsEffect
<1>2. phase = "applicant" /\ UNCHANGED <<worn, jobs>>
  BY DEF Enlists, ApproveCommit, guild
<1>3. Crossed \in SUBSET GuildRoles
  BY RoleSet DEF Crossed
<1>4. ASSUME NEW r \in Ruled PROVE Claimed(r)' \/ (StillClaimed(r) /\ Unmoved(r))
  <2>1. StillClaimed(r)
    BY <1>1, <1>2, FreshClaims
  <2>2. r # "applicant"
    BY RuledRoles
  <2>3. Banned' = FALSE /\ Banned = FALSE
    BY <1>1, <1>2 DEF Banned
  <2>4. r \notin Wanted
    BY <1>2, <2>2 DEF Wanted, Wants
  <2>5. Wanted' = Desired("member", row', awards')
    BY <1>1 DEF Wanted, Wants
  <2>6. r \in Wanted' => Weak(r)'
    BY <1>1, <2>5 DEF Weak, RoleAsks
  <2>7. CASE r \in Wanted'
    BY <2>3, <2>6, <2>7 DEF Claimed
  <2>8. CASE r \notin Wanted'
    BY <2>1, <2>3, <2>4, <2>8, <1>2 DEF Unmoved
  <2> QED
    BY <2>7, <2>8
<1> QED
  BY <1>1, <1>3, <1>4, DriftRules

\* What a request claimed is claimed by what it queues, or given up.
LEMMA AfterRules ==
    ASSUME Ground, RuleInv, NEW c \in Callers, AfterCommit(c)
    PROVE  RuleInv'
<1> DEFINE q == callers[c]
           a == Queues(q)
           b == QueuesThen(q)
           R == Lost(a) \cup Lost(b)
<1>1. /\ Apart(c) /\ q.at = "enqueue" /\ callers'[c].at # "enqueue"
      /\ q \in Requests /\ CallerShape(q)
      /\ ToSet(jobs') = ToSet(jobs) \cup (IF Passes(a) THEN {a} ELSE {})
                                    \cup (IF Passes(b) THEN {b} ELSE {})
      /\ Drift(R) /\ R \in SUBSET GuildRoles
  BY AfterEffect
<1>2. UNCHANGED <<roster, worn>>
  BY DEF AfterCommit, guild
<1>3. /\ q.op \in RoleNames => a.type = "scoped" /\ a.owes = q.names
      /\ q.op = "ban" => a.type = "ban" /\ a.owes = q.owes
      /\ q.op \in {"derive", "approve"} => b.type = "grant" /\ b.owes = q.owes \ {"applicant"}
  BY <1>1, QueuesJobs DEF RoleNames
<1>4. /\ a \in ToSet(jobs') \/ a.owes \subseteq R
      /\ b \in ToSet(jobs') \/ b.owes \subseteq R
      /\ ToSet(jobs) \subseteq ToSet(jobs')
  BY <1>1 DEF Lost
<1> HIDE DEF a, b, R
<1>5. ASSUME NEW r \in Ruled PROVE r \in R \/ (StillClaimed(r) /\ Unmoved(r))
  <2>1. Unmoved(r)
    BY <1>2, SameRoster
  <2>2. r # "applicant"
    BY RuledRoles
  <2>3. \A d \in Callers : \A ops : RoleAsks(d, ops) /\ d # c => RoleAsks(d, ops)' /\ callers'[d] = callers[d]
    BY <1>1 DEF RoleAsks, Apart
  <2>4. r \notin R => (Strong(r) => Strong(r)')
    BY <2>3, <1>3, <1>4 DEF Strong, RoleAsks
  <2>5. r \notin R => (Weak(r) => Weak(r)')
    BY <2>2, <2>3, <1>3, <1>4 DEF Weak, RoleAsks
  <2>6. r \notin R => (Banning(r) => Banning(r)')
    BY <2>3, <1>3, <1>4 DEF Banning, RoleAsks
  <2> QED
    BY <2>1, <2>4, <2>5, <2>6 DEF StillClaimed
<1> QED
  BY <1>1, <1>5, DriftRules

\* ... a role given or taken by hand ...
LEMMA HandRules ==
    ASSUME Ground, RuleInv, NEW g \in Managed, ByHand(g)
    PROVE  RuleInv'
<1>1. /\ Drift({g}) /\ (\A s \in GuildRoles \ {g} : s \in worn' <=> s \in worn)
      /\ UNCHANGED <<roster, switches, callers, jobs>>
  BY HandEffect
<1>2. {g} \in SUBSET GuildRoles
  BY RoleSet
<1>3. ASSUME NEW r \in Ruled PROVE r \in {g} \/ (StillClaimed(r) /\ Unmoved(r))
  <2>1. StillClaimed(r)
    BY <1>1, KeptClaims
  <2>2. r \in GuildRoles
    BY RuledRoles
  <2> QED
    BY <1>1, <2>1, <2>2 DEF Unmoved, roster, Banned, Wanted
<1> QED
  BY <1>1, <1>2, <1>3, DriftRules

\* ... somebody leaving ...
LEMMA LeaveRules ==
    ASSUME Ground, RuleInv, Leave
    PROVE  RuleInv'
<1>1. /\ Drift(worn) /\ worn \in SUBSET GuildRoles /\ worn' = {}
      /\ UNCHANGED <<roster, switches, callers, jobs>>
  BY LeaveEffect
<1>2. ASSUME NEW r \in Ruled PROVE r \in worn \/ (StillClaimed(r) /\ Unmoved(r))
  <2>1. StillClaimed(r)
    BY <1>1, KeptClaims
  <2> QED
    BY <1>1, <2>1 DEF Unmoved, roster, Banned, Wanted
<1> QED
  BY <1>1, <1>2, DriftRules

\* ... or joining ...
LEMMA JoinRules ==
    ASSUME Ground, RuleInv, Join
    PROVE  RuleInv'
<1>1. PICK R \in SUBSET GuildRoles : Drift(R)
  BY JoinEffect
<1>2. ASSUME NEW r \in Ruled PROVE StillClaimed(r) /\ Unmoved(r)
  BY JoinEffect, KeptClaims, SameRoster
<1> QED
  BY <1>1, <1>2, DriftRules

\* ... a resync ...
LEMMA ResyncRules ==
    ASSUME Ground, RuleInv, Resync
    PROVE  RuleInv'
<1>1. UNCHANGED <<drain, adrift>>
  BY ResyncEffect
<1>2. ASSUME NEW r \in Ruled PROVE StillClaimed(r) /\ Unmoved(r)
  BY ResyncEffect, KeptClaims, SameRoster DEF guild
<1> QED
  BY <1>1, <1>2, StillRules

\* ... and a switch.
LEMMA SwitchRules ==
    ASSUME Ground, RuleInv, NEW s \in {"bot", "sync", "strip"}, Switch(s)
    PROVE  RuleInv'
<1>1. UNCHANGED <<roster, guild, jobs, callers, drain, adrift>>
  BY SwitchEffect
<1>2. ASSUME NEW r \in Ruled PROVE StillClaimed(r) /\ Unmoved(r)
  BY <1>1, KeptClaims, SameRoster DEF guild
<1> QED
  BY <1>1, <1>2, StillRules

\* A job that is not frozen is a member's; nothing is wanted of a banned one alone.
LEMMA Untouched ==
    ASSUME Ground
    PROVE  /\ Untouchable <=> phase # "member" \/ Banned
           /\ ~Untouchable => DesiredNow = Wanted
           /\ DesiredNow \subseteq Rostered
           /\ \A j \in ToSet(jobs) : j.type \notin FrozenKinds => phase = "member"
<1>1. row \in Rows /\ Early
  BY DEF Ground, RosterOK
<1>2. Untouchable <=> phase # "member" \/ Banned
  <2>1. /\ phase = "member" /\ ~row.banned => DesiredNow # {}
        /\ phase # "member" \/ row.banned => DesiredNow = {}
    BY <1>1, DesiredType DEF DesiredNow
  <2> QED
    BY <2>1 DEF Untouchable, Banned
<1>3. ~Untouchable => DesiredNow = Wanted
  BY <1>1, <1>2, DesiredType DEF DesiredNow, Banned, Wanted
<1>4. DesiredNow \subseteq Rostered
  BY <1>1, DesiredType DEF DesiredNow
<1>5. \A j \in ToSet(jobs) : j.type \notin FrozenKinds => phase = "member"
  BY <1>1 DEF Early
<1> QED
  BY <1>2, <1>3, <1>4, <1>5

\* A job taken out of the queue takes at most its own claim along.
LEMMA LostClaim ==
    ASSUME callers' = callers, UNCHANGED roster, NEW j,
           ToSet(jobs) \subseteq ToSet(jobs') \cup {j}, NEW r
    PROVE  Claimed(r) => Claimed(r)' \/ (Counts(j, r) /\ r \in j.owes)
<1>1. Banned' = Banned /\ Wanted' = Wanted
  BY DEF roster, Banned, Wanted
<1>2. /\ Strong(r) => Strong(r)' \/ (j.type = "scoped" /\ r \in j.owes)
      /\ Weak(r) => Weak(r)' \/ (j.type = "grant" /\ r \in j.owes)
      /\ Banning(r) => Banning(r)' \/ (j.type = "ban" /\ r \in j.owes)
  BY DEF Strong, Weak, Banning, RoleAsks
<1> QED
  BY <1>1, <1>2 DEF Claimed, Counts

\* A job that is passed over decided nothing, or what it owed is given up.
LEMMA SkipRules ==
    ASSUME Ground, RuleInv, NEW i \in DOMAIN jobs, Take(i), Skips(i)
    PROVE  RuleInv'
<1> DEFINE j == jobs[i]
<1>1. /\ drain.at = "idle" /\ drain' = drain /\ jobs' = RemoveAt(jobs, i)
      /\ adrift' = adrift \cup (IF GateOpen(j.type) THEN {} ELSE j.owes)
      /\ UNCHANGED <<roster, guild, switches, callers>>
  BY SkipEffect
<1>2. ToSet(jobs) \subseteq ToSet(jobs') \cup {j} /\ j \in ToSet(jobs)
  BY <1>1, TakenOut, JobFacts DEF Ground, JobsOK
<1>3. j.type \notin FrozenKinds /\ (~GateOpen(j.type) \/ (j.type # "ban" /\ Untouchable))
  BY DEF Skips
<1>4. phase = "member" /\ (Untouchable => Banned)
  BY <1>2, <1>3, Untouched
<1> HIDE DEF j
<1>5. ASSUME NEW r \in Ruled PROVE Followed(r)'
  <2>1. Claimed(r) => Claimed(r)' \/ (Counts(j, r) /\ r \in j.owes)
    BY <1>1, <1>2, LostClaim
  <2>2. GateOpen(j.type) => ~Counts(j, r)
    BY <1>3, <1>4 DEF Counts
  <2>3. Answered(r)
    BY DEF RuleInv, Followed
  <2>4. Right(r) => Right(r)'
    BY <1>1 DEF Right, roster, Wanted, guild
  <2>5. Answered(r)'
    BY <1>1, <2>1, <2>2, <2>3, <2>4 DEF Answered, RolesHeld
  <2> QED
    BY <1>1, <2>5 DEF Followed, Healing, Harmless
<1> QED
  BY <1>5, RuledRoles DEF RuleInv

\* A job that starts is held, for what it reads of the roster.
LEMMA StartRules ==
    ASSUME Ground, RuleInv, NEW i \in DOMAIN jobs, Take(i), ~Skips(i)
    PROVE  RuleInv'
<1>0. PICK j : j = jobs[i]
  OBVIOUS
<1>1. /\ drain.at = "idle" /\ jobs' = RemoveAt(jobs, i)
      /\ drain'.at = (IF j.type \in FrozenKinds THEN "call" ELSE "read")
      /\ drain'.job = j /\ drain'.wanted = DesiredNow
      /\ drain'.add = (IF j.type = "assign" THEN j.names ELSE {})
      /\ drain'.drop = (IF j.type = "remove" THEN j.names ELSE {})
      /\ drain'.heals = Cures(j)
      /\ adrift' = adrift \cup Lifted(j)
      /\ UNCHANGED <<roster, guild, switches, callers>>
  BY <1>0, StartEffect
<1>2. /\ ToSet(jobs) \subseteq ToSet(jobs') \cup {j} /\ j \in ToSet(jobs)
      /\ JobShape(j) /\ j.type \in StepKinds
  BY <1>0, <1>1, TakenOut, JobFacts DEF Ground, JobsOK
<1>3. j.type \notin FrozenKinds => j.type = "ban" \/ ~Untouchable
  BY <1>0 DEF Skips
<1>4. /\ j.type \notin FrozenKinds => phase = "member"
      /\ j.type \notin FrozenKinds \cup {"ban"} => DesiredNow = Wanted /\ ~Banned
  BY <1>2, <1>3, Untouched
<1>5. ASSUME NEW r \in Ruled PROVE Followed(r)'
  <2>1. Claimed(r) => Claimed(r)' \/ (Counts(j, r) /\ r \in j.owes)
    BY <1>1, <1>2, LostClaim
  <2>2. Answered(r)
    BY DEF RuleInv, Followed
  <2>3. Right(r) => Right(r)'
    BY <1>1 DEF Right, roster, Wanted, guild
  <2>4. r \in GuildRoles /\ r # "applicant"
    BY RuledRoles
  <2>5. Wanted' = Wanted /\ Banned' = Banned
    BY <1>1 DEF roster, Wanted, Banned
  <2>6. CASE j.type \in FrozenKinds
    <3>1. drain'.heals = {} /\ drain'.at = "call"
      BY <1>1, <2>6 DEF Cures, FrozenKinds
    <3>2. r \notin drain'.add /\ r \notin drain'.drop
      BY <1>1, <1>2, <2>4, <2>6 DEF JobShape
    <3>3. ~Counts(j, r)
      BY <2>6 DEF Counts, FrozenKinds
    <3>4. Answered(r)'
      BY <1>1, <2>1, <2>2, <2>3, <3>3 DEF Answered, RolesHeld
    <3> QED
      BY <3>1, <3>2, <3>4 DEF Followed, Healing, Harmless, Proper
  <2>7. CASE j.type \in {"scoped", "grant", "resync"}
    <3>1. Lifted(j) = {} /\ ~Banned /\ phase = "member" /\ DesiredNow = Wanted
      BY <2>7, <1>4 DEF Lifted, FrozenKinds
    <3>2. drain'.at = "read" /\ (Counts(j, r)' <=> Counts(j, r))
      BY <1>1, <2>7, <2>5 DEF FrozenKinds, Counts
    <3>3. Aim' = Wanted' /\ drain'.wanted = Wanted
      BY <1>1, <2>5, <2>7, <3>1 DEF Aim
    <3>4. /\ j.type = "scoped" => Reaches' = j.names /\ drain'.heals = j.names
          /\ j.type = "grant" => Reaches' = Wanted /\ drain'.heals = Wanted
          /\ j.type = "resync" => Reaches' = Rostered /\ drain'.heals = Rostered
      <4>1. Wanted \subseteq Rostered
        BY <3>1, Untouched
      <4>2. Rostered' = Rostered
        BY DEF Rostered, Managed, Ranks
      <4> QED
        BY <4>1, <4>2, <1>1, <3>1, <3>3, <2>7 DEF Reaches, Cures
    <3>5. Harmless(r)'
      BY <3>2, <3>4, <2>7 DEF Harmless
    <3>6. Healing(r)'
      BY <3>2, <3>3 DEF Healing
    <3>7. Counts(j, r) /\ r \in j.owes => RolesHeld(r)'
      BY <1>1, <1>2, <3>1, <3>2, <3>4, <2>7 DEF RolesHeld, Counts, JobShape
    <3>8. Answered(r)'
      BY <1>1, <2>1, <2>2, <2>3, <3>7 DEF Answered, RolesHeld
    <3> QED
      BY <3>5, <3>6, <3>8 DEF Followed
  <2>8. CASE j.type = "ban"
    <3>1. /\ phase = "member" /\ drain'.at = "read" /\ Reaches' = GuildRoles
          /\ Aim' = {"ban"}
      <4>1. "ban" \notin FrozenKinds
        BY DEF FrozenKinds
      <4>2. GuildRoles' = GuildRoles
        BY DEF GuildRoles, Managed, Ranks
      <4> QED
        BY <4>1, <4>2, <1>1, <1>4, <2>8 DEF Reaches, Aim
    <3>2. CASE ~row.banned
      <4>1. r \in adrift' /\ r \notin drain'.heals
        BY <1>1, <2>4, <2>8, <3>2 DEF Lifted, Cures
      <4> QED
        BY <4>1, <3>1 DEF Followed, Answered, Healing, Harmless
    <3>3. CASE row.banned
      <4>1. Banned /\ (r \in Wanted <=> r = "ban")
        BY <3>1, <3>3, WantedIs DEF Banned
      <4>2. r \in drain'.heals
        BY <1>1, <2>4, <2>8, <3>3 DEF Lifted, Cures
      <4>3. Healing(r)'
        BY <2>5, <3>1, <4>1 DEF Healing
      <4>4. Harmless(r)'
        BY <3>1, <4>2, <2>4 DEF Harmless
      <4>5. Counts(j, r) /\ r \in j.owes => RolesHeld(r)'
        BY <1>1, <2>5, <2>8, <3>1, <4>1, <4>2 DEF RolesHeld, Counts
      <4>6. Answered(r)'
        BY <1>1, <2>1, <2>2, <2>3, <4>5 DEF Answered, RolesHeld
      <4> QED
        BY <4>3, <4>4, <4>6 DEF Followed
    <3> QED
      BY <3>2, <3>3
  <2> QED
    BY <1>2, <2>6, <2>7, <2>8 DEF StepKinds
<1> QED
  BY <1>5, RuledRoles DEF RuleInv

\* What a dispatch does with a role of which it decides.
LEMMA Decided ==
    ASSUME NEW j, j.type \in {"scoped", "grant", "resync", "ban"}, NEW wanted,
           NEW readable \in BOOLEAN, NEW r \in Ruled
    PROVE  LET seen == IF readable THEN worn ELSE {}
               add == Additions(j, wanted, seen)
               drop == Removals(j, wanted, readable, seen)
               aim == IF j.type = "ban" THEN {"ban"} ELSE wanted
               reach == CASE j.type = "scoped" -> j.names [] j.type = "grant" -> wanted
                          [] j.type = "resync" -> Rostered \cup wanted [] OTHER -> GuildRoles
               blind == ~readable /\ j.type \in {"resync", "ban"}
           IN /\ r \notin reach => r \notin add /\ r \notin drop
              /\ r \in add => r \in aim
              /\ r \in drop => r \notin aim
              /\ r \in aim /\ r \in reach => r \in worn \/ r \in add
              /\ r \notin aim /\ r \in reach /\ ~blind => r \notin worn \/ r \in drop
<1>1. r \in GuildRoles /\ r # "applicant" /\ (r \in Managed <=> r # "ban")
      /\ (r \in Rostered <=> r # "ban")
  BY RuledRoles, RoleSet DEF Ruled
<1>2. CASE j.type = "scoped"
  BY <1>1, <1>2 DEF Additions, Removals
<1>3. CASE j.type = "grant"
  BY <1>1, <1>3 DEF Additions, Removals
<1>4. CASE j.type = "resync"
  BY <1>1, <1>4 DEF Additions, Removals
<1>5. CASE j.type = "ban"
  BY <1>1, <1>5 DEF Additions, Removals
<1> QED
  BY <1>2, <1>3, <1>4, <1>5

\* What the dispatch does with the guild it read heads for the roster.
LEMMA FetchRules ==
    ASSUME Ground, RuleInv, FetchMember
    PROVE  RuleInv'
<1>1. drain.at = "read" /\ UNCHANGED <<roster, guild, switches, callers, jobs>>
  BY FetchEffect
<1>2. PICK readable \in BOOLEAN :
        LET seen == IF readable THEN worn ELSE {}
            add == Additions(drain.job, drain.wanted, seen)
        IN /\ drain'.at = "call" /\ drain'.job = drain.job
           /\ drain'.wanted = drain.wanted /\ drain'.add = add
           /\ drain'.drop = Removals(drain.job, drain.wanted, readable, seen)
           /\ drain'.heals = drain.heals \ Missed(readable, add)
           /\ adrift' = adrift \cup Missed(readable, add)
  BY FetchEffect
<1>3. drain.job.type \in {"scoped", "grant", "resync", "ban"}
  <2>1. drain.job \in RoleJobs /\ drain.job.type \notin FrozenKinds
    BY <1>1 DEF Ground, DrainOK
  <2> QED
    BY <2>1 DEF RoleJobs, StepKinds
<1>4. ASSUME NEW r \in Ruled PROVE Followed(r)'
  <2>1. /\ r \notin Reaches => r \notin drain'.add /\ r \notin drain'.drop
        /\ r \in drain'.add => r \in Aim
        /\ r \in drain'.drop => r \notin Aim
        /\ r \in Aim /\ r \in Reaches => r \in worn \/ r \in drain'.add
        /\ r \notin Aim /\ r \in Reaches /\ ~(~readable /\ drain.job.type \in {"resync", "ban"})
             => r \notin worn \/ r \in drain'.drop
    <3>1. PICK j, wanted : j = drain.job /\ wanted = drain.wanted
      OBVIOUS
    <3>2. LET seen == IF readable THEN worn ELSE {}
              add == Additions(j, wanted, seen)
              drop == Removals(j, wanted, readable, seen)
              aim == IF j.type = "ban" THEN {"ban"} ELSE wanted
              reach == CASE j.type = "scoped" -> j.names [] j.type = "grant" -> wanted
                         [] j.type = "resync" -> Rostered \cup wanted [] OTHER -> GuildRoles
              blind == ~readable /\ j.type \in {"resync", "ban"}
          IN /\ r \notin reach => r \notin add /\ r \notin drop
             /\ r \in add => r \in aim
             /\ r \in drop => r \notin aim
             /\ r \in aim /\ r \in reach => r \in worn \/ r \in add
             /\ r \notin aim /\ r \in reach /\ ~blind => r \notin worn \/ r \in drop
      BY <1>3, <3>1, Decided
    <3> QED
      BY <1>2, <3>1, <3>2 DEF Aim, Reaches
  <2>2. /\ r \in drain'.heals => r \in drain.heals
        /\ r \in drain'.heals /\ ~readable /\ drain.job.type \in {"resync", "ban"}
             => r \in drain'.add
        /\ r \in drain.heals => r \in drain'.heals \/ r \in adrift'
        /\ r \in adrift => r \in adrift'
    BY <1>2 DEF Missed
  <2>3. Followed(r)
    BY DEF RuleInv
  <2>4. Wanted' = Wanted /\ worn' = worn /\ Banned' = Banned
    BY <1>1 DEF roster, guild, Wanted, Banned
  <2>5. Claimed(r) => Claimed(r)'
    <3>1. StillClaimed(r)
      BY <1>1, KeptClaims
    <3> QED
      BY <3>1, <2>4 DEF Claimed, StillClaimed
  <2>6. drain'.at = "call" /\ drain'.job = drain.job
    BY <1>2
  <2>7. Answered(r)'
    <3>1. RolesHeld(r) => RolesHeld(r)' \/ r \in adrift'
      BY <1>1, <2>2, <2>4, <2>6 DEF RolesHeld, Counts
    <3>2. Right(r) => Right(r)'
      BY <2>4 DEF Right
    <3> QED
      BY <2>2, <2>3, <2>5, <3>1, <3>2 DEF Followed, Answered
  <2>8. r \in drain.heals => Claimed(r) \/ (r \in Aim <=> r \in Wanted)
    BY <1>1, <2>3 DEF Followed, Healing
  <2>9. /\ r \in drain.heals => r \in Reaches
        /\ r \in drain.heals \/ r \in adrift \/ r \notin Reaches
    BY <1>1, <2>3 DEF Followed, Harmless
  <2>10. Healing(r)'
    <3>1. CASE r \in drain'.heals /\ (r \in Aim <=> r \in Wanted)
      <4>1. Heading(r)'
        BY <2>1, <2>2, <2>4, <2>9, <3>1 DEF Heading
      <4> QED
        BY <4>1, <2>6 DEF Healing
    <3> QED
      BY <2>2, <2>5, <2>8, <3>1 DEF Healing
  <2>11. Harmless(r)'
    <3>1. CASE r \in drain.heals /\ (r \in Aim <=> r \in Wanted)
      BY <2>1, <2>4, <2>6, <3>1 DEF Harmless, Proper
    <3>2. CASE r \in drain.heals /\ Claimed(r)
      BY <2>5, <2>6, <3>2 DEF Harmless
    <3>3. CASE r \notin drain.heals
      BY <2>1, <2>2, <2>6, <2>9, <3>3 DEF Harmless, Proper
    <3> QED
      BY <2>8, <3>1, <3>2, <3>3
  <2> QED
    BY <2>7, <2>10, <2>11 DEF Followed
<1> QED
  BY <1>4, RuledRoles DEF RuleInv

\* A call to the gateway does no harm.
LEMMA GatewayRules ==
    ASSUME Ground, RuleInv, NEW g \in GuildRoles, CallGateway(g)
    PROVE  RuleInv'
<1>1. /\ drain.at = "call" /\ g \in drain.add \cup drain.drop
      /\ worn' = (IF g \in drain.add THEN worn \cup {g} ELSE worn \ {g})
      /\ drain'.at = drain.at /\ drain'.job = drain.job /\ drain'.wanted = drain.wanted
      /\ drain'.add = drain.add \ {g} /\ drain'.drop = drain.drop \ {g}
      /\ drain'.heals = drain.heals
      /\ UNCHANGED <<roster, present, switches, callers, jobs, adrift>>
  BY GatewayEffect
<1>2. ASSUME NEW r \in Ruled PROVE Followed(r)'
  <2>1. Followed(r)
    BY DEF RuleInv
  <2>2. Claimed(r) => Claimed(r)'
    <3>1. StillClaimed(r)
      BY <1>1, KeptClaims
    <3> QED
      BY <3>1, <1>1 DEF Claimed, StillClaimed, roster, Wanted, Banned
  <2>3. Wanted' = Wanted /\ Banned' = Banned
    BY <1>1 DEF roster, Wanted, Banned
  <2>4. Counts(drain.job, r)' <=> Counts(drain.job, r)
    BY <1>1, <2>3 DEF Counts
  <2>5. CASE r # g
    <3>1. (r \in worn' <=> r \in worn) /\ (r \in drain'.add <=> r \in drain.add)
          /\ (r \in drain'.drop <=> r \in drain.drop)
      BY <1>1, <2>5
    <3>2. Answered(r)'
      <4>1. Right(r) => Right(r)'
        BY <3>1, <2>3 DEF Right
      <4>2. RolesHeld(r) => RolesHeld(r)'
        BY <1>1, <2>4 DEF RolesHeld
      <4> QED
        BY <4>1, <4>2, <1>1, <2>1, <2>2, <2>3 DEF Followed, Answered
    <3>3. Healing(r)'
      <4>1. Heading(r) => Heading(r)'
        BY <3>1, <2>3 DEF Heading
      <4> QED
        BY <4>1, <1>1, <2>1, <2>2, <2>3 DEF Followed, Healing
    <3>4. Harmless(r)'
      <4>1. Proper(r) => Proper(r)'
        BY <3>1, <2>3 DEF Proper
      <4> QED
        BY <4>1, <1>1, <2>1, <2>2, <2>3 DEF Followed, Harmless
    <3> QED
      BY <3>2, <3>3, <3>4 DEF Followed
  <2>6. CASE r = g
    <3>1. r \notin drain'.add /\ r \notin drain'.drop
      BY <1>1, <2>6
    <3>2. Harmless(r)'
      BY <3>1, <1>1 DEF Harmless, Proper
    <3>3. CASE Claimed(r)
      BY <3>2, <3>3, <2>2, <2>3 DEF Followed, Answered, Healing
    <3>4. CASE Proper(r)
      <4>1. Right(r)'
        BY <1>1, <2>3, <2>6, <3>4 DEF Right, Proper
      <4>2. Heading(r)'
        BY <4>1 DEF Right, Heading
      <4> QED
        BY <3>2, <4>1, <4>2, <1>1 DEF Followed, Answered, Healing
    <3>5. CASE r \in adrift /\ r \notin drain.heals
      BY <3>2, <3>5, <1>1 DEF Followed, Answered, Healing
    <3> QED
      BY <1>1, <2>1, <3>3, <3>4, <3>5 DEF Followed, Harmless
  <2> QED
    BY <2>5, <2>6
<1> QED
  BY <1>2, RuledRoles DEF RuleInv

\* A dispatch that is over says nothing any more.
LEMMA IdleRules ==
    ASSUME NEW r, drain' = Idle, Answered(r)'
    PROVE  Followed(r)'
  BY IdleDrain DEF Followed, Healing, Harmless

\* A dispatch that throws is queued again, or what it owed is given up.
LEMMA FailRules ==
    ASSUME Ground, RuleInv, CallFails
    PROVE  RuleInv'
<1>0. PICK j : j = drain.job
  OBVIOUS
<1>1. /\ drain.at = "call" /\ drain' = Idle
      /\ j \in RoleJobs /\ JobShape(j)
      /\ UNCHANGED <<roster, guild, switches, callers>>
  BY <1>0, FailEffect
<1>2. \/ jobs' = <<[j EXCEPT !.tried = TRUE]>> \o jobs
      \/ jobs' = jobs /\ adrift' = adrift \cup j.owes
  BY <1>0, FailEffect
<1>3. adrift \subseteq adrift'
  BY FailEffect
<1>4. PICK k : k = [j EXCEPT !.tried = TRUE]
  OBVIOUS
<1>5. k \in RoleJobs /\ k.type = j.type /\ k.owes = j.owes
  BY <1>1, <1>4, Retried
<1>6. jobs \in Seq(RoleJobs)
  BY DEF Ground, JobsOK
<1>7. /\ ToSet(jobs) \subseteq ToSet(jobs')
      /\ k \in ToSet(jobs') \/ j.owes \subseteq adrift'
  <2>1. CASE jobs' = <<k>> \o jobs
    <3>1. ToSet(jobs') = ToSet(jobs) \cup {k}
      BY <1>5, <1>6, <2>1, PutBack
    <3> QED
      BY <3>1
  <2>2. CASE jobs' = jobs /\ adrift' = adrift \cup j.owes
    BY <2>2
  <2> QED
    BY <1>2, <1>4, <2>1, <2>2
<1>8. ASSUME NEW r \in Ruled PROVE Followed(r)'
  <2>1. Answered(r)
    BY DEF RuleInv, Followed
  <2>2. StillClaimed(r)
    BY <1>1, <1>7, KeptClaims
  <2>3. Wanted' = Wanted /\ Banned' = Banned /\ worn' = worn
    BY <1>1 DEF roster, guild, Wanted, Banned
  <2>4. Claimed(r) => Claimed(r)'
    BY <2>2, <2>3 DEF Claimed, StillClaimed
  <2>5. RolesHeld(r) => Claimed(r)' \/ r \in adrift'
    <3>1. SUFFICES ASSUME RolesHeld(r), k \in ToSet(jobs') PROVE Claimed(r)'
      BY <1>0, <1>7 DEF RolesHeld
    <3>2. r \in k.owes /\ Counts(k, r)
      BY <1>0, <1>5, <3>1 DEF RolesHeld, Counts
    <3> QED
      BY <3>1, <3>2, <2>3 DEF Claimed, Counts, Strong, Weak, Banning
  <2>6. Right(r) => Right(r)'
    BY <2>3 DEF Right
  <2>7. Answered(r)'
    BY <1>3, <2>1, <2>4, <2>5, <2>6 DEF Answered
  <2> QED
    BY <1>1, <2>7, IdleRules
<1> QED
  BY <1>8, RuledRoles DEF RuleInv

\* A dispatch that is over has healed what it held.
LEMMA DoneRules ==
    ASSUME Ground, RuleInv, Done
    PROVE  RuleInv'
<1>1. /\ drain.at = "call" /\ drain.add = {} /\ drain.drop = {} /\ drain' = Idle
      /\ adrift' = adrift \ drain.heals
      /\ UNCHANGED <<roster, guild, switches, callers, jobs>>
  BY DoneEffect
<1>2. ASSUME NEW r \in Ruled PROVE Followed(r)'
  <2>1. Followed(r)
    BY DEF RuleInv
  <2>2. StillClaimed(r)
    BY <1>1, KeptClaims
  <2>3. Wanted' = Wanted /\ Banned' = Banned /\ worn' = worn
    BY <1>1 DEF roster, guild, Wanted, Banned
  <2>4. Claimed(r) => Claimed(r)'
    BY <2>2, <2>3 DEF Claimed, StillClaimed
  <2>5. Right(r) => Right(r)'
    BY <2>3 DEF Right
  <2>6. CASE r \in drain.heals
    <3>1. Claimed(r) \/ Heading(r)
      BY <1>1, <2>1, <2>6 DEF Followed, Healing
    <3>2. Heading(r) => Right(r)
      BY <1>1 DEF Heading, Right
    <3> QED
      BY <3>1, <3>2, <2>4, <2>5, <1>1, IdleRules DEF Answered
  <2>7. CASE r \notin drain.heals
    <3>1. Answered(r)'
      BY <1>1, <2>1, <2>4, <2>5, <2>7 DEF Followed, Answered, RolesHeld
    <3> QED
      BY <3>1, <1>1, IdleRules
  <2> QED
    BY <2>6, <2>7
<1> QED
  BY <1>2, RuledRoles DEF RuleInv

\* After a crash the dispatch is queued again, and the rest given up.
LEMMA RestartRules ==
    ASSUME Ground, RuleInv, RolesCrash
    PROVE  RuleInv'
<1>0. PICK j : j = drain.job
  OBVIOUS
<1>1. /\ drain' = Idle /\ callers' = [c \in Callers |-> Calm]
      /\ \A c \in Callers : callers[c].owes \subseteq adrift'
      /\ adrift \subseteq adrift'
      /\ \/ drain.at = "idle" /\ jobs' = jobs
         \/ /\ drain.at # "idle" /\ jobs' = <<[j EXCEPT !.tried = TRUE]>> \o jobs
            /\ j \in RoleJobs /\ JobShape(j)
      /\ UNCHANGED <<roster, worn, switches>>
  BY <1>0, RestartEffect
<1>2. jobs \in Seq(RoleJobs)
  BY DEF Ground, JobsOK
<1>3. PICK k : k = [j EXCEPT !.tried = TRUE]
  OBVIOUS
<1>4. /\ ToSet(jobs) \subseteq ToSet(jobs')
      /\ drain.at # "idle" => k \in ToSet(jobs') /\ k.type = j.type /\ k.owes = j.owes
  <2>1. CASE drain.at = "idle"
    BY <1>1, <2>1
  <2>2. CASE drain.at # "idle"
    <3>1. k \in RoleJobs /\ k.type = j.type /\ k.owes = j.owes
      BY <1>1, <1>3, <2>2, Retried
    <3> QED
      <4>1. jobs' = <<k>> \o jobs
        BY <1>1, <1>3, <2>2
      <4>2. ToSet(<<k>> \o jobs) = ToSet(jobs) \cup {k}
        BY <1>2, <3>1, PutBack
      <4> QED
        BY <3>1, <4>1, <4>2
  <2> QED
    BY <2>1, <2>2
<1>5. \A c \in Callers : RoleAsks(c, RoleNames) => callers[c].names \subseteq callers[c].owes
  BY DEF Ground, CallersOK, CallerShape, RoleAsks, RoleNames
<1>6. ASSUME NEW r \in Ruled PROVE Followed(r)'
  <2>1. Answered(r)
    BY DEF RuleInv, Followed
  <2>3. Wanted' = Wanted /\ Banned' = Banned /\ worn' = worn
    BY <1>1 DEF roster, Wanted, Banned
  <2>4. /\ Strong(r) => Strong(r)' \/ r \in adrift'
        /\ Weak(r) => Weak(r)' \/ r \in adrift'
        /\ Banning(r) => Banning(r)' \/ r \in adrift'
    BY <1>1, <1>4, <1>5 DEF Strong, Weak, Banning
  <2>5. Claimed(r) => Claimed(r)' \/ r \in adrift'
    BY <2>3, <2>4 DEF Claimed
  <2>6. RolesHeld(r) => Claimed(r)'
    <3>1. SUFFICES ASSUME RolesHeld(r) PROVE Claimed(r)'
      OBVIOUS
    <3>2. k \in ToSet(jobs') /\ r \in k.owes /\ Counts(k, r)
      BY <1>0, <1>4, <3>1 DEF RolesHeld, Counts
    <3> QED
      BY <3>2, <2>3 DEF Claimed, Counts, Strong, Weak, Banning
  <2>7. Right(r) => Right(r)'
    BY <2>3 DEF Right
  <2>8. Answered(r)'
    BY <1>1, <2>1, <2>5, <2>6, <2>7 DEF Answered
  <2> QED
    BY <1>1, <2>8, IdleRules
<1> QED
  BY <1>6, RuledRoles DEF RuleInv

(***************************************************************************)
(* The Applicant role.                                                     *)
(***************************************************************************)
\* Its requests are queued as they were frozen, in the order the
\* decisions were made in, so the last of them fits.
Asking(c) == RoleAsks(c, {"assign", "remove", "approve"})
Fits(kind) == kind = "assign" <=> phase = "applicant"
Frozen(s) == {i \in DOMAIN s : s[i].type \in FrozenKinds}
Untried(s) == \A i \in Frozen(s) : ~s[i].tried
LastFits(s) == \A i \in Frozen(s) : (\A k \in Frozen(s) : k <= i) => Fits(s[i].type)
AtWork == drain.at # "idle" /\ drain.job.type \in FrozenKinds
Standing == IF AtWork THEN Fits(drain.job.type) /\ Heading("applicant") ELSE Right("applicant")
Conduct == drain.at # "idle" =>
    /\ "applicant" \notin drain.heals /\ "applicant" \notin drain.wanted
    /\ "applicant" \in drain.add => drain.job.type = "assign"
    /\ drain.job.type = "assign" => "applicant" \notin drain.drop
Settled ==
    /\ Untried(jobs)
    /\ \A c, d \in Callers : Asking(c) /\ Asking(d) => c = d
    /\ \A c \in Callers : Asking(c) => Fits(callers[c].op)
    /\ (\A c \in Callers : ~Asking(c)) => /\ LastFits(jobs)
                                          /\ Frozen(jobs) = {} => Standing
PhaseInv == Conduct /\ ("applicant" \in adrift \/ Settled)

\* The frozen jobs of one queue and of another.
Alike(s, t) == /\ Untried(s) => Untried(t)
               /\ LastFits(s) => LastFits(t)
               /\ Frozen(t) = {} => Frozen(s) = {}
SameAsking == \A c \in Callers : /\ Asking(c)' <=> Asking(c)
                                 /\ Asking(c) => callers'[c].op = callers[c].op

\* The Applicant role is wanted of applicants, and of nobody else.
LEMMA WantsApplicant ==
    ASSUME NEW p \in {"guest", "applicant", "member"}, NEW r \in Rows, NEW n
    PROVE  "applicant" \in Wants(p, r, n) <=> p = "applicant"
<1>1. Desired(p, r, n) \subseteq Rostered
  BY DesiredType
<1> QED
  BY <1>1, RoleSet DEF Wants, Desired

\* The same before and after a step.
LEMMA WantedApplicant ==
    ASSUME Ground, Ground'
    PROVE  /\ "applicant" \in Wanted <=> phase = "applicant"
           /\ "applicant" \in Wanted' <=> phase' = "applicant"
<1>1. /\ phase \in {"guest", "applicant", "member"} /\ row \in Rows
      /\ phase' \in {"guest", "applicant", "member"} /\ row' \in Rows
  BY DEF Ground, RosterOK, Rows, Ranks
<1> QED
  BY <1>1, WantsApplicant DEF Wanted

\* One more job that is not frozen.
LEMMA CalmAppended ==
    ASSUME NEW s \in Seq(RoleJobs), NEW j \in RoleJobs, j.type \notin FrozenKinds
    PROVE  Alike(s, s \o <<j>>)
<1>1. PICK t : t = s \o <<j>>
  OBVIOUS
<1>2. /\ DOMAIN t = DOMAIN s \cup {Len(s) + 1}
      /\ \A i \in DOMAIN s : t[i] = s[i]
      /\ t[Len(s) + 1] = j
  BY <1>1, RoleAppended
<1>3. Frozen(t) = Frozen(s) /\ \A i \in Frozen(s) : t[i] = s[i]
  BY <1>2 DEF Frozen
<1>4. Alike(s, t)
  BY <1>3 DEF Alike, Untried, LastFits
<1> QED
  BY <1>1, <1>4

\* The same of a job that may not pass its gate.
LEMMA CalmKept ==
    ASSUME NEW s \in Seq(RoleJobs), NEW j, j \in RoleJobs \/ j = Nothing, j.type \notin FrozenKinds
    PROVE  Alike(s, s \o Kept(j))
<1>1. CASE Passes(j)
  BY <1>1, CalmAppended, NothingIsNone DEF Kept, Passes
<1>2. CASE ~Passes(j)
  <2>1. s \o Kept(j) = s
    BY <1>2 DEF Kept
  <2> QED
    BY <2>1 DEF Alike
<1> QED
  BY <1>1, <1>2

\* One more that is, and fits.
LEMMA FrozenAppended ==
    ASSUME NEW s \in Seq(RoleJobs), NEW j \in RoleJobs, j.type \in FrozenKinds, ~j.tried,
           Fits(j.type)
    PROVE  /\ Untried(s) => Untried(s \o <<j>>)
           /\ LastFits(s \o <<j>>) /\ Frozen(s \o <<j>>) # {}
<1>1. PICK t : t = s \o <<j>>
  OBVIOUS
<1>2. /\ DOMAIN t = DOMAIN s \cup {Len(s) + 1}
      /\ \A i \in DOMAIN s : t[i] = s[i] /\ i < Len(s) + 1
      /\ t[Len(s) + 1] = j
  BY <1>1, RoleAppended
<1>3. /\ Frozen(t) = Frozen(s) \cup {Len(s) + 1}
      /\ \A i \in Frozen(s) : t[i] = s[i] /\ i < Len(s) + 1 /\ i \in Int
  BY <1>2 DEF Frozen
<1>4. Untried(s) => Untried(t)
  BY <1>2, <1>3 DEF Untried
<1>5. LastFits(t)
  <2>1. \A i \in Frozen(t) : (\A k \in Frozen(t) : k <= i) => i = Len(s) + 1
    BY <1>3
  <2> QED
    BY <1>2, <2>1 DEF LastFits
<1> QED
  BY <1>1, <1>3, <1>4, <1>5

\* One put back in front.
LEMMA CalmInFront ==
    ASSUME NEW s \in Seq(RoleJobs), NEW j \in RoleJobs, j.type \notin FrozenKinds
    PROVE  Alike(s, <<j>> \o s)
<1>1. PICK t : t = <<j>> \o s
  OBVIOUS
<1>2. /\ DOMAIN t = 1 .. Len(s) + 1
      /\ t[1] = j
      /\ \A i \in DOMAIN s : t[i + 1] = s[i]
      /\ \A i \in 2 .. Len(s) + 1 : t[i] = s[i - 1] /\ i - 1 \in DOMAIN s
      /\ DOMAIN s = 1 .. Len(s) /\ Len(s) \in Nat
  BY <1>1, PutBack
<1>3. /\ \A i \in Frozen(t) : i \in 2 .. Len(s) + 1 /\ i - 1 \in Frozen(s) /\ t[i] = s[i - 1]
      /\ \A i \in Frozen(s) : i + 1 \in Frozen(t) /\ i \in Int
  BY <1>2 DEF Frozen
<1>4. Untried(s) => Untried(t)
  BY <1>3 DEF Untried
<1>5. LastFits(s) => LastFits(t)
  <2>1. SUFFICES ASSUME LastFits(s), NEW i \in Frozen(t), \A k \in Frozen(t) : k <= i
                 PROVE Fits(t[i].type)
    BY DEF LastFits
  <2>2. ASSUME NEW k \in Frozen(s) PROVE k <= i - 1
    <3>1. k + 1 <= i /\ k \in Int /\ i \in Int
      BY <1>3, <2>1
    <3> QED
      BY <3>1
  <2> QED
    BY <1>3, <2>1, <2>2 DEF LastFits
<1>6. Frozen(t) = {} => Frozen(s) = {}
  BY <1>3
<1> QED
  BY <1>1, <1>4, <1>5, <1>6 DEF Alike

\* One taken out.
LEMMA OneLess ==
    ASSUME NEW s \in Seq(RoleJobs), NEW i \in DOMAIN s
    PROVE  LET t == RemoveAt(s, i)
           IN /\ \A k \in Frozen(t) : \E m \in Frozen(s) :
                   /\ m # i /\ t[k] = s[m] /\ k \in Int /\ m \in Int
                   /\ m = IF k < i THEN k ELSE k + 1
              /\ \A m \in Frozen(s) \ {i} : \E k \in Frozen(t) : m = IF k < i THEN k ELSE k + 1
<1>1. PICK t : t = RemoveAt(s, i)
  OBVIOUS
<1>2. /\ DOMAIN t = 1 .. Len(s) - 1
      /\ \A k \in DOMAIN t : t[k] = IF k < i THEN s[k] ELSE s[k + 1]
      /\ DOMAIN s = 1 .. Len(s) /\ Len(s) \in Nat /\ i \in 1 .. Len(s)
  BY <1>1, TakenOut
<1>3. ASSUME NEW k \in Frozen(t)
      PROVE  \E m \in Frozen(s) : /\ m # i /\ t[k] = s[m] /\ k \in Int /\ m \in Int
                                  /\ m = IF k < i THEN k ELSE k + 1
  <2>1. k \in 1 .. Len(s) - 1 /\ t[k].type \in FrozenKinds
    BY <1>2 DEF Frozen
  <2>2. CASE k < i
    <3>1. k \in DOMAIN s /\ t[k] = s[k] /\ k # i /\ k \in Int
      BY <1>2, <2>1, <2>2
    <3> QED
      BY <2>1, <2>2, <3>1 DEF Frozen
  <2>3. CASE ~(k < i)
    <3>1. k + 1 \in DOMAIN s /\ t[k] = s[k + 1] /\ k + 1 # i /\ k \in Int /\ k + 1 \in Int
      BY <1>2, <2>1, <2>3
    <3> QED
      BY <2>1, <2>3, <3>1 DEF Frozen
  <2> QED
    BY <2>2, <2>3
<1>4. ASSUME NEW m \in Frozen(s) \ {i}
      PROVE  \E k \in Frozen(t) : m = IF k < i THEN k ELSE k + 1
  <2>1. m \in 1 .. Len(s) /\ m # i /\ s[m].type \in FrozenKinds
    BY <1>2 DEF Frozen
  <2>2. CASE m < i
    <3>1. m \in DOMAIN t /\ t[m] = s[m]
      BY <1>2, <2>1, <2>2
    <3> QED
      BY <2>1, <2>2, <3>1 DEF Frozen
  <2>3. CASE ~(m < i)
    <3>1. m - 1 \in DOMAIN t /\ t[m - 1] = s[m] /\ ~(m - 1 < i) /\ m - 1 + 1 = m
      BY <1>2, <2>1, <2>3
    <3> QED
      BY <2>1, <3>1 DEF Frozen
  <2> QED
    BY <2>2, <2>3
<1> QED
  BY <1>1, <1>3, <1>4

\* ... and the order of the others stays.
LEMMA OrderKept ==
    ASSUME NEW s \in Seq(RoleJobs), NEW i \in DOMAIN s, NEW k \in Frozen(RemoveAt(s, i)),
           \A m \in Frozen(RemoveAt(s, i)) : m <= k, NEW n \in Frozen(s) \ {i}
    PROVE  n <= IF k < i THEN k ELSE k + 1
<1>1. PICK t : t = RemoveAt(s, i)
  OBVIOUS
<1>2. PICK m \in Frozen(t) : n = IF m < i THEN m ELSE m + 1
  BY <1>1, OneLess
<1>3. m <= k /\ m \in Int /\ k \in Int /\ i \in Int
  BY <1>1, OneLess
<1> QED
  BY <1>2, <1>3

\* One taken out that is not frozen.
LEMMA CalmTakenOut ==
    ASSUME NEW s \in Seq(RoleJobs), NEW i \in DOMAIN s, s[i].type \notin FrozenKinds
    PROVE  Alike(s, RemoveAt(s, i))
<1>1. PICK t : t = RemoveAt(s, i)
  OBVIOUS
<1>2. i \notin Frozen(s)
  BY DEF Frozen
<1>3. /\ \A k \in Frozen(t) : \E m \in Frozen(s) : /\ t[k] = s[m]
                                                   /\ m = IF k < i THEN k ELSE k + 1
      /\ \A m \in Frozen(s) \ {i} : \E k \in Frozen(t) : m = IF k < i THEN k ELSE k + 1
  BY <1>1, OneLess
<1>4. Untried(s) => Untried(t)
  BY <1>3 DEF Untried
<1>5. LastFits(s) => LastFits(t)
  <2>1. SUFFICES ASSUME LastFits(s), NEW k \in Frozen(t), \A m \in Frozen(t) : m <= k
                 PROVE Fits(t[k].type)
    BY DEF LastFits
  <2>2. PICK m \in Frozen(s) : t[k] = s[m] /\ m = IF k < i THEN k ELSE k + 1
    BY <1>3
  <2>3. \A n \in Frozen(s) : n <= m
    BY <1>1, <1>2, <2>1, <2>2, OrderKept
  <2> QED
    BY <2>1, <2>2, <2>3 DEF LastFits
<1>6. Frozen(t) = {} => Frozen(s) = {}
  BY <1>2, <1>3
<1> QED
  BY <1>1, <1>4, <1>5, <1>6 DEF Alike

\* The first of the frozen ones taken out.
LEMMA FirstTakenOut ==
    ASSUME NEW s \in Seq(RoleJobs), NEW i \in Frozen(s), \A k \in Frozen(s) : i <= k,
           LastFits(s), Untried(s)
    PROVE  LET t == RemoveAt(s, i)
           IN /\ Untried(t) /\ LastFits(t)
              /\ Frozen(t) = {} => Fits(s[i].type)
<1>1. PICK t : t = RemoveAt(s, i)
  OBVIOUS
<1>2. i \in DOMAIN s /\ i \in Int
  BY DEF Frozen
<1>3. /\ \A k \in Frozen(t) : \E m \in Frozen(s) : /\ t[k] = s[m] /\ m # i /\ m \in Int
                                                   /\ m = IF k < i THEN k ELSE k + 1
      /\ \A m \in Frozen(s) \ {i} : \E k \in Frozen(t) : m = IF k < i THEN k ELSE k + 1
  BY <1>1, <1>2, OneLess
<1>4. Untried(t)
  BY <1>3 DEF Untried
<1>5. LastFits(t)
  <2>1. SUFFICES ASSUME NEW k \in Frozen(t), \A m \in Frozen(t) : m <= k
                 PROVE Fits(t[k].type)
    BY DEF LastFits
  <2>2. PICK m \in Frozen(s) : /\ t[k] = s[m] /\ m # i /\ m = IF k < i THEN k ELSE k + 1
    BY <1>3
  <2>3. \A n \in Frozen(s) \ {i} : n <= m
    BY <1>1, <1>2, <2>1, <2>2, OrderKept
  <2>4. i <= m
    OBVIOUS
  <2> QED
    BY <2>2, <2>3, <2>4 DEF LastFits
<1>6. Frozen(t) = {} => Fits(s[i].type)
  <2>1. SUFFICES ASSUME Frozen(t) = {} PROVE Fits(s[i].type)
    OBVIOUS
  <2>2. \A k \in Frozen(s) : k = i
    BY <1>3, <2>1
  <2> QED
    BY <1>2, <2>2 DEF LastFits
<1> QED
  BY <1>1, <1>4, <1>5, <1>6

\* The rule of the Applicant role survives a step that gives the role up, or
\* leaves its jobs, its requests and the decision alone.
LEMMA PhaseMoves ==
    ASSUME PhaseInv, Conduct',
           \/ "applicant" \in adrift'
           \/ /\ "applicant" \notin adrift
              /\ Alike(jobs, jobs') /\ SameAsking /\ phase' = phase /\ (Standing => Standing')
    PROVE  PhaseInv'
<1>1. CASE "applicant" \in adrift'
  BY <1>1 DEF PhaseInv
<1>2. CASE /\ "applicant" \notin adrift
           /\ Alike(jobs, jobs') /\ SameAsking /\ phase' = phase /\ (Standing => Standing')
  <2>1. Settled
    BY <1>2 DEF PhaseInv
  <2>2. Untried(jobs)'
    BY <2>1, <1>2 DEF Settled, Alike, Untried, Frozen
  <2>3. \A k : Fits(k)' <=> Fits(k)
    BY <1>2 DEF Fits
  <2>4. \A c, d \in Callers : Asking(c)' /\ Asking(d)' => c = d
    BY <2>1, <1>2 DEF Settled, SameAsking
  <2>5. \A c \in Callers : Asking(c)' => Fits(callers'[c].op)
    BY <2>1, <1>2 DEF Settled, SameAsking
  <2>6. ASSUME \A c \in Callers : ~Asking(c)'
        PROVE  LastFits(jobs)' /\ (Frozen(jobs)' = {} => Standing')
    <3>1. LastFits(jobs) /\ (Frozen(jobs) = {} => Standing)
      BY <2>1, <2>6, <1>2 DEF Settled, SameAsking
    <3>2. LastFits(jobs') /\ (Frozen(jobs') = {} => Standing')
      BY <3>1, <1>2 DEF Alike
    <3> QED
      BY <3>2, <2>3 DEF LastFits, Frozen
  <2>7. Settled'
    BY <2>2, <2>3, <2>4, <2>5, <2>6 DEF Settled
  <2> QED
    BY <2>7 DEF PhaseInv
<1> QED
  BY <1>1, <1>2

\* A queue that stays, and one that grows at its end, are alike.
LEMMA SameQueue == ASSUME jobs' = jobs PROVE Alike(jobs, jobs')
  BY DEF Alike

\* Anything but the drain moves.
LEMMA PhaseQuiet ==
    ASSUME Ground, PhaseInv, NEW R, Drifts(R), Alike(jobs, jobs'), SameAsking, Ground',
           phase' = phase,
           "applicant" \in R \/ ("applicant" \in worn' <=> "applicant" \in worn)
    PROVE  PhaseInv'
<1>1. Conduct'
  BY DEF PhaseInv, Conduct, Drifts
<1>2. CASE "applicant" \in R \/ "applicant" \in adrift
  <2>1. "applicant" \in adrift'
    BY <1>2 DEF Drifts
  <2> QED
    BY <1>1, <2>1, PhaseMoves
<1>3. CASE ~("applicant" \in R \/ "applicant" \in adrift)
  <2>1. "applicant" \in Wanted' <=> "applicant" \in Wanted
    BY WantedApplicant
  <2>2. /\ AtWork' <=> AtWork
        /\ Heading("applicant")' <=> Heading("applicant")
        /\ Right("applicant")' <=> Right("applicant")
        /\ Fits(drain.job.type)' <=> Fits(drain.job.type)
    BY <1>3, <2>1 DEF AtWork, Heading, Right, Fits, Drifts
  <2>3. Standing => Standing'
    BY <2>2 DEF Standing
  <2> QED
    BY <1>1, <1>3, <2>3, PhaseMoves
<1> QED
  BY <1>2, <1>3

\* A drift leaves the dispatch alone but for what it gives up.
LEMMA DriftsBy ==
    ASSUME Ground, NEW R \in SUBSET GuildRoles, Drift(R)
    PROVE  Drifts(R)
  BY Drifted DEF Ground, GuildOK, Drifts

\* A request that is not about the Applicant role.
LEMMA OtherPhase ==
    ASSUME Ground, Ground', PhaseInv, NEW R \in SUBSET GuildRoles, Drift(R), NEW c \in Callers,
           Apart(c), ~Asking(c), ~Asking(c)', UNCHANGED <<phase, worn, jobs>>
    PROVE  PhaseInv'
<1>1. SameAsking
  BY DEF SameAsking, Asking, RoleAsks, Apart
<1> QED
  BY <1>1, DriftsBy, SameQueue, PhaseQuiet

\* A request that has nothing to do with the role.
LEMMA StillPhase ==
    ASSUME Ground, Ground', PhaseInv, UNCHANGED <<drain, adrift>>, NEW c \in Callers,
           Apart(c), ~Asking(c), ~Asking(c)', UNCHANGED <<phase, worn, jobs>>
    PROVE  PhaseInv'
<1>1. SameAsking
  BY DEF SameAsking, Asking, RoleAsks, Apart
<1>2. Drifts({})
  BY DEF Drifts
<1> QED
  BY <1>1, <1>2, SameQueue, PhaseQuiet

\* The rule of the Applicant role survives a load ...
LEMMA LoadPhase ==
    ASSUME Ground, PhaseInv, NEW c \in Callers, NEW o \in {"rank", "role", "ban", "unban"},
           NEW g \in Ranks \cup {"none"}, o = "rank" => g \in Ranks, LoadMember(c, o, g)
    PROVE  PhaseInv'
<1>1. /\ Ground' /\ Apart(c) /\ callers[c].at # "enqueue" /\ callers'[c].at # "enqueue"
  BY LoadEffect
<1>2. UNCHANGED <<phase, worn, jobs, drain, adrift>>
  BY DEF LoadMember, guild, roster
<1> QED
  BY <1>1, <1>2, StillPhase DEF Asking, RoleAsks

\* ... a derive ...
LEMMA DerivePhase ==
    ASSUME Ground, PhaseInv, NEW c \in Callers, Derive(c)
    PROVE  PhaseInv'
<1>1. /\ Ground' /\ Apart(c) /\ callers[c].at # "enqueue" /\ callers'[c].at # "enqueue"
  BY DeriveEffect
<1>2. UNCHANGED <<phase, worn, jobs, drain, adrift>>
  BY DEF Derive, guild, roster
<1> QED
  BY <1>1, <1>2, StillPhase DEF Asking, RoleAsks

\* ... an approval that reads the guild ...
LEMMA ApprovePhase ==
    ASSUME Ground, PhaseInv, NEW c \in Callers, Approve(c)
    PROVE  PhaseInv'
<1>1. /\ Ground' /\ Apart(c) /\ callers[c].at # "enqueue" /\ callers'[c].at # "enqueue"
  BY ApproveEffect
<1>2. UNCHANGED <<phase, worn, jobs, drain, adrift>>
  BY DEF Approve, guild, roster
<1> QED
  BY <1>1, <1>2, StillPhase DEF Asking, RoleAsks

\* ... one that comes too late ...
LEMMA LatePhase ==
    ASSUME Ground, PhaseInv, NEW c \in Callers, ApproveCommit(c), phase # "applicant"
    PROVE  PhaseInv'
<1>1. /\ Ground' /\ Apart(c) /\ callers[c].at # "enqueue" /\ callers'[c].at # "enqueue"
      /\ UNCHANGED <<roster, guild, switches, jobs, drain, adrift>>
  BY LateEffect
<1>2. UNCHANGED <<phase, worn, jobs, drain, adrift>>
  BY <1>1 DEF guild, roster
<1> QED
  BY <1>1, <1>2, StillPhase DEF Asking, RoleAsks

\* ... an award or its removal ...
LEMMA AwardPhase ==
    ASSUME Ground, PhaseInv, NEW c \in Callers, AwardMedal(c)
    PROVE  PhaseInv'
<1>1. /\ Ground' /\ Apart(c) /\ callers[c].at # "enqueue" /\ callers'[c].op = "medal"
  BY AwardEffect
<1>2. UNCHANGED <<phase, worn, jobs, drain, adrift>>
  BY DEF AwardMedal, guild
<1> QED
  BY <1>1, <1>2, StillPhase DEF Asking, RoleAsks

\* What SaveMember gives up is roles.
LEMMA SavedDrift ==
    ASSUME Ground, NEW c \in Callers, callers[c].copy \in Rows, NEW new \in Rows,
           NEW n, NEW o, SaveMember(c, new, n, o)
    PROVE  \E R \in SUBSET GuildRoles : Drift(R)
<1> DEFINE copy == callers[c].copy
           next == Wants(phase, new, awards)
           moved == (Wanted \ next) \cup (next \ Wanted)
           R == CASE copy = row -> {}
                  [] callers[c].op # "ban" /\ copy.banned # row.banned -> GuildRoles
                  [] OTHER -> moved \ o
<1>1. Drift(R)
  BY DEF SaveMember
<1>2. next \subseteq GuildRoles /\ Wanted \subseteq GuildRoles
  BY DesiredType DEF Wanted, Ground, RosterOK
<1> HIDE DEF next
<1>3. R \in SUBSET GuildRoles
  BY <1>2
<1> HIDE DEF R
<1> QED
  BY <1>1, <1>3

\* ... a rank change ...
LEMMA RankPhase ==
    ASSUME Ground, PhaseInv, NEW c \in Callers, ChangeRank(c)
    PROVE  PhaseInv'
<1>1. /\ Ground' /\ Apart(c) /\ callers'[c].op = "rank" /\ callers[c].at = "save"
      /\ callers[c].copy \in Rows /\ callers[c].rank \in Ranks
  BY RankEffect
<1> DEFINE new == [callers[c].copy EXCEPT !.rank = callers[c].rank]
<1>2. /\ SaveMember(c, new, RankScope(callers[c].copy.rank, callers[c].rank),
                    {callers[c].copy.rank, callers[c].rank})
      /\ UNCHANGED <<phase, worn, jobs>>
  BY DEF ChangeRank, guild
<1>3. new \in Rows
  BY <1>1, RowEdits
<1> HIDE DEF new
<1>4. PICK R \in SUBSET GuildRoles : Drift(R)
  BY <1>1, <1>2, <1>3, SavedDrift
<1> QED
  BY <1>1, <1>2, <1>4, OtherPhase DEF Asking, RoleAsks

\* ... a change of the Membership role ...
LEMMA RolePhase ==
    ASSUME Ground, PhaseInv, NEW c \in Callers, ChangeRole(c)
    PROVE  PhaseInv'
<1>1. /\ Ground' /\ Apart(c) /\ callers'[c].op = "role" /\ callers[c].at = "save"
      /\ callers[c].copy \in Rows
  BY RoleEffect
<1> DEFINE new == [callers[c].copy EXCEPT !.enrolled = ~callers[c].copy.enrolled]
<1>2. /\ SaveMember(c, new, {"enrolled"}, {"enrolled"})
      /\ UNCHANGED <<phase, worn, jobs>>
  BY DEF ChangeRole, guild
<1>3. new \in Rows
  <2>1. (~callers[c].copy.enrolled) \in BOOLEAN
    OBVIOUS
  <2> QED
    BY <1>1, <2>1, RowEdits
<1> HIDE DEF new
<1>4. PICK R \in SUBSET GuildRoles : Drift(R)
  BY <1>1, <1>2, <1>3, SavedDrift
<1> QED
  BY <1>1, <1>2, <1>4, OtherPhase DEF Asking, RoleAsks

\* ... a ban ...
LEMMA BanPhase ==
    ASSUME Ground, PhaseInv, NEW c \in Callers, Ban(c)
    PROVE  PhaseInv'
<1>1. /\ Ground' /\ Apart(c) /\ callers'[c].op = "ban"
  BY BanEffect
<1> DEFINE new == [callers[c].copy EXCEPT !.banned = TRUE]
<1>2. /\ SaveMember(c, new, {}, GuildRoles) /\ callers[c].at = "save" /\ callers[c].op = "ban"
      /\ UNCHANGED <<phase, worn, jobs>>
  BY DEF Ban, guild, CallerAt
<1>3. callers[c].copy \in Rows
  BY <1>2 DEF Ground, CallersOK, CallerShape
<1>4. new \in Rows
  BY <1>3, RowEdits
<1> HIDE DEF new
<1>5. PICK R \in SUBSET GuildRoles : Drift(R)
  BY <1>2, <1>3, <1>4, SavedDrift
<1> QED
  BY <1>1, <1>2, <1>5, OtherPhase DEF Asking, RoleAsks

\* ... an unban ...
LEMMA UnbanPhase ==
    ASSUME Ground, PhaseInv, NEW c \in Callers, Unban(c)
    PROVE  PhaseInv'
<1>1. Drifts(GuildRoles)
  BY UnbanEffect, DriftsBy
<1>2. "applicant" \in adrift' /\ "applicant" \in GuildRoles
  BY <1>1, RoleSet DEF Drifts
<1>3. Conduct'
  BY <1>1 DEF PhaseInv, Conduct, Drifts
<1> QED
  BY <1>2, <1>3, PhaseMoves

\* ... a derive that commits.
LEMMA DerivedPhase ==
    ASSUME Ground, PhaseInv, NEW c \in Callers, DeriveCommit(c)
    PROVE  PhaseInv'
<1>1. /\ Ground' /\ Apart(c) /\ callers'[c].op = "derive" /\ callers[c].at = "commit"
      /\ \E R \in SUBSET GuildRoles : Drift(R)
  BY DerivedEffect
<1>2. UNCHANGED <<phase, worn, jobs>>
  BY DEF DeriveCommit, guild
<1>3. PICK R \in SUBSET GuildRoles : Drift(R)
  BY <1>1
<1> QED
  BY <1>1, <1>2, <1>3, OtherPhase DEF Asking, RoleAsks

\* A request about the Applicant role has committed: it is the only one, or the
\* role is given up.
LEMMA CrossedPhase ==
    ASSUME Ground, Ground', PhaseInv, NEW c \in Callers, Apart(c), callers[c].at # "enqueue",
           Asking(c)', Fits(callers[c].op)', Drift(Crossed), jobs' = jobs
    PROVE  PhaseInv'
<1>1. Crossed \in SUBSET GuildRoles
  BY RoleSet DEF Crossed
<1>2. Drifts(Crossed)
  BY <1>1, DriftsBy
<1>3. Conduct'
  BY <1>2 DEF PhaseInv, Conduct, Drifts
<1>4. CASE "applicant" \in adrift'
  BY <1>3, <1>4 DEF PhaseInv
<1>5. CASE "applicant" \notin adrift'
  <2>1. "applicant" \notin adrift /\ "applicant" \notin Crossed
    BY <1>2, <1>5 DEF Drifts
  <2>2. \A d \in Callers : ~Asking(d)
    BY <2>1 DEF Crossed, Asking, RoleAsks
  <2>3. \A d \in Callers : Asking(d)' => d = c
    BY <2>2 DEF Asking, RoleAsks, Apart
  <2>4. Untried(jobs)'
    BY <2>1 DEF PhaseInv, Settled, Untried, Frozen
  <2>5. Settled'
    BY <2>3, <2>4 DEF Settled
  <2> QED
    BY <1>3, <2>5 DEF PhaseInv
<1> QED
  BY <1>4, <1>5

\* An application asks for the role.
LEMMA ApplyPhase ==
    ASSUME Ground, PhaseInv, NEW c \in Callers, Apply(c)
    PROVE  PhaseInv'
<1>1. /\ Ground' /\ Apart(c) /\ callers[c].at # "enqueue" /\ callers'[c].at = "enqueue"
      /\ callers'[c].op = "assign"
  BY ApplyEffect
<1>2. phase' = "applicant" /\ Drift(Crossed) /\ jobs' = jobs
  BY DEF Apply
<1>3. Asking(c)' /\ Fits(callers[c].op)'
  BY <1>1, <1>2 DEF Asking, RoleAsks, Fits
<1> QED
  BY <1>1, <1>2, <1>3, CrossedPhase

\* A decision against it takes it back.
LEMMA DeclinePhase ==
    ASSUME Ground, PhaseInv, NEW c \in Callers, Decline(c)
    PROVE  PhaseInv'
<1>1. /\ Ground' /\ Apart(c) /\ callers[c].at # "enqueue" /\ callers'[c].at = "enqueue"
      /\ callers'[c].op = "remove"
  BY DeclineEffect
<1>2. phase' = "guest" /\ Drift(Crossed) /\ jobs' = jobs
  BY DEF Decline
<1>3. Asking(c)' /\ Fits(callers[c].op)'
  BY <1>1, <1>2 DEF Asking, RoleAsks, Fits
<1> QED
  BY <1>1, <1>2, <1>3, CrossedPhase

\* An enlistment takes it back.
LEMMA EnlistsPhase ==
    ASSUME Ground, PhaseInv, NEW c \in Callers, Enlists(c)
    PROVE  PhaseInv'
<1>1. /\ Ground' /\ Apart(c) /\ callers'[c].at = "enqueue" /\ callers'[c].op = "approve"
      /\ callers[c].at = "commit" /\ phase' = "member" /\ Drift(Crossed)
  BY EnlistsEffect
<1>2. jobs' = jobs
  BY DEF Enlists, ApproveCommit
<1>3. Asking(c)' /\ Fits(callers[c].op)'
  BY <1>1 DEF Asking, RoleAsks, Fits
<1> QED
  BY <1>1, <1>2, <1>3, CrossedPhase

\* A request queues what it asked for.
LEMMA AfterPhase ==
    ASSUME Ground, PhaseInv, NEW c \in Callers, AfterCommit(c)
    PROVE  PhaseInv'
<1>0. PICK q, a, b, R : q = callers[c] /\ a = Queues(q) /\ b = QueuesThen(q)
                        /\ R = Lost(a) \cup Lost(b)
  OBVIOUS
<1>1. /\ Ground' /\ Apart(c) /\ q.at = "enqueue" /\ callers'[c].at # "enqueue"
      /\ q \in Requests /\ CallerShape(q) /\ Drift(R) /\ R \in SUBSET GuildRoles
  BY <1>0, AfterEffect
<1>2. /\ jobs' = (jobs \o Kept(a)) \o Kept(b)
      /\ UNCHANGED <<phase, worn>>
  BY <1>0 DEF AfterCommit, Enqueue, roster, guild
<1>3. /\ a \in RoleJobs /\ (b \in RoleJobs \/ b = Nothing)
      /\ ~a.tried
      /\ q.op \in RoleNames => a.type = "scoped"
      /\ q.op = "ban" => a.type = "ban"
      /\ q.op \in FrozenKinds => a.type = q.op
      /\ q.op = "approve" => a.type = "remove"
      /\ q.op \in {"assign", "remove", "approve"} => a.owes = {"applicant"}
      /\ b = Nothing \/ b.type = "grant"
  <2>1. ~a.tried
    BY <1>0 DEF Queues, Job
  <2> QED
    BY <1>0, <1>1, <2>1, QueuesJobs DEF RoleNames
<1>4. b.type \notin FrozenKinds
  BY <1>3, NewJobs DEF FrozenKinds
<1>5. jobs \in Seq(RoleJobs)
  BY DEF Ground, JobsOK
<1>6. PICK s : s = jobs \o Kept(a)
  OBVIOUS
<1>7. s \in Seq(RoleJobs)
  BY <1>3, <1>5, <1>6, KeptJob
<1>8. Alike(s, jobs')
  BY <1>2, <1>3, <1>4, <1>6, <1>7, CalmKept
<1>9. Drifts(R)
  BY <1>1, DriftsBy
<1>10. Conduct'
  BY <1>9 DEF PhaseInv, Conduct, Drifts
<1>11. ~Asking(c)' /\ (Asking(c) <=> q.op \in {"assign", "remove", "approve"})
  BY <1>0, <1>1 DEF Asking, RoleAsks
<1>12. \A d \in Callers : d # c => (Asking(d)' <=> Asking(d)) /\ callers'[d] = callers[d]
  BY <1>1 DEF Asking, RoleAsks, Apart
<1>13. CASE ~Asking(c)
  <2>1. a.type \notin FrozenKinds
    <3>1. q.op \in RoleNames \cup {"ban"}
      BY <1>1, <1>11, <1>13 DEF Requests, CallerShape, RoleNames
    <3> QED
      BY <3>1, <1>3 DEF FrozenKinds
  <2>2. Alike(jobs, s)
    BY <1>3, <1>5, <1>6, <2>1, CalmKept
  <2>3. Alike(jobs, jobs')
    BY <1>8, <2>2 DEF Alike
  <2>4. SameAsking
    BY <1>11, <1>12, <1>13 DEF SameAsking
  <2> QED
    BY <1>1, <1>2, <1>9, <2>3, <2>4, PhaseQuiet
<1>14. CASE Asking(c) /\ "applicant" \notin adrift'
  <2>1. Settled /\ "applicant" \notin R
    BY <1>9, <1>14 DEF PhaseInv, Drifts
  <2>2. a.type \in FrozenKinds /\ Passes(a)
    BY <1>0, <1>3, <1>11, <1>14, <2>1 DEF Lost, FrozenKinds
  <2>3. Fits(q.op)
    BY <1>0, <1>14, <2>1 DEF Settled
  <2>4. Fits(a.type)
    BY <1>3, <1>11, <1>14, <2>3 DEF Fits, FrozenKinds
  <2>5. s = jobs \o <<a>>
    BY <1>6, <2>2 DEF Kept
  <2>6. Untried(s) /\ LastFits(s) /\ Frozen(s) # {}
    BY <1>3, <1>5, <2>1, <2>2, <2>4, <2>5, FrozenAppended DEF Settled
  <2>7. Untried(jobs') /\ LastFits(jobs') /\ Frozen(jobs') # {}
    BY <1>8, <2>6 DEF Alike
  <2>8. \A d \in Callers : ~Asking(d)'
    BY <1>11, <1>12, <1>14, <2>1 DEF Settled
  <2>9. Untried(jobs)' /\ LastFits(jobs)' /\ Frozen(jobs)' # {}
    BY <1>2, <2>7 DEF Untried, LastFits, Frozen, Fits
  <2>10. Settled'
    BY <2>8, <2>9 DEF Settled
  <2> QED
    BY <1>10, <2>10 DEF PhaseInv
<1>15. CASE "applicant" \in adrift'
  BY <1>10, <1>15 DEF PhaseInv
<1> QED
  BY <1>13, <1>14, <1>15

\* Nobody's request moves.
LEMMA CallersStay == ASSUME callers' = callers PROVE SameAsking
  BY DEF SameAsking, Asking, RoleAsks

\* The role given or taken by hand is given up.
LEMMA HandPhase ==
    ASSUME Ground, PhaseInv, NEW g \in Managed, ByHand(g)
    PROVE  PhaseInv'
<1>1. /\ Ground' /\ Drift({g}) /\ (\A s \in GuildRoles \ {g} : s \in worn' <=> s \in worn)
      /\ UNCHANGED <<roster, switches, callers, jobs>>
  BY HandEffect
<1>2. Drifts({g})
  BY <1>1, RoleSet, DriftsBy
<1>3. "applicant" \in {g} \/ ("applicant" \in worn' <=> "applicant" \in worn)
  BY <1>1, RoleSet
<1> QED
  BY <1>1, <1>2, <1>3, SameQueue, CallersStay, PhaseQuiet DEF roster

\* Somebody leaves ...
LEMMA LeavePhase ==
    ASSUME Ground, PhaseInv, Leave
    PROVE  PhaseInv'
<1>1. /\ Ground' /\ Drift(worn) /\ worn \in SUBSET GuildRoles /\ worn' = {}
      /\ UNCHANGED <<roster, switches, callers, jobs>>
  BY LeaveEffect
<1>2. Drifts(worn)
  BY <1>1, DriftsBy
<1> QED
  BY <1>1, <1>2, SameQueue, CallersStay, PhaseQuiet DEF roster

\* ... or joins ...
LEMMA JoinPhase ==
    ASSUME Ground, PhaseInv, Join
    PROVE  PhaseInv'
<1>1. PICK R \in SUBSET GuildRoles : Drift(R)
  BY JoinEffect
<1>2. /\ Ground' /\ UNCHANGED <<roster, worn, switches, callers>>
      /\ \/ jobs' = jobs
         \/ \E j \in RoleJobs : j.type \in {"grant", "ban"} /\ jobs' = jobs \o <<j>>
  BY JoinEffect
<1>3. Alike(jobs, jobs')
  <2>1. CASE jobs' = jobs
    BY <2>1, SameQueue
  <2>2. ASSUME NEW j \in RoleJobs, j.type \in {"grant", "ban"}, jobs' = jobs \o <<j>>
        PROVE  Alike(jobs, jobs')
    BY <2>2, CalmAppended DEF Ground, JobsOK, FrozenKinds
  <2> QED
    BY <1>2, <2>1, <2>2
<1> QED
  BY <1>1, <1>2, <1>3, DriftsBy, CallersStay, PhaseQuiet DEF roster

\* ... is resynced ...
LEMMA ResyncPhase ==
    ASSUME Ground, PhaseInv, Resync
    PROVE  PhaseInv'
<1>1. /\ Ground' /\ jobs' = jobs \o <<Job("resync", {}, {})>>
      /\ UNCHANGED <<roster, guild, switches, callers, drain, adrift>>
  BY ResyncEffect
<1>2. Drifts({})
  BY <1>1 DEF Drifts
<1>3. Alike(jobs, jobs')
  BY <1>1, NewJobs, CalmAppended DEF Ground, JobsOK, FrozenKinds
<1> QED
  BY <1>1, <1>2, <1>3, CallersStay, PhaseQuiet DEF roster, guild

\* ... or a switch is turned.
LEMMA SwitchPhase ==
    ASSUME Ground, PhaseInv, NEW s \in {"bot", "sync", "strip"}, Switch(s)
    PROVE  PhaseInv'
<1>1. Ground' /\ UNCHANGED <<roster, guild, jobs, callers, drain, adrift>>
  BY SwitchEffect
<1>2. Drifts({})
  BY <1>1 DEF Drifts
<1> QED
  BY <1>1, <1>2, SameQueue, CallersStay, PhaseQuiet DEF roster, guild

\* The worker passes a job over.
LEMMA SkipPhase ==
    ASSUME Ground, PhaseInv, NEW i \in DOMAIN jobs, Take(i), Skips(i)
    PROVE  PhaseInv'
<1>1. /\ Ground' /\ drain.at = "idle" /\ drain' = drain /\ jobs' = RemoveAt(jobs, i)
      /\ adrift' = adrift \cup (IF GateOpen(jobs[i].type) THEN {} ELSE jobs[i].owes)
      /\ UNCHANGED <<roster, guild, switches, callers>>
  BY SkipEffect
<1>2. PICK R : R = (IF GateOpen(jobs[i].type) THEN {} ELSE jobs[i].owes)
  OBVIOUS
<1>3. Drifts(R)
  BY <1>1, <1>2 DEF Drifts, Ground, DrainOK
<1>4. jobs[i].type \notin FrozenKinds /\ jobs \in Seq(RoleJobs)
  BY DEF Skips, Ground, JobsOK
<1>5. Alike(jobs, jobs')
  BY <1>1, <1>4, CalmTakenOut
<1> QED
  BY <1>1, <1>3, <1>5, CallersStay, PhaseQuiet DEF roster, guild

\* It starts one: a frozen job is the first of its kind in the queue.
LEMMA StartPhase ==
    ASSUME Ground, PhaseInv, NEW i \in DOMAIN jobs, Take(i), ~Skips(i)
    PROVE  PhaseInv'
<1>0. PICK j : j = jobs[i]
  OBVIOUS
<1>1. /\ Ground' /\ drain.at = "idle" /\ jobs' = RemoveAt(jobs, i)
      /\ drain'.at = (IF j.type \in FrozenKinds THEN "call" ELSE "read")
      /\ drain'.job = j /\ drain'.wanted = DesiredNow
      /\ drain'.add = (IF j.type = "assign" THEN j.names ELSE {})
      /\ drain'.drop = (IF j.type = "remove" THEN j.names ELSE {})
      /\ drain'.heals = Cures(j)
      /\ adrift' = adrift \cup Lifted(j)
      /\ UNCHANGED <<roster, guild, switches, callers>>
  BY <1>0, StartEffect
<1>2. j \in RoleJobs /\ JobShape(j) /\ j.type \in StepKinds /\ jobs \in Seq(RoleJobs)
  BY <1>0, JobFacts DEF Ground, JobsOK
<1>3. "applicant" \notin DesiredNow
  BY DesiredType, RoleSet DEF DesiredNow, Ground, RosterOK, Rows
<1>4. Conduct'
  <2>1. "applicant" \notin Cures(j)
    BY <1>2, <1>3, RoleSet DEF Cures, JobShape, StepKinds
  <2> QED
    BY <1>1, <1>3, <2>1 DEF Conduct
<1>5. UNCHANGED <<phase, worn>>
  BY <1>1 DEF roster, guild
<1>6. /\ "applicant" \in Wanted' <=> phase = "applicant"
      /\ Right("applicant")' <=> Right("applicant")
  BY <1>1, <1>5, WantedApplicant DEF Right
<1>7. SameAsking
  BY <1>1, CallersStay
<1>8. CASE "applicant" \in adrift'
  BY <1>4, <1>8 DEF PhaseInv
<1>9. CASE "applicant" \notin adrift' /\ j.type \notin FrozenKinds
  <2>1. Alike(jobs, jobs')
    BY <1>0, <1>1, <1>2, <1>9, CalmTakenOut
  <2>2. Standing => Standing'
    BY <1>1, <1>6, <1>9 DEF Standing, AtWork
  <2> QED
    BY <1>1, <1>4, <1>5, <1>7, <1>9, <2>1, <2>2, PhaseMoves
<1>10. CASE "applicant" \notin adrift' /\ j.type \in FrozenKinds
  <2>1. Settled
    BY <1>1, <1>10 DEF PhaseInv
  <2>2. i \in Frozen(jobs) /\ ~jobs[i].tried
    BY <1>0, <1>10, <2>1 DEF Frozen, Settled, Untried
  <2>3. \A k \in Frozen(jobs) : i <= k
    <3>1. \A k \in 1 .. i - 1 : jobs[k].tried
      BY <2>2 DEF Take, Due
    <3>2. \A k \in Frozen(jobs) : k \in 1 .. Len(jobs) /\ k \notin 1 .. i - 1
      BY <1>2, <2>1, <3>1 DEF Frozen, Settled, Untried
    <3> QED
      BY <1>2, <3>2
  <2>4. PICK t : t = RemoveAt(jobs, i)
    OBVIOUS
  <2>5. Untried(t)
    <3>1. \A k \in Frozen(t) : \E m \in Frozen(jobs) : t[k] = jobs[m]
      BY <1>2, <2>4, OneLess
    <3> QED
      BY <2>1, <3>1 DEF Settled, Untried
  <2>6. (\A c \in Callers : ~Asking(c)) => LastFits(t) /\ (Frozen(t) = {} => Fits(j.type))
    BY <1>0, <1>2, <2>1, <2>2, <2>3, <2>4, FirstTakenOut DEF Settled
  <2>7. Fits(j.type) => Standing'
    <3>1. j.names = {"applicant"} /\ (j.type = "assign" \/ j.type = "remove")
      BY <1>2, <1>10 DEF JobShape, FrozenKinds
    <3>2. CASE Fits(j.type) /\ j.type = "assign"
      <4>1. phase = "applicant" /\ "applicant" \in drain'.add
        BY <1>1, <3>1, <3>2 DEF Fits
      <4> QED
        BY <1>1, <1>5, <1>6, <1>10, <3>2, <4>1 DEF Standing, AtWork, Fits, Heading
    <3>3. CASE Fits(j.type) /\ j.type = "remove"
      <4>1. phase # "applicant" /\ "applicant" \in drain'.drop
        BY <1>1, <3>1, <3>3 DEF Fits
      <4> QED
        BY <1>1, <1>5, <1>6, <1>10, <3>3, <4>1 DEF Standing, AtWork, Fits, Heading
    <3> QED
      BY <3>1, <3>2, <3>3
  <2>8. \A c \in Callers : (Asking(c)' <=> Asking(c)) /\ callers'[c] = callers[c]
    BY <1>1, <1>7 DEF SameAsking
  <2>9. Untried(jobs)' /\ ((\A c \in Callers : ~Asking(c)) => LastFits(jobs)')
        /\ ((\A c \in Callers : ~Asking(c)) => (Frozen(jobs)' = {} => Fits(j.type)))
    BY <1>1, <1>5, <2>4, <2>5, <2>6 DEF Untried, LastFits, Frozen, Fits
  <2>10. Settled'
    BY <1>5, <2>1, <2>7, <2>8, <2>9 DEF Settled, Fits
  <2> QED
    BY <1>4, <2>10 DEF PhaseInv
<1> QED
  BY <1>8, <1>9, <1>10

\* A dispatch that reads the guild does not give the Applicant role.
LEMMA FetchPhase ==
    ASSUME Ground, PhaseInv, FetchMember
    PROVE  PhaseInv'
<1>1. Ground' /\ drain.at = "read" /\ UNCHANGED <<roster, guild, switches, callers, jobs>>
  BY FetchEffect
<1>2. PICK readable \in BOOLEAN :
        LET seen == IF readable THEN worn ELSE {}
            add == Additions(drain.job, drain.wanted, seen)
        IN /\ drain'.at = "call" /\ drain'.job = drain.job
           /\ drain'.wanted = drain.wanted /\ drain'.add = add
           /\ drain'.drop = Removals(drain.job, drain.wanted, readable, seen)
           /\ drain'.heals = drain.heals \ Missed(readable, add)
           /\ adrift' = adrift \cup Missed(readable, add)
  BY FetchEffect
<1>3. drain.job.type \notin FrozenKinds
  BY <1>1 DEF Ground, DrainOK
<1>4. "applicant" \notin drain.heals /\ "applicant" \notin drain.wanted
  BY <1>1 DEF PhaseInv, Conduct
<1>5. "applicant" \notin drain'.add
  BY <1>2, <1>4 DEF Additions
<1>6. Conduct'
  BY <1>2, <1>3, <1>4, <1>5 DEF Conduct, FrozenKinds
<1>7. Standing => Standing'
  BY <1>1, <1>2, <1>3 DEF Standing, AtWork, Right, Wanted, roster, guild
<1>8. adrift \subseteq adrift' /\ phase' = phase
  BY <1>1, <1>2 DEF roster
<1> QED
  BY <1>1, <1>6, <1>7, <1>8, SameQueue, CallersStay, PhaseMoves

\* A call to the gateway brings the frozen job nearer, and no other harms it.
LEMMA GatewayPhase ==
    ASSUME Ground, PhaseInv, NEW g \in GuildRoles, CallGateway(g)
    PROVE  PhaseInv'
<1>1. /\ Ground' /\ drain.at = "call" /\ g \in drain.add \cup drain.drop
      /\ worn' = (IF g \in drain.add THEN worn \cup {g} ELSE worn \ {g})
      /\ drain'.at = drain.at /\ drain'.job = drain.job /\ drain'.wanted = drain.wanted
      /\ drain'.add = drain.add \ {g} /\ drain'.drop = drain.drop \ {g}
      /\ drain'.heals = drain.heals
      /\ UNCHANGED <<roster, present, switches, callers, jobs, adrift>>
  BY GatewayEffect
<1>2. Conduct'
  BY <1>1 DEF PhaseInv, Conduct
<1>3. phase' = phase /\ ("applicant" \in Wanted' <=> "applicant" \in Wanted)
      /\ ("applicant" \in Wanted <=> phase = "applicant")
  BY <1>1, WantedApplicant DEF roster
<1>4. Standing => Standing'
  <2>1. (AtWork' <=> AtWork) /\ (Fits(drain.job.type)' <=> Fits(drain.job.type))
    BY <1>1, <1>3 DEF AtWork, Fits
  <2>2. CASE g # "applicant"
    BY <1>1, <1>3, <2>1, <2>2 DEF Standing, Heading, Right
  <2>3. CASE g = "applicant" /\ AtWork
    <3>1. SUFFICES ASSUME Fits(drain.job.type), Heading("applicant") PROVE Heading("applicant")'
      BY <2>1, <2>3 DEF Standing
    <3>2. CASE drain.job.type = "assign"
      <4>1. "applicant" \in worn'
        BY <1>1, <2>3, <3>2 DEF PhaseInv, Conduct
      <4>2. "applicant" \in Wanted'
        BY <1>3, <3>1, <3>2 DEF Fits
      <4> QED
        BY <4>1, <4>2 DEF Heading
    <3>3. CASE drain.job.type # "assign"
      <4>1. "applicant" \notin worn'
        BY <1>1, <2>3, <3>3 DEF PhaseInv, Conduct
      <4>2. "applicant" \notin Wanted'
        BY <1>3, <3>1, <3>3 DEF Fits
      <4> QED
        BY <4>1, <4>2 DEF Heading
    <3> QED
      BY <3>2, <3>3
  <2>4. CASE g = "applicant" /\ ~AtWork
    <3>1. drain.job.type \notin FrozenKinds
      BY <1>1, <2>4 DEF AtWork
    <3>2. phase = "member"
      BY <1>1, <3>1 DEF Ground, Early
    <3>3. "applicant" \notin worn'
      BY <1>1, <2>4, <3>1 DEF PhaseInv, Conduct, FrozenKinds
    <3>4. Right("applicant")'
      BY <1>3, <3>2, <3>3 DEF Right
    <3> QED
      BY <2>1, <2>4, <3>4 DEF Standing
  <2> QED
    BY <2>2, <2>3, <2>4
<1> QED
  BY <1>1, <1>2, <1>3, <1>4, SameQueue, CallersStay, PhaseMoves

\* A frozen job that throws gives its role up, whether it comes again or not.
LEMMA FailPhase ==
    ASSUME Ground, PhaseInv, CallFails
    PROVE  PhaseInv'
<1>0. PICK j : j = drain.job
  OBVIOUS
<1>1. /\ Ground' /\ drain.at = "call" /\ drain' = Idle /\ j \in RoleJobs /\ JobShape(j)
      /\ UNCHANGED <<roster, guild, switches, callers>>
  BY <1>0, FailEffect
<1>2. \/ /\ jobs' = <<[j EXCEPT !.tried = TRUE]>> \o jobs
         /\ adrift' = adrift \cup (IF j.type \in FrozenKinds THEN j.owes ELSE {})
      \/ jobs' = jobs /\ adrift' = adrift \cup j.owes
  BY <1>0, FailEffect
<1>3. Conduct'
  BY <1>1, IdleDrain DEF Conduct
<1>4. CASE j.type \in FrozenKinds
  <2>1. "applicant" \in adrift'
    BY <1>1, <1>2, <1>4 DEF JobShape
  <2> QED
    BY <1>3, <2>1 DEF PhaseInv
<1>5. CASE j.type \notin FrozenKinds
  <2>1. PICK k : k = [j EXCEPT !.tried = TRUE]
    OBVIOUS
  <2>2. k \in RoleJobs /\ k.type = j.type
    BY <1>1, <2>1, Retried
  <2>3. Alike(jobs, <<k>> \o jobs)
    BY <1>5, <2>2, CalmInFront DEF Ground, JobsOK
  <2>4. Alike(jobs, jobs')
    BY <1>2, <2>1, <2>3, SameQueue
  <2>5. Standing => Standing'
    BY <1>0, <1>1, <1>5, IdleDrain DEF Standing, AtWork, Right, Wanted, roster, guild
  <2>6. adrift \subseteq adrift' /\ phase' = phase
    BY <1>1, <1>2 DEF roster
  <2> QED
    BY <1>1, <1>3, <2>4, <2>5, <2>6, CallersStay, PhaseMoves
<1> QED
  BY <1>4, <1>5

\* A frozen job that is over has done what the decision wants.
LEMMA DonePhase ==
    ASSUME Ground, PhaseInv, Done
    PROVE  PhaseInv'
<1>1. /\ Ground' /\ drain.at = "call" /\ drain.add = {} /\ drain.drop = {} /\ drain' = Idle
      /\ adrift' = adrift \ drain.heals
      /\ UNCHANGED <<roster, guild, switches, callers, jobs>>
  BY DoneEffect
<1>2. Conduct'
  BY <1>1, IdleDrain DEF Conduct
<1>3. "applicant" \in adrift' <=> "applicant" \in adrift
  BY <1>1 DEF PhaseInv, Conduct
<1>4. Standing => Right("applicant")
  BY <1>1 DEF Standing, Heading, Right
<1>5. Standing => Standing'
  BY <1>1, <1>4, IdleDrain DEF Standing, AtWork, Right, Wanted, roster, guild
<1> QED
  BY <1>1, <1>2, <1>3, <1>5, SameQueue, CallersStay, PhaseMoves DEF roster

\* A crash gives the role up if a request or a dispatch was about it.
LEMMA RestartPhase ==
    ASSUME Ground, PhaseInv, RolesCrash
    PROVE  PhaseInv'
<1>0. PICK j : j = drain.job
  OBVIOUS
<1>1. /\ Ground' /\ drain' = Idle /\ callers' = [c \in Callers |-> Calm]
      /\ \A c \in Callers : callers[c].owes \subseteq adrift'
      /\ adrift \subseteq adrift'
      /\ \/ drain.at = "idle" /\ jobs' = jobs
         \/ /\ drain.at # "idle" /\ jobs' = <<[j EXCEPT !.tried = TRUE]>> \o jobs
            /\ j \in RoleJobs /\ JobShape(j)
            /\ j.type \in FrozenKinds => j.owes \subseteq adrift'
      /\ UNCHANGED <<roster, worn, switches>>
  BY <1>0, RestartEffect
<1>2. Conduct'
  BY <1>1, IdleDrain DEF Conduct
<1>3. CASE "applicant" \in adrift'
  BY <1>2, <1>3 DEF PhaseInv
<1>4. CASE "applicant" \notin adrift'
  <2>1. \A c \in Callers : ~Asking(c)
    BY <1>1, <1>4 DEF Asking, RoleAsks, Ground, CallersOK, CallerShape, FrozenKinds
  <2>2. \A c \in Callers : ~Asking(c)'
    BY <1>1, CalmCaller DEF Asking, RoleAsks
  <2>3. SameAsking
    BY <2>1, <2>2 DEF SameAsking
  <2>4. drain.at # "idle" => j.type \notin FrozenKinds
    BY <1>1, <1>4 DEF JobShape
  <2>5. Alike(jobs, jobs')
    <3>1. CASE drain.at = "idle"
      BY <1>1, <3>1, SameQueue
    <3>2. CASE drain.at # "idle"
      <4>1. PICK k : k = [j EXCEPT !.tried = TRUE]
        OBVIOUS
      <4>2. k \in RoleJobs /\ k.type = j.type /\ jobs' = <<k>> \o jobs
        BY <1>1, <3>2, <4>1, Retried
      <4> QED
        BY <2>4, <3>2, <4>2, CalmInFront DEF Ground, JobsOK
    <3> QED
      BY <3>1, <3>2
  <2>6. Standing => Standing'
    BY <1>0, <1>1, <2>4, IdleDrain DEF Standing, AtWork, Right, Wanted, roster
  <2>7. "applicant" \notin adrift /\ phase' = phase
    BY <1>1, <1>4 DEF roster
  <2> QED
    BY <1>2, <2>3, <2>5, <2>6, <2>7, PhaseMoves
<1> QED
  BY <1>3, <1>4

(***************************************************************************)
(* The whole.                                                              *)
(***************************************************************************)
\* The inductive invariant: shapes, the rule of each role, the Applicant's.
RolesInv == Ground /\ RuleInv /\ PhaseInv

\* The invariant holds at the start,
LEMMA RolesBegin == ASSUME RolesInit PROVE RolesInv
<1>0. /\ present \in BOOLEAN /\ onboarded \in BOOLEAN
      /\ \E banned \in BOOLEAN : row = [rank |-> Entry, enrolled |-> TRUE, banned |-> banned]
  BY DEF RolesInit
<1>1. /\ phase \in {"guest", "applicant", "member"} /\ row \in Rows /\ awards = 0
      /\ jobs = <<>> /\ drain = Idle /\ callers = [c \in Callers |-> Calm]
      /\ present \in BOOLEAN /\ onboarded \in BOOLEAN /\ commands = 0 /\ fails = 0
      /\ switches = [bot |-> TRUE, sync |-> TRUE, strip |-> TRUE]
  <2>1. row \in Rows
    BY <1>0, EntryRank DEF Rows
  <2> QED
    BY <1>0, <2>1 DEF RolesInit
<1>2. Wanted \subseteq GuildRoles
  BY <1>1, DesiredType DEF Wanted
<1>3. Ladder[1] \in GuildRoles
  BY RoleSyncAssumption, RoleSet DEF Ranks, ToSet
<1>4. /\ worn \in SUBSET GuildRoles /\ adrift \in SUBSET GuildRoles /\ (~present => worn = {})
      /\ \A r \in GuildRoles : r \in adrift \/ Right(r)
  BY <1>2, <1>3, RoleSet DEF RolesInit, Right
<1>5. ToSet(jobs) = {} /\ DOMAIN jobs = {} /\ jobs \in Seq(RoleJobs)
  BY <1>1 DEF ToSet
<1>6. Ground
  <2>1. CallersOK
    BY <1>1, CalmCaller DEF CallersOK
  <2>2. DrainOK
    BY <1>1, IdleDrain DEF DrainOK
  <2>3. \A c \in Callers : callers[c].op = "none"
    BY <1>1 DEF Calm
  <2>4. Early
    BY <1>1, <1>5, <2>3, IdleDrain DEF Early
  <2>5. MaxAwards \in Nat /\ MaxCommands \in Nat /\ MaxFails \in Nat
    BY RoleSyncAssumption
  <2>6. RosterOK /\ GuildOK /\ JobsOK /\ RoleBounded
    BY <1>1, <1>4, <1>5, <2>5 DEF RosterOK, GuildOK, JobsOK, RoleBounded
  <2> QED
    BY <2>1, <2>2, <2>4, <2>6 DEF Ground
<1>7. RuleInv
  BY <1>1, <1>4, IdleDrain, RuledRoles
     DEF RuleInv, Followed, Answered, Healing, Harmless
<1>8. PhaseInv
  <2>1. \A c \in Callers : ~Asking(c)
    BY <1>1, CalmCaller DEF Asking, RoleAsks
  <2>2. Frozen(jobs) = {}
    BY <1>5 DEF Frozen
  <2>3. "applicant" \notin adrift => Standing
    BY <1>1, <1>4, IdleDrain, RoleSet DEF Standing, AtWork
  <2> QED
    BY <1>1, <2>1, <2>2, <2>3, IdleDrain DEF PhaseInv, Conduct, Settled, Untried, LastFits
<1> QED
  BY <1>6, <1>7, <1>8 DEF RolesInv

\* at every step of a request,
LEMMA RosterStep ==
    ASSUME RolesInv, NEW c \in Callers, RosterRequests(c)
    PROVE  RolesInv'
<1> USE DEF RolesInv
<1>1. ASSUME NEW o \in {"rank", "role", "ban", "unban"}, NEW g \in Ranks \cup {"none"},
             o = "rank" => g \in Ranks, LoadMember(c, o, g)
      PROVE  RolesInv'
  BY <1>1, LoadEffect, LoadRules, LoadPhase
<1>2. CASE ChangeRank(c)
  BY <1>2, RankEffect, RankRules, RankPhase
<1>3. CASE ChangeRole(c)
  BY <1>3, RoleEffect, RoleRules, RolePhase
<1>4. CASE Ban(c)
  BY <1>4, BanEffect, BanRules, BanPhase
<1>5. CASE Unban(c)
  BY <1>5, UnbanEffect, UnbanRules, UnbanPhase
<1>6. CASE AwardMedal(c)
  BY <1>6, AwardEffect, AwardRules, AwardPhase
<1>7. CASE Derive(c)
  BY <1>7, DeriveEffect, DeriveRules, DerivePhase
<1>8. CASE DeriveCommit(c)
  BY <1>8, DerivedEffect, DerivedRules, DerivedPhase
<1>9. CASE Apply(c)
  BY <1>9, ApplyEffect, ApplyRules, ApplyPhase
<1>10. CASE Decline(c)
  BY <1>10, DeclineEffect, DeclineRules, DeclinePhase
<1>11. CASE Approve(c)
  BY <1>11, ApproveEffect, ApproveRules, ApprovePhase
<1>12. CASE ApproveCommit(c)
  <2>1. CASE phase = "applicant"
    <3>1. Enlists(c)
      BY <1>12, <2>1 DEF Enlists, ApproveCommit
    <3> QED
      BY <3>1, EnlistsEffect, EnlistsRules, EnlistsPhase
  <2>2. CASE phase # "applicant"
    BY <1>12, <2>2, LateEffect, LateRules, LatePhase
  <2> QED
    BY <2>1, <2>2
<1>13. CASE AfterCommit(c)
  BY <1>13, AfterEffect, AfterRules, AfterPhase
<1> QED
  BY <1>1, <1>2, <1>3, <1>4, <1>5, <1>6, <1>7, <1>8, <1>9, <1>10, <1>11, <1>12, <1>13
     DEF RosterRequests

\* of the worker,
LEMMA WorkerStep ==
    ASSUME RolesInv, Worker
    PROVE  RolesInv'
<1> USE DEF RolesInv
<1>1. ASSUME NEW i \in DOMAIN jobs, Take(i)
      PROVE  RolesInv'
  <2>1. CASE Skips(i)
    BY <1>1, <2>1, SkipEffect, SkipRules, SkipPhase
  <2>2. CASE ~Skips(i)
    BY <1>1, <2>2, StartEffect, StartRules, StartPhase
  <2> QED
    BY <2>1, <2>2
<1>2. CASE FetchMember
  BY <1>2, FetchEffect, FetchRules, FetchPhase
<1>3. ASSUME NEW g \in GuildRoles, CallGateway(g)
      PROVE  RolesInv'
  BY <1>3, GatewayEffect, GatewayRules, GatewayPhase
<1>4. CASE CallFails
  BY <1>4, FailEffect, FailRules, FailPhase
<1>5. CASE Done
  BY <1>5, DoneEffect, DoneRules, DonePhase
<1> QED
  BY <1>1, <1>2, <1>3, <1>4, <1>5 DEF Worker

\* of the surroundings,
LEMMA SurroundingsStep ==
    ASSUME RolesInv, Surroundings
    PROVE  RolesInv'
<1> USE DEF RolesInv
<1>1. ASSUME NEW g \in Managed, ByHand(g)
      PROVE  RolesInv'
  BY <1>1, HandEffect, HandRules, HandPhase
<1>2. CASE Leave
  BY <1>2, LeaveEffect, LeaveRules, LeavePhase
<1>3. CASE Join
  BY <1>3, JoinEffect, JoinRules, JoinPhase
<1>4. CASE Resync
  BY <1>4, ResyncEffect, ResyncRules, ResyncPhase
<1>5. CASE RolesCrash
  BY <1>5, RestartEffect, RestartRules, RestartPhase
<1>6. ASSUME NEW s \in {"bot", "sync", "strip"}, Switch(s)
      PROVE  RolesInv'
  BY <1>6, SwitchEffect, SwitchRules, SwitchPhase
<1> QED
  BY <1>1, <1>2, <1>3, <1>4, <1>5, <1>6 DEF Surroundings

\* and while nothing moves.
LEMMA RolesStutter ==
    ASSUME RolesInv, UNCHANGED roleVars
    PROVE  RolesInv'
<1>1. /\ UNCHANGED <<roster, guild, switches, drain, adrift>> /\ jobs' = jobs
      /\ callers' = callers /\ UNCHANGED <<commands, fails, phase, worn>>
  BY DEF roleVars, roster, guild
<1>2. Ground'
  BY <1>1 DEF RolesInv, Ground, RosterOK, GuildOK, JobsOK, DrainOK, CallersOK, Early, RoleBounded,
              roster, guild
<1>3. RuleInv'
  BY <1>1, KeptClaims, SameRoster, StillRules DEF RolesInv
<1>4. Drifts({})
  BY <1>1 DEF Drifts
<1>5. PhaseInv'
  BY <1>1, <1>2, <1>4, SameQueue, CallersStay, PhaseQuiet DEF RolesInv
<1> QED
  BY <1>2, <1>3, <1>5 DEF RolesInv

\* The invariant says what it is for.
LEMMA RolesFollow == ASSUME RolesInv PROVE GuildFollowsRoster
<1>1. SUFFICES ASSUME NEW r \in GuildRoles, r \notin adrift, r \notin AnsweredFor
               PROVE  Right(r)
  BY DEF GuildFollowsRoster, Right
<1>2. /\ \A j \in ToSet(jobs) : r \notin j.owes
      /\ \A c \in Callers : r \notin callers[c].owes
      /\ drain.at # "idle" => r \notin drain.job.owes /\ r \notin drain.heals
  <2>1. \A j \in ToSet(jobs) : \E i \in DOMAIN jobs : j = jobs[i]
    BY DEF ToSet
  <2> QED
    BY <1>1, <2>1 DEF AnsweredFor
<1>3. CASE r = "applicant"
  <2>1. Settled
    BY <1>1, <1>3 DEF RolesInv, PhaseInv
  <2>2. \A c \in Callers : ~Asking(c)
    BY <1>2, <1>3 DEF Asking, RoleAsks, RolesInv, Ground, CallersOK, CallerShape, FrozenKinds
  <2>3. Frozen(jobs) = {}
    BY <1>2, <1>3, JobFacts DEF Frozen, RolesInv, Ground, JobShape
  <2>4. ~AtWork
    BY <1>2, <1>3 DEF AtWork, RolesInv, Ground, DrainOK, JobShape
  <2> QED
    BY <1>3, <2>1, <2>2, <2>3, <2>4 DEF Settled, Standing
<1>4. CASE r # "applicant"
  <2>1. r \in Ruled
    BY <1>4, RoleSet DEF Ruled
  <2>2. Answered(r)
    BY <2>1 DEF RolesInv, RuleInv, Followed
  <2>3. ~Strong(r)
    BY <1>2 DEF Strong, RoleAsks, RoleNames, RolesInv, Ground, CallersOK, CallerShape
  <2>4. ~Weak(r) /\ ~Banning(r) /\ ~RolesHeld(r)
    BY <1>2 DEF Weak, Banning, RolesHeld
  <2> QED
    BY <1>1, <2>2, <2>3, <2>4 DEF Answered, Claimed
<1> QED
  BY <1>3, <1>4

\* ... and the types are right.
LEMMA RolesTyped == ASSUME RolesInv PROVE RolesTypeOK
<1>1. \A i \in DOMAIN jobs : jobs[i].type \in StepKinds
  BY JobFacts DEF RolesInv, Ground
<1> QED
  BY <1>1 DEF RolesInv, Ground, RosterOK, GuildOK, RoleBounded, RolesTypeOK, Rows, StepKinds, FrozenKinds

\* The invariant is inductive.
LEMMA RolesKeep ==
    ASSUME RolesInv, [RolesNext]_roleVars
    PROVE  RolesInv'
<1>1. ASSUME NEW c \in Callers, RosterRequests(c) PROVE RolesInv'
  BY <1>1, RosterStep
<1> QED
  BY <1>1, WorkerStep, SurroundingsStep, RolesStutter DEF RolesNext

\* The guild follows the roster: of each role it shows what the roster wants, or a
\* job, a dispatch or a request still answers for it, or it is one of those that are
\* adrift.  For any ladder, any number of requests, and any bounds on awards,
\* commands and failures of the gateway.
THEOREM RolesFollowed == RolesSpec => [](RolesTypeOK /\ GuildFollowsRoster)
<1>1. RolesInit => RolesInv
  BY RolesBegin
<1>2. RolesInv /\ [RolesNext]_roleVars => RolesInv'
  BY RolesKeep
<1>3. RolesInv => RolesTypeOK /\ GuildFollowsRoster
  BY RolesFollow, RolesTyped
<1> QED
  BY <1>1, <1>2, <1>3, PTL DEF RolesSpec
================================================================================
