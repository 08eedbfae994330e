------------------------------ MODULE Administration -----------------------------
(***************************************************************************)
(* The capability matrix and the bot's settings, with those who edit them. *)
(*                                                                         *)
(* Every request asks the matrix what its caller may do.  The matrix is    *)
(* cached in the process: an edit through the API drops the cache once it  *)
(* has committed; what changes the table behind the back of the process    *)
(* (the seed of a deployment, a repair by hand) is seen when the cache     *)
(* expires.                                                                *)
(*                                                                         *)
(* The bot's settings are one row, edited as the member's is: loaded,      *)
(* checked, saved by comparing with the row and then writing what differs. *)
(***************************************************************************)
EXTENDS Integers, Sequences

CONSTANTS
    Cells,      \* pairs of a role and a capability
    Core,       \* those the floor guard keeps: the Owner's
    Closed,     \* privileged capabilities of the Applicant
    Defaults,   \* what the seed grants
    Matters,    \* what a behaviour may be about: "matrix", "bot"
    Batches,    \* batches of changes, sequences of [cell, granted]
    Clerks,     \* edits under way at once
    Readers,    \* checks that load the matrix at once
    CacheTtl,   \* CACHE_TTL_MS
    MaxClock,   \* bound: the clock
    MaxDeeds    \* bound: edits, seeds and crashes in all

ASSUME AdministrationAssumption ==
    /\ Core \subseteq Defaults /\ Defaults \subseteq Cells
    /\ Closed \subseteq Cells \ Defaults /\ Matters \subseteq {"matrix", "bot"}
    /\ \A b \in Batches : b \in Seq([cell : Cells, granted : BOOLEAN])
    /\ Clerks \subseteq Nat
    /\ CacheTtl \in Nat \ {0} /\ MaxClock \in Nat /\ MaxDeeds \in Nat

VARIABLES
    matter,   \* what this behaviour is about
    table,    \* role_permissions: [Cells -> "none", "no" or "yes"]
    cache,    \* the memoised matrix, what is granted and until when it serves
    loads,    \* [Readers -> the rows a check has read and not stored yet]
    clerks,   \* [Clerks -> an edit and what it has read]
    bot,      \* the discord_bot_settings row: applyBanRoleOnBan, banRoleId
    time,     \* the time
    deeds,    \* how much of MaxDeeds is spent
    lapped    \* history: two saves of the bot's settings overlapped

adminVars == <<matter, table, cache, loads, clerks, bot, time, deeds, lapped>>

Granted == {c \in Cells : table[c] = "yes"}
\* excused: the table changed while these rows were on their way into the
\* cache, or behind the back of the process.
NoCache == [granted |-> {}, until |-> 0, excused |-> FALSE]
NoLoad == [busy |-> FALSE, granted |-> {}, excused |-> FALSE]
NoEdit == [at |-> "idle", rest |-> <<>>, read |-> <<>>, changes |-> <<>>, copy |-> <<>>,
           dirty |-> {}]

AdminInit ==
    /\ matter \in Matters
    /\ \E new \in IF matter = "matrix" THEN SUBSET (Cells \ Core) ELSE {{}} :
         table = [c \in Cells |-> IF c \in new THEN "none"
                                  ELSE IF c \in Defaults THEN "yes" ELSE "no"]
    /\ cache = NoCache
    /\ loads = [r \in Readers |-> NoLoad]
    /\ clerks = [k \in Clerks |-> NoEdit]
    /\ bot = [apply |-> FALSE, role |-> FALSE]
    /\ time = 0 /\ deeds = 0 /\ lapped = FALSE

Deed == deeds < MaxDeeds /\ deeds' = deeds + 1
StartEdit(k, about, edit) ==
    /\ about = matter
    /\ \A d \in Clerks : d <= k => (clerks[d].at = "idle" <=> d = k)
    /\ Deed
    /\ clerks' = [clerks EXCEPT ![k] = edit]
Onward(k) == clerks' = [clerks EXCEPT ![k] =
    IF clerks[k].rest = <<>> THEN NoEdit
    ELSE [clerks[k] EXCEPT !.at = Head(clerks[k].rest), !.rest = Tail(clerks[k].rest)]]

(***************************************************************************)
(* can(): from the cache while it is fresh, else from the table.           *)
(***************************************************************************)
LoadMatrix(r) ==
    /\ matter = "matrix" /\ cache.until <= time /\ ~loads[r].busy
    /\ loads' = [loads EXCEPT ![r] = [NoLoad EXCEPT !.busy = TRUE, !.granted = Granted]]
    /\ UNCHANGED <<matter, table, cache, clerks, bot, time, deeds, lapped>>

\* loadedAt is taken when the rows have come, whatever happened to the cache.
StoreMatrix(r) ==
    /\ loads[r].busy
    /\ cache' = [granted |-> loads[r].granted, until |-> time + CacheTtl,
                 excused |-> loads[r].excused]
    /\ loads' = [loads EXCEPT ![r] = NoLoad]
    /\ UNCHANGED <<matter, table, clerks, bot, time, deeds, lapped>>

\* The table has changed under the checks that are reading it.
Overtaken == [r \in Readers |-> [loads[r] EXCEPT !.excused = @ \/ loads[r].busy]]

(***************************************************************************)
(* updatePermissions(): the rows, the floor guard, one transaction, and    *)
(* only then the cache.                                                    *)
(***************************************************************************)
Changed(changes) == {changes[n].cell : n \in DOMAIN changes}
\* Each change is applied in turn, so the last one of a cell counts.
Final(changes, c) ==
    changes[CHOOSE n \in DOMAIN changes :
              /\ changes[n].cell = c
              /\ \A m \in n + 1 .. Len(changes) : changes[m].cell # c].granted
After(rows, changes) ==
    [c \in Cells |-> IF c \notin Changed(changes) THEN rows[c]
                     ELSE IF Final(changes, c) THEN "yes" ELSE "no"]

\* assertGovernable(), of the matrix as it was read, with the changes.
Governable(rows, changes) == \A c \in Core : After(rows, changes)[c] = "yes"

\* The cache is dropped while the batch is still on its way.
Order_InvalidateFirst == <<"invalidate", "commit">>

Order == <<"commit", "invalidate">>

UpdatePermissions(k) ==
    /\ \E changes \in Batches :
         /\ \A n \in DOMAIN changes :
              ~(changes[n].granted /\ changes[n].cell \in Closed)
         /\ StartEdit(k, "matrix", [NoEdit EXCEPT !.at = "guard", !.rest = Order,
                                    !.read = table, !.changes = changes])
    /\ UNCHANGED <<matter, table, cache, loads, bot, time, lapped>>

AssertGovernable(k) ==
    /\ clerks[k].at = "guard"
    /\ IF Governable(clerks[k].read, clerks[k].changes) THEN Onward(k)
       ELSE clerks' = [clerks EXCEPT ![k] = NoEdit]
    /\ UNCHANGED <<matter, table, cache, loads, bot, time, deeds, lapped>>

\* A cell without a row when the rows were read is inserted; the unique index
\* refuses that, and the whole batch with it, where the row has come since.
Commit(k) ==
    LET changes == clerks[k].changes
        clash == \E c \in Changed(changes) :
                     clerks[k].read[c] = "none" /\ table[c] # "none"
    IN /\ clerks[k].at = "commit"
       /\ IF clash THEN /\ clerks' = [clerks EXCEPT ![k] = NoEdit]
                        /\ UNCHANGED <<matter, table, loads>>
          ELSE /\ table' = After(table, changes)
               /\ loads' = Overtaken
               /\ Onward(k)
       /\ UNCHANGED <<matter, cache, bot, time, deeds, lapped>>

Invalidate(k) ==
    /\ clerks[k].at = "invalidate"
    /\ cache' = NoCache
    /\ Onward(k)
    /\ UNCHANGED <<matter, table, loads, bot, time, deeds, lapped>>

\* seedRolePermissions(), at a deployment: rows that are missing, in another
\* process.
Seed ==
    /\ Deed
    /\ \E c \in Cells : table[c] = "none"
    /\ table' = [c \in Cells |-> IF table[c] # "none" THEN table[c]
                                 ELSE IF c \in Defaults THEN "yes" ELSE "no"]
    /\ loads' = Overtaken /\ cache' = [cache EXCEPT !.excused = TRUE]
    /\ UNCHANGED <<matter, clerks, bot, time, lapped>>

(***************************************************************************)
(* updateSettings() of the bot: the fields that came, over the row; a ban  *)
(* role is asked for where bans are to be shown.                           *)
(***************************************************************************)

Consistent(new, old) == new.apply => new.role

UpdateSettings(k) ==
    /\ \E new \in [apply : BOOLEAN, role : BOOLEAN] :
         /\ Consistent(new, bot)
         /\ StartEdit(k, "bot", [NoEdit EXCEPT !.at = "compare", !.rest = <<"write">>,
                                         !.copy = new])
    /\ UNCHANGED <<matter, table, cache, loads, bot, time, lapped>>

CompareSettings(k) ==
    /\ clerks[k].at = "compare"
    /\ clerks' = [clerks EXCEPT ![k].at = "write", ![k].rest = <<>>,
                    ![k].dirty = {f \in DOMAIN bot : bot[f] # clerks[k].copy[f]}]
    /\ lapped' = (lapped \/ \E j \in Clerks \ {k} : clerks[j].at = "write")
    /\ UNCHANGED <<matter, table, cache, loads, bot, time, deeds>>

WriteSettings(k) ==
    /\ clerks[k].at = "write"
    /\ bot' = [f \in DOMAIN bot |-> IF f \in clerks[k].dirty THEN clerks[k].copy[f]
                                    ELSE bot[f]]
    /\ Onward(k)
    /\ UNCHANGED <<matter, table, cache, loads, time, deeds, lapped>>

(***************************************************************************)
(* Time, and crashes: the cache is the process's.                          *)
(***************************************************************************)
AdminTick ==
    /\ time < MaxClock /\ time' = time + 1
    /\ UNCHANGED <<matter, table, cache, loads, clerks, bot, deeds, lapped>>

AdminRestart ==
    /\ Deed
    /\ cache' = NoCache
    /\ loads' = [r \in Readers |-> NoLoad] /\ clerks' = [k \in Clerks |-> NoEdit]
    /\ UNCHANGED <<matter, table, bot, time, lapped>>

AdminNext ==
    \/ \E r \in Readers : LoadMatrix(r) \/ StoreMatrix(r)
    \/ \E k \in Clerks :
         \/ UpdatePermissions(k) \/ AssertGovernable(k) \/ Commit(k) \/ Invalidate(k)
         \/ UpdateSettings(k) \/ CompareSettings(k) \/ WriteSettings(k)
    \/ Seed \/ AdminTick \/ AdminRestart

AdminSpec == AdminInit /\ [][AdminNext]_adminVars

(***************************************************************************)
(* Properties.                                                             *)
(***************************************************************************)
AdminTypeOK ==
    /\ matter \in Matters /\ table \in [Cells -> {"none", "no", "yes"}]
    /\ cache \in [granted : SUBSET Cells, until : 0 .. MaxClock + CacheTtl,
                  excused : BOOLEAN]
    /\ bot \in [apply : BOOLEAN, role : BOOLEAN]
    /\ time \in 0 .. MaxClock /\ deeds \in 0 .. MaxDeeds

\* An edit of the matrix through the API is in force at once: what a check finds
\* in the cache is what the table says, whatever batches, checks, seeds and
\* restarts overlap, but for the moment between the commit and the drop of the
\* cache, for rows that were already on their way into the cache when the table
\* changed, and for changes from outside; and those last no longer than the
\* cache.  And no two batches together take from the Owner what none of them
\* could take alone.
GrantsAreCurrent ==
    /\ \/ cache.until <= time \/ cache.excused
       \/ \E k \in Clerks : clerks[k].at = "invalidate"
       \/ cache.granted = Granted
    /\ cache.until <= time + CacheTtl
    /\ Core \subseteq Granted /\ Closed \cap Granted = {}

\* Bans are shown by a role only while there is one, though one edit switches
\* them on and another takes the role away; two saves that overlap, each having
\* compared with the row before the other wrote, may miss it.
BanRoleIsThere == bot.apply => bot.role \/ lapped

\* What an administrator has saved is in force, the matrix and the settings.
AdministrationHolds == GrantsAreCurrent /\ BanRoleIsThere
================================================================================
