------------------------------ MODULE EventSchedule ------------------------------
(***************************************************************************)
(* When an event happens and who is told beforehand: a recurring template  *)
(* materialised into occurrences, the repair of a series written in the    *)
(* wrong zone, removal of one event or of a series, and the reminders due  *)
(* before a start.                                                         *)
(*                                                                         *)
(* Two sweeps and the authors' requests run in slots; every slot works on  *)
(* rows it read some awaits ago.  Nothing keeps two ticks of one sweep     *)
(* from overlapping.  The announcements that follow an occurrence or an    *)
(* edit are EventAnnouncement's subject.                                   *)
(***************************************************************************)
EXTENDS Integers, FiniteSets, FiniteSetsExt

CONSTANTS
    Ids,           \* occurrence ids, numbered from 1; bound: occurrences made
    Minutes,       \* the offsets an author may ask to be reminded at
    FirstStart,    \* the first event, made as a one-off, starts at
    FirstOffsets,  \* ... and is created with these offsets
    RuleStart,     \* made as a template, it starts at
    RuleOffsets,   \* ... and is created with these
    Starts,        \* the instants an author may move a start to
    Cadences,      \* the cadences a rule may have here
    Day,           \* the length of a day; instants and local times share a unit
    Months,        \* the calendar repeats after so many months
    MonthBegins,   \* the day each of them begins with, and the next cycle
    Horizon,       \* how far ahead occurrences are materialised
    MaxEmit,       \* occurrences one sweep considers for a template
    Batch,         \* offsets one reminder sweep reads
    Before, After, \* the zone's offset before and after its change
    Change,        \* the local time of that change
    Authors,       \* what authors do here: a subset of Operations
    Slots,         \* slots for what is under way, numbered
    MaxTime,       \* bound: the clock
    MaxUse         \* bound: authoring requests and crashes together

Root == 0
Events == Ids \cup {Root}
AllCadences == {"daily", "weekly", "monthly"}
Operations == {"archive", "unarchive", "time", "offsets", "cadence", "remove",
               "series", "repair", "cascade"}

ASSUME ConstantsAssumption ==
    /\ Ids \subseteq Nat \ {0} /\ IsFiniteSet(Ids)
    /\ Minutes \subseteq Nat /\ FirstOffsets \subseteq Minutes
    /\ RuleOffsets \subseteq Minutes
    /\ Starts \cup {FirstStart, RuleStart} \subseteq Int /\ Authors \subseteq Operations
    /\ Cadences \subseteq AllCadences
    /\ {Day, Months, MaxEmit, Batch} \subseteq Nat \ {0}
    /\ MonthBegins \in [0 .. Months -> Nat] /\ MonthBegins[0] = 0
    /\ \A m \in 0 .. Months - 1 : MonthBegins[m] < MonthBegins[m + 1]
    /\ {Before, After, Change} \subseteq Int
    /\ {Horizon, MaxTime, MaxUse} \subseteq Nat
    /\ Slots \subseteq Nat

VARIABLES
    clock,   \* the time
    ev,      \* [Events -> the events row]
    offsets, \* [Events -> [Minutes -> the event_notify_offsets row]]
    slots,   \* [Slots -> what is under way there, and what it has read]
    used,    \* how much of MaxUse is spent
    reminds, \* history: [Events -> [Minutes -> reminders queued]]
    origin,  \* history: [Events -> which period of which rule it was made for,
             \*           and at which cadence]
    rule,    \* history: how often the rule has moved
    strays,  \* history: occurrences an author has moved off their rule
    raced,   \* history: offsets rewritten while a reminder was on its way
    tripped, \* history: a repair collided with nothing but itself
    gone     \* history: the series was removed with nothing under way

vars == <<clock, ev, offsets, slots, used, reminds, origin, rule, strays,
          raced, tripped, gone>>
history == <<reminds, origin, rule, strays, raced, tripped, gone>>

NoEvent == [state |-> "none", start |-> 0, cadence |-> "none",
            recurring |-> FALSE, active |-> FALSE, archived |-> FALSE]
NoRead == [op |-> "none", step |-> "idle", id |-> Root, copy |-> NoEvent,
           at |-> 0, rule |-> 0, todo |-> {}, seen |-> <<>>, plan |-> {}]

(***************************************************************************)
(* Zones.  Utc reads a wall clock in the event's zone; Local is the view   *)
(* of an instant there.                                                    *)
(***************************************************************************)

Utc(local) == local + IF local < Change THEN Before ELSE After
Local(instant) == LET early == instant - Before
                  IN IF early < Change THEN early ELSE instant - After

\* reanchorInstant(): the wall clock the row encodes as UTC, read in the zone.
Reanchored(instant) == Utc(instant)

(***************************************************************************)
(* The calendar: months of different lengths, numbered across the cycles   *)
(* (the Gregorian one has 4800 months); days are counted from a first one. *)
(***************************************************************************)

FirstDay(month) ==
    (month \div Months) * MonthBegins[Months] + MonthBegins[month % Months]
DaysIn(month) == FirstDay(month + 1) - FirstDay(month)
MonthOf(local) ==
    LET day == local \div Day
        cycle == day \div MonthBegins[Months]
        within == day % MonthBegins[Months]
    IN cycle * Months + Max({m \in 0 .. Months - 1 : MonthBegins[m] <= within})

\* plus({ months }): the same day of the month, clamped to the month's last.
PlusMonths(local, n) ==
    LET date == local \div Day - FirstDay(MonthOf(local))
        month == MonthOf(local) + n
    IN (FirstDay(month) + Min({date, DaysIn(month) - 1})) * Day + (local % Day)

Length(cadence) == IF cadence = "weekly" THEN 7 * Day ELSE Day
Plus(local, cadence, n) ==
    IF cadence = "monthly" THEN PlusMonths(local, n)
    ELSE local + n * Length(cadence)

\* occurrenceAt(): in calendar units, so the local time is kept.
OccurrenceAt(anchor, cadence, n) == Utc(Plus(Local(anchor), cadence, n))

\* estimateIndex(): by division, or as the difference of year and month.
EstimateIndex(anchor, cadence, now) ==
    IF cadence = "monthly" THEN MonthOf(Local(now)) - MonthOf(Local(anchor))
    ELSE (now - anchor) \div Length(cadence)

\* The estimate is taken as it is.
FirstAfter_Uncorrected(anchor, cadence, now) ==
    Max({1, EstimateIndex(anchor, cadence, now)}) + 1

\* The first occurrence after now: an estimate, corrected upwards by 32 at most
\* and then downwards, by what the corrections upwards have left of 64.
FirstAfter(anchor, cadence, now) ==
    LET estimate == Max({1, EstimateIndex(anchor, cadence, now)})
        Ahead(n) == OccurrenceAt(anchor, cadence, n) > now
        up == CHOOSE n \in estimate .. estimate + 32 :
                /\ n = estimate + 32 \/ Ahead(n)
                /\ \A k \in estimate .. n - 1 : ~Ahead(k)
        guard == up - estimate + IF Ahead(up) THEN 0 ELSE 1
    IN Min({n \in Max({1, up - (64 - guard)}) .. up :
              \A k \in n .. up - 1 : Ahead(k)})

\* computeOccurrenceStarts(), as the indices of the missing occurrences.
Missing(anchor, cadence, now, existing) ==
    LET first == FirstAfter(anchor, cadence, now)
    IN {n \in first .. first + MaxEmit - 1 :
          /\ OccurrenceAt(anchor, cadence, n) <= now + Horizon
          /\ OccurrenceAt(anchor, cadence, n) \notin existing}

Exists(id) == ev[id].state # "none"
Live(id) == ev[id].state = "live"
Occurrences == {id \in Ids : Exists(id)}
\* Held over soft-deleted rows as well, like the unique index.
Held == {ev[id].start : id \in Occurrences}
FreeIds == {id \in Ids : ~Exists(id)}
IsTemplate(id) == id = Root /\ ev[id].recurring

\* A template that is removed still counts.
Generating_Removed == /\ Exists(Root) /\ ~ev[Root].archived
                      /\ ev[Root].recurring /\ ev[Root].active
                      /\ ev[Root].cadence # "none"

\* What the sweep takes a template for.
Generating == /\ Live(Root) /\ ~ev[Root].archived
              /\ ev[Root].recurring /\ ev[Root].active /\ ev[Root].cadence # "none"

\* A slot takes up work in the order of the slots.
Idle(c) == slots[c].step = "idle"
Arrives(c) == \A d \in Slots : d <= c => (Idle(d) <=> d = c)
In(c, op, step) == slots[c].op = op /\ slots[c].step = step
Return(c) == slots' = [slots EXCEPT ![c] = NoRead]
Spend(op) == /\ op \in Authors
             /\ used < MaxUse /\ used' = used + 1

\* create(): a one-off event, or with a cadence a template.  Its offsets are
\* new, and those of a template only serve to be cloned.
Created(start, cadence) ==
    [state |-> "live", start |-> start, cadence |-> cadence,
     recurring |-> cadence # "none", active |-> cadence # "none",
     archived |-> FALSE]
Unsent(minutes) ==
    [m \in Minutes |-> IF m \in minutes THEN "unsent" ELSE "absent"]

Init ==
    /\ clock = 0
    /\ \E first \in {[start |-> FirstStart, cadence |-> "none", m |-> FirstOffsets]}
                      \cup {[start |-> RuleStart, cadence |-> c, m |-> RuleOffsets] :
                              c \in Cadences} :
         /\ ev = [id \in Events |-> IF id # Root THEN NoEvent
                                    ELSE Created(first.start, first.cadence)]
         /\ offsets = [id \in Events |-> Unsent(IF id = Root THEN first.m ELSE {})]
    /\ slots = [c \in Slots |-> NoRead]
    /\ used = 0
    /\ reminds = [id \in Events |-> [m \in Minutes |-> 0]]
    /\ origin = [id \in Events |-> [n |-> 0, rule |-> 0, cadence |-> "none"]]
    /\ rule = 0
    /\ strays = {}
    /\ raced = {}
    /\ tripped = FALSE
    /\ gone = FALSE

(***************************************************************************)
(* The recurrence sweep.                                                   *)
(***************************************************************************)

\* generate(): the active templates are read at once, the rest of the sweep
\* works on that copy.
Generate(c) ==
    /\ Arrives(c) /\ Generating
    /\ slots' = [slots EXCEPT ![c] =
         [NoRead EXCEPT !.op = "generate", !.step = "existing", !.at = clock,
                        !.copy = ev[Root], !.rule = rule]]
    /\ UNCHANGED <<clock, ev, offsets, used, history>>

\* generateForTemplate(): what exists, cancelled or not, decides what is
\* missing; the template's offsets are read next.
ReadExisting(c) ==
    LET copy == slots[c].copy
        missing == Missing(copy.start, copy.cadence, slots[c].at, Held)
    IN /\ In(c, "generate", "existing")
       /\ IF missing = {} THEN Return(c)
          ELSE slots' = [slots EXCEPT ![c].step = "create", ![c].todo = missing,
                 ![c].plan = {m \in Minutes : offsets[Root][m] # "absent"}]
       /\ UNCHANGED <<clock, ev, offsets, used, history>>

\* The row and its children in one transaction; an instant that is taken by
\* now is skipped.  The earliest is made first.
CreateOccurrence(c) ==
    LET n == Min(slots[c].todo)
        copy == slots[c].copy
        start == OccurrenceAt(copy.start, copy.cadence, n)
        id == Min(FreeIds)
    IN /\ In(c, "generate", "create")
       /\ IF start \in Held \/ FreeIds = {}
            THEN UNCHANGED <<ev, offsets, origin>>
            ELSE /\ ev' = [ev EXCEPT ![id] =
                      [NoEvent EXCEPT !.state = "live", !.start = start]]
                 /\ offsets' = [offsets EXCEPT ![id] = Unsent(slots[c].plan)]
                 /\ origin' = [origin EXCEPT ![id] =
                      [n |-> n, rule |-> slots[c].rule, cadence |-> copy.cadence]]
       /\ IF slots[c].todo = {n} THEN Return(c)
          ELSE slots' = [slots EXCEPT ![c].todo = @ \ {n}]
       /\ UNCHANGED <<clock, used, reminds, rule, strays, raced, tripped, gone>>

(***************************************************************************)
(* The reminder sweep.                                                     *)
(***************************************************************************)

\* findDueOffsets(): unresolved, on a live event that is not a rule, and the
\* moment has come.
DueAt(id, m, now) == offsets[id][m] = "unsent" /\ ev[id].start - m <= now
Due == {d \in Events \X Minutes :
          /\ Live(d[1]) /\ ~ev[d[1]].archived /\ ~IsTemplate(d[1])
          /\ DueAt(d[1], d[2], clock)}

\* By start, then by minutes; among events of one start the id stands for the
\* order the database gives.
Precedes(d, e) ==
    \/ ev[d[1]].start < ev[e[1]].start
    \/ ev[d[1]].start = ev[e[1]].start /\ d[1] < e[1]
    \/ d[1] = e[1] /\ d[2] < e[2]
FirstBatch == {d \in Due : Cardinality({e \in Due : Precedes(e, d)}) < Batch}

\* A row as it was read: when the event starts comes with it.
Sweep(c) ==
    /\ Arrives(c)
    /\ IF Due = {} THEN UNCHANGED slots
       ELSE slots' = [slots EXCEPT ![c] =
              [NoRead EXCEPT !.op = "sweep", !.step = "claim", !.at = clock,
                 !.todo = {[id |-> d[1], m |-> d[2], start |-> ev[d[1]].start] :
                             d \in FirstBatch}]]
    /\ UNCHANGED <<clock, ev, offsets, used, history>>

\* A farther offset of an event whose nearer one is due as well is retired;
\* the nearest comes last.
InBatch(c) == IF slots[c].op = "sweep" THEN slots[c].todo ELSE {}
Superseded(batch, d) == \E n \in batch : n.id = d.id /\ n.m < d.m
Turn(batch, d) ==
    \A x \in batch :
      \/ d.start < x.start
      \/ d.start = x.start /\ d.id < x.id
      \/ d.id = x.id /\ (IF Superseded(batch, d)
                           THEN ~Superseded(batch, x) \/ d.m <= x.m ELSE x = d)

\* The row is marked whoever marked it before.
Claimed_Unconditional(d) == offsets[d.id][d.m] # "absent"

\* claim(): UPDATE ... WHERE sent_at IS NULL.
Claimed(d) == offsets[d.id][d.m] = "unsent"

\* An event that had begun when the sweep read it is retired unsent.
Claim(c, d) ==
    LET batch == slots[c].todo
        rest == [slots EXCEPT ![c].todo = @ \ {d}]
        sends == Claimed(d) /\ ~Superseded(batch, d) /\ d.start > slots[c].at
    IN /\ In(c, "sweep", "claim") /\ d \in batch /\ Turn(batch, d)
       /\ offsets' = IF Claimed(d) THEN [offsets EXCEPT ![d.id][d.m] = "sent"]
                     ELSE offsets
       /\ raced' = IF Claimed(d) /\ \E o \in Slots : slots[o].id = d.id
                                                     /\ In(o, "offsets", "save")
                     THEN raced \cup {<<d.id, d.m>>} ELSE raced
       /\ IF sends THEN slots' = [slots EXCEPT ![c].step = "send"]
          ELSE IF batch = {d} THEN Return(c) ELSE slots' = rest
       /\ UNCHANGED <<clock, ev, used, reminds, origin, rule, strays, tripped,
                      gone>>

\* enqueueEventReminder(), after the claim.
EnqueueReminder(c, d) ==
    /\ In(c, "sweep", "send") /\ d \in slots[c].todo /\ Turn(slots[c].todo, d)
    /\ reminds' = [reminds EXCEPT ![d.id][d.m] = @ + 1]
    /\ IF slots[c].todo = {d} THEN Return(c)
       ELSE slots' = [slots EXCEPT ![c].step = "claim", ![c].todo = @ \ {d}]
    /\ UNCHANGED <<clock, ev, offsets, used, origin, rule, strays, raced, tripped,
                   gone>>

(***************************************************************************)
(* Authors.                                                                *)
(***************************************************************************)

\* loadEvent(): what is deleted is not found.  The request keeps the row.
LoadEvent(c, id, op) ==
    /\ Arrives(c) /\ Live(id) /\ Spend(op)
    /\ op = "cadence" => id = Root
    /\ slots' = [slots EXCEPT ![c] =
         [NoRead EXCEPT !.op = op, !.id = id, !.copy = ev[id],
            !.step = IF op = "offsets" THEN "children" ELSE "save"]]
    /\ UNCHANGED <<clock, ev, offsets, history>>

\* The index does not cover the row.
Fits_Anyway(id, row) == TRUE

\* save() writes the loaded row back, deletedAt included.  Two occurrences at
\* one instant are refused by the index and the request fails.
Fits(id, row) ==
    id = Root \/ row.start \notin {ev[o].start : o \in Occurrences \ {id}}
Save(c, row) ==
    LET id == slots[c].id IN
    IF ~Fits(id, row) THEN UNCHANGED <<ev, rule, strays>>
    ELSE /\ ev' = [ev EXCEPT ![id] = row]
         /\ rule' = IF id = Root /\ row.start # ev[id].start THEN rule + 1 ELSE rule
         /\ strays' = IF id # Root /\ row.start # ev[id].start
                        THEN strays \cup {id} ELSE strays

SaveArchived(c) ==
    /\ In(c, "archive", "save") \/ In(c, "unarchive", "save")
    /\ Save(c, [slots[c].copy EXCEPT !.archived = slots[c].op = "archive"])
    /\ Return(c)
    /\ UNCHANGED <<clock, offsets, used, reminds, origin, raced, tripped, gone>>

\* update(): a new start; what has been sent stays sent.
SaveTime(c) ==
    /\ In(c, "time", "save")
    /\ \E start \in Starts : Save(c, [slots[c].copy EXCEPT !.start = start])
    /\ Return(c)
    /\ UNCHANGED <<clock, offsets, used, reminds, origin, raced, tripped, gone>>

\* update(): setting a cadence makes an active template, clearing it stops
\* one; recurrenceActive alone stops or resumes it, isRecurring makes the row
\* a rule or an event of its own.
Recurrence(row) ==
    {[row EXCEPT !.cadence = c, !.recurring = TRUE, !.active = TRUE] : c \in Cadences}
      \cup {[row EXCEPT !.cadence = "none", !.active = FALSE],
            [row EXCEPT !.active = ~row.active],
            [row EXCEPT !.recurring = ~row.recurring]}
SaveCadence(c) ==
    /\ In(c, "cadence", "save")
    /\ \E row \in Recurrence(slots[c].copy) : Save(c, row)
    /\ Return(c)
    /\ UNCHANGED <<clock, offsets, used, reminds, origin, raced, tripped, gone>>

\* replaceChildren(), inside update()'s transaction: the rows are read ...
ReadOffsets(c) ==
    /\ In(c, "offsets", "children")
    /\ slots' = [slots EXCEPT ![c].step = "save",
                              ![c].seen = offsets[slots[c].id]]
    /\ UNCHANGED <<clock, ev, offsets, used, history>>

\* The rows are written without it.
Carried_Anew(seen, minutes) == Unsent(minutes)

\* ... and deleted and written anew with the sentAt they were read with; an
\* offset the author adds is unsent.  The row is saved in the same commit.
Carried(seen, minutes) ==
    [m \in Minutes |-> IF m \notin minutes THEN "absent"
                       ELSE IF seen[m] = "absent" THEN "unsent" ELSE seen[m]]

\* Claimed, and not queued yet.
OnItsWay(id, m) ==
    \E s \in Slots : /\ In(s, "sweep", "send")
                     /\ \E d \in slots[s].todo :
                          d.id = id /\ d.m = m /\ Turn(slots[s].todo, d)

SaveOffsets(c) ==
    LET id == slots[c].id
        seen == slots[c].seen
    IN /\ In(c, "offsets", "save")
       /\ Save(c, slots[c].copy)
       /\ \E minutes \in SUBSET Minutes :
            IF ~Fits(id, slots[c].copy) THEN UNCHANGED <<offsets, reminds>>
            ELSE /\ offsets' = [offsets EXCEPT ![id] = Carried(seen, minutes)]
                 /\ reminds' = [reminds EXCEPT ![id] = [m \in Minutes |->
                      IF offsets[id][m] = "absent" THEN 0 ELSE @[m]]]
       /\ raced' = raced \cup {<<id, m>> : m \in
                     {x \in Minutes : offsets[id][x] = "absent" /\ OnItsWay(id, x)}}
       /\ Return(c)
       /\ UNCHANGED <<clock, used, origin, tripped, gone>>

\* remove(): softRemove of the row alone.
Remove(id) ==
    /\ Live(id) /\ Spend("remove")
    /\ ev' = [ev EXCEPT ![id].state = "deleted"]
    /\ UNCHANGED <<clock, offsets, slots, history>>

\* removeSeries(): the template and every occurrence there is, in one
\* transaction, from any row of the series.
RemoveSeries(id) ==
    /\ Live(id) /\ Spend("series")
    /\ id = Root => ev[Root].cadence # "none"
    /\ ev' = [e \in Events |-> IF Exists(e) THEN [ev[e] EXCEPT !.state = "deleted"]
                               ELSE ev[e]]
    /\ gone' = (gone \/ \A c \in Slots : Idle(c))
    /\ UNCHANGED <<clock, offsets, slots, reminds, origin, rule, strays, raced,
                   tripped>>

\* The cancelled ones stay where they are.
Plan_LiveOnly(ids) ==
    {[id |-> i, from |-> ev[i].start, to |-> Reanchored(ev[i].start)] :
       i \in {j \in ids : Live(j)}}

\* reanchor(): the request names the wall clock it expects, and is refused when
\* the row shows another; what is left is planned from the rows as read, the
\* cancelled ones too.  A UTC zone has nothing to move.
Plan(ids) == {[id |-> i, from |-> ev[i].start, to |-> Reanchored(ev[i].start)] :
                i \in ids}

\* assertNoOccurrenceCollision(): none lands on a sibling that stays, no two on
\* one another; the template's own row is outside the index.
Collides(plan) ==
    LET moving == {step.id : step \in plan}
        landing == {step \in plan : step.id # Root}
    IN \/ \E step \in landing : \E o \in Occurrences \ moving : ev[o].start = step.to
       \/ \E x, y \in landing : x # y /\ x.to = y.to

AllStarts == [id \in {e \in Events : Exists(e)} |-> ev[id].start]

Reanchor(c, id, op) ==
    LET plan == Plan({id} \cup IF op = "cascade" THEN Occurrences ELSE {}) IN
    /\ Arrives(c) /\ Live(id) /\ Spend(op)
    /\ op = "cascade" => id = Root /\ ev[id].cadence # "none"
    /\ IF (Before = 0 /\ After = 0) \/ Collides(plan) THEN UNCHANGED slots
       ELSE slots' = [slots EXCEPT ![c] =
              [NoRead EXCEPT !.op = op, !.step = "save", !.id = id,
                             !.plan = plan,
                             !.seen = AllStarts]]
    /\ UNCHANGED <<clock, ev, offsets, history>>

\* The earliest goes first, whichever way the series moves.
WrittenBefore_EarliestFirst(asked, x, y) == x.from < y.from

\* The updates run against the shift of the row asked for: when it moves to
\* later, the latest goes first.
WrittenBefore(asked, x, y) ==
    IF asked.to < asked.from THEN x.from < y.from ELSE x.from > y.from

\* The index as each update meets it: the rows written before it have moved.
Step(plan, id) == CHOOSE x \in plan : x.id = id
Moves(plan, id) == \E x \in plan : x.id = id
Trips(plan, asked) ==
    \E x \in {y \in plan : y.id # Root} : \E o \in Occurrences \ {x.id} :
      x.to = IF Moves(plan, o) /\ WrittenBefore(asked, Step(plan, o), x)
               THEN Step(plan, o).to ELSE ev[o].start

\* One transaction of targeted updates; a duplicate key undoes it all.
SaveReanchor(c) ==
    LET plan == slots[c].plan
        seen == slots[c].seen
        along == IF slots[c].op = "cascade" THEN DOMAIN seen ELSE {}
        with == {id \in along : origin[id].rule = rule}
    IN /\ In(c, "repair", "save") \/ In(c, "cascade", "save")
       /\ IF Trips(plan, Step(plan, slots[c].id))
            THEN /\ tripped' = (tripped \/ seen = AllStarts)
                 /\ UNCHANGED <<ev, rule, origin, strays>>
            ELSE /\ ev' = [id \in Events |->
                      IF Moves(plan, id)
                        THEN [ev[id] EXCEPT !.start = Step(plan, id).to]
                        ELSE ev[id]]
                 /\ rule' = IF slots[c].id = Root THEN rule + 1 ELSE rule
                 /\ origin' = [id \in Events |->
                      IF id \in with THEN [origin[id] EXCEPT !.rule = rule + 1]
                      ELSE origin[id]]
                 /\ strays' = strays \cup {id \in Ids : Moves(plan, id) /\
                      (id \notin with \/ origin[id].cadence = "monthly")}
                 /\ UNCHANGED tripped
       /\ Return(c)
       /\ UNCHANGED <<clock, offsets, used, reminds, raced, gone>>

(***************************************************************************)
(* The surroundings.                                                       *)
(***************************************************************************)

Tick ==
    /\ clock < MaxTime
    /\ clock' = clock + 1
    /\ UNCHANGED <<ev, offsets, slots, used, history>>

\* The process dies: what is under way is gone, open transactions roll back.
\* A sweep that throws ends its tick the same way.
Crash ==
    /\ \E c \in Slots : ~Idle(c)
    /\ used < MaxUse /\ used' = used + 1
    /\ slots' = [c \in Slots |-> NoRead]
    /\ UNCHANGED <<clock, ev, offsets, history>>

Commit(c) ==
    \/ SaveArchived(c) \/ SaveTime(c) \/ SaveCadence(c) \/ ReadOffsets(c)
    \/ SaveOffsets(c) \/ SaveReanchor(c)
Progress(c) ==
    \/ ReadExisting(c) \/ CreateOccurrence(c)
    \/ \E d \in InBatch(c) : Claim(c, d) \/ EnqueueReminder(c, d)
    \/ Commit(c)
Next ==
    \/ \E c \in Slots : Generate(c) \/ Sweep(c) \/ Progress(c)
    \/ \E c \in Slots, id \in Events :
         \/ \E op \in {"archive", "unarchive", "time", "offsets", "cadence"} :
              LoadEvent(c, id, op)
         \/ \E op \in {"repair", "cascade"} : Reanchor(c, id, op)
    \/ \E id \in Events : Remove(id) \/ RemoveSeries(id)
    \/ Tick \/ Crash

Spec == Init /\ [][Next]_vars

(***************************************************************************)
(* Properties.                                                             *)
(***************************************************************************)

\* Types, and what the index guarantees: no two occurrences at one instant.
TypeOK ==
    /\ clock \in 0 .. MaxTime
    /\ ev \in [Events -> [state : {"none", "live", "deleted"}, start : Int,
                          cadence : {"none"} \cup Cadences, recurring : BOOLEAN,
                          active : BOOLEAN, archived : BOOLEAN]]
    /\ \A i, j \in Occurrences : ev[i].start = ev[j].start => i = j
    /\ offsets \in [Events -> [Minutes -> {"absent", "unsent", "sent"}]]
    /\ reminds \in [Events -> [Minutes -> Nat]]
    /\ strays \subseteq Ids /\ raced \subseteq Events \X Minutes

\* A reminder is a ping and cannot be taken back: for each offset an author
\* asks for, one is queued at most, over overlapping sweeps, crashes between
\* the claim and the queueing, and edits that write the offsets anew.  The
\* ways out are a claim that falls between the two halves of such an edit, and
\* an offset taken out and added again while its claimed reminder is not queued.
RemindedOnce ==
    \A id \in Events, m \in Minutes :
      reminds[id][m] > 1 => <<id, m>> \in raced

\* The sweep makes one occurrence for each period of a rule: what was
\* cancelled is not made again, nor what a repair of the whole series has
\* moved along with its rule.  An occurrence an author moved by itself has
\* left the rule, as has one of an earlier rule that a repair takes along; one
\* made by a sweep that was under way during the repair is still of the old.
\* A repair may also part a monthly occurrence from its rule (NeverMadeAgain).
OncePerPeriod ==
    \A i, j \in Occurrences \ strays : origin[i] = origin[j] => i = j

\* A repair of the whole series moves its occurrences with the rest, so that
\* the sweep does not make them again (reanchor).  Months are not all of one
\* length: a template that crosses the end of a month has its rule shifted by
\* other amounts than the occurrences, each of which is read by itself.
NeverMadeAgain ==
    \A i, j \in Occurrences : origin[i] = origin[j] => i = j

\* A repair that read the series as it still is does not collide with the
\* rows it is itself about to move: the conflict it reports is a real one.
RepairNeverTripsItself == ~tripped

\* What a sweep computes from its estimate is what the rule says: the coming
\* instants within the horizon that no occurrence holds, neither one of the
\* past nor one left out.  Later numbers than those tried lie beyond the horizon.
Instant(n) == OccurrenceAt(ev[Root].start, ev[Root].cadence, n)
Required == {Instant(n) : n \in 1 .. clock + Horizon + Day - ev[Root].start}
              \cap (clock + 1 .. clock + Horizon)
MissingIsExact ==
    LET missing == Missing(ev[Root].start, ev[Root].cadence, clock, Held)
    IN Generating => {Instant(n) : n \in missing} = Required \ Held

\* A series removed with nothing under way never comes back: no sweep makes
\* another occurrence of it, and none of its rows lives again.
RemovedStaysRemoved == gone => \A id \in Events : ~Live(id)

\* The generator makes what the rule says, and only while there is a series
\* (computeOccurrenceStarts, generate).
GenerationIsExact == MissingIsExact /\ RemovedStaysRemoved
================================================================================
