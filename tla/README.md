# Formal models of the Lords Dashboard backend

TLA+ models of the concurrent parts of the NestJS backend, small instances that
TLC checks, and theorems that TLAPS proves for every instance. Paths below are
relative to the repository; `src/discord/…` stands for `src/src/discord/…` as
`PROJECT.json` names it. `PROJECT.json` holds the line-by-line map from
definitions to source, the runs, the mutants and the list of hazards.

The backend is one Node process over one MySQL database. It has no threads, so
what interleaves is the code between two `await`s: requests with one another,
with the timers, and with Discord. Three facts about it shape every model:

* **A step is what runs between two awaits.** Each round trip to the database or
  to Discord is an action of its own, and the process may die between any two.
* **`repository.save(entity)` writes back what was read.** TypeORM compares the
  entity with the row at save time and updates every column that differs, so a
  handler that loaded a row before another one changed it puts the old values
  back. There are no version columns and few transactions. Handlers therefore
  carry their copy of the row, and the save restores the whole copy.
* **Commit first, enqueue after.** A Discord side effect is a row in
  `discord_sync_jobs`, inserted by an await *after* the one that committed the
  change it announces, and behind a gate that drops it when the bot is off.

## 1. Inventory

| component | state | operations | who else touches it |
|---|---|---|---|
| **Discord outbox** (`discord/discord-sync.worker.ts`, `discord-sync.service.ts`) | `discord_sync_jobs`: status, attempts, scheduledAt; the rows a tick holds in memory; `bot_operations` | insert, tick (two reads: bulk, interactive), claim, dispatch, retry or fail, bookkeeping, reaper at boot, cancel | every component enqueues; the audit trail is told the outcome |
| **Bulk re-link** (`ranks`/`medals` services, `enqueueRoleRelink`, `expandRelinkPage`) | the catalogue's `discordRoleId`, the batch's rows, the guild roles of each holder | link, unlink, supersede, expand a page, apply to a member, cancel, progress | rank changes run beside it; outbox |
| **Event announcements** (`events.service.ts`, `event-announcement.service.ts`, `event-rsvp-interaction.service.ts`, `event-status.scheduler.ts`) | event row, RSVPs, `event_announcements` (message, thread, closedAt), the message in the channel | post, refresh, thread and ping, close; status sweep, close sweep; buttons | reminders open the thread; outbox |
| **Applications and enlistment** (`applications.service.ts`) | applications, block on the identity, roster rows, the Applicant role | submit, edit, approve, decline, hold, block, unblock | settings; outbox; session cache |
| **Reminders, recurrence, series** (`event-reminder.scheduler.ts`, `event-recurrence.scheduler.ts`, `events.service.ts`) | offsets with `sentAt`, occurrences under a unique index, the template's anchor | claim, materialise, re-anchor, replace the offsets on edit | announcements; outbox |
| **Role convergence of one member** (worker, `discord-role-*.service.ts`, `discord-onboarding.service.ts`) | the member's guild roles, the live roster | grant, scoped and full reconcile, ban role, applicant role, adoption, welcome | outbox, re-link, applications, members |
| **Members** (`members.service.ts`, `username.service.ts`) | member rows, service record, awards, deletion requests, reserved handles | edit, rank, role, award, suspend, ban and their reverses, derive from Discord, deletion in stages | session cache, outbox |
| **Sessions** (`session-context.service.ts`, `auth.service.ts`) | a 30 s cache of who the caller is; `sessionsValidFrom` | resolve, invalidate, sign in, log out, last seen | every guarded request |
| **Guild membership** (`guild-membership.service.ts`) | cached and stored verdicts, lookups in flight, circuit breaker | resolve, probe, join and leave written through | sign-in, gate |
| **Capabilities, settings** (`authz.service.ts`, `settings.service.ts`) | matrix table and its 30 s cache; settings rows | read, update, dissolve | every guarded request |
| **Rank ladder, medal catalogue** (`ranks.service.ts`, `medals.service.ts`) | rows under unique indexes (name, and precedence of a rank), the awards that hang on a medal | create, edit, remove, reorder in one transaction, award, revoke | re-link, roster |
| **Chain of command** (`member-hierarchy.ts`, `members.service.ts`) | the role of each member, the role each session still carries | appoint, moderate, decorate | sessions, capabilities |
| **Console** (`settings.service.ts`, `discord.service.ts`) | five single rows: regiment, settings, bot, connection, document | update, present, set up, dissolve, bind, verify, configure, resolve a failure | every notice reads the switches |
| **Gallery and object store** (`gallery.service.ts`, `storage.service.ts`) | items with their status and files, likes, views; tickets and objects by key | ticket, upload, submit, moderate, edit, remove with purge, like, view | showcase channel; public pages |
| **Public site** (`members/public`, `regiments.service.ts`, `seo.service.ts`, `gallery/share`, and the reads of events, gallery and members behind the sign-in) | nothing of its own but a cache of avatars | pages made of several reads behind gates | everything it reads |
| **Audit trail** (`audit.service.ts`) | entries and their mirror status | record, write-back | outbox, console |
| Health, config, filters, schema | reads, or run once | | |

What makes each hard, and what makes it correct:

* **Outbox.** A tick works for seconds from rows it read at its start; cancels,
  the reaper and a crash come between; the save that would record a success may
  itself fail. Correct when a one-shot effect is never repeated, an idempotent
  one is never lost, every row ends, attempts are bounded, and the ledger and
  the audit entry tell the outcome.
* **Re-link.** A self-queuing cursor with crashes, retries, cancels and newer
  runs around it. Correct when no holder is skipped, a run that reads
  *completed* has been applied, a new run cancels only its own predecessor, and
  every run ends.
* **Announcements.** Three writers of one message: answers (coalesced into one
  pending refresh), the close, and the thread. Correct when the card catches up
  with the roster, dead buttons stay dead, nobody is pinged twice, and an event
  that ends is retired.
* **Enlistment.** Seven handlers that check and then act on a copy. Correct when
  the roster and the decisions agree, nobody is enlisted twice, an applicant has
  one open application, decisions stand, and a blocked person is out.
* **Reminders and recurrence.** A claim against an edit that rewrites the very
  rows; a batch limit; occurrences made while their series moves.
* **Role convergence.** Jobs of one member out of order because of backoff; some
  carry a frozen role, some recompute it from the roster.
* **Members and sessions.** Stale whole-row saves can undo a ban; a cache filled
  from a read older than the invalidation; a deletion cancelled while executed.
* **Guild membership.** The same verdict is cached, stored, shared between waiting
  callers, and pushed by gateway events; a slow answer may be older than an event
  that has been recorded. Correct when an outage never reads as *not a member*, and
  the half-open breaker lets exactly one lookup through.
* **Chain of command.** Checked against a session up to 30 s old and a row loaded
  before. Correct when no chain of appointments ends above the highest of its
  appointers, and nobody loses seat or access to a peer.
* **Capabilities, settings, console.** Caches over rows that are saved whole.
  Correct when a saved grant is in force at once, and what was saved stays saved.
* **Gallery.** Rows and objects live in two stores and are removed in steps.
  Correct when nothing is shown whose picture the service itself has purged.
* **Public site.** Each page filters by a predicate written out once per page,
  over rows read one after another. Correct when nobody sees what was closed all
  the while, what a list links to opens, and only deleted accounts answer 410.

## 2. Modules

```
DeliveryContract   <--refines--  SyncOutboxContract --EXTENDS--> SyncOutbox <--EXTENDS-- SyncOutbox_proofs
                                        ^
                                   MCSyncOutbox
RoleRelink         <--EXTENDS-- MCRoleRelink
                   <--EXTENDS-- RoleRelink_proofs
EventAnnouncement  <--EXTENDS-- MCEventAnnouncement
                   <--EXTENDS-- EventAnnouncement_proofs
Enlistment         <--EXTENDS-- MCEnlistment
                   <--EXTENDS-- Enlistment_proofs
EventSchedule      <--EXTENDS-- MCEventSchedule
                   <--EXTENDS-- EventSchedule_proofs
Membership, RoleSync, GuildGate, Catalogue, Gallery,
Administration, Console, Command, PublicSite
                   <--EXTENDS-- BackOffice <--EXTENDS-- MCBackOffice
Membership, GuildGate, Command, PublicSite
                       <--EXTENDS-- Access_proofs
RoleSync               <--EXTENDS-- RoleSync_proofs
BackOffice, Access_proofs, RoleSync_proofs
                       <--EXTENDS-- BackOffice_proofs
```

The components that speak to Discord all go through the outbox. They do not compose
`SyncOutbox` itself but the part of its behaviour that reaches them: a waiting
row may be served in any order with its peers (backoff), a dispatch may throw
and be retried or given up, a row in hand survives a crash or not according to
whether its type is idempotent. `SyncOutboxContract` and the theorems about
`SyncOutbox` are what licenses that reduction.

`BackOffice` puts nine services side by side that share no variable: what one needs of
another (a ban, a switch, a role) is an input of its own module, an action that may
come at any time. A behaviour is therefore about one service, its `focus`, and the others
stay as they began; one search answers what nine would. The properties range
over all of them and say something where their service has the focus. Where even
one service has too many unrelated operations to interleave them all, a further variable
that never changes says what the behaviour is about: `topic` (Membership), `concern`
(GuildGate), `matter` (Administration), `agenda` (Console), `theme` (PublicSite). The
groups are in `MCBackOffice` and put together the operations that write or read
the same thing; operations of different groups are not interleaved.

`Process`, in the same module, is the process as it runs: any service may take the next
step. Its states are the products of the nine services', too many to search, and the
theorems are stated of it. `Spec`, which the run searches, is part of it (`Slice`).

### SyncOutbox

One action per round trip of `drain`, `processJob`, `handleFailure`,
`reapOrphanedJobs` and `AuditService.record`.

| model | code |
|---|---|
| `status`, `attempts`, `due`, `createdAt` | the columns of `discord_sync_jobs`; `due` is `scheduledAt <= now` |
| `pc`, `bulk`, `interactive`, `readAttempts`, `job` | the drain: the two result lists of a tick, the attempts as they were read, the row in hand |
| `reaper`, `orphaned`, `orphan` | `reapOrphanedJobs`, started with `void` beside the timer |
| `syncStatus`, `recording` | the audit entry of a mirror job; `record()` calls that have queued the mirror and not yet written *pending* |
| `opsOk`, `opsFailed` | `bot_operations`, counted |
| `ReadBulk`, `ReadInteractive`, `Claim`, `EndTick`, `AbortTick` | `drain` |
| `DispatchDelivers`, `DispatchSkips`, `DispatchThrows`, `MirrorSynced` | `dispatch`, by outcome |
| `SaveSucceeded`, `LedgerSuccess`; `SaveRetry`, `SaveFailed`, `LedgerFailure`, `MirrorFailed` | the tails of `processJob` and `handleFailure`; each save may fail (`DbFails`), and an entry of the ledger may be written although the heartbeat after it fails |
| `ReapRead`, `ReapIdempotent`, `ReapOther`, `ReapLedger`, `ReapMirror`, `ReapDone` | the reaper |
| `Crash`, `Boot` | the process |

`ReapFirst` is a constant of the instances: FALSE is the code, where nothing
makes the first tick wait for the reaper's query; TRUE restricts a run to the
schedule in which the reaper has read before the first tick, which is the case
in practice and the one the contract is stated for.

`DeliveryContract` is what a producer may rely on: a job is closed at most
once, nothing is delivered after it is closed, a one-shot job is delivered at
most once, and *done* means delivered unless the job is of a kind that asks
again at drain time whether it is wanted. `SyncOutboxContract` maps the table to
it: a row present is a job accepted, the two terminal statuses are its verdict,
`delivered` is shared.

### RoleRelink

`Load`, `SaveLink`, `DropRelink`, `SupersedeBatches`, `QueueRelink` are the
awaits of `linkDiscord` / `unlinkDiscord` and of `enqueueRoleRelink`; `LoadMove`,
`SaveMove`, `QueueMove` those of a rank change or an award. `CheckExpand`,
`ReadPage`, `InsertApply`, `InsertCursor` are `expandRelinkPage`; `Decide`, `Act`,
`Grant` are `roleSyncingLive`, `reconcileScoped` and `grantRoles` on one
member; `Cancel`, `Progress` are the operator's page. A row's `batch` is the
position of its seed; a cursor row's `who` is the last member id served.
`wears` is the guild. All job types here are idempotent, so `Restart` hands
every claimed row back. Four history variables say what a property may not be asked of: the
members who `moved`, the runs that were `halted` or that `strayed` (the mapping was
another one meanwhile), and the mappings `missed`: saved over one the request had not read, or
by a request that died before it queued its run.

### EventAnnouncement

An event has a row (`ev`), answers (`rsvp`), a delivery record and a `post`:
how often it was posted, what card it shows, whether its buttons live, its
threads and pings. `calls` are requests between two awaits, `jobs` is the bag
of waiting rows, `hand` the row in hand with what it has read so far.
`ReadRefresh`, `ReadRoster`, `EditRefresh` are one refresh, whose two reads and
edit are three awaits; `SendAnnouncement`, `RecordDelivery` the post and its
guarded write-back; `ReadThread`, `OpenThread`, `RecordThread`, `Ping` the thread;
`ReadClose`, `EditClose`, `MarkClosed` the close. `AdvanceStatuses` and
`CloseEnded` are the sweeps; `Clock` lets the event start and end. The card is
abstracted to the version of its text and the set of members who come, which is
what tells a current card from an old one.

### Enlistment

A request is a slot with the stage it has reached, the application it works on
and its copy of the row. Stages are named after the handler and the next write:
`approve-commit` is the moment before the transaction. `marker` is the last
request queued for the Applicant role. Two history parts make the proviso of
several properties precise: `stale` says that another request has written about
the same person since this one first read, and `raced` collects the people for
whom a stale request wrote, a crash cut a request after its first write, or the
bot was off when a role request was due.

### EventSchedule

Slots hold what is under way: ticks of the recurrence sweep (`Generate`,
`ReadExisting`, `CreateOccurrence`) and of the reminder sweep (`Sweep`, `Claim`,
`EnqueueReminder`), and authors' requests: `SaveArchived`, `SaveTime`,
`SaveCadence`, `ReadOffsets` and `SaveOffsets` (`replaceChildren`), `Remove`,
`RemoveSeries`, `Reanchor` and `SaveReanchor`. An instant is a number, a zone two offsets
and the local time at which one gives way to the other; `Utc` is what
`resolveEventInstant` does with a wall clock, and `Reanchored` what `reanchorInstant` does
with a stored instant: it reads its UTC fields as a wall clock of the zone. `ev[Root]` is the first event, which may be a one-off or the
template of a series.

A rule is daily, weekly or monthly. `OccurrenceAt` adds calendar units to the local time of the
anchor, as Luxon's `plus` does: days and weeks have one length, months have their own
(`MonthBegins`, a cycle of months given by the instance), and a date that the month lacks is clamped to its last
day. `EstimateIndex` divides, or takes the difference of year and month; `FirstAfter` corrects the estimate with the code's bounds of
32 steps up and 64 in all. `origin` is history: the period of the rule an occurrence
was made for, and its cadence; `strays` are the occurrences that have left their rule.

### The services of BackOffice

* **Membership**: one member's row, the identity behind it, the session cache, the handle and
  the erasure. A `call` carries its copy; `CompareMember` and `WriteMember` are the two halves of
  `save` (read the row again, then write each column that differs from it). `Find`, `Settle`,
  `Erase`, `Block` are the stages of `executeSelfDeletion` and its neighbours;
  `ReadIdentity`, `ReadMember`, `Answer` are `SessionContextService.resolve`.
* **RoleSync**: what the roster wants (`Wanted`), what the guild shows (`worn`),
  requests that change the one and queue a job for the other (`ChangeRank`,
  `ChangeRole`, `Ban`, `AwardMedal`, `Derive`, `Approve`, …), the worker
  (`Take`, `FetchMember`, `CallGateway`, `CallFails`) and the world (`ByHand`,
  `Leave`, `Join`). A job and a request carry in `owes` the roles they still have to see to;
  `adrift` collects the roles for which the code gives the promise up.
* **GuildGate**: lookups by cache, shared flight or fresh call; `Probe`, `AskAnswered`,
  `AskFails`, `Degrade`, `StoreVerdict`, `SaveIdentity`, `CacheVerdict` are the awaits of
  `GuildMembershipService`; the guild takes a turn at each join or leave, and a
  verdict carries the turn it saw.
* **Catalogue**: `Create`, `Update`, `LinkDiscord`, `SaveEntry`, `RemoveEntry`, `RemoveRow`,
  `Reorder`, `ReorderRows`, `AwardEntry`, `AwardRow`, each check apart from its write; unique
  indexes and the key of the roster are guards, the cascade of `member_medals` an effect.
* **Gallery**: `Submit`, `InsertItem`, `ModerateItem`, `SaveItem`, `RemoveItem`,
  `Proceed`, `SoftRemove`, `DeleteObject`, tickets and uploads, likes and views,
  posts to the review and showcase channels.
* **Administration**: `LoadMatrix` and `StoreMatrix` fill the cache, `AssertGovernable`,
  `Commit` and `Invalidate` are a batch edit, `Seed` a deployment beside the
  process; `CompareSettings` and `WriteSettings` the bot's row, as far as the ban role goes.
* **Console**: each act is a script of loads, saves and notices (`ScriptOf`), one await at
  a time (`LoadRow`, `EnsureRow`, `CreateRow`, `SaveRow`, …); the worker's own steps
  are `ClaimLetter`, `SendNotice`, `SendFails`, `KeepLedger`.
* **Command**: `GiveOrder`, `Accept` or `Refuse`, `SaveOrder`, `DropSession` are a
  request; `ResolveSession` refreshes the role a session acts with. `CanActOn` and
  `CanGrantRole` are the functions of `member-hierarchy.ts`.
* **PublicSite**: a page is a list of reads (`Pages`), each behind the gate the code puts
  there; `AtGate`, `AtRows`, `AtPicture`, `AtDeparted` are single reads. `barred` is history: what
  has been closed to a visitor ever since the request began. `SavePortrait` and `InvalidateFace`
  are a sign-in and the drop of the avatar that follows it.

## 3. Runs

| run | shows | bounds | states |
|---|---|---|---|
| `OutboxSafe` | `TypeOK`, `AtMostOnce`, `AuditStatusFinal` | an audit mirror and a role grant; 2 boots; 1 failing query; reaper unordered | 5.2 M |
| `OutboxSettles` | `SettledIsReported`, `DispatchBudget`, `EveryJobSettles`, `ImplementsContract` | a mirror and a re-link job that may be cancelled; 2 boots; 1 failing query; reaper reads first | 216 k |
| `OutboxReapRace` | *violated:* `ReapedAreOrphans` | one boot, no failure | |
| `RelinkRuns` | `TypeOK`, `NobodySkipped`, `CompletedMeansApplied`, `OnlyOwnSubjectSuperseded`, `DoneStaysDone`, `RunsEnd` | three members, rank and medal with one role, pages of one, any 2 of: re-link, rank change, throw, crash, cancel, gate flip | 1.0 M |
| `RelinkCancel` | *violated:* `CancelStopsExpansion` | two members, one re-link, one cancel | |
| `Announcements` | `TypeOK`, `CardIsCurrent`, `RetiredStaysDead`, `PingedOnce`, `EndedIsRetired` | one event, one member, two requests at once, any 2 of: answer, edit, throw, crash, failed write-back, gate flip; 2 reminders | 656 k |
| `AnnounceArchived` | *violated:* `ArchivedIsRetired` | two edits, no trouble | |
| `Enlistment` | `TypeOK`, `ApprovedIsEnlisted`, `EnlistedOnce`, `OneOpenApplication`, `BlockedIsOut`, `MarkerTellsOpen`, `DecisionStands` | one person, two applications, five requests with two at once, one settings change, crashes at any time | 1.0 M |
| `EnlistmentBlocked` | *violated:* `NeverApprovedWhileBlocked` | one application, three requests | |
| `EventSchedule` | `TypeOK`, `RemindedOnce`, `OncePerPeriod`, `RepairNeverTripsItself`, `GenerationIsExact` | one event with three further ids, two reminders, two slots, any 2 requests or crashes; a daily or a monthly rule; a day of three instants, months of one and of two days, horizon of three, a clock of one | 429 k |
| `SeriesRepair` | *violated:* `NeverMadeAgain` | a monthly rule, months of one and of two days, a zone that keeps its offset; one repair | |
| `BackOffice` | `TypeOK`, `ErasureIsFinal`, `ShutOutInTime`, `GuildFollowsRoster`, `OutageIsHarmless`, `EarnedIsKept`, `ShownIsWhole`, `SavedIsInForce`, `CommandStands`, `PublicSiteHolds` | two requests at once in each service; see below | 832 k |

The `BackOffice` run takes about three minutes with two workers. By focus, in thousands of
states: account 191, roles 124, gate 159, ranks 17, pictures 57, admin 67,
console 59, command 53, public 101.

What its properties say, and what they leave out:

| property | of | provided that |
|---|---|---|
| `ErasureIsFinal` | a confirmed erasure is never undone by whatever copy is saved later, nor its handle given away | no sign-in, profile edit, confirm or cancel had read before it; nobody looked at the handle between the erasure's commit and the block |
| `ShutOutInTime` | a request is refused once the cache's lifetime has passed since a ban, logout or erasure | |
| `GuildFollowsRoster` | the guild shows of each role what the roster wants, or a job or request is still to see to it | the role was not touched by hand, switched off, given up, moved by a stale save (any role, if what the save put back is a ban or its absence), or asked for by a frozen job that was retried |
| `OutageIsHarmless` | a stored *no* was the guild's own answer, a recorded join or leave is not undone, and one lookup tries a half-open breaker | the gateway did not pass its silence on as an answer; no second lookup was under way |
| `EarnedIsKept` | no removal takes awards with it; the protected rank keeps its name | the award did not land between count and removal |
| `ShownIsWhole` | nothing is shown whose picture was purged | the item was not revived by a stale save; its author did not submit one key twice |
| `SavedIsInForce` | grants are current, the ban role exists while it is applied, fields stay as last saved, notices follow the switches and do not breed | no save whose copy is older than the change; rows that were on their way into the cache |
| `CommandStands` | no escalation by a chain of appointments; the owner stands; nobody loses seat or access to a peer | the caller was not moved meanwhile, the row not saved by another since it was loaded |
| `PublicSiteHolds` | nobody sees what was closed to them all along; lists link to pages that open; 410 for deleted accounts only; an avatar outlives its replacement by the cache's lifetime and a fetch | |

The provisos are history variables that name the one way the code loses the
property (`raced`, `adrift`, `revived`, `overtaken`, `lapped`, …). They are set
only by the step that opens that way, so a second way shows as a violation.

Why the bounds are enough:

* *Two jobs* for the outbox: its rows share nothing but the tick. One is in hand
  while the other waits in the snapshot, is cancelled, retried, or reaped. The
  pair in each run is chosen for its types: a one-shot job with an audit entry
  against an idempotent one, and against a bulk one. Two attempts give a retry
  and an exhaustion; two boots give one orphan; one failing query gives each
  save in turn its failure.
* *Pages of one and three members* give a first, a middle and a last page, one
  of them with the actor, who is left out of the run; two runs are what supersession
  needs.
* *One event*: events share nothing but the worker, and a second row of the same
  event occupies the worker as well as one of another event would. Two calls at
  once are what a lost update or a coalesced refresh needs.
* *One person* for enlistment: no handler reads another person's rows. Two slots
  make every race of two requests; the theorems cover any number of both.

* *One event and three ids* for the schedule: a repair moves rows by one, onto the slot of a neighbour, and across
  the end of a day or month. Two ticks of one sweep may overlap, or one may overlap a request.
  A day of three instants tells the local time from the date, and
  a month of one day beside one of two has a date that is clamped. The weekly
  rule differs from the daily in its length alone, and is left to the theorems.
* *Two slots and three calls, or two,* in each service of `BackOffice`: a handler that loads
  and saves late, the one that changes the row in between, and in most services a
  third that meets the result. Two members, two items, two ranks and one medal, two
  handles: enough for one to take what the other has given up. The clocks run just past
  each lifetime (`Ttl`, `CacheTtl`, `AvatarTtl`, `VerdictTtl`), so that both sides of an
  expiry occur.
* *Three comrades* for the chain of command: owner, admin and moderator, or a lone
  moderator beside the owner and a member. The theorem covers any number.

`CHECK_DEADLOCK FALSE` is set where the bounded inputs run out and the system
rests; the outbox and the announcements never stop ticking and are checked for
deadlock.

**Fairness.** Only the system's own steps are fair: the worker's timer and the
awaits of a tick, the sweeps, the reaper, the passing of a backoff, and the restart
of a dead process (`docker-compose.prod.yml`, `restart: unless-stopped`). Users
and administrators owe nothing; in `RoleRelink` a request that has begun goes on.
Strong fairness appears once, on serving the waiting close of an event: rows are
drained in order of creation, so an older row cannot be overtaken for ever.
Crashes, throws and failing queries are bounded.

**Mutants.** Every property of every passing run has a mutant in its module: a
handler with a plausible mistake (a dropped guard, a wrong status, a forgotten
write) under which TLC finds the property violated.

## 4. What is proved

Every theorem holds for every value of the constants, under the named assumptions of the
modules it is about. They are those of the code: for the outbox that the set of jobs is
finite, each has a type, `None` is not a job, and the bounds are numbers; for
enlistment that `Nobody` is nobody; for the gate that a lookup is given up before the
breaker's cooldown is over (4 s against 60 s, `auth/guild-membership.service.ts:38,49`); for the catalogue that
there are no more ranks than the offset a reorder works with (1000, `ranks.service.ts:32`);
for re-links that there are finitely many members, whose ids are positive, and that a page holds at least one;
for the console that it is asked for acts and notices it has, and that nobody submits the column
that says a row exists; for the public site that members, handles, events, items and the
reads of a page have names of their own, that nobody is erased at first, and that a theme
names pages there are.
Each proof follows one pattern: an invariant that is inductive (checked by TLC as an
invariant first), one lemma or step per action, a last temporal step.

**SyncOutbox_proofs.**
* `TypeCorrect` needs `AttemptsLeft` to be inductive: a retry increments the number
  of attempts the tick *read*, so the bound of the column holds only because every row
  in a snapshot or with the reaper, and every row not yet settled, has an attempt left.
* `DeliveredAtMostOnce` rests on `DeliveredIsSpent`: once a one-shot job has been
  delivered it is processing or settled, it is in no snapshot, and if it is still
  in hand the drain is past the point where it could fail it; a crash leaves it
  *processing*, which the reaper turns into *failed* and never into *pending*. The
  proof does not assume that the reaper reads first, so the race that
  `OutboxReapRace` exhibits cannot repeat an announcement.
* `AuditNeverPendingAgain`: `AuditStatusFinal`, an action property, from `Begun`: an entry has
  an outcome only if its mirror row has been inserted, and no second one is. What is excluded
  is the way back to *pending*; *synced* and *failed* may still replace one another: after a crash the
  reaper gives up a mirror that was posted, and the drain may post one that the reaper beside it has given up.
* Under `ReapFirst`, all from `Custody`: a row is in one pair of hands at most, and the table
  says whose. With it an orphan is a row of a dead process (`OrphansAreDead`: the disagreement that
  `OutboxReapRace` shows has no other cause); the outbox implements its contract
  (`Refinement`: initial states map to initial states, each step to a step or a stutter; the one
  delicate step is the save of a success, whose row must have been delivered,
  `SentIsDelivered`); the calls of Discord for one job stay within its attempts and the starts
  of the process (`CallsAreBudgeted`, from `Tally`: a row that was left *processing* has cost one attempt its
  column does not count yet, and a restart pays for it); and every
  settled row is in the ledger once and on its audit entry (`SettledAreReported`, from `Told`: both are
  behind the status only by what the drain is about to write).

**Enlistment_proofs.**
* `TypeCorrect`: every request works on a row of its own person, open when read.
* `ApprovedAreEnlisted` and `NobodyEnlistedTwice`, without any proviso, from
  `Roster`. The argument: no handler saves a copy it read as approved, so a stale
  save can take an approval away but never forge one, and the only writer of an
  approval inserts the member in the same transaction. A row that was approved and
  reopened by a stale edit cannot be approved again, because its person is
  already on the roster and the unique index rolls the transaction back.
* `OneOpen`, `BlockedAreOut` and `DecisionsStand`, for people not in `raced`,
  from `Unraced`: a request that is not stale holds a copy that equals its row
  (`FreshOK`), and each person's rows are in order (`PersonOK`). Their content
  is that races are the *only* way these three are lost: sequential requests, in any
  number and order, with any edits, holds, blocks, settings and idle crashes,
  keep them.
* `RoleTellsOpen`: `MarkerTellsOpen`, from `Told`: a request that is about to queue the
  Applicant role knows whether its person has an application open, and while none is
  about to, the last one queued tells.

**Access_proofs**, about one account, the gate, the chain of command, and what the pages show.
* `ErasedForGood` and `KeptOut`, from `AccountInv` (which is a theorem of its own, `AccountKept`).
  `ErasureIsFinal` says nothing of the copies in flight; the invariant does. Before the
  erasure every copy is of the member with its link, and no write changes the link;
  after it, unless a sign-in was under way, every copy carries the link that the erasure took, and so what
  `WriteMember` will write brings either that link, which the foreign key refuses, or
  no life. For the cache, an entry that outlives a change by its lifetime carries what was changed, and so
  does what a request has read if it began after the change (`EntryFresh`, `ReadStages`).
* `OutageHarmless`, from `BreakerInv` and `VerdictInv`. While somebody tries a half-open
  breaker nobody else asks, because a lookup that began while it was closed ends before it is
  half-open: this is where the two timeouts matter. A pair that is not blind tells what the
  guild was in the turn it carries, and without a second lookup under way no lookup holds
  an older turn than the last event that was recorded.
* `ChainOfCommand`: `CommandStands` and the types, for any set of members, any number
  of requests, any set of actions asked for and any roles that hold the capabilities,
  given only that the regiment begins with one owner, who is the one
  `regiments.owner_member_id` points at. `CommandStands` is not inductive: it says nothing
  of the copies in flight. `CommandInv` adds that every role a session carries is backed by
  somebody who began at least as high (`Backed`, over the member and all who have appointed),
  and `OrderInv` for each request: the role it acts with is backed, and is its caller's present one
  unless the caller was moved; the copy it will save is backed, never the
  owner's seat for anyone else, and never the owner's row under a moderation; a role it is to
  give is backed by the hands already on the books. The set of appointers only
  grows, so what is backed stays backed (`BackedGrows`); the rest is one lemma per action.
* `PublicSiteSound`: `PublicSiteHolds` and the types, for any members, events, items, handles, visits
  and changes of any kind between two reads of a page, from `SiteInv`. What a read finds is open when it
  finds it (`FoundOpen`), a change only takes out of `barred` what it opens, and so what a page has put together
  so far stays clear of what was closed all the while (`VisitInv`). `PageInv` keeps a page to the reads of its own
  kind, and so an avatar that is still to fetch is one that was current when the page asked. `FacesInv` bounds what the
  cache holds: the face of a replaced picture lives no longer than the cache and one fetch allow, and one that no fetch
  overtook is known to be due for its drop. `NamesInv`: an address that is open is one member's, and one that is gone
  belongs to the departed.

**BackOffice_proofs**, about ranks, medals, pictures, the matrix and the console, and about all nine
services together.
* `LadderKept`: `EarnedIsKept` and the types. The unique places of a reorder's list, and
  the offset above every place, carry the two passes of `reorder` over the unique index; an entry to be
  removed has no holder unless one has slipped in; and there is always one protected rank
  that no request under way renames or removes (`Keeper`).
* `PicturesKept`: `ShownIsWhole` and the types, from `Shelf` and `RequestInv`: an object that was purged
  belongs to an item that was removed, the keys of a row are tickets of its author, and a copy
  to be saved names the keys its row has now.
* `AdministrationSound`: the types and the two promises of `Administration`, from `AdminInv`, for any table,
  batches, checks and restarts. What a load of the matrix has in hand is what the table grants, or an edit
  or seed has come since (`CacheInv`); the last word of a batch on a cell is what its guard has looked at (`Editing`); and
  unless two saves of the bot's row overlapped, one request at a time writes it and what it leaves alone is as in
  its copy (`BotInv`).
* `ConsoleSound`: the types and the three promises of `Console`, from `ConsoleInv`: a script stays a suffix of what the act
  asks for, in the order the code has it; a copy that a request is to save stands for its row, or the
  row was overtaken; and a switch that a notice has found on was on at some moment since it was asked for.
* A step of `Process` is, for each service, a step of its own or none: they share no variable, so this is mere
  framing (the lemma `EachAsAlone`). With it a theorem about a
  service alone is one about the process: `SavedStays`, `HeldInTheProcess`,
  `ShownInTheProcess`, `PeopleInTheProcess`, and `AllTyped` for the types.
* `OneAtATime` brings them back to the run: its ten invariants, `TypeOK` among them, for every value of
  the constants.

The proof has corrected the model of the console twice. An entity that comes from a save which
found the bot's row already there lacks that row's columns, and so does not put `on` back; and a notice that is asked
for after one's own save of the switches goes by what that save wrote.

**RoleSync_proofs.** `RolesFollowed`: `GuildFollowsRoster` and the types, for any ladder, any
number of requests and any bounds, from `RolesInv`, which has three parts.
* `Ground`: the shapes of a job, of a request and of what the worker has in hand.
* `RuleInv`: each role, at each moment, is adrift, is right, is claimed by a job or a request
  that will still decide it, or is in the hands of the dispatch. A dispatch decides by what it *read*, so it
  heals a role only if nobody has claimed it again since (`Healing`), and a call that does not heal does no
  harm either (`Harmless`). Under a ban only jobs that know of it count, and a lifted ban leaves its roles adrift.
* `PhaseInv`, for the Applicant role, whose jobs are frozen when they are queued: they are served in order unless
  one was tried again, the last one fits the phase the applicant is in, and at most one request has one to ask for.

The proof has corrected the model. A save of a stale copy that puts a ban, or its absence, back on
the roster moves *every* role, not only those of the ranks it writes; the run does not
reach that within its bound on commands, the attempt to prove it did. `adrift` now says so.

**EventSchedule_proofs**, for any ids, slots, offsets and rules.
* `TypeCorrect` from `Ground`: what a slot has in hand is of rows there are, and the unique index is kept
  because a transaction that does not trip ends with distinct instants.
* `RemindersOnce`, from `RemindersInv`: of an offset that is not marked sent nothing has been queued
  and nobody is about to; at most one slot has claimed it; an edit that will write it
  back as unsent finds it as it was read, or gone. The turn of a batch belongs to one row (`OneTurn`).
* `OneEachPeriod`: `OncePerPeriod`, at any cadence, in a zone that keeps its offset or where no series is repaired as a whole
  (`Steady`), from `SeriesInv`: the occurrences of one rule agree on the anchor, a sweep holds the anchor of the rule it
  read, a cascade has seen the rule. A repair commutes with a rule of days or weeks (`Even`). It does not with
  one of months, and so the property leaves out, as strays, the monthly occurrences that a repair
  has moved; `SeriesRepair` shows that it must.
* `RepairsClear`: `RepairNeverTripsItself` in a zone on one side of UTC (`OneSide`). The attempt to
  prove it without found the hypothesis necessary; section 5 says how.
* `RemovedForGood`: an event that was deleted is never written back, by a copy or by a sweep.
* `GenerationExact`: `GenerationIsExact`, at each of the three cadences and for any calendar of months, under two hypotheses (`Ample`): a change of the zone is shorter than a
  day, and `MAX_EMIT` days reach beyond the horizon. The code emits 500
  against 60 days (`event-recurrence.scheduler.ts:17-20`). Occurrences then come in the order of their numbers
  (`InOrder`); two past the number that `computeOccurrenceStarts` estimates always lies one to come (`Estimated`), so the correction,
  up and then down, ends on the first (`FirstFound`) and the walk from there meets every later one before the cap
  (`MissingFound`).

**EventAnnouncement_proofs**, for any events, members, requests and bounds. All rest on
`AnnouncementKept`, whose invariant has four parts besides the shapes of the state.
* `PingsOnce`, from `Once` and `Threads`: an announcement is in one place, with the request that
  created the event, queued once or in hand, and in none once it was sent; no copy takes back that
  an event was created. A thread is opened by the dispatch that announces.
* `RetiredForGood`, from `Retiring`: what a refresh or a close found open stays open until it is done,
  because there is one worker and only a dispatch touches a message or its record.
* `TypeCorrect`, whose part about the table is a count over a bag: `Copies` makes a set of the rows, one element for each
  of several that are alike, and a row that is inserted or taken is one element more or less (`OneMore`, `OneLess`). `Roomy`
  says that the row in hand keeps its place: only a dispatch that throws goes beyond the bound, and by that one row.
* `NoAnswerLost`: `CardIsCurrent`, from `Truth`. An event's card is known to be behind, is claimed by a
  refresh that has not read yet (by a request, a waiting row, or the worker at its first step), or
  everything that shows it or is about to has what the database has.

**RoleRelink_proofs**, for any members, ranks, medals, roles, administrators and page sizes.
All rest on `RelinkInv`; its `Ground` says that each row is about what its run is about, that the
worker's step fits the row in hand, and that what stopped a run is on the books.
* `EveryHolderReached`: `NobodySkipped`, inductive over `Ground`. A page takes the least holders
  beyond the cursor, and if it is full whoever is left out lies beyond its last
  (`LowestReach`, by counting); so each step hands a holder on from a cursor to itself, to the
  next one or to a job (`CursorGoesOn`).
* `SummaryTrusted`: `CompletedMeansApplied`, from `AppliedInv` (whose job is behind wears the
  role, and a job that is about to act has seen that the roster wants it so) and `SettledInv` (each role of
  each member is what the roster says, or a request, a cursor or a job is still to settle it).
* `OthersLeftAlone` and `DoneRowsStay`, the action properties, and `TypeCorrect`.

The proof has corrected the property. `CompletedMeansApplied` used to ask only that the mapping be the
run's own when the run is looked at, and it held because the run has no more than two re-links. With three
(to B, to C, to B again) the jobs of the first run read C, and it reads *completed* beside a
mapping it never delivered. It now asks that the mapping stayed the one the run
delivers, and in return says more of the whole: when every run has ended, everybody wears
exactly what the roster says.

The library's induction theorems take an operator as a parameter, which the installed
provers cannot instantiate. Where a proof needs induction over a number or a finite set (the largest
place of the ladder, the last member of a page), it takes a least counterexample instead (`Least`, `First`, from the
well-foundedness of the naturals). No module uses a recursive operator.

Every invariant and every action property of a passing run is a theorem. Three rest on a hypothesis the run
meets by its constants and the code by its own (`OneEachPeriod` and `RepairsClear`: the zone; `GenerationExact`: `Ample`),
and those of the outbox that are marked need the reaper to read first. Only model-checked: liveness (`EveryJobSettles`,
`RunsEnd`, `EndedIsRetired`), which, with `ENABLED`, is beyond the prover.

## 5. What the code does that its text denies

Five runs show a disagreement between the code and its own comments:

1. `OutboxReapRace`: the reaper may take a row that the new process is working
   on for an orphan; the comment says it recovers them before draining.
2. `RelinkCancel`: a cancel that arrives while the cursor job is in hand and
   nothing waits marks no row, so the check that was written to stop the run
   lets it grow.
3. `AnnounceArchived`: archiving an event before its announcement has drained
   leaves a message with live buttons that nothing retires.
4. `EnlistmentBlocked`: an approval under way when its applicant is blocked
   enlists the blocked person.
5. `SeriesRepair`: a cascading repair moves each occurrence by its
   own stored instant, while the sweep counts from the template's. A monthly template that crosses the
   end of a month is parted from its occurrences: stored as 2026-05-01T05:00Z in America/Phoenix (30 April, 22:00), it
   has its first on 31 May 05:00Z; repaired, they are at 1 May and 31 May, 05:00 local, and the rule says 1
   June. The sweep makes the period a second time, a cancelled
   occurrence included. The same happens at any cadence where the zone changes its offset between template
   and occurrence: the occurrence was generated with the other offset.

Other behaviour was met while modelling. Each item is a reason for a proviso in a
property, a state that the models reach, or a difference that the models leave out.

*Outbox and Discord.* A cancelled re-link row that a tick had read is applied. Of two
concurrent re-links the one that enqueues last wins, not the one that saved
last; and of two edits that read the same mapping neither run names the role that the first of
them saved, so whoever was given it in between keeps it. A mapping changed from A to B and at once to nothing leaves role A behind. A
gate that closes in mid-run lets the remaining rows succeed without effect, and the run reads
*completed*. A first ping that throws is never repeated. An answer between the
composition of an announcement and its delivery is missing from the card until the
next refresh. 25 announcements whose message was deleted in Discord starve the
close sweep. A crash between commit and enqueue loses the side effect, although README.md:413
speaks of one transaction. A notice in the queue still goes to its old channel after the bot was
switched off or the channel moved; only a welcome asks again.

*Roles.* Lifting a ban gives no role back, and the ban job does not ask whether the ban still
stands. Somebody who leaves and rejoins within the onboarding window is not
restored. The stamp that keeps two joins apart is set after an await, against
`discord-onboarding.service.ts:67-71`. Two overlapping derivations may award one medal
twice, against *IDEMPOTENT* in `members.service.ts:619`. The add and the remove of the Applicant
role are frozen jobs that may apply in either order. `fetchMember` answers *nobody* for a
failed call too.

*Stale saves.* A double submit leaves two open applications; a stale edit reopens a decided one.
An overlapping save may take a seat back, against *widen, never hollow out* in
`member-hierarchy.ts:180`; may restore an old avatar without dropping the cache; on the
regiment's row, may undo a dissolve or a bind; on the settings, as a first edit, may put another's first
edit back to the defaults; on the connection, the worker's heartbeat may take back a verification.
Two overlapping saves of the bot's settings may switch the ban role on with no role. A
removed gallery item may come back to life without its files.

*Accounts.* A sign-in that found its identity before a logout or a suspension writes the older
`sessionsValidFrom` back (`auth.service.ts:123-152`). `members.service.ts:1047-1048` says that the identity row is retained and
scrubbed; the code deletes it. A crash between the commit of an erasure and the block
of its handle leaves the handle free; if it is blocked later, or a rename's hold overwrites the block,
an address that belongs to somebody else may answer 410 or be released.

*Catalogue and gallery.* Removing a medal takes along an award that lands after the
count. A reorder is refused when precedences reach the offset it works with. One
key submitted twice belongs to two items. The showcase post of an approval may follow a decline.

*Caches and pages.* A matrix read that was under way when an edit committed stays in force for up
to 30 s, against `authz.service.ts:8-10`. The drop of an avatar is lost when a step between save
and drop fails, and the old picture then lives out its time. The history tab lists archived events whose page
answers 404; the archive answers where the page of an item is private; the sitemap
lists `/events` and `/gallery` when both are private; the counts of home and statistics include
the banned and suspended, unlike the roster; the fallback card of a malformed gallery id is
indexable, against `seo.controller.ts:136-145`; public pages are served after a dissolve.

*Reminders.* The sweep's limit of 50 may fall inside one event's offsets, and then two
reminders of it go out in two ticks where one would.

*Repairs.* `events.service.ts:566-568` says that the writes of a re-anchoring are ordered by the sign of the shift, so
that none lands on an instant its neighbour has not left. `:620-631` takes the sign of the shift of the
event the repair was *asked* of. In a zone whose offset is nought for part of the year, an event asked of
in winter shifts by nothing, its summer neighbours do shift, and the order is the wrong one for them: two of
them an hour apart, one of which an author had moved, trip the index. `RepairsClear` therefore asks
for a zone on one side of UTC, and the run has one.

## 6. Plan

Done, in order of importance: outbox and contract, re-link, announcements,
enlistment, schedules, role convergence, accounts and sessions, the guild gate, the
chain of command, catalogue, gallery, capability matrix, console, public site; proofs about
each of them, of the outbox's refinement of its contract, and of the nine services in one process.

Left:

1. Liveness stays with TLC; larger instances of `RunsEnd` and `EndedIsRetired` would say more.
2. A composition of the announcements with the outbox, in place of the reduction that section 2
   describes, which is argued there and not proved.

## 7. Not modelled

* Input and output without shared state: the calls of discord.js behind the gateway and its
  mock, the S3 client, the OAuth exchange, the resolution of links to videos, the
  checks of images and content types.
* The calendar itself. `EventSchedule` has a cycle of months of given lengths where the code has Luxon's
  Gregorian one, one change of the zone's offset where a year has two, and no wall
  clock that is skipped or doubled by it other than as `Utc` and `Local` resolve it.
* What pages look like: HTML, XML, structured data, embeds, order and paging.
* Reads beside which nothing can go wrong: the reveal of a password, queries over the
  audit trail and their CSV export.
* Health checks, configuration, filters, throttling, encryption of columns.
* Run once and offline: migrations, and seeds except that of the capability matrix;
  their unique indexes and foreign keys appear as guards where a handler relies on them.
* Permissions, except in `Command` and `Gallery`, where they decide the outcome: in the other models
  anyone may call every handler. `Administration` shows what the gate reads.
* HTTP caches in front of the pages.
* Texts, payload formats, audit details and log lines everywhere.

## Running

`tlc -config OutboxSafe.cfg MCSyncOutbox` and so on, with the module named in
`PROJECT.json` (`MCSyncOutbox`, `MCRoleRelink`, `MCEventAnnouncement`, `MCEnlistment`,
`MCEventSchedule`, `MCBackOffice`). With `-coverage 1`, TLC reports `BackOffice` by
service; the disjuncts inside each are listed below it.
`tlapm SyncOutbox_proofs.tla`, and likewise `Enlistment_proofs`, `Access_proofs`,
`BackOffice_proofs`, `RoleSync_proofs`, `EventSchedule_proofs`, `EventAnnouncement_proofs` and
`RoleRelink_proofs`.
