-------------------------------- MODULE GuildGate -------------------------------
(***************************************************************************)
(* Is a person in the regiment's Discord guild?  The stored pair           *)
(* (guild_member, guild_checked_at) that the gate reads, the cache of      *)
(* verdicts, the lookups that ask the bot (the status poll, a sign-in, and *)
(* those of everybody else), the events of joining and leaving, and the    *)
(* circuit breaker all lookups share.                                      *)
(*                                                                         *)
(* A verdict carries the turn of the guild it was observed in: the guild   *)
(* takes a turn when the person joins or leaves.  Turn 0 is no verdict.    *)
(***************************************************************************)
EXTENDS Integers, FiniteSets

CONSTANTS
    Lookups,    \* lookups and event handlers under way at once, numbered
    Concerns,   \* what a behaviour may be about: the kinds of them, and as
                \* bounds the time and the lookups, turns and restarts in all
    Timeout,    \* GUILD_LOOKUP_TIMEOUT_MS
    BreakerCooldown,  \* BREAKER_COOLDOWN_MS
    Threshold,  \* BREAKER_FAILURE_THRESHOLD
    VerdictTtl, \* VERDICT_TTL_MS
    DegradedTtl,\* DEGRADED_TTL_MS
    MaxTurns    \* bound: turns of the guild

Kinds == {"status", "signin", "other", "event"}

ASSUME GuildGateAssumption ==
    /\ Concerns \subseteq [kinds : SUBSET Kinds, time : Nat, lookups : Nat]
    /\ Lookups \subseteq Nat /\ MaxTurns \in Nat \ {0}
    /\ {Timeout, Threshold, VerdictTtl, DegradedTtl} \subseteq Nat \ {0}
    /\ BreakerCooldown \in Nat /\ BreakerCooldown > Timeout

VARIABLES
    clock,
    firstIn,  \* whether the person was in the guild in its first turn
    turn,     \* the turn of the guild
    stored,   \* the pair on the identity row
    verdicts, \* the cached verdict
    sharing,  \* inFlight: the status lookup that callers share, 0 for none
    failures, \* consecutiveFailures
    openUntil,\* breakerOpenUntil
    halfOpen, \* halfOpenProbeInFlight
    lookups,  \* [Lookups -> a lookup or an event handler]
    concern,  \* what this behaviour is about
    asked,    \* how much of the bound on lookups is spent
    heard,    \* history: the last turn an event recorded
    overlap   \* history: two of them were about this person at once

gateVars == <<clock, firstIn, turn, stored, verdicts, sharing, failures, openUntil,
              halfOpen, lookups, concern, asked, heard, overlap>>
\* The breaker, and what a behaviour is about, which never changes.
breaker == <<concern, failures, openUntil, halfOpen>>

InGuild(t) == firstIn <=> (t % 2 = 1)
Observation(t) == [member |-> InGuild(t), turn |-> t, at |-> clock, blind |-> FALSE]
Never == [member |-> FALSE, turn |-> 0, at |-> 0, blind |-> FALSE]
NoLookup == [kind |-> "none", at |-> "idle", copy |-> Never, by |-> 0, trial |-> FALSE,
             seen |-> Never]
NoVerdict == [verdict |-> Never, degraded |-> TRUE, until |-> 0]

GateInit ==
    /\ clock = 0
    /\ firstIn \in BOOLEAN /\ turn = 1
    /\ stored \in {Never, Observation(1)}
    /\ verdicts = NoVerdict
    /\ sharing = 0
    /\ failures = 0 /\ openUntil = 0 /\ halfOpen = FALSE
    /\ lookups = [c \in Lookups |-> NoLookup]
    /\ concern \in Concerns
    /\ asked = 0 /\ heard = 0 /\ overlap = FALSE

StartLookup(c, lookup) ==
    /\ lookup.kind \in concern.kinds
    /\ \A d \in Lookups : d <= c => (lookups[d].at = "idle" <=> d = c)
    /\ lookups' = [lookups EXCEPT ![c] = lookup]
Doing(c, kind, at) == lookups[c].kind = kind /\ lookups[c].at = at
Finish(c) == lookups' = [lookups EXCEPT ![c] = NoLookup]
OtherLookups(c) == {d \in Lookups \ {c} : lookups[d].kind \in {"status", "signin", "event"}}
Store(c, pair) == stored' = pair /\ overlap' = (overlap \/ OtherLookups(c) # {})
Cache(pair, from) ==
    verdicts' = [verdict |-> pair, degraded |-> FALSE, until |-> from + VerdictTtl]

\* resolve(): a verdict that has not lapsed answers, then a lookup under way,
\* and else a lookup of one's own.
ResolveCached ==
    /\ verdicts.until > clock \/ sharing # 0
    /\ UNCHANGED gateVars
Resolve(c) ==
    /\ verdicts.until <= clock /\ sharing = 0
    /\ asked < concern.lookups /\ asked' = asked + 1
    /\ StartLookup(c, [NoLookup EXCEPT !.kind = "status", !.at = "read"])
    /\ sharing' = c
    /\ UNCHANGED <<clock, firstIn, turn, stored, verdicts, breaker, heard, overlap>>
ReadStored(c) ==
    /\ Doing(c, "status", "read")
    /\ lookups' = [lookups EXCEPT ![c].at = "probe", ![c].copy = stored]
    /\ UNCHANGED <<clock, firstIn, turn, stored, verdicts, sharing, breaker, asked,
                   heard, overlap>>

\* A sign-in begins with its probe; so does everybody else's.
ResolveFresh(c) ==
    /\ asked < concern.lookups /\ asked' = asked + 1
    /\ \E kind \in {"signin", "other"} :
         StartLookup(c, [NoLookup EXCEPT !.kind = kind, !.at = "probe"])
    /\ UNCHANGED <<clock, firstIn, turn, stored, verdicts, sharing, breaker, heard,
                   overlap>>

(***************************************************************************)
(* probe() and its breaker.                                                *)
(***************************************************************************)

\* Once the cooldown is over everybody gets through.
Allows_All == clock >= openUntil

\* breakerAllows(): closed; or half-open, and nobody is trying.
Allows == openUntil = 0 \/ (clock >= openUntil /\ ~halfOpen)

\* Each kind goes on with its answer, a verdict or none.
LookupAnswered(c, seen) == lookups' = [lookups EXCEPT ![c].at = "answered", ![c].seen = seen,
                                               ![c].trial = FALSE, ![c].by = 0]
Probe(c) ==
    /\ lookups[c].at = "probe"
    /\ IF ~Allows THEN LookupAnswered(c, Never) /\ UNCHANGED halfOpen
       ELSE /\ lookups' = [lookups EXCEPT ![c].at = "ask", ![c].by = clock + Timeout,
                                          ![c].trial = (openUntil # 0)]
            /\ halfOpen' = (halfOpen \/ openUntil # 0)
    /\ UNCHANGED <<clock, firstIn, turn, stored, verdicts, sharing, failures, openUntil,
                   concern, asked, heard, overlap>>

\* fetchMember() answers: what the guild shows, or nobody, which the gateway
\* also says when the guild would not answer it.
Blind == [member |-> FALSE, turn |-> turn, at |-> clock, blind |-> TRUE]
AskAnswered(c) ==
    /\ lookups[c].at = "ask"
    /\ \E seen \in {Observation(turn), Blind} : LookupAnswered(c, seen)
    /\ failures' = 0 /\ openUntil' = 0 /\ halfOpen' = FALSE
    /\ UNCHANGED <<clock, firstIn, turn, stored, verdicts, sharing, concern, asked, heard,
                   overlap>>

\* What an answer that did not come is taken for: not in the guild.
Unanswered_No == [Blind EXCEPT !.blind = FALSE]

\* No verdict at all.
Unanswered == Never

\* The bot is not connected, or does not answer in time.
AskFails(c) ==
    /\ lookups[c].at = "ask"
    /\ LookupAnswered(c, Unanswered)
    /\ halfOpen' = FALSE
    /\ failures' = failures + 1
    /\ openUntil' = IF failures + 1 >= Threshold THEN clock + BreakerCooldown ELSE openUntil
    /\ UNCHANGED <<clock, firstIn, turn, stored, verdicts, sharing, concern, asked, heard,
                   overlap>>

(***************************************************************************)
(* What is done with the answer.                                           *)
(***************************************************************************)

\* lookup() without an answer: what was last known, for a short while; fail open.
Degrade(c) ==
    /\ Doing(c, "status", "answered") /\ lookups[c].seen.turn = 0
    /\ verdicts' = [verdict |-> lookups[c].copy, degraded |-> TRUE,
                    until |-> clock + DegradedTtl]
    /\ sharing' = 0
    /\ Finish(c)
    /\ UNCHANGED <<clock, firstIn, turn, stored, breaker, asked, heard, overlap>>

\* With an answer the row is updated, then the cache.
StoreVerdict(c) ==
    /\ Doing(c, "status", "answered") /\ lookups[c].seen.turn # 0
    /\ Store(c, lookups[c].seen)
    /\ lookups' = [lookups EXCEPT ![c].at = "cache", ![c].by = clock]
    /\ UNCHANGED <<clock, firstIn, turn, verdicts, sharing, breaker, asked, heard>>

\* upsertIdentity(): the row is found; without an answer the pair is left as found.
FindIdentity(c) ==
    /\ Doing(c, "signin", "answered")
    /\ lookups' = [lookups EXCEPT ![c].at = "save",
         ![c].seen = IF @.turn = 0 THEN stored ELSE @]
    /\ UNCHANGED <<clock, firstIn, turn, stored, verdicts, sharing, breaker, asked,
                   heard, overlap>>
SaveIdentity(c) ==
    /\ Doing(c, "signin", "save")
    /\ Store(c, lookups[c].seen)
    /\ lookups' = [lookups EXCEPT ![c].at = "cache", ![c].by = lookups[c].seen.at]
    /\ UNCHANGED <<clock, firstIn, turn, verdicts, sharing, breaker, asked, heard>>

\* cache.set(), syncCache(): no pair, no entry.
CacheVerdict(c) ==
    /\ lookups[c].at = "cache"
    /\ IF lookups[c].seen.turn = 0 THEN verdicts' = NoVerdict
       ELSE Cache(lookups[c].seen, lookups[c].by)
    /\ sharing' = IF lookups[c].kind = "status" THEN 0 ELSE sharing
    /\ overlap' = (overlap \/ OtherLookups(c) # {})
    /\ Finish(c)
    /\ UNCHANGED <<clock, firstIn, turn, stored, breaker, asked, heard>>

\* Somebody else's lookup ends: of their verdict nothing is kept here.
OtherEnds(c) ==
    /\ Doing(c, "other", "answered")
    /\ Finish(c)
    /\ UNCHANGED <<clock, firstIn, turn, stored, verdicts, sharing, breaker, asked,
                   heard, overlap>>

\* The person joins or leaves; the bot is told, unless it is not connected.
GuildTurns ==
    /\ "event" \in concern.kinds
    /\ turn < MaxTurns /\ turn' = turn + 1
    /\ asked < concern.lookups /\ asked' = asked + 1
    /\ UNCHANGED <<clock, firstIn, stored, verdicts, sharing, breaker, heard, overlap>>
    /\ \/ UNCHANGED lookups
       \/ \E c \in Lookups :
            StartLookup(c, [NoLookup EXCEPT !.kind = "event", !.at = "update",
                        !.seen = [Observation(turn) EXCEPT !.member = InGuild(turn + 1),
                                                           !.turn = turn + 1]])

\* recordEventVerdict(): the row, then the cache; an error is swallowed.
RecordEventVerdict(c) ==
    /\ Doing(c, "event", "update")
    /\ \/ /\ Store(c, lookups[c].seen)
          /\ heard' = lookups[c].seen.turn
          /\ lookups' = [lookups EXCEPT ![c].at = "cache", ![c].by = clock]
       \/ Finish(c) /\ UNCHANGED <<stored, heard, overlap>>
    /\ UNCHANGED <<clock, firstIn, turn, verdicts, sharing, breaker, asked>>

\* Time passes, but no lookup is awaited past its timeout.
GateTick ==
    /\ clock < concern.time /\ clock' = clock + 1
    /\ \A c \in Lookups : lookups[c].at = "ask" => lookups[c].by > clock
    /\ UNCHANGED <<firstIn, turn, stored, verdicts, sharing, breaker, lookups, asked,
                   heard, overlap>>

\* A restart loses the cache, the breaker and what was under way.
GateRestart ==
    /\ \E c \in Lookups : lookups[c].at # "idle"
    /\ asked < concern.lookups /\ asked' = asked + 1
    /\ lookups' = [c \in Lookups |-> NoLookup]
    /\ verdicts' = NoVerdict /\ sharing' = 0
    /\ failures' = 0 /\ openUntil' = 0 /\ halfOpen' = FALSE
    /\ UNCHANGED <<clock, firstIn, turn, stored, concern, heard, overlap>>

AskDiscord(c) == Probe(c) \/ AskAnswered(c) \/ AskFails(c)
GateNext ==
    \/ \E c \in Lookups :
         \/ Resolve(c) \/ ReadStored(c) \/ ResolveFresh(c) \/ AskDiscord(c)
         \/ Degrade(c) \/ StoreVerdict(c) \/ FindIdentity(c) \/ SaveIdentity(c)
         \/ CacheVerdict(c) \/ OtherEnds(c) \/ RecordEventVerdict(c)
    \/ ResolveCached \/ GuildTurns \/ GateTick \/ GateRestart

GateSpec == GateInit /\ [][GateNext]_gateVars

(***************************************************************************)
(* Properties.                                                             *)
(***************************************************************************)
Pairs == [member : BOOLEAN, turn : 0 .. MaxTurns, at : 0 .. concern.time, blind : BOOLEAN]
GateTypeOK ==
    /\ stored \in Pairs
    /\ verdicts \in [verdict : Pairs, degraded : BOOLEAN, until : Nat]
    /\ sharing \in Lookups \cup {0}
    /\ clock \in 0 .. concern.time /\ turn \in 1 .. MaxTurns /\ asked \in 0 .. concern.lookups
    /\ halfOpen \in BOOLEAN /\ failures \in Nat /\ openUntil \in Nat

\* isGatedOut(): only a stored no shuts anybody out.
GatedOut == stored.turn # 0 /\ ~stored.member
Quiet == \A c \in Lookups : lookups[c].at = "idle"

\* An outage shuts nobody out.  A stored no was the guild's answer in some turn,
\* or its silence that the gateway passes on as an answer, never a lookup that
\* timed out, failed, or was not made.  An event that was recorded is not undone
\* by an older answer, and a cached verdict is the stored one, unless a lookup,
\* a sign-in or another event about the same person was under way.
OutageShutsNobodyOut ==
    /\ GatedOut => stored.blind \/ ~InGuild(stored.turn)
    /\ ~overlap => stored.turn >= heard
    /\ Quiet /\ ~overlap /\ verdicts.until > clock /\ ~verdicts.degraded =>
         verdicts.verdict = stored

\* While the breaker is half-open one lookup tries the gateway, and while none
\* does the next may: the flag neither lets two through nor is left standing.
\* It holds because a lookup is given up before the cooldown is over.
BreakerTriesOne ==
    LET trials == {c \in Lookups : lookups[c].at = "ask" /\ lookups[c].trial}
    IN /\ Cardinality(trials) <= 1
       /\ halfOpen <=> trials # {}

\* The breaker and the fail-open rule together.
OutageIsHarmless == OutageShutsNobodyOut /\ BreakerTriesOne
================================================================================
