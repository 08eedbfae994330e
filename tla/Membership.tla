------------------------------- MODULE Membership -------------------------------
(***************************************************************************)
(* One member: the roster row and everybody who writes it, the Discord     *)
(* identity behind it, the sessions it opens, the vanity handle, and the   *)
(* erasure of the account in three stages.  A stranger wants the handle.   *)
(*                                                                         *)
(* Handlers load the row, await, and save() the whole of it: save reads    *)
(* the row again, and writes each column in which the copy differs.  So a  *)
(* column another request wrote in between is put back, and the write may  *)
(* meet a row that has changed once more.                                  *)
(*                                                                         *)
(* What the outbox is asked after a ban or a change of role is RoleSync's  *)
(* subject.  The member is not the owner and moderates nobody.             *)
(***************************************************************************)
EXTENDS Integers, FiniteSets

CONSTANTS
    Slots,      \* requests under way at once, numbered
    Officers,   \* the roles of those who moderate
    Topics,     \* sets of operations; one of them is what a behaviour is about
    Ttl,        \* how long a resolved context is trusted
    Cooldown,   \* how long a released handle is held, and a rename barred
    MaxIds,     \* bound: identities a person signs in with, one after another
    MaxRequests,\* bound: deletion requests
    MaxTime,    \* bound: the clock
    MaxCalls    \* bound: requests and crashes together

Roles == {"mercenary", "member", "moderator", "admin"}
Operations == {"edit", "ban", "unban", "suspend", "unsuspend", "role", "visit",
               "signin", "logout", "ask", "confirm", "execute", "cancel", "claim"}
DeletionIds == 1 .. MaxRequests
Ids == 1 .. MaxIds

ASSUME MembershipAssumption ==
    /\ Officers \subseteq Roles /\ Slots \subseteq Nat
    /\ Topics \subseteq SUBSET Operations
    /\ {Ttl, Cooldown, MaxIds, MaxRequests} \subseteq Nat \ {0}
    /\ {MaxTime, MaxCalls} \subseteq Nat

VARIABLES
    now,       \* the time, in the seconds of iat
    member,    \* the members row
    links,     \* rows of member_social_links
    identity,  \* the discord_identities row, its id 0 when there is none
    lastId,    \* ids given out
    deletions, \* [DeletionIds -> status of an account_deletion_requests row]
    hold,      \* the username_reservations row of the handle
    stranger,  \* another member carries the handle
    context,   \* [Ids -> cached context]
    tokens,    \* the JWTs issued
    calls,     \* [Slots -> a request and what it has read]
    topic,     \* which operations this behaviour is about
    spent,     \* how much of MaxCalls is spent
    bannedAt,  \* history: since when the row, live and under this link, has read
               \* banned, -1 if it does not
    identityAt,\* history: when the identity row was last written
    erased,    \* history: when the account was erased, by which request, and
               \* whether it carried the handle
    raced,     \* history: what was under way when the account was erased
    slipped,   \* history: the stranger looked before the handle was blocked
    late       \* history: somebody shut out was let in past the life of a context

accountVars == <<now, member, links, identity, lastId, deletions, hold, stranger, context,
          tokens, calls, topic, spent, bannedAt, identityAt, erased, raced, slipped, late>>
accountHistory == <<bannedAt, identityAt, erased, raced, slipped, late>>

NoContext == [member |-> FALSE, until |-> 0, cutoff |-> 0]
NoCall == [op |-> "none", at |-> "idle", copy |-> <<>>, dirty |-> {}, id |-> 0,
           iat |-> 0, since |-> 0, links |-> FALSE, release |-> FALSE]

Live == member.state = "live"
\* isBlocked(), isActivelySuspended().
Blocked(row) == row.banned \/ row.until > now
Tier(role) == CASE role = "admin" -> 40 [] role = "moderator" -> 30
                [] role = "member" -> 20 [] role = "mercenary" -> 10

\* A call begins, in the first free slot, and goes on to its next await.
BeginCall(c, call) ==
    /\ \A d \in Slots : d <= c => (calls[d].at = "idle" <=> d = c)
    /\ call.op \in topic
    /\ spent < MaxCalls /\ spent' = spent + 1
    /\ calls' = [calls EXCEPT ![c] = call]
CallAt(c, op, at) == calls[c].op = op /\ calls[c].at = at
Goto(c, at) == calls' = [calls EXCEPT ![c].at = at]
ReturnCall(c) == calls' = [calls EXCEPT ![c] = NoCall]

\* The person has a session that knows the member.
Recognised ==
    \E id \in Ids : \/ context[id].until > now /\ context[id].member
                    \/ identity.id = id /\ member.link = id /\ Live /\ ~Blocked(member)

AccountInit ==
    /\ now = 0
    /\ member = [state |-> "live", banned |-> FALSE, until |-> 0, role |-> "member",
                 handle |-> TRUE, personal |-> TRUE, renamed |-> -Cooldown, link |-> 1]
    /\ links = TRUE
    /\ identity = [id |-> 1, cutoff |-> 0]
    /\ lastId = 1
    /\ \E asked \in {"none", "pending", "confirmed"} :
         deletions = [r \in DeletionIds |-> IF r = 1 THEN asked ELSE "none"]
    /\ hold = [kind |-> "none", until |-> 0]
    /\ stranger = FALSE
    /\ context = [id \in Ids |-> NoContext]
    /\ tokens = {[id |-> 1, iat |-> 0]}
    /\ calls = [c \in Slots |-> NoCall]
    /\ topic \in Topics
    /\ spent = 0
    /\ bannedAt = -1 /\ identityAt = 0
    /\ erased = [at |-> -1, by |-> 0, handle |-> FALSE]
    /\ raced = {} /\ slipped = FALSE /\ late = FALSE

(***************************************************************************)
(* repository.save() of a loaded member, in its two halves.                *)
(***************************************************************************)

\* The row is read again; the columns that differ will be written.  An edit
\* of the profile brings personal data of its own.
CompareMember(c) ==
    LET copy == calls[c].copy
    IN /\ calls[c].at = "compare"
       /\ calls' = [calls EXCEPT ![c].at = "write",
            ![c].dirty = {k \in DOMAIN member : member[k] # copy[k]}
                           \cup IF calls[c].op = "edit" THEN {"personal"} ELSE {}]
       /\ UNCHANGED <<now, member, links, identity, lastId, deletions, hold, stranger,
                      context, tokens, topic, spent, accountHistory>>

\* The index of the handle is not unique.
KeysHold_LinkOnly(row) == row.link \in {0, identity.id}

\* A row whose keys hold: the identity it names exists, the handle is its own.
KeysHold(row) ==
    /\ row.link \in {0, identity.id}
    /\ row.handle => ~stranger
Written(c) == [k \in DOMAIN member |->
                 IF k \in calls[c].dirty THEN calls[c].copy[k] ELSE member[k]]

\* What follows the save in its handler.
AfterWrite(op) == CASE op = "edit" -> "release"
                    [] op \in {"ban", "suspend"} -> "cutoff"
                    [] op = "role" -> "drop"
                    [] op = "signin" -> "token"
                    [] OTHER -> "idle"

WriteMember(c) ==
    /\ calls[c].at = "write"
    /\ IF ~KeysHold(Written(c)) THEN ReturnCall(c) /\ UNCHANGED <<member, bannedAt>>
       ELSE /\ member' = Written(c)
            /\ bannedAt' = IF ~member'.banned THEN -1
                           ELSE IF member.banned /\ Live /\ member'.link = member.link
                                  THEN bannedAt ELSE now
            /\ IF AfterWrite(calls[c].op) = "idle" THEN ReturnCall(c)
               ELSE Goto(c, AfterWrite(calls[c].op))
    /\ UNCHANGED <<now, links, identity, lastId, deletions, hold, stranger, context,
                   tokens, topic, spent, identityAt, erased, raced, slipped, late>>

(***************************************************************************)
(* Profile and handle.                                                     *)
(***************************************************************************)

\* A cooldown alone keeps a handle back.
Held_CooldownOnly == hold.kind = "cooldown" /\ hold.until > now

\* activeReservation(): blocked for good, or not lapsed yet.
Held == hold.kind = "blocked" \/ (hold.kind = "cooldown" /\ hold.until > now)

\* check(): the rename cooldown, the reservation, whoever has it.
Available(row) == row.renamed + Cooldown <= now /\ ~Held /\ ~stranger

\* updateSelf(): the row is loaded; claimFor() checks and changes the copy.
Edit(c) ==
    /\ Recognised /\ Live
    /\ \E published \in BOOLEAN :
         BeginCall(c, [NoCall EXCEPT !.op = "edit", !.at = "claim",
                                 !.copy = [member EXCEPT !.personal = TRUE],
                                 !.links = published])
    /\ UNCHANGED <<now, member, links, identity, lastId, deletions, hold, stranger,
                   context, tokens, topic, accountHistory>>

ClaimFor(c) ==
    LET copy == calls[c].copy
    IN /\ CallAt(c, "edit", "claim")
       /\ \E handle \in BOOLEAN :
            IF handle = copy.handle THEN Goto(c, "compare")
            ELSE IF handle /\ ~Available(copy) THEN ReturnCall(c)
            ELSE calls' = [calls EXCEPT ![c].at = "compare", ![c].release = ~handle,
                             ![c].copy = [copy EXCEPT !.handle = handle, !.renamed = now]]
       /\ UNCHANGED <<now, member, links, identity, lastId, deletions, hold, stranger,
                      context, tokens, topic, spent, accountHistory>>

\* holdAfterRelease(): only once the row has been saved.
HoldAfterRelease(c) ==
    /\ CallAt(c, "edit", "release")
    /\ hold' = IF calls[c].release THEN [kind |-> "cooldown", until |-> now + Cooldown]
               ELSE hold
    /\ Goto(c, "links")
    /\ UNCHANGED <<now, member, links, identity, lastId, deletions, stranger, context,
                   tokens, topic, spent, accountHistory>>

ReplaceSocialLinks(c) ==
    /\ CallAt(c, "edit", "links")
    /\ links' = (links \/ calls[c].links)
    /\ ReturnCall(c)
    /\ UNCHANGED <<now, member, identity, lastId, deletions, hold, stranger, context,
                   tokens, topic, spent, accountHistory>>

\* Another member asks for the handle: the check, and a save under the index.
StrangerChecks(c) ==
    /\ ~Held /\ ~stranger /\ ~member.handle
    /\ BeginCall(c, [NoCall EXCEPT !.op = "claim", !.at = "take"])
    /\ slipped' = (slipped \/ (erased.at >= 0 /\ hold.kind # "blocked"))
    /\ UNCHANGED <<now, member, links, identity, lastId, deletions, hold, stranger,
                   context, tokens, topic, bannedAt, identityAt, erased, raced, late>>

StrangerTakes(c) ==
    /\ CallAt(c, "claim", "take")
    /\ stranger' = (stranger \/ ~member.handle)
    /\ ReturnCall(c)
    /\ UNCHANGED <<now, member, links, identity, lastId, deletions, hold, context,
                   tokens, topic, spent, accountHistory>>

(***************************************************************************)
(* Moderation.                                                             *)
(***************************************************************************)

\* What each handler refuses, and what it makes of the row.
Refused(op, row) == CASE op = "ban" -> row.banned
                      [] op = "unban" -> ~row.banned
                      [] op = "unsuspend" -> row.until <= now
                      [] OTHER -> FALSE
Results(op, actor, row) ==
    CASE op = "ban" -> {[row EXCEPT !.banned = TRUE]}
      [] op = "unban" -> {[row EXCEPT !.banned = FALSE]}
      [] op = "suspend" -> {[row EXCEPT !.until = now + 1]}
      [] op = "unsuspend" -> {[row EXCEPT !.until = 0]}
      [] op = "role" -> {[row EXCEPT !.role = r] :
                           r \in {x \in Roles \ {row.role} : Tier(x) <= Tier(actor)}}

\* loadMember() and assertMayActOn(): the officer outranks the role as loaded.
ModerateMember(c, op, actor) ==
    /\ Live /\ Tier(actor) > Tier(member.role) /\ ~Refused(op, member)
    /\ \E row \in Results(op, actor, member) :
         BeginCall(c, [NoCall EXCEPT !.op = op, !.at = "compare", !.copy = row,
                                 !.id = member.link])
    /\ UNCHANGED <<now, member, links, identity, lastId, deletions, hold, stranger,
                   context, tokens, topic, accountHistory>>

\* invalidateSessions(): an UPDATE that may fail, and the drop that follows; of
\* a member without an identity, neither.
Cutoff(c) ==
    /\ calls[c].at = "cutoff"
    /\ IF calls[c].id = 0 THEN ReturnCall(c) /\ UNCHANGED <<identity, identityAt>>
       ELSE /\ \/ /\ calls[c].id = identity.id
                  /\ identity' = [identity EXCEPT !.cutoff = now] /\ identityAt' = now
               \/ UNCHANGED <<identity, identityAt>>
            /\ Goto(c, "drop")
    /\ UNCHANGED <<now, member, links, lastId, deletions, hold, stranger, context,
                   tokens, topic, spent, bannedAt, erased, raced, slipped, late>>

\* invalidate(): of one identity, or of all where none is named.
Drop(c) ==
    /\ calls[c].at = "drop"
    /\ context' = [id \in Ids |-> IF calls[c].id \in {0, id} THEN NoContext ELSE context[id]]
    /\ ReturnCall(c)
    /\ UNCHANGED <<now, member, links, identity, lastId, deletions, hold, stranger,
                   tokens, topic, spent, accountHistory>>

Logout(c) ==
    /\ \E t \in tokens : /\ context[t.id].until > now
                         /\ BeginCall(c, [NoCall EXCEPT !.op = "logout", !.at = "cutoff",
                                                    !.id = t.id])
    /\ UNCHANGED <<now, member, links, identity, lastId, deletions, hold, stranger,
                   context, tokens, topic, accountHistory>>

(***************************************************************************)
(* Sign-in and the requests that follow.                                   *)
(***************************************************************************)

\* upsertIdentity() finds the row by the Discord user ...
SignIn(c) ==
    /\ BeginCall(c, [NoCall EXCEPT !.op = "signin", !.at = "identity", !.copy = identity])
    /\ UNCHANGED <<now, member, links, identity, lastId, deletions, hold, stranger,
                   context, tokens, topic, accountHistory>>

\* ... and saves it: a row that was found and is gone is inserted under its old
\* id, and two first sign-ins meet at the unique index.
UpsertIdentity(c) ==
    LET found == calls[c].copy
        row == IF found.id # 0 THEN found ELSE [id |-> lastId + 1, cutoff |-> 0]
    IN /\ CallAt(c, "signin", "identity")
       /\ row.id \in Ids
       /\ IF identity.id \notin {0, row.id}
            THEN ReturnCall(c) /\ UNCHANGED <<identity, identityAt, lastId>>
          ELSE /\ identity' = row /\ identityAt' = now
               /\ lastId' = IF found.id = 0 THEN lastId + 1 ELSE lastId
               /\ calls' = [calls EXCEPT ![c].at = "member", ![c].id = row.id]
       /\ UNCHANGED <<now, member, links, deletions, hold, stranger, context, tokens,
                      topic, spent, bannedAt, erased, raced, slipped, late>>

LinkedTo(id) == Live /\ member.link = id
FindMember(c) ==
    /\ CallAt(c, "signin", "member")
    /\ IF ~LinkedTo(calls[c].id) THEN Goto(c, "token")
       ELSE IF Blocked(member) THEN ReturnCall(c)
       ELSE calls' = [calls EXCEPT ![c].at = "compare", ![c].copy = member]
    /\ UNCHANGED <<now, member, links, identity, lastId, deletions, hold, stranger,
                   context, tokens, topic, spent, accountHistory>>

IssueToken(c) ==
    /\ CallAt(c, "signin", "token")
    /\ context' = [context EXCEPT ![calls[c].id] = NoContext]
    /\ tokens' = tokens \cup {[id |-> calls[c].id, iat |-> now]}
    /\ ReturnCall(c)
    /\ UNCHANGED <<now, member, links, identity, lastId, deletions, hold, stranger,
                   topic, spent, accountHistory>>

\* validate(): the cutoff a context carries is compared with the token's iat.
\* Shut out by now: the ban, the cutoff or the erasure is a context's life old.
Admits(seen, iat) == iat >= seen.cutoff
ShutOut(id, iat, since) ==
    \/ LinkedTo(id) /\ bannedAt >= 0 /\ since >= bannedAt + Ttl
    \/ identity.id = id /\ iat < identity.cutoff /\ since >= identityAt + Ttl
    \/ identity.id # id /\ erased.at >= 0 /\ since >= erased.at + Ttl
Judge(id, iat, since, seen) ==
    late' = (late \/ (Admits(seen, iat) /\ ShutOut(id, iat, since)))

\* resolve(): a context that has not lapsed answers.  Otherwise the identity
\* is read, then its member, and what was read is cached.
VisitCached(t) ==
    /\ "visit" \in topic /\ context[t.id].until > now
    /\ Judge(t.id, t.iat, now, context[t.id])
    /\ UNCHANGED <<now, member, links, identity, lastId, deletions, hold, stranger,
                   context, tokens, calls, topic, spent, bannedAt, identityAt, erased,
                   raced, slipped>>

Visit(c, t) ==
    /\ context[t.id].until <= now
    /\ BeginCall(c, [NoCall EXCEPT !.op = "visit", !.at = "identity", !.id = t.id,
                               !.iat = t.iat, !.since = now])
    /\ UNCHANGED <<now, member, links, identity, lastId, deletions, hold, stranger,
                   context, tokens, topic, accountHistory>>

ReadIdentity(c) ==
    /\ CallAt(c, "visit", "identity")
    /\ IF identity.id = calls[c].id
         THEN /\ calls' = [calls EXCEPT ![c].at = "member", ![c].copy = identity]
              /\ UNCHANGED context
         ELSE ReturnCall(c) /\ context' = [context EXCEPT ![calls[c].id] = NoContext]
    /\ UNCHANGED <<now, member, links, identity, lastId, deletions, hold, stranger,
                   tokens, topic, spent, accountHistory>>

ReadMember(c) ==
    /\ CallAt(c, "visit", "member")
    /\ calls' = [calls EXCEPT ![c].at = "answer",
         ![c].dirty = IF LinkedTo(calls[c].id) THEN {member} ELSE {}]
    /\ UNCHANGED <<now, member, links, identity, lastId, deletions, hold, stranger,
                   context, tokens, topic, spent, accountHistory>>

\* The life of the entry is counted from when it is stored.
Expires_Stored(c) == now + Ttl

\* The life of the entry is counted from when the request came.
Expires(c) == calls[c].since + Ttl

\* A blocked member is refused and not cached.
Answer(c) ==
    LET id == calls[c].id
        rows == calls[c].dirty
        seen == [member |-> rows # {}, until |-> Expires(c), cutoff |-> calls[c].copy.cutoff]
        blocked == \E row \in rows : Blocked(row)
    IN /\ CallAt(c, "visit", "answer")
       /\ context' = [context EXCEPT ![id] = IF blocked THEN NoContext ELSE seen]
       /\ IF blocked THEN UNCHANGED late ELSE Judge(id, calls[c].iat, calls[c].since, seen)
       /\ ReturnCall(c)
       /\ UNCHANGED <<now, member, links, identity, lastId, deletions, hold, stranger,
                      tokens, topic, spent, bannedAt, identityAt, erased, raced, slipped>>

(***************************************************************************)
(* Erasure.                                                                *)
(***************************************************************************)
In(status) == {r \in DeletionIds : deletions[r] = status}

\* requestSelfDeletion(): a pending one is handed out again, else one is made.
AskDeletion(c) ==
    /\ Recognised /\ In("pending") = {}
    /\ BeginCall(c, [NoCall EXCEPT !.op = "ask", !.at = "insert"])
    /\ UNCHANGED <<now, member, links, identity, lastId, deletions, hold, stranger,
                   context, tokens, topic, accountHistory>>
Insert(c) ==
    /\ CallAt(c, "ask", "insert") /\ In("none") # {}
    /\ deletions' = [deletions EXCEPT ![CHOOSE r \in In("none") : TRUE] = "pending"]
    /\ ReturnCall(c)
    /\ UNCHANGED <<now, member, links, identity, lastId, hold, stranger, context,
                   tokens, topic, spent, accountHistory>>

\* confirmSelfDeletion() finds a pending request, cancelSelfDeletion() one that
\* is not executed, executeSelfDeletion() a confirmed one.
Takes(op) == CASE op = "confirm" -> In("pending")
               [] op = "cancel" -> In("pending") \cup In("confirmed")
               [] op = "execute" -> In("confirmed")
Find(c, op) ==
    /\ Recognised
    /\ \E r \in Takes(op) :
         BeginCall(c, [NoCall EXCEPT !.op = op, !.id = r,
                     !.at = IF op = "execute" THEN "load" ELSE "settle"])
    /\ UNCHANGED <<now, member, links, identity, lastId, deletions, hold, stranger,
                   context, tokens, topic, accountHistory>>

\* The request as it was found is saved with its new status.
Settle(c) ==
    /\ calls[c].at = "settle"
    /\ deletions' = [deletions EXCEPT ![calls[c].id] =
         IF calls[c].op = "confirm" THEN "confirmed" ELSE "cancelled"]
    /\ ReturnCall(c)
    /\ UNCHANGED <<now, member, links, identity, lastId, hold, stranger, context,
                   tokens, topic, spent, accountHistory>>

Load(c) ==
    /\ CallAt(c, "execute", "load")
    /\ IF Live THEN calls' = [calls EXCEPT ![c].at = "erase", ![c].copy = member]
       ELSE ReturnCall(c)
    /\ UNCHANGED <<now, member, links, identity, lastId, deletions, hold, stranger,
                   context, tokens, topic, spent, accountHistory>>

\* The identity is kept and its fields are blanked.
IdentityLeft_Anonymised == identity

\* The identity goes with the account: blanked, the next sign-in would fill it.
IdentityLeft == [id |-> 0, cutoff |-> 0]

\* One transaction: the row is scrubbed and soft-deleted, links and identity
\* are deleted, the request is executed.  The key of the link refuses a copy
\* whose identity another execution has deleted.
Erase(c) ==
    LET copy == calls[c].copy
        left == IF copy.link = identity.id THEN IdentityLeft ELSE identity
    IN /\ CallAt(c, "execute", "erase")
       /\ IF ~KeysHold([copy EXCEPT !.handle = FALSE])
            THEN ReturnCall(c) /\ UNCHANGED <<member, links, identity, deletions, bannedAt,
                                          identityAt, erased, raced>>
            ELSE /\ member' = [copy EXCEPT !.state = "deleted", !.personal = FALSE,
                                           !.handle = FALSE,
                                           !.link = IF left.id = 0 THEN 0 ELSE @]
                 /\ links' = FALSE
                 /\ identity' = left
                 /\ deletions' = [deletions EXCEPT ![calls[c].id] = "executed"]
                 /\ bannedAt' = -1 /\ identityAt' = now
                 /\ erased' = [at |-> now, by |-> calls[c].id, handle |-> member.handle]
                 /\ raced' = raced \cup {calls[d].op : d \in Slots \ {c}}
                 /\ calls' = [calls EXCEPT ![c].at = "block",
                      ![c].id = copy.link, ![c].release = copy.handle]
       /\ UNCHANGED <<now, lastId, hold, stranger, context, tokens, topic, spent,
                      slipped, late>>

\* blockPermanently(), once the transaction has committed.
Block(c) ==
    /\ CallAt(c, "execute", "block")
    /\ hold' = IF calls[c].release THEN [kind |-> "blocked", until |-> 0] ELSE hold
    /\ Goto(c, "cutoff")
    /\ UNCHANGED <<now, member, links, identity, lastId, deletions, stranger, context,
                   tokens, topic, spent, accountHistory>>

(***************************************************************************)
(* The surroundings.                                                       *)
(***************************************************************************)
AccountTick ==
    /\ now < MaxTime /\ now' = now + 1
    /\ UNCHANGED <<member, links, identity, lastId, deletions, hold, stranger, context,
                   tokens, calls, topic, spent, accountHistory>>

\* The process dies: its requests and its cache are gone.
AccountCrash ==
    /\ \E c \in Slots : calls[c].at # "idle"
    /\ spent < MaxCalls /\ spent' = spent + 1
    /\ calls' = [c \in Slots |-> NoCall]
    /\ context' = [id \in Ids |-> NoContext]
    /\ UNCHANGED <<now, member, links, identity, lastId, deletions, hold, stranger,
                   tokens, topic, accountHistory>>

Saves(c) == CompareMember(c) \/ WriteMember(c)
Profiles(c) ==
    \/ Edit(c) \/ ClaimFor(c) \/ HoldAfterRelease(c) \/ ReplaceSocialLinks(c)
    \/ StrangerChecks(c) \/ StrangerTakes(c)
Moderation(c) ==
    \/ \E op \in {"ban", "unban", "suspend", "unsuspend", "role"}, actor \in Officers :
         ModerateMember(c, op, actor)
    \/ Cutoff(c) \/ Drop(c) \/ Logout(c)
Sessions(c) ==
    \/ SignIn(c) \/ UpsertIdentity(c) \/ FindMember(c) \/ IssueToken(c)
    \/ \E t \in tokens : VisitCached(t) \/ Visit(c, t)
    \/ ReadIdentity(c) \/ ReadMember(c) \/ Answer(c)
Erasure(c) ==
    \/ AskDeletion(c) \/ Insert(c) \/ Settle(c) \/ Load(c) \/ Erase(c) \/ Block(c)
    \/ \E op \in {"confirm", "cancel", "execute"} : Find(c, op)
AccountNext ==
    \/ \E c \in Slots :
         Saves(c) \/ Profiles(c) \/ Moderation(c) \/ Sessions(c) \/ Erasure(c)
    \/ AccountTick \/ AccountCrash

AccountSpec == AccountInit /\ [][AccountNext]_accountVars

(***************************************************************************)
(* Properties.                                                             *)
(***************************************************************************)
AccountTypeOK ==
    /\ now \in 0 .. MaxTime /\ spent \in 0 .. MaxCalls
    /\ member \in [state : {"live", "deleted"}, banned : BOOLEAN, until : Nat,
                   role : Roles, handle : BOOLEAN, personal : BOOLEAN,
                   renamed : Int, link : Ids \cup {0}]
    /\ member.link # 0 => member.link = identity.id
    /\ ~(member.handle /\ stranger)
    /\ identity \in [id : Ids \cup {0}, cutoff : Nat]
    /\ context \in [Ids -> [member : BOOLEAN, until : Nat, cutoff : Nat]]
    /\ deletions \in [DeletionIds ->
                        {"none", "pending", "confirmed", "cancelled", "executed"}]

\* An erasure the member confirmed is final: whatever copy of the row is still
\* in some request's hands, the member does not come back, no later sign-in is
\* linked to it, its request reads executed, what was personal stays away, and
\* the handle, which no cooldown frees, goes to nobody.  Not so far as a request
\* found before the erasure is saved after it, a profile edit under way leaves
\* its data, a sign-in under way puts the identity back, or somebody looks at
\* the handle before it is blocked: the block comes after the erasure has
\* committed, and a crash in between leaves it out for good.  A look before the
\* erasure, while a racing edit gave the handle up, is such a request as well.
ErasureIsFinal ==
    erased.at >= 0 =>
      /\ "signin" \notin raced => member.state = "deleted" /\ member.link = 0
      /\ raced \cap {"signin", "edit"} = {} => ~member.personal /\ ~links
      /\ raced \cap {"confirm", "cancel"} = {} => deletions[erased.by] = "executed"
      /\ erased.handle /\ stranger => slipped \/ "claim" \in raced

\* The context cache is trusted for its life and no longer: a request that
\* arrives that long after a ban, a logout or an erasure was saved is refused,
\* however slow the reads that filled the cache were.  A logout counts from the
\* last write of the identity row: a sign-in that had found the row before puts
\* the older cutoff back, and the next such save may undo that.
ShutOutInTime == ~late
================================================================================
