-------------------------------- MODULE Access_proofs --------------------------
(***************************************************************************)
(* Who gets in, for any number of requests, identities, lookups and turns  *)
(* of the guild, and for any lengths of the lives and timeouts: an erased  *)
(* account stays erased, who is shut out stays out once the life of a      *)
(* context has passed, an outage of Discord shuts nobody out, nobody loses *)
(* seat or access to a peer, and nobody sees on a page of the site what    *)
(* was closed to them all the while.                                       *)
(***************************************************************************)
EXTENDS Membership, GuildGate, Command, PublicSite, FiniteSetTheorems, TLAPS

(***************************************************************************)
(* The account (Membership).                                               *)
(***************************************************************************)
\* The types: the columns of the row, the rows, an entry of the cache, a call.
Columns == {"state", "banned", "until", "role", "handle", "personal", "renamed", "link"}
MemberRow == [state : {"live", "deleted"}, banned : BOOLEAN, until : Nat,
              role : Roles, handle : BOOLEAN, personal : BOOLEAN,
              renamed : Int, link : Ids \cup {0}]
IdentityRow == [id : Ids \cup {0}, cutoff : Nat]
CacheEntry == [member : BOOLEAN, until : Nat, cutoff : Nat]
Stage == {"idle", "claim", "compare", "write", "release", "links", "take", "cutoff",
          "drop", "identity", "member", "token", "answer", "insert", "settle", "load",
          "erase", "block"}
Call == [op : Operations \cup {"none"}, at : Stage,
         copy : MemberRow \cup IdentityRow \cup {<<>>},
         dirty : (SUBSET Columns) \cup (SUBSET MemberRow), id : Nat,
         iat : Nat, since : Nat, links : BOOLEAN, release : BOOLEAN]
\* Where a call carries a copy of the member, and which calls save it.
Copied == {"claim", "compare", "write", "erase"}
Saving == {"edit", "ban", "unban", "suspend", "unsuspend", "role", "signin"}

\* What a call carries at each of its stages.
Shape(k) ==
    /\ k.at \in Copied => k.copy \in MemberRow
    /\ k.at \in {"compare", "write"} => k.op \in Saving
    /\ k.op = "signin" /\ k.at = "identity" => k.copy \in IdentityRow
    /\ k.op = "signin" /\ k.at # "identity" => k.id \in Ids
    /\ k.op = "visit" => k.id \in Ids /\ k.since <= now
    /\ k.op = "visit" /\ k.at \in {"member", "answer"} => k.copy \in IdentityRow
    /\ k.at = "settle" => k.op \in {"confirm", "cancel"} /\ k.id \in DeletionIds
    /\ k.at = "take" => k.op = "claim"
    /\ k.at \in {"load", "erase"} => k.id \in DeletionIds

\* What a request that resolves its context has read is no older than the request.
ReadStages(k) == k.op = "visit" /\ k.at \in {"member", "answer"} =>
    /\ k.id = identity.id /\ k.since > identityAt => k.copy.cutoff = identity.cutoff
    /\ k.id # identity.id /\ erased.at >= 0 => k.since <= erased.at
    /\ k.at = "answer" /\ LinkedTo(k.id) /\ bannedAt >= 0 /\ k.since > bannedAt =>
         \E r \in k.dirty : r.banned

\* Before the erasure every copy is of the member with its link; no write changes
\* link or state.
Before(k) == erased.at < 0 =>
    /\ k.at \in Copied => k.copy.state = "live" /\ k.copy.link = 1 /\ k.copy.personal
    /\ k.op = "signin" /\ k.at = "identity" => k.copy.id = 1
    /\ k.at = "write" => /\ "state" \notin k.dirty /\ "link" \notin k.dirty
                         /\ "personal" \in k.dirty => k.op = "edit"
\* After one without a sign-in under way: a copy carries the link the erasure took,
\* and what is to be written brings either that link or no life.
Afterwards(k) == erased.at >= 0 /\ "signin" \notin raced =>
    /\ k.at \in Copied => k.copy.link = 1 /\ k.op # "signin"
    /\ k.op = "signin" /\ k.at = "identity" => k.copy.id # 1
    /\ k.at = "write" => "link" \in k.dirty \/ "state" \notin k.dirty
    /\ "edit" \notin raced =>
         /\ k.op # "edit"
         /\ k.at = "write" => "link" \in k.dirty \/ "personal" \notin k.dirty
\* What could still undo the request's status, or take the handle.
Claims(k) == erased.at >= 0 =>
    /\ {"confirm", "cancel"} \cap raced = {} /\ k.at = "settle" => k.id # erased.by
    /\ erased.handle /\ k.at = "take" => slipped \/ "claim" \in raced

CallInv(k) == Shape(k) /\ ReadStages(k) /\ Before(k) /\ Afterwards(k) /\ Claims(k)

\* The same of the rest of the state.
Types ==
    /\ now \in 0 .. MaxTime /\ spent \in 0 .. MaxCalls
    /\ member \in MemberRow /\ links \in BOOLEAN /\ identity \in IdentityRow
    /\ lastId \in Nat \ {0} /\ stranger \in BOOLEAN
    /\ deletions \in [DeletionIds ->
                        {"none", "pending", "confirmed", "cancelled", "executed"}]
    /\ context \in [Ids -> CacheEntry] /\ tokens \subseteq [id : Ids, iat : Nat]
    /\ bannedAt \in Int /\ identityAt \in Nat
    /\ erased \in [at : Int, by : Nat, handle : BOOLEAN]
    /\ slipped \in BOOLEAN
    /\ member.link # 0 => member.link = identity.id
    /\ ~(member.handle /\ stranger)
Clocks ==
    /\ bannedAt <= now /\ identityAt <= now /\ erased.at <= now
    /\ bannedAt >= 0 => member.banned
\* An entry of the cache that outlives a change by its life carries what was changed.
EntryFresh(id) ==
    /\ context[id].until <= now + Ttl
    /\ id = identity.id /\ context[id].until > identityAt + Ttl =>
         context[id].cutoff = identity.cutoff
    /\ id # identity.id /\ erased.at >= 0 => context[id].until <= erased.at + Ttl
    /\ LinkedTo(id) /\ bannedAt >= 0 => context[id].until <= bannedAt + Ttl
\* The member before and after the erasure.
AccountStanding ==
    /\ erased.at < 0 => /\ member.state = "live" /\ member.link = 1 /\ member.personal
                        /\ identity.id = 1
    /\ erased.at >= 0 /\ "signin" \notin raced =>
         /\ member.state = "deleted" /\ member.link = 0 /\ identity.id # 1
         /\ "edit" \notin raced => ~member.personal /\ ~links
    /\ erased.at >= 0 =>
         /\ {"confirm", "cancel"} \cap raced = {} =>
              erased.by \in DeletionIds /\ deletions[erased.by] = "executed"
         /\ erased.handle /\ stranger => slipped \/ "claim" \in raced
\* The inductive invariant: what the state is without the calls, and each call.
AccountGround == Types /\ Clocks /\ (\A id \in Ids : EntryFresh(id)) /\ AccountStanding /\ late = FALSE
AccountInv == /\ AccountGround
              /\ calls \in [Slots -> Call]
              /\ \A c \in Slots : CallInv(calls[c])

\* A step of one call, its return, and its way to another stage.
Sole(c) == /\ calls \in [Slots -> Call] /\ calls' \in [Slots -> Call]
           /\ \A d \in Slots \ {c} : calls'[d] = calls[d]
CallFreed(c) == Sole(c) /\ calls'[c] = NoCall
CallMoved(c, at) ==
    /\ Sole(c) /\ calls'[c].at = at
    /\ calls'[c].op = calls[c].op /\ calls'[c].copy = calls[c].copy
    /\ calls'[c].dirty = calls[c].dirty /\ calls'[c].id = calls[c].id
    /\ calls'[c].iat = calls[c].iat /\ calls'[c].since = calls[c].since
    /\ calls'[c].links = calls[c].links /\ calls'[c].release = calls[c].release

\* What the invariant speaks of beside the calls.
frameVars == <<now, member, links, identity, lastId, deletions, stranger, context,
               tokens, accountHistory>>

\* One call is replaced, and the others stay.
LEMMA CallSet ==
    ASSUME calls \in [Slots -> Call], NEW c \in Slots, NEW k \in Call,
           calls' = [calls EXCEPT ![c] = k]
    PROVE  Sole(c) /\ calls'[c] = k
  BY DEF Sole

\* What a slot holds between two requests.
LEMMA IdleCall == /\ NoCall \in Call /\ NoCall.op = "none" /\ NoCall.at = "idle"
              /\ NoCall.id = 0
  BY DEF NoCall, Call, Stage

\* A request that returns frees its slot.
LEMMA Returned ==
    ASSUME calls \in [Slots -> Call], NEW c \in Slots, ReturnCall(c)
    PROVE  CallFreed(c)
  BY CallSet, IdleCall DEF ReturnCall, CallFreed

\* A call that goes on carries what it carried.
LEMMA StageEdit ==
    ASSUME NEW k \in Call, NEW at \in Stage
    PROVE  LET r == [k EXCEPT !.at = at] IN
           /\ r \in Call /\ r.at = at /\ r.op = k.op /\ r.copy = k.copy
           /\ r.dirty = k.dirty /\ r.id = k.id /\ r.iat = k.iat /\ r.since = k.since
           /\ r.links = k.links /\ r.release = k.release
  BY DEF Call

\* The same of the slot the call is in.
LEMMA CallAdvanced ==
    ASSUME calls \in [Slots -> Call], NEW c \in Slots, NEW at \in Stage, Goto(c, at)
    PROVE  CallMoved(c, at)
<1> DEFINE k == [calls[c] EXCEPT !.at = at]
<1>1. calls[c] \in Call
  OBVIOUS
<1>2. /\ k \in Call /\ k.at = at /\ k.op = calls[c].op /\ k.copy = calls[c].copy
      /\ k.dirty = calls[c].dirty /\ k.id = calls[c].id /\ k.iat = calls[c].iat
      /\ k.since = calls[c].since /\ k.links = calls[c].links
      /\ k.release = calls[c].release
  BY <1>1, StageEdit
<1>3. calls' = [calls EXCEPT ![c] = k]
  BY DEF Goto
<1> HIDE DEF k
<1> QED
  BY <1>2, <1>3, CallSet DEF CallMoved

\* An idle call is under no obligation.
LEMMA IdleInv == CallInv(NoCall)
  BY IdleCall DEF CallInv, Shape, ReadStages, Before, Afterwards, Claims, Copied

\* A step that changes nothing but one call.
LEMMA CallsOnly ==
    ASSUME AccountInv, NEW c \in Slots, Sole(c), UNCHANGED frameVars,
           spent' \in 0 .. MaxCalls, CallInv(calls'[c])
    PROVE  AccountInv'
<1>1. Types' /\ Clocks' /\ AccountStanding' /\ (late = FALSE)' /\ (\A id \in Ids : EntryFresh(id))'
  BY DEF AccountInv, AccountGround, Types, Clocks, AccountStanding, EntryFresh, LinkedTo, Live, frameVars,
         accountHistory
<1>2. ASSUME NEW d \in Slots PROVE CallInv(calls[d])'
  <2>1. CallInv(calls'[d])
    BY DEF AccountInv, Sole
  <2> QED
    BY <2>1 DEF CallInv, Shape, ReadStages, Before, Afterwards, Claims, LinkedTo, Live,
         frameVars, accountHistory
<1> QED
  BY <1>1, <1>2 DEF AccountInv, AccountGround, Sole

\* A call that returns, with nothing else changed.
LEMMA FreedInv ==
    ASSUME AccountInv, NEW c \in Slots, CallFreed(c), UNCHANGED frameVars, UNCHANGED spent
    PROVE  AccountInv'
  BY CallsOnly, IdleInv DEF CallFreed, AccountInv, AccountGround, Types

\* What the obligations of a call depend on.
stateVars == <<now, member, identity, bannedAt, identityAt, erased, raced>>

\* A step that changes one call, and what no call's obligations depend on.
LEMMA StateKept ==
    ASSUME AccountInv, NEW c \in Slots, Sole(c), UNCHANGED stateVars,
           slipped => slipped', AccountGround', CallInv(calls[c])'
    PROVE  AccountInv'
<1>1. ASSUME NEW d \in Slots PROVE CallInv(calls[d])'
  <2>1. CASE d = c
    BY <2>1
  <2>2. CASE d # c
    <3> DEFINE e == calls[d]
    <3>1. CallInv(e) /\ e' = e
      BY <2>2 DEF AccountInv, Sole
    <3> HIDE DEF e
    <3>2. CallInv(e)'
      BY <3>1 DEF CallInv, Shape, ReadStages, Before, Afterwards, Claims, LinkedTo, Live,
         stateVars
    <3> QED
      BY <3>2 DEF e
  <2> QED
    BY <2>1, <2>2
<1> QED
  BY <1>1 DEF AccountInv, Sole

\* A request begins with a call that is under its obligations.
LEMMA BegunInv ==
    ASSUME AccountInv, NEW c \in Slots, NEW k \in Call, BeginCall(c, k),
           UNCHANGED frameVars, CallInv(k)
    PROVE  AccountInv'
<1>1. Sole(c) /\ calls'[c] = k
  BY CallSet DEF BeginCall, AccountInv
<1>2. spent' \in 0 .. MaxCalls
  BY MembershipAssumption DEF BeginCall, AccountInv, AccountGround, Types
<1> QED
  BY <1>1, <1>2, CallsOnly

\* Reading the row again: the columns to write are those in which it differs. Before
\* the erasure the link and the state are none of them; after it the link is one,
\* or neither is.
LEMMA CompareHolds == ASSUME AccountInv, NEW c \in Slots, CompareMember(c) PROVE AccountInv'
<1> DEFINE copy == calls[c].copy
           D == {k \in DOMAIN member : member[k] # copy[k]}
                  \cup IF calls[c].op = "edit" THEN {"personal"} ELSE {}
           k == [calls[c] EXCEPT !.at = "write", !.dirty = D]
<1>1. calls[c] \in Call /\ CallInv(calls[c]) /\ calls[c].at = "compare" /\ Types
      /\ copy \in MemberRow /\ member \in MemberRow
  BY DEF AccountInv, CompareMember, AccountGround, Types, CallInv, Shape, Copied
<1>2. D \in SUBSET Columns
  BY <1>1 DEF MemberRow, Columns
<1>3. /\ copy.link # member.link => "link" \in D
      /\ copy.state = member.state => "state" \notin D
      /\ copy.link = member.link => "link" \notin D
      /\ copy.personal = member.personal /\ "personal" \in D => calls[c].op = "edit"
  BY <1>1 DEF MemberRow
<1> HIDE DEF D, copy
<1>4. /\ k \in Call /\ k.at = "write" /\ k.dirty = D /\ k.op = calls[c].op
      /\ k.copy = copy /\ k.id = calls[c].id
  BY <1>1, <1>2 DEF Call, Stage, copy
<1>5. calls' = [calls EXCEPT ![c] = k]
  BY <1>1 DEF CompareMember, D, copy, AccountInv
<1> HIDE DEF k
<1>6. Sole(c) /\ calls'[c] = k
  BY <1>4, <1>5, CallSet DEF AccountInv
<1>7. AccountStanding
  BY DEF AccountInv, AccountGround
<1>8. Shape(k) /\ ReadStages(k) /\ Claims(k)
  BY <1>1, <1>4 DEF CallInv, Shape, Saving, Copied, ReadStages, Claims
<1>9. Before(k)
  <2> SUFFICES ASSUME erased.at < 0 PROVE Before(k)
    BY DEF Before
  <2>1. copy.state = "live" /\ copy.link = 1 /\ copy.personal
    BY <1>1 DEF CallInv, Before, Copied, copy
  <2>2. member.state = "live" /\ member.link = 1 /\ member.personal
    BY <1>7 DEF AccountStanding
  <2>3. copy.personal = member.personal
    BY <2>1, <2>2, <1>1 DEF MemberRow
  <2> QED
    BY <2>1, <2>2, <2>3, <1>3, <1>4 DEF Before
<1>10. Afterwards(k)
  <2> SUFFICES ASSUME erased.at >= 0, "signin" \notin raced PROVE Afterwards(k)
    BY DEF Afterwards
  <2>1. copy.link = 1 /\ k.op # "signin" /\ ("edit" \notin raced => k.op # "edit")
    BY <1>1, <1>4 DEF CallInv, Afterwards, Copied, copy
  <2>2. "link" \in D
    BY <2>1, <1>7, <1>3 DEF AccountStanding
  <2> QED
    BY <2>1, <2>2, <1>4 DEF Afterwards
<1> QED
  BY <1>6, <1>8, <1>9, <1>10, CallsOnly
     DEF CallInv, AccountInv, AccountGround, Types, CompareMember, frameVars, accountHistory

\* A row of copied and kept columns is a row.
LEMMA WrittenRow ==
    ASSUME NEW c, member \in MemberRow, calls[c].copy \in MemberRow
    PROVE  /\ Written(c) \in MemberRow
           /\ Written(c).link = IF "link" \in calls[c].dirty THEN calls[c].copy.link
                                ELSE member.link
           /\ Written(c).state = IF "state" \in calls[c].dirty THEN calls[c].copy.state
                                 ELSE member.state
           /\ Written(c).personal = IF "personal" \in calls[c].dirty
                                    THEN calls[c].copy.personal ELSE member.personal
  BY DEF MemberRow, Written

\* The write. After the erasure a copy that would bring the member back brings the
\* link of an identity that is gone, and the foreign key refuses it.
LEMMA WriteHolds == ASSUME AccountInv, NEW c \in Slots, WriteMember(c) PROVE AccountInv'
<1> DEFINE row == Written(c)
           k == calls[c]
<1>1. /\ k \in Call /\ CallInv(k) /\ k.at = "write" /\ Types /\ Clocks /\ AccountStanding
      /\ k.copy \in MemberRow /\ member \in MemberRow /\ k.op \in Saving
      /\ now \in Nat /\ Ttl \in Nat \ {0}
  BY MembershipAssumption
     DEF AccountInv, WriteMember, AccountGround, Types, CallInv, Shape, Copied
<1>2. /\ row \in MemberRow
      /\ row.link = IF "link" \in k.dirty THEN k.copy.link ELSE member.link
      /\ row.state = IF "state" \in k.dirty THEN k.copy.state ELSE member.state
      /\ row.personal = IF "personal" \in k.dirty THEN k.copy.personal ELSE member.personal
  BY <1>1, WrittenRow
<1> HIDE DEF row
<1>3. CASE ~KeysHold(row)
  <2>1. ReturnCall(c) /\ UNCHANGED frameVars /\ UNCHANGED spent
    BY <1>3 DEF WriteMember, row, frameVars, accountHistory
  <2> QED
    BY <2>1, Returned, FreedInv DEF AccountInv
<1>4. CASE KeysHold(row)
  <2>1. /\ member' = row
        /\ bannedAt' = IF ~row.banned THEN -1
                       ELSE IF member.banned /\ Live /\ row.link = member.link
                              THEN bannedAt ELSE now
        /\ IF AfterWrite(k.op) = "idle" THEN ReturnCall(c) ELSE Goto(c, AfterWrite(k.op))
        /\ row.link \in {0, identity.id} /\ (row.handle => ~stranger)
    BY <1>4 DEF WriteMember, row, KeysHold
  <2>2. UNCHANGED <<now, links, identity, lastId, deletions, hold, stranger, context,
                    tokens, spent, identityAt, erased, raced, slipped, late>>
    BY DEF WriteMember
  <2>3. AfterWrite(k.op) \in {"release", "cutoff", "drop", "token", "idle"}
        /\ (AfterWrite(k.op) = "token" => k.op = "signin")
    BY <1>1 DEF AfterWrite, Saving
  <2>4. Sole(c) /\ CallInv(calls'[c])
    <3>1. CASE AfterWrite(k.op) = "idle"
      BY <3>1, <2>1, Returned, IdleInv DEF CallFreed, AccountInv
    <3>2. CASE AfterWrite(k.op) # "idle"
      <4>1. CallMoved(c, AfterWrite(k.op))
        BY <3>2, <2>1, <2>3, CallAdvanced DEF AccountInv, Stage
      <4> QED
        BY <4>1, <3>2, <2>3, <1>1 DEF CallMoved, CallInv, Shape, ReadStages, Before, Afterwards,
           Claims,
           Copied, Saving
    <3> QED
      BY <3>1, <3>2
  <2>5. Types'
    BY <2>1, <2>2, <1>1, <1>2 DEF Types, MemberRow
  <2>6. Clocks'
    BY <2>1, <2>2, <1>1, <1>2 DEF Clocks, Types
  <2>7. /\ erased.at < 0 => row.state = "live" /\ row.link = 1 /\ row.personal
        /\ erased.at >= 0 /\ "signin" \notin raced =>
             /\ row.state = "deleted" /\ row.link = 0
             /\ "edit" \notin raced => ~row.personal
    <3>1. CASE erased.at < 0
      <4>1. "state" \notin k.dirty /\ "link" \notin k.dirty
        BY <3>1, <1>1 DEF CallInv, Before
      <4>2. member.state = "live" /\ member.link = 1 /\ member.personal /\ k.copy.personal
        BY <3>1, <1>1 DEF CallInv, Before, AccountStanding, Copied
      <4> QED
        BY <3>1, <4>1, <4>2, <1>2, <1>1 DEF Types
    <3>2. CASE erased.at >= 0 /\ "signin" \notin raced
      <4>1. k.copy.link = 1 /\ ("link" \in k.dirty \/ "state" \notin k.dirty)
            /\ ("edit" \notin raced => "link" \in k.dirty \/ "personal" \notin k.dirty)
        BY <3>2, <1>1 DEF CallInv, Afterwards, Copied
      <4>2. member.state = "deleted" /\ member.link = 0 /\ identity.id # 1
            /\ ("edit" \notin raced => ~member.personal)
        BY <3>2, <1>1 DEF AccountStanding
      <4>3. "link" \notin k.dirty
        BY <4>1, <4>2, <1>2, <2>1
      <4> QED
        BY <3>2, <4>1, <4>2, <4>3, <1>2, <1>1 DEF Types
    <3> QED
      BY <3>1, <3>2, <1>1 DEF Types
  <2>8. AccountStanding'
    BY <2>1, <2>2, <2>7, <1>1 DEF AccountStanding
  <2>9. bannedAt' >= 0 => bannedAt' = now \/ (bannedAt' = bannedAt /\ Live
                                              /\ row.link = member.link)
    BY <2>1
  <2>10. ASSUME NEW id \in Ids PROVE EntryFresh(id)'
    <3>1. EntryFresh(id) /\ context[id].until \in Nat
      BY DEF AccountInv, AccountGround, Types, CacheEntry
    <3>2. LinkedTo(id)' => row.link = id
      BY <2>1 DEF LinkedTo
    <3>3. CASE LinkedTo(id)' /\ bannedAt' >= 0
      <4>1. CASE bannedAt' = now
        BY <4>1, <3>1, <2>2, <1>1 DEF EntryFresh
      <4>2. CASE bannedAt' = bannedAt /\ Live /\ row.link = member.link
        <5>1. LinkedTo(id)
          BY <4>2, <3>2, <3>3 DEF LinkedTo
        <5> QED
          BY <5>1, <4>2, <3>1, <3>3, <2>2 DEF EntryFresh
      <4> QED
        BY <4>1, <4>2, <2>9, <3>3
    <3>4. CASE ~(LinkedTo(id)' /\ bannedAt' >= 0)
      BY <3>1, <3>4, <2>2 DEF EntryFresh
    <3> QED
      BY <3>3, <3>4
  <2>11. ASSUME NEW d \in Slots \ {c} PROVE CallInv(calls[d])'
    <3> DEFINE e == calls[d]
    <3>1. CallInv(e) /\ e' = e
      BY <2>4 DEF AccountInv, Sole
    <3>2. e.op = "visit" => e.since <= now /\ e.since \in Nat
      BY <3>1, <2>4 DEF CallInv, Shape, Sole, Call
    <3> HIDE DEF e
    <3>3. LinkedTo(e.id)' => row.link = e.id
      BY <2>1, <3>1 DEF LinkedTo
    <3>4. ReadStages(e)'
      <4>1. ASSUME e.op = "visit", e.at = "answer", LinkedTo(e.id)', bannedAt' >= 0,
                   e.since > bannedAt'
            PROVE  \E r \in e.dirty : r.banned
        <5>1. bannedAt' # now
          BY <4>1, <3>2, <1>1
        <5>2. bannedAt' = bannedAt /\ Live /\ row.link = member.link
          BY <5>1, <4>1, <2>9
        <5>3. LinkedTo(e.id)
          BY <5>2, <4>1, <3>3 DEF LinkedTo
        <5> QED
          BY <5>2, <5>3, <4>1, <3>1 DEF CallInv, ReadStages
      <4> QED
        BY <4>1, <3>1, <2>2 DEF CallInv, ReadStages
    <3>5. Shape(e)' /\ Before(e)' /\ Afterwards(e)' /\ Claims(e)'
      BY <3>1, <2>2 DEF CallInv, Shape, Before, Afterwards, Claims
    <3> QED
      BY <3>4, <3>5 DEF CallInv, e
  <2>12. CallInv(calls[c])'
    <3>1. calls'[c].op # "visit"
      BY <2>1, <2>3, <2>4, <1>1, Returned, CallAdvanced, IdleCall
         DEF AccountInv, CallFreed, CallMoved, Saving, Stage
    <3> QED
      BY <3>1, <2>4, <2>2 DEF CallInv, Shape, ReadStages, Before, Afterwards, Claims
  <2>13. (late = FALSE)'
    BY <2>2 DEF AccountInv, AccountGround
  <2> QED
    BY <2>4, <2>5, <2>6, <2>8, <2>10, <2>11, <2>12, <2>13 DEF AccountInv, AccountGround, Sole
<1> QED
  BY <1>3, <1>4

\* A profile edit loads the row.
LEMMA EditHolds == ASSUME AccountInv, NEW c \in Slots, Edit(c) PROVE AccountInv'
<1>1. PICK published \in BOOLEAN :
        BeginCall(c, [NoCall EXCEPT !.op = "edit", !.at = "claim",
                                 !.copy = [member EXCEPT !.personal = TRUE],
                                 !.links = published])
  BY DEF Edit
<1> DEFINE copy == [member EXCEPT !.personal = TRUE]
           k == [NoCall EXCEPT !.op = "edit", !.at = "claim", !.copy = copy,
                               !.links = published]
<1>2. member \in MemberRow /\ AccountStanding /\ Live /\ UNCHANGED frameVars
  BY DEF AccountInv, AccountGround, Types, Edit, frameVars, accountHistory
<1>3. /\ copy \in MemberRow /\ copy.personal /\ copy.link = member.link
      /\ copy.state = member.state
  BY <1>2 DEF MemberRow
<1> HIDE DEF copy
<1>4. k \in Call /\ k.op = "edit" /\ k.at = "claim" /\ k.copy = copy
  BY <1>3 DEF Call, NoCall, Operations, Stage
<1>5. BeginCall(c, k)
  BY <1>1 DEF copy
<1> HIDE DEF k
<1>6. CallInv(k)
  BY <1>2, <1>3, <1>4 DEF CallInv, Shape, ReadStages, Before, Afterwards, Claims, Copied,
     AccountStanding,
     Live
<1> QED
  BY <1>2, <1>4, <1>5, <1>6, BegunInv

\* A claim of the handle changes the copy, never its link or its state.
LEMMA ClaimHolds == ASSUME AccountInv, NEW c \in Slots, ClaimFor(c) PROVE AccountInv'
<1> DEFINE k == calls[c]
<1>1. /\ k \in Call /\ CallInv(k) /\ k.op = "edit" /\ k.at = "claim"
      /\ k.copy \in MemberRow /\ now \in Int
      /\ UNCHANGED frameVars /\ UNCHANGED spent
  BY DEF AccountInv, ClaimFor, CallAt, CallInv, Shape, Copied, frameVars,
     accountHistory,
     AccountGround, Types
<1>2. PICK handle \in BOOLEAN :
        IF handle = k.copy.handle THEN Goto(c, "compare")
        ELSE IF handle /\ ~Available(k.copy) THEN ReturnCall(c)
        ELSE calls' = [calls EXCEPT ![c].at = "compare", ![c].release = ~handle,
                         ![c].copy = [k.copy EXCEPT !.handle = handle, !.renamed = now]]
  BY DEF ClaimFor
<1>3. spent' \in 0 .. MaxCalls
  BY <1>1 DEF AccountInv, AccountGround, Types
<1>4. CASE Goto(c, "compare")
  <2>1. CallMoved(c, "compare")
    BY <1>4, CallAdvanced DEF AccountInv, Stage
  <2>2. CallInv(calls'[c])
    BY <1>1, <2>1 DEF CallMoved, CallInv, Shape, ReadStages, Before, Afterwards, Claims, Copied,
       Saving
  <2> QED
    BY <1>1, <1>3, <2>1, <2>2, CallsOnly DEF CallMoved
<1>5. CASE ReturnCall(c)
  BY <1>1, <1>5, Returned, FreedInv DEF AccountInv
<1>6. CASE calls' = [calls EXCEPT ![c].at = "compare", ![c].release = ~handle,
                         ![c].copy = [k.copy EXCEPT !.handle = handle, !.renamed = now]]
  <2> DEFINE copy == [k.copy EXCEPT !.handle = handle, !.renamed = now]
             r == [k EXCEPT !.at = "compare", !.release = ~handle, !.copy = copy]
  <2>1. /\ copy \in MemberRow /\ copy.personal = k.copy.personal
        /\ copy.link = k.copy.link /\ copy.state = k.copy.state
    BY <1>1 DEF MemberRow
  <2> HIDE DEF copy
  <2>2. r \in Call /\ r.at = "compare" /\ r.op = k.op /\ r.copy = copy
    BY <1>1, <2>1 DEF Call, Stage
  <2>3. calls' = [calls EXCEPT ![c] = r]
    BY <1>1, <1>6 DEF copy, AccountInv
  <2> HIDE DEF r
  <2>4. Sole(c) /\ calls'[c] = r
    BY <2>2, <2>3, CallSet DEF AccountInv
  <2>5. CallInv(r)
    BY <1>1, <2>1, <2>2 DEF CallInv, Shape, ReadStages, Before, Afterwards, Claims, Copied,
       Saving
  <2> QED
    BY <1>1, <1>3, <2>4, <2>5, CallsOnly
<1> QED
  BY <1>2, <1>4, <1>5, <1>6

\* A released handle is held back.
LEMMA HoldHolds == ASSUME AccountInv, NEW c \in Slots, HoldAfterRelease(c) PROVE AccountInv'
<1>1. /\ CallInv(calls[c]) /\ calls[c].op = "edit" /\ CallMoved(c, "links")
      /\ UNCHANGED frameVars /\ UNCHANGED spent
  BY CallAdvanced DEF AccountInv, HoldAfterRelease, CallAt, Stage, frameVars
<1>2. CallInv(calls'[c])
  BY <1>1 DEF CallMoved, CallInv, Shape, ReadStages, Before, Afterwards, Claims, Copied
<1> QED
  BY <1>1, <1>2, CallsOnly DEF CallMoved, AccountInv, AccountGround, Types

\* What the clocks and the contexts say does not depend on the rest.
LEMMA Freshness ==
    ASSUME AccountInv,
           UNCHANGED <<now, member, identity, context, bannedAt, identityAt, erased>>
    PROVE  Clocks' /\ (\A id \in Ids : EntryFresh(id)')
  BY DEF AccountInv, AccountGround, Clocks, EntryFresh, LinkedTo, Live

\* Links are replaced by an edit alone.
LEMMA LinksHold == ASSUME AccountInv, NEW c \in Slots, ReplaceSocialLinks(c) PROVE AccountInv'
<1>1. /\ calls[c] \in Call /\ CallInv(calls[c]) /\ calls[c].op = "edit" /\ CallFreed(c)
      /\ calls[c].links \in BOOLEAN /\ Types /\ AccountStanding /\ late = FALSE
  BY Returned DEF AccountInv, ReplaceSocialLinks, CallAt, AccountGround, Call
<1>2. /\ links' = (links \/ calls[c].links) /\ UNCHANGED stateVars
      /\ UNCHANGED <<lastId, deletions, stranger, context, tokens, spent, slipped, late>>
  BY DEF ReplaceSocialLinks, stateVars, accountHistory
<1>3. Types'
  <2>1. links' \in BOOLEAN
    BY <1>1, <1>2 DEF Types
  <2> QED
    BY <2>1, <1>1, <1>2 DEF Types, stateVars
<1>4. AccountStanding'
  BY <1>1, <1>2 DEF AccountStanding, stateVars, CallInv, Afterwards
<1>5. CallInv(calls[c])'
  BY <1>1, <1>2, IdleCall
     DEF CallFreed, CallInv, Shape, ReadStages, Before, Afterwards, Claims, Copied, stateVars
<1>6. AccountGround'
  BY <1>1, <1>2, <1>3, <1>4, Freshness DEF AccountGround, stateVars
<1> QED
  BY <1>1, <1>2, <1>5, <1>6, StateKept DEF CallFreed

\* A look at the handle after an erasure, while nothing blocks it, slips.
LEMMA LooksHold == ASSUME AccountInv, NEW c \in Slots, StrangerChecks(c) PROVE AccountInv'
<1> DEFINE k == [NoCall EXCEPT !.op = "claim", !.at = "take"]
<1>1. k \in Call /\ k.op = "claim" /\ k.at = "take"
  BY DEF Call, NoCall, Operations, Stage
<1>2. /\ calls' = [calls EXCEPT ![c] = k] /\ spent < MaxCalls /\ spent' = spent + 1
      /\ slipped' = (slipped \/ (erased.at >= 0 /\ hold.kind # "blocked"))
      /\ hold.kind # "blocked"
      /\ UNCHANGED stateVars
      /\ UNCHANGED <<links, lastId, deletions, stranger, context, tokens, late>>
  BY DEF StrangerChecks, BeginCall, stateVars, Held
<1> HIDE DEF k
<1>3. Sole(c) /\ calls'[c] = k
  BY <1>1, <1>2, CallSet DEF AccountInv
<1>4. Types /\ AccountStanding /\ late = FALSE
  BY DEF AccountInv, AccountGround
<1>5. Types'
  <2>1. slipped' \in BOOLEAN
    BY <1>2, <1>4 DEF Types
  <2>2. spent' \in 0 .. MaxCalls
    BY <1>2, <1>4, MembershipAssumption DEF Types
  <2> QED
    BY <2>1, <2>2, <1>4, <1>2 DEF Types, stateVars
<1>6. slipped => slipped'
  BY <1>2
<1>7. AccountStanding'
  BY <1>2, <1>4, <1>6 DEF AccountStanding, stateVars
<1>8. erased.at >= 0 => slipped'
  BY <1>2
<1>9. CallInv(calls[c])'
  BY <1>1, <1>2, <1>3, <1>8
     DEF CallInv, Shape, ReadStages, Before, Afterwards, Claims, Copied, stateVars
<1>10. AccountGround'
  BY <1>2, <1>4, <1>5, <1>7, Freshness DEF AccountGround, stateVars
<1> QED
  BY <1>2, <1>3, <1>6, <1>9, <1>10, StateKept

\* The handle is taken by somebody who has looked.
LEMMA TakesHold == ASSUME AccountInv, NEW c \in Slots, StrangerTakes(c) PROVE AccountInv'
<1>1. /\ CallInv(calls[c]) /\ calls[c].at = "take" /\ CallFreed(c)
      /\ Types /\ AccountStanding /\ late = FALSE
  BY Returned DEF AccountInv, StrangerTakes, CallAt, AccountGround
<1>2. /\ stranger' = (stranger \/ ~member.handle) /\ UNCHANGED stateVars
      /\ UNCHANGED <<links, lastId, deletions, context, tokens, spent, slipped, late>>
  BY DEF StrangerTakes, stateVars, accountHistory
<1>3. Types'
  <2>1. stranger' \in BOOLEAN /\ ~(member.handle /\ stranger')
    BY <1>1, <1>2 DEF Types, MemberRow
  <2> QED
    BY <2>1, <1>1, <1>2 DEF Types, stateVars
<1>4. AccountStanding'
  BY <1>1, <1>2 DEF AccountStanding, stateVars, CallInv, Claims
<1>5. CallInv(calls[c])'
  BY <1>1, <1>2, IdleCall
     DEF CallFreed, CallInv, Shape, ReadStages, Before, Afterwards, Claims, Copied, stateVars
<1>6. AccountGround'
  BY <1>1, <1>2, <1>3, <1>4, Freshness DEF AccountGround, stateVars
<1> QED
  BY <1>1, <1>2, <1>5, <1>6, StateKept DEF CallFreed

\* Moderation loads the row and changes columns the erasure does not care about.
LEMMA ModerateHolds ==
    ASSUME AccountInv, NEW c \in Slots,
           NEW op \in {"ban", "unban", "suspend", "unsuspend", "role"}, NEW actor,
           ModerateMember(c, op, actor)
    PROVE  AccountInv'
<1>1. PICK r \in Results(op, actor, member) :
        BeginCall(c, [NoCall EXCEPT !.op = op, !.at = "compare", !.copy = r,
                                 !.id = member.link])
  BY DEF ModerateMember
<1> DEFINE k == [NoCall EXCEPT !.op = op, !.at = "compare", !.copy = r,
                               !.id = member.link]
<1>2. member \in MemberRow /\ AccountStanding /\ Live /\ UNCHANGED frameVars /\ now \in Nat
  BY DEF AccountInv, AccountGround, Types, ModerateMember, frameVars, accountHistory
<1>3. /\ r \in MemberRow /\ r.personal = member.personal /\ r.link = member.link
      /\ r.state = member.state
  <2>1. \/ r = [member EXCEPT !.banned = TRUE] \/ r = [member EXCEPT !.banned = FALSE]
        \/ r = [member EXCEPT !.until = now + 1] \/ r = [member EXCEPT !.until = 0]
        \/ \E role \in Roles : r = [member EXCEPT !.role = role]
    BY DEF Results
  <2>2. /\ [member EXCEPT !.banned = TRUE] \in MemberRow
        /\ [member EXCEPT !.banned = FALSE] \in MemberRow
        /\ \A u \in Nat : [member EXCEPT !.until = u] \in MemberRow
        /\ \A role \in Roles : [member EXCEPT !.role = role] \in MemberRow
    BY <1>2 DEF MemberRow
  <2>3. r \in MemberRow
    BY <2>1, <2>2, <1>2, now + 1 \in Nat
  <2>4. r.personal = member.personal /\ r.link = member.link /\ r.state = member.state
    BY <2>1, <1>2 DEF MemberRow
  <2> QED
    BY <2>3, <2>4
<1>4. member.link \in Nat
  BY <1>2, MembershipAssumption DEF MemberRow, Ids
<1>5. k \in Call /\ k.op = op /\ k.at = "compare" /\ k.copy = r
  BY <1>3, <1>4 DEF Call, NoCall, Operations, Stage
<1>6. BeginCall(c, k)
  BY <1>1
<1> HIDE DEF k
<1>7. CallInv(k)
  BY <1>2, <1>3, <1>5 DEF CallInv, Shape, ReadStages, Before, Afterwards, Claims, Copied,
     Saving,
     AccountStanding, Live
<1> QED
  BY <1>2, <1>5, <1>6, <1>7, BegunInv

\* A cutoff moves the moment from which the contexts of the identity have aged.
LEMMA CutoffHolds == ASSUME AccountInv, NEW c \in Slots, Cutoff(c) PROVE AccountInv'
<1>1. /\ calls[c] \in Call /\ CallInv(calls[c]) /\ calls[c].at = "cutoff"
      /\ Types /\ Clocks /\ AccountStanding /\ late = FALSE
      /\ now \in Nat /\ Ttl \in Nat \ {0}
  BY MembershipAssumption DEF AccountInv, Cutoff, AccountGround, Types
<1>2. UNCHANGED <<now, member, links, lastId, deletions, stranger, context, tokens, spent,
                  bannedAt, erased, raced, slipped, late>>
  BY DEF Cutoff
<1>3. CASE UNCHANGED <<identity, identityAt>>
  <2>1. UNCHANGED frameVars /\ UNCHANGED spent
    BY <1>2, <1>3 DEF frameVars, accountHistory
  <2>2. CASE ReturnCall(c)
    BY <2>1, <2>2, Returned, FreedInv DEF AccountInv
  <2>3. CASE Goto(c, "drop")
    <3>1. CallMoved(c, "drop")
      BY <2>3, CallAdvanced DEF AccountInv, Stage
    <3>2. CallInv(calls'[c])
      BY <1>1, <3>1 DEF CallMoved, CallInv, Shape, ReadStages, Before, Afterwards, Claims, Copied
    <3> QED
      BY <2>1, <3>1, <3>2, CallsOnly DEF CallMoved, AccountInv, AccountGround, Types
  <2> QED
    BY <2>2, <2>3 DEF Cutoff
<1>4. CASE ~UNCHANGED <<identity, identityAt>>
  <2>1. /\ identity' = [identity EXCEPT !.cutoff = now] /\ identityAt' = now
        /\ CallMoved(c, "drop")
    BY <1>4, CallAdvanced DEF Cutoff, AccountInv, Stage
  <2>2. identity' \in IdentityRow /\ identity'.id = identity.id
    BY <2>1, <1>1 DEF Types, IdentityRow
  <2>3. Types'
    BY <1>1, <1>2, <2>1, <2>2 DEF Types
  <2>4. AccountStanding' /\ Clocks'
    BY <1>1, <1>2, <2>1, <2>2 DEF AccountStanding, Clocks
  <2>5. ASSUME NEW id \in Ids PROVE EntryFresh(id)'
    <3>1. EntryFresh(id) /\ context[id].until \in Nat
      BY DEF AccountInv, AccountGround, Types, CacheEntry
    <3> QED
      BY <3>1, <1>1, <1>2, <2>1, <2>2 DEF EntryFresh, LinkedTo, Live
  <2>6. ASSUME NEW d \in Slots PROVE CallInv(calls[d])'
    <3>1. CASE d = c
      BY <3>1, <1>1, <1>2, <2>1, <2>2
         DEF CallMoved, CallInv, Shape, ReadStages, Before, Afterwards, Claims, Copied
    <3>2. CASE d # c
      <4> DEFINE e == calls[d]
      <4>1. CallInv(e) /\ e' = e /\ e \in Call
        BY <3>2, <2>1 DEF AccountInv, Sole, CallMoved
      <4> HIDE DEF e
      <4>2. e.op = "visit" => e.since <= now /\ e.since \in Nat
        BY <4>1 DEF CallInv, Shape, Call
      <4>3. ReadStages(e)'
        BY <4>1, <4>2, <1>1, <1>2, <2>1, <2>2 DEF CallInv, ReadStages, LinkedTo, Live
      <4>4. Shape(e)' /\ Before(e)' /\ Afterwards(e)' /\ Claims(e)'
        BY <4>1, <1>2, <2>1 DEF CallInv, Shape, Before, Afterwards, Claims
      <4> QED
        BY <4>3, <4>4 DEF e, CallInv
    <3> QED
      BY <3>1, <3>2
  <2> QED
    BY <1>1, <1>2, <2>1, <2>3, <2>4, <2>5, <2>6 DEF AccountInv, AccountGround, CallMoved, Sole
<1> QED
  BY <1>3, <1>4

\* An entry that has been dropped has lapsed.
LEMMA EmptyEntry == NoContext \in CacheEntry /\ NoContext.until = 0
  BY DEF NoContext, CacheEntry

\* Dropping entries leaves the others as they were.
LEMMA DropHolds == ASSUME AccountInv, NEW c \in Slots, Drop(c) PROVE AccountInv'
<1>1. /\ CallFreed(c) /\ Types /\ Clocks /\ AccountStanding /\ late = FALSE
      /\ now \in Nat /\ Ttl \in Nat \ {0}
  BY MembershipAssumption, Returned DEF AccountInv, Drop, AccountGround, Types
<1>2. /\ UNCHANGED stateVars
      /\ UNCHANGED <<links, lastId, deletions, stranger, tokens, spent, slipped, late>>
  BY DEF Drop, stateVars, accountHistory
<1>3. \A id \in Ids : context'[id] \in {NoContext, context[id]}
  BY DEF Drop
<1>4. context' \in [Ids -> CacheEntry]
  BY <1>1, EmptyEntry DEF Drop, Types
<1>5. Types' /\ AccountStanding' /\ Clocks'
  BY <1>1, <1>2, <1>4 DEF Types, AccountStanding, Clocks, stateVars
<1>6. ASSUME NEW id \in Ids PROVE EntryFresh(id)'
  <2>1. EntryFresh(id)
    BY DEF AccountInv, AccountGround
  <2>2. CASE context'[id] = context[id]
    BY <2>1, <2>2, <1>2 DEF EntryFresh, LinkedTo, Live, stateVars
  <2>3. CASE context'[id] = NoContext
    BY <2>3, <1>1, <1>2, EmptyEntry DEF EntryFresh, Types, stateVars
  <2> QED
    BY <2>2, <2>3, <1>3
<1>7. CallInv(calls[c])'
  BY <1>1, <1>2, IdleCall DEF CallFreed, CallInv, Shape, ReadStages, Before, Afterwards, Claims,
     Copied
<1>8. AccountGround'
  BY <1>1, <1>2, <1>5, <1>6 DEF AccountGround
<1> QED
  BY <1>1, <1>2, <1>7, <1>8, StateKept DEF CallFreed

\* A logout begins.
LEMMA LogoutHolds == ASSUME AccountInv, NEW c \in Slots, Logout(c) PROVE AccountInv'
<1>1. PICK t \in tokens :
        BeginCall(c, [NoCall EXCEPT !.op = "logout", !.at = "cutoff", !.id = t.id])
  BY DEF Logout
<1> DEFINE k == [NoCall EXCEPT !.op = "logout", !.at = "cutoff", !.id = t.id]
<1>2. t.id \in Nat
  BY MembershipAssumption DEF AccountInv, AccountGround, Types, Ids
<1>3. k \in Call /\ k.op = "logout" /\ k.at = "cutoff"
  BY <1>2 DEF Call, NoCall, Operations, Stage
<1>4. BeginCall(c, k) /\ UNCHANGED frameVars
  BY <1>1 DEF Logout, frameVars, accountHistory
<1> HIDE DEF k
<1>5. CallInv(k)
  BY <1>3 DEF CallInv, Shape, ReadStages, Before, Afterwards, Claims, Copied, Saving
<1> QED
  BY <1>3, <1>4, <1>5, BegunInv

\* A sign-in finds the identity, whichever there is.
LEMMA SignInHolds == ASSUME AccountInv, NEW c \in Slots, SignIn(c) PROVE AccountInv'
<1> DEFINE k == [NoCall EXCEPT !.op = "signin", !.at = "identity", !.copy = identity]
<1>1. identity \in IdentityRow /\ AccountStanding
  BY DEF AccountInv, AccountGround, Types
<1>2. k \in Call /\ k.op = "signin" /\ k.at = "identity" /\ k.copy = identity
  BY <1>1 DEF Call, NoCall, Operations, Stage
<1>3. BeginCall(c, k) /\ UNCHANGED frameVars
  BY DEF SignIn, frameVars, accountHistory
<1> HIDE DEF k
<1>4. CallInv(k)
  BY <1>1, <1>2 DEF CallInv, Shape, ReadStages, Before, Afterwards, Claims, Copied, AccountStanding
<1> QED
  BY <1>2, <1>3, <1>4, BegunInv

\* The identity is saved: a copy found before the erasure would bring back the id the
\* member was linked to, any other id is new.
LEMMA UpsertHolds == ASSUME AccountInv, NEW c \in Slots, UpsertIdentity(c) PROVE AccountInv'
<1> DEFINE k == calls[c]
           found == k.copy
           saved == IF found.id # 0 THEN found ELSE [id |-> lastId + 1, cutoff |-> 0]
<1>1. /\ k \in Call /\ CallInv(k) /\ k.op = "signin" /\ k.at = "identity"
      /\ found \in IdentityRow
      /\ Types /\ Clocks /\ AccountStanding /\ late = FALSE
      /\ now \in Nat /\ Ttl \in Nat \ {0} /\ lastId \in Nat \ {0}
  BY MembershipAssumption
     DEF AccountInv, UpsertIdentity, CallAt, CallInv, Shape, AccountGround, Types
<1>2. UNCHANGED <<now, member, links, deletions, stranger, context, tokens, spent,
                  bannedAt, erased, raced, slipped, late>>
  BY DEF UpsertIdentity
<1>3. saved.id \in Ids /\ saved.id \in Nat \ {0}
  BY DEF UpsertIdentity, Ids
<1>4. saved \in IdentityRow
  BY <1>1, <1>3 DEF IdentityRow
<1>5. /\ erased.at < 0 => saved.id = 1
      /\ erased.at >= 0 /\ "signin" \notin raced => saved.id # 1
  BY <1>1 DEF CallInv, Before, Afterwards, Types
<1>6. IF identity.id \notin {0, saved.id}
        THEN ReturnCall(c) /\ UNCHANGED <<identity, identityAt, lastId>>
        ELSE /\ identity' = saved /\ identityAt' = now
             /\ lastId' = IF found.id = 0 THEN lastId + 1 ELSE lastId
             /\ calls' = [calls EXCEPT ![c].at = "member", ![c].id = saved.id]
  BY DEF UpsertIdentity
<1> HIDE DEF saved
<1>7. CASE identity.id \notin {0, saved.id}
  <2>1. ReturnCall(c) /\ UNCHANGED frameVars /\ UNCHANGED spent
    BY <1>2, <1>6, <1>7 DEF frameVars, accountHistory
  <2> QED
    BY <2>1, Returned, FreedInv DEF AccountInv
<1>8. CASE identity.id \in {0, saved.id}
  <2> DEFINE r == [k EXCEPT !.at = "member", !.id = saved.id]
  <2>1. /\ r \in Call /\ r.at = "member" /\ r.id = saved.id /\ r.op = "signin"
    BY <1>1, <1>3 DEF Call, Stage
  <2>2. calls' = [calls EXCEPT ![c] = r]
    BY <1>1, <1>6, <1>8 DEF AccountInv
  <2> HIDE DEF r
  <2>3. Sole(c) /\ calls'[c] = r
    BY <2>1, <2>2, CallSet DEF AccountInv
  <2>4. identity' = saved /\ identityAt' = now /\ lastId' \in Nat \ {0}
    BY <1>1, <1>6, <1>8
  <2>5. Types'
    BY <1>1, <1>2, <2>4, <1>4, <1>8 DEF Types
  <2>6. AccountStanding' /\ Clocks'
    BY <1>1, <1>2, <1>5, <2>4 DEF AccountStanding, Clocks
  <2>7. ASSUME NEW id \in Ids PROVE EntryFresh(id)'
    <3>1. EntryFresh(id) /\ context[id].until \in Nat /\ id # 0
      BY DEF AccountInv, AccountGround, Types, CacheEntry, Ids
    <3> QED
      BY <3>1, <1>1, <1>2, <1>8, <2>4 DEF EntryFresh, LinkedTo, Live
  <2>8. ASSUME NEW d \in Slots PROVE CallInv(calls[d])'
    <3>1. CASE d = c
      BY <3>1, <1>3, <2>1, <2>3 DEF CallInv, Shape, ReadStages, Before, Afterwards, Claims,
         Copied
    <3>2. CASE d # c
      <4> DEFINE e == calls[d]
      <4>1. CallInv(e) /\ e' = e /\ e \in Call
        BY <3>2, <2>3 DEF AccountInv, Sole
      <4> HIDE DEF e
      <4>2. e.op = "visit" => e.since <= now /\ e.since \in Nat /\ e.id # 0
        BY <4>1 DEF CallInv, Shape, Call, Ids
      <4>3. ReadStages(e)'
        BY <4>1, <4>2, <1>1, <1>2, <1>8, <2>4 DEF CallInv, ReadStages, LinkedTo, Live
      <4>4. Shape(e)' /\ Before(e)' /\ Afterwards(e)' /\ Claims(e)'
        BY <4>1, <1>2, <2>4 DEF CallInv, Shape, Before, Afterwards, Claims
      <4> QED
        BY <4>3, <4>4 DEF e, CallInv
    <3> QED
      BY <3>1, <3>2
  <2> QED
    BY <1>1, <1>2, <2>3, <2>5, <2>6, <2>7, <2>8 DEF AccountInv, AccountGround, Sole
<1> QED
  BY <1>7, <1>8

\* A sign-in copies the row of a member who is still linked.
LEMMA FindHolds == ASSUME AccountInv, NEW c \in Slots, FindMember(c) PROVE AccountInv'
<1> DEFINE k == calls[c]
<1>1. /\ k \in Call /\ CallInv(k) /\ k.op = "signin" /\ k.at = "member"
      /\ k.id \in Ids /\ member \in MemberRow /\ AccountStanding
      /\ UNCHANGED frameVars /\ UNCHANGED spent
  BY DEF AccountInv, FindMember, CallAt, CallInv, Shape, Copied, frameVars,
     accountHistory,
     AccountGround, Types
<1>2. spent' \in 0 .. MaxCalls
  BY <1>1 DEF AccountInv, AccountGround, Types
<1>3. CASE Goto(c, "token")
  <2>1. CallMoved(c, "token")
    BY <1>3, CallAdvanced DEF AccountInv, Stage
  <2>2. CallInv(calls'[c])
    BY <1>1, <2>1 DEF CallMoved, CallInv, Shape, ReadStages, Before, Afterwards, Claims, Copied,
       Saving
  <2> QED
    BY <1>1, <1>2, <2>1, <2>2, CallsOnly DEF CallMoved
<1>4. CASE ReturnCall(c)
  BY <1>1, <1>4, Returned, FreedInv DEF AccountInv
<1>5. CASE LinkedTo(k.id) /\ calls' = [calls EXCEPT ![c].at = "compare", ![c].copy = member]
  <2> DEFINE r == [k EXCEPT !.at = "compare", !.copy = member]
  <2>1. r \in Call /\ r.at = "compare" /\ r.op = k.op /\ r.copy = member /\ r.id = k.id
    BY <1>1 DEF Call, Stage
  <2>2. calls' = [calls EXCEPT ![c] = r]
    BY <1>1, <1>5 DEF AccountInv
  <2> HIDE DEF r
  <2>3. Sole(c) /\ calls'[c] = r
    BY <2>1, <2>2, CallSet DEF AccountInv
  <2>4. CallInv(r)
    BY <1>1, <1>5, <2>1 DEF CallInv, Shape, ReadStages, Before, Afterwards, Claims, Copied,
       Saving,
       LinkedTo, Live, AccountStanding
  <2> QED
    BY <1>1, <1>2, <2>3, <2>4, CallsOnly
<1> QED
  BY <1>3, <1>4, <1>5 DEF FindMember

\* A token is issued and the entry dropped.
LEMMA IssueHolds == ASSUME AccountInv, NEW c \in Slots, IssueToken(c) PROVE AccountInv'
<1>1. /\ CallFreed(c) /\ Types /\ Clocks /\ AccountStanding /\ late = FALSE
      /\ now \in Nat /\ Ttl \in Nat \ {0} /\ calls[c].id \in Ids
  BY MembershipAssumption, Returned
     DEF AccountInv, IssueToken, CallAt, CallInv, Shape, AccountGround, Types
<1>2. /\ UNCHANGED stateVars
      /\ UNCHANGED <<links, lastId, deletions, stranger, spent, slipped, late>>
      /\ context' = [context EXCEPT ![calls[c].id] = NoContext]
      /\ tokens' = tokens \cup {[id |-> calls[c].id, iat |-> now]}
  BY DEF IssueToken, stateVars, accountHistory
<1>3. \A id \in Ids : context'[id] \in {NoContext, context[id]}
  BY <1>1, <1>2 DEF Types
<1>4. context' \in [Ids -> CacheEntry] /\ tokens' \subseteq [id : Ids, iat : Nat]
  BY <1>1, <1>2, EmptyEntry DEF Types
<1>5. Types' /\ AccountStanding' /\ Clocks'
  BY <1>1, <1>2, <1>4 DEF Types, AccountStanding, Clocks, stateVars
<1>6. ASSUME NEW id \in Ids PROVE EntryFresh(id)'
  <2>1. EntryFresh(id)
    BY DEF AccountInv, AccountGround
  <2>2. CASE context'[id] = context[id]
    BY <2>1, <2>2, <1>2 DEF EntryFresh, LinkedTo, Live, stateVars
  <2>3. CASE context'[id] = NoContext
    BY <2>3, <1>1, <1>2, EmptyEntry DEF EntryFresh, Types, stateVars
  <2> QED
    BY <2>2, <2>3, <1>3
<1>7. CallInv(calls[c])'
  BY <1>1, <1>2, IdleCall DEF CallFreed, CallInv, Shape, ReadStages, Before, Afterwards, Claims,
     Copied
<1>8. AccountGround'
  BY <1>1, <1>2, <1>5, <1>6 DEF AccountGround
<1> QED
  BY <1>1, <1>2, <1>7, <1>8, StateKept DEF CallFreed

\* A cached context answers. It is in its life, so what it carries is not older than
\* that.
LEMMA CachedHolds ==
    ASSUME AccountInv, NEW t \in tokens, VisitCached(t)
    PROVE  AccountInv'
<1>1. /\ Types /\ Clocks /\ EntryFresh(t.id) /\ late = FALSE /\ t.id \in Ids /\ t.iat \in Nat
      /\ now \in Nat /\ Ttl \in Nat \ {0}
      /\ context[t.id].until \in Nat /\ context[t.id].cutoff \in Nat
      /\ context[t.id].until > now
  BY MembershipAssumption DEF AccountInv, AccountGround, Types, VisitCached, CacheEntry
<1>2. ~(Admits(context[t.id], t.iat) /\ ShutOut(t.id, t.iat, now))
  BY <1>1 DEF Admits, ShutOut, EntryFresh, Clocks, Types, IdentityRow
<1>3. late' = FALSE /\ UNCHANGED <<calls, spent>>
      /\ UNCHANGED <<now, member, links, identity, lastId, deletions, stranger, context,
                     tokens, bannedAt, identityAt, erased, raced, slipped>>
  BY <1>1, <1>2 DEF VisitCached, Judge
<1> QED
  BY <1>3 DEF AccountInv, AccountGround, Types, Clocks, EntryFresh, AccountStanding, CallInv, Shape,
     ReadStages,
     Before, Afterwards, Claims, LinkedTo, Live

\* A request finds no entry and starts to resolve.
LEMMA VisitHolds ==
    ASSUME AccountInv, NEW c \in Slots, NEW t \in tokens, Visit(c, t)
    PROVE  AccountInv'
<1> DEFINE k == [NoCall EXCEPT !.op = "visit", !.at = "identity", !.id = t.id,
                               !.iat = t.iat, !.since = now]
<1>1. t.id \in Ids /\ t.iat \in Nat /\ now \in Nat /\ t.id \in Nat
  BY MembershipAssumption DEF AccountInv, AccountGround, Types, Ids
<1>2. k \in Call /\ k.op = "visit" /\ k.at = "identity" /\ k.id = t.id /\ k.since = now
  BY <1>1 DEF Call, NoCall, Operations, Stage
<1>3. BeginCall(c, k) /\ UNCHANGED frameVars
  BY DEF Visit, frameVars, accountHistory
<1> HIDE DEF k
<1>4. CallInv(k)
  BY <1>1, <1>2 DEF CallInv, Shape, ReadStages, Before, Afterwards, Claims, Copied, AccountStanding
<1> QED
  BY <1>2, <1>3, <1>4, BegunInv

\* A step that frees a call and puts one entry of the cache in place.
LEMMA StoredInv ==
    ASSUME AccountInv, NEW c \in Slots, CallFreed(c), NEW id \in Ids, NEW e \in CacheEntry,
           context' = [context EXCEPT ![id] = e],
           UNCHANGED stateVars, UNCHANGED <<links, lastId, deletions, stranger, tokens,
                                            spent, slipped, late>>,
           /\ e.until <= now + Ttl
           /\ id = identity.id /\ e.until > identityAt + Ttl => e.cutoff = identity.cutoff
           /\ id # identity.id /\ erased.at >= 0 => e.until <= erased.at + Ttl
           /\ LinkedTo(id) /\ bannedAt >= 0 => e.until <= bannedAt + Ttl
    PROVE  AccountInv'
<1>1. Types /\ Clocks /\ AccountStanding /\ late = FALSE
  BY DEF AccountInv, AccountGround
<1>2. context' \in [Ids -> CacheEntry] /\ context'[id] = e
      /\ \A j \in Ids \ {id} : context'[j] = context[j]
  BY <1>1 DEF Types
<1>3. Types' /\ AccountStanding' /\ Clocks'
  BY <1>1, <1>2 DEF Types, AccountStanding, Clocks, stateVars
<1>4. ASSUME NEW j \in Ids PROVE EntryFresh(j)'
  <2>1. CASE j = id
    BY <2>1, <1>2 DEF EntryFresh, LinkedTo, Live, stateVars
  <2>2. CASE j # id
    BY <2>2, <1>2 DEF EntryFresh, LinkedTo, Live, stateVars, AccountInv, AccountGround
  <2> QED
    BY <2>1, <2>2
<1>5. CallInv(calls[c])'
  BY IdleCall DEF CallFreed, CallInv, Shape, ReadStages, Before, Afterwards, Claims, Copied
<1>6. AccountGround'
  BY <1>1, <1>3, <1>4 DEF AccountGround
<1> QED
  BY <1>5, <1>6, StateKept DEF CallFreed

\* One that empties the entry.
LEMMA ClearedInv ==
    ASSUME AccountInv, NEW c \in Slots, CallFreed(c), NEW id \in Ids,
           context' = [context EXCEPT ![id] = NoContext],
           UNCHANGED stateVars, UNCHANGED <<links, lastId, deletions, stranger, tokens,
                                            spent, slipped, late>>
    PROVE  AccountInv'
<1>1. /\ now \in Nat /\ Ttl \in Nat /\ identityAt \in Nat /\ bannedAt \in Int
      /\ erased.at \in Int
  BY MembershipAssumption DEF AccountInv, AccountGround, Types
<1>2. /\ NoContext.until <= now + Ttl /\ ~(NoContext.until > identityAt + Ttl)
      /\ erased.at >= 0 => NoContext.until <= erased.at + Ttl
      /\ bannedAt >= 0 => NoContext.until <= bannedAt + Ttl
  BY <1>1, EmptyEntry
<1> QED
  BY <1>2, EmptyEntry, StoredInv

\* What is read of the identity is no older than the request.
LEMMA ReadIdentityHolds ==
    ASSUME AccountInv, NEW c \in Slots, ReadIdentity(c) PROVE AccountInv'
<1> DEFINE k == calls[c]
<1>1. /\ k \in Call /\ CallInv(k) /\ k.op = "visit" /\ k.at = "identity" /\ k.id \in Ids
      /\ Types /\ Clocks /\ AccountStanding /\ identity \in IdentityRow
      /\ now \in Nat /\ Ttl \in Nat \ {0}
      /\ UNCHANGED <<now, member, links, identity, lastId, deletions, stranger, tokens,
                     spent, accountHistory>>
  BY MembershipAssumption
     DEF AccountInv, ReadIdentity, CallAt, CallInv, Shape, AccountGround, Types
<1>2. CASE identity.id = k.id
  <2> DEFINE r == [k EXCEPT !.at = "member", !.copy = identity]
  <2>1. /\ r \in Call /\ r.at = "member" /\ r.copy = identity /\ r.op = k.op
        /\ r.id = k.id /\ r.since = k.since
    BY <1>1 DEF Call, Stage
  <2>2. calls' = [calls EXCEPT ![c] = r] /\ UNCHANGED frameVars
    BY <1>1, <1>2 DEF AccountInv, ReadIdentity, frameVars
  <2> HIDE DEF r
  <2>3. Sole(c) /\ calls'[c] = r
    BY <2>1, <2>2, CallSet DEF AccountInv
  <2>4. CallInv(r)
    BY <1>1, <1>2, <2>1 DEF CallInv, Shape, ReadStages, Before, Afterwards, Claims, Copied
  <2> QED
    BY <1>1, <2>2, <2>3, <2>4, CallsOnly DEF AccountInv, AccountGround, Types
<1>3. CASE identity.id # k.id
  <2>1. CallFreed(c) /\ context' = [context EXCEPT ![k.id] = NoContext]
    BY <1>3, Returned DEF AccountInv, ReadIdentity
  <2>2. UNCHANGED stateVars /\ UNCHANGED <<slipped, late>>
    BY <1>1 DEF stateVars, accountHistory
  <2> QED
    BY <1>1, <2>1, <2>2, ClearedInv
<1> QED
  BY <1>2, <1>3

\* Nor is what is read of the member: a ban the request came after is seen.
LEMMA ReadMemberHolds ==
    ASSUME AccountInv, NEW c \in Slots, ReadMember(c) PROVE AccountInv'
<1> DEFINE k == calls[c]
           D == IF LinkedTo(k.id) THEN {member} ELSE {}
           r == [k EXCEPT !.at = "answer", !.dirty = D]
<1>1. /\ k \in Call /\ CallInv(k) /\ k.op = "visit" /\ k.at = "member"
      /\ member \in MemberRow /\ Clocks
      /\ UNCHANGED frameVars /\ UNCHANGED spent
  BY DEF AccountInv, ReadMember, CallAt, AccountGround, Types, frameVars, accountHistory
<1>2. D \in SUBSET MemberRow /\ (LinkedTo(k.id) => member \in D)
  BY <1>1
<1> HIDE DEF D
<1>3. /\ r \in Call /\ r.at = "answer" /\ r.copy = k.copy /\ r.op = k.op /\ r.id = k.id
      /\ r.since = k.since /\ r.dirty = D
  BY <1>1, <1>2 DEF Call, Stage
<1>4. calls' = [calls EXCEPT ![c] = r]
  BY <1>1 DEF AccountInv, ReadMember, D
<1> HIDE DEF r
<1>5. Sole(c) /\ calls'[c] = r
  BY <1>3, <1>4, CallSet DEF AccountInv
<1>6. bannedAt >= 0 => member.banned
  BY <1>1 DEF Clocks
<1>7. CallInv(r)
  BY <1>1, <1>2, <1>3, <1>6 DEF CallInv, Shape, ReadStages, Before, Afterwards, Claims, Copied
<1> QED
  BY <1>1, <1>5, <1>7, CallsOnly DEF AccountInv, AccountGround, Types

\* The answer is cached for a life counted from the request.
LEMMA AnswerHolds == ASSUME AccountInv, NEW c \in Slots, Answer(c) PROVE AccountInv'
<1> DEFINE k == calls[c]
           seen == [member |-> k.dirty # {}, until |-> Expires(c),
                    cutoff |-> k.copy.cutoff]
           blocked == \E r \in k.dirty : Blocked(r)
<1>1. /\ k \in Call /\ CallInv(k) /\ k.op = "visit" /\ k.at = "answer" /\ k.id \in Ids
      /\ k.since \in Nat /\ k.iat \in Nat /\ k.since <= now /\ k.copy \in IdentityRow
      /\ Types /\ Clocks /\ AccountStanding /\ late = FALSE /\ CallFreed(c)
      /\ now \in Nat /\ Ttl \in Nat \ {0} /\ identity \in IdentityRow
  <2>1. k \in Call /\ CallInv(k) /\ k.op = "visit" /\ k.at = "answer"
        /\ Types /\ Clocks /\ AccountStanding /\ late = FALSE /\ ReturnCall(c)
    BY DEF AccountInv, Answer, CallAt, AccountGround
  <2>2. CallFreed(c)
    BY <2>1, Returned DEF AccountInv
  <2>3. k.since \in Nat /\ k.iat \in Nat
    BY <2>1 DEF Call
  <2>4. k.id \in Ids /\ k.since <= now /\ k.copy \in IdentityRow
    BY <2>1 DEF CallInv, Shape
  <2> QED
    BY <2>1, <2>2, <2>3, <2>4, MembershipAssumption DEF Types
<1>2. /\ UNCHANGED stateVars
      /\ UNCHANGED <<links, lastId, deletions, stranger, tokens, spent, slipped>>
      /\ context' = [context EXCEPT ![k.id] = IF blocked THEN NoContext ELSE seen]
      /\ IF blocked THEN UNCHANGED late ELSE Judge(k.id, k.iat, k.since, seen)
  BY DEF Answer, stateVars
<1>3. ReadStages(k)
  BY <1>1 DEF CallInv
<1>4. CASE blocked
  <2>1. context' = [context EXCEPT ![k.id] = NoContext] /\ UNCHANGED late
    BY <1>2, <1>4
  <2> HIDE DEF blocked, k
  <2> QED
    BY <1>1, <1>2, <2>1, ClearedInv
<1>5. CASE ~blocked
  <2>1. seen \in CacheEntry /\ seen.until = k.since + Ttl /\ seen.cutoff = k.copy.cutoff
    BY <1>1 DEF CacheEntry, Expires, IdentityRow
  <2>2. ~\E r \in k.dirty : r.banned
    BY <1>5 DEF Blocked
  <2>3. context' = [context EXCEPT ![k.id] = seen] /\ Judge(k.id, k.iat, k.since, seen)
    BY <1>2, <1>5
  <2> HIDE DEF seen, blocked
  <2>4. /\ k.id = identity.id /\ k.since > identityAt => seen.cutoff = identity.cutoff
        /\ k.id # identity.id /\ erased.at >= 0 => k.since <= erased.at
        /\ LinkedTo(k.id) /\ bannedAt >= 0 => k.since <= bannedAt
    BY <1>1, <1>3, <2>1, <2>2 DEF ReadStages, Types
  <2>5. ~(Admits(seen, k.iat) /\ ShutOut(k.id, k.iat, k.since))
    BY <1>1, <2>1, <2>4 DEF Admits, ShutOut, Types, IdentityRow
  <2>6. late' = late
    BY <1>1, <2>3, <2>5 DEF Judge
  <2> HIDE DEF k
  <2>7. /\ seen.until <= now + Ttl
        /\ k.id = identity.id /\ seen.until > identityAt + Ttl =>
             seen.cutoff = identity.cutoff
        /\ k.id # identity.id /\ erased.at >= 0 => seen.until <= erased.at + Ttl
        /\ LinkedTo(k.id) /\ bannedAt >= 0 => seen.until <= bannedAt + Ttl
    BY <1>1, <2>1, <2>4 DEF Types
  <2> QED
    BY <1>1, <1>2, <2>1, <2>3, <2>6, <2>7, StoredInv
<1> QED
  BY <1>4, <1>5

\* A deletion is asked for.
LEMMA AskHolds == ASSUME AccountInv, NEW c \in Slots, AskDeletion(c) PROVE AccountInv'
<1> DEFINE k == [NoCall EXCEPT !.op = "ask", !.at = "insert"]
<1>1. k \in Call /\ k.op = "ask" /\ k.at = "insert"
  BY DEF Call, NoCall, Operations, Stage
<1>2. BeginCall(c, k) /\ UNCHANGED frameVars
  BY DEF AskDeletion, frameVars, accountHistory
<1> HIDE DEF k
<1>3. CallInv(k)
  BY <1>1 DEF CallInv, Shape, ReadStages, Before, Afterwards, Claims, Copied
<1> QED
  BY <1>1, <1>2, <1>3, BegunInv

\* A step that frees a call and gives a request of deletion its new status.
LEMMA RequestedInv ==
    ASSUME AccountInv, NEW c \in Slots, CallFreed(c), NEW r \in DeletionIds,
           NEW status \in {"pending", "confirmed", "cancelled"},
           deletions' = [deletions EXCEPT ![r] = status],
           UNCHANGED stateVars, UNCHANGED <<links, lastId, stranger, context, tokens, spent,
                                            slipped, late>>,
           erased.at >= 0 /\ {"confirm", "cancel"} \cap raced = {} => r # erased.by
    PROVE  AccountInv'
<1>1. Types /\ AccountStanding /\ late = FALSE
  BY DEF AccountInv, AccountGround
<1>2. deletions' \in [DeletionIds ->
                        {"none", "pending", "confirmed", "cancelled", "executed"}]
      /\ \A q \in DeletionIds \ {r} : deletions'[q] = deletions[q]
  BY <1>1 DEF Types
<1>3. Types'
  BY <1>1, <1>2 DEF Types, stateVars
<1>4. AccountStanding'
  BY <1>1, <1>2 DEF AccountStanding, stateVars
<1>5. CallInv(calls[c])'
  BY IdleCall DEF CallFreed, CallInv, Shape, ReadStages, Before, Afterwards, Claims, Copied
<1>6. AccountGround'
  BY <1>1, <1>3, <1>4, Freshness DEF AccountGround, stateVars
<1> QED
  BY <1>5, <1>6, StateKept DEF CallFreed

\* A new deletion request is not the executed one.
LEMMA InsertHolds == ASSUME AccountInv, NEW c \in Slots, Insert(c) PROVE AccountInv'
<1> DEFINE r == CHOOSE r \in In("none") : TRUE
<1>1. r \in DeletionIds /\ deletions[r] = "none"
  BY DEF Insert, In
<1>2. deletions' = [deletions EXCEPT ![r] = "pending"]
  BY DEF Insert
<1> HIDE DEF r
<1>3. erased.at >= 0 /\ {"confirm", "cancel"} \cap raced = {} => r # erased.by
  BY <1>1 DEF AccountInv, AccountGround, AccountStanding
<1>4. CallFreed(c) /\ UNCHANGED stateVars
      /\ UNCHANGED <<links, lastId, stranger, context, tokens, spent, slipped, late>>
  BY Returned DEF Insert, AccountInv, stateVars, accountHistory
<1> QED
  BY <1>1, <1>2, <1>3, <1>4, RequestedInv

\* Nor is one that is found to be confirmed, cancelled or executed.
LEMMA FindDeletionHolds ==
    ASSUME AccountInv, NEW c \in Slots, NEW op \in {"confirm", "cancel", "execute"},
           Find(c, op)
    PROVE  AccountInv'
<1>1. PICK r \in Takes(op) :
        BeginCall(c, [NoCall EXCEPT !.op = op, !.id = r,
                     !.at = IF op = "execute" THEN "load" ELSE "settle"])
  BY DEF Find
<1> DEFINE k == [NoCall EXCEPT !.op = op, !.id = r,
                     !.at = IF op = "execute" THEN "load" ELSE "settle"]
<1>2. r \in DeletionIds /\ deletions[r] # "executed"
  BY DEF Takes, In
<1>3. r \in Nat
  BY <1>2 DEF DeletionIds
<1>4. /\ k \in Call /\ k.op = op /\ k.id = r
      /\ k.at = IF op = "execute" THEN "load" ELSE "settle"
  BY <1>3 DEF Call, NoCall, Operations, Stage
<1>5. BeginCall(c, k) /\ UNCHANGED frameVars
  BY <1>1 DEF Find, frameVars, accountHistory
<1> HIDE DEF k
<1>6. CallInv(k)
  BY <1>2, <1>4 DEF CallInv, Shape, ReadStages, Before, Afterwards, Claims, Copied, AccountInv,
     AccountGround, AccountStanding
<1> QED
  BY <1>4, <1>5, <1>6, BegunInv

\* A request is saved with its new status.
LEMMA SettleHolds == ASSUME AccountInv, NEW c \in Slots, Settle(c) PROVE AccountInv'
<1> DEFINE r == calls[c].id
           status == IF calls[c].op = "confirm" THEN "confirmed" ELSE "cancelled"
<1>1. CallInv(calls[c]) /\ calls[c].at = "settle"
  BY DEF AccountInv, Settle
<1>2. r \in DeletionIds
      /\ (erased.at >= 0 /\ {"confirm", "cancel"} \cap raced = {} => r # erased.by)
  BY <1>1 DEF CallInv, Shape, Claims
<1>3. deletions' = [deletions EXCEPT ![r] = status]
  BY DEF Settle
<1>4. CallFreed(c) /\ UNCHANGED stateVars
      /\ UNCHANGED <<links, lastId, stranger, context, tokens, spent, slipped, late>>
  BY Returned DEF Settle, AccountInv, stateVars, accountHistory
<1>5. status \in {"pending", "confirmed", "cancelled"}
  OBVIOUS
<1> HIDE DEF r, status
<1> QED
  BY <1>2, <1>3, <1>4, <1>5, RequestedInv

\* The erasure loads the row.
LEMMA LoadHolds == ASSUME AccountInv, NEW c \in Slots, Load(c) PROVE AccountInv'
<1> DEFINE k == calls[c]
           r == [k EXCEPT !.at = "erase", !.copy = member]
<1>1. /\ k \in Call /\ CallInv(k) /\ k.op = "execute" /\ k.at = "load"
      /\ member \in MemberRow /\ AccountStanding
      /\ UNCHANGED frameVars /\ UNCHANGED spent
  BY DEF AccountInv, Load, CallAt, AccountGround, Types, frameVars, accountHistory
<1>2. CASE ~Live
  BY <1>1, <1>2, Returned, FreedInv DEF AccountInv, Load
<1>3. CASE Live
  <2>1. r \in Call /\ r.at = "erase" /\ r.op = k.op /\ r.copy = member /\ r.id = k.id
    BY <1>1 DEF Call, Stage
  <2>2. calls' = [calls EXCEPT ![c] = r]
    BY <1>1, <1>3 DEF AccountInv, Load
  <2> HIDE DEF r
  <2>3. Sole(c) /\ calls'[c] = r
    BY <2>1, <2>2, CallSet DEF AccountInv
  <2>4. CallInv(r)
    BY <1>1, <1>3, <2>1 DEF CallInv, Shape, ReadStages, Before, Afterwards, Claims, Copied,
       Live, AccountStanding
  <2> QED
    BY <1>1, <2>3, <2>4, CallsOnly DEF AccountInv, AccountGround, Types
<1> QED
  BY <1>2, <1>3

\* The handle is blocked once the erasure has committed.
LEMMA BlockHolds == ASSUME AccountInv, NEW c \in Slots, Block(c) PROVE AccountInv'
<1>1. /\ CallInv(calls[c]) /\ calls[c].op = "execute" /\ CallMoved(c, "cutoff")
      /\ UNCHANGED frameVars /\ UNCHANGED spent
  BY CallAdvanced DEF AccountInv, Block, CallAt, Stage, frameVars, accountHistory
<1>2. CallInv(calls'[c])
  BY <1>1 DEF CallMoved, CallInv, Shape, ReadStages, Before, Afterwards, Claims, Copied
<1> QED
  BY <1>1, <1>2, CallsOnly DEF CallMoved, AccountInv, AccountGround, Types

\* The erasure. What is under way is remembered in raced; without a sign-in among it
\* this is the first erasure, and the identity goes with the account.
LEMMA EraseHolds == ASSUME AccountInv, NEW c \in Slots, Erase(c) PROVE AccountInv'
<1> DEFINE k == calls[c]
           copy == k.copy
           left == IF copy.link = identity.id THEN IdentityLeft ELSE identity
<1>1. /\ k \in Call /\ CallInv(k) /\ k.op = "execute" /\ k.at = "erase"
      /\ copy \in MemberRow /\ k.id \in DeletionIds /\ k.id \in Nat
      /\ Types /\ Clocks /\ AccountStanding /\ late = FALSE
      /\ now \in Nat /\ Ttl \in Nat \ {0} /\ identity \in IdentityRow
  <2>1. k \in Call /\ CallInv(k) /\ k.op = "execute" /\ k.at = "erase"
        /\ Types /\ Clocks /\ AccountStanding /\ late = FALSE
    BY DEF AccountInv, Erase, CallAt, AccountGround
  <2>2. copy \in MemberRow /\ k.id \in DeletionIds
    BY <2>1 DEF CallInv, Shape, Copied
  <2> QED
    BY <2>1, <2>2, MembershipAssumption DEF Types, DeletionIds
<1>2. UNCHANGED <<now, lastId, stranger, context, tokens, spent, slipped, late>>
  BY DEF Erase
<1>3. CASE ~KeysHold([copy EXCEPT !.handle = FALSE])
  <2>1. ReturnCall(c) /\ UNCHANGED frameVars
    BY <1>2, <1>3 DEF Erase, frameVars, accountHistory
  <2> QED
    BY <1>2, <2>1, Returned, FreedInv DEF AccountInv
<1>4. CASE KeysHold([copy EXCEPT !.handle = FALSE])
  <2> DEFINE row == [copy EXCEPT !.state = "deleted", !.personal = FALSE,
                                 !.handle = FALSE,
                                 !.link = IF left.id = 0 THEN 0 ELSE @]
             r == [k EXCEPT !.at = "block", !.id = copy.link, !.release = copy.handle]
  <2>1. /\ member' = row /\ links' = FALSE /\ identity' = left
        /\ deletions' = [deletions EXCEPT ![k.id] = "executed"]
        /\ bannedAt' = -1 /\ identityAt' = now
        /\ erased' = [at |-> now, by |-> k.id, handle |-> member.handle]
        /\ raced' = raced \cup {calls[d].op : d \in Slots \ {c}}
        /\ calls' = [calls EXCEPT ![c] = r]
    BY <1>1, <1>4 DEF Erase, AccountInv
  <2>2. copy.link \in {0, identity.id}
    BY <1>1, <1>4 DEF KeysHold, MemberRow
  <2>3. left \in IdentityRow /\ left.id \in {0, identity.id}
        /\ (copy.link = identity.id => left.id = 0)
    BY <1>1 DEF IdentityRow, IdentityLeft
  <2>4. /\ row \in MemberRow /\ row.state = "deleted" /\ row.personal = FALSE
        /\ row.handle = FALSE /\ row.link = 0
    BY <1>1, <2>2, <2>3 DEF MemberRow
  <2>5. copy.link \in Nat
    BY <1>1, MembershipAssumption DEF MemberRow, Ids
  <2>6. r \in Call /\ r.at = "block" /\ r.op = "execute"
    BY <1>1, <2>5 DEF Call, Stage, MemberRow
  <2>7. erased' \in [at : Int, by : Nat, handle : BOOLEAN] /\ erased'.at = now
        /\ erased'.by = k.id /\ erased'.handle = member.handle
    BY <1>1, <2>1 DEF Types, MemberRow
  <2> HIDE DEF row, r, left
  <2>8. Sole(c) /\ calls'[c] = r
    BY <2>1, <2>6, CallSet DEF AccountInv
  <2>9. deletions' \in [DeletionIds ->
                        {"none", "pending", "confirmed", "cancelled", "executed"}]
        /\ deletions'[k.id] = "executed"
    BY <1>1, <2>1 DEF Types
  <2>10. Types'
    <3>1. member' \in MemberRow /\ member'.link = 0 /\ member'.handle = FALSE
          /\ links' \in BOOLEAN /\ identity' \in IdentityRow
          /\ bannedAt' \in Int /\ identityAt' \in Nat
      <4>1. member' \in MemberRow /\ member'.link = 0 /\ member'.handle = FALSE
        BY <2>1, <2>4
      <4>2. links' \in BOOLEAN /\ identity' \in IdentityRow
        BY <2>1, <2>3
      <4>3. bannedAt' \in Int /\ identityAt' \in Nat
        BY <2>1, <1>1
      <4> QED
        BY <4>1, <4>2, <4>3
    <3> QED
      BY <3>1, <1>1, <1>2, <2>7, <2>9 DEF Types
  <2>11. Clocks'
    BY <1>1, <1>2, <2>1, <2>7 DEF Clocks
  \* Without a sign-in under way, this is the first erasure, and it takes the identity.
  <2>12. "signin" \notin raced => erased.at < 0 /\ copy.link = 1 /\ left.id = 0
    <3>1. ASSUME "signin" \notin raced, erased.at >= 0 PROVE FALSE
      BY <3>1, <2>2, <1>1 DEF CallInv, Afterwards, Copied, AccountStanding
    <3>2. ASSUME erased.at < 0 PROVE copy.link = 1 /\ identity.id = 1
      BY <3>2, <1>1 DEF CallInv, Before, Copied, AccountStanding
    <3> QED
      BY <3>1, <3>2, <2>3, <1>1 DEF Types
  <2>13. \A d \in Slots \ {c} : calls[d].op \in raced'
    BY <2>1
  <2>14. raced \subseteq raced'
    BY <2>1
  <2>15. ~(member.handle /\ stranger)
    BY <1>1 DEF Types
  <2>16. AccountStanding'
    BY <1>1, <1>2, <2>1, <2>4, <2>7, <2>9, <2>12, <2>14, <2>15 DEF AccountStanding
  <2>17. ASSUME NEW id \in Ids PROVE EntryFresh(id)'
    <3>1. EntryFresh(id) /\ context[id].until \in Nat
      BY DEF AccountInv, AccountGround, Types, CacheEntry
    <3> QED
      BY <3>1, <1>1, <1>2, <2>1, <2>4, <2>7 DEF EntryFresh, LinkedTo, Live
  <2>18. ASSUME NEW d \in Slots PROVE CallInv(calls[d])'
    <3>1. CASE d = c
      BY <3>1, <2>6, <2>8 DEF CallInv, Shape, ReadStages, Before, Afterwards, Claims, Copied
    <3>2. CASE d # c
      <4> DEFINE e == calls[d]
      <4>1. CallInv(e) /\ e' = e /\ e \in Call /\ e.op \in raced'
        BY <3>2, <2>8, <2>13 DEF AccountInv, Sole
      <4> HIDE DEF e
      <4>2. e.op = "visit" => e.since <= now /\ e.since \in Nat
        BY <4>1 DEF CallInv, Shape, Call
      <4>3. Shape(e)'
        BY <4>1, <1>2 DEF CallInv, Shape
      <4>4. ReadStages(e)'
        BY <4>1, <4>2, <1>1, <1>2, <2>1, <2>4, <2>7 DEF ReadStages, LinkedTo, Live
      <4>5. Before(e)'
        BY <1>1, <2>7 DEF Before
      <4>6. Afterwards(e)'
        <5> SUFFICES ASSUME "signin" \notin raced' PROVE Afterwards(e)'
          BY DEF Afterwards
        <5>1. "signin" \notin raced /\ erased.at < 0
          BY <2>12, <2>14
        <5> QED
          BY <5>1, <4>1 DEF CallInv, Before, Afterwards, Copied
      <4>7. Claims(e)'
        <5>1. (e.at = "settle" => e.op \in {"confirm", "cancel"})
              /\ (e.at = "take" => e.op = "claim")
          BY <4>1 DEF CallInv, Shape
        <5> QED
          BY <4>1, <5>1 DEF Claims
      <4> QED
        BY <4>3, <4>4, <4>5, <4>6, <4>7 DEF e, CallInv
    <3> QED
      BY <3>1, <3>2
  <2> QED
    BY <1>1, <1>2, <2>8, <2>10, <2>11, <2>16, <2>17, <2>18 DEF AccountInv, AccountGround, Sole
<1> QED
  BY <1>3, <1>4

\* A crash leaves no call and no entry.
LEMMA CrashHolds == ASSUME AccountInv, AccountCrash PROVE AccountInv'
<1>1. /\ Types /\ Clocks /\ AccountStanding /\ late = FALSE
      /\ now \in Nat /\ Ttl \in Nat \ {0}
  BY MembershipAssumption DEF AccountInv, AccountGround, Types
<1>2. /\ calls' = [c \in Slots |-> NoCall] /\ context' = [id \in Ids |-> NoContext]
      /\ spent' \in 0 .. MaxCalls
      /\ UNCHANGED stateVars
      /\ UNCHANGED <<links, lastId, deletions, stranger, tokens, slipped, late>>
  BY <1>1, MembershipAssumption DEF AccountCrash, stateVars, accountHistory, Types
<1>3. /\ context' \in [Ids -> CacheEntry] /\ \A id \in Ids : context'[id].until = 0
      /\ calls' \in [Slots -> Call] /\ \A c \in Slots : calls'[c] = NoCall
  BY <1>2, EmptyEntry, IdleCall
<1>4. Types' /\ Clocks' /\ AccountStanding'
  BY <1>1, <1>2, <1>3 DEF Types, Clocks, AccountStanding, stateVars
<1>5. ASSUME NEW id \in Ids PROVE EntryFresh(id)'
  BY <1>1, <1>2, <1>3 DEF EntryFresh, stateVars, Types
<1>6. ASSUME NEW c \in Slots PROVE CallInv(calls[c])'
  BY <1>3, IdleCall DEF CallInv, Shape, ReadStages, Before, Afterwards, Claims, Copied
<1> QED
  BY <1>1, <1>2, <1>3, <1>4, <1>5, <1>6 DEF AccountInv, AccountGround

\* Time passes: nobody reads into the future.
LEMMA TickHolds == ASSUME AccountInv, AccountTick PROVE AccountInv'
<1>1. /\ Types /\ Clocks /\ AccountStanding /\ late = FALSE
      /\ now \in Nat /\ Ttl \in Nat \ {0}
  BY MembershipAssumption DEF AccountInv, AccountGround, Types
<1>2. /\ now' = now + 1 /\ now' \in 0 .. MaxTime
      /\ UNCHANGED <<member, links, identity, lastId, deletions, stranger, context, tokens,
                     calls, spent, bannedAt, identityAt, erased, raced, slipped, late>>
  BY <1>1, MembershipAssumption DEF AccountTick, accountHistory, Types
<1>3. Types' /\ Clocks' /\ AccountStanding'
  BY <1>1, <1>2 DEF Types, Clocks, AccountStanding
<1>4. ASSUME NEW id \in Ids PROVE EntryFresh(id)'
  <2>1. EntryFresh(id) /\ context[id].until \in Nat
    BY DEF AccountInv, AccountGround, Types, CacheEntry
  <2> QED
    BY <2>1, <1>1, <1>2 DEF EntryFresh, LinkedTo, Live
<1>5. ASSUME NEW c \in Slots PROVE CallInv(calls[c])'
  <2> DEFINE e == calls[c]
  <2>1. CallInv(e) /\ e' = e /\ e \in Call
    BY <1>2 DEF AccountInv
  <2> HIDE DEF e
  <2>2. e.since \in Nat
    BY <2>1 DEF Call
  <2>3. Shape(e)'
    BY <2>1, <2>2, <1>1, <1>2 DEF CallInv, Shape
  <2>4. ReadStages(e)' /\ Before(e)' /\ Afterwards(e)' /\ Claims(e)'
    BY <2>1, <1>2 DEF CallInv, ReadStages, Before, Afterwards, Claims, LinkedTo, Live
  <2> QED
    BY <2>3, <2>4 DEF e, CallInv
<1> QED
  BY <1>1, <1>2, <1>3, <1>4, <1>5 DEF AccountInv, AccountGround

\* An account begins well.
LEMMA AccountBegins == AccountInit => AccountInv
<1> SUFFICES ASSUME AccountInit PROVE AccountInv
  OBVIOUS
<1> USE MembershipAssumption
<1>1. 1 \in Ids /\ 0 \notin Ids
  BY DEF Ids
<1>2. /\ now = 0 /\ spent = 0 /\ links = TRUE /\ lastId = 1 /\ stranger = FALSE
      /\ identity = [id |-> 1, cutoff |-> 0] /\ context = [id \in Ids |-> NoContext]
      /\ tokens = {[id |-> 1, iat |-> 0]} /\ calls = [c \in Slots |-> NoCall]
      /\ bannedAt = -1 /\ identityAt = 0 /\ slipped = FALSE /\ late = FALSE
      /\ erased = [at |-> -1, by |-> 0, handle |-> FALSE]
      /\ member = [state |-> "live", banned |-> FALSE, until |-> 0, role |-> "member",
                   handle |-> TRUE, personal |-> TRUE, renamed |-> -Cooldown, link |-> 1]
  BY DEF AccountInit
<1>3. deletions \in [DeletionIds ->
                        {"none", "pending", "confirmed", "cancelled", "executed"}]
  <2>1. PICK status \in {"none", "pending", "confirmed"} :
          deletions = [r \in DeletionIds |-> IF r = 1 THEN status ELSE "none"]
    BY DEF AccountInit
  <2> QED
    BY <2>1
<1>4. member \in MemberRow /\ identity \in IdentityRow
  BY <1>1, <1>2 DEF MemberRow, IdentityRow, Roles
<1>5. erased \in [at : Int, by : Nat, handle : BOOLEAN] /\ erased.at = -1
  BY <1>2
<1>6. context \in [Ids -> CacheEntry] /\ tokens \subseteq [id : Ids, iat : Nat]
      /\ \A id \in Ids : context[id].until = 0
  BY <1>1, <1>2, EmptyEntry
<1>7. calls \in [Slots -> Call] /\ \A c \in Slots : CallInv(calls[c])
  BY <1>2, IdleCall, IdleInv
<1>8. Types
  <2>1. now \in 0 .. MaxTime /\ spent \in 0 .. MaxCalls /\ lastId \in Nat \ {0}
        /\ bannedAt \in Int /\ identityAt \in Nat
    BY <1>2
  <2>3. links \in BOOLEAN /\ stranger \in BOOLEAN /\ slipped \in BOOLEAN
    BY <1>2
  <2>2. member.link = identity.id /\ ~stranger
    BY <1>2
  <2> QED
    BY <2>1, <2>2, <2>3, <1>3, <1>4, <1>5, <1>6 DEF Types
<1>9. Clocks /\ AccountStanding
  BY <1>2, <1>5 DEF Clocks, AccountStanding
<1>10. ASSUME NEW id \in Ids PROVE EntryFresh(id)
  BY <1>2, <1>5, <1>6 DEF EntryFresh
<1> QED
  BY <1>2, <1>7, <1>8, <1>9, <1>10 DEF AccountInv, AccountGround

\* The invariant is inductive.
LEMMA AccountHolds == AccountInv /\ [AccountNext]_accountVars => AccountInv'
<1> SUFFICES ASSUME AccountInv, [AccountNext]_accountVars PROVE AccountInv'
  OBVIOUS
<1>1. ASSUME NEW c \in Slots, Saves(c) PROVE AccountInv'
  BY <1>1, CompareHolds, WriteHolds DEF Saves
<1>2. ASSUME NEW c \in Slots, Profiles(c) PROVE AccountInv'
  BY <1>2, EditHolds, ClaimHolds, HoldHolds, LinksHold, LooksHold, TakesHold
     DEF Profiles
<1>3. ASSUME NEW c \in Slots, Moderation(c) PROVE AccountInv'
  BY <1>3, ModerateHolds, CutoffHolds, DropHolds, LogoutHolds DEF Moderation
<1>4. ASSUME NEW c \in Slots, Sessions(c) PROVE AccountInv'
  BY <1>4, SignInHolds, UpsertHolds, FindHolds, IssueHolds, CachedHolds, VisitHolds,
     ReadIdentityHolds, ReadMemberHolds, AnswerHolds DEF Sessions
<1>5. ASSUME NEW c \in Slots, Erasure(c) PROVE AccountInv'
  BY <1>5, AskHolds, InsertHolds, FindDeletionHolds, SettleHolds, LoadHolds, EraseHolds,
     BlockHolds DEF Erasure
<1>6. CASE AccountTick \/ AccountCrash
  BY <1>6, TickHolds, CrashHolds
<1>7. CASE UNCHANGED accountVars
  BY <1>7 DEF accountVars, AccountInv, AccountGround, Types, Clocks, EntryFresh, AccountStanding, CallInv,
     Shape,
     ReadStages, Before, Afterwards, Claims, LinkedTo, Live
<1> QED
  BY <1>1, <1>2, <1>3, <1>4, <1>5, <1>6, <1>7 DEF AccountNext

\* The strengthening holds throughout, of any number of requests, identities and
\* deletion requests.
THEOREM AccountKept == AccountSpec => []AccountInv
  BY AccountBegins, AccountHolds, PTL DEF AccountSpec

\* What the invariant says of the properties.
LEMMA AccountImplies == AccountInv => AccountTypeOK /\ ErasureIsFinal /\ ShutOutInTime
<1> SUFFICES ASSUME AccountInv PROVE AccountTypeOK /\ ErasureIsFinal /\ ShutOutInTime
  OBVIOUS
<1>1. Types /\ AccountStanding /\ late = FALSE
  BY DEF AccountInv, AccountGround
<1>2. AccountTypeOK
  BY <1>1 DEF Types, AccountTypeOK, MemberRow, IdentityRow, CacheEntry
<1>3. ErasureIsFinal
  BY <1>1 DEF AccountStanding, ErasureIsFinal
<1> QED
  BY <1>1, <1>2, <1>3 DEF ShutOutInTime

\* An erasure the member confirmed is final (executeSelfDeletion), but for what was
\* under way when it committed.
THEOREM ErasedForGood == AccountSpec => []ErasureIsFinal
  BY AccountKept, AccountImplies, PTL

\* A context is trusted for its life and no longer (SessionContextService.resolve): who
\* was banned, logged out or erased that long ago is refused.
THEOREM KeptOut == AccountSpec => []ShutOutInTime
  BY AccountKept, AccountImplies, PTL

(***************************************************************************)
(* The gate (GuildGate).                                                   *)
(***************************************************************************)
\* The places a lookup goes through, and what it carries.
LookupPlaces == {"idle", "read", "probe", "ask", "answered", "save", "cache", "update"}
LookupRecords ==
    [kind : Kinds \cup {"none"}, at : LookupPlaces, copy : Pairs, by : Nat,
     trial : BOOLEAN, seen : Pairs]
VerdictRecords == [verdict : Pairs, degraded : BOOLEAN, until : Nat]

\* The types of the gate and of what it carries.
GateShape ==
    /\ GateTypeOK
    /\ concern \in Concerns /\ firstIn \in BOOLEAN
    /\ overlap \in BOOLEAN /\ heard \in Nat
    /\ lookups \in [Lookups -> LookupRecords]

\* The breaker.  A lookup is given up within its timeout, and one that began
\* while the breaker was closed ends before it is half-open: so while somebody
\* tries the gateway, nobody else asks it.
AskStages(c) == lookups[c].at = "ask"
Trying(c) == AskStages(c) /\ lookups[c].trial
BreakerInv ==
    /\ \A c \in Lookups : AskStages(c) => /\ clock <= lookups[c].by
                                       /\ lookups[c].by <= clock + Timeout
    /\ \A c \in Lookups : AskStages(c) /\ ~Trying(c) => openUntil = 0 \/ lookups[c].by < openUntil
    /\ \A c \in Lookups : Trying(c) => halfOpen
    /\ halfOpen => /\ openUntil # 0 /\ openUntil <= clock
                   /\ \E c \in Lookups : Trying(c)
    /\ \A c, d \in Lookups : Trying(c) /\ Trying(d) => c = d

\* The verdicts.  A pair that is not blind tells what the guild was in its turn.
Honest(pair) == pair.turn # 0 /\ ~pair.blind => (pair.member <=> InGuild(pair.turn))
Writers == {"status", "signin", "event"}
VerdictInv ==
    /\ heard <= turn /\ stored.turn <= turn
    /\ Honest(stored)
    /\ \A c \in Lookups :
         /\ Honest(lookups[c].seen) /\ lookups[c].seen.turn <= turn
         /\ lookups[c].at \in {"save", "cache", "update"} => lookups[c].kind \in Writers
         /\ lookups[c].at = "update" => lookups[c].seen.turn # 0
    /\ ~overlap =>
         /\ stored.turn >= heard
         /\ \A c \in Lookups :
              /\ /\ lookups[c].kind \in Writers
                 /\ lookups[c].at \in {"answered", "save", "cache", "update"}
                 /\ lookups[c].at = "save" \/ lookups[c].seen.turn # 0
                 => lookups[c].seen.turn >= heard
              /\ lookups[c].at = "cache" => lookups[c].seen = stored
         /\ (\A c \in Lookups : lookups[c].at # "cache") =>
              verdicts.degraded \/ verdicts.verdict = stored

\* A lookup with one field replaced is a lookup.
LEMMA LookupEdits ==
  /\ \A l \in LookupRecords :
       /\ \A p \in LookupPlaces : [l EXCEPT !.at = p] \in LookupRecords
       /\ \A p \in Pairs : [l EXCEPT !.copy = p] \in LookupRecords
       /\ \A p \in Pairs : [l EXCEPT !.seen = p] \in LookupRecords
       /\ \A t \in BOOLEAN : [l EXCEPT !.trial = t] \in LookupRecords
       /\ \A n \in Nat : [l EXCEPT !.by = n] \in LookupRecords
       /\ \A k \in Kinds : [l EXCEPT !.kind = k] \in LookupRecords
       /\ \A p \in Pairs : [l EXCEPT !.at = "answered", !.seen = p, !.trial = FALSE, !.by = 0]
                              \in LookupRecords
       /\ l.at \in LookupPlaces /\ l.kind \in Kinds \cup {"none"}
       /\ l.copy \in Pairs /\ l.seen \in Pairs
       /\ l.by \in Nat /\ l.trial \in BOOLEAN
  BY DEF LookupRecords, LookupPlaces

\* The types of the gate.
LEMMA GateShapeStep == GateShape /\ [GateNext]_gateVars => GateShape'
<1> SUFFICES ASSUME GateShape, [GateNext]_gateVars PROVE GateShape'
  OBVIOUS
<1> DEFINE Rest == GateTypeOK' /\ firstIn' \in BOOLEAN /\ overlap' \in BOOLEAN /\ heard' \in Nat
           Kept == lookups' \in [Lookups -> LookupRecords]
<1>0. concern' = concern
  BY DEF GateNext, AskDiscord, gateVars, breaker, ResolveCached, GuildTurns, GateTick,
     GateRestart, Resolve, ReadStored, ResolveFresh, Probe, AskAnswered, AskFails,
     Degrade, StoreVerdict, FindIdentity, SaveIdentity, CacheVerdict, OtherEnds,
     RecordEventVerdict
<1>a. /\ Pairs' = Pairs /\ LookupRecords' = LookupRecords
  BY <1>0 DEF Pairs, LookupRecords
<1>b. /\ lookups \in [Lookups -> LookupRecords] /\ stored \in Pairs /\ stored.turn \in Nat
      /\ \A p \in Pairs : p.turn \in Nat /\ p.at \in Nat
      /\ concern \in Concerns /\ concern.lookups \in Nat /\ concern.time \in Nat
      /\ clock \in Nat /\ clock \in 0 .. concern.time
      /\ turn \in Nat /\ turn \in 1 .. MaxTurns /\ turn \in 0 .. MaxTurns
      /\ 0 \in 0 .. concern.time /\ 0 \in 0 .. MaxTurns
  BY GuildGateAssumption DEF GateShape, GateTypeOK, Pairs
<1>d. \A t : InGuild(t) \in BOOLEAN
  BY DEF InGuild
<1>e. Never \in Pairs /\ Observation(turn) \in Pairs /\ Blind \in Pairs
  BY <1>b, <1>d DEF Pairs, Never, Observation, Blind
<1>f. NoLookup \in LookupRecords
  BY <1>e DEF NoLookup, LookupRecords, LookupPlaces
<1>g. MaxTurns \in Nat /\ Timeout \in Nat /\ BreakerCooldown \in Nat
      /\ VerdictTtl \in Nat /\ DegradedTtl \in Nat
  BY GuildGateAssumption
<1>c. SUFFICES Rest /\ Kept
  BY <1>0, <1>a DEF GateShape
<1>h. \A c \in Lookups : lookups[c].seen \in Pairs /\ lookups[c].copy \in Pairs
                           /\ lookups[c].by \in Nat
  BY <1>b, LookupEdits
<1>i. /\ NoVerdict \in VerdictRecords
      /\ \A p \in Pairs, n \in Nat :
           /\ [verdict |-> p, degraded |-> TRUE, until |-> n] \in VerdictRecords
           /\ [verdict |-> p, degraded |-> FALSE, until |-> n] \in VerdictRecords
  BY <1>e DEF NoVerdict, VerdictRecords
<1>j. ASSUME NEW c \in Lookups, NEW p \in Pairs, LookupAnswered(c, p) PROVE Kept
  BY <1>a, <1>b, <1>j, LookupEdits DEF LookupAnswered
<1> USE <1>0, <1>a, <1>b, <1>e, <1>f, <1>g
<1>1. ASSUME NEW c \in Lookups, Resolve(c) PROVE Rest /\ Kept
  <2>1. Rest
    BY <1>1 DEF Resolve, GateShape, GateTypeOK, breaker
  <2>5. Kept
    BY <1>1, LookupEdits DEF Resolve, LookupPlaces, Kinds, StartLookup
  <2> QED
    BY <2>1, <2>5
<1>2. ASSUME NEW c \in Lookups, ReadStored(c) PROVE Rest /\ Kept
  <2>1. Rest
    BY <1>2 DEF ReadStored, GateShape, GateTypeOK, breaker
  <2>5. Kept
    BY <1>2, LookupEdits DEF ReadStored, LookupPlaces, Kinds, Doing
  <2> QED
    BY <2>1, <2>5
<1>3. ASSUME NEW c \in Lookups, ResolveFresh(c) PROVE Rest /\ Kept
  <2>1. Rest
    BY <1>3 DEF ResolveFresh, GateShape, GateTypeOK, breaker
  <2>2. PICK kind \in {"signin", "other"} :
             lookups' = [lookups EXCEPT ![c] = [NoLookup EXCEPT !.kind = kind, !.at = "probe"]]
    BY <1>3 DEF ResolveFresh, StartLookup
  <2>4. kind \in Kinds /\ "probe" \in LookupPlaces
    BY DEF Kinds, LookupPlaces
  <2>3. [NoLookup EXCEPT !.kind = kind, !.at = "probe"] \in LookupRecords
    BY <2>4, LookupEdits
  <2>5. Kept
    BY <2>2, <2>3
  <2> QED
    BY <2>1, <2>5
<1>4. ASSUME NEW c \in Lookups, Probe(c) PROVE Rest /\ Kept
  <2>1. Rest
    BY <1>4 DEF Probe, GateShape, GateTypeOK, breaker
  <2>2. ASSUME ~Allows PROVE Kept
    BY <1>4, <1>j, <2>2 DEF Probe
  <2>3. ASSUME Allows PROVE Kept
    <3> DEFINE tries == (openUntil # 0)
    <3>1. tries \in BOOLEAN /\ clock + Timeout \in Nat /\ "ask" \in LookupPlaces
      BY DEF LookupPlaces
    <3>2. lookups' = [lookups EXCEPT ![c].at = "ask", ![c].by = clock + Timeout, ![c].trial = tries]
      BY <1>4, <2>3 DEF Probe
    <3> HIDE DEF tries
    <3> QED
      BY <3>1, <3>2, LookupEdits
  <2>5. Kept
    BY <2>2, <2>3
  <2> QED
    BY <2>1, <2>5
<1>5. ASSUME NEW c \in Lookups, AskAnswered(c) PROVE Rest /\ Kept
  <2>1. Rest
    BY <1>5 DEF AskAnswered, GateShape, GateTypeOK, breaker
  <2>2. PICK seen \in Pairs : LookupAnswered(c, seen)
    BY <1>5 DEF AskAnswered
  <2>5. Kept
    BY <2>2, LookupEdits DEF LookupAnswered
  <2> QED
    BY <2>1, <2>5
<1>6. ASSUME NEW c \in Lookups, AskFails(c) PROVE Rest /\ Kept
  <2>1. Rest
    <3>1. openUntil' \in Nat /\ failures' \in Nat
      BY <1>6 DEF AskFails, GateShape, GateTypeOK
    <3> QED
      BY <1>6, <3>1 DEF AskFails, GateShape, GateTypeOK
  <2>5. Kept
    BY <1>6, LookupEdits DEF AskFails, LookupPlaces, Kinds, LookupAnswered, Unanswered
  <2> QED
    BY <2>1, <2>5
<1>7. ASSUME NEW c \in Lookups, Degrade(c) PROVE Rest /\ Kept
  <2>0. verdicts' \in VerdictRecords
    <3>1. /\ verdicts' = [verdict |-> lookups[c].copy, degraded |-> TRUE,
                         until |-> clock + DegradedTtl]
          /\ lookups[c].copy \in Pairs /\ clock + DegradedTtl \in Nat
      BY <1>7, <1>h DEF Degrade
    <3> QED
      BY <3>1, <1>i
  <2>1. Rest
    BY <1>7, <2>0 DEF Degrade, GateShape, GateTypeOK, breaker, VerdictRecords
  <2>5. Kept
    BY <1>7, LookupEdits DEF Degrade, LookupPlaces, Kinds, Doing, Finish
  <2> QED
    BY <2>1, <2>5
<1>8. ASSUME NEW c \in Lookups, StoreVerdict(c) PROVE Rest /\ Kept
  <2>1. Rest
    BY <1>8, <1>h DEF StoreVerdict, GateShape, GateTypeOK, breaker, Store
  <2>5. Kept
    BY <1>8, LookupEdits DEF StoreVerdict, LookupPlaces, Kinds, Doing, Store
  <2> QED
    BY <2>1, <2>5
<1>9. ASSUME NEW c \in Lookups, FindIdentity(c) PROVE Rest /\ Kept
  <2>1. Rest
    BY <1>9 DEF FindIdentity, GateShape, GateTypeOK, breaker
  <2>5. Kept
    BY <1>9, LookupEdits DEF FindIdentity, LookupPlaces, Kinds, Doing
  <2> QED
    BY <2>1, <2>5
<1>10. ASSUME NEW c \in Lookups, SaveIdentity(c) PROVE Rest /\ Kept
  <2>1. Rest
    BY <1>10, <1>h DEF SaveIdentity, GateShape, GateTypeOK, breaker, Store
  <2>5. Kept
    BY <1>10, LookupEdits DEF SaveIdentity, LookupPlaces, Kinds, Doing, Store
  <2> QED
    BY <2>1, <2>5
<1>11. ASSUME NEW c \in Lookups, CacheVerdict(c) PROVE Rest /\ Kept
  <2>1. Rest
    <3>1. verdicts' \in VerdictRecords
      <4>1. lookups[c].by + VerdictTtl \in Nat
        BY <1>h
      <4> QED
        BY <1>11, <1>h, <1>i, <4>1 DEF CacheVerdict, Cache
    <3>2. sharing' \in Lookups \cup {0} /\ overlap' \in BOOLEAN
      BY <1>11 DEF CacheVerdict, GateShape, GateTypeOK
    <3> QED
      BY <1>11, <3>1, <3>2 DEF CacheVerdict, GateShape, GateTypeOK, breaker,
         VerdictRecords
  <2>5. Kept
    BY <1>11, LookupEdits DEF CacheVerdict, LookupPlaces, Kinds, Finish, Cache
  <2> QED
    BY <2>1, <2>5
<1>12. ASSUME NEW c \in Lookups, OtherEnds(c) PROVE Rest /\ Kept
  <2>1. Rest
    BY <1>12 DEF OtherEnds, GateShape, GateTypeOK, breaker
  <2>5. Kept
    BY <1>12, LookupEdits DEF OtherEnds, LookupPlaces, Kinds, Doing, Finish
  <2> QED
    BY <2>1, <2>5
<1>13. ASSUME NEW c \in Lookups, RecordEventVerdict(c) PROVE Rest /\ Kept
  <2>1. Rest
    BY <1>13, <1>h DEF RecordEventVerdict, GateShape, GateTypeOK, breaker, Store
  <2>2. ASSUME Finish(c) PROVE Kept
    BY <2>2 DEF Finish
  <2>3. ASSUME ~Finish(c) PROVE Kept
    <3>1. lookups' = [lookups EXCEPT ![c].at = "cache", ![c].by = clock] /\ "cache" \in LookupPlaces
      BY <1>13, <2>3 DEF RecordEventVerdict, LookupPlaces
    <3> QED
      BY <3>1, LookupEdits
  <2>5. Kept
    BY <2>2, <2>3
  <2> QED
    BY <2>1, <2>5
<1>14. CASE GuildTurns
  <2>2. turn + 1 \in 0 .. MaxTurns
    BY <1>14 DEF GuildTurns
  <2>1. Rest
    BY <1>14, <2>2 DEF GuildTurns, GateShape, GateTypeOK, breaker
  <2>3. ASSUME UNCHANGED lookups PROVE Kept
    BY <2>3
  <2>4. ASSUME ~UNCHANGED lookups PROVE Kept
    <3> DEFINE news == [Observation(turn) EXCEPT !.member = InGuild(turn + 1), !.turn = turn + 1]
               entry == [NoLookup EXCEPT !.kind = "event", !.at = "update", !.seen = news]
    <3>1. news \in Pairs
      BY <2>2, <1>d DEF Pairs, Observation
    <3>2. PICK c \in Lookups : lookups' = [lookups EXCEPT ![c] = entry]
      BY <1>14, <2>4 DEF GuildTurns, StartLookup
    <3>3. entry \in LookupRecords
      <4> HIDE DEF news
      <4>1. "event" \in Kinds /\ "update" \in LookupPlaces
        BY DEF Kinds, LookupPlaces
      <4> QED
        BY <3>1, <4>1, LookupEdits
    <3> QED
      BY <3>2, <3>3
  <2>5. Kept
    BY <2>3, <2>4
  <2> QED
    BY <2>1, <2>5
<1>15. CASE GateTick
  <2>1. Rest
    BY <1>15 DEF GateTick, GateShape, GateTypeOK, breaker
  <2>5. Kept
    BY <1>15, LookupEdits DEF GateTick, LookupPlaces, Kinds
  <2> QED
    BY <2>1, <2>5
<1>16. CASE GateRestart
  <2>1. Rest
    <3>1. verdicts' \in VerdictRecords /\ sharing' = 0 /\ asked' \in 0 .. concern.lookups
      BY <1>16, <1>i DEF GateRestart, GateShape, GateTypeOK
    <3> QED
      BY <1>16, <3>1 DEF GateRestart, GateShape, GateTypeOK, VerdictRecords
  <2>5. Kept
    BY <1>16, LookupEdits DEF GateRestart, LookupPlaces, Kinds
  <2> QED
    BY <2>1, <2>5
<1>17. CASE ResolveCached \/ UNCHANGED gateVars
  BY <1>17 DEF ResolveCached, gateVars, GateShape, GateTypeOK
<1> QED
  BY <1>1, <1>2, <1>3, <1>4, <1>5, <1>6, <1>7, <1>8, <1>9, <1>10, <1>11, <1>12, <1>13,
     <1>14, <1>15, <1>16, <1>17 DEF GateNext, AskDiscord

\* The breaker lets one lookup try while it is half-open.
LEMMA BreakerStep == GateShape /\ BreakerInv /\ [GateNext]_gateVars => BreakerInv'
<1> SUFFICES ASSUME GateShape, BreakerInv, [GateNext]_gateVars PROVE BreakerInv'
  OBVIOUS
<1>0. /\ Lookups \subseteq Nat /\ clock \in Nat
      /\ openUntil \in Nat /\ turn \in Nat /\ turn > 0 /\ heard \in Nat
      /\ stored.turn \in Nat /\ halfOpen \in BOOLEAN /\ overlap \in BOOLEAN
      /\ Timeout \in Nat /\ BreakerCooldown \in Nat /\ BreakerCooldown > Timeout
      /\ lookups \in [Lookups -> LookupRecords]
      /\ \A c \in Lookups : lookups[c].by \in Nat /\ lookups[c].seen.turn \in Nat
  BY GuildGateAssumption DEF GateShape, GateTypeOK, Pairs, LookupRecords
<1> USE <1>0 DEF LookupRecords, breaker, BreakerInv, AskStages, Trying
<1>1. ASSUME NEW c \in Lookups, Resolve(c) PROVE BreakerInv'
  <2>1. /\ \A d \in Lookups \ {c} : lookups'[d] = lookups[d]
        /\ lookups[c].at = "idle" /\ lookups'[c].at = "read" /\ lookups'[c].seen = Never
    BY <1>1 DEF Resolve, StartLookup, NoLookup
  <2> QED
    BY <1>1, <2>1 DEF Resolve, Never
<1>2. ASSUME NEW c \in Lookups, ReadStored(c) PROVE BreakerInv'
  BY <1>2 DEF ReadStored, Doing
<1>3. ASSUME NEW c \in Lookups, ResolveFresh(c) PROVE BreakerInv'
  <2>1. /\ \A d \in Lookups \ {c} : lookups'[d] = lookups[d]
        /\ lookups[c].at = "idle" /\ lookups'[c].at = "probe" /\ lookups'[c].seen = Never
    BY <1>3 DEF ResolveFresh, StartLookup, NoLookup
  <2> QED
    BY <1>3, <2>1 DEF ResolveFresh, Never
<1>4. ASSUME NEW c \in Lookups, Probe(c) PROVE BreakerInv'
  <2>1. \A d \in Lookups \ {c} : lookups'[d] = lookups[d]
    BY <1>4 DEF Probe, LookupAnswered
  <2>2. CASE ~Allows
    <3>1. lookups'[c].at = "answered"
      BY <1>4, <2>2 DEF Probe, LookupAnswered
    <3> QED
      BY <1>4, <2>1, <2>2, <3>1 DEF Probe
  <2>3. CASE Allows
    <3>1. /\ lookups'[c].at = "ask" /\ lookups'[c].by = clock + Timeout
          /\ lookups'[c].trial <=> openUntil # 0
      BY <1>4, <2>3 DEF Probe
    <3>2. CASE openUntil = 0
      BY <1>4, <2>1, <2>3, <3>1, <3>2 DEF Probe
    <3>3. CASE openUntil # 0
      <4>1. clock >= openUntil /\ ~halfOpen /\ halfOpen'
        BY <1>4, <2>3, <3>3 DEF Probe, Allows
      <4>2. \A d \in Lookups : ~Trying(d)
        BY <4>1
      <4> QED
        BY <1>4, <2>1, <2>3, <3>1, <3>3, <4>1, <4>2 DEF Probe
    <3> QED
      BY <3>2, <3>3
  <2> QED
    BY <2>2, <2>3
<1>5. ASSUME NEW c \in Lookups, AskAnswered(c) PROVE BreakerInv'
  BY <1>5 DEF AskAnswered, LookupAnswered, Blind, Observation
<1>6. ASSUME NEW c \in Lookups, AskFails(c) PROVE BreakerInv'
  BY <1>6 DEF AskFails, LookupAnswered, Unanswered, Never
<1>7. ASSUME NEW c \in Lookups, Degrade(c) PROVE BreakerInv'
  BY <1>7 DEF Degrade, Doing, Finish, NoLookup, Never
<1>8. ASSUME NEW c \in Lookups, StoreVerdict(c) PROVE BreakerInv'
  BY <1>8 DEF StoreVerdict, Doing, Store
<1>9. ASSUME NEW c \in Lookups, FindIdentity(c) PROVE BreakerInv'
  BY <1>9 DEF FindIdentity, Doing
<1>10. ASSUME NEW c \in Lookups, SaveIdentity(c) PROVE BreakerInv'
  BY <1>10 DEF SaveIdentity, Doing, Store
<1>11. ASSUME NEW c \in Lookups, CacheVerdict(c) PROVE BreakerInv'
  BY <1>11 DEF CacheVerdict, Finish, NoVerdict, Cache, NoLookup, Never
<1>12. ASSUME NEW c \in Lookups, OtherEnds(c) PROVE BreakerInv'
  BY <1>12 DEF OtherEnds, Doing, Finish, NoLookup, Never
<1>13. ASSUME NEW c \in Lookups, RecordEventVerdict(c) PROVE BreakerInv'
  BY <1>13 DEF RecordEventVerdict, Doing, Store, Finish, NoLookup, Never
<1>14. CASE GuildTurns
  <2>1. ASSUME UNCHANGED lookups PROVE BreakerInv'
    BY <1>14, <2>1 DEF GuildTurns
  <2>2. ASSUME NEW c \in Lookups,
               /\ \A d \in Lookups \ {c} : lookups'[d] = lookups[d]
               /\ lookups[c].at = "idle" /\ lookups'[c].at = "update" /\ lookups'[c].kind = "event"
               /\ lookups'[c].seen.turn = turn + 1
               /\ (lookups'[c].seen.member <=> InGuild(turn + 1))
        PROVE  BreakerInv'
    BY <1>14, <2>2 DEF GuildTurns
  <2>3. \/ UNCHANGED lookups
        \/ \E c \in Lookups :
             /\ \A d \in Lookups \ {c} : lookups'[d] = lookups[d]
             /\ lookups[c].at = "idle" /\ lookups'[c].at = "update" /\ lookups'[c].kind = "event"
             /\ lookups'[c].seen.turn = turn + 1
             /\ (lookups'[c].seen.member <=> InGuild(turn + 1))
    <3>1. CASE UNCHANGED lookups
      BY <3>1
    <3>2. CASE ~UNCHANGED lookups
      <4>1. PICK c \in Lookups :
              StartLookup(c, [NoLookup EXCEPT !.kind = "event", !.at = "update",
                        !.seen = [Observation(turn) EXCEPT !.member = InGuild(turn + 1),
                                                           !.turn = turn + 1]])
        BY <1>14, <3>2 DEF GuildTurns
      <4>2. lookups[c].at = "idle" /\ \A d \in Lookups \ {c} : lookups'[d] = lookups[d]
        BY <4>1 DEF StartLookup
      <4>3. /\ lookups'[c].at = "update" /\ lookups'[c].kind = "event"
            /\ lookups'[c].seen.turn = turn + 1
            /\ (lookups'[c].seen.member <=> InGuild(turn + 1))
        BY <4>1 DEF StartLookup, NoLookup, Observation
      <4> QED
        BY <4>2, <4>3
    <3> QED
      BY <3>1, <3>2
  <2> QED
    BY <2>1, <2>2, <2>3
<1>15. CASE GateTick
  BY <1>15 DEF GateTick
<1>16. CASE GateRestart
  BY <1>16 DEF GateRestart, NoLookup, NoVerdict, Never
<1>17. CASE ResolveCached \/ UNCHANGED gateVars
  BY <1>17 DEF ResolveCached, gateVars
<1> QED
  BY <1>1, <1>2, <1>3, <1>4, <1>5, <1>6, <1>7, <1>8, <1>9, <1>10, <1>11, <1>12, <1>13,
     <1>14, <1>15, <1>16, <1>17 DEF GateNext, AskDiscord


\* What is stored and cached tells what the guild was.
LEMMA VerdictStep == GateShape /\ VerdictInv /\ [GateNext]_gateVars => VerdictInv'
<1> SUFFICES ASSUME GateShape, VerdictInv, [GateNext]_gateVars PROVE VerdictInv'
  OBVIOUS
<1>0. /\ Lookups \subseteq Nat /\ clock \in Nat
      /\ openUntil \in Nat /\ turn \in Nat /\ turn > 0 /\ heard \in Nat
      /\ stored.turn \in Nat /\ halfOpen \in BOOLEAN /\ overlap \in BOOLEAN
      /\ Timeout \in Nat /\ BreakerCooldown \in Nat /\ BreakerCooldown > Timeout
      /\ lookups \in [Lookups -> LookupRecords]
      /\ \A c \in Lookups : lookups[c].by \in Nat /\ lookups[c].seen.turn \in Nat
  BY GuildGateAssumption DEF GateShape, GateTypeOK, Pairs, LookupRecords
<1> USE <1>0 DEF LookupRecords, breaker, VerdictInv, Honest, InGuild, Writers
<1>1. ASSUME NEW c \in Lookups, Resolve(c) PROVE VerdictInv'
  <2>1. /\ \A d \in Lookups \ {c} : lookups'[d] = lookups[d]
        /\ lookups[c].at = "idle" /\ lookups'[c].at = "read" /\ lookups'[c].seen = Never
    BY <1>1 DEF Resolve, StartLookup, NoLookup
  <2> QED
    BY <1>1, <2>1 DEF Resolve, Never
<1>2. ASSUME NEW c \in Lookups, ReadStored(c) PROVE VerdictInv'
  BY <1>2 DEF ReadStored, Doing
<1>3. ASSUME NEW c \in Lookups, ResolveFresh(c) PROVE VerdictInv'
  <2>1. /\ \A d \in Lookups \ {c} : lookups'[d] = lookups[d]
        /\ lookups[c].at = "idle" /\ lookups'[c].at = "probe" /\ lookups'[c].seen = Never
    BY <1>3 DEF ResolveFresh, StartLookup, NoLookup
  <2> QED
    BY <1>3, <2>1 DEF ResolveFresh, Never
<1>4. ASSUME NEW c \in Lookups, Probe(c) PROVE VerdictInv'
  BY <1>4 DEF Probe, LookupAnswered, Never
<1>5. ASSUME NEW c \in Lookups, AskAnswered(c) PROVE VerdictInv'
  BY <1>5 DEF AskAnswered, LookupAnswered, Blind, Observation
<1>6. ASSUME NEW c \in Lookups, AskFails(c) PROVE VerdictInv'
  BY <1>6 DEF AskFails, LookupAnswered, Unanswered, Never
<1>7. ASSUME NEW c \in Lookups, Degrade(c) PROVE VerdictInv'
  BY <1>7 DEF Degrade, Doing, Finish, NoLookup, Never
<1>8. ASSUME NEW c \in Lookups, StoreVerdict(c) PROVE VerdictInv'
  BY <1>8 DEF StoreVerdict, Doing, Store, OtherLookups
<1>9. ASSUME NEW c \in Lookups, FindIdentity(c) PROVE VerdictInv'
  BY <1>9 DEF FindIdentity, Doing
<1>10. ASSUME NEW c \in Lookups, SaveIdentity(c) PROVE VerdictInv'
  BY <1>10 DEF SaveIdentity, Doing, Store, OtherLookups
<1>11. ASSUME NEW c \in Lookups, CacheVerdict(c) PROVE VerdictInv'
  BY <1>11 DEF CacheVerdict, Finish, NoVerdict, Cache, NoLookup, Never, OtherLookups
<1>12. ASSUME NEW c \in Lookups, OtherEnds(c) PROVE VerdictInv'
  BY <1>12 DEF OtherEnds, Doing, Finish, NoLookup, Never
<1>13. ASSUME NEW c \in Lookups, RecordEventVerdict(c) PROVE VerdictInv'
  <2>1. CASE Finish(c)
    BY <1>13, <2>1 DEF RecordEventVerdict, Doing, Store, Finish, NoLookup, Never,
       OtherLookups
  <2>2. CASE ~Finish(c)
    <3>1. /\ \A d \in Lookups \ {c} : lookups'[d] = lookups[d]
          /\ lookups'[c].at = "cache" /\ lookups'[c].seen = lookups[c].seen
          /\ lookups'[c].kind = "event"
          /\ stored' = lookups[c].seen /\ heard' = lookups[c].seen.turn
          /\ lookups[c].at = "update" /\ lookups[c].kind = "event"
          /\ overlap' = (overlap \/ OtherLookups(c) # {})
          /\ UNCHANGED <<turn, verdicts, firstIn>>
      BY <1>13, <2>2 DEF RecordEventVerdict, Doing, Store
    <3>2. heard' <= turn
      BY <3>1
    <3>3. ~overlap' => \A d \in Lookups \ {c} : lookups[d].kind \notin Writers
      BY <3>1 DEF OtherLookups
    <3>4. CASE overlap'
      BY <3>1, <3>2, <3>4
    <3>5. CASE ~overlap'
      BY <3>1, <3>2, <3>3, <3>5
    <3> QED
      BY <3>4, <3>5
  <2> QED
    BY <2>1, <2>2
<1>14. CASE GuildTurns
  <2>1. ASSUME UNCHANGED lookups PROVE VerdictInv'
    BY <1>14, <2>1 DEF GuildTurns
  <2>2. ASSUME NEW c \in Lookups,
               /\ \A d \in Lookups \ {c} : lookups'[d] = lookups[d]
               /\ lookups[c].at = "idle" /\ lookups'[c].at = "update" /\ lookups'[c].kind = "event"
               /\ lookups'[c].seen.turn = turn + 1
               /\ (lookups'[c].seen.member <=> InGuild(turn + 1))
        PROVE  VerdictInv'
    BY <1>14, <2>2 DEF GuildTurns
  <2>3. \/ UNCHANGED lookups
        \/ \E c \in Lookups :
             /\ \A d \in Lookups \ {c} : lookups'[d] = lookups[d]
             /\ lookups[c].at = "idle" /\ lookups'[c].at = "update" /\ lookups'[c].kind = "event"
             /\ lookups'[c].seen.turn = turn + 1
             /\ (lookups'[c].seen.member <=> InGuild(turn + 1))
    <3>1. CASE UNCHANGED lookups
      BY <3>1
    <3>2. CASE ~UNCHANGED lookups
      <4>1. PICK c \in Lookups :
              StartLookup(c, [NoLookup EXCEPT !.kind = "event", !.at = "update",
                        !.seen = [Observation(turn) EXCEPT !.member = InGuild(turn + 1),
                                                           !.turn = turn + 1]])
        BY <1>14, <3>2 DEF GuildTurns
      <4>2. lookups[c].at = "idle" /\ \A d \in Lookups \ {c} : lookups'[d] = lookups[d]
        BY <4>1 DEF StartLookup
      <4>3. /\ lookups'[c].at = "update" /\ lookups'[c].kind = "event"
            /\ lookups'[c].seen.turn = turn + 1
            /\ (lookups'[c].seen.member <=> InGuild(turn + 1))
        BY <4>1 DEF StartLookup, NoLookup, Observation
      <4> QED
        BY <4>2, <4>3
    <3> QED
      BY <3>1, <3>2
  <2> QED
    BY <2>1, <2>2, <2>3
<1>15. CASE GateTick
  BY <1>15 DEF GateTick
<1>16. CASE GateRestart
  BY <1>16 DEF GateRestart, NoLookup, NoVerdict, Never
<1>17. CASE ResolveCached \/ UNCHANGED gateVars
  <2>1. UNCHANGED <<lookups, stored, turn, firstIn, verdicts, overlap, heard>>
    BY <1>17 DEF ResolveCached, gateVars
  <2> QED
    BY <2>1
<1> QED
  BY <1>1, <1>2, <1>3, <1>4, <1>5, <1>6, <1>7, <1>8, <1>9, <1>10, <1>11, <1>12, <1>13,
     <1>14, <1>15, <1>16, <1>17 DEF GateNext, AskDiscord

\* A behaviour of the gate begins well.
LEMMA GateBegins == GateInit => GateShape /\ BreakerInv /\ VerdictInv
<1> SUFFICES ASSUME GateInit PROVE GateShape /\ BreakerInv /\ VerdictInv
  OBVIOUS
<1>1. /\ MaxTurns \in Nat /\ 1 \in 0 .. MaxTurns /\ 1 \in 1 .. MaxTurns /\ 0 \in 0 .. MaxTurns
      /\ concern \in Concerns /\ concern.time \in Nat /\ concern.lookups \in Nat
      /\ 0 \in 0 .. concern.time /\ 0 \in 0 .. concern.lookups
  BY GuildGateAssumption DEF GateInit
<1>2. /\ Never \in Pairs /\ Observation(1) \in Pairs
      /\ Never.turn = 0 /\ Observation(1).turn = 1 /\ (Observation(1).member <=> InGuild(1))
  BY <1>1 DEF Never, Observation, Pairs, InGuild, GateInit
<1>3. NoLookup \in LookupRecords /\ NoVerdict \in VerdictRecords
  BY <1>2 DEF NoLookup, NoVerdict, LookupRecords, LookupPlaces, VerdictRecords
<1>4. lookups \in [Lookups -> LookupRecords]
  BY <1>3 DEF GateInit
<1>5. GateShape
  <2>1. stored \in Pairs /\ verdicts \in VerdictRecords
    BY <1>2, <1>3 DEF GateInit
  <2> QED
    BY <1>1, <1>4, <2>1 DEF GateInit, GateShape, GateTypeOK, VerdictRecords
<1>6. \A c \in Lookups : lookups[c].at = "idle" /\ lookups[c].seen = Never
  BY DEF GateInit, NoLookup
<1>7. BreakerInv
  BY <1>6 DEF BreakerInv, AskStages, Trying, GateInit
<1>8. VerdictInv
  BY <1>2, <1>6 DEF VerdictInv, Honest, GateInit, NoVerdict
<1> QED
  BY <1>5, <1>7, <1>8

\* What the invariants say of the property.
LEMMA GateHolds == GateShape /\ BreakerInv /\ VerdictInv => OutageIsHarmless
<1> SUFFICES ASSUME GateShape, BreakerInv, VerdictInv PROVE OutageIsHarmless
  OBVIOUS
<1>1. OutageShutsNobodyOut
  <2>1. stored.member \in BOOLEAN /\ stored.blind \in BOOLEAN /\ stored.turn \in Nat
    BY DEF GateShape, GateTypeOK, Pairs
  <2>2. verdicts.degraded \in BOOLEAN
    BY DEF GateShape, GateTypeOK
  <2> QED
    BY <2>1, <2>2 DEF OutageShutsNobodyOut, VerdictInv, GatedOut, Honest, Quiet
<1>2. BreakerTriesOne
  <2> DEFINE trials == {c \in Lookups : lookups[c].at = "ask" /\ lookups[c].trial}
  <2>1. halfOpen <=> trials # {}
    BY DEF BreakerInv, AskStages, Trying, GateShape, GateTypeOK
  <2>2. trials = {} \/ \E c \in Lookups : trials = {c}
    BY DEF BreakerInv, AskStages, Trying
  <2>3. Cardinality(trials) <= 1
    <3> HIDE DEF trials
    <3>1. CASE trials = {}
      BY <3>1, FS_EmptySet
    <3>2. ASSUME NEW c \in Lookups, trials = {c} PROVE Cardinality(trials) <= 1
      BY <3>2, FS_Singleton
    <3> QED
      BY <2>2, <3>1, <3>2
  <2> QED
    BY <2>1, <2>3 DEF BreakerTriesOne
<1> QED
  BY <1>1, <1>2 DEF OutageIsHarmless

\* A guild or a gateway that does not answer shuts nobody out, and the breaker tries
\* the gateway with one lookup at a time (GuildMembershipService).
THEOREM OutageHarmless == GateSpec => [](GateTypeOK /\ OutageIsHarmless)
<1>1. GateShape => GateTypeOK
  BY DEF GateShape
<1> QED
  BY GateBegins, GateShapeStep, BreakerStep, VerdictStep, GateHolds, <1>1, PTL
     DEF GateSpec
(***************************************************************************)
(* The chain of command (Command).                                         *)
(***************************************************************************)

\* What a request has read, and may therefore do.
OrderInv(w) ==
    LET order == warrants[w]
    IN /\ order.at = "load" =>
            /\ order.action \in MemberAdminActions
            /\ Backed(order.role, hands \cup {order.by})
       /\ order.at \in {"load", "save"} /\ ~order.moved =>
            order.role = seats[order.by].role
       /\ order.at = "save" =>
            /\ order.action \in MemberAdminActions
            /\ Backed(order.copy.role, hands \cup {order.of})
            /\ order.copy.role = "owner" <=> order.of = Chief
            /\ order.of = Chief => /\ order.copy = InOffice("owner")
                                   /\ order.action \notin Moderations
            /\ order.action \in Moderations => Outranks(order.role, order.copy.role)
            /\ order.action = "changeRole" =>
                 order.gives \in Seats \ {"owner"} /\ Backed(order.gives, hands)

CommandInv ==
    /\ CommandTypeOK
    /\ CommandStands
    /\ \A m \in Comrades : Backed(contexts[m].role, hands \cup {m})
    /\ \A w \in Warrants : OrderInv(w)

LEMMA HeightInt == ASSUME NEW r \in Seats PROVE Height[r] \in Int
  BY DEF Height, Seats

LEMMA OwnerSeat == "owner" \in Seats
  BY DEF Height, Seats

LEMMA OfficeRow == ASSUME NEW r \in Seats PROVE InOffice(r) \in Row
  BY DEF InOffice, Row

\* What has been backed stays so as more of them use their power.
LEMMA BackedGrows ==
  ASSUME NEW r, NEW A, NEW B, A \subseteq B, Backed(r, A)
  PROVE  Backed(r, B)
  BY DEF Backed

LEMMA SelfBacked ==
  ASSUME NEW m \in Comrades, first \in [Comrades -> Seats], NEW S, m \in S
  PROVE  Backed(first[m], S)
  BY HeightInt DEF Backed

\* Nobody is worse off who stays as he is.
LEMMA SameIsNoLoss ==
  ASSUME NEW row \in Row
  PROVE  ~Loses(row, row)
  BY HeightInt DEF Loses, Outranks, Row

LEMMA ChangedRow ==
  ASSUME NEW row \in Row, NEW action, NEW gives,
         action = "changeRole" => gives \in Seats
  PROVE  Rewritten(row, action, gives) \in Row
  BY DEF Rewritten, Row

\* A change of rank writes the row as it was loaded.
LEMMA RankLeavesRow ==
  ASSUME NEW row \in Row, NEW gives
  PROVE  Rewritten(row, "changeRank", gives) = row
  BY DEF Rewritten, Row

LEMMA NoWarrantType ==
  ASSUME CommandAssumption
  PROVE  /\ NoWarrant.at = "idle"
         /\ NoWarrant \in WarrantRecord
  BY OwnerSeat, OfficeRow DEF NoWarrant, WarrantRecord, CommandAssumption

LEMMA InitHolds == CommandInit => CommandInv
  <1> SUFFICES ASSUME CommandInit PROVE CommandInv
    OBVIOUS
  <1> USE CommandAssumption
  <1>1. first \in [Comrades -> Seats] /\ \A m \in Comrades : first[m] = "owner" <=> m = Chief
    BY DEF CommandInit, CommandAssumption
  <1>2. \A m \in Comrades : seats[m] = InOffice(first[m]) /\ seats[m].role = first[m]
    BY <1>1 DEF CommandInit, InOffice
  <1>3. seats \in [Comrades -> Row]
    BY <1>1, OfficeRow DEF CommandInit
  <1>4. CommandTypeOK
    <2>1. issued \in 0 .. MaxWarrants
      BY DEF CommandInit, CommandAssumption
    <2> QED
      BY <1>1, <1>3, <2>1, NoWarrantType DEF CommandInit, CommandTypeOK
  <1>5. \A m \in Comrades : Backed(seats[m].role, hands \cup {m})
    BY <1>1, <1>2, SelfBacked
  <1>6. CommandStands
    BY <1>1, <1>2, <1>5 DEF CommandStands, NoEscalation, OwnerStands, NeverHollowed,
       CommandInit, CommandAssumption
  <1>7. \A m \in Comrades : Backed(contexts[m].role, hands \cup {m})
    BY <1>5 DEF CommandInit
  <1>8. \A w \in Warrants : OrderInv(w)
    BY NoWarrantType DEF CommandInit, OrderInv
  <1> QED
    BY <1>4, <1>6, <1>7, <1>8 DEF CommandInv

LEMMA OrderHolds ==
  ASSUME CommandInv, NEW w \in Warrants, NEW by \in Comrades, NEW target \in Comrades,
         NEW action \in Asked, GiveOrder(w, by, target, action)
  PROVE  CommandInv'
  <1> USE CommandAssumption
  <1> DEFINE order == [NoWarrant EXCEPT !.at = "load", !.by = by, !.role = contexts[by].role,
                         !.of = target, !.action = action, !.moved = IF contexts[by] = seats[by] THEN FALSE ELSE TRUE]
  <1>0. /\ warrants' = [warrants EXCEPT ![w] = order]
        /\ UNCHANGED <<seats, contexts, first, hands, hollowed>>
        /\ issued < MaxWarrants /\ issued' = issued + 1
    BY DEF GiveOrder
  <1>1. action \in MemberAdminActions /\ contexts[by] \in Row
    BY DEF CommandAssumption, CommandInv, CommandTypeOK
  <1>2. /\ order.at = "load" /\ order.by = by /\ order.role = contexts[by].role
        /\ order.action = action /\ (~order.moved => contexts[by] = seats[by])
    BY DEF NoWarrant
  <1>3. CommandTypeOK'
    <2>1. contexts[by].role \in Seats
      BY <1>1 DEF Row
    <2>2. order \in WarrantRecord
      BY <1>1, <2>1, NoWarrantType DEF WarrantRecord
    <2>3. issued' \in 0 .. MaxWarrants
      BY <1>0 DEF CommandInv, CommandTypeOK, CommandAssumption
    <2> QED
      BY <1>0, <2>2, <2>3 DEF CommandInv, CommandTypeOK
  <1>4. warrants'[w] = order
    BY <1>0 DEF CommandInv, CommandTypeOK
  <1>5. OrderInv(w)'
    BY <1>0, <1>1, <1>2, <1>4 DEF OrderInv, CommandInv, Backed
  <1>6. ASSUME NEW v \in Warrants, v # w PROVE OrderInv(v)'
    BY <1>0, <1>6 DEF OrderInv, CommandInv, CommandTypeOK, Backed
  <1> QED
    BY <1>0, <1>3, <1>5, <1>6 DEF CommandInv, CommandStands, NoEscalation, OwnerStands,
       NeverHollowed, Backed

LEMMA AcceptHolds ==
  ASSUME CommandInv, NEW w \in Warrants, NEW gives \in Seats, Accept(w, gives)
  PROVE  CommandInv'
  <1> USE CommandAssumption
  <1> DEFINE order == warrants[w]
  <1> DEFINE row == seats[order.of]
  <1> DEFINE new == [order EXCEPT !.at = "save", !.gives = gives, !.copy = row]
  <1>0. /\ order.at = "load"
        /\ warrants' = [warrants EXCEPT ![w] = new]
        /\ UNCHANGED <<seats, contexts, issued, first, hollowed>>
        /\ hands' = IF order.action = "changeRole" THEN hands \cup {order.by} ELSE hands
        /\ CanActOn(order.by, order.role, order.of, row, order.action)
        /\ order.action = "changeRole" => CanGrantRole(order.role, gives)
    BY DEF Accept, PermittedActions, Accepts
  <1>1. /\ order.by \in Comrades /\ order.of \in Comrades /\ order.role \in Seats
        /\ row \in Row /\ order.action \in MemberAdminActions
        /\ Backed(order.role, hands \cup {order.by})
        /\ ~order.moved => order.role = seats[order.by].role
    BY <1>0 DEF CommandInv, CommandTypeOK, OrderInv, WarrantRecord
  <1>2. hands \subseteq hands' /\ hands' \subseteq Comrades
    BY <1>0, <1>1 DEF CommandInv, CommandTypeOK
  <1>3. CommandTypeOK'
    <2>1. order \in WarrantRecord
      BY DEF CommandInv, CommandTypeOK
    <2>2. new \in WarrantRecord
      BY <1>1, <2>1 DEF WarrantRecord
    <2> QED
      BY <1>0, <1>2, <2>2 DEF CommandInv, CommandTypeOK
  <1>4. /\ warrants'[w].at = "save" /\ warrants'[w].gives = gives /\ warrants'[w].copy = row
        /\ warrants'[w].of = order.of /\ warrants'[w].by = order.by
        /\ warrants'[w].role = order.role /\ warrants'[w].action = order.action
        /\ warrants'[w].moved = order.moved
    <2>1. order \in WarrantRecord /\ warrants'[w] = new
      BY <1>0 DEF CommandInv, CommandTypeOK
    <2> QED
      BY <2>1 DEF WarrantRecord
  <1>5. ASSUME NEW r, NEW S, Backed(r, S) PROVE Backed(r, S)'
    BY <1>0, <1>5 DEF Backed
  <1>6. \A r, m : Backed(r, hands \cup {m}) => Backed(r, hands \cup {m})'
    BY <1>0, <1>2 DEF Backed
  <1>7. \A r : Backed(r, hands) => Backed(r, hands)'
    BY <1>0, <1>2 DEF Backed
  <1>8. /\ Backed(row.role, hands \cup {order.of})
        /\ row.role = "owner" <=> order.of = Chief
        /\ order.of = Chief => row = InOffice("owner")
    BY <1>1 DEF CommandInv, CommandStands, NoEscalation, OwnerStands
  <1>9. order.action \in Moderations => order.of # Chief /\ Outranks(order.role, row.role)
    <2>1. Decorations \cap Moderations = {}
      BY DEF Decorations, Moderations
    <2> QED
      BY <1>0, <2>1 DEF CanActOn
  <1>10. order.action = "changeRole" => gives \in Seats \ {"owner"} /\ Backed(gives, hands)'
    <2> SUFFICES ASSUME order.action = "changeRole"
                 PROVE  gives \in Seats \ {"owner"} /\ Backed(gives, hands)'
      OBVIOUS
    <2>1. gives # "owner" /\ Height[gives] <= Height[order.role]
      BY <1>0 DEF CanGrantRole
    <2>2. PICK a \in hands \cup {order.by} : Height[first[a]] >= Height[order.role]
      BY <1>1 DEF Backed
    <2>3. a \in Comrades /\ first[a] \in Seats
      BY <1>1 DEF CommandInv, CommandTypeOK
    <2>4. Height[first[a]] \in Int /\ Height[order.role] \in Int /\ Height[gives] \in Int
      BY <1>1, <2>3, HeightInt
    <2>5. Height[first[a]] >= Height[gives]
      BY <2>1, <2>2, <2>4
    <2>6. a \in hands'
      BY <1>0
    <2> QED
      BY <1>0, <2>1, <2>5, <2>6 DEF Backed
  <1>11. OrderInv(w)'
    BY <1>0, <1>1, <1>4, <1>6, <1>8, <1>9, <1>10 DEF OrderInv
  <1>12. ASSUME NEW v \in Warrants, v # w PROVE OrderInv(v)'
    <2>1. warrants'[v] = warrants[v] /\ OrderInv(v)
      BY <1>0, <1>12 DEF CommandInv, CommandTypeOK
    <2> QED
      BY <1>0, <2>1, <1>6, <1>7 DEF OrderInv
  <1> QED
    BY <1>0, <1>3, <1>6, <1>11, <1>12 DEF CommandInv, CommandStands, NoEscalation,
       OwnerStands, NeverHollowed

LEMMA RefuseHolds ==
  ASSUME CommandInv, NEW w \in Warrants, Refuse(w)
  PROVE  CommandInv'
  <1> USE CommandAssumption
  <1>0. /\ warrants' = [warrants EXCEPT ![w] = NoWarrant]
        /\ UNCHANGED <<seats, contexts, issued, first, hands, hollowed>>
    BY DEF Refuse
  <1>1. CommandTypeOK'
    BY <1>0, NoWarrantType DEF CommandInv, CommandTypeOK
  <1>2. ASSUME NEW v \in Warrants PROVE OrderInv(v)'
    <2>1. CASE v = w
      <3>1. warrants'[v].at = "idle"
        BY <1>0, <2>1, NoWarrantType DEF CommandInv, CommandTypeOK
      <3> QED
        BY <3>1 DEF OrderInv
    <2>2. CASE v # w
      <3>1. warrants'[v] = warrants[v] /\ OrderInv(v)
        BY <1>0, <2>2 DEF CommandInv, CommandTypeOK
      <3> QED
        BY <1>0, <3>1 DEF OrderInv, Backed
    <2> QED
      BY <2>1, <2>2
  <1> QED
    BY <1>0, <1>1, <1>2 DEF CommandInv, CommandStands, NoEscalation, OwnerStands,
       NeverHollowed, Backed

LEMMA SaveHolds ==
  ASSUME CommandInv, NEW w \in Warrants, SaveOrder(w)
  PROVE  CommandInv'
  <1> USE CommandAssumption
  <1> DEFINE order == warrants[w]
  <1> DEFINE m == order.of
  <1> DEFINE old == seats[m]
  <1> DEFINE new == IF order.action \in Moderations \cup {"changeRank"}
                      THEN Rewritten(order.copy, order.action, order.gives) ELSE old
  <1> DEFINE next(v) ==
        IF v # w THEN [warrants[v] EXCEPT !.moved = @ \/ (warrants[v].by = m /\ new # old)]
        ELSE IF order.action \in {"changeRole", "suspend", "ban"}
               THEN [order EXCEPT !.at = "drop"] ELSE NoWarrant
  <1>0. /\ order.at = "save"
        /\ seats' = [seats EXCEPT ![m] = new]
        /\ hollowed' = (hollowed \/ /\ Loses(old, new)
                                    /\ ~order.moved /\ order.copy = old
                                    /\ ~Outranks(seats[order.by].role, old.role))
        /\ warrants' = [v \in Warrants |-> next(v)]
        /\ UNCHANGED <<contexts, issued, first, hands>>
    BY DEF SaveOrder
  <1>1. /\ order.by \in Comrades /\ m \in Comrades /\ order.role \in Seats
        /\ order.copy \in Row /\ old \in Row /\ order.moved \in BOOLEAN
    BY DEF CommandInv, CommandTypeOK, WarrantRecord
  <1>2. OrderInv(w)
    BY DEF CommandInv
  <1>3. Decorations \cap Moderations = {} /\ "changeRank" \in Decorations
        /\ "changeRole" \in Moderations
    BY DEF Decorations, Moderations
  <1>4. new \in Row
    BY <1>0, <1>1, <1>2, ChangedRow DEF OrderInv
  <1>5. Backed(new.role, hands \cup {m})
    <2>1. CASE order.action = "changeRole"
      <3>1. new.role = order.gives
        BY <1>3, <2>1 DEF Rewritten
      <3> QED
        BY <1>0, <1>2, <2>1, <3>1, BackedGrows DEF OrderInv
    <2>2. CASE order.action \in Moderations \cup {"changeRank"} /\ order.action # "changeRole"
      <3>1. new.role = order.copy.role
        BY <2>2 DEF Rewritten
      <3> QED
        BY <1>0, <1>2, <3>1 DEF OrderInv
    <2>3. CASE order.action \notin Moderations \cup {"changeRank"}
      BY <1>1, <2>3 DEF CommandInv, CommandStands, NoEscalation
    <2> QED
      BY <1>3, <2>1, <2>2, <2>3
  <1>6. new.role = "owner" <=> m = Chief
    <2>1. CASE order.action = "changeRole"
      <3>1. new.role = order.gives /\ order.gives # "owner"
        BY <1>0, <1>2, <1>3, <2>1 DEF Rewritten, OrderInv
      <3> QED
        BY <1>0, <1>2, <1>3, <2>1, <3>1 DEF OrderInv
    <2>2. CASE order.action \in Moderations \cup {"changeRank"} /\ order.action # "changeRole"
      <3>1. new.role = order.copy.role
        BY <2>2 DEF Rewritten
      <3> QED
        BY <1>0, <1>2, <3>1 DEF OrderInv
    <2>3. CASE order.action \notin Moderations \cup {"changeRank"}
      BY <1>1, <2>3 DEF CommandInv, CommandStands, NoEscalation
    <2> QED
      BY <1>3, <2>1, <2>2, <2>3
  <1>7. m = Chief => new = InOffice("owner")
    <2> SUFFICES ASSUME m = Chief PROVE new = InOffice("owner")
      OBVIOUS
    <2>1. order.copy = InOffice("owner") /\ order.action \notin Moderations
      BY <1>0, <1>2 DEF OrderInv
    <2>2. CASE order.action = "changeRank"
      <3>1. new = Rewritten(order.copy, "changeRank", order.gives)
        BY <2>2
      <3> QED
        BY <1>1, <2>1, <3>1, RankLeavesRow
    <2>3. CASE order.action # "changeRank"
      BY <2>1, <2>3 DEF CommandInv, CommandStands, OwnerStands
    <2> QED
      BY <2>2, <2>3
  <1>8. ~( /\ Loses(old, new) /\ ~order.moved /\ order.copy = old
           /\ ~Outranks(seats[order.by].role, old.role) )
    <2> SUFFICES ASSUME Loses(old, new), ~order.moved, order.copy = old,
                        ~Outranks(seats[order.by].role, old.role)
                 PROVE  FALSE
      OBVIOUS
    <2>1. CASE order.action \in Moderations
      <3>1. Outranks(order.role, old.role) /\ order.role = seats[order.by].role
        BY <1>0, <1>2, <2>1 DEF OrderInv
      <3> QED
        BY <3>1
    <2>2. CASE order.action = "changeRank"
      <3>1. new = old
        BY <1>1, <2>2, RankLeavesRow
      <3> QED
        BY <1>1, <3>1, SameIsNoLoss
    <2>3. CASE order.action \notin Moderations \cup {"changeRank"}
      BY <1>1, <2>3, SameIsNoLoss
    <2> QED
      BY <2>1, <2>2, <2>3
  <1>9. /\ seats' \in [Comrades -> Row]
        /\ \A c \in Comrades : seats'[c] = IF c = m THEN new ELSE seats[c]
    BY <1>0, <1>1, <1>4 DEF CommandInv, CommandTypeOK
  <1>10. ASSUME NEW v \in Warrants
         PROVE  /\ next(v) \in WarrantRecord /\ warrants'[v] = next(v)
                /\ v = w => next(v).at \in {"drop", "idle"}
                /\ v # w => /\ next(v).at = warrants[v].at /\ next(v).by = warrants[v].by
                            /\ next(v).role = warrants[v].role
                            /\ next(v).of = warrants[v].of
                            /\ next(v).action = warrants[v].action
                            /\ next(v).gives = warrants[v].gives
                            /\ next(v).copy = warrants[v].copy
                            /\ ~next(v).moved =>
                                 ~warrants[v].moved /\ ~(warrants[v].by = m /\ new # old)
    <2>1. warrants[v] \in WarrantRecord /\ warrants[w] \in WarrantRecord
      BY DEF CommandInv, CommandTypeOK
    <2>2. CASE v # w
      <3>1. next(v) = [warrants[v] EXCEPT !.moved = @ \/ (warrants[v].by = m /\ new # old)]
        BY <2>2
      <3> HIDE DEF new
      <3> QED
        BY <1>0, <2>1, <2>2, <3>1, Zenon DEF WarrantRecord
    <2>3. CASE v = w
      BY <1>0, <2>1, <2>3, NoWarrantType DEF WarrantRecord
    <2> QED
      BY <2>2, <2>3
  <1>11. CommandTypeOK'
    <2>1. warrants' \in [Warrants -> WarrantRecord]
      BY <1>0, <1>10
    <2>2. hollowed' \in BOOLEAN
      BY <1>0, <1>8 DEF CommandInv, CommandTypeOK
    <2> QED
      BY <1>0, <1>9, <2>1, <2>2 DEF CommandInv, CommandTypeOK
  <1>12. CommandStands'
    <2>1. NoEscalation'
      BY <1>0, <1>5, <1>6, <1>9 DEF CommandInv, CommandStands, NoEscalation, Backed
    <2>2. OwnerStands'
      BY <1>7, <1>9 DEF CommandInv, CommandStands, OwnerStands, CommandAssumption
    <2>3. NeverHollowed'
      BY <1>0, <1>8 DEF CommandInv, CommandStands, NeverHollowed
    <2> QED
      BY <2>1, <2>2, <2>3 DEF CommandStands
  <1>13. ASSUME NEW v \in Warrants PROVE OrderInv(v)'
    <2>1. CASE v = w
      BY <1>10, <2>1 DEF OrderInv
    <2>2. CASE v # w
      <3>1. OrderInv(v) /\ warrants[v].by \in Comrades
        BY DEF CommandInv, CommandTypeOK, WarrantRecord
      <3>2. /\ warrants'[v].at = warrants[v].at /\ warrants'[v].by = warrants[v].by
            /\ warrants'[v].role = warrants[v].role /\ warrants'[v].of = warrants[v].of
            /\ warrants'[v].action = warrants[v].action
            /\ warrants'[v].gives = warrants[v].gives
            /\ warrants'[v].copy = warrants[v].copy
            /\ ~warrants'[v].moved =>
                 ~warrants[v].moved /\ ~(warrants[v].by = m /\ new # old)
        BY <1>10, <2>2
      <3>3. ~warrants'[v].moved => seats'[warrants[v].by] = seats[warrants[v].by]
        BY <1>9, <3>1, <3>2
      <3> HIDE DEF new
      <3> QED
        BY <1>0, <3>1, <3>2, <3>3 DEF OrderInv, Backed
    <2> QED
      BY <2>1, <2>2
  <1> QED
    BY <1>0, <1>11, <1>12, <1>13 DEF CommandInv, Backed

\* A session that is resolved has the row of its member.
LEMMA Resolved ==
  ASSUME CommandInv, NEW m \in Comrades, CommandTypeOK',
         contexts' = [contexts EXCEPT ![m] = seats[m]],
         UNCHANGED <<seats, issued, first, hands, hollowed>>,
         \A w \in Warrants : warrants'[w] = warrants[w] \/ warrants'[w].at = "idle"
  PROVE  CommandInv'
  <1>1. \A c \in Comrades : contexts'[c] = IF c = m THEN seats[m] ELSE contexts[c]
    BY DEF CommandInv, CommandTypeOK
  <1>2. \A c \in Comrades : Backed(contexts[c].role, hands \cup {c})'
    BY <1>1 DEF CommandInv, CommandStands, NoEscalation, Backed
  <1>3. ASSUME NEW w \in Warrants PROVE OrderInv(w)'
    <2>1. OrderInv(w)
      BY DEF CommandInv
    <2>2. CASE warrants'[w] = warrants[w]
      BY <2>1, <2>2 DEF OrderInv, Backed
    <2>3. CASE warrants'[w].at = "idle"
      BY <2>3 DEF OrderInv
    <2> QED
      BY <2>2, <2>3
  <1> QED
    BY <1>2, <1>3 DEF CommandInv, CommandStands, NoEscalation, OwnerStands, NeverHollowed,
       Backed

LEMMA StepHolds == CommandInv /\ [CommandNext]_commandVars => CommandInv'
  <1> SUFFICES ASSUME CommandInv, [CommandNext]_commandVars PROVE CommandInv'
    OBVIOUS
  <1> USE CommandAssumption
  <1>1. ASSUME NEW w \in Warrants, NEW by \in Comrades, NEW target \in Comrades,
               NEW action \in Asked, GiveOrder(w, by, target, action)
        PROVE  CommandInv'
    BY <1>1, OrderHolds
  <1>2. ASSUME NEW w \in Warrants, NEW gives \in Seats, Accept(w, gives)
        PROVE  CommandInv'
    BY <1>2, AcceptHolds
  <1>3. ASSUME NEW w \in Warrants, Refuse(w) PROVE CommandInv'
    BY <1>3, RefuseHolds
  <1>4. ASSUME NEW w \in Warrants, SaveOrder(w) PROVE CommandInv'
    BY <1>4, SaveHolds
  <1>5. ASSUME NEW w \in Warrants, DropSession(w) PROVE CommandInv'
    <2>1. warrants[w].of \in Comrades
      BY DEF CommandInv, CommandTypeOK, WarrantRecord
    <2>2. CommandTypeOK'
      BY <1>5, <2>1, NoWarrantType DEF CommandInv, CommandTypeOK, DropSession
    <2>3. \A v \in Warrants : warrants'[v] = warrants[v] \/ warrants'[v].at = "idle"
      BY <1>5, NoWarrantType DEF CommandInv, CommandTypeOK, DropSession
    <2> QED
      BY <1>5, <2>1, <2>2, <2>3, Resolved DEF DropSession
  <1>6. ASSUME NEW m \in Comrades, ResolveSession(m) PROVE CommandInv'
    <2>1. CommandTypeOK'
      BY <1>6 DEF CommandInv, CommandTypeOK, ResolveSession
    <2> QED
      BY <1>6, <2>1, Resolved DEF ResolveSession
  <1>7. CASE UNCHANGED commandVars
    BY <1>7 DEF commandVars, CommandInv, CommandTypeOK, CommandStands, NoEscalation,
       OwnerStands, NeverHollowed, OrderInv, Backed
  <1> QED
    BY <1>1, <1>2, <1>3, <1>4, <1>5, <1>6, <1>7 DEF CommandNext

\* However requests overlap and whatever sessions and rows they act on: no chain
\* of appointments lifts anybody above the highest of those who appointed, the
\* owner stands, and nobody loses a seat or access to a peer but by a save that
\* overtakes another (member-hierarchy and the handlers that ask it).
THEOREM ChainOfCommand == CommandSpec => [](CommandTypeOK /\ CommandStands)
  <1>1. CommandInv => CommandTypeOK /\ CommandStands
    BY DEF CommandInv
  <1> QED
    BY InitHolds, StepHolds, <1>1, PTL DEF CommandSpec

(***************************************************************************)
(* What others get to see (PublicSite).                                    *)
(***************************************************************************)
\* Pages by what they may read: the pages of addresses, those of the managers, of
\* members, what keeps the archive, what waits for approval, the rest of the signed-in.
PersonPages == {"profile", "feed"}
ManagerPages == {"managerEvents", "managerEvent"}
MemberPages == {"memberEvents", "memberEvent"}
KeptPages == {"history", "answers", "attendees", "roll"}
QueuePages == {"queue", "summary"}
OtherPages == {"archive", "members", "record", "command", "export"}
AllPages == PublicPages \cup ManagerPages \cup MemberPages \cup KeptPages \cup QueuePages
            \cup OtherPages

OpenReads == {"regiment", "roster", "name", "calendar", "musters", "muster", "wall", "shots",
              "shot", "refs", "seat", "open", "counts", "papers"}
Allowed(p) ==
    IF p = "avatar" THEN {"regiment", "picture", "fetch"}
    ELSE IF p \in PersonPages THEN {"regiment", "person", "name", "wall", "feed", "departed"}
    ELSE IF p \in PublicPages THEN OpenReads
    ELSE IF p \in ManagerPages THEN {"all events", "any event"}
    ELSE IF p \in MemberPages THEN {"own events", "own event"}
    ELSE IF p \in KeptPages THEN {"card", "attended", "answered", "event", "attendees", "roll"}
    ELSE IF p \in QueuePages THEN {"queue"}
    ELSE {"archive", "members", "card", "entries", "medals", "links"}
Scripted(p, c) == c \in Seq(Allowed(p)) /\ c # <<>>

PersonRows == [standing : {"applicant", "pending", "enrolled"}, banned : BOOLEAN, until : Nat,
               erased : BOOLEAN, handle : Handles \cup {"none"}, pic : 1 .. Portraits]
MusterRows == [archived : BOOLEAN, deleted : BOOLEAN, old : BOOLEAN, with : SUBSET Folk,
               asked : SUBSET Folk]
ShotRows == [status : {"pending", "approved", "declined"}, deleted : BOOLEAN, author : Folk]
SiteRows == [configured : BOOLEAN, events : BOOLEAN, gallery : BOOLEAN, stats : BOOLEAN,
             dissolved : BOOLEAN]
Faces == [pic : 0 .. Portraits, until : Nat, whole : BOOLEAN]
Parting == [at : Nat, told : BOOLEAN]
VisitFields == {"page", "of", "todo", "status", "shows", "credits", "barred", "gone", "noIndex",
          "pic", "late"}
Answers == {"idle", "reading", "ok", "missing", "private", "gone"}

RowsOK ==
    /\ folk \in [Folk -> PersonRows]
    /\ musters \in [Musters -> MusterRows] /\ shots \in [Shots -> ShotRows]
    /\ site \in SiteRows /\ (site.configured \/ site.stats)
    /\ hour \in Nat
SiteTypes ==
    /\ theme \in Themes /\ hour \in 0 .. theme.hours
    /\ served \in 0 .. theme.visits /\ changes \in 0 .. theme.changes
    /\ RowsOK
    /\ reserved \in [Handles -> {"none", "held", "blocked"}]
    /\ faces \in [Folk -> Faces]
    /\ dues \subseteq Folk \X (1 .. Portraits)
    /\ notices \subseteq [handle : Handles, reason : {"held", "blocked"}]
    /\ departed \subseteq Folk \cup Handles
    /\ replaced \in [Folk -> Seq(Parting)]
    /\ \A m \in Folk : Len(replaced[m]) = folk[m].pic - 1

\* A name is one member's; the addresses of the erased, and of the handles that are
\* blocked or about to be, are those of the departed.
NamesInv ==
    /\ \A m, n \in Folk : folk[m].handle # "none" /\ folk[m].handle = folk[n].handle => m = n
    /\ \A m \in Folk : folk[m].erased => m \in departed
    /\ \A h \in Handles : reserved[h] = "blocked" => h \in departed
    /\ \A n \in notices : n.reason = "blocked" => n.handle \in departed

\* A picture in the cache: it was fetched within the timeout of when it was current,
\* and one that no fetch overtook is known to be due.
FacesInv ==
    \A m \in Folk :
      /\ faces[m].until <= hour + AvatarTtl
      /\ faces[m].until > hour => faces[m].pic \in 1 .. folk[m].pic
      /\ faces[m].until > hour /\ faces[m].pic < folk[m].pic =>
           LET left == replaced[m][faces[m].pic] IN
           /\ left.at + AvatarTtl + FetchTime >= faces[m].until
           /\ faces[m].whole /\ left.told => <<m, faces[m].pic>> \in dues
DuesInv == \A d \in dues : d[2] < folk[d[1]].pic

\* A request, with what may not be seen, who has departed, the members, their
\* earlier pictures and the time: what it reads is of its page, what it may not show
\* stays out, and the picture it fetches was its member's within the timeout.
PageInv(r, un, fk) ==
    /\ r.page \in AllPages /\ r.todo # {} /\ \A c \in r.todo : Scripted(r.page, c)
    /\ r.page \in PersonPages => r.of \in Folk \cup Handles
    /\ r.page = "avatar" =>
         /\ r.of \in Folk
         /\ \E c \in {<<"regiment", "picture", "fetch">>, <<"picture", "fetch">>, <<"fetch">>} :
              r.todo = {c}
    /\ r.barred \subseteq un[r.page]
    /\ \A m \in r.gone : m \in Folk /\ fk[m].erased
FetchInv(r, fk, rp, h) ==
    r.status = "reading" /\ <<"fetch">> \in r.todo =>
      /\ r.of \in Folk /\ r.pic \in 1 .. fk[r.of].pic /\ r.late \in Nat
      /\ h <= r.late /\ r.late <= h + FetchTime
      /\ r.pic < fk[r.of].pic => rp[r.of][r.pic].at + FetchTime >= r.late
VisitInv(r, un, dep, fk, rp, h) ==
    /\ DOMAIN r = VisitFields /\ r.status \in Answers
    /\ r.shows \cap r.barred = {} /\ r.credits \cap r.gone = {}
    /\ r.status = "gone" => r.of \in dep
    /\ r.status = "reading" => PageInv(r, un, fk)
    /\ FetchInv(r, fk, rp, h)
SiteInv ==
    /\ SiteTypes /\ NamesInv /\ FacesInv /\ DuesInv
    /\ DOMAIN visits = Visits
    /\ \A v \in Visits : VisitInv(visits[v], Unseen, departed, folk, replaced, hour)

LEMMA PagesAre == DOMAIN Pages = AllPages /\ DOMAIN Asks = AllPages
  BY DEF Pages, Asks, AllPages, PublicPages, ManagerPages, MemberPages, KeptPages, QueuePages,
         OtherPages

\* What is found is open to whoever reads the page.
LEMMA FoundOpen ==
    ASSUME RowsOK, NEW p \in AllPages, NEW read \in Allowed(p), NEW a
    PROVE  /\ Found(read, a) \cap Unseen[p] = {}
           /\ Credited(read, a, Found(read, a)) \cap {m \in Folk : folk[m].erased} = {}
<1> DEFINE public == p \in PublicPages
           manager == p \in ManagerPages
           awaited == IF p \in QueuePages THEN "pending" ELSE "approved"
           kept == p \in KeptPages
<1>1. Unseen[p] = {m \in Folk : \/ folk[m].erased
                                \/ public /\ \/ folk[m].standing # "enrolled"
                                             \/ folk[m].banned
                                             \/ folk[m].until > hour}
        \cup {e \in Musters : \/ musters[e].deleted
                              \/ musters[e].archived /\ ~manager /\ ~kept}
        \cup {i \in Shots : \/ shots[i].deleted
                            \/ shots[i].status # awaited}
        \cup (IF public /\ ~site.events THEN {"calendar"} ELSE {})
        \cup (IF public /\ ~site.gallery THEN {"wall"} ELSE {})
        \cup (IF public /\ ~site.stats THEN {"open"} ELSE {})
  BY PagesAre DEF Unseen, ManagerPages, QueuePages, KeptPages
<1> DEFINE F == Found(read, a)
<1>2. /\ \A m \in Folk : m \in Unseen[p] <=>
           \/ folk[m].erased
           \/ (public /\ (folk[m].standing # "enrolled" \/ folk[m].banned \/ folk[m].until > hour))
      /\ \A e \in Musters : e \in Unseen[p] <=>
           musters[e].deleted \/ (musters[e].archived /\ ~manager /\ ~kept)
      /\ \A i \in Shots : i \in Unseen[p] <=> shots[i].deleted \/ shots[i].status # awaited
  <2> DEFINE Words == {"calendar", "wall", "open"}
  <2>1. Folk \cap (Musters \cup Shots \cup Words) = {}
    BY PublicSiteAssumption
  <2>2. Musters \cap (Shots \cup Words) = {} /\ Shots \cap Words = {}
    BY PublicSiteAssumption
  <2> HIDE DEF public, manager, awaited, kept
  <2>3. \A m \in Folk : m \in Unseen[p] <=>
           \/ folk[m].erased
           \/ (public /\ (folk[m].standing # "enrolled" \/ folk[m].banned \/ folk[m].until > hour))
    BY <1>1, <2>1
  <2>4. \A e \in Musters : e \in Unseen[p] <=>
           musters[e].deleted \/ (musters[e].archived /\ ~manager /\ ~kept)
    BY <1>1, <2>1, <2>2
  <2>5. \A i \in Shots : i \in Unseen[p] <=> shots[i].deleted \/ shots[i].status # awaited
    <3>1. ASSUME NEW i \in Shots PROVE i \notin Folk /\ i \notin Musters /\ i \notin Words
      BY <2>1, <2>2
    <3> DEFINE Withheld == {i \in Shots : shots[i].deleted \/ shots[i].status # awaited}
    <3>2. \A i \in Shots : i \in Withheld <=> shots[i].deleted \/ shots[i].status # awaited
      OBVIOUS
    <3> HIDE DEF Withheld
    <3>3. \A i \in Shots : i \in Unseen[p] <=> i \in Withheld
      BY <1>1, <3>1 DEF Withheld
    <3> QED
      BY <3>2, <3>3
  <2> QED
    BY <2>3, <2>4, <2>5
<1> HIDE DEF public, manager, awaited, kept
<1>3. Credited(read, a, F) \subseteq Present
  BY DEF Credited, AttendeeList, RsvpRoster, Authors
<1>4. CASE read \in {"roster", "refs", "person", "picture"}
  <2>1. public
    BY <1>4 DEF Allowed, OpenReads, PersonPages, PublicPages, public
  <2>2. F \subseteq Servable
    BY <1>4 DEF Found
  <2>3. \A m \in Servable : m \in Folk /\ ~(folk[m].until > hour)
    BY DEF Servable, RowsOK, PersonRows
  <2>4. \A m \in Servable : m \notin Unseen[p]
    BY <1>2, <2>3 DEF Servable
  <2> QED
    BY <1>3, <2>2, <2>4 DEF Present
<1>5. CASE read \in {"members", "card"}
  <2>1. ~public
    BY <1>5 DEF Allowed, OpenReads, PersonPages, PublicPages, public
  <2>2. F \subseteq Present
    BY <1>5 DEF Found
  <2> QED
    BY <1>2, <1>3, <2>1, <2>2 DEF Present
<1>6. CASE read \in {"musters", "muster", "own events", "own event"}
  <2>1. F \subseteq {e \in Musters : ~musters[e].deleted /\ ~musters[e].archived}
    BY <1>6 DEF Found, ListPublic, GetPublic, Scheduled, ListForMember, GetForMember
  <2> QED
    BY <1>2, <1>3, <2>1 DEF Present
<1>7. CASE read \in {"all events", "any event", "attended", "answered", "event"}
  <2>1. manager \/ kept
    BY <1>7 DEF Allowed, OpenReads, PersonPages, PublicPages, MemberPages, QueuePages, manager, kept
  <2>2. F \subseteq {e \in Musters : ~musters[e].deleted}
    BY <1>7 DEF Found, Scheduled, ListForMember, GetForMember, ListAttendedByMember,
                ListRsvpsByMember
  <2> QED
    BY <1>2, <1>3, <2>1, <2>2 DEF Present
<1>8. CASE read \in {"shots", "archive", "shot", "feed"}
  <2>1. awaited = "approved"
    BY <1>8 DEF Allowed, OpenReads, PersonPages, PublicPages, QueuePages, ManagerPages,
                MemberPages, KeptPages, awaited
  <2>2. F \subseteq ListItems("approved")
    BY <1>8 DEF Found, FindOnePublic, FindPublicByAuthor
  <2> QED
    BY <1>2, <1>3, <2>1, <2>2 DEF Present, ListItems
<1>9. CASE read = "queue"
  <2>1. awaited = "pending"
    BY <1>9 DEF Allowed, OpenReads, PersonPages, PublicPages, QueuePages, ManagerPages,
                MemberPages, KeptPages, awaited
  <2>2. F = ListItems("pending")
    BY <1>9 DEF Found
  <2> QED
    BY <1>2, <1>3, <2>1, <2>2 DEF Present, ListItems
<1>10. CASE read \notin {"roster", "refs", "person", "picture", "members", "card", "musters",
                         "muster", "own events", "own event", "all events", "any event",
                         "attended", "answered", "event", "shots", "archive", "shot", "feed",
                         "queue"}
  <2>1. F = {}
    BY <1>10 DEF Found
  <2> QED
    BY <1>3, <2>1 DEF Present
<1> QED
  BY <1>4, <1>5, <1>6, <1>7, <1>8, <1>9, <1>10

\* A gate that is open hides nothing of what it is the gate of.
LEMMA NothingHidden ==
    ASSUME RowsOK, NEW p \in AllPages, NEW read \in Gates, Gate(read) = "open"
    PROVE  read \notin Unseen[p]
  BY PagesAre, PublicSiteAssumption DEF Unseen, Gate, Gates, RowsOK, SiteRows

LEMMA ScriptedIs ==
    ASSUME NEW p, NEW c, Scripted(p, c)
    PROVE  Head(c) \in Allowed(p) /\ (Tail(c) = <<>> \/ Scripted(p, Tail(c)))
  BY DEF Scripted

\* Only the page of a picture fetches.
LEMMA FetchesOnly ==
    ASSUME NEW p \in AllPages, Scripted(p, <<"fetch">>) PROVE p = "avatar"
<1>1. "fetch" \in Allowed(p)
  BY DEF Scripted
<1> QED
  BY <1>1 DEF Allowed, OpenReads

LEMMA AvatarScripts ==
    /\ Tail(<<"regiment", "picture", "fetch">>) = <<"picture", "fetch">>
    /\ Tail(<<"picture", "fetch">>) = <<"fetch">> /\ Tail(<<"fetch">>) = <<>>
    /\ Head(<<"regiment", "picture", "fetch">>) = "regiment"
    /\ Head(<<"picture", "fetch">>) = "picture" /\ Head(<<"fetch">>) = "fetch"
    /\ Scripted("avatar", <<"regiment", "picture", "fetch">>)
    /\ Scripted("avatar", <<"picture", "fetch">>) /\ Scripted("avatar", <<"fetch">>)
    /\ <<"fetch">> # <<"picture", "fetch">> /\ <<"fetch">> # <<"regiment", "picture", "fetch">>
    /\ <<"fetch">> # <<>> /\ <<"picture", "fetch">> # <<>>
  BY DEF Scripted, Allowed

LEMMA Replied ==
    ASSUME NEW r, NEW un, NEW dep, NEW fk, NEW rp, NEW h, VisitInv(r, un, dep, fk, rp, h),
           NEW answer \in Answers \ {"reading"}, answer = "gone" => r.of \in dep
    PROVE  VisitInv(Reply(r, answer), un, dep, fk, rp, h)
<1> DEFINE n == Reply(r, answer)
<1>1. /\ DOMAIN n = VisitFields /\ n.status = answer /\ n.shows = r.shows /\ n.barred = r.barred
      /\ n.credits = r.credits /\ n.gone = r.gone /\ n.of = r.of
  BY DEF Reply, VisitInv, VisitFields
<1> HIDE DEF n
<1>2. VisitInv(n, un, dep, fk, rp, h)
  BY <1>1 DEF VisitInv, FetchInv
<1> QED
  BY <1>2 DEF n

\* A request that shows and credits more, but nothing that is barred, goes on.
LEMMA GoneOn ==
    ASSUME NEW r, NEW un, NEW dep, NEW fk, NEW rp, NEW h, VisitInv(r, un, dep, fk, rp, h),
           r.status = "reading", r.page # "avatar", NEW c \in r.todo,
           NEW n, DOMAIN n = VisitFields, n.page = r.page, n.of = r.of, n.todo = r.todo,
           n.status = r.status, n.barred = r.barred, n.gone = r.gone,
           n.shows \cap n.barred = {}, n.credits \cap n.gone = {},
           NEW rest, rest = <<>> \/ Scripted(r.page, rest)
    PROVE  VisitInv(GoOn(n, c, rest), un, dep, fk, rp, h)
<1> DEFINE left == (r.todo \ {c}) \cup ({rest} \ {<<>>})
<1>1. VisitInv(n, un, dep, fk, rp, h)
  BY FetchesOnly DEF VisitInv, PageInv, FetchInv
<1>2. CASE left = {}
  <2>1. GoOn(n, c, rest) = Reply(n, "ok")
    BY <1>2 DEF GoOn
  <2> QED
    BY <1>1, <2>1, Replied DEF Answers
<1>3. CASE left # {}
  <2> DEFINE k == [n EXCEPT !.todo = left]
  <2>1. GoOn(n, c, rest) = k
    BY <1>3 DEF GoOn
  <2>2. /\ DOMAIN k = VisitFields /\ k.todo = left /\ k.page = n.page /\ k.of = n.of
        /\ k.status = n.status /\ k.barred = n.barred /\ k.gone = n.gone
        /\ k.shows = n.shows /\ k.credits = n.credits
    BY DEF VisitFields
  <2>3. \A d \in left : Scripted(r.page, d)
    BY DEF VisitInv, PageInv
  <2> HIDE DEF k, left
  <2>4. <<"fetch">> \notin left
    BY <2>3, FetchesOnly DEF VisitInv, PageInv
  <2>5. VisitInv(k, un, dep, fk, rp, h)
    BY <1>1, <1>3, <2>2, <2>3, <2>4 DEF VisitInv, PageInv, FetchInv
  <2> QED
    BY <2>1, <2>5
<1> QED
  BY <1>2, <1>3

\* The same, for a request that shows no more than it did.
LEMMA WentOn ==
    ASSUME NEW r, NEW un, NEW dep, NEW fk, NEW rp, NEW h, VisitInv(r, un, dep, fk, rp, h),
           r.status = "reading", r.page # "avatar", NEW c \in r.todo,
           NEW rest, rest = <<>> \/ Scripted(r.page, rest)
    PROVE  VisitInv(GoOn(r, c, rest), un, dep, fk, rp, h)
<1>1. DOMAIN r = VisitFields /\ r.shows \cap r.barred = {} /\ r.credits \cap r.gone = {}
  BY DEF VisitInv
<1> QED
  BY <1>1, GoneOn

LEMMA TurnedAway ==
    ASSUME NEW r, NEW un, NEW dep, NEW fk, NEW rp, NEW h, VisitInv(r, un, dep, fk, rp, h),
           r.status = "reading", NEW c \in r.todo, NEW answer \in {"missing", "private"}
    PROVE  VisitInv(TurnAway(r, c, answer), un, dep, fk, rp, h)
<1>1. CASE r.page = "sitemap" /\ c # RenderSitemap
  BY <1>1, WentOn DEF TurnAway
<1>2. CASE r.page = "item"
  <2> DEFINE n == [r EXCEPT !.noIndex = TRUE]
  <2>1. /\ DOMAIN n = VisitFields /\ n.todo = r.todo /\ n.page = r.page /\ n.of = r.of
        /\ n.status = r.status /\ n.barred = r.barred /\ n.gone = r.gone
        /\ n.shows = r.shows /\ n.credits = r.credits
    BY DEF VisitInv, VisitFields
  <2>5. r.shows \cap r.barred = {} /\ r.credits \cap r.gone = {} /\ r.page # "avatar"
    BY <1>2 DEF VisitInv
  <2>2. Scripted("item", <<"name">>)
    BY DEF Scripted, Allowed, OpenReads, PersonPages, PublicPages
  <2>3. TurnAway(r, c, answer) = GoOn(n, c, <<"name">>)
    BY <1>2 DEF TurnAway
  <2> HIDE DEF n
  <2>4. VisitInv(GoOn(n, c, <<"name">>), un, dep, fk, rp, h)
    BY <1>2, <2>1, <2>2, <2>5, GoneOn
  <2> QED
    BY <2>3, <2>4
<1>3. CASE r.page \in {"gallery", "feed"} /\ Head(c) = "wall" /\ answer = "missing"
  BY <1>3, WentOn DEF TurnAway
<1>4. CASE TurnAway(r, c, answer) = Reply(r, answer)
  BY <1>4, Replied DEF Answers
<1> QED
  BY <1>1, <1>2, <1>3, <1>4 DEF TurnAway

\* A request at its present place in the world.
Stands(r) == VisitInv(r, Unseen, departed, folk, replaced, hour)

LEMMA PictureScript ==
    ASSUME NEW r, NEW un, NEW fk, PageInv(r, un, fk), r.page = "avatar", NEW c \in r.todo
    PROVE  /\ r.of \in Folk /\ r.todo = {c}
           /\ c \in {<<"regiment", "picture", "fetch">>, <<"picture", "fetch">>, <<"fetch">>}
  BY DEF PageInv

\* The page of a picture goes on to its next read, or is done.
LEMMA PictureOn ==
    ASSUME NEW r, NEW un, NEW dep, NEW fk, NEW rp, NEW h, VisitInv(r, un, dep, fk, rp, h),
           r.status = "reading", r.page = "avatar", NEW c \in r.todo, c # <<"fetch">>,
           NEW n, DOMAIN n = VisitFields, n.page = r.page, n.of = r.of, n.todo = r.todo,
           n.status = r.status, n.barred = r.barred, n.gone = r.gone, n.credits = r.credits,
           n.shows \cap n.barred = {},
           c = <<"picture", "fetch">> =>
             /\ n.pic \in 1 .. fk[r.of].pic /\ n.late \in Nat
             /\ h <= n.late /\ n.late <= h + FetchTime
             /\ n.pic < fk[r.of].pic => rp[r.of][n.pic].at + FetchTime >= n.late
    PROVE  VisitInv(GoOn(n, c, Tail(c)), un, dep, fk, rp, h)
<1>1. PageInv(r, un, fk)
  BY DEF VisitInv
<1>2. r.of \in Folk /\ r.todo = {c} /\ c \in {<<"regiment", "picture", "fetch">>, <<"picture", "fetch">>}
  BY <1>1, PictureScript
<1> DEFINE k == [n EXCEPT !.todo = {Tail(c)}]
<1>3. GoOn(n, c, Tail(c)) = k
  <2>1. Tail(c) # <<>>
    BY <1>2, AvatarScripts
  <2>2. (n.todo \ {c}) \cup ({Tail(c)} \ {<<>>}) = {Tail(c)}
    BY <1>2, <2>1
  <2> QED
    BY <2>2 DEF GoOn
<1>4. /\ DOMAIN k = VisitFields /\ k.todo = {Tail(c)} /\ k.page = "avatar" /\ k.of = r.of
      /\ k.status = "reading" /\ k.barred = r.barred /\ k.gone = r.gone
      /\ k.shows = n.shows /\ k.credits = r.credits /\ k.pic = n.pic /\ k.late = n.late
  BY DEF VisitFields
<1> HIDE DEF k
<1>5. PageInv(k, un, fk)
  <2>1. Tail(c) \in {<<"picture", "fetch">>, <<"fetch">>} /\ Scripted("avatar", Tail(c))
    BY <1>2, AvatarScripts
  <2>2. r.page \in AllPages /\ r.barred \subseteq un[r.page]
        /\ \A m \in r.gone : m \in Folk /\ fk[m].erased
    BY <1>1 DEF PageInv
  <2>3. "avatar" \notin PersonPages
    BY DEF PersonPages
  <2> QED
    BY <1>2, <1>4, <2>1, <2>2, <2>3 DEF PageInv
<1>6. FetchInv(k, fk, rp, h)
  <2>1. CASE c = <<"picture", "fetch">>
    BY <1>2, <1>4, <2>1 DEF FetchInv
  <2>2. CASE c = <<"regiment", "picture", "fetch">>
    BY <1>4, <2>2, AvatarScripts DEF FetchInv
  <2> QED
    BY <1>2, <2>1, <2>2
<1>7. /\ k.status \in Answers /\ k.status # "gone" /\ k.shows \cap k.barred = {}
      /\ k.credits \cap k.gone = {}
  BY <1>4 DEF VisitInv
<1>8. VisitInv(k, un, dep, fk, rp, h)
  BY <1>4, <1>5, <1>6, <1>7 DEF VisitInv
<1> QED
  BY <1>3, <1>8

LEMMA PictureDone ==
    ASSUME NEW r, NEW un, NEW dep, NEW fk, NEW rp, NEW h, VisitInv(r, un, dep, fk, rp, h),
           r.status = "reading", r.page = "avatar", NEW c \in r.todo,
           NEW n, DOMAIN n = VisitFields, n.page = r.page, n.of = r.of, n.todo = r.todo,
           n.barred = r.barred, n.gone = r.gone, n.credits = r.credits,
           n.shows \cap n.barred = {}
    PROVE  VisitInv(GoOn(n, c, <<>>), un, dep, fk, rp, h)
<1>1. r.todo = {c}
  BY PictureScript DEF VisitInv
<1>2. GoOn(n, c, <<>>) = Reply(n, "ok")
  BY <1>1 DEF GoOn
<1> DEFINE k == Reply(n, "ok")
<1>3. /\ DOMAIN k = VisitFields /\ k.status = "ok" /\ k.shows = n.shows /\ k.barred = r.barred
      /\ k.credits = r.credits /\ k.gone = r.gone
  BY DEF Reply, VisitFields
<1> HIDE DEF k
<1>4. VisitInv(k, un, dep, fk, rp, h)
  BY <1>3 DEF VisitInv, FetchInv, Answers
<1> QED
  BY <1>2, <1>4 DEF k

LEMMA ReadStands ==
    ASSUME NEW r, Stands(r), r.status = "reading", NEW c \in r.todo
    PROVE  /\ PageInv(r, Unseen, folk) /\ r.page \in AllPages /\ Scripted(r.page, c)
           /\ Head(c) \in Allowed(r.page) /\ DOMAIN r = VisitFields
           /\ r.shows \cap r.barred = {} /\ r.credits \cap r.gone = {}
           /\ r.barred \subseteq Unseen[r.page]
           /\ r.gone \subseteq {m \in Folk : folk[m].erased}
<1>1. PageInv(r, Unseen, folk) /\ DOMAIN r = VisitFields
      /\ r.shows \cap r.barred = {} /\ r.credits \cap r.gone = {}
  BY DEF Stands, VisitInv
<1>2. /\ r.page \in AllPages /\ Scripted(r.page, c)
      /\ r.barred \subseteq Unseen[r.page]
      /\ r.gone \subseteq {m \in Folk : folk[m].erased}
  BY <1>1 DEF PageInv
<1> QED
  BY <1>1, <1>2, ScriptedIs

LEMMA GatePassed ==
    ASSUME RowsOK, NEW r, Stands(r), r.status = "reading", NEW c \in r.todo,
           Head(c) \in Gates
    PROVE  Stands(AtGate(r, c))
<1>1. CASE Gate(Head(c)) # "open"
  <2>1. Gate(Head(c)) \in {"missing", "private"}
    BY <1>1 DEF Gate
  <2> QED
    BY <1>1, <2>1, TurnedAway DEF AtGate, Stands
<1>2. CASE Gate(Head(c)) = "open"
  <2> DEFINE n == [r EXCEPT !.shows = @ \cup {Head(c)}]
  <2>1. AtGate(r, c) = GoOn(n, c, Tail(c))
    BY <1>2 DEF AtGate
  <2>2. /\ DOMAIN n = VisitFields /\ n.todo = r.todo /\ n.page = r.page /\ n.of = r.of
        /\ n.status = r.status /\ n.barred = r.barred /\ n.gone = r.gone
        /\ n.shows = r.shows \cup {Head(c)} /\ n.credits = r.credits
    BY ReadStands DEF VisitFields
  <2> HIDE DEF n
  <2>3. Head(c) \notin r.barred
    BY <1>2, ReadStands, NothingHidden
  <2>4. n.shows \cap n.barred = {} /\ n.credits \cap n.gone = {}
    BY <2>2, <2>3, ReadStands
  <2>5. CASE r.page = "avatar"
    <3>1. c # <<"fetch">> /\ c # <<"picture", "fetch">>
      BY AvatarScripts DEF Gates
    <3> QED
      BY <2>1, <2>2, <2>4, <2>5, <3>1, PictureOn DEF Stands
  <2>6. CASE r.page # "avatar"
    <3>1. Tail(c) = <<>> \/ Scripted(r.page, Tail(c))
      BY ReadStands, ScriptedIs
    <3> QED
      <4>1. VisitInv(r, Unseen, departed, folk, replaced, hour)
        BY DEF Stands
      <4>2. VisitInv(GoOn(n, c, Tail(c)), Unseen, departed, folk, replaced, hour)
        BY <2>2, <2>4, <2>6, <3>1, <4>1, GoneOn
      <4> QED
        BY <2>1, <4>2 DEF Stands
  <2> QED
    BY <2>5, <2>6
<1> QED
  BY <1>1, <1>2

LEMMA PictureFound ==
    ASSUME RowsOK, NEW r, Stands(r), r.status = "reading", NEW c \in r.todo,
           Head(c) = "picture"
    PROVE  Stands(AtPicture(r, c))
<1>1. r.page = "avatar"
  BY ReadStands DEF Allowed, OpenReads
<1>2. r.of \in Folk /\ c = <<"picture", "fetch">>
  BY <1>1, ReadStands, PictureScript, AvatarScripts
<1> DEFINE m == r.of
           shown == [r EXCEPT !.shows = @ \cup {m}]
           asks == [shown EXCEPT !.pic = folk[m].pic, !.late = hour + FetchTime]
<1>3. /\ DOMAIN shown = VisitFields /\ shown.todo = r.todo /\ shown.page = r.page /\ shown.of = r.of
      /\ shown.status = r.status /\ shown.barred = r.barred /\ shown.gone = r.gone
      /\ shown.shows = r.shows \cup {m} /\ shown.credits = r.credits
  BY ReadStands DEF VisitFields
<1>4. /\ DOMAIN asks = VisitFields /\ asks.todo = r.todo /\ asks.page = r.page /\ asks.of = r.of
      /\ asks.status = r.status /\ asks.barred = r.barred /\ asks.gone = r.gone
      /\ asks.shows = r.shows \cup {m} /\ asks.credits = r.credits
      /\ asks.pic = folk[m].pic /\ asks.late = hour + FetchTime
  BY ReadStands DEF VisitFields
<1>5. AtPicture(r, c) = IF m \notin Servable THEN TurnAway(r, c, "missing")
                        ELSE IF faces[m].until > hour THEN GoOn(shown, c, <<>>)
                        ELSE GoOn(asks, c, Tail(c))
  BY DEF AtPicture
<1> HIDE DEF shown, asks
<1>6. CASE m \notin Servable
  BY <1>5, <1>6, TurnedAway DEF Stands
<1>7. ASSUME m \in Servable PROVE (r.shows \cup {m}) \cap r.barred = {}
  <2>1. m \in Found("picture", m)
    BY <1>7 DEF Found, Addressed, Servable
  <2>2. "picture" \in Allowed("avatar") /\ "avatar" \in AllPages
    BY DEF Allowed, AllPages, PublicPages
  <2>3. m \notin Unseen["avatar"]
    BY <2>1, <2>2, FoundOpen
  <2> QED
    BY <1>1, <2>3, ReadStands
<1>8. CASE m \in Servable /\ faces[m].until > hour
  <2>1. Stands(GoOn(shown, c, <<>>))
    BY <1>1, <1>3, <1>7, <1>8, PictureDone DEF Stands
  <2> QED
    BY <1>5, <1>8, <2>1
<1>9. CASE m \in Servable /\ ~(faces[m].until > hour)
  <2>1. folk[m].pic \in 1 .. Portraits /\ folk[m].pic \in 1 .. folk[m].pic /\ hour \in Nat
        /\ FetchTime \in Nat
    BY <1>2, PublicSiteAssumption DEF RowsOK, PersonRows
  <2>2. /\ asks.pic \in 1 .. folk[r.of].pic /\ asks.late \in Nat
        /\ hour <= asks.late /\ asks.late <= hour + FetchTime /\ ~(asks.pic < folk[r.of].pic)
    BY <1>4, <2>1
  <2>3. c # <<"fetch">>
    BY <1>2, AvatarScripts
  <2>4. Stands(GoOn(asks, c, Tail(c)))
    BY <1>1, <1>4, <1>7, <1>9, <2>2, <2>3, PictureOn DEF Stands
  <2> QED
    BY <1>5, <1>9, <2>4
<1> QED
  BY <1>6, <1>8, <1>9

\* Only who asks for a person learns that an account is gone, and it is.
LEMMA DepartedIs ==
    ASSUME RowsOK, NamesInv, NEW r, Stands(r), r.status = "reading", NEW c \in r.todo,
           Head(c) = "departed"
    PROVE  Stands(AtDeparted(r))
<1>1. r.page \in PersonPages
  BY ReadStands DEF Allowed, OpenReads
<1>2. r.of \in Folk \cup Handles
  BY <1>1, ReadStands DEF PageInv
<1> DEFINE gone == IF r.of \in Folk THEN folk[r.of].erased ELSE reserved[r.of] = "blocked"
           answer == IF gone THEN "gone" ELSE "missing"
<1>3. gone => r.of \in departed
  BY <1>2 DEF NamesInv
<1>4. AtDeparted(r) = Reply(r, answer)
  BY DEF AtDeparted
<1>5. answer \in Answers \ {"reading"} /\ (answer = "gone" => r.of \in departed)
  BY <1>3 DEF Answers
<1> QED
  BY <1>4, <1>5, Replied DEF Stands

LEMMA RowsRead ==
    ASSUME RowsOK, NEW r, Stands(r), r.status = "reading", NEW c \in r.todo,
           Head(c) \notin Gates \cup {"fetch", "picture", "departed"}
    PROVE  Stands(AtRows(r, c))
<1> DEFINE read == Head(c)
           found == Found(read, r.of)
           filled == [r EXCEPT !.shows = @ \cup found,
                               !.credits = @ \cup Credited(read, r.of, found)]
<1>1. r.page # "avatar"
  BY ReadStands DEF Allowed, Gates
<1>2. /\ DOMAIN filled = VisitFields /\ filled.todo = r.todo /\ filled.page = r.page
      /\ filled.of = r.of /\ filled.status = r.status /\ filled.barred = r.barred
      /\ filled.gone = r.gone /\ filled.shows = r.shows \cup found
      /\ filled.credits = r.credits \cup Credited(read, r.of, found)
  BY ReadStands DEF VisitFields
<1>3. filled.shows \cap filled.barred = {} /\ filled.credits \cap filled.gone = {}
  <2>1. /\ found \cap Unseen[r.page] = {}
        /\ Credited(read, r.of, found) \cap {m \in Folk : folk[m].erased} = {}
    BY ReadStands, FoundOpen
  <2> QED
    BY <1>2, <2>1, ReadStands
<1>4. AtRows(r, c) = IF read \in Single /\ found = {}
                       THEN IF read = "person" THEN GoOn(r, c, <<"departed">>)
                                               ELSE TurnAway(r, c, "missing")
                     ELSE IF read = "refs"
                       THEN [filled EXCEPT !.todo = {SitemapEvents, SitemapGallery}]
                     ELSE GoOn(filled, c, Tail(c))
  BY DEF AtRows
<1> HIDE DEF filled, found
<1>5. CASE read \in Single /\ found = {} /\ read = "person"
  <2>1. r.page \in PersonPages
    BY <1>5, ReadStands DEF Allowed, OpenReads
  <2>2. Scripted(r.page, <<"departed">>)
    <3>1. "departed" \in Allowed(r.page)
      BY <2>1 DEF Allowed, PersonPages
    <3> QED
      BY <3>1 DEF Scripted
  <2> QED
    BY <1>1, <1>4, <1>5, <2>2, WentOn DEF Stands
<1>6. CASE read \in Single /\ found = {} /\ read # "person"
  BY <1>4, <1>6, TurnedAway DEF Stands
<1>7. CASE ~(read \in Single /\ found = {}) /\ read = "refs"
  <2> DEFINE k == [filled EXCEPT !.todo = {SitemapEvents, SitemapGallery}]
  <2>1. /\ DOMAIN k = VisitFields /\ k.todo = {SitemapEvents, SitemapGallery}
        /\ k.page = r.page /\ k.of = r.of /\ k.status = r.status /\ k.barred = r.barred
        /\ k.gone = r.gone /\ k.shows = filled.shows /\ k.credits = filled.credits
    BY <1>2 DEF VisitFields
  <2> HIDE DEF k
  <2>2. r.page \in PublicPages \ PersonPages
    BY <1>1, <1>7, ReadStands DEF Allowed
  <2>3. Scripted(r.page, SitemapEvents) /\ Scripted(r.page, SitemapGallery)
    <3>1. Allowed(r.page) = OpenReads
      BY <1>1, <2>2 DEF Allowed
    <3>2. {"calendar", "musters", "wall", "shots"} \subseteq OpenReads
      BY DEF OpenReads
    <3> QED
      BY <3>1, <3>2 DEF Scripted, SitemapEvents, SitemapGallery
  <2>4. /\ r.page \in AllPages /\ r.barred \subseteq Unseen[r.page]
        /\ \A m \in r.gone : m \in Folk /\ folk[m].erased
    BY ReadStands
  <2>5. PageInv(k, Unseen, folk)
    BY <1>1, <2>1, <2>2, <2>3, <2>4 DEF PageInv
  <2>6. <<"fetch">> \notin k.todo
    BY <2>1 DEF SitemapEvents, SitemapGallery
  <2>7. FetchInv(k, folk, replaced, hour)
    BY <2>6 DEF FetchInv
  <2>8. k.shows \cap k.barred = {} /\ k.credits \cap k.gone = {}
    BY <1>2, <1>3, <2>1
  <2>9. Stands(k)
    BY <2>1, <2>5, <2>7, <2>8 DEF Stands, VisitInv, Answers
  <2> QED
    BY <1>4, <1>7, <2>9 DEF k
<1>8. CASE ~(read \in Single /\ found = {}) /\ read # "refs"
  <2>1. Tail(c) = <<>> \/ Scripted(r.page, Tail(c))
    BY ReadStands, ScriptedIs
  <2>2. Stands(GoOn(filled, c, Tail(c)))
    BY <1>1, <1>2, <1>3, <2>1, GoneOn DEF Stands
  <2> QED
    BY <1>4, <1>8, <2>2
<1> QED
  BY <1>5, <1>6, <1>7, <1>8

\* Members fk with earlier pictures rp become fk2 with rp2 at the hour h: who is erased
\* stays so, a picture is replaced by later ones, and one that is replaced now may be due.
Grows(fk, rp, h, fk2, rp2, du2) ==
    \A m \in Folk :
      /\ fk[m].erased => fk2[m].erased
      /\ fk[m].pic <= fk2[m].pic
      /\ \A p \in 1 .. fk[m].pic : p < fk2[m].pic =>
           /\ p < fk[m].pic => /\ rp2[m][p].at = rp[m][p].at
                               /\ rp2[m][p].told => rp[m][p].told
           /\ p = fk[m].pic => /\ rp2[m][p].at \in Nat /\ rp2[m][p].at >= h
                               /\ rp2[m][p].told => <<m, p>> \in du2

LEMMA RowTypes ==
    ASSUME SiteTypes, NEW m \in Folk
    PROVE  /\ folk[m] \in PersonRows /\ folk[m].pic \in Nat /\ folk[m].pic \in 1 .. Portraits
           /\ faces[m] \in Faces /\ faces[m].until \in Nat /\ faces[m].pic \in Nat
           /\ replaced[m] \in Seq(Parting) /\ Len(replaced[m]) = folk[m].pic - 1
           /\ \A p \in 1 .. folk[m].pic : p < folk[m].pic =>
                replaced[m][p] \in Parting /\ replaced[m][p].at \in Nat
           /\ hour \in Nat /\ AvatarTtl \in Nat /\ FetchTime \in Nat
<1>1. folk[m] \in PersonRows /\ faces[m] \in Faces /\ replaced[m] \in Seq(Parting)
      /\ Len(replaced[m]) = folk[m].pic - 1 /\ hour \in Nat
  BY DEF SiteTypes, RowsOK
<1>2. Portraits \in Nat /\ AvatarTtl \in Nat /\ FetchTime \in Nat
  BY PublicSiteAssumption
<1>3. folk[m].pic \in 1 .. Portraits /\ faces[m].until \in Nat /\ faces[m].pic \in 0 .. Portraits
  BY <1>1 DEF PersonRows, Faces
<1>4. ASSUME NEW p \in 1 .. folk[m].pic, p < folk[m].pic
      PROVE  replaced[m][p] \in Parting
  BY <1>1, <1>2, <1>3, <1>4
<1>5. \A x \in Parting : x.at \in Nat
  BY DEF Parting
<1> QED
  BY <1>1, <1>2, <1>3, <1>4, <1>5

\* A request stands while the world changes, with what is barred no longer let go.
LEMMA StandsOn ==
    ASSUME SiteTypes, NEW r, NEW un2, NEW dep2, NEW fk2, NEW rp2, NEW h2, NEW du2, Stands(r),
           departed \subseteq dep2, \A m \in Folk : fk2[m].pic \in Nat,
           Grows(folk, replaced, hour, fk2, rp2, du2), h2 \in Nat, hour <= h2,
           r.status = "reading" /\ <<"fetch">> \in r.todo => h2 <= r.late,
           NEW n, n = IF r.status = "reading"
                        THEN [r EXCEPT !.barred = @ \cap un2[r.page]] ELSE r
    PROVE  VisitInv(n, un2, dep2, fk2, rp2, h2)
<1>1. /\ DOMAIN r = VisitFields /\ r.status \in Answers
      /\ r.shows \cap r.barred = {} /\ r.credits \cap r.gone = {}
      /\ r.status = "gone" => r.of \in departed
      /\ r.status = "reading" => PageInv(r, Unseen, folk)
      /\ FetchInv(r, folk, replaced, hour)
  BY DEF Stands, VisitInv
<1>2. CASE r.status # "reading"
  BY <1>1, <1>2 DEF VisitInv, FetchInv
<1>3. CASE r.status = "reading"
  <2>1. /\ DOMAIN n = VisitFields /\ n.status = "reading" /\ n.page = r.page /\ n.of = r.of
        /\ n.todo = r.todo /\ n.shows = r.shows /\ n.credits = r.credits /\ n.gone = r.gone
        /\ n.pic = r.pic /\ n.late = r.late /\ n.barred = r.barred \cap un2[r.page]
    BY <1>1, <1>3 DEF VisitFields
  <2>2. PageInv(n, un2, fk2)
    <3>1. \A m \in Folk : folk[m].erased => fk2[m].erased
      BY DEF Grows
    <3>2. \A m \in n.gone : m \in Folk /\ fk2[m].erased
      BY <1>1, <1>3, <2>1, <3>1 DEF PageInv
    <3>3. n.barred \subseteq un2[n.page]
      BY <2>1
    <3> QED
      BY <1>1, <1>3, <2>1, <3>2, <3>3 DEF PageInv
  <2>3. FetchInv(n, fk2, rp2, h2)
    <3> SUFFICES ASSUME <<"fetch">> \in r.todo
                 PROVE  /\ r.of \in Folk /\ r.pic \in 1 .. fk2[r.of].pic /\ r.late \in Nat
                        /\ h2 <= r.late /\ r.late <= h2 + FetchTime
                        /\ r.pic < fk2[r.of].pic => rp2[r.of][r.pic].at + FetchTime >= r.late
      BY <2>1 DEF FetchInv
    <3> DEFINE m == r.of
               p == r.pic
    <3>1. /\ m \in Folk /\ p \in 1 .. folk[m].pic /\ r.late \in Nat
          /\ hour <= r.late /\ r.late <= hour + FetchTime
          /\ p < folk[m].pic => replaced[m][p].at + FetchTime >= r.late
      BY <1>1, <1>3 DEF FetchInv
    <3>2. /\ folk[m].pic \in Nat /\ hour \in Nat /\ FetchTime \in Nat /\ fk2[m].pic \in Nat
          /\ p < folk[m].pic => replaced[m][p].at \in Nat
      BY <3>1, RowTypes
    <3>3. /\ folk[m].pic <= fk2[m].pic
          /\ p < fk2[m].pic =>
               /\ p < folk[m].pic => rp2[m][p].at = replaced[m][p].at
               /\ p = folk[m].pic => rp2[m][p].at \in Nat /\ rp2[m][p].at >= hour
      BY <3>1 DEF Grows
    <3>4. h2 <= r.late
      BY <1>3
    <3> HIDE DEF m, p
    <3>5. p \in 1 .. fk2[m].pic /\ r.late <= h2 + FetchTime
      BY <3>1, <3>2, <3>3
    <3>6. p < fk2[m].pic => rp2[m][p].at + FetchTime >= r.late
      BY <3>1, <3>2, <3>3
    <3> QED
      BY <3>1, <3>4, <3>5, <3>6 DEF m, p
  <2>4. n.shows \cap n.barred = {} /\ n.credits \cap n.gone = {}
    BY <1>1, <2>1
  <2> QED
    BY <2>1, <2>2, <2>3, <2>4 DEF VisitInv, Answers
<1> QED
  BY <1>2, <1>3

\* The cache while the world changes.
LEMMA FacesKept ==
    ASSUME SiteTypes, SiteTypes', FacesInv, faces' = faces, dues \subseteq dues',
           hour <= hour', Grows(folk, replaced, hour, folk', replaced', dues')
    PROVE  FacesInv'
<1> SUFFICES ASSUME NEW m \in Folk
             PROVE  /\ faces[m].until <= hour' + AvatarTtl
                    /\ faces[m].until > hour' => faces[m].pic \in 1 .. folk'[m].pic
                    /\ faces[m].until > hour' /\ faces[m].pic < folk'[m].pic =>
                         /\ replaced'[m][faces[m].pic].at + AvatarTtl + FetchTime
                              >= faces[m].until
                         /\ faces[m].whole /\ replaced'[m][faces[m].pic].told =>
                              <<m, faces[m].pic>> \in dues'
  BY DEF FacesInv
<1> DEFINE p == faces[m].pic
<1>1. /\ faces[m].until <= hour + AvatarTtl
      /\ faces[m].until > hour => p \in 1 .. folk[m].pic
      /\ faces[m].until > hour /\ p < folk[m].pic =>
           /\ replaced[m][p].at + AvatarTtl + FetchTime >= faces[m].until
           /\ faces[m].whole /\ replaced[m][p].told => <<m, p>> \in dues
  BY DEF FacesInv
<1>2. /\ folk[m].pic \in Nat /\ hour \in Nat /\ faces[m].until \in Nat /\ p \in Nat
      /\ AvatarTtl \in Nat /\ FetchTime \in Nat
      /\ p \in 1 .. folk[m].pic /\ p < folk[m].pic => replaced[m][p].at \in Nat
  BY RowTypes
<1>3. folk'[m].pic \in Nat /\ hour' \in Nat
  BY PublicSiteAssumption DEF SiteTypes, RowsOK, PersonRows
<1>4. /\ folk[m].pic <= folk'[m].pic
      /\ p \in 1 .. folk[m].pic /\ p < folk'[m].pic =>
           /\ p < folk[m].pic => /\ replaced'[m][p].at = replaced[m][p].at
                                 /\ replaced'[m][p].told => replaced[m][p].told
           /\ p = folk[m].pic => /\ replaced'[m][p].at \in Nat /\ replaced'[m][p].at >= hour
                                 /\ replaced'[m][p].told => <<m, p>> \in dues'
  BY DEF Grows
<1> HIDE DEF p
<1>5. faces[m].until <= hour' + AvatarTtl /\ (faces[m].until > hour' => p \in 1 .. folk'[m].pic)
  <2>1. hour <= hour'
    OBVIOUS
  <2>2. faces[m].until <= hour + AvatarTtl /\ hour \in Nat /\ faces[m].until \in Nat /\ AvatarTtl \in Nat
    BY <1>1, <1>2
  <2>3. hour' \in Nat
    BY <1>3
  <2>4. faces[m].until <= hour' + AvatarTtl
    BY <2>1, <2>2, <2>3
  <2>5. ASSUME faces[m].until > hour' PROVE p \in 1 .. folk'[m].pic
    <3>1. faces[m].until > hour
      BY <1>2, <1>3, <2>1, <2>5
    <3>2. p \in 1 .. folk[m].pic
      BY <1>1, <3>1
    <3> QED
      BY <1>2, <1>3, <1>4, <3>2
  <2> QED
    BY <2>4, <2>5
<1>6. ASSUME faces[m].until > hour', p < folk'[m].pic
      PROVE  /\ replaced'[m][p].at + AvatarTtl + FetchTime >= faces[m].until
             /\ faces[m].whole /\ replaced'[m][p].told => <<m, p>> \in dues'
  <2>1. faces[m].until > hour /\ p \in 1 .. folk[m].pic
    BY <1>1, <1>2, <1>3, <1>6
  <2>2. CASE p < folk[m].pic
    BY <1>1, <1>2, <1>4, <1>6, <2>1, <2>2
  <2>3. CASE p = folk[m].pic
    BY <1>1, <1>2, <1>4, <1>6, <2>1, <2>3
  <2> QED
    BY <1>2, <2>1, <2>2, <2>3
<1> QED
  BY <1>5, <1>6 DEF p

\* What another service commits, or an hour that passes.
LEMMA Committed ==
    ASSUME SiteInv, SiteTypes', NamesInv', DuesInv', faces' = faces, dues \subseteq dues',
           departed \subseteq departed', hour <= hour', Unbar,
           \A v \in Visits : Fetching(v) => hour' <= visits[v].late,
           Grows(folk, replaced, hour, folk', replaced', dues')
    PROVE  SiteInv'
<1> USE DEF SiteInv
<1>1. DOMAIN visits' = Visits
  BY DEF Unbar
<1>2. ASSUME NEW v \in Visits
      PROVE  VisitInv(visits'[v], Unseen', departed', folk', replaced', hour')
  <2>1. visits'[v] = IF visits[v].status = "reading"
                       THEN [visits[v] EXCEPT !.barred = @ \cap Unseen'[visits[v].page]]
                       ELSE visits[v]
    BY DEF Unbar, Reading
  <2>2. \A m \in Folk : folk'[m].pic \in Nat
    BY PublicSiteAssumption DEF SiteTypes, RowsOK, PersonRows
  <2>3. hour' \in Nat
    BY DEF SiteTypes, RowsOK
  <2>4. visits[v].status = "reading" /\ <<"fetch">> \in visits[v].todo => hour' <= visits[v].late
    BY DEF Fetching, Reading
  <2>5. Stands(visits[v])
    BY DEF Stands
  <2> QED
    BY <2>1, <2>2, <2>3, <2>4, <2>5, StandsOn
<1>3. FacesInv'
  BY FacesKept
<1> QED
  BY <1>1, <1>2, <1>3

\* A step of one request, with the world and the cache as they are.
LEMMA RequestStep ==
    ASSUME SiteInv, NEW v \in Visits, NEW n, Stands(n), visits' = [visits EXCEPT ![v] = n],
           UNCHANGED <<hour, folk, reserved, musters, shots, site, dues, notices, departed,
                       replaced>>
    PROVE  /\ DOMAIN visits' = Visits
           /\ \A w \in Visits : VisitInv(visits'[w], Unseen', departed', folk', replaced', hour')
<1>1. Unseen' = Unseen
  BY DEF Unseen
<1> QED
  BY <1>1 DEF SiteInv, Stands

LEMMA CommitTypes ==
    ASSUME SiteInv, NEW k, CommitChange(k)
    PROVE  /\ theme' \in Themes /\ hour' = hour /\ hour' \in 0 .. theme'.hours
           /\ served' \in 0 .. theme'.visits /\ changes' \in 0 .. theme'.changes
           /\ hour' \in Nat /\ Unbar /\ hour <= hour'
           /\ \A v \in Visits : Fetching(v) => hour' <= visits[v].late
<1>1. /\ theme' = theme /\ hour' = hour /\ served' = served /\ changes < theme.changes
      /\ changes' = changes + 1 /\ Unbar
  BY DEF CommitChange
<1>2. /\ theme \in Themes /\ hour \in 0 .. theme.hours /\ hour \in Nat
      /\ served \in 0 .. theme.visits /\ changes \in 0 .. theme.changes
  BY DEF SiteInv, SiteTypes, RowsOK
<1>3. theme.changes \in Nat
  BY <1>2, PublicSiteAssumption
<1>4. changes' \in 0 .. theme'.changes
  BY <1>1, <1>2, <1>3
<1>5. ASSUME NEW v \in Visits, Fetching(v) PROVE hour <= visits[v].late
  BY <1>5 DEF SiteInv, VisitInv, FetchInv, Fetching, Reading
<1> QED
  BY <1>1, <1>2, <1>4, <1>5

LEMMA SamePictures ==
    ASSUME SiteTypes, replaced' = replaced, NEW du2,
           \A m \in Folk : folk'[m].pic = folk[m].pic /\ (folk[m].erased => folk'[m].erased)
    PROVE  Grows(folk, replaced, hour, folk', replaced', du2)
<1> SUFFICES ASSUME NEW m \in Folk
             PROVE  /\ folk[m].erased => folk'[m].erased
                    /\ folk[m].pic <= folk'[m].pic
                    /\ \A p \in 1 .. folk[m].pic : p < folk'[m].pic =>
                         /\ p < folk[m].pic => /\ replaced'[m][p].at = replaced[m][p].at
                                               /\ replaced'[m][p].told => replaced[m][p].told
                         /\ p = folk[m].pic => FALSE
  BY DEF Grows
<1>1. folk[m].pic \in Nat
  BY RowTypes
<1> QED
  BY <1>1

\* A change of the members' rows that leaves the pictures as they are.
LEMMA MembersChanged ==
    ASSUME SiteInv, NEW k, CommitChange(k), NEW m \in Folk, NEW saved \in PersonRows,
           Only(m, saved), saved.pic = folk[m].pic, folk[m].erased => saved.erased,
           UNCHANGED <<reserved, musters, shots, site, faces, dues, replaced>>,
           notices' \subseteq [handle : Handles, reason : {"held", "blocked"}],
           departed \subseteq departed', departed' \subseteq Folk \cup Handles, NamesInv'
    PROVE  SiteInv'
<1> USE DEF SiteInv
<1>1. folk' \in [Folk -> PersonRows] /\ \A n \in Folk : folk'[n] = IF n = m THEN saved ELSE folk[n]
  BY DEF Only, SiteTypes, RowsOK
<1>2. \A n \in Folk : folk'[n].pic = folk[n].pic /\ (folk[n].erased => folk'[n].erased)
  BY <1>1
<1>3. SiteTypes'
  <2>1. RowsOK'
    BY <1>1, CommitTypes DEF SiteTypes, RowsOK
  <2>2. \A n \in Folk : Len(replaced'[n]) = folk'[n].pic - 1
    BY <1>2 DEF SiteTypes
  <2> QED
    BY <2>1, <2>2, CommitTypes DEF SiteTypes
<1>4. DuesInv'
  BY <1>2 DEF DuesInv, SiteTypes
<1>5. Grows(folk, replaced, hour, folk', replaced', dues')
  BY <1>2, SamePictures
<1> QED
  BY <1>3, <1>4, <1>5, CommitTypes, Committed

LEMMA DisciplineKeeps ==
    ASSUME SiteInv, NEW m \in Folk, Discipline(m) PROVE SiteInv'
<1>1. folk[m] \in PersonRows /\ hour \in Nat
  BY DEF SiteInv, SiteTypes, RowsOK
<1>2. PICK saved \in {[folk[m] EXCEPT !.banned = ~@], [folk[m] EXCEPT !.until = hour + 1],
                    [folk[m] EXCEPT !.until = 0]} : Only(m, saved)
  BY DEF Discipline
<1>3. saved \in PersonRows /\ saved.pic = folk[m].pic /\ saved.erased = folk[m].erased
      /\ saved.handle = folk[m].handle
  <2>1. CASE saved = [folk[m] EXCEPT !.banned = ~@]
    BY <1>1, <2>1 DEF PersonRows
  <2>2. CASE saved = [folk[m] EXCEPT !.until = hour + 1]
    <3>1. hour + 1 \in Nat
      BY <1>1
    <3> QED
      BY <1>1, <2>2, <3>1 DEF PersonRows
  <2>3. CASE saved = [folk[m] EXCEPT !.until = 0]
    BY <1>1, <2>3 DEF PersonRows
  <2> QED
    BY <1>2, <2>1, <2>2, <2>3
<1>4. /\ UNCHANGED <<reserved, musters, shots, site, faces, dues, notices, departed, replaced>>
      /\ CommitChange("discipline")
  BY DEF Discipline
<1>5. NamesInv'
  <2>1. \A n \in Folk : folk'[n].handle = folk[n].handle /\ folk'[n].erased = folk[n].erased
    BY <1>2, <1>3 DEF Only, SiteInv, SiteTypes, RowsOK
  <2> QED
    BY <1>4, <2>1 DEF NamesInv, SiteInv
<1> QED
  BY <1>2, <1>3, <1>4, <1>5, MembersChanged DEF SiteInv, SiteTypes

LEMMA EnrolKeeps ==
    ASSUME SiteInv, NEW m \in Folk, Enrol(m) PROVE SiteInv'
<1> DEFINE saved == [folk[m] EXCEPT !.standing = "enrolled"]
<1>1. folk[m] \in PersonRows
  BY DEF SiteInv, SiteTypes, RowsOK
<1>2. saved \in PersonRows /\ saved.pic = folk[m].pic /\ saved.erased = folk[m].erased
      /\ saved.handle = folk[m].handle
  BY <1>1 DEF PersonRows
<1>3. /\ UNCHANGED <<reserved, musters, shots, site, faces, dues, notices, departed, replaced>>
      /\ CommitChange("enrol") /\ Only(m, saved)
  BY DEF Enrol
<1> HIDE DEF saved
<1>4. NamesInv'
  <2>1. \A n \in Folk : folk'[n].handle = folk[n].handle /\ folk'[n].erased = folk[n].erased
    BY <1>2, <1>3 DEF Only, SiteInv, SiteTypes, RowsOK
  <2> QED
    BY <1>3, <2>1 DEF NamesInv, SiteInv
<1> QED
  BY <1>2, <1>3, <1>4, MembersChanged DEF SiteInv, SiteTypes

LEMMA EraseKeeps ==
    ASSUME SiteInv, NEW m \in Folk, EraseMember(m) PROVE SiteInv'
<1> DEFINE saved == [folk[m] EXCEPT !.erased = TRUE, !.handle = "none"]
           h == folk[m].handle
<1>1. folk[m] \in PersonRows /\ h \in Handles \cup {"none"} /\ m # "none"
  BY PublicSiteAssumption DEF SiteInv, SiteTypes, RowsOK, PersonRows
<1>2. saved \in PersonRows /\ saved.pic = folk[m].pic /\ saved.erased /\ saved.handle = "none"
  BY <1>1 DEF PersonRows
<1>3. /\ UNCHANGED <<reserved, musters, shots, site, faces, dues, replaced>>
      /\ CommitChange("erase") /\ Only(m, saved)
      /\ departed' = departed \cup ({m, h} \ {"none"})
      /\ notices' = notices \cup [handle : {h} \ {"none"}, reason : {"blocked"}]
  BY DEF EraseMember, Freed
<1> HIDE DEF saved
<1>4. \A n \in Folk : folk'[n] = IF n = m THEN saved ELSE folk[n]
  BY <1>3 DEF Only, SiteInv, SiteTypes, RowsOK
<1>5. departed \subseteq departed' /\ departed' \subseteq Folk \cup Handles
      /\ notices' \subseteq [handle : Handles, reason : {"held", "blocked"}]
      /\ m \in departed'
  BY <1>1, <1>3 DEF SiteInv, SiteTypes
<1>6. NamesInv'
  <2>1. \A a, b \in Folk : folk'[a].handle # "none" /\ folk'[a].handle = folk'[b].handle => a = b
    BY <1>2, <1>4 DEF NamesInv, SiteInv
  <2>2. \A n \in Folk : folk'[n].erased => n \in departed'
    BY <1>4, <1>5 DEF NamesInv, SiteInv
  <2>3. \A n \in notices' : n.reason = "blocked" => n.handle \in departed'
    BY <1>3 DEF NamesInv, SiteInv
  <2> QED
    BY <1>3, <1>5, <2>1, <2>2, <2>3 DEF NamesInv, SiteInv
<1> QED
  BY <1>2, <1>3, <1>5, <1>6, MembersChanged

LEMMA RenameKeeps ==
    ASSUME SiteInv, NEW m \in Folk, NEW h \in Handles, Rename(m, h) PROVE SiteInv'
<1> DEFINE saved == [folk[m] EXCEPT !.handle = h]
<1>1. folk[m] \in PersonRows
  BY DEF SiteInv, SiteTypes, RowsOK
<1>2. saved \in PersonRows /\ saved.pic = folk[m].pic /\ saved.erased = folk[m].erased /\ saved.handle = h
  BY <1>1 DEF PersonRows
<1>3. /\ UNCHANGED <<reserved, musters, shots, site, faces, dues, departed, replaced>>
      /\ CommitChange("rename") /\ Only(m, saved) /\ \A n \in Folk : folk[n].handle # h
      /\ notices' = notices \cup [handle : {folk[m].handle} \ {"none"}, reason : {"held"}]
  BY DEF Rename, Freed
<1> HIDE DEF saved
<1>4. \A n \in Folk : folk'[n] = IF n = m THEN saved ELSE folk[n]
  BY <1>3 DEF Only, SiteInv, SiteTypes, RowsOK
<1>5. notices' \subseteq [handle : Handles, reason : {"held", "blocked"}]
  BY <1>1, <1>3 DEF SiteInv, SiteTypes, PersonRows
<1>6. NamesInv'
  <2>1. \A a, b \in Folk : folk'[a].handle # "none" /\ folk'[a].handle = folk'[b].handle => a = b
    BY <1>2, <1>3, <1>4 DEF NamesInv, SiteInv
  <2>2. \A n \in Folk : folk'[n].erased => n \in departed'
    BY <1>2, <1>3, <1>4 DEF NamesInv, SiteInv
  <2>3. \A n \in notices' : n.reason = "blocked" => n.handle \in departed'
    BY <1>3 DEF NamesInv, SiteInv
  <2> QED
    BY <1>3, <2>1, <2>2, <2>3 DEF NamesInv, SiteInv
<1>7. departed \subseteq departed' /\ departed' \subseteq Folk \cup Handles
  BY <1>3 DEF SiteInv, SiteTypes
<1> QED
  BY <1>2, <1>3, <1>5, <1>6, <1>7, MembersChanged

\* A picture is replaced; who must hear of it does, if anybody is to.
LEMMA PictureReplaced ==
    ASSUME SiteInv, NEW m \in Folk, NEW told \in BOOLEAN,
           folk[m].pic < Portraits, Only(m, [folk[m] EXCEPT !.pic = @ + 1]),
           replaced' = [replaced EXCEPT ![m] = Append(@, [at |-> hour, told |-> told])],
           dues' = dues \cup (IF told THEN {<<m, folk[m].pic>>} ELSE {}),
           UNCHANGED <<reserved, musters, shots, site, faces, notices, departed>>,
           CommitChange("portrait")
    PROVE  SiteInv'
<1> USE DEF SiteInv
<1> DEFINE saved == [folk[m] EXCEPT !.pic = @ + 1]
           seq == Append(replaced[m], [at |-> hour, told |-> told])
<1>1. /\ folk[m] \in PersonRows /\ folk[m].pic \in 1 .. Portraits /\ folk[m].pic \in Nat
      /\ Portraits \in Nat /\ hour \in Nat
      /\ replaced[m] \in Seq(Parting) /\ Len(replaced[m]) = folk[m].pic - 1
  BY RowTypes, PublicSiteAssumption
<1>2. saved \in PersonRows /\ saved.pic = folk[m].pic + 1 /\ saved.erased = folk[m].erased
      /\ saved.handle = folk[m].handle
  <2>1. folk[m].pic + 1 \in 1 .. Portraits
    BY <1>1
  <2> QED
    BY <1>1, <2>1 DEF PersonRows
<1>3. [at |-> hour, told |-> told] \in Parting
  BY <1>1 DEF Parting
<1>4. /\ seq \in Seq(Parting) /\ Len(seq) = folk[m].pic
      /\ seq[folk[m].pic] = [at |-> hour, told |-> told]
      /\ \A p \in 1 .. folk[m].pic : p < folk[m].pic => seq[p] = replaced[m][p]
  BY <1>1, <1>3
<1> HIDE DEF saved, seq
<1>5. folk' \in [Folk -> PersonRows] /\ \A n \in Folk : folk'[n] = IF n = m THEN saved ELSE folk[n]
  BY <1>2 DEF Only, SiteTypes, RowsOK, saved
<1>6. replaced' \in [Folk -> Seq(Parting)]
      /\ \A n \in Folk : replaced'[n] = IF n = m THEN seq ELSE replaced[n]
  BY <1>4 DEF SiteTypes, seq
<1>7. SiteTypes'
  <2>1. RowsOK'
    BY <1>5, CommitTypes DEF SiteTypes, RowsOK
  <2>2. \A n \in Folk : Len(replaced'[n]) = folk'[n].pic - 1
    <3>1. \A n \in Folk : Len(replaced[n]) = folk[n].pic - 1
      BY DEF SiteTypes
    <3> QED
      BY <1>1, <1>2, <1>4, <1>5, <1>6, <3>1
  <2>3. dues' \subseteq Folk \X (1 .. Portraits)
    BY <1>1 DEF SiteTypes
  <2> QED
    BY <1>6, <2>1, <2>2, <2>3, CommitTypes DEF SiteTypes
<1>8. NamesInv'
  <2>1. \A n \in Folk : folk'[n].handle = folk[n].handle /\ folk'[n].erased = folk[n].erased
    BY <1>2, <1>5
  <2> QED
    BY <2>1 DEF NamesInv
<1>9. DuesInv'
  <2> SUFFICES ASSUME NEW d \in dues' PROVE d[2] < folk'[d[1]].pic
    BY DEF DuesInv
  <2>1. CASE d \in dues
    <3>1. d[1] \in Folk /\ d[2] \in Nat /\ d[2] < folk[d[1]].pic
      BY <2>1, <1>1 DEF DuesInv, SiteTypes
    <3>2. folk[d[1]].pic \in Nat
      BY <3>1, RowTypes
    <3> QED
      BY <1>2, <1>5, <3>1, <3>2
  <2>2. CASE d = <<m, folk[m].pic>>
    BY <1>1, <1>2, <1>5, <2>2
  <2> QED
    BY <2>1, <2>2
<1>10. Grows(folk, replaced, hour, folk', replaced', dues')
  <2> SUFFICES ASSUME NEW n \in Folk
               PROVE  /\ folk[n].erased => folk'[n].erased
                      /\ folk[n].pic <= folk'[n].pic
                      /\ \A p \in 1 .. folk[n].pic : p < folk'[n].pic =>
                           /\ p < folk[n].pic => /\ replaced'[n][p].at = replaced[n][p].at
                                                 /\ replaced'[n][p].told => replaced[n][p].told
                           /\ p = folk[n].pic => /\ replaced'[n][p].at \in Nat
                                                 /\ replaced'[n][p].at >= hour
                                                 /\ replaced'[n][p].told => <<n, p>> \in dues'
    BY DEF Grows
  <2>1. CASE n = m
    <3>1. folk'[m].pic = folk[m].pic + 1 /\ folk'[m].erased = folk[m].erased
          /\ replaced'[m] = seq
      BY <1>2, <1>5, <1>6
    <3>2. /\ seq[folk[m].pic].at = hour
          /\ seq[folk[m].pic].told => <<m, folk[m].pic>> \in dues'
      BY <1>4
    <3> QED
      BY <1>1, <1>4, <2>1, <3>1, <3>2
  <2>2. CASE n # m
    <3>1. folk'[n] = folk[n] /\ replaced'[n] = replaced[n] /\ folk[n].pic \in Nat
      BY <1>5, <1>6, <2>2, RowTypes
    <3>2. \A p \in 1 .. folk[n].pic : p < folk'[n].pic => p < folk[n].pic /\ p # folk[n].pic
      BY <3>1
    <3>3. folk'[n].pic = folk[n].pic /\ folk[n].pic <= folk[n].pic
      BY <3>1
    <3> QED
      BY <3>1, <3>2, <3>3, Zenon
  <2> QED
    BY <2>1, <2>2
<1> QED
  BY <1>7, <1>8, <1>9, <1>10, CommitTypes, Committed

LEMMA PortraitKeeps ==
    ASSUME SiteInv, NEW m \in Folk, SavePortrait(m) \/ PictureDrifts(m) PROVE SiteInv'
<1>1. CASE SavePortrait(m)
  BY <1>1, PictureReplaced DEF SavePortrait
<1>2. CASE PictureDrifts(m)
  BY <1>2, PictureReplaced DEF PictureDrifts
<1> QED
  BY <1>1, <1>2

\* A change of an event, of an item or of the settings.
LEMMA RowsChanged ==
    ASSUME SiteInv, NEW k, CommitChange(k),
           UNCHANGED <<folk, reserved, faces, dues, notices, departed, replaced>>,
           musters' \in [Musters -> MusterRows], shots' \in [Shots -> ShotRows],
           site' \in SiteRows, site'.configured \/ site'.stats
    PROVE  SiteInv'
<1> USE DEF SiteInv
<1>1. SiteTypes'
  <2>1. RowsOK'
    BY CommitTypes DEF SiteTypes, RowsOK
  <2> QED
    BY <2>1, CommitTypes DEF SiteTypes
<1>2. NamesInv' /\ DuesInv'
  BY DEF NamesInv, DuesInv
<1>3. Grows(folk, replaced, hour, folk', replaced', dues')
  BY SamePictures
<1> QED
  BY <1>1, <1>2, <1>3, CommitTypes, Committed

LEMMA EventsKeep ==
    ASSUME SiteInv, NEW e \in Musters,
           AuthorEvent(e) \/ \E m \in Folk : MarkAttendance(e, m)
    PROVE  SiteInv'
<1>1. /\ musters \in [Musters -> MusterRows] /\ shots \in [Shots -> ShotRows]
      /\ site \in SiteRows /\ (site.configured \/ site.stats)
  BY DEF SiteInv, SiteTypes, RowsOK
<1>2. musters[e] \in MusterRows
  BY <1>1
<1>3. PICK saved, k : /\ saved \in MusterRows /\ CommitChange(k)
                    /\ musters' = [musters EXCEPT ![e] = saved]
  <2>1. CASE AuthorEvent(e)
    <3>1. PICK saved \in {[musters[e] EXCEPT !.old = TRUE], [musters[e] EXCEPT !.archived = ~@],
                        [musters[e] EXCEPT !.deleted = TRUE]} :
            musters' = [musters EXCEPT ![e] = saved]
      BY <2>1 DEF AuthorEvent
    <3>2. saved \in MusterRows
      BY <1>2, <3>1 DEF MusterRows
    <3>3. CommitChange("events")
      BY <2>1 DEF AuthorEvent
    <3> QED
      BY <3>1, <3>2, <3>3
  <2>2. ASSUME NEW m \in Folk, MarkAttendance(e, m)
        PROVE  \E saved, k : /\ saved \in MusterRows /\ CommitChange(k)
                            /\ musters' = [musters EXCEPT ![e] = saved]
    <3>1. PICK came \in SUBSET Folk : musters' = [musters EXCEPT ![e].with = came]
      <4>1. musters[e].with \subseteq Folk
        BY <1>2 DEF MusterRows
      <4> QED
        BY <2>2, <4>1 DEF MarkAttendance
    <3>2. [musters[e] EXCEPT !.with = came] \in MusterRows
      BY <1>2 DEF MusterRows
    <3>3. CommitChange("attendance")
      BY <2>2 DEF MarkAttendance
    <3>4. musters' = [musters EXCEPT ![e] = [musters[e] EXCEPT !.with = came]]
      BY <3>1
    <3> QED
      BY <3>2, <3>3, <3>4
  <2> QED
    BY <2>1, <2>2
<1>4. UNCHANGED <<folk, reserved, shots, site, faces, dues, notices, departed, replaced>>
  BY DEF AuthorEvent, MarkAttendance
<1>5. musters' \in [Musters -> MusterRows]
  BY <1>1, <1>3
<1> QED
  BY <1>1, <1>3, <1>4, <1>5, RowsChanged

LEMMA ShotsKeep ==
    ASSUME SiteInv, NEW i \in Shots, ModerateShot(i) PROVE SiteInv'
<1>1. /\ musters \in [Musters -> MusterRows] /\ shots \in [Shots -> ShotRows]
      /\ site \in SiteRows /\ (site.configured \/ site.stats)
  BY DEF SiteInv, SiteTypes, RowsOK
<1>2. shots[i] \in ShotRows
  BY <1>1
<1>3. PICK saved \in {[shots[i] EXCEPT !.status = "approved"], [shots[i] EXCEPT !.status = "declined"],
                    [shots[i] EXCEPT !.deleted = TRUE]} : shots' = [shots EXCEPT ![i] = saved]
  BY DEF ModerateShot
<1>4. saved \in ShotRows
  BY <1>2, <1>3 DEF ShotRows
<1>5. /\ UNCHANGED <<folk, reserved, musters, site, faces, dues, notices, departed, replaced>>
      /\ CommitChange("shots")
  BY DEF ModerateShot
<1>6. shots' \in [Shots -> ShotRows]
  BY <1>1, <1>3, <1>4
<1> QED
  BY <1>1, <1>5, <1>6, RowsChanged

LEMMA SettingsKeep ==
    ASSUME SiteInv, SwitchSetting \/ Dissolve PROVE SiteInv'
<1>1. /\ musters \in [Musters -> MusterRows] /\ shots \in [Shots -> ShotRows]
      /\ site \in SiteRows /\ (site.configured \/ site.stats)
  BY DEF SiteInv, SiteTypes, RowsOK
<1>2. site' \in SiteRows /\ (site'.configured \/ site'.stats)
  <2>1. CASE Dissolve
    BY <1>1, <2>1 DEF Dissolve, SiteRows
  <2>2. CASE SwitchSetting /\ ~site.configured
    BY <1>1, <2>2 DEF SwitchSetting, SiteRows
  <2>3. CASE SwitchSetting /\ site.configured
    <3>1. PICK saved \in {[site EXCEPT !.events = ~@], [site EXCEPT !.gallery = ~@],
                        [site EXCEPT !.stats = ~@]} : site' = saved
      BY <2>3 DEF SwitchSetting
    <3>2. saved \in SiteRows /\ saved.configured
      BY <1>1, <2>3, <3>1 DEF SiteRows
    <3> QED
      BY <3>1, <3>2
  <2> QED
    BY <2>1, <2>2, <2>3
<1>3. /\ UNCHANGED <<folk, reserved, musters, shots, faces, dues, notices, departed, replaced>>
      /\ \E k : CommitChange(k)
  BY DEF SwitchSetting, Dissolve
<1> QED
  BY <1>1, <1>2, <1>3, RowsChanged

\* A step that leaves the members, the clock and the requests as they are.
LEMMA VisitsKeep ==
    ASSUME SiteInv, UNCHANGED <<hour, folk, musters, shots, site, departed, visits, theme, served,
                                changes>>,
           \A m \in Folk : \A p \in 1 .. folk[m].pic : p < folk[m].pic =>
             replaced'[m][p].at = replaced[m][p].at
    PROVE  /\ DOMAIN visits' = Visits
           /\ \A v \in Visits : VisitInv(visits'[v], Unseen', departed', folk', replaced', hour')
<1>1. Unseen' = Unseen
  BY DEF Unseen
<1>2. ASSUME NEW v \in Visits PROVE VisitInv(visits[v], Unseen, departed, folk, replaced', hour)
  <2>1. VisitInv(visits[v], Unseen, departed, folk, replaced, hour)
    BY DEF SiteInv
  <2>2. FetchInv(visits[v], folk, replaced', hour)
    BY <2>1 DEF VisitInv, FetchInv
  <2> QED
    BY <2>1, <2>2 DEF VisitInv
<1> QED
  BY <1>1, <1>2 DEF SiteInv

LEMMA ReserveKeeps ==
    ASSUME SiteInv, NEW n \in notices, Reserve(n) PROVE SiteInv'
<1> USE DEF SiteInv
<1>1. /\ notices' = notices \ {n} /\ reserved' = [reserved EXCEPT ![n.handle] = n.reason]
      /\ UNCHANGED <<hour, folk, musters, shots, site, faces, dues, departed, replaced,
                     visits, theme, served, changes>>
  BY DEF Reserve
<1>2. n.handle \in Handles /\ n.reason \in {"held", "blocked"}
  BY DEF SiteTypes
<1>3. SiteTypes'
  BY <1>1, <1>2 DEF SiteTypes, RowsOK
<1>4. NamesInv'
  <2>1. \A h \in Handles : reserved'[h] = "blocked" => h \in departed
    BY <1>1, <1>2 DEF NamesInv, SiteTypes
  <2> QED
    BY <1>1, <2>1 DEF NamesInv
<1>5. FacesInv' /\ DuesInv'
  BY <1>1 DEF FacesInv, DuesInv
<1> QED
  BY <1>1, <1>3, <1>4, <1>5, VisitsKeep

LEMMA InvalidateKeeps ==
    ASSUME SiteInv, NEW d \in dues, InvalidateFace(d) PROVE SiteInv'
<1> USE DEF SiteInv
<1>1. /\ dues' = dues \ {d} /\ faces' = [faces EXCEPT ![d[1]] = NoFace]
      /\ UNCHANGED <<hour, folk, reserved, musters, shots, site, notices, departed,
                     replaced, visits, theme, served, changes>>
  BY DEF InvalidateFace
<1>2. d[1] \in Folk /\ d = <<d[1], d[2]>>
  BY DEF SiteTypes
<1>3. NoFace \in Faces /\ NoFace.until = 0
  BY PublicSiteAssumption DEF NoFace, Faces
<1>4. faces' \in [Folk -> Faces] /\ \A m \in Folk : faces'[m] = IF m = d[1] THEN NoFace ELSE faces[m]
  BY <1>1, <1>2, <1>3 DEF SiteTypes
<1>5. SiteTypes'
  BY <1>1, <1>4 DEF SiteTypes, RowsOK
<1>6. NamesInv' /\ DuesInv'
  BY <1>1 DEF NamesInv, DuesInv
<1>7. FacesInv'
  <2> SUFFICES ASSUME NEW m \in Folk
               PROVE  /\ faces'[m].until <= hour + AvatarTtl
                      /\ faces'[m].until > hour => faces'[m].pic \in 1 .. folk[m].pic
                      /\ faces'[m].until > hour /\ faces'[m].pic < folk[m].pic =>
                           /\ replaced[m][faces'[m].pic].at + AvatarTtl + FetchTime
                                >= faces'[m].until
                           /\ faces'[m].whole /\ replaced[m][faces'[m].pic].told =>
                                <<m, faces'[m].pic>> \in dues'
    BY <1>1 DEF FacesInv
  <2>1. CASE m = d[1]
    <3>1. faces'[m].until = 0 /\ hour \in Nat /\ AvatarTtl \in Nat
      BY <1>3, <1>4, <2>1, RowTypes
    <3> QED
      BY <3>1
  <2>2. CASE m # d[1]
    <3>1. faces'[m] = faces[m]
      BY <1>4, <2>2
    <3>2. \A p : <<m, p>> # d
      BY <1>2, <2>2
    <3> QED
      BY <1>1, <3>1, <3>2 DEF FacesInv
  <2> QED
    BY <2>1, <2>2
<1> QED
  BY <1>1, <1>5, <1>6, <1>7, VisitsKeep

LEMMA LostKeeps ==
    ASSUME SiteInv, NEW d \in dues, InvalidateLost(d) PROVE SiteInv'
<1> USE DEF SiteInv
<1> DEFINE o == d[1]
           q == d[2]
<1>1. /\ dues' = dues \ {d} /\ replaced' = [replaced EXCEPT ![o][q].told = FALSE]
      /\ UNCHANGED <<hour, folk, reserved, musters, shots, site, faces, notices, departed,
                     visits, theme, served, changes>>
  BY DEF InvalidateLost
<1>2. o \in Folk /\ q \in 1 .. Portraits /\ d = <<o, q>> /\ q < folk[o].pic
  BY DEF SiteTypes, DuesInv
<1> HIDE DEF o, q
<1> DEFINE saved == [replaced[o][q] EXCEPT !.told = FALSE]
           seq == [replaced[o] EXCEPT ![q] = saved]
<1>3. /\ replaced[o] \in Seq(Parting) /\ Len(replaced[o]) = folk[o].pic - 1
      /\ folk[o].pic \in Nat /\ Portraits \in Nat
  BY <1>2, RowTypes, PublicSiteAssumption
<1>4. q \in 1 .. Len(replaced[o])
  BY <1>2, <1>3
<1>5. saved \in Parting /\ saved.at = replaced[o][q].at /\ ~saved.told
  <2>1. replaced[o][q] \in Parting
    BY <1>3, <1>4
  <2> QED
    BY <2>1 DEF Parting
<1> HIDE DEF saved
<1>6. seq \in Seq(Parting) /\ Len(seq) = Len(replaced[o])
      /\ \A p \in 1 .. Len(replaced[o]) : seq[p] = IF p = q THEN saved ELSE replaced[o][p]
  BY <1>3, <1>4, <1>5
<1>7. replaced' = [replaced EXCEPT ![o] = seq]
  BY <1>1 DEF saved
<1> HIDE DEF seq
<1>8. replaced' \in [Folk -> Seq(Parting)]
      /\ \A m \in Folk : replaced'[m] = IF m = o THEN seq ELSE replaced[m]
  BY <1>2, <1>6, <1>7 DEF SiteTypes
<1>9. SiteTypes'
  <2>1. \A m \in Folk : Len(replaced'[m]) = folk[m].pic - 1
    BY <1>3, <1>6, <1>8 DEF SiteTypes
  <2> QED
    BY <1>1, <1>8, <2>1 DEF SiteTypes, RowsOK
<1>10. ASSUME NEW m \in Folk, NEW p \in 1 .. folk[m].pic, p < folk[m].pic
       PROVE  /\ replaced'[m][p].at = replaced[m][p].at
              /\ replaced'[m][p].told => replaced[m][p].told /\ <<m, p>> # d
  <2>1. CASE m = o
    <3>1. p \in 1 .. Len(replaced[o])
      BY <1>3, <1>10, <2>1
    <3>2. replaced'[m][p] = IF p = q THEN saved ELSE replaced[o][p]
      BY <1>6, <1>8, <2>1, <3>1
    <3>3. CASE p = q
      BY <1>5, <2>1, <3>2, <3>3
    <3>4. CASE p # q
      <4>1. <<m, p>> # d
        BY <1>2, <3>4
      <4> QED
        BY <2>1, <3>2, <3>4, <4>1
    <3> QED
      BY <3>3, <3>4
  <2>2. CASE m # o
    BY <1>2, <1>8, <2>2
  <2> QED
    BY <2>1, <2>2
<1>11. FacesInv'
  <2> SUFFICES ASSUME NEW m \in Folk
               PROVE  /\ faces[m].until <= hour + AvatarTtl
                      /\ faces[m].until > hour => faces[m].pic \in 1 .. folk[m].pic
                      /\ faces[m].until > hour /\ faces[m].pic < folk[m].pic =>
                           /\ replaced'[m][faces[m].pic].at + AvatarTtl + FetchTime
                                >= faces[m].until
                           /\ faces[m].whole /\ replaced'[m][faces[m].pic].told =>
                                <<m, faces[m].pic>> \in dues'
    BY <1>1 DEF FacesInv
  <2> QED
    BY <1>1, <1>10 DEF FacesInv
<1>12. NamesInv' /\ DuesInv'
  BY <1>1 DEF NamesInv, DuesInv
<1> QED
  BY <1>1, <1>9, <1>10, <1>11, <1>12, VisitsKeep

LEMMA UnaskedStands ==
    ASSUME NEW un, NEW dep, NEW fk, NEW rp, NEW h
    PROVE  VisitInv(Unasked, un, dep, fk, rp, h)
<1>1. /\ DOMAIN Unasked = VisitFields /\ Unasked.status = "idle" /\ Unasked.shows = {}
      /\ Unasked.credits = {}
  BY DEF Unasked, VisitFields
<1> QED
  BY <1>1 DEF VisitInv, FetchInv, Answers

LEMMA RestartKeeps ==
    ASSUME SiteInv, SiteRestart PROVE SiteInv'
<1> USE DEF SiteInv
<1>1. /\ changes < theme.changes /\ changes' = changes + 1
      /\ faces' = [m \in Folk |-> NoFace] /\ dues' = {} /\ notices' = {}
      /\ visits' = [v \in Visits |-> IF Reading(v) THEN Unasked ELSE visits[v]]
      /\ UNCHANGED <<hour, folk, reserved, musters, shots, site, departed, replaced,
                     theme, served>>
  BY DEF SiteRestart
<1>2. NoFace \in Faces /\ NoFace.until = 0
  BY PublicSiteAssumption DEF NoFace, Faces
<1>3. SiteTypes'
  <2>1. theme.changes \in Nat
    BY PublicSiteAssumption DEF SiteTypes
  <2>2. changes' \in 0 .. theme.changes
    BY <1>1, <2>1 DEF SiteTypes
  <2> QED
    BY <1>1, <1>2, <2>2 DEF SiteTypes, RowsOK
<1>4. NamesInv' /\ DuesInv'
  BY <1>1 DEF NamesInv, DuesInv
<1>5. FacesInv'
  <2> SUFFICES ASSUME NEW m \in Folk
               PROVE  faces'[m].until <= hour + AvatarTtl /\ ~(faces'[m].until > hour)
    BY <1>1 DEF FacesInv
  <2>1. faces'[m].until = 0 /\ hour \in Nat /\ AvatarTtl \in Nat
    BY <1>1, <1>2, RowTypes
  <2> QED
    BY <2>1
<1>6. Unseen' = Unseen
  BY <1>1 DEF Unseen
<1>7. ASSUME NEW v \in Visits
      PROVE  VisitInv(visits'[v], Unseen', departed', folk', replaced', hour')
  BY <1>1, <1>6, UnaskedStands
<1> QED
  BY <1>1, <1>3, <1>4, <1>5, <1>7

LEMMA HourKeeps ==
    ASSUME SiteInv, HourPasses PROVE SiteInv'
<1> USE DEF SiteInv
<1>1. /\ hour < theme.hours /\ hour' = hour + 1
      /\ \A v \in Visits : Fetching(v) => visits[v].late > hour
      /\ UNCHANGED <<folk, reserved, musters, shots, site, faces, dues, notices, departed,
                     replaced, theme, served, changes>> /\ Unbar
  BY DEF HourPasses, world
<1>2. hour \in Nat /\ theme.hours \in Nat
  BY PublicSiteAssumption DEF SiteTypes, RowsOK
<1>3. hour' \in Nat /\ hour <= hour' /\ hour' \in 0 .. theme.hours
  BY <1>1, <1>2
<1>4. SiteTypes'
  BY <1>1, <1>3 DEF SiteTypes, RowsOK
<1>5. NamesInv' /\ DuesInv'
  BY <1>1 DEF NamesInv, DuesInv
<1>6. ASSUME NEW v \in Visits, Fetching(v) PROVE hour' <= visits[v].late
  <2>1. visits[v].late \in Nat
    BY <1>6 DEF VisitInv, FetchInv, Fetching, Reading
  <2> QED
    BY <1>1, <1>2, <1>6, <2>1
<1>7. Grows(folk, replaced, hour, folk', replaced', dues')
  BY <1>1, SamePictures
<1> QED
  BY <1>1, <1>3, <1>4, <1>5, <1>6, <1>7, Committed

LEMMA PagesScripted ==
    ASSUME NEW p \in AllPages
    PROVE  Scripted(p, Pages[p])
<1> USE DEF Scripted, Allowed, Pages, OpenReads, PersonPages, PublicPages, ManagerPages,
            MemberPages, KeptPages, QueuePages
<1>1. CASE p = "avatar"
  BY <1>1 DEF AvatarFor
<1>2. CASE p = "profile"
  BY <1>2 DEF RenderProfile
<1>3. CASE p = "feed"
  BY <1>3 DEF GalleryFor
<1>4. CASE p = "roster"
  BY <1>4 DEF RenderRoster
<1>5. CASE p = "home"
  BY <1>5 DEF RenderHome
<1>6. CASE p = "events"
  BY <1>6 DEF RenderEvents
<1>7. CASE p = "event"
  BY <1>7 DEF RenderEvent
<1>8. CASE p = "gallery"
  BY <1>8 DEF RenderIndex
<1>9. CASE p = "item"
  BY <1>9 DEF RenderItem
<1>10. CASE p = "sitemap"
  BY <1>10 DEF RenderSitemap
<1>11. CASE p = "stats"
  BY <1>11 DEF GetStats
<1>12. CASE p = "about"
  BY <1>12 DEF GetProfile
<1>13. CASE p = "papers"
  BY <1>13 DEF GetDocuments
<1>14. CASE p = "memberEvents"
  BY <1>14
<1>15. CASE p = "managerEvents"
  BY <1>15
<1>16. CASE p = "memberEvent"
  BY <1>16
<1>17. CASE p = "managerEvent"
  BY <1>17
<1>18. CASE p = "history"
  BY <1>18 DEF GetEvents
<1>19. CASE p = "answers"
  BY <1>19 DEF GetRsvps
<1>20. CASE p = "attendees"
  BY <1>20 DEF ListAttendees
<1>21. CASE p = "roll"
  BY <1>21 DEF ListRsvpRoster
<1>22. CASE p = "archive"
  BY <1>22 DEF FindArchive
<1>23. CASE p = "queue"
  BY <1>23 DEF ModerationQueue
<1>24. CASE p = "summary"
  BY <1>24 DEF PendingSummary
<1>25. CASE p = "members"
  BY <1>25 DEF FindAllMembers
<1>26. CASE p = "record"
  BY <1>26 DEF GetServiceRecord
<1>27. CASE p = "command"
  BY <1>27 DEF GetCommandInfo
<1>28. CASE p = "export"
  BY <1>28 DEF ExportSelfData
<1> QED
  BY <1>1, <1>2, <1>3, <1>4, <1>5, <1>6, <1>7, <1>8, <1>9, <1>10, <1>11, <1>12, <1>13,
     <1>14, <1>15, <1>16, <1>17, <1>18, <1>19, <1>20, <1>21, <1>22, <1>23, <1>24, <1>25,
     <1>26, <1>27, <1>28 DEF AllPages, OtherPages

LEMMA OpenKeeps ==
    ASSUME SiteInv, NEW v \in Visits, NEW p \in theme.pages, NEW a, OpenPage(v, p, a)
    PROVE  SiteInv'
<1> USE DEF SiteInv
<1> DEFINE gone == {m \in Folk : folk[m].erased}
           n == [Unasked EXCEPT !.page = p, !.of = a, !.todo = {Pages[p]},
                                !.status = "reading", !.barred = Unseen[p], !.gone = gone]
<1>1. /\ served < theme.visits /\ served' = served + 1 /\ a \in Asks[p]
      /\ visits' = [visits EXCEPT ![v] = n]
      /\ UNCHANGED <<hour, folk, reserved, musters, shots, site, faces, dues, notices, departed,
                     replaced, theme, changes>>
  BY DEF OpenPage, world
<1>2. theme \in Themes /\ p \in AllPages
  BY PagesAssumption, PagesAre DEF SiteTypes
<1>3. /\ DOMAIN n = VisitFields /\ n.page = p /\ n.of = a /\ n.todo = {Pages[p]} /\ n.status = "reading"
      /\ n.barred = Unseen[p] /\ n.gone = gone /\ n.shows = {} /\ n.credits = {}
  BY DEF Unasked, VisitFields
<1> HIDE DEF n
<1>4. Scripted(p, Pages[p])
  BY <1>2, PagesScripted
<1>5. PageInv(n, Unseen, folk)
  <2>1. p \in PersonPages => a \in Folk \cup Handles
    BY <1>1, <1>2, PagesAre DEF Asks, PersonPages, AllPages
  <2>2. p = "avatar" => a \in Folk /\ Pages[p] = <<"regiment", "picture", "fetch">>
    BY <1>1, <1>2, PagesAre DEF Asks, Pages, AvatarFor
  <2> QED
    BY <1>2, <1>3, <1>4, <2>1, <2>2 DEF PageInv
<1>6. <<"fetch">> \notin n.todo
  <2>1. CASE p = "avatar"
    BY <1>3, <2>1, AvatarScripts DEF Pages, AvatarFor
  <2>2. CASE p # "avatar"
    BY <1>2, <1>3, <1>4, <2>2, FetchesOnly
  <2> QED
    BY <2>1, <2>2
<1>7. Stands(n)
  BY <1>3, <1>5, <1>6 DEF Stands, VisitInv, FetchInv, Answers
<1>8. SiteTypes'
  <2>1. theme.visits \in Nat
    BY <1>2, PublicSiteAssumption
  <2>2. served' \in 0 .. theme.visits
    BY <1>1, <2>1 DEF SiteTypes
  <2> QED
    BY <1>1, <2>2 DEF SiteTypes, RowsOK
<1>9. NamesInv' /\ FacesInv' /\ DuesInv'
  BY <1>1 DEF NamesInv, FacesInv, DuesInv
<1> QED
  BY <1>1, <1>7, <1>8, <1>9, RequestStep

LEMMA ReadKeeps ==
    ASSUME SiteInv, NEW v \in Visits, ReadOn(v) \/ FetchFails(v)
    PROVE  SiteInv'
<1>1. UNCHANGED <<hour, folk, reserved, musters, shots, site, faces, dues, notices, departed,
                  replaced, theme, served, changes>>
  BY DEF ReadOn, FetchFails, world
<1> DEFINE r == visits[v]
<1>2. Stands(r) /\ r.status = "reading" /\ RowsOK /\ NamesInv
  BY DEF SiteInv, Stands, ReadOn, FetchFails, Fetching, Reading, SiteTypes
<1>3. PICK n : Stands(n) /\ visits' = [visits EXCEPT ![v] = n]
  <2>1. CASE FetchFails(v)
    <3>1. <<"fetch">> \in r.todo /\ visits' = [visits EXCEPT ![v] = TurnAway(r, <<"fetch">>, "missing")]
      BY <2>1 DEF FetchFails, Fetching
    <3>2. Stands(TurnAway(r, <<"fetch">>, "missing"))
      BY <1>2, <3>1, TurnedAway DEF Stands
    <3> QED
      BY <3>1, <3>2
  <2>2. CASE ReadOn(v)
    <3>1. PICK c \in r.todo :
            /\ Head(c) # "fetch"
            /\ visits' = [visits EXCEPT ![v] =
                 IF Head(c) \in Gates THEN AtGate(@, c)
                 ELSE IF Head(c) = "picture" THEN AtPicture(@, c)
                 ELSE IF Head(c) = "departed" THEN AtDeparted(@)
                 ELSE AtRows(@, c)]
      BY <2>2 DEF ReadOn
    <3> DEFINE n == IF Head(c) \in Gates THEN AtGate(r, c)
                    ELSE IF Head(c) = "picture" THEN AtPicture(r, c)
                    ELSE IF Head(c) = "departed" THEN AtDeparted(r)
                    ELSE AtRows(r, c)
    <3>2. visits' = [visits EXCEPT ![v] = n]
      BY <3>1
    <3> HIDE DEF r
    <3>3. ASSUME Head(c) \in Gates PROVE Stands(AtGate(r, c))
      BY <1>2, <3>3, GatePassed
    <3>4. ASSUME Head(c) = "picture" PROVE Stands(AtPicture(r, c))
      BY <1>2, <3>4, PictureFound
    <3>5. ASSUME Head(c) = "departed" PROVE Stands(AtDeparted(r))
      BY <1>2, <3>5, DepartedIs
    <3>6. ASSUME Head(c) \notin Gates, Head(c) \notin {"picture", "departed"}
          PROVE  Stands(AtRows(r, c))
      BY <1>2, <3>1, <3>6, RowsRead
    <3>7. Stands(n)
      BY <3>3, <3>4, <3>5, <3>6
    <3> QED
      BY <3>2, <3>7
  <2> QED
    BY <2>1, <2>2
<1>4. SiteTypes' /\ NamesInv' /\ FacesInv' /\ DuesInv'
  BY <1>1 DEF SiteInv, SiteTypes, RowsOK, NamesInv, FacesInv, DuesInv
<1> QED
  BY <1>1, <1>3, <1>4, RequestStep DEF SiteInv

\* What a fetch puts into the cache was current within the timeout.
LEMMA RememberKeeps ==
    ASSUME SiteInv, NEW v \in Visits, NEW dropped, Remember(v, dropped)
    PROVE  SiteInv'
<1> DEFINE r == visits[v]
           m == r.of
           face == [pic |-> r.pic, until |-> hour + AvatarTtl, whole |-> r.pic = folk[m].pic]
<1>1. /\ r.status = "reading" /\ <<"fetch">> \in r.todo
      /\ faces' = [n \in Folk |-> IF n = m THEN face ELSE IF n \in dropped THEN NoFace ELSE faces[n]]
      /\ visits' = [visits EXCEPT ![v] = GoOn(r, <<"fetch">>, <<>>)]
      /\ UNCHANGED <<hour, folk, reserved, musters, shots, site, dues, notices,
                     departed, replaced, theme, served, changes>>
  BY DEF Remember, Fetching, Reading
<1>2. Stands(r) /\ RowsOK /\ NamesInv /\ SiteTypes
  BY DEF SiteInv, Stands, SiteTypes
<1> HIDE DEF r
<1>3. r.page = "avatar"
  BY <1>1, <1>2, ReadStands, FetchesOnly
<1>4. Stands(GoOn(r, <<"fetch">>, <<>>))
  <2>1. DOMAIN r = VisitFields /\ r.shows \cap r.barred = {}
    BY <1>1, <1>2, ReadStands
  <2>2. VisitInv(r, Unseen, departed, folk, replaced, hour)
    BY <1>2 DEF Stands
  <2> QED
    BY <1>1, <1>3, <2>1, <2>2, PictureDone DEF Stands
<1>5. /\ m \in Folk /\ r.pic \in 1 .. folk[m].pic /\ r.late \in Nat /\ hour <= r.late
      /\ r.pic < folk[m].pic => replaced[m][r.pic].at + FetchTime >= r.late
  BY <1>1, <1>2 DEF Stands, VisitInv, FetchInv
<1>6. /\ folk[m].pic \in 1 .. Portraits /\ Portraits \in Nat /\ hour \in Nat /\ AvatarTtl \in Nat
      /\ FetchTime \in Nat
      /\ r.pic < folk[m].pic => replaced[m][r.pic].at \in Nat
  BY <1>2, <1>5, RowTypes, PublicSiteAssumption
<1> HIDE DEF m
<1>7. face \in Faces /\ NoFace \in Faces /\ NoFace.until = 0
  <2>1. r.pic \in 0 .. Portraits /\ hour + AvatarTtl \in Nat
    BY <1>5, <1>6
  <2> QED
    BY <2>1, <1>6 DEF NoFace, Faces
<1>8. faces' \in [Folk -> Faces]
  BY <1>1, <1>2, <1>7 DEF SiteTypes
<1>9. SiteTypes' /\ NamesInv' /\ DuesInv'
  BY <1>1, <1>8 DEF SiteInv, SiteTypes, RowsOK, NamesInv, DuesInv
<1>10. FacesInv'
  <2> SUFFICES ASSUME NEW n \in Folk
               PROVE  /\ faces'[n].until <= hour + AvatarTtl
                      /\ faces'[n].until > hour => faces'[n].pic \in 1 .. folk[n].pic
                      /\ faces'[n].until > hour /\ faces'[n].pic < folk[n].pic =>
                           /\ replaced[n][faces'[n].pic].at + AvatarTtl + FetchTime
                                >= faces'[n].until
                           /\ faces'[n].whole /\ replaced[n][faces'[n].pic].told =>
                                <<n, faces'[n].pic>> \in dues
    BY <1>1 DEF FacesInv
  <2>1. CASE n = m
    <3>1. /\ faces'[n].pic = r.pic /\ faces'[n].until = hour + AvatarTtl
          /\ (faces'[n].whole => r.pic = folk[m].pic)
      BY <1>1, <2>1
    <3>2. r.pic < folk[m].pic => replaced[m][r.pic].at + AvatarTtl + FetchTime >= hour + AvatarTtl
      BY <1>5, <1>6
    <3> QED
      BY <1>5, <1>6, <2>1, <3>1, <3>2
  <2>2. CASE n # m /\ n \in dropped
    <3>1. faces'[n].until = 0
      BY <1>1, <1>7, <2>2
    <3> QED
      BY <1>6, <3>1
  <2>3. CASE n # m /\ n \notin dropped
    <3>1. faces'[n] = faces[n]
      BY <1>1, <2>3
    <3> QED
      BY <3>1 DEF SiteInv, FacesInv
  <2> QED
    BY <2>1, <2>2, <2>3
<1> QED
  BY <1>1, <1>4, <1>9, <1>10, RequestStep DEF SiteInv

LEMMA SiteBegins ==
    ASSUME SiteInit PROVE SiteInv
<1> USE DEF SiteInit
<1>1. RowsOK
  <2>1. folk \in [Folk -> PersonRows]
    <3>1. 1 \in 1 .. Portraits
      BY PublicSiteAssumption
    <3>2. [standing : {"applicant", "pending", "enrolled"}, banned : BOOLEAN, until : Nat,
           erased : {FALSE}, handle : Handles \cup {"none"}, pic : {1}] \subseteq PersonRows
      BY <3>1 DEF PersonRows
    <3>3. folk \in [Folk -> [standing : {"applicant", "pending", "enrolled"}, banned : BOOLEAN,
                            until : Nat, erased : {FALSE}, handle : Handles \cup {"none"},
                            pic : {1}]]
      BY PublicSiteAssumption
    <3> QED
      BY <3>2, <3>3
  <2>2. musters \in [Musters -> MusterRows] /\ shots \in [Shots -> ShotRows]
    BY PublicSiteAssumption DEF MusterRows, ShotRows
  <2>3. site \in SiteRows /\ site.stats
    <3>1. Beginning.site \in [configured : BOOLEAN, events : BOOLEAN, gallery : BOOLEAN,
                              stats : {TRUE}, dissolved : BOOLEAN]
      BY PublicSiteAssumption
    <3>2. PICK c \in BOOLEAN : site = [Beginning.site EXCEPT !.configured = c]
      OBVIOUS
    <3> QED
      BY <3>1, <3>2 DEF SiteRows
  <2> QED
    BY <2>1, <2>2, <2>3 DEF RowsOK
<1>2. \A m \in Folk : folk[m].pic = 1 /\ ~folk[m].erased
  BY PublicSiteAssumption
<1>3. SiteTypes
  <2>1. NoFace \in Faces
    BY PublicSiteAssumption DEF NoFace, Faces
  <2>2. ASSUME NEW m \in Folk PROVE Len(replaced[m]) = folk[m].pic - 1
    <3>1. replaced[m] = <<>> /\ folk[m].pic = 1
      BY <1>2
    <3> QED
      BY <3>1
  <2>3. replaced \in [Folk -> Seq(Parting)]
    OBVIOUS
  <2>4. 0 \in 0 .. theme.hours /\ 0 \in 0 .. theme.visits /\ 0 \in 0 .. theme.changes
    BY PublicSiteAssumption
  <2> QED
    BY <1>1, <2>1, <2>2, <2>3, <2>4 DEF SiteTypes
<1>4. NamesInv
  <2>1. \A m, n \in Folk : folk[m].handle # "none" /\ folk[m].handle = folk[n].handle => m = n
    BY PublicSiteAssumption
  <2> QED
    BY <1>2, <2>1 DEF NamesInv
<1>5. FacesInv /\ DuesInv
  <2>1. \A m \in Folk : faces[m].until = 0
    BY DEF NoFace
  <2>2. hour = 0 /\ AvatarTtl \in Nat
    BY PublicSiteAssumption
  <2> QED
    BY <2>1, <2>2 DEF FacesInv, DuesInv
<1> QED
  BY <1>3, <1>4, <1>5, UnaskedStands DEF SiteInv

LEMMA SiteStep ==
    SiteInv /\ [SiteNext]_siteVars => SiteInv'
<1> SUFFICES ASSUME SiteInv, [SiteNext]_siteVars PROVE SiteInv'
  OBVIOUS
<1>1. ASSUME NEW v \in Visits, NEW p \in theme.pages, NEW a \in Asks[p], OpenPage(v, p, a)
      PROVE  SiteInv'
  BY <1>1, OpenKeeps
<1>2. ASSUME NEW v \in Visits, ReadOn(v) \/ FetchFails(v) PROVE SiteInv'
  BY <1>2, ReadKeeps
<1>3. ASSUME NEW v \in Visits, NEW dropped, Remember(v, dropped) PROVE SiteInv'
  BY <1>3, RememberKeeps
<1>4. ASSUME NEW m \in Folk, Discipline(m) PROVE SiteInv'
  BY <1>4, DisciplineKeeps
<1>5. ASSUME NEW m \in Folk, Enrol(m) PROVE SiteInv'
  BY <1>5, EnrolKeeps
<1>6. ASSUME NEW m \in Folk, EraseMember(m) PROVE SiteInv'
  BY <1>6, EraseKeeps
<1>7. ASSUME NEW m \in Folk, SavePortrait(m) \/ PictureDrifts(m) PROVE SiteInv'
  BY <1>7, PortraitKeeps
<1>8. ASSUME NEW m \in Folk, NEW h \in Handles, Rename(m, h) PROVE SiteInv'
  BY <1>8, RenameKeeps
<1>9. ASSUME NEW e \in Musters, AuthorEvent(e) \/ \E m \in Folk : MarkAttendance(e, m)
      PROVE  SiteInv'
  BY <1>9, EventsKeep
<1>10. ASSUME NEW i \in Shots, ModerateShot(i) PROVE SiteInv'
  BY <1>10, ShotsKeep
<1>11. ASSUME NEW n \in notices, Reserve(n) PROVE SiteInv'
  BY <1>11, ReserveKeeps
<1>12. ASSUME NEW d \in dues, InvalidateFace(d) \/ InvalidateLost(d) PROVE SiteInv'
  BY <1>12, InvalidateKeeps, LostKeeps
<1>13. CASE SwitchSetting \/ Dissolve
  BY <1>13, SettingsKeep
<1>14. CASE SiteRestart
  BY <1>14, RestartKeeps
<1>15. CASE HourPasses
  BY <1>15, HourKeeps
<1>16. CASE UNCHANGED siteVars
  <2>1. Unseen' = Unseen
    BY <1>16 DEF siteVars, world, Unseen
  <2> QED
    BY <1>16, <2>1 DEF siteVars, world, SiteInv, SiteTypes, RowsOK, NamesInv, FacesInv, DuesInv
<1> QED
  BY <1>1, <1>2, <1>3, <1>4, <1>5, <1>6, <1>7, <1>8, <1>9, <1>10, <1>11, <1>12, <1>13, <1>14,
     <1>15, <1>16 DEF SiteNext

LEMMA SiteKept == SiteSpec => []SiteInv
  BY SiteBegins, SiteStep, PTL DEF SiteSpec

\* A member's address is that member's own.
LEMMA AddressIs ==
    ASSUME SiteTypes, NamesInv, NEW m \in Servable
    PROVE  Found("person", Address(m)) = {m}
<1>1. m \in Folk /\ "none" \notin Folk /\ Folk \cap Handles = {}
  BY PublicSiteAssumption DEF Servable
<1>2. ASSUME NEW n \in Folk PROVE folk[n].handle \in Handles \cup {"none"}
  BY DEF SiteTypes, RowsOK, PersonRows
<1>3. ASSUME NEW n \in Addressed(Address(m)) PROVE n = m
  <2>1. n \in Folk /\ (Address(m) = n \/ Address(m) = folk[n].handle)
    BY DEF Addressed
  <2>2. CASE folk[m].handle = "none"
    <3>1. Address(m) = m
      BY <2>2 DEF Address
    <3>2. folk[n].handle # m
      BY <1>1, <1>2, <2>1
    <3> QED
      BY <2>1, <3>1, <3>2
  <2>3. CASE folk[m].handle # "none"
    <3>1. Address(m) = folk[m].handle
      BY <2>3 DEF Address
    <3>2. folk[m].handle # n
      BY <1>1, <1>2, <2>1
    <3> QED
      BY <1>1, <2>1, <2>3, <3>1, <3>2 DEF NamesInv
  <2> QED
    BY <2>2, <2>3
<1>4. m \in Addressed(Address(m))
  BY <1>1 DEF Addressed, Address
<1> QED
  BY <1>3, <1>4 DEF Found

LEMMA SiteTells == SiteInv => SiteTypeOK /\ PublicSiteHolds
<1> SUFFICES ASSUME SiteInv PROVE SiteTypeOK /\ PublicSiteHolds
  OBVIOUS
<1>1. ASSUME NEW v \in Visits
      PROVE  /\ visits[v].status \in Answers
             /\ visits[v].shows \cap visits[v].barred = {}
             /\ visits[v].credits \cap visits[v].gone = {}
             /\ visits[v].status = "gone" => visits[v].of \in departed
  BY DEF SiteInv, VisitInv
<1>2. SiteTypeOK
  BY <1>1 DEF SiteTypeOK, SiteInv, SiteTypes, RowsOK, PersonRows, MusterRows, ShotRows,
              SiteRows, Faces, Answers
<1>3. \A m \in Servable : Found("person", Address(m)) = {m}
  BY AddressIs DEF SiteInv
<1>4. ListPublic \subseteq GetPublic
  BY DEF ListPublic, GetPublic
<1>5. \A manages \in BOOLEAN : ListForMember(manages) \subseteq GetForMember(manages)
  BY DEF ListForMember, GetForMember
<1>6. ASSUME NEW m \in Folk, faces[m].until > hour, faces[m].pic < folk[m].pic
      PROVE  /\ hour - replaced[m][faces[m].pic].at < AvatarTtl + FetchTime
             /\ faces[m].whole /\ replaced[m][faces[m].pic].told => <<m, faces[m].pic>> \in dues
  <2>1. /\ faces[m].pic \in 1 .. folk[m].pic
        /\ replaced[m][faces[m].pic].at + AvatarTtl + FetchTime >= faces[m].until
        /\ faces[m].whole /\ replaced[m][faces[m].pic].told => <<m, faces[m].pic>> \in dues
    BY <1>6 DEF SiteInv, FacesInv
  <2>2. /\ replaced[m][faces[m].pic].at \in Nat /\ hour \in Nat /\ faces[m].until \in Nat
        /\ AvatarTtl \in Nat /\ FetchTime \in Nat
    BY <1>6, <2>1, RowTypes DEF SiteInv
  <2> QED
    BY <1>6, <2>1, <2>2
<1> QED
  BY <1>1, <1>2, <1>3, <1>4, <1>5, <1>6 DEF PublicSiteHolds

\* The public site keeps its promises (PublicSiteHolds), and its state has the types
\* its columns have: for any members, events, items, requests and changes.
THEOREM PublicSiteSound == SiteSpec => [](SiteTypeOK /\ PublicSiteHolds)
  BY SiteKept, SiteTells, PTL
================================================================================
