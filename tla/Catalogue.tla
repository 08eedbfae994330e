-------------------------------- MODULE Catalogue -------------------------------
(***************************************************************************)
(* The rank ladder and the medal catalogue: what staff create, edit, link, *)
(* reorder and remove, while members are appointed to the ranks and        *)
(* awarded the medals.                                                     *)
(*                                                                         *)
(* Every handler checks first and writes after an await.  What the checks  *)
(* miss the database may still refuse: the unique indexes (name, and for   *)
(* ranks precedence), and the key of members.rank_id.  The key of          *)
(* member_medals does not refuse: with a medal its awards go too.          *)
(***************************************************************************)
EXTENDS Integers, FiniteSets, FiniteSetsExt

CONSTANTS
    RankIds, MedalIds,  \* the rows there may be
    Names,      \* what an entry may be called
    Protected,  \* protected-ranks.ts: the names of ranks the code looks up
    Offset,     \* REORDER_OFFSET
    MaxHeld,    \* bound: holders of one entry
    Staff,      \* requests under way at once, numbered
    MaxErrands  \* bound: requests in all

Entries == RankIds \cup MedalIds
Kin(e) == IF e \in RankIds THEN RankIds ELSE MedalIds

ASSUME CatalogueAssumption ==
    /\ RankIds \cap MedalIds = {} /\ IsFiniteSet(Entries) /\ RankIds # {}
    /\ Protected \subseteq Names /\ Protected # {}
    /\ Staff \subseteq Nat /\ {Offset, MaxHeld, MaxErrands} \subseteq Nat
    /\ Cardinality(RankIds) <= Offset

VARIABLES
    entries, \* the rows of ranks and medals
    held,    \* members with the rank, deleted accounts counted; awards of the medal
    errands, \* [Staff -> a request and what it has read]
    started, \* how much of MaxErrands is spent
    lost     \* history: awards that went with their medal

catalogueVars == <<entries, held, errands, started, lost>>

NoErrand == [op |-> "none", entry |-> "none", copy |-> <<>>, order |-> <<>>,
             slipped |-> FALSE]
There(e) == entries[e].there
OtherEntries(e) == {f \in Kin(e) \ {e} : There(f)}
NameFree(e, name) == \A f \in OtherEntries(e) : entries[f].name # name
PlaceFree(e, place) == \A f \in OtherEntries(e) : entries[f].place # place
\* The unique indexes.
Unique(e, row) == /\ NameFree(e, row.name)
                  /\ e \in RankIds => PlaceFree(e, row.place)

CatalogueInit ==
    /\ \E first \in RankIds, name \in Protected :
         entries = [e \in Entries |->
           [there |-> e = first \/ e \in MedalIds, name |-> name, place |-> 1,
            linked |-> FALSE]]
    /\ Cardinality(MedalIds) <= 1
    /\ held = [e \in Entries |-> 0]
    /\ errands = [s \in Staff |-> NoErrand]
    /\ started = 0 /\ lost = FALSE

BeginErrand(s, errand) ==
    /\ \A r \in Staff : r <= s => (errands[r].op = "none" <=> r = s)
    /\ started < MaxErrands /\ started' = started + 1
    /\ errands' = [errands EXCEPT ![s] = errand]
End(s) == errands' = [errands EXCEPT ![s] = NoErrand]

(***************************************************************************)
(* Create, edit, link: checks, an await, and the save of the whole row.    *)
(***************************************************************************)

\* nextPrecedence(): after the last one there is.
NextPlace(e) == Max({0} \cup {entries[f].place : f \in OtherEntries(e)}) + 1
Places(e) == 1 .. Cardinality(Kin(e)) + 1

Create(s, e) ==
    /\ ~There(e)
    /\ \E name \in Names, place \in Places(e) \cup {NextPlace(e)} :
         /\ NameFree(e, name)
         /\ e \in RankIds => PlaceFree(e, place)
         /\ BeginErrand(s, [NoErrand EXCEPT !.op = "save", !.entry = e,
              !.copy = [there |-> TRUE, name |-> name, place |-> place, linked |-> FALSE]])
    /\ UNCHANGED <<entries, held, lost>>

\* assertNotProtected(): of ranks only.
Barred_Never(e) == FALSE

Barred(e) == e \in RankIds /\ entries[e].name \in Protected

\* A new name is refused to a protected rank; both services check it, only the
\* one of ranks checks the place.
Update(s, e) ==
    /\ There(e)
    /\ \E name \in Names, place \in Places(e) \cup {entries[e].place} :
         /\ name # entries[e].name => ~Barred(e) /\ NameFree(e, name)
         /\ place # entries[e].place /\ e \in RankIds => PlaceFree(e, place)
         /\ BeginErrand(s, [NoErrand EXCEPT !.op = "save", !.entry = e,
              !.copy = [entries[e] EXCEPT !.name = name, !.place = place]])
    /\ UNCHANGED <<entries, held, lost>>

\* linkDiscord() asks the gateway about the role, unlinkDiscord() nobody.
LinkDiscord(s, e) ==
    /\ There(e)
    /\ \E linked \in BOOLEAN :
         BeginErrand(s, [NoErrand EXCEPT !.op = "save", !.entry = e,
                                   !.copy = [entries[e] EXCEPT !.linked = linked]])
    /\ UNCHANGED <<entries, held, lost>>

\* The copy is written over the row, or inserted again where the row is gone.
SaveEntry(s) ==
    LET e == errands[s].entry
        row == errands[s].copy
    IN /\ errands[s].op = "save"
       /\ entries' = IF Unique(e, row) THEN [entries EXCEPT ![e] = row] ELSE entries
       /\ End(s)
       /\ UNCHANGED <<held, started, lost>>

(***************************************************************************)
(* Removal: refused to what is in use, as far as the count could see.      *)
(***************************************************************************)

\* Nobody is counted.
InUse_Never(e) == FALSE

\* The members with the rank, the awards of the medal.
InUse(e) == held[e] > 0

RemoveEntry(s, e) ==
    /\ There(e) /\ ~Barred(e) /\ ~InUse(e)
    /\ BeginErrand(s, [NoErrand EXCEPT !.op = "remove", !.entry = e])
    /\ UNCHANGED <<entries, held, lost>>

\* RESTRICT for a rank, CASCADE for a medal.
RemoveRow(s) ==
    LET e == errands[s].entry
    IN /\ errands[s].op = "remove"
       /\ IF e \in RankIds /\ held[e] > 0 THEN UNCHANGED <<entries, held, lost>>
          ELSE /\ entries' = [entries EXCEPT ![e].there = FALSE]
               /\ held' = [held EXCEPT ![e] = 0]
               /\ lost' = (lost \/ (held[e] > 0 /\ ~errands[s].slipped))
       /\ End(s)
       /\ UNCHANGED started

(***************************************************************************)
(* Reorder: the list is checked, then one transaction moves all rows out   *)
(* of the way and numbers those of the list from 1.                        *)
(***************************************************************************)
Listed(kind) == {e \in kind : There(e)}
Reorder(s, kind) ==
    /\ Listed(kind) # {}
    /\ \E order \in [Listed(kind) -> 1 .. Cardinality(Listed(kind))] :
         /\ \A e, f \in Listed(kind) : e # f => order[e] # order[f]
         /\ BeginErrand(s, [NoErrand EXCEPT !.op = "reorder", !.order = order,
                        !.entry = CHOOSE e \in Listed(kind) : TRUE])
    /\ UNCHANGED <<entries, held, lost>>

\* Moved by the offset, row after row, one rank may meet another: rolled back.
Meets(kind) == \E e, f \in Listed(kind) : entries[e].place + Offset = entries[f].place
ReorderRows(s) ==
    LET order == errands[s].order
        kind == Kin(errands[s].entry)
        moved == [e \in Entries |->
                    IF e \notin Listed(kind) THEN entries[e]
                    ELSE IF e \in DOMAIN order
                      THEN [entries[e] EXCEPT !.place = order[e]]
                      ELSE [entries[e] EXCEPT !.place = @ + Offset]]
    IN /\ errands[s].op = "reorder"
       /\ \/ entries' = moved
          \/ kind = RankIds /\ Meets(kind) /\ UNCHANGED entries
       /\ End(s)
       /\ UNCHANGED <<held, started, lost>>

(***************************************************************************)
(* Members: appointed or awarded, once the entry was found; and the other  *)
(* way round.                                                              *)
(***************************************************************************)
AwardEntry(s, e) ==
    /\ There(e) /\ held[e] < MaxHeld
    /\ BeginErrand(s, [NoErrand EXCEPT !.op = "award", !.entry = e])
    /\ UNCHANGED <<entries, held, lost>>

\* The keys let nothing refer to a row that is gone.
AwardRow(s) ==
    LET e == errands[s].entry
    IN /\ errands[s].op = "award"
       /\ held' = IF There(e) /\ held[e] < MaxHeld THEN [held EXCEPT ![e] = @ + 1] ELSE held
       /\ errands' = [r \in Staff |->
            IF r = s THEN NoErrand
            ELSE IF errands[r].op = "remove" /\ errands[r].entry = e
              THEN [errands[r] EXCEPT !.slipped = TRUE] ELSE errands[r]]
       /\ UNCHANGED <<entries, started, lost>>

TakeBack(e) ==
    /\ held[e] > 0 /\ held' = [held EXCEPT ![e] = @ - 1]
    /\ UNCHANGED <<entries, errands, started, lost>>

CatalogueNext ==
    \/ \E s \in Staff :
         \/ \E e \in Entries : \/ Create(s, e) \/ Update(s, e) \/ LinkDiscord(s, e)
                               \/ RemoveEntry(s, e) \/ AwardEntry(s, e)
         \/ \E kind \in {RankIds, MedalIds} : Reorder(s, kind)
         \/ SaveEntry(s) \/ RemoveRow(s) \/ ReorderRows(s) \/ AwardRow(s)
    \/ \E e \in Entries : TakeBack(e)

CatalogueSpec == CatalogueInit /\ [][CatalogueNext]_catalogueVars

(***************************************************************************)
(* Properties.                                                             *)
(***************************************************************************)
CatalogueTypeOK ==
    /\ entries \in [Entries -> [there : BOOLEAN, name : Names, place : Nat,
                                linked : BOOLEAN]]
    /\ held \in [Entries -> 0 .. MaxHeld]
    /\ \A e \in Entries : held[e] > 0 => There(e)
    /\ \A e \in Entries : There(e) => Unique(e, entries[e])
    /\ started \in 0 .. MaxErrands

\* What members have earned, and what the rest of the code looks up by name,
\* outlives every edit: no removal takes awards with it that were there when it
\* counted, and the protected rank the ladder began with is always there under
\* its name, whatever copies of it are saved late.  An award that lands between
\* the count and the removal is lost with the medal.
EarnedIsKept ==
    /\ ~lost
    /\ \E e \in RankIds : There(e) /\ entries[e].name \in Protected
================================================================================
