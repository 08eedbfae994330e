------------------------------ MODULE BackOffice_proofs -----------------------
(***************************************************************************)
(* What has been given or set outlives the work of others: the ranks and   *)
(* medals members hold, the pictures of the gallery, the matrix of the     *)
(* capabilities, the rows of the console.  For any number of entries,      *)
(* names, items, keys, batches and requests under way at once.  And all    *)
(* the services side by side in one process, their steps interleaved in    *)
(* any order, behave as each does alone.                                   *)
(***************************************************************************)
EXTENDS BackOffice, Access_proofs, RoleSync_proofs, FiniteSetTheorems, WellFoundedInduction, TLAPS

(***************************************************************************)
(* The ladder and the catalogue (Catalogue).                               *)
(***************************************************************************)
\* The order of the naturals.
Less == {p \in Nat \X Nat : p[1] < p[2]}

\* A set of naturals has a least member.
LEMMA Least == ASSUME NEW T \in SUBSET Nat, T # {} PROVE \E n \in T : \A m \in T : n <= m
<1>1. OpToRel(<, Nat) = Less
  BY DEF OpToRel, Less
<1>2. \E n \in T : \A m \in T : ~(<<m, n>> \in Less)
  BY <1>1, NatLessThanWellFounded, WFMin
<1>3. \A n, m \in Nat : m < n => <<m, n>> \in Less
  BY DEF Less
<1>4. \A n, m \in Nat : ~(m < n) => n <= m
  OBVIOUS
<1> QED
  BY <1>2, <1>3, <1>4

\* What a finite set of naturals has.
Bounded(S) == \E b \in Nat : \A x \in S : x <= b

\* A finite set of naturals is bounded: a least counterexample would have one element
\* to spare.
LEMMA FiniteBounded == ASSUME NEW S \in SUBSET Nat, IsFiniteSet(S) PROVE Bounded(S)
<1> DEFINE Odd == {n \in Nat : \E T \in SUBSET Nat :
                                 IsFiniteSet(T) /\ Cardinality(T) = n /\ ~Bounded(T)}
<1>1. SUFFICES ASSUME Odd # {} PROVE FALSE
  BY FS_CardinalityType
<1>2. PICK n \in Odd : \A m \in Odd : n <= m
  BY <1>1, Least
<1>3. PICK T \in SUBSET Nat : IsFiniteSet(T) /\ Cardinality(T) = n /\ ~Bounded(T)
  BY <1>2
<1>4. PICK x \in T : TRUE
  BY <1>3 DEF Bounded
<1>5. IsFiniteSet(T \ {x}) /\ Cardinality(T \ {x}) = n - 1 /\ n - 1 \in Nat
  <2>1. IsFiniteSet(T \ {x}) /\ Cardinality(T \ {x}) = n - 1
    BY <1>3, <1>4, FS_RemoveElement
  <2> QED
    BY <2>1, FS_CardinalityType
<1>6. Bounded(T \ {x})
  BY <1>2, <1>5
<1>7. Bounded(T)
  BY <1>6, <1>4, <1>3 DEF Bounded
<1> QED
  BY <1>3, <1>7

\* Max is the greatest of a finite set.
LEMMA MaxOf ==
    ASSUME NEW S \in SUBSET Nat, IsFiniteSet(S), S # {}
    PROVE  Max(S) \in S /\ \A x \in S : x <= Max(S)
<1>1. PICK b \in Nat : \A x \in S : x <= b
  BY FiniteBounded DEF Bounded
<1> DEFINE T == {b - x : x \in S}
<1>2. T \in SUBSET Nat /\ T # {}
  <2>1. \A x \in S : b - x \in Nat
    BY <1>1
  <2>2. PICK x \in S : TRUE
    OBVIOUS
  <2>3. b - x \in T
    BY <2>2
  <2> QED
    BY <2>1, <2>3
<1> HIDE DEF T
<1>3. PICK n \in T : \A m \in T : n <= m
  BY <1>2, Least
<1>4. PICK x \in S : n = b - x
  BY <1>3 DEF T
<1>5. \A y \in S : x >= y
  <2> TAKE y \in S
  <2>1. n <= b - y
    BY <1>3 DEF T
  <2> QED
    BY <2>1, <1>4
<1> QED
  BY <1>4, <1>5 DEF Max

\* The types: a row of the catalogue, the lists of a reorder, a request.
Entered == [there : BOOLEAN, name : Names, place : Nat, linked : BOOLEAN]
Orders == UNION {[S -> Nat] : S \in SUBSET Entries}
Errand == [op : {"none", "save", "remove", "reorder", "award"},
           entry : Entries \cup {"none"}, copy : Entered \cup {<<>>},
           order : Orders \cup {<<>>}, slipped : BOOLEAN]

\* What a request carries: a row to save is there; what is to be removed had no
\* holder when it was counted, and has none now unless one slipped in; the places of
\* a list are all different, those of ranks below the offset.
ErrandInv(k) ==
    /\ k.op # "none" => k.entry \in Entries
    /\ k.op = "save" => k.copy \in Entered /\ k.copy.there /\ k.copy.place >= 1
    /\ k.op = "remove" /\ ~k.slipped => held[k.entry] = 0
    /\ k.op = "reorder" =>
         /\ k.order \in Orders
         /\ \A e \in DOMAIN k.order :
              /\ k.order[e] >= 1 /\ (k.entry \in RankIds => k.order[e] <= Offset)
              /\ \A f \in DOMAIN k.order : k.order[e] = k.order[f] => e = f

\* A request leaves the name and the row of a protected rank alone.
KeptBy(k, p) ==
    /\ k.op = "save" /\ k.entry = p => k.copy.name = entries[p].name
    /\ ~(k.op = "remove" /\ k.entry = p)

\* The rank the ladder began with, or another one that is protected.
Keeper(p) == /\ p \in RankIds /\ There(p) /\ entries[p].name \in Protected
             /\ \A s \in Staff : KeptBy(errands[s], p)

\* The rows: what is held is there, what is there is unique.
RowsInv ==
    /\ entries \in [Entries -> Entered]
    /\ held \in [Entries -> 0 .. MaxHeld]
    /\ \A e \in Entries : held[e] > 0 => There(e)
    /\ \A e \in Entries : There(e) => Unique(e, entries[e]) /\ entries[e].place >= 1
    /\ started \in 0 .. MaxErrands
    /\ lost = FALSE

\* The invariant.
CatalogueInv ==
    /\ RowsInv
    /\ errands \in [Staff -> Errand]
    /\ \A s \in Staff : ErrandInv(errands[s])
    /\ \E p \in RankIds : Keeper(p)

\* There are finitely many entries of each kind.
LEMMA Finite == /\ IsFiniteSet(RankIds) /\ IsFiniteSet(MedalIds) /\ IsFiniteSet(Entries)
                /\ \A S \in SUBSET Entries : IsFiniteSet(S) /\ Cardinality(S) \in Nat
  BY CatalogueAssumption, FS_Subset, FS_CardinalityType DEF Entries

\* The next place is after all others.
LEMMA NextPlaceNat ==
    ASSUME RowsInv, NEW e \in Entries
    PROVE  NextPlace(e) \in Nat /\ NextPlace(e) >= 1
<1> DEFINE F == OtherEntries(e)
           P == {entries[f].place : f \in F}
<1>1. F \in SUBSET Entries
  BY DEF OtherEntries, Kin, Entries
<1>2. IsFiniteSet(F)
  BY <1>1, Finite
<1>3. P \in SUBSET Nat
  BY <1>1 DEF RowsInv, Entered
<1>4. IsFiniteSet(P)
  <2> DEFINE g == [f \in F |-> entries[f].place]
  <2>1. g \in [F -> P] /\ \A t \in P : \E f \in F : g[f] = t
    OBVIOUS
  <2> HIDE DEF g, P, F
  <2>2. g \in Surjection(F, P)
    BY <2>1 DEF Surjection
  <2> QED
    BY <2>2, <1>2, FS_Surjection
<1> HIDE DEF P
<1>5. IsFiniteSet({0} \cup P)
  BY <1>4, FS_AddElement
<1>6. Max({0} \cup P) \in {0} \cup P
  BY <1>3, <1>5, MaxOf
<1> QED
  BY <1>3, <1>6 DEF NextPlace, P

\* A kind is a kind of all its entries.
LEMMA EntryKinds == \A e, f \in Entries : /\ Kin(e) \subseteq Entries /\ e \in Kin(e)
                                          /\ (f \in Kin(e) => Kin(f) = Kin(e))
                                          /\ (f \in Kin(e) => (e \in RankIds <=> f \in RankIds))
  BY CatalogueAssumption DEF Kin, Entries

\* A request begins under its obligations, and nothing else changes.
LEMMA Started ==
    ASSUME CatalogueInv, NEW s \in Staff, NEW k \in Errand, BeginErrand(s, k),
           UNCHANGED <<entries, held, lost>>, ErrandInv(k),
           \A p \in RankIds : Keeper(p) => KeptBy(k, p)
    PROVE  CatalogueInv'
<1>1. /\ started' \in 0 .. MaxErrands
      /\ errands' \in [Staff -> Errand]
      /\ \A r \in Staff : errands'[r] = IF r = s THEN k ELSE errands[r]
  BY CatalogueAssumption DEF BeginErrand, CatalogueInv, RowsInv
<1>2. RowsInv'
  BY <1>1 DEF CatalogueInv, RowsInv, There, Unique, NameFree, PlaceFree, OtherEntries
<1>3. \A r \in Staff : ErrandInv(errands[r])'
  BY <1>1 DEF CatalogueInv, ErrandInv
<1>4. PICK p \in RankIds : Keeper(p)
  BY DEF CatalogueInv
<1>5. Keeper(p)'
  BY <1>1, <1>4 DEF Keeper, KeptBy, There
<1> QED
  BY <1>1, <1>2, <1>3, <1>5 DEF CatalogueInv

\* What requests carry when they begin is of their type.
LEMMA Errands == /\ NoErrand \in Errand
                 /\ \A e \in Entries :
                      /\ [NoErrand EXCEPT !.op = "remove", !.entry = e] \in Errand
                      /\ [NoErrand EXCEPT !.op = "award", !.entry = e] \in Errand
                      /\ \A saved \in Entered :
                           [NoErrand EXCEPT !.op = "save", !.entry = e, !.copy = saved] \in Errand
                      /\ \A order \in Orders :
                           [NoErrand EXCEPT !.op = "reorder", !.order = order,
                                            !.entry = e] \in Errand
  BY DEF NoErrand, Errand

\* A request to save a row that keeps a protected name begins.
LEMMA SaveBegun ==
    ASSUME CatalogueInv, NEW s \in Staff, NEW e \in Entries, NEW saved \in Entered,
           saved.there, saved.place >= 1, Barred(e) /\ There(e) => saved.name = entries[e].name,
           BeginErrand(s, [NoErrand EXCEPT !.op = "save", !.entry = e, !.copy = saved]),
           UNCHANGED <<entries, held, lost>>
    PROVE  CatalogueInv'
<1> DEFINE k == [NoErrand EXCEPT !.op = "save", !.entry = e, !.copy = saved]
<1>1. k \in Errand
  BY Errands
<1>2. k.op = "save" /\ k.entry = e /\ k.copy = saved
  BY DEF NoErrand
<1> HIDE DEF k
<1>3. ErrandInv(k)
  BY <1>2 DEF ErrandInv
<1>4. \A p \in RankIds : Keeper(p) => KeptBy(k, p)
  BY <1>2 DEF Keeper, KeptBy, Barred
<1>5. BeginErrand(s, k)
  BY DEF k
<1> QED
  BY <1>1, <1>3, <1>4, <1>5, Started

\* Create: the entry is not there, so it is not the protected rank.
LEMMA CreateKeeps ==
    ASSUME CatalogueInv, NEW s \in Staff, NEW e \in Entries, Create(s, e)
    PROVE  CatalogueInv'
<1>1. PICK name \in Names, place \in Places(e) \cup {NextPlace(e)} :
         BeginErrand(s, [NoErrand EXCEPT !.op = "save", !.entry = e,
              !.copy = [there |-> TRUE, name |-> name, place |-> place, linked |-> FALSE]])
  BY DEF Create
<1>2. place \in Nat /\ place >= 1
  <2>1. Cardinality(Kin(e)) \in Nat
    BY EntryKinds, Finite
  <2> QED
    BY <2>1, NextPlaceNat DEF Places, CatalogueInv
<1> DEFINE saved == [there |-> TRUE, name |-> name, place |-> place, linked |-> FALSE]
<1>3. saved \in Entered /\ saved.there /\ saved.place >= 1
  BY <1>2 DEF Entered
<1>4. BeginErrand(s, [NoErrand EXCEPT !.op = "save", !.entry = e, !.copy = saved])
  BY <1>1
<1>5. ~There(e) /\ UNCHANGED <<entries, held, lost>>
  BY DEF Create
<1> HIDE DEF saved
<1> QED
  BY <1>3, <1>4, <1>5, SaveBegun

\* A row with another link.
LEMMA Linked ==
    ASSUME NEW saved \in Entered, NEW l \in BOOLEAN
    PROVE  /\ [saved EXCEPT !.linked = l] \in Entered
           /\ [saved EXCEPT !.linked = l].name = saved.name
           /\ [saved EXCEPT !.linked = l].place = saved.place
           /\ [saved EXCEPT !.linked = l].there = saved.there
  BY DEF Entered

\* A row with another place.
LEMMA Moved ==
    ASSUME NEW saved \in Entered, NEW p \in Nat
    PROVE  /\ [saved EXCEPT !.place = p] \in Entered
           /\ [saved EXCEPT !.place = p].name = saved.name
           /\ [saved EXCEPT !.place = p].place = p
           /\ [saved EXCEPT !.place = p].there = saved.there
  BY DEF Entered

\* A row that is not there any more.
LEMMA Dropped ==
    ASSUME NEW saved \in Entered
    PROVE  /\ [saved EXCEPT !.there = FALSE] \in Entered
           /\ ~[saved EXCEPT !.there = FALSE].there
           /\ [saved EXCEPT !.there = FALSE].name = saved.name
  BY DEF Entered

\* Update: a protected rank keeps its name.
LEMMA UpdateKeeps ==
    ASSUME CatalogueInv, NEW s \in Staff, NEW e \in Entries, Update(s, e)
    PROVE  CatalogueInv'
<1>1. PICK name \in Names, place \in Places(e) \cup {entries[e].place} :
         /\ name # entries[e].name => ~Barred(e)
         /\ BeginErrand(s, [NoErrand EXCEPT !.op = "save", !.entry = e,
              !.copy = [entries[e] EXCEPT !.name = name, !.place = place]])
  BY DEF Update
<1>2. There(e) /\ UNCHANGED <<entries, held, lost>>
  BY DEF Update
<1>3. entries[e] \in Entered /\ entries[e].place \in Nat /\ entries[e].place >= 1
  BY <1>2 DEF CatalogueInv, RowsInv, Entered
<1>4. place \in Nat /\ place >= 1
  <2>1. Cardinality(Kin(e)) \in Nat
    BY EntryKinds, Finite
  <2> QED
    BY <2>1, <1>3 DEF Places
<1> DEFINE saved == [entries[e] EXCEPT !.name = name, !.place = place]
<1>5. saved \in Entered /\ saved.there /\ saved.place >= 1 /\ saved.name = name
  <2>1. /\ saved \in Entered /\ saved.name = name /\ saved.place = place
        /\ saved.there = entries[e].there
    <3>1. \A r \in Entered : LET new == [r EXCEPT !.name = name, !.place = place]
                             IN  /\ new \in Entered /\ new.name = name /\ new.place = place
                                 /\ new.there = r.there
      BY <1>4 DEF Entered
    <3> QED
      BY <1>3, <3>1
  <2> HIDE DEF saved
  <2> QED
    BY <2>1, <1>2, <1>4 DEF There
<1>6. BeginErrand(s, [NoErrand EXCEPT !.op = "save", !.entry = e, !.copy = saved])
  BY <1>1
<1> HIDE DEF saved
<1> QED
  BY <1>1, <1>2, <1>5, <1>6, SaveBegun

\* Linking keeps the name.
LEMMA LinkKeeps ==
    ASSUME CatalogueInv, NEW s \in Staff, NEW e \in Entries, LinkDiscord(s, e)
    PROVE  CatalogueInv'
<1>1. PICK linked \in BOOLEAN :
         BeginErrand(s, [NoErrand EXCEPT !.op = "save", !.entry = e,
                                   !.copy = [entries[e] EXCEPT !.linked = linked]])
  BY DEF LinkDiscord
<1>2. There(e) /\ UNCHANGED <<entries, held, lost>>
  BY DEF LinkDiscord
<1>3. entries[e] \in Entered /\ entries[e].place >= 1
  BY <1>2 DEF CatalogueInv, RowsInv
<1> DEFINE saved == [entries[e] EXCEPT !.linked = linked]
<1>5. saved \in Entered /\ saved.there /\ saved.place >= 1 /\ saved.name = entries[e].name
  <2>1. /\ saved \in Entered /\ saved.name = entries[e].name /\ saved.place = entries[e].place
        /\ saved.there = entries[e].there
    BY <1>3, Linked
  <2> HIDE DEF saved
  <2> QED
    BY <2>1, <1>2, <1>3 DEF There
<1>6. BeginErrand(s, [NoErrand EXCEPT !.op = "save", !.entry = e, !.copy = saved])
  BY <1>1
<1> HIDE DEF saved
<1> QED
  BY <1>2, <1>5, <1>6, SaveBegun

\* A removal is not of the protected rank, and finds no holder.
LEMMA RemoveAwardKeep ==
    ASSUME CatalogueInv, NEW s \in Staff, NEW e \in Entries,
           RemoveEntry(s, e) \/ AwardEntry(s, e)
    PROVE  CatalogueInv'
<1>1. CASE RemoveEntry(s, e)
  <2> DEFINE k == [NoErrand EXCEPT !.op = "remove", !.entry = e]
  <2>1. k \in Errand /\ k.op = "remove" /\ k.entry = e
    BY Errands DEF NoErrand
  <2>2. BeginErrand(s, k) /\ UNCHANGED <<entries, held, lost>>
    BY <1>1 DEF RemoveEntry
  <2> HIDE DEF k
  <2>3. held[e] = 0 /\ ~Barred(e)
    BY <1>1 DEF RemoveEntry, InUse, CatalogueInv, RowsInv
  <2>4. ErrandInv(k)
    BY <2>1, <2>3 DEF ErrandInv
  <2>5. \A p \in RankIds : Keeper(p) => KeptBy(k, p)
    BY <2>1, <2>3 DEF Keeper, KeptBy, Barred
  <2> QED
    BY <2>1, <2>2, <2>4, <2>5, Started
<1>2. CASE AwardEntry(s, e)
  <2> DEFINE k == [NoErrand EXCEPT !.op = "award", !.entry = e]
  <2>1. k \in Errand /\ k.op = "award" /\ k.entry = e
    BY Errands DEF NoErrand
  <2>2. BeginErrand(s, k) /\ UNCHANGED <<entries, held, lost>>
    BY <1>2 DEF AwardEntry
  <2> HIDE DEF k
  <2>4. ErrandInv(k)
    BY <2>1 DEF ErrandInv
  <2>5. \A p \in RankIds : Keeper(p) => KeptBy(k, p)
    BY <2>1 DEF Keeper, KeptBy
  <2> QED
    BY <2>1, <2>2, <2>4, <2>5, Started
<1> QED
  BY <1>1, <1>2

\* A list gives different places, of ranks not beyond the offset.
LEMMA ReorderKeeps ==
    ASSUME CatalogueInv, NEW s \in Staff, NEW kind \in {RankIds, MedalIds}, Reorder(s, kind)
    PROVE  CatalogueInv'
<1> DEFINE L == Listed(kind)
           e == CHOOSE x \in L : TRUE
<1>1. PICK order \in [L -> 1 .. Cardinality(L)] :
         /\ \A x, y \in L : x # y => order[x] # order[y]
         /\ BeginErrand(s, [NoErrand EXCEPT !.op = "reorder", !.order = order, !.entry = e])
  BY DEF Reorder
<1>2. L # {} /\ UNCHANGED <<entries, held, lost>>
  BY DEF Reorder
<1>3. e \in L
  BY <1>2
<1>4. L \in SUBSET Entries /\ L \subseteq kind
  BY DEF Listed, Entries
<1>5. Cardinality(L) \in Nat /\ (e \in RankIds => Cardinality(L) <= Offset)
  <2>1. Cardinality(L) \in Nat
    BY <1>4, Finite
  <2>2. ASSUME e \in RankIds PROVE Cardinality(L) <= Offset
    <3>1. kind = RankIds
      BY <1>3, <1>4, <2>2, CatalogueAssumption
    <3> HIDE DEF L
    <3>2. Cardinality(L) <= Cardinality(RankIds)
      BY <1>4, <3>1, Finite, FS_Subset
    <3>3. Cardinality(RankIds) \in Nat /\ Offset \in Nat
      BY Finite, FS_CardinalityType, CatalogueAssumption
    <3> QED
      BY <2>1, <3>2, <3>3, CatalogueAssumption
  <2> QED
    BY <2>1, <2>2
<1> DEFINE k == [NoErrand EXCEPT !.op = "reorder", !.order = order, !.entry = e]
<1> HIDE DEF L, e
<1>6. order \in Orders /\ DOMAIN order = L
  BY <1>4, <1>5 DEF Orders
<1>7. k \in Errand /\ k.op = "reorder" /\ k.entry = e /\ k.order = order
  BY <1>3, <1>4, <1>6, Errands DEF NoErrand
<1>8. BeginErrand(s, k)
  BY <1>1
<1> HIDE DEF k
<1>9. \A x \in L : order[x] >= 1 /\ (e \in RankIds => order[x] <= Offset)
  <2> TAKE x \in L
  <2>1. order[x] \in 1 .. Cardinality(L)
    BY <1>1
  <2>2. Offset \in Nat
    BY CatalogueAssumption
  <2> QED
    BY <2>1, <2>2, <1>5
<1>10. ErrandInv(k)
  BY <1>1, <1>3, <1>4, <1>6, <1>7, <1>9 DEF ErrandInv
<1>11. \A p \in RankIds : Keeper(p) => KeptBy(k, p)
  BY <1>7 DEF KeptBy
<1> QED
  BY <1>2, <1>7, <1>8, <1>10, <1>11, Started

\* One row is replaced by another that is unique among the rest.
LEMMA Replaced ==
    ASSUME RowsInv, NEW e \in Entries, NEW saved \in Entered, saved.there, saved.place >= 1,
           Unique(e, saved), entries' = [entries EXCEPT ![e] = saved],
           UNCHANGED <<held, started, lost>>
    PROVE  RowsInv'
<1>1. /\ entries' \in [Entries -> Entered]
      /\ \A f \in Entries : entries'[f] = IF f = e THEN saved ELSE entries[f]
  BY DEF RowsInv
<1>2. \A f \in Entries : There(f)' => Unique(f, entries[f])' /\ entries'[f].place >= 1
  <2> SUFFICES ASSUME NEW f \in Entries, There(f)'
               PROVE  Unique(f, entries[f])' /\ entries'[f].place >= 1
    OBVIOUS
  <2>1. CASE f = e
    BY <1>1, <2>1, EntryKinds DEF Unique, NameFree, PlaceFree, OtherEntries, There
  <2>2. CASE f # e
    <3>1. entries'[f] = entries[f] /\ There(f) /\ Unique(f, entries[f]) /\ entries[f].place >= 1
      BY <1>1, <2>2 DEF There, RowsInv
    <3>2. NameFree(f, entries[f].name)'
      <4> SUFFICES ASSUME NEW g \in Kin(f) \ {f}, There(g)'
                   PROVE  entries'[g].name # entries'[f].name
        BY <3>1 DEF NameFree, OtherEntries
      <4>1. g \in Entries /\ Kin(g) = Kin(f) /\ f \in Kin(g)
        BY EntryKinds
      <4>2. CASE g = e
        BY <4>1, <4>2, <3>1, <1>1, <2>2 DEF Unique, NameFree, OtherEntries
      <4>3. CASE g # e
        BY <4>1, <4>3, <3>1, <1>1 DEF Unique, NameFree, OtherEntries, There
      <4> QED
        BY <4>2, <4>3
    <3>3. ASSUME f \in RankIds PROVE PlaceFree(f, entries[f].place)'
      <4> SUFFICES ASSUME NEW g \in Kin(f) \ {f}, There(g)'
                   PROVE  entries'[g].place # entries'[f].place
        BY <3>1 DEF PlaceFree, OtherEntries
      <4>1. g \in Entries /\ Kin(g) = Kin(f) /\ f \in Kin(g) /\ g \in RankIds
        BY EntryKinds, <3>3
      <4>2. CASE g = e
        BY <4>1, <4>2, <3>1, <1>1, <2>2 DEF Unique, PlaceFree, OtherEntries
      <4>3. CASE g # e
        BY <4>1, <4>3, <3>1, <3>3, <1>1 DEF Unique, PlaceFree, OtherEntries, There
      <4> QED
        BY <4>2, <4>3
    <3> QED
      BY <3>1, <3>2, <3>3 DEF Unique
  <2> QED
    BY <2>1, <2>2
<1>3. \A f \in Entries : held'[f] > 0 => There(f)'
  BY <1>1 DEF RowsInv, There
<1> QED
  BY <1>1, <1>2, <1>3 DEF RowsInv

\* A request is done.
LEMMA Ended ==
    ASSUME errands \in [Staff -> Errand], NEW s \in Staff, End(s)
    PROVE  /\ errands' \in [Staff -> Errand]
           /\ \A r \in Staff : errands'[r] = IF r = s THEN NoErrand ELSE errands[r]
  BY Errands DEF End

\* Who does nothing owes nothing.
LEMMA Idlers == /\ ErrandInv(NoErrand) /\ ErrandInv(NoErrand)'
                /\ \A p : KeptBy(NoErrand, p) /\ KeptBy(NoErrand, p)'
  BY DEF ErrandInv, KeptBy, NoErrand

\* The save: refused by the indexes, or the row is unique.
LEMMA SaveKeeps ==
    ASSUME CatalogueInv, NEW s \in Staff, SaveEntry(s)
    PROVE  CatalogueInv'
<1> DEFINE e == errands[s].entry
           saved == errands[s].copy
<1>1. /\ errands[s].op = "save" /\ End(s) /\ UNCHANGED <<held, started, lost>>
      /\ entries' = IF Unique(e, saved) THEN [entries EXCEPT ![e] = saved] ELSE entries
  BY DEF SaveEntry
<1>2. e \in Entries /\ saved \in Entered /\ saved.there /\ saved.place >= 1
  BY <1>1 DEF CatalogueInv, ErrandInv
<1>3. /\ errands' \in [Staff -> Errand]
      /\ \A r \in Staff : errands'[r] = IF r = s THEN NoErrand ELSE errands[r]
  BY <1>1, Ended DEF CatalogueInv
<1>4. \A p \in RankIds : Keeper(p) /\ p = e => saved.name = entries[p].name
  BY <1>1 DEF Keeper, KeptBy
<1> HIDE DEF e, saved
<1>5. RowsInv'
  <2>1. CASE Unique(e, saved)
    BY <2>1, <1>1, <1>2, Replaced DEF CatalogueInv
  <2>2. CASE ~Unique(e, saved)
    BY <2>2, <1>1
       DEF CatalogueInv, RowsInv, There, Unique, NameFree, PlaceFree, OtherEntries
  <2> QED
    BY <2>1, <2>2
<1>6. \A r \in Staff : ErrandInv(errands[r])'
  BY <1>1, <1>3, Idlers DEF CatalogueInv, ErrandInv
<1>7. PICK p \in RankIds : Keeper(p)
  BY DEF CatalogueInv
<1>8. p \in Entries /\ entries'[p].there /\ entries'[p].name = entries[p].name
  <2>1. p \in Entries
    BY DEF Entries
  <2>2. entries[p].there
    BY <1>7 DEF Keeper, There
  <2> QED
    BY <2>1, <2>2, <1>1, <1>2, <1>4, <1>7 DEF CatalogueInv, RowsInv
<1>9. \A r \in Staff : KeptBy(errands[r], p)'
  BY <1>3, <1>7, <1>8, Idlers DEF Keeper, KeptBy
<1>10. Keeper(p)'
  BY <1>7, <1>8, <1>9 DEF Keeper, There
<1> QED
  BY <1>3, <1>5, <1>6, <1>10 DEF CatalogueInv

\* The removal: awards go with their medal only where they slipped in.
LEMMA RemoveRowKeeps ==
    ASSUME CatalogueInv, NEW s \in Staff, RemoveRow(s)
    PROVE  CatalogueInv'
<1> DEFINE e == errands[s].entry
<1>1. errands[s].op = "remove" /\ End(s) /\ UNCHANGED started
  BY DEF RemoveRow
<1>2. e \in Entries /\ (~errands[s].slipped => held[e] = 0)
  BY <1>1 DEF CatalogueInv, ErrandInv
<1>3. /\ errands' \in [Staff -> Errand]
      /\ \A r \in Staff : errands'[r] = IF r = s THEN NoErrand ELSE errands[r]
  BY <1>1, Ended DEF CatalogueInv
<1>4. PICK p \in RankIds : Keeper(p)
  BY DEF CatalogueInv
<1>5. CASE e \in RankIds /\ held[e] > 0
  <2>1. UNCHANGED <<entries, held, lost>>
    BY <1>5 DEF RemoveRow
  <2>2. RowsInv'
    BY <2>1, <1>1
       DEF CatalogueInv, RowsInv, There, Unique, NameFree, PlaceFree, OtherEntries
  <2>3. \A r \in Staff : ErrandInv(errands[r])'
    BY <2>1, <1>3, Idlers DEF CatalogueInv, ErrandInv
  <2>4. Keeper(p)'
    BY <2>1, <1>3, <1>4, Idlers DEF Keeper, KeptBy, There
  <2> QED
    BY <1>3, <2>2, <2>3, <2>4 DEF CatalogueInv
<1>6. CASE ~(e \in RankIds /\ held[e] > 0)
  <2>1. /\ entries' = [entries EXCEPT ![e].there = FALSE]
        /\ held' = [held EXCEPT ![e] = 0]
        /\ lost' = (lost \/ (held[e] > 0 /\ ~errands[s].slipped))
    BY <1>6 DEF RemoveRow
  <2>2. lost' = FALSE
    <3>1. held[e] > 0 => ~(held[e] = 0)
      OBVIOUS
    <3>2. (held[e] > 0 /\ ~errands[s].slipped) = FALSE
      BY <3>1, <1>2
    <3> QED
      BY <3>2, <2>1 DEF CatalogueInv, RowsInv
  <2>3. e # p
    BY <1>1, <1>4 DEF Keeper, KeptBy
  <2> HIDE DEF e
  <2>4. /\ entries' \in [Entries -> Entered]
        /\ \A f \in Entries : f # e => entries'[f] = entries[f]
        /\ ~entries'[e].there
    BY <2>1, <1>2, Dropped DEF CatalogueInv, RowsInv
  <2>5. /\ held' \in [Entries -> 0 .. MaxHeld]
        /\ \A f \in Entries : held'[f] = IF f = e THEN 0 ELSE held[f]
    BY <2>1, <1>2, CatalogueAssumption DEF CatalogueInv, RowsInv
  <2>6. \A f \in Entries : There(f)' => f # e /\ There(f)
    BY <2>4 DEF There
  <2>7. \A f \in Entries : There(f)' => Unique(f, entries[f])' /\ entries'[f].place >= 1
    <3> SUFFICES ASSUME NEW f \in Entries, There(f)'
                 PROVE  Unique(f, entries[f])' /\ entries'[f].place >= 1
      OBVIOUS
    <3>1. f # e /\ There(f) /\ entries'[f] = entries[f]
      BY <2>4, <2>6
    <3>2. Unique(f, entries[f]) /\ entries[f].place >= 1
      BY <3>1 DEF CatalogueInv, RowsInv
    <3>3. \A g \in Kin(f) \ {f} : There(g)' => There(g) /\ entries'[g] = entries[g]
      BY <2>4, <2>6, EntryKinds
    <3> QED
      BY <3>1, <3>2, <3>3 DEF Unique, NameFree, PlaceFree, OtherEntries
  <2>8. \A f \in Entries : held'[f] > 0 => There(f)'
    BY <2>4, <2>5 DEF CatalogueInv, RowsInv, There
  <2>9. RowsInv'
    BY <2>2, <2>4, <2>5, <2>7, <2>8, <1>1 DEF CatalogueInv, RowsInv
  <2>10. \A r \in Staff : ErrandInv(errands[r])'
    <3> SUFFICES ASSUME NEW r \in Staff, r # s PROVE ErrandInv(errands[r])'
      BY <1>3, Idlers
    <3>1. errands'[r] = errands[r] /\ ErrandInv(errands[r])
      BY <1>3 DEF CatalogueInv
    <3> QED
      BY <3>1, <2>5 DEF ErrandInv
  <2>11. p \in Entries /\ entries'[p] = entries[p]
    BY <2>3, <2>4 DEF Entries
  <2>12. Keeper(p)'
    BY <2>11, <1>3, <1>4, Idlers DEF Keeper, KeptBy, There
  <2> QED
    BY <1>3, <2>9, <2>10, <2>12 DEF CatalogueInv
<1> QED
  BY <1>5, <1>6

\* The reorder: those of the list are below the offset, those that are not above it.
LEMMA ReorderRowsKeep ==
    ASSUME CatalogueInv, NEW s \in Staff, ReorderRows(s)
    PROVE  CatalogueInv'
<1> DEFINE order == errands[s].order
           e == errands[s].entry
           kind == Kin(e)
           L == Listed(kind)
           place(f) == IF f \in DOMAIN order THEN order[f] ELSE entries[f].place + Offset
<1>1. errands[s].op = "reorder" /\ End(s) /\ UNCHANGED <<held, started, lost>>
  BY DEF ReorderRows
<1>2. /\ e \in Entries
      /\ order \in Orders
      /\ \A x \in DOMAIN order :
              /\ order[x] >= 1 /\ (e \in RankIds => order[x] <= Offset)
              /\ \A f \in DOMAIN order : order[x] = order[f] => x = f
  BY <1>1 DEF CatalogueInv, ErrandInv
<1>3. /\ errands' \in [Staff -> Errand]
      /\ \A r \in Staff : errands'[r] = IF r = s THEN NoErrand ELSE errands[r]
  BY <1>1, Ended DEF CatalogueInv
<1>4. L \subseteq Entries /\ L \subseteq kind
  BY <1>2, EntryKinds DEF Listed
<1>5. /\ entries' \in [Entries -> Entered]
      /\ \A f \in Entries : /\ entries'[f].name = entries[f].name
                            /\ entries'[f].there = entries[f].there
      /\ \/ entries' = entries
         \/ \A f \in Entries : entries'[f].place = IF f \in L THEN place(f) ELSE entries[f].place
  <2>1. CASE entries' = entries
    BY <2>1 DEF CatalogueInv, RowsInv
  <2>2. CASE entries' # entries
    <3>1. entries' = [f \in Entries |->
                    IF f \notin L THEN entries[f]
                    ELSE IF f \in DOMAIN order
                      THEN [entries[f] EXCEPT !.place = order[f]]
                      ELSE [entries[f] EXCEPT !.place = @ + Offset]]
      BY <2>2 DEF ReorderRows
    <3>2. \A f \in Entries : entries[f] \in Entered /\ entries[f].place \in Nat
      BY DEF CatalogueInv, RowsInv, Entered
    <3>3. Offset \in Nat /\ \A f \in DOMAIN order : order[f] \in Nat
      BY <1>2, CatalogueAssumption DEF Orders
    <3> HIDE DEF L, order
    <3>4. \A f \in Entries :
            entries'[f] = IF f \in L THEN [entries[f] EXCEPT !.place = place(f)] ELSE entries[f]
      BY <3>1
    <3>5. \A f \in Entries : place(f) \in Nat
      BY <3>2, <3>3
    <3> HIDE DEF place
    <3>6. \A f \in Entries : /\ entries'[f] \in Entered
                             /\ entries'[f].name = entries[f].name
                             /\ entries'[f].there = entries[f].there
                             /\ entries'[f].place = IF f \in L THEN place(f) ELSE entries[f].place
      <4> SUFFICES ASSUME NEW f \in Entries
                   PROVE  /\ entries'[f] \in Entered
                          /\ entries'[f].name = entries[f].name
                          /\ entries'[f].there = entries[f].there
                          /\ entries'[f].place = IF f \in L THEN place(f) ELSE entries[f].place
        OBVIOUS
      <4>1. CASE f \in L
        <5>1. \A r \in Entered : LET new == [r EXCEPT !.place = place(f)]
                                 IN  /\ new \in Entered /\ new.place = place(f)
                                     /\ new.name = r.name /\ new.there = r.there
          BY <3>5, Moved
        <5> QED
          BY <3>2, <3>4, <4>1, <5>1
      <4>2. CASE f \notin L
        BY <3>2, <3>4, <4>2
      <4> QED
        BY <4>1, <4>2
    <3>7. entries' = [f \in Entries |-> entries'[f]]
      BY <3>1
    <3> QED
      BY <3>6, <3>7
  <2> QED
    BY <2>1, <2>2
<1>6. \A f \in Entries : There(f)' <=> There(f)
  BY <1>5 DEF There
<1>7. \A f \in Entries : There(f) => entries'[f].place >= 1
  <2> TAKE f \in Entries
  <2>1. There(f) => entries[f].place \in Nat /\ entries[f].place >= 1
    BY DEF CatalogueInv, RowsInv, Entered
  <2>2. Offset \in Nat
    BY CatalogueAssumption
  <2>3. f \in DOMAIN order => order[f] >= 1
    BY <1>2
  <2> HIDE DEF order, L
  <2>4. There(f) => place(f) >= 1
    BY <2>1, <2>2, <2>3
  <2> HIDE DEF place
  <2> QED
    BY <2>1, <2>4, <1>5
<1>8. ASSUME NEW f \in RankIds, NEW g \in RankIds, f # g, There(f), There(g)
      PROVE  entries'[f].place # entries'[g].place
  <2>1. f \in Entries /\ g \in Entries /\ Kin(f) = RankIds /\ Kin(g) = RankIds
    BY DEF Kin, Entries
  <2>2. entries[f].place # entries[g].place
    BY <1>8, <2>1 DEF CatalogueInv, RowsInv, Unique, PlaceFree, OtherEntries
  <2>3. f \in L => e \in RankIds /\ g \in L
    BY <1>2, <1>8, <2>1, CatalogueAssumption DEF Listed, Kin, Entries
  <2>4. g \in L => f \in L
    BY <1>2, <1>8, <2>1, CatalogueAssumption DEF Listed, Kin, Entries
  <2>5. /\ entries[f].place \in Nat /\ entries[f].place >= 1
        /\ entries[g].place \in Nat /\ entries[g].place >= 1
    BY <1>8, <2>1 DEF CatalogueInv, RowsInv, Entered
  <2>6. Offset \in Nat /\ \A x \in DOMAIN order : order[x] \in Nat
    BY <1>2, CatalogueAssumption DEF Orders
  <2>7. e \in RankIds => place(f) # place(g)
    <3> HIDE DEF L, kind
    <3>1. SUFFICES ASSUME e \in RankIds PROVE place(f) # place(g)
      OBVIOUS
    <3>2. \A x \in DOMAIN order : /\ order[x] <= Offset
                                  /\ \A y \in DOMAIN order : order[x] = order[y] => x = y
      BY <1>2, <3>1
    <3> HIDE DEF order, e
    <3>3. CASE f \in DOMAIN order /\ g \in DOMAIN order
      BY <3>2, <3>3, <1>8
    <3>4. CASE f \in DOMAIN order /\ g \notin DOMAIN order
      <4>1. order[f] \in Nat /\ order[f] <= Offset
        BY <3>2, <3>4, <2>6
      <4> QED
        BY <4>1, <3>4, <2>5, <2>6
    <3>5. CASE f \notin DOMAIN order /\ g \in DOMAIN order
      <4>1. order[g] \in Nat /\ order[g] <= Offset
        BY <3>2, <3>5, <2>6
      <4> QED
        BY <4>1, <3>5, <2>5, <2>6
    <3>6. CASE f \notin DOMAIN order /\ g \notin DOMAIN order
      BY <3>6, <2>2, <2>5, <2>6
    <3> QED
      BY <3>3, <3>4, <3>5, <3>6
  <2> HIDE DEF place, L, e
  <2> QED
    BY <1>5, <2>1, <2>2, <2>3, <2>4, <2>7
<1> HIDE DEF place, L, kind, e, order
<1>9. \A f \in Entries : There(f)' => Unique(f, entries[f])' /\ entries'[f].place >= 1
  <2> SUFFICES ASSUME NEW f \in Entries, There(f)'
               PROVE  Unique(f, entries[f])' /\ entries'[f].place >= 1
    OBVIOUS
  <2>1. There(f) /\ entries'[f].place >= 1
    BY <1>6, <1>7
  <2>2. Unique(f, entries[f])
    BY <2>1 DEF CatalogueInv, RowsInv
  <2>3. NameFree(f, entries[f].name)'
    BY <2>2, <1>5, <1>6, EntryKinds DEF NameFree, OtherEntries, Unique
  <2>4. ASSUME f \in RankIds PROVE PlaceFree(f, entries[f].place)'
    <3>1. \A g \in Kin(f) : g \in RankIds /\ g \in Entries
      BY <2>4, EntryKinds
    <3> QED
      BY <1>6, <1>8, <2>1, <2>4, <3>1 DEF PlaceFree, OtherEntries
  <2> QED
    BY <2>1, <2>3, <2>4 DEF Unique
<1>10. RowsInv'
  BY <1>1, <1>5, <1>6, <1>9 DEF CatalogueInv, RowsInv
<1>11. \A r \in Staff : ErrandInv(errands[r])'
  BY <1>1, <1>3, Idlers DEF CatalogueInv, ErrandInv
<1>12. PICK p \in RankIds : Keeper(p)
  BY DEF CatalogueInv
<1>13. p \in Entries
  BY DEF Entries
<1>14. \A r \in Staff : KeptBy(errands[r], p)'
  BY <1>3, <1>12, <1>5, <1>13, Idlers DEF Keeper, KeptBy
<1>15. Keeper(p)'
  BY <1>5, <1>6, <1>12, <1>13, <1>14 DEF Keeper
<1> QED
  BY <1>3, <1>10, <1>11, <1>15 DEF CatalogueInv

\* An award slips past the removals of its entry.
LEMMA AwardRowKeeps ==
    ASSUME CatalogueInv, NEW s \in Staff, AwardRow(s)
    PROVE  CatalogueInv'
<1> DEFINE e == errands[s].entry
<1>1. /\ errands[s].op = "award" /\ UNCHANGED <<entries, started, lost>>
      /\ held' = IF There(e) /\ held[e] < MaxHeld THEN [held EXCEPT ![e] = @ + 1] ELSE held
      /\ errands' = [r \in Staff |->
            IF r = s THEN NoErrand
            ELSE IF errands[r].op = "remove" /\ errands[r].entry = e
              THEN [errands[r] EXCEPT !.slipped = TRUE] ELSE errands[r]]
  BY DEF AwardRow
<1>2. e \in Entries
  BY <1>1 DEF CatalogueInv, ErrandInv
<1> HIDE DEF e
<1>3. \A k \in Errand : /\ [k EXCEPT !.slipped = TRUE] \in Errand
                        /\ [k EXCEPT !.slipped = TRUE].slipped = TRUE
                        /\ [k EXCEPT !.slipped = TRUE].op = k.op
                        /\ [k EXCEPT !.slipped = TRUE].entry = k.entry
                        /\ [k EXCEPT !.slipped = TRUE].copy = k.copy
                        /\ [k EXCEPT !.slipped = TRUE].order = k.order
  BY DEF Errand
<1>4. /\ errands' \in [Staff -> Errand]
      /\ \A r \in Staff : \/ errands'[r] = NoErrand
                          \/ /\ errands[r].op = "remove" /\ errands[r].entry = e
                             /\ errands'[r].op = "remove" /\ errands'[r].entry = e
                             /\ errands'[r].slipped = TRUE
                          \/ /\ errands'[r] = errands[r]
                             /\ errands[r].op = "remove" => errands[r].entry # e
  BY <1>1, <1>3, Errands DEF CatalogueInv
<1>5. /\ held' \in [Entries -> 0 .. MaxHeld]
      /\ \A f \in Entries : f # e => held'[f] = held[f]
      /\ held'[e] > 0 => There(e)
  BY <1>1, <1>2, CatalogueAssumption DEF CatalogueInv, RowsInv
<1>6. RowsInv'
  <2>1. \A f \in Entries : held'[f] > 0 => There(f)'
    BY <1>1, <1>5 DEF CatalogueInv, RowsInv, There
  <2> QED
    BY <1>1, <1>5, <2>1
       DEF CatalogueInv, RowsInv, There, Unique, NameFree, PlaceFree, OtherEntries
<1>7. \A r \in Staff : ErrandInv(errands[r])'
  <2> TAKE r \in Staff
  <2>1. CASE errands'[r] = NoErrand
    BY <2>1, Idlers
  <2>2. CASE /\ errands'[r].op = "remove" /\ errands'[r].entry = e
             /\ errands'[r].slipped = TRUE
    BY <2>2, <1>2 DEF ErrandInv
  <2>3. CASE /\ errands'[r] = errands[r]
             /\ errands[r].op = "remove" => errands[r].entry # e
    <3>1. ErrandInv(errands[r])
      BY DEF CatalogueInv
    <3> QED
      BY <2>3, <3>1, <1>5 DEF ErrandInv
  <2> QED
    BY <1>4, <2>1, <2>2, <2>3
<1>8. PICK p \in RankIds : Keeper(p)
  BY DEF CatalogueInv
<1>9. \A r \in Staff : KeptBy(errands[r], p)'
  <2> TAKE r \in Staff
  <2>1. KeptBy(errands[r], p)
    BY <1>8 DEF Keeper
  <2> QED
    BY <2>1, <1>1, <1>4, Idlers DEF KeptBy
<1>10. Keeper(p)'
  BY <1>1, <1>8, <1>9 DEF Keeper, There
<1> QED
  BY <1>4, <1>6, <1>7, <1>10 DEF CatalogueInv

\* What was found without holders has none taken back.
LEMMA TakeBackKeeps ==
    ASSUME CatalogueInv, NEW e \in Entries, TakeBack(e)
    PROVE  CatalogueInv'
<1>1. /\ held[e] > 0 /\ held' = [held EXCEPT ![e] = @ - 1]
      /\ UNCHANGED <<entries, errands, started, lost>>
  BY DEF TakeBack
<1>2. /\ held' \in [Entries -> 0 .. MaxHeld]
      /\ \A f \in Entries : f # e => held'[f] = held[f]
      /\ There(e)
  BY <1>1, CatalogueAssumption DEF CatalogueInv, RowsInv
<1>3. RowsInv'
  <2>1. \A f \in Entries : held'[f] > 0 => There(f)'
    BY <1>1, <1>2 DEF CatalogueInv, RowsInv, There
  <2> QED
    BY <1>1, <1>2, <2>1
       DEF CatalogueInv, RowsInv, There, Unique, NameFree, PlaceFree, OtherEntries
<1>4. \A r \in Staff : ErrandInv(errands[r])'
  <2> TAKE r \in Staff
  <2>1. ErrandInv(errands[r]) /\ errands'[r] = errands[r]
    BY <1>1 DEF CatalogueInv
  <2>2. held[e] # 0
    BY <1>1
  <2> QED
    BY <2>1, <2>2, <1>2 DEF ErrandInv
<1>5. PICK p \in RankIds : Keeper(p)
  BY DEF CatalogueInv
<1>6. Keeper(p)'
  BY <1>1, <1>5 DEF Keeper, KeptBy, There
<1> QED
  BY <1>1, <1>3, <1>4, <1>6 DEF CatalogueInv

\* The ladder begins with one protected rank.
LEMMA CatalogueInitially == ASSUME CatalogueInit PROVE CatalogueInv
<1>1. PICK eldest \in RankIds, name \in Protected :
         entries = [e \in Entries |->
           [there |-> e = eldest \/ e \in MedalIds, name |-> name, place |-> 1,
            linked |-> FALSE]]
  BY DEF CatalogueInit
<1>2. /\ Cardinality(MedalIds) <= 1 /\ held = [e \in Entries |-> 0]
      /\ errands = [s \in Staff |-> NoErrand] /\ started = 0 /\ lost = FALSE
  BY DEF CatalogueInit
<1>3. /\ entries \in [Entries -> Entered]
      /\ \A e \in Entries : /\ There(e) <=> (e = eldest \/ e \in MedalIds)
                            /\ entries[e].name = name /\ entries[e].place = 1
  BY <1>1, CatalogueAssumption DEF Entered, There
<1>4. \A d, e \in MedalIds : d = e
  <2> TAKE d, e \in MedalIds
  <2>1. CASE d # e
    <3>1. Cardinality({d, e}) = 2
      <4>1. IsFiniteSet({d}) /\ Cardinality({d}) = 1 /\ e \notin {d} /\ {d} \cup {e} = {d, e}
        BY <2>1, FS_Singleton
      <4> QED
        BY <4>1, FS_AddElement
    <3>2. Cardinality({d, e}) <= Cardinality(MedalIds)
      BY Finite, FS_Subset
    <3> QED
      BY <3>1, <3>2, <1>2, Finite, FS_CardinalityType
  <2> QED
    BY <2>1
<1>5. \A e \in Entries : There(e) => OtherEntries(e) = {}
  BY <1>3, <1>4, CatalogueAssumption DEF OtherEntries, Kin, Entries
<1>6. \A e \in Entries : There(e) => Unique(e, entries[e]) /\ entries[e].place >= 1
  BY <1>3, <1>5 DEF Unique, NameFree, PlaceFree
<1>7. RowsInv
  BY <1>2, <1>3, <1>6, CatalogueAssumption DEF RowsInv
<1>8. errands \in [Staff -> Errand] /\ \A s \in Staff : errands[s] = NoErrand
  BY <1>2, Errands
<1>9. eldest \in Entries
  BY DEF Entries
<1>10. Keeper(eldest)
  BY <1>3, <1>8, <1>9, Idlers DEF Keeper
<1> QED
  BY <1>7, <1>8, <1>10, Idlers DEF CatalogueInv

\* What members have earned and what the code looks up by name outlives every edit
\* (ranks.service.ts, medals.service.ts): no removal takes awards it could have
\* counted, and a protected rank is always there.
THEOREM LadderKept == CatalogueSpec => [](CatalogueTypeOK /\ EarnedIsKept)
<1>1. CatalogueInv /\ [CatalogueNext]_catalogueVars => CatalogueInv'
  <2> SUFFICES ASSUME CatalogueInv, [CatalogueNext]_catalogueVars PROVE CatalogueInv'
    OBVIOUS
  <2>1. ASSUME NEW s \in Staff, NEW e \in Entries,
               \/ Create(s, e) \/ Update(s, e) \/ LinkDiscord(s, e)
               \/ RemoveEntry(s, e) \/ AwardEntry(s, e)
        PROVE  CatalogueInv'
    BY <2>1, CreateKeeps, UpdateKeeps, LinkKeeps, RemoveAwardKeep
  <2>2. ASSUME NEW s \in Staff,
               \/ \E kind \in {RankIds, MedalIds} : Reorder(s, kind)
               \/ SaveEntry(s) \/ RemoveRow(s) \/ ReorderRows(s) \/ AwardRow(s)
        PROVE  CatalogueInv'
    BY <2>2, ReorderKeeps, SaveKeeps, RemoveRowKeeps, ReorderRowsKeep, AwardRowKeeps
  <2>3. ASSUME NEW e \in Entries, TakeBack(e) PROVE CatalogueInv'
    BY <2>3, TakeBackKeeps
  <2>4. CASE UNCHANGED catalogueVars
    BY <2>4 DEF catalogueVars, CatalogueInv, RowsInv, ErrandInv, Keeper, KeptBy, There, Unique,
                NameFree, PlaceFree, OtherEntries
  <2> QED
    BY <2>1, <2>2, <2>3, <2>4 DEF CatalogueNext
<1>2. CatalogueInv => CatalogueTypeOK /\ EarnedIsKept
  BY DEF CatalogueInv, RowsInv, CatalogueTypeOK, EarnedIsKept, Keeper, Entered
<1> QED
  BY <1>1, <1>2, CatalogueInitially, PTL DEF CatalogueSpec

(***************************************************************************)
(* The gallery (Gallery).                                                  *)
(***************************************************************************)
\* The types: a row, a request.
ItemRow == [status : Statuses, deleted : BOOLEAN, files : SUBSET Keys,
         author : Members \cup {"none"}, poster : SUBSET Keys]
Request == [at : {"idle", "insert", "post", "save", "mark", "purge", "like"},
            todo : {<<>>, <<"purge">>}, who : Members \cup {"none"}, item : Items \cup {0},
            copy : ItemRow, keys : SUBSET Keys, stage : Statuses]

\* The keys of a row.
Pictures(entry) == entry.files \cup entry.poster

\* Every key a row names is a ticket of its author.
Owned(entry) == \A k \in Pictures(entry) : /\ tickets[k].owner = entry.author
                                           /\ tickets[k].target # "none"

\* The row has been inserted.
Used(i) == items[i].status # "none"

\* The item was removed, whether or not it came back.
Removed(i) == items[i].deleted \/ i \in revived

\* What a request carries: the rows to save name the keys of the row there is, and
\* what is purged are keys of an item that was removed before.
RequestInv(r) ==
    /\ r.at = "insert" => Owned(r.copy)
    /\ r.at \in {"insert", "save"} => r.copy.status # "none"
    /\ r.at \in {"post", "save", "mark", "purge", "like"} => r.item \in Items /\ Used(r.item)
    /\ r.at = "save" => /\ Pictures(r.copy) = Media(r.item)
                        /\ r.copy.author = items[r.item].author
    /\ r.at \in {"mark", "purge"} => r.keys \subseteq Media(r.item)
    /\ r.at = "mark" => r.todo = <<"purge">>
    /\ r.at = "purge" => r.todo = <<>> /\ Removed(r.item)
    /\ r.at = "like" => r.who \in Fans

\* The tables and the store: every object that was purged belongs to a removed item.
Shelf ==
    /\ tickets \in [Keys -> [owner : Members \cup {"none"},
                             target : {"none", "gallery", "poster"}]]
    /\ objects \in [Keys -> {"absent", "stored", "purged"}]
    /\ items \in [Items -> ItemRow]
    /\ likes \subseteq Items \X Fans /\ views \subseteq Items \X Fans
    /\ posts \subseteq Items \X Statuses
    /\ orders \in 0 .. MaxOrders /\ revived \subseteq Items
    /\ \A i \in Items : Owned(items[i])
    /\ \A k \in Keys : objects[k] = "purged"
                      => \E j \in Items : k \in Media(j) /\ Used(j) /\ Removed(j)

\* The invariant.
GalleryInv ==
    /\ Shelf
    /\ desks \in [Desks -> Request]
    /\ \A d \in Desks : RequestInv(desks[d])

\* It gives the types.
LEMMA GalleryTypes == GalleryInv => GalleryTypeOK
  BY DEF GalleryInv, Shelf, GalleryTypeOK, ItemRow

\* And that what is shown is whole: two items with one key have one author.
LEMMA GalleryShows == GalleryInv => ShownIsWhole
<1> SUFFICES ASSUME GalleryInv, NEW i \in Items, NEW k \in Media(i),
                    objects[k] = "purged", Shown(i)
             PROVE  i \in revived \/ Reused(k, i)
  BY DEF ShownIsWhole
<1>1. k \in Keys
  BY DEF GalleryInv, Shelf, ItemRow, Media
<1>2. PICK j \in Items : k \in Media(j) /\ Removed(j)
  BY <1>1 DEF GalleryInv, Shelf
<1>3. CASE j = i
  BY <1>2, <1>3 DEF Removed, Shown, Exists
<1>4. CASE j # i
  <2>1. tickets[k].owner = items[i].author /\ tickets[k].owner = items[j].author
    BY <1>2 DEF GalleryInv, Shelf, Owned, Pictures, Media
  <2> QED
    BY <1>2, <1>4, <2>1 DEF Reused
<1> QED
  BY <1>3, <1>4

\* What a slot holds between two requests.
LEMMA Blank == /\ NoItem \in ItemRow /\ Pictures(NoItem) = {}
               /\ NoRequest \in Request
               /\ RequestInv(NoRequest) /\ RequestInv(NoRequest)'
<1>1. NoItem \in ItemRow /\ Pictures(NoItem) = {}
  BY DEF NoItem, ItemRow, Statuses, Pictures
<1>2. NoRequest \in Request
  BY <1>1 DEF NoRequest, Request, Statuses
<1> QED
  BY <1>1, <1>2 DEF RequestInv, NoRequest

\* The gallery begins empty.
LEMMA GalleryInitially == ASSUME GalleryInit PROVE GalleryInv
<1>1. /\ tickets = [k \in Keys |-> NoTicket]
      /\ objects = [k \in Keys |-> "absent"]
      /\ items = [i \in Items |-> NoItem]
      /\ likes = {} /\ views = {} /\ posts = {} /\ orders = 0 /\ revived = {}
      /\ desks = [d \in Desks |-> NoRequest]
  BY DEF GalleryInit
<1>2. Shelf
  BY <1>1, Blank, GalleryAssumption DEF Shelf, NoTicket, Owned
<1> QED
  BY <1>1, <1>2, Blank DEF GalleryInv

\* What a step leaves alone of an item, at least.
Same(i) == /\ items'[i].author = items[i].author /\ Media(i)' = Media(i) /\ Used(i)'
           /\ Removed(i) => Removed(i)'

\* The same of all items.
Steady == \A i \in Items : Used(i) => Same(i)

\* One request goes on, and those of the others keep their obligations.
LEMMA RequestsKeep ==
    ASSUME GalleryInv, NEW d \in Desks, NEW r \in Request,
           Steady \/ UNCHANGED <<items, revived>>,
           UNCHANGED tickets, desks' = [desks EXCEPT ![d] = r], RequestInv(r)', Shelf'
    PROVE  GalleryInv'
<1>0. Steady
  BY DEF Steady, Same, Media, Removed, Used
<1>1. /\ desks' \in [Desks -> Request]
      /\ \A e \in Desks : desks'[e] = IF e = d THEN r ELSE desks[e]
  BY DEF GalleryInv
<1>2. \A e \in Desks : RequestInv(desks[e])'
  <2> SUFFICES ASSUME NEW e \in Desks, e # d PROVE RequestInv(desks[e])'
    BY <1>1
  <2>1. desks'[e] = desks[e] /\ RequestInv(desks[e])
    BY <1>1 DEF GalleryInv
  <2>2. \A i \in Items : Used(i) => /\ items'[i].author = items[i].author
                                    /\ Media(i)' = Media(i) /\ Used(i)'
                                    /\ Removed(i) => Removed(i)'
    BY <1>0 DEF Steady, Same
  <2> QED
    BY <2>1, <2>2 DEF RequestInv, Owned
<1> QED
  BY <1>1, <1>2 DEF GalleryInv

\* A request begins or goes on, and changes nothing else.
LEMMA DesksOnly ==
    ASSUME GalleryInv, NEW d \in Desks, NEW r \in Request, OnlyDesks,
           orders' \in 0 .. MaxOrders, desks' = [desks EXCEPT ![d] = r], RequestInv(r)
    PROVE  GalleryInv'
<1>1. UNCHANGED <<tickets, objects, items, likes, views, setting, posts, revived>>
  BY DEF OnlyDesks
<1>2. Shelf'
  BY <1>1 DEF GalleryInv, Shelf, Owned, Media, Removed, Used
<1>3. RequestInv(r)'
  BY <1>1 DEF RequestInv, Owned, Media, Removed, Used
<1> QED
  BY <1>1, <1>2, <1>3, RequestsKeep

\* The bound is a bound.
LEMMA SpentWell == ASSUME GalleryInv, Spend PROVE orders' \in 0 .. MaxOrders
  BY GalleryAssumption DEF Spend, GalleryInv, Shelf

\* A row with one column replaced.
LEMMA ItemEdits ==
    ASSUME NEW entry \in ItemRow, NEW s \in Statuses
    PROVE  /\ [entry EXCEPT !.status = s] \in ItemRow
           /\ Pictures([entry EXCEPT !.status = s]) = Pictures(entry)
           /\ [entry EXCEPT !.status = s].author = entry.author
           /\ [entry EXCEPT !.status = s].status = s
           /\ [entry EXCEPT !.deleted = TRUE] \in ItemRow
           /\ Pictures([entry EXCEPT !.deleted = TRUE]) = Pictures(entry)
           /\ [entry EXCEPT !.deleted = TRUE].author = entry.author
           /\ [entry EXCEPT !.deleted = TRUE].deleted = TRUE
           /\ [entry EXCEPT !.deleted = TRUE].status = entry.status
  BY DEF ItemRow, Pictures

\* A submission names keys of its author (resolveKeyToPublicUrl).
LEMMA SubmitKeeps ==
    ASSUME GalleryInv, NEW d \in Desks, NEW m \in Members, Submit(d, m) PROVE GalleryInv'
<1>1. PICK files \in SUBSET Keys, poster \in SUBSET Keys :
         /\ \A k \in files : Resolves(m, k, "gallery")
         /\ \A k \in poster : Resolves(m, k, "poster")
         /\ OpenRequest(d, [NoRequest EXCEPT !.at = "insert", !.who = m,
              !.copy = [NoItem EXCEPT !.author = m, !.files = files, !.poster = poster,
                          !.status = IF AutoApproved(m) THEN "approved" ELSE "pending"]])
  BY DEF Submit
<1> DEFINE copy == [NoItem EXCEPT !.author = m, !.files = files, !.poster = poster,
                          !.status = IF AutoApproved(m) THEN "approved" ELSE "pending"]
<1>2. /\ copy \in ItemRow /\ Pictures(copy) = files \cup poster /\ copy.author = m
      /\ copy.status # "none"
  BY DEF NoItem, ItemRow, Statuses, Pictures
<1>3. OpenRequest(d, [NoRequest EXCEPT !.at = "insert", !.who = m, !.copy = copy])
  BY <1>1
<1> HIDE DEF copy
<1> DEFINE r == [NoRequest EXCEPT !.at = "insert", !.who = m, !.copy = copy]
<1>4. r \in Request /\ r.at = "insert" /\ r.copy = copy
  BY <1>2 DEF NoRequest, Request, Statuses
<1>5. desks' = [desks EXCEPT ![d] = r] /\ Spend /\ OnlyDesks
  BY <1>3 DEF OpenRequest, Submit
<1> HIDE DEF r
<1>6. Owned(copy)
  BY <1>1, <1>2 DEF Owned, Resolves
<1>7. RequestInv(r)
  BY <1>2, <1>4, <1>6 DEF RequestInv
<1> QED
  BY <1>4, <1>5, <1>7, SpentWell, DesksOnly

\* Moderation copies the row, its keys and its author.
LEMMA ModerateKeeps ==
    ASSUME GalleryInv, NEW d \in Desks, NEW m \in Members, NEW i \in Items, ModerateItem(d, m, i)
    PROVE  GalleryInv'
<1>1. items[i] \in ItemRow /\ Media(i) = Pictures(items[i])
  BY DEF GalleryInv, Shelf, Media, Pictures
<1>2. OnlyDesks /\ items[i].status # "none"
  BY DEF ModerateItem, Exists
<1>3. ASSUME NEW copy \in ItemRow, Pictures(copy) = Media(i), copy.author = items[i].author,
             copy.status # "none",
             NEW r \in Request, r.at = "save", r.item = i, r.copy = copy, OpenRequest(d, r)
      PROVE  GalleryInv'
  <2>1. desks' = [desks EXCEPT ![d] = r] /\ Spend
    BY <1>3 DEF OpenRequest
  <2>2. RequestInv(r)
    BY <1>2, <1>3 DEF RequestInv, Used
  <2> QED
    BY <1>2, <2>1, <2>2, SpentWell, DesksOnly
<1>4. CASE OpenRequest(d, [NoRequest EXCEPT !.at = "save", !.who = m, !.item = i,
                                  !.copy = items[i]])
  <2> DEFINE r == [NoRequest EXCEPT !.at = "save", !.who = m, !.item = i, !.copy = items[i]]
  <2>1. r \in Request /\ r.at = "save" /\ r.copy = items[i] /\ r.item = i
    BY <1>1 DEF NoRequest, Request, Statuses
  <2>2. OpenRequest(d, r)
    BY <1>4
  <2> HIDE DEF r
  <2> QED
    BY <1>1, <1>2, <1>3, <2>1, <2>2
<1>5. ASSUME NEW status \in {"approved", "declined"},
             OpenRequest(d, [NoRequest EXCEPT !.at = "save", !.who = m, !.item = i,
            !.copy = [items[i] EXCEPT !.status = status],
            !.stage = IF status = "approved" /\ items[i].status = "approved"
                        THEN "none" ELSE status])
      PROVE  GalleryInv'
  <2> DEFINE copy == [items[i] EXCEPT !.status = status]
             stage == IF status = "approved" /\ items[i].status = "approved"
                        THEN "none" ELSE status
             r == [NoRequest EXCEPT !.at = "save", !.who = m, !.item = i, !.copy = copy,
                                    !.stage = stage]
  <2>1. stage \in Statuses /\ status \in Statuses
    BY DEF Statuses
  <2>2. /\ copy \in ItemRow /\ Pictures(copy) = Media(i) /\ copy.author = items[i].author
        /\ copy.status # "none"
    BY <1>1, <2>1, ItemEdits
  <2>3. OpenRequest(d, r)
    BY <1>5
  <2> HIDE DEF copy, stage
  <2>4. r \in Request /\ r.at = "save" /\ r.copy = copy /\ r.item = i
    BY <2>1, <2>2 DEF NoRequest, Request
  <2> HIDE DEF r
  <2> QED
    BY <1>3, <2>2, <2>3, <2>4
<1> QED
  BY <1>4, <1>5 DEF ModerateItem

\* A removal marks the row and then purges.
LEMMA StepsAre == /\ Head(Steps) = "mark" /\ Tail(Steps) = <<"purge">>
                  /\ Head(<<"purge">>) = "purge" /\ <<"purge">> # <<>>
  BY DEF Steps

\* A removal reads the keys of the row.
LEMMA RemoveKeeps ==
    ASSUME GalleryInv, NEW d \in Desks, NEW m \in Members, NEW i \in Items, RemoveItem(d, m, i)
    PROVE  GalleryInv'
<1> DEFINE r == [NoRequest EXCEPT !.at = "mark", !.todo = <<"purge">>, !.who = m,
                  !.item = i, !.keys = Media(i)]
<1>1. desks' = [desks EXCEPT ![d] = r] /\ Spend /\ OnlyDesks
  BY StepsAre DEF RemoveItem, OpenRequest, Media
<1>2. Media(i) \in SUBSET Keys
  BY DEF GalleryInv, Shelf, ItemRow, Media
<1>3. r \in Request /\ r.at = "mark" /\ r.todo = <<"purge">> /\ r.item = i /\ r.keys = Media(i)
  <2>1. "none" \in Statuses /\ NoItem \in ItemRow
    BY Blank DEF Statuses
  <2> QED
    BY <1>2, <2>1 DEF NoRequest, Request
<1> HIDE DEF r
<1>4. Used(i)
  BY DEF RemoveItem, Exists, Used
<1>5. RequestInv(r)
  BY <1>3, <1>4 DEF RequestInv
<1> QED
  BY <1>1, <1>3, <1>5, SpentWell, DesksOnly

\* A like begins.
LEMMA LikeKeeps ==
    ASSUME GalleryInv, NEW d \in Desks, NEW m \in Members, NEW i \in Items, Like(d, m, i)
    PROVE  GalleryInv'
<1> DEFINE r == [NoRequest EXCEPT !.at = "like", !.who = m, !.item = i]
<1>1. desks' = [desks EXCEPT ![d] = r] /\ Spend /\ OnlyDesks /\ m \in Fans
  BY DEF Like, OpenRequest
<1>2. r \in Request /\ r.at = "like" /\ r.item = i /\ r.who = m
  <2>1. "none" \in Statuses /\ NoItem \in ItemRow
    BY Blank DEF Statuses
  <2> QED
    BY <2>1 DEF NoRequest, Request
<1> HIDE DEF r
<1>3. Used(i)
  BY DEF Like, Shown, Exists, Used
<1>4. RequestInv(r)
  BY <1>1, <1>2, <1>3 DEF RequestInv
<1> QED
  BY <1>1, <1>2, <1>4, SpentWell, DesksOnly

\* A request goes on to its post.
LEMMA PostEdit ==
    ASSUME NEW r \in Request
    PROVE  /\ [r EXCEPT !.at = "post"] \in Request
           /\ [r EXCEPT !.at = "post"].at = "post"
           /\ [r EXCEPT !.at = "post"].item = r.item
  BY DEF Request

\* So does one that has inserted its item.
LEMMA InsertEdit ==
    ASSUME NEW r \in Request, NEW i \in Items, NEW s \in Statuses
    PROVE  /\ [r EXCEPT !.at = "post", !.item = i, !.stage = s] \in Request
           /\ [r EXCEPT !.at = "post", !.item = i, !.stage = s].at = "post"
           /\ [r EXCEPT !.at = "post", !.item = i, !.stage = s].item = i
  BY DEF Request

\* A removal goes on to its purge.
LEMMA PurgeEdit ==
    ASSUME NEW r \in Request
    PROVE  /\ [r EXCEPT !.at = "purge", !.todo = <<>>] \in Request
           /\ [r EXCEPT !.at = "purge", !.todo = <<>>].at = "purge"
           /\ [r EXCEPT !.at = "purge", !.todo = <<>>].todo = <<>>
           /\ [r EXCEPT !.at = "purge", !.todo = <<>>].item = r.item
           /\ [r EXCEPT !.at = "purge", !.todo = <<>>].keys = r.keys
  BY DEF Request

\* A purge goes on with the keys that are left.
LEMMA KeysEdit ==
    ASSUME NEW r \in Request, NEW keys \in SUBSET Keys
    PROVE  /\ [r EXCEPT !.keys = keys] \in Request
           /\ [r EXCEPT !.keys = keys].at = r.at
           /\ [r EXCEPT !.keys = keys].todo = r.todo
           /\ [r EXCEPT !.keys = keys].item = r.item
           /\ [r EXCEPT !.keys = keys].keys = keys
  BY DEF Request

\* A ticket is for a key nobody has named.
LEMMA TicketKeeps ==
    ASSUME GalleryInv, NEW k \in Keys, NEW m \in Members, CreateUploadTicket(k, m)
    PROVE  GalleryInv'
<1>1. /\ tickets[k] = NoTicket
      /\ UNCHANGED <<objects, items, likes, views, setting, desks, posts, orders, revived>>
  BY DEF CreateUploadTicket
<1>2. PICK target \in {"gallery", "poster"} :
        tickets' = [tickets EXCEPT ![k] = [owner |-> m, target |-> target]]
  BY DEF CreateUploadTicket
<1>3. tickets' \in [Keys -> [owner : Members \cup {"none"},
                             target : {"none", "gallery", "poster"}]]
  BY <1>2 DEF GalleryInv, Shelf
<1>4. \A entry \in ItemRow : Owned(entry) => Owned(entry)'
  <2> SUFFICES ASSUME NEW entry \in ItemRow, Owned(entry), NEW q \in Pictures(entry)
               PROVE  tickets'[q].owner = entry.author /\ tickets'[q].target # "none"
    BY DEF Owned
  <2>1. q \in Keys /\ tickets[q].target # "none" /\ tickets[q].owner = entry.author
    BY DEF Owned, ItemRow, Pictures
  <2>2. q # k
    BY <1>1, <2>1 DEF NoTicket
  <2>3. tickets'[q] = tickets[q]
    BY <1>2, <2>1, <2>2 DEF GalleryInv, Shelf
  <2> QED
    BY <2>1, <2>3
<1>5. \A i \in Items : items[i] \in ItemRow
  BY DEF GalleryInv, Shelf
<1>6. Shelf'
  BY <1>1, <1>3, <1>4, <1>5 DEF GalleryInv, Shelf, Media, Removed, Used
<1>7. \A d \in Desks : RequestInv(desks[d])'
  <2> TAKE d \in Desks
  <2>1. RequestInv(desks[d]) /\ desks[d].copy \in ItemRow
    BY DEF GalleryInv, Request
  <2> QED
    BY <1>1, <1>4, <2>1 DEF RequestInv, Media, Removed, Used
<1> QED
  BY <1>1, <1>6, <1>7 DEF GalleryInv

\* An object that is stored is not purged.
LEMMA PutKeeps ==
    ASSUME GalleryInv, NEW k \in Keys, PutObject(k) PROVE GalleryInv'
<1>1. /\ objects' = [objects EXCEPT ![k] = "stored"]
      /\ UNCHANGED <<tickets, items, likes, views, setting, desks, posts, orders, revived>>
  BY DEF PutObject
<1>2. /\ objects' \in [Keys -> {"absent", "stored", "purged"}]
      /\ \A q \in Keys : objects'[q] = "purged" => objects[q] = "purged"
  BY <1>1 DEF GalleryInv, Shelf
<1>3. Shelf'
  BY <1>1, <1>2 DEF GalleryInv, Shelf, Owned, Media, Removed, Used
<1>4. \A d \in Desks : RequestInv(desks[d])'
  BY <1>1 DEF GalleryInv, RequestInv, Owned, Media, Removed, Used
<1> QED
  BY <1>1, <1>3, <1>4 DEF GalleryInv

\* A row is written that names the keys of its author and, where the item was used
\* before, of the row it replaces; where it brings an item back, revived says so.
LEMMA ItemWritten ==
    ASSUME GalleryInv, NEW i \in Items, NEW entry \in ItemRow,
           items' = [items EXCEPT ![i] = entry],
           Owned(entry), entry.status # "none",
           Used(i) => Pictures(entry) = Media(i) /\ entry.author = items[i].author,
           revived \subseteq revived', revived' \subseteq Items,
           Used(i) => entry.deleted \/ ~items[i].deleted \/ i \in revived',
           UNCHANGED <<tickets, objects, likes, views, posts, orders>>
    PROVE  /\ Shelf'
           /\ Steady
           /\ \A j \in Items : items'[j] = IF j = i THEN entry ELSE items[j]
<1>1. /\ items' \in [Items -> ItemRow]
      /\ \A j \in Items : items'[j] = IF j = i THEN entry ELSE items[j]
  BY DEF GalleryInv, Shelf
<1>2. \A j \in Items : /\ Used(j) => Media(j)' = Media(j) /\ items'[j].author = items[j].author
                       /\ Used(j) => Used(j)'
  BY <1>1 DEF Media, Pictures, Used
<1>3. \A j \in Items : Used(j) /\ Removed(j) => Removed(j)'
  <2> TAKE j \in Items
  <2>1. CASE j = i
    <3>1. items'[j] = entry /\ items[j] = items[i]
      BY <1>1, <2>1
    <3>2. i \in revived => i \in revived'
      OBVIOUS
    <3> QED
      BY <2>1, <3>1, <3>2, Zenon DEF Removed
  <2>2. CASE j # i
    <3>1. items'[j] = items[j]
      BY <1>1, <2>2
    <3>2. j \in revived => j \in revived'
      OBVIOUS
    <3> QED
      BY <3>1, <3>2, Zenon DEF Removed
  <2> QED
    BY <2>1, <2>2
<1>4. \A j \in Items : Owned(items[j])'
  BY <1>1 DEF GalleryInv, Shelf, Owned
<1>5. \A k \in Keys : objects'[k] = "purged"
                        => \E j \in Items : k \in Media(j)' /\ Used(j)' /\ Removed(j)'
  <2> SUFFICES ASSUME NEW k \in Keys, objects[k] = "purged"
               PROVE  \E j \in Items : k \in Media(j)' /\ Used(j)' /\ Removed(j)'
    OBVIOUS
  <2>1. PICK j \in Items : k \in Media(j) /\ Used(j) /\ Removed(j)
    BY DEF GalleryInv, Shelf
  <2>2. k \in Media(j)' /\ Used(j)'
    BY <1>2, <2>1
  <2> QED
    BY <1>3, <2>1, <2>2
<1>6. Shelf'
  BY <1>1, <1>4, <1>5 DEF GalleryInv, Shelf
<1>7. Steady
  BY <1>2, <1>3 DEF Steady, Same
<1> QED
  BY <1>1, <1>6, <1>7

\* The insert takes a row nobody refers to.
LEMMA InsertKeeps ==
    ASSUME GalleryInv, NEW d \in Desks, NEW i \in Items, InsertItem(d, i)
    PROVE  GalleryInv'
<1> DEFINE copy == desks[d].copy
<1>1. /\ desks[d].at = "insert" /\ items[i].status = "none"
      /\ items' = [items EXCEPT ![i] = copy]
      /\ desks' = [desks EXCEPT ![d].at = "post", ![d].item = i, ![d].stage = copy.status]
      /\ UNCHANGED <<tickets, objects, likes, views, setting, posts, orders, revived>>
  BY DEF InsertItem
<1>2. /\ desks[d] \in Request /\ copy \in ItemRow /\ copy.status # "none" /\ Owned(copy)
      /\ copy.status \in Statuses
  BY <1>1 DEF GalleryInv, RequestInv, Request, ItemRow
<1> HIDE DEF copy
<1>3. PICK s \in Statuses : s = copy.status
  BY <1>2
<1> DEFINE new == [desks[d] EXCEPT !.at = "post", !.item = i, !.stage = s]
<1>4. \A q \in Request : LET n == [q EXCEPT !.at = "post", !.item = i, !.stage = s]
                         IN  n \in Request /\ n.at = "post" /\ n.item = i
  BY <1>3 DEF Request
<1>5. desks' = [desks EXCEPT ![d] = new]
  BY <1>1, <1>3 DEF GalleryInv
<1>6. PICK r \in Request : r = new /\ r.at = "post" /\ r.item = i
  BY <1>2, <1>4
<1> HIDE DEF new
<1>7. /\ Shelf' /\ Steady
      /\ \A j \in Items : items'[j] = IF j = i THEN copy ELSE items[j]
  <2>1. ~Used(i) /\ revived \subseteq Items
    BY <1>1 DEF Used, GalleryInv, Shelf
  <2> QED
    BY <1>1, <1>2, <2>1, ItemWritten
<1>8. RequestInv(r)'
  BY <1>2, <1>6, <1>7 DEF RequestInv, Used
<1> QED
  BY <1>1, <1>5, <1>6, <1>7, <1>8, RequestsKeep

\* The post.
LEMMA PostKeeps ==
    ASSUME GalleryInv, NEW d \in Desks, Post(d) PROVE GalleryInv'
<1> DEFINE i == desks[d].item
           s == desks[d].stage
<1>1. /\ desks[d].at = "post" /\ desks' = [desks EXCEPT ![d] = NoRequest]
      /\ posts' = posts \cup {<<i, s>>} \/ posts' = posts
      /\ UNCHANGED <<tickets, objects, items, likes, views, setting, orders, revived>>
  BY DEF Post, Close
<1>2. i \in Items /\ s \in Statuses
  BY <1>1 DEF GalleryInv, RequestInv, Request
<1> HIDE DEF i, s
<1>3. posts' \subseteq Items \X Statuses
  BY <1>1, <1>2 DEF GalleryInv, Shelf
<1>4. Shelf'
  BY <1>1, <1>3 DEF GalleryInv, Shelf, Owned, Media, Removed, Used
<1> QED
  BY <1>1, <1>4, Blank, RequestsKeep

\* The save: the item may come back, and is remembered.
LEMMA SaveItemKeeps ==
    ASSUME GalleryInv, NEW d \in Desks, SaveItem(d) PROVE GalleryInv'
<1>0. PICK i, copy : i = desks[d].item /\ copy = desks[d].copy
  OBVIOUS
<1>1. /\ desks[d].at = "save" /\ items' = [items EXCEPT ![i] = copy]
      /\ revived' = IF items[i].deleted THEN revived \cup {i} ELSE revived
      /\ \/ desks' = [desks EXCEPT ![d] = NoRequest]
         \/ desks' = [desks EXCEPT ![d].at = "post"]
      /\ UNCHANGED <<tickets, objects, likes, views, setting, posts, orders>>
  BY <1>0 DEF SaveItem, Close
<1>2. /\ desks[d] \in Request /\ copy \in ItemRow /\ copy.status # "none"
      /\ i \in Items /\ Used(i)
      /\ Pictures(copy) = Media(i) /\ copy.author = items[i].author
  BY <1>0, <1>1 DEF GalleryInv, RequestInv, Request
<1>3. Owned(copy)
  <2>1. Owned(items[i]) /\ Media(i) = Pictures(items[i])
    BY <1>2 DEF GalleryInv, Shelf, Media, Pictures
  <2> QED
    BY <1>2, <2>1 DEF Owned
<1>4. /\ revived \subseteq revived' /\ revived' \subseteq Items
      /\ copy.deleted \/ ~items[i].deleted \/ i \in revived'
  BY <1>1, <1>2 DEF GalleryInv, Shelf
<1>5. /\ Shelf' /\ Steady
      /\ \A j \in Items : items'[j] = IF j = i THEN copy ELSE items[j]
  BY <1>1, <1>2, <1>3, <1>4, ItemWritten
<1>6. CASE desks' = [desks EXCEPT ![d] = NoRequest]
  BY <1>1, <1>5, <1>6, Blank, RequestsKeep
<1>7. CASE desks' = [desks EXCEPT ![d].at = "post"]
  <2>1. PICK r \in Request : /\ r = [desks[d] EXCEPT !.at = "post"]
                             /\ r.at = "post" /\ r.item = i
    BY <1>0, <1>2, PostEdit
  <2>2. desks' = [desks EXCEPT ![d] = r]
    BY <1>7, <2>1 DEF GalleryInv
  <2>3. RequestInv(r)'
    BY <2>1, <1>2, <1>5 DEF RequestInv, Steady, Same
  <2> QED
    BY <1>1, <1>5, <2>1, <2>2, <2>3, RequestsKeep
<1> QED
  BY <1>1, <1>6, <1>7

\* The mark comes before the purge.
LEMMA SoftRemoveKeeps ==
    ASSUME GalleryInv, NEW d \in Desks, SoftRemove(d) PROVE GalleryInv'
<1>0. PICK i : i = desks[d].item
  OBVIOUS
<1> DEFINE entry == [items[i] EXCEPT !.deleted = TRUE]
<1>1. /\ desks[d].at = "mark" /\ items' = [items EXCEPT ![i].deleted = TRUE] /\ Proceed(d)
      /\ UNCHANGED <<tickets, objects, likes, views, setting, posts, orders, revived>>
  BY <1>0 DEF SoftRemove
<1>2. /\ desks[d] \in Request /\ desks[d].todo = <<"purge">>
      /\ i \in Items /\ Used(i) /\ desks[d].keys \subseteq Media(i)
  BY <1>0, <1>1 DEF GalleryInv, RequestInv
<1>3. PICK keys : keys = desks[d].keys
  OBVIOUS
<1>4. PICK r \in Request : /\ r = [desks[d] EXCEPT !.at = "purge", !.todo = <<>>]
                           /\ r.at = "purge" /\ r.todo = <<>> /\ r.item = i /\ r.keys = keys
  BY <1>0, <1>2, <1>3, PurgeEdit
<1>14. desks' = [desks EXCEPT ![d] = r]
  BY <1>1, <1>2, <1>4, StepsAre DEF Proceed
<1>5. items[i] \in ItemRow /\ Owned(items[i]) /\ Media(i) = Pictures(items[i])
  BY <1>2 DEF GalleryInv, Shelf, Media, Pictures
<1>6. /\ entry \in ItemRow /\ Pictures(entry) = Media(i) /\ entry.author = items[i].author
      /\ entry.deleted = TRUE /\ entry.status = items[i].status
  <2>1. \A e \in ItemRow : LET n == [e EXCEPT !.deleted = TRUE]
                        IN  /\ n \in ItemRow /\ Pictures(n) = Pictures(e) /\ n.author = e.author
                            /\ n.deleted = TRUE /\ n.status = e.status
    BY DEF ItemRow, Pictures
  <2> QED
    BY <1>5, <2>1
<1>7. items' = [items EXCEPT ![i] = entry]
  BY <1>1, <1>2 DEF GalleryInv, Shelf
<1> HIDE DEF entry
<1>8. Owned(entry) /\ entry.status # "none"
  BY <1>2, <1>5, <1>6 DEF Owned, Used
<1>9. revived' = revived /\ revived \subseteq Items
  BY <1>1 DEF GalleryInv, Shelf
<1>10. /\ Shelf' /\ Steady
       /\ \A j \in Items : items'[j] = IF j = i THEN entry ELSE items[j]
  BY <1>1, <1>2, <1>6, <1>7, <1>8, <1>9, ItemWritten
<1>11. Media(i)' = Media(i) /\ Used(i)'
  BY <1>2, <1>10 DEF Steady, Same
<1>12. Removed(i)'
  BY <1>2, <1>6, <1>10 DEF Removed
<1>13. RequestInv(r)'
  BY <1>2, <1>3, <1>4, <1>11, <1>12 DEF RequestInv
<1> QED
  BY <1>1, <1>4, <1>10, <1>13, <1>14, RequestsKeep

\* An object is purged of an item that was removed.
LEMMA DeleteKeeps ==
    ASSUME GalleryInv, NEW d \in Desks, DeleteObject(d) PROVE GalleryInv'
<1>0. PICK i : i = desks[d].item
  OBVIOUS
<1>1. PICK k \in desks[d].keys :
         /\ \/ objects' = [objects EXCEPT ![k] = IF @ = "stored" THEN "purged" ELSE @]
            \/ UNCHANGED objects
         /\ desks' = [desks EXCEPT ![d].keys = @ \ {k}]
  BY DEF DeleteObject
<1>2. /\ desks[d].at = "purge"
      /\ UNCHANGED <<tickets, items, likes, views, setting, posts, orders, revived>>
  BY DEF DeleteObject
<1>3. /\ desks[d] \in Request /\ desks[d].todo = <<>> /\ i \in Items /\ Used(i) /\ Removed(i)
      /\ desks[d].keys \subseteq Media(i) /\ desks[d].keys \in SUBSET Keys
  BY <1>0, <1>2 DEF GalleryInv, RequestInv, Request
<1>4. PICK keys \in SUBSET Keys : keys = desks[d].keys \ {k} /\ keys \subseteq Media(i)
  BY <1>3
<1>5. PICK r \in Request : /\ r = [desks[d] EXCEPT !.keys = keys]
                           /\ r.at = "purge" /\ r.todo = <<>> /\ r.item = i /\ r.keys = keys
  <2>1. \A q \in Request : LET n == [q EXCEPT !.keys = keys]
                           IN  /\ n \in Request /\ n.at = q.at /\ n.todo = q.todo
                               /\ n.item = q.item /\ n.keys = keys
    BY KeysEdit
  <2> QED
    BY <1>0, <1>2, <1>3, <2>1
<1>6. desks' = [desks EXCEPT ![d] = r]
  BY <1>1, <1>4, <1>5 DEF GalleryInv
<1>7. /\ objects' \in [Keys -> {"absent", "stored", "purged"}]
      /\ \A q \in Keys : q # k => objects'[q] = objects[q]
  BY <1>1, <1>3 DEF GalleryInv, Shelf
<1>8. \A q \in Keys : objects'[q] = "purged"
                        => \E j \in Items : q \in Media(j) /\ Used(j) /\ Removed(j)
  <2> TAKE q \in Keys
  <2>1. CASE q = k
    BY <2>1, <1>1, <1>3
  <2>2. CASE q # k
    BY <2>2, <1>7 DEF GalleryInv, Shelf
  <2> QED
    BY <2>1, <2>2
<1>9. Shelf'
  BY <1>2, <1>7, <1>8 DEF GalleryInv, Shelf, Owned, Media, Removed, Used
<1>10. RequestInv(r)'
  BY <1>2, <1>3, <1>4, <1>5 DEF RequestInv, Media, Removed, Used
<1> QED
  BY <1>2, <1>5, <1>6, <1>9, <1>10, RequestsKeep

\* The purge is done.
LEMMA PurgedKeeps ==
    ASSUME GalleryInv, NEW d \in Desks, Purged(d) PROVE GalleryInv'
<1>1. /\ desks[d].at = "purge" /\ Proceed(d)
      /\ UNCHANGED <<tickets, objects, items, likes, views, setting, posts, orders, revived>>
  BY DEF Purged
<1>2. desks[d].todo = <<>>
  BY <1>1 DEF GalleryInv, RequestInv
<1>3. desks' = [desks EXCEPT ![d] = NoRequest]
  BY <1>1, <1>2 DEF Proceed
<1>4. Shelf'
  BY <1>1 DEF GalleryInv, Shelf, Owned, Media, Removed, Used
<1> QED
  BY <1>1, <1>3, <1>4, Blank, RequestsKeep

\* The like is written.
LEMMA InsertLikeKeeps ==
    ASSUME GalleryInv, NEW d \in Desks, InsertLike(d) PROVE GalleryInv'
<1> DEFINE i == desks[d].item
           m == desks[d].who
<1>1. /\ desks[d].at = "like" /\ desks' = [desks EXCEPT ![d] = NoRequest]
      /\ likes' = likes \cup {<<i, m>>}
      /\ UNCHANGED <<tickets, objects, items, views, setting, posts, orders, revived>>
  BY DEF InsertLike, Close
<1>2. i \in Items /\ m \in Fans
  BY <1>1 DEF GalleryInv, RequestInv
<1> HIDE DEF i, m
<1>3. likes' \subseteq Items \X Fans
  BY <1>1, <1>2 DEF GalleryInv, Shelf
<1>4. Shelf'
  BY <1>1, <1>3 DEF GalleryInv, Shelf, Owned, Media, Removed, Used
<1> QED
  BY <1>1, <1>4, Blank, RequestsKeep

\* What touches no request.
LEMMA OthersKeep ==
    ASSUME GalleryInv,
           \/ \E m \in Members, i \in Items : Unlike(m, i) \/ RecordView(m, i)
           \/ ChangeSettings \/ UNCHANGED galleryVars
    PROVE  GalleryInv'
<1>1. /\ UNCHANGED <<tickets, objects, items, desks, posts, revived>>
      /\ likes' \subseteq Items \X Fans /\ views' \subseteq Items \X Fans
      /\ orders' \in 0 .. MaxOrders
  <2>0. /\ likes \subseteq Items \X Fans /\ views \subseteq Items \X Fans
        /\ orders \in 0 .. MaxOrders
    BY DEF GalleryInv, Shelf
  <2>1. ASSUME NEW m \in Members, NEW i \in Items, Unlike(m, i) PROVE <1>1!:
    BY <2>0, <2>1 DEF Unlike
  <2>2. ASSUME NEW m \in Members, NEW i \in Items, RecordView(m, i) PROVE <1>1!:
    BY <2>0, <2>2 DEF RecordView
  <2>3. CASE ChangeSettings
    BY <2>0, <2>3, SpentWell DEF ChangeSettings
  <2>4. CASE UNCHANGED galleryVars
    BY <2>0, <2>4 DEF galleryVars
  <2> QED
    BY <2>1, <2>2, <2>3, <2>4
<1>2. Shelf'
  BY <1>1 DEF GalleryInv, Shelf, Owned, Media, Removed, Used
<1>3. \A d \in Desks : RequestInv(desks[d])'
  BY <1>1 DEF GalleryInv, RequestInv, Owned, Media, Removed, Used
<1> QED
  BY <1>1, <1>2, <1>3 DEF GalleryInv

\* A crash leaves no request; the rows stay, removed or not.
LEMMA CrashKeeps ==
    ASSUME GalleryInv, GalleryCrash PROVE GalleryInv'
<1>1. /\ UNCHANGED <<tickets, objects, items, likes, views, setting, posts, revived>>
      /\ desks' = [d \in Desks |-> NoRequest] /\ Spend
  BY DEF GalleryCrash, OnlyDesks
<1>2. Shelf'
  BY <1>1, SpentWell DEF GalleryInv, Shelf, Owned, Media, Removed, Used
<1>3. desks' \in [Desks -> Request] /\ \A d \in Desks : desks'[d] = NoRequest
  BY <1>1, Blank
<1>4. \A d \in Desks : RequestInv(desks[d])'
  BY <1>3, Blank
<1> QED
  BY <1>2, <1>3, <1>4 DEF GalleryInv

\* Nothing is shown whose picture the service itself has deleted (GalleryService.remove,
\* StorageService.deleteObject), but for the two ways around it the property names.
THEOREM PicturesKept == GallerySpec => [](GalleryTypeOK /\ ShownIsWhole)
<1>1. GalleryInv /\ [GalleryNext]_galleryVars => GalleryInv'
  <2> SUFFICES ASSUME GalleryInv, [GalleryNext]_galleryVars PROVE GalleryInv'
    OBVIOUS
  <2>1. ASSUME NEW m \in Members, NEW k \in Keys, CreateUploadTicket(k, m) PROVE GalleryInv'
    BY <2>1, TicketKeeps
  <2>2. ASSUME NEW m \in Members, NEW d \in Desks,
               \/ Submit(d, m)
               \/ \E i \in Items : ModerateItem(d, m, i) \/ RemoveItem(d, m, i) \/ Like(d, m, i)
        PROVE  GalleryInv'
    BY <2>2, SubmitKeeps, ModerateKeeps, RemoveKeeps, LikeKeeps
  <2>3. ASSUME NEW k \in Keys, PutObject(k) PROVE GalleryInv'
    BY <2>3, PutKeeps
  <2>4. ASSUME NEW d \in Desks,
               \/ \E i \in Items : InsertItem(d, i)
               \/ Post(d) \/ SaveItem(d) \/ SoftRemove(d) \/ DeleteObject(d) \/ Purged(d)
               \/ InsertLike(d)
        PROVE  GalleryInv'
    BY <2>4, InsertKeeps, PostKeeps, SaveItemKeeps, SoftRemoveKeeps, DeleteKeeps, PurgedKeeps,
       InsertLikeKeeps
  <2>5. CASE \/ \E m \in Members, i \in Items : Unlike(m, i) \/ RecordView(m, i)
             \/ ChangeSettings \/ UNCHANGED galleryVars
    BY <2>5, OthersKeep
  <2>6. CASE GalleryCrash
    BY <2>6, CrashKeeps
  <2> QED
    BY <2>1, <2>2, <2>3, <2>4, <2>5, <2>6 DEF GalleryNext
<1>2. GalleryInv => GalleryTypeOK /\ ShownIsWhole
  BY GalleryTypes, GalleryShows
<1> QED
  BY <1>1, <1>2, GalleryInitially, PTL DEF GallerySpec

(***************************************************************************)
(* The capability matrix and the bot's settings (Administration).          *)
(***************************************************************************)
Marks == {"none", "no", "yes"}
Settings == [apply : BOOLEAN, role : BOOLEAN]
Loads == [busy : BOOLEAN, granted : SUBSET Cells, excused : BOOLEAN]
ClerkSteps == {"idle", "guard", "commit", "invalidate", "compare", "write"}
Edits == [at : ClerkSteps,
          rest : {<<>>, <<"write">>, <<"invalidate">>, <<"commit", "invalidate">>},
          read : [Cells -> Marks] \cup {<<>>}, changes : Batches \cup {<<>>},
          copy : Settings \cup {<<>>}, dirty : SUBSET {"apply", "role"}]

\* What an edit is, by the step it has reached.
Editing(e) ==
    /\ e \in Edits
    /\ e.at = "guard" => /\ e.rest = <<"commit", "invalidate">>
                         /\ e.read \in [Cells -> Marks] /\ \A c \in Core : e.read[c] = "yes"
    /\ e.at \in {"guard", "commit"} =>
         /\ e.changes \in Batches
         /\ \A n \in DOMAIN e.changes : ~(e.changes[n].granted /\ e.changes[n].cell \in Closed)
    /\ e.at = "commit" => /\ e.rest = <<"invalidate">>
                          /\ \A c \in Core : c \in Changed(e.changes) => Final(e.changes, c)
    /\ e.at = "compare" => e.rest = <<"write">>
    /\ e.at \in {"compare", "write"} => e.copy \in Settings /\ (e.copy.apply => e.copy.role)
    /\ e.at \in {"write", "invalidate"} => e.rest = <<>>
AdminShapes ==
    /\ matter \in Matters /\ table \in [Cells -> Marks]
    /\ cache \in [granted : SUBSET Cells, until : 0 .. MaxClock + CacheTtl, excused : BOOLEAN]
    /\ loads \in [Readers -> Loads]
    /\ DOMAIN clerks = Clerks
    /\ bot \in Settings /\ time \in 0 .. MaxClock /\ deeds \in 0 .. MaxDeeds
    /\ lapped \in BOOLEAN

\* What the cache serves, and what a check brings for it.
CacheInv ==
    /\ GrantsAreCurrent
    /\ \A r \in Readers : loads[r].busy => loads[r].excused \/ loads[r].granted = Granted

\* One save at a time, unless two overlapped: and what it leaves is as in its copy.
BotInv ==
    ~lapped =>
      /\ bot.apply => bot.role
      /\ \A k \in Clerks : clerks[k].at = "write" =>
           /\ \A j \in Clerks \ {k} : clerks[j].at # "write"
           /\ \A f \in DOMAIN bot : f \notin clerks[k].dirty => bot[f] = clerks[k].copy[f]

AdminInv == AdminShapes /\ (\A k \in Clerks : Editing(clerks[k])) /\ CacheInv /\ BotInv

AdminLess == {p \in Nat \X Nat : p[1] < p[2]}

LEMMA FinalIs ==
    ASSUME NEW s \in Batches, NEW c \in Changed(s)
    PROVE  \E n \in DOMAIN s : s[n].cell = c /\ Final(s, c) = s[n].granted
<1>1. s \in Seq([cell : Cells, granted : BOOLEAN])
  BY AdministrationAssumption
<1>2. Len(s) \in Nat /\ DOMAIN s = 1 .. Len(s)
  BY <1>1
<1> DEFINE P(n) == s[n].cell = c /\ \A m \in n + 1 .. Len(s) : s[m].cell # c
           S == {k \in Nat : \E n \in DOMAIN s : k = Len(s) - n /\ s[n].cell = c}
<1>3. PICK n0 \in DOMAIN s : s[n0].cell = c
  BY DEF Changed
<1>4. Len(s) - n0 \in S
  BY <1>2, <1>3
<1>5. OpToRel(<, Nat) = AdminLess
  BY DEF OpToRel, AdminLess
<1>6. PICK k \in S : \A j \in S : ~(<<j, k>> \in AdminLess)
  BY <1>4, <1>5, NatLessThanWellFounded, WFMin
<1>7. PICK n \in DOMAIN s : k = Len(s) - n /\ s[n].cell = c
  OBVIOUS
<1>8. ASSUME NEW m \in n + 1 .. Len(s), s[m].cell = c PROVE FALSE
  <2>1. m \in DOMAIN s /\ Len(s) - m \in Nat /\ Len(s) - m < k /\ k \in Nat
    BY <1>2, <1>7
  <2>2. Len(s) - m \in S
    BY <2>1, <1>8
  <2> HIDE DEF S
  <2> QED
    BY <2>1, <2>2, <1>6 DEF AdminLess
<1>9. \E i \in DOMAIN s : P(i)
  BY <1>7, <1>8
<1> DEFINE i == CHOOSE i \in DOMAIN s : P(i)
<1>10. i \in DOMAIN s /\ P(i)
  BY <1>9
<1>11. Final(s, c) = s[i].granted
  BY DEF Final
<1> QED
  BY <1>10, <1>11

LEMMA GovernableKeeps ==
    ASSUME NEW grid, NEW s, Governable(grid, s), NEW c \in Core, c \in Changed(s)
    PROVE  Final(s, c)
<1>1. c \in Cells
  BY AdministrationAssumption
<1>2. After(grid, s)[c] = "yes"
  BY DEF Governable
<1> QED
  BY <1>1, <1>2 DEF After

\* An edit goes on, or there is none any more.
LEMMA Onwards ==
    ASSUME AdminInv, NEW k \in Clerks, clerks[k].at # "idle", Onward(k) \/ clerks' = [clerks EXCEPT ![k] = NoEdit]
    PROVE  /\ DOMAIN clerks' = Clerks /\ \A j \in Clerks \ {k} : clerks'[j] = clerks[j]
           /\ \/ clerks'[k] = NoEdit
              \/ /\ Onward(k) /\ clerks[k].rest # <<>>
                 /\ clerks'[k] = [clerks[k] EXCEPT !.at = Head(clerks[k].rest),
                                                   !.rest = Tail(clerks[k].rest)]
  BY DEF AdminInv, AdminShapes, Onward

LEMMA NoEditIs == NoEdit.at = "idle" /\ Editing(NoEdit)
  BY DEF NoEdit, Editing, Edits, ClerkSteps

LEMMA AdminStarts == ASSUME AdminInit PROVE AdminInv
<1>1. PICK new \in SUBSET (Cells \ Core) :
        table = [c \in Cells |-> IF c \in new THEN "none"
                                 ELSE IF c \in Defaults THEN "yes" ELSE "no"]
  BY DEF AdminInit
<1>2. /\ matter \in Matters /\ cache = NoCache /\ loads = [r \in Readers |-> NoLoad]
      /\ clerks = [k \in Clerks |-> NoEdit] /\ bot = [apply |-> FALSE, role |-> FALSE]
      /\ time = 0 /\ deeds = 0 /\ lapped = FALSE
  BY DEF AdminInit
<1>3. 0 \in 0 .. MaxClock /\ 0 \in 0 .. MaxDeeds /\ 0 \in 0 .. MaxClock + CacheTtl
  BY AdministrationAssumption
<1>4. AdminShapes
  <2>1. table \in [Cells -> Marks]
    BY <1>1 DEF Marks
  <2>2. NoLoad \in Loads /\ NoCache \in [granted : SUBSET Cells, until : 0 .. MaxClock + CacheTtl, excused : BOOLEAN]
    BY <1>3 DEF NoLoad, Loads, NoCache
  <2>3. loads \in [Readers -> Loads]
    BY <1>2, <2>2
  <2> QED
    BY <1>2, <1>3, <2>1, <2>2, <2>3 DEF AdminShapes, Settings
<1>5. \A k \in Clerks : Editing(clerks[k])
  BY <1>2, NoEditIs
<1>6. CacheInv
  <2>1. cache.until <= time /\ cache.until <= time + CacheTtl
    BY <1>2, AdministrationAssumption DEF NoCache
  <2>2. Core \subseteq Granted /\ Closed \cap Granted = {}
    BY <1>1, AdministrationAssumption DEF Granted
  <2>3. \A r \in Readers : ~loads[r].busy
    BY <1>2 DEF NoLoad
  <2> QED
    BY <2>1, <2>2, <2>3 DEF CacheInv, GrantsAreCurrent
<1>7. BotInv
  BY <1>2, NoEditIs DEF BotInv
<1> QED
  BY <1>4, <1>5, <1>6, <1>7 DEF AdminInv

\* What a step that leaves these alone leaves true.
LEMMA BotStands ==
    ASSUME AdminInv, bot' = bot, lapped' = lapped, DOMAIN clerks' = Clerks,
           \A k \in Clerks : clerks'[k].at = "write" => clerks'[k] = clerks[k]
    PROVE  BotInv'
  BY DEF AdminInv, BotInv

LEMMA CacheStands ==
    ASSUME AdminInv, UNCHANGED <<table, cache, loads, time>>,
           \A k \in Clerks : clerks[k].at = "invalidate" => clerks'[k].at = "invalidate"
    PROVE  CacheInv'
  BY DEF AdminInv, CacheInv, GrantsAreCurrent, Granted

LEMMA MatrixLoaded == ASSUME AdminInv, NEW r \in Readers, LoadMatrix(r) PROVE AdminInv'
<1>1. AdminShapes /\ CacheInv
  BY DEF AdminInv
<1>2. /\ loads'[r].busy /\ loads'[r].granted = Granted
      /\ \A q \in Readers : q # r => loads'[q] = loads[q]
      /\ loads' \in [Readers -> Loads]
  <2> DEFINE l == [NoLoad EXCEPT !.busy = TRUE, !.granted = Granted]
  <2>1. l \in Loads /\ l.busy /\ l.granted = Granted
    BY DEF NoLoad, Loads, Granted
  <2> HIDE DEF l
  <2>2. loads' = [loads EXCEPT ![r] = l]
    BY DEF LoadMatrix, l
  <2> QED
    BY <1>1, <2>1, <2>2 DEF AdminShapes
<1>3. AdminShapes'
  BY <1>1, <1>2 DEF LoadMatrix, AdminShapes
<1>4. CacheInv'
  BY <1>1, <1>2 DEF LoadMatrix, CacheInv, GrantsAreCurrent, Granted
<1>5. BotInv' /\ \A k \in Clerks : Editing(clerks'[k])
  BY BotStands DEF LoadMatrix, AdminInv, AdminShapes
<1> QED
  BY <1>3, <1>4, <1>5 DEF AdminInv

LEMMA MatrixStored == ASSUME AdminInv, NEW r \in Readers, StoreMatrix(r) PROVE AdminInv'
<1>1. AdminShapes /\ CacheInv
  BY DEF AdminInv
<1>2. loads[r] \in Loads /\ time \in Nat /\ time <= MaxClock
  BY <1>1, AdministrationAssumption DEF AdminShapes
<1>3. time + CacheTtl \in 0 .. MaxClock + CacheTtl
  BY <1>2, AdministrationAssumption
<1>4. /\ cache'.granted = loads[r].granted /\ cache'.excused = loads[r].excused
      /\ cache'.until = time + CacheTtl
      /\ cache' \in [granted : SUBSET Cells, until : 0 .. MaxClock + CacheTtl, excused : BOOLEAN]
  BY <1>2, <1>3 DEF StoreMatrix, Loads
<1>5. /\ loads' \in [Readers -> Loads] /\ ~loads'[r].busy
      /\ \A q \in Readers : q # r => loads'[q] = loads[q]
  <2>1. NoLoad \in Loads /\ ~NoLoad.busy
    BY DEF NoLoad, Loads
  <2> QED
    BY <1>1, <2>1 DEF StoreMatrix, AdminShapes
<1>6. AdminShapes'
  BY <1>1, <1>4, <1>5 DEF StoreMatrix, AdminShapes
<1>7. CacheInv'
  <2>1. cache'.excused \/ cache'.granted = Granted
    BY <1>1, <1>4 DEF CacheInv, StoreMatrix
  <2>2. cache'.until <= time + CacheTtl
    BY <1>2, <1>4, AdministrationAssumption
  <2>3. Granted' = Granted /\ time' = time
    BY DEF StoreMatrix, Granted
  <2>4. \A q \in Readers : loads'[q].busy => loads'[q].excused \/ loads'[q].granted = Granted
    BY <1>1, <1>5 DEF CacheInv
  <2> QED
    BY <1>1, <2>1, <2>2, <2>3, <2>4 DEF CacheInv, GrantsAreCurrent
<1>8. BotInv' /\ \A k \in Clerks : Editing(clerks'[k])
  BY BotStands DEF StoreMatrix, AdminInv, AdminShapes
<1> QED
  BY <1>6, <1>7, <1>8 DEF AdminInv

\* Only an idle clerk starts.
LEMMA EditStarted ==
    ASSUME AdminInv, NEW k \in Clerks, NEW about, NEW e, StartEdit(k, about, e)
    PROVE  /\ clerks[k].at = "idle" /\ clerks'[k] = e /\ DOMAIN clerks' = Clerks
           /\ \A j \in Clerks \ {k} : clerks'[j] = clerks[j]
           /\ deeds' \in 0 .. MaxDeeds
<1>1. k <= k
  BY AdministrationAssumption
<1>2. clerks[k].at = "idle"
  BY <1>1 DEF StartEdit
<1>3. deeds' \in 0 .. MaxDeeds
  BY AdministrationAssumption DEF StartEdit, Deed, AdminInv, AdminShapes
<1> QED
  BY <1>2, <1>3 DEF StartEdit, AdminInv, AdminShapes

LEMMA PermissionsAsked == ASSUME AdminInv, NEW k \in Clerks, UpdatePermissions(k) PROVE AdminInv'
<1> DEFINE e(s) == [NoEdit EXCEPT !.at = "guard", !.rest = Order, !.read = table, !.changes = s]
<1>1. PICK s \in Batches : /\ \A n \in DOMAIN s : ~(s[n].granted /\ s[n].cell \in Closed)
                           /\ StartEdit(k, "matrix", e(s))
  BY DEF UpdatePermissions
<1>2. /\ e(s) \in Edits /\ e(s).at = "guard" /\ e(s).rest = <<"commit", "invalidate">>
      /\ e(s).read = table /\ e(s).changes = s
  BY <1>1 DEF NoEdit, Order, Edits, ClerkSteps, AdminInv, AdminShapes
<1>3. \A c \in Core : table[c] = "yes"
  BY DEF AdminInv, CacheInv, GrantsAreCurrent, Granted
<1>4. Editing(e(s)) /\ e(s).at = "guard"
  BY <1>1, <1>2, <1>3 DEF Editing, AdminInv, AdminShapes
<1> HIDE DEF e
<1>5. /\ clerks[k].at = "idle" /\ clerks'[k] = e(s) /\ DOMAIN clerks' = Clerks
      /\ \A j \in Clerks \ {k} : clerks'[j] = clerks[j]
      /\ deeds' \in 0 .. MaxDeeds
  BY <1>1, EditStarted
<1>6. AdminShapes'
  BY <1>5 DEF UpdatePermissions, AdminInv, AdminShapes
<1>7. \A j \in Clerks : Editing(clerks'[j])
  BY <1>4, <1>5 DEF AdminInv
<1>8. BotInv' /\ CacheInv'
  BY <1>4, <1>5, BotStands, CacheStands DEF UpdatePermissions
<1> QED
  BY <1>6, <1>7, <1>8 DEF AdminInv

LEMMA GuardAsked == ASSUME AdminInv, NEW k \in Clerks, AssertGovernable(k) PROVE AdminInv'
<1> DEFINE e == clerks[k]
<1>1. Editing(e) /\ e.at = "guard" /\ AdminShapes
  BY DEF AssertGovernable, AdminInv
<1>2. CASE clerks' = [clerks EXCEPT ![k] = NoEdit]
  <2>1. /\ DOMAIN clerks' = Clerks /\ clerks'[k] = NoEdit
        /\ \A j \in Clerks \ {k} : clerks'[j] = clerks[j]
    BY <1>1, <1>2 DEF AdminShapes
  <2>2. AdminShapes'
    BY <1>1, <2>1 DEF AssertGovernable, AdminShapes
  <2>3. \A j \in Clerks : Editing(clerks'[j])
    BY <2>1, NoEditIs DEF AdminInv
  <2>4. BotInv' /\ CacheInv'
    BY <1>1, <2>1, NoEditIs, BotStands, CacheStands DEF AssertGovernable
  <2> QED
    BY <2>2, <2>3, <2>4 DEF AdminInv
<1>3. CASE Governable(e.read, e.changes) /\ Onward(k)
  <2> DEFINE d == [e EXCEPT !.at = "commit", !.rest = <<"invalidate">>]
  <2>1. e.rest = <<"commit", "invalidate">>
    BY <1>1 DEF Editing
  <2>2. Head(e.rest) = "commit" /\ Tail(e.rest) = <<"invalidate">> /\ e.rest # <<>>
    BY <2>1
  <2>3. /\ DOMAIN clerks' = Clerks /\ clerks'[k] = d
        /\ \A j \in Clerks \ {k} : clerks'[j] = clerks[j]
    BY <1>1, <1>3, <2>2 DEF Onward, AdminShapes
  <2>9. /\ d \in Edits /\ d.at = "commit" /\ d.rest = <<"invalidate">>
        /\ d.changes = e.changes
    BY <1>1 DEF Editing, Edits, ClerkSteps
  <2>4. \A c \in Core : c \in Changed(e.changes) => Final(e.changes, c)
    BY <1>3, GovernableKeeps
  <2>5. Editing(d) /\ d.at = "commit"
    BY <1>1, <2>4, <2>9 DEF Editing
  <2> HIDE DEF d
  <2>6. AdminShapes'
    BY <1>1, <2>3 DEF AssertGovernable, AdminShapes
  <2>7. \A j \in Clerks : Editing(clerks'[j])
    BY <2>3, <2>5 DEF AdminInv
  <2>8. BotInv' /\ CacheInv'
    BY <1>1, <2>3, <2>5, BotStands, CacheStands DEF AssertGovernable
  <2> QED
    BY <2>6, <2>7, <2>8 DEF AdminInv
<1> QED
  BY <1>2, <1>3 DEF AssertGovernable

LEMMA LoadsOvertaken ==
    ASSUME AdminInv, loads' = Overtaken
    PROVE  loads' \in [Readers -> Loads] /\ \A r \in Readers : loads'[r].busy => loads'[r].excused
<1>1. ASSUME NEW r \in Readers
      PROVE  LET l == [loads[r] EXCEPT !.excused = @ \/ loads[r].busy]
             IN  l \in Loads /\ (l.busy => l.excused)
  <2>1. loads[r] \in Loads
    BY DEF AdminInv, AdminShapes
  <2> QED
    BY <2>1 DEF Loads
<1> QED
  BY <1>1 DEF Overtaken

\* A batch that was governable keeps the floor, whatever has come since.
LEMMA FloorKept ==
    ASSUME AdminInv, NEW k \in Clerks, clerks[k].at = "commit"
    PROVE  LET t == After(table, clerks[k].changes)
           IN  /\ t \in [Cells -> Marks]
               /\ \A c \in Core : t[c] = "yes"
               /\ \A c \in Closed : t[c] # "yes"
<1> DEFINE s == clerks[k].changes
           t == After(table, s)
<1>1. /\ s \in Batches
      /\ \A n \in DOMAIN s : ~(s[n].granted /\ s[n].cell \in Closed)
      /\ \A c \in Core : c \in Changed(s) => Final(s, c)
  BY DEF AdminInv, Editing
<1>2. /\ table \in [Cells -> Marks] /\ \A c \in Core : c \in Cells /\ table[c] = "yes"
      /\ \A c \in Closed : c \in Cells /\ table[c] # "yes"
  BY AdministrationAssumption DEF AdminInv, AdminShapes, CacheInv, GrantsAreCurrent, Granted
<1> HIDE DEF s
<1>3. t \in [Cells -> Marks]
  BY <1>2 DEF After, Marks
<1>4. \A c \in Core : t[c] = "yes"
  BY <1>1, <1>2 DEF After
<1>5. ASSUME NEW c \in Closed PROVE t[c] # "yes"
  <2>1. CASE c \notin Changed(s)
    BY <1>2, <2>1 DEF After
  <2>2. CASE c \in Changed(s)
    <3>1. ~Final(s, c)
      BY <1>1, <2>2, FinalIs
    <3> QED
      BY <1>2, <2>2, <3>1 DEF After
  <2> QED
    BY <2>1, <2>2
<1> QED
  BY <1>3, <1>4, <1>5 DEF s

LEMMA BatchCommitted == ASSUME AdminInv, NEW k \in Clerks, Commit(k) PROVE AdminInv'
<1> DEFINE e == clerks[k]
           clash == \E c \in Changed(e.changes) : e.read[c] = "none" /\ table[c] # "none"
<1>1. Editing(e) /\ e.at = "commit" /\ AdminShapes
  BY DEF Commit, AdminInv
<1>2. CASE clash
  <2>1. clerks' = [clerks EXCEPT ![k] = NoEdit] /\ UNCHANGED <<matter, table, loads, cache, bot, time, deeds, lapped>>
    BY <1>2 DEF Commit
  <2>2. /\ DOMAIN clerks' = Clerks /\ clerks'[k] = NoEdit
        /\ \A j \in Clerks \ {k} : clerks'[j] = clerks[j]
    BY <1>1, <2>1 DEF AdminShapes
  <2>3. AdminShapes'
    BY <1>1, <2>1, <2>2 DEF AdminShapes
  <2>4. \A j \in Clerks : Editing(clerks'[j])
    BY <2>2, NoEditIs DEF AdminInv
  <2>5. BotInv' /\ CacheInv'
    BY <1>1, <2>1, <2>2, NoEditIs, BotStands, CacheStands
  <2> QED
    BY <2>3, <2>4, <2>5 DEF AdminInv
<1>3. CASE ~clash
  <2> DEFINE d == [e EXCEPT !.at = "invalidate", !.rest = <<>>]
  <2>1. /\ table' = After(table, e.changes) /\ loads' = Overtaken /\ Onward(k)
        /\ UNCHANGED <<matter, cache, bot, time, deeds, lapped>>
    BY <1>3 DEF Commit
  <2>2. e.rest = <<"invalidate">>
    BY <1>1 DEF Editing
  <2>3. Head(e.rest) = "invalidate" /\ Tail(e.rest) = <<>> /\ e.rest # <<>>
    BY <2>2
  <2>4. /\ DOMAIN clerks' = Clerks /\ clerks'[k] = d
        /\ \A j \in Clerks \ {k} : clerks'[j] = clerks[j]
    BY <1>1, <2>1, <2>3 DEF Onward, AdminShapes
  <2>5. d \in Edits /\ d.at = "invalidate" /\ d.rest = <<>>
    BY <1>1 DEF Editing, Edits, ClerkSteps
  <2> HIDE DEF d
  <2>6. Editing(d)
    BY <2>5 DEF Editing
  <2>7. /\ table' \in [Cells -> Marks]
        /\ \A c \in Core : table'[c] = "yes"
        /\ \A c \in Closed : table'[c] # "yes"
    BY <1>1, <2>1, FloorKept
  <2>8. loads' \in [Readers -> Loads] /\ \A r \in Readers : loads'[r].busy => loads'[r].excused
    BY <2>1, LoadsOvertaken
  <2>9. AdminShapes'
    BY <1>1, <2>1, <2>4, <2>7, <2>8 DEF AdminShapes
  <2>10. \A j \in Clerks : Editing(clerks'[j])
    BY <2>4, <2>6 DEF AdminInv
  <2>11. CacheInv'
    <3>1. Core \subseteq Granted' /\ Closed \cap Granted' = {}
      BY <2>7, AdministrationAssumption DEF Granted
    <3>2. cache'.until <= time' + CacheTtl
      BY <2>1 DEF AdminInv, CacheInv, GrantsAreCurrent
    <3> QED
      BY <2>4, <2>5, <2>8, <3>1, <3>2 DEF CacheInv, GrantsAreCurrent
  <2>12. BotInv'
    BY <2>1, <2>4, <2>5, BotStands
  <2> QED
    BY <2>9, <2>10, <2>11, <2>12 DEF AdminInv
<1> QED
  BY <1>2, <1>3

LEMMA NoCacheIs ==
    ASSUME time \in Nat
    PROVE  /\ NoCache \in [granted : SUBSET Cells, until : 0 .. MaxClock + CacheTtl, excused : BOOLEAN]
           /\ NoCache.until <= time /\ NoCache.until <= time + CacheTtl
  BY AdministrationAssumption DEF NoCache

LEMMA CacheDropped == ASSUME AdminInv, NEW k \in Clerks, Invalidate(k) PROVE AdminInv'
<1>1. /\ Editing(clerks[k]) /\ clerks[k].at = "invalidate" /\ AdminShapes /\ CacheInv
      /\ cache' = NoCache /\ Onward(k)
      /\ UNCHANGED <<matter, table, loads, bot, time, deeds, lapped>>
  BY DEF Invalidate, AdminInv
<1>2. clerks[k].rest = <<>>
  BY <1>1 DEF Editing
<1>3. /\ DOMAIN clerks' = Clerks /\ clerks'[k] = NoEdit
      /\ \A j \in Clerks \ {k} : clerks'[j] = clerks[j]
  BY <1>1, <1>2 DEF AdminShapes, Onward
<1>4. time \in Nat
  BY <1>1 DEF AdminShapes
<1>5. AdminShapes'
  BY <1>1, <1>3, <1>4, NoCacheIs DEF AdminShapes
<1>6. \A j \in Clerks : Editing(clerks'[j])
  BY <1>3, NoEditIs DEF AdminInv
<1>7. CacheInv'
  BY <1>1, <1>4, NoCacheIs DEF CacheInv, GrantsAreCurrent, Granted
<1>8. BotInv'
  BY <1>1, <1>3, NoEditIs, BotStands
<1> QED
  BY <1>5, <1>6, <1>7, <1>8 DEF AdminInv

LEMMA Seeded == ASSUME AdminInv, Seed PROVE AdminInv'
<1>1. AdminShapes /\ CacheInv /\ loads' = Overtaken
      /\ UNCHANGED <<matter, clerks, bot, time, lapped>> /\ cache' = [cache EXCEPT !.excused = TRUE]
  BY DEF Seed, AdminInv
<1>2. deeds' \in 0 .. MaxDeeds
  BY <1>1, AdministrationAssumption DEF Seed, Deed, AdminShapes
<1>3. table' \in [Cells -> Marks]
  BY <1>1 DEF Seed, AdminShapes, Marks
<1>4. /\ cache' \in [granted : SUBSET Cells, until : 0 .. MaxClock + CacheTtl, excused : BOOLEAN]
      /\ cache'.excused /\ cache'.until = cache.until
  BY <1>1 DEF AdminShapes
<1>5. loads' \in [Readers -> Loads] /\ \A r \in Readers : loads'[r].busy => loads'[r].excused
  BY <1>1, LoadsOvertaken
<1>6. AdminShapes'
  BY <1>1, <1>2, <1>3, <1>4, <1>5 DEF AdminShapes
<1>7. Core \subseteq Granted' /\ Closed \cap Granted' = {}
  BY <1>1, AdministrationAssumption DEF Seed, CacheInv, GrantsAreCurrent, Granted
<1>8. CacheInv'
  BY <1>1, <1>4, <1>5, <1>7 DEF CacheInv, GrantsAreCurrent
<1>9. BotInv' /\ \A j \in Clerks : Editing(clerks'[j])
  BY <1>1, BotStands DEF AdminInv, AdminShapes
<1> QED
  BY <1>6, <1>8, <1>9 DEF AdminInv

LEMMA SettingsAsked == ASSUME AdminInv, NEW k \in Clerks, UpdateSettings(k) PROVE AdminInv'
<1> DEFINE e(n) == [NoEdit EXCEPT !.at = "compare", !.rest = <<"write">>, !.copy = n]
<1>1. PICK n \in Settings : Consistent(n, bot) /\ StartEdit(k, "bot", e(n))
  BY DEF UpdateSettings, Settings
<1>2. /\ e(n) \in Edits /\ e(n).at = "compare" /\ e(n).rest = <<"write">> /\ e(n).copy = n
  BY <1>1 DEF NoEdit, Edits, ClerkSteps
<1>3. Editing(e(n))
  BY <1>1, <1>2 DEF Editing, Consistent
<1> HIDE DEF e
<1>4. /\ clerks[k].at = "idle" /\ clerks'[k] = e(n) /\ DOMAIN clerks' = Clerks
      /\ \A j \in Clerks \ {k} : clerks'[j] = clerks[j]
      /\ deeds' \in 0 .. MaxDeeds
  BY <1>1, EditStarted
<1>5. AdminShapes'
  BY <1>4 DEF UpdateSettings, AdminInv, AdminShapes
<1>6. \A j \in Clerks : Editing(clerks'[j])
  BY <1>3, <1>4 DEF AdminInv
<1>7. BotInv' /\ CacheInv'
  BY <1>2, <1>4, BotStands, CacheStands DEF UpdateSettings
<1> QED
  BY <1>5, <1>6, <1>7 DEF AdminInv

LEMMA SettingsCompared == ASSUME AdminInv, NEW k \in Clerks, CompareSettings(k) PROVE AdminInv'
<1> DEFINE e == clerks[k]
           D == {f \in DOMAIN bot : bot[f] # e.copy[f]}
           d == [[[e EXCEPT !.at = "write"] EXCEPT !.rest = <<>>] EXCEPT !.dirty = D]
<1>1. Editing(e) /\ e.at = "compare" /\ AdminShapes
      /\ UNCHANGED <<matter, table, cache, loads, bot, time, deeds>>
      /\ lapped' = (lapped \/ \E j \in Clerks \ {k} : clerks[j].at = "write")
  BY DEF CompareSettings, AdminInv
<1>2. DOMAIN bot = {"apply", "role"} /\ D \in SUBSET {"apply", "role"}
  BY <1>1 DEF AdminShapes, Settings
<1>3. /\ DOMAIN clerks' = Clerks /\ clerks'[k] = d
      /\ \A j \in Clerks \ {k} : clerks'[j] = clerks[j]
  BY <1>1 DEF CompareSettings, AdminShapes
<1>4. /\ d \in Edits /\ d.at = "write" /\ d.rest = <<>> /\ d.dirty = D
      /\ d.copy = e.copy /\ e.copy \in Settings /\ (e.copy.apply => e.copy.role)
  <2> HIDE DEF D
  <2> QED
    BY <1>1, <1>2 DEF Editing, Edits, ClerkSteps
<1>5. \A f \in DOMAIN bot : f \notin D => bot[f] = e.copy[f]
  OBVIOUS
<1> HIDE DEF d, D
<1>6. Editing(d)
  BY <1>4 DEF Editing
<1>7. AdminShapes'
  BY <1>1, <1>3 DEF AdminShapes
<1>8. \A j \in Clerks : Editing(clerks'[j])
  BY <1>3, <1>6 DEF AdminInv
<1>9. CacheInv'
  BY <1>1, <1>3, CacheStands
<1>10. BotInv'
  <2> SUFFICES ASSUME ~lapped' PROVE BotInv'
    BY DEF BotInv
  <2>1. ~lapped /\ \A j \in Clerks \ {k} : clerks[j].at # "write"
    BY <1>1
  <2>2. \A j \in Clerks \ {k} : clerks'[j].at # "write"
    BY <1>3, <2>1
  <2>3. bot'.apply => bot'.role
    BY <1>1, <2>1 DEF AdminInv, BotInv
  <2>4. \A f \in DOMAIN bot' : f \notin clerks'[k].dirty => bot'[f] = clerks'[k].copy[f]
    BY <1>1, <1>3, <1>4, <1>5
  <2> QED
    BY <2>2, <2>3, <2>4 DEF BotInv
<1> QED
  BY <1>7, <1>8, <1>9, <1>10 DEF AdminInv

LEMMA SettingsWritten == ASSUME AdminInv, NEW k \in Clerks, WriteSettings(k) PROVE AdminInv'
<1> DEFINE e == clerks[k]
<1>1. /\ Editing(e) /\ e.at = "write" /\ AdminShapes /\ BotInv /\ Onward(k)
      /\ UNCHANGED <<matter, table, cache, loads, time, deeds, lapped>>
      /\ bot' = [f \in DOMAIN bot |-> IF f \in e.dirty THEN e.copy[f] ELSE bot[f]]
  BY DEF WriteSettings, AdminInv
<1>2. /\ e.rest = <<>> /\ e.copy \in Settings /\ (e.copy.apply => e.copy.role)
      /\ bot \in Settings
  BY <1>1 DEF Editing, AdminShapes
<1>3. /\ DOMAIN clerks' = Clerks /\ clerks'[k] = NoEdit
      /\ \A j \in Clerks \ {k} : clerks'[j] = clerks[j]
  BY <1>1, <1>2 DEF AdminShapes, Onward
<1>4. /\ DOMAIN bot = {"apply", "role"}
      /\ bot'.apply = IF "apply" \in e.dirty THEN e.copy.apply ELSE bot.apply
      /\ bot'.role = IF "role" \in e.dirty THEN e.copy.role ELSE bot.role
  BY <1>1, <1>2 DEF Settings
<1>5. bot' \in Settings
  BY <1>1, <1>2 DEF Settings
<1>6. AdminShapes'
  BY <1>1, <1>3, <1>5 DEF AdminShapes
<1>7. \A j \in Clerks : Editing(clerks'[j])
  BY <1>3, NoEditIs DEF AdminInv
<1>8. CacheInv'
  BY <1>1, <1>3, CacheStands
<1>9. BotInv'
  <2> SUFFICES ASSUME ~lapped PROVE BotInv'
    BY <1>1 DEF BotInv
  <2>1. /\ \A j \in Clerks \ {k} : clerks[j].at # "write"
        /\ \A f \in DOMAIN bot : f \notin e.dirty => bot[f] = e.copy[f]
    BY <1>1 DEF BotInv
  <2>2. bot'.apply => bot'.role
    BY <1>2, <1>4, <2>1
  <2>3. \A j \in Clerks : clerks'[j].at # "write"
    BY <1>3, <2>1, NoEditIs
  <2> QED
    BY <2>2, <2>3 DEF BotInv
<1> QED
  BY <1>6, <1>7, <1>8, <1>9 DEF AdminInv

LEMMA AdminTicks == ASSUME AdminInv, AdminTick PROVE AdminInv'
<1>1. AdminShapes /\ CacheInv /\ UNCHANGED <<matter, table, cache, loads, clerks, bot, deeds, lapped>>
      /\ time' = time + 1 /\ time < MaxClock
  BY DEF AdminTick, AdminInv
<1>2. time \in Nat /\ time' \in 0 .. MaxClock /\ cache.until \in Nat
  BY <1>1, AdministrationAssumption DEF AdminShapes
<1>3. AdminShapes'
  BY <1>1, <1>2 DEF AdminShapes
<1>4. CacheInv'
  <2>1. Granted' = Granted
    BY <1>1 DEF Granted
  <2>2. cache.until <= time => cache'.until <= time'
    BY <1>1, <1>2
  <2>3. cache'.until <= time' + CacheTtl
    BY <1>1, <1>2, AdministrationAssumption DEF CacheInv, GrantsAreCurrent
  <2> QED
    BY <1>1, <2>1, <2>2, <2>3 DEF CacheInv, GrantsAreCurrent
<1>5. BotInv' /\ \A j \in Clerks : Editing(clerks'[j])
  BY <1>1, BotStands DEF AdminInv, AdminShapes
<1> QED
  BY <1>3, <1>4, <1>5 DEF AdminInv

LEMMA AdminRestarts == ASSUME AdminInv, AdminRestart PROVE AdminInv'
<1>1. /\ AdminShapes /\ CacheInv /\ cache' = NoCache
      /\ loads' = [r \in Readers |-> NoLoad] /\ clerks' = [k \in Clerks |-> NoEdit]
      /\ UNCHANGED <<matter, table, bot, time, lapped>>
  BY DEF AdminRestart, AdminInv
<1>2. deeds' \in 0 .. MaxDeeds /\ time \in Nat
  BY <1>1, AdministrationAssumption DEF AdminRestart, Deed, AdminShapes
<1>3. loads' \in [Readers -> Loads] /\ \A r \in Readers : ~loads'[r].busy
  BY <1>1 DEF NoLoad, Loads
<1>4. AdminShapes'
  BY <1>1, <1>2, <1>3, NoCacheIs DEF AdminShapes
<1>5. \A k \in Clerks : Editing(clerks'[k]) /\ clerks'[k].at # "write"
  BY <1>1, NoEditIs
<1>6. CacheInv'
  BY <1>1, <1>2, <1>3, NoCacheIs DEF CacheInv, GrantsAreCurrent, Granted
<1>7. BotInv'
  BY <1>1, <1>5, BotStands
<1> QED
  BY <1>4, <1>5, <1>6, <1>7 DEF AdminInv

LEMMA AdminSteps == ASSUME AdminInv, [AdminNext]_adminVars PROVE AdminInv'
<1>1. CASE UNCHANGED adminVars
  BY <1>1 DEF adminVars, AdminInv, AdminShapes, Editing, CacheInv, BotInv, GrantsAreCurrent, Granted
<1>2. CASE AdminNext
  BY <1>2, MatrixLoaded, MatrixStored, PermissionsAsked, GuardAsked, BatchCommitted,
     CacheDropped, Seeded, SettingsAsked, SettingsCompared, SettingsWritten, AdminTicks,
     AdminRestarts DEF AdminNext
<1> QED
  BY <1>1, <1>2

\* THEOREM: an edit of the matrix through the API is in force at once, but for
\* the windows the invariant names; batches that overlap never take the Owner's
\* floor or open a closed cell between them; and a ban role is there while bans
\* are shown, unless two saves of the settings overlapped.  For any table,
\* batches, clerks, readers and life of the cache (updatePermissions(), can(),
\* assertGovernable(), seedRolePermissions(), the bot's updateSettings()).
THEOREM AdministrationSound == AdminSpec => [](AdminTypeOK /\ AdministrationHolds)
<1>1. AdminInit => AdminInv
  BY AdminStarts
<1>2. AdminInv /\ [AdminNext]_adminVars => AdminInv'
  BY AdminSteps
<1>3. AdminInv => AdministrationHolds
  BY DEF AdminInv, CacheInv, BotInv, AdministrationHolds, BanRoleIsThere
<1>4. AdminInv => AdminTypeOK
  BY DEF AdminInv, AdminShapes, AdminTypeOK, Settings, Marks
<1> QED
  BY <1>1, <1>2, <1>3, <1>4, PTL DEF AdminSpec

(***************************************************************************)
(* The console and the notices (Console).                                  *)
(***************************************************************************)
RowNames == {"regiment", "settings", "papers", "bot", "link"}
ScriptSteps == {<<"load", "regiment">>, <<"load", "settings">>, <<"load", "papers">>,
          <<"find", "regiment">>, <<"drop", "regiment">>, <<"ask", "status">>,
          <<"resolve", "one">>}
         \cup ({"ensure", "create"} \X {"bot", "link"}) \cup ({"save", "amend"} \X RowNames)
         \cup ({"record"} \X {"deed", "failure"}) \cup ({"ledger"} \X {"done", "failed"})
         \cup ({"queue", "recheck", "send"} \X NoticeKinds)

\* The row a step needs a copy of, the steps that bring one, those that write it.
Needed(step) == IF step[1] \in {"save", "amend"} THEN step[2]
                ELSE IF step[1] = "queue" THEN "bot"
                ELSE IF step[1] = "ledger" THEN "link" ELSE "none"
Fetches == {"load", "ensure", "create"}
Writes == {"save", "amend"}
Changes == Writes \cup {"drop"}

\* A script in order, for a request that has copies of the rows in have: what a
\* step needs is fetched before, no row is written after a change of it, what may be the end is
\* the end, and a notice is looked at again, if at all, just before it is sent.
Ordered(t, have) ==
    /\ t \in Seq(ScriptSteps)
    /\ \A i \in 1 .. Len(t) :
         /\ Needed(t[i]) \in have \cup {"none"} \/
            \E j \in 1 .. Len(t) : j < i /\ t[j][1] \in Fetches /\ t[j][2] = Needed(t[i])
         /\ t[i][1] \in Changes =>
              \A j \in 1 .. Len(t) : j > i => ~(t[j][1] \in Writes /\ t[j][2] = t[i][2])
         /\ t[i][1] \in {"record", "send"} => i = Len(t)
         /\ t[i][1] = "recheck" => i = 1
         /\ t[i][1] = "send" => i = 1 \/ (i = 2 /\ t[1][1] = "recheck")

LEMMA TailIs ==
    ASSUME NEW t \in Seq(ScriptSteps), t # <<>>
    PROVE  /\ Tail(t) \in Seq(ScriptSteps) /\ Head(t) = t[1] /\ Head(t) \in ScriptSteps
           /\ Len(t) \in Nat \ {0} /\ Len(Tail(t)) = Len(t) - 1
           /\ \A i \in 1 .. Len(t) - 1 : Tail(t)[i] = t[i + 1]
  OBVIOUS

LEMMA NoneOrdered == \A have : Ordered(<<>>, have)
  BY DEF Ordered

\* The first step done, what it fetched is there.
LEMMA Advanced ==
    ASSUME NEW t, NEW have, NEW more, Ordered(t, have), t # <<>>, have \subseteq more,
           Head(t)[1] \in Fetches => Head(t)[2] \in more
    PROVE  Ordered(Tail(t), more)
<1>1. t \in Seq(ScriptSteps)
  BY DEF Ordered
<1>2. /\ Tail(t) \in Seq(ScriptSteps) /\ Head(t) = t[1]
      /\ Len(t) \in Nat \ {0} /\ Len(Tail(t)) = Len(t) - 1
      /\ \A i \in 1 .. Len(t) - 1 : Tail(t)[i] = t[i + 1]
  BY <1>1, TailIs
<1> DEFINE u == Tail(t)
<1> HIDE DEF u
<1>3. ASSUME NEW i \in 1 .. Len(u)
      PROVE  /\ Needed(u[i]) \in more \cup {"none"} \/
                \E j \in 1 .. Len(u) : j < i /\ u[j][1] \in Fetches /\ u[j][2] = Needed(u[i])
             /\ u[i][1] \in Changes =>
                  \A j \in 1 .. Len(u) : j > i => ~(u[j][1] \in Writes /\ u[j][2] = u[i][2])
             /\ u[i][1] \in {"record", "send"} => i = Len(u)
             /\ u[i][1] = "recheck" => i = 1
             /\ u[i][1] = "send" => i = 1 \/ (i = 2 /\ u[1][1] = "recheck")
  <2>1. i + 1 \in 1 .. Len(t) /\ u[i] = t[i + 1] /\ i \in Nat /\ Len(u) = Len(t) - 1 /\ Len(t) \in Nat
    BY <1>2 DEF u
  <2>2. \A j \in 1 .. Len(t) : j # 1 => j - 1 \in 1 .. Len(u) /\ u[j - 1] = t[j]
    BY <1>2 DEF u
  <2>3. \A j \in 1 .. Len(u) : j + 1 \in 1 .. Len(t) /\ u[j] = t[j + 1]
    BY <1>2 DEF u
  <2>4. Needed(u[i]) \in more \cup {"none"} \/
                \E j \in 1 .. Len(u) : j < i /\ u[j][1] \in Fetches /\ u[j][2] = Needed(u[i])
    <3>1. CASE Needed(t[i + 1]) \in have \cup {"none"}
      BY <2>1, <3>1
    <3>2. ASSUME NEW j \in 1 .. Len(t), j < i + 1, t[j][1] \in Fetches, t[j][2] = Needed(t[i + 1])
          PROVE <2>4!:
      <4>1. CASE j = 1
        BY <1>2, <2>1, <3>2, <4>1
      <4>2. CASE j # 1
        <5>1. j - 1 \in 1 .. Len(u) /\ u[j - 1] = t[j]
          BY <2>2, <4>2
        <5>2. j - 1 < i
          BY <2>1, <3>2
        <5>3. u[j - 1][1] \in Fetches /\ u[j - 1][2] = Needed(u[i])
          BY <2>1, <3>2, <5>1
        <5> QED
          BY <5>1, <5>2, <5>3
      <4> QED
        BY <4>1, <4>2
    <3> QED
      BY <1>1, <2>1, <3>1, <3>2 DEF Ordered
  <2>5. u[i][1] \in Changes =>
                  \A j \in 1 .. Len(u) : j > i => ~(u[j][1] \in Writes /\ u[j][2] = u[i][2])
    BY <2>1, <2>3 DEF Ordered
  <2>6. u[i][1] \in {"record", "send"} => i = Len(u)
    BY <2>1 DEF Ordered
  <2>7. /\ u[i][1] = "recheck" => i = 1
        /\ u[i][1] = "send" => i = 1 \/ (i = 2 /\ u[1][1] = "recheck")
    BY <2>1 DEF Ordered
  <2> QED
    BY <2>4, <2>5, <2>6, <2>7
<1> QED
  BY <1>2, <1>3 DEF Ordered, u

\* A row that is not there is created in place of the step that asked for it.
LEMMA StepReplaced ==
    ASSUME NEW t, NEW have, NEW x \in {"bot", "link"}, Ordered(t, have), t # <<>>,
           Head(t) = <<"ensure", x>>
    PROVE  LET u == <<<<"create", x>>>> \o Tail(t)
           IN  /\ Ordered(u, have) /\ Len(u) = Len(t) /\ Len(t) \in Nat \ {0}
               /\ u[1] = <<"create", x>> /\ \A i \in 2 .. Len(t) : u[i] = t[i]
<1>1. t \in Seq(ScriptSteps)
  BY DEF Ordered
<1>2. /\ Tail(t) \in Seq(ScriptSteps) /\ t[1] = <<"ensure", x>>
      /\ Len(t) \in Nat \ {0} /\ Len(Tail(t)) = Len(t) - 1
      /\ \A i \in 1 .. Len(t) - 1 : Tail(t)[i] = t[i + 1]
  BY <1>1, TailIs
<1> DEFINE c == <<"create", x>>
           u == <<c>> \o Tail(t)
<1>3. c \in ScriptSteps /\ <<c>> \in Seq(ScriptSteps)
  BY DEF ScriptSteps
<1>4. u \in Seq(ScriptSteps) /\ Len(u) = Len(t) /\ u[1] = c
      /\ \A i \in 2 .. Len(t) : u[i] = t[i]
  <2> HIDE DEF c
  <2>1. u \in Seq(ScriptSteps) /\ Len(u) = Len(t) /\ u[1] = c
    BY <1>2, <1>3
  <2>2. ASSUME NEW i \in 2 .. Len(t) PROVE u[i] = t[i]
    <3>1. u[i] = Tail(t)[i - 1]
      BY <1>2, <1>3
    <3> QED
      BY <1>2, <3>1
  <2> QED
    BY <2>1, <2>2
<1> HIDE DEF u
<1>5. u[1][1] = "create" /\ u[1][2] = x /\ t[1][1] = "ensure" /\ t[1][2] = x
  BY <1>2, <1>4
<1>6. ASSUME NEW i \in 1 .. Len(u)
      PROVE  /\ Needed(u[i]) \in have \cup {"none"} \/
                \E j \in 1 .. Len(u) : j < i /\ u[j][1] \in Fetches /\ u[j][2] = Needed(u[i])
             /\ u[i][1] \in Changes =>
                  \A j \in 1 .. Len(u) : j > i => ~(u[j][1] \in Writes /\ u[j][2] = u[i][2])
             /\ u[i][1] \in {"record", "send"} => i = Len(u)
             /\ u[i][1] = "recheck" => i = 1
             /\ u[i][1] = "send" => i = 1 \/ (i = 2 /\ u[1][1] = "recheck")
  <2>1. CASE i = 1
    BY <1>5, <2>1 DEF Needed, Writes, Changes
  <2>2. CASE i # 1
    <3>1. i \in 2 .. Len(t) /\ u[i] = t[i] /\ i \in 1 .. Len(t) /\ Len(u) = Len(t) /\ Len(t) \in Nat
      BY <1>2, <1>4, <2>2
    <3>2. \A j \in 1 .. Len(t) : j # 1 => u[j] = t[j]
      BY <1>2, <1>4
    <3>3. Needed(u[i]) \in have \cup {"none"} \/
                \E j \in 1 .. Len(u) : j < i /\ u[j][1] \in Fetches /\ u[j][2] = Needed(u[i])
      BY <1>5, <3>1, <3>2 DEF Ordered, Fetches
    <3>4. u[i][1] \in Changes =>
                  \A j \in 1 .. Len(u) : j > i => ~(u[j][1] \in Writes /\ u[j][2] = u[i][2])
      BY <3>1, <3>2 DEF Ordered
    <3>5. /\ u[i][1] \in {"record", "send"} => i = Len(u)
          /\ u[i][1] = "recheck" => i = 1
          /\ u[i][1] = "send" => i = 1 \/ (i = 2 /\ u[1][1] = "recheck")
      BY <1>5, <2>2, <3>1 DEF Ordered
    <3> QED
      BY <3>3, <3>4, <3>5
  <2> QED
    BY <2>1, <2>2
<1> QED
  BY <1>2, <1>4, <1>6 DEF Ordered, u

\* Sequences of a few steps, end to end.
LEMMA Spelt ==
    ASSUME NEW t \in Seq(ScriptSteps)
    PROVE  /\ Len(t) = 2 => t = <<t[1], t[2]>>
           /\ Len(t) = 3 => t = <<t[1], t[2], t[3]>>
           /\ Len(t) = 4 => t = <<t[1], t[2], t[3], t[4]>>
           /\ Len(t) = 5 => t = <<t[1], t[2], t[3], t[4], t[5]>>
  OBVIOUS
LEMMA Appended ==
    ASSUME NEW s \in Seq(ScriptSteps), NEW b \in ScriptSteps
    PROVE  /\ s \o <<b>> \in Seq(ScriptSteps) /\ Len(s \o <<b>>) = Len(s) + 1 /\ Len(s) \in Nat
           /\ \A i \in 1 .. Len(s) : (s \o <<b>>)[i] = s[i]
           /\ (s \o <<b>>)[Len(s) + 1] = b
  OBVIOUS
LEMMA OneMoreThanOne == \A a, b \in ScriptSteps : <<a>> \o <<b>> = <<a, b>>
<1> TAKE a, b \in ScriptSteps
<1> DEFINE s == <<a>>
           t == s \o <<b>>
<1>1. s \in Seq(ScriptSteps) /\ Len(s) = 1 /\ s[1] = a
  OBVIOUS
<1> HIDE DEF s
<1>2. /\ t \in Seq(ScriptSteps) /\ Len(t) = Len(s) + 1
      /\ \A i \in 1 .. Len(s) : t[i] = s[i]
      /\ t[Len(s) + 1] = b
  BY <1>1, Appended
<1> HIDE DEF t
<1>3. t \in Seq(ScriptSteps) /\ Len(t) = 2 /\ t[1] = a /\ t[2] = b
  BY <1>1, <1>2
<1> QED
  BY <1>1, <1>3, Spelt DEF s, t
LEMMA OneMoreThanTwo == \A a, b, c \in ScriptSteps : <<a, b>> \o <<c>> = <<a, b, c>>
<1> TAKE a, b, c \in ScriptSteps
<1> DEFINE s == <<a, b>>
           t == s \o <<c>>
<1>1. s \in Seq(ScriptSteps) /\ Len(s) = 2 /\ s[1] = a /\ s[2] = b
  OBVIOUS
<1> HIDE DEF s
<1>2. /\ t \in Seq(ScriptSteps) /\ Len(t) = Len(s) + 1
      /\ \A i \in 1 .. Len(s) : t[i] = s[i]
      /\ t[Len(s) + 1] = c
  BY <1>1, Appended
<1> HIDE DEF t
<1>3. t \in Seq(ScriptSteps) /\ Len(t) = 3 /\ t[1] = a /\ t[2] = b /\ t[3] = c
  BY <1>1, <1>2
<1> QED
  BY <1>1, <1>3, Spelt DEF s, t
LEMMA OneMoreThanThree == \A a, b, c, d \in ScriptSteps : <<a, b, c>> \o <<d>> = <<a, b, c, d>>
<1> TAKE a, b, c, d \in ScriptSteps
<1> DEFINE s == <<a, b, c>>
           t == s \o <<d>>
<1>1. s \in Seq(ScriptSteps) /\ Len(s) = 3 /\ s[1] = a /\ s[2] = b /\ s[3] = c
  OBVIOUS
<1> HIDE DEF s
<1>2. /\ t \in Seq(ScriptSteps) /\ Len(t) = Len(s) + 1
      /\ \A i \in 1 .. Len(s) : t[i] = s[i]
      /\ t[Len(s) + 1] = d
  BY <1>1, Appended
<1> HIDE DEF t
<1>3. t \in Seq(ScriptSteps) /\ Len(t) = 4 /\ t[1] = a /\ t[2] = b /\ t[3] = c /\ t[4] = d
  BY <1>1, <1>2
<1> QED
  BY <1>1, <1>3, Spelt DEF s, t
LEMMA OneMoreThanFour == \A a, b, c, d, e \in ScriptSteps : <<a, b, c, d>> \o <<e>> = <<a, b, c, d, e>>
<1> TAKE a, b, c, d, e \in ScriptSteps
<1> DEFINE s == <<a, b, c, d>>
           t == s \o <<e>>
<1>1. s \in Seq(ScriptSteps) /\ Len(s) = 4 /\ s[1] = a /\ s[2] = b /\ s[3] = c /\ s[4] = d
  OBVIOUS
<1> HIDE DEF s
<1>2. /\ t \in Seq(ScriptSteps) /\ Len(t) = Len(s) + 1
      /\ \A i \in 1 .. Len(s) : t[i] = s[i]
      /\ t[Len(s) + 1] = e
  BY <1>1, Appended
<1> HIDE DEF t
<1>3. t \in Seq(ScriptSteps) /\ Len(t) = 5 /\ t[1] = a /\ t[2] = b /\ t[3] = c /\ t[4] = d /\ t[5] = e
  BY <1>1, <1>2
<1> QED
  BY <1>1, <1>3, Spelt DEF s, t

\* The scripts, step by step.
LEMMA Scripts ==
    /\ UpdateRegiment = <<<<"load", "regiment">>, <<"load", "settings">>,
         <<"amend", "regiment">>, <<"amend", "settings">>, <<"record", "deed">>>>
    /\ UpdatePresentation = <<<<"find", "regiment">>, <<"load", "settings">>,
         <<"amend", "settings">>, <<"record", "deed">>>>
    /\ CompleteSetup = <<<<"load", "regiment">>, <<"amend", "regiment">>, <<"record", "deed">>>>
    /\ UpdateDocument = <<<<"find", "regiment">>, <<"load", "papers">>, <<"save", "papers">>,
         <<"record", "deed">>>>
    /\ DissolveRegiment = <<<<"find", "regiment">>, <<"drop", "regiment">>, <<"record", "deed">>>>
    /\ Bind = <<<<"load", "regiment">>, <<"save", "regiment">>, <<"ensure", "bot">>,
         <<"ensure", "link">>, <<"record", "deed">>>>
    /\ VerifyConnection = <<<<"ask", "status">>, <<"ensure", "link">>, <<"save", "link">>,
         <<"record", "deed">>>>
    /\ Configure = <<<<"ensure", "bot">>, <<"save", "bot">>, <<"record", "deed">>>>
    /\ ResolveOperation = <<<<"resolve", "one">>, <<"record", "deed">>>>
<1>1. /\ <<"load", "regiment">> \in ScriptSteps /\ <<"load", "settings">> \in ScriptSteps
      /\ <<"amend", "regiment">> \in ScriptSteps /\ <<"amend", "settings">> \in ScriptSteps
      /\ <<"record", "deed">> \in ScriptSteps /\ <<"find", "regiment">> \in ScriptSteps
      /\ <<"load", "papers">> \in ScriptSteps /\ <<"save", "papers">> \in ScriptSteps
      /\ <<"drop", "regiment">> \in ScriptSteps /\ <<"save", "regiment">> \in ScriptSteps
      /\ <<"ensure", "bot">> \in ScriptSteps /\ <<"ensure", "link">> \in ScriptSteps
      /\ <<"ask", "status">> \in ScriptSteps /\ <<"save", "link">> \in ScriptSteps
      /\ <<"save", "bot">> \in ScriptSteps /\ <<"resolve", "one">> \in ScriptSteps
  BY DEF ScriptSteps, RowNames
<1>2. UpdateRegiment = <<<<"load", "regiment">>, <<"load", "settings">>,
         <<"amend", "regiment">>, <<"amend", "settings">>,
         <<"record", "deed">>>>
  <2> DEFINE a == <<"load", "regiment">>
             b == <<"load", "settings">>
             c == <<"amend", "regiment">>
             d == <<"amend", "settings">>
             e == <<"record", "deed">>
  <2>1. a \in ScriptSteps /\ b \in ScriptSteps /\ c \in ScriptSteps /\ d \in ScriptSteps /\ e \in ScriptSteps
    BY <1>1
  <2> HIDE DEF a, b, c, d, e
  <2>2. <<a, b, c, d>> \o <<e>> = <<a, b, c, d, e>>
    BY <2>1, OneMoreThanFour
  <2> QED
    BY <2>2, Zenon DEF a, b, c, d, e, UpdateRegiment, Record
<1>3. UpdatePresentation = <<<<"find", "regiment">>, <<"load", "settings">>,
         <<"amend", "settings">>, <<"record", "deed">>>>
  BY <1>1, OneMoreThanThree DEF UpdatePresentation, Record
<1>4. CompleteSetup = <<<<"load", "regiment">>, <<"amend", "regiment">>,
         <<"record", "deed">>>>
  BY <1>1, OneMoreThanTwo DEF CompleteSetup, Record
<1>5. UpdateDocument = <<<<"find", "regiment">>, <<"load", "papers">>,
         <<"save", "papers">>, <<"record", "deed">>>>
  BY <1>1, OneMoreThanThree DEF UpdateDocument, Record
<1>6. DissolveRegiment = <<<<"find", "regiment">>, <<"drop", "regiment">>,
         <<"record", "deed">>>>
  BY <1>1, OneMoreThanTwo DEF DissolveRegiment, Record
<1>7. Bind = <<<<"load", "regiment">>, <<"save", "regiment">>,
         <<"ensure", "bot">>, <<"ensure", "link">>, <<"record", "deed">>>>
  <2> DEFINE a == <<"load", "regiment">>
             b == <<"save", "regiment">>
             c == <<"ensure", "bot">>
             d == <<"ensure", "link">>
             e == <<"record", "deed">>
  <2>1. a \in ScriptSteps /\ b \in ScriptSteps /\ c \in ScriptSteps /\ d \in ScriptSteps /\ e \in ScriptSteps
    BY <1>1
  <2> HIDE DEF a, b, c, d, e
  <2>2. <<a, b, c, d>> \o <<e>> = <<a, b, c, d, e>>
    BY <2>1, OneMoreThanFour
  <2> QED
    BY <2>2, Zenon DEF a, b, c, d, e, Bind, Record
<1>8. VerifyConnection = <<<<"ask", "status">>, <<"ensure", "link">>,
         <<"save", "link">>, <<"record", "deed">>>>
  BY <1>1, OneMoreThanThree DEF VerifyConnection, Record
<1>9. Configure = <<<<"ensure", "bot">>, <<"save", "bot">>, <<"record", "deed">>>>
  BY <1>1, OneMoreThanTwo DEF Configure, Record
<1>10. ResolveOperation = <<<<"resolve", "one">>, <<"record", "deed">>>>
  BY <1>1, OneMoreThanOne DEF ResolveOperation, Record
<1> QED
  BY <1>2, <1>3, <1>4, <1>5, <1>6, <1>7, <1>8, <1>9, <1>10

LEMMA NoticeOrdered ==
    ASSUME NEW k \in NoticeKinds, NEW have PROVE Ordered(Notify(k), have) /\ Notify(k) # <<>>
  BY DEF Notify, Ordered, ScriptSteps, Needed, Fetches, Writes, Changes, RowNames
LEMMA ScriptOrdered ==
    ASSUME NEW act \in Acts \cup NoticeKinds
    PROVE  /\ Ordered(ScriptOf(act), {}) /\ ScriptOf(act) # <<>>
           /\ \A i \in 1 .. Len(ScriptOf(act)) : ScriptOf(act)[i][1] \notin {"recheck", "send"}
<1>1. CASE act = "update"
  <2>1. ScriptOf(act) = UpdateRegiment
    BY <1>1 DEF ScriptOf
  <2>2. Ordered(UpdateRegiment, {})
    BY Scripts DEF Ordered, ScriptSteps, Needed, Fetches, Writes, Changes, RowNames
  <2>3. UpdateRegiment # <<>> /\ \A i \in 1 .. Len(UpdateRegiment) : UpdateRegiment[i][1] \notin {"recheck", "send"}
    BY Scripts
  <2> QED
    BY <2>1, <2>2, <2>3
<1>2. CASE act = "present"
  <2>1. ScriptOf(act) = UpdatePresentation
    BY <1>2 DEF ScriptOf
  <2>2. Ordered(UpdatePresentation, {})
    BY Scripts DEF Ordered, ScriptSteps, Needed, Fetches, Writes, Changes, RowNames
  <2>3. UpdatePresentation # <<>> /\ \A i \in 1 .. Len(UpdatePresentation) : UpdatePresentation[i][1] \notin {"recheck", "send"}
    BY Scripts
  <2> QED
    BY <2>1, <2>2, <2>3
<1>3. CASE act = "setup"
  <2>1. ScriptOf(act) = CompleteSetup
    BY <1>3 DEF ScriptOf
  <2>2. Ordered(CompleteSetup, {})
    BY Scripts DEF Ordered, ScriptSteps, Needed, Fetches, Writes, Changes, RowNames
  <2>3. CompleteSetup # <<>> /\ \A i \in 1 .. Len(CompleteSetup) : CompleteSetup[i][1] \notin {"recheck", "send"}
    BY Scripts
  <2> QED
    BY <2>1, <2>2, <2>3
<1>4. CASE act = "document"
  <2>1. ScriptOf(act) = UpdateDocument
    BY <1>4 DEF ScriptOf
  <2>2. Ordered(UpdateDocument, {})
    BY Scripts DEF Ordered, ScriptSteps, Needed, Fetches, Writes, Changes, RowNames
  <2>3. UpdateDocument # <<>> /\ \A i \in 1 .. Len(UpdateDocument) : UpdateDocument[i][1] \notin {"recheck", "send"}
    BY Scripts
  <2> QED
    BY <2>1, <2>2, <2>3
<1>5. CASE act = "dissolve"
  <2>1. ScriptOf(act) = DissolveRegiment
    BY <1>5 DEF ScriptOf
  <2>2. Ordered(DissolveRegiment, {})
    BY Scripts DEF Ordered, ScriptSteps, Needed, Fetches, Writes, Changes, RowNames
  <2>3. DissolveRegiment # <<>> /\ \A i \in 1 .. Len(DissolveRegiment) : DissolveRegiment[i][1] \notin {"recheck", "send"}
    BY Scripts
  <2> QED
    BY <2>1, <2>2, <2>3
<1>6. CASE act = "bind"
  <2>1. ScriptOf(act) = Bind
    BY <1>6 DEF ScriptOf
  <2>2. Ordered(Bind, {})
    BY Scripts DEF Ordered, ScriptSteps, Needed, Fetches, Writes, Changes, RowNames
  <2>3. Bind # <<>> /\ \A i \in 1 .. Len(Bind) : Bind[i][1] \notin {"recheck", "send"}
    BY Scripts
  <2> QED
    BY <2>1, <2>2, <2>3
<1>7. CASE act = "verify"
  <2>1. ScriptOf(act) = VerifyConnection
    BY <1>7 DEF ScriptOf
  <2>2. Ordered(VerifyConnection, {})
    BY Scripts DEF Ordered, ScriptSteps, Needed, Fetches, Writes, Changes, RowNames
  <2>3. VerifyConnection # <<>> /\ \A i \in 1 .. Len(VerifyConnection) : VerifyConnection[i][1] \notin {"recheck", "send"}
    BY Scripts
  <2> QED
    BY <2>1, <2>2, <2>3
<1>8. CASE act = "configure"
  <2>1. ScriptOf(act) = Configure
    BY <1>8 DEF ScriptOf
  <2>2. Ordered(Configure, {})
    BY Scripts DEF Ordered, ScriptSteps, Needed, Fetches, Writes, Changes, RowNames
  <2>3. Configure # <<>> /\ \A i \in 1 .. Len(Configure) : Configure[i][1] \notin {"recheck", "send"}
    BY Scripts
  <2> QED
    BY <2>1, <2>2, <2>3
<1>9. CASE act = "resolve"
  <2>1. ScriptOf(act) = ResolveOperation
    BY <1>9 DEF ScriptOf
  <2>2. Ordered(ResolveOperation, {})
    BY Scripts DEF Ordered, ScriptSteps, Needed, Fetches, Writes, Changes, RowNames
  <2>3. ResolveOperation # <<>> /\ \A i \in 1 .. Len(ResolveOperation) : ResolveOperation[i][1] \notin {"recheck", "send"}
    BY Scripts
  <2> QED
    BY <2>1, <2>2, <2>3
<1>10. CASE act \in NoticeKinds
  <2>1. ScriptOf(act) = Notify(act)
    BY <1>10 DEF ScriptOf, NoticeKinds
  <2>2. \A i \in 1 .. Len(Notify(act)) : Notify(act)[i][1] \notin {"recheck", "send"}
    BY DEF Notify
  <2> QED
    BY <1>10, <2>1, <2>2, NoticeOrdered
<1> QED
  BY <1>1, <1>2, <1>3, <1>4, <1>5, <1>6, <1>7, <1>8, <1>9, <1>10 DEF Acts

Parts == {"ask", "todo", "copy", "stale", "wanted", "changed", "about", "job"}
Letter(j) ==
    /\ DOMAIN j = {"id", "kind", "to", "about", "tries", "wanted"}
    /\ j.kind \in NoticeKinds /\ j.about = "deed" /\ j.wanted /\ j.tries \in 0 .. Tries

\* A notice that is yet to be sent.
InHand(q) == Letter(q.job) /\ q.job.tries \in 1 .. Tries /\ DOMAIN q.copy = {}

\* Whether a row is there is nobody's to ask for, but for the regiment's.
Exempt(x, f) == f = "there" /\ x # "regiment"

\* What a copy would put back is what was meant, or is known to be older.
CopyStands(q, x, mt, ov) ==
    \A f \in DOMAIN q.copy[x] :
      Exempt(x, f) \/ q.copy[x][f] = mt[x][f] \/ <<x, f>> \in q.stale \/ <<x, f>> \in ov

\* A copy is of a row; the bot's, and the connection, are made before they are copied.
CopiesFit(q, rw) ==
    \A x \in DOMAIN q.copy : /\ x \in RowNames /\ DOMAIN q.copy[x] \subseteq DOMAIN Fresh[x]
                             /\ x \in {"bot", "link"} => rw[x].there

\* A request, on these rows: its steps are in order, its copies stand where they are
\* still to be saved, it has noted every switch it may act on.
Served(q, rw, mt, ov) ==
    /\ DOMAIN q = Parts
    /\ q.todo = <<>> => q = Vacant
    /\ Ordered(q.todo, DOMAIN q.copy)
    /\ q.about = "deed" /\ "there" \notin DOMAIN q.ask
    /\ CopiesFit(q, rw)
    /\ \A i \in 1 .. Len(q.todo) :
         /\ q.todo[i][1] \in Writes /\ q.todo[i][2] \in DOMAIN q.copy =>
              CopyStands(q, q.todo[i][2], mt, ov)
         /\ q.todo[i][1] \in {"recheck", "send"} => InHand(q)
    /\ q # Vacant => LiveTargets(rw["bot"]) \subseteq q.wanted
    /\ "bot" \in DOMAIN q.copy => LiveTargets(q.copy["bot"]) \subseteq q.wanted
    /\ q.todo # <<>> /\ Head(q.todo) = <<"send", "welcome">> =>
         \E p \in q.wanted : p[1] = "welcome"

RowShapes ==
    /\ DOMAIN rows = RowNames /\ DOMAIN meant = RowNames
    /\ \A x \in RowNames : DOMAIN rows[x] = DOMAIN Fresh[x] /\ DOMAIN meant[x] = DOMAIN Fresh[x]
    /\ \A x \in {"settings", "papers"} :
         ~rows[x].there => \A f \in DOMAIN Fresh[x] : Exempt(x, f) \/ meant[x][f] = Fresh[x][f]
DeskInv ==
    /\ agenda \in Agendas /\ acts \in 0 .. agenda.most
    /\ online \in BOOLEAN /\ unresolved \in Nat
    /\ RowShapes
    /\ \A j \in letters : Letter(j) /\ j.tries < Tries
    /\ \A x \in RowNames : \A f \in DOMAIN rows[x] :
         Exempt(x, f) \/ rows[x][f] = meant[x][f] \/ <<x, f>> \in overtaken
    /\ unresolved > 0 => rows["link"].there
ConsoleInv ==
    /\ DeskInv
    /\ DOMAIN bureaux = Bureaux \cup {Postman}
    /\ \A s \in Bureaux \cup {Postman} : Served(bureaux[s], rows, meant, overtaken)

LEMMA FreshIs ==
    /\ DOMAIN Fresh = RowNames
    /\ \A x \in RowNames : "there" \in DOMAIN Fresh[x]
    /\ DOMAIN Fresh["bot"] = BotColumns /\ ~Fresh["bot"].on
    /\ Fresh["regiment"].there /\ DOMAIN Fresh["link"] = {"there", "status"}
    /\ DOMAIN Fresh["settings"] = {"there", "limits", "look"}
    /\ DOMAIN Fresh["papers"] = {"there", "body"}
    /\ DOMAIN Fresh["regiment"] = {"there", "name", "server", "setup"}
  BY DEF Fresh, RowNames, BotColumns

LEMMA VacantIs ==
    /\ DOMAIN Vacant = Parts /\ Vacant.todo = <<>> /\ DOMAIN Vacant.copy = {}
    /\ Vacant.about = "deed" /\ DOMAIN Vacant.ask = {} /\ Vacant.wanted = {}
  BY DEF Vacant, Parts

LEMMA VacantServed == \A rw, mt, ov : Served(Vacant, rw, mt, ov)
<1> SUFFICES ASSUME NEW rw, NEW mt, NEW ov PROVE Served(Vacant, rw, mt, ov)
  OBVIOUS
<1>1. Len(Vacant.todo) = 0 /\ Ordered(Vacant.todo, DOMAIN Vacant.copy)
  BY VacantIs, NoneOrdered
<1> QED
  BY <1>1, VacantIs DEF Served, CopiesFit

\* A switch that is off lets nothing out.
LEMMA NothingLive ==
    ASSUME NEW saved, ~SwitchedOn(saved) PROVE LiveTargets(saved) = {}
  BY DEF LiveTargets, Target

\* A live kind goes where LiveTargets says.
LEMMA LiveIs ==
    ASSUME NEW saved, NEW k \in NoticeKinds, Target(k, saved) # "none"
    PROVE  <<k, Target(k, saved)>> \in LiveTargets(saved)
  BY DEF LiveTargets

LEMMA NothingFirst == ASSUME NEW t \in Seq(ScriptSteps) PROVE <<>> \o t = t
  OBVIOUS

\* The first step of p done: the rest of it is served.
LEMMA Goes ==
    ASSUME NEW p, NEW have, NEW rw, NEW mt, NEW ov, DOMAIN p = Parts,
           Ordered(p.todo, have), p.todo # <<>>, have \subseteq DOMAIN p.copy,
           Head(p.todo)[1] \in Fetches => Head(p.todo)[2] \in DOMAIN p.copy,
           p.about = "deed" \/ Len(p.todo) = 1, "there" \notin DOMAIN p.ask,
           CopiesFit(p, rw),
           \A i \in 2 .. Len(p.todo) :
             /\ p.todo[i][1] \in Writes /\ p.todo[i][2] \in DOMAIN p.copy =>
                  CopyStands(p, p.todo[i][2], mt, ov)
             /\ p.todo[i][1] \in {"recheck", "send"} => InHand(p),
           LiveTargets(rw["bot"]) \subseteq p.wanted,
           "bot" \in DOMAIN p.copy => LiveTargets(p.copy["bot"]) \subseteq p.wanted,
           Head(p.todo)[1] = "recheck" => \E w \in p.wanted : w[1] = "welcome"
    PROVE  Served(Then(p, <<>>), rw, mt, ov)
<1> DEFINE t == p.todo
           n == [p EXCEPT !.todo = Tail(t)]
<1>1. t \in Seq(ScriptSteps)
  BY DEF Ordered
<1>2. /\ Tail(t) \in Seq(ScriptSteps) /\ Head(t) = t[1] /\ Len(t) \in Nat \ {0}
      /\ Len(Tail(t)) = Len(t) - 1
      /\ \A i \in 1 .. Len(t) - 1 : Tail(t)[i] = t[i + 1]
  BY <1>1, TailIs
<1>3. <<>> \o Tail(t) = Tail(t)
  BY <1>2, NothingFirst
<1>4. CASE Tail(t) = <<>>
  BY <1>3, <1>4, VacantServed DEF Then
<1>5. CASE Tail(t) # <<>>
  <2>1. Then(p, <<>>) = n
    BY <1>3, <1>5 DEF Then
  <2>2. /\ DOMAIN n = Parts /\ n.todo = Tail(t) /\ n.copy = p.copy /\ n.stale = p.stale
        /\ n.wanted = p.wanted /\ n.about = p.about /\ n.job = p.job /\ n.ask = p.ask
    BY DEF Parts
  <2>3. Len(t) > 1
    BY <1>2, <1>5
  <2>4. Ordered(Tail(t), DOMAIN p.copy)
    BY Advanced
  <2>5. \A i \in 1 .. Len(n.todo) :
             /\ n.todo[i][1] \in Writes /\ n.todo[i][2] \in DOMAIN n.copy =>
                  CopyStands(n, n.todo[i][2], mt, ov)
             /\ n.todo[i][1] \in {"recheck", "send"} => InHand(n)
    <3> HIDE DEF n
    <3> SUFFICES ASSUME NEW i \in 1 .. Len(n.todo)
                 PROVE  /\ n.todo[i][1] \in Writes /\ n.todo[i][2] \in DOMAIN n.copy =>
                             CopyStands(n, n.todo[i][2], mt, ov)
                        /\ n.todo[i][1] \in {"recheck", "send"} => InHand(n)
      OBVIOUS
    <3>1. i + 1 \in 2 .. Len(t) /\ n.todo[i] = t[i + 1]
      BY <1>2, <2>2
    <3> QED
      BY <2>2, <3>1 DEF CopyStands, InHand
  <2>6. Head(Tail(t)) = <<"send", "welcome">> => \E w \in n.wanted : w[1] = "welcome"
    <3> SUFFICES ASSUME Head(Tail(t)) = <<"send", "welcome">> PROVE t[1][1] = "recheck"
      BY <1>2, <2>2
    <3>1. Head(Tail(t)) = t[2]
      BY <1>2, <2>3
    <3>2. 2 \in 1 .. Len(t)
      BY <1>2, <2>3
    <3> QED
      BY <1>2, <3>1, <3>2 DEF Ordered
  <2>7. p.about = "deed"
    BY <1>2, <2>3
  <2> HIDE DEF n, t
  <2>8. n.about = "deed" /\ "there" \notin DOMAIN n.ask /\ n.todo # <<>>
    BY <1>5, <2>2, <2>7
  <2>9. /\ CopiesFit(n, rw)
        /\ LiveTargets(rw["bot"]) \subseteq n.wanted
        /\ "bot" \in DOMAIN n.copy => LiveTargets(n.copy["bot"]) \subseteq n.wanted
        /\ Ordered(n.todo, DOMAIN n.copy)
        /\ n.todo # <<>> /\ Head(n.todo) = <<"send", "welcome">> =>
             \E w \in n.wanted : w[1] = "welcome"
    BY <2>2, <2>4, <2>6 DEF CopiesFit
  <2>10. Served(n, rw, mt, ov)
    BY <2>2, <2>5, <2>8, <2>9 DEF Served
  <2> QED
    BY <2>1, <2>10
<1> QED
  BY <1>4, <1>5

\* A request with its first step done and nothing else.
LEMMA GoesOn ==
    ASSUME NEW q, NEW rw, NEW mt, NEW ov, Served(q, rw, mt, ov), q.todo # <<>>,
           Head(q.todo)[1] \notin Fetches \cup {"recheck"}
    PROVE  Served(Then(q, <<>>), rw, mt, ov)
<1>1. q # Vacant
  BY VacantIs
<1>2. q.todo \in Seq(ScriptSteps) /\ \A i \in 2 .. Len(q.todo) : i \in 1 .. Len(q.todo)
  BY DEF Served, Ordered
<1> QED
  BY <1>1, <1>2, Goes DEF Served

\* Nothing is sent by a script that begins with a fetch.
LEMMA NothingToSend ==
    ASSUME NEW t, NEW have, Ordered(t, have), t # <<>>, Head(t)[1] \notin {"recheck", "send"}
    PROVE  \A i \in 1 .. Len(t) : t[i][1] \notin {"recheck", "send"}
<1>1. t \in Seq(ScriptSteps) /\ Head(t) = t[1]
  BY TailIs DEF Ordered
<1> QED
  BY <1>1 DEF Ordered

\* A request that has taken a copy of the row it asked for.
LEMMA TakenServed ==
    ASSUME NEW q, NEW rw, NEW mt, NEW ov, Served(q, rw, mt, ov), q.todo # <<>>,
           NEW x \in RowNames, Head(q.todo)[2] = x, Head(q.todo)[1] \in Fetches,
           x \in {"bot", "link"} => rw[x].there,
           NEW entity, DOMAIN entity \subseteq DOMAIN Fresh[x],
           \A f \in DOMAIN entity : Exempt(x, f) \/ entity[f] = mt[x][f] \/ <<x, f>> \in ov,
           x = "bot" => LiveTargets(entity) \subseteq q.wanted
    PROVE  Served(Then(Taken(q, x, entity), <<>>), rw, mt, ov)
<1> DEFINE p == Taken(q, x, entity)
<1>1. /\ DOMAIN p = Parts /\ p.todo = q.todo /\ p.wanted = q.wanted /\ p.about = q.about
      /\ p.ask = q.ask /\ p.job = q.job
      /\ p.copy = [y \in DOMAIN q.copy \cup {x} |-> IF y = x THEN entity ELSE q.copy[y]]
      /\ p.stale = {w \in q.stale : w[1] # x}
  BY DEF Served, Taken, Parts
<1>2. /\ q.todo \in Seq(ScriptSteps) /\ q # Vacant
      /\ \A i \in 1 .. Len(q.todo) : q.todo[i][1] \notin {"recheck", "send"}
  BY NothingToSend, VacantIs DEF Served, Ordered, Fetches
<1>3. DOMAIN p.copy = DOMAIN q.copy \cup {x} /\ p.copy[x] = entity
      /\ \A y \in DOMAIN q.copy \ {x} : p.copy[y] = q.copy[y]
  BY <1>1
<1> HIDE DEF p
<1>4. CopiesFit(p, rw)
  BY <1>3 DEF Served, CopiesFit
<1>5. "bot" \in DOMAIN p.copy => LiveTargets(p.copy["bot"]) \subseteq p.wanted
  BY <1>1, <1>3 DEF Served
<1>6. ASSUME NEW i \in 2 .. Len(p.todo), p.todo[i][1] \in Writes, p.todo[i][2] \in DOMAIN p.copy
      PROVE CopyStands(p, p.todo[i][2], mt, ov)
  <2> DEFINE y == p.todo[i][2]
  <2>1. CASE y = x
    BY <1>3, <2>1 DEF CopyStands
  <2>2. CASE y # x
    <3>1. CopyStands(q, y, mt, ov) /\ y \in DOMAIN q.copy
      BY <1>1, <1>2, <1>3, <1>6, <2>2 DEF Served
    <3>2. \A f : <<y, f>> \in q.stale => <<y, f>> \in p.stale
      BY <1>1, <2>2
    <3> QED
      BY <1>3, <2>2, <3>1, <3>2 DEF CopyStands
  <2> QED
    BY <2>1, <2>2
<1>7. \A i \in 2 .. Len(p.todo) : p.todo[i][1] \notin {"recheck", "send"}
  BY <1>1, <1>2
<1>8. /\ Ordered(p.todo, DOMAIN q.copy) /\ p.todo # <<>> /\ p.about = "deed"
      /\ "there" \notin DOMAIN p.ask /\ LiveTargets(rw["bot"]) \subseteq p.wanted
      /\ Head(p.todo)[2] \in DOMAIN p.copy /\ Head(p.todo)[1] # "recheck"
      /\ DOMAIN q.copy \subseteq DOMAIN p.copy
  BY <1>1, <1>2, <1>3 DEF Served, Fetches
<1>9. Served(Then(p, <<>>), rw, mt, ov)
  BY <1>1, <1>4, <1>5, <1>6, <1>7, <1>8, Goes
<1> QED
  BY <1>9 DEF p

\* A request that has yet to create the row it asked for.
LEMMA CreatingServed ==
    ASSUME NEW q, NEW rw, NEW mt, NEW ov, Served(q, rw, mt, ov), q.todo # <<>>,
           NEW x \in {"bot", "link"}, Head(q.todo) = <<"ensure", x>>
    PROVE  Served(Then(q, <<<<"create", x>>>>), rw, mt, ov)
<1> DEFINE t == q.todo
           u == <<<<"create", x>>>> \o Tail(t)
           n == [q EXCEPT !.todo = u]
<1>1. /\ Ordered(u, DOMAIN q.copy) /\ Len(u) = Len(t) /\ Len(t) \in Nat \ {0}
      /\ u[1] = <<"create", x>> /\ \A i \in 2 .. Len(t) : u[i] = t[i]
  BY StepReplaced DEF Served
<1>2. /\ u # <<>> /\ q # Vacant /\ Head(u) = u[1]
      /\ \A i \in 1 .. Len(t) : t[i][1] \notin {"recheck", "send"}
  BY <1>1, NothingToSend, TailIs, VacantIs DEF Served, Ordered
<1>3. Then(q, <<<<"create", x>>>>) = n
  BY <1>2 DEF Then
<1> HIDE DEF u
<1>4. /\ DOMAIN n = Parts /\ n.todo = u /\ n.copy = q.copy /\ n.stale = q.stale
      /\ n.wanted = q.wanted /\ n.about = q.about /\ n.job = q.job /\ n.ask = q.ask
  BY DEF Parts, Served
<1> HIDE DEF n
<1>5. ASSUME NEW i \in 1 .. Len(u)
      PROVE  /\ u[i][1] \in Writes /\ u[i][2] \in DOMAIN n.copy => CopyStands(n, u[i][2], mt, ov)
             /\ u[i][1] \notin {"recheck", "send"}
  <2>1. CASE i = 1
    BY <1>1, <2>1 DEF Writes
  <2>2. CASE i # 1
    <3>1. i \in 1 .. Len(t) /\ u[i] = t[i]
      BY <1>1, <2>2
    <3>2. t[i][1] \in Writes /\ t[i][2] \in DOMAIN q.copy => CopyStands(q, t[i][2], mt, ov)
      BY <3>1 DEF Served
    <3> QED
      BY <1>2, <1>4, <3>1, <3>2 DEF CopyStands
  <2> QED
    BY <2>1, <2>2
<1>6. Served(n, rw, mt, ov)
  BY <1>1, <1>2, <1>4, <1>5 DEF Served, CopiesFit
<1> QED
  BY <1>3, <1>6

\* A request that goes on with a new script: the copies it has stand for what that
\* writes, and there are none of those.
LEMMA Rescripted ==
    ASSUME NEW q, NEW rw, NEW mt, NEW ov, Served(q, rw, mt, ov), q # Vacant,
           NEW n, NEW u, Ordered(u, {}), u # <<>>, DOMAIN n = Parts, n.todo = u,
           n.copy = q.copy, n.wanted = q.wanted, n.about = "deed", n.ask = q.ask,
           \A i \in 1 .. Len(u) : u[i][1] \notin {"recheck", "send"},
           \/ \A i \in 1 .. Len(u) : u[i][1] \notin Writes
           \/ DOMAIN q.copy = {}
    PROVE  Served(n, rw, mt, ov)
<1>1. Ordered(u, DOMAIN n.copy)
  BY DEF Ordered
<1>2. Head(u) # <<"send", "welcome">>
  <2>1. u \in Seq(ScriptSteps) /\ Head(u) = u[1] /\ 1 \in 1 .. Len(u)
    BY TailIs DEF Ordered
  <2> QED
    BY <2>1
<1> QED
  BY <1>1, <1>2 DEF Served, CopiesFit

LEMMA LedgerOrdered ==
    ASSUME NEW o \in {"done", "failed"}
    PROVE  /\ Ordered(RecordOperation(o), {}) /\ RecordOperation(o) # <<>>
           /\ \A i \in 1 .. Len(RecordOperation(o)) :
                RecordOperation(o)[i][1] \notin {"recheck", "send"}
  BY DEF RecordOperation, Ordered, ScriptSteps, Needed, Fetches, Writes, Changes, RowNames
LEMMA FailureOrdered ==
    LET u == RecordOperation("failed") \o <<<<"record", "failure">>>>
    IN  /\ Ordered(u, {}) /\ u # <<>>
        /\ \A i \in 1 .. Len(u) : u[i][1] \notin {"recheck", "send"}
<1> DEFINE v == <<<<"ensure", "link">>, <<"ledger", "failed">>, <<"save", "link">>, <<"record", "failure">>>>
<1>1. /\ <<"ensure", "link">> \in ScriptSteps /\ <<"ledger", "failed">> \in ScriptSteps
      /\ <<"save", "link">> \in ScriptSteps /\ <<"record", "failure">> \in ScriptSteps
  BY DEF ScriptSteps, RowNames
<1>2. RecordOperation("failed") \o <<<<"record", "failure">>>> = v
  BY <1>1, OneMoreThanThree DEF RecordOperation
<1>3. /\ Ordered(v, {}) /\ v # <<>>
      /\ \A i \in 1 .. Len(v) : v[i][1] \notin {"recheck", "send"}
  BY DEF Ordered, ScriptSteps, Needed, Fetches, Writes, Changes, RowNames
<1> QED
  BY <1>2, <1>3

\* One request has moved, the rows have not.
LEMMA OneServed ==
    ASSUME ConsoleInv, NEW s \in Bureaux \cup {Postman}, NEW q,
           Served(q, rows, meant, overtaken),
           Continue(s, q), UNCHANGED <<rows, meant, overtaken>>
    PROVE  /\ DOMAIN bureaux' = Bureaux \cup {Postman}
           /\ \A r \in Bureaux \cup {Postman} : Served(bureaux'[r], rows', meant', overtaken')
<1>1. DOMAIN bureaux = Bureaux \cup {Postman}
  BY DEF ConsoleInv
<1>2. /\ DOMAIN bureaux' = Bureaux \cup {Postman} /\ bureaux'[s] = q
      /\ \A r \in Bureaux \cup {Postman} : r # s => bureaux'[r] = bureaux[r]
  BY <1>1 DEF Continue
<1>3. rows' = rows /\ meant' = meant /\ overtaken' = overtaken
  OBVIOUS
<1>4. ASSUME NEW r \in Bureaux \cup {Postman}
      PROVE  Served(bureaux'[r], rows, meant, overtaken)
  <2>1. CASE r = s
    BY <1>2, <2>1
  <2>2. CASE r # s
    BY <1>2, <2>2 DEF ConsoleInv
  <2> QED
    BY <2>1, <2>2
<1> QED
  BY <1>2, <1>3, <1>4

LEMMA DeskStands == ASSUME DeskInv, UNCHANGED desk PROVE DeskInv'
  BY DEF DeskInv, RowShapes, desk, Letter, Exempt

Everyone == Bureaux \cup {Postman}

\* The request at hand, where a step is due.
LEMMA StepDue ==
    ASSUME ConsoleInv, NEW s \in Everyone, NEW v, NowDue(s, v)
    PROVE  LET q == bureaux[s]
           IN  /\ Served(q, rows, meant, overtaken) /\ q.todo # <<>> /\ q # Vacant
               /\ q.todo \in Seq(ScriptSteps) /\ Head(q.todo) = q.todo[1] /\ Head(q.todo) \in ScriptSteps
               /\ Head(q.todo)[1] = v /\ Of(s) = Head(q.todo)[2] /\ Len(q.todo) \in Nat \ {0}
               /\ v \in {"record", "send"} => Len(q.todo) = 1
<1> DEFINE q == bureaux[s]
<1>1. Served(q, rows, meant, overtaken) /\ q.todo # <<>> /\ Head(q.todo)[1] = v
  BY DEF ConsoleInv, NowDue, Everyone
<1>2. Ordered(q.todo, DOMAIN q.copy) /\ q # Vacant
  BY <1>1, VacantIs DEF Served
<1>3. /\ q.todo \in Seq(ScriptSteps) /\ Head(q.todo) = q.todo[1] /\ Head(q.todo) \in ScriptSteps
      /\ Len(q.todo) \in Nat \ {0}
  BY <1>1, <1>2, TailIs DEF Ordered
<1>4. v \in {"record", "send"} => Len(q.todo) = 1
  <2>1. 1 \in 1 .. Len(q.todo) /\ q.todo[1][1] = v
    BY <1>1, <1>3
  <2> QED
    BY <1>2, <2>1 DEF Ordered
<1> QED
  BY <1>1, <1>2, <1>3, <1>4 DEF Of

LEMMA StepIs ==
    ASSUME NEW m \in ScriptSteps
    PROVE  /\ m[1] = "load" => m[2] \in {"regiment", "settings", "papers"}
           /\ m[1] = "find" => m[2] = "regiment"
           /\ m[1] \in {"ensure", "create"} => m[2] \in {"bot", "link"} /\ m = <<m[1], m[2]>>
           /\ m[1] \in Writes => m[2] \in RowNames
           /\ m[1] = "record" => m[2] \in {"deed", "failure"}
           /\ m[1] = "ledger" => m[2] \in {"done", "failed"}
           /\ m[1] \in {"queue", "recheck", "send"} => m[2] \in NoticeKinds
  BY DEF ScriptSteps, Writes

LEMMA RequestBegun ==
    ASSUME ConsoleInv, NEW s \in Bureaux, NEW a \in agenda.acts, BeginAct(s, a) PROVE ConsoleInv'
<1> DEFINE q == [Vacant EXCEPT !.ask = a.ask, !.todo = ScriptOf(a.act),
                               !.wanted = LiveTargets(rows.bot)]
<1>1. /\ Continue(s, q) /\ acts < agenda.most /\ acts' = acts + 1
      /\ UNCHANGED <<agenda, rows, online, letters, numbered, unresolved, meant, overtaken>>
  BY DEF BeginAct
<1>2. /\ a.act \in Acts \cup NoticeKinds /\ "there" \notin DOMAIN a.ask /\ agenda.most \in Nat
      /\ agenda \in Agendas
  BY ConsoleAssumption DEF ConsoleInv, DeskInv
<1>3. /\ Ordered(ScriptOf(a.act), {}) /\ ScriptOf(a.act) # <<>>
      /\ \A i \in 1 .. Len(ScriptOf(a.act)) : ScriptOf(a.act)[i][1] \notin {"recheck", "send"}
  BY <1>2, ScriptOrdered
<1>4. /\ DOMAIN q = Parts /\ q.todo = ScriptOf(a.act) /\ q.copy = Vacant.copy
      /\ q.about = "deed" /\ q.ask = a.ask /\ q.wanted = LiveTargets(rows.bot)
  BY DEF Vacant, Parts
<1> HIDE DEF q
<1>5. Ordered(q.todo, DOMAIN q.copy) /\ DOMAIN q.copy = {}
  BY <1>3, <1>4, VacantIs
<1>6. \A i \in 1 .. Len(q.todo) : q.todo[i][1] \notin {"recheck", "send"}
  BY <1>3, <1>4
<1>7. Head(q.todo) # <<"send", "welcome">>
  BY <1>3, <1>4, <1>6, TailIs DEF Ordered
<1>8. Served(q, rows, meant, overtaken)
  BY <1>2, <1>3, <1>4, <1>5, <1>6, <1>7 DEF Served, CopiesFit
<1>9. DeskInv'
  BY <1>1, <1>2 DEF ConsoleInv, DeskInv, RowShapes, Letter, Exempt
<1> QED
  BY <1>1, <1>8, <1>9, OneServed DEF ConsoleInv

LEMMA RowLoaded == ASSUME ConsoleInv, NEW s \in Everyone, LoadRow(s) PROVE ConsoleInv'
<1> DEFINE q == bureaux[s]
           x == Of(s)
<1>1. CASE x = "regiment" /\ ~rows.regiment.there
  <2>1. Continue(s, Vacant) /\ UNCHANGED desk
    BY <1>1 DEF LoadRow
  <2> QED
    BY <2>1, VacantServed, OneServed, DeskStands DEF ConsoleInv, Everyone, desk
<1>2. CASE NowDue(s, "find") /\ ~(x = "regiment" /\ ~rows.regiment.there)
  <2>1. Continue(s, Then(q, <<>>)) /\ UNCHANGED desk
    BY <1>2 DEF LoadRow
  <2>2. Served(Then(q, <<>>), rows, meant, overtaken)
    BY <1>2, StepDue, GoesOn DEF Fetches
  <2> QED
    BY <2>1, <2>2, OneServed, DeskStands DEF ConsoleInv, Everyone, desk
<1>3. CASE NowDue(s, "load") /\ ~(x = "regiment" /\ ~rows.regiment.there)
  <2>1. ~NowDue(s, "find")
    BY <1>3 DEF NowDue
  <2>2. Continue(s, Then(Taken(q, x, Loaded(x)), <<>>)) /\ UNCHANGED desk
    BY <1>3, <2>1 DEF LoadRow
  <2>3. /\ Served(q, rows, meant, overtaken) /\ q.todo # <<>> /\ Head(q.todo)[1] = "load"
        /\ Head(q.todo)[2] = x /\ Head(q.todo) \in ScriptSteps
    BY <1>3, StepDue
  <2>4. x \in {"regiment", "settings", "papers"}
    BY <2>3, StepIs
  <2>5. \A f \in DOMAIN Loaded(x) :
          Exempt(x, f) \/ Loaded(x)[f] = meant[x][f] \/ <<x, f>> \in overtaken
    <3>1. CASE rows[x].there
      BY <2>4, <3>1 DEF Loaded, ConsoleInv, DeskInv, RowNames
    <3>2. CASE ~rows[x].there
      BY <1>3, <2>4, <3>2 DEF Loaded, ConsoleInv, DeskInv, RowShapes
    <3> QED
      BY <3>1, <3>2
  <2>6. DOMAIN Loaded(x) \subseteq DOMAIN Fresh[x]
    BY <2>4 DEF Loaded, ConsoleInv, DeskInv, RowShapes, RowNames
  <2>7. Served(Then(Taken(q, x, Loaded(x)), <<>>), rows, meant, overtaken)
    BY <2>3, <2>4, <2>5, <2>6, TakenServed DEF RowNames, Fetches
  <2> QED
    BY <2>2, <2>7, OneServed, DeskStands DEF ConsoleInv, Everyone, desk
<1> QED
  BY <1>1, <1>2, <1>3 DEF LoadRow

LEMMA RowEnsured == ASSUME ConsoleInv, NEW s \in Everyone, EnsureRow(s) PROVE ConsoleInv'
<1> DEFINE q == bureaux[s]
           x == Of(s)
<1>1. /\ Served(q, rows, meant, overtaken) /\ q.todo # <<>> /\ q # Vacant
      /\ Head(q.todo)[1] = "ensure" /\ Head(q.todo)[2] = x /\ Head(q.todo) \in ScriptSteps
  BY StepDue DEF EnsureRow
<1>2. x \in {"bot", "link"} /\ Head(q.todo) = <<"ensure", x>> /\ x \in RowNames
  BY <1>1, StepIs DEF RowNames
<1>3. CASE rows[x].there
  <2>1. Continue(s, Then(Taken(q, x, rows[x]), <<>>)) /\ UNCHANGED desk
    BY <1>3 DEF EnsureRow
  <2>2. Served(Then(Taken(q, x, rows[x]), <<>>), rows, meant, overtaken)
    <3>1. \A f \in DOMAIN rows[x] :
            Exempt(x, f) \/ rows[x][f] = meant[x][f] \/ <<x, f>> \in overtaken
      BY <1>2 DEF ConsoleInv, DeskInv
    <3>2. x = "bot" => LiveTargets(rows[x]) \subseteq q.wanted
      BY <1>1 DEF Served
    <3>3. DOMAIN rows[x] \subseteq DOMAIN Fresh[x]
      BY <1>2 DEF ConsoleInv, DeskInv, RowShapes
    <3> QED
      BY <1>1, <1>2, <1>3, <3>1, <3>2, <3>3, TakenServed DEF Fetches
  <2> QED
    BY <2>1, <2>2, OneServed, DeskStands DEF ConsoleInv, Everyone, desk
<1>4. CASE ~rows[x].there
  <2>1. Continue(s, Then(q, <<<<"create", x>>>>)) /\ UNCHANGED desk
    BY <1>4 DEF EnsureRow
  <2>2. Served(Then(q, <<<<"create", x>>>>), rows, meant, overtaken)
    BY <1>1, <1>2, CreatingServed
  <2> QED
    BY <2>1, <2>2, OneServed, DeskStands DEF ConsoleInv, Everyone, desk
<1> QED
  BY <1>3, <1>4

LEMMA StatusAsked == ASSUME ConsoleInv, NEW s \in Everyone, AskStatus(s) PROVE ConsoleInv'
<1> DEFINE q == bureaux[s]
           a == [status |-> IF online THEN "connected" ELSE "error"]
           p == [q EXCEPT !.ask = a]
<1>1. /\ Served(q, rows, meant, overtaken) /\ q.todo # <<>> /\ q # Vacant
      /\ Head(q.todo)[1] = "ask" /\ q.todo \in Seq(ScriptSteps) /\ Len(q.todo) \in Nat
  BY StepDue DEF AskStatus
<1>2. Continue(s, Then(p, <<>>)) /\ UNCHANGED desk
  BY DEF AskStatus
<1>3. "there" \notin DOMAIN a
  OBVIOUS
<1> HIDE DEF a
<1>4. Served(p, rows, meant, overtaken)
  <2>1. /\ DOMAIN p = Parts /\ p.todo = q.todo /\ p.copy = q.copy /\ p.stale = q.stale
        /\ p.wanted = q.wanted /\ p.about = q.about /\ p.job = q.job /\ p.ask = a
    BY <1>1 DEF Served, Parts
  <2> HIDE DEF p
  <2> QED
    BY <1>1, <1>3, <2>1 DEF Served, CopyStands, CopiesFit, InHand
<1>5. p.todo = q.todo
  BY <1>1 DEF Served, Parts
<1> HIDE DEF p
<1>6. Served(Then(p, <<>>), rows, meant, overtaken)
  BY <1>1, <1>4, <1>5, GoesOn DEF Fetches
<1> QED
  BY <1>2, <1>6, OneServed, DeskStands DEF ConsoleInv, Everyone, desk

LEMMA EmptyIs == ASSUME NEW u \in Seq(ScriptSteps), Len(u) = 0 PROVE u = <<>>
  OBVIOUS

LEMMA RowTicked == ASSUME ConsoleInv, NEW s \in Everyone, TickOff(s) PROVE ConsoleInv'
<1> DEFINE q == bureaux[s]
           p == [q EXCEPT !.changed = TRUE]
<1>1. /\ Served(q, rows, meant, overtaken) /\ q.todo # <<>> /\ q # Vacant
      /\ Head(q.todo)[1] = "resolve"
  BY StepDue DEF TickOff
<1>2. UNCHANGED <<agenda, rows, online, letters, numbered, acts, meant, overtaken>>
  BY DEF TickOff
<1>3. Served(p, rows, meant, overtaken) /\ p.todo = q.todo
  <2>1. /\ DOMAIN p = Parts /\ p.todo = q.todo /\ p.copy = q.copy /\ p.stale = q.stale
        /\ p.wanted = q.wanted /\ p.about = q.about /\ p.job = q.job /\ p.ask = q.ask
    BY <1>1 DEF Served, Parts
  <2> HIDE DEF p
  <2> QED
    BY <1>1, <2>1 DEF Served, CopyStands, CopiesFit, InHand
<1> HIDE DEF p
<1>4. Served(Then(p, <<>>), rows, meant, overtaken)
  BY <1>1, <1>3, GoesOn DEF Fetches
<1>5. CASE rows.link.there /\ unresolved > 0 /\ unresolved' = unresolved - 1
           /\ Continue(s, Then(p, <<>>))
  <2>1. unresolved' \in Nat
    BY <1>5 DEF ConsoleInv, DeskInv
  <2>2. DeskInv'
    BY <1>2, <1>5, <2>1 DEF ConsoleInv, DeskInv, RowShapes, Letter, Exempt
  <2> QED
    BY <1>2, <1>4, <1>5, <2>2, OneServed DEF ConsoleInv, Everyone
<1>6. CASE Continue(s, Vacant) /\ UNCHANGED unresolved
  <2>1. DeskInv'
    BY <1>2, <1>6 DEF ConsoleInv, DeskInv, RowShapes, Letter, Exempt
  <2> QED
    BY <1>2, <1>6, <2>1, VacantServed, OneServed DEF ConsoleInv, Everyone
<1> QED
  BY <1>5, <1>6 DEF TickOff, p

\* An entry of the audit trail: a notice is asked for, unless it is of a failure.
LEMMA EntryRecorded == ASSUME ConsoleInv, NEW s \in Everyone, RecordEntry(s) PROVE ConsoleInv'
<1> DEFINE q == bureaux[s]
           about == Of(s)
           p == [q EXCEPT !.about = about]
<1>1. /\ Served(q, rows, meant, overtaken) /\ q.todo # <<>> /\ q # Vacant
      /\ q.todo \in Seq(ScriptSteps) /\ Len(q.todo) = 1 /\ Head(q.todo) \in ScriptSteps
      /\ Head(q.todo)[1] = "record" /\ about = Head(q.todo)[2]
  BY StepDue DEF RecordEntry
<1>2. about \in {"deed", "failure"} /\ Tail(q.todo) = <<>>
  <2>1. Tail(q.todo) \in Seq(ScriptSteps) /\ Len(Tail(q.todo)) = 0
    BY <1>1, TailIs
  <2>2. Tail(q.todo) = <<>>
    BY <2>1, EmptyIs
  <2> QED
    BY <1>1, <2>2, StepIs
<1>3. /\ DOMAIN p = Parts /\ p.todo = q.todo /\ p.copy = q.copy /\ p.stale = q.stale
      /\ p.wanted = q.wanted /\ p.about = about /\ p.job = q.job /\ p.ask = q.ask
  BY <1>1 DEF Served, Parts
<1>4. UNCHANGED desk
  BY DEF RecordEntry
<1>5. CASE Mirrored(about) /\ (p.changed \/ about = "failure")
  <2> DEFINE n == [p EXCEPT !.todo = Notify("audit")]
  <2>1. about = "deed"
    BY <1>2, <1>5 DEF Mirrored
  <2>2. /\ Ordered(Notify("audit"), {}) /\ Notify("audit") # <<>>
        /\ Notify("audit") \o <<>> = Notify("audit")
        /\ \A i \in 1 .. Len(Notify("audit")) :
             Notify("audit")[i][1] \notin {"recheck", "send"} \cup Writes
    BY NoticeOrdered DEF Notify, NoticeKinds, Writes
  <2>3. Then(p, Notify("audit")) = n
    BY <1>2, <1>3, <2>2 DEF Then
  <2>4. /\ DOMAIN n = Parts /\ n.todo = Notify("audit") /\ n.copy = q.copy
        /\ n.wanted = q.wanted /\ n.about = "deed" /\ n.ask = q.ask
    BY <1>3, <2>1 DEF Parts
  <2> HIDE DEF n, p
  <2>5. Served(n, rows, meant, overtaken)
    BY <1>1, <2>2, <2>4, Rescripted
  <2>6. Continue(s, n)
    BY <1>5, <2>3 DEF RecordEntry, p
  <2> QED
    BY <1>4, <2>5, <2>6, OneServed, DeskStands DEF ConsoleInv, Everyone, desk
<1>6. CASE ~(Mirrored(about) /\ (p.changed \/ about = "failure"))
  <2>1. Then(p, <<>>) = Vacant
    BY <1>2, <1>3 DEF Then
  <2>2. Continue(s, Vacant)
    BY <1>6, <2>1 DEF RecordEntry
  <2> QED
    BY <1>4, <2>2, VacantServed, OneServed, DeskStands DEF ConsoleInv, Everyone, desk
<1> QED
  BY <1>5, <1>6

LEMMA NoticeQueued == ASSUME ConsoleInv, NEW s \in Everyone, QueueNotice(s) PROVE ConsoleInv'
<1> DEFINE q == bureaux[s]
           kind == Of(s)
           to == Target(kind, q.copy.bot)
           j == [id |-> numbered', kind |-> kind, to |-> to, about |-> q.about, tries |-> 0,
                 wanted |-> <<kind, to>> \in q.wanted]
<1>1. /\ Served(q, rows, meant, overtaken) /\ q.todo # <<>> /\ q # Vacant
      /\ q.todo \in Seq(ScriptSteps) /\ Head(q.todo) = q.todo[1] /\ Head(q.todo) \in ScriptSteps
      /\ Head(q.todo)[1] = "queue" /\ Head(q.todo)[2] = kind /\ Len(q.todo) \in Nat \ {0}
  BY StepDue DEF QueueNotice
<1>2. kind \in NoticeKinds
  BY <1>1, StepIs
<1>3. Served(Then(q, <<>>), rows, meant, overtaken)
  BY <1>1, GoesOn DEF Fetches
<1>4. /\ Continue(s, Then(q, <<>>))
      /\ UNCHANGED <<agenda, rows, online, unresolved, acts, meant, overtaken>>
      /\ to = "none" => letters' = letters
      /\ to # "none" => letters' = letters \cup {j}
  BY DEF QueueNotice
<1>5. "bot" \in DOMAIN q.copy
  <2>1. 1 \in 1 .. Len(q.todo) /\ Needed(q.todo[1]) = "bot"
    BY <1>1 DEF Needed
  <2>2. Ordered(q.todo, DOMAIN q.copy)
    BY <1>1 DEF Served
  <2> QED
    BY <2>1, <2>2 DEF Ordered
<1>6. to # "none" => Letter(j) /\ j.tries < Tries
  <2> SUFFICES ASSUME to # "none" PROVE Letter(j) /\ j.tries < Tries
    OBVIOUS
  <2>1. <<kind, to>> \in LiveTargets(q.copy.bot)
    BY <1>2, LiveIs
  <2>2. <<kind, to>> \in q.wanted /\ q.about = "deed"
    BY <1>1, <1>5, <2>1 DEF Served
  <2>3. /\ DOMAIN j = {"id", "kind", "to", "about", "tries", "wanted"}
        /\ j.kind = kind /\ j.about = q.about /\ j.tries = 0
        /\ j.wanted = (<<kind, to>> \in q.wanted)
    OBVIOUS
  <2>4. 0 \in 0 .. Tries /\ 0 < Tries
    BY ConsoleAssumption
  <2> HIDE DEF kind, to, q, j
  <2> QED
    BY <1>2, <2>2, <2>3, <2>4 DEF Letter
<1> HIDE DEF j, to
<1>7. DeskInv'
  <2>1. \A l \in letters' : Letter(l) /\ l.tries < Tries
    BY <1>4, <1>6 DEF ConsoleInv, DeskInv
  <2> QED
    BY <1>4, <2>1 DEF ConsoleInv, DeskInv, RowShapes, Exempt
<1> QED
  BY <1>3, <1>4, <1>7, OneServed DEF ConsoleInv, Everyone

LEMMA LetterClaimed == ASSUME ConsoleInv, NEW j \in letters, ClaimLetter(j) PROVE ConsoleInv'
<1> DEFINE t == (IF j.kind = "welcome" THEN <<<<"recheck", j.kind>>>> ELSE <<>>)
                 \o <<<<"send", j.kind>>>>
           i == [j EXCEPT !.tries = @ + 1]
           q == [Vacant EXCEPT !.job = i, !.wanted = LiveTargets(rows.bot), !.todo = t]
<1>1. /\ Continue(Postman, q) /\ letters' = letters \ {j}
      /\ UNCHANGED <<agenda, rows, online, numbered, unresolved, acts, meant, overtaken>>
  BY DEF ClaimLetter
<1>2. Letter(j) /\ j.tries < Tries /\ Tries \in Nat
  BY ConsoleAssumption DEF ConsoleInv, DeskInv
<1>3. Letter(i) /\ i.tries \in 1 .. Tries
  BY <1>2 DEF Letter
<1>4. /\ <<"recheck", j.kind>> \in ScriptSteps /\ <<"send", j.kind>> \in ScriptSteps
  BY <1>2 DEF Letter, ScriptSteps
<1>5. Ordered(t, {}) /\ t # <<>> /\ Head(t) # <<"send", "welcome">>
  <2>1. CASE j.kind = "welcome"
    <3>1. t = <<<<"recheck", "welcome">>, <<"send", "welcome">>>>
      BY <1>4, <2>1, OneMoreThanOne
    <3>2. Ordered(<<<<"recheck", "welcome">>, <<"send", "welcome">>>>, {})
      BY DEF Ordered, ScriptSteps, Needed, Fetches, Writes, Changes, NoticeKinds
    <3>3. /\ <<<<"recheck", "welcome">>, <<"send", "welcome">>>> # <<>>
          /\ Head(<<<<"recheck", "welcome">>, <<"send", "welcome">>>>) = <<"recheck", "welcome">>
      OBVIOUS
    <3>4. <<"recheck", "welcome">> # <<"send", "welcome">>
      OBVIOUS
    <3> HIDE DEF t
    <3> QED
      BY <3>1, <3>2, <3>3, <3>4
  <2>2. CASE j.kind # "welcome"
    <3>1. t = <<<<"send", j.kind>>>>
      BY <1>4, <2>2, NothingFirst
    <3>2. Ordered(<<<<"send", j.kind>>>>, {})
      BY <1>4 DEF Ordered, Needed, Fetches, Writes, Changes
    <3> QED
      BY <2>2, <3>1, <3>2
  <2> QED
    BY <2>1, <2>2
<1>6. \A n \in 1 .. Len(t) : t[n][1] \notin Writes
  <2>1. CASE j.kind = "welcome"
    <3>1. t = <<<<"recheck", "welcome">>, <<"send", "welcome">>>>
      BY <1>4, <2>1, OneMoreThanOne
    <3> QED
      BY <3>1 DEF Writes
  <2>2. CASE j.kind # "welcome"
    <3>1. t = <<<<"send", j.kind>>>>
      BY <1>4, <2>2, NothingFirst
    <3> QED
      BY <3>1 DEF Writes
  <2> QED
    BY <2>1, <2>2
<1> HIDE DEF t, i
<1>7. /\ DOMAIN q = Parts /\ q.todo = t /\ q.copy = Vacant.copy /\ q.about = "deed"
      /\ q.ask = Vacant.ask /\ q.wanted = LiveTargets(rows.bot) /\ q.job = i
  BY DEF Vacant, Parts
<1> HIDE DEF q
<1>8. Served(q, rows, meant, overtaken)
  BY <1>3, <1>5, <1>6, <1>7, VacantIs DEF Served, CopiesFit, InHand
<1>9. DeskInv'
  <2>1. \A l \in letters' : Letter(l) /\ l.tries < Tries
    BY <1>1 DEF ConsoleInv, DeskInv
  <2> QED
    BY <1>1, <2>1 DEF ConsoleInv, DeskInv, RowShapes, Exempt
<1> QED
  BY <1>1, <1>8, <1>9, OneServed DEF ConsoleInv

\* The worker: what is due is alone, and there is no copy of a row yet.
LEMMA HandDue ==
    ASSUME ConsoleInv, NEW s \in Everyone, NEW v \in {"recheck", "send"}, NowDue(s, v)
    PROVE  InHand(bureaux[s])
<1> DEFINE q == bureaux[s]
<1>1. /\ Served(q, rows, meant, overtaken) /\ q.todo[1][1] = v /\ 1 \in 1 .. Len(q.todo)
  BY StepDue
<1> QED
  BY <1>1 DEF Served

LEMMA WelcomeLooked == ASSUME ConsoleInv, NEW s \in Everyone, WelcomeLive(s) PROVE ConsoleInv'
<1> DEFINE q == bureaux[s]
           n == [q EXCEPT !.todo = RecordOperation("done")]
<1>1. /\ Served(q, rows, meant, overtaken) /\ q.todo # <<>> /\ q # Vacant
      /\ q.todo \in Seq(ScriptSteps) /\ Head(q.todo)[1] = "recheck" /\ InHand(q)
      /\ \A i \in 2 .. Len(q.todo) : i \in 1 .. Len(q.todo)
  BY StepDue, HandDue DEF WelcomeLive
<1>2. UNCHANGED desk
  BY DEF WelcomeLive
<1>3. CASE Target("welcome", rows.bot) # "none"
  <2>1. Continue(s, Then(q, <<>>))
    BY <1>3 DEF WelcomeLive
  <2>2. \E w \in q.wanted : w[1] = "welcome"
    <3>1. <<"welcome", Target("welcome", rows.bot)>> \in LiveTargets(rows.bot)
      BY <1>3, LiveIs DEF NoticeKinds
    <3> QED
      BY <1>1, <3>1 DEF Served
  <2>3. Served(Then(q, <<>>), rows, meant, overtaken)
    BY <1>1, <2>2, Goes DEF Served, Fetches
  <2> QED
    BY <1>2, <2>1, <2>3, OneServed, DeskStands DEF ConsoleInv, Everyone, desk
<1>4. CASE Target("welcome", rows.bot) = "none"
  <2>1. Continue(s, n)
    BY <1>4 DEF WelcomeLive
  <2>2. /\ DOMAIN n = Parts /\ n.todo = RecordOperation("done") /\ n.copy = q.copy
        /\ n.wanted = q.wanted /\ n.about = "deed" /\ n.ask = q.ask
    BY <1>1 DEF Served, Parts
  <2> HIDE DEF n
  <2>3. Served(n, rows, meant, overtaken)
    BY <1>1, <2>2, LedgerOrdered, Rescripted DEF InHand
  <2> QED
    BY <1>2, <2>1, <2>3, OneServed, DeskStands DEF ConsoleInv, Everyone, desk
<1> QED
  BY <1>3, <1>4

\* What is sent is the end of the script.
LEMMA SendIsLast ==
    ASSUME ConsoleInv, NEW s \in Everyone, NowDue(s, "send"), NEW u, Ordered(u, {}), u # <<>>,
           \A i \in 1 .. Len(u) : u[i][1] \notin {"recheck", "send"}
    PROVE  Served(Then(bureaux[s], u), rows, meant, overtaken)
<1> DEFINE q == bureaux[s]
           n == [q EXCEPT !.todo = u]
<1>1. /\ Served(q, rows, meant, overtaken) /\ q.todo # <<>> /\ q # Vacant
      /\ q.todo \in Seq(ScriptSteps) /\ InHand(q) /\ Len(q.todo) = 1
  BY StepDue, HandDue
<1>2. Tail(q.todo) = <<>>
  <2>1. Tail(q.todo) \in Seq(ScriptSteps) /\ Len(Tail(q.todo)) = 0
    BY <1>1, TailIs
  <2> QED
    BY <2>1, EmptyIs
<1>3. u \o <<>> = u
  BY DEF Ordered
<1>4. Then(q, u) = n
  BY <1>2, <1>3 DEF Then
<1>5. /\ DOMAIN n = Parts /\ n.todo = u /\ n.copy = q.copy
      /\ n.wanted = q.wanted /\ n.about = "deed" /\ n.ask = q.ask
  BY <1>1 DEF Served, Parts
<1> HIDE DEF n
<1>6. Served(n, rows, meant, overtaken)
  BY <1>1, <1>5, Rescripted DEF InHand
<1> QED
  BY <1>4, <1>6

LEMMA NoticeSent == ASSUME ConsoleInv, NEW s \in Everyone, SendNotice(s) PROVE ConsoleInv'
<1>1. Continue(s, Then(bureaux[s], RecordOperation("done"))) /\ UNCHANGED desk
  BY DEF SendNotice
<1>2. Served(Then(bureaux[s], RecordOperation("done")), rows, meant, overtaken)
  BY SendIsLast, LedgerOrdered DEF SendNotice
<1> QED
  BY <1>1, <1>2, OneServed, DeskStands DEF ConsoleInv, Everyone, desk

LEMMA SendFailed == ASSUME ConsoleInv, NEW s \in Everyone, SendFails(s) PROVE ConsoleInv'
<1> DEFINE q == bureaux[s]
           u == RecordOperation("failed") \o <<<<"record", "failure">>>>
<1>1. UNCHANGED <<agenda, rows, online, numbered, unresolved, acts, meant, overtaken>>
      /\ NowDue(s, "send")
  BY DEF SendFails
<1>2. InHand(q)
  BY <1>1, HandDue
<1>3. CASE q.job.tries < Tries /\ letters' = letters \cup {q.job} /\ Continue(s, Vacant)
  <2>1. \A l \in letters' : Letter(l) /\ l.tries < Tries
    BY <1>2, <1>3 DEF ConsoleInv, DeskInv, InHand
  <2>2. DeskInv'
    BY <1>1, <2>1 DEF ConsoleInv, DeskInv, RowShapes, Exempt
  <2> QED
    BY <1>1, <1>3, <2>2, VacantServed, OneServed DEF ConsoleInv, Everyone
<1>4. CASE Continue(s, Then(q, u)) /\ UNCHANGED letters
  <2>1. Served(Then(q, u), rows, meant, overtaken)
    BY <1>1, SendIsLast, FailureOrdered
  <2>2. DeskInv'
    BY <1>1, <1>4 DEF ConsoleInv, DeskInv, RowShapes, Letter, Exempt
  <2> QED
    BY <1>1, <1>4, <2>1, <2>2, OneServed DEF ConsoleInv, Everyone
<1> QED
  BY <1>3, <1>4 DEF SendFails

LEMMA LedgerKept == ASSUME ConsoleInv, NEW s \in Everyone, KeepLedger(s) PROVE ConsoleInv'
<1> DEFINE q == bureaux[s]
<1>1. /\ Served(q, rows, meant, overtaken) /\ q.todo # <<>>
      /\ Head(q.todo) = q.todo[1] /\ Head(q.todo)[1] = "ledger" /\ Len(q.todo) \in Nat \ {0}
  BY StepDue DEF KeepLedger
<1>2. /\ Continue(s, Then(q, <<>>))
      /\ unresolved' = unresolved + (IF Of(s) = "failed" THEN 1 ELSE 0)
      /\ UNCHANGED <<agenda, rows, online, letters, numbered, acts, meant, overtaken>>
  BY DEF KeepLedger
<1>3. rows["link"].there
  <2>1. 1 \in 1 .. Len(q.todo) /\ Needed(q.todo[1]) = "link"
    BY <1>1 DEF Needed
  <2>2. Ordered(q.todo, DOMAIN q.copy)
    BY <1>1 DEF Served
  <2>3. "link" \in DOMAIN q.copy
    BY <2>1, <2>2 DEF Ordered
  <2> QED
    BY <1>1, <2>3 DEF Served, CopiesFit
<1>4. Served(Then(q, <<>>), rows, meant, overtaken)
  BY <1>1, GoesOn DEF Fetches
<1>5. DeskInv'
  <2>1. unresolved' \in Nat
    BY <1>2 DEF ConsoleInv, DeskInv
  <2> QED
    BY <1>2, <1>3, <2>1 DEF ConsoleInv, DeskInv, RowShapes, Letter, Exempt
<1> QED
  BY <1>2, <1>4, <1>5, OneServed DEF ConsoleInv, Everyone

LEMMA QueryRejected == ASSUME ConsoleInv, NEW s \in Everyone, QueryFails(s) PROVE ConsoleInv'
  BY VacantServed, OneServed, DeskStands DEF QueryFails, ConsoleInv, Everyone, desk

LEMMA GatewayTurned == ASSUME ConsoleInv, GatewayTurns PROVE ConsoleInv'
<1>1. online' \in BOOLEAN
  BY DEF GatewayTurns, ConsoleInv, DeskInv
<1>2. DeskInv'
  BY <1>1 DEF GatewayTurns, ConsoleInv, DeskInv, RowShapes, Letter, Exempt
<1>3. /\ rows' = rows /\ meant' = meant /\ overtaken' = overtaken /\ bureaux' = bureaux
  BY DEF GatewayTurns
<1> QED
  BY <1>2, <1>3 DEF ConsoleInv

\* A request that a change of other rows does not concern.
LEMMA StillServed ==
    ASSUME NEW q, NEW rw, NEW mt, NEW ov, Served(q, rw, mt, ov), NEW rw2, NEW mt2, NEW ov2,
           \A x \in {"bot", "link"} : rw[x].there => rw2[x].there,
           q # Vacant => LiveTargets(rw2["bot"]) \subseteq q.wanted,
           \A x \in DOMAIN q.copy : \A f \in DOMAIN Fresh[x] : mt2[x][f] = mt[x][f],
           ov \subseteq ov2
    PROVE  Served(q, rw2, mt2, ov2)
<1>1. CopiesFit(q, rw2)
  BY DEF Served, CopiesFit
<1>2. ASSUME NEW x \in DOMAIN q.copy, CopyStands(q, x, mt, ov) PROVE CopyStands(q, x, mt2, ov2)
  BY <1>2 DEF Served, CopiesFit, CopyStands
<1> QED
  BY <1>1, <1>2 DEF Served

\* A request whose copy of row x falls behind in these fields.
LEMMA BehindServed ==
    ASSUME NEW q, NEW rw, NEW mt, NEW ov, Served(q, rw, mt, ov), NEW rw2, NEW mt2, NEW ov2,
           NEW x, NEW fields, NEW saved,
           \A y \in {"bot", "link"} : rw[y].there => rw2[y].there,
           rw2["bot"] = rw["bot"] \/ (x = "bot" /\ rw2["bot"] = saved),
           \A y \in RowNames : \A f \in DOMAIN Fresh[y] :
             (y = x /\ f \in fields) \/ mt2[y][f] = mt[y][f],
           \A w \in ov : w \in ov2 \/ (w[1] = x /\ w[2] \in fields)
    PROVE  Served(FallBehind(x, fields, q, saved), rw2, mt2, ov2)
<1>1. CASE q = Vacant
  BY <1>1, VacantServed DEF FallBehind
<1>2. CASE q # Vacant
  <2> DEFINE n == FallBehind(x, fields, q, saved)
  <2>1. /\ DOMAIN n = Parts /\ n.todo = q.todo /\ n.copy = q.copy /\ n.about = q.about
        /\ n.ask = q.ask /\ n.job = q.job /\ n.wanted = q.wanted \cup Switches(x, saved)
        /\ n.stale = IF x \in DOMAIN q.copy THEN q.stale \cup ({x} \X fields) ELSE q.stale
    BY <1>2 DEF Served, FallBehind, Parts
  <2> HIDE DEF n
  <2>2. q.todo # <<>> /\ CopiesFit(n, rw2)
    BY <1>2, <2>1 DEF Served, CopiesFit
  <2>3. LiveTargets(rw2["bot"]) \subseteq n.wanted
    BY <1>2, <2>1 DEF Served, Switches
  <2>4. ASSUME NEW y \in DOMAIN q.copy, CopyStands(q, y, mt, ov)
        PROVE  CopyStands(n, y, mt2, ov2)
    <3> SUFFICES ASSUME NEW f \in DOMAIN q.copy[y]
                 PROVE  \/ Exempt(y, f) \/ q.copy[y][f] = mt2[y][f]
                        \/ <<y, f>> \in n.stale \/ <<y, f>> \in ov2
      BY <2>1 DEF CopyStands
    <3>1. y \in RowNames /\ f \in DOMAIN Fresh[y]
      BY DEF Served, CopiesFit
    <3>2. CASE y = x /\ f \in fields
      BY <2>1, <3>2
    <3>3. CASE ~(y = x /\ f \in fields)
      <4>1. mt2[y][f] = mt[y][f]
        BY <3>1, <3>3
      <4>2. <<y, f>> \in ov => <<y, f>> \in ov2
        BY <3>3
      <4>3. <<y, f>> \in q.stale => <<y, f>> \in n.stale
        BY <2>1
      <4> QED
        BY <2>4, <4>1, <4>2, <4>3 DEF CopyStands
    <3> QED
      BY <3>2, <3>3
  <2>5. ASSUME NEW i \in 1 .. Len(n.todo)
        PROVE  /\ n.todo[i][1] \in Writes /\ n.todo[i][2] \in DOMAIN n.copy =>
                    CopyStands(n, n.todo[i][2], mt2, ov2)
               /\ n.todo[i][1] \in {"recheck", "send"} => InHand(n)
    BY <2>1, <2>4 DEF Served, InHand
  <2>6. Served(n, rw2, mt2, ov2)
    BY <2>1, <2>2, <2>3, <2>5 DEF Served
  <2> QED
    BY <2>6 DEF n
<1> QED
  BY <1>1, <1>2

LEMMA RowCreated == ASSUME ConsoleInv, NEW s \in Everyone, CreateRow(s) PROVE ConsoleInv'
<1> DEFINE q == bureaux[s]
           x == Of(s)
           new == [FreshFor(s, x) EXCEPT !.there = TRUE]
           bare == [there |-> TRUE]
<1>1. /\ Served(q, rows, meant, overtaken) /\ q.todo # <<>> /\ q # Vacant
      /\ Head(q.todo)[1] = "create" /\ Head(q.todo)[2] = x /\ Head(q.todo) \in ScriptSteps
  BY StepDue DEF CreateRow
<1>2. x \in {"bot", "link"} /\ x \in RowNames
  BY <1>1, StepIs DEF RowNames
<1>3. /\ DOMAIN new = DOMAIN Fresh[x] /\ new.there
      /\ x = "bot" => ~SwitchedOn(new)
  <2>1. DOMAIN FreshFor(s, x) = DOMAIN Fresh[x] /\ "there" \in DOMAIN Fresh[x]
    BY <1>2, FreshIs DEF FreshFor
  <2>2. x = "bot" => FreshFor(s, x) = Fresh["bot"]
    BY DEF FreshFor
  <2>3. DOMAIN new = DOMAIN Fresh[x] /\ new.there
    BY <2>1
  <2>4. x = "bot" => new.on = Fresh["bot"].on
    BY <2>1, <2>2, FreshIs DEF BotColumns
  <2> QED
    BY <2>3, <2>4, FreshIs DEF SwitchedOn
<1> HIDE DEF new
<1>4. RowShapes
  BY DEF ConsoleInv, DeskInv
<1>5. /\ DOMAIN rows' = RowNames /\ DOMAIN meant' = RowNames
      /\ \A y \in RowNames : rows'[y] = IF y = x /\ ~rows[x].there THEN new ELSE rows[y]
      /\ \A y \in RowNames : meant'[y] = IF y = x /\ ~rows[x].there THEN new ELSE meant[y]
      /\ UNCHANGED <<agenda, online, letters, numbered, unresolved, acts, overtaken>>
  BY <1>2, <1>4 DEF CreateRow, RowShapes, new
<1>6. LiveTargets(rows'["bot"]) \subseteq LiveTargets(rows["bot"])
  BY <1>3, <1>5, NothingLive DEF RowNames
<1>7. ASSUME NEW r \in Everyone PROVE Served(bureaux[r], rows', meant', overtaken')
  <2>1. Served(bureaux[r], rows, meant, overtaken)
    BY DEF ConsoleInv, Everyone
  <2>2. \A y \in {"bot", "link"} : rows[y].there => rows'[y].there
    BY <1>5 DEF RowNames
  <2>3. bureaux[r] # Vacant => LiveTargets(rows'["bot"]) \subseteq bureaux[r].wanted
    BY <1>6, <2>1 DEF Served
  <2>4. \A y \in DOMAIN bureaux[r].copy : meant'[y] = meant[y]
    BY <1>2, <1>5, <2>1 DEF Served, CopiesFit
  <2>5. overtaken \subseteq overtaken'
    BY <1>5
  <2> QED
    BY <2>1, <2>2, <2>3, <2>4, <2>5, StillServed
<1>8. ASSUME NEW n, Continue(s, n), Served(n, rows', meant', overtaken')
      PROVE  /\ DOMAIN bureaux' = Bureaux \cup {Postman}
             /\ \A r \in Everyone : Served(bureaux'[r], rows', meant', overtaken')
  <2>1. DOMAIN bureaux = Everyone
    BY DEF ConsoleInv, Everyone
  <2>2. /\ DOMAIN bureaux' = Everyone /\ bureaux'[s] = n
        /\ \A r \in Everyone : r # s => bureaux'[r] = bureaux[r]
    BY <1>8, <2>1 DEF Continue
  <2>3. ASSUME NEW r \in Everyone PROVE Served(bureaux'[r], rows', meant', overtaken')
    BY <1>7, <1>8, <2>2
  <2> QED
    BY <2>2, <2>3 DEF Everyone
<1>9. /\ rows'[x].there
      /\ \A f \in DOMAIN rows'[x] :
           Exempt(x, f) \/ rows'[x][f] = meant'[x][f] \/ <<x, f>> \in overtaken'
  BY <1>2, <1>3, <1>5 DEF ConsoleInv, DeskInv
<1>10. \E n : Continue(s, n) /\ Served(n, rows', meant', overtaken')
  <2>1. CASE x = "link" /\ rows.link.there
    <3>1. Continue(s, Vacant)
      BY <2>1 DEF CreateRow
    <3> QED
      BY <3>1, VacantServed
  <2>2. CASE x = "bot" /\ rows.bot.there
    <3>1. Continue(s, Then(Taken(q, x, bare), <<>>))
      BY <2>2 DEF CreateRow
    <3>2. \A f \in DOMAIN bare : Exempt(x, f)
      BY <2>2 DEF Exempt
    <3>3. DOMAIN bare \subseteq DOMAIN Fresh[x] /\ ~SwitchedOn(bare)
      BY <1>2, FreshIs DEF SwitchedOn
    <3>4. LiveTargets(bare) \subseteq q.wanted
      BY <3>3, NothingLive
    <3> HIDE DEF bare
    <3>5. Served(Then(Taken(q, x, bare), <<>>), rows', meant', overtaken')
      BY <1>1, <1>2, <1>7, <1>9, <3>2, <3>3, <3>4, TakenServed DEF Fetches
    <3> QED
      BY <3>1, <3>5
  <2>3. CASE ~rows[x].there
    <3>1. Continue(s, Then(Taken(q, x, new), <<>>))
      BY <1>2, <2>3 DEF CreateRow, new
    <3>2. rows'[x] = new /\ meant'[x] = new
      BY <1>2, <1>5, <2>3
    <3>3. x = "bot" => LiveTargets(new) \subseteq q.wanted
      BY <1>3, NothingLive
    <3>4. Served(Then(Taken(q, x, new), <<>>), rows', meant', overtaken')
      BY <1>1, <1>2, <1>3, <1>7, <1>9, <3>2, <3>3, TakenServed DEF Fetches
    <3> QED
      BY <3>1, <3>4
  <2> QED
    BY <1>2, <2>1, <2>2, <2>3
<1>11. DeskInv'
  <2>1. RowShapes'
    BY <1>2, <1>3, <1>4, <1>5 DEF RowShapes, Exempt, RowNames
  <2>2. \A y \in RowNames : \A f \in DOMAIN rows'[y] :
          Exempt(y, f) \/ rows'[y][f] = meant'[y][f] \/ <<y, f>> \in overtaken'
    BY <1>5, <1>9 DEF ConsoleInv, DeskInv
  <2>3. unresolved' > 0 => rows'["link"].there
    BY <1>3, <1>5 DEF ConsoleInv, DeskInv, RowNames
  <2> QED
    BY <1>5, <2>1, <2>2, <2>3 DEF ConsoleInv, DeskInv, Letter
<1> QED
  BY <1>8, <1>10, <1>11 DEF ConsoleInv, Everyone

\* What a request writes, it has a copy of that stands; and it writes it once.
LEMMA WriteDue ==
    ASSUME ConsoleInv, NEW s \in Everyone, NEW v \in Writes, NowDue(s, v)
    PROVE  LET q == bureaux[s]
               x == Of(s)
           IN  /\ x \in RowNames /\ x \in DOMAIN q.copy
               /\ DOMAIN q.copy[x] \subseteq DOMAIN Fresh[x]
               /\ CopyStands(q, x, meant, overtaken)
               /\ \A i \in 2 .. Len(q.todo) : ~(q.todo[i][1] \in Writes /\ q.todo[i][2] = x)
<1> DEFINE q == bureaux[s]
           x == Of(s)
<1>1. /\ Served(q, rows, meant, overtaken) /\ Head(q.todo) \in ScriptSteps
      /\ q.todo[1][1] = v /\ q.todo[1][2] = x /\ Head(q.todo) = q.todo[1]
      /\ Len(q.todo) \in Nat \ {0}
  BY StepDue
<1>2. x \in RowNames
  BY <1>1, StepIs
<1>3. 1 \in 1 .. Len(q.todo) /\ Ordered(q.todo, DOMAIN q.copy) /\ Needed(q.todo[1]) = x
  BY <1>1 DEF Served, Needed, Writes
<1>4. x \in DOMAIN q.copy
  BY <1>2, <1>3 DEF Ordered, RowNames
<1>5. \A i \in 2 .. Len(q.todo) : ~(q.todo[i][1] \in Writes /\ q.todo[i][2] = x)
  BY <1>1, <1>3 DEF Ordered, Changes
<1> QED
  BY <1>1, <1>2, <1>3, <1>4, <1>5 DEF Served, CopiesFit

LEMMA RowSaved == ASSUME ConsoleInv, NEW s \in Everyone, SaveRow(s) PROVE ConsoleInv'
<1> DEFINE q == bureaux[s]
           x == Of(s)
           named == DOMAIN q.ask \cap DOMAIN rows[x]
           saved == [f \in DOMAIN rows[x] |->
                     IF f \in named THEN q.ask[f]
                     ELSE IF f = "there" /\ x # "regiment" THEN TRUE
                     ELSE IF f \in DOMAIN q.copy[x] THEN q.copy[x][f] ELSE rows[x][f]]
           behind == {w \in q.stale : w[1] = x /\ w[2] \in DOMAIN q.copy[x]}
           p == [q EXCEPT !.changed = TRUE, !.wanted = @ \cup Switches(x, saved)]
<1>1. PICK v \in Writes : NowDue(s, v)
  BY DEF SaveRow, Writes
<1>2. /\ Served(q, rows, meant, overtaken) /\ q.todo # <<>> /\ q # Vacant
      /\ Head(q.todo)[1] = v /\ Len(q.todo) \in Nat
  BY <1>1, StepDue
<1>3. /\ x \in RowNames /\ x \in DOMAIN q.copy
      /\ DOMAIN q.copy[x] \subseteq DOMAIN Fresh[x]
      /\ CopyStands(q, x, meant, overtaken)
      /\ \A i \in 2 .. Len(q.todo) : ~(q.todo[i][1] \in Writes /\ q.todo[i][2] = x)
  BY <1>1, WriteDue
<1>4. RowShapes /\ "there" \in DOMAIN rows[x] /\ "there" \notin named
  BY <1>2, <1>3, FreshIs DEF ConsoleInv, DeskInv, RowShapes, Served
<1>5. CASE Continue(s, Then(q, <<>>)) /\ UNCHANGED <<rows, meant, overtaken>>
  <2>1. Served(Then(q, <<>>), rows, meant, overtaken)
    BY <1>2, GoesOn DEF Fetches, Writes
  <2>2. DeskInv'
    BY <1>5 DEF SaveRow, ConsoleInv, DeskInv, RowShapes, Letter, Exempt
  <2> QED
    BY <1>5, <2>1, <2>2, OneServed DEF ConsoleInv, Everyone
<1>6. CASE /\ rows' = [rows EXCEPT ![x] = saved]
           /\ meant' = [meant EXCEPT ![x] = [f \in DOMAIN @ |->
                                               IF f \in named THEN q.ask[f] ELSE @[f]]]
           /\ overtaken' = (overtaken \cup behind) \ ({x} \X named)
           /\ bureaux' = [r \in DOMAIN bureaux |->
                IF r = s THEN Then(p, <<>>) ELSE FallBehind(x, named, bureaux[r], saved)]
  <2>1. UNCHANGED <<agenda, online, letters, numbered, unresolved, acts>>
    BY DEF SaveRow
  <2>2. /\ DOMAIN saved = DOMAIN Fresh[x] /\ DOMAIN saved = DOMAIN rows[x]
        /\ x # "regiment" => saved.there
        /\ \A f \in DOMAIN saved : f \in named => saved[f] = q.ask[f]
        /\ \A f \in DOMAIN saved : f \notin named /\ ~Exempt(x, f) =>
             saved[f] = IF f \in DOMAIN q.copy[x] THEN q.copy[x][f] ELSE rows[x][f]
    BY <1>3, <1>4 DEF RowShapes, Exempt
  <2> HIDE DEF saved
  <2>3. /\ DOMAIN rows' = RowNames /\ DOMAIN meant' = RowNames
        /\ rows'[x] = saved /\ \A y \in RowNames : y # x => rows'[y] = rows[y]
        /\ \A y \in RowNames : y # x => meant'[y] = meant[y]
        /\ DOMAIN meant'[x] = DOMAIN meant[x]
        /\ \A f \in DOMAIN meant[x] :
             meant'[x][f] = IF f \in named THEN q.ask[f] ELSE meant[x][f]
    BY <1>3, <1>4, <1>6 DEF RowShapes
  <2>4. \A y \in {"bot", "link"} : rows[y].there => rows'[y].there
    BY <2>2, <2>3 DEF RowNames
  <2>5. rows'["bot"] = rows["bot"] \/ (x = "bot" /\ rows'["bot"] = saved)
    BY <2>3 DEF RowNames
  <2>6. \A y \in RowNames : \A f \in DOMAIN Fresh[y] :
          (y = x /\ f \in named) \/ meant'[y][f] = meant[y][f]
    BY <1>4, <2>3 DEF RowShapes
  <2>7. \A w \in overtaken : w \in overtaken' \/ (w[1] = x /\ w[2] \in named)
    BY <1>6
  <2>8. \A y, f : <<y, f>> \in overtaken \cup behind => <<y, f>> \in overtaken' \/ (y = x /\ f \in named)
    BY <1>6
  <2>9. DOMAIN bureaux = Everyone
    BY DEF ConsoleInv, Everyone
  <2>10. ASSUME NEW r \in Everyone, r # s PROVE Served(bureaux'[r], rows', meant', overtaken')
    <3>1. Served(bureaux[r], rows, meant, overtaken)
      BY DEF ConsoleInv, Everyone
    <3>2. bureaux'[r] = FallBehind(x, named, bureaux[r], saved)
      BY <1>6, <2>9, <2>10
    <3> HIDE DEF named, x
    <3>3. Served(FallBehind(x, named, bureaux[r], saved), rows', meant', overtaken')
      BY <2>4, <2>5, <2>6, <2>7, <3>1, BehindServed
    <3> QED
      BY <3>2, <3>3
  <2>11. Served(Then(p, <<>>), rows', meant', overtaken')
    <3>1. /\ DOMAIN p = Parts /\ p.todo = q.todo /\ p.copy = q.copy /\ p.stale = q.stale
          /\ p.about = q.about /\ p.job = q.job /\ p.ask = q.ask
          /\ p.wanted = q.wanted \cup Switches(x, saved)
      BY <1>2 DEF Served, Parts
    <3> HIDE DEF p
    <3>2. CopiesFit(p, rows')
      BY <1>2, <2>4, <3>1 DEF Served, CopiesFit
    <3>3. LiveTargets(rows'["bot"]) \subseteq p.wanted
      BY <1>2, <2>5, <3>1 DEF Served, Switches
    <3>4. "bot" \in DOMAIN p.copy => LiveTargets(p.copy["bot"]) \subseteq p.wanted
      BY <1>2, <3>1 DEF Served
    <3>5. ASSUME NEW i \in 2 .. Len(p.todo)
          PROVE  /\ p.todo[i][1] \in Writes /\ p.todo[i][2] \in DOMAIN p.copy =>
                      CopyStands(p, p.todo[i][2], meant', overtaken')
                 /\ p.todo[i][1] \in {"recheck", "send"} => InHand(p)
      <4>1. i \in 1 .. Len(q.todo)
        BY <1>2, <3>1
      <4>2. p.todo[i][1] \in {"recheck", "send"} => InHand(p)
        BY <1>2, <3>1, <4>1 DEF Served, InHand
      <4>3. ASSUME p.todo[i][1] \in Writes, p.todo[i][2] \in DOMAIN p.copy
            PROVE  CopyStands(p, p.todo[i][2], meant', overtaken')
        <5> DEFINE y == p.todo[i][2]
        <5>1. y # x /\ CopyStands(q, y, meant, overtaken)
          BY <1>2, <1>3, <3>1, <4>1, <4>3 DEF Served
        <5>2. y \in RowNames
          BY <1>2, <3>1, <4>3 DEF Served, CopiesFit
        <5>3. meant'[y] = meant[y] /\ \A f : <<y, f>> \in overtaken => <<y, f>> \in overtaken'
          BY <2>3, <2>8, <5>1, <5>2
        <5> QED
          BY <3>1, <5>1, <5>3 DEF CopyStands
      <4> QED
        BY <4>2, <4>3
    <3>6. /\ Ordered(p.todo, DOMAIN p.copy) /\ p.todo # <<>> /\ p.about = "deed"
          /\ "there" \notin DOMAIN p.ask /\ Head(p.todo)[1] \notin Fetches \cup {"recheck"}
      BY <1>2, <3>1 DEF Served, Fetches, Writes
    <3> QED
      BY <3>1, <3>2, <3>3, <3>4, <3>5, <3>6, Goes
  <2>12. RowShapes'
    <3>1. DOMAIN rows'[x] = DOMAIN Fresh[x] /\ DOMAIN meant'[x] = DOMAIN Fresh[x]
      BY <1>3, <1>4, <2>2, <2>3 DEF RowShapes
    <3>2. \A y \in RowNames : DOMAIN rows'[y] = DOMAIN Fresh[y] /\ DOMAIN meant'[y] = DOMAIN Fresh[y]
      BY <1>4, <2>3, <3>1 DEF RowShapes
    <3>3. ASSUME NEW y \in {"settings", "papers"}, ~rows'[y].there, NEW f \in DOMAIN Fresh[y]
          PROVE  Exempt(y, f) \/ meant'[y][f] = Fresh[y][f]
      <4>1. y \in RowNames /\ y # "regiment"
        BY DEF RowNames
      <4>2. y # x
        BY <2>2, <2>3, <3>3, <4>1
      <4>3. rows'[y] = rows[y] /\ meant'[y] = meant[y]
        BY <2>3, <4>1, <4>2
      <4> QED
        BY <1>4, <3>3, <4>3 DEF RowShapes
    <3> QED
      BY <2>3, <3>2, <3>3 DEF RowShapes
  <2>13. ASSUME NEW y \in RowNames, NEW f \in DOMAIN rows'[y], ~Exempt(y, f)
         PROVE  rows'[y][f] = meant'[y][f] \/ <<y, f>> \in overtaken'
    <3>1. CASE y # x
      BY <2>3, <2>8, <2>13, <3>1 DEF ConsoleInv, DeskInv
    <3>2. CASE y = x /\ f \in named
      <4>1. f \in DOMAIN meant[x]
        BY <1>3, <1>4, <2>2, <2>3, <3>2 DEF RowShapes
      <4> QED
        BY <2>2, <2>3, <2>13, <3>2, <4>1
    <3>3. CASE y = x /\ f \notin named
      <4>1. f \in DOMAIN meant[x] /\ f \in DOMAIN saved /\ f \in DOMAIN rows[x]
        BY <1>3, <1>4, <2>2, <2>3, <3>3 DEF RowShapes
      <4>2. meant'[x][f] = meant[x][f]
        BY <2>3, <3>3, <4>1
      <4>3. CASE f \in DOMAIN q.copy[x]
        <5>1. rows'[x][f] = q.copy[x][f]
          BY <2>2, <2>3, <2>13, <3>3, <4>1, <4>3
        <5>2. q.copy[x][f] = meant[x][f] \/ <<x, f>> \in behind \cup overtaken
          BY <1>3, <2>13, <3>3, <4>3 DEF CopyStands
        <5> QED
          BY <2>8, <3>3, <4>2, <5>1, <5>2
      <4>4. CASE f \notin DOMAIN q.copy[x]
        <5>1. rows'[x][f] = rows[x][f]
          BY <2>2, <2>3, <2>13, <3>3, <4>1, <4>4
        <5>2. rows[x][f] = meant[x][f] \/ <<x, f>> \in overtaken
          BY <1>3, <2>13, <3>3, <4>1 DEF ConsoleInv, DeskInv
        <5> QED
          BY <2>8, <3>3, <4>2, <5>1, <5>2
      <4> QED
        BY <4>3, <4>4
    <3> QED
      BY <3>1, <3>2, <3>3
  <2>14. unresolved' > 0 => rows'["link"].there
    BY <2>1, <2>4 DEF ConsoleInv, DeskInv
  <2>15. DeskInv'
    BY <2>1, <2>12, <2>13, <2>14 DEF ConsoleInv, DeskInv, Letter
  <2>16. /\ DOMAIN bureaux' = Everyone
         /\ \A r \in Everyone : Served(bureaux'[r], rows', meant', overtaken')
    <3>1. DOMAIN bureaux' = Everyone /\ bureaux'[s] = Then(p, <<>>)
      BY <1>6, <2>9
    <3>2. ASSUME NEW r \in Everyone PROVE Served(bureaux'[r], rows', meant', overtaken')
      BY <2>10, <2>11, <3>1
    <3> QED
      BY <3>1, <3>2
  <2> QED
    BY <2>15, <2>16 DEF ConsoleInv, Everyone
<1> QED
  BY <1>5, <1>6 DEF SaveRow

\* A request that has dropped the regiment writes it no more.
LEMMA RegimentDropped ==
    ASSUME ConsoleInv, NEW s \in Everyone, DropRegiment(s) PROVE ConsoleInv'
<1> DEFINE q == bureaux[s]
           p == [q EXCEPT !.changed = TRUE]
           fields == {"there"}
<1>1. /\ Served(q, rows, meant, overtaken) /\ q.todo # <<>> /\ q # Vacant
      /\ Head(q.todo) \in ScriptSteps /\ Head(q.todo)[1] = "drop"
      /\ Head(q.todo) = q.todo[1] /\ Len(q.todo) \in Nat \ {0}
  BY StepDue DEF DropRegiment
<1>2. q.todo[1][2] = "regiment"
  BY <1>1 DEF ScriptSteps
<1>3. \A i \in 2 .. Len(q.todo) : ~(q.todo[i][1] \in Writes /\ q.todo[i][2] = "regiment")
  <2>1. 1 \in 1 .. Len(q.todo) /\ Ordered(q.todo, DOMAIN q.copy)
    BY <1>1 DEF Served
  <2> QED
    BY <1>1, <1>2, <2>1 DEF Ordered, Changes
<1>4. RowShapes /\ "regiment" \in RowNames /\ "there" \in DOMAIN Fresh["regiment"]
  BY FreshIs DEF ConsoleInv, DeskInv, RowNames
<1>5. /\ rows' = [rows EXCEPT !.regiment.there = FALSE]
      /\ meant' = [meant EXCEPT !.regiment.there = FALSE]
      /\ overtaken' = overtaken \ {<<"regiment", "there">>}
      /\ bureaux' = [r \in DOMAIN bureaux |->
           IF r = s THEN Then(p, <<>>)
           ELSE FallBehind("regiment", fields, bureaux[r], rows.regiment)]
      /\ UNCHANGED <<agenda, online, letters, numbered, unresolved, acts>>
  BY DEF DropRegiment
<1>6. /\ DOMAIN rows' = RowNames /\ DOMAIN meant' = RowNames
      /\ \A y \in RowNames : y # "regiment" => rows'[y] = rows[y] /\ meant'[y] = meant[y]
      /\ rows'["regiment"] = [rows["regiment"] EXCEPT !.there = FALSE]
      /\ meant'["regiment"] = [meant["regiment"] EXCEPT !.there = FALSE]
  BY <1>4, <1>5 DEF RowShapes
<1>7. /\ DOMAIN rows'["regiment"] = DOMAIN Fresh["regiment"]
      /\ DOMAIN meant'["regiment"] = DOMAIN Fresh["regiment"]
      /\ rows'["regiment"].there = meant'["regiment"].there
      /\ \A f \in DOMAIN Fresh["regiment"] : f # "there" =>
           /\ rows'["regiment"][f] = rows["regiment"][f]
           /\ meant'["regiment"][f] = meant["regiment"][f]
  BY <1>4, <1>6 DEF RowShapes
<1>8. /\ rows'["bot"] = rows["bot"] /\ \A y \in {"bot", "link"} : rows'[y] = rows[y]
      /\ rows'["link"] = rows["link"]
  BY <1>6 DEF RowNames
<1>9. DOMAIN bureaux = Everyone
  BY DEF ConsoleInv, Everyone
<1>10. ASSUME NEW r \in Everyone, r # s PROVE Served(bureaux'[r], rows', meant', overtaken')
  <2>1. Served(bureaux[r], rows, meant, overtaken)
    BY DEF ConsoleInv, Everyone
  <2>2. bureaux'[r] = FallBehind("regiment", fields, bureaux[r], rows.regiment)
    BY <1>5, <1>9, <1>10
  <2>3. \A y \in RowNames : \A f \in DOMAIN Fresh[y] :
          (y = "regiment" /\ f \in fields) \/ meant'[y][f] = meant[y][f]
    BY <1>6, <1>7
  <2>4. \A w \in overtaken : w \in overtaken' \/ (w[1] = "regiment" /\ w[2] \in fields)
    BY <1>5
  <2>5. \A y \in {"bot", "link"} : rows[y].there => rows'[y].there
    BY <1>8
  <2> HIDE DEF fields
  <2>6. Served(FallBehind("regiment", fields, bureaux[r], rows.regiment), rows', meant', overtaken')
    BY <1>8, <2>1, <2>3, <2>4, <2>5, BehindServed
  <2> QED
    BY <2>2, <2>6
<1>11. Served(Then(p, <<>>), rows', meant', overtaken')
  <2>1. /\ DOMAIN p = Parts /\ p.todo = q.todo /\ p.copy = q.copy /\ p.stale = q.stale
        /\ p.about = q.about /\ p.job = q.job /\ p.ask = q.ask /\ p.wanted = q.wanted
    BY <1>1 DEF Served, Parts
  <2> HIDE DEF p
  <2>2. CopiesFit(p, rows')
    BY <1>1, <1>8, <2>1 DEF Served, CopiesFit
  <2>3. LiveTargets(rows'["bot"]) \subseteq p.wanted
    BY <1>1, <1>8, <2>1 DEF Served
  <2>4. "bot" \in DOMAIN p.copy => LiveTargets(p.copy["bot"]) \subseteq p.wanted
    BY <1>1, <2>1 DEF Served
  <2>5. ASSUME NEW i \in 2 .. Len(p.todo)
        PROVE  /\ p.todo[i][1] \in Writes /\ p.todo[i][2] \in DOMAIN p.copy =>
                    CopyStands(p, p.todo[i][2], meant', overtaken')
               /\ p.todo[i][1] \in {"recheck", "send"} => InHand(p)
    <3>1. i \in 1 .. Len(q.todo)
      BY <1>1, <2>1
    <3>2. p.todo[i][1] \in {"recheck", "send"} => InHand(p)
      BY <1>1, <2>1, <3>1 DEF Served, InHand
    <3>3. ASSUME p.todo[i][1] \in Writes, p.todo[i][2] \in DOMAIN p.copy
          PROVE  CopyStands(p, p.todo[i][2], meant', overtaken')
      <4> DEFINE y == p.todo[i][2]
      <4>1. y # "regiment" /\ CopyStands(q, y, meant, overtaken)
        BY <1>1, <1>3, <2>1, <3>1, <3>3 DEF Served
      <4>2. y \in RowNames
        BY <1>1, <2>1, <3>3 DEF Served, CopiesFit
      <4>3. meant'[y] = meant[y] /\ \A f : <<y, f>> \in overtaken => <<y, f>> \in overtaken'
        BY <1>5, <1>6, <4>1, <4>2
      <4> QED
        BY <2>1, <4>1, <4>3 DEF CopyStands
    <3> QED
      BY <3>2, <3>3
  <2>6. /\ Ordered(p.todo, DOMAIN p.copy) /\ p.todo # <<>> /\ p.about = "deed"
        /\ "there" \notin DOMAIN p.ask /\ Head(p.todo)[1] \notin Fetches \cup {"recheck"}
    BY <1>1, <2>1 DEF Served, Fetches
  <2> QED
    BY <2>1, <2>2, <2>3, <2>4, <2>5, <2>6, Goes
<1>12. DeskInv'
  <2>1. RowShapes'
    <3>1. \A y \in RowNames : DOMAIN rows'[y] = DOMAIN Fresh[y] /\ DOMAIN meant'[y] = DOMAIN Fresh[y]
      BY <1>4, <1>6, <1>7 DEF RowShapes
    <3>2. \A y \in {"settings", "papers"} : rows'[y] = rows[y] /\ meant'[y] = meant[y]
      BY <1>6 DEF RowNames
    <3> QED
      BY <1>4, <1>6, <3>1, <3>2 DEF RowShapes
  <2>2. ASSUME NEW y \in RowNames, NEW f \in DOMAIN rows'[y], ~Exempt(y, f)
        PROVE  rows'[y][f] = meant'[y][f] \/ <<y, f>> \in overtaken'
    <3>1. CASE y = "regiment" /\ f = "there"
      BY <1>7, <3>1
    <3>2. CASE ~(y = "regiment" /\ f = "there")
      <4>1. <<y, f>> \in overtaken => <<y, f>> \in overtaken'
        BY <1>5, <3>2
      <4>2. f \in DOMAIN rows[y] /\ rows'[y][f] = rows[y][f] /\ meant'[y][f] = meant[y][f]
        BY <1>4, <1>6, <1>7, <3>2 DEF RowShapes
      <4> QED
        BY <2>2, <4>1, <4>2 DEF ConsoleInv, DeskInv
    <3> QED
      BY <3>1, <3>2
  <2>3. unresolved' > 0 => rows'["link"].there
    BY <1>5, <1>8 DEF ConsoleInv, DeskInv
  <2> QED
    BY <1>5, <2>1, <2>2, <2>3 DEF ConsoleInv, DeskInv, Letter
<1>13. /\ DOMAIN bureaux' = Everyone
       /\ \A r \in Everyone : Served(bureaux'[r], rows', meant', overtaken')
  <2>1. DOMAIN bureaux' = Everyone /\ bureaux'[s] = Then(p, <<>>)
    BY <1>5, <1>9
  <2>2. ASSUME NEW r \in Everyone PROVE Served(bureaux'[r], rows', meant', overtaken')
    BY <1>10, <1>11, <2>1
  <2> QED
    BY <2>1, <2>2
<1> QED
  BY <1>12, <1>13 DEF ConsoleInv, Everyone

LEMMA ConsoleStarts == ConsoleInit => ConsoleInv
<1> SUFFICES ASSUME ConsoleInit PROVE ConsoleInv
  OBVIOUS
<1>1. /\ agenda \in Agendas /\ DOMAIN agenda.bot = BotColumns /\ agenda.most \in Nat
  BY ConsoleAssumption DEF ConsoleInit
<1>2. /\ rows = [Fresh EXCEPT !.bot = agenda.bot] /\ meant = rows /\ overtaken = {}
      /\ letters = {} /\ unresolved = 0 /\ acts = 0 /\ online \in BOOLEAN
      /\ bureaux = [s \in Bureaux \cup {Postman} |-> Vacant]
  BY DEF ConsoleInit
<1>3. /\ DOMAIN rows = RowNames /\ rows["bot"] = agenda.bot
      /\ \A x \in RowNames : x # "bot" => rows[x] = Fresh[x]
  BY <1>2, FreshIs DEF RowNames
<1>4. \A x \in RowNames : DOMAIN rows[x] = DOMAIN Fresh[x]
  BY <1>1, <1>3, FreshIs
<1>5. RowShapes
  <2>1. \A x \in {"settings", "papers"} : meant[x] = Fresh[x]
    BY <1>2, <1>3 DEF RowNames
  <2> QED
    BY <1>2, <1>3, <1>4, <2>1 DEF RowShapes
<1>6. DeskInv
  <2>1. acts \in 0 .. agenda.most
    BY <1>1, <1>2
  <2> QED
    BY <1>1, <1>2, <1>5, <2>1 DEF DeskInv
<1> QED
  BY <1>2, <1>6, VacantServed DEF ConsoleInv

\* One step of a request, or of the worker.
LEMMA StepKeeps ==
    ASSUME ConsoleInv, NEW s \in Everyone,
           \/ LoadRow(s) \/ EnsureRow(s) \/ CreateRow(s) \/ SaveRow(s) \/ DropRegiment(s)
           \/ AskStatus(s) \/ TickOff(s) \/ RecordEntry(s) \/ QueueNotice(s)
           \/ WelcomeLive(s) \/ SendNotice(s) \/ SendFails(s) \/ KeepLedger(s)
           \/ QueryFails(s)
    PROVE  ConsoleInv'
<1>1. CASE LoadRow(s) BY <1>1, RowLoaded
<1>2. CASE EnsureRow(s) BY <1>2, RowEnsured
<1>3. CASE CreateRow(s) BY <1>3, RowCreated
<1>4. CASE SaveRow(s) BY <1>4, RowSaved
<1>5. CASE DropRegiment(s) BY <1>5, RegimentDropped
<1>6. CASE AskStatus(s) BY <1>6, StatusAsked
<1>7. CASE TickOff(s) BY <1>7, RowTicked
<1>8. CASE RecordEntry(s) BY <1>8, EntryRecorded
<1>9. CASE QueueNotice(s) BY <1>9, NoticeQueued
<1>10. CASE WelcomeLive(s) BY <1>10, WelcomeLooked
<1>11. CASE SendNotice(s) BY <1>11, NoticeSent
<1>12. CASE SendFails(s) BY <1>12, SendFailed
<1>13. CASE KeepLedger(s) BY <1>13, LedgerKept
<1>14. CASE QueryFails(s) BY <1>14, QueryRejected
<1> QED
  BY <1>1, <1>2, <1>3, <1>4, <1>5, <1>6, <1>7, <1>8, <1>9, <1>10, <1>11, <1>12, <1>13, <1>14

LEMMA ConsoleSteps == ConsoleInv /\ [ConsoleNext]_consoleVars => ConsoleInv'
<1> SUFFICES ASSUME ConsoleInv, [ConsoleNext]_consoleVars PROVE ConsoleInv'
  OBVIOUS
<1>1. CASE UNCHANGED consoleVars
  <2>1. UNCHANGED desk /\ bureaux' = bureaux
    BY <1>1 DEF consoleVars
  <2>2. DeskInv'
    BY <2>1, DeskStands DEF ConsoleInv
  <2> QED
    BY <2>1, <2>2 DEF ConsoleInv, desk
<1>2. ASSUME NEW s \in Bureaux, NEW a \in agenda.acts, BeginAct(s, a) PROVE ConsoleInv'
  BY <1>2, RequestBegun
<1>3. ASSUME NEW s \in DOMAIN bureaux,
             \/ LoadRow(s) \/ EnsureRow(s) \/ CreateRow(s) \/ SaveRow(s) \/ DropRegiment(s)
             \/ AskStatus(s) \/ TickOff(s) \/ RecordEntry(s) \/ QueueNotice(s)
             \/ WelcomeLive(s) \/ SendNotice(s) \/ SendFails(s) \/ KeepLedger(s)
             \/ QueryFails(s)
      PROVE  ConsoleInv'
  <2>1. s \in Everyone
    BY DEF ConsoleInv, Everyone
  <2> QED
    BY <1>3, <2>1, StepKeeps
<1>4. ASSUME NEW j \in letters, ClaimLetter(j) PROVE ConsoleInv'
  BY <1>4, LetterClaimed
<1>5. CASE GatewayTurns
  BY <1>5, GatewayTurned
<1> QED
  BY <1>1, <1>2, <1>3, <1>4, <1>5 DEF ConsoleNext

\* What the invariant is for.
LEMMA ConsoleKeeps == ConsoleInv => ConsoleTypeOK /\ ConsoleHolds
<1> SUFFICES ASSUME ConsoleInv PROVE ConsoleTypeOK /\ ConsoleHolds
  OBVIOUS
<1>1. DeskInv /\ RowShapes
  BY DEF ConsoleInv, DeskInv
<1>2. \A j \in letters : j.kind \in NoticeKinds /\ j.tries \in 0 .. Tries /\ j.wanted /\ j.about = "deed"
  BY <1>1 DEF DeskInv, Letter
<1>3. ConsoleTypeOK
  BY <1>1, <1>2, FreshIs DEF DeskInv, RowShapes, ConsoleTypeOK
<1>4. \A x \in DOMAIN rows : \A f \in DOMAIN rows[x] :
        \/ rows[x][f] = meant[x][f]
        \/ <<x, f>> \in overtaken
        \/ f = "there" /\ x # "regiment"
  BY <1>1 DEF DeskInv, RowShapes, Exempt
<1>5. NowDue(Postman, "send") /\ Of(Postman) = "welcome" =>
        \E p \in bureaux[Postman].wanted : p[1] = "welcome"
  <2> SUFFICES ASSUME NowDue(Postman, "send"), Of(Postman) = "welcome"
               PROVE  \E p \in bureaux[Postman].wanted : p[1] = "welcome"
    OBVIOUS
  <2>1. Postman \in Everyone
    BY DEF Everyone
  <2>2. /\ Served(bureaux[Postman], rows, meant, overtaken)
        /\ bureaux[Postman].todo # <<>> /\ Head(bureaux[Postman].todo) \in ScriptSteps
        /\ Head(bureaux[Postman].todo)[1] = "send"
        /\ Head(bureaux[Postman].todo)[2] = "welcome"
    BY <2>1, StepDue
  <2>3. \A m \in ScriptSteps : m[1] = "send" /\ m[2] = "welcome" => m = <<"send", "welcome">>
    BY DEF ScriptSteps
  <2> QED
    BY <2>2, <2>3 DEF Served
<1>6. unresolved > 0 => rows.link.there
  BY <1>1 DEF DeskInv
<1> QED
  BY <1>2, <1>3, <1>4, <1>5, <1>6 DEF ConsoleHolds

\* What an administrator saves stays in force, and a notice goes where its kind was
\* sent since it was asked for: whatever requests are under way at once, whatever
\* they ask for and whichever queries reject (settings.service.ts, regiment.service.ts,
\* discord-sync.service.ts, discord-sync.worker.ts).
THEOREM ConsoleSound == ConsoleSpec => [](ConsoleTypeOK /\ ConsoleHolds)
<1>1. ConsoleSpec => []ConsoleInv
  BY ConsoleStarts, ConsoleSteps, PTL DEF ConsoleSpec
<1> QED
  BY <1>1, ConsoleKeeps, PTL

(***************************************************************************)
(* The services side by side (BackOffice).                                 *)
(***************************************************************************)
\* What is searched with one service in focus at a time is part of what the process does.
LEMMA Slice == Spec => Process
<1>1. Init => Begin
  BY DEF Init, Begin
<1>2. [Next]_backOfficeVars => [Step]_serviceVars
  BY DEF Next, Rest, Step, backOfficeVars, serviceVars
<1> QED
  BY <1>1, <1>2, PTL DEF Spec, Process

\* A step of the process is, for each service, a step of its own or none.
LEMMA EachSteps ==
    ASSUME [Step]_serviceVars
    PROVE  /\ [AccountNext]_accountVars /\ [RolesNext]_roleVars /\ [GateNext]_gateVars
           /\ [CatalogueNext]_catalogueVars /\ [GalleryNext]_galleryVars
           /\ [AdminNext]_adminVars /\ [ConsoleNext]_consoleVars
           /\ [CommandNext]_commandVars /\ [SiteNext]_siteVars
  BY DEF Step, Others, serviceVars

\* Side by side, and whichever of them takes the next step, each service behaves as it
\* does alone: what is shown of it holds in the process too (one AppModule wires them,
\* app.module.ts).
LEMMA EachAsAlone ==
    Process => /\ AccountSpec /\ RolesSpec /\ GateSpec /\ CatalogueSpec /\ GallerySpec
               /\ AdminSpec /\ ConsoleSpec /\ CommandSpec /\ SiteSpec
<1>1. [Step]_serviceVars => [AccountNext]_accountVars
  BY EachSteps
<1>2. [Step]_serviceVars => [RolesNext]_roleVars
  BY EachSteps
<1>3. [Step]_serviceVars => [GateNext]_gateVars
  BY EachSteps
<1>4. [Step]_serviceVars => [CatalogueNext]_catalogueVars
  BY EachSteps
<1>5. [Step]_serviceVars => [GalleryNext]_galleryVars
  BY EachSteps
<1>6. [Step]_serviceVars => [AdminNext]_adminVars
  BY EachSteps
<1>7. [Step]_serviceVars => [ConsoleNext]_consoleVars
  BY EachSteps
<1>8. [Step]_serviceVars => [CommandNext]_commandVars
  BY EachSteps
<1>9. [Step]_serviceVars => [SiteNext]_siteVars
  BY EachSteps
<1>10. Begin => /\ AccountInit /\ RolesInit /\ GateInit /\ CatalogueInit /\ GalleryInit
                /\ AdminInit /\ ConsoleInit /\ CommandInit /\ SiteInit
  BY DEF Begin
<1> QED
  BY <1>1, <1>2, <1>3, <1>4, <1>5, <1>6, <1>7, <1>8, <1>9, <1>10, PTL
     DEF Process, AccountSpec, RolesSpec, GateSpec, CatalogueSpec, GallerySpec, AdminSpec,
         ConsoleSpec, CommandSpec, SiteSpec

\* What an administrator has saved is in force and stays saved: the matrix, the bot's
\* settings, the rows of the console and the notices that hang on them, for any
\* number of requests and whatever overlaps.
THEOREM SavedStays == Process => []SavedIsInForce
<1>1. ConsoleTypeOK /\ ConsoleHolds /\ AdministrationHolds => SavedIsInForce
  BY DEF SavedIsInForce
<1> QED
  BY <1>1, EachAsAlone, AdministrationSound, ConsoleSound, PTL

\* In the process as a whole no medal or rank that is held is lost to another's edit,
\* and what the gallery shows is whole.
THEOREM HeldInTheProcess == Process => [](EarnedIsKept /\ ShownIsWhole)
<1>1. CatalogueTypeOK /\ EarnedIsKept /\ GalleryTypeOK /\ ShownIsWhole => EarnedIsKept /\ ShownIsWhole
  OBVIOUS
<1> QED
  BY <1>1, EachAsAlone, LadderKept, PicturesKept, PTL

\* And in the process as a whole the public site keeps its promises.
THEOREM ShownInTheProcess == Process => []PublicSiteHolds
<1>1. SiteTypeOK /\ PublicSiteHolds => PublicSiteHolds
  OBVIOUS
<1> QED
  BY <1>1, EachAsAlone, PublicSiteSound, PTL

\* And in the process as a whole an erasure stays, who is banned is out in time, the guild
\* follows the roster, an outage harms nobody, and nobody rises above those who appoint.
THEOREM PeopleInTheProcess ==
    Process => [](/\ ErasureIsFinal /\ ShutOutInTime /\ GuildFollowsRoster
                  /\ OutageIsHarmless /\ CommandStands)
  BY EachAsAlone, ErasedForGood, KeptOut, RolesFollowed, OutageHarmless, ChainOfCommand, PTL

\* What a behaviour is about stays what it is about.
LEMMA FocusStays == Spec => [](focus \in Foci)
<1>1. Init => focus \in Foci
  BY DEF Init
<1>2. focus \in Foci /\ [Next]_backOfficeVars => (focus \in Foci)'
  BY DEF Next, Rest, backOfficeVars
<1> QED
  BY <1>1, <1>2, PTL DEF Spec

\* In the process as a whole every variable keeps its type, whichever service works.
AllTypes == /\ AccountTypeOK /\ RolesTypeOK /\ GateTypeOK /\ CatalogueTypeOK
            /\ GalleryTypeOK /\ AdminTypeOK /\ ConsoleTypeOK /\ CommandTypeOK
            /\ SiteTypeOK

THEOREM AllTyped == Process => []AllTypes
<1>1. AccountInv => AccountTypeOK
  BY AccountImplies
<1>2. AccountTypeOK /\ RolesTypeOK /\ GateTypeOK /\ CatalogueTypeOK /\ GalleryTypeOK
        /\ AdminTypeOK /\ ConsoleTypeOK /\ CommandTypeOK /\ SiteTypeOK
      => AllTypes
  BY DEF AllTypes
<1> QED
  BY <1>1, <1>2, EachAsAlone, AccountKept, RolesFollowed, OutageHarmless, LadderKept,
     PicturesKept, AdministrationSound, ConsoleSound, ChainOfCommand, PublicSiteSound, PTL

\* With one service in focus, its variables keep their types (TypeOK of BackOffice), and
\* every property that the search asks of it holds.
THEOREM OneAtATime ==
    Spec => [](/\ TypeOK /\ ErasureIsFinal /\ ShutOutInTime /\ GuildFollowsRoster
               /\ OutageIsHarmless /\ CommandStands /\ EarnedIsKept /\ ShownIsWhole
               /\ SavedIsInForce /\ PublicSiteHolds)
<1>1. focus \in Foci /\ AllTypes => TypeOK
  BY FociAssumption DEF TypeOK, AllTypes
<1> QED
  BY <1>1, Slice, FocusStays, AllTyped, PeopleInTheProcess, HeldInTheProcess, SavedStays,
     ShownInTheProcess, PTL
================================================================================
