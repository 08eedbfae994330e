-------------------------- MODULE RoleRelink_proofs --------------------------
(***************************************************************************)
(* The bulk re-link (RoleRelink), proved for any number of members, ranks, *)
(* medals, roles, administrators, rows and page sizes.  Ground says what   *)
(* the table and the worker's hand are and what the books hold;            *)
(* NobodySkipped is inductive over it, since a page takes the least        *)
(* holders beyond the cursor; AppliedInv says whose job is behind wears    *)
(* the role; SettledInv that each role of each member is what the roster   *)
(* says, or a request, a cursor or a job is still to settle it.            *)
(***************************************************************************)
EXTENDS RoleRelink, FiniteSetTheorems, TLAPS

RequestType ==
    [step : {"loaded", "saved", "superseded"}, subject : Subjects,
     prev : RoleOrNone, next : RoleOrNone]
MoveType == [step : {"loaded", "saved"}, subject : Subjects, who : Members,
             role : RoleOrNone]
HandType ==
    [row : Nat \ {0}, step : {"expand", "page", "insert", "apply", "scoped", "act",
                              "grant", "done"},
     todo : SUBSET Members, more : Members \cup {0}, want : SUBSET Roles]
UsedType == [relinks : Nat, moves : Nat, throws : Nat, restarts : Nat,
             cancels : Nat, toggles : Nat]

\* What every variable is.
Shapes ==
    /\ link \in [Subjects -> RoleOrNone]
    /\ holders \in [Subjects -> SUBSET Members]
    /\ wears \in [Members -> SUBSET Roles]
    /\ live \in BOOLEAN
    /\ rows \in Seq(RowType)
    /\ due \subseteq Ids
    /\ hand \in HandType \cup {Idle}
    /\ req \in [Admins -> RequestType \cup {NoReq}]
    /\ move \in MoveType \cup {NoMove}
    /\ used \in UsedType
    /\ moved \subseteq Members
    /\ halted \subseteq Ids \X {"operator", "newer run"}
    /\ strayed \subseteq Ids /\ missed \subseteq Subjects

\* A row is of the run its seed began, and about the same.
Kin(i) ==
    /\ rows[i].kind = "scoped" <=> rows[i].batch = 0
    /\ rows[i].kind # "expand" => rows[i].who \in Members
    /\ rows[i].batch # 0 =>
         LET seed == rows[rows[i].batch] IN
         /\ rows[i].batch <= i
         /\ seed.kind = "expand" /\ seed.batch = rows[i].batch
         /\ seed.subject = rows[i].subject /\ seed.skip = rows[i].skip
         /\ seed.out = rows[i].out /\ seed.in = rows[i].in

\* What the worker has in hand is of the kind its step is for.
Fits(h, r) ==
    /\ r.status = "processing"
    /\ h.step \in {"expand", "page", "insert"} => r.kind = "expand"
    /\ h.step = "apply" => r.kind = "apply"
    /\ h.step = "scoped" => r.kind = "scoped"
    /\ h.step = "act" => r.kind # "expand"
    /\ h.step = "grant" => r.kind = "apply" /\ r.in = NoRole
    /\ h.step # "insert" => h.todo = {}
    /\ h.step = "insert" => /\ \A m \in h.todo : m > r.who
                            /\ h.more # 0 => h.more > r.who

HandInv ==
    /\ hand # Idle => hand.row \in Ids /\ Fits(hand, Held)
    /\ \A i \in due : rows[i].status \in {"pending", "cancelled"}

\* What stopped a run is on the books.
StopInv ==
    /\ used.toggles = 0 => live
    /\ \A i \in Ids : rows[i].status = "cancelled" =>
                        rows[i].batch # 0 /\ \E h \in halted : h[1] = rows[i].batch
    /\ \A b \in Batches \ strayed : link[rows[b].subject] = rows[b].in

Ground == Shapes /\ (\A i \in Ids : Kin(i)) /\ HandInv /\ StopInv

\* A member whose job of the run is behind wears its role, and a job that is
\* about to act has seen that the roster wants it so.
AppliedInv ==
    \A b \in Batches : Undisturbed(b) /\ b \notin strayed /\ rows[b].in # NoRole =>
      \A m \in Affected(rows[b].subject, rows[b].skip) \ moved :
        /\ hand.step = "act" /\ Held.who = m /\ rows[b].in \notin hand.want
             => Applies(b) = {}
        /\ \A i \in Applies(b) :
             /\ rows[i].who = m
             /\ rows[i].status = "succeeded" \/ (hand.row = i /\ hand.step = "done")
             => rows[b].in \in wears[m]

\* The worker is not about to act on m and A otherwise than the roster says.
Seen(m, A) ==
    hand.step = "act" /\ Held.who = m /\ A \in Scope(Held)
      => (A \in hand.want <=> A \in Desired(m))
Right(m, A) == (A \in wears[m] <=> A \in Desired(m)) /\ Seen(m, A)

\* Somebody is still to settle whether m wears A.
ByRequest(m, A) ==
    \E a \in Admins : /\ req[a].step \in {"saved", "superseded"}
                      /\ m \in holders[req[a].subject]
                      /\ A \in {req[a].prev, req[a].next} /\ req[a].prev # req[a].next
ByCursor(m, A) ==
    \E i \in Ids : /\ rows[i].kind = "expand" /\ rows[i].status \in {"pending", "processing"}
                   /\ A \in Scope(rows[i])
                   /\ m \in Affected(rows[i].subject, rows[i].skip) /\ m \in Ahead(i)
ByJob(m, A) ==
    \E i \in Ids : /\ rows[i].kind = "apply" /\ rows[i].status \in {"pending", "processing"}
                   /\ rows[i].who = m /\ A \in Scope(rows[i])
                   /\ hand.row = i => hand.step \in {"apply", "act"} /\ Seen(m, A)
Owed(m, A) == ByRequest(m, A) \/ ByCursor(m, A) \/ ByJob(m, A)

Clear == missed = {} /\ used.toggles = 0 /\ \A b \in Batches : Undisturbed(b)
Own(m) == m \in Members \ moved /\ \A a \in Admins : Actor[a] # m
SettledInv == Clear => \A m \in Members : \A A \in Roles : Own(m) => Right(m, A) \/ Owed(m, A)

RelinkInv == Ground /\ NobodySkipped /\ AppliedInv /\ SettledInv

(***************************************************************************)
(* Pages.                                                                  *)
(***************************************************************************)
Less == {p \in Nat \X Nat : p[1] < p[2]}

LEMMA FirstIn == ASSUME NEW S \in SUBSET Nat, S # {}
                 PROVE  First(S) \in S /\ \A n \in S : First(S) <= n
<1>1. OpToRel(<, Nat) = Less
  BY DEF OpToRel, Less
<1>2. \E m \in S : \A n \in S : ~(<<n, m>> \in Less)
  BY <1>1, NatLessThanWellFounded, WFMin
<1>3. \A m, n \in Nat : n < m => <<n, m>> \in Less
  BY DEF Less
<1>4. \A m, n \in Nat : ~(n < m) => m <= n
  OBVIOUS
<1>5. \E m \in S : \A n \in S : m <= n
  BY <1>2, <1>3, <1>4
<1> QED
  BY <1>5 DEF First

\* A finite set has a last element: in a least counterexample, the set without
\* one of its elements has a last one, and the greater of the two is the last of all.
HasLast(S) == \E m \in S : \A n \in S : n <= m

LEMMA FiniteHasLast == ASSUME NEW S \in SUBSET Nat, IsFiniteSet(S), S # {} PROVE HasLast(S)
<1> DEFINE Odd == {k \in Nat : \E T \in SUBSET Nat :
                     IsFiniteSet(T) /\ T # {} /\ Cardinality(T) = k /\ ~HasLast(T)}
<1>1. SUFFICES ASSUME Odd # {} PROVE FALSE
  BY FS_CardinalityType
<1>2. First(Odd) \in Odd /\ \A k \in Odd : First(Odd) <= k
  BY <1>1, FirstIn
<1>3. PICK T \in SUBSET Nat : /\ IsFiniteSet(T) /\ T # {} /\ ~HasLast(T)
                              /\ Cardinality(T) = First(Odd)
  BY <1>2
<1>4. PICK x \in T : TRUE
  BY <1>3
<1>5. T \ {x} # {}
  BY <1>3, <1>4 DEF HasLast
<1>6. IsFiniteSet(T \ {x}) /\ Cardinality(T \ {x}) = First(Odd) - 1
  BY <1>3, <1>4, FS_RemoveElement
<1>7. First(Odd) - 1 \in Nat
  BY <1>6, FS_CardinalityType
<1>8. HasLast(T \ {x})
  <2>1. SUFFICES ASSUME ~HasLast(T \ {x}) PROVE FALSE
    OBVIOUS
  <2>2. First(Odd) - 1 \in Odd
    BY <2>1, <1>5, <1>6, <1>7
  <2>3. First(Odd) \in Nat
    BY <1>2
  <2> HIDE DEF Odd
  <2> QED
    BY <2>2, <2>3, <1>2
<1>9. PICK y \in T \ {x} : \A n \in T \ {x} : n <= y
  BY <1>8 DEF HasLast
<1>10. CASE x <= y
  BY <1>3, <1>4, <1>9, <1>10 DEF HasLast
<1>11. CASE ~(x <= y)
  <2>1. \A n \in T : n <= x
    BY <1>4, <1>9, <1>11
  <2> QED
    BY <1>3, <1>4, <2>1 DEF HasLast
<1> QED
  BY <1>10, <1>11

LEMMA LastIn == ASSUME NEW S \in SUBSET Nat, IsFiniteSet(S), S # {}
                PROVE  Last(S) \in S /\ \A n \in S : n <= Last(S)
  BY FiniteHasLast DEF HasLast, Last

\* The least P of a set, or all of it.
Lowest(B, P) == {m \in B : Cardinality({n \in B : n <= m}) <= P}

LEMMA LowestReach ==
    ASSUME NEW B \in SUBSET Nat, IsFiniteSet(B), NEW P \in Nat \ {0},
           NEW m \in B, m \notin Lowest(B, P)
    PROVE  /\ Cardinality(Lowest(B, P)) = P
           /\ Last(Lowest(B, P)) \in Lowest(B, P) /\ Last(Lowest(B, P)) < m
<1> DEFINE G == Lowest(B, P)
           Up(k) == {n \in B : n <= k}
<1>1. \A k \in B : IsFiniteSet(Up(k)) /\ Cardinality(Up(k)) \in Nat
  <2>1. SUFFICES ASSUME NEW k \in B PROVE IsFiniteSet(Up(k)) /\ Cardinality(Up(k)) \in Nat
    OBVIOUS
  <2>2. Up(k) \in SUBSET B
    OBVIOUS
  <2>3. IsFiniteSet(Up(k))
    BY <2>2, FS_Subset
  <2> QED
    BY <2>3, FS_CardinalityType
<1>2. G \subseteq B /\ IsFiniteSet(G) /\ Cardinality(G) \in Nat
  BY FS_Subset, FS_CardinalityType DEF Lowest
<1>3. \A k \in B : k \in G <=> Cardinality(Up(k)) <= P
  BY DEF Lowest
<1>4. \A j, k \in B : j <= k /\ k \in G => j \in G
  <2>1. SUFFICES ASSUME NEW j \in B, NEW k \in B, j <= k, k \in G PROVE j \in G
    OBVIOUS
  <2>2. Up(j) \in SUBSET Up(k)
    <3>1. SUFFICES ASSUME NEW n \in B, n <= j PROVE n <= k
      OBVIOUS
    <3> QED
      BY <3>1, <2>1
  <2>3. Cardinality(Up(j)) <= Cardinality(Up(k))
    <3> HIDE DEF Up
    <3> QED
      BY <2>2, <1>1, FS_Subset
  <2> HIDE DEF Up
  <2> QED
    BY <2>3, <2>1, <1>1, <1>3
<1>5. B \ G # {} /\ B \ G \in SUBSET Nat
  BY <1>2
<1> DEFINE q == First(B \ G)
<1>6. q \in B /\ q \notin G /\ \A n \in B \ G : q <= n
  BY <1>5, FirstIn
<1> HIDE DEF q, G
<1>20. q \in Nat /\ G \subseteq Nat
  BY <1>6, <1>2
<1>7. \A g \in G : g < q
  <2>1. SUFFICES ASSUME NEW g \in G, ~(g < q) PROVE FALSE
    OBVIOUS
  <2>2. g \in B /\ q <= g
    BY <2>1, <1>2, <1>6, <1>20
  <2> QED
    BY <2>2, <1>6, <1>4
<1>8. Up(q) = G \cup {q}
  <2>1. \A n \in Up(q) : n # q => n \in G
    <3>1. SUFFICES ASSUME NEW n \in B, n <= q, n # q, n \notin G PROVE FALSE
      OBVIOUS
    <3> QED
      BY <3>1, <1>6, <1>20
  <2>2. G \subseteq Up(q) /\ q \in Up(q)
    BY <1>7, <1>20, <1>2, <1>6
  <2> QED
    BY <2>1, <2>2
<1>9. Cardinality(Up(q)) = Cardinality(G) + 1
  <2>1. Cardinality(G \cup {q}) = Cardinality(G) + 1
    BY <1>2, <1>6, FS_AddElement
  <2> QED
    BY <1>8, <2>1
<1>10. ~(Cardinality(Up(q)) <= P)
  BY <1>3, <1>6
<1>11. Cardinality(G) >= P
  BY <1>9, <1>10, <1>2
<1>12. G # {}
  BY <1>11, FS_EmptySet
<1>13. Last(G) \in G /\ \A n \in G : n <= Last(G)
  BY <1>2, <1>12, LastIn
<1>14. Up(Last(G)) = G
  <2>1. G \subseteq Up(Last(G))
    BY <1>13, <1>2
  <2>2. ASSUME NEW n \in B, n <= Last(G) PROVE n \in G
    BY <2>2, <1>13, <1>2, <1>4
  <2> QED
    BY <2>1, <2>2
<1>15. Cardinality(G) <= P
  BY <1>14, <1>13, <1>3, <1>2
<1>16. q <= m
  BY <1>6 DEF G
<1>17. Last(G) < m
  <2>1. Last(G) < q /\ Last(G) \in Nat /\ m \in Nat
    BY <1>13, <1>7, <1>20
  <2> QED
    BY <2>1, <1>16, <1>20
<1> QED
  BY <1>11, <1>15, <1>2, <1>13, <1>17 DEF G

(***************************************************************************)
(* The table.                                                              *)
(***************************************************************************)
\* A step that gives some rows another status.
Restated ==
    /\ rows' \in Seq(RowType) /\ Len(rows') = Len(rows)
    /\ \A i \in Ids : rows'[i] = [rows[i] EXCEPT !.status = rows'[i].status]

\* What a row is but for its status.
Frame(r) == <<r.kind, r.batch, r.subject, r.who, r.out, r.in, r.skip>>

LEMMA TableType == ASSUME Shapes
                   PROVE  rows \in Seq(RowType) /\ Len(rows) \in Nat /\ DOMAIN rows = Ids
<1>1. rows \in Seq(RowType)
  BY DEF Shapes
<1>2. Len(rows) \in Nat /\ DOMAIN rows = 1..Len(rows)
  BY <1>1
<1> QED
  BY <1>1, <1>2 DEF Ids

LEMMA RowFields == ASSUME Shapes, NEW i \in Ids
                   PROVE  /\ rows[i] \in RowType /\ i \in Nat \ {0} /\ i <= Len(rows)
                          /\ rows[i].kind \in {"expand", "apply", "scoped"}
                          /\ rows[i].batch \in Nat /\ rows[i].subject \in Subjects
                          /\ rows[i].who \in Members \cup {0} /\ rows[i].out \in RoleOrNone
                          /\ rows[i].in \in RoleOrNone /\ rows[i].skip \in Members \cup {0}
                          /\ rows[i].status \in Statuses
<1>1. rows \in Seq(RowType) /\ Len(rows) \in Nat
  BY TableType
<1>2. rows[i] \in RowType
  BY <1>1 DEF Ids
<1>3. i \in Nat \ {0} /\ i <= Len(rows)
  BY <1>1 DEF Ids
<1> QED
  BY <1>2, <1>3 DEF RowType

LEMMA RestatedFields ==
    ASSUME Shapes, Restated
    PROVE  /\ Ids' = Ids
           /\ \A i \in Ids : /\ rows'[i].kind = rows[i].kind
                             /\ rows'[i].batch = rows[i].batch
                             /\ rows'[i].subject = rows[i].subject
                             /\ rows'[i].who = rows[i].who
                             /\ rows'[i].out = rows[i].out
                             /\ rows'[i].in = rows[i].in
                             /\ rows'[i].skip = rows[i].skip
           /\ Batches' = Batches
<1>1. Ids' = Ids
  BY DEF Restated, Ids
<1>2. ASSUME NEW i \in Ids
      PROVE  /\ rows'[i].kind = rows[i].kind
             /\ rows'[i].batch = rows[i].batch
             /\ rows'[i].subject = rows[i].subject
             /\ rows'[i].who = rows[i].who
             /\ rows'[i].out = rows[i].out
             /\ rows'[i].in = rows[i].in
             /\ rows'[i].skip = rows[i].skip
  <2>1. PICK s : rows'[i] = [rows[i] EXCEPT !.status = s]
    BY DEF Restated
  <2>2. rows[i] \in RowType
    BY RowFields
  <2> QED
    BY <2>1, <2>2 DEF RowType
<1>3. Batches' = Batches
  BY <1>1, <1>2 DEF Batches
<1> QED
  BY <1>1, <1>2, <1>3

LEMMA RestatedKin == ASSUME Shapes, Restated, \A i \in Ids : Kin(i)
                     PROVE  \A i \in Ids' : Kin(i)'
<1>1. SUFFICES ASSUME NEW i \in Ids PROVE Kin(i)'
  BY RestatedFields
<1>2. rows[i].batch # 0 => rows[i].batch \in Ids
  <2>1. rows[i].batch \in Nat /\ (rows[i].batch # 0 => rows[i].batch <= i)
    BY RowFields DEF Kin
  <2>2. i <= Len(rows) /\ Len(rows) \in Nat /\ i \in Nat
    BY RowFields, TableType
  <2> QED
    BY <2>1, <2>2 DEF Ids
<1> QED
  BY <1>2, RestatedFields DEF Kin

\* One row gets another status.
LEMMA OneRestated ==
    ASSUME Shapes, NEW i \in Ids, NEW s \in Statuses, rows' = [rows EXCEPT ![i].status = s]
    PROVE  /\ Restated /\ rows'[i].status = s
           /\ \A j \in Ids : j # i => rows'[j] = rows[j]
<1>1. rows \in Seq(RowType) /\ DOMAIN rows = Ids /\ Len(rows) \in Nat
  BY TableType
<1>2. rows' = [rows EXCEPT ![i] = [rows[i] EXCEPT !.status = s]]
  BY <1>1
<1>3. [rows[i] EXCEPT !.status = s] \in RowType
  BY RowFields DEF RowType
<1>4. [rows[i] EXCEPT !.status = s].status = s
  BY RowFields DEF RowType
<1>5. rows' \in Seq(RowType) /\ Len(rows') = Len(rows)
  BY <1>1, <1>2, <1>3 DEF Ids
<1>6. \A j \in Ids : j # i => rows'[j] = rows[j]
  BY <1>1, <1>2
<1>7. rows'[i] = [rows[i] EXCEPT !.status = s]
  BY <1>1, <1>2
<1>8. \A j \in Ids : rows'[j] = [rows[j] EXCEPT !.status = rows'[j].status]
  <2>1. SUFFICES ASSUME NEW j \in Ids PROVE rows'[j] = [rows[j] EXCEPT !.status = rows'[j].status]
    OBVIOUS
  <2>2. CASE j = i
    BY <2>2, <1>7, <1>4
  <2>3. CASE j # i
    BY <2>3, <1>6, RowFields DEF RowType
  <2> QED
    BY <2>2, <2>3
<1> QED
  BY <1>4, <1>5, <1>6, <1>7, <1>8 DEF Restated

\* Those of a set that have one status get another.
LEMMA ManyRestated ==
    ASSUME Shapes, NEW S \in SUBSET Ids, NEW s \in Statuses,
           rows' = [i \in Ids |-> IF i \in S THEN [rows[i] EXCEPT !.status = s] ELSE rows[i]]
    PROVE  /\ Restated
           /\ \A i \in Ids : /\ i \in S => rows'[i].status = s
                             /\ i \notin S => rows'[i] = rows[i]
<1>1. rows \in Seq(RowType) /\ Len(rows) \in Nat
  BY TableType
<1>2. ASSUME NEW i \in Ids
      PROVE  /\ rows'[i] \in RowType
             /\ i \in S => rows'[i] = [rows[i] EXCEPT !.status = s] /\ rows'[i].status = s
             /\ i \notin S => rows'[i] = rows[i]
             /\ rows'[i] = [rows[i] EXCEPT !.status = rows'[i].status]
  <2>1. rows[i] \in RowType
    BY RowFields
  <2>2. CASE i \in S
    <3>1. rows'[i] = [rows[i] EXCEPT !.status = s]
      BY <2>2
    <3> QED
      BY <3>1, <2>1, <2>2 DEF RowType
  <2>3. CASE i \notin S
    <3>1. rows'[i] = rows[i]
      BY <2>3
    <3> QED
      BY <3>1, <2>1, <2>3 DEF RowType
  <2> QED
    BY <2>2, <2>3
<1>3. rows' \in Seq(RowType) /\ Len(rows') = Len(rows)
  <2> DEFINE f == [i \in Ids |-> IF i \in S THEN [rows[i] EXCEPT !.status = s] ELSE rows[i]]
  <2>1. rows' = f /\ DOMAIN f = 1..Len(rows) /\ \A i \in 1..Len(rows) : f[i] \in RowType
    BY <1>2 DEF Ids
  <2>2. f \in [1..Len(rows) -> RowType]
    BY <2>1
  <2> HIDE DEF f
  <2>3. f \in Seq(RowType) /\ Len(f) = Len(rows)
    BY <2>2, <1>1
  <2> QED
    BY <2>1, <2>3
<1> QED
  BY <1>2, <1>3 DEF Restated

\* A step that inserts row r, which gets number n.
Grown(n, r) ==
    /\ r \in RowType /\ n \in Nat \ {0} /\ n \notin Ids /\ n = Len(rows) + 1
    /\ \A i \in Ids : i < n
    /\ rows' \in Seq(RowType) /\ Ids' = Ids \cup {n}
    /\ rows'[n] = r /\ \A i \in Ids : rows'[i] = rows[i]

LEMMA Inserted ==
    ASSUME Shapes, NEW r \in RowType, rows' = Append(rows, r)
    PROVE  Grown(Len(rows) + 1, r)
<1>1. rows \in Seq(RowType) /\ Len(rows) \in Nat
  BY TableType
<1>2. Len(rows') = Len(rows) + 1 /\ rows' \in Seq(RowType)
  BY <1>1
<1>3. 1..(Len(rows) + 1) = 1..Len(rows) \cup {Len(rows) + 1}
  BY <1>1
<1> QED
  BY <1>1, <1>2, <1>3 DEF Ids, Grown

LEMMA InsertedKin ==
    ASSUME Shapes, \A i \in Ids : Kin(i), NEW n, NEW r, Grown(n, r),
           r.kind = "scoped" <=> r.batch = 0, r.kind # "expand" => r.who \in Members,
           r.batch # 0 =>
             \/ /\ r.batch \in Ids /\ rows[r.batch].kind = "expand"
                /\ rows[r.batch].batch = r.batch
                /\ rows[r.batch].subject = r.subject /\ rows[r.batch].skip = r.skip
                /\ rows[r.batch].out = r.out /\ rows[r.batch].in = r.in
             \/ r.batch = n /\ r.kind = "expand"
    PROVE  \A i \in Ids' : Kin(i)'
<1>1. /\ Ids' = Ids \cup {n} /\ rows'[n] = r /\ n \notin Ids
      /\ \A i \in Ids : rows'[i] = rows[i]
  BY DEF Grown
<1>2. n \in Nat /\ \A i \in Ids : i < n
  BY RowFields DEF Grown
<1>3. ASSUME NEW i \in Ids PROVE Kin(i)'
  <2>1. rows[i].batch # 0 => rows[i].batch \in Ids
    <3>1. rows[i].batch \in Nat /\ (rows[i].batch # 0 => rows[i].batch <= i)
      BY RowFields DEF Kin
    <3>2. i <= Len(rows) /\ Len(rows) \in Nat /\ i \in Nat
      BY RowFields, TableType
    <3> QED
      BY <3>1, <3>2 DEF Ids
  <2> QED
    <3>1. rows'[i] = rows[i] /\ (rows[i].batch # 0 => rows'[rows[i].batch] = rows[rows[i].batch])
      BY <1>1, <2>1
    <3>2. Kin(i)
      OBVIOUS
    <3>3. /\ rows[i].kind = "scoped" <=> rows[i].batch = 0
          /\ rows[i].kind # "expand" => rows[i].who \in Members
      BY <3>2 DEF Kin
    <3>4. ASSUME rows[i].batch # 0
          PROVE  LET seed == rows[rows[i].batch] IN
                 /\ rows[i].batch <= i
                 /\ seed.kind = "expand" /\ seed.batch = rows[i].batch
                 /\ seed.subject = rows[i].subject /\ seed.skip = rows[i].skip
                 /\ seed.out = rows[i].out /\ seed.in = rows[i].in
      BY <3>2, <3>4 DEF Kin
    <3> QED
      BY <3>1, <3>3, <3>4 DEF Kin
<1>4. Kin(n)'
  <2>1. r.batch \in Ids => r.batch <= n /\ rows'[r.batch] = rows[r.batch]
    <3>1. \A i \in Ids : i \in Nat /\ i < n
      BY RowFields, <1>2
    <3> QED
      BY <3>1, <1>1, <1>2
  <2>2. r.batch = n => r.batch <= n
    BY <1>2
  <2> QED
    <3>1. rows'[n] = r
      BY <1>1
    <3>2. CASE r.batch = 0
      BY <3>1, <3>2 DEF Kin
    <3>3. CASE r.batch # 0 /\ r.batch \in Ids
      BY <3>1, <3>3, <2>1, <1>1 DEF Kin
    <3>4. CASE r.batch = n /\ r.kind = "expand"
      BY <3>1, <3>4, <2>2, <1>2 DEF Kin
    <3> QED
      BY <3>2, <3>3, <3>4
<1> QED
  BY <1>1, <1>3, <1>4

(***************************************************************************)
(* What every variable is.                                                 *)
(***************************************************************************)
LEMMA HandFields ==
    ASSUME Shapes, hand.step # "idle"
    PROVE  /\ hand \in HandType /\ hand # Idle /\ hand.row \in Nat \ {0}
           /\ hand.step \in {"expand", "page", "insert", "apply", "scoped", "act", "grant", "done"}
           /\ hand.todo \in SUBSET Members /\ hand.more \in Members \cup {0}
           /\ hand.want \in SUBSET Roles
<1>1. hand \in HandType \cup {Idle}
  BY DEF Shapes
<1>2. hand # Idle
  BY DEF Idle
<1> QED
  BY <1>1, <1>2 DEF HandType

LEMMA IdleFields == /\ Idle.row = 0 /\ Idle.step = "idle" /\ Idle.todo = {} /\ Idle.more = 0
                    /\ Idle.want = {}
  BY DEF Idle

\* A hand that is not Idle stands somewhere.
LEMMA Busy == ASSUME Shapes, hand # Idle PROVE hand.step # "idle"
<1>1. hand \in HandType
  BY DEF Shapes
<1> QED
  BY <1>1 DEF HandType

LEMMA RequestFields ==
    ASSUME Shapes, NEW a \in Admins, req[a].step # "idle"
    PROVE  /\ req[a] \in RequestType /\ req[a].step \in {"loaded", "saved", "superseded"}
           /\ req[a].subject \in Subjects
           /\ req[a].prev \in RoleOrNone /\ req[a].next \in RoleOrNone
<1>1. req[a] \in RequestType \cup {NoReq}
  BY DEF Shapes
<1>2. req[a] # NoReq
  BY DEF NoReq
<1> QED
  BY <1>1, <1>2 DEF RequestType

LEMMA MoveFields ==
    ASSUME Shapes, move.step # "idle"
    PROVE  /\ move \in MoveType /\ move.step \in {"loaded", "saved"}
           /\ move.subject \in Subjects /\ move.who \in Members /\ move.role \in RoleOrNone
<1>1. move \in MoveType \cup {NoMove}
  BY DEF Shapes
<1>2. move # NoMove
  BY DEF NoMove
<1> QED
  BY <1>1, <1>2 DEF MoveType

Counters == {"relinks", "moves", "throws", "restarts", "cancels", "toggles"}
LEMMA Spent == ASSUME Shapes, NEW w \in Counters, Spend(w)
               PROVE  /\ used' \in UsedType
                      /\ w # "toggles" => used'.toggles = used.toggles
                      /\ w = "toggles" => used'.toggles # 0
<1>1. used \in UsedType
  BY DEF Shapes
<1>2. used.toggles \in Nat
  BY <1>1 DEF UsedType
<1> QED
  BY <1>1, <1>2 DEF Spend, UsedType, Counters

\* Shapes of the variables a step leaves alone, or changes.
LEMMA LoadShapes == ASSUME Shapes, NEW a \in Admins, NEW s \in Subjects, NEW r \in RoleOrNone,
                           Load(a, s, r) PROVE Shapes'
<1> DEFINE q == [step |-> "loaded", subject |-> s, prev |-> link[s], next |-> r]
<1>1. link[s] \in RoleOrNone
  BY DEF Shapes
<1>2. q \in RequestType
  BY <1>1 DEF RequestType
<1>3. req' = [req EXCEPT ![a] = q]
  BY DEF Load
<1> HIDE DEF q
<1>4. req' \in [Admins -> RequestType \cup {NoReq}]
  BY <1>2, <1>3 DEF Shapes
<1>5. used' \in UsedType
  BY Spent DEF Load, Counters
<1> QED
  BY <1>4, <1>5 DEF Shapes, Load, catalogue, worker, history, detours, Ids

LEMMA StepSet ==
    ASSUME Shapes, NEW a \in Admins, req[a].step # "idle",
           NEW t \in {"loaded", "saved", "superseded"}, req' = [req EXCEPT ![a].step = t]
    PROVE  /\ req' \in [Admins -> RequestType \cup {NoReq}]
           /\ req'[a].step = t /\ req'[a].subject = req[a].subject
           /\ req'[a].prev = req[a].prev /\ req'[a].next = req[a].next
           /\ \A c \in Admins : c # a => req'[c] = req[c]
<1>1. req[a] \in RequestType /\ req \in [Admins -> RequestType \cup {NoReq}]
  BY RequestFields DEF Shapes
<1>2. PICK q : q = [req[a] EXCEPT !.step = t]
  OBVIOUS
<1>3. /\ q \in RequestType /\ q.step = t /\ q.subject = req[a].subject
      /\ q.prev = req[a].prev /\ q.next = req[a].next
  BY <1>1, <1>2 DEF RequestType
<1>4. req' = [req EXCEPT ![a] = q]
  BY <1>1, <1>2
<1>5. req'[a] = q /\ \A c \in Admins : c # a => req'[c] = req[c]
  BY <1>4, <1>1
<1>6. req' \in [Admins -> RequestType \cup {NoReq}]
  BY <1>4, <1>1, <1>3
<1> QED
  BY <1>3, <1>5, <1>6

LEMMA SaveShapes == ASSUME Shapes, NEW a \in Admins, SaveLink(a) PROVE Shapes'
<1>1. req[a].step # "idle"
  BY DEF SaveLink
<1>2. req' \in [Admins -> RequestType \cup {NoReq}]
  BY <1>1, StepSet DEF SaveLink
<1>3. link' \in [Subjects -> RoleOrNone]
  BY <1>1, RequestFields DEF SaveLink, Shapes
<1>4. strayed' \subseteq Ids /\ missed' \subseteq Subjects
  BY <1>1, RequestFields DEF SaveLink, Shapes, Batches
<1> QED
  BY <1>2, <1>3, <1>4 DEF Shapes, SaveLink, worker, Ids

LEMMA DropShapes == ASSUME Shapes, NEW a \in Admins, DropRelink(a) PROVE Shapes'
  BY DEF Shapes, DropRelink, catalogue, worker, history, detours, Ids

LEMMA CancelledRows ==
    ASSUME Shapes, NEW S \in SUBSET Ids, CancelRows(S)
    PROVE  /\ Restated
           /\ \A i \in Ids : IF i \in S /\ rows[i].status = "pending"
                             THEN rows'[i].status = "cancelled" ELSE rows'[i] = rows[i]
<1> DEFINE P == InState(S, "pending")
<1>1. P \in SUBSET Ids
  BY DEF InState
<1>2. rows' = [i \in Ids |-> IF i \in P THEN [rows[i] EXCEPT !.status = "cancelled"] ELSE rows[i]]
  BY DEF CancelRows
<1>3. \A i \in Ids : i \in P <=> i \in S /\ rows[i].status = "pending"
  BY DEF InState
<1>4. "cancelled" \in Statuses
  BY DEF Statuses
<1> HIDE DEF P
<1>5. Restated /\ \A i \in Ids : /\ i \in P => rows'[i].status = "cancelled"
                                 /\ i \notin P => rows'[i] = rows[i]
  BY <1>1, <1>2, <1>4, ManyRestated
<1> QED
  BY <1>3, <1>5

LEMMA SupersedeShapes == ASSUME Shapes, NEW a \in Admins, SupersedeBatches(a) PROVE Shapes'
<1>1. req[a].step # "idle"
  BY DEF SupersedeBatches
<1>2. req' \in [Admins -> RequestType \cup {NoReq}]
  BY <1>1, StepSet DEF SupersedeBatches
<1>3. UNION {Of(b) : b \in Superseded(a)} \in SUBSET Ids
  BY DEF Of
<1>4. Restated
  BY <1>3, CancelledRows DEF SupersedeBatches
<1>5. rows' \in Seq(RowType) /\ Ids' = Ids
  BY <1>4, RestatedFields DEF Restated
<1>6. halted' \subseteq Ids \X {"operator", "newer run"}
  <2>1. Superseded(a) \subseteq Ids
    BY DEF Superseded, Batches
  <2>2. {<<b, "newer run">> : b \in Superseded(a)} \subseteq Ids \X {"operator", "newer run"}
    <3>1. \A b \in Superseded(a) : <<b, "newer run">> \in Ids \X {"operator", "newer run"}
      BY <2>1
    <3> QED
      BY <3>1
  <2>3. halted' = halted \cup {<<b, "newer run">> : b \in Superseded(a)}
    BY DEF SupersedeBatches
  <2>4. halted \subseteq Ids \X {"operator", "newer run"}
    BY DEF Shapes
  <2> QED
    BY <2>2, <2>3, <2>4
<1> QED
  BY <1>2, <1>5, <1>6 DEF Shapes, SupersedeBatches, catalogue, worker, detours

LEMMA NewRun == ASSUME Shapes, NEW a \in Admins, QueueRelink(a)
                PROVE  /\ Len(rows) + 1 \in Nat
                       /\ Grown(Len(rows) + 1,
                                Row("expand", Len(rows) + 1, req[a].subject, 0, req[a].prev,
                                    req[a].next, Actor[a]))
<1>1. req[a].step # "idle"
  BY DEF QueueRelink
<1>2. Len(rows) + 1 \in Nat
  BY TableType
<1>3. Actor[a] \in Members \cup {0}
  BY ConstantsAssumption
<1>4. Row("expand", Len(rows) + 1, req[a].subject, 0, req[a].prev, req[a].next, Actor[a]) \in RowType
  BY <1>1, <1>2, <1>3, RequestFields DEF Row, RowType, Statuses
<1>5. rows' = Append(rows, Row("expand", Len(rows) + 1, req[a].subject, 0, req[a].prev,
                               req[a].next, Actor[a]))
  BY DEF QueueRelink
<1> QED
  BY <1>2, <1>4, <1>5, Inserted

LEMMA QueueShapes == ASSUME Shapes, NEW a \in Admins, QueueRelink(a) PROVE Shapes'
<1>1. PICK n, r : Grown(n, r) /\ n = Len(rows) + 1
  BY NewRun
<1>2. rows' \in Seq(RowType) /\ Ids' = Ids \cup {n}
  BY <1>1 DEF Grown
<1>3. req' \in [Admins -> RequestType \cup {NoReq}]
  BY DEF QueueRelink, Shapes
<1>4. strayed' \subseteq Ids'
  <2>1. strayed' \subseteq strayed \cup {n}
    BY <1>1 DEF QueueRelink
  <2> QED
    BY <2>1, <1>2 DEF Shapes
<1> QED
  BY <1>2, <1>3, <1>4 DEF Shapes, QueueRelink, catalogue, worker

LEMMA LoadMoveShapes == ASSUME Shapes, NEW m \in Members, NEW s \in Subjects, LoadMove(m, s)
                        PROVE Shapes'
<1>1. link[s] \in RoleOrNone
  BY DEF Shapes
<1>2. move' \in MoveType
  BY <1>1 DEF LoadMove, MoveType
<1>3. used' \in UsedType
  BY Spent DEF LoadMove, Counters
<1> QED
  BY <1>2, <1>3 DEF Shapes, LoadMove, catalogue, worker, history, detours, Ids

LEMMA SaveMoveShapes == ASSUME Shapes, SaveMove PROVE Shapes'
<1>1. move.step # "idle"
  BY DEF SaveMove
<1>2. move \in MoveType /\ move.subject \in Subjects /\ move.who \in Members
  BY <1>1, MoveFields
<1>3. move' \in MoveType
  BY <1>2 DEF SaveMove, MoveType
<1>4. holders' \in [Subjects -> SUBSET Members]
  BY <1>2 DEF SaveMove, Shapes
<1>5. moved' \subseteq Members
  BY <1>2 DEF SaveMove, Shapes
<1> QED
  BY <1>3, <1>4, <1>5 DEF Shapes, SaveMove, worker, detours, Ids

\* A rank change queues nothing, or a job of no run.
LEMMA MoveQueued ==
    ASSUME Shapes, QueueMove
    PROVE  \/ rows' = rows
           \/ \E n : Grown(n, Row("scoped", 0, move.subject, move.who, move.role, NoRole, 0))
<1>1. move.step # "idle"
  BY DEF QueueMove
<1>2. CASE live /\ move.role # NoRole
  <2>1. Row("scoped", 0, move.subject, move.who, move.role, NoRole, 0) \in RowType
    BY <1>1, MoveFields DEF Row, RowType, Statuses, RoleOrNone
  <2>2. rows' = Append(rows, Row("scoped", 0, move.subject, move.who, move.role, NoRole, 0))
    BY <1>2 DEF QueueMove
  <2> QED
    BY <2>1, <2>2, Inserted
<1>3. CASE ~(live /\ move.role # NoRole)
  BY <1>3 DEF QueueMove
<1> QED
  BY <1>2, <1>3

\* Shapes, when a row was inserted, or some have another status.
LEMMA GrownShapes ==
    ASSUME Shapes, NEW n, NEW r, Grown(n, r),
           UNCHANGED <<link, holders, wears, live, due, used, moved, halted, strayed, missed>>,
           hand' \in HandType \cup {Idle}, req' \in [Admins -> RequestType \cup {NoReq}],
           move' \in MoveType \cup {NoMove}
    PROVE  Shapes'
  BY DEF Shapes, Grown

LEMMA QueueMoveShapes == ASSUME Shapes, QueueMove PROVE Shapes'
<1>1. /\ UNCHANGED <<link, holders, wears, live, due, hand, req, used, moved, halted, strayed, missed>>
      /\ move' = NoMove
  BY DEF QueueMove, catalogue, worker, history, detours
<1>2. CASE rows' = rows
  BY <1>1, <1>2 DEF Shapes, Ids
<1>3. ASSUME NEW n, Grown(n, Row("scoped", 0, move.subject, move.who, move.role, NoRole, 0))
      PROVE  Shapes'
  <2>1. PICK r : Grown(n, r)
    BY <1>3
  <2>2. hand' \in HandType \cup {Idle} /\ req' \in [Admins -> RequestType \cup {NoReq}]
    BY <1>1 DEF Shapes
  <2> QED
    BY <1>1, <2>1, <2>2, GrownShapes
<1> QED
  BY <1>2, <1>3, MoveQueued

LEMMA ToggleShapes == ASSUME Shapes, Toggle PROVE Shapes'
<1>1. used' \in UsedType
  BY Spent DEF Toggle, Counters
<1> QED
  BY <1>1 DEF Shapes, Toggle, catalogue, worker, history, detours, Ids

LEMMA CancelShapes == ASSUME Shapes, NEW b \in Batches, Cancel(b) PROVE Shapes'
<1>1. used' \in UsedType
  BY Spent DEF Cancel, Counters
<1>2. Of(b) \in SUBSET Ids /\ b \in Ids
  BY DEF Of, Batches
<1>3. Restated
  BY <1>2, CancelledRows DEF Cancel
<1>4. rows' \in Seq(RowType) /\ Ids' = Ids
  BY <1>3, RestatedFields DEF Restated
<1>5. halted' \subseteq halted \cup {<<b, "operator">>}
  BY DEF Cancel
<1>6. halted' \subseteq Ids \X {"operator", "newer run"}
  <2>1. <<b, "operator">> \in Ids \X {"operator", "newer run"}
    BY <1>2
  <2>2. halted \subseteq Ids \X {"operator", "newer run"}
    BY DEF Shapes
  <2> QED
    BY <2>1, <2>2, <1>5
<1> QED
  BY <1>1, <1>4, <1>6 DEF Shapes, Cancel, catalogue, worker, detours

LEMMA TickShapes == ASSUME Shapes, Tick PROVE Shapes'
<1>1. due' \subseteq Ids
  BY DEF Tick, InState
<1> QED
  BY <1>1 DEF Shapes, Tick, catalogue, history, detours, Ids

\* The row that was taken, and the hand it is in.
LEMMA Claimed ==
    ASSUME Shapes, NEW i \in due, Claim(i)
    PROVE  /\ i \in Ids /\ Restated /\ rows'[i].status = "processing"
           /\ \A j \in Ids : j # i => rows'[j] = rows[j]
           /\ hand' \in HandType /\ hand'.row = i /\ hand'.step = rows[i].kind
           /\ hand'.todo = {} /\ hand'.more = 0 /\ hand'.want = {}
<1>1. i \in Ids
  BY DEF Shapes
<1>2. /\ Restated /\ rows'[i].status = "processing"
      /\ \A j \in Ids : j # i => rows'[j] = rows[j]
  BY <1>1, OneRestated DEF Claim, Statuses
<1>3. hand' = [row |-> i, step |-> rows[i].kind, todo |-> {}, more |-> 0, want |-> {}]
  BY DEF Claim, Idle
<1>4. i \in Nat \ {0} /\ rows[i].kind \in {"expand", "apply", "scoped"}
  BY <1>1, RowFields
<1>5. hand' \in HandType
  BY <1>3, <1>4 DEF HandType
<1> QED
  BY <1>1, <1>2, <1>3, <1>5

LEMMA ClaimShapes == ASSUME Shapes, NEW i \in due, Claim(i) PROVE Shapes'
<1>1. rows' \in Seq(RowType) /\ Ids' = Ids
  BY Claimed, RestatedFields DEF Restated
<1>2. hand' \in HandType
  BY Claimed
<1>3. due' \subseteq due
  BY DEF Claim
<1> QED
  BY <1>1, <1>2, <1>3 DEF Shapes, Claim, catalogue, history, detours

LEMMA HeldRow ==
    ASSUME Shapes, HandInv, hand.step # "idle"
    PROVE  /\ hand.row \in Ids /\ Held.status = "processing" /\ Held \in RowType
           /\ Held.who \in Nat
<1>1. hand # Idle
  BY IdleFields
<1>2. hand.row \in Ids /\ Held.status = "processing"
  BY <1>1 DEF HandInv, Fits
<1>3. Held \in RowType /\ Held.who \in Members \cup {0}
  BY <1>2, RowFields DEF Held
<1>4. Members \subseteq Nat
  BY ConstantsAssumption
<1>5. Held.who \in Nat
  <2>1. PICK w : w = Held.who
    OBVIOUS
  <2>2. w \in Members \cup {0}
    BY <1>3, <2>1
  <2>3. w \in Nat
    BY <1>4, <2>2
  <2> QED
    BY <2>1, <2>3
<1> QED
  BY <1>2, <1>3, <1>5

\* A page is beyond the cursor, and the next cursor beyond that; whoever is beyond the
\* cursor is on the page or beyond the next one.
LEMMA PageReaches ==
    ASSUME Shapes, HandInv, hand.step = "page"
    PROVE  /\ Page \in SUBSET Members /\ NextCursor \in Members \cup {0}
           /\ \A m \in Page : m > Held.who
           /\ NextCursor # 0 => NextCursor > Held.who
           /\ \A m \in Affected(Held.subject, Held.skip) :
                m > Held.who => m \in Page \/ (NextCursor # 0 /\ m > NextCursor)
<1>1. Held \in RowType /\ Held.who \in Nat /\ Held.subject \in Subjects
  BY HeldRow DEF RowType
<1>2. Beyond \in SUBSET Members /\ (\A m \in Beyond : m > Held.who)
  <2>1. holders[Held.subject] \in SUBSET Members
    BY <1>1 DEF Shapes
  <2> QED
    BY <2>1 DEF Beyond, Affected
<1>3. Members \in SUBSET Nat /\ 0 \notin Members /\ IsFiniteSet(Members) /\ PageSize \in Nat \ {0}
  BY ConstantsAssumption
<1>4. IsFiniteSet(Beyond) /\ Beyond \in SUBSET Nat
  BY <1>2, <1>3, FS_Subset
<1>5. Page = Lowest(Beyond, PageSize)
  BY DEF Page, Lowest
<1>6. Page \in SUBSET Beyond
  BY DEF Page
<1>7. IsFiniteSet(Page)
  BY <1>4, <1>6, FS_Subset
<1>8. Cardinality(Page) = PageSize => NextCursor \in Page /\ NextCursor # 0
  <2>1. SUFFICES ASSUME Cardinality(Page) = PageSize PROVE Last(Page) \in Page /\ Last(Page) # 0
    BY DEF NextCursor
  <2>2. Page # {}
    BY <2>1, <1>3, FS_EmptySet
  <2>3. Last(Page) \in Page
    BY <2>2, <1>4, <1>6, <1>7, LastIn
  <2> QED
    BY <2>3, <1>6, <1>2, <1>3
<1>9. Cardinality(Page) # PageSize => NextCursor = 0
  BY DEF NextCursor
<1>10. ASSUME NEW m \in Beyond, m \notin Page
       PROVE  NextCursor # 0 /\ m > NextCursor
  <2>1. Cardinality(Page) = PageSize /\ Last(Page) < m
    BY <1>3, <1>4, <1>5, <1>10, LowestReach
  <2>2. NextCursor = Last(Page) /\ NextCursor # 0 /\ NextCursor \in Page
    BY <2>1, <1>8 DEF NextCursor
  <2> QED
    BY <2>1, <2>2, <1>4, <1>6
<1>11. \A m \in Affected(Held.subject, Held.skip) : m > Held.who => m \in Beyond
  BY DEF Beyond
<1> QED
  BY <1>2, <1>6, <1>8, <1>9, <1>10, <1>11

\* A step of the worker that only moves the hand on.
LEMMA Stepped ==
    ASSUME Shapes, hand.step # "idle", NEW t \in HandType, hand' = t,
           UNCHANGED <<link, holders, wears, live, rows, due, req, move, used, moved, halted,
                       strayed, missed>>
    PROVE  Shapes'
  BY DEF Shapes, Ids

LEMMA HandStep ==
    ASSUME Shapes, hand.step # "idle",
           NEW t \in {"expand", "page", "insert", "apply", "scoped", "act", "grant", "done"}
    PROVE  LET h == [hand EXCEPT !.step = t] IN
           /\ h \in HandType /\ h.row = hand.row /\ h.step = t /\ h.todo = hand.todo
           /\ h.more = hand.more /\ h.want = hand.want
<1>1. hand \in HandType
  BY HandFields
<1> QED
  BY <1>1 DEF HandType

LEMMA CheckShapes == ASSUME Shapes, CheckExpand PROVE Shapes'
<1>1. hand.step # "idle"
  BY DEF CheckExpand
<1>2. PICK t \in {"done", "page"} : hand' = [hand EXCEPT !.step = t]
  BY DEF CheckExpand
<1>3. hand' \in HandType
  BY <1>1, <1>2, HandStep
<1> QED
  BY <1>3 DEF Shapes, CheckExpand, catalogue, history, detours, Ids

LEMMA ReadFields ==
    ASSUME Shapes, HandInv, ReadPage
    PROVE  /\ hand' \in HandType /\ hand'.row = hand.row /\ hand'.step = "insert"
           /\ hand'.todo = Page /\ hand'.more = NextCursor
<1>1. hand.step = "page" /\ hand.step # "idle"
  BY DEF ReadPage
<1>2. Page \in SUBSET Members /\ NextCursor \in Members \cup {0}
  BY <1>1, PageReaches
<1>3. hand \in HandType
  BY <1>1, HandFields
<1>4. PICK P, N : P = Page /\ N = NextCursor
  OBVIOUS
<1>5. hand' = [hand EXCEPT !.step = "insert", !.todo = P, !.more = N]
  BY <1>4 DEF ReadPage
<1>6. P \in SUBSET Members /\ N \in Members \cup {0}
  BY <1>2, <1>4
<1>7. /\ hand' \in HandType /\ hand'.row = hand.row /\ hand'.step = "insert"
      /\ hand'.todo = P /\ hand'.more = N
  BY <1>3, <1>5, <1>6 DEF HandType
<1> QED
  BY <1>7, <1>4

LEMMA ReadShapes == ASSUME Shapes, HandInv, ReadPage PROVE Shapes'
  BY ReadFields DEF Shapes, ReadPage, catalogue, history, detours, Ids

\* A job for one more of the page; and the cursor of the next.
Apply == Row("apply", Held.batch, Held.subject, First(hand.todo), Held.out, Held.in, Held.skip)
Cursor == Row("expand", Held.batch, Held.subject, hand.more, Held.out, Held.in, Held.skip)

LEMMA ApplyFields ==
    ASSUME Shapes, HandInv, InsertApply
    PROVE  /\ First(hand.todo) \in hand.todo /\ First(hand.todo) \in Members
           /\ Apply \in RowType /\ Grown(Len(rows) + 1, Apply)
           /\ hand' \in HandType /\ hand'.row = hand.row /\ hand'.step = "insert"
           /\ hand'.todo = hand.todo \ {First(hand.todo)} /\ hand'.more = hand.more
<1>1. hand.step = "insert" /\ hand.step # "idle" /\ hand.todo # {}
  BY DEF InsertApply
<1>2. hand \in HandType /\ hand.todo \in SUBSET Members
  BY <1>1, HandFields
<1>3. Members \in SUBSET Nat
  BY ConstantsAssumption
<1>4. First(hand.todo) \in hand.todo
  BY <1>1, <1>2, <1>3, FirstIn
<1>5. PICK f : f = First(hand.todo)
  OBVIOUS
<1>6. f \in hand.todo /\ f \in Members
  BY <1>4, <1>5, <1>2
<1>7. Held \in RowType
  BY <1>1, HeldRow
<1>8. Apply \in RowType
  BY <1>7, <1>5, <1>6 DEF Apply, Row, RowType, Statuses
<1>9. rows' = Append(rows, Apply)
  BY DEF InsertApply, Apply
<1>10. Grown(Len(rows) + 1, Apply)
  BY <1>8, <1>9, Inserted
<1>11. hand' = [hand EXCEPT !.todo = hand.todo \ {f}]
  BY <1>2, <1>5 DEF InsertApply
<1>12. hand.todo \ {f} \in SUBSET Members
  BY <1>2
<1>13. /\ hand' \in HandType /\ hand'.row = hand.row /\ hand'.step = "insert"
       /\ hand'.todo = hand.todo \ {f} /\ hand'.more = hand.more
  BY <1>1, <1>2, <1>11, <1>12 DEF HandType
<1> QED
  BY <1>4, <1>2, <1>5, <1>8, <1>10, <1>13

LEMMA ApplyShapes == ASSUME Shapes, HandInv, InsertApply PROVE Shapes'
<1>1. PICK n, r : Grown(n, r)
  BY ApplyFields
<1>2. hand' \in HandType \cup {Idle}
  BY ApplyFields
<1>3. UNCHANGED <<link, holders, wears, live, due, req, move, used, moved, halted, strayed, missed>>
  BY DEF InsertApply, catalogue, history, detours
<1>4. req' \in [Admins -> RequestType \cup {NoReq}] /\ move' \in MoveType \cup {NoMove}
  BY <1>3 DEF Shapes
<1> QED
  BY <1>1, <1>2, <1>3, <1>4, GrownShapes

LEMMA CursorFields ==
    ASSUME Shapes, HandInv, InsertCursor
    PROVE  /\ hand.more = 0 => rows' = rows
           /\ hand.more # 0 => Cursor \in RowType /\ Grown(Len(rows) + 1, Cursor)
           /\ hand' \in HandType /\ hand'.row = hand.row /\ hand'.step = "done"
           /\ hand'.todo = {} /\ hand'.more = hand.more
<1>1. hand.step = "insert" /\ hand.step # "idle" /\ hand.todo = {}
  BY DEF InsertCursor
<1>2. hand \in HandType /\ hand.more \in Members \cup {0}
  BY <1>1, HandFields
<1>3. Held \in RowType
  BY <1>1, HeldRow
<1>4. hand' = [hand EXCEPT !.step = "done"]
  BY DEF InsertCursor
<1>5. /\ hand' \in HandType /\ hand'.row = hand.row /\ hand'.step = "done"
      /\ hand'.todo = {} /\ hand'.more = hand.more
  BY <1>1, <1>2, <1>4 DEF HandType
<1>6. ASSUME hand.more # 0 PROVE Cursor \in RowType /\ Grown(Len(rows) + 1, Cursor)
  <2>1. Cursor \in RowType
    BY <1>2, <1>3 DEF Cursor, Row, RowType, Statuses
  <2>2. rows' = Append(rows, Cursor)
    BY <1>6 DEF InsertCursor, Cursor
  <2> QED
    BY <2>1, <2>2, Inserted
<1>7. hand.more = 0 => rows' = rows
  BY DEF InsertCursor
<1> QED
  BY <1>5, <1>6, <1>7

LEMMA CursorShapes == ASSUME Shapes, HandInv, InsertCursor PROVE Shapes'
<1>1. hand' \in HandType \cup {Idle}
  BY CursorFields
<1>2. UNCHANGED <<link, holders, wears, live, due, req, move, used, moved, halted, strayed, missed>>
  BY DEF InsertCursor, catalogue, history, detours
<1>3. req' \in [Admins -> RequestType \cup {NoReq}] /\ move' \in MoveType \cup {NoMove}
  BY <1>2 DEF Shapes
<1>4. CASE hand.more = 0
  <2>1. rows' = rows
    BY <1>4, CursorFields
  <2> QED
    BY <2>1, <1>1, <1>2 DEF Shapes, Ids
<1>5. CASE hand.more # 0
  <2>1. PICK n, r : Grown(n, r)
    BY <1>5, CursorFields
  <2> QED
    BY <2>1, <1>1, <1>2, <1>3, GrownShapes
<1> QED
  BY <1>4, <1>5

LEMMA DesiredType == ASSUME Shapes, NEW m PROVE Desired(m) \in SUBSET Roles
<1>1. \A s \in Subjects : link[s] \in Roles \cup {NoRole}
  BY DEF Shapes, RoleOrNone
<1> QED
  BY <1>1 DEF Desired

LEMMA DecideFields ==
    ASSUME Shapes, HandInv, Decide
    PROVE  /\ hand' \in HandType /\ hand'.row = hand.row
           /\ hand'.todo = hand.todo /\ hand'.more = hand.more
           /\ live => hand'.step = "act" /\ hand'.want = Desired(Held.who)
           /\ ~live => hand'.step = "done"
<1>1. hand.step # "idle"
  BY DEF Decide
<1>2. hand \in HandType
  BY <1>1, HandFields
<1>3. PICK D : D = Desired(Held.who)
  OBVIOUS
<1>4. D \in SUBSET Roles
  BY <1>3, DesiredType
<1>5. CASE live
  <2>1. hand' = [hand EXCEPT !.step = "act", !.want = D]
    BY <1>3, <1>5 DEF Decide
  <2> QED
    BY <2>1, <1>2, <1>4, <1>3, <1>5 DEF HandType
<1>6. CASE ~live
  <2>1. hand' = [hand EXCEPT !.step = "done"]
    BY <1>6 DEF Decide
  <2> QED
    BY <2>1, <1>2, <1>6 DEF HandType
<1> QED
  BY <1>5, <1>6

LEMMA DecideShapes == ASSUME Shapes, HandInv, Decide PROVE Shapes'
  BY DecideFields DEF Shapes, Decide, catalogue, history, detours, Ids

LEMMA ScopeType == ASSUME NEW r \in RowType PROVE Scope(r) \in SUBSET Roles
  BY DEF Scope, RowType, RoleOrNone

\* What acting on a member who is not excluded does to the roles they wear.
LEMMA ActFields ==
    ASSUME Shapes, (\A i \in Ids : Kin(i)), HandInv, Act
    PROVE  /\ Held.who \in Members
           /\ wears' \in [Members -> SUBSET Roles]
           /\ wears'[Held.who] = (wears[Held.who] \ (Scope(Held) \ hand.want))
                                   \cup (Scope(Held) \cap hand.want)
           /\ \A m \in Members : m # Held.who => wears'[m] = wears[m]
           /\ hand' \in HandType /\ hand'.row = hand.row
           /\ hand'.todo = hand.todo /\ hand'.more = hand.more
           /\ IF Held.kind = "apply" /\ Held.in = NoRole
              THEN hand'.step = "grant" ELSE hand'.step = "done"
<1>1. hand.step = "act" /\ hand.step # "idle" /\ hand # Idle
  BY IdleFields DEF Act
<1>2. hand \in HandType /\ hand.want \in SUBSET Roles
  BY <1>1, HandFields
<1>3. hand.row \in Ids /\ Held \in RowType /\ Held.kind # "expand"
  BY <1>1, HeldRow DEF HandInv, Fits
<1>4. Held.who \in Members
  BY <1>3 DEF Kin, Held
<1>5. Scope(Held) \in SUBSET Roles
  BY <1>3, ScopeType
<1>6. wears \in [Members -> SUBSET Roles]
  BY DEF Shapes
<1>7. PICK W : W = (wears[Held.who] \ (Scope(Held) \ hand.want)) \cup (Scope(Held) \cap hand.want)
  OBVIOUS
<1>8. W \in SUBSET Roles
  BY <1>7, <1>6, <1>5, <1>4, <1>2
<1>9. wears' = [wears EXCEPT ![Held.who] = W]
  BY <1>4, <1>6, <1>7 DEF Act, Converge
<1>10. /\ wears' \in [Members -> SUBSET Roles] /\ wears'[Held.who] = W
       /\ \A m \in Members : m # Held.who => wears'[m] = wears[m]
  BY <1>9, <1>8, <1>6, <1>4
<1>11. PICK t \in {"grant", "done"} :
         /\ hand' = [hand EXCEPT !.step = t]
         /\ t = IF Held.kind = "apply" /\ Held.in = NoRole THEN "grant" ELSE "done"
  BY DEF Act
<1>12. /\ hand' \in HandType /\ hand'.row = hand.row /\ hand'.step = t
       /\ hand'.todo = hand.todo /\ hand'.more = hand.more
  BY <1>11, <1>2 DEF HandType
<1> QED
  BY <1>4, <1>10, <1>7, <1>11, <1>12

LEMMA ActShapes == ASSUME Shapes, (\A i \in Ids : Kin(i)), HandInv, Act PROVE Shapes'
<1>1. wears' \in [Members -> SUBSET Roles] /\ hand' \in HandType
  BY ActFields
<1> QED
  BY <1>1 DEF Shapes, Act, catalogue, history, detours, Ids

LEMMA GrantFields ==
    ASSUME Shapes, (\A i \in Ids : Kin(i)), HandInv, Grant
    PROVE  /\ Held.who \in Members /\ Held.kind = "apply" /\ Held.in = NoRole
           /\ wears' \in [Members -> SUBSET Roles]
           /\ wears'[Held.who] = wears[Held.who] \cup Desired(Held.who)
           /\ \A m \in Members : m # Held.who => wears'[m] = wears[m]
           /\ hand' \in HandType /\ hand'.row = hand.row /\ hand'.step = "done"
           /\ hand'.todo = hand.todo /\ hand'.more = hand.more
<1>1. hand.step = "grant" /\ hand.step # "idle" /\ hand # Idle
  BY IdleFields DEF Grant
<1>2. hand \in HandType
  BY <1>1, HandFields
<1>3. hand.row \in Ids /\ Held.kind = "apply" /\ Held.in = NoRole
  BY <1>1, HeldRow DEF HandInv, Fits
<1>4. Held.who \in Members
  BY <1>3 DEF Kin, Held
<1>5. wears \in [Members -> SUBSET Roles]
  BY DEF Shapes
<1>6. PICK W : W = wears[Held.who] \cup Desired(Held.who)
  OBVIOUS
<1>7. W \in SUBSET Roles
  BY <1>6, <1>5, <1>4, DesiredType
<1>8. wears' = [wears EXCEPT ![Held.who] = W]
  BY <1>4, <1>5, <1>6 DEF Grant
<1>9. /\ wears' \in [Members -> SUBSET Roles] /\ wears'[Held.who] = W
      /\ \A m \in Members : m # Held.who => wears'[m] = wears[m]
  BY <1>8, <1>7, <1>5, <1>4
<1>10. hand' = [hand EXCEPT !.step = "done"]
  BY DEF Grant
<1>11. /\ hand' \in HandType /\ hand'.row = hand.row /\ hand'.step = "done"
       /\ hand'.todo = hand.todo /\ hand'.more = hand.more
  BY <1>10, <1>2 DEF HandType
<1> QED
  BY <1>3, <1>4, <1>6, <1>9, <1>11

LEMMA GrantShapes == ASSUME Shapes, (\A i \in Ids : Kin(i)), HandInv, Grant PROVE Shapes'
<1>1. wears' \in [Members -> SUBSET Roles] /\ hand' \in HandType
  BY GrantFields
<1> QED
  BY <1>1 DEF Shapes, Grant, catalogue, history, detours, Ids

\* The row in hand gets another status and is put down.
LEMMA PutDown ==
    ASSUME Shapes, HandInv, Finish \/ Throw
    PROVE  /\ hand.step # "idle" /\ hand.row \in Ids /\ Restated /\ hand' = Idle
           /\ \A j \in Ids : j # hand.row => rows'[j] = rows[j]
           /\ Finish => rows'[hand.row].status = "succeeded"
           /\ Throw => rows'[hand.row].status \in {"pending", "failed"}
<1>1. hand.step # "idle" /\ hand' = Idle
  BY DEF Finish, Throw
<1>2. hand.row \in Ids
  BY <1>1, HeldRow
<1>3. PICK s \in {"succeeded", "pending", "failed"} :
        /\ rows' = [rows EXCEPT ![hand.row].status = s]
        /\ Finish => s = "succeeded"
        /\ Throw => s \in {"pending", "failed"}
  <2>1. CASE Finish
    <3>1. ~Throw
      BY <2>1 DEF Finish, Throw
    <3> QED
      BY <2>1, <3>1 DEF Finish
  <2>2. CASE Throw
    <3>1. ~Finish
      BY <2>2 DEF Finish, Throw
    <3> QED
      BY <2>2, <3>1 DEF Throw
  <2> QED
    BY <2>1, <2>2
<1>4. s \in Statuses
  BY DEF Statuses
<1>5. /\ Restated /\ rows'[hand.row].status = s
      /\ \A j \in Ids : j # hand.row => rows'[j] = rows[j]
  BY <1>2, <1>3, <1>4, OneRestated
<1> QED
  BY <1>1, <1>2, <1>3, <1>5

LEMMA PutDownShapes == ASSUME Shapes, HandInv, Finish \/ Throw PROVE Shapes'
<1>1. rows' \in Seq(RowType) /\ Ids' = Ids /\ hand' = Idle
  BY PutDown, RestatedFields DEF Restated
<1>2. used' \in UsedType
  <2>1. CASE Finish
    BY <2>1 DEF Finish, Shapes
  <2>2. CASE Throw
    BY <2>2, Spent DEF Throw, Counters
  <2> QED
    BY <2>1, <2>2
<1>3. UNCHANGED <<link, holders, wears, live, due, req, move, moved, halted, strayed, missed>>
  BY DEF Finish, Throw, catalogue, history, detours
<1> QED
  BY <1>1, <1>2, <1>3 DEF Shapes

\* The reaper hands every claimed row back.
LEMMA Reaped ==
    ASSUME Shapes, Restart
    PROVE  /\ Restated /\ hand' = Idle /\ due' = {} /\ req' = [a \in Admins |-> NoReq]
           /\ \A i \in Ids : IF rows[i].status = "processing"
                             THEN rows'[i].status = "pending" ELSE rows'[i] = rows[i]
<1> DEFINE P == {i \in Ids : rows[i].status = "processing"}
<1>1. rows' = [i \in Ids |-> IF i \in P THEN [rows[i] EXCEPT !.status = "pending"] ELSE rows[i]]
  BY DEF Restart
<1>2. P \in SUBSET Ids /\ "pending" \in Statuses
  BY DEF Statuses
<1>3. \A i \in Ids : i \in P <=> rows[i].status = "processing"
  OBVIOUS
<1> HIDE DEF P
<1>4. Restated /\ \A i \in Ids : /\ i \in P => rows'[i].status = "pending"
                                 /\ i \notin P => rows'[i] = rows[i]
  BY <1>1, <1>2, ManyRestated
<1> QED
  BY <1>3, <1>4 DEF Restart

LEMMA RestartShapes == ASSUME Shapes, Restart PROVE Shapes'
<1>1. rows' \in Seq(RowType) /\ Ids' = Ids /\ hand' = Idle /\ due' = {}
  BY Reaped, RestatedFields DEF Restated
<1>2. used' \in UsedType
  BY Spent DEF Restart, Counters
<1>3. missed' \subseteq Subjects
  <2>1. Unqueued \subseteq Subjects
    <3>1. \A a \in Admins : req[a].step \in {"saved", "superseded"} => req[a].subject \in Subjects
      BY RequestFields
    <3> QED
      BY <3>1 DEF Unqueued
  <2> QED
    BY <2>1 DEF Restart, Shapes
<1>4. req' \in [Admins -> RequestType \cup {NoReq}] /\ move' = NoMove
  BY DEF Restart
<1> QED
  BY <1>1, <1>2, <1>3, <1>4 DEF Shapes, Restart, catalogue

(***************************************************************************)
(* Rows and the hand.                                                      *)
(***************************************************************************)
LEMMA RowOf ==
    ASSUME NEW k, NEW b, NEW s, NEW w, NEW o, NEW i, NEW p
    PROVE  LET r == Row(k, b, s, w, o, i, p) IN
           /\ r.kind = k /\ r.batch = b /\ r.subject = s /\ r.who = w /\ r.out = o
           /\ r.in = i /\ r.skip = p /\ r.status = "pending"
  BY DEF Row

\* The seed of a row's run.
LEMMA SeedOf ==
    ASSUME Shapes, NEW i \in Ids, Kin(i), rows[i].batch # 0
    PROVE  /\ rows[i].batch \in Ids /\ rows[i].batch \in Batches
           /\ rows[rows[i].batch].kind = "expand"
           /\ rows[rows[i].batch].batch = rows[i].batch
           /\ rows[rows[i].batch].subject = rows[i].subject
           /\ rows[rows[i].batch].skip = rows[i].skip
           /\ rows[rows[i].batch].out = rows[i].out
           /\ rows[rows[i].batch].in = rows[i].in
<1>1. rows[i].batch \in Nat /\ rows[i].batch <= i /\ i \in Nat /\ i <= Len(rows)
  BY RowFields DEF Kin
<1>2. Len(rows) \in Nat
  BY TableType
<1>3. rows[i].batch \in Ids
  BY <1>1, <1>2 DEF Ids
<1>4. /\ rows[rows[i].batch].kind = "expand"
      /\ rows[rows[i].batch].batch = rows[i].batch
      /\ rows[rows[i].batch].subject = rows[i].subject
      /\ rows[rows[i].batch].skip = rows[i].skip
      /\ rows[rows[i].batch].out = rows[i].out
      /\ rows[rows[i].batch].in = rows[i].in
  BY DEF Kin
<1> QED
  BY <1>3, <1>4 DEF Batches

\* The run of what is in hand, when that is no single job.
LEMMA HeldRun ==
    ASSUME Shapes, (\A i \in Ids : Kin(i)), HandInv, hand.step \in {"expand", "page", "insert"}
    PROVE  /\ hand.row \in Ids /\ Held.kind = "expand" /\ Held.batch \in Batches
           /\ Held.batch \in Ids /\ Held.batch # 0
           /\ rows[Held.batch].subject = Held.subject /\ rows[Held.batch].skip = Held.skip
           /\ rows[Held.batch].out = Held.out /\ rows[Held.batch].in = Held.in
           /\ rows[Held.batch].kind = "expand" /\ rows[Held.batch].batch = Held.batch
<1>1. hand.step # "idle" /\ hand # Idle
  BY IdleFields
<1>2. hand.row \in Ids /\ Held.kind = "expand"
  BY <1>1 DEF HandInv, Fits
<1>3. Held.batch # 0
  BY <1>2 DEF Kin, Held
<1>4. Kin(hand.row) /\ rows[hand.row].batch # 0
  BY <1>2, <1>3 DEF Held
<1> QED
  BY <1>2, <1>3, <1>4, SeedOf DEF Held

LEMMA QueuedKin == ASSUME Shapes, (\A i \in Ids : Kin(i)), NEW a \in Admins, QueueRelink(a)
                   PROVE  \A i \in Ids' : Kin(i)'
<1>1. PICK n, r : /\ Grown(n, r) /\ n = Len(rows) + 1
                  /\ r = Row("expand", Len(rows) + 1, req[a].subject, 0, req[a].prev,
                             req[a].next, Actor[a])
  BY NewRun
<1>2. r.kind = "expand" /\ r.batch = n
  BY <1>1, RowOf
<1>3. n # 0
  BY <1>1 DEF Grown
<1> HIDE DEF Kin
<1> QED
  BY <1>1, <1>2, <1>3, InsertedKin

LEMMA MovedKin == ASSUME Shapes, (\A i \in Ids : Kin(i)), QueueMove PROVE \A i \in Ids' : Kin(i)'
<1>1. CASE rows' = rows
  BY <1>1 DEF Kin, Ids
<1>2. ASSUME NEW n, Grown(n, Row("scoped", 0, move.subject, move.who, move.role, NoRole, 0))
      PROVE  \A i \in Ids' : Kin(i)'
  <2>1. PICK r : r = Row("scoped", 0, move.subject, move.who, move.role, NoRole, 0)
    OBVIOUS
  <2>2. Grown(n, r) /\ r.kind = "scoped" /\ r.batch = 0 /\ r.who = move.who
    BY <1>2, <2>1, RowOf
  <2>3. move.who \in Members
    BY MoveFields DEF QueueMove
  <2> QED
    BY <2>2, <2>3, InsertedKin
<1> QED
  BY <1>1, <1>2, MoveQueued

\* What a page inserts is of the run in hand.
LEMMA PageKin == ASSUME Shapes, (\A i \in Ids : Kin(i)), HandInv, InsertApply \/ InsertCursor
                 PROVE  \A i \in Ids' : Kin(i)'
<1>1. hand.step = "insert"
  BY DEF InsertApply, InsertCursor
<1>2. /\ hand.row \in Ids /\ Held.kind = "expand" /\ Held.batch \in Batches
      /\ Held.batch \in Ids /\ Held.batch # 0
      /\ rows[Held.batch].subject = Held.subject /\ rows[Held.batch].skip = Held.skip
      /\ rows[Held.batch].out = Held.out /\ rows[Held.batch].in = Held.in
      /\ rows[Held.batch].kind = "expand" /\ rows[Held.batch].batch = Held.batch
  BY <1>1, HeldRun
<1>3. CASE InsertApply
  <2>1. PICK n, r : Grown(n, r) /\ r = Apply
    BY <1>3, ApplyFields
  <2>2. /\ r.kind = "apply" /\ r.batch = Held.batch /\ r.who = First(hand.todo)
        /\ r.subject = Held.subject /\ r.skip = Held.skip /\ r.out = Held.out /\ r.in = Held.in
    BY <2>1, RowOf DEF Apply
  <2>3. First(hand.todo) \in Members
    BY <1>3, ApplyFields
  <2> QED
    BY <2>1, <2>2, <2>3, <1>2, InsertedKin
<1>4. CASE InsertCursor /\ hand.more = 0
  <2>1. rows' = rows
    BY <1>4, CursorFields
  <2> QED
    BY <2>1 DEF Kin, Ids
<1>5. CASE InsertCursor /\ hand.more # 0
  <2>1. PICK n, r : Grown(n, r) /\ r = Cursor
    BY <1>5, CursorFields
  <2>2. /\ r.kind = "expand" /\ r.batch = Held.batch
        /\ r.subject = Held.subject /\ r.skip = Held.skip /\ r.out = Held.out /\ r.in = Held.in
    BY <2>1, RowOf DEF Cursor
  <2> QED
    BY <2>1, <2>2, <1>2, InsertedKin
<1> QED
  BY <1>3, <1>4, <1>5

\* The hand, when it and what is due stay as they are and no row of theirs changes.
LEMMA HandKept ==
    ASSUME Shapes, HandInv, hand' = hand, due' \subseteq due, Ids \subseteq Ids',
           hand # Idle => rows'[hand.row] = rows[hand.row],
           \A i \in due : rows'[i].status \in {"pending", "cancelled"}
    PROVE  HandInv'
<1>1. hand # Idle => hand'.row \in Ids' /\ Fits(hand', Held')
  BY DEF HandInv, Held
<1>2. Fits(hand, Held)' <=> Fits(hand', Held')
  BY DEF Fits
<1> QED
  BY <1>1, <1>2 DEF HandInv, Idle

\* The hand moves on, over a row that stays as it is.
LEMMA HandMoved ==
    ASSUME Shapes, HandInv, hand.step # "idle", hand'.row = hand.row, due' = due,
           Ids \subseteq Ids', \A i \in Ids : rows'[i] = rows[i], Fits(hand', Held)
    PROVE  HandInv'
<1>1. hand.row \in Ids
  BY HeldRow
<1>2. hand'.row \in Ids' /\ Held' = Held
  BY <1>1 DEF Held
<1>3. Fits(hand, Held)' <=> Fits(hand', Held')
  BY DEF Fits
<1>4. \A i \in due' : rows'[i].status \in {"pending", "cancelled"}
  BY DEF HandInv, Shapes
<1> QED
  BY <1>2, <1>3, <1>4 DEF HandInv

LEMMA CheckHand == ASSUME Shapes, HandInv, CheckExpand PROVE HandInv'
<1>1. hand.step = "expand" /\ hand.step # "idle" /\ hand # Idle
  BY IdleFields DEF CheckExpand
<1>2. PICK t \in {"done", "page"} : hand' = [hand EXCEPT !.step = t]
  BY DEF CheckExpand
<1>3. hand'.row = hand.row /\ hand'.step = t /\ hand'.todo = hand.todo
  BY <1>1, <1>2, HandStep
<1>4. Fits(hand', Held)
  BY <1>1, <1>3 DEF HandInv, Fits
<1>5. UNCHANGED <<rows, due>> /\ Ids' = Ids
  BY DEF CheckExpand, Ids
<1> QED
  BY <1>1, <1>3, <1>4, <1>5, HandMoved

LEMMA ReadHand == ASSUME Shapes, HandInv, ReadPage PROVE HandInv'
<1>1. hand.step = "page" /\ hand.step # "idle" /\ hand # Idle
  BY IdleFields DEF ReadPage
<1>2. /\ hand'.row = hand.row /\ hand'.step = "insert" /\ hand'.todo = Page
      /\ hand'.more = NextCursor
  BY ReadFields
<1>3. (\A m \in Page : m > Held.who) /\ (NextCursor # 0 => NextCursor > Held.who)
  BY <1>1, PageReaches
<1>4. Held.status = "processing" /\ Held.kind = "expand"
  BY <1>1 DEF HandInv, Fits
<1>5. Fits(hand', Held)
  BY <1>2, <1>3, <1>4 DEF Fits
<1>6. UNCHANGED <<rows, due>> /\ Ids' = Ids
  BY DEF ReadPage, Ids
<1> QED
  BY <1>1, <1>2, <1>5, <1>6, HandMoved

LEMMA DecideHand == ASSUME Shapes, HandInv, Decide PROVE HandInv'
<1>1. hand.step \in {"apply", "scoped"} /\ hand.step # "idle" /\ hand # Idle
  BY IdleFields DEF Decide
<1>2. hand'.row = hand.row /\ hand'.todo = hand.todo /\ hand'.step \in {"act", "done"}
  BY DecideFields
<1>3. Fits(hand', Held)
  BY <1>1, <1>2 DEF HandInv, Fits
<1>4. UNCHANGED <<rows, due>> /\ Ids' = Ids
  BY DEF Decide, Ids
<1> QED
  BY <1>1, <1>2, <1>3, <1>4, HandMoved

LEMMA ActHand == ASSUME Shapes, (\A i \in Ids : Kin(i)), HandInv, Act PROVE HandInv'
<1>1. hand.step = "act" /\ hand.step # "idle" /\ hand # Idle
  BY IdleFields DEF Act
<1>2. /\ hand'.row = hand.row /\ hand'.todo = hand.todo /\ hand'.step \in {"grant", "done"}
      /\ hand'.step = "grant" => Held.kind = "apply" /\ Held.in = NoRole
  BY ActFields
<1>3. Fits(hand', Held)
  BY <1>1, <1>2 DEF HandInv, Fits
<1>4. UNCHANGED <<rows, due>> /\ Ids' = Ids
  BY DEF Act, Ids
<1> QED
  BY <1>1, <1>2, <1>3, <1>4, HandMoved

LEMMA GrantHand == ASSUME Shapes, (\A i \in Ids : Kin(i)), HandInv, Grant PROVE HandInv'
<1>1. hand.step = "grant" /\ hand.step # "idle" /\ hand # Idle
  BY IdleFields DEF Grant
<1>2. hand'.row = hand.row /\ hand'.todo = hand.todo /\ hand'.step = "done"
  BY GrantFields
<1>3. Fits(hand', Held)
  BY <1>1, <1>2 DEF HandInv, Fits
<1>4. UNCHANGED <<rows, due>> /\ Ids' = Ids
  BY DEF Grant, Ids
<1> QED
  BY <1>1, <1>2, <1>3, <1>4, HandMoved

LEMMA InsertHand == ASSUME Shapes, HandInv, InsertApply \/ InsertCursor PROVE HandInv'
<1>1. hand.step = "insert" /\ hand.step # "idle" /\ hand # Idle
  BY IdleFields DEF InsertApply, InsertCursor
<1>2. due' = due
  BY DEF InsertApply, InsertCursor
<1>3. Fits(hand, Held)
  BY <1>1 DEF HandInv
<1>4. CASE InsertApply
  <2>1. PICK n, r : Grown(n, r)
    BY <1>4, ApplyFields
  <2>2. /\ hand'.row = hand.row /\ hand'.step = "insert" /\ hand'.more = hand.more
        /\ hand'.todo \subseteq hand.todo
    BY <1>4, ApplyFields
  <2>3. Fits(hand', Held)
    BY <1>1, <1>3, <2>2 DEF Fits
  <2> QED
    BY <1>1, <1>2, <2>1, <2>2, <2>3, HandMoved DEF Grown
<1>5. CASE InsertCursor
  <2>1. /\ hand'.row = hand.row /\ hand'.step = "done" /\ hand'.todo = {}
    BY <1>5, CursorFields
  <2>2. Fits(hand', Held)
    BY <1>1, <1>3, <2>1 DEF Fits
  <2>3. Ids \subseteq Ids' /\ \A i \in Ids : rows'[i] = rows[i]
    <3>1. CASE hand.more = 0
      <4>1. rows' = rows
        BY <3>1, <1>5, CursorFields
      <4> QED
        BY <4>1 DEF Ids
    <3>2. CASE hand.more # 0
      <4>1. PICK n, r : Grown(n, r)
        BY <3>2, <1>5, CursorFields
      <4> QED
        BY <4>1 DEF Grown
    <3> QED
      BY <3>1, <3>2
  <2> QED
    BY <1>1, <1>2, <2>1, <2>2, <2>3, HandMoved
<1> QED
  BY <1>4, <1>5

LEMMA PutDownHand == ASSUME Shapes, HandInv, Finish \/ Throw PROVE HandInv'
<1>1. /\ hand.row \in Ids /\ hand' = Idle /\ hand.step # "idle"
      /\ \A j \in Ids : j # hand.row => rows'[j] = rows[j]
  BY PutDown
<1>2. due' = due /\ due \subseteq Ids
  BY DEF Finish, Throw, Shapes
<1>3. hand.row \notin due
  <2>1. rows[hand.row].status = "processing"
    BY <1>1, HeldRow DEF Held
  <2> QED
    BY <2>1 DEF HandInv
<1>4. \A i \in due' : rows'[i].status \in {"pending", "cancelled"}
  BY <1>1, <1>2, <1>3 DEF HandInv
<1> QED
  BY <1>1, <1>4 DEF HandInv, Idle

LEMMA ClaimHand == ASSUME Shapes, HandInv, NEW i \in due, Claim(i) PROVE HandInv'
<1>1. /\ i \in Ids /\ rows'[i].status = "processing" /\ Restated
      /\ \A j \in Ids : j # i => rows'[j] = rows[j]
      /\ hand'.row = i /\ hand'.step = rows[i].kind /\ hand'.todo = {}
  BY Claimed
<1>2. Ids' = Ids /\ rows'[i].kind = rows[i].kind
  BY <1>1, RestatedFields
<1>3. rows[i].kind \in {"expand", "apply", "scoped"}
  BY <1>1, RowFields
<1>4. Held' = rows'[i]
  BY <1>1 DEF Held
<1>5. Fits(hand', Held')
  BY <1>1, <1>2, <1>3, <1>4 DEF Fits
<1>6. Fits(hand, Held)' <=> Fits(hand', Held')
  BY DEF Fits
<1>7. due' = due \ {i} /\ due \subseteq Ids
  BY DEF Claim, Shapes
<1>8. \A j \in due' : rows'[j].status \in {"pending", "cancelled"}
  BY <1>7, <1>1 DEF HandInv
<1> QED
  BY <1>1, <1>2, <1>5, <1>6, <1>8 DEF HandInv

LEMMA RestartHand == ASSUME Shapes, Restart PROVE HandInv'
  BY Reaped DEF HandInv, Idle

LEMMA TickHand == ASSUME Shapes, HandInv, Tick PROVE HandInv'
<1>1. hand' = Idle /\ \A i \in due' : rows'[i].status \in {"pending", "cancelled"}
  BY DEF Tick, InState
<1> QED
  BY <1>1 DEF HandInv, Idle

\* Rows that are waiting are cancelled: neither is one in hand, nor does that change
\* what a tick has read of the others.
LEMMA CancelledHand ==
    ASSUME Shapes, HandInv, NEW S \in SUBSET Ids, CancelRows(S), hand' = hand, due' = due
    PROVE  HandInv'
<1>1. Restated /\ \A i \in Ids : IF i \in S /\ rows[i].status = "pending"
                                 THEN rows'[i].status = "cancelled" ELSE rows'[i] = rows[i]
  BY CancelledRows
<1>2. Ids' = Ids
  BY <1>1, RestatedFields
<1>3. hand # Idle => rows'[hand.row] = rows[hand.row]
  BY <1>1 DEF HandInv, Fits, Held
<1>4. due \subseteq Ids
  BY DEF Shapes
<1>5. \A i \in due : rows'[i].status \in {"pending", "cancelled"}
  BY <1>1, <1>4 DEF HandInv
<1> QED
  BY <1>2, <1>3, <1>5, HandKept

\* Rows that are there stay as they are.
LEMMA OtherHand ==
    ASSUME Shapes, HandInv, hand' = hand, due' = due, Ids \subseteq Ids',
           \A i \in Ids : rows'[i] = rows[i]
    PROVE  HandInv'
<1>1. due \subseteq Ids /\ (hand # Idle => hand.row \in Ids)
  BY DEF Shapes, HandInv
<1> QED
  BY <1>1, HandKept DEF HandInv

LEMMA SameRestated == ASSUME Shapes, rows' = rows PROVE Restated
<1>1. rows \in Seq(RowType)
  BY TableType
<1>2. ASSUME NEW i \in Ids PROVE rows[i] = [rows[i] EXCEPT !.status = rows[i].status]
  BY RowFields DEF RowType
<1> QED
  BY <1>1, <1>2 DEF Restated

\* What stopped a run stays on the books while rows only change their status, and
\* none is cancelled that is not.
LEMMA StopKept ==
    ASSUME Shapes, StopInv, Restated, live' = live, used'.toggles = used.toggles, link' = link,
           halted \subseteq halted', strayed \subseteq strayed',
           \A i \in Ids : rows'[i].status = "cancelled" =>
             \/ rows[i].status = "cancelled"
             \/ rows[i].batch # 0 /\ \E h \in halted' : h[1] = rows[i].batch
    PROVE  StopInv'
<1>1. /\ Ids' = Ids /\ Batches' = Batches
      /\ \A i \in Ids : /\ rows'[i].batch = rows[i].batch /\ rows'[i].subject = rows[i].subject
                        /\ rows'[i].in = rows[i].in
  BY RestatedFields
<1>2. used'.toggles = 0 => live'
  BY DEF StopInv
<1>3. ASSUME NEW i \in Ids, rows'[i].status = "cancelled"
      PROVE  rows'[i].batch # 0 /\ \E h \in halted' : h[1] = rows'[i].batch
  <2>1. CASE rows[i].status = "cancelled"
    BY <1>1, <2>1 DEF StopInv
  <2>2. CASE rows[i].status # "cancelled"
    BY <1>1, <1>3, <2>2
  <2> QED
    BY <2>1, <2>2
<1>4. Batches \subseteq Ids
  BY DEF Batches
<1>5. \A b \in Batches' \ strayed' : link'[rows'[b].subject] = rows'[b].in
  BY <1>1, <1>4 DEF StopInv
<1> QED
  BY <1>1, <1>2, <1>3, <1>5 DEF StopInv

LEMMA GrownBatches ==
    ASSUME Shapes, NEW n, NEW r, Grown(n, r)
    PROVE  /\ r.kind = "expand" /\ r.batch = n => Batches' = Batches \cup {n}
           /\ ~(r.kind = "expand" /\ r.batch = n) => Batches' = Batches
<1>1. Ids' = Ids \cup {n} /\ rows'[n] = r /\ n \notin Ids /\ \A i \in Ids : rows'[i] = rows[i]
  BY DEF Grown
<1> QED
  BY <1>1 DEF Batches

LEMMA StopGrown ==
    ASSUME Shapes, StopInv, NEW n, NEW r, Grown(n, r), r.status = "pending",
           live' = live, used' = used, link' = link, halted' = halted,
           strayed \subseteq strayed',
           r.kind = "expand" /\ r.batch = n => n \in strayed' \/ link[r.subject] = r.in
    PROVE  StopInv'
<1>1. Ids' = Ids \cup {n} /\ rows'[n] = r /\ n \notin Ids /\ \A i \in Ids : rows'[i] = rows[i]
  BY DEF Grown
<1>2. used'.toggles = 0 => live'
  BY DEF StopInv
<1>3. ASSUME NEW i \in Ids', rows'[i].status = "cancelled"
      PROVE  rows'[i].batch # 0 /\ \E h \in halted' : h[1] = rows'[i].batch
  BY <1>1, <1>3 DEF StopInv
<1>4. Batches \subseteq Ids
  BY DEF Batches
<1>5. ASSUME NEW b \in Batches', b \notin strayed' PROVE link'[rows'[b].subject] = rows'[b].in
  <2>1. CASE b \in Batches
    BY <2>1, <1>1, <1>4, <1>5 DEF StopInv
  <2>2. CASE b \notin Batches
    BY <2>2, <1>1, <1>5, GrownBatches
  <2> QED
    BY <2>1, <2>2
<1> QED
  BY <1>2, <1>3, <1>5 DEF StopInv

LEMMA RunStop == ASSUME Shapes, StopInv, NEW a \in Admins, QueueRelink(a) PROVE StopInv'
<1>1. PICK n, r : /\ Grown(n, r) /\ n = Len(rows) + 1
                  /\ r = Row("expand", Len(rows) + 1, req[a].subject, 0, req[a].prev,
                             req[a].next, Actor[a])
  BY NewRun
<1>2. r.status = "pending" /\ r.subject = req[a].subject /\ r.in = req[a].next
  BY <1>1, RowOf
<1>3. /\ live' = live /\ used' = used /\ link' = link /\ halted' = halted
      /\ strayed' = strayed \cup {b \in {n} : link[req[a].subject] # req[a].next}
  BY <1>1 DEF QueueRelink, catalogue
<1>4. n \in strayed' \/ link[r.subject] = r.in
  BY <1>2, <1>3
<1> QED
  BY <1>1, <1>2, <1>3, <1>4, StopGrown

LEMMA MoveStop == ASSUME Shapes, StopInv, QueueMove PROVE StopInv'
<1>1. /\ live' = live /\ used' = used /\ link' = link /\ halted' = halted /\ strayed' = strayed
  BY DEF QueueMove, catalogue, history, detours
<1>2. CASE rows' = rows
  BY <1>1, <1>2, SameRestated, StopKept
<1>3. ASSUME NEW n, Grown(n, Row("scoped", 0, move.subject, move.who, move.role, NoRole, 0))
      PROVE  StopInv'
  <2>1. PICK r : r = Row("scoped", 0, move.subject, move.who, move.role, NoRole, 0)
    OBVIOUS
  <2>2. Grown(n, r) /\ r.kind = "scoped" /\ r.status = "pending"
    BY <1>3, <2>1, RowOf
  <2> QED
    BY <1>1, <2>2, StopGrown
<1> QED
  BY <1>2, <1>3, MoveQueued

LEMMA PageStop ==
    ASSUME Shapes, (\A i \in Ids : Kin(i)), HandInv, StopInv, InsertApply \/ InsertCursor
    PROVE  StopInv'
<1>1. /\ live' = live /\ used' = used /\ link' = link /\ halted' = halted /\ strayed' = strayed
  BY DEF InsertApply, InsertCursor, catalogue, history, detours
<1>2. hand.step = "insert"
  BY DEF InsertApply, InsertCursor
<1>3. Held.batch \in Ids
  BY <1>2, HeldRun
<1>4. CASE InsertApply
  <2>1. PICK n, r : Grown(n, r) /\ r = Apply
    BY <1>4, ApplyFields
  <2>2. r.kind = "apply" /\ r.status = "pending"
    BY <2>1, RowOf DEF Apply
  <2> QED
    BY <1>1, <2>1, <2>2, StopGrown
<1>5. CASE InsertCursor /\ hand.more = 0
  <2>1. rows' = rows
    BY <1>5, CursorFields
  <2> QED
    BY <2>1, <1>1, SameRestated, StopKept
<1>6. CASE InsertCursor /\ hand.more # 0
  <2>1. PICK n, r : Grown(n, r) /\ r = Cursor
    BY <1>6, CursorFields
  <2>2. r.batch = Held.batch /\ r.status = "pending"
    BY <2>1, RowOf DEF Cursor
  <2>3. r.batch # n
    BY <2>1, <2>2, <1>3 DEF Grown
  <2> QED
    BY <1>1, <2>1, <2>2, <2>3, StopGrown
<1> QED
  BY <1>4, <1>5, <1>6

\* A cancel that finds anything waiting, and a newer run, are on the books.
LEMMA CancelStops ==
    ASSUME Shapes, (\A i \in Ids : Kin(i)), NEW b \in Batches, Cancel(b)
    PROVE  \A i \in Ids : rows[i].batch = b /\ rows[i].status = "pending" =>
                            \E h \in halted' : h[1] = b
<1>1. SUFFICES ASSUME NEW i \in Ids, rows[i].batch = b, rows[i].status = "pending"
               PROVE  \E h \in halted' : h[1] = b
  OBVIOUS
<1>2. b # 0
  BY RowFields DEF Batches
<1>3. rows[i].kind \in {"expand", "apply"}
  BY <1>1, <1>2, RowFields DEF Kin
<1>4. i \in Active(Expands(b)) \cup Active(Applies(b))
  BY <1>1, <1>3 DEF Active, InState, Expands, Applies, Of
<1>5. Progress(b) = "running"
  BY <1>4 DEF Progress
<1>6. <<b, "operator">> \in halted'
  BY <1>5 DEF Cancel
<1> QED
  BY <1>6

LEMMA CancelStop == ASSUME Shapes, (\A i \in Ids : Kin(i)), StopInv, NEW b \in Batches, Cancel(b)
                    PROVE  StopInv'
<1>1. /\ live' = live /\ link' = link /\ strayed' = strayed /\ halted \subseteq halted'
      /\ CancelRows(Of(b))
  BY DEF Cancel, catalogue, detours
<1>2. used'.toggles = used.toggles
  BY Spent DEF Cancel, Counters
<1>3. Of(b) \in SUBSET Ids
  BY DEF Of
<1>4. /\ Restated
      /\ \A i \in Ids : IF i \in Of(b) /\ rows[i].status = "pending"
                        THEN rows'[i].status = "cancelled" ELSE rows'[i] = rows[i]
  BY <1>1, <1>3, CancelledRows
<1>5. b # 0
  BY RowFields DEF Batches
<1>6. ASSUME NEW i \in Ids, rows'[i].status = "cancelled", rows[i].status # "cancelled"
      PROVE  rows[i].batch # 0 /\ \E h \in halted' : h[1] = rows[i].batch
  <2>1. i \in Of(b) /\ rows[i].status = "pending"
    BY <1>4, <1>6
  <2>2. rows[i].batch = b
    BY <2>1 DEF Of
  <2> QED
    BY <2>1, <2>2, <1>5, CancelStops
<1> QED
  BY <1>1, <1>2, <1>4, <1>6, StopKept

LEMMA SupersedeStops ==
    ASSUME Shapes, NEW a \in Admins, SupersedeBatches(a)
    PROVE  \A b \in Superseded(a) : b \in Batches /\ b # 0 /\ \E h \in halted' : h[1] = b
<1>1. SUFFICES ASSUME NEW b \in Superseded(a) PROVE b \in Batches /\ b # 0 /\ \E h \in halted' : h[1] = b
  OBVIOUS
<1>2. b \in Batches
  BY DEF Superseded
<1>3. <<b, "newer run">> \in halted'
  BY DEF SupersedeBatches
<1> QED
  BY <1>2, <1>3, RowFields DEF Batches

LEMMA SupersedeStop ==
    ASSUME Shapes, StopInv, NEW a \in Admins, SupersedeBatches(a) PROVE StopInv'
<1> DEFINE S == UNION {Of(b) : b \in Superseded(a)}
<1>1. /\ live' = live /\ link' = link /\ strayed' = strayed /\ halted \subseteq halted'
      /\ used' = used /\ CancelRows(S)
  BY DEF SupersedeBatches, catalogue, detours
<1>2. S \in SUBSET Ids
  BY DEF Of
<1>3. \A i \in S : rows[i].batch \in Superseded(a)
  BY DEF Of
<1> HIDE DEF S
<1>4. /\ Restated
      /\ \A i \in Ids : IF i \in S /\ rows[i].status = "pending"
                        THEN rows'[i].status = "cancelled" ELSE rows'[i] = rows[i]
  BY <1>1, <1>2, CancelledRows
<1>5. ASSUME NEW i \in Ids, rows'[i].status = "cancelled", rows[i].status # "cancelled"
      PROVE  rows[i].batch # 0 /\ \E h \in halted' : h[1] = rows[i].batch
  BY <1>3, <1>4, <1>5, SupersedeStops
<1> QED
  BY <1>1, <1>4, <1>5, StopKept

LEMMA SaveStop == ASSUME Shapes, StopInv, NEW a \in Admins, SaveLink(a) PROVE StopInv'
<1>1. /\ live' = live /\ used' = used /\ rows' = rows /\ halted' = halted /\ Ids' = Ids
      /\ Batches' = Batches
  BY DEF SaveLink, Ids, Batches
<1>2. req[a].subject \in Subjects /\ req[a].next \in RoleOrNone
  BY RequestFields DEF SaveLink
<1>3. /\ link'[req[a].subject] = req[a].next
      /\ \A s \in Subjects : s # req[a].subject => link'[s] = link[s]
  BY <1>2 DEF SaveLink, Shapes
<1>4. ASSUME NEW b \in Batches', b \notin strayed' PROVE link'[rows'[b].subject] = rows'[b].in
  <2>1. b \in Batches /\ b \notin strayed
    BY <1>1, <1>4 DEF SaveLink
  <2>2. rows[b].subject \in Subjects
    BY <2>1, RowFields DEF Batches
  <2>3. rows[b].subject = req[a].subject => rows[b].in = req[a].next
    BY <2>1, <1>4 DEF SaveLink
  <2> QED
    BY <1>1, <1>3, <2>1, <2>2, <2>3 DEF StopInv
<1>5. used'.toggles = 0 => live'
  BY <1>1 DEF StopInv
<1>6. \A i \in Ids' : rows'[i].status = "cancelled" =>
                        rows'[i].batch # 0 /\ \E h \in halted' : h[1] = rows'[i].batch
  BY <1>1 DEF StopInv
<1> QED
  BY <1>4, <1>5, <1>6 DEF StopInv

LEMMA ToggleStop == ASSUME Shapes, StopInv, Toggle PROVE StopInv'
<1>1. used'.toggles # 0
  BY Spent DEF Toggle, Counters
<1>2. /\ rows' = rows /\ halted' = halted /\ Ids' = Ids /\ link' = link /\ strayed' = strayed
      /\ Batches' = Batches
  BY DEF Toggle, catalogue, history, detours, Ids, Batches
<1> QED
  BY <1>1, <1>2 DEF StopInv

LEMMA RestStop ==
    ASSUME Shapes, HandInv, StopInv,
           \/ \E a \in Admins, s \in Subjects, r \in RoleOrNone : Load(a, s, r)
           \/ \E a \in Admins : DropRelink(a)
           \/ \E m \in Members, s \in Subjects : LoadMove(m, s)
           \/ SaveMove \/ Tick \/ (\E i \in due : Claim(i))
           \/ CheckExpand \/ ReadPage \/ Decide \/ Act \/ Grant \/ Finish \/ Throw \/ Restart
    PROVE  StopInv'
<1>1. SUFFICES /\ link' = link /\ live' = live /\ halted' = halted /\ strayed' = strayed
               /\ used'.toggles = used.toggles /\ Restated
               /\ \A i \in Ids : rows'[i].status = "cancelled" => rows[i].status = "cancelled"
  BY StopKept
<1>2. CASE \E a \in Admins, s \in Subjects, r \in RoleOrNone : Load(a, s, r)
  <2>1. PICK a \in Admins, s \in Subjects, r \in RoleOrNone : Load(a, s, r)
    BY <1>2
  <2>2. used'.toggles = used.toggles
    BY <2>1, Spent DEF Load, Counters
  <2> QED
    BY <2>1, <2>2, SameRestated DEF Load, catalogue, history, detours
<1>3. CASE \E a \in Admins : DropRelink(a)
  BY <1>3, SameRestated DEF DropRelink, catalogue, history, detours
<1>4. CASE \E m \in Members, s \in Subjects : LoadMove(m, s)
  <2>1. PICK m \in Members, s \in Subjects : LoadMove(m, s)
    BY <1>4
  <2>2. used'.toggles = used.toggles
    BY <2>1, Spent DEF LoadMove, Counters
  <2> QED
    BY <2>1, <2>2, SameRestated DEF LoadMove, catalogue, history, detours
<1>5. CASE SaveMove
  BY <1>5, SameRestated DEF SaveMove, detours
<1>6. CASE Tick \/ CheckExpand \/ ReadPage \/ Decide \/ Act \/ Grant
  BY <1>6, SameRestated DEF Tick, CheckExpand, ReadPage, Decide, Act, Grant, catalogue, history, detours
<1>7. CASE \E i \in due : Claim(i)
  <2>1. PICK i \in due : Claim(i)
    BY <1>7
  <2> QED
    BY <2>1, Claimed DEF Claim, catalogue, history, detours
<1>8. CASE Finish \/ Throw
  <2>1. /\ Restated /\ \A j \in Ids : j # hand.row => rows'[j] = rows[j]
        /\ rows'[hand.row].status \in {"succeeded", "pending", "failed"}
    BY <1>8, PutDown
  <2>2. used'.toggles = used.toggles
    <3>1. CASE Finish
      BY <3>1 DEF Finish
    <3>2. CASE Throw
      BY <3>2, Spent DEF Throw, Counters
    <3> QED
      BY <1>8, <3>1, <3>2
  <2> QED
    BY <1>8, <2>1, <2>2 DEF Finish, Throw, catalogue, history, detours
<1>9. CASE Restart
  <2>1. /\ Restated
        /\ \A i \in Ids : IF rows[i].status = "processing"
                          THEN rows'[i].status = "pending" ELSE rows'[i] = rows[i]
    BY <1>9, Reaped
  <2>2. used'.toggles = used.toggles
    BY <1>9, Spent DEF Restart, Counters
  <2> QED
    BY <1>9, <2>1, <2>2 DEF Restart, catalogue
<1> QED
  BY <1>2, <1>3, <1>4, <1>5, <1>6, <1>7, <1>8, <1>9

\* Every step keeps the ground the run stands on.
LEMMA GroundHolds == Ground /\ [Next]_vars => Ground'
<1> SUFFICES ASSUME Ground, [Next]_vars PROVE Ground'
  OBVIOUS
<1>1. Shapes /\ (\A i \in Ids : Kin(i)) /\ HandInv /\ StopInv
  BY DEF Ground
<1>2. SUFFICES Shapes' /\ (\A i \in Ids' : Kin(i)') /\ HandInv' /\ StopInv'
  BY DEF Ground
<1> HIDE DEF Kin
<1>3. ASSUME Restated PROVE \A i \in Ids' : Kin(i)'
  BY <1>1, <1>3, RestatedKin
<1>4. ASSUME rows' = rows PROVE \A i \in Ids' : Kin(i)'
  BY <1>1, <1>4, SameRestated, RestatedKin
<1>5. ASSUME rows' = rows, hand' = hand, due' = due PROVE HandInv'
  <2>1. Ids' = Ids /\ \A i \in Ids : rows'[i] = rows[i]
    BY <1>5 DEF Ids
  <2> QED
    BY <1>1, <1>5, <2>1, OtherHand
<1>6. CASE UNCHANGED vars
  <2>1. Shapes'
    BY <1>1, <1>6 DEF Shapes, vars, Ids, detours
  <2>2. UNCHANGED <<link, live, rows, due, hand, used, halted, strayed>>
    BY <1>6 DEF vars
  <2>3. StopInv'
    BY <1>1, <2>2, SameRestated, StopKept
  <2> QED
    BY <2>1, <2>2, <2>3, <1>4, <1>5
<1>7. ASSUME NEW a \in Admins, NEW s \in Subjects, NEW r \in RoleOrNone, Load(a, s, r)
      PROVE  Ground'
  <2>1. rows' = rows /\ hand' = hand /\ due' = due
    BY <1>7 DEF Load, worker
  <2> QED
    BY <2>1, <1>1, <1>4, <1>5, <1>7, LoadShapes, RestStop DEF Ground
<1>8. ASSUME NEW a \in Admins, Request(a) PROVE Ground'
  <2>1. CASE SaveLink(a)
    <3>1. rows' = rows /\ hand' = hand /\ due' = due
      BY <2>1 DEF SaveLink, worker
    <3> QED
      BY <3>1, <1>1, <1>4, <1>5, <2>1, SaveShapes, SaveStop DEF Ground
  <2>2. CASE DropRelink(a)
    <3>1. rows' = rows /\ hand' = hand /\ due' = due
      BY <2>2 DEF DropRelink, worker
    <3> QED
      BY <3>1, <1>1, <1>4, <1>5, <2>2, DropShapes, RestStop DEF Ground
  <2>3. CASE SupersedeBatches(a)
    <3>1. PICK S \in SUBSET Ids : CancelRows(S)
      <4>1. UNION {Of(b) : b \in Superseded(a)} \in SUBSET Ids
        BY DEF Of
      <4> QED
        BY <4>1, <2>3 DEF SupersedeBatches
    <3>2. hand' = hand /\ due' = due
      BY <2>3 DEF SupersedeBatches, worker
    <3>3. Restated
      BY <1>1, <3>1, CancelledRows
    <3>4. HandInv'
      BY <1>1, <3>1, <3>2, CancelledHand
    <3> QED
      BY <3>3, <3>4, <1>1, <1>3, <2>3, SupersedeShapes, SupersedeStop DEF Ground
  <2>4. CASE QueueRelink(a)
    <3>1. PICK n, r : Grown(n, r)
      BY <1>1, <2>4, NewRun
    <3>2. hand' = hand /\ due' = due
      BY <2>4 DEF QueueRelink, worker
    <3>3. HandInv'
      BY <1>1, <3>1, <3>2, OtherHand DEF Grown
    <3> QED
      BY <3>3, <1>1, <2>4, QueueShapes, QueuedKin, RunStop DEF Ground
  <2> QED
    BY <1>8, <2>1, <2>2, <2>3, <2>4 DEF Request
<1>9. ASSUME NEW m \in Members, NEW s \in Subjects, LoadMove(m, s) PROVE Ground'
  <2>1. rows' = rows /\ hand' = hand /\ due' = due
    BY <1>9 DEF LoadMove, worker
  <2> QED
    BY <2>1, <1>1, <1>4, <1>5, <1>9, LoadMoveShapes, RestStop DEF Ground
<1>10. CASE SaveMove
  <2>1. rows' = rows /\ hand' = hand /\ due' = due
    BY <1>10 DEF SaveMove, worker
  <2> QED
    BY <2>1, <1>1, <1>2, <1>4, <1>5, <1>10, SaveMoveShapes, RestStop
<1>11. CASE QueueMove
  <2>1. hand' = hand /\ due' = due
    BY <1>11 DEF QueueMove, worker
  <2>2. Ids \subseteq Ids' /\ \A i \in Ids : rows'[i] = rows[i]
    <3>1. CASE rows' = rows
      BY <3>1 DEF Ids
    <3>2. CASE \E n : Grown(n, Row("scoped", 0, move.subject, move.who, move.role, NoRole, 0))
      BY <3>2 DEF Grown
    <3> QED
      BY <3>1, <3>2, <1>1, <1>11, MoveQueued
  <2>3. HandInv'
    BY <1>1, <2>1, <2>2, OtherHand
  <2> QED
    BY <2>3, <1>1, <1>2, <1>11, QueueMoveShapes, MovedKin, MoveStop
<1>12. CASE Toggle
  <2>1. rows' = rows /\ hand' = hand /\ due' = due
    BY <1>12 DEF Toggle, worker
  <2> QED
    BY <2>1, <1>1, <1>2, <1>4, <1>5, <1>12, ToggleShapes, ToggleStop
<1>13. ASSUME NEW b \in Batches, Cancel(b) PROVE Ground'
  <2>1. Of(b) \in SUBSET Ids /\ CancelRows(Of(b)) /\ hand' = hand /\ due' = due
    BY <1>13 DEF Of, Cancel, worker
  <2>2. Restated
    BY <1>1, <2>1, CancelledRows
  <2>3. HandInv'
    BY <1>1, <2>1, CancelledHand
  <2> QED
    BY <2>2, <2>3, <1>1, <1>3, <1>13, CancelShapes, CancelStop DEF Ground
<1>14. CASE Tick
  <2>1. rows' = rows
    BY <1>14 DEF Tick
  <2> QED
    BY <2>1, <1>1, <1>2, <1>4, <1>14, TickShapes, TickHand, RestStop
<1>15. ASSUME NEW i \in due, Claim(i) PROVE Ground'
  <2>1. Restated
    BY <1>1, <1>15, Claimed
  <2> QED
    BY <2>1, <1>1, <1>3, <1>15, ClaimShapes, ClaimHand, RestStop DEF Ground
<1>16. CASE Serve
  <2>1. CASE CheckExpand
    <3>1. rows' = rows
      BY <2>1 DEF CheckExpand
    <3> QED
      BY <3>1, <1>1, <1>2, <1>4, <2>1, CheckShapes, CheckHand, RestStop
  <2>2. CASE ReadPage
    <3>1. rows' = rows
      BY <2>2 DEF ReadPage
    <3> QED
      BY <3>1, <1>1, <1>2, <1>4, <2>2, ReadShapes, ReadHand, RestStop
  <2>3. CASE InsertApply
    BY <1>1, <1>2, <2>3, ApplyShapes, PageKin, InsertHand, PageStop
  <2>4. CASE InsertCursor
    BY <1>1, <1>2, <2>4, CursorShapes, PageKin, InsertHand, PageStop
  <2>5. CASE Decide
    <3>1. rows' = rows
      BY <2>5 DEF Decide
    <3> QED
      BY <3>1, <1>1, <1>2, <1>4, <2>5, DecideShapes, DecideHand, RestStop
  <2>6. CASE Act
    <3>1. rows' = rows
      BY <2>6 DEF Act
    <3> QED
      BY <3>1, <1>1, <1>2, <1>4, <2>6, ActShapes, ActHand, RestStop
  <2>7. CASE Grant
    <3>1. rows' = rows
      BY <2>7 DEF Grant
    <3> QED
      BY <3>1, <1>1, <1>2, <1>4, <2>7, GrantShapes, GrantHand, RestStop
  <2>8. CASE Finish
    <3>1. Restated
      BY <1>1, <2>8, PutDown
    <3> QED
      BY <3>1, <1>1, <1>2, <1>3, <2>8, PutDownShapes, PutDownHand, RestStop
  <2> QED
    BY <1>16, <2>1, <2>2, <2>3, <2>4, <2>5, <2>6, <2>7, <2>8 DEF Serve
<1>17. CASE Throw
  <2>1. Restated
    BY <1>1, <1>17, PutDown
  <2> QED
    BY <2>1, <1>1, <1>2, <1>3, <1>17, PutDownShapes, PutDownHand, RestStop
<1>18. CASE Restart
  <2>1. Restated
    BY <1>1, <1>18, Reaped
  <2> QED
    BY <2>1, <1>1, <1>2, <1>3, <1>18, RestartShapes, RestartHand, RestStop
<1> QED
  BY <1>6, <1>7, <1>8, <1>9, <1>10, <1>11, <1>12, <1>13, <1>14, <1>15, <1>16, <1>17, <1>18
     DEF Next, Ground

(***************************************************************************)
(* What a step leaves as it is.                                            *)
(***************************************************************************)
\* The table grows, and a row that is done stays done.
TableStep == /\ Restated \/ \E n, r : Grown(n, r)
             /\ \A i \in Ids : rows[i].status \in {"succeeded", "failed"} =>
                                 rows'[i].status = rows[i].status

LEMMA TableSteps == ASSUME Ground, [Next]_vars PROVE TableStep
<1>1. Shapes /\ (\A i \in Ids : Kin(i)) /\ HandInv /\ StopInv
  BY DEF Ground
<1> HIDE DEF Kin
<1>2. ASSUME rows' = rows PROVE TableStep
  BY <1>1, <1>2, SameRestated DEF TableStep
<1>3. ASSUME NEW n, NEW r, Grown(n, r) PROVE TableStep
  BY <1>3 DEF TableStep, Grown
<1>4. ASSUME NEW S \in SUBSET Ids, CancelRows(S) PROVE TableStep
  BY <1>1, <1>4, CancelledRows DEF TableStep
<1>5. ASSUME NEW i \in due, Claim(i) PROVE TableStep
  <2>1. /\ i \in Ids /\ Restated /\ \A j \in Ids : j # i => rows'[j] = rows[j]
    BY <1>1, <1>5, Claimed
  <2>2. rows[i].status \in {"pending", "cancelled"}
    BY <1>1 DEF HandInv
  <2> QED
    BY <2>1, <2>2 DEF TableStep
<1>6. ASSUME Finish \/ Throw PROVE TableStep
  <2>1. /\ hand.row \in Ids /\ Restated /\ \A j \in Ids : j # hand.row => rows'[j] = rows[j]
        /\ hand.step # "idle"
    BY <1>1, <1>6, PutDown
  <2>2. rows[hand.row].status = "processing"
    BY <1>1, <2>1, HeldRow DEF Held
  <2> QED
    BY <2>1, <2>2 DEF TableStep
<1>7. ASSUME Restart PROVE TableStep
  BY <1>1, <1>7, Reaped DEF TableStep
<1>8. ASSUME InsertApply \/ InsertCursor PROVE TableStep
  BY <1>1, <1>2, <1>3, <1>8, ApplyFields, CursorFields
<1>9. CASE UNCHANGED vars
  BY <1>2, <1>9 DEF vars
<1>10. ASSUME NEW a \in Admins, Request(a) PROVE TableStep
  <2>1. CASE SaveLink(a) \/ DropRelink(a)
    BY <2>1, <1>2 DEF SaveLink, DropRelink
  <2>2. CASE SupersedeBatches(a)
    <3>1. UNION {Of(b) : b \in Superseded(a)} \in SUBSET Ids
      BY DEF Of
    <3> QED
      BY <3>1, <2>2, <1>4 DEF SupersedeBatches
  <2>3. CASE QueueRelink(a)
    BY <1>1, <1>3, <2>3, NewRun
  <2> QED
    BY <1>10, <2>1, <2>2, <2>3 DEF Request
<1>11. CASE QueueMove
  BY <1>1, <1>2, <1>3, <1>11, MoveQueued
<1>12. ASSUME NEW b \in Batches, Cancel(b) PROVE TableStep
  <2>1. Of(b) \in SUBSET Ids
    BY DEF Of
  <2> QED
    BY <2>1, <1>4, <1>12 DEF Cancel
<1>13. CASE \/ \E a \in Admins, s \in Subjects, r \in RoleOrNone : Load(a, s, r)
            \/ \E m \in Members, s \in Subjects : LoadMove(m, s)
            \/ SaveMove \/ Toggle \/ Tick
  BY <1>2, <1>13 DEF Load, LoadMove, SaveMove, Toggle, Tick
<1>14. CASE CheckExpand \/ ReadPage \/ Decide \/ Act \/ Grant
  BY <1>2, <1>14 DEF CheckExpand, ReadPage, Decide, Act, Grant
<1> QED
  BY <1>5, <1>6, <1>7, <1>8, <1>9, <1>10, <1>11, <1>12, <1>13, <1>14 DEF Next, Serve

\* What a row is about never changes.
LEMMA RowsStand ==
    ASSUME Shapes, TableStep
    PROVE  /\ Ids \subseteq Ids' /\ Batches \subseteq Batches'
           /\ \A i \in Ids : /\ rows'[i].kind = rows[i].kind
                             /\ rows'[i].batch = rows[i].batch
                             /\ rows'[i].subject = rows[i].subject
                             /\ rows'[i].who = rows[i].who
                             /\ rows'[i].out = rows[i].out
                             /\ rows'[i].in = rows[i].in
                             /\ rows'[i].skip = rows[i].skip
<1>1. CASE Restated
  BY <1>1, RestatedFields
<1>2. ASSUME NEW n, NEW r, Grown(n, r)
      PROVE  /\ Ids \subseteq Ids' /\ Batches \subseteq Batches'
             /\ \A i \in Ids : rows'[i] = rows[i]
  <2>1. Ids' = Ids \cup {n} /\ \A i \in Ids : rows'[i] = rows[i]
    BY <1>2 DEF Grown
  <2> QED
    BY <2>1 DEF Batches
<1> QED
  BY <1>1, <1>2 DEF TableStep

\* The books only grow; and who has not moved holds what they held.
BooksStep == /\ halted \subseteq halted' /\ strayed \subseteq strayed'
             /\ moved \subseteq moved' /\ missed \subseteq missed'
             /\ used'.toggles = 0 => used.toggles = 0
             /\ \A m \in Members, s \in Subjects :
                  m \notin moved' => (m \in holders'[s] <=> m \in holders[s])

LEMMA BooksSteps == ASSUME Ground, [Next]_vars PROVE BooksStep
<1>1. Shapes /\ used.toggles \in Nat
  <2>1. used \in UsedType /\ Shapes
    BY DEF Ground, Shapes
  <2> QED
    BY <2>1 DEF UsedType
<1>2. ASSUME NEW w \in Counters, Spend(w) PROVE used'.toggles = 0 => used.toggles = 0
  BY <1>1, <1>2, Spent
<1>3. CASE UNCHANGED vars
  BY <1>3 DEF BooksStep, vars, detours
<1>4. ASSUME NEW a \in Admins, NEW s \in Subjects, NEW r \in RoleOrNone, Load(a, s, r)
      PROVE  BooksStep
  BY <1>2, <1>4 DEF Load, BooksStep, catalogue, history, detours, Counters
<1>5. ASSUME NEW a \in Admins, Request(a) PROVE BooksStep
  BY <1>5 DEF Request, SaveLink, DropRelink, SupersedeBatches, QueueRelink, BooksStep, catalogue,
              history, detours
<1>6. ASSUME NEW m \in Members, NEW s \in Subjects, LoadMove(m, s) PROVE BooksStep
  BY <1>2, <1>6 DEF LoadMove, BooksStep, catalogue, history, detours, Counters
<1>7. CASE SaveMove
  <2>1. move.subject \in Subjects /\ move.who \in Members
    BY <1>1, <1>7, MoveFields DEF SaveMove
  <2>2. holders \in [Subjects -> SUBSET Members]
    BY <1>1 DEF Shapes
  <2>3. ASSUME NEW m \in Members, NEW s \in Subjects, m \notin moved'
        PROVE  m \in holders'[s] <=> m \in holders[s]
    <3>1. m # move.who
      BY <2>3, <1>7 DEF SaveMove
    <3> QED
      BY <3>1, <2>1, <2>2, <1>7 DEF SaveMove
  <2> QED
    BY <1>7, <2>3 DEF SaveMove, BooksStep, detours
<1>8. CASE QueueMove \/ Tick
  BY <1>8 DEF QueueMove, Tick, BooksStep, catalogue, history, detours
<1>9. CASE Toggle
  BY <1>2, <1>9 DEF Toggle, BooksStep, catalogue, history, detours, Counters
<1>10. ASSUME NEW b \in Batches, Cancel(b) PROVE BooksStep
  BY <1>2, <1>10 DEF Cancel, BooksStep, catalogue, history, detours, Counters
<1>11. ASSUME NEW i \in due, Claim(i) PROVE BooksStep
  BY <1>11 DEF Claim, BooksStep, catalogue, history, detours
<1>12. CASE Serve
  BY <1>12 DEF Serve, CheckExpand, ReadPage, InsertApply, InsertCursor, Decide, Act, Grant, Finish,
               BooksStep, catalogue, history, detours
<1>13. CASE Throw
  BY <1>2, <1>13 DEF Throw, BooksStep, catalogue, history, detours, Counters
<1>14. CASE Restart
  BY <1>2, <1>14 DEF Restart, BooksStep, catalogue, history, detours, Counters
<1> QED
  BY <1>3, <1>4, <1>5, <1>6, <1>7, <1>8, <1>9, <1>10, <1>11, <1>12, <1>13, <1>14 DEF Next

\* Who was disturbed stays so.
LEMMA CalmBefore ==
    ASSUME Shapes, TableStep, BooksStep, NEW b \in Batches, Undisturbed(b)' PROVE Undisturbed(b)
<1>1. used.toggles = 0 /\ \A h \in halted : h[1] # b
  BY DEF Undisturbed, BooksStep
<1>2. ASSUME NEW i \in Ids, rows[i].batch = b, rows[i].status = "failed" PROVE FALSE
  <2>1. i \in Ids' /\ rows'[i].batch = b /\ rows'[i].status = "failed"
    BY <1>2, RowsStand DEF TableStep
  <2> QED
    BY <2>1 DEF Undisturbed, InState, Of
<1> QED
  BY <1>1, <1>2 DEF Undisturbed, InState, Of

\* No row of an undisturbed run is cancelled, or has failed; and the gate is open.
LEMMA Calm ==
    ASSUME StopInv, NEW b, Undisturbed(b)
    PROVE  /\ live /\ used.toggles = 0 /\ \A h \in halted : h[1] # b
           /\ \A i \in Ids : rows[i].batch = b => rows[i].status \notin {"cancelled", "failed"}
<1>1. used.toggles = 0 /\ \A h \in halted : h[1] # b
  BY DEF Undisturbed
<1>2. live
  BY <1>1 DEF StopInv
<1>3. ASSUME NEW i \in Ids, rows[i].batch = b
      PROVE  rows[i].status \notin {"cancelled", "failed"}
  BY <1>1, <1>3 DEF StopInv, Undisturbed, InState, Of
<1> QED
  BY <1>1, <1>2, <1>3

(***************************************************************************)
(* A re-link reaches every holder.                                         *)
(***************************************************************************)
Open(i) == rows[i].status \in {"pending", "processing"}

\* Who is ahead of a cursor is beyond it; and while no page has been read, all who are.
LEMMA AheadBeyond ==
    ASSUME Shapes, HandInv, NEW i \in Ids, NEW m \in Ahead(i)
    PROVE  m \in Members /\ m > rows[i].who
<1>1. CASE hand.row = i /\ hand.step \in {"insert", "done"}
  <2>1. hand.step # "idle" /\ hand # Idle
    BY <1>1, IdleFields
  <2>2. Fits(hand, Held) /\ Held = rows[i]
    BY <1>1, <2>1 DEF HandInv, Held
  <2>3. hand.todo \in SUBSET Members /\ hand.more \in Members \cup {0}
    BY <2>1, HandFields
  <2>4. CASE m \in hand.todo
    <3>1. hand.step = "insert"
      BY <2>2, <2>4, <1>1 DEF Fits
    <3> QED
      BY <3>1, <2>2, <2>3, <2>4 DEF Fits
  <2>5. CASE m \notin hand.todo
    <3>1. m \in Members /\ hand.more # 0 /\ m > hand.more /\ hand.step = "insert"
      BY <1>1, <2>5 DEF Ahead
    <3>2. hand.more > rows[i].who
      BY <3>1, <2>2 DEF Fits
    <3>3. Members \in SUBSET Nat
      BY ConstantsAssumption
    <3>4. rows[i].who \in Members \cup {0}
      BY RowFields
    <3>5. PICK w, h : w = rows[i].who /\ h = hand.more
      OBVIOUS
    <3>6. w \in Nat /\ h \in Nat /\ m \in Nat
      <4>1. \A k \in Members : k \in Nat
        BY <3>3
      <4>2. \A k \in Members \cup {0} : k \in Nat
        BY <4>1
      <4> QED
        BY <4>1, <4>2, <3>1, <3>4, <3>5, <2>3
    <3>7. m > h /\ h > w
      BY <3>1, <3>2, <3>5
    <3>8. m > w
      BY <3>6, <3>7
    <3> QED
      BY <3>8, <3>5, <3>1
  <2> QED
    BY <2>4, <2>5
<1>2. CASE ~(hand.row = i /\ hand.step \in {"insert", "done"})
  BY <1>2 DEF Ahead
<1> QED
  BY <1>1, <1>2

LEMMA AheadPlain ==
    ASSUME NEW i, ~(hand.row = i /\ hand.step \in {"insert", "done"}), NEW m
    PROVE  m \in Ahead(i) <=> m \in Members /\ m > rows[i].who
  BY DEF Ahead

LEMMA AheadOf ==
    ASSUME NEW i, hand.row = i, hand.step \in {"insert", "done"}, NEW m
    PROVE  m \in Ahead(i) <=> \/ m \in hand.todo
                              \/ /\ m \in Members /\ hand.more # 0 /\ m > hand.more
                                 /\ hand.step = "insert"
  BY DEF Ahead

\* Somebody has m ahead of them in the run of row i, or a job for m, in the next state.
Onward(i, m) ==
    \E j \in Ids' :
      /\ rows'[j].batch = rows[i].batch /\ rows'[j].subject = rows[i].subject
      /\ rows'[j].skip = rows[i].skip /\ rows'[j].out = rows[i].out /\ rows'[j].in = rows[i].in
      /\ rows'[j].status \in {"pending", "processing"}
      /\ \/ rows'[j].kind = "expand" /\ m \in Ahead(j)'
         \/ rows'[j].kind = "apply" /\ rows'[j].who = m /\ hand'.row # j

\* The row itself goes on, when its status allows and m stays ahead of it.
LEMMA GoesOn ==
    ASSUME Shapes, TableStep, NEW i \in Ids, rows[i].kind = "expand",
           rows'[i].status \in {"pending", "processing"}, NEW m, m \in Ahead(i)'
    PROVE  Onward(i, m)
<1>1. i \in Ids'
  BY RowsStand
<1> QED
  BY <1>1, RowsStand DEF Onward

LEMMA StaysAhead ==
    ASSUME Shapes, TableStep, NEW i \in Ids, rows[i].kind = "expand", Open(i),
           NEW m, m \in Ahead(i), rows'[i].status = rows[i].status, hand' = hand
    PROVE  Onward(i, m)
<1>1. rows'[i].who = rows[i].who
  BY RowsStand
<1>2. m \in Ahead(i)'
  BY <1>1 DEF Ahead
<1> QED
  BY <1>2, GoesOn DEF Open

\* A cursor nobody reads the page of has all beyond it ahead.
LEMMA PlainAhead ==
    ASSUME Shapes, HandInv, TableStep, NEW i \in Ids, rows[i].kind = "expand",
           rows'[i].status \in {"pending", "processing"}, NEW m \in Ahead(i),
           ~(hand'.row = i /\ hand'.step \in {"insert", "done"})
    PROVE  Onward(i, m)
<1>1. m \in Members /\ m > rows[i].who
  BY AheadBeyond
<1>2. rows'[i].who = rows[i].who
  BY RowsStand
<1>3. m \in Ahead(i)'
  BY <1>1, <1>2 DEF Ahead
<1> QED
  BY <1>3, GoesOn

LEMMA CursorGoesOn ==
    ASSUME Ground, [Next]_vars, NEW i \in Ids, rows[i].kind = "expand", Open(i), NEW m \in Ahead(i),
           m \in Affected(rows[i].subject, rows[i].skip), Undisturbed(rows[i].batch),
           \A h \in halted' : h[1] # rows[i].batch, rows'[i].status # "failed"
    PROVE  Onward(i, m)
<1>1. Shapes /\ (\A j \in Ids : Kin(j)) /\ HandInv /\ StopInv /\ TableStep /\ BooksStep
  BY TableSteps, BooksSteps DEF Ground
<1> HIDE DEF Kin
<1>2. /\ live /\ \A j \in Ids : rows[j].batch = rows[i].batch =>
                                  rows[j].status \notin {"cancelled", "failed"}
  BY <1>1, Calm
<1>3. ASSUME rows'[i].status = rows[i].status, hand' = hand PROVE Onward(i, m)
  BY <1>1, <1>3, StaysAhead
<1>4. ASSUME rows' = rows, hand' = hand PROVE Onward(i, m)
  BY <1>3, <1>4
<1>5. ASSUME rows'[i].status = rows[i].status, ~(hand'.row = i /\ hand'.step \in {"insert", "done"})
      PROVE  Onward(i, m)
  BY <1>1, <1>5, PlainAhead DEF Open
<1>6. m \in Members /\ m > rows[i].who
  BY <1>1, AheadBeyond
<1>7. i # 0
  BY <1>1, RowFields
<1>8. hand.row = i => /\ Held = rows[i] /\ Fits(hand, Held) /\ hand.step # "idle"
                      /\ hand.todo \in SUBSET Members /\ hand.more \in Members \cup {0}
  <2>1. SUFFICES ASSUME hand.row = i
                 PROVE  /\ Held = rows[i] /\ Fits(hand, Held) /\ hand.step # "idle"
                        /\ hand.todo \in SUBSET Members /\ hand.more \in Members \cup {0}
    OBVIOUS
  <2>2. hand # Idle
    BY <2>1, <1>7, IdleFields
  <2>3. hand.step # "idle"
    BY <2>2, <1>1, Busy
  <2> QED
    BY <2>1, <2>2, <2>3, <1>1, HandFields DEF HandInv, Held
<1>9. CASE CheckExpand
  <2>1. rows' = rows
    BY <1>9 DEF CheckExpand
  <2>2. CASE hand.row = i
    <3>1. InState(Of(Held.batch), "cancelled") = {}
      BY <1>2, <1>8, <2>2 DEF InState, Of
    <3>2. ~StopsExpanding
      BY <1>2, <3>1 DEF StopsExpanding
    <3>3. hand'.step = "page"
      <4>1. hand.step # "idle" /\ hand' = [hand EXCEPT !.step = "page"]
        BY <1>9, <3>2 DEF CheckExpand
      <4> QED
        BY <1>1, <4>1, HandStep
    <3> QED
      BY <1>5, <2>1, <3>3
  <2>3. CASE hand.row # i
    <3>1. hand'.row = hand.row
      <4>1. PICK t \in {"done", "page"} : hand.step # "idle" /\ hand' = [hand EXCEPT !.step = t]
        BY <1>9 DEF CheckExpand
      <4> QED
        BY <1>1, <4>1, HandStep
    <3> QED
      BY <1>5, <2>1, <2>3, <3>1
  <2> QED
    BY <2>2, <2>3
<1>10. CASE ReadPage
  <2>1. rows' = rows /\ hand.step = "page"
    BY <1>10 DEF ReadPage
  <2>2. /\ hand'.row = hand.row /\ hand'.step = "insert" /\ hand'.todo = Page
        /\ hand'.more = NextCursor
    BY <1>1, <1>10, ReadFields
  <2>3. CASE hand.row = i
    <3>1. m \in Page \/ (NextCursor # 0 /\ m > NextCursor)
      BY <1>1, <1>6, <1>8, <2>1, <2>3, PageReaches
    <3>2. m \in Ahead(i)'
      BY <2>2, <2>3, <3>1, <1>6 DEF Ahead
    <3> QED
      BY <1>1, <2>1, <3>2, GoesOn DEF Open
  <2>4. CASE hand.row # i
    BY <1>5, <2>1, <2>2, <2>4
  <2> QED
    BY <2>3, <2>4
<1>11. CASE InsertApply
  <2>1. PICK n, r : Grown(n, r) /\ r = Apply
    BY <1>1, <1>11, ApplyFields
  <2>2. /\ hand'.row = hand.row /\ hand'.step = "insert" /\ hand'.more = hand.more
        /\ hand'.todo = hand.todo \ {First(hand.todo)} /\ hand.step = "insert"
    BY <1>1, <1>11, ApplyFields DEF InsertApply
  <2>3. rows'[i] = rows[i] /\ n \in Ids' /\ rows'[n] = r /\ n \notin Ids
    BY <2>1 DEF Grown
  <2>4. CASE hand.row = i /\ m = First(hand.todo)
    <3>1. /\ r.kind = "apply" /\ r.who = m /\ r.status = "pending" /\ r.batch = rows[i].batch
          /\ r.subject = rows[i].subject /\ r.skip = rows[i].skip
          /\ r.out = rows[i].out /\ r.in = rows[i].in
      BY <2>1, <2>4, <1>8, RowOf DEF Apply
    <3>2. hand'.row # n
      BY <2>2, <2>3, <2>4
    <3> QED
      BY <2>3, <3>1, <3>2 DEF Onward
  <2>5. CASE hand.row = i /\ m # First(hand.todo)
    <3>1. m \in Ahead(i)'
      BY <2>2, <2>5, <1>6 DEF Ahead
    <3> QED
      BY <1>1, <2>3, <3>1, GoesOn DEF Open
  <2>6. CASE hand.row # i
    BY <1>5, <2>2, <2>3, <2>6
  <2> QED
    BY <2>4, <2>5, <2>6
<1>12. CASE InsertCursor
  <2>1. /\ hand'.row = hand.row /\ hand'.step = "done" /\ hand'.todo = {} /\ hand.todo = {}
        /\ hand.step = "insert"
    BY <1>1, <1>12, CursorFields DEF InsertCursor
  <2>2. CASE hand.row = i
    <3>1. hand.more # 0 /\ m > hand.more
      BY <2>1, <2>2, AheadOf
    <3>2. PICK n, r : Grown(n, r) /\ r = Cursor
      BY <1>1, <1>12, <3>1, CursorFields
    <3>3. /\ r.kind = "expand" /\ r.who = hand.more /\ r.status = "pending"
          /\ r.batch = rows[i].batch /\ r.subject = rows[i].subject /\ r.skip = rows[i].skip
          /\ r.out = rows[i].out /\ r.in = rows[i].in
      BY <3>2, <2>2, <1>8, RowOf DEF Cursor
    <3>4. n \in Ids' /\ rows'[n] = r /\ n # i
      BY <3>2 DEF Grown
    <3>5. hand'.row # n
      BY <2>1, <2>2, <3>4
    <3>6. m \in Ahead(n)'
      BY <3>1, <3>3, <3>4, <3>5, <1>6 DEF Ahead
    <3> QED
      BY <3>3, <3>4, <3>6 DEF Onward
  <2>3. CASE hand.row # i
    <3>1. rows'[i] = rows[i]
      <4>1. CASE hand.more = 0
        BY <4>1, <1>1, <1>12, CursorFields
      <4>2. CASE hand.more # 0
        BY <4>2, <1>1, <1>12, CursorFields DEF Grown
      <4> QED
        BY <4>1, <4>2
    <3> QED
      BY <1>5, <2>1, <2>3, <3>1
  <2> QED
    BY <2>2, <2>3
<1>13. CASE Decide \/ Act \/ Grant
  <2>1. rows' = rows /\ hand.step \in {"apply", "scoped", "act", "grant"}
    BY <1>13 DEF Decide, Act, Grant
  <2>2. hand.row # i
    BY <1>8, <2>1 DEF Fits
  <2>3. hand'.row = hand.row
    BY <1>1, <1>13, DecideFields, ActFields, GrantFields
  <2> QED
    BY <1>5, <2>1, <2>2, <2>3
<1>14. CASE Finish \/ Throw
  <2>1. /\ hand' = Idle /\ \A j \in Ids : j # hand.row => rows'[j] = rows[j]
        /\ Finish => rows'[hand.row].status = "succeeded"
        /\ Throw => rows'[hand.row].status \in {"pending", "failed"}
    BY <1>1, <1>14, PutDown
  <2>2. hand'.row # i
    BY <2>1, <1>7, IdleFields
  <2>3. CASE hand.row # i
    BY <1>5, <2>1, <2>2, <2>3
  <2>4. CASE hand.row = i
    <3>1. ~Finish
      <4>1. SUFFICES ASSUME Finish PROVE FALSE
        OBVIOUS
      <4>2. hand.step = "done"
        BY <4>1 DEF Finish
      <4>3. m \in hand.todo
        BY <4>2, <2>4, AheadOf
      <4> QED
        BY <4>2, <4>3, <1>8, <2>4 DEF Fits
    <3>2. rows'[i].status = "pending"
      BY <3>1, <1>14, <2>1, <2>4
    <3> QED
      BY <3>2, <2>2, <1>1, PlainAhead
  <2> QED
    BY <2>3, <2>4
<1>15. CASE Restart
  <2>1. /\ hand' = Idle
        /\ IF rows[i].status = "processing" THEN rows'[i].status = "pending" ELSE rows'[i] = rows[i]
    BY <1>1, <1>15, Reaped
  <2>2. hand'.row # i
    BY <2>1, <1>7, IdleFields
  <2>3. rows'[i].status \in {"pending", "processing"}
    BY <2>1 DEF Open
  <2> QED
    BY <2>2, <2>3, <1>1, PlainAhead
<1>16. ASSUME NEW k \in due, Claim(k) PROVE Onward(i, m)
  <2>1. /\ k \in Ids /\ rows'[k].status = "processing"
        /\ \A j \in Ids : j # k => rows'[j] = rows[j]
        /\ hand'.row = k /\ hand'.step = rows[k].kind
    BY <1>1, <1>16, Claimed
  <2>2. rows'[i].status \in {"pending", "processing"}
    BY <2>1 DEF Open
  <2>3. ~(hand'.row = i /\ hand'.step \in {"insert", "done"})
    BY <2>1
  <2> QED
    BY <2>2, <2>3, <1>1, PlainAhead
<1>17. ASSUME NEW a \in Admins, Request(a) PROVE Onward(i, m)
  <2>1. CASE SaveLink(a) \/ DropRelink(a)
    BY <2>1, <1>4 DEF SaveLink, DropRelink, worker
  <2>2. CASE SupersedeBatches(a)
    <3> DEFINE S == UNION {Of(b) : b \in Superseded(a)}
    <3>1. S \in SUBSET Ids /\ CancelRows(S) /\ hand' = hand
      BY <2>2 DEF Of, SupersedeBatches, worker
    <3>2. i \notin S
      <4>1. SUFFICES ASSUME NEW b \in Superseded(a), i \in Of(b) PROVE FALSE
        OBVIOUS
      <4>2. rows[i].batch = b
        BY <4>1 DEF Of
      <4> QED
        BY <4>1, <4>2, <2>2, <1>1, SupersedeStops
    <3> HIDE DEF S
    <3>3. rows'[i] = rows[i]
      BY <1>1, <3>1, <3>2, CancelledRows
    <3> QED
      BY <1>3, <3>1, <3>3
  <2>3. CASE QueueRelink(a)
    <3>1. PICK n, r : Grown(n, r)
      BY <1>1, <2>3, NewRun
    <3> QED
      BY <3>1, <1>3, <2>3 DEF Grown, QueueRelink, worker
  <2> QED
    BY <1>17, <2>1, <2>2, <2>3 DEF Request
<1>18. CASE QueueMove
  <2>1. rows'[i] = rows[i]
    BY <1>1, <1>18, MoveQueued DEF Grown
  <2> QED
    BY <2>1, <1>3, <1>18 DEF QueueMove, worker
<1>19. ASSUME NEW b \in Batches, Cancel(b) PROVE Onward(i, m)
  <2>1. Of(b) \in SUBSET Ids /\ CancelRows(Of(b)) /\ hand' = hand
    BY <1>19 DEF Of, Cancel, worker
  <2>2. ~(i \in Of(b) /\ rows[i].status = "pending")
    BY <1>1, <1>19, CancelStops DEF Of
  <2>3. rows'[i] = rows[i]
    BY <1>1, <2>1, <2>2, CancelledRows
  <2> QED
    BY <2>1, <2>3, <1>3
<1>20. CASE \/ \E a \in Admins, s \in Subjects, r \in RoleOrNone : Load(a, s, r)
            \/ \E k \in Members, s \in Subjects : LoadMove(k, s)
            \/ SaveMove \/ Toggle \/ Tick
  <2>1. rows' = rows /\ hand' = hand
    BY <1>20 DEF Load, LoadMove, SaveMove, Toggle, Tick, worker
  <2> QED
    BY <2>1, <1>4
<1>21. CASE UNCHANGED vars
  BY <1>4, <1>21 DEF vars
<1> QED
  BY <1>9, <1>10, <1>11, <1>12, <1>13, <1>14, <1>15, <1>16, <1>17, <1>18, <1>19, <1>20, <1>21
     DEF Next, Serve

\* Where a new row comes from.
LEMMA NewRow ==
    ASSUME Ground, [Next]_vars, NEW n \in Ids', n \notin Ids
    PROVE  /\ n = Len(rows) + 1 /\ rows'[n].status = "pending" /\ hand'.row # n
           /\ \/ \E a \in Admins :
                   /\ QueueRelink(a)
                   /\ rows'[n] = Row("expand", n, req[a].subject, 0, req[a].prev,
                                     req[a].next, Actor[a])
              \/ QueueMove /\ rows'[n].kind = "scoped" /\ rows'[n].batch = 0
              \/ InsertApply /\ rows'[n] = Apply
              \/ InsertCursor /\ rows'[n] = Cursor /\ Held.batch # n
<1>1. Shapes /\ (\A i \in Ids : Kin(i)) /\ HandInv /\ StopInv
  BY DEF Ground
<1> HIDE DEF Kin
<1>2. ASSUME rows' = rows PROVE FALSE
  BY <1>2 DEF Ids
<1>3. ASSUME Restated PROVE FALSE
  BY <1>1, <1>3, RestatedFields
<1>4. ASSUME NEW S \in SUBSET Ids, CancelRows(S) PROVE FALSE
  BY <1>1, <1>3, <1>4, CancelledRows
<1>5. ASSUME NEW r, Grown(Len(rows) + 1, r) PROVE n = Len(rows) + 1 /\ rows'[n] = r
  BY <1>5 DEF Grown
<1>6. hand.row \in Ids \cup {0} /\ n # 0 /\ hand.row # n
  <2>1. hand # Idle => hand.row \in Ids
    BY <1>1 DEF HandInv
  <2>2. Len(rows') \in Nat /\ n # 0
    <3>1. Shapes'
      BY GroundHolds DEF Ground
    <3>2. rows' \in Seq(RowType)
      BY <3>1 DEF Shapes
    <3> QED
      BY <3>2 DEF Ids
  <2> QED
    BY <2>1, <2>2, IdleFields
<1>7. CASE \/ \E a \in Admins, s \in Subjects, r \in RoleOrNone : Load(a, s, r)
           \/ \E m \in Members, s \in Subjects : LoadMove(m, s)
           \/ SaveMove \/ Toggle \/ Tick
  BY <1>2, <1>7 DEF Load, LoadMove, SaveMove, Toggle, Tick
<1>8. CASE CheckExpand \/ ReadPage \/ Decide \/ Act \/ Grant
  BY <1>2, <1>8 DEF CheckExpand, ReadPage, Decide, Act, Grant
<1>9. CASE (\E i \in due : Claim(i)) \/ Finish \/ Throw \/ Restart
  BY <1>1, <1>3, <1>9, Claimed, PutDown, Reaped
<1>10. CASE InsertApply
  <2>1. Apply.status = "pending"
    BY RowOf DEF Apply
  <2> QED
    BY <2>1, <1>1, <1>5, <1>6, <1>10, ApplyFields
<1>11. CASE InsertCursor
  <2>1. hand.more # 0 => Grown(Len(rows) + 1, Cursor)
    BY <1>1, <1>11, CursorFields
  <2>2. Cursor.status = "pending"
    BY RowOf DEF Cursor
  <2>3. Held.batch # n
    <3>1. hand.step \in {"expand", "page", "insert"}
      BY <1>11 DEF InsertCursor
    <3> QED
      BY <3>1, <1>1, HeldRun
  <2> QED
    BY <2>1, <2>2, <2>3, <1>1, <1>2, <1>5, <1>6, <1>11, CursorFields
<1>12. CASE QueueMove
  <2> DEFINE r == Row("scoped", 0, move.subject, move.who, move.role, NoRole, 0)
  <2>1. rows' = rows \/ \E k : Grown(k, r)
    BY <1>1, <1>12, MoveQueued
  <2>2. r.kind = "scoped" /\ r.batch = 0 /\ r.status = "pending"
    BY RowOf
  <2> HIDE DEF r
  <2>3. PICK k : Grown(k, r)
    BY <2>1, <1>2
  <2>4. k = Len(rows) + 1
    BY <2>3 DEF Grown
  <2>5. hand' = hand
    BY <1>12 DEF QueueMove, worker
  <2> QED
    BY <2>2, <2>3, <2>4, <2>5, <1>5, <1>6, <1>12
<1>13. ASSUME NEW c \in Batches, Cancel(c) PROVE FALSE
  <2>1. Of(c) \in SUBSET Ids
    BY DEF Of
  <2> QED
    BY <2>1, <1>4, <1>13 DEF Cancel
<1>14. ASSUME NEW a \in Admins, Request(a)
       PROVE  /\ n = Len(rows) + 1 /\ rows'[n].status = "pending" /\ hand'.row # n
              /\ QueueRelink(a)
              /\ rows'[n] = Row("expand", n, req[a].subject, 0, req[a].prev, req[a].next, Actor[a])
  <2>1. CASE SaveLink(a) \/ DropRelink(a)
    BY <2>1, <1>2 DEF SaveLink, DropRelink
  <2>2. CASE SupersedeBatches(a)
    <3>1. UNION {Of(c) : c \in Superseded(a)} \in SUBSET Ids
      BY DEF Of
    <3> QED
      BY <3>1, <2>2, <1>4 DEF SupersedeBatches
  <2>3. CASE QueueRelink(a)
    <3> DEFINE r == Row("expand", Len(rows) + 1, req[a].subject, 0, req[a].prev, req[a].next,
                        Actor[a])
    <3>1. Grown(Len(rows) + 1, r)
      BY <1>1, <2>3, NewRun
    <3>2. r.status = "pending"
      BY RowOf
    <3>3. n = Len(rows) + 1 /\ rows'[n] = r
      <4> HIDE DEF r
      <4> QED
        BY <3>1, <1>5
    <3>4. hand' = hand
      BY <2>3 DEF QueueRelink, worker
    <3> QED
      BY <2>3, <3>2, <3>3, <3>4, <1>6
  <2> QED
    BY <1>14, <2>1, <2>2, <2>3 DEF Request
<1>15. CASE UNCHANGED vars
  BY <1>2, <1>15 DEF vars
<1> QED
  BY <1>7, <1>8, <1>9, <1>10, <1>11, <1>12, <1>13, <1>14, <1>15 DEF Next, Serve

\* Only an administrator's request begins a run.
LEMMA NewBatch ==
    ASSUME Ground, [Next]_vars, NEW b \in Batches', b \notin Batches
    PROVE  \E a \in Admins : QueueRelink(a) /\ b = Len(rows) + 1
<1>1. b \in Ids' /\ rows'[b].kind = "expand" /\ rows'[b].batch = b
  BY DEF Batches
<1>2. b \notin Ids
  <2>1. Shapes /\ TableStep
    BY TableSteps DEF Ground
  <2> QED
    BY <2>1, <1>1, RowsStand DEF Batches
<1>3. Apply.kind = "apply" /\ Cursor.batch = Held.batch
  BY RowOf DEF Apply, Cursor
<1> QED
  BY <1>1, <1>2, <1>3, NewRow

\* What a run that was calm was about before the step.
LEMMA AsBefore ==
    ASSUME Ground, [Next]_vars, NEW b \in Batches, Undisturbed(b)',
           NEW m \in (Affected(rows[b].subject, rows[b].skip) \ moved)'
    PROVE  /\ Undisturbed(b) /\ rows'[b] \in RowType /\ m \in Members
           /\ rows'[b].subject = rows[b].subject /\ rows'[b].skip = rows[b].skip
           /\ rows'[b].in = rows[b].in /\ rows'[b].out = rows[b].out
           /\ m \in Affected(rows[b].subject, rows[b].skip) \ moved
<1>1. Shapes /\ Shapes' /\ TableStep /\ BooksStep
  BY TableSteps, BooksSteps, GroundHolds DEF Ground
<1>2. Undisturbed(b)
  BY <1>1, CalmBefore
<1>3. b \in Ids /\ b \in Ids'
  BY <1>1, RowsStand DEF Batches
<1>4. /\ rows'[b].subject = rows[b].subject /\ rows'[b].skip = rows[b].skip
      /\ rows'[b].in = rows[b].in /\ rows'[b].out = rows[b].out
  BY <1>1, <1>3, RowsStand
<1>5. rows'[b] \in RowType /\ rows[b].subject \in Subjects
  <2>1. rows' \in Seq(RowType)
    BY <1>1 DEF Shapes
  <2> QED
    BY <2>1, <1>1, <1>3, RowFields DEF Ids
<1>6. m \in holders'[rows[b].subject] /\ m # rows[b].skip /\ m \notin moved'
  BY <1>4 DEF Affected
<1>7. m \in Members
  <2>1. holders' \in [Subjects -> SUBSET Members]
    BY <1>1 DEF Shapes
  <2> QED
    BY <2>1, <1>5, <1>6
<1>8. m \in holders[rows[b].subject] /\ m \notin moved
  BY <1>1, <1>5, <1>6, <1>7 DEF BooksStep
<1> QED
  BY <1>2, <1>4, <1>5, <1>6, <1>7, <1>8 DEF Affected

LEMMA ReachedBefore ==
    ASSUME Ground, [Next]_vars, NEW b \in Batches, Undisturbed(b)',
           NEW m \in (Affected(rows[b].subject, rows[b].skip) \ moved)',
           \/ \E i \in Applies(b) : rows[i].who = m
           \/ \E i \in Active(Expands(b)) : m \in Ahead(i)
    PROVE  \/ \E i \in Applies(b)' : rows'[i].who = m
           \/ \E i \in Active(Expands(b))' : m \in Ahead(i)'
<1>1. Shapes /\ (\A i \in Ids : Kin(i)) /\ TableStep /\ BooksStep
  BY TableSteps, BooksSteps DEF Ground
<1> HIDE DEF Kin
<1>2. /\ Undisturbed(b) /\ m \in Affected(rows[b].subject, rows[b].skip)
  BY AsBefore
<1>3. CASE \E i \in Applies(b) : rows[i].who = m
  <2>1. PICK i \in Applies(b) : rows[i].who = m
    BY <1>3
  <2>2. i \in Ids /\ rows[i].kind = "apply" /\ rows[i].batch = b
    BY DEF Applies, Of
  <2>3. i \in Ids' /\ rows'[i].kind = "apply" /\ rows'[i].batch = b /\ rows'[i].who = m
    BY <2>1, <2>2, <1>1, RowsStand
  <2> QED
    BY <2>3 DEF Applies, Of
<1>4. CASE \E i \in Active(Expands(b)) : m \in Ahead(i)
  <2>1. PICK i \in Active(Expands(b)) : m \in Ahead(i)
    BY <1>4
  <2>2. i \in Ids /\ rows[i].kind = "expand" /\ rows[i].batch = b /\ Open(i)
    BY DEF Active, InState, Expands, Of, Open
  <2>3. b # 0
    BY <1>1, RowFields DEF Batches
  <2>4. rows[b].subject = rows[i].subject /\ rows[b].skip = rows[i].skip
    BY <1>1, <2>2, <2>3, SeedOf
  <2>5. i \in Ids' /\ rows'[i].batch = b
    BY <1>1, <2>2, RowsStand
  <2>6. rows'[i].status # "failed"
    BY <2>5 DEF Undisturbed, InState, Of
  <2>7. \A h \in halted' : h[1] # b
    BY DEF Undisturbed
  <2>8. Onward(i, m)
    BY <2>1, <2>2, <2>4, <2>6, <2>7, <1>2, CursorGoesOn
  <2>9. PICK j \in Ids' :
          /\ rows'[j].batch = b /\ rows'[j].status \in {"pending", "processing"}
          /\ \/ rows'[j].kind = "expand" /\ m \in Ahead(j)'
             \/ rows'[j].kind = "apply" /\ rows'[j].who = m
    BY <2>2, <2>8 DEF Onward
  <2> QED
    BY <2>9 DEF Applies, Active, InState, Expands, Of
<1> QED
  BY <1>3, <1>4

LEMMA SkippedHolds == ASSUME Ground, NobodySkipped, [Next]_vars PROVE NobodySkipped'
<1>1. SUFFICES ASSUME NEW b \in Batches', Undisturbed(b)',
                      NEW m \in (Affected(rows[b].subject, rows[b].skip) \ moved)'
               PROVE  \/ \E i \in Applies(b)' : rows'[i].who = m
                      \/ \E i \in Active(Expands(b))' : m \in Ahead(i)'
  BY DEF NobodySkipped
<1>2. CASE b \in Batches
  <2>1. Undisturbed(b) /\ m \in Affected(rows[b].subject, rows[b].skip) \ moved
    BY <1>1, <1>2, AsBefore
  <2>2. \/ \E i \in Applies(b) : rows[i].who = m
        \/ \E i \in Active(Expands(b)) : m \in Ahead(i)
    BY <1>2, <2>1 DEF NobodySkipped
  <2> QED
    BY <1>1, <1>2, <2>2, ReachedBefore
<1>3. CASE b \notin Batches
  <2>1. PICK a \in Admins : QueueRelink(a) /\ b = Len(rows) + 1
    BY <1>1, <1>3, NewBatch
  <2>2. Shapes /\ HandInv /\ Shapes'
    BY GroundHolds DEF Ground
  <2>3. PICK n, r : /\ Grown(n, r) /\ n = b
                    /\ r = Row("expand", Len(rows) + 1, req[a].subject, 0, req[a].prev,
                               req[a].next, Actor[a])
    BY <2>1, <2>2, NewRun
  <2>4. /\ rows'[b] = r /\ b \in Ids' /\ b \notin Ids
    BY <2>3 DEF Grown
  <2>5. r.kind = "expand" /\ r.batch = b /\ r.who = 0 /\ r.status = "pending"
    BY <2>1, <2>3, RowOf
  <2>6. m \in Members
    <3>1. holders' \in [Subjects -> SUBSET Members]
      BY <2>2 DEF Shapes
    <3>2. rows'[b].subject \in Subjects
      <4>1. rows' \in Seq(RowType) /\ b \in 1..Len(rows')
        BY <2>2, <2>4 DEF Shapes, Ids
      <4>2. rows'[b] \in RowType
        BY <4>1
      <4> QED
        BY <4>2 DEF RowType
    <3> QED
      BY <3>1, <3>2 DEF Affected
  <2>7. m > 0
    BY <2>6, ConstantsAssumption
  <2>8. hand'.row # b
    <3>1. hand' = hand
      BY <2>1 DEF QueueRelink, worker
    <3>2. hand # Idle => hand.row \in Ids
      BY <2>2 DEF HandInv
    <3>3. b # 0
      BY <2>1, <2>2, TableType
    <3> QED
      BY <3>1, <3>2, <3>3, <2>4, IdleFields
  <2>9. m \in Ahead(b)'
    BY <2>4, <2>5, <2>6, <2>7, <2>8 DEF Ahead
  <2>10. b \in Active(Expands(b))'
    BY <2>4, <2>5 DEF Active, InState, Expands, Of
  <2> QED
    BY <2>9, <2>10
<1> QED
  BY <1>2, <1>3

(***************************************************************************)
(* Whose job is behind wears the role.                                     *)
(***************************************************************************)
\* What the worker's hand may turn to.
LEMMA HandTurns ==
    ASSUME [Next]_vars, hand' # hand
    PROVE  \/ hand' = Idle \/ \E k \in due : Claim(k)
           \/ CheckExpand \/ ReadPage \/ InsertApply \/ InsertCursor \/ Decide \/ Act \/ Grant
<1>1. CASE Finish \/ Throw \/ Restart
  BY <1>1 DEF Finish, Throw, Restart
<1>2. CASE \/ \E a \in Admins, s \in Subjects, r \in RoleOrNone : Load(a, s, r)
           \/ \E m \in Members, s \in Subjects : LoadMove(m, s)
           \/ SaveMove \/ QueueMove \/ Toggle \/ Tick \/ \E b \in Batches : Cancel(b)
  BY <1>2 DEF Load, LoadMove, SaveMove, QueueMove, Toggle, Tick, Cancel, worker
<1>3. CASE \E a \in Admins : Request(a)
  BY <1>3 DEF Request, SaveLink, DropRelink, SupersedeBatches, QueueRelink, worker
<1>4. CASE UNCHANGED vars
  BY <1>4 DEF vars
<1> QED
  BY <1>1, <1>2, <1>3, <1>4 DEF Next, Serve

\* A job comes behind by being finished.
LEMMA TurnsDone ==
    ASSUME Ground, [Next]_vars, NEW i \in Ids, rows'[i].status = "succeeded",
           rows[i].status # "succeeded"
    PROVE  Finish /\ hand.row = i
<1>1. Shapes /\ HandInv
  BY DEF Ground
<1>2. ASSUME rows' = rows \/ \E n, r : Grown(n, r) PROVE FALSE
  BY <1>2 DEF Grown
<1>3. ASSUME NEW S \in SUBSET Ids, CancelRows(S) PROVE FALSE
  BY <1>1, <1>3, CancelledRows
<1>4. CASE \/ \E a \in Admins, s \in Subjects, r \in RoleOrNone : Load(a, s, r)
           \/ \E m \in Members, s \in Subjects : LoadMove(m, s)
           \/ SaveMove \/ Toggle \/ Tick
  BY <1>2, <1>4 DEF Load, LoadMove, SaveMove, Toggle, Tick
<1>5. CASE CheckExpand \/ ReadPage \/ Decide \/ Act \/ Grant
  BY <1>2, <1>5 DEF CheckExpand, ReadPage, Decide, Act, Grant
<1>6. CASE \E k \in due : Claim(k)
  BY <1>1, <1>6, Claimed
<1>7. CASE Finish \/ Throw
  BY <1>1, <1>7, PutDown
<1>8. CASE Restart
  BY <1>1, <1>8, Reaped
<1>9. CASE InsertApply \/ InsertCursor
  BY <1>1, <1>2, <1>9, ApplyFields, CursorFields
<1>10. CASE QueueMove
  BY <1>1, <1>2, <1>10, MoveQueued
<1>11. ASSUME NEW c \in Batches, Cancel(c) PROVE FALSE
  <2>1. Of(c) \in SUBSET Ids
    BY DEF Of
  <2> QED
    BY <2>1, <1>3, <1>11 DEF Cancel
<1>12. ASSUME NEW a \in Admins, Request(a) PROVE FALSE
  <2>1. UNION {Of(c) : c \in Superseded(a)} \in SUBSET Ids
    BY DEF Of
  <2> QED
    BY <2>1, <1>1, <1>2, <1>3, <1>12, NewRun
       DEF Request, SaveLink, DropRelink, SupersedeBatches
<1>13. CASE UNCHANGED vars
  BY <1>2, <1>13 DEF vars
<1> QED
  BY <1>4, <1>5, <1>6, <1>7, <1>8, <1>9, <1>10, <1>11, <1>12, <1>13 DEF Next, Serve

\* Only the two passes of a job change the guild.
LEMMA GuildTurns == ASSUME [Next]_vars, wears' # wears PROVE Act \/ Grant
<1>1. CASE Throw \/ Restart \/ Serve \/ \E k \in due : Claim(k)
  BY <1>1 DEF Throw, Restart, Claim, Serve, CheckExpand, ReadPage, InsertApply, InsertCursor, Decide, Finish
<1>2. CASE \/ \E a \in Admins, s \in Subjects, r \in RoleOrNone : Load(a, s, r)
           \/ \E m \in Members, s \in Subjects : LoadMove(m, s)
           \/ SaveMove \/ QueueMove \/ Toggle \/ Tick \/ \E b \in Batches : Cancel(b)
  BY <1>2 DEF Load, LoadMove, SaveMove, QueueMove, Toggle, Tick, Cancel
<1>3. CASE \E a \in Admins : Request(a)
  BY <1>3 DEF Request, SaveLink, DropRelink, SupersedeBatches, QueueRelink
<1>4. CASE UNCHANGED vars
  BY <1>4 DEF vars
<1> QED
  BY <1>1, <1>2, <1>3, <1>4 DEF Next

\* What AppliedInv says of one run and one member.
Behind(b, m) ==
    /\ hand.step = "act" /\ Held.who = m /\ rows[b].in \notin hand.want => Applies(b) = {}
    /\ \A i \in Applies(b) :
         /\ rows[i].who = m
         /\ rows[i].status = "succeeded" \/ (hand.row = i /\ hand.step = "done")
         => rows[b].in \in wears[m]

\* A job of the run is one it had, or the one just inserted.
LEMMA NewJob ==
    ASSUME Ground, [Next]_vars, NEW b \in Batches, NEW i \in Applies(b)'
    PROVE  \/ i \in Applies(b)
           \/ InsertApply /\ rows'[i].status = "pending" /\ hand'.row # i
<1>1. i \in Ids' /\ rows'[i].kind = "apply" /\ rows'[i].batch = b
  BY DEF Applies, Of
<1>2. CASE i \in Ids
  <2>1. Shapes /\ TableStep
    BY TableSteps DEF Ground
  <2> QED
    BY <2>1, <1>1, <1>2, RowsStand DEF Applies, Of
<1>3. CASE i \notin Ids
  <2>1. /\ Cursor.kind = "expand"
        /\ \A n, s, p, o, q, k : Row("expand", n, s, p, o, q, k).kind = "expand"
    BY RowOf DEF Cursor
  <2> QED
    BY <2>1, <1>1, <1>3, NewRow
<1> QED
  BY <1>2, <1>3

\* The roster wants the role of a run that has not strayed on its holders.
LEMMA RunIsWanted ==
    ASSUME StopInv, NEW b \in Batches, b \notin strayed, rows[b].in # NoRole,
           rows[b].subject \in Subjects, NEW m \in Affected(rows[b].subject, rows[b].skip)
    PROVE  rows[b].in \in Desired(m)
<1>1. link[rows[b].subject] = rows[b].in
  BY DEF StopInv
<1> QED
  BY <1>1 DEF Desired, Affected

LEMMA BehindKept ==
    ASSUME Ground, [Next]_vars, NEW b \in Batches, NEW m \in Members, Undisturbed(b),
           rows[b].in # NoRole, rows[b].in \in Desired(m), Behind(b, m)
    PROVE  Behind(b, m)'
<1> DEFINE A == rows[b].in
<1>1. Shapes /\ (\A i \in Ids : Kin(i)) /\ HandInv /\ StopInv /\ TableStep
  BY TableSteps DEF Ground
<1> HIDE DEF Kin
<1>2. b \in Ids /\ b # 0 /\ A \in Roles
  <2>1. A \in RoleOrNone
    BY <1>1, RowFields DEF Batches
  <2> QED
    BY <2>1, <1>1, RowFields DEF Batches, RoleOrNone
<1>3. rows'[b].in = A
  BY <1>1, <1>2, RowsStand
<1>4. live
  BY <1>1, Calm
<1> HIDE DEF A
<1>5. A \in Desired(m) /\ A # NoRole
  BY DEF A
<1>6. \A i \in Applies(b) : i \in Ids /\ i # 0 /\ rows[i].kind = "apply" /\ rows[i].batch = b
  BY <1>1, RowFields DEF Applies, Of
<1>7. \A i \in Applies(b) : rows[i].in = A
  BY <1>6, <1>1, <1>2, SeedOf DEF A
<1>8. hand.step # "idle" => hand.row \in Ids /\ Held = rows[hand.row] /\ Fits(hand, Held)
  <2>1. hand.step # "idle" => hand # Idle
    BY IdleFields
  <2> QED
    BY <2>1, <1>1 DEF HandInv, Held
<1>9. ASSUME hand'.step = "act", Held'.who = m, A \notin hand'.want PROVE Applies(b)' = {}
  <2>1. CASE hand' = hand
    <3>1. hand.row \in Ids /\ Held.who = m
      <4>1. hand.row \in Ids
        BY <2>1, <1>8, <1>9
      <4>2. rows'[hand.row].who = rows[hand.row].who
        BY <4>1, <1>1, RowsStand
      <4> QED
        BY <4>1, <4>2, <2>1, <1>9 DEF Held
    <3>2. Applies(b) = {}
      BY <3>1, <2>1, <1>9 DEF Behind, A
    <3>3. ~InsertApply
      BY <2>1, <1>9 DEF InsertApply
    <3> QED
      BY <3>2, <3>3, NewJob
  <2>2. CASE Decide
    <3>1. hand'.want = Desired(Held.who) /\ hand'.row = hand.row /\ rows' = rows
      BY <2>2, <1>1, <1>4, DecideFields DEF Decide
    <3>2. Held' = Held
      BY <3>1 DEF Held
    <3> QED
      BY <3>1, <3>2, <1>5, <1>9
  <2>3. CASE \E k \in due : Claim(k)
    <3>1. PICK k \in due : Claim(k)
      BY <2>3
    <3>2. k \in Ids /\ hand'.step = rows[k].kind
      BY <3>1, <1>1, Claimed
    <3> QED
      BY <3>2, <1>1, <1>9, RowFields
  <2>4. CASE CheckExpand
    <3>1. PICK t \in {"done", "page"} : hand.step # "idle" /\ hand' = [hand EXCEPT !.step = t]
      BY <2>4 DEF CheckExpand
    <3> QED
      BY <1>1, <3>1, <1>9, HandStep
  <2> QED
    BY <2>1, <2>2, <2>3, <2>4, <1>1, <1>9, HandTurns, IdleFields, ReadFields, ApplyFields,
       CursorFields, ActFields, GrantFields
<1>10. ASSUME NEW i \in Applies(b), A \in wears[m] PROVE A \in wears'[m]
  <2>1. CASE wears' = wears
    BY <2>1, <1>10
  <2>2. CASE Act
    <3>1. CASE Held.who = m
      <4>1. A \in hand.want
        BY <3>1, <1>10, <2>2 DEF Behind, A, Act
      <4> QED
        BY <4>1, <3>1, <1>1, <1>10, <2>2, ActFields
    <3>2. CASE Held.who # m
      BY <3>2, <1>1, <1>10, <2>2, ActFields
    <3> QED
      BY <3>1, <3>2
  <2>3. CASE Grant
    BY <2>3, <1>1, <1>10, GrantFields
  <2> QED
    BY <2>1, <2>2, <2>3, GuildTurns
<1>11. ASSUME NEW i \in Applies(b), rows'[i].who = m,
              rows'[i].status = "succeeded" \/ (hand'.row = i /\ hand'.step = "done")
       PROVE  A \in wears'[m]
  <2>1. rows[i].who = m /\ i \in Ids
    BY <1>1, <1>6, <1>11, RowsStand
  <2>2. ASSUME rows[i].status = "succeeded" \/ (hand.row = i /\ hand.step = "done")
        PROVE  A \in wears'[m]
    <3>1. A \in wears[m]
      BY <2>1, <2>2 DEF Behind, A
    <3> QED
      BY <3>1, <1>10
  <2>3. CASE rows'[i].status = "succeeded"
    <3>1. rows[i].status = "succeeded" \/ (Finish /\ hand.row = i)
      BY <2>1, <2>3, TurnsDone
    <3> QED
      BY <3>1, <2>2 DEF Finish
  <2>4. CASE hand'.row = i /\ hand'.step = "done"
    <3>1. CASE hand' = hand
      BY <3>1, <2>2, <2>4
    <3>2. CASE hand' = Idle
      BY <3>2, <2>4, IdleFields
    <3>3. CASE \E k \in due : Claim(k)
      <4>1. PICK k \in due : Claim(k)
        BY <3>3
      <4>2. k \in Ids /\ hand'.step = rows[k].kind
        BY <4>1, <1>1, Claimed
      <4> QED
        BY <4>2, <1>1, <2>4, RowFields
    <3>4. CASE CheckExpand \/ InsertCursor \/ ReadPage \/ InsertApply
      <4>1. hand'.row = hand.row
        <5>1. CASE CheckExpand
          <6>1. PICK t \in {"done", "page"} : hand.step # "idle" /\ hand' = [hand EXCEPT !.step = t]
            BY <5>1 DEF CheckExpand
          <6> QED
            BY <1>1, <6>1, HandStep
        <5> QED
          BY <5>1, <3>4, <1>1, ReadFields, ApplyFields, CursorFields
      <4>2. hand.step \in {"expand", "page", "insert"}
        BY <3>4 DEF CheckExpand, ReadPage, InsertApply, InsertCursor
      <4>3. rows[i].kind = "expand"
        BY <4>1, <4>2, <2>4, <1>8 DEF Fits
      <4> QED
        BY <4>3, <1>6
    <3>5. CASE Decide
      BY <3>5, <2>4, <1>1, <1>4, DecideFields
    <3>6. CASE Act
      <4>1. hand.row = i
        BY <3>6, <2>4, <1>1, ActFields
      <4>2. Held = rows[i] /\ Held.who = m /\ Held.in = A
        BY <4>1, <2>1, <1>7 DEF Held
      <4>3. A \in hand.want
        BY <3>6, <4>2, <1>11 DEF Behind, A, Act
      <4>4. A \in Scope(Held)
        BY <4>2, <1>5 DEF Scope
      <4> QED
        BY <4>2, <4>3, <4>4, <3>6, <1>1, ActFields
    <3>7. CASE Grant
      <4>1. hand.row = i /\ Held.in = NoRole
        BY <3>7, <2>4, <1>1, GrantFields
      <4> QED
        BY <4>1, <1>7, <1>5 DEF Held
    <3> QED
      BY <3>1, <3>2, <3>3, <3>4, <3>5, <3>6, <3>7, HandTurns
  <2> QED
    BY <1>11, <2>3, <2>4
<1>12. ASSUME NEW i \in Applies(b)', rows'[i].who = m,
              rows'[i].status = "succeeded" \/ (hand'.row = i /\ hand'.step = "done")
       PROVE  A \in wears'[m]
  <2>1. i \in Applies(b)
    BY <1>12, NewJob
  <2> QED
    BY <2>1, <1>11, <1>12
<1> QED
  BY <1>3, <1>9, <1>12 DEF Behind

LEMMA AppliedHolds == ASSUME Ground, AppliedInv, [Next]_vars PROVE AppliedInv'
<1>1. SUFFICES ASSUME NEW b \in Batches', Undisturbed(b)', b \notin strayed', rows'[b].in # NoRole,
                      NEW m \in (Affected(rows[b].subject, rows[b].skip) \ moved)'
               PROVE  Behind(b, m)'
  BY DEF AppliedInv, Behind
<1>2. CASE b \in Batches
  <2>1. /\ Undisturbed(b) /\ m \in Members /\ rows'[b].in = rows[b].in
        /\ m \in Affected(rows[b].subject, rows[b].skip) \ moved
    BY <1>1, <1>2, AsBefore
  <2>2. b \notin strayed
    BY <1>1, BooksSteps DEF BooksStep
  <2>3. rows[b].subject \in Subjects
    BY <1>2, RowFields DEF Ground, Batches
  <2>4. rows[b].in \in Desired(m)
    BY <1>1, <1>2, <2>1, <2>2, <2>3, RunIsWanted DEF Ground
  <2>5. Behind(b, m)
    BY <1>1, <1>2, <2>1, <2>2 DEF AppliedInv, Behind
  <2> QED
    BY <1>1, <1>2, <2>1, <2>4, <2>5, BehindKept
<1>3. CASE b \notin Batches
  <2>1. b = Len(rows) + 1 /\ \E a \in Admins : QueueRelink(a)
    BY <1>1, <1>3, NewBatch
  <2>2. Shapes /\ (\A i \in Ids : Kin(i)) /\ TableStep
    BY TableSteps DEF Ground
  <2> HIDE DEF Kin
  <2>3. Applies(b)' = {}
    <3>1. SUFFICES ASSUME NEW i \in Ids', rows'[i].batch = b, rows'[i].kind = "apply" PROVE FALSE
      BY DEF Applies, Of
    <3>2. CASE i \in Ids
      <4>1. rows[i].batch = b
        BY <3>1, <3>2, <2>2, RowsStand
      <4>2. i \in Nat /\ i <= Len(rows) /\ Len(rows) \in Nat
        BY <3>2, <2>2, RowFields, TableType
      <4>3. b # 0
        BY <2>1, <4>2
      <4>4. b \in Ids
        BY <4>1, <4>3, <3>2, <2>2, SeedOf
      <4>5. b <= Len(rows)
        BY <4>4, <2>2, RowFields
      <4> QED
        BY <4>5, <4>2, <2>1
    <3>3. CASE i \notin Ids
      <4>1. i = Len(rows) + 1
        BY <3>1, <3>3, NewRow
      <4>2. rows'[b].kind = "expand"
        BY DEF Batches
      <4> QED
        BY <4>1, <4>2, <2>1, <3>1
    <3> QED
      BY <3>2, <3>3
  <2> QED
    BY <2>3 DEF Behind
<1> QED
  BY <1>2, <1>3

(***************************************************************************)
(* A role is right, or somebody is still to settle it.                     *)
(***************************************************************************)
LEMMA ClearBefore == ASSUME Ground, [Next]_vars, Clear' PROVE Clear
<1>1. Shapes /\ TableStep /\ BooksStep
  BY TableSteps, BooksSteps DEF Ground
<1>2. missed = {} /\ used.toggles = 0
  BY <1>1 DEF Clear, BooksStep
<1>3. ASSUME NEW b \in Batches PROVE Undisturbed(b)
  <2>1. b \in Batches'
    BY <1>1, RowsStand
  <2>2. Undisturbed(b)'
    BY <2>1 DEF Clear
  <2> QED
    BY <2>2, <1>1, CalmBefore
<1> QED
  BY <1>2, <1>3 DEF Clear

\* With nothing on the books no row of a run is stopped, and the gate is open.
LEMMA ClearRows ==
    ASSUME Ground, Clear
    PROVE  /\ live /\ \A b \in Batches : \A h \in halted : h[1] # b
           /\ \A i \in Ids : rows[i].batch # 0 => rows[i].status \notin {"cancelled", "failed"}
<1>1. Shapes /\ (\A i \in Ids : Kin(i)) /\ StopInv
  BY DEF Ground
<1> HIDE DEF Kin
<1>2. live
  BY <1>1 DEF Clear, StopInv
<1>3. \A b \in Batches : \A h \in halted : h[1] # b
  BY DEF Clear, Undisturbed
<1>4. ASSUME NEW i \in Ids, rows[i].batch # 0 PROVE rows[i].status \notin {"cancelled", "failed"}
  <2>1. rows[i].batch \in Batches
    BY <1>1, <1>4, SeedOf
  <2>2. Undisturbed(rows[i].batch)
    BY <2>1 DEF Clear
  <2> QED
    BY <2>2, <1>1, Calm
<1> QED
  BY <1>2, <1>3, <1>4

\* An open row of a run stays open until the worker is done with it.
LEMMA OpenGoesOn ==
    ASSUME Ground, [Next]_vars, Clear', NEW i \in Ids, rows[i].batch # 0, Open(i),
           ~(Finish /\ hand.row = i)
    PROVE  rows'[i].status \in {"pending", "processing"}
<1>1. Shapes /\ TableStep /\ Ground'
  BY TableSteps, GroundHolds DEF Ground
<1>2. i \in Ids' /\ rows'[i].batch # 0
  BY <1>1, RowsStand
<1>3. rows'[i].status \notin {"cancelled", "failed"}
  <2>1. rows[i].batch \in Batches
    BY <1>1, SeedOf DEF Ground
  <2>2. Undisturbed(rows[i].batch)'
    BY <2>1, <1>1, RowsStand DEF Clear
  <2>3. rows'[i].batch = rows[i].batch
    BY <1>1, RowsStand
  <2>4. rows'[i].status # "failed"
    BY <2>2, <2>3, <1>2 DEF Undisturbed, InState, Of
  <2>5. rows'[i].status # "cancelled"
    BY <2>2, <2>3, <1>1, <1>2 DEF Undisturbed, Ground, StopInv
  <2> QED
    BY <2>4, <2>5
<1>4. rows'[i].status # "succeeded"
  BY TurnsDone DEF Open
<1>5. rows'[i].status \in Statuses
  <2>1. rows' \in Seq(RowType) /\ i \in 1..Len(rows')
    BY <1>1, <1>2 DEF Ground, Shapes, Ids
  <2>2. rows'[i] \in RowType
    BY <2>1
  <2> QED
    BY <2>2 DEF RowType
<1> QED
  BY <1>3, <1>4, <1>5 DEF Statuses

\* Saving a mapping that was read leaves a request to settle the two roles,
\* for everybody who holds the subject.
LEMMA SaveOwes ==
    ASSUME Ground, NEW a \in Admins, SaveLink(a), Clear', NEW m \in Members, NEW A \in Roles
    PROVE  ByRequest(m, A)' \/ (A \in Desired(m)' <=> A \in Desired(m))
<1> DEFINE s == req[a].subject
<1>1. Shapes /\ Shapes'
  <2>1. Next
    BY DEF Next, Request
  <2> QED
    BY <2>1, GroundHolds DEF Ground
<1>2. req[a].step = "loaded" /\ req[a].step # "idle"
  BY DEF SaveLink
<1>3. s \in Subjects /\ req[a].next \in RoleOrNone /\ req[a].prev \in RoleOrNone
  BY <1>1, <1>2, RequestFields
<1>4. /\ req'[a].step = "saved" /\ req'[a].subject = s
      /\ req'[a].prev = req[a].prev /\ req'[a].next = req[a].next
  BY <1>1, <1>2, StepSet DEF SaveLink
<1>5. holders' = holders
  BY DEF SaveLink
<1>6. link[s] = req[a].prev
  BY DEF SaveLink, Clear
<1>7. link'[s] = req[a].next /\ \A t \in Subjects : t # s => link'[t] = link[t]
  BY <1>3, <1>1 DEF SaveLink, Shapes
<1> HIDE DEF s
<1>8. CASE m \in holders[s] /\ A \in {req[a].prev, req[a].next} /\ req[a].prev # req[a].next
  BY <1>8, <1>4, <1>5 DEF ByRequest, s
<1>9. CASE ~(m \in holders[s] /\ A \in {req[a].prev, req[a].next} /\ req[a].prev # req[a].next)
  <2>1. ASSUME NEW t \in Subjects, m \in holders[t] PROVE link'[t] = A <=> link[t] = A
    BY <2>1, <1>6, <1>7, <1>9
  <2> QED
    BY <2>1, <1>5 DEF Desired
<1> QED
  BY <1>8, <1>9

\* What the roster wants of a member who has not moved only a saved mapping changes.
LEMMA DesiredKept ==
    ASSUME Ground, [Next]_vars, Clear', NEW m \in Members, m \notin moved', NEW A \in Roles
    PROVE  ByRequest(m, A)' \/ (A \in Desired(m)' <=> A \in Desired(m))
<1>1. CASE \E a \in Admins : SaveLink(a)
  BY <1>1, SaveOwes
<1>2. ASSUME link' = link PROVE A \in Desired(m)' <=> A \in Desired(m)
  <2>1. \A s \in Subjects : m \in holders'[s] <=> m \in holders[s]
    BY BooksSteps DEF BooksStep
  <2> QED
    BY <2>1, <1>2 DEF Desired
<1>3. CASE Throw \/ Restart \/ Serve \/ \E k \in due : Claim(k)
  BY <1>2, <1>3 DEF Throw, Restart, Claim, Serve, CheckExpand, ReadPage, InsertApply, InsertCursor,
                    Decide, Act, Grant, Finish, catalogue
<1>4. CASE \/ \E a \in Admins, s \in Subjects, r \in RoleOrNone : Load(a, s, r)
           \/ \E k \in Members, s \in Subjects : LoadMove(k, s)
           \/ SaveMove \/ QueueMove \/ Toggle \/ Tick \/ \E b \in Batches : Cancel(b)
  BY <1>2, <1>4 DEF Load, LoadMove, SaveMove, QueueMove, Toggle, Tick, Cancel, catalogue
<1>5. CASE \E a \in Admins : DropRelink(a) \/ SupersedeBatches(a) \/ QueueRelink(a)
  BY <1>2, <1>5 DEF DropRelink, SupersedeBatches, QueueRelink, catalogue
<1>6. CASE UNCHANGED vars
  BY <1>2, <1>6 DEF vars
<1> QED
  BY <1>1, <1>3, <1>4, <1>5, <1>6 DEF Next, Request

\* The worker decides by the roster, and stands by it while the roster does.
LEMMA SeenKept ==
    ASSUME Ground, [Next]_vars, Clear, NEW m \in Members, NEW A \in Roles,
           A \in Desired(m)' <=> A \in Desired(m), hand' = hand => Seen(m, A)
    PROVE  Seen(m, A)'
<1>1. Shapes /\ (\A i \in Ids : Kin(i)) /\ HandInv /\ TableStep
  BY TableSteps DEF Ground
<1> HIDE DEF Kin
<1>2. SUFFICES ASSUME hand'.step = "act", Held'.who = m, A \in Scope(Held)'
               PROVE  A \in hand'.want <=> A \in Desired(m)'
  BY DEF Seen
<1>3. CASE hand' = hand
  <2>1. hand # Idle
    BY <1>2, <1>3, IdleFields
  <2>2. hand.row \in Ids
    BY <2>1, <1>1 DEF HandInv
  <2>3. Held'.who = Held.who /\ Held'.out = Held.out /\ Held'.in = Held.in
    BY <2>2, <1>1, <1>3, RowsStand DEF Held
  <2>4. A \in Scope(Held)
    BY <2>3, <1>2 DEF Scope
  <2> QED
    BY <2>3, <2>4, <1>2, <1>3 DEF Seen
<1>4. CASE Decide
  <2>1. live
    BY ClearRows
  <2>2. hand'.want = Desired(Held.who) /\ hand'.row = hand.row /\ rows' = rows
    BY <1>4, <2>1, <1>1, DecideFields DEF Decide
  <2>3. Held' = Held
    BY <2>2 DEF Held
  <2> QED
    BY <2>2, <2>3, <1>2
<1>5. CASE \E k \in due : Claim(k)
  <2>1. PICK k \in due : Claim(k)
    BY <1>5
  <2>2. k \in Ids /\ hand'.step = rows[k].kind
    BY <2>1, <1>1, Claimed
  <2> QED
    BY <2>2, <1>1, <1>2, RowFields
<1>6. CASE CheckExpand
  <2>1. PICK t \in {"done", "page"} : hand.step # "idle" /\ hand' = [hand EXCEPT !.step = t]
    BY <1>6 DEF CheckExpand
  <2> QED
    BY <1>1, <2>1, <1>2, HandStep
<1> QED
  BY <1>3, <1>4, <1>5, <1>6, <1>1, <1>2, HandTurns, IdleFields, ReadFields, ApplyFields,
     CursorFields, ActFields, GrantFields

\* What is right stays right, unless a request undertakes to settle it.
LEMMA RightKept ==
    ASSUME Ground, [Next]_vars, Clear', NEW m \in Members, m \notin moved', NEW A \in Roles,
           Right(m, A)
    PROVE  Right(m, A)' \/ ByRequest(m, A)'
<1>1. Shapes /\ (\A i \in Ids : Kin(i)) /\ HandInv
  BY DEF Ground
<1> HIDE DEF Kin
<1>2. SUFFICES ASSUME ~ByRequest(m, A)' PROVE Right(m, A)'
  OBVIOUS
<1>3. A \in Desired(m)' <=> A \in Desired(m)
  BY <1>2, DesiredKept
<1>4. Seen(m, A)'
  BY <1>3, SeenKept, ClearBefore DEF Right
<1>5. A \in wears'[m] <=> A \in wears[m]
  <2>1. CASE Act
    <3>1. hand.step = "act"
      BY <2>1 DEF Act
    <3>2. CASE Held.who = m /\ A \in Scope(Held)
      BY <3>1, <3>2, <2>1, <1>1, ActFields DEF Right, Seen
    <3>3. CASE ~(Held.who = m /\ A \in Scope(Held))
      BY <3>3, <2>1, <1>1, ActFields
    <3> QED
      BY <3>2, <3>3
  <2>2. CASE Grant
    BY <2>2, <1>1, GrantFields DEF Right
  <2> QED
    BY <2>1, <2>2, GuildTurns
<1> QED
  BY <1>3, <1>4, <1>5 DEF Right

\* A job goes on until it has settled the role.
LEMMA JobKept ==
    ASSUME Ground, [Next]_vars, Clear', NEW m \in Members, m \notin moved', NEW A \in Roles,
           ByJob(m, A)
    PROVE  Right(m, A)' \/ ByJob(m, A)' \/ ByRequest(m, A)'
<1>1. Shapes /\ (\A i \in Ids : Kin(i)) /\ HandInv /\ TableStep
  BY TableSteps DEF Ground
<1> HIDE DEF Kin
<1>2. SUFFICES ASSUME ~ByRequest(m, A)' PROVE Right(m, A)' \/ ByJob(m, A)'
  OBVIOUS
<1>3. A \in Desired(m)' <=> A \in Desired(m)
  BY <1>2, DesiredKept
<1>4. PICK i \in Ids : /\ rows[i].kind = "apply" /\ Open(i) /\ rows[i].who = m
                       /\ A \in Scope(rows[i])
                       /\ hand.row = i => hand.step \in {"apply", "act"} /\ Seen(m, A)
  BY DEF ByJob, Open
<1>5. rows[i].batch # 0 /\ i # 0
  BY <1>1, <1>4, RowFields DEF Kin
<1>6. rows'[i].status \in {"pending", "processing"}
  BY <1>4, <1>5, OpenGoesOn DEF Finish
<1>7. i \in Ids' /\ rows'[i].kind = "apply" /\ rows'[i].who = m /\ A \in Scope(rows'[i])
  BY <1>1, <1>4, RowsStand DEF Scope
<1>8. ASSUME hand'.row = i => hand'.step \in {"apply", "act"} /\ Seen(m, A)' PROVE ByJob(m, A)'
  BY <1>6, <1>7, <1>8 DEF ByJob
<1>9. hand.step # "idle" => hand.row \in Ids /\ Held = rows[hand.row] /\ Fits(hand, Held)
  <2>1. hand.step # "idle" => hand # Idle
    BY IdleFields
  <2> QED
    BY <2>1, <1>1 DEF HandInv, Held
<1>10. CASE hand' = hand
  BY <1>8, <1>10, <1>3, <1>4, SeenKept, ClearBefore
<1>11. CASE hand' = Idle
  BY <1>8, <1>11, <1>5, IdleFields
<1>12. CASE \E k \in due : Claim(k)
  <2>1. PICK k \in due : Claim(k)
    BY <1>12
  <2>2. k \in Ids /\ hand'.step = rows[k].kind /\ hand'.row = k
    BY <2>1, <1>1, Claimed
  <2>3. hand'.row = i => hand'.step = "apply"
    BY <2>2, <1>4
  <2> QED
    BY <2>3, <1>8 DEF Seen
<1>13. CASE CheckExpand \/ ReadPage \/ InsertApply \/ InsertCursor
  <2>1. hand'.row = hand.row
    <3>1. CASE CheckExpand
      <4>1. PICK t \in {"done", "page"} : hand.step # "idle" /\ hand' = [hand EXCEPT !.step = t]
        BY <3>1 DEF CheckExpand
      <4> QED
        BY <1>1, <4>1, HandStep
    <3> QED
      BY <3>1, <1>13, <1>1, ReadFields, ApplyFields, CursorFields
  <2>2. hand.step \in {"expand", "page", "insert"}
    BY <1>13 DEF CheckExpand, ReadPage, InsertApply, InsertCursor
  <2>3. hand.row # i
    BY <2>2, <1>4
  <2> QED
    BY <2>1, <2>3, <1>8
<1>14. CASE Decide
  <2>1. live
    BY ClearRows, ClearBefore
  <2>2. hand'.step = "act"
    BY <2>1, <1>1, <1>14, DecideFields
  <2>3. hand' # hand
    BY <2>2, <1>14 DEF Decide
  <2>4. Seen(m, A)'
    BY <2>3, <1>3, SeenKept, ClearBefore
  <2> QED
    BY <2>2, <2>4, <1>8
<1>15. CASE Act
  <2>1. CASE hand.row # i
    BY <2>1, <1>15, <1>1, ActFields, <1>8
  <2>2. CASE hand.row = i
    <3>1. Held = rows[i] /\ Held.who = m /\ A \in Scope(Held)
      BY <2>2, <1>4 DEF Held
    <3>2. A \in hand.want <=> A \in Desired(m)
      BY <2>2, <3>1, <1>4, <1>15 DEF Seen, Act
    <3>3. A \in wears'[m] <=> A \in Desired(m)'
      BY <3>1, <3>2, <1>3, <1>1, <1>15, ActFields
    <3>4. hand'.step # "act"
      BY <1>1, <1>15, ActFields
    <3> QED
      BY <3>3, <3>4 DEF Right, Seen
  <2> QED
    BY <2>1, <2>2
<1>16. CASE Grant
  <2>1. hand.row # i
    BY <1>16, <1>4 DEF Grant
  <2> QED
    BY <2>1, <1>16, <1>1, GrantFields, <1>8
<1> QED
  BY <1>10, <1>11, <1>12, <1>13, <1>14, <1>15, <1>16, HandTurns

\* A cursor hands a member on to the next one, or to a job.
LEMMA CursorKept ==
    ASSUME Ground, [Next]_vars, Clear', NEW m \in Members, m \notin moved', NEW A \in Roles,
           ByCursor(m, A)
    PROVE  ByCursor(m, A)' \/ ByJob(m, A)'
<1>1. /\ Shapes /\ (\A i \in Ids : Kin(i)) /\ HandInv /\ StopInv /\ TableStep /\ BooksStep
  BY TableSteps, BooksSteps DEF Ground
<1> HIDE DEF Kin
<1>2. PICK i \in Ids : /\ rows[i].kind = "expand" /\ Open(i) /\ A \in Scope(rows[i])
                       /\ m \in Affected(rows[i].subject, rows[i].skip) /\ m \in Ahead(i)
  BY DEF ByCursor, Open
<1>3. rows[i].batch # 0
  BY <1>1, <1>2 DEF Kin
<1>4. PICK b : b = rows[i].batch
  OBVIOUS
<1>4a. b \in Batches /\ b \in Batches'
  BY <1>1, <1>3, <1>4, SeedOf, RowsStand
<1>5. Undisturbed(b) /\ Undisturbed(b)'
  BY <1>4a, ClearBefore DEF Clear
<1>6. \A h \in halted' : h[1] # rows[i].batch
  BY <1>4, <1>5 DEF Undisturbed
<1>7. rows'[i].status # "failed"
  BY <1>1, <1>4, <1>5, RowsStand DEF Undisturbed, InState, Of
<1>8. Onward(i, m)
  BY <1>2, <1>4, <1>5, <1>6, <1>7, CursorGoesOn
<1>9. PICK j \in Ids' :
        /\ rows'[j].subject = rows[i].subject /\ rows'[j].skip = rows[i].skip
        /\ rows'[j].out = rows[i].out /\ rows'[j].in = rows[i].in
        /\ rows'[j].status \in {"pending", "processing"}
        /\ \/ rows'[j].kind = "expand" /\ m \in Ahead(j)'
           \/ rows'[j].kind = "apply" /\ rows'[j].who = m /\ hand'.row # j
  BY <1>8 DEF Onward
<1>10. A \in Scope(rows'[j])
  BY <1>2, <1>9 DEF Scope
<1>11. m \in holders'[rows'[j].subject] /\ m # rows'[j].skip
  <2>1. rows[i].subject \in Subjects
    BY <1>1, RowFields
  <2>2. m \in holders'[rows[i].subject]
    BY <2>1, <1>1, <1>2 DEF BooksStep, Affected
  <2> QED
    BY <2>2, <1>2, <1>9 DEF Affected
<1>12. CASE rows'[j].kind = "expand" /\ m \in Ahead(j)'
  BY <1>9, <1>10, <1>11, <1>12 DEF ByCursor, Affected
<1>13. CASE rows'[j].kind = "apply" /\ rows'[j].who = m /\ hand'.row # j
  BY <1>9, <1>10, <1>13 DEF ByJob
<1> QED
  BY <1>9, <1>12, <1>13

\* A request goes on until it has queued its run.
LEMMA RequestKept ==
    ASSUME Ground, [Next]_vars, Clear', NEW m \in Members, m \notin moved',
           \A a \in Admins : Actor[a] # m, NEW A \in Roles, ByRequest(m, A)
    PROVE  ByRequest(m, A)' \/ ByCursor(m, A)'
<1>1. /\ Shapes /\ (\A i \in Ids : Kin(i)) /\ HandInv /\ BooksStep
  BY BooksSteps DEF Ground
<1> HIDE DEF Kin
<1>2. PICK a \in Admins : /\ req[a].step \in {"saved", "superseded"}
                          /\ m \in holders[req[a].subject]
                          /\ A \in {req[a].prev, req[a].next} /\ req[a].prev # req[a].next
  BY DEF ByRequest
<1>3. req[a].step # "idle" /\ req[a].subject \in Subjects
  BY <1>1, <1>2, RequestFields
<1>4. m \in holders'[req[a].subject]
  BY <1>1, <1>2, <1>3 DEF BooksStep
<1>5. ASSUME req'[a].step \in {"saved", "superseded"}, req'[a].subject = req[a].subject,
             req'[a].prev = req[a].prev, req'[a].next = req[a].next
      PROVE  ByRequest(m, A)'
  BY <1>2, <1>4, <1>5 DEF ByRequest
<1>6. ASSUME req'[a] = req[a] PROVE ByRequest(m, A)'
  BY <1>2, <1>5, <1>6
<1>7. req \in [Admins -> RequestType \cup {NoReq}]
  BY <1>1 DEF Shapes
<1>8. CASE Throw \/ Serve \/ \E k \in due : Claim(k)
  BY <1>6, <1>8 DEF Throw, Claim, Serve, CheckExpand, ReadPage, InsertApply, InsertCursor,
                    Decide, Act, Grant, Finish
<1>9. CASE \/ \E k \in Members, s \in Subjects : LoadMove(k, s)
           \/ SaveMove \/ QueueMove \/ Toggle \/ Tick \/ \E b \in Batches : Cancel(b)
  BY <1>6, <1>9 DEF LoadMove, SaveMove, QueueMove, Toggle, Tick, Cancel
<1>10. CASE \E c \in Admins, s \in Subjects, r \in RoleOrNone : Load(c, s, r)
  <2>1. PICK c \in Admins, s \in Subjects, r \in RoleOrNone : Load(c, s, r)
    BY <1>10
  <2>2. c # a
    BY <2>1, <1>3 DEF Load
  <2> QED
    BY <2>1, <2>2, <1>6, <1>7 DEF Load
<1>11. CASE Restart
  <2>1. req[a].subject \in Unqueued
    BY <1>2 DEF Unqueued
  <2> QED
    BY <2>1, <1>11 DEF Restart, Clear
<1>12. ASSUME NEW c \in Admins, c # a, Request(c) PROVE req'[a] = req[a]
  BY <1>7, <1>12 DEF Request, SaveLink, DropRelink, SupersedeBatches, QueueRelink
<1>13. CASE SaveLink(a)
  BY <1>13, <1>2 DEF SaveLink
<1>14. CASE DropRelink(a)
  <2>1. live
    BY ClearRows, ClearBefore
  <2>2. m \in Affected(req[a].subject, Actor[a])
    BY <1>2 DEF Affected
  <2> QED
    BY <2>1, <2>2, <1>2, <1>14 DEF DropRelink, NothingToRelink
<1>15. CASE SupersedeBatches(a)
  <2>1. req' = [req EXCEPT ![a].step = "superseded"]
    BY <1>15 DEF SupersedeBatches
  <2> QED
    BY <2>1, <1>1, <1>3, <1>5, StepSet
<1>16. CASE QueueRelink(a)
  <2>1. PICK n, r :
          /\ Grown(n, r)
          /\ r = Row("expand", Len(rows) + 1, req[a].subject, 0, req[a].prev, req[a].next, Actor[a])
    BY <1>1, <1>16, NewRun
  <2>2. n \in Ids' /\ n \notin Ids /\ rows'[n] = r
    BY <2>1 DEF Grown
  <2>3. /\ r.kind = "expand" /\ r.status = "pending" /\ r.who = 0 /\ r.subject = req[a].subject
        /\ r.out = req[a].prev /\ r.in = req[a].next /\ r.skip = Actor[a]
    BY <2>1, RowOf
  <2>4. A \in Scope(r)
    BY <2>3, <1>2, ConstantsAssumption DEF Scope
  <2>5. m \in holders'[r.subject] /\ m # r.skip
    BY <2>3, <1>4
  <2>6. hand'.row # n
    BY <2>2, NewRow
  <2>7. m > 0
    BY ConstantsAssumption
  <2>8. m \in Ahead(n)'
    BY <2>2, <2>3, <2>6, <2>7 DEF Ahead
  <2> QED
    BY <2>2, <2>3, <2>4, <2>5, <2>8 DEF ByCursor, Affected
<1>17. CASE UNCHANGED vars
  BY <1>6, <1>17 DEF vars
<1> QED
  BY <1>6, <1>8, <1>9, <1>10, <1>11, <1>12, <1>13, <1>14, <1>15, <1>16, <1>17 DEF Next, Request

LEMMA SettledHolds == ASSUME Ground, SettledInv, [Next]_vars PROVE SettledInv'
<1>1. SUFFICES ASSUME Clear', NEW m \in Members, NEW A \in Roles, Own(m)'
               PROVE  Right(m, A)' \/ Owed(m, A)'
  BY DEF SettledInv
<1>2. m \notin moved' /\ m \notin moved /\ \A a \in Admins : Actor[a] # m
  BY <1>1, BooksSteps DEF Own, BooksStep
<1>3. Right(m, A) \/ Owed(m, A)
  BY <1>1, <1>2, ClearBefore DEF SettledInv, Own
<1> QED
  BY <1>1, <1>2, <1>3, RightKept, RequestKept, CursorKept, JobKept DEF Owed

(***************************************************************************)
(* The whole of it.                                                        *)
(***************************************************************************)
LEMMA InitHolds == ASSUME Init PROVE RelinkInv
<1>1. rows = <<>> /\ hand = Idle /\ due = {} /\ halted = {} /\ moved = {} /\ strayed = {}
      /\ missed = {} /\ live = TRUE /\ link = InitLink /\ holders = InitHolders
      /\ req = [a \in Admins |-> NoReq] /\ move = NoMove /\ used = InitUsed
      /\ wears = [m \in Members |-> Desired(m)]
  BY DEF Init
<1>2. Ids = {} /\ Batches = {}
  BY <1>1 DEF Ids, Batches
<1>3. link \in [Subjects -> RoleOrNone] /\ holders \in [Subjects -> SUBSET Members]
  BY <1>1, ConstantsAssumption DEF RoleOrNone
<1>4. \A m \in Members : Desired(m) \in SUBSET Roles
  BY <1>3 DEF Desired, RoleOrNone
<1>5. wears \in [Members -> SUBSET Roles]
  BY <1>1, <1>4
<1>6. rows \in Seq(RowType)
  BY <1>1
<1>7. used \in UsedType
  BY <1>1 DEF InitUsed, UsedType
<1>8. Shapes
  BY <1>1, <1>2, <1>3, <1>5, <1>6, <1>7 DEF Shapes
<1>9. HandInv /\ StopInv /\ NobodySkipped /\ AppliedInv
  BY <1>1, <1>2 DEF HandInv, StopInv, NobodySkipped, AppliedInv
<1>10. SettledInv
  BY <1>1, IdleFields DEF SettledInv, Right, Seen
<1> QED
  BY <1>2, <1>8, <1>9, <1>10 DEF RelinkInv, Ground

LEMMA StepHolds == RelinkInv /\ [Next]_vars => RelinkInv'
  BY GroundHolds, SkippedHolds, AppliedHolds, SettledHolds DEF RelinkInv

LEMMA RelinkHolds == Spec => []RelinkInv
  BY InitHolds, StepHolds, PTL DEF Spec

LEMMA ShapesGiveType == ASSUME Ground PROVE TypeOK
<1>1. Shapes /\ (\A i \in Ids : Kin(i)) /\ HandInv
  BY DEF Ground
<1> HIDE DEF Kin
<1>2. \A i \in Ids : rows[i].batch \in Nat /\ rows[i].batch <= i
  <2>1. SUFFICES ASSUME NEW i \in Ids PROVE rows[i].batch \in Nat /\ rows[i].batch <= i
    OBVIOUS
  <2>2. i \in Nat /\ rows[i].batch \in Nat
    BY <1>1, RowFields
  <2> QED
    BY <2>2, <1>1 DEF Kin
<1>3. hand # Idle => hand.row \in Ids /\ rows[hand.row].status = "processing"
  BY <1>1 DEF HandInv, Held, Fits
<1>4. hand # Idle => hand.todo \subseteq Members /\ hand.more \in Members \cup {0}
  BY <1>1, Busy, HandFields
<1> QED
  BY <1>1, <1>2, <1>3, <1>4, IdleFields DEF Shapes, TypeOK

\* The types (the rows of discord_sync_jobs, the row a tick has in hand): whatever
\* is requested, thrown or restarted, a row in hand is a claimed row of the table.
THEOREM TypeCorrect == Spec => []TypeOK
<1>1. RelinkInv => TypeOK
  BY ShapesGiveType DEF RelinkInv
<1> QED
  BY <1>1, RelinkHolds, PTL

\* A re-link reaches every holder (expandRelinkPage): at every moment of an
\* undisturbed run, each of them has a job or is ahead of a waiting cursor.
THEOREM EveryHolderReached == Spec => []NobodySkipped
<1>1. RelinkInv => NobodySkipped
  BY DEF RelinkInv
<1> QED
  BY <1>1, RelinkHolds, PTL

LEMMA CompletedRun ==
    ASSUME RelinkInv, NEW b \in Batches, Undisturbed(b), Progress(b) = "completed",
           b \notin strayed, rows[b].in # NoRole,
           NEW m \in Affected(rows[b].subject, rows[b].skip) \ moved
    PROVE  rows[b].in \in wears[m]
<1>1. Active(Expands(b)) = {} /\ Active(Applies(b)) = {}
  BY DEF Progress
<1>2. PICK i \in Applies(b) : rows[i].who = m
  BY <1>1 DEF RelinkInv, NobodySkipped
<1>3. i \in Ids /\ rows[i].batch = b /\ rows[i].status \notin {"pending", "processing"}
  BY <1>1, <1>2 DEF Applies, Of, Active, InState
<1>4. rows[i].status = "succeeded"
  BY <1>3, RowFields, Calm DEF RelinkInv, Ground, Statuses
<1> QED
  BY <1>2, <1>4 DEF RelinkInv, AppliedInv

LEMMA QuietIsRight ==
    ASSUME RelinkInv, Quiet, Clear, NEW m \in Members, Own(m)
    PROVE  wears[m] = Desired(m)
<1>1. ASSUME NEW A \in Roles PROVE A \in wears[m] <=> A \in Desired(m)
  <2>1. ~ByRequest(m, A)
    BY DEF Quiet, ByRequest
  <2>2. \A i \in Ids : rows[i].status \notin {"pending", "processing"}
    BY DEF Quiet, Active, InState
  <2>3. ~ByCursor(m, A) /\ ~ByJob(m, A)
    BY <2>2 DEF ByCursor, ByJob
  <2> QED
    BY <2>1, <2>3 DEF RelinkInv, SettledInv, Owed, Right
<1>2. wears[m] \in SUBSET Roles
  BY DEF RelinkInv, Ground, Shapes
<1>3. Desired(m) \in SUBSET Roles
  BY DesiredType DEF RelinkInv, Ground
<1> QED
  BY <1>1, <1>2, <1>3

\* The summary can be trusted (getRelinkProgress): a run that reads "completed"
\* has given its holders the new role, and once all is quiet each member wears
\* what the roster says, however many mappings were re-linked on the way.
THEOREM SummaryTrusted == Spec => []CompletedMeansApplied
<1>1. ASSUME RelinkInv PROVE CompletedMeansApplied
  <2>1. ASSUME Quiet, missed = {}, used.toggles = 0, \A b \in Batches : Undisturbed(b),
               NEW m \in Members \ moved, \A a \in Admins : Actor[a] # m
        PROVE  wears[m] = Desired(m)
    BY <1>1, <2>1, QuietIsRight DEF Clear, Own
  <2> QED
    BY <1>1, <2>1, CompletedRun DEF CompletedMeansApplied
<1> QED
  BY <1>1, RelinkHolds, PTL

\* A new run of one rank or medal leaves the runs of the others alone
\* (supersedeRelinkBatches): the rows it cancels are of its own subject.
THEOREM OthersLeftAlone == Spec => OnlyOwnSubjectSuperseded
<1>1. ASSUME RelinkInv, NEW a \in Admins, SupersedeBatches(a), NEW i \in Ids, rows'[i] # rows[i]
      PROVE  rows[i].subject = req[a].subject
  <2> DEFINE S == UNION {Of(b) : b \in Superseded(a)}
  <2>1. S \in SUBSET Ids /\ CancelRows(S)
    BY <1>1 DEF Of, SupersedeBatches
  <2>2. Shapes /\ (\A j \in Ids : Kin(j))
    BY <1>1 DEF RelinkInv, Ground
  <2> HIDE DEF Kin
  <2>3. i \in S
    <3> HIDE DEF S
    <3> QED
      BY <2>1, <2>2, <1>1, CancelledRows
  <2>4. PICK b \in Superseded(a) : i \in Of(b)
    BY <2>3
  <2>5. b \in Batches /\ rows[b].subject = req[a].subject
    BY DEF Superseded
  <2>6. rows[i].batch = b /\ b # 0
    BY <2>4, <2>5, <2>2, RowFields DEF Of, Batches
  <2>7. rows[b].subject = rows[i].subject
    BY <2>6, <2>2, <1>1, SeedOf
  <2> QED
    BY <2>5, <2>7
<1>2. RelinkInv => \A a \in Admins : SupersedeBatches(a) =>
                     \A i \in Ids : rows'[i] # rows[i] => rows[i].subject = req[a].subject
  BY <1>1
<1> QED
  BY <1>2, RelinkHolds, PTL DEF OnlyOwnSubjectSuperseded

\* Rows that are done stay done, through restarts, retries and cancels
\* (the reaper, failJob, cancelRelink).
THEOREM DoneRowsStay == Spec => DoneStaysDone
<1>1. RelinkInv /\ [Next]_vars =>
        \A i \in Ids : rows[i].status \in {"succeeded", "failed"} => rows'[i].status = rows[i].status
  BY TableSteps DEF RelinkInv, TableStep
<1> QED
  BY <1>1, RelinkHolds, PTL DEF DoneStaysDone, Spec
================================================================================
