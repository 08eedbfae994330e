----------------------- MODULE EventAnnouncement_proofs -----------------------
(***************************************************************************)
(* The announcements of events (EventAnnouncement), proved for any number  *)
(* of events, members, requests and rows.  The invariant says where the    *)
(* announcement of an event is (Once), what the one worker may rely on     *)
(* between two of its awaits (Retiring, Threads), and that what shows an   *)
(* event, or is about to, shows what the database has unless a refresh is  *)
(* on its way or was dropped (Truth).                                      *)
(***************************************************************************)
EXTENDS EventAnnouncement, FiniteSetTheorems, TLAPS

(***************************************************************************)
(* The state is well formed.                                               *)
(***************************************************************************)
EventRows == [born : BOOLEAN, status : Statuses, archived : BOOLEAN, deleted : BOOLEAN,
              over : BOOLEAN, text : Nat]
Steps == {"start", "roster", "edit", "stamp", "open", "record", "ping"}
Hands == [row : Rows, step : Steps, seen : Cards, visible : BOOLEAN]
Requests == [op : Ops \cup {"create", "reanchor", "rsvp"}, e : Events,
             step : {"announce", "save", "refresh", "count", "close"}, copy : EventRows]

\* The worker is at a step of its row's dispatch.
HandShape(h) ==
    /\ h.step \in {"roster", "edit", "stamp"} => h.row.type \in Idempotent
    /\ h.step = "stamp" => h.row.type = "close"
    /\ h.step \in {"open", "ping"} => h.row.type = "thread"
    /\ h.step = "record" => h.row.type \in {"announce", "thread"}

\* A request that loaded an event holds a copy of one that had been created.
RequestShape(q) ==
    /\ q.step = "save" => q.copy.born
    /\ q.step = "announce" <=> q.op = "create"

Tables ==
    /\ ev \in [Events -> EventRows] /\ rsvp \in [Events -> SUBSET Members]
    /\ delivery \in [Events -> [made : BOOLEAN, thread : BOOLEAN, closed : BOOLEAN]]
    /\ post \in [Events -> [count : Nat, card : Cards, live : BOOLEAN, threads : Nat, pings : Nat]]
    /\ used \in [{"rsvps", "edits", "reminds", "trouble"} -> Nat]
    /\ on \in BOOLEAN /\ behind \in [Events -> BOOLEAN]
JobsOK == IsABag(jobs) /\ BagToSet(jobs) \subseteq Rows
HandOK == hand = Empty \/ (hand \in Hands /\ HandShape(hand))
CallsOK ==
    /\ DOMAIN calls = Calls
    /\ \A c \in Calls : calls[c] = Free \/ (calls[c] \in Requests /\ RequestShape(calls[c]))
Shapes == Tables /\ JobsOK /\ HandOK /\ CallsOK

(***************************************************************************)
(* Bags of rows.                                                           *)
(***************************************************************************)
\* One more copy of r: the other rows are as they were.
LEMMA BagMore ==
    ASSUME NEW B, IsABag(B), NEW r
    PROVE  LET C == B (+) SetToBag({r}) IN
             /\ IsABag(C) /\ BagToSet(C) = BagToSet(B) \cup {r}
             /\ \A x \in BagToSet(B) : x # r => C[x] = B[x]
             /\ r \notin BagToSet(B) => C[r] = 1
<1> DEFINE C == B (+) SetToBag({r})
<1>1. DOMAIN SetToBag({r}) = {r} /\ SetToBag({r})[r] = 1
  BY DEF SetToBag
<1>2. /\ DOMAIN C = DOMAIN B \cup {r}
      /\ \A x \in DOMAIN C : C[x] = (IF x \in DOMAIN B THEN B[x] ELSE 0) + (IF x = r THEN 1 ELSE 0)
      /\ C = [x \in DOMAIN C |-> C[x]]
  BY <1>1 DEF (+)
<1>3. \A x \in DOMAIN B : B[x] \in Nat /\ B[x] > 0
  BY DEF IsABag
<1> HIDE DEF C
<1>4. \A x \in DOMAIN C : C[x] \in Nat /\ C[x] > 0
  BY <1>2, <1>3
<1>5. IsABag(C)
  BY <1>2, <1>4 DEF IsABag
<1>6. \A x \in DOMAIN B : x # r => C[x] = B[x]
  BY <1>2, <1>3
<1>7. r \notin DOMAIN B => C[r] = 1
  BY <1>2
<1> QED
  BY <1>2, <1>5, <1>6, <1>7 DEF C, BagToSet

\* One copy of r less: it goes if it was the only one.
LEMMA BagLess ==
    ASSUME NEW B, IsABag(B), NEW r \in BagToSet(B)
    PROVE  LET C == B (-) SetToBag({r}) IN
             /\ IsABag(C) /\ BagToSet(C) \subseteq BagToSet(B)
             /\ BagToSet(B) \subseteq BagToSet(C) \cup {r}
             /\ \A x \in BagToSet(B) : x # r => C[x] = B[x]
             /\ B[r] = 1 => r \notin BagToSet(C)
<1> DEFINE C == B (-) SetToBag({r})
           D == [x \in DOMAIN B |-> IF x \in DOMAIN SetToBag({r}) THEN B[x] - SetToBag({r})[x] ELSE B[x]]
<1>1. DOMAIN SetToBag({r}) = {r} /\ SetToBag({r})[r] = 1
  BY DEF SetToBag
<1>2. C = [x \in {d \in DOMAIN D : D[d] > 0} |-> D[x]]
  BY DEF (-)
<1>3. \A x \in DOMAIN B : B[x] \in Nat /\ B[x] > 0
  BY DEF IsABag
<1>4. DOMAIN D = DOMAIN B /\ \A x \in DOMAIN B : D[x] = IF x = r THEN B[x] - 1 ELSE B[x]
  BY <1>1
<1> HIDE DEF C, D
<1>5. /\ DOMAIN C = {d \in DOMAIN B : D[d] > 0} /\ \A x \in DOMAIN C : C[x] = D[x]
      /\ C = [x \in DOMAIN C |-> C[x]]
  BY <1>2, <1>4
<1>6. \A x \in DOMAIN B : x # r => x \in DOMAIN C /\ C[x] = B[x]
  BY <1>3, <1>4, <1>5
<1>7. \A x \in DOMAIN C : C[x] \in Nat /\ C[x] > 0
  BY <1>3, <1>4, <1>5
<1>8. IsABag(C)
  BY <1>5, <1>7 DEF IsABag
<1>9. B[r] = 1 => r \notin DOMAIN C
  BY <1>4, <1>5 DEF BagToSet
<1> QED
  BY <1>5, <1>6, <1>8, <1>9 DEF C, BagToSet

\* A row more, a copy more; a row less, a copy less.
LEMMA CopiesAre ==
    ASSUME NEW B
    PROVE  \A z : z \in Copies(B) <=> \E x \in BagToSet(B) : \E n \in 1 .. B[x] : z = <<x, n>>
  BY DEF Copies

LEMMA CopyMore ==
    ASSUME NEW B, IsABag(B), NEW r
    PROVE  \E z : z \notin Copies(B) /\ Copies(B (+) SetToBag({r})) = Copies(B) \cup {z}
<1> DEFINE C == B (+) SetToBag({r})
           n == IF r \in BagToSet(B) THEN B[r] ELSE 0
<1>1. BagToSet(C) = BagToSet(B) \cup {r} /\ \A x \in BagToSet(B) : x # r => C[x] = B[x]
  BY BagMore
<1>2. \A x \in BagToSet(B) : B[x] \in Nat
  BY DEF IsABag, BagToSet
<1>3. C[r] = n + 1 /\ n \in Nat
  <2>1. DOMAIN SetToBag({r}) = {r} /\ SetToBag({r})[r] = 1
    BY DEF SetToBag
  <2>2. C[r] = (IF r \in DOMAIN B THEN B[r] ELSE 0) + 1
    BY <2>1 DEF (+)
  <2> QED
    BY <2>2, <1>2 DEF BagToSet
<1> HIDE DEF C, n
<1>4. <<r, n + 1>> \notin Copies(B)
  <2> SUFFICES ASSUME <<r, n + 1>> \in Copies(B) PROVE FALSE
    OBVIOUS
  <2>1. PICK x \in BagToSet(B) : \E k \in 1 .. B[x] : <<r, n + 1>> = <<x, k>>
    BY CopiesAre
  <2>2. x = r /\ n + 1 \in 1 .. B[x]
    BY <2>1
  <2>3. n = B[r] /\ B[r] \in Nat
    BY <2>1, <2>2, <1>2 DEF n
  <2> QED
    BY <2>2, <2>3
<1>5. ASSUME NEW z, z \in Copies(C) PROVE z \in Copies(B) \cup {<<r, n + 1>>}
  <2>1. PICK x \in BagToSet(C) : \E k \in 1 .. C[x] : z = <<x, k>>
    BY <1>5, CopiesAre
  <2>2. PICK k \in 1 .. C[x] : z = <<x, k>>
    BY <2>1
  <2>3. CASE x # r
    BY <2>2, <2>3, <1>1, CopiesAre
  <2>4. CASE x = r /\ k = n + 1
    BY <2>2, <2>4
  <2>5. CASE x = r /\ k # n + 1
    <3>1. k \in 1 .. n
      BY <2>2, <2>5, <1>3
    <3>2. r \in BagToSet(B) /\ n = B[r]
      BY <3>1 DEF n
    <3> QED
      BY <2>2, <2>5, <3>1, <3>2, CopiesAre
  <2> QED
    BY <2>3, <2>4, <2>5
<1>6. ASSUME NEW z, z \in Copies(B) PROVE z \in Copies(C)
  <2>1. PICK x \in BagToSet(B) : \E k \in 1 .. B[x] : z = <<x, k>>
    BY <1>6, CopiesAre
  <2>2. PICK k \in 1 .. B[x] : z = <<x, k>>
    BY <2>1
  <2>3. x \in BagToSet(C) /\ k \in 1 .. C[x]
    <3>1. CASE x # r
      BY <3>1, <1>1, <2>2
    <3>2. CASE x = r
      <4>1. n = B[x] /\ x \in BagToSet(C)
        BY <3>2, <1>1 DEF n
      <4> QED
        BY <4>1, <3>2, <1>3, <2>2
    <3> QED
      BY <3>1, <3>2
  <2> QED
    BY <2>2, <2>3, CopiesAre
<1>7. <<r, n + 1>> \in Copies(C)
  <2>1. r \in BagToSet(C) /\ n + 1 \in 1 .. C[r]
    BY <1>1, <1>3
  <2> QED
    BY <2>1, CopiesAre
<1>8. Copies(C) = Copies(B) \cup {<<r, n + 1>>}
  BY <1>5, <1>6, <1>7
<1> QED
  BY <1>4, <1>8 DEF C

LEMMA CopyLess ==
    ASSUME NEW B, IsABag(B), NEW r \in BagToSet(B)
    PROVE  \E z \in Copies(B) : Copies(B (-) SetToBag({r})) = Copies(B) \ {z}
<1> DEFINE C == B (-) SetToBag({r})
           n == B[r]
<1>1. /\ BagToSet(C) \subseteq BagToSet(B) /\ BagToSet(B) \subseteq BagToSet(C) \cup {r}
      /\ \A x \in BagToSet(B) : x # r => C[x] = B[x]
      /\ B[r] = 1 => r \notin BagToSet(C)
  BY BagLess
<1>2. n \in Nat /\ n > 0
  BY DEF IsABag, BagToSet
<1>3. r \in BagToSet(C) => C[r] = n - 1
  <2> DEFINE D == [x \in DOMAIN B |->
                     IF x \in DOMAIN SetToBag({r}) THEN B[x] - SetToBag({r})[x] ELSE B[x]]
  <2>1. DOMAIN SetToBag({r}) = {r} /\ SetToBag({r})[r] = 1
    BY DEF SetToBag
  <2>2. C = [x \in {d \in DOMAIN D : D[d] > 0} |-> D[x]]
    BY DEF (-)
  <2>3. D[r] = B[r] - 1
    BY <2>1 DEF BagToSet
  <2> HIDE DEF C, D
  <2> QED
    BY <2>2, <2>3 DEF BagToSet
<1>4. n > 1 => r \in BagToSet(C)
  <2> DEFINE D == [x \in DOMAIN B |->
                     IF x \in DOMAIN SetToBag({r}) THEN B[x] - SetToBag({r})[x] ELSE B[x]]
  <2>1. DOMAIN SetToBag({r}) = {r} /\ SetToBag({r})[r] = 1
    BY DEF SetToBag
  <2>2. C = [x \in {d \in DOMAIN D : D[d] > 0} |-> D[x]]
    BY DEF (-)
  <2>3. D[r] = B[r] - 1 /\ r \in DOMAIN D
    BY <2>1 DEF BagToSet
  <2> HIDE DEF C, D
  <2> QED
    BY <1>2, <2>2, <2>3 DEF BagToSet
<1> HIDE DEF C, n
<1>5. <<r, n>> \in Copies(B)
  BY <1>2, CopiesAre DEF n
<1>6. <<r, n>> \notin Copies(C)
  <2> SUFFICES ASSUME <<r, n>> \in Copies(C) PROVE FALSE
    OBVIOUS
  <2>1. PICK x \in BagToSet(C) : \E k \in 1 .. C[x] : <<r, n>> = <<x, k>>
    BY CopiesAre
  <2>2. x = r /\ n \in 1 .. C[r]
    BY <2>1
  <2> QED
    BY <2>1, <2>2, <1>2, <1>3
<1>7. ASSUME NEW z, z \in Copies(C) PROVE z \in Copies(B)
  <2>1. PICK x \in BagToSet(C) : \E k \in 1 .. C[x] : z = <<x, k>>
    BY <1>7, CopiesAre
  <2>2. PICK k \in 1 .. C[x] : z = <<x, k>>
    BY <2>1
  <2>3. x \in BagToSet(B) /\ k \in 1 .. B[x]
    <3>1. CASE x # r
      BY <3>1, <1>1, <2>2
    <3>2. CASE x = r
      <4>1. k \in 1 .. (n - 1)
        BY <3>2, <1>3, <2>2
      <4>2. k \in 1 .. n
        BY <4>1, <1>2
      <4> QED
        BY <3>2, <4>2 DEF n
    <3> QED
      BY <3>1, <3>2
  <2> QED
    BY <2>2, <2>3, CopiesAre
<1>8. ASSUME NEW z, z \in Copies(B), z # <<r, n>> PROVE z \in Copies(C)
  <2>1. PICK x \in BagToSet(B) : \E k \in 1 .. B[x] : z = <<x, k>>
    BY <1>8, CopiesAre
  <2>2. PICK k \in 1 .. B[x] : z = <<x, k>>
    BY <2>1
  <2>3. x \in BagToSet(C) /\ k \in 1 .. C[x]
    <3>1. CASE x # r
      BY <3>1, <1>1, <2>2
    <3>2. CASE x = r
      <4>1. k \in 1 .. n /\ k # n
        BY <3>2, <2>2, <1>8 DEF n
      <4>2. n > 1 /\ k \in 1 .. (n - 1)
        BY <4>1, <1>2
      <4> QED
        BY <3>2, <4>2, <1>3, <1>4
    <3> QED
      BY <3>1, <3>2
  <2> QED
    BY <2>2, <2>3, CopiesAre
<1>9. Copies(C) = Copies(B) \ {<<r, n>>}
  BY <1>6, <1>7, <1>8
<1> QED
  BY <1>5, <1>9 DEF C

LEMMA Vacant ==
    /\ Free.step = "idle" /\ Free.op = "none" /\ Empty.step = "idle"
    /\ Empty.row.type = "none" /\ Blank \in Cards
  BY DEF Free, Empty, Row, Blank, Cards

\* A row that is inserted is one more row, and the rest are as they were.
LEMMA Inserted ==
    ASSUME Shapes, NEW row \in Rows, Insert(row)
    PROVE  /\ JobsOK' /\ BagToSet(jobs)' = BagToSet(jobs) \cup {row}
           /\ \A x \in BagToSet(jobs) : x # row => jobs'[x] = jobs[x]
           /\ row \notin BagToSet(jobs) => jobs'[row] = 1
<1>1. jobs' = jobs (+) SetToBag({row}) /\ IsABag(jobs)
  BY DEF Insert, Shapes, JobsOK
<1>2. /\ IsABag(jobs') /\ BagToSet(jobs') = BagToSet(jobs) \cup {row}
      /\ \A x \in BagToSet(jobs) : x # row => jobs'[x] = jobs[x]
      /\ row \notin BagToSet(jobs) => jobs'[row] = 1
  BY <1>1, BagMore
<1> QED
  BY <1>2 DEF Shapes, JobsOK

\* A request under way is one of the requests.
LEMMA CallUnderway ==
    ASSUME Shapes, NEW c \in Calls, calls[c].step # "idle"
    PROVE  calls[c] \in Requests /\ RequestShape(calls[c]) /\ calls[c].e \in Events
  BY Vacant DEF Shapes, CallsOK, Requests

LEMMA HandUnderway ==
    ASSUME Shapes, hand.step # "idle"
    PROVE  /\ hand \in Hands /\ HandShape(hand) /\ hand # Empty
           /\ hand.row \in Rows /\ hand.row.e \in Events
  BY Vacant DEF Shapes, HandOK, Hands, Rows

LEMMA ShapesBegin == Init => Shapes
<1> SUFFICES ASSUME Init PROVE Shapes
  OBVIOUS
<1>1. Tables
  BY DEF Init, Tables, EventRows, NoEvent, Statuses, NoDelivery, NoPost, Blank, Cards
<1>2. JobsOK
  BY DEF Init, JobsOK, EmptyBag, SetToBag, IsABag, BagToSet
<1>3. HandOK /\ CallsOK
  BY DEF Init, HandOK, CallsOK
<1> QED
  BY <1>1, <1>2, <1>3 DEF Shapes

\* A slot that is given back, or that takes a new request or its next step.
LEMMA CallFreed ==
    ASSUME Shapes, NEW c \in Calls, Return(c) PROVE CallsOK'
  BY DEF Shapes, CallsOK, Return
LEMMA CallTaken ==
    ASSUME Shapes, NEW c \in Calls, NEW q \in Requests, RequestShape(q),
           calls' = [calls EXCEPT ![c] = q]
    PROVE  CallsOK'
  BY DEF Shapes, CallsOK
LEMMA CallStepped ==
    ASSUME Shapes, NEW c \in Calls, calls[c].step # "idle", NEW s \in {"refresh", "count", "close"},
           calls[c].step # "announce", Step(c, s)
    PROVE  CallsOK'
<1> DEFINE q == [calls[c] EXCEPT !.step = s]
<1>1. calls[c] \in Requests /\ RequestShape(calls[c])
  BY CallUnderway
<1>2. q \in Requests /\ RequestShape(q)
  BY <1>1 DEF Requests, RequestShape
<1>3. calls' = [calls EXCEPT ![c] = q]
  BY DEF Step
<1> QED
  BY <1>2, <1>3, CallTaken

LEMMA SpendKept == ASSUME Shapes, NEW what \in {"rsvps", "edits", "reminds", "trouble"}, Spend(what)
                   PROVE  used' \in [{"rsvps", "edits", "reminds", "trouble"} -> Nat]
  BY DEF Shapes, Tables, Spend

LEMMA ArrivesIdle == ASSUME NEW c \in Calls, Arrives(c) PROVE calls[c].step = "idle"
  BY ConstantsAssumption DEF Arrives

LEMMA RequestShapes ==
    ASSUME Shapes, NEW c \in Calls, Request(c) PROVE Shapes'
<1>1. ASSUME NEW e \in Events, Create(c, e) PROVE Shapes'
  <2> DEFINE q == [Free EXCEPT !.op = "create", !.e = e, !.step = "announce"]
  <2>1. q \in Requests /\ RequestShape(q)
    BY DEF Requests, RequestShape, Free, NoEvent, EventRows, Statuses
  <2>2. CallsOK'
    BY <1>1, <2>1, CallTaken DEF Create
  <2>3. Tables'
    BY <1>1 DEF Create, Shapes, Tables, EventRows, discord
  <2> QED
    BY <1>1, <2>2, <2>3 DEF Create, Shapes, JobsOK, HandOK
<1>2. ASSUME NEW e \in Events, Reanchor(c, e) PROVE Shapes'
  <2> DEFINE q == [Free EXCEPT !.op = "reanchor", !.e = e, !.step = "refresh"]
  <2>1. q \in Requests /\ RequestShape(q)
    BY DEF Requests, RequestShape, Free, NoEvent, EventRows, Statuses
  <2>2. CallsOK'
    BY <1>2, <2>1, CallTaken DEF Reanchor
  <2>3. PICK over \in BOOLEAN : ev' = [ev EXCEPT ![e].text = @ + 1, ![e].over = over]
    BY <1>2 DEF Reanchor
  <2>t. ev[e] \in EventRows /\ ev[e].text + 1 \in Nat
    BY DEF Shapes, Tables, EventRows
  <2>r. [ev[e] EXCEPT !.text = @ + 1, !.over = over] \in EventRows
    BY <2>t DEF EventRows
  <2>4. ev' \in [Events -> EventRows]
    BY <2>3, <2>r DEF Shapes, Tables
  <2>5. Tables'
    BY <1>2, <2>4, SpendKept DEF Reanchor, Shapes, Tables, discord
  <2> QED
    BY <1>2, <2>2, <2>5 DEF Reanchor, Shapes, JobsOK, HandOK
<1>3. ASSUME NEW e \in Events, NEW op \in Ops, LoadEvent(c, e, op) PROVE Shapes'
  <2> DEFINE q == [op |-> op, e |-> e, step |-> "save", copy |-> [ev[e] EXCEPT !.over = FALSE]]
  <2>1. q \in Requests /\ RequestShape(q)
    BY <1>3 DEF Requests, RequestShape, LoadEvent, Shapes, Tables, EventRows, Ops
  <2>2. CallsOK'
    BY <1>3, <2>1, CallTaken DEF LoadEvent
  <2>3. Tables'
    BY <1>3, SpendKept DEF LoadEvent, Shapes, Tables, database, discord
  <2> QED
    BY <1>3, <2>2, <2>3 DEF LoadEvent, Shapes, JobsOK, HandOK
<1>4. ASSUME NEW e \in Events, NEW m \in Members, Answer(c, e, m) PROVE Shapes'
  <2> DEFINE q == [Free EXCEPT !.op = "rsvp", !.e = e, !.step = "refresh"]
  <2>1. q \in Requests /\ RequestShape(q)
    BY DEF Requests, RequestShape, Free, NoEvent, EventRows, Statuses
  <2>2. CallsOK'
    BY <1>4, <2>1, CallTaken DEF Answer
  <2>3. rsvp' \in [Events -> SUBSET Members]
    BY <1>4 DEF Answer, Shapes, Tables
  <2>4. Tables'
    BY <1>4, <2>3, SpendKept DEF Answer, Shapes, Tables, discord
  <2> QED
    BY <1>4, <2>2, <2>4 DEF Answer, Shapes, JobsOK, HandOK
<1> QED
  BY <1>1, <1>2, <1>3, <1>4 DEF Request, Rsvp, Press

LEMMA ContinueShapes ==
    ASSUME Shapes, NEW c \in Calls, Continue(c) PROVE Shapes'
<1> DEFINE e == calls[c].e
<1>u. calls[c].step # "idle"
  BY DEF Continue, EnqueueAnnounce, LookRefresh, QueueRefresh, QueueClose, SaveUpdate, SaveArchive,
         SaveUnarchive, SaveComplete
<1>0. calls[c] \in Requests /\ RequestShape(calls[c]) /\ e \in Events
  BY <1>u, CallUnderway
<1>1. CASE EnqueueAnnounce(c)
  <2>1. Row("announce", e, Card(e)) \in Rows
    BY <1>0 DEF Row, Card, Rows, Cards, JobTypes, Shapes, Tables, EventRows
  <2>2. JobsOK'
    BY <1>1, <2>1, Inserted DEF EnqueueAnnounce, Shapes, JobsOK
  <2>3. CallsOK'
    BY <1>1, CallFreed DEF EnqueueAnnounce
  <2>4. Tables' /\ HandOK'
    BY <1>1 DEF EnqueueAnnounce, Shapes, Tables, HandOK, database, discord
  <2> QED
    BY <2>2, <2>3, <2>4 DEF Shapes
<1>2. CASE LookRefresh(c)
  <2>1. CallsOK'
    BY <1>2, CallFreed, CallStepped DEF LookRefresh
  <2>2. Tables' /\ HandOK' /\ JobsOK'
    BY <1>2, <1>0 DEF LookRefresh, Shapes, Tables, HandOK, JobsOK, database, discord
  <2> QED
    BY <2>1, <2>2 DEF Shapes
<1>3. CASE QueueRefresh(c)
  <2>1. Row("refresh", e, Blank) \in Rows
    BY <1>0, Vacant DEF Row, Rows, JobTypes
  <2>2. JobsOK'
    BY <1>3, <2>1, Inserted DEF QueueRefresh, Shapes, JobsOK
  <2>3. CallsOK'
    BY <1>3, CallFreed DEF QueueRefresh
  <2>4. Tables' /\ HandOK'
    BY <1>3 DEF QueueRefresh, Shapes, Tables, HandOK, database, discord
  <2> QED
    BY <2>2, <2>3, <2>4 DEF Shapes
<1>4. CASE QueueClose(c)
  <2>1. Row("close", e, Blank) \in Rows
    BY <1>0, Vacant DEF Row, Rows, JobTypes
  <2>2. JobsOK'
    BY <1>4, <2>1, Inserted DEF QueueClose, EnqueueClose, Shapes, JobsOK
  <2>3. CallsOK'
    BY <1>4, CallFreed DEF QueueClose
  <2>4. Tables' /\ HandOK'
    BY <1>4 DEF QueueClose, Shapes, Tables, HandOK, database, discord
  <2> QED
    BY <2>2, <2>3, <2>4 DEF Shapes
<1>c. calls[c].copy \in EventRows /\ ev[e] \in EventRows
  BY <1>0 DEF Requests, Shapes, Tables
<1>5. CASE SaveUpdate(c)
  <2>1. PICK over \in BOOLEAN :
          ev' = [ev EXCEPT ![e] = [calls[c].copy EXCEPT !.text = ev[e].text + 1, !.over = over]]
    BY <1>5 DEF SaveUpdate
  <2>t. ev[e].text + 1 \in Nat
    BY <1>c DEF EventRows
  <2>r. [calls[c].copy EXCEPT !.text = ev[e].text + 1, !.over = over] \in EventRows
    BY <1>c, <2>t DEF EventRows
  <2>2. ev' \in [Events -> EventRows]
    BY <2>1, <2>r, <1>0 DEF Shapes, Tables
  <2>3. CallsOK'
    BY <1>5, <1>u, CallStepped DEF SaveUpdate
  <2>4. Tables' /\ HandOK' /\ JobsOK'
    BY <1>5, <2>2 DEF SaveUpdate, Shapes, Tables, HandOK, JobsOK, discord
  <2> QED
    BY <2>3, <2>4 DEF Shapes
<1>w. ASSUME NEW row \in EventRows, WriteBack(c, row)
      PROVE  ev' \in [Events -> EventRows] /\ behind' \in [Events -> BOOLEAN]
  <2>1. ev' \in [Events -> EventRows]
    BY <1>w, <1>0, <1>c DEF WriteBack, Shapes, Tables, EventRows
  <2>2. behind' \in [Events -> BOOLEAN]
    BY <1>w, <1>0 DEF WriteBack, Shapes, Tables
  <2> QED
    BY <2>1, <2>2
<1>6. CASE SaveArchive(c)
  <2>1. [calls[c].copy EXCEPT !.archived = TRUE] \in EventRows
    BY <1>c DEF EventRows
  <2>2. CallsOK'
    BY <1>6, <1>u, CallStepped DEF SaveArchive
  <2>3. Tables' /\ HandOK' /\ JobsOK'
    BY <1>6, <2>1, <1>w DEF SaveArchive, Shapes, Tables, HandOK, JobsOK, discord
  <2> QED
    BY <2>2, <2>3 DEF Shapes
<1>7. CASE SaveUnarchive(c)
  <2>1. [calls[c].copy EXCEPT !.archived = FALSE] \in EventRows
    BY <1>c DEF EventRows
  <2>2. CallsOK'
    BY <1>7, CallFreed DEF SaveUnarchive
  <2>3. Tables' /\ HandOK' /\ JobsOK'
    BY <1>7, <2>1, <1>w DEF SaveUnarchive, Shapes, Tables, HandOK, JobsOK, discord
  <2> QED
    BY <2>2, <2>3 DEF Shapes
<1>8. CASE SaveComplete(c)
  <2>1. [calls[c].copy EXCEPT !.status = "previous"] \in EventRows
    BY <1>c DEF EventRows, Statuses
  <2>2. CallsOK'
    BY <1>8, CallFreed DEF SaveComplete
  <2>3. Tables' /\ HandOK' /\ JobsOK'
    BY <1>8, <2>1, <1>w DEF SaveComplete, Shapes, Tables, HandOK, JobsOK, discord
  <2> QED
    BY <2>2, <2>3 DEF Shapes
<1> QED
  BY <1>1, <1>2, <1>3, <1>4, <1>5, <1>6, <1>7, <1>8 DEF Continue

LEMMA AloneShapes ==
    ASSUME Shapes, NEW e \in Events, Alone(e) PROVE Shapes'
<1>1. CASE Remove(e)
  <2>1. ev' \in [Events -> EventRows]
    BY <1>1 DEF Remove, Shapes, Tables, EventRows
  <2> QED
    BY <1>1, <2>1, SpendKept DEF Remove, Shapes, Tables, JobsOK, HandOK, CallsOK, discord
<1>2. CASE Clock(e)
  <2>1. ev' \in [Events -> EventRows]
    BY <1>2 DEF Clock, Shapes, Tables, EventRows
  <2> QED
    BY <1>2, <2>1 DEF Clock, Shapes, Tables, JobsOK, HandOK, CallsOK, discord
<1>3. CASE CloseEnded(e)
  <2>1. Row("close", e, Blank) \in Rows
    BY Vacant DEF Row, Rows, JobTypes
  <2>2. JobsOK'
    BY <1>3, <2>1, Inserted DEF CloseEnded, EnqueueClose, Shapes, JobsOK
  <2> QED
    BY <1>3, <2>2 DEF CloseEnded, Shapes, Tables, HandOK, CallsOK, database, discord
<1>4. CASE EnqueueReminder(e)
  <2>1. Row("thread", e, Blank) \in Rows
    BY Vacant DEF Row, Rows, JobTypes
  <2>2. JobsOK'
    BY <1>4, <2>1, Inserted DEF EnqueueReminder
  <2> QED
    BY <1>4, <2>2, SpendKept DEF EnqueueReminder, Shapes, Tables, HandOK, CallsOK, database, discord
<1> QED
  BY <1>1, <1>2, <1>3, <1>4 DEF Alone

LEMMA OtherShapes ==
    ASSUME Shapes, AdvanceStatuses \/ Toggle \/ UNCHANGED vars PROVE Shapes'
<1>1. CASE AdvanceStatuses
  <2>1. ev' \in [Events -> EventRows]
    <3>1. \A e \in Events : ev[e] \in EventRows /\ [ev[e] EXCEPT !.status = "previous"] \in EventRows
      BY DEF Shapes, Tables, EventRows, Statuses
    <3> QED
      BY <1>1, <3>1 DEF AdvanceStatuses
  <2> QED
    BY <1>1, <2>1 DEF AdvanceStatuses, Shapes, Tables, JobsOK, HandOK, CallsOK, discord
<1>2. CASE Toggle
  BY <1>2, SpendKept DEF Toggle, InTrouble, Shapes, Tables, JobsOK, HandOK, CallsOK, database, discord
<1>3. CASE UNCHANGED vars
  BY <1>3 DEF vars, database, discord, Shapes, Tables, JobsOK, HandOK, CallsOK
<1> QED
  BY <1>1, <1>2, <1>3

\* Taking a row, and putting it back.
LEMMA Taken ==
    ASSUME Shapes, NEW row \in BagToSet(jobs), Take(row)
    PROVE  /\ Shapes' /\ row \in Rows
           /\ BagToSet(jobs') \subseteq BagToSet(jobs)
           /\ BagToSet(jobs) \subseteq BagToSet(jobs') \cup {row}
           /\ \A x \in BagToSet(jobs) : x # row => jobs'[x] = jobs[x]
           /\ jobs[row] = 1 => row \notin BagToSet(jobs')
           /\ hand'.row = row /\ hand'.step = "start"
<1>1. jobs' = jobs (-) SetToBag({row}) /\ IsABag(jobs) /\ row \in Rows
  BY DEF Take, Shapes, JobsOK
<1>2. /\ IsABag(jobs') /\ BagToSet(jobs') \subseteq BagToSet(jobs)
      /\ BagToSet(jobs) \subseteq BagToSet(jobs') \cup {row}
      /\ \A x \in BagToSet(jobs) : x # row => jobs'[x] = jobs[x]
      /\ jobs[row] = 1 => row \notin BagToSet(jobs')
  BY <1>1, BagLess
<1>3. hand' = [row |-> row, step |-> "start", seen |-> Blank, visible |-> FALSE]
  BY DEF Take, Empty
<1>4. hand' \in Hands /\ HandShape(hand')
  BY <1>1, <1>3, Vacant DEF Hands, HandShape, Steps
<1>5. JobsOK' /\ HandOK'
  BY <1>2, <1>4 DEF JobsOK, HandOK, Shapes
<1>6. Tables' /\ CallsOK'
  BY DEF Take, Shapes, Tables, CallsOK, database, discord
<1> QED
  BY <1>1, <1>2, <1>3, <1>5, <1>6 DEF Shapes

LEMMA PutBack ==
    ASSUME Shapes, hand.step # "idle", jobs' = jobs (+) SetToBag({hand.row})
    PROVE  /\ JobsOK' /\ BagToSet(jobs') = BagToSet(jobs) \cup {hand.row}
           /\ \A x \in BagToSet(jobs) : x # hand.row => jobs'[x] = jobs[x]
           /\ hand.row \notin BagToSet(jobs) => jobs'[hand.row] = 1
<1>1. IsABag(jobs) /\ hand.row \in Rows
  BY HandUnderway DEF Shapes, JobsOK
<1>2. ASSUME NEW r \in Rows, jobs' = jobs (+) SetToBag({r})
      PROVE  /\ IsABag(jobs') /\ BagToSet(jobs') = BagToSet(jobs) \cup {r}
             /\ \A x \in BagToSet(jobs) : x # r => jobs'[x] = jobs[x]
             /\ r \notin BagToSet(jobs) => jobs'[r] = 1
  <2> DEFINE B == jobs (+) SetToBag({r})
  <2>1. /\ IsABag(B) /\ BagToSet(B) = BagToSet(jobs) \cup {r}
        /\ \A x \in BagToSet(jobs) : x # r => B[x] = jobs[x]
        /\ r \notin BagToSet(jobs) => B[r] = 1
    BY <1>1, BagMore
  <2>2. jobs' = B
    BY <1>2
  <2> HIDE DEF B
  <2> QED
    BY <2>1, <2>2
<1> QED
  BY <1>1, <1>2 DEF Shapes, JobsOK

LEMMA DispatchShapes ==
    ASSUME Shapes, Dispatch PROVE Shapes'
<1> DEFINE e == hand.row.e
<1>0. hand.step # "idle"
  BY DEF Dispatch, InHand, SendAnnouncement, RecordDelivery, ReadRefresh, ReadRoster, EditRefresh,
         ReadClose, EditClose, MarkClosed, ReadThread, OpenThread, RecordThread, Ping, Refused
<1>1. hand \in Hands /\ HandShape(hand) /\ hand.row \in Rows /\ e \in Events
  BY <1>0, HandUnderway
<1>2. ev[e] \in EventRows /\ rsvp[e] \subseteq Members /\ post[e] \in
        [count : Nat, card : Cards, live : BOOLEAN, threads : Nat, pings : Nat]
      /\ delivery[e] \in [made : BOOLEAN, thread : BOOLEAN, closed : BOOLEAN]
  BY <1>1 DEF Shapes, Tables
<1>3. UNCHANGED <<database, calls, on>>
  BY DEF Dispatch, SendAnnouncement, RecordDelivery, ReadRefresh, ReadRoster, EditRefresh,
         ReadClose, EditClose, MarkClosed, ReadThread, OpenThread, RecordThread, Ping, Refused, Fail
<1>4. ASSUME NEW s \in Steps, Goto(s), HandShape([hand EXCEPT !.step = s]) PROVE HandOK'
  <2>1. [hand EXCEPT !.step = s] \in Hands
    BY <1>1 DEF Hands
  <2> QED
    BY <1>4, <2>1 DEF Goto, HandOK
<1>5. ASSUME Done PROVE HandOK'
  BY <1>5 DEF Done, HandOK
<1>6. CASE SendAnnouncement
  <2>1. hand.row.card \in Cards /\ post[e].count + 1 \in Nat
    BY <1>1, <1>2 DEF Rows
  <2>2. post' = [post EXCEPT ![e] = [post[e] EXCEPT !.count = @ + 1, !.card = hand.row.card, !.live = TRUE]]
    BY <1>6 DEF SendAnnouncement
  <2>3. post' \in [Events -> [count : Nat, card : Cards, live : BOOLEAN, threads : Nat, pings : Nat]]
    BY <1>2, <2>1, <2>2 DEF Shapes, Tables
  <2>4. HandOK'
    BY <1>6, <1>4 DEF SendAnnouncement, InHand, HandShape, Steps
  <2> QED
    BY <1>6, <1>3, <2>3, <2>4 DEF SendAnnouncement, Shapes, Tables, JobsOK, CallsOK, database
<1>7. CASE RecordDelivery
  <2>1. delivery' \in [Events -> [made : BOOLEAN, thread : BOOLEAN, closed : BOOLEAN]]
    <3>1. [NoDelivery EXCEPT !.made = TRUE] \in [made : BOOLEAN, thread : BOOLEAN, closed : BOOLEAN]
      BY DEF NoDelivery
    <3>2. delivery' = [delivery EXCEPT ![e] = [NoDelivery EXCEPT !.made = TRUE]] \/ delivery' = delivery
      BY <1>7 DEF RecordDelivery
    <3> QED
      BY <3>1, <3>2 DEF Shapes, Tables
  <2>2. used' \in [{"rsvps", "edits", "reminds", "trouble"} -> Nat]
    BY <1>7, SpendKept DEF RecordDelivery, InTrouble, Shapes, Tables
  <2> QED
    BY <1>7, <1>3, <1>5, <2>1, <2>2 DEF RecordDelivery, Shapes, Tables, JobsOK, CallsOK, database
<1>8. CASE ReadRefresh
  <2> DEFINE h == [hand EXCEPT !.step = "roster", !.visible = TRUE,
                               !.seen = [Blank EXCEPT !.text = ev[e].text]]
  <2>1. [Blank EXCEPT !.text = ev[e].text] \in Cards
    BY <1>2 DEF Blank, Cards, EventRows
  <2>2. h \in Hands /\ h.step = "roster" /\ h.row = hand.row
    BY <1>1, <2>1 DEF Hands, Steps
  <2>4. HandShape(h)
    BY <1>8, <2>2 DEF ReadRefresh, InHand, HandShape, Idempotent
  <2>5. hand' = h \/ hand' = Empty
    BY <1>8 DEF ReadRefresh, Done
  <2>6. HandOK'
    BY <2>2, <2>4, <2>5 DEF HandOK
  <2>3. behind' \in [Events -> BOOLEAN]
    BY <1>8, <1>1 DEF ReadRefresh, Shapes, Tables
  <2> QED
    BY <1>8, <1>3, <2>6, <2>3 DEF ReadRefresh, Shapes, Tables, JobsOK, CallsOK, database, discord
<1>9. CASE ReadRoster
  <2>1. hand.seen \in Cards /\ rsvp[e] \in SUBSET Members
    BY <1>1, <1>2 DEF Hands
  <2>2. [hand EXCEPT !.step = "edit", !.seen = [hand.seen EXCEPT !.roster = rsvp[e]]] \in Hands
    BY <1>1, <2>1 DEF Hands, Steps, Cards
  <2>3. hand' = [hand EXCEPT !.step = "edit", !.seen = [hand.seen EXCEPT !.roster = rsvp[e]]]
    BY <1>9, <1>1 DEF ReadRoster, Hands
  <2>4. HandOK'
    BY <1>9, <1>1, <2>2, <2>3 DEF ReadRoster, HandOK, HandShape
  <2> QED
    BY <1>9, <1>3, <2>4 DEF ReadRoster, Shapes, Tables, JobsOK, CallsOK, database, discord
<1>10. CASE EditRefresh
  <2>1. post' = [post EXCEPT ![e] = [post[e] EXCEPT !.card = hand.seen, !.live = TRUE]]
    BY <1>10 DEF EditRefresh
  <2>2. post' \in [Events -> [count : Nat, card : Cards, live : BOOLEAN, threads : Nat, pings : Nat]]
    BY <1>1, <1>2, <2>1 DEF Shapes, Tables, Hands
  <2> QED
    BY <1>10, <1>3, <1>5, <2>2 DEF EditRefresh, Shapes, Tables, JobsOK, CallsOK, database
<1>11. CASE ReadClose
  <2> DEFINE s == IF Visible(e) THEN "roster" ELSE "edit"
             h == [hand EXCEPT !.step = s, !.visible = Visible(e),
                               !.seen = [Blank EXCEPT !.text = ev[e].text]]
  <2>1. [Blank EXCEPT !.text = ev[e].text] \in Cards /\ s \in Steps /\ Visible(e) \in BOOLEAN
    BY <1>2 DEF Blank, Cards, EventRows, Steps, Visible
  <2>3. h \in Hands /\ h.step = s /\ h.row = hand.row
    BY <1>1, <2>1 DEF Hands
  <2>4. HandShape(h)
    BY <1>11, <2>3 DEF ReadClose, InHand, HandShape, Idempotent
  <2>5. hand' = h \/ hand' = Empty
    BY <1>11 DEF ReadClose, Done
  <2>2. HandOK'
    BY <2>3, <2>4, <2>5 DEF HandOK
  <2> QED
    BY <1>11, <1>3, <2>2 DEF ReadClose, Shapes, Tables, JobsOK, CallsOK, database, discord
<1>12. CASE EditClose
  <2>1. PICK card \in Cards : post' = [post EXCEPT ![e] = [post[e] EXCEPT !.live = FALSE, !.card = card]]
    BY <1>12, <1>1, <1>2 DEF EditClose, Hands
  <2>2. post' \in [Events -> [count : Nat, card : Cards, live : BOOLEAN, threads : Nat, pings : Nat]]
    BY <1>1, <1>2, <2>1 DEF Shapes, Tables
  <2>3. HandOK'
    BY <1>12, <1>4 DEF EditClose, InHand, HandShape, Steps, Idempotent
  <2> QED
    BY <1>12, <1>3, <2>2, <2>3 DEF EditClose, Shapes, Tables, JobsOK, CallsOK, database
<1>13. CASE MarkClosed
  <2>1. delivery' \in [Events -> [made : BOOLEAN, thread : BOOLEAN, closed : BOOLEAN]]
    BY <1>13, <1>1 DEF MarkClosed, Shapes, Tables
  <2> QED
    BY <1>13, <1>3, <1>5, <2>1 DEF MarkClosed, Shapes, Tables, JobsOK, CallsOK, database
<1>14. CASE ReadThread
  <2>1. HandOK'
    BY <1>14, <1>4, <1>5 DEF ReadThread, InHand, HandShape, Steps
  <2> QED
    BY <1>14, <1>3, <2>1 DEF ReadThread, Shapes, Tables, JobsOK, CallsOK, database, discord
<1>15. CASE OpenThread
  <2>1. post' \in [Events -> [count : Nat, card : Cards, live : BOOLEAN, threads : Nat, pings : Nat]]
    BY <1>15, <1>1, <1>2 DEF OpenThread, Shapes, Tables
  <2>2. HandOK'
    BY <1>15, <1>4 DEF OpenThread, InHand, HandShape, Steps
  <2> QED
    BY <1>15, <1>3, <2>1, <2>2 DEF OpenThread, Shapes, Tables, JobsOK, CallsOK, database
<1>16. CASE RecordThread
  <2>1. delivery' \in [Events -> [made : BOOLEAN, thread : BOOLEAN, closed : BOOLEAN]]
    <3>1. delivery' = [delivery EXCEPT ![e] = [delivery[e] EXCEPT !.thread = TRUE]] \/ delivery' = delivery
      BY <1>16 DEF RecordThread
    <3>2. [delivery[e] EXCEPT !.thread = TRUE] \in [made : BOOLEAN, thread : BOOLEAN, closed : BOOLEAN]
      BY <1>2
    <3> QED
      BY <3>1, <3>2 DEF Shapes, Tables
  <2>2. used' \in [{"rsvps", "edits", "reminds", "trouble"} -> Nat]
    BY <1>16, SpendKept DEF RecordThread, InTrouble, Shapes, Tables
  <2>3. HandOK'
    BY <1>16, <1>4 DEF RecordThread, InHand, HandShape, Steps
  <2> QED
    BY <1>16, <1>3, <2>1, <2>2, <2>3 DEF RecordThread, Shapes, Tables, JobsOK, CallsOK, database
<1>17. CASE Ping
  <2>1. post[e].pings + 1 \in Nat
    BY <1>2
  <2>2. post' \in [Events -> [count : Nat, card : Cards, live : BOOLEAN, threads : Nat, pings : Nat]]
    BY <1>17, <1>1, <1>2, <2>1 DEF Ping, Shapes, Tables
  <2> QED
    BY <1>17, <1>3, <1>5, <2>2 DEF Ping, Shapes, Tables, JobsOK, CallsOK, database
<1>18. CASE Refused
  <2>1. behind' \in [Events -> BOOLEAN]
    BY <1>18, <1>1 DEF Refused, Fail, Shapes, Tables
  <2> QED
    BY <1>18, <1>3, <1>5, <2>1 DEF Refused, Fail, Shapes, Tables, JobsOK, CallsOK, database, discord
<1> QED
  BY <1>6, <1>7, <1>8, <1>9, <1>10, <1>11, <1>12, <1>13, <1>14, <1>15, <1>16, <1>17, <1>18 DEF Dispatch

\* A throw, and a crash.
LEMMA TroubleShapes ==
    ASSUME Shapes, Throw \/ Crash PROVE Shapes'
<1>1. CASE Throw
  <2>1. PICK final \in BOOLEAN : Fail(final)
    BY <1>1 DEF Throw
  <2>2. hand.step # "idle" /\ hand.row.e \in Events
    BY <1>1, HandUnderway DEF Throw, Shapes, HandOK, Hands, Rows, Steps
  <2>3. JobsOK'
    BY <2>1, <2>2, PutBack DEF Fail, Shapes, JobsOK
  <2>4. behind' \in [Events -> BOOLEAN] /\ HandOK'
    BY <2>1, <2>2 DEF Fail, Shapes, Tables, Done, HandOK
  <2> QED
    BY <1>1, <2>1, <2>3, <2>4, SpendKept DEF Throw, InTrouble, Fail, Shapes, Tables, CallsOK, database, discord
<1>2. CASE Crash
  <2>1. JobsOK'
    <3>1. CASE hand.row.type \in Idempotent
      <4>1. hand.step # "idle"
        BY <3>1, Vacant DEF Shapes, HandOK, Hands, Steps, Idempotent
      <4> QED
        BY <1>2, <3>1, <4>1, PutBack DEF Crash, Reaped
    <3>2. CASE hand.row.type \notin Idempotent
      BY <1>2, <3>2 DEF Crash, Reaped, Shapes, JobsOK
    <3> QED
      BY <3>1, <3>2
  <2>2. behind' \in [Events -> BOOLEAN] /\ HandOK' /\ CallsOK'
    BY <1>2 DEF Crash, Shapes, Tables, Done, HandOK, CallsOK
  <2> QED
    BY <1>2, <2>1, <2>2, SpendKept DEF Crash, InTrouble, Shapes, Tables, database, discord
<1> QED
  BY <1>1, <1>2

LEMMA ShapesKept == ASSUME Shapes, [Next]_vars PROVE Shapes'
  BY RequestShapes, ContinueShapes, AloneShapes, OtherShapes, Taken, DispatchShapes, TroubleShapes
  DEF Next

(***************************************************************************)
(* The invariant.                                                          *)
(***************************************************************************)
\* The requests and the waiting rows that are to announce e.
Announcing(e) == {c \in Calls : calls[c].step = "announce" /\ calls[c].e = e}
Sends(e) == Of(e, {"announce"})
Sending(e) == Handling(e, {"announce"})

\* An announcement is in one place at a time: with the request that created the
\* event, in the queue, once, or in hand; and no longer after it was sent.
Once(e) ==
    /\ post[e].count <= 1
    /\ ~ev[e].born => post[e].count = 0
    /\ delivery[e].made => post[e].count = 1
    /\ delivery[e].closed => delivery[e].made
    /\ \A c \in Announcing(e) :
         ev[e].born /\ post[e].count = 0 /\ Sends(e) = {} /\ ~Sending(e) /\ Announcing(e) = {c}
    /\ \A r \in Sends(e) :
         ev[e].born /\ post[e].count = 0 /\ jobs[r] = 1 /\ ~Sending(e) /\ Sends(e) = {r}
    /\ Sending(e) => ev[e].born
    /\ Sending(e) /\ hand.step = "start" => post[e].count = 0
    /\ Sending(e) /\ hand.step = "record" => post[e].count = 1 /\ ~delivery[e].made

\* A refresh past its look at the delivery, and a close past its own.
Mending(e) == Handling(e, {"refresh"}) /\ hand.step \in {"roster", "edit"}
Closing(e) == Handling(e, {"close"}) /\ hand.step \in {"roster", "edit", "stamp"}

\* One worker: what a refresh or a close found open is open until it is done.
Retiring(e) ==
    /\ delivery[e].closed => ~post[e].live
    /\ Mending(e) => Open(e) /\ hand.visible
    /\ Closing(e) => delivery[e].made
    /\ Closing(e) /\ hand.step = "stamp" => ~post[e].live

\* A thread whose pings are about to go out has had none.
Threads(e) ==
    /\ post[e].threads <= 1 /\ post[e].pings <= post[e].threads
    /\ Handling(e, {"thread"}) /\ hand.step \in {"record", "ping"} =>
         post[e].threads = 1 /\ post[e].pings = 0

\* A refresh of e that has not read anything yet is on its way.
Asked(e) == \E c \in Calls : calls[c].step \in {"refresh", "count"} /\ calls[c].e = e
Claimed(e) == Asked(e) \/ Waiting(e) \/ (Handling(e, {"refresh"}) /\ hand.step = "start")

\* What shows e, or is about to, is what the database has.
Shown(e) ==
    /\ \A r \in Sends(e) : r.card = Card(e)
    /\ Sending(e) /\ hand.step = "start" => hand.row.card = Card(e)
    /\ Sending(e) /\ hand.step = "record" => post[e].card = Card(e)
    /\ delivery[e].made /\ ~Mending(e) => post[e].card = Card(e)
    /\ hand.row.e = e /\ hand.visible /\ hand.step = "roster" => hand.seen.text = ev[e].text
    /\ hand.row.e = e /\ hand.visible /\ hand.step = "edit" => hand.seen = Card(e)
Truth(e) == behind[e] \/ Claimed(e) \/ Shown(e)

AnnouncementInv == \A e \in Events : Once(e) /\ Retiring(e) /\ Threads(e) /\ Truth(e)

(***************************************************************************)
(* One announcement for each event.                                        *)
(***************************************************************************)
\* An event that was created stays created: no stale copy takes that back.
LEMMA BornStays ==
    ASSUME Shapes, [Next]_vars, NEW e \in Events, ev[e].born PROVE ev'[e].born
<1>0. DOMAIN ev = Events /\ \A d \in Events : ev[d] \in EventRows
  BY DEF Shapes, Tables
<1>1. ASSUME NEW c \in Calls, Request(c) PROVE ev'[e].born
  <2>1. ASSUME NEW d \in Events, Create(c, d) PROVE ev'[e].born
    BY <1>0, <2>1 DEF Create, EventRows
  <2>2. ASSUME NEW d \in Events, Reanchor(c, d) PROVE ev'[e].born
    BY <1>0, <2>2 DEF Reanchor, EventRows
  <2>3. CASE UNCHANGED ev
    BY <2>3
  <2> QED
    BY <1>1, <2>1, <2>2, <2>3 DEF Request, LoadEvent, Rsvp, Press, Answer, database
<1>2. ASSUME NEW c \in Calls, Continue(c) PROVE ev'[e].born
  <2>1. CASE EnqueueAnnounce(c) \/ LookRefresh(c) \/ QueueRefresh(c) \/ QueueClose(c)
    BY <2>1 DEF EnqueueAnnounce, LookRefresh, QueueRefresh, QueueClose, database
  <2>2. CASE calls[c].step = "save"
    <3>1. calls[c].copy.born /\ calls[c].copy \in EventRows /\ calls[c].e \in Events
      BY <2>2, CallUnderway DEF RequestShape, Requests
    <3>2. CASE SaveUpdate(c)
      BY <1>0, <3>1, <3>2 DEF SaveUpdate, EventRows
    <3>3. CASE SaveArchive(c) \/ SaveUnarchive(c) \/ SaveComplete(c)
      <4>0. \A b \in BOOLEAN : /\ [calls[c].copy EXCEPT !.archived = b] \in EventRows
                              /\ [calls[c].copy EXCEPT !.archived = b].born
        BY <3>1 DEF EventRows
      <4>2. /\ [calls[c].copy EXCEPT !.status = "previous"] \in EventRows
            /\ [calls[c].copy EXCEPT !.status = "previous"].born
        BY <3>1 DEF EventRows, Statuses
      <4>1. PICK row \in EventRows : WriteBack(c, row) /\ row.born
        BY <3>3, <4>0, <4>2 DEF SaveArchive, SaveUnarchive, SaveComplete
      <4> QED
        BY <1>0, <3>1, <4>1 DEF WriteBack, EventRows
    <3> QED
      BY <1>2, <2>2, <3>2, <3>3, <2>1 DEF Continue
  <2> QED
    BY <1>2, <2>1, <2>2 DEF Continue, SaveUpdate, SaveArchive, SaveUnarchive, SaveComplete
<1>3. ASSUME NEW d \in Events, Alone(d) PROVE ev'[e].born
  BY <1>0, <1>3 DEF Alone, Remove, Clock, CloseEnded, EnqueueReminder, EventRows, database
<1>4. CASE AdvanceStatuses
  BY <1>0, <1>4 DEF AdvanceStatuses, EventRows
<1>5. CASE Toggle \/ Throw \/ Crash \/ UNCHANGED vars
  BY <1>5 DEF Toggle, Throw, Fail, Crash, vars, database
<1>6. ASSUME NEW row \in BagToSet(jobs), Take(row) PROVE ev'[e].born
  BY <1>6 DEF Take, database
<1>7. CASE Dispatch
  BY <1>7 DEF Dispatch, SendAnnouncement, RecordDelivery, ReadRefresh, ReadRoster, EditRefresh,
         ReadClose, EditClose, MarkClosed, ReadThread, OpenThread, RecordThread, Ping, Refused, Fail, database
<1> QED
  BY <1>1, <1>2, <1>3, <1>4, <1>5, <1>6, <1>7 DEF Next

\* The rows that announce e, and how often each waits, are as they were.
KeepsSends(e) ==
    /\ Sends(e)' \subseteq Sends(e)
    /\ \A r \in Sends(e)' : jobs'[r] = jobs[r]

LEMMA SameSends == ASSUME UNCHANGED jobs, NEW e PROVE KeepsSends(e) /\ Sends(e)' = Sends(e)
  BY DEF KeepsSends, Sends, Of

LEMMA InsertedOther ==
    ASSUME Shapes, NEW row \in Rows, Insert(row), NEW e, row.type # "announce" \/ row.e # e
    PROVE  KeepsSends(e) /\ Sends(e)' = Sends(e)
  BY Inserted DEF KeepsSends, Sends, Of

LEMMA PutBackOther ==
    ASSUME Shapes, hand.step # "idle", jobs' = jobs (+) SetToBag({hand.row}), NEW e, ~Sending(e)
    PROVE  KeepsSends(e) /\ Sends(e)' = Sends(e)
  BY PutBack DEF KeepsSends, Sends, Of, Sending, Handling

\* What leaves an event's announcement where it was.
LEMMA OnceFrame ==
    ASSUME NEW e \in Events, Once(e), ev[e].born => ev'[e].born, KeepsSends(e),
           Announcing(e)' \subseteq Announcing(e),
           Sending(e)' => Sending(e) /\ hand'.step = hand.step,
           post'[e].count = post[e].count, delivery'[e].made = delivery[e].made,
           delivery'[e].closed => delivery[e].made
    PROVE  Once(e)'
<1>1. \A c \in Announcing(e)' : c \in Announcing(e) /\ Announcing(e)' = {c}
  BY DEF Once
<1>2. \A r \in Sends(e)' : r \in Sends(e) /\ Sends(e)' = {r} /\ jobs'[r] = 1
  BY DEF Once, KeepsSends
<1>3. Sends(e) = {} => Sends(e)' = {}
  BY DEF KeepsSends
<1> QED
  BY <1>1, <1>2, <1>3 DEF Once

LEMMA HandAnnounce ==
    ASSUME Shapes, NEW e, Sending(e) PROVE hand.step \in {"start", "record"}
  BY Vacant DEF Shapes, HandOK, Hands, HandShape, Steps, Sending, Handling, Idempotent, Rows

LEMMA RequestOnce ==
    ASSUME Shapes, NEW c \in Calls, Request(c), NEW e \in Events, Once(e), ev[e].born => ev'[e].born
    PROVE  Once(e)'
<1>0. calls[c].step = "idle" /\ UNCHANGED <<jobs, hand, delivery, post>>
  BY ArrivesIdle DEF Request, Create, Reanchor, LoadEvent, Rsvp, Press, Answer, discord, database
<1>1. KeepsSends(e)
  BY <1>0, SameSends
<1>2. CASE Announcing(e)' \subseteq Announcing(e)
  BY <1>0, <1>1, <1>2, OnceFrame DEF Sending, Handling, Once
<1>3. CASE Create(c, e)
  <2>1. ~ev[e].born /\ ev'[e].born
    BY <1>3 DEF Create, Shapes, Tables, EventRows
  <2>2. Announcing(e) = {} /\ Sends(e) = {} /\ ~Sending(e) /\ post[e].count = 0
    BY <2>1 DEF Once
  <2>3. Announcing(e)' = {c}
    BY <1>3, <2>2 DEF Create, Announcing, Free, Shapes, CallsOK
  <2>4. Sends(e)' = {} /\ ~Sending(e)'
    BY <1>0, <2>2, SameSends DEF Sending, Handling
  <2> QED
    BY <1>0, <2>1, <2>2, <2>3, <2>4 DEF Once
<1>4. ASSUME ~Create(c, e) PROVE Announcing(e)' \subseteq Announcing(e)
  <2>1. calls'[c].step # "announce" \/ calls'[c].e # e
    <3>0. DOMAIN calls = Calls
      BY DEF Shapes, CallsOK
    <3>1. ASSUME NEW d \in Events, Create(c, d) PROVE calls'[c].e # e
      BY <1>4, <3>0, <3>1 DEF Create, Free
    <3>2. ASSUME NEW d \in Events, Reanchor(c, d) PROVE calls'[c].step # "announce"
      BY <3>0, <3>2 DEF Reanchor, Free
    <3>3. ASSUME NEW d \in Events, NEW op \in Ops, LoadEvent(c, d, op) PROVE calls'[c].step # "announce"
      BY <3>0, <3>3 DEF LoadEvent
    <3>4. ASSUME NEW d \in Events, NEW m \in Members, Answer(c, d, m) PROVE calls'[c].step # "announce"
      BY <3>0, <3>4 DEF Answer, Free
    <3> QED
      BY <3>1, <3>2, <3>3, <3>4 DEF Request, Rsvp, Press
  <2>2. \A d \in Calls : d # c => calls'[d] = calls[d]
    BY DEF Request, Create, Reanchor, LoadEvent, Rsvp, Press, Answer, Shapes, CallsOK
  <2> QED
    BY <2>1, <2>2 DEF Announcing
<1> QED
  BY <1>2, <1>3, <1>4

LEMMA ContinueOnce ==
    ASSUME Shapes, NEW c \in Calls, Continue(c), NEW e \in Events, Once(e), ev[e].born => ev'[e].born
    PROVE  Once(e)'
<1>u. calls[c].step # "idle"
  BY DEF Continue, EnqueueAnnounce, LookRefresh, QueueRefresh, QueueClose, SaveUpdate, SaveArchive,
         SaveUnarchive, SaveComplete
<1>0. calls[c] \in Requests /\ RequestShape(calls[c]) /\ calls[c].e \in Events
  BY <1>u, CallUnderway
<1>1. UNCHANGED <<hand, delivery, post>>
  BY DEF Continue, EnqueueAnnounce, LookRefresh, QueueRefresh, QueueClose, SaveUpdate, SaveArchive,
         SaveUnarchive, SaveComplete, discord
<1>2. calls'[c].step # "announce" /\ \A d \in Calls : d # c => calls'[d] = calls[d]
  <2>0. DOMAIN calls = Calls /\ calls[c] \in Requests
    BY <1>0 DEF Shapes, CallsOK
  <2>1. Return(c) \/ Step(c, "refresh") \/ Step(c, "close") \/ Step(c, "count")
    BY DEF Continue, EnqueueAnnounce, LookRefresh, QueueRefresh, QueueClose, SaveUpdate, SaveArchive,
         SaveUnarchive, SaveComplete
  <2>2. calls'[c].step # "announce"
    BY <2>0, <2>1, Vacant DEF Return, Step, Requests
  <2>3. ASSUME NEW d \in Calls, d # c PROVE calls'[d] = calls[d]
    BY <2>0, <2>1, <2>3 DEF Return, Step
  <2> QED
    BY <2>2, <2>3
<1>3. Announcing(e)' = Announcing(e) \ {c}
  BY <1>2 DEF Announcing
<1>4. CASE KeepsSends(e)
  BY <1>1, <1>3, <1>4, OnceFrame DEF Sending, Handling, Once
<1>5. CASE EnqueueAnnounce(c) /\ calls[c].e = e /\ on /\ Visible(e)
  <2> DEFINE r == Row("announce", e, Card(e))
  <2>1. /\ c \in Announcing(e) /\ ev[e].born /\ post[e].count = 0 /\ Sends(e) = {} /\ ~Sending(e)
        /\ Announcing(e) = {c}
    BY <1>5 DEF Once, EnqueueAnnounce, Announcing
  <2>2. r \in Rows /\ r.type = "announce" /\ r.e = e
    BY DEF Row, Card, Rows, Cards, JobTypes, Shapes, Tables, EventRows
  <2>3. Insert(r)
    BY <1>5 DEF EnqueueAnnounce
  <2> HIDE DEF r
  <2>4. r \notin BagToSet(jobs)
    BY <2>1, <2>2 DEF Sends, Of
  <2>5. jobs'[r] = 1 /\ BagToSet(jobs)' = BagToSet(jobs) \cup {r}
    BY <2>2, <2>3, <2>4, Inserted
  <2>6. Sends(e)' = {r}
    BY <2>1, <2>2, <2>5 DEF Sends, Of
  <2>7. Announcing(e)' = {} /\ ~Sending(e)'
    BY <1>1, <1>3, <2>1 DEF Sending, Handling
  <2> QED
    BY <1>1, <2>1, <2>5, <2>6, <2>7 DEF Once
<1>6. ASSUME ~(EnqueueAnnounce(c) /\ calls[c].e = e /\ on /\ Visible(e)) PROVE KeepsSends(e)
  <2>1. CASE UNCHANGED jobs
    BY <2>1, SameSends
  <2>2. CASE EnqueueAnnounce(c) /\ calls[c].e # e
    <3> DEFINE r == Row("announce", calls[c].e, Card(calls[c].e))
    <3>1. r \in Rows /\ r.e # e
      BY <1>0, <2>2 DEF Row, Card, Rows, Cards, JobTypes, Shapes, Tables, EventRows
    <3>2. Insert(r) \/ UNCHANGED jobs
      BY <2>2 DEF EnqueueAnnounce
    <3> HIDE DEF r
    <3> QED
      BY <3>1, <3>2, InsertedOther, SameSends
  <2>3. CASE QueueRefresh(c) \/ QueueClose(c)
    <3>1. \A t \in {"refresh", "close"} : Row(t, calls[c].e, Blank) \in Rows
                                         /\ Row(t, calls[c].e, Blank).type # "announce"
      BY <1>0, Vacant DEF Row, Rows, JobTypes
    <3>2. \/ Insert(Row("refresh", calls[c].e, Blank)) \/ Insert(Row("close", calls[c].e, Blank))
          \/ UNCHANGED jobs
      BY <2>3 DEF QueueRefresh, QueueClose, EnqueueClose
    <3> QED
      BY <3>1, <3>2, InsertedOther, SameSends
  <2> QED
    BY <1>6, <2>1, <2>2, <2>3 DEF Continue, EnqueueAnnounce, LookRefresh, SaveUpdate, SaveArchive,
         SaveUnarchive, SaveComplete
<1> QED
  BY <1>4, <1>5, <1>6

\* A dispatch step serves the row in hand.
LEMMA DispatchHand ==
    ASSUME Shapes, Dispatch
    PROVE  /\ hand.step # "idle" /\ hand \in Hands /\ HandShape(hand) /\ hand # Empty
           /\ hand.row \in Rows /\ hand.row.e \in Events
           /\ UNCHANGED <<ev, rsvp, calls, on>>
           /\ hand' = Empty \/ (hand'.row = hand.row /\ hand'.step # "idle")
           /\ \A e \in Events : e # hand.row.e => /\ post'[e] = post[e] /\ delivery'[e] = delivery[e]
                                                 /\ behind'[e] = behind[e]
<1>1. hand.step # "idle"
  BY DEF Dispatch, InHand, SendAnnouncement, RecordDelivery, ReadRefresh, ReadRoster, EditRefresh,
         ReadClose, EditClose, MarkClosed, ReadThread, OpenThread, RecordThread, Ping, Refused
<1>2. hand \in Hands /\ HandShape(hand) /\ hand # Empty /\ hand.row \in Rows /\ hand.row.e \in Events
  BY <1>1, HandUnderway
<1>3. UNCHANGED <<ev, rsvp, calls, on>>
  BY DEF Dispatch, SendAnnouncement, RecordDelivery, ReadRefresh, ReadRoster, EditRefresh,
         ReadClose, EditClose, MarkClosed, ReadThread, OpenThread, RecordThread, Ping, Refused, Fail, database
<1>4. hand' = Empty \/ (hand'.row = hand.row /\ hand'.step # "idle")
  <2>0. ASSUME NEW s, s # "idle", Goto(s) PROVE hand'.row = hand.row /\ hand'.step # "idle"
    BY <1>2, <2>0 DEF Goto, Hands
  <2>1. CASE SendAnnouncement \/ EditClose \/ ReadThread \/ OpenThread \/ RecordThread
    BY <2>0, <2>1 DEF SendAnnouncement, EditClose, ReadThread, OpenThread, RecordThread, Done
  <2>2. CASE ReadRefresh \/ ReadRoster \/ ReadClose
    BY <1>2, <2>2 DEF ReadRefresh, ReadRoster, ReadClose, Done, Hands
  <2>3. CASE RecordDelivery \/ EditRefresh \/ MarkClosed \/ Ping \/ Refused
    BY <2>3 DEF RecordDelivery, EditRefresh, MarkClosed, Ping, Refused, Fail, Done
  <2> QED
    BY <2>1, <2>2, <2>3 DEF Dispatch
<1>5. ASSUME NEW e \in Events, e # hand.row.e
      PROVE  post'[e] = post[e] /\ delivery'[e] = delivery[e] /\ behind'[e] = behind[e]
  BY <1>5 DEF Dispatch, SendAnnouncement, RecordDelivery, ReadRefresh, ReadRoster, EditRefresh,
         ReadClose, EditClose, MarkClosed, ReadThread, OpenThread, RecordThread, Ping, Refused, Fail,
         Shapes, Tables, discord
<1> QED
  BY <1>1, <1>2, <1>3, <1>4, <1>5

\* No dispatch queues a row.
LEMMA DispatchJobs == ASSUME Dispatch PROVE UNCHANGED jobs
  BY DEF Dispatch, SendAnnouncement, RecordDelivery, ReadRefresh, ReadRoster, EditRefresh,
         ReadClose, EditClose, MarkClosed, ReadThread, OpenThread, RecordThread, Ping, Refused, Fail

LEMMA DispatchOnce ==
    ASSUME Shapes, Dispatch, NEW e \in Events, Once(e), Retiring(e) PROVE Once(e)'
<1>0. /\ hand \in Hands /\ HandShape(hand) /\ hand.row.e \in Events
      /\ UNCHANGED <<ev, calls, jobs>> /\ (hand' = Empty \/ hand'.row = hand.row)
      /\ e # hand.row.e => post'[e] = post[e] /\ delivery'[e] = delivery[e]
  BY DispatchHand, DispatchJobs
<1>1. KeepsSends(e) /\ Sends(e)' = Sends(e) /\ Announcing(e)' = Announcing(e)
  BY <1>0, SameSends DEF Announcing
<1>p. post[e] \in [count : Nat, card : Cards, live : BOOLEAN, threads : Nat, pings : Nat]
      /\ delivery[e] \in [made : BOOLEAN, thread : BOOLEAN, closed : BOOLEAN]
      /\ DOMAIN post = Events /\ DOMAIN delivery = Events
  BY DEF Shapes, Tables
<1>2. CASE hand.row.e # e
  <2>1. ~Sending(e)'
    BY <1>0, <1>2, Vacant DEF Sending, Handling
  <2> QED
    BY <1>0, <1>1, <1>2, <2>1, OnceFrame DEF Once
<1>3. CASE hand.row.e = e /\ SendAnnouncement
  <2>1. Sending(e) /\ hand.step = "start"
    BY <1>3 DEF SendAnnouncement, InHand, Sending, Handling
  <2>2. post[e].count = 0 /\ ev[e].born /\ Announcing(e) = {} /\ Sends(e) = {} /\ ~delivery[e].made
    BY <2>1 DEF Once
  <2>3. post'[e].count = 1 /\ delivery' = delivery
    BY <1>3, <1>p, <2>2 DEF SendAnnouncement
  <2>4. hand'.step = "record"
    BY <1>0, <1>3 DEF SendAnnouncement, Goto, Hands
  <2> QED
    BY <1>0, <1>1, <2>2, <2>3, <2>4 DEF Once
<1>4. CASE hand.row.e = e /\ RecordDelivery
  <2>1. Sending(e) /\ hand.step = "record"
    BY <1>4 DEF RecordDelivery, InHand, Sending, Handling
  <2>2. post[e].count = 1 /\ ev[e].born /\ Announcing(e) = {} /\ Sends(e) = {} /\ ~delivery[e].made
    BY <2>1 DEF Once
  <2>3. post' = post /\ ~Sending(e)'
    BY <1>4, Vacant DEF RecordDelivery, Done, Sending, Handling
  <2>4. ~delivery[e].closed
    BY <2>2 DEF Once
  <2>5. ~delivery'[e].closed
    BY <1>4, <1>p, <2>4 DEF RecordDelivery, NoDelivery
  <2> QED
    BY <1>0, <1>1, <2>2, <2>3, <2>5 DEF Once
<1>5. CASE hand.row.e = e /\ ~SendAnnouncement /\ ~RecordDelivery
  <2>1. hand.row.type # "announce" \/ hand' = Empty
    BY <1>0, <1>5 DEF Dispatch, InHand, ReadRefresh, ReadRoster, EditRefresh, HandShape, Idempotent,
         ReadClose, EditClose, MarkClosed, ReadThread, OpenThread, RecordThread, Ping, Refused
  <2>2. ~Sending(e)'
    BY <1>0, <2>1, Vacant DEF Sending, Handling
  <2>3. post'[e].count = post[e].count
    BY <1>5, <1>p DEF Dispatch, ReadRefresh, ReadRoster, EditRefresh, discord,
         ReadClose, EditClose, MarkClosed, ReadThread, OpenThread, RecordThread, Ping, Refused, Fail
  <2>4. delivery'[e].made = delivery[e].made
    BY <1>5, <1>p DEF Dispatch, ReadRefresh, ReadRoster, EditRefresh, discord,
         ReadClose, EditClose, MarkClosed, ReadThread, OpenThread, RecordThread, Ping, Refused, Fail
  <2>5. delivery'[e].closed => delivery[e].made
    <3>1. CASE MarkClosed
      BY <1>5, <3>1 DEF MarkClosed, InHand, Retiring, Closing, Handling
    <3>2. CASE ~MarkClosed
      <4>1. delivery'[e].closed = delivery[e].closed
        BY <1>5, <1>p, <3>2 DEF Dispatch, ReadRefresh, ReadRoster, EditRefresh, discord,
         ReadClose, EditClose, ReadThread, OpenThread, RecordThread, Ping, Refused, Fail
      <4> QED
        BY <4>1 DEF Once
    <3> QED
      BY <3>1, <3>2
  <2> QED
    BY <1>0, <1>1, <2>2, <2>3, <2>4, <2>5, OnceFrame
<1> QED
  BY <1>2, <1>3, <1>4, <1>5

LEMMA OtherOnce ==
    ASSUME Shapes, NEW e \in Events, Once(e), ev[e].born => ev'[e].born,
           \/ \E d \in Events : Alone(d)
           \/ AdvanceStatuses \/ Toggle \/ UNCHANGED vars \/ Throw \/ Crash
           \/ \E row \in BagToSet(jobs) : Take(row)
    PROVE  Once(e)'
<1>0. UNCHANGED <<post, delivery>>
  BY DEF Alone, Remove, Clock, CloseEnded, EnqueueReminder, AdvanceStatuses, Toggle, vars, Throw, Fail,
         Crash, Take, discord
<1>1. ASSUME NEW d \in Events, Alone(d) PROVE Once(e)'
  <2>1. UNCHANGED <<calls, hand>>
    BY <1>1 DEF Alone, Remove, Clock, CloseEnded, EnqueueReminder
  <2>2. \A t \in {"close", "thread"} : Row(t, d, Blank) \in Rows /\ Row(t, d, Blank).type # "announce"
    BY Vacant DEF Row, Rows, JobTypes
  <2>3. Insert(Row("close", d, Blank)) \/ Insert(Row("thread", d, Blank)) \/ UNCHANGED jobs
    BY <1>1 DEF Alone, Remove, Clock, CloseEnded, EnqueueClose, EnqueueReminder
  <2>4. KeepsSends(e)
    BY <2>2, <2>3, InsertedOther, SameSends
  <2> QED
    BY <1>0, <2>1, <2>4, OnceFrame DEF Sending, Handling, Announcing, Once
<1>2. CASE AdvanceStatuses \/ Toggle \/ UNCHANGED vars
  <2>1. UNCHANGED <<calls, hand, jobs>>
    BY <1>2 DEF AdvanceStatuses, Toggle, vars
  <2>2. KeepsSends(e)
    BY <2>1, SameSends
  <2> QED
    BY <1>0, <2>1, <2>2, OnceFrame DEF Sending, Handling, Announcing, Once
<1>3. ASSUME NEW row \in BagToSet(jobs), Take(row) PROVE Once(e)'
  <2>1. UNCHANGED calls /\ hand = Empty /\ ~Sending(e)
    BY <1>3, Vacant DEF Take, Sending, Handling
  <2>2. /\ BagToSet(jobs') \subseteq BagToSet(jobs)
        /\ \A x \in BagToSet(jobs) : x # row => jobs'[x] = jobs[x]
        /\ jobs[row] = 1 => row \notin BagToSet(jobs')
        /\ hand'.row = row /\ hand'.step = "start"
    BY <1>3, Taken
  <2>3. CASE row \in Sends(e)
    <3>1. ev[e].born /\ post[e].count = 0 /\ jobs[row] = 1 /\ Sends(e) = {row}
      BY <2>3 DEF Once
    <3>2. Sends(e)' = {}
      BY <2>2, <3>1 DEF Sends, Of
    <3>3. Announcing(e)' = {}
      BY <2>1, <2>3 DEF Once, Announcing
    <3> QED
      BY <1>0, <2>2, <3>1, <3>2, <3>3 DEF Once
  <2>4. CASE row \notin Sends(e)
    <3>1. KeepsSends(e)
      BY <2>2, <2>4 DEF KeepsSends, Sends, Of
    <3>2. ~Sending(e)'
      BY <1>3, <2>2, <2>4 DEF Sending, Handling, Sends, Of
    <3> QED
      BY <1>0, <2>1, <3>1, <3>2, OnceFrame DEF Announcing, Once
  <2> QED
    BY <2>3, <2>4
<1>4. CASE Throw
  <2>1. UNCHANGED calls /\ hand' = Empty /\ hand.step # "record"
    BY <1>4 DEF Throw, Fail, Done
  <2>2. hand.step # "idle"
    BY <1>4 DEF Throw, Shapes, HandOK, Hands, Steps
  <2>3. jobs' = jobs (+) SetToBag({hand.row}) \/ UNCHANGED jobs
    BY <1>4 DEF Throw, Fail
  <2>4. ~Sending(e)'
    BY <2>1, Vacant DEF Sending, Handling
  <2>5. CASE ~Sending(e) \/ UNCHANGED jobs
    <3>1. KeepsSends(e)
      BY <2>2, <2>3, <2>5, PutBackOther, SameSends
    <3> QED
      BY <1>0, <2>1, <2>4, <3>1, OnceFrame DEF Announcing, Once
  <2>6. CASE Sending(e) /\ ~UNCHANGED jobs
    <3>1. hand.step = "start"
      BY <2>1, <2>6, HandAnnounce
    <3>2. ev[e].born /\ post[e].count = 0 /\ Announcing(e) = {} /\ Sends(e) = {}
      BY <2>6, <3>1 DEF Once
    <3>3. hand.row.type = "announce" /\ hand.row.e = e
      BY <2>6 DEF Sending, Handling
    <3>4. hand.row \notin BagToSet(jobs)
      BY <3>2, <3>3 DEF Sends, Of
    <3>5. BagToSet(jobs') = BagToSet(jobs) \cup {hand.row} /\ jobs'[hand.row] = 1
      BY <2>2, <2>3, <2>6, <3>4, PutBack
    <3>6. Sends(e)' = {hand.row}
      BY <3>2, <3>3, <3>5 DEF Sends, Of
    <3>7. Announcing(e)' = {}
      BY <2>1, <3>2 DEF Announcing
    <3> QED
      BY <1>0, <2>4, <3>2, <3>5, <3>6, <3>7 DEF Once
  <2> QED
    BY <2>5, <2>6
<1>5. CASE Crash
  <2>1. hand' = Empty /\ calls' = [c \in Calls |-> Free]
    BY <1>5 DEF Crash, Done
  <2>2. ~Sending(e)' /\ Announcing(e)' = {}
    BY <2>1, Vacant DEF Sending, Handling, Announcing
  <2>3. KeepsSends(e)
    <3>1. CASE hand.row.type \in Idempotent
      <4>1. hand.step # "idle" /\ ~Sending(e) /\ jobs' = jobs (+) SetToBag({hand.row})
        BY <1>5, <3>1, Vacant DEF Crash, Reaped, Shapes, HandOK, Hands, Steps, Idempotent, Sending, Handling
      <4> QED
        BY <4>1, PutBackOther
    <3>2. CASE hand.row.type \notin Idempotent
      BY <1>5, <3>2, SameSends DEF Crash, Reaped
    <3> QED
      BY <3>1, <3>2
  <2> QED
    BY <1>0, <2>2, <2>3, OnceFrame DEF Once
<1> QED
  BY <1>1, <1>2, <1>3, <1>4, <1>5

LEMMA OnceKept ==
    ASSUME Shapes, [Next]_vars, NEW e \in Events, Once(e), Retiring(e) PROVE Once(e)'
<1>1. ev[e].born => ev'[e].born
  BY BornStays
<1> QED
  BY <1>1, RequestOnce, ContinueOnce, DispatchOnce, OtherOnce DEF Next

(***************************************************************************)
(* Retired stays dead, and one ping.                                       *)
(***************************************************************************)
\* Only a dispatch touches the message and its record.
LEMMA OnlyDispatch ==
    ASSUME [Next]_vars, ~Dispatch PROVE UNCHANGED <<post, delivery>>
  BY DEF Next, Request, Create, Reanchor, LoadEvent, Rsvp, Press, Answer, Continue, EnqueueAnnounce,
         LookRefresh, QueueRefresh, QueueClose, SaveUpdate, SaveArchive, SaveUnarchive, SaveComplete,
         Alone, Remove, Clock, CloseEnded, EnqueueReminder, AdvanceStatuses, Toggle, vars, Throw, Fail,
         Crash, Take, discord

\* Between two dispatches the hand is kept, emptied or filled anew.
LEMMA OtherHand ==
    ASSUME Shapes, [Next]_vars, ~Dispatch
    PROVE  hand' = hand \/ hand' = Empty \/ (hand = Empty /\ hand'.step = "start")
<1>1. ASSUME NEW row \in BagToSet(jobs), Take(row) PROVE hand = Empty /\ hand'.step = "start"
  BY <1>1, Taken DEF Take
<1> QED
  BY <1>1 DEF Next, Request, Create, Reanchor, LoadEvent, Rsvp, Press, Answer, Continue, EnqueueAnnounce,
         LookRefresh, QueueRefresh, QueueClose, SaveUpdate, SaveArchive, SaveUnarchive, SaveComplete,
         Alone, Remove, Clock, CloseEnded, EnqueueReminder, AdvanceStatuses, Toggle, vars, Throw, Fail,
         Crash, Done

LEMMA RetiringKept ==
    ASSUME Shapes, [Next]_vars, NEW e \in Events, Once(e), Retiring(e), Threads(e)
    PROVE  Retiring(e)' /\ Threads(e)'
<1>1. CASE ~Dispatch
  <2>1. UNCHANGED <<post, delivery>>
    BY <1>1, OnlyDispatch
  <2>2. hand' = hand \/ hand' = Empty \/ hand'.step = "start"
    BY <1>1, OtherHand
  <2> QED
    BY <2>1, <2>2, Vacant DEF Retiring, Threads, Mending, Closing, Handling, Open
<1>2. CASE Dispatch
  <2>0. /\ hand \in Hands /\ HandShape(hand) /\ hand.row.e \in Events
        /\ (hand' = Empty \/ hand'.row = hand.row)
        /\ e # hand.row.e => post'[e] = post[e] /\ delivery'[e] = delivery[e]
    BY <1>2, DispatchHand
  <2>p. post[e] \in [count : Nat, card : Cards, live : BOOLEAN, threads : Nat, pings : Nat]
        /\ delivery[e] \in [made : BOOLEAN, thread : BOOLEAN, closed : BOOLEAN]
        /\ DOMAIN post = Events /\ DOMAIN delivery = Events
    BY DEF Shapes, Tables
  <2>1. CASE hand.row.e # e
    <3>1. hand'.row.e # e \/ hand' = Empty
      BY <2>0, <2>1
    <3> QED
      BY <2>0, <2>1, <3>1, Vacant DEF Retiring, Threads, Mending, Closing, Handling, Open
  <2>2. CASE hand.row.e = e
    <3>s. ASSUME NEW s, Goto(s) PROVE hand'.step = s /\ hand'.row = hand.row /\ hand'.visible = hand.visible
      BY <2>0, <3>s DEF Goto, Hands
    <3>1. CASE SendAnnouncement
      BY <2>2, <2>p, <3>1, <3>s DEF SendAnnouncement, InHand, Retiring, Threads, Once, Sending, Handling,
         Mending, Closing, Open
    <3>2. CASE RecordDelivery
      BY <2>2, <2>p, <3>2, Vacant DEF RecordDelivery, InHand, Retiring, Threads, Once, Sending, Handling,
         Mending, Closing, Open, Done, NoDelivery
    <3>3. CASE ReadRefresh
      <4>1. hand' = Empty \/ (hand'.row = hand.row /\ hand'.step = "roster" /\ hand'.visible /\ Open(e))
        BY <2>0, <2>2, <3>3 DEF ReadRefresh, Done, Hands
      <4> QED
        BY <2>2, <3>3, <4>1, Vacant DEF ReadRefresh, InHand, Retiring, Threads, Handling, Mending, Closing,
           Open, discord
    <3>4. CASE ReadRoster
      <4>1. hand'.row = hand.row /\ hand'.step = "edit" /\ hand'.visible = hand.visible /\ hand.step = "roster"
        BY <2>0, <3>4 DEF ReadRoster, Hands
      <4> QED
        BY <2>2, <3>4, <4>1 DEF ReadRoster, Retiring, Threads, Handling, Mending, Closing, Open, discord
    <3>5. CASE EditRefresh
      BY <2>2, <2>p, <3>5, Vacant DEF EditRefresh, InHand, Retiring, Threads, Handling, Mending, Closing,
         Open, Done
    <3>6. CASE ReadClose
      <4>1. hand' = Empty \/ (hand'.row = hand.row /\ hand'.step \in {"roster", "edit"} /\ Open(e))
        BY <2>0, <2>2, <3>6 DEF ReadClose, Done, Hands
      <4> QED
        BY <2>2, <3>6, <4>1, Vacant DEF ReadClose, InHand, Retiring, Threads, Handling, Mending, Closing,
           Open, discord
    <3>7. CASE EditClose
      BY <2>2, <2>p, <3>7, <3>s DEF EditClose, InHand, Retiring, Threads, Handling, Mending, Closing, Open
    <3>8. CASE MarkClosed
      BY <2>2, <2>p, <3>8, Vacant DEF MarkClosed, InHand, Retiring, Threads, Handling, Mending, Closing, Open, Done
    <3>9. CASE ReadThread
      BY <2>2, <3>9, <3>s, Vacant DEF ReadThread, InHand, Retiring, Threads, Handling, Mending, Closing, Open,
         Done, discord
    <3>10. CASE OpenThread
      BY <2>2, <2>p, <3>10, <3>s DEF OpenThread, InHand, Retiring, Threads, Handling, Mending, Closing, Open
    <3>11. CASE RecordThread
      BY <2>2, <2>p, <3>11, <3>s DEF RecordThread, InHand, Retiring, Threads, Handling, Mending, Closing, Open
    <3>12. CASE Ping
      BY <2>2, <2>p, <3>12, Vacant DEF Ping, InHand, Retiring, Threads, Handling, Mending, Closing, Open, Done
    <3>13. CASE Refused
      BY <2>2, <3>13, Vacant DEF Refused, Fail, InHand, Retiring, Threads, Handling, Mending, Closing, Open,
         Done, discord
    <3> QED
      BY <1>2, <3>1, <3>2, <3>3, <3>4, <3>5, <3>6, <3>7, <3>8, <3>9, <3>10, <3>11, <3>12, <3>13 DEF Dispatch
  <2> QED
    BY <2>1, <2>2
<1> QED
  BY <1>1, <1>2

(***************************************************************************)
(* No answer is lost: a card that is not current has a refresh on its way, *)
(* or one that was dropped.                                                *)
(***************************************************************************)
\* What was dropped stays dropped until a refresh has read the event.
LEMMA BehindStays ==
    ASSUME Shapes, [Next]_vars, NEW e \in Events, behind[e], ~(ReadRefresh /\ hand.row.e = e)
    PROVE  behind'[e]
<1>0. DOMAIN behind = Events
  BY DEF Shapes, Tables
<1>1. ASSUME NEW c \in Calls, Request(c) PROVE behind'[e]
  BY <1>1 DEF Request, Create, Reanchor, LoadEvent, Rsvp, Press, Answer
<1>2. ASSUME NEW c \in Calls, Continue(c) PROVE behind'[e]
  BY <1>0, <1>2 DEF Continue, EnqueueAnnounce, LookRefresh, QueueRefresh, QueueClose, SaveUpdate,
     SaveArchive, SaveUnarchive, SaveComplete, WriteBack
<1>3. ASSUME NEW d \in Events, Alone(d) PROVE behind'[e]
  BY <1>3 DEF Alone, Remove, Clock, CloseEnded, EnqueueReminder
<1>4. CASE AdvanceStatuses \/ Toggle \/ UNCHANGED vars
  BY <1>4 DEF AdvanceStatuses, Toggle, vars
<1>5. CASE Throw \/ Crash
  BY <1>0, <1>5 DEF Throw, Fail, Crash
<1>6. ASSUME NEW row \in BagToSet(jobs), Take(row) PROVE behind'[e]
  BY <1>6 DEF Take
<1>7. CASE Dispatch /\ ~ReadRefresh
  BY <1>0, <1>7 DEF Dispatch, SendAnnouncement, RecordDelivery, ReadRoster, EditRefresh,
         ReadClose, EditClose, MarkClosed, ReadThread, OpenThread, RecordThread, Ping, Refused, Fail
<1>8. CASE ReadRefresh
  BY <1>0, <1>8 DEF ReadRefresh
<1> QED
  BY <1>1, <1>2, <1>3, <1>4, <1>5, <1>6, <1>7, <1>8 DEF Next

LEMMA ClaimFrame ==
    ASSUME NEW e \in Events, Claimed(e), Asked(e) => Asked(e)', BagToSet(jobs) \subseteq BagToSet(jobs'),
           UNCHANGED hand
    PROVE  Claimed(e)'
<1>1. Waiting(e) => Waiting(e)'
  BY DEF Waiting, Of
<1> QED
  BY <1>1 DEF Claimed, Handling

LEMMA ShownFrame ==
    ASSUME NEW e \in Events, Shown(e), ev'[e].text = ev[e].text, rsvp'[e] = rsvp[e],
           \A r \in Sends(e)' : r \in Sends(e) \/ r.card = Card(e),
           UNCHANGED <<hand, post, delivery>>
    PROVE  Shown(e)'
<1>1. Card(e)' = Card(e)
  BY DEF Card
<1>2. \A r \in Sends(e)' : r.card = Card(e)'
  BY <1>1 DEF Shown
<1> QED
  BY <1>1, <1>2 DEF Shown, Sending, Handling, Mending

\* While neither the worker nor its row is concerned.
LEMMA TruthFrame ==
    ASSUME NEW e \in Events, Truth(e), behind[e] => behind'[e],
           Asked(e) => Asked(e)', BagToSet(jobs) \subseteq BagToSet(jobs'),
           ev'[e].text = ev[e].text, rsvp'[e] = rsvp[e],
           \A r \in Sends(e)' : r \in Sends(e) \/ r.card = Card(e),
           UNCHANGED <<hand, post, delivery>>
    PROVE  Truth(e)'
  BY ClaimFrame, ShownFrame DEF Truth

LEMMA RequestTruth ==
    ASSUME Shapes, NEW c \in Calls, Request(c), NEW e \in Events, Truth(e) PROVE Truth(e)'
<1>0. calls[c].step = "idle" /\ UNCHANGED <<jobs, hand, delivery, post, behind>>
  BY ArrivesIdle DEF Request, Create, Reanchor, LoadEvent, Rsvp, Press, Answer, discord, database
<1>1. DOMAIN calls = Calls /\ DOMAIN ev = Events /\ DOMAIN rsvp = Events /\ ev[e] \in EventRows
  BY DEF Shapes, Tables, CallsOK
<1>2. \A d \in Calls : d # c => calls'[d] = calls[d]
  BY <1>1 DEF Request, Create, Reanchor, LoadEvent, Rsvp, Press, Answer
<1>3. Asked(e) => Asked(e)'
  BY <1>0, <1>2 DEF Asked
<1>4. \A r \in Sends(e)' : r \in Sends(e)
  BY <1>0 DEF Sends, Of
<1>5. CASE ev'[e].text = ev[e].text /\ rsvp'[e] = rsvp[e]
  BY <1>0, <1>3, <1>4, <1>5, TruthFrame
<1>6. ASSUME NEW d \in Events, Create(c, d) PROVE ev'[e].text = ev[e].text /\ rsvp'[e] = rsvp[e]
  BY <1>1, <1>6 DEF Create, EventRows
<1>7. ASSUME NEW d \in Events, NEW op \in Ops, LoadEvent(c, d, op)
      PROVE  ev'[e].text = ev[e].text /\ rsvp'[e] = rsvp[e]
  BY <1>7 DEF LoadEvent, database
<1>8. ASSUME NEW d \in Events, d # e, Reanchor(c, d) \/ (\E m \in Members : Answer(c, d, m))
      PROVE  ev'[e].text = ev[e].text /\ rsvp'[e] = rsvp[e]
  BY <1>1, <1>8 DEF Reanchor, Answer
<1>9. ASSUME Reanchor(c, e) \/ (\E m \in Members : Answer(c, e, m)) PROVE Truth(e)'
  <2>1. calls'[c].step = "refresh" /\ calls'[c].e = e
    <3>1. CASE Reanchor(c, e)
      BY <1>1, <3>1 DEF Reanchor, Free
    <3>2. ASSUME NEW m \in Members, Answer(c, e, m) PROVE calls'[c].step = "refresh" /\ calls'[c].e = e
      BY <1>1, <3>2 DEF Answer, Free
    <3> QED
      BY <1>9, <3>1, <3>2
  <2> QED
    BY <2>1 DEF Truth, Claimed, Asked
<1> QED
  BY <1>5, <1>6, <1>7, <1>8, <1>9 DEF Request, Rsvp, Press

LEMMA ContinueTruth ==
    ASSUME Shapes, NEW c \in Calls, Continue(c), NEW e \in Events, Truth(e), behind[e] => behind'[e]
    PROVE  Truth(e)'
<1> DEFINE d == calls[c].e
<1>u. calls[c].step # "idle"
  BY DEF Continue, EnqueueAnnounce, LookRefresh, QueueRefresh, QueueClose, SaveUpdate, SaveArchive,
         SaveUnarchive, SaveComplete
<1>0. calls[c] \in Requests /\ d \in Events /\ UNCHANGED <<hand, delivery, post, rsvp>>
  BY <1>u, CallUnderway DEF Continue, EnqueueAnnounce, LookRefresh, QueueRefresh, QueueClose, SaveUpdate,
         SaveArchive, SaveUnarchive, SaveComplete, discord, database
<1>1. DOMAIN calls = Calls /\ DOMAIN ev = Events /\ DOMAIN behind = Events /\ \A x \in Events : ev[x] \in EventRows
  BY DEF Shapes, Tables, CallsOK
<1>2. Return(c) \/ (\E s \in {"refresh", "close", "count"} : Step(c, s))
  BY DEF Continue, EnqueueAnnounce, LookRefresh, QueueRefresh, QueueClose, SaveUpdate, SaveArchive,
         SaveUnarchive, SaveComplete
<1>3. ASSUME NEW x \in Calls, x # c PROVE calls'[x] = calls[x]
  BY <1>1, <1>2, <1>3 DEF Return, Step
<1>4. ASSUME calls[c].step \notin {"refresh", "count"} \/ d # e PROVE Asked(e) => Asked(e)'
  BY <1>3, <1>4 DEF Asked
<1>5. CASE EnqueueAnnounce(c)
  <2>1. PICK r : r = Row("announce", d, Card(d))
    OBVIOUS
  <2>2. r \in Rows /\ r.e = d /\ r.card = Card(d)
    BY <1>0, <1>1, <2>1 DEF Row, Card, Rows, Cards, JobTypes, Shapes, Tables, EventRows
  <2>3. Insert(r) \/ UNCHANGED jobs
    BY <1>5, <2>1 DEF EnqueueAnnounce
  <2>4. BagToSet(jobs)' \subseteq BagToSet(jobs) \cup {r} /\ BagToSet(jobs) \subseteq BagToSet(jobs)'
    BY <2>2, <2>3, Inserted
  <2>5. \A x \in Sends(e)' : x \in Sends(e) \/ x.card = Card(e)
    BY <2>2, <2>4 DEF Sends, Of
  <2> QED
    BY <1>0, <1>4, <1>5, <2>4, <2>5, TruthFrame DEF EnqueueAnnounce, database
<1>6. CASE LookRefresh(c)
  <2>1. CASE d # e
    <3>1. Sends(e)' = Sends(e)
      BY <1>6 DEF LookRefresh, Sends, Of
    <3> QED
      BY <1>0, <1>4, <1>6, <2>1, <3>1, TruthFrame DEF LookRefresh, database
  <2>2. CASE d = e /\ on /\ Open(e)
    <3>1. calls'[c].step = "count" /\ calls'[c].e = e
      BY <1>0, <1>1, <1>6, <2>2 DEF LookRefresh, Step, Requests
    <3> QED
      BY <3>1 DEF Truth, Claimed, Asked
  <2>3. CASE d = e /\ ~(on /\ Open(e))
    BY <1>1, <1>6, <2>3 DEF LookRefresh, Truth
  <2> QED
    BY <2>1, <2>2, <2>3
<1>7. CASE QueueRefresh(c)
  <2>1. PICK r : r = Row("refresh", d, Blank)
    OBVIOUS
  <2>2. r \in Rows /\ r.type = "refresh" /\ r.e = d
    BY <1>0, <2>1, Vacant DEF Row, Rows, JobTypes
  <2>3. Insert(r) \/ (Waiting(d) /\ UNCHANGED jobs)
    BY <1>7, <2>1 DEF QueueRefresh
  <2>4. BagToSet(jobs)' \subseteq BagToSet(jobs) \cup {r} /\ BagToSet(jobs) \subseteq BagToSet(jobs)'
    BY <2>2, <2>3, Inserted
  <2>5. CASE d = e
    <3>1. r \in BagToSet(jobs)' \/ (Waiting(d) /\ UNCHANGED jobs)
      BY <2>2, <2>3, Inserted
    <3>2. Waiting(e)'
      BY <2>2, <2>5, <3>1 DEF Waiting, Of
    <3> QED
      BY <3>2 DEF Truth, Claimed
  <2>6. CASE d # e
    <3>1. Sends(e)' \subseteq Sends(e)
      BY <2>2, <2>4 DEF Sends, Of
    <3> QED
      BY <1>0, <1>4, <1>7, <2>4, <2>6, <3>1, TruthFrame DEF QueueRefresh, database
  <2> QED
    BY <2>5, <2>6
<1>8. CASE QueueClose(c)
  <2>1. PICK r : r = Row("close", d, Blank)
    OBVIOUS
  <2>2. r \in Rows /\ r.type = "close" /\ r.e = d
    BY <1>0, <2>1, Vacant DEF Row, Rows, JobTypes
  <2>3. Insert(r) \/ UNCHANGED jobs
    BY <1>8, <2>1 DEF QueueClose, EnqueueClose
  <2>4. BagToSet(jobs)' \subseteq BagToSet(jobs) \cup {r} /\ BagToSet(jobs) \subseteq BagToSet(jobs)'
    BY <2>2, <2>3, Inserted
  <2>5. Sends(e)' \subseteq Sends(e)
    BY <2>2, <2>4 DEF Sends, Of
  <2> QED
    BY <1>0, <1>4, <1>8, <2>4, <2>5, TruthFrame DEF QueueClose, database
<1>9. CASE SaveUpdate(c)
  <2>1. CASE d = e
    <3>1. calls'[c].step = "refresh" /\ calls'[c].e = e
      BY <1>0, <1>1, <1>9, <2>1 DEF SaveUpdate, Step, Requests
    <3> QED
      BY <3>1 DEF Truth, Claimed, Asked
  <2>2. CASE d # e
    <3>1. ev'[e] = ev[e] /\ Sends(e)' = Sends(e)
      BY <1>1, <1>9, <2>2 DEF SaveUpdate, Sends, Of
    <3> QED
      BY <1>0, <1>4, <1>9, <2>2, <3>1, TruthFrame DEF SaveUpdate
  <2> QED
    BY <2>1, <2>2
<1>10. CASE SaveArchive(c) \/ SaveUnarchive(c) \/ SaveComplete(c)
  <2>1. calls[c].step = "save" /\ UNCHANGED jobs
    BY <1>10 DEF SaveArchive, SaveUnarchive, SaveComplete
  <2>0. calls[c].copy \in EventRows
    BY <1>0 DEF Requests
  <2>a. \A b \in BOOLEAN : [calls[c].copy EXCEPT !.archived = b] \in EventRows
    BY <2>0 DEF EventRows
  <2>b. [calls[c].copy EXCEPT !.status = "previous"] \in EventRows
    BY <2>0 DEF EventRows, Statuses
  <2>2. PICK row \in EventRows : WriteBack(c, row)
    BY <1>10, <2>a, <2>b DEF SaveArchive, SaveUnarchive, SaveComplete
  <2>3. Sends(e)' = Sends(e)
    BY <2>1 DEF Sends, Of
  <2>4. CASE d = e /\ row.text # ev[e].text
    BY <1>1, <2>2, <2>4 DEF WriteBack, Truth
  <2>5. CASE d # e \/ row.text = ev[e].text
    <3>1. ev'[e].text = ev[e].text
      BY <1>1, <2>2, <2>5 DEF WriteBack, EventRows
    <3> QED
      BY <1>0, <1>4, <2>1, <2>3, <3>1, TruthFrame
  <2> QED
    BY <2>4, <2>5
<1> QED
  BY <1>5, <1>6, <1>7, <1>8, <1>9, <1>10 DEF Continue

LEMMA OtherTruth ==
    ASSUME Shapes, NEW e \in Events, Truth(e), behind[e] => behind'[e],
           \/ \E d \in Events : Alone(d)
           \/ AdvanceStatuses \/ Toggle \/ UNCHANGED vars
    PROVE  Truth(e)'
<1>0. UNCHANGED <<hand, post, delivery, calls, rsvp>>
  BY DEF Alone, Remove, Clock, CloseEnded, EnqueueReminder, AdvanceStatuses, Toggle, vars, discord, database
<1>1. ev'[e].text = ev[e].text
  <2>0. DOMAIN ev = Events /\ ev[e] \in EventRows
    BY DEF Shapes, Tables
  <2> QED
    BY <2>0 DEF Alone, Remove, Clock, CloseEnded, EnqueueReminder, AdvanceStatuses, Toggle, vars, database,
       EventRows
<1>2. Asked(e)' = Asked(e)
  BY <1>0 DEF Asked
<1>3. BagToSet(jobs) \subseteq BagToSet(jobs') /\ Sends(e)' = Sends(e)
  <2>1. ASSUME NEW d \in Events, Alone(d)
        PROVE  BagToSet(jobs) \subseteq BagToSet(jobs') /\ Sends(e)' = Sends(e)
    <3>1. \A t \in {"close", "thread"} : Row(t, d, Blank) \in Rows /\ Row(t, d, Blank).type # "announce"
      BY Vacant DEF Row, Rows, JobTypes
    <3>2. Insert(Row("close", d, Blank)) \/ Insert(Row("thread", d, Blank)) \/ UNCHANGED jobs
      BY <2>1 DEF Alone, Remove, Clock, CloseEnded, EnqueueClose, EnqueueReminder
    <3>3. ASSUME NEW r \in Rows, Insert(r), r.type # "announce"
          PROVE  BagToSet(jobs) \subseteq BagToSet(jobs') /\ Sends(e)' = Sends(e)
      BY <3>3, Inserted, InsertedOther
    <3> QED
      BY <3>1, <3>2, <3>3, SameSends
  <2>2. CASE UNCHANGED jobs
    BY <2>2, SameSends
  <2> QED
    BY <2>1, <2>2 DEF AdvanceStatuses, Toggle, vars
<1> QED
  BY <1>0, <1>1, <1>2, <1>3, TruthFrame

LEMMA TakeTruth ==
    ASSUME Shapes, NEW row \in BagToSet(jobs), Take(row), NEW e \in Events, Truth(e) PROVE Truth(e)'
<1>1. /\ BagToSet(jobs') \subseteq BagToSet(jobs) /\ BagToSet(jobs) \subseteq BagToSet(jobs') \cup {row}
      /\ hand'.row = row /\ hand'.step = "start" /\ row \in Rows
  BY Taken
<1>2. hand = Empty /\ UNCHANGED <<ev, rsvp, post, delivery, calls, behind>>
  BY DEF Take, database, discord
<1>3. ~Mending(e) /\ ~Mending(e)' /\ ~Handling(e, {"refresh"})
  BY <1>1, <1>2, Vacant DEF Mending, Handling
<1>4. CASE Claimed(e)
  <2>1. Asked(e) => Asked(e)'
    BY <1>2 DEF Asked
  <2>2. Waiting(e) => Waiting(e)' \/ (Handling(e, {"refresh"})' /\ hand'.step = "start")
    BY <1>1 DEF Waiting, Of, Handling
  <2> QED
    BY <1>3, <1>4, <2>1, <2>2 DEF Truth, Claimed
<1>5. CASE Shown(e)
  <2>1. Card(e)' = Card(e) /\ Sends(e)' \subseteq Sends(e)
    BY <1>1, <1>2 DEF Card, Sends, Of
  <2>2. Sending(e)' => hand'.row \in Sends(e)
    BY <1>1 DEF Sending, Handling, Sends, Of
  <2> QED
    BY <1>1, <1>2, <1>3, <1>5, <2>1, <2>2 DEF Truth, Shown
<1> QED
  BY <1>2, <1>4, <1>5 DEF Truth

LEMMA TroubleTruth ==
    ASSUME Shapes, Throw \/ Crash, NEW e \in Events, Truth(e), behind[e] => behind'[e] PROVE Truth(e)'
<1>0. UNCHANGED <<ev, rsvp, post, delivery>> /\ hand' = Empty /\ DOMAIN behind = Events
  BY DEF Throw, Fail, Crash, Done, database, discord, Shapes, Tables
<1>1. Card(e)' = Card(e) /\ ~Mending(e)' /\ ~Sending(e)'
  BY <1>0, Vacant DEF Card, Mending, Sending, Handling
<1>2. jobs' = jobs (+) SetToBag({hand.row}) \/ UNCHANGED jobs
  BY DEF Throw, Fail, Crash, Reaped
<1>a. Sending(e) /\ ~UNCHANGED jobs => hand.step = "start"
  BY HandAnnounce DEF Throw, Crash, Reaped, Sending, Handling, Idempotent
<1>3. hand.step = "idle" => UNCHANGED jobs /\ ~Handling(e, {"refresh"})
  BY Vacant DEF Throw, Crash, Reaped, Shapes, HandOK, Hands, Steps, Idempotent, Handling
<1>4. BagToSet(jobs) \subseteq BagToSet(jobs') /\ BagToSet(jobs') \subseteq BagToSet(jobs) \cup {hand.row}
  BY <1>2, <1>3, PutBack
<1>5. CASE Handling(e, {"refresh"})
  <2>1. hand.row.e = e /\ hand.row.type = "refresh"
    BY <1>5 DEF Handling
  <2>2. behind'[e] \/ jobs' = jobs (+) SetToBag({hand.row})
    BY <1>0, <2>1 DEF Throw, Fail, Crash, Reaped, Idempotent
  <2>3. CASE jobs' = jobs (+) SetToBag({hand.row})
    <3>1. hand.row \in BagToSet(jobs')
      BY <1>3, <1>5, <2>3, PutBack
    <3> QED
      BY <2>1, <3>1 DEF Truth, Claimed, Waiting, Of
  <2> QED
    BY <2>2, <2>3 DEF Truth
<1>6. CASE ~Handling(e, {"refresh"})
  <2>1. Waiting(e) => Waiting(e)'
    BY <1>4 DEF Waiting, Of
  <2>2. Asked(e) => Asked(e)' \/ behind'[e]
    <3>1. CASE Throw
      BY <3>1 DEF Throw, Fail, Asked
    <3>2. CASE Crash
      BY <3>2 DEF Crash, Asked, CallsOn
    <3> QED
      BY <3>1, <3>2
  <2>3. CASE Shown(e)
    <3>1. \A r \in Sends(e)' : r \in Sends(e) \/ (r = hand.row /\ Sending(e) /\ ~UNCHANGED jobs)
      <4>1. CASE UNCHANGED jobs
        BY <4>1, SameSends
      <4>2. CASE ~UNCHANGED jobs
        BY <1>4, <4>2 DEF Sends, Of, Sending, Handling
      <4> QED
        BY <4>1, <4>2
    <3>2. \A r \in Sends(e)' : r.card = Card(e)
      BY <1>a, <2>3, <3>1 DEF Shown
    <3>3. ~Mending(e)
      BY <1>6 DEF Mending
    <3> QED
      BY <1>0, <1>1, <2>3, <3>2, <3>3, Vacant DEF Truth, Shown
  <2> QED
    BY <1>6, <2>1, <2>2, <2>3 DEF Truth, Claimed
<1> QED
  BY <1>5, <1>6

LEMMA DispatchTruth ==
    ASSUME Shapes, Dispatch, NEW e \in Events, Once(e), Retiring(e), Truth(e),
           (behind[e] /\ ~(ReadRefresh /\ hand.row.e = e)) => behind'[e]
    PROVE  Truth(e)'
<1>0. /\ hand \in Hands /\ HandShape(hand) /\ hand.row.e \in Events /\ hand.row \in Rows /\ hand.step # "idle"
      /\ UNCHANGED <<ev, rsvp, calls, jobs>> /\ (hand' = Empty \/ hand'.row = hand.row)
      /\ e # hand.row.e => post'[e] = post[e] /\ delivery'[e] = delivery[e] /\ behind'[e] = behind[e]
  BY DispatchHand, DispatchJobs
<1>1. Card(e)' = Card(e) /\ Sends(e)' = Sends(e) /\ Asked(e)' = Asked(e) /\ Waiting(e)' = Waiting(e)
  BY <1>0 DEF Card, Sends, Of, Asked, Waiting
<1>p. /\ post[e] \in [count : Nat, card : Cards, live : BOOLEAN, threads : Nat, pings : Nat]
      /\ delivery[e] \in [made : BOOLEAN, thread : BOOLEAN, closed : BOOLEAN]
      /\ DOMAIN post = Events /\ DOMAIN delivery = Events /\ DOMAIN behind = Events
  BY DEF Shapes, Tables
<1>2. CASE hand.row.e # e
  <2>1. ~Handling(e, {"refresh"}) /\ ~Mending(e)
    BY <1>2 DEF Mending, Handling
  <2>2. hand' = Empty \/ hand'.row.e # e
    BY <1>0, <1>2
  <2>3. ~Mending(e)' /\ ~Sending(e)'
    BY <2>2, Vacant DEF Mending, Sending, Handling
  <2> QED
    BY <1>0, <1>1, <1>2, <2>1, <2>2, <2>3, Vacant DEF Truth, Claimed, Shown
<1>3. CASE hand.row.e = e /\ ReadRefresh
  <2>1. CASE ~(Open(e) /\ Visible(e))
    BY <1>3, <1>p, <2>1 DEF ReadRefresh, Truth
  <2>2. CASE Open(e) /\ Visible(e)
    <3>1. hand' = [hand EXCEPT !.step = "roster", !.visible = TRUE,
                               !.seen = [Blank EXCEPT !.text = ev[e].text]]
      BY <1>3, <2>2 DEF ReadRefresh
    <3>2. hand'.step = "roster" /\ hand'.seen.text = ev[e].text /\ hand'.row = hand.row
      BY <1>0, <3>1 DEF Hands, Blank
    <3>3. Sends(e) = {} /\ hand.row.type = "refresh"
      BY <1>3, <2>2 DEF Once, Open, ReadRefresh, InHand
    <3>4. ~Sending(e)' /\ Mending(e)'
      BY <1>3, <3>2, <3>3 DEF Sending, Mending, Handling
    <3> QED
      BY <1>0, <1>1, <3>2, <3>3, <3>4 DEF Truth, Shown
  <2> QED
    BY <2>1, <2>2
<1>4. CASE hand.row.e = e /\ ~ReadRefresh
  <2>0. ~(Handling(e, {"refresh"}) /\ hand.step = "start")
    BY <1>4 DEF Dispatch, InHand, Handling, SendAnnouncement, RecordDelivery, ReadRoster, EditRefresh,
         ReadClose, EditClose, MarkClosed, ReadThread, OpenThread, RecordThread, Ping, Refused
  <2>1. (behind[e] \/ Claimed(e)) => Truth(e)'
    BY <1>1, <1>4, <2>0 DEF Truth, Claimed
  <2>2. SUFFICES ASSUME Shown(e) PROVE Shown(e)'
    BY <2>1 DEF Truth
  <2>s. ASSUME NEW s, Goto(s)
        PROVE  hand'.step = s /\ hand'.row = hand.row /\ hand'.visible = hand.visible /\ hand'.seen = hand.seen
    BY <1>0, <2>s DEF Goto, Hands
  <2>e. Done => ~Mending(e)' /\ ~Sending(e)' /\ hand'.step = "idle"
    BY Vacant DEF Done, Mending, Sending, Handling
  <2>3. CASE SendAnnouncement
    <3>1. Sending(e) /\ hand.step = "start"
      BY <1>4, <2>3 DEF SendAnnouncement, InHand, Sending, Handling
    <3>2. ~delivery[e].made /\ Sends(e) = {}
      BY <3>1 DEF Once
    <3>3. post'[e].card = Card(e) /\ delivery' = delivery
      BY <1>4, <1>p, <2>2, <2>3, <3>1 DEF SendAnnouncement, Shown
    <3>4. hand'.step = "record"
      BY <2>3, <2>s DEF SendAnnouncement
    <3> QED
      BY <1>0, <1>1, <3>2, <3>3, <3>4 DEF Shown
  <2>4. CASE RecordDelivery
    <3>1. Sending(e) /\ hand.step = "record" /\ Done /\ post' = post
      BY <1>4, <2>4 DEF RecordDelivery, InHand, Sending, Handling
    <3> QED
      BY <1>1, <2>2, <2>e, <3>1 DEF Shown
  <2>5. CASE ReadRoster
    <3>1. hand' = [hand EXCEPT !.step = "edit", !.seen = [hand.seen EXCEPT !.roster = rsvp[e]]]
      BY <1>0, <1>4, <2>5 DEF ReadRoster, Hands
    <3>2. /\ hand'.row = hand.row /\ hand'.step = "edit" /\ hand'.visible = hand.visible
          /\ hand'.seen = [hand.seen EXCEPT !.roster = rsvp[e]] /\ hand.step = "roster"
      BY <1>0, <2>5, <3>1 DEF ReadRoster, Hands
    <3>3. hand.visible => hand'.seen = Card(e)
      BY <1>0, <1>4, <2>2, <3>2 DEF Shown, Card, Hands, Cards
    <3>4. ~Sending(e)' /\ Mending(e)' = Mending(e)
      BY <1>0, <3>2 DEF Sending, Handling, Mending, HandShape, Idempotent
    <3> QED
      BY <1>1, <2>2, <2>5, <3>2, <3>3, <3>4 DEF Shown, ReadRoster, discord
  <2>6. CASE EditRefresh
    <3>1. Mending(e) /\ hand.step = "edit" /\ Done /\ delivery' = delivery
      BY <1>4, <2>6 DEF EditRefresh, InHand, Mending, Handling
    <3>2. hand.seen = Card(e)
      BY <1>4, <2>2, <3>1 DEF Shown, Retiring
    <3>3. post'[e].card = Card(e)
      BY <1>4, <1>p, <2>6, <3>2 DEF EditRefresh
    <3> QED
      BY <1>1, <2>2, <2>e, <3>1, <3>3 DEF Shown
  <2>n. hand.row.type # "refresh" => ~Mending(e)
    BY DEF Mending, Handling
  <2>7. CASE ReadClose
    <3>1. hand' = Empty \/ /\ hand'.step = IF Visible(e) THEN "roster" ELSE "edit"
                           /\ hand'.visible = Visible(e) /\ hand'.row = hand.row
                           /\ hand'.seen.text = ev[e].text
      BY <1>0, <1>4, <2>7 DEF ReadClose, Done, Hands, Blank
    <3>2. ~Mending(e) /\ ~Mending(e)' /\ ~Sending(e)' /\ UNCHANGED <<post, delivery>>
      BY <2>7, <2>n, <3>1, Vacant DEF ReadClose, InHand, Mending, Sending, Handling, discord
    <3> QED
      BY <1>0, <1>1, <2>2, <3>1, <3>2, Vacant DEF Shown
  <2>8. CASE EditClose
    <3>1. hand.row.type = "close" /\ hand.step = "edit" /\ ~Mending(e) /\ delivery' = delivery
      BY <2>8, <2>n DEF EditClose, InHand
    <3>2. post'[e].card = IF hand.visible THEN hand.seen ELSE post[e].card
      BY <1>4, <1>p, <2>8 DEF EditClose
    <3>3. delivery[e].made => post'[e].card = Card(e)
      BY <1>4, <2>2, <3>1, <3>2 DEF Shown
    <3>4. hand'.step = "stamp" /\ hand'.row = hand.row
      BY <2>8, <2>s DEF EditClose
    <3>5. ~Sending(e)' /\ ~Mending(e)'
      BY <3>1, <3>4 DEF Sending, Mending, Handling
    <3> QED
      BY <1>1, <2>2, <3>1, <3>3, <3>4, <3>5 DEF Shown
  <2>9. CASE MarkClosed \/ Ping \/ Refused
    <3>1. hand.row.type # "refresh" /\ Done
      BY <2>9 DEF MarkClosed, Ping, Refused, InHand, Fail
    <3>2. post'[e].card = post[e].card /\ delivery'[e].made = delivery[e].made
      BY <1>p, <2>9 DEF MarkClosed, Ping, Refused, Fail, discord
    <3> QED
      BY <1>1, <2>2, <2>e, <2>n, <3>1, <3>2 DEF Shown
  <2>10. CASE ReadThread \/ OpenThread \/ RecordThread
    <3>1. hand.row.type = "thread" /\ (Done \/ \E s \in {"open", "record", "ping"} : Goto(s))
      BY <2>10 DEF ReadThread, OpenThread, RecordThread, InHand
    <3>2. post'[e].card = post[e].card /\ delivery'[e].made = delivery[e].made
      BY <1>p, <2>10 DEF ReadThread, OpenThread, RecordThread, discord
    <3>3. ~Sending(e)' /\ ~Mending(e)' /\ hand'.step \notin {"roster", "edit"}
      BY <2>s, <2>e, <3>1 DEF Sending, Mending, Handling
    <3> QED
      BY <1>1, <2>2, <2>n, <3>1, <3>2, <3>3 DEF Shown
  <2> QED
    BY <1>4, <2>3, <2>4, <2>5, <2>6, <2>7, <2>8, <2>9, <2>10 DEF Dispatch
<1> QED
  BY <1>2, <1>3, <1>4

LEMMA TruthKept ==
    ASSUME Shapes, [Next]_vars, NEW e \in Events, Once(e), Retiring(e), Truth(e) PROVE Truth(e)'
<1>1. (behind[e] /\ ~(ReadRefresh /\ hand.row.e = e)) => behind'[e]
  BY BehindStays
<1>2. CASE Dispatch
  BY <1>1, <1>2, DispatchTruth
<1>3. CASE ~Dispatch
  <2>1. behind[e] => behind'[e]
    BY <1>1, <1>3 DEF Dispatch
  <2> QED
    BY <1>3, <2>1, RequestTruth, ContinueTruth, OtherTruth, TakeTruth, TroubleTruth DEF Next
<1> QED
  BY <1>2, <1>3

(***************************************************************************)
(* The theorems.                                                           *)
(***************************************************************************)
LEMMA AnnouncementBegins == Init => AnnouncementInv
<1> SUFFICES ASSUME Init, NEW e \in Events PROVE Once(e) /\ Retiring(e) /\ Threads(e) /\ Truth(e)
  BY DEF AnnouncementInv
<1>1. /\ post[e] = NoPost /\ delivery[e] = NoDelivery /\ ev[e] = NoEvent /\ rsvp[e] = {}
      /\ hand = Empty /\ \A c \in Calls : calls[c] = Free
  BY DEF Init
<1>2. Sends(e) = {}
  BY DEF Init, Sends, Of, EmptyBag, SetToBag, BagToSet
<1>3. Announcing(e) = {} /\ ~Sending(e) /\ ~Mending(e) /\ ~Closing(e) /\ hand.step = "idle"
  BY <1>1, Vacant DEF Announcing, Sending, Mending, Closing, Handling
<1>4. Once(e) /\ Retiring(e) /\ Threads(e)
  BY <1>1, <1>2, <1>3, Vacant DEF Once, Retiring, Threads, NoPost, NoDelivery, NoEvent, Handling
<1>5. Shown(e)
  BY <1>1, <1>2, <1>3 DEF Shown, NoDelivery
<1> QED
  BY <1>4, <1>5 DEF Truth

\* The message of an event is sent once, shows what the database has when
\* nothing is under way, and is dead once it was retired: what the worker relies
\* on between its reads and its edits, and what is claimed of each event's card.
THEOREM AnnouncementKept == Spec => [](Shapes /\ AnnouncementInv)
<1>1. Init => Shapes /\ AnnouncementInv
  BY ShapesBegin, AnnouncementBegins
<1>2. (Shapes /\ AnnouncementInv) /\ [Next]_vars => (Shapes /\ AnnouncementInv)'
  <2> SUFFICES ASSUME Shapes, AnnouncementInv, [Next]_vars PROVE Shapes' /\ AnnouncementInv'
    OBVIOUS
  <2>1. Shapes'
    BY ShapesKept
  <2>2. ASSUME NEW e \in Events PROVE Once(e)' /\ Retiring(e)' /\ Threads(e)' /\ Truth(e)'
    BY OnceKept, RetiringKept, TruthKept DEF AnnouncementInv
  <2> QED
    BY <2>1, <2>2 DEF AnnouncementInv
<1> QED
  BY <1>1, <1>2, PTL DEF Spec

\* Once closedAt is stamped the buttons are dead and stay dead, whatever refresh
\* or press was under way (refreshEventAnnouncement, closeEventAnnouncement).
THEOREM RetiredForGood == Spec => []RetiredStaysDead
<1>1. AnnouncementInv => RetiredStaysDead
  BY DEF AnnouncementInv, Retiring, RetiredStaysDead
<1> QED
  BY <1>1, AnnouncementKept, PTL

\* One message and one round of pings for each event, through retries, crashes and
\* write-backs that fail (postEventAnnouncement, openEventThread).
THEOREM PingsOnce == Spec => []PingedOnce
<1>1. AnnouncementInv => PingedOnce
  BY DEF AnnouncementInv, Once, Threads, PingedOnce
<1> QED
  BY <1>1, AnnouncementKept, PTL

\* When nothing is under way an open announcement shows the details and the roster
\* of the database, unless a refresh was dropped for a stated reason: the
\* coalescing of refreshes loses no answer (enqueueEventAnnouncementRefresh).
THEOREM NoAnswerLost == Spec => []CardIsCurrent
<1>1. AnnouncementInv => CardIsCurrent
  <2> SUFFICES ASSUME AnnouncementInv, NEW e \in Events, Quiet(e), Open(e), ~behind[e]
               PROVE  post[e].card = Card(e)
    BY DEF CardIsCurrent
  <2>1. ~Asked(e) /\ ~Waiting(e) /\ ~Handling(e, {"refresh"})
    BY Vacant DEF Quiet, Asked, CallsOn, Waiting, Of, Handling
  <2>2. Shown(e)
    BY <2>1 DEF AnnouncementInv, Truth, Claimed
  <2> QED
    BY <2>1, <2>2 DEF Shown, Mending, Open
<1> QED
  BY <1>1, AnnouncementKept, PTL

(***************************************************************************)
(* How many rows wait.                                                     *)
(***************************************************************************)
\* What the worker has in hand will find its place again.
Roomy == /\ IsFiniteSet(Copies(jobs))
         /\ Cardinality(Copies(jobs)) <= MaxJobs + IF hand = Empty THEN 1 ELSE 0

LEMMA OneMore ==
    ASSUME NEW B, IsABag(B), IsFiniteSet(Copies(B)), NEW r
    PROVE  LET C == B (+) SetToBag({r}) IN
             IsFiniteSet(Copies(C)) /\ Cardinality(Copies(C)) = Cardinality(Copies(B)) + 1
<1>1. PICK z : z \notin Copies(B) /\ Copies(B (+) SetToBag({r})) = Copies(B) \cup {z}
  BY CopyMore
<1> QED
  BY <1>1, FS_AddElement

LEMMA OneLess ==
    ASSUME NEW B, IsABag(B), IsFiniteSet(Copies(B)), NEW r \in BagToSet(B)
    PROVE  LET C == B (-) SetToBag({r}) IN
             IsFiniteSet(Copies(C)) /\ Cardinality(Copies(C)) = Cardinality(Copies(B)) - 1
<1>1. PICK z \in Copies(B) : Copies(B (-) SetToBag({r})) = Copies(B) \ {z}
  BY CopyLess
<1> QED
  BY <1>1, FS_RemoveElement

LEMMA RoomyKept == ASSUME Shapes, Roomy, [Next]_vars PROVE Roomy'
<1> DEFINE n == Cardinality(Copies(jobs))
<1>0. n \in Nat /\ MaxJobs \in Nat /\ IsABag(jobs) /\ IsFiniteSet(Copies(jobs))
  BY FS_CardinalityType, ConstantsAssumption DEF Roomy, Shapes, JobsOK
<1>e. hand # Empty => n <= MaxJobs
  BY <1>0 DEF Roomy
<1>2. ASSUME UNCHANGED jobs, hand = Empty => hand' = Empty PROVE Roomy'
  <2>1. Copies(jobs') = Copies(jobs)
    BY <1>2
  <2> QED
    BY <1>0, <1>2, <1>e, <2>1 DEF Roomy
<1>3. ASSUME NEW row, Insert(row), UNCHANGED hand PROVE Roomy'
  <2>0. jobs' = jobs (+) SetToBag({row})
    BY <1>3 DEF Insert
  <2>1. /\ IsFiniteSet(Copies(jobs')) /\ Cardinality(Copies(jobs')) = n + 1
    BY <1>0, <2>0, OneMore
  <2>2. n < MaxJobs
    BY <1>3 DEF Insert, Room
  <2> QED
    BY <1>0, <2>1, <2>2 DEF Roomy
<1>4. ASSUME jobs' = jobs (+) SetToBag({hand.row}), hand # Empty, hand' = Empty PROVE Roomy'
  <2>1. /\ IsFiniteSet(Copies(jobs')) /\ Cardinality(Copies(jobs')) = n + 1
    BY <1>0, <1>4, OneMore
  <2> QED
    BY <1>0, <1>4, <1>e, <2>1 DEF Roomy
<1>5. ASSUME NEW c \in Calls, Request(c) PROVE Roomy'
  <2>1. UNCHANGED <<jobs, hand>>
    <3>1. ASSUME NEW e \in Events, NEW m \in Members, Rsvp(c, e, m) \/ Press(c, e, m)
          PROVE  UNCHANGED <<jobs, hand>>
      BY <3>1 DEF Rsvp, Press, Answer
    <3>2. ASSUME NEW e \in Events, Create(c, e) \/ Reanchor(c, e) PROVE UNCHANGED <<jobs, hand>>
      BY <3>2 DEF Create, Reanchor
    <3>3. ASSUME NEW e \in Events, NEW op \in Ops, LoadEvent(c, e, op)
          PROVE  UNCHANGED <<jobs, hand>>
      BY <3>3 DEF LoadEvent
    <3> QED
      BY <1>5, <3>1, <3>2, <3>3 DEF Request
  <2> QED
    BY <1>2, <2>1
<1>6. ASSUME NEW c \in Calls, Continue(c) PROVE Roomy'
  <2>1. CASE UNCHANGED <<jobs, hand>>
    BY <1>2, <2>1
  <2>2. CASE UNCHANGED hand /\ \E row : Insert(row)
    BY <1>3, <2>2
  <2>3. UNCHANGED hand /\ (UNCHANGED jobs \/ \E row : Insert(row))
    <3>1. CASE EnqueueAnnounce(c)
      BY <3>1 DEF EnqueueAnnounce
    <3>2. CASE QueueRefresh(c)
      BY <3>2 DEF QueueRefresh
    <3>3. CASE QueueClose(c)
      BY <3>3 DEF QueueClose, EnqueueClose
    <3>4. CASE LookRefresh(c)
      BY <3>4 DEF LookRefresh
    <3>5. CASE SaveUpdate(c)
      BY <3>5 DEF SaveUpdate
    <3>6. CASE SaveArchive(c) \/ SaveUnarchive(c) \/ SaveComplete(c)
      BY <3>6 DEF SaveArchive, SaveUnarchive, SaveComplete
    <3> QED
      BY <1>6, <3>1, <3>2, <3>3, <3>4, <3>5, <3>6 DEF Continue
  <2> QED
    BY <2>1, <2>2, <2>3
<1>7. ASSUME NEW e \in Events, Alone(e) PROVE Roomy'
  BY <1>2, <1>3, <1>7 DEF Alone, Remove, Clock, CloseEnded, EnqueueClose, EnqueueReminder
<1>8. CASE AdvanceStatuses \/ Toggle \/ UNCHANGED vars
  BY <1>2, <1>8 DEF AdvanceStatuses, Toggle, vars
<1>9. ASSUME NEW row \in BagToSet(jobs), Take(row) PROVE Roomy'
  <2>1. jobs' = jobs (-) SetToBag({row}) /\ hand = Empty
    BY <1>9 DEF Take
  <2>2. IsFiniteSet(Copies(jobs')) /\ Cardinality(Copies(jobs')) = n - 1
    BY <1>0, <2>1, OneLess
  <2>3. n <= MaxJobs + 1
    BY <2>1 DEF Roomy
  <2> QED
    BY <1>0, <2>2, <2>3 DEF Roomy
<1>10. CASE Dispatch
  <2>1. hand # Empty
    BY <1>10, DispatchHand
  <2> QED
    BY <1>2, <1>10, <2>1, DispatchJobs
<1>11. ASSUME NEW final, Fail(final), hand # Empty PROVE Roomy'
  BY <1>2, <1>4, <1>11 DEF Fail, Done
<1>12. CASE Throw
  BY <1>11, <1>12 DEF Throw
<1>13. CASE Crash
  <2>1. CASE hand.row.type \in Idempotent
    <3>1. hand # Empty
      BY <2>1, Vacant DEF Idempotent
    <3> QED
      BY <1>4, <1>13, <2>1, <3>1 DEF Crash, Reaped, Done
  <2>2. CASE hand.row.type \notin Idempotent
    <3>1. UNCHANGED jobs /\ hand' = Empty
      BY <1>13, <2>2 DEF Crash, Reaped, Done
    <3> QED
      BY <1>2, <3>1
  <2> QED
    BY <2>1, <2>2
<1> QED
  BY <1>5, <1>6, <1>7, <1>8, <1>9, <1>10, <1>12, <1>13 DEF Next

\* The state keeps its types, and at most one row more than there is room for waits: the
\* one the worker had in hand and put back (handleFailure, reapOrphanedJobs).
THEOREM TypeCorrect == Spec => []TypeOK
<1>1. Init => Roomy
  <2> SUFFICES ASSUME Init PROVE Roomy
    OBVIOUS
  <2>1. Copies(jobs) = {}
    BY DEF Init, Copies, EmptyBag, SetToBag, BagToSet
  <2> QED
    BY <2>1, FS_EmptySet, ConstantsAssumption DEF Init, Roomy
<1>2. Shapes /\ Roomy /\ [Next]_vars => Roomy'
  BY RoomyKept
<1>3. Shapes /\ Roomy => TypeOK
  <2> SUFFICES ASSUME Shapes, Roomy PROVE TypeOK
    OBVIOUS
  <2>1. hand = Empty \/ (hand \in Hands /\ HandShape(hand))
    BY DEF Shapes, HandOK
  <2>2. hand.step = "idle" <=> hand = Empty
    BY <2>1, Vacant DEF Hands, Steps
  <2>3. hand = Empty \/ hand.row \in Rows
    BY <2>1 DEF Hands
  <2>4. hand.step \in {"roster", "stamp"} => hand.row.type \in Idempotent
    BY <2>1, Vacant DEF HandShape
  <2>5. \A c \in Calls : calls[c].step # "idle" => calls[c].e \in Events
    BY CallUnderway
  <2> QED
    BY <2>2, <2>3, <2>4, <2>5 DEF TypeOK, Roomy, Shapes, Tables, JobsOK, EventRows
<1> QED
  BY <1>1, <1>2, <1>3, AnnouncementKept, PTL DEF Spec
================================================================================
