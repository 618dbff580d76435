-------------------------- MODULE WebServerProofs --------------------------
(* Theorems about the web server, for any records, tables, viewers, size of  *)
(* the output channel and failures of queries: what a single viewer is sent  *)
(* of a table, and that history and live view meet.                          *)
EXTENDS WebServer, ListsProofs

(* The records of a table, and their cells.                                  *)
Of(id) == {d \in Data : IdOf[d] = id}
Cell == [row : Data, col : Nat]
CellOf(id) == {cell \in Cell : IdOf[cell.row] = id}

(* Everything has its shape; a goroutine has cells to write exactly when it  *)
(* is about to.                                                              *)
IsSub(sub, id) ==
  /\ sub = [at |-> sub.at, start |-> sub.start, lastTime |-> sub.lastTime,
            currentTime |-> sub.currentTime, todo |-> sub.todo]
  /\ sub.start \in Nat /\ sub.lastTime \in Nat /\ sub.currentTime \in Nat
  /\ sub.todo \in Seq(CellOf(id))
  /\ sub.at # "write" <=> sub.todo = <<>>
IsPage(view) ==
  /\ view = [at |-> view.at, end |-> view.end, live |-> view.live, found |-> view.found]
  /\ view.end \in Nat
StoreShaped ==
  /\ waiting \subseteq Data
  /\ pending = [id \in RecordTables |-> pending[id]]
  /\ rows = [id \in RecordTables |-> rows[id]]
  /\ \A id \in RecordTables : pending[id] \in Seq(Of(id)) /\ rows[id] \in Seq(Of(id))
RestShaped ==
  /\ socket = [v \in Viewers |-> socket[v]]
  /\ subscription = [v \in Viewers |-> [id \in RecordTables |-> subscription[v][id]]]
  /\ page = [v \in Viewers |-> [id \in RecordTables |-> page[v][id]]]
  /\ \A v \in Viewers, id \in RecordTables : IsSub(subscription[v][id], id) /\ IsPage(page[v][id])
  /\ bufferOutput \in Seq(Cell)
  /\ shown = [v \in Viewers |-> shown[v]]
  /\ \A v \in Viewers : shown[v] \in Seq(Cell)
Shaped == StoreShaped /\ RestShaped

(* Who never connected was sent nothing, and has no goroutine; the channel   *)
(* is empty until somebody connects.                                         *)
Unmet(v) == socket[v] \in {"never", "absent"}
Quiet ==
  /\ \A v \in Viewers : Unmet(v) => shown[v] = <<>> /\ \A id \in RecordTables : subscription[v][id].at = "off"
  /\ (\A v \in Viewers : Unmet(v)) => bufferOutput = <<>>

(* The cursors of a goroutine whose queries succeed go up, and lie within    *)
(* the table.                                                                *)
Live(v, id) == Started(v, id) /\ <<v, id, "live">> \notin failed
Cursor(v, id) ==
  LET sub == subscription[v][id]
  IN Live(v, id) =>
       /\ sub.start <= sub.lastTime /\ sub.lastTime <= LastSynt(id)
       /\ sub.at = "read" => sub.lastTime <= sub.currentTime /\ sub.currentTime <= LastSynt(id)

(* Before its first cursor nothing of the table is on the way to a viewer.   *)
Fresh(v, id) == Alone(v) /\ ~Started(v, id) => Stream(v, id) = <<>>

(* The end of a page lies within the table, and not before the first cursor  *)
(* of a live view that was there before; the page has every row before it.   *)
Reader(v, id) ==
  LET view == page[v][id]
  IN /\ view.at \in {"asked", "answered"} /\ view.live => Started(v, id)
     /\ view.at \in {"asked", "answered"} /\ <<v, id, "history">> \notin failed =>
          /\ view.end <= LastSynt(id)
          /\ view.live /\ Live(v, id) => subscription[v][id].start <= view.end
          /\ view.at = "answered" /\ InOrder(id) =>
               \A d \in ToSet(rows[id]) : IterOf[d] < view.end => d \in view.found

(* LiveViewIsExact of one viewer and table.                                  *)
Exact(v, id) ==
  Alone(v) /\ Started(v, id) /\ InOrder(id) /\ <<v, id, "live">> \notin failed =>
    Stream(v, id) = Cells(RowsBetween(id, subscription[v][id].start, subscription[v][id].lastTime))

(* No row before the first cursor is in a live view whose queries succeed.   *)
Since(id, a) == {cell \in CellOf(id) : a <= IterOf[cell.row]}
Recent(v, id) == Alone(v) /\ Live(v, id) => Stream(v, id) \in Seq(Since(id, subscription[v][id].start))

PairInv(v, id) == Cursor(v, id) /\ Fresh(v, id) /\ Exact(v, id) /\ Recent(v, id) /\ Reader(v, id)
WebInv ==
  /\ Shaped /\ Quiet
  /\ \A v \in Viewers, id \in RecordTables : PairInv(v, id)

-----------------------------------------------------------------------------
(* The rows of a table                                                       *)

Span(id, a, b) == {d \in Of(id) : a <= IterOf[d] /\ IterOf[d] < b}
Sorted(q) == \A i, j \in DOMAIN q : i < j => IterOf[q[i]] <= IterOf[q[j]]
Times(q) == {0} \cup {IterOf[d] : d \in ToSet(q)}

LEMMA IterTyped == \A id : \A d \in Of(id) : IterOf[d] \in Nat
BY RecordsAssumption DEF Of

LEMMA RowsBetweenIs ==
  ASSUME NEW id, NEW q \in Seq(Of(id)), NEW a, NEW b
  PROVE  Kept(q, {i \in DOMAIN q : a <= IterOf[q[i]] /\ IterOf[q[i]] < b}) = Those(q, Span(id, a, b))
<1>1. \A i \in DOMAIN q : q[i] \in Of(id)
  BY LenProperties, ElementOfSeq
<1>2. {i \in DOMAIN q : a <= IterOf[q[i]] /\ IterOf[q[i]] < b} = {i \in DOMAIN q : q[i] \in Span(id, a, b)}
  BY <1>1 DEF Span
<1> QED
  BY <1>2 DEF Those

(* The rows up to a time and from it on, one after the other.                *)
LEMMA SpansJoin ==
  ASSUME NEW id, NEW a \in Nat, NEW b \in Nat, NEW c \in Nat, a <= b, b <= c
  PROVE  \A q \in Seq(Of(id)) : Sorted(q) =>
           Those(q, Span(id, a, c)) = Those(q, Span(id, a, b)) \o Those(q, Span(id, b, c))
<1> DEFINE S == Of(id)
           AB == Span(id, a, b)
           BC == Span(id, b, c)
           AC == Span(id, a, c)
           Joins(q) == Sorted(q) => Those(q, AC) = Those(q, AB) \o Those(q, BC)
           T == {q \in Seq(S) : Joins(q)}
<1>0. \A q \in Seq(S) : Those(q, AB) \in Seq(S) /\ Those(q, BC) \in Seq(S)
  <2>1. \A P : \A q \in Seq(S \cap P) : q \in Seq(S)
    BY SeqMonotonic
  <2> HIDE DEF S, AB, BC
  <2> QED
    BY <2>1, ThoseTyped
<1>s. \A x \in S : /\ x \in AC <=> x \in AB \/ x \in BC
                   /\ ~(x \in AB /\ x \in BC)
                   /\ \A y \in S : y \in AB /\ IterOf[x] <= IterOf[y] => x \notin BC
  BY IterTyped DEF Span
<1> HIDE DEF S, AB, BC, AC
<1>1. <<>> \in T
  <2>1. <<>> \in Seq(S) /\ <<>> \o <<>> = <<>>
    BY EmptySeq, ConcatEmptySeq
  <2> QED
    BY <2>1, ThoseEmpty
<1>2. ASSUME NEW q \in Seq(S), NEW x \in S, q \in T PROVE Append(q, x) \in T
  <2> DEFINE r == Append(q, x)
             u == Those(q, AB)
             v == Those(q, BC)
  <2>1. /\ Len(q) \in Nat /\ r \in Seq(S) /\ r[Len(q) + 1] = x /\ \A i \in 1 .. Len(q) : r[i] = q[i]
        /\ DOMAIN q = 1 .. Len(q) /\ DOMAIN r = 1 .. Len(q) + 1
        /\ \A i \in 1 .. Len(q) : q[i] \in S
    BY AppendProperties, LenProperties, ElementOfSeq
  <2>2. /\ Those(r, AC) = IF x \in AC THEN Append(Those(q, AC), x) ELSE Those(q, AC)
        /\ Those(r, AB) = IF x \in AB THEN Append(u, x) ELSE u
        /\ Those(r, BC) = IF x \in BC THEN Append(v, x) ELSE v
    BY ThoseAppend
  <2>3. u \in Seq(S) /\ v \in Seq(S)
    BY <1>0
  <2> HIDE DEF r
  <2> SUFFICES ASSUME Sorted(r) PROVE Those(r, AC) = Those(r, AB) \o Those(r, BC)
    BY <2>1 DEF r
  <2>4. Sorted(q) /\ \A i \in DOMAIN q : IterOf[q[i]] <= IterOf[x]
    <3>1. \A i \in DOMAIN q : i \in DOMAIN r /\ r[i] = q[i] /\ i < Len(q) + 1 /\ Len(q) + 1 \in DOMAIN r
      BY <2>1
    <3> QED
      BY <2>1, <3>1 DEF Sorted
  <2>5. Those(q, AC) = u \o v
    BY <1>2, <2>4
  <2> HIDE DEF T
  <2>6. CASE x \in BC
    <3>1. x \notin AB /\ x \in AC
      BY <1>s, <2>6
    <3>2. u \o Append(v, x) = Append(u \o v, x)
      <4> HIDE DEF u, v
      <4> QED
        BY <2>3, ConcatAppend
    <3> QED
      BY <2>2, <2>5, <2>6, <3>1, <3>2
  <2>7. CASE x \in AB
    <3>1. x \notin BC /\ x \in AC
      BY <1>s, <2>7
    <3>2. \A i \in DOMAIN q : q[i] \notin BC
      BY <1>s, <2>1, <2>4, <2>7
    <3>3. v = <<>>
      BY <3>2, ThoseNone
    <3> HIDE DEF u, v
    <3>4. u \o v = u /\ Append(u, x) \o v = Append(u, x)
      BY <2>3, <3>3, ConcatEmptySeq, AppendProperties
    <3> QED
      BY <2>2, <2>5, <2>7, <3>1, <3>4
  <2>8. CASE x \notin AB /\ x \notin BC
    BY <1>s, <2>2, <2>5, <2>8
  <2> QED
    BY <2>6, <2>7, <2>8
<1> HIDE DEF T
<1>3. \A q \in Seq(S) : q \in T
  BY <1>1, <1>2, SeqSetInduction
<1> QED
  BY <1>3 DEF T, S, AB, BC, AC

(* The last time of a table exists: 0 or that of a row.                      *)
LEMMA MaxOfTimes ==
  ASSUME NEW id
  PROVE  \A q \in Seq(Of(id)) : Max(Times(q)) \in Times(q) /\ \A t \in Times(q) : t <= Max(Times(q))
<1> DEFINE S == Of(id)
           T == {q \in Seq(S) : \E m \in Times(q) : \A t \in Times(q) : m >= t}
<1>1. <<>> \in T
  <2>1. <<>> \in Seq(S) /\ DOMAIN <<>> = {}
    BY EmptySeq, LenProperties
  <2>2. Times(<<>>) = {0}
    BY <2>1 DEF Times, ToSet
  <2> QED
    BY <2>1, <2>2
<1>2. ASSUME NEW q \in Seq(S), NEW x \in S, q \in T PROVE Append(q, x) \in T
  <2> DEFINE r == Append(q, x)
  <2>1. /\ Len(q) \in Nat /\ r \in Seq(S) /\ r[Len(q) + 1] = x /\ \A i \in 1 .. Len(q) : r[i] = q[i]
        /\ DOMAIN q = 1 .. Len(q) /\ DOMAIN r = 1 .. Len(q) + 1
        /\ \A i \in 1 .. Len(q) : q[i] \in S
    BY AppendProperties, LenProperties, ElementOfSeq
  <2>2. PICK m \in Times(q) : \A t \in Times(q) : m >= t
    BY <1>2
  <2> HIDE DEF r, T
  <2>3. ToSet(r) = ToSet(q) \cup {x}
    <3>1. \A i \in 1 .. Len(q) + 1 : i \in 1 .. Len(q) \/ i = Len(q) + 1
      BY <2>1
    <3>2. Len(q) + 1 \in 1 .. Len(q) + 1 /\ \A i \in 1 .. Len(q) : i \in 1 .. Len(q) + 1
      BY <2>1
    <3> QED
      BY <2>1, <3>1, <3>2, Zenon DEF ToSet
  <2>4. Times(r) = Times(q) \cup {IterOf[x]}
    BY <2>3 DEF Times
  <2>5. IterOf[x] \in Nat /\ \A t \in Times(q) : t \in Nat
    BY <2>1, IterTyped DEF Times, ToSet
  <2>6. \E n \in Times(r) : \A t \in Times(r) : n >= t
    <3>1. CASE m >= IterOf[x]
      BY <2>2, <2>4, <2>5, <3>1
    <3>2. CASE ~(m >= IterOf[x])
      BY <2>2, <2>4, <2>5, <3>2
    <3> QED
      BY <3>1, <3>2
  <2> QED
    BY <2>1, <2>6 DEF T, r
<1> HIDE DEF T
<1>3. \A q \in Seq(S) : q \in T
  BY <1>1, <1>2, SeqSetInduction
<1>4. ASSUME NEW q \in Seq(S) PROVE Max(Times(q)) \in Times(q) /\ \A t \in Times(q) : t <= Max(Times(q))
  <2>1. \E m \in Times(q) : \A t \in Times(q) : m >= t
    BY <1>3, <1>4 DEF T
  <2>2. Max(Times(q)) \in Times(q) /\ \A t \in Times(q) : Max(Times(q)) >= t
    BY <2>1 DEF Max
  <2>3. \A t \in Times(q) : t \in Nat
    <3>1. \A i \in DOMAIN q : q[i] \in S
      BY <1>4, LenProperties, ElementOfSeq
    <3> QED
      BY <3>1, IterTyped DEF Times, ToSet
  <2> QED
    BY <2>2, <2>3
<1> QED
  BY <1>4

(* What rows that join the end of a table change: the last time goes up; as  *)
(* long as the rows are in order, nothing before the last time is new.       *)
Above(q, r, id) ==
  /\ Max(Times(q)) \in Nat /\ Max(Times(r)) \in Nat /\ Max(Times(q)) <= Max(Times(r))
  /\ Sorted(r) =>
       /\ Sorted(q)
       /\ \A a \in Nat, b \in Nat : b <= Max(Times(q)) => Those(r, Span(id, a, b)) = Those(q, Span(id, a, b))
       /\ \A d \in ToSet(r) : IterOf[d] < Max(Times(q)) => d \in ToSet(q)

LEMMA RowsJoin ==
  ASSUME NEW id, NEW q \in Seq(Of(id)), NEW e \in Seq(Of(id))
  PROVE  Above(q, q \o e, id)
<1> DEFINE S == Of(id)
           r == q \o e
           m == Max(Times(q))
<1>0. /\ Len(q) \in Nat /\ Len(e) \in Nat /\ r \in Seq(S)
      /\ DOMAIN q = 1 .. Len(q) /\ DOMAIN e = 1 .. Len(e) /\ DOMAIN r = 1 .. Len(q) + Len(e)
      /\ \A i \in 1 .. Len(q) : r[i] = q[i] /\ q[i] \in S
      /\ \A i \in 1 .. Len(e) : r[Len(q) + i] = e[i] /\ e[i] \in S
  <2>1. IsJoin(S, r, q, e)
    BY JoinIsJoin
  <2>2. \A w \in Seq(S) : Len(w) \in Nat /\ DOMAIN w = 1 .. Len(w) /\ \A i \in 1 .. Len(w) : w[i] \in S
    BY LenProperties, ElementOfSeq
  <2> HIDE DEF r, S
  <2> QED
    BY <2>1, <2>2 DEF IsJoin, S
<1>1. /\ m \in Times(q) /\ \A t \in Times(q) : t <= m
      /\ Max(Times(r)) \in Times(r) /\ \A t \in Times(r) : t <= Max(Times(r))
  BY <1>0, MaxOfTimes
<1> HIDE DEF r, m
<1>2. /\ ToSet(q) = {q[i] : i \in 1 .. Len(q)} /\ ToSet(r) = {r[i] : i \in 1 .. Len(q) + Len(e)}
      /\ \A i \in 1 .. Len(q) + Len(e) : i \in 1 .. Len(q) \/ \E k \in 1 .. Len(e) : i = Len(q) + k
      /\ \A i \in 1 .. Len(q) : i \in 1 .. Len(q) + Len(e)
      /\ \A i \in 1 .. Len(e) : Len(q) + i \in 1 .. Len(q) + Len(e)
  <2>1. ASSUME NEW i \in 1 .. Len(q) + Len(e), i \notin 1 .. Len(q) PROVE \E k \in 1 .. Len(e) : i = Len(q) + k
    <3>1. i - Len(q) \in 1 .. Len(e) /\ i = Len(q) + (i - Len(q))
      BY <1>0, <2>1
    <3> QED
      BY <3>1
  <2>2. ToSet(q) = {q[i] : i \in 1 .. Len(q)} /\ ToSet(r) = {r[i] : i \in 1 .. Len(q) + Len(e)}
    BY <1>0 DEF ToSet
  <2> QED
    BY <1>0, <2>1, <2>2
<1>3. Times(q) \subseteq Times(r)
  BY <1>0, <1>2 DEF Times
<1>4. \A t \in Times(r) : t \in Nat
  BY <1>0, <1>2, IterTyped DEF Times
<1>5. m \in Nat /\ Max(Times(r)) \in Nat /\ m <= Max(Times(r))
  BY <1>1, <1>3, <1>4
<1>6. ASSUME Sorted(r) PROVE Sorted(q) /\ \A i \in 1 .. Len(e) : m <= IterOf[e[i]]
  <2>1. Sorted(q)
    <3> SUFFICES ASSUME NEW i \in DOMAIN q, NEW j \in DOMAIN q, i < j PROVE IterOf[q[i]] <= IterOf[q[j]]
      BY DEF Sorted
    <3>1. i \in DOMAIN r /\ j \in DOMAIN r /\ r[i] = q[i] /\ r[j] = q[j]
      BY <1>0, <1>2
    <3> QED
      BY <1>6, <3>1 DEF Sorted
  <2>2. ASSUME NEW i \in 1 .. Len(e) PROVE m <= IterOf[e[i]]
    <3>1. CASE m = 0
      BY <1>0, <3>1, IterTyped
    <3>2. CASE m # 0
      <4>1. PICK k \in 1 .. Len(q) : m = IterOf[q[k]]
        BY <1>1, <1>2, <3>2 DEF Times
      <4>2. k \in DOMAIN r /\ Len(q) + i \in DOMAIN r /\ k < Len(q) + i
        BY <1>0, <1>2
      <4>3. IterOf[r[k]] <= IterOf[r[Len(q) + i]]
        BY <1>6, <4>2 DEF Sorted
      <4> QED
        BY <1>0, <4>1, <4>3
    <3> QED
      BY <3>1, <3>2
  <2> QED
    BY <2>1, <2>2
<1>7. ASSUME Sorted(r), NEW a \in Nat, NEW b \in Nat, b <= m
      PROVE  Those(r, Span(id, a, b)) = Those(q, Span(id, a, b))
  <2> DEFINE P == Span(id, a, b)
  <2>1. \A i \in DOMAIN e : e[i] \notin P
    BY <1>0, <1>5, <1>6, <1>7, IterTyped DEF Span
  <2> HIDE DEF P
  <2>2. Those(e, P) = <<>>
    BY <2>1, ThoseNone
  <2>3. Those(r, P) = Those(q, P) \o Those(e, P)
    BY ThoseConcat DEF r
  <2>4. Those(q, P) \in Seq(S \cap P)
    BY ThoseTyped
  <2>5. Those(q, P) \o <<>> = Those(q, P)
    BY <2>4, ConcatEmptySeq
  <2> QED
    BY <2>2, <2>3, <2>5 DEF P
<1>8. ASSUME Sorted(r), NEW d \in ToSet(r), IterOf[d] < m PROVE d \in ToSet(q)
  <2>1. PICK i \in 1 .. Len(q) + Len(e) : d = r[i]
    BY <1>2
  <2>2. CASE i \in 1 .. Len(q)
    BY <1>0, <1>2, <2>1, <2>2
  <2>3. ASSUME NEW k \in 1 .. Len(e), i = Len(q) + k PROVE FALSE
    <3>1. d = e[k] /\ m <= IterOf[d] /\ IterOf[d] \in Nat
      BY <1>0, <1>6, <1>8, <2>1, <2>3, IterTyped
    <3> QED
      BY <1>5, <1>8, <3>1
  <2> QED
    BY <1>2, <2>2, <2>3
<1> QED
  BY <1>5, <1>6, <1>7, <1>8 DEF Above, r, m

-----------------------------------------------------------------------------
(* The cells of rows                                                         *)

CellList(id) == [d \in Of(id) |-> CellsOf(d)]

LEMMA CellsOfFacts ==
  ASSUME NEW id \in RecordTables, NEW d \in Of(id)
  PROVE  /\ CellsOf(d) \in Seq(CellOf(id))
         /\ DOMAIN CellsOf(d) = 1 .. DataShapes[id]
         /\ \A c \in 1 .. DataShapes[id] : CellsOf(d)[c] = [row |-> d, col |-> c]
<1>1. IdOf[d] = id /\ d \in Data /\ DataShapes[id] \in Nat
  BY RecordsAssumption DEF Of
<1>2. CellsOf(d) \in [1 .. DataShapes[id] -> CellOf(id)]
  BY <1>1 DEF CellsOf, CellOf, Cell
<1>3. CellsOf(d) \in Seq(CellOf(id)) /\ DOMAIN CellsOf(d) = 1 .. DataShapes[id]
  BY <1>1, <1>2, FunctionIsSeq
<1> QED
  BY <1>1, <1>3 DEF CellsOf

LEMMA CellListGives ==
  ASSUME NEW id \in RecordTables
  PROVE  Gives(CellList(id), Of(id), Seq(CellOf(id)))
BY CellsOfFacts DEF CellList, Gives

LEMMA CellsIs ==
  ASSUME NEW id \in RecordTables, NEW q \in Seq(Of(id))
  PROVE  Cells(q) = Each(CellList(id), q)
<1>1. \A i \in DOMAIN q : q[i] \in Of(id)
  BY LenProperties, ElementOfSeq
<1>2. [i \in DOMAIN q |-> CellsOf(q[i])] = [i \in DOMAIN q |-> CellList(id)[q[i]]]
  BY <1>1 DEF CellList
<1> QED
  BY <1>2 DEF Cells, Each, Mapped

LEMMA CellsTyped ==
  ASSUME NEW id \in RecordTables, NEW q \in Seq(Of(id))
  PROVE  Cells(q) \in Seq(CellOf(id))
BY CellsIs, CellListGives, EachTyped

(* The cells of rows from a time on are of that time or later.               *)
LEMMA CellsSince ==
  ASSUME NEW id \in RecordTables, NEW q \in Seq(Of(id)), NEW a \in Nat, NEW b \in Nat, NEW c \in Nat, a <= b
  PROVE  Cells(Those(q, Span(id, b, c))) \in Seq(Since(id, a))
<1> DEFINE S == Of(id) \cap Span(id, b, c)
           F == [d \in S |-> CellsOf(d)]
           r == Those(q, Span(id, b, c))
<1>1. ASSUME NEW d \in S PROVE CellsOf(d) \in Seq(Since(id, a))
  <2>1. /\ d \in Of(id) /\ DataShapes[id] \in Nat /\ DOMAIN CellsOf(d) = 1 .. DataShapes[id]
        /\ CellsOf(d) \in Seq(CellOf(id)) /\ \A i \in 1 .. DataShapes[id] : CellsOf(d)[i] = [row |-> d, col |-> i]
    BY CellsOfFacts, RecordsAssumption
  <2>2. b <= IterOf[d] /\ IterOf[d] \in Nat
    BY <2>1, IterTyped DEF Span
  <2>3. \A i \in 1 .. DataShapes[id] : CellsOf(d)[i] \in Since(id, a)
    <3>1. \A i \in 1 .. DataShapes[id] : CellsOf(d)[i] \in CellOf(id)
      BY <2>1, ElementOfSeq, LenProperties
    <3>2. a <= IterOf[d]
      BY <2>2
    <3>3. ASSUME NEW i \in 1 .. DataShapes[id] PROVE CellsOf(d)[i].row = d
      <4>1. [row |-> d, col |-> i].row = d
        OBVIOUS
      <4> QED
        BY <2>1, <4>1
    <3> QED
      BY <3>1, <3>2, <3>3 DEF Since
  <2>4. CellsOf(d) \in [1 .. DataShapes[id] -> Since(id, a)]
    BY <2>1, <2>3 DEF CellsOf, Of
  <2> QED
    BY <2>1, <2>4, FunctionIsSeq
<1>2. Gives(F, S, Seq(Since(id, a)))
  BY <1>1 DEF Gives
<1>3. r \in Seq(S)
  BY ThoseTyped
<1>4. r \in Seq(S) /\ Cells(r) = Each(F, r)
  <2>1. \A i \in DOMAIN r : r[i] \in S
    BY <1>3, LenProperties, ElementOfSeq
  <2>2. [i \in DOMAIN r |-> CellsOf(r[i])] = [i \in DOMAIN r |-> F[r[i]]]
    BY <2>1
  <2> QED
    BY <1>3, <2>2 DEF Cells, Each, Mapped
<1> HIDE DEF F, S, r
<1>5. Each(F, r) \in Seq(Since(id, a))
  BY <1>2, <1>4, EachTyped
<1> QED
  BY <1>4, <1>5 DEF r

LEMMA CellsConcat ==
  ASSUME NEW id \in RecordTables, NEW s \in Seq(Of(id)), NEW t \in Seq(Of(id))
  PROVE  Cells(s \o t) = Cells(s) \o Cells(t)
<1>1. s \o t \in Seq(Of(id))
  BY ConcatProperties
<1>2. Each(CellList(id), s \o t) = Each(CellList(id), s) \o Each(CellList(id), t)
  BY CellListGives, EachConcat
<1> QED
  BY <1>1, <1>2, CellsIs

LEMMA CellsEmpty == \A id \in RecordTables : Cells(<<>>) = <<>>
<1> TAKE id \in RecordTables
<1>1. <<>> \in Seq(Of(id))
  BY EmptySeq
<1> QED
  BY <1>1, CellsIs, EachEmpty

(* A row of a table with columns has a cell.                                 *)
LEMMA CellsHave ==
  ASSUME NEW id \in RecordTables, DataShapes[id] # 0, NEW q \in Seq(Of(id)), NEW d \in ToSet(q)
  PROVE  \E cell \in ToSet(Cells(q)) : cell.row = d
<1> DEFINE F == CellList(id)
<1>1. PICK i \in DOMAIN q : q[i] = d
  BY DEF ToSet
<1>2. d \in Of(id)
  BY <1>1, LenProperties, ElementOfSeq
<1>3. F[q[i]] = CellsOf(d)
  BY <1>1, <1>2 DEF CellList
<1> HIDE DEF F
<1>4. 1 \in DOMAIN CellsOf(d) /\ CellsOf(d)[1].row = d
  <2>1. DataShapes[id] \in Nat /\ 1 \in 1 .. DataShapes[id]
    BY RecordsAssumption
  <2>2. DOMAIN CellsOf(d) = 1 .. DataShapes[id] /\ CellsOf(d)[1] = [row |-> d, col |-> 1]
    BY <1>2, <2>1, CellsOfFacts
  <2> QED
    BY <2>1, <2>2
<1>5. \E k \in DOMAIN Each(F, q) : Each(F, q)[k] = CellsOf(d)[1]
  <2>1. \A j \in DOMAIN q : \A c \in DOMAIN F[q[j]] : \E k \in DOMAIN Each(F, q) : Each(F, q)[k] = F[q[j]][c]
    BY CellListGives, EachHas DEF F
  <2> QED
    BY <1>1, <1>3, <1>4, <2>1
<1>6. Cells(q) = Each(F, q)
  BY CellsIs DEF F
<1> QED
  BY <1>4, <1>5, <1>6 DEF ToSet

-----------------------------------------------------------------------------
(* The tables only grow                                                      *)

Grown ==
  /\ StoreShaped'
  /\ \A id \in RecordTables : \E e \in Seq(Of(id)) : rows'[id] = rows[id] \o e

LEMMA NothingStored ==
  ASSUME Shaped, UNCHANGED store
  PROVE  Grown
<1>1. ASSUME NEW id \in RecordTables PROVE <<>> \in Seq(Of(id)) /\ rows[id] = rows[id] \o <<>>
  BY ConcatEmptySeq, EmptySeq DEF Shaped, StoreShaped, RestShaped
<1> QED
  BY <1>1 DEF Shaped, StoreShaped, RestShaped, store, Grown

LEMMA AcceptGrows ==
  ASSUME Shaped, NEW d \in Data, Log!Accept(d)
  PROVE  Grown
<1>1. d \in Of(IdOf[d]) /\ IdOf[d] \in RecordTables
  BY DEF Of, Log!Accept
<1>2. Append(pending[IdOf[d]], d) \in Seq(Of(IdOf[d]))
  BY <1>1, AppendProperties DEF Shaped, StoreShaped, RestShaped
<1>3. ASSUME NEW id \in RecordTables PROVE <<>> \in Seq(Of(id)) /\ rows'[id] = rows[id] \o <<>>
  BY ConcatEmptySeq, EmptySeq DEF Shaped, StoreShaped, RestShaped, Log!Accept
<1>4. pending' = [id \in RecordTables |-> pending'[id]] /\ \A id \in RecordTables : pending'[id] \in Seq(Of(id))
  BY <1>1, <1>2 DEF Shaped, StoreShaped, RestShaped, Log!Accept
<1>5. waiting' \subseteq Data /\ rows' = rows
  BY DEF Shaped, StoreShaped, RestShaped, Log!Accept
<1>6. rows' = [id \in RecordTables |-> rows'[id]] /\ \A id \in RecordTables : rows'[id] \in Seq(Of(id))
  BY <1>5 DEF Shaped, StoreShaped, RestShaped
<1> QED
  BY <1>3, <1>4, <1>5, <1>6 DEF Grown, StoreShaped

LEMMA RefuseGrows ==
  ASSUME Shaped, NEW d \in Data, Log!Refuse(d)
  PROVE  Grown
<1>1. ASSUME NEW id \in RecordTables PROVE <<>> \in Seq(Of(id)) /\ rows'[id] = rows[id] \o <<>>
  BY ConcatEmptySeq, EmptySeq DEF Shaped, StoreShaped, RestShaped, Log!Refuse
<1> QED
  BY <1>1 DEF Shaped, StoreShaped, RestShaped, Grown, Log!Refuse

LEMMA InsertGrows ==
  ASSUME Shaped, NEW d \in Data, Log!Insert(d)
  PROVE  Grown
<1>1. d \in Of(IdOf[d]) /\ IdOf[d] \in RecordTables
  BY DEF Of, Log!Insert
<1>2. <<d>> \in Seq(Of(IdOf[d])) /\ Append(rows[IdOf[d]], d) = rows[IdOf[d]] \o <<d>>
  <2> DEFINE S == Of(IdOf[d])
             q == rows[IdOf[d]]
  <2>1. d \in S /\ q \in Seq(S)
    BY <1>1 DEF Shaped, StoreShaped, RestShaped
  <2> HIDE DEF S, q
  <2>2. <<d>> \in Seq(S)
    BY <2>1, EmptySeq, AppendProperties
  <2>3. Append(q, d) = q \o <<d>>
    BY <2>1, AppendIsConcat
  <2> QED
    BY <2>2, <2>3 DEF S, q
<1>3. Append(rows[IdOf[d]], d) \in Seq(Of(IdOf[d]))
  BY <1>1, AppendProperties DEF Shaped, StoreShaped, RestShaped
<1>4. rows' = [id \in RecordTables |-> rows'[id]] /\ \A id \in RecordTables : rows'[id] \in Seq(Of(id))
  BY <1>1, <1>3 DEF Shaped, StoreShaped, RestShaped, Log!Insert
<1>5. ASSUME NEW id \in RecordTables PROVE \E e \in Seq(Of(id)) : rows'[id] = rows[id] \o e
  <2>1. CASE id = IdOf[d]
    <3>1. rows'[id] = rows[id] \o <<d>>
      BY <1>2, <2>1 DEF Shaped, StoreShaped, RestShaped, Log!Insert
    <3> QED
      BY <1>2, <2>1, <3>1
  <2>2. CASE id # IdOf[d]
    <3>1. rows'[id] = rows[id] /\ rows[id] \in Seq(Of(id))
      BY <2>2 DEF Shaped, StoreShaped, RestShaped, Log!Insert
    <3>2. <<>> \in Seq(Of(id)) /\ rows[id] = rows[id] \o <<>>
      BY <3>1, ConcatEmptySeq, EmptySeq
    <3> QED
      BY <3>1, <3>2
  <2> QED
    BY <2>1, <2>2
<1>6. waiting' \subseteq Data /\ pending' = pending
  BY DEF Shaped, StoreShaped, RestShaped, Log!Insert
<1>7. pending' = [id \in RecordTables |-> pending'[id]] /\ \A id \in RecordTables : pending'[id] \in Seq(Of(id))
  BY <1>6 DEF Shaped, StoreShaped, RestShaped
<1> QED
  BY <1>4, <1>5, <1>6, <1>7 DEF Grown, StoreShaped

LEMMA SettleGrows ==
  ASSUME Shaped, NEW id \in RecordTables, Log!Settle(id)
  PROVE  Grown
<1> DEFINE q == pending[id]
           n == Len(q)
<1>0. q \in Seq(Of(id)) /\ n \in Nat /\ \A i \in 1 .. n : q[i] \in Of(id)
  BY LenProperties, ElementOfSeq DEF Shaped, StoreShaped, RestShaped
<1>1. PICK k \in 1 .. n : Log!Commit(id, k) \/ Log!Discard(id, k)
  BY DEF Log!Settle
<1>2. SubSeq(q, 1, k) \in Seq(Of(id))
  <2>1. 1 \in Int /\ k \in Int /\ \A i \in 1 .. k : q[i] \in Of(id)
    BY <1>0, <1>1
  <2> HIDE DEF q
  <2> QED
    BY <2>1, SubSeqProperties
<1>3. SubSeq(q, k + 1, n) \in Seq(Of(id))
  <2>1. k + 1 \in Int /\ n \in Int /\ \A i \in k + 1 .. n : q[i] \in Of(id)
    BY <1>0, <1>1
  <2> HIDE DEF q
  <2> QED
    BY <2>1, SubSeqProperties
<1>4. /\ waiting' = waiting
      /\ pending' = [pending EXCEPT ![id] = SubSeq(q, k + 1, n)]
  BY <1>1 DEF Log!Commit, Log!Discard, Log!Leave
<1>5. pending' = [i \in RecordTables |-> pending'[i]] /\ \A i \in RecordTables : pending'[i] \in Seq(Of(i))
  BY <1>3, <1>4 DEF Shaped, StoreShaped, RestShaped
<1>6. CASE Log!Commit(id, k)
  <2> DEFINE e == SubSeq(q, 1, k)
  <2>1. rows' = [rows EXCEPT ![id] = rows[id] \o e]
    BY <1>6 DEF Log!Commit
  <2> HIDE DEF q, e
  <2>2. rows[id] \o e \in Seq(Of(id))
    BY <1>2, ConcatProperties DEF Shaped, StoreShaped, RestShaped, e
  <2>3. rows' = [i \in RecordTables |-> rows'[i]] /\ \A i \in RecordTables : rows'[i] \in Seq(Of(i))
    BY <2>1, <2>2 DEF Shaped, StoreShaped, RestShaped
  <2>4. ASSUME NEW i \in RecordTables PROVE \E x \in Seq(Of(i)) : rows'[i] = rows[i] \o x
    <3>1. CASE i = id
      <4>1. rows'[i] = rows[i] \o e
        BY <2>1, <3>1 DEF Shaped, StoreShaped, RestShaped
      <4> QED
        BY <1>2, <3>1, <4>1 DEF e
    <3>2. CASE i # id
      <4>1. rows'[i] = rows[i] /\ rows[i] \in Seq(Of(i))
        BY <2>1, <3>2 DEF Shaped, StoreShaped, RestShaped
      <4>2. <<>> \in Seq(Of(i)) /\ rows[i] = rows[i] \o <<>>
        BY <4>1, ConcatEmptySeq, EmptySeq
      <4> QED
        BY <4>1, <4>2
    <3> QED
      BY <3>1, <3>2
  <2> QED
    BY <1>4, <1>5, <2>3, <2>4 DEF Grown, Shaped, StoreShaped, RestShaped
<1>7. CASE Log!Discard(id, k)
  <2>1. rows' = rows
    BY <1>7 DEF Log!Discard
  <2>2. ASSUME NEW i \in RecordTables PROVE <<>> \in Seq(Of(i)) /\ rows'[i] = rows[i] \o <<>>
    BY <2>1, ConcatEmptySeq, EmptySeq DEF Shaped, StoreShaped, RestShaped
  <2> QED
    BY <1>4, <1>5, <2>1, <2>2 DEF Grown, Shaped, StoreShaped, RestShaped
<1> QED
  BY <1>1, <1>6, <1>7

(* So every step does.                                                       *)
LEMMA EveryStepGrows ==
  ASSUME Shaped, [Next]_vars
  PROVE  Grown
<1>1. CASE Store
  BY <1>1, AcceptGrows, InsertGrows, SettleGrows DEF Store
<1>2. ASSUME NEW d \in Commands, Keep(d) PROVE Grown
  BY <1>2, AcceptGrows, RefuseGrows, RecordsAssumption DEF Keep
<1>3. ASSUME UNCHANGED store PROVE Grown
  BY <1>3, NothingStored
<1>4. ASSUME NEW v \in Viewers, Connect(v) \/ Leave(v) \/ Send(v) \/ Close(v) PROVE UNCHANGED store
  BY <1>4 DEF Connect, Leave, Send, Close
<1>5. ASSUME NEW v \in Viewers, NEW id \in RecordTables, Subscribe(v, id) PROVE UNCHANGED store
  BY <1>5 DEF Subscribe, StartCursor, Poll, ReadRange, WriteCell, Polls
<1>6. ASSUME NEW v \in Viewers, NEW id \in RecordTables, HistoryEnd(v, id) \/ HistoryRange(v, id) PROVE UNCHANGED store
  BY <1>6 DEF HistoryEnd, HistoryRange
<1>7. ASSUME NEW d \in Commands, Forward(d) PROVE UNCHANGED store
  BY <1>7 DEF Forward
<1>8. UNCHANGED vars => UNCHANGED store
  BY DEF vars, store
<1> QED
  BY <1>1, <1>2, <1>3, <1>4, <1>5, <1>6, <1>7, <1>8 DEF Next

LEMMA TableFacts ==
  ASSUME Shaped, NEW id \in RecordTables
  PROVE  /\ LastSynt(id) = Max(Times(rows[id]))
         /\ InOrder(id) <=> Sorted(rows[id])
         /\ \A a, b : RowsBetween(id, a, b) = Those(rows[id], Span(id, a, b))
<1>1. rows[id] \in Seq(Of(id))
  BY DEF Shaped, StoreShaped, RestShaped
<1>2. \A a, b : RowsBetween(id, a, b) = Those(rows[id], Span(id, a, b))
  BY <1>1, RowsBetweenIs DEF RowsBetween
<1> QED
  BY <1>2 DEF LastSynt, InOrder, Times, Sorted

(* What a step can change of a table.                                        *)
LEMMA GrownFacts ==
  ASSUME Shaped, Grown, NEW id \in RecordTables
  PROVE  /\ LastSynt(id) \in Nat /\ LastSynt(id)' \in Nat /\ LastSynt(id) <= LastSynt(id)'
         /\ InOrder(id)' =>
              /\ InOrder(id)
              /\ \A a \in Nat, b \in Nat : b <= LastSynt(id) =>
                   Those(rows'[id], Span(id, a, b)) = Those(rows[id], Span(id, a, b))
              /\ \A d \in ToSet(rows'[id]) : IterOf[d] < LastSynt(id) => d \in ToSet(rows[id])
<1>1. rows[id] \in Seq(Of(id)) /\ rows'[id] \in Seq(Of(id))
  BY DEF Shaped, StoreShaped, RestShaped, Grown
<1>2. Above(rows[id], rows'[id], id)
  <2>1. PICK e \in Seq(Of(id)) : rows'[id] = rows[id] \o e
    BY DEF Grown
  <2> QED
    BY <1>1, <2>1, RowsJoin
<1>3. LastSynt(id)' = Max(Times(rows'[id])) /\ (InOrder(id)' <=> Sorted(rows'[id]))
  BY DEF LastSynt, InOrder, Times, Sorted
<1> QED
  BY <1>2, <1>3, TableFacts DEF Above

(* A failed query stays on record.                                           *)
LEMMA FailuresStay ==
  ASSUME [Next]_vars
  PROVE  failed \subseteq failed'
<1>1. CASE Store \/ UNCHANGED vars
  BY <1>1 DEF Store, vars
<1>2. ASSUME NEW v \in Viewers, Connect(v) \/ Leave(v) \/ Send(v) \/ Close(v) PROVE failed \subseteq failed'
  BY <1>2 DEF Connect, Leave, Send, Close
<1>3. ASSUME NEW v \in Viewers, NEW id \in RecordTables, Subscribe(v, id) PROVE failed \subseteq failed'
  BY <1>3 DEF Subscribe, StartCursor, Poll, ReadRange, WriteCell, Queried, Fails, Succeeds
<1>4. ASSUME NEW v \in Viewers, NEW id \in RecordTables, HistoryEnd(v, id) \/ HistoryRange(v, id) PROVE failed \subseteq failed'
  BY <1>4 DEF HistoryEnd, HistoryRange, Queried, Fails, Succeeds
<1>5. ASSUME NEW d \in Commands, Forward(d) \/ Keep(d) PROVE failed \subseteq failed'
  BY <1>5 DEF Forward, Keep
<1> QED
  BY <1>1, <1>2, <1>3, <1>4, <1>5 DEF Next

-----------------------------------------------------------------------------
(* A step that leaves a goroutine, or a reader, alone                        *)

Background == Grown /\ failed \subseteq failed'
Same(v, id) == subscription'[v][id] = subscription[v][id]
SameCursor(v, id) ==
  Started(v, id)' =>
    /\ Started(v, id)
    /\ subscription'[v][id].start = subscription[v][id].start
    /\ subscription'[v][id].lastTime = subscription[v][id].lastTime

LEMMA CursorStays ==
  ASSUME Shaped, Background, NEW v \in Viewers, NEW id \in RecordTables, Same(v, id), Cursor(v, id)
  PROVE  Cursor(v, id)'
<1>1. LastSynt(id) \in Nat /\ LastSynt(id)' \in Nat /\ LastSynt(id) <= LastSynt(id)'
  BY GrownFacts DEF Background
<1>2. LET sub == subscription[v][id] IN sub.start \in Nat /\ sub.lastTime \in Nat /\ sub.currentTime \in Nat
  BY DEF Shaped, StoreShaped, RestShaped, IsSub
<1>3. Live(v, id)' => Live(v, id)
  BY DEF Live, Started, Same, Background
<1> QED
  BY <1>1, <1>2, <1>3 DEF Cursor, Same

(* What the live view has to have after a step.                              *)
RowsNext(v, id) == Those(rows'[id], Span(id, subscription'[v][id].start, subscription'[v][id].lastTime))

LEMMA ExactNext ==
  ASSUME Grown, NEW v \in Viewers, NEW id \in RecordTables,
         Alone(v)' /\ Started(v, id)' /\ InOrder(id)' /\ <<v, id, "live">> \notin failed' =>
           Stream(v, id)' = Cells(RowsNext(v, id))
  PROVE  Exact(v, id)'
<1>1. rows'[id] \in Seq(Of(id))
  BY DEF Grown, StoreShaped
<1>2. PICK q, a, b : q = rows'[id] /\ a = subscription'[v][id].start /\ b = subscription'[v][id].lastTime
  OBVIOUS
<1>3. Kept(q, {i \in DOMAIN q : a <= IterOf[q[i]] /\ IterOf[q[i]] < b}) = Those(q, Span(id, a, b))
  BY <1>1, <1>2, RowsBetweenIs
<1>4. RowsBetween(id, subscription[v][id].start, subscription[v][id].lastTime)' = RowsNext(v, id)
  BY <1>2, <1>3 DEF RowsBetween, RowsNext
<1> QED
  BY <1>4 DEF Exact

LEMMA ExactStays ==
  ASSUME Shaped, Background, NEW v \in Viewers, NEW id \in RecordTables, SameCursor(v, id),
         Alone(v)' => Alone(v) /\ Stream(v, id)' = Stream(v, id), Cursor(v, id), Exact(v, id)
  PROVE  Exact(v, id)'
<1> SUFFICES ASSUME Alone(v)', Started(v, id)', InOrder(id)', <<v, id, "live">> \notin failed'
             PROVE  Stream(v, id)' = Cells(RowsNext(v, id))
  BY ExactNext DEF Background
<1>0. PICK a, b : a = subscription[v][id].start /\ b = subscription[v][id].lastTime
  OBVIOUS
<1>1. a \in Nat /\ b \in Nat /\ Live(v, id) /\ b <= LastSynt(id)
  BY <1>0 DEF Shaped, StoreShaped, RestShaped, IsSub, Cursor, Live, SameCursor, Background
<1>2. InOrder(id) /\ Those(rows'[id], Span(id, a, b)) = Those(rows[id], Span(id, a, b))
  BY <1>1, GrownFacts DEF Background
<1>3. Stream(v, id) = Cells(Those(rows[id], Span(id, a, b)))
  BY <1>0, <1>1, <1>2, TableFacts DEF Exact, Live
<1>4. RowsNext(v, id) = Those(rows[id], Span(id, a, b))
  BY <1>0, <1>2 DEF SameCursor, RowsNext
<1> QED
  BY <1>3, <1>4

LEMMA RecentStays ==
  ASSUME Background, NEW v \in Viewers, NEW id \in RecordTables, SameCursor(v, id),
         Alone(v)' => Alone(v) /\ Stream(v, id)' = Stream(v, id), Recent(v, id)
  PROVE  Recent(v, id)'
<1> SUFFICES ASSUME Alone(v)', Live(v, id)' PROVE Stream(v, id)' \in Seq(Since(id, subscription'[v][id].start))
  BY DEF Recent, Since, CellOf, Cell
<1>1. Live(v, id) /\ subscription'[v][id].start = subscription[v][id].start
  BY DEF Live, SameCursor, Background
<1> QED
  BY <1>1 DEF Recent

LEMMA ReaderStays ==
  ASSUME Shaped, Background, NEW v \in Viewers, NEW id \in RecordTables, page'[v][id] = page[v][id],
         Started(v, id) => Started(v, id)' /\ subscription'[v][id].start = subscription[v][id].start,
         Reader(v, id)
  PROVE  Reader(v, id)'
<1> DEFINE view == page[v][id]
<1>1. LastSynt(id) \in Nat /\ LastSynt(id)' \in Nat /\ LastSynt(id) <= LastSynt(id)' /\ view.end \in Nat
  BY GrownFacts DEF Background, Shaped, StoreShaped, RestShaped, IsPage
<1>2. view.at \in {"asked", "answered"} /\ view.live => Started(v, id)'
  BY DEF Reader
<1>3. ASSUME view.at \in {"asked", "answered"}, <<v, id, "history">> \notin failed'
      PROVE  /\ view.end <= LastSynt(id)'
             /\ view.live /\ Live(v, id)' => subscription'[v][id].start <= view.end
             /\ view.at = "answered" /\ InOrder(id)' => \A d \in ToSet(rows'[id]) : IterOf[d] < view.end => d \in view.found
  <2>1. <<v, id, "history">> \notin failed /\ (Live(v, id)' => <<v, id, "live">> \notin failed)
    BY <1>3 DEF Background, Live
  <2>2. view.end <= LastSynt(id)
    BY <1>3, <2>1 DEF Reader
  <2>3. view.live /\ Live(v, id)' => subscription'[v][id].start <= view.end
    BY <1>3, <2>1 DEF Reader, Live
  <2>4. ASSUME view.at = "answered", InOrder(id)', NEW d \in ToSet(rows'[id]), IterOf[d] < view.end
        PROVE  d \in view.found
    <3>1. d \in Of(id)
      <4>1. rows'[id] \in Seq(Of(id))
        BY DEF Background, Grown, StoreShaped
      <4> QED
        BY <2>4, <4>1, LenProperties, ElementOfSeq DEF ToSet
    <3>2. IterOf[d] < LastSynt(id)
      BY <1>1, <2>2, <2>4, <3>1, IterTyped
    <3>3. d \in ToSet(rows[id]) /\ InOrder(id)
      BY <2>4, <3>2, GrownFacts DEF Background
    <3> QED
      BY <1>3, <2>1, <2>4, <3>3 DEF Reader
  <2> QED
    BY <1>1, <2>2, <2>3, <2>4
<1>4. page'[v][id] = view
  OBVIOUS
<1> QED
  BY <1>2, <1>3, <1>4 DEF Reader

LEMMA PairStays ==
  ASSUME Shaped, Background, NEW v \in Viewers, NEW id \in RecordTables, Same(v, id), page'[v][id] = page[v][id],
         Alone(v)' => Alone(v) /\ Stream(v, id)' = Stream(v, id), PairInv(v, id)
  PROVE  PairInv(v, id)'
<1>1. SameCursor(v, id)
  BY DEF Same, SameCursor, Started
<1>2. Cursor(v, id)' /\ Exact(v, id)' /\ Recent(v, id)'
  BY <1>1, CursorStays, ExactStays, RecentStays DEF PairInv
<1>3. Fresh(v, id)'
  BY DEF PairInv, Fresh, Same, Started
<1>4. Reader(v, id)'
  <2>1. Started(v, id) => Started(v, id)' /\ subscription'[v][id].start = subscription[v][id].start
    BY DEF Same, Started
  <2> QED
    BY <2>1, ReaderStays DEF PairInv
<1> QED
  BY <1>2, <1>3, <1>4 DEF PairInv

-----------------------------------------------------------------------------
(* What a viewer has of a table                                              *)

LEMMA OutIs ==
  ASSUME NEW id, NEW out \in Seq(Cell)
  PROVE  Kept(out, {i \in DOMAIN out : IdOf[out[i].row] = id}) = Those(out, CellOf(id))
<1>1. \A i \in DOMAIN out : out[i] \in Cell
  BY LenProperties, ElementOfSeq
<1>2. {i \in DOMAIN out : IdOf[out[i].row] = id} = {i \in DOMAIN out : out[i] \in CellOf(id)}
  BY <1>1 DEF CellOf
<1> QED
  BY <1>2 DEF Those

(* The first of one list moves to the end of the list before it.             *)
LEMMA FirstMoves ==
  ASSUME NEW S, NEW s \in Seq(S), NEW t \in Seq(S), t # <<>>
  PROVE  /\ Head(t) \in S /\ Tail(t) \in Seq(S)
         /\ Append(s, Head(t)) \o Tail(t) = s \o t
<1> DEFINE h == Head(t)
           r == Tail(t)
<1>1. h \in S /\ r \in Seq(S) /\ t = <<h>> \o r
  <2>1. h \in S /\ r \in Seq(S) /\ Len(r) = Len(t) - 1 /\ \A i \in 1 .. Len(r) : r[i] = t[i + 1]
    BY HeadTailProperties
  <2>2. h = t[1] /\ Len(t) \in Nat \ {0}
    BY EmptySeq
  <2> HIDE DEF h, r
  <2>3. <<h>> \in Seq(S) /\ Len(<<h>>) = 1 /\ <<h>>[1] = h
    BY <2>1, EmptySeq, AppendProperties
  <2>4. IsJoin(S, <<h>> \o r, <<h>>, r)
    BY <2>1, <2>3, JoinIsJoin
  <2> DEFINE w == <<h>> \o r
  <2>5. w \in Seq(S) /\ Len(w) = Len(t) /\ w[1] = t[1] /\ \A i \in 1 .. Len(r) : w[1 + i] = t[i + 1]
    BY <2>1, <2>2, <2>3, <2>4 DEF IsJoin
  <2> HIDE DEF w
  <2>6. \A i \in 1 .. Len(w) : w[i] = t[i]
    <3> TAKE i \in 1 .. Len(w)
    <3>1. i = 1 \/ (i - 1 \in 1 .. Len(r) /\ 1 + (i - 1) = i /\ (i - 1) + 1 = i)
      BY <2>1, <2>2, <2>5
    <3> QED
      BY <2>5, <3>1
  <2>7. w = t
    BY <2>5, <2>6, SeqEqual
  <2> QED
    BY <2>1, <2>7 DEF w
<1> HIDE DEF h, r
<1>2. <<h>> \in Seq(S) /\ Append(s, h) = s \o <<h>>
  BY <1>1, EmptySeq, AppendProperties, AppendIsConcat
<1>3. (s \o <<h>>) \o r = s \o (<<h>> \o r)
  BY <1>1, <1>2, ConcatAssociative
<1> QED
  BY <1>1, <1>2, <1>3 DEF h, r

LEMMA StreamIs ==
  ASSUME Shaped, NEW v \in Viewers, NEW id \in RecordTables
  PROVE  /\ shown[v] \o bufferOutput \in Seq(Cell)
         /\ Stream(v, id) = Those(shown[v] \o bufferOutput, CellOf(id)) \o subscription[v][id].todo
<1>1. shown[v] \o bufferOutput \in Seq(Cell)
  BY ConcatProperties DEF Shaped, StoreShaped, RestShaped
<1>2. PICK out : out = shown[v] \o bufferOutput
  OBVIOUS
<1>3. Kept(out, {i \in DOMAIN out : IdOf[out[i].row] = id}) = Those(out, CellOf(id))
  BY <1>1, <1>2, OutIs
<1> QED
  BY <1>1, <1>2, <1>3 DEF Stream

(* The same after a step.                                                    *)
LEMMA StreamNext ==
  ASSUME NEW v \in Viewers, NEW id \in RecordTables, shown'[v] \o bufferOutput' \in Seq(Cell)
  PROVE  Stream(v, id)' = Those(shown'[v] \o bufferOutput', CellOf(id)) \o subscription'[v][id].todo
<1>1. PICK out : out = shown'[v] \o bufferOutput'
  OBVIOUS
<1>2. Kept(out, {i \in DOMAIN out : IdOf[out[i].row] = id}) = Those(out, CellOf(id))
  BY <1>1, OutIs
<1> QED
  BY <1>1, <1>2 DEF Stream

LEMMA StreamStays ==
  ASSUME NEW v \in Viewers, NEW id \in RecordTables,
         shown'[v] \o bufferOutput' = shown[v] \o bufferOutput,
         subscription'[v][id].todo = subscription[v][id].todo
  PROVE  Stream(v, id)' = Stream(v, id)
BY DEF Stream

-----------------------------------------------------------------------------
(* Steps that no goroutine takes                                             *)

(* Nothing but tables, calls and records of failures changes.                *)
LEMMA CallsOnly ==
  ASSUME WebInv, Background, UNCHANGED <<socket, subscription, bufferOutput, page, shown>>
  PROVE  WebInv'
<1>1. Shaped' /\ Quiet'
  BY DEF WebInv, Background, Grown, Shaped, RestShaped, Quiet, Unmet
<1>2. ASSUME NEW v \in Viewers, NEW id \in RecordTables PROVE PairInv(v, id)'
  <2>1. Alone(v)' => Alone(v)
    BY DEF Alone
  <2>2. Stream(v, id)' = Stream(v, id)
    BY StreamStays
  <2> QED
    BY <2>1, <2>2, PairStays DEF WebInv, Same
<1> QED
  BY <1>1, <1>2 DEF WebInv

LEMMA NewSub ==
  ASSUME NEW id, NEW at, at # "write", NEW start \in Nat, NEW last \in Nat, NEW current \in Nat
  PROVE  IsSub([at |-> at, start |-> start, lastTime |-> last, currentTime |-> current, todo |-> <<>>], id)
<1>1. <<>> \in Seq(CellOf(id))
  BY EmptySeq
<1> QED
  BY <1>1 DEF IsSub

LEMMA ConnectKeeps ==
  ASSUME WebInv, Background, NEW u \in Viewers, Connect(u)
  PROVE  WebInv'
<1>0. /\ Shaped /\ Quiet /\ StoreShaped' /\ socket[u] = "absent"
      /\ UNCHANGED <<bufferOutput, page, shown>>
      /\ socket' = [socket EXCEPT ![u] = "open"]
      /\ subscription' = [subscription EXCEPT ![u] = [id \in RecordTables |-> Goroutine("start", 0)]]
  BY DEF WebInv, Background, Grown, Connect, calls
<1>1. /\ socket' = [v \in Viewers |-> socket'[v]] /\ socket'[u] = "open"
      /\ \A v \in Viewers : v # u => socket'[v] = socket[v]
  BY <1>0 DEF Shaped, StoreShaped, RestShaped
<1>2. /\ subscription' = [v \in Viewers |-> [id \in RecordTables |-> subscription'[v][id]]]
      /\ \A v \in Viewers, id \in RecordTables : v # u => subscription'[v][id] = subscription[v][id]
      /\ \A id \in RecordTables : subscription'[u][id] = [at |-> "start", start |-> 0, lastTime |-> 0, currentTime |-> 0, todo |-> <<>>]
  BY <1>0, ZenonT(30) DEF Shaped, StoreShaped, RestShaped, Goroutine
<1>3. Shaped'
  <2>1. ASSUME NEW v \in Viewers, NEW id \in RecordTables PROVE IsSub(subscription'[v][id], id)
    <3>1. CASE v = u
      <4>1. IsSub([at |-> "start", start |-> 0, lastTime |-> 0, currentTime |-> 0, todo |-> <<>>], id)
        BY NewSub
      <4> QED
        BY <1>2, <3>1, <4>1
    <3>2. CASE v # u
      BY <1>0, <1>2, <3>2 DEF Shaped, StoreShaped, RestShaped
    <3> QED
      BY <3>1, <3>2
  <2>2. page' = page /\ bufferOutput' = bufferOutput /\ shown' = shown
    BY <1>0
  <2>3. /\ page' = [v \in Viewers |-> [id \in RecordTables |-> page'[v][id]]]
        /\ \A v \in Viewers, id \in RecordTables : IsPage(page'[v][id])
        /\ bufferOutput' \in Seq(Cell)
        /\ shown' = [v \in Viewers |-> shown'[v]] /\ \A v \in Viewers : shown'[v] \in Seq(Cell)
    BY <1>0, <2>2 DEF Shaped, RestShaped
  <2>4. RestShaped'
    BY <1>1, <1>2, <2>1, <2>3 DEF RestShaped
  <2> QED
    BY <1>0, <2>4 DEF Shaped
<1>4. Quiet'
  <2>1. \A v \in Viewers : Unmet(v)' => v # u /\ Unmet(v)
    BY <1>1 DEF Unmet
  <2>2. ~Unmet(u)'
    BY <1>1 DEF Unmet
  <2> QED
    BY <1>0, <1>2, <2>1, <2>2 DEF Quiet
<1>5. ASSUME NEW v \in Viewers, NEW id \in RecordTables, v # u PROVE PairInv(v, id)'
  <2>1. ~Alone(v)'
    BY <1>1, <1>5 DEF Alone
  <2> QED
    BY <1>0, <1>2, <1>5, <2>1, PairStays DEF WebInv, Same
<1>6. ASSUME NEW id \in RecordTables PROVE PairInv(u, id)'
  <2>1. ~Started(u, id)' /\ ~Started(u, id)
    <3>1. subscription[u][id].at = "off"
      BY <1>0 DEF Quiet, Unmet
    <3> QED
      BY <1>2, <3>1 DEF Started
  <2>2. Cursor(u, id)' /\ Exact(u, id)' /\ Recent(u, id)'
    BY <2>1 DEF Cursor, Exact, Recent, Live
  <2>3. Reader(u, id)'
    BY <1>0, <2>1, ReaderStays DEF WebInv, PairInv
  <2>4. Fresh(u, id)'
    <3> SUFFICES ASSUME Alone(u)' PROVE Stream(u, id)' = <<>>
      BY DEF Fresh
    <3>1. \A v \in Viewers : Unmet(v)
      BY <1>0, <1>1 DEF Alone, Unmet
    <3>2. shown'[u] = <<>> /\ bufferOutput' = <<>>
      BY <1>0, <3>1 DEF Quiet
    <3>3. <<>> \in Seq(Cell) /\ <<>> \o <<>> = <<>>
      BY EmptySeq, ConcatEmptySeq
    <3>4. shown'[u] \o bufferOutput' = <<>>
      BY <3>2, <3>3
    <3>5. Stream(u, id)' = Those(shown'[u] \o bufferOutput', CellOf(id)) \o subscription'[u][id].todo
      BY <3>3, <3>4, StreamNext
    <3>6. subscription'[u][id].todo = <<>>
      BY <1>2
    <3> QED
      BY <3>3, <3>4, <3>5, <3>6, ThoseEmpty
  <2> QED
    BY <2>2, <2>3, <2>4 DEF PairInv
<1> QED
  BY <1>3, <1>4, <1>5, <1>6 DEF WebInv

(* When a client leaves, nobody has been alone; nor afterwards.              *)
LEMMA LeaveKeeps ==
  ASSUME WebInv, Background, NEW u \in Viewers, Leave(u) \/ Close(u)
  PROVE  WebInv'
<1>0. /\ Shaped /\ Quiet /\ StoreShaped'
      /\ UNCHANGED <<subscription, bufferOutput, page, shown>>
      /\ socket' = [v \in Viewers |-> socket'[v]] /\ socket'[u] \in {"left", "returned"} /\ ~Unmet(u)
      /\ \A v \in Viewers : v # u => socket'[v] = socket[v]
  BY DEF WebInv, Background, Grown, Leave, Close, calls, Shaped, RestShaped, Unmet
<1>1. Shaped'
  BY <1>0 DEF Shaped, RestShaped
<1>2. Quiet'
  BY <1>0 DEF Quiet, Unmet
<1>3. ASSUME NEW v \in Viewers, NEW id \in RecordTables PROVE PairInv(v, id)'
  <2>1. ~Alone(v)'
    BY <1>0 DEF Alone
  <2> QED
    BY <1>0, <2>1, PairStays DEF WebInv, Same
<1> QED
  BY <1>1, <1>2, <1>3 DEF WebInv

LEMMA SendKeeps ==
  ASSUME WebInv, Background, NEW u \in Viewers, Send(u)
  PROVE  WebInv'
<1>0. /\ Shaped /\ Quiet /\ StoreShaped' /\ ~Unmet(u) /\ bufferOutput # <<>>
      /\ UNCHANGED <<subscription, socket, page>>
      /\ bufferOutput' = Tail(bufferOutput)
      /\ shown' = IF Alone(u) THEN [shown EXCEPT ![u] = Append(shown[u], Head(bufferOutput))] ELSE shown
  BY DEF WebInv, Background, Grown, Send, calls, Unmet
<1>1. bufferOutput \in Seq(Cell) /\ shown[u] \in Seq(Cell)
  BY <1>0 DEF Shaped, StoreShaped, RestShaped
<1>2. /\ Head(bufferOutput) \in Cell /\ Tail(bufferOutput) \in Seq(Cell)
      /\ Append(shown[u], Head(bufferOutput)) \o Tail(bufferOutput) = shown[u] \o bufferOutput
  BY <1>0, <1>1, FirstMoves
<1>3. Append(shown[u], Head(bufferOutput)) \in Seq(Cell)
  BY <1>1, <1>2, AppendProperties
<1>4. /\ shown' = [v \in Viewers |-> shown'[v]] /\ \A v \in Viewers : shown'[v] \in Seq(Cell)
      /\ \A v \in Viewers : v # u => shown'[v] = shown[v]
      /\ Alone(u) => shown'[u] = Append(shown[u], Head(bufferOutput))
  BY <1>0, <1>3 DEF Shaped, StoreShaped, RestShaped
<1>5. Shaped'
  BY <1>0, <1>2, <1>4 DEF Shaped, RestShaped
<1>6. Quiet'
  BY <1>0, <1>4 DEF Quiet, Unmet
<1>7. ASSUME NEW v \in Viewers, NEW id \in RecordTables PROVE PairInv(v, id)'
  <2>1. ASSUME Alone(v)' PROVE Alone(v) /\ Stream(v, id)' = Stream(v, id)
    <3>1. Alone(v) /\ v = u
      BY <1>0, <2>1 DEF Alone, Unmet
    <3>2. shown'[v] \o bufferOutput' = shown[v] \o bufferOutput
      BY <1>0, <1>2, <1>4, <3>1
    <3> QED
      BY <1>0, <3>1, <3>2, StreamStays
  <2> QED
    BY <1>0, <2>1, PairStays DEF WebInv, Same
<1> QED
  BY <1>5, <1>6, <1>7 DEF WebInv

-----------------------------------------------------------------------------
(* Steps of the goroutine of viewer u and table k                            *)

Polled(u, k) ==
  /\ ~Unmet(u)
  /\ subscription' = [subscription EXCEPT ![u][k] = subscription'[u][k]]
  /\ UNCHANGED <<socket, page, shown>>

LEMMA PollsIs ==
  ASSUME Shaped, Quiet, NEW u \in Viewers, NEW k \in RecordTables, NEW sub, Polls(u, k, sub),
         subscription[u][k].at # "off"
  PROVE  Polled(u, k) /\ subscription'[u][k] = sub
<1>1. subscription'[u][k] = sub
  BY DEF Polls, Shaped, StoreShaped, RestShaped
<1>2. ~Unmet(u)
  BY DEF Quiet
<1> QED
  BY <1>1, <1>2 DEF Polls, Polled, calls

(* It changes its own part, and the channel at most by a cell of its table.  *)
LEMMA GoroutineKeeps ==
  ASSUME WebInv, Background, NEW u \in Viewers, NEW k \in RecordTables, Polled(u, k),
         IsSub(subscription'[u][k], k),
         \/ bufferOutput' = bufferOutput
         \/ \E cell \in CellOf(k) : bufferOutput' = Append(bufferOutput, cell),
         Cursor(u, k)', Exact(u, k)', Recent(u, k)', Started(u, k)',
         Started(u, k) => subscription'[u][k].start = subscription[u][k].start
  PROVE  WebInv'
<1>0. /\ Shaped /\ Quiet /\ StoreShaped' /\ ~Unmet(u) /\ page' = page /\ shown' = shown /\ socket' = socket
      /\ subscription' = [v \in Viewers |-> [id \in RecordTables |-> subscription'[v][id]]]
      /\ \A v \in Viewers, id \in RecordTables : v # u \/ id # k => subscription'[v][id] = subscription[v][id]
      /\ bufferOutput \in Seq(Cell)
  <2>1. Shaped /\ Quiet /\ StoreShaped' /\ ~Unmet(u) /\ page' = page /\ shown' = shown /\ socket' = socket
    BY DEF WebInv, Background, Grown, Polled
  <2>2. /\ subscription = [v \in Viewers |-> [id \in RecordTables |-> subscription[v][id]]]
        /\ bufferOutput \in Seq(Cell)
    BY <2>1 DEF Shaped, RestShaped
  <2>3. PICK sub : subscription' = [subscription EXCEPT ![u][k] = sub]
    BY DEF Polled
  <2>4. subscription' = [v \in Viewers |-> [id \in RecordTables |-> subscription'[v][id]]]
    BY <2>2, <2>3
  <2>5. \A v \in Viewers, id \in RecordTables : v # u \/ id # k => subscription'[v][id] = subscription[v][id]
    BY <2>2, <2>3
  <2> QED
    BY <2>1, <2>2, <2>4, <2>5
<1>1. bufferOutput' \in Seq(Cell)
  BY <1>0, AppendProperties DEF CellOf
<1>2. Shaped'
  <2>1. ASSUME NEW v \in Viewers, NEW id \in RecordTables PROVE IsSub(subscription'[v][id], id)
    BY <1>0 DEF Shaped, StoreShaped, RestShaped
  <2>2. /\ page' = [v \in Viewers |-> [id \in RecordTables |-> page'[v][id]]]
        /\ \A v \in Viewers, id \in RecordTables : IsPage(page'[v][id])
        /\ shown' = [v \in Viewers |-> shown'[v]] /\ \A v \in Viewers : shown'[v] \in Seq(Cell)
        /\ socket' = [v \in Viewers |-> socket'[v]]
    BY <1>0 DEF Shaped, RestShaped
  <2>3. RestShaped'
    BY <1>0, <1>1, <2>1, <2>2 DEF RestShaped
  <2> QED
    BY <1>0, <2>3 DEF Shaped
<1>3. Quiet'
  BY <1>0 DEF Quiet, Unmet
<1>4. ASSUME NEW v \in Viewers, NEW id \in RecordTables, v # u \/ id # k PROVE PairInv(v, id)'
  <2>1. Same(v, id) /\ page'[v][id] = page[v][id]
    BY <1>0, <1>4 DEF Same
  <2>2. ASSUME Alone(v)' PROVE Alone(v) /\ Stream(v, id)' = Stream(v, id)
    <3>1. Alone(v) /\ v = u /\ id # k
      BY <1>0, <1>4, <2>2 DEF Alone, Unmet
    <3>2. CASE bufferOutput' = bufferOutput
      BY <1>0, <2>1, <3>1, <3>2, StreamStays DEF Same
    <3>3. ASSUME NEW cell \in CellOf(k), bufferOutput' = Append(bufferOutput, cell) PROVE Stream(v, id)' = Stream(v, id)
      <4> DEFINE out == shown[v] \o bufferOutput
      <4>1. shown[v] \in Seq(Cell) /\ cell \in Cell /\ cell \notin CellOf(id)
        BY <1>0, <3>1, <3>3 DEF Shaped, StoreShaped, RestShaped, CellOf
      <4>2. shown'[v] \o bufferOutput' = Append(out, cell)
        <5>1. PICK q, b : q = shown[v] /\ b = bufferOutput
          OBVIOUS
        <5>2. q \in Seq(Cell) /\ b \in Seq(Cell) /\ cell \in Cell
          BY <1>0, <4>1, <5>1
        <5>3. q \o Append(b, cell) = Append(q \o b, cell)
          BY <5>2, ConcatAppend
        <5> QED
          BY <1>0, <3>3, <5>1, <5>3
      <4>3. out \in Seq(Cell) /\ Stream(v, id) = Those(out, CellOf(id)) \o subscription[v][id].todo
        BY <1>0, StreamIs
      <4> HIDE DEF out
      <4>4. Append(out, cell) \in Seq(Cell)
        BY <4>1, <4>3, AppendProperties
      <4>5. Stream(v, id)' = Those(Append(out, cell), CellOf(id)) \o subscription'[v][id].todo
        BY <4>2, <4>4, StreamNext
      <4>6. Those(Append(out, cell), CellOf(id)) = Those(out, CellOf(id))
        BY <4>1, <4>3, ThoseAppend
      <4> QED
        BY <2>1, <4>3, <4>5, <4>6 DEF Same
    <3> QED
      BY <3>1, <3>2, <3>3
  <2> QED
    BY <1>0, <2>1, <2>2, PairStays DEF WebInv
<1>5. PairInv(u, k)'
  <2>1. Fresh(u, k)'
    BY DEF Fresh
  <2>2. Reader(u, k)'
    BY <1>0, ReaderStays DEF WebInv, PairInv
  <2> QED
    BY <2>1, <2>2 DEF PairInv
<1> QED
  BY <1>2, <1>3, <1>4, <1>5 DEF WebInv

(* What is already there of the table, and what follows.                     *)
LEMMA NothingToDo ==
  ASSUME Shaped, NEW u \in Viewers, NEW k \in RecordTables, subscription[u][k].at # "write"
  PROVE  /\ subscription[u][k].todo = <<>>
         /\ shown[u] \o bufferOutput \in Seq(Cell)
         /\ Those(shown[u] \o bufferOutput, CellOf(k)) \in Seq(Cell)
         /\ Stream(u, k) = Those(shown[u] \o bufferOutput, CellOf(k))
<1>1. subscription[u][k].todo = <<>>
  BY DEF Shaped, StoreShaped, RestShaped, IsSub
<1>2. /\ shown[u] \o bufferOutput \in Seq(Cell)
      /\ Stream(u, k) = Those(shown[u] \o bufferOutput, CellOf(k)) \o <<>>
  BY <1>1, StreamIs
<1>3. Those(shown[u] \o bufferOutput, CellOf(k)) \in Seq(Cell)
  <2>1. Those(shown[u] \o bufferOutput, CellOf(k)) \in Seq(Cell \cap CellOf(k))
    BY <1>2, ThoseTyped
  <2>2. \A q \in Seq(Cell \cap CellOf(k)) : q \in Seq(Cell)
    BY SeqMonotonic
  <2> QED
    BY <2>1, <2>2
<1> QED
  BY <1>1, <1>2, <1>3, ConcatEmptySeq

LEMMA StartCursorKeeps ==
  ASSUME WebInv, Background, NEW u \in Viewers, NEW k \in RecordTables, StartCursor(u, k)
  PROVE  WebInv'
<1>0. Shaped /\ Quiet /\ PairInv(u, k) /\ subscription[u][k].at = "start" /\ bufferOutput' = bufferOutput
  BY DEF WebInv, StartCursor
<1>1. PICK t \in {0, LastSynt(k)} :
        /\ Queried(<<u, k, "live">>, k, t)
        /\ Polls(u, k, Goroutine("poll", t))
  BY DEF StartCursor
<1>2. /\ Polled(u, k)
      /\ subscription'[u][k] = [at |-> "poll", start |-> t, lastTime |-> t, currentTime |-> 0, todo |-> <<>>]
  BY <1>0, <1>1, PollsIs DEF Goroutine
<1>3. LastSynt(k) \in Nat /\ LastSynt(k)' \in Nat /\ LastSynt(k) <= LastSynt(k)' /\ t \in Nat
  BY <1>0, GrownFacts DEF Background
<1>4. ~Started(u, k) /\ Started(u, k)'
  BY <1>0, <1>2 DEF Started
<1>5. Cursor(u, k)'
  <2>1. <<u, k, "live">> \notin failed' => t = LastSynt(k)
    BY <1>1 DEF Queried, Fails
  <2> QED
    BY <1>2, <1>3, <2>1 DEF Cursor, Live
<1>6. Exact(u, k)'
  <2>1. ASSUME Alone(u)' PROVE Stream(u, k)' = Cells(RowsNext(u, k))
    <3>1. Alone(u)
      BY <1>2, <2>1 DEF Polled, Alone
    <3>2. Stream(u, k) = <<>> /\ subscription[u][k].todo = <<>>
      BY <1>0, <1>4, <3>1, NothingToDo DEF PairInv, Fresh
    <3>3. Stream(u, k)' = Stream(u, k)
      BY <1>0, <1>2, <3>2, StreamStays DEF Polled
    <3>4. RowsNext(u, k) = <<>>
      <4>1. rows'[k] \in Seq(Of(k)) /\ \A i \in DOMAIN rows'[k] : rows'[k][i] \notin Span(k, t, t)
        <5>1. rows'[k] \in Seq(Of(k))
          BY DEF Background, Grown, StoreShaped
        <5>2. \A d : d \notin Span(k, t, t)
          BY <1>3, IterTyped DEF Span
        <5> QED
          BY <5>1, <5>2
      <4> QED
        BY <1>2, <4>1, ThoseNone DEF RowsNext
    <3> QED
      BY <3>2, <3>3, <3>4, CellsEmpty
  <2> QED
    BY <2>1, ExactNext DEF Background
<1>7. IsSub(subscription'[u][k], k)
  <2>1. IsSub([at |-> "poll", start |-> t, lastTime |-> t, currentTime |-> 0, todo |-> <<>>], k)
    BY <1>3, NewSub
  <2> QED
    BY <1>2, <2>1
<1>8. Recent(u, k)'
  <2> SUFFICES ASSUME Alone(u)' PROVE Stream(u, k)' \in Seq(Since(k, t))
    BY <1>2 DEF Recent, Since, CellOf, Cell
  <2>1. Stream(u, k) = <<>> /\ subscription[u][k].todo = <<>>
    BY <1>0, <1>2, <1>4, NothingToDo DEF PairInv, Fresh, Polled, Alone
  <2>2. Stream(u, k)' = Stream(u, k)
    BY <1>0, <1>2, <2>1, StreamStays DEF Polled
  <2> QED
    BY <2>1, <2>2, EmptySeq
<1> QED
  BY <1>0, <1>2, <1>4, <1>5, <1>6, <1>7, <1>8, GoroutineKeeps

(* The record of a goroutine, written out.                                   *)
Written(at, start, last, current, todo) ==
  [at |-> at, start |-> start, lastTime |-> last, currentTime |-> current, todo |-> todo]

LEMMA OneField ==
  ASSUME NEW a, NEW s, NEW l, NEW c, NEW q
  PROVE  /\ \A x : [Written(a, s, l, c, q) EXCEPT !.at = x] = Written(x, s, l, c, q)
         /\ \A x : [Written(a, s, l, c, q) EXCEPT !.lastTime = x] = Written(a, s, x, c, q)
         /\ \A x : [Written(a, s, l, c, q) EXCEPT !.currentTime = x] = Written(a, s, l, x, q)
         /\ \A x : [Written(a, s, l, c, q) EXCEPT !.todo = x] = Written(a, s, l, c, x)
<1>1. ASSUME NEW x PROVE [Written(a, s, l, c, q) EXCEPT !.at = x] = Written(x, s, l, c, q)
  BY DEF Written
<1>2. ASSUME NEW x PROVE [Written(a, s, l, c, q) EXCEPT !.lastTime = x] = Written(a, s, x, c, q)
  BY DEF Written
<1>3. ASSUME NEW x PROVE [Written(a, s, l, c, q) EXCEPT !.currentTime = x] = Written(a, s, l, x, q)
  BY DEF Written
<1>4. ASSUME NEW x PROVE [Written(a, s, l, c, q) EXCEPT !.todo = x] = Written(a, s, l, c, x)
  BY DEF Written
<1> QED
  BY <1>1, <1>2, <1>3, <1>4

LEMMA SubChanges ==
  ASSUME NEW sub, NEW id, IsSub(sub, id)
  PROVE  /\ \A a : [sub EXCEPT !.at = a] = Written(a, sub.start, sub.lastTime, sub.currentTime, sub.todo)
         /\ \A a, t : [sub EXCEPT !.at = a, !.currentTime = t] = Written(a, sub.start, sub.lastTime, t, sub.todo)
         /\ \A q, t : [sub EXCEPT !.todo = q, !.lastTime = t] = Written(sub.at, sub.start, t, sub.currentTime, q)
         /\ \A q : [sub EXCEPT !.todo = q] = Written(sub.at, sub.start, sub.lastTime, sub.currentTime, q)
<1> DEFINE a0 == sub.at  s0 == sub.start  l0 == sub.lastTime  c0 == sub.currentTime  q0 == sub.todo
<1>1. sub = Written(a0, s0, l0, c0, q0)
  BY DEF IsSub, Written
<1> HIDE DEF a0, s0, l0, c0, q0
<1>2. ASSUME NEW a, NEW t PROVE [sub EXCEPT !.at = a, !.currentTime = t] = Written(a, s0, l0, t, q0)
  <2>1. [sub EXCEPT !.at = a, !.currentTime = t] = [[sub EXCEPT !.at = a] EXCEPT !.currentTime = t]
    BY SMT
  <2>2. [sub EXCEPT !.at = a] = Written(a, s0, l0, c0, q0)
    BY <1>1, OneField
  <2>3. [Written(a, s0, l0, c0, q0) EXCEPT !.currentTime = t] = Written(a, s0, l0, t, q0)
    BY OneField
  <2> QED
    BY <2>1, <2>2, <2>3
<1>3. ASSUME NEW q, NEW t PROVE [sub EXCEPT !.todo = q, !.lastTime = t] = Written(a0, s0, t, c0, q)
  <2>1. [sub EXCEPT !.todo = q, !.lastTime = t] = [[sub EXCEPT !.todo = q] EXCEPT !.lastTime = t]
    BY SMT
  <2>2. [sub EXCEPT !.todo = q] = Written(a0, s0, l0, c0, q)
    BY <1>1, OneField
  <2>3. [Written(a0, s0, l0, c0, q) EXCEPT !.lastTime = t] = Written(a0, s0, t, c0, q)
    BY OneField
  <2> QED
    BY <2>1, <2>2, <2>3
<1>4. /\ \A a : [sub EXCEPT !.at = a] = Written(a, s0, l0, c0, q0)
      /\ \A q : [sub EXCEPT !.todo = q] = Written(a0, s0, l0, c0, q)
  BY <1>1, OneField
<1> QED
  BY <1>2, <1>3, <1>4 DEF a0, s0, l0, c0, q0

LEMMA ContinueIs ==
  ASSUME NEW at, NEW start, NEW last, NEW current, NEW todo
  PROVE  Continue(Written(at, start, last, current, todo))
           = Written(IF todo = <<>> THEN "poll" ELSE "write", start, last, current, todo)
BY DEF Continue, Written

LEMMA WrittenIsSub ==
  ASSUME NEW id, NEW at, NEW start \in Nat, NEW last \in Nat, NEW current \in Nat, NEW todo \in Seq(CellOf(id)),
         at # "write" <=> todo = <<>>
  PROVE  IsSub(Written(at, start, last, current, todo), id)
BY DEF IsSub, Written

LEMMA PollKeeps ==
  ASSUME WebInv, Background, NEW u \in Viewers, NEW k \in RecordTables, Poll(u, k)
  PROVE  WebInv'
<1> DEFINE sub == subscription[u][k]
<1>0. Shaped /\ Quiet /\ PairInv(u, k) /\ sub.at = "poll" /\ bufferOutput' = bufferOutput /\ IsSub(sub, k)
  BY DEF WebInv, Poll, Shaped, RestShaped
<1>1. LastSynt(k) \in Nat /\ LastSynt(k)' \in Nat /\ LastSynt(k) <= LastSynt(k)'
  BY <1>0, GrownFacts DEF Background
<1>2. sub.start \in Nat /\ sub.lastTime \in Nat /\ sub.currentTime \in Nat /\ sub.todo = <<>> /\ sub.todo \in Seq(CellOf(k))
  BY <1>0 DEF IsSub
<1>3. \E at \in {"read", "ended"}, t \in Nat :
         /\ Polls(u, k, Written(at, sub.start, sub.lastTime, t, sub.todo))
         /\ at = "read" => (<<u, k, "live">> \notin failed' => t = LastSynt(k))
  <2>1. CASE socket[u] = "returned" /\ Polls(u, k, [sub EXCEPT !.at = "ended"])
    BY <1>0, <1>2, <2>1, SubChanges
  <2>2. ASSUME NEW t \in {0, LastSynt(k)}, Queried(<<u, k, "live">>, k, t),
               Polls(u, k, [sub EXCEPT !.at = "read", !.currentTime = t])
        PROVE  Polls(u, k, Written("read", sub.start, sub.lastTime, t, sub.todo)) /\ t \in Nat
               /\ (<<u, k, "live">> \notin failed' => t = LastSynt(k))
    <3>1. [sub EXCEPT !.at = "read", !.currentTime = t] = Written("read", sub.start, sub.lastTime, t, sub.todo)
      BY <1>0, SubChanges
    <3> HIDE DEF sub
    <3> QED
      BY <1>1, <2>2, <3>1 DEF Queried, Fails
  <2>3. \/ socket[u] = "returned" /\ Polls(u, k, [sub EXCEPT !.at = "ended"])
        \/ \E t \in {0, LastSynt(k)} : /\ Queried(<<u, k, "live">>, k, t)
                                       /\ Polls(u, k, [sub EXCEPT !.at = "read", !.currentTime = t])
    BY DEF Poll
  <2> HIDE DEF sub
  <2> QED
    BY <2>1, <2>2, <2>3
<1>4. PICK at \in {"read", "ended"}, t \in Nat :
         /\ Polls(u, k, Written(at, sub.start, sub.lastTime, t, sub.todo))
         /\ at = "read" => (<<u, k, "live">> \notin failed' => t = LastSynt(k))
  BY <1>3
<1>5. Polled(u, k) /\ subscription'[u][k] = Written(at, sub.start, sub.lastTime, t, sub.todo)
  BY <1>0, <1>4, PollsIs
<1>6. IsSub(subscription'[u][k], k)
  BY <1>2, <1>5, WrittenIsSub
<1>7. Started(u, k) /\ Started(u, k)'
  BY <1>0, <1>5 DEF Started, Written
<1>8. /\ subscription'[u][k].at = at /\ subscription'[u][k].start = sub.start
      /\ subscription'[u][k].lastTime = sub.lastTime /\ subscription'[u][k].currentTime = t
      /\ subscription'[u][k].todo = sub.todo
  BY <1>5 DEF Written
<1>9. Cursor(u, k)'
  <2>1. SUFFICES ASSUME <<u, k, "live">> \notin failed' PROVE Cursor(u, k)'
    BY DEF Cursor, Live
  <2>2. sub.start <= sub.lastTime /\ sub.lastTime <= LastSynt(k)
    BY <1>0, <1>7, <2>1 DEF PairInv, Cursor, Live, Background
  <2>3. at = "read" => t = LastSynt(k)
    BY <1>4, <2>1
  <2> HIDE DEF sub
  <2> QED
    BY <1>1, <1>2, <1>8, <2>2, <2>3 DEF Cursor
<1>10. Exact(u, k)' /\ Recent(u, k)'
  <2>1. Alone(u)' => Alone(u)
    BY <1>5 DEF Polled, Alone
  <2>2. Stream(u, k)' = Stream(u, k)
    BY <1>0, <1>5, <1>8, StreamStays DEF Polled
  <2>3. SameCursor(u, k)
    BY <1>7, <1>8 DEF SameCursor
  <2> QED
    BY <1>0, <2>1, <2>2, <2>3, ExactStays, RecentStays DEF PairInv
<1> QED
  BY <1>0, <1>5, <1>6, <1>7, <1>8, <1>9, <1>10, GoroutineKeeps

LEMMA ReadRangeKeeps ==
  ASSUME WebInv, Background, NEW u \in Viewers, NEW k \in RecordTables, ReadRange(u, k)
  PROVE  WebInv'
<1> DEFINE sub == subscription[u][k]
           a == sub.start
           b == sub.lastTime
           c == sub.currentTime
           found == Cells(RowsBetween(k, b, c))
<1>0. Shaped /\ Quiet /\ PairInv(u, k) /\ sub.at = "read" /\ bufferOutput' = bufferOutput /\ IsSub(sub, k)
  BY DEF WebInv, ReadRange, Shaped, RestShaped
<1>1. LastSynt(k) \in Nat /\ LastSynt(k)' \in Nat /\ LastSynt(k) <= LastSynt(k)' /\ rows[k] \in Seq(Of(k)) /\ rows' = rows
  BY <1>0, GrownFacts DEF Background, Shaped, StoreShaped, ReadRange, Polls, store
<1>2. a \in Nat /\ b \in Nat /\ c \in Nat /\ sub.todo = <<>>
  BY <1>0 DEF IsSub
<1>a. found = Cells(Those(rows[k], Span(k, b, c))) /\ Those(rows[k], Span(k, b, c)) \in Seq(Of(k))
  <2>1. \A x, y : Those(rows[k], Span(k, x, y)) \in Seq(Of(k) \cap Span(k, x, y))
    BY <1>1, ThoseTyped
  <2>2. \A x, y : \A q \in Seq(Of(k) \cap Span(k, x, y)) : q \in Seq(Of(k))
    BY SeqMonotonic
  <2> QED
    BY <1>0, <2>1, <2>2, TableFacts
<1>b. found \in Seq(CellOf(k))
  BY <1>a, CellsTyped
<1>3. \/ /\ Polls(u, k, Written("ended", a, b, c, <<>>))
         /\ <<u, k, "live">> \in failed'
      \/ /\ Polls(u, k, Written(IF found = <<>> THEN "poll" ELSE "write", a, c, c, found))
         /\ failed' = failed
  <2>1. CASE Polls(u, k, [sub EXCEPT !.at = "ended"]) /\ Fails(<<u, k, "live">>)
    BY <1>0, <1>2, <2>1, SubChanges, ZenonT(30) DEF Fails
  <2>2. CASE Polls(u, k, Continue([sub EXCEPT !.todo = found, !.lastTime = c])) /\ Succeeds
    <3>1. [sub EXCEPT !.todo = found, !.lastTime = c] = Written(sub.at, a, c, c, found)
      <4>1. IsSub(sub, k)
        BY <1>0
      <4> HIDE DEF sub, found
      <4>2. \A q, t : [sub EXCEPT !.todo = q, !.lastTime = t] = Written(sub.at, sub.start, t, sub.currentTime, q)
        BY <4>1, SubChanges
      <4> QED
        BY <4>2
    <3> HIDE DEF sub, found, a, b, c
    <3> QED
      BY <2>2, <3>1, ContinueIs DEF Succeeds
  <2> QED
    BY <2>1, <2>2 DEF ReadRange
<1> HIDE DEF found
<1>4. PICK at \in {"ended", "poll", "write"}, last \in Nat, todo \in Seq(CellOf(k)) :
        /\ Polls(u, k, Written(at, a, last, c, todo))
        /\ at # "write" <=> todo = <<>>
        /\ \/ <<u, k, "live">> \in failed'
           \/ last = c /\ todo = found /\ failed' = failed
  <2>1. <<>> \in Seq(CellOf(k))
    BY EmptySeq
  <2>2. CASE Polls(u, k, Written("ended", a, b, c, <<>>)) /\ <<u, k, "live">> \in failed'
    BY <1>2, <2>1, <2>2
  <2>3. CASE Polls(u, k, Written(IF found = <<>> THEN "poll" ELSE "write", a, c, c, found)) /\ failed' = failed
    <3>1. CASE found = <<>>
      BY <1>2, <1>b, <2>3, <3>1
    <3>2. CASE found # <<>>
      BY <1>2, <1>b, <2>3, <3>2
    <3> QED
      BY <3>1, <3>2
  <2> QED
    BY <1>3, <2>2, <2>3
<1>5. Polled(u, k) /\ subscription'[u][k] = Written(at, a, last, c, todo)
  BY <1>0, <1>4, PollsIs
<1>6. IsSub(subscription'[u][k], k)
  BY <1>2, <1>4, <1>5, WrittenIsSub
<1>7. /\ subscription'[u][k].at = at /\ subscription'[u][k].start = a
      /\ subscription'[u][k].lastTime = last /\ subscription'[u][k].currentTime = c
      /\ subscription'[u][k].todo = todo
  BY <1>5 DEF Written
<1>8. Started(u, k) /\ Started(u, k)'
  BY <1>0, <1>7 DEF Started
<1>9. <<u, k, "live">> \notin failed' => /\ last = c /\ todo = found /\ <<u, k, "live">> \notin failed
                                         /\ a <= b /\ b <= c /\ c <= LastSynt(k)
  <2>1. ASSUME <<u, k, "live">> \notin failed' PROVE last = c /\ todo = found /\ <<u, k, "live">> \notin failed
    BY <1>4, <2>1
  <2>2. <<u, k, "live">> \notin failed => a <= b /\ b <= c /\ c <= LastSynt(k)
    BY <1>0, <1>8 DEF PairInv, Cursor, Live
  <2> QED
    BY <2>1, <2>2
<1>10. Cursor(u, k)'
  <2>1. SUFFICES ASSUME <<u, k, "live">> \notin failed' PROVE Cursor(u, k)'
    BY DEF Cursor, Live
  <2>2. at # "read" /\ last = c /\ a <= b /\ b <= c /\ c <= LastSynt(k)
    BY <1>9, <2>1
  <2>3. a <= last /\ last <= LastSynt(k)'
    <3> HIDE DEF a, b, c
    <3> QED
      BY <1>1, <1>2, <2>2
  <2> QED
    BY <1>7, <2>2, <2>3 DEF Cursor
<1>11. Exact(u, k)'
  <2>1. ASSUME Alone(u)', InOrder(k)', <<u, k, "live">> \notin failed' PROVE Stream(u, k)' = Cells(RowsNext(u, k))
    <3> DEFINE x == Those(rows[k], Span(k, a, b))
               y == Those(rows[k], Span(k, b, c))
               out == Those(shown[u] \o bufferOutput, CellOf(k))
    <3>1. Alone(u) /\ InOrder(k) /\ Sorted(rows[k])
      BY <1>0, <1>5, <2>1, GrownFacts, TableFacts DEF Polled, Alone, Background
    <3>2. out = Cells(x)
      BY <1>0, <1>8, <1>9, <2>1, <3>1, NothingToDo, TableFacts DEF PairInv, Exact
    <3>3. x \in Seq(Of(k)) /\ y \in Seq(Of(k))
      <4>1. x \in Seq(Of(k) \cap Span(k, a, b))
        BY <1>1, ThoseTyped
      <4>2. \A q \in Seq(Of(k) \cap Span(k, a, b)) : q \in Seq(Of(k))
        BY SeqMonotonic
      <4> QED
        BY <1>a, <4>1, <4>2
    <3>4. RowsNext(u, k) = x \o y
      <4>1. RowsNext(u, k) = Those(rows[k], Span(k, a, c)) /\ a <= b /\ b <= c
        BY <1>1, <1>7, <1>9, <2>1 DEF RowsNext
      <4>2. a \in Nat /\ b \in Nat /\ c \in Nat /\ rows[k] \in Seq(Of(k))
        BY <1>1, <1>2
      <4> HIDE DEF a, b, c
      <4>3. \A q \in Seq(Of(k)) : Sorted(q) =>
              Those(q, Span(k, a, c)) = Those(q, Span(k, a, b)) \o Those(q, Span(k, b, c))
        BY <4>1, <4>2, SpansJoin, ZenonT(30)
      <4> QED
        BY <3>1, <4>1, <4>2, <4>3
    <3>5. Stream(u, k)' = out \o todo
      <4>1. shown'[u] \o bufferOutput' = shown[u] \o bufferOutput /\ shown[u] \o bufferOutput \in Seq(Cell)
        BY <1>0, <1>5, StreamIs DEF Polled
      <4> QED
        BY <1>7, <4>1, StreamNext
    <3>6. todo = Cells(y)
      BY <1>9, <1>a, <2>1
    <3> HIDE DEF x, y, out
    <3> QED
      BY <3>2, <3>3, <3>4, <3>5, <3>6, CellsConcat
  <2> QED
    BY <2>1, ExactNext DEF Background
<1>12. Recent(u, k)'
  <2> DEFINE out == Those(shown[u] \o bufferOutput, CellOf(k))
             S == Since(k, a)
  <2> SUFFICES ASSUME Alone(u)', <<u, k, "live">> \notin failed' PROVE Stream(u, k)' \in Seq(S)
    BY <1>7 DEF Recent, Live, Since, CellOf, Cell
  <2>1. out \in Seq(S)
    <3>1. Alone(u) /\ Live(u, k)
      BY <1>5, <1>8, <1>9 DEF Polled, Alone, Live
    <3>2. Stream(u, k) = out
      BY <1>0, NothingToDo
    <3> QED
      BY <1>0, <3>1, <3>2 DEF PairInv, Recent
  <2>2. todo \in Seq(S)
    <3>1. a <= b /\ todo = Cells(Those(rows[k], Span(k, b, c))) /\ rows[k] \in Seq(Of(k))
      BY <1>1, <1>9, <1>a
    <3>2. a \in Nat /\ b \in Nat /\ c \in Nat
      BY <1>2
    <3> HIDE DEF a, b, c
    <3> QED
      BY <3>1, <3>2, CellsSince
  <2>3. Stream(u, k)' = out \o todo
    <3>1. shown'[u] \o bufferOutput' = shown[u] \o bufferOutput /\ shown[u] \o bufferOutput \in Seq(Cell)
      BY <1>0, <1>5, StreamIs DEF Polled
    <3> QED
      BY <1>7, <3>1, StreamNext
  <2> HIDE DEF out, S
  <2> QED
    BY <2>1, <2>2, <2>3, ConcatProperties
<1> QED
  BY <1>0, <1>5, <1>6, <1>7, <1>8, <1>10, <1>11, <1>12, GoroutineKeeps

LEMMA WriteCellKeeps ==
  ASSUME WebInv, Background, NEW u \in Viewers, NEW k \in RecordTables, WriteCell(u, k)
  PROVE  WebInv'
<1> DEFINE sub == subscription[u][k]
           h == Head(sub.todo)
           r == Tail(sub.todo)
<1>0. Shaped /\ Quiet /\ PairInv(u, k) /\ sub.at = "write" /\ bufferOutput' = Append(bufferOutput, h) /\ IsSub(sub, k)
  BY DEF WebInv, WriteCell, Shaped, RestShaped
<1>1. LastSynt(k) \in Nat /\ LastSynt(k)' \in Nat /\ LastSynt(k) <= LastSynt(k)'
  BY <1>0, GrownFacts DEF Background
<1>2. /\ sub.start \in Nat /\ sub.lastTime \in Nat /\ sub.currentTime \in Nat
      /\ sub.todo # <<>> /\ sub.todo \in Seq(CellOf(k))
  BY <1>0 DEF IsSub
<1>3. h \in CellOf(k) /\ r \in Seq(CellOf(k))
  BY <1>2, HeadTailProperties
<1>4. Polls(u, k, Written(IF r = <<>> THEN "poll" ELSE "write", sub.start, sub.lastTime, sub.currentTime, r))
  <2>1. Polls(u, k, Continue([sub EXCEPT !.todo = r]))
    BY DEF WriteCell
  <2>2. [sub EXCEPT !.todo = r] = Written(sub.at, sub.start, sub.lastTime, sub.currentTime, r)
    BY <1>0, SubChanges
  <2> HIDE DEF sub, r
  <2> QED
    BY <2>1, <2>2, ContinueIs
<1>5. PICK at \in {"poll", "write"} : /\ Polls(u, k, Written(at, sub.start, sub.lastTime, sub.currentTime, r))
                                      /\ at # "write" <=> r = <<>>
  <2>1. CASE r = <<>>
    BY <1>4, <2>1
  <2>2. CASE r # <<>>
    BY <1>4, <2>2
  <2> QED
    BY <2>1, <2>2
<1>6. Polled(u, k) /\ subscription'[u][k] = Written(at, sub.start, sub.lastTime, sub.currentTime, r)
  BY <1>0, <1>5, PollsIs
<1>7. IsSub(subscription'[u][k], k)
  BY <1>2, <1>3, <1>5, <1>6, WrittenIsSub
<1>8. /\ subscription'[u][k].at = at /\ subscription'[u][k].start = sub.start
      /\ subscription'[u][k].lastTime = sub.lastTime /\ subscription'[u][k].todo = r
  BY <1>6 DEF Written
<1>9. Started(u, k) /\ Started(u, k)'
  BY <1>0, <1>8 DEF Started
<1>10. Cursor(u, k)'
  <2>1. SUFFICES ASSUME <<u, k, "live">> \notin failed' PROVE Cursor(u, k)'
    BY DEF Cursor, Live
  <2>2. sub.start <= sub.lastTime /\ sub.lastTime <= LastSynt(k)
    BY <1>0, <1>9, <2>1 DEF PairInv, Cursor, Live, Background
  <2> HIDE DEF sub
  <2> QED
    BY <1>1, <1>2, <1>8, <2>2 DEF Cursor
<1>11. Exact(u, k)' /\ Recent(u, k)'
  <2>1. Alone(u)' => Alone(u)
    BY <1>6 DEF Polled, Alone
  <2>2. SameCursor(u, k)
    BY <1>8, <1>9 DEF SameCursor
  <2>3. Stream(u, k)' = Stream(u, k)
    <3> DEFINE out == shown[u] \o bufferOutput
               o == Those(out, CellOf(k))
    <3>1. out \in Seq(Cell) /\ Stream(u, k) = o \o sub.todo
      BY <1>0, StreamIs
    <3>2. h \in Cell /\ shown[u] \in Seq(Cell) /\ bufferOutput \in Seq(Cell)
      BY <1>0, <1>3 DEF CellOf, Shaped, StoreShaped, RestShaped
    <3>3. shown'[u] \o bufferOutput' = Append(out, h)
      <4>1. PICK q, b : q = shown[u] /\ b = bufferOutput
        OBVIOUS
      <4>2. q \o Append(b, h) = Append(q \o b, h)
        <5>1. q \in Seq(Cell) /\ b \in Seq(Cell) /\ h \in Cell
          BY <3>2, <4>1
        <5> HIDE DEF h
        <5> QED
          BY <5>1, ConcatAppend
      <4> QED
        BY <1>0, <1>6, <4>1, <4>2 DEF Polled
    <3>4. o \in Seq(CellOf(k))
      <4>1. o \in Seq(Cell \cap CellOf(k))
        BY <3>1, ThoseTyped
      <4>2. \A q \in Seq(Cell \cap CellOf(k)) : q \in Seq(CellOf(k))
        BY SeqMonotonic
      <4> QED
        BY <4>1, <4>2
    <3> HIDE DEF out
    <3>5. Those(Append(out, h), CellOf(k)) = Append(o, h) /\ Append(out, h) \in Seq(Cell)
      <4> HIDE DEF h
      <4> QED
        BY <1>3, <3>1, <3>2, ThoseAppend, AppendProperties
    <3>6. Stream(u, k)' = Append(o, h) \o r
      BY <1>8, <3>3, <3>5, StreamNext
    <3>7. Append(o, h) \o r = o \o sub.todo
      BY <1>2, <3>4, FirstMoves
    <3> QED
      BY <3>1, <3>6, <3>7
  <2> QED
    BY <1>0, <2>1, <2>2, <2>3, ExactStays, RecentStays DEF PairInv
<1> QED
  BY <1>0, <1>3, <1>6, <1>7, <1>8, <1>9, <1>10, <1>11, GoroutineKeeps

-----------------------------------------------------------------------------
(* Steps of the reader of viewer u and table k                               *)

LEMMA PageKeeps ==
  ASSUME WebInv, Background, NEW u \in Viewers, NEW k \in RecordTables, NEW view, IsPage(view),
         page' = [page EXCEPT ![u][k] = view], UNCHANGED <<socket, subscription, bufferOutput, shown>>,
         page'[u][k] = view => Reader(u, k)'
  PROVE  WebInv'
<1>0. Shaped /\ Quiet /\ StoreShaped'
  BY DEF WebInv, Background, Grown
<1>1. /\ page' = [v \in Viewers |-> [id \in RecordTables |-> page'[v][id]]]
      /\ page'[u][k] = view
      /\ \A v \in Viewers, id \in RecordTables : v # u \/ id # k => page'[v][id] = page[v][id]
  BY <1>0 DEF Shaped, RestShaped
<1>2. \A v \in Viewers, id \in RecordTables : IsPage(page'[v][id])
  BY <1>0, <1>1 DEF Shaped, RestShaped
<1>3. Shaped' /\ Quiet'
  BY <1>0, <1>1, <1>2 DEF Shaped, RestShaped, Quiet, Unmet
<1>4. ASSUME NEW v \in Viewers, NEW id \in RecordTables PROVE PairInv(v, id)'
  <2>1. Alone(v)' => Alone(v)
    BY DEF Alone
  <2>2. Stream(v, id)' = Stream(v, id) /\ Same(v, id)
    BY StreamStays DEF Same
  <2>3. CASE v # u \/ id # k
    BY <1>0, <1>1, <2>1, <2>2, <2>3, PairStays DEF WebInv
  <2>4. CASE v = u /\ id = k
    <3>1. PairInv(v, id)
      BY DEF WebInv
    <3>2. Cursor(v, id)' /\ Exact(v, id)' /\ Recent(v, id)'
      <4>1. SameCursor(v, id)
        BY DEF SameCursor, Started
      <4> QED
        BY <1>0, <2>1, <2>2, <3>1, <4>1, CursorStays, ExactStays, RecentStays DEF PairInv
    <3>3. Fresh(v, id)'
      BY <2>1, <2>2, <3>1 DEF PairInv, Fresh, Started
    <3> QED
      BY <1>1, <2>4, <3>2, <3>3 DEF PairInv
  <2> QED
    BY <2>3, <2>4
<1> QED
  BY <1>3, <1>4 DEF WebInv

(* The end that is asked for: not before the first cursor of a live view.    *)
LEMMA HistoryEndKeeps ==
  ASSUME WebInv, Background, NEW u \in Viewers, NEW k \in RecordTables, HistoryEnd(u, k)
  PROVE  WebInv'
<1> DEFINE live == subscription[u][k].at \notin {"off", "start"}
<1>1. PICK t \in {0, LastSynt(k)} :
        /\ Queried(<<u, k, "history">>, k, t)
        /\ page' = [page EXCEPT ![u][k] = [at |-> "asked", end |-> t, found |-> {}, live |-> live]]
  BY DEF HistoryEnd
<1> DEFINE view == [at |-> "asked", end |-> t, found |-> {}, live |-> live]
<1>2. /\ Shaped /\ PairInv(u, k) /\ UNCHANGED <<store, socket, subscription, bufferOutput, shown>>
      /\ LastSynt(k) \in Nat /\ LastSynt(k)' \in Nat /\ LastSynt(k) <= LastSynt(k)' /\ t \in Nat
  <2>1. Shaped /\ PairInv(u, k) /\ UNCHANGED <<store, socket, subscription, bufferOutput, shown>>
    BY DEF WebInv, HistoryEnd
  <2> QED
    BY <2>1, GrownFacts DEF Background
<1>3. IsPage(view) /\ view.at = "asked" /\ view.end = t /\ view.live = live
  BY <1>2 DEF IsPage
<1>4. ASSUME page'[u][k] = view PROVE Reader(u, k)'
  <2>1. view.live => Started(u, k)'
    BY <1>2 DEF Started
  <2>2. ASSUME <<u, k, "history">> \notin failed' PROVE view.end <= LastSynt(k)'
    <3>1. t = LastSynt(k)
      BY <1>1, <2>2 DEF Queried, Fails
    <3> QED
      BY <1>2, <1>3, <3>1
  <2>3. ASSUME <<u, k, "history">> \notin failed', Live(u, k)' PROVE subscription'[u][k].start <= view.end
    <3>1. t = LastSynt(k)
      BY <1>1, <2>3 DEF Queried, Fails
    <3>2. Live(u, k) /\ subscription'[u][k] = subscription[u][k]
      BY <1>2, <2>3 DEF Live, Started, Background
    <3>3. PICK s \in Nat, l \in Nat : s = subscription[u][k].start /\ l = subscription[u][k].lastTime
      BY <1>2 DEF Shaped, RestShaped, IsSub
    <3>4. s <= l /\ l <= LastSynt(k)
      BY <1>2, <3>2, <3>3 DEF PairInv, Cursor
    <3> QED
      BY <1>2, <1>3, <3>1, <3>2, <3>3, <3>4
  <2> HIDE DEF view
  <2> QED
    BY <1>3, <1>4, <2>1, <2>2, <2>3 DEF Reader
<1> HIDE DEF view
<1> QED
  BY <1>1, <1>2, <1>3, <1>4, PageKeeps DEF view

LEMMA PageChanges ==
  ASSUME NEW view, IsPage(view)
  PROVE  \A a : /\ [view EXCEPT !.at = a] = [at |-> a, end |-> view.end, live |-> view.live, found |-> view.found]
                /\ \A f : [view EXCEPT !.at = a, !.found = f] = [at |-> a, end |-> view.end, live |-> view.live, found |-> f]
<1> DEFINE a0 == view.at  e0 == view.end  l0 == view.live  f0 == view.found
<1>1. view = [at |-> a0, end |-> e0, live |-> l0, found |-> f0]
  BY DEF IsPage
<1> HIDE DEF a0, e0, l0, f0
<1>2. ASSUME NEW a PROVE [view EXCEPT !.at = a] = [at |-> a, end |-> e0, live |-> l0, found |-> f0]
  BY <1>1
<1>3. ASSUME NEW a, NEW f PROVE [view EXCEPT !.at = a, !.found = f] = [at |-> a, end |-> e0, live |-> l0, found |-> f]
  <2>1. [view EXCEPT !.at = a, !.found = f] = [[view EXCEPT !.at = a] EXCEPT !.found = f]
    BY SMT
  <2>2. [[at |-> a, end |-> e0, live |-> l0, found |-> f0] EXCEPT !.found = f] = [at |-> a, end |-> e0, live |-> l0, found |-> f]
    OBVIOUS
  <2> QED
    BY <1>2, <2>1, <2>2
<1> QED
  BY <1>2, <1>3 DEF a0, e0, l0, f0

(* The rows before a time that a query of them returns.                      *)
LEMMA FoundBefore ==
  ASSUME Shaped, NEW k \in RecordTables, NEW end \in Nat, NEW d \in ToSet(rows[k]), IterOf[d] < end
  PROVE  d \in ToSet(RowsBetween(k, 0, end))
<1>1. rows[k] \in Seq(Of(k)) /\ RowsBetween(k, 0, end) = Those(rows[k], Span(k, 0, end))
  BY TableFacts DEF Shaped, StoreShaped
<1>2. d \in Of(k)
  BY <1>1, LenProperties, ElementOfSeq DEF ToSet
<1>3. d \in Span(k, 0, end)
  BY <1>2, IterTyped DEF Span
<1> QED
  BY <1>1, <1>3, ThoseHas DEF ToSet

LEMMA HistoryRangeKeeps ==
  ASSUME WebInv, Background, NEW u \in Viewers, NEW k \in RecordTables, HistoryRange(u, k)
  PROVE  WebInv'
<1> DEFINE was == page[u][k]
           found == ToSet(RowsBetween(k, 0, was.end))
           View(at, f) == [at |-> at, end |-> was.end, live |-> was.live, found |-> f]
<1>0. /\ Shaped /\ PairInv(u, k) /\ IsPage(was) /\ was.at = "asked"
      /\ UNCHANGED <<store, socket, subscription, bufferOutput, shown>>
  BY DEF WebInv, HistoryRange, Shaped, RestShaped
<1>1. \/ page' = [page EXCEPT ![u][k] = View("answered", found)] /\ failed' = failed
      \/ page' = [page EXCEPT ![u][k] = View("failed", was.found)]
  <2>1. \/ /\ page' = [page EXCEPT ![u][k] = [was EXCEPT !.at = "answered", !.found = found]]
           /\ failed' = failed
        \/ page' = [page EXCEPT ![u][k] = [was EXCEPT !.at = "failed"]]
    BY <1>0 DEF HistoryRange, Succeeds, Shaped, RestShaped
  <2>2. /\ [was EXCEPT !.at = "answered", !.found = found] = View("answered", found)
        /\ [was EXCEPT !.at = "failed"] = View("failed", was.found)
    <3> HIDE DEF was, found
    <3> QED
      BY <1>0, PageChanges
  <2> QED
    BY <2>1, <2>2
<1>2. CASE page' = [page EXCEPT ![u][k] = View("failed", was.found)]
  <2> DEFINE view == View("failed", was.found)
  <2>1. IsPage(view) /\ (page'[u][k] = view => Reader(u, k)')
    BY <1>0 DEF IsPage, Reader
  <2> HIDE DEF view
  <2> QED
    BY <1>0, <1>2, <2>1, PageKeeps DEF view
<1>3. CASE page' = [page EXCEPT ![u][k] = View("answered", found)] /\ failed' = failed
  <2> DEFINE view == View("answered", found)
  <2>1. IsPage(view) /\ view.at = "answered" /\ view.end = was.end /\ view.live = was.live /\ view.found = found
    BY <1>0 DEF IsPage
  <2>2. /\ view.live => Started(u, k)'
        /\ <<u, k, "history">> \notin failed' =>
             /\ view.end <= LastSynt(k)'
             /\ view.live /\ Live(u, k)' => subscription'[u][k].start <= view.end
    <3>1. /\ Started(u, k)' = Started(u, k) /\ Live(u, k)' = Live(u, k) /\ LastSynt(k)' = LastSynt(k)
          /\ subscription'[u][k].start = subscription[u][k].start
      BY <1>0, <1>3 DEF Started, Live, LastSynt, store
    <3> HIDE DEF was, view
    <3> QED
      BY <1>0, <1>3, <2>1, <3>1 DEF PairInv, Reader, was
  <2>3. \A d \in ToSet(rows'[k]) : IterOf[d] < view.end => d \in view.found
    <3>1. was.end \in Nat /\ rows' = rows
      BY <1>0 DEF IsPage, store
    <3> HIDE DEF was, view
    <3> QED
      BY <1>0, <2>1, <3>1, FoundBefore
  <2> HIDE DEF view
  <2>4. page'[u][k] = view => Reader(u, k)'
    BY <2>1, <2>2, <2>3 DEF Reader
  <2> QED
    BY <1>0, <1>3, <2>1, <2>4, PageKeeps DEF view
<1> QED
  BY <1>1, <1>2, <1>3

-----------------------------------------------------------------------------
(* The invariant                                                             *)

LEMMA InitIsWeb == Init => WebInv
<1> SUFFICES ASSUME Init PROVE WebInv
  OBVIOUS
<1>0. PICK scene \in Scenes :
        /\ waiting = scene.data
        /\ socket = [v \in Viewers |-> IF v \in scene.viewers THEN "absent" ELSE "never"]
        /\ page = [v \in Viewers |-> [id \in RecordTables |->
             NoPage(IF v \in scene.readers THEN "none" ELSE "never")]]
  BY DEF Init
<1>1. <<>> \in Seq(Cell) /\ <<>> \o <<>> = <<>> /\ \A id : <<>> \in Seq(Of(id))
  BY EmptySeq, ConcatEmptySeq
<1>2. StoreShaped
  <2>1. waiting \subseteq Data
    BY <1>0, BoundAssumption
  <2> QED
    BY <1>1, <2>1 DEF Init, StoreShaped
<1>3. /\ subscription = [v \in Viewers |-> [id \in RecordTables |-> subscription[v][id]]]
      /\ \A v \in Viewers, id \in RecordTables :
           subscription[v][id] = [at |-> "off", start |-> 0, lastTime |-> 0, currentTime |-> 0, todo |-> <<>>]
  BY DEF Init, Idle, Goroutine
<1>4. /\ page = [v \in Viewers |-> [id \in RecordTables |-> page[v][id]]]
      /\ \A v \in Viewers, id \in RecordTables : IsPage(page[v][id]) /\ page[v][id].at \in {"none", "never"}
  <2>1. ASSUME NEW a PROVE IsPage(NoPage(a)) /\ NoPage(a).at = a
    BY DEF IsPage, NoPage
  <2>2. /\ page = [v \in Viewers |-> [id \in RecordTables |-> page[v][id]]]
        /\ \A v \in Viewers, id \in RecordTables : \E a \in {"none", "never"} : page[v][id] = NoPage(a)
    BY <1>0
  <2> QED
    BY <2>1, <2>2
<1>5. Shaped
  <2>1. ASSUME NEW v \in Viewers, NEW id \in RecordTables PROVE IsSub(subscription[v][id], id)
    <3>1. IsSub([at |-> "off", start |-> 0, lastTime |-> 0, currentTime |-> 0, todo |-> <<>>], id)
      BY NewSub
    <3> QED
      BY <1>3, <3>1
  <2>2. /\ socket = [v \in Viewers |-> socket[v]]
        /\ bufferOutput \in Seq(Cell)
        /\ shown = [v \in Viewers |-> shown[v]] /\ \A v \in Viewers : shown[v] \in Seq(Cell)
    BY <1>0, <1>1 DEF Init
  <2> QED
    BY <1>2, <1>3, <1>4, <2>1, <2>2 DEF Shaped, RestShaped
<1>6. Quiet
  BY <1>3 DEF Init, Quiet
<1>7. ASSUME NEW v \in Viewers, NEW id \in RecordTables PROVE PairInv(v, id)
  <2>1. ~Started(v, id)
    BY <1>3 DEF Started
  <2>2. Stream(v, id) = <<>>
    <3>1. shown[v] \o bufferOutput = <<>> /\ subscription[v][id].todo = <<>>
      BY <1>1, <1>3 DEF Init
    <3> QED
      BY <1>1, <1>5, <3>1, StreamIs, ThoseEmpty
  <2> QED
    BY <1>4, <2>1, <2>2 DEF PairInv, Cursor, Fresh, Exact, Recent, Reader, Live
<1> QED
  BY <1>5, <1>6, <1>7 DEF WebInv

LEMMA WebStep == WebInv /\ [Next]_vars => WebInv'
<1> SUFFICES ASSUME WebInv, [Next]_vars PROVE WebInv'
  OBVIOUS
<1>0. Background
  BY EveryStepGrows, FailuresStay DEF Background, WebInv
<1>1. CASE Store \/ UNCHANGED vars
  BY <1>0, <1>1, CallsOnly DEF Store, calls, vars
<1>2. ASSUME NEW v \in Viewers, Connect(v) \/ Leave(v) \/ Send(v) \/ Close(v) PROVE WebInv'
  BY <1>0, <1>2, ConnectKeeps, LeaveKeeps, SendKeeps
<1>3. ASSUME NEW v \in Viewers, NEW id \in RecordTables, Subscribe(v, id) PROVE WebInv'
  BY <1>0, <1>3, StartCursorKeeps, PollKeeps, ReadRangeKeeps, WriteCellKeeps DEF Subscribe
<1>4. ASSUME NEW v \in Viewers, NEW id \in RecordTables, HistoryEnd(v, id) \/ HistoryRange(v, id) PROVE WebInv'
  BY <1>0, <1>4, HistoryEndKeeps, HistoryRangeKeeps
<1>5. ASSUME NEW d \in Commands, Forward(d) \/ Keep(d) PROVE WebInv'
  BY <1>0, <1>5, CallsOnly DEF Forward, Keep
<1> QED
  BY <1>1, <1>2, <1>3, <1>4, <1>5 DEF Next

(* The cursors and the readers of every viewer and table, whatever fails.    *)
THEOREM WebAlways == Spec => []WebInv
<1>1. Init => WebInv
  BY InitIsWeb
<1>2. WebInv /\ [Next]_vars => WebInv'
  BY WebStep
<1> QED
  BY <1>1, <1>2, PTL DEF Spec

(* web.go:153-174: a viewer that is alone is sent the rows of a table from   *)
(* its first cursor up to the last one, each once, in order and with all     *)
(* columns - for any tables and sizes, any interleaving of the writers, the  *)
(* goroutines and the handlers, as long as no query of the goroutine failed  *)
(* and the rows came in the order of their times.                            *)
THEOREM LiveViewExact == Spec => []LiveViewIsExact
<1>1. WebInv => LiveViewIsExact
  BY DEF WebInv, PairInv, Exact, LiveViewIsExact
<1> QED
  BY <1>1, WebAlways, PTL

(* web.go:153, 214: history up to its end and the live view from its first   *)
(* cursor on leave no row between them out, when each table has a column: a  *)
(* row without columns is no cell of a live view.                            *)
THEOREM HistoryMeetsLiveView ==
  ASSUME \A id \in RecordTables : DataShapes[id] # 0
  PROVE  Spec => []PageHasAll
<1>1. WebInv => PageHasAll
  <2> SUFFICES ASSUME WebInv, NEW v \in Viewers, NEW id \in RecordTables,
                      Alone(v), InOrder(id), page[v][id].at = "answered", page[v][id].live,
                      <<v, id, "live">> \notin failed, <<v, id, "history">> \notin failed,
                      NEW d \in ToSet(rows[id]), IterOf[d] < Max({page[v][id].end, subscription[v][id].lastTime})
               PROVE  d \in page[v][id].found \cup {cell.row : cell \in ToSet(Stream(v, id))}
    BY DEF PageHasAll
  <2>1. PICK e, a, b : e = page[v][id].end /\ a = subscription[v][id].start /\ b = subscription[v][id].lastTime
    OBVIOUS
  <2>2. Shaped /\ PairInv(v, id) /\ rows[id] \in Seq(Of(id)) /\ e \in Nat /\ a \in Nat /\ b \in Nat
    BY <2>1 DEF WebInv, Shaped, StoreShaped, RestShaped, IsPage, IsSub
  <2>3. Started(v, id) /\ a <= e /\ (IterOf[d] < e => d \in page[v][id].found)
    BY <2>1, <2>2 DEF PairInv, Reader, Live
  <2>4. CASE IterOf[d] < e
    BY <2>3, <2>4
  <2>5. CASE ~(IterOf[d] < e)
    <3>1. d \in Of(id) /\ IterOf[d] \in Nat
      BY <2>2, LenProperties, ElementOfSeq, IterTyped DEF ToSet
    <3>2. a <= IterOf[d] /\ IterOf[d] < b
      <4>1. Max({e, b}) \in {e, b}
        <5>1. \E m \in {e, b} : \A n \in {e, b} : m >= n
          BY <2>2
        <5> QED
          BY <5>1 DEF Max
      <4>2. IterOf[d] < Max({e, b})
        BY <2>1
      <4> QED
        BY <2>2, <2>3, <2>5, <3>1, <4>1, <4>2
    <3> DEFINE q == Those(rows[id], Span(id, a, b))
    <3>3. d \in ToSet(q)
      <4>1. d \in Span(id, a, b)
        BY <3>1, <3>2 DEF Span
      <4> QED
        BY <2>2, <4>1, ThoseHas DEF ToSet
    <3>4. q \in Seq(Of(id))
      <4>1. q \in Seq(Of(id) \cap Span(id, a, b))
        BY <2>2, ThoseTyped
      <4>2. \A r \in Seq(Of(id) \cap Span(id, a, b)) : r \in Seq(Of(id))
        BY SeqMonotonic
      <4> QED
        BY <4>1, <4>2
    <3>5. Stream(v, id) = Cells(q)
      BY <2>1, <2>2, <2>3, TableFacts DEF PairInv, Exact
    <3> HIDE DEF q
    <3>6. PICK cell \in ToSet(Cells(q)) : cell.row = d
      BY <3>3, <3>4, CellsHave
    <3> QED
      BY <3>5, <3>6
  <2> QED
    BY <2>4, <2>5
<1> QED
  BY <1>1, WebAlways, PTL

LEMMA NothingFails ==
  ASSUME Unlucky = {}
  PROVE  Spec => [](failed = {})
<1>1. Init => failed = {}
  BY DEF Init
<1>2. failed = {} /\ [Next]_vars => (failed = {})'
  <2> SUFFICES ASSUME failed = {}, [Next]_vars PROVE failed' = {}
    OBVIOUS
  <2>1. CASE Store \/ UNCHANGED vars
    BY <2>1 DEF Store, vars
  <2>2. ASSUME NEW v \in Viewers, Connect(v) \/ Leave(v) \/ Send(v) \/ Close(v) PROVE failed' = {}
    BY <2>2 DEF Connect, Leave, Send, Close
  <2>3. ASSUME NEW v \in Viewers, NEW id \in RecordTables, Subscribe(v, id) PROVE failed' = {}
    BY <2>3 DEF Subscribe, StartCursor, Poll, ReadRange, WriteCell, Queried, Fails, Succeeds
  <2>4. ASSUME NEW v \in Viewers, NEW id \in RecordTables, HistoryEnd(v, id) \/ HistoryRange(v, id) PROVE failed' = {}
    BY <2>4 DEF HistoryEnd, HistoryRange, Queried, Fails, Succeeds
  <2>5. ASSUME NEW d \in Commands, Forward(d) \/ Keep(d) PROVE failed' = {}
    BY <2>5 DEF Forward, Keep
  <2> QED
    BY <2>1, <2>2, <2>3, <2>4, <2>5 DEF Next
<1> QED
  BY <1>1, <1>2, PTL DEF Spec

(* web.go:149: no history in the live view, in whatever order rows come -    *)
(* provided that no query fails: a failed query of the last time is all that *)
(* makes a viewer that is alone receive what came before its first cursor.   *)
THEOREM NoHistoryUnlessAQueryFails ==
  ASSUME Unlucky = {}
  PROVE  Spec => []NoHistoryInLiveView
<1>1. WebInv /\ failed = {} => NoHistoryInLiveView
  <2> SUFFICES ASSUME WebInv, failed = {}, NEW v \in Viewers, NEW id \in RecordTables,
                      NEW cell \in ToSet(Stream(v, id)), Alone(v), Started(v, id)
               PROVE  IterOf[cell.row] >= subscription[v][id].start
    BY DEF NoHistoryInLiveView
  <2>1. PICK q, a : q = Stream(v, id) /\ a = subscription[v][id].start
    OBVIOUS
  <2>2. q \in Seq(Since(id, a))
    BY <2>1 DEF WebInv, PairInv, Recent, Live
  <2>3. cell \in Since(id, a)
    BY <2>1, <2>2, LenProperties, ElementOfSeq DEF ToSet
  <2>4. a \in Nat /\ IterOf[cell.row] \in Nat
    BY <2>1, <2>3, RecordsAssumption DEF WebInv, Shaped, RestShaped, IsSub, Since, CellOf, Cell
  <2> QED
    BY <2>1, <2>3, <2>4 DEF Since
<1> QED
  BY <1>1, NothingFails, WebAlways, PTL
=============================================================================
