------------------------- MODULE UpdateBatchesProofs -------------------------
(* Proofs about UpdateBatches for any updates, files and batch sizes.      *)
EXTENDS UpdateBatches, FiniteSetTheorems, TLAPS

(* A vertex has an edge in E, or a row that is still to be sent.           *)
Joined(v, E) == \E e \in E : v \in {e[1], e[2]}
Unsent(v, l) ==
  /\ l.todo # <<>> /\ Head(l.todo).type = "edge"
  /\ \E i \in l.sent + 1 .. Len(l.buf) : v \in {l.buf[i].src, l.buf[i].tgt}

(* The invariant of one handler in local state l, with the edges E.        *)
Runs(l) == l.pc \in {"next", "read", "flush", "rest", "deg"}
Sized(l) == l.sent \in 0 .. Len(l.buf) /\ Len(l.buf) <= maxInsertNum + 1
Placed(l, E) ==
  Runs(l) =>
    /\ l.pc \in {"next", "deg"} => l.buf = <<>>
    /\ l.pc \notin {"flush", "rest"} => l.sent = 0
    /\ l.pc \in {"read", "flush", "rest"} => l.todo # <<>>
    /\ l.pc = "read" => Len(l.buf) <= maxInsertNum
    /\ \A v \in Vertex : l.degMap[v] > 0 => Joined(v, E) \/ Unsent(v, l)
Good(l, E) == l \in Local /\ Sized(l) /\ Placed(l, E)

LEMMA FreshIsGood ==
  ASSUME NEW u \in Update, files[u] \in Seq(File)
  PROVE  /\ Fresh(u) \in Local
         /\ Sized(Fresh(u))
         /\ Fresh(u).pc = "next" /\ Fresh(u).buf = <<>> /\ Fresh(u).sent = 0
         /\ Fresh(u).degMap = [v \in Vertex |-> 0]
<1>1. <<>> \in Seq(FileRow) /\ Len(<<>>) = 0
  OBVIOUS
<1> QED
  BY <1>1, UpdateBatchesAssumption DEF Fresh, Local, Sized

LEMMA BaseInvInit == Init => BaseInv
<1> SUFFICES ASSUME Init PROVE BaseInv
  OBVIOUS
<1>1. \A u \in Update : files[u] \in Seq(File)
  BY UpdateBatchesAssumption DEF Init
<1>2. \A u \in Update : h[u] = [Fresh(u) EXCEPT !.pc = "idle"]
  BY DEF Init
<1>3. ASSUME NEW u \in Update PROVE h[u] \in Local /\ Sized(h[u]) /\ h[u].pc = "idle"
  <2>1. PICK f : f = Fresh(u)
    OBVIOUS
  <2>2. f \in Local /\ Sized(f)
    BY <1>1, <2>1, FreshIsGood
  <2>3. h[u] = [f EXCEPT !.pc = "idle"]
    BY <1>2, <2>1
  <2> QED
    BY <2>2, <2>3 DEF Local, Sized
<1>4. h \in [Update -> Local]
  BY <1>3 DEF Init
<1>5. TypeOK
  <2>1. deg \in [Vertex -> Nat \cup {None}] /\ edge \in SUBSET (Vertex \X Vertex)
    BY DEF Init
  <2>2. /\ \A u \in Update : files[u] \in Loads[u]
        /\ last \in Update \cup {None} /\ mixed \subseteq Update
        /\ restarts \in 0 .. MaxRestarts
    BY UpdateBatchesAssumption DEF Init
  <2> QED
    BY <1>3, <1>4, <2>1, <2>2 DEF TypeOK, Sized
<1>6. HandlerInv
  BY <1>3 DEF HandlerInv, Running
<1>7. DegreesNeedEdges
  BY DEF Init, DegreesNeedEdges, None
<1> QED
  BY <1>5, <1>6, <1>7 DEF BaseInv

LEMMA HandlersAreGood ==
  ASSUME BaseInv
  PROVE  /\ h \in [Update -> Local]
         /\ \A u \in Update : Good(h[u], edge) /\ files[u] \in Seq(File)
<1>1. h \in [Update -> Local] /\ \A u \in Update : Sized(h[u]) /\ files[u] \in Seq(File)
  BY UpdateBatchesAssumption DEF BaseInv, TypeOK, Sized
<1>2. \A u \in Update : Placed(h[u], edge)
  BY DEF BaseInv, HandlerInv, Running, Placed, Runs, Joined, Unsent
<1> QED
  BY <1>1, <1>2 DEF Good

(* It is enough to look at the handler that takes a step and at the edges  *)
(* and degrees: edges never go, and no other handler changes.              *)
LEMMA OneHandlerSteps ==
  ASSUME BaseInv, UNCHANGED files, NEW u \in Update, NEW l,
         Good(l, edge'), h' = [h EXCEPT ![u] = l],
         edge \subseteq edge', edge' \in SUBSET (Vertex \X Vertex),
         deg' \in [Vertex -> Nat \cup {None}],
         \A v \in Vertex : deg'[v] > 0 => deg[v] > 0 \/ Joined(v, edge'),
         last' \in Update \cup {None}, mixed' \subseteq Update,
         restarts' \in 0 .. MaxRestarts
  PROVE  BaseInv'
<1>1. h \in [Update -> Local] /\ \A w \in Update : Good(h[w], edge)
  BY HandlersAreGood
<1>2. \A w \in Update : Good(h[w], edge')
  BY <1>1 DEF Good, Placed, Joined
<1>3. h' \in [Update -> Local]
  BY <1>1 DEF Good
<1>4. \A w \in Update : Good(h'[w], edge')
  BY <1>1, <1>2
<1>5. TypeOK'
  <2>1. \A w \in Update : files'[w] \in Loads[w]
    BY DEF BaseInv, TypeOK
  <2> QED
    BY <1>3, <1>4, <2>1 DEF TypeOK, Good, Sized
<1>6. HandlerInv'
  BY <1>4 DEF HandlerInv, Running, Good, Placed, Runs, Joined, Unsent
<1>7. DegreesNeedEdges'
  BY DEF BaseInv, DegreesNeedEdges, Joined
<1> QED
  BY <1>5, <1>6, <1>7 DEF BaseInv

(* A handler that returns forgets what it counted.                         *)
LEMMA ReturnIsGood ==
  ASSUME BaseInv, NEW u \in Update, NEW how \in Ended, Return(u, how), NEW E
  PROVE  \E l : Good(l, E) /\ h' = [h EXCEPT ![u] = l] /\ last' \in Update \cup {None}
<1>1. Good(h[u], edge) /\ files[u] \in Seq(File)
  BY HandlersAreGood
<1>2. PICK l : l = [Fresh(u) EXCEPT !.pc = how, !.num = h[u].num]
  OBVIOUS
<1>3. l \in Local /\ Sized(l) /\ l.pc = how
  BY <1>1, <1>2, FreshIsGood DEF Good, Local, Sized
<1>4. Good(l, E)
  BY <1>3 DEF Good, Placed, Runs, Ended
<1>5. h' = [h EXCEPT ![u] = l] /\ last' = u
  BY <1>2 DEF Return
<1> QED
  BY <1>4, <1>5

LEMMA BeginStep ==
  ASSUME BaseInv, UNCHANGED files, NEW u \in Update, Begin(u) PROVE BaseInv'
<1>1. PICK l : l = Fresh(u)
  OBVIOUS
<1>2. files[u] \in Seq(File)
  BY HandlersAreGood
<1>3. /\ l \in Local /\ Sized(l)
      /\ l.pc = "next" /\ l.buf = <<>> /\ l.sent = 0
      /\ l.degMap = [v \in Vertex |-> 0]
  BY <1>1, <1>2, FreshIsGood
<1>4. Good(l, edge')
  BY <1>3 DEF Good, Placed
<1>5. /\ h' = [h EXCEPT ![u] = l]
      /\ deg' = deg /\ edge' = edge /\ last' = last /\ restarts' = restarts
      /\ mixed' \subseteq Update
  BY <1>1 DEF Begin, BaseInv, TypeOK
<1> QED
  BY <1>4, <1>5, OneHandlerSteps DEF BaseInv, TypeOK

LEMMA StopStep ==
  ASSUME BaseInv, UNCHANGED files, NEW u \in Update, Stop(u) PROVE BaseInv'
<1>1. CASE Return(u, "lost") /\ UNCHANGED restarts
  <2>1. PICK l : Good(l, edge) /\ h' = [h EXCEPT ![u] = l] /\ last' \in Update \cup {None}
    BY <1>1, ReturnIsGood DEF Ended
  <2> QED
    BY <1>1, <2>1, OneHandlerSteps DEF Stop, BaseInv, TypeOK
<1>2. CASE /\ restarts < MaxRestarts /\ restarts' = restarts + 1
           /\ h' = [h EXCEPT ![u].pc = "idle"] /\ last' = u
  <2>1. PICK l : l = [h[u] EXCEPT !.pc = "idle"]
    OBVIOUS
  <2>2. Good(l, edge)
    BY <2>1, HandlersAreGood DEF Good, Local, Sized, Placed, Runs
  <2>3. h' = [h EXCEPT ![u] = l]
    BY <1>2, <2>1
  <2>4. restarts' \in 0 .. MaxRestarts
    BY <1>2, UpdateBatchesAssumption DEF BaseInv, TypeOK
  <2> QED
    BY <1>2, <2>2, <2>3, <2>4, OneHandlerSteps DEF Stop, BaseInv, TypeOK
<1> QED
  BY <1>1, <1>2 DEF Stop

(* A step that touches neither the graph nor the history.                  *)
LEMMA LocalStep ==
  ASSUME BaseInv, UNCHANGED files, NEW u \in Update, UNCHANGED <<deg, edge, mixed, restarts>>,
         \/ \E how \in Ended : Return(u, how)
         \/ \E l : Good(l, edge) /\ h' = [h EXCEPT ![u] = l] /\ last' = last
  PROVE  BaseInv'
<1>1. PICK l : Good(l, edge) /\ h' = [h EXCEPT ![u] = l] /\ last' \in Update \cup {None}
  BY ReturnIsGood DEF BaseInv, TypeOK
<1> QED
  BY <1>1, OneHandlerSteps DEF BaseInv, TypeOK

LEMMA FetchSourceStep ==
  ASSUME BaseInv, UNCHANGED files, NEW u \in Update, FetchSource(u) PROVE BaseInv'
<1>1. CASE /\ h' = [h EXCEPT ![u].pc = "read", ![u].rows = Head(h[u].todo).rows]
           /\ last' = last
  <2>1. PICK l : l = [h[u] EXCEPT !.pc = "read", !.rows = Head(h[u].todo).rows]
    OBVIOUS
  <2>2. h[u].pc = "next" /\ h[u].todo # <<>>
    BY DEF FetchSource
  <2>3. Good(h[u], edge)
    BY HandlersAreGood
  <2>4. Head(h[u].todo) \in File
    BY <2>2, <2>3 DEF Good, Local
  <2>5. Head(h[u].todo).rows \in Seq(FileRow)
    BY <2>4 DEF File
  <2>6. l \in Local /\ Sized(l)
    BY <2>1, <2>3, <2>5 DEF Good, Local, Sized
  <2>7. Placed(l, edge)
    BY <2>1, <2>2, <2>3, UpdateBatchesAssumption DEF Good, Placed, Runs, Unsent, Local
  <2> QED
    BY <1>1, <2>1, <2>6, <2>7, LocalStep DEF FetchSource, Good
<1>2. CASE \E how \in Ended : Return(u, how)
  BY <1>2, LocalStep DEF FetchSource
<1> QED
  BY <1>1, <1>2 DEF FetchSource, Ended

LEMMA CountIsTyped ==
  ASSUME NEW d \in [Vertex -> Nat], NEW r \in FileRow
  PROVE  /\ Count(d, r) \in [Vertex -> Nat]
         /\ \A v \in Vertex : Count(d, r)[v] > 0 => d[v] > 0 \/ v \in {r.src, r.tgt}
<1>1. r.src \in Vertex /\ r.tgt \in Vertex
  BY DEF FileRow
<1>2. PICK once : once = [d EXCEPT ![r.src] = @ + 1]
  OBVIOUS
<1>4. once \in [Vertex -> Nat] /\ \A v \in Vertex : once[v] > 0 => d[v] > 0 \/ v = r.src
  BY <1>1, <1>2
<1>3. Count(d, r) = [once EXCEPT ![r.tgt] = @ + 1]
  BY <1>2 DEF Count
<1> QED
  BY <1>1, <1>3, <1>4

LEMMA ReadRowStep ==
  ASSUME BaseInv, UNCHANGED files, NEW u \in Update, ReadRow(u) PROVE BaseInv'
<1> DEFINE row == Head(h[u].rows)
           f == Head(h[u].todo)
<1>1. /\ h[u].pc = "read" /\ h[u].rows # <<>> /\ h[u].todo # <<>>
      /\ Len(h[u].buf) <= maxInsertNum /\ h[u].sent = 0
      /\ h[u] \in Local /\ Good(h[u], edge)
  BY HandlersAreGood DEF ReadRow, Good, Placed, Runs
<1>2. row \in FileRow /\ Tail(h[u].rows) \in Seq(FileRow)
  BY <1>1 DEF Local
<1>3. CASE h' = [h EXCEPT ![u].rows = Tail(@)] /\ last' = last
  <2>1. PICK l : l = [h[u] EXCEPT !.rows = Tail(@)]
    OBVIOUS
  <2>2. Good(l, edge)
    BY <1>1, <1>2, <2>1 DEF Good, Local, Sized, Placed, Runs, Unsent
  <2> QED
    BY <1>3, <2>1, <2>2, LocalStep DEF ReadRow
<1>4. CASE Return(u, "failed")
  BY <1>4, LocalStep DEF ReadRow, Ended
<1>5. CASE /\ h' = [h EXCEPT ![u].rows = Tail(@), ![u].buf = Append(h[u].buf, row),
                     ![u].pc = IF Len(Append(h[u].buf, row)) > maxInsertNum
                               THEN "flush" ELSE @,
                     ![u].degMap = IF f.type = "edge" THEN Count(@, row) ELSE @]
           /\ last' = last
  <2>1. PICK d : d = IF f.type = "edge" THEN Count(h[u].degMap, row) ELSE h[u].degMap
    OBVIOUS
  <2>2. PICK buf : buf = Append(h[u].buf, row)
    OBVIOUS
  <2>3. PICK pc : pc = IF Len(buf) > maxInsertNum THEN "flush" ELSE "read"
    OBVIOUS
  <2>4. PICK l : l = [h[u] EXCEPT !.rows = Tail(@), !.buf = buf, !.pc = pc, !.degMap = d]
    OBVIOUS
  <2>5. /\ d \in [Vertex -> Nat]
        /\ \A v \in Vertex : d[v] > 0 =>
             h[u].degMap[v] > 0 \/ (f.type = "edge" /\ v \in {row.src, row.tgt})
    <3>1. h[u].degMap \in [Vertex -> Nat]
      BY <1>1 DEF Local
    <3> HIDE DEF row, f
    <3> QED
      BY <1>2, <2>1, <3>1, CountIsTyped
  <2>6. /\ buf \in Seq(FileRow) /\ Len(buf) = Len(h[u].buf) + 1
        /\ buf[Len(buf)] = row
        /\ \A i \in 1 .. Len(h[u].buf) : buf[i] = h[u].buf[i]
    <3>1. h[u].buf \in Seq(FileRow)
      BY <1>1 DEF Local
    <3> HIDE DEF row
    <3> QED
      BY <1>2, <2>2, <3>1
  <2>7. /\ l.rows = Tail(h[u].rows) /\ l.buf = buf /\ l.pc = pc /\ l.degMap = d
        /\ l.todo = h[u].todo /\ l.sent = 0 /\ l \in Local
    BY <1>1, <1>2, <2>3, <2>4, <2>5, <2>6 DEF Local
  <2>8. Len(h[u].buf) \in Nat
    BY <1>1 DEF Local
  <2>9. Sized(l)
    BY <1>1, <2>6, <2>7, <2>8, UpdateBatchesAssumption DEF Sized
  <2>10. \A v \in Vertex : l.degMap[v] > 0 => Joined(v, edge) \/ Unsent(v, l)
    <3> SUFFICES ASSUME NEW v \in Vertex, d[v] > 0 PROVE Joined(v, edge) \/ Unsent(v, l)
      BY <2>7
    <3>1. CASE Joined(v, edge)
      BY <3>1
    <3>2. CASE Unsent(v, h[u])
      BY <1>1, <2>6, <2>7, <2>8, <3>2 DEF Unsent
    <3>3. CASE f.type = "edge" /\ v \in {row.src, row.tgt}
      <4>1. Len(buf) \in l.sent + 1 .. Len(l.buf)
        BY <2>6, <2>7, <2>8
      <4> QED
        BY <1>1, <2>6, <2>7, <3>3, <4>1 DEF Unsent
    <3> QED
      BY <1>1, <2>5, <3>1, <3>2, <3>3 DEF Good, Placed, Runs
  <2>11. Placed(l, edge)
    BY <1>1, <2>3, <2>6, <2>7, <2>8, <2>10, UpdateBatchesAssumption DEF Placed
  <2>12. h' = [h EXCEPT ![u] = l]
    BY <1>1, <1>5, <2>1, <2>2, <2>3, <2>4
  <2> QED
    BY <1>5, <2>7, <2>9, <2>11, <2>12, LocalStep DEF ReadRow, Good
<1> QED
  BY <1>3, <1>4, <1>5 DEF ReadRow

LEMMA ReadEndStep ==
  ASSUME BaseInv, UNCHANGED files, NEW u \in Update, ReadEnd(u) PROVE BaseInv'
<1>1. PICK l : l = [h[u] EXCEPT !.pc = "rest"]
  OBVIOUS
<1>2. Good(h[u], edge) /\ h[u].pc = "read"
  BY HandlersAreGood DEF ReadEnd
<1>3. Good(l, edge)
  BY <1>1, <1>2 DEF Good, Local, Sized, Placed, Runs, Unsent
<1> QED
  BY <1>1, <1>3, LocalStep DEF ReadEnd

LEMMA CountDegreesStep ==
  ASSUME BaseInv, UNCHANGED files, NEW u \in Update, CountDegrees(u) PROVE BaseInv'
<1>1. PICK L : L = {v \in Vertex : h[u].degMap[v] > 0}
  OBVIOUS
<1>2. PICK l : l = [h[u] EXCEPT !.pc = "deg", !.left = L]
  OBVIOUS
<1>3. Good(h[u], edge) /\ h[u].pc = "next"
  BY HandlersAreGood DEF CountDegrees
<1>4. Good(l, edge)
  BY <1>1, <1>2, <1>3 DEF Good, Local, Sized, Placed, Runs, Unsent
<1> QED
  BY <1>1, <1>2, <1>4, LocalStep DEF CountDegrees

(* The rest of a file has been sent: what was counted is in the graph.     *)
LEMMA InsertedStep ==
  ASSUME BaseInv, UNCHANGED files, NEW u \in Update, Inserted(u) PROVE BaseInv'
<1>a. CASE Return(u, "failed")
  BY <1>a, LocalStep DEF Inserted, Ended
<1>b. SUFFICES ASSUME ~ Return(u, "failed") PROVE BaseInv'
  BY <1>a
<1>1. /\ Good(h[u], edge) /\ h[u] \in Local /\ h[u].pc \in {"flush", "rest"}
      /\ h[u].sent = Len(h[u].buf) /\ h[u].todo # <<>>
  BY HandlersAreGood DEF Inserted, Good, Placed, Runs
<1>2. Head(h[u].todo) \in File /\ Tail(h[u].todo) \in Seq(File)
  BY <1>1 DEF Local
<1>3. Head(h[u].todo).type \in {"edge", "node"}
  BY <1>2 DEF File
<1>4. Len(h[u].buf) \in Nat
  BY <1>1 DEF Local
<1>5. PICK num : num = [h[u].num EXCEPT ![Head(h[u].todo).type] = @ + Len(h[u].buf)]
  OBVIOUS
<1>6. num \in [{"edge", "node"} -> Nat]
  BY <1>1, <1>3, <1>4, <1>5 DEF Local
<1>7. PICK todo : todo = IF h[u].pc = "rest" THEN Tail(h[u].todo) ELSE h[u].todo
  OBVIOUS
<1>8. PICK pc : pc = IF h[u].pc = "rest" THEN "next" ELSE "read"
  OBVIOUS
<1>9. PICK l : l = [h[u] EXCEPT !.num = num, !.sent = 0, !.buf = <<>>, !.todo = todo, !.pc = pc]
  OBVIOUS
<1>10. /\ l \in Local /\ l.sent = 0 /\ l.buf = <<>> /\ l.todo = todo /\ l.pc = pc
       /\ l.degMap = h[u].degMap
  <2>1. <<>> \in Seq(FileRow) /\ todo \in Seq(File) /\ pc \in {"next", "read"}
    BY <1>1, <1>2, <1>7, <1>8 DEF Local
  <2>2. PICK none : none = <<>>
    OBVIOUS
  <2>3. l = [h[u] EXCEPT !.num = num, !.sent = 0, !.buf = none, !.todo = todo, !.pc = pc]
    BY <1>9, <2>2
  <2>4. none \in Seq(FileRow)
    BY <2>1, <2>2
  <2>5. /\ l \in Local /\ l.sent = 0 /\ l.buf = none /\ l.todo = todo /\ l.pc = pc
        /\ l.degMap = h[u].degMap
    BY <1>1, <1>6, <2>1, <2>3, <2>4 DEF Local
  <2> QED
    BY <2>2, <2>5
<1>11. Sized(l)
  BY <1>10, UpdateBatchesAssumption DEF Sized
<1>12. \A v \in Vertex : h[u].degMap[v] > 0 => Joined(v, edge)
  BY <1>1, <1>4 DEF Good, Placed, Runs, Unsent
<1>13. Placed(l, edge)
  BY <1>1, <1>7, <1>8, <1>10, <1>12, UpdateBatchesAssumption DEF Placed
<1>14. h' = [h EXCEPT ![u] = l]
  BY <1>1, <1>5, <1>7, <1>8, <1>9, <1>b DEF Inserted
<1> QED
  BY <1>10, <1>11, <1>13, <1>14, <1>b, LocalStep DEF Inserted, Good

LEMMA RowsAreInserted ==
  ASSUME BaseInv, NEW f \in File, NEW S \in SUBSET FileRow, InsertRows(f, S)
  PROVE  /\ edge \subseteq edge' /\ edge' \in SUBSET (Vertex \X Vertex)
         /\ deg' \in [Vertex -> Nat \cup {None}]
         /\ \A v \in Vertex : deg'[v] > 0 => deg[v] > 0
         /\ f.type = "edge" => \A r \in S : Joined(r.src, edge') /\ Joined(r.tgt, edge')
<1>1. \A r \in S : r.src \in Vertex /\ r.tgt \in Vertex
  BY DEF FileRow
<1>2. edge \in SUBSET (Vertex \X Vertex) /\ deg \in [Vertex -> Nat \cup {None}]
  BY DEF BaseInv, TypeOK
<1>3. CASE f.type = "edge"
  <2>1. edge' = edge \cup UNION {EdgesOf(r) : r \in S} /\ deg' = deg
    BY <1>3 DEF InsertRows
  <2>2. \A r \in S : /\ EdgesOf(r) \subseteq Vertex \X Vertex
                     /\ <<r.src, r.tgt>> \in EdgesOf(r)
    BY <1>1 DEF EdgesOf
  <2>3. \A r \in S : <<r.src, r.tgt>> \in edge'
    BY <2>1, <2>2
  <2>4. \A r \in S : Joined(r.src, edge') /\ Joined(r.tgt, edge')
    BY <2>3 DEF Joined
  <2>5. edge' \subseteq Vertex \X Vertex
    BY <1>2, <2>1, <2>2
  <2> QED
    BY <1>2, <2>1, <2>4, <2>5
<1>4. CASE f.type # "edge"
  BY <1>2, <1>4 DEF InsertRows
<1> QED
  BY <1>3, <1>4

LEMMA PartIsInserted ==
  ASSUME BaseInv, NEW f \in File, NEW S \in SUBSET FileRow, InsertPart(f, S)
  PROVE  /\ edge \subseteq edge' /\ edge' \in SUBSET (Vertex \X Vertex)
         /\ deg' \in [Vertex -> Nat \cup {None}]
         /\ \A v \in Vertex : deg'[v] = deg[v] \/ deg'[v] = 0
<1>1. edge \in SUBSET (Vertex \X Vertex) /\ deg \in [Vertex -> Nat \cup {None}]
  BY DEF BaseInv, TypeOK
<1>2. CASE f.type = "edge"
  <2>1. \A r \in S : EdgesOf(r) \subseteq Vertex \X Vertex
    BY DEF EdgesOf, FileRow
  <2>2. PICK E \in SUBSET UNION {EdgesOf(r) : r \in S} : edge' = edge \cup E
    BY <1>2 DEF InsertPart
  <2>3. E \subseteq Vertex \X Vertex
    BY <2>1
  <2>4. deg' = deg
    BY <1>2 DEF InsertPart
  <2> QED
    BY <1>1, <2>2, <2>3, <2>4
<1>3. CASE f.type # "edge"
  <2>1. PICK R \in SUBSET S : InsertRows(f, R)
    BY <1>3 DEF InsertPart
  <2> QED
    BY <1>1, <1>3, <2>1 DEF InsertRows
<1> QED
  BY <1>2, <1>3

LEMMA InsertStep ==
  ASSUME BaseInv, UNCHANGED files, NEW u \in Update, Insert(u) PROVE BaseInv'
<1> DEFINE f == Head(h[u].todo)
           n == IF h[u].sent + Batch < Len(h[u].buf)
                THEN h[u].sent + Batch ELSE Len(h[u].buf)
           S == {h[u].buf[i] : i \in h[u].sent + 1 .. n}
<1>1. /\ Good(h[u], edge) /\ h[u] \in Local /\ h[u].pc \in {"flush", "rest"}
      /\ h[u].todo # <<>> /\ h[u].sent < Len(h[u].buf)
  BY HandlersAreGood DEF Insert, Good, Placed, Runs
<1>2. f \in File
  BY <1>1 DEF Local
<1>3. h[u].buf \in Seq(FileRow) /\ h[u].sent \in Nat
  BY <1>1 DEF Local
<1>4. Len(h[u].buf) \in Nat
  BY <1>3
<1>5. n \in Nat /\ n <= Len(h[u].buf) /\ h[u].sent <= n
  BY <1>1, <1>3, <1>4, UpdateBatchesAssumption
<1> HIDE DEF n
<1>6. S \in SUBSET FileRow
  BY <1>3, <1>4, <1>5
<1> HIDE DEF S, f
<1>7. CASE UNCHANGED <<deg, edge>> /\ Return(u, "failed")
  BY <1>7, LocalStep DEF Insert, Ended
<1>9. CASE InsertPart(f, S) /\ Return(u, "failed")
  <2>1. /\ edge \subseteq edge' /\ edge' \in SUBSET (Vertex \X Vertex)
        /\ deg' \in [Vertex -> Nat \cup {None}]
        /\ \A v \in Vertex : deg'[v] = deg[v] \/ deg'[v] = 0
    BY <1>2, <1>6, <1>9, PartIsInserted
  <2>2. mixed' \subseteq Update /\ restarts' \in 0 .. MaxRestarts
    BY DEF Insert, BaseInv, TypeOK
  <2>3. PICK l : Good(l, edge') /\ h' = [h EXCEPT ![u] = l] /\ last' \in Update \cup {None}
    BY <1>9, ReturnIsGood DEF Ended
  <2>4. \A v \in Vertex : deg'[v] > 0 => deg[v] > 0
    BY <2>1
  <2> QED
    BY <2>1, <2>2, <2>3, <2>4, OneHandlerSteps
<1>8. CASE InsertRows(f, S) /\ h' = [h EXCEPT ![u].sent = n] /\ last' = last
  <2>1. /\ edge \subseteq edge' /\ edge' \in SUBSET (Vertex \X Vertex)
        /\ deg' \in [Vertex -> Nat \cup {None}]
        /\ \A v \in Vertex : deg'[v] > 0 => deg[v] > 0
        /\ f.type = "edge" => \A r \in S : Joined(r.src, edge') /\ Joined(r.tgt, edge')
    BY <1>2, <1>6, <1>8, RowsAreInserted
  <2>2. mixed' \subseteq Update /\ restarts' \in 0 .. MaxRestarts
    BY DEF Insert, BaseInv, TypeOK
  <2>4. BaseInv'
    <3>1. PICK l : l = [h[u] EXCEPT !.sent = n]
      OBVIOUS
    <3>2. /\ l \in Local /\ l.sent = n /\ l.pc = h[u].pc /\ l.buf = h[u].buf
          /\ l.todo = h[u].todo /\ l.degMap = h[u].degMap
      BY <1>1, <1>5, <3>1 DEF Local
    <3>3. Sized(l)
      BY <1>1, <1>4, <1>5, <3>2 DEF Sized, Good
    <3>4. ASSUME NEW v \in Vertex, l.degMap[v] > 0 PROVE Joined(v, edge') \/ Unsent(v, l)
      <4>1. CASE Joined(v, edge)
        BY <2>1, <4>1 DEF Joined
      <4>2. CASE Unsent(v, h[u])
        <5>1. PICK i \in h[u].sent + 1 .. Len(h[u].buf) :
                v \in {h[u].buf[i].src, h[u].buf[i].tgt}
          BY <4>2 DEF Unsent
        <5>2. f.type = "edge"
          BY <4>2 DEF Unsent, f
        <5>3. CASE i <= n
          <6>1. h[u].buf[i] \in S
            BY <1>3, <1>4, <1>5, <5>1, <5>3 DEF S
          <6> QED
            BY <2>1, <5>1, <5>2, <6>1
        <5>4. CASE ~ i <= n
          <6>1. i \in l.sent + 1 .. Len(l.buf)
            BY <1>3, <1>4, <1>5, <3>2, <5>1, <5>4
          <6> QED
            BY <3>2, <4>2, <5>1, <6>1 DEF Unsent
        <5> QED
          BY <5>3, <5>4
      <4> QED
        BY <1>1, <3>2, <3>4, <4>1, <4>2 DEF Good, Placed, Runs
    <3>5. Placed(l, edge')
      BY <1>1, <3>2, <3>4 DEF Placed
    <3> QED
      BY <1>8, <2>1, <2>2, <3>1, <3>2, <3>3, <3>5, OneHandlerSteps
      DEF Good, BaseInv, TypeOK
  <2> QED
    BY <2>4
<1> QED
  BY <1>7, <1>8, <1>9 DEF Insert, n, S, f

(* All rows have been sent when degrees are added.                         *)
LEMMA DegreesAreAdded ==
  ASSUME BaseInv, NEW u \in Update, h[u].pc = "deg",
         NEW S \in SUBSET h[u].left, AddDegrees(u, S)
  PROVE  /\ deg' \in [Vertex -> Nat \cup {None}]
         /\ \A v \in Vertex : deg'[v] > 0 => deg[v] > 0 \/ Joined(v, edge)
<1>1. Good(h[u], edge) /\ h[u].buf = <<>> /\ h[u].sent = 0
  BY HandlersAreGood DEF Good, Placed, Runs
<1>2. \A v \in Vertex : h[u].degMap[v] > 0 => Joined(v, edge)
  BY <1>1 DEF Good, Placed, Runs, Unsent
<1>3. h[u].degMap \in [Vertex -> Nat] /\ deg \in [Vertex -> Nat \cup {None}]
  BY <1>1 DEF Good, Local, BaseInv, TypeOK
<1>4. \A v \in Vertex : deg[v] # None => deg[v] + h[u].degMap[v] \in Nat
  BY <1>3 DEF None
<1> QED
  BY <1>2, <1>3, <1>4 DEF AddDegrees, None

LEMMA MultiIncNodesDegStep ==
  ASSUME BaseInv, UNCHANGED files, NEW u \in Update, MultiIncNodesDeg(u)
  PROVE  BaseInv'
<1>1. /\ h[u].pc = "deg" /\ edge' = edge /\ mixed' = mixed /\ restarts' = restarts
  BY DEF MultiIncNodesDeg
<1>2. CASE (Return(u, "done") \/ Return(u, "failed")) /\ UNCHANGED deg
  BY <1>1, <1>2, LocalStep DEF Ended
<1>3. ASSUME NEW S \in SUBSET h[u].left, AddDegrees(u, S),
             h' = [h EXCEPT ![u].left = @ \ S] /\ last' = last
      PROVE  BaseInv'
  <2>1. PICK L : L = h[u].left \ S
    OBVIOUS
  <2>2. PICK l : l = [h[u] EXCEPT !.left = L]
    OBVIOUS
  <2>3. Good(l, edge)
    <3>1. Good(h[u], edge) /\ h[u] \in Local
      BY HandlersAreGood DEF Good
    <3>2. L \in SUBSET Vertex
      BY <2>1, <3>1 DEF Local
    <3>3. /\ l \in Local /\ l.pc = "deg" /\ l.buf = h[u].buf /\ l.sent = h[u].sent
          /\ l.todo = h[u].todo /\ l.degMap = h[u].degMap
      BY <1>1, <2>2, <3>1, <3>2 DEF Local
    <3> QED
      BY <1>1, <3>1, <3>3 DEF Good, Sized, Placed, Runs, Unsent
  <2>4. h' = [h EXCEPT ![u] = l]
    BY <1>3, <2>1, <2>2
  <2> QED
    BY <1>1, <1>3, <2>3, <2>4, DegreesAreAdded, OneHandlerSteps DEF BaseInv, TypeOK
<1>4. ASSUME NEW S \in SUBSET h[u].left, AddDegrees(u, S), Return(u, "failed")
      PROVE  BaseInv'
  <2>1. PICK l : Good(l, edge) /\ h' = [h EXCEPT ![u] = l] /\ last' \in Update \cup {None}
    BY <1>4, ReturnIsGood DEF Ended
  <2> QED
    BY <1>1, <1>4, <2>1, DegreesAreAdded, OneHandlerSteps DEF BaseInv, TypeOK
<1> QED
  BY <1>2, <1>3, <1>4 DEF MultiIncNodesDeg

-----------------------------------------------------------------------------
(* The lines of the files, and how reading one adds it to those read.      *)

LEMMA LinesTyped ==
  ASSUME NEW F \in Seq(File)
  PROVE  /\ \A p : p \in Lines(F) <=> /\ p = <<p[1], p[2]>>
                                      /\ p[1] \in 1 .. Len(F)
                                      /\ p[2] \in 1 .. Len(F[p[1]].rows)
         /\ \A i \in 1 .. Len(F) : F[i].rows \in Seq(FileRow)
         /\ \A p \in Lines(F) : RowAt(F, p) \in FileRow
<1>1. \A i \in 1 .. Len(F) : F[i] \in File
  OBVIOUS
<1>2. \A i \in 1 .. Len(F) : F[i].rows \in Seq(FileRow)
  BY <1>1 DEF File
<1>3. \A i \in 1 .. Len(F) : DOMAIN F[i].rows = 1 .. Len(F[i].rows)
  BY <1>2
<1>4. DOMAIN F = 1 .. Len(F)
  OBVIOUS
<1>5. ASSUME NEW p
      PROVE  p \in Lines(F) <=> /\ p = <<p[1], p[2]>>
                                /\ p[1] \in 1 .. Len(F)
                                /\ p[2] \in 1 .. Len(F[p[1]].rows)
  <2>1. p \in Lines(F) <=> \E i \in 1 .. Len(F) : p \in {i} \X (1 .. Len(F[i].rows))
    BY <1>3, <1>4 DEF Lines
  <2> QED
    BY <2>1
<1>6. \A p \in Lines(F) : RowAt(F, p) \in FileRow
  BY <1>2, <1>5 DEF RowAt
<1> QED
  BY <1>2, <1>5, <1>6

LEMMA LinesFinite ==
  ASSUME NEW F \in Seq(File)
  PROVE  \A P \in SUBSET Lines(F) : IsFiniteSet(P) /\ Cardinality(P) \in Nat
<1>1. \A i \in 1 .. Len(F) : IsFiniteSet({i} \X DOMAIN F[i].rows)
  <2> SUFFICES ASSUME NEW i \in 1 .. Len(F) PROVE IsFiniteSet({i} \X DOMAIN F[i].rows)
    OBVIOUS
  <2>1. PICK n \in Int : DOMAIN F[i].rows = 1 .. n
    BY LinesTyped
  <2>2. IsFiniteSet(1 .. n)
    BY FS_Interval
  <2>3. IsFiniteSet({i})
    BY FS_Singleton
  <2> QED
    BY <2>1, <2>2, <2>3, FS_Product
<1>2. PICK files_ : files_ = {{i} \X DOMAIN F[i].rows : i \in 1 .. Len(F)}
  OBVIOUS
<1>3. IsFiniteSet(files_)
  <2>1. PICK f : f = [i \in 1 .. Len(F) |-> {i} \X DOMAIN F[i].rows]
    OBVIOUS
  <2>2. f \in Surjection(1 .. Len(F), files_)
    BY <1>2, <2>1 DEF Surjection
  <2>3. IsFiniteSet(1 .. Len(F))
    BY FS_Interval
  <2> QED
    BY <2>2, <2>3, FS_Surjection
<1>4. \A T \in files_ : IsFiniteSet(T)
  BY <1>1, <1>2
<1>5. Lines(F) = UNION files_
  BY <1>2 DEF Lines
<1>6. IsFiniteSet(Lines(F))
  BY <1>3, <1>4, <1>5, FS_UNION
<1> QED
  BY <1>6, FS_Subset, FS_CardinalityType

(* One more line adds one for each of its ends.                            *)
LEMMA DegreeGrows ==
  ASSUME NEW F \in Seq(File), NEW P \in SUBSET Lines(F), NEW q \in Lines(F), q \notin P,
         NEW v
  PROVE  /\ DegreeIn(F, P, v) \in Nat
         /\ DegreeIn(F, P \cup {q}, v) =
              DegreeIn(F, P, v) + (IF RowAt(F, q).src = v THEN 1 ELSE 0)
                                + (IF RowAt(F, q).tgt = v THEN 1 ELSE 0)
<1>1. PICK A : A = {p \in P : RowAt(F, p).src = v}
  OBVIOUS
<1>2. PICK B : B = {p \in P : RowAt(F, p).tgt = v}
  OBVIOUS
<1>3. /\ IsFiniteSet(A) /\ IsFiniteSet(B)
      /\ Cardinality(A) \in Nat /\ Cardinality(B) \in Nat
      /\ q \notin A /\ q \notin B
  BY <1>1, <1>2, LinesFinite
<1>4. /\ Cardinality(A \cup {q}) = Cardinality(A) + 1
      /\ Cardinality(B \cup {q}) = Cardinality(B) + 1
  BY <1>3, FS_AddElement
<1>5. {p \in P \cup {q} : RowAt(F, p).src = v} =
        IF RowAt(F, q).src = v THEN A \cup {q} ELSE A
  BY <1>1
<1>6. {p \in P \cup {q} : RowAt(F, p).tgt = v} =
        IF RowAt(F, q).tgt = v THEN B \cup {q} ELSE B
  BY <1>2
<1>7. DegreeIn(F, P, v) = Cardinality(A) + Cardinality(B)
  BY <1>1, <1>2 DEF DegreeIn
<1>8. DegreeIn(F, P \cup {q}, v) =
        Cardinality(IF RowAt(F, q).src = v THEN A \cup {q} ELSE A)
          + Cardinality(IF RowAt(F, q).tgt = v THEN B \cup {q} ELSE B)
  BY <1>5, <1>6 DEF DegreeIn
<1> QED
  BY <1>3, <1>4, <1>7, <1>8

LEMMA CurrentFile ==
  ASSUME NEW F \in Seq(File), NEW l \in Local, ReaderInv(F, l), l.todo # <<>>
  PROVE  /\ Len(F) - Len(l.todo) + 1 \in 1 .. Len(F)
         /\ Head(l.todo) = F[Len(F) - Len(l.todo) + 1]
         /\ Head(l.todo) \in File
<1>1. l.todo \in Seq(File)
  BY DEF Local
<1>2. Len(l.todo) \in Nat \ {0} /\ 1 \in DOMAIN l.todo /\ Head(l.todo) = l.todo[1]
  BY <1>1
<1>3. Len(F) \in Nat /\ Len(l.todo) <= Len(F)
  BY DEF ReaderInv
<1>4. l.todo[1] = F[Len(F) - Len(l.todo) + 1]
  BY <1>2 DEF ReaderInv
<1>5. Len(F) - Len(l.todo) + 1 \in 1 .. Len(F)
  BY <1>2, <1>3
<1>6. l.todo[1] \in File
  BY <1>1, <1>2
<1> QED
  BY <1>2, <1>4, <1>5, <1>6

LEMMA GoodReadIsLines ==
  ASSUME NEW F \in Seq(File), NEW l, NEW t
  PROVE  /\ GoodRead(F, l, t) \in SUBSET Lines(F)
         /\ GoodRows(F, t) \in SUBSET Lines(F)
         /\ GoodRead(F, l, t) \in SUBSET GoodRows(F, t)
BY DEF GoodRead, GoodRows

(* Reading a row makes one line read that was not.                         *)
LEMMA NextLine ==
  ASSUME NEW F \in Seq(File), NEW l \in Local, NEW m \in Local, ReaderInv(F, l),
         l.pc = "read", l.todo # <<>>, l.rows # <<>>,
         m.pc \in {"read", "flush"}, m.todo = l.todo, m.rows = Tail(l.rows)
  PROVE  /\ ReaderInv(F, m)
         /\ \E q \in Lines(F) :
              /\ F[q[1]] = Head(l.todo) /\ RowAt(F, q) = Head(l.rows)
              /\ q \notin LinesRead(F, l)
              /\ LinesRead(F, m) = LinesRead(F, l) \cup {q}
<1>1. PICK k : k = Len(F) - Len(l.todo) + 1
  OBVIOUS
<1>2. k \in 1 .. Len(F) /\ Head(l.todo) = F[k]
  BY <1>1, CurrentFile
<1>3. PICK all : all = F[k].rows
  OBVIOUS
<1>4. all \in Seq(FileRow) /\ l.rows \in Seq(FileRow)
  BY <1>2, <1>3, LinesTyped DEF Local
<1>5. /\ Len(l.rows) \in Nat \ {0} /\ Len(all) \in Nat /\ Len(l.rows) <= Len(all)
      /\ \A j \in 1 .. Len(l.rows) : l.rows[j] = all[Len(all) - Len(l.rows) + j]
      /\ Head(l.rows) = l.rows[1]
      /\ Len(m.rows) = Len(l.rows) - 1
      /\ \A j \in 1 .. Len(l.rows) - 1 : m.rows[j] = l.rows[j + 1]
  <2>1. /\ Len(l.rows) \in Nat \ {0} /\ Len(all) \in Nat
        /\ Head(l.rows) = l.rows[1] /\ DOMAIN l.rows = 1 .. Len(l.rows)
        /\ Len(Tail(l.rows)) = Len(l.rows) - 1
        /\ \A j \in 1 .. Len(l.rows) - 1 : Tail(l.rows)[j] = l.rows[j + 1]
    BY <1>4
  <2> QED
    BY <1>2, <1>3, <2>1 DEF ReaderInv
<1>6. PICK n : n = Len(all) - Len(l.rows) + 1
  OBVIOUS
<1>7. PICK q : q = <<k, n>>
  OBVIOUS
<1>8. q[1] = k /\ q[2] = n /\ n \in 1 .. Len(all)
  BY <1>5, <1>6, <1>7
<1>9. q \in Lines(F) /\ RowAt(F, q) = Head(l.rows)
  <2>1. q \in Lines(F)
    BY <1>2, <1>3, <1>7, <1>8, LinesTyped
  <2>2. all[n] = l.rows[1]
    <3>1. 1 \in 1 .. Len(l.rows)
      BY <1>5
    <3> QED
      BY <1>5, <1>6, <3>1
  <2> QED
    BY <1>3, <1>5, <1>8, <2>1, <2>2 DEF RowAt
<1>10. \A p \in Lines(F) : p[1] \in Int /\ p[2] \in Int /\ p = <<p[1], p[2]>>
  <2>1. \A p \in Lines(F) : p[1] \in 1 .. Len(F) /\ p = <<p[1], p[2]>>
    BY LinesTyped
  <2>2. \A p \in Lines(F) : p[2] \in 1 .. Len(F[p[1]].rows)
    BY LinesTyped
  <2> QED
    BY <2>1, <2>2
<1>11. \A p : p \in LinesRead(F, l) <=>
         p \in Lines(F) /\ (p[1] <= k - 1 \/ (p[1] = k /\ p[2] <= n - 1))
  <2>1. Len(F) - Len(l.todo) = k - 1 /\ k - 1 + 1 = k
    BY <1>1, <1>2
  <2>2. Len(all) - Len(l.rows) = n - 1
    BY <1>5, <1>6
  <2> QED
    BY <1>3, <2>1, <2>2 DEF LinesRead
<1>12. \A p : p \in LinesRead(F, m) <=>
         p \in Lines(F) /\ (p[1] <= k - 1 \/ (p[1] = k /\ p[2] <= n))
  <2>1. Len(F) - Len(m.todo) = k - 1 /\ k - 1 + 1 = k
    BY <1>1, <1>2
  <2>2. Len(all) - Len(m.rows) = n
    <3>1. ASSUME NEW a \in Nat, NEW b \in Nat PROVE a - (b - 1) = a - b + 1
      OBVIOUS
    <3> QED
      BY <1>5, <1>6, <3>1
  <2> QED
    BY <1>3, <2>1, <2>2 DEF LinesRead
<1>13. q \notin LinesRead(F, l)
  BY <1>2, <1>8, <1>11
<1>14. LinesRead(F, m) = LinesRead(F, l) \cup {q}
  <2>1. ASSUME NEW p \in Lines(F)
        PROVE  p \in LinesRead(F, m) <=> p \in LinesRead(F, l) \cup {q}
    <3>1. p = q <=> p[1] = k /\ p[2] = n
      BY <1>7, <1>8, <1>10
    <3> QED
      BY <1>8, <1>10, <1>11, <1>12, <3>1
  <2> QED
    BY <1>9, <1>11, <1>12, <2>1
<1>15. ReaderInv(F, m)
  <2>1. m.pc # "rest" /\ m.pc # "deg"
    OBVIOUS
  <2>2. Len(m.rows) <= Len(all) /\ DOMAIN m.rows = 1 .. Len(m.rows)
    BY <1>4, <1>5 DEF Local
  <2>3. ASSUME NEW j \in 1 .. Len(m.rows)
        PROVE  m.rows[j] = all[Len(all) - Len(m.rows) + j]
    <3>1. j \in 1 .. Len(l.rows) - 1 /\ j + 1 \in 1 .. Len(l.rows)
      BY <1>5
    <3>2. m.rows[j] = l.rows[j + 1]
      BY <1>5, <3>1
    <3>3. Len(all) - Len(m.rows) + j = Len(all) - Len(l.rows) + (j + 1)
      <4>1. PICK a \in Nat : a = Len(all)
        BY <1>5
      <4>2. PICK b \in Nat : b = Len(l.rows)
        BY <1>5
      <4>3. j \in Nat /\ Len(m.rows) = b - 1
        BY <1>5, <4>2
      <4>4. a - (b - 1) + j = a - b + (j + 1)
        BY <4>3
      <4> QED
        BY <4>1, <4>2, <4>3, <4>4, Zenon
    <3> QED
      BY <1>5, <3>1, <3>2, <3>3
  <2> QED
    BY <1>2, <1>3, <2>1, <2>2, <2>3 DEF ReaderInv
<1> QED
  BY <1>2, <1>8, <1>9, <1>13, <1>14, <1>15

-----------------------------------------------------------------------------
(* What one handler does to the rows, and what it leaves to the others.    *)

EndInv == CountersMatchRows /\ DoneLeavesNoDanglingEdge /\ DegreesOfLastLoad
AllInv == BaseInv /\ RowsInv /\ EndInv

\* The graph only grows: edges and vertices stay.
Grows ==
  /\ files' = files
  /\ edge \subseteq edge'
  /\ \A v \in Vertex : deg[v] # None => deg'[v] # None

Follows(F, l, D, E, alone) ==
  /\ ReaderInv(F, l) /\ CounterInv(F, l) /\ GraphInv(F, l, D, E)
  /\ alone => AloneInv(F, l, D)

LEMMA HandlerFollows ==
  ASSUME BaseInv, RowsInv, NEW u \in Update, Running(u)
  PROVE  /\ h[u] \in Local /\ files[u] \in Seq(File) /\ Good(h[u], edge)
         /\ Follows(files[u], h[u], deg, edge, u \notin mixed)
         /\ u \notin mixed => \A v \in Update : Running(v) => v = u
BY HandlersAreGood DEF RowsInv, Follows

(* A step of one handler disturbs no other: only an update that runs alone *)
(* relies on the degrees.                                                  *)
LEMMA RowsAfterStep ==
  ASSUME BaseInv, BaseInv', RowsInv, Grows, mixed' = mixed,
         NEW u \in Update, Running(u), NEW l, h' = [h EXCEPT ![u] = l],
         Runs(l) => Follows(files[u], l, deg', edge', u \notin mixed)
  PROVE  RowsInv'
<1>1. h'[u] = l /\ \A w \in Update : w # u => h'[w] = h[w]
  BY HandlersAreGood
<1>2. \A w \in Update : Running(w)' => Running(w)
  BY <1>1 DEF Running
<1>3. ASSUME NEW w \in Update, Running(w)'
      PROVE  /\ ReaderInv(files[w], h'[w]) /\ CounterInv(files[w], h'[w])
             /\ GraphInv(files[w], h'[w], deg', edge')
             /\ w \notin mixed => AloneInv(files[w], h'[w], deg')
  <2>1. CASE w = u
    <3>1. Runs(l)
      BY <1>1, <1>3, <2>1 DEF Running, Runs
    <3> QED
      BY <1>1, <2>1, <3>1 DEF Follows
  <2>2. CASE w # u
    <3>1. Running(w) /\ w \in mixed
      BY <1>2, <1>3, <2>2 DEF RowsInv
    <3>2. ReaderInv(files[w], h[w]) /\ CounterInv(files[w], h[w])
      BY <3>1 DEF RowsInv
    <3>3. GraphInv(files[w], h[w], deg', edge')
      BY <3>1 DEF RowsInv, GraphInv, Grows
    <3> QED
      BY <1>1, <2>2, <3>1, <3>2, <3>3
  <2> QED
    BY <2>1, <2>2
<1>4. \A w \in Update : Running(w)' /\ w \notin mixed =>
        \A v \in Update : Running(v)' => v = w
  BY <1>2 DEF RowsInv
<1>5. files' = files
  BY DEF Grows
<1> QED
  BY <1>3, <1>4, <1>5 DEF RowsInv

LEMMA ReadIsBounded ==
  ASSUME NEW F \in Seq(File), NEW l \in Local, CounterInv(F, l), NEW t \in {"edge", "node"}
  PROVE  l.num[t] <= Cardinality(GoodRows(F, t))
<1>1. /\ IsFiniteSet(GoodRows(F, t)) /\ Cardinality(GoodRows(F, t)) \in Nat
      /\ Cardinality(GoodRead(F, l, t)) \in Nat
  BY LinesFinite, GoodReadIsLines
<1>2. Cardinality(GoodRead(F, l, t)) <= Cardinality(GoodRows(F, t))
  BY <1>1, GoodReadIsLines, FS_Subset
<1>3. PICK G : G = {i \in DOMAIN l.buf : Current(l, t) /\ l.buf[i].kind = "good"}
  OBVIOUS
<1>4. Cardinality(G) \in Nat
  <2>1. PICK n \in Nat : DOMAIN l.buf = 1 .. n
    BY DEF Local
  <2>2. IsFiniteSet(1 .. n)
    BY FS_Interval
  <2> QED
    BY <1>3, <2>1, <2>2, FS_Subset, FS_CardinalityType
<1>5. l.num[t] \in Nat
  BY DEF Local
<1>6. Cardinality(GoodRead(F, l, t)) = l.num[t] + Cardinality(G)
  BY <1>3 DEF CounterInv
<1> QED
  BY <1>1, <1>2, <1>4, <1>5, <1>6

(* A handler that goes on.                                                 *)
LEMMA AllAfterMove ==
  ASSUME AllInv, BaseInv', Grows, mixed' = mixed, last' = last,
         NEW u \in Update, Running(u), NEW l, h' = [h EXCEPT ![u] = l], Runs(l),
         Follows(files[u], l, deg', edge', u \notin mixed)
  PROVE  AllInv'
<1>1. h'[u] = l /\ \A w \in Update : w # u => h'[w] = h[w]
  BY HandlersAreGood DEF AllInv
<1>2. RowsInv'
  BY RowsAfterStep DEF AllInv
<1>3. Running(u)' /\ l.pc # "done"
  BY <1>1 DEF Running, Runs
<1>4. l \in Local
  BY <1>1 DEF BaseInv, TypeOK
<1>5. files' = files /\ files[u] \in Seq(File)
  BY HandlersAreGood DEF Grows, AllInv
<1>6. CountersMatchRows'
  <2>1. \A t \in {"edge", "node"} : l.num[t] <= Cardinality(GoodRows(files[u], t))
    BY <1>4, <1>5, ReadIsBounded DEF Follows
  <2> QED
    BY <1>1, <1>3, <1>5, <2>1 DEF CountersMatchRows, AllInv, EndInv
<1>7. DoneLeavesNoDanglingEdge'
  <2>1. ASSUME NEW w \in Update, h'[w].pc = "done", NEW p \in GoodRows(files[w], "edge")
        PROVE  LET r == RowAt(files[w], p) IN
               EdgesOf(r) \subseteq edge' /\ deg'[r.src] # None /\ deg'[r.tgt] # None
    <3>1. w # u /\ h[w].pc = "done"
      BY <1>1, <1>3, <2>1
    <3>2. PICK r : r = RowAt(files[w], p)
      OBVIOUS
    <3>3. EdgesOf(r) \subseteq edge /\ deg[r.src] # None /\ deg[r.tgt] # None
      BY <3>1, <3>2 DEF DoneLeavesNoDanglingEdge, AllInv, EndInv
    <3>4. r.src \in Vertex /\ r.tgt \in Vertex
      <4>1. files[w] \in Seq(File)
        BY HandlersAreGood DEF AllInv
      <4> QED
        BY <3>2, <4>1, LinesTyped, GoodReadIsLines DEF FileRow
    <3> QED
      BY <3>2, <3>3, <3>4 DEF Grows
  <2> QED
    BY <1>5, <2>1 DEF DoneLeavesNoDanglingEdge
<1>8. DegreesOfLastLoad'
  BY <1>3 DEF DegreesOfLastLoad
<1> QED
  BY <1>2, <1>6, <1>7, <1>8 DEF AllInv, EndInv

(* A handler that returns, and what must hold when it has succeeded.       *)
Finished(F, l, D, E, alone) ==
  /\ \A t \in {"edge", "node"} : l.num[t] = Cardinality(GoodRows(F, t))
  /\ \A p \in GoodRows(F, "edge") :
       LET r == RowAt(F, p) IN
       EdgesOf(r) \subseteq E /\ D[r.src] # None /\ D[r.tgt] # None
  /\ alone => \A p \in GoodRows(F, "node") :
       LET v == RowAt(F, p).src IN D[v] = DegreeIn(F, GoodRows(F, "edge"), v)

LEMMA AllAfterReturn ==
  ASSUME AllInv, BaseInv', Grows, mixed' = mixed,
         NEW u \in Update, Running(u), NEW l, h' = [h EXCEPT ![u] = l], last' = u,
         l.num = h[u].num, ~ Runs(l),
         l.pc = "done" => Finished(files[u], h[u], deg', edge', u \notin mixed)
  PROVE  AllInv'
<1>1. h'[u] = l /\ \A w \in Update : w # u => h'[w] = h[w]
  BY HandlersAreGood DEF AllInv
<1>2. RowsInv'
  BY RowsAfterStep DEF AllInv
<1>3. files' = files /\ files[u] \in Seq(File)
  BY HandlersAreGood DEF Grows, AllInv
<1>4. CountersMatchRows'
  BY <1>1, <1>3 DEF CountersMatchRows, AllInv, EndInv, Finished
<1>5. DoneLeavesNoDanglingEdge'
  <2>1. ASSUME NEW w \in Update, h'[w].pc = "done", NEW p \in GoodRows(files[w], "edge")
        PROVE  LET r == RowAt(files[w], p) IN
               EdgesOf(r) \subseteq edge' /\ deg'[r.src] # None /\ deg'[r.tgt] # None
    <3>1. CASE w = u
      BY <1>1, <2>1, <3>1 DEF Finished
    <3>2. CASE w # u
      <4>1. h[w].pc = "done"
        BY <1>1, <2>1, <3>2
      <4>2. PICK r : r = RowAt(files[w], p)
        OBVIOUS
      <4>3. EdgesOf(r) \subseteq edge /\ deg[r.src] # None /\ deg[r.tgt] # None
        BY <4>1, <4>2 DEF DoneLeavesNoDanglingEdge, AllInv, EndInv
      <4>4. files[w] \in Seq(File)
        BY HandlersAreGood DEF AllInv
      <4>5. r.src \in Vertex /\ r.tgt \in Vertex
        BY <4>2, <4>4, LinesTyped, GoodReadIsLines DEF FileRow
      <4> QED
        BY <4>2, <4>3, <4>5 DEF Grows
    <3> QED
      BY <3>1, <3>2
  <2> QED
    BY <1>3, <2>1 DEF DoneLeavesNoDanglingEdge
<1>6. DegreesOfLastLoad'
  BY <1>1, <1>3 DEF DegreesOfLastLoad, Finished
<1> QED
  BY <1>2, <1>4, <1>5, <1>6 DEF AllInv, EndInv

LEMMA AllAfterReturning ==
  ASSUME AllInv, BaseInv', Grows, mixed' = mixed,
         NEW u \in Update, Running(u), NEW how \in Ended, Return(u, how),
         how = "done" => Finished(files[u], h[u], deg', edge', u \notin mixed)
  PROVE  AllInv'
<1>1. PICK l : l = [Fresh(u) EXCEPT !.pc = how, !.num = h[u].num]
  OBVIOUS
<1>2. l.pc = how /\ l.num = h[u].num
  BY <1>1 DEF Fresh
<1>3. h' = [h EXCEPT ![u] = l] /\ last' = u
  BY <1>1 DEF Return
<1>4. ~ Runs(l)
  BY <1>2 DEF Runs, Ended
<1> QED
  BY <1>2, <1>3, <1>4, AllAfterReturn

LEMMA NothingIsRead ==
  ASSUME NEW F \in Seq(File), NEW l, l.todo = F, l.pc = "next"
  PROVE  ReaderInv(F, l) /\ LinesRead(F, l) = {}
<1>1. Len(F) \in Nat
  OBVIOUS
<1>2. ReaderInv(F, l)
  BY <1>1 DEF ReaderInv
<1>3. \A p \in Lines(F) : ~ p[1] <= 0
  BY LinesTyped
<1>4. Len(F) - Len(l.todo) = 0
  BY <1>1
<1> QED
  BY <1>2, <1>3, <1>4 DEF LinesRead

LEMMA BeginKeepsAll ==
  ASSUME AllInv, BaseInv', UNCHANGED files, NEW u \in Update, Begin(u) PROVE AllInv'
<1>1. PICK l : l = Fresh(u)
  OBVIOUS
<1>2. /\ l.pc = "next" /\ l.todo = files[u] /\ l.buf = <<>> /\ l.sent = 0
      /\ l.num = [t \in {"edge", "node"} |-> 0] /\ l.degMap = [v \in Vertex |-> 0]
  BY <1>1 DEF Fresh
<1>3. h' = [h EXCEPT ![u] = l] /\ edge' = edge /\ deg' = deg /\ last' = last
  BY <1>1 DEF Begin
<1>4. h'[u] = l /\ \A w \in Update : w # u => h'[w] = h[w]
  BY <1>3, HandlersAreGood DEF AllInv
<1>5. files[u] \in Seq(File)
  BY HandlersAreGood DEF AllInv
<1>6. Running(u)' /\ \A w \in Update : w # u => (Running(w)' <=> Running(w))
  BY <1>2, <1>4 DEF Running
<1>7. /\ \A w \in Update : w # u /\ Running(w) => w \in mixed' /\ u \in mixed'
      /\ mixed \subseteq mixed' \cup {u}
  BY DEF Begin, Running
<1>8. Cardinality({}) = 0
  BY FS_EmptySet
<1>9. ReaderInv(files[u], l) /\ \A t : GoodRead(files[u], l, t) = {}
  BY <1>2, <1>5, NothingIsRead DEF GoodRead
<1>10. CounterInv(files[u], l)
  <2>1. \A v \in Vertex : DegreeIn(files[u], {}, v) = 0
    BY <1>8 DEF DegreeIn
  <2>2. DOMAIN l.buf = {} /\ 1 .. l.sent = {}
    BY <1>2
  <2>3. \A t : {i \in DOMAIN l.buf : Current(l, t) /\ l.buf[i].kind = "good"} = {}
    BY <2>2
  <2>4. \A t \in {"edge", "node"} :
          Cardinality(GoodRead(files[u], l, t)) =
            l.num[t] + Cardinality({i \in DOMAIN l.buf :
                                      Current(l, t) /\ l.buf[i].kind = "good"})
    <3> SUFFICES ASSUME NEW t \in {"edge", "node"}
                 PROVE  Cardinality(GoodRead(files[u], l, t)) =
                          l.num[t] + Cardinality({i \in DOMAIN l.buf :
                            Current(l, t) /\ l.buf[i].kind = "good"})
      OBVIOUS
    <3>1. Cardinality(GoodRead(files[u], l, t)) = 0 /\ l.num[t] = 0
      BY <1>2, <1>8, <1>9
    <3>2. Cardinality({i \in DOMAIN l.buf : Current(l, t) /\ l.buf[i].kind = "good"}) = 0
      BY <1>8, <2>3
    <3> QED
      BY <3>1, <3>2
  <2>5. \A v \in Vertex : l.degMap[v] = DegreeIn(files[u], GoodRead(files[u], l, "edge"), v)
    BY <1>2, <1>9, <2>1
  <2>6. \A i \in 1 .. l.sent : l.buf[i].kind = "good"
    BY <2>2
  <2> QED
    BY <2>4, <2>5, <2>6 DEF CounterInv
<1>11. GraphInv(files[u], l, deg, edge) /\ AloneInv(files[u], l, deg)
  BY <1>2, <1>9 DEF GraphInv, AloneInv
<1>12. RowsInv'
  <2>1. ASSUME NEW w \in Update, Running(w)'
        PROVE  /\ ReaderInv(files[w], h'[w]) /\ CounterInv(files[w], h'[w])
               /\ GraphInv(files[w], h'[w], deg, edge)
               /\ w \notin mixed' => /\ AloneInv(files[w], h'[w], deg)
                                     /\ \A v \in Update : Running(v)' => v = w
    <3>1. CASE w = u
      BY <1>4, <1>6, <1>7, <1>9, <1>10, <1>11, <3>1
    <3>2. CASE w # u
      <4>1. Running(w) /\ w \in mixed'
        BY <1>6, <1>7, <2>1, <3>2
      <4>2. /\ ReaderInv(files[w], h[w]) /\ CounterInv(files[w], h[w])
            /\ GraphInv(files[w], h[w], deg, edge)
        BY <4>1 DEF RowsInv, AllInv
      <4> QED
        BY <1>4, <3>2, <4>1, <4>2
    <3> QED
      BY <3>1, <3>2
  <2> QED
    BY <1>3, <2>1 DEF RowsInv
<1>13. CountersMatchRows'
  <2>1. \A t \in {"edge", "node"} : l.num[t] <= Cardinality(GoodRows(files[u], t))
    <3>1. \A t : Cardinality(GoodRows(files[u], t)) \in Nat
      BY <1>5, LinesFinite, GoodReadIsLines
    <3> QED
      BY <1>2, <3>1
  <2> QED
    BY <1>2, <1>4, <2>1 DEF CountersMatchRows, AllInv, EndInv
<1>14. DoneLeavesNoDanglingEdge'
  BY <1>2, <1>3, <1>4 DEF DoneLeavesNoDanglingEdge, AllInv, EndInv
<1>15. DegreesOfLastLoad'
  BY <1>6 DEF DegreesOfLastLoad
<1> QED
  BY <1>12, <1>13, <1>14, <1>15 DEF AllInv, EndInv

LEMMA StopKeepsAll ==
  ASSUME AllInv, BaseInv', UNCHANGED files, NEW u \in Update, Stop(u) PROVE AllInv'
<1>1. Grows /\ mixed' = mixed /\ Running(u)
  BY DEF Stop, Grows
<1>2. CASE Return(u, "lost")
  BY <1>1, <1>2, AllAfterReturning DEF Ended
<1>3. CASE h' = [h EXCEPT ![u].pc = "idle"] /\ last' = u
  <2>1. PICK l : l = [h[u] EXCEPT !.pc = "idle"]
    OBVIOUS
  <2>2. h[u] \in Local
    BY HandlersAreGood DEF AllInv
  <2>3. l.pc = "idle" /\ l.num = h[u].num
    BY <2>1, <2>2 DEF Local
  <2>4. ~ Runs(l) /\ l.pc # "done"
    BY <2>3 DEF Runs
  <2>5. h' = [h EXCEPT ![u] = l]
    BY <1>3, <2>1
  <2> QED
    BY <1>1, <1>3, <2>3, <2>4, <2>5, AllAfterReturn
<1> QED
  BY <1>2, <1>3 DEF Stop

(* A move that reads no good row and sends none.                           *)
LEMMA FollowsOn ==
  ASSUME NEW F, NEW l, NEW m, NEW D, NEW E, NEW alone \in BOOLEAN,
         Follows(F, l, D, E, alone), ReaderInv(F, m),
         \A t \in {"edge", "node"} : GoodRead(F, m, t) = GoodRead(F, l, t),
         m.todo = l.todo, m.buf = l.buf, m.sent = l.sent, m.num = l.num,
         m.degMap = l.degMap, l.pc # "deg", m.pc # "deg"
  PROVE  Follows(F, m, D, E, alone)
<1>1. \A t : Current(m, t) = Current(l, t) /\ Waiting(m, t) = Waiting(l, t)
  BY DEF Current, Waiting
<1>2. CounterInv(F, m)
  BY <1>1 DEF Follows, CounterInv
<1>3. GraphInv(F, m, D, E) /\ (alone => AloneInv(F, m, D))
  BY <1>1 DEF Follows, GraphInv, AloneInv
<1> QED
  BY <1>2, <1>3 DEF Follows

LEMMA FetchSourceKeepsAll ==
  ASSUME AllInv, BaseInv', UNCHANGED files, NEW u \in Update, FetchSource(u) PROVE AllInv'
<1>1. Grows /\ mixed' = mixed /\ Running(u) /\ h[u].pc = "next" /\ h[u].todo # <<>>
  BY DEF FetchSource, Grows, Running
<1>2. CASE \E how \in Ended \ {"done"} : Return(u, how)
  BY <1>1, <1>2, AllAfterReturning
<1>3. CASE /\ h' = [h EXCEPT ![u].pc = "read", ![u].rows = Head(h[u].todo).rows]
           /\ last' = last
  <2>1. PICK F : F = files[u]
    OBVIOUS
  <2>2. PICK l : l = h[u]
    OBVIOUS
  <2>3. PICK m : m = [l EXCEPT !.pc = "read", !.rows = Head(l.todo).rows]
    OBVIOUS
  <2>4. /\ l \in Local /\ F \in Seq(File)
        /\ Follows(F, l, deg, edge, u \notin mixed)
    BY <1>1, <2>1, <2>2, HandlerFollows DEF AllInv
  <2>5. /\ m.pc = "read" /\ m.rows = Head(l.todo).rows /\ m.todo = l.todo
        /\ m.buf = l.buf /\ m.sent = l.sent /\ m.num = l.num /\ m.degMap = l.degMap
    BY <2>3, <2>4 DEF Local
  <2>6. PICK k : k = Len(F) - Len(l.todo) + 1
    OBVIOUS
  <2>7. k \in 1 .. Len(F) /\ Head(l.todo) = F[k] /\ m.rows = F[k].rows
    BY <1>1, <2>2, <2>4, <2>5, <2>6, CurrentFile DEF Follows
  <2>8. F[k].rows \in Seq(FileRow)
    BY <2>4, <2>7, LinesTyped
  <2>9. Len(F[k].rows) \in Nat /\ DOMAIN F[k].rows = 1 .. Len(F[k].rows)
    BY <2>8
  <2>10. ReaderInv(F, m)
    BY <2>4, <2>5, <2>7, <2>9 DEF ReaderInv, Follows
  <2>11. LinesRead(F, m) = LinesRead(F, l)
    <3>1. Len(F[k].rows) - Len(m.rows) = 0
      BY <2>7, <2>9
    <3>2. Len(F) - Len(l.todo) + 1 = k
      BY <2>6
    <3>3. \A p \in Lines(F) : p[2] \in 1 .. Len(F[p[1]].rows)
      BY <2>4, LinesTyped
    <3>4. ASSUME NEW p \in Lines(F), p[1] = k
          PROVE  ~ p[2] <= Len(F[p[1]].rows) - Len(m.rows)
      <4>1. Len(F[p[1]].rows) - Len(m.rows) = 0
        BY <3>1, <3>4
      <4>2. ~ p[2] <= 0
        BY <3>3
      <4> QED
        BY <4>1, <4>2
    <3> QED
      BY <1>1, <2>2, <2>5, <3>2, <3>4 DEF LinesRead
  <2>12. Follows(F, m, deg, edge, u \notin mixed)
    BY <1>1, <2>2, <2>4, <2>5, <2>10, <2>11, FollowsOn DEF GoodRead
  <2>13. h' = [h EXCEPT ![u] = m]
    BY <1>3, <2>2, <2>3
  <2>14. deg' = deg /\ edge' = edge /\ Runs(m)
    BY <2>5 DEF FetchSource, Runs
  <2> QED
    BY <1>1, <1>3, <2>1, <2>12, <2>13, <2>14, AllAfterMove
<1> QED
  BY <1>2, <1>3 DEF FetchSource, Ended

(* The good rows in the buffer, when it holds rows of files of type t.     *)
InBuf(l, t) == {i \in DOMAIN l.buf : Current(l, t) /\ l.buf[i].kind = "good"}

LEMMA InBufFinite ==
  ASSUME NEW l \in Local, NEW t
  PROVE  IsFiniteSet(InBuf(l, t)) /\ Cardinality(InBuf(l, t)) \in Nat
<1>1. PICK n \in Nat : DOMAIN l.buf = 1 .. n
  BY DEF Local
<1>2. IsFiniteSet(1 .. n)
  BY FS_Interval
<1> QED
  BY <1>1, <1>2, FS_Subset, FS_CardinalityType DEF InBuf

LEMMA WaitingIs ==
  ASSUME NEW l, NEW t, NEW x
  PROVE  x \in Waiting(l, t) <=>
           Current(l, t) /\ \E i \in l.sent + 1 .. Len(l.buf) : x = l.buf[i]
BY DEF Waiting

(* A row that goes into the buffer is counted there, and so are its ends.  *)
Buffers(l, m) ==
  /\ l.pc = "read" /\ l.todo # <<>> /\ l.rows # <<>> /\ l.sent = 0
  /\ m.pc \in {"read", "flush"} /\ m.todo = l.todo /\ m.rows = Tail(l.rows)
  /\ m.buf = Append(l.buf, Head(l.rows)) /\ m.sent = 0 /\ m.num = l.num
  /\ m.degMap = IF Head(l.todo).type = "edge"
                THEN Count(l.degMap, Head(l.rows)) ELSE l.degMap
  /\ \/ Head(l.rows).kind = "good"
     \/ Head(l.rows).kind = "text" /\ Head(l.todo).type = "node"

LEMMA RowIsBuffered ==
  ASSUME NEW F \in Seq(File), NEW l \in Local, NEW m \in Local, NEW D, NEW E,
         NEW alone \in BOOLEAN, Follows(F, l, D, E, alone), Buffers(l, m)
  PROVE  Follows(F, m, D, E, alone)
<1>0. /\ l.pc = "read" /\ l.todo # <<>> /\ l.rows # <<>> /\ l.sent = 0
      /\ m.pc \in {"read", "flush"} /\ m.todo = l.todo /\ m.sent = 0 /\ m.num = l.num
  BY DEF Buffers
<1>1. PICK r : r = Head(l.rows)
  OBVIOUS
<1>2. PICK c : c = Head(l.todo).type
  OBVIOUS
<1>3. ReaderInv(F, l) /\ CounterInv(F, l) /\ GraphInv(F, l, D, E)
  BY DEF Follows
<1>4. ReaderInv(F, m)
  BY <1>3, NextLine DEF Buffers
<1>5. PICK q \in Lines(F) :
        /\ F[q[1]].type = c /\ RowAt(F, q) = r
        /\ q \notin LinesRead(F, l)
        /\ LinesRead(F, m) = LinesRead(F, l) \cup {q}
  BY <1>1, <1>2, <1>3, NextLine DEF Buffers
<1>6. \A t : Current(l, t) = (c = t) /\ Current(m, t) = (c = t)
  BY <1>0, <1>2 DEF Current
<1>7. r \in FileRow /\ c \in {"edge", "node"}
  <2>1. l.rows \in Seq(FileRow) /\ Head(l.todo) \in File
    BY <1>0, <1>3, CurrentFile DEF Local
  <2> QED
    BY <1>0, <1>1, <1>2, <2>1 DEF File
<1>8. PICK n \in Nat : n = Len(l.buf)
  BY DEF Local
<1>9. /\ DOMAIN l.buf = 1 .. n /\ DOMAIN m.buf = 1 .. n + 1 /\ Len(m.buf) = n + 1
      /\ \A i \in 1 .. n : m.buf[i] = l.buf[i]
      /\ m.buf[n + 1] = r
  <2>1. l.buf \in Seq(FileRow)
    BY DEF Local
  <2> QED
    BY <1>1, <1>7, <1>8, <2>1 DEF Buffers
<1>10. \A t : Waiting(m, t) = Waiting(l, t) \cup (IF c = t THEN {r} ELSE {})
  <2>1. /\ l.sent + 1 .. Len(l.buf) = 1 .. n
        /\ m.sent + 1 .. Len(m.buf) = 1 .. n + 1
    BY <1>0, <1>8, <1>9
  <2>2. ASSUME NEW t, NEW x
        PROVE  x \in Waiting(l, t) <=> c = t /\ \E i \in 1 .. n : x = l.buf[i]
    <3>1. x \in Waiting(l, t) <=>
            Current(l, t) /\ \E i \in l.sent + 1 .. Len(l.buf) : x = l.buf[i]
      BY WaitingIs
    <3> QED
      BY <1>6, <2>1, <3>1
  <2>3. ASSUME NEW t, NEW x
        PROVE  x \in Waiting(m, t) <=> c = t /\ \E i \in 1 .. n + 1 : x = m.buf[i]
    <3>1. x \in Waiting(m, t) <=>
            Current(m, t) /\ \E i \in m.sent + 1 .. Len(m.buf) : x = m.buf[i]
      BY WaitingIs
    <3> QED
      BY <1>6, <2>1, <3>1
  <2>4. \A x : (\E i \in 1 .. n + 1 : x = m.buf[i]) <=>
                 (\E i \in 1 .. n : x = l.buf[i]) \/ x = r
    BY <1>9
  <2> QED
    BY <2>2, <2>3, <2>4
<1>11. \A t : GoodRead(F, m, t) =
         IF c = t /\ r.kind = "good" THEN GoodRead(F, l, t) \cup {q} ELSE GoodRead(F, l, t)
  BY <1>5 DEF GoodRead, GoodRows
<1>12. \A t : q \notin GoodRead(F, l, t)
  BY <1>5 DEF GoodRead
<1>13. \A t : InBuf(m, t) =
         IF c = t /\ r.kind = "good" THEN InBuf(l, t) \cup {n + 1} ELSE InBuf(l, t)
  <2> SUFFICES ASSUME NEW t
               PROVE  InBuf(m, t) = IF c = t /\ r.kind = "good"
                                    THEN InBuf(l, t) \cup {n + 1} ELSE InBuf(l, t)
    OBVIOUS
  <2>1. InBuf(l, t) = {i \in 1 .. n : c = t /\ l.buf[i].kind = "good"}
    BY <1>6, <1>9 DEF InBuf
  <2>2. InBuf(m, t) = {i \in 1 .. n + 1 : c = t /\ m.buf[i].kind = "good"}
    BY <1>6, <1>9 DEF InBuf
  <2>3. \A i : i \in 1 .. n + 1 <=> i \in 1 .. n \/ i = n + 1
    OBVIOUS
  <2> QED
    BY <1>9, <2>1, <2>2, <2>3
<1>14. \A t : n + 1 \notin InBuf(l, t)
  BY <1>9 DEF InBuf
<1>15. \A t \in {"edge", "node"} :
         Cardinality(GoodRead(F, m, t)) = m.num[t] + Cardinality(InBuf(m, t))
  <2>0. m.num = l.num
    BY <1>0
  <2> SUFFICES ASSUME NEW t \in {"edge", "node"}
               PROVE  Cardinality(GoodRead(F, m, t)) = m.num[t] + Cardinality(InBuf(m, t))
    OBVIOUS
  <2>1. Cardinality(GoodRead(F, l, t)) = l.num[t] + Cardinality(InBuf(l, t))
    BY <1>3 DEF CounterInv, InBuf
  <2>2. IsFiniteSet(GoodRead(F, l, t)) /\ Cardinality(GoodRead(F, l, t)) \in Nat
    BY LinesFinite, GoodReadIsLines
  <2>3. IsFiniteSet(InBuf(l, t)) /\ Cardinality(InBuf(l, t)) \in Nat
    BY InBufFinite
  <2>4. l.num[t] \in Nat
    BY DEF Local
  <2>5. Cardinality(GoodRead(F, l, t) \cup {q}) = Cardinality(GoodRead(F, l, t)) + 1
    BY <1>12, <2>2, FS_AddElement
  <2>6. Cardinality(InBuf(l, t) \cup {n + 1}) = Cardinality(InBuf(l, t)) + 1
    BY <1>14, <2>3, FS_AddElement
  <2>7. CASE c = t /\ r.kind = "good"
    <3>1. /\ Cardinality(GoodRead(F, m, t)) = Cardinality(GoodRead(F, l, t)) + 1
          /\ Cardinality(InBuf(m, t)) = Cardinality(InBuf(l, t)) + 1
      BY <1>11, <1>13, <2>5, <2>6, <2>7
    <3>2. Cardinality(GoodRead(F, l, t)) + 1 = l.num[t] + (Cardinality(InBuf(l, t)) + 1)
      BY <2>1, <2>2, <2>3, <2>4
    <3> QED
      BY <2>0, <3>1, <3>2
  <2>8. CASE ~ (c = t /\ r.kind = "good")
    <3>1. GoodRead(F, m, t) = GoodRead(F, l, t) /\ InBuf(m, t) = InBuf(l, t)
      BY <1>11, <1>13, <2>8
    <3> QED
      BY <2>0, <2>1, <3>1
  <2> QED
    BY <2>7, <2>8
<1>16. \A v \in Vertex : m.degMap[v] = DegreeIn(F, GoodRead(F, m, "edge"), v)
  <2> SUFFICES ASSUME NEW v \in Vertex
               PROVE  m.degMap[v] = DegreeIn(F, GoodRead(F, m, "edge"), v)
    OBVIOUS
  <2>1. l.degMap[v] = DegreeIn(F, GoodRead(F, l, "edge"), v) /\ l.degMap \in [Vertex -> Nat]
    BY <1>3 DEF CounterInv, Local
  <2>2. CASE c = "edge"
    <3>1. r.kind = "good"
      BY <1>1, <1>2, <2>2 DEF Buffers
    <3>2. GoodRead(F, m, "edge") = GoodRead(F, l, "edge") \cup {q}
      BY <1>11, <2>2, <3>1
    <3>3. DegreeIn(F, GoodRead(F, m, "edge"), v) =
            DegreeIn(F, GoodRead(F, l, "edge"), v) + (IF r.src = v THEN 1 ELSE 0)
                                                   + (IF r.tgt = v THEN 1 ELSE 0)
      BY <1>5, <1>12, <3>2, DegreeGrows, GoodReadIsLines
    <3>4. Count(l.degMap, r)[v] = l.degMap[v] + (IF r.src = v THEN 1 ELSE 0)
                                              + (IF r.tgt = v THEN 1 ELSE 0)
      <4>1. r.src \in Vertex /\ r.tgt \in Vertex
        BY <1>7 DEF FileRow
      <4>2. PICK once : once = [l.degMap EXCEPT ![r.src] = @ + 1]
        OBVIOUS
      <4>3. once \in [Vertex -> Nat] /\ once[v] = l.degMap[v] + (IF r.src = v THEN 1 ELSE 0)
        BY <2>1, <4>1, <4>2
      <4>4. Count(l.degMap, r) = [once EXCEPT ![r.tgt] = @ + 1]
        BY <4>2 DEF Count
      <4>5. Count(l.degMap, r)[v] = once[v] + (IF r.tgt = v THEN 1 ELSE 0)
        BY <4>1, <4>3, <4>4
      <4> QED
        BY <4>3, <4>5
    <3>5. m.degMap = Count(l.degMap, r)
      BY <1>1, <1>2, <2>2 DEF Buffers
    <3> QED
      BY <2>1, <3>3, <3>4, <3>5
  <2>3. CASE c # "edge"
    <3>1. GoodRead(F, m, "edge") = GoodRead(F, l, "edge") /\ m.degMap = l.degMap
      BY <1>2, <1>11, <2>3 DEF Buffers
    <3> QED
      BY <2>1, <3>1
  <2> QED
    BY <2>2, <2>3
<1>17. CounterInv(F, m)
  <2>1. 1 .. m.sent = {}
    BY <1>0
  <2> QED
    BY <1>15, <1>16, <2>1 DEF CounterInv, InBuf
<1>18. GraphInv(F, m, D, E)
  BY <1>0, <1>3, <1>5, <1>10, <1>11 DEF GraphInv
<1>19. alone => AloneInv(F, m, D)
  BY <1>0, <1>5, <1>10, <1>11 DEF AloneInv, Follows
<1> QED
  BY <1>4, <1>17, <1>18, <1>19 DEF Follows

LEMMA ReadRowKeepsAll ==
  ASSUME AllInv, BaseInv', UNCHANGED files, NEW u \in Update, ReadRow(u) PROVE AllInv'
<1>1. PICK F : F = files[u]
  OBVIOUS
<1>2. PICK l : l = h[u]
  OBVIOUS
<1>3. /\ Grows /\ mixed' = mixed /\ Running(u) /\ l.pc = "read" /\ l.rows # <<>>
      /\ deg' = deg /\ edge' = edge
  BY <1>2 DEF ReadRow, Grows, Running
<1>4. /\ l \in Local /\ F \in Seq(File) /\ Good(l, edge)
      /\ Follows(F, l, deg, edge, u \notin mixed)
  BY <1>1, <1>2, <1>3, HandlerFollows DEF AllInv
<1>5. l.todo # <<>> /\ l.sent = 0
  BY <1>3, <1>4 DEF Good, Placed, Runs
<1>6. h' \in [Update -> Local]
  BY DEF BaseInv, TypeOK
<1>7. CASE Return(u, "failed")
  BY <1>3, <1>7, AllAfterReturning DEF Ended
<1>8. CASE /\ Head(l.rows).kind = "short" /\ last' = last
           /\ h' = [h EXCEPT ![u].rows = Tail(@)]
  <2>1. PICK m : m = [l EXCEPT !.rows = Tail(l.rows)]
    OBVIOUS
  <2>2. h' = [h EXCEPT ![u] = m]
    BY <1>2, <1>8, <2>1
  <2>3. m \in Local
    BY <1>6, <2>2
  <2>4. /\ m.pc = "read" /\ m.todo = l.todo /\ m.rows = Tail(l.rows) /\ m.buf = l.buf
        /\ m.sent = l.sent /\ m.num = l.num /\ m.degMap = l.degMap
    BY <1>3, <1>4, <2>1 DEF Local
  <2>5. PICK q \in Lines(F) : /\ RowAt(F, q) = Head(l.rows)
                              /\ LinesRead(F, m) = LinesRead(F, l) \cup {q}
    BY <1>3, <1>4, <1>5, <2>3, <2>4, NextLine DEF Follows
  <2>6. ReaderInv(F, m)
    BY <1>3, <1>4, <1>5, <2>3, <2>4, NextLine DEF Follows
  <2>7. \A t \in {"edge", "node"} : GoodRead(F, m, t) = GoodRead(F, l, t)
    BY <1>8, <2>5 DEF GoodRead, GoodRows
  <2>8. Follows(F, m, deg, edge, u \notin mixed)
    BY <1>3, <1>4, <2>4, <2>6, <2>7, FollowsOn
  <2> QED
    BY <1>1, <1>3, <1>8, <2>2, <2>4, <2>8, AllAfterMove DEF Runs
<1>9. CASE /\ \/ Head(l.rows).kind = "good"
              \/ Head(l.rows).kind = "text" /\ Head(l.todo).type = "node"
           /\ h' = [h EXCEPT ![u].rows = Tail(@), ![u].buf = Append(l.buf, Head(l.rows)),
                      ![u].pc = IF Len(Append(l.buf, Head(l.rows))) > maxInsertNum
                                THEN "flush" ELSE @,
                      ![u].degMap = IF Head(l.todo).type = "edge"
                                    THEN Count(@, Head(l.rows)) ELSE @]
           /\ last' = last
  <2>1. PICK buf : buf = Append(l.buf, Head(l.rows))
    OBVIOUS
  <2>2. PICK pc : pc = IF Len(buf) > maxInsertNum THEN "flush" ELSE "read"
    OBVIOUS
  <2>3. PICK d : d = IF Head(l.todo).type = "edge"
                     THEN Count(l.degMap, Head(l.rows)) ELSE l.degMap
    OBVIOUS
  <2>4. PICK m : m = [l EXCEPT !.rows = Tail(l.rows), !.buf = buf, !.pc = pc, !.degMap = d]
    OBVIOUS
  <2>5. h' = [h EXCEPT ![u] = m]
    BY <1>2, <1>3, <1>9, <2>1, <2>2, <2>3, <2>4
  <2>6. m \in Local
    BY <1>6, <2>5
  <2>7. /\ m.pc = pc /\ m.todo = l.todo /\ m.rows = Tail(l.rows) /\ m.buf = buf
        /\ m.sent = l.sent /\ m.num = l.num /\ m.degMap = d
    BY <1>4, <2>4 DEF Local
  <2>8. Buffers(l, m)
    BY <1>3, <1>5, <1>9, <2>1, <2>2, <2>3, <2>7 DEF Buffers
  <2>9. Follows(F, m, deg, edge, u \notin mixed)
    BY <1>4, <2>6, <2>8, RowIsBuffered
  <2>10. Runs(m)
    BY <2>2, <2>7 DEF Runs
  <2> QED
    BY <1>1, <1>3, <1>9, <2>5, <2>9, <2>10, AllAfterMove
<1> QED
  BY <1>2, <1>7, <1>8, <1>9 DEF ReadRow

LEMMA ReadEndKeepsAll ==
  ASSUME AllInv, BaseInv', UNCHANGED files, NEW u \in Update, ReadEnd(u) PROVE AllInv'
<1>1. PICK l : l = h[u]
  OBVIOUS
<1>2. PICK m : m = [l EXCEPT !.pc = "rest"]
  OBVIOUS
<1>3. /\ Grows /\ mixed' = mixed /\ last' = last /\ Running(u)
      /\ l.pc = "read" /\ l.rows = <<>> /\ h' = [h EXCEPT ![u] = m]
      /\ deg' = deg /\ edge' = edge
  BY <1>1, <1>2 DEF ReadEnd, Grows, Running
<1>4. /\ l \in Local /\ Follows(files[u], l, deg, edge, u \notin mixed)
  BY <1>1, <1>3, HandlerFollows DEF AllInv
<1>5. /\ m.pc = "rest" /\ m.todo = l.todo /\ m.rows = l.rows /\ m.buf = l.buf
      /\ m.sent = l.sent /\ m.num = l.num /\ m.degMap = l.degMap
  BY <1>2, <1>4 DEF Local
<1>6. ReaderInv(files[u], m)
  BY <1>3, <1>4, <1>5 DEF Follows, ReaderInv
<1>7. \A t : GoodRead(files[u], m, t) = GoodRead(files[u], l, t)
  BY <1>3, <1>5 DEF GoodRead, LinesRead
<1>8. Follows(files[u], m, deg, edge, u \notin mixed)
  BY <1>3, <1>4, <1>5, <1>6, <1>7, FollowsOn
<1> QED
  BY <1>3, <1>5, <1>8, AllAfterMove DEF Runs

(* Rows that Nebula takes wait no longer: they are in the graph.           *)
LEMMA RowsAreSent ==
  ASSUME NEW F \in Seq(File), NEW l \in Local, NEW m, NEW D, NEW E, NEW D2, NEW E2,
         NEW alone \in BOOLEAN, Follows(F, l, D, E, alone), l.pc \in {"flush", "rest"},
         NEW n \in Nat, l.sent <= n, m = [l EXCEPT !.sent = n],
         \A i \in l.sent + 1 .. n : l.buf[i].kind = "good",
         E \subseteq E2, \A v \in Vertex : D2[v] = D[v] \/ D2[v] = 0,
         \A i \in l.sent + 1 .. n :
           /\ Current(l, "edge") => EdgesOf(l.buf[i]) \subseteq E2
           /\ Current(l, "node") => D2[l.buf[i].src] = 0
  PROVE  Follows(F, m, D2, E2, alone)
<1>1. /\ m.pc = l.pc /\ m.todo = l.todo /\ m.rows = l.rows /\ m.buf = l.buf
      /\ m.sent = n /\ m.num = l.num /\ m.degMap = l.degMap /\ l.sent \in Nat
  BY DEF Local
<1>2. /\ \A t : GoodRead(F, m, t) = GoodRead(F, l, t) /\ Current(m, t) = Current(l, t)
      /\ ReaderInv(F, m)
  BY <1>1 DEF GoodRead, LinesRead, Current, Follows, ReaderInv
<1>3. ASSUME NEW t, NEW x \in Waiting(l, t)
      PROVE  x \in Waiting(m, t) \/ \E i \in l.sent + 1 .. n : x = l.buf[i] /\ Current(l, t)
  <2>1. PICK i \in l.sent + 1 .. Len(l.buf) : x = l.buf[i]
    BY <1>3, WaitingIs
  <2>2. Current(l, t)
    BY <1>3, WaitingIs
  <2>3. Len(l.buf) \in Nat
    BY DEF Local
  <2>4. CASE i <= n
    BY <1>1, <2>1, <2>2, <2>3, <2>4
  <2>5. CASE ~ i <= n
    <3>1. i \in m.sent + 1 .. Len(m.buf) /\ x = m.buf[i]
      BY <1>1, <2>1, <2>3, <2>5
    <3> QED
      BY <1>2, <2>2, <3>1, WaitingIs
  <2> QED
    BY <2>4, <2>5
<1>4. CounterInv(F, m)
  <2>1. \A i \in 1 .. n : i \in 1 .. l.sent \/ i \in l.sent + 1 .. n
    BY <1>1
  <2>2. \A i \in 1 .. m.sent : m.buf[i].kind = "good"
    BY <1>1, <2>1 DEF Follows, CounterInv
  <2> QED
    BY <1>1, <1>2, <2>2 DEF Follows, CounterInv
<1>5. GraphInv(F, m, D2, E2)
  <2>1. m.pc # "deg"
    BY <1>1
  <2>2. ASSUME NEW p \in GoodRead(F, l, "edge")
        PROVE  EdgesOf(RowAt(F, p)) \subseteq E2 \/ RowAt(F, p) \in Waiting(m, "edge")
    BY <1>3 DEF Follows, GraphInv
  <2> QED
    BY <1>2, <2>1, <2>2 DEF GraphInv
<1>6. ASSUME alone PROVE AloneInv(F, m, D2)
  <2>1. ASSUME NEW p \in GoodRead(F, l, "node")
        PROVE  D2[RowAt(F, p).src] = 0 \/ RowAt(F, p) \in Waiting(m, "node")
    <3>1. RowAt(F, p).src \in Vertex
      BY LinesTyped, GoodReadIsLines DEF FileRow
    <3>2. D[RowAt(F, p).src] = 0 \/ RowAt(F, p) \in Waiting(l, "node")
      BY <1>6 DEF Follows, AloneInv
    <3> QED
      BY <1>3, <3>1, <3>2
  <2> QED
    BY <1>1, <1>2, <2>1 DEF AloneInv
<1> QED
  BY <1>2, <1>4, <1>5, <1>6 DEF Follows

LEMMA InsertGrows ==
  ASSUME BaseInv, NEW f \in File, NEW S, InsertRows(f, S)
  PROVE  /\ edge \subseteq edge'
         /\ \A v \in Vertex : deg'[v] = deg[v] \/ deg'[v] = 0
         /\ f.type = "edge" => \A r \in S : EdgesOf(r) \subseteq edge'
         /\ f.type = "node" => \A r \in S : r.src \in Vertex => deg'[r.src] = 0
<1>1. deg \in [Vertex -> Nat \cup {None}]
  BY DEF BaseInv, TypeOK
<1>2. CASE f.type = "edge"
  BY <1>1, <1>2 DEF InsertRows
<1>3. CASE f.type # "edge"
  BY <1>1, <1>3 DEF InsertRows
<1> QED
  BY <1>2, <1>3

LEMMA InsertKeepsAll ==
  ASSUME AllInv, BaseInv', UNCHANGED files, NEW u \in Update, Insert(u) PROVE AllInv'
<1>1. PICK l : l = h[u]
  OBVIOUS
<1>2. PICK f : f = Head(l.todo)
  OBVIOUS
<1>3. PICK n : n = IF l.sent + Batch < Len(l.buf) THEN l.sent + Batch ELSE Len(l.buf)
  OBVIOUS
<1>4. PICK S : S = {l.buf[i] : i \in l.sent + 1 .. n}
  OBVIOUS
<1>5. /\ Running(u) /\ mixed' = mixed /\ l.pc \in {"flush", "rest"}
      /\ l.sent < Len(l.buf)
  BY <1>1 DEF Insert, Running
<1>6. /\ l \in Local /\ files[u] \in Seq(File) /\ Good(l, edge)
      /\ Follows(files[u], l, deg, edge, u \notin mixed)
  BY <1>1, <1>5, HandlerFollows DEF AllInv
<1>7. l.todo # <<>> /\ f \in File
  BY <1>2, <1>5, <1>6 DEF Good, Placed, Runs, Local
<1>8. l.sent \in Nat /\ Len(l.buf) \in Nat /\ l.buf \in Seq(FileRow)
  BY <1>6 DEF Local
<1>9. n \in Nat /\ l.sent <= n /\ n <= Len(l.buf)
  BY <1>3, <1>5, <1>8, UpdateBatchesAssumption
<1>10. CASE Return(u, "failed") /\ UNCHANGED <<deg, edge>>
  BY <1>5, <1>10, AllAfterReturning DEF Ended, Grows
<1>12. S \in SUBSET FileRow
  BY <1>4, <1>8, <1>9
<1>13. CASE InsertPart(f, S) /\ Return(u, "failed")
  <2>1. /\ edge \subseteq edge'
        /\ \A v \in Vertex : deg'[v] = deg[v] \/ deg'[v] = 0
    BY <1>7, <1>12, <1>13, PartIsInserted DEF AllInv
  <2>2. Grows
    BY <2>1 DEF Grows, None
  <2> QED
    BY <1>5, <1>13, <2>2, AllAfterReturning DEF Ended
<1>11. CASE /\ InsertRows(f, S) /\ \A r \in S : r.kind = "good"
            /\ h' = [h EXCEPT ![u].sent = n] /\ last' = last
  <2>1. /\ edge \subseteq edge'
        /\ \A v \in Vertex : deg'[v] = deg[v] \/ deg'[v] = 0
        /\ f.type = "edge" => \A r \in S : EdgesOf(r) \subseteq edge'
        /\ f.type = "node" => \A r \in S : r.src \in Vertex => deg'[r.src] = 0
    BY <1>7, <1>11, InsertGrows DEF AllInv
  <2>2. Grows
    BY <2>1 DEF Grows, None
  <2>4. AllInv'
    <3>1. PICK m : m = [l EXCEPT !.sent = n]
      OBVIOUS
    <3>2. h' = [h EXCEPT ![u] = m]
      BY <1>1, <1>11, <3>1
    <3>3. \A i \in l.sent + 1 .. n : l.buf[i] \in S /\ l.buf[i] \in FileRow
      BY <1>4, <1>8, <1>9
    <3>4. \A t : Current(l, t) => f.type = t
      BY <1>2 DEF Current
    <3>5. \A i \in l.sent + 1 .. n :
            /\ l.buf[i].kind = "good"
            /\ Current(l, "edge") => EdgesOf(l.buf[i]) \subseteq edge'
            /\ Current(l, "node") => deg'[l.buf[i].src] = 0
      BY <1>11, <2>1, <3>3, <3>4 DEF FileRow
    <3>6. Follows(files[u], m, deg', edge', u \notin mixed)
      BY <1>5, <1>6, <1>9, <2>1, <3>1, <3>5, RowsAreSent
    <3>7. Runs(m)
      BY <1>5, <1>6, <3>1 DEF Runs, Local
    <3> QED
      BY <1>5, <1>11, <2>2, <3>2, <3>6, <3>7, AllAfterMove
  <2> QED
    BY <2>4
<1> QED
  BY <1>1, <1>2, <1>3, <1>4, <1>10, <1>11, <1>13 DEF Insert

(* The buffer is counted and emptied; at the end of a file the next one is *)
(* the present one.                                                        *)
LEMMA InsertedKeepsAll ==
  ASSUME AllInv, BaseInv', UNCHANGED files, NEW u \in Update, Inserted(u) PROVE AllInv'
<1>1. PICK l : l = h[u]
  OBVIOUS
<1>2. PICK F : F = files[u]
  OBVIOUS
<1>0. /\ Running(u) /\ l.pc \in {"flush", "rest"} /\ l.sent = Len(l.buf)
      /\ Grows /\ mixed' = mixed /\ deg' = deg /\ edge' = edge
  BY <1>1 DEF Inserted, Running, Grows
<1>a. CASE Return(u, "failed")
  BY <1>0, <1>a, AllAfterReturning DEF Ended
<1>b. SUFFICES ASSUME ~ Return(u, "failed") PROVE AllInv'
  BY <1>a
<1>3. /\ Running(u) /\ l.pc \in {"flush", "rest"} /\ l.sent = Len(l.buf)
      /\ Grows /\ mixed' = mixed /\ last' = last /\ deg' = deg /\ edge' = edge
  BY <1>0, <1>b DEF Inserted
<1>4. /\ l \in Local /\ F \in Seq(File) /\ Good(l, edge)
      /\ Follows(F, l, deg, edge, u \notin mixed)
  BY <1>1, <1>2, <1>3, HandlerFollows DEF AllInv
<1>5. l.todo # <<>>
  BY <1>3, <1>4 DEF Good, Placed, Runs
<1>6. PICK c : c = Head(l.todo).type
  OBVIOUS
<1>7. c \in {"edge", "node"}
  <2>1. Head(l.todo) \in File
    BY <1>4, <1>5, CurrentFile DEF Follows
  <2> QED
    BY <1>6, <2>1 DEF File
<1>8. PICK num : num = [l.num EXCEPT ![c] = @ + Len(l.buf)]
  OBVIOUS
<1>9. PICK todo : todo = IF l.pc = "rest" THEN Tail(l.todo) ELSE l.todo
  OBVIOUS
<1>10. PICK pc : pc = IF l.pc = "rest" THEN "next" ELSE "read"
  OBVIOUS
<1>11. PICK none : none = <<>>
  OBVIOUS
<1>12. PICK m : m = [l EXCEPT !.num = num, !.sent = 0, !.buf = none, !.todo = todo, !.pc = pc]
  OBVIOUS
<1>13. h' = [h EXCEPT ![u] = m]
  BY <1>1, <1>3, <1>6, <1>8, <1>9, <1>10, <1>11, <1>12, <1>b DEF Inserted
<1>14. /\ m.pc = pc /\ m.todo = todo /\ m.rows = l.rows /\ m.buf = none /\ m.sent = 0
       /\ m.num = num /\ m.degMap = l.degMap
  BY <1>4, <1>12 DEF Local
<1>15. PICK k : k = Len(F) - Len(l.todo) + 1
  OBVIOUS
<1>16. k \in 1 .. Len(F) /\ Head(l.todo) = F[k]
  BY <1>4, <1>5, <1>15, CurrentFile DEF Follows
<1>17. /\ Len(l.todo) \in Nat \ {0} /\ Len(F) \in Nat
       /\ Len(Tail(l.todo)) = Len(l.todo) - 1
       /\ \A i \in 1 .. Len(l.todo) - 1 : Tail(l.todo)[i] = l.todo[i + 1]
       /\ DOMAIN l.todo = 1 .. Len(l.todo)
       /\ DOMAIN Tail(l.todo) = 1 .. Len(l.todo) - 1
  <2>1. l.todo \in Seq(File)
    BY <1>4 DEF Local
  <2> QED
    BY <1>4, <1>5, <2>1
<1>18. ReaderInv(F, m)
  <2>1. CASE l.pc = "flush"
    BY <1>4, <1>9, <1>10, <1>14, <2>1 DEF Follows, ReaderInv
  <2>2. CASE l.pc = "rest"
    <3>1. m.todo = Tail(l.todo) /\ m.pc = "next"
      BY <1>9, <1>10, <1>14, <2>2
    <3>2. ASSUME NEW i \in DOMAIN m.todo
          PROVE  m.todo[i] = F[Len(F) - Len(m.todo) + i]
      <4>1. i \in 1 .. Len(l.todo) - 1 /\ i + 1 \in 1 .. Len(l.todo)
        BY <1>17, <3>1
      <4>2. m.todo[i] = l.todo[i + 1]
        BY <1>17, <3>1, <4>1
      <4>3. l.todo[i + 1] = F[Len(F) - Len(l.todo) + (i + 1)]
        BY <1>4, <1>17, <4>1 DEF Follows, ReaderInv
      <4>4. PICK a \in Nat : a = Len(F)
        BY <1>17
      <4>5. PICK b \in Nat : b = Len(l.todo)
        BY <1>17
      <4>6. Len(m.todo) = b - 1 /\ i \in Nat
        BY <1>17, <3>1, <4>1, <4>5
      <4>7. a - (b - 1) + i = a - b + (i + 1)
        BY <4>6
      <4> QED
        BY <4>2, <4>3, <4>4, <4>5, <4>6, <4>7, Zenon
    <3>3. Len(m.todo) <= Len(F)
      BY <1>4, <1>17, <3>1 DEF Follows, ReaderInv
    <3> QED
      BY <3>1, <3>2, <3>3 DEF ReaderInv
  <2> QED
    BY <1>3, <2>1, <2>2
<1>19. LinesRead(F, m) = LinesRead(F, l)
  <2>1. CASE l.pc = "flush"
    BY <1>9, <1>10, <1>14, <2>1 DEF LinesRead
  <2>2. CASE l.pc = "rest"
    <3>1. m.todo = Tail(l.todo) /\ m.pc = "next"
      BY <1>9, <1>10, <1>14, <2>2
    <3>2. Len(F) - Len(l.todo) = k - 1 /\ Len(F) - Len(m.todo) = k
      <4>1. Len(m.todo) = Len(l.todo) - 1
        BY <1>17, <3>1
      <4> QED
        BY <1>15, <1>17, <4>1
    <3>3. \A p \in Lines(F) : p[1] \in 1 .. Len(F) /\ p[2] \in 1 .. Len(F[p[1]].rows)
      BY <1>4, LinesTyped
    <3>4. l.rows = <<>>
      BY <1>4, <2>2 DEF Follows, ReaderInv
    <3>5. \A p \in Lines(F) : p[2] <= Len(F[p[1]].rows) - Len(l.rows)
      <4>1. Len(l.rows) = 0
        BY <3>4
      <4>2. \A i \in 1 .. Len(F) : Len(F[i].rows) \in Nat
        BY <1>4, LinesTyped
      <4> QED
        BY <3>3, <4>1, <4>2
    <3>6. \A p : p \in LinesRead(F, l) <=> p \in Lines(F) /\ (p[1] <= k - 1 \/ p[1] = k)
      <4>1. k - 1 + 1 = k
        BY <1>16
      <4> QED
        BY <2>2, <3>2, <3>5, <4>1 DEF LinesRead
    <3>7. \A p : p \in LinesRead(F, m) <=> p \in Lines(F) /\ p[1] <= k
      BY <3>1, <3>2 DEF LinesRead
    <3>8. \A p \in Lines(F) : p[1] <= k <=> p[1] <= k - 1 \/ p[1] = k
      BY <1>16, <3>3
    <3> QED
      BY <3>6, <3>7, <3>8
  <2> QED
    BY <1>3, <2>1, <2>2
<1>20. \A t : GoodRead(F, m, t) = GoodRead(F, l, t)
  BY <1>19 DEF GoodRead
<1>21. \A t : Current(l, t) <=> t = c
  BY <1>5, <1>6 DEF Current
<1>22. Len(l.buf) \in Nat /\ DOMAIN l.buf = 1 .. Len(l.buf)
  <2>1. l.buf \in Seq(FileRow)
    BY <1>4 DEF Local
  <2> QED
    BY <2>1
<1>23. \A t : InBuf(l, t) = (IF t = c THEN 1 .. Len(l.buf) ELSE {}) /\ InBuf(m, t) = {}
  <2>1. \A i \in 1 .. Len(l.buf) : l.buf[i].kind = "good"
    BY <1>3, <1>4 DEF Follows, CounterInv
  <2>2. DOMAIN m.buf = {}
    BY <1>11, <1>14
  <2> QED
    BY <1>21, <1>22, <2>1, <2>2 DEF InBuf
<1>24. CounterInv(F, m)
  <2>1. ASSUME NEW t \in {"edge", "node"}
        PROVE  Cardinality(GoodRead(F, m, t)) = m.num[t] + Cardinality(InBuf(m, t))
    <3>1. Cardinality(GoodRead(F, l, t)) = l.num[t] + Cardinality(InBuf(l, t))
      BY <1>4 DEF Follows, CounterInv, InBuf
    <3>2. l.num \in [{"edge", "node"} -> Nat]
      BY <1>4 DEF Local
    <3>3. Cardinality({}) = 0
      BY FS_EmptySet
    <3>4. Cardinality(InBuf(m, t)) = 0
      BY <1>23, <3>3
    <3>5. PICK b \in Nat : b = Len(l.buf)
      BY <1>22
    <3>6. Cardinality(1 .. b) = b
      BY FS_Interval
    <3>7. CASE t = c
      <4>1. Cardinality(InBuf(l, t)) = b
        BY <1>23, <3>5, <3>6, <3>7
      <4>2. m.num[t] = l.num[t] + b
        BY <1>8, <1>14, <3>2, <3>5, <3>7
      <4>3. l.num[t] + b + 0 = l.num[t] + b
        BY <3>2
      <4> QED
        BY <1>20, <3>1, <3>4, <4>1, <4>2, <4>3
    <3>8. CASE t # c
      <4>1. Cardinality(InBuf(l, t)) = 0
        BY <1>23, <3>3, <3>8
      <4>2. m.num[t] = l.num[t]
        BY <1>8, <1>14, <3>2, <3>8
      <4> QED
        BY <1>20, <3>1, <3>4, <4>1, <4>2
    <3> QED
      BY <3>7, <3>8
  <2>2. 1 .. m.sent = {}
    BY <1>14
  <2> QED
    BY <1>4, <1>14, <1>20, <2>1, <2>2 DEF Follows, CounterInv, InBuf
<1>25. \A t, x : x \notin Waiting(l, t)
  <2>1. l.sent + 1 .. Len(l.buf) = {}
    BY <1>3, <1>22
  <2> QED
    BY <2>1 DEF Waiting
<1>26. m.pc # "deg" /\ l.pc # "deg" /\ Runs(m)
  BY <1>3, <1>10, <1>14 DEF Runs
<1>27. GraphInv(F, m, deg, edge)
  BY <1>4, <1>20, <1>25, <1>26 DEF Follows, GraphInv
<1>28. u \notin mixed => AloneInv(F, m, deg)
  BY <1>4, <1>20, <1>25, <1>26 DEF Follows, AloneInv
<1> QED
  BY <1>2, <1>3, <1>13, <1>18, <1>24, <1>26, <1>27, <1>28, AllAfterMove DEF Follows

(* All lines are read and nothing waits when the degrees are to be added.  *)
LEMMA AllIsRead ==
  ASSUME NEW F \in Seq(File), NEW l, l.todo = <<>>, l.pc \in {"next", "deg"}
  PROVE  /\ LinesRead(F, l) = Lines(F)
         /\ \A t : GoodRead(F, l, t) = GoodRows(F, t)
         /\ \A t, x : x \notin Waiting(l, t)
         /\ \A t : InBuf(l, t) = {}
<1>1. Len(F) - Len(l.todo) = Len(F)
  OBVIOUS
<1>2. \A p \in Lines(F) : p[1] <= Len(F)
  BY LinesTyped
<1>3. LinesRead(F, l) = Lines(F)
  BY <1>1, <1>2 DEF LinesRead
<1>4. \A t : ~ Current(l, t)
  BY DEF Current
<1> QED
  BY <1>3, <1>4 DEF GoodRead, GoodRows, Waiting, InBuf

LEMMA CountDegreesKeepsAll ==
  ASSUME AllInv, BaseInv', UNCHANGED files, NEW u \in Update, CountDegrees(u) PROVE AllInv'
<1>1. PICK l : l = h[u]
  OBVIOUS
<1>2. PICK F : F = files[u]
  OBVIOUS
<1>3. PICK L : L = {v \in Vertex : l.degMap[v] > 0}
  OBVIOUS
<1>4. PICK m : m = [l EXCEPT !.pc = "deg", !.left = L]
  OBVIOUS
<1>5. /\ Grows /\ mixed' = mixed /\ last' = last /\ Running(u) /\ l.pc = "next"
      /\ l.todo = <<>> /\ h' = [h EXCEPT ![u] = m] /\ deg' = deg /\ edge' = edge
  BY <1>1, <1>3, <1>4 DEF CountDegrees, Grows, Running
<1>6. /\ l \in Local /\ F \in Seq(File) /\ Follows(F, l, deg, edge, u \notin mixed)
  BY <1>1, <1>2, <1>5, HandlerFollows DEF AllInv
<1>7. /\ m.pc = "deg" /\ m.todo = l.todo /\ m.rows = l.rows /\ m.buf = l.buf
      /\ m.sent = l.sent /\ m.num = l.num /\ m.degMap = l.degMap /\ m.left = L
  BY <1>4, <1>6 DEF Local
<1>8. ReaderInv(F, m)
  BY <1>5, <1>6, <1>7 DEF Follows, ReaderInv
<1>9. /\ \A t : GoodRead(F, m, t) = GoodRead(F, l, t)
      /\ \A t : Current(m, t) = Current(l, t)
      /\ \A t, x : x \notin Waiting(l, t)
  BY <1>5, <1>6, <1>7, AllIsRead DEF Current
<1>10. CounterInv(F, m)
  BY <1>6, <1>7, <1>9 DEF Follows, CounterInv
<1>11. GraphInv(F, m, deg, edge)
  BY <1>3, <1>6, <1>7, <1>9 DEF Follows, GraphInv
<1>12. ASSUME u \notin mixed PROVE AloneInv(F, m, deg)
  <2>1. ASSUME NEW p \in GoodRead(F, m, "node")
        PROVE  LET v == RowAt(F, p).src IN
               deg[v] = IF v \notin L THEN l.degMap[v] ELSE 0
    <3>1. PICK v : v = RowAt(F, p).src
      OBVIOUS
    <3>2. v \in Vertex
      BY <1>6, <3>1, LinesTyped, GoodReadIsLines DEF FileRow
    <3>3. deg[v] = 0
      BY <1>5, <1>6, <1>9, <1>12, <2>1, <3>1 DEF Follows, AloneInv
    <3>4. l.degMap[v] \in Nat
      BY <1>6, <3>2 DEF Local
    <3> QED
      BY <1>3, <3>1, <3>2, <3>3, <3>4
  <2> QED
    BY <1>7, <2>1 DEF AloneInv
<1> QED
  BY <1>2, <1>5, <1>7, <1>8, <1>10, <1>11, <1>12, AllAfterMove DEF Follows, Runs

LEMMA AddedDegrees ==
  ASSUME BaseInv, NEW u \in Update, NEW S \in SUBSET Vertex, AddDegrees(u, S),
         \A v \in S : deg[v] # None
  PROVE  \A v \in Vertex :
           /\ deg'[v] = IF v \in S THEN deg[v] + h[u].degMap[v] ELSE deg[v]
           /\ deg[v] # None => deg'[v] # None
<1>1. deg \in [Vertex -> Nat \cup {None}] /\ h[u].degMap \in [Vertex -> Nat]
  BY HandlersAreGood DEF BaseInv, TypeOK, Local
<1>2. \A v \in Vertex : deg'[v] = IF v \in S THEN deg[v] + h[u].degMap[v] ELSE deg[v]
  BY DEF AddDegrees
<1>3. \A v \in Vertex : deg[v] # None => deg[v] \in Nat /\ deg[v] + h[u].degMap[v] \in Nat
  BY <1>1
<1> QED
  BY <1>2, <1>3 DEF None

(* With nothing left, everything that was read is in the graph.            *)
LEMMA AllIsLoaded ==
  ASSUME AllInv, NEW u \in Update, h[u].pc = "deg", h[u].left = {}
  PROVE  Finished(files[u], h[u], deg, edge, u \notin mixed)
<1>1. PICK l : l = h[u]
  OBVIOUS
<1>2. PICK F : F = files[u]
  OBVIOUS
<1>3. /\ l \in Local /\ F \in Seq(File) /\ Follows(F, l, deg, edge, u \notin mixed)
  BY <1>1, <1>2, HandlerFollows DEF AllInv, Running
<1>4. l.pc = "deg" /\ l.left = {} /\ l.todo = <<>>
  BY <1>1, <1>3 DEF Follows, ReaderInv
<1>5. /\ \A t : GoodRead(F, l, t) = GoodRows(F, t) /\ InBuf(l, t) = {}
      /\ \A t, x : x \notin Waiting(l, t)
  BY <1>3, <1>4, AllIsRead
<1>6. ASSUME NEW t \in {"edge", "node"} PROVE l.num[t] = Cardinality(GoodRows(F, t))
  <2>1. Cardinality(GoodRows(F, t)) = l.num[t] + Cardinality(InBuf(l, t))
    BY <1>3, <1>5 DEF Follows, CounterInv, InBuf
  <2>2. Cardinality(InBuf(l, t)) = 0
    BY <1>5, FS_EmptySet
  <2>3. l.num[t] \in Nat
    BY <1>3 DEF Local
  <2> QED
    BY <2>1, <2>2, <2>3
<1>7. \A v \in Vertex : l.degMap[v] = DegreeIn(F, GoodRows(F, "edge"), v)
  BY <1>3, <1>5 DEF Follows, CounterInv
<1>8. ASSUME NEW p \in GoodRows(F, "edge"), NEW v \in {RowAt(F, p).src, RowAt(F, p).tgt}
      PROVE  deg[v] # None
  <2>1. v \in Vertex
    BY <1>3, LinesTyped, GoodReadIsLines DEF FileRow
  <2>2. PICK A : A = {q \in GoodRows(F, "edge") : RowAt(F, q).src = v}
    OBVIOUS
  <2>3. PICK B : B = {q \in GoodRows(F, "edge") : RowAt(F, q).tgt = v}
    OBVIOUS
  <2>4. A \in SUBSET Lines(F) /\ B \in SUBSET Lines(F) /\ (A # {} \/ B # {})
    <3>1. p \in A \/ p \in B
      BY <1>8, <2>2, <2>3
    <3>2. GoodRows(F, "edge") \subseteq Lines(F)
      BY DEF GoodRows
    <3> QED
      BY <2>2, <2>3, <3>1, <3>2
  <2>5. /\ Cardinality(A) \in Nat /\ Cardinality(B) \in Nat
        /\ Cardinality(A) # 0 \/ Cardinality(B) # 0
    BY <1>3, <2>4, LinesFinite, FS_EmptySet
  <2>6. l.degMap[v] = Cardinality(A) + Cardinality(B)
    BY <1>7, <2>1, <2>2, <2>3 DEF DegreeIn
  <2>7. l.degMap[v] > 0
    BY <2>5, <2>6
  <2> QED
    BY <1>3, <1>4, <2>1, <2>7 DEF Follows, GraphInv
<1>9. \A p \in GoodRows(F, "edge") : EdgesOf(RowAt(F, p)) \subseteq edge
  BY <1>3, <1>5 DEF Follows, GraphInv
<1>10. ASSUME u \notin mixed, NEW p \in GoodRows(F, "node")
       PROVE  LET v == RowAt(F, p).src IN deg[v] = DegreeIn(F, GoodRows(F, "edge"), v)
  <2>1. PICK v : v = RowAt(F, p).src
    OBVIOUS
  <2>2. v \in Vertex
    BY <1>3, <2>1, LinesTyped, GoodReadIsLines DEF FileRow
  <2>3. deg[v] = l.degMap[v]
    BY <1>3, <1>4, <1>5, <1>10, <2>1 DEF Follows, AloneInv
  <2> QED
    BY <1>7, <2>1, <2>2, <2>3
<1> QED
  BY <1>1, <1>2, <1>6, <1>8, <1>9, <1>10 DEF Finished

LEMMA MultiIncNodesDegKeepsAll ==
  ASSUME AllInv, BaseInv', UNCHANGED files, NEW u \in Update, MultiIncNodesDeg(u)
  PROVE  AllInv'
<1>1. PICK l : l = h[u]
  OBVIOUS
<1>2. PICK F : F = files[u]
  OBVIOUS
<1>3. /\ Running(u) /\ l.pc = "deg" /\ edge' = edge /\ mixed' = mixed
  BY <1>1 DEF MultiIncNodesDeg, Running
<1>4. /\ l \in Local /\ F \in Seq(File) /\ Follows(F, l, deg, edge, u \notin mixed)
  BY <1>1, <1>2, <1>3, HandlerFollows DEF AllInv
<1>5. l.todo = <<>> /\ l.left \in SUBSET Vertex
  BY <1>3, <1>4 DEF Follows, ReaderInv, Local
<1>6. CASE l.left = {} /\ Return(u, "done") /\ UNCHANGED deg
  BY <1>1, <1>3, <1>6, AllIsLoaded, AllAfterReturning DEF Ended, Grows
<1>10. CASE Return(u, "failed") /\ UNCHANGED deg
  BY <1>3, <1>10, AllAfterReturning DEF Ended, Grows
<1>7. ASSUME NEW S \in SUBSET l.left, AddDegrees(u, S), \A v \in S : deg[v] # None
      PROVE  /\ Grows
             /\ \A v \in Vertex :
                  deg'[v] = IF v \in S THEN deg[v] + l.degMap[v] ELSE deg[v]
  BY <1>1, <1>3, <1>5, <1>7, AddedDegrees DEF Grows, AllInv
<1>8. ASSUME NEW S \in SUBSET l.left, AddDegrees(u, S), \A v \in S : deg[v] # None,
             Return(u, "failed")
      PROVE  AllInv'
  BY <1>3, <1>7, <1>8, AllAfterReturning DEF Ended
<1>9. ASSUME NEW S \in SUBSET l.left, AddDegrees(u, S), \A v \in S : deg[v] # None,
             h' = [h EXCEPT ![u].left = @ \ S], last' = last
      PROVE  AllInv'
  <2>1. PICK L : L = l.left \ S
    OBVIOUS
  <2>2. PICK m : m = [l EXCEPT !.left = L]
    OBVIOUS
  <2>3. h' = [h EXCEPT ![u] = m]
    BY <1>1, <1>9, <2>1, <2>2
  <2>4. /\ m.pc = "deg" /\ m.todo = l.todo /\ m.rows = l.rows /\ m.buf = l.buf
        /\ m.sent = l.sent /\ m.num = l.num /\ m.degMap = l.degMap /\ m.left = L
    BY <1>3, <1>4, <2>2 DEF Local
  <2>5. Grows /\ \A v \in Vertex :
          deg'[v] = IF v \in S THEN deg[v] + l.degMap[v] ELSE deg[v]
    BY <1>7, <1>9
  <2>6. ReaderInv(F, m)
    BY <1>3, <1>4, <2>4 DEF Follows, ReaderInv
  <2>7. /\ \A t : GoodRead(F, m, t) = GoodRead(F, l, t)
        /\ \A t : Current(m, t) = Current(l, t)
        /\ \A t, x : x \notin Waiting(l, t)
    BY <1>3, <1>4, <1>5, <2>4, AllIsRead DEF Current
  <2>8. CounterInv(F, m)
    BY <1>4, <2>4, <2>7 DEF Follows, CounterInv
  <2>9. GraphInv(F, m, deg', edge')
    <3>1. \A p \in GoodRead(F, m, "edge") : EdgesOf(RowAt(F, p)) \subseteq edge'
      BY <1>3, <1>4, <2>7 DEF Follows, GraphInv
    <3>2. ASSUME NEW v \in Vertex, l.degMap[v] > 0, v \notin L PROVE deg[v] # None
      <4>1. CASE v \in S
        BY <1>9, <4>1
      <4>2. CASE v \notin l.left
        BY <1>3, <1>4, <3>2, <4>2 DEF Follows, GraphInv
      <4> QED
        BY <2>1, <3>2, <4>1, <4>2
    <3> QED
      BY <2>4, <2>5, <3>1, <3>2 DEF GraphInv, Grows
  <2>10. ASSUME u \notin mixed PROVE AloneInv(F, m, deg')
    <3>1. ASSUME NEW p \in GoodRead(F, m, "node")
          PROVE  LET v == RowAt(F, p).src IN
                 deg'[v] = IF v \notin L THEN l.degMap[v] ELSE 0
      <4>1. PICK v : v = RowAt(F, p).src
        OBVIOUS
      <4>2. v \in Vertex
        BY <1>4, <4>1, LinesTyped, GoodReadIsLines DEF FileRow
      <4>3. deg[v] = IF v \notin l.left THEN l.degMap[v] ELSE 0
        BY <1>3, <1>4, <2>7, <2>10, <3>1, <4>1 DEF Follows, AloneInv
      <4>4. l.degMap[v] \in Nat
        BY <1>4, <4>2 DEF Local
      <4> QED
        BY <2>1, <2>5, <4>1, <4>2, <4>3, <4>4
    <3> QED
      BY <2>4, <3>1 DEF AloneInv
  <2>11. Runs(m)
    BY <2>4 DEF Runs
  <2> QED
    BY <1>2, <1>3, <1>9, <2>3, <2>5, <2>6, <2>8, <2>9, <2>10, <2>11, AllAfterMove DEF Follows
<1> QED
  BY <1>1, <1>3, <1>6, <1>8, <1>9, <1>10 DEF MultiIncNodesDeg

LEMMA AllInvInit == Init => AllInv
<1> SUFFICES ASSUME Init PROVE AllInv
  OBVIOUS
<1>1. BaseInv
  BY BaseInvInit
<1>2. ASSUME NEW u \in Update
      PROVE  /\ h[u].pc = "idle" /\ h[u].num = [t \in {"edge", "node"} |-> 0]
             /\ files[u] \in Seq(File)
  <2>1. h[u] = [Fresh(u) EXCEPT !.pc = "idle"]
    BY DEF Init
  <2>2. PICK f : f = Fresh(u)
    OBVIOUS
  <2>3. f.num = [t \in {"edge", "node"} |-> 0]
    BY <2>2 DEF Fresh
  <2>4. f \in Local
    BY <1>1, <2>2, FreshIsGood, HandlersAreGood
  <2>5. [f EXCEPT !.pc = "idle"].num = f.num /\ [f EXCEPT !.pc = "idle"].pc = "idle"
    BY <2>4 DEF Local
  <2> QED
    BY <1>1, <2>1, <2>2, <2>3, <2>5, HandlersAreGood
<1>3. RowsInv
  BY <1>2 DEF RowsInv, Running
<1>4. CountersMatchRows
  <2>1. ASSUME NEW u \in Update, NEW t \in {"edge", "node"}
        PROVE  h[u].num[t] <= Cardinality(GoodRows(files[u], t))
    <3>1. Cardinality(GoodRows(files[u], t)) \in Nat
      BY <1>2, LinesFinite, GoodReadIsLines
    <3> QED
      BY <1>2, <3>1
  <2> QED
    BY <1>2, <2>1 DEF CountersMatchRows
<1>5. DoneLeavesNoDanglingEdge /\ DegreesOfLastLoad
  BY <1>2 DEF DoneLeavesNoDanglingEdge, DegreesOfLastLoad
<1> QED
  BY <1>1, <1>3, <1>4, <1>5 DEF AllInv, EndInv

LEMMA BaseInvStep == BaseInv /\ [Next]_vars => BaseInv'
<1> SUFFICES ASSUME BaseInv, [Next]_vars PROVE BaseInv'
  OBVIOUS
<1>1. CASE Next
  <2>1. UNCHANGED files
    BY <1>1 DEF Next
  <2>2. PICK u \in Update : Begin(u) \/ Handle(u) \/ Stop(u)
    BY <1>1 DEF Next
  <2> QED
    BY <2>1, <2>2, BeginStep, StopStep, FetchSourceStep, ReadRowStep, ReadEndStep,
       InsertStep, InsertedStep, CountDegreesStep, MultiIncNodesDegStep DEF Handle
<1>2. CASE UNCHANGED vars
  <2>1. TypeOK'
    BY <1>2 DEF BaseInv, TypeOK, vars
  <2>2. HandlerInv' /\ DegreesNeedEdges'
    BY <1>2 DEF BaseInv, HandlerInv, Running, DegreesNeedEdges, vars
  <2> QED
    BY <2>1, <2>2 DEF BaseInv
<1> QED
  BY <1>1, <1>2

LEMMA AllInvStep == AllInv /\ [Next]_vars => AllInv'
<1> SUFFICES ASSUME AllInv, [Next]_vars PROVE AllInv'
  OBVIOUS
<1>1. BaseInv'
  BY BaseInvStep DEF AllInv
<1>2. CASE Next
  <2>1. UNCHANGED files
    BY <1>2 DEF Next
  <2>2. PICK u \in Update : Begin(u) \/ Handle(u) \/ Stop(u)
    BY <1>2 DEF Next
  <2> QED
    BY <1>1, <2>1, <2>2, BeginKeepsAll, StopKeepsAll, FetchSourceKeepsAll,
       ReadRowKeepsAll, ReadEndKeepsAll, InsertKeepsAll, InsertedKeepsAll,
       CountDegreesKeepsAll, MultiIncNodesDegKeepsAll DEF Handle
<1>3. CASE UNCHANGED vars
  <2>1. RowsInv'
    BY <1>3 DEF AllInv, RowsInv, Running, vars
  <2>2. CountersMatchRows' /\ DoneLeavesNoDanglingEdge' /\ DegreesOfLastLoad'
    BY <1>3 DEF AllInv, EndInv, CountersMatchRows, DoneLeavesNoDanglingEdge,
      DegreesOfLastLoad, Running, vars
  <2> QED
    BY <1>1, <2>1, <2>2 DEF AllInv, EndInv
<1> QED
  BY <1>2, <1>3

LEMMA AllInvAlways == Spec => []AllInv
BY AllInvInit, AllInvStep, PTL DEF Spec

(* In every state, also in the middle of updates that overlap, fail and    *)
(* start again, a vertex with a degree has an edge, since edges are sent   *)
(* before degrees are added (updateGraph.go:103, :182), and every row that *)
(* a handler has read is counted, and in the graph or in its buffer.       *)
THEOREM DegreesComeFromEdges == Spec => []DataAgree
<1>1. AllInv => DataAgree
  BY DEF AllInv, DataAgree
<1> QED
  BY <1>1, AllInvAlways, PTL

(* Whatever the sizes of the files, of a batch and of a sub-batch: the     *)
(* counters never exceed the well formed rows, and are exact in the end    *)
(* (updateGraph.go:102, :161).                                             *)
THEOREM CountersAreExact == Spec => []CountersMatchRows
<1>1. AllInv => CountersMatchRows
  BY DEF AllInv, EndInv
<1> QED
  BY <1>1, AllInvAlways, PTL

(* An update that succeeds has all its edges in the graph, and both ends   *)
(* of each as vertices: the statement that adds a degree to a vertex that  *)
(* is not there fails (nebula_impl.go:204).                                *)
THEOREM DoneIsComplete == Spec => []DoneLeavesNoDanglingEdge
<1>1. AllInv => DoneLeavesNoDanglingEdge
  BY DEF AllInv, EndInv
<1> QED
  BY <1>1, AllInvAlways, PTL

(* Loading a graph again repairs its degrees, whatever happened before to  *)
(* any number of updates: a vertex is written with degree 0, and its       *)
(* degree is added once (nebula_impl.go:155, updateGraph.go:182).          *)
THEOREM LastLoadSetsDegrees == Spec => []DegreesOfLastLoad
<1>1. AllInv => DegreesOfLastLoad
  BY DEF AllInv, EndInv
<1> QED
  BY <1>1, AllInvAlways, PTL
=============================================================================
