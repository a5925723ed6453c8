---------------------------- MODULE UpdateBatches ----------------------------
(***************************************************************************)
(* How UpdateGraph turns files into vertices, edges and degrees.  The      *)
(* handler streams the files, edges first, collects rows, sends them in    *)
(* sub-batches to Nebula, and adds the degrees it counted at the very end. *)
(* A vertex is always written with degree 0.  GraphLifecycle has the       *)
(* status, the row and the delivery of the task; here are the data.        *)
(***************************************************************************)
EXTENDS Integers, FiniteSets, SequencesExt

CONSTANTS
  Update,        \* the UpdateGraph tasks
  Loads,         \* Loads[u]: the lists of files, edges first, that u may name
  Vertex,        \* the ids that occur in files
  maxInsertNum,  \* rows above which a batch is flushed (100000)
  Batch,         \* rows per INSERT statement
  Group,         \* vertices per statement of MultiIncNodesDeg (100)
  Direct,        \* whether the edge type is directed
  MaxRestarts    \* bound: times that a shutdown makes a handler start again

\* A row of a node file has the id in src.  A row is short when its number of
\* fields is wrong, and text when an id is not a number.
FileRow == [src : Vertex, tgt : Vertex, kind : {"good", "short", "text"}]

\* A file names a known type or not, has the columns of ids (ids) and of the
\* attributes (all), and its stream may break for ever after the last row read.
File == [type : {"edge", "node"}, known : BOOLEAN, rows : Seq(FileRow),
         format : {"csv", "xls", "xlsx"}, columns : {"none", "ids", "all"},
         breaks : BOOLEAN]

None == -1

ASSUME UpdateBatchesAssumption ==
  /\ \A u \in Update : \A l \in Loads[u] : l \in Seq(File)
  /\ \A u \in Update : \A l \in Loads[u] : \A i, j \in DOMAIN l :
       l[i].type = "node" /\ l[j].type = "edge" => j < i
  /\ maxInsertNum \in Nat
  /\ None \notin Update
  /\ Batch \in Nat \ {0}
  /\ Group \in Nat \ {0}
  /\ Direct \in BOOLEAN
  /\ MaxRestarts \in Nat

VARIABLES
  files,     \* files[u]: the files that u names; they stay
  deg,       \* deg[v]: the property deg of vertex v, or None
  edge,      \* the edges in the space
  h,         \* h[u]: the local state of the handler of u
  last,      \* the update whose handler stopped last, or None
  mixed,     \* the updates that ran next to another one (history)
  restarts   \* restarts so far

vars == <<files, deg, edge, h, last, mixed, restarts>>

\* Fresh: the local variables at the start.  todo are the files not yet read to
\* their end, rows what the parser has still to return, sent the rows of buf
\* that Nebula has, num the counters, degMap the degrees, left the ids in degMap
\* still to be added.
Fresh(u) == [pc |-> "next", todo |-> files[u], rows |-> <<>>, buf |-> <<>>,
             sent |-> 0, num |-> [t \in {"edge", "node"} |-> 0],
             degMap |-> [v \in Vertex |-> 0], left |-> {}]

Ended == {"done", "failed", "lost", "unreadable"}
Running(u) == h[u].pc \in {"next", "read", "flush", "rest", "deg"}

Local == [pc : {"idle", "next", "read", "flush", "rest", "deg"} \cup Ended,
          todo : Seq(File), rows : Seq(FileRow), buf : Seq(FileRow), sent : Nat,
          num : [{"edge", "node"} -> Nat], degMap : [Vertex -> Nat], left : SUBSET Vertex]

TypeOK ==
  /\ \A u \in Update : files[u] \in Loads[u]
  /\ h \in [Update -> Local]
  /\ deg \in [Vertex -> Nat \cup {None}]
  /\ edge \in SUBSET (Vertex \X Vertex)
  /\ \A u \in Update :
       /\ h[u].sent \in 0 .. Len(h[u].buf)
       /\ Len(h[u].buf) <= maxInsertNum + 1
  /\ last \in Update \cup {None}
  /\ mixed \subseteq Update
  /\ restarts \in 0 .. MaxRestarts

Init ==
  /\ files \in [Update -> UNION {Loads[u] : u \in Update}]
  /\ \A u \in Update : files[u] \in Loads[u]
  /\ deg = [v \in Vertex |-> None]
  /\ edge = {}
  /\ h = [u \in Update |-> [Fresh(u) EXCEPT !.pc = "idle"]]
  /\ last = None
  /\ mixed = {}
  /\ restarts = 0
-----------------------------------------------------------------------------
(* The start and the end of a handler.                                     *)

Begin(u) ==
  /\ h[u].pc = "idle"
  /\ h' = [h EXCEPT ![u] = Fresh(u)]
  /\ LET R == {v \in Update : Running(v)} IN
     mixed' = IF R = {} THEN mixed \ {u} ELSE mixed \cup R \cup {u}
  /\ UNCHANGED <<deg, edge, last, restarts>>

\* A return, with the counts in the deferred write.
Return(u, how) ==
  /\ h' = [h EXCEPT ![u] = [Fresh(u) EXCEPT !.pc = how, !.num = h[u].num]]
  /\ last' = u

\* The consumer goes down: the task starts again elsewhere, or is lost.
Stop(u) ==
  /\ Running(u)
  /\ \/ /\ restarts < MaxRestarts
        /\ restarts' = restarts + 1
        /\ h' = [h EXCEPT ![u].pc = "idle"]
        /\ last' = u
     \/ Return(u, "lost") /\ UNCHANGED restarts
  /\ UNCHANGED <<deg, edge, mixed>>
-----------------------------------------------------------------------------
(* Files and rows.                                                         *)

Parsers == <<"csv", "xls", "xlsx">>

\* NewExcelParser tries the parsers in turn on one stream.  The first takes the
\* beginning of it, and nothing rewinds it for the next.
NewExcelParser(f) == \E i \in DOMAIN Parsers : Parsers[i] = f.format /\ i = 1

\* The type is looked up, the file fetched and its parser made; the columns of
\* ids must be there.
FetchSource(u) ==
  LET f == Head(h[u].todo) IN
  /\ h[u].pc = "next"
  /\ h[u].todo # <<>>
  /\ \/ /\ f.known /\ NewExcelParser(f) /\ f.columns # "none"
        /\ h' = [h EXCEPT ![u].pc = "read", ![u].rows = f.rows]
        /\ UNCHANGED last
     \/ f.known /\ ~ NewExcelParser(f) /\ Return(u, "unreadable")
     \/ Return(u, "failed")
  /\ UNCHANGED <<deg, edge, mixed, restarts>>

\* Both ends of an edge are counted.
Count(d, r) ==
  LET once == [d EXCEPT ![r.src] = @ + 1] IN [once EXCEPT ![r.tgt] = @ + 1]

\* A bug: a row in error is tried again.
ReadRowStuck(u) ==
  LET r == Head(h[u].rows) IN
  /\ h[u].pc = "read"
  /\ h[u].rows # <<>>
  /\ h' = [h EXCEPT ![u].rows = IF r.kind = "short" THEN @ ELSE Tail(@)]
  /\ UNCHANGED <<deg, edge, last, mixed, restarts>>

\* A short row is logged and skipped.  An id that is no number ends an edge file
\* in error; in a node file it is only found out by Nebula.
ReadRow(u) ==
  LET r == Head(h[u].rows)
      f == Head(h[u].todo)
      buf == Append(h[u].buf, r) IN
  /\ h[u].pc = "read"
  /\ h[u].rows # <<>>
  /\ \/ /\ r.kind = "short"
        /\ h' = [h EXCEPT ![u].rows = Tail(@)]
        /\ UNCHANGED last
     \/ r.kind = "text" /\ f.type = "edge" /\ Return(u, "failed")
     \/ /\ r.kind = "good" \/ (r.kind = "text" /\ f.type = "node")
        /\ h' = [h EXCEPT ![u].rows = Tail(@), ![u].buf = buf,
                   ![u].pc = IF Len(buf) > maxInsertNum THEN "flush" ELSE @,
                   ![u].degMap = IF f.type = "edge" THEN Count(@, r) ELSE @]
        /\ UNCHANGED last
  /\ UNCHANGED <<deg, edge, mixed, restarts>>

\* At the end of the file what is left goes to Nebula.  An error of the stream
\* is not the end: the handler reads on, and gets the same error.
ReadEnd(u) ==
  /\ h[u].pc = "read"
  /\ h[u].rows = <<>>
  /\ ~ Head(h[u].todo).breaks
  /\ h' = [h EXCEPT ![u].pc = "rest"]
  /\ UNCHANGED <<deg, edge, last, mixed, restarts>>
-----------------------------------------------------------------------------
(* MultiInsertEdges, MultiInsertNodes and MultiIncNodesDeg.                *)

\* The edges of a row: an undirected type has both directions.
EdgesOf(r) == {<<r.src, r.tgt>>} \cup (IF Direct THEN {} ELSE {<<r.tgt, r.src>>})

\* A bug: a vertex that is there keeps its degree.
InsertRowsKeepDeg(f, S) ==
  IF f.type = "edge"
  THEN edge' = edge \cup UNION {EdgesOf(r) : r \in S} /\ UNCHANGED deg
  ELSE /\ deg' = [v \in Vertex |->
                   IF deg[v] = None /\ \E r \in S : r.src = v THEN 0 ELSE deg[v]]
       /\ UNCHANGED edge

\* One INSERT of the rows S of a file f.
InsertRows(f, S) ==
  IF f.type = "edge"
  THEN edge' = edge \cup UNION {EdgesOf(r) : r \in S} /\ UNCHANGED deg
  ELSE /\ deg' = [v \in Vertex |-> IF \E r \in S : r.src = v THEN 0 ELSE deg[v]]
       /\ UNCHANGED edge

\* A bug: the error of a sub-batch is only logged.
InsertIgnoresErrors(u) ==
  LET n == IF h[u].sent + Batch < Len(h[u].buf)
           THEN h[u].sent + Batch ELSE Len(h[u].buf)
      S == {h[u].buf[i] : i \in h[u].sent + 1 .. n} IN
  /\ h[u].pc \in {"flush", "rest"}
  /\ h[u].sent < Len(h[u].buf)
  /\ InsertRows(Head(h[u].todo), S) \/ UNCHANGED <<deg, edge>>
  /\ h' = [h EXCEPT ![u].sent = n]
  /\ UNCHANGED <<last, mixed, restarts>>

\* Of an INSERT that fails Nebula may have executed any part, of an undirected edge
\* one direction.
InsertPart(f, S) ==
  IF f.type = "edge"
  THEN /\ \E E \in SUBSET UNION {EdgesOf(r) : r \in S} : edge' = edge \cup E
       /\ UNCHANGED deg
  ELSE \E R \in SUBSET S : InsertRows(f, R)

\* A sub-batch: an attribute may be missing, Nebula may refuse it (it does when
\* an id is no number), fail in the middle, and a reply may be lost.
Insert(u) ==
  LET n == IF h[u].sent + Batch < Len(h[u].buf)
           THEN h[u].sent + Batch ELSE Len(h[u].buf)
      S == {h[u].buf[i] : i \in h[u].sent + 1 .. n}
      f == Head(h[u].todo) IN
  /\ h[u].pc \in {"flush", "rest"}
  /\ h[u].sent < Len(h[u].buf)
  /\ \/ /\ f.columns = "all"
        /\ \A r \in S : r.kind = "good"
        /\ \/ InsertRows(f, S) /\ h' = [h EXCEPT ![u].sent = n] /\ UNCHANGED last
           \/ InsertPart(f, S) /\ Return(u, "failed")
     \/ Return(u, "failed") /\ UNCHANGED <<deg, edge>>
  /\ UNCHANGED <<mixed, restarts>>

\* A bug: the rows that were flushed stay in the buffer.
InsertedKeepsRows(u) ==
  LET f == Head(h[u].todo) IN
  /\ h[u].pc \in {"flush", "rest"}
  /\ h[u].sent = Len(h[u].buf)
  /\ h' = [h EXCEPT ![u].num[f.type] = @ + Len(h[u].buf), ![u].sent = 0,
             ![u].buf = IF h[u].pc = "flush" THEN Tail(@) ELSE <<>>,
             ![u].todo = IF h[u].pc = "rest" THEN Tail(@) ELSE @,
             ![u].pc = IF @ = "rest" THEN "next" ELSE "read"]
  /\ UNCHANGED <<deg, edge, last, mixed, restarts>>

\* The whole batch is in Nebula and is counted; the rest ends the file.  An empty
\* rest has no statement, but may fail to get a session.
Inserted(u) ==
  LET f == Head(h[u].todo) IN
  /\ h[u].pc \in {"flush", "rest"}
  /\ h[u].sent = Len(h[u].buf)
  /\ \/ /\ h' = [h EXCEPT ![u].num[f.type] = @ + Len(h[u].buf), ![u].sent = 0,
                   ![u].buf = <<>>,
                   ![u].todo = IF h[u].pc = "rest" THEN Tail(@) ELSE @,
                   ![u].pc = IF @ = "rest" THEN "next" ELSE "read"]
        /\ UNCHANGED last
     \/ h[u].buf = <<>> /\ Return(u, "failed")
  /\ UNCHANGED <<deg, edge, mixed, restarts>>

\* All files are read: the ids in degMap are visited in any order.
CountDegrees(u) ==
  /\ h[u].pc = "next"
  /\ h[u].todo = <<>>
  /\ h' = [h EXCEPT ![u].pc = "deg",
             ![u].left = {v \in Vertex : h[u].degMap[v] > 0}]
  /\ UNCHANGED <<deg, edge, last, mixed, restarts>>

AddDegrees(u, S) ==
  deg' = [v \in Vertex |-> IF v \in S /\ deg[v] # None
                           THEN deg[v] + h[u].degMap[v] ELSE deg[v]]

\* A bug: a vertex that is not there is passed over.
MultiIncNodesDegSkips(u) ==
  /\ h[u].pc = "deg"
  /\ AddDegrees(u, h[u].left)
  /\ Return(u, "done")
  /\ UNCHANGED <<edge, mixed, restarts>>

\* One statement updates a group of vertices, one after the other.  The first
\* vertex that is not there ends the statement and the handler, and so does any
\* other error; what came before it stays.  Without any degree to add there may
\* still be no session.
MultiIncNodesDeg(u) ==
  /\ h[u].pc = "deg"
  /\ \/ /\ h[u].left = {}
        /\ \/ Return(u, "done")
           \/ (\A v \in Vertex : h[u].degMap[v] = 0) /\ Return(u, "failed")
        /\ UNCHANGED deg
     \/ /\ h[u].left # {}
        /\ \E S \in SUBSET h[u].left :
             /\ \/ Cardinality(S) = Group
                \/ Cardinality(S) < Group /\ S = h[u].left
             /\ \A v \in S : deg[v] # None
             /\ AddDegrees(u, S)
             /\ h' = [h EXCEPT ![u].left = @ \ S]
        /\ UNCHANGED last
     \/ /\ h[u].left # {}
        /\ \E S \in SUBSET h[u].left :
             /\ Cardinality(S) <= Group
             /\ \A v \in S : deg[v] # None
             /\ AddDegrees(u, S)
        /\ Return(u, "failed")
  /\ UNCHANGED <<edge, mixed, restarts>>
-----------------------------------------------------------------------------
Handle(u) ==
  \/ FetchSource(u) \/ ReadRow(u) \/ ReadEnd(u) \/ Insert(u) \/ Inserted(u)
  \/ CountDegrees(u) \/ MultiIncNodesDeg(u)

Next ==
  /\ \E u \in Update : Begin(u) \/ Handle(u) \/ Stop(u)
  /\ UNCHANGED files

Spec == Init /\ [][Next]_vars

\* A waiting task is picked, and the calls of its handler return.
Go(u) == Begin(u) \/ Handle(u)

FairSpec == Spec /\ \A u \in Update : WF_vars(Go(u) /\ UNCHANGED files)
-----------------------------------------------------------------------------
(* Properties.                                                             *)

\* The lines of the files F, and the well formed ones of the files of a type.
Lines(F) == UNION {{i} \X DOMAIN F[i].rows : i \in DOMAIN F}
RowAt(F, p) == F[p[1]].rows[p[2]]
GoodRows(F, type) ==
  {p \in Lines(F) : F[p[1]].type = type /\ RowAt(F, p).kind = "good"}

\* The degree of v that the lines P of F give, a loop counted twice.
DegreeIn(F, P, v) ==
  Cardinality({p \in P : RowAt(F, p).src = v})
    + Cardinality({p \in P : RowAt(F, p).tgt = v})

\* When the last update has succeeded, and ran alone, the vertices it brought have
\* the degrees of its own edge files, whatever failed, was lost, overlapped or
\* started again before it: a vertex is written with degree 0
\* (nebula_impl.go:155) and its degree is added once, at the end
\* (updateGraph.go:182).  Loading a graph again therefore repairs its degrees.
DegreesOfLastLoad ==
  \A u \in Update \ mixed :
    last = u /\ h[u].pc = "done" /\ (\A v \in Update : ~ Running(v))
    => \A p \in GoodRows(files[u], "node") :
         LET v == RowAt(files[u], p).src IN
         deg[v] = DegreeIn(files[u], GoodRows(files[u], "edge"), v)

\* An update that succeeds leaves no edge dangling, although nothing looks at
\* the ends of an edge: adding the degree of a missing vertex fails
\* (nebula_impl.go:204).
DoneLeavesNoDanglingEdge ==
  \A u \in Update :
    h[u].pc = "done" =>
      \A p \in GoodRows(files[u], "edge") :
        LET r == RowAt(files[u], p) IN
        EdgesOf(r) \subseteq edge /\ deg[r.src] # None /\ deg[r.tgt] # None

\* A degree is never ahead of the edges, also in the middle of updates that
\* overlap, fail or start again: edges go first (updateGraph.go:103).
DegreesNeedEdges ==
  \A v \in Vertex : deg[v] > 0 => \E e \in edge : v \in {e[1], e[2]}

\* The counters of an update never exceed its rows, and are exact when it has
\* succeeded, whatever the size of the file is relative to maxInsertNum and to
\* the sub-batches (updateGraph.go:102, :161).
CountersMatchRows ==
  \A u \in Update : \A t \in {"edge", "node"} :
    /\ h[u].num[t] <= Cardinality(GoodRows(files[u], t))
    /\ h[u].pc = "done" => h[u].num[t] = Cardinality(GoodRows(files[u], t))

\* An update whose streams do not break ends, rows in error or not, also next to
\* one that reads a broken stream for ever (updateGraph.go:81).
UpdateEnds ==
  \A u \in Update :
    (\A i \in DOMAIN files[u] : ~ files[u][i].breaks) => <>(h[u].pc \in Ended)

\* Where a handler is, and the vertices it has counted: they are in the graph, or
\* in the rows of an edge file that are still to be sent.
HandlerInv ==
  \A u \in Update : Running(u) =>
    /\ h[u].pc \in {"next", "deg"} => h[u].buf = <<>>
    /\ h[u].pc \notin {"flush", "rest"} => h[u].sent = 0
    /\ h[u].pc \in {"read", "flush", "rest"} => h[u].todo # <<>>
    /\ h[u].pc = "read" => Len(h[u].buf) <= maxInsertNum
    /\ \A v \in Vertex : h[u].degMap[v] > 0 =>
         \/ \E e \in edge : v \in {e[1], e[2]}
         \/ /\ h[u].todo # <<>> /\ Head(h[u].todo).type = "edge"
            /\ \E i \in h[u].sent + 1 .. Len(h[u].buf) :
                 v \in {h[u].buf[i].src, h[u].buf[i].tgt}

\* The lines of F that a handler in local state l has read, and its rows that
\* Nebula does not have yet.
LinesRead(F, l) ==
  LET k == Len(F) - Len(l.todo) IN
  {p \in Lines(F) : \/ p[1] <= k
                    \/ /\ l.pc \in {"read", "flush", "rest"}
                       /\ p[1] = k + 1
                       /\ p[2] <= Len(F[p[1]].rows) - Len(l.rows)}
GoodRead(F, l, type) == GoodRows(F, type) \cap LinesRead(F, l)
Current(l, type) == l.todo # <<>> /\ Head(l.todo).type = type
Waiting(l, type) ==
  IF Current(l, type) THEN {l.buf[i] : i \in l.sent + 1 .. Len(l.buf)} ELSE {}

\* What is still to be read is the end of the files and of the present one.
ReaderInv(F, l) ==
  /\ Len(l.todo) <= Len(F)
  /\ \A i \in DOMAIN l.todo : l.todo[i] = F[Len(F) - Len(l.todo) + i]
  /\ l.pc \in {"read", "flush", "rest"} =>
       LET all == Head(l.todo).rows IN
       /\ Len(l.rows) <= Len(all)
       /\ \A j \in DOMAIN l.rows : l.rows[j] = all[Len(all) - Len(l.rows) + j]
  /\ l.pc = "rest" => l.rows = <<>>
  /\ l.pc = "deg" => l.todo = <<>>

\* Every good row that was read is counted or in the buffer, and those of edge
\* files are in the degrees.
CounterInv(F, l) ==
  /\ \A i \in 1 .. l.sent : l.buf[i].kind = "good"
  /\ \A t \in {"edge", "node"} :
       Cardinality(GoodRead(F, l, t)) =
         l.num[t] + Cardinality({i \in DOMAIN l.buf :
                                   Current(l, t) /\ l.buf[i].kind = "good"})
  /\ \A v \in Vertex : l.degMap[v] = DegreeIn(F, GoodRead(F, l, "edge"), v)

\* It is in the graph, with degrees D and edges E, or waits in the buffer.
GraphInv(F, l, D, E) ==
  /\ \A p \in GoodRead(F, l, "edge") :
       EdgesOf(RowAt(F, p)) \subseteq E \/ RowAt(F, p) \in Waiting(l, "edge")
  /\ l.pc = "deg" =>
       \A v \in Vertex : l.degMap[v] > 0 /\ v \notin l.left => D[v] # None

\* Nobody else writes degrees while an update runs alone.
AloneInv(F, l, D) ==
  \A p \in GoodRead(F, l, "node") :
    LET v == RowAt(F, p).src IN
    \/ D[v] = IF l.pc = "deg" /\ v \notin l.left THEN l.degMap[v] ELSE 0
    \/ RowAt(F, p) \in Waiting(l, "node")

RowsInv ==
  \A u \in Update : Running(u) =>
    /\ ReaderInv(files[u], h[u])
    /\ CounterInv(files[u], h[u])
    /\ GraphInv(files[u], h[u], deg, edge)
    /\ u \notin mixed => /\ AloneInv(files[u], h[u], deg)
                         /\ \A v \in Update : Running(v) => v = u

\* No degree, counter or buffer gets out of step with the rows, at any moment.
BaseInv == TypeOK /\ HandlerInv /\ DegreesNeedEdges
DataAgree == BaseInv /\ RowsInv
=============================================================================
