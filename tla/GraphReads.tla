----------------------------- MODULE GraphReads -----------------------------
(***************************************************************************)
(* The three queries of a graph, run by the consumer: GetGraph walks from  *)
(* the vertices of highest degree, GetNeighbors from one vertex, GetNodes  *)
(* lists all.  A walk and the look-up of the vertices that it met are two  *)
(* statements, and imports and drops of the graph happen in between.       *)
(* Nebula itself is external: its GO walks step by step, samples the edges *)
(* of each step and goes on from the far ends of the sample.               *)
(***************************************************************************)
EXTENDS Naturals, Sequences, FiniteSets, FiniteSetsExt

CONSTANTS
  Vertex,   \* ids
  Tagged,   \* the vertices with a tag besides base
  Edge,     \* the edges that can be imported: pairs of ids
  Request,  \* the queries
  MaxMax,   \* bound: the largest max that is asked for
  MaxTop    \* bound: the largest top

ASSUME GraphReadsAssumption ==
  /\ Tagged \subseteq Vertex
  /\ Edge \subseteq Vertex \X Vertex
  /\ {MaxMax, MaxTop} \subseteq Nat

VARIABLES
  hasSpace,  \* is the space there
  vertex,    \* the vertices in it
  edge,      \* the edges in it, dangling or not
  req        \* req[r]: the query r

readVars == <<hasSpace, vertex, edge, req>>

Kind == {"get", "neighbors", "nodes"}
Direction == {"", "REVERSELY", "BIDIRECT"}
Replied == {"ok", "failed"}
Tag == {"base", "tag"}

\* An unasked query.
NoReq == [pc |-> "none", kind |-> "nodes", top |-> 0, max |-> 0, dir |-> "", from |-> {},
          front |-> {}, step |-> 0, edges |-> {}, known |-> {}, nodes |-> {}]

Query == [pc : {"none", "top", "go", "fetch", "list"} \cup Replied, kind : Kind,
          top : 0 .. MaxTop, max : 0 .. MaxMax, dir : Direction,
          from : SUBSET Vertex, front : SUBSET Vertex, step : 0 .. MaxMax,
          edges : SUBSET Edge, known : SUBSET Vertex, nodes : SUBSET (Vertex \X Tag)]

ReadTypeOK ==
  /\ hasSpace \in BOOLEAN
  /\ vertex \subseteq Vertex
  /\ edge \subseteq Edge
  /\ req \in [Request -> Query]

ReadInit ==
  /\ hasSpace = TRUE
  /\ vertex = {}
  /\ edge = {}
  /\ req = [r \in Request |-> NoReq]

Set(r, q) ==
  /\ req' = [req EXCEPT ![r] = q]
  /\ UNCHANGED <<hasSpace, vertex, edge>>
Running(r) == req[r].pc \notin Replied \cup {"none"}

Ends(es) == UNION {{e[1], e[2]} : e \in es}
-----------------------------------------------------------------------------
(* How many edges each step may take.                                      *)

\* start is max + 1 and is halved, rounded up, until it is 1.
Sample(max) ==
  LET sample[n \in 0 .. max + 1] ==
        IF n <= 1 THEN << >> ELSE <<(n + 1) \div 2>> \o sample[(n + 1) \div 2]
  IN  sample[max + 1]

\* Sums(s)[i]: the sum of the first i of s.
Sums(s) == LET f[i \in 0 .. Len(s)] == IF i = 0 THEN 0 ELSE s[i] + f[i - 1] IN f
Sum(s) == Sums(s)[Len(s)]
-----------------------------------------------------------------------------
(* The handlers.                                                           *)

GetGraphDetail(r) ==
  /\ req[r].pc = "none"
  /\ \E top \in 1 .. MaxTop, max \in 0 .. MaxMax :
       Set(r, [NoReq EXCEPT !.pc = "top", !.kind = "get", !.top = top, !.max = max,
                            !.dir = "BIDIRECT"])

GetNeighbors(r) ==
  /\ req[r].pc = "none"
  /\ \E v \in Vertex, d \in Direction, max \in 0 .. MaxMax :
       Set(r, [NoReq EXCEPT !.pc = "go", !.kind = "neighbors", !.dir = d, !.max = max,
                            !.from = {v}, !.front = {v}, !.known = vertex])

GetNodes(r) ==
  /\ req[r].pc = "none"
  /\ Set(r, [NoReq EXCEPT !.pc = "list", !.known = vertex])

\* Any statement may fail, and fails when the space is gone.
Fail(r) ==
  /\ Running(r)
  /\ Set(r, [req[r] EXCEPT !.pc = "failed"])

\* LOOKUP ON base ... ORDER BY deg DESC LIMIT top; the walk is a pipe behind it.
\* The order is by the property deg as the imports left it (UpdateBatches), which
\* need not be the number of edges: any vertices may be the top ones.
GoFromTopNodes(r) ==
  /\ req[r].pc = "top"
  /\ hasSpace
  /\ \E from \in kSubset(Min({req[r].top, Cardinality(vertex)}), vertex) :
       Set(r, [req[r] EXCEPT !.pc = "go", !.from = from, !.front = from, !.known = vertex])

\* A bug: every walk goes both ways.
OverBoth(v, dir) == {e \in edge : v \in {e[1], e[2]}}

\* The edges at a vertex, in the direction that is asked for.
Over(v, dir) ==
  {e \in edge : (e[1] = v /\ dir # "REVERSELY") \/ (e[2] = v /\ dir # "")}

\* The ends that es leads to from the vertices vs.
Far(es, vs, dir) ==
  {e[2] : e \in {x \in es : x[1] \in vs /\ dir # "REVERSELY"}} \cup
  {e[1] : e \in {x \in es : x[2] \in vs /\ dir # ""}}

\* GO 1 TO n STEPS ... SAMPLE: one step of the walk.  With no step (max = 0) the
\* statement is refused.
MultiGo(r) ==
  LET s == Sample(req[r].max)
      over == UNION {Over(v, req[r].dir) : v \in req[r].front}
  IN  /\ req[r].pc = "go"
      /\ hasSpace
      /\ req[r].step < Len(s)
      /\ \E es \in kSubset(Min({s[req[r].step + 1], Cardinality(over)}), over) :
           Set(r, [req[r] EXCEPT !.step = @ + 1, !.edges = @ \cup es,
                     !.front = Far(es, @, req[r].dir)])

GoEnds(r) ==
  LET s == Sample(req[r].max)
  IN  /\ req[r].pc = "go"
      /\ req[r].step = Len(s)
      /\ Set(r, [req[r] EXCEPT !.pc = IF s = << >> THEN "failed" ELSE "fetch"])

\* Rows of vertices, by the first tag that is not base.
parseVertex(vs) == {<<v, IF v \in Tagged THEN "tag" ELSE "base">> : v \in vs}

\* A bug: only the targets of the edges are looked up.
GetNodesByIdsTargets(r) ==
  /\ req[r].pc = "fetch"
  /\ hasSpace
  /\ Set(r, [req[r] EXCEPT !.pc = "ok",
               !.nodes = parseVertex({e[2] : e \in req[r].edges} \cap vertex)])

\* FETCH PROP ON *: an id without a vertex has no row.  No ids, no statement.
GetNodesByIds(r) ==
  /\ req[r].pc = "fetch"
  /\ hasSpace \/ req[r].edges = {}
  /\ Set(r, [req[r] EXCEPT !.pc = "ok", !.nodes = parseVertex(Ends(req[r].edges) \cap vertex)])

\* GetNodes asks for the top math.MaxInt: all.
GetTopNodes(r) ==
  /\ req[r].pc = "list"
  /\ hasSpace
  /\ Set(r, [req[r] EXCEPT !.pc = "ok", !.nodes = parseVertex(vertex)])
-----------------------------------------------------------------------------
(* The graph meanwhile.                                                    *)

InsertVertex(v) ==
  /\ hasSpace
  /\ v \notin vertex
  /\ vertex' = vertex \cup {v}
  /\ UNCHANGED <<hasSpace, edge, req>>

InsertEdge(e) ==
  /\ hasSpace
  /\ e \in Edge \ edge
  /\ edge' = edge \cup {e}
  /\ UNCHANGED <<hasSpace, vertex, req>>

DropGraph ==
  /\ hasSpace
  /\ hasSpace' = FALSE
  /\ vertex' = {}
  /\ edge' = {}
  /\ UNCHANGED req
-----------------------------------------------------------------------------
Step(r) == GoFromTopNodes(r) \/ MultiGo(r) \/ GoEnds(r) \/ GetNodesByIds(r) \/ GetTopNodes(r)

ReadNext ==
  \/ \E r \in Request :
       GetGraphDetail(r) \/ GetNeighbors(r) \/ GetNodes(r) \/ Step(r) \/ Fail(r)
  \/ \E v \in Vertex : InsertVertex(v)
  \/ \E e \in Edge : InsertEdge(e)
  \/ DropGraph

ReadSpec == ReadInit /\ [][ReadNext]_readVars
-----------------------------------------------------------------------------
(* Properties.                                                             *)

Ok(r) == req[r].pc = "ok"
NodeIds(q) == {n[1] : n \in q.nodes}

\* What a reply says of its edges and its nodes.
Consistent(q) ==
  /\ Ends(q.edges) \cap q.known \subseteq NodeIds(q)
  /\ q.kind # "nodes" => NodeIds(q) \subseteq Ends(q.edges)
  /\ q.kind = "nodes" => q.known \subseteq NodeIds(q)
  /\ \A m, n \in q.nodes : m[1] = n[1] => m = n

\* Whatever is imported between the statements, both ends of an edge in a reply
\* are in it if they had vertices when the walk began, a node of a walk is an end
\* of an edge, a list misses no vertex that was there, and no id is in a reply
\* with two tags.
NodesOfEdges == \A r \in Request : Ok(r) => Consistent(req[r])

\* The sets of vertices that no edge of es leads out of: what is in all of those
\* that contain from is what is reached from there.
Closed(es, dir) == {s \in SUBSET Vertex : Far(es, s, dir) \subseteq s}

\* A walk is connected: each end of an edge in a reply is reached from where the
\* walk began along edges of the reply, in the direction that was asked for.
WalkIsConnected ==
  \A r \in Request : Ok(r) =>
    \A s \in Closed(req[r].edges, req[r].dir) :
      req[r].from \subseteq s => Ends(req[r].edges) \subseteq s

\* The budget of edges of all steps covers max, whatever max is, and is at most
\* twice that; the last step takes one edge, and a reply stays within the budget.
SampleCoversMax ==
  \A r \in Request :
    LET s == Sample(req[r].max)
    IN  /\ req[r].max > 0 => Sum(s) \in req[r].max .. 2 * req[r].max /\ s[Len(s)] = 1
        /\ Ok(r) => Cardinality(req[r].edges) <= Sum(s)
-----------------------------------------------------------------------------
\* The inductive invariant.  While there is a space, what was known is still in it;
\* a walk has reached only what it can reach, and the edges it has taken are within
\* the budget of the steps that it has made.
Connected(q) ==
  \A s \in Closed(q.edges, q.dir) :
    q.from \subseteq s => q.front \cup Ends(q.edges) \subseteq s

WithinBudget(q) ==
  /\ IsFiniteSet(q.edges)
  /\ q.step <= Len(Sample(q.max))
  /\ Cardinality(q.edges) <= Sums(Sample(q.max))[q.step]
  /\ q.pc \in {"fetch", "list", "ok"} => q.step = Len(Sample(q.max))

QueryOK(q) ==
  /\ q.kind = "nodes" => q.edges = {}
  /\ q.pc \in {"top", "go", "fetch"} => q.kind # "nodes"
  /\ q.pc = "list" => q.kind = "nodes"
  /\ q.pc = "top" => q.edges = {}
  /\ q.pc = "ok" => Consistent(q)
  /\ Connected(q)
  /\ WithinBudget(q)

ReadIInv ==
  /\ ReadTypeOK
  /\ IsFiniteSet(edge)
  /\ \A r \in Request :
       /\ QueryOK(req[r])
       /\ hasSpace => req[r].known \subseteq vertex

\* The replies are consistent in themselves and within their budget, and the queries
\* under way are as the inductive invariant says.
RepliesAgree ==
  /\ ReadIInv
  /\ NodesOfEdges
  /\ SampleCoversMax
=============================================================================
