----------------------------- MODULE GroupTree -----------------------------
(***************************************************************************)
(* The tree of groups in MySQL and the graphs in it: creating groups and   *)
(* graphs, dropping a group with all that is below it, and listing         *)
(* everything.  Dropping and listing are several queries each, without a   *)
(* transaction; only the foreign key of table graph ties rows together.    *)
(***************************************************************************)
EXTENDS Naturals, FiniteSets

CONSTANTS
  Group,    \* the groups that can be created
  Root,     \* the root group, which is there from the start
  Graph,    \* the graphs that can be created
  Caller,   \* the DropGroup calls
  Reader,   \* the GetAllGraph calls
  None      \* neither a group nor a graph

ASSUME GroupTreeAssumption ==
  /\ Root \in Group
  /\ None \notin Group

VARIABLES
  group,   \* the groups that have a row
  parent,  \* parent[g]: the parentID given to g; None until g is created
  row,     \* row[h]: the group of graph h; None if h has no row
  task,    \* task[h]: where the GraphCreate task of h is
  target,  \* target[h]: the group that the task of h names
  space,   \* the graphs that have a Nebula space
  call,    \* call[d]: the DropGroup call d
  reader,  \* reader[r]: the GetAllGraph call r
  late     \* what was created next to a call, or too late for it (history)

graphVars == <<row, task, target, space>>
vars == <<group, parent, graphVars, call, reader, late>>

Created == {g \in Group : g = Root \/ parent[g] # None}
NoCall == [pc |-> "none", of |-> Root, todo |-> {}, at |-> Root, found |-> {}, ids |-> {},
           under |-> {}, had |-> {}]
Ended == {"none", "ok", "failed"}

Call == [pc : {"graphs", "children", "spaces", "bfs", "delete"} \cup Ended,
         of : Group, todo : SUBSET Group, at : Group, found : SUBSET Graph,
         ids : SUBSET Group, under : SUBSET Group, had : SUBSET Graph]

TypeOK ==
  /\ group \subseteq Created
  /\ parent \in [Group -> Group \cup {None}]
  /\ row \in [Graph -> group \cup {None}]
  /\ task \in [Graph -> {"none", "queued", "read", "done"}]
  /\ target \in [Graph -> Group \cup {None}]
  /\ space \subseteq Graph
  /\ call \in [Caller -> Call]
  /\ reader \in [Reader -> [pc : {"none", "graphs", "ok", "panic"}, seen : SUBSET Group]]
  /\ late \subseteq Group \cup Graph

Init ==
  /\ group = {Root}
  /\ parent = [g \in Group |-> None]
  /\ row = [h \in Graph |-> None]
  /\ task = [h \in Graph |-> "none"]
  /\ target = [h \in Graph |-> None]
  /\ space = {}
  /\ call = [d \in Caller |-> NoCall]
  /\ reader = [r \in Reader |-> [pc |-> "none", seen |-> {}]]
  /\ late = {}

\* Queries: the graphs of groups, the children of groups.
GraphsOf(gs) == {h \in Graph : row[h] \in gs}
Children(gs) == {g \in group : parent[g] \in gs}

\* All groups that are below g now, with g: the least set of groups with g that
\* has the children of its members.
Below(g) ==
  {x \in Group : \A C \in SUBSET Group : g \in C /\ Children(C) \subseteq C => x \in C}

\* A drop or a list is under way.
Busy ==
  \/ \E d \in Caller : call[d].pc \notin Ended
  \/ \E r \in Reader : reader[r].pc = "graphs"

Late(x, cond) == late' = IF cond THEN late \cup {x} ELSE late
-----------------------------------------------------------------------------
(* Creating.                                                               *)

\* Nothing checks that the parent is (still) there.
CreateGroup(g, p) ==
  /\ g \notin Created
  /\ p \in Created
  /\ group' = group \cup {g}
  /\ parent' = [parent EXCEPT ![g] = p]
  /\ Late(g, Busy \/ p \notin group)
  /\ UNCHANGED <<graphVars, call, reader>>

\* The foreign key wants the group to be there.
CreateGraph(h, g) ==
  /\ task[h] = "none"
  /\ g \in group
  /\ row' = [row EXCEPT ![h] = g]
  /\ task' = [task EXCEPT ![h] = "queued"]
  /\ target' = [target EXCEPT ![h] = g]
  /\ Late(h, Busy)
  /\ UNCHANGED <<group, parent, space, call, reader>>

\* The consumer reads the group; when it is gone the task ends (nil group).
ReadGroup(h) ==
  /\ task[h] = "queued"
  /\ task' = [task EXCEPT ![h] = IF target[h] \in group THEN "read" ELSE "done"]
  /\ UNCHANGED <<group, parent, row, target, space, call, reader, late>>

\* CREATE SPACE, failing or not; it does not look at the row.
CreateSpace(h) ==
  /\ task[h] = "read"
  /\ task' = [task EXCEPT ![h] = "done"]
  /\ space' \in {space, space \cup {h}}
  /\ UNCHANGED <<group, parent, row, target, call, reader, late>>
-----------------------------------------------------------------------------
(* DropGroup.                                                              *)

Set(d, c) ==
  /\ call' = [call EXCEPT ![d] = c]
  /\ UNCHANGED <<group, parent, graphVars, reader, late>>

\* Any query may fail; then the call returns the error and undoes nothing.
Fail(d) ==
  /\ call[d].pc \notin Ended
  /\ Set(d, [NoCall EXCEPT !.pc = "failed"])

\* under and had are what is there at this moment: history, for DropOK only.  A
\* graph whose task has yet to make its space is too late for this call.  The group
\* is any that was created, the root and those without a row included: nothing
\* looks for it.
DropGroup(d, g) ==
  /\ call[d].pc = "none"
  /\ g \in Created
  /\ call' = [call EXCEPT ![d].pc = "graphs", ![d].of = g, ![d].todo = {g},
               ![d].under = Below(g), ![d].had = GraphsOf(Below(g)) \cap space]
  /\ late' = late \cup {h \in Graph : task[h] \in {"queued", "read"}}
  /\ UNCHANGED <<group, parent, graphVars, reader>>

\* GetGraphByGroupID: the graphs of one group, then its children, then the same
\* for each child.
FindGraphs(d) ==
  /\ call[d].pc = "graphs"
  /\ \/ \E g \in call[d].todo :
          Set(d, [call[d] EXCEPT !.pc = "children", !.at = g, !.todo = @ \ {g},
                    !.found = @ \cup GraphsOf({g})])
     \/ call[d].todo = {} /\ Set(d, [call[d] EXCEPT !.pc = "spaces"])

\* A bug: only the graphs of the group itself.
FindChildrenNot(d) ==
  /\ call[d].pc = "children"
  /\ Set(d, [call[d] EXCEPT !.pc = "graphs"])

FindChildren(d) ==
  /\ call[d].pc = "children"
  /\ Set(d, [call[d] EXCEPT !.pc = "graphs", !.at = Root,
                            !.todo = @ \cup Children({call[d].at})])

\* A bug: the spaces are left to no one.
DropSpacesNot(d) ==
  /\ call[d].pc = "spaces"
  /\ Set(d, [call[d] EXCEPT !.pc = "bfs", !.todo = {call[d].of}])

\* DROP SPACE of each graph that was found.
DropSpaces(d) ==
  /\ call[d].pc = "spaces"
  /\ \/ \E h \in call[d].found :
          /\ space' = space \ {h}
          /\ call' = [call EXCEPT ![d].found = @ \ {h}]
          /\ UNCHANGED <<group, parent, row, task, target, reader, late>>
     \/ /\ call[d].found = {}
        /\ Set(d, [call[d] EXCEPT !.pc = "bfs", !.todo = {call[d].of}])

\* A bug: the next level is not read.
BfsOneLevel(d) ==
  /\ call[d].pc = "bfs"
  /\ Set(d, [call[d] EXCEPT !.pc = "delete", !.ids = call[d].todo, !.todo = {}])

\* DropGroupByID: level by level, one query each.
Bfs(d) ==
  /\ call[d].pc = "bfs"
  /\ IF call[d].todo = {} THEN Set(d, [call[d] EXCEPT !.pc = "delete"])
     ELSE Set(d, [call[d] EXCEPT !.ids = @ \cup call[d].todo, !.todo = Children(call[d].todo)])

Returns(d) ==
  call' = [call EXCEPT ![d] = [NoCall EXCEPT !.pc = "ok", !.under = call[d].under,
                                             !.had = call[d].had]]

\* One DELETE; the foreign key takes the rows of the graphs along.
Delete(d) ==
  /\ call[d].pc = "delete"
  /\ group' = group \ call[d].ids
  /\ row' = [h \in Graph |-> IF row[h] \in call[d].ids THEN None ELSE row[h]]
  /\ Returns(d)
  /\ UNCHANGED <<parent, task, target, space, reader, late>>
-----------------------------------------------------------------------------
(* GetAllGraph: the groups, then the graphs, each appended to its group,   *)
(* which is a nil dereference when the group was not read.                 *)

Read(r, pc, seen) ==
  /\ reader' = [reader EXCEPT ![r] = [pc |-> pc, seen |-> seen]]
  /\ UNCHANGED <<group, parent, graphVars, call, late>>

\* A bug: the root group is left out.
GetAllGroupsNotRoot(r) ==
  /\ reader[r].pc = "none"
  /\ Read(r, "graphs", group \ {Root})

GetAllGroups(r) ==
  /\ reader[r].pc = "none"
  /\ Read(r, "graphs", group)

GetGraphs(r) ==
  /\ reader[r].pc = "graphs"
  /\ Read(r, IF \A h \in Graph : row[h] \in reader[r].seen \cup {None} THEN "ok" ELSE "panic", {})
-----------------------------------------------------------------------------
DropStep(d) == FindGraphs(d) \/ FindChildren(d) \/ DropSpaces(d) \/ Bfs(d) \/ Delete(d)

Next ==
  \/ \E g, p \in Group : CreateGroup(g, p)
  \/ \E h \in Graph : (\E g \in Group : CreateGraph(h, g)) \/ ReadGroup(h) \/ CreateSpace(h)
  \/ \E d \in Caller : (\E g \in Group : DropGroup(d, g)) \/ DropStep(d) \/ Fail(d)
  \/ \E r \in Reader : GetAllGroups(r) \/ GetGraphs(r)

Spec == Init /\ [][Next]_vars
-----------------------------------------------------------------------------
(* Properties.                                                             *)

\* With overlapping drops that may fail half-way, no row of a graph goes while
\* its space stays, unless the graph was created next to a drop: spaces are
\* dropped before the cascade (dropgrouplogic.go:32).
SpacesHaveRows == \A h \in space \ late : row[h] # None

\* A drop, whole or failed, never cuts the tree: the parent of a group that is
\* left is left too, unless the group was created next to a drop
\* (mysql_impl.go:153-167).
GroupsHaveParents == \A g \in group \ (late \cup {Root}) : parent[g] \in group

\* A drop that succeeds has removed every group and every space that was below
\* its group when it began, whatever is dropped and created next to it, except
\* what was created next to an earlier drop.
DropOK ==
  \A d \in Caller : call[d].pc = "ok" =>
    /\ call[d].under \cap group \subseteq late
    /\ call[d].had \cap space \subseteq late

\* A list finds the group of every graph also while groups are dropped: groups are
\* read before graphs (getallgraphlogic.go:26, :30).  Only a group that is created
\* in between can make it dereference nil (getallgraphlogic.go:90).
ReaderNeverPanics ==
  \A r \in Reader : reader[r].pc = "panic" => late \cap Group # {}

\* No walk of a drop goes round in circles, although none remembers where it was:
\* what a query returns as children is not waiting already, and a level has nothing
\* of the levels before it, whatever is created meanwhile (mysql_impl.go:118, :155).
WalksMoveOn ==
  \A d \in Caller :
    /\ call[d].pc = "children" => Children({call[d].at}) \cap (call[d].todo \cup {call[d].at}) = {}
    /\ call[d].pc = "bfs" => call[d].todo \cap call[d].ids = {}
-----------------------------------------------------------------------------
(* The inductive invariant.  A call works on a forest that others change:  *)
(* for each call under way there are                                       *)
(*   - the groups N that were created below its group since it began,      *)
(*   - the groups K of its group that it can still reach, and              *)
(*   - the groups V that its first walk has visited.                       *)

Active(d) == call[d].pc \notin Ended

\* A parent was created before its children, a space after its row.  Graphs that
\* wait for their space while a drop is under way are late for it.
RowsInv ==
  /\ \A g \in Group : parent[g] \in Created \cup {None}
  /\ \A h \in Graph :
       /\ task[h] = "none" => row[h] = None
       /\ h \in space => task[h] = "done"
       /\ task[h] \in {"queued", "read"} /\ h \notin late =>
            row[h] # None /\ \A d \in Caller : ~ Active(d)

\* What is new below the group of a call is late, and so are its graphs.
New(c, N) ==
  /\ c.of \in c.under
  /\ N \subseteq Created \ c.under
  /\ Children(c.under \cup N) \subseteq c.under \cup N
  /\ \A x \in c.under : parent[x] \notin N
  /\ N \cup GraphsOf(N) \subseteq late
  /\ c.ids \cup c.todo \subseteq c.under \cup N
  /\ c.pc = "children" => c.at \in c.under \cup N

\* What was below the group and has been cut off by another call is late; all the
\* rest is still reached from the group.
Kept(c, K) ==
  /\ K \subseteq c.under
  /\ ((c.under \ K) \cap group) \cup GraphsOf(c.under \ K) \subseteq late
  /\ \A C \in SUBSET Group :
       c.of \in C /\ Children(C) \cap K \subseteq C => K \cap group \subseteq C

\* The first walk found the graphs of what it visited, and its agenda has the
\* children.
Walked(c, V) ==
  /\ c.of \in V \cup c.todo
  /\ (GraphsOf(V) \cap space) \ late \subseteq c.found
  /\ \A y \in Children(V) \cap c.under :
       y \in V \cup c.todo \/ (c.pc = "children" /\ parent[y] = c.at)

\* After the first walk all spaces below the group are found, later dropped; the
\* second walk is closed but for its agenda.
SpacesInv(c) ==
  LET rest == (GraphsOf(c.under) \cap space) \ late IN
  /\ c.pc = "spaces" => rest \subseteq c.found
  /\ c.pc \in {"bfs", "delete"} =>
       /\ rest = {}
       /\ c.of \in c.ids \cup c.todo
       /\ Children(c.ids) \cap c.under \subseteq c.ids \cup c.todo
  /\ c.pc = "delete" => c.todo = {}

\* Of the spaces that were there, those that are left still have their rows.
HadInv(c) ==
  /\ c.pc \notin {"bfs", "delete"} => c.ids = {}
  /\ c.under \subseteq Created
  /\ \A h \in c.had \ late : task[h] = "done"
  /\ c.pc \notin Ended => (c.had \cap space) \ late \subseteq GraphsOf(c.under)

CallInv(d) ==
  /\ HadInv(call[d])
  /\ Active(d) =>
       /\ \E N \in SUBSET Group : New(call[d], N)
       /\ \E K \in SUBSET Group : Kept(call[d], K)
       /\ SpacesInv(call[d])
  /\ call[d].pc \in {"graphs", "children"} => \E V \in SUBSET Group : Walked(call[d], V)

\* Groups that a list has not seen are late.
ReaderInv == \A r \in Reader : reader[r].pc = "graphs" => group \ reader[r].seen \subseteq late

\* No group is above itself: whatever groups were created, one of them was created
\* under none of them.
Forest == \A C \in SUBSET Created : C # {} => \E g \in C : parent[g] \notin C

\* A walk that has read the children of V comes to each group through its parent,
\* so it never comes back to one.
Fresh(c, V) ==
  /\ V \cap c.todo = {}
  /\ c.of \in V \cup c.todo
  /\ V \cup c.todo \subseteq Created
  /\ \A x \in V \cup c.todo : x = c.of \/ parent[x] \in V
  /\ c.pc = "children" => c.at \in V /\ \A x \in V \cup c.todo : parent[x] # c.at

WalkInv(c) ==
  /\ c.pc \in {"graphs", "children"} => \E V \in SUBSET Group : Fresh(c, V)
  /\ c.pc = "bfs" => Fresh(c, c.ids)

OrderInv == Forest /\ \A d \in Caller : WalkInv(call[d])

\* Rows, calls and lists agree, and drops miss nothing but what is late.
IInv ==
  /\ TypeOK /\ RowsInv /\ ReaderInv /\ ReaderNeverPanics
  /\ SpacesHaveRows /\ GroupsHaveParents /\ DropOK
  /\ \A d \in Caller : CallInv(d)
  /\ OrderInv
=============================================================================
