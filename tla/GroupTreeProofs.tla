-------------------------- MODULE GroupTreeProofs --------------------------
(* Proofs about GroupTree for every set of groups, graphs and calls.       *)
EXTENDS GroupTree, TLAPS

LEMMA ChildrenInGroup == \A gs : Children(gs) \subseteq group
BY DEF Children

LEMMA CreatedInGroup == Created \subseteq Group
BY DEF Created

\* What Below(g) is: the least set with g that has the children of its members.
LEMMA BelowIsLeast ==
  ASSUME TypeOK, NEW g \in Created
  PROVE  /\ Below(g) \subseteq Group /\ g \in Below(g)
         /\ Children(Below(g)) \subseteq Below(g)
         /\ \A C \in SUBSET Group :
              g \in C /\ Children(C) \subseteq C => Below(g) \subseteq C
<1>1. g \in Group
  BY CreatedInGroup DEF TypeOK
<1>2. Below(g) \subseteq Group /\ g \in Below(g)
  BY <1>1 DEF Below
<1>3. \A C \in SUBSET Group :
        g \in C /\ Children(C) \subseteq C => Below(g) \subseteq C
  BY DEF Below
<1>4. ASSUME NEW x \in Children(Below(g)) PROVE x \in Below(g)
  <2>1. x \in Group
    BY ChildrenInGroup, CreatedInGroup DEF TypeOK
  <2>2. ASSUME NEW C \in SUBSET Group, g \in C, Children(C) \subseteq C PROVE x \in C
    <3>1. Below(g) \subseteq C
      BY <1>3, <2>2
    <3>2. x \in Children(C)
      BY <3>1 DEF Children
    <3> QED
      BY <2>2, <3>2
  <2> QED
    BY <2>1, <2>2 DEF Below
<1> QED
  BY <1>2, <1>3, <1>4

LEMMA BelowCreated ==
  ASSUME TypeOK, NEW g \in Created PROVE Below(g) \subseteq Created
<1>1. Children(Created) \subseteq Created /\ g \in Created
  BY ChildrenInGroup DEF TypeOK
<1> QED
  BY <1>1, BelowIsLeast, CreatedInGroup

\* Groups, rows and spaces can only go, or are late; what is late stays late.
Shrinks ==
  /\ parent' = parent
  /\ group' \subseteq group
  /\ \A h \in Graph : row'[h] \in {row[h], None} \/ h \in late'
  /\ late \subseteq late'
  /\ space' \subseteq space \cup late'

LEMMA QueriesShrink ==
  ASSUME Shrinks
  PROVE  /\ \A gs : Children(gs)' \subseteq Children(gs)
         /\ \A gs \in SUBSET Group : GraphsOf(gs)' \subseteq GraphsOf(gs) \cup late'
<1>1. ASSUME NEW gs PROVE Children(gs)' \subseteq Children(gs)
  BY DEF Shrinks, Children
<1>2. ASSUME NEW gs \in SUBSET Group
      PROVE  GraphsOf(gs)' \subseteq GraphsOf(gs) \cup late'
  BY GroupTreeAssumption DEF Shrinks, GraphsOf
<1> QED
  BY <1>1, <1>2

LEMMA NewShrinks ==
  ASSUME Shrinks, NEW c, NEW N \in SUBSET Group, New(c, N)
  PROVE  New(c, N)'
<1>1. Created' = Created
  BY DEF Shrinks, Created
<1>2. GraphsOf(N)' \subseteq GraphsOf(N) \cup late'
  BY QueriesShrink
<1>3. Children(c.under \cup N)' \subseteq Children(c.under \cup N)
  BY QueriesShrink
<1> QED
  BY <1>1, <1>2, <1>3 DEF New, Shrinks

LEMMA WalkedShrinks ==
  ASSUME Shrinks, NEW c, NEW V \in SUBSET Group, Walked(c, V)
  PROVE  Walked(c, V)'
<1>1. GraphsOf(V)' \subseteq GraphsOf(V) \cup late' /\ Children(V)' \subseteq Children(V)
  BY QueriesShrink
<1> QED
  BY <1>1 DEF Walked, Shrinks

LEMMA SpacesShrink ==
  ASSUME Shrinks, NEW c, c.under \in SUBSET Group, SpacesInv(c)
  PROVE  SpacesInv(c)'
<1>1. /\ GraphsOf(c.under)' \subseteq GraphsOf(c.under) \cup late'
      /\ Children(c.ids)' \subseteq Children(c.ids)
  BY QueriesShrink
<1> QED
  BY <1>1 DEF SpacesInv, Shrinks

LEMMA KeptShrinks ==
  ASSUME Shrinks, group' = group, NEW c, c.under \in SUBSET Group,
         NEW K \in SUBSET Group, Kept(c, K)
  PROVE  Kept(c, K)'
<1>1. GraphsOf(c.under \ K)' \subseteq GraphsOf(c.under \ K) \cup late'
  BY QueriesShrink
<1>2. \A C : Children(C)' = Children(C)
  BY DEF Children, Shrinks
<1> QED
  BY <1>1, <1>2 DEF Kept, Shrinks

(* A delete by call e, as the other calls see it.                          *)
LEMMA KeptDelete ==
  ASSUME Shrinks, NEW e, NEW N \in SUBSET Group, New(e, N), SpacesInv(e),
         e.pc = "delete", e.under \in SUBSET Group, e.ids \in SUBSET Group,
         group' = group \ e.ids,
         NEW c, c.under \in SUBSET Group, NEW K \in SUBSET Group, Kept(c, K)
  PROVE  Kept(c, K \ N)'
<1>1. /\ Children(e.ids) \cap e.under \subseteq e.ids
      /\ e.ids \subseteq e.under \cup N
  BY DEF SpacesInv, New
<1>2. GraphsOf(c.under \ (K \ N))' \subseteq late'
  <2>1. /\ GraphsOf(c.under \ K)' \subseteq GraphsOf(c.under \ K) \cup late'
        /\ GraphsOf(N)' \subseteq GraphsOf(N) \cup late'
    BY QueriesShrink
  <2>2. GraphsOf(c.under \ (K \ N))' \subseteq GraphsOf(c.under \ K)' \cup GraphsOf(N)'
    BY DEF GraphsOf
  <2> QED
    BY <2>1, <2>2 DEF Kept, New, Shrinks
<1>3. ((c.under \ (K \ N)) \cap group') \subseteq late'
  BY DEF Kept, New, Shrinks
<1>4. ASSUME NEW C \in SUBSET Group, c.of \in C, Children(C)' \cap (K \ N) \subseteq C
      PROVE  (K \ N) \cap group' \subseteq C
  <2>1. PICK C2 \in SUBSET Group : C2 = C \cup e.ids \cup N
    OBVIOUS
  <2>2. ASSUME NEW y \in Children(C2) \cap K PROVE y \in C2
    <3>1. y \in group /\ parent[y] \in C2
      BY DEF Children
    <3>2. CASE y \in N \cup e.ids
      BY <2>1, <3>2
    <3>3. CASE y \notin N \cup e.ids /\ parent[y] \in C
      <4>1. y \in Children(C)'
        BY <3>1, <3>3 DEF Children, Shrinks
      <4> QED
        BY <1>4, <2>1, <3>3, <4>1
    <3>4. CASE y \notin N \cup e.ids /\ parent[y] \in e.ids
      <4>1. y \in Children(e.ids) /\ y \in Children(e.under \cup N)
        BY <1>1, <3>1, <3>4 DEF Children
      <4> QED
        BY <1>1, <3>4, <4>1 DEF New
    <3>5. CASE y \notin N \cup e.ids /\ parent[y] \in N
      <4>1. y \in Children(e.under \cup N)
        BY <3>1, <3>5 DEF Children
      <4> QED
        BY <3>5, <4>1 DEF New
    <3> QED
      BY <2>1, <3>1, <3>2, <3>3, <3>4, <3>5
  <2>3. K \cap group \subseteq C2
    BY <1>4, <2>1, <2>2 DEF Kept
  <2> QED
    BY <2>1, <2>3
<1> QED
  BY <1>2, <1>3, <1>4 DEF Kept
-----------------------------------------------------------------------------
LEMMA NoCallType == NoCall \in Call
BY GroupTreeAssumption DEF NoCall, Call, Ended

LEMMA TypeOKInit == Init => TypeOK
BY NoCallType, GroupTreeAssumption DEF Init, TypeOK, Created

\* A step that changes one call only.
LEMMA SetType ==
  ASSUME TypeOK, NEW d, NEW c \in Call, Set(d, c) PROVE TypeOK'
BY DEF TypeOK, Set, graphVars, Created

LEMMA DropStepType ==
  ASSUME TypeOK, NEW d \in Caller, DropStep(d) PROVE TypeOK'
<1>1. PICK c \in Call : c = call[d]
  BY DEF TypeOK
<1>2. group \subseteq Group /\ \A gs : Children(gs) \subseteq Group
  BY ChildrenInGroup, CreatedInGroup DEF TypeOK
<1>3. ASSUME FindGraphs(d) PROVE TypeOK'
  <2>1. CASE c.todo = {} /\ Set(d, [c EXCEPT !.pc = "spaces"])
    <3>1. [c EXCEPT !.pc = "spaces"] \in Call
      BY DEF Call
    <3> QED
      BY <2>1, <3>1, SetType
  <2>2. ASSUME NEW g \in c.todo,
               Set(d, [c EXCEPT !.pc = "children", !.at = g, !.todo = @ \ {g},
                                !.found = @ \cup GraphsOf({g})])
        PROVE  TypeOK'
    <3>1. g \in Group /\ GraphsOf({g}) \subseteq Graph
      BY DEF Call, GraphsOf
    <3>2. [c EXCEPT !.pc = "children", !.at = g, !.todo = @ \ {g},
                    !.found = @ \cup GraphsOf({g})] \in Call
      BY <3>1 DEF Call
    <3> QED
      BY <2>2, <3>2, SetType
  <2> QED
    BY <1>1, <1>3, <2>1, <2>2 DEF FindGraphs
<1>4. ASSUME FindChildren(d) PROVE TypeOK'
  <2>1. [c EXCEPT !.pc = "graphs", !.at = Root,
                  !.todo = @ \cup Children({c.at})] \in Call
    BY <1>2, GroupTreeAssumption DEF Call
  <2> QED
    BY <1>1, <1>4, <2>1, SetType DEF FindChildren
<1>5. ASSUME DropSpaces(d) PROVE TypeOK'
  <2>1. CASE Set(d, [c EXCEPT !.pc = "bfs", !.todo = {c.of}])
    <3>1. [c EXCEPT !.pc = "bfs", !.todo = {c.of}] \in Call
      BY DEF Call
    <3> QED
      BY <2>1, <3>1, SetType
  <2>2. ASSUME NEW h \in c.found, space' = space \ {h},
               call' = [call EXCEPT ![d].found = @ \ {h}],
               UNCHANGED <<group, parent, row, task, target, reader, late>>
        PROVE  TypeOK'
    <3>1. [c EXCEPT !.found = @ \ {h}] \in Call
      BY DEF Call
    <3>2. call' = [call EXCEPT ![d] = [c EXCEPT !.found = @ \ {h}]]
      BY <1>1, <2>2
    <3>3. call' \in [Caller -> Call]
      BY <3>1, <3>2 DEF TypeOK
    <3> QED
      BY <2>2, <3>3 DEF TypeOK, Created
  <2> QED
    BY <1>1, <1>5, <2>1, <2>2 DEF DropSpaces
<1>6. ASSUME Bfs(d) PROVE TypeOK'
  <2>1. /\ [c EXCEPT !.pc = "delete"] \in Call
        /\ [c EXCEPT !.ids = @ \cup c.todo, !.todo = Children(c.todo)] \in Call
    BY <1>2 DEF Call
  <2> QED
    BY <1>1, <1>6, <2>1, SetType DEF Bfs
<1>7. ASSUME Delete(d) PROVE TypeOK'
  <2>1. [NoCall EXCEPT !.pc = "ok", !.under = c.under, !.had = c.had] \in Call
    BY NoCallType DEF Call, Ended
  <2>2. call' \in [Caller -> Call]
    BY <1>1, <1>7, <2>1 DEF Delete, Returns, TypeOK
  <2>3. row' \in [Graph -> group' \cup {None}]
    BY <1>7 DEF Delete, TypeOK
  <2> QED
    BY <1>7, <2>2, <2>3 DEF Delete, TypeOK, Created
<1> QED
  BY <1>3, <1>4, <1>5, <1>6, <1>7 DEF DropStep

LEMMA DropGroupType ==
  ASSUME TypeOK, NEW d \in Caller, NEW g \in Group, DropGroup(d, g) PROVE TypeOK'
<1>1. PICK c \in Call : c = call[d]
  BY DEF TypeOK
<1>2. Below(g) \subseteq Group /\ GraphsOf(Below(g)) \cap space \subseteq Graph
  BY DEF Below, GraphsOf
<1>3. [c EXCEPT !.pc = "graphs", !.of = g, !.todo = {g}, !.under = Below(g),
                !.had = GraphsOf(Below(g)) \cap space] \in Call
  BY <1>2 DEF Call
<1>4. call' = [call EXCEPT ![d] =
                 [c EXCEPT !.pc = "graphs", !.of = g, !.todo = {g}, !.under = Below(g),
                           !.had = GraphsOf(Below(g)) \cap space]]
  BY <1>1 DEF DropGroup
<1>5. call' \in [Caller -> Call]
  BY <1>3, <1>4 DEF TypeOK
<1> QED
  BY <1>5 DEF DropGroup, TypeOK, Created, graphVars

LEMMA TypeOKStep == TypeOK /\ [Next]_vars => TypeOK'
<1> SUFFICES ASSUME TypeOK, [Next]_vars PROVE TypeOK'
  OBVIOUS
<1>1. ASSUME NEW g \in Group, NEW p \in Group, CreateGroup(g, p) PROVE TypeOK'
  BY <1>1, GroupTreeAssumption DEF CreateGroup, TypeOK, Created, Late, graphVars
<1>2. ASSUME NEW h \in Graph, NEW g \in Group, CreateGraph(h, g) PROVE TypeOK'
  BY <1>2 DEF CreateGraph, TypeOK, Created, Late
<1>3. ASSUME NEW h \in Graph, ReadGroup(h) \/ CreateSpace(h) PROVE TypeOK'
  BY <1>3 DEF ReadGroup, CreateSpace, TypeOK, Created
<1>4. ASSUME NEW d \in Caller, Fail(d) PROVE TypeOK'
  <2>1. [NoCall EXCEPT !.pc = "failed"] \in Call
    BY NoCallType DEF Call, Ended
  <2> QED
    BY <1>4, <2>1, SetType DEF Fail
<1>5. ASSUME NEW r \in Reader, GetAllGroups(r) \/ GetGraphs(r) PROVE TypeOK'
  <2>1. group \subseteq Group
    BY CreatedInGroup DEF TypeOK
  <2> QED
    BY <1>5, <2>1 DEF GetAllGroups, GetGraphs, Read, TypeOK, Created, graphVars
<1>6. CASE UNCHANGED vars
  BY <1>6 DEF vars, graphVars, TypeOK, Created
<1> QED
  BY <1>1, <1>2, <1>3, <1>4, <1>5, <1>6, DropStepType, DropGroupType DEF Next
-----------------------------------------------------------------------------
(* A call during a step that is not its own.                               *)

LEMMA HadStays ==
  ASSUME NEW c, HadInv(c), SpacesHaveRows', Created \subseteq Created',
         late \subseteq late', \A h \in Graph : task[h] = "done" => task'[h] = "done",
         c.had \subseteq Graph, c.under \in SUBSET Group,
         c.pc \notin Ended => Shrinks
  PROVE  HadInv(c)'
<1>1. ASSUME c.pc \notin Ended, NEW h \in c.had, h \in space', h \notin late'
      PROVE  h \in GraphsOf(c.under)'
  <2>1. h \in GraphsOf(c.under) /\ h \in Graph
    BY <1>1 DEF HadInv, Shrinks
  <2>2. row'[h] # None
    BY <1>1 DEF SpacesHaveRows
  <2>3. row'[h] = row[h]
    BY <1>1, <2>1, <2>2 DEF Shrinks
  <2> QED
    BY <2>1, <2>3 DEF GraphsOf
<1>2. c.pc \notin Ended => ((c.had \cap space) \ late \subseteq GraphsOf(c.under))'
  BY <1>1
<1>3. ASSUME NEW h \in c.had, h \notin late' PROVE task'[h] = "done"
  BY <1>3 DEF HadInv
<1> QED
  BY <1>2, <1>3 DEF HadInv

\* The facts about a call, as facts about the record of the call.
Facts(c) ==
  /\ HadInv(c)
  /\ c.pc \notin Ended =>
       /\ \E N \in SUBSET Group : New(c, N)
       /\ \E K \in SUBSET Group : Kept(c, K)
       /\ SpacesInv(c)
  /\ c.pc \in {"graphs", "children"} => \E V \in SUBSET Group : Walked(c, V)

LEMMA CallFacts ==
  ASSUME NEW d
  PROVE  /\ CallInv(d) <=> Facts(call[d])
         /\ \A c : call'[d] = c => (CallInv(d)' <=> Facts(c)')
<1>1. CallInv(d) <=> Facts(call[d])
  BY DEF CallInv, Facts, Active
<1>2. ASSUME NEW c, call'[d] = c PROVE CallInv(d)' <=> Facts(c)'
  BY <1>2 DEF CallInv, Facts, Active
<1> QED
  BY <1>1, <1>2

LEMMA CallShrinks ==
  ASSUME NEW c \in Call, Facts(c), SpacesHaveRows', Shrinks, group' = group,
         \A h \in Graph : task[h] = "done" => task'[h] = "done"
  PROVE  Facts(c)'
<1>1. c.under \in SUBSET Group /\ c.had \subseteq Graph
  BY DEF Call
<1>2. HadInv(c)'
  BY <1>1, HadStays DEF Shrinks, Created, Facts
<1>3. ASSUME c.pc \notin Ended
      PROVE  /\ \E N \in SUBSET Group : New(c, N)'
             /\ \E K \in SUBSET Group : Kept(c, K)'
             /\ SpacesInv(c)'
  <2>1. PICK N \in SUBSET Group : New(c, N)
    BY <1>3 DEF Facts
  <2>2. PICK K \in SUBSET Group : Kept(c, K)
    BY <1>3 DEF Facts
  <2>3. New(c, N)'
    BY <2>1, NewShrinks
  <2>4. Kept(c, K)'
    BY <1>1, <2>2, KeptShrinks
  <2>5. SpacesInv(c)'
    BY <1>1, <1>3, SpacesShrink DEF Facts
  <2> QED
    BY <2>3, <2>4, <2>5
<1>4. ASSUME c.pc \in {"graphs", "children"}
      PROVE  \E V \in SUBSET Group : Walked(c, V)'
  <2>1. PICK V \in SUBSET Group : Walked(c, V)
    BY <1>4 DEF Facts
  <2>2. Walked(c, V)'
    BY <2>1, WalkedShrinks
  <2> QED
    BY <2>2
<1> QED
  BY <1>2, <1>3, <1>4 DEF Facts

\* A call that has ended.
LEMMA CallEnded ==
  ASSUME NEW c \in Call, Facts(c), c.pc \in Ended, Created \subseteq Created',
         late \subseteq late', \A h \in Graph : task[h] = "done" => task'[h] = "done"
  PROVE  Facts(c)'
<1>1. HadInv(c)'
  BY DEF HadInv, Facts, Call
<1> QED
  BY <1>1 DEF Facts, Ended

LEMMA CallCreateGroup ==
  ASSUME IInv, NEW c \in Call, Facts(c), NEW g \in Group, NEW p \in Group,
         CreateGroup(g, p), c.pc \notin Ended => Busy
  PROVE  Facts(c)'
<1>1. /\ g \notin Created /\ group' = group \cup {g}
      /\ parent' = [parent EXCEPT ![g] = p] /\ p \in Created
      /\ UNCHANGED <<row, task, space>>
      /\ late \subseteq late' /\ Created \subseteq Created' /\ g \in Created'
      /\ g \notin group /\ group \subseteq Group /\ parent \in [Group -> Group \cup {None}]
  BY GroupTreeAssumption, CreatedInGroup DEF CreateGroup, Late, graphVars, Created, IInv, TypeOK
<1>2. CASE c.pc \in Ended
  BY <1>1, <1>2, CallEnded
<1>3. CASE c.pc \notin Ended
  <2>1. g \in late'
    BY <1>3 DEF CreateGroup, Late
  <2>2. c.under \subseteq Created
    BY DEF Facts, HadInv
  <2>3. /\ \A C : Children(C) \subseteq Children(C)'
        /\ \A C : Children(C)' \subseteq Children(C) \cup {g}
        /\ \A C : p \notin C /\ g \notin C => Children(C)' \subseteq Children(C)
    BY <1>1 DEF Children
  <2>4. /\ \A gs : GraphsOf(gs)' = GraphsOf(gs)
        /\ GraphsOf({g}) = {}
    BY <1>1, GroupTreeAssumption DEF GraphsOf, IInv, TypeOK
  <2>5. HadInv(c)'
    BY <1>1, <2>4 DEF HadInv, Facts
  <2>6. \E N \in SUBSET Group : New(c, N)'
    <3>1. PICK N \in SUBSET Group : New(c, N)
      BY <1>3 DEF Facts
    <3>2. \A x \in Group : parent[x] # g
      BY <1>1, GroupTreeAssumption DEF IInv, RowsInv
    <3>3. CASE p \in c.under \cup N
      <4>1. PICK M \in SUBSET Group : M = N \cup {g}
        OBVIOUS
      <4>2. Children(c.under \cup M)' \subseteq Children(c.under \cup N) \cup {g}
        BY <1>1, <3>2, <4>1 DEF Children
      <4>3. GraphsOf(M)' \subseteq GraphsOf(N)
        BY <2>4, <4>1, GroupTreeAssumption DEF GraphsOf
      <4>4. \A x \in c.under : parent'[x] \notin M
        BY <1>1, <2>2, <3>1, <3>2, <4>1, CreatedInGroup DEF New
      <4>5. New(c, M)'
        <5>1. M \subseteq Created' \ c.under
          BY <1>1, <2>2, <3>1, <4>1 DEF New
        <5>2. Children(c.under \cup M)' \subseteq c.under \cup M
          BY <3>1, <4>1, <4>2 DEF New
        <5>3. M \cup GraphsOf(M)' \subseteq late'
          BY <1>1, <2>1, <3>1, <4>1, <4>3 DEF New
        <5>4. /\ c.of \in c.under
              /\ c.ids \cup c.todo \subseteq c.under \cup M
              /\ c.pc = "children" => c.at \in c.under \cup M
          BY <3>1, <4>1 DEF New
        <5> QED
          BY <4>4, <5>1, <5>2, <5>3, <5>4 DEF New
      <4> QED
        BY <4>5
    <3>4. CASE p \notin c.under \cup N
      <4>1. Children(c.under \cup N)' \subseteq Children(c.under \cup N)
        BY <1>1, <2>2, <2>3, <3>1, <3>4 DEF New
      <4>2. \A x \in c.under : parent'[x] \notin N
        BY <1>1, <2>2, <3>1 DEF New
      <4>3. New(c, N)'
        BY <1>1, <2>4, <3>1, <4>1, <4>2 DEF New
      <4> QED
        BY <4>3
    <3> QED
      BY <3>3, <3>4
  <2>7. \E K \in SUBSET Group : Kept(c, K)'
    <3>1. PICK K \in SUBSET Group : Kept(c, K)
      BY <1>3 DEF Facts
    <3>2. g \notin K /\ g \notin c.under
      BY <1>1, <2>2, <3>1 DEF Kept
    <3>3. Kept(c, K)'
      BY <1>1, <2>3, <2>4, <3>1, <3>2 DEF Kept
    <3> QED
      BY <3>3
  <2>8. SpacesInv(c)'
    <3>1. Children(c.ids)' \cap c.under \subseteq Children(c.ids)
      BY <1>1, <2>2, <2>3
    <3> QED
      BY <1>1, <1>3, <2>4, <3>1 DEF SpacesInv, Facts
  <2>9. c.pc \in {"graphs", "children"} => \E V \in SUBSET Group : Walked(c, V)'
    <3>1. SUFFICES ASSUME NEW V \in SUBSET Group, Walked(c, V) PROVE Walked(c, V)'
      BY DEF Facts
    <3>2. Children(V)' \cap c.under \subseteq Children(V)
      BY <1>1, <2>2, <2>3
    <3>3. \A y \in c.under : parent'[y] = parent[y]
      BY <1>1, <2>2
    <3> QED
      BY <1>1, <2>4, <3>1, <3>2, <3>3 DEF Walked
  <2> QED
    BY <2>5, <2>6, <2>7, <2>8, <2>9 DEF Facts
<1> QED
  BY <1>2, <1>3
-----------------------------------------------------------------------------
(* The steps of a call itself.                                             *)

LEMMA FactsUnchanged ==
  ASSUME NEW c, Facts(c), UNCHANGED <<group, parent, row, task, space, late>>
  PROVE  Facts(c)'
<1>1. Created' = Created /\ \A gs : Children(gs)' = Children(gs) /\ GraphsOf(gs)' = GraphsOf(gs)
  BY DEF Created, Children, GraphsOf
<1>2. HadInv(c)'
  BY <1>1 DEF Facts, HadInv
<1>3. \A N : New(c, N) => New(c, N)'
  BY <1>1 DEF New
<1>4. \A K : Kept(c, K) => Kept(c, K)'
  BY <1>1 DEF Kept
<1>5. \A V : Walked(c, V) => Walked(c, V)'
  BY <1>1 DEF Walked
<1>6. SpacesInv(c) => SpacesInv(c)'
  BY <1>1 DEF SpacesInv
<1> QED
  BY <1>2, <1>3, <1>4, <1>5, <1>6 DEF Facts

\* The agendas of e stay with the groups that are, or are new, below that of c.
Follows(c, e) ==
  \A N \in SUBSET Group :
    New(c, N) => /\ e.ids \cup e.todo \subseteq c.under \cup N
                 /\ e.pc = "children" => e.at \in c.under \cup N

\* New and Kept, HadInv too, look at the group of a call and its second walk.
LEMMA FactsMove ==
  ASSUME NEW c, NEW e, Facts(c), c.pc \notin Ended, e.pc \notin Ended,
         e.of = c.of, e.under = c.under, e.had = c.had,
         e.pc \notin {"bfs", "delete"} => e.ids = {},
         Follows(c, e)
  PROVE  /\ HadInv(e)
         /\ \E N \in SUBSET Group : New(e, N)
         /\ \E K \in SUBSET Group : Kept(e, K)
<1>1. HadInv(e)
  BY DEF Facts, HadInv
<1>2. \E N \in SUBSET Group : New(e, N)
  <2>1. PICK N \in SUBSET Group : New(c, N)
    BY DEF Facts
  <2>2. New(e, N)
    BY <2>1 DEF New, Follows
  <2> QED
    BY <2>2
<1>3. \E K \in SUBSET Group : Kept(e, K)
  <2>1. PICK K \in SUBSET Group : Kept(c, K)
    BY DEF Facts
  <2>2. Kept(e, K)
    BY <2>1 DEF Kept
  <2> QED
    BY <2>2
<1> QED
  BY <1>1, <1>2, <1>3

\* What the groups that the call can still reach are worth: a set with the group
\* and the children of its members has all the rest of what was below it.
LEMMA KeptCloses ==
  ASSUME NEW c, Facts(c), c.pc \notin Ended, NEW C \in SUBSET Group, c.of \in C,
         Children(C) \cap c.under \subseteq C, TypeOK, c.under \in SUBSET Group
  PROVE  /\ (c.under \cap group) \ C \subseteq late
         /\ GraphsOf(c.under) \ GraphsOf(C) \subseteq late
<1>1. PICK K \in SUBSET Group : Kept(c, K)
  BY DEF Facts
<1>2. K \cap group \subseteq C
  BY <1>1 DEF Kept
<1>3. (c.under \cap group) \ C \subseteq late
  BY <1>1, <1>2 DEF Kept
<1>4. ASSUME NEW h \in GraphsOf(c.under) \ GraphsOf(C)
      PROVE  h \in late
  <2>1. h \in Graph /\ row[h] \in c.under /\ row[h] \notin C
    BY <1>4 DEF GraphsOf
  <2>2. row[h] \in group
    BY <1>4, <2>1, GroupTreeAssumption DEF TypeOK
  <2>3. h \in GraphsOf(c.under \ K)
    BY <1>2, <2>1, <2>2 DEF GraphsOf
  <2> QED
    BY <1>1, <2>3 DEF Kept
<1> QED
  BY <1>3, <1>4

LEMMA FindGraphsFacts ==
  ASSUME TypeOK, NEW c \in Call, Facts(c), c.pc = "graphs", NEW g \in c.todo, NEW e,
         e = [c EXCEPT !.pc = "children", !.at = g, !.todo = @ \ {g},
                       !.found = @ \cup GraphsOf({g})]
  PROVE  Facts(e)
<1>1. /\ e.pc = "children" /\ e.at = g /\ e.todo = c.todo \ {g}
      /\ e.found = c.found \cup GraphsOf({g})
      /\ e.of = c.of /\ e.under = c.under /\ e.had = c.had /\ e.ids = c.ids
      /\ e.pc \notin Ended /\ c.pc \notin Ended /\ g \in Group
  BY DEF Call, Ended
<1>2. Follows(c, e)
  BY <1>1 DEF New, Follows
<1>3. /\ HadInv(e)
      /\ \E N \in SUBSET Group : New(e, N)
      /\ \E K \in SUBSET Group : Kept(e, K)
  BY <1>1, <1>2, FactsMove DEF Facts, HadInv
<1>4. PICK V \in SUBSET Group : Walked(c, V)
  BY DEF Facts
<1>5. PICK W \in SUBSET Group : W = V \cup {g}
  BY <1>1
<1>6. GraphsOf(W) \subseteq GraphsOf(V) \cup GraphsOf({g})
  BY <1>5 DEF GraphsOf
<1>7. \A y \in Children(W) : y \in Children(V) \/ parent[y] = g
  BY <1>5 DEF Children
<1>8. Walked(e, W)
  BY <1>1, <1>4, <1>5, <1>6, <1>7 DEF Walked
<1>9. SpacesInv(e)
  BY <1>1 DEF SpacesInv
<1> QED
  BY <1>3, <1>8, <1>9 DEF Facts

LEMMA FoundAllFacts ==
  ASSUME TypeOK, NEW c \in Call, Facts(c), c.pc = "graphs", c.todo = {}, NEW e,
         e = [c EXCEPT !.pc = "spaces"]
  PROVE  Facts(e)
<1>1. /\ e.pc = "spaces" /\ e.todo = {} /\ e.found = c.found
      /\ e.of = c.of /\ e.under = c.under /\ e.had = c.had /\ e.ids = c.ids
      /\ e.pc \notin Ended /\ c.pc \notin Ended /\ c.under \in SUBSET Group
  BY DEF Call, Ended
<1>2. Follows(c, e)
  BY <1>1 DEF New, Follows
<1>3. /\ HadInv(e)
      /\ \E N \in SUBSET Group : New(e, N)
      /\ \E K \in SUBSET Group : Kept(e, K)
  BY <1>1, <1>2, FactsMove DEF Facts, HadInv
<1>4. PICK V \in SUBSET Group : Walked(c, V)
  BY DEF Facts
<1>5. c.of \in V /\ Children(V) \cap c.under \subseteq V
  BY <1>4 DEF Walked
<1>6. GraphsOf(c.under) \ GraphsOf(V) \subseteq late
  BY <1>1, <1>5, KeptCloses
<1>7. SpacesInv(e)
  BY <1>1, <1>4, <1>6 DEF SpacesInv, Walked
<1> QED
  BY <1>1, <1>3, <1>7 DEF Facts

LEMMA FindChildrenFacts ==
  ASSUME TypeOK, NEW c \in Call, Facts(c), c.pc = "children", NEW e,
         e = [c EXCEPT !.pc = "graphs", !.at = Root, !.todo = @ \cup Children({c.at})]
  PROVE  Facts(e)
<1>1. /\ e.pc = "graphs" /\ e.todo = c.todo \cup Children({c.at}) /\ e.found = c.found
      /\ e.of = c.of /\ e.under = c.under /\ e.had = c.had /\ e.ids = c.ids
      /\ e.pc \notin Ended /\ c.pc \notin Ended
  BY DEF Call, Ended
<1>2. Follows(c, e)
  <2>1. ASSUME NEW N \in SUBSET Group, New(c, N)
        PROVE  e.ids \cup e.todo \subseteq c.under \cup N
    <3>1. c.at \in c.under \cup N
      BY <2>1 DEF New
    <3>2. Children({c.at}) \subseteq Children(c.under \cup N)
      BY <3>1 DEF Children
    <3> QED
      BY <1>1, <2>1, <3>2 DEF New
  <2> QED
    BY <1>1, <2>1 DEF Follows
<1>3. /\ HadInv(e)
      /\ \E N \in SUBSET Group : New(e, N)
      /\ \E K \in SUBSET Group : Kept(e, K)
  BY <1>1, <1>2, FactsMove DEF Facts, HadInv
<1>4. PICK V \in SUBSET Group : Walked(c, V)
  BY DEF Facts
<1>5. \A y \in Children(V) : parent[y] = c.at => y \in Children({c.at})
  BY DEF Children
<1>6. Walked(e, V)
  BY <1>1, <1>4, <1>5 DEF Walked
<1>7. SpacesInv(e)
  BY <1>1 DEF SpacesInv
<1> QED
  BY <1>3, <1>6, <1>7 DEF Facts

LEMMA BfsFacts ==
  ASSUME TypeOK, NEW c \in Call, Facts(c), c.pc = "bfs", NEW e,
         \/ c.todo = {} /\ e = [c EXCEPT !.pc = "delete"]
         \/ e = [c EXCEPT !.ids = @ \cup c.todo, !.todo = Children(c.todo)]
  PROVE  Facts(e)
<1>1. /\ e.pc \in {"bfs", "delete"} /\ e.ids = c.ids \cup c.todo
      /\ e.of = c.of /\ e.under = c.under /\ e.had = c.had
      /\ e.pc \notin Ended /\ c.pc \notin Ended
  BY DEF Call, Ended
<1>2. /\ e.todo = Children(c.todo) \/ (c.todo = {} /\ e.todo = {})
      /\ e.pc = "delete" => e.todo = {}
  BY DEF Call
<1>3. Follows(c, e)
  <2>1. ASSUME NEW N \in SUBSET Group, New(c, N)
        PROVE  e.ids \cup e.todo \subseteq c.under \cup N
    <3>1. Children(c.todo) \subseteq Children(c.under \cup N)
      BY <2>1 DEF Children, New
    <3> QED
      BY <1>1, <1>2, <2>1, <3>1 DEF New
  <2> QED
    BY <1>1, <2>1 DEF Follows
<1>4. /\ HadInv(e)
      /\ \E N \in SUBSET Group : New(e, N)
      /\ \E K \in SUBSET Group : Kept(e, K)
  BY <1>1, <1>3, FactsMove
<1>5. SpacesInv(c)
  BY <1>1 DEF Facts
<1>6. Children(e.ids) \cap c.under \subseteq e.ids \cup e.todo
  <2>1. Children(e.ids) \subseteq Children(c.ids) \cup Children(c.todo)
    BY <1>1 DEF Children
  <2>2. c.todo = {} => Children(c.todo) = {}
    BY DEF Children
  <2> QED
    BY <1>1, <1>2, <1>5, <2>1, <2>2 DEF SpacesInv
<1>7. SpacesInv(e)
  BY <1>1, <1>2, <1>5, <1>6 DEF SpacesInv
<1> QED
  BY <1>1, <1>4, <1>7 DEF Facts

LEMMA SpacesDroppedFacts ==
  ASSUME TypeOK, NEW c \in Call, Facts(c), c.pc = "spaces", c.found = {}, NEW e,
         e = [c EXCEPT !.pc = "bfs", !.todo = {c.of}]
  PROVE  Facts(e)
<1>1. /\ e.pc = "bfs" /\ e.todo = {c.of} /\ e.ids = c.ids
      /\ e.of = c.of /\ e.under = c.under /\ e.had = c.had
      /\ e.pc \notin Ended /\ c.pc \notin Ended
  BY DEF Call, Ended
<1>2. Follows(c, e)
  BY <1>1 DEF New, Follows
<1>3. /\ HadInv(e)
      /\ \E N \in SUBSET Group : New(e, N)
      /\ \E K \in SUBSET Group : Kept(e, K)
  BY <1>1, <1>2, FactsMove DEF Facts, HadInv
<1>4. c.ids = {} /\ Children({}) = {}
  BY DEF Facts, HadInv, Children
<1>5. SpacesInv(e)
  BY <1>1, <1>4 DEF SpacesInv, Facts
<1> QED
  BY <1>1, <1>3, <1>5 DEF Facts

LEMMA DropSpaceFacts ==
  ASSUME TypeOK, NEW c \in Call, Facts(c), c.pc = "spaces", NEW h \in c.found, NEW e,
         e = [c EXCEPT !.found = @ \ {h}], SpacesHaveRows', space' = space \ {h},
         UNCHANGED <<group, parent, row, task, late>>
  PROVE  Facts(e)'
<1>1. /\ e.pc = "spaces" /\ e.todo = c.todo /\ e.ids = c.ids /\ e.found = c.found \ {h}
      /\ e.of = c.of /\ e.under = c.under /\ e.had = c.had
      /\ e.pc \notin Ended /\ c.pc \notin Ended
      /\ c.under \in SUBSET Group /\ c.had \subseteq Graph
  BY DEF Call, Ended
<1>2. Follows(c, e)
  BY <1>1 DEF New, Follows
<1>3. /\ HadInv(e)
      /\ \E N \in SUBSET Group : New(e, N)
      /\ \E K \in SUBSET Group : Kept(e, K)
  BY <1>1, <1>2, FactsMove DEF Facts, HadInv
<1>4. Shrinks /\ group' = group
  BY DEF Shrinks
<1>5. HadInv(e)'
  <2>1. Created' = Created
    BY DEF Created
  <2> QED
    BY <1>1, <1>3, <1>4, <2>1, HadStays
<1>6. \E N \in SUBSET Group : New(e, N)'
  BY <1>3, <1>4, NewShrinks
<1>7. \E K \in SUBSET Group : Kept(e, K)'
  BY <1>1, <1>3, <1>4, KeptShrinks
<1>8. SpacesInv(e)'
  <2>1. GraphsOf(c.under)' = GraphsOf(c.under)
    BY DEF GraphsOf
  <2>2. SpacesInv(c)
    BY <1>1 DEF Facts
  <2> QED
    BY <1>1, <2>1, <2>2 DEF SpacesInv
<1> QED
  BY <1>1, <1>5, <1>6, <1>7, <1>8 DEF Facts

\* A call that begins.
LEMMA DropGroupFacts ==
  ASSUME IInv, NEW c \in Call, Facts(c), c.pc = "none", NEW g \in Created, NEW e,
         e = [c EXCEPT !.pc = "graphs", !.of = g, !.todo = {g}, !.under = Below(g),
                       !.had = GraphsOf(Below(g)) \cap space],
         late \subseteq late', UNCHANGED <<group, parent, row, task, space>>
  PROVE  Facts(e)'
<1>1. /\ e.pc = "graphs" /\ e.todo = {g} /\ e.ids = {} /\ e.of = g
      /\ e.under = Below(g) /\ e.had = GraphsOf(Below(g)) \cap space
      /\ e.pc \notin Ended
  BY DEF Call, Ended, Facts, HadInv
<1>2. /\ Below(g) \subseteq Group /\ g \in Below(g)
      /\ Children(Below(g)) \subseteq Below(g)
      /\ \A C \in SUBSET Group :
           g \in C /\ Children(C) \subseteq C => Below(g) \subseteq C
  BY BelowIsLeast DEF IInv
<1>3. Created' = Created /\ \A gs : Children(gs)' = Children(gs) /\ GraphsOf(gs)' = GraphsOf(gs)
  BY DEF Created, Children, GraphsOf
<1>4. PICK B \in SUBSET Group : B = Below(g)
  BY <1>2
<1>5. B \subseteq Created
  BY <1>4, BelowCreated DEF IInv
<1>6. HadInv(e)'
  <2>1. \A h \in e.had : h \in space /\ h \in Graph /\ h \in GraphsOf(B)
    BY <1>1, <1>4 DEF GraphsOf
  <2>2. \A h \in e.had : task'[h] = "done"
    BY <2>1 DEF IInv, RowsInv
  <2> QED
    BY <1>1, <1>3, <1>4, <1>5, <2>1, <2>2 DEF HadInv
<1>7. New(e, {})'
  <2>1. Children(B \cup {}) = Children(B) /\ GraphsOf({}) = {}
    BY DEF GraphsOf, Children
  <2> QED
    BY <1>1, <1>2, <1>3, <1>4, <2>1 DEF New
<1>8. Kept(e, B)'
  <2>1. ASSUME NEW C \in SUBSET Group, g \in C, Children(C) \cap B \subseteq C
        PROVE  B \subseteq C
    <3>1. PICK D \in SUBSET Group : D = C \cap B
      OBVIOUS
    <3>2. Children(D) \subseteq Children(C) /\ Children(D) \subseteq Children(B)
      BY <3>1 DEF Children
    <3>3. Children(D) \subseteq D
      BY <1>2, <1>4, <2>1, <3>1, <3>2
    <3> QED
      BY <1>2, <1>4, <2>1, <3>1, <3>3
  <2>2. B \ B = {} /\ GraphsOf({}) = {}
    BY DEF GraphsOf
  <2>3. \A C \in SUBSET Group :
          e.of \in C /\ Children(C)' \cap B \subseteq C => B \cap group' \subseteq C
    BY <1>1, <1>3, <2>1
  <2> QED
    BY <1>1, <1>3, <1>4, <2>2, <2>3 DEF Kept
<1>9. SpacesInv(e)'
  BY <1>1 DEF SpacesInv
<1>10. Walked(e, {})'
  BY <1>1 DEF Walked, GraphsOf, Children
<1> QED
  BY <1>1, <1>4, <1>6, <1>7, <1>8, <1>9, <1>10 DEF Facts

\* A call that ends, with the error or with what it was to drop as its history.
LEMMA EndFacts ==
  ASSUME NEW c \in Call, Facts(c), NEW e, Created \subseteq Created',
         UNCHANGED <<task, late>>,
         \/ e = [NoCall EXCEPT !.pc = "failed"]
         \/ e = [NoCall EXCEPT !.pc = "ok", !.under = c.under, !.had = c.had]
  PROVE  Facts(e)'
<1>1. /\ e.pc \in {"ok", "failed"} /\ e.ids = {}
      /\ e.under = {} \/ e.under = c.under
      /\ e.had = {} \/ e.had = c.had
  BY DEF NoCall
<1>2. HadInv(e)'
  BY <1>1 DEF HadInv, Facts, Ended
<1> QED
  BY <1>1, <1>2 DEF Facts, Ended

(* The delete of call b, as another call sees it.                          *)
LEMMA DeleteFacts ==
  ASSUME TypeOK, NEW b \in Call, Facts(b), b.pc = "delete", SpacesHaveRows',
         group' = group \ b.ids,
         row' = [h \in Graph |-> IF row[h] \in b.ids THEN None ELSE row[h]],
         UNCHANGED <<parent, task, space, late>>,
         NEW c \in Call, Facts(c)
  PROVE  Facts(c)'
<1>1. Shrinks
  BY DEF Shrinks
<1>2. Created' = Created
  BY DEF Created
<1>3. /\ c.under \in SUBSET Group /\ c.had \subseteq Graph
      /\ b.under \in SUBSET Group /\ b.ids \in SUBSET Group /\ b.pc \notin Ended
  BY DEF Call, Ended
<1>4. HadInv(c)'
  BY <1>1, <1>2, <1>3, HadStays DEF Facts
<1>5. ASSUME c.pc \notin Ended
      PROVE  /\ \E N \in SUBSET Group : New(c, N)'
             /\ \E K \in SUBSET Group : Kept(c, K)'
             /\ SpacesInv(c)'
  <2>1. PICK N \in SUBSET Group : New(c, N)
    BY <1>5 DEF Facts
  <2>2. PICK K \in SUBSET Group : Kept(c, K)
    BY <1>5 DEF Facts
  <2>3. PICK M \in SUBSET Group : New(b, M)
    BY <1>3 DEF Facts
  <2>4. SpacesInv(b)
    BY <1>3 DEF Facts
  <2>5. New(c, N)'
    BY <1>1, <2>1, NewShrinks
  <2>6. Kept(c, K \ M)'
    BY <1>1, <1>3, <2>2, <2>3, <2>4, KeptDelete
  <2>7. SpacesInv(c)'
    BY <1>1, <1>3, <1>5, SpacesShrink DEF Facts
  <2>8. K \ M \in SUBSET Group
    OBVIOUS
  <2> QED
    BY <2>5, <2>6, <2>7, <2>8
<1>6. c.pc \in {"graphs", "children"} => \E V \in SUBSET Group : Walked(c, V)'
  <2>1. SUFFICES ASSUME NEW V \in SUBSET Group, Walked(c, V) PROVE Walked(c, V)'
    BY DEF Facts
  <2> QED
    BY <1>1, <2>1, WalkedShrinks
<1> QED
  BY <1>4, <1>5, <1>6 DEF Facts
-----------------------------------------------------------------------------
(* All parts of the invariant.                                             *)

LEMMA RowsInvStep == IInv /\ [Next]_vars => RowsInv'
<1> SUFFICES ASSUME IInv, [Next]_vars PROVE RowsInv'
  OBVIOUS
<1> USE GroupTreeAssumption DEF IInv, TypeOK, RowsInv, Active
<1>1. ASSUME NEW g \in Group, NEW p \in Group, CreateGroup(g, p) PROVE RowsInv'
  BY <1>1 DEF CreateGroup, Late, Created, graphVars
<1>2. ASSUME NEW h \in Graph, NEW g \in Group, CreateGraph(h, g) PROVE RowsInv'
  <2>1. h \in late' \/ \A d \in Caller : ~ Active(d)
    BY <1>2 DEF CreateGraph, Late, Busy
  <2> QED
    BY <1>2, <2>1 DEF CreateGraph, Late, Created
<1>3. ASSUME NEW h \in Graph, ReadGroup(h) \/ CreateSpace(h) PROVE RowsInv'
  BY <1>3 DEF ReadGroup, CreateSpace, Created
<1>4. ASSUME NEW d \in Caller, NEW g \in Group, DropGroup(d, g) PROVE RowsInv'
  BY <1>4 DEF DropGroup, Created, graphVars
<1>5. ASSUME NEW d \in Caller, DropStep(d) \/ Fail(d) PROVE RowsInv'
  <2>1. Active(d)
    BY <1>5 DEF DropStep, FindGraphs, FindChildren, DropSpaces, Bfs, Delete, Fail, Ended
  <2>2. \A h \in Graph : task[h] \in {"queued", "read"} => h \in late
    BY <2>1
  <2>3. /\ parent' = parent /\ task' = task /\ late' = late /\ space' \subseteq space
        /\ \A h \in Graph : row'[h] \in {row[h], None}
    BY <1>5
    DEF DropStep, FindGraphs, FindChildren, DropSpaces, Bfs, Delete, Fail, Set, graphVars
  <2> QED
    BY <2>2, <2>3 DEF Created
<1>6. ASSUME NEW r \in Reader, GetAllGroups(r) \/ GetGraphs(r) PROVE RowsInv'
  BY <1>6 DEF GetAllGroups, GetGraphs, Read, Created, graphVars
<1>7. CASE UNCHANGED vars
  BY <1>7 DEF vars, graphVars, Created
<1> QED
  BY <1>1, <1>2, <1>3, <1>4, <1>5, <1>6, <1>7 DEF Next

LEMMA ReaderStep == IInv /\ [Next]_vars => ReaderInv' /\ ReaderNeverPanics'
<1> SUFFICES ASSUME IInv, [Next]_vars PROVE ReaderInv' /\ ReaderNeverPanics'
  OBVIOUS
<1> USE GroupTreeAssumption DEF IInv, TypeOK, ReaderInv, ReaderNeverPanics
<1>1. group \subseteq Group
  BY CreatedInGroup
<1>2. ASSUME NEW g \in Group, NEW p \in Group, CreateGroup(g, p)
      PROVE  ReaderInv' /\ ReaderNeverPanics'
  <2>1. (\E r \in Reader : reader[r].pc = "graphs") => g \in late'
    BY <1>2 DEF CreateGroup, Late, Busy
  <2>2. late \subseteq late' /\ reader' = reader /\ group' = group \cup {g}
    BY <1>2 DEF CreateGroup, Late
  <2> QED
    BY <2>1, <2>2
<1>3. ASSUME NEW r \in Reader, GetAllGroups(r) PROVE ReaderInv' /\ ReaderNeverPanics'
  BY <1>3 DEF GetAllGroups, Read, graphVars
<1>4. ASSUME NEW r \in Reader, GetGraphs(r) PROVE ReaderInv' /\ ReaderNeverPanics'
  <2>1. ASSUME NEW h \in Graph, row[h] \notin reader[r].seen \cup {None}
        PROVE  late \cap Group # {}
    <3>1. row[h] \in group \ reader[r].seen
      BY <2>1
    <3> QED
      BY <1>1, <1>4, <3>1 DEF GetGraphs
  <2> QED
    BY <1>4, <2>1 DEF GetGraphs, Read, graphVars
<1>5. ASSUME reader' = reader, group' \subseteq group, late \subseteq late'
      PROVE  ReaderInv' /\ ReaderNeverPanics'
  BY <1>5
<1> QED
  BY <1>2, <1>3, <1>4, <1>5
  DEF Next, vars, graphVars, CreateGraph, Late, ReadGroup, CreateSpace, DropGroup, DropStep,
      Fail, Set, FindGraphs, FindChildren, DropSpaces, Bfs, Delete

\* What a delete takes, and what it leaves.
LEMMA DeleteTakes ==
  ASSUME IInv, NEW d \in Caller, Delete(d), NEW c \in Call, c = call[d]
  PROVE  /\ \A h \in space \ late : row[h] \notin c.ids
         /\ \A x \in group : parent[x] \in c.ids => x \in c.ids \cup late
         /\ c.under \cap (group \ c.ids) \subseteq late
         /\ c.had \cap space \subseteq late
<1>1. Facts(c) /\ c.pc = "delete" /\ c.pc \notin Ended
  BY CallFacts DEF IInv, Delete, Ended
<1>2. PICK N \in SUBSET Group : New(c, N)
  BY <1>1 DEF Facts
<1>3. SpacesInv(c) /\ HadInv(c)
  BY <1>1 DEF Facts
<1>4. /\ c.ids \subseteq c.under \cup N /\ c.of \in c.ids
      /\ Children(c.ids) \cap c.under \subseteq c.ids
      /\ (GraphsOf(c.under) \cap space) \ late = {}
      /\ N \cup GraphsOf(N) \subseteq late
      /\ Children(c.under \cup N) \subseteq c.under \cup N
  BY <1>1, <1>2, <1>3 DEF SpacesInv, New
<1>5. \A h \in space \ late : row[h] \notin c.ids
  BY <1>4 DEF IInv, TypeOK, GraphsOf
<1>6. ASSUME NEW x \in group, parent[x] \in c.ids PROVE x \in c.ids \cup late
  <2>1. x \in Children(c.ids) /\ x \in Children(c.under \cup N)
    BY <1>4, <1>6 DEF Children
  <2> QED
    BY <1>4, <2>1
<1>7. c.under \cap (group \ c.ids) \subseteq late
  <2>1. c.ids \in SUBSET Group /\ c.under \in SUBSET Group
    BY DEF Call
  <2>2. (c.under \cap group) \ c.ids \subseteq late
    BY <1>1, <1>4, <2>1, KeptCloses DEF IInv
  <2> QED
    BY <2>2
<1>8. c.had \cap space \subseteq late
  BY <1>1, <1>3, <1>4 DEF HadInv
<1> QED
  BY <1>5, <1>6, <1>7, <1>8

LEMMA SpacesHaveRowsStep == IInv /\ [Next]_vars => SpacesHaveRows'
<1> SUFFICES ASSUME IInv, [Next]_vars PROVE SpacesHaveRows'
  OBVIOUS
<1> USE GroupTreeAssumption DEF IInv, TypeOK, SpacesHaveRows
<1>1. ASSUME NEW h \in Graph, NEW g \in Group, CreateGraph(h, g) PROVE SpacesHaveRows'
  <2>1. g # None
    OBVIOUS
  <2> QED
    BY <1>1, <2>1 DEF CreateGraph, Late
<1>2. ASSUME NEW h \in Graph, CreateSpace(h) PROVE SpacesHaveRows'
  BY <1>2 DEF CreateSpace, RowsInv
<1>3. ASSUME NEW d \in Caller, Delete(d) PROVE SpacesHaveRows'
  <2>1. PICK c \in Call : c = call[d]
    OBVIOUS
  <2>2. \A h \in space \ late : row[h] \notin c.ids
    BY <1>3, <2>1, DeleteTakes
  <2> QED
    BY <1>3, <2>1, <2>2 DEF Delete
<1>4. ASSUME row' = row, space' \subseteq space, late \subseteq late' PROVE SpacesHaveRows'
  BY <1>4
<1> QED
  BY <1>1, <1>2, <1>3, <1>4
  DEF Next, vars, graphVars, CreateGroup, Late, ReadGroup, DropGroup, DropStep,
      Fail, Set, FindGraphs, FindChildren, DropSpaces, Bfs, GetAllGroups, GetGraphs, Read

LEMMA GroupsHaveParentsStep == IInv /\ [Next]_vars => GroupsHaveParents'
<1> SUFFICES ASSUME IInv, [Next]_vars PROVE GroupsHaveParents'
  OBVIOUS
<1> USE GroupTreeAssumption DEF IInv, TypeOK, GroupsHaveParents
<1>1. ASSUME NEW g \in Group, NEW p \in Group, CreateGroup(g, p) PROVE GroupsHaveParents'
  BY <1>1, CreatedInGroup DEF CreateGroup, Late
<1>2. ASSUME NEW d \in Caller, Delete(d) PROVE GroupsHaveParents'
  <2>1. PICK c \in Call : c = call[d]
    OBVIOUS
  <2>2. \A x \in group : parent[x] \in c.ids => x \in c.ids \cup late
    BY <1>2, <2>1, DeleteTakes
  <2> QED
    BY <1>2, <2>1, <2>2 DEF Delete
<1>3. ASSUME parent' = parent, group' = group, late \subseteq late' PROVE GroupsHaveParents'
  BY <1>3
<1> QED
  BY <1>1, <1>2, <1>3
  DEF Next, vars, graphVars, CreateGraph, Late, ReadGroup, CreateSpace, DropGroup, DropStep,
      Fail, Set, FindGraphs, FindChildren, DropSpaces, Bfs, GetAllGroups, GetGraphs, Read

\* A step of one call leaves the others alone, and only its delete completes it.
OneCall(d) == \A b \in Caller \ {d} : call'[b] = call[b]

LEMMA OneCallStep ==
  ASSUME TypeOK, NEW d \in Caller,
         DropStep(d) \/ Fail(d) \/ \E g \in Group : DropGroup(d, g)
  PROVE  OneCall(d) /\ (~ Delete(d) => call'[d].pc # "ok")
<1>1. PICK c \in Call : c = call[d]
  BY DEF TypeOK
<1>2. ASSUME NEW e, call' = [call EXCEPT ![d] = e]
      PROVE  OneCall(d) /\ call'[d] = e
  BY <1>2 DEF TypeOK, OneCall
<1>3. CASE FindGraphs(d)
  <2>1. CASE Set(d, [c EXCEPT !.pc = "spaces"])
    <3>1. PICK e : e = [c EXCEPT !.pc = "spaces"]
      OBVIOUS
    <3>2. e.pc = "spaces"
      BY <3>1 DEF Call
    <3> QED
      BY <1>2, <2>1, <3>1, <3>2 DEF Set
  <2>2. ASSUME NEW g, Set(d, [c EXCEPT !.pc = "children", !.at = g, !.todo = @ \ {g},
                                       !.found = @ \cup GraphsOf({g})])
        PROVE  OneCall(d) /\ call'[d].pc # "ok"
    <3>1. PICK e : e = [c EXCEPT !.pc = "children", !.at = g, !.todo = @ \ {g},
                                 !.found = @ \cup GraphsOf({g})]
      OBVIOUS
    <3>2. e.pc = "children"
      BY <3>1 DEF Call
    <3> QED
      BY <1>2, <2>2, <3>1, <3>2 DEF Set
  <2> QED
    BY <1>1, <1>3, <2>1, <2>2 DEF FindGraphs
<1>4. CASE FindChildren(d)
  <2>1. PICK e : e = [c EXCEPT !.pc = "graphs", !.at = Root, !.todo = @ \cup Children({c.at})]
    OBVIOUS
  <2>2. e.pc = "graphs"
    BY <2>1 DEF Call
  <2> QED
    BY <1>1, <1>2, <1>4, <2>1, <2>2 DEF FindChildren, Set
<1>5. CASE DropSpaces(d)
  <2>1. ASSUME NEW h, c.pc = "spaces", call' = [call EXCEPT ![d].found = @ \ {h}]
        PROVE  OneCall(d) /\ call'[d].pc # "ok"
    BY <1>1, <2>1 DEF TypeOK, OneCall, Call
  <2>2. CASE Set(d, [c EXCEPT !.pc = "bfs", !.todo = {c.of}])
    <3>1. PICK e : e = [c EXCEPT !.pc = "bfs", !.todo = {c.of}]
      OBVIOUS
    <3>2. e.pc = "bfs"
      BY <3>1 DEF Call
    <3> QED
      BY <1>2, <2>2, <3>1, <3>2 DEF Set
  <2> QED
    BY <1>1, <1>5, <2>1, <2>2 DEF DropSpaces
<1>6. CASE Bfs(d)
  <2>1. CASE Set(d, [c EXCEPT !.pc = "delete"])
    <3>1. PICK e : e = [c EXCEPT !.pc = "delete"]
      OBVIOUS
    <3>2. e.pc = "delete"
      BY <3>1 DEF Call
    <3> QED
      BY <1>2, <2>1, <3>1, <3>2 DEF Set
  <2>2. CASE Set(d, [c EXCEPT !.ids = @ \cup c.todo, !.todo = Children(c.todo)])
    <3>1. PICK e : e = [c EXCEPT !.ids = @ \cup c.todo, !.todo = Children(c.todo)]
      OBVIOUS
    <3>2. e.pc = c.pc
      BY <3>1 DEF Call
    <3> QED
      BY <1>1, <1>2, <1>6, <2>2, <3>1, <3>2 DEF Set, Bfs
  <2> QED
    BY <1>1, <1>6, <2>1, <2>2 DEF Bfs
<1>7. CASE Delete(d)
  BY <1>2, <1>7 DEF Delete, Returns
<1>8. CASE Fail(d)
  <2>1. [NoCall EXCEPT !.pc = "failed"].pc = "failed"
    BY DEF NoCall
  <2> QED
    BY <1>2, <1>8, <2>1 DEF Fail, Set
<1>9. ASSUME NEW g \in Group, DropGroup(d, g) PROVE OneCall(d) /\ call'[d].pc # "ok"
  <2>1. PICK e : e = [c EXCEPT !.pc = "graphs", !.of = g, !.todo = {g}, !.under = Below(g),
                               !.had = GraphsOf(Below(g)) \cap space]
    OBVIOUS
  <2>2. call' = [call EXCEPT ![d] = e]
    BY <1>1, <1>9, <2>1 DEF DropGroup
  <2>3. e.pc = "graphs"
    BY <2>1 DEF Call
  <2> QED
    BY <1>2, <2>2, <2>3
<1> QED
  BY <1>3, <1>4, <1>5, <1>6, <1>7, <1>8, <1>9 DEF DropStep

LEMMA DropOKStep == IInv /\ [Next]_vars => DropOK'
<1> SUFFICES ASSUME IInv, [Next]_vars PROVE DropOK'
  OBVIOUS
<1> USE DEF IInv, TypeOK, DropOK
<1>1. ASSUME NEW g \in Group, NEW p \in Group, CreateGroup(g, p) PROVE DropOK'
  <2>1. \A d \in Caller : call[d].under \subseteq Created
    BY DEF CallInv, HadInv
  <2> QED
    BY <1>1, <2>1 DEF CreateGroup, Late, graphVars
<1>2. ASSUME NEW h \in Graph, CreateSpace(h) PROVE DropOK'
  <2>1. \A d \in Caller : h \in call[d].had => h \in late
    BY <1>2 DEF CreateSpace, CallInv, HadInv
  <2> QED
    BY <1>2, <2>1 DEF CreateSpace
<1>3. ASSUME NEW d \in Caller, Delete(d) PROVE DropOK'
  <2>1. PICK c \in Call : c = call[d]
    OBVIOUS
  <2>2. /\ c.under \cap (group \ c.ids) \subseteq late
        /\ c.had \cap space \subseteq late
    BY <1>3, <2>1, DeleteTakes
  <2>3. /\ call'[d].under = c.under /\ call'[d].had = c.had
        /\ \A b \in Caller \ {d} : call'[b] = call[b]
    BY <1>3, <2>1 DEF Delete, Returns, NoCall
  <2>4. group' = group \ c.ids /\ UNCHANGED <<space, late>>
    BY <1>3, <2>1 DEF Delete
  <2> QED
    BY <2>2, <2>3, <2>4
<1>4. ASSUME group' = group, space' \subseteq space, late \subseteq late',
             \A d \in Caller : call'[d].pc = "ok" => call'[d] = call[d]
      PROVE  DropOK'
  BY <1>4
<1>5. ASSUME NEW d \in Caller, DropStep(d) \/ Fail(d), ~ Delete(d) PROVE DropOK'
  <2>1. OneCall(d) /\ call'[d].pc # "ok"
    BY <1>5, OneCallStep
  <2>2. group' = group /\ space' \subseteq space /\ late' = late
    BY <1>5
    DEF DropStep, FindGraphs, FindChildren, DropSpaces, Bfs, Fail, Set, graphVars
  <2> QED
    BY <1>4, <2>1, <2>2 DEF OneCall
<1>6. ASSUME NEW d \in Caller, NEW g \in Group, DropGroup(d, g) PROVE DropOK'
  <2>1. OneCall(d) /\ call'[d].pc # "ok"
    <3>1. ~ Delete(d)
      BY <1>6 DEF Delete, DropGroup
    <3> QED
      BY <1>6, <3>1, OneCallStep
  <2> QED
    BY <1>6, <1>4, <2>1 DEF DropGroup, graphVars, OneCall
<1> QED
  BY <1>1, <1>2, <1>3, <1>4, <1>5, <1>6
  DEF Next, vars, graphVars, CreateGraph, Late, ReadGroup, GetAllGroups, GetGraphs, Read

LEMMA FactsOfAll == IInv => \A d \in Caller : call[d] \in Call /\ Facts(call[d])
BY CallFacts DEF IInv, TypeOK

\* Steps that leave the rest of the state to call d.
LEMMA OthersUnchanged ==
  ASSUME IInv, NEW d \in Caller, OneCall(d), NEW b \in Caller \ {d},
         UNCHANGED <<group, parent, row, task, space, late>>
  PROVE  CallInv(b)'
<1>1. PICK c \in Call : c = call[b]
  BY FactsOfAll
<1>2. Facts(c)' /\ call'[b] = c
  BY <1>1, FactsOfAll, FactsUnchanged DEF OneCall
<1> QED
  BY <1>2, CallFacts

LEMMA CallInvSet ==
  ASSUME IInv, NEW d \in Caller, NEW e, Set(d, e), Facts(e), NEW b \in Caller
  PROVE  CallInv(b)'
<1>1. UNCHANGED <<group, parent, row, task, space, late>> /\ OneCall(d) /\ call'[d] = e
  BY DEF Set, graphVars, IInv, TypeOK, OneCall
<1>2. CASE b # d
  BY <1>1, <1>2, OthersUnchanged
<1>3. CASE b = d
  <2>1. Facts(e)'
    BY <1>1, FactsUnchanged
  <2> QED
    BY <1>1, <1>3, <2>1, CallFacts
<1> QED
  BY <1>2, <1>3

LEMMA CallInvOwn ==
  ASSUME IInv, SpacesHaveRows', NEW d \in Caller, DropStep(d) \/ Fail(d), NEW b \in Caller
  PROVE  CallInv(b)'
<1>1. PICK c \in Call : c = call[d]
  BY FactsOfAll
<1>2. Facts(c) /\ TypeOK
  BY <1>1, FactsOfAll DEF IInv
<1>3. CASE FindGraphs(d)
  <2>1. CASE c.todo = {} /\ Set(d, [c EXCEPT !.pc = "spaces"])
    <3>1. PICK e : e = [c EXCEPT !.pc = "spaces"]
      OBVIOUS
    <3>2. Facts(e)
      BY <1>1, <1>2, <1>3, <2>1, <3>1, FoundAllFacts DEF FindGraphs
    <3> QED
      BY <2>1, <3>1, <3>2, CallInvSet
  <2>2. ASSUME NEW g \in c.todo,
               Set(d, [c EXCEPT !.pc = "children", !.at = g, !.todo = @ \ {g},
                                !.found = @ \cup GraphsOf({g})])
        PROVE  CallInv(b)'
    <3>1. PICK e : e = [c EXCEPT !.pc = "children", !.at = g, !.todo = @ \ {g},
                                 !.found = @ \cup GraphsOf({g})]
      OBVIOUS
    <3>2. Facts(e)
      BY <1>1, <1>2, <1>3, <3>1, FindGraphsFacts DEF FindGraphs
    <3> QED
      BY <2>2, <3>1, <3>2, CallInvSet
  <2> QED
    BY <1>1, <1>3, <2>1, <2>2 DEF FindGraphs
<1>4. CASE FindChildren(d)
  <2>1. PICK e : e = [c EXCEPT !.pc = "graphs", !.at = Root, !.todo = @ \cup Children({c.at})]
    OBVIOUS
  <2>2. Facts(e)
    BY <1>1, <1>2, <1>4, <2>1, FindChildrenFacts DEF FindChildren
  <2> QED
    BY <1>1, <1>4, <2>1, <2>2, CallInvSet DEF FindChildren
<1>5. CASE DropSpaces(d)
  <2>1. CASE c.found = {} /\ Set(d, [c EXCEPT !.pc = "bfs", !.todo = {c.of}])
    <3>1. PICK e : e = [c EXCEPT !.pc = "bfs", !.todo = {c.of}]
      OBVIOUS
    <3>2. Facts(e)
      BY <1>1, <1>2, <1>5, <2>1, <3>1, SpacesDroppedFacts DEF DropSpaces
    <3> QED
      BY <2>1, <3>1, <3>2, CallInvSet
  <2>2. ASSUME NEW h \in c.found, space' = space \ {h},
               call' = [call EXCEPT ![d].found = @ \ {h}],
               UNCHANGED <<group, parent, row, task, target, reader, late>>
        PROVE  CallInv(b)'
    <3>1. PICK e : e = [c EXCEPT !.found = @ \ {h}]
      OBVIOUS
    <3>2. call'[d] = e /\ OneCall(d)
      BY <1>1, <2>2, <3>1 DEF IInv, TypeOK, OneCall
    <3>3. c.pc = "spaces"
      BY <1>1, <1>5 DEF DropSpaces
    <3>4. Facts(e)'
      BY <1>2, <2>2, <3>1, <3>3, DropSpaceFacts
    <3>5. CASE b = d
      BY <3>2, <3>4, <3>5, CallFacts
    <3>6. CASE b # d
      <4>1. PICK f \in Call : f = call[b]
        BY FactsOfAll
      <4>2. Shrinks /\ group' = group /\ task' = task
        BY <2>2 DEF Shrinks
      <4>3. Facts(f)'
        BY <4>1, <4>2, FactsOfAll, CallShrinks
      <4>4. call'[b] = f
        BY <3>2, <3>6, <4>1 DEF OneCall
      <4> QED
        BY <4>3, <4>4, CallFacts
    <3> QED
      BY <3>5, <3>6
  <2> QED
    BY <1>1, <1>5, <2>1, <2>2 DEF DropSpaces
<1>6. CASE Bfs(d)
  <2>1. PICK e : /\ Set(d, e)
                 /\ \/ c.todo = {} /\ e = [c EXCEPT !.pc = "delete"]
                    \/ e = [c EXCEPT !.ids = @ \cup c.todo, !.todo = Children(c.todo)]
    BY <1>1, <1>6 DEF Bfs
  <2>2. c.pc = "bfs"
    BY <1>1, <1>6 DEF Bfs
  <2>3. Facts(e)
    BY <1>2, <2>1, <2>2, BfsFacts
  <2> QED
    BY <2>1, <2>3, CallInvSet
<1>7. CASE Delete(d)
  <2>1. /\ c.pc = "delete" /\ group' = group \ c.ids
        /\ row' = [h \in Graph |-> IF row[h] \in c.ids THEN None ELSE row[h]]
        /\ UNCHANGED <<parent, task, space, late>>
        /\ call' = [call EXCEPT ![d] = [NoCall EXCEPT !.pc = "ok", !.under = c.under,
                                                      !.had = c.had]]
    BY <1>1, <1>7 DEF Delete, Returns
  <2>2. CASE b = d
    <3>1. PICK e : e = [NoCall EXCEPT !.pc = "ok", !.under = c.under, !.had = c.had]
      OBVIOUS
    <3>2. Created \subseteq Created'
      BY <2>1 DEF Created
    <3>3. Facts(e)'
      BY <1>2, <2>1, <3>1, <3>2, EndFacts
    <3>4. call'[d] = e
      BY <2>1, <3>1 DEF IInv, TypeOK
    <3> QED
      BY <2>2, <3>3, <3>4, CallFacts
  <2>3. CASE b # d
    <3>1. PICK f \in Call : f = call[b]
      BY FactsOfAll
    <3>2. Facts(f)'
      BY <1>2, <2>1, <3>1, FactsOfAll, DeleteFacts
    <3>3. call'[b] = f
      BY <2>1, <2>3, <3>1 DEF IInv, TypeOK
    <3> QED
      BY <3>2, <3>3, CallFacts
  <2> QED
    BY <2>2, <2>3
<1>8. CASE Fail(d)
  <2>1. PICK e : e = [NoCall EXCEPT !.pc = "failed"]
    OBVIOUS
  <2>2. Set(d, e)
    BY <1>8, <2>1 DEF Fail
  <2>3. UNCHANGED <<group, parent, row, task, space, late>> /\ call'[d] = e /\ OneCall(d)
    BY <2>2 DEF Set, graphVars, IInv, TypeOK, OneCall
  <2>4. Created' = Created
    BY <2>3 DEF Created
  <2>5. Facts(e)'
    BY <1>2, <2>1, <2>3, <2>4, EndFacts
  <2>6. CASE b = d
    BY <2>3, <2>5, <2>6, CallFacts
  <2>7. CASE b # d
    BY <2>3, <2>7, OthersUnchanged
  <2> QED
    BY <2>6, <2>7
<1> QED
  BY <1>3, <1>4, <1>5, <1>6, <1>7, <1>8 DEF DropStep

\* Steps of others: creations, tasks and lists.
LEMMA CallInvEnv ==
  ASSUME IInv, SpacesHaveRows', NEW b \in Caller, call'[b] = call[b], group' = group,
         late \subseteq late', parent' = parent,
         \A h \in Graph : task[h] = "done" => task'[h] = "done",
         Active(b) => Shrinks
  PROVE  CallInv(b)'
<1>1. PICK c \in Call : c = call[b]
  BY FactsOfAll
<1>2. Created' = Created
  BY DEF Created
<1>3. Facts(c)'
  <2>1. CASE Active(b)
    BY <1>1, <2>1, FactsOfAll, CallShrinks
  <2>2. CASE ~ Active(b)
    BY <1>1, <1>2, <2>2, FactsOfAll, CallEnded DEF Active
  <2> QED
    BY <2>1, <2>2
<1> QED
  BY <1>1, <1>3, CallFacts

LEMMA CallInvStep == IInv /\ [Next]_vars => \A b \in Caller : CallInv(b)'
<1> SUFFICES ASSUME IInv, [Next]_vars, NEW b \in Caller PROVE CallInv(b)'
  OBVIOUS
<1>1. SpacesHaveRows'
  BY SpacesHaveRowsStep
<1>2. PICK c \in Call : c = call[b] /\ Facts(c)
  BY FactsOfAll
<1>3. ASSUME NEW g \in Group, NEW p \in Group, CreateGroup(g, p) PROVE CallInv(b)'
  <2>1. c.pc \notin Ended => Busy
    BY <1>2 DEF Busy
  <2>2. Facts(c)' /\ call'[b] = c
    BY <1>2, <1>3, <2>1, CallCreateGroup DEF CreateGroup
  <2> QED
    BY <2>2, CallFacts
<1>4. ASSUME NEW h \in Graph, NEW g \in Group, CreateGraph(h, g) PROVE CallInv(b)'
  <2>1. /\ late \subseteq late'
        /\ Active(b) => h \in late'
        /\ \A x \in Graph \ {h} : row'[x] = row[x] /\ task'[x] = task[x]
        /\ task[h] = "none"
        /\ UNCHANGED <<group, parent, space, call>>
    BY <1>4 DEF CreateGraph, Late, Busy, Active, IInv, TypeOK
  <2>2. Active(b) => Shrinks
    BY <2>1 DEF Shrinks
  <2> QED
    BY <1>1, <2>1, <2>2, CallInvEnv
<1>5. ASSUME NEW h \in Graph, ReadGroup(h) \/ CreateSpace(h) PROVE CallInv(b)'
  <2>1. Active(b) => h \in late
    BY <1>5 DEF ReadGroup, CreateSpace, IInv, RowsInv
  <2>2. /\ UNCHANGED <<group, parent, row, call, late>> /\ space' \subseteq space \cup {h}
        /\ \A x \in Graph : task[x] = "done" => task'[x] = "done"
    BY <1>5 DEF ReadGroup, CreateSpace, IInv, TypeOK
  <2>3. Active(b) => Shrinks
    BY <2>1, <2>2 DEF Shrinks
  <2> QED
    BY <1>1, <2>2, <2>3, CallInvEnv
<1>6. ASSUME NEW d \in Caller, NEW g \in Group, DropGroup(d, g) PROVE CallInv(b)'
  <2>1. OneCall(d) /\ UNCHANGED <<group, parent, row, task, space>> /\ late \subseteq late'
    BY <1>6, OneCallStep DEF DropGroup, graphVars, IInv
  <2>2. CASE b # d
    <3>1. Shrinks /\ call'[b] = call[b]
      BY <2>1, <2>2 DEF Shrinks, OneCall
    <3> QED
      BY <1>1, <2>1, <3>1, CallInvEnv
  <2>3. CASE b = d
    <3>1. PICK e : e = [c EXCEPT !.pc = "graphs", !.of = g, !.todo = {g}, !.under = Below(g),
                                 !.had = GraphsOf(Below(g)) \cap space]
      OBVIOUS
    <3>2. call' = [call EXCEPT ![d] = e]
      BY <1>2, <1>6, <2>3, <3>1 DEF DropGroup
    <3>3. c.pc = "none" /\ g \in Created
      BY <1>2, <1>6, <2>3 DEF DropGroup
    <3>4. Facts(e)'
      BY <1>2, <2>1, <3>1, <3>3, DropGroupFacts
    <3>5. call'[b] = e
      BY <2>3, <3>2 DEF IInv, TypeOK
    <3> QED
      BY <3>4, <3>5, CallFacts
  <2> QED
    BY <2>2, <2>3
<1>7. ASSUME NEW d \in Caller, DropStep(d) \/ Fail(d) PROVE CallInv(b)'
  BY <1>1, <1>7, CallInvOwn
<1>8. CASE UNCHANGED <<group, parent, row, task, space, call, late>>
  <2>1. Facts(c)' /\ call'[b] = c
    BY <1>2, <1>8, FactsUnchanged
  <2> QED
    BY <2>1, CallFacts
<1>9. ASSUME NEW r \in Reader, GetAllGroups(r) \/ GetGraphs(r) PROVE CallInv(b)'
  BY <1>8, <1>9 DEF GetAllGroups, GetGraphs, Read, graphVars
<1> QED
  BY <1>3, <1>4, <1>5, <1>6, <1>7, <1>8, <1>9 DEF Next, vars, graphVars

-----------------------------------------------------------------------------
(* The walks and the order of the groups.                                  *)

(* A new group is above no other.                                          *)
LEMMA ForestGrows ==
  ASSUME TypeOK, RowsInv, Forest, NEW g \in Group, NEW p \in Group, CreateGroup(g, p)
  PROVE  Forest' /\ Created' = Created \cup {g}
<1>1. g \notin Created /\ p \in Created /\ parent' = [parent EXCEPT ![g] = p]
  BY DEF CreateGroup
<1>2. Created' = Created \cup {g}
  BY <1>1, GroupTreeAssumption DEF Created, TypeOK
<1>3. \A x \in Created : parent'[x] = parent[x]
  BY <1>1 DEF TypeOK, Created
<1>4. \A x \in Created : parent[x] # g
  BY <1>1, GroupTreeAssumption DEF RowsInv, Created
<1>5. ASSUME NEW C \in SUBSET Created', C # {} PROVE \E x \in C : parent'[x] \notin C
  <2>1. CASE C \subseteq {g}
    <3>1. C = {g} /\ parent'[g] = p /\ p # g
      BY <1>1, <1>5, <2>1 DEF TypeOK
    <3> QED
      BY <3>1
  <2>2. CASE ~ (C \subseteq {g})
    <3>1. C \ {g} \in SUBSET Created /\ C \ {g} # {}
      BY <1>2, <2>2
    <3>2. PICK x \in C \ {g} : parent[x] \notin C \ {g}
      BY <3>1 DEF Forest
    <3>3. x \in Created
      BY <3>1
    <3>4. parent'[x] \notin C
      BY <1>3, <1>4, <3>2, <3>3
    <3> QED
      BY <3>4
  <2> QED
    BY <2>1, <2>2
<1>6. Forest'
  BY <1>5 DEF Forest
<1> QED
  BY <1>2, <1>6

\* A call that does not move keeps its walk.
LEMMA WalkStays ==
  ASSUME NEW c, WalkInv(c), \A x \in Created : x \in Created' /\ parent'[x] = parent[x]
  PROVE  WalkInv(c)'
<1>1. ASSUME NEW V, Fresh(c, V) PROVE Fresh(c, V)'
  BY <1>1 DEF Fresh
<1> QED
  BY <1>1 DEF WalkInv

\* The top of a walk is a child of nothing that the walk has met.
LEMMA TopHasNoParentBelow ==
  ASSUME Forest, NEW c, NEW V, Fresh(c, V)
  PROVE  parent[c.of] \notin V \cup c.todo
<1>1. ASSUME parent[c.of] \in V \cup c.todo PROVE FALSE
  <2>1. \A x \in V \cup c.todo : parent[x] \in V \cup c.todo
    BY <1>1 DEF Fresh
  <2>2. V \cup c.todo \in SUBSET Created /\ V \cup c.todo # {}
    BY DEF Fresh
  <2> QED
    BY <2>1, <2>2 DEF Forest
<1> QED
  BY <1>1

\* The first walk reads the children of a group and puts them on its agenda.
LEMMA WalkFindGraphs ==
  ASSUME TypeOK, Forest, NEW c \in Call, NEW g \in c.todo, NEW e \in Call,
         WalkInv(c), c.pc = "graphs",
         e.pc = "children", e.at = g, e.todo = c.todo \ {g}, e.of = c.of
  PROVE  WalkInv(e)
<1>1. PICK V \in SUBSET Group : Fresh(c, V)
  BY DEF WalkInv
<1>2. PICK W : W = V \cup {g}
  OBVIOUS
<1>3. parent[c.of] \notin V \cup c.todo
  BY <1>1, TopHasNoParentBelow
<1>4. W \cup e.todo = V \cup c.todo
  BY <1>2
<1>5. \A x \in V \cup c.todo : parent[x] # g
  BY <1>1, <1>3 DEF Fresh
<1>6. Fresh(e, W)
  BY <1>1, <1>2, <1>4, <1>5 DEF Fresh
<1>7. W \in SUBSET Group
  BY <1>2 DEF Call
<1> QED
  BY <1>6, <1>7 DEF WalkInv

LEMMA WalkFindChildren ==
  ASSUME TypeOK, NEW c \in Call, NEW e \in Call, WalkInv(c), c.pc = "children",
         e.pc = "graphs", e.todo = c.todo \cup Children({c.at}), e.of = c.of
  PROVE  WalkInv(e)
<1>1. PICK V \in SUBSET Group : Fresh(c, V)
  BY DEF WalkInv
<1>2. \A y \in Children({c.at}) : parent[y] = c.at /\ y \in Created
  BY DEF Children, TypeOK
<1>3. Fresh(e, V)
  BY <1>1, <1>2 DEF Fresh
<1> QED
  BY <1>3 DEF WalkInv

\* The second walk reads the children of a level.
LEMMA WalkBfs ==
  ASSUME TypeOK, Forest, NEW c \in Call, NEW e \in Call, WalkInv(c), c.pc = "bfs",
         e.pc = "bfs", e.ids = c.ids \cup c.todo, e.todo = Children(c.todo), e.of = c.of
  PROVE  WalkInv(e)
<1>1. Fresh(c, c.ids)
  BY DEF WalkInv
<1>2. parent[c.of] \notin c.ids \cup c.todo
  BY <1>1, TopHasNoParentBelow
<1>3. \A y \in Children(c.todo) : parent[y] \in c.todo /\ y \in Created
  BY DEF Children, TypeOK
<1>4. \A y \in Children(c.todo) : y \notin c.ids \cup c.todo
  BY <1>1, <1>2, <1>3 DEF Fresh
<1>5. Fresh(e, e.ids)
  BY <1>1, <1>3, <1>4 DEF Fresh
<1> QED
  BY <1>5 DEF WalkInv

\* A walk starts at the group of the call.
LEMMA WalkStarts ==
  ASSUME NEW e \in Call, e.pc \in {"graphs", "bfs"}, e.todo = {e.of}, e.ids = {},
         e.of \in Created
  PROVE  WalkInv(e)
<1>1. Fresh(e, {})
  BY DEF Fresh
<1> QED
  BY <1>1 DEF WalkInv

\* A step of one call, for all of them.
LEMMA WalkOwn ==
  ASSUME IInv, NEW d \in Caller, DropStep(d) \/ Fail(d), NEW b \in Caller
  PROVE  WalkInv(call[b])'
<1>1. TypeOK /\ Forest /\ WalkInv(call[b]) /\ WalkInv(call[d])
  BY DEF IInv, OrderInv
<1>2. PICK c \in Call : c = call[d]
  BY <1>1 DEF TypeOK
<1>3. PICK e : e = call'[d]
  OBVIOUS
<1>4. UNCHANGED parent
  BY DEF DropStep, FindGraphs, FindChildren, DropSpaces, Bfs, Delete, Fail, Set, graphVars
<1>5. \A x \in Created : x \in Created' /\ parent'[x] = parent[x]
  BY <1>4 DEF Created
<1>6. e \in Call
  <2>1. TypeOK'
    BY <1>1, DropStepType, TypeOKStep DEF Next
  <2> QED
    BY <1>3, <2>1 DEF TypeOK
<1>7. b # d => call'[b] = call[b]
  BY <1>1 DEF DropStep, FindGraphs, FindChildren, DropSpaces, Bfs, Delete, Fail, Set, Returns,
             TypeOK
<1>8. WalkInv(e)
  <2>1. ASSUME FindGraphs(d) PROVE WalkInv(e)
    <3>1. ASSUME NEW g \in c.todo,
                 Set(d, [c EXCEPT !.pc = "children", !.at = g, !.todo = @ \ {g},
                                  !.found = @ \cup GraphsOf({g})])
          PROVE  WalkInv(e)
      <4>1. e = [c EXCEPT !.pc = "children", !.at = g, !.todo = @ \ {g},
                          !.found = @ \cup GraphsOf({g})]
        BY <1>1, <1>3, <3>1 DEF Set, TypeOK
      <4>2. e.pc = "children" /\ e.at = g /\ e.todo = c.todo \ {g} /\ e.of = c.of
        BY <4>1 DEF Call
      <4>3. c.pc = "graphs" /\ WalkInv(c)
        BY <1>1, <1>2, <2>1 DEF FindGraphs
      <4> QED
        BY <1>1, <1>6, <4>2, <4>3, WalkFindGraphs
    <3>2. ASSUME Set(d, [c EXCEPT !.pc = "spaces"]) PROVE WalkInv(e)
      <4>1. e.pc = "spaces"
        BY <1>1, <1>3, <3>2 DEF Set, TypeOK, Call
      <4> QED
        BY <4>1 DEF WalkInv
    <3> QED
      BY <1>2, <2>1, <3>1, <3>2 DEF FindGraphs
  <2>2. ASSUME FindChildren(d) PROVE WalkInv(e)
    <3>1. e = [c EXCEPT !.pc = "graphs", !.at = Root, !.todo = @ \cup Children({c.at})]
      BY <1>1, <1>2, <1>3, <2>2 DEF FindChildren, Set, TypeOK
    <3>2. e.pc = "graphs" /\ e.todo = c.todo \cup Children({c.at}) /\ e.of = c.of
      BY <3>1 DEF Call
    <3>3. c.pc = "children" /\ WalkInv(c)
      BY <1>1, <1>2, <2>2 DEF FindChildren
    <3> QED
      BY <1>1, <1>6, <3>2, <3>3, WalkFindChildren
  <2>3. ASSUME DropSpaces(d) PROVE WalkInv(e)
    <3>1. c.pc = "spaces"
      BY <1>2, <2>3 DEF DropSpaces
    <3>2. ASSUME Set(d, [c EXCEPT !.pc = "bfs", !.todo = {c.of}]) PROVE WalkInv(e)
      <4>1. e = [c EXCEPT !.pc = "bfs", !.todo = {c.of}]
        BY <1>1, <1>3, <3>2 DEF Set, TypeOK
      <4>2. c.ids = {} /\ c.of \in Created
        BY <1>2, <3>1 DEF IInv, CallInv, HadInv, New, Active, Ended
      <4>3. e.pc = "bfs" /\ e.todo = {e.of} /\ e.ids = {} /\ e.of \in Created
        BY <4>1, <4>2 DEF Call
      <4> QED
        BY <1>6, <4>3, WalkStarts
    <3>3. ASSUME NEW h, call' = [call EXCEPT ![d].found = @ \ {h}] PROVE WalkInv(e)
      <4>1. e = [c EXCEPT !.found = @ \ {h}]
        BY <1>1, <1>2, <1>3, <3>3 DEF TypeOK
      <4>2. e.pc = "spaces"
        BY <3>1, <4>1 DEF Call
      <4> QED
        BY <4>2 DEF WalkInv
    <3> QED
      BY <1>2, <2>3, <3>2, <3>3 DEF DropSpaces
  <2>4. ASSUME Bfs(d) PROVE WalkInv(e)
    <3>1. c.pc = "bfs" /\ WalkInv(c)
      BY <1>1, <1>2, <2>4 DEF Bfs
    <3>2. ASSUME Set(d, [c EXCEPT !.pc = "delete"]) PROVE WalkInv(e)
      <4>1. e.pc = "delete"
        BY <1>1, <1>3, <3>2 DEF Set, TypeOK, Call
      <4> QED
        BY <4>1 DEF WalkInv
    <3>3. ASSUME Set(d, [c EXCEPT !.ids = @ \cup c.todo, !.todo = Children(c.todo)])
          PROVE  WalkInv(e)
      <4>1. e = [c EXCEPT !.ids = @ \cup c.todo, !.todo = Children(c.todo)]
        BY <1>1, <1>3, <3>3 DEF Set, TypeOK
      <4>2. e.pc = "bfs" /\ e.ids = c.ids \cup c.todo /\ e.todo = Children(c.todo) /\ e.of = c.of
        BY <3>1, <4>1 DEF Call
      <4> QED
        BY <1>1, <1>6, <3>1, <4>2, WalkBfs
    <3> QED
      BY <1>2, <2>4, <3>2, <3>3 DEF Bfs
  <2>5. ASSUME Delete(d) \/ Fail(d) PROVE WalkInv(e)
    <3>1. e.pc \in {"ok", "failed"}
      BY <1>1, <1>3, <2>5 DEF Delete, Returns, Fail, Set, TypeOK, NoCall
    <3> QED
      BY <3>1 DEF WalkInv
  <2> QED
    BY <2>1, <2>2, <2>3, <2>4, <2>5 DEF DropStep
<1>9. CASE b = d
  <2>1. WalkInv(e)'
    BY <1>5, <1>8, WalkStays
  <2> QED
    BY <1>3, <1>9, <2>1 DEF WalkInv, Fresh
<1>10. CASE b # d
  <2>1. PICK a : a = call[b]
    OBVIOUS
  <2>2. WalkInv(a)'
    BY <1>1, <1>5, <2>1, WalkStays
  <2> QED
    BY <1>7, <1>10, <2>1, <2>2 DEF WalkInv, Fresh
<1> QED
  BY <1>9, <1>10

LEMMA OrderInvStep == IInv /\ [Next]_vars => OrderInv'
<1> SUFFICES ASSUME IInv, [Next]_vars PROVE OrderInv'
  OBVIOUS
<1>1. TypeOK /\ RowsInv /\ Forest /\ \A d \in Caller : WalkInv(call[d])
  BY DEF IInv, OrderInv
<1>2. ASSUME UNCHANGED parent PROVE Forest'
  BY <1>1, <1>2 DEF Forest, Created
<1>3. ASSUME NEW b \in Caller, call'[b] = call[b],
             \A x \in Created : x \in Created' /\ parent'[x] = parent[x]
      PROVE  WalkInv(call[b])'
  <2>1. PICK c : c = call[b]
    OBVIOUS
  <2>2. WalkInv(c)'
    BY <1>1, <1>3, <2>1, WalkStays
  <2> QED
    BY <1>3, <2>1, <2>2 DEF WalkInv, Fresh
<1>4. ASSUME NEW g \in Group, NEW p \in Group, CreateGroup(g, p) PROVE OrderInv'
  <2>1. Forest' /\ Created' = Created \cup {g}
    BY <1>1, <1>4, ForestGrows
  <2>2. call' = call /\ \A x \in Created : parent'[x] = parent[x]
    BY <1>1, <1>4 DEF CreateGroup, TypeOK, Created
  <2> QED
    BY <1>3, <2>1, <2>2 DEF OrderInv
<1>5. ASSUME UNCHANGED <<parent, call>> PROVE OrderInv'
  <2>1. \A x \in Created : x \in Created' /\ parent'[x] = parent[x]
    BY <1>5 DEF Created
  <2> QED
    BY <1>2, <1>3, <1>5, <2>1 DEF OrderInv
<1>6. ASSUME NEW d \in Caller, NEW g \in Group, DropGroup(d, g) PROVE OrderInv'
  <2>1. UNCHANGED parent
    BY <1>6 DEF DropGroup
  <2>2. \A x \in Created : x \in Created' /\ parent'[x] = parent[x]
    BY <2>1 DEF Created
  <2>3. PICK e : e = call'[d]
    OBVIOUS
  <2>4. e \in Call
    BY <1>1, <1>6, <2>3, DropGroupType DEF TypeOK
  <2>5. e.pc = "graphs" /\ e.todo = {e.of} /\ e.ids = {} /\ e.of \in Created
    <3>1. PICK c \in Call : c = call[d]
      BY <1>1 DEF TypeOK
    <3>2. c.ids = {}
      BY <1>6, <3>1 DEF IInv, CallInv, HadInv, DropGroup
    <3>3. e = [c EXCEPT !.pc = "graphs", !.of = g, !.todo = {g}, !.under = Below(g),
                        !.had = GraphsOf(Below(g)) \cap space]
      BY <1>1, <1>6, <2>3, <3>1 DEF DropGroup, TypeOK
    <3>4. g \in Created
      BY <1>1, <1>6 DEF DropGroup, TypeOK
    <3> QED
      BY <3>2, <3>3, <3>4 DEF Call
  <2>6. WalkInv(e)'
    BY <2>2, <2>4, <2>5, WalkStarts, WalkStays
  <2>7. WalkInv(call[d])'
    BY <2>3, <2>6 DEF WalkInv, Fresh
  <2>8. ASSUME NEW b \in Caller, b # d PROVE WalkInv(call[b])'
    <3>1. call'[b] = call[b]
      BY <1>1, <1>6, <2>8 DEF DropGroup, TypeOK
    <3> QED
      BY <1>3, <2>2, <3>1
  <2> QED
    BY <1>2, <2>1, <2>7, <2>8 DEF OrderInv
<1>7. ASSUME NEW d \in Caller, DropStep(d) \/ Fail(d) PROVE OrderInv'
  <2>1. UNCHANGED parent
    BY <1>7 DEF DropStep, FindGraphs, FindChildren, DropSpaces, Bfs, Delete, Fail, Set, graphVars
  <2> QED
    BY <1>2, <1>7, <2>1, WalkOwn DEF OrderInv
<1>8. ASSUME NEW h \in Graph, (\E g \in Group : CreateGraph(h, g)) \/ ReadGroup(h) \/ CreateSpace(h)
      PROVE  OrderInv'
  BY <1>5, <1>8 DEF CreateGraph, ReadGroup, CreateSpace
<1>9. ASSUME NEW r \in Reader, GetAllGroups(r) \/ GetGraphs(r) PROVE OrderInv'
  BY <1>5, <1>9 DEF GetAllGroups, GetGraphs, Read
<1> QED
  BY <1>4, <1>5, <1>6, <1>7, <1>8, <1>9 DEF Next, vars

LEMMA IInvInit == Init => IInv
<1> SUFFICES ASSUME Init PROVE IInv
  OBVIOUS
<1>1. TypeOK
  BY TypeOKInit
<1>2. RowsInv /\ ReaderInv /\ ReaderNeverPanics /\ SpacesHaveRows /\ GroupsHaveParents /\ DropOK
  BY DEF Init, RowsInv, ReaderInv, ReaderNeverPanics, SpacesHaveRows, GroupsHaveParents,
         DropOK, NoCall, Created
<1>3. \A d \in Caller : CallInv(d)
  BY DEF Init, CallInv, HadInv, Active, NoCall, Ended
<1>4. Forest
  <2>1. Created = {Root} /\ parent[Root] = None
    BY GroupTreeAssumption DEF Init, Created
  <2> QED
    BY <2>1, GroupTreeAssumption DEF Forest
<1>5. \A d \in Caller : WalkInv(call[d])
  BY DEF Init, WalkInv, NoCall
<1> QED
  BY <1>1, <1>2, <1>3, <1>4, <1>5 DEF IInv, OrderInv

LEMMA IInvStep == IInv /\ [Next]_vars => IInv'
BY TypeOKStep, RowsInvStep, ReaderStep, SpacesHaveRowsStep, GroupsHaveParentsStep,
   DropOKStep, CallInvStep, OrderInvStep
DEF IInv

\* The inductive invariant holds of every behaviour: the types, the foreign key,
\* and what every drop under way has covered.
THEOREM TreeInvariant == Spec => []IInv
BY IInvInit, IInvStep, PTL DEF Spec

\* No row of a graph goes while its space stays, for any tree and any number of
\* drops that overlap or fail half-way, unless the graph was created next to a drop
\* (dropgrouplogic.go:32).
THEOREM NoSpaceLosesItsRow == Spec => []SpacesHaveRows
<1>1. IInv => SpacesHaveRows
  BY DEF IInv
<1> QED
  BY <1>1, TreeInvariant, PTL

\* No drop cuts the tree above a group, unless the group was created next to a
\* drop (mysql_impl.go:153).
THEOREM TreeIsNeverCut == Spec => []GroupsHaveParents
<1>1. IInv => GroupsHaveParents
  BY DEF IInv
<1> QED
  BY <1>1, TreeInvariant, PTL

\* A drop that succeeds has removed all that was below its group when it began,
\* although its two walks read the tree level by level while others change it.
THEOREM DropsAreComplete == Spec => []DropOK
<1>1. IInv => DropOK
  BY DEF IInv
<1> QED
  BY <1>1, TreeInvariant, PTL

\* GetAllGraph never misses the group of a graph unless a group was created next
\* to a drop or a list (getallgraphlogic.go:90).
THEOREM ListsFindTheirGroups == Spec => []ReaderNeverPanics
<1>1. IInv => ReaderNeverPanics
  BY DEF IInv
<1> QED
  BY <1>1, TreeInvariant, PTL

\* No walk of a drop goes round in circles, for any tree and whatever is created or
\* dropped next to it: CreateGroup gives a new group a parent that was created before
\* it, and nothing else sets one.  So a walk lasts only while it finds groups that it
\* has not read (mysql_impl.go:118, :155).
THEOREM WalksNeverComeBack == Spec => []WalksMoveOn
<1>1. ASSUME IInv, NEW d \in Caller, call[d].pc = "children"
      PROVE  Children({call[d].at}) \cap (call[d].todo \cup {call[d].at}) = {}
  <2>1. PICK V \in SUBSET Group : Fresh(call[d], V)
    BY <1>1 DEF IInv, OrderInv, WalkInv
  <2> QED
    BY <1>1, <2>1 DEF Fresh, Children
<1>2. IInv => WalksMoveOn
  BY <1>1 DEF IInv, OrderInv, WalkInv, Fresh, WalksMoveOn
<1> QED
  BY <1>2, TreeInvariant, PTL
=============================================================================
