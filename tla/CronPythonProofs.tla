------------------------- MODULE CronPythonProofs --------------------------
(* Proofs about CronPython for every set of packages, feeds and ticks.     *)
EXTENDS CronPython, FiniteSetTheorems, WellFoundedInduction, TLAPS

LEMMA NameFacts ==
  /\ Release \subseteq Name /\ Library \subseteq Name
  /\ \A r \in Release : LibOf[r] \in Library /\ r \notin Library
  /\ \A r \in Release : Deps[r] \in Seq(Release)
BY CronPythonAssumption DEF Name

\* What the steps of a package are, and what is left after one step.
LEMMA TodoType ==
  ASSUME NEW r \in Release, NEW todo \in Seq(Item), todo # <<>>,
         NEW D \in {<<>>, Dependencies(r)}
  PROVE  /\ Head(todo)[1] \in {"source", "target"} /\ Head(todo)[2] \in Release
         /\ Tail(todo) \in Seq(Item) /\ D \in Seq(Item) /\ D \o Tail(todo) \in Seq(Item)
<1>1. Head(todo) \in Item /\ Tail(todo) \in Seq(Item)
  OBVIOUS
<1>2. Dependencies(r) \in Seq(Item)
  <2>1. PICK ds \in Seq(Release) : ds = Deps[r]
    BY NameFacts
  <2>2. \A i \in DOMAIN ds : <<"target", ds[i]>> \in Item
    BY DEF Item
  <2>3. [i \in DOMAIN ds |-> <<"target", ds[i]>>] \in Seq(Item)
    BY <2>2
  <2> QED
    BY <2>1, <2>3 DEF Dependencies
<1>3. <<>> \in Seq(Item)
  OBVIOUS
<1>4. D \in Seq(Item)
  BY <1>2, <1>3
<1>5. D \o Tail(todo) \in Seq(Item)
  BY <1>1, <1>4
<1> QED
  BY <1>1, <1>4, <1>5 DEF Item

LEMMA PackagesType ==
  ASSUME NEW f \in Feeds
  PROVE  /\ f \in Seq(Release) /\ Packages(f) \in Seq(Item)
         /\ \A i \in DOMAIN Packages(f) : Packages(f)[i][1] = "source"
<1>1. PICK g \in Seq(Release) : g = f
  BY CronPythonAssumption
<1>2. \A i \in DOMAIN g : <<"source", g[i]>> \in Item
  BY DEF Item
<1>3. [i \in DOMAIN g |-> <<"source", g[i]>>] \in Seq(Item)
  BY <1>2
<1> QED
  BY <1>1, <1>3 DEF Packages

\* The agenda after a package: its dependencies, then packages only.
LEMMA AgendaSource ==
  ASSUME NEW r \in Release, NEW todo \in Seq(Item), todo # <<>>, NEW source, NEW id, NEW G,
         Agenda(todo, source, G), Head(todo)[1] = "source", <<id, r>> \in G,
         NEW D \in {<<>>, Dependencies(r)}
  PROVE  Agenda(D \o Tail(todo), id, G)
<1>1. PICK n \in Nat : n = Len(todo) /\ n > 0 /\ DOMAIN todo = 1 .. n
  OBVIOUS
<1>2. \A i \in 1 .. n : todo[i][1] = "source"
  <2>1. todo[1][1] = "source"
    OBVIOUS
  <2>2. \A i \in 1 .. n : todo[i] \in Item
    BY <1>1
  <2>3. ASSUME NEW i \in 1 .. n, todo[i][1] = "target" PROVE FALSE
    <3>1. 1 \in 1 .. n /\ (i = 1 \/ 1 < i)
      BY <1>1
    <3>2. 1 < i => todo[1][1] = "target"
      BY <1>1, <2>3, <3>1 DEF Agenda
    <3> QED
      BY <2>1, <2>3, <3>1, <3>2
  <2> QED
    BY <2>2, <2>3 DEF Item
<1>3. PICK T \in Seq(Item) : T = Tail(todo)
  BY TodoType
<1>4. \A i \in DOMAIN T : T[i][1] = "source"
  BY <1>1, <1>2, <1>3
<1>5. D \in Seq(Item)
  BY TodoType
<1>6. \A i \in DOMAIN D : D[i][1] = "target" /\ D[i][2] \in Range(Deps[r])
  BY DEF Dependencies, Range
<1>7. PICK d \in Nat : d = Len(D) /\ DOMAIN D = 1 .. d
  BY <1>5
<1>8. PICK t \in Nat : t = Len(T) /\ DOMAIN T = 1 .. t
  OBVIOUS
<1>9. PICK S : S = D \o T
  OBVIOUS
<1>10. /\ DOMAIN S = 1 .. (d + t)
       /\ \A i \in 1 .. (d + t) : i <= d => S[i] = D[i]
       /\ \A i \in 1 .. (d + t) : i > d => S[i] = T[i - d] /\ i - d \in 1 .. t
  BY <1>5, <1>7, <1>8, <1>9
<1>11. /\ \A i \in 1 .. (d + t) : i <= d => S[i][1] = "target" /\ S[i][2] \in Range(Deps[r])
       /\ \A i \in 1 .. (d + t) : i > d => S[i][1] = "source"
  <2>1. ASSUME NEW i \in 1 .. (d + t), i <= d
        PROVE  S[i][1] = "target" /\ S[i][2] \in Range(Deps[r])
    <3>1. i \in DOMAIN D /\ S[i] = D[i]
      BY <1>7, <1>10, <2>1
    <3> QED
      BY <1>6, <3>1
  <2>2. ASSUME NEW i \in 1 .. (d + t), i > d PROVE S[i][1] = "source"
    <3>1. i - d \in DOMAIN T /\ S[i] = T[i - d]
      BY <1>8, <1>10, <2>2
    <3> QED
      BY <1>4, <3>1
  <2> QED
    BY <2>1, <2>2
<1>12. \A i \in DOMAIN S : S[i][1] = "target" => i <= d /\ S[i][2] \in Range(Deps[r])
  BY <1>10, <1>11
<1>13. \A i \in DOMAIN S : S[i][1] = "target" =>
         \A j \in DOMAIN S : j < i => S[j][1] = "target"
  BY <1>10, <1>11, <1>12
<1> QED
  BY <1>3, <1>9, <1>12, <1>13 DEF Agenda

\* The agenda after a dependency, which is one of the package before it.
LEMMA AgendaTarget ==
  ASSUME NEW todo \in Seq(Item), todo # <<>>, NEW source, NEW G, Agenda(todo, source, G),
         Head(todo)[1] = "target"
  PROVE  /\ Agenda(Tail(todo), source, G)
         /\ \E r \in Release : <<source, r>> \in G /\ Head(todo)[2] \in Range(Deps[r])
<1>1. PICK n \in Nat : n = Len(todo) /\ n > 0 /\ DOMAIN todo = 1 .. n
  OBVIOUS
<1>2. todo[1][1] = "target" /\ 1 \in DOMAIN todo /\ Head(todo) = todo[1]
  BY <1>1
<1>3. PICK r \in Release : /\ <<source, r>> \in G
                           /\ \A i \in DOMAIN todo : todo[i][1] = "target" =>
                                                      todo[i][2] \in Range(Deps[r])
  BY <1>2 DEF Agenda
<1>4. PICK T \in Seq(Item) : T = Tail(todo)
  <2>1. Tail(todo) \in Seq(Item)
    OBVIOUS
  <2> QED
    BY <2>1
<1>5. \A i \in DOMAIN T : T[i] = todo[i + 1] /\ i + 1 \in DOMAIN todo /\ i \in Nat
  BY <1>1, <1>4
<1>6. \A i \in DOMAIN T : T[i][1] = "target" => T[i][2] \in Range(Deps[r])
  BY <1>3, <1>5
<1>7. ASSUME NEW i \in DOMAIN T, T[i][1] = "target", NEW j \in DOMAIN T, j < i
      PROVE  T[j][1] = "target"
  <2>1. i + 1 \in DOMAIN todo /\ j + 1 \in DOMAIN todo /\ j + 1 < i + 1
    BY <1>5, <1>7
  <2>2. todo[i + 1][1] = "target"
    BY <1>5, <1>7
  <2>3. todo[j + 1][1] = "target"
    BY <2>1, <2>2 DEF Agenda
  <2> QED
    BY <1>5, <2>3
<1> QED
  BY <1>2, <1>3, <1>4, <1>6, <1>7 DEF Agenda

LEMMA GivenGrows ==
  ASSUME NEW G, NEW H, G \subseteq H
  PROVE  /\ \A todo, source : Agenda(todo, source, G) => Agenda(todo, source, H)
         /\ \A e : IsDepend(e, G) => IsDepend(e, H)
         /\ \A e : IsBelong2(e, G) => IsBelong2(e, H)
<1>1. ASSUME NEW todo, NEW source, Agenda(todo, source, G) PROVE Agenda(todo, source, H)
  BY <1>1 DEF Agenda
<1>2. \A e : IsDepend(e, G) => IsDepend(e, H)
  BY DEF IsDepend
<1>3. \A e : IsBelong2(e, G) => IsBelong2(e, H)
  BY DEF IsBelong2
<1> QED
  BY <1>1, <1>2, <1>3

\* What a step leaves of the record t of its tick, once its release has an id.
Proceeds(u, t) ==
  /\ u \in Tick
  /\ u.pc = t.pc /\ u.nodes = t.nodes /\ u.belongs = t.belongs
  /\ u.libraryID = t.libraryID /\ u.releaseID = t.releaseID

LEMMA ProceedFacts ==
  ASSUME NEW t \in Tick, t.todo # <<>>, NEW kind, NEW r, NEW id \in Nat, NEW G,
         kind = Head(t.todo)[1], r = Head(t.todo)[2], <<id, r>> \in G,
         Agenda(t.todo, t.source, G), \A e \in t.depends : IsDepend(e, G),
         Proceed(kind, r, id, t)
  PROVE  /\ Proceeds(tick', t)
         /\ Agenda(tick'.todo, tick'.source, G)
         /\ \A e \in tick'.depends : IsDepend(e, G)
<1>1. PICK todo \in Seq(Item) : todo = t.todo
  BY DEF Tick
<1>2. kind \in {"source", "target"} /\ r \in Release /\ Tail(todo) \in Seq(Item)
  <2>1. Head(todo) \in Item /\ Tail(todo) \in Seq(Item)
    BY <1>1
  <2> QED
    BY <1>1, <2>1 DEF Item
<1>3. t.source \in Nat /\ t.depends \subseteq Nat \X Nat
  BY DEF Tick
<1>4. CASE kind = "source"
  <2>1. PICK D \in {<<>>, Dependencies(r)} :
          tick' = [t EXCEPT !.todo = D \o Tail(t.todo), !.source = id]
    BY <1>4 DEF Proceed
  <2>2. PICK S : S = D \o Tail(todo)
    OBVIOUS
  <2>3. S \in Seq(Item)
    BY <1>1, <1>2, <2>2, TodoType
  <2>4. Agenda(S, id, G)
    BY <1>1, <1>2, <1>4, <2>2, AgendaSource
  <2>5. tick' = [t EXCEPT !.todo = S, !.source = id]
    BY <1>1, <2>1, <2>2
  <2>6. /\ Proceeds(tick', t) /\ tick'.todo = S /\ tick'.source = id
        /\ tick'.depends = t.depends
    BY <2>3, <2>5 DEF Tick, Proceeds
  <2> QED
    BY <2>4, <2>6
<1>5. CASE kind = "target"
  <2>1. PICK T \in Seq(Item) : T = Tail(todo)
    BY <1>2
  <2>2. PICK e \in Nat \X Nat : e = <<t.source, id>>
    BY <1>3
  <2>3. tick' = [t EXCEPT !.todo = T, !.depends = @ \cup {e}]
    BY <1>1, <1>5, <2>1, <2>2 DEF Proceed
  <2>4. /\ Proceeds(tick', t) /\ tick'.todo = T /\ tick'.source = t.source
        /\ tick'.depends = t.depends \cup {e}
    BY <1>3, <2>3 DEF Tick, Proceeds
  <2>5. /\ Agenda(T, t.source, G)
        /\ \E q \in Release : <<t.source, q>> \in G /\ r \in Range(Deps[q])
    BY <1>1, <1>5, <2>1, AgendaTarget
  <2>6. IsDepend(e, G)
    BY <2>2, <2>5 DEF IsDepend
  <2> QED
    BY <2>4, <2>5, <2>6
<1> QED
  BY <1>2, <1>4, <1>5
-----------------------------------------------------------------------------
(* What one release does, whichever way its look-ups go.                   *)

Failed == [NoTick EXCEPT !.pc = "failed"]

LEMMA NoTickFacts ==
  /\ NoTick \in Tick /\ Failed \in Tick
  /\ NoTick.pc = "idle" /\ NoTick.nodes = {} /\ NoTick.todo = <<>>
  /\ NoTick.depends = {} /\ NoTick.belongs = {} /\ NoTick.libraryID = 0
  /\ Failed.pc = "failed" /\ Failed.nodes = {} /\ Failed.todo = <<>>
  /\ Failed.depends = {} /\ Failed.belongs = {} /\ Failed.libraryID = 0
<1>1. <<>> \in Seq(Release) /\ <<>> \in Seq(Item)
  OBVIOUS
<1>2. /\ NoTick.pc = "idle" /\ NoTick.nodes = {} /\ NoTick.todo = <<>>
      /\ NoTick.depends = {} /\ NoTick.belongs = {} /\ NoTick.libraryID = 0
  BY DEF NoTick
<1>3. /\ Failed.pc = "failed" /\ Failed.nodes = {} /\ Failed.todo = <<>>
      /\ Failed.depends = {} /\ Failed.belongs = {} /\ Failed.libraryID = 0
  BY DEF NoTick, Failed
<1>4. PICK none : none = <<>>
  OBVIOUS
<1>5. NoTick = [pc |-> "idle", feed |-> none, todo |-> none, libraryID |-> 0,
                releaseID |-> 0, source |-> 0, nodes |-> {}, depends |-> {}, belongs |-> {}]
  BY <1>4 DEF NoTick
<1>6. none \in Seq(Release) /\ none \in Seq(Item)
  BY <1>1, <1>4
<1>7. NoTick \in Tick
  BY <1>5, <1>6 DEF Tick
<1>8. Failed \in Tick
  BY <1>7 DEF Failed, Tick
<1> QED
  BY <1>2, <1>3, <1>7, <1>8

\* The pairs in S are given and cached.
Gives(S) ==
  /\ S \subseteq (Nat \ {0}) \X Name
  /\ given' = given \cup S
  /\ cache' \in [Name -> Nat]
  /\ \A n \in Name : cache'[n] = cache[n] \/ <<cache'[n], n>> \in S
  /\ missed \subseteq missed' /\ missed' \subseteq Name

\* The name n was not found, and is cached now.
Enters(n) ==
  /\ cache[n] = 0
  /\ n \in NamesOf(vertex) => n \in missed'

\* The ids that are new in the files of the tick.
NewNodes ==
  \/ UNCHANGED <<tick.nodes, tick.libraryID, tick.releaseID>>
  \/ \E r \in Release :
       /\ Enters(r) /\ tick'.releaseID = tick.releaseID + 1
       /\ \/ /\ tick'.nodes = tick.nodes \cup {<<tick.releaseID, r>>}
             /\ tick'.libraryID = tick.libraryID
          \/ \E l \in Library :
               /\ Enters(l) /\ tick'.libraryID = tick.libraryID + 1
               /\ tick'.nodes = tick.nodes \cup {<<tick.releaseID, r>>, <<tick.libraryID, l>>}

Worked ==
  /\ tick' \in Tick /\ tick'.pc = "work" /\ tick.pc = "work"
  /\ \A n \in Name : cache[n] # 0 => cache'[n] # 0
  /\ \A n \in NamesOf(tick'.nodes) : n \in NamesOf(tick.nodes) \/ cache'[n] # 0
  /\ WorkInv'
  /\ NewNodes

LEMMA LookUpType ==
  ASSUME TypeOK, NEW n \in Name, NEW id \in GetIDsFromCache(n)
  PROVE  id \in Nat /\ (id = 0 => cache[n] = 0)
BY DEF TypeOK, GetIDsFromCache, GetIDsByPrimary, Ids

\* A release that has an id.
LEMMA OldRelease ==
  ASSUME TypeOK, WorkInv, tick.pc = "work", tick.todo # <<>>, NEW kind, NEW r, NEW id \in Nat,
         kind = Head(tick.todo)[1], r = Head(tick.todo)[2], id # 0, r \in Release,
         Proceed(kind, r, id, tick), cache' = [cache EXCEPT ![r] = id],
         given' = given \cup {<<id, r>>}, missed' = missed
  PROVE  Gives({<<id, r>>}) /\ Worked
<1>1. tick \in Tick /\ cache \in [Name -> Nat] /\ r \in Name /\ missed \subseteq Name
  BY NameFacts DEF TypeOK
<1>2. Gives({<<id, r>>})
  BY <1>1 DEF Gives
<1>3. given \subseteq given' /\ <<id, r>> \in given'
  OBVIOUS
<1>4. /\ Agenda(tick.todo, tick.source, given')
      /\ \A e \in tick.depends : IsDepend(e, given')
      /\ \A e \in tick.belongs : IsBelong2(e, given')
  BY <1>3, GivenGrows DEF WorkInv
<1>5. /\ Proceeds(tick', tick)
      /\ Agenda(tick'.todo, tick'.source, given')
      /\ \A e \in tick'.depends : IsDepend(e, given')
  BY <1>1, <1>3, <1>4, ProceedFacts
<1>6. WorkInv'
  BY <1>4, <1>5 DEF WorkInv, Proceeds
<1>7. \A n \in Name : cache[n] # 0 => cache'[n] # 0
  BY <1>1
<1>8. /\ tick' \in Tick /\ tick'.pc = "work"
      /\ tick'.nodes = tick.nodes /\ tick'.libraryID = tick.libraryID
      /\ tick'.releaseID = tick.releaseID
  BY <1>5 DEF Proceeds
<1> QED
  BY <1>2, <1>6, <1>7, <1>8 DEF Worked, NewNodes

\* The record of the tick with the new release, and library if there is none.
NewTick(rid, r, lid, l, lib, libID) ==
  [tick EXCEPT !.releaseID = rid + 1,
     !.libraryID = IF lib = 0 THEN lid + 1 ELSE lid,
     !.nodes = @ \cup {<<rid, r>>} \cup (IF lib = 0 THEN {<<lid, l>>} ELSE {}),
     !.belongs = @ \cup {<<rid, libID>>}]

\* A release that has no id, as far as the look-up goes.
LEMMA NewRelease ==
  ASSUME TypeOK, WorkInv, tick.pc = "work", tick.todo # <<>>, NEW kind, NEW r, NEW l, NEW lib,
         kind = Head(tick.todo)[1], r = Head(tick.todo)[2], r \in Release, l = LibOf[r],
         NEW rid \in Nat, rid = tick.releaseID, rid # 0, cache[r] = 0,
         NEW lid \in Nat, lid = tick.libraryID, lid # 0, lib \in GetIDsFromCache(l),
         NEW libID, libID = IF lib = 0 THEN lid ELSE lib,
         cache' = [cache EXCEPT ![r] = rid, ![l] = libID],
         given' = given \cup {<<rid, r>>, <<libID, l>>},
         missed' = missed \cup Missed(r, 0) \cup Missed(l, lib),
         Proceed(kind, r, rid, NewTick(rid, r, lid, l, lib, libID))
  PROVE  Gives({<<rid, r>>, <<libID, l>>}) /\ Worked
<1>1. /\ tick \in Tick /\ cache \in [Name -> Nat] /\ missed \subseteq Name
      /\ r \in Name /\ l \in Name /\ l \in Library /\ r # l
  BY NameFacts DEF TypeOK
<1>2. lib \in Nat /\ (lib = 0 => cache[l] = 0)
  BY <1>1, LookUpType
<1>3. libID \in Nat /\ libID # 0
  BY <1>2
<1>4. Missed(r, 0) \subseteq Name /\ Missed(l, lib) \subseteq Name
  BY <1>1 DEF Missed
<1>5. Gives({<<rid, r>>, <<libID, l>>})
  BY <1>1, <1>3, <1>4 DEF Gives
<1>6. given \subseteq given' /\ <<rid, r>> \in given' /\ <<libID, l>> \in given'
  OBVIOUS
<1>7. PICK N : N = {<<rid, r>>} \cup (IF lib = 0 THEN {<<lid, l>>} ELSE {})
  OBVIOUS
<1>8. PICK lid2 : lid2 = IF lib = 0 THEN lid + 1 ELSE lid
  OBVIOUS
<1>9. PICK e : e = <<rid, libID>>
  OBVIOUS
<1>10. N \subseteq Nat \X Name /\ lid2 \in Nat /\ e \in Nat \X Nat /\ rid + 1 \in Nat
  BY <1>1, <1>3, <1>7, <1>8, <1>9
<1>11. PICK t : t = [tick EXCEPT !.releaseID = rid + 1, !.libraryID = lid2,
                                 !.nodes = @ \cup N, !.belongs = @ \cup {e}]
  OBVIOUS
<1>12. /\ t \in Tick /\ t.pc = "work" /\ t.todo = tick.todo /\ t.source = tick.source
       /\ t.depends = tick.depends /\ t.belongs = tick.belongs \cup {e}
       /\ t.nodes = tick.nodes \cup N /\ t.libraryID = lid2 /\ t.releaseID = rid + 1
  BY <1>1, <1>10, <1>11 DEF Tick
<1>13. Proceed(kind, r, rid, t)
  <2>1. tick.nodes \cup {<<rid, r>>} \cup (IF lib = 0 THEN {<<lid, l>>} ELSE {})
          = tick.nodes \cup N
    BY <1>7
  <2>2. t = NewTick(rid, r, lid, l, lib, libID)
    BY <1>8, <1>9, <1>11, <2>1 DEF NewTick
  <2> QED
    BY <2>2
<1>14. /\ Agenda(tick.todo, tick.source, given')
       /\ \A x \in tick.depends : IsDepend(x, given')
       /\ \A x \in tick.belongs : IsBelong2(x, given')
  BY <1>6, GivenGrows DEF WorkInv
<1>15. /\ Proceeds(tick', t)
       /\ Agenda(tick'.todo, tick'.source, given')
       /\ \A x \in tick'.depends : IsDepend(x, given')
  BY <1>6, <1>12, <1>13, <1>14, ProceedFacts
<1>16. IsBelong2(e, given')
  BY <1>6, <1>9 DEF IsBelong2
<1>17. WorkInv'
  BY <1>12, <1>14, <1>15, <1>16 DEF WorkInv, Proceeds
<1>18. /\ cache'[r] # 0 /\ cache'[l] # 0
       /\ \A n \in Name : cache[n] # 0 => cache'[n] # 0
  BY <1>1, <1>3
<1>19. /\ tick' \in Tick /\ tick'.pc = "work" /\ tick'.nodes = tick.nodes \cup N
       /\ tick'.libraryID = lid2 /\ tick'.releaseID = rid + 1
  BY <1>12, <1>15 DEF Proceeds
<1>20. \A n \in NamesOf(tick'.nodes) : n \in NamesOf(tick.nodes) \/ cache'[n] # 0
  BY <1>7, <1>18, <1>19 DEF NamesOf
<1>21. NewNodes
  <2>1. Enters(r)
    BY DEF Enters, Missed
  <2>2. CASE lib = 0
    <3>1. Enters(l)
      BY <1>2, <2>2 DEF Enters, Missed
    <3>2. /\ tick'.nodes = tick.nodes \cup {<<tick.releaseID, r>>, <<tick.libraryID, l>>}
          /\ tick'.libraryID = tick.libraryID + 1 /\ tick'.releaseID = tick.releaseID + 1
      BY <1>7, <1>8, <1>19, <2>2
    <3> QED
      BY <1>1, <2>1, <3>1, <3>2 DEF NewNodes
  <2>3. CASE lib # 0
    <3>1. /\ tick'.nodes = tick.nodes \cup {<<tick.releaseID, r>>}
          /\ tick'.libraryID = tick.libraryID /\ tick'.releaseID = tick.releaseID + 1
      BY <1>7, <1>8, <1>19, <2>3
    <3> QED
      BY <2>1, <3>1 DEF NewNodes
  <2> QED
    BY <2>2, <2>3
<1> QED
  BY <1>5, <1>17, <1>18, <1>19, <1>20, <1>21 DEF Worked

LEMMA PackageStep ==
  ASSUME IInv, Package
  PROVE  \E S : Gives(S) /\ (tick' = Failed \/ Worked)
<1>1. PICK r, kind : kind = Head(tick.todo)[1] /\ r = Head(tick.todo)[2]
  OBVIOUS
<1>2. tick.pc = "work" /\ tick.todo # <<>> /\ TypeOK /\ WorkInv
  BY DEF Package, IInv
<1>3. r \in Release /\ r \in Name
  <2>1. PICK todo \in Seq(Item) : todo = tick.todo
    BY <1>2 DEF TypeOK, Tick
  <2>2. Head(todo) \in Item
    BY <1>2, <2>1
  <2> QED
    BY <1>1, <2>1, <2>2, NameFacts DEF Item
<1>4. PICK l \in Library : l = LibOf[r]
  BY <1>3, NameFacts
<1>5. PICK rid \in Nat : rid = tick.releaseID /\ rid # 0
  BY <1>2, CronPythonAssumption DEF TypeOK, Tick, IInv, NumberInv, Numbered
<1>6. PICK lid \in Nat : lid = tick.libraryID /\ lid # 0
  BY <1>2 DEF TypeOK, Tick, IInv, NumberInv, Numbered
<1>7. CASE Fail /\ UNCHANGED <<cache, given, missed>>
  <2>1. Gives({})
    BY <1>2, <1>7 DEF Gives, TypeOK
  <2> QED
    BY <1>7, <2>1 DEF Fail, Failed
<1>8. CASE HandleReleaseIfAbsent(kind, r)
  <2>1. PICK id \in GetIDsFromCache(r) :
          IF id # 0
          THEN /\ Proceed(kind, r, id, tick)
               /\ cache' = [cache EXCEPT ![r] = id]
               /\ given' = given \cup {<<id, r>>}
               /\ UNCHANGED missed
          ELSE \/ /\ Fail
                  /\ cache' = [cache EXCEPT ![r] = rid]
                  /\ given' = given \cup {<<rid, r>>}
                  /\ missed' = missed \cup Missed(r, 0)
               \/ \E lib \in GetIDsFromCache(l) :
                    LET libID == IF lib = 0 THEN lid ELSE lib IN
                    /\ cache' = [cache EXCEPT ![r] = rid, ![l] = libID]
                    /\ given' = given \cup {<<rid, r>>, <<libID, l>>}
                    /\ missed' = missed \cup Missed(r, 0) \cup Missed(l, lib)
                    /\ Proceed(kind, r, rid, NewTick(rid, r, lid, l, lib, libID))
    BY <1>4, <1>5, <1>6, <1>8 DEF HandleReleaseIfAbsent, NewTick
  <2>2. id \in Nat /\ (id = 0 => cache[r] = 0)
    BY <1>2, <1>3, LookUpType
  <2>3. CASE id # 0
    BY <1>1, <1>2, <1>3, <2>1, <2>2, <2>3, OldRelease
  <2>4. CASE /\ Fail
             /\ cache' = [cache EXCEPT ![r] = rid]
             /\ given' = given \cup {<<rid, r>>}
             /\ missed' = missed \cup Missed(r, 0)
    <3>1. Gives({<<rid, r>>})
      BY <1>2, <1>3, <1>5, <2>4 DEF Gives, Missed, TypeOK
    <3> QED
      BY <2>4, <3>1 DEF Fail, Failed
  <2>5. ASSUME id = 0, NEW lib \in GetIDsFromCache(l), NEW libID,
               libID = IF lib = 0 THEN lid ELSE lib,
               cache' = [cache EXCEPT ![r] = rid, ![l] = libID],
               given' = given \cup {<<rid, r>>, <<libID, l>>},
               missed' = missed \cup Missed(r, 0) \cup Missed(l, lib),
               Proceed(kind, r, rid, NewTick(rid, r, lid, l, lib, libID))
        PROVE  Gives({<<rid, r>>, <<libID, l>>}) /\ Worked
    BY <1>1, <1>2, <1>3, <1>4, <1>5, <1>6, <2>2, <2>5, NewRelease
  <2> QED
    BY <2>1, <2>3, <2>4, <2>5
<1> QED
  BY <1>1, <1>7, <1>8 DEF Package
-----------------------------------------------------------------------------
(* Numbering.                                                              *)

\* A set of numbers has a smallest one, which GetMaxID returns.
LEMMA LeastID ==
  ASSUME NEW S \in SUBSET Nat, S # {}
  PROVE  GetMaxID(S) \in S /\ \A i \in S : GetMaxID(S) <= i
<1> DEFINE R == OpToRel(<, Nat)
<1>1. IsWellFoundedOn(R, Nat)
  BY NatLessThanWellFounded
<1>2. \A x, y \in S : y < x => <<y, x>> \in R
  BY DEF OpToRel
<1> HIDE DEF R
<1>3. PICK x \in S : \A y \in S : ~ (<<y, x>> \in R)
  BY <1>1, WFMin
<1>4. \A y \in S : x <= y
  <2>1. \A y \in S : ~ (y < x)
    BY <1>2, <1>3
  <2> QED
    BY <2>1
<1>5. PICK m : m = CHOOSE i \in S : \A j \in S : i <= j
  OBVIOUS
<1>6. m \in S /\ \A j \in S : m <= j
  BY <1>4, <1>5
<1> QED
  BY <1>5, <1>6 DEF GetMaxID

\* The number of libraries, and what is reserved for them.
LEMMA Reserved ==
  \E all, m \in Nat : all = Cardinality(Library) /\ m = MinReleaseID /\ 2 * all <= m
<1>1. PICK all \in Nat : all = Cardinality(Library)
  BY CronPythonAssumption, FS_CardinalityType
<1> QED
  BY <1>1, CronPythonAssumption

\* Where the ids of a tick start.
LEMMA MaxIDs ==
  ASSUME TypeOK, NumberInv
  PROVE  /\ GetMaxLibraryID \in Nat
         /\ HasLibrary => GetMaxLibraryID <= Cardinality(Library)
         /\ ~HasLibrary => GetMaxLibraryID = 0
         /\ GetMaxReleaseID \in Nat /\ MinReleaseID <= GetMaxReleaseID
<1>1. PICK all, m \in Nat : all = Cardinality(Library) /\ m = MinReleaseID
  BY Reserved
<1>2. vertex \subseteq Nat \X Name
  BY DEF TypeOK
<1>3. PICK S : S = Ids({v \in vertex : v[2] \in Library})
  OBVIOUS
<1>4. S \in SUBSET Nat
  BY <1>2, <1>3 DEF Ids
<1>5. HasLibrary => S # {} /\ \E i \in S : i <= all
  BY <1>1, <1>3 DEF HasLibrary, NumberInv, LibrariesFit, Ids
<1>6. ~HasLibrary => S = {}
  BY <1>3 DEF HasLibrary, Ids
<1>7. GetMaxLibraryID = GetMaxID(S)
  BY <1>3 DEF GetMaxLibraryID
<1>8. S = {} => GetMaxID(S) = 0
  BY DEF GetMaxID
<1>9. S # {} => /\ GetMaxID(S) \in Nat
                /\ \A i \in S : GetMaxID(S) <= i
  BY <1>4, LeastID
<1>10. GetMaxLibraryID \in Nat /\ (HasLibrary => GetMaxLibraryID <= all)
       /\ (~HasLibrary => GetMaxLibraryID = 0)
  <2>1. PICK g : g = GetMaxID(S)
    OBVIOUS
  <2>2. g \in Nat
    BY <1>8, <1>9, <2>1
  <2>3. HasLibrary => \E i \in Nat : g <= i /\ i <= all
    BY <1>4, <1>5, <1>9, <2>1
  <2> QED
    BY <1>6, <1>7, <1>8, <2>1, <2>2, <2>3
<1>11. PICK T : T = Ids({v \in vertex : v[2] \in Release})
  OBVIOUS
<1>12. T \in SUBSET Nat /\ \A i \in T : m < i
  BY <1>1, <1>2, <1>11 DEF Ids, NumberInv, Numbered
<1>13. PICK id : id = GetMaxID(T)
  OBVIOUS
<1>14. id = 0 \/ (id \in Nat /\ m < id)
  <2>1. CASE T = {}
    BY <1>13, <2>1 DEF GetMaxID
  <2>2. CASE T # {}
    BY <1>12, <1>13, <2>2, LeastID
  <2> QED
    BY <2>1, <2>2
<1>15. GetMaxReleaseID = IF id = 0 THEN m ELSE id
  BY <1>1, <1>11, <1>13 DEF GetMaxReleaseID
<1> QED
  BY <1>1, <1>10, <1>14, <1>15

\* The vertices of kind K are old ones or rows of the tick, which is over or goes on.
LEMMA NumberedKeeps ==
  ASSUME NEW K, NEW b, NEW next, Numbered(K, b, next), NEW next2,
         \A v \in vertex' : v[2] \in K => v \in vertex \cup tick.nodes,
         \/ tick'.nodes = {} /\ tick'.pc # "work"
         \/ /\ tick'.nodes = tick.nodes /\ next2 = next
            /\ tick'.pc = "work" => tick.pc = "work"
  PROVE  Numbered(K, b, next2)'
BY DEF Numbered

\* Nothing, or one more id, is given to a name of kind K.
LEMMA NumberedAdds ==
  ASSUME NEW K, NEW b \in Nat, NEW next \in Nat, Numbered(K, b, next),
         tick.pc = "work", tick'.pc = "work", vertex' = vertex, NEW next2,
         tick.nodes \subseteq Nat \X Name, tick'.nodes \subseteq Nat \X Name,
         \/ /\ next2 = next
            /\ \A v \in Nat \X Name : v[2] \in K => (v \in tick'.nodes <=> v \in tick.nodes)
         \/ \E n \in K :
              /\ next2 = next + 1 /\ n \in Name
              /\ \A v \in Nat \X Name :
                   v[2] \in K => (v \in tick'.nodes <=> v \in tick.nodes \cup {<<next, n>>})
  PROVE  Numbered(K, b, next2)'
<1>1. CASE /\ next2 = next
           /\ \A v \in Nat \X Name : v[2] \in K => (v \in tick'.nodes <=> v \in tick.nodes)
  BY <1>1 DEF Numbered
<1>2. ASSUME NEW n \in K, next2 = next + 1, n \in Name,
             \A v \in Nat \X Name :
               v[2] \in K => (v \in tick'.nodes <=> v \in tick.nodes \cup {<<next, n>>})
      PROVE  Numbered(K, b, next2)'
  <2>1. PICK x \in Nat \X Name : x = <<next, n>> /\ x[1] = next /\ x[2] = n
    <3>1. <<next, n>> \in Nat \X Name
      BY <1>2
    <3>2. PICK x : x = <<next, n>>
      OBVIOUS
    <3>3. x[1] = next /\ x[2] = n
      BY <3>2
    <3> QED
      BY <3>1, <3>2, <3>3
  <2>2. b < next
    BY DEF Numbered
  <2>3. \A v \in tick'.nodes : v[2] \in K => v \in tick.nodes \/ v = x
    BY <1>2, <2>1
  <2>4. \A v \in tick'.nodes : v[2] \in K => b < v[1] /\ v[1] < next2
    BY <1>2, <2>1, <2>2, <2>3 DEF Numbered
  <2>5. \A v \in vertex' \cup tick'.nodes : v[2] \in K => b < v[1]
    BY <2>4 DEF Numbered
  <2> QED
    BY <1>2, <2>2, <2>4, <2>5 DEF Numbered
<1> QED
  BY <1>1, <1>2
-----------------------------------------------------------------------------
(* The parts of the invariant.                                             *)

\* How the record of a tick changes when it does not work on a package.
Moves(pc, next) ==
  \/ tick' = Failed \/ tick' = NoTick
  \/ tick.pc = pc /\ tick' = [tick EXCEPT !.pc = next]

LEMMA MovesFacts ==
  ASSUME TypeOK, NEW pc, NEW next, Moves(pc, next),
         next \in {"depend", "belong2", "library", "release", "degrees", "done"},
         tick.pc = "work" => tick.todo = <<>>
  PROVE  /\ tick' \in Tick /\ tick'.todo = <<>>
         /\ \/ /\ tick'.nodes = {} /\ tick'.depends = {} /\ tick'.belongs = {}
               /\ tick'.libraryID = 0 /\ tick'.pc \in {"idle", "failed"}
            \/ /\ tick.pc = pc /\ tick'.pc = next
               /\ tick'.nodes = tick.nodes /\ tick'.depends = tick.depends
               /\ tick'.belongs = tick.belongs
               /\ tick'.libraryID = tick.libraryID /\ tick'.releaseID = tick.releaseID
               /\ tick'.source = tick.source
<1>1. CASE tick' = Failed \/ tick' = NoTick
  BY <1>1, NoTickFacts
<1>2. CASE tick.pc = pc /\ tick' = [tick EXCEPT !.pc = next]
  <2>1. tick \in Tick /\ tick.todo = <<>>
    BY DEF TypeOK
  <2> QED
    BY <1>2, <2>1 DEF Tick
<1> QED
  BY <1>1, <1>2 DEF Moves

\* What a step is, apart from what it does to vertices and edges.
LEMMA StepCases ==
  ASSUME IInv, Next
  PROVE  \/ Start
         \/ Package
         \/ Moves("work", "depend") /\ AddSources
         \/ /\ UpdateGraph
            /\ \/ Moves("depend", "belong2") /\ tick.pc = "depend"
               \/ Moves("belong2", "library") /\ tick.pc = "belong2"
               \/ Moves("library", "release") /\ tick.pc = "library"
               \/ Moves("release", "degrees") /\ tick.pc = "release"
         \/ Moves("degrees", "done") /\ AddDegrees
         \/ Moves("none", "done") /\ Restart
         \/ \E n \in Name : Expire(n)
BY DEF Next, AddSources, UpdateGraph, AddDegrees, Restart, Moves, Goto, Fail, Failed

LEMMA StartFacts ==
  ASSUME IInv, Start
  PROVE  \/ tick' = Failed
         \/ /\ tick' \in Tick /\ tick'.pc = "work" /\ tick'.nodes = {}
            /\ tick'.depends = {} /\ tick'.belongs = {}
            /\ tick'.libraryID = GetMaxLibraryID + 1
            /\ tick'.releaseID = GetMaxReleaseID + 1
            /\ \A i \in DOMAIN tick'.todo : tick'.todo[i][1] = "source"
<1>1. PICK lid, rid : lid = GetMaxLibraryID + 1 /\ rid = GetMaxReleaseID + 1
  OBVIOUS
<1>2. lid \in Nat /\ rid \in Nat
  BY <1>1, MaxIDs, CronPythonAssumption DEF IInv
<1>3. ASSUME NEW f \in Feeds,
             tick' = [NoTick EXCEPT !.pc = "work", !.feed = f, !.todo = Packages(f),
                                    !.libraryID = lid, !.releaseID = rid]
      PROVE  /\ tick' \in Tick /\ tick'.pc = "work" /\ tick'.nodes = {}
             /\ tick'.depends = {} /\ tick'.belongs = {}
             /\ tick'.libraryID = lid /\ tick'.releaseID = rid
             /\ tick'.todo = Packages(f)
  <2>1. PICK g \in Seq(Release) : g = f
    BY PackagesType
  <2>2. PICK todo \in Seq(Item) : todo = Packages(f)
    BY PackagesType
  <2>3. tick' = [NoTick EXCEPT !.pc = "work", !.feed = g, !.todo = todo,
                               !.libraryID = lid, !.releaseID = rid]
    BY <1>3, <2>1, <2>2
  <2> QED
    BY <1>2, <2>2, <2>3, NoTickFacts DEF Tick
<1>4. CASE Fail
  BY <1>4 DEF Fail, Failed
<1>5. CASE \E f \in Feeds :
             tick' = [NoTick EXCEPT !.pc = "work", !.feed = f, !.todo = Packages(f),
                                    !.libraryID = lid, !.releaseID = rid]
  <2>1. PICK f \in Feeds :
          tick' = [NoTick EXCEPT !.pc = "work", !.feed = f, !.todo = Packages(f),
                                 !.libraryID = lid, !.releaseID = rid]
    BY <1>5
  <2>2. PICK todo : todo = Packages(f)
    OBVIOUS
  <2>3. \A i \in DOMAIN todo : todo[i][1] = "source"
    BY <2>2, PackagesType
  <2>4. /\ tick' \in Tick /\ tick'.pc = "work" /\ tick'.nodes = {}
        /\ tick'.depends = {} /\ tick'.belongs = {}
        /\ tick'.libraryID = lid /\ tick'.releaseID = rid
        /\ tick'.todo = todo
    BY <1>3, <2>1, <2>2
  <2> QED
    BY <1>1, <2>3, <2>4
<1>6. Fail \/ \E f \in Feeds :
        tick' = [NoTick EXCEPT !.pc = "work", !.feed = f, !.todo = Packages(f),
                               !.libraryID = lid, !.releaseID = rid]
  BY <1>1 DEF Start
<1> QED
  BY <1>4, <1>5, <1>6

LEMMA TypeOKStep == IInv /\ [Next]_vars => TypeOK'
<1> SUFFICES ASSUME IInv, [Next]_vars PROVE TypeOK'
  OBVIOUS
<1>1. TypeOK /\ (tick.pc = "work" \/ tick.todo = <<>>)
  BY DEF IInv, TypeOK
<1>2. CASE Start
  <2>1. tick' \in Tick /\ (tick'.pc = "work" \/ tick'.todo = <<>>)
    BY <1>2, StartFacts, NoTickFacts
  <2>2. ticks' \in 0 .. MaxTicks
    <3>1. ticks \in 0 .. MaxTicks /\ ticks < MaxTicks /\ ticks' = ticks + 1
      BY <1>1, <1>2 DEF Start, TypeOK
    <3> QED
      BY <3>1, CronPythonAssumption
  <2>3. UNCHANGED <<vertex, depend, belong2, cache, given, missed>>
    BY <1>2 DEF Start
  <2> QED
    BY <1>1, <2>1, <2>2, <2>3 DEF TypeOK
<1>3. CASE Package
  <2>1. PICK S : Gives(S) /\ (tick' = Failed \/ Worked)
    BY <1>3, PackageStep
  <2> QED
    BY <1>1, <1>3, <2>1, NoTickFacts DEF Package, Gives, Worked, TypeOK
<1>4. ASSUME NEW pc, NEW next, Moves(pc, next),
             next \in {"depend", "belong2", "library", "release", "degrees", "done"},
             tick.pc = "work" => tick.todo = <<>>,
             vertex' \subseteq Nat \X Name, depend' \subseteq Nat \X Nat,
             belong2' \subseteq Nat \X Nat, cache' \in [Name -> Nat],
             UNCHANGED <<ticks, given, missed>>
      PROVE  TypeOK'
  <2>1. tick' \in Tick /\ tick'.todo = <<>>
    BY <1>1, <1>4, MovesFacts
  <2> QED
    BY <1>1, <1>4, <2>1 DEF TypeOK
<1>5. /\ tick.depends \subseteq Nat \X Nat /\ tick.belongs \subseteq Nat \X Nat
      /\ tick.nodes \subseteq Nat \X Name /\ vertex \subseteq Nat \X Name
      /\ depend \subseteq Nat \X Nat /\ belong2 \subseteq Nat \X Nat
      /\ cache \in [Name -> Nat]
  BY <1>1 DEF TypeOK, Tick
<1>6. CASE AddSources /\ Moves("work", "depend")
  BY <1>4, <1>5, <1>6 DEF AddSources
<1>7. CASE UpdateGraph /\ \/ Moves("depend", "belong2") /\ tick.pc = "depend"
                          \/ Moves("belong2", "library") /\ tick.pc = "belong2"
                          \/ Moves("library", "release") /\ tick.pc = "library"
                          \/ Moves("release", "degrees") /\ tick.pc = "release"
  <2>1. /\ vertex' \subseteq Nat \X Name /\ depend' \subseteq Nat \X Nat
        /\ belong2' \subseteq Nat \X Nat /\ UNCHANGED <<cache, ticks, given, missed>>
    BY <1>5, <1>7 DEF UpdateGraph, Upsert, RowsOf
  <2> QED
    BY <1>4, <1>5, <1>7, <2>1
<1>8. CASE AddDegrees /\ Moves("degrees", "done")
  BY <1>4, <1>5, <1>8 DEF AddDegrees
<1>9. CASE Restart
  BY <1>1, <1>9, NoTickFacts DEF Restart, TypeOK
<1>10. ASSUME NEW n \in Name, Expire(n) PROVE TypeOK'
  BY <1>1, <1>10 DEF Expire, TypeOK
<1>11. CASE UNCHANGED vars
  BY <1>1, <1>11 DEF vars, TypeOK
<1> QED
  BY <1>2, <1>3, <1>6, <1>7, <1>8, <1>9, <1>10, <1>11, StepCases

LEMMA CacheInvStep == IInv /\ [Next]_vars => CacheInv'
<1> SUFFICES ASSUME IInv, [Next]_vars PROVE CacheInv'
  OBVIOUS
<1>1. TypeOK /\ CacheInv /\ cache \in [Name -> Nat]
  BY DEF IInv, TypeOK
<1>2. ASSUME UNCHANGED <<cache, given>>,
             tick'.nodes = {} \/ tick'.nodes = tick.nodes
      PROVE  CacheInv'
  BY <1>1, <1>2 DEF CacheInv, NamesOf
<1>3. CASE Start
  BY <1>2, <1>3, StartFacts, NoTickFacts DEF Start
<1>4. CASE Package
  <2>1. PICK S : Gives(S) /\ (tick' = Failed \/ Worked)
    BY <1>4, PackageStep
  <2>2. \A n \in Name : cache'[n] # 0 => <<cache'[n], n>> \in given'
    BY <1>1, <2>1 DEF Gives, CacheInv
  <2>3. \A n \in NamesOf(tick'.nodes) : cache'[n] # 0
    <3>1. CASE tick' = Failed
      BY <3>1, NoTickFacts DEF NamesOf
    <3>2. CASE Worked
      <4>1. NamesOf(tick.nodes) \subseteq Name
        BY <1>1 DEF TypeOK, Tick, NamesOf
      <4> QED
        BY <1>1, <3>2, <4>1 DEF Worked, CacheInv
    <3> QED
      BY <2>1, <3>1, <3>2
  <2> QED
    BY <2>2, <2>3 DEF CacheInv
<1>5. ASSUME NEW pc, NEW next, Moves(pc, next), UNCHANGED <<cache, given>> PROVE CacheInv'
  <2>1. tick'.nodes = {} \/ tick'.nodes = tick.nodes
    BY <1>1, <1>5, NoTickFacts DEF Moves, TypeOK, Tick
  <2> QED
    BY <1>2, <1>5, <2>1
<1>6. CASE Restart
  BY <1>6, NoTickFacts DEF Restart, CacheInv, NamesOf
<1>7. ASSUME NEW n \in Name, Expire(n) PROVE CacheInv'
  <2>1. NamesOf(tick.nodes) \subseteq Name
    BY <1>1 DEF TypeOK, Tick, NamesOf
  <2> QED
    BY <1>1, <1>7, <2>1 DEF Expire, CacheInv
<1>8. CASE UNCHANGED vars
  BY <1>2, <1>8 DEF vars
<1> QED
  BY <1>3, <1>4, <1>5, <1>6, <1>7, <1>8, StepCases DEF AddSources, UpdateGraph, AddDegrees

LEMMA WorkInvStep == IInv /\ [Next]_vars => WorkInv' /\ EdgesJoinWhatDepends'
<1> SUFFICES ASSUME IInv, [Next]_vars PROVE WorkInv' /\ EdgesJoinWhatDepends'
  OBVIOUS
<1>1. TypeOK /\ WorkInv /\ EdgesJoinWhatDepends
  BY DEF IInv
<1>2. \A source, G : Agenda(<<>>, source, G)
  BY DEF Agenda
<1>3. /\ \A e \in depend : IsDepend(e, given)
      /\ \A e \in belong2 : IsBelong2(e, given)
      /\ 0 \notin Ids(given)
  BY <1>1 DEF EdgesJoinWhatDepends, IsDepend, IsBelong2
<1>4. ASSUME \A e \in depend' : IsDepend(e, given'), \A e \in belong2' : IsBelong2(e, given'),
             0 \notin Ids(given')
      PROVE  EdgesJoinWhatDepends'
  BY <1>4 DEF EdgesJoinWhatDepends, IsDepend, IsBelong2
<1>5. CASE Start
  <2>1. UNCHANGED <<depend, belong2, given>>
    BY <1>5 DEF Start
  <2>2. WorkInv'
    <3>1. CASE tick' = Failed
      BY <1>2, <3>1, NoTickFacts DEF WorkInv
    <3>2. CASE /\ tick'.depends = {} /\ tick'.belongs = {}
               /\ \A i \in DOMAIN tick'.todo : tick'.todo[i][1] = "source"
      BY <3>2 DEF WorkInv, Agenda
    <3> QED
      BY <1>5, <3>1, <3>2, StartFacts
  <2> QED
    BY <1>3, <1>4, <2>1, <2>2
<1>6. CASE Package
  <2>1. PICK S : Gives(S) /\ (tick' = Failed \/ Worked)
    BY <1>6, PackageStep
  <2>2. given \subseteq given' /\ UNCHANGED <<depend, belong2>>
    BY <1>6, <2>1 DEF Gives, Package
  <2>3. 0 \notin Ids(given')
    BY <1>3, <2>1 DEF Gives, Ids
  <2>4. (\A e \in depend' : IsDepend(e, given')) /\ (\A e \in belong2' : IsBelong2(e, given'))
    BY <1>3, <2>2, GivenGrows
  <2>5. WorkInv'
    BY <1>2, <2>1, NoTickFacts DEF WorkInv, Worked
  <2> QED
    BY <1>4, <2>3, <2>4, <2>5
<1>7. ASSUME NEW pc, NEW next, Moves(pc, next), tick.pc = "work" => tick.todo = <<>>,
             next \in {"depend", "belong2", "library", "release", "degrees", "done"},
             given' = given, depend' \subseteq depend \cup tick.depends,
             belong2' \subseteq belong2 \cup tick.belongs
      PROVE  WorkInv' /\ EdgesJoinWhatDepends'
  <2>1. /\ tick'.todo = <<>>
        /\ tick'.depends \subseteq tick.depends /\ tick'.belongs \subseteq tick.belongs
    BY <1>1, <1>7, MovesFacts
  <2>2. WorkInv'
    BY <1>1, <1>2, <1>7, <2>1 DEF WorkInv
  <2> QED
    BY <1>1, <1>3, <1>4, <1>7, <2>2 DEF WorkInv
<1>8. tick.pc # "work" => tick.todo = <<>>
  BY <1>1 DEF TypeOK
<1>9. CASE AddSources /\ Moves("work", "depend")
  BY <1>7, <1>9 DEF AddSources
<1>10. CASE UpdateGraph /\ \/ Moves("depend", "belong2") /\ tick.pc = "depend"
                           \/ Moves("belong2", "library") /\ tick.pc = "belong2"
                           \/ Moves("library", "release") /\ tick.pc = "library"
                           \/ Moves("release", "degrees") /\ tick.pc = "release"
  <2>1. /\ given' = given /\ depend' \subseteq depend \cup tick.depends
        /\ belong2' \subseteq belong2 \cup tick.belongs
    BY <1>10 DEF UpdateGraph
  <2> QED
    BY <1>7, <1>10, <2>1
<1>11. CASE AddDegrees /\ Moves("degrees", "done")
  BY <1>7, <1>11 DEF AddDegrees
<1>12. CASE Restart
  <2>1. UNCHANGED <<depend, belong2, given>> /\ tick' = NoTick
    BY <1>12 DEF Restart
  <2>2. WorkInv'
    BY <1>2, <2>1, NoTickFacts DEF WorkInv
  <2> QED
    BY <1>3, <1>4, <2>1, <2>2
<1>13. CASE UNCHANGED <<depend, belong2, tick, given>>
  <2>1. WorkInv'
    BY <1>1, <1>13 DEF WorkInv
  <2> QED
    BY <1>3, <1>4, <1>13, <2>1
<1> QED
  BY <1>5, <1>6, <1>9, <1>10, <1>11, <1>12, <1>13, StepCases DEF Expire, vars

\* The libraries among the names of a tick, counted.
LEMMA NewLibraries ==
  ASSUME NEW nodes
  PROVE  /\ IsFiniteSet(NamesOf(nodes) \cap Library)
         /\ Cardinality(NamesOf(nodes) \cap Library) \in 0 .. Cardinality(Library)
<1>1. PICK A : A = NamesOf(nodes) \cap Library
  OBVIOUS
<1>2. A \subseteq Library
  BY <1>1
<1>3. PICK all \in Nat : all = Cardinality(Library)
  BY Reserved
<1>4. IsFiniteSet(A) /\ Cardinality(A) \in Nat /\ Cardinality(A) <= all
  BY <1>2, <1>3, FS_Subset, FS_CardinalityType, CronPythonAssumption
<1> QED
  BY <1>1, <1>3, <1>4

\* The libraries fit below the releases.
IdsFit == \A v \in vertex \cup tick.nodes : v[2] \in Library => v[1] <= MinReleaseID

LEMMA LibraryIdsFit == TypeOK /\ NumberInv => IdsFit
<1> SUFFICES ASSUME TypeOK, NumberInv PROVE IdsFit
  OBVIOUS
<1>1. PICK all, m \in Nat : all = Cardinality(Library) /\ m = MinReleaseID /\ 2 * all <= m
  BY Reserved
<1>2. PICK c \in Nat : c = Cardinality(NamesOf(tick.nodes) \cap Library) /\ c <= all
  <2>1. PICK c : c = Cardinality(NamesOf(tick.nodes) \cap Library)
    OBVIOUS
  <2>2. c \in 0 .. all
    BY <1>1, <2>1, NewLibraries
  <2> QED
    BY <2>1, <2>2
<1>3. ASSUME NEW v \in tick.nodes, v[2] \in Library PROVE v[1] <= m
  <2>1. tick.libraryID \in Nat /\ v[1] \in Nat
    BY DEF TypeOK, Tick
  <2>2. v[1] < tick.libraryID /\ tick.libraryID <= 1 + all + c
    BY <1>1, <1>2, <1>3 DEF NumberInv, Numbered, LibrariesFit
  <2> QED
    BY <1>1, <1>2, <2>1, <2>2
<1> QED
  BY <1>1, <1>3 DEF NumberInv, LibrariesFit, IdsFit

LEMMA LibraryIdsFitNext == TypeOK' /\ NumberInv' => IdsFit'
<1> QED
  BY LibraryIdsFit, PTL

\* Writing vertices of one kind leaves those of the other.
LEMMA OtherKind ==
  ASSUME TypeOK, NumberInv, NEW W, vertex' = Upsert(W)
  PROVE  /\ W \subseteq RowsOf(Library) =>
              \A v : v[2] \in Release => (v \in vertex' <=> v \in vertex)
         /\ W \subseteq RowsOf(Release) =>
              \A v : v[2] \in Library => (v \in vertex' <=> v \in vertex)
<1>1. \A v \in vertex \cup tick.nodes : v[1] \in Nat
  BY DEF TypeOK, Tick
<1>2. \A v \in vertex \cup tick.nodes : v[2] \in Library => v[1] <= MinReleaseID
  BY LibraryIdsFit DEF IdsFit
<1>3. \A v \in vertex \cup tick.nodes : v[2] \in Release => MinReleaseID < v[1]
  BY DEF NumberInv, Numbered
<1>4. \A v, w \in vertex \cup tick.nodes :
        v[2] \in Library /\ w[2] \in Release => v[1] # w[1] /\ v[2] # w[2]
  <2>1. ASSUME NEW v \in vertex \cup tick.nodes, NEW w \in vertex \cup tick.nodes,
               v[2] \in Library, w[2] \in Release
        PROVE  v[1] # w[1] /\ v[2] # w[2]
    <3>1. PICK a, b : a = v[1] /\ b = w[1]
      OBVIOUS
    <3>2. a \in Nat /\ b \in Nat /\ a <= MinReleaseID /\ MinReleaseID < b /\ MinReleaseID \in Nat
      BY <1>1, <1>2, <1>3, <2>1, <3>1, CronPythonAssumption
    <3> QED
      BY <2>1, <3>1, <3>2, CronPythonAssumption
  <2> QED
    BY <2>1
<1>5. Release \cap Library = {}
  BY CronPythonAssumption
<1> QED
  BY <1>4, <1>5 DEF Upsert, Ids, RowsOf

\* Writing libraries, all or some, leaves or brings one with a small id.
LEMMA SmallLibrary ==
  ASSUME TypeOK, NumberInv, tick.pc = "library", NEW W \in SUBSET RowsOf(Library),
         vertex' = Upsert(W), \E v \in vertex' : v[2] \in Library
  PROVE  \E v \in vertex' : v[2] \in Library /\ v[1] <= Cardinality(Library)
<1>1. PICK all \in Nat : all = Cardinality(Library)
  BY Reserved
<1>2. vertex' = {v \in vertex : v[1] \notin Ids(W)} \cup W
  BY DEF Upsert
<1>3. CASE HasLibrary
  <2>1. PICK v \in vertex : v[2] \in Library /\ v[1] <= all
    BY <1>1, <1>3 DEF NumberInv, LibrariesFit
  <2>2. CASE v[1] \in Ids(W)
    <3>1. PICK w \in W : w[1] = v[1]
      BY <2>2 DEF Ids
    <3>2. w[2] \in Library /\ w \in vertex'
      BY <1>2 DEF RowsOf
    <3> QED
      BY <1>1, <2>1, <3>1, <3>2
  <2> QED
    BY <1>1, <1>2, <2>1, <2>2
<1>4. CASE ~HasLibrary
  <2>1. PICK v \in W : v[2] \in Library
    BY <1>2, <1>4 DEF HasLibrary
  <2>2. PICK c \in Nat : c = Cardinality(NamesOf(tick.nodes) \cap Library) /\ c <= all
    BY <1>1, NewLibraries
  <2>3. tick.libraryID <= 1 + c
    BY <1>4, <2>2 DEF NumberInv, LibrariesFit, LibraryPending
  <2>4. v[1] < tick.libraryID /\ v[1] \in Nat /\ tick.libraryID \in Nat
    BY <2>1 DEF RowsOf, NumberInv, Numbered, TypeOK, Tick
  <2>5. v[1] <= all
    BY <2>2, <2>3, <2>4
  <2> QED
    BY <1>1, <1>2, <2>1, <2>5
<1> QED
  BY <1>3, <1>4

\* How LibrariesFit survives a step.
LEMMA FitKeeps ==
  ASSUME TypeOK, NumberInv,
         \A v \in vertex' : v[2] \in Library => v \in vertex \cup tick.nodes,
         HasLibrary' => \E v \in vertex' : v[2] \in Library /\ v[1] <= Cardinality(Library),
         tick'.libraryID \in Nat,
         \/ /\ tick'.nodes = {}
            /\ HasLibrary' => tick'.libraryID <= 1 + Cardinality(Library)
            /\ ~HasLibrary' => tick'.libraryID <= 1
         \/ /\ tick'.libraryID = tick.libraryID /\ tick.nodes \subseteq tick'.nodes
            /\ tick'.pc \in LibraryPending =>
                 tick.pc \in LibraryPending /\ (HasLibrary => HasLibrary')
         \/ /\ tick'.libraryID = tick.libraryID + 1 /\ tick.nodes \subseteq tick'.nodes
            /\ \E l \in Library : l \notin NamesOf(tick.nodes) /\ l \in NamesOf(tick'.nodes)
            /\ tick.pc \in LibraryPending /\ (HasLibrary => HasLibrary')
  PROVE  LibrariesFit'
<1>1. PICK all \in Nat : all = Cardinality(Library)
  BY Reserved
<1>2. PICK A, B : A = NamesOf(tick.nodes) \cap Library /\ B = NamesOf(tick'.nodes) \cap Library
  OBVIOUS
<1>3. PICK c, d \in Nat : c = Cardinality(A) /\ d = Cardinality(B)
  BY <1>1, <1>2, NewLibraries
<1>4. IsFiniteSet(A) /\ IsFiniteSet(B)
  BY <1>2, NewLibraries
<1>5. PICK i, j \in Nat : i = tick.libraryID /\ j = tick'.libraryID
  BY DEF TypeOK, Tick
<1>6. /\ i <= 1 + all + c
      /\ tick.pc \in LibraryPending /\ ~HasLibrary => i <= 1 + c
  BY <1>1, <1>2, <1>3, <1>5 DEF NumberInv, LibrariesFit
<1>7. \A v \in vertex' : v[2] \in Library => v[1] <= MinReleaseID
  BY LibraryIdsFit DEF IdsFit
<1>8. /\ j <= 1 + all + d
      /\ tick'.pc \in LibraryPending /\ ~HasLibrary' => j <= 1 + d
  <2>1. CASE /\ tick'.nodes = {}
             /\ HasLibrary' => j <= 1 + all
             /\ ~HasLibrary' => j <= 1
    BY <1>3, <2>1
  <2>2. CASE /\ j = i /\ tick.nodes \subseteq tick'.nodes
             /\ tick'.pc \in LibraryPending =>
                  tick.pc \in LibraryPending /\ (HasLibrary => HasLibrary')
    <3>1. A \subseteq B
      BY <1>2, <2>2 DEF NamesOf
    <3>2. c <= d
      BY <1>3, <1>4, <3>1, FS_Subset
    <3> QED
      BY <1>6, <2>2, <3>2
  <2>3. ASSUME j = i + 1, tick.nodes \subseteq tick'.nodes, NEW l \in Library,
               l \notin NamesOf(tick.nodes), l \in NamesOf(tick'.nodes),
               tick.pc \in LibraryPending /\ (HasLibrary => HasLibrary')
        PROVE  /\ j <= 1 + all + d
               /\ tick'.pc \in LibraryPending /\ ~HasLibrary' => j <= 1 + d
    <3>1. A \cup {l} \subseteq B /\ l \notin A
      BY <1>2, <2>3 DEF NamesOf
    <3>2. IsFiniteSet(A \cup {l}) /\ Cardinality(A \cup {l}) = c + 1
      BY <1>3, <1>4, <3>1, FS_AddElement
    <3>3. c + 1 <= d
      BY <1>3, <1>4, <3>1, <3>2, FS_Subset
    <3> QED
      BY <1>6, <2>3, <3>3
  <2> QED
    BY <1>1, <1>5, <2>1, <2>2, <2>3
<1> QED
  BY <1>1, <1>2, <1>3, <1>5, <1>7, <1>8 DEF LibrariesFit

\* A package adds a release, and a library, or nothing.
LEMMA PackageNumbers == IInv /\ Package /\ Worked => NumberInv'
<1> SUFFICES ASSUME IInv, Package, Worked PROVE NumberInv'
  OBVIOUS
<1>1. TypeOK /\ NumberInv /\ CacheInv /\ vertex' = vertex
  BY DEF IInv, Package
<1>2. PICK lid, rid \in Nat : lid = tick.libraryID /\ rid = tick.releaseID
  BY <1>1 DEF TypeOK, Tick
<1>3. PICK lid2, rid2 \in Nat : lid2 = tick'.libraryID /\ rid2 = tick'.releaseID
  BY DEF Worked, Tick
<1>4. /\ tick.nodes \subseteq Nat \X Name /\ tick'.nodes \subseteq Nat \X Name
      /\ tick.pc = "work" /\ tick'.pc = "work"
  BY <1>1 DEF Worked, TypeOK, Tick
<1>5. \A n \in Name : Enters(n) => n \notin NamesOf(tick.nodes)
  BY <1>1 DEF Enters, CacheInv
<1>6. Numbered(Library, 0, lid) /\ Numbered(Release, MinReleaseID, rid)
  BY <1>1, <1>2 DEF NumberInv
<1>7. Release \cap Library = {} /\ Release \subseteq Name /\ Library \subseteq Name
  BY NameFacts, CronPythonAssumption
<1>8. \/ /\ lid2 = lid
         /\ \A v \in Nat \X Name : v[2] \in Library => (v \in tick'.nodes <=> v \in tick.nodes)
      \/ \E l \in Library :
           /\ lid2 = lid + 1 /\ l \in Name
           /\ \A v \in Nat \X Name : v[2] \in Library =>
                (v \in tick'.nodes <=> v \in tick.nodes \cup {<<lid, l>>})
  BY <1>2, <1>3, <1>7 DEF Worked, NewNodes
<1>9. \/ /\ rid2 = rid
         /\ \A v \in Nat \X Name : v[2] \in Release => (v \in tick'.nodes <=> v \in tick.nodes)
      \/ \E r \in Release :
           /\ rid2 = rid + 1 /\ r \in Name
           /\ \A v \in Nat \X Name : v[2] \in Release =>
                (v \in tick'.nodes <=> v \in tick.nodes \cup {<<rid, r>>})
  BY <1>2, <1>3, <1>7 DEF Worked, NewNodes
<1>10. Numbered(Library, 0, lid2)'
  BY <1>1, <1>4, <1>6, <1>8, NumberedAdds
<1>11. Numbered(Release, MinReleaseID, rid2)'
  BY <1>1, <1>4, <1>6, <1>9, NumberedAdds, CronPythonAssumption
<1>12. LibrariesFit'
  <2>1. \/ tick.nodes \subseteq tick'.nodes /\ tick'.libraryID = tick.libraryID
        \/ /\ tick.nodes \subseteq tick'.nodes
           /\ \E l \in Library : l \notin NamesOf(tick.nodes) /\ l \in NamesOf(tick'.nodes)
           /\ tick'.libraryID = tick.libraryID + 1
    <3>1. CASE \E r \in Release : \E l \in Library :
                 /\ Enters(l) /\ tick'.libraryID = tick.libraryID + 1
                 /\ tick'.nodes = tick.nodes \cup {<<tick.releaseID, r>>, <<tick.libraryID, l>>}
      <4>1. PICK r \in Release, l \in Library :
              /\ Enters(l) /\ tick'.libraryID = tick.libraryID + 1
              /\ tick'.nodes = tick.nodes \cup {<<tick.releaseID, r>>, <<tick.libraryID, l>>}
        BY <3>1
      <4>2. PICK x : x = <<tick.libraryID, l>>
        OBVIOUS
      <4>3. l \in NamesOf(tick'.nodes)
        <5>1. x[2] = l /\ x \in tick'.nodes
          BY <4>1, <4>2
        <5> QED
          BY <5>1 DEF NamesOf
      <4>4. l \notin NamesOf(tick.nodes)
        BY <1>5, <1>7, <4>1
      <4> QED
        BY <4>1, <4>3, <4>4
    <3>2. CASE \E r \in Release : /\ tick'.nodes = tick.nodes \cup {<<tick.releaseID, r>>}
                                  /\ tick'.libraryID = tick.libraryID
      BY <3>2
    <3> QED
      BY <3>1, <3>2 DEF Worked, NewNodes
  <2>2. HasLibrary' <=> HasLibrary
    BY <1>1 DEF HasLibrary
  <2>3. HasLibrary => \E v \in vertex' : v[2] \in Library /\ v[1] <= Cardinality(Library)
    BY <1>1 DEF NumberInv, LibrariesFit
  <2>4. tick.pc \in LibraryPending /\ tick'.libraryID \in Nat
    BY <1>3, <1>4 DEF LibraryPending
  <2> QED
    BY <1>1, <2>1, <2>2, <2>3, <2>4, FitKeeps
<1> QED
  BY <1>3, <1>10, <1>11, <1>12 DEF NumberInv, Numbered

LEMMA StartNumbers == IInv /\ Start => NumberInv'
<1> SUFFICES ASSUME IInv, Start PROVE NumberInv'
  OBVIOUS
<1>1. TypeOK /\ NumberInv /\ vertex' = vertex
  BY DEF IInv, Start
<1>2. PICK m, all \in Nat : m = MinReleaseID /\ all = Cardinality(Library)
  BY Reserved
<1>3. tick'.nodes = {} /\ tick'.pc \in {"work", "failed"}
  BY StartFacts, NoTickFacts
<1>4. PICK lid, rid : lid = tick'.libraryID /\ rid = tick'.releaseID
  OBVIOUS
<1>5. PICK maxL, maxR \in Nat : maxL = GetMaxLibraryID /\ maxR = GetMaxReleaseID
  BY <1>1, MaxIDs
<1>6. /\ tick'.pc = "work" => lid = maxL + 1 /\ rid = maxR + 1
      /\ tick'.pc = "failed" => lid = 0
  BY <1>4, <1>5, StartFacts, NoTickFacts
<1>7. /\ HasLibrary => maxL <= all
      /\ ~HasLibrary => maxL = 0
      /\ m <= maxR
  BY <1>1, <1>2, <1>5, MaxIDs
<1>8. Numbered(Library, 0, lid)'
  BY <1>1, <1>3, <1>6 DEF Numbered, NumberInv
<1>9. Numbered(Release, m, rid)'
  BY <1>1, <1>2, <1>3, <1>6, <1>7 DEF Numbered, NumberInv
<1>10. LibrariesFit'
  <2>1. HasLibrary' <=> HasLibrary
    BY <1>1 DEF HasLibrary
  <2>2. HasLibrary => \E v \in vertex' : v[2] \in Library /\ v[1] <= all
    BY <1>1, <1>2 DEF NumberInv, LibrariesFit
  <2>3. lid \in Nat /\ (HasLibrary => lid <= 1 + all) /\ (~HasLibrary => lid <= 1)
    BY <1>3, <1>6, <1>7
  <2> QED
    BY <1>1, <1>2, <1>3, <1>4, <2>1, <2>2, <2>3, FitKeeps
<1> QED
  BY <1>2, <1>4, <1>8, <1>9, <1>10 DEF NumberInv, Numbered

LEMMA NumberInvStep == IInv /\ [Next]_vars => NumberInv'
<1> SUFFICES ASSUME IInv, [Next]_vars PROVE NumberInv'
  OBVIOUS
<1>1. TypeOK /\ NumberInv
  BY DEF IInv
<1>2. PICK lid, rid : lid = tick.libraryID /\ rid = tick.releaseID
  OBVIOUS
<1>3. PICK lid2, rid2 : lid2 = tick'.libraryID /\ rid2 = tick'.releaseID
  OBVIOUS
<1>4. PICK m, all \in Nat : m = MinReleaseID /\ all = Cardinality(Library)
  BY Reserved
<1>5. Numbered(Library, 0, lid) /\ Numbered(Release, m, rid)
  BY <1>1, <1>2, <1>4 DEF NumberInv
<1>6. lid \in Nat /\ (HasLibrary => \E v \in vertex : v[2] \in Library /\ v[1] <= all)
  BY <1>1, <1>2, <1>4 DEF TypeOK, Tick, NumberInv, LibrariesFit
<1>7. ASSUME \A v \in vertex' : v \in vertex \cup tick.nodes,
             HasLibrary' => \E v \in vertex' : v[2] \in Library /\ v[1] <= all,
             \/ tick'.nodes = {} /\ tick'.libraryID = 0 /\ tick'.pc # "work"
             \/ /\ tick'.nodes = tick.nodes /\ lid2 = lid /\ rid2 = rid
                /\ tick'.pc = "work" => tick.pc = "work"
                /\ tick'.pc \in LibraryPending =>
                     tick.pc \in LibraryPending /\ (HasLibrary => HasLibrary')
      PROVE  NumberInv'
  <2>1. Numbered(Library, 0, lid2)'
    BY <1>5, <1>7, NumberedKeeps
  <2>2. Numbered(Release, m, rid2)'
    BY <1>5, <1>7, NumberedKeeps
  <2>3. lid2 \in Nat
    BY <1>3, <1>6, <1>7
  <2>4. LibrariesFit'
    BY <1>1, <1>2, <1>3, <1>4, <1>7, <2>3, FitKeeps
  <2> QED
    BY <1>3, <1>4, <2>1, <2>2, <2>4 DEF NumberInv, Numbered
<1>8. ASSUME vertex' = vertex,
             \/ tick'.nodes = {} /\ tick'.libraryID = 0 /\ tick'.pc # "work"
             \/ /\ tick'.nodes = tick.nodes /\ lid2 = lid /\ rid2 = rid
                /\ tick'.pc = "work" => tick.pc = "work"
                /\ tick'.pc \in LibraryPending => tick.pc \in LibraryPending
      PROVE  NumberInv'
  <2>1. HasLibrary' <=> HasLibrary
    BY <1>8 DEF HasLibrary
  <2> QED
    BY <1>6, <1>7, <1>8, <2>1
<1>9. ASSUME NEW pc, NEW next, Moves(pc, next), tick.pc = "work" => tick.todo = <<>>,
             next \in {"depend", "belong2", "library", "release", "degrees", "done"}
      PROVE  \/ tick'.nodes = {} /\ tick'.libraryID = 0 /\ tick'.pc # "work"
             \/ /\ tick.pc = pc /\ tick'.pc = next
                /\ tick'.nodes = tick.nodes /\ lid2 = lid /\ rid2 = rid
  BY <1>1, <1>2, <1>3, <1>9, MovesFacts
<1>10. tick.pc # "work" => tick.todo = <<>>
  BY <1>1 DEF TypeOK
<1>11. CASE Start
  BY <1>11, StartNumbers
<1>12. CASE Package
  <2>1. tick' = Failed \/ Worked
    BY <1>12, PackageStep
  <2>2. CASE tick' = Failed
    BY <1>8, <1>12, <2>2, NoTickFacts DEF Package
  <2> QED
    BY <1>12, <2>1, <2>2, PackageNumbers
<1>13. CASE AddSources /\ Moves("work", "depend")
  BY <1>8, <1>9, <1>13 DEF AddSources, LibraryPending
<1>14. CASE UpdateGraph /\ \/ Moves("depend", "belong2") /\ tick.pc = "depend"
                           \/ Moves("belong2", "library") /\ tick.pc = "belong2"
                           \/ Moves("library", "release") /\ tick.pc = "library"
                           \/ Moves("release", "degrees") /\ tick.pc = "release"
  <2>1. CASE Moves("depend", "belong2") /\ tick.pc = "depend"
    BY <1>8, <1>9, <1>10, <1>14, <2>1 DEF UpdateGraph, LibraryPending
  <2>2. CASE Moves("belong2", "library") /\ tick.pc = "belong2"
    BY <1>8, <1>9, <1>10, <1>14, <2>2 DEF UpdateGraph, LibraryPending
  <2>3. CASE Moves("library", "release") /\ tick.pc = "library"
    <3>1. PICK W \in SUBSET RowsOf(Library) : vertex' = Upsert(W)
      BY <1>14, <2>3 DEF UpdateGraph
    <3>2. HasLibrary' => \E v \in vertex' : v[2] \in Library /\ v[1] <= all
      BY <1>1, <1>4, <2>3, <3>1, SmallLibrary DEF HasLibrary
    <3>3. \A v \in vertex' : v \in vertex \cup tick.nodes
      BY <3>1 DEF Upsert, RowsOf
    <3> QED
      BY <1>7, <1>9, <1>10, <2>3, <3>2, <3>3 DEF LibraryPending
  <2>4. CASE Moves("release", "degrees") /\ tick.pc = "release"
    <3>1. PICK W \in SUBSET RowsOf(Release) : vertex' = Upsert(W)
      BY <1>14, <2>4 DEF UpdateGraph
    <3>2. \A v : v[2] \in Library => (v \in vertex' <=> v \in vertex)
      BY <1>1, <3>1, OtherKind
    <3>3. HasLibrary' => \E v \in vertex' : v[2] \in Library /\ v[1] <= all
      BY <1>6, <3>2 DEF HasLibrary
    <3>4. \A v \in vertex' : v \in vertex \cup tick.nodes
      BY <3>1 DEF Upsert, RowsOf
    <3> QED
      BY <1>7, <1>9, <1>10, <2>4, <3>3, <3>4 DEF LibraryPending
  <2> QED
    BY <1>14, <2>1, <2>2, <2>3, <2>4
<1>15. CASE AddDegrees /\ Moves("degrees", "done")
  BY <1>8, <1>9, <1>10, <1>15 DEF AddDegrees, LibraryPending
<1>16. CASE Restart
  BY <1>8, <1>16, NoTickFacts DEF Restart
<1>17. CASE UNCHANGED <<vertex, tick>>
  BY <1>2, <1>3, <1>8, <1>17
<1> QED
  BY <1>11, <1>12, <1>13, <1>14, <1>15, <1>16, <1>17, StepCases DEF Expire, vars

LEMMA NewIdsAreDistinctStep == IInv /\ [Next]_vars => NewIdsAreDistinct'
<1> SUFFICES ASSUME IInv, [Next]_vars PROVE NewIdsAreDistinct'
  OBVIOUS
<1>1. TypeOK /\ CacheInv /\ NumberInv /\ NewIdsAreDistinct
  BY DEF IInv
<1>2. ASSUME tick'.nodes = {} \/ tick'.nodes = tick.nodes PROVE NewIdsAreDistinct'
  BY <1>1, <1>2 DEF NewIdsAreDistinct
<1>3. CASE Start
  BY <1>2, <1>3, StartFacts, NoTickFacts
<1>4. CASE Package /\ Worked
  <2>1. \A n \in Name : Enters(n) => n \notin NamesOf(tick.nodes)
    BY <1>1 DEF Enters, CacheInv
  <2>2. PICK m, rid, lid \in Nat :
          m = MinReleaseID /\ rid = tick.releaseID /\ lid = tick.libraryID
    BY <1>1, CronPythonAssumption DEF TypeOK, Tick
  <2>3. /\ Release \cap Library = {} /\ Release \subseteq Name /\ Library \subseteq Name
        /\ Name = Release \cup Library
    BY NameFacts, CronPythonAssumption DEF Name
  <2>4. tick.nodes \subseteq Nat \X Name /\ tick.pc = "work"
    BY <1>1, <1>4 DEF TypeOK, Tick, Package
  <2>5. \A v \in tick.nodes : v[1] \in Nat /\ v[2] \in Name /\ v = <<v[1], v[2]>>
    BY <2>4
  <2>6. m < rid
    BY <1>1, <2>2, <2>4 DEF NumberInv, Numbered
  <2>7. \A v \in tick.nodes : v[2] \in Release => m < v[1] /\ v[1] < rid
    BY <1>1, <2>2 DEF NumberInv, Numbered
  <2>8. \A v \in tick.nodes : v[2] \in Library => v[1] <= m /\ v[1] < lid
    BY <1>1, <2>2, LibraryIdsFit DEF IdsFit, NumberInv, Numbered
  <2>9. \A v \in tick'.nodes : v[2] \in Library => v[1] <= m
    BY <2>2, TypeOKStep, NumberInvStep, LibraryIdsFitNext DEF IdsFit
  <2>10. ASSUME NEW r \in Release, Enters(r), NEW x, x = <<tick.releaseID, r>>
         PROVE  \A v \in tick.nodes : v[1] # x[1] /\ v[2] # x[2]
    <3>1. x[1] = rid /\ x[2] = r
      BY <2>2, <2>10
    <3>2. r \notin NamesOf(tick.nodes)
      BY <2>1, <2>3, <2>10
    <3>3. \A v \in tick.nodes : v[1] < rid
      BY <2>2, <2>3, <2>5, <2>6, <2>7, <2>8
    <3>4. \A v \in tick.nodes : v[1] # rid
      BY <2>2, <2>5, <3>3
    <3> QED
      BY <3>1, <3>2, <3>4 DEF NamesOf
  <2>11. ASSUME NEW r \in Release, Enters(r), NEW x, x = <<tick.releaseID, r>>,
                tick'.nodes = tick.nodes \cup {x}
         PROVE  NewIdsAreDistinct'
    BY <1>1, <2>10, <2>11 DEF NewIdsAreDistinct
  <2>12. ASSUME NEW r \in Release, Enters(r), NEW x, x = <<tick.releaseID, r>>,
                NEW l \in Library, Enters(l), NEW y, y = <<tick.libraryID, l>>,
                tick'.nodes = tick.nodes \cup {x, y}
         PROVE  NewIdsAreDistinct'
    <3>1. x[1] = rid /\ x[2] = r /\ y[1] = lid /\ y[2] = l
      BY <2>2, <2>12
    <3>2. lid <= m
      BY <2>9, <2>12, <3>1
    <3>3. x[1] # y[1] /\ x[2] # y[2]
      BY <2>2, <2>3, <2>6, <3>1, <3>2
    <3>4. \A v \in tick.nodes : v[1] # lid
      BY <2>2, <2>3, <2>5, <2>7, <2>8, <3>2
    <3>5. l \notin NamesOf(tick.nodes)
      BY <2>1, <2>3, <2>12
    <3>6. \A v \in tick.nodes : v[1] # y[1] /\ v[2] # y[2]
      BY <3>1, <3>4, <3>5 DEF NamesOf
    <3>7. \A v \in tick.nodes : v[1] # x[1] /\ v[2] # x[2]
      BY <2>10, <2>12
    <3> QED
      BY <1>1, <2>12, <3>3, <3>6, <3>7 DEF NewIdsAreDistinct
  <2>13. CASE UNCHANGED <<tick.nodes, tick.libraryID, tick.releaseID>>
    BY <1>2, <2>13
  <2>14. CASE \E r \in Release : Enters(r) /\ tick'.nodes = tick.nodes \cup {<<tick.releaseID, r>>}
    BY <2>11, <2>14
  <2>15. CASE \E r \in Release : /\ Enters(r)
                                 /\ \E l \in Library :
                                      /\ Enters(l)
                                      /\ tick'.nodes = tick.nodes \cup {<<tick.releaseID, r>>,
                                                                        <<tick.libraryID, l>>}
    BY <2>12, <2>15
  <2> QED
    BY <1>4, <2>13, <2>14, <2>15 DEF Worked, NewNodes
<1>5. CASE Package
  <2>1. tick' = Failed \/ Worked
    BY <1>5, PackageStep
  <2> QED
    BY <1>2, <1>4, <1>5, <2>1, NoTickFacts
<1>6. ASSUME NEW pc, NEW next, Moves(pc, next) PROVE NewIdsAreDistinct'
  <2>1. tick'.nodes = {} \/ tick'.nodes = tick.nodes
    BY <1>1, <1>6, NoTickFacts DEF Moves, TypeOK, Tick
  <2> QED
    BY <1>2, <2>1
<1>7. CASE UNCHANGED tick
  BY <1>2, <1>7
<1> QED
  BY <1>3, <1>5, <1>6, <1>7, StepCases DEF Expire, vars

\* What happens to the vertices when the tick does not read or write names.
LEMMA WriteCases ==
  ASSUME IInv, [Next]_vars, ~Package
  PROVE  /\ missed' = missed
         /\ \/ vertex' = vertex
            \/ tick.pc = "library" /\ \E W \in SUBSET RowsOf(Library) : vertex' = Upsert(W)
            \/ tick.pc = "release" /\ \E W \in SUBSET RowsOf(Release) : vertex' = Upsert(W)
         /\ \/ tick'.nodes = {}
            \/ tick'.nodes = tick.nodes /\ tick'.pc = tick.pc /\ vertex' = vertex
            \/ /\ tick'.nodes = tick.nodes /\ vertex' = vertex
               /\ tick'.pc \in ReleasePending => tick.pc \in LibraryPending
            \/ tick'.nodes = tick.nodes /\ tick.pc = "library" /\ tick'.pc = "release"
            \/ tick'.nodes = tick.nodes /\ tick.pc = "release" /\ tick'.pc = "degrees"
<1>1. TypeOK /\ (tick.pc # "work" => tick.todo = <<>>)
  BY DEF IInv, TypeOK
<1>2. ASSUME NEW pc, NEW next, Moves(pc, next), tick.pc = "work" => tick.todo = <<>>,
             next \in {"depend", "belong2", "library", "release", "degrees", "done"}
      PROVE  tick'.nodes = {} \/ (tick.pc = pc /\ tick'.pc = next /\ tick'.nodes = tick.nodes)
  BY <1>1, <1>2, MovesFacts
<1>3. CASE Start
  BY <1>3, StartFacts, NoTickFacts DEF Start
<1>4. CASE AddSources /\ Moves("work", "depend")
  BY <1>2, <1>4 DEF AddSources, LibraryPending, ReleasePending
<1>5. CASE UpdateGraph /\ tick.pc = "depend" /\ Moves("depend", "belong2")
  BY <1>1, <1>2, <1>5 DEF UpdateGraph, LibraryPending, ReleasePending
<1>6. CASE UpdateGraph /\ tick.pc = "belong2" /\ Moves("belong2", "library")
  BY <1>1, <1>2, <1>6 DEF UpdateGraph, LibraryPending, ReleasePending
<1>7. CASE UpdateGraph /\ tick.pc = "library" /\ Moves("library", "release")
  BY <1>1, <1>2, <1>7 DEF UpdateGraph
<1>8. CASE UpdateGraph /\ tick.pc = "release" /\ Moves("release", "degrees")
  BY <1>1, <1>2, <1>8 DEF UpdateGraph
<1>9. CASE AddDegrees /\ Moves("degrees", "done")
  BY <1>1, <1>2, <1>9 DEF AddDegrees, LibraryPending, ReleasePending
<1>10. CASE Restart
  BY <1>10, NoTickFacts DEF Restart
<1>11. CASE UNCHANGED <<vertex, tick, missed>>
  BY <1>11
<1> QED
  BY <1>3, <1>4, <1>5, <1>6, <1>7, <1>8, <1>9, <1>10, <1>11, StepCases DEF Expire, vars

LEMMA MissInvStep == IInv /\ [Next]_vars => MissInv'
<1> SUFFICES ASSUME IInv, [Next]_vars,
                    NEW v \in tick'.nodes, tick'.pc \in ReleasePending,
                    v[2] \in NamesOf(vertex'), tick'.pc = "release" => v[2] \in Release
             PROVE  v[2] \in missed'
  BY DEF MissInv
<1>1. TypeOK /\ NumberInv /\ MissInv /\ "work" \in ReleasePending /\ "degrees" \notin ReleasePending
      /\ "library" \in ReleasePending
  BY DEF IInv, ReleasePending, LibraryPending
<1>2. ASSUME v \in tick.nodes, tick.pc \in ReleasePending, v[2] \in NamesOf(vertex),
             tick.pc = "release" => v[2] \in Release, missed \subseteq missed'
      PROVE  v[2] \in missed'
  BY <1>1, <1>2 DEF MissInv
<1>3. CASE Package
  <2>1. vertex' = vertex
    BY <1>3 DEF Package
  <2>2. PICK S : Gives(S) /\ (tick' = Failed \/ Worked)
    BY <1>3, PackageStep
  <2>3. Worked /\ missed \subseteq missed'
    BY <2>2, NoTickFacts DEF Gives
  <2>4. tick.pc = "work"
    BY <2>3 DEF Worked
  <2>5. CASE v \in tick.nodes
    BY <1>1, <1>2, <2>1, <2>3, <2>4, <2>5
  <2>6. CASE Enters(v[2])
    BY <2>1, <2>6 DEF Enters
  <2>7. v \in tick.nodes \/ Enters(v[2])
    BY <2>3 DEF Worked, NewNodes
  <2> QED
    BY <2>5, <2>6, <2>7
<1>4. CASE ~Package
  <2>1. CASE tick.pc = "library" /\ tick'.pc = "release" /\ tick'.nodes = tick.nodes
             /\ \E W \in SUBSET RowsOf(Library) : vertex' = Upsert(W)
    <3>1. PICK w \in vertex' : w[2] = v[2]
      BY DEF NamesOf
    <3>2. w \in vertex
      BY <1>1, <2>1, <3>1, OtherKind
    <3>3. v[2] \in NamesOf(vertex)
      BY <3>1, <3>2 DEF NamesOf
    <3> QED
      BY <1>1, <1>2, <1>4, <2>1, <3>3, WriteCases
  <2>2. CASE /\ tick'.nodes = tick.nodes /\ vertex' = vertex
             /\ tick'.pc = tick.pc \/ tick.pc \in LibraryPending
    <3>1. missed' = missed
      BY <1>4, WriteCases
    <3>2. tick.pc \in LibraryPending => tick.pc \in ReleasePending /\ tick.pc # "release"
      BY DEF ReleasePending, LibraryPending
    <3> QED
      BY <1>2, <2>2, <3>1, <3>2
  <2>3. /\ \/ vertex' = vertex
           \/ tick.pc = "library" /\ \E W \in SUBSET RowsOf(Library) : vertex' = Upsert(W)
           \/ tick.pc = "release" /\ \E W \in SUBSET RowsOf(Release) : vertex' = Upsert(W)
        /\ \/ tick'.nodes = {}
           \/ tick'.nodes = tick.nodes /\ tick'.pc = tick.pc /\ vertex' = vertex
           \/ /\ tick'.nodes = tick.nodes /\ vertex' = vertex
              /\ tick'.pc \in ReleasePending => tick.pc \in LibraryPending
           \/ tick'.nodes = tick.nodes /\ tick.pc = "library" /\ tick'.pc = "release"
           \/ tick'.nodes = tick.nodes /\ tick.pc = "release" /\ tick'.pc = "degrees"
    BY <1>4, WriteCases
  <2>4. tick'.nodes # {} /\ tick'.pc # "degrees" /\ "library" \in LibraryPending
    BY <1>1 DEF LibraryPending

  <2> QED
    BY <1>1, <2>1, <2>2, <2>3, <2>4
<1> QED
  BY <1>3, <1>4

LEMMA NamesHaveOneVertexStep == IInv /\ [Next]_vars => NamesHaveOneVertex'
<1> SUFFICES ASSUME IInv, [Next]_vars PROVE NamesHaveOneVertex'
  OBVIOUS
<1>1. NamesHaveOneVertex /\ NewIdsAreDistinct /\ MissInv
  BY DEF IInv
<1>2. ASSUME NEW W, W \subseteq tick.nodes, vertex' = Upsert(W), missed' = missed,
             \A v \in W : v[2] \in NamesOf(vertex) => v[2] \in missed
      PROVE  NamesHaveOneVertex'
  <2>1. \A v \in vertex' : v \in vertex \/ v \in W
    BY <1>2 DEF Upsert
  <2>2. ASSUME NEW v \in vertex', NEW w \in vertex', v[2] = w[2]
        PROVE  v = w \/ v[2] \in missed
    <3>1. CASE v \in vertex /\ w \in vertex
      BY <1>1, <2>2, <3>1 DEF NamesHaveOneVertex
    <3>2. CASE v \in W /\ w \in W
      BY <1>1, <1>2, <2>2, <3>2 DEF NewIdsAreDistinct
    <3>3. CASE v \in vertex /\ w \in W
      BY <1>2, <2>2, <3>3 DEF NamesOf
    <3>4. CASE v \in W /\ w \in vertex
      BY <1>2, <2>2, <3>4 DEF NamesOf
    <3> QED
      BY <2>1, <3>1, <3>2, <3>3, <3>4
  <2> QED
    BY <1>2, <2>2 DEF NamesHaveOneVertex
<1>3. "library" \in ReleasePending /\ "release" \in ReleasePending
  BY DEF ReleasePending, LibraryPending
<1>4. CASE Package
  <2>1. PICK S : Gives(S)
    BY <1>4, PackageStep
  <2>2. vertex' = vertex /\ missed \subseteq missed'
    BY <1>4, <2>1 DEF Package, Gives
  <2> QED
    BY <1>1, <2>2 DEF NamesHaveOneVertex
<1>5. CASE vertex' = vertex /\ missed' = missed
  BY <1>1, <1>5 DEF NamesHaveOneVertex
<1>6. CASE /\ tick.pc = "library" /\ \E W \in SUBSET RowsOf(Library) : vertex' = Upsert(W)
           /\ missed' = missed
  BY <1>1, <1>2, <1>3, <1>6 DEF MissInv, RowsOf
<1>7. CASE /\ tick.pc = "release" /\ \E W \in SUBSET RowsOf(Release) : vertex' = Upsert(W)
           /\ missed' = missed
  BY <1>1, <1>2, <1>3, <1>7 DEF MissInv, RowsOf
<1> QED
  BY <1>4, <1>5, <1>6, <1>7, WriteCases
-----------------------------------------------------------------------------
(* The theorems.                                                           *)

LEMMA IInvInit == Init => IInv
<1> SUFFICES ASSUME Init PROVE IInv
  OBVIOUS
<1>1. NamesOf({}) = {} /\ Ids({}) = {}
  BY DEF NamesOf, Ids
<1>2. /\ vertex = {} /\ depend = {} /\ belong2 = {} /\ cache = [n \in Name |-> 0]
      /\ tick = NoTick /\ ticks = 0 /\ given = {} /\ missed = {}
  BY DEF Init
<1>3. TypeOK
  BY <1>2, NoTickFacts, CronPythonAssumption DEF TypeOK
<1>4. CacheInv
  BY <1>1, <1>2, NoTickFacts DEF CacheInv
<1>5. WorkInv
  BY <1>2, NoTickFacts DEF WorkInv, Agenda
<1>6. NumberInv
  <2>1. Numbered(Library, 0, tick.libraryID) /\ Numbered(Release, MinReleaseID, tick.releaseID)
    BY <1>2, NoTickFacts DEF Numbered
  <2>2. PICK all \in Nat : all = Cardinality(Library)
    BY Reserved
  <2>3. PICK c \in Nat : c = Cardinality(NamesOf(tick.nodes) \cap Library)
    BY <2>2, NewLibraries
  <2>4. tick.libraryID = 0 /\ ~HasLibrary
    BY <1>2, NoTickFacts DEF HasLibrary
  <2>5. tick.libraryID <= 1 + all + c /\ tick.libraryID <= 1 + c
    BY <2>4
  <2>6. LibrariesFit
    BY <1>2, <2>2, <2>3, <2>4, <2>5 DEF LibrariesFit
  <2> QED
    BY <2>1, <2>6 DEF NumberInv
<1>7. MissInv /\ NewIdsAreDistinct /\ NamesHaveOneVertex
  BY <1>2, NoTickFacts DEF MissInv, NewIdsAreDistinct, NamesHaveOneVertex
<1>8. EdgesJoinWhatDepends
  BY <1>1, <1>2 DEF EdgesJoinWhatDepends
<1> QED
  BY <1>3, <1>4, <1>5, <1>6, <1>7, <1>8 DEF IInv

LEMMA IInvStep == IInv /\ [Next]_vars => IInv'
BY TypeOKStep, CacheInvStep, WorkInvStep, NumberInvStep, MissInvStep, NewIdsAreDistinctStep,
   NamesHaveOneVertexStep DEF IInv

\* The caches, the files of a tick, its agenda and the graph agree in every
\* state: the inductive invariant of cronPython.go and its nested UpdateGraph.
THEOREM ImportInvariant == Spec => []IInv
<1> QED
  BY IInvInit, IInvStep, PTL DEF Spec

\* No two vertices have one name unless Nebula once refused to look that name up
\* (nebula_impl.go:490), whatever ticks fail, caches expire and consumers restart.
THEOREM NamesAreUnique == Spec => []NamesHaveOneVertex
<1>1. IInv => NamesHaveOneVertex
  BY DEF IInv
<1> QED
  BY <1>1, ImportInvariant, PTL

\* In the files of one tick ids and names correspond, one to one: the counters
\* of cronPython.go never meet, also when the look-ups of a library fail.
THEOREM NewIdsStayDistinct == Spec => []NewIdsAreDistinct
<1>1. IInv => NewIdsAreDistinct
  BY DEF IInv
<1> QED
  BY <1>1, ImportInvariant, PTL

\* Every edge joins ids that were given to a package and to a dependency of it,
\* and the id 0 of an absent name is never given.
THEOREM EdgesAreDependencies == Spec => []EdgesJoinWhatDepends
<1>1. IInv => EdgesJoinWhatDepends
  BY DEF IInv
<1> QED
  BY <1>1, ImportInvariant, PTL
=============================================================================
