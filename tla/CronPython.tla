----------------------------- MODULE CronPython -----------------------------
(***************************************************************************)
(* The periodic import of Python packages.  A tick reads the feed of PyPI, *)
(* asks sca for the dependencies of every package, gives new releases and  *)
(* libraries an id, and loads four files with UpdateGraph.  The ids of     *)
(* names are kept in caches of the process, which outlive the tick.        *)
(*                                                                         *)
(* Ticks run one at a time here; TaskQueue shows that they may overlap.    *)
(***************************************************************************)
EXTENDS Integers, FiniteSets, SequencesExt

CONSTANTS
  Release,        \* the releases that occur in feeds and dependencies
  Library,        \* their libraries
  LibOf,          \* LibOf[r]: the library of release r
  Deps,           \* Deps[r]: the dependencies that sca finds for r
  Feeds,          \* what the feed of PyPI may hold
  MinReleaseID,   \* one less than the first id of a release (2000000)
  MaxTicks        \* bound: ticks, retries included

\* The ids up to MinReleaseID are for libraries, which are less than half as many.
ASSUME CronPythonAssumption ==
  /\ LibOf \in [Release -> Library]
  /\ \A r \in Release : Deps[r] \in Seq(Release)
  /\ \A f \in Feeds : f \in Seq(Release)
  /\ Release \cap Library = {}
  /\ MinReleaseID \in Nat
  /\ IsFiniteSet(Library) /\ 2 * Cardinality(Library) <= MinReleaseID
  /\ MaxTicks \in Nat

VARIABLES
  vertex,   \* the vertices: pairs of an id and a name
  depend,   \* the edges between releases, pairs of ids
  belong2,  \* the edges from releases to libraries
  cache,    \* cache[n]: the id cached for the name n, or 0
  tick,     \* the local state of the tick
  ticks,    \* ticks so far
  given,    \* pairs of an id and the name it was given to (history)
  missed    \* the names that are there and were not found (history)

vars == <<vertex, depend, belong2, cache, tick, ticks, given, missed>>

Name == Release \cup Library
None == "none"

\* Where a tick is: in pc, the packages to do, the next ids, the id of the
\* package whose dependencies follow, and the rows of the four files.
NoTick == [pc |-> "idle", feed |-> <<>>, todo |-> <<>>, libraryID |-> 0,
           releaseID |-> 0, source |-> 0, nodes |-> {}, depends |-> {},
           belongs |-> {}]

\* A step of a tick: a package or a dependency, and its release.
Item == {"source", "target"} \X Release

Tick ==
  [pc : {"idle", "work", "depend", "belong2", "library", "release", "degrees", "done", "failed"},
   feed : Seq(Release), todo : Seq(Item), libraryID : Nat, releaseID : Nat,
   source : Nat, nodes : SUBSET (Nat \X Name), depends : SUBSET (Nat \X Nat),
   belongs : SUBSET (Nat \X Nat)]

Ids(S) == {v[1] : v \in S}
NamesOf(S) == {v[2] : v \in S}

TypeOK ==
  /\ vertex \subseteq Nat \X Name
  /\ depend \subseteq Nat \X Nat
  /\ belong2 \subseteq Nat \X Nat
  /\ cache \in [Name -> Nat]
  /\ tick \in Tick
  /\ tick.todo # <<>> => tick.pc = "work"
  /\ ticks \in 0 .. MaxTicks
  /\ given \subseteq Nat \X Name
  /\ missed \subseteq Name

Init ==
  /\ vertex = {}
  /\ depend = {}
  /\ belong2 = {}
  /\ cache = [n \in Name |-> 0]
  /\ tick = NoTick
  /\ ticks = 0
  /\ given = {}
  /\ missed = {}
-----------------------------------------------------------------------------
\* ORDER BY id LIMIT 1: the smallest id of the vertices with a tag.
GetMaxID(S) == IF S = {} THEN 0 ELSE CHOOSE i \in S : \A j \in S : i <= j

GetMaxLibraryID == GetMaxID(Ids({v \in vertex : v[2] \in Library}))

GetMaxReleaseID ==
  LET id == GetMaxID(Ids({v \in vertex : v[2] \in Release})) IN
  IF id = 0 THEN MinReleaseID ELSE id

\* What GetIDsByPrimary may return for a name: an id that has it, or 0.  An error
\* of the statement is logged and reads as 0, too.
GetIDsByPrimary(n) == Ids({v \in vertex : v[2] = n}) \cup {0}

GetIDsFromCache(n) == IF cache[n] # 0 THEN {cache[n]} ELSE GetIDsByPrimary(n)

\* n is there, and its look-up returned id.
Missed(n, id) == IF id = 0 /\ n \in NamesOf(vertex) THEN {n} ELSE {}

Fail == tick' = [NoTick EXCEPT !.pc = "failed"]

\* One package after the other, each followed by its dependencies: pairs of the
\* kind of step and the release.  A package whose dependencies cannot be had is
\* skipped, and so is the rest of its list.
Packages(feed) == [i \in DOMAIN feed |-> <<"source", feed[i]>>]
Dependencies(r) == [i \in DOMAIN Deps[r] |-> <<"target", Deps[r][i]>>]

\* A tick, or its retry, reads the largest ids and the feed.
Start ==
  /\ tick.pc \in {"idle", "done", "failed"}
  /\ ticks < MaxTicks
  /\ ticks' = ticks + 1
  /\ \/ \E f \in Feeds :
          tick' = [NoTick EXCEPT !.pc = "work", !.feed = f, !.todo = Packages(f),
                                 !.libraryID = GetMaxLibraryID + 1,
                                 !.releaseID = GetMaxReleaseID + 1]
     \/ Fail
  /\ UNCHANGED <<vertex, depend, belong2, cache, given, missed>>

\* A bug: the ends of an edge are swapped.
ProceedSwapped(kind, r, id, t) ==
  IF kind = "source"
  THEN \E D \in {<<>>, Dependencies(r)} :
         tick' = [t EXCEPT !.todo = D \o Tail(t.todo), !.source = id]
  ELSE tick' = [t EXCEPT !.todo = Tail(t.todo), !.depends = @ \cup {<<id, t.source>>}]

\* After the release of a step has its id: the list of dependencies is put in
\* front, or the edge from the package is written.
Proceed(kind, r, id, t) ==
  IF kind = "source"
  THEN \E D \in {<<>>, Dependencies(r)} :
         tick' = [t EXCEPT !.todo = D \o Tail(t.todo), !.source = id]
  ELSE tick' = [t EXCEPT !.todo = Tail(t.todo), !.depends = @ \cup {<<t.source, id>>}]

\* A bug: a new id is not put into the cache.
HandleReleaseNotCached(kind, r) ==
  \E id \in GetIDsFromCache(r), lib \in GetIDsFromCache(LibOf[r]) :
    /\ Proceed(kind, r, tick.releaseID,
               [tick EXCEPT !.releaseID = @ + 1,
                            !.nodes = @ \cup {<<tick.releaseID, r>>}])
    /\ given' = given \cup {<<tick.releaseID, r>>}
    /\ UNCHANGED <<cache, missed>>

\* handleReleaseIfAbsent.  An absent release takes the next id; then its library
\* is looked up in the same way.  Ids go to the cache at once and to the files
\* of this tick only.  When the second look-up fails the tick fails, with the
\* release already in the cache.
HandleReleaseIfAbsent(kind, r) ==
  LET l == LibOf[r]
      rid == tick.releaseID
      lid == tick.libraryID IN
  \E id \in GetIDsFromCache(r) :
    IF id # 0
    THEN /\ Proceed(kind, r, id, tick)
         /\ cache' = [cache EXCEPT ![r] = id]
         /\ given' = given \cup {<<id, r>>}
         /\ UNCHANGED missed
    ELSE \/ /\ Fail
            /\ cache' = [cache EXCEPT ![r] = rid]
            /\ given' = given \cup {<<rid, r>>}
            /\ missed' = missed \cup Missed(r, 0)
         \/ \E lib \in GetIDsFromCache(l) :
              LET libID == IF lib = 0 THEN lid ELSE lib IN
              /\ cache' = [cache EXCEPT ![r] = rid, ![l] = libID]
              /\ given' = given \cup {<<rid, r>>, <<libID, l>>}
              /\ missed' = missed \cup Missed(r, 0) \cup Missed(l, lib)
              /\ Proceed(kind, r, rid,
                   [tick EXCEPT !.releaseID = rid + 1,
                      !.libraryID = IF lib = 0 THEN lid + 1 ELSE lid,
                      !.nodes = @ \cup {<<rid, r>>}
                                  \cup (IF lib = 0 THEN {<<lid, l>>} ELSE {}),
                      !.belongs = @ \cup {<<rid, libID>>}])

\* The next release of the list; a look-up that fails fails the tick.
Package ==
  /\ tick.pc = "work"
  /\ tick.todo # <<>>
  /\ \/ HandleReleaseIfAbsent(Head(tick.todo)[1], Head(tick.todo)[2])
     \/ Fail /\ UNCHANGED <<cache, given, missed>>
  /\ UNCHANGED <<vertex, depend, belong2, ticks>>

Goto(pc) == tick' = [tick EXCEPT !.pc = pc]

\* The four files are uploaded, or the tick fails.
AddSources ==
  /\ tick.pc = "work"
  /\ tick.todo = <<>>
  /\ Goto("depend") \/ Fail
  /\ UNCHANGED <<vertex, depend, belong2, cache, ticks, given, missed>>

\* INSERT VERTEX overwrites the vertex that has the id.
Upsert(S) == {v \in vertex : v[1] \notin Ids(S)} \cup S

\* The rows of the tick for names of kind K.
RowsOf(K) == {v \in tick.nodes : v[2] \in K}

\* UpdateGraph of UpdateBatches, a file per step.  An error ends it and the tick
\* with any part of the file written.  The names and the texts of sca go into the
\* files unquoted, and the import skips every row that it cannot parse: a file of
\* vertices may be done without some of its rows.  Edges are pairs of numbers.
UpdateGraph ==
  /\ \/ \E E \in SUBSET tick.depends :
          /\ tick.pc = "depend"
          /\ depend' = depend \cup E
          /\ (E = tick.depends /\ Goto("belong2")) \/ Fail
          /\ UNCHANGED <<vertex, belong2>>
     \/ \E E \in SUBSET tick.belongs :
          /\ tick.pc = "belong2"
          /\ belong2' = belong2 \cup E
          /\ (E = tick.belongs /\ Goto("library")) \/ Fail
          /\ UNCHANGED <<vertex, depend>>
     \/ \E W \in SUBSET RowsOf(Library) :
          /\ tick.pc = "library"
          /\ vertex' = Upsert(W)
          /\ Goto("release") \/ Fail
          /\ UNCHANGED <<depend, belong2>>
     \/ \E W \in SUBSET RowsOf(Release) :
          /\ tick.pc = "release"
          /\ vertex' = Upsert(W)
          /\ Goto("degrees") \/ Fail
          /\ UNCHANGED <<depend, belong2>>
  /\ UNCHANGED <<cache, ticks, given, missed>>

\* Adding the degrees fails at a vertex that is not there (UpdateBatches).
AddDegrees ==
  /\ tick.pc = "degrees"
  /\ \/ /\ \A e \in tick.depends \cup tick.belongs : {e[1], e[2]} \subseteq Ids(vertex)
        /\ Goto("done")
     \/ Fail
  /\ UNCHANGED <<vertex, depend, belong2, cache, ticks, given, missed>>

\* A name leaves the cache a day after it was put there.
Expire(n) ==
  /\ cache[n] # 0
  /\ n \notin NamesOf(tick.nodes)
  /\ cache' = [cache EXCEPT ![n] = 0]
  /\ UNCHANGED <<vertex, depend, belong2, tick, ticks, given, missed>>

\* The consumer is restarted; its caches were in memory.
Restart ==
  /\ tick.pc # "idle"
  /\ tick' = NoTick
  /\ cache' = [n \in Name |-> 0]
  /\ UNCHANGED <<vertex, depend, belong2, ticks, given, missed>>
-----------------------------------------------------------------------------
Next ==
  \/ Start \/ Package \/ AddSources \/ UpdateGraph \/ AddDegrees \/ Restart
  \/ \E n \in Name : Expire(n)

Spec == Init /\ [][Next]_vars
-----------------------------------------------------------------------------
(* Properties.                                                             *)

\* In the files of one tick every name has one id and every id one name, however
\* often it occurs in the feed and in dependencies (cronPython.go:146, :168).
NewIdsAreDistinct ==
  \A v, w \in tick.nodes : v[1] = w[1] \/ v[2] = w[2] => v = w

\* An edge joins ids that were given to a package and to a dependency of it, and
\* never the 0 of an absent name, also when ids come from the caches of ticks
\* that failed (cronPython.go:78, :173).
EdgesJoinWhatDepends ==
  /\ \A e \in depend :
       \E r \in Release : \E d \in Range(Deps[r]) :
         <<e[1], r>> \in given /\ <<e[2], d>> \in given
  /\ \A e \in belong2 :
       \E r \in Release : <<e[1], r>> \in given /\ <<e[2], LibOf[r]>> \in given
  /\ 0 \notin Ids(given)

\* A name has one vertex, however often it is imported, cached, forgotten and
\* looked up again, unless Nebula refused to look it up: that error is taken for
\* "not there" (nebula_impl.go:490).
NamesHaveOneVertex ==
  \A v, w \in vertex : v[2] = w[2] => v = w \/ v[2] \in missed
-----------------------------------------------------------------------------
(* The inductive invariant.                                                *)

\* An edge as in EdgesJoinWhatDepends, among the ids in G.
IsDepend(e, G) ==
  \E r \in Release : \E d \in Range(Deps[r]) : <<e[1], r>> \in G /\ <<e[2], d>> \in G
IsBelong2(e, G) ==
  \E r \in Release : <<e[1], r>> \in G /\ <<e[2], LibOf[r]>> \in G

\* Cached ids were given, and the names that a tick has given ids to are cached.
CacheInv ==
  /\ \A n \in Name : cache[n] # 0 => <<cache[n], n>> \in given
  /\ \A n \in NamesOf(tick.nodes) : cache[n] # 0

\* The dependencies at the head of todo are those of the package with the id
\* source.
Agenda(todo, source, G) ==
  /\ \A i \in DOMAIN todo : todo[i][1] = "target" =>
       \A j \in DOMAIN todo : j < i => todo[j][1] = "target"
  /\ \/ \A i \in DOMAIN todo : todo[i][1] = "source"
     \/ \E r \in Release :
          /\ <<source, r>> \in G
          /\ \A i \in DOMAIN todo : todo[i][1] = "target" => todo[i][2] \in Range(Deps[r])

WorkInv ==
  /\ Agenda(tick.todo, tick.source, given)
  /\ \A e \in tick.depends : IsDepend(e, given)
  /\ \A e \in tick.belongs : IsBelong2(e, given)

\* The ids of kind K are those above b, and a tick gives them in ascending order.
Numbered(K, b, next) ==
  /\ \A v \in vertex \cup tick.nodes : v[2] \in K => b < v[1]
  /\ \A v \in tick.nodes : v[2] \in K => v[1] < next
  /\ tick.pc = "work" => b < next

\* Where a tick has yet to write its libraries, its releases.
LibraryPending == {"work", "depend", "belong2", "library"}
ReleasePending == LibraryPending \cup {"release"}

HasLibrary == \E v \in vertex : v[2] \in Library

\* The smallest id of a library is at most the number of libraries, and a tick
\* starts from it (GetMaxID): whichever rows are lost, the ids of libraries never
\* reach those of releases.
LibrariesFit ==
  LET all == Cardinality(Library)
      new == Cardinality(NamesOf(tick.nodes) \cap Library) IN
  /\ HasLibrary => \E v \in vertex : v[2] \in Library /\ v[1] <= all
  /\ tick.libraryID <= 1 + all + new
  /\ tick.pc \in LibraryPending /\ ~HasLibrary => tick.libraryID <= 1 + new
  /\ \A v \in vertex : v[2] \in Library => v[1] <= MinReleaseID

\* Libraries use the ids from 1 on, and releases those above MinReleaseID.
NumberInv ==
  /\ Numbered(Library, 0, tick.libraryID)
  /\ Numbered(Release, MinReleaseID, tick.releaseID)
  /\ LibrariesFit

\* A name that has a vertex and is yet to be written was missed.
MissInv ==
  \A v \in tick.nodes :
    /\ tick.pc \in ReleasePending /\ v[2] \in NamesOf(vertex)
    /\ tick.pc = "release" => v[2] \in Release
    => v[2] \in missed

\* The ids of a tick, its files, the edges and the caches agree.
IInv ==
  /\ TypeOK /\ CacheInv /\ WorkInv /\ NumberInv /\ MissInv
  /\ NewIdsAreDistinct /\ EdgesJoinWhatDepends /\ NamesHaveOneVertex
=============================================================================
