--------------------------- MODULE GraphLifecycle ---------------------------
(***************************************************************************)
(* The life of the graphs of one group: a row in MySQL, a space in Nebula  *)
(* and the tasks that create and fill it.                                  *)
(*                                                                         *)
(* The Graph service writes the row, publishes a task, and drops graphs    *)
(* and groups itself; the handlers CreateGraph and UpdateGraph of a        *)
(* consumer work on the space and write the row again when they end.  No   *)
(* transaction spans the two stores, and the status in the row is the only *)
(* lock there is: the table page disables its links unless it last saw the *)
(* graph online.  The scheduled task runs the handler UpdateGraph as well, *)
(* by a plain call that no request announces and no status precedes.       *)
(*                                                                         *)
(* The tasks are delivered as TaskPromise says: a handler may run a second *)
(* time, after a graceful restart, next to the one that was left behind.   *)
(***************************************************************************)
EXTENDS Naturals, FiniteSets

CONSTANTS
  Graph,       \* the graphs; one CreateGraph request each
  Update,      \* the UpdateGraph requests, and the imports of the cron task
  Target,      \* Target[u]: the graph that update u loads files into
  Fixed,       \* the graphs that the cron task imports into (FixedGraph)
  Page,        \* the browser pages that show the table of graphs
  NoPage,      \* sender of an update that has not been sent
  Cron,        \* sender of an update that the cron task runs
  Host,        \* the consumer processes
  Main,        \* place of the handler of a delivery that is not left behind
  MaxBatch,    \* bound: batches that the files of an update fill
  MaxRestarts  \* bound: graceful restarts of consumers in a behaviour

ASSUME GraphLifecycleAssumption ==
  /\ Target \in [Update -> Graph]
  /\ Graph \cap Update = {}
  /\ Fixed \subseteq Graph
  /\ NoPage \notin Page /\ Cron \notin Page \cup {NoPage}
  /\ Main \notin Host
  /\ MaxBatch \in Nat
  /\ MaxRestarts \in Nat

VARIABLES
  group,     \* whether the group's row exists
  row,       \* row[g]: the status of the graph's row, or why there is none
  num,       \* num[g]: numNode + numEdge of the row, in batches
  space,     \* the graphs that have a Nebula space
  held,      \* held[u]: the batches of update u that the space holds
  call,      \* call[j]: where the request that publishes task j is
  by,        \* by[u]: the page that sent update u, or Cron
  page,      \* page[b]: the graphs that page b shows as online
  phase,       \* phase[j]: the task j (TaskPromise)
  left,      \* left[j]: processes with a handler of j left behind (TaskPromise)
  runs,      \* runs[j]: how often the handler of j was begun (TaskPromise)
  restarts,  \* graceful restarts so far (TaskPromise)
  step,      \* step[j][p]: where the handler of task j at place p is
  loaded,    \* loaded[u][p]: what the handler of u at place p has counted
  drop,      \* the graphs of which a DropGraph call has dropped the space
  groupDrop, \* where the DropGroup call is
  toDrop,    \* the graphs whose space it has still to drop
  dropped,     \* history: graphs whose space some call has dropped
  eager,     \* history: updates sent before the page knew of an earlier one
  hit        \* history: graphs hit by a failed call or a crash

dataVars == <<group, row, num, space, held>>
callVars == <<call, by, page, eager>>
jobVars  == <<phase, left, runs, restarts>>
taskVars == <<jobVars, step, loaded>>
dropVars == <<drop, groupDrop, toDrop>>
vars == <<dataVars, callVars, taskVars, dropVars, dropped, hit>>

Job == Graph \cup Update
Place == Host \cup {Main}

Promise == INSTANCE TaskPromise

Live == {"Init", "OK", "Update"}          \* statuses of an existing row
Gone == {"none", "deleted", "cascaded"}   \* no row (yet), DropGraph, DropGroup
Step == {"none", "group", "space", "mark", "load", "defer"}
Steps == [Job -> [Place -> Step]]
Counts == [Update -> [Place -> 0 .. MaxBatch]]

GraphOf(j) == IF j \in Update THEN Target[j] ELSE j

TypeOK ==
  /\ group \in BOOLEAN
  /\ row \in [Graph -> Live \cup Gone]
  /\ num \in [Graph -> Nat]
  /\ space \in SUBSET Graph
  /\ held \in [Update -> 0 .. MaxBatch]
  /\ call \in [Job -> {"none", "stored", "ok", "failed"}]
  /\ by \in [Update -> Page \cup {NoPage, Cron}]
  /\ page \in [Page -> SUBSET Graph]
  /\ phase \in [Job -> Promise!Phase]
  /\ left \in [Job -> SUBSET Host]
  /\ runs \in [Job -> Nat]
  /\ restarts \in 0 .. MaxRestarts
  /\ step \in Steps
  /\ loaded \in Counts
  /\ drop \in SUBSET Graph
  /\ groupDrop \in {"idle", "spaces", "done"}
  /\ toDrop \in SUBSET Graph
  /\ dropped \in SUBSET Graph
  /\ eager \in SUBSET Update
  /\ hit \in SUBSET Graph

Init ==
  /\ group = TRUE
  /\ row = [g \in Graph |-> "none"]
  /\ num = [g \in Graph |-> 0]
  /\ space = {}
  /\ held = [u \in Update |-> 0]
  /\ call = [j \in Job |-> "none"]
  /\ by = [u \in Update |-> NoPage]
  /\ page = [b \in Page |-> {}]
  /\ Promise!PromiseInit
  /\ step = [j \in Job |-> [p \in Place |-> "none"]]
  /\ loaded = [u \in Update |-> [p \in Place |-> 0]]
  /\ drop = {}
  /\ groupDrop = "idle"
  /\ toDrop = {}
  /\ dropped = {}
  /\ eager = {}
  /\ hit = {}

\* An UPDATE of the row of g touches no row when there is none.
SetStatus(g, status) ==
  row' = IF row[g] \in Live THEN [row EXCEPT ![g] = status] ELSE row

\* A DROP SPACE IF EXISTS, with the data in the space.
DropSpaceOf(g) ==
  /\ space' = space \ {g}
  /\ held' = [u \in Update |-> IF Target[u] = g THEN 0 ELSE held[u]]
  /\ dropped' = dropped \cup {g}
-----------------------------------------------------------------------------
(* The Graph service: CreateGraph and UpdateGraph.                         *)

\* The reply of the store is lost or it is not: the request goes on or fails.
Stored(j) ==
  \E next \in {"stored", "failed"} :
    /\ call' = [call EXCEPT ![j] = next]
    /\ hit' = IF next = "failed" THEN hit \cup {GraphOf(j)} ELSE hit

\* CreateGraph inserts the row; the foreign key refuses it without the group.
InsertGraph(g) ==
  /\ call[g] = "none"
  /\ group
  /\ row' = [row EXCEPT ![g] = "Init"]
  /\ Stored(g)
  /\ UNCHANGED <<group, num, space, held, by, page, eager, taskVars, dropVars,
                 dropped>>

\* The page that sent v does not know what became of it: the reply is open, or
\* it was an error or lost although the task was published.
Unanswered(v) ==
  \/ call[v] = "stored"
  \/ call[v] = "failed" /\ phase[v] # "unsent"

\* Page b sends update u.  It need not wait for the reply to another one.
Sends(b, u) ==
  /\ call[u] = "none"
  /\ by[u] = NoPage
  /\ Target[u] \in page[b]
  /\ by' = [by EXCEPT ![u] = b]
  /\ eager' = IF \E v \in Update : by[v] = b /\ Target[v] = Target[u] /\ Unanswered(v)
              THEN eager \cup {u} ELSE eager

\* A bug: UpdateGraph publishes without changing the status.
MarkUpdateNot(u, b) ==
  /\ Sends(b, u)
  /\ Stored(u)
  /\ UNCHANGED <<dataVars, page, taskVars, dropVars, dropped>>

\* UpdateGraph sets the status Update, whatever it was.  The request comes from
\* a page that shows the graph online.
MarkUpdate(u, b) ==
  /\ Sends(b, u)
  /\ SetStatus(Target[u], "Update")
  /\ Stored(u)
  /\ UNCHANGED <<group, num, space, held, page, taskVars, dropVars, dropped>>

\* PublishTask and the FetchTask that follows it.  When one of them fails the
\* caller is told so, but the message may be in the queue; a reply can be lost.
\* The page reloads after a success and stays as it was otherwise.
Publish(j) ==
  /\ call[j] = "stored"
  /\ \/ /\ call' = [call EXCEPT ![j] = "ok"]
        /\ page' = IF j \in Update THEN [page EXCEPT ![by[j]] = {}] ELSE page
        /\ Promise!Submit(j)
        /\ UNCHANGED hit
     \/ /\ call' = [call EXCEPT ![j] = "failed"]
        /\ \/ Promise!Submit(j) /\ hit' \in {hit, hit \cup {GraphOf(j)}}
           \/ hit' = hit \cup {GraphOf(j)} /\ UNCHANGED jobVars
        /\ UNCHANGED page
  /\ UNCHANGED <<dataVars, by, eager, step, loaded, dropVars, dropped>>

\* An attempt of the cron task gets to its import: it calls UpdateGraph.Handle
\* itself, on a graph whose status it leaves as it is.
CronImport(u) ==
  /\ by[u] = NoPage
  /\ Target[u] \in Fixed
  /\ by' = [by EXCEPT ![u] = Cron]
  /\ Promise!Submit(u)
  /\ UNCHANGED <<dataVars, call, page, eager, step, loaded, dropVars, dropped, hit>>

\* A page loads the list of graphs, by a reload or by its timer.
LoadPage(b) ==
  /\ page' = [page EXCEPT ![b] = {g \in Graph : row[g] = "OK"}]
  /\ UNCHANGED <<dataVars, call, by, eager, taskVars, dropVars, dropped, hit>>
-----------------------------------------------------------------------------
(* The Graph service: DropGraph and DropGroup.                             *)

\* A bug: DropGraph goes on to the row when Nebula reports an error.
DropGraphSpaceUnchecked(g) ==
  /\ \E b \in Page : g \in page[b]
  /\ drop' = drop \cup {g}
  /\ DropSpaceOf(g) \/ UNCHANGED <<space, held, dropped>>
  /\ UNCHANGED <<group, row, num, callVars, taskVars, groupDrop, toDrop, hit>>

\* DropGraph drops the space.  An error ends the call, even when the space is
\* gone.  The page that sends it shows the graph online.
DropGraphSpace(g) ==
  /\ \E b \in Page : g \in page[b]
  /\ DropSpaceOf(g)
  /\ drop' \in {drop, drop \cup {g}}
  /\ UNCHANGED <<group, row, num, callVars, taskVars, groupDrop, toDrop, hit>>

\* DropGraph deletes the row, or cannot: rows of exec refer to it.  Another call
\* may still be there.
DropGraphRow(g) ==
  /\ g \in drop
  /\ drop' \in {drop, drop \ {g}}
  /\ SetStatus(g, "deleted") \/ UNCHANGED row
  /\ UNCHANGED <<group, num, space, held, callVars, taskVars, groupDrop, toDrop,
                 dropped, hit>>

\* DropGroup lists the graphs of the group.
ListGraphs ==
  /\ groupDrop = "idle"
  /\ group
  /\ groupDrop' = "spaces"
  /\ toDrop' = {g \in Graph : row[g] \in Live}
  /\ UNCHANGED <<dataVars, callVars, taskVars, drop, dropped, hit>>

\* DropGroup drops the space of a listed graph; an error ends the call.
DropListed(g) ==
  /\ g \in toDrop
  /\ \/ /\ DropSpaceOf(g)
        /\ toDrop' = toDrop \ {g}
        /\ UNCHANGED groupDrop
     \/ /\ groupDrop' = "idle"
        /\ toDrop' = {}
        /\ UNCHANGED <<space, held, dropped>>
  /\ UNCHANGED <<group, row, num, callVars, taskVars, drop, hit>>

\* DropGroup deletes the group, and the foreign key deletes every graph of it;
\* rows of exec prevent both.
DropGroupRow ==
  /\ groupDrop = "spaces"
  /\ toDrop = {}
  /\ \/ /\ groupDrop' = "done"
        /\ group' = FALSE
        /\ row' = [g \in Graph |-> IF row[g] \in Live THEN "cascaded" ELSE row[g]]
     \/ /\ groupDrop' = "idle"
        /\ UNCHANGED <<group, row>>
  /\ UNCHANGED <<num, space, held, callVars, taskVars, drop, toDrop, dropped, hit>>
-----------------------------------------------------------------------------
(* A consumer: the handlers CreateGraph and UpdateGraph.                   *)

Goto(j, p, s) == step' = [step EXCEPT ![j][p] = s]

BeginHandler(j) ==
  /\ Promise!Begin(j)
  /\ Goto(j, Main, "group")
  /\ loaded' = [u \in Update |->
                  IF u = j THEN [loaded[u] EXCEPT ![Main] = 0] ELSE loaded[u]]
  /\ UNCHANGED <<dataVars, callVars, dropVars, dropped, hit>>

\* The handler returns, with a result, with an error or by a panic.
HandlerReturns(j, p) ==
  /\ IF p = Main THEN Promise!Return(j) ELSE Promise!LeftReturns(j, p)
  /\ Goto(j, p, "none")

\* CreateGraph reads the group and ignores the error: without a group it panics
\* before it sends anything to Nebula.
CreateReadsGroup(g, p) ==
  /\ step[g][p] = "group"
  /\ \/ /\ group
        /\ Goto(g, p, "space")
        /\ UNCHANGED <<jobVars, hit>>
     \/ /\ HandlerReturns(g, p)
        /\ hit' = hit \cup {g}
  /\ UNCHANGED <<dataVars, callVars, loaded, dropVars, dropped>>

\* A bug: the error of the Nebula client is only logged.
CreateSpaceUnchecked(g, p) ==
  /\ step[g][p] = "space"
  /\ space' \in {space, space \cup {g}}
  /\ Goto(g, p, "mark")
  /\ UNCHANGED <<group, row, num, held, callVars, jobVars, loaded,
                 dropVars, dropped, hit>>

\* CREATE SPACE IF NOT EXISTS, tags, edges and indexes in one call.  On an error
\* the handler returns; the space may have been created.
CreateSpace(g, p) ==
  /\ step[g][p] = "space"
  /\ \/ /\ space' = space \cup {g}
        /\ Goto(g, p, "mark")
        /\ UNCHANGED <<jobVars, hit>>
     \/ /\ space' \in {space, space \cup {g}}
        /\ HandlerReturns(g, p)
        /\ hit' = hit \cup {g}
  /\ UNCHANGED <<group, row, num, held, callVars, loaded, dropVars, dropped>>

\* The status becomes OK, whatever it was (the polls of HasGraph decide
\* nothing); an error of the write is only logged.
CreateMarksOK(g, p) ==
  /\ step[g][p] = "mark"
  /\ HandlerReturns(g, p)
  /\ \/ /\ SetStatus(g, "OK")
        /\ UNCHANGED hit
     \/ /\ hit' = hit \cup {g}
        /\ UNCHANGED row
  /\ UNCHANGED <<group, num, space, held, callVars, loaded, dropVars, dropped>>

\* UpdateGraph reads the group through the graph's row; an error leads to the
\* deferred write like every other return.
UpdateReadsGroup(u, p) ==
  /\ step[u][p] = "group"
  /\ \/ row[Target[u]] \in Live /\ Goto(u, p, "load")
     \/ Goto(u, p, "defer")
  /\ UNCHANGED <<dataVars, callVars, jobVars, loaded, dropVars, dropped, hit>>

\* One more batch of u is in the space.
InsertBatch(u, p) ==
  /\ loaded[u][p] < MaxBatch
  /\ Target[u] \in space
  /\ held' = [held EXCEPT ![u] = IF @ > loaded[u][p] THEN @ ELSE loaded[u][p] + 1]

\* A batch is inserted, then counted.
LoadBatch(u, p) ==
  /\ step[u][p] = "load"
  /\ InsertBatch(u, p)
  /\ loaded' = [loaded EXCEPT ![u][p] = @ + 1]
  /\ UNCHANGED <<group, row, num, space, callVars, jobVars, step,
                 dropVars, dropped, hit>>

\* The files are read to their end, or a file or an insertion is in error: the
\* batch in hand is not counted, and may be in the space all the same.
LoadEnds(u, p) ==
  /\ step[u][p] = "load"
  /\ Goto(u, p, "defer")
  /\ \/ UNCHANGED <<held, hit>>
     \/ InsertBatch(u, p) /\ hit' = hit \cup {Target[u]}
  /\ UNCHANGED <<group, row, num, space, callVars, jobVars, loaded,
                 dropVars, dropped>>

\* A bug: the counters are evaluated when the write is deferred.
UpdateDefersEarly(u, p) ==
  /\ step[u][p] = "defer"
  /\ HandlerReturns(u, p)
  /\ SetStatus(Target[u], "OK")
  /\ UNCHANGED <<group, num, space, held, callVars, loaded, dropVars, dropped, hit>>

\* A bug: the status is restored only when everything was loaded.
UpdateRestoresOnSuccess(u, p) ==
  /\ step[u][p] = "defer"
  /\ HandlerReturns(u, p)
  /\ \/ loaded[u][p] = MaxBatch /\ SetStatus(Target[u], "OK")
     \/ loaded[u][p] < MaxBatch /\ UNCHANGED row
  /\ UNCHANGED <<group, num, space, held, callVars, loaded, dropVars, dropped, hit>>

\* The deferred write: status OK and the counts added; an error is only logged.
UpdateDefers(u, p) ==
  /\ step[u][p] = "defer"
  /\ HandlerReturns(u, p)
  /\ \/ /\ SetStatus(Target[u], "OK")
        /\ num' = IF row[Target[u]] \in Live
                  THEN [num EXCEPT ![Target[u]] = @ + loaded[u][p]] ELSE num
        /\ UNCHANGED hit
     \/ /\ hit' = hit \cup {Target[u]}
        /\ UNCHANGED <<row, num>>
  /\ UNCHANGED <<group, space, held, callVars, loaded, dropVars, dropped>>

\* asynq settles the message of a handler that has returned.
SettleJob(j) ==
  /\ Promise!Settle(j)
  /\ UNCHANGED <<dataVars, callVars, step, loaded, dropVars, dropped, hit>>

\* A consumer crashes in the middle of a handler: the job is lost.
CrashHandler(j) ==
  /\ Promise!Lose({j}, {})
  /\ Goto(j, Main, "none")
  /\ hit' = hit \cup {GraphOf(j)}
  /\ UNCHANGED <<dataVars, callVars, loaded, dropVars, dropped>>

\* A consumer is told to stop (SIGTERM).
RestartConsumer ==
  /\ Promise!Restart
  /\ UNCHANGED <<dataVars, callVars, step, loaded, dropVars, dropped, hit>>

\* It pushes job j back to the queue and leaves its handler, if any, behind.
PushBack(j, h) ==
  /\ Promise!PushBack(j, h)
  /\ step' = [step EXCEPT ![j][h] = step[j][Main], ![j][Main] = "none"]
  /\ loaded' = [u \in Update |->
                  IF u = j THEN [loaded[u] EXCEPT ![h] = loaded[u][Main]] ELSE loaded[u]]
  /\ UNCHANGED <<dataVars, callVars, dropVars, dropped, hit>>

\* Its process ends, and with it the handlers that were left behind.
ConsumerEnds(h) ==
  /\ \E j \in Job : h \in left[j]
  /\ Promise!Lose({}, {h})
  /\ step' = [j \in Job |-> [step[j] EXCEPT ![h] = "none"]]
  /\ UNCHANGED <<dataVars, callVars, loaded, dropVars, dropped, hit>>
-----------------------------------------------------------------------------
CreateGraph(g) ==
  \E p \in Place : CreateReadsGroup(g, p) \/ CreateSpace(g, p) \/ CreateMarksOK(g, p)

UpdateGraph(u) ==
  \E p \in Place :
    UpdateReadsGroup(u, p) \/ LoadBatch(u, p) \/ LoadEnds(u, p) \/ UpdateDefers(u, p)

Next ==
  \/ \E g \in Graph : InsertGraph(g) \/ CreateGraph(g)
  \/ \E u \in Update : CronImport(u) \/ UpdateGraph(u)
  \/ \E u \in Update, b \in Page : MarkUpdate(u, b)
  \/ \E j \in Job :
       Publish(j) \/ BeginHandler(j) \/ SettleJob(j) \/ CrashHandler(j)
  \/ RestartConsumer
  \/ \E h \in Host : ConsumerEnds(h) \/ \E j \in Job : PushBack(j, h)
  \/ \E g \in Graph : DropGraphSpace(g) \/ DropGraphRow(g) \/ DropListed(g)
  \/ ListGraphs \/ DropGroupRow
  \/ \E b \in Page : LoadPage(b)

Spec == Init /\ [][Next]_vars

\* A request goes on, a waiting task is picked (QueueDrains of TaskQueue) and a
\* handler goes on: the clients it calls return, with a result or an error.
Fairness ==
  /\ \A j \in Job : WF_vars(Publish(j)) /\ WF_vars(BeginHandler(j))
  /\ \A g \in Graph : WF_vars(CreateGraph(g))
  /\ \A u \in Update : WF_vars(UpdateGraph(u))

FairSpec == Spec /\ Fairness
-----------------------------------------------------------------------------
(* Properties.                                                             *)

\* An update that is waiting, or at work on its graph.
Busy(u) == phase[u] \in {"waiting", "running"}

\* There is one page, or none.
SinglePage == \A b, c \in Page : b = c

\* The cron task imports into g.
Imported(g) == \E u \in Update : Target[u] = g /\ by[u] = Cron

\* What the lock of the table page does not reach: an update of g that was sent
\* before the page had heard that the one before was published, and the cron task.
Unlocked(g) == Imported(g) \/ \E u \in eager : Target[u] = g

\* With one page and no restart, a graph that reads online has no update waiting
\* or running: UpdateGraph sets the status before it publishes
\* (updategraphlogic.go:44), and only its handler sets it back (updateGraph.go:28).
\* This takes a user who does not send a second update of the graph while the
\* first is unanswered, or after an error, and a graph that the cron task leaves
\* alone: it imports (cronPython.go:122) without setting the status.
OnlineMeansIdle ==
  SinglePage /\ restarts = 0 =>
    \A u \in Update :
      Busy(u) /\ row[Target[u]] = "OK" => Unlocked(Target[u])

\* With one page and no restart, no two updates of a graph run at once: the
\* links of the table are the only lock (GTable/index.tsx:288), and it holds for
\* the same user and graphs.
OneUpdateAtATime ==
  SinglePage /\ restarts = 0 =>
    \A u, v \in Update :
      u # v /\ Target[u] = Target[v] /\ Busy(u) /\ Busy(v) => Unlocked(Target[u])

\* A graph whose status says that it was created has its space, unless some call
\* dropped the space: CreateGraph writes the status last (createGraph.go:41).
\* A cron import writes OK as well, also to a graph that has no space yet.
CreatedHasSpace ==
  \A g \in Graph :
    row[g] \in {"OK", "Update"} /\ g \notin dropped => g \in space \/ Imported(g)

\* DropGraph leaves no space behind, unless a restart runs the create handler of
\* the graph again: the space is dropped before the row (dropgraphlogic.go:26),
\* and a graph can be dropped only after its handler has ended, or after a cron
\* import has set its status to OK before that.
DeletedLeavesNoSpace ==
  \A g \in Graph :
    row[g] = "deleted" /\ restarts = 0 => g \notin space \/ Imported(g)

\* The batches of the updates in U that are in their spaces.
Batches(U) == UNION {{u} \X (1 .. held[u]) : u \in U}

\* When no update of a graph is left, its counters say what the space holds: the
\* deferred write adds what was inserted, also after an error
\* (updateGraph.go:28).  A restart can load, and count, an update twice.
CountersMatchSpace ==
  \A g \in Graph :
    LET U == {u \in Update : Target[u] = g} IN
    /\ row[g] = "OK"
    /\ restarts = 0
    /\ g \notin hit \cup dropped
    /\ \A u \in U : ~ Busy(u)
    => num[g] = Cardinality(Batches(U))

\* A status other than OK does not last when no call fails and no consumer
\* crashes: every handler that changes it back gets to run and does so, also
\* after an error in the files (updateGraph.go:28).
StatusSettles ==
  \A g \in Graph :
    row[g] \in {"Init", "Update"} ~> row[g] \notin {"Init", "Update"} \/ g \in hit

\* Group/index.tsx:298 says that dropping a group removes all graphs of it: when
\* no call failed and no task of CreateGraph is left, neither is a space.
GroupDropIsComplete ==
  /\ ~ group
  /\ hit = {}
  /\ \A g \in Graph : phase[g] \in {"unsent", "ended"}
  => space = {}
-----------------------------------------------------------------------------
(* The inductive invariant.                                                *)

\* A handler is somewhere exactly while its job runs or it is left behind, and a
\* job was published by a request or is an import of the cron task.
HandlerOf(j) ==
  /\ step[j][Main] # "none" <=> phase[j] = "running"
  /\ \A h \in Host : step[j][h] # "none" <=> h \in left[j]
  /\ \A p \in Place : /\ step[j][p] \in {"space", "mark"} => j \in Graph
                      /\ step[j][p] \in {"load", "defer"} => j \in Update
  /\ call[j] \in {"none", "stored"} =>
       phase[j] = "unsent" \/ (j \in Update /\ by[j] = Cron)
  /\ j \in Update /\ by[j] = Cron => call[j] = "none"
  /\ phase[j] = "unsent" => left[j] = {}

HandlerInv == \A j \in Job : HandlerOf(j)

\* Nothing is run twice, or left behind, without a restart.
RunsInv ==
  /\ \A j \in Job : phase[j] \in {"running", "returned"} => runs[j] > 0
  /\ restarts = 0 => \A j \in Job : left[j] = {}

\* Someone may believe that g was created: its row says so, or did when a page
\* read it, or when an update or a drop was requested from that page.
Believed(g) ==
  \/ row[g] \in {"OK", "Update", "deleted"}
  \/ g \in drop
  \/ \E b \in Page : g \in page[b]
  \/ \E u \in Update : Target[u] = g /\ call[u] # "none"

\* Then it was, unless the cron task made them believe it.
BeliefInv ==
  \A g \in Graph :
    /\ Believed(g) /\ ~ Imported(g) => g \in space \cup dropped
    /\ (\E p \in Place : step[g][p] = "mark") => g \in space \cup dropped

\* And, without a restart, its handler has ended.
CreateOverInv ==
  restarts = 0 =>
    \A g \in Graph : ~ Imported(g) =>
      /\ Believed(g) => phase[g] \in {"returned", "ended"}
      /\ g \in drop => g \notin space

\* An update whose task is still to be published, or not over.
Pending(u) == call[u] = "stored" \/ Busy(u)

\* What makes the links of the table a lock, while there is one page: the graph
\* of a pending update does not read online, no other update of it is pending,
\* and the page does not show it online unless it has not heard of the update.
LockInv ==
  /\ \A u \in Update : /\ call[u] # "none" => by[u] \in Page
                       /\ call[u] = "none" /\ by[u] # Cron => phase[u] = "unsent"
                       /\ by[u] = NoPage => u \notin eager
  /\ SinglePage /\ restarts = 0 =>
       \A u \in Update : Pending(u) /\ ~ Unlocked(Target[u]) =>
         /\ row[Target[u]] # "OK"
         /\ \A b \in Page : Target[u] \in page[b] => Unanswered(u)
         /\ \A v \in Update : Target[v] = Target[u] /\ Pending(v) => v = u

\* A row is written by the request and deleted, but never forgotten; before that
\* there is no space.
RowInv ==
  /\ \A g \in Graph : /\ row[g] = "none" <=> call[g] = "none"
                      /\ g \in space => call[g] # "none"
  /\ \A u \in Update : held[u] > 0 => call[Target[u]] # "none"

\* The updates of g whose handler has ended.
Finished(g) == {u \in Update : Target[u] = g /\ phase[u] \in {"returned", "ended"}}

\* While nothing fails, an update has its batches in the space only after its
\* handler began, has counted them while it runs, and then they are in the row.
CountInv ==
  restarts = 0 =>
    \A g \in Graph \ (hit \cup dropped) :
      /\ row[g] \notin {"deleted", "cascaded"} =>
           IsFiniteSet(Batches(Finished(g))) /\ num[g] = Cardinality(Batches(Finished(g)))
      /\ \A u \in Update : Target[u] = g =>
           /\ phase[u] \in {"unsent", "waiting"} => held[u] = 0
           /\ phase[u] = "running" => held[u] = loaded[u][Main]

\* All of it.
IInv ==
  /\ TypeOK
  /\ HandlerInv
  /\ RunsInv
  /\ BeliefInv
  /\ CreateOverInv
  /\ DeletedLeavesNoSpace
  /\ LockInv
  /\ RowInv
  /\ CountInv
=============================================================================
