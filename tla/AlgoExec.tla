------------------------------ MODULE AlgoExec ------------------------------
(***************************************************************************)
(* The execution of graph algorithms: the Graph service submits a Spark    *)
(* job through Livy and then inserts a row of the table exec; the job      *)
(* uploads its result and then sets the status of the row by its output;   *)
(* a task can be dropped at any time, and so can the algorithm and the     *)
(* graph it refers to.  No lock and no transaction joins these steps.      *)
(***************************************************************************)
EXTENDS Naturals

CONSTANTS
  Task,     \* the ExecAlgo requests; each has its own output name (a uuid)
  Algo,     \* the algorithms that can be created and dropped (isTag = 0)
  Graph,    \* the graphs
  AlgoOf,   \* AlgoOf[t]: the algorithm that request t names
  GraphOf,  \* GraphOf[t]: the graph that request t names
  Dropper,  \* the DropAlgoTask and DropGraph calls
  Reader    \* the GetHot and GetHHI requests, one file each

ASSUME AlgoExecAssumption ==
  /\ AlgoOf \in [Task -> Algo]
  /\ GraphOf \in [Task -> Graph]

VARIABLES
  algo,     \* the algorithms that have a row
  graph,    \* the graphs that have a row
  space,    \* the graphs that have a Nebula space
  call,     \* call[t]: where the request t is
  job,      \* job[t]: where the Spark job of t is
  exec,     \* exec[t]: the status in the row of t, or why there is none
  output,   \* the tasks whose result is in Minio
  drop,     \* drop[d]: the step that the call d does next, and on what; or Idle
  reader    \* reader[r]: the task whose file r fetches next, or Idle

graphVars == <<graph, space>>
vars == <<graphVars, algo, call, job, exec, output, drop, reader>>

Row == {"New", "Finished"}
Ended == {"finished", "failed", "killed"}
Idle == << >>

TypeOK ==
  /\ algo \in SUBSET Algo
  /\ graph \in SUBSET Graph
  /\ space \in SUBSET Graph
  /\ call \in [Task -> {"none", "checked", "found", "submitted", "ok", "failed"}]
  /\ job \in [Task -> {"none", "running", "uploaded"} \cup Ended]
  /\ exec \in [Task -> Row \cup {"none", "dropped"}]
  /\ output \in SUBSET Task
  /\ drop \in [Dropper -> {Idle} \cup ({"stop", "delete"} \X Task) \cup ({"row"} \X Graph)]
  /\ reader \in [Reader -> Task \cup {Idle}]

Init ==
  /\ algo = Algo
  /\ graph = Graph
  /\ space = Graph
  /\ call = [t \in Task |-> "none"]
  /\ job = [t \in Task |-> "none"]
  /\ exec = [t \in Task |-> "none"]
  /\ output = {}
  /\ drop = [d \in Dropper |-> Idle]
  /\ reader = [r \in Reader |-> Idle]

HasRow(t) == exec[t] \in Row
Goto(t, c) == call' = [call EXCEPT ![t] = c]
Then(d, step) == drop' = [drop EXCEPT ![d] = step]
-----------------------------------------------------------------------------
(* The Graph service: ExecAlgo.                                            *)

\* A parameter: its type, and what its value, or the members of its list, are.
Param == [type : {"string", "int", "double", "stringList", "doubleList"},
          values : SUBSET {"blank", "number", "text"}]

\* Strings must not be blank, numbers must parse; an empty list passes.
ParamOK(p) ==
  \A v \in p.values :
    IF p.type \in {"string", "stringList"} THEN v # "blank" ELSE v = "number"

CheckParams(t) ==
  /\ call[t] = "none"
  /\ \E p \in Param : Goto(t, IF ParamOK(p) THEN "checked" ELSE "failed")
  /\ UNCHANGED <<graphVars, algo, job, exec, output, drop, reader>>

\* The path of the jar and the class are read from the row of the algorithm.
GetAlgoExecCfg(t) ==
  /\ call[t] = "checked"
  /\ \/ AlgoOf[t] \in algo /\ Goto(t, "found")
     \/ Goto(t, "failed")
  /\ UNCHANGED <<graphVars, algo, job, exec, output, drop, reader>>

\* A bug: the row is inserted before the job is submitted, which an error of
\* Livy then leaves without a job.
SubmitAlgoAfterInsert(t) ==
  /\ call[t] = "found"
  /\ exec' = [exec EXCEPT ![t] = "New"]
  /\ Goto(t, "submitted")
  /\ UNCHANGED <<graphVars, algo, job, output, drop, reader>>

\* Livy starts the job; the reply may be lost, and then the request fails.
SubmitAlgo(t) ==
  /\ call[t] = "found"
  /\ \/ /\ job' = [job EXCEPT ![t] = "running"]
        /\ Goto(t, "submitted") \/ Goto(t, "failed")
     \/ /\ Goto(t, "failed")
        /\ UNCHANGED job
  /\ UNCHANGED <<graphVars, algo, exec, output, drop, reader>>

\* The row is inserted with status New: the foreign keys refuse it when the
\* algorithm or the graph has gone.  After an error the job runs all the same.
InsertAlgoTask(t) ==
  /\ call[t] = "submitted"
  /\ \/ /\ AlgoOf[t] \in algo
        /\ GraphOf[t] \in graph
        /\ exec' = [exec EXCEPT ![t] = "New"]
        /\ Goto(t, "ok") \/ Goto(t, "failed")
     \/ /\ Goto(t, "failed")
        /\ UNCHANGED exec
  /\ UNCHANGED <<graphVars, algo, job, output, drop, reader>>

ExecAlgo(t) ==
  CheckParams(t) \/ GetAlgoExecCfg(t) \/ SubmitAlgo(t) \/ InsertAlgoTask(t)
-----------------------------------------------------------------------------
(* The Spark job.                                                          *)

\* The result is in Minio before the status is written.
Upload(t) ==
  /\ job[t] = "running"
  /\ job' = [job EXCEPT ![t] = "uploaded"]
  /\ output' = output \cup {t}
  /\ UNCHANGED <<graphVars, algo, call, exec, drop, reader>>

\* A bug: the job ends and writes no status.
UpdateStatusNever(t) ==
  /\ job[t] = "uploaded"
  /\ job' = [job EXCEPT ![t] = "finished"]
  /\ UNCHANGED <<graphVars, algo, call, exec, output, drop, reader>>

\* UPDATE ... WHERE output = target: no row, no update, and no error.
UpdateStatusByOutput(t) ==
  /\ job[t] = "uploaded"
  /\ job' = [job EXCEPT ![t] = "finished"]
  /\ exec' = IF HasRow(t) THEN [exec EXCEPT ![t] = "Finished"] ELSE exec
  /\ UNCHANGED <<graphVars, algo, call, output, drop, reader>>

\* An exception ends the job where it is; nothing writes a status then.
JobFails(t) ==
  /\ job[t] \in {"running", "uploaded"}
  /\ job' = [job EXCEPT ![t] = "failed"]
  /\ UNCHANGED <<graphVars, algo, call, exec, output, drop, reader>>
-----------------------------------------------------------------------------
(* The Graph service: drops, and the reads of results.                     *)

\* Several calls may drop the same task.
GetAlgoTaskByID(d, t) ==
  /\ drop[d] = Idle
  /\ HasRow(t)
  /\ Then(d, <<"stop", t>>)
  /\ UNCHANGED <<graphVars, algo, call, job, exec, output, reader>>

\* StopAlgo posts to the Spark master, which may or may not stop the job; an
\* error ends the call.
StopAlgo(d, t) ==
  /\ drop[d] = <<"stop", t>>
  /\ job' \in {job, [job EXCEPT ![t] = IF @ \in Ended THEN @ ELSE "killed"]}
  /\ Then(d, <<"delete", t>>) \/ Then(d, Idle)
  /\ UNCHANGED <<graphVars, algo, call, exec, output, reader>>

\* A bug: the results go with the task, whoever reads them.
DropAlgoTaskAndFile(d, t) ==
  /\ drop[d] = <<"delete", t>>
  /\ exec' = [exec EXCEPT ![t] = IF @ \in Row THEN "dropped" ELSE @]
  /\ output' = output \ {t}
  /\ Then(d, Idle)
  /\ UNCHANGED <<graphVars, algo, call, job, reader>>

\* The row is deleted; an error is ignored.
DropAlgoTaskByID(d, t) ==
  /\ drop[d] = <<"delete", t>>
  /\ exec' \in {exec, [exec EXCEPT ![t] = IF @ \in Row THEN "dropped" ELSE @]}
  /\ Then(d, Idle)
  /\ UNCHANGED <<graphVars, algo, call, job, output, reader>>

AlgoCreate(a) ==
  /\ a \notin algo
  /\ algo' = algo \cup {a}
  /\ UNCHANGED <<graphVars, call, job, exec, output, drop, reader>>

\* The foreign key of exec refuses the DELETE while a task refers to the row.
AlgoDrop(a) ==
  /\ a \in algo
  /\ \A t \in Task : HasRow(t) => AlgoOf[t] # a
  /\ algo' = algo \ {a}
  /\ UNCHANGED <<graphVars, call, job, exec, output, drop, reader>>

\* DropGraph drops the space; an error ends the call, and the space may be gone.
\* Several calls may drop the same graph.
DropGraphSpace(d, g) ==
  /\ drop[d] = Idle
  /\ \/ space' = space \ {g} /\ Then(d, <<"row", g>>)
     \/ space' \in {space, space \ {g}} /\ Then(d, Idle)
  /\ UNCHANGED <<graph, algo, call, job, exec, output, reader>>

\* Then the row, which the foreign key of exec keeps while it has tasks; any
\* other error keeps it too, or comes after the deletion.
DropGraphRow(d, g) ==
  /\ drop[d] = <<"row", g>>
  /\ \/ UNCHANGED graph
     \/ (\A t \in Task : HasRow(t) => GraphOf[t] # g) /\ graph' = graph \ {g}
  /\ Then(d, Idle)
  /\ UNCHANGED <<space, algo, call, job, exec, output, reader>>

\* GetHot and GetHHI list finished tasks, then a goroutine per task fetches its
\* file and parses it.
ListFinished(r) ==
  /\ reader[r] = Idle
  /\ \E t \in Task : exec[t] = "Finished" /\ reader' = [reader EXCEPT ![r] = t]
  /\ UNCHANGED <<graphVars, algo, call, job, exec, output, drop>>

\* The process of the service ends, and with it all requests that it serves.
Crash ==
  /\ call' = [t \in Task |-> IF call[t] \in {"checked", "found", "submitted"}
                              THEN "failed" ELSE call[t]]
  /\ drop' = [d \in Dropper |-> Idle]
  /\ reader' = [r \in Reader |-> Idle]

\* The goroutine ends, an error of Minio or Nebula is only logged.  A file without
\* a header or a row that does not parse is a panic (gethotlogic.go:58-64,
\* gethhilogic.go:57-65), which nothing recovers in a goroutine.
FetchAlgo(r) ==
  /\ reader[r] # Idle
  /\ \/ reader' = [reader EXCEPT ![r] = Idle] /\ UNCHANGED <<call, drop>>
     \/ Crash
  /\ UNCHANGED <<graphVars, algo, job, exec, output>>
-----------------------------------------------------------------------------
DropAlgoTask(d, t) == GetAlgoTaskByID(d, t) \/ StopAlgo(d, t) \/ DropAlgoTaskByID(d, t)

Next ==
  \/ \E t \in Task :
       \/ ExecAlgo(t) \/ Upload(t) \/ UpdateStatusByOutput(t) \/ JobFails(t)
       \/ \E d \in Dropper : DropAlgoTask(d, t)
  \/ \E a \in Algo : AlgoCreate(a) \/ AlgoDrop(a)
  \/ \E d \in Dropper, g \in Graph : DropGraphSpace(d, g) \/ DropGraphRow(d, g)
  \/ \E r \in Reader : ListFinished(r) \/ FetchAlgo(r)

Spec == Init /\ [][Next]_vars

\* Spark runs what it accepted; nothing is assumed of users and requests.
FairSpec ==
  Spec /\ \A t \in Task : WF_vars(Upload(t) \/ UpdateStatusByOutput(t))
-----------------------------------------------------------------------------
(* Properties.                                                             *)

\* A task that GetHot or GetHHI has listed has its file when the file is fetched
\* later, also when the task was dropped in between: the upload precedes the
\* status (Template.scala:97), and nothing removes a result.
HotFindsFile == \A r \in Reader : reader[r] # Idle => reader[r] \in output

\* A row of exec stands for a job that was submitted, and as long as it stands
\* its algorithm and its graph cannot go: SubmitAlgo comes first
\* (algoexeclogic.go:74), whatever drops come in between.
TaskIsBacked ==
  \A t \in Task : HasRow(t) =>
    job[t] # "none" /\ AlgoOf[t] \in algo /\ GraphOf[t] \in graph

\* A task whose row was there before its job reached the status write ends as
\* Finished, unless it is dropped or the job fails.  (A job that overtakes the
\* insertion at algoexeclogic.go:88 leaves the row New for ever.)
TaskFinishes ==
  \A t \in Task :
    exec[t] = "New" /\ job[t] \in {"running", "uploaded"}
      ~> exec[t] \in {"Finished", "dropped"} \/ job[t] \in {"failed", "killed"}

\* The inductive invariant: what is finished was uploaded, and readers know only
\* what was finished.
IInv ==
  /\ TypeOK
  /\ \A t \in Task :
       /\ exec[t] = "Finished" => t \in output
       /\ job[t] = "uploaded" => t \in output
       /\ call[t] = "submitted" => job[t] # "none"
  /\ HotFindsFile
  /\ TaskIsBacked
=============================================================================
