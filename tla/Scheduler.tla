----------------------------- MODULE Scheduler -----------------------------
(***************************************************************************)
(* What every replica of the Graph service does in the background when it  *)
(* starts: prepare the graphs that cron tasks write to, under a lease in   *)
(* Redis, and then run a scheduler for the cron task unless another one    *)
(* took the key of the same minute.  Time is counted in minutes.           *)
(***************************************************************************)
EXTENDS Naturals, FiniteSets, Sequences

CONSTANTS
  Replica,    \* the replicas of the Graph service
  Hour,       \* the lease of the preparation and the period of the cron task
  MaxMinute,  \* bound: the last minute
  MaxUser     \* bound: the graphs that users create

ASSUME SchedulerAssumption ==
  /\ IsFiniteSet(Replica)
  /\ Hour \in Nat \ {0, 1}
  /\ MaxMinute \in Nat \ {0}
  /\ MaxUser \in Nat

VARIABLES
  minute,  \* the time
  lease,   \* the minute at which the lock prepare_1 expires, 0: not taken
  keys,    \* the minutes m with a key cronPython_m; it stays for a week
  row,     \* the rows of table graph by id: who created it, under which lease
  dropped, \* the ids of the rows that were deleted; no id is given again
  pc,      \* pc[r]: where schedule() of replica r is
  wake,    \* wake[r]: when r has slept enough, 0: it does not sleep
  key,     \* key[r]: the minute whose key r took, 0: none
  ticks,   \* the replicas whose schedulers enqueued the last tick
  faults   \* what went wrong so far (history)

vars == <<minute, lease, keys, row, dropped, pc, wake, key, ticks, faults>>

PythonDepsGraph == 1
Row == [by : {"schedule", "user"}, until : 0 .. MaxMinute + Hour]
Ids == DOMAIN row
Present == Ids \ dropped
Place == {"down", "lock", "get", "create", "publish", "sleep", "cron", "run", "scheduling",
          "serving"}
Min0 == 1   \* the first minute; 0 stands for none

TypeOK ==
  /\ minute \in Min0 .. MaxMinute
  /\ lease \in 0 .. MaxMinute + Hour
  /\ keys \subseteq Min0 .. MaxMinute
  /\ row \in Seq(Row)
  /\ dropped \subseteq Ids
  /\ pc \in [Replica -> Place]
  /\ wake \in [Replica -> 0 .. MaxMinute + 1]
  /\ key \in [Replica -> 0 .. MaxMinute]
  /\ ticks \subseteq Replica
  /\ faults \subseteq {"error", "crash"}

Init ==
  /\ minute = Min0
  /\ lease = 0
  /\ keys = {}
  /\ row = << >>
  /\ dropped = {}
  /\ pc = [r \in Replica |-> "down"]
  /\ wake = [r \in Replica |-> 0]
  /\ key = [r \in Replica |-> 0]
  /\ ticks = {}
  /\ faults = {}

\* A call to Redis or MySQL fails.
Error == faults' = faults \cup {"error"}

Goto(r, l) == pc' = [pc EXCEPT ![r] = l]
At(r, l) == pc[r] = l
InsertRow(by, until) == row' = Append(row, [by |-> by, until |-> until])
-----------------------------------------------------------------------------
(* One replica.                                                            *)

Start(r) ==
  /\ At(r, "down")
  /\ Goto(r, "lock")
  /\ UNCHANGED <<minute, lease, keys, row, dropped, wake, key, ticks, faults>>

\* A bug: the lock is taken whether it is free or not.
CheckIdempotentAlways(free) == TRUE

\* SETNX: of the calls with a name only the first gets it, until it expires.
CheckIdempotent(free) == free

\* The lock of the preparation; without it the replica prepares nothing and does
\* not wait.  An error counts as not getting it, also when the lock is taken and
\* only the reply is lost.
Lock(r) ==
  /\ At(r, "lock")
  /\ LET free == CheckIdempotent(minute >= lease) IN
     \/ free /\ lease' = minute + Hour /\ Goto(r, "get") /\ UNCHANGED faults
     \/ ~free /\ Goto(r, "cron") /\ UNCHANGED <<lease, faults>>
     \/ /\ Error
        /\ Goto(r, "cron")
        /\ UNCHANGED lease \/ (free /\ lease' = minute + Hour)
  /\ UNCHANGED <<minute, keys, row, dropped, wake, key, ticks>>

\* A bug: the graph is created without a look at what is there.
GetGraphByIDNot(r) ==
  /\ At(r, "get")
  /\ Goto(r, "create")
  /\ UNCHANGED <<minute, lease, keys, row, dropped, wake, key, ticks, faults>>

\* Is there a graph with id 1?  An error counts as no.
GetGraphByID(r) ==
  /\ At(r, "get")
  /\ \/ PythonDepsGraph \in Present /\ Goto(r, "cron") /\ UNCHANGED faults
     \/ PythonDepsGraph \notin Present /\ Goto(r, "create") /\ UNCHANGED faults
     \/ Goto(r, "create") /\ Error
  /\ UNCHANGED <<minute, lease, keys, row, dropped, wake, key, ticks>>

\* CreateGraph inserts the row under the next free id, whatever id was asked for.
\* An error is ignored; the row may be there nevertheless.
InsertGraph(r) ==
  /\ At(r, "create")
  /\ \/ /\ InsertRow("schedule", lease)
        /\ Goto(r, "publish")
        /\ UNCHANGED <<wake, faults>>
     \/ /\ Error
        /\ Goto(r, "sleep")
        /\ wake' = [wake EXCEPT ![r] = minute + 1]
        /\ InsertRow("schedule", lease) \/ UNCHANGED row
  /\ UNCHANGED <<minute, lease, keys, dropped, key, ticks>>

\* CreateGraph publishes the task that makes the space, failing or not (the task
\* itself: TaskQueue, GraphLifecycle); then the replica sleeps for a minute.
PublishTask(r) ==
  /\ At(r, "publish")
  /\ Goto(r, "sleep")
  /\ wake' = [wake EXCEPT ![r] = minute + 1]
  /\ UNCHANGED <<minute, lease, keys, row, dropped, key, ticks, faults>>

Wake(r) ==
  /\ At(r, "sleep")
  /\ minute >= wake[r]
  /\ Goto(r, "cron")
  /\ wake' = [wake EXCEPT ![r] = 0]
  /\ UNCHANGED <<minute, lease, keys, row, dropped, key, ticks, faults>>

\* A bug: whoever finds the key schedules.
CreateCronTaskInverted(r) ==
  /\ At(r, "cron")
  /\ keys' = keys \cup {minute}
  /\ Goto(r, IF minute \in keys THEN "run" ELSE "serving")
  /\ UNCHANGED <<minute, lease, row, dropped, wake, key, ticks, faults>>

\* The key of the current minute; who does not get it, or gets an error and may
\* have taken it, serves requests and never schedules.
CreateCronTask(r) ==
  /\ At(r, "cron")
  /\ LET free == CheckIdempotent(minute \notin keys) IN
     \/ /\ free
        /\ keys' = keys \cup {minute}
        /\ key' = [key EXCEPT ![r] = minute]
        /\ Goto(r, "run")
        /\ UNCHANGED faults
     \/ ~free /\ Goto(r, "serving") /\ UNCHANGED <<keys, key, faults>>
     \/ /\ Error
        /\ Goto(r, "serving")
        /\ keys' = keys \/ (free /\ keys' = keys \cup {minute})
        /\ UNCHANGED key
  /\ UNCHANGED <<minute, lease, row, dropped, wake, ticks>>

\* Register the cron expression and run until the process ends; the key stays taken
\* when one of the two fails.
ScheduleTask(r) ==
  /\ At(r, "run")
  /\ \/ Goto(r, "scheduling") /\ UNCHANGED faults
     \/ Goto(r, "serving") /\ Error
  /\ UNCHANGED <<minute, lease, keys, row, dropped, wake, key, ticks>>

Crash(r) ==
  /\ ~At(r, "down")
  /\ Goto(r, "down")
  /\ wake' = [wake EXCEPT ![r] = 0]
  /\ key' = [key EXCEPT ![r] = 0]
  /\ faults' = faults \cup {"crash"}
  /\ UNCHANGED <<minute, lease, keys, row, dropped, ticks>>
-----------------------------------------------------------------------------
(* The rest of the system.                                                 *)

UserCreates ==
  /\ Cardinality({i \in Ids : row[i].by = "user"}) < MaxUser
  /\ InsertRow("user", 0)
  /\ UNCHANGED <<minute, lease, keys, dropped, pc, wake, key, ticks, faults>>

\* DropGraph and DropGroup delete rows, also that of a prepared graph.
UserDrops ==
  /\ \E D \in SUBSET Present : D # {} /\ dropped' = dropped \cup D
  /\ UNCHANGED <<minute, lease, keys, row, pc, wake, key, ticks, faults>>

\* Assumed of time: a replica that got the lock asks for the graph and inserts it
\* before the lease ends.
Prompt(m) == \A r \in Replica : pc[r] \in {"get", "create"} => m < lease

\* The next minute; on the hour every scheduler that runs enqueues a tick.
Minute ==
  /\ minute < MaxMinute
  /\ Prompt(minute + 1)
  /\ minute' = minute + 1
  /\ ticks' = IF minute' % Hour = 0 THEN {r \in Replica : At(r, "scheduling")} ELSE ticks
  /\ UNCHANGED <<lease, keys, row, dropped, pc, wake, key, faults>>
-----------------------------------------------------------------------------
Step(r) ==
  \/ Start(r) \/ Lock(r) \/ GetGraphByID(r) \/ InsertGraph(r) \/ PublishTask(r)
  \/ Wake(r) \/ CreateCronTask(r) \/ ScheduleTask(r)

Next == Minute \/ UserCreates \/ UserDrops \/ \E r \in Replica : Step(r) \/ Crash(r)

Spec == Init /\ [][Next]_vars

\* Time passes and a replica that runs goes on.
FairSpec == Spec /\ WF_vars(Minute) /\ \A r \in Replica : WF_vars(Step(r))
-----------------------------------------------------------------------------
(* Properties.                                                             *)

\* However replicas start, crash and fail, the prepared graph is created at most
\* once under a lease: get and create are one step for the others (graph.go:51).
PreparedOncePerLease ==
  \A i, j \in Ids :
    i # j /\ row[i].by = "schedule" /\ row[j].by = "schedule" =>
      row[i].until # row[j].until

\* Without errors, and until somebody drops the graph with id 1, it is created at
\* most once ever: also when a lease ends, replicas crash and start again, and a
\* user's graph gets the id 1 in between (graph.go:53).  Once that graph is dropped
\* every further lease may create another one, under an id that nobody asks for.
PreparedOnce ==
  "error" \notin faults /\ PythonDepsGraph \notin dropped =>
    Cardinality({i \in Ids : row[i].by = "schedule"}) <= 1

\* Two replicas that schedule started in different minutes, and each tick comes
\* from a replica with a key of its own (task.go:64, :69).
OneSchedulerPerMinute ==
  /\ \A r, s \in Replica : pc[r] = "scheduling" /\ pc[s] = "scheduling" /\ r # s =>
       key[r] # key[s]
  /\ Cardinality(ticks) <= Cardinality(keys)

\* Without crashes and errors, some replica ends up scheduling (task.go:69), unless
\* time stops before a sleep is over (MaxMinute).
SomeoneSchedules ==
  <>[] \/ faults # {}
       \/ \E r \in Replica : pc[r] = "scheduling" \/ wake[r] > MaxMinute

\* At most one replica is between the lock and the insertion, under a lease that
\* has not ended and has no prepared graph yet.
LeaseInv ==
  /\ \A i \in Ids : row[i].until <= lease
  /\ \A r \in Replica : pc[r] \in {"get", "create"} =>
       /\ minute < lease
       /\ \A i \in Ids : row[i].by = "schedule" => row[i].until # lease
       /\ \A s \in Replica : pc[s] \in {"get", "create"} => r = s

\* Without errors and the drop of graph 1, a replica about to insert the graph is
\* the first to do so.
FirstInv ==
  "error" \notin faults /\ PythonDepsGraph \notin dropped =>
    \A i \in Ids : row[i].by = "schedule" =>
      /\ \A r \in Replica : pc[r] # "create"
      /\ \A j \in Ids : row[j].by = "schedule" => i = j

\* The keys of the replicas that schedule are taken, and distinct.
KeyInv ==
  \A r \in Replica : pc[r] \in {"run", "scheduling"} =>
    /\ key[r] \in keys
    /\ \A s \in Replica : pc[s] \in {"run", "scheduling"} /\ key[s] = key[r] => r = s

\* The inductive invariant.
IInv ==
  /\ TypeOK
  /\ LeaseInv
  /\ FirstInv
  /\ KeyInv
  /\ PreparedOncePerLease
  /\ OneSchedulerPerMinute
=============================================================================
