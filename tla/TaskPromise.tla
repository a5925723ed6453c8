---------------------------- MODULE TaskPromise ----------------------------
(***************************************************************************)
(* What the task pipeline promises the handlers of published tasks.        *)
(*                                                                         *)
(* A job is one PublishTask call.  Because published tasks have            *)
(* MaxRetry(0), its handler runs again only when a consumer that is being  *)
(* restarted gracefully pushed the message back to the queue, at most once *)
(* per restart.  The handler that was pushed back is left behind: it goes  *)
(* on until it returns or its process has ended, next to the second run.   *)
(* But for those, the handler runs once at a time.  A job may be lost: the *)
(* process that ran the handler crashed.  TaskQueue implements this        *)
(* specification (TaskQueueRefinement), and GraphLifecycle runs the        *)
(* handlers of CreateGraph and UpdateGraph under it.                       *)
(***************************************************************************)
EXTENDS Naturals

CONSTANTS
  Job,        \* the published tasks
  Host,       \* the consumer processes
  MaxRestarts \* bound: graceful restarts of consumers in a behaviour

VARIABLES
  phase,   \* phase[j]: where job j is
  left,    \* left[j]: processes on their way out that still run a handler of j
  runs,    \* runs[j]: how often the handler of j was begun
  restarts \* graceful restarts so far

promiseVars == <<phase, left, runs, restarts>>

\* unsent, waiting in the queue, handler running, handler gone but the message
\* not settled, settled
Phase == {"unsent", "waiting", "running", "returned", "ended"}

PromiseInit ==
  /\ phase = [j \in Job |-> "unsent"]
  /\ left = [j \in Job |-> {}]
  /\ runs = [j \in Job |-> 0]
  /\ restarts = 0

Submit(j) ==
  /\ phase[j] = "unsent"
  /\ phase' = [phase EXCEPT ![j] = "waiting"]
  /\ UNCHANGED <<left, runs, restarts>>

Begin(j) ==
  /\ phase[j] = "waiting"
  /\ phase' = [phase EXCEPT ![j] = "running"]
  /\ runs' = [runs EXCEPT ![j] = @ + 1]
  /\ UNCHANGED <<left, restarts>>

\* The handler returns.  Its message may have been settled before: asynq had
\* given up on the delivery.
Return(j) ==
  /\ phase[j] = "running"
  /\ \E p \in {"returned", "ended"} : phase' = [phase EXCEPT ![j] = p]
  /\ UNCHANGED <<left, runs, restarts>>

Settle(j) ==
  /\ phase[j] = "returned"
  /\ phase' = [phase EXCEPT ![j] = "ended"]
  /\ UNCHANGED <<left, runs, restarts>>

Running == {j \in Job : phase[j] = "running"}

\* A graceful restart of a consumer begins.
Restart ==
  /\ restarts < MaxRestarts
  /\ restarts' = restarts + 1
  /\ UNCHANGED <<phase, left, runs>>

\* A process h on its way out pushes job j back to the queue, once per restart;
\* a handler that was at work is left behind.
PushBack(j, h) ==
  /\ phase[j] \in {"running", "returned"}
  /\ runs[j] <= restarts
  /\ h \notin left[j]
  /\ phase' = [phase EXCEPT ![j] = "waiting"]
  /\ left' = IF phase[j] = "running" THEN [left EXCEPT ![j] = @ \cup {h}] ELSE left
  /\ UNCHANGED <<runs, restarts>>

LeftReturns(j, h) ==
  /\ h \in left[j]
  /\ left' = [left EXCEPT ![j] = @ \ {h}]
  /\ UNCHANGED <<phase, runs, restarts>>

\* The processes in L end, or one that runs handlers of the jobs in H; the
\* messages of those in E were settled already.
Lose(H, L) ==
  /\ H \subseteq Running
  /\ \E E \in SUBSET H :
       phase' = [j \in Job |-> IF j \in E THEN "ended"
                               ELSE IF j \in H THEN "returned" ELSE phase[j]]
  /\ left' = [j \in Job |-> left[j] \ L]
  /\ UNCHANGED <<runs, restarts>>

PromiseNext ==
  \/ \E j \in Job : Submit(j) \/ Begin(j) \/ Return(j) \/ Settle(j)
  \/ Restart
  \/ \E j \in Job, h \in Host : PushBack(j, h) \/ LeftReturns(j, h)
  \/ \E H \in SUBSET Job, L \in SUBSET Host : Lose(H, L)

PromiseSpec == PromiseInit /\ [][PromiseNext]_promiseVars
=============================================================================
