------------------------ MODULE TaskQueueRefinement ------------------------
(* The task pipeline keeps the promise of TaskPromise to published tasks.  *)
EXTENDS TaskQueue

\* A handler of t is being executed, by a delivery or by a goroutine that asynq
\* has abandoned (but not pushed back).
HandlerRuns(t) == pc[t] = "handling" \/ \E s \in Server : zombie[t][s] > 0

jobPhase ==
  [t \in Published |->
     IF mq[t] = "absent" THEN "unsent"
     ELSE IF mq[t] = "pending" THEN "waiting"
     ELSE IF HandlerRuns(t) THEN "running"
     ELSE IF mq[t] = "active" THEN "returned" ELSE "ended"]

jobLeft == [t \in Published |-> left[t]]
jobRuns == [t \in Published |-> started[t]]

Promise == INSTANCE TaskPromise
  WITH Job <- Published, Host <- Server, MaxRestarts <- MaxShutdowns,
       phase <- jobPhase, left <- jobLeft, runs <- jobRuns, restarts <- shutdowns

\* Whatever times out, crashes or loses its lease, the handler of a published
\* task runs once at a time (MaxRetry(0), task_impl_v2.go:58; handle, main.go:93).
\* A graceful restart makes it run again, once, and then maybe next to the
\* handler that the stopping process left behind.
KeepsPromise == Promise!PromiseSpec
=============================================================================
