----------------------------- MODULE TaskQueue -----------------------------
(***************************************************************************)
(* The task pipeline between the Graph service and the Task consumers.     *)
(*                                                                         *)
(* The Graph service stores a task in Redis with status New (UpsertTask)   *)
(* and then enqueues it in asynq (PublishTask).  A consumer process runs   *)
(* the handler of the task, stores the result under the same id and only   *)
(* then lets asynq delete the message (handle).  When the last attempt     *)
(* fails, reportError stores status Err.  The browser polls the stored     *)
(* task through FetchTask until it sees a status other than New.           *)
(*                                                                         *)
(* Two stores therefore describe one task: the status key in Redis (kv),   *)
(* which expires, and the message in asynq (mq), which has its own         *)
(* timeout, lease and retry counter.  Every write to either of them can    *)
(* fail and a consumer can crash or be restarted between any two of them.  *)
(* A handler that asynq has given up on keeps running (zombie), and so     *)
(* does one whose message a stopping consumer has pushed back to the       *)
(* queue, until its process has ended (left).                              *)
(***************************************************************************)
EXTENDS Naturals, FiniteSets

CONSTANTS
  Task,         \* the tasks: one per PublishTask call or scheduler tick
  Cron,         \* the tasks of the cron scheduler, enqueued with MaxRetry(3)
  CronId,       \* the id that all ticks of the schedule share
  CronRetry,    \* that retry limit (3 in graph/mq/task_impl_v2.go)
  Server,       \* the consumer processes (2 replicas in k8s/chs_task.yaml)
  Concurrency,  \* worker goroutines of a process (2 in consumer/task/main.go)
  MaxShutdowns, \* bound: graceful restarts of consumers in a behaviour
  Nobody        \* owner of a task no process works on

ASSUME TaskQueueAssumption ==
  /\ Cron \subseteq Task
  /\ CronId \notin Task
  /\ CronRetry \in Nat
  /\ Concurrency \in Nat \ {0}
  /\ MaxShutdowns \in Nat
  /\ Nobody \notin Server

VARIABLES
  pub,       \* pub[t]: where PublishTask(t) is in the Graph service
  kv,        \* kv[k]: the status under the id k in Redis
  late,      \* tasks with a SET(Finished) in flight whose caller gave up on it
  mq,        \* mq[t]: the message in asynq
  retried,   \* retried[t]: the Retried counter of the message
  pc,        \* pc[t]: where the goroutine of the current delivery is
  owner,     \* owner[t]: the process whose worker slot the delivery occupies
  zombie,    \* zombie[t][s]: abandoned goroutines on s still inside h.Handle(t)
  left,      \* left[t]: processes still inside h.Handle(t) that pushed t back
  stopping,  \* processes that are being shut down
  view,      \* view[t]: what the polling browser last saw
  started,   \* history: how often h.Handle(t) was called
  faulted,   \* history: tasks hit by a timeout, crash, lost lease or lost write
  shutdowns  \* history: graceful restarts so far

procVars    == <<left, stopping>>
queueVars   == <<mq, retried, pc, owner, zombie, procVars>>
historyVars == <<started, faulted, shutdowns>>
vars == <<pub, kv, late, mq, retried, pc, owner, zombie, left, stopping, view,
          started, faulted, shutdowns>>

PubState  == {"idle", "saved", "ok", "failed"}
Status    == {"none", "New", "Finished", "Err", "expired"}
MqState   == {"absent", "pending", "active", "done", "archived"}
PC        == {"idle", "handling", "writing", "acking", "failed", "reported"}
ViewState == {"nothing", "waiting", "result", "error"}

Published == Task \ Cron
Key == Published \cup {CronId}

\* A bug: no MaxRetry option; asynq retries 25 times then.
RetryDefault(t) == 25

\* The MaxRetry option of the two enqueue calls.
Retry(t) == IF t \in Cron THEN CronRetry ELSE 0

\* The id in the payload.  A schedule is registered with one payload, so its
\* ticks write their status under the same id; nobody reads it.
Id(t) == IF t \in Cron THEN CronId ELSE t

TypeOK ==
  /\ pub \in [Task -> PubState]
  /\ kv \in [Key -> Status]
  /\ late \in SUBSET Task
  /\ mq \in [Task -> MqState]
  /\ retried \in [Task -> Nat]
  /\ pc \in [Task -> PC]
  /\ owner \in [Task -> Server \cup {Nobody}]
  /\ zombie \in [Task -> [Server -> Nat]]
  /\ left \in [Task -> SUBSET Server]
  /\ stopping \in SUBSET Server
  /\ view \in [Task -> ViewState]
  /\ started \in [Task -> Nat]
  /\ faulted \in SUBSET Task
  /\ shutdowns \in Nat

Init ==
  /\ pub = [t \in Task |-> "idle"]
  /\ kv = [k \in Key |-> "none"]
  /\ late = {}
  /\ mq = [t \in Task |-> "absent"]
  /\ retried = [t \in Task |-> 0]
  /\ pc = [t \in Task |-> "idle"]
  /\ owner = [t \in Task |-> Nobody]
  /\ zombie = [t \in Task |-> [s \in Server |-> 0]]
  /\ left = [t \in Task |-> {}]
  /\ stopping = {}
  /\ view = [t \in Task |-> "nothing"]
  /\ started = [t \in Task |-> 0]
  /\ faulted = {}
  /\ shutdowns = 0
-----------------------------------------------------------------------------
(* The Graph service: PublishTask and the scheduler.                       *)

\* UpsertTask(New).  On an error PublishTask gives up; the SET may have landed.
UpsertNew(t) ==
  /\ t \notin Cron
  /\ pub[t] = "idle"
  /\ \/ /\ pub' = [pub EXCEPT ![t] = "saved"]
        /\ kv' = [kv EXCEPT ![t] = "New"]
     \/ /\ pub' = [pub EXCEPT ![t] = "failed"]
        /\ \/ kv' = [kv EXCEPT ![t] = "New"]
           \/ UNCHANGED kv
  /\ UNCHANGED <<late, queueVars, view, historyVars>>

\* ProduceTaskMsg: EnqueueContext with MaxRetry(0).  On an error the caller is
\* told so, but the message may be in the queue nevertheless.
ProduceTaskMsg(t) ==
  /\ pub[t] = "saved"
  /\ \/ /\ pub' = [pub EXCEPT ![t] = "ok"]
        /\ mq' = [mq EXCEPT ![t] = "pending"]
     \/ /\ pub' = [pub EXCEPT ![t] = "failed"]
        /\ \/ mq' = [mq EXCEPT ![t] = "pending"]
           \/ UNCHANGED mq
  /\ UNCHANGED <<kv, late, retried, pc, owner, zombie, procVars, view,
                 historyVars>>

\* A bug: the message is enqueued before the status New is stored.
PublishTaskSwapped(t) ==
  /\ t \notin Cron
  /\ \/ /\ pub[t] = "idle"
        /\ pub' = [pub EXCEPT ![t] = "saved"]
        /\ mq' = [mq EXCEPT ![t] = "pending"]
        /\ UNCHANGED kv
     \/ /\ pub[t] = "saved"
        /\ pub' = [pub EXCEPT ![t] = "ok"]
        /\ kv' = [kv EXCEPT ![t] = "New"]
        /\ UNCHANGED mq
  /\ UNCHANGED <<late, retried, pc, owner, zombie, procVars, view, historyVars>>

PublishTask(t) == UpsertNew(t) \/ ProduceTaskMsg(t)

\* A tick of the asynq scheduler: the message is enqueued with MaxRetry(3) and
\* no status is stored before it.
ScheduleTask(t) ==
  /\ t \in Cron
  /\ mq[t] = "absent"
  /\ mq' = [mq EXCEPT ![t] = "pending"]
  /\ UNCHANGED <<pub, kv, late, retried, pc, owner, zombie, procVars, view,
                 historyVars>>

\* What FetchTask makes of a status: only Finished changes the reply, and Err
\* reads like New.
Reply(status) ==
  CASE status = "Finished" -> "result"
    [] status \in {"New", "Err"} -> "waiting"
    [] OTHER -> "error"

\* FetchTask, called by the browser every five seconds until it sees a result.
\* The GET may fail although the key is there.
FetchTask(t) ==
  /\ pub[t] = "ok"
  /\ view[t] # "result"
  /\ \E v \in {Reply(kv[t]), "error"} : view' = [view EXCEPT ![t] = v]
  /\ UNCHANGED <<pub, kv, late, queueVars, historyVars>>

\* A bug: the key is stored without an expiration.
ExpireNever(k) == FALSE /\ UNCHANGED vars

\* The expiration given to every SET passes (3600 s in both config files).
Expire(k) ==
  /\ kv[k] \in {"New", "Finished", "Err"}
  /\ kv' = [kv EXCEPT ![k] = "expired"]
  /\ UNCHANGED <<pub, late, queueVars, view, historyVars>>

-----------------------------------------------------------------------------
(* A consumer process: the goroutine of one delivery.                      *)

\* h.Handle returns: a result to store, or an error (a panic is recovered by
\* asynq and counts as one).  No handler returns DelayTaskErr, which handle would
\* acknowledge without storing anything.
HandleReturns(t) ==
  /\ pc[t] = "handling"
  /\ \E next \in {"writing", "failed"} : pc' = [pc EXCEPT ![t] = next]
  /\ UNCHANGED <<pub, kv, late, mq, retried, owner, zombie, procVars, view,
                 historyVars>>

\* UpsertTask(Finished).  When it fails handle returns the error; the SET may
\* still land later.
WriteFinished(t) ==
  /\ pc[t] = "writing"
  /\ \/ /\ pc' = [pc EXCEPT ![t] = "acking"]
        /\ kv' = [kv EXCEPT ![Id(t)] = "Finished"]
        /\ UNCHANGED <<late, faulted>>
     \/ /\ pc' = [pc EXCEPT ![t] = "failed"]
        /\ faulted' = faulted \cup {t}
        /\ late' \in {late, late \cup {t}}
        /\ UNCHANGED kv
  /\ UNCHANGED <<pub, mq, retried, owner, zombie, procVars, view, started,
                 shutdowns>>

\* A bug: the error of UpsertTask is dropped and the message acknowledged.
HandleIgnoresWriteError(t) ==
  \/ HandleReturns(t)
  \/ /\ pc[t] = "writing"
     /\ pc' = [pc EXCEPT ![t] = "acking"]
     /\ kv' \in {kv, [kv EXCEPT ![Id(t)] = "Finished"]}
     /\ UNCHANGED <<pub, late, mq, retried, owner, zombie, procVars, view,
                    historyVars>>

\* A bug: the result is stored before the error of h.Handle is looked at.
HandleStoresErrors(t) ==
  /\ pc[t] = "handling"
  /\ \E next \in {"acking", "failed"} : pc' = [pc EXCEPT ![t] = next]
  /\ kv' = [kv EXCEPT ![Id(t)] = "Finished"]
  /\ UNCHANGED <<pub, late, mq, retried, owner, zombie, procVars, view,
                 historyVars>>

handle(t) == HandleReturns(t) \/ WriteFinished(t)

\* A bug: Err is stored after every failed attempt, not only the last one.
reportErrorAlways(t) ==
  /\ pc[t] = "failed"
  /\ pc' = [pc EXCEPT ![t] = "reported"]
  /\ kv' = [kv EXCEPT ![Id(t)] = "Err"]
  /\ UNCHANGED <<pub, late, mq, retried, owner, zombie, procVars, view,
                 historyVars>>

\* A bug: no ErrorHandler is installed.
reportErrorNever(t) ==
  /\ pc[t] = "failed"
  /\ pc' = [pc EXCEPT ![t] = "reported"]
  /\ UNCHANGED <<pub, kv, late, mq, retried, owner, zombie, procVars, view,
                 historyVars>>

\* reportError, the ErrorHandler of the asynq server.  It ignores the error of
\* its own write.
reportError(t) ==
  /\ pc[t] = "failed"
  /\ pc' = [pc EXCEPT ![t] = "reported"]
  /\ \/ /\ retried[t] < Retry(t)
        /\ UNCHANGED <<kv, faulted>>
     \/ /\ retried[t] >= Retry(t)
        /\ kv' = [kv EXCEPT ![Id(t)] = "Err"]
        /\ UNCHANGED faulted
     \/ /\ retried[t] >= Retry(t)
        /\ faulted' = faulted \cup {t}
        /\ UNCHANGED kv
  /\ UNCHANGED <<pub, late, mq, retried, owner, zombie, procVars, view, started,
                 shutdowns>>

\* The handler of an abandoned delivery returns.  Its context is cancelled, so
\* the write of its result fails before it is sent.
ZombieReturns(t, s) ==
  /\ zombie[t][s] > 0
  /\ zombie' = [zombie EXCEPT ![t][s] = @ - 1]
  /\ UNCHANGED <<pub, kv, late, mq, retried, pc, owner, procVars, view,
                 historyVars>>

\* The handler of a delivery that s has pushed back returns, with its context
\* cancelled like that of any other abandoned one.
LeftReturns(t, s) ==
  /\ s \in left[t]
  /\ left' = [left EXCEPT ![t] = @ \ {s}]
  /\ UNCHANGED <<pub, kv, late, mq, retried, pc, owner, zombie, stopping, view,
                 historyVars>>

\* A SET(Finished) that its caller had given up on reaches Redis.
LateWrite(t) ==
  /\ t \in late
  /\ late' = late \ {t}
  /\ kv' = [kv EXCEPT ![Id(t)] = "Finished"]
  /\ UNCHANGED <<pub, queueVars, view, historyVars>>

-----------------------------------------------------------------------------
(* asynq (v0.24.1), as the two services use it.                            *)

Slots(s) == {t \in Task : owner[t] = s}

\* A process starts a delivery when one of its worker slots is free; one that is
\* being shut down starts none.
Dequeue(t, s) ==
  /\ mq[t] = "pending"
  /\ s \notin stopping
  /\ Cardinality(Slots(s)) < Concurrency
  /\ mq' = [mq EXCEPT ![t] = "active"]
  /\ pc' = [pc EXCEPT ![t] = "handling"]
  /\ owner' = [owner EXCEPT ![t] = s]
  /\ started' = [started EXCEPT ![t] = @ + 1]
  /\ UNCHANGED <<pub, kv, late, retried, zombie, procVars, view, faulted,
                 shutdowns>>

\* The message of a failed attempt is archived when its retries are used up
\* and scheduled again otherwise (the delay is left out).
FailMessage(t) ==
  \/ /\ retried[t] >= Retry(t)
     /\ mq' = [mq EXCEPT ![t] = "archived"]
     /\ UNCHANGED retried
  \/ /\ retried[t] < Retry(t)
     /\ mq' = [mq EXCEPT ![t] = "pending"]
     /\ retried' = [retried EXCEPT ![t] = @ + 1]

\* The goroutine of a delivery ends and frees its slot.
Release(t) ==
  /\ pc' = [pc EXCEPT ![t] = "idle"]
  /\ owner' = [owner EXCEPT ![t] = Nobody]

\* handle returned nil: the message is deleted.
Ack(t) ==
  /\ pc[t] = "acking"
  /\ mq' = [mq EXCEPT ![t] = "done"]
  /\ Release(t)
  /\ UNCHANGED <<pub, kv, late, retried, zombie, procVars, view, historyVars>>

\* The attempt failed and the ErrorHandler has run.
Nack(t) ==
  /\ pc[t] = "reported"
  /\ FailMessage(t)
  /\ Release(t)
  /\ UNCHANGED <<pub, kv, late, zombie, procVars, view, historyVars>>

\* asynq gives up on a goroutine: inside h.Handle it runs on as a zombie, and a
\* SET it has sent may still land.
Abandon(t) ==
  /\ zombie' = IF pc[t] = "handling"
               THEN [zombie EXCEPT ![t][owner[t]] = @ + 1] ELSE zombie
  /\ late' \in IF pc[t] = "writing" THEN {late, late \cup {t}} ELSE {late}

\* A bug: a task without a deadline; enqueue sets neither Timeout nor Deadline,
\* and asynq's default of 30 minutes is what ends a hanging handler.
TimeoutNever(t) == FALSE /\ UNCHANGED vars

\* The default timeout passes.  The ErrorHandler runs with the expired context,
\* so its write of Err fails in the Redis client.
Timeout(t) ==
  /\ pc[t] \in {"handling", "writing", "acking"}
  /\ Abandon(t)
  /\ pc' = [pc EXCEPT ![t] = "reported"]
  /\ faulted' = faulted \cup {t}
  /\ UNCHANGED <<pub, kv, mq, retried, owner, procVars, view, started, shutdowns>>

\* A process loses the lease of a delivery (it could not extend it in time), or
\* it is being shut down and fails to push the message back: the slot is freed
\* and the message stays active without an owner.
LoseLease(t) ==
  /\ pc[t] \in {"handling", "writing", "acking", "reported"}
  /\ Abandon(t)
  /\ Release(t)
  /\ faulted' = faulted \cup {t}
  /\ UNCHANGED <<pub, kv, mq, retried, procVars, view, started, shutdowns>>

\* The recoverer of some process finds an expired lease.  It calls no
\* ErrorHandler.
Recover(t) ==
  /\ mq[t] = "active"
  /\ owner[t] = Nobody
  /\ FailMessage(t)
  /\ UNCHANGED <<pub, kv, late, pc, owner, zombie, procVars, view, historyVars>>

\* Process s is told to stop (SIGTERM): it starts no more deliveries and waits
\* for those at work.
Shutdown(s) ==
  /\ s \notin stopping
  /\ shutdowns < MaxShutdowns
  /\ shutdowns' = shutdowns + 1
  /\ stopping' = stopping \cup {s}
  /\ UNCHANGED <<pub, kv, late, mq, retried, pc, owner, zombie, left, view,
                 started, faulted>>

\* It has waited eight seconds: the worker of a delivery that is not settled
\* pushes the message back to the queue, without counting a retry, cancels its
\* context and leaves; h.Handle, when it is at work, goes on.
Requeue(t) ==
  /\ owner[t] \in stopping
  /\ pc[t] \in {"handling", "writing", "acking", "failed"}
  /\ mq' = [mq EXCEPT ![t] = "pending"]
  /\ left' = IF pc[t] = "handling"
             THEN [left EXCEPT ![t] = @ \cup {owner[t]}] ELSE left
  /\ late' \in IF pc[t] = "writing" THEN {late, late \cup {t}} ELSE {late}
  /\ faulted' = IF pc[t] \in {"writing", "acking"} THEN faulted \cup {t} ELSE faulted
  /\ Release(t)
  /\ UNCHANGED <<pub, kv, retried, zombie, stopping, view, started, shutdowns>>

\* The goroutines of process s are gone, those of abandoned deliveries too, and
\* it is started again.
Stop(s) ==
  /\ pc' = [t \in Task |-> IF owner[t] = s THEN "idle" ELSE pc[t]]
  /\ owner' = [t \in Task |-> IF owner[t] = s THEN Nobody ELSE owner[t]]
  /\ zombie' = [t \in Task |-> [zombie[t] EXCEPT ![s] = 0]]
  /\ left' = [t \in Task |-> left[t] \ {s}]
  /\ stopping' = stopping \ {s}
  /\ \E L \in SUBSET {t \in Slots(s) : pc[t] = "writing"} :
       late' = late \cup L

\* Process s crashes.  Its messages stay active.
Crash(s) ==
  /\ Stop(s)
  /\ faulted' = faulted \cup Slots(s)
  /\ UNCHANGED <<pub, kv, mq, retried, view, started, shutdowns>>

\* All workers of a process that is being shut down have left: it ends, and with
\* it the handlers that were left behind.
Exit(s) ==
  /\ s \in stopping
  /\ Slots(s) = {}
  /\ Stop(s)
  /\ UNCHANGED <<pub, kv, mq, retried, view, historyVars>>

-----------------------------------------------------------------------------
Delivery(t) ==
  \/ handle(t) \/ reportError(t) \/ Ack(t) \/ Nack(t)
  \/ Timeout(t) \/ LoseLease(t) \/ Recover(t) \/ Requeue(t)
  \/ \E s \in Server : Dequeue(t, s) \/ ZombieReturns(t, s) \/ LeftReturns(t, s)

Next ==
  \/ \E t \in Task : PublishTask(t) \/ ScheduleTask(t) \/ FetchTask(t)
  \/ \E k \in Key : Expire(k)
  \/ \E t \in Task : LateWrite(t) \/ Delivery(t)
  \/ \E s \in Server : Crash(s) \/ Shutdown(s) \/ Exit(s)

Spec == Init /\ [][Next]_vars

\* A step of the worker of a delivery, or of the recoverer of one without a worker,
\* that needs no handler to return.
Progress(t) ==
  WriteFinished(t) \/ reportError(t) \/ Ack(t) \/ Nack(t) \/ Timeout(t) \/ Recover(t)

\* The browser's timer fires and the GET succeeds.
Poll(t) == FetchTask(t) /\ view'[t] = Reply(kv[t])

\* What the code's scheduling guarantees: a worker that can go on does, asynq
\* times out and recovers, the workers pick every queue again and again, a
\* process without workers ends, keys expire and the browser polls.  A handler need
\* not return, a message need not be pushed back, and no call need fail.
Fairness ==
  /\ \A t \in Task :
       /\ WF_vars(Progress(t))
       /\ SF_vars(\E s \in Server : Dequeue(t, s))
  /\ \A t \in Published : WF_vars(Poll(t)) /\ WF_vars(Expire(t))
  /\ WF_vars(\E s \in Server : Exit(s))

FairSpec == Spec /\ Fairness

-----------------------------------------------------------------------------
(* Properties.                                                             *)

\* The goroutines of process s inside h.Handle(t).
Handlers(t, s) ==
  (IF pc[t] = "handling" /\ owner[t] = s THEN 1 ELSE 0)
    + zombie[t][s] + (IF s \in left[t] THEN 1 ELSE 0)

\* A task of PublishTask is never handled by two goroutines of one process, nor
\* by two processes unless one of them is being shut down, whatever times out,
\* crashes or loses its lease; and nothing is pending beside a handler that asynq
\* gave up on otherwise.  UpdateGraph, which adds to counters and degrees, has no
\* other protection (MaxRetry(0), task_impl_v2.go:58).  The exception is real: a
\* rolling update runs two handlers of one task for a moment (main.go:78).
NoOverlappingHandlers ==
  \A t \in Published : \A s \in Server :
    /\ Handlers(t, s) <= 1
    /\ \A r \in Server \ {s} :
         Handlers(t, s) > 0 /\ Handlers(t, r) > 0 => {s, r} \cap stopping # {}
    /\ zombie[t][s] > 0 => mq[t] # "pending"

\* The handler of a published task is called once (MaxRetry(0),
\* task_impl_v2.go:58) and that of a tick once more than its retries
\* (task_impl_v2.go:82), plus once per graceful restart, which may have pushed
\* the message back: no crash, timeout or lost reply adds a call.
AttemptsBounded ==
  /\ \A t \in Published : started[t] <= 1 + shutdowns
  /\ \A t \in Cron : started[t] <= CronRetry + 1 + shutdowns

\* asynq deletes a published message only when its result was stored: the write of the
\* result comes before the acknowledgement, and its error prevents it
\* (main.go:107).
DoneMeansStored ==
  \A t \in Published : mq[t] = "done" => kv[t] \in {"Finished", "expired"}

\* The retries of t are used up, and it is archived or will be.
Exhausted(t) ==
  /\ retried[t] = Retry(t)
  /\ \/ mq[t] = "archived"
     \/ mq[t] = "active" /\ pc[t] \in {"idle", "reported"}

\* Err is stored when no attempt will follow: when an id reads Err, a task of that
\* id is archived, or about to be, and will not be delivered again (main.go:52).
ErrMeansExhausted ==
  \A k \in Key : kv[k] = "Err" => \E t \in Task : Id(t) = k /\ Exhausted(t)

\* Without a timeout, crash, lost lease or lost write, a published task that
\* asynq gave up on reads Err until its key expires.
ArchivedIsReported ==
  \A t \in Published :
    mq[t] = "archived" /\ t \notin faulted => kv[t] \in {"Err", "expired"}

\* A status that the browser may already have acted on never goes back to New:
\* PublishTask stores New before the consumers can see the message (task.go:28).
SettledNeverReopens ==
  [][\A k \in Key : kv[k] \in {"Finished", "Err"} => kv'[k] # "New"]_vars

\* Without a fault, the first outcome stored for a published task is the only one
\* until it expires.
OneOutcome ==
  [][\A t \in Published :
       kv[t] \in {"Finished", "Err"} /\ t \notin faulted'
         => kv'[t] \in {kv[t], "expired"}]_vars

\* Every enqueued message leaves the queue for good, even when handlers hang and
\* consumers crash or are restarted: asynq times the attempts out and counts them.
QueueDrains ==
  <>[](\A t \in Task : mq[t] \in {"absent", "done", "archived"})

\* A polling browser is not told "not yet" for ever: it gets the result, or an
\* error once the key of a failed task has expired.
PollerIsAnswered ==
  \A t \in Published : view[t] = "waiting" ~> view[t] \in {"result", "error"}

\* main.go:53 says of reportError: the execution failed, write the task status.
\* After a timeout it cannot: a failed task would read Err or be expired.
FailureIsStored ==
  \A t \in Published : mq[t] = "archived" => kv[t] # "New"

-----------------------------------------------------------------------------
(* The inductive invariant behind the properties above.                    *)

\* A delivery has an owner exactly while its goroutine exists, and the message
\* is active then; one that lost its owner was hit by a fault.
DeliveryInv ==
  \A t \in Task :
    /\ pc[t] # "idle" <=> owner[t] # Nobody
    /\ pc[t] # "idle" => mq[t] = "active"
    /\ mq[t] = "active" /\ pc[t] = "idle" => t \in faulted
    /\ retried[t] <= Retry(t)
    /\ t \in late => t \in faulted /\ mq[t] # "absent"

\* PublishTask stores before it enqueues, and never works on a cron task.
PublishInv ==
  \A t \in Task :
    /\ t \in Cron => pub[t] = "idle"
    /\ t \notin Cron /\ pub[t] \in {"idle", "saved"} => mq[t] = "absent"
    /\ t \in Published /\ kv[t] \in {"Finished", "Err"} => mq[t] # "absent"

\* What the status says while a delivery is under way.
StatusInv ==
  \A t \in Published :
    /\ pc[t] = "acking" => kv[t] \in {"Finished", "expired"}
    /\ /\ pc[t] \in {"handling", "writing", "failed"} \/ mq[t] = "pending"
       /\ t \notin faulted
       => kv[t] \notin {"Finished", "Err"}
    /\ pc[t] = "reported" /\ t \notin faulted => kv[t] \in {"Err", "expired"}

\* An abandoned handler of a published task outlives its message's last delivery.
ZombieInv ==
  \A t \in Published : \A s \in Server :
    zombie[t][s] > 0 => /\ zombie[t][s] = 1
                        /\ \A r \in Server \ {s} : zombie[t][r] = 0
                        /\ pc[t] \in {"idle", "reported"}
                        /\ mq[t] \in {"active", "archived"}

\* Only a process that is being shut down leaves a handler behind, and it starts
\* no other.
LeftInv ==
  \A t \in Task :
    /\ left[t] \subseteq stopping
    /\ owner[t] \notin left[t]
    /\ t \in Published => \A s \in left[t] : zombie[t][s] = 0

\* One attempt of a message was used up for each retry counted, and one for each
\* graceful restart but that of the process that holds it now.
AttemptInv ==
  \A t \in Task :
    started[t] + (IF owner[t] \in stopping THEN 1 ELSE 0)
      <= retried[t] + shutdowns
         + (IF mq[t] \in {"absent", "pending"} THEN 0 ELSE 1)

IInv ==
  /\ TypeOK
  /\ DeliveryInv
  /\ PublishInv
  /\ StatusInv
  /\ ZombieInv
  /\ LeftInv
  /\ AttemptInv
  /\ DoneMeansStored
  /\ ErrMeansExhausted
  /\ ArchivedIsReported

=============================================================================
