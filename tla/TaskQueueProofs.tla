-------------------------- MODULE TaskQueueProofs --------------------------
(* Proofs about TaskQueue for every set of tasks, consumers and bounds.    *)
EXTENDS TaskQueueRefinement, TLAPS

LEMMA RetryType ==
  \A t \in Task : Retry(t) \in Nat /\ (t \in Published => Retry(t) = 0)
BY TaskQueueAssumption DEF Retry, Published

\* Published tasks have ids of their own.
LEMMA IdFacts ==
  /\ Published \subseteq Key /\ Published \subseteq Task
  /\ \A t \in Task : /\ Id(t) \in Key
                     /\ t \in Published => Id(t) = t
                     /\ \A u \in Published : Id(t) = u => t = u
                     /\ t \notin Cron <=> t \in Published
BY TaskQueueAssumption DEF Id, Key, Published

LEMMA FailMessageType ==
  ASSUME TypeOK, NEW t \in Task, FailMessage(t)
  PROVE  mq' \in [Task -> MqState] /\ retried' \in [Task -> Nat]
<1>1. retried[t] \in Nat /\ retried[t] + 1 \in Nat
  BY DEF TypeOK
<1> QED
  BY <1>1 DEF FailMessage, TypeOK, MqState

LEMMA AbandonType ==
  ASSUME TypeOK, NEW t \in Task, Abandon(t)
  PROVE  zombie' \in [Task -> [Server -> Nat]] /\ late' \in SUBSET Task
<1>1. late' \in SUBSET Task
  BY DEF Abandon, TypeOK
<1>2. CASE pc[t] = "handling"
  <2>1. /\ zombie \in [Task -> [Server -> Nat]]
        /\ zombie[t] \in [Server -> Nat]
    BY DEF TypeOK
  <2>2. zombie' = [zombie EXCEPT ![t] = [zombie[t] EXCEPT ![owner[t]] = @ + 1]]
    BY <1>2 DEF Abandon
  <2>3. ASSUME NEW f \in [Server -> Nat], NEW x
        PROVE  [f EXCEPT ![x] = @ + 1] \in [Server -> Nat]
    <3>1. CASE x \in Server
      BY <3>1
    <3>2. CASE x \notin Server
      <4>1. [f EXCEPT ![x] = @ + 1] = f
        BY <3>2
      <4> QED BY <4>1
    <3> QED
      BY <3>1, <3>2
  <2> QED
    BY <1>1, <2>1, <2>2, <2>3
<1>3. CASE pc[t] # "handling"
  BY <1>1, <1>3 DEF Abandon, TypeOK
<1> QED
  BY <1>2, <1>3

\* The guard of reportError and of the archive, retried >= maxRetry, means
\* equality: the counter never passes the limit.
LEMMA RetriesUsedUp ==
  ASSUME TypeOK, DeliveryInv, NEW t \in Task
  PROVE  /\ retried[t] >= Retry(t) => retried[t] = Retry(t)
         /\ retried[t] < Retry(t) => retried[t] # Retry(t)
<1>1. retried[t] \in Nat /\ Retry(t) \in Nat /\ retried[t] <= Retry(t)
  BY RetryType DEF TypeOK, DeliveryInv
<1> QED
  BY <1>1

LEMMA StopType ==
  ASSUME TypeOK, NEW s \in Server, Stop(s)
  PROVE  /\ pc' \in [Task -> PC] /\ owner' \in [Task -> Server \cup {Nobody}]
         /\ zombie' \in [Task -> [Server -> Nat]]
         /\ left' \in [Task -> SUBSET Server] /\ stopping' \in SUBSET Server
         /\ late' \in SUBSET Task
<1> USE DEF TypeOK
<1>1. late' \in SUBSET Task
  BY DEF Stop, Slots
<1>2. pc' \in [Task -> PC] /\ owner' \in [Task -> Server \cup {Nobody}]
  BY DEF Stop, PC
<1>3. zombie' \in [Task -> [Server -> Nat]]
  BY DEF Stop
<1>4. left' \in [Task -> SUBSET Server] /\ stopping' \in SUBSET Server
  BY DEF Stop
<1> QED
  BY <1>1, <1>2, <1>3, <1>4

LEMMA TypeOKInit == Init => TypeOK
BY TaskQueueAssumption DEF Init, TypeOK, PubState, Status, MqState, PC, ViewState

LEMMA TypeOKStep == TypeOK /\ [Next]_vars => TypeOK'
<1> SUFFICES ASSUME TypeOK, [Next]_vars PROVE TypeOK'
  OBVIOUS
<1> USE TaskQueueAssumption, IdFacts
    DEF TypeOK, PubState, Status, MqState, PC, ViewState, queueVars, procVars, historyVars
<1>1. ASSUME NEW t \in Task, UpsertNew(t) PROVE TypeOK'
  BY <1>1 DEF UpsertNew
<1>2. ASSUME NEW t \in Task, ProduceTaskMsg(t) PROVE TypeOK'
  BY <1>2 DEF ProduceTaskMsg
<1>3. ASSUME NEW t \in Task, ScheduleTask(t) PROVE TypeOK'
  BY <1>3 DEF ScheduleTask
<1>4. ASSUME NEW t \in Task, FetchTask(t) PROVE TypeOK'
  BY <1>4 DEF FetchTask, Reply
<1>5. ASSUME NEW k \in Key, Expire(k) PROVE TypeOK'
  BY <1>5 DEF Expire
<1>6. ASSUME NEW t \in Task, LateWrite(t) PROVE TypeOK'
  BY <1>6 DEF LateWrite
<1>7. ASSUME NEW t \in Task, HandleReturns(t) PROVE TypeOK'
  BY <1>7 DEF HandleReturns
<1>8. ASSUME NEW t \in Task, WriteFinished(t) PROVE TypeOK'
  <2>1. pc' \in [Task -> PC] /\ kv' \in [Key -> Status]
    <3>1. pc' \in [Task -> PC]
      BY <1>8 DEF WriteFinished
    <3>2. kv' = kv \/ kv' = [kv EXCEPT ![Id(t)] = "Finished"]
      BY <1>8 DEF WriteFinished
    <3> QED
      BY <3>1, <3>2
  <2>2. late' \in SUBSET Task /\ faulted' \in SUBSET Task
    BY <1>8 DEF WriteFinished
  <2> QED
    BY <1>8, <2>1, <2>2 DEF WriteFinished
<1>9. ASSUME NEW t \in Task, reportError(t) PROVE TypeOK'
  BY <1>9 DEF reportError
<1>10. ASSUME NEW t \in Task, Ack(t) PROVE TypeOK'
  BY <1>10 DEF Ack, Release
<1>11. ASSUME NEW t \in Task, Nack(t) PROVE TypeOK'
  BY <1>11, FailMessageType DEF Nack, Release
<1>12. ASSUME NEW t \in Task, Timeout(t) PROVE TypeOK'
  BY <1>12, AbandonType DEF Timeout
<1>13. ASSUME NEW t \in Task, LoseLease(t) PROVE TypeOK'
  BY <1>13, AbandonType DEF LoseLease, Release
<1>14. ASSUME NEW t \in Task, Recover(t) PROVE TypeOK'
  BY <1>14, FailMessageType DEF Recover
<1>15. ASSUME NEW t \in Task, NEW s \in Server, Dequeue(t, s) PROVE TypeOK'
  BY <1>15 DEF Dequeue
<1>16. ASSUME NEW t \in Task, NEW s \in Server, ZombieReturns(t, s) PROVE TypeOK'
  BY <1>16 DEF ZombieReturns
<1>17. ASSUME NEW s \in Server, Crash(s) \/ Exit(s) PROVE TypeOK'
  BY <1>17, StopType DEF Crash, Exit, Slots
<1>18. ASSUME NEW t \in Task, Requeue(t) PROVE TypeOK'
  BY <1>18 DEF Requeue, Release
<1>19. ASSUME NEW s \in Server, Shutdown(s) PROVE TypeOK'
  BY <1>19 DEF Shutdown
<1>20. ASSUME NEW t \in Task, NEW s \in Server, LeftReturns(t, s) PROVE TypeOK'
  BY <1>20 DEF LeftReturns
<1>21. CASE UNCHANGED vars
  BY <1>21 DEF vars
<1> QED
  BY <1>1, <1>2, <1>3, <1>4, <1>5, <1>6, <1>7, <1>8, <1>9, <1>10, <1>11,
     <1>12, <1>13, <1>14, <1>15, <1>16, <1>17, <1>18, <1>19, <1>20, <1>21
  DEF Next, PublishTask, handle, Delivery

LEMMA DeliveryInvStep == IInv /\ [Next]_vars => DeliveryInv'
<1> SUFFICES ASSUME IInv, [Next]_vars PROVE DeliveryInv'
  OBVIOUS
<1> USE TaskQueueAssumption, RetryType, IdFacts
    DEF IInv, TypeOK, DeliveryInv, PublishInv, queueVars, procVars, historyVars
<1>1. ASSUME NEW t \in Task, ProduceTaskMsg(t) PROVE DeliveryInv'
  BY <1>1 DEF ProduceTaskMsg
<1>2. ASSUME NEW t \in Task, ScheduleTask(t) PROVE DeliveryInv'
  BY <1>2 DEF ScheduleTask
<1>3. ASSUME NEW t \in Task, LateWrite(t) PROVE DeliveryInv'
  BY <1>3 DEF LateWrite
<1>4. ASSUME NEW t \in Task, HandleReturns(t) PROVE DeliveryInv'
  BY <1>4 DEF HandleReturns
<1>5. ASSUME NEW t \in Task, WriteFinished(t) PROVE DeliveryInv'
  BY <1>5 DEF WriteFinished
<1>6. ASSUME NEW t \in Task, reportError(t) PROVE DeliveryInv'
  BY <1>6 DEF reportError
<1>7. ASSUME NEW t \in Task, Ack(t) PROVE DeliveryInv'
  BY <1>7 DEF Ack, Release
<1>8. ASSUME NEW t \in Task, Nack(t) PROVE DeliveryInv'
  BY <1>8 DEF Nack, FailMessage, Release
<1>9. ASSUME NEW t \in Task, Timeout(t) PROVE DeliveryInv'
  BY <1>9 DEF Timeout, Abandon
<1>10. ASSUME NEW t \in Task, LoseLease(t) PROVE DeliveryInv'
  BY <1>10 DEF LoseLease, Abandon, Release
<1>11. ASSUME NEW t \in Task, Recover(t) PROVE DeliveryInv'
  BY <1>11 DEF Recover, FailMessage
<1>12. ASSUME NEW t \in Task, NEW s \in Server, Dequeue(t, s) PROVE DeliveryInv'
  BY <1>12 DEF Dequeue
<1>13. ASSUME NEW s \in Server, Crash(s) \/ Exit(s) PROVE DeliveryInv'
  BY <1>13 DEF Crash, Exit, Stop, Slots
<1>14. ASSUME NEW t \in Task, Requeue(t) PROVE DeliveryInv'
  BY <1>14 DEF Requeue, Release
<1>15. CASE UNCHANGED <<pc, owner, mq, faulted, retried, late>>
  BY <1>15
<1> QED
  BY <1>1, <1>2, <1>3, <1>4, <1>5, <1>6, <1>7, <1>8, <1>9, <1>10, <1>11,
     <1>12, <1>13, <1>14, <1>15
  DEF Next, vars, PublishTask, handle, Delivery, Shutdown, LeftReturns,
      UpsertNew, FetchTask, Expire,
      ZombieReturns

LEMMA PublishInvStep == IInv /\ [Next]_vars => PublishInv'
<1> SUFFICES ASSUME IInv, [Next]_vars PROVE PublishInv'
  OBVIOUS
<1> USE TaskQueueAssumption, RetryType, IdFacts
    DEF IInv, TypeOK, DeliveryInv, PublishInv, queueVars, procVars, historyVars
<1>1. ASSUME NEW t \in Task, UpsertNew(t) PROVE PublishInv'
  BY <1>1 DEF UpsertNew
<1>2. ASSUME NEW t \in Task, ProduceTaskMsg(t) PROVE PublishInv'
  BY <1>2 DEF ProduceTaskMsg
<1>3. ASSUME NEW t \in Task, ScheduleTask(t) PROVE PublishInv'
  BY <1>3 DEF ScheduleTask
<1>4. ASSUME NEW k \in Key, Expire(k) PROVE PublishInv'
  BY <1>4 DEF Expire
<1>5. ASSUME NEW t \in Task, LateWrite(t) PROVE PublishInv'
  BY <1>5 DEF LateWrite
<1>6. ASSUME NEW t \in Task, WriteFinished(t) PROVE PublishInv'
  BY <1>6 DEF WriteFinished
<1>7. ASSUME NEW t \in Task, reportError(t) PROVE PublishInv'
  BY <1>7 DEF reportError
<1>8. ASSUME NEW t \in Task, Ack(t) PROVE PublishInv'
  BY <1>8 DEF Ack, Release
<1>9. ASSUME NEW t \in Task, Nack(t) PROVE PublishInv'
  BY <1>9 DEF Nack, FailMessage, Release
<1>10. ASSUME NEW t \in Task, Recover(t) PROVE PublishInv'
  BY <1>10 DEF Recover, FailMessage
<1>11. ASSUME NEW t \in Task, NEW s \in Server, Dequeue(t, s) PROVE PublishInv'
  BY <1>11 DEF Dequeue
<1>12. ASSUME NEW t \in Task, Requeue(t) PROVE PublishInv'
  BY <1>12 DEF Requeue, Release
<1>13. CASE UNCHANGED <<pub, mq, kv>>
  BY <1>13
<1> QED
  BY <1>1, <1>2, <1>3, <1>4, <1>5, <1>6, <1>7, <1>8, <1>9, <1>10, <1>11,
     <1>12, <1>13
  DEF Next, vars, PublishTask, handle, Delivery, Shutdown, LeftReturns,
      FetchTask, HandleReturns,
      Timeout, LoseLease, ZombieReturns, Crash, Exit

LEMMA StatusInvStep == IInv /\ [Next]_vars => StatusInv'
<1> SUFFICES ASSUME IInv, [Next]_vars PROVE StatusInv'
  OBVIOUS
<1> USE TaskQueueAssumption, RetryType, IdFacts
    DEF IInv, TypeOK, DeliveryInv, PublishInv, StatusInv, ErrMeansExhausted,
        queueVars, procVars, historyVars
<1>1. ASSUME NEW t \in Task, UpsertNew(t) PROVE StatusInv'
  BY <1>1 DEF UpsertNew
<1>2. ASSUME NEW t \in Task, ProduceTaskMsg(t) PROVE StatusInv'
  BY <1>2 DEF ProduceTaskMsg
<1>3. ASSUME NEW t \in Task, ScheduleTask(t) PROVE StatusInv'
  BY <1>3 DEF ScheduleTask
<1>4. ASSUME NEW k \in Key, Expire(k) PROVE StatusInv'
  BY <1>4 DEF Expire
<1>5. ASSUME NEW t \in Task, LateWrite(t) PROVE StatusInv'
  BY <1>5 DEF LateWrite
<1>6. ASSUME NEW t \in Task, HandleReturns(t) PROVE StatusInv'
  BY <1>6 DEF HandleReturns
<1>7. ASSUME NEW t \in Task, WriteFinished(t) PROVE StatusInv'
  BY <1>7 DEF WriteFinished
<1>8. ASSUME NEW t \in Task, reportError(t) PROVE StatusInv'
  <2>1. /\ retried[t] >= Retry(t) => retried[t] = Retry(t)
        /\ retried[t] < Retry(t) => retried[t] # Retry(t)
    BY RetriesUsedUp
  <2>2. CASE retried[t] < Retry(t) /\ UNCHANGED <<kv, faulted>>
    BY <1>8, <2>1, <2>2 DEF reportError, Status
  <2>3. CASE kv' = [kv EXCEPT ![Id(t)] = "Err"] /\ UNCHANGED faulted
    BY <1>8, <2>1, <2>3 DEF reportError
  <2>4. CASE faulted' = faulted \cup {t} /\ UNCHANGED kv
    BY <1>8, <2>1, <2>4 DEF reportError
  <2> QED
    BY <1>8, <2>2, <2>3, <2>4 DEF reportError
<1>9. ASSUME NEW t \in Task, Ack(t) PROVE StatusInv'
  BY <1>9 DEF Ack, Release
<1>10. ASSUME NEW t \in Task, Nack(t) PROVE StatusInv'
  BY <1>10 DEF Nack, FailMessage, Release
<1>11. ASSUME NEW t \in Task, Timeout(t) PROVE StatusInv'
  BY <1>11 DEF Timeout, Abandon
<1>12. ASSUME NEW t \in Task, LoseLease(t) PROVE StatusInv'
  BY <1>12 DEF LoseLease, Abandon, Release
<1>13. ASSUME NEW t \in Task, Recover(t) PROVE StatusInv'
  BY <1>13 DEF Recover, FailMessage
<1>14. ASSUME NEW t \in Task, NEW s \in Server, Dequeue(t, s) PROVE StatusInv'
  BY <1>14 DEF Dequeue
<1>15. ASSUME NEW s \in Server, Crash(s) \/ Exit(s) PROVE StatusInv'
  BY <1>15 DEF Crash, Exit, Stop, Slots
<1>16. ASSUME NEW t \in Task, Requeue(t) PROVE StatusInv'
  BY <1>16 DEF Requeue, Release
<1>17. CASE UNCHANGED <<pc, kv, mq, faulted, retried>>
  BY <1>17
<1> QED
  BY <1>1, <1>2, <1>3, <1>4, <1>5, <1>6, <1>7, <1>8, <1>9, <1>10, <1>11,
     <1>12, <1>13, <1>14, <1>15, <1>16, <1>17
  DEF Next, vars, PublishTask, handle, Delivery, Shutdown, LeftReturns,
      FetchTask, ZombieReturns

LEMMA ZombieInvStep == IInv /\ [Next]_vars => ZombieInv'
<1> SUFFICES ASSUME IInv, [Next]_vars PROVE ZombieInv'
  OBVIOUS
<1> USE TaskQueueAssumption, RetryType
    DEF IInv, TypeOK, DeliveryInv, PublishInv, ZombieInv, Published,
        queueVars, procVars, historyVars
<1>1. ASSUME NEW t \in Task, ProduceTaskMsg(t) PROVE ZombieInv'
  BY <1>1 DEF ProduceTaskMsg
<1>2. ASSUME NEW t \in Task, ScheduleTask(t) PROVE ZombieInv'
  BY <1>2 DEF ScheduleTask
<1>3. ASSUME NEW t \in Task, HandleReturns(t) PROVE ZombieInv'
  BY <1>3 DEF HandleReturns
<1>4. ASSUME NEW t \in Task, WriteFinished(t) PROVE ZombieInv'
  BY <1>4 DEF WriteFinished
<1>5. ASSUME NEW t \in Task, reportError(t) PROVE ZombieInv'
  BY <1>5 DEF reportError
<1>6. ASSUME NEW t \in Task, Ack(t) PROVE ZombieInv'
  BY <1>6 DEF Ack, Release
<1>7. ASSUME NEW t \in Task, Nack(t) PROVE ZombieInv'
  BY <1>7 DEF Nack, FailMessage, Release
<1>8. ASSUME NEW t \in Task, Timeout(t) PROVE ZombieInv'
  BY <1>8 DEF Timeout, Abandon
<1>9. ASSUME NEW t \in Task, LoseLease(t) PROVE ZombieInv'
  BY <1>9 DEF LoseLease, Abandon, Release
<1>10. ASSUME NEW t \in Task, Recover(t) PROVE ZombieInv'
  BY <1>10 DEF Recover, FailMessage
<1>11. ASSUME NEW t \in Task, NEW s \in Server, Dequeue(t, s) PROVE ZombieInv'
  BY <1>11 DEF Dequeue
<1>12. ASSUME NEW t \in Task, NEW s \in Server, ZombieReturns(t, s) PROVE ZombieInv'
  BY <1>12 DEF ZombieReturns
<1>13. ASSUME NEW s \in Server, Crash(s) \/ Exit(s) PROVE ZombieInv'
  <2>1. Stop(s) /\ UNCHANGED mq
    BY <1>13 DEF Crash, Exit
  <2> QED
    BY <2>1 DEF Stop, Slots
<1>14. ASSUME NEW t \in Task, Requeue(t) PROVE ZombieInv'
  BY <1>14 DEF Requeue, Release
<1>15. CASE UNCHANGED <<zombie, pc, mq>>
  BY <1>15
<1> QED
  BY <1>1, <1>2, <1>3, <1>4, <1>5, <1>6, <1>7, <1>8, <1>9, <1>10, <1>11,
     <1>12, <1>13, <1>14, <1>15
  DEF Next, vars, PublishTask, handle, Delivery, Shutdown, LeftReturns,
      UpsertNew, FetchTask, Expire,
      LateWrite

LEMMA AttemptInvStep == IInv /\ [Next]_vars => AttemptInv'
<1> SUFFICES ASSUME IInv, [Next]_vars PROVE AttemptInv'
  OBVIOUS
<1> USE TaskQueueAssumption, RetryType
    DEF IInv, TypeOK, DeliveryInv, PublishInv, AttemptInv, queueVars, procVars,
        historyVars
<1>1. ASSUME NEW t \in Task, ProduceTaskMsg(t) PROVE AttemptInv'
  BY <1>1 DEF ProduceTaskMsg
<1>2. ASSUME NEW t \in Task, ScheduleTask(t) PROVE AttemptInv'
  BY <1>2 DEF ScheduleTask
<1>3. ASSUME NEW t \in Task, Ack(t) PROVE AttemptInv'
  BY <1>3 DEF Ack, Release
<1>4. ASSUME NEW t \in Task, Nack(t) PROVE AttemptInv'
  BY <1>4 DEF Nack, FailMessage, Release
<1>5. ASSUME NEW t \in Task, Recover(t) PROVE AttemptInv'
  BY <1>5 DEF Recover, FailMessage
<1>6. ASSUME NEW t \in Task, NEW s \in Server, Dequeue(t, s) PROVE AttemptInv'
  BY <1>6 DEF Dequeue
<1>7. ASSUME NEW t \in Task, Requeue(t) PROVE AttemptInv'
  BY <1>7 DEF Requeue, Release
<1>8. ASSUME NEW s \in Server, Shutdown(s) PROVE AttemptInv'
  BY <1>8 DEF Shutdown
<1>9. ASSUME NEW s \in Server, Crash(s) \/ Exit(s) PROVE AttemptInv'
  BY <1>9 DEF Crash, Exit, Stop, Slots
<1>10. ASSUME NEW t \in Task, LoseLease(t) PROVE AttemptInv'
  BY <1>10 DEF LoseLease, Release
<1>11. CASE UNCHANGED <<started, retried, shutdowns, mq, owner, stopping>>
  BY <1>11
<1> QED
  BY <1>1, <1>2, <1>3, <1>4, <1>5, <1>6, <1>7, <1>8, <1>9, <1>10, <1>11
  DEF Next, vars, PublishTask, handle, Delivery, LeftReturns, UpsertNew,
      FetchTask, Expire, LateWrite, HandleReturns, WriteFinished, reportError,
      Timeout, ZombieReturns

LEMMA LeftInvStep == IInv /\ [Next]_vars => LeftInv'
<1> SUFFICES ASSUME IInv, [Next]_vars PROVE LeftInv'
  OBVIOUS
<1> USE TaskQueueAssumption, RetryType
    DEF IInv, TypeOK, DeliveryInv, PublishInv, ZombieInv, LeftInv, Published,
        queueVars, procVars, historyVars
<1>1. ASSUME NEW t \in Task, Ack(t) PROVE LeftInv'
  BY <1>1 DEF Ack, Release
<1>2. ASSUME NEW t \in Task, Nack(t) PROVE LeftInv'
  BY <1>2 DEF Nack, Release
<1>3. ASSUME NEW t \in Task, Timeout(t) PROVE LeftInv'
  BY <1>3 DEF Timeout, Abandon
<1>4. ASSUME NEW t \in Task, LoseLease(t) PROVE LeftInv'
  BY <1>4 DEF LoseLease, Abandon, Release
<1>5. ASSUME NEW t \in Task, NEW s \in Server, Dequeue(t, s) PROVE LeftInv'
  BY <1>5 DEF Dequeue
<1>6. ASSUME NEW t \in Task, NEW s \in Server, ZombieReturns(t, s) PROVE LeftInv'
  BY <1>6 DEF ZombieReturns
<1>7. ASSUME NEW t \in Task, NEW s \in Server, LeftReturns(t, s) PROVE LeftInv'
  BY <1>7 DEF LeftReturns
<1>8. ASSUME NEW t \in Task, Requeue(t) PROVE LeftInv'
  BY <1>8 DEF Requeue, Release
<1>9. ASSUME NEW s \in Server, Shutdown(s) PROVE LeftInv'
  BY <1>9 DEF Shutdown
<1>10. ASSUME NEW s \in Server, Crash(s) \/ Exit(s) PROVE LeftInv'
  <2>1. Stop(s)
    BY <1>10 DEF Crash, Exit
  <2> QED
    BY <2>1 DEF Stop, Slots
<1>11. CASE UNCHANGED <<left, stopping, owner, zombie>>
  BY <1>11
<1> QED
  BY <1>1, <1>2, <1>3, <1>4, <1>5, <1>6, <1>7, <1>8, <1>9, <1>10, <1>11
  DEF Next, vars, PublishTask, handle, Delivery, UpsertNew, ProduceTaskMsg,
      ScheduleTask, FetchTask, Expire, LateWrite, HandleReturns, WriteFinished,
      reportError, Recover

LEMMA DoneMeansStoredStep == IInv /\ [Next]_vars => DoneMeansStored'
<1> SUFFICES ASSUME IInv, [Next]_vars PROVE DoneMeansStored'
  OBVIOUS
<1> USE TaskQueueAssumption, RetryType, IdFacts
    DEF IInv, TypeOK, DeliveryInv, PublishInv, StatusInv, DoneMeansStored,
        queueVars, procVars, historyVars
<1>1. ASSUME NEW t \in Task, UpsertNew(t) PROVE DoneMeansStored'
  BY <1>1 DEF UpsertNew
<1>2. ASSUME NEW t \in Task, ProduceTaskMsg(t) PROVE DoneMeansStored'
  BY <1>2 DEF ProduceTaskMsg
<1>3. ASSUME NEW t \in Task, ScheduleTask(t) PROVE DoneMeansStored'
  BY <1>3 DEF ScheduleTask
<1>4. ASSUME NEW k \in Key, Expire(k) PROVE DoneMeansStored'
  BY <1>4 DEF Expire
<1>5. ASSUME NEW t \in Task, LateWrite(t) PROVE DoneMeansStored'
  BY <1>5 DEF LateWrite
<1>6. ASSUME NEW t \in Task, WriteFinished(t) PROVE DoneMeansStored'
  BY <1>6 DEF WriteFinished
<1>7. ASSUME NEW t \in Task, reportError(t) PROVE DoneMeansStored'
  BY <1>7 DEF reportError
<1>8. ASSUME NEW t \in Task, Ack(t) PROVE DoneMeansStored'
  BY <1>8 DEF Ack, Release
<1>9. ASSUME NEW t \in Task, Nack(t) PROVE DoneMeansStored'
  BY <1>9 DEF Nack, FailMessage, Release
<1>10. ASSUME NEW t \in Task, Recover(t) PROVE DoneMeansStored'
  BY <1>10 DEF Recover, FailMessage
<1>11. ASSUME NEW t \in Task, NEW s \in Server, Dequeue(t, s) PROVE DoneMeansStored'
  BY <1>11 DEF Dequeue
<1>12. ASSUME NEW t \in Task, Requeue(t) PROVE DoneMeansStored'
  BY <1>12 DEF Requeue, Release
<1>13. CASE UNCHANGED <<mq, kv>>
  BY <1>13
<1> QED
  BY <1>1, <1>2, <1>3, <1>4, <1>5, <1>6, <1>7, <1>8, <1>9, <1>10, <1>11,
     <1>12, <1>13
  DEF Next, vars, PublishTask, handle, Delivery, Shutdown, LeftReturns,
      FetchTask, HandleReturns,
      Timeout, LoseLease, ZombieReturns, Crash, Exit

\* A task whose retries are used up stays that way.
LEMMA ExhaustedStays ==
  ASSUME IInv, [Next]_vars, NEW u \in Task, Exhausted(u)
  PROVE  Exhausted(u)'
<1> USE TaskQueueAssumption, RetryType
    DEF IInv, TypeOK, DeliveryInv, PublishInv, Exhausted, queueVars, procVars, historyVars
<1>1. ASSUME NEW t \in Task, ProduceTaskMsg(t) PROVE Exhausted(u)'
  BY <1>1 DEF ProduceTaskMsg, Published
<1>2. ASSUME NEW t \in Task, ScheduleTask(t) PROVE Exhausted(u)'
  BY <1>2 DEF ScheduleTask
<1>3. ASSUME NEW t \in Task, HandleReturns(t) PROVE Exhausted(u)'
  BY <1>3 DEF HandleReturns
<1>4. ASSUME NEW t \in Task, WriteFinished(t) PROVE Exhausted(u)'
  BY <1>4 DEF WriteFinished
<1>5. ASSUME NEW t \in Task, reportError(t) PROVE Exhausted(u)'
  BY <1>5 DEF reportError
<1>6. ASSUME NEW t \in Task, Ack(t) PROVE Exhausted(u)'
  BY <1>6 DEF Ack, Release
<1>7. ASSUME NEW t \in Task, Nack(t) PROVE Exhausted(u)'
  BY <1>7 DEF Nack, FailMessage, Release
<1>8. ASSUME NEW t \in Task, Timeout(t) PROVE Exhausted(u)'
  BY <1>8 DEF Timeout
<1>9. ASSUME NEW t \in Task, LoseLease(t) PROVE Exhausted(u)'
  BY <1>9 DEF LoseLease, Release
<1>10. ASSUME NEW t \in Task, Recover(t) PROVE Exhausted(u)'
  BY <1>10 DEF Recover, FailMessage
<1>11. ASSUME NEW t \in Task, NEW s \in Server, Dequeue(t, s) PROVE Exhausted(u)'
  BY <1>11 DEF Dequeue
<1>12. ASSUME NEW s \in Server, Crash(s) \/ Exit(s) PROVE Exhausted(u)'
  BY <1>12 DEF Crash, Exit, Stop, Slots
<1>13. ASSUME NEW t \in Task, Requeue(t) PROVE Exhausted(u)'
  BY <1>13 DEF Requeue, Release
<1>14. CASE UNCHANGED <<retried, mq, pc>>
  BY <1>14
<1> QED
  BY <1>1, <1>2, <1>3, <1>4, <1>5, <1>6, <1>7, <1>8, <1>9, <1>10, <1>11,
     <1>12, <1>13, <1>14
  DEF Next, vars, PublishTask, handle, Delivery, Shutdown, LeftReturns,
      UpsertNew, FetchTask, Expire,
      LateWrite, ZombieReturns

LEMMA ErrMeansExhaustedStep == IInv /\ [Next]_vars => ErrMeansExhausted'
<1> SUFFICES ASSUME IInv, [Next]_vars, NEW k \in Key, kv'[k] = "Err"
             PROVE  \E t \in Task : Id(t) = k /\ Exhausted(t)'
  BY DEF ErrMeansExhausted
<1>1. CASE kv[k] = "Err"
  <2>1. PICK t \in Task : Id(t) = k /\ Exhausted(t)
    BY <1>1 DEF IInv, ErrMeansExhausted
  <2> QED
    BY <2>1, ExhaustedStays
<1>2. CASE kv[k] # "Err"
  <2> USE IdFacts DEF IInv, TypeOK, queueVars, procVars, historyVars
  <2>1. ASSUME NEW t \in Task, reportError(t)
        PROVE  Id(t) = k /\ Exhausted(t)'
    <3>1. Id(t) = k
      BY <1>2, <2>1 DEF reportError
    <3>2. retried[t] >= Retry(t)
      BY <1>2, <2>1 DEF reportError
    <3>3. retried[t] = Retry(t)
      BY <3>2, RetriesUsedUp
    <3> QED
      BY <2>1, <3>1, <3>3 DEF reportError, DeliveryInv, Exhausted
  <2>2. ASSUME NEW t \in Task, UpsertNew(t) \/ WriteFinished(t) \/ LateWrite(t)
        PROVE  FALSE
    BY <1>2, <2>2 DEF UpsertNew, WriteFinished, LateWrite
  <2>3. ASSUME NEW j \in Key, Expire(j) PROVE FALSE
    BY <1>2, <2>3 DEF Expire
  <2>4. CASE UNCHANGED kv
    BY <1>2, <2>4
  <2> QED
    BY <2>1, <2>2, <2>3, <2>4
    DEF Next, vars, PublishTask, handle, Delivery, ProduceTaskMsg, ScheduleTask,
        FetchTask, HandleReturns, Ack, Nack, Timeout, LoseLease, Recover, Dequeue,
        ZombieReturns, LeftReturns, Requeue, Release, Stop, Crash, Shutdown, Exit
<1> QED
  BY <1>1, <1>2

LEMMA ArchivedIsReportedStep == IInv /\ [Next]_vars => ArchivedIsReported'
<1> SUFFICES ASSUME IInv, [Next]_vars PROVE ArchivedIsReported'
  OBVIOUS
<1> USE TaskQueueAssumption, RetryType, IdFacts
    DEF IInv, TypeOK, DeliveryInv, PublishInv, StatusInv, ArchivedIsReported,
        queueVars, procVars, historyVars
<1>1. ASSUME NEW t \in Task, UpsertNew(t) PROVE ArchivedIsReported'
  BY <1>1 DEF UpsertNew
<1>2. ASSUME NEW t \in Task, ProduceTaskMsg(t) PROVE ArchivedIsReported'
  BY <1>2 DEF ProduceTaskMsg
<1>3. ASSUME NEW t \in Task, ScheduleTask(t) PROVE ArchivedIsReported'
  BY <1>3 DEF ScheduleTask
<1>4. ASSUME NEW k \in Key, Expire(k) PROVE ArchivedIsReported'
  BY <1>4 DEF Expire
<1>5. ASSUME NEW t \in Task, LateWrite(t) PROVE ArchivedIsReported'
  BY <1>5 DEF LateWrite
<1>6. ASSUME NEW t \in Task, WriteFinished(t) PROVE ArchivedIsReported'
  BY <1>6 DEF WriteFinished
<1>7. ASSUME NEW t \in Task, reportError(t) PROVE ArchivedIsReported'
  BY <1>7 DEF reportError
<1>8. ASSUME NEW t \in Task, Ack(t) PROVE ArchivedIsReported'
  BY <1>8 DEF Ack, Release
<1>9. ASSUME NEW t \in Task, Nack(t) PROVE ArchivedIsReported'
  BY <1>9 DEF Nack, FailMessage, Release
<1>10. ASSUME NEW t \in Task, Timeout(t) PROVE ArchivedIsReported'
  BY <1>10 DEF Timeout, Abandon
<1>11. ASSUME NEW t \in Task, LoseLease(t) PROVE ArchivedIsReported'
  BY <1>11 DEF LoseLease, Abandon, Release
<1>12. ASSUME NEW t \in Task, Recover(t) PROVE ArchivedIsReported'
  BY <1>12 DEF Recover, FailMessage
<1>13. ASSUME NEW t \in Task, NEW s \in Server, Dequeue(t, s) PROVE ArchivedIsReported'
  BY <1>13 DEF Dequeue
<1>14. ASSUME NEW s \in Server, Crash(s) \/ Exit(s) PROVE ArchivedIsReported'
  BY <1>14 DEF Crash, Exit, Stop, Slots
<1>15. ASSUME NEW t \in Task, Requeue(t) PROVE ArchivedIsReported'
  BY <1>15 DEF Requeue, Release
<1>16. CASE UNCHANGED <<mq, kv, faulted>>
  BY <1>16
<1> QED
  BY <1>1, <1>2, <1>3, <1>4, <1>5, <1>6, <1>7, <1>8, <1>9, <1>10, <1>11,
     <1>12, <1>13, <1>14, <1>15, <1>16
  DEF Next, vars, PublishTask, handle, Delivery, Shutdown, LeftReturns,
      FetchTask, HandleReturns,
      ZombieReturns

LEMMA IInvInit == Init => IInv
BY TypeOKInit, RetryType, IdFacts, TaskQueueAssumption
DEF Init, IInv, DeliveryInv, PublishInv, StatusInv, ZombieInv, LeftInv, AttemptInv,
    DoneMeansStored, ErrMeansExhausted, ArchivedIsReported, Published

LEMMA IInvStep == IInv /\ [Next]_vars => IInv'
BY TypeOKStep, DeliveryInvStep, PublishInvStep, StatusInvStep, ZombieInvStep,
   LeftInvStep, AttemptInvStep, DoneMeansStoredStep, ErrMeansExhaustedStep,
   ArchivedIsReportedStep
DEF IInv

\* The inductive invariant holds of every behaviour of the pipeline.
THEOREM InvariantHolds == Spec => []IInv
BY IInvInit, IInvStep, PTL DEF Spec

\* Every variable of the pipeline keeps its type.
THEOREM TypeCorrect == Spec => []TypeOK
<1>1. IInv => TypeOK
  BY DEF IInv
<1> QED
  BY <1>1, InvariantHolds, PTL

\* No task of PublishTask is ever handled by two goroutines of a process, or by
\* two processes of which none is being shut down, for any number of tasks,
\* consumers and worker slots.
THEOREM HandlersDoNotOverlap == Spec => []NoOverlappingHandlers
<1>1. ASSUME IInv, NEW t \in Published, NEW s \in Server
      PROVE  /\ Handlers(t, s) <= 1
             /\ \A r \in Server \ {s} :
                  Handlers(t, s) > 0 /\ Handlers(t, r) > 0
                    => {s, r} \cap stopping # {}
             /\ zombie[t][s] > 0 => mq[t] # "pending"
  <2> DEFINE H(r) == pc[t] = "handling" /\ owner[t] = r
             Z(r) == zombie[t][r] > 0
             L(r) == r \in left[t]
  <2>1. \A r \in Server : /\ zombie[t][r] \in Nat /\ zombie[t][r] <= 1
                          /\ L(r) => r \in stopping
                          /\ ~ (H(r) /\ L(r)) /\ ~ (Z(r) /\ L(r))
    BY <1>1 DEF IInv, TypeOK, ZombieInv, LeftInv, Published
  <2>2. \A r, q \in Server : /\ H(r) /\ H(q) => r = q
                             /\ Z(r) /\ Z(q) => r = q
                             /\ ~ (H(r) /\ Z(q))
    BY <1>1, <2>1 DEF IInv, ZombieInv
  <2>3. \A r \in Server : /\ Handlers(t, r) <= 1
                          /\ Handlers(t, r) > 0 <=> H(r) \/ Z(r) \/ L(r)
    BY <2>1, <2>2 DEF Handlers
  <2>4. zombie[t][s] > 0 => mq[t] # "pending"
    BY <1>1 DEF IInv, ZombieInv
  <2> QED
    BY <2>1, <2>2, <2>3, <2>4
<1>2. IInv => NoOverlappingHandlers
  BY <1>1 DEF NoOverlappingHandlers
<1> QED
  BY <1>2, InvariantHolds, PTL

\* A handler is called once more than the retry limit of its task, which is 0
\* for a published one, plus once per graceful restart.
THEOREM AttemptsAreBounded == Spec => []AttemptsBounded
<1>1. ASSUME IInv, NEW t \in Task
      PROVE  started[t] <= Retry(t) + 1 + shutdowns
  <2>1. /\ started[t] \in Nat /\ retried[t] \in Nat /\ shutdowns \in Nat
        /\ Retry(t) \in Nat
    BY <1>1, RetryType DEF IInv, TypeOK
  <2>2. started[t] <= retried[t] + shutdowns + 1
    BY <1>1, <2>1 DEF IInv, AttemptInv
  <2>3. retried[t] <= Retry(t)
    BY <1>1 DEF IInv, DeliveryInv
  <2> QED
    BY <2>1, <2>2, <2>3
<1>2. IInv => AttemptsBounded
  <2> SUFFICES ASSUME IInv PROVE AttemptsBounded
    OBVIOUS
  <2>1. ASSUME NEW t \in Published PROVE started[t] <= 1 + shutdowns
    <3>1. t \in Task /\ Retry(t) = 0
      BY RetryType DEF Published
    <3>2. shutdowns \in Nat
      BY DEF IInv, TypeOK
    <3> QED
      BY <1>1, <3>1, <3>2
  <2>2. ASSUME NEW t \in Cron PROVE started[t] <= CronRetry + 1 + shutdowns
    <3>1. t \in Task /\ Retry(t) = CronRetry
      BY TaskQueueAssumption DEF Retry
    <3> QED
      BY <1>1, <3>1
  <2> QED
    BY <2>1, <2>2 DEF AttemptsBounded
<1> QED
  BY <1>2, InvariantHolds, PTL

\* A message is acknowledged only after its result was stored.
THEOREM DoneIsStored == Spec => []DoneMeansStored
<1>1. IInv => DoneMeansStored
  BY DEF IInv
<1> QED
  BY <1>1, InvariantHolds, PTL

\* Err is only ever stored by the last attempt.
THEOREM ErrIsLast == Spec => []ErrMeansExhausted
<1>1. IInv => ErrMeansExhausted
  BY DEF IInv
<1> QED
  BY <1>1, InvariantHolds, PTL

\* A task given up on without a fault reads Err.
THEOREM ArchivedTasksAreReported == Spec => []ArchivedIsReported
<1>1. IInv => ArchivedIsReported
  BY DEF IInv
<1> QED
  BY <1>1, InvariantHolds, PTL

\* A stored outcome is never overwritten by the status New.
THEOREM SettledStaysSettled == Spec => SettledNeverReopens
<1>1. ASSUME IInv, [Next]_vars, NEW k \in Key, kv[k] \in {"Finished", "Err"}
      PROVE  kv'[k] # "New"
  <2> USE <1>1, IdFacts DEF IInv, TypeOK, queueVars, procVars, historyVars
  <2>1. ASSUME NEW u \in Task, UpsertNew(u) PROVE kv'[k] # "New"
    BY <2>1 DEF UpsertNew, PublishInv
  <2>2. ASSUME NEW u \in Task, WriteFinished(u) \/ reportError(u) PROVE kv'[k] # "New"
    BY <2>2 DEF WriteFinished, reportError
  <2>3. ASSUME NEW u \in Task, LateWrite(u) PROVE kv'[k] # "New"
    BY <2>3 DEF LateWrite
  <2>4. ASSUME NEW j \in Key, Expire(j) PROVE kv'[k] # "New"
    BY <2>4 DEF Expire
  <2>5. CASE UNCHANGED kv
    BY <2>5
  <2> QED
    BY <2>1, <2>2, <2>3, <2>4, <2>5
    DEF Next, vars, PublishTask, handle, Delivery, ProduceTaskMsg, ScheduleTask,
        FetchTask, HandleReturns, Ack, Nack, Timeout, LoseLease, Recover, Dequeue,
        ZombieReturns, LeftReturns, Requeue, Release, Stop, Crash, Shutdown, Exit
<1>2. IInv /\ [Next]_vars
      => [\A k \in Key : kv[k] \in {"Finished", "Err"} => kv'[k] # "New"]_vars
  BY <1>1
<1> QED
  BY <1>2, InvariantHolds, PTL DEF Spec, SettledNeverReopens

\* Without a fault the first outcome stored is the only one until it expires.
THEOREM OutcomeIsUnique == Spec => OneOutcome
<1>1. ASSUME IInv, [Next]_vars, NEW t \in Published, kv[t] \in {"Finished", "Err"},
             t \notin faulted'
      PROVE  kv'[t] \in {kv[t], "expired"}
  <2> USE <1>1, IdFacts DEF IInv, TypeOK, queueVars, procVars, historyVars
  <2>1. ASSUME NEW u \in Task, UpsertNew(u) PROVE kv'[t] = kv[t]
    BY <2>1 DEF UpsertNew, PublishInv
  <2>2. ASSUME NEW u \in Task, WriteFinished(u) PROVE kv'[t] = kv[t]
    BY <2>2 DEF WriteFinished, StatusInv
  <2>3. ASSUME NEW u \in Task, reportError(u) PROVE kv'[t] = kv[t]
    BY <2>3 DEF reportError, StatusInv
  <2>4. ASSUME NEW u \in Task, LateWrite(u) PROVE kv'[t] = kv[t]
    BY <2>4 DEF LateWrite, DeliveryInv
  <2>5. ASSUME NEW k \in Key, Expire(k) PROVE kv'[t] \in {kv[t], "expired"}
    BY <2>5 DEF Expire
  <2>6. CASE UNCHANGED kv
    BY <2>6
  <2> QED
    BY <2>1, <2>2, <2>3, <2>4, <2>5, <2>6
    DEF Next, vars, PublishTask, handle, Delivery, ProduceTaskMsg, ScheduleTask,
        FetchTask, HandleReturns, Ack, Nack, Timeout, LoseLease, Recover, Dequeue,
        ZombieReturns, LeftReturns, Requeue, Release, Stop, Crash, Shutdown, Exit
<1>2. IInv /\ [Next]_vars
      => [\A t \in Published :
            kv[t] \in {"Finished", "Err"} /\ t \notin faulted'
              => kv'[t] \in {kv[t], "expired"}]_vars
  BY <1>1
<1> QED
  BY <1>2, InvariantHolds, PTL DEF Spec, OneOutcome
-----------------------------------------------------------------------------
(* TaskQueue implements TaskPromise, for every set of tasks and consumers. *)

\* What a step of the pipeline has to be for the promise.
PromiseStep ==
  [Promise!PromiseNext]_<<jobPhase, jobLeft, jobRuns, shutdowns>>

\* A step that leaves these alone does nothing to the promise's other variables.
LEMMA OtherVars ==
  /\ UNCHANGED left => UNCHANGED jobLeft
  /\ UNCHANGED started => UNCHANGED jobRuns
  /\ \A t \in Published : jobLeft[t] = left[t] /\ jobRuns[t] = started[t]
BY DEF jobLeft, jobRuns

\* A step that touches only task t changes the phase of t at most.
LEMMA OnePhase ==
  ASSUME NEW t \in Task, NEW p,
         \A u \in Published \ {t} : /\ mq'[u] = mq[u] /\ pc'[u] = pc[u]
                                    /\ zombie'[u] = zombie[u],
         t \in Published => jobPhase'[t] = p
  PROVE  jobPhase' = [jobPhase EXCEPT ![t] = p]
<1>1. ASSUME NEW u \in Published \ {t} PROVE jobPhase'[u] = jobPhase[u]
  BY DEF jobPhase, HandlerRuns
<1> QED
  BY <1>1 DEF jobPhase

\* While a message is pending or absent, or its delivery is at work after the
\* handler, no handler of a published task runs.
LEMMA NoZombie ==
  ASSUME IInv, NEW t \in Published,
         pc[t] \notin {"idle", "reported"} \/ mq[t] \in {"absent", "pending", "done"}
  PROVE  \A s \in Server : ~ (zombie[t][s] > 0)
BY DEF IInv, TypeOK, ZombieInv, MqState, PC

LEMMA RefinementInit == Init => Promise!PromiseInit
BY DEF Init, Promise!PromiseInit, jobPhase, jobLeft, jobRuns, Published

\* An action of one task takes its job one phase further, or nowhere.
LEMMA OneTaskStep ==
  ASSUME IInv, NEW t \in Task, NEW p, UNCHANGED <<left, started, shutdowns>>,
         jobPhase' = [jobPhase EXCEPT ![t] = p],
         t \in Published =>
           \/ p = jobPhase[t]
           \/ jobPhase[t] = "unsent" /\ p = "waiting"
           \/ jobPhase[t] = "running" /\ p \in {"returned", "ended"}
           \/ jobPhase[t] = "returned" /\ p = "ended"
  PROVE  PromiseStep
<1> USE OtherVars DEF PromiseStep
<1>1. CASE t \notin Published
  <2>1. UNCHANGED jobPhase
    BY <1>1 DEF jobPhase
  <2> QED
    BY <2>1
<1>2. CASE t \in Published /\ p = jobPhase[t]
  BY <1>2 DEF jobPhase
<1>3. CASE t \in Published /\ jobPhase[t] = "unsent" /\ p = "waiting"
  BY <1>3 DEF Promise!PromiseNext, Promise!Submit
<1>4. CASE t \in Published /\ jobPhase[t] = "running" /\ p \in {"returned", "ended"}
  BY <1>4 DEF Promise!PromiseNext, Promise!Return
<1>5. CASE t \in Published /\ jobPhase[t] = "returned" /\ p = "ended"
  BY <1>5 DEF Promise!PromiseNext, Promise!Settle
<1> QED
  BY <1>1, <1>2, <1>3, <1>4, <1>5

LEMMA DequeueStep ==
  ASSUME IInv, NEW t \in Task, NEW s \in Server, Dequeue(t, s)
  PROVE  PromiseStep
<1> USE DEF IInv, TypeOK
<1>1. jobPhase' = [jobPhase EXCEPT ![t] = "running"]
  BY OnePhase DEF Dequeue, jobPhase, HandlerRuns, Published
<1>2. jobRuns' = [jobRuns EXCEPT ![t] = @ + 1]
  BY DEF Dequeue, jobRuns, Published
<1>3. UNCHANGED jobLeft /\ UNCHANGED shutdowns
  BY OtherVars DEF Dequeue, procVars
<1>4. CASE t \in Published
  <2>1. jobPhase[t] = "waiting"
    BY <1>4 DEF Dequeue, jobPhase
  <2>2. Promise!Begin(t)
    BY <1>1, <1>2, <1>3, <2>1 DEF Promise!Begin
  <2> QED
    BY <1>4, <2>2 DEF Promise!PromiseNext, PromiseStep
<1>5. CASE t \notin Published
  <2>1. UNCHANGED jobPhase
    BY <1>1, <1>5 DEF jobPhase
  <2>2. UNCHANGED jobRuns
    BY <1>2, <1>5 DEF jobRuns
  <2> QED
    BY <1>3, <2>1, <2>2 DEF PromiseStep
<1> QED
  BY <1>4, <1>5

LEMMA RequeueStep ==
  ASSUME IInv, NEW t \in Task, Requeue(t)
  PROVE  PromiseStep
<1> USE TaskQueueAssumption DEF IInv, TypeOK
<1>1. PICK h \in Server : owner[t] = h /\ h \in stopping
  BY DEF Requeue
<1>2. jobPhase' = [jobPhase EXCEPT ![t] = "waiting"]
  BY OnePhase DEF Requeue, Release, jobPhase, HandlerRuns, Published
<1>3. UNCHANGED jobRuns /\ UNCHANGED shutdowns
  BY OtherVars DEF Requeue
<1>4. CASE t \in Published
  <2>1. mq[t] = "active"
    BY DEF Requeue, DeliveryInv
  <2>2. jobPhase[t] = IF pc[t] = "handling" THEN "running" ELSE "returned"
    BY <1>4, <2>1, NoZombie DEF Requeue, jobPhase, HandlerRuns
  <2>3. started[t] <= shutdowns
    <3>1. retried[t] = 0
      BY <1>4, RetryType DEF DeliveryInv
    <3>2. started[t] + 1 <= retried[t] + shutdowns + 1
      BY <1>1, <2>1 DEF AttemptInv
    <3> QED
      BY <3>1, <3>2
  <2>4. h \notin left[t]
    BY <1>1 DEF LeftInv
  <2>5. jobLeft' = IF jobPhase[t] = "running"
                   THEN [jobLeft EXCEPT ![t] = @ \cup {h}] ELSE jobLeft
    BY <1>1, <1>4, <2>2 DEF Requeue, jobLeft, Published
  <2>6. Promise!PushBack(t, h)
    BY <1>2, <1>3, <1>4, <2>2, <2>3, <2>4, <2>5, OtherVars DEF Promise!PushBack
  <2> QED
    BY <1>4, <2>6 DEF Promise!PromiseNext, PromiseStep
<1>5. CASE t \notin Published
  <2>1. UNCHANGED jobLeft
    BY <1>5 DEF Requeue, jobLeft, Published
  <2>2. UNCHANGED jobPhase
    BY <1>2, <1>5 DEF jobPhase
  <2> QED
    BY <1>3, <2>1, <2>2 DEF PromiseStep
<1> QED
  BY <1>4, <1>5

LEMMA LeftReturnsStep ==
  ASSUME IInv, NEW t \in Task, NEW s \in Server, LeftReturns(t, s)
  PROVE  PromiseStep
<1> USE DEF IInv, TypeOK
<1>1. UNCHANGED jobPhase /\ UNCHANGED jobRuns /\ UNCHANGED shutdowns
  BY OtherVars DEF LeftReturns, historyVars, jobPhase, HandlerRuns
<1>2. CASE t \in Published
  <2>1. jobLeft' = [jobLeft EXCEPT ![t] = @ \ {s}]
    BY <1>2 DEF LeftReturns, jobLeft, Published
  <2>2. Promise!LeftReturns(t, s)
    BY <1>1, <1>2, <2>1, OtherVars DEF LeftReturns, Promise!LeftReturns
  <2> QED
    BY <1>2, <2>2 DEF Promise!PromiseNext, PromiseStep
<1>3. CASE t \notin Published
  <2>1. UNCHANGED jobLeft
    BY <1>3 DEF LeftReturns, jobLeft, Published
  <2> QED
    BY <1>1, <2>1 DEF PromiseStep
<1> QED
  BY <1>2, <1>3

LEMMA ShutdownStep ==
  ASSUME IInv, NEW s \in Server, Shutdown(s)
  PROVE  PromiseStep
<1>1. UNCHANGED jobPhase /\ UNCHANGED jobLeft /\ UNCHANGED jobRuns
  BY OtherVars DEF Shutdown, jobPhase, HandlerRuns
<1>2. Promise!Restart
  BY <1>1 DEF Shutdown, Promise!Restart
<1> QED
  BY <1>2 DEF Promise!PromiseNext, PromiseStep

\* The handlers that a stopping process ran are the ones that no longer run.
LEMMA StopPhase ==
  ASSUME IInv, NEW s \in Server, Stop(s), NEW t \in Published
  PROVE  /\ pc'[t] = IF owner[t] = s THEN "idle" ELSE pc[t]
         /\ \A r \in Server : zombie'[t][r] = IF r = s THEN 0 ELSE zombie[t][r]
         /\ HandlerRuns(t)' => HandlerRuns(t)
BY DEF Stop, IInv, TypeOK, HandlerRuns, Published

LEMMA ProcessEndsStep ==
  ASSUME IInv, NEW s \in Server, Crash(s) \/ Exit(s)
  PROVE  PromiseStep
<1> DEFINE H == {t \in Published : jobPhase[t] = "running" /\ jobPhase'[t] # "running"}
           E == {t \in H : jobPhase'[t] = "ended"}
<1>1. Stop(s) /\ UNCHANGED <<mq, started, shutdowns>>
  BY DEF Crash, Exit, historyVars
<1>2. ASSUME NEW t \in Published
      PROVE  jobPhase'[t] = IF t \in E THEN "ended"
                            ELSE IF t \in H THEN "returned" ELSE jobPhase[t]
  <2>1. HandlerRuns(t)' => HandlerRuns(t)
    BY <1>1, StopPhase
  <2> QED
    BY <1>1, <2>1 DEF jobPhase
<1>3. jobPhase' = [t \in Published |-> IF t \in E THEN "ended"
                                       ELSE IF t \in H THEN "returned" ELSE jobPhase[t]]
  BY <1>2 DEF jobPhase
<1>4. H \in SUBSET Published /\ H \subseteq Promise!Running /\ E \in SUBSET H
  BY DEF Promise!Running
<1>5. jobLeft' = [t \in Published |-> jobLeft[t] \ {s}]
  BY <1>1 DEF Stop, jobLeft, Published
<1> HIDE DEF H, E
<1>6. Promise!Lose(H, {s})
  BY <1>1, <1>3, <1>4, <1>5, OtherVars DEF Promise!Lose
<1> QED
  BY <1>4, <1>6 DEF Promise!PromiseNext, PromiseStep

LEMMA StepSimulates ==
  IInv /\ [Next]_vars => PromiseStep
<1> SUFFICES ASSUME IInv, [Next]_vars
             PROVE  PromiseStep
  OBVIOUS
<1> USE DEF IInv, TypeOK, queueVars, procVars, historyVars
<1>1. ASSUME NEW t \in Task, ProduceTaskMsg(t)
      PROVE  PromiseStep
  <2>1. mq[t] = "absent"
    BY <1>1 DEF ProduceTaskMsg, PublishInv
  <2>2. t \in Published => jobPhase[t] = "unsent"
    BY <2>1 DEF jobPhase
  <2>3. CASE mq' = [mq EXCEPT ![t] = "pending"]
    <3>1. jobPhase' = [jobPhase EXCEPT ![t] = "waiting"]
      BY <1>1, <2>3, OnePhase DEF ProduceTaskMsg, jobPhase, Published
    <3> QED
      BY <1>1, <2>2, <3>1, OneTaskStep DEF ProduceTaskMsg
  <2>4. CASE UNCHANGED mq
    BY <1>1, <2>4, OtherVars DEF ProduceTaskMsg, jobPhase, HandlerRuns, PromiseStep
  <2> QED
    BY <1>1, <2>3, <2>4 DEF ProduceTaskMsg
<1>2. ASSUME NEW t \in Task, ScheduleTask(t)
      PROVE  PromiseStep
  <2>1. t \notin Published /\ UNCHANGED <<left, started, shutdowns>>
    BY <1>2 DEF ScheduleTask, Published
  <2>2. jobPhase' = [jobPhase EXCEPT ![t] = "waiting"]
    BY <1>2, <2>1, OnePhase DEF ScheduleTask, Published
  <2> QED
    BY <2>1, <2>2, OneTaskStep
<1>3. ASSUME NEW t \in Task, HandleReturns(t)
      PROVE  PromiseStep
  <2>1. jobPhase' = [jobPhase EXCEPT ![t] = "returned"]
    <3>1. ASSUME t \in Published PROVE jobPhase'[t] = "returned"
      BY <1>3, <3>1, NoZombie DEF HandleReturns, jobPhase, HandlerRuns, DeliveryInv
    <3> QED
      BY <1>3, <3>1, OnePhase DEF HandleReturns, Published
  <2>2. t \in Published => jobPhase[t] = "running"
    BY <1>3 DEF HandleReturns, jobPhase, HandlerRuns, DeliveryInv
  <2> QED
    BY <1>3, <2>1, <2>2, OneTaskStep DEF HandleReturns
<1>4. ASSUME NEW t \in Task, WriteFinished(t) \/ reportError(t)
      PROVE  PromiseStep
  <2>1. /\ pc[t] # "handling" /\ pc'[t] # "handling"
        /\ \A u \in Task \ {t} : pc'[u] = pc[u]
        /\ UNCHANGED <<mq, zombie, left, started, shutdowns>>
    BY <1>4 DEF WriteFinished, reportError
  <2>2. UNCHANGED jobPhase
    BY <2>1 DEF jobPhase, HandlerRuns, Published
  <2> QED
    BY <2>1, <2>2, OtherVars DEF PromiseStep
<1>5. ASSUME NEW t \in Task, Ack(t)
      PROVE  PromiseStep
  <2>1. jobPhase' = [jobPhase EXCEPT ![t] = "ended"]
    <3>1. ASSUME t \in Published PROVE jobPhase'[t] = "ended"
      BY <1>5, <3>1, NoZombie DEF Ack, Release, jobPhase, HandlerRuns
    <3> QED
      BY <1>5, <3>1, OnePhase DEF Ack, Release, Published
  <2>2. t \in Published => jobPhase[t] = "returned"
    BY <1>5, NoZombie DEF Ack, jobPhase, HandlerRuns, DeliveryInv
  <2> QED
    BY <1>5, <2>1, <2>2, OneTaskStep DEF Ack
<1>6. ASSUME NEW t \in Task, Nack(t)
      PROVE  PromiseStep
  <2> DEFINE p == IF HandlerRuns(t) THEN "running" ELSE "ended"
  <2>1. t \in Published => mq' = [mq EXCEPT ![t] = "archived"]
    BY <1>6, RetryType DEF Nack, FailMessage
  <2>2. jobPhase' = [jobPhase EXCEPT ![t] = p]
    <3>1. ASSUME t \in Published PROVE jobPhase'[t] = p
      BY <1>6, <2>1, <3>1 DEF Nack, Release, jobPhase, HandlerRuns
    <3>2. \A u \in Published \ {t} : /\ mq'[u] = mq[u] /\ pc'[u] = pc[u]
                                     /\ zombie'[u] = zombie[u]
      BY <1>6 DEF Nack, FailMessage, Release, Published
    <3> HIDE DEF p
    <3> QED
      BY <3>1, <3>2, OnePhase
  <2>3. t \in Published => jobPhase[t] = IF HandlerRuns(t) THEN "running" ELSE "returned"
    BY <1>6 DEF Nack, jobPhase, DeliveryInv
  <2> QED
    BY <1>6, <2>2, <2>3, OneTaskStep DEF Nack
<1>7. ASSUME NEW t \in Task, Timeout(t) \/ LoseLease(t)
      PROVE  PromiseStep
  <2>1. ASSUME t \in Published PROVE HandlerRuns(t)' <=> HandlerRuns(t)
    <3>1. CASE pc[t] = "handling"
      <4>1. owner[t] \in Server
        BY <3>1 DEF DeliveryInv
      <4>2. zombie'[t][owner[t]] = zombie[t][owner[t]] + 1
        BY <1>7, <3>1, <4>1 DEF Timeout, LoseLease, Abandon
      <4>3. zombie'[t][owner[t]] > 0
        BY <4>1, <4>2
      <4> QED
        BY <3>1, <4>1, <4>3 DEF HandlerRuns
    <3>2. CASE pc[t] # "handling"
      BY <1>7, <3>2 DEF Timeout, LoseLease, Abandon, Release, HandlerRuns
    <3> QED
      BY <3>1, <3>2
  <2>2. /\ UNCHANGED <<mq, left, started, shutdowns>>
        /\ \A u \in Task \ {t} : pc'[u] = pc[u] /\ zombie'[u] = zombie[u]
    BY <1>7 DEF Timeout, LoseLease, Abandon, Release
  <2>3. UNCHANGED jobPhase
    <3>1. ASSUME NEW u \in Published PROVE HandlerRuns(u)' <=> HandlerRuns(u)
      BY <2>1, <2>2 DEF HandlerRuns, Published
    <3> QED
      BY <2>2, <3>1 DEF jobPhase
  <2> QED
    BY <2>2, <2>3, OtherVars DEF PromiseStep
<1>8. ASSUME NEW t \in Task, Recover(t)
      PROVE  PromiseStep
  <2> DEFINE p == IF HandlerRuns(t) THEN "running" ELSE "ended"
  <2>1. t \in Published => mq' = [mq EXCEPT ![t] = "archived"]
    BY <1>8, RetryType DEF Recover, FailMessage
  <2>2. jobPhase' = [jobPhase EXCEPT ![t] = p]
    <3>1. ASSUME t \in Published PROVE jobPhase'[t] = p
      BY <1>8, <2>1, <3>1 DEF Recover, jobPhase, HandlerRuns
    <3>2. \A u \in Published \ {t} : /\ mq'[u] = mq[u] /\ pc'[u] = pc[u]
                                     /\ zombie'[u] = zombie[u]
      BY <1>8 DEF Recover, FailMessage, Published
    <3> HIDE DEF p
    <3> QED
      BY <3>1, <3>2, OnePhase
  <2>3. t \in Published => jobPhase[t] = IF HandlerRuns(t) THEN "running" ELSE "returned"
    BY <1>8 DEF Recover, jobPhase
  <2> QED
    BY <1>8, <2>2, <2>3, OneTaskStep DEF Recover
<1>9. ASSUME NEW t \in Task, NEW s \in Server,
             Dequeue(t, s) \/ LeftReturns(t, s)
      PROVE  PromiseStep
  BY <1>9, DequeueStep, LeftReturnsStep
<1>10. ASSUME NEW t \in Task, NEW s \in Server, ZombieReturns(t, s)
       PROVE  PromiseStep
  <2> DEFINE p == jobPhase'[t]
  <2>1. jobPhase' = [jobPhase EXCEPT ![t] = p]
    <3>1. \A u \in Published \ {t} : /\ mq'[u] = mq[u] /\ pc'[u] = pc[u]
                                     /\ zombie'[u] = zombie[u]
      BY <1>10 DEF ZombieReturns, Published
    <3> QED
      BY <3>1, OnePhase
  <2>2. ASSUME t \in Published
        PROVE  jobPhase[t] = "running" /\ p \in {"running", "returned", "ended"}
    <3>1. mq[t] \in {"active", "archived"} /\ mq'[t] = mq[t]
      BY <1>10, <2>2 DEF ZombieReturns, ZombieInv
    <3> QED
      BY <1>10, <2>2, <3>1 DEF ZombieReturns, jobPhase, HandlerRuns
  <2>3. UNCHANGED <<left, started, shutdowns>>
    BY <1>10 DEF ZombieReturns
  <2> HIDE DEF p
  <2> QED
    BY <2>1, <2>2, <2>3, OneTaskStep
<1>11. ASSUME NEW s \in Server, Crash(s) \/ Shutdown(s) \/ Exit(s)
       PROVE  PromiseStep
  BY <1>11, ProcessEndsStep, ShutdownStep
<1>12. ASSUME NEW t \in Task, Requeue(t) PROVE PromiseStep
  BY <1>12, RequeueStep
<1>13. CASE UNCHANGED <<mq, pc, zombie, left, started, shutdowns>>
  BY <1>13, OtherVars DEF jobPhase, HandlerRuns, PromiseStep
<1> QED
  BY <1>1, <1>2, <1>3, <1>4, <1>5, <1>6, <1>7, <1>8, <1>9, <1>10, <1>11, <1>12,
     <1>13
  DEF Next, vars, PublishTask, handle, Delivery, UpsertNew, FetchTask, Expire,
      LateWrite

\* The task pipeline keeps its promise: for published tasks, however many of them
\* and however many consumers, the handler runs once at a time and again only
\* after a graceful restart, next to nothing but what stopping processes left.
THEOREM PipelineKeepsPromise == Spec => KeepsPromise
BY RefinementInit, StepSimulates, InvariantHolds, PTL
DEF Spec, KeepsPromise, Promise!PromiseSpec, Promise!promiseVars, PromiseStep
=============================================================================
