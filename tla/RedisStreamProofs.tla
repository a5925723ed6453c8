------------------------- MODULE RedisStreamProofs -------------------------
(* Proofs about RedisStream for all tasks, replicas and consumers, and any *)
(* number of commands that are sent again.                                 *)
EXTENDS RedisStream, TLAPS

(* An entry is given by its task and the number of its XADD.               *)
LEMMA EntryIs ==
  /\ \A e \in Entry : /\ e.task \in Task
                      /\ e.try \in Nat \ {0}
                      /\ e.try <= MaxTries[e.task]
  /\ \A e, f \in Entry : e.task = f.task /\ e.try = f.try => e = f
  /\ \A t \in Task : \A n \in 1 .. MaxTries[t] : [task |-> t, try |-> n] \in Entry
<1>1. \A t \in Task : MaxTries[t] \in Nat
  BY RedisStreamAssumption
<1>2. ASSUME NEW e \in Entry
      PROVE  /\ e.task \in Task
             /\ e.try \in 1 .. MaxTries[e.task]
             /\ e = [task |-> e.task, try |-> e.try]
  <2>1. PICK t \in Task : e \in [task : {t}, try : 1 .. MaxTries[t]]
    BY <1>2 DEF Entry
  <2>2. e.task = t /\ e.try \in 1 .. MaxTries[t]
    BY <2>1
  <2>3. e = [task |-> e.task, try |-> e.try]
    BY <2>1
  <2> QED
    BY <2>2, <2>3
<1>3. \A e \in Entry : e.try \in Nat \ {0} /\ e.try <= MaxTries[e.task]
  BY <1>1, <1>2
<1>4. ASSUME NEW t \in Task, NEW n \in 1 .. MaxTries[t]
      PROVE  [task |-> t, try |-> n] \in Entry
  <2>1. [task |-> t, try |-> n] \in [task : {t}, try : 1 .. MaxTries[t]]
    OBVIOUS
  <2> QED
    BY <2>1 DEF Entry
<1>5. ASSUME NEW e \in Entry, NEW f \in Entry, e.task = f.task, e.try = f.try
      PROVE  e = f
  <2>1. PICK t, n : e.task = t /\ e.try = n
    OBVIOUS
  <2>2. e = [task |-> t, try |-> n] /\ f = [task |-> t, try |-> n]
    BY <1>2, <1>5, <2>1
  <2> QED
    BY <2>2
<1> QED
  BY <1>2, <1>3, <1>4, <1>5

LEMMA IInvInit == Init => IInv
<1> SUFFICES ASSUME Init PROVE IInv
  OBVIOUS
<1> USE RedisStreamAssumption DEF Init, Idle, Down
<1>1. QueueOK
  <2>1. stream \in Seq(Entry) /\ last \in 0 .. Len(stream)
    OBVIOUS
  <2> QED
    BY <2>1 DEF QueueOK
<1>2. WorkerOK
  BY DEF WorkerOK
<1>3. TypeOK
  BY <1>1, <1>2 DEF TypeOK
<1>4. Undelivered = {}
  BY DEF Undelivered
<1> QED
  BY <1>3, <1>4
  DEF IInv, QueueInv, OnlyInitLoses, AckedIsHandled, TwiceOnlyAfterRetry, StoredInv,
      AckedIsStored

(* An XADD that has its effect adds an entry that was never there.         *)
LEMMA AddedEntry ==
  ASSUME IInv, NEW t \in Task, ProduceTaskMsg(t)
  PROVE  \E e \in Entry :
           /\ e.task = t /\ e.try = tries[t] + 1
           /\ e \notin added
           /\ AddEntry(e) \/ (UNCHANGED <<stream, added>> /\ publish'[t] # "sent")
           /\ tries' = [tries EXCEPT ![t] = tries[t] + 1]
<1>1. tries[t] \in Nat /\ tries[t] + 1 <= MaxTries[t] /\ MaxTries[t] \in Nat
  BY RedisStreamAssumption DEF IInv, TypeOK, ProduceTaskMsg
<1>2. PICK e : e = [task |-> t, try |-> tries[t] + 1]
  OBVIOUS
<1>3. tries[t] + 1 \in 1 .. MaxTries[t]
  BY <1>1
<1>4. e \in Entry
  BY <1>2, <1>3, EntryIs
<1>5. e.task = t /\ e.try = tries[t] + 1
  BY <1>2
<1>6. e \notin added
  BY <1>1, <1>5 DEF IInv, QueueInv
<1>7. AddEntry(e) \/ (UNCHANGED <<stream, added>> /\ publish'[t] # "sent")
  BY <1>2 DEF ProduceTaskMsg, IInv, TypeOK
<1>8. tries' = [tries EXCEPT ![t] = tries[t] + 1]
  BY DEF ProduceTaskMsg
<1> QED
  BY <1>4, <1>5, <1>6, <1>7, <1>8

LEMMA QueueOKStep == IInv /\ [Next]_vars => QueueOK'
<1> SUFFICES ASSUME IInv, [Next]_vars PROVE QueueOK'
  OBVIOUS
<1>0. QueueOK /\ WorkerOK
  BY DEF IInv, TypeOK
<1> USE <1>0 DEF QueueOK
<1>u. Undelivered \subseteq Entry
  BY DEF Undelivered
<1>1. ASSUME NEW g \in Graph, DelStream(g) PROVE QueueOK'
  <2>2. stream' \in Seq(Entry) /\ last' \in 0 .. Len(stream')
    BY <1>1 DEF DelStream
  <2> QED
    BY <1>1, <1>u, <2>2 DEF DelStream
<1>2. ASSUME NEW g \in Graph, XGroupCreate(g) \/ StopGraph(g) PROVE QueueOK'
  BY <1>2 DEF XGroupCreate, StopGraph
<1>3. ASSUME NEW t \in Task, ProduceTaskMsg(t) PROVE QueueOK'
  <2>1. PICK e \in Entry : AddEntry(e) \/ UNCHANGED <<stream, added>>
    BY <1>3, AddedEntry
  <2>2. stream' \in Seq(Entry) /\ last' \in 0 .. Len(stream')
    BY <1>3, <2>1 DEF ProduceTaskMsg, AddEntry
  <2>3. added' \subseteq Entry
    BY <2>1 DEF AddEntry
  <2> QED
    BY <1>3, <2>2, <2>3 DEF ProduceTaskMsg
<1>4. ASSUME NEW c \in Consumer, XReadGroup(c) \/ XReadGroupLost(c) PROVE QueueOK'
  BY <1>4 DEF XReadGroup, XReadGroupLost, Deliver
<1>5. ASSUME NEW c \in Consumer, XAck(c) PROVE QueueOK'
  BY <1>5 DEF XAck
<1>6. CASE UNCHANGED mqVars
  BY <1>6 DEF mqVars
<1> QED
  BY <1>1, <1>2, <1>3, <1>4, <1>5, <1>6
  DEF Next, Consume, vars, StartGraph, UpsertNew, StartConsumer, Handle, UpsertFinished,
      CrashConsumer

LEMMA WorkerOKStep == TypeOK /\ [Next]_vars => WorkerOK'
<1> SUFFICES ASSUME TypeOK, [Next]_vars PROVE WorkerOK'
  OBVIOUS
<1> USE RedisStreamAssumption DEF TypeOK, WorkerOK, Idle, Down, Work, GiveUp
<1>1. ASSUME NEW c \in Consumer, StartConsumer(c) PROVE WorkerOK'
  BY <1>1 DEF StartConsumer
<1>2. ASSUME NEW c \in Consumer, XReadGroup(c) PROVE WorkerOK'
  <2>1. stream[last + 1] \in Entry
    BY <1>2 DEF XReadGroup, Deliver, QueueOK
  <2> QED
    BY <1>2, <2>1 DEF XReadGroup
<1>3. ASSUME NEW c \in Consumer, Handle(c) PROVE WorkerOK'
  BY <1>3 DEF Handle
<1>4. ASSUME NEW c \in Consumer, UpsertFinished(c) PROVE WorkerOK'
  BY <1>4 DEF UpsertFinished
<1>5. ASSUME NEW c \in Consumer, XAck(c) PROVE WorkerOK'
  BY <1>5 DEF XAck
<1>6. ASSUME NEW c \in Consumer, CrashConsumer(c) PROVE WorkerOK'
  BY <1>6 DEF CrashConsumer
<1>7. CASE UNCHANGED worker
  BY <1>7
<1> QED
  BY <1>1, <1>2, <1>3, <1>4, <1>5, <1>6, <1>7
  DEF Next, Consume, vars, StartGraph, DelStream, XGroupCreate, StopGraph, UpsertNew,
      ProduceTaskMsg, XReadGroupLost

LEMMA TypeOKStep == IInv /\ [Next]_vars => TypeOK'
<1> SUFFICES ASSUME IInv, [Next]_vars PROVE TypeOK'
  OBVIOUS
<1>0. TypeOK
  BY DEF IInv
<1>1. hit' \subseteq Entry
  <2>1. ASSUME NEW c \in Consumer, XReadGroupLost(c) PROVE hit' \subseteq Entry
    BY <1>0, <2>1 DEF XReadGroupLost, Deliver, TypeOK, QueueOK
  <2>2. ASSUME NEW c \in Consumer, Handle(c) \/ UpsertFinished(c) \/ XAck(c) \/ CrashConsumer(c)
        PROVE  hit' \subseteq Entry
    <3>1. hit' \subseteq hit \cup ({worker[c].entry} \cap Entry)
      BY <1>0, <2>2 DEF TypeOK, WorkerOK, Handle, UpsertFinished, XAck, CrashConsumer, GiveUp
    <3> QED
      BY <1>0, <3>1 DEF TypeOK
  <2>3. CASE hit' = hit
    BY <1>0, <2>3 DEF TypeOK
  <2> QED
    BY <2>1, <2>2, <2>3
    DEF Next, Consume, vars, StartGraph, DelStream, XGroupCreate, StopGraph, UpsertNew,
        ProduceTaskMsg, StartConsumer, XReadGroup
<1>2. kv' \in [Task -> {"none", "New", "Finished"}]
  BY <1>0
  DEF TypeOK, Next, Consume, vars, StartGraph, DelStream, XGroupCreate, StopGraph,
      UpsertNew, ProduceTaskMsg, StartConsumer, XReadGroup, XReadGroupLost, Handle,
      UpsertFinished, XAck, CrashConsumer
<1>3. publish' \in [Task -> {"none", "cached", "sent", "failed"}]
  BY <1>0
  DEF TypeOK, Next, Consume, vars, StartGraph, DelStream, XGroupCreate, StopGraph,
      UpsertNew, ProduceTaskMsg, StartConsumer, XReadGroup, XReadGroupLost, Handle,
      UpsertFinished, XAck, CrashConsumer
<1>4. tries' \in [Task -> Nat] /\ \A t \in Task : tries'[t] <= MaxTries[t]
  <2>1. ASSUME NEW t \in Task, ProduceTaskMsg(t)
        PROVE  tries' \in [Task -> Nat] /\ \A s \in Task : tries'[s] <= MaxTries[s]
    BY <1>0, <2>1 DEF TypeOK, ProduceTaskMsg
  <2>2. CASE tries' = tries
    BY <1>0, <2>2 DEF TypeOK
  <2> QED
    BY <2>1, <2>2
    DEF Next, Consume, vars, StartGraph, DelStream, XGroupCreate, StopGraph,
        UpsertNew, StartConsumer, XReadGroup, XReadGroupLost, Handle,
        UpsertFinished, XAck, CrashConsumer
<1>5. graph' \in [Graph -> {"down", "starting", "up"}]
  BY <1>0
  DEF TypeOK, Next, Consume, vars, StartGraph, DelStream, XGroupCreate, StopGraph,
      UpsertNew, ProduceTaskMsg, StartConsumer, XReadGroup, XReadGroupLost, Handle,
      UpsertFinished, XAck, CrashConsumer
<1> QED
  BY <1>0, <1>1, <1>2, <1>3, <1>4, <1>5, QueueOKStep, WorkerOKStep DEF TypeOK

Moves == QueueInv /\ OnlyInitLoses /\ AckedIsHandled

\* A consumer that stops working on its entry, or goes on with it, disturbs nothing.
LEMMA SameEntries ==
  ASSUME IInv, UNCHANGED <<stream, last, pel, added, acked, deleted, publish, tries>>,
         \A c \in Consumer : worker'[c].entry \in {worker[c].entry, None}
  PROVE  Moves'
<1>1. Undelivered' = Undelivered
  BY DEF Undelivered
<1>2. None \notin acked \cup Undelivered
  BY RedisStreamAssumption DEF IInv, TypeOK, QueueOK, Undelivered
<1> QED
  BY <1>1, <1>2 DEF IInv, Moves, QueueInv, OnlyInitLoses, AckedIsHandled

\* The next entry of the stream is delivered, to a consumer or to none.
LEMMA Delivered ==
  ASSUME IInv, Deliver
  PROVE  \E e \in Entry :
           /\ e = stream[last + 1] /\ e # None
           /\ e \in Undelivered /\ e \notin Undelivered'
           /\ Undelivered = Undelivered' \cup {e}
           /\ pel' = pel \cup {e}
           /\ \A i, j \in last' + 1 .. Len(stream') : stream'[i] = stream'[j] => i = j
<1>0. QueueOK /\ QueueInv
  BY DEF IInv, TypeOK
<1>1. /\ last \in Nat /\ Len(stream) \in Nat /\ last < Len(stream)
      /\ last' = last + 1 /\ stream' = stream
      /\ stream[last + 1] \in Entry
      /\ pel' = pel \cup {stream[last + 1]}
  BY <1>0 DEF Deliver, QueueOK
<1>2. PICK e \in Entry : e = stream[last + 1]
  BY <1>1
<1>3. e \in Undelivered /\ Undelivered = Undelivered' \cup {e}
  BY <1>1, <1>2 DEF Undelivered
<1>4. e \notin Undelivered'
  BY <1>0, <1>1, <1>2 DEF Undelivered, QueueInv
<1>5. \A i, j \in last' + 1 .. Len(stream') : stream'[i] = stream'[j] => i = j
  BY <1>0, <1>1 DEF QueueInv
<1>6. e # None
  BY RedisStreamAssumption
<1> QED
  BY <1>1, <1>2, <1>3, <1>4, <1>5, <1>6

\* What the queue and its consumers hold, action by action.
LEMMA MovesStep == IInv /\ [Next]_vars => Moves'
<1> SUFFICES ASSUME IInv, [Next]_vars PROVE Moves'
  OBVIOUS
<1> USE DEF mqVars
<1>a. /\ QueueOK /\ WorkerOK
      /\ publish \in [Task -> {"none", "cached", "sent", "failed"}]
      /\ tries \in [Task -> Nat]
  BY DEF IInv, TypeOK
<1>b. QueueInv /\ OnlyInitLoses /\ AckedIsHandled
  BY DEF IInv
<1>1. ASSUME NEW g \in Graph, DelStream(g) PROVE Moves'
  <2>1. Undelivered' = {}
    BY <1>1 DEF DelStream, Undelivered
  <2>2. \A i, j \in last' + 1 .. Len(stream') : stream'[i] = stream'[j] => i = j
    BY <1>1 DEF DelStream
  <2>3. /\ pel' = {}
        /\ deleted' = deleted \cup Undelivered \cup pel
        /\ UNCHANGED <<added, acked, publish, tries, worker>>
    BY <1>1 DEF DelStream
  <2> QED
    BY <1>b, <2>1, <2>2, <2>3 DEF Moves, QueueInv, OnlyInitLoses, AckedIsHandled
<1>2. ASSUME NEW t \in Task, UpsertNew(t) PROVE Moves'
  <2>1. UNCHANGED <<mqVars, tries, worker>>
    BY <1>2 DEF UpsertNew
  <2>2. \A s \in Task : /\ publish'[s] = "sent" => publish[s] = "sent"
                        /\ publish'[s] = "none" => publish[s] = "none"
    BY <1>2, <1>a DEF UpsertNew
  <2> QED
    BY <1>b, <2>1, <2>2 DEF Moves, QueueInv, OnlyInitLoses, AckedIsHandled, Undelivered
<1>3. ASSUME NEW t \in Task, ProduceTaskMsg(t) PROVE Moves'
  <2>1. UNCHANGED <<last, pel, acked, deleted, worker>>
    BY <1>3 DEF ProduceTaskMsg
  <2>2. PICK e \in Entry :
          /\ e.task = t /\ e.try = tries[t] + 1
          /\ e \notin added
          /\ AddEntry(e) \/ (UNCHANGED <<stream, added>> /\ publish'[t] # "sent")
          /\ tries' = [tries EXCEPT ![t] = tries[t] + 1]
    BY <1>3, AddedEntry
  <2>3. \A s \in Task : /\ publish'[s] = "sent" => publish[s] = "sent" \/ s = t
                        /\ publish'[s] = "none" => publish[s] = "none" /\ s # t
    BY <1>3, <1>a DEF ProduceTaskMsg
  <2>4. \A s \in Task : tries'[s] >= tries[s] /\ (s # t => tries'[s] = tries[s])
    BY <1>a, <2>2
  <2>5. added \subseteq Entry /\ \A f \in added : f.task \in Task /\ f.try \in Nat
    BY <1>a, EntryIs DEF QueueOK
  <2>6. CASE AddEntry(e)
    <3>1. stream' = Append(stream, e) /\ added' = added \cup {e}
      BY <2>6 DEF AddEntry
    <3>2. /\ Len(stream') = Len(stream) + 1
          /\ \A i \in 1 .. Len(stream') :
               stream'[i] = IF i <= Len(stream) THEN stream[i] ELSE e
      BY <1>a, <3>1 DEF QueueOK
    <3>3. last \in Nat /\ Len(stream) \in Nat /\ last <= Len(stream)
      BY <1>a DEF QueueOK
    <3>4. Undelivered' = Undelivered \cup {e}
      BY <2>1, <3>2, <3>3 DEF Undelivered
    <3>5. e \notin Undelivered \cup pel \cup acked \cup deleted
      BY <1>b, <2>2 DEF OnlyInitLoses
    <3>6. \A i, j \in last' + 1 .. Len(stream') : stream'[i] = stream'[j] => i = j
      <4>1. \A i \in last + 1 .. Len(stream) : stream[i] # e
        BY <3>5 DEF Undelivered
      <4> QED
        BY <1>b, <2>1, <3>2, <3>3, <4>1 DEF QueueInv
    <3>7. e # None
      BY RedisStreamAssumption
    <3>8. \A f \in added' : f.try <= tries'[f.task]
      <4>1. e.try <= tries'[e.task]
        BY <1>a, <2>2
      <4>2. ASSUME NEW f \in added PROVE f.try <= tries'[f.task]
        <5>1. f.try <= tries[f.task] /\ f.task \in Task /\ f.try \in Nat
          BY <1>b, <2>5 DEF QueueInv
        <5>2. tries[f.task] <= tries'[f.task]
              /\ tries[f.task] \in Nat /\ tries'[f.task] \in Nat
          BY <1>a, <2>2, <2>4, <5>1
        <5> QED
          BY <5>1, <5>2
      <4> QED
        BY <3>1, <4>1, <4>2
    <3>9. QueueInv'
      BY <1>b, <2>1, <2>2, <2>3, <2>4, <3>1, <3>4, <3>5, <3>6, <3>8 DEF QueueInv
    <3>10. OnlyInitLoses'
      BY <1>b, <2>1, <2>2, <2>3, <3>1, <3>4 DEF OnlyInitLoses
    <3>11. AckedIsHandled'
      BY <1>b, <2>1, <2>2, <3>4, <3>5, <3>7 DEF AckedIsHandled, QueueInv
    <3> QED
      BY <3>9, <3>10, <3>11 DEF Moves
  <2>7. CASE UNCHANGED <<stream, added>> /\ publish'[t] # "sent"
    <3>1. Undelivered' = Undelivered
      BY <2>1, <2>7 DEF Undelivered
    <3>2. \A f \in added' : f.try <= tries'[f.task]
      <4> SUFFICES ASSUME NEW f \in added PROVE f.try <= tries'[f.task]
        BY <2>7
      <4>1. f.try <= tries[f.task] /\ f.task \in Task /\ f.try \in Nat
        BY <1>b, <2>5 DEF QueueInv
      <4>2. tries[f.task] <= tries'[f.task]
            /\ tries[f.task] \in Nat /\ tries'[f.task] \in Nat
        BY <1>a, <2>2, <2>4, <4>1
      <4> QED
        BY <4>1, <4>2
    <3> QED
      BY <1>b, <2>1, <2>3, <2>4, <2>7, <3>1, <3>2
      DEF Moves, QueueInv, OnlyInitLoses, AckedIsHandled
  <2> QED
    BY <2>2, <2>6, <2>7
<1>4. ASSUME NEW c \in Consumer, XReadGroup(c) \/ XReadGroupLost(c) PROVE Moves'
  <2>1. /\ Deliver
        /\ UNCHANGED <<added, acked, deleted, publish, tries>>
    BY <1>4 DEF XReadGroup, XReadGroupLost, Deliver
  <2>2. PICK e \in Entry :
          /\ e = stream[last + 1] /\ e # None
          /\ e \in Undelivered /\ e \notin Undelivered'
          /\ Undelivered = Undelivered' \cup {e}
          /\ pel' = pel \cup {e}
          /\ \A i, j \in last' + 1 .. Len(stream') : stream'[i] = stream'[j] => i = j
    BY <2>1, Delivered
  <2>3. /\ worker'[c].entry \in {e, worker[c].entry}
        /\ \A d \in Consumer : d # c => worker'[d] = worker[d]
    BY <1>4, <1>a, <2>2 DEF XReadGroup, XReadGroupLost, Work, WorkerOK
  <2>4. QueueInv'
    BY <1>b, <2>1, <2>2, <2>3 DEF QueueInv, OnlyInitLoses
  <2>5. OnlyInitLoses'
    BY <1>b, <2>1, <2>2 DEF OnlyInitLoses
  <2>6. AckedIsHandled'
    <3>1. acked' \cap (pel' \cup Undelivered') = {}
      BY <1>b, <2>1, <2>2 DEF AckedIsHandled
    <3>2. \A d \in Consumer : worker'[d].entry \notin acked' \cup Undelivered'
      BY <1>b, <2>1, <2>2, <2>3 DEF AckedIsHandled
    <3>3. \A d \in Consumer : worker[d].entry # e
      BY <1>b, <2>2 DEF AckedIsHandled
    <3>4. \A d, f \in Consumer :
            d # f /\ worker'[d].entry # None => worker'[d].entry # worker'[f].entry
      BY <1>b, <2>2, <2>3, <3>3 DEF AckedIsHandled
    <3> QED
      BY <3>1, <3>2, <3>4 DEF AckedIsHandled
  <2> QED
    BY <2>4, <2>5, <2>6 DEF Moves
<1>5. ASSUME NEW c \in Consumer, XAck(c) PROVE Moves'
  <2>1. /\ UNCHANGED <<stream, last, added, deleted, publish, tries>>
        /\ \/ /\ pel' = pel \ {worker[c].entry}
              /\ acked' = acked \cup ({worker[c].entry} \cap pel)
           \/ UNCHANGED <<pel, acked>>
    BY <1>5 DEF XAck
  <2>2. /\ worker'[c].entry = None
        /\ \A d \in Consumer : d # c => worker'[d] = worker[d]
    BY <1>5, <1>a DEF XAck, GiveUp, Idle, WorkerOK
  <2>3. Undelivered' = Undelivered
    BY <2>1 DEF Undelivered
  <2>4. worker[c].entry # None /\ worker[c].entry \notin Undelivered
    BY <1>5, <1>a, <1>b DEF XAck, WorkerOK, AckedIsHandled
  <2>5. None \notin acked' \cup Undelivered'
    BY <1>a, <2>1, <2>3, RedisStreamAssumption DEF QueueOK, Undelivered
  <2>6. QueueInv'
    BY <1>b, <2>1, <2>2, <2>3 DEF QueueInv
  <2>7. OnlyInitLoses'
    BY <1>b, <2>1, <2>3 DEF OnlyInitLoses
  <2>8. AckedIsHandled'
    BY <1>b, <2>1, <2>2, <2>3, <2>4, <2>5 DEF AckedIsHandled
  <2> QED
    BY <2>6, <2>7, <2>8 DEF Moves
<1>6. ASSUME NEW c \in Consumer,
             StartConsumer(c) \/ Handle(c) \/ UpsertFinished(c) \/ CrashConsumer(c)
      PROVE  Moves'
  <2>1. UNCHANGED <<stream, last, pel, added, acked, deleted, publish, tries>>
    BY <1>6 DEF StartConsumer, Handle, UpsertFinished, CrashConsumer
  <2>2. \A d \in Consumer : worker'[d].entry \in {worker[d].entry, None}
    BY <1>6, <1>a
    DEF StartConsumer, Handle, UpsertFinished, CrashConsumer, Work, GiveUp, Idle, Down,
        WorkerOK
  <2> QED
    BY <2>1, <2>2, SameEntries
<1>7. CASE UNCHANGED <<stream, last, pel, added, acked, deleted, publish, tries, worker>>
  <2>1. \A d \in Consumer : worker'[d].entry \in {worker[d].entry, None}
    BY <1>7
  <2> QED
    BY <1>7, <2>1, SameEntries
<1> QED
  BY <1>1, <1>2, <1>3, <1>4, <1>5, <1>6, <1>7
  DEF Next, Consume, vars, StartGraph, XGroupCreate, StopGraph

(* Two entries of one task are two XADDs of it.                            *)
LEMMA EntriesAreTries == TypeOK /\ QueueInv => TwiceOnlyAfterRetry
<1> SUFFICES ASSUME TypeOK, QueueInv, NEW e \in added, NEW f \in added,
                    e # f, e.task = f.task
             PROVE  tries[e.task] > 1
  BY DEF TwiceOnlyAfterRetry
<1>1. e \in Entry /\ f \in Entry
  BY DEF TypeOK, QueueOK
<1>2. e.try \in Nat \ {0} /\ f.try \in Nat \ {0} /\ e.task \in Task /\ e.try # f.try
  BY <1>1, EntryIs
<1>3. tries[e.task] \in Nat /\ e.try <= tries[e.task] /\ f.try <= tries[e.task]
  BY <1>2 DEF TypeOK, QueueInv
<1> QED
  BY <1>2, <1>3

(* A result is stored before XACK, and no record of an entry is reset.     *)
LEMMA StoredStep == IInv /\ [Next]_vars => StoredInv' /\ AckedIsStored'
<1> DEFINE Goal == StoredInv /\ AckedIsStored
<1> SUFFICES ASSUME IInv, [Next]_vars PROVE Goal'
  OBVIOUS
<1> USE DEF mqVars
<1>a. /\ QueueOK /\ WorkerOK
      /\ publish \in [Task -> {"none", "cached", "sent", "failed"}]
      /\ kv \in [Task -> {"none", "New", "Finished"}]
      /\ StoredInv /\ AckedIsStored
      /\ OnlyInitLoses
  BY DEF IInv, TypeOK
<1>e. \A e \in added : e.task \in Task /\ publish[e.task] # "none"
  <2> SUFFICES ASSUME NEW e \in added PROVE e.task \in Task /\ publish[e.task] # "none"
    OBVIOUS
  <2>1. e.task \in Task /\ e.try \in Nat \ {0}
    BY <1>a, EntryIs DEF QueueOK
  <2>2. e.try <= tries[e.task] /\ (publish[e.task] = "none" => tries[e.task] = 0)
    BY <2>1 DEF IInv, QueueInv
  <2> QED
    BY <2>1, <2>2
<1>w. /\ acked \subseteq added
      /\ \A c \in Consumer : worker[c].entry \in added \cup {None}
      /\ \A c \in Consumer : worker[c].pc = "ack" => worker[c].entry \in added
  BY <1>a DEF IInv, QueueInv, OnlyInitLoses, WorkerOK
<1>k. ASSUME acked' = acked, hit \subseteq hit',
             \A e \in added : kv[e.task] = "Finished" => kv'[e.task] = "Finished",
             \A c \in Consumer : worker'[c].pc = "ack" => worker'[c] = worker[c]
      PROVE  Goal'
  BY <1>k, <1>a, <1>w DEF StoredInv, AckedIsStored
<1>1. ASSUME NEW t \in Task, UpsertNew(t) PROVE Goal'
  <2>1. \A e \in added : kv'[e.task] = kv[e.task]
    BY <1>1, <1>a, <1>e DEF UpsertNew
  <2> QED
    BY <1>1, <1>k, <2>1 DEF UpsertNew
<1>2. ASSUME NEW c \in Consumer, XReadGroup(c) PROVE Goal'
  BY <1>2, <1>a, <1>k DEF XReadGroup, Deliver, Work, WorkerOK
<1>3. ASSUME NEW c \in Consumer, Handle(c) PROVE Goal'
  <2>1. acked' = acked /\ kv' = kv /\ hit \subseteq hit'
    BY <1>3 DEF Handle, GiveUp
  <2>2. \A d \in Consumer :
          worker'[d].pc = "ack" => worker'[d] = worker[d] \/ worker'[d].entry \in hit'
    BY <1>3, <1>a DEF Handle, GiveUp, Idle, Work, WorkerOK
  <2> QED
    BY <1>a, <2>1, <2>2 DEF StoredInv, AckedIsStored
<1>4. ASSUME NEW c \in Consumer, UpsertFinished(c) PROVE Goal'
  <2>0. worker[c].entry \in added
    BY <1>4, <1>a, <1>w DEF UpsertFinished, WorkerOK
  <2>1. worker[c].entry.task \in Task
    BY <1>e, <2>0
  <2>2. acked' = acked /\ hit \subseteq hit'
    BY <1>4 DEF UpsertFinished, GiveUp
  <2>3. kv' = kv \/ kv' = [kv EXCEPT ![worker[c].entry.task] = "Finished"]
    BY <1>4 DEF UpsertFinished
  <2>4. \A e \in added : kv[e.task] = "Finished" => kv'[e.task] = "Finished"
    BY <1>a, <1>e, <2>3
  <2>5. \A d \in Consumer :
          worker'[d].pc = "ack" => \/ worker'[d] = worker[d]
                                   \/ kv'[worker'[d].entry.task] = "Finished"
    BY <1>4, <1>a, <2>1 DEF UpsertFinished, GiveUp, Idle, Work, WorkerOK
  <2> QED
    BY <1>a, <1>w, <2>2, <2>4, <2>5 DEF StoredInv, AckedIsStored
<1>5. ASSUME NEW c \in Consumer, XAck(c) PROVE Goal'
  <2>1. kv' = kv /\ hit \subseteq hit' /\ acked' \subseteq acked \cup {worker[c].entry}
    BY <1>5 DEF XAck, GiveUp
  <2>2. worker[c].entry \in hit \/ kv[worker[c].entry.task] = "Finished"
    BY <1>5, <1>a DEF XAck, StoredInv
  <2>3. \A d \in Consumer : worker'[d].pc = "ack" => worker'[d] = worker[d]
    BY <1>5, <1>a DEF XAck, GiveUp, Idle, WorkerOK
  <2> QED
    BY <1>a, <2>1, <2>2, <2>3 DEF StoredInv, AckedIsStored
<1>6. ASSUME NEW c \in Consumer, StartConsumer(c) \/ CrashConsumer(c) PROVE Goal'
  <2>1. acked' = acked /\ kv' = kv /\ hit \subseteq hit'
    BY <1>6 DEF StartConsumer, CrashConsumer
  <2>2. \A d \in Consumer : worker'[d].pc = "ack" => worker'[d] = worker[d]
    BY <1>6, <1>a DEF StartConsumer, CrashConsumer, Idle, Down, WorkerOK
  <2> QED
    BY <1>k, <2>1, <2>2
<1>7. ASSUME NEW c \in Consumer, XReadGroupLost(c) PROVE Goal'
  BY <1>7, <1>k DEF XReadGroupLost, Deliver
<1>8. CASE UNCHANGED <<acked, hit, kv, worker>>
  BY <1>8, <1>k
<1> QED
  BY <1>1, <1>2, <1>3, <1>4, <1>5, <1>6, <1>7, <1>8
  DEF Next, Consume, vars, StartGraph, DelStream, XGroupCreate, StopGraph, ProduceTaskMsg

LEMMA IInvStep == IInv /\ [Next]_vars => IInv'
<1> SUFFICES ASSUME IInv, [Next]_vars PROVE IInv'
  OBVIOUS
<1>1. TypeOK' /\ Moves'
  BY TypeOKStep, MovesStep
<1>2. QueueInv'
  BY <1>1 DEF Moves
<1>3. TwiceOnlyAfterRetry'
  BY <1>1, <1>2, EntriesAreTries, PTL
<1> QED
  BY <1>1, <1>3, StoredStep DEF IInv, Moves

\* Whatever commands are sent again and replies get lost, an entry goes missing only
\* when the Graph service starts, none is delivered twice, none is acknowledged before
\* it was handled, and two entries of a task are two XADDs (graph/mq/task_impl.go:26,
\* :39-50, consumer/task/mq/task_impl.go:37-60).
THEOREM StreamInvariant == Spec => []IInv
BY IInvInit, IInvStep, PTL DEF Spec

\* An entry that is acknowledged has its result stored, unless it met an error
\* (consumer/task/main.go:107, consumer/task/mq/task_impl.go:56).
THEOREM AcknowledgedIsStored == Spec => []AckedIsStored
<1>1. IInv => AckedIsStored
  BY DEF IInv
<1> QED
  BY <1>1, StreamInvariant, PTL
=============================================================================
