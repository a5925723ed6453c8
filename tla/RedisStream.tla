---------------------------- MODULE RedisStream ----------------------------
(***************************************************************************)
(* The task queue of the configuration TaskMqEd = task_ed: a Redis stream  *)
(* with one consumer group.  Each replica of the Graph service deletes the *)
(* stream when it starts and creates the group again; a consumer reads one *)
(* new message at a time and acknowledges it unless its handler failed.    *)
(* What is delivered and not acknowledged is never read again.             *)
(*                                                                         *)
(* A call to Redis may take effect although the client sees it fail; then  *)
(* go-redis sends the command again, four times in all, so that a task     *)
(* that is published once may have several entries in the stream, also     *)
(* when PublishTask returns an error.                                      *)
(***************************************************************************)
EXTENDS Naturals, Sequences

CONSTANTS
  Task,       \* the published tasks
  Graph,      \* the replicas of the Graph service
  Consumer,   \* the consumer processes
  MaxTries,   \* MaxTries[t]: how often the client sends XADD for t, at most
  None        \* not an entry

Entry == UNION {[task : {t}, try : 1 .. MaxTries[t]] : t \in Task}

ASSUME RedisStreamAssumption ==
  /\ MaxTries \in [Task -> Nat \ {0}]
  /\ None \notin Entry

VARIABLES
  stream,   \* the entries in the stream, oldest first
  last,     \* how many of them the group has delivered
  group,    \* is the consumer group there
  pel,      \* delivered and not acknowledged
  added,    \* ever added to the stream (history)
  acked,    \* acknowledged (history)
  deleted,  \* deleted with the stream before they were acknowledged (history)
  hit,      \* whose reader or handler crashed or met an error (history)
  kv,       \* kv[t]: the last record of t that was stored, expired or not
  publish,  \* publish[t]: where PublishTask is
  tries,    \* tries[t]: how often XADD was sent for t
  graph,    \* graph[g]: where the start of replica g is
  worker    \* worker[c]: what consumer c does, and with which entry

mqVars == <<stream, last, group, pel, added, acked, deleted>>
vars == <<mqVars, hit, kv, publish, tries, graph, worker>>

Idle == [pc |-> "idle", entry |-> None]
Down == [pc |-> "down", entry |-> None]
Undelivered == {stream[i] : i \in last + 1 .. Len(stream)}

\* The queue, and who works on it.
QueueOK ==
  /\ stream \in Seq(Entry)
  /\ last \in 0 .. Len(stream)
  /\ group \in BOOLEAN
  /\ \A E \in {pel, added, acked, deleted} : E \subseteq Entry

WorkerOK ==
  /\ worker \in [Consumer -> [pc : {"idle", "down", "handling", "finished", "ack"},
                             entry : Entry \cup {None}]]
  /\ \A c \in Consumer : worker[c].entry = None <=> worker[c].pc \in {"idle", "down"}

TypeOK ==
  /\ QueueOK
  /\ WorkerOK
  /\ hit \subseteq Entry
  /\ kv \in [Task -> {"none", "New", "Finished"}]
  /\ publish \in [Task -> {"none", "cached", "sent", "failed"}]
  /\ tries \in [Task -> Nat]
  /\ \A t \in Task : tries[t] <= MaxTries[t]
  /\ graph \in [Graph -> {"down", "starting", "up"}]

Init ==
  /\ stream = << >>
  /\ last = 0
  /\ group = FALSE
  /\ pel = {} /\ added = {} /\ acked = {} /\ deleted = {} /\ hit = {}
  /\ kv = [t \in Task |-> "none"]
  /\ publish = [t \in Task |-> "none"]
  /\ tries = [t \in Task |-> 0]
  /\ graph = [g \in Graph |-> "down"]
  /\ worker = [c \in Consumer |-> Down]
-----------------------------------------------------------------------------
(* The Graph service.                                                      *)

StartGraph(g) ==
  /\ graph[g] = "down"
  /\ graph' = [graph EXCEPT ![g] = "starting"]
  /\ UNCHANGED <<mqVars, hit, kv, publish, tries, worker>>

\* InitTaskMq deletes the stream with its group and all that is in it, twice when the
\* reply is lost, and not at all when DEL fails: its error is ignored.
DelStream(g) ==
  /\ graph[g] = "starting"
  /\ deleted' = deleted \cup Undelivered \cup pel
  /\ stream' = << >>
  /\ last' = 0
  /\ group' = FALSE
  /\ pel' = {}
  /\ UNCHANGED <<added, acked, hit, kv, publish, tries, graph, worker>>

\* Then it creates the group from the first message on ("0"); that another replica
\* has done so, or that there is one already, is not an error.
XGroupCreate(g) ==
  /\ graph[g] = "starting"
  /\ graph' = [graph EXCEPT ![g] = "up"]
  /\ group' = TRUE
  /\ UNCHANGED <<stream, last, pel, added, acked, deleted, hit, kv, publish, tries, worker>>

\* The replica stops, crashes, or panics because XGROUP CREATE failed, with or without
\* an effect.
StopGraph(g) ==
  /\ graph[g] # "down"
  /\ graph' = [graph EXCEPT ![g] = "down"]
  /\ UNCHANGED group \/ (graph[g] = "starting" /\ group' = TRUE)
  /\ UNCHANGED <<stream, last, pel, added, acked, deleted, hit, kv, publish, tries, worker>>

\* PublishTask stores the record first and stops at an error.
UpsertNew(t) ==
  /\ publish[t] = "none"
  /\ \E g \in Graph : graph[g] = "up"
  /\ \/ /\ publish' = [publish EXCEPT ![t] = "cached"]
        /\ kv' = [kv EXCEPT ![t] = "New"]
     \/ /\ publish' = [publish EXCEPT ![t] = "failed"]
        /\ kv' = kv \/ kv' = [kv EXCEPT ![t] = "New"]
  /\ UNCHANGED <<mqVars, hit, tries, graph, worker>>

\* XADD adds an entry; it creates the stream when there is none.
AddEntry(e) ==
  /\ stream' = Append(stream, e)
  /\ added' = added \cup {e}

\* One XADD: it is answered, or an error comes instead, after it had its effect or
\* not; then the client sends it again, or the publication has failed.
ProduceTaskMsg(t) ==
  LET n == tries[t] + 1 IN
  /\ publish[t] = "cached"
  /\ n <= MaxTries[t]
  /\ tries' = [tries EXCEPT ![t] = n]
  /\ \/ /\ AddEntry([task |-> t, try |-> n])
        /\ publish' = [publish EXCEPT ![t] = "sent"]
     \/ /\ AddEntry([task |-> t, try |-> n]) \/ UNCHANGED <<stream, added>>
        /\ \/ publish' = [publish EXCEPT ![t] = "failed"]
           \/ n < MaxTries[t] /\ UNCHANGED publish
  /\ UNCHANGED <<last, group, pel, acked, deleted, hit, kv, graph, worker>>
-----------------------------------------------------------------------------
(* A consumer.                                                             *)

Work(c, pc, e) == worker' = [worker EXCEPT ![c] = [pc |-> pc, entry |-> e]]

\* Every start of a consumer is a new member of the group; what an earlier one
\* left pending is not its own.
StartConsumer(c) ==
  /\ worker[c] = Down
  /\ worker' = [worker EXCEPT ![c] = Idle]
  /\ UNCHANGED <<mqVars, hit, kv, publish, tries, graph>>

\* A bug: messages are read with NOACK.
XReadGroupNoAck(c) ==
  /\ worker[c] = Idle
  /\ group
  /\ last < Len(stream)
  /\ last' = last + 1
  /\ Work(c, "handling", stream[last + 1])
  /\ UNCHANGED <<stream, group, pel, added, acked, deleted, hit, kv, publish, tries, graph>>

\* XREADGROUP ">": the next message that the group has not delivered is pending now.
Deliver ==
  /\ group
  /\ last < Len(stream)
  /\ last' = last + 1
  /\ pel' = pel \cup {stream[last + 1]}
  /\ UNCHANGED <<stream, group, added, acked, deleted>>

XReadGroup(c) ==
  /\ worker[c] = Idle
  /\ Deliver
  /\ Work(c, "handling", stream[last + 1])
  /\ UNCHANGED <<hit, kv, publish, tries, graph>>

\* The connection breaks before the reply arrives: the call returns an error, the loop
\* reads the next message, and this one stays pending.  Or the consumer is gone and
\* Redis still serves the read it waited in.
XReadGroupLost(c) ==
  /\ worker[c] \in {Idle, Down}
  /\ Deliver
  /\ hit' = hit \cup {stream[last + 1]}
  /\ UNCHANGED <<kv, publish, tries, graph, worker>>

\* The work of c on its entry ends with an error; the entry stays pending.
GiveUp(c) ==
  /\ worker' = [worker EXCEPT ![c] = Idle]
  /\ hit' = hit \cup {worker[c].entry}

\* The handler returns: with a result, asking to be delayed (which is taken for
\* success), or with an error.
Handle(c) ==
  /\ worker[c].pc = "handling"
  /\ \/ Work(c, "finished", worker[c].entry) /\ UNCHANGED hit
     \/ Work(c, "ack", worker[c].entry) /\ hit' = hit \cup {worker[c].entry}
     \/ GiveUp(c)
  /\ UNCHANGED <<mqVars, kv, publish, tries, graph>>

\* A bug: a record that is stored is not acknowledged.
UpsertFinishedOnly(c) ==
  /\ worker[c].pc = "finished"
  /\ kv' = [kv EXCEPT ![worker[c].entry.task] = "Finished"]
  /\ worker' = [worker EXCEPT ![c] = Idle]
  /\ UNCHANGED <<mqVars, hit, publish, tries, graph>>

\* A bug: the error of SET is dropped.
UpsertFinishedUnchecked(c) ==
  /\ worker[c].pc = "finished"
  /\ kv' = [kv EXCEPT ![worker[c].entry.task] = "Finished"] \/ UNCHANGED kv
  /\ Work(c, "ack", worker[c].entry)
  /\ UNCHANGED <<mqVars, hit, publish, tries, graph>>

\* The result is stored; or there is an error, and it is stored or not.
UpsertFinished(c) ==
  /\ worker[c].pc = "finished"
  /\ \/ /\ kv' = [kv EXCEPT ![worker[c].entry.task] = "Finished"]
        /\ \/ Work(c, "ack", worker[c].entry) /\ UNCHANGED hit
           \/ GiveUp(c)
     \/ GiveUp(c) /\ UNCHANGED kv
  /\ UNCHANGED <<mqVars, publish, tries, graph>>

\* XACK; without the group, or after the stream was deleted, it acknowledges none.
\* When it fails it may have had its effect.
XAck(c) ==
  /\ worker[c].pc = "ack"
  /\ \/ /\ pel' = pel \ {worker[c].entry}
        /\ acked' = acked \cup ({worker[c].entry} \cap pel)
        /\ \/ worker' = [worker EXCEPT ![c] = Idle] /\ UNCHANGED hit
           \/ GiveUp(c)
     \/ GiveUp(c) /\ UNCHANGED <<pel, acked>>
  /\ UNCHANGED <<stream, last, group, added, deleted, kv, publish, tries, graph>>

CrashConsumer(c) ==
  /\ worker[c] # Down
  /\ worker' = [worker EXCEPT ![c] = Down]
  /\ hit' = hit \cup ({worker[c].entry} \cap Entry)
  /\ UNCHANGED <<mqVars, kv, publish, tries, graph>>
-----------------------------------------------------------------------------
Consume(c) ==
  StartConsumer(c) \/ XReadGroup(c) \/ Handle(c) \/ UpsertFinished(c) \/ XAck(c)

Next ==
  \/ \E g \in Graph : StartGraph(g) \/ DelStream(g) \/ XGroupCreate(g) \/ StopGraph(g)
  \/ \E t \in Task : UpsertNew(t) \/ ProduceTaskMsg(t)
  \/ \E c \in Consumer : Consume(c) \/ XReadGroupLost(c) \/ CrashConsumer(c)

Spec == Init /\ [][Next]_vars

\* Processes are started and go on; a replica that starts again and again comes up
\* once in a while, and a consumer that does so is up long enough to read a message.
FairSpec ==
  /\ Spec
  /\ \A g \in Graph : WF_vars(StartGraph(g)) /\ SF_vars(XGroupCreate(g))
  /\ \A c \in Consumer : WF_vars(Consume(c)) /\ SF_vars(XReadGroup(c))
-----------------------------------------------------------------------------
(* Properties.                                                             *)

\* The entries the queue still has to deliver or to have acknowledged, those that
\* were acknowledged and those that a start of the Graph service deleted are all
\* that were added: nothing else loses one (task_impl.go:38-60, :26).  A publication
\* that did not fail has added one.
OnlyInitLoses ==
  /\ added = Undelivered \cup pel \cup acked \cup deleted
  /\ \A t \in Task : publish[t] = "sent" => \E e \in added : e.task = t

\* No entry is acknowledged while it is handled or before, and none is delivered
\* again (main.go:100, consumer/task/mq/task_impl.go:56).
AckedIsHandled ==
  /\ acked \cap (pel \cup Undelivered) = {}
  /\ \A c \in Consumer : worker[c].entry \notin acked \cup Undelivered
  /\ \A c, d \in Consumer :
       c # d /\ worker[c].entry # None => worker[c].entry # worker[d].entry

\* A handler runs beside another one of its task, or after it, only when the client
\* had to send XADD again: each of them has an entry of its own.
TwiceOnlyAfterRetry ==
  \A e, f \in added : e # f /\ e.task = f.task => tries[e.task] > 1

\* An acknowledged entry has a result, unless it met an error: the result is stored
\* before XACK, and every failure on the way keeps the entry pending (main.go:107,
\* consumer/task/mq/task_impl.go:56).
AckedIsStored ==
  \A e \in acked : e \in hit \/ kv[e.task] = "Finished"

\* Whatever else crashes and starts again, an entry that was added is finished and
\* acknowledged in the end, also when PublishTask has returned an error, unless its
\* own handling met an error, its delivery was lost or a start of the Graph service
\* deleted it: a failure stays with its entry (consumer/task/mq/task_impl.go:37-60).
AddedIsFinished ==
  \A e \in Entry :
    e \in added ~> (kv[e.task] = "Finished" /\ e \in acked) \/ e \in deleted \cup hit

\* No entry is in the stream twice: it is new when XADD adds it, and who works on it,
\* has it pending or has acknowledged it, got it from the stream.
QueueInv ==
  /\ \A i, j \in last + 1 .. Len(stream) : stream[i] = stream[j] => i = j
  /\ Undelivered \cap pel = {}
  /\ deleted \cap Undelivered = {}
  /\ \A e \in added : e.try <= tries[e.task]
  /\ \A t \in Task : publish[t] = "none" => tries[t] = 0
  /\ \A c \in Consumer : worker[c].entry \in added \cup {None}

\* A record is stored before its entry can be acknowledged, and stays.
StoredInv ==
  \A c \in Consumer :
    worker[c].pc = "ack" => worker[c].entry \in hit \/ kv[worker[c].entry.task] = "Finished"

\* The inductive invariant.
IInv ==
  /\ TypeOK
  /\ QueueInv
  /\ OnlyInitLoses
  /\ AckedIsHandled
  /\ TwiceOnlyAfterRetry
  /\ StoredInv
  /\ AckedIsStored
=============================================================================
