-------------------------- MODULE SchedulerProofs --------------------------
(* Proofs about Scheduler for any replicas, hour and number of minutes.    *)
EXTENDS Scheduler, FiniteSetTheorems, TLAPS

LEMMA IInvInit == Init => IInv
<1> SUFFICES ASSUME Init PROVE IInv
  OBVIOUS
<1> USE SchedulerAssumption DEF Init, Min0, Ids, Place
<1>1. row \in Seq(Row) /\ DOMAIN row = {}
  OBVIOUS
<1>2. TypeOK
  BY <1>1 DEF TypeOK
<1>3. OneSchedulerPerMinute
  BY FS_EmptySet DEF OneSchedulerPerMinute
<1> QED
  BY <1>1, <1>2, <1>3 DEF IInv, LeaseInv, FirstInv, KeyInv, PreparedOncePerLease

(* What an insertion adds to the table.                                    *)
LEMMA InsertedRow ==
  ASSUME TypeOK, NEW by \in {"schedule", "user"}, NEW until \in {0, lease},
         InsertRow(by, until)
  PROVE  /\ row' \in Seq(Row)
         /\ Ids' = Ids \cup {Len(row) + 1}
         /\ Len(row) + 1 \notin Ids
         /\ row'[Len(row) + 1] = [by |-> by, until |-> until]
         /\ \A i \in Ids : row'[i] = row[i]
<1>1. [by |-> by, until |-> until] \in Row /\ row \in Seq(Row)
  BY SchedulerAssumption DEF TypeOK, Row
<1>2. PICK t \in Row : t = [by |-> by, until |-> until]
  BY <1>1
<1>3. row' = Append(row, t)
  BY <1>2 DEF InsertRow
<1>4. Len(row) \in Nat /\ Ids = 1 .. Len(row)
  BY <1>1 DEF Ids
<1>5. row' \in Seq(Row) /\ Len(row') = Len(row) + 1
  BY <1>1, <1>3
<1>6. Ids' = 1 .. Len(row) + 1
  BY <1>5 DEF Ids
<1>7. row'[Len(row) + 1] = t /\ \A i \in 1 .. Len(row) : row'[i] = row[i]
  BY <1>1, <1>3
<1> QED
  BY <1>2, <1>4, <1>5, <1>6, <1>7

LEMMA TypeOKStep == TypeOK /\ [Next]_vars => TypeOK'
<1> SUFFICES ASSUME TypeOK, [Next]_vars PROVE TypeOK'
  OBVIOUS
<1> USE SchedulerAssumption DEF TypeOK, Place, Goto, At, Error, Min0, Ids
<1>1. CASE Minute
  BY <1>1 DEF Minute
<1>2. CASE UserCreates
  <2>1. InsertRow("user", 0)
    BY <1>2 DEF UserCreates
  <2>2. row' \in Seq(Row) /\ Ids \subseteq Ids'
    BY <2>1, InsertedRow
  <2> QED
    BY <1>2, <2>2 DEF UserCreates
<1>d. CASE UserDrops
  <2>1. row' = row /\ dropped' \subseteq Ids
    BY <1>d DEF UserDrops, Present
  <2> QED
    BY <1>d, <2>1 DEF UserDrops
<1>3. ASSUME NEW r \in Replica, Start(r) PROVE TypeOK'
  BY <1>3 DEF Start
<1>4. ASSUME NEW r \in Replica, Lock(r) PROVE TypeOK'
  <2>1. lease' \in 0 .. MaxMinute + Hour
    BY <1>4 DEF Lock, CheckIdempotent
  <2>2. faults' \subseteq {"error", "crash"}
    BY <1>4 DEF Lock, CheckIdempotent
  <2> QED
    BY <1>4, <2>1, <2>2 DEF Lock, CheckIdempotent
<1>5. ASSUME NEW r \in Replica, GetGraphByID(r) PROVE TypeOK'
  BY <1>5 DEF GetGraphByID
<1>6. ASSUME NEW r \in Replica, InsertGraph(r) PROVE TypeOK'
  <2>1. row' \in Seq(Row) /\ Ids \subseteq Ids'
    <3>1. CASE InsertRow("schedule", lease)
      BY <3>1, InsertedRow
    <3>2. CASE row' = row
      BY <3>2
    <3> QED
      BY <1>6, <3>1, <3>2 DEF InsertGraph
  <2>2. wake' \in [Replica -> 0 .. MaxMinute + 1]
    <3>1. minute + 1 \in 0 .. MaxMinute + 1
      OBVIOUS
    <3>2. wake' = wake \/ wake' = [wake EXCEPT ![r] = minute + 1]
      BY <1>6 DEF InsertGraph
    <3> QED
      BY <3>1, <3>2
  <2>3. faults' \subseteq {"error", "crash"}
    BY <1>6 DEF InsertGraph
  <2>4. dropped' \subseteq Ids'
    BY <1>6, <2>1 DEF InsertGraph
  <2>5. pc' \in [Replica -> Place]
    BY <1>6 DEF InsertGraph
  <2>6. UNCHANGED <<minute, lease, keys, key, ticks>>
    BY <1>6 DEF InsertGraph
  <2> QED
    BY <2>1, <2>2, <2>3, <2>4, <2>5, <2>6
<1>7. ASSUME NEW r \in Replica, PublishTask(r) PROVE TypeOK'
  BY <1>7 DEF PublishTask
<1>8. ASSUME NEW r \in Replica, Wake(r) PROVE TypeOK'
  BY <1>8 DEF Wake
<1>9. ASSUME NEW r \in Replica, CreateCronTask(r) PROVE TypeOK'
  <2>1. keys' \subseteq 1 .. MaxMinute
    BY <1>9 DEF CreateCronTask, CheckIdempotent
  <2>2. key' \in [Replica -> 0 .. MaxMinute]
    BY <1>9 DEF CreateCronTask, CheckIdempotent
  <2>3. faults' \subseteq {"error", "crash"}
    BY <1>9 DEF CreateCronTask, CheckIdempotent
  <2> QED
    BY <1>9, <2>1, <2>2, <2>3 DEF CreateCronTask, CheckIdempotent
<1>10. ASSUME NEW r \in Replica, ScheduleTask(r) PROVE TypeOK'
  <2>1. pc' \in [Replica -> Place] /\ faults' \subseteq {"error", "crash"}
    BY <1>10 DEF ScheduleTask
  <2> QED
    BY <1>10, <2>1 DEF ScheduleTask
<1>11. ASSUME NEW r \in Replica, Crash(r) PROVE TypeOK'
  BY <1>11 DEF Crash
<1>12. CASE UNCHANGED vars
  BY <1>12 DEF vars
<1> QED
  BY <1>1, <1>2, <1>d, <1>3, <1>4, <1>5, <1>6, <1>7, <1>8, <1>9, <1>10, <1>11, <1>12
  DEF Next, Step

(* A row is inserted by a replica that holds the lock, under a lease that  *)
(* has no prepared graph; a lease is taken when the last one has ended.    *)
LEMMA PreparationStep ==
  TypeOK /\ LeaseInv /\ FirstInv /\ PreparedOncePerLease /\ [Next]_vars
    => LeaseInv' /\ FirstInv' /\ PreparedOncePerLease'
<1> DEFINE P == LeaseInv /\ FirstInv /\ PreparedOncePerLease
<1> SUFFICES ASSUME TypeOK, P, [Next]_vars PROVE P'
  OBVIOUS
<1>t. minute \in Nat /\ lease \in Nat /\ Hour \in Nat \ {0, 1}
      /\ pc \in [Replica -> Place]
      /\ \A i \in Ids : row[i].until \in Nat
  <2>1. row \in Seq(Row) /\ MaxMinute + Hour \in Nat
    BY SchedulerAssumption DEF TypeOK
  <2>2. \A i \in Ids : row[i] \in Row
    BY <2>1 DEF Ids
  <2>3. \A i \in Ids : row[i].until \in 0 .. MaxMinute + Hour
    BY <2>2 DEF Row
  <2>4. \A i \in Ids : row[i].until \in Nat
    BY <2>1, <2>3
  <2>5. minute \in Nat /\ lease \in Nat /\ Hour \in Nat \ {0, 1}
    BY <2>1, SchedulerAssumption DEF TypeOK, Min0
  <2>6. pc \in [Replica -> Place]
    BY DEF TypeOK
  <2> QED
    BY <2>4, <2>5, <2>6
<1>k. ASSUME row' = row, lease' = lease, minute' = minute, dropped \subseteq dropped',
             "error" \in faults => "error" \in faults',
             \A r \in Replica : pc'[r] \in {"get", "create"} => pc'[r] = pc[r]
      PROVE  P'
  BY <1>k DEF LeaseInv, FirstInv, PreparedOncePerLease, Ids
<1>1. CASE Minute
  <2>1. \A r \in Replica : pc[r] \in {"get", "create"} => minute' < lease
    BY <1>1 DEF Minute, Prompt
  <2> QED
    BY <1>1, <2>1 DEF Minute, LeaseInv, FirstInv, PreparedOncePerLease, Ids
<1>2. CASE UserCreates
  <2> DEFINE n == Len(row) + 1
  <2>1. /\ Ids' = Ids \cup {n}
        /\ n \notin Ids
        /\ row'[n].by = "user" /\ row'[n].until = 0
        /\ \A i \in Ids : row'[i] = row[i]
    <3>1. InsertRow("user", 0)
      BY <1>2 DEF UserCreates
    <3> QED
      BY <3>1, InsertedRow
  <2>2. lease' = lease /\ minute' = minute /\ pc' = pc /\ faults' = faults
        /\ dropped' = dropped
    BY <1>2 DEF UserCreates
  <2> HIDE DEF n
  <2> QED
    BY <1>t, <2>1, <2>2 DEF LeaseInv, FirstInv, PreparedOncePerLease
<1>d. CASE UserDrops
  BY <1>d, <1>k DEF UserDrops
<1>3. ASSUME NEW r \in Replica, Start(r) PROVE P'
  BY <1>3, <1>k, <1>t DEF Start, Goto
<1>4. ASSUME NEW r \in Replica, Lock(r) PROVE P'
  <2>1. CASE lease' = lease
    BY <1>4, <1>k, <1>t, <2>1 DEF Lock, Goto, Error, At, CheckIdempotent
  <2>2. CASE lease' # lease
    <3>1. /\ minute >= lease /\ lease' = minute + Hour
          /\ pc' = [pc EXCEPT ![r] = "get"] \/ pc' = [pc EXCEPT ![r] = "cron"]
          /\ row' = row /\ minute' = minute /\ dropped' = dropped
          /\ "error" \in faults => "error" \in faults'
      BY <1>4, <2>2 DEF Lock, Goto, CheckIdempotent, Error
    <3>2. lease' > lease /\ minute' < lease'
      BY <1>t, <3>1
    <3>3. \A s \in Replica : pc[s] \notin {"get", "create"}
      BY <1>t, <3>1 DEF LeaseInv
    <3>4. LeaseInv'
      <4>1. \A i \in Ids' : row'[i].until < lease'
        BY <1>t, <3>1, <3>2 DEF LeaseInv, Ids
      <4>2. \A i \in Ids' : row'[i].until <= lease' /\ row'[i].until # lease'
        BY <1>t, <3>1, <4>1 DEF Ids
      <4>3. \A s, u \in Replica :
              pc'[s] \in {"get", "create"} /\ pc'[u] \in {"get", "create"} => s = u
        BY <1>t, <3>1, <3>3
      <4> QED
        BY <3>2, <4>2, <4>3 DEF LeaseInv
    <3>5. FirstInv'
      BY <1>t, <3>1, <3>3 DEF FirstInv, Ids
    <3>6. PreparedOncePerLease'
      BY <3>1 DEF PreparedOncePerLease, Ids
    <3> QED
      BY <3>4, <3>5, <3>6
  <2> QED
    BY <2>1, <2>2
<1>5. ASSUME NEW r \in Replica, GetGraphByID(r) PROVE P'
  <2>1. /\ lease' = lease /\ minute' = minute /\ row' = row /\ pc[r] = "get"
        /\ \/ pc' = [pc EXCEPT ![r] = "cron"]
           \/ pc' = [pc EXCEPT ![r] = "create"]
        /\ "error" \in faults => "error" \in faults'
        /\ dropped' = dropped
    BY <1>5 DEF GetGraphByID, Goto, At, Error
  <2>2. \A s \in Replica : pc'[s] \in {"get", "create"} => pc[s] \in {"get", "create"}
    BY <1>t, <2>1
  <2>3. LeaseInv' /\ PreparedOncePerLease'
    BY <2>1, <2>2 DEF LeaseInv, PreparedOncePerLease, Ids
  <2>4. FirstInv'
    <3>1. CASE "error" \in faults' \/ PythonDepsGraph \in dropped
      BY <2>1, <3>1 DEF FirstInv
    <3>2. CASE /\ "error" \notin faults' /\ PythonDepsGraph \notin dropped
               /\ pc' = [pc EXCEPT ![r] = "create"]
      <4>1. PythonDepsGraph \notin Ids
        BY <1>5, <1>t, <3>2 DEF GetGraphByID, Goto, Error, Present
      <4>2. Ids = 1 .. Len(row) /\ Len(row) \in Nat
        BY DEF Ids, TypeOK
      <4>3. Ids' = {}
        BY <2>1, <4>1, <4>2 DEF PythonDepsGraph, Ids
      <4> QED
        BY <4>3 DEF FirstInv
    <3>3. CASE "error" \notin faults' /\ pc' = [pc EXCEPT ![r] = "cron"]
      BY <1>t, <2>1, <3>3 DEF FirstInv, Ids
    <3> QED
      BY <2>1, <3>1, <3>2, <3>3
  <2> QED
    BY <2>3, <2>4
<1>6. ASSUME NEW r \in Replica, InsertGraph(r) PROVE P'
  <2>1. CASE row' = row
    BY <1>6, <1>k, <1>t, <2>1 DEF InsertGraph, Goto, Error
  <2>2. CASE row' # row
    <3> DEFINE n == Len(row) + 1
    <3>1. /\ Ids' = Ids \cup {n}
          /\ n \notin Ids
          /\ row'[n].by = "schedule" /\ row'[n].until = lease
          /\ \A i \in Ids : row'[i] = row[i]
      BY <1>6, <2>2, InsertedRow DEF InsertGraph
    <3>2. /\ lease' = lease /\ minute' = minute /\ dropped' = dropped
          /\ "error" \in faults => "error" \in faults'
          /\ pc[r] = "create"
          /\ pc' = [pc EXCEPT ![r] = "publish"] \/ pc' = [pc EXCEPT ![r] = "sleep"]
      BY <1>6, <2>2 DEF InsertGraph, Goto, At, Error
    <3> HIDE DEF n
    <3>3. \A s \in Replica : pc'[s] \notin {"get", "create"}
      BY <1>t, <3>2 DEF LeaseInv
    <3>4. \A i \in Ids : row[i].by = "schedule" => row[i].until # lease
      BY <3>2 DEF LeaseInv
    <3>5. LeaseInv'
      BY <1>t, <3>1, <3>2, <3>3 DEF LeaseInv
    <3>6. PreparedOncePerLease'
      BY <3>1, <3>4 DEF PreparedOncePerLease
    <3>7. "error" \notin faults /\ PythonDepsGraph \notin dropped =>
            \A i \in Ids : row[i].by # "schedule"
      BY <3>2 DEF FirstInv
    <3>8. FirstInv'
      BY <3>1, <3>2, <3>3, <3>7 DEF FirstInv
    <3> QED
      BY <3>5, <3>6, <3>8
  <2> QED
    BY <2>1, <2>2
<1>7. ASSUME NEW r \in Replica, PublishTask(r) PROVE P'
  BY <1>7, <1>k, <1>t DEF PublishTask, Goto
<1>8. ASSUME NEW r \in Replica, Wake(r) PROVE P'
  BY <1>8, <1>k, <1>t DEF Wake, Goto
<1>9. ASSUME NEW r \in Replica, CreateCronTask(r) PROVE P'
  <2>1. "error" \in faults => "error" \in faults'
    BY <1>9 DEF CreateCronTask, Error
  <2> QED
    BY <1>9, <1>k, <1>t, <2>1 DEF CreateCronTask, Goto
<1>10. ASSUME NEW r \in Replica, ScheduleTask(r) PROVE P'
  BY <1>10, <1>k, <1>t DEF ScheduleTask, Goto, Error
<1>11. ASSUME NEW r \in Replica, Crash(r) PROVE P'
  BY <1>11, <1>k, <1>t DEF Crash, Goto
<1>12. CASE UNCHANGED vars
  BY <1>12, <1>k DEF vars
<1> QED
  BY <1>1, <1>2, <1>d, <1>3, <1>4, <1>5, <1>6, <1>7, <1>8, <1>9, <1>10, <1>11, <1>12
  DEF Next, Step

LEMMA KeyStep == TypeOK /\ KeyInv /\ [Next]_vars => KeyInv'
<1> SUFFICES ASSUME TypeOK, KeyInv, [Next]_vars PROVE KeyInv'
  OBVIOUS
<1>t. pc \in [Replica -> Place] /\ key \in [Replica -> 0 .. MaxMinute]
  BY DEF TypeOK
<1>k. ASSUME keys' = keys, key' = key,
             \A r \in Replica : pc'[r] \in {"run", "scheduling"} =>
               pc[r] \in {"run", "scheduling"}
      PROVE  KeyInv'
  BY <1>k DEF KeyInv
<1>1. CASE Minute \/ UserCreates \/ UserDrops
  BY <1>1, <1>k DEF Minute, UserCreates, UserDrops
<1>2. ASSUME NEW r \in Replica, Start(r) \/ Lock(r) PROVE KeyInv'
  BY <1>2, <1>k, <1>t DEF Start, Lock, Goto
<1>3. ASSUME NEW r \in Replica, GetGraphByID(r) \/ InsertGraph(r) PROVE KeyInv'
  BY <1>3, <1>k, <1>t DEF GetGraphByID, InsertGraph, Goto
<1>4. ASSUME NEW r \in Replica, PublishTask(r) \/ Wake(r) PROVE KeyInv'
  BY <1>4, <1>k, <1>t DEF PublishTask, Wake, Goto
<1>5. ASSUME NEW r \in Replica, CreateCronTask(r) PROVE KeyInv'
  <2>1. CASE key' = key /\ keys \subseteq keys' /\ pc' = [pc EXCEPT ![r] = "serving"]
    BY <1>t, <2>1 DEF KeyInv
  <2>2. CASE /\ minute \notin keys
             /\ keys' = keys \cup {minute}
             /\ key' = [key EXCEPT ![r] = minute]
             /\ pc' = [pc EXCEPT ![r] = "run"]
    BY <1>t, <2>2 DEF KeyInv
  <2> QED
    BY <1>5, <2>1, <2>2 DEF CreateCronTask, CheckIdempotent, Goto
<1>6. ASSUME NEW r \in Replica, ScheduleTask(r) PROVE KeyInv'
  BY <1>6, <1>k, <1>t DEF ScheduleTask, Goto, At
<1>7. ASSUME NEW r \in Replica, Crash(r) PROVE KeyInv'
  BY <1>7, <1>t DEF Crash, Goto, KeyInv
<1>8. CASE UNCHANGED vars
  BY <1>8, <1>k DEF vars
<1> QED
  BY <1>1, <1>2, <1>3, <1>4, <1>5, <1>6, <1>7, <1>8 DEF Next, Step

LEMMA MinutesAreFinite ==
  ASSUME NEW K, K \subseteq Min0 .. MaxMinute
  PROVE  IsFiniteSet(K) /\ Cardinality(K) \in Nat
<1>1. IsFiniteSet(Min0 .. MaxMinute)
  BY FS_Interval, SchedulerAssumption DEF Min0
<1>2. K \in SUBSET (Min0 .. MaxMinute)
  OBVIOUS
<1> QED
  BY <1>1, <1>2, FS_Subset, FS_CardinalityType

(* The schedulers that run have different keys: there are not more of them *)
(* than keys, and keys stay.                                               *)
LEMMA TicksStep ==
  TypeOK /\ TypeOK' /\ KeyInv /\ KeyInv' /\ OneSchedulerPerMinute /\ [Next]_vars
    => OneSchedulerPerMinute'
<1> SUFFICES ASSUME TypeOK, TypeOK', KeyInv, KeyInv', OneSchedulerPerMinute, [Next]_vars
             PROVE  OneSchedulerPerMinute'
  OBVIOUS
<1>1. \A r, s \in Replica :
        pc'[r] = "scheduling" /\ pc'[s] = "scheduling" /\ r # s => key'[r] # key'[s]
  BY DEF KeyInv
<1>2. keys \subseteq keys'
  BY DEF Next, Step, vars, Minute, UserCreates, UserDrops, Start, Lock, GetGraphByID, InsertGraph,
         PublishTask, Wake, CreateCronTask, ScheduleTask, Crash
<1>3. Cardinality(ticks') <= Cardinality(keys')
  <2>1. CASE ticks' = ticks
    <3>1. /\ IsFiniteSet(keys') /\ Cardinality(keys') \in Nat
          /\ IsFiniteSet(keys) /\ Cardinality(keys) \in Nat
      BY MinutesAreFinite DEF TypeOK
    <3>2. keys \in SUBSET keys'
      BY <1>2
    <3>3. Cardinality(keys) <= Cardinality(keys')
      BY <3>1, <3>2, FS_Subset
    <3>4. ticks \in SUBSET Replica
      BY DEF TypeOK
    <3>5. Cardinality(ticks) \in Nat
      BY <3>4, SchedulerAssumption, FS_Subset, FS_CardinalityType
    <3> QED
      BY <2>1, <3>1, <3>3, <3>5 DEF OneSchedulerPerMinute
  <2>2. CASE ticks' # ticks
    <3>1. ticks' = {r \in Replica : pc[r] = "scheduling"} /\ keys' = keys
      BY <2>2 DEF Next, Step, vars, Minute, UserCreates, UserDrops, Start, Lock, GetGraphByID,
         InsertGraph, PublishTask, Wake, CreateCronTask, ScheduleTask, Crash, At
    <3> DEFINE S == {r \in Replica : pc[r] = "scheduling"}
               f == [r \in S |-> key[r]]
    <3>2. f \in Injection(S, keys)
      BY DEF KeyInv, Injection, IsInjective
    <3>3. IsFiniteSet(keys)
      BY MinutesAreFinite DEF TypeOK
    <3> HIDE DEF f
    <3>4. Cardinality(S) <= Cardinality(keys)
      BY <3>2, <3>3, FS_Injection
    <3> QED
      BY <3>1, <3>4
  <2> QED
    BY <2>1, <2>2
<1> QED
  BY <1>1, <1>3 DEF OneSchedulerPerMinute

LEMMA IInvStep == IInv /\ [Next]_vars => IInv'
<1> SUFFICES ASSUME IInv, [Next]_vars PROVE IInv'
  OBVIOUS
<1>1. TypeOK'
  BY TypeOKStep DEF IInv
<1>2. LeaseInv' /\ FirstInv' /\ PreparedOncePerLease'
  BY PreparationStep DEF IInv
<1>3. KeyInv'
  BY KeyStep DEF IInv
<1>4. OneSchedulerPerMinute'
  BY <1>1, <1>3, TicksStep DEF IInv
<1> QED
  BY <1>1, <1>2, <1>3, <1>4 DEF IInv

(* Whoever holds the lock of the preparation holds it alone and under a    *)
(* lease without a prepared graph, and who schedules has a key of its own, *)
(* whatever replicas start, crash and fail (graph.go:47-66, task.go:60-73).*)
THEOREM SchedulerInvariant == Spec => []IInv
<1> QED
  BY IInvInit, IInvStep, PTL DEF Spec

(* However many replicas start, crash and fail, in whatever order, a lease *)
(* sees at most one prepared graph (the lock of graph.go:51).              *)
THEOREM LeaseIsRespected == Spec => []PreparedOncePerLease
<1>1. IInv => PreparedOncePerLease
  BY DEF IInv
<1> QED
  BY <1>1, SchedulerInvariant, PTL

(* Two replicas never schedule under the key of one minute, and an hour    *)
(* has at most as many ticks as keys were taken (task.go:64, :69).         *)
THEOREM SchedulersHaveTheirKeys == Spec => []OneSchedulerPerMinute
<1>1. IInv => OneSchedulerPerMinute
  BY DEF IInv
<1> QED
  BY <1>1, SchedulerInvariant, PTL

(* Without errors, and until graph 1 is dropped, the prepared graph is     *)
(* created at most once, whatever leases end and replicas crash in between *)
(* (graph.go:53).                                                          *)
THEOREM PreparedAtMostOnce == Spec => []PreparedOnce
<1>1. IInv => PreparedOnce
  <2> SUFFICES ASSUME IInv, "error" \notin faults, PythonDepsGraph \notin dropped
               PROVE  Cardinality({i \in Ids : row[i].by = "schedule"}) <= 1
    BY DEF PreparedOnce
  <2> DEFINE S == {i \in Ids : row[i].by = "schedule"}
  <2>1. \A i, j \in S : i = j
    BY DEF IInv, FirstInv
  <2>2. ASSUME S = {} PROVE Cardinality(S) <= 1
    <3>1. S = {}
      BY <2>2
    <3>2. Cardinality({}) = 0
      BY FS_EmptySet
    <3> HIDE DEF S
    <3> QED
      BY <3>1, <3>2
  <2>3. ASSUME NEW i \in S PROVE Cardinality(S) <= 1
    <3>1. S = {i}
      BY <2>1, <2>3
    <3>2. Cardinality({i}) = 1
      BY FS_Singleton
    <3> HIDE DEF S
    <3> QED
      BY <3>1, <3>2
  <2>4. Cardinality(S) <= 1
    BY <2>2, <2>3
  <2> QED
    BY <2>4
<1> QED
  BY <1>1, SchedulerInvariant, PTL
=============================================================================
