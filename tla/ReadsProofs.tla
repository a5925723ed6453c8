---------------------------- MODULE ReadsProofs ----------------------------
(***************************************************************************)
(* Proofs about the two components that answer from what others write:     *)
(* AlgoExec (the results of algorithms) and GraphReads (the queries).      *)
(***************************************************************************)
EXTENDS AlgoExec, GraphReads, FiniteSetTheorems, TLAPS
-----------------------------------------------------------------------------
(* AlgoExec.                                                               *)

\* The invariant holds initially: there are no rows, jobs and readers.
LEMMA IInvInit == Init => IInv
BY AlgoExecAssumption
DEF Init, IInv, TypeOK, HotFindsFile, TaskIsBacked, HasRow, Row, Ended, Idle

\* A request that has submitted its job inserts a row that is backed.
LEMMA ExecStep ==
  ASSUME IInv, NEW t \in Task, ExecAlgo(t) PROVE IInv'
<1> USE AlgoExecAssumption DEF IInv, HasRow, Row, Ended, Idle, graphVars
<1>1. CASE CheckParams(t)
  BY <1>1 DEF CheckParams, Goto, TypeOK, HotFindsFile, TaskIsBacked
<1>2. CASE GetAlgoExecCfg(t)
  BY <1>2 DEF GetAlgoExecCfg, Goto, TypeOK, HotFindsFile, TaskIsBacked
<1>3. CASE SubmitAlgo(t)
  BY <1>3 DEF SubmitAlgo, Goto, TypeOK, HotFindsFile, TaskIsBacked
<1>4. CASE InsertAlgoTask(t)
  BY <1>4 DEF InsertAlgoTask, Goto, TypeOK, HotFindsFile, TaskIsBacked
<1> QED BY <1>1, <1>2, <1>3, <1>4 DEF ExecAlgo

\* The job uploads before it writes the status, and its end touches no result.
LEMMA JobStep ==
  ASSUME IInv, NEW t \in Task,
         Upload(t) \/ UpdateStatusByOutput(t) \/ JobFails(t)
  PROVE  IInv'
<1> USE AlgoExecAssumption DEF IInv, HasRow, Row, Ended, Idle, graphVars
<1>1. CASE Upload(t)
  BY <1>1 DEF Upload, TypeOK, HotFindsFile, TaskIsBacked
<1>2. CASE UpdateStatusByOutput(t)
  BY <1>2 DEF UpdateStatusByOutput, TypeOK, HotFindsFile, TaskIsBacked
<1>3. CASE JobFails(t)
  BY <1>3 DEF JobFails, TypeOK, HotFindsFile, TaskIsBacked
<1> QED BY <1>1, <1>2, <1>3

\* Dropping a task ends its job at most, and deletes its row at most.
LEMMA DropTaskStep ==
  ASSUME IInv, NEW d \in Dropper, NEW t \in Task, DropAlgoTask(d, t) PROVE IInv'
<1> USE AlgoExecAssumption DEF IInv, HasRow, Row, Ended, graphVars
<1>0. ASSUME NEW step \in {Idle} \cup ({"stop", "delete"} \X Task), Then(d, step)
      PROVE  drop' \in [Dropper -> {Idle} \cup ({"stop", "delete"} \X Task) \cup
                                  ({"row"} \X Graph)]
  BY <1>0 DEF Then, TypeOK
<1>1. CASE GetAlgoTaskByID(d, t)
  <2>1. TypeOK'
    BY <1>0, <1>1 DEF GetAlgoTaskByID, TypeOK
  <2> QED BY <1>1, <2>1 DEF GetAlgoTaskByID, HotFindsFile, TaskIsBacked
<1>2. CASE StopAlgo(d, t)
  <2>1. job'[t] # "none" \/ job[t] = "none"
    BY <1>2 DEF StopAlgo, TypeOK
  <2>2. \A u \in Task : job'[u] = job[u] \/ job'[u] = "killed"
    BY <1>2 DEF StopAlgo, TypeOK
  <2>3. TypeOK'
    BY <1>0, <1>2 DEF StopAlgo, TypeOK
  <2> QED BY <1>2, <2>1, <2>2, <2>3 DEF StopAlgo, TypeOK, HotFindsFile, TaskIsBacked
<1>3. CASE DropAlgoTaskByID(d, t)
  <2>1. \A u \in Task : exec'[u] = exec[u] \/ exec'[u] = "dropped"
    BY <1>3 DEF DropAlgoTaskByID, TypeOK
  <2>2. TypeOK'
    BY <1>0, <1>3 DEF DropAlgoTaskByID, TypeOK
  <2> QED BY <1>3, <2>1, <2>2 DEF DropAlgoTaskByID, HotFindsFile, TaskIsBacked
<1> QED BY <1>1, <1>2, <1>3 DEF DropAlgoTask

\* The foreign keys of exec keep what a task refers to.
LEMMA StoreStep ==
  ASSUME IInv,
         \/ \E a \in Algo : AlgoCreate(a) \/ AlgoDrop(a)
         \/ \E d \in Dropper, g \in Graph : DropGraphSpace(d, g) \/ DropGraphRow(d, g)
         \/ \E r \in Reader : ListFinished(r) \/ FetchAlgo(r)
  PROVE  IInv'
<1> USE AlgoExecAssumption DEF IInv, HasRow, Row, Ended, graphVars
<1>1. CASE \E a \in Algo : AlgoCreate(a) \/ AlgoDrop(a)
  BY <1>1 DEF AlgoCreate, AlgoDrop, TypeOK, HotFindsFile, TaskIsBacked
<1>2. ASSUME NEW d \in Dropper, NEW g \in Graph, DropGraphSpace(d, g) PROVE IInv'
  <2>1. TypeOK'
    BY <1>2 DEF DropGraphSpace, Then, TypeOK
  <2> QED BY <1>2, <2>1 DEF DropGraphSpace, HotFindsFile, TaskIsBacked
<1>3. ASSUME NEW d \in Dropper, NEW g \in Graph, DropGraphRow(d, g) PROVE IInv'
  <2>1. TypeOK'
    BY <1>3 DEF DropGraphRow, Then, TypeOK
  <2> QED BY <1>3, <2>1 DEF DropGraphRow, HotFindsFile, TaskIsBacked
<1>4. ASSUME NEW r \in Reader, ListFinished(r) PROVE IInv'
  <2>1. TypeOK'
    BY <1>4 DEF ListFinished, TypeOK
  <2> QED BY <1>4, <2>1 DEF ListFinished, TypeOK, HotFindsFile, TaskIsBacked
<1>5. ASSUME NEW r \in Reader, FetchAlgo(r) PROVE IInv'
  <2>1. /\ TypeOK'
        /\ \A q \in Reader : reader'[q] \in {reader[q], Idle}
        /\ \A t \in Task : call'[t] = "submitted" => call[t] = "submitted"
    BY <1>5 DEF FetchAlgo, Crash, TypeOK
  <2> QED BY <1>5, <2>1 DEF FetchAlgo, HotFindsFile, TaskIsBacked
<1> QED BY <1>1, <1>2, <1>3, <1>4, <1>5

\* One step keeps the invariant of AlgoExec.
LEMMA IInvNext == IInv /\ [Next]_vars => IInv'
<1> SUFFICES ASSUME IInv, [Next]_vars PROVE IInv'
  OBVIOUS
<1>1. CASE UNCHANGED vars
  BY <1>1 DEF vars, graphVars, IInv, TypeOK, HotFindsFile, TaskIsBacked, HasRow
<1>2. CASE Next
  BY <1>2, ExecStep, JobStep, DropTaskStep, StoreStep DEF Next
<1> QED BY <1>1, <1>2

-----------------------------------------------------------------------------
\* For every number of tasks, algorithms, graphs and readers.
THEOREM AlgoExecInvariant == Spec => []IInv
<1>1. Init => IInv
  BY IInvInit
<1>2. IInv /\ [Next]_vars => IInv'
  BY IInvNext
<1> QED BY <1>1, <1>2, PTL DEF Spec

\* What GetHot and GetHHI list can be fetched later, whatever is dropped.
THEOREM ListedResultsExist == Spec => []HotFindsFile
<1>1. IInv => HotFindsFile
  BY DEF IInv
<1> QED BY AlgoExecInvariant, <1>1, PTL

\* A row of exec stands for a submitted job, with its algorithm and its graph.
THEOREM TasksAreBacked == Spec => []TaskIsBacked
<1>1. IInv => TaskIsBacked
  BY DEF IInv
<1> QED BY AlgoExecInvariant, <1>1, PTL
-----------------------------------------------------------------------------
(* Induction, stated for sets: what the library states for operators.      *)

\* Induction over all smaller numbers.
LEMMA StrongSetInduction ==
  ASSUME NEW S,
         \A n \in Nat : (\A k \in 0 .. n - 1 : k \in S) => n \in S
  PROVE  Nat \subseteq S
<1> DEFINE T == Nat \ S
           R == OpToRel(<, Nat)
<1>1. SUFFICES ASSUME T # {} PROVE FALSE
  OBVIOUS
<1>2. IsWellFoundedOn(R, Nat)
  BY NatLessThanWellFounded
<1>3. \A x, y \in T : y < x => <<y, x>> \in R
  BY DEF OpToRel
<1>4. T \subseteq Nat
  OBVIOUS
<1> HIDE DEF R, T
<1>5. PICK x \in T : \A y \in T : ~ (<<y, x>> \in R)
  BY <1>1, <1>2, <1>4, WFMin
<1>6. \A y \in T : ~ (y < x)
  BY <1>3, <1>5
<1> QED BY <1>5, <1>6 DEF T

\* Induction from one number to the next.
LEMMA SetInduction ==
  ASSUME NEW S, 0 \in S,
         \A n \in Nat : n \in S => n + 1 \in S
  PROVE  Nat \subseteq S
<1>1. ASSUME NEW n \in Nat, \A k \in 0 .. n - 1 : k \in S
      PROVE  n \in S
  <2>1. CASE n > 0
    <3>1. n - 1 \in Nat /\ n - 1 \in 0 .. n - 1 /\ n = (n - 1) + 1
      BY <2>1
    <3> QED BY <1>1, <3>1
  <2> QED BY <2>1
<1> QED BY <1>1, StrongSetInduction

\* What Sample computes with.
HalvesOn(f, m) ==
  f = [n \in 0 .. m |-> IF n <= 1 THEN << >>
                        ELSE <<(n + 1) \div 2>> \o f[(n + 1) \div 2]]

\* The recursive function of Sample exists, on every interval.
LEMMA HalvesExist == \A m \in Nat : \E f : HalvesOn(f, m)
<1> DEFINE H(n, x) == <<(n + 1) \div 2>> \o x
           S == {m \in Nat : \E f : HalvesOn(f, m)}
<1>1. 0 \in S
  <2>1. HalvesOn([n \in 0 .. 0 |-> << >>], 0)
    BY DEF HalvesOn
  <2> QED BY <2>1
<1>2. ASSUME NEW k \in Nat, k \in S PROVE k + 1 \in S
  <2> PICK m \in Nat : m = k + 1
    OBVIOUS
  <2>1. PICK g : HalvesOn(g, k)
    BY <1>2
  <2> HIDE DEF H
  <2>2. \A n \in 0 .. k :
          g[n] = IF n <= 1 THEN << >> ELSE H(n, g[(n + 1) \div 2])
    BY <2>1 DEF HalvesOn, H
  <2> DEFINE f == [n \in 0 .. m |->
                     IF n <= k THEN g[n]
                     ELSE IF m <= 1 THEN << >> ELSE H(m, g[(m + 1) \div 2])]
  <2>3. ASSUME NEW n \in 0 .. m
        PROVE  f[n] = IF n <= 1 THEN << >> ELSE H(n, f[(n + 1) \div 2])
    <3>1. n > 1 => (n + 1) \div 2 \in 0 .. k /\ f[(n + 1) \div 2] = g[(n + 1) \div 2]
      OBVIOUS
    <3>2. n \in 0 .. k \/ n = m
      OBVIOUS
    <3> QED BY <3>1, <3>2, <2>2
  <2>4. f = [n \in 0 .. m |-> IF n <= 1 THEN << >> ELSE H(n, f[(n + 1) \div 2])]
    BY <2>3
  <2>5. HalvesOn(f, m)
    BY <2>4 DEF HalvesOn, H
  <2> QED BY <2>5
<1> HIDE DEF S
<1>3. Nat \subseteq S
  BY <1>1, <1>2, SetInduction
<1> QED BY <1>3 DEF S

\* So Sample(max) is a value of that function.
LEMMA SampleDef ==
  ASSUME NEW max \in Nat
  PROVE  \E f : HalvesOn(f, max + 1) /\ Sample(max) = f[max + 1]
<1> DEFINE f == CHOOSE f : HalvesOn(f, max + 1)
<1>1. HalvesOn(f, max + 1)
  BY HalvesExist, max + 1 \in Nat
<1>2. Sample(max) = f[max + 1]
  BY DEF Sample, HalvesOn
<1> QED BY <1>1, <1>2

\* What Sums computes with, up to m.
SumsOn(f, s, m) == f = [i \in 0 .. m |-> IF i = 0 THEN 0 ELSE s[i] + f[i - 1]]

\* And so does the recursive function of Sums.
LEMMA SumsExist == ASSUME NEW s PROVE \A m \in Nat : \E f : SumsOn(f, s, m)
<1> DEFINE S == {m \in Nat : \E f : SumsOn(f, s, m)}
<1>1. 0 \in S
  <2>1. SumsOn([i \in 0 .. 0 |-> 0], s, 0)
    BY DEF SumsOn
  <2> QED BY <2>1
<1>2. ASSUME NEW k \in Nat, k \in S PROVE k + 1 \in S
  <2>1. PICK g : SumsOn(g, s, k)
    BY <1>2
  <2>2. \A i \in 0 .. k : g[i] = IF i = 0 THEN 0 ELSE s[i] + g[i - 1]
    BY <2>1 DEF SumsOn
  <2> DEFINE f == [i \in 0 .. k + 1 |-> IF i <= k THEN g[i] ELSE s[k + 1] + g[k]]
  <2>3. ASSUME NEW i \in 0 .. k + 1
        PROVE  f[i] = IF i = 0 THEN 0 ELSE s[i] + f[i - 1]
    <3>1. i > 0 => i - 1 \in 0 .. k /\ f[i - 1] = g[i - 1]
      OBVIOUS
    <3>2. i \in 0 .. k \/ i = k + 1
      OBVIOUS
    <3> QED BY <3>1, <3>2, <2>2
  <2>4. SumsOn(f, s, k + 1)
    BY <2>3 DEF SumsOn
  <2> QED BY <2>4
<1> HIDE DEF S
<1>3. Nat \subseteq S
  BY <1>1, <1>2, SetInduction
<1> QED BY <1>3 DEF S

\* Sums(s) computes as its definition says.
LEMMA SumsType ==
  ASSUME NEW s \in Seq(Nat)
  PROVE  /\ Sums(s) \in [0 .. Len(s) -> Nat]
         /\ Sums(s)[0] = 0
         /\ \A i \in 1 .. Len(s) : Sums(s)[i] = s[i] + Sums(s)[i - 1]
<1> PICK n \in Nat : n = Len(s)
  OBVIOUS
<1> DEFINE f == CHOOSE f : SumsOn(f, s, n)
<1>1. SumsOn(f, s, n)
  BY SumsExist
<1>2. Sums(s) = f
  BY DEF Sums, SumsOn
<1> HIDE DEF f
<1>3. \A i \in 0 .. n : f[i] = IF i = 0 THEN 0 ELSE s[i] + f[i - 1]
  BY <1>1 DEF SumsOn
<1>4. \A i \in 1 .. n : s[i] \in Nat
  OBVIOUS
<1> DEFINE S == {i \in Nat : i <= n => f[i] \in Nat}
<1>5. 0 \in S
  BY <1>3
<1>6. ASSUME NEW i \in Nat, i \in S PROVE i + 1 \in S
  <2> SUFFICES ASSUME i + 1 <= n PROVE f[i + 1] \in Nat
    OBVIOUS
  <2>1. i + 1 \in 0 .. n /\ i + 1 # 0 /\ (i + 1) - 1 = i
    OBVIOUS
  <2>2. f[i + 1] = s[i + 1] + f[i]
    BY <2>1, <1>3
  <2>3. f[i] \in Nat
    BY <1>6
  <2>4. s[i + 1] \in Nat
    BY <1>4
  <2> QED BY <2>2, <2>3, <2>4
<1>7. Nat \subseteq S
  <2> HIDE DEF S
  <2> QED BY <1>5, <1>6, SetInduction
<1>8. f = [i \in 0 .. n |-> f[i]]
  BY <1>1 DEF SumsOn
<1>9. f \in [0 .. n -> Nat]
  BY <1>7, <1>8
<1> QED BY <1>2, <1>3, <1>9

\* The sum of nothing.
LEMMA SumEmpty == Sum(<< >>) = 0
<1>1. << >> \in Seq(Nat) /\ Len(<< >>) = 0
  OBVIOUS
<1>2. Sums(<< >>)[0] = 0
  BY <1>1, SumsType
<1> QED BY <1>1, <1>2 DEF Sum

\* A sum of naturals is a natural.
LEMMA SumType == ASSUME NEW s \in Seq(Nat) PROVE Sum(s) \in Nat
<1>1. Sums(s) \in [0 .. Len(s) -> Nat]
  BY SumsType
<1> QED BY <1>1 DEF Sum

\* The sum of a sequence with a head.
LEMMA SumCons ==
  ASSUME NEW s \in Seq(Nat), NEW a \in Nat
  PROVE  Sum(<<a>> \o s) = a + Sum(s)
<1> PICK t : t = <<a>> \o s
  OBVIOUS
<1>1. /\ t \in Seq(Nat) /\ Len(t) = Len(s) + 1 /\ t[1] = a
      /\ \A i \in 1 .. Len(s) : t[i + 1] = s[i]
  OBVIOUS
<1> PICK n \in Nat : n = Len(s)
  OBVIOUS
<1> PICK f, g : f = Sums(s) /\ g = Sums(t)
  OBVIOUS
<1>2. /\ f \in [0 .. n -> Nat] /\ f[0] = 0
      /\ \A i \in 1 .. n : f[i] = s[i] + f[i - 1]
  BY SumsType
<1>3. /\ g \in [0 .. n + 1 -> Nat] /\ g[0] = 0
      /\ \A i \in 1 .. n + 1 : g[i] = t[i] + g[i - 1]
  BY <1>1, SumsType
<1> DEFINE S == {i \in Nat : i <= n => g[i + 1] = a + f[i]}
<1>4. 0 \in S
  <2>1. 1 \in 1 .. n + 1
    OBVIOUS
  <2>2. g[1] = t[1] + g[0]
    BY <2>1, <1>3
  <2> QED BY <2>2, <1>1, <1>2, <1>3
<1>5. ASSUME NEW i \in Nat, i \in S PROVE i + 1 \in S
  <2> PICK j \in Nat : j = i + 1
    OBVIOUS
  <2> SUFFICES ASSUME j <= n PROVE g[j + 1] = a + f[j]
    OBVIOUS
  <2>1. j \in 1 .. n /\ j + 1 \in 1 .. n + 1 /\ j - 1 = i /\ (j + 1) - 1 = j /\ i \in 0 .. n
    OBVIOUS
  <2>2. g[j + 1] = t[j + 1] + g[j]
    BY <2>1, <1>3
  <2>3. f[j] = s[j] + f[i]
    BY <2>1, <1>2
  <2>4. t[j + 1] = s[j]
    BY <2>1, <1>1
  <2>5. g[j] = a + f[i]
    BY <1>5
  <2>6. f[i] \in Nat
    BY <2>1, <1>2
  <2>7. s[j] \in Nat
    BY <2>1
  <2> QED BY <2>2, <2>3, <2>4, <2>5, <2>6, <2>7
<1>6. Nat \subseteq S
  <2> HIDE DEF S
  <2> QED BY <1>4, <1>5, SetInduction
<1>7. g[n + 1] = a + f[n]
  BY <1>6
<1> QED BY <1>7, <1>1 DEF Sum

\* What Sample gives, for n = max + 1.
Sampled(s, n) ==
  /\ s \in Seq(Nat)
  /\ n > 0 => Len(s) < n
  /\ Sum(s) + 1 >= n
  /\ n > 0 => Sum(s) <= 2 * (n - 1)
  /\ n > 1 => s # << >> /\ s[Len(s)] = 1

\* A step of half, rounded up, before steps for that half.
LEMMA SampledStep ==
  ASSUME NEW n \in Nat, n > 1, NEW m \in Nat, m = (n + 1) \div 2,
         NEW t, Sampled(t, m)
  PROVE  Sampled(<<m>> \o t, n)
<1>1. 0 < m /\ m < n /\ 2 * m >= n /\ (m > 1 \/ m = 1)
  OBVIOUS
<1> PICK s : s = <<m>> \o t
  OBVIOUS
<1>2. t \in Seq(Nat)
  BY DEF Sampled
<1>3. s \in Seq(Nat) /\ Len(s) = Len(t) + 1 /\ s # << >>
  BY <1>2
<1>4. Sum(s) = m + Sum(t)
  BY <1>2, SumCons
<1>5. Sum(t) + 1 >= m /\ Sum(t) <= 2 * (m - 1) /\ Len(t) < m /\ (m > 1 => t # << >> /\ t[Len(t)] = 1)
  BY <1>1 DEF Sampled
<1>6. Sum(t) \in Nat /\ Len(t) \in Nat
  BY <1>2, SumType
<1>7. s[Len(s)] = 1
  <2>1. CASE m = 1
    <3>1. Len(t) = 0
      BY <1>5, <1>6, <2>1
    <3> QED BY <1>2, <1>3, <2>1, <3>1
  <2>2. CASE m > 1
    <3>1. Len(t) \in 1 .. Len(t) /\ t[Len(t)] = 1
      BY <1>2, <1>5, <2>2
    <3>2. s[Len(t) + 1] = t[Len(t)]
      BY <1>2, <3>1
    <3> QED BY <1>3, <3>1, <3>2
  <2> QED BY <1>1, <2>1, <2>2
<1>8. Sum(s) + 1 >= n /\ Len(s) < n
  BY <1>1, <1>3, <1>4, <1>5, <1>6
<1>9. m + 2 * (m - 1) <= 2 * (n - 1)
  OBVIOUS
<1>10. Sum(s) <= 2 * (n - 1)
  BY <1>4, <1>5, <1>6, <1>9
<1> QED BY <1>3, <1>7, <1>8, <1>10 DEF Sampled

\* One value of the recursive function.
LEMMA HalvesAt ==
  ASSUME NEW M \in Nat, NEW f, HalvesOn(f, M), NEW n \in 0 .. M
  PROVE  f[n] = IF n <= 1 THEN << >> ELSE <<(n + 1) \div 2>> \o f[(n + 1) \div 2]
<1> DEFINE H(k, x) == <<(k + 1) \div 2>> \o x
<1> HIDE DEF H
<1>1. \A k \in 0 .. M : f[k] = IF k <= 1 THEN << >> ELSE H(k, f[(k + 1) \div 2])
  BY DEF HalvesOn, H
<1> QED BY <1>1 DEF H

\* By induction, each of its values is as Sampled says.
LEMMA HalvesSampled ==
  ASSUME NEW M \in Nat, NEW f, HalvesOn(f, M)
  PROVE  \A n \in 0 .. M : Sampled(f[n], n)
<1> DEFINE S == {n \in Nat : n <= M => Sampled(f[n], n)}
<1>1. ASSUME NEW n \in Nat, \A k \in 0 .. n - 1 : k \in S
      PROVE  n \in S
  <2> SUFFICES ASSUME n <= M PROVE Sampled(f[n], n)
    OBVIOUS
  <2>1. f[n] = IF n <= 1 THEN << >> ELSE <<(n + 1) \div 2>> \o f[(n + 1) \div 2]
    BY n \in 0 .. M, HalvesAt
  <2>2. CASE n <= 1
    <3>1. << >> \in Seq(Nat) /\ Len(<< >>) = 0
      OBVIOUS
    <3> QED BY <2>1, <2>2, <3>1, SumEmpty DEF Sampled
  <2>3. CASE n > 1
    <3> PICK m \in Nat : m = (n + 1) \div 2
      OBVIOUS
    <3>1. m \in 0 .. n - 1 /\ m <= M
      BY <2>3
    <3>2. Sampled(f[m], m)
      BY <3>1, <1>1
    <3>3. Sampled(<<m>> \o f[m], n)
      BY <2>3, <3>2, SampledStep
    <3> QED BY <2>1, <2>3, <3>3
  <2> QED BY <2>2, <2>3
<1>2. Nat \subseteq S
  <2> HIDE DEF S
  <2> QED BY <1>1, StrongSetInduction
<1> QED BY <1>2

\* So is what Sample gives.
LEMMA SampleFacts ==
  ASSUME NEW max \in Nat
  PROVE  Sampled(Sample(max), max + 1)
<1>1. PICK f : HalvesOn(f, max + 1) /\ Sample(max) = f[max + 1]
  BY SampleDef
<1>2. max + 1 \in Nat /\ max + 1 \in 0 .. max + 1
  OBVIOUS
<1> QED BY <1>1, <1>2, HalvesSampled

\* With max = 0 there is no step.
LEMMA SampleOfNone == Sample(0) = << >>
<1>1. Sampled(Sample(0), 0 + 1)
  BY SampleFacts
<1> QED BY <1>1 DEF Sampled
-----------------------------------------------------------------------------
(* GraphReads.                                                             *)

\* A query that has made no step is within its budget.
LEMMA FreshBudget ==
  ASSUME NEW q, q.max \in Nat, q.step = 0, q.edges = {},
         q.pc \in {"fetch", "list", "ok"} => Len(Sample(q.max)) = 0
  PROVE  WithinBudget(q)
<1>1. Sample(q.max) \in Seq(Nat)
  BY SampleFacts DEF Sampled
<1>2. Sums(Sample(q.max))[0] = 0 /\ Len(Sample(q.max)) \in Nat
  BY <1>1, SumsType
<1>3. IsFiniteSet({}) /\ Cardinality({}) = 0
  BY FS_EmptySet
<1> QED BY <1>2, <1>3 DEF WithinBudget

\* The invariant holds of a query that is not asked.
LEMMA NoReqOK == NoReq \in Query /\ QueryOK(NoReq)
<1> PICK q : q = NoReq
  OBVIOUS
<1>1. q \in Query
  <2>1. MaxMax \in Nat /\ MaxTop \in Nat
    BY GraphReadsAssumption
  <2>2. 0 \in 0 .. MaxMax /\ 0 \in 0 .. MaxTop
    BY <2>1
  <2>3. NoReq \in Query
    BY <2>2 DEF NoReq, Query, Replied, Kind, Direction
  <2> QED BY <2>3
<1>2. q.pc = "none" /\ q.kind = "nodes" /\ q.max = 0 /\ q.step = 0
      /\ q.edges = {} /\ q.front = {}
  BY DEF NoReq
<1>3. Connected(q)
  BY <1>2 DEF Connected, Ends
<1>4. WithinBudget(q)
  BY <1>2, FreshBudget
<1> QED BY <1>1, <1>2, <1>3, <1>4 DEF QueryOK

\* The invariant holds at the start.
LEMMA ReadIInvInit == ReadInit => ReadIInv
<1> SUFFICES ASSUME ReadInit PROVE ReadIInv
  OBVIOUS
<1> USE DEF ReadInit
<1>1. ReadTypeOK
  BY NoReqOK DEF ReadTypeOK
<1>2. IsFiniteSet(edge)
  BY FS_EmptySet
<1>3. \A r \in Request : req[r] = NoReq /\ NoReq.known = {}
  BY DEF NoReq
<1> QED BY <1>1, <1>2, <1>3, NoReqOK DEF ReadIInv

\* A step of one query that ends in a good one, while the space stays as it is.
LEMMA SetStep ==
  ASSUME ReadIInv, NEW r \in Request, NEW q \in Query, Set(r, q),
         QueryOK(q), hasSpace => q.known \subseteq vertex
  PROVE  ReadIInv'
<1> USE DEF ReadIInv, Set
<1>1. ReadTypeOK'
  BY DEF ReadTypeOK
<1>2. \A x \in Request : req'[x] = IF x = r THEN q ELSE req[x]
  BY DEF ReadTypeOK
<1>3. \A x \in Request : QueryOK(req'[x])
  BY <1>2
<1>4. \A x \in Request : hasSpace' => req'[x].known \subseteq vertex'
  BY <1>2
<1> QED BY <1>1, <1>3, <1>4

\* The queries themselves: asking, failing, and the two look-ups.
LEMMA AskStep ==
  ASSUME ReadIInv, NEW r \in Request,
         GetGraphDetail(r) \/ GetNeighbors(r) \/ GetNodes(r)
  PROVE  ReadIInv'
<1> USE DEF ReadIInv
<1>0. NoReq \in Query /\ QueryOK(NoReq) /\ vertex \subseteq Vertex
  BY NoReqOK DEF ReadTypeOK
<1>1. CASE GetGraphDetail(r)
  <2>1. PICK top \in 1 .. MaxTop, max \in 0 .. MaxMax :
          Set(r, [NoReq EXCEPT !.pc = "top", !.kind = "get", !.top = top, !.max = max,
                               !.dir = "BIDIRECT"])
    BY <1>1 DEF GetGraphDetail
  <2> PICK q : q = [NoReq EXCEPT !.pc = "top", !.kind = "get", !.top = top, !.max = max,
                                 !.dir = "BIDIRECT"]
    OBVIOUS
  <2>2. q \in Query
    <3>1. top \in 0 .. MaxTop /\ "get" \in Kind /\ "BIDIRECT" \in Direction
      BY DEF Kind, Direction
    <3> QED BY <1>0, <3>1 DEF Query
  <2>3. /\ q.pc = "top" /\ q.kind = "get" /\ q.max = max /\ q.step = 0
        /\ q.edges = {} /\ q.front = {} /\ q.known = {}
    BY DEF NoReq
  <2>4. Connected(q)
    BY <2>3 DEF Connected, Ends
  <2>5. WithinBudget(q)
    <3>1. q.max \in Nat
      BY <2>3
    <3> QED BY <2>3, <3>1, FreshBudget
  <2>6. QueryOK(q)
    BY <2>3, <2>4, <2>5 DEF QueryOK
  <2> QED BY <2>1, <2>2, <2>3, <2>6, SetStep
<1>2. CASE GetNeighbors(r)
  <2>1. PICK v \in Vertex, d \in Direction, max \in 0 .. MaxMax :
          Set(r, [NoReq EXCEPT !.pc = "go", !.kind = "neighbors", !.dir = d, !.max = max,
                               !.from = {v}, !.front = {v}, !.known = vertex])
    BY <1>2 DEF GetNeighbors
  <2> PICK q : q = [NoReq EXCEPT !.pc = "go", !.kind = "neighbors", !.dir = d, !.max = max,
                                 !.from = {v}, !.front = {v}, !.known = vertex]
    OBVIOUS
  <2>2. q \in Query
    BY <1>0 DEF Query, Kind
  <2>3. /\ q.pc = "go" /\ q.kind = "neighbors" /\ q.max = max /\ q.step = 0
        /\ q.edges = {} /\ q.from = {v} /\ q.front = {v} /\ q.known = vertex
    BY DEF NoReq
  <2>4. Connected(q)
    BY <2>3 DEF Connected, Ends
  <2>5. WithinBudget(q)
    <3>1. q.max \in Nat
      BY <2>3
    <3> QED BY <2>3, <3>1, FreshBudget
  <2>6. QueryOK(q)
    BY <2>3, <2>4, <2>5 DEF QueryOK
  <2> QED BY <2>1, <2>2, <2>3, <2>6, SetStep
<1>3. CASE GetNodes(r)
  <2>1. Set(r, [NoReq EXCEPT !.pc = "list", !.known = vertex])
    BY <1>3 DEF GetNodes
  <2> PICK q : q = [NoReq EXCEPT !.pc = "list", !.known = vertex]
    OBVIOUS
  <2>2. q \in Query
    BY <1>0 DEF Query
  <2>3. /\ q.pc = "list" /\ q.kind = "nodes" /\ q.max = 0 /\ q.step = 0
        /\ q.edges = {} /\ q.from = {} /\ q.front = {} /\ q.known = vertex
    BY DEF NoReq
  <2>4. Connected(q)
    BY <2>3 DEF Connected, Ends
  <2>5. WithinBudget(q)
    <3>1. Len(Sample(q.max)) = 0
      BY <2>3, SampleOfNone
    <3>2. q.max \in Nat /\ q.step = 0 /\ q.edges = {}
      BY <2>3
    <3> QED BY <3>1, <3>2, FreshBudget
  <2>6. QueryOK(q)
    BY <2>3, <2>4, <2>5 DEF QueryOK
  <2> QED BY <2>1, <2>2, <2>3, <2>6, SetStep
<1> QED BY <1>1, <1>2, <1>3

\* A statement that fails.
LEMMA FailStep ==
  ASSUME ReadIInv, NEW r \in Request, Fail(r) PROVE ReadIInv'
<1> PICK p : p = req[r]
  OBVIOUS
<1>1. p \in Query /\ QueryOK(p) /\ (hasSpace => p.known \subseteq vertex)
  BY DEF ReadIInv, ReadTypeOK
<1> PICK q : q = [p EXCEPT !.pc = "failed"]
  OBVIOUS
<1>2. q \in Query
  BY <1>1 DEF Query, Replied
<1>3. /\ q.pc = "failed" /\ q.kind = p.kind /\ q.max = p.max /\ q.step = p.step
      /\ q.edges = p.edges /\ q.from = p.from /\ q.front = p.front
      /\ q.known = p.known /\ q.dir = p.dir
  BY <1>1 DEF Query
<1>4. QueryOK(q)
  BY <1>1, <1>3 DEF QueryOK, Connected, WithinBudget
<1>5. Set(r, q)
  BY DEF Fail
<1> QED BY <1>1, <1>2, <1>3, <1>4, <1>5, SetStep

\* The vertices of highest degree are where the walk is and what it has reached.
LEMMA TopStep ==
  ASSUME ReadIInv, NEW r \in Request, GoFromTopNodes(r) PROVE ReadIInv'
<1> PICK p : p = req[r]
  OBVIOUS
<1>1. p \in Query /\ QueryOK(p) /\ vertex \subseteq Vertex /\ p.pc = "top"
  BY DEF ReadIInv, ReadTypeOK, GoFromTopNodes
<1>2. PICK from : from \subseteq vertex
                  /\ Set(r, [p EXCEPT !.pc = "go", !.from = from, !.front = from,
                                      !.known = vertex])
  BY DEF GoFromTopNodes, kSubset
<1> PICK q : q = [p EXCEPT !.pc = "go", !.from = from, !.front = from, !.known = vertex]
  OBVIOUS
<1>3. q \in Query
  BY <1>1, <1>2 DEF Query
<1>4. /\ q.pc = "go" /\ q.kind = p.kind /\ q.max = p.max /\ q.step = p.step
      /\ q.edges = {} /\ q.from = from /\ q.front = from
      /\ q.known = vertex /\ p.edges = {} /\ q.kind # "nodes"
  BY <1>1 DEF Query, QueryOK
<1>5. Connected(q)
  BY <1>4 DEF Connected, Ends
<1>6. WithinBudget(q)
  BY <1>1, <1>4 DEF QueryOK, WithinBudget
<1>7. QueryOK(q)
  BY <1>4, <1>5, <1>6 DEF QueryOK
<1> QED BY <1>2, <1>3, <1>4, <1>7, SetStep

\* The walk has made all of its steps.
LEMMA GoEndsStep ==
  ASSUME ReadIInv, NEW r \in Request, GoEnds(r) PROVE ReadIInv'
<1> PICK p : p = req[r]
  OBVIOUS
<1>1. p \in Query /\ QueryOK(p) /\ (hasSpace => p.known \subseteq vertex)
      /\ p.pc = "go" /\ p.step = Len(Sample(p.max))
  BY DEF ReadIInv, ReadTypeOK, GoEnds
<1>2. PICK c \in {"failed", "fetch"} : Set(r, [p EXCEPT !.pc = c])
  BY DEF GoEnds
<1> PICK q : q = [p EXCEPT !.pc = c]
  OBVIOUS
<1>3. q \in Query
  BY <1>1 DEF Query, Replied
<1>4. /\ q.pc = c /\ q.kind = p.kind /\ q.max = p.max /\ q.step = p.step
      /\ q.edges = p.edges /\ q.from = p.from /\ q.front = p.front
      /\ q.known = p.known /\ q.dir = p.dir
  BY <1>1 DEF Query
<1>5. QueryOK(q)
  BY <1>1, <1>4 DEF QueryOK, Connected, WithinBudget
<1> QED BY <1>1, <1>2, <1>3, <1>4, <1>5, SetStep

\* A sample has at most the size that is asked for.
LEMMA MinLe == ASSUME NEW a \in Nat, NEW b \in Nat PROVE Min({a, b}) <= a
<1>1. \E x \in {a, b} : \A y \in {a, b} : x <= y
  OBVIOUS
<1>2. /\ Min({a, b}) \in {a, b}
      /\ \A y \in {a, b} : Min({a, b}) <= y
  BY <1>1 DEF Min
<1> QED BY <1>2

\* A sample of a finite set of edges.
LEMMA SampledEdges ==
  ASSUME NEW n \in Nat, NEW over, IsFiniteSet(over),
         NEW es \in kSubset(Min({n, Cardinality(over)}), over)
  PROVE  es \subseteq over /\ IsFiniteSet(es) /\ Cardinality(es) <= n
<1>1. es \subseteq over /\ Cardinality(es) = Min({n, Cardinality(over)})
  BY DEF kSubset
<1>2. IsFiniteSet(es)
  BY <1>1, FS_Subset
<1>3. Cardinality(over) \in Nat
  BY FS_CardinalityType
<1> QED BY <1>1, <1>2, <1>3, MinLe

\* A set that the longer walk does not lead out of, the shorter does not either;
\* with the front it has what the step has reached.
LEMMA ConnectedStep ==
  ASSUME NEW p, p.edges \subseteq Vertex \X Vertex, Connected(p),
         NEW es, es \subseteq Vertex \X Vertex,
         \A e \in es : \/ e[1] \in p.front /\ p.dir # "REVERSELY"
                       \/ e[2] \in p.front /\ p.dir # "",
         NEW q, q.edges = p.edges \cup es, q.from = p.from, q.dir = p.dir,
         q.front = Far(es, p.front, p.dir)
  PROVE  Connected(q)
<1> SUFFICES ASSUME NEW s \in Closed(q.edges, q.dir), q.from \subseteq s
             PROVE  q.front \cup Ends(q.edges) \subseteq s
  BY DEF Connected
<1>1. Far(q.edges, s, p.dir) \subseteq s
  BY DEF Closed
<1>2. \A e \in q.edges :
        /\ e[1] \in s /\ p.dir # "REVERSELY" => e[2] \in s
        /\ e[2] \in s /\ p.dir # "" => e[1] \in s
  BY <1>1 DEF Far
<1>3. Far(p.edges, s, p.dir) \subseteq s
  BY <1>2 DEF Far
<1>4. s \in Closed(p.edges, p.dir)
  BY <1>3 DEF Closed
<1>5. p.front \subseteq s /\ Ends(p.edges) \subseteq s
  BY <1>4 DEF Connected
<1>6. \A e \in es : e[1] \in s /\ e[2] \in s
  BY <1>2, <1>5
<1>7. Ends(q.edges) \subseteq s
  BY <1>5, <1>6 DEF Ends
<1>8. q.front \subseteq s
  BY <1>6 DEF Far
<1> QED BY <1>7, <1>8

\* A step takes no more edges than its share of the budget.
LEMMA BudgetStep ==
  ASSUME NEW p, p.max \in Nat, p.step \in Nat, WithinBudget(p),
         p.step < Len(Sample(p.max)),
         NEW es, IsFiniteSet(es), Cardinality(es) <= Sample(p.max)[p.step + 1],
         NEW q, q.edges = p.edges \cup es, q.max = p.max, q.step = p.step + 1,
         q.pc = "go"
  PROVE  WithinBudget(q)
<1> PICK s : s = Sample(p.max)
  OBVIOUS
<1> PICK k \in Nat : k = p.step + 1
  OBVIOUS
<1>1. s \in Seq(Nat)
  BY SampleFacts DEF Sampled
<1>2. Len(s) \in Nat /\ k \in 1 .. Len(s) /\ k - 1 = p.step
  BY <1>1
<1>3. Sums(s)[k] = s[k] + Sums(s)[k - 1] /\ Sums(s)[k - 1] \in Nat /\ s[k] \in Nat
  <2>1. Sums(s)[k] = s[k] + Sums(s)[k - 1]
    BY <1>1, <1>2, SumsType
  <2>2. Sums(s) \in [0 .. Len(s) -> Nat] /\ k - 1 \in 0 .. Len(s)
    BY <1>1, <1>2, SumsType
  <2> QED BY <1>1, <1>2, <2>1, <2>2
<1>4. IsFiniteSet(p.edges) /\ Cardinality(p.edges) <= Sums(s)[k - 1]
  BY <1>2 DEF WithinBudget
<1>5. /\ IsFiniteSet(q.edges)
      /\ Cardinality(q.edges) = Cardinality(p.edges) + Cardinality(es)
                                  - Cardinality(p.edges \cap es)
  BY <1>4, FS_Union
<1>6. Cardinality(p.edges \cap es) \in Nat
  BY <1>4, FS_Subset, FS_CardinalityType, p.edges \cap es \subseteq p.edges
<1>7. Cardinality(p.edges) \in Nat /\ Cardinality(es) \in Nat
  BY <1>4, FS_CardinalityType
<1>8. Cardinality(q.edges) <= Sums(s)[k]
  BY <1>3, <1>4, <1>5, <1>6, <1>7
<1> QED BY <1>2, <1>5, <1>8 DEF WithinBudget

\* One step of the walk keeps the invariant.
LEMMA MultiGoStep ==
  ASSUME ReadIInv, NEW r \in Request, MultiGo(r) PROVE ReadIInv'
<1> PICK p : p = req[r]
  OBVIOUS
<1> PICK s : s = Sample(p.max)
  OBVIOUS
<1> PICK over : over = UNION {Over(v, p.dir) : v \in p.front}
  OBVIOUS
<1>1. /\ p \in Query /\ QueryOK(p) /\ (hasSpace => p.known \subseteq vertex)
      /\ p.pc = "go" /\ p.step < Len(s) /\ edge \subseteq Edge
  BY DEF ReadIInv, ReadTypeOK, MultiGo
<1>2. PICK es \in kSubset(Min({s[p.step + 1], Cardinality(over)}), over) :
        Set(r, [p EXCEPT !.step = @ + 1, !.edges = @ \cup es,
                         !.front = Far(es, @, p.dir)])
  BY DEF MultiGo
<1> PICK q : q = [p EXCEPT !.step = @ + 1, !.edges = @ \cup es,
                           !.front = Far(es, @, p.dir)]
  OBVIOUS
<1>3. /\ p.max \in Nat /\ p.max <= MaxMax /\ p.step \in Nat /\ MaxMax \in Nat
      /\ p.edges \subseteq Edge /\ p.front \subseteq Vertex
  BY <1>1, GraphReadsAssumption DEF Query
<1>4. s \in Seq(Nat) /\ Len(s) < p.max + 1 /\ Len(s) \in Nat
  BY <1>3, SampleFacts DEF Sampled
<1>5. p.step + 1 \in 0 .. MaxMax /\ p.step + 1 \in 1 .. Len(s)
  BY <1>1, <1>3, <1>4
<1>6. over \subseteq edge /\ IsFiniteSet(over)
  <2>1. over \subseteq edge
    BY DEF Over
  <2> QED BY <2>1, FS_Subset DEF ReadIInv
<1>7. es \subseteq over /\ IsFiniteSet(es) /\ Cardinality(es) <= s[p.step + 1]
  <2>1. s[p.step + 1] \in Nat
    BY <1>4, <1>5
  <2> QED BY <1>6, <2>1, SampledEdges
<1>8. es \subseteq Edge /\ Edge \subseteq Vertex \X Vertex
  BY <1>1, <1>6, <1>7, GraphReadsAssumption
<1>9. Far(es, p.front, p.dir) \subseteq Vertex
  BY <1>8 DEF Far
<1>10. q \in Query
  BY <1>1, <1>3, <1>5, <1>8, <1>9 DEF Query
<1>11. /\ q.pc = "go" /\ q.kind = p.kind /\ q.max = p.max /\ q.step = p.step + 1
       /\ q.edges = p.edges \cup es /\ q.from = p.from
       /\ q.front = Far(es, p.front, p.dir) /\ q.known = p.known /\ q.dir = p.dir
  BY <1>1 DEF Query
<1>12. Connected(q)
  <2>1. \A e \in es : \/ e[1] \in p.front /\ p.dir # "REVERSELY"
                      \/ e[2] \in p.front /\ p.dir # ""
    BY <1>7 DEF Over
  <2>2. p.edges \subseteq Vertex \X Vertex /\ es \subseteq Vertex \X Vertex
    BY <1>3, <1>8
  <2>3. Connected(p)
    BY <1>1 DEF QueryOK
  <2>4. /\ q.edges = p.edges \cup es /\ q.from = p.from /\ q.dir = p.dir
        /\ q.front = Far(es, p.front, p.dir)
    BY <1>11
  <2> QED BY <2>1, <2>2, <2>3, <2>4, ConnectedStep
<1>13. WithinBudget(q)
  <2>1. p.max \in Nat /\ p.step \in Nat /\ WithinBudget(p)
    BY <1>1, <1>3 DEF QueryOK
  <2>2. /\ p.step < Len(Sample(p.max)) /\ IsFiniteSet(es)
        /\ Cardinality(es) <= Sample(p.max)[p.step + 1]
    BY <1>1, <1>7
  <2>3. /\ q.edges = p.edges \cup es /\ q.max = p.max /\ q.step = p.step + 1
        /\ q.pc = "go"
    BY <1>11
  <2> QED BY <2>1, <2>2, <2>3, BudgetStep
<1>14. QueryOK(q)
  BY <1>1, <1>11, <1>12, <1>13 DEF QueryOK
<1> QED BY <1>1, <1>2, <1>10, <1>11, <1>14, SetStep

\* They are the rows of these vertices, with one tag each.
LEMMA ParsedFacts ==
  ASSUME NEW vs, NEW nodes, nodes = parseVertex(vs)
  PROVE  /\ {n[1] : n \in nodes} = vs
         /\ \A m, n \in nodes : m[1] = n[1] => m = n
<1> DEFINE row(v) == <<v, IF v \in Tagged THEN "tag" ELSE "base">>
<1>1. nodes = {row(v) : v \in vs}
  BY DEF parseVertex
<1>2. \A v : row(v)[1] = v
  OBVIOUS
<1> HIDE DEF row
<1>3. \A n : n \in {m[1] : m \in nodes} <=> n \in vs
  BY <1>1, <1>2
<1>4. \A m \in nodes : m = row(m[1])
  BY <1>1, <1>2
<1> QED BY <1>3, <1>4

\* The rows of vertices are pairs of an id and a tag.
LEMMA ParsedType ==
  ASSUME NEW vs \in SUBSET Vertex PROVE parseVertex(vs) \subseteq Vertex \X Tag
BY DEF parseVertex, Tag

\* A query that is answered now, with the edges and the steps that it has.
LEMMA AnswerStep ==
  ASSUME ReadIInv, NEW r \in Request, NEW nodes \in SUBSET (Vertex \X Tag),
         req[r].pc \in {"fetch", "list"},
         Set(r, [req[r] EXCEPT !.pc = "ok", !.nodes = nodes]),
         \A q : /\ q.edges = req[r].edges /\ q.known = req[r].known
                /\ q.kind = req[r].kind /\ q.nodes = nodes
                => Consistent(q)
  PROVE  ReadIInv'
<1> PICK p : p = req[r]
  OBVIOUS
<1>1. /\ p \in Query /\ QueryOK(p) /\ (hasSpace => p.known \subseteq vertex)
      /\ p.pc \in {"fetch", "list"}
  BY DEF ReadIInv, ReadTypeOK
<1> PICK q : q = [p EXCEPT !.pc = "ok", !.nodes = nodes]
  OBVIOUS
<1>2. q \in Query
  BY <1>1 DEF Query, Replied
<1>3. /\ q.pc = "ok" /\ q.kind = p.kind /\ q.max = p.max /\ q.step = p.step
      /\ q.edges = p.edges /\ q.from = p.from /\ q.front = p.front
      /\ q.known = p.known /\ q.dir = p.dir /\ q.nodes = nodes
  BY <1>1 DEF Query
<1>4. Consistent(q)
  BY <1>3
<1>5. Connected(q)
  BY <1>1, <1>3 DEF QueryOK, Connected
<1>6. WithinBudget(q)
  BY <1>1, <1>3 DEF QueryOK, WithinBudget
<1>7. QueryOK(q)
  BY <1>1, <1>3, <1>4, <1>5, <1>6 DEF QueryOK
<1> QED BY <1>1, <1>2, <1>3, <1>7, SetStep

\* The look-up of the vertices at the ends of the edges.
LEMMA FetchStep ==
  ASSUME ReadIInv, NEW r \in Request, GetNodesByIds(r) PROVE ReadIInv'
<1> PICK nodes : nodes = parseVertex(Ends(req[r].edges) \cap vertex)
  OBVIOUS
<1>1. /\ req[r].pc = "fetch" /\ req[r].kind # "nodes" /\ vertex \subseteq Vertex
      /\ hasSpace => req[r].known \subseteq vertex
      /\ hasSpace \/ req[r].edges = {}
      /\ Set(r, [req[r] EXCEPT !.pc = "ok", !.nodes = nodes])
  BY DEF GetNodesByIds, ReadIInv, ReadTypeOK, QueryOK
<1>2. nodes \in SUBSET (Vertex \X Tag)
  BY <1>1, ParsedType
<1>3. Ends(req[r].edges) \cap req[r].known \subseteq vertex
  BY <1>1 DEF Ends
<1>4. /\ {n[1] : n \in nodes} = Ends(req[r].edges) \cap vertex
      /\ \A m, n \in nodes : m[1] = n[1] => m = n
  BY ParsedFacts
<1>5. ASSUME NEW q, q.edges = req[r].edges, q.known = req[r].known,
             q.kind = req[r].kind, q.nodes = nodes
      PROVE  Consistent(q)
  BY <1>1, <1>3, <1>4, <1>5 DEF Consistent, NodeIds
<1> QED BY <1>1, <1>2, <1>5, AnswerStep

\* The list of all vertices.
LEMMA ListStep ==
  ASSUME ReadIInv, NEW r \in Request, GetTopNodes(r) PROVE ReadIInv'
<1> PICK nodes : nodes = parseVertex(vertex)
  OBVIOUS
<1>1. /\ req[r].pc = "list" /\ req[r].kind = "nodes" /\ vertex \subseteq Vertex
      /\ req[r].known \subseteq vertex /\ req[r].edges = {}
      /\ Set(r, [req[r] EXCEPT !.pc = "ok", !.nodes = nodes])
  BY DEF GetTopNodes, ReadIInv, ReadTypeOK, QueryOK
<1>2. nodes \in SUBSET (Vertex \X Tag)
  BY <1>1, ParsedType
<1>3. /\ {n[1] : n \in nodes} = vertex
      /\ \A m, n \in nodes : m[1] = n[1] => m = n
  BY ParsedFacts
<1>4. ASSUME NEW q, q.edges = req[r].edges, q.known = req[r].known,
             q.kind = req[r].kind, q.nodes = nodes
      PROVE  Consistent(q)
  BY <1>1, <1>3, <1>4 DEF Consistent, NodeIds, Ends
<1> QED BY <1>1, <1>2, <1>4, AnswerStep

\* An import adds to what was known, and a drop ends the space for good.
LEMMA SpaceStep ==
  ASSUME ReadIInv,
         \/ \E v \in Vertex : InsertVertex(v)
         \/ \E e \in Edge : InsertEdge(e)
         \/ DropGraph
  PROVE  ReadIInv'
<1> USE DEF ReadIInv, ReadTypeOK
<1>1. ASSUME NEW v \in Vertex, InsertVertex(v) PROVE ReadIInv'
  BY <1>1 DEF InsertVertex
<1>2. ASSUME NEW e \in Edge, InsertEdge(e) PROVE ReadIInv'
  <2>1. IsFiniteSet(edge \cup {e})
    BY FS_AddElement
  <2> QED BY <1>2, <2>1 DEF InsertEdge
<1>3. CASE DropGraph
  BY <1>3, FS_EmptySet DEF DropGraph
<1> QED BY <1>1, <1>2, <1>3

\* One step keeps the invariant of GraphReads.
LEMMA ReadIInvNext == ReadIInv /\ [ReadNext]_readVars => ReadIInv'
<1> SUFFICES ASSUME ReadIInv, [ReadNext]_readVars PROVE ReadIInv'
  OBVIOUS
<1>1. CASE UNCHANGED readVars
  BY <1>1 DEF readVars, ReadIInv, ReadTypeOK
<1>2. CASE ReadNext
  BY <1>2, AskStep, FailStep, TopStep, MultiGoStep, GoEndsStep, FetchStep,
     ListStep, SpaceStep
     DEF ReadNext, Step
<1> QED BY <1>1, <1>2

-----------------------------------------------------------------------------
\* For every graph, every max and top, and every number of queries at a time.
THEOREM ReadsInvariant == ReadSpec => []ReadIInv
<1>1. ReadInit => ReadIInv
  BY ReadIInvInit
<1>2. ReadIInv /\ [ReadNext]_readVars => ReadIInv'
  BY ReadIInvNext
<1> QED BY <1>1, <1>2, PTL DEF ReadSpec

\* Each end of an edge in a reply is reached from where the walk began, along
\* edges of the reply: the steps of MultiGo go on only from where they have been.
THEOREM RepliesAreConnected == ReadSpec => []WalkIsConnected
<1>1. ReadIInv => WalkIsConnected
  BY DEF ReadIInv, QueryOK, Connected, WalkIsConnected
<1> QED BY ReadsInvariant, <1>1, PTL

\* Sample halves max + 1 down to 1: the sum of the steps is never below max and
\* never above twice max, whatever max is (the bound MaxMax plays no part).  The
\* proof is by induction over the argument of the recursion.
THEOREM SampleCovers ==
  ASSUME NEW max \in Nat \ {0}
  PROVE  /\ Sum(Sample(max)) \in max .. 2 * max
         /\ Sample(max)[Len(Sample(max))] = 1
<1>1. Sampled(Sample(max), max + 1)
  BY SampleFacts
<1>2. Sum(Sample(max)) \in Nat
  BY <1>1, SumType DEF Sampled
<1> QED BY <1>1, <1>2 DEF Sampled

\* Replies agree with the graph in which they were made, and stay in their budget.
THEOREM RepliesAreConsistent == ReadSpec => []RepliesAgree
<1>1. ReadIInv => NodesOfEdges
  BY DEF ReadIInv, QueryOK, NodesOfEdges, Ok
<1>2. ReadIInv => SampleCoversMax
  <2> SUFFICES ASSUME ReadIInv, NEW r \in Request
               PROVE  /\ req[r].max > 0 =>
                           /\ Sum(Sample(req[r].max)) \in req[r].max .. 2 * req[r].max
                           /\ Sample(req[r].max)[Len(Sample(req[r].max))] = 1
                      /\ Ok(r) => Cardinality(req[r].edges) <= Sum(Sample(req[r].max))
    BY DEF SampleCoversMax
  <2>1. req[r].max \in 0 .. MaxMax /\ WithinBudget(req[r])
    BY DEF ReadIInv, ReadTypeOK, Query, QueryOK
  <2>2. Ok(r) => Cardinality(req[r].edges) <= Sum(Sample(req[r].max))
    BY <2>1 DEF Ok, WithinBudget, Sum
  <2>3. PICK m \in Nat : m = req[r].max
    BY <2>1
  <2>4. m > 0 => Sum(Sample(m)) \in m .. 2 * m /\ Sample(m)[Len(Sample(m))] = 1
    BY SampleCovers
  <2> QED BY <2>2, <2>3, <2>4
<1>3. ReadIInv => RepliesAgree
  BY <1>1, <1>2 DEF RepliesAgree
<1> QED BY ReadsInvariant, <1>3, PTL
=============================================================================
