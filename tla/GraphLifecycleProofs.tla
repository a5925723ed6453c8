------------------------ MODULE GraphLifecycleProofs ------------------------
(* Proofs about GraphLifecycle for all graphs, updates, pages and bounds.  *)
EXTENDS GraphLifecycle, FiniteSetTheorems, TLAPS

LEMMA TypeOKInit == Init => TypeOK
BY GraphLifecycleAssumption
DEF Init, TypeOK, Job, Place, Gone, Live, Step, Steps, Counts, Promise!PromiseInit,
    Promise!Phase

(* What the moves of a handler change.                                     *)
LEMMA Goes ==
  ASSUME TypeOK, NEW j \in Job, NEW p \in Place, NEW s \in Step, Goto(j, p, s)
  PROVE  /\ step' \in Steps
         /\ step'[j][p] = s
         /\ \A i \in Job, q \in Place : i # j \/ q # p => step'[i][q] = step[i][q]
BY DEF TypeOK, Steps, Goto

LEMMA Begins ==
  ASSUME TypeOK, NEW j \in Job, BeginHandler(j)
  PROVE  /\ step' \in Steps /\ loaded' \in Counts
         /\ step'[j][Main] = "group"
         /\ \A i \in Job, q \in Place : i # j \/ q # Main => step'[i][q] = step[i][q]
         /\ \A u \in Update : u # j => loaded'[u] = loaded[u]
         /\ j \in Update => loaded'[j][Main] = 0
<1>1. Main \in Place /\ "group" \in Step
  BY DEF Place, Step
<1>2. loaded \in Counts /\ 0 \in 0 .. MaxBatch
  BY GraphLifecycleAssumption DEF TypeOK
<1>3. /\ loaded' \in Counts
      /\ \A u \in Update : u # j => loaded'[u] = loaded[u]
      /\ j \in Update => loaded'[j][Main] = 0
  BY <1>1, <1>2 DEF BeginHandler, Counts
<1>4. Goto(j, Main, "group")
  BY DEF BeginHandler
<1> QED
  BY <1>1, <1>3, <1>4, Goes

LEMMA Returns ==
  ASSUME TypeOK, NEW j \in Job, NEW p \in Place, HandlerReturns(j, p)
  PROVE  /\ step' \in Steps /\ phase' \in [Job -> Promise!Phase]
         /\ left' \in [Job -> SUBSET Host]
         /\ runs' = runs /\ restarts' = restarts
         /\ step'[j][p] = "none"
         /\ \A i \in Job, q \in Place : i # j \/ q # p => step'[i][q] = step[i][q]
         /\ \A i \in Job : i # j => phase'[i] = phase[i] /\ left'[i] = left[i]
         /\ p = Main => /\ phase[j] = "running" /\ phase'[j] \in {"returned", "ended"}
                        /\ left' = left
         /\ p # Main => phase' = phase /\ p \in left[j] /\ left'[j] = left[j] \ {p}
<1>1. phase \in [Job -> Promise!Phase] /\ left \in [Job -> SUBSET Host]
  BY DEF TypeOK
<1>2. Goto(j, p, "none") /\ "none" \in Step
  BY DEF HandlerReturns, Step
<1>3. /\ step' \in Steps
      /\ step'[j][p] = "none"
      /\ \A i \in Job, q \in Place : i # j \/ q # p => step'[i][q] = step[i][q]
  BY <1>2, Goes
<1>4. CASE p = Main
  BY <1>1, <1>3, <1>4 DEF HandlerReturns, Promise!Return, Promise!Phase
<1>5. CASE p # Main
  BY <1>1, <1>3, <1>5 DEF HandlerReturns, Promise!LeftReturns
<1> QED
  BY <1>4, <1>5

LEMMA Pushes ==
  ASSUME TypeOK, NEW j \in Job, NEW h \in Host, PushBack(j, h)
  PROVE  /\ step' \in Steps /\ loaded' \in Counts
         /\ step'[j][h] = step[j][Main] /\ step'[j][Main] = "none"
         /\ \A i \in Job, q \in Place :
              i # j \/ q \notin {h, Main} => step'[i][q] = step[i][q]
<1>1. Main \in Place /\ h \in Place /\ h # Main /\ "none" \in Step
  BY GraphLifecycleAssumption DEF Place, Step
<1>2. step \in Steps /\ loaded \in Counts
  BY DEF TypeOK
<1>3. loaded' \in Counts
  BY <1>1, <1>2 DEF PushBack, Counts
<1>4. PICK s : s = [step[j] EXCEPT ![h] = step[j][Main], ![Main] = "none"]
  OBVIOUS
<1>5. step[j] \in [Place -> Step]
  BY <1>2 DEF Steps
<1>6. /\ s \in [Place -> Step] /\ s[h] = step[j][Main] /\ s[Main] = "none"
      /\ \A q \in Place : q \notin {h, Main} => s[q] = step[j][q]
  BY <1>1, <1>4, <1>5
<1>7. step' = [step EXCEPT ![j] = s]
  BY <1>2, <1>4 DEF PushBack, Steps
<1>8. step'[j] = s /\ \A i \in Job : i # j => step'[i] = step[i]
  BY <1>2, <1>7 DEF Steps
<1>9. step' \in Steps
  BY <1>2, <1>6, <1>7 DEF Steps
<1> QED
  BY <1>3, <1>6, <1>8, <1>9

LEMMA Ends ==
  ASSUME TypeOK, NEW h \in Host, ConsumerEnds(h)
  PROVE  /\ step' \in Steps
         /\ \A j \in Job : step'[j][h] = "none"
         /\ \A j \in Job, q \in Place : q # h => step'[j][q] = step[j][q]
         /\ phase' = phase /\ \A j \in Job : left'[j] = left[j] \ {h}
<1>1. h \in Place /\ "none" \in Step /\ step \in Steps
  BY DEF Place, Step, TypeOK
<1>2. /\ step' \in Steps
      /\ \A j \in Job : step'[j][h] = "none"
      /\ \A j \in Job, q \in Place : q # h => step'[j][q] = step[j][q]
  BY <1>1 DEF ConsumerEnds, Steps
<1>3. phase' = [j \in Job |-> phase[j]] /\ \A j \in Job : left'[j] = left[j] \ {h}
  BY DEF ConsumerEnds, Promise!Lose
<1>4. phase' = phase
  BY <1>3 DEF TypeOK
<1> QED
  BY <1>2, <1>3, <1>4

LEMMA Crashes ==
  ASSUME TypeOK, NEW j \in Job, CrashHandler(j)
  PROVE  /\ step' \in Steps /\ phase' \in [Job -> Promise!Phase]
         /\ step'[j][Main] = "none"
         /\ \A i \in Job, q \in Place : i # j \/ q # Main => step'[i][q] = step[i][q]
         /\ phase[j] = "running" /\ phase'[j] \in {"returned", "ended"}
         /\ \A i \in Job : i # j => phase'[i] = phase[i]
         /\ left' = left
<1>1. Main \in Place /\ "none" \in Step /\ Goto(j, Main, "none")
  BY DEF Place, Step, CrashHandler
<1>2. /\ step' \in Steps
      /\ step'[j][Main] = "none"
      /\ \A i \in Job, q \in Place : i # j \/ q # Main => step'[i][q] = step[i][q]
  BY <1>1, Goes
<1>3. phase[j] = "running"
  BY DEF CrashHandler, Promise!Lose, Promise!Running
<1>4. /\ phase' \in [Job -> Promise!Phase] /\ phase'[j] \in {"returned", "ended"}
      /\ \A i \in Job : i # j => phase'[i] = phase[i]
  BY DEF CrashHandler, Promise!Lose, TypeOK, Promise!Phase
<1>5. left' = [i \in Job |-> left[i] \ {}]
  BY DEF CrashHandler, Promise!Lose
<1>6. left' = left
  BY <1>5 DEF TypeOK
<1> QED
  BY <1>2, <1>3, <1>4, <1>6

LEMMA TypeOKStep == TypeOK /\ [Next]_vars => TypeOK'
<1> SUFFICES ASSUME TypeOK, [Next]_vars PROVE TypeOK'
  OBVIOUS
<1> USE GraphLifecycleAssumption
    DEF TypeOK, Job, Live, Gone, GraphOf, Promise!Phase, dataVars, callVars, taskVars,
        jobVars, dropVars
<1>1. ASSUME NEW g \in Graph, InsertGraph(g) PROVE TypeOK'
  BY <1>1 DEF InsertGraph, Stored
<1>2. ASSUME NEW u \in Update, NEW b \in Page, MarkUpdate(u, b) PROVE TypeOK'
  <2>1. by' \in [Update -> Page \cup {NoPage, Cron}] /\ eager' \in SUBSET Update
    BY <1>2 DEF MarkUpdate, Sends
  <2>2. call' \in [Job -> {"none", "stored", "ok", "failed"}] /\ hit' \in SUBSET Graph
    BY <1>2 DEF MarkUpdate, Stored
  <2>3. row' \in [Graph -> Live \cup Gone]
    BY <1>2 DEF MarkUpdate, SetStatus
  <2> QED
    BY <1>2, <2>1, <2>2, <2>3 DEF MarkUpdate
<1>3. ASSUME NEW j \in Job, Publish(j) PROVE TypeOK'
  <2>1. call' \in [Job -> {"none", "stored", "ok", "failed"}]
    BY <1>3 DEF Publish
  <2>2. page' \in [Page -> SUBSET Graph] /\ hit' \in SUBSET Graph
    BY <1>3 DEF Publish
  <2>3. /\ phase' \in [Job -> Promise!Phase] /\ left' = left /\ runs' = runs
        /\ restarts' = restarts
    BY <1>3 DEF Publish, Promise!Submit
  <2> QED
    BY <1>3, <2>1, <2>2, <2>3 DEF Publish
<1>4. ASSUME NEW b \in Page, LoadPage(b) PROVE TypeOK'
  BY <1>4 DEF LoadPage
<1>5. ASSUME NEW g \in Graph, DropGraphSpace(g) PROVE TypeOK'
  BY <1>5 DEF DropGraphSpace, DropSpaceOf
<1>6. ASSUME NEW g \in Graph, DropGraphRow(g) PROVE TypeOK'
  BY <1>6 DEF DropGraphRow, SetStatus
<1>7. ASSUME ListGraphs PROVE TypeOK'
  BY <1>7 DEF ListGraphs
<1>8. ASSUME NEW g \in Graph, DropListed(g) PROVE TypeOK'
  BY <1>8 DEF DropListed, DropSpaceOf
<1>9. ASSUME DropGroupRow PROVE TypeOK'
  BY <1>9 DEF DropGroupRow
<1>10. ASSUME NEW j \in Job, BeginHandler(j) PROVE TypeOK'
  <2>1. step' \in Steps /\ loaded' \in Counts
    BY <1>10, Begins
  <2>2. /\ phase' \in [Job -> Promise!Phase] /\ runs' \in [Job -> Nat]
        /\ left' = left /\ restarts' = restarts
    BY <1>10 DEF BeginHandler, Promise!Begin
  <2> QED
    BY <1>10, <2>1, <2>2 DEF BeginHandler
<1>11. ASSUME NEW g \in Graph, NEW p \in Place, CreateReadsGroup(g, p) PROVE TypeOK'
  BY <1>11, Goes, Returns DEF CreateReadsGroup, Step
<1>12. ASSUME NEW g \in Graph, NEW p \in Place, CreateSpace(g, p) PROVE TypeOK'
  BY <1>12, Goes, Returns DEF CreateSpace, Step
<1>13. ASSUME NEW g \in Graph, NEW p \in Place, CreateMarksOK(g, p) PROVE TypeOK'
  BY <1>13, Returns DEF CreateMarksOK, SetStatus
<1>14. ASSUME NEW u \in Update, NEW p \in Place, UpdateReadsGroup(u, p) PROVE TypeOK'
  BY <1>14, Goes DEF UpdateReadsGroup, Step
<1>15. ASSUME NEW u \in Update, NEW p \in Place, InsertBatch(u, p)
       PROVE  /\ held' \in [Update -> 0 .. MaxBatch]
              /\ loaded[u][p] \in 0 .. MaxBatch /\ loaded[u][p] < MaxBatch
  BY <1>15 DEF InsertBatch, Counts
<1>16. ASSUME NEW u \in Update, NEW p \in Place, LoadBatch(u, p) PROVE TypeOK'
  <2>1. InsertBatch(u, p) /\ loaded \in Counts
    BY <1>16 DEF LoadBatch
  <2>2. /\ held' \in [Update -> 0 .. MaxBatch]
        /\ loaded[u][p] \in 0 .. MaxBatch /\ loaded[u][p] < MaxBatch
    BY <2>1, <1>15
  <2>3. loaded[u][p] + 1 \in 0 .. MaxBatch
    BY <2>2
  <2>4. loaded' \in Counts
    BY <1>16, <2>1, <2>3 DEF LoadBatch, Counts
  <2> QED
    BY <1>16, <2>2, <2>4 DEF LoadBatch
<1>17. ASSUME NEW u \in Update, NEW p \in Place, LoadEnds(u, p) PROVE TypeOK'
  <2>1. step' \in Steps
    BY <1>17, Goes DEF LoadEnds, Step
  <2>2. held' \in [Update -> 0 .. MaxBatch] /\ hit' \in SUBSET Graph
    BY <1>15, <1>17 DEF LoadEnds
  <2> QED
    BY <1>17, <2>1, <2>2 DEF LoadEnds
<1>18. ASSUME NEW u \in Update, NEW p \in Place, UpdateDefers(u, p) PROVE TypeOK'
  <2>1. loaded[u][p] \in Nat
    BY DEF Counts
  <2>2. /\ row' \in [Graph -> Live \cup Gone] /\ num' \in [Graph -> Nat]
        /\ hit' \in SUBSET Graph
    BY <1>18, <2>1 DEF UpdateDefers, SetStatus
  <2>3. /\ step' \in Steps /\ phase' \in [Job -> Promise!Phase]
        /\ left' \in [Job -> SUBSET Host]
        /\ runs' = runs /\ restarts' = restarts
    BY <1>18, Returns DEF UpdateDefers
  <2> QED
    BY <1>18, <2>2, <2>3 DEF UpdateDefers
<1>19. ASSUME NEW j \in Job, SettleJob(j) PROVE TypeOK'
  BY <1>19 DEF SettleJob, Promise!Settle
<1>20. ASSUME NEW j \in Job, CrashHandler(j) PROVE TypeOK'
  <2>1. /\ step' \in Steps /\ phase' \in [Job -> Promise!Phase] /\ left' = left
        /\ runs' = runs /\ restarts' = restarts
    BY <1>20, Crashes DEF CrashHandler, Promise!Lose
  <2> QED
    BY <1>20, <2>1 DEF CrashHandler
<1>21. ASSUME RestartConsumer PROVE TypeOK'
  BY <1>21 DEF RestartConsumer, Promise!Restart
<1>22. ASSUME NEW j \in Job, NEW h \in Host, PushBack(j, h) PROVE TypeOK'
  <2>1. step' \in Steps /\ loaded' \in Counts
    BY <1>22, Pushes
  <2>2. /\ phase' \in [Job -> Promise!Phase] /\ left' \in [Job -> SUBSET Host]
        /\ runs' = runs /\ restarts' = restarts
    BY <1>22 DEF PushBack, Promise!PushBack
  <2> QED
    BY <1>22, <2>1, <2>2 DEF PushBack
<1>23. ASSUME NEW h \in Host, ConsumerEnds(h) PROVE TypeOK'
  <2>1. step' \in Steps /\ phase' = phase
    BY <1>23, Ends
  <2>2. left' \in [Job -> SUBSET Host] /\ runs' = runs /\ restarts' = restarts
    BY <1>23 DEF ConsumerEnds, Promise!Lose
  <2> QED
    BY <1>23, <2>1, <2>2 DEF ConsumerEnds
<1>24. ASSUME NEW u \in Update, CronImport(u) PROVE TypeOK'
  BY <1>24 DEF CronImport, Promise!Submit
<1>25. CASE UNCHANGED vars
  BY <1>25 DEF vars
<1> QED
  BY <1>1, <1>2, <1>3, <1>4, <1>5, <1>6, <1>7, <1>8, <1>9, <1>10, <1>11, <1>12,
     <1>13, <1>14, <1>16, <1>17, <1>18, <1>19, <1>20, <1>21, <1>22, <1>23, <1>24,
     <1>25
  DEF Next, vars, CreateGraph, UpdateGraph

LEMMA HandlerSame ==
  ASSUME NEW j \in Job, HandlerOf(j), call'[j] = call[j], by' = by,
         phase'[j] = phase[j], left'[j] = left[j],
         \A p \in Place : step'[j][p] = step[j][p]
  PROVE  HandlerOf(j)'
BY DEF HandlerOf, Place

(* The handler of job j is somewhere else, and nothing else of any job is. *)
LEMMA HandlerGoes ==
  ASSUME IInv, NEW j \in Job, NEW p \in Place, NEW s \in Step \ {"none"}, Goto(j, p, s),
         step[j][p] # "none", s \in {"space", "mark"} => j \in Graph,
         s \in {"load", "defer"} => j \in Update,
         call' = call, by' = by, phase' = phase, left' = left
  PROVE  HandlerInv'
<1>1. TypeOK /\ s \in Step /\ \A i \in Job : HandlerOf(i)
  BY DEF IInv, HandlerInv
<1>2. /\ step'[j][p] = s
      /\ \A i \in Job, q \in Place : i # j \/ q # p => step'[i][q] = step[i][q]
  BY <1>1, Goes
<1>3. ASSUME NEW i \in Job, i # j PROVE HandlerOf(i)'
  <2>1. \A q \in Place : step'[i][q] = step[i][q]
    BY <1>2, <1>3
  <2> QED
    BY <1>1, <2>1, HandlerSame
<1>4. HandlerOf(j)'
  BY <1>1, <1>2 DEF HandlerOf, Place
<1> QED
  BY <1>3, <1>4 DEF HandlerInv

LEMMA HandlerIsGone ==
  ASSUME IInv, NEW j \in Job, NEW p \in Place, HandlerReturns(j, p), call' = call,
         by' = by
  PROVE  HandlerInv'
<1>1. TypeOK /\ \A i \in Job : HandlerOf(i)
  BY DEF IInv, HandlerInv
<1>2. /\ step'[j][p] = "none"
      /\ \A i \in Job, q \in Place : i # j \/ q # p => step'[i][q] = step[i][q]
      /\ \A i \in Job : i # j => phase'[i] = phase[i] /\ left'[i] = left[i]
      /\ p = Main => /\ phase[j] = "running" /\ phase'[j] \in {"returned", "ended"}
                     /\ left' = left
      /\ p # Main => phase' = phase /\ p \in left[j] /\ left'[j] = left[j] \ {p}
  BY <1>1, Returns
<1>3. ASSUME NEW i \in Job, i # j PROVE HandlerOf(i)'
  <2>1. \A q \in Place : step'[i][q] = step[i][q]
    BY <1>2, <1>3
  <2> QED
    BY <1>1, <1>2, <1>3, <2>1, HandlerSame
<1>4. HandlerOf(j)'
  BY <1>1, <1>2, GraphLifecycleAssumption DEF HandlerOf, Place
<1> QED
  BY <1>3, <1>4 DEF HandlerInv

LEMMA HandlerInvStep == IInv /\ [Next]_vars => HandlerInv'
<1> SUFFICES ASSUME IInv, [Next]_vars PROVE HandlerInv'
  OBVIOUS
<1>1. TypeOK /\ \A i \in Job : HandlerOf(i)
  BY DEF IInv, HandlerInv
<1>2. /\ call \in [Job -> {"none", "stored", "ok", "failed"}]
      /\ by \in [Update -> Page \cup {NoPage, Cron}] /\ phase \in [Job -> Promise!Phase]
      /\ left \in [Job -> SUBSET Host]
  BY <1>1 DEF TypeOK
<1>3. (\A i \in Job : HandlerOf(i)') => HandlerInv'
  BY DEF HandlerInv
<1> USE GraphLifecycleAssumption DEF dataVars, callVars, taskVars, jobVars, dropVars
<1>4. ASSUME NEW g \in Graph, InsertGraph(g) PROVE HandlerInv'
  BY <1>4, <1>1, <1>2, <1>3 DEF InsertGraph, Stored, HandlerOf, Job
<1>5. ASSUME NEW u \in Update, NEW b \in Page, MarkUpdate(u, b) PROVE HandlerInv'
  BY <1>5, <1>1, <1>2, <1>3 DEF MarkUpdate, Sends, Stored, HandlerOf, Job
<1>6. ASSUME NEW j \in Job, Publish(j) PROVE HandlerInv'
  <2>1. /\ call[j] = "stored" /\ call'[j] \in {"ok", "failed"} /\ by' = by
        /\ \A i \in Job : i # j => call'[i] = call[i] /\ phase'[i] = phase[i]
        /\ left' = left /\ step' = step
    BY <1>6, <1>2 DEF Publish, Promise!Submit
  <2>2. phase[j] = "unsent" /\ phase'[j] \in {"unsent", "waiting"} /\ left[j] = {}
    BY <1>6, <1>1, <1>2, <2>1 DEF Publish, Promise!Submit, HandlerOf
  <2>3. ASSUME NEW i \in Job, i # j PROVE HandlerOf(i)'
    BY <1>1, <2>1, <2>3, HandlerSame
  <2>4. HandlerOf(j)'
    BY <1>1, <2>1, <2>2 DEF HandlerOf, Place
  <2> QED
    BY <1>3, <2>3, <2>4
<1>7. ASSUME NEW u \in Update, CronImport(u) PROVE HandlerInv'
  <2>1. /\ u \in Job /\ by[u] = NoPage /\ by'[u] = Cron
        /\ \A v \in Update : v # u => by'[v] = by[v]
        /\ phase[u] = "unsent" /\ phase'[u] = "waiting"
        /\ \A i \in Job : i # u => phase'[i] = phase[i]
        /\ left' = left /\ step' = step /\ call' = call
    BY <1>7, <1>2 DEF CronImport, Promise!Submit, Job
  <2>2. call[u] = "none"
    BY <2>1 DEF IInv, LockInv
  <2>3. ASSUME NEW i \in Job, i # u PROVE HandlerOf(i)'
    BY <1>1, <2>1, <2>3 DEF HandlerOf, Job
  <2>4. HandlerOf(u)'
    BY <1>1, <2>1, <2>2 DEF HandlerOf, Place
  <2> QED
    BY <1>3, <2>3, <2>4
<1>8. ASSUME NEW j \in Job, BeginHandler(j) PROVE HandlerInv'
  <2>1. /\ step'[j][Main] = "group"
        /\ \A i \in Job, q \in Place : i # j \/ q # Main => step'[i][q] = step[i][q]
    BY <1>8, <1>1, Begins
  <2>2. /\ phase[j] = "waiting" /\ phase'[j] = "running" /\ left' = left
        /\ \A i \in Job : i # j => phase'[i] = phase[i]
        /\ call' = call /\ by' = by
    BY <1>8, <1>2 DEF BeginHandler, Promise!Begin
  <2>3. ASSUME NEW i \in Job, i # j PROVE HandlerOf(i)'
    BY <1>1, <2>1, <2>2, <2>3, HandlerSame
  <2>4. HandlerOf(j)'
    BY <1>1, <2>1, <2>2 DEF HandlerOf, Place
  <2> QED
    BY <1>3, <2>3, <2>4
<1>9. ASSUME NEW g \in Graph, NEW p \in Place, CreateReadsGroup(g, p) PROVE HandlerInv'
  <2>1. g \in Job /\ call' = call /\ by' = by
    BY <1>9 DEF CreateReadsGroup, Job
  <2>2. CASE HandlerReturns(g, p)
    BY <2>1, <2>2, HandlerIsGone
  <2>3. CASE ~ HandlerReturns(g, p)
    <3>1. Goto(g, p, "space") /\ phase' = phase /\ left' = left /\ step[g][p] # "none"
      BY <1>9, <2>3 DEF CreateReadsGroup
    <3> QED
      BY <2>1, <3>1, HandlerGoes DEF Step
  <2> QED
    BY <2>2, <2>3
<1>10. ASSUME NEW g \in Graph, NEW p \in Place, CreateSpace(g, p) PROVE HandlerInv'
  <2>1. g \in Job /\ call' = call /\ by' = by
    BY <1>10 DEF CreateSpace, Job
  <2>2. CASE HandlerReturns(g, p)
    BY <2>1, <2>2, HandlerIsGone
  <2>3. CASE ~ HandlerReturns(g, p)
    <3>1. Goto(g, p, "mark") /\ phase' = phase /\ left' = left /\ step[g][p] # "none"
      BY <1>10, <2>3 DEF CreateSpace
    <3> QED
      BY <2>1, <3>1, HandlerGoes DEF Step
  <2> QED
    BY <2>2, <2>3
<1>11. ASSUME NEW g \in Graph, NEW p \in Place, CreateMarksOK(g, p) PROVE HandlerInv'
  BY <1>11, HandlerIsGone DEF CreateMarksOK, Job
<1>12. ASSUME NEW u \in Update, NEW p \in Place, UpdateReadsGroup(u, p)
      PROVE  HandlerInv'
  <2>1. PICK s \in {"load", "defer"} : Goto(u, p, s)
    BY <1>12 DEF UpdateReadsGroup
  <2>2. /\ u \in Job /\ step[u][p] # "none" /\ call' = call /\ by' = by /\ phase' = phase
        /\ left' = left
    BY <1>12 DEF UpdateReadsGroup, Job
  <2> QED
    BY <2>1, <2>2, HandlerGoes DEF Step
<1>13. ASSUME NEW u \in Update, NEW p \in Place, LoadEnds(u, p) PROVE HandlerInv'
  <2>1. /\ Goto(u, p, "defer") /\ u \in Job /\ step[u][p] # "none" /\ call' = call
        /\ by' = by /\ phase' = phase /\ left' = left
    BY <1>13 DEF LoadEnds, Job
  <2> QED
    BY <2>1, HandlerGoes DEF Step
<1>14. ASSUME NEW u \in Update, NEW p \in Place, UpdateDefers(u, p) PROVE HandlerInv'
  BY <1>14, HandlerIsGone DEF UpdateDefers, Job
<1>15. ASSUME NEW j \in Job, SettleJob(j) PROVE HandlerInv'
  BY <1>15, <1>1, <1>2, <1>3 DEF SettleJob, Promise!Settle, HandlerOf
<1>16. ASSUME NEW j \in Job, CrashHandler(j) PROVE HandlerInv'
  <2>1. /\ step'[j][Main] = "none"
        /\ \A i \in Job, q \in Place : i # j \/ q # Main => step'[i][q] = step[i][q]
        /\ phase[j] = "running" /\ phase'[j] \in {"returned", "ended"}
        /\ \A i \in Job : i # j => phase'[i] = phase[i]
        /\ left' = left /\ call' = call /\ by' = by
    BY <1>16, <1>1, Crashes DEF CrashHandler
  <2>2. ASSUME NEW i \in Job, i # j PROVE HandlerOf(i)'
    BY <1>1, <2>1, <2>2, HandlerSame
  <2>3. HandlerOf(j)'
    BY <1>1, <2>1 DEF HandlerOf, Place
  <2> QED
    BY <1>3, <2>2, <2>3
<1>17. ASSUME NEW j \in Job, NEW h \in Host, PushBack(j, h) PROVE HandlerInv'
  <2>1. /\ step'[j][h] = step[j][Main] /\ step'[j][Main] = "none"
        /\ \A i \in Job, q \in Place : i # j \/ q \notin {h, Main} => step'[i][q] = step[i][q]
    BY <1>17, <1>1, Pushes
  <2>2. /\ phase[j] \in {"running", "returned"} /\ h \notin left[j] /\ phase'[j] = "waiting"
        /\ left'[j] = IF phase[j] = "running" THEN left[j] \cup {h} ELSE left[j]
        /\ \A i \in Job : i # j => phase'[i] = phase[i] /\ left'[i] = left[i]
        /\ call' = call /\ by' = by
    BY <1>17, <1>2 DEF PushBack, Promise!PushBack
  <2>3. ASSUME NEW i \in Job, i # j PROVE HandlerOf(i)'
    BY <1>1, <2>1, <2>2, <2>3, HandlerSame
  <2>4. HandlerOf(j)'
    <3>1. h # Main /\ Main \in Place /\ h \in Place
      BY DEF Place
    <3>2. /\ (step'[j][Main] # "none" <=> phase'[j] = "running")
          /\ \A k \in Host : step'[j][k] # "none" <=> k \in left'[j]
      BY <1>1, <2>1, <2>2, <3>1 DEF HandlerOf, Place
    <3>3. \A q \in Place : /\ step'[j][q] \in {"space", "mark"} => j \in Graph
                           /\ step'[j][q] \in {"load", "defer"} => j \in Update
      BY <1>1, <2>1, <3>1 DEF HandlerOf
    <3> QED
      BY <1>1, <2>2, <3>2, <3>3 DEF HandlerOf
  <2> QED
    BY <1>3, <2>3, <2>4
<1>18. ASSUME NEW h \in Host, ConsumerEnds(h) PROVE HandlerInv'
  <2>1. /\ \A j \in Job : step'[j][h] = "none"
        /\ \A j \in Job, q \in Place : q # h => step'[j][q] = step[j][q]
        /\ phase' = phase /\ \A j \in Job : left'[j] = left[j] \ {h}
        /\ call' = call /\ by' = by
    BY <1>18, <1>1, Ends DEF ConsumerEnds
  <2>2. ASSUME NEW i \in Job PROVE HandlerOf(i)'
    BY <1>1, <2>1 DEF HandlerOf, Place
  <2> QED
    BY <1>3, <2>2
<1>19. CASE UNCHANGED <<step, phase, left, call, by>>
  BY <1>1, <1>3, <1>19 DEF HandlerOf
<1> QED
  BY <1>4, <1>5, <1>6, <1>7, <1>8, <1>9, <1>10, <1>11, <1>12, <1>13, <1>14, <1>15,
     <1>16, <1>17, <1>18, <1>19
  DEF Next, vars, CreateGraph, UpdateGraph, LoadPage, DropGraphSpace, DropGraphRow,
      DropListed, DropGroupRow, LoadBatch, RestartConsumer, Promise!Restart, ListGraphs

LEMMA RunsInvStep == IInv /\ [Next]_vars => RunsInv'
<1> SUFFICES ASSUME IInv, [Next]_vars PROVE RunsInv'
  OBVIOUS
<1> TypeOK
  BY DEF IInv
<1> USE GraphLifecycleAssumption
    DEF IInv, TypeOK, HandlerInv, RunsInv, Job, Place, dataVars, callVars, taskVars,
        jobVars, dropVars
<1>1. ASSUME NEW j \in Job, Publish(j) PROVE RunsInv'
  BY <1>1 DEF Publish, Promise!Submit
<1>2. ASSUME NEW j \in Job, BeginHandler(j) PROVE RunsInv'
  BY <1>2 DEF BeginHandler, Promise!Begin
<1>3. ASSUME NEW j \in Job, NEW p \in Place, HandlerReturns(j, p) PROVE RunsInv'
  BY <1>3, Returns
<1>4. ASSUME NEW j \in Job, SettleJob(j) PROVE RunsInv'
  BY <1>4 DEF SettleJob, Promise!Settle
<1>5. ASSUME NEW j \in Job, CrashHandler(j) PROVE RunsInv'
  BY <1>5, Crashes DEF CrashHandler, Promise!Lose
<1>6. ASSUME RestartConsumer PROVE RunsInv'
  BY <1>6 DEF RestartConsumer, Promise!Restart
<1>7. ASSUME NEW j \in Job, NEW h \in Host, PushBack(j, h) PROVE RunsInv'
  BY <1>7 DEF PushBack, Promise!PushBack
<1>8. ASSUME NEW h \in Host, ConsumerEnds(h) PROVE RunsInv'
  BY <1>8, Ends DEF ConsumerEnds, Promise!Lose
<1>9. ASSUME NEW u \in Update, CronImport(u) PROVE RunsInv'
  BY <1>9 DEF CronImport, Promise!Submit
<1>10. CASE UNCHANGED jobVars
  BY <1>10
<1>11. ASSUME NEW g \in Graph, CreateGraph(g) PROVE RunsInv'
  BY <1>3, <1>10, <1>11 DEF CreateGraph, CreateReadsGroup, CreateSpace, CreateMarksOK
<1>12. ASSUME NEW u \in Update, UpdateGraph(u) PROVE RunsInv'
  BY <1>3, <1>10, <1>12
  DEF UpdateGraph, UpdateReadsGroup, LoadBatch, LoadEnds, UpdateDefers
<1> QED
  BY <1>1, <1>2, <1>4, <1>5, <1>6, <1>7, <1>8, <1>9, <1>10, <1>11, <1>12
  DEF Next, vars, InsertGraph, MarkUpdate, LoadPage, DropGraphSpace, DropGraphRow,
      ListGraphs, DropListed, DropGroupRow

(* Handlers move, and no space is lost.                                    *)
LEMMA BeliefStays ==
  ASSUME BeliefInv, row' = row, drop' = drop, page' = page, call' = call, by' = by,
         dropped' = dropped, space \subseteq space',
         \A g \in Graph : (\E p \in Place : step'[g][p] = "mark") =>
           g \in space' \/ \E p \in Place : step[g][p] = "mark"
  PROVE  BeliefInv'
BY DEF BeliefInv, Believed, Imported

(* No created graph is going to be created again.                          *)
LEMMA CreateOverStays ==
  ASSUME CreateOverInv, row' = row, drop' = drop, page' = page, call' = call, by' = by,
         space' = space, restarts' = restarts,
         restarts = 0 => \A g \in Graph :
           phase[g] \in {"returned", "ended"} => phase'[g] \in {"returned", "ended"}
  PROVE  CreateOverInv'
BY DEF CreateOverInv, Believed, Imported

(* No update becomes pending, and no row reads online.                     *)
LEMMA LockStays ==
  ASSUME LockInv, row' = row, page' = page, call' = call, by' = by, eager' = eager,
         restarts' = restarts,
         \A u \in Update : phase'[u] = "unsent" <=> phase[u] = "unsent",
         restarts = 0 => \A u \in Update : Busy(u)' => Busy(u)
  PROVE  LockInv'
BY DEF LockInv, Pending, Unanswered, Unlocked, Imported

(* Moves of handlers and jobs.                                             *)
LEMMA HandlerMoves ==
  ASSUME IInv, NEW j \in Job, NEW p \in Place,
         HandlerReturns(j, p) \/ \E s \in Step \ {"mark"} : Goto(j, p, s) /\ UNCHANGED jobVars
  PROVE  /\ \A g \in Graph, q \in Place : step'[g][q] = "mark" => step[g][q] = "mark"
         /\ restarts' = restarts
         /\ \A i \in Job : phase'[i] # phase[i] =>
              phase[i] = "running" /\ phase'[i] \in {"returned", "ended"}
<1>1. TypeOK
  BY DEF IInv
<1>2. CASE HandlerReturns(j, p)
  BY <1>1, <1>2, Returns DEF Job
<1>3. CASE \E s \in Step \ {"mark"} : Goto(j, p, s) /\ UNCHANGED jobVars
  <2>1. PICK s \in Step : s # "mark" /\ Goto(j, p, s) /\ UNCHANGED jobVars
    BY <1>3
  <2> QED
    BY <1>1, <2>1, Goes DEF Job, jobVars
<1> QED
  BY <1>2, <1>3

JobMove ==
  \/ \E j \in Job : SettleJob(j) \/ CrashHandler(j)
  \/ \E h \in Host : ConsumerEnds(h) \/ \E j \in Job : PushBack(j, h)

LEMMA JobMoves ==
  ASSUME IInv, JobMove
  PROVE  /\ UNCHANGED <<dataVars, callVars, dropVars, dropped>> /\ restarts' = restarts
         /\ \A g \in Graph : (\E q \in Place : step'[g][q] = "mark") =>
              \E q \in Place : step[g][q] = "mark"
         /\ \A i \in Job : phase'[i] = "unsent" <=> phase[i] = "unsent"
         /\ restarts = 0 => \A i \in Job : phase'[i] # phase[i] =>
              phase[i] \in {"running", "returned"} /\ phase'[i] \in {"returned", "ended"}
<1>1. TypeOK /\ phase \in [Job -> Promise!Phase] /\ restarts \in Nat
  BY DEF IInv, TypeOK
<1>2. ASSUME NEW j \in Job, SettleJob(j)
      PROVE  /\ UNCHANGED <<dataVars, callVars, dropVars, dropped>> /\ restarts' = restarts
             /\ step' = step
             /\ \A i \in Job : phase'[i] # phase[i] =>
                  phase[i] = "returned" /\ phase'[i] = "ended"
  BY <1>1, <1>2 DEF SettleJob, Promise!Settle
<1>3. ASSUME NEW j \in Job, CrashHandler(j)
      PROVE  /\ UNCHANGED <<dataVars, callVars, dropVars, dropped>> /\ restarts' = restarts
             /\ \A g \in Graph, q \in Place : step'[g][q] = "mark" => step[g][q] = "mark"
             /\ \A i \in Job : phase'[i] # phase[i] =>
                  phase[i] = "running" /\ phase'[i] \in {"returned", "ended"}
  <2>1. restarts' = restarts /\ UNCHANGED <<dataVars, callVars, dropVars, dropped>>
    BY <1>3 DEF CrashHandler, Promise!Lose
  <2> QED
    BY <1>1, <1>3, <2>1, Crashes DEF Job
<1>4. ASSUME NEW j \in Job, NEW h \in Host, PushBack(j, h)
      PROVE  /\ UNCHANGED <<dataVars, callVars, dropVars, dropped>> /\ restarts' = restarts
             /\ \A g \in Graph : (\E q \in Place : step'[g][q] = "mark") =>
                  \E q \in Place : step[g][q] = "mark"
             /\ \A i \in Job : phase'[i] = "unsent" <=> phase[i] = "unsent"
             /\ restarts # 0
  <2>1. UNCHANGED <<dataVars, callVars, dropVars, dropped>> /\ restarts' = restarts
    BY <1>4 DEF PushBack, Promise!PushBack
  <2>2. Main \in Place
    BY DEF Place
  <2>3. \A g \in Graph : (\E q \in Place : step'[g][q] = "mark") =>
          \E q \in Place : step[g][q] = "mark"
    BY <1>1, <1>4, <2>2, Pushes DEF Job
  <2>4. /\ phase[j] \in {"running", "returned"} /\ phase' = [phase EXCEPT ![j] = "waiting"]
        /\ runs[j] <= restarts
    BY <1>4 DEF PushBack, Promise!PushBack
  <2>5. runs[j] > 0 /\ runs[j] \in Nat
    BY <2>4 DEF IInv, RunsInv, TypeOK
  <2> QED
    BY <1>1, <2>1, <2>3, <2>4, <2>5
<1>5. ASSUME NEW h \in Host, ConsumerEnds(h)
      PROVE  /\ UNCHANGED <<dataVars, callVars, dropVars, dropped>> /\ restarts' = restarts
             /\ \A g \in Graph : (\E q \in Place : step'[g][q] = "mark") =>
                  \E q \in Place : step[g][q] = "mark"
             /\ phase' = phase
  <2>1. UNCHANGED <<dataVars, callVars, dropVars, dropped>> /\ restarts' = restarts
    BY <1>5 DEF ConsumerEnds, Promise!Lose
  <2>2. /\ \A i \in Job : step'[i][h] = "none"
        /\ \A i \in Job, q \in Place : q # h => step'[i][q] = step[i][q]
        /\ phase' = phase
    BY <1>1, <1>5, Ends
  <2> QED
    BY <2>1, <2>2 DEF Job
<1> QED
  BY <1>2, <1>3, <1>4, <1>5 DEF JobMove

LEMMA BeliefInvStep == IInv /\ [Next]_vars => BeliefInv'
<1> SUFFICES ASSUME IInv, [Next]_vars PROVE BeliefInv'
  OBVIOUS
<1> TypeOK
  BY DEF IInv
<1> USE GraphLifecycleAssumption
    DEF IInv, TypeOK, BeliefInv, Believed, Imported, Live, dataVars, callVars, taskVars,
        jobVars, dropVars
<1>1. ASSUME NEW g \in Graph, InsertGraph(g) PROVE BeliefInv'
  BY <1>1 DEF InsertGraph, Stored
<1>2. ASSUME NEW u \in Update, NEW b \in Page, MarkUpdate(u, b) PROVE BeliefInv'
  BY <1>2 DEF MarkUpdate, Sends, Stored, SetStatus
<1>3. ASSUME NEW j \in Job, Publish(j) PROVE BeliefInv'
  <2>1. /\ \A u \in Update : call'[u] # "none" => call[u] # "none"
        /\ \A b \in Page : page'[b] \subseteq page[b]
        /\ by' = by
    BY <1>3 DEF Publish, Job
  <2>2. \A g \in Graph : Believed(g)' => Believed(g)
    BY <1>3, <2>1 DEF Publish
  <2> QED
    BY <1>3, <2>1, <2>2 DEF Publish
<1>4. ASSUME NEW u \in Update, CronImport(u) PROVE BeliefInv'
  BY <1>4 DEF CronImport, Promise!Submit
<1>5. ASSUME NEW b \in Page, LoadPage(b) PROVE BeliefInv'
  BY <1>5 DEF LoadPage
<1>6. ASSUME NEW g \in Graph, DropGraphSpace(g) PROVE BeliefInv'
  BY <1>6 DEF DropGraphSpace, DropSpaceOf
<1>7. ASSUME NEW g \in Graph, DropGraphRow(g) PROVE BeliefInv'
  BY <1>7 DEF DropGraphRow, SetStatus
<1>8. ASSUME NEW g \in Graph, DropListed(g) PROVE BeliefInv'
  BY <1>8 DEF DropListed, DropSpaceOf
<1>9. ASSUME DropGroupRow PROVE BeliefInv'
  BY <1>9 DEF DropGroupRow
<1>10. ASSUME NEW j \in Job, BeginHandler(j) PROVE BeliefInv'
  BY <1>10, Begins, BeliefStays DEF BeginHandler, Job
<1>11. ASSUME NEW g \in Graph, NEW p \in Place, CreateReadsGroup(g, p) PROVE BeliefInv'
  <2>1. g \in Job /\ (HandlerReturns(g, p) \/
          \E s \in Step \ {"mark"} : Goto(g, p, s) /\ UNCHANGED jobVars)
    BY <1>11 DEF CreateReadsGroup, Step, Job
  <2> QED
    BY <1>11, <2>1, HandlerMoves, BeliefStays DEF CreateReadsGroup
<1>12. ASSUME NEW g \in Graph, NEW p \in Place, CreateSpace(g, p) PROVE BeliefInv'
  <2>1. g \in Job /\ "mark" \in Step
    BY DEF Job, Step
  <2>2. CASE HandlerReturns(g, p)
    BY <1>12, <2>1, <2>2, HandlerMoves, BeliefStays DEF CreateSpace
  <2>3. CASE ~ HandlerReturns(g, p)
    <3>1. Goto(g, p, "mark") /\ space' = space \cup {g}
      BY <1>12, <2>3 DEF CreateSpace
    <3>2. \A i \in Graph, q \in Place : step'[i][q] = "mark" => step[i][q] = "mark" \/ i = g
      BY <2>1, <3>1, Goes DEF Job
    <3> QED
      BY <1>12, <3>1, <3>2, BeliefStays DEF CreateSpace
  <2> QED
    BY <2>2, <2>3
<1>13. ASSUME NEW g \in Graph, NEW p \in Place, CreateMarksOK(g, p) PROVE BeliefInv'
  <2>1. g \in Job /\ HandlerReturns(g, p)
    BY <1>13 DEF CreateMarksOK, Job
  <2>2. \A i \in Graph, q \in Place : step'[i][q] = "mark" => step[i][q] = "mark"
    BY <2>1, HandlerMoves
  <2>3. g \in space \cup dropped
    BY <1>13 DEF CreateMarksOK
  <2> QED
    BY <1>13, <2>2, <2>3 DEF CreateMarksOK, SetStatus
<1>14. ASSUME NEW u \in Update, NEW p \in Place, UpdateReadsGroup(u, p)
      PROVE  BeliefInv'
  <2>1. u \in Job /\ (HandlerReturns(u, p) \/
          \E s \in Step \ {"mark"} : Goto(u, p, s) /\ UNCHANGED jobVars)
    BY <1>14 DEF UpdateReadsGroup, Step, Job
  <2> QED
    BY <1>14, <2>1, HandlerMoves, BeliefStays DEF UpdateReadsGroup
<1>15. ASSUME NEW u \in Update, NEW p \in Place, LoadEnds(u, p) PROVE BeliefInv'
  <2>1. u \in Job /\ (HandlerReturns(u, p) \/
          \E s \in Step \ {"mark"} : Goto(u, p, s) /\ UNCHANGED jobVars)
    BY <1>15 DEF LoadEnds, Step, Job
  <2> QED
    BY <1>15, <2>1, HandlerMoves, BeliefStays DEF LoadEnds
<1>16. ASSUME NEW u \in Update, NEW p \in Place, UpdateDefers(u, p) PROVE BeliefInv'
  <2>1. u \in Job /\ HandlerReturns(u, p)
    BY <1>16 DEF UpdateDefers, Job
  <2>2. \A i \in Graph, q \in Place : step'[i][q] = "mark" => step[i][q] = "mark"
    BY <2>1, HandlerMoves
  <2>3. u \in Job /\ step[u][p] = "defer" /\ phase[u] # "unsent"
    BY <1>16, <2>1, Returns DEF UpdateDefers, HandlerInv, HandlerOf, Place
  <2>4. call[u] # "none" \/ by[u] = Cron
    BY <2>3 DEF HandlerInv, HandlerOf
  <2> QED
    BY <1>16, <2>2, <2>4 DEF UpdateDefers, SetStatus
<1>17. ASSUME JobMove PROVE BeliefInv'
  BY <1>17, JobMoves, BeliefStays
<1>18. CASE UNCHANGED <<row, drop, page, call, by, step, space, dropped>>
  BY <1>18
<1> QED
  BY <1>1, <1>2, <1>3, <1>4, <1>5, <1>6, <1>7, <1>8, <1>9, <1>10, <1>11, <1>12,
     <1>13, <1>14, <1>15, <1>16, <1>17, <1>18
  DEF Next, vars, CreateGraph, UpdateGraph, JobMove, LoadBatch, RestartConsumer,
      ListGraphs

LEMMA CreateOverInvStep == IInv /\ [Next]_vars => CreateOverInv'
<1> SUFFICES ASSUME IInv, [Next]_vars PROVE CreateOverInv'
  OBVIOUS
<1> TypeOK
  BY DEF IInv
<1> USE GraphLifecycleAssumption
    DEF IInv, TypeOK, HandlerInv, HandlerOf, RunsInv, CreateOverInv, Believed,
        Imported, Job, Place, Live, dataVars, callVars, taskVars,
        jobVars, dropVars
<1>1. ASSUME NEW g \in Graph, InsertGraph(g) PROVE CreateOverInv'
  BY <1>1 DEF InsertGraph, Stored
<1>2. ASSUME NEW u \in Update, NEW b \in Page, MarkUpdate(u, b) PROVE CreateOverInv'
  BY <1>2 DEF MarkUpdate, Sends, Stored, SetStatus
<1>3. ASSUME NEW j \in Job, Publish(j) PROVE CreateOverInv'
  BY <1>3 DEF Publish, Promise!Submit
<1>4. ASSUME NEW u \in Update, CronImport(u) PROVE CreateOverInv'
  BY <1>4 DEF CronImport, Promise!Submit
<1>5. ASSUME NEW b \in Page, LoadPage(b) PROVE CreateOverInv'
  BY <1>5 DEF LoadPage
<1>6. ASSUME NEW g \in Graph, DropGraphSpace(g) PROVE CreateOverInv'
  BY <1>6 DEF DropGraphSpace, DropSpaceOf
<1>7. ASSUME NEW g \in Graph, DropGraphRow(g) PROVE CreateOverInv'
  BY <1>7 DEF DropGraphRow, SetStatus
<1>8. ASSUME NEW g \in Graph, DropListed(g) PROVE CreateOverInv'
  BY <1>8 DEF DropListed, DropSpaceOf
<1>9. ASSUME DropGroupRow PROVE CreateOverInv'
  BY <1>9 DEF DropGroupRow
<1>10. ASSUME NEW j \in Job, BeginHandler(j) PROVE CreateOverInv'
  BY <1>10, Begins DEF BeginHandler, Promise!Begin
<1>11. ASSUME NEW g \in Graph, NEW p \in Place, CreateReadsGroup(g, p)
      PROVE  CreateOverInv'
  BY <1>11, Goes, Returns DEF CreateReadsGroup, Step
<1>12. ASSUME NEW g \in Graph, NEW p \in Place, CreateSpace(g, p) PROVE CreateOverInv'
  BY <1>12, Goes, Returns DEF CreateSpace, Step
<1>13. ASSUME NEW g \in Graph, NEW p \in Place, CreateMarksOK(g, p)
      PROVE  CreateOverInv'
  BY <1>13, Returns DEF CreateMarksOK, SetStatus
<1>14. ASSUME NEW u \in Update, NEW p \in Place, UpdateDefers(u, p)
      PROVE  CreateOverInv'
  BY <1>14, Returns DEF UpdateDefers, SetStatus
<1>15. ASSUME RestartConsumer PROVE CreateOverInv'
  BY <1>15 DEF RestartConsumer, Promise!Restart
<1>16. ASSUME JobMove PROVE CreateOverInv'
  BY <1>16, JobMoves, CreateOverStays
<1>17. CASE UNCHANGED <<row, drop, page, call, by, phase, space, restarts>>
  BY <1>17
<1> QED
  BY <1>1, <1>2, <1>3, <1>4, <1>5, <1>6, <1>7, <1>8, <1>9, <1>10, <1>11, <1>12,
     <1>13, <1>14, <1>15, <1>16, <1>17
  DEF Next, vars, CreateGraph, UpdateGraph, JobMove, UpdateReadsGroup, LoadBatch,
      LoadEnds, ListGraphs

LEMMA DeletedLeavesNoSpaceStep == IInv /\ [Next]_vars => DeletedLeavesNoSpace'
<1> SUFFICES ASSUME IInv, [Next]_vars PROVE DeletedLeavesNoSpace'
  OBVIOUS
<1> TypeOK
  BY DEF IInv
<1> USE GraphLifecycleAssumption
    DEF IInv, TypeOK, HandlerInv, HandlerOf, RunsInv, CreateOverInv,
        DeletedLeavesNoSpace, Believed, Imported, Job, Place, Live, dataVars, callVars, taskVars,
        jobVars, dropVars
<1>1. ASSUME NEW g \in Graph, InsertGraph(g) PROVE DeletedLeavesNoSpace'
  BY <1>1 DEF InsertGraph, Stored
<1>2. ASSUME NEW u \in Update, NEW b \in Page, MarkUpdate(u, b)
      PROVE  DeletedLeavesNoSpace'
  BY <1>2 DEF MarkUpdate, Sends, Stored, SetStatus
<1>3. ASSUME NEW u \in Update, CronImport(u) PROVE DeletedLeavesNoSpace'
  BY <1>3 DEF CronImport, Promise!Submit
<1>4. ASSUME NEW g \in Graph, DropGraphSpace(g) PROVE DeletedLeavesNoSpace'
  BY <1>4 DEF DropGraphSpace, DropSpaceOf
<1>5. ASSUME NEW g \in Graph, DropGraphRow(g) PROVE DeletedLeavesNoSpace'
  BY <1>5 DEF DropGraphRow, SetStatus
<1>6. ASSUME NEW g \in Graph, DropListed(g) PROVE DeletedLeavesNoSpace'
  BY <1>6 DEF DropListed, DropSpaceOf
<1>7. ASSUME DropGroupRow PROVE DeletedLeavesNoSpace'
  BY <1>7 DEF DropGroupRow
<1>8. ASSUME NEW g \in Graph, NEW p \in Place, CreateSpace(g, p)
      PROVE  DeletedLeavesNoSpace'
  BY <1>8, Goes, Returns DEF CreateSpace, Step
<1>9. ASSUME NEW g \in Graph, NEW p \in Place, CreateMarksOK(g, p)
      PROVE  DeletedLeavesNoSpace'
  BY <1>9, Returns DEF CreateMarksOK, SetStatus
<1>10. ASSUME NEW u \in Update, NEW p \in Place, UpdateDefers(u, p)
      PROVE  DeletedLeavesNoSpace'
  BY <1>10, Returns DEF UpdateDefers, SetStatus
<1>11. ASSUME RestartConsumer PROVE DeletedLeavesNoSpace'
  BY <1>11 DEF RestartConsumer, Promise!Restart
<1>12. ASSUME JobMove PROVE DeletedLeavesNoSpace'
  BY <1>12, JobMoves
<1>13. CASE UNCHANGED <<row, space, restarts, by>>
  BY <1>13
<1> QED
  BY <1>1, <1>2, <1>3, <1>4, <1>5, <1>6, <1>7, <1>8, <1>9, <1>10, <1>11, <1>12,
     <1>13
  DEF Next, vars, CreateGraph, UpdateGraph, JobMove, HandlerReturns, Promise!Submit, Promise!Begin, Promise!Return, Promise!LeftReturns,
      Publish, LoadPage, BeginHandler, CreateReadsGroup, UpdateReadsGroup,
      LoadBatch, LoadEnds, ListGraphs

LEMMA LockInvStep == IInv /\ [Next]_vars => LockInv'
<1> SUFFICES ASSUME IInv, [Next]_vars PROVE LockInv'
  OBVIOUS
<1> TypeOK
  BY DEF IInv
<1> USE GraphLifecycleAssumption
    DEF IInv, TypeOK, HandlerInv, HandlerOf, RunsInv, LockInv, Pending, Busy,
        Unanswered, Unlocked, Imported, SinglePage, Job, Place, Live, dataVars, callVars, taskVars,
        jobVars, dropVars
<1>1. ASSUME NEW g \in Graph, InsertGraph(g) PROVE LockInv'
  BY <1>1 DEF InsertGraph, Stored
<1>2. ASSUME NEW u \in Update, NEW b \in Page, MarkUpdate(u, b) PROVE LockInv'
  BY <1>2 DEF MarkUpdate, Sends, Stored, SetStatus
<1>3. ASSUME NEW j \in Job, Publish(j) PROVE LockInv'
  BY <1>3 DEF Publish, Promise!Submit
<1>4. ASSUME NEW u \in Update, CronImport(u) PROVE LockInv'
  BY <1>4 DEF CronImport, Promise!Submit
<1>5. ASSUME NEW b \in Page, LoadPage(b) PROVE LockInv'
  BY <1>5 DEF LoadPage
<1>6. ASSUME NEW g \in Graph, DropGraphRow(g) PROVE LockInv'
  BY <1>6 DEF DropGraphRow, SetStatus
<1>7. ASSUME DropGroupRow PROVE LockInv'
  BY <1>7 DEF DropGroupRow
<1>8. ASSUME NEW j \in Job, BeginHandler(j) PROVE LockInv'
  BY <1>8 DEF BeginHandler, Promise!Begin
<1>9. ASSUME NEW g \in Graph, NEW p \in Place, CreateReadsGroup(g, p) PROVE LockInv'
  <2>1. g \in Job /\ (HandlerReturns(g, p) \/
          \E s \in Step \ {"mark"} : Goto(g, p, s) /\ UNCHANGED jobVars)
    BY <1>9 DEF CreateReadsGroup, Step, Job
  <2> QED
    BY <1>9, <2>1, HandlerMoves, LockStays DEF CreateReadsGroup
<1>10. ASSUME NEW g \in Graph, NEW p \in Place, CreateSpace(g, p) PROVE LockInv'
  <2>1. g \in Job
    BY DEF Job
  <2>2. CASE HandlerReturns(g, p)
    BY <1>10, <2>1, <2>2, HandlerMoves, LockStays DEF CreateSpace
  <2>3. CASE ~ HandlerReturns(g, p)
    BY <1>10, <2>3 DEF CreateSpace
  <2> QED
    BY <2>2, <2>3
<1>11. ASSUME NEW g \in Graph, NEW p \in Place, CreateMarksOK(g, p) PROVE LockInv'
  \* The status becomes OK before any page has shown the graph online.
  <2>1. restarts = 0 /\ ~ Imported(g) => \A u \in Update : Target[u] = g => call[u] = "none"
    BY <1>11, Returns DEF CreateMarksOK, CreateOverInv, Believed
  <2>2. /\ g \in Job /\ g \notin Update /\ restarts' = restarts
        /\ \A u \in Update : phase'[u] = phase[u]
        /\ page' = page /\ call' = call /\ by' = by /\ eager' = eager
    BY <1>11, Returns DEF CreateMarksOK
  <2>3. \A i \in Graph : row'[i] = row[i] \/ i = g
    BY <1>11 DEF CreateMarksOK, SetStatus
  <2>4. restarts = 0 => \A u \in Update : Target[u] = g /\ Pending(u) => Imported(g)
    BY <2>1
  <2> QED
    BY <2>2, <2>3, <2>4
<1>12. ASSUME NEW u \in Update, NEW p \in Place, UpdateDefers(u, p) PROVE LockInv'
  <2>1. /\ u \in Job /\ restarts' = restarts
        /\ \A v \in Update : v # u => phase'[v] = phase[v]
    BY <1>12, Returns DEF UpdateDefers
  <2>2. restarts = 0 => phase[u] = "running" /\ phase'[u] \in {"returned", "ended"}
    BY <1>12, Returns DEF UpdateDefers
  <2>3. phase[u] # "unsent" /\ phase'[u] # "unsent"
    BY <1>12, Returns DEF UpdateDefers
  <2>4. \A g \in Graph : row'[g] = row[g] \/ g = Target[u]
    BY <1>12 DEF UpdateDefers, SetStatus
  <2> QED
    BY <1>12, <2>1, <2>2, <2>3, <2>4 DEF UpdateDefers
<1>13. ASSUME RestartConsumer PROVE LockInv'
  BY <1>13 DEF RestartConsumer, Promise!Restart
<1>14. ASSUME JobMove PROVE LockInv'
  BY <1>14, JobMoves, LockStays
<1>15. CASE UNCHANGED <<row, page, call, by, eager, phase, restarts>>
  BY <1>15
<1> QED
  BY <1>1, <1>2, <1>3, <1>4, <1>5, <1>6, <1>7, <1>8, <1>9, <1>10, <1>11, <1>12,
     <1>13, <1>14, <1>15
  DEF Next, vars, CreateGraph, UpdateGraph, JobMove, DropGraphSpace, DropListed,
      UpdateReadsGroup, LoadBatch, LoadEnds, ListGraphs

LEMMA RowInvStep == IInv /\ [Next]_vars => RowInv'
<1> SUFFICES ASSUME IInv, [Next]_vars PROVE RowInv'
  OBVIOUS
<1> TypeOK
  BY DEF IInv
<1> USE GraphLifecycleAssumption
    DEF IInv, TypeOK, RowInv, Job, Live, dataVars, callVars, taskVars,
        jobVars, dropVars
<1>1. ASSUME NEW g \in Graph, InsertGraph(g) PROVE RowInv'
  BY <1>1 DEF InsertGraph, Stored
<1>2. ASSUME NEW u \in Update, NEW b \in Page, MarkUpdate(u, b) PROVE RowInv'
  BY <1>2 DEF MarkUpdate, Sends, Stored, SetStatus
<1>3. ASSUME NEW j \in Job, Publish(j) PROVE RowInv'
  BY <1>3 DEF Publish, Promise!Submit
<1>4. ASSUME NEW g \in Graph, DropGraphSpace(g) PROVE RowInv'
  BY <1>4 DEF DropGraphSpace, DropSpaceOf
<1>5. ASSUME NEW g \in Graph, DropGraphRow(g) PROVE RowInv'
  BY <1>5 DEF DropGraphRow, SetStatus
<1>6. ASSUME NEW g \in Graph, DropListed(g) PROVE RowInv'
  BY <1>6 DEF DropListed, DropSpaceOf
<1>7. ASSUME DropGroupRow PROVE RowInv'
  BY <1>7 DEF DropGroupRow
<1>8. ASSUME NEW g \in Graph, NEW p \in Place, CreateSpace(g, p) PROVE RowInv'
  <2>1. g \in Job /\ g \notin Update /\ HandlerOf(g) /\ step[g][p] = "space"
    BY <1>8 DEF CreateSpace, HandlerInv
  <2>2. call[g] # "none"
    BY <2>1 DEF HandlerOf, Place
  <2>3. /\ row' = row /\ call' = call /\ held' = held
        /\ \A i \in Graph : i \in space' => i \in space \/ i = g
    BY <1>8 DEF CreateSpace
  <2> QED
    BY <2>2, <2>3
<1>9. ASSUME NEW g \in Graph, NEW p \in Place, CreateMarksOK(g, p) PROVE RowInv'
  BY <1>9, Returns DEF CreateMarksOK, SetStatus
<1>10. ASSUME NEW u \in Update, NEW p \in Place, LoadBatch(u, p) PROVE RowInv'
  BY <1>10 DEF LoadBatch, InsertBatch
<1>11. ASSUME NEW u \in Update, NEW p \in Place, LoadEnds(u, p) PROVE RowInv'
  BY <1>11 DEF LoadEnds, InsertBatch
<1>12. ASSUME NEW u \in Update, NEW p \in Place, UpdateDefers(u, p) PROVE RowInv'
  BY <1>12, Returns DEF UpdateDefers, SetStatus
<1>13. ASSUME JobMove PROVE RowInv'
  BY <1>13, JobMoves
<1>14. CASE UNCHANGED <<row, call, space, held>>
  BY <1>14
<1> QED
  BY <1>1, <1>2, <1>3, <1>4, <1>5, <1>6, <1>7, <1>8, <1>9, <1>10, <1>11, <1>12,
     <1>13, <1>14
  DEF Next, vars, CreateGraph, UpdateGraph, JobMove, CronImport, LoadPage,
      BeginHandler, CreateReadsGroup, UpdateReadsGroup, RestartConsumer,
      ListGraphs

(* The batches of one more update.                                         *)
LEMMA BatchesAdd ==
  ASSUME NEW U, NEW u, u \notin U, held[u] \in Nat, IsFiniteSet(Batches(U))
  PROVE  /\ IsFiniteSet(Batches(U \cup {u}))
         /\ Cardinality(Batches(U \cup {u})) = Cardinality(Batches(U)) + held[u]
<1>1. PICK n \in Nat : n = held[u]
  OBVIOUS
<1>2. PICK B : B = {u} \X (1 .. n)
  OBVIOUS
<1>3. Batches(U \cup {u}) = Batches(U) \cup B
  BY <1>1, <1>2 DEF Batches
<1>4. Batches(U) \cap B = {}
  BY <1>1, <1>2 DEF Batches
<1>5. IsFiniteSet(1 .. n) /\ Cardinality(1 .. n) = n
  BY FS_Interval
<1>6. IsFiniteSet({u}) /\ Cardinality({u}) = 1
  BY FS_Singleton
<1>7. /\ IsFiniteSet({u} \X (1 .. n))
      /\ Cardinality({u} \X (1 .. n)) = Cardinality({u}) * Cardinality(1 .. n)
  BY <1>5, <1>6, FS_Product
<1>8. IsFiniteSet(B) /\ Cardinality(B) = n
  <2>1. Cardinality({u}) * Cardinality(1 .. n) = n
    BY <1>5, <1>6
  <2> QED
    BY <1>2, <1>7, <2>1
<1>9. PICK m \in Nat : m = Cardinality(Batches(U))
  BY FS_CardinalityType
<1>10. /\ IsFiniteSet(Batches(U) \cup B)
       /\ Cardinality(Batches(U) \cup B) =
            Cardinality(Batches(U)) + Cardinality(B) - Cardinality(Batches(U) \cap B)
  BY <1>8, FS_Union
<1>11. Cardinality(Batches(U) \cap B) = 0
  BY <1>4, FS_EmptySet
<1>12. Cardinality(Batches(U) \cup B) = m + n - 0
  BY <1>8, <1>9, <1>10, <1>11, Zenon
<1>13. m + n - 0 = m + n
  OBVIOUS
<1> QED
  BY <1>1, <1>3, <1>9, <1>10, <1>12, <1>13, Zenon

(* CountInv for one graph.                                                 *)
CountOf(g) ==
  /\ row[g] \notin {"deleted", "cascaded"} =>
       IsFiniteSet(Batches(Finished(g))) /\ num[g] = Cardinality(Batches(Finished(g)))
  /\ \A u \in Update : Target[u] = g =>
       /\ phase[u] \in {"unsent", "waiting"} => held[u] = 0
       /\ phase[u] = "running" => held[u] = loaded[u][Main]

(* Nothing changes what is finished, or what it has in the space.          *)
LEMMA CountStays ==
  ASSUME NEW g \in Graph, CountOf(g), num'[g] = num[g],
         row'[g] \notin {"deleted", "cascaded"} => row[g] \notin {"deleted", "cascaded"},
         \A u \in Update : Target[u] = g =>
           /\ phase[u] \in {"returned", "ended"} <=> phase'[u] \in {"returned", "ended"}
           /\ phase[u] \in {"returned", "ended"} => held'[u] = held[u]
           /\ phase'[u] \in {"unsent", "waiting"} => held'[u] = 0
           /\ phase'[u] = "running" => held'[u] = loaded'[u][Main]
  PROVE  CountOf(g)'
<1>1. Finished(g)' = Finished(g)
  BY DEF Finished
<1>2. \A u \in Finished(g) : held'[u] = held[u]
  BY DEF Finished
<1>3. Batches(Finished(g))' = Batches(Finished(g))
  BY <1>1, <1>2 DEF Batches
<1> QED
  BY <1>3 DEF CountOf

(* Without a restart, every handler is at the place of its delivery.       *)
LEMMA AtMain ==
  ASSUME IInv, restarts = 0, NEW j \in Job, NEW p \in Place, step[j][p] # "none"
  PROVE  p = Main /\ phase[j] = "running"
BY DEF IInv, HandlerInv, HandlerOf, RunsInv, Place

LEMMA DeferredCount ==
  ASSUME IInv, restarts = 0, NEW u \in Update, UpdateDefers(u, Main),
         NEW g \in Graph \ (hit' \cup dropped'), CountOf(g)
  PROVE  CountOf(g)'
<1>1. /\ phase[u] = "running" /\ held' = held /\ loaded' = loaded
      /\ \E p \in {"returned", "ended"} : phase' = [phase EXCEPT ![u] = p]
      /\ phase \in [Job -> Promise!Phase] /\ Target[u] \in Graph
      /\ row \in [Graph -> Live \cup Gone] /\ num \in [Graph -> Nat]
  BY GraphLifecycleAssumption DEF UpdateDefers, HandlerReturns, Promise!Return, IInv, TypeOK
<1>2. phase'[u] \in {"returned", "ended"} /\ \A v \in Update : v # u => phase'[v] = phase[v]
  BY <1>1 DEF Job
<1>3. PICK n \in Nat : n = loaded[u][Main]
  BY DEF IInv, TypeOK, Counts, Place
<1>4. CASE Target[u] # g
  <2>1. row'[g] = row[g] /\ num'[g] = num[g]
    BY <1>1, <1>4 DEF UpdateDefers, SetStatus
  <2> QED
    BY <1>1, <1>2, <1>4, <2>1, CountStays DEF CountOf
<1>5. CASE Target[u] = g
  <2>1. /\ row' = IF row[g] \in Live THEN [row EXCEPT ![g] = "OK"] ELSE row
        /\ num' = IF row[g] \in Live THEN [num EXCEPT ![g] = @ + n] ELSE num
    BY <1>3, <1>5 DEF UpdateDefers, SetStatus
  <2>2. ASSUME row'[g] \notin {"deleted", "cascaded"}
        PROVE  /\ IsFiniteSet(Batches(Finished(g))')
               /\ num'[g] = Cardinality(Batches(Finished(g))')
    <3>1. row[g] \in Live \cup {"none"}
      BY <1>1, <2>1, <2>2 DEF Gone
    <3>2. /\ IsFiniteSet(Batches(Finished(g)))
          /\ num[g] = Cardinality(Batches(Finished(g)))
      BY <3>1 DEF CountOf, Live
    <3>3. held[u] \in Nat /\ held[u] = n
      BY <1>1, <1>3, <1>5 DEF CountOf, IInv, TypeOK
    <3>4. row[g] = "none" => n = 0
      BY <1>5, <3>3 DEF IInv, RowInv
    <3>5. num'[g] = num[g] + n
      BY <1>1, <2>1, <3>1, <3>4 DEF Live
    <3>6. u \notin Finished(g) /\ Finished(g)' = Finished(g) \cup {u}
      BY <1>1, <1>2, <1>5 DEF Finished
    <3>7. Batches(Finished(g))' = Batches(Finished(g) \cup {u})
      BY <1>1, <3>6 DEF Batches
    <3> QED
      BY <3>2, <3>3, <3>5, <3>6, <3>7, BatchesAdd
  <2>3. \A v \in Update : Target[v] = g =>
          /\ phase'[v] \in {"unsent", "waiting"} => held'[v] = 0
          /\ phase'[v] = "running" => held'[v] = loaded'[v][Main]
    BY <1>1, <1>2 DEF CountOf
  <2> QED
    BY <2>2, <2>3 DEF CountOf
<1> QED
  BY <1>4, <1>5

LEMMA CountInvStep == IInv /\ [Next]_vars => CountInv'
<1> SUFFICES ASSUME IInv, [Next]_vars, restarts' = 0,
                    NEW g \in Graph, g \notin hit' \cup dropped'
             PROVE  CountOf(g)'
  BY DEF CountInv, CountOf
<1>1. /\ restarts = restarts' \/ RestartConsumer
      /\ hit \subseteq hit' /\ dropped \subseteq dropped'
  BY DEF Next, vars, dataVars, callVars, taskVars, jobVars, dropVars, InsertGraph, Stored,
    MarkUpdate, Publish, LoadPage, DropGraphSpace, DropSpaceOf, DropGraphRow, ListGraphs,
    DropListed, DropGroupRow, BeginHandler, CreateGraph, CreateReadsGroup, CreateSpace,
    CreateMarksOK, UpdateGraph, UpdateReadsGroup, LoadBatch, LoadEnds, UpdateDefers,
    SettleJob, CrashHandler, RestartConsumer, PushBack, ConsumerEnds, CronImport,
    HandlerReturns, Promise!Submit, Promise!Begin, Promise!Return,
    Promise!LeftReturns, Promise!Settle, Promise!PushBack, Promise!Lose
<1>2. restarts = 0
  BY <1>1 DEF RestartConsumer, Promise!Restart, IInv, TypeOK
<1>3. CountOf(g)
  BY <1>1, <1>2 DEF IInv, CountInv, CountOf
<1>4. /\ Target \in [Update -> Graph] /\ Graph \cap Update = {}
      /\ row \in [Graph -> Live \cup Gone] /\ phase \in [Job -> Promise!Phase]
      /\ held \in [Update -> 0 .. MaxBatch] /\ loaded \in [Update -> [Place -> 0 .. MaxBatch]]
      /\ Main \in Place
  BY GraphLifecycleAssumption DEF IInv, TypeOK, Counts, Place
<1> USE DEF dataVars, callVars, taskVars, jobVars, dropVars, Job
<1>5. ASSUME NEW i \in Graph, InsertGraph(i) PROVE CountOf(g)'
  BY <1>3, <1>4, <1>5, CountStays DEF InsertGraph, CountOf, IInv, RowInv
<1>6. ASSUME NEW u \in Update, NEW b \in Page, MarkUpdate(u, b) PROVE CountOf(g)'
  BY <1>3, <1>4, <1>6, CountStays DEF MarkUpdate, Sends, SetStatus, CountOf, Live
<1>7. ASSUME NEW j \in Job, Publish(j) PROVE CountOf(g)'
  BY <1>3, <1>4, <1>7, CountStays DEF Publish, Promise!Submit, CountOf
<1>8. ASSUME NEW i \in Graph, DropGraphSpace(i) \/ DropListed(i) PROVE CountOf(g)'
  <2>1. \A u \in Update : Target[u] = g => held'[u] = held[u]
    BY <1>4, <1>8 DEF DropGraphSpace, DropListed, DropSpaceOf
  <2>2. row' = row /\ num' = num /\ phase' = phase /\ loaded' = loaded
    BY <1>8 DEF DropGraphSpace, DropListed
  <2> QED
    BY <1>3, <2>1, <2>2, CountStays DEF CountOf
<1>9. ASSUME NEW i \in Graph, DropGraphRow(i) PROVE CountOf(g)'
  BY <1>3, <1>4, <1>9, CountStays DEF DropGraphRow, SetStatus, CountOf, Live
<1>10. ASSUME DropGroupRow PROVE CountOf(g)'
  BY <1>3, <1>4, <1>10, CountStays DEF DropGroupRow, CountOf
<1>11. ASSUME NEW j \in Job, BeginHandler(j) PROVE CountOf(g)'
  BY <1>3, <1>4, <1>11, CountStays DEF BeginHandler, Promise!Begin, CountOf
<1>12. ASSUME NEW i \in Graph, NEW p \in Place, CreateReadsGroup(i, p) \/ CreateSpace(i, p)
       PROVE  CountOf(g)'
  BY <1>3, <1>4, <1>12, CountStays
  DEF CreateReadsGroup, CreateSpace, HandlerReturns, Promise!Return, Promise!LeftReturns,
      CountOf
<1>13. ASSUME NEW i \in Graph, NEW p \in Place, CreateMarksOK(i, p) PROVE CountOf(g)'
  BY <1>3, <1>4, <1>13, CountStays
  DEF CreateMarksOK, SetStatus, HandlerReturns, Promise!Return, Promise!LeftReturns,
      CountOf, Live
<1>14. ASSUME NEW u \in Update, NEW p \in Place, LoadBatch(u, p) PROVE CountOf(g)'
  <2>1. p = Main /\ phase[u] = "running"
    BY <1>2, <1>14, AtMain DEF LoadBatch
  <2>2. phase' = phase /\ row' = row /\ num' = num
    BY <1>14 DEF LoadBatch
  <2>3. Target[u] = g => held[u] = loaded[u][Main]
    BY <1>3, <2>1 DEF CountOf
  <2>4. /\ Target[u] = g => held'[u] = loaded'[u][Main]
        /\ \A v \in Update : v # u => held'[v] = held[v] /\ loaded'[v] = loaded[v]
    BY <1>4, <1>14, <2>1, <2>3 DEF LoadBatch, InsertBatch
  <2> QED
    BY <1>3, <1>4, <2>1, <2>2, <2>4, CountStays DEF CountOf
<1>15. ASSUME NEW u \in Update, NEW p \in Place, LoadEnds(u, p) PROVE CountOf(g)'
  <2>1. phase' = phase /\ row' = row /\ num' = num /\ loaded' = loaded
    BY <1>15 DEF LoadEnds
  <2>2. \A v \in Update : Target[v] = g => held'[v] = held[v]
    BY <1>4, <1>15 DEF LoadEnds, InsertBatch
  <2> QED
    BY <1>3, <2>1, <2>2, CountStays DEF CountOf
<1>16. ASSUME NEW u \in Update, NEW p \in Place, UpdateDefers(u, p) PROVE CountOf(g)'
  <2>1. p = Main
    BY <1>2, <1>16, AtMain DEF UpdateDefers
  <2> QED
    BY <1>2, <1>3, <1>16, <2>1, DeferredCount
<1>17. ASSUME NEW j \in Job, SettleJob(j) PROVE CountOf(g)'
  BY <1>3, <1>4, <1>17, CountStays DEF SettleJob, Promise!Settle, CountOf
<1>18. ASSUME NEW j \in Job, CrashHandler(j) PROVE CountOf(g)'
  <2>1. \A u \in Update : Target[u] = g => phase'[u] = phase[u]
    BY <1>4, <1>18 DEF CrashHandler, Promise!Lose, GraphOf
  <2>2. row' = row /\ num' = num /\ loaded' = loaded /\ held' = held
    BY <1>18 DEF CrashHandler
  <2> QED
    BY <1>3, <2>1, <2>2, CountStays DEF CountOf
<1>19. ASSUME RestartConsumer PROVE CountOf(g)'
  BY <1>2, <1>19 DEF RestartConsumer, Promise!Restart
<1>20. ASSUME NEW j \in Job, NEW h \in Host, PushBack(j, h) PROVE CountOf(g)'
  <2>1. runs[j] <= restarts /\ runs[j] > 0 /\ runs[j] \in Nat
    BY <1>20 DEF PushBack, Promise!PushBack, IInv, RunsInv, TypeOK
  <2> QED
    BY <1>2, <2>1
<1>21. ASSUME NEW h \in Host, ConsumerEnds(h) PROVE CountOf(g)'
  BY <1>2, <1>21 DEF ConsumerEnds, IInv, RunsInv
<1>22. ASSUME NEW u \in Update, CronImport(u) PROVE CountOf(g)'
  BY <1>3, <1>4, <1>22, CountStays DEF CronImport, Promise!Submit, CountOf
<1>23. CASE UNCHANGED <<row, num, held, phase, loaded>>
  BY <1>3, <1>23, CountStays DEF CountOf
<1> QED
  BY <1>5, <1>6, <1>7, <1>8, <1>9, <1>10, <1>11, <1>12, <1>13, <1>14, <1>15, <1>16,
     <1>17, <1>18, <1>19, <1>23, <1>20, <1>21, <1>22
  DEF Next, vars, CreateGraph, UpdateGraph, UpdateReadsGroup, LoadPage, ListGraphs

LEMMA IInvInit == Init => IInv
<1> SUFFICES ASSUME Init PROVE IInv
  OBVIOUS
<1>1. /\ TypeOK /\ HandlerInv /\ RunsInv /\ BeliefInv /\ CreateOverInv /\ DeletedLeavesNoSpace
      /\ LockInv /\ RowInv
  BY TypeOKInit, GraphLifecycleAssumption
  DEF Init, HandlerInv, HandlerOf, RunsInv, BeliefInv, CreateOverInv, DeletedLeavesNoSpace,
      Believed, Imported, LockInv, RowInv, Pending, Busy, Job, Place,
      Promise!PromiseInit
<1>2. \A u \in Update : phase[u] = "unsent" /\ held[u] = 0
  BY DEF Init, Promise!PromiseInit, Job
<1>3. \A g : Finished(g) = {}
  BY <1>2 DEF Finished
<1>4. \A g : Batches(Finished(g)) = {}
  BY <1>3 DEF Batches
<1>5. IsFiniteSet({}) /\ Cardinality({}) = 0
  BY FS_EmptySet
<1>6. CountInv
  BY <1>2, <1>4, <1>5 DEF CountInv, Init
<1> QED
  BY <1>1, <1>6 DEF IInv

LEMMA IInvStep == IInv /\ [Next]_vars => IInv'
BY TypeOKStep, HandlerInvStep, BeliefInvStep, CreateOverInvStep,
   RunsInvStep, DeletedLeavesNoSpaceStep, LockInvStep, RowInvStep, CountInvStep
DEF IInv

\* The inductive invariant holds of every behaviour.
THEOREM LifecycleInvariant == Spec => []IInv
BY IInvInit, IInvStep, PTL DEF Spec

\* Every variable keeps its type.
THEOREM LifecycleTypes == Spec => []TypeOK
<1>1. IInv => TypeOK
  BY DEF IInv
<1> QED
  BY <1>1, LifecycleInvariant, PTL

\* A graph that reads created has its space unless some call dropped it or the
\* cron task imported into it, for any number of graphs, updates, pages, restarts
\* and handlers that were left behind.
THEOREM CreatedGraphsHaveSpace == Spec => []CreatedHasSpace
<1>1. IInv => CreatedHasSpace
  BY DEF IInv, BeliefInv, Believed, CreatedHasSpace
<1> QED
  BY <1>1, LifecycleInvariant, PTL

\* DropGraph leaves no space behind unless a consumer was restarted or the cron
\* task imported into the graph.
THEOREM DeletedGraphsLeaveNoSpace == Spec => []DeletedLeavesNoSpace
<1>1. IInv => DeletedLeavesNoSpace
  BY DEF IInv
<1> QED
  BY <1>1, LifecycleInvariant, PTL

\* While there is one page and no restart, a graph that reads online has no
\* update waiting or running, whatever the graphs, updates and handlers are, if
\* none was sent before the one before it was answered and none is a cron import.
THEOREM OnlineGraphsAreIdle == Spec => []OnlineMeansIdle
<1>1. IInv => OnlineMeansIdle
  BY DEF IInv, LockInv, Pending, Busy, OnlineMeansIdle
<1> QED
  BY <1>1, LifecycleInvariant, PTL

\* While there is one page and no restart, no two updates of a graph run at once,
\* under the same two conditions.
THEOREM UpdatesOfAGraphExclude == Spec => []OneUpdateAtATime
<1>1. IInv => OneUpdateAtATime
  BY DEF IInv, LockInv, Pending, Busy, OneUpdateAtATime
<1> QED
  BY <1>1, LifecycleInvariant, PTL

\* While no consumer is restarted, and no call or handler of a graph is cut off,
\* the counters of an online graph without updates at work are what its space
\* holds, for any number of updates, pages and batches, also of updates that
\* overlap or end with an error.
THEOREM CountersAreInSpace == Spec => []CountersMatchSpace
<1>1. IInv => CountersMatchSpace
  <2> SUFFICES ASSUME IInv, NEW g \in Graph, row[g] = "OK", restarts = 0,
                      g \notin hit \cup dropped,
                      \A u \in {v \in Update : Target[v] = g} : ~ Busy(u)
               PROVE  num[g] = Cardinality(Batches({u \in Update : Target[u] = g}))
    BY DEF CountersMatchSpace
  <2>1. num[g] = Cardinality(Batches(Finished(g)))
    BY DEF IInv, CountInv
  <2>2. \A u \in Update : Target[u] = g /\ u \notin Finished(g) => held[u] = 0
    BY DEF IInv, CountInv, TypeOK, Finished, Busy, Promise!Phase, Job
  <2>3. \A u \in Update : held[u] = 0 => {u} \X (1 .. held[u]) = {}
    OBVIOUS
  <2>4. Batches({u \in Update : Target[u] = g}) = Batches(Finished(g))
    <3>1. Finished(g) \subseteq {u \in Update : Target[u] = g}
      BY DEF Finished
    <3> QED
      BY <2>2, <2>3, <3>1 DEF Batches
  <2> QED
    BY <2>1, <2>4
<1> QED
  BY <1>1, LifecycleInvariant, PTL
-----------------------------------------------------------------------------
(* The handlers run under TaskPromise: no action moves a job in a way that *)
(* the task pipeline, which keeps the same promise (TaskQueueProofs),      *)
(* would not.                                                              *)

LEMMA TasksMoveAsPromised ==
  [Next]_vars => [Promise!PromiseNext]_jobVars
<1> SUFFICES ASSUME [Next]_vars, ~ UNCHANGED jobVars
             PROVE  Promise!PromiseNext
  OBVIOUS
<1> USE DEF dataVars, callVars, taskVars, jobVars, dropVars
<1>1. ASSUME NEW j \in Job, Publish(j) PROVE Promise!PromiseNext
  BY <1>1 DEF Publish, Promise!PromiseNext
<1>2. ASSUME NEW j \in Job, BeginHandler(j) PROVE Promise!PromiseNext
  BY <1>2 DEF BeginHandler, Promise!PromiseNext
<1>3. ASSUME NEW j \in Job, NEW p \in Place, HandlerReturns(j, p)
      PROVE  Promise!PromiseNext
  BY <1>3 DEF HandlerReturns, Promise!PromiseNext, Place
<1>4. ASSUME NEW g \in Graph, CreateGraph(g) PROVE Promise!PromiseNext
  BY <1>3, <1>4 DEF CreateGraph, CreateReadsGroup, CreateSpace, CreateMarksOK, Job
<1>5. ASSUME NEW u \in Update, UpdateGraph(u) PROVE Promise!PromiseNext
  BY <1>3, <1>5 DEF UpdateGraph, UpdateReadsGroup, LoadBatch, LoadEnds, UpdateDefers, Job
<1>6. ASSUME NEW j \in Job, SettleJob(j) PROVE Promise!PromiseNext
  BY <1>6 DEF SettleJob, Promise!PromiseNext
<1>7. ASSUME NEW j \in Job, CrashHandler(j) PROVE Promise!PromiseNext
  <2>1. {j} \in SUBSET Job /\ {} \in SUBSET Host /\ Promise!Lose({j}, {})
    BY <1>7 DEF CrashHandler
  <2> QED
    BY <2>1 DEF Promise!PromiseNext
<1>8. ASSUME RestartConsumer PROVE Promise!PromiseNext
  BY <1>8 DEF RestartConsumer, Promise!PromiseNext
<1>9. ASSUME NEW j \in Job, NEW h \in Host, PushBack(j, h) PROVE Promise!PromiseNext
  BY <1>9 DEF PushBack, Promise!PromiseNext
<1>10. ASSUME NEW h \in Host, ConsumerEnds(h) PROVE Promise!PromiseNext
  <2>1. {} \in SUBSET Job /\ {h} \in SUBSET Host /\ Promise!Lose({}, {h})
    BY <1>10 DEF ConsumerEnds
  <2> QED
    BY <2>1 DEF Promise!PromiseNext
<1>11. ASSUME NEW u \in Update, CronImport(u) PROVE Promise!PromiseNext
  BY <1>11 DEF CronImport, Promise!PromiseNext, Job
<1>12. ASSUME NEW g \in Graph, InsertGraph(g) PROVE FALSE
  BY <1>12 DEF InsertGraph
<1>13. ASSUME NEW u \in Update, NEW b \in Page, MarkUpdate(u, b) PROVE FALSE
  BY <1>13 DEF MarkUpdate
<1>14. ASSUME NEW g \in Graph, DropGraphSpace(g) \/ DropGraphRow(g) \/ DropListed(g)
       PROVE  FALSE
  BY <1>14 DEF DropGraphSpace, DropGraphRow, DropListed
<1>15. ASSUME ListGraphs \/ DropGroupRow PROVE FALSE
  BY <1>15 DEF ListGraphs, DropGroupRow
<1>16. ASSUME NEW b \in Page, LoadPage(b) PROVE FALSE
  BY <1>16 DEF LoadPage
<1>17. ~ UNCHANGED vars
  BY DEF vars
<1> QED
  BY <1>1, <1>2, <1>4, <1>5, <1>6, <1>7, <1>8, <1>12, <1>13, <1>14, <1>15,
     <1>16, <1>17, <1>9, <1>10, <1>11
  DEF Next

\* Creating, updating and dropping graphs asks for nothing but what a published
\* task is promised: a handler once at a time, and again only after a graceful
\* restart.
THEOREM LifecycleKeepsPromise == Spec => Promise!PromiseSpec
<1>1. Init => Promise!PromiseInit
  BY DEF Init
<1> QED
  BY <1>1, TasksMoveAsPromised, PTL DEF Spec, Promise!PromiseSpec, Promise!promiseVars, jobVars
=============================================================================
