-------------------------- MODULE WorkerPoolProofs --------------------------
(***************************************************************************)
(* Theorems about WorkerPool, for every number of callers, goroutines and  *)
(* jobs, every capacity and every script.                                  *)
(***************************************************************************)
EXTENDS WorkerPool, DataFacts, FiniteSetTheorems, TLAPS

USE WorkersAssumption, QueueSizeAssumption, FiniteAssumption, ScriptsAssumption,
    NoJobAssumption

-----------------------------------------------------------------------------
(* Types *)

LEMMA TypeInit == Init => TypeOK
<1> SUFFICES ASSUME Init PROVE TypeOK OBVIOUS
<1>1. PoolType
  <2>1. jobQueue \in Seq(Jobs) /\ resultQueue \in Seq(Results) BY DEF Init
  <2>2. Len(jobQueue) <= QueueSize /\ Len(resultQueue) <= QueueSize BY DEF Init
  <2>3. /\ running \in BOOLEAN /\ ctxDone \in BOOLEAN
        /\ jobsClosed \in BOOLEAN /\ resultsClosed \in BOOLEAN
    BY DEF Init
  <2>4. /\ wg \in Int /\ ActiveWorkers \in Int
        /\ JobsProcessed \in Nat /\ JobsFailed \in Nat
    BY DEF Init
  <2> QED BY <2>1, <2>2, <2>3, <2>4 DEF PoolType
<1>2. WorkerType BY DEF Init, WorkerType, WorkerPC, Results
<1>3. CallerType BY DEF Init, CallerType, CallerPC
<1>4. HistoryType BY DEF Init, HistoryType, Panics
<1>5. reader \in BOOLEAN BY CollectAssumption DEF Init
<1> QED BY <1>1, <1>2, <1>3, <1>4, <1>5 DEF TypeOK

\* A caller that moves inside a call.
LEMMA GotoType ==
  ASSUME CallerType, NEW c \in Callers, NEW pc \in CallerPC, Goto(c, pc),
         todo[c] # <<>>,
         cjob' \in [Callers -> Jobs \cup {NoJob}], left' \in [Callers -> Nat],
         \A d \in Callers : d # c => cjob'[d] = cjob[d],
         pc = "send" => cjob'[c] \in Jobs
  PROVE  CallerType'
BY DEF CallerType, Goto

\* A caller whose call returns.
LEMMA ReturnType ==
  ASSUME CallerType, NEW c \in Callers, Return(c), todo[c] # <<>>,
         cjob' \in [Callers -> Jobs \cup {NoJob}], left' \in [Callers -> Nat],
         \A d \in Callers : d # c => cjob'[d] = cjob[d]
  PROVE  CallerType'
<1>1. todo' \in [Callers -> Seq(Methods)] BY ReceiveFacts DEF CallerType, Return
<1>2. cpc' \in [Callers -> CallerPC] BY DEF CallerType, Return, CallerPC
<1> QED BY <1>1, <1>2 DEF CallerType, Return

LEMMA TypeNext == TypeOK /\ [Next]_vars => TypeOK'
<1> SUFFICES ASSUME TypeOK, [Next]_vars PROVE TypeOK' OBVIOUS
<1> USE DEF TypeOK, pool, flags, jobCh, resCh, counts, metrics, workers, callers, history
<1>0. reader' \in BOOLEAN BY DEF Next, WorkerStep, CallerStep, Collect, vars
<1> USE <1>0
<1>1. ASSUME NEW c \in Callers, StartLoad(c) PROVE TypeOK'
  <2>1. CallerType' BY <1>1, GotoType, ReturnType DEF StartLoad, CallerType, Calls, CallerPC
  <2> QED BY <1>1, <2>1 DEF StartLoad, PoolType, WorkerType, HistoryType
<1>2. ASSUME NEW c \in Callers, StartStore(c) PROVE TypeOK'
  <2>1. PoolType' BY <1>2 DEF StartStore, PoolType
  <2>2. CallerType' BY <1>2, GotoType DEF StartStore, CallerType, Calls, CallerPC
  <2> QED BY <1>2, <2>1, <2>2 DEF StartStore, WorkerType, HistoryType
<1>3. ASSUME NEW c \in Callers, NEW g \in Goroutines, StartSpawn(c, g) PROVE TypeOK'
  <2>1. PoolType' BY <1>3 DEF StartSpawn, PoolType
  <2>2. WorkerType' BY <1>3 DEF StartSpawn, WorkerType, Work, WorkerPC
  <2>3. CallerType' BY <1>3 DEF StartSpawn, CallerType, Calls, CallerPC
  <2> QED BY <1>3, <2>1, <2>2, <2>3 DEF StartSpawn, HistoryType
<1>4. ASSUME NEW c \in Callers, StartReturn(c) PROVE TypeOK'
  <2>1. CallerType' BY <1>4, ReturnType DEF StartReturn, CallerType, Calls, CallerPC
  <2> QED BY <1>4, <2>1 DEF StartReturn, PoolType, WorkerType, HistoryType
<1>5. ASSUME NEW c \in Callers, NEW j \in Jobs, SubmitLoad(c, j) PROVE TypeOK'
  <2>1. CallerType' BY <1>5, GotoType, ReturnType DEF SubmitLoad, CallerType, Calls, CallerPC
  <2>2. HistoryType' BY <1>5 DEF SubmitLoad, HistoryType, Panics
  <2> QED BY <1>5, <2>1, <2>2 DEF SubmitLoad, PoolType, WorkerType
<1>6. ASSUME NEW c \in Callers, SubmitSend(c) PROVE TypeOK'
  <2>1. PoolType'
    <3>1. jobQueue' \in Seq(Jobs) /\ Len(jobQueue') <= QueueSize
      <4>1. CASE HasRoom(jobQueue)
        BY <1>6, <4>1, SendFacts DEF SubmitSend, HasRoom, Enqueue, PoolType, CallerType
      <4>2. CASE ~HasRoom(jobQueue)
        BY <1>6, <4>2 DEF SubmitSend, PoolType
      <4> QED BY <4>1, <4>2
    <3> QED BY <1>6, <3>1 DEF SubmitSend, PoolType
  <2>2. CallerType' BY <1>6, ReturnType DEF SubmitSend, CallerType, Calls, CallerPC
  <2>3. HistoryType'
    BY <1>6 DEF SubmitSend, HistoryType, CallerType
  <2> QED BY <1>6, <2>1, <2>2, <2>3 DEF SubmitSend, WorkerType
<1>7. ASSUME NEW c \in Callers, ShutdownLoad(c) PROVE TypeOK'
  <2>1. CallerType' BY <1>7, GotoType, ReturnType DEF ShutdownLoad, CallerType, Calls, CallerPC
  <2> QED BY <1>7, <2>1 DEF ShutdownLoad, PoolType, WorkerType, HistoryType
<1>8. ASSUME NEW c \in Callers, ShutdownStore(c) PROVE TypeOK'
  <2>1. PoolType' BY <1>8 DEF ShutdownStore, PoolType
  <2>2. CallerType' BY <1>8, GotoType DEF ShutdownStore, CallerType, Calls, CallerPC
  <2> QED BY <1>8, <2>1, <2>2 DEF ShutdownStore, WorkerType, HistoryType
<1>9. ASSUME NEW c \in Callers, ShutdownCancel(c) PROVE TypeOK'
  <2>1. PoolType' BY <1>9 DEF ShutdownCancel, PoolType
  <2>2. CallerType' BY <1>9, GotoType DEF ShutdownCancel, CallerType, Calls, CallerPC
  <2> QED BY <1>9, <2>1, <2>2 DEF ShutdownCancel, WorkerType, HistoryType
<1>10. ASSUME NEW c \in Callers, ShutdownClose(c) PROVE TypeOK'
  <2>1. PoolType' BY <1>10 DEF ShutdownClose, PoolType
  <2>2. CallerType' BY <1>10, GotoType, ReturnType DEF ShutdownClose, CallerType, Calls, CallerPC
  <2> QED BY <1>10, <2>1, <2>2 DEF ShutdownClose, WorkerType, HistoryType
<1>11. ASSUME NEW c \in Callers, WaitWorkers(c) PROVE TypeOK'
  <2>1. CallerType' BY <1>11, GotoType DEF WaitWorkers, CallerType, Calls, CallerPC
  <2> QED BY <1>11, <2>1 DEF WaitWorkers, PoolType, WorkerType, HistoryType
<1>12. ASSUME NEW c \in Callers, CloseResults(c) PROVE TypeOK'
  <2>1. PoolType' BY <1>12 DEF CloseResults, PoolType
  <2>2. CallerType' BY <1>12, ReturnType DEF CloseResults, CallerType, Calls, CallerPC
  <2> QED BY <1>12, <2>1, <2>2 DEF CloseResults, WorkerType, HistoryType
<1>13. ASSUME NEW g \in Goroutines, WorkerEnter(g) PROVE TypeOK'
  <2>1. PoolType' BY <1>13 DEF WorkerEnter, PoolType
  <2>2. WorkerType' BY <1>13 DEF WorkerEnter, WorkerType, Work, WorkerPC
  <2> QED BY <1>13, <2>1, <2>2 DEF WorkerEnter, CallerType, HistoryType
<1>14. ASSUME NEW g \in Goroutines, WorkerStop(g) PROVE TypeOK'
  <2>1. WorkerType' BY <1>14 DEF WorkerStop, WorkerType, Work, WorkerPC
  <2> QED BY <1>14, <2>1 DEF WorkerStop, PoolType, CallerType, HistoryType
<1>15. ASSUME NEW g \in Goroutines, WorkerReceive(g) PROVE TypeOK'
  <2>1. PoolType'
    <3>1. jobQueue' \in Seq(Jobs) /\ Len(jobQueue') <= QueueSize
      BY <1>15, ReceiveFacts DEF WorkerReceive, PoolType
    <3> QED BY <1>15, <3>1 DEF WorkerReceive, PoolType
  <2>2. WorkerType'
    <3>1. Head(jobQueue) \in Jobs BY <1>15, ReceiveFacts DEF WorkerReceive, PoolType
    <3> QED BY <1>15, <3>1 DEF WorkerReceive, WorkerType, Work, WorkerPC
  <2>3. HistoryType'
    <3>1. Head(jobQueue) \in Jobs BY <1>15, ReceiveFacts DEF WorkerReceive, PoolType
    <3> QED BY <1>15, <3>1 DEF WorkerReceive, HistoryType
  <2> QED BY <1>15, <2>1, <2>2, <2>3 DEF WorkerReceive, CallerType
<1>16. ASSUME NEW g \in Goroutines, NEW r \in Results, WorkerCount(g, r) PROVE TypeOK'
  <2>1. PoolType' BY <1>16 DEF WorkerCount, PoolType, Succeeded
  <2>2. WorkerType' BY <1>16 DEF WorkerCount, WorkerType, Work, WorkerPC
  <2> QED BY <1>16, <2>1, <2>2 DEF WorkerCount, CallerType, HistoryType
<1>17. ASSUME NEW g \in Goroutines, WorkerSend(g) PROVE TypeOK'
  <2>1. PoolType'
    <3>1. resultQueue' \in Seq(Results) /\ Len(resultQueue') <= QueueSize
      BY <1>17, SendFacts DEF WorkerSend, SendResult, HasRoom, PoolType, WorkerType
    <3> QED BY <1>17, <3>1 DEF WorkerSend, PoolType
  <2>2. WorkerType' BY <1>17 DEF WorkerSend, WorkerType, Work, WorkerPC, AfterJob
  <2> QED BY <1>17, <2>1, <2>2 DEF WorkerSend, CallerType, HistoryType
<1>18. ASSUME NEW g \in Goroutines, WorkerLeave(g) PROVE TypeOK'
  <2>1. PoolType' BY <1>18 DEF WorkerLeave, PoolType, Decrement
  <2>2. WorkerType' BY <1>18 DEF WorkerLeave, WorkerType, Work, WorkerPC
  <2> QED BY <1>18, <2>1, <2>2 DEF WorkerLeave, CallerType, HistoryType
<1>19. ASSUME NEW g \in Goroutines, WorkerDone(g) PROVE TypeOK'
  <2>1. PoolType' BY <1>19 DEF WorkerDone, PoolType, Decrement
  <2>2. WorkerType' BY <1>19 DEF WorkerDone, WorkerType, Work, WorkerPC
  <2> QED BY <1>19, <2>1, <2>2 DEF WorkerDone, CallerType, HistoryType
<1>20. CASE Collect
  <2>1. PoolType'
    <3>1. resultQueue' \in Seq(Results) /\ Len(resultQueue') <= QueueSize
      <4>1. resultQueue # <<>> /\ resultQueue' = Tail(resultQueue) BY <1>20 DEF Collect
      <4> QED BY <4>1, ReceiveFacts DEF PoolType
    <3> QED BY <1>20, <3>1 DEF Collect, PoolType
  <2>2. HistoryType'
    <3>1. collected' = collected + 1 BY <1>20 DEF Collect
    <3> QED BY <1>20, <3>1 DEF Collect, HistoryType
  <2> QED BY <1>20, <2>1, <2>2 DEF Collect, WorkerType, CallerType
<1>21. ASSUME NEW q \in Panics, Panic(q) PROVE TypeOK'
  BY <1>21 DEF Panic, PoolType, WorkerType, CallerType, HistoryType
<1>22. CASE UNCHANGED vars
  BY <1>22 DEF PoolType, WorkerType, CallerType, HistoryType, vars
<1>23. ASSUME NEW c \in Callers, CallerStep(c) PROVE TypeOK'
  BY <1>23, <1>1, <1>2, <1>3, <1>4, <1>5, <1>6, <1>7, <1>8, <1>9, <1>10, <1>11, <1>12, <1>21
  DEF CallerStep, SubmitPanic, ShutdownPanic, CloseResultsPanic, Panics
<1>24. ASSUME NEW g \in Goroutines, WorkerStep(g) PROVE TypeOK'
  BY <1>24, <1>13, <1>14, <1>15, <1>16, <1>17, <1>18, <1>19, <1>21
  DEF WorkerStep, WorkerPanic, Panics
<1> QED BY <1>20, <1>22, <1>23, <1>24 DEF Next

\* Every variable of the pool keeps its type, no channel holds more than its
\* capacity, and a caller inside a call knows which call it is in.
THEOREM TypeCorrect == Spec => []TypeOK
BY TypeInit, TypeNext, PTL DEF Spec

-----------------------------------------------------------------------------
(* Where an accepted job is *)

\* A step that moves no job.
LEMMA NoJobMoves ==
  ASSUME JobsPlaced, UNCHANGED <<jobQueue, submitted, accepted, started>>,
         \A g \in Goroutines : wpc'[g] = "run" => wpc[g] = "run" /\ held'[g] = held[g],
         \A c \in Callers : cpc'[c] = "send" => cpc[c] = "send" /\ cjob'[c] = cjob[c]
  PROVE  JobsPlaced'
BY DEF JobsPlaced, Queued, Running

\* Submit takes a job no other call has.
LEMMA SubmitLoadPlaces ==
  ASSUME TypeOK, JobsPlaced, NEW c \in Callers, NEW j \in Jobs, SubmitLoad(c, j)
  PROVE  JobsPlaced'
<1> USE DEF SubmitLoad, JobsPlaced, Running, Queued, pool, jobCh, workers
<1>1. /\ UNCHANGED <<jobQueue, accepted, started, wpc, held>>
      /\ submitted' = submitted \cup {j} /\ j \notin submitted
  OBVIOUS
<1>2. \A d \in Callers : cpc'[d] = "send" =>
         \/ cpc[d] = "send" /\ d # c /\ cjob'[d] = cjob[d]
         \/ d = c /\ cjob'[d] = j
  BY DEF TypeOK, CallerType, Calls, Goto, Return
<1> QED BY <1>1, <1>2

\* Submit puts its job behind the others, or answers false.
LEMMA SubmitSendPlaces ==
  ASSUME TypeOK, JobsPlaced, NEW c \in Callers, SubmitSend(c)
  PROVE  JobsPlaced'
<1>1. \A d \in Callers : cpc'[d] = "send" => cpc[d] = "send" /\ d # c /\ cjob'[d] = cjob[d]
  BY DEF TypeOK, CallerType, SubmitSend, Return
<1>2. UNCHANGED <<wpc, held, submitted, started>> BY DEF SubmitSend, workers
<1>3. CASE ~HasRoom(jobQueue)
  BY <1>1, <1>2, <1>3, NoJobMoves DEF SubmitSend, Answer
<1>4. CASE HasRoom(jobQueue)
  <2> DEFINE j == cjob[c]
             n == Len(jobQueue)
  <2>1. j \in Jobs /\ j \in submitted /\ j \notin accepted
    BY DEF SubmitSend, JobsPlaced, TypeOK, CallerType
  <2>2. jobQueue' = Append(jobQueue, j) /\ accepted' = accepted \cup {j}
    BY <1>4 DEF SubmitSend, Enqueue, Answer
  <2>3. /\ n \in Nat /\ Len(jobQueue') = n + 1 /\ jobQueue'[n + 1] = j
        /\ DOMAIN jobQueue = 1 .. n /\ DOMAIN jobQueue' = 1 .. n + 1
        /\ \A i \in 1 .. n : jobQueue'[i] = jobQueue[i]
    BY <2>1, <2>2, SendFacts DEF TypeOK, PoolType
  <2>4. Queued' = Queued \cup {j} BY <2>3 DEF Queued
  <2>5. \A i, k \in DOMAIN jobQueue' : i # k => jobQueue'[i] # jobQueue'[k]
    <3>1. \A i \in 1 .. n : jobQueue[i] # j BY <2>1, <2>3 DEF JobsPlaced, Queued
    <3>2. \A i, k \in 1 .. n : i # k => jobQueue[i] # jobQueue[k] BY <2>3 DEF JobsPlaced
    <3>3. \A i \in 1 .. n + 1 : i \in 1 .. n \/ i = n + 1 BY <2>3
    <3> QED BY <2>3, <3>1, <3>2, <3>3
  <2>6. /\ \A d \in Callers : cpc'[d] = "send" => cjob'[d] \in submitted' \ accepted'
        /\ \A d, e \in Callers : d # e /\ cpc'[d] = "send" /\ cpc'[e] = "send"
                               => cjob'[d] # cjob'[e]
    BY <1>1, <1>2, <2>2 DEF JobsPlaced, SubmitSend
  <2>7. /\ accepted' = Queued' \cup started' /\ Queued' \cap started' = {}
        /\ accepted' \subseteq submitted'
    BY <1>2, <2>1, <2>2, <2>4 DEF JobsPlaced
  <2>8. /\ \A g \in Running' : held'[g] \in started'
        /\ \A g, h \in Running' : g # h => held'[g] # held'[h]
    BY <1>2 DEF JobsPlaced, Running
  <2> QED BY <2>5, <2>6, <2>7, <2>8 DEF JobsPlaced
<1> QED BY <1>3, <1>4

\* A worker takes the first job of the queue, which nobody has started.
LEMMA ReceivePlaces ==
  ASSUME TypeOK, JobsPlaced, NEW g \in Goroutines, WorkerReceive(g)
  PROVE  JobsPlaced'
<1> DEFINE j == Head(jobQueue)
           n == Len(jobQueue)
<1>1. /\ jobQueue' = Tail(jobQueue) /\ started' = started \cup {j}
      /\ UNCHANGED <<accepted, submitted, cpc, cjob>>
  BY DEF WorkerReceive, callers
<1>2. /\ n \in Nat \ {0} /\ j = jobQueue[1] /\ DOMAIN jobQueue = 1 .. n
      /\ DOMAIN jobQueue' = 1 .. n - 1
      /\ \A i \in 1 .. n - 1 : jobQueue'[i] = jobQueue[i + 1]
  BY <1>1, ReceiveFacts DEF WorkerReceive, TypeOK, PoolType
<1>3. \A i, k \in 1 .. n : i # k => jobQueue[i] # jobQueue[k] BY <1>2 DEF JobsPlaced
<1>4. j \in Queued /\ j \notin started BY <1>2 DEF JobsPlaced, Queued
<1>5. Queued' = Queued \ {j}
  <2>1. \A i \in 1 .. n : i = 1 \/ (i - 1 \in 1 .. n - 1 /\ jobQueue'[i - 1] = jobQueue[i])
    BY <1>2
  <2>2. \A i \in 1 .. n - 1 : jobQueue'[i] \in Queued \ {j} BY <1>2, <1>3 DEF Queued
  <2>3. \A x \in Queued' : x \in Queued \ {j} BY <1>2, <2>2 DEF Queued
  <2>4. ASSUME NEW x \in Queued \ {j} PROVE x \in Queued'
    <3>1. PICK i \in 1 .. n : x = jobQueue[i] BY <1>2 DEF Queued
    <3> QED BY <1>2, <2>1, <3>1 DEF Queued
  <2> QED BY <2>3, <2>4
<1>6. \A i, k \in DOMAIN jobQueue' : i # k => jobQueue'[i] # jobQueue'[k]
  BY <1>2, <1>3
<1>7. \A h \in Goroutines : wpc'[h] = "run" =>
         (h = g /\ held'[h] = j) \/ (h # g /\ wpc[h] = "run" /\ held'[h] = held[h])
  BY DEF WorkerReceive, Work, TypeOK, WorkerType
<1>8. /\ accepted' = Queued' \cup started' /\ Queued' \cap started' = {}
      /\ accepted' \subseteq submitted'
  BY <1>1, <1>4, <1>5 DEF JobsPlaced
<1>9. /\ \A h \in Running' : held'[h] \in started'
      /\ \A h, k \in Running' : h # k => held'[h] # held'[k]
  BY <1>1, <1>4, <1>7 DEF JobsPlaced, Running
<1> QED BY <1>1, <1>6, <1>8, <1>9 DEF JobsPlaced

\* JobsPlaced needs nothing but the types to be inductive.
LEMMA PlacedNext == TypeOK /\ JobsPlaced /\ [Next]_vars => JobsPlaced'
<1> SUFFICES ASSUME TypeOK, JobsPlaced, [Next]_vars PROVE JobsPlaced' OBVIOUS
<1> USE DEF TypeOK, CallerType, WorkerType, Goto, Return, Work,
            pool, jobCh, workers, callers, history
<1>1. ASSUME NEW c \in Callers, StartLoad(c) PROVE JobsPlaced'
  BY <1>1, NoJobMoves DEF StartLoad
<1>2. ASSUME NEW c \in Callers, StartStore(c) PROVE JobsPlaced'
  BY <1>2, NoJobMoves DEF StartStore
<1>3. ASSUME NEW c \in Callers, NEW g \in Goroutines, StartSpawn(c, g) PROVE JobsPlaced'
  BY <1>3, NoJobMoves DEF StartSpawn
<1>4. ASSUME NEW c \in Callers, StartReturn(c) PROVE JobsPlaced'
  BY <1>4, NoJobMoves DEF StartReturn
<1>5. ASSUME NEW c \in Callers, ShutdownLoad(c) PROVE JobsPlaced'
  BY <1>5, NoJobMoves DEF ShutdownLoad
<1>6. ASSUME NEW c \in Callers, ShutdownStore(c) PROVE JobsPlaced'
  BY <1>6, NoJobMoves DEF ShutdownStore
<1>7. ASSUME NEW c \in Callers, ShutdownCancel(c) PROVE JobsPlaced'
  BY <1>7, NoJobMoves DEF ShutdownCancel
<1>8. ASSUME NEW c \in Callers, ShutdownClose(c) PROVE JobsPlaced'
  BY <1>8, NoJobMoves DEF ShutdownClose
<1>9. ASSUME NEW c \in Callers, WaitWorkers(c) PROVE JobsPlaced'
  BY <1>9, NoJobMoves DEF WaitWorkers
<1>10. ASSUME NEW c \in Callers, CloseResults(c) PROVE JobsPlaced'
  BY <1>10, NoJobMoves DEF CloseResults
<1>11. ASSUME NEW g \in Goroutines, WorkerEnter(g) PROVE JobsPlaced'
  BY <1>11, NoJobMoves DEF WorkerEnter
<1>12. ASSUME NEW g \in Goroutines, WorkerStop(g) PROVE JobsPlaced'
  BY <1>12, NoJobMoves DEF WorkerStop
<1>13. ASSUME NEW g \in Goroutines, NEW r \in Results, WorkerCount(g, r) PROVE JobsPlaced'
  BY <1>13, NoJobMoves DEF WorkerCount
<1>14. ASSUME NEW g \in Goroutines, WorkerSend(g) PROVE JobsPlaced'
  BY <1>14, NoJobMoves DEF WorkerSend, AfterJob
<1>15. ASSUME NEW g \in Goroutines, WorkerLeave(g) PROVE JobsPlaced'
  BY <1>15, NoJobMoves DEF WorkerLeave
<1>16. ASSUME NEW g \in Goroutines, WorkerDone(g) PROVE JobsPlaced'
  BY <1>16, NoJobMoves DEF WorkerDone
<1>17. CASE Collect
  BY <1>17, NoJobMoves DEF Collect
<1>18. ASSUME NEW p, Panic(p) PROVE JobsPlaced'
  BY <1>18, NoJobMoves DEF Panic
<1>19. CASE UNCHANGED vars
  BY <1>19, NoJobMoves DEF vars
<1>20. ASSUME NEW c \in Callers, CallerStep(c) PROVE JobsPlaced'
  BY <1>20, <1>1, <1>2, <1>3, <1>4, <1>5, <1>6, <1>7, <1>8, <1>9, <1>10, <1>18,
     SubmitLoadPlaces, SubmitSendPlaces
  DEF CallerStep, SubmitPanic, ShutdownPanic, CloseResultsPanic
<1>21. ASSUME NEW g \in Goroutines, WorkerStep(g) PROVE JobsPlaced'
  BY <1>21, <1>11, <1>12, <1>13, <1>14, <1>15, <1>16, <1>18, ReceivePlaces
  DEF WorkerStep, WorkerPanic
<1> QED BY <1>17, <1>19, <1>20, <1>21 DEF Next

\* Every accepted job is in exactly one place, whatever the callers do.
THEOREM Placement == Spec => []JobsPlaced
<1>1. Init => JobsPlaced BY DEF Init, JobsPlaced, Queued, Running
<1> QED BY <1>1, PlacedNext, TypeCorrect, PTL DEF Spec

-----------------------------------------------------------------------------
(* No job twice, and the promise of JobService *)

\* Only a receive makes a worker run a job.
LEMMA OnlyReceiveRuns ==
  ASSUME TypeOK, [Next]_vars, NEW g \in Goroutines, wpc[g] = "select", wpc'[g] = "run"
  PROVE  WorkerReceive(g)
<1> USE DEF TypeOK, WorkerType, Work, workers
<1>1. PICK h \in Goroutines : WorkerStep(h) \/ \E c \in Callers : StartSpawn(c, h)
  BY DEF Next, vars, CallerStep, StartLoad, StartStore, StartReturn, SubmitLoad, SubmitSend,
     SubmitPanic, ShutdownLoad, ShutdownStore, ShutdownCancel, ShutdownClose, ShutdownPanic,
     WaitWorkers, CloseResults, CloseResultsPanic, Collect, Panic
<1>2. CASE \E c \in Callers : StartSpawn(c, h)
  BY <1>2 DEF StartSpawn
<1>3. CASE WorkerStep(h)
  BY <1>3 DEF WorkerStep, WorkerEnter, WorkerStop, WorkerReceive, WorkerCount, WorkerSend,
     WorkerPanic, WorkerLeave, WorkerDone, AfterJob, Panic
<1> QED BY <1>1, <1>2, <1>3

\* No job is run twice: a worker that receives a job receives a new one.
THEOREM NoJobRunsTwice == Spec => NoJobTwice
<1>1. TypeOK /\ JobsPlaced /\ [Next]_vars =>
        [\A g \in Goroutines :
           wpc[g] = "select" /\ wpc'[g] = "run" => held'[g] \notin started]_vars
  <2> SUFFICES ASSUME TypeOK, JobsPlaced, [Next]_vars, NEW g \in Goroutines,
                      wpc[g] = "select", wpc'[g] = "run"
               PROVE  held'[g] \notin started
    OBVIOUS
  <2>1. WorkerReceive(g) BY OnlyReceiveRuns
  <2>2. held'[g] = jobQueue[1] /\ 1 \in DOMAIN jobQueue
    BY <2>1, ReceiveFacts DEF WorkerReceive, TypeOK, PoolType, WorkerType
  <2> QED BY <2>2 DEF JobsPlaced, Queued
<1> QED BY <1>1, TypeCorrect, Placement, PTL DEF Spec, NoJobTwice

\* Each step of the pool is a step of JobService or leaves its state alone.
LEMMA ServiceStep ==
  TypeOK /\ JobsPlaced /\ [Next]_vars => [Service!Next]_(Service!vars)
<1> SUFFICES ASSUME TypeOK, JobsPlaced, [Next]_vars
             PROVE  Service!Next \/ UNCHANGED <<accepted, started, jobsClosed>>
  BY DEF Service!vars
<1>1. ASSUME NEW c \in Callers, SubmitSend(c)
      PROVE  Service!Next \/ UNCHANGED <<accepted, started, jobsClosed>>
  <2>1. cjob[c] \in Jobs \ accepted /\ ~jobsClosed /\ UNCHANGED <<started, jobsClosed>>
    BY <1>1 DEF SubmitSend, TypeOK, CallerType, JobsPlaced
  <2>2. UNCHANGED accepted \/ accepted' = accepted \cup {cjob[c]} BY <1>1 DEF SubmitSend
  <2> QED BY <2>1, <2>2 DEF Service!Next, Service!Accept
<1>2. ASSUME NEW g \in Goroutines, WorkerReceive(g) PROVE Service!Next
  <2>1. Head(jobQueue) = jobQueue[1] /\ 1 \in DOMAIN jobQueue /\ jobQueue[1] \in Jobs
    BY <1>2, ReceiveFacts DEF WorkerReceive, TypeOK, PoolType
  <2>2. Head(jobQueue) \in accepted \ started BY <2>1 DEF JobsPlaced, Queued
  <2> QED BY <1>2, <2>1, <2>2 DEF WorkerReceive, Service!Next, Service!Run
<1>3. ASSUME NEW c \in Callers, ShutdownClose(c) PROVE Service!Next
  BY <1>3 DEF ShutdownClose, history, Service!Next, Service!Close
<1> USE DEF pool, jobCh, history
<1>4. ASSUME NEW c \in Callers, CallerStep(c)
      PROVE  Service!Next \/ UNCHANGED <<accepted, started, jobsClosed>>
  BY <1>1, <1>3, <1>4 DEF CallerStep, StartLoad, StartStore, StartSpawn, StartReturn,
     SubmitLoad, SubmitPanic, ShutdownLoad, ShutdownStore, ShutdownCancel, ShutdownPanic,
     WaitWorkers, CloseResults, CloseResultsPanic, Panic
<1>5. ASSUME NEW g \in Goroutines, WorkerStep(g)
      PROVE  Service!Next \/ UNCHANGED <<accepted, started, jobsClosed>>
  BY <1>2, <1>5 DEF WorkerStep, WorkerEnter, WorkerStop, WorkerCount, WorkerSend,
     WorkerPanic, WorkerLeave, WorkerDone, Panic
<1>6. CASE Collect BY <1>6 DEF Collect
<1>7. CASE UNCHANGED vars BY <1>7 DEF vars
<1> QED BY <1>4, <1>5, <1>6, <1>7 DEF Next

\* The pool implements JobService: accepted jobs are started at most once, only
\* accepted jobs are started, and a closed queue accepts none.
THEOREM Implementation == Spec => ImplementsService
<1>1. Init => Service!Init BY DEF Init, Service!Init
<1> QED BY <1>1, ServiceStep, TypeCorrect, Placement, PTL
        DEF Spec, ImplementsService, Service!Spec

-----------------------------------------------------------------------------
(* What the counters count *)

Accounts == /\ CountersExact
            /\ ResultsAccounted
            /\ JobsAccounted
            /\ IsFiniteSet(started)

LEMMA FiniteStates ==
  /\ IsFiniteSet(Live) /\ IsFiniteSet(Active)
  /\ IsFiniteSet(Running) /\ IsFiniteSet(Sending)
BY FS_Subset DEF Live, Active, Running, Sending

\* One element more, one element less.
LEMMA OneMore ==
  ASSUME NEW S, IsFiniteSet(S), NEW x, x \notin S
  PROVE  Cardinality(S \cup {x}) = Cardinality(S) + 1 /\ Cardinality(S) \in Nat
BY FS_AddElement, FS_CardinalityType

LEMMA OneLess ==
  ASSUME NEW S, IsFiniteSet(S), NEW x \in S
  PROVE  Cardinality(S \ {x}) = Cardinality(S) - 1 /\ Cardinality(S) \in Nat
BY FS_RemoveElement, FS_CardinalityType

\* The sets that the counters count: a step that changes no wpc changes none.
LEMMA SameSets ==
  ASSUME UNCHANGED wpc
  PROVE  UNCHANGED <<Live, Active, Running, Sending>>
BY DEF Live, Active, Running, Sending

\* A step that touches neither a counter nor what it counts.
LEMMA NothingCounted ==
  ASSUME Accounts, UNCHANGED <<wpc, wg, metrics, resultQueue, started, collected>>
  PROVE  Accounts'
BY SameSets DEF Accounts, CountersExact, ResultsAccounted, JobsAccounted, metrics, counts

LEMMA SpawnCounted ==
  ASSUME TypeOK, Accounts, NEW c \in Callers, NEW g \in Goroutines, StartSpawn(c, g)
  PROVE  Accounts'
<1> USE DEF StartSpawn, Work, TypeOK, WorkerType, PoolType
<1>1. g \notin Live /\ Live' = Live \cup {g} BY DEF Live
<1>2. UNCHANGED <<Active, Running, Sending>> BY DEF Active, Running, Sending
<1> QED BY <1>1, <1>2, OneMore, FiniteStates
        DEF Accounts, CountersExact, ResultsAccounted, JobsAccounted, metrics, counts, resCh, history

LEMMA EnterCounted ==
  ASSUME TypeOK, Accounts, NEW g \in Goroutines, WorkerEnter(g)
  PROVE  Accounts'
<1> USE DEF WorkerEnter, Work, TypeOK, WorkerType, PoolType
<1>1. g \notin Active /\ Active' = Active \cup {g} BY DEF Active
<1>2. UNCHANGED <<Live, Running, Sending>> BY DEF Live, Running, Sending
<1> QED BY <1>1, <1>2, OneMore, FiniteStates
        DEF Accounts, CountersExact, ResultsAccounted, JobsAccounted, counts, resCh, history

LEMMA StopCounted ==
  ASSUME TypeOK, Accounts, NEW g \in Goroutines, WorkerStop(g)
  PROVE  Accounts'
<1> USE DEF WorkerStop, Work, TypeOK, WorkerType
<1>1. UNCHANGED <<Live, Active, Running, Sending>> BY DEF Live, Active, Running, Sending
<1> QED BY <1>1
        DEF Accounts, CountersExact, ResultsAccounted, JobsAccounted, pool, metrics, counts,
            resCh, history

LEMMA ReceiveCounted ==
  ASSUME TypeOK, JobsPlaced, Accounts, NEW g \in Goroutines, WorkerReceive(g)
  PROVE  Accounts'
<1>1. g \notin Running /\ Running' = Running \cup {g}
  BY DEF WorkerReceive, Work, TypeOK, WorkerType, Running
<1>2. UNCHANGED <<Live, Active, Sending>>
  BY DEF WorkerReceive, Work, TypeOK, WorkerType, Live, Active, Sending
<1>3. Head(jobQueue) \notin started
  BY ReceiveFacts DEF WorkerReceive, TypeOK, PoolType, JobsPlaced, Queued
<1>4. started' = started \cup {Head(jobQueue)} BY DEF WorkerReceive
<1>5. IsFiniteSet(started') BY <1>4, FS_AddElement DEF Accounts
<1>6. Cardinality(started') = Cardinality(started) + 1
  BY <1>3, <1>4, OneMore DEF Accounts
<1>7. Cardinality(Running') = Cardinality(Running) + 1 BY <1>1, OneMore, FiniteStates
<1>8. Cardinality(Running) \in Nat BY FiniteStates, FS_CardinalityType
<1>9. JobsAccounted'
  BY <1>6, <1>7, <1>8 DEF Accounts, JobsAccounted, WorkerReceive, metrics, counts, TypeOK, PoolType
<1> QED BY <1>2, <1>5, <1>9
        DEF Accounts, CountersExact, ResultsAccounted, WorkerReceive, metrics, counts, resCh

LEMMA CountCounted ==
  ASSUME TypeOK, Accounts, NEW g \in Goroutines, NEW r \in Results, WorkerCount(g, r)
  PROVE  Accounts'
<1> USE DEF WorkerCount, Work, TypeOK, WorkerType
<1>1. g \in Running /\ Running' = Running \ {g} BY DEF Running
<1>2. g \notin Sending /\ Sending' = Sending \cup {g} BY DEF Sending
<1>3. UNCHANGED <<Live, Active>> BY DEF Live, Active
<1>4. JobsProcessed' + JobsFailed' = JobsProcessed + JobsFailed + 1
  BY DEF Results, Succeeded, PoolType
<1>5. Cardinality(Running') = Cardinality(Running) - 1 /\ Cardinality(Running) \in Nat
  BY <1>1, OneLess, FiniteStates
<1>6. Cardinality(Sending') = Cardinality(Sending) + 1 /\ Cardinality(Sending) \in Nat
  BY <1>2, OneMore, FiniteStates
<1>7. /\ UNCHANGED <<resultQueue, collected, started, wg, ActiveWorkers>>
      /\ JobsProcessed \in Nat /\ JobsFailed \in Nat /\ collected \in Nat
      /\ Len(resultQueue) \in Nat
  BY DEF PoolType, HistoryType, resCh, history
<1>8. ResultsAccounted'
  <2>1. JobsProcessed + JobsFailed = collected + Len(resultQueue) + Cardinality(Sending)
    BY DEF Accounts, ResultsAccounted
  <2> HIDE DEF WorkerCount, Work, TypeOK, WorkerType
  <2> QED BY <1>4, <1>6, <1>7, <2>1 DEF ResultsAccounted
<1>9. JobsAccounted'
  <2>1. Cardinality(started) = JobsProcessed + JobsFailed + Cardinality(Running)
    BY DEF Accounts, JobsAccounted
  <2>2. Cardinality(started') = Cardinality(started) BY <1>7
  <2> HIDE DEF WorkerCount, Work, TypeOK, WorkerType
  <2> QED BY <1>4, <1>5, <1>7, <2>1, <2>2 DEF JobsAccounted
<1> QED BY <1>3, <1>7, <1>8, <1>9 DEF Accounts, CountersExact

LEMMA SendCounted ==
  ASSUME TypeOK, Accounts, NEW g \in Goroutines, WorkerSend(g)
  PROVE  Accounts'
<1> USE DEF WorkerSend, Work, AfterJob, TypeOK, WorkerType
<1>1. g \in Sending /\ Sending' = Sending \ {g} BY DEF Sending
<1>2. UNCHANGED <<Live, Active, Running>> BY DEF Live, Active, Running
<1>3. Len(resultQueue') = Len(resultQueue) + 1 /\ Len(resultQueue) \in Nat
  BY SendFacts DEF SendResult, PoolType
<1>4. Cardinality(Sending') = Cardinality(Sending) - 1 /\ Cardinality(Sending) \in Nat
  BY <1>1, OneLess, FiniteStates
<1>5. ResultsAccounted'
  BY <1>3, <1>4 DEF Accounts, ResultsAccounted, PoolType, HistoryType, metrics, counts, history
<1> QED BY <1>2, <1>5 DEF Accounts, CountersExact, JobsAccounted, metrics, counts, history

LEMMA LeaveCounted ==
  ASSUME TypeOK, Accounts, NEW g \in Goroutines, WorkerLeave(g)
  PROVE  Accounts'
<1> USE DEF WorkerLeave, Work, TypeOK, WorkerType, PoolType
<1>1. g \in Active /\ Active' = Active \ {g} BY DEF Active
<1>2. UNCHANGED <<Live, Running, Sending>> BY DEF Live, Running, Sending
<1> QED BY <1>1, <1>2, OneLess, FiniteStates
        DEF Accounts, CountersExact, ResultsAccounted, JobsAccounted, Decrement, counts, resCh,
            history

LEMMA DoneCounted ==
  ASSUME TypeOK, Accounts, NEW g \in Goroutines, WorkerDone(g)
  PROVE  Accounts'
<1> USE DEF WorkerDone, Work, TypeOK, WorkerType, PoolType
<1>1. g \in Live /\ Live' = Live \ {g} BY DEF Live
<1>2. UNCHANGED <<Active, Running, Sending>> BY DEF Active, Running, Sending
<1> QED BY <1>1, <1>2, OneLess, FiniteStates
        DEF Accounts, CountersExact, ResultsAccounted, JobsAccounted, Decrement, metrics, counts,
            resCh, history

LEMMA CollectCounted ==
  ASSUME TypeOK, Accounts, Collect
  PROVE  Accounts'
<1>1. resultQueue # <<>> /\ resultQueue' = Tail(resultQueue) /\ collected' = collected + 1
  BY DEF Collect
<1>2. Len(resultQueue') = Len(resultQueue) - 1 /\ Len(resultQueue) \in Nat
  BY <1>1, ReceiveFacts DEF TypeOK, PoolType
<1>3. UNCHANGED <<wpc, wg, metrics, started>> BY DEF Collect, workers
<1>4. Cardinality(Sending) \in Nat BY FiniteStates, FS_CardinalityType
<1>5. ResultsAccounted'
  BY <1>1, <1>2, <1>3, <1>4, SameSets
  DEF Accounts, ResultsAccounted, TypeOK, PoolType, HistoryType, metrics, counts
<1> QED BY <1>3, <1>5, SameSets DEF Accounts, CountersExact, JobsAccounted, metrics, counts

LEMMA AccountsNext == TypeOK /\ JobsPlaced /\ Accounts /\ [Next]_vars => Accounts'
<1> SUFFICES ASSUME TypeOK, JobsPlaced, Accounts, [Next]_vars PROVE Accounts' OBVIOUS
<1>1. ASSUME NEW p, Panic(p) PROVE Accounts'
  BY <1>1, NothingCounted DEF Panic, pool, resCh, workers, history
<1>2. ASSUME NEW c \in Callers, CallerStep(c) PROVE Accounts'
  <2> USE NothingCounted DEF pool, resCh, workers, history
  <2>1. CASE StartLoad(c) BY <2>1 DEF StartLoad
  <2>2. CASE StartStore(c) BY <2>2 DEF StartStore
  <2>3. CASE StartReturn(c) BY <2>3 DEF StartReturn
  <2>4. ASSUME NEW j \in Jobs, SubmitLoad(c, j) PROVE Accounts' BY <2>4 DEF SubmitLoad
  <2>5. CASE SubmitSend(c) BY <2>5 DEF SubmitSend
  <2>6. CASE ShutdownLoad(c) BY <2>6 DEF ShutdownLoad
  <2>7. CASE ShutdownStore(c) BY <2>7 DEF ShutdownStore
  <2>8. CASE ShutdownCancel(c) BY <2>8 DEF ShutdownCancel
  <2>9. CASE ShutdownClose(c) BY <2>9 DEF ShutdownClose
  <2>10. CASE WaitWorkers(c) BY <2>10 DEF WaitWorkers
  <2>11. CASE CloseResults(c) BY <2>11 DEF CloseResults
  <2> QED BY <1>1, <1>2, <2>1, <2>2, <2>3, <2>4, <2>5, <2>6, <2>7, <2>8, <2>9, <2>10, <2>11,
             SpawnCounted
          DEF CallerStep, SubmitPanic, ShutdownPanic, CloseResultsPanic
<1>3. ASSUME NEW g \in Goroutines, WorkerStep(g) PROVE Accounts'
  BY <1>1, <1>3, EnterCounted, StopCounted, ReceiveCounted, CountCounted, SendCounted,
     LeaveCounted, DoneCounted
  DEF WorkerStep, WorkerPanic
<1>4. CASE UNCHANGED vars
  BY <1>4, NothingCounted DEF vars, pool, resCh, workers, history
<1> QED BY <1>2, <1>3, <1>4, CollectCounted DEF Next

LEMMA AccountsInit == Init => Accounts
<1> SUFFICES ASSUME Init PROVE Accounts OBVIOUS
<1>1. Live = {} /\ Active = {} /\ Running = {} /\ Sending = {}
  BY DEF Init, Live, Active, Running, Sending
<1>2. Cardinality({}) = 0 /\ IsFiniteSet({}) BY FS_EmptySet
<1>3. /\ wg = 0 /\ ActiveWorkers = 0 /\ JobsProcessed = 0 /\ JobsFailed = 0
      /\ Len(resultQueue) = 0 /\ started = {} /\ collected = 0
  BY DEF Init
<1> QED BY <1>1, <1>2, <1>3 DEF Accounts, CountersExact, ResultsAccounted, JobsAccounted

LEMMA AccountsHold == Spec => []Accounts
BY AccountsInit, AccountsNext, TypeCorrect, Placement, PTL DEF Spec

\* wg and ActiveWorkers are the numbers of goroutines they stand for.
THEOREM CountersCorrect == Spec => []CountersExact
BY AccountsHold, PTL DEF Accounts

\* Every job the metrics count has its result in exactly one place.
THEOREM ResultsCorrect == Spec => []ResultsAccounted
BY AccountsHold, PTL DEF Accounts

\* Every started job is running or has been counted once.
THEOREM JobsCorrect == Spec => []JobsAccounted
BY AccountsHold, PTL DEF Accounts

-----------------------------------------------------------------------------
(* One caller owns the pool *)

\* The methods in the calls c has still to return from.
ToCall(c) == {todo[c][i] : i \in DOMAIN todo[c]}

\* The calls left are an owner's and its clients', and each caller is where its
\* call leads it.
Owned(o) ==
  /\ OneOwner(o, todo)
  /\ \A c \in Callers \ {o} : cpc[c] \in {"idle", "send"}
  /\ cpc[o] \in {"start", "spawn"} => Head(todo[o]) = "Start"
  /\ cpc[o] \in {"stop", "cancel", "close"} => Head(todo[o]) \in Stops
  /\ cpc[o] \in {"wait", "closeResults"} => Head(todo[o]) = "ShutdownWait"

\* The pool is stopped before jobQueue is closed, and neither is undone; the workers
\* are gone before resultQueue is closed, and none comes after them.
Stages(o) ==
  /\ cpc[o] \in {"stop", "cancel", "close"} => ~jobsClosed
  /\ cpc[o] \in {"cancel", "close"} => ~running
  /\ jobsClosed => ~running /\ "Start" \notin ToCall(o)
  /\ cpc[o] = "closeResults" => Live = {}
  /\ resultsClosed => Live = {} /\ ToCall(o) \cap {"Start", "ShutdownWait"} = {}
  /\ panicked \in {"none", "Submit on closed jobQueue"}

\* The call a caller is in is one of those it has to return from.
LEMMA HeadToCall ==
  ASSUME CallerType, NEW c \in Callers, todo[c] # <<>>
  PROVE  Head(todo[c]) \in ToCall(c)
<1>1. Head(todo[c]) = todo[c][1] /\ 1 \in DOMAIN todo[c] BY ReceiveFacts DEF CallerType
<1> QED BY <1>1 DEF ToCall

\* An owner that shuts down starts nothing after it.
LEMMA StopIsFinal ==
  ASSUME CallerType, NEW o \in Callers, OneOwner(o, todo), todo[o] # <<>>,
         Head(todo[o]) \in Stops
  PROVE  "Start" \notin ToCall(o)
<1>1. /\ Len(todo[o]) \in Nat /\ DOMAIN todo[o] = 1 .. Len(todo[o])
      /\ 1 \in DOMAIN todo[o] /\ Head(todo[o]) = todo[o][1]
  BY ReceiveFacts DEF CallerType
<1>2. ASSUME NEW i \in DOMAIN todo[o] PROVE todo[o][i] # "Start"
  <2>1. i = 1 \/ 1 < i BY <1>1
  <2> QED BY <1>1, <2>1 DEF OneOwner, Stops
<1> QED BY <1>2 DEF ToCall

\* A call that returns leaves the others.
LEMMA ReturnLeaves ==
  ASSUME CallerType, NEW o \in Callers, OneOwner(o, todo), NEW c \in Callers, Return(c),
         todo[c] # <<>>
  PROVE  /\ OneOwner(o, todo')
         /\ \A d \in Callers : ToCall(d)' \subseteq ToCall(d)
         /\ c = o /\ Head(todo[o]) = "ShutdownWait" => "ShutdownWait" \notin ToCall(o)'
<1> DEFINE n == Len(todo[c])
<1>1. /\ n \in Nat \ {0} /\ DOMAIN todo[c] = 1 .. n /\ DOMAIN todo'[c] = 1 .. n - 1
      /\ Head(todo[c]) = todo[c][1]
      /\ \A i \in 1 .. n - 1 : todo'[c][i] = todo[c][i + 1]
  <2>1. todo'[c] = Tail(todo[c]) /\ todo[c] \in Seq(Methods) BY DEF Return, CallerType
  <2> QED BY <2>1, ReceiveFacts
<1>2. \A d \in Callers : d # c => todo'[d] = todo[d] BY DEF Return, CallerType
<1>3. \A i \in 1 .. n - 1 : i + 1 \in 1 .. n /\ 1 < i + 1 BY <1>1
<1>4. OneOwner(o, todo')
  <2>1. CASE c = o
    <3>1. ASSUME NEW i \in 1 .. n - 1, NEW k \in 1 .. n - 1, i < k
          PROVE  /\ ~(todo'[o][i] \in Stops /\ todo'[o][k] = "Start")
                 /\ ~(todo'[o][i] = "ShutdownWait" /\ todo'[o][k] = "ShutdownWait")
      <4>1. i + 1 \in 1 .. n /\ k + 1 \in 1 .. n /\ i + 1 < k + 1 BY <1>1, <3>1
      <4>2. todo'[o][i] = todo[o][i + 1] /\ todo'[o][k] = todo[o][k + 1] BY <1>1, <2>1
      <4>3. DOMAIN todo[o] = 1 .. n BY <1>1, <2>1
      <4> QED BY <4>1, <4>2, <4>3 DEF OneOwner
    <3>2. \A d \in Callers \ {o} : todo'[d] = todo[d] BY <1>2, <2>1
    <3>3. \A d \in Callers \ {o} : \A i \in DOMAIN todo'[d] : todo'[d][i] = "Submit"
      BY <3>2 DEF OneOwner
    <3>4. DOMAIN todo'[o] = 1 .. n - 1 BY <1>1, <2>1
    <3> QED BY <3>1, <3>3, <3>4 DEF OneOwner
  <2>2. CASE c # o
    <3>1. ASSUME NEW i \in 1 .. n - 1 PROVE todo'[c][i] = "Submit"
      <4>1. i + 1 \in DOMAIN todo[c] /\ todo'[c][i] = todo[c][i + 1] BY <1>1, <1>3
      <4>2. c \in Callers \ {o} BY <2>2
      <4> QED BY <4>1, <4>2 DEF OneOwner
    <3>2. \A d \in Callers \ {o} : \A i \in DOMAIN todo'[d] : todo'[d][i] = "Submit"
      BY <1>1, <1>2, <3>1 DEF OneOwner
    <3>3. todo'[o] = todo[o] BY <1>2, <2>2
    <3> QED BY <3>2, <3>3 DEF OneOwner
  <2> QED BY <2>1, <2>2
<1>5. \A d \in Callers : ToCall(d)' \subseteq ToCall(d)
  <2>1. ASSUME NEW x \in ToCall(c)' PROVE x \in ToCall(c)
    <3>1. PICK i \in 1 .. n - 1 : x = todo'[c][i] BY <1>1, <2>1 DEF ToCall
    <3>2. i + 1 \in DOMAIN todo[c] /\ x = todo[c][i + 1] BY <1>1, <1>3, <3>1
    <3> QED BY <3>2 DEF ToCall
  <2>2. \A d \in Callers : d # c => ToCall(d)' = ToCall(d) BY <1>2 DEF ToCall
  <2> QED BY <2>1, <2>2
<1>6. ASSUME c = o, NEW m \in ToCall(o)', Head(todo[o]) = "ShutdownWait"
      PROVE  m # "ShutdownWait"
  <2>1. PICK i \in 1 .. n - 1 : m = todo[o][i + 1] BY <1>1, <1>6 DEF ToCall
  <2>2. 1 \in 1 .. n /\ i + 1 \in 1 .. n /\ 1 < i + 1 BY <1>1, <1>3
  <2> QED BY <1>1, <1>6, <2>1, <2>2 DEF OneOwner
<1> QED BY <1>4, <1>5, <1>6

\* A client is in Submit or between two calls.
LEMMA ClientSubmits ==
  ASSUME TypeOK, NEW o \in Callers, Owned(o), NEW c \in Callers \ {o}, CallerStep(c)
  PROVE  (\E j \in Jobs : SubmitLoad(c, j)) \/ SubmitSend(c) \/ SubmitPanic(c)
<1>1. cpc[c] \in {"idle", "send"} BY DEF Owned
<1>2. ASSUME NEW m \in Methods, Calls(c, m) PROVE m = "Submit"
  <2>1. todo[c][1] = m /\ 1 \in DOMAIN todo[c]
    BY <1>2, ReceiveFacts DEF Calls, TypeOK, CallerType
  <2> QED BY <2>1 DEF Owned, OneOwner
<1>3. ~StartLoad(c) /\ ~ShutdownLoad(c)
  BY <1>2 DEF StartLoad, ShutdownLoad, Methods
<1>4. ~StartStore(c) /\ ~StartReturn(c) /\ \A g \in Goroutines : ~StartSpawn(c, g)
  BY <1>1 DEF StartStore, StartReturn, StartSpawn
<1>5. ~ShutdownStore(c) /\ ~ShutdownCancel(c) /\ ~ShutdownClose(c) /\ ~ShutdownPanic(c)
  BY <1>1 DEF ShutdownStore, ShutdownCancel, ShutdownClose, ShutdownPanic
<1>6. ~WaitWorkers(c) /\ ~CloseResults(c) /\ ~CloseResultsPanic(c)
  BY <1>1 DEF WaitWorkers, CloseResults, CloseResultsPanic
<1> QED BY <1>3, <1>4, <1>5, <1>6 DEF CallerStep

\* A step that leaves every caller where it is, one inside the owner's call, and a
\* call that returns.
LEMMA OwnedSame ==
  ASSUME NEW o \in Callers, Owned(o), UNCHANGED <<cpc, todo>>
  PROVE  Owned(o)'
BY DEF Owned, OneOwner

LEMMA OwnedGoto ==
  ASSUME TypeOK, NEW o \in Callers, Owned(o), NEW pc \in CallerPC, Goto(o, pc),
         pc \in {"start", "spawn"} => Head(todo[o]) = "Start",
         pc \in {"stop", "cancel", "close"} => Head(todo[o]) \in Stops,
         pc \in {"wait", "closeResults"} => Head(todo[o]) = "ShutdownWait"
  PROVE  Owned(o)' /\ cpc'[o] = pc /\ ToCall(o)' = ToCall(o)
BY DEF Owned, OneOwner, Goto, TypeOK, CallerType, ToCall

LEMMA OwnedReturn ==
  ASSUME TypeOK, NEW o \in Callers, Owned(o), NEW c \in Callers, Return(c), todo[c] # <<>>
  PROVE  /\ Owned(o)' /\ cpc'[c] = "idle" /\ ToCall(o)' \subseteq ToCall(o)
         /\ c # o => cpc'[o] = cpc[o]
<1>1. OneOwner(o, todo') /\ ToCall(o)' \subseteq ToCall(o)
  BY ReturnLeaves DEF Owned, TypeOK
<1>2. /\ cpc'[c] = "idle" /\ \A d \in Callers : d # c => cpc'[d] = cpc[d]
      /\ c # o => todo'[o] = todo[o]
  BY DEF Return, TypeOK, CallerType
<1> QED BY <1>1, <1>2 DEF Owned, OneOwner

\* A client's step.
LEMMA ClientStep ==
  ASSUME TypeOK, NEW o \in Callers, Owned(o), NEW c \in Callers \ {o}, CallerStep(c)
  PROVE  Owned(o)' /\ cpc'[o] = cpc[o] /\ ToCall(o)' \subseteq ToCall(o)
<1>1. ASSUME Goto(c, "send")
      PROVE  Owned(o)' /\ cpc'[o] = cpc[o] /\ ToCall(o)' \subseteq ToCall(o)
  BY <1>1 DEF Owned, OneOwner, Goto, TypeOK, CallerType, ToCall
<1>2. ASSUME NEW j \in Jobs, SubmitLoad(c, j)
      PROVE  Owned(o)' /\ cpc'[o] = cpc[o] /\ ToCall(o)' \subseteq ToCall(o)
  BY <1>1, <1>2, OwnedReturn DEF SubmitLoad, Calls
<1>3. ASSUME SubmitSend(c)
      PROVE  Owned(o)' /\ cpc'[o] = cpc[o] /\ ToCall(o)' \subseteq ToCall(o)
  BY <1>3, OwnedReturn DEF SubmitSend, TypeOK, CallerType
<1>4. ASSUME SubmitPanic(c)
      PROVE  Owned(o)' /\ cpc'[o] = cpc[o] /\ ToCall(o)' \subseteq ToCall(o)
  BY <1>4, OwnedSame DEF SubmitPanic, Panic, callers, ToCall
<1> QED BY <1>2, <1>3, <1>4, ClientSubmits

\* What a step may do to the stages without looking at them.
LEMMA StagesSame ==
  ASSUME NEW o \in Callers, Stages(o), Live' \subseteq Live,
         cpc'[o] \in {cpc[o], "idle", "start", "spawn", "send"},
         UNCHANGED <<running, jobsClosed, resultsClosed, panicked>>,
         ToCall(o)' \subseteq ToCall(o)
  PROVE  Stages(o)'
BY DEF Stages

\* The steps of the owner's own calls.
LEMMA OwnerStep ==
  ASSUME TypeOK, CountersExact, NEW o \in Callers, Owned(o), Stages(o), CallerStep(o)
  PROVE  Owned(o)' /\ Stages(o)'
<1> USE DEF pool, flags, jobCh, resCh, workers
<1>1. cpc[o] # "idle" => todo[o] # <<>> /\ Head(todo[o]) \in ToCall(o)
  BY HeadToCall DEF TypeOK, CallerType
<1>2. ASSUME StartLoad(o) PROVE Owned(o)' /\ Stages(o)'
  <2>1. todo[o] # <<>> /\ Head(todo[o]) = "Start" BY <1>2 DEF StartLoad, Calls
  <2>2. Live' = Live BY <1>2 DEF StartLoad, Live
  <2>3. CASE running
    BY <1>2, <2>1, <2>2, <2>3, OwnedReturn, StagesSame DEF StartLoad
  <2>4. CASE ~running
    <3>1. Goto(o, "start") /\ "start" \in CallerPC BY <1>2, <2>4 DEF StartLoad, CallerPC
    <3>2. Owned(o)' /\ cpc'[o] = "start" /\ ToCall(o)' = ToCall(o) BY <2>1, <3>1, OwnedGoto
    <3> QED BY <1>2, <2>2, <3>2, StagesSame DEF StartLoad
  <2> QED BY <2>3, <2>4
<1>3. ASSUME StartStore(o) PROVE Owned(o)' /\ Stages(o)'
  <2>1. Head(todo[o]) = "Start" BY <1>3 DEF StartStore, Owned
  <2>2. Goto(o, "spawn") /\ "spawn" \in CallerPC BY <1>3 DEF StartStore, CallerPC
  <2>3. Owned(o)' /\ cpc'[o] = "spawn" /\ ToCall(o)' = ToCall(o) BY <2>1, <2>2, OwnedGoto
  <2>4. Live' = Live /\ ~jobsClosed BY <1>1, <1>3, <2>1 DEF StartStore, Live, Stages
  <2> QED BY <1>3, <2>3, <2>4 DEF StartStore, Stages
<1>4. ASSUME NEW g \in Goroutines, StartSpawn(o, g) PROVE Owned(o)' /\ Stages(o)'
  <2>1. Owned(o)' /\ ToCall(o)' = ToCall(o) /\ cpc'[o] = "spawn"
    BY <1>4, OwnedSame DEF StartSpawn, ToCall
  <2>2. Head(todo[o]) = "Start" BY <1>4 DEF StartSpawn, Owned
  <2>3. ~resultsClosed BY <1>1, <1>4, <2>2 DEF StartSpawn, Stages
  <2> QED BY <1>4, <2>1, <2>3 DEF StartSpawn, Stages
<1>5. ASSUME StartReturn(o) PROVE Owned(o)' /\ Stages(o)'
  <2>1. Live' = Live BY <1>5 DEF StartReturn, Live
  <2> QED BY <1>1, <1>5, <2>1, OwnedReturn, StagesSame DEF StartReturn
<1>6. ASSUME NEW j \in Jobs, SubmitLoad(o, j) PROVE Owned(o)' /\ Stages(o)'
  <2>1. Live' = Live BY <1>6 DEF SubmitLoad, Live
  <2>2. CASE Refuses
    BY <1>6, <2>1, <2>2, OwnedReturn, StagesSame DEF SubmitLoad, Calls
  <2>3. CASE ~Refuses
    <3>1. Goto(o, "send") /\ "send" \in CallerPC BY <1>6, <2>3 DEF SubmitLoad, CallerPC
    <3>2. Owned(o)' /\ cpc'[o] = "send" /\ ToCall(o)' = ToCall(o) BY <3>1, OwnedGoto
    <3> QED BY <1>6, <2>1, <3>2, StagesSame DEF SubmitLoad
  <2> QED BY <2>2, <2>3
<1>7. ASSUME SubmitSend(o) PROVE Owned(o)' /\ Stages(o)'
  <2>1. Live' = Live BY <1>7 DEF SubmitSend, Live
  <2> QED BY <1>1, <1>7, <2>1, OwnedReturn, StagesSame DEF SubmitSend
<1>8. ASSUME ShutdownLoad(o) PROVE Owned(o)' /\ Stages(o)'
  <2>1. todo[o] # <<>> /\ Head(todo[o]) \in Stops BY <1>8 DEF ShutdownLoad, Calls, Stops
  <2>2. Live' = Live BY <1>8 DEF ShutdownLoad, Live
  <2>3. CASE running
    <3>1. Goto(o, "stop") /\ "stop" \in CallerPC BY <1>8, <2>3 DEF ShutdownLoad, CallerPC
    <3>2. Owned(o)' /\ cpc'[o] = "stop" /\ ToCall(o)' = ToCall(o) BY <2>1, <3>1, OwnedGoto
    <3> QED BY <1>8, <2>2, <2>3, <3>2 DEF ShutdownLoad, Stages
  <2>4. CASE ~running /\ Waits(o)
    <3>1. Goto(o, "wait") /\ "wait" \in CallerPC BY <1>8, <2>4 DEF ShutdownLoad, CallerPC
    <3>2. Owned(o)' /\ cpc'[o] = "wait" /\ ToCall(o)' = ToCall(o)
      BY <2>4, <3>1, OwnedGoto DEF Waits
    <3> QED BY <1>8, <2>2, <3>2 DEF ShutdownLoad, Stages
  <2>5. CASE ~running /\ ~Waits(o)
    BY <1>8, <2>1, <2>2, <2>5, OwnedReturn, StagesSame DEF ShutdownLoad
  <2> QED BY <2>3, <2>4, <2>5
<1>9. ASSUME ShutdownStore(o) PROVE Owned(o)' /\ Stages(o)'
  <2>1. Head(todo[o]) \in Stops BY <1>9 DEF ShutdownStore, Owned
  <2>2. Goto(o, "cancel") /\ "cancel" \in CallerPC BY <1>9 DEF ShutdownStore, CallerPC
  <2>3. Owned(o)' /\ cpc'[o] = "cancel" /\ ToCall(o)' = ToCall(o) BY <2>1, <2>2, OwnedGoto
  <2>4. Live' = Live /\ ~jobsClosed BY <1>9 DEF ShutdownStore, Live, Stages
  <2> QED BY <1>9, <2>3, <2>4 DEF ShutdownStore, Stages
<1>10. ASSUME ShutdownCancel(o) PROVE Owned(o)' /\ Stages(o)'
  <2>1. Head(todo[o]) \in Stops BY <1>10 DEF ShutdownCancel, Owned
  <2>2. Goto(o, "close") /\ "close" \in CallerPC BY <1>10 DEF ShutdownCancel, CallerPC
  <2>3. Owned(o)' /\ cpc'[o] = "close" /\ ToCall(o)' = ToCall(o) BY <2>1, <2>2, OwnedGoto
  <2>4. Live' = Live /\ ~jobsClosed /\ ~running BY <1>10 DEF ShutdownCancel, Live, Stages
  <2> QED BY <1>10, <2>3, <2>4 DEF ShutdownCancel, Stages
<1>11. ASSUME ShutdownClose(o) PROVE Owned(o)' /\ Stages(o)'
  <2>1. todo[o] # <<>> /\ Head(todo[o]) \in Stops BY <1>1, <1>11 DEF ShutdownClose, Owned
  <2>2. "Start" \notin ToCall(o) BY <2>1, StopIsFinal DEF Owned, TypeOK
  <2>3. Live' = Live /\ ~running BY <1>11 DEF ShutdownClose, Live, Stages
  <2>4. Owned(o)' /\ cpc'[o] \in {"wait", "idle"} /\ ToCall(o)' \subseteq ToCall(o)
    <3>1. CASE Waits(o)
      <4>1. Goto(o, "wait") /\ "wait" \in CallerPC BY <1>11, <3>1 DEF ShutdownClose, CallerPC
      <4> QED BY <3>1, <4>1, OwnedGoto DEF Waits
    <3>2. CASE ~Waits(o)
      BY <1>11, <2>1, <3>2, OwnedReturn DEF ShutdownClose
    <3> QED BY <3>1, <3>2
  <2> QED BY <1>11, <2>2, <2>3, <2>4 DEF ShutdownClose, Stages
<1>12. ASSUME WaitWorkers(o) PROVE Owned(o)' /\ Stages(o)'
  <2>1. Head(todo[o]) = "ShutdownWait" BY <1>12 DEF WaitWorkers, Owned
  <2>2. Goto(o, "closeResults") /\ "closeResults" \in CallerPC
    BY <1>12 DEF WaitWorkers, CallerPC
  <2>3. Owned(o)' /\ cpc'[o] = "closeResults" /\ ToCall(o)' = ToCall(o)
    BY <2>1, <2>2, OwnedGoto
  <2>4. Live = {}
    BY <1>12, FiniteStates, FS_EmptySet DEF WaitWorkers, WorkersGone, CountersExact
  <2>5. Live' = Live BY <1>12 DEF WaitWorkers, Live
  <2> QED BY <1>12, <2>3, <2>4, <2>5 DEF WaitWorkers, Stages
<1>13. ASSUME CloseResults(o) PROVE Owned(o)' /\ Stages(o)'
  <2>1. todo[o] # <<>> /\ Head(todo[o]) = "ShutdownWait"
    BY <1>1, <1>13 DEF CloseResults, Owned
  <2>2. "Start" \notin ToCall(o) BY <2>1, StopIsFinal DEF Owned, TypeOK, Stops
  <2>3. Return(o) BY <1>13 DEF CloseResults
  <2>4. "ShutdownWait" \notin ToCall(o)' BY <2>1, <2>3, ReturnLeaves DEF Owned, TypeOK
  <2>5. Owned(o)' /\ cpc'[o] = "idle" /\ ToCall(o)' \subseteq ToCall(o)
    BY <2>1, <2>3, OwnedReturn
  <2>6. Live' = Live /\ Live = {} BY <1>13 DEF CloseResults, Live, Stages
  <2>7. ToCall(o)' \cap {"Start", "ShutdownWait"} = {} BY <2>2, <2>4, <2>5
  <2> QED BY <1>13, <2>5, <2>6, <2>7 DEF CloseResults, Stages
<1>14. ~ShutdownPanic(o) BY DEF ShutdownPanic, Stages
<1>15. ~CloseResultsPanic(o)
  <2> SUFFICES ASSUME CloseResultsPanic(o) PROVE FALSE OBVIOUS
  <2>1. cpc[o] = "closeResults" /\ resultsClosed BY DEF CloseResultsPanic
  <2>2. Head(todo[o]) = "ShutdownWait" BY <2>1 DEF Owned
  <2> QED BY <1>1, <2>1, <2>2 DEF Stages
<1>16. ASSUME SubmitPanic(o) PROVE Owned(o)' /\ Stages(o)'
  <2>1. UNCHANGED <<cpc, todo, wpc, running, jobsClosed, resultsClosed>>
        /\ panicked' = "Submit on closed jobQueue"
    BY <1>16 DEF SubmitPanic, Panic, callers
  <2>2. Live' = Live /\ ToCall(o)' = ToCall(o) BY <2>1 DEF Live, ToCall
  <2> QED BY <2>1, <2>2, OwnedSame DEF Stages
<1> QED BY <1>2, <1>3, <1>4, <1>5, <1>6, <1>7, <1>8, <1>9, <1>10, <1>11, <1>12, <1>13, <1>14,
           <1>15, <1>16
        DEF CallerStep

\* A worker sends no result after resultQueue was closed, and takes itself out of
\* Live at most.
LEMMA WorkerQuiet ==
  ASSUME TypeOK, NEW o \in Callers, Stages(o), NEW g \in Goroutines, WorkerStep(g)
  PROVE  /\ Live' \subseteq Live
         /\ UNCHANGED <<cpc, todo, running, jobsClosed, resultsClosed, panicked>>
<1> USE DEF pool, flags, jobCh, resCh, callers
<1>1. ~WorkerPanic(g)
  BY DEF WorkerPanic, Stages, Live
<1>2. UNCHANGED <<cpc, todo, running, jobsClosed, resultsClosed, panicked>>
  BY <1>1 DEF WorkerStep, WorkerEnter, WorkerStop, WorkerReceive, WorkerCount, WorkerSend,
     WorkerLeave, WorkerDone
<1>3. g \in Live
  BY <1>1 DEF WorkerStep, WorkerEnter, WorkerStop, WorkerReceive, WorkerCount, WorkerSend,
     WorkerLeave, WorkerDone, Live
<1>4. \A h \in Goroutines : h # g => wpc'[h] = wpc[h]
  BY <1>1 DEF WorkerStep, WorkerEnter, WorkerStop, WorkerReceive, WorkerCount, WorkerSend,
     WorkerLeave, WorkerDone, Work, TypeOK, WorkerType
<1> QED BY <1>2, <1>3, <1>4 DEF Live

LEMMA OwnerNext ==
  ASSUME NEW o \in Callers
  PROVE  TypeOK /\ CountersExact /\ Owned(o) /\ Stages(o) /\ [Next]_vars
           => Owned(o)' /\ Stages(o)'
<1> SUFFICES ASSUME TypeOK, CountersExact, Owned(o), Stages(o), [Next]_vars
             PROVE  Owned(o)' /\ Stages(o)'
  OBVIOUS
<1> USE DEF pool, flags, jobCh, resCh, workers, callers
<1>1. ASSUME NEW c \in Callers \ {o}, CallerStep(c) PROVE Owned(o)' /\ Stages(o)'
  <2>1. Owned(o)' /\ cpc'[o] = cpc[o] /\ ToCall(o)' \subseteq ToCall(o)
    BY <1>1, ClientStep
  <2>2. /\ UNCHANGED <<wpc, running, jobsClosed, resultsClosed>>
        /\ panicked' \in {panicked, "Submit on closed jobQueue"}
    BY <1>1, ClientSubmits DEF SubmitLoad, SubmitSend, SubmitPanic, Panic
  <2>3. Live' = Live BY <2>2 DEF Live
  <2> QED BY <2>1, <2>2, <2>3 DEF Stages
<1>2. ASSUME NEW g \in Goroutines, WorkerStep(g) PROVE Owned(o)' /\ Stages(o)'
  <2>1. UNCHANGED <<cpc, todo, running, jobsClosed, resultsClosed, panicked>>
        /\ Live' \subseteq Live
    BY <1>2, WorkerQuiet
  <2>2. ToCall(o)' = ToCall(o) BY <2>1 DEF ToCall
  <2> QED BY <2>1, <2>2, OwnedSame, StagesSame
<1>3. CASE Collect \/ UNCHANGED vars
  <2>1. UNCHANGED <<cpc, todo, running, jobsClosed, resultsClosed, panicked, wpc>>
    BY <1>3 DEF Collect, vars
  <2>2. ToCall(o)' = ToCall(o) /\ Live' = Live BY <2>1 DEF ToCall, Live
  <2> QED BY <2>1, <2>2, OwnedSame, StagesSame
<1> QED BY <1>1, <1>2, <1>3, OwnerStep DEF Next

LEMMA OwnerInit ==
  ASSUME NEW o \in Callers, \A s \in Scripts : OneOwner(o, s)
  PROVE  Init => Owned(o) /\ Stages(o)
<1> SUFFICES ASSUME Init PROVE Owned(o) /\ Stages(o) OBVIOUS
<1>1. OneOwner(o, todo) /\ \A c \in Callers : cpc[c] = "idle" BY DEF Init
<1> QED BY <1>1 DEF Init, Owned, Stages

LEMMA OwnerHolds ==
  ASSUME NEW o \in Callers, \A s \in Scripts : OneOwner(o, s)
  PROVE  Spec => [](Owned(o) /\ Stages(o))
<1>1. Init => Owned(o) /\ Stages(o) BY OwnerInit
<1>2. TypeOK /\ CountersExact /\ (Owned(o) /\ Stages(o)) /\ [Next]_vars
        => (Owned(o) /\ Stages(o))'
  BY OwnerNext
<1> QED BY <1>1, <1>2, TypeCorrect, CountersCorrect, PTL DEF Spec

\* With one owner, no worker is left when ShutdownWait has closed resultQueue, so
\* none sends on it, and the only panic is that of a Submit that races the shutdown.
THEOREM QuietWithOneOwner ==
  ASSUME NEW o \in Callers, \A s \in Scripts : OneOwner(o, s)
  PROVE  Spec => []QuietAfterWait
<1>1. Owned(o) /\ Stages(o) => QuietAfterWait BY DEF Stages, QuietAfterWait
<1> QED BY <1>1, OwnerHolds, PTL

\* Only a Submit that finds the pool running goes on to send.
LEMMA OnlyRunningSends ==
  ASSUME TypeOK, [Next]_vars, NEW c \in Callers, cpc[c] = "idle", cpc'[c] = "send"
  PROVE  running
<1> USE DEF TypeOK, CallerType, Goto, Return, callers
<1>1. PICK d \in Callers : CallerStep(d)
  BY DEF Next, vars, Collect, WorkerStep, WorkerEnter, WorkerStop, WorkerReceive, WorkerCount,
     WorkerSend, WorkerPanic, WorkerLeave, WorkerDone, Panic
<1>2. ASSUME NEW j \in Jobs, SubmitLoad(d, j) PROVE running
  BY <1>2 DEF SubmitLoad, Refuses
<1>3. (\E j \in Jobs : SubmitLoad(d, j)) \/ UNCHANGED cpc \/ cpc'[d] # "send"
  BY <1>1 DEF CallerStep, StartLoad, StartStore, StartSpawn, StartReturn, SubmitSend,
     SubmitPanic, ShutdownLoad, ShutdownStore, ShutdownCancel, ShutdownClose, ShutdownPanic,
     WaitWorkers, CloseResults, CloseResultsPanic, Panic
<1>4. \A e \in Callers : e # d => cpc'[e] = cpc[e]
  BY <1>1 DEF CallerStep, StartLoad, StartStore, StartSpawn, StartReturn, SubmitLoad, SubmitSend,
     SubmitPanic, ShutdownLoad, ShutdownStore, ShutdownCancel, ShutdownClose, ShutdownPanic,
     WaitWorkers, CloseResults, CloseResultsPanic, Panic
<1> QED BY <1>2, <1>3, <1>4

\* With one owner, a Submit that begins after jobQueue was closed is refused.
THEOREM RefusedWithOneOwner ==
  ASSUME NEW o \in Callers, \A s \in Scripts : OneOwner(o, s)
  PROVE  Spec => StoppedPoolRefuses
<1>1. TypeOK /\ (Owned(o) /\ Stages(o)) /\ [Next]_vars =>
        [\A c \in Callers : cpc[c] = "idle" /\ cpc'[c] = "send" => ~jobsClosed]_vars
  BY OnlyRunningSends DEF Stages
<1> QED BY <1>1, TypeCorrect, OwnerHolds, PTL DEF Spec, StoppedPoolRefuses
=============================================================================
