----------------------------- MODULE WorkerPool -----------------------------
(***************************************************************************)
(* pkg/utils/worker.go: the goroutine pool, one action per atomic step of  *)
(* the code: an atomic load or store, a channel operation, a WaitGroup     *)
(* operation.  Callers run on goroutines of their own; each makes the      *)
(* calls of its script one after the other, and the callers interleave.    *)
(* A definition marked MISTAKE is a wrong version of the one that follows, *)
(* kept to see that the properties notice it; nothing refers to it.        *)
(***************************************************************************)
EXTENDS Integers, Sequences, FiniteSets

CONSTANTS Callers,     \* goroutines that call the pool's methods
          Goroutines,  \* goroutines Start may spawn
          Jobs,        \* one element for each call of Submit
          Workers,     \* wp.workers
          QueueSize,   \* capacity of jobQueue and of resultQueue
          Scripts,     \* what the callers may do: the methods each calls, in order
          Collecting,  \* whether somebody receives from resultQueue: the possible answers
          NoJob        \* the value of a job variable that holds none

Methods == {"Start", "Submit", "Shutdown", "ShutdownWait"}
Results == {"nil", "err"}

ASSUME WorkersAssumption   == Workers \in Nat
ASSUME QueueSizeAssumption == QueueSize \in Nat \ {0}   \* buffered channels
ASSUME FiniteAssumption    == IsFiniteSet(Goroutines)
ASSUME ScriptsAssumption   == Scripts \subseteq [Callers -> Seq(Methods)]
ASSUME CollectAssumption   == Collecting \subseteq BOOLEAN
ASSUME NoJobAssumption     == NoJob \notin Jobs

VARIABLES
  running, ctxDone,             \* wp.running; wp.ctx is cancelled
  jobQueue, jobsClosed,         \* buffer of wp.jobQueue; the channel is closed
  resultQueue, resultsClosed,   \* buffer of wp.resultQueue; it is closed
  wg,                           \* counter of wp.wg
  JobsProcessed, JobsFailed, ActiveWorkers,  \* wp.metrics
  wpc,                          \* where each worker goroutine is
  held, outcome,                \* the job a worker runs; the result it will send
  cpc, todo,                    \* where each caller is; its calls not yet returned
  cjob, left,                   \* Submit's job; workers Start has still to spawn
  submitted, accepted, started, \* history: jobs passed to Submit, for which it
                                \* answered true, and taken by a worker
  collected,                    \* history: results received from resultQueue
  reader,                       \* TRUE iff somebody receives them
  panicked                      \* the panic that ended the process, or "none"

flags   == <<running, ctxDone>>
jobCh   == <<jobQueue, jobsClosed>>
resCh   == <<resultQueue, resultsClosed>>
counts  == <<JobsProcessed, JobsFailed>>
metrics == <<counts, ActiveWorkers>>
pool    == <<flags, jobCh, resCh, wg, metrics>>
workers == <<wpc, held, outcome>>
callers == <<cpc, todo, cjob, left>>
history == <<submitted, accepted, started, collected>>
vars    == <<pool, workers, callers, history, reader, panicked>>

WorkerPC == {"none", "enter", "select", "run", "send", "leave", "exit", "done"}
CallerPC == {"idle", "start", "spawn", "send", "stop", "cancel", "close", "wait",
             "closeResults"}
Panics   == {"none", "Submit on closed jobQueue", "close of closed jobQueue",
             "close of closed resultQueue", "result on closed resultQueue"}

Live    == {g \in Goroutines : wpc[g] \notin {"none", "done"}}  \* counted by wg
Active  == {g \in Goroutines : wpc[g] \in {"select", "run", "send", "leave"}}
Running == {g \in Goroutines : wpc[g] = "run"}
Sending == {g \in Goroutines : wpc[g] = "send"}   \* job counted, result not sent

-----------------------------------------------------------------------------
Init == /\ running = FALSE /\ ctxDone = FALSE
        /\ jobQueue = <<>> /\ jobsClosed = FALSE
        /\ resultQueue = <<>> /\ resultsClosed = FALSE
        /\ wg = 0
        /\ JobsProcessed = 0 /\ JobsFailed = 0 /\ ActiveWorkers = 0
        /\ wpc = [g \in Goroutines |-> "none"]
        /\ held = [g \in Goroutines |-> NoJob]
        /\ outcome = [g \in Goroutines |-> "nil"]
        /\ cpc = [c \in Callers |-> "idle"]
        /\ todo \in Scripts
        /\ cjob = [c \in Callers |-> NoJob]
        /\ left = [c \in Callers |-> 0]
        /\ submitted = {} /\ accepted = {} /\ started = {} /\ collected = 0
        /\ reader \in Collecting
        /\ panicked = "none"

\* A caller between two calls begins the next call of its script, if that is m.
Calls(c, m) == cpc[c] = "idle" /\ todo[c] # <<>> /\ Head(todo[c]) = m
Goto(c, pc) == cpc' = [cpc EXCEPT ![c] = pc] /\ UNCHANGED todo
Return(c)   == /\ cpc' = [cpc EXCEPT ![c] = "idle"]
               /\ todo' = [todo EXCEPT ![c] = Tail(@)]
Waits(c)    == Head(todo[c]) = "ShutdownWait"
Work(g, pc) == wpc' = [wpc EXCEPT ![g] = pc]

\* A panic in any goroutine ends the process.
Panic(p) == panicked' = p /\ UNCHANGED <<pool, workers, callers, history>>
Alive    == panicked = "none"

HasRoom_OffByOne(q) == Len(q) <= QueueSize            \* MISTAKE: capacity + 1
HasRoom(q) == Len(q) < QueueSize

-----------------------------------------------------------------------------
(* Start *)

\* running.Load: a running pool is left alone.
StartLoad(c) ==
  /\ Calls(c, "Start")
  /\ IF running THEN Return(c) ELSE Goto(c, "start")
  /\ UNCHANGED <<pool, workers, cjob, left, history, panicked>>

StartStore(c) ==
  /\ cpc[c] = "start"
  /\ running' = TRUE
  /\ left' = [left EXCEPT ![c] = Workers]
  /\ Goto(c, "spawn")
  /\ UNCHANGED <<ctxDone, jobCh, resCh, wg, metrics, workers, cjob, history, panicked>>

\* wg.Add(1); go wp.worker()
StartSpawn(c, g) ==
  /\ cpc[c] = "spawn"
  /\ left[c] > 0
  /\ wpc[g] = "none"
  /\ Work(g, "enter")
  /\ wg' = wg + 1
  /\ left' = [left EXCEPT ![c] = @ - 1]
  /\ UNCHANGED <<flags, jobCh, resCh, metrics, held, outcome, cpc, todo, cjob,
                 history, panicked>>

StartReturn(c) ==
  /\ cpc[c] = "spawn"
  /\ left[c] = 0
  /\ Return(c)
  /\ UNCHANGED <<pool, workers, cjob, left, history, panicked>>

-----------------------------------------------------------------------------
(* Submit *)

Refuses_Never == FALSE                                \* MISTAKE: no check of running
Refuses == ~running

SubmitLoad(c, j) ==
  /\ Calls(c, "Submit")
  /\ j \notin submitted
  /\ submitted' = submitted \cup {j}
  /\ IF Refuses THEN Return(c) /\ UNCHANGED cjob
                ELSE Goto(c, "send") /\ cjob' = [cjob EXCEPT ![c] = j]
  /\ UNCHANGED <<pool, workers, left, accepted, started, collected, panicked>>

Enqueue_Twice(q, j) == q \o <<j, j>>                  \* MISTAKE: a second send
Enqueue(q, j) == Append(q, j)

Answer_Negated(sent) == ~sent                         \* MISTAKE: answers exchanged
Answer(sent) == sent

\* The select sends, or takes its default case when the buffer is full.
SubmitSend(c) ==
  /\ cpc[c] = "send"
  /\ ~jobsClosed
  /\ jobQueue' = IF HasRoom(jobQueue) THEN Enqueue(jobQueue, cjob[c]) ELSE jobQueue
  /\ accepted' = IF Answer(HasRoom(jobQueue)) THEN accepted \cup {cjob[c]} ELSE accepted
  /\ cjob' = [cjob EXCEPT ![c] = NoJob]
  /\ Return(c)
  /\ UNCHANGED <<flags, jobsClosed, resCh, wg, metrics, workers, left, submitted,
                 started, collected, panicked>>

\* A send on a closed channel panics, in a select with a default case too.
SubmitPanic(c) == cpc[c] = "send" /\ jobsClosed /\ Panic("Submit on closed jobQueue")

-----------------------------------------------------------------------------
(* Shutdown, and ShutdownWait, which calls it first *)

\* running.Load: on a stopped pool Shutdown returns; ShutdownWait goes on.
ShutdownLoad(c) ==
  /\ Calls(c, "Shutdown") \/ Calls(c, "ShutdownWait")
  /\ IF running THEN Goto(c, "stop")
     ELSE IF Waits(c) THEN Goto(c, "wait") ELSE Return(c)
  /\ UNCHANGED <<pool, workers, cjob, left, history, panicked>>

ShutdownStore(c) ==
  /\ cpc[c] = "stop"
  /\ running' = FALSE
  /\ Goto(c, "cancel")
  /\ UNCHANGED <<ctxDone, jobCh, resCh, wg, metrics, workers, cjob, left, history, panicked>>

ShutdownCancel(c) ==
  /\ cpc[c] = "cancel"
  /\ ctxDone' = TRUE
  /\ Goto(c, "close")
  /\ UNCHANGED <<running, jobCh, resCh, wg, metrics, workers, cjob, left, history, panicked>>

ShutdownClose(c) ==
  /\ cpc[c] = "close"
  /\ ~jobsClosed
  /\ jobsClosed' = TRUE
  /\ IF Waits(c) THEN Goto(c, "wait") ELSE Return(c)
  /\ UNCHANGED <<flags, jobQueue, resCh, wg, metrics, workers, cjob, left, history, panicked>>

ShutdownPanic(c) == cpc[c] = "close" /\ jobsClosed /\ Panic("close of closed jobQueue")

WorkersGone_Unchecked == TRUE                         \* MISTAKE: no wg.Wait
WorkersGone == wg = 0

WaitWorkers(c) ==
  /\ cpc[c] = "wait"
  /\ WorkersGone
  /\ Goto(c, "closeResults")
  /\ UNCHANGED <<pool, workers, cjob, left, history, panicked>>

CloseResults(c) ==
  /\ cpc[c] = "closeResults"
  /\ ~resultsClosed
  /\ resultsClosed' = TRUE
  /\ Return(c)
  /\ UNCHANGED <<flags, jobCh, resultQueue, wg, metrics, workers, cjob, left, history,
                 panicked>>

CloseResultsPanic(c) ==
  cpc[c] = "closeResults" /\ resultsClosed /\ Panic("close of closed resultQueue")

-----------------------------------------------------------------------------
(* worker *)

WorkerEnter(g) ==
  /\ wpc[g] = "enter"
  /\ ActiveWorkers' = ActiveWorkers + 1
  /\ Work(g, "select")
  /\ UNCHANGED <<flags, jobCh, resCh, wg, counts, held, outcome, callers, history, panicked>>

\* The select returns on ctx.Done, or when jobQueue is closed and drained.
WorkerStop(g) ==
  /\ wpc[g] = "select"
  /\ ctxDone \/ (jobsClosed /\ jobQueue = <<>>)
  /\ Work(g, "leave")
  /\ UNCHANGED <<pool, held, outcome, callers, history, panicked>>

\* The select receives a job; ctx.Done being ready as well does not forbid it.
WorkerReceive(g) ==
  /\ wpc[g] = "select"
  /\ jobQueue # <<>>
  /\ jobQueue' = Tail(jobQueue)
  /\ held' = [held EXCEPT ![g] = Head(jobQueue)]
  /\ started' = started \cup {Head(jobQueue)}
  /\ Work(g, "run")
  /\ UNCHANGED <<flags, jobsClosed, resCh, wg, metrics, outcome, callers, submitted,
                 accepted, collected, panicked>>

Succeeded_Always(r) == TRUE                           \* MISTAKE: no else branch
Succeeded(r) == r = "nil"

\* The job returns; its outcome is the job's own and is counted.
WorkerCount(g, r) ==
  /\ wpc[g] = "run"
  /\ JobsFailed' = JobsFailed + (IF r = "err" THEN 1 ELSE 0)
  /\ JobsProcessed' = JobsProcessed + (IF Succeeded(r) THEN 1 ELSE 0)
  /\ outcome' = [outcome EXCEPT ![g] = r]
  /\ held' = [held EXCEPT ![g] = NoJob]
  /\ Work(g, "send")
  /\ UNCHANGED <<flags, jobCh, resCh, wg, ActiveWorkers, callers, history, panicked>>

SendResult_Lossy(r) ==                                \* MISTAKE: a default case
  resultQueue' = IF HasRoom(resultQueue) THEN Append(resultQueue, r) ELSE resultQueue
SendResult(r) == HasRoom(resultQueue) /\ resultQueue' = Append(resultQueue, r)

AfterJob_Quits(r) == IF r = "err" THEN "leave" ELSE "select"  \* MISTAKE: return err
AfterJob(r) == "select"

\* resultQueue <- err: blocks while the buffer is full, whatever ctx says.
WorkerSend(g) ==
  /\ wpc[g] = "send"
  /\ ~resultsClosed
  /\ SendResult(outcome[g])
  /\ Work(g, AfterJob(outcome[g]))
  /\ UNCHANGED <<flags, jobCh, resultsClosed, wg, metrics, held, outcome, callers,
                 history, panicked>>

WorkerPanic(g) == wpc[g] = "send" /\ resultsClosed /\ Panic("result on closed resultQueue")

Decrement_Forgotten(n) == n                           \* MISTAKE: no deferred call
Decrement(n) == n - 1

\* The deferred ActiveWorkers.Add(-1) runs first, the deferred wg.Done last.
WorkerLeave(g) ==
  /\ wpc[g] = "leave"
  /\ ActiveWorkers' = Decrement(ActiveWorkers)
  /\ Work(g, "exit")
  /\ UNCHANGED <<flags, jobCh, resCh, wg, counts, held, outcome, callers, history, panicked>>

WorkerDone(g) ==
  /\ wpc[g] = "exit"
  /\ wg' = Decrement(wg)
  /\ Work(g, "done")
  /\ UNCHANGED <<flags, jobCh, resCh, metrics, held, outcome, callers, history, panicked>>

-----------------------------------------------------------------------------
(* The reader of resultQueue: in the repository only the tests have one. *)
Collect ==
  /\ reader
  /\ resultQueue # <<>>
  /\ resultQueue' = Tail(resultQueue)
  /\ collected' = collected + 1
  /\ UNCHANGED <<flags, jobCh, resultsClosed, wg, metrics, workers, callers, submitted,
                 accepted, started, reader, panicked>>

WorkerStep(g) == /\ \/ WorkerEnter(g) \/ WorkerStop(g) \/ WorkerReceive(g)
                    \/ \E r \in Results : WorkerCount(g, r)
                    \/ WorkerSend(g) \/ WorkerPanic(g) \/ WorkerLeave(g) \/ WorkerDone(g)
                 /\ UNCHANGED reader

CallerStep(c) == /\ \/ StartLoad(c) \/ StartStore(c) \/ StartReturn(c)
                    \/ \E g \in Goroutines : StartSpawn(c, g)
                    \/ \E j \in Jobs : SubmitLoad(c, j)
                    \/ SubmitSend(c) \/ SubmitPanic(c)
                    \/ ShutdownLoad(c) \/ ShutdownStore(c) \/ ShutdownCancel(c)
                    \/ ShutdownClose(c) \/ ShutdownPanic(c)
                    \/ WaitWorkers(c) \/ CloseResults(c) \/ CloseResultsPanic(c)
                 /\ UNCHANGED reader

Next == Alive /\ \/ \E g \in Goroutines : WorkerStep(g)
                 \/ \E c \in Callers : CallerStep(c)
                 \/ Collect

Spec == Init /\ [][Next]_vars

\* The Go scheduler runs every goroutine that can take a step; jobs return.
Fairness == /\ \A g \in Goroutines : WF_vars(Alive /\ WorkerStep(g))
            /\ \A c \in Callers : WF_vars(Alive /\ CallerStep(c))
            /\ WF_vars(Alive /\ Collect)

FairSpec == Spec /\ Fairness

-----------------------------------------------------------------------------
\* What each variable holds.
PoolType ==
  /\ running \in BOOLEAN /\ ctxDone \in BOOLEAN
  /\ jobsClosed \in BOOLEAN /\ resultsClosed \in BOOLEAN
  /\ jobQueue \in Seq(Jobs) /\ Len(jobQueue) <= QueueSize
  /\ resultQueue \in Seq(Results) /\ Len(resultQueue) <= QueueSize
  /\ wg \in Int /\ ActiveWorkers \in Int
  /\ JobsProcessed \in Nat /\ JobsFailed \in Nat

WorkerType ==
  /\ wpc \in [Goroutines -> WorkerPC]
  /\ held \in [Goroutines -> Jobs \cup {NoJob}]
  /\ outcome \in [Goroutines -> Results]

CallerType ==
  /\ cpc \in [Callers -> CallerPC]
  /\ todo \in [Callers -> Seq(Methods)]
  /\ \A c \in Callers : cpc[c] # "idle" => todo[c] # <<>>   \* the call it is in
  /\ cjob \in [Callers -> Jobs \cup {NoJob}]
  /\ \A c \in Callers : cpc[c] = "send" => cjob[c] \in Jobs
  /\ left \in [Callers -> Nat]

HistoryType ==
  /\ submitted \subseteq Jobs /\ accepted \subseteq Jobs /\ started \subseteq Jobs
  /\ collected \in Nat
  /\ panicked \in Panics

TypeOK == PoolType /\ WorkerType /\ CallerType /\ HistoryType /\ reader \in BOOLEAN

-----------------------------------------------------------------------------
(* Whatever the callers do *)

Queued == {jobQueue[i] : i \in DOMAIN jobQueue}

\* An accepted job waits in jobQueue or has been started, never both and never
\* twice in the queue; no two workers hold the same job; a job on its way into
\* the queue is not in it yet and belongs to one caller.
JobsPlaced ==
  /\ accepted = Queued \cup started
  /\ Queued \cap started = {}
  /\ \A i, k \in DOMAIN jobQueue : i # k => jobQueue[i] # jobQueue[k]
  /\ accepted \subseteq submitted
  /\ \A g \in Running : held[g] \in started
  /\ \A g, h \in Running : g # h => held[g] # held[h]
  /\ \A c \in Callers : cpc[c] = "send" => cjob[c] \in submitted \ accepted
  /\ \A c, d \in Callers : /\ c # d
                           /\ cpc[c] = "send"
                           /\ cpc[d] = "send"
                          => cjob[c] # cjob[d]

\* A job the metrics count has its result in exactly one place: collected, in
\* resultQueue, or with a worker that is about to send it.
ResultsAccounted ==
  JobsProcessed + JobsFailed = collected + Len(resultQueue) + Cardinality(Sending)

\* A started job is counted once, when it returns.
JobsAccounted ==
  Cardinality(started) = JobsProcessed + JobsFailed + Cardinality(Running)

\* wg counts the spawned workers that have not returned, ActiveWorkers those
\* between their increment and their deferred decrement.
CountersExact == /\ wg = Cardinality(Live)
                 /\ ActiveWorkers = Cardinality(Active)

\* No worker ever receives a job that was started before.
NoJobTwice ==
  [][\A g \in Goroutines :
        wpc[g] = "select" /\ wpc'[g] = "run" => held'[g] \notin started]_vars

\* The pool keeps the promise of JobService.
Service == INSTANCE JobService WITH closed <- jobsClosed
ImplementsService == Service!Spec

-----------------------------------------------------------------------------
(* With one caller that starts the pool and later shuts it down *)

Stops == {"Shutdown", "ShutdownWait"}

\* The calls s when o owns the pool: the others only submit; o starts nothing after
\* a shutdown and waits for the workers at most once.
OneOwner(o, s) ==
  /\ \A c \in Callers \ {o} : \A i \in DOMAIN s[c] : s[c][i] = "Submit"
  /\ \A i, k \in DOMAIN s[o] :
       i < k => /\ ~(s[o][i] \in Stops /\ s[o][k] = "Start")
                /\ ~(s[o][i] = "ShutdownWait" /\ s[o][k] = "ShutdownWait")

\* When ShutdownWait has closed resultQueue no worker is left to send on it, and no
\* call of the owner panics; only a Submit that races the shutdown does.
QuietAfterWait == /\ resultsClosed => Live = {}
                  /\ panicked \in {"none", "Submit on closed jobQueue"}

\* A Submit that begins after the queue was closed is refused.
StoppedPoolRefuses ==
  [][\A c \in Callers : cpc[c] = "idle" /\ cpc'[c] = "send" => ~jobsClosed]_vars

\* ShutdownWait returns, always when somebody receives the results.  When nobody does it
\* may hang, for one reason only: a worker has a result to send and no room for it.
Clogged == ~reader /\ ~HasRoom(resultQueue) /\ Sending # {}
ShutdownWaitReturns ==
  \A c \in Callers : cpc[c] = "stop" ~> (cpc[c] = "idle" \/ ~Alive \/ Clogged)

\* In the end the result of every started job has been received by the reader, and while nobody
\* shuts the pool down every accepted job is started, after failed jobs too.
Settled == /\ collected = Cardinality(started)
           /\ ctxDone \/ started = accepted
EveryResultArrives == reader => <>[](Settled \/ ~Alive)

-----------------------------------------------------------------------------
(* What a test says and the code does not do *)

\* worker_test.go: Submit to a stopped pool answers false.  The running check
\* and the send are two steps, so Submit can panic instead.
SubmitNeverPanics == panicked # "Submit on closed jobQueue"

=============================================================================
