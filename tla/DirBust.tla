------------------------------ MODULE DirBust ------------------------------
(***************************************************************************)
(* "http dir" of cmd/cli/http.go: the command itself feeds the paths to a  *)
(* pool of workers, closes the channel, waits for the workers and only     *)
(* then reads the results channel, whose buffer is as large as the pool.   *)
(* The timeout may pass at any moment; then feeding jumps to label done,   *)
(* past both closes.  The model starts when the workers are spawned.       *)
(* A definition marked MISTAKE is a wrong version of the one that follows, *)
(* kept to see that the properties notice it.                              *)
(***************************************************************************)
EXTENDS Ordering

CONSTANTS Paths,     \* the paths, in order and all different
          Threads,   \* the worker goroutines
          Statuses,  \* the HTTP status codes the server may answer with
          NoPath,    \* what a worker without a path holds
          NoThread   \* the holder of a free mutex

ASSUME PathsAssumption ==
  /\ Paths \in Seq({Paths[i] : i \in DOMAIN Paths})
  /\ \A i, k \in DOMAIN Paths : Paths[i] # NoPath /\ (i # k => Paths[i] # Paths[k])
ASSUME ThreadsAssumption  == IsFiniteSet(Threads) /\ Threads # {} /\ NoThread \notin Threads
ASSUME StatusesAssumption == Statuses \subseteq 100 .. 599

VARIABLES
  pathCh, pathsClosed,      \* buffer of pathCh, which has room for all Paths; it is closed
  results, resultsClosed,   \* buffer of results, <<path, status>>; it is closed
  fed,                      \* paths the command has sent
  wpc, path, status,        \* where each worker is, its path and the status it got
  mu,                       \* holder of mu
  cancelled,                \* the timeout has passed
  main,                     \* "feed", "wait", "read" (from label done on) or "reported"
  listed,                   \* the paths printed
  probed, answered          \* history: requests that ended; <<path, status>> of responses

feedCh  == <<pathCh, pathsClosed, fed>>
resCh   == <<results, resultsClosed>>
worker  == <<wpc, path, status>>
history == <<probed, answered>>
vars    == <<feedCh, resCh, worker, mu, cancelled, main, listed, history>>

Elems(s) == {s[i] : i \in DOMAIN s}
AllPaths == Elems(Paths)
Answers  == AllPaths \X Statuses

Init == /\ pathCh = <<>> /\ pathsClosed = FALSE /\ fed = 0
        /\ results = <<>> /\ resultsClosed = FALSE
        /\ wpc = [w \in Threads |-> "receive"]
        /\ path = [w \in Threads |-> NoPath]
        /\ status = [w \in Threads |-> 0]
        /\ mu = NoThread
        /\ cancelled = FALSE
        /\ main = "feed"
        /\ listed = <<>>
        /\ probed = {} /\ answered = {}

Work(w, pc) == wpc' = [wpc EXCEPT ![w] = pc]
HasRoom_OffByOne(q) == Len(q) <= Cardinality(Threads)  \* MISTAKE: capacity + 1
HasRoom(q)  == Len(q) < Cardinality(Threads)

-----------------------------------------------------------------------------
(* The command *)

Feed == /\ main = "feed"
        /\ fed < Len(Paths)
        /\ pathCh' = Append(pathCh, Paths[fed + 1])
        /\ fed' = fed + 1
        /\ UNCHANGED <<pathsClosed, resCh, worker, mu, cancelled, main, listed, history>>

\* case <-ctx.Done(): goto done
Jump == /\ main = "feed"
        /\ fed < Len(Paths)
        /\ cancelled
        /\ main' = "read"
        /\ UNCHANGED <<feedCh, resCh, worker, mu, cancelled, listed, history>>

ClosePaths == /\ main = "feed"
              /\ fed = Len(Paths)
              /\ pathsClosed' = TRUE
              /\ main' = "wait"
              /\ UNCHANGED <<pathCh, fed, resCh, worker, mu, cancelled, listed, history>>

WorkersGone == \A w \in Threads : wpc[w] = "done"

\* wg.Wait(); close(results)
CloseResults == /\ main = "wait"
                /\ WorkersGone
                /\ resultsClosed' = TRUE
                /\ main' = "read"
                /\ UNCHANGED <<feedCh, results, worker, mu, cancelled, listed, history>>

Interesting_OffByOne(s) == s <= 400 \/ s \in {401, 403}  \* MISTAKE: 400 is listed
Interesting(s) == s < 400 \/ s \in {401, 403}

Read == /\ main = "read"
        /\ results # <<>>
        /\ results' = Tail(results)
        /\ listed' = LET r == Head(results)
                     IN  IF Interesting(r[2]) THEN Append(listed, r[1]) ELSE listed
        /\ UNCHANGED <<feedCh, resultsClosed, worker, mu, cancelled, main, history>>

\* range results ends when the channel is closed and empty.
Report == /\ main = "read"
          /\ results = <<>>
          /\ resultsClosed
          /\ main' = "reported"
          /\ UNCHANGED <<feedCh, resCh, worker, mu, cancelled, listed, history>>

-----------------------------------------------------------------------------
(* A worker *)

Receive(w) == /\ wpc[w] = "receive"
              /\ pathCh # <<>>
              /\ path' = [path EXCEPT ![w] = Head(pathCh)]
              /\ pathCh' = Tail(pathCh)
              /\ Work(w, "check")
              /\ UNCHANGED <<pathsClosed, fed, resCh, status, mu, cancelled, main, listed, history>>

Drained(w) == /\ wpc[w] = "receive"
              /\ pathCh = <<>>
              /\ pathsClosed
              /\ Work(w, "done")
              /\ UNCHANGED <<feedCh, resCh, path, status, mu, cancelled, main, listed, history>>

\* if ctx.Err() != nil { return }, else the request is sent.
Check(w) == /\ wpc[w] = "check"
            /\ Work(w, IF cancelled THEN "done" ELSE "request")
            /\ UNCHANGED <<feedCh, resCh, path, status, mu, cancelled, main, listed, history>>

\* client.Do fails, for instance because the context is done: continue.
Fail(w) == /\ wpc[w] = "request"
           /\ probed' = probed \cup {path[w]}
           /\ Work(w, "receive")
           /\ UNCHANGED <<feedCh, resCh, path, status, mu, cancelled, main, listed, answered>>

Respond(w, s) == /\ wpc[w] = "request"
                 /\ probed' = probed \cup {path[w]}
                 /\ answered' = answered \cup {<<path[w], s>>}
                 /\ status' = [status EXCEPT ![w] = s]
                 /\ Work(w, "lock")
                 /\ UNCHANGED <<feedCh, resCh, path, mu, cancelled, main, listed>>

Lock(w) == /\ wpc[w] = "lock"
           /\ mu = NoThread
           /\ mu' = w
           /\ Work(w, "send")
           /\ UNCHANGED <<feedCh, resCh, path, status, cancelled, main, listed, history>>

Unlocked_Forgotten == mu                               \* MISTAKE: no mu.Unlock
Unlocked == NoThread

\* results <- r; mu.Unlock().  The send blocks while the buffer is full, with
\* the mutex held.
SendResult(w) == /\ wpc[w] = "send"
                 /\ HasRoom(results)
                 /\ results' = Append(results, <<path[w], status[w]>>)
                 /\ mu' = Unlocked
                 /\ Work(w, "receive")
                 /\ UNCHANGED <<feedCh, resultsClosed, path, status, cancelled, main, listed,
                                history>>

-----------------------------------------------------------------------------
Timeout == /\ ~cancelled
           /\ cancelled' = TRUE
           /\ UNCHANGED <<feedCh, resCh, worker, mu, main, listed, history>>

Command == Feed \/ Jump \/ ClosePaths \/ CloseResults \/ Read \/ Report
WorkerStep(w) == \/ Receive(w) \/ Drained(w) \/ Check(w) \/ Fail(w)
                 \/ \E s \in Statuses : Respond(w, s)
                 \/ Lock(w) \/ SendResult(w)

Running == main # "reported"
Next == Running /\ (Command \/ (\E w \in Threads : WorkerStep(w)) \/ Timeout)

Spec == Init /\ [][Next]_vars

\* Goroutines that can run do, a request ends, and the timeout passes.
Fairness == /\ WF_vars(Running /\ Command)
            /\ \A w \in Threads : WF_vars(Running /\ WorkerStep(w))
            /\ WF_vars(Running /\ Timeout)

FairSpec == Spec /\ Fairness

-----------------------------------------------------------------------------
\* What each variable holds; results never holds more than its buffer.
TypeOK == /\ pathCh \in Seq(AllPaths) /\ pathsClosed \in BOOLEAN
          /\ fed \in 0 .. Len(Paths)
          /\ results \in Seq(Answers) /\ Len(results) <= Cardinality(Threads)
          /\ resultsClosed \in BOOLEAN /\ cancelled \in BOOLEAN
          /\ wpc \in [Threads -> {"receive", "check", "request", "lock", "send", "done"}]
          /\ path \in [Threads -> AllPaths \cup {NoPath}]
          /\ status \in [Threads -> Statuses \cup {0}]
          /\ mu \in Threads \cup {NoThread}
          /\ main \in {"feed", "wait", "read", "reported"}
          /\ listed \in Seq(AllPaths)
          /\ probed \subseteq AllPaths /\ answered \subseteq Answers

\* Successes, redirects, 401 and 403.
Interest == {a[1] : a \in {b \in answered : b[2] \notin {400, 402} \cup 404 .. 599}}
Unsent   == {w \in Threads : wpc[w] \in {"lock", "send"}}

\* The mutex is held by the worker that sends, and each response is in one place:
\* with its worker, in results, or read.  Nobody sends on results once it is closed,
\* which would panic.
ResponsesKept ==
  /\ \A w \in Threads : wpc[w] = "send" <=> mu = w
  /\ \A w \in Unsent : <<path[w], status[w]>> \in answered \ Elems(results)
  /\ Cardinality(answered) >= Len(results) + Cardinality(Unsent) + Len(listed)
  /\ main \in {"feed", "wait"} =>
       Cardinality(answered) = Len(results) + Cardinality(Unsent)
  /\ resultsClosed => Unsent = {}

\* The command keeps the promise of a fan-out command: a path whose response is of
\* interest is listed once, one whose status is 400 or another error not at all.
Promise == INSTANCE FanOut
           WITH items <- AllPaths, hits <- Interest, reported <- (main = "reported"),
                report <- [p \in AllPaths |-> IF main = "reported" THEN Times(listed, p) ELSE 0]
KeepsPromise == Promise!Spec

\* The command ends, or hangs in one of two ways: it waits for workers one of which
\* finds no room for its response, or it reads on after a jump.
Full   == main = "wait" /\ ~HasRoom(results) /\ Unsent # {}
Jumped == main = "read" /\ cancelled /\ fed < Len(Paths) /\ ~resultsClosed
EndsOrHangs == <>(main = "reported" \/ Full \/ Jumped)

\* README: all operations respect the context.  The workers block on results, which
\* nobody reads before they are gone, whatever the timeout does.
WaitEndsAfterTimeout == (main = "wait" /\ cancelled) ~> main = "reported"

=============================================================================
