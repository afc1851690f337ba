---------------------------- MODULE ListCommands ----------------------------
(***************************************************************************)
(* Three commands that hand a list to workers: "subdomain brute", "bgp     *)
(* bulk" and "port detail multi".  They share a buffered channel with room *)
(* for the whole list and workers that range over it, and differ in who    *)
(* feeds it, who looks at the context and how the results come back: brute *)
(* and bulk through a channel that a closer closes and the command reads,  *)
(* multi by appends under a mutex.  A place in the list is one job, since  *)
(* the list of brute names some prefixes twice.  A definition marked       *)
(* MISTAKE is a wrong version of the one that follows.                     *)
(***************************************************************************)
EXTENDS FanOutParameters

VARIABLES
  cmd,                    \* the command that runs
  targets, workers,       \* its list; its workers, none with --threads 0
  queue, closed, fed,     \* jobCh, workerCh or portCh; it is closed; places fed or passed over
  wpc, held,              \* where each worker is and the place it holds
  conns,                  \* multi: connections each worker has not closed yet
  cancelled,              \* ctx.Err() # nil
  results, resultsClosed, \* resultCh of brute, results of bulk
  found,                  \* what the command has read (brute, bulk) or been appended (multi)
  probed, hits,           \* history: places whose probe returned, and with success
  reported                \* the command is about to return

input   == <<cmd, targets, workers>>
feed    == <<queue, closed, fed>>
output  == <<results, resultsClosed, found>>
history == <<probed, hits>>
listVars == <<input, feed, wpc, held, conns, cancelled, output, history, reported>>

Places == DOMAIN targets
Jobs   == {i \in Places : targets[i] # Blank}

\* Only a file has blank lines, and at least one line; only the ports of multi
\* can all be rejected.  bulk starts 20 workers, the others --threads.
Init == /\ cmd \in {"brute", "bulk", "multi"}
        /\ targets \in Lists
        /\ workers \in {{}, Threads}
        /\ cmd # "bulk" => Jobs = Places
        /\ cmd # "multi" => targets # <<>>
        /\ cmd = "bulk" => workers = Threads
        /\ queue = <<>> /\ closed = FALSE /\ fed = 0
        /\ wpc = [w \in workers |-> "receive"]
        /\ held = [w \in workers |-> NoJob]
        /\ conns = [w \in workers |-> {}]
        /\ cancelled = FALSE
        /\ results = <<>> /\ resultsClosed = FALSE /\ found = <<>>
        /\ probed = {} /\ hits = {}
        /\ reported = FALSE

Work(w, pc) == wpc' = [wpc EXCEPT ![w] = pc]
Hold(w, i)  == held' = [held EXCEPT ![w] = i]

Fits_One(ch) == Len(ch) < 1                \* MISTAKE: room for one place
Fits(ch) == Len(ch) < Len(targets)         \* every channel has room for the whole list

-----------------------------------------------------------------------------
(* Feeding: a goroutine of brute and of bulk, the command itself in multi. *)

Feed == /\ ~closed
        /\ fed < Len(targets)
        /\ Fits(queue)
        /\ queue' = Append(queue, fed + 1)
        /\ fed' = fed + 1
        /\ UNCHANGED <<input, closed, wpc, held, conns, cancelled, output, history, reported>>

PassTo_Two == fed + 2                          \* MISTAKE: passes over two places
PassTo == fed + 1

\* brute: the break on ctx.Done() leaves the select and not the loop.
Skip == /\ cmd = "brute"
        /\ cancelled
        /\ fed < Len(targets)
        /\ fed' = PassTo
        /\ UNCHANGED <<input, queue, closed, wpc, held, conns, cancelled, output, history, reported>>

CloseQueue == /\ ~closed
              /\ fed = Len(targets)
              /\ closed' = TRUE
              /\ UNCHANGED <<input, queue, fed, wpc, held, conns, cancelled, output,
                             history, reported>>

-----------------------------------------------------------------------------
(* Workers *)

Receive(w) == /\ wpc[w] = "receive"
              /\ queue # <<>>
              /\ Hold(w, Head(queue))
              /\ queue' = Tail(queue)
              /\ Work(w, IF cmd = "brute" THEN "check" ELSE "probe")
              /\ UNCHANGED <<input, closed, fed, conns, cancelled, output, history, reported>>

\* The range ends; the deferred conn.Close calls of multi run only now.
Drained(w) == /\ wpc[w] = "receive"
              /\ queue = <<>>
              /\ closed
              /\ Work(w, "done")
              /\ conns' = [conns EXCEPT ![w] = {}]
              /\ UNCHANGED <<input, feed, held, cancelled, output, history, reported>>

\* brute: if ctx.Err() != nil { return }
GiveUp(w) == /\ wpc[w] = "check"
             /\ cancelled
             /\ Hold(w, NoJob)
             /\ Work(w, "done")
             /\ UNCHANGED <<input, feed, conns, cancelled, output, history, reported>>

GoOn(w) == /\ wpc[w] = "check"
           /\ ~cancelled
           /\ Work(w, "probe")
           /\ UNCHANGED <<input, feed, held, conns, cancelled, output, history, reported>>

\* bulk: a blank line and a comment are passed over.
PassOver(w) == /\ cmd = "bulk"
               /\ wpc[w] = "probe"
               /\ held[w] \notin Jobs
               /\ Hold(w, NoJob)
               /\ Work(w, "receive")
               /\ UNCHANGED <<input, feed, conns, cancelled, output, history, reported>>

Answered(w, ok) == /\ wpc[w] = "probe"
                   /\ held[w] \in Jobs
                   /\ probed' = probed \cup {held[w]}
                   /\ hits' = IF ok THEN hits \cup {held[w]} ELSE hits
                   /\ UNCHANGED <<input, feed, cancelled, output, reported>>

Delivers_Hits(ok) == ok                         \* MISTAKE: bulk drops what failed
Delivers(ok) == ok \/ cmd = "bulk"

\* net.LookupHost and cymruOriginLookup: brute sends what resolves, bulk sends
\* errors, too, those of a context that is done among them.
LookUp(w, ok) == /\ cmd \in {"brute", "bulk"}
                 /\ Answered(w, ok)
                 /\ IF Delivers(ok) THEN Work(w, "deliver") /\ UNCHANGED held
                                    ELSE Work(w, "receive") /\ Hold(w, NoJob)
                 /\ UNCHANGED conns

\* multi: net.DialTimeout, and grabBannerTCP on a connection of its own.
Dial(w, ok) == /\ cmd = "multi"
               /\ Answered(w, ok)
               /\ IF ok THEN Work(w, "deliver") /\ conns' = [conns EXCEPT ![w] = @ \cup {held[w]}] /\ UNCHANGED held
                        ELSE Work(w, "receive") /\ Hold(w, NoJob) /\ UNCHANGED conns

Deliver(w) == /\ wpc[w] = "deliver"
              /\ IF cmd = "multi"
                 THEN found' = Append(found, held[w]) /\ UNCHANGED results
                 ELSE Fits(results) /\ results' = Append(results, held[w]) /\ UNCHANGED found
              /\ Hold(w, NoJob)
              /\ Work(w, "receive")
              /\ UNCHANGED <<input, feed, conns, cancelled, resultsClosed, history, reported>>

-----------------------------------------------------------------------------
(* The end *)

WorkersGone_One == workers = {} \/ \E w \in workers : wpc[w] = "done"  \* MISTAKE: one wg.Add
WorkersGone == \A w \in workers : wpc[w] = "done"

\* brute, bulk: wg.Wait, then close of the results.
CloseResults == /\ cmd \in {"brute", "bulk"}
                /\ ~resultsClosed
                /\ WorkersGone
                /\ resultsClosed' = TRUE
                /\ UNCHANGED <<input, feed, wpc, held, conns, cancelled, results, found,
                               history, reported>>

Collect == /\ cmd \in {"brute", "bulk"}
           /\ results # <<>>
           /\ found' = Append(found, Head(results))
           /\ results' = Tail(results)
           /\ UNCHANGED <<input, feed, wpc, held, conns, cancelled, resultsClosed, history,
                          reported>>

\* brute and bulk have read all results; multi has fed its list and waited.
Finish == /\ IF cmd = "multi" THEN closed /\ WorkersGone
                              ELSE resultsClosed /\ results = <<>>
          /\ reported' = TRUE
          /\ UNCHANGED <<input, feed, wpc, held, conns, cancelled, output, history>>

\* The timeout.  The context of multi has no reader.
Timeout == /\ cmd \in {"brute", "bulk"}
           /\ ~cancelled
           /\ cancelled' = TRUE
           /\ UNCHANGED <<input, feed, wpc, held, conns, output, history, reported>>

Feeder        == Feed \/ Skip \/ CloseQueue
WorkerStep(w) == \/ Receive(w) \/ Drained(w) \/ GiveUp(w) \/ GoOn(w) \/ PassOver(w)
                 \/ \E ok \in BOOLEAN : LookUp(w, ok) \/ Dial(w, ok)
                 \/ Deliver(w)
Ending        == CloseResults \/ Collect \/ Finish

Next == ~reported /\ (Feeder \/ (\E w \in workers : WorkerStep(w)) \/ Ending \/ Timeout)

Spec == Init /\ [][Next]_listVars

-----------------------------------------------------------------------------
Elems(s)  == {s[i] : i \in DOMAIN s}
Unique(s) == \A i, j \in DOMAIN s : i # j => s[i] # s[j]

\* Queued and held jobs are places of the list, results are places probed.
TypeOK == /\ cmd \in {"brute", "bulk", "multi"}
          /\ workers \in {{}, Threads}
          /\ queue \in Seq(Places) /\ fed \in 0 .. Len(targets)
          /\ wpc \in [workers -> {"receive", "check", "probe", "deliver", "done"}]
          /\ held \in [workers -> Places \cup {NoJob}]
          /\ conns \in [workers -> SUBSET hits]
          /\ results \in Seq(probed) /\ found \in Seq(probed)
          /\ hits \subseteq probed /\ probed \subseteq Jobs
          /\ closed \in BOOLEAN /\ resultsClosed \in BOOLEAN
          /\ cancelled \in BOOLEAN /\ reported \in BOOLEAN

AtWork(w) == wpc[w] \in {"check", "probe"}
Dropping  == cmd = "brute" /\ cancelled

\* A place that has been fed is at one place: in the queue, in the hands of one worker
\* that has yet to look it up, or looked up and nowhere else.
HeldOnce == /\ Unique(queue) /\ Elems(queue) \cap probed = {}
            /\ \A w \in workers : AtWork(w) => held[w] \notin Elems(queue) \cup probed
            /\ \A v, w \in workers : v # w /\ AtWork(v) /\ AtWork(w) => held[v] # held[w]
NoneDropped == \A i \in Jobs : i \in 1 .. fed =>
                 Dropping \/ i \in Elems(queue) \cup probed \/ \E w \in workers : AtWork(w) /\ held[w] = i

\* No place is looked up twice, and only the timeout of brute makes the feeder pass one
\* over or a worker drop one.  Each is reported at most once, by bulk every line that
\* is no comment exactly once and even when the timeout has made its lookup fail.
\* The command returns after its last worker; the connections of multi stay open
\* until their worker returns, and no longer.
ListAnswered ==
  /\ HeldOnce /\ NoneDropped
  /\ Unique(found \o results)
  /\ cmd = "bulk" /\ reported => Elems(found) = Jobs
  /\ cmd = "multi" => \A i \in hits : \E w \in workers : i \in conns[w] \/ wpc[w] = "done"
  /\ reported => /\ WorkersGone /\ results = <<>>
                 /\ \A w \in workers : conns[w] = {}

\* How often the report has each place, by bulk those whose lookup succeeded: with a
\* worker at least, the commands keep the promise of a fan-out about it.
Report == [i \in Jobs |-> IF reported /\ (cmd = "bulk" => i \in hits) THEN Times(found, i) ELSE 0]

=============================================================================
