------------------------------ MODULE PortScan ------------------------------
(***************************************************************************)
(* "port scan" of cmd/cli/network.go: one goroutine feeds the ports to a   *)
(* pool of workers, the command waits for the workers and prints what they *)
(* found; the context may be cancelled by SIGINT, SIGTERM or the timeout   *)
(* at any moment.  The model starts when the workers and the producer have *)
(* been spawned and stops when the report is printed, since the process    *)
(* then exits.  A definition marked MISTAKE is a wrong version of the one  *)
(* that follows, kept to see that the properties notice it.                *)
(***************************************************************************)
EXTENDS Ordering

CONSTANTS Ports,    \* commonPorts, in order, all different
          Threads,  \* the worker goroutines
          NoPort    \* what a worker without a port holds

ASSUME PortsAssumption ==
  /\ Ports \in Seq(Nat)
  /\ \A i, k \in DOMAIN Ports : Ports[i] # NoPort /\ (i # k => Ports[i] # Ports[k])
ASSUME ThreadsAssumption == IsFiniteSet(Threads) /\ Threads # {}   \* --threads > 0

VARIABLES
  jobCh, closed,     \* buffer of jobCh, which has room for all Ports; it is closed
  sent, producer,    \* ports the producer has sent; "send" until it returns
  wpc, port,         \* where each worker is and the port it has received
  cancelled,         \* ctx.Err() != nil
  openPorts,         \* openPorts, in the order of the appends
  probed, answered,  \* history: ports whose dial returned, and with no error
  reported, report   \* the report is printed; the ports in it

chan    == <<jobCh, closed, sent, producer>>
history == <<probed, answered>>
output  == <<reported, report>>
vars    == <<chan, wpc, port, cancelled, openPorts, history, output>>

Elems(s) == {s[i] : i \in DOMAIN s}
AllPorts == Elems(Ports)

Init == /\ jobCh = <<>> /\ closed = FALSE
        /\ sent = 0 /\ producer = "send"
        /\ wpc = [w \in Threads |-> "receive"]
        /\ port = [w \in Threads |-> NoPort]
        /\ cancelled = FALSE
        /\ openPorts = <<>>
        /\ probed = {} /\ answered = {}
        /\ reported = FALSE /\ report = <<>>

Work(w, pc) == wpc' = [wpc EXCEPT ![w] = pc]
Hold(w, p)  == port' = [port EXCEPT ![w] = p]

-----------------------------------------------------------------------------
(* The producer.  Its select may take either case when both are ready. *)

Advance_Skipping(n) == n + 2                          \* MISTAKE: every second port
Advance(n) == n + 1

Send == /\ producer = "send"
        /\ sent < Len(Ports)
        /\ jobCh' = Append(jobCh, Ports[sent + 1])
        /\ sent' = Advance(sent)
        /\ UNCHANGED <<closed, producer, wpc, port, cancelled, openPorts, history, output>>

\* case <-ctx.Done(): return, before the close.
Abandon == /\ producer = "send"
           /\ sent < Len(Ports)
           /\ cancelled
           /\ producer' = "done"
           /\ UNCHANGED <<jobCh, closed, sent, wpc, port, cancelled, openPorts, history, output>>

ClosedAtEnd_Never == FALSE                            \* MISTAKE: no close(jobCh)
ClosedAtEnd == TRUE

CloseJobs == /\ producer = "send"
             /\ sent >= Len(Ports)
             /\ closed' = ClosedAtEnd
             /\ producer' = "done"
             /\ UNCHANGED <<jobCh, sent, wpc, port, cancelled, openPorts, history, output>>

-----------------------------------------------------------------------------
(* A worker *)

Receive(w) == /\ wpc[w] = "receive"
              /\ jobCh # <<>>
              /\ Hold(w, Head(jobCh))
              /\ jobCh' = Tail(jobCh)
              /\ Work(w, "check")
              /\ UNCHANGED <<closed, sent, producer, cancelled, openPorts, history, output>>

\* range jobCh ends when the channel is closed and empty.
Drained(w) == /\ wpc[w] = "receive"
              /\ jobCh = <<>>
              /\ closed
              /\ Work(w, "done")
              /\ UNCHANGED <<chan, port, cancelled, openPorts, history, output>>

Expired == cancelled

\* if ctx.Err() != nil { return }: the port it holds is dropped.
GiveUp(w) == /\ wpc[w] = "check"
             /\ Expired
             /\ Hold(w, NoPort)
             /\ Work(w, "done")
             /\ UNCHANGED <<chan, cancelled, openPorts, history, output>>

Dial(w) == /\ wpc[w] = "check"
           /\ ~cancelled
           /\ Work(w, "dial")
           /\ UNCHANGED <<chan, port, cancelled, openPorts, history, output>>

\* The dial fails or times out: on to the next port.
Refused(w) == /\ wpc[w] = "dial"
              /\ probed' = probed \cup {port[w]}
              /\ Hold(w, NoPort)
              /\ Work(w, "receive")
              /\ UNCHANGED <<chan, cancelled, openPorts, answered, output>>

Connected(w) == /\ wpc[w] = "dial"
                /\ probed' = probed \cup {port[w]}
                /\ answered' = answered \cup {port[w]}
                /\ Work(w, "append")
                /\ UNCHANGED <<chan, port, cancelled, openPorts, output>>

\* MISTAKE: a port that is open is appended again
Recorded_Twice(p) == Append(Append(openPorts, p), p)
Recorded(p) == Append(openPorts, p)

\* The append under mu.
RecordOpen(w) == /\ wpc[w] = "append"
                 /\ openPorts' = Recorded(port[w])
                 /\ Hold(w, NoPort)
                 /\ Work(w, "receive")
                 /\ UNCHANGED <<chan, cancelled, history, output>>

-----------------------------------------------------------------------------
\* SIGINT, SIGTERM, or the timeout.
Cancel == /\ ~cancelled
          /\ cancelled' = TRUE
          /\ UNCHANGED <<chan, wpc, port, openPorts, history, output>>

WorkersGone == \A w \in Threads : wpc[w] = "done"

\* sort.Ints; two equal ports stay as they are.
Below(s)  == {e \in (DOMAIN s) \X (DOMAIN s) :
                s[e[1]] < s[e[2]] \/ (s[e[1]] = s[e[2]] /\ e[1] < e[2])}
Sorted(s) == Arrange(s, DOMAIN s, Below(s))

\* wg.Wait, the sort, the listing.
Report == /\ WorkersGone
          /\ reported' = TRUE
          /\ report' = Sorted(openPorts)
          /\ UNCHANGED <<chan, wpc, port, cancelled, openPorts, history>>

Producer      == Send \/ Abandon \/ CloseJobs
WorkerStep(w) == \/ Receive(w) \/ Drained(w) \/ GiveUp(w) \/ Dial(w)
                 \/ Refused(w) \/ Connected(w) \/ RecordOpen(w)

Next == ~reported /\ (Producer \/ (\E w \in Threads : WorkerStep(w)) \/ Cancel \/ Report)

Spec == Init /\ [][Next]_vars

\* Goroutines that can run do; a dial returns within its five seconds.  Nothing
\* makes a cancel happen.
Fairness == /\ WF_vars(~reported /\ Producer)
            /\ \A w \in Threads : WF_vars(~reported /\ WorkerStep(w))
            /\ WF_vars(~reported /\ Report)

FairSpec == Spec /\ Fairness

-----------------------------------------------------------------------------
\* What each variable holds; the producer sends no port that is not in the list.
TypeOK == /\ jobCh \in Seq(AllPorts) /\ Len(jobCh) <= Len(Ports)
          /\ closed \in BOOLEAN /\ cancelled \in BOOLEAN /\ reported \in BOOLEAN
          /\ sent \in 0 .. Len(Ports)
          /\ producer \in {"send", "done"}
          /\ wpc \in [Threads -> {"receive", "check", "dial", "append", "done"}]
          /\ port \in [Threads -> AllPorts \cup {NoPort}]
          /\ openPorts \in Seq(AllPorts) /\ report \in Seq(AllPorts)
          /\ answered \subseteq probed /\ probed \subseteq AllPorts

\* The scan keeps the promise of a fan-out command: no port is dialled twice, none
\* that answered is missing from the report or listed twice, and no other is listed.
Promise == INSTANCE FanOut WITH items <- AllPorts, hits <- answered,
                                report <- [p \in AllPorts |-> Times(report, p)]
KeepsPromise == Promise!Spec

\* The command prints its report, unless a cancel made the producer return before
\* it closed the channel.
Abandoned == producer = "done" /\ ~closed
EndsOrAbandoned == <>(reported \/ (cancelled /\ Abandoned))

\* README: all operations respect the context, and a signal cancels it.  The
\* command does not return after a cancel that the producer notices first.
CancelReturns == cancelled ~> reported

=============================================================================
