------------------------------ MODULE FullScan ------------------------------
(***************************************************************************)
(* "scan" of cmd/cli/scan.go: six steps on goroutines of their own, each   *)
(* of which adds one section to the results; one of them runs a pool of    *)
(* workers over a list of ports.  The command waits for the six, compiles  *)
(* the report and perhaps saves it.  The context is cancelled by SIGINT,   *)
(* SIGTERM or the timeout at any moment.  The model starts when the six    *)
(* goroutines have been spawned.                                           *)
(* A definition marked MISTAKE is a wrong version of the one that follows, *)
(* kept to see that the properties notice it.                              *)
(***************************************************************************)
EXTENDS Integers, Sequences, FiniteSets, Ordering

CONSTANTS Ports,     \* ports of the PORT SCAN step, in order, all different
          Threads,   \* its workers, as many as portCh has room for
          Prefixes,  \* prefixes of the SUBDOMAINS step, in order, all different
          NoPort     \* what a worker without a port holds

ASSUME PortsAssumption ==
  /\ Ports \in Seq(Nat)
  /\ \A i, k \in DOMAIN Ports : Ports[i] # NoPort /\ (i # k => Ports[i] # Ports[k])
ASSUME PrefixesAssumption ==
  /\ Prefixes \in Seq({Prefixes[i] : i \in DOMAIN Prefixes})
  /\ \A i, k \in DOMAIN Prefixes : i # k => Prefixes[i] # Prefixes[k]
ASSUME ThreadsAssumption == IsFiniteSet(Threads) /\ Threads # {}   \* --threads > 0

Steps == {"DNS", "PORT SCAN", "HTTP HEADERS", "SSL/TLS", "TECHNOLOGY", "SUBDOMAINS"}

\* The steps that make one request; the outcomes of a request.
Requests == {"HTTP HEADERS", "SSL/TLS", "TECHNOLOGY"}
Outcomes == {"found", "error", "no certificate"}

VARIABLES
  isIP,                  \* the target is an address
  cancelled,             \* ctx.Err() != nil
  running,               \* steps that have not called wg.Done
  results,               \* per step its sections, by the outcome they tell
  portCh, closed, fed,   \* buffer of portCh; it is closed; ports sent
  wpc, port, openPorts,  \* the workers of the port scan; the ports they recorded
  next, found,           \* SUBDOMAINS: prefixes looked up; those that resolved
  main,                  \* "wait", "save", "reported"
  output, saved,         \* an output file is asked for; what became of it
  probed, answered,      \* history: ports whose dial returned, and with no error
  cameTo                 \* history: what the request of a step came to, or "open"

env      == <<isIP, cancelled>>
sections == <<running, results, cameTo>>
chan     == <<portCh, closed, fed>>
history  == <<probed, answered>>
pool     == <<chan, wpc, port, openPorts, history>>
subs     == <<next, found>>
command  == <<main, output, saved>>
rest     == <<env, sections, subs, command>>   \* all but the port scan
vars     == <<rest, pool>>

Elems(s) == {s[i] : i \in DOMAIN s}

Init == /\ isIP \in BOOLEAN /\ output \in BOOLEAN
        /\ cancelled = FALSE
        /\ running = Steps
        /\ results = [s \in Steps |-> <<>>]
        /\ cameTo = [s \in Requests |-> "open"]
        /\ portCh = <<>> /\ closed = FALSE /\ fed = 0
        /\ wpc = [w \in Threads |-> "receive"]
        /\ port = [w \in Threads |-> NoPort]
        /\ openPorts = <<>>
        /\ next = 0 /\ found = {}
        /\ main = "wait" /\ saved = "no"
        /\ probed = {} /\ answered = {}

\* addResult, under mu, and the deferred wg.Done.
AddResult(s, outcome) == results' = [results EXCEPT ![s] = Append(@, outcome)]
Done(s)      == running' = running \ {s}
Work(w, pc)  == wpc' = [wpc EXCEPT ![w] = pc]

-----------------------------------------------------------------------------
(* The steps that look something up; none looks at the context.  A step ends in *)
(* one of two ways: at its end, or with a return after a request that failed or   *)
(* brought no certificate.  Either way it has a section of its own to add first.  *)

ErrorSection_Forgotten(s, outcome) == UNCHANGED results   \* MISTAKE: a bare return
ErrorSection(s, outcome) == AddResult(s, outcome)

Complete(s) == /\ s \in running
               /\ AddResult(s, "found")
               /\ Done(s)
               /\ UNCHANGED <<env, pool, subs, command>>

FallShort(s, outcome) == /\ s \in running
                         /\ ErrorSection(s, outcome)
                         /\ Done(s)
                         /\ UNCHANGED <<env, pool, subs, command>>

\* The errors of the lookups are ignored, and make a section without them.
DNSStep == Complete("DNS") /\ UNCHANGED cameTo

CameTo(s, outcome) == cameTo' = [cameTo EXCEPT ![s] = outcome]

HeadersStep    == \/ Complete("HTTP HEADERS") /\ CameTo("HTTP HEADERS", "found")
                  \/ FallShort("HTTP HEADERS", "error") /\ CameTo("HTTP HEADERS", "error")
TLSStep        == \/ Complete("SSL/TLS") /\ CameTo("SSL/TLS", "found")
                  \/ \E o \in {"error", "no certificate"} :
                       FallShort("SSL/TLS", o) /\ CameTo("SSL/TLS", o)
TechnologyStep == \/ Complete("TECHNOLOGY") /\ CameTo("TECHNOLOGY", "found")
                  \/ FallShort("TECHNOLOGY", "error") /\ CameTo("TECHNOLOGY", "error")

-----------------------------------------------------------------------------
(* PORT SCAN *)

HasRoom_OffByOne == Len(portCh) <= Cardinality(Threads)  \* MISTAKE: capacity + 1
HasRoom == Len(portCh) < Cardinality(Threads)

\* portCh <- p: blocks while the buffer is full, with no case for the context.
FeedPort == /\ fed < Len(Ports)
            /\ HasRoom
            /\ portCh' = Append(portCh, Ports[fed + 1])
            /\ fed' = fed + 1
            /\ UNCHANGED <<rest, closed, wpc, port, openPorts, history>>

ClosedAtEnd_Never == FALSE                             \* MISTAKE: no close(portCh)
ClosedAtEnd == TRUE

ClosePorts == /\ fed = Len(Ports)
              /\ ~closed
              /\ closed' = ClosedAtEnd
              /\ UNCHANGED <<rest, portCh, fed, wpc, port, openPorts, history>>

ReceivePort(w) == /\ wpc[w] = "receive"
                  /\ portCh # <<>>
                  /\ port' = [port EXCEPT ![w] = Head(portCh)]
                  /\ portCh' = Tail(portCh)
                  /\ Work(w, "check")
                  /\ UNCHANGED <<rest, closed, fed, openPorts, history>>

Drained(w) == /\ wpc[w] = "receive"
              /\ portCh = <<>>
              /\ closed
              /\ Work(w, "done")
              /\ UNCHANGED <<rest, chan, port, openPorts, history>>

\* if ctx.Err() != nil { return }, else dial.
Check(w) == /\ wpc[w] = "check"
            /\ Work(w, IF cancelled THEN "done" ELSE "dial")
            /\ UNCHANGED <<rest, chan, port, openPorts, history>>

Dialled(w, open) ==
  /\ wpc[w] = "dial"
  /\ probed' = probed \cup {port[w]}
  /\ answered' = IF open THEN answered \cup {port[w]} ELSE answered
  /\ Work(w, IF open THEN "append" ELSE "receive")
  /\ UNCHANGED <<rest, chan, port, openPorts>>

RecordOpen(w) == /\ wpc[w] = "append"
                 /\ openPorts' = Append(openPorts, port[w])
                 /\ Work(w, "receive")
                 /\ UNCHANGED <<rest, chan, port, history>>

PoolGone_Unchecked == closed                           \* MISTAKE: no wg2.Wait
PoolGone == closed /\ \A w \in Threads : wpc[w] = "done"

PortStep == /\ PoolGone
            /\ Complete("PORT SCAN")
            /\ UNCHANGED cameTo

-----------------------------------------------------------------------------
(* SUBDOMAINS: nothing for an address; the loop ends early after a cancel. *)

SubsSkip == /\ "SUBDOMAINS" \in running
            /\ isIP
            /\ Done("SUBDOMAINS")
            /\ UNCHANGED <<env, results, cameTo, pool, subs, command>>

LookupPrefix(ok) ==
  /\ "SUBDOMAINS" \in running
  /\ ~isIP
  /\ next < Len(Prefixes)
  /\ ~cancelled
  /\ next' = next + 1
  /\ found' = IF ok THEN found \cup {Prefixes[next + 1]} ELSE found
  /\ UNCHANGED <<env, sections, pool, command>>

LastPrefix == Len(Prefixes)

SubsStep == /\ ~isIP
            /\ next >= LastPrefix \/ cancelled
            /\ Complete("SUBDOMAINS")
            /\ UNCHANGED cameTo

-----------------------------------------------------------------------------
(* The command *)

Cancel == /\ ~cancelled
          /\ cancelled' = TRUE
          /\ UNCHANGED <<isIP, sections, pool, subs, command>>

StepsGone_Unchecked == TRUE                            \* MISTAKE: no wg.Wait
StepsGone == running = {}

\* wg.Wait, then the report on standard output.
PrintReport == /\ main = "wait"
               /\ StepsGone
               /\ main' = IF output THEN "save" ELSE "reported"
               /\ UNCHANGED <<env, sections, pool, subs, output, saved>>

\* os.WriteFile; an error is printed and not returned.
Save(outcome) == /\ main = "save"
                 /\ main' = "reported"
                 /\ saved' = outcome
                 /\ UNCHANGED <<env, sections, pool, subs, output>>

Feeder        == FeedPort \/ ClosePorts \/ PortStep
WorkerStep(w) == \/ ReceivePort(w) \/ Drained(w) \/ Check(w) \/ RecordOpen(w)
                 \/ \E open \in BOOLEAN : Dialled(w, open)
Subdomains    == SubsSkip \/ SubsStep \/ \E ok \in BOOLEAN : LookupPrefix(ok)
Command       == PrintReport \/ \E o \in {"yes", "failed"} : Save(o)

Running == main # "reported"
Next == Running /\ \/ DNSStep \/ HeadersStep \/ TLSStep \/ TechnologyStep
                   \/ \E w \in Threads : WorkerStep(w)
                   \/ Feeder \/ Subdomains \/ Command \/ Cancel

Spec == Init /\ [][Next]_vars

\* Goroutines that can run do, and lookups, requests and dials end.
Fairness == /\ WF_vars(Running /\ DNSStep) /\ WF_vars(Running /\ HeadersStep)
            /\ WF_vars(Running /\ TLSStep) /\ WF_vars(Running /\ TechnologyStep)
            /\ \A w \in Threads : WF_vars(Running /\ WorkerStep(w))
            /\ WF_vars(Running /\ Feeder)
            /\ WF_vars(Running /\ Subdomains)
            /\ WF_vars(Running /\ Command)

FairSpec == Spec /\ Fairness

-----------------------------------------------------------------------------
\* What each variable holds; portCh never holds more than its buffer.
TypeOK == /\ isIP \in BOOLEAN /\ cancelled \in BOOLEAN /\ output \in BOOLEAN
          /\ running \subseteq Steps
          /\ results \in [Steps -> Seq(Outcomes)]
          /\ cameTo \in [Requests -> Outcomes \cup {"open"}]
          /\ portCh \in Seq(Elems(Ports)) /\ Len(portCh) <= Cardinality(Threads)
          /\ closed \in BOOLEAN /\ fed \in 0 .. Len(Ports)
          /\ wpc \in [Threads -> {"receive", "check", "dial", "append", "done"}]
          /\ port \in [Threads -> Elems(Ports) \cup {NoPort}]
          /\ openPorts \in Seq(Elems(Ports))
          /\ answered \subseteq probed /\ probed \subseteq Elems(Ports)
          /\ next \in 0 .. Len(Prefixes)
          /\ found \subseteq Elems(Prefixes)
          /\ main \in {"wait", "save", "reported"} /\ saved \in {"no", "yes", "failed"}

PortsDone == "PORT SCAN" \notin running
SubsDone  == "SUBDOMAINS" \notin running

\* The printed report has one section per step, and of a step that made a request the
\* one that tells what it came to, the failure of those that failed; an address has
\* no SUBDOMAINS section, that of a domain has looked at every prefix, but for a
\* cancel.
Told(s) == IF s \in Requests THEN cameTo[s] ELSE "found"
SectionsComplete ==
  /\ main # "wait" => \A s \in Steps :
       results[s] = IF isIP /\ s = "SUBDOMAINS" THEN <<>> ELSE <<Told(s)>>
  /\ SubsDone /\ ~isIP => cancelled \/ next = Len(Prefixes)

\* The PORT SCAN section keeps the promise of a fan-out command: it has each port
\* that answered once.
PortPromise == INSTANCE FanOut
               WITH items <- Elems(Ports), hits <- answered, reported <- PortsDone,
                    report <- [p \in Elems(Ports) |-> IF PortsDone THEN Times(openPorts, p) ELSE 0]
KeepsPortPromise == PortPromise!Spec

\* The scan ends with its report, unless after a cancel the feeder has a port to
\* send, no room for it and no worker left to make some.
Starved == /\ cancelled
           /\ fed < Len(Ports) /\ ~HasRoom
           /\ \A w \in Threads : wpc[w] = "done"
EndsOrStarves == <>(main = "reported" \/ Starved)

\* README: all operations respect the context, and a signal cancels it.  Once the
\* workers have returned nobody empties portCh and the step never ends.
CancelReturns == cancelled ~> main = "reported"

=============================================================================
