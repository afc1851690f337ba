--------------------------- MODULE FullScanProofs ---------------------------
(***************************************************************************)
(* Theorems about FullScan, for every list of ports and prefixes and every *)
(* number of workers.                                                      *)
(***************************************************************************)
EXTENDS FullScan, DataFacts, FiniteSetTheorems

WorkerPC == {"receive", "check", "dial", "append", "done"}

\* The parts of TypeOK, by what they are about.
EnvType     == isIP \in BOOLEAN /\ cancelled \in BOOLEAN
SectionType == /\ running \subseteq Steps /\ results \in [Steps -> Seq(Outcomes)]
               /\ cameTo \in [Requests -> Outcomes \cup {"open"}]
ChanType    == /\ portCh \in Seq(Elems(Ports)) /\ Len(portCh) <= Cardinality(Threads)
               /\ closed \in BOOLEAN /\ fed \in 0 .. Len(Ports)
WorkType    == /\ wpc \in [Threads -> WorkerPC]
               /\ port \in [Threads -> Elems(Ports) \cup {NoPort}]
               /\ openPorts \in Seq(Elems(Ports))
               /\ answered \subseteq probed /\ probed \subseteq Elems(Ports)
SubsType    == next \in 0 .. Len(Prefixes) /\ found \subseteq Elems(Prefixes)
CommandType == /\ main \in {"wait", "save", "reported"} /\ saved \in {"no", "yes", "failed"}
               /\ output \in BOOLEAN

\* TypeOK is not inductive: that a worker has a port in hand when it dials and when
\* it records what it found is part of the argument.
Holds == \A w \in Threads : wpc[w] \in {"check", "dial", "append"} => port[w] \in Elems(Ports)
Typed == TypeOK /\ Holds
Parts == EnvType /\ SectionType /\ ChanType /\ WorkType /\ SubsType /\ CommandType /\ Holds

LEMMA TypeParts == Typed <=> Parts
BY DEF Typed, TypeOK, Parts, EnvType, SectionType, ChanType, WorkType, SubsType, CommandType,
       WorkerPC

LEMMA TypePartsNext == Typed' <=> Parts'
BY DEF Typed, TypeOK, Parts, EnvType, SectionType, ChanType, WorkType, SubsType, CommandType,
       WorkerPC

LEMMA CapacityFacts == Cardinality(Threads) \in Nat \ {0}
BY ThreadsAssumption, FS_CardinalityType, FS_EmptySet

LEMMA PortFacts == /\ Len(Ports) \in Nat
                   /\ DOMAIN Ports = 1 .. Len(Ports)
                   /\ \A i \in 1 .. Len(Ports) : Ports[i] \in Elems(Ports)
                   /\ NoPort \notin Elems(Ports)
                   /\ \A i, k \in 1 .. Len(Ports) : i # k => Ports[i] # Ports[k]
<1>1. Len(Ports) \in Nat /\ DOMAIN Ports = 1 .. Len(Ports) BY PortsAssumption
<1>2. \A i \in DOMAIN Ports : Ports[i] # NoPort BY PortsAssumption
<1>3. \A i, k \in DOMAIN Ports : i # k => Ports[i] # Ports[k] BY PortsAssumption
<1> QED BY <1>1, <1>2, <1>3 DEF Elems

LEMMA PrefixFacts == /\ Len(Prefixes) \in Nat
                     /\ \A i \in 1 .. Len(Prefixes) : Prefixes[i] \in Elems(Prefixes)
<1>1. Len(Prefixes) \in Nat /\ DOMAIN Prefixes = 1 .. Len(Prefixes)
  <2> DEFINE S == {Prefixes[i] : i \in DOMAIN Prefixes}
  <2>1. Prefixes \in Seq(S) BY PrefixesAssumption
  <2> HIDE DEF S
  <2> QED BY <2>1
<1> QED BY <1>1 DEF Elems

-----------------------------------------------------------------------------
(* Types *)

LEMMA TypeInit == Init => Typed
<1> SUFFICES ASSUME Init PROVE Typed OBVIOUS
<1>1. ChanType
  <2>1. portCh \in Seq(Elems(Ports)) /\ Len(portCh) = 0 BY DEF Init
  <2>2. Len(portCh) <= Cardinality(Threads) BY <2>1, CapacityFacts
  <2>3. fed \in 0 .. Len(Ports) BY PortFacts DEF Init
  <2> QED BY <2>1, <2>2, <2>3 DEF Init, ChanType
<1>2. WorkType BY DEF Init, WorkType, WorkerPC
<1>3. SubsType BY PrefixFacts DEF Init, SubsType
<1>4. Holds BY DEF Init, Holds
<1>5. SectionType
  <2>1. <<>> \in Seq(Outcomes) OBVIOUS
  <2> QED BY <2>1 DEF Init, SectionType
<1> QED BY <1>1, <1>2, <1>3, <1>4, <1>5, TypeParts DEF Init, Parts, EnvType, CommandType

\* What the ends of the six steps have in common: step s adds the section for outcome o.
Ends(s, o) == /\ s \in running
              /\ AddResult(s, o)
              /\ Done(s)
              /\ UNCHANGED <<env, pool, subs, command>>
              /\ s \notin Requests => o = "found"
              /\ cameTo' = IF s \in Requests THEN [cameTo EXCEPT ![s] = o] ELSE cameTo

LEMMA StepEnds ==
  /\ DNSStep \/ HeadersStep \/ TLSStep \/ TechnologyStep =>
       \E s \in Steps \ {"PORT SCAN", "SUBDOMAINS"} : \E o \in Outcomes : Ends(s, o)
  /\ PortStep => PoolGone /\ Ends("PORT SCAN", "found")
  /\ SubsStep => Ends("SUBDOMAINS", "found")
<1> USE DEF Ends, Complete, FallShort, ErrorSection, CameTo, Requests
<1>1. DNSStep => Ends("DNS", "found") BY DEF DNSStep
<1>2. HeadersStep => \E o \in Outcomes : Ends("HTTP HEADERS", o) BY DEF HeadersStep, Outcomes
<1>3. TLSStep => \E o \in Outcomes : Ends("SSL/TLS", o) BY DEF TLSStep, Outcomes
<1>4. TechnologyStep => \E o \in Outcomes : Ends("TECHNOLOGY", o)
  BY DEF TechnologyStep, Outcomes
<1>5. "found" \in Outcomes BY DEF Outcomes
<1>6. PortStep => PoolGone /\ Ends("PORT SCAN", "found") BY DEF PortStep
<1>7. SubsStep => Ends("SUBDOMAINS", "found") BY DEF SubsStep
<1> QED BY ONLY <1>1, <1>2, <1>3, <1>4, <1>5, <1>6, <1>7 DEF Steps

LEMMA EndStepType ==
  ASSUME Parts, NEW s \in Steps, NEW o \in Outcomes, Ends(s, o)
  PROVE  Parts'
<1> USE DEF Parts
<1>1. SectionType'
  <2>1. results[s] \in Seq(Outcomes) BY DEF SectionType
  <2>2. Append(results[s], o) \in Seq(Outcomes) BY <2>1, SendFacts
  <2> QED BY <2>2 DEF SectionType, Ends, AddResult, Done
<1>2. Holds' BY DEF Holds, Ends, pool
<1> QED BY <1>1, <1>2 DEF Ends, env, pool, chan, history, subs, command,
                          EnvType, ChanType, WorkType, SubsType, CommandType

LEMMA TypeNext == Typed /\ [Next]_vars => Typed'
<1> SUFFICES ASSUME Parts, [Next]_vars PROVE Parts' BY TypeParts, TypePartsNext
<1> USE DEF Parts
<1> USE DEF rest, env, sections, subs, command, chan, history, pool
<1>1. ASSUME NEW s \in Steps, NEW o \in Outcomes, Ends(s, o)
      PROVE  Parts'
  BY <1>1, EndStepType
<1>2. CASE DNSStep \/ HeadersStep \/ TLSStep \/ TechnologyStep \/ PortStep \/ SubsStep
  BY <1>1, <1>2, StepEnds DEF Steps, Outcomes
<1>3. CASE FeedPort
  <2>1. Ports[fed + 1] \in Elems(Ports) /\ fed + 1 \in 0 .. Len(Ports)
    BY <1>3, PortFacts DEF FeedPort, ChanType
  <2>2. ChanType'
    BY <1>3, <2>1, SendFacts, CapacityFacts DEF FeedPort, ChanType, HasRoom
  <2> QED BY <1>3, <2>2
          DEF FeedPort, EnvType, SectionType, WorkType, SubsType, CommandType, Holds
<1>4. CASE ClosePorts
  BY <1>4 DEF ClosePorts, ClosedAtEnd, EnvType, SectionType, ChanType,
                    WorkType, SubsType, CommandType, Holds
<1>5. ASSUME NEW w \in Threads, ReceivePort(w)
      PROVE  Parts'
  <2>1. ChanType' BY <1>5, ReceiveFacts, CapacityFacts DEF ReceivePort, ChanType
  <2>2. Head(portCh) \in Elems(Ports) BY <1>5, ReceiveFacts DEF ReceivePort, ChanType
  <2>3. WorkType' /\ Holds'
    BY <1>5, <2>2 DEF ReceivePort, WorkType, Work, WorkerPC, Holds
  <2> QED BY <1>5, <2>1, <2>3
          DEF ReceivePort, EnvType, SectionType, SubsType, CommandType
<1>6. ASSUME NEW w \in Threads, Drained(w) \/ Check(w)
      PROVE  Parts'
  <2>1. WorkType' /\ Holds'
    BY <1>6 DEF Drained, Check, WorkType, Work, WorkerPC, Holds
  <2> QED BY <1>6, <2>1
          DEF Drained, Check, EnvType, SectionType, ChanType, SubsType, CommandType
<1>7. ASSUME NEW w \in Threads, NEW open \in BOOLEAN, Dialled(w, open)
      PROVE  Parts'
  <2>1. WorkType' /\ Holds'
    BY <1>7 DEF Dialled, WorkType, Work, WorkerPC, Holds
  <2> QED BY <1>7, <2>1
          DEF Dialled, EnvType, SectionType, ChanType, SubsType, CommandType
<1>8. ASSUME NEW w \in Threads, RecordOpen(w)
      PROVE  Parts'
  <2>1. WorkType' /\ Holds'
    BY <1>8, SendFacts DEF RecordOpen, WorkType, Work, WorkerPC, Holds
  <2> QED BY <1>8, <2>1
          DEF RecordOpen, EnvType, SectionType, ChanType, SubsType, CommandType
<1>9. CASE SubsSkip
  BY <1>9 DEF SubsSkip, Done, EnvType, SectionType, ChanType,
                    WorkType, SubsType, CommandType, Holds
<1>10. ASSUME NEW ok \in BOOLEAN, LookupPrefix(ok)
       PROVE  Parts'
  <2>1. Prefixes[next + 1] \in Elems(Prefixes) /\ next + 1 \in 0 .. Len(Prefixes)
    BY <1>10, PrefixFacts DEF LookupPrefix, SubsType
  <2> QED BY <1>10, <2>1 DEF LookupPrefix, EnvType, SectionType, ChanType,
                                   WorkType, SubsType, CommandType, Holds
<1>11. CASE Cancel
  BY <1>11 DEF Cancel, EnvType, SectionType, ChanType, WorkType, SubsType, CommandType, Holds
<1>12. CASE PrintReport
  BY <1>12 DEF PrintReport, EnvType, SectionType, ChanType, WorkType, SubsType, CommandType,
                     Holds
<1>13. ASSUME NEW o \in {"yes", "failed"}, Save(o)
       PROVE  Parts'
  BY <1>13 DEF Save, EnvType, SectionType, ChanType, WorkType, SubsType, CommandType, Holds
<1>14. CASE UNCHANGED vars
  BY <1>14 DEF vars, EnvType, SectionType, ChanType, WorkType, SubsType, CommandType, Holds
<1> QED BY <1>2, <1>3, <1>4, <1>5, <1>6, <1>7, <1>8, <1>9, <1>10, <1>11, <1>12, <1>13, <1>14
        DEF Next, WorkerStep, Feeder, Subdomains, Command

\* Every variable keeps its type, and portCh its capacity.
THEOREM TypeCorrect == Spec => []TypeOK
<1>1. Typed => TypeOK BY DEF Typed
<1> QED BY TypeInit, TypeNext, <1>1, PTL DEF Spec

-----------------------------------------------------------------------------
(* The report.  Every section is added exactly when its step ends, and tells what *)
(* the request of the step came to, but for the SUBDOMAINS section of an address; *)
(* the report waits for all steps.                                                *)

Sections ==
  /\ \A s \in Steps :
       results[s] = IF s \in running \/ (isIP /\ s = "SUBDOMAINS") THEN <<>> ELSE <<Told(s)>>
  /\ main # "wait" => running = {}
  /\ SubsDone /\ ~isIP => cancelled \/ next = Len(Prefixes)

LEMMA SectionsInit == Init => Sections
BY DEF Init, Sections, SubsDone, Steps

\* A step that ends adds its section; the other sections stay as they are.
LEMMA EndStepSections ==
  ASSUME Parts, Sections, NEW s \in Steps, NEW o \in Outcomes, Ends(s, o),
         s = "SUBDOMAINS" => ~isIP /\ (cancelled \/ next = Len(Prefixes))
  PROVE  Sections'
<1>1. /\ s \in running /\ running' = running \ {s}
      /\ results' = [results EXCEPT ![s] = Append(@, o)]
      /\ UNCHANGED <<isIP, cancelled, next, main>>
  BY DEF Ends, AddResult, Done, env, subs, command
<1>2. results \in [Steps -> Seq(Outcomes)] BY DEF Parts, SectionType
<1>3. /\ Told(s)' = o
      /\ \A t \in Steps : t # s => Told(t)' = Told(t)
  BY DEF Ends, Told, Parts, SectionType
<1>4. ASSUME NEW t \in Steps
      PROVE  results'[t] = IF t \in running' \/ (isIP' /\ t = "SUBDOMAINS")
                           THEN <<>> ELSE <<Told(t)'>>
  <2>1. CASE t = s
    <3>1. results[s] = <<>> /\ results'[s] = Append(results[s], o)
      BY <1>1, <1>2 DEF Sections
    <3>2. results'[s] = <<o>> BY <3>1
    <3> QED BY <1>1, <1>3, <2>1, <3>2
  <2>2. CASE t # s BY <1>1, <1>2, <1>3, <2>2 DEF Sections
  <2> QED BY <2>1, <2>2
<1>5. (SubsDone /\ ~isIP => cancelled \/ next = Len(Prefixes))'
  BY <1>1 DEF Sections, SubsDone
<1> QED BY <1>1, <1>4, <1>5 DEF Sections

LEMMA SectionsNext == Typed /\ Sections /\ [Next]_vars => Sections'
<1> SUFFICES ASSUME Parts, Sections, [Next]_vars PROVE Sections' BY TypeParts
<1>1. CASE DNSStep \/ HeadersStep \/ TLSStep \/ TechnologyStep \/ PortStep
  <2>1. PICK s \in Steps \ {"SUBDOMAINS"}, o \in Outcomes : Ends(s, o)
    BY <1>1, StepEnds DEF Steps, Outcomes
  <2> QED BY <2>1, EndStepSections
<1>2. CASE SubsStep
  <2>1. cancelled \/ next = Len(Prefixes)
    BY <1>2, PrefixFacts DEF SubsStep, LastPrefix, Parts, SubsType
  <2>2. ~isIP /\ Ends("SUBDOMAINS", "found") BY <1>2, StepEnds DEF SubsStep
  <2> QED BY <2>1, <2>2, EndStepSections DEF Steps, Outcomes
<1>3. CASE SubsSkip
  <2>1. /\ isIP /\ running' = running \ {"SUBDOMAINS"} /\ running # {}
        /\ UNCHANGED <<isIP, cancelled, cameTo, results, next, main>>
    BY <1>3 DEF SubsSkip, Done, env, subs, command
  <2> QED BY <2>1 DEF Sections, SubsDone, Told
<1>4. ASSUME NEW ok \in BOOLEAN, LookupPrefix(ok) PROVE Sections'
  <2>1. /\ "SUBDOMAINS" \in running
        /\ UNCHANGED <<isIP, cancelled, cameTo, running, results, main>>
    BY <1>4 DEF LookupPrefix, env, sections, command
  <2> QED BY <2>1 DEF Sections, SubsDone, Told
<1>5. CASE Cancel
  <2>1. cancelled' = TRUE /\ UNCHANGED <<isIP, cameTo, running, results, next, main>>
    BY <1>5 DEF Cancel, sections, subs, command
  <2> QED BY <2>1 DEF Sections, SubsDone, Told
<1>6. CASE PrintReport
  <2>1. running = {} /\ UNCHANGED <<isIP, cancelled, cameTo, running, results, next>>
    BY <1>6 DEF PrintReport, StepsGone, env, sections, subs
  <2> QED BY <2>1 DEF Sections, SubsDone, Told
<1>7. ASSUME NEW o \in {"yes", "failed"}, Save(o) PROVE Sections'
  <2>1. main = "save" /\ UNCHANGED <<isIP, cancelled, cameTo, running, results, next>>
    BY <1>7 DEF Save, env, sections, subs
  <2> QED BY <2>1 DEF Sections, SubsDone, Told
<1>8. ASSUME UNCHANGED rest PROVE Sections'
  <2>1. UNCHANGED <<isIP, cancelled, cameTo, running, results, next, main>>
    BY <1>8 DEF rest, env, sections, subs, command
  <2> QED BY <2>1 DEF Sections, SubsDone, Told
<1>9. CASE FeedPort \/ ClosePorts BY <1>8, <1>9 DEF FeedPort, ClosePorts
<1>10. ASSUME NEW w \in Threads, WorkerStep(w) PROVE Sections'
  BY <1>8, <1>10 DEF WorkerStep, ReceivePort, Drained, Check, Dialled, RecordOpen
<1>11. CASE UNCHANGED vars BY <1>8, <1>11 DEF vars
<1> QED BY <1>1, <1>2, <1>3, <1>4, <1>5, <1>6, <1>7, <1>9, <1>10, <1>11
        DEF Next, Feeder, Subdomains, Command

\* The printed report has the section of every step once, whatever fails and whenever
\* the scan is cancelled; that of a step whose request failed says so; and the
\* SUBDOMAINS section of a domain has looked at every prefix but for a cancel.
THEOREM ReportComplete == Spec => []SectionsComplete
<1>1. Sections => SectionsComplete BY DEF Sections, SectionsComplete
<1> QED BY TypeInit, TypeNext, SectionsInit, SectionsNext, <1>1, PTL DEF Spec

-----------------------------------------------------------------------------
(* The promise of the PORT SCAN step.  The ports that have left portCh are the *)
(* first ones of the list; each of them is with one worker that has not dialled *)
(* it, or has been dialled, or was dropped by a worker that saw the cancel.     *)

Gone    == fed - Len(portCh)
Seen    == {Ports[k] : k \in 1 .. Gone}
Busy(w) == wpc[w] \in {"check", "dial"}

Distinct(s) == \A i, k \in DOMAIN s : i # k => s[i] # s[k]

\* What is in portCh is the part of the list that follows Gone.
Window == /\ Len(portCh) <= fed
          /\ \A i \in 1 .. Len(portCh) : portCh[i] = Ports[Gone + i]
          /\ closed => fed = Len(Ports)

\* No port is with two workers, or with one that has yet to dial it after its dial.
OneWorker == /\ \A w \in Threads : Busy(w) => port[w] \in Seen \ probed
             /\ \A v, w \in Threads : v # w /\ Busy(v) /\ Busy(w) => port[v] # port[w]
             /\ probed \subseteq Seen

\* Nothing is dropped without a cancel, nor does a worker leave.
NothingDropped ==
  /\ ~cancelled => \A p \in Seen \ probed : \E w \in Threads : Busy(w) /\ port[w] = p
  /\ \A w \in Threads : wpc[w] = "done" => cancelled \/ (closed /\ portCh = <<>>)
  /\ PortsDone => PoolGone

\* What a dial found is recorded or about to be.
Found == \A p : p \in answered <=> \/ p \in Elems(openPorts)
                                   \/ \E w \in Threads : wpc[w] = "append" /\ port[w] = p

\* No find is recorded twice: what a worker is about to append nobody else has appended
\* or will.
FoundOnce ==
  /\ Distinct(openPorts)
  /\ \A w \in Threads : wpc[w] = "append" => port[w] \in probed \ Elems(openPorts)
  /\ \A v, w \in Threads :
       v # w /\ wpc[v] = "append" /\ wpc[w] = "append" => port[v] # port[w]
  /\ Elems(openPorts) \subseteq probed

PortInv == Window /\ OneWorker /\ NothingDropped /\ Found /\ FoundOnce

LEMMA PortInvInit == Init => PortInv
<1> SUFFICES ASSUME Init PROVE PortInv OBVIOUS
<1>1. portCh = <<>> /\ fed = 0 BY DEF Init
<1>2. Gone = 0
  <2>1. Len(portCh) = 0 BY <1>1
  <2>2. fed = 0 BY <1>1
  <2> QED BY ONLY <2>1, <2>2 DEF Gone
<1>3. Seen = {} BY <1>2 DEF Seen
<1>4. Elems(openPorts) = {} BY DEF Init, Elems
<1>5. \A w \in Threads : wpc[w] = "receive" BY DEF Init
<1>6. Window BY <1>1, <1>2 DEF Init, Window
<1>7. OneWorker BY <1>3, <1>5 DEF Init, OneWorker, Busy
<1>8. NothingDropped BY <1>3, <1>5 DEF Init, NothingDropped, Busy, PortsDone, Steps
<1>9. Found BY <1>4, <1>5 DEF Init, Found
<1>10. FoundOnce BY <1>4, <1>5 DEF Init, FoundOnce, Distinct
<1> QED BY <1>6, <1>7, <1>8, <1>9, <1>10 DEF PortInv

\* A step that leaves the ports and the workers alone and ends no PORT SCAN step.
LEMMA PortInvStutter ==
  ASSUME PortInv, UNCHANGED pool, cancelled => cancelled', PortsDone' => PortsDone
  PROVE  PortInv'
<1>1. UNCHANGED <<portCh, closed, fed, wpc, port, openPorts, probed, answered>>
  BY DEF pool, chan, history
<1>2. UNCHANGED <<Gone, Seen, Elems(openPorts), PoolGone>> /\ \A w : Busy(w)' = Busy(w)
  BY <1>1 DEF Gone, Seen, Elems, Busy, PoolGone
<1>3. Window' BY <1>1, <1>2 DEF PortInv, Window
<1>4. OneWorker' BY <1>1, <1>2 DEF PortInv, OneWorker
<1>5. NothingDropped' BY <1>1, <1>2 DEF PortInv, NothingDropped
<1>6. Found' BY <1>1, <1>2 DEF PortInv, Found
<1>7. FoundOnce' BY <1>1, <1>2 DEF PortInv, FoundOnce, Distinct
<1> QED BY <1>3, <1>4, <1>5, <1>6, <1>7 DEF PortInv

LEMMA PortInvFeed == ASSUME Parts, PortInv, FeedPort PROVE PortInv'
<1>1. /\ portCh' = Append(portCh, Ports[fed + 1]) /\ fed' = fed + 1 /\ fed < Len(Ports)
      /\ UNCHANGED <<cancelled, running, closed, wpc, port, openPorts, probed, answered>>
  BY DEF FeedPort, rest, env, sections, history
<1>2. /\ portCh \in Seq(Elems(Ports)) /\ Len(portCh) \in Nat
      /\ fed \in Nat /\ fed + 1 \in 1 .. Len(Ports)
  BY <1>1, PortFacts DEF Parts, ChanType
<1>3. /\ Len(portCh') = Len(portCh) + 1 /\ portCh'[Len(portCh) + 1] = Ports[fed + 1]
      /\ \A i \in 1 .. Len(portCh) : portCh'[i] = portCh[i]
  BY <1>1, <1>2, PortFacts, SendFacts
<1>4. Gone' = Gone /\ Gone + (Len(portCh) + 1) = fed + 1 /\ Gone \in Int BY <1>1, <1>2, <1>3 DEF Gone
<1>5. Seen' = Seen /\ Elems(openPorts)' = Elems(openPorts) BY <1>1, <1>4 DEF Seen, Elems
<1>6. ~closed BY <1>1, <1>2 DEF PortInv, Window
<1>7. Window'
  <2>1. ASSUME NEW i \in 1 .. Len(portCh') PROVE portCh'[i] = Ports[Gone' + i]
    <3>1. CASE i \in 1 .. Len(portCh) BY <1>3, <1>4, <3>1 DEF PortInv, Window
    <3>2. CASE i = Len(portCh) + 1 BY <1>3, <1>4, <3>2
    <3> QED BY <1>2, <1>3, <2>1, <3>1, <3>2
  <2> QED BY <1>1, <1>2, <1>3, <1>6, <2>1 DEF PortInv, Window
<1>8. OneWorker' BY <1>1, <1>5 DEF PortInv, OneWorker, Busy
<1>9. NothingDropped' BY <1>1, <1>5, <1>6 DEF PortInv, NothingDropped, Busy, PortsDone, PoolGone
<1>10. Found' BY <1>1, <1>5 DEF PortInv, Found
<1>11. FoundOnce' BY <1>1, <1>5 DEF PortInv, FoundOnce, Distinct
<1> QED BY <1>7, <1>8, <1>9, <1>10, <1>11 DEF PortInv

LEMMA PortInvReceive ==
  ASSUME Parts, PortInv, NEW w \in Threads, ReceivePort(w) PROVE PortInv'
<1>1. /\ wpc[w] = "receive" /\ portCh # <<>>
      /\ port' = [port EXCEPT ![w] = Head(portCh)] /\ portCh' = Tail(portCh)
      /\ wpc' = [wpc EXCEPT ![w] = "check"]
      /\ UNCHANGED <<cancelled, running, closed, fed, openPorts, probed, answered>>
  BY DEF ReceivePort, Work, rest, env, sections, history
<1>2. /\ portCh \in Seq(Elems(Ports)) /\ fed \in Nat /\ fed <= Len(Ports)
      /\ wpc \in [Threads -> WorkerPC] /\ port \in [Threads -> Elems(Ports) \cup {NoPort}]
  BY PortFacts DEF Parts, ChanType, WorkType
<1>3. /\ Len(portCh) \in Nat \ {0} /\ Len(portCh') = Len(portCh) - 1 /\ Head(portCh) = portCh[1]
      /\ \A i \in 1 .. Len(portCh) - 1 : portCh'[i] = portCh[i + 1]
  BY <1>1, <1>2, ReceiveFacts
<1>4. /\ Gone \in Nat /\ Gone' = Gone + 1 /\ Gone + 1 <= Len(Ports) /\ Len(portCh) <= fed
      /\ Head(portCh) = Ports[Gone + 1]
  BY <1>1, <1>2, <1>3 DEF PortInv, Window, Gone
<1>5. Seen' = Seen \cup {Head(portCh)}
  <2>1. 1 .. Gone' = (1 .. Gone) \cup {Gone + 1} BY <1>4
  <2> QED BY <1>4, <2>1 DEF Seen
<1>6. Head(portCh) \notin Seen
  <2>1. \A k \in 1 .. Gone : Ports[k] # Ports[Gone + 1]
    BY <1>4, PortFacts
  <2> QED BY <1>4, <2>1 DEF Seen
<1>7. \A v \in Threads : /\ v # w => wpc'[v] = wpc[v] /\ port'[v] = port[v]
                         /\ v = w => wpc'[v] = "check" /\ port'[v] = Head(portCh)
  BY <1>1, <1>2
<1>8. Window'
  <2>1. ASSUME NEW i \in 1 .. Len(portCh') PROVE portCh'[i] = Ports[Gone' + i]
    <3>1. i \in Nat /\ 1 <= i /\ i <= Len(portCh) - 1 BY <1>3
    <3>2. i \in 1 .. Len(portCh) - 1 /\ i + 1 \in 1 .. Len(portCh) BY <1>3, <3>1
    <3>3. Gone' + i = Gone + (i + 1) BY <1>4, <3>1
    <3> QED BY <1>3, <3>2, <3>3 DEF PortInv, Window
  <2> QED BY <1>1, <1>2, <1>3, <1>4, <2>1 DEF PortInv, Window
<1>9. OneWorker' BY <1>1, <1>5, <1>6, <1>7 DEF PortInv, OneWorker, Busy
<1>10. NothingDropped'
  <2>1. ~cancelled' => \A p \in Seen' \ probed' : \E v \in Threads : Busy(v)' /\ port'[v] = p
    <3> SUFFICES ASSUME ~cancelled', NEW p \in Seen' \ probed'
                 PROVE  \E v \in Threads : Busy(v)' /\ port'[v] = p
      OBVIOUS
    <3>1. CASE p = Head(portCh) BY <1>7, <3>1 DEF Busy
    <3>2. CASE p \in Seen \ probed
      <4>1. PICK v \in Threads : Busy(v) /\ port[v] = p
        BY <1>1, <3>2 DEF PortInv, NothingDropped
      <4> QED BY <1>1, <1>7, <4>1 DEF Busy
    <3> QED BY <1>1, <1>5, <3>1, <3>2
  <2>2. \A v \in Threads : wpc'[v] = "done" => cancelled' \/ (closed' /\ portCh' = <<>>)
    BY <1>1, <1>7 DEF PortInv, NothingDropped
  <2>3. ~PortsDone' BY <1>1 DEF PortInv, NothingDropped, PortsDone, PoolGone
  <2> QED BY <2>1, <2>2, <2>3 DEF NothingDropped
<1>11. Found' BY <1>1, <1>7 DEF PortInv, Found, Elems
<1>12. FoundOnce'
  <2>1. Elems(openPorts)' = Elems(openPorts) BY <1>1 DEF Elems
  <2> QED BY <1>1, <1>7, <2>1 DEF PortInv, FoundOnce, Distinct
<1> QED BY <1>8, <1>9, <1>10, <1>11, <1>12 DEF PortInv

LEMMA PortInvDrained ==
  ASSUME Parts, PortInv, NEW w \in Threads, Drained(w) \/ Check(w) PROVE PortInv'
<1>1. /\ wpc[w] \in {"receive", "check"}
      /\ wpc' = [wpc EXCEPT ![w] = wpc'[w]]
      /\ wpc'[w] \in {"done", "dial"}
      /\ wpc'[w] = "dial" => wpc[w] = "check"
      /\ wpc'[w] = "done" => cancelled \/ (wpc[w] = "receive" /\ closed /\ portCh = <<>>)
      /\ UNCHANGED <<cancelled, running, portCh, closed, fed, port, openPorts, probed, answered>>
  BY DEF Drained, Check, Work, rest, env, sections, history, chan, Parts, WorkType
<1>2. UNCHANGED <<Gone, Seen, Elems(openPorts)>> BY <1>1 DEF Gone, Seen, Elems
<1>3. \A v \in Threads : v # w => wpc'[v] = wpc[v] BY <1>1 DEF Parts, WorkType
<1>4. Window' BY <1>1, <1>2 DEF PortInv, Window
<1>5. OneWorker' BY <1>1, <1>2, <1>3 DEF PortInv, OneWorker, Busy
<1>6. NothingDropped'
  <2>1. ~cancelled' => \A p \in Seen' \ probed' : \E v \in Threads : Busy(v)' /\ port'[v] = p
    <3> SUFFICES ASSUME ~cancelled', NEW p \in Seen' \ probed'
                 PROVE  \E v \in Threads : Busy(v)' /\ port'[v] = p
      OBVIOUS
    <3>1. PICK v \in Threads : Busy(v) /\ port[v] = p
      BY <1>1, <1>2 DEF PortInv, NothingDropped
    <3>2. Busy(v)' BY <1>1, <1>3, <3>1 DEF Busy
    <3> QED BY <1>1, <3>1, <3>2
  <2>2. \A v \in Threads : wpc'[v] = "done" => cancelled' \/ (closed' /\ portCh' = <<>>)
    BY <1>1, <1>3 DEF PortInv, NothingDropped
  <2>3. ~PortsDone' BY <1>1 DEF PortInv, NothingDropped, PortsDone, PoolGone
  <2> QED BY <2>1, <2>2, <2>3 DEF NothingDropped
<1>7. Found' BY <1>1, <1>2, <1>3 DEF PortInv, Found
<1>8. FoundOnce' BY <1>1, <1>2, <1>3 DEF PortInv, FoundOnce, Distinct
<1> QED BY <1>4, <1>5, <1>6, <1>7, <1>8 DEF PortInv

LEMMA PortInvDialled ==
  ASSUME Parts, PortInv, NEW w \in Threads, NEW open \in BOOLEAN, Dialled(w, open) PROVE PortInv'
<1>1. /\ wpc[w] = "dial"
      /\ wpc' = [wpc EXCEPT ![w] = IF open THEN "append" ELSE "receive"]
      /\ probed' = probed \cup {port[w]}
      /\ answered' = IF open THEN answered \cup {port[w]} ELSE answered
      /\ UNCHANGED <<cancelled, running, portCh, closed, fed, port, openPorts>>
  BY DEF Dialled, Work, rest, env, sections, chan
<1>2. UNCHANGED <<Gone, Seen, Elems(openPorts)>> BY <1>1 DEF Gone, Seen, Elems
<1>3. \A v \in Threads : v # w => wpc'[v] = wpc[v] BY <1>1 DEF Parts, WorkType
<1>4. wpc'[w] = IF open THEN "append" ELSE "receive" BY <1>1 DEF Parts, WorkType
<1>5. Window' BY <1>1, <1>2 DEF PortInv, Window
<1>6. OneWorker' BY <1>1, <1>2, <1>3, <1>4 DEF PortInv, OneWorker, Busy
<1>7. NothingDropped'
  <2>1. ~cancelled' => \A p \in Seen' \ probed' : \E v \in Threads : Busy(v)' /\ port'[v] = p
    <3> SUFFICES ASSUME ~cancelled', NEW p \in Seen' \ probed'
                 PROVE  \E v \in Threads : Busy(v)' /\ port'[v] = p
      OBVIOUS
    <3>1. PICK v \in Threads : Busy(v) /\ port[v] = p
      BY <1>1, <1>2 DEF PortInv, NothingDropped
    <3>2. Busy(v)' BY <1>1, <1>3, <3>1 DEF Busy
    <3> QED BY <1>1, <3>1, <3>2
  <2>2. \A v \in Threads : wpc'[v] = "done" => cancelled' \/ (closed' /\ portCh' = <<>>)
    BY <1>1, <1>3, <1>4 DEF PortInv, NothingDropped
  <2>3. ~PortsDone' BY <1>1 DEF PortInv, NothingDropped, PortsDone, PoolGone
  <2> QED BY <2>1, <2>2, <2>3 DEF NothingDropped
<1>8. Found' BY <1>1, <1>2, <1>3, <1>4 DEF PortInv, Found
<1>9. FoundOnce'
  <2>1. port[w] \notin probed BY <1>1 DEF PortInv, OneWorker, Busy
  <2>2. \A v \in Threads : v # w /\ wpc'[v] = "append" =>
          wpc[v] = "append" /\ port'[v] = port[v] /\ port[v] \in probed
    BY <1>1, <1>3 DEF PortInv, FoundOnce
  <2> QED BY <1>1, <1>2, <1>3, <1>4, <2>1, <2>2 DEF PortInv, FoundOnce, Distinct
<1> QED BY <1>5, <1>6, <1>7, <1>8, <1>9 DEF PortInv

LEMMA PortInvRecord ==
  ASSUME Parts, PortInv, NEW w \in Threads, RecordOpen(w) PROVE PortInv'
<1>1. /\ wpc[w] = "append" /\ wpc' = [wpc EXCEPT ![w] = "receive"]
      /\ openPorts' = Append(openPorts, port[w])
      /\ UNCHANGED <<cancelled, running, portCh, closed, fed, port, probed, answered>>
  BY DEF RecordOpen, Work, rest, env, sections, chan, history
<1>2. UNCHANGED <<Gone, Seen>> BY <1>1 DEF Gone, Seen
<1>3. /\ \A v \in Threads : v # w => wpc'[v] = wpc[v]
      /\ wpc'[w] = "receive"
  BY <1>1 DEF Parts, WorkType
<1>4. Elems(openPorts)' = Elems(openPorts) \cup {port[w]}
  <2>1. openPorts \in Seq(Elems(Ports)) /\ port[w] \in Elems(Ports)
    BY <1>1 DEF Parts, WorkType, Holds
  <2> QED BY <1>1, <2>1, SendElements DEF Elems
<1>5. Window' BY <1>1, <1>2 DEF PortInv, Window
<1>6. OneWorker' BY <1>1, <1>2, <1>3 DEF PortInv, OneWorker, Busy
<1>7. NothingDropped'
  <2>1. \A v \in Threads : Busy(v) => Busy(v)' BY <1>1, <1>3 DEF Busy
  <2>2. ~PortsDone' BY <1>1 DEF PortInv, NothingDropped, PortsDone, PoolGone
  <2> QED BY <1>1, <1>2, <1>3, <2>1, <2>2 DEF PortInv, NothingDropped
<1>8. Found' BY <1>1, <1>3, <1>4 DEF PortInv, Found
<1>9. FoundOnce'
  <2>1. /\ openPorts \in Seq(Elems(Ports)) /\ port[w] \in Elems(Ports)
        /\ port[w] \notin Elems(openPorts)
    BY <1>1 DEF Parts, WorkType, Holds, PortInv, FoundOnce
  <2>2. Distinct(openPorts')
    BY <1>1, <2>1, AppendDistinct DEF PortInv, FoundOnce, Distinct, Elems
  <2> QED BY <1>1, <1>3, <1>4, <2>2 DEF PortInv, FoundOnce
<1> QED BY <1>5, <1>6, <1>7, <1>8, <1>9 DEF PortInv

LEMMA PortInvNext == Typed /\ PortInv /\ [Next]_vars => PortInv'
<1> SUFFICES ASSUME Parts, PortInv, [Next]_vars PROVE PortInv' BY TypeParts
<1>1. CASE FeedPort BY <1>1, PortInvFeed
<1>2. CASE ClosePorts
  <2>1. /\ fed = Len(Ports) /\ ~closed /\ closed'
        /\ UNCHANGED <<cancelled, running, portCh, fed, wpc, port, openPorts, probed, answered>>
    BY <1>2 DEF ClosePorts, ClosedAtEnd, rest, env, sections, history
  <2>2. UNCHANGED <<Gone, Seen, Elems(openPorts)>> /\ \A v : Busy(v)' = Busy(v)
    BY <2>1 DEF Gone, Seen, Elems, Busy
  <2>3. FoundOnce' BY <2>1, <2>2 DEF PortInv, FoundOnce, Distinct
  <2> QED BY <2>1, <2>2, <2>3
          DEF PortInv, Window, OneWorker, NothingDropped, Found, PortsDone, PoolGone
<1>3. ASSUME NEW w \in Threads, WorkerStep(w) PROVE PortInv'
  BY <1>3, PortInvReceive, PortInvDrained, PortInvDialled, PortInvRecord DEF WorkerStep
<1>4. CASE PortStep
  <2>1. PoolGone /\ UNCHANGED <<cancelled, pool>> BY <1>4, StepEnds DEF Ends, env
  <2>2. PoolGone' BY <2>1 DEF PoolGone, pool, chan
  <2>3. UNCHANGED <<portCh, closed, fed, wpc, port, openPorts, probed, answered>>
    BY <2>1 DEF pool, chan, history
  <2>4. UNCHANGED <<Gone, Seen, Elems(openPorts)>> /\ \A v : Busy(v)' = Busy(v)
    BY <2>3 DEF Gone, Seen, Elems, Busy
  <2>5. FoundOnce' BY <2>3, <2>4 DEF PortInv, FoundOnce, Distinct
  <2> QED BY <2>1, <2>2, <2>3, <2>4, <2>5
          DEF PortInv, Window, OneWorker, NothingDropped, Found
<1>5. CASE DNSStep \/ HeadersStep \/ TLSStep \/ TechnologyStep \/ SubsStep
  <2>1. PICK s \in Steps \ {"PORT SCAN"}, o \in Outcomes : Ends(s, o)
    BY <1>5, StepEnds DEF Steps, Outcomes
  <2> QED BY <2>1, PortInvStutter DEF Ends, Done, env, PortsDone
<1>6. CASE SubsSkip
  BY <1>6, PortInvStutter DEF SubsSkip, Done, env, PortsDone
<1>7. ASSUME NEW ok \in BOOLEAN, LookupPrefix(ok) PROVE PortInv'
  BY <1>7, PortInvStutter DEF LookupPrefix, env, sections, PortsDone
<1>8. CASE Cancel BY <1>8, PortInvStutter DEF Cancel, sections, PortsDone
<1>9. CASE PrintReport BY <1>9, PortInvStutter DEF PrintReport, env, sections, PortsDone
<1>10. ASSUME NEW o \in {"yes", "failed"}, Save(o) PROVE PortInv'
  BY <1>10, PortInvStutter DEF Save, env, sections, PortsDone
<1>11. CASE UNCHANGED vars
  BY <1>11, PortInvStutter DEF vars, rest, env, sections, PortsDone
<1> QED BY <1>1, <1>2, <1>3, <1>4, <1>5, <1>6, <1>7, <1>8, <1>9, <1>10, <1>11
        DEF Next, Feeder, Subdomains, Command

\* What the abstract command of FanOut sees of a step that leaves all of it alone.
LEMMA PromiseStutter ==
  ASSUME UNCHANGED <<cancelled, probed, answered>>, PortsDone' = PortsDone,
         PortsDone => UNCHANGED openPorts
  PROVE  UNCHANGED PortPromise!vars
<1>1. \A p : PortsDone => Times(openPorts', p) = Times(openPorts, p) OBVIOUS
<1> QED BY <1>1 DEF PortPromise!vars

LEMMA PromiseNext ==
  Typed /\ PortInv /\ [Next]_vars => [PortPromise!Next]_(PortPromise!vars)
<1> SUFFICES ASSUME Parts, PortInv, [Next]_vars
             PROVE  PortPromise!Next \/ UNCHANGED PortPromise!vars
  BY TypeParts
<1>0. \A w \in Threads : wpc[w] # "done" => ~PortsDone
  BY DEF PortInv, NothingDropped, PoolGone
<1>1. ASSUME NEW w \in Threads, NEW open \in BOOLEAN, Dialled(w, open)
      PROVE  PortPromise!Next
  <2>1. wpc[w] = "dial" /\ ~PortsDone /\ ~PortsDone'
    BY <1>0, <1>1 DEF Dialled, rest, sections, PortsDone
  <2>2. port[w] \in Elems(Ports) \ probed
    BY <2>1 DEF Parts, Holds, PortInv, OneWorker, Busy
  <2>3. /\ probed' = probed \cup {port[w]}
        /\ answered' \in {answered, answered \cup {port[w]}}
        /\ cancelled' = cancelled /\ PortsDone' = PortsDone
    BY <1>1 DEF Dialled, rest, env, sections, PortsDone
  <2>4. PortPromise!Probe(port[w]) BY <2>1, <2>2, <2>3 DEF PortPromise!Probe
  <2> QED BY <2>2, <2>4 DEF PortPromise!Next
<1>2. CASE PortStep
  <2>1. /\ PoolGone /\ ~PortsDone /\ PortsDone'
        /\ UNCHANGED <<cancelled, probed, answered, openPorts>>
    BY <1>2, StepEnds DEF Ends, Done, PortsDone, env, pool, history
  <2>2. Elems(openPorts) = answered
    BY <2>1 DEF PoolGone, PortInv, Found
  <2>3. cancelled \/ probed = Elems(Ports)
    <3> SUFFICES ASSUME ~cancelled PROVE probed = Elems(Ports) OBVIOUS
    <3>1. PICK w \in Threads : TRUE BY ThreadsAssumption
    <3>2. closed /\ portCh = <<>> BY <2>1, <3>1 DEF PoolGone, PortInv, NothingDropped
    <3>3. Len(portCh) = 0 /\ fed = Len(Ports) /\ Len(Ports) \in Nat
      BY <3>2, PortFacts DEF PortInv, Window
    <3>4. Gone = Len(Ports) BY ONLY <3>3 DEF Gone
    <3>5. Seen = Elems(Ports) BY <3>4, PortFacts DEF Seen, Elems
    <3>6. Seen \ probed = {} BY <2>1 DEF PortInv, NothingDropped, PoolGone, Busy
    <3> QED BY <3>5, <3>6 DEF Parts, WorkType
  <2>4. \A p \in Elems(Ports) : Times(openPorts', p) = IF p \in answered THEN 1 ELSE 0
    BY <2>1, <2>2, TimesFacts DEF PortInv, FoundOnce, Distinct, Elems
  <2>5. PortPromise!Report BY <2>1, <2>2, <2>3, <2>4 DEF PortPromise!Report
  <2> QED BY <2>5 DEF PortPromise!Next
<1>3. CASE Cancel
  <2>1. /\ ~cancelled /\ cancelled' /\ PortsDone' = PortsDone
        /\ UNCHANGED <<probed, answered, openPorts>>
    BY <1>3 DEF Cancel, sections, pool, history, PortsDone
  <2>2. cancelled' = TRUE BY <1>3 DEF Cancel
  <2>3. \A p : Times(openPorts', p) = Times(openPorts, p) BY <2>1
  <2>4. PortPromise!Cancel BY <2>1, <2>2, <2>3 DEF PortPromise!Cancel
  <2> QED BY <2>4 DEF PortPromise!Next
<1>4. ASSUME NEW w \in Threads, RecordOpen(w) PROVE UNCHANGED PortPromise!vars
  BY <1>0, <1>4, PromiseStutter DEF RecordOpen, rest, env, sections, history, PortsDone
<1>5. ASSUME NEW w \in Threads, ReceivePort(w) \/ Drained(w) \/ Check(w)
      PROVE  UNCHANGED PortPromise!vars
  BY <1>5, PromiseStutter
     DEF ReceivePort, Drained, Check, rest, env, sections, history, PortsDone
<1>6. CASE FeedPort \/ ClosePorts
  BY <1>6, PromiseStutter
     DEF FeedPort, ClosePorts, rest, env, sections, history, PortsDone
<1>7. ASSUME UNCHANGED pool, UNCHANGED cancelled, PortsDone' = PortsDone
      PROVE  UNCHANGED PortPromise!vars
  BY <1>7, PromiseStutter DEF pool, history
<1>8. CASE DNSStep \/ HeadersStep \/ TLSStep \/ TechnologyStep \/ SubsStep
  <2>1. PICK s \in Steps \ {"PORT SCAN"}, o \in Outcomes : Ends(s, o)
    BY <1>8, StepEnds DEF Steps, Outcomes
  <2> QED BY <1>7, <2>1 DEF Ends, Done, env, PortsDone
<1>9. CASE SubsSkip BY <1>7, <1>9 DEF SubsSkip, Done, env, PortsDone
<1>10. ASSUME NEW ok \in BOOLEAN, LookupPrefix(ok) PROVE UNCHANGED PortPromise!vars
  BY <1>7, <1>10 DEF LookupPrefix, env, sections, PortsDone
<1>11. CASE PrintReport BY <1>7, <1>11 DEF PrintReport, env, sections, PortsDone
<1>12. ASSUME NEW o \in {"yes", "failed"}, Save(o) PROVE UNCHANGED PortPromise!vars
  BY <1>7, <1>12 DEF Save, env, sections, PortsDone
<1>13. CASE UNCHANGED vars BY <1>7, <1>13 DEF vars, rest, env, sections, PortsDone
<1> QED BY <1>1, <1>2, <1>3, <1>4, <1>5, <1>6, <1>8, <1>9, <1>10, <1>11, <1>12, <1>13
        DEF Next, WorkerStep, Feeder, Subdomains, Command

\* The PORT SCAN step implements FanOut: it dials each port at most once, its section
\* names each port that answered once and no other, and without a cancel it dials them all.
THEOREM PortScanKeepsPromise == Spec => KeepsPortPromise
<1>1. Init => PortPromise!Init BY DEF Init, PortPromise!Init, PortsDone, Steps
<1> QED BY <1>1, TypeInit, TypeNext, PortInvInit, PortInvNext, PromiseNext, PTL
        DEF Spec, KeepsPortPromise, PortPromise!Spec

=============================================================================
