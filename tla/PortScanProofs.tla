--------------------------- MODULE PortScanProofs ---------------------------
(***************************************************************************)
(* Theorems about PortScan, for every list of different ports and every    *)
(* number of workers.                                                      *)
(***************************************************************************)
EXTENDS PortScan, DataFacts, FiniteSetTheorems

WorkerPC == {"receive", "check", "dial", "append", "done"}

\* The parts of TypeOK, by what they are about.
ChanType   == /\ jobCh \in Seq(AllPorts) /\ Len(jobCh) <= Len(Ports)
              /\ closed \in BOOLEAN /\ sent \in 0 .. Len(Ports)
              /\ producer \in {"send", "done"}
WorkType   == /\ wpc \in [Threads -> WorkerPC]
              /\ port \in [Threads -> AllPorts \cup {NoPort}]
              /\ openPorts \in Seq(AllPorts)
              /\ answered \subseteq probed /\ probed \subseteq AllPorts
OutputType == cancelled \in BOOLEAN /\ reported \in BOOLEAN /\ report \in Seq(AllPorts)

\* TypeOK is not inductive: that a worker has a port in hand when it dials and when it
\* records, and that jobCh holds no more than was sent, is part of the argument.
Holds == \A w \in Threads : wpc[w] \in {"check", "dial", "append"} => port[w] \in AllPorts
Parts == ChanType /\ WorkType /\ OutputType /\ Holds /\ Len(jobCh) <= sent

LEMMA TypeParts == Parts => TypeOK
BY DEF TypeOK, Parts, ChanType, WorkType, OutputType, WorkerPC

LEMMA PortFacts == /\ Len(Ports) \in Nat
                   /\ DOMAIN Ports = 1 .. Len(Ports)
                   /\ \A i \in 1 .. Len(Ports) : Ports[i] \in AllPorts
                   /\ \A i, k \in 1 .. Len(Ports) : i # k => Ports[i] # Ports[k]
<1>1. Len(Ports) \in Nat /\ DOMAIN Ports = 1 .. Len(Ports) BY PortsAssumption
<1>2. \A i, k \in DOMAIN Ports : i # k => Ports[i] # Ports[k] BY PortsAssumption
<1> QED BY <1>1, <1>2 DEF AllPorts, Elems

Distinct(s) == \A i, k \in DOMAIN s : i # k => s[i] # s[k]

\* A sorted listing names what the list named, and as often.
LEMMA SortFacts ==
  ASSUME NEW s \in Seq(AllPorts)
  PROVE  /\ Sorted(s) \in Seq(AllPorts) /\ Elems(Sorted(s)) = Elems(s)
         /\ Distinct(s) => Distinct(Sorted(s))
<1> DEFINE P == DOMAIN s
           R == Below(s)
           r == Arrange(s, P, R)
           f == Ascending(P, R)
<1>1. \A i \in P : s[i] \in Int /\ i \in Int
  <2>1. AllPorts \subseteq Int BY PortsAssumption DEF AllPorts, Elems
  <2>2. P = 1 .. Len(s) /\ \A i \in P : s[i] \in AllPorts BY SeqDomain
  <2> HIDE DEF P
  <2>3. \A i \in P : s[i] \in Int BY <2>1, <2>2
  <2>4. \A i \in P : i \in Int BY <2>2
  <2> QED BY <2>3, <2>4
<1>2. \A i, k \in P : <<i, k>> \in R <=> s[i] < s[k] \/ (s[i] = s[k] /\ i < k)
  BY DEF Below
<1> HIDE DEF R, P
<1>3. StrictOrder(P, R) BY ONLY <1>1, <1>2 DEF StrictOrder
<1>4. r \in Seq(AllPorts) /\ Places(s, P, R, r, f) BY <1>3, ArrangeFacts DEF P
<1> HIDE DEF r, f
<1>5. Elems(r) = Elems(s) BY <1>4 DEF Places, Elems, P
<1>6. Distinct(s) => Distinct(r) BY <1>4 DEF Places, Distinct, P
<1> QED BY <1>4, <1>5, <1>6 DEF Sorted, r, P, R

-----------------------------------------------------------------------------
(* Types *)

LEMMA TypeInit == Init => Parts
<1> SUFFICES ASSUME Init PROVE Parts OBVIOUS
<1>1. jobCh \in Seq(AllPorts) /\ Len(jobCh) = 0 /\ sent = 0 BY DEF Init
<1>2. ChanType
  <2>1. Len(jobCh) <= Len(Ports) /\ sent \in 0 .. Len(Ports) BY ONLY <1>1, PortFacts
  <2> QED BY <1>1, <2>1 DEF Init, ChanType
<1>3. WorkType BY DEF Init, WorkType, WorkerPC
<1>4. OutputType
  <2>1. report \in Seq(AllPorts) BY DEF Init
  <2> QED BY <2>1 DEF Init, OutputType
<1>5. Holds BY DEF Init, Holds
<1> QED BY <1>1, <1>2, <1>3, <1>4, <1>5 DEF Parts

LEMMA TypeNext == Parts /\ [Next]_vars => Parts'
<1> SUFFICES ASSUME Parts, [Next]_vars PROVE Parts' OBVIOUS
<1> USE DEF Parts, chan, history, output
<1>1. CASE Send
  <2>1. /\ jobCh' = Append(jobCh, Ports[sent + 1]) /\ sent' = sent + 1
        /\ sent < Len(Ports) /\ UNCHANGED <<closed, producer>>
    BY <1>1 DEF Send, Advance
  <2>2. Ports[sent + 1] \in AllPorts /\ sent + 1 \in 0 .. Len(Ports)
    BY <2>1, PortFacts DEF ChanType
  <2>3. jobCh' \in Seq(AllPorts) /\ Len(jobCh') = Len(jobCh) + 1 /\ Len(jobCh) \in Nat
    BY <2>1, <2>2, SendFacts DEF ChanType
  <2>4. ChanType' /\ Len(jobCh') <= sent'
    BY <2>1, <2>2, <2>3, PortFacts DEF ChanType
  <2> QED BY <1>1, <2>4 DEF Send, WorkType, OutputType, Holds
<1>2. CASE Abandon \/ CloseJobs
  BY <1>2 DEF Abandon, CloseJobs, ClosedAtEnd, ChanType, WorkType, OutputType, Holds
<1>3. ASSUME NEW w \in Threads, Receive(w) PROVE Parts'
  <2>1. /\ jobCh' \in Seq(AllPorts) /\ Len(jobCh') = Len(jobCh) - 1 /\ Len(jobCh) \in Nat
        /\ Head(jobCh) \in AllPorts
    BY <1>3, ReceiveFacts DEF Receive, ChanType
  <2>2. ChanType' /\ Len(jobCh') <= sent'
    BY <1>3, <2>1, PortFacts DEF Receive, ChanType
  <2>3. WorkType' /\ Holds'
    BY <1>3, <2>1 DEF Receive, WorkType, Work, Hold, WorkerPC, Holds
  <2> QED BY <1>3, <2>2, <2>3 DEF Receive, OutputType
<1>4. ASSUME NEW w \in Threads, Drained(w) \/ GiveUp(w) \/ Dial(w) PROVE Parts'
  <2>1. WorkType' /\ Holds'
    BY <1>4 DEF Drained, GiveUp, Dial, WorkType, Work, Hold, WorkerPC, Holds
  <2> QED BY <1>4, <2>1 DEF Drained, GiveUp, Dial, ChanType, OutputType
<1>5. ASSUME NEW w \in Threads, Refused(w) \/ Connected(w) PROVE Parts'
  <2>1. WorkType' /\ Holds'
    BY <1>5 DEF Refused, Connected, WorkType, Work, Hold, WorkerPC, Holds
  <2> QED BY <1>5, <2>1 DEF Refused, Connected, ChanType, OutputType
<1>6. ASSUME NEW w \in Threads, RecordOpen(w) PROVE Parts'
  <2>1. port[w] \in AllPorts /\ openPorts \in Seq(AllPorts)
    BY <1>6 DEF RecordOpen, Holds, WorkType
  <2>2. openPorts' \in Seq(AllPorts) BY <1>6, <2>1, SendFacts DEF RecordOpen, Recorded
  <2>3. wpc' \in [Threads -> WorkerPC] /\ port' \in [Threads -> AllPorts \cup {NoPort}]
    BY <1>6 DEF RecordOpen, WorkType, Work, Hold, WorkerPC
  <2>4. Holds' BY <1>6 DEF RecordOpen, WorkType, Work, Hold, Holds
  <2>5. WorkType' BY <1>6, <2>2, <2>3 DEF RecordOpen, WorkType
  <2> QED BY <1>6, <2>4, <2>5 DEF RecordOpen, ChanType, OutputType
<1>7. CASE Cancel BY <1>7 DEF Cancel, ChanType, WorkType, OutputType, Holds
<1>8. CASE Report
  <2>1. OutputType' BY <1>8, SortFacts DEF Report, OutputType, WorkType
  <2> QED BY <1>8, <2>1 DEF Report, ChanType, WorkType, Holds
<1>9. CASE UNCHANGED vars BY <1>9 DEF vars, ChanType, WorkType, OutputType, Holds
<1> QED BY <1>1, <1>2, <1>3, <1>4, <1>5, <1>6, <1>7, <1>8, <1>9
        DEF Next, Producer, WorkerStep

\* Every variable keeps its type, jobCh its capacity, and no port is sent that is not
\* in the list.
THEOREM TypeCorrect == Spec => []TypeOK
BY TypeInit, TypeNext, TypeParts, PTL DEF Spec

-----------------------------------------------------------------------------
(* The promise.  The ports that have left jobCh are the first ones of the     *)
(* list; each of them is with one worker that has not dialled it, or has been *)
(* dialled, or was dropped by a worker that saw the cancel.                   *)

Gone    == sent - Len(jobCh)
Seen    == {Ports[k] : k \in 1 .. Gone}
Busy(w) == wpc[w] \in {"check", "dial"}

\* What is in jobCh is the part of the list that follows Gone.
Window == /\ \A i \in 1 .. Len(jobCh) : jobCh[i] = Ports[Gone + i]
          /\ closed => sent = Len(Ports)

\* No port is with two workers, or with one that has yet to dial it after its dial.
OneWorker == /\ \A w \in Threads : Busy(w) => port[w] \in Seen \ probed
             /\ \A v, w \in Threads : v # w /\ Busy(v) /\ Busy(w) => port[v] # port[w]
             /\ probed \subseteq Seen

\* Nothing is dropped without a cancel, nor does a worker leave.
NothingDropped ==
  /\ ~cancelled => \A p \in Seen \ probed : \E w \in Threads : Busy(w) /\ port[w] = p
  /\ \A w \in Threads : wpc[w] = "done" => cancelled \/ (closed /\ jobCh = <<>>)

\* What a dial found is recorded or about to be.
Found == \A p : p \in answered <=> \/ p \in Elems(openPorts)
                                   \/ \E w \in Threads : wpc[w] = "append" /\ port[w] = p

\* No find is recorded twice: what a worker is about to append nobody else has appended
\* or will.
FoundOnce ==
  /\ Distinct(openPorts)
  /\ \A w \in Threads : wpc[w] = "append" => port[w] \in probed \ Elems(openPorts)
  /\ \A v, w \in Threads :
       v # w /\ wpc[v] = "append" /\ wpc[w] = "append" => port[v] # port[w]
  /\ Elems(openPorts) \subseteq probed

PortInv == Window /\ OneWorker /\ NothingDropped /\ Found /\ FoundOnce

LEMMA PortInvInit == Init => PortInv
<1> SUFFICES ASSUME Init PROVE PortInv OBVIOUS
<1>1. Len(jobCh) = 0 /\ sent = 0 BY DEF Init
<1>2. Gone = 0 BY ONLY <1>1 DEF Gone
<1>3. Seen = {} BY <1>2 DEF Seen
<1>4. Elems(openPorts) = {} BY DEF Init, Elems
<1>5. \A w \in Threads : wpc[w] = "receive" BY DEF Init
<1>6. Window BY <1>1, <1>2 DEF Init, Window
<1>7. OneWorker BY <1>3, <1>5 DEF Init, OneWorker, Busy
<1>8. NothingDropped BY <1>3, <1>5 DEF Init, NothingDropped, Busy
<1>9. Found BY <1>4, <1>5 DEF Init, Found
<1>10. FoundOnce BY <1>4, <1>5 DEF Init, FoundOnce, Distinct
<1> QED BY <1>6, <1>7, <1>8, <1>9, <1>10 DEF PortInv

\* A step that leaves the channel, the workers and their finds alone.
LEMMA PortInvStutter ==
  ASSUME PortInv, UNCHANGED <<jobCh, sent, wpc, port, openPorts, probed, answered>>,
         cancelled => cancelled', closed => closed', closed' => sent = Len(Ports)
  PROVE  PortInv'
<1>1. UNCHANGED <<Gone, Seen, Elems(openPorts)>> /\ \A w : Busy(w)' = Busy(w)
  BY DEF Gone, Seen, Elems, Busy
<1>2. Window' BY <1>1 DEF PortInv, Window
<1>3. OneWorker' BY <1>1 DEF PortInv, OneWorker
<1>4. NothingDropped' BY <1>1 DEF PortInv, NothingDropped
<1>5. Found' BY <1>1 DEF PortInv, Found
<1>6. FoundOnce' BY <1>1 DEF PortInv, FoundOnce, Distinct
<1> QED BY <1>2, <1>3, <1>4, <1>5, <1>6 DEF PortInv

LEMMA PortInvSend == ASSUME Parts, PortInv, Send PROVE PortInv'
<1>1. /\ jobCh' = Append(jobCh, Ports[sent + 1]) /\ sent' = sent + 1 /\ sent < Len(Ports)
      /\ UNCHANGED <<cancelled, closed, wpc, port, openPorts, probed, answered>>
  BY DEF Send, Advance, history
<1>2. /\ jobCh \in Seq(AllPorts) /\ Len(jobCh) \in Nat
      /\ sent \in Nat /\ sent + 1 \in 1 .. Len(Ports)
  BY <1>1, PortFacts DEF Parts, ChanType
<1>3. /\ Len(jobCh') = Len(jobCh) + 1 /\ jobCh'[Len(jobCh) + 1] = Ports[sent + 1]
      /\ \A i \in 1 .. Len(jobCh) : jobCh'[i] = jobCh[i]
  BY <1>1, <1>2, PortFacts, SendFacts
<1>4. Gone' = Gone /\ Gone + (Len(jobCh) + 1) = sent + 1 /\ Gone \in Int
  BY <1>1, <1>2, <1>3 DEF Gone
<1>5. Seen' = Seen /\ Elems(openPorts)' = Elems(openPorts) BY <1>1, <1>4 DEF Seen, Elems
<1>6. ~closed BY <1>1, <1>2 DEF PortInv, Window
<1>7. Window'
  <2>1. ASSUME NEW i \in 1 .. Len(jobCh') PROVE jobCh'[i] = Ports[Gone' + i]
    <3>1. CASE i \in 1 .. Len(jobCh) BY <1>3, <1>4, <3>1 DEF PortInv, Window
    <3>2. CASE i = Len(jobCh) + 1 BY <1>3, <1>4, <3>2
    <3> QED BY <1>2, <1>3, <2>1, <3>1, <3>2
  <2> QED BY <1>1, <1>6, <2>1 DEF Window
<1>8. OneWorker' BY <1>1, <1>5 DEF PortInv, OneWorker, Busy
<1>9. NothingDropped' BY <1>1, <1>5, <1>6 DEF PortInv, NothingDropped, Busy
<1>10. Found' BY <1>1, <1>5 DEF PortInv, Found
<1>11. FoundOnce' BY <1>1, <1>5 DEF PortInv, FoundOnce, Distinct
<1> QED BY <1>7, <1>8, <1>9, <1>10, <1>11 DEF PortInv

LEMMA PortInvReceive ==
  ASSUME Parts, PortInv, NEW w \in Threads, Receive(w) PROVE PortInv'
<1>1. /\ wpc[w] = "receive" /\ jobCh # <<>>
      /\ port' = [port EXCEPT ![w] = Head(jobCh)] /\ jobCh' = Tail(jobCh)
      /\ wpc' = [wpc EXCEPT ![w] = "check"]
      /\ UNCHANGED <<cancelled, closed, sent, openPorts, probed, answered>>
  BY DEF Receive, Work, Hold, history
<1>2. /\ jobCh \in Seq(AllPorts) /\ sent \in Nat /\ sent <= Len(Ports) /\ Len(jobCh) <= sent
      /\ wpc \in [Threads -> WorkerPC] /\ port \in [Threads -> AllPorts \cup {NoPort}]
  BY PortFacts DEF Parts, ChanType, WorkType
<1>3. /\ Len(jobCh) \in Nat \ {0} /\ Len(jobCh') = Len(jobCh) - 1 /\ Head(jobCh) = jobCh[1]
      /\ \A i \in 1 .. Len(jobCh) - 1 : jobCh'[i] = jobCh[i + 1]
  BY <1>1, <1>2, ReceiveFacts
<1>4. /\ Gone \in Nat /\ Gone' = Gone + 1 /\ Gone + 1 <= Len(Ports)
      /\ Head(jobCh) = Ports[Gone + 1]
  BY <1>1, <1>2, <1>3 DEF PortInv, Window, Gone
<1>5. Seen' = Seen \cup {Head(jobCh)}
  <2>1. 1 .. Gone' = (1 .. Gone) \cup {Gone + 1} BY <1>4
  <2> QED BY <1>4, <2>1 DEF Seen
<1>6. Head(jobCh) \notin Seen
  <2>1. \A k \in 1 .. Gone : Ports[k] # Ports[Gone + 1] BY <1>4, PortFacts
  <2> QED BY <1>4, <2>1 DEF Seen
<1>7. \A v \in Threads : /\ v # w => wpc'[v] = wpc[v] /\ port'[v] = port[v]
                         /\ v = w => wpc'[v] = "check" /\ port'[v] = Head(jobCh)
  BY <1>1, <1>2
<1>8. Window'
  <2>1. ASSUME NEW i \in 1 .. Len(jobCh') PROVE jobCh'[i] = Ports[Gone' + i]
    <3>1. i \in Nat /\ 1 <= i /\ i <= Len(jobCh) - 1 BY <1>3
    <3>2. i \in 1 .. Len(jobCh) - 1 /\ i + 1 \in 1 .. Len(jobCh) BY <1>3, <3>1
    <3>3. Gone' + i = Gone + (i + 1) BY <1>4, <3>1
    <3> QED BY <1>3, <3>2, <3>3 DEF PortInv, Window
  <2> QED BY <1>1, <2>1 DEF PortInv, Window
<1>9. OneWorker' BY <1>1, <1>5, <1>6, <1>7 DEF PortInv, OneWorker, Busy
<1>10. NothingDropped'
  <2>1. ~cancelled' => \A p \in Seen' \ probed' : \E v \in Threads : Busy(v)' /\ port'[v] = p
    <3> SUFFICES ASSUME ~cancelled', NEW p \in Seen' \ probed'
                 PROVE  \E v \in Threads : Busy(v)' /\ port'[v] = p
      OBVIOUS
    <3>1. CASE p = Head(jobCh) BY <1>7, <3>1 DEF Busy
    <3>2. CASE p \in Seen \ probed
      <4>1. PICK v \in Threads : Busy(v) /\ port[v] = p
        BY <1>1, <3>2 DEF PortInv, NothingDropped
      <4> QED BY <1>1, <1>7, <4>1 DEF Busy
    <3> QED BY <1>1, <1>5, <3>1, <3>2
  <2>2. \A v \in Threads : wpc'[v] = "done" => cancelled' \/ (closed' /\ jobCh' = <<>>)
    BY <1>1, <1>7 DEF PortInv, NothingDropped
  <2> QED BY <2>1, <2>2 DEF NothingDropped
<1>11. Found' BY <1>1, <1>7 DEF PortInv, Found, Elems
<1>12. FoundOnce'
  <2>1. Elems(openPorts)' = Elems(openPorts) BY <1>1 DEF Elems
  <2> QED BY <1>1, <1>7, <2>1 DEF PortInv, FoundOnce, Distinct
<1> QED BY <1>8, <1>9, <1>10, <1>11, <1>12 DEF PortInv

\* Before the dial: a worker leaves, or goes on to dial.  GiveUp drops a port, which
\* the cancel allows.
LEMMA PortInvCheck ==
  ASSUME Parts, PortInv, NEW w \in Threads, Drained(w) \/ GiveUp(w) \/ Dial(w)
  PROVE  PortInv'
<1>1. /\ wpc[w] \in {"receive", "check"}
      /\ wpc' = [wpc EXCEPT ![w] = wpc'[w]] /\ wpc'[w] \in {"done", "dial"}
      /\ wpc'[w] = "dial" => wpc[w] = "check" /\ port' = port
      /\ wpc'[w] = "done" => cancelled \/ (wpc[w] = "receive" /\ closed /\ jobCh = <<>>)
      /\ UNCHANGED <<cancelled, jobCh, closed, sent, openPorts, probed, answered>>
  BY DEF Drained, GiveUp, Dial, Expired, Work, chan, history, Parts, WorkType
<1>2. \A v \in Threads : v # w => wpc'[v] = wpc[v] /\ port'[v] = port[v]
  BY DEF Drained, GiveUp, Dial, Work, Hold, Parts, WorkType
<1>3. UNCHANGED <<Gone, Seen, Elems(openPorts)>> BY <1>1 DEF Gone, Seen, Elems
<1>4. Window' BY <1>1, <1>3 DEF PortInv, Window
<1>5. OneWorker' BY <1>1, <1>2, <1>3 DEF PortInv, OneWorker, Busy
<1>6. NothingDropped'
  <2>1. ~cancelled' => \A p \in Seen' \ probed' : \E v \in Threads : Busy(v)' /\ port'[v] = p
    <3> SUFFICES ASSUME ~cancelled', NEW p \in Seen' \ probed'
                 PROVE  \E v \in Threads : Busy(v)' /\ port'[v] = p
      OBVIOUS
    <3>1. PICK v \in Threads : Busy(v) /\ port[v] = p
      BY <1>1, <1>3 DEF PortInv, NothingDropped
    <3>2. Busy(v)' /\ port'[v] = port[v] BY <1>1, <1>2, <3>1 DEF Busy
    <3> QED BY <3>1, <3>2
  <2>2. \A v \in Threads : wpc'[v] = "done" => cancelled' \/ (closed' /\ jobCh' = <<>>)
    BY <1>1, <1>2 DEF PortInv, NothingDropped
  <2> QED BY <2>1, <2>2 DEF NothingDropped
<1>7. Found' BY <1>1, <1>2, <1>3 DEF PortInv, Found
<1>8. FoundOnce' BY <1>1, <1>2, <1>3 DEF PortInv, FoundOnce, Distinct
<1> QED BY <1>4, <1>5, <1>6, <1>7, <1>8 DEF PortInv

LEMMA PortInvDialled ==
  ASSUME Parts, PortInv, NEW w \in Threads, Refused(w) \/ Connected(w) PROVE PortInv'
<1>1. /\ wpc[w] = "dial" /\ probed' = probed \cup {port[w]}
      /\ UNCHANGED <<cancelled, jobCh, closed, sent, openPorts>>
      /\ \/ wpc'[w] = "receive" /\ answered' = answered
         \/ wpc'[w] = "append" /\ answered' = answered \cup {port[w]} /\ port' = port
  BY DEF Refused, Connected, Work, chan, Parts, WorkType
<1>2. \A v \in Threads : v # w => wpc'[v] = wpc[v] /\ port'[v] = port[v]
  BY DEF Refused, Connected, Work, Hold, Parts, WorkType
<1>3. UNCHANGED <<Gone, Seen, Elems(openPorts)>> BY <1>1 DEF Gone, Seen, Elems
<1>4. Window' BY <1>1, <1>3 DEF PortInv, Window
<1>5. OneWorker' BY <1>1, <1>2, <1>3 DEF PortInv, OneWorker, Busy
<1>6. NothingDropped'
  <2>1. ~cancelled' => \A p \in Seen' \ probed' : \E v \in Threads : Busy(v)' /\ port'[v] = p
    <3> SUFFICES ASSUME ~cancelled', NEW p \in Seen' \ probed'
                 PROVE  \E v \in Threads : Busy(v)' /\ port'[v] = p
      OBVIOUS
    <3>1. PICK v \in Threads : Busy(v) /\ port[v] = p
      BY <1>1, <1>3 DEF PortInv, NothingDropped
    <3>2. v # w BY <1>1, <3>1
    <3>3. Busy(v)' /\ port'[v] = p BY <1>2, <3>1, <3>2 DEF Busy
    <3> QED BY <3>3
  <2>2. \A v \in Threads : wpc'[v] = "done" => cancelled' \/ (closed' /\ jobCh' = <<>>)
    BY <1>1, <1>2 DEF PortInv, NothingDropped
  <2> QED BY <2>1, <2>2 DEF NothingDropped
<1>7. Found' BY <1>1, <1>2, <1>3 DEF PortInv, Found
<1>8. FoundOnce'
  <2>1. port[w] \notin probed BY <1>1 DEF PortInv, OneWorker, Busy
  <2>2. \A v \in Threads : v # w /\ wpc'[v] = "append" =>
          wpc[v] = "append" /\ port'[v] = port[v] /\ port[v] \in probed
    BY <1>2 DEF PortInv, FoundOnce
  <2> QED BY <1>1, <1>2, <1>3, <2>1, <2>2 DEF PortInv, FoundOnce, Distinct
<1> QED BY <1>4, <1>5, <1>6, <1>7, <1>8 DEF PortInv

LEMMA PortInvRecord ==
  ASSUME Parts, PortInv, NEW w \in Threads, RecordOpen(w) PROVE PortInv'
<1>1. /\ wpc[w] = "append" /\ wpc'[w] = "receive" /\ openPorts' = Append(openPorts, port[w])
      /\ UNCHANGED <<cancelled, jobCh, closed, sent, probed, answered>>
      /\ \A v \in Threads : v # w => wpc'[v] = wpc[v] /\ port'[v] = port[v]
  BY DEF RecordOpen, Recorded, Work, Hold, chan, history, Parts, WorkType
<1>2. UNCHANGED <<Gone, Seen>> BY <1>1 DEF Gone, Seen
<1>3. Elems(openPorts)' = Elems(openPorts) \cup {port[w]}
  <2>1. openPorts \in Seq(AllPorts) /\ port[w] \in AllPorts
    BY <1>1 DEF Parts, WorkType, Holds
  <2> QED BY <1>1, <2>1, SendElements DEF Elems
<1>4. Window' BY <1>1, <1>2 DEF PortInv, Window
<1>5. OneWorker' BY <1>1, <1>2 DEF PortInv, OneWorker, Busy
<1>6. NothingDropped'
  <2>1. \A v \in Threads : Busy(v) => Busy(v)' /\ port'[v] = port[v] BY <1>1 DEF Busy
  <2> QED BY <1>1, <1>2, <2>1 DEF PortInv, NothingDropped
<1>7. Found' BY <1>1, <1>3 DEF PortInv, Found
<1>8. FoundOnce'
  <2>1. openPorts \in Seq(AllPorts) /\ port[w] \in AllPorts /\ port[w] \notin Elems(openPorts)
    BY <1>1 DEF Parts, WorkType, Holds, PortInv, FoundOnce
  <2>2. Distinct(openPorts')
    BY <1>1, <2>1, AppendDistinct DEF PortInv, FoundOnce, Distinct, Elems
  <2> QED BY <1>1, <1>3, <2>2 DEF PortInv, FoundOnce
<1> QED BY <1>4, <1>5, <1>6, <1>7, <1>8 DEF PortInv

LEMMA PortInvNext == Parts /\ PortInv /\ [Next]_vars => PortInv'
<1> SUFFICES ASSUME Parts, PortInv, [Next]_vars PROVE PortInv' OBVIOUS
<1>1. CASE Send BY <1>1, PortInvSend
<1>2. CASE Abandon BY <1>2, PortInvStutter DEF Abandon, history, PortInv, Window
<1>3. CASE CloseJobs
  <2>1. sent >= Len(Ports) /\ sent \in 0 .. Len(Ports)
    BY <1>3 DEF CloseJobs, Parts, ChanType
  <2>2. sent = Len(Ports)
    <3>1. Len(Ports) \in Nat /\ sent \in Nat /\ sent <= Len(Ports) /\ ~(sent < Len(Ports))
      BY <2>1, PortFacts
    <3> QED BY ONLY <3>1
  <2> QED BY <1>3, <2>2, PortInvStutter DEF CloseJobs, ClosedAtEnd, history
<1>4. ASSUME NEW w \in Threads, WorkerStep(w) PROVE PortInv'
  BY <1>4, PortInvReceive, PortInvCheck, PortInvDialled, PortInvRecord DEF WorkerStep
<1>5. CASE Cancel BY <1>5, PortInvStutter DEF Cancel, chan, history, PortInv, Window
<1>6. CASE Report BY <1>6, PortInvStutter DEF Report, chan, history, PortInv, Window
<1>7. CASE UNCHANGED vars
  BY <1>7, PortInvStutter DEF vars, chan, history, PortInv, Window
<1> QED BY <1>1, <1>2, <1>3, <1>4, <1>5, <1>6, <1>7 DEF Next, Producer

LEMMA PromiseNext ==
  Parts /\ PortInv /\ [Next]_vars => [Promise!Next]_(Promise!vars)
<1> SUFFICES ASSUME Parts, PortInv, [Next]_vars
             PROVE  Promise!Next \/ UNCHANGED Promise!vars
  OBVIOUS
<1>1. ASSUME NEW w \in Threads, Refused(w) \/ Connected(w), ~reported
      PROVE  Promise!Next
  <2>1. /\ wpc[w] = "dial" /\ probed' = probed \cup {port[w]}
        /\ answered' \in {answered, answered \cup {port[w]}}
        /\ UNCHANGED <<cancelled, reported, report>>
    BY <1>1 DEF Refused, Connected, output
  <2>2. port[w] \in AllPorts \ probed
    BY <2>1 DEF Parts, Holds, PortInv, OneWorker, Busy
  <2>3. Promise!Probe(port[w]) BY <1>1, <2>1, <2>2 DEF Promise!Probe
  <2> QED BY <2>2, <2>3 DEF Promise!Next
<1>2. ASSUME Report, ~reported PROVE Promise!Next
  <2>1. /\ WorkersGone /\ reported' = TRUE /\ report' = Sorted(openPorts)
        /\ UNCHANGED <<cancelled, probed, answered>>
    BY <1>2 DEF Report, history
  <2>2. Elems(openPorts) = answered BY <2>1 DEF WorkersGone, PortInv, Found
  <2>3. \A p \in AllPorts : Times(report', p) = IF p \in answered THEN 1 ELSE 0
    <3>1. Elems(report') = answered /\ Distinct(report')
      BY <2>1, <2>2, SortFacts DEF Parts, WorkType, PortInv, FoundOnce
    <3> QED BY <3>1, TimesFacts DEF Distinct, Elems
  <2>4. cancelled \/ probed = AllPorts
    <3> SUFFICES ASSUME ~cancelled PROVE probed = AllPorts OBVIOUS
    <3>1. PICK w \in Threads : TRUE BY ThreadsAssumption
    <3>2. closed /\ jobCh = <<>> BY <2>1, <3>1 DEF WorkersGone, PortInv, NothingDropped
    <3>3. Len(jobCh) = 0 /\ sent = Len(Ports) /\ Len(Ports) \in Nat
      BY <3>2, PortFacts DEF PortInv, Window
    <3>4. Gone = Len(Ports) BY ONLY <3>3 DEF Gone
    <3>5. Seen = AllPorts BY <3>4, PortFacts DEF Seen, AllPorts, Elems
    <3>6. Seen \ probed = {} BY <2>1 DEF PortInv, NothingDropped, WorkersGone, Busy
    <3> QED BY <3>5, <3>6 DEF Parts, WorkType
  <2>5. Promise!Report BY <1>2, <2>1, <2>3, <2>4 DEF Promise!Report
  <2> QED BY <2>5 DEF Promise!Next
<1>3. CASE Cancel
  <2>1. /\ ~cancelled /\ cancelled' = TRUE
        /\ UNCHANGED <<reported, report, probed, answered>>
    BY <1>3 DEF Cancel, history, output
  <2>2. Promise!Cancel BY <2>1 DEF Promise!Cancel
  <2> QED BY <2>2 DEF Promise!Next
<1>4. ASSUME UNCHANGED <<cancelled, reported, report, probed, answered>>
      PROVE  UNCHANGED Promise!vars
  BY <1>4 DEF Promise!vars
<1>5. CASE Producer
  BY <1>4, <1>5 DEF Producer, Send, Abandon, CloseJobs, history, output
<1>6. ASSUME NEW w \in Threads, Receive(w) \/ Drained(w) \/ GiveUp(w) \/ Dial(w) \/ RecordOpen(w)
      PROVE  UNCHANGED Promise!vars
  BY <1>4, <1>6 DEF Receive, Drained, GiveUp, Dial, RecordOpen, history, output
<1>7. CASE UNCHANGED vars BY <1>4, <1>7 DEF vars, history, output
<1> QED BY <1>1, <1>2, <1>3, <1>5, <1>6, <1>7 DEF Next, WorkerStep

\* "port scan" implements FanOut: it dials each port at most once, its report names
\* each port that answered once and no other, and without a cancel it has dialled them all.
THEOREM PortScanKeepsPromise == Spec => KeepsPromise
<1>1. ASSUME Init PROVE Promise!Init
  <2>1. \A p \in AllPorts : Times(report, p) = 0
    <3>1. report = <<>> BY <1>1 DEF Init
    <3>2. \A p \in AllPorts : Times(<<>>, p) = 0 BY TimesFacts
    <3> QED BY <3>1, <3>2
  <2> QED BY <1>1, <2>1 DEF Init, Promise!Init
<1> QED BY <1>1, TypeInit, TypeNext, PortInvInit, PortInvNext, PromiseNext, PTL
        DEF Spec, KeepsPromise, Promise!Spec

=============================================================================
