--------------------------- MODULE FanOutsProofs ---------------------------
(***************************************************************************)
(* Theorems about ListCommands, QueryCommands and SubdomainTree, and about *)
(* the commands as MCFanOuts explores them, for any lists, workers,        *)
(* queries and prefixes.                                                   *)
(***************************************************************************)
EXTENDS MCFanOuts, DataFacts, FiniteSetTheorems

-----------------------------------------------------------------------------
(* Channels and slices *)

\* A sequence of places that have been probed is a sequence of probed places.
LEMMA SeqOfElems ==
  ASSUME NEW S, NEW T, NEW s \in Seq(S), List!Elems(s) \subseteq T
  PROVE  s \in Seq(T)
<1>1. s \in [1 .. Len(s) -> S] /\ Len(s) \in Nat /\ DOMAIN s = 1 .. Len(s) OBVIOUS
<1>2. \A i \in 1 .. Len(s) : s[i] \in T BY <1>1 DEF List!Elems
<1>3. s \in [1 .. Len(s) -> T] BY <1>1, <1>2
<1> QED BY <1>1, <1>3

\* What a channel or a slice holds after a send or an append, and before a receive.
LEMMA ElemsAppend ==
  ASSUME NEW S, NEW s \in Seq(S), NEW x \in S
  PROVE  Append(s, x) \in Seq(S) /\ List!Elems(Append(s, x)) = List!Elems(s) \cup {x}
<1>1. Append(s, x) \in Seq(S) BY SendFacts
<1>2. List!Elems(Append(s, x)) = List!Elems(s) \cup {x} BY SendElements DEF List!Elems
<1> QED BY <1>1, <1>2

LEMMA ElemsTail ==
  ASSUME NEW S, NEW s \in Seq(S), s # <<>>
  PROVE  /\ Head(s) \in S /\ Tail(s) \in Seq(S)
         /\ List!Elems(s) = List!Elems(Tail(s)) \cup {Head(s)}
<1>1. Head(s) \in S /\ Tail(s) \in Seq(S) BY ReceiveFacts
<1>2. List!Elems(s) = List!Elems(Tail(s)) \cup {Head(s)} BY ReceiveElements DEF List!Elems
<1> QED BY <1>1, <1>2

\* What two of them hold, one behind the other.
LEMMA ConcatElems ==
  ASSUME NEW S, NEW s \in Seq(S), NEW t \in Seq(S)
  PROVE  s \o t \in Seq(S) /\ List!Elems(s \o t) = List!Elems(s) \cup List!Elems(t)
<1> DEFINE all == s \o t
<1>1. /\ all \in Seq(S) /\ Len(s) \in Nat /\ Len(t) \in Nat
      /\ DOMAIN s = 1 .. Len(s) /\ DOMAIN t = 1 .. Len(t) /\ DOMAIN all = 1 .. Len(s) + Len(t)
      /\ \A i \in DOMAIN s : all[i] = s[i]
      /\ \A i \in DOMAIN t : all[Len(s) + i] = t[i]
  OBVIOUS
<1> HIDE DEF all
<1>2. ASSUME NEW i \in DOMAIN all PROVE all[i] \in List!Elems(s) \cup List!Elems(t)
  <2>1. CASE i \in DOMAIN s BY <1>1, <2>1 DEF List!Elems
  <2>2. CASE i \notin DOMAIN s
    <3>1. i - Len(s) \in DOMAIN t /\ i = Len(s) + (i - Len(s)) BY <1>1, <2>2
    <3> QED BY <1>1, <3>1 DEF List!Elems
  <2> QED BY <2>1, <2>2
<1>3. \A i \in DOMAIN s : i \in DOMAIN all BY <1>1
<1>4. \A i \in DOMAIN t : Len(s) + i \in DOMAIN all BY <1>1
<1>5. List!Elems(s) \cup List!Elems(t) \subseteq List!Elems(all)
  BY <1>1, <1>3, <1>4 DEF List!Elems
<1>6. List!Elems(all) \subseteq List!Elems(s) \cup List!Elems(t) BY <1>2 DEF List!Elems
<1> QED BY <1>1, <1>5, <1>6 DEF all

\* Two channels without repetitions and without a common element, one behind the other.
LEMMA UniqueConcat ==
  ASSUME NEW S, NEW s \in Seq(S), NEW t \in Seq(S), List!Unique(s), List!Unique(t),
         List!Elems(s) \cap List!Elems(t) = {}
  PROVE  List!Unique(s \o t)
<1> DEFINE all == s \o t
<1>1. /\ Len(s) \in Nat /\ Len(t) \in Nat
      /\ DOMAIN s = 1 .. Len(s) /\ DOMAIN t = 1 .. Len(t) /\ DOMAIN all = 1 .. Len(s) + Len(t)
      /\ \A i \in DOMAIN s : all[i] = s[i]
      /\ \A i \in DOMAIN t : all[Len(s) + i] = t[i]
  OBVIOUS
<1> HIDE DEF all
<1>2. ASSUME NEW i \in DOMAIN all, i \notin DOMAIN s
      PROVE  i - Len(s) \in DOMAIN t /\ all[i] = t[i - Len(s)]
  <2>1. i - Len(s) \in DOMAIN t /\ i = Len(s) + (i - Len(s)) BY <1>1, <1>2
  <2> QED BY <1>1, <2>1
<1>3. \A i \in DOMAIN s, k \in DOMAIN t : s[i] # t[k] BY DEF List!Elems
<1>4. ASSUME NEW i \in DOMAIN all, NEW k \in DOMAIN all, i # k PROVE all[i] # all[k]
  <2>1. CASE i \in DOMAIN s /\ k \in DOMAIN s BY <1>1, <1>4, <2>1 DEF List!Unique
  <2>2. CASE i \in DOMAIN s /\ k \notin DOMAIN s BY <1>1, <1>2, <1>3, <2>2
  <2>3. CASE i \notin DOMAIN s /\ k \in DOMAIN s BY <1>1, <1>2, <1>3, <2>3
  <2>4. CASE i \notin DOMAIN s /\ k \notin DOMAIN s
    <3>1. i - Len(s) # k - Len(s) BY <1>1, <1>4
    <3> QED BY <1>2, <2>4, <3>1 DEF List!Unique
  <2> QED BY <2>1, <2>2, <2>3, <2>4
<1> QED BY <1>4 DEF List!Unique, all

-----------------------------------------------------------------------------
(* ListCommands: the types *)

ListPC   == {"receive", "check", "probe", "deliver", "done"}
Holding  == {"check", "probe", "deliver"}

ListType == /\ ListCmd /\ targets \in Lists /\ workers \in {{}, Threads}
            /\ queue \in Seq(List!Places) /\ fed \in 0 .. Len(targets)
            /\ wpc \in [workers -> ListPC]
            /\ held \in [workers -> List!Places \cup {NoJob}]
            /\ \A w \in workers : wpc[w] \in Holding => held[w] \in List!Places
            /\ closed \in BOOLEAN /\ resultsClosed \in BOOLEAN
            /\ cancelled \in BOOLEAN /\ reported \in BOOLEAN
FoundType == /\ results \in Seq(List!Places) /\ found \in Seq(List!Places)
             /\ List!Elems(results) \subseteq probed /\ List!Elems(found) \subseteq probed
             /\ hits \subseteq probed /\ probed \subseteq List!Jobs
             /\ conns \in [workers -> SUBSET hits]
             /\ \A w \in workers : wpc[w] = "deliver" => held[w] \in probed

\* A list is a sequence and its places are numbers.
LEMMA PlaceFacts ==
  ASSUME targets \in Lists
  PROVE  Len(targets) \in Nat /\ List!Places = 1 .. Len(targets) /\ List!Jobs \subseteq List!Places
<1>1. targets \in Seq({targets[i] : i \in DOMAIN targets}) BY ListsAssumption
<1> QED BY <1>1 DEF List!Places, List!Jobs

LEMMA ListTypeParts == ListType /\ FoundType => List!TypeOK
<1> SUFFICES ASSUME ListType, FoundType PROVE List!TypeOK OBVIOUS
<1>1. results \in Seq(probed) /\ found \in Seq(probed) BY SeqOfElems DEF FoundType
<1> QED BY <1>1 DEF ListType, FoundType, ListPC, ListCmd, List!TypeOK

LEMMA ListTypeInit == List!Init => ListType /\ FoundType
<1> SUFFICES ASSUME List!Init PROVE ListType /\ FoundType OBVIOUS
<1>1. ListCmd /\ targets \in Lists /\ workers \in {{}, Threads} BY DEF List!Init, ListCmd
<1>2. 0 \in 0 .. Len(targets) BY <1>1, PlaceFacts
<1>3. queue \in Seq(List!Places) BY DEF List!Init
<1>4. ListType BY <1>1, <1>2, <1>3 DEF List!Init, ListType, ListPC, Holding
<1>5. FoundType BY DEF List!Init, FoundType, List!Elems
<1> QED BY <1>4, <1>5

LEMMA ListTypeNext ==
  ListType /\ FoundType /\ [List!Next]_(List!listVars) => ListType' /\ FoundType'
<1> SUFFICES ASSUME ListType, FoundType, [List!Next]_(List!listVars)
             PROVE  ListType' /\ FoundType'
  OBVIOUS
<1> USE DEF List!input, List!feed, List!output, List!history
<1>p. Len(targets) \in Nat /\ List!Places = 1 .. Len(targets) /\ List!Jobs \subseteq List!Places
  BY PlaceFacts DEF ListType
<1>1. ASSUME UNCHANGED <<cmd, targets, workers>>
      PROVE  ListCmd' /\ targets' \in Lists /\ workers' \in {{}, Threads}
             /\ List!Places' = List!Places /\ List!Jobs' = List!Jobs
  BY <1>1 DEF ListType, ListCmd, List!Places, List!Jobs
<1>2. CASE List!Feed
  <2>1. fed + 1 \in List!Places /\ fed + 1 \in 0 .. Len(targets)
    BY <1>2, <1>p DEF List!Feed, ListType
  <2>2. queue' \in Seq(List!Places) BY <1>2, <2>1, SendFacts DEF List!Feed, ListType
  <2> QED BY <1>1, <1>2, <2>1, <2>2 DEF List!Feed, ListType, FoundType, List!Elems
<1>3. CASE List!Skip
  <2>1. fed' \in 0 .. Len(targets) BY <1>3, <1>p DEF List!Skip, List!PassTo, ListType
  <2> QED BY <1>1, <1>3, <2>1 DEF List!Skip, ListType, FoundType, List!Elems
<1>4. CASE List!CloseQueue
  BY <1>1, <1>4 DEF List!CloseQueue, ListType, FoundType, List!Elems
<1>5. ASSUME NEW w \in workers, List!Receive(w) PROVE ListType' /\ FoundType'
  <2>1. Head(queue) \in List!Places /\ queue' \in Seq(List!Places)
    BY <1>5, ReceiveFacts DEF List!Receive, ListType
  <2>2. ListType' BY <1>1, <1>5, <2>1
    DEF List!Receive, List!Work, List!Hold, ListType, ListPC, Holding
  <2>3. \A v \in workers : wpc'[v] = "deliver" => wpc[v] = "deliver" /\ held'[v] = held[v]
    BY <1>5 DEF List!Receive, List!Work, List!Hold, ListType
  <2> QED BY <1>1, <1>5, <2>2, <2>3 DEF List!Receive, FoundType, List!Elems
<1>6. ASSUME NEW w \in workers,
             List!Drained(w) \/ List!GiveUp(w) \/ List!GoOn(w) \/ List!PassOver(w)
      PROVE  ListType' /\ FoundType'
  <2>1. ListType' BY <1>1, <1>6 DEF List!Drained, List!GiveUp, List!GoOn, List!PassOver,
                                  List!Work, List!Hold, ListType, ListPC, Holding
  <2>2. UNCHANGED <<targets, workers, results, found, probed, hits>>
        /\ conns' \in {conns, [conns EXCEPT ![w] = {}]}
    BY <1>6 DEF List!Drained, List!GiveUp, List!GoOn, List!PassOver
  <2>3. \A v \in workers : wpc'[v] = "deliver" => wpc[v] = "deliver" /\ held'[v] = held[v]
    BY <1>6 DEF List!Drained, List!GiveUp, List!GoOn, List!PassOver, List!Work, List!Hold, ListType
  <2> QED BY <2>1, <2>2, <2>3 DEF FoundType, List!Elems, List!Places, List!Jobs
<1>7. ASSUME NEW w \in workers, NEW ok \in BOOLEAN, List!LookUp(w, ok) \/ List!Dial(w, ok)
      PROVE  ListType' /\ FoundType'
  <2>1. ListType' BY <1>1, <1>7 DEF List!LookUp, List!Dial, List!Answered, List!Delivers,
                                  List!Work, List!Hold, ListType, ListPC, Holding
  <2>2. /\ UNCHANGED <<targets, workers, results, found>>
        /\ held[w] \in List!Jobs /\ probed' = probed \cup {held[w]}
        /\ hits' = IF ok THEN hits \cup {held[w]} ELSE hits
        /\ \/ conns' = conns
           \/ ok /\ conns' = [conns EXCEPT ![w] = @ \cup {held[w]}]
    BY <1>7 DEF List!LookUp, List!Dial, List!Answered
  <2>3. /\ UNCHANGED <<List!Elems(results), List!Elems(found), List!Places, List!Jobs>>
        /\ hits \subseteq hits' /\ (ok => held[w] \in hits')
    BY <2>2 DEF List!Elems, List!Places, List!Jobs
  <2>4. conns' \in [workers -> SUBSET hits'] BY <2>2, <2>3 DEF FoundType
  <2>5. \A v \in workers : wpc'[v] = "deliver" =>
          held'[v] = held[v] /\ (wpc[v] = "deliver" \/ v = w)
    BY <1>7 DEF List!LookUp, List!Dial, List!Answered, List!Work, List!Hold, ListType
  <2> QED BY <2>1, <2>2, <2>3, <2>4, <2>5 DEF FoundType
<1>8. ASSUME NEW w \in workers, List!Deliver(w)
      PROVE  ListType' /\ FoundType'
  <2>1. ListType' BY <1>1, <1>8 DEF List!Deliver, List!Work, List!Hold, ListType, ListPC, Holding
  <2>2. held[w] \in probed /\ held[w] \in List!Places BY <1>8, <1>p DEF List!Deliver, FoundType
  <2>3. /\ UNCHANGED <<targets, workers, conns, probed, hits>>
        /\ \/ found' = Append(found, held[w]) /\ results' = results
           \/ results' = Append(results, held[w]) /\ found' = found
    BY <1>8 DEF List!Deliver
  <2>4. ASSUME NEW s \in Seq(List!Places), List!Elems(s) \subseteq probed
        PROVE  /\ Append(s, held[w]) \in Seq(List!Places)
               /\ List!Elems(Append(s, held[w])) \subseteq probed
    BY <2>2, <2>4, ElemsAppend
  <2>5. /\ results' \in Seq(List!Places) /\ found' \in Seq(List!Places)
        /\ List!Elems(results') \subseteq probed /\ List!Elems(found') \subseteq probed
    BY <2>3, <2>4 DEF FoundType
  <2>6. \A v \in workers : wpc'[v] = "deliver" => wpc[v] = "deliver" /\ held'[v] = held[v]
    BY <1>8 DEF List!Deliver, List!Work, List!Hold, ListType
  <2> QED BY <2>1, <2>3, <2>5, <2>6 DEF FoundType, List!Elems, List!Places, List!Jobs
<1>9. CASE List!CloseResults \/ List!Finish \/ List!Timeout
  BY <1>1, <1>9 DEF List!CloseResults, List!Finish, List!Timeout, ListType, FoundType, List!Elems
<1>10. CASE List!Collect
  <2>1. ListType' BY <1>1, <1>10 DEF List!Collect, ListType
  <2>2. Head(results) \in List!Places /\ Tail(results) \in Seq(List!Places)
        /\ List!Elems(results) = List!Elems(Tail(results)) \cup {Head(results)}
    BY <1>10, ElemsTail DEF List!Collect, FoundType
  <2>3. found' \in Seq(List!Places) /\ List!Elems(found') = List!Elems(found) \cup {Head(results)}
    BY <1>10, <2>2, ElemsAppend DEF List!Collect, FoundType
  <2>4. results' = Tail(results) /\ UNCHANGED <<targets, workers, wpc, held, conns, probed, hits>>
    BY <1>10 DEF List!Collect
  <2> QED BY <2>1, <2>2, <2>3, <2>4 DEF FoundType, List!Elems, List!Places, List!Jobs
<1>11. CASE UNCHANGED List!listVars
  BY <1>1, <1>11 DEF List!listVars, ListType, FoundType, List!Elems
<1> QED BY <1>2, <1>3, <1>4, <1>5, <1>6, <1>7, <1>8, <1>9, <1>10, <1>11
        DEF List!Next, List!Feeder, List!WorkerStep, List!Ending

-----------------------------------------------------------------------------
(* ListCommands: what is reported, and once *)

Waiting     == List!Elems(queue)
Bringing(w) == wpc[w] = "deliver"
Reached     == List!Elems(found) \cup List!Elems(results)

\* A place is in the queue, with one worker, or probed, once it has been fed.
PlacedOnce ==
  /\ List!Unique(queue)
  /\ Waiting \cup probed \subseteq 1 .. fed /\ Waiting \cap probed = {}
  /\ \A w \in workers : List!AtWork(w) => held[w] \in (1 .. fed) \ (Waiting \cup probed)
  /\ \A v, w \in workers : v # w /\ List!AtWork(v) /\ List!AtWork(w) => held[v] # held[w]

\* Only brute drops places, after a cancel, and only then does a worker leave early.
Kept == /\ ~List!Dropping => \A i \in List!Jobs : \/ ~(i \in 1 .. fed) \/ i \in Waiting \cup probed
                                             \/ \E w \in workers : List!AtWork(w) /\ held[w] = i
        /\ \A w \in workers : wpc[w] = "done" => List!Dropping \/ (closed /\ queue = <<>>)
        /\ \A w \in workers : wpc[w] = "check" => cmd = "brute"
        /\ closed => fed = Len(targets)

\* What is to be reported is on its way, once.
DeliveredOnce ==
  /\ List!Unique(found) /\ List!Unique(results)
  /\ List!Elems(found) \cap List!Elems(results) = {}
  /\ \A w \in workers : Bringing(w) => held[w] \notin Reached
  /\ \A v, w \in workers : v # w /\ Bringing(v) /\ Bringing(w) => held[v] # held[w]
  /\ \A i \in probed : i \in hits \/ cmd = "bulk"
       => i \in Reached \/ \E w \in workers : Bringing(w) /\ held[w] = i
  /\ cmd # "bulk" => /\ Reached \subseteq hits
                     /\ \A w \in workers : Bringing(w) => held[w] \in hits
  /\ cmd = "multi" => results = <<>>

\* The connections of multi, and what holds when a command returns.
Closing ==
  /\ cmd = "multi" => \A i \in hits : \E w \in workers : i \in conns[w] \/ wpc[w] = "done"
  /\ cmd # "multi" => \A w \in workers : conns[w] = {}
  /\ \A w \in workers : wpc[w] = "done" => conns[w] = {}
  /\ resultsClosed \/ reported => List!WorkersGone
  /\ reported => results = <<>>
  /\ cmd = "bulk" => workers = Threads

ListInv == ListType /\ FoundType /\ PlacedOnce /\ Kept /\ DeliveredOnce /\ Closing

LEMMA ListInvInit == List!Init => ListInv
<1> SUFFICES ASSUME List!Init PROVE ListInv OBVIOUS
<1>1. ListType /\ FoundType BY ListTypeInit
<1>2. Waiting = {} /\ Reached = {} /\ fed = 0 BY DEF List!Init, Waiting, Reached, List!Elems
<1>3. \A w \in workers : wpc[w] = "receive" BY DEF List!Init
<1>4. PlacedOnce BY <1>2, <1>3 DEF List!Init, PlacedOnce, List!Unique, List!AtWork
<1>5. Kept
  <2>1. \A i \in List!Jobs : ~(i \in 1 .. fed) BY <1>2
  <2>2. ~closed BY DEF List!Init
  <2> QED BY <1>3, <2>1, <2>2 DEF Kept
<1>6. DeliveredOnce BY <1>2, <1>3 DEF List!Init, DeliveredOnce, List!Unique, Bringing, Reached
<1>7. Closing BY <1>3 DEF List!Init, Closing
<1> QED BY <1>1, <1>4, <1>5, <1>6, <1>7 DEF ListInv

\* A channel without repetitions stays so when something new is sent or something is
\* received, and what is received was there once.
LEMMA UniqueAppend ==
  ASSUME NEW S, NEW s \in Seq(S), NEW x \in S, List!Unique(s), x \notin List!Elems(s)
  PROVE  List!Unique(Append(s, x))
<1>1. DOMAIN Append(s, x) = DOMAIN s \cup {Len(s) + 1} OBVIOUS
<1>2. Append(s, x)[Len(s) + 1] = x /\ \A i \in DOMAIN s : Append(s, x)[i] = s[i] BY SendFacts
<1>3. \A i \in DOMAIN s : s[i] # x BY DEF List!Elems
<1> QED BY ONLY <1>1, <1>2, <1>3, List!Unique(s) DEF List!Unique

LEMMA UniqueTail ==
  ASSUME NEW S, NEW s \in Seq(S), s # <<>>, List!Unique(s)
  PROVE  List!Unique(Tail(s)) /\ Head(s) \notin List!Elems(Tail(s))
BY ReceiveDistinct DEF List!Unique, List!Elems

\* A step that leaves the queue, the workers and the probes alone.
LEMMA PlacedStutter ==
  ASSUME PlacedOnce, UNCHANGED <<workers, queue, fed, wpc, held, probed>>
  PROVE  PlacedOnce'
BY DEF PlacedOnce, Waiting, List!AtWork, List!Elems, List!Unique

LEMMA WaitingAfterFeed ==
  ASSUME queue \in Seq(List!Places), fed + 1 \in List!Places, queue' = Append(queue, fed + 1)
  PROVE  Waiting' = Waiting \cup {fed + 1}
<1>1. List!Elems(Append(queue, fed + 1)) = List!Elems(queue) \cup {fed + 1} BY ElemsAppend
<1> QED BY <1>1 DEF Waiting, List!Elems

LEMMA PlacedNext == ListInv /\ List!Next => PlacedOnce'
<1> SUFFICES ASSUME ListInv, List!Next PROVE PlacedOnce' OBVIOUS
<1> USE DEF List!input, List!feed, List!output, List!history
<1>p. /\ Len(targets) \in Nat /\ List!Places = 1 .. Len(targets)
      /\ fed \in Nat /\ queue \in Seq(List!Places) /\ ListType /\ PlacedOnce
  BY PlaceFacts DEF ListInv, ListType
<1>1. CASE List!Feed
  <2>1. /\ queue' = Append(queue, fed + 1) /\ fed' = fed + 1 /\ fed + 1 \in List!Places
        /\ UNCHANGED <<workers, wpc, held, probed>>
    BY <1>1, <1>p DEF List!Feed
  <2>2. Waiting' = Waiting \cup {fed + 1}
    BY <2>1, <1>p, WaitingAfterFeed
  <2>3. fed + 1 \notin 1 .. fed /\ 1 .. fed' = (1 .. fed) \cup {fed + 1} BY <2>1, <1>p
  <2>4. List!Unique(queue')
    <3>1. fed + 1 \notin List!Elems(queue) BY <1>p, <2>3 DEF PlacedOnce, Waiting
    <3> QED BY <1>p, <2>1, <3>1, UniqueAppend DEF PlacedOnce
  <2> QED BY <1>p, <2>1, <2>2, <2>3, <2>4 DEF PlacedOnce, List!AtWork, List!Unique
<1>2. CASE List!Skip
  <2>1. fed' = fed + 1 /\ UNCHANGED <<workers, queue, wpc, held, probed>>
    BY <1>2 DEF List!Skip, List!PassTo
  <2>2. 1 .. fed \subseteq 1 .. fed' BY <2>1, <1>p
  <2>3. Waiting' = Waiting BY <2>1 DEF Waiting, List!Elems
  <2> QED BY <1>p, <2>1, <2>2, <2>3 DEF PlacedOnce, List!AtWork, List!Unique
<1>3. ASSUME NEW w \in workers, List!Receive(w) PROVE PlacedOnce'
  <2>1. /\ wpc[w] = "receive" /\ queue # <<>> /\ queue' = Tail(queue)
        /\ wpc' = [wpc EXCEPT ![w] = IF cmd = "brute" THEN "check" ELSE "probe"]
        /\ held' = [held EXCEPT ![w] = Head(queue)]
        /\ UNCHANGED <<workers, fed, probed>>
    BY <1>3 DEF List!Receive, List!Work, List!Hold
  <2>2. Waiting = Waiting' \cup {Head(queue)}
    BY <1>p, <2>1, ElemsTail DEF Waiting, List!Elems
  <2>3. List!Unique(queue') /\ Head(queue) \notin List!Elems(Tail(queue))
    BY <1>p, <2>1, UniqueTail DEF PlacedOnce
  <2>4. Head(queue) \notin Waiting' BY <2>1, <2>3 DEF Waiting, List!Elems
  <2>5. /\ held'[w] = Head(queue)
        /\ \A v \in workers : v # w => wpc'[v] = wpc[v] /\ held'[v] = held[v]
    BY <1>p, <2>1 DEF ListType
  <2>6. \A v \in workers : v # w => List!AtWork(v)' = List!AtWork(v) /\ held'[v] = held[v]
    BY <2>5 DEF List!AtWork
  <2>7. Head(queue) \in (1 .. fed) \ probed BY <1>p, <2>2 DEF PlacedOnce
  <2>8. \A v \in workers : List!AtWork(v) => held[v] # Head(queue) BY <1>p, <2>2 DEF PlacedOnce
  <2> QED BY <1>p, <2>1, <2>2, <2>3, <2>4, <2>5, <2>6, <2>7, <2>8 DEF PlacedOnce, List!Unique
<1>4. ASSUME NEW w \in workers,
             List!Drained(w) \/ List!GiveUp(w) \/ List!GoOn(w) \/ List!PassOver(w) \/ List!Deliver(w)
      PROVE  PlacedOnce'
  <2>1. UNCHANGED <<workers, queue, fed, probed>>
    BY <1>4 DEF List!Drained, List!GiveUp, List!GoOn, List!PassOver, List!Deliver
  <2>2. \A v \in workers : List!AtWork(v)' => List!AtWork(v) /\ held'[v] = held[v]
    BY <1>4, <1>p DEF List!Drained, List!GiveUp, List!GoOn, List!PassOver, List!Deliver,
                   List!Work, List!Hold, List!AtWork, ListType
  <2>3. Waiting' = Waiting BY <2>1 DEF Waiting, List!Elems
  <2> QED BY <1>p, <2>1, <2>2, <2>3 DEF PlacedOnce, List!Unique
<1>5. ASSUME NEW w \in workers, NEW ok \in BOOLEAN, List!LookUp(w, ok) \/ List!Dial(w, ok)
      PROVE  PlacedOnce'
  <2>1. /\ wpc[w] = "probe" /\ probed' = probed \cup {held[w]}
        /\ UNCHANGED <<workers, queue, fed>>
    BY <1>5 DEF List!LookUp, List!Dial, List!Answered
  <2>2. \A v \in workers : List!AtWork(v)' => v # w /\ List!AtWork(v) /\ held'[v] = held[v]
    BY <1>5, <1>p DEF List!LookUp, List!Dial, List!Work, List!Hold, List!AtWork, ListType
  <2>3. Waiting' = Waiting BY <2>1 DEF Waiting, List!Elems
  <2>4. List!AtWork(w) BY <2>1 DEF List!AtWork
  <2> QED BY <1>p, <2>1, <2>2, <2>3, <2>4 DEF PlacedOnce, List!Unique
<1>6. CASE List!CloseQueue \/ List!Ending \/ List!Timeout
  BY <1>6, <1>p, PlacedStutter DEF List!CloseQueue, List!Ending, List!CloseResults,
     List!Collect, List!Finish, List!Timeout
<1> QED BY <1>1, <1>2, <1>3, <1>4, <1>5, <1>6 DEF List!Next, List!Feeder, List!WorkerStep

LEMMA KeptNext == ListInv /\ List!Next => Kept'
<1> SUFFICES ASSUME ListInv, List!Next PROVE Kept' OBVIOUS
<1> USE DEF List!input, List!feed, List!output, List!history
<1>p. /\ Len(targets) \in Nat /\ List!Places = 1 .. Len(targets) /\ fed \in 0 .. Len(targets)
      /\ queue \in Seq(List!Places) /\ ListType /\ Kept
  BY PlaceFacts DEF ListInv, ListType
<1>j. ASSUME UNCHANGED targets PROVE List!Jobs' = List!Jobs BY <1>j DEF List!Jobs, List!Places
<1>1. CASE List!Feed
  <2>1. /\ queue' = Append(queue, fed + 1) /\ fed' = fed + 1 /\ fed + 1 \in List!Places /\ ~closed
        /\ UNCHANGED <<cmd, targets, workers, closed, cancelled, wpc, held, probed>>
    BY <1>1, <1>p DEF List!Feed
  <2>2. Waiting' = Waiting \cup {fed + 1}
    BY <2>1, <1>p, WaitingAfterFeed
  <2>3. 1 .. fed' = (1 .. fed) \cup {fed + 1} BY <2>1, <1>p
  <2>4. List!Dropping' = List!Dropping BY <2>1 DEF List!Dropping
  <2> QED BY <1>p, <1>j, <2>1, <2>2, <2>3, <2>4 DEF Kept, List!AtWork
<1>2. CASE List!Skip
  <2>1. /\ cmd = "brute" /\ cancelled /\ fed < Len(targets)
        /\ UNCHANGED <<cmd, targets, workers, queue, closed, cancelled, wpc, held, probed>>
    BY <1>2 DEF List!Skip
  <2>2. List!Dropping' /\ ~closed BY <1>p, <2>1 DEF List!Dropping, Kept
  <2> QED BY <1>p, <2>1, <2>2 DEF Kept
<1>3. CASE List!CloseQueue
  <2>1. /\ fed = Len(targets) /\ ~closed
        /\ UNCHANGED <<cmd, targets, workers, queue, fed, cancelled, wpc, held, probed>>
    BY <1>3 DEF List!CloseQueue
  <2>2. Waiting' = Waiting /\ List!Dropping' = List!Dropping BY <2>1 DEF Waiting, List!Dropping, List!Elems
  <2> QED BY <1>p, <1>j, <2>1, <2>2 DEF Kept, List!AtWork
<1>4. ASSUME NEW w \in workers, List!Receive(w) PROVE Kept'
  <2>1. /\ wpc[w] = "receive" /\ queue # <<>> /\ queue' = Tail(queue)
        /\ wpc' = [wpc EXCEPT ![w] = IF cmd = "brute" THEN "check" ELSE "probe"]
        /\ held' = [held EXCEPT ![w] = Head(queue)]
        /\ UNCHANGED <<cmd, targets, workers, fed, closed, cancelled, probed>>
    BY <1>4 DEF List!Receive, List!Work, List!Hold
  <2>2. Waiting = Waiting' \cup {Head(queue)}
    BY <1>p, <2>1, ElemsTail DEF Waiting, List!Elems
  <2>3. /\ held'[w] = Head(queue) /\ wpc'[w] = IF cmd = "brute" THEN "check" ELSE "probe"
        /\ \A v \in workers : v # w => wpc'[v] = wpc[v] /\ held'[v] = held[v]
    BY <1>p, <2>1 DEF ListType
  <2>4. List!Dropping' = List!Dropping BY <2>1 DEF List!Dropping
  <2>5. ~List!Dropping => \A i \in List!Jobs : \/ ~(i \in 1 .. fed) \/ i \in Waiting' \cup probed
                                          \/ \E v \in workers : List!AtWork(v)' /\ held'[v] = i
    <3> SUFFICES ASSUME ~List!Dropping, NEW i \in List!Jobs, i \in 1 .. fed, i \notin Waiting' \cup probed
                 PROVE  \E v \in workers : List!AtWork(v)' /\ held'[v] = i
      OBVIOUS
    <3>1. CASE i = Head(queue) BY <2>3, <3>1 DEF List!AtWork
    <3>2. CASE i # Head(queue)
      <4>1. PICK v \in workers : List!AtWork(v) /\ held[v] = i
        BY <1>p, <2>2, <3>2 DEF Kept
      <4>2. v # w BY <2>1, <4>1 DEF List!AtWork
      <4> QED BY <2>3, <4>1, <4>2 DEF List!AtWork
    <3> QED BY <3>1, <3>2
  <2>6. \A v \in workers : wpc'[v] = "done" => List!Dropping
    BY <1>p, <2>1, <2>3 DEF Kept
  <2>7. \A v \in workers : wpc'[v] = "check" => cmd = "brute" BY <1>p, <2>3 DEF Kept
  <2> QED BY <1>p, <1>j, <2>1, <2>4, <2>5, <2>6, <2>7 DEF Kept
<1>5. ASSUME NEW w \in workers,
             List!Drained(w) \/ List!GiveUp(w) \/ List!GoOn(w) \/ List!PassOver(w) \/ List!Deliver(w)
      PROVE  Kept'
  <2>1. UNCHANGED <<cmd, targets, workers, queue, fed, closed, cancelled, probed>>
    BY <1>5 DEF List!Drained, List!GiveUp, List!GoOn, List!PassOver, List!Deliver
  <2>2. /\ \A v \in workers : v # w => wpc'[v] = wpc[v] /\ held'[v] = held[v]
        /\ wpc'[w] \in {"done", "probe", "receive"}
        /\ wpc'[w] = "done" => (closed /\ queue = <<>>) \/ (wpc[w] = "check" /\ cancelled)
        /\ List!AtWork(w) /\ wpc'[w] # "done" => (List!AtWork(w)' /\ held'[w] = held[w]) \/ held[w] \notin List!Jobs
        /\ wpc'[w] = "done" => ~List!AtWork(w) \/ (wpc[w] = "check" /\ cancelled)
    BY <1>5, <1>p DEF List!Drained, List!GiveUp, List!GoOn, List!PassOver, List!Deliver,
                   List!Work, List!Hold, List!AtWork, ListType
  <2>3. Waiting' = Waiting /\ List!Dropping' = List!Dropping BY <2>1 DEF Waiting, List!Dropping, List!Elems
  <2>4. wpc[w] = "check" /\ cancelled => List!Dropping BY <1>p DEF Kept, List!Dropping
  <2>5. ~List!Dropping => \A i \in List!Jobs : \/ ~(i \in 1 .. fed) \/ i \in Waiting \cup probed
                                          \/ \E v \in workers : List!AtWork(v)' /\ held'[v] = i
    <3> SUFFICES ASSUME ~List!Dropping, NEW i \in List!Jobs, i \in 1 .. fed, i \notin Waiting \cup probed
                 PROVE  \E v \in workers : List!AtWork(v)' /\ held'[v] = i
      OBVIOUS
    <3>1. PICK v \in workers : List!AtWork(v) /\ held[v] = i BY <1>p DEF Kept
    <3>2. CASE v = w BY <2>2, <2>4, <3>1, <3>2
    <3>3. CASE v # w BY <2>2, <3>1, <3>3 DEF List!AtWork
    <3> QED BY <3>2, <3>3
  <2>6. \A v \in workers : wpc'[v] = "done" => List!Dropping \/ (closed /\ queue = <<>>)
    BY <1>p, <2>2, <2>4 DEF Kept
  <2>7. \A v \in workers : wpc'[v] = "check" => cmd = "brute" BY <1>p, <2>2 DEF Kept
  <2> QED BY <1>p, <1>j, <2>1, <2>3, <2>5, <2>6, <2>7 DEF Kept
<1>6. ASSUME NEW w \in workers, NEW ok \in BOOLEAN, List!LookUp(w, ok) \/ List!Dial(w, ok)
      PROVE  Kept'
  <2>1. /\ wpc[w] = "probe" /\ probed' = probed \cup {held[w]}
        /\ UNCHANGED <<cmd, targets, workers, queue, fed, closed, cancelled>>
    BY <1>6 DEF List!LookUp, List!Dial, List!Answered
  <2>2. /\ \A v \in workers : v # w => wpc'[v] = wpc[v] /\ held'[v] = held[v]
        /\ wpc'[w] \in {"deliver", "receive"}
    BY <1>6, <1>p DEF List!LookUp, List!Dial, List!Work, List!Hold, ListType
  <2>3. Waiting' = Waiting /\ List!Dropping' = List!Dropping BY <2>1 DEF Waiting, List!Dropping, List!Elems
  <2>5. ~List!Dropping => \A i \in List!Jobs : \/ ~(i \in 1 .. fed) \/ i \in Waiting \cup probed'
                                          \/ \E v \in workers : List!AtWork(v)' /\ held'[v] = i
    <3> SUFFICES ASSUME ~List!Dropping, NEW i \in List!Jobs, i \in 1 .. fed, i \notin Waiting \cup probed'
                 PROVE  \E v \in workers : List!AtWork(v)' /\ held'[v] = i
      OBVIOUS
    <3>1. PICK v \in workers : List!AtWork(v) /\ held[v] = i BY <1>p, <2>1 DEF Kept
    <3>2. v # w BY <2>1, <3>1
    <3> QED BY <2>2, <3>1, <3>2 DEF List!AtWork
  <2>6. \A v \in workers : wpc'[v] = "done" => List!Dropping \/ (closed /\ queue = <<>>)
    BY <1>p, <2>2 DEF Kept
  <2>7. \A v \in workers : wpc'[v] = "check" => cmd = "brute" BY <1>p, <2>2 DEF Kept
  <2> QED BY <1>p, <1>j, <2>1, <2>3, <2>5, <2>6, <2>7 DEF Kept
<1>7. CASE List!Ending \/ List!Timeout
  <2>1. /\ UNCHANGED <<cmd, targets, workers, queue, fed, closed, wpc, held, probed>>
        /\ cancelled => cancelled'
    BY <1>7 DEF List!Ending, List!CloseResults, List!Collect, List!Finish, List!Timeout
  <2>2. Waiting' = Waiting /\ (List!Dropping => List!Dropping') BY <2>1 DEF Waiting, List!Dropping, List!Elems
  <2> QED BY <1>p, <1>j, <2>1, <2>2 DEF Kept, List!AtWork
<1> QED BY <1>1, <1>2, <1>3, <1>4, <1>5, <1>6, <1>7
        DEF List!Next, List!Feeder, List!WorkerStep

LEMMA DeliveredNext == ListInv /\ List!Next => DeliveredOnce'
<1> SUFFICES ASSUME ListInv, List!Next PROVE DeliveredOnce' OBVIOUS
<1> USE DEF List!input, List!feed, List!output, List!history
<1>p. ListType /\ FoundType /\ PlacedOnce /\ DeliveredOnce BY DEF ListInv
<1>1. ASSUME UNCHANGED <<cmd, workers, probed, hits, results, found>>,
             \A v \in workers : /\ Bringing(v)' = Bringing(v)
                                /\ Bringing(v) => held'[v] = held[v]
      PROVE  DeliveredOnce'
  <2>1. UNCHANGED <<Reached, List!Elems(found), List!Elems(results)>>
    BY <1>1 DEF Reached, List!Elems
  <2> QED BY <1>1, <1>p, <2>1 DEF DeliveredOnce, List!Unique
<1>2. CASE List!Feeder \/ List!CloseResults \/ List!Finish \/ List!Timeout
  BY <1>1, <1>2 DEF List!Feeder, List!Feed, List!Skip, List!CloseQueue, List!CloseResults,
                    List!Finish, List!Timeout, Bringing
<1>3. ASSUME NEW w \in workers, \/ List!Receive(w) \/ List!Drained(w) \/ List!GiveUp(w)
                                \/ List!GoOn(w) \/ List!PassOver(w)
      PROVE  DeliveredOnce'
  <2>1. UNCHANGED <<cmd, workers, probed, hits, results, found>>
    BY <1>3 DEF List!Receive, List!Drained, List!GiveUp, List!GoOn, List!PassOver
  <2>2. \A v \in workers : Bringing(v)' = Bringing(v) /\ (Bringing(v) => held'[v] = held[v])
    BY <1>3, <1>p DEF List!Receive, List!Drained, List!GiveUp, List!GoOn, List!PassOver,
                      List!Work, List!Hold, Bringing, ListType
  <2> QED BY <1>1, <2>1, <2>2
<1>4. ASSUME NEW w \in workers, NEW ok \in BOOLEAN, List!LookUp(w, ok) \/ List!Dial(w, ok)
      PROVE  DeliveredOnce'
  <2>1. /\ wpc[w] = "probe" /\ probed' = probed \cup {held[w]}
        /\ hits' = IF ok THEN hits \cup {held[w]} ELSE hits
        /\ UNCHANGED <<cmd, workers, results, found>>
    BY <1>4 DEF List!LookUp, List!Dial, List!Answered
  <2>2. /\ \A v \in workers : v # w => Bringing(v)' = Bringing(v) /\ held'[v] = held[v]
        /\ Bringing(w)' => held'[w] = held[w]
        /\ ok \/ cmd = "bulk" <=> Bringing(w)'
    BY <1>4, <1>p DEF List!LookUp, List!Dial, List!Delivers, List!Work, List!Hold, Bringing, ListType
  <2>3. held[w] \notin probed /\ ~Bringing(w) BY <1>p, <2>1 DEF PlacedOnce, List!AtWork, Bringing
  <2>4. UNCHANGED <<Reached, List!Elems(found), List!Elems(results)>>
    BY <2>1 DEF Reached, List!Elems
  <2>5. held[w] \notin Reached BY <1>p, <2>3 DEF FoundType, Reached
  <2>6. \A v \in workers : Bringing(v) => held[v] # held[w]
    BY <1>p, <2>3 DEF FoundType, Bringing
  <2>7. \A i \in probed' : i \in hits' \/ cmd = "bulk"
          => i \in Reached \/ \E v \in workers : Bringing(v)' /\ held'[v] = i
    <3> SUFFICES ASSUME NEW i \in probed', i \in hits' \/ cmd = "bulk", i \notin Reached
                 PROVE  \E v \in workers : Bringing(v)' /\ held'[v] = i
      OBVIOUS
    <3>1. CASE i = held[w]
      <4>1. i \notin hits BY <1>p, <2>3, <3>1 DEF FoundType
      <4> QED BY <2>1, <2>2, <3>1, <4>1
    <3>2. CASE i # held[w]
      <4>1. PICK v \in workers : Bringing(v) /\ held[v] = i
        BY <1>p, <2>1, <3>2 DEF DeliveredOnce
      <4> QED BY <2>2, <2>3, <4>1
    <3> QED BY <3>1, <3>2
  <2>8. \A v \in workers : Bringing(v)' => held'[v] \notin Reached
    BY <1>p, <2>2, <2>5 DEF DeliveredOnce
  <2>9. \A u, v \in workers : u # v /\ Bringing(u)' /\ Bringing(v)' => held'[u] # held'[v]
    BY <1>p, <2>2, <2>6 DEF DeliveredOnce
  <2>10. cmd # "bulk" => /\ Reached \subseteq hits'
                         /\ \A v \in workers : Bringing(v)' => held'[v] \in hits'
    BY <1>p, <2>1, <2>2 DEF DeliveredOnce
  <2> QED BY <1>p, <2>1, <2>4, <2>7, <2>8, <2>9, <2>10 DEF DeliveredOnce, List!Unique
<1>5. ASSUME NEW w \in workers, List!Deliver(w) PROVE DeliveredOnce'
  <2>1. /\ Bringing(w) /\ UNCHANGED <<cmd, workers, probed, hits>>
        /\ \/ found' = Append(found, held[w]) /\ results' = results
           \/ cmd # "multi" /\ results' = Append(results, held[w]) /\ found' = found
    BY <1>5 DEF List!Deliver, Bringing
  <2>2. /\ \A v \in workers : v # w => Bringing(v)' = Bringing(v) /\ held'[v] = held[v]
        /\ ~Bringing(w)'
    BY <1>5, <1>p DEF List!Deliver, List!Work, List!Hold, Bringing, ListType
  <2>3. held[w] \in List!Places /\ held[w] \notin Reached
    BY <1>p, <2>1 DEF ListType, Holding, Bringing, DeliveredOnce
  <2>4. ASSUME NEW s \in Seq(List!Places), List!Unique(s), held[w] \notin List!Elems(s)
        PROVE  /\ List!Unique(Append(s, held[w]))
               /\ List!Elems(Append(s, held[w])) = List!Elems(s) \cup {held[w]}
    BY <2>3, <2>4, UniqueAppend, ElemsAppend
  <2>5. /\ found \in Seq(List!Places) /\ List!Unique(found) /\ held[w] \notin List!Elems(found)
        /\ results \in Seq(List!Places) /\ List!Unique(results) /\ held[w] \notin List!Elems(results)
        /\ List!Elems(found) \cap List!Elems(results) = {}
    BY <1>p, <2>3 DEF FoundType, DeliveredOnce, Reached
  <2>6. /\ List!Unique(found') /\ List!Unique(results')
        /\ List!Elems(found') \cap List!Elems(results') = {}
        /\ List!Elems(found') \cup List!Elems(results') = Reached \cup {held[w]}
    BY <2>1, <2>4, <2>5 DEF Reached
  <2>7. Reached' = Reached \cup {held[w]} /\ List!Elems(found)' = List!Elems(found')
        /\ List!Elems(results)' = List!Elems(results')
    BY <2>6 DEF Reached, List!Elems
  <2>8. \A i \in probed : i \in hits \/ cmd = "bulk"
          => i \in Reached' \/ \E v \in workers : Bringing(v)' /\ held'[v] = i
    <3> SUFFICES ASSUME NEW i \in probed, i \in hits \/ cmd = "bulk", i \notin Reached'
                 PROVE  \E v \in workers : Bringing(v)' /\ held'[v] = i
      OBVIOUS
    <3>1. PICK v \in workers : Bringing(v) /\ held[v] = i BY <1>p, <2>7 DEF DeliveredOnce
    <3> QED BY <2>2, <2>7, <3>1
  <2>9. \A v \in workers : Bringing(v)' => held'[v] \notin Reached'
    BY <1>p, <2>1, <2>2, <2>7 DEF DeliveredOnce
  <2>10. \A u, v \in workers : u # v /\ Bringing(u)' /\ Bringing(v)' => held'[u] # held'[v]
    BY <1>p, <2>2 DEF DeliveredOnce
  <2>11. cmd' = "multi" => results' = <<>> BY <1>p, <2>1 DEF DeliveredOnce
  <2>12. cmd # "bulk" => /\ Reached' \subseteq hits
                         /\ \A v \in workers : Bringing(v)' => held'[v] \in hits
    BY <1>p, <2>1, <2>2, <2>7 DEF DeliveredOnce
  <2> QED BY <2>1, <2>6, <2>7, <2>8, <2>9, <2>10, <2>11, <2>12 DEF DeliveredOnce, List!Unique
<1>6. CASE List!Collect
  <2>1. /\ cmd # "multi" /\ results # <<>>
        /\ found' = Append(found, Head(results)) /\ results' = Tail(results)
        /\ UNCHANGED <<cmd, workers, wpc, held, probed, hits>>
    BY <1>6 DEF List!Collect
  <2>2. /\ Head(results) \in List!Places /\ List!Unique(results')
        /\ List!Elems(results) = List!Elems(Tail(results)) \cup {Head(results)}
        /\ Head(results) \notin List!Elems(Tail(results))
    BY <1>p, <2>1, ElemsTail, UniqueTail DEF FoundType, DeliveredOnce
  <2>3. Head(results) \notin List!Elems(found) BY <1>p, <2>2 DEF DeliveredOnce
  <2>4. /\ List!Elems(Append(found, Head(results))) = List!Elems(found) \cup {Head(results)}
        /\ List!Unique(Append(found, Head(results)))
    BY <1>p, <2>2, <2>3, ElemsAppend, UniqueAppend DEF FoundType, DeliveredOnce
  <2>5. /\ List!Elems(found)' = List!Elems(found) \cup {Head(results)}
        /\ List!Elems(results)' = List!Elems(Tail(results))
        /\ List!Unique(found)' /\ List!Unique(results)'
    BY <2>1, <2>2, <2>4 DEF List!Elems, List!Unique
  <2>6. Reached' = Reached BY <2>2, <2>5 DEF Reached
  <2>7. (List!Elems(found) \cap List!Elems(results))' = {}
    BY <1>p, <2>2, <2>5 DEF DeliveredOnce
  <2> QED BY <1>p, <2>1, <2>5, <2>6, <2>7 DEF DeliveredOnce, Bringing
<1> QED BY <1>2, <1>3, <1>4, <1>5, <1>6 DEF List!Next, List!WorkerStep, List!Ending

LEMMA ClosingNext == ListInv /\ List!Next => Closing'
<1> SUFFICES ASSUME ListInv, List!Next PROVE Closing' OBVIOUS
<1> USE DEF List!input, List!feed, List!output, List!history
<1>p. ListType /\ FoundType /\ DeliveredOnce /\ Closing /\ ~reported BY DEF ListInv, List!Next
<1>1. CASE List!Feeder \/ List!Timeout
  BY <1>1, <1>p DEF List!Feeder, List!Feed, List!Skip, List!CloseQueue, List!Timeout, Closing,
     List!WorkersGone
<1>2. ASSUME NEW w \in workers, \/ List!Receive(w) \/ List!GiveUp(w) \/ List!GoOn(w)
                                \/ List!PassOver(w) \/ List!Deliver(w) \/ List!Drained(w)
      PROVE  Closing'
  <2>1. /\ wpc[w] # "done" /\ UNCHANGED <<cmd, workers, hits, resultsClosed, reported>>
        /\ \A v \in workers : v # w => wpc'[v] = wpc[v]
    BY <1>2, <1>p DEF List!Receive, List!GiveUp, List!GoOn, List!PassOver, List!Deliver,
                      List!Drained, List!Work, ListType
  <2>2. \/ UNCHANGED conns /\ (wpc'[w] = "done" => wpc[w] = "check")
        \/ conns' = [conns EXCEPT ![w] = {}] /\ wpc'[w] = "done"
    BY <1>2, <1>p DEF List!Receive, List!GiveUp, List!GoOn, List!PassOver, List!Deliver,
                      List!Drained, List!Work, ListType
  <2>3. /\ \A v \in workers : v # w => conns'[v] = conns[v]
        /\ conns'[w] \in {conns[w], {}}
        /\ conns'[w] # conns[w] => wpc'[w] = "done"
    BY <1>p, <2>2 DEF FoundType
  <2>4. wpc'[w] = "done" => conns'[w] = {}
    <3>1. wpc[w] = "check" => conns[w] = {} BY <1>p DEF ListInv, Kept, Closing
    <3> QED BY <1>p, <2>2, <2>3, <3>1 DEF FoundType
  <2>5. ~List!WorkersGone /\ ~resultsClosed BY <1>p, <2>1 DEF List!WorkersGone, Closing
  <2>6. cmd = "multi" => \A i \in hits : \E v \in workers : i \in conns'[v] \/ wpc'[v] = "done"
    <3> SUFFICES ASSUME cmd = "multi", NEW i \in hits
                 PROVE  \E v \in workers : i \in conns'[v] \/ wpc'[v] = "done"
      OBVIOUS
    <3>1. PICK v \in workers : i \in conns[v] \/ wpc[v] = "done" BY <1>p DEF Closing
    <3> QED BY <2>1, <2>3, <3>1
  <2> QED BY <1>p, <2>1, <2>3, <2>4, <2>5, <2>6 DEF Closing
<1>3. ASSUME NEW w \in workers, NEW ok \in BOOLEAN, List!LookUp(w, ok) \/ List!Dial(w, ok)
      PROVE  Closing'
  <2>1. /\ wpc[w] = "probe" /\ UNCHANGED <<cmd, workers, resultsClosed, reported>>
        /\ hits' = IF ok THEN hits \cup {held[w]} ELSE hits
        /\ wpc'[w] # "done" /\ \A v \in workers : v # w => wpc'[v] = wpc[v]
    BY <1>3, <1>p DEF List!LookUp, List!Dial, List!Answered, List!Work, ListType
  <2>2. /\ \A v \in workers : v # w => conns'[v] = conns[v]
        /\ cmd = "multi" => conns'[w] = IF ok THEN conns[w] \cup {held[w]} ELSE conns[w]
        /\ cmd # "multi" => conns' = conns
    BY <1>3, <1>p DEF List!LookUp, List!Dial, FoundType
  <2>3. ~List!WorkersGone /\ ~resultsClosed BY <1>p, <2>1 DEF List!WorkersGone, Closing
  <2>4. cmd = "multi" => \A i \in hits' : \E v \in workers : i \in conns'[v] \/ wpc'[v] = "done"
    <3> SUFFICES ASSUME cmd = "multi", NEW i \in hits'
                 PROVE  \E v \in workers : i \in conns'[v] \/ wpc'[v] = "done"
      OBVIOUS
    <3>1. CASE i \in hits
      <4>1. PICK v \in workers : i \in conns[v] \/ wpc[v] = "done" BY <1>p, <3>1 DEF Closing
      <4> QED BY <2>1, <2>2, <4>1
    <3>2. CASE i \notin hits BY <2>1, <2>2, <3>2
    <3> QED BY <3>1, <3>2
  <2> QED BY <1>p, <2>1, <2>2, <2>3, <2>4 DEF Closing
<1>4. CASE List!CloseResults
  BY <1>4, <1>p DEF List!CloseResults, Closing, List!WorkersGone
<1>5. CASE List!Collect
  BY <1>5, <1>p DEF List!Collect, Closing, List!WorkersGone
<1>6. CASE List!Finish
  BY <1>6, <1>p DEF List!Finish, Closing, DeliveredOnce, List!WorkersGone
<1> QED BY <1>1, <1>2, <1>3, <1>4, <1>5, <1>6 DEF List!Next, List!WorkerStep, List!Ending

LEMMA ListInvNext == ListInv /\ [List!Next]_(List!listVars) => ListInv'
<1> SUFFICES ASSUME ListInv, [List!Next]_(List!listVars) PROVE ListInv' OBVIOUS
<1>1. ListType' /\ FoundType' BY ListTypeNext DEF ListInv
<1>2. CASE List!Next BY <1>1, <1>2, PlacedNext, KeptNext, DeliveredNext, ClosingNext DEF ListInv
<1>3. CASE UNCHANGED List!listVars
  <2>1. /\ UNCHANGED <<cmd, targets, workers, queue, closed, fed, wpc, held, conns, cancelled>>
        /\ UNCHANGED <<results, resultsClosed, found, probed, hits, reported>>
    BY <1>3 DEF List!listVars, List!input, List!feed, List!output, List!history
  <2>2. UNCHANGED <<Waiting, Reached, List!Dropping, List!Elems(found), List!Elems(results), List!Jobs>>
    BY <2>1 DEF Waiting, Reached, List!Dropping, List!Elems, List!Jobs, List!Places
  <2>3. PlacedOnce' BY <2>1, PlacedStutter DEF ListInv
  <2>4. Kept' BY <2>1, <2>2 DEF ListInv, Kept, List!AtWork
  <2>5. DeliveredOnce' BY <2>1, <2>2 DEF ListInv, DeliveredOnce, Bringing, List!Unique
  <2>6. Closing' BY <2>1 DEF ListInv, Closing, List!WorkersGone
  <2> QED BY <1>1, <2>3, <2>4, <2>5, <2>6 DEF ListInv
<1> QED BY <1>2, <1>3

\* When the command ends, each place it fed has been probed, unless brute dropped some,
\* and what is to be reported has been read.
LEMMA AllHeard ==
  ASSUME ListInv, List!WorkersGone, results = <<>>
  PROVE  /\ hits \subseteq List!Elems(found)
         /\ cmd = "bulk" => List!Elems(found) = probed
         /\ workers # {} => List!Dropping \/ probed = List!Jobs
<1>1. \A w \in workers : ~Bringing(w) /\ ~List!AtWork(w) BY DEF List!WorkersGone, Bringing, List!AtWork
<1>2. Reached = List!Elems(found) BY DEF Reached, List!Elems
<1>3. hits \subseteq List!Elems(found)
  BY <1>1, <1>2 DEF ListInv, FoundType, DeliveredOnce
<1>4. cmd = "bulk" => List!Elems(found) = probed
  BY <1>1, <1>2 DEF ListInv, FoundType, DeliveredOnce
<1>5. ASSUME NEW w \in workers, ~List!Dropping PROVE probed = List!Jobs
  <2>1. queue = <<>> /\ fed = Len(targets) BY <1>5 DEF ListInv, Kept, List!WorkersGone
  <2>2. Waiting = {} BY <2>1 DEF Waiting, List!Elems
  <2>3. List!Jobs \subseteq 1 .. fed BY <2>1, PlaceFacts DEF ListInv, ListType
  <2>4. List!Jobs \subseteq probed BY <1>1, <1>5, <2>2, <2>3 DEF ListInv, Kept
  <2> QED BY <2>4 DEF ListInv, FoundType
<1> QED BY <1>3, <1>4, <1>5

LEMMA InvAnswers == ListInv => List!ListAnswered
<1> SUFFICES ASSUME ListInv PROVE List!ListAnswered OBVIOUS
<1>1. List!Unique(found \o results)
  BY UniqueConcat DEF ListInv, FoundType, DeliveredOnce
<1>2. reported => List!WorkersGone /\ results = <<>> BY DEF ListInv, Closing
<1>3. cmd = "bulk" /\ reported => List!Elems(found) = List!Jobs
  <2> SUFFICES ASSUME cmd = "bulk", reported PROVE List!Elems(found) = List!Jobs OBVIOUS
  <2>1. workers # {} BY ThreadsAssumption DEF ListInv, Closing
  <2>2. ~List!Dropping BY DEF List!Dropping
  <2> QED BY <1>2, <2>1, <2>2, AllHeard
<1>4. reported => \A w \in workers : conns[w] = {}
  BY <1>2 DEF ListInv, Closing, List!WorkersGone
<1>5. List!HeldOnce BY DEF ListInv, PlacedOnce, Waiting, List!AtWork, List!HeldOnce
<1>6. List!NoneDropped
  BY DEF ListInv, Kept, Waiting, List!AtWork, List!Dropping, List!NoneDropped
<1> QED BY <1>1, <1>2, <1>3, <1>4, <1>5, <1>6 DEF ListInv, Closing, List!ListAnswered

\* brute, bulk and multi, for any list and any number of workers: each place fed is looked
\* up once, but for those brute drops after its timeout, and reported once, nothing bulk is given is missing from its report whatever fails, and the
\* connections of multi are closed when it returns.
THEOREM ListsAnswered == List!Spec => []List!ListAnswered
BY ListInvInit, ListInvNext, InvAnswers, PTL DEF List!Spec

-----------------------------------------------------------------------------
(* ListCommands: the promise of a fan-out *)

LEMMA ListPromiseInit == Init => Promise!Init
<1> SUFFICES ASSUME Init PROVE Promise!Init OBVIOUS
<1>1. Fans => probed = {} /\ hits = {} /\ ~cancelled /\ ~reported
  BY DEF Init, Fans, ListCmd, List!Init, Query!Init, Tree!Init
<1>2. Fans => List!Report = [i \in List!Jobs |-> 0] BY <1>1 DEF List!Report
<1> QED BY <1>1, <1>2 DEF Promise!Init

LEMMA ListKeepsInput == List!Next => UNCHANGED <<cmd, targets, workers>>
<1> USE DEF List!input
<1>1. List!Feeder => UNCHANGED <<cmd, targets, workers>>
  BY DEF List!Feeder, List!Feed, List!Skip, List!CloseQueue
<1>2. ASSUME NEW w \in workers, List!WorkerStep(w) PROVE UNCHANGED <<cmd, targets, workers>>
  BY <1>2 DEF List!WorkerStep, List!Receive, List!Drained, List!GiveUp, List!GoOn,
              List!PassOver, List!LookUp, List!Dial, List!Answered, List!Deliver
<1>3. List!Ending \/ List!Timeout => UNCHANGED <<cmd, targets, workers>>
  BY DEF List!Ending, List!CloseResults, List!Collect, List!Finish, List!Timeout
<1> QED BY <1>1, <1>2, <1>3 DEF List!Next

LEMMA ListPromiseNext ==
  ASSUME ListInv, Fans, List!Next
  PROVE  [Promise!Next]_(Promise!vars)
<1> USE DEF List!input, List!feed, List!output, List!history
<1>1. UNCHANGED <<cmd, targets, workers>> /\ Fans' /\ List!Jobs' = List!Jobs /\ ~reported
  BY ListKeepsInput DEF Fans, ListCmd, List!Jobs, List!Places, List!Next
<1>2. List!Report = [i \in List!Jobs |-> 0] BY <1>1 DEF List!Report
<1>3. ASSUME NEW w \in workers, NEW ok \in BOOLEAN, List!LookUp(w, ok) \/ List!Dial(w, ok)
      PROVE  Promise!Next
  <2>1. /\ wpc[w] = "probe" /\ held[w] \in List!Jobs /\ probed' = probed \cup {held[w]}
        /\ hits' \in {hits, hits \cup {held[w]}}
        /\ UNCHANGED <<cancelled, reported>>
    BY <1>3 DEF List!LookUp, List!Dial, List!Answered
  <2>2. held[w] \notin probed BY <2>1 DEF ListInv, PlacedOnce, List!AtWork
  <2>3. List!Report' = List!Report BY <1>1, <2>1 DEF List!Report
  <2>4. Promise!Probe(held[w])
    BY <1>1, <1>2, <2>1, <2>2, <2>3 DEF Promise!Probe
  <2> QED BY <2>1, <2>4, <1>1 DEF Promise!Next
<1>4. CASE List!Finish
  <2>1. reported' = TRUE /\ UNCHANGED <<cancelled, probed, hits, found>>
    BY <1>4 DEF List!Finish
  <2>2. List!WorkersGone /\ results = <<>>
    BY <1>4 DEF List!Finish, ListInv, Closing, DeliveredOnce
  <2>3. hits \subseteq List!Elems(found) /\ (List!Dropping \/ probed = List!Jobs)
    BY <2>2, AllHeard DEF Fans
  <2>4. List!Report' = [i \in List!Jobs |-> IF i \in hits THEN 1 ELSE 0]
    <3>1. cmd # "bulk" => List!Elems(found) \subseteq hits
      BY DEF ListInv, DeliveredOnce, Reached
    <3>2. List!Unique(found) BY DEF ListInv, DeliveredOnce
    <3>3. \A i : Times(found, i) = IF i \in List!Elems(found) THEN 1 ELSE 0
      BY <3>2, TimesFacts DEF List!Unique, List!Elems
    <3>4. \A i : List!Times(found, i) = Times(found, i)
      BY DEF List!Times, Times, List!Cardinality, Cardinality
    <3> QED BY <1>1, <2>1, <2>3, <3>1, <3>3, <3>4 DEF List!Report
  <2>5. cancelled \/ probed = List!Jobs BY <2>3 DEF List!Dropping
  <2>6. Promise!Report BY <1>1, <2>1, <2>4, <2>5 DEF Promise!Report
  <2> QED BY <2>6 DEF Promise!Next
<1>5. CASE List!Timeout
  <2>1. ~cancelled /\ cancelled' = TRUE /\ UNCHANGED <<probed, hits, found, reported>>
    BY <1>5 DEF List!Timeout
  <2>2. List!Report' = List!Report BY <1>1, <2>1 DEF List!Report
  <2>3. Promise!Cancel BY <1>1, <1>2, <2>1, <2>2 DEF Promise!Cancel
  <2> QED BY <2>3 DEF Promise!Next
<1>6. ASSUME UNCHANGED <<cancelled, probed, hits, reported>> PROVE UNCHANGED Promise!vars
  <2>1. List!Report' = List!Report BY <1>1, <1>6 DEF List!Report
  <2> QED BY <1>1, <1>2, <1>6, <2>1 DEF Promise!vars
<1>7. CASE List!Feeder \/ List!CloseResults \/ List!Collect
  BY <1>6, <1>7 DEF List!Feeder, List!Feed, List!Skip, List!CloseQueue, List!CloseResults, List!Collect
<1>8. ASSUME NEW w \in workers, \/ List!Receive(w) \/ List!Drained(w) \/ List!GiveUp(w)
                                \/ List!GoOn(w) \/ List!PassOver(w) \/ List!Deliver(w)
      PROVE  UNCHANGED Promise!vars
  BY <1>6, <1>8 DEF List!Receive, List!Drained, List!GiveUp, List!GoOn, List!PassOver, List!Deliver
<1> QED BY <1>3, <1>4, <1>5, <1>7, <1>8 DEF List!Next, List!WorkerStep, List!Ending

-----------------------------------------------------------------------------
(* QueryCommands: the types *)

Commands == {"resolver", "whois", "providers", "version"}

QueryType == /\ cmd \in Commands
             /\ asking \subseteq Queries
             /\ answersClosed \in BOOLEAN /\ cancelled \in BOOLEAN
             /\ outcome \in {"", "timeout", "empty", "done"}
ReadType  == /\ answers \in Seq(Query!Answer) /\ taken \in Seq(Query!Answer)
             /\ raw \in Query!Answer \cup {Query!NoAnswer}

LEMMA QueryTypeParts == Query!TypeOK <=> QueryType /\ ReadType
BY DEF Query!TypeOK, QueryType, ReadType, Commands

LEMMA QueryTypeInit == Query!Init => QueryType /\ ReadType
<1> SUFFICES ASSUME Query!Init PROVE QueryType /\ ReadType OBVIOUS
<1>1. QueryType BY DEF Query!Init, QueryType, Commands
<1>2. answers = <<>> /\ taken = <<>> /\ raw = Query!NoAnswer BY DEF Query!Init
<1> QED BY <1>1, <1>2 DEF ReadType

\* What a goroutine posts is an answer.
LEMMA PostType ==
  ASSUME QueryType, ReadType, NEW q \in Queries, NEW v \in Query!Verdicts, Query!Post(q, v)
  PROVE  QueryType' /\ ReadType'
<1>1. [query |-> q, verdict |-> v] \in Query!Answer BY DEF Query!Answer
<1>2. answers' \in Seq(Query!Answer) BY <1>1, SendFacts DEF Query!Post, ReadType
<1> QED BY <1>2 DEF Query!Post, Query!Leave, QueryType, ReadType

LEMMA QueryTypeNext ==
  QueryType /\ ReadType /\ [Query!Next]_(Query!queryVars) => QueryType' /\ ReadType'
<1> SUFFICES ASSUME QueryType, ReadType, [Query!Next]_(Query!queryVars)
             PROVE  QueryType' /\ ReadType'
  OBVIOUS
<1>1. ASSUME NEW q \in Queries, NEW v \in Query!Verdicts, Query!Post(q, v)
      PROVE  QueryType' /\ ReadType'
  BY <1>1, PostType
<1>2. ASSUME NEW q \in Queries, NEW v \in Query!Verdicts, Query!PrintVersion(q, v)
      PROVE  QueryType' /\ ReadType'
  <2>1. [query |-> q, verdict |-> v] \in Query!Answer BY DEF Query!Answer
  <2>2. taken' \in Seq(Query!Answer) BY <1>2, <2>1, SendFacts DEF Query!PrintVersion, ReadType
  <2> QED BY <1>2, <2>2 DEF Query!PrintVersion, Query!Leave, QueryType, ReadType
<1>3. CASE Query!CloseAnswers
  BY <1>3 DEF Query!CloseAnswers, QueryType, ReadType
<1>4. CASE Query!Take
  <2>1. Head(answers) \in Query!Answer /\ answers' \in Seq(Query!Answer)
    BY <1>4, ReceiveFacts DEF Query!Take, ReadType
  <2>2. taken' \in Seq(Query!Answer) BY <1>4, <2>1, SendFacts DEF Query!Take, ReadType
  <2>3. raw' \in {Head(answers), raw} BY <1>4 DEF Query!Take
  <2> QED BY <1>4, <2>1, <2>2, <2>3 DEF Query!Take, QueryType, ReadType
<1>5. CASE Query!TimedOut \/ Query!Finish
  BY <1>5 DEF Query!TimedOut, Query!Finish, Query!Verdict, QueryType, ReadType
<1>6. CASE Query!Cancel BY <1>6 DEF Query!Cancel, QueryType, ReadType
<1>7. CASE UNCHANGED Query!queryVars BY <1>7 DEF Query!queryVars, QueryType, ReadType
<1> QED BY <1>1, <1>2, <1>3, <1>4, <1>5, <1>6, <1>7
        DEF Query!Next, Query!Ask, Query!AskResolver, Query!AskWhois, Query!AskProvider,
            Query!Command

\* Every variable keeps its type.
THEOREM TypeCorrect == Query!Spec => []Query!TypeOK
BY QueryTypeInit, QueryTypeNext, QueryTypeParts, PTL DEF Query!Spec

-----------------------------------------------------------------------------
(* QueryCommands: the outcome *)

\* A query is asked, has its answer in the channel, or its answer is taken.
Once == /\ \A i, j \in DOMAIN taken : i # j => taken[i].query # taken[j].query
        /\ \A i, j \in DOMAIN answers : i # j => answers[i].query # answers[j].query
        /\ Query!Asked(taken) \cap Query!Asked(answers) = {}
        /\ (Query!Asked(taken) \cup Query!Asked(answers)) \cap asking = {}
        /\ cmd # "version" => Queries \subseteq Query!Asked(taken) \cup Query!Asked(answers) \cup asking
        /\ cmd = "version" => answers = <<>>
        /\ answersClosed => asking = {}

\* The length of taken is the number of queries whose answer is taken.
Counted == IsFiniteSet(Query!Asked(taken)) /\ Cardinality(Query!Asked(taken)) = Len(taken)

\* raw is the last answer of use.
LastOfUse == cmd = "whois" =>
  \/ raw = Query!NoAnswer /\ \A i \in DOMAIN taken : taken[i].verdict # "good"
  \/ \E i \in DOMAIN taken : /\ taken[i] = raw /\ raw.verdict = "good"
                             /\ \A j \in DOMAIN taken : j > i => taken[j].verdict # "good"

\* What the command knows when it returns.
Known == /\ outcome \in {"done", "empty"}
              => asking = {} /\ (cmd # "version" => Query!Asked(taken) = Queries)
         /\ outcome = "empty" => cmd = "whois" /\ raw = Query!NoAnswer
         /\ outcome = "done" /\ cmd = "whois" => raw # Query!NoAnswer
         /\ outcome = "timeout" => cancelled /\ Query!Asked(taken) # Queries

QueryInv == QueryType /\ ReadType /\ Once /\ Counted /\ LastOfUse /\ Known

\* What is asked of a channel without an answer, with one more, and with one less.
LEMMA AskedFacts ==
  ASSUME NEW s \in Seq(Query!Answer), NEW a \in Query!Answer
  PROVE  /\ Query!Asked(s) \subseteq Queries
         /\ Query!Asked(Append(s, a)) = Query!Asked(s) \cup {a.query}
         /\ DOMAIN Append(s, a) = DOMAIN s \cup {Len(s) + 1}
         /\ Len(s) + 1 \notin DOMAIN s
         /\ \A i \in DOMAIN s : i < Len(s) + 1
         /\ \A i \in DOMAIN s : Append(s, a)[i] = s[i]
         /\ Append(s, a)[Len(s) + 1] = a
         /\ Len(Append(s, a)) = Len(s) + 1
<1>1. /\ DOMAIN Append(s, a) = DOMAIN s \cup {Len(s) + 1}
      /\ Len(s) + 1 \notin DOMAIN s
      /\ \A i \in DOMAIN s : i < Len(s) + 1
      /\ \A i \in DOMAIN s : Append(s, a)[i] = s[i]
      /\ Append(s, a)[Len(s) + 1] = a
      /\ Len(Append(s, a)) = Len(s) + 1
  OBVIOUS
<1>2. Query!Asked(s) \subseteq Queries
  <2>1. \A i \in DOMAIN s : s[i] \in Query!Answer OBVIOUS
  <2> QED BY <2>1 DEF Query!Asked, Query!Answer
<1>3. Query!Asked(Append(s, a)) = Query!Asked(s) \cup {a.query} BY <1>1 DEF Query!Asked
<1> QED BY <1>1, <1>2, <1>3

LEMMA TakeFacts ==
  ASSUME NEW s \in Seq(Query!Answer), s # <<>>,
         \A i, j \in DOMAIN s : i # j => s[i].query # s[j].query
  PROVE  /\ Query!Asked(s) = Query!Asked(Tail(s)) \cup {Head(s).query}
         /\ Head(s).query \notin Query!Asked(Tail(s))
         /\ \A i, j \in DOMAIN Tail(s) : i # j => Tail(s)[i].query # Tail(s)[j].query
<1>1. /\ DOMAIN s = 1 .. Len(s) /\ Len(s) \in Nat \ {0}
      /\ DOMAIN Tail(s) = 1 .. Len(s) - 1
      /\ Head(s) = s[1] /\ \A i \in 1 .. Len(s) - 1 : Tail(s)[i] = s[i + 1]
  OBVIOUS
<1>2. DOMAIN s = {1} \cup {i + 1 : i \in 1 .. Len(s) - 1}
  <2>1. ASSUME NEW i \in DOMAIN s, i # 1 PROVE \E k \in 1 .. Len(s) - 1 : i = k + 1
    <3>1. i - 1 \in 1 .. Len(s) - 1 /\ i = (i - 1) + 1 BY <1>1, <2>1
    <3> QED BY <3>1
  <2>2. 1 \in DOMAIN s /\ \A i \in 1 .. Len(s) - 1 : i + 1 \in DOMAIN s BY <1>1
  <2> QED BY <2>1, <2>2
<1>3. \A i \in 1 .. Len(s) - 1 : i + 1 # 1 BY <1>1
<1>4. \A i, j \in 1 .. Len(s) - 1 : i # j => i + 1 # j + 1 BY <1>1
<1>5. Query!Asked(s) = Query!Asked(Tail(s)) \cup {Head(s).query}
  <2>1. \A i \in DOMAIN s : s[i].query \in Query!Asked(Tail(s)) \cup {Head(s).query}
    <3>1. \A k \in 1 .. Len(s) - 1 : s[k + 1].query \in Query!Asked(Tail(s))
      BY <1>1 DEF Query!Asked
    <3> QED BY <1>1, <1>2, <3>1
  <2>2. \A i \in DOMAIN Tail(s) : Tail(s)[i].query \in Query!Asked(s)
    BY <1>1, <1>2 DEF Query!Asked
  <2>3. Head(s).query \in Query!Asked(s) BY <1>1, <1>2 DEF Query!Asked
  <2> QED BY <2>1, <2>2, <2>3 DEF Query!Asked
<1>6. Head(s).query \notin Query!Asked(Tail(s)) BY <1>1, <1>2, <1>3 DEF Query!Asked
<1>7. \A i, j \in DOMAIN Tail(s) : i # j => Tail(s)[i].query # Tail(s)[j].query
  BY <1>1, <1>2, <1>4
<1> QED BY <1>5, <1>6, <1>7

\* What QueryInv says of the sequences.
LEMMA ReadFacts ==
  ASSUME ReadType
  PROVE  /\ Len(taken) \in Nat /\ DOMAIN taken \subseteq Int
         /\ Query!Asked(taken) \subseteq Queries
         /\ Query!Asked(answers) \subseteq Queries
         /\ answers = <<>> => Query!Asked(answers) = {}
<1>1. taken \in Seq(Query!Answer) /\ answers \in Seq(Query!Answer) BY DEF ReadType
<1>2. Len(taken) \in Nat /\ DOMAIN taken \subseteq Int BY <1>1
<1>3. \A i \in DOMAIN taken : taken[i] \in Query!Answer BY <1>1
<1>4. \A i \in DOMAIN answers : answers[i] \in Query!Answer BY <1>1
<1>5. ASSUME answers = <<>> PROVE Query!Asked(answers) = {}
  <2>1. DOMAIN answers = {} BY ONLY <1>5
  <2> QED BY ONLY <2>1 DEF Query!Asked
<1> QED BY <1>2, <1>3, <1>4, <1>5 DEF Query!Asked, Query!Answer

LEMMA QueryInvInit == Query!Init => QueryInv
<1> SUFFICES ASSUME Query!Init PROVE QueryInv OBVIOUS
<1>1. /\ answers = <<>> /\ taken = <<>> /\ raw = Query!NoAnswer /\ asking = Queries
      /\ answersClosed = FALSE /\ outcome = ""
  BY DEF Query!Init
<1>2. DOMAIN taken = {} /\ DOMAIN answers = {} /\ Len(taken) = 0
  <2>1. taken = <<>> /\ answers = <<>> BY <1>1
  <2> QED BY ONLY <2>1
<1>3. Query!Asked(taken) = {} /\ Query!Asked(answers) = {} BY <1>2 DEF Query!Asked
<1>4. Once BY <1>1, <1>2, <1>3 DEF Once
<1>5. Counted BY <1>2, <1>3, FS_EmptySet DEF Counted
<1>6. LastOfUse BY <1>1, <1>2 DEF LastOfUse
<1>7. Known BY <1>1 DEF Known
<1> QED BY <1>4, <1>5, <1>6, <1>7, QueryTypeInit DEF QueryInv

LEMMA PostInv ==
  ASSUME QueryInv, outcome = "", NEW q \in Queries, NEW v \in Query!Verdicts,
         Query!Post(q, v), cmd # "version"
  PROVE  QueryInv'
<1> DEFINE a == [query |-> q, verdict |-> v]
<1>1. a \in Query!Answer /\ a.query = q BY DEF Query!Answer
<1>2. /\ q \in asking /\ answers' = Append(answers, a) /\ asking' = asking \ {q}
      /\ UNCHANGED <<cmd, answersClosed, cancelled, taken, raw, outcome>>
  BY DEF Query!Post, Query!Leave
<1> HIDE DEF a
<1>3. answers \in Seq(Query!Answer) BY DEF QueryInv, ReadType
<1>4. Query!Asked(answers)' = Query!Asked(answers) \cup {q}
  <2>1. Query!Asked(Append(answers, a)) = Query!Asked(answers) \cup {a.query}
    BY <1>1, <1>3, AskedFacts
  <2> QED BY <1>1, <1>2, <2>1
<1>5. Query!Asked(taken)' = Query!Asked(taken) BY <1>2 DEF Query!Asked
<1>6. \A i, j \in DOMAIN answers' : i # j => answers'[i].query # answers'[j].query
  <2>1. q \notin Query!Asked(answers) BY <1>2 DEF QueryInv, Once
  <2>2. \A i \in DOMAIN answers : answers[i].query # q BY <2>1 DEF Query!Asked
  <2>3. \A i, j \in DOMAIN answers : i # j => answers[i].query # answers[j].query
    BY DEF QueryInv, Once
  <2>4. /\ DOMAIN answers' = DOMAIN answers \cup {Len(answers) + 1}
        /\ \A i \in DOMAIN answers : answers'[i] = answers[i]
        /\ answers'[Len(answers) + 1].query = q
    <3>1. answers' = Append(answers, a) /\ a.query = q BY <1>1, <1>2
    <3>2. /\ DOMAIN Append(answers, a) = DOMAIN answers \cup {Len(answers) + 1}
          /\ \A i \in DOMAIN answers : Append(answers, a)[i] = answers[i]
          /\ Append(answers, a)[Len(answers) + 1] = a
      BY <1>1, <1>3, AskedFacts
    <3> QED BY ONLY <3>1, <3>2
  <2> QED BY ONLY <2>2, <2>3, <2>4
<1>7. Once'
  <2>1. Once BY DEF QueryInv
  <2> QED BY ONLY <1>2, <1>4, <1>5, <1>6, <2>1, cmd # "version" DEF Once
<1>8. Counted' BY <1>2, <1>5 DEF QueryInv, Counted
<1>9. LastOfUse' BY <1>2 DEF QueryInv, LastOfUse
<1>10. Known' BY <1>2 DEF QueryInv, Known
<1> QED BY <1>7, <1>8, <1>9, <1>10, PostType DEF QueryInv

\* One answer more is taken, which nobody gave before.
LEMMA TakenFacts ==
  ASSUME QueryInv, NEW a \in Query!Answer, taken' = Append(taken, a),
         a.query \notin Query!Asked(taken)
  PROVE  /\ Query!Asked(taken)' = Query!Asked(taken) \cup {a.query}
         /\ \A i, j \in DOMAIN taken' : i # j => taken'[i].query # taken'[j].query
         /\ Counted'
<1>1. taken \in Seq(Query!Answer) /\ Len(taken) \in Nat BY DEF QueryInv, ReadType
<1>2. Query!Asked(taken)' = Query!Asked(taken) \cup {a.query}
  BY <1>1, AskedFacts DEF Query!Asked
<1>3. \A i, j \in DOMAIN taken' : i # j => taken'[i].query # taken'[j].query
  <2>1. \A i \in DOMAIN taken : taken[i].query # a.query BY DEF Query!Asked
  <2>2. \A i, j \in DOMAIN taken : i # j => taken[i].query # taken[j].query
    BY DEF QueryInv, Once
  <2>3. /\ DOMAIN taken' = DOMAIN taken \cup {Len(taken) + 1}
        /\ \A i \in DOMAIN taken : taken'[i] = taken[i]
        /\ taken'[Len(taken) + 1] = a
    BY <1>1, AskedFacts
  <2> QED BY ONLY <2>1, <2>2, <2>3
<1>4. Counted'
  <2>1. Len(taken') = Len(taken) + 1 BY <1>1, AskedFacts
  <2>2. /\ IsFiniteSet(Query!Asked(taken) \cup {a.query})
        /\ Cardinality(Query!Asked(taken) \cup {a.query}) = Cardinality(Query!Asked(taken)) + 1
    BY FS_AddElement DEF QueryInv, Counted
  <2> QED BY <1>2, <2>1, <2>2 DEF QueryInv, Counted
<1> QED BY <1>2, <1>3, <1>4

LEMMA PrintInv ==
  ASSUME QueryInv, outcome = "", NEW q \in Queries, NEW v \in Query!Verdicts,
         Query!PrintVersion(q, v), QueryType', ReadType'
  PROVE  QueryInv'
<1>1. /\ q \in asking /\ asking' = asking \ {q} /\ cmd = "version"
      /\ UNCHANGED <<cmd, answers, answersClosed, cancelled, raw, outcome>>
  BY DEF Query!PrintVersion, Query!Leave
<1>2. Query!Asked(answers)' = Query!Asked(answers) BY <1>1 DEF Query!Asked
<1>3. q \notin Query!Asked(taken) BY <1>1 DEF QueryInv, Once
<1>4. CASE v = "error"
  <2>1. taken' = taken BY <1>4 DEF Query!PrintVersion
  <2>2. Query!Asked(taken)' = Query!Asked(taken) BY <2>1 DEF Query!Asked
  <2>3. Once' BY <1>1, <1>2, <2>1, <2>2 DEF QueryInv, Once
  <2>4. Counted' BY <2>1, <2>2 DEF QueryInv, Counted
  <2>5. LastOfUse' /\ Known' BY <1>1 DEF QueryInv, LastOfUse, Known
  <2> QED BY <2>3, <2>4, <2>5 DEF QueryInv
<1>5. CASE v # "error"
  <2> DEFINE a == [query |-> q, verdict |-> v]
  <2>1. a \in Query!Answer /\ a.query = q BY DEF Query!Answer
  <2>2. taken' = Append(taken, a) BY <1>5 DEF Query!PrintVersion
  <2> HIDE DEF a
  <2>3. /\ Query!Asked(taken)' = Query!Asked(taken) \cup {q}
        /\ \A i, j \in DOMAIN taken' : i # j => taken'[i].query # taken'[j].query
        /\ Counted'
    BY <1>3, <2>1, <2>2, TakenFacts
  <2>4. answers' = <<>> BY <1>1 DEF QueryInv, Once
  <2>5. Query!Asked(answers) = {} BY <1>1, ReadFacts DEF QueryInv, Once
  <2>6. Once' BY <1>1, <1>2, <2>3, <2>4, <2>5 DEF QueryInv, Once
  <2>7. LastOfUse' /\ Known' BY <1>1 DEF QueryInv, LastOfUse, Known
  <2> QED BY <2>3, <2>6, <2>7 DEF QueryInv
<1> QED BY <1>4, <1>5

LEMMA TakeInv ==
  ASSUME QueryInv, outcome = "", Query!Take, QueryType', ReadType'
  PROVE  QueryInv'
<1> DEFINE a == Head(answers)
<1>1. /\ answers # <<>> /\ taken' = Append(taken, a) /\ answers' = Tail(answers)
      /\ raw' = IF cmd = "whois" /\ a.verdict = "good" THEN a ELSE raw
      /\ UNCHANGED <<cmd, asking, answersClosed, cancelled, outcome>>
  BY DEF Query!Take, Query!Kept
<1>2. /\ taken \in Seq(Query!Answer) /\ answers \in Seq(Query!Answer)
      /\ a \in Query!Answer
  BY <1>1, ReceiveFacts DEF QueryInv, ReadType
<1>3. /\ Query!Asked(answers) = Query!Asked(Tail(answers)) \cup {a.query}
      /\ a.query \notin Query!Asked(Tail(answers))
      /\ \A i, j \in DOMAIN Tail(answers) : i # j => Tail(answers)[i].query # Tail(answers)[j].query
  BY <1>1, <1>2, TakeFacts DEF QueryInv, Once
<1> HIDE DEF a
<1>4. a.query \notin Query!Asked(taken) BY <1>3 DEF QueryInv, Once
<1>5. /\ Query!Asked(taken)' = Query!Asked(taken) \cup {a.query}
      /\ \A i, j \in DOMAIN taken' : i # j => taken'[i].query # taken'[j].query
      /\ Counted'
  BY <1>1, <1>2, <1>4, TakenFacts
<1>6. Query!Asked(answers)' = Query!Asked(Tail(answers)) BY <1>1
<1>7. Once'
  <2>1. cmd # "version" BY <1>1 DEF QueryInv, Once
  <2>2. \A i, j \in DOMAIN answers' : i # j => answers'[i].query # answers'[j].query
    BY <1>1, <1>3
  <2>3. Once BY DEF QueryInv
  <2> QED BY ONLY <1>1, <1>3, <1>4, <1>5, <1>6, <2>1, <2>2, <2>3 DEF Once
<1>8. LastOfUse'
  <2> SUFFICES ASSUME cmd = "whois"
               PROVE  \/ raw' = Query!NoAnswer /\ \A i \in DOMAIN taken' : taken'[i].verdict # "good"
                      \/ \E i \in DOMAIN taken' :
                           /\ taken'[i] = raw' /\ raw'.verdict = "good"
                           /\ \A j \in DOMAIN taken' : j > i => taken'[j].verdict # "good"
    BY <1>1 DEF LastOfUse
  <2>1. /\ DOMAIN taken' = DOMAIN taken \cup {Len(taken) + 1}
        /\ Len(taken) + 1 \notin DOMAIN taken
        /\ \A i \in DOMAIN taken : i < Len(taken) + 1
        /\ \A i \in DOMAIN taken : taken'[i] = taken[i]
        /\ taken'[Len(taken) + 1] = a
    <3>1. taken' = Append(taken, a) BY <1>1
    <3>2. /\ DOMAIN Append(taken, a) = DOMAIN taken \cup {Len(taken) + 1}
          /\ Len(taken) + 1 \notin DOMAIN taken
          /\ \A i \in DOMAIN taken : i < Len(taken) + 1
          /\ \A i \in DOMAIN taken : Append(taken, a)[i] = taken[i]
          /\ Append(taken, a)[Len(taken) + 1] = a
      BY <1>2, AskedFacts
    <3> QED BY ONLY <3>1, <3>2
  <2>2. \A i \in DOMAIN taken' : i \in Int /\ ~(i > Len(taken) + 1)
    <3>1. Len(taken) \in Nat /\ DOMAIN taken \subseteq Int BY ReadFacts DEF QueryInv
    <3> QED BY ONLY <2>1, <3>1
  <2>3. CASE a.verdict = "good"
    <3>1. raw' = a BY <1>1, <2>3
    <3> QED BY <2>1, <2>2, <2>3, <3>1
  <2>4. CASE a.verdict # "good"
    <3>1. raw' = raw BY <1>1, <2>4
    <3> QED BY <2>1, <2>2, <2>4, <3>1 DEF QueryInv, LastOfUse
  <2> QED BY <2>3, <2>4
<1>9. Known' BY <1>1 DEF Known
<1> QED BY <1>5, <1>7, <1>8, <1>9 DEF QueryInv

\* The instance counts with the same operator.
LEMMA CountFacts == \A S : Query!Cardinality(S) = Cardinality(S)
BY DEF Query!Cardinality, Cardinality

\* When as many answers are taken as there are queries, all are.
LEMMA AllTaken ==
  ASSUME QueryInv, ~Query!More
  PROVE  Query!Asked(taken) = Queries /\ asking = {}
<1>1. Query!Asked(taken) \subseteq Queries BY ReadFacts DEF QueryInv
<1>2. Len(taken) \in Nat /\ Cardinality(Queries) \in Nat /\ ~(Len(taken) < Cardinality(Queries))
  <2>1. ~(Len(taken) < Cardinality(Queries)) BY CountFacts DEF Query!More
  <2>2. Len(taken) \in Nat BY ReadFacts DEF QueryInv
  <2>3. Cardinality(Queries) \in Nat BY QueriesAssumption, FS_CardinalityType
  <2> QED BY <2>1, <2>2, <2>3
<1>3. Cardinality(Query!Asked(taken)) <= Cardinality(Queries)
  BY <1>1, QueriesAssumption, FS_Subset
<1>4. Cardinality(Query!Asked(taken)) = Len(taken) BY DEF QueryInv, Counted
<1>5. Cardinality(Query!Asked(taken)) = Cardinality(Queries) BY ONLY <1>2, <1>3, <1>4
<1>6. Query!Asked(taken) = Queries BY <1>1, <1>5, QueriesAssumption, FS_Subset
<1> QED BY <1>6 DEF QueryInv, QueryType, Once

\* While there is more to take, some answer is not taken.
LEMMA NotAllTaken == ASSUME QueryInv, Query!More PROVE Query!Asked(taken) # Queries
<1> SUFFICES ASSUME Query!Asked(taken) = Queries PROVE FALSE OBVIOUS
<1>1. Cardinality(Queries) = Len(taken) BY DEF QueryInv, Counted
<1>2. Len(taken) < Cardinality(Queries) BY CountFacts DEF Query!More
<1>3. Len(taken) \in Nat BY ReadFacts DEF QueryInv
<1> QED BY ONLY <1>1, <1>2, <1>3

LEMMA FinishInv ==
  ASSUME QueryInv, outcome = "", Query!Finish, QueryType', ReadType'
  PROVE  QueryInv'
<1>1. /\ outcome' = Query!Verdict
      /\ UNCHANGED <<cmd, asking, answers, answersClosed, cancelled, taken, raw>>
  BY DEF Query!Finish
<1>2. Query!Asked(taken)' = Query!Asked(taken) /\ Query!Asked(answers)' = Query!Asked(answers)
  BY <1>1 DEF Query!Asked
<1>3. asking = {} /\ (cmd # "version" => Query!Asked(taken) = Queries)
  <2>1. CASE Query!Counting
    <3>1. ~Query!More BY <2>1 DEF Query!Finish
    <3> QED BY <3>1, AllTaken
  <2>2. CASE cmd = "providers"
    <3>1. answersClosed /\ answers = <<>>
      BY <2>2 DEF Query!Finish, Query!Counting
    <3>2. Query!Asked(answers) = {} /\ Query!Asked(taken) \subseteq Queries
      BY <3>1, ReadFacts DEF QueryInv
    <3> QED BY <2>2, <3>1, <3>2 DEF QueryInv, Once
  <2>3. CASE cmd = "version" BY <2>3 DEF Query!Finish, Query!Counting
  <2> QED BY <2>1, <2>2, <2>3 DEF QueryInv, QueryType, Commands, Query!Counting
<1>4. Once'
  <2>1. Once BY DEF QueryInv
  <2> QED BY ONLY <1>1, <1>2, <2>1 DEF Once
<1>5. Counted' BY <1>1, <1>2 DEF QueryInv, Counted
<1>6. LastOfUse' BY <1>1 DEF QueryInv, LastOfUse
<1>7. Known' BY <1>1, <1>2, <1>3 DEF Known, Query!Verdict
<1> QED BY <1>4, <1>5, <1>6, <1>7 DEF QueryInv

LEMMA QueryInvNext == QueryInv /\ [Query!Next]_(Query!queryVars) => QueryInv'
<1> SUFFICES ASSUME QueryInv, [Query!Next]_(Query!queryVars) PROVE QueryInv' OBVIOUS
<1>1. QueryType' /\ ReadType' BY QueryTypeNext DEF QueryInv
<1>2. ASSUME outcome = "", NEW q \in Queries, NEW v \in Query!Verdicts, Query!Post(q, v),
             cmd # "version"
      PROVE  QueryInv'
  BY <1>2, PostInv
<1>3. ASSUME outcome = "", NEW q \in Queries, NEW v \in Query!Verdicts,
             Query!PrintVersion(q, v)
      PROVE  QueryInv'
  BY <1>1, <1>3, PrintInv
<1>4. ASSUME UNCHANGED <<cmd, asking, answers, taken, raw>> PROVE
        /\ UNCHANGED <<Query!Asked(taken), Query!Asked(answers)>>
        /\ Counted' /\ LastOfUse'
        /\ (answersClosed' => asking = {}) => Once'
  <2>1. UNCHANGED <<Query!Asked(taken), Query!Asked(answers)>> BY <1>4 DEF Query!Asked
  <2>2. Counted' BY <1>4, <2>1 DEF QueryInv, Counted
  <2>3. LastOfUse' BY <1>4 DEF QueryInv, LastOfUse
  <2>4. (answersClosed' => asking = {}) => Once' BY <1>4, <2>1 DEF QueryInv, Once
  <2> QED BY <2>1, <2>2, <2>3, <2>4
<1>5. CASE outcome = "" /\ Query!CloseAnswers
  <2>1. asking = {} /\ outcome' = "" BY <1>5 DEF Query!CloseAnswers
  <2> QED BY <1>1, <1>4, <1>5, <2>1 DEF Query!CloseAnswers, QueryInv, Known
<1>6. CASE outcome = "" /\ Query!Take BY <1>1, <1>6, TakeInv
<1>7. CASE outcome = "" /\ Query!TimedOut
  <2>1. /\ cancelled /\ Query!More /\ outcome' = "timeout"
        /\ UNCHANGED <<cmd, asking, answers, answersClosed, cancelled, taken, raw>>
    BY <1>7 DEF Query!TimedOut
  <2>2. Query!Asked(taken) # Queries BY <2>1, NotAllTaken
  <2>3. answersClosed' => asking = {} BY <2>1 DEF QueryInv, Once
  <2> QED BY <1>1, <1>4, <2>1, <2>2, <2>3 DEF QueryInv, Known
<1>8. CASE outcome = "" /\ Query!Finish BY <1>1, <1>8, FinishInv
<1>9. CASE outcome = "" /\ Query!Cancel
  <2>1. /\ outcome' = "" /\ UNCHANGED <<cmd, asking, answers, answersClosed, taken, raw>>
    BY <1>9 DEF Query!Cancel
  <2>2. answersClosed' => asking = {} BY <2>1 DEF QueryInv, Once
  <2> QED BY <1>1, <1>4, <2>1, <2>2 DEF QueryInv, Known
<1>10. CASE UNCHANGED Query!queryVars
  <2>1. UNCHANGED <<cmd, asking, answers, answersClosed, cancelled, taken, raw, outcome>>
    BY <1>10 DEF Query!queryVars
  <2>2. answersClosed' => asking = {} BY <2>1 DEF QueryInv, Once
  <2> QED BY <1>1, <1>4, <2>1, <2>2 DEF QueryInv, Known
<1> QED BY <1>2, <1>3, <1>5, <1>6, <1>7, <1>8, <1>9, <1>10
        DEF Query!Next, Query!Ask, Query!AskResolver, Query!AskWhois, Query!AskProvider,
            Query!Command

\* What is known of the answers justifies the outcome.
LEMMA InvJustifies == QueryInv => Query!AnswersJustified
<1> SUFFICES ASSUME QueryInv PROVE Query!AnswersJustified OBVIOUS
<1> DEFINE all == taken \o answers
<1>1. taken \in Seq(Query!Answer) /\ answers \in Seq(Query!Answer) BY DEF QueryInv, ReadType
<1>2. /\ Len(taken) \in Nat /\ Len(answers) \in Nat
      /\ DOMAIN taken = 1 .. Len(taken) /\ DOMAIN answers = 1 .. Len(answers)
  BY <1>1
<1>3. /\ DOMAIN all = 1 .. Len(taken) + Len(answers)
      /\ \A i \in DOMAIN taken : all[i] = taken[i]
      /\ \A i \in DOMAIN answers : all[Len(taken) + i] = answers[i]
  BY <1>1
<1> HIDE DEF all
<1>4. \A i \in DOMAIN all : \/ i \in DOMAIN taken
                            \/ \E k \in DOMAIN answers : i = Len(taken) + k
  <2> SUFFICES ASSUME NEW i \in DOMAIN all, i \notin DOMAIN taken
               PROVE  \E k \in DOMAIN answers : i = Len(taken) + k
    OBVIOUS
  <2>1. i - Len(taken) \in DOMAIN answers /\ i = Len(taken) + (i - Len(taken))
    BY <1>2, <1>3
  <2> QED BY <2>1
<1>5. \A k \in DOMAIN answers : Len(taken) + k \in DOMAIN all BY <1>2, <1>3
<1>6. \A i \in DOMAIN taken : i \in DOMAIN all BY <1>2, <1>3
<1>7. Query!Asked(all) = Query!Asked(taken) \cup Query!Asked(answers)
  <2>1. \A i \in DOMAIN all : all[i].query \in Query!Asked(taken) \cup Query!Asked(answers)
    BY <1>3, <1>4 DEF Query!Asked
  <2>2. \A i \in DOMAIN taken : taken[i].query \in Query!Asked(all)
    BY <1>3, <1>6 DEF Query!Asked
  <2>3. \A k \in DOMAIN answers : answers[k].query \in Query!Asked(all)
    BY <1>3, <1>5 DEF Query!Asked
  <2> QED BY <2>1, <2>2, <2>3 DEF Query!Asked
<1>8. \A i, j \in DOMAIN all : i # j => all[i].query # all[j].query
  <2>1. \A i \in DOMAIN taken, k \in DOMAIN answers : taken[i].query # answers[k].query
    BY DEF QueryInv, Once, Query!Asked
  <2> QED BY <1>3, <1>4, <2>1 DEF QueryInv, Once
<1>9. cmd # "version" => Query!Asked(all) = Queries \ asking
  <2>1. Query!Asked(taken) \cup Query!Asked(answers) \subseteq Queries
    BY ReadFacts DEF QueryInv
  <2> QED BY <1>7, <2>1 DEF QueryInv, Once
<1>10. /\ outcome \in {"done", "empty"}
            => asking = {} /\ (cmd # "version" => Query!Asked(taken) = Queries)
       /\ outcome = "timeout" => cancelled /\ Query!Asked(taken) # Queries
  BY DEF QueryInv, Known
<1>11. ~(Query!NoAnswer.verdict = "good") BY DEF Query!NoAnswer
<1>12. cmd = "whois" /\ outcome = "done"
         => \E i \in DOMAIN taken :
              /\ taken[i] = raw /\ raw.verdict = "good"
              /\ \A j \in DOMAIN taken : j > i => taken[j].verdict # "good"
  BY DEF QueryInv, Known, LastOfUse
<1>13. outcome = "empty" => \A i \in DOMAIN taken : taken[i].verdict # "good"
  BY <1>11 DEF QueryInv, Known, LastOfUse
<1> QED BY <1>7, <1>8, <1>9, <1>10, <1>12, <1>13 DEF Query!AnswersJustified, all

\* No answer is lost or read twice, and what the command returns is what the answers
\* justify, for any queries, in whatever order they answer and whenever the command is
\* cancelled.
THEOREM QueriesJustified == Query!Spec => []Query!AnswersJustified
BY QueryInvInit, QueryInvNext, InvJustifies, PTL DEF Query!Spec

-----------------------------------------------------------------------------
(* SubdomainTree *)

Name     == Seq(STRING)
Ahead(g) == List!Elems(todo[g])
Sought == looked \cup Tree!Pending

TreeType == /\ TreeCmd
            /\ todo \in [DOMAIN todo -> Seq(Name)] /\ busy \in [DOMAIN todo -> BOOLEAN]
            /\ \A g \in DOMAIN todo : busy[g] => todo[g] # <<>>
            /\ looked \in SUBSET Name /\ names \subseteq looked
            /\ \A n \in looked : Len(n) \in 1 .. Tree!Depth
            /\ \A n \in Tree!Pending : Len(n) \in 1 .. Tree!Depth
            /\ cancelled \in BOOLEAN /\ reported \in BOOLEAN

\* What is looked up, and what is still to be, is below a name that resolved.
Rooted == \A n \in Sought : Len(n) > 1 => Tree!Parent(n) \in names

\* No first-level name is forgotten, but for a cancel of enum; in recursive only the next
\* name of a goroutine may be one.
LevelKept ==
  /\ ~cancelled \/ cmd = "recursive" => \A i \in DOMAIN Level1 : Tree!First[i] \in Sought
  /\ cmd = "recursive" => \A g \in DOMAIN todo : todo[g] # <<>> =>
                            \A n \in List!Elems(Tail(todo[g])) : Len(n) > 1

\* Without a cancel no name under one that resolves is forgotten.
BelowKept ==
  ~cancelled /\ cmd = "recursive" =>
    \A n \in names : Len(n) < Tree!Depth => \A i \in DOMAIN Below : Tree!Under(n)[i] \in Sought

TreeInv == TreeType /\ Rooted /\ LevelKept /\ BelowKept /\ (reported => Tree!Waited)

LEMMA PendingFacts ==
  /\ \A g \in DOMAIN todo : Ahead(g) \subseteq Tree!Pending
  /\ \A n \in Tree!Pending : \E g \in DOMAIN todo : n \in Ahead(g)
BY DEF Tree!Pending, Ahead, List!Elems

\* A name of the first level, and the names under one: how long they are, and their parent.
LEMMA FirstFacts ==
  /\ Tree!First \in Seq(Name) /\ DOMAIN Tree!First = DOMAIN Level1
  /\ \A i \in DOMAIN Level1 : Tree!First[i] \in Name /\ Len(Tree!First[i]) = 1
<1>1. Level1 \in [1 .. Len(Level1) -> STRING] /\ Len(Level1) \in Nat /\ DOMAIN Level1 = 1 .. Len(Level1)
  BY PrefixesAssumption
<1>2. \A i \in DOMAIN Level1 : <<Level1[i]>> \in Name /\ Len(<<Level1[i]>>) = 1
  BY <1>1 DEF Name
<1>3. Tree!First = [i \in 1 .. Len(Level1) |-> <<Level1[i]>>] BY <1>1 DEF Tree!First
<1>4. Tree!First \in [1 .. Len(Level1) -> Name] BY <1>1, <1>2, <1>3
<1>5. Tree!First \in Seq(Name) BY <1>1, <1>4
<1> QED BY <1>1, <1>2, <1>3, <1>5

LEMMA UnderFacts ==
  ASSUME NEW n \in Name
  PROVE  /\ Tree!Under(n) \in Seq(Name) /\ DOMAIN Tree!Under(n) = DOMAIN Below
         /\ \A m \in List!Elems(Tree!Under(n)) : Len(m) = Len(n) + 1 /\ Tree!Parent(m) = n
<1>1. Below \in [1 .. Len(Below) -> STRING] /\ Len(Below) \in Nat /\ DOMAIN Below = 1 .. Len(Below)
  BY PrefixesAssumption
<1>2. ASSUME NEW i \in DOMAIN Below
      PROVE  /\ Append(n, Below[i]) \in Name /\ Len(Append(n, Below[i])) = Len(n) + 1
             /\ Tree!Parent(Append(n, Below[i])) = n
  <2> DEFINE m == Append(n, Below[i])
  <2>1. Below[i] \in STRING BY <1>1, <1>2
  <2>2. /\ m \in Seq(STRING) /\ Len(m) = Len(n) + 1 /\ Len(n) \in Nat
        /\ \A k \in 1 .. Len(n) : m[k] = n[k]
    BY <2>1 DEF Name
  <2> HIDE DEF m
  <2>3. Len(m) - 1 = Len(n) BY <2>2
  <2>4. Tree!Parent(m) = SubSeq(m, 1, Len(n)) BY <2>3 DEF Tree!Parent
  <2>5. SubSeq(m, 1, Len(n)) = n
    <3>1. SubSeq(m, 1, Len(n)) \in Seq(STRING) /\ Len(SubSeq(m, 1, Len(n))) = Len(n)
          /\ \A k \in 1 .. Len(n) : SubSeq(m, 1, Len(n))[k] = m[k]
      BY <2>2
    <3>2. n \in Seq(STRING) BY DEF Name
    <3> QED BY <2>2, <3>1, <3>2
  <2> QED BY <2>2, <2>4, <2>5 DEF m, Name
<1>3. Tree!Under(n) = [i \in 1 .. Len(Below) |-> Append(n, Below[i])] BY <1>1 DEF Tree!Under
<1>4. Tree!Under(n) \in [1 .. Len(Below) -> Name] BY <1>1, <1>2, <1>3
<1>5. Tree!Under(n) \in Seq(Name) BY <1>1, <1>4
<1>6. \A i \in DOMAIN Tree!Under(n) : i \in DOMAIN Below /\ Tree!Under(n)[i] = Append(n, Below[i])
  BY <1>1, <1>3
<1>7. \A m \in List!Elems(Tree!Under(n)) : Len(m) = Len(n) + 1 /\ Tree!Parent(m) = n
  BY <1>2, <1>6 DEF List!Elems
<1> QED BY <1>1, <1>3, <1>5, <1>7

LEMMA TreeInvInit == Tree!Init => TreeInv
<1> SUFFICES ASSUME Tree!Init PROVE TreeInv OBVIOUS
<1>1. TreeCmd BY DEF Tree!Init, TreeCmd
<1>2. /\ Level1 \in Seq(STRING) /\ Tree!Depth = 3
      /\ names = {} /\ looked = {} /\ cancelled = FALSE /\ reported = FALSE
      /\ busy = [g \in DOMAIN todo |-> FALSE]
  BY PrefixesAssumption DEF Tree!Init, Tree!Depth
<1>f. ASSUME Tree!Pending = {Tree!First[g] : g \in DOMAIN Level1}
      PROVE  /\ \A n \in Tree!Pending : Len(n) \in 1 .. Tree!Depth
             /\ Rooted
  <2>1. \A n \in Tree!Pending : Len(n) = 1 BY <1>f, FirstFacts
  <2>2. Sought = Tree!Pending BY <1>2 DEF Sought
  <2>3. Rooted BY <2>1, <2>2 DEF Rooted
  <2>4. 1 \in 1 .. Tree!Depth BY <1>2
  <2> QED BY <2>1, <2>3, <2>4
<1>3. CASE cmd = "recursive"
  <2>1. todo = [g \in DOMAIN Level1 |-> <<Tree!First[g]>>] BY <1>3 DEF Tree!Init
  <2>2. \A g \in DOMAIN Level1 : /\ <<Tree!First[g]>> \in Seq(Name) /\ Tail(<<Tree!First[g]>>) = <<>>
                                 /\ List!Elems(<<Tree!First[g]>>) = {Tree!First[g]}
    BY FirstFacts DEF List!Elems
  <2>3. DOMAIN todo = DOMAIN Level1 /\ \A g \in DOMAIN todo : Ahead(g) = {Tree!First[g]}
    BY <2>1, <2>2 DEF Ahead
  <2>4. Tree!Pending = {Tree!First[g] : g \in DOMAIN Level1} BY <2>3, PendingFacts
  <2>5. TreeType
    <3>1. todo \in [DOMAIN todo -> Seq(Name)] BY <2>1, <2>2
    <3>2. busy \in [DOMAIN todo -> BOOLEAN] /\ \A g \in DOMAIN todo : ~busy[g] BY <1>2
    <3>3. looked \in SUBSET Name BY <1>2
    <3> QED BY <1>1, <1>2, <1>f, <2>4, <3>1, <3>2, <3>3 DEF TreeType
  <2>6. Rooted BY <1>f, <2>4
  <2>7. LevelKept
    <3>1. List!Elems(<<>>) = {} BY DEF List!Elems
    <3> QED BY <2>1, <2>2, <2>4, <3>1 DEF LevelKept, Sought
  <2> QED BY <1>2, <2>5, <2>6, <2>7 DEF TreeInv, BelowKept
<1>4. CASE cmd = "enum"
  <2>1. todo = <<Tree!First, <<>>>> BY <1>4 DEF Tree!Init
  <2>2. DOMAIN todo = {1, 2} /\ todo[1] = Tree!First /\ todo[2] = <<>> BY <2>1
  <2>3. Ahead(1) = {Tree!First[i] : i \in DOMAIN Level1} /\ Ahead(2) = {}
    BY <2>2, FirstFacts DEF Ahead, List!Elems
  <2>4. Tree!Pending = {Tree!First[g] : g \in DOMAIN Level1} BY <2>2, <2>3, PendingFacts
  <2>5. TreeType
    <3>1. <<>> \in Seq(Name) OBVIOUS
    <3>2. todo[1] \in Seq(Name) /\ todo[2] \in Seq(Name) BY <2>2, <3>1, FirstFacts
    <3>3. todo = [g \in DOMAIN todo |-> todo[g]] BY <2>1
    <3>4. todo \in [DOMAIN todo -> Seq(Name)] BY <2>2, <3>2, <3>3
    <3>5. busy \in [DOMAIN todo -> BOOLEAN] /\ \A g \in DOMAIN todo : ~busy[g] BY <1>2
    <3>6. looked \in SUBSET Name BY <1>2
    <3> QED BY <1>1, <1>2, <1>f, <2>4, <3>4, <3>5, <3>6 DEF TreeType
  <2>6. Rooted BY <1>f, <2>4
  <2>7. LevelKept BY <1>4, <2>4 DEF LevelKept, Sought
  <2> QED BY <1>2, <1>4, <2>5, <2>6, <2>7 DEF TreeInv, BelowKept
<1> QED BY <1>3, <1>4 DEF Tree!Init

\* What the goroutines have ahead of them when one of them takes other names.
LEMMA OneList ==
  ASSUME TreeType, NEW g \in DOMAIN todo, NEW s \in Seq(Name), todo' = [todo EXCEPT ![g] = s]
  PROVE  /\ DOMAIN todo' = DOMAIN todo /\ todo'[g] = s
         /\ \A f \in DOMAIN todo : f # g => todo'[f] = todo[f]
         /\ todo' \in [DOMAIN todo' -> Seq(Name)]
         /\ Tree!Pending' \subseteq Tree!Pending \cup List!Elems(s)
         /\ List!Elems(s) \subseteq Tree!Pending'
         /\ Tree!Pending \subseteq Tree!Pending' \cup List!Elems(todo[g])
<1>1. /\ DOMAIN todo' = DOMAIN todo /\ todo'[g] = s
      /\ \A f \in DOMAIN todo : f # g => todo'[f] = todo[f]
      /\ todo' \in [DOMAIN todo' -> Seq(Name)]
  BY DEF TreeType
<1>2. Tree!Pending = UNION {List!Elems(todo[f]) : f \in DOMAIN todo}
  BY DEF Tree!Pending, List!Elems
<1>3. Tree!Pending' = UNION {List!Elems(todo'[f]) : f \in DOMAIN todo'}
  BY DEF Tree!Pending, List!Elems
<1> QED BY <1>1, <1>2, <1>3

LEMMA TreeGiveUp == ASSUME TreeInv, NEW g \in DOMAIN todo, Tree!GiveUp(g) PROVE TreeInv'
<1> DEFINE n == Head(todo[g])
<1>1. /\ todo[g] # <<>> /\ ~busy[g] /\ cancelled /\ Tree!Heeds(n) /\ todo' = [todo EXCEPT ![g] = <<>>]
      /\ UNCHANGED <<cmd, busy, cancelled, names, looked, reported>>
  BY DEF Tree!GiveUp, Tree!Current
<1>2. <<>> \in Seq(Name) /\ List!Elems(<<>>) = {} BY DEF List!Elems
<1>3. /\ DOMAIN todo' = DOMAIN todo /\ todo'[g] = <<>>
      /\ \A f \in DOMAIN todo : f # g => todo'[f] = todo[f]
      /\ todo' \in [DOMAIN todo' -> Seq(Name)]
      /\ Tree!Pending' \subseteq Tree!Pending
      /\ Tree!Pending \subseteq Tree!Pending' \cup List!Elems(todo[g])
  BY <1>1, <1>2, OneList DEF TreeInv
<1>4. Sought' \subseteq Sought BY <1>1, <1>3 DEF Sought
<1>5. TreeType' BY <1>1, <1>3 DEF TreeInv, TreeType, TreeCmd
<1>6. Rooted' BY <1>1, <1>4 DEF TreeInv, Rooted, Tree!Parent
<1>7. LevelKept'
  <2>1. cmd = "recursive" => \A m \in List!Elems(todo[g]) : Len(m) > 1
    <3>1. todo[g] \in Seq(Name) BY DEF TreeInv, TreeType
    <3>2. List!Elems(todo[g]) = List!Elems(Tail(todo[g])) \cup {n} BY <1>1, <3>1, ElemsTail
    <3>3. cmd = "recursive" => Len(n) > 1 BY <1>1 DEF Tree!Heeds
    <3> QED BY <1>1, <3>2, <3>3 DEF TreeInv, LevelKept
  <2>2. ASSUME cmd = "recursive", NEW i \in DOMAIN Level1 PROVE Tree!First[i] \in Sought'
    <3>1. Tree!First[i] \notin List!Elems(todo[g])
      <4>1. Len(Tree!First[i]) = 1 BY FirstFacts
      <4>2. ~(1 > 1) OBVIOUS
      <4>3. Tree!First[i] \in List!Elems(todo[g]) => Len(Tree!First[i]) > 1 BY <2>1, <2>2
      <4> QED BY <4>1, <4>2, <4>3
    <3>2. Tree!First[i] \in Sought BY <2>2 DEF TreeInv, LevelKept
    <3> QED BY <1>1, <1>3, <3>1, <3>2 DEF Sought
  <2> QED BY <1>1, <1>3, <2>2 DEF TreeInv, LevelKept
<1>8. BelowKept' BY <1>1 DEF BelowKept
<1>9. (reported => Tree!Waited)' BY <1>1, <1>3 DEF TreeInv, Tree!Waited
<1> QED BY <1>5, <1>6, <1>7, <1>8, <1>9 DEF TreeInv

LEMMA TreeResolve ==
  ASSUME TreeInv, ~reported, NEW g \in DOMAIN todo, NEW ok \in BOOLEAN, Tree!Resolve(g, ok)
  PROVE  TreeInv'
<1> DEFINE n == Head(todo[g])
           new == IF Tree!Deeper(n, ok) THEN Tree!Under(n) ELSE <<>>
           s == new \o Tail(todo[g])
<1>1. /\ busy[g] /\ looked' = looked \cup {n} /\ names' = IF ok THEN names \cup {n} ELSE names
      /\ todo' = [todo EXCEPT ![g] = s] /\ busy' = [busy EXCEPT ![g] = FALSE]
      /\ UNCHANGED <<cmd, cancelled, reported>>
  BY DEF Tree!Resolve, Tree!Current, TreeInv, TreeType
<1>2. /\ todo[g] \in Seq(Name) /\ todo[g] # <<>> /\ n \in Name /\ Tail(todo[g]) \in Seq(Name)
      /\ List!Elems(todo[g]) = List!Elems(Tail(todo[g])) \cup {n}
  <2>1. todo[g] \in Seq(Name) /\ todo[g] # <<>> BY <1>1 DEF TreeInv, TreeType
  <2> QED BY <2>1, ElemsTail
<1>3. /\ new \in Seq(Name)
      /\ \A m \in List!Elems(new) : Len(m) = Len(n) + 1 /\ Tree!Parent(m) = n /\ Tree!Deeper(n, ok)
  <2>1. <<>> \in Seq(Name) /\ List!Elems(<<>>) = {} BY DEF List!Elems
  <2> QED BY <1>2, <2>1, UnderFacts
<1> HIDE DEF new
<1>4. s \in Seq(Name) /\ List!Elems(s) = List!Elems(new) \cup List!Elems(Tail(todo[g]))
  <2> DEFINE rest == Tail(todo[g])
  <2>1. new \in Seq(Name) /\ rest \in Seq(Name) BY <1>2, <1>3
  <2> HIDE DEF rest
  <2>2. /\ new \o rest \in Seq(Name)
        /\ List!Elems(new \o rest) = List!Elems(new) \cup List!Elems(rest)
    BY ONLY <2>1, ConcatElems
  <2> QED BY <2>2 DEF rest
<1> HIDE DEF s
<1>5. /\ DOMAIN todo' = DOMAIN todo /\ todo'[g] = s
      /\ \A f \in DOMAIN todo : f # g => todo'[f] = todo[f]
      /\ todo' \in [DOMAIN todo' -> Seq(Name)]
      /\ Tree!Pending' \subseteq Tree!Pending \cup List!Elems(s)
      /\ List!Elems(s) \subseteq Tree!Pending'
      /\ Tree!Pending \subseteq Tree!Pending' \cup List!Elems(todo[g])
  BY <1>1, <1>4, OneList DEF TreeInv
<1>6. n \in Tree!Pending /\ List!Elems(todo[g]) \subseteq Tree!Pending
  BY <1>2, PendingFacts DEF Ahead
<1>7. Len(n) \in 1 .. Tree!Depth BY <1>6 DEF TreeInv, TreeType
<1>8. \A m \in List!Elems(new) : /\ Len(m) \in 1 .. Tree!Depth /\ Len(m) > 1
                                 /\ Tree!Parent(m) \in names'
  <2>1. Tree!Deeper(n, ok) => n \in names' /\ Len(n) < Tree!Depth BY <1>1 DEF Tree!Deeper
  <2>2. Tree!Depth = 3 BY DEF Tree!Depth
  <2>3. Len(n) \in 1 .. 3 BY <1>7, <2>2
  <2>4. Tree!Deeper(n, ok) => Len(n) + 1 \in 1 .. Tree!Depth /\ Len(n) + 1 > 1
    <3> SUFFICES ASSUME Tree!Deeper(n, ok)
                 PROVE  Len(n) + 1 \in 1 .. Tree!Depth /\ Len(n) + 1 > 1
      OBVIOUS
    <3> DEFINE k == Len(n)
    <3>1. k \in 1 .. 3 /\ k < 3 BY <2>1, <2>2, <2>3
    <3> HIDE DEF k
    <3>2. k + 1 \in 1 .. 3 /\ k + 1 > 1 BY ONLY <3>1
    <3> QED BY <2>2, <3>2 DEF k
  <2> QED BY <1>3, <2>1, <2>4
<1>9. Sought \subseteq Sought' /\ Sought' \subseteq Sought \cup List!Elems(new)
  BY <1>1, <1>2, <1>4, <1>5, <1>6 DEF Sought
<1>10. TreeType'
  <2>1. \A m \in Tree!Pending' : Len(m) \in 1 .. Tree!Depth
    BY <1>2, <1>4, <1>5, <1>6, <1>8 DEF TreeInv, TreeType
  <2>2. looked' \in SUBSET Name /\ names' \subseteq looked' /\ \A m \in looked' : Len(m) \in 1 .. Tree!Depth
    BY <1>1, <1>2, <1>7 DEF TreeInv, TreeType
  <2>3. busy' \in [DOMAIN todo' -> BOOLEAN] /\ \A f \in DOMAIN todo' : busy'[f] => todo'[f] # <<>>
    BY <1>1, <1>5 DEF TreeInv, TreeType
  <2> QED BY <1>1, <1>5, <2>1, <2>2, <2>3 DEF TreeInv, TreeType, TreeCmd
<1>11. Rooted'
  <2>1. names \subseteq names' BY <1>1
  <2>2. \A m \in Sought' : Len(m) > 1 => Tree!Parent(m) \in names'
    BY <1>8, <1>9, <2>1 DEF TreeInv, Rooted
  <2> QED BY <2>2 DEF Rooted, Tree!Parent
<1>12. LevelKept'
  <2>1. cmd = "recursive" => \A m \in List!Elems(s) : Len(m) > 1
    BY <1>2, <1>4, <1>8 DEF TreeInv, LevelKept
  <2>2. s # <<>> => List!Elems(Tail(s)) \subseteq List!Elems(s) BY <1>4, ElemsTail
  <2>3. cmd' = "recursive" => \A f \in DOMAIN todo' : todo'[f] # <<>> =>
                                \A m \in List!Elems(Tail(todo'[f])) : Len(m) > 1
    <3> SUFFICES ASSUME cmd = "recursive", NEW f \in DOMAIN todo, todo'[f] # <<>>,
                        NEW m \in List!Elems(Tail(todo'[f]))
                 PROVE  Len(m) > 1
      BY <1>1, <1>5
    <3>1. CASE f = g BY <1>5, <2>1, <2>2, <3>1
    <3>2. CASE f # g BY <1>5, <3>2 DEF TreeInv, LevelKept
    <3> QED BY <3>1, <3>2
  <2> QED BY <1>1, <1>9, <2>3 DEF TreeInv, LevelKept
<1>13. BelowKept'
  <2> SUFFICES ASSUME ~cancelled, cmd = "recursive", NEW m \in names', Len(m) < Tree!Depth,
                      NEW i \in DOMAIN Below
               PROVE  Tree!Under(m)[i] \in Sought'
    BY <1>1 DEF BelowKept
  <2>1. CASE m \in names BY <1>9, <2>1 DEF TreeInv, BelowKept
  <2>2. CASE m \notin names
    <3>1. m = n /\ ok BY <1>1, <2>2
    <3>2. new = Tree!Under(n) BY <3>1 DEF Tree!Deeper, new
    <3>3. Tree!Under(n)[i] \in List!Elems(new) BY <1>2, <3>2, UnderFacts DEF List!Elems
    <3> QED BY <1>4, <1>5, <3>1, <3>3 DEF Sought
  <2> QED BY <2>1, <2>2
<1> QED BY <1>1, <1>10, <1>11, <1>12, <1>13 DEF TreeInv

LEMMA TreeInvNext == TreeInv /\ [Tree!Next]_(Tree!treeVars) => TreeInv'
<1> SUFFICES ASSUME TreeInv, [Tree!Next]_(Tree!treeVars) PROVE TreeInv' OBVIOUS
<1>1. ASSUME UNCHANGED <<cmd, todo, names, looked>>, cancelled => cancelled',
             busy' \in [DOMAIN todo -> BOOLEAN], cancelled' \in BOOLEAN, reported' \in BOOLEAN,
             \A g \in DOMAIN todo : busy'[g] => todo[g] # <<>>, reported' => Tree!Waited
      PROVE  TreeInv'
  <2>1. Tree!Pending' = Tree!Pending /\ Sought' = Sought /\ Tree!Waited' = Tree!Waited
    BY <1>1 DEF Tree!Pending, Sought, Tree!Waited
  <2>2. TreeType' BY <1>1, <2>1 DEF TreeInv, TreeType, TreeCmd
  <2>3. Rooted' /\ LevelKept' /\ BelowKept'
    BY <1>1, <2>1 DEF TreeInv, Rooted, LevelKept, BelowKept, Tree!Parent
  <2> QED BY <1>1, <2>1, <2>2, <2>3 DEF TreeInv
<1>2. ASSUME NEW g \in DOMAIN todo, Tree!Begin(g), ~reported PROVE TreeInv'
  BY <1>1, <1>2 DEF Tree!Begin, TreeInv, TreeType
<1>3. CASE Tree!Report BY <1>1, <1>3 DEF Tree!Report, TreeInv, TreeType
<1>4. CASE Tree!Cancel /\ ~reported BY <1>1, <1>4 DEF Tree!Cancel, TreeInv, TreeType
<1>5. CASE UNCHANGED Tree!treeVars BY <1>1, <1>5 DEF Tree!treeVars, TreeInv, TreeType
<1> QED BY <1>2, <1>3, <1>4, <1>5, TreeGiveUp, TreeResolve DEF Tree!Next, Tree!Lookups

LEMMA TreeTypeParts == TreeInv => Tree!TypeOK
BY DEF TreeInv, TreeType, TreeCmd, Name, Tree!TypeOK

LEMMA InvCompletes == TreeInv => Tree!TreeComplete
<1> SUFFICES ASSUME TreeInv PROVE Tree!TreeComplete OBVIOUS
<1>1. reported => Tree!Pending = {} BY DEF TreeInv, Tree!Waited, Tree!Pending
<1>2. \A n \in looked : Len(n) > 1 => Tree!Parent(n) \in names BY DEF TreeInv, Rooted, Sought
<1>3. reported => Sought = looked BY <1>1 DEF Sought
<1>4. reported /\ (~cancelled \/ cmd = "recursive")
        => \A i \in DOMAIN Tree!First : Tree!First[i] \in looked
  BY <1>3, FirstFacts DEF TreeInv, LevelKept
<1>5. reported /\ ~cancelled /\ cmd = "recursive"
       => \A n \in names : Len(n) < Tree!Depth => \A i \in DOMAIN Below : Tree!Under(n)[i] \in looked
  BY <1>3 DEF TreeInv, BelowKept
<1> QED BY <1>1, <1>2, <1>4, <1>5 DEF Tree!TreeComplete

\* recursive and enum, for any prefixes: what is reported is a tree, and nothing is missing
\* from it but for a cancel.
THEOREM TreesComplete == Tree!Spec => []Tree!TreeComplete
BY TreeInvInit, TreeInvNext, InvCompletes, PTL DEF Tree!Spec

-----------------------------------------------------------------------------
(* The run explores these commands side by side: each keeps its invariant, and the *)
(* steps of one leave the others alone.                                            *)

RunInv == (ListCmd => ListInv) /\ (QueryCmd => QueryInv) /\ (TreeCmd => TreeInv)

LEMMA OneCommand ==
  /\ ListCmd => ~QueryCmd /\ ~TreeCmd
  /\ QueryCmd => ~ListCmd /\ ~TreeCmd
  /\ TreeCmd => ~ListCmd /\ ~QueryCmd
BY DEF ListCmd, QueryCmd, TreeCmd

LEMMA QueryKeepsCmd == Query!Next => cmd' = cmd
BY DEF Query!Next, Query!Ask, Query!AskResolver, Query!AskWhois, Query!AskProvider,
       Query!Post, Query!PrintVersion, Query!CloseAnswers, Query!Command, Query!Take,
       Query!TimedOut, Query!Finish, Query!Cancel

LEMMA TreeKeepsCmd == Tree!Next => cmd' = cmd
BY DEF Tree!Next, Tree!Lookups, Tree!GiveUp, Tree!Begin, Tree!Resolve, Tree!Report, Tree!Cancel

LEMMA RunInit == Init => RunInv
<1> SUFFICES ASSUME Init PROVE RunInv OBVIOUS
<1>1. CASE List!Init
  <2>1. ListCmd BY <1>1 DEF List!Init, ListCmd
  <2> QED BY <1>1, <2>1, ListInvInit, OneCommand DEF RunInv
<1>2. CASE Query!Init
  <2>1. QueryCmd BY <1>2 DEF Query!Init, QueryCmd
  <2> QED BY <1>2, <2>1, QueryInvInit, OneCommand DEF RunInv
<1>3. CASE Tree!Init
  <2>1. TreeCmd BY <1>3 DEF Tree!Init, TreeCmd
  <2> QED BY <1>3, <2>1, TreeInvInit, OneCommand DEF RunInv
<1> QED BY <1>1, <1>2, <1>3 DEF Init

LEMMA RunNext == RunInv /\ [Next]_vars => RunInv'
<1> SUFFICES ASSUME RunInv, [Next]_vars PROVE RunInv' OBVIOUS
<1>1. ASSUME cmd' = cmd
      PROVE  ListCmd' = ListCmd /\ QueryCmd' = QueryCmd /\ TreeCmd' = TreeCmd
  BY <1>1 DEF ListCmd, QueryCmd, TreeCmd
<1>2. CASE OfList(List!Next)
  <2>1. ListCmd /\ List!Next /\ cmd' = cmd BY <1>2, ListKeepsInput DEF OfList
  <2> QED BY <1>1, <2>1, ListInvNext, OneCommand DEF RunInv
<1>3. CASE OfQuery(Query!Next)
  <2>1. QueryCmd /\ Query!Next /\ cmd' = cmd BY <1>3, QueryKeepsCmd DEF OfQuery
  <2> QED BY <1>1, <2>1, QueryInvNext, OneCommand DEF RunInv
<1>4. CASE OfTree(Tree!Next)
  <2>1. TreeCmd /\ Tree!Next /\ cmd' = cmd BY <1>4, TreeKeepsCmd DEF OfTree
  <2> QED BY <1>1, <2>1, TreeInvNext, OneCommand DEF RunInv
<1>5. CASE UNCHANGED vars
  <2>1. /\ cmd' = cmd /\ UNCHANGED List!listVars /\ UNCHANGED Query!queryVars
        /\ UNCHANGED Tree!treeVars
    BY <1>5 DEF vars, ofList, ofQuery, ofTree, List!listVars, List!input, List!feed,
                List!output, List!history, Query!queryVars, Tree!treeVars
  <2> QED BY <1>1, <2>1, ListInvNext, QueryInvNext, TreeInvNext DEF RunInv
<1> QED BY <1>2, <1>3, <1>4, <1>5 DEF Next

\* Whichever command runs, its variables keep their types.
THEOREM TypesCorrect == Spec => []TypeOK
<1>1. RunInv => TypeOK
  BY ListTypeParts, QueryTypeParts, TreeTypeParts DEF RunInv, ListInv, QueryInv, TypeOK
<1> QED BY RunInit, RunNext, <1>1, PTL DEF Spec

\* brute, bulk and multi as the run explores them, for any lists and any workers: no place is
\* looked up or reported twice, none is dropped but by brute after its timeout, the
\* command returns after its last worker, bulk reports every line, multi closes its
\* connections.
THEOREM ListedOnce == Spec => []ListAnswered
<1>1. RunInv => ListAnswered BY InvAnswers DEF RunInv, ListAnswered
<1> QED BY RunInit, RunNext, <1>1, PTL DEF Spec

\* resolver, whois, providers and version as the run explores them, for any queries.
THEOREM OutcomesJustified == Spec => []AnswersJustified
<1>1. RunInv => AnswersJustified BY InvJustifies DEF RunInv, AnswersJustified
<1> QED BY RunInit, RunNext, <1>1, PTL DEF Spec

\* recursive and enum as the run explores them, for any prefixes.
THEOREM TreesReported == Spec => []TreeComplete
<1>1. RunInv => TreeComplete BY InvCompletes DEF RunInv, TreeComplete
<1> QED BY RunInit, RunNext, <1>1, PTL DEF Spec

\* Each step of a command maps to a step of the fan-out, or to none; without a worker, and
\* for the commands that are no fan-out, to none.
LEMMA RunPromiseNext == RunInv /\ [Next]_vars => [Promise!Next]_(Promise!vars)
<1> SUFFICES ASSUME RunInv, [Next]_vars PROVE [Promise!Next]_(Promise!vars) OBVIOUS
<1>1. ASSUME ~Fans, ~Fans' PROVE UNCHANGED Promise!vars BY <1>1 DEF Promise!vars
<1>2. CASE OfList(List!Next)
  <2>1. ListCmd /\ List!Next /\ UNCHANGED <<cmd, workers>> BY <1>2, ListKeepsInput DEF OfList
  <2>2. CASE Fans BY <2>1, <2>2, ListPromiseNext DEF RunInv
  <2>3. CASE ~Fans BY <1>1, <2>1, <2>3 DEF Fans, ListCmd
  <2> QED BY <2>2, <2>3
<1>3. CASE OfQuery(Query!Next)
  BY <1>1, <1>3, QueryKeepsCmd, OneCommand DEF OfQuery, Fans, ListCmd
<1>4. CASE OfTree(Tree!Next)
  BY <1>1, <1>4, TreeKeepsCmd, OneCommand DEF OfTree, Fans, ListCmd
<1>5. CASE UNCHANGED vars
  <2>1. UNCHANGED <<cmd, cancelled, reported, ofList>> BY <1>5 DEF vars
  <2>2. UNCHANGED <<cmd, targets, workers, probed, hits, found, cancelled, reported>>
    BY <2>1 DEF ofList
  <2>3. Fans' = Fans /\ List!Jobs' = List!Jobs /\ List!Report' = List!Report
    BY <2>2 DEF Fans, ListCmd, List!Jobs, List!Places, List!Report, List!Times
  <2> QED BY <2>2, <2>3 DEF Promise!vars
<1> QED BY <1>2, <1>3, <1>4, <1>5 DEF Next

\* brute, bulk and multi keep the promise of a fan-out: each place is looked up at most
\* once, and the report names each success once and nothing else, of every place unless the
\* context was done.
THEOREM ListRefinement == Spec => KeepsListPromise
BY ListPromiseInit, RunInit, RunNext, RunPromiseNext, PTL DEF Spec, KeepsListPromise, Promise!Spec

=============================================================================
