--------------------------- MODULE DirBustProofs ----------------------------
(***************************************************************************)
(* Theorems about DirBust, for every list of paths, every number of        *)
(* workers and whatever the server answers.                                *)
(***************************************************************************)
EXTENDS DirBust, DataFacts, FiniteSetTheorems

WorkerPC == {"receive", "check", "request", "lock", "send", "done"}

\* The parts of TypeOK, by what they are about.
FeedType == /\ pathCh \in Seq(AllPaths) /\ pathsClosed \in BOOLEAN
            /\ fed \in 0 .. Len(Paths)
ResType  == /\ results \in Seq(Answers) /\ Len(results) <= Cardinality(Threads)
            /\ resultsClosed \in BOOLEAN
WorkType == /\ wpc \in [Threads -> WorkerPC]
            /\ path \in [Threads -> AllPaths \cup {NoPath}]
            /\ status \in [Threads -> Statuses \cup {0}]
            /\ mu \in Threads \cup {NoThread}
MainType == /\ cancelled \in BOOLEAN /\ main \in {"feed", "wait", "read", "reported"}
            /\ listed \in Seq(AllPaths)
HistType == probed \subseteq AllPaths /\ answered \subseteq Answers

\* TypeOK is not inductive: a worker has a path when it asks for it, and a status when
\* it sends its result.
Holds == \A w \in Threads :
           /\ wpc[w] \in {"check", "request", "lock", "send"} => path[w] \in AllPaths
           /\ wpc[w] \in {"lock", "send"} => status[w] \in Statuses

Typed == TypeOK /\ Holds
Parts == FeedType /\ ResType /\ WorkType /\ MainType /\ HistType /\ Holds

LEMMA TypeParts == Typed <=> Parts
BY DEF Typed, TypeOK, Parts, FeedType, ResType, WorkType, MainType, HistType, WorkerPC

LEMMA TypePartsNext == Typed' <=> Parts'
BY DEF Typed, TypeOK, Parts, FeedType, ResType, WorkType, MainType, HistType, WorkerPC

LEMMA CapacityFacts == Cardinality(Threads) \in Nat \ {0}
BY ThreadsAssumption, FS_CardinalityType, FS_EmptySet

LEMMA PathFacts == /\ Len(Paths) \in Nat
                   /\ DOMAIN Paths = 1 .. Len(Paths)
                   /\ \A i \in 1 .. Len(Paths) : Paths[i] \in AllPaths
                   /\ \A i, k \in 1 .. Len(Paths) : i # k => Paths[i] # Paths[k]
<1>1. Len(Paths) \in Nat /\ DOMAIN Paths = 1 .. Len(Paths)
  <2> DEFINE S == {Paths[i] : i \in DOMAIN Paths}
  <2>1. Paths \in Seq(S) BY PathsAssumption
  <2> HIDE DEF S
  <2> QED BY <2>1
<1>2. \A i, k \in DOMAIN Paths : i # k => Paths[i] # Paths[k] BY PathsAssumption
<1> QED BY <1>1, <1>2 DEF AllPaths, Elems

-----------------------------------------------------------------------------
(* Types *)

LEMMA TypeInit == Init => Typed
<1> SUFFICES ASSUME Init PROVE Parts BY TypeParts
<1>1. FeedType
  <2>1. pathCh \in Seq(AllPaths) BY DEF Init
  <2>2. fed \in 0 .. Len(Paths) BY PathFacts DEF Init
  <2> QED BY <2>1, <2>2 DEF Init, FeedType
<1>2. ResType
  <2>1. results \in Seq(Answers) /\ Len(results) = 0 BY DEF Init
  <2>2. Len(results) <= Cardinality(Threads) BY <2>1, CapacityFacts
  <2> QED BY <2>1, <2>2 DEF Init, ResType
<1>3. WorkType BY DEF Init, WorkType, WorkerPC
<1>4. MainType
  <2>1. listed \in Seq(AllPaths) BY DEF Init
  <2> QED BY <2>1 DEF Init, MainType
<1>5. HistType BY DEF Init, HistType
<1>6. Holds BY DEF Init, Holds
<1> QED BY <1>1, <1>2, <1>3, <1>4, <1>5, <1>6 DEF Parts

\* A worker that moves without touching what it holds.
LEMMA WorkMoves ==
  ASSUME WorkType, Holds, NEW w \in Threads, NEW pc \in WorkerPC, Work(w, pc),
         UNCHANGED <<path, status>>, mu' \in Threads \cup {NoThread},
         pc \in {"check", "request", "lock", "send"} => path[w] \in AllPaths,
         pc \in {"lock", "send"} => status[w] \in Statuses
  PROVE  WorkType' /\ Holds'
<1>1. WorkType' BY DEF WorkType, Work
<1>2. \A v \in Threads : wpc'[v] = IF v = w THEN pc ELSE wpc[v] BY DEF WorkType, Work
<1>3. Holds' BY <1>2 DEF Holds
<1> QED BY <1>1, <1>3

LEMMA TypeNext == Typed /\ [Next]_vars => Typed'
<1> SUFFICES ASSUME Parts, [Next]_vars PROVE Parts' BY TypeParts, TypePartsNext
<1> USE DEF Parts, feedCh, resCh, worker, history
<1>1. CASE Feed
  <2>1. Paths[fed + 1] \in AllPaths /\ fed + 1 \in 0 .. Len(Paths)
    BY <1>1, PathFacts DEF Feed, FeedType
  <2>2. FeedType' BY <1>1, <2>1, SendFacts DEF Feed, FeedType
  <2> QED BY <1>1, <2>2 DEF Feed, ResType, WorkType, MainType, HistType, Holds
<1>2. CASE Jump
  BY <1>2 DEF Jump, FeedType, ResType, WorkType, MainType, HistType, Holds
<1>3. CASE ClosePaths
  BY <1>3 DEF ClosePaths, FeedType, ResType, WorkType, MainType, HistType, Holds
<1>4. CASE CloseResults
  BY <1>4 DEF CloseResults, FeedType, ResType, WorkType, MainType, HistType, Holds
<1>5. CASE Read
  <2>1. /\ Head(results) \in Answers /\ results' \in Seq(Answers)
        /\ Len(results') <= Cardinality(Threads)
    BY <1>5, ReceiveFacts, CapacityFacts DEF Read, ResType
  <2>2. Head(results)[1] \in AllPaths BY <2>1 DEF Answers
  <2>3. listed' \in Seq(AllPaths)
    <3>1. CASE Interesting(Head(results)[2])
      BY <1>5, <2>2, <3>1, SendFacts DEF Read, MainType
    <3>2. CASE ~Interesting(Head(results)[2]) BY <1>5, <3>2 DEF Read, MainType
    <3> QED BY <3>1, <3>2
  <2> QED BY <1>5, <2>1, <2>3 DEF Read, FeedType, ResType, WorkType, MainType, HistType, Holds
<1>6. CASE Report
  BY <1>6 DEF Report, FeedType, ResType, WorkType, MainType, HistType, Holds
<1>7. ASSUME NEW w \in Threads, Receive(w) PROVE Parts'
  <2>1. Head(pathCh) \in AllPaths /\ FeedType'
    BY <1>7, ReceiveFacts DEF Receive, FeedType
  <2>2. WorkType' BY <1>7, <2>1 DEF Receive, WorkType, Work, WorkerPC
  <2>3. Holds' BY <1>7, <2>1 DEF Receive, WorkType, Work, Holds
  <2> QED BY <1>7, <2>1, <2>2, <2>3 DEF Receive, ResType, MainType, HistType
<1>8. ASSUME NEW w \in Threads, Drained(w) \/ Check(w) PROVE Parts'
  <2>1. WorkType' /\ Holds'
    BY <1>8, WorkMoves DEF Drained, Check, WorkType, WorkerPC, Holds
  <2> QED BY <1>8, <2>1 DEF Drained, Check, FeedType, ResType, MainType, HistType
<1>9. ASSUME NEW w \in Threads, Fail(w) PROVE Parts'
  <2>1. WorkType' /\ Holds' BY <1>9, WorkMoves DEF Fail, WorkType, WorkerPC
  <2>2. path[w] \in AllPaths BY <1>9 DEF Fail, Holds
  <2> QED BY <1>9, <2>1, <2>2 DEF Fail, FeedType, ResType, MainType, HistType
<1>10. ASSUME NEW w \in Threads, NEW s \in Statuses, Respond(w, s) PROVE Parts'
  <2>1. path[w] \in AllPaths BY <1>10 DEF Respond, Holds
  <2>2. WorkType' BY <1>10 DEF Respond, WorkType, Work, WorkerPC
  <2>3. Holds' BY <1>10, <2>1 DEF Respond, WorkType, Work, Holds
  <2>4. HistType' BY <1>10, <2>1 DEF Respond, HistType, Answers
  <2> QED BY <1>10, <2>2, <2>3, <2>4 DEF Respond, FeedType, ResType, MainType
<1>11. ASSUME NEW w \in Threads, Lock(w) PROVE Parts'
  <2>1. WorkType' /\ Holds' BY <1>11, WorkMoves DEF Lock, WorkType, WorkerPC, Holds
  <2> QED BY <1>11, <2>1 DEF Lock, FeedType, ResType, MainType, HistType
<1>12. ASSUME NEW w \in Threads, SendResult(w) PROVE Parts'
  <2>1. <<path[w], status[w]>> \in Answers BY <1>12 DEF SendResult, Holds, Answers
  <2>2. ResType' BY <1>12, <2>1, SendFacts, CapacityFacts DEF SendResult, ResType, HasRoom
  <2>3. WorkType' /\ Holds' BY <1>12, WorkMoves DEF SendResult, Unlocked, WorkType, WorkerPC
  <2> QED BY <1>12, <2>2, <2>3 DEF SendResult, FeedType, MainType, HistType
<1>13. CASE Timeout
  BY <1>13 DEF Timeout, FeedType, ResType, WorkType, MainType, HistType, Holds
<1>14. CASE UNCHANGED vars
  BY <1>14 DEF vars, FeedType, ResType, WorkType, MainType, HistType, Holds
<1> QED BY <1>1, <1>2, <1>3, <1>4, <1>5, <1>6, <1>7, <1>8, <1>9, <1>10, <1>11, <1>12, <1>13,
           <1>14 DEF Next, Command, WorkerStep

\* Every variable keeps its type, and results its capacity.
THEOREM TypeCorrect == Spec => []TypeOK
<1>1. Typed => TypeOK BY DEF Typed
<1> QED BY TypeInit, TypeNext, <1>1, PTL DEF Spec

-----------------------------------------------------------------------------
(* The paths.  Those that have left pathCh are the first of the list; each is with *)
(* one worker that has not asked for it, or asked for, or was dropped by a worker   *)
(* that saw the timeout.                                                            *)

Gone    == fed - Len(pathCh)
Seen    == {Paths[k] : k \in 1 .. Gone}
Busy(w) == wpc[w] \in {"check", "request"}

\* What the command has closed by the time it does what it does.
Stage == /\ main = "feed" => ~pathsClosed
         /\ main = "wait" => pathsClosed
         /\ main \in {"feed", "wait"} => ~resultsClosed
         /\ main = "reported" => resultsClosed /\ results = <<>>
         /\ pathsClosed => fed = Len(Paths)
         /\ resultsClosed => pathsClosed /\ WorkersGone

\* What is in pathCh is the part of the list that follows Gone.
Window == /\ Len(pathCh) <= fed
          /\ \A i \in 1 .. Len(pathCh) : pathCh[i] = Paths[Gone + i]

\* No path is with two workers, or with one that has yet to ask for it after its request.
OneWorker == /\ \A w \in Threads : Busy(w) => path[w] \in Seen \ probed
             /\ \A v, w \in Threads : v # w /\ Busy(v) /\ Busy(w) => path[v] # path[w]
             /\ probed \subseteq Seen

\* Nothing is dropped before the timeout, nor does a worker leave.
NothingDropped ==
  /\ ~cancelled => \A p \in Seen \ probed : \E w \in Threads : Busy(w) /\ path[w] = p
  /\ \A w \in Threads : wpc[w] = "done" => cancelled \/ (pathsClosed /\ pathCh = <<>>)

PathInv == Stage /\ Window /\ OneWorker /\ NothingDropped

LEMMA PathInvInit == Init => PathInv
<1> SUFFICES ASSUME Init PROVE PathInv OBVIOUS
<1>1. pathCh = <<>> /\ fed = 0 BY DEF Init
<1>2. Gone = 0
  <2>1. Len(pathCh) = 0 BY <1>1
  <2>2. fed = 0 BY <1>1
  <2> QED BY ONLY <2>1, <2>2 DEF Gone
<1>3. Seen = {} BY <1>2 DEF Seen
<1>4. \A w \in Threads : wpc[w] = "receive" BY DEF Init
<1>5. Window BY <1>1, <1>2 DEF Window
<1>6. OneWorker BY <1>3, <1>4 DEF Init, OneWorker, Busy
<1>7. NothingDropped BY <1>3, <1>4 DEF Init, NothingDropped, Busy
<1>8. Stage BY DEF Init, Stage
<1> QED BY <1>5, <1>6, <1>7, <1>8 DEF PathInv

\* A step that leaves pathCh, the workers and what they have asked for alone.
LEMMA PathInvStutter ==
  ASSUME PathInv, UNCHANGED <<pathCh, fed, worker, probed>>, Stage',
         cancelled => cancelled', pathsClosed => pathsClosed'
  PROVE  PathInv'
<1>1. UNCHANGED <<Gone, Seen, wpc, path>> /\ \A w : Busy(w)' = Busy(w)
  BY DEF Gone, Seen, Busy, worker
<1>2. Window' BY <1>1 DEF PathInv, Window
<1>3. OneWorker' BY <1>1 DEF PathInv, OneWorker
<1>4. NothingDropped' BY <1>1 DEF PathInv, NothingDropped
<1> QED BY <1>2, <1>3, <1>4 DEF PathInv

LEMMA PathInvFeed == ASSUME Parts, PathInv, Feed PROVE PathInv'
<1>1. /\ pathCh' = Append(pathCh, Paths[fed + 1]) /\ fed' = fed + 1 /\ fed < Len(Paths)
      /\ main = "feed"
      /\ UNCHANGED <<cancelled, pathsClosed, results, resultsClosed, wpc, path, probed, main>>
  BY DEF Feed, resCh, worker, history
<1>2. /\ pathCh \in Seq(AllPaths) /\ Len(pathCh) \in Nat
      /\ fed \in Nat /\ fed + 1 \in 1 .. Len(Paths)
  BY <1>1, PathFacts DEF Parts, FeedType
<1>3. /\ Len(pathCh') = Len(pathCh) + 1 /\ pathCh'[Len(pathCh) + 1] = Paths[fed + 1]
      /\ \A i \in 1 .. Len(pathCh) : pathCh'[i] = pathCh[i]
  BY <1>1, <1>2, PathFacts, SendFacts
<1>4. Gone' = Gone /\ Gone + (Len(pathCh) + 1) = fed + 1 /\ Gone \in Int
  BY <1>1, <1>2, <1>3 DEF Gone
<1>5. Seen' = Seen BY <1>1, <1>4 DEF Seen
<1>6. ~pathsClosed BY <1>1 DEF PathInv, Stage
<1>7. Stage' BY <1>1, <1>6 DEF PathInv, Stage, WorkersGone
<1>8. Window'
  <2>1. ASSUME NEW i \in 1 .. Len(pathCh') PROVE pathCh'[i] = Paths[Gone' + i]
    <3>1. CASE i \in 1 .. Len(pathCh) BY <1>3, <1>4, <3>1 DEF PathInv, Window
    <3>2. CASE i = Len(pathCh) + 1 BY <1>3, <1>4, <3>2
    <3> QED BY <1>2, <1>3, <2>1, <3>1, <3>2
  <2> QED BY <1>1, <1>2, <1>3, <2>1 DEF PathInv, Window
<1>9. OneWorker' BY <1>1, <1>5 DEF PathInv, OneWorker, Busy
<1>10. NothingDropped' BY <1>1, <1>5, <1>6 DEF PathInv, NothingDropped, Busy
<1> QED BY <1>7, <1>8, <1>9, <1>10 DEF PathInv

LEMMA PathInvReceive ==
  ASSUME Parts, PathInv, NEW w \in Threads, Receive(w) PROVE PathInv'
<1>1. /\ wpc[w] = "receive" /\ pathCh # <<>>
      /\ path' = [path EXCEPT ![w] = Head(pathCh)] /\ pathCh' = Tail(pathCh)
      /\ wpc' = [wpc EXCEPT ![w] = "check"]
      /\ UNCHANGED <<cancelled, pathsClosed, fed, results, resultsClosed, main, probed>>
  BY DEF Receive, Work, resCh, history
<1>2. /\ pathCh \in Seq(AllPaths) /\ fed \in Nat /\ fed <= Len(Paths)
      /\ wpc \in [Threads -> WorkerPC] /\ path \in [Threads -> AllPaths \cup {NoPath}]
  BY PathFacts DEF Parts, FeedType, WorkType
<1>3. /\ Len(pathCh) \in Nat \ {0} /\ Len(pathCh') = Len(pathCh) - 1 /\ Head(pathCh) = pathCh[1]
      /\ \A i \in 1 .. Len(pathCh) - 1 : pathCh'[i] = pathCh[i + 1]
  BY <1>1, <1>2, ReceiveFacts
<1>4. /\ Gone \in Nat /\ Gone' = Gone + 1 /\ Gone + 1 <= Len(Paths) /\ Len(pathCh) <= fed
      /\ Head(pathCh) = Paths[Gone + 1]
  BY <1>1, <1>2, <1>3 DEF PathInv, Window, Gone
<1>5. Seen' = Seen \cup {Head(pathCh)}
  <2>1. 1 .. Gone' = (1 .. Gone) \cup {Gone + 1} BY <1>4
  <2> QED BY <1>4, <2>1 DEF Seen
<1>6. Head(pathCh) \notin Seen
  <2>1. \A k \in 1 .. Gone : Paths[k] # Paths[Gone + 1] BY <1>4, PathFacts
  <2> QED BY <1>4, <2>1 DEF Seen
<1>7. \A v \in Threads : /\ v # w => wpc'[v] = wpc[v] /\ path'[v] = path[v]
                         /\ v = w => wpc'[v] = "check" /\ path'[v] = Head(pathCh)
  BY <1>1, <1>2
<1>8. Stage' BY <1>1 DEF PathInv, Stage, WorkersGone
<1>9. Window'
  <2>1. ASSUME NEW i \in 1 .. Len(pathCh') PROVE pathCh'[i] = Paths[Gone' + i]
    <3>1. i \in Nat /\ 1 <= i /\ i <= Len(pathCh) - 1 BY <1>3
    <3>2. i \in 1 .. Len(pathCh) - 1 /\ i + 1 \in 1 .. Len(pathCh) BY <1>3, <3>1
    <3>3. Gone' + i = Gone + (i + 1) BY <1>4, <3>1
    <3> QED BY <1>3, <3>2, <3>3 DEF PathInv, Window
  <2> QED BY <1>1, <1>2, <1>3, <1>4, <2>1 DEF PathInv, Window
<1>10. OneWorker' BY <1>1, <1>5, <1>6, <1>7 DEF PathInv, OneWorker, Busy
<1>11. NothingDropped'
  <2>1. ~cancelled' => \A p \in Seen' \ probed' : \E v \in Threads : Busy(v)' /\ path'[v] = p
    <3> SUFFICES ASSUME ~cancelled', NEW p \in Seen' \ probed'
                 PROVE  \E v \in Threads : Busy(v)' /\ path'[v] = p
      OBVIOUS
    <3>1. CASE p = Head(pathCh) BY <1>7, <3>1 DEF Busy
    <3>2. CASE p \in Seen \ probed
      <4>1. PICK v \in Threads : Busy(v) /\ path[v] = p
        BY <1>1, <3>2 DEF PathInv, NothingDropped
      <4> QED BY <1>1, <1>7, <4>1 DEF Busy
    <3> QED BY <1>1, <1>5, <3>1, <3>2
  <2>2. \A v \in Threads : wpc'[v] = "done" => cancelled' \/ (pathsClosed' /\ pathCh' = <<>>)
    BY <1>1, <1>7 DEF PathInv, NothingDropped
  <2> QED BY <2>1, <2>2 DEF NothingDropped
<1> QED BY <1>8, <1>9, <1>10, <1>11 DEF PathInv

\* A worker that goes on with the path it has, or without one: it keeps a path it has
\* not asked for, or asks for it, or sees the timeout, or leaves when all is done.
LEMMA PathInvWorker ==
  ASSUME Parts, PathInv, NEW w \in Threads, NEW pc \in WorkerPC, Work(w, pc), wpc[w] # "done",
         UNCHANGED <<pathCh, pathsClosed, fed, path, cancelled, resultsClosed, main>>,
         \/ probed' = probed /\ (pc \in {"check", "request"} <=> Busy(w))
         \/ probed' = probed /\ cancelled /\ pc = "done"
         \/ wpc[w] = "request" /\ probed' = probed \cup {path[w]} /\ pc \in {"receive", "lock"},
         pc = "done" => cancelled \/ (pathsClosed /\ pathCh = <<>>)
  PROVE  PathInv'
<1>1. UNCHANGED <<Gone, Seen>> BY DEF Gone, Seen
<1>2. \A v \in Threads : wpc'[v] = IF v = w THEN pc ELSE wpc[v] BY DEF Work, Parts, WorkType
<1>3. Stage'
  <2>1. ~resultsClosed BY DEF PathInv, Stage, WorkersGone
  <2> QED BY <2>1 DEF PathInv, Stage
<1>4. Window' BY <1>1 DEF PathInv, Window
<1>5. OneWorker' BY <1>1, <1>2 DEF PathInv, OneWorker, Busy
<1>6. NothingDropped'
  <2>1. ~cancelled' => \A p \in Seen' \ probed' : \E v \in Threads : Busy(v)' /\ path'[v] = p
    <3> SUFFICES ASSUME ~cancelled', NEW p \in Seen' \ probed'
                 PROVE  \E v \in Threads : Busy(v)' /\ path'[v] = p
      OBVIOUS
    <3>1. PICK v \in Threads : Busy(v) /\ path[v] = p BY <1>1 DEF PathInv, NothingDropped
    <3>2. Busy(v)' BY <1>2, <3>1 DEF Busy
    <3> QED BY <3>1, <3>2
  <2>2. \A v \in Threads : wpc'[v] = "done" => cancelled' \/ (pathsClosed' /\ pathCh' = <<>>)
    BY <1>2 DEF PathInv, NothingDropped
  <2> QED BY <2>1, <2>2 DEF NothingDropped
<1> QED BY <1>3, <1>4, <1>5, <1>6 DEF PathInv

LEMMA PathInvNext == Typed /\ PathInv /\ [Next]_vars => PathInv'
<1> SUFFICES ASSUME Parts, PathInv, [Next]_vars PROVE PathInv' BY TypeParts
<1> USE DEF feedCh, resCh, worker, history
<1>1. CASE Feed BY <1>1, PathInvFeed
<1>2. CASE Jump
  <2>1. Stage' BY <1>2 DEF Jump, PathInv, Stage, WorkersGone
  <2> QED BY <1>2, <2>1, PathInvStutter DEF Jump
<1>3. CASE ClosePaths
  <2>1. Stage' BY <1>3 DEF ClosePaths, PathInv, Stage, WorkersGone
  <2> QED BY <1>3, <2>1, PathInvStutter DEF ClosePaths
<1>4. CASE CloseResults
  <2>1. Stage' BY <1>4 DEF CloseResults, PathInv, Stage, WorkersGone
  <2> QED BY <1>4, <2>1, PathInvStutter DEF CloseResults
<1>5. CASE Read
  <2>1. Stage' BY <1>5 DEF Read, PathInv, Stage, WorkersGone
  <2> QED BY <1>5, <2>1, PathInvStutter DEF Read
<1>6. CASE Report
  <2>1. Stage' BY <1>6 DEF Report, PathInv, Stage, WorkersGone
  <2> QED BY <1>6, <2>1, PathInvStutter DEF Report
<1>7. ASSUME NEW w \in Threads, Receive(w) PROVE PathInv' BY <1>7, PathInvReceive
<1>8. ASSUME NEW w \in Threads, Drained(w) PROVE PathInv'
  BY <1>8, PathInvWorker DEF Drained, WorkerPC, Busy
<1>9. ASSUME NEW w \in Threads, Check(w) PROVE PathInv'
  BY <1>9, PathInvWorker DEF Check, WorkerPC, Busy
<1>10. ASSUME NEW w \in Threads, Fail(w) PROVE PathInv'
  BY <1>10, PathInvWorker DEF Fail, WorkerPC
<1>11. ASSUME NEW w \in Threads, NEW s \in Statuses, Respond(w, s) PROVE PathInv'
  BY <1>11, PathInvWorker DEF Respond, WorkerPC
<1>12. ASSUME NEW w \in Threads, Lock(w) PROVE PathInv'
  BY <1>12, PathInvWorker DEF Lock, WorkerPC, Busy
<1>13. ASSUME NEW w \in Threads, SendResult(w) PROVE PathInv'
  BY <1>13, PathInvWorker DEF SendResult, WorkerPC, Busy
<1>14. CASE Timeout
  <2>1. Stage' BY <1>14 DEF Timeout, PathInv, Stage, WorkersGone
  <2> QED BY <1>14, <2>1, PathInvStutter DEF Timeout
<1>15. CASE UNCHANGED vars
  <2>1. Stage' BY <1>15 DEF vars, PathInv, Stage, WorkersGone
  <2> QED BY <1>15, <2>1, PathInvStutter DEF vars
<1> QED BY <1>1, <1>2, <1>3, <1>4, <1>5, <1>6, <1>7, <1>8, <1>9, <1>10, <1>11, <1>12, <1>13,
           <1>14, <1>15 DEF Next, Command, WorkerStep

-----------------------------------------------------------------------------
(* The responses.  Each is with the worker that got it, in results, or has been *)
(* read, and then it is listed when its status is of interest.                  *)

Pair(w) == <<path[w], status[w]>>

Responses ==
  /\ \A a \in answered : a[1] \in probed
  /\ \A w \in Unsent : Pair(w) \in answered \ Elems(results)
  /\ \A v, w \in Unsent : v # w => path[v] # path[w]
  /\ Elems(results) \subseteq answered
  /\ \A w \in Threads : wpc[w] = "send" <=> mu = w

Kept ==
  /\ \A a \in answered : \/ a \in Elems(results)
                         \/ \E w \in Unsent : a = Pair(w)
                         \/ Interesting(a[2]) => a[1] \in Elems(listed)
  /\ \A p \in Elems(listed) : \E a \in answered : a[1] = p /\ Interesting(a[2])

Counts ==
  /\ IsFiniteSet(answered)
  /\ Cardinality(answered) >= Len(results) + Cardinality(Unsent) + Len(listed)
  /\ main \in {"feed", "wait"} => Cardinality(answered) = Len(results) + Cardinality(Unsent)

ResponseInv == Responses /\ Kept /\ Counts

LEMMA UnsentFacts == /\ Unsent \subseteq Threads /\ IsFiniteSet(Unsent)
                     /\ Cardinality(Unsent) \in Nat
BY ThreadsAssumption, FS_Subset, FS_CardinalityType DEF Unsent

LEMMA ResponseInvInit == Init => ResponseInv
<1> SUFFICES ASSUME Init PROVE ResponseInv OBVIOUS
<1>1. Unsent = {} BY DEF Init, Unsent
<1>2. answered = {} /\ results = <<>> /\ listed = <<>> BY DEF Init
<1>3. Elems(results) = {} /\ Elems(listed) = {} BY <1>2 DEF Elems
<1>4. Responses
  <2>1. \A w \in Threads : wpc[w] # "send" /\ mu # w BY ThreadsAssumption DEF Init
  <2> QED BY <1>1, <1>2, <1>3, <2>1 DEF Responses
<1>5. Kept BY <1>2, <1>3 DEF Kept
<1>6. Counts
  <2>1. IsFiniteSet({}) /\ Cardinality({}) = 0 BY FS_EmptySet
  <2>2. Len(results) = 0 /\ Len(listed) = 0 BY <1>2
  <2> QED BY <1>1, <1>2, <2>1, <2>2 DEF Counts
<1> QED BY <1>4, <1>5, <1>6 DEF ResponseInv

\* A step that leaves the responses and those who send them alone.
LEMMA ResponseStutter ==
  ASSUME ResponseInv, UNCHANGED <<results, mu, listed, answered>>, probed \subseteq probed',
         Unsent' = Unsent, \A w \in Unsent : Pair(w)' = Pair(w),
         \A w \in Threads : wpc'[w] = "send" <=> wpc[w] = "send",
         main' \in {"feed", "wait"} => main \in {"feed", "wait"}
  PROVE  ResponseInv'
<1>1. UNCHANGED <<Elems(results), Elems(listed)>> BY DEF Elems
<1>2. \A w \in Unsent : path'[w] = path[w] BY DEF Pair
<1>3. Responses' BY <1>1, <1>2 DEF ResponseInv, Responses
<1>4. Kept' BY <1>1 DEF ResponseInv, Kept
<1>5. Counts' BY DEF ResponseInv, Counts
<1> QED BY <1>3, <1>4, <1>5 DEF ResponseInv

\* A worker that moves without a response.
LEMMA ResponseIdle ==
  ASSUME Parts, ResponseInv, NEW w \in Threads, NEW pc \in {"receive", "check", "request", "done"},
         Work(w, pc), wpc[w] \in {"receive", "check", "request"},
         \A v \in Threads : v # w => path'[v] = path[v] /\ status'[v] = status[v],
         UNCHANGED <<results, mu, listed, answered, main>>, probed \subseteq probed'
  PROVE  ResponseInv'
<1>1. \A v \in Threads : wpc'[v] = IF v = w THEN pc ELSE wpc[v] BY DEF Work, Parts, WorkType
<1>2. Unsent' = Unsent BY <1>1 DEF Unsent
<1>3. \A v \in Unsent : Pair(v)' = Pair(v) BY DEF Pair, Unsent
<1> QED BY <1>1, <1>2, <1>3, ResponseStutter

\* A response is new, since no other worker had its path.
LEMMA ResponseRespond ==
  ASSUME Parts, PathInv, ResponseInv, NEW w \in Threads, NEW s \in Statuses, Respond(w, s)
  PROVE  ResponseInv'
<1>1. /\ wpc[w] = "request" /\ probed' = probed \cup {path[w]}
      /\ answered' = answered \cup {<<path[w], s>>}
      /\ status' = [status EXCEPT ![w] = s] /\ wpc' = [wpc EXCEPT ![w] = "lock"]
      /\ UNCHANGED <<results, path, mu, main, listed>>
  BY DEF Respond, Work, resCh
<1>2. \A v \in Threads : /\ wpc'[v] = IF v = w THEN "lock" ELSE wpc[v]
                         /\ status'[v] = IF v = w THEN s ELSE status[v]
  BY <1>1 DEF Parts, WorkType
<1>3. UNCHANGED <<Elems(results), Elems(listed)>> BY <1>1 DEF Elems
<1>4. Unsent' = Unsent \cup {w} /\ w \notin Unsent BY <1>1, <1>2 DEF Unsent
<1>5. path[w] \notin probed BY <1>1 DEF PathInv, OneWorker, Busy
<1>6. <<path[w], s>> \notin answered BY <1>5 DEF ResponseInv, Responses
<1>7. \A v \in Unsent : path[v] # path[w]
  <2>1. \A v \in Unsent : Pair(v)[1] \in probed BY DEF ResponseInv, Responses
  <2> QED BY <1>5, <2>1 DEF Pair
<1>8. Pair(w)' = <<path[w], s>> /\ \A v \in Unsent : Pair(v)' = Pair(v)
  <2>1. \A v \in Unsent : v \in Threads /\ v # w BY <1>4 DEF Unsent
  <2> QED BY <1>1, <1>2, <2>1 DEF Pair
<1>9. Responses'
  <2>1. \A a \in answered' : a[1] \in probed' BY <1>1 DEF ResponseInv, Responses
  <2>2. \A v \in Unsent' : Pair(v)' \in answered' \ Elems(results')
    BY <1>1, <1>3, <1>4, <1>6, <1>8 DEF ResponseInv, Responses
  <2>3. \A u, v \in Unsent' : u # v => path'[u] # path'[v]
    BY <1>1, <1>4, <1>7 DEF ResponseInv, Responses
  <2> QED BY <1>1, <1>2, <1>3, <2>1, <2>2, <2>3 DEF ResponseInv, Responses
<1>10. Kept'
  <2>1. ASSUME NEW a \in answered'
        PROVE  \/ a \in Elems(results)'
               \/ \E v \in Unsent' : a = Pair(v)'
               \/ Interesting(a[2]) => a[1] \in Elems(listed)'
    <3>1. CASE a = <<path[w], s>> BY <1>4, <1>8, <3>1
    <3>2. CASE a \in answered BY <1>3, <1>4, <1>8, <3>2 DEF ResponseInv, Kept
    <3> QED BY <1>1, <3>1, <3>2
  <2>2. \A p \in Elems(listed)' : \E a \in answered' : a[1] = p /\ Interesting(a[2])
    BY <1>1, <1>3 DEF ResponseInv, Kept
  <2> QED BY <2>1, <2>2 DEF Kept
<1>11. Counts'
  <2>1. /\ IsFiniteSet(answered') /\ Cardinality(answered') = Cardinality(answered) + 1
        /\ Cardinality(answered) \in Nat
    BY <1>1, <1>6, FS_AddElement, FS_CardinalityType DEF ResponseInv, Counts
  <2>2. Cardinality(Unsent') = Cardinality(Unsent) + 1 /\ Cardinality(Unsent) \in Nat
    BY <1>4, UnsentFacts, FS_AddElement
  <2>3. Len(results) \in Nat /\ Len(listed) \in Nat BY DEF Parts, ResType, MainType
  <2> QED BY <1>1, <2>1, <2>2, <2>3 DEF ResponseInv, Counts
<1> QED BY <1>9, <1>10, <1>11 DEF ResponseInv

LEMMA ResponseLock ==
  ASSUME Parts, ResponseInv, NEW w \in Threads, Lock(w) PROVE ResponseInv'
<1>1. /\ wpc[w] = "lock" /\ mu = NoThread /\ mu' = w /\ wpc' = [wpc EXCEPT ![w] = "send"]
      /\ UNCHANGED <<results, path, status, main, listed, probed, answered>>
  BY DEF Lock, Work, resCh, history
<1>2. \A v \in Threads : wpc'[v] = IF v = w THEN "send" ELSE wpc[v] BY <1>1 DEF Parts, WorkType
<1>3. UNCHANGED <<Unsent, Elems(results), Elems(listed)>> /\ \A v : Pair(v)' = Pair(v)
  BY <1>1, <1>2 DEF Unsent, Elems, Pair
<1>4. \A v \in Threads : wpc'[v] = "send" <=> mu' = v
  <2>1. \A v \in Threads : wpc[v] # "send"
    BY <1>1, ThreadsAssumption DEF ResponseInv, Responses
  <2> QED BY <1>1, <1>2, <2>1
<1>5. Responses' BY <1>1, <1>3, <1>4 DEF ResponseInv, Responses
<1>6. Kept' BY <1>1, <1>3 DEF ResponseInv, Kept
<1>7. Counts' BY <1>1, <1>3 DEF ResponseInv, Counts
<1> QED BY <1>5, <1>6, <1>7 DEF ResponseInv

LEMMA ResponseSend ==
  ASSUME Parts, ResponseInv, NEW w \in Threads, SendResult(w) PROVE ResponseInv'
<1>1. /\ wpc[w] = "send" /\ mu' = NoThread /\ wpc' = [wpc EXCEPT ![w] = "receive"]
      /\ results' = Append(results, Pair(w))
      /\ UNCHANGED <<path, status, main, listed, probed, answered>>
  BY DEF SendResult, Unlocked, Work, history, Pair
<1>2. \A v \in Threads : wpc'[v] = IF v = w THEN "receive" ELSE wpc[v]
  BY <1>1 DEF Parts, WorkType
<1>3. Unsent' = Unsent \ {w} /\ w \in Unsent BY <1>1, <1>2 DEF Unsent
<1>4. results \in Seq(Answers) /\ Pair(w) \in Answers /\ listed \in Seq(AllPaths)
  BY <1>1 DEF Parts, ResType, MainType, Holds, Answers, Pair
<1>5. Elems(results)' = Elems(results) \cup {Pair(w)} /\ Len(results') = Len(results) + 1
  <2>1. Elems(Append(results, Pair(w))) = Elems(results) \cup {Pair(w)}
    <3>1. \A s \in Seq(Answers), x \in Answers : Elems(Append(s, x)) = Elems(s) \cup {x}
      BY ONLY SendElements DEF Elems
    <3> QED BY ONLY <1>4, <3>1
  <2>2. Len(Append(results, Pair(w))) = Len(results) + 1 BY <1>4, SendFacts
  <2>3. results' = Append(results, Pair(w)) BY <1>1
  <2> QED BY ONLY <2>1, <2>2, <2>3 DEF Elems
<1>6. \A v : Pair(v)' = Pair(v) BY <1>1 DEF Pair
<1>7. Elems(listed)' = Elems(listed) BY <1>1 DEF Elems
<1>8. Responses'
  <2>1. \A v \in Unsent' : Pair(v)' \in answered' \ Elems(results)'
    <3> SUFFICES ASSUME NEW v \in Unsent' PROVE Pair(v) \in answered \ Elems(results)'
      BY <1>1, <1>6
    <3>1. v \in Unsent /\ v # w BY <1>3
    <3>2. Pair(v) # Pair(w) BY <1>3, <3>1 DEF ResponseInv, Responses, Pair
    <3> QED BY <1>5, <3>1, <3>2 DEF ResponseInv, Responses
  <2>2. \A v \in Threads : wpc'[v] = "send" <=> mu' = v
    <3>1. mu = w /\ \A v \in Threads : v # w => wpc[v] # "send"
      BY <1>1 DEF ResponseInv, Responses
    <3>2. \A v \in Threads : wpc'[v] # "send" BY <1>2, <3>1
    <3>3. NoThread \notin Threads BY ThreadsAssumption
    <3> QED BY <1>1, <3>2, <3>3
  <2>3. Elems(results)' \subseteq answered' BY <1>1, <1>3, <1>5 DEF ResponseInv, Responses
  <2> QED BY <1>1, <1>3, <2>1, <2>2, <2>3 DEF ResponseInv, Responses
<1>9. Kept' BY <1>1, <1>3, <1>5, <1>6, <1>7 DEF ResponseInv, Kept
<1>10. Counts'
  <2>1. Cardinality(Unsent') = Cardinality(Unsent) - 1 /\ Cardinality(Unsent) \in Nat
    BY <1>3, UnsentFacts, FS_RemoveElement
  <2>2. Len(results) \in Nat /\ Len(listed) \in Nat BY <1>4
  <2>3. IsFiniteSet(answered) /\ Cardinality(answered) \in Nat
    BY FS_CardinalityType DEF ResponseInv, Counts
  <2> QED BY <1>1, <1>5, <2>1, <2>2, <2>3 DEF ResponseInv, Counts
<1> QED BY <1>8, <1>9, <1>10 DEF ResponseInv

LEMMA ResponseRead == ASSUME Parts, ResponseInv, Read PROVE ResponseInv'
<1> DEFINE r == Head(results)
<1>1. /\ main = "read" /\ results # <<>> /\ results' = Tail(results)
      /\ listed' = IF Interesting(r[2]) THEN Append(listed, r[1]) ELSE listed
      /\ UNCHANGED <<wpc, path, status, mu, main, probed, answered>>
  BY Zenon DEF Read, worker, history
<1>2. results \in Seq(Answers) /\ listed \in Seq(AllPaths) BY DEF Parts, ResType, MainType
<1>3. /\ r \in Answers /\ Elems(results) = Elems(results)' \cup {r}
      /\ Len(results') = Len(results) - 1 /\ Len(results) \in Nat
  <2>1. /\ r \in Answers /\ Len(results') = Len(results) - 1 /\ Len(results) \in Nat
    BY <1>1, <1>2, ReceiveFacts
  <2>2. Elems(results) = Elems(Tail(results)) \cup {r}
    BY <1>1, <1>2, ReceiveElements DEF Elems
  <2>3. Elems(results)' = Elems(Tail(results)) BY <1>1 DEF Elems
  <2> QED BY <2>1, <2>2, <2>3
<1>4. r[1] \in AllPaths BY <1>3 DEF Answers
<1> HIDE DEF r
<1>5. /\ Elems(listed)' = Elems(listed) \cup (IF Interesting(r[2]) THEN {r[1]} ELSE {})
      /\ Len(listed') <= Len(listed) + 1 /\ Len(listed') \in Nat /\ Len(listed) \in Nat
  <2>1. CASE Interesting(r[2])
    <3>1. listed' = Append(listed, r[1]) BY <1>1, <2>1
    <3>2. Len(listed') = Len(listed) + 1 BY <1>2, <1>4, <3>1, SendFacts
    <3>3. Elems(listed)' = Elems(listed) \cup {r[1]}
      BY <1>2, <1>4, <3>1, SendElements DEF Elems
    <3> QED BY <1>2, <2>1, <3>2, <3>3
  <2>2. CASE ~Interesting(r[2])
    <3>1. listed' = listed BY <1>1, <2>2
    <3> QED BY <1>2, <2>2, <3>1 DEF Elems
  <2> QED BY <2>1, <2>2
<1>6. Unsent' = Unsent /\ \A v : Pair(v)' = Pair(v) BY <1>1 DEF Unsent, Pair
<1>7. Responses' BY <1>1, <1>3, <1>6 DEF ResponseInv, Responses
<1>8. Kept'
  <2>1. r \in answered BY <1>3 DEF ResponseInv, Responses
  <2>2. ASSUME NEW a \in answered'
        PROVE  \/ a \in Elems(results)'
               \/ \E v \in Unsent' : a = Pair(v)'
               \/ Interesting(a[2]) => a[1] \in Elems(listed)'
    <3>1. CASE a = r BY <1>5, <3>1
    <3>2. CASE a # r BY <1>1, <1>3, <1>5, <1>6, <3>2 DEF ResponseInv, Kept
    <3> QED BY <3>1, <3>2
  <2>3. \A p \in Elems(listed)' : \E a \in answered' : a[1] = p /\ Interesting(a[2])
    BY <1>1, <1>5, <2>1 DEF ResponseInv, Kept
  <2> QED BY <2>2, <2>3 DEF Kept
<1>9. Counts'
  <2>1. Cardinality(Unsent) \in Nat BY UnsentFacts
  <2>2. Cardinality(answered) \in Nat BY FS_CardinalityType DEF ResponseInv, Counts
  <2> QED BY <1>1, <1>3, <1>5, <1>6, <2>1, <2>2 DEF ResponseInv, Counts
<1> QED BY <1>7, <1>8, <1>9 DEF ResponseInv

LEMMA ResponseInvNext == Typed /\ PathInv /\ ResponseInv /\ [Next]_vars => ResponseInv'
<1> SUFFICES ASSUME Parts, PathInv, ResponseInv, [Next]_vars PROVE ResponseInv' BY TypeParts
<1> USE DEF feedCh, resCh, worker, history
<1>1. ASSUME UNCHANGED <<results, worker, mu, listed, history>>,
             main' \in {"feed", "wait"} => main \in {"feed", "wait"}
      PROVE  ResponseInv'
  <2>1. Unsent' = Unsent /\ \A w : Pair(w)' = Pair(w) BY <1>1 DEF Unsent, Pair
  <2> QED BY <1>1, <2>1, ResponseStutter
<1>2. CASE Feed BY <1>1, <1>2 DEF Feed
<1>3. CASE Jump BY <1>1, <1>3 DEF Jump
<1>4. CASE ClosePaths BY <1>1, <1>4 DEF ClosePaths
<1>5. CASE CloseResults BY <1>1, <1>5 DEF CloseResults
<1>6. CASE Read BY <1>6, ResponseRead
<1>7. CASE Report BY <1>1, <1>7 DEF Report
<1>8. ASSUME NEW w \in Threads, Receive(w) PROVE ResponseInv'
  <2>1. \A v \in Threads : v # w => path'[v] = path[v] BY <1>8 DEF Receive, Parts, WorkType
  <2> QED BY <1>8, <2>1, ResponseIdle DEF Receive
<1>9. ASSUME NEW w \in Threads, Drained(w) PROVE ResponseInv' BY <1>9, ResponseIdle DEF Drained
<1>10. ASSUME NEW w \in Threads, Check(w) PROVE ResponseInv' BY <1>10, ResponseIdle DEF Check
<1>11. ASSUME NEW w \in Threads, Fail(w) PROVE ResponseInv' BY <1>11, ResponseIdle DEF Fail
<1>12. ASSUME NEW w \in Threads, NEW s \in Statuses, Respond(w, s) PROVE ResponseInv'
  BY <1>12, ResponseRespond
<1>13. ASSUME NEW w \in Threads, Lock(w) PROVE ResponseInv' BY <1>13, ResponseLock
<1>14. ASSUME NEW w \in Threads, SendResult(w) PROVE ResponseInv' BY <1>14, ResponseSend
<1>15. CASE Timeout BY <1>1, <1>15 DEF Timeout
<1>16. CASE UNCHANGED vars BY <1>1, <1>16 DEF vars
<1> QED BY <1>2, <1>3, <1>4, <1>5, <1>6, <1>7, <1>8, <1>9, <1>10, <1>11, <1>12, <1>13, <1>14,
           <1>15, <1>16 DEF Next, Command, WorkerStep

\* No response is lost or read twice, whenever the timeout passes, and nobody is about
\* to send on results once it is closed.
THEOREM NoResponseLost == Spec => []ResponsesKept
<1>1. PathInv /\ ResponseInv => ResponsesKept
  <2> SUFFICES ASSUME PathInv, ResponseInv PROVE ResponsesKept OBVIOUS
  <2>1. \A w \in Unsent : <<path[w], status[w]>> \in answered \ Elems(results)
    BY DEF ResponseInv, Responses, Pair
  <2>2. resultsClosed => Unsent = {} BY DEF PathInv, Stage, WorkersGone, Unsent
  <2> QED BY <2>1, <2>2 DEF ResponseInv, Responses, Counts, ResponsesKept
<1> QED BY TypeInit, TypeNext, PathInvInit, PathInvNext, ResponseInvInit, ResponseInvNext, <1>1, PTL
        DEF Spec

-----------------------------------------------------------------------------
(* No path is listed twice: it has one response, which is with its worker, in *)
(* results, or read.                                                          *)

Distinct(s) == \A i, k \in DOMAIN s : i # k => s[i] # s[k]

ReadOnce ==
  /\ Distinct(listed) /\ Elems(listed) \subseteq probed
  /\ \A i, k \in DOMAIN results : i # k => results[i][1] # results[k][1]
  /\ \A i \in DOMAIN results : results[i][1] \in probed \ Elems(listed)
  /\ \A w \in Unsent : /\ path[w] \in probed \ Elems(listed)
                       /\ \A i \in DOMAIN results : results[i][1] # path[w]

LEMMA ReadOnceInit == Init => ReadOnce
BY DEF Init, ReadOnce, Distinct, Elems, Unsent

\* A step that leaves results and what is listed alone, and no worker with a new response.
LEMMA ReadOnceStutter ==
  ASSUME ReadOnce, UNCHANGED <<results, listed>>, probed \subseteq probed',
         Unsent' \subseteq Unsent, \A w \in Unsent' : path'[w] = path[w]
  PROVE  ReadOnce'
BY DEF ReadOnce, Distinct, Elems

LEMMA ReadOnceRespond ==
  ASSUME Parts, PathInv, ReadOnce, NEW w \in Threads, NEW s \in Statuses, Respond(w, s)
  PROVE  ReadOnce'
<1>1. /\ wpc[w] = "request" /\ probed' = probed \cup {path[w]} /\ wpc' = [wpc EXCEPT ![w] = "lock"]
      /\ UNCHANGED <<results, path, listed>>
  BY DEF Respond, Work, resCh
<1>2. Unsent' = Unsent \cup {w} BY <1>1 DEF Unsent, Parts, WorkType
<1>3. path[w] \notin probed BY <1>1 DEF PathInv, OneWorker, Busy
<1> QED BY <1>1, <1>2, <1>3 DEF ReadOnce, Distinct, Elems

LEMMA ReadOnceSend ==
  ASSUME Parts, ResponseInv, ReadOnce, NEW w \in Threads, SendResult(w)
  PROVE  ReadOnce'
<1>1. /\ wpc[w] = "send" /\ wpc' = [wpc EXCEPT ![w] = "receive"]
      /\ results' = Append(results, Pair(w)) /\ UNCHANGED <<path, listed, probed>>
  BY DEF SendResult, Work, history, Pair
<1>2. w \in Unsent /\ Unsent' = Unsent \ {w} BY <1>1 DEF Unsent, Parts, WorkType
<1>3. results \in Seq(Answers) /\ Pair(w) \in Answers
  BY <1>1 DEF Parts, ResType, Holds, Answers, Pair
<1>4. /\ DOMAIN results' = DOMAIN results \cup {Len(results) + 1}
      /\ results'[Len(results) + 1][1] = path[w]
      /\ \A i \in DOMAIN results : results'[i] = results[i]
  <2>1. DOMAIN Append(results, Pair(w)) = DOMAIN results \cup {Len(results) + 1} BY <1>3
  <2>2. Pair(w)[1] = path[w] BY DEF Pair
  <2> QED BY <1>1, <1>3, <2>1, <2>2, SendFacts
<1>5. \A v \in Unsent' : path[v] # path[w] BY <1>2 DEF ResponseInv, Responses
<1> QED BY <1>1, <1>2, <1>4, <1>5 DEF ReadOnce, Distinct, Elems

LEMMA ReadOnceRead == ASSUME Parts, ReadOnce, Read PROVE ReadOnce'
<1> DEFINE r == Head(results)
<1>1. /\ results # <<>> /\ results' = Tail(results)
      /\ listed' = IF Interesting(r[2]) THEN Append(listed, r[1]) ELSE listed
      /\ UNCHANGED <<wpc, path, probed>>
  BY Zenon DEF Read, worker, history
<1>2. results \in Seq(Answers) /\ listed \in Seq(AllPaths) BY DEF Parts, ResType, MainType
<1>3. /\ r = results[1] /\ 1 \in DOMAIN results /\ r[1] \in AllPaths
      /\ \A i \in DOMAIN results' : i + 1 \in DOMAIN results /\ i + 1 # 1 /\ results'[i] = results[i + 1]
      /\ \A i, k \in DOMAIN results' : i # k => i + 1 # k + 1
  <2>1. /\ r \in Answers /\ r = results[1] /\ Len(results) \in Nat \ {0}
        /\ Len(results') = Len(results) - 1 /\ results' \in Seq(Answers)
        /\ \A i \in 1 .. Len(results) - 1 : results'[i] = results[i + 1]
    BY <1>1, <1>2, ReceiveFacts
  <2>2. DOMAIN results = 1 .. Len(results) /\ DOMAIN results' = 1 .. Len(results')
    BY <1>2, <2>1, SeqDomain
  <2>3. r[1] \in AllPaths BY <2>1 DEF Answers
  <2> QED BY <2>1, <2>2, <2>3
<1> HIDE DEF r
<1>4. /\ r[1] \in probed \ Elems(listed) /\ \A w \in Unsent : r[1] # path[w]
      /\ \A i \in DOMAIN results' : results'[i][1] # r[1]
  BY <1>3 DEF ReadOnce
<1>5. /\ Distinct(listed') /\ Elems(listed') \subseteq Elems(listed) \cup {r[1]}
  <2>1. CASE Interesting(r[2])
    <3>1. listed' = Append(listed, r[1]) BY <1>1, <2>1
    <3>2. Elems(listed') = Elems(listed) \cup {r[1]}
      BY <1>2, <1>3, <3>1, SendElements DEF Elems
    <3>3. Distinct(listed')
      BY <1>2, <1>3, <1>4, <3>1, AppendDistinct DEF ReadOnce, Distinct, Elems
    <3> QED BY <3>2, <3>3
  <2>2. CASE ~Interesting(r[2]) BY <1>1, <2>2 DEF ReadOnce
  <2> QED BY <2>1, <2>2
<1>6. Unsent' = Unsent BY <1>1 DEF Unsent
<1>7. \A i \in DOMAIN results' :
        /\ results'[i][1] \in probed \ Elems(listed')
        /\ \A w \in Unsent : results'[i][1] # path[w]
  BY <1>3, <1>4, <1>5 DEF ReadOnce
<1>8. \A i, k \in DOMAIN results' : i # k => results'[i][1] # results'[k][1]
  BY <1>3 DEF ReadOnce
<1>9. \A w \in Unsent : path[w] \in probed \ Elems(listed')
  BY <1>4, <1>5 DEF ReadOnce
<1>10. Elems(listed)' = Elems(listed') BY DEF Elems
<1> QED BY <1>1, <1>4, <1>5, <1>6, <1>7, <1>8, <1>9, <1>10 DEF ReadOnce, Distinct

LEMMA ReadOnceNext ==
  Typed /\ PathInv /\ ResponseInv /\ ReadOnce /\ [Next]_vars => ReadOnce'
<1> SUFFICES ASSUME Parts, PathInv, ResponseInv, ReadOnce, [Next]_vars PROVE ReadOnce'
  BY TypeParts
<1> USE DEF feedCh, resCh, worker, history
<1>1. ASSUME UNCHANGED <<results, wpc, path, listed>>, probed \subseteq probed' PROVE ReadOnce'
  <2>1. Unsent' = Unsent BY <1>1 DEF Unsent
  <2> QED BY <1>1, <2>1, ReadOnceStutter
<1>2. CASE Feed \/ Jump \/ ClosePaths \/ CloseResults \/ Report \/ Timeout
  BY <1>1, <1>2 DEF Feed, Jump, ClosePaths, CloseResults, Report, Timeout
<1>3. CASE Read BY <1>3, ReadOnceRead
<1>4. ASSUME NEW w \in Threads,
             Receive(w) \/ Drained(w) \/ Check(w) \/ Fail(w) \/ Lock(w)
      PROVE  ReadOnce'
  <2>1. /\ UNCHANGED <<results, listed>> /\ probed \subseteq probed'
        /\ wpc[w] \in {"receive", "check", "request", "lock"}
        /\ wpc'[w] \in {"send", "check", "request", "receive", "done"}
        /\ wpc'[w] = "send" => wpc[w] = "lock" /\ path' = path
        /\ \A v \in Threads : v # w => wpc'[v] = wpc[v] /\ path'[v] = path[v]
    BY <1>4 DEF Receive, Drained, Check, Fail, Lock, Work, Parts, WorkType
  <2>2. Unsent' \subseteq Unsent /\ \A v \in Unsent' : path'[v] = path[v]
    BY <2>1 DEF Unsent
  <2> QED BY <2>1, <2>2, ReadOnceStutter
<1>5. ASSUME NEW w \in Threads, NEW s \in Statuses, Respond(w, s) PROVE ReadOnce'
  BY <1>5, ReadOnceRespond
<1>6. ASSUME NEW w \in Threads, SendResult(w) PROVE ReadOnce' BY <1>6, ReadOnceSend
<1>7. CASE UNCHANGED vars BY <1>1, <1>7 DEF vars
<1> QED BY <1>2, <1>3, <1>4, <1>5, <1>6, <1>7 DEF Next, Command, WorkerStep

-----------------------------------------------------------------------------
(* The promise of the command *)

Named(A) == {a[1] : a \in {b \in A : Interesting(b[2])}}

\* What the code calls interesting is what Interest is about.
LEMMA InterestingIs ==
  ASSUME NEW A, A \subseteq Answers
  PROVE  {a[1] : a \in {b \in A : b[2] \notin {400, 402} \cup 404 .. 599}} = Named(A)
<1> DEFINE Dull  == {400, 402} \cup 404 .. 599
           Codes == 100 .. 599
<1>1. \A s \in Codes : Interesting(s) <=> s \notin Dull BY SMT DEF Interesting
<1>2. \A a \in A : a[2] \in Codes
  <2>1. \A a \in Answers : a[2] \in Statuses BY DEF Answers
  <2>2. Statuses \subseteq Codes BY StatusesAssumption
  <2> HIDE DEF Codes
  <2> QED BY <2>1, <2>2
<1> HIDE DEF Dull, Codes
<1>3. \A a \in A : Interesting(a[2]) <=> a[2] \notin Dull BY <1>1, <1>2
<1>4. {a[1] : a \in {b \in A : b[2] \notin Dull}} = Named(A) BY <1>3 DEF Named
<1> QED BY <1>4 DEF Dull

LEMMA InterestIs == /\ answered \subseteq Answers => Interest = Named(answered)
                    /\ answered' \subseteq Answers => Interest' = Named(answered')
BY InterestingIs, Zenon DEF Interest

\* What the abstract command of FanOut sees of a step that leaves all of it alone.
LEMMA PromiseStutter ==
  ASSUME Running, main' # "reported", UNCHANGED <<cancelled, history>>
  PROVE  UNCHANGED Promise!vars
BY DEF Promise!vars, Running, history, Interest

\* A request that ends, and what became of it.
LEMMA PromiseProbe ==
  ASSUME Parts, PathInv, NEW w \in Threads, wpc[w] = "request", Running,
         UNCHANGED <<main, cancelled>>, probed' = probed \cup {path[w]},
         Interest' \in {Interest, Interest \cup {path[w]}}
  PROVE  Promise!Next
<1>1. path[w] \in AllPaths \ probed BY DEF Parts, Holds, PathInv, OneWorker, Busy
<1>2. Promise!Probe(path[w]) BY <1>1 DEF Promise!Probe, Running
<1> QED BY <1>1, <1>2 DEF Promise!Next

LEMMA PromiseNext ==
  Typed /\ Typed' /\ PathInv /\ ResponseInv /\ ReadOnce /\ [Next]_vars
    => [Promise!Next]_(Promise!vars)
<1> SUFFICES ASSUME Parts, Parts', PathInv, ResponseInv, ReadOnce, [Next]_vars
             PROVE  Promise!Next \/ UNCHANGED Promise!vars
  BY TypeParts, TypePartsNext
<1> USE DEF feedCh, resCh, worker, history
<1>0. Interest = Named(answered) /\ Interest' = Named(answered')
  BY InterestIs DEF Parts, HistType
<1>1. CASE UNCHANGED vars BY <1>1 DEF vars, Promise!vars, Interest
<1>2. ASSUME Running, NEW w \in Threads, NEW s \in Statuses, Respond(w, s) PROVE Promise!Next
  <2>1. /\ wpc[w] = "request" /\ probed' = probed \cup {path[w]}
        /\ answered' = answered \cup {<<path[w], s>>} /\ UNCHANGED <<main, cancelled>>
    BY <1>2 DEF Respond
  <2>2. Named(answered') = Named(answered) \cup (IF Interesting(s) THEN {path[w]} ELSE {})
    <3> DEFINE a == <<path[w], s>>
    <3>1. a[1] = path[w] /\ a[2] = s /\ answered' = answered \cup {a} BY <2>1
    <3> HIDE DEF a
    <3>2. CASE Interesting(s)
      <4>1. {b \in answered' : Interesting(b[2])} = {b \in answered : Interesting(b[2])} \cup {a}
        BY <3>1, <3>2
      <4> QED BY <3>1, <3>2, <4>1 DEF Named
    <3>3. CASE ~Interesting(s)
      <4>1. {b \in answered' : Interesting(b[2])} = {b \in answered : Interesting(b[2])}
        BY <3>1, <3>3
      <4> QED BY <3>3, <4>1 DEF Named
    <3> QED BY <3>2, <3>3
  <2>3. Interest' \in {Interest, Interest \cup {path[w]}} BY <1>0, <2>2
  <2> QED BY <1>2, <2>1, <2>3, PromiseProbe
<1>3. ASSUME Running, NEW w \in Threads, Fail(w) PROVE Promise!Next
  <2>1. Interest' = Interest BY <1>3 DEF Fail, Interest
  <2> QED BY <1>3, <2>1, PromiseProbe DEF Fail
<1>4. CASE Running /\ Timeout
  <2>1. /\ ~cancelled /\ cancelled' = TRUE
        /\ UNCHANGED <<probed, Interest, main>> /\ main # "reported"
    BY <1>4 DEF Timeout, Interest, Running
  <2>2. Promise!Cancel BY <2>1 DEF Promise!Cancel
  <2> QED BY <2>2 DEF Promise!Next
<1>5. CASE Running /\ Report
  <2>1. /\ main # "reported" /\ main' = "reported" /\ resultsClosed /\ results = <<>>
        /\ UNCHANGED <<probed, answered, cancelled, listed>>
    BY <1>5 DEF Running, Report
  <2>2. pathsClosed /\ WorkersGone /\ fed = Len(Paths) BY <2>1 DEF PathInv, Stage
  <2>3. cancelled \/ probed = AllPaths
    <3> SUFFICES ASSUME ~cancelled PROVE probed = AllPaths OBVIOUS
    <3>1. PICK w \in Threads : TRUE BY ThreadsAssumption
    <3>2. pathCh = <<>> BY <2>2, <3>1 DEF WorkersGone, PathInv, NothingDropped
    <3>3. Len(pathCh) = 0 /\ fed = Len(Paths) /\ Len(Paths) \in Nat BY <2>2, <3>2, PathFacts
    <3>4. Gone = Len(Paths) BY ONLY <3>3 DEF Gone
    <3>5. Seen = AllPaths BY <3>4, PathFacts DEF Seen, AllPaths, Elems
    <3>6. Seen \ probed = {} BY <2>2 DEF PathInv, NothingDropped, WorkersGone, Busy
    <3> QED BY <3>5, <3>6 DEF Parts, HistType
  <2>4. Elems(listed) = Interest
    <3>1. Unsent = {} BY <2>2 DEF WorkersGone, Unsent
    <3>2. Elems(results) = {} BY <2>1 DEF Elems
    <3>3. \A a \in answered : Interesting(a[2]) => a[1] \in Elems(listed)
      BY <3>1, <3>2 DEF ResponseInv, Kept
    <3>4. \A p \in Elems(listed) : \E a \in answered : a[1] = p /\ Interesting(a[2])
      BY DEF ResponseInv, Kept
    <3>5. Elems(listed) = Named(answered) BY ONLY <3>3, <3>4 DEF Named
    <3> QED BY <1>0, <3>5
  <2>5. Interest' = Interest BY <2>1 DEF Interest
  <2>6. \A p \in AllPaths : Times(listed', p) = IF p \in Interest THEN 1 ELSE 0
    BY <2>1, <2>4, TimesFacts DEF ReadOnce, Distinct, Elems
  <2>7. Promise!Report BY <2>1, <2>3, <2>5, <2>6 DEF Promise!Report
  <2> QED BY <2>7 DEF Promise!Next
<1>6. CASE Running /\ (Feed \/ Jump \/ ClosePaths \/ CloseResults \/ Read)
  BY <1>6, PromiseStutter DEF Running, Feed, Jump, ClosePaths, CloseResults, Read
<1>7. ASSUME Running, NEW w \in Threads,
             Receive(w) \/ Drained(w) \/ Check(w) \/ Lock(w) \/ SendResult(w)
      PROVE  UNCHANGED Promise!vars
  BY <1>7, PromiseStutter DEF Running, Receive, Drained, Check, Lock, SendResult
<1> QED BY <1>1, <1>2, <1>3, <1>4, <1>5, <1>6, <1>7 DEF Next, Command, WorkerStep

\* http dir implements FanOut: it asks for each path at most once, lists each path whose
\* status is of interest once and no other, and reports before the timeout only when it has
\* asked for all of them.
THEOREM DirKeepsPromise == Spec => KeepsPromise
<1>1. Init => Promise!Init BY DEF Init, Promise!Init, Interest
<1> QED BY <1>1, TypeInit, TypeNext, PathInvInit, PathInvNext, ResponseInvInit, ResponseInvNext,
           ReadOnceInit, ReadOnceNext, PromiseNext, PTL DEF Spec, KeepsPromise, Promise!Spec

=============================================================================
