----------------------------- MODULE MCFanOuts -----------------------------
(***************************************************************************)
(* Instances of the remaining commands with goroutines for TLC.  A run of  *)
(* the program executes one command, so the initial states pick one, and   *)
(* the variables the other commands have to themselves keep Unset.         *)
(***************************************************************************)
EXTENDS FanOutParameters, TLC

CONSTANTS Unset, w1, w2, q1, q2, q3

VARIABLES
  cmd, cancelled, reported,
  targets, workers, queue, closed, fed, wpc, held, conns, results, resultsClosed, found,
  probed, hits,
  asking, answers, answersClosed, taken, raw, outcome,
  todo, busy, names, looked

List  == INSTANCE ListCommands
Query == INSTANCE QueryCommands
Tree  == INSTANCE SubdomainTree

ofList  == <<targets, workers, queue, closed, fed, wpc, held, conns, results, resultsClosed,
             found, probed, hits>>
ofQuery == <<asking, answers, answersClosed, taken, raw, outcome>>
ofTree  == <<todo, busy, names, looked>>
vars    == <<cmd, cancelled, reported, ofList, ofQuery, ofTree>>

NoList == /\ targets = Unset /\ workers = Unset /\ queue = Unset /\ closed = Unset
          /\ fed = Unset /\ wpc = Unset /\ held = Unset /\ conns = Unset
          /\ results = Unset /\ resultsClosed = Unset /\ found = Unset
          /\ probed = Unset /\ hits = Unset
NoQuery == /\ asking = Unset /\ answers = Unset /\ answersClosed = Unset
           /\ taken = Unset /\ raw = Unset /\ outcome = Unset
NoTree == todo = Unset /\ busy = Unset /\ names = Unset /\ looked = Unset

ListCmd  == cmd \in {"brute", "bulk", "multi"}
QueryCmd == cmd \in {"resolver", "whois", "providers", "version"}
TreeCmd  == cmd \in {"recursive", "enum"}

Init == \/ List!Init /\ NoQuery /\ NoTree
        \/ Query!Init /\ NoList /\ NoTree /\ reported = Unset
        \/ Tree!Init /\ NoList /\ NoQuery

OfList(A)  == ListCmd /\ A /\ UNCHANGED <<ofQuery, ofTree>>
OfQuery(A) == QueryCmd /\ A /\ UNCHANGED <<ofList, ofTree, reported>>
OfTree(A)  == TreeCmd /\ A /\ UNCHANGED <<ofList, ofQuery>>

Next == OfList(List!Next) \/ OfQuery(Query!Next) \/ OfTree(Tree!Next)

\* Every goroutine that can run does, and every dial, request and lookup ends: they
\* have timeouts.  No cancel is assumed.
ListRun(A)  == OfList(~reported /\ A)
QueryRun(A) == OfQuery(outcome = "" /\ A)
TreeRun(A)  == OfTree(~reported /\ A)
Fairness ==
  /\ WF_vars(ListRun(List!Feeder)) /\ WF_vars(ListRun(List!CloseResults))
  /\ WF_vars(ListRun(List!Collect \/ List!Finish))
  /\ \A w \in Threads : WF_vars(ListRun(w \in workers /\ List!WorkerStep(w)))
  /\ \A q \in Queries : WF_vars(QueryRun(Query!Ask(q)))
  /\ WF_vars(QueryRun(Query!CloseAnswers)) /\ WF_vars(QueryRun(Query!Command))
  /\ \A g \in 1 .. 2 : WF_vars(TreeRun(g \in DOMAIN todo /\ Tree!Lookups(g)))
  /\ WF_vars(TreeRun(Tree!Report))

Spec == Init /\ [][Next]_vars /\ Fairness

-----------------------------------------------------------------------------
\* Each command's type invariant.
TypeOK == /\ ListCmd => List!TypeOK
          /\ QueryCmd => Query!TypeOK
          /\ TreeCmd => Tree!TypeOK

\* brute, bulk, multi: each place looked up and reported once, by bulk every line.
ListAnswered == ListCmd => List!ListAnswered

\* resolver, whois, providers, version: the outcome is what the answers justify.
AnswersJustified == QueryCmd => Query!AnswersJustified

\* recursive and enum: the names reported are a tree, and complete but for a cancel.
TreeComplete == TreeCmd => Tree!TreeComplete

\* brute, bulk and multi with a worker at least refine FanOut.
Fans == ListCmd /\ workers # {}
Promise == INSTANCE FanOut
  WITH items <- IF Fans THEN List!Jobs ELSE {},
       probed <- IF Fans THEN probed ELSE {},
       hits <- IF Fans THEN hits ELSE {},
       cancelled <- Fans /\ cancelled,
       reported <- Fans /\ reported,
       report <- IF Fans THEN List!Report ELSE [i \in {} |-> 0]
KeepsListPromise == Promise!Spec

\* Whatever fails, is cancelled or finds no worker, each of the commands returns.
CommandsEnd == <>(IF QueryCmd THEN outcome # "" ELSE reported)

TwoThreads   == {w1, w2}
ThreeQueries == {q1, q2, q3}
\* A prefix that comes twice, a comment, a list without a port.
SomeLists    == {<<>>, <<"a", "b", "a">>, <<"a", Blank, "b">>}
TwoNames     == <<"www", "api">>
=============================================================================
