-------------------------- MODULE FanOutParameters --------------------------
(* The parameters of ListCommands, QueryCommands and SubdomainTree, and what is *)
(* assumed of them.                                                             *)
EXTENDS Integers, Sequences, FiniteSets, Ordering

CONSTANTS Lists,    \* brute, bulk, multi: lists a command may be given
          Threads,  \* their worker goroutines, when there are any
          Blank,    \* a line of the file of bulk that is empty or a comment
          NoJob,    \* what a worker without a job holds
          Queries,  \* resolvers, servers, providers or services to ask
          Level1,   \* level1 of recursive, prefixes of enum
          Below     \* level2 of recursive, the prefixes below a name that resolves

ASSUME ListsAssumption    == \A l \in Lists : l \in Seq({l[i] : i \in DOMAIN l})
ASSUME ThreadsAssumption  == IsFiniteSet(Threads) /\ Threads # {}
ASSUME NoJobAssumption    == NoJob \notin Nat
ASSUME QueriesAssumption  == IsFiniteSet(Queries) /\ Queries # {}
ASSUME PrefixesAssumption == Level1 \in Seq(STRING) /\ Below \in Seq(STRING)

=============================================================================
