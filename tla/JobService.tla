----------------------------- MODULE JobService -----------------------------
(***************************************************************************)
(* What pkg/utils/worker.go promises its callers, without its channels and *)
(* goroutines: a job the pool accepted is started at most once, nothing is *)
(* started that was not accepted, and nothing is accepted once the queue   *)
(* is closed.  WorkerPool implements this specification.                   *)
(***************************************************************************)
CONSTANT Jobs

VARIABLES accepted,  \* jobs for which Submit answered true
          started,   \* jobs some worker has begun to run
          closed     \* Shutdown has closed the queue

vars == <<accepted, started, closed>>

Init == /\ accepted = {}
        /\ started = {}
        /\ closed = FALSE

Accept(j) == /\ ~closed
             /\ j \notin accepted
             /\ accepted' = accepted \cup {j}
             /\ UNCHANGED <<started, closed>>

Run(j) == /\ j \in accepted \ started
          /\ started' = started \cup {j}
          /\ UNCHANGED <<accepted, closed>>

Close == /\ ~closed
         /\ closed' = TRUE
         /\ UNCHANGED <<accepted, started>>

Next == \/ \E j \in Jobs : Accept(j) \/ Run(j)
        \/ Close

Spec == Init /\ [][Next]_vars

=============================================================================
