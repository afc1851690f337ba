------------------------------- MODULE FanOut -------------------------------
(***************************************************************************)
(* What every fan-out command of cmd/cli promises, without its goroutines  *)
(* and channels: each item is probed at most once, the report names each   *)
(* item whose probe succeeded once and no other, and it is printed only    *)
(* when every item has been probed or the context was cancelled.           *)
(***************************************************************************)
VARIABLES items,      \* what there is to probe, never changed
          probed,     \* items whose probe has an answer
          hits,       \* those whose probe succeeded
          cancelled,  \* the command's context is done
          reported,   \* the report is printed
          report      \* how often it names each item

vars == <<items, probed, hits, cancelled, reported, report>>

Init == /\ probed = {}
        /\ hits = {}
        /\ cancelled = FALSE
        /\ reported = FALSE
        /\ report = [i \in items |-> 0]

Probe(i) == /\ ~reported
            /\ i \in items \ probed
            /\ probed' = probed \cup {i}
            /\ hits' \in {hits, hits \cup {i}}
            /\ UNCHANGED <<items, cancelled, reported, report>>

Cancel == /\ ~cancelled
          /\ cancelled' = TRUE
          /\ UNCHANGED <<items, probed, hits, reported, report>>

Report == /\ ~reported
          /\ cancelled \/ probed = items
          /\ reported' = TRUE
          /\ report' = [i \in items |-> IF i \in hits THEN 1 ELSE 0]
          /\ UNCHANGED <<items, probed, hits, cancelled>>

Next == (\E i \in items : Probe(i)) \/ Cancel \/ Report

Spec == Init /\ [][Next]_vars

=============================================================================
