---------------------------- MODULE SlidingWindow ----------------------------
(***************************************************************************)
(* SlidingWindowLimiter of pkg/utils/rate.go: the times of the requests    *)
(* granted within the last window, pruned by every Allow under the mutex.  *)
(* Callers call Wait over and over; Allow is its first half.               *)
(* A definition marked MISTAKE is a wrong version of the one that follows. *)
(***************************************************************************)
EXTENDS UtilsParameters, Sequences

VARIABLES
  now,        \* time.Now()
  requests,   \* swl.requests
  cpc,        \* each caller: "try", "sleep", "ctx"
  wakeAt,     \* when its time.After fires
  cancelled,  \* the callers whose context is done
  grants      \* history: when requests were granted

vars == <<now, requests, cpc, wakeAt, cancelled, grants>>

Init == /\ now = 0
        /\ requests = <<>>
        /\ cpc = [c \in Callers |-> "try"]
        /\ wakeAt = [c \in Callers |-> 0]
        /\ cancelled = {}
        /\ grants = <<>>

Goto(c, pc) == cpc' = [cpc EXCEPT ![c] = pc]

Recent_OffByOne(t) == t > now - Window + 1             \* MISTAKE: forgotten a tick early
Recent(t) == t > now - Window                          \* t.After(cutoff)

\* requests is in the order of time: what the loop leaves out comes first.
Forgotten == {i \in DOMAIN requests : ~Recent(requests[i])}
Valid == SubSeq(requests, Cardinality(Forgotten) + 1, Len(requests))

HasRoom_Closed == Len(Valid) < Rate - 1                \* MISTAKE: one too few
HasRoom == Len(Valid) < Rate

Grant(c) == /\ cpc[c] = "try"
            /\ HasRoom
            /\ requests' = Append(Valid, now)
            /\ grants' = Append(grants, now)
            /\ UNCHANGED <<now, cpc, wakeAt, cancelled>>

Deny(c) == /\ cpc[c] = "try"
           /\ ~HasRoom
           /\ requests' = Valid
           /\ wakeAt' = [wakeAt EXCEPT ![c] = now + Poll]
           /\ Goto(c, "sleep")
           /\ UNCHANGED <<now, cancelled, grants>>

Wake(c) == /\ cpc[c] = "sleep"
           /\ now >= wakeAt[c]
           /\ Goto(c, "try")
           /\ UNCHANGED <<now, requests, wakeAt, cancelled, grants>>

\* The context is looked at between two attempts only.
GiveUp(c) == /\ cpc[c] = "sleep"
             /\ c \in cancelled
             /\ Goto(c, "ctx")
             /\ UNCHANGED <<now, requests, wakeAt, cancelled, grants>>

Cancel(c) == /\ c \notin cancelled
             /\ cancelled' = cancelled \cup {c}
             /\ UNCHANGED <<now, requests, cpc, wakeAt, grants>>

Advance == /\ now < MaxTime
           /\ now' = now + 1
           /\ UNCHANGED <<requests, cpc, wakeAt, cancelled, grants>>

CallerStep(c) == Grant(c) \/ Deny(c) \/ Wake(c) \/ GiveUp(c)

Next == Advance \/ \E c \in Callers : CallerStep(c) \/ Cancel(c)

Spec == Init /\ [][Next]_vars

-----------------------------------------------------------------------------
\* What each variable holds; no more than rate times are kept.
TypeOK == /\ now \in 0 .. MaxTime
          /\ requests \in Seq(0 .. now) /\ Len(requests) <= Rate
          /\ cpc \in [Callers -> {"try", "sleep", "ctx"}]
          /\ wakeAt \in [Callers -> Nat]
          /\ cancelled \subseteq Callers
          /\ grants \in Seq(0 .. now)

\* Of any rate + 1 successive grants the first and the last are a window apart.
RateRespected ==
  \A i \in DOMAIN grants :
    i + Rate \in DOMAIN grants => grants[i + Rate] - grants[i] >= Window

\* A request is refused only while rate grants lie within the last window.
LastWindow == {i \in DOMAIN grants : grants[i] > now - Window}
DenialJustified(c) ==
  cpc[c] = "try" /\ cpc'[c] = "sleep" => Cardinality(LastWindow) = Rate
DenialsJustified == [][\A c \in Callers : DenialJustified(c)]_vars

=============================================================================
