------------------------------- MODULE Retry -------------------------------
(***************************************************************************)
(* The retry loops of pkg/utils: Retry and RetryWithResult of retry.go,    *)
(* which DoRetry calls with a context that is never done, and              *)
(* SubmitWithRetry of worker.go.  They differ in how the pause before the  *)
(* next attempt grows.                                                     *)
(* A definition marked MISTAKE is a wrong version of the one that follows. *)
(***************************************************************************)
EXTENDS UtilsParameters, Sequences, FiniteSetsExt

Loops == {"Retry", "DoRetry", "SubmitWithRetry"}

VARIABLES
  method, config,   \* the loop, and its RetryConfig (maxRetries and backoff of
                    \* SubmitWithRetry are MaxAttempts and InitialWait)
  attempt, wait,    \* the loop's variables
  pc,               \* "call", "pause", "done"
  cancelled,        \* ctx.Err() != nil
  outcome,          \* what the loop returns: "nil", "err" (of the last call), "ctx"
  pauses,           \* history: the pauses that were waited out
  calls             \* history: the outcomes of fn

loopState == <<attempt, wait, pc>>
params    == <<method, config>>
history   == <<pauses, calls>>
vars      == <<params, loopState, cancelled, outcome, history>>

Init == /\ method \in Loops
        /\ config \in Configs
        /\ attempt = 0
        /\ wait = config.InitialWait
        /\ pc = "call"
        /\ cancelled = FALSE
        /\ outcome = Unset
        /\ pauses = <<>> /\ calls = <<>>

Return(r) == pc' = "done" /\ outcome' = r

LastAttempt_OffByOne == attempt + 1 >= config.MaxAttempts   \* MISTAKE: < for <=
LastAttempt == attempt >= config.MaxAttempts

Succeed == /\ pc = "call"
           /\ calls' = Append(calls, "nil")
           /\ Return("nil")
           /\ UNCHANGED <<params, attempt, wait, cancelled, pauses>>

\* The error is returned after the last attempt, otherwise the loop pauses.
Fail == /\ pc = "call"
        /\ calls' = Append(calls, "err")
        /\ IF LastAttempt THEN Return("err") ELSE pc' = "pause" /\ UNCHANGED outcome
        /\ UNCHANGED <<params, attempt, wait, cancelled, pauses>>

Capped(w) == Min({w, config.MaxWait})

\* The pause after the next attempt of Retry, and of SubmitWithRetry.
Exponential == Capped(wait * config.Multiplier)
Linear      == config.InitialWait * (attempt + 2)
NextWait    == IF method = "SubmitWithRetry" THEN Linear ELSE Exponential

\* time.After fires; the select may prefer it to a context that is done as well.
Pause == /\ pc = "pause"
         /\ pauses' = Append(pauses, wait)
         /\ wait' = NextWait
         /\ attempt' = attempt + 1
         /\ pc' = "call"
         /\ UNCHANGED <<params, cancelled, outcome, calls>>

GiveUp == /\ pc = "pause"
          /\ cancelled
          /\ Return("ctx")
          /\ UNCHANGED <<params, attempt, wait, cancelled, history>>

Cancel == /\ ~cancelled
          /\ method # "DoRetry"
          /\ cancelled' = TRUE
          /\ UNCHANGED <<params, loopState, outcome, history>>

Running == pc # "done"
Next == Running /\ (Succeed \/ Fail \/ Pause \/ GiveUp \/ Cancel)

Spec == Init /\ [][Next]_vars

-----------------------------------------------------------------------------
\* What each variable holds.
TypeOK == /\ method \in Loops /\ config \in Configs
          /\ attempt \in 0 .. config.MaxAttempts /\ wait \in Nat
          /\ pc \in {"call", "pause", "done"} /\ cancelled \in BOOLEAN
          /\ outcome \in {Unset, "nil", "err", "ctx"}
          /\ pauses \in Seq(Nat) /\ calls \in Seq({"nil", "err"})

\* Powers(b)[n] is b to the power of n.
Powers(b) == LET power[n \in Nat] == IF n = 0 THEN 1 ELSE b * power[n - 1] IN power

\* The k-th pause of Retry by itself: exponential and capped, the first one excepted,
\* which is InitialWait even when that is more than MaxWait.
Expected(k) ==
  IF k = 1 THEN config.InitialWait
  ELSE Min({config.InitialWait * Powers(config.Multiplier)[k - 1], config.MaxWait})

\* A loop makes at most one call more than MaxAttempts and answers for its last call or
\* for its context; Retry pauses between two calls for the time the attempt deserves.
Outcomes ==
  /\ Len(calls) <= config.MaxAttempts + 1
  /\ method # "SubmitWithRetry" => \A k \in DOMAIN pauses : pauses[k] = Expected(k)
  /\ \A k \in DOMAIN calls : calls[k] = "nil" => k = Len(calls)
  /\ outcome \in {"nil", "err"} => outcome = calls[Len(calls)]
  /\ outcome = "err" => Len(calls) = config.MaxAttempts + 1
  /\ outcome = "ctx" => cancelled /\ Len(calls) = Len(pauses) + 1

=============================================================================
