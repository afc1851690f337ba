----------------------------- MODULE RateLimiter -----------------------------
(***************************************************************************)
(* RateLimiter of pkg/utils/rate.go: a bucket of tokens, a goroutine that  *)
(* fills it at every tick of a ticker, and callers of Allow, Wait and      *)
(* WaitN.  Each caller makes one call; what lies between Lock and Unlock   *)
(* is one step.                                                            *)
(* A definition marked MISTAKE is a wrong version of the one that follows. *)
(***************************************************************************)
EXTENDS UtilsParameters

VARIABLES
  tokens,          \* rl.tokens
  ticked,          \* ticker.C, of capacity 1, holds a tick
  loop,            \* refillLoop: "select", "refill", "done"
  stopped,         \* rl.ctx is cancelled
  cpc,             \* each caller: "allow", "try", "sleep", "nil", "refused", "ctx", "stopped"
  need,            \* tokens its call has still to take
  cancelled,       \* the callers whose context is cancelled
  sinceRefill      \* history: tokens granted since the bucket was last filled

bucket  == <<tokens, sinceRefill>>
refill  == <<ticked, loop>>
callers == <<cpc, need>>
vars    == <<bucket, refill, stopped, callers, cancelled>>

Init == /\ tokens = Burst /\ sinceRefill = 0
        /\ ticked = FALSE /\ loop = "select"
        /\ stopped = FALSE
        /\ cpc \in [Callers -> {"allow", "try"}]
        /\ need \in [Callers -> {1, 2}]              \* WaitN; Wait is WaitN of 1
        /\ \A c \in Callers : cpc[c] = "allow" => need[c] = 1
        /\ cancelled = {}

Goto(c, pc) == cpc' = [cpc EXCEPT ![c] = pc]

-----------------------------------------------------------------------------
(* refillLoop *)

\* A tick that finds ticker.C full is dropped.
Tick == /\ loop # "done"
        /\ ticked' = TRUE
        /\ UNCHANGED <<bucket, loop, stopped, callers, cancelled>>

TakeTick == /\ loop = "select"
            /\ ticked
            /\ ticked' = FALSE
            /\ loop' = "refill"
            /\ UNCHANGED <<bucket, stopped, callers, cancelled>>

Filled_Adding == tokens + Burst                        \* MISTAKE: += burst
Filled == Burst

Refill == /\ loop = "refill"
          /\ tokens' = Filled
          /\ sinceRefill' = 0
          /\ loop' = "select"
          /\ UNCHANGED <<ticked, stopped, callers, cancelled>>

LoopEnd == /\ loop = "select"
           /\ stopped
           /\ loop' = "done"
           /\ UNCHANGED <<bucket, ticked, stopped, callers, cancelled>>

-----------------------------------------------------------------------------
(* Callers *)

HasToken_AtZero == tokens >= 0                         \* MISTAKE: >= for >
HasToken == tokens > 0

TakeToken == /\ HasToken
             /\ tokens' = tokens - 1
             /\ sinceRefill' = sinceRefill + 1

Allow(c) == /\ cpc[c] = "allow"
            /\ \/ TakeToken /\ Goto(c, "nil")
               \/ ~HasToken /\ UNCHANGED bucket /\ Goto(c, "refused")
            /\ UNCHANGED <<refill, stopped, need, cancelled>>

Take(c) == /\ cpc[c] = "try"
           /\ TakeToken
           /\ need' = [need EXCEPT ![c] = @ - 1]
           /\ Goto(c, IF need[c] = 1 THEN "nil" ELSE "try")
           /\ UNCHANGED <<refill, stopped, cancelled>>

Sleep(c) == /\ cpc[c] = "try"
            /\ ~HasToken
            /\ Goto(c, "sleep")
            /\ UNCHANGED <<bucket, refill, stopped, need, cancelled>>

Wake(c) == /\ cpc[c] = "sleep"
           /\ Goto(c, "try")
           /\ UNCHANGED <<bucket, refill, stopped, need, cancelled>>

Done_ContextOnly(c) == c \in cancelled                 \* MISTAKE: no case <-rl.ctx.Done()
Done(c) == c \in cancelled \/ stopped

\* The tokens that WaitN has taken by then are not given back.
GiveUp(c) == /\ cpc[c] = "sleep"
             /\ Done(c)
             /\ \/ c \in cancelled /\ Goto(c, "ctx")
                \/ stopped /\ Goto(c, "stopped")
             /\ UNCHANGED <<bucket, refill, stopped, need, cancelled>>

-----------------------------------------------------------------------------
Cancel(c) == /\ c \notin cancelled
             /\ cancelled' = cancelled \cup {c}
             /\ UNCHANGED <<bucket, refill, stopped, callers>>

Stop == /\ ~stopped
        /\ stopped' = TRUE
        /\ UNCHANGED <<bucket, refill, callers, cancelled>>

Refiller      == TakeTick \/ Refill \/ LoopEnd
CallerStep(c) == Allow(c) \/ Take(c) \/ Sleep(c) \/ Wake(c) \/ GiveUp(c)

Next == \/ Tick \/ Refiller \/ Stop
        \/ \E c \in Callers : CallerStep(c) \/ Cancel(c)

Spec == Init /\ [][Next]_vars

-----------------------------------------------------------------------------
\* What each variable holds; tokens are whole and never negative.
TypeOK == /\ tokens \in 0 .. Burst /\ sinceRefill \in Nat
          /\ ticked \in BOOLEAN /\ stopped \in BOOLEAN
          /\ loop \in {"select", "refill", "done"}
          /\ cpc \in [Callers -> {"allow", "try", "sleep", "nil", "refused", "ctx", "stopped"}]
          /\ need \in [Callers -> 0 .. 2]
          /\ cancelled \subseteq Callers

\* Between two refills no more than burst tokens are granted, to all callers together.
TokensAccounted == tokens + sinceRefill = Burst

\* A call of Wait or WaitN returns: with its tokens, or because its context or the
\* limiter is done.
Waiting(c)  == cpc[c] = "try"
Returned(c) == cpc[c] \in {"nil", "ctx", "stopped"}
WaitReturns == \A c \in Callers : Waiting(c) ~> Returned(c)

=============================================================================
