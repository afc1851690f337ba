--------------------------- MODULE UtilsParameters ---------------------------
(* The parameters of the helpers of pkg/utils other than the pool, and what is *)
(* assumed of them.  Time is a count of ticks.                                 *)
EXTENDS Integers, FiniteSets

CONSTANTS Callers,   \* goroutines that use a limiter
          Burst,     \* RateLimiter: burst
          Rate,      \* SlidingWindowLimiter: rate
          Window,    \* SlidingWindowLimiter: window
          Poll,      \* SlidingWindowLimiter: the pause between two attempts of Wait
          MaxTime,   \* bound: the clock stops here
          Keys,      \* Cache: keys
          Values,    \* Cache: values
          TTLs,      \* Cache: times to live, and what NewCache may be given
          Configs,   \* Retry: records of the fields of RetryConfig
          Unset      \* no value

ASSUME BurstAssumption  == Burst \in Nat
ASSUME RateAssumption   == Rate \in Nat
ASSUME WindowAssumption == Window \in Nat
ASSUME PollAssumption   == Poll \in Nat
ASSUME TimeAssumption   == MaxTime \in Nat
ASSUME TTLsAssumption   == TTLs \subseteq Nat
ASSUME UnsetAssumption  == Unset \notin Values \cup {"nil", "err", "ctx"}
ASSUME ConfigAssumption ==
  Configs \subseteq [MaxAttempts : Nat, InitialWait : Nat, MaxWait : Nat, Multiplier : Nat]

=============================================================================
