------------------------------ MODULE MCUtils ------------------------------
(***************************************************************************)
(* Instances of the helpers of pkg/utils for TLC.  They are independent of *)
(* each other, so one run explores them one by one: subject is the helper  *)
(* that takes the steps, and the variables of the others keep Unset.       *)
(***************************************************************************)
EXTENDS UtilsParameters, Sequences, TLC

CONSTANTS c1, c2, k1, k2, v1, v2,
          CacheTime   \* bound: the clock of the cache stops here

ASSUME CacheTimeAssumption == CacheTime \in Nat

VARIABLES subject,
  tokens, ticked, loop, stopped, cpc, need, cancelled, sinceRefill,
  now, requests, wakeAt, grants,
  defaultTTL, items, stopCleanup, answer, asked, panicked,
  method, config, attempt, wait, pc, outcome, pauses, calls

Limiter == INSTANCE RateLimiter
Sliding == INSTANCE SlidingWindow
Store   == INSTANCE Cache WITH MaxTime <- CacheTime
Loop    == INSTANCE Retry

\* The variables some helper has to itself, and those shared by name.
ofLimiter == <<tokens, ticked, stopped, need, sinceRefill>>
ofSliding == <<requests, wakeAt, grants>>
ofStore   == <<defaultTTL, items, stopCleanup, answer, asked, panicked>>
ofRetry   == <<method, config, attempt, wait, pc, outcome, pauses, calls>>
vars == <<subject, ofLimiter, ofSliding, ofStore, ofRetry, loop, cpc, cancelled, now>>

NoLimiter == tokens = Unset /\ ticked = Unset /\ stopped = Unset /\ need = Unset
             /\ sinceRefill = Unset
NoSliding == requests = Unset /\ wakeAt = Unset /\ grants = Unset
NoStore   == defaultTTL = Unset /\ items = Unset /\ stopCleanup = Unset
             /\ answer = Unset /\ asked = Unset /\ panicked = Unset
NoRetry   == method = Unset /\ config = Unset /\ attempt = Unset /\ wait = Unset
             /\ pc = Unset /\ outcome = Unset /\ pauses = Unset /\ calls = Unset

Init ==
  \/ /\ subject = "limiter" /\ Limiter!Init /\ now = Unset
     /\ NoSliding /\ NoStore /\ NoRetry
  \/ /\ subject = "sliding" /\ Sliding!Init /\ loop = Unset
     /\ NoLimiter /\ NoStore /\ NoRetry
  \/ /\ subject = "cache" /\ Store!Init /\ cpc = Unset /\ cancelled = Unset
     /\ NoLimiter /\ NoSliding /\ NoRetry
  \/ /\ subject = "retry" /\ Loop!Init /\ loop = Unset /\ cpc = Unset /\ now = Unset
     /\ NoLimiter /\ NoSliding /\ NoStore

Is(s) == subject = s /\ UNCHANGED subject
OfLimiter(A) == Is("limiter") /\ A /\ UNCHANGED <<ofSliding, ofStore, ofRetry, now>>
OfSliding(A) == Is("sliding") /\ A /\ UNCHANGED <<ofLimiter, ofStore, ofRetry, loop>>
OfStore(A)   == Is("cache") /\ A
                /\ UNCHANGED <<ofLimiter, ofSliding, ofRetry, cpc, cancelled>>
OfRetry(A)   == Is("retry") /\ A
                /\ UNCHANGED <<ofLimiter, ofSliding, ofStore, loop, cpc, now>>

Next == \/ OfLimiter(Limiter!Next) \/ OfSliding(Sliding!Next)
        \/ OfStore(Store!Next) \/ OfRetry(Loop!Next)

\* The limiter's ticker ticks and its goroutine and callers run; a select whose
\* context stays done takes that case some time, since it chooses at random.
\* The ticker of the cache ticks, too.
Fairness == /\ WF_vars(OfLimiter(Limiter!Tick)) /\ WF_vars(OfLimiter(Limiter!Refiller))
            /\ \A c \in Callers : /\ WF_vars(OfLimiter(Limiter!CallerStep(c)))
                                  /\ SF_vars(OfLimiter(Limiter!GiveUp(c)))
            /\ WF_vars(OfStore(Store!Alive /\ Store!CleanupStart))
            /\ WF_vars(OfStore(Store!Alive /\ Store!CleanupPanic))
            /\ WF_vars(OfStore(Store!Alive /\ Store!Cleanup))

Spec == Init /\ [][Next]_vars /\ Fairness

-----------------------------------------------------------------------------
\* Each helper's type invariant and safety properties.
TypeOK == /\ subject = "limiter" => Limiter!TypeOK
          /\ subject = "sliding" => Sliding!TypeOK
          /\ subject = "cache"   => Store!TypeOK
          /\ subject = "retry"   => Loop!TypeOK

\* RateLimiter: between two refills no more than burst tokens are granted.
TokensAccounted == subject = "limiter" => Limiter!TokensAccounted

\* SlidingWindowLimiter: of any rate + 1 successive grants the first and the last
\* are a window apart, and nobody is refused without need.
RateRespected == subject = "sliding" => Sliding!RateRespected
DenialsJustified ==
  [][\A c \in Callers : subject = "sliding" => Sliding!DenialJustified(c)]_vars

\* Retry: bounded calls, the pauses the configuration asks for, the right answer.
Outcomes == subject = "retry" => Loop!Outcomes

\* Cache: to its callers a map whose entries expire at their time, and count until they
\* are removed.
Map == INSTANCE TTLMap
       WITH MaxTime <- CacheTime,
            now    <- IF subject = "cache" THEN now ELSE 0,
            live   <- IF subject = "cache" THEN Store!Live ELSE <<>>,
            dead   <- IF subject = "cache" THEN Store!Dead ELSE {},
            answer <- IF subject = "cache" THEN answer ELSE Unset,
            asked  <- IF subject = "cache" THEN asked ELSE FALSE
ImplementsTTLMap == Map!Spec

\* RateLimiter: Wait and WaitN return.
WaitReturns ==
  \A c \in Callers : (subject = "limiter" /\ Limiter!Waiting(c))
                       ~> (subject = "limiter" /\ Limiter!Returned(c))

\* Cache: until it is stopped an expired entry is removed or set anew.
ExpiredLeave ==
  \A k \in Keys : (subject = "cache" /\ Store!Stale(k))
                    ~> (subject = "cache" /\ Store!Leaves(k))

TwoCallers == {c1, c2}
TwoKeys    == {k1, k2}
TwoValues  == {v1, v2}
ThreeTTLs  == 0 .. 2
SomeConfigs == [MaxAttempts : {0, 1, 3}, InitialWait : {1, 3}, MaxWait : {2, 5},
                Multiplier : {2, 3}]
=============================================================================
