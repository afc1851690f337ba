----------------------------- MODULE UtilsProofs -----------------------------
(***************************************************************************)
(* Theorems about RateLimiter, SlidingWindow, Cache and Retry, and about   *)
(* the helpers as MCUtils explores them, for every value of their          *)
(* parameters and any callers, keys, values and retry configurations.      *)
(***************************************************************************)
EXTENDS MCUtils, DataFacts, FiniteSetTheorems, TLAPS

-----------------------------------------------------------------------------
(* RateLimiter *)

PC == {"allow", "try", "sleep", "nil", "refused", "ctx", "stopped"}

\* A caller that still waits has a token to take.
Needy == \A c \in Callers : cpc[c] \in {"try", "sleep"} => need[c] \in 1 .. 2
LimiterInv == Limiter!TypeOK /\ Limiter!TokensAccounted /\ Needy

LEMMA LimiterInit == Limiter!Init => LimiterInv
<1> SUFFICES ASSUME Limiter!Init PROVE LimiterInv OBVIOUS
<1>1. tokens = Burst /\ sinceRefill = 0 BY DEF Limiter!Init
<1>2. Limiter!TokensAccounted BY <1>1, BurstAssumption DEF Limiter!TokensAccounted
<1>3. Limiter!TypeOK
  <2>1. tokens \in 0 .. Burst /\ sinceRefill \in Nat BY <1>1, BurstAssumption
  <2>2. need \in [Callers -> 0 .. 2] BY DEF Limiter!Init
  <2>3. cpc \in [Callers -> PC] BY DEF Limiter!Init, PC
  <2> QED BY <2>1, <2>2, <2>3 DEF Limiter!Init, Limiter!TypeOK, PC
<1>4. Needy BY DEF Limiter!Init, Needy
<1> QED BY <1>2, <1>3, <1>4 DEF LimiterInv

LEMMA LimiterNext == LimiterInv /\ [Limiter!Next]_(Limiter!vars) => LimiterInv'
<1> SUFFICES ASSUME LimiterInv, [Limiter!Next]_(Limiter!vars) PROVE LimiterInv' OBVIOUS
<1> USE BurstAssumption DEF LimiterInv, Limiter!TypeOK, Limiter!TokensAccounted, Needy,
        Limiter!bucket, Limiter!refill, Limiter!callers, Limiter!Goto
<1>1. CASE Limiter!Tick BY <1>1 DEF Limiter!Tick
<1>2. CASE Limiter!Refiller
  <2>1. CASE Limiter!TakeTick \/ Limiter!LoopEnd
    BY <2>1 DEF Limiter!TakeTick, Limiter!LoopEnd
  <2>2. CASE Limiter!Refill
    <3>1. tokens' \in 0 .. Burst /\ sinceRefill' \in Nat /\ tokens' + sinceRefill' = Burst
      BY <2>2 DEF Limiter!Refill, Limiter!Filled
    <3> QED BY <2>2, <3>1 DEF Limiter!Refill
  <2> QED BY <1>2, <2>1, <2>2 DEF Limiter!Refiller
<1>3. CASE Limiter!Stop BY <1>3 DEF Limiter!Stop
<1>4. ASSUME NEW c \in Callers, Limiter!Allow(c) PROVE LimiterInv'
  <2>1. CASE Limiter!TakeToken /\ Limiter!Goto(c, "nil")
    BY <1>4, <2>1 DEF Limiter!Allow, Limiter!TakeToken, Limiter!HasToken
  <2>2. CASE UNCHANGED Limiter!bucket /\ Limiter!Goto(c, "refused")
    BY <1>4, <2>2 DEF Limiter!Allow
  <2> QED BY <1>4, <2>1, <2>2 DEF Limiter!Allow
<1>5. ASSUME NEW c \in Callers, Limiter!Take(c) PROVE LimiterInv'
  BY <1>5 DEF Limiter!Take, Limiter!TakeToken, Limiter!HasToken
<1>6. ASSUME NEW c \in Callers, Limiter!Sleep(c) \/ Limiter!Wake(c) \/ Limiter!GiveUp(c)
      PROVE  LimiterInv'
  BY <1>6 DEF Limiter!Sleep, Limiter!Wake, Limiter!GiveUp
<1>7. ASSUME NEW c \in Callers, Limiter!Cancel(c) PROVE LimiterInv'
  BY <1>7 DEF Limiter!Cancel
<1>8. CASE UNCHANGED Limiter!vars BY <1>8 DEF Limiter!vars
<1> QED BY <1>1, <1>2, <1>3, <1>4, <1>5, <1>6, <1>7, <1>8 DEF Limiter!Next, Limiter!CallerStep

LEMMA LimiterInvariant == Limiter!Spec => []LimiterInv
BY LimiterInit, LimiterNext, PTL DEF Limiter!Spec

\* Every variable keeps its type, and the tokens never fall below 0.
THEOREM LimiterTypeCorrect == Limiter!Spec => []Limiter!TypeOK
<1>1. LimiterInv => Limiter!TypeOK BY DEF LimiterInv
<1> QED BY LimiterInvariant, <1>1, PTL

\* However Allow, Wait and WaitN interleave with the refills, what is granted between
\* two refills never exceeds burst.
THEOREM LimiterBurstRespected == Limiter!Spec => []Limiter!TokensAccounted
<1>1. LimiterInv => Limiter!TokensAccounted BY DEF LimiterInv
<1> QED BY LimiterInvariant, <1>1, PTL

-----------------------------------------------------------------------------
(* SlidingWindow *)

SlidingType == /\ now \in 0 .. MaxTime
               /\ requests \in Seq(Nat) /\ grants \in Seq(Nat)
               /\ cpc \in [Callers -> {"try", "sleep", "ctx"}]
               /\ wakeAt \in [Callers -> Nat]
               /\ cancelled \subseteq Callers

\* Grants are in the order of time.
InOrder == /\ \A i \in DOMAIN grants : grants[i] <= now
           /\ \A i, j \in DOMAIN grants : i <= j => grants[i] <= grants[j]

\* requests holds the last rate grants at most, and those it does not hold are a window old.
Before == Len(grants) - Len(requests)
LastGrants == /\ Len(requests) <= Rate /\ Len(requests) <= Len(grants)
              /\ \A i \in DOMAIN requests : requests[i] = grants[Before + i]
              /\ \A i \in DOMAIN grants : i <= Before => grants[i] <= now - Window

SlidingInv == SlidingType /\ InOrder /\ LastGrants /\ Sliding!RateRespected

LEMMA SlidingLengths ==
  ASSUME SlidingType
  PROVE  /\ Len(requests) \in Nat /\ Len(grants) \in Nat /\ now \in Nat
         /\ DOMAIN requests = 1 .. Len(requests) /\ DOMAIN grants = 1 .. Len(grants)
         /\ \A i \in DOMAIN requests : requests[i] \in Nat
         /\ \A i \in DOMAIN grants : grants[i] \in Nat
         /\ Rate \in Nat /\ Window \in Nat
BY RateAssumption, WindowAssumption, TimeAssumption DEF SlidingType

\* The module has its own copy of the operators of FiniteSets.
LEMMA SameCardinality == \A S : Sliding!Cardinality(S) = Cardinality(S)
BY DEF Sliding!Cardinality, Cardinality

LEMMA SuffixFacts ==
  ASSUME NEW S, NEW s \in Seq(S), NEW k \in 0 .. Len(s)
  PROVE  /\ SubSeq(s, k + 1, Len(s)) \in Seq(S)
         /\ Len(SubSeq(s, k + 1, Len(s))) = Len(s) - k
         /\ DOMAIN SubSeq(s, k + 1, Len(s)) = 1 .. Len(s) - k
         /\ \A i \in 1 .. Len(s) - k : SubSeq(s, k + 1, Len(s))[i] = s[k + i]
OBVIOUS

\* What an Allow keeps of requests: the times after the last one that is a window old.
LEMMA ValidFacts ==
  ASSUME SlidingInv
  PROVE  \E k \in 0 .. Len(requests) :
           /\ Sliding!Valid = SubSeq(requests, k + 1, Len(requests))
           /\ \A i \in 1 .. k : requests[i] <= now - Window
           /\ \A i \in k + 1 .. Len(requests) : requests[i] > now - Window
<1> USE DEF SlidingInv
<1>1. /\ Len(requests) \in Nat /\ Len(grants) \in Nat /\ now \in Nat /\ Window \in Nat
      /\ DOMAIN requests = 1 .. Len(requests) /\ DOMAIN grants = 1 .. Len(grants)
      /\ \A i \in DOMAIN requests : requests[i] \in Nat
  BY SlidingLengths
<1> DEFINE L == Len(requests)
           T == {m \in 1 .. L + 1 : \A i \in m .. L : requests[i] > now - Window}
<1>2. L + 1 \in T /\ T \in SUBSET Nat BY <1>1
<1>3. PICK m \in T : \A x \in T : m <= x BY <1>2, LeastElement
<1>4. /\ m \in 1 .. L + 1 /\ \A i \in m .. L : requests[i] > now - Window
      /\ m - 1 \notin T
  <2>1. m \in T /\ ~(m <= m - 1) BY <1>1
  <2> QED BY <1>3, <2>1
<1>5. \A i, j \in DOMAIN requests : i <= j => requests[i] <= requests[j]
  <2> SUFFICES ASSUME NEW i \in DOMAIN requests, NEW j \in DOMAIN requests, i <= j
               PROVE  requests[i] <= requests[j]
    OBVIOUS
  <2>1. Before + i \in DOMAIN grants /\ Before + j \in DOMAIN grants /\ Before + i <= Before + j
    BY <1>1 DEF Before, LastGrants
  <2>2. requests[i] = grants[Before + i] /\ requests[j] = grants[Before + j] BY DEF LastGrants
  <2> QED BY <2>1, <2>2 DEF InOrder
<1>6. ASSUME NEW i \in 1 .. m - 1 PROVE requests[i] <= now - Window
  <2>1. m - 1 \in 1 .. L /\ i <= m - 1 BY <1>1, <1>4, <1>6
  <2>2. ~(requests[m - 1] > now - Window)
    <3> SUFFICES ASSUME requests[m - 1] > now - Window PROVE FALSE OBVIOUS
    <3>1. \A x \in m - 1 .. L : x = m - 1 \/ x \in m .. L BY <1>1, <1>4
    <3>2. m - 1 \in T BY <1>1, <1>4, <2>1, <3>1
    <3> QED BY <1>4, <3>2
  <2>3. i \in DOMAIN requests /\ m - 1 \in DOMAIN requests BY <1>1, <1>4, <2>1
  <2> QED BY <1>1, <1>5, <2>1, <2>2, <2>3
<1>7. Sliding!Forgotten = 1 .. m - 1
  <2>1. \A i \in DOMAIN requests : ~Sliding!Recent(requests[i]) <=> i <= m - 1
    <3> SUFFICES ASSUME NEW i \in DOMAIN requests
                 PROVE  ~Sliding!Recent(requests[i]) <=> i <= m - 1
      OBVIOUS
    <3>1. CASE i <= m - 1 BY <1>1, <1>4, <1>6, <3>1 DEF Sliding!Recent
    <3>2. CASE ~(i <= m - 1) BY <1>1, <1>4, <3>2 DEF Sliding!Recent
    <3> QED BY <3>1, <3>2
  <2>2. 1 .. m - 1 \subseteq DOMAIN requests BY <1>1, <1>4
  <2> QED BY <1>1, <1>4, <2>1, <2>2 DEF Sliding!Forgotten
<1>8. Cardinality(Sliding!Forgotten) = m - 1
  <2>1. 1 \in Int /\ m - 1 \in Int /\ ((1 > m - 1) => m - 1 = 0) BY <1>1, <1>4
  <2> QED BY <1>7, <2>1, FS_Interval
<1>9. Sliding!Valid = SubSeq(requests, (m - 1) + 1, L)
  <2>1. Sliding!Valid = SubSeq(requests, Cardinality(Sliding!Forgotten) + 1, L)
    BY SameCardinality DEF Sliding!Valid
  <2> QED BY <1>8, <2>1
<1>10. m - 1 \in 0 .. L /\ (m - 1) + 1 = m BY <1>1, <1>4
<1> QED BY <1>4, <1>6, <1>9, <1>10

\* The times kept are the last grants, and all that lie within the last window.
LEMMA KeptFacts ==
  ASSUME SlidingInv
  PROVE  /\ Sliding!Valid \in Seq(Nat) /\ Len(Sliding!Valid) <= Len(requests)
         /\ \A i \in DOMAIN Sliding!Valid :
              Sliding!Valid[i] = grants[Len(grants) - Len(Sliding!Valid) + i]
         /\ \A i \in DOMAIN grants : i <= Len(grants) - Len(Sliding!Valid)
                                       => grants[i] <= now - Window
         /\ \A i \in DOMAIN grants : i > Len(grants) - Len(Sliding!Valid)
                                       => grants[i] > now - Window
<1> USE DEF SlidingInv
<1>1. /\ Len(requests) \in Nat /\ Len(grants) \in Nat /\ now \in Nat /\ Window \in Nat
      /\ DOMAIN requests = 1 .. Len(requests) /\ DOMAIN grants = 1 .. Len(grants)
      /\ requests \in Seq(Nat)
  BY SlidingLengths DEF SlidingType
<1>2. PICK k \in 0 .. Len(requests) :
        /\ Sliding!Valid = SubSeq(requests, k + 1, Len(requests))
        /\ \A i \in 1 .. k : requests[i] <= now - Window
        /\ \A i \in k + 1 .. Len(requests) : requests[i] > now - Window
  BY ValidFacts
<1> DEFINE v == Sliding!Valid
<1>3. /\ v \in Seq(Nat) /\ Len(v) = Len(requests) - k /\ DOMAIN v = 1 .. Len(requests) - k
      /\ \A i \in 1 .. Len(requests) - k : v[i] = requests[k + i]
  BY <1>1, <1>2, SuffixFacts
<1> HIDE DEF v
<1>4. Len(grants) - Len(v) = Before + k BY <1>1, <1>3 DEF Before
<1>5. \A i \in DOMAIN requests : requests[i] = grants[Before + i] BY DEF LastGrants
<1>6. ASSUME NEW i \in DOMAIN v PROVE v[i] = grants[Len(grants) - Len(v) + i]
  <2>1. i \in 1 .. Len(requests) - k BY <1>3
  <2>2. k + i \in DOMAIN requests BY <1>1, <1>2, <2>1
  <2>3. Before + (k + i) = Before + k + i BY <1>1, <1>2, <2>1 DEF Before
  <2> QED BY <1>3, <1>4, <1>5, <2>1, <2>2, <2>3
<1>7. Before \in Nat BY <1>1 DEF Before, LastGrants
<1>8. ASSUME NEW i \in DOMAIN grants
      PROVE  IF i <= Before + k THEN grants[i] <= now - Window ELSE grants[i] > now - Window
  <2>1. CASE i <= Before BY <1>1, <1>7, <2>1 DEF LastGrants
  <2>2. CASE ~(i <= Before)
    <3>1. i - Before \in DOMAIN requests /\ Before + (i - Before) = i BY <1>1, <1>7, <2>2 DEF Before
    <3>2. requests[i - Before] = grants[i] BY <1>5, <3>1
    <3>3. CASE i <= Before + k
      <4>1. i - Before \in 1 .. k BY <1>1, <1>7, <3>1, <3>3
      <4> QED BY <1>2, <3>2, <3>3, <4>1
    <3>4. CASE ~(i <= Before + k)
      <4>1. i - Before \in k + 1 .. Len(requests) BY <1>1, <1>7, <3>1, <3>4
      <4> QED BY <1>2, <3>2, <3>4, <4>1
    <3> QED BY <3>3, <3>4
  <2> QED BY <2>1, <2>2
<1>9. Len(v) <= Len(requests) BY <1>1, <1>3
<1>10. \A i \in DOMAIN grants : i > Before + k => ~(i <= Before + k) BY <1>1, <1>7
<1> QED BY <1>3, <1>4, <1>6, <1>8, <1>9, <1>10 DEF v

LEMMA SlidingInvInit == Sliding!Init => SlidingInv
<1> SUFFICES ASSUME Sliding!Init PROVE SlidingInv OBVIOUS
<1>1. requests = <<>> /\ grants = <<>> /\ now = 0 BY DEF Sliding!Init
<1>2. /\ DOMAIN requests = {} /\ DOMAIN grants = {} /\ Len(requests) = 0 /\ Len(grants) = 0
      /\ requests \in Seq(Nat) /\ grants \in Seq(Nat)
  BY ONLY <1>1
<1>3. SlidingType BY <1>1, <1>2, TimeAssumption DEF Sliding!Init, SlidingType
<1>4. InOrder /\ LastGrants /\ Sliding!RateRespected
  BY <1>2, RateAssumption DEF InOrder, LastGrants, Sliding!RateRespected
<1> QED BY <1>3, <1>4 DEF SlidingInv

LEMMA GrantKeeps == ASSUME SlidingInv, NEW c \in Callers, Sliding!Grant(c) PROVE SlidingInv'
<1> DEFINE v == Sliding!Valid
<1>1. /\ requests' = Append(v, now) /\ grants' = Append(grants, now) /\ Len(v) < Rate
      /\ UNCHANGED <<now, cpc, wakeAt, cancelled>>
  BY DEF Sliding!Grant, Sliding!HasRoom
<1>2. /\ v \in Seq(Nat) /\ Len(v) <= Len(requests)
      /\ \A i \in DOMAIN v : v[i] = grants[Len(grants) - Len(v) + i]
      /\ \A i \in DOMAIN grants : i <= Len(grants) - Len(v) => grants[i] <= now - Window
  BY KeptFacts
<1> HIDE DEF v
<1>3. /\ Len(grants) \in Nat /\ now \in Nat /\ Window \in Nat /\ Rate \in Nat /\ Len(v) \in Nat
      /\ DOMAIN grants = 1 .. Len(grants) /\ DOMAIN v = 1 .. Len(v) /\ grants \in Seq(Nat)
      /\ Len(v) <= Len(grants) /\ \A i \in DOMAIN grants : grants[i] \in Nat
  <2>1. Len(requests) \in Nat /\ Len(requests) <= Len(grants)
    BY SlidingLengths DEF SlidingInv, LastGrants
  <2>2. Len(v) \in Nat /\ DOMAIN v = 1 .. Len(v) BY <1>2
  <2> QED BY <1>2, <2>1, <2>2, SlidingLengths DEF SlidingInv, SlidingType
<1>4. /\ grants' \in Seq(Nat) /\ Len(grants') = Len(grants) + 1
      /\ DOMAIN grants' = 1 .. Len(grants) + 1 /\ grants'[Len(grants) + 1] = now
      /\ \A i \in 1 .. Len(grants) : grants'[i] = grants[i]
  <2>1. grants' = Append(grants, now) /\ now \in Nat /\ grants \in Seq(Nat) BY <1>1, <1>3
  <2> QED BY ONLY <2>1
<1>5. /\ requests' \in Seq(Nat) /\ Len(requests') = Len(v) + 1
      /\ DOMAIN requests' = 1 .. Len(v) + 1 /\ requests'[Len(v) + 1] = now
      /\ \A i \in 1 .. Len(v) : requests'[i] = v[i]
  <2>1. requests' = Append(v, now) /\ now \in Nat /\ v \in Seq(Nat) BY <1>1, <1>2, <1>3
  <2> QED BY ONLY <2>1
<1>6. SlidingType' BY <1>1, <1>4, <1>5 DEF SlidingInv, SlidingType
<1>7. InOrder'
  <2>1. \A i \in 1 .. Len(grants) : grants[i] <= now BY <1>3 DEF SlidingInv, InOrder
  <2>2. \A i \in 1 .. Len(grants) + 1 : i = Len(grants) + 1 \/ i \in 1 .. Len(grants) BY <1>3
  <2>3. \A i \in DOMAIN grants' : grants'[i] <= now BY <1>3, <1>4, <2>1, <2>2
  <2>4. ASSUME NEW i \in DOMAIN grants', NEW j \in DOMAIN grants', i <= j
        PROVE  grants'[i] <= grants'[j]
    <3>1. CASE j = Len(grants) + 1 BY <1>4, <2>3, <3>1
    <3>2. CASE j # Len(grants) + 1
      <4>1. i \in 1 .. Len(grants) /\ j \in 1 .. Len(grants) BY <1>3, <1>4, <2>4, <3>2
      <4> QED BY <1>3, <1>4, <2>4, <4>1 DEF SlidingInv, InOrder
    <3> QED BY <3>1, <3>2
  <2> QED BY <1>1, <2>3, <2>4 DEF InOrder
<1>8. LastGrants'
  <2>1. Before' = Len(grants) - Len(v) BY <1>3, <1>4, <1>5 DEF Before
  <2>2. ASSUME NEW i \in DOMAIN requests' PROVE requests'[i] = grants'[Before' + i]
    <3>1. CASE i = Len(v) + 1
      <4>1. Before' + i = Len(grants) + 1 BY <1>3, <2>1, <3>1
      <4> QED BY <1>4, <1>5, <3>1, <4>1
    <3>2. CASE i # Len(v) + 1
      <4>1. i \in 1 .. Len(v) /\ Len(grants) - Len(v) + i \in 1 .. Len(grants)
        BY <1>3, <1>5, <3>2
      <4> QED BY <1>2, <1>3, <1>4, <1>5, <2>1, <4>1
    <3> QED BY <3>1, <3>2
  <2>3. ASSUME NEW i \in DOMAIN grants', i <= Before' PROVE grants'[i] <= now - Window
    <3>1. i \in 1 .. Len(grants) /\ i <= Len(grants) - Len(v) BY <1>3, <1>4, <2>1, <2>3
    <3> QED BY <1>2, <1>3, <1>4, <3>1
  <2>4. Len(requests') <= Rate /\ Len(requests') <= Len(grants') BY <1>1, <1>3, <1>4, <1>5
  <2> QED BY <1>1, <2>2, <2>3, <2>4 DEF LastGrants
<1>9. Sliding!RateRespected'
  <2> SUFFICES ASSUME NEW i \in DOMAIN grants', i + Rate \in DOMAIN grants'
               PROVE  grants'[i + Rate] - grants'[i] >= Window
    BY DEF Sliding!RateRespected
  <2>1. CASE i + Rate = Len(grants) + 1
    <3>1. i \in 1 .. Len(grants) /\ i <= Len(grants) - Len(v) BY <1>1, <1>3, <1>4, <2>1
    <3>2. grants'[i] = grants[i] /\ grants[i] \in Nat /\ grants[i] <= now - Window
      BY <1>2, <1>3, <1>4, <3>1
    <3>3. grants'[i + Rate] = now BY <1>4, <2>1
    <3> QED BY <1>3, <3>2, <3>3
  <2>2. CASE i + Rate # Len(grants) + 1
    <3>1. i \in 1 .. Len(grants) /\ i + Rate \in 1 .. Len(grants)
      <4> DEFINE n == Len(grants)
      <4>1. i \in 1 .. n + 1 /\ i + Rate \in 1 .. n + 1 /\ i + Rate # n + 1 BY <1>4, <2>2
      <4>2. n \in Nat /\ Rate \in Nat BY <1>3
      <4> HIDE DEF n
      <4>3. i \in 1 .. n /\ i + Rate \in 1 .. n BY ONLY <4>1, <4>2
      <4> QED BY <4>3 DEF n
    <3>2. grants[i + Rate] - grants[i] >= Window
      BY <1>3, <3>1 DEF SlidingInv, Sliding!RateRespected
    <3> QED BY <1>4, <3>1, <3>2
  <2> QED BY <2>1, <2>2
<1> QED BY <1>6, <1>7, <1>8, <1>9 DEF SlidingInv

LEMMA DenyKeeps == ASSUME SlidingInv, NEW c \in Callers, Sliding!Deny(c) PROVE SlidingInv'
<1> DEFINE v == Sliding!Valid
<1>1. /\ requests' = v /\ wakeAt' = [wakeAt EXCEPT ![c] = now + Poll]
      /\ cpc' = [cpc EXCEPT ![c] = "sleep"] /\ UNCHANGED <<now, cancelled, grants>>
  BY DEF Sliding!Deny, Sliding!Goto
<1>2. /\ v \in Seq(Nat) /\ Len(v) <= Len(requests)
      /\ \A i \in DOMAIN v : v[i] = grants[Len(grants) - Len(v) + i]
      /\ \A i \in DOMAIN grants : i <= Len(grants) - Len(v) => grants[i] <= now - Window
  BY KeptFacts
<1> HIDE DEF v
<1>3. Len(v) \in Nat /\ Len(requests) \in Nat /\ Len(grants) \in Nat /\ now \in Nat /\ Rate \in Nat
  BY <1>2, SlidingLengths DEF SlidingInv
<1>4. now + Poll \in Nat BY <1>3, PollAssumption
<1>5. SlidingType' BY <1>1, <1>2, <1>4 DEF SlidingInv, SlidingType
<1>6. InOrder' /\ Sliding!RateRespected'
  BY <1>1 DEF SlidingInv, InOrder, Sliding!RateRespected
<1>7. LastGrants'
  <2>1. Before' = Len(grants) - Len(v) BY <1>1 DEF Before
  <2>2. Len(v) <= Rate /\ Len(v) <= Len(grants) BY <1>2, <1>3 DEF SlidingInv, LastGrants
  <2> QED BY <1>1, <1>2, <2>1, <2>2 DEF LastGrants
<1> QED BY <1>5, <1>6, <1>7 DEF SlidingInv

LEMMA SlidingInvNext == SlidingInv /\ [Sliding!Next]_(Sliding!vars) => SlidingInv'
<1> SUFFICES ASSUME SlidingInv, [Sliding!Next]_(Sliding!vars) PROVE SlidingInv' OBVIOUS
<1>1. ASSUME UNCHANGED <<now, requests, grants>>, SlidingType' PROVE SlidingInv'
  BY <1>1 DEF SlidingInv, InOrder, LastGrants, Before, Sliding!RateRespected
<1>2. ASSUME NEW c \in Callers, Sliding!Wake(c) \/ Sliding!GiveUp(c) PROVE SlidingInv'
  <2>1. UNCHANGED <<now, requests, wakeAt, cancelled, grants>> /\ SlidingType'
    BY <1>2 DEF Sliding!Wake, Sliding!GiveUp, Sliding!Goto, SlidingInv, SlidingType
  <2> QED BY <1>1, <2>1
<1>3. ASSUME NEW c \in Callers, Sliding!Cancel(c) PROVE SlidingInv'
  BY <1>1, <1>3 DEF Sliding!Cancel, SlidingInv, SlidingType
<1>4. CASE Sliding!Advance
  <2>1. /\ now < MaxTime /\ now' = now + 1 /\ UNCHANGED <<requests, cpc, wakeAt, cancelled, grants>>
    BY <1>4 DEF Sliding!Advance
  <2>2. /\ now \in Nat /\ Window \in Nat /\ \A i \in DOMAIN grants : grants[i] \in Nat
    BY SlidingLengths DEF SlidingInv
  <2>3. now' \in 0 .. MaxTime BY <2>1, <2>2, TimeAssumption
  <2>4. \A i \in DOMAIN grants : /\ grants[i] <= now => grants[i] <= now'
                                 /\ grants[i] <= now - Window => grants[i] <= now' - Window
    BY <2>1, <2>2
  <2>5. SlidingType' BY <2>1, <2>3 DEF SlidingInv, SlidingType
  <2>6. InOrder' /\ LastGrants' /\ Sliding!RateRespected'
    BY <2>1, <2>4 DEF SlidingInv, InOrder, LastGrants, Before, Sliding!RateRespected
  <2> QED BY <2>5, <2>6 DEF SlidingInv
<1>5. CASE UNCHANGED Sliding!vars
  BY <1>1, <1>5 DEF Sliding!vars, SlidingInv, SlidingType
<1> QED BY <1>2, <1>3, <1>4, <1>5, GrantKeeps, DenyKeeps DEF Sliding!Next, Sliding!CallerStep

LEMMA SlidingTypeParts == SlidingInv => Sliding!TypeOK
<1> SUFFICES ASSUME SlidingInv PROVE Sliding!TypeOK OBVIOUS
<1>1. /\ Len(requests) \in Nat /\ Len(grants) \in Nat /\ now \in Nat
      /\ DOMAIN requests = 1 .. Len(requests) /\ DOMAIN grants = 1 .. Len(grants)
      /\ requests \in [1 .. Len(requests) -> Nat] /\ grants \in [1 .. Len(grants) -> Nat]
  BY SlidingLengths DEF SlidingInv, SlidingType
<1>2. \A i \in 1 .. Len(grants) : grants[i] \in 0 .. now BY <1>1 DEF SlidingInv, InOrder
<1>3. \A i \in 1 .. Len(requests) : requests[i] \in 0 .. now
  <2> SUFFICES ASSUME NEW i \in 1 .. Len(requests) PROVE requests[i] \in 0 .. now OBVIOUS
  <2>1. Before + i \in 1 .. Len(grants) BY <1>1 DEF SlidingInv, LastGrants, Before
  <2>2. requests[i] = grants[Before + i] BY <1>1 DEF SlidingInv, LastGrants
  <2> QED BY <1>2, <2>1, <2>2
<1>4. requests \in [1 .. Len(requests) -> 0 .. now] BY <1>1, <1>3
<1>5. grants \in [1 .. Len(grants) -> 0 .. now] BY <1>1, <1>2
<1>6. requests \in Seq(0 .. now) /\ grants \in Seq(0 .. now) BY <1>1, <1>4, <1>5
<1> QED BY <1>6 DEF SlidingInv, SlidingType, LastGrants, Sliding!TypeOK

\* A caller goes to sleep only when rate grants lie within the last window.
LEMMA DenialFair ==
  ASSUME SlidingInv, Sliding!Next \/ UNCHANGED Sliding!vars, NEW c \in Callers
  PROVE  Sliding!DenialJustified(c)
<1> SUFFICES ASSUME cpc[c] = "try", cpc'[c] = "sleep" PROVE Cardinality(Sliding!LastWindow) = Rate
  BY SameCardinality DEF Sliding!DenialJustified
<1>1. Sliding!Deny(c)
  <2>1. cpc \in [Callers -> {"try", "sleep", "ctx"}] BY DEF SlidingInv, SlidingType
  <2>2. ASSUME NEW d \in Callers, Sliding!Grant(d) \/ Sliding!Cancel(d) PROVE FALSE
    BY <2>2 DEF Sliding!Grant, Sliding!Cancel
  <2>3. ASSUME NEW d \in Callers, Sliding!Wake(d) \/ Sliding!GiveUp(d) PROVE FALSE
    BY <2>1, <2>3 DEF Sliding!Wake, Sliding!GiveUp, Sliding!Goto
  <2>4. ASSUME NEW d \in Callers, Sliding!Deny(d) PROVE d = c
    BY <2>1, <2>4 DEF Sliding!Deny, Sliding!Goto
  <2>5. ~Sliding!Advance /\ ~UNCHANGED Sliding!vars BY DEF Sliding!Advance, Sliding!vars
  <2> QED BY <2>2, <2>3, <2>4, <2>5 DEF Sliding!Next, Sliding!CallerStep
<1> DEFINE v == Sliding!Valid
<1>2. /\ v \in Seq(Nat) /\ Len(v) <= Len(requests) /\ ~(Len(v) < Rate)
      /\ \A i \in DOMAIN grants : i <= Len(grants) - Len(v) => grants[i] <= now - Window
      /\ \A i \in DOMAIN grants : i > Len(grants) - Len(v) => grants[i] > now - Window
  BY <1>1, KeptFacts DEF Sliding!Deny, Sliding!HasRoom
<1> HIDE DEF v
<1>3. /\ Len(v) = Rate /\ Len(grants) \in Nat /\ Rate <= Len(grants) /\ Rate \in Nat
      /\ DOMAIN grants = 1 .. Len(grants) /\ now \in Nat /\ Window \in Nat
      /\ \A i \in DOMAIN grants : grants[i] \in Nat
  <2>1. Len(v) \in Nat BY <1>2
  <2> QED BY <1>2, <2>1, SlidingLengths DEF SlidingInv, LastGrants
<1> DEFINE first == Len(grants) - Rate + 1
<1>4. Sliding!LastWindow = first .. Len(grants)
  <2>1. ASSUME NEW i \in DOMAIN grants PROVE grants[i] > now - Window <=> i >= first
    <3>1. CASE i <= Len(grants) - Rate BY <1>2, <1>3, <3>1
    <3>2. CASE i > Len(grants) - Rate BY <1>2, <1>3, <3>2
    <3> QED BY <1>3, <3>1, <3>2
  <2>2. first .. Len(grants) \subseteq DOMAIN grants BY <1>3
  <2> QED BY <1>3, <2>1, <2>2 DEF Sliding!LastWindow
<1>5. Cardinality(first .. Len(grants)) = Rate
  <2>1. first \in Int /\ Len(grants) \in Int BY <1>3
  <2>2. Cardinality(first .. Len(grants))
          = IF first > Len(grants) THEN 0 ELSE Len(grants) - first + 1
    BY <2>1, FS_Interval
  <2> QED BY <1>3, <2>2
<1> QED BY <1>4, <1>5

LEMMA SlidingInvariant == Sliding!Spec => []SlidingInv
BY SlidingInvInit, SlidingInvNext, PTL DEF Sliding!Spec

\* However calls of Allow and Wait interleave and time passes between them, of any
\* rate + 1 successive grants the first and the last are a window apart.
THEOREM SlidingRateRespected == Sliding!Spec => []Sliding!RateRespected
<1>1. SlidingInv => Sliding!RateRespected BY DEF SlidingInv
<1> QED BY SlidingInvariant, <1>1, PTL

-----------------------------------------------------------------------------
(* Cache *)

StoreType == /\ now \in 0 .. CacheTime /\ defaultTTL \in TTLs
             /\ loop \in {"none", "new", "select", "done"}
             /\ stopCleanup \in BOOLEAN /\ asked \in BOOLEAN
             /\ panicked \in {"none", "NewTicker", "close of closed stopCleanup"}
EntryType == /\ DOMAIN items \subseteq Keys /\ IsFiniteSet(DOMAIN items)
             /\ \A k \in DOMAIN items : items[k].value \in Values /\ items[k].expiration \in Nat
AnswerType == \/ answer = Unset
              \/ answer[1] = "value" /\ answer[2] \in Values \cup {Unset}
              \/ answer[1] = "size"  /\ answer[2] \in Nat
              \/ answer[1] = "keys"  /\ answer[2] \subseteq Keys
StoreInv == StoreType /\ EntryType /\ AnswerType

LEMMA StoreTypeParts == StoreInv => Store!TypeOK
BY DEF StoreInv, StoreType, EntryType, AnswerType, Store!TypeOK

LEMMA StoreInit == Store!Init => StoreInv
<1> SUFFICES ASSUME Store!Init PROVE StoreInv OBVIOUS
<1>1. DOMAIN items = {}
  <2>1. items = <<>> BY DEF Store!Init
  <2> QED BY ONLY <2>1
<1>2. now \in 0 .. CacheTime BY CacheTimeAssumption DEF Store!Init
<1>3. StoreType BY <1>2 DEF Store!Init, StoreType
<1>4. IsFiniteSet(DOMAIN items) BY <1>1, FS_EmptySet
<1> QED BY <1>1, <1>3, <1>4 DEF Store!Init, StoreInv, EntryType, AnswerType

\* What SetWithTTL writes.
LEMMA SetFacts ==
  ASSUME NEW k \in Keys, NEW v \in Values, NEW ttl \in TTLs, Store!SetWithTTL(k, v, ttl)
  PROVE  /\ DOMAIN items' = DOMAIN items \cup {k}
         /\ items'[k] = [value |-> v, expiration |-> now + ttl]
         /\ \A x \in DOMAIN items \ {k} : items'[x] = items[x]
BY DEF Store!SetWithTTL

LEMMA SetType ==
  ASSUME StoreInv, NEW k \in Keys, NEW v \in Values, NEW ttl \in TTLs,
         Store!SetWithTTL(k, v, ttl)
  PROVE  StoreInv'
<1>1. now + ttl \in Nat
  <2>1. now \in Nat
    <3>1. now \in 0 .. CacheTime BY DEF StoreInv, StoreType
    <3> QED BY ONLY <3>1
  <2>2. ttl \in Nat BY TTLsAssumption
  <2> QED BY ONLY <2>1, <2>2
<1>2. EntryType'
  <2>a. IsFiniteSet(DOMAIN items')
    <3>1. IsFiniteSet(DOMAIN items) BY DEF StoreInv, EntryType
    <3>2. IsFiniteSet(DOMAIN items \cup {k}) BY <3>1, FS_AddElement
    <3> QED BY <3>2, SetFacts
  <2> SUFFICES ASSUME NEW x \in DOMAIN items'
               PROVE  x \in Keys /\ items'[x].value \in Values /\ items'[x].expiration \in Nat
    BY <2>a DEF EntryType
  <2>1. CASE x = k
    <3>1. items'[k] = [value |-> v, expiration |-> now + ttl] BY SetFacts
    <3>2. items'[k].value = v /\ items'[k].expiration = now + ttl BY <3>1
    <3> QED BY <1>1, <2>1, <3>2
  <2>2. CASE x # k
    <3>1. x \in DOMAIN items /\ items'[x] = items[x] BY <2>2, SetFacts
    <3> QED BY <3>1 DEF StoreInv, EntryType
  <2> QED BY <2>1, <2>2
<1> QED BY <1>2 DEF Store!SetWithTTL, StoreInv, StoreType, AnswerType

\* The module has its own copy of the operators of FiniteSets, and so has Map.
LEMMA StoreCardinality ==
  \A S : Store!Cardinality(S) = Cardinality(S) /\ Store!Map!Cardinality(S) = Cardinality(S)
BY DEF Store!Cardinality, Store!Map!Cardinality, Cardinality

\* A part of the entries is well formed.
LEMMA RestrictType ==
  ASSUME EntryType, NEW S, S \subseteq DOMAIN items, items' = Store!Restrict(items, S)
  PROVE  EntryType'
<1>1. DOMAIN items' = S /\ \A k \in S : items'[k] = items[k] BY DEF Store!Restrict
<1>2. IsFiniteSet(DOMAIN items') BY <1>1, FS_Subset DEF EntryType
<1> QED BY <1>1, <1>2 DEF EntryType

LEMMA StoreNext == StoreInv /\ [Store!Next]_(Store!vars) => StoreInv'
<1> SUFFICES ASSUME StoreInv, [Store!Next]_(Store!vars) PROVE StoreInv' OBVIOUS
<1> USE DEF Store!visible
<1>1. defaultTTL \in TTLs BY DEF StoreInv, StoreType
<1>2. ASSUME NEW k \in Keys, NEW v \in Values, Store!Set(k, v) PROVE StoreInv'
  BY <1>1, <1>2, SetType DEF Store!Set
<1>3. ASSUME NEW k \in Keys, NEW v \in Values, NEW ttl \in TTLs, Store!SetWithTTL(k, v, ttl)
      PROVE  StoreInv'
  BY <1>3, SetType
<1>4. ASSUME NEW k \in Keys, Store!Get(k) PROVE StoreInv'
  <2>1. answer' = <<"value", answer'[2]>> /\ answer'[2] \in Values \cup {Unset}
    BY <1>4 DEF Store!Get, StoreInv, EntryType
  <2>2. UNCHANGED <<now, defaultTTL, items, loop, stopCleanup, asked, panicked>>
    BY <1>4 DEF Store!Get
  <2>3. answer'[1] = "value" BY <2>1
  <2> QED BY <2>1, <2>2, <2>3 DEF StoreInv, StoreType, EntryType, AnswerType
<1>5. ASSUME NEW k \in Keys, Store!Delete(k) PROVE StoreInv'
  <2>1. items' = Store!Restrict(items, DOMAIN items \ {k}) BY <1>5 DEF Store!Delete
  <2>2. EntryType' BY <2>1, RestrictType DEF StoreInv
  <2> QED BY <1>5, <2>2 DEF Store!Delete, StoreInv, StoreType, AnswerType
<1>6. CASE Store!Clear
  <2>1. items' = <<>> BY <1>6 DEF Store!Clear
  <2>2. DOMAIN items' = {} BY ONLY <2>1
  <2>3. EntryType' BY ONLY <2>2, FS_EmptySet DEF EntryType
  <2> QED BY <1>6, <2>3 DEF Store!Clear, StoreInv, StoreType, AnswerType
<1>7. CASE Store!ListKeys
  <2>1. answer'[1] = "keys" /\ answer'[2] \subseteq Keys
    BY <1>7 DEF Store!ListKeys, StoreInv, EntryType
  <2> QED BY <1>7, <2>1 DEF Store!ListKeys, StoreInv, StoreType, EntryType, AnswerType
<1>a. CASE Store!Size
  <2>1. answer' = <<"size", Cardinality(DOMAIN items)>>
    BY <1>a, StoreCardinality DEF Store!Size
  <2>2. answer'[1] = "size" /\ answer'[2] \in Nat
    BY <2>1, FS_CardinalityType DEF StoreInv, EntryType
  <2> QED BY <1>a, <2>2 DEF Store!Size, StoreInv, StoreType, EntryType, AnswerType
<1>8. CASE Store!Stop
  BY <1>8 DEF Store!Stop, StoreInv, StoreType, EntryType, AnswerType
<1>9. CASE Store!StopAgain \/ Store!CleanupPanic
  BY <1>9 DEF Store!StopAgain, Store!CleanupPanic, Store!Panic, StoreInv, StoreType, EntryType,
              AnswerType
<1>10. CASE Store!CleanupStart \/ Store!CleanupEnd
  BY <1>10 DEF Store!CleanupStart, Store!CleanupEnd, StoreInv, StoreType, EntryType, AnswerType
<1>11. CASE Store!Cleanup
  <2> DEFINE S == {k \in DOMAIN items : ~Store!Expired(items[k])}
  <2>1. items' = Store!Restrict(items, S) /\ S \subseteq DOMAIN items
    BY <1>11 DEF Store!Cleanup
  <2> HIDE DEF S
  <2>2. EntryType' BY <2>1, RestrictType DEF StoreInv
  <2> QED BY <1>11, <2>2 DEF Store!Cleanup, StoreInv, StoreType, AnswerType
<1>12. CASE Store!Advance
  <2>1. now \in 0 .. CacheTime /\ now < CacheTime /\ now' = now + 1
    BY <1>12 DEF Store!Advance, StoreInv, StoreType
  <2>2. now' \in 0 .. CacheTime BY ONLY <2>1, CacheTimeAssumption
  <2> QED BY <1>12, <2>2 DEF Store!Advance, StoreInv, StoreType, EntryType, AnswerType
<1>13. CASE UNCHANGED Store!vars
  BY <1>13 DEF Store!vars, StoreInv, StoreType, EntryType, AnswerType
<1> QED BY <1>2, <1>3, <1>4, <1>5, <1>6, <1>7, <1>a, <1>8, <1>9, <1>10, <1>11, <1>12, <1>13
        DEF Store!Next, Store!Call, Store!CleanupStep

\* Every variable keeps its type, and only keys have entries.
THEOREM StoreTypeCorrect == Store!Spec => []Store!TypeOK
BY StoreInit, StoreNext, StoreTypeParts, PTL DEF Store!Spec

-----------------------------------------------------------------------------
(* The promise of Cache.  Of items callers read and list Live, and count Dead as well. *)

Alive(k) == now <= items[k].expiration

LEMMA LiveFacts == /\ DOMAIN Store!Live = {k \in DOMAIN items : Alive(k)}
                   /\ \A k \in DOMAIN Store!Live : Store!Live[k] = items[k]
BY DEF Store!Live, Store!Restrict, Alive

LEMMA LiveFactsNext ==
  /\ DOMAIN (Store!Live') = {k \in DOMAIN items' : Alive(k)'}
  /\ \A k \in DOMAIN (Store!Live') : (Store!Live')[k] = items'[k]
BY DEF Store!Live, Store!Restrict, Alive

\* The other entries are Dead.
LEMMA DeadFacts == StoreInv => Store!Dead = DOMAIN items \ DOMAIN Store!Live
<1> SUFFICES ASSUME StoreInv PROVE Store!Dead = DOMAIN items \ DOMAIN Store!Live OBVIOUS
<1>1. now \in Int
  <2>1. now \in 0 .. CacheTime BY DEF StoreInv, StoreType
  <2> QED BY ONLY <2>1
<1>2. \A k \in DOMAIN items : items[k].expiration \in Int BY DEF StoreInv, EntryType
<1> QED BY <1>1, <1>2, LiveFacts DEF Store!Dead, Store!Stale, Alive

LEMMA DeadFactsNext == StoreInv' => (Store!Dead)' = DOMAIN items' \ DOMAIN (Store!Live')
<1> SUFFICES ASSUME StoreInv' PROVE (Store!Dead)' = DOMAIN items' \ DOMAIN (Store!Live')
  OBVIOUS
<1>1. now' \in Int
  <2>1. now' \in 0 .. CacheTime BY DEF StoreInv, StoreType
  <2> QED BY ONLY <2>1
<1>2. \A k \in DOMAIN items' : items'[k].expiration \in Int BY DEF StoreInv, EntryType
<1> QED BY <1>1, <1>2, LiveFactsNext DEF Store!Dead, Store!Stale, Alive

LEMMA SetLive ==
  ASSUME StoreInv, NEW k \in Keys, NEW v \in Values, NEW ttl \in TTLs,
         Store!SetWithTTL(k, v, ttl)
  PROVE  Store!Map!Set(k, v, ttl)
<1>1. now + ttl \in Nat /\ now \in Nat /\ now <= now + ttl
  <2>1. now \in Nat
    <3>1. now \in 0 .. CacheTime BY DEF StoreInv, StoreType
    <3> QED BY ONLY <3>1
  <2>2. ttl \in Nat BY TTLsAssumption
  <2> QED BY ONLY <2>1, <2>2
<1>2. /\ items' = [x \in DOMAIN items \cup {k} |->
                    IF x = k THEN [value |-> v, expiration |-> now + ttl] ELSE items[x]]
      /\ answer' = Unset /\ UNCHANGED <<now, asked>>
  BY DEF Store!SetWithTTL
<1>3. /\ items'[k].expiration = now + ttl
      /\ \A x \in DOMAIN items \ {k} : items'[x] = items[x]
  BY <1>2
<1>4. {x \in DOMAIN items' : Alive(x)'} = {x \in DOMAIN items : Alive(x)} \cup {k}
  BY <1>1, <1>2, <1>3 DEF Alive
<1>5. Store!Live' = [x \in DOMAIN Store!Live \cup {k} |->
                      IF x = k THEN [value |-> v, expiration |-> now + ttl] ELSE Store!Live[x]]
  <2>1. Store!Live' = [x \in {y \in DOMAIN items' : Alive(y)'} |-> items'[x]]
    BY DEF Store!Live, Store!Restrict, Alive
  <2>2. Store!Live' = [x \in DOMAIN Store!Live \cup {k} |-> items'[x]]
    BY <1>4, <2>1, LiveFacts
  <2>3. \A x \in DOMAIN Store!Live \cup {k} :
          items'[x] = IF x = k THEN [value |-> v, expiration |-> now + ttl] ELSE Store!Live[x]
    BY <1>2, LiveFacts
  <2> QED BY <2>2, <2>3
<1>6. Store!Dead' = Store!Dead \ {k}
  <2>1. DOMAIN (Store!Live') = DOMAIN Store!Live \cup {k} BY <1>5
  <2>2. StoreInv' BY SetType
  <2> QED BY <1>1, <1>2, <2>1, <2>2, DeadFacts, DeadFactsNext
<1> QED BY <1>2, <1>5, <1>6 DEF Store!Map!Set

\* Removing entries that no caller sees, or those of ks, leaves the rest of Live.
LEMMA RestrictLive ==
  ASSUME NEW S, items' = Store!Restrict(items, S), S \subseteq DOMAIN items, now' = now,
         NEW ks, \A x \in DOMAIN items : Alive(x) => (x \in S <=> x \notin ks)
  PROVE  Store!Live' = Store!Map!Restrict(Store!Live, DOMAIN Store!Live \ ks)
<1>1. items' = [x \in S |-> items[x]] BY DEF Store!Restrict
<1>2. {x \in DOMAIN items' : Alive(x)'} = DOMAIN Store!Live \ ks
  BY <1>1, LiveFacts DEF Alive
<1>3. Store!Live' = [x \in DOMAIN Store!Live \ ks |-> items'[x]]
  BY <1>2 DEF Store!Live, Store!Restrict, Alive
<1>4. \A x \in DOMAIN Store!Live \ ks : items'[x] = Store!Live[x]
  <2>1. \A x \in DOMAIN Store!Live \ ks : x \in S BY LiveFacts
  <2> QED BY <1>1, <2>1, LiveFacts
<1> QED BY <1>3, <1>4 DEF Store!Map!Restrict

\* What is restricted loses the keys removed, and nothing else.
LEMMA RestrictDead ==
  ASSUME StoreInv, StoreInv', NEW S, S \subseteq DOMAIN items, items' = Store!Restrict(items, S),
         NEW ks, Store!Live' = Store!Map!Restrict(Store!Live, DOMAIN Store!Live \ ks)
  PROVE  Store!Dead' = S \ (DOMAIN Store!Live \ ks)
<1>1. DOMAIN items' = S BY DEF Store!Restrict
<1>2. DOMAIN (Store!Live') = DOMAIN Store!Live \ ks BY DEF Store!Map!Restrict
<1> QED BY <1>1, <1>2, DeadFactsNext

LEMMA LiveSame ==
  ASSUME UNCHANGED <<now, items>>
  PROVE  Store!Live' = Store!Live /\ Store!Dead' = Store!Dead
BY DEF Store!Live, Store!Dead, Store!Stale, Store!Restrict

LEMMA MapNext ==
  StoreInv /\ [Store!Next]_(Store!vars) => [Store!Map!Next]_(Store!Map!vars)
<1> SUFFICES ASSUME StoreInv, [Store!Next]_(Store!vars)
             PROVE  Store!Map!Next \/ UNCHANGED Store!Map!vars
  OBVIOUS
<1> USE DEF Store!visible
<1>a. StoreInv' BY StoreNext
<1>1. ASSUME NEW k \in Keys, NEW v \in Values, Store!Set(k, v) PROVE Store!Map!Next
  <2>1. defaultTTL \in TTLs BY DEF StoreInv, StoreType
  <2>2. Store!Map!Set(k, v, defaultTTL) BY <1>1, <2>1, SetLive DEF Store!Set
  <2> QED BY <2>1, <2>2 DEF Store!Map!Next
<1>2. ASSUME NEW k \in Keys, NEW v \in Values, NEW ttl \in TTLs, Store!SetWithTTL(k, v, ttl)
      PROVE  Store!Map!Next
  BY <1>2, SetLive DEF Store!Map!Next
<1>3. ASSUME NEW k \in Keys, Store!Get(k) PROVE Store!Map!Next
  <2>1. UNCHANGED <<now, items, asked>> BY <1>3 DEF Store!Get
  <2>2. answer' = <<"value", IF k \in DOMAIN items /\ Alive(k) THEN items[k].value ELSE Unset>>
    BY <1>3 DEF Store!Get, Alive
  <2>3. answer' = <<"value", IF k \in DOMAIN Store!Live THEN Store!Live[k].value ELSE Unset>>
    BY <2>2, LiveFacts
  <2>4. Store!Map!Get(k) BY <2>1, <2>3, LiveSame DEF Store!Map!Get
  <2> QED BY <2>4 DEF Store!Map!Next
<1>4. ASSUME NEW k \in Keys, Store!Delete(k) PROVE Store!Map!Next
  <2>1. /\ items' = Store!Restrict(items, DOMAIN items \ {k})
        /\ asked' = ~asked /\ answer' = Unset /\ now' = now
    BY <1>4 DEF Store!Delete
  <2>2. Store!Live' = Store!Map!Restrict(Store!Live, DOMAIN Store!Live \ {k})
    <3> DEFINE S == DOMAIN items \ {k}
    <3>1. S \subseteq DOMAIN items OBVIOUS
    <3>2. \A x \in DOMAIN items : Alive(x) => (x \in S <=> x \notin {k}) OBVIOUS
    <3>3. items' = Store!Restrict(items, S) /\ now' = now BY <2>1
    <3> HIDE DEF S
    <3> QED BY <3>1, <3>2, <3>3, RestrictLive
  <2>5. Store!Dead' = Store!Dead \ {k}
    <3> DEFINE S == DOMAIN items \ {k}
    <3>1. S \subseteq DOMAIN items /\ items' = Store!Restrict(items, S) BY <2>1
    <3>2. Store!Dead' = S \ (DOMAIN Store!Live \ {k})
      <4> HIDE DEF S
      <4> QED BY <1>a, <2>2, <3>1, RestrictDead
    <3> QED BY <3>2, DeadFacts
  <2>3. Store!Map!Forget({k}) BY <2>1, <2>2, <2>5 DEF Store!Map!Forget
  <2>4. {k} \in SUBSET Keys OBVIOUS
  <2> QED BY <2>3, <2>4 DEF Store!Map!Next
<1>5. CASE Store!Clear
  <2>1. items' = <<>> /\ asked' = ~asked /\ answer' = Unset /\ now' = now
    BY <1>5 DEF Store!Clear
  <2>2. DOMAIN items' = {}
    <3>1. items' = <<>> BY <2>1
    <3> QED BY ONLY <3>1
  <2>3. Store!Live' = [x \in {} |-> items'[x]]
    <3>1. {x \in DOMAIN items' : Alive(x)'} = {} BY <2>2
    <3> QED BY <3>1 DEF Store!Live, Store!Restrict, Alive
  <2>4. DOMAIN Store!Live \subseteq Keys BY LiveFacts DEF StoreInv, EntryType
  <2>5. Store!Live' = Store!Map!Restrict(Store!Live, DOMAIN Store!Live \ Keys)
    <3>1. DOMAIN Store!Live \ Keys = {} BY <2>4
    <3>2. Store!Map!Restrict(Store!Live, {}) = [x \in {} |-> Store!Live[x]]
      BY DEF Store!Map!Restrict
    <3>3. [x \in {} |-> Store!Live[x]] = [x \in {} |-> items'[x]] OBVIOUS
    <3> QED BY <2>3, <3>1, <3>2, <3>3
  <2>8. Store!Dead' = Store!Dead \ Keys
    <3>1. Store!Dead' = {} BY <1>a, <2>2, DeadFactsNext
    <3>2. Store!Dead \subseteq Keys BY DeadFacts DEF StoreInv, EntryType
    <3> QED BY <3>1, <3>2
  <2>6. Store!Map!Forget(Keys) BY <2>1, <2>5, <2>8 DEF Store!Map!Forget
  <2>7. Keys \in SUBSET Keys OBVIOUS
  <2> QED BY <2>6, <2>7 DEF Store!Map!Next
<1>6. CASE Store!ListKeys
  <2> DEFINE ks == {k \in DOMAIN items : now < items[k].expiration}
  <2>1. answer' = <<"keys", ks>> /\ UNCHANGED <<now, items, asked>>
    BY <1>6 DEF Store!ListKeys
  <2>2. now \in Int
    <3>1. now \in 0 .. CacheTime BY DEF StoreInv, StoreType
    <3> QED BY ONLY <3>1
  <2>3. \A k \in DOMAIN items : items[k].expiration \in Int BY DEF StoreInv, EntryType
  <2>4. ks \in SUBSET DOMAIN Store!Live BY <2>2, <2>3, LiveFacts DEF Alive
  <2>5. \A k \in DOMAIN Store!Live \ ks : Store!Live[k].expiration = now
    BY <2>2, <2>3, LiveFacts DEF Alive
  <2> HIDE DEF ks
  <2>6. Store!Map!List BY <2>1, <2>4, <2>5, LiveSame DEF Store!Map!List
  <2> QED BY <2>6 DEF Store!Map!Next
<1>b. CASE Store!Size
  <2>1. answer' = <<"size", Cardinality(DOMAIN items)>> /\ UNCHANGED <<now, items, asked>>
    BY <1>b, StoreCardinality DEF Store!Size
  <2>2. DOMAIN items = DOMAIN Store!Live \cup Store!Dead BY LiveFacts, DeadFacts
  <2>3. Store!Map!Size BY <2>1, <2>2, LiveSame, StoreCardinality DEF Store!Map!Size
  <2> QED BY <2>3 DEF Store!Map!Next
<1>7. CASE Store!Stop
  <2>1. Store!Map!Stop BY <1>7, LiveSame DEF Store!Stop, Store!Map!Stop
  <2> QED BY <2>1 DEF Store!Map!Next
<1>8. ASSUME UNCHANGED <<now, items, answer, asked>> PROVE UNCHANGED Store!Map!vars
  BY <1>8, LiveSame DEF Store!Map!vars
<1>9. CASE Store!StopAgain \/ Store!CleanupPanic
  BY <1>8, <1>9 DEF Store!StopAgain, Store!CleanupPanic, Store!Panic
<1>10. CASE Store!CleanupStart \/ Store!CleanupEnd
  BY <1>8, <1>10 DEF Store!CleanupStart, Store!CleanupEnd
<1>11. CASE Store!Cleanup
  <2> DEFINE S == {k \in DOMAIN items : ~Store!Expired(items[k])}
  <2>1. items' = Store!Restrict(items, S) /\ UNCHANGED <<now, answer, asked>>
    BY <1>11 DEF Store!Cleanup
  <2>2. now \in Int
    <3>1. now \in 0 .. CacheTime BY DEF StoreInv, StoreType
    <3> QED BY ONLY <3>1
  <2>3. \A k \in DOMAIN items : Alive(k) => (k \in S <=> k \notin {})
    BY <2>2 DEF StoreInv, EntryType, Store!Expired, Alive
  <2>4. S \subseteq DOMAIN items OBVIOUS
  <2> HIDE DEF S
  <2>5. Store!Live' = Store!Map!Restrict(Store!Live, DOMAIN Store!Live \ {})
    BY <2>1, <2>3, <2>4, RestrictLive
  <2>6. Store!Live = [k \in DOMAIN Store!Live |-> Store!Live[k]]
    BY DEF Store!Live, Store!Restrict
  <2>7. Store!Live' = Store!Live
    <3>1. DOMAIN Store!Live \ {} = DOMAIN Store!Live OBVIOUS
    <3> QED BY <2>5, <2>6, <3>1 DEF Store!Map!Restrict
  <2>8. S = DOMAIN Store!Live
    BY <2>2, LiveFacts DEF StoreInv, EntryType, Store!Expired, Alive, S
  <2>9. Store!Dead' = {}
    <3>1. Store!Dead' = S \ (DOMAIN Store!Live \ {})
      BY <1>a, <2>1, <2>4, <2>5, RestrictDead
    <3> QED BY <2>8, <3>1
  <2>10. Store!Map!Remove BY <2>1, <2>7, <2>9 DEF Store!Map!Remove
  <2> QED BY <2>10 DEF Store!Map!Next
<1>12. CASE Store!Advance
  <2>1. now < CacheTime /\ now' = now + 1 /\ UNCHANGED <<items, answer, asked>>
    BY <1>12 DEF Store!Advance
  <2>2. now \in Int
    <3>1. now \in 0 .. CacheTime BY DEF StoreInv, StoreType
    <3> QED BY ONLY <3>1
  <2> DEFINE T == DOMAIN Store!Live \ Store!Map!Expiring
  <2>3. {k \in DOMAIN items' : Alive(k)'} = T
    <3>1. \A k \in DOMAIN items : now + 1 <= items[k].expiration
                                    <=> /\ now <= items[k].expiration
                                        /\ ~(items[k].expiration < now + 1)
      BY <2>2 DEF StoreInv, EntryType
    <3> QED BY <2>1, <3>1, LiveFacts DEF Alive, Store!Map!Expiring
  <2>4. Store!Live' = [k \in T |-> items'[k]]
    <3>1. Store!Live' = [k \in {y \in DOMAIN items' : Alive(y)'} |-> items'[k]]
      BY DEF Store!Live, Store!Restrict, Alive
    <3> QED BY <2>3, <3>1
  <2>5. \A k \in T : items'[k] = Store!Live[k] BY <2>1, LiveFacts
  <2>6. Store!Live' = Store!Map!Restrict(Store!Live, T)
    <3> HIDE DEF T
    <3> QED BY <2>4, <2>5 DEF Store!Map!Restrict
  <2>8. Store!Dead' = Store!Dead \cup Store!Map!Expiring
    <3>1. DOMAIN (Store!Live') = DOMAIN Store!Live \ Store!Map!Expiring
      BY <2>6 DEF Store!Map!Restrict
    <3>2. Store!Map!Expiring \subseteq DOMAIN items BY LiveFacts DEF Store!Map!Expiring
    <3>3. Store!Map!Expiring \subseteq DOMAIN Store!Live BY DEF Store!Map!Expiring
    <3> HIDE DEF T
    <3>4. Store!Dead' = DOMAIN items \ (DOMAIN Store!Live \ Store!Map!Expiring)
      BY <1>a, <2>1, <3>1, DeadFactsNext
    <3> QED BY <3>2, <3>3, <3>4, DeadFacts
  <2>7. Store!Map!Advance BY <2>1, <2>6, <2>8 DEF Store!Map!Advance
  <2> QED BY <2>7 DEF Store!Map!Next
<1>13. CASE UNCHANGED Store!vars BY <1>8, <1>13 DEF Store!vars
<1> QED BY <1>1, <1>2, <1>3, <1>4, <1>5, <1>6, <1>b, <1>7, <1>9, <1>10, <1>11, <1>12, <1>13
        DEF Store!Next, Store!Call, Store!CleanupStep

LEMMA MapInit == Store!Init => Store!Map!Init
<1> SUFFICES ASSUME Store!Init PROVE Store!Map!Init OBVIOUS
<1>1. items = <<>> BY DEF Store!Init
<1>2. DOMAIN items = {} BY ONLY <1>1
<1>3. Store!Live = [x \in {} |-> items[x]]
  <2>1. {x \in DOMAIN items : Alive(x)} = {} BY <1>2
  <2> QED BY <2>1 DEF Store!Live, Store!Restrict, Alive
<1>4. [x \in {} |-> items[x]] = <<>> OBVIOUS
<1>5. Store!Dead = {} BY <1>2 DEF Store!Dead
<1> QED BY <1>3, <1>4, <1>5 DEF Store!Init, Store!Map!Init

\* For its callers Cache is a map whose entries expire at their time: nobody reads or
\* lists an expired entry or misses one that is alive, and Size counts what is alive and
\* what has expired and no cleanup has removed since.
THEOREM StoreIsTTLMap == Store!Spec => Store!ImplementsTTLMap
BY MapInit, StoreInit, StoreNext, MapNext, PTL
DEF Store!Spec, Store!ImplementsTTLMap, Store!Map!Spec

-----------------------------------------------------------------------------
(* Retry *)

\* The recursive definition of Powers has a solution.
PowersTo(b, n) == {q \in [0 .. n -> Nat] : q[0] = 1 /\ \A i \in 1 .. n : q[i] = b * q[i - 1]}

LEMMA PowersToExist == ASSUME NEW b \in Nat, NEW n \in Nat PROVE PowersTo(b, n) # {}
<1> DEFINE S == {k \in Nat : PowersTo(b, k) # {}}
<1>1. 0 \in S
  <2> DEFINE q == [i \in 0 .. 0 |-> 1]
  <2>1. q \in PowersTo(b, 0) BY DEF PowersTo
  <2> QED BY <2>1
<1>2. ASSUME NEW k \in Nat, k \in S PROVE k + 1 \in S
  <2>1. PICK q : q \in PowersTo(b, k) BY <1>2
  <2>2. q \in [0 .. k -> Nat] /\ q[0] = 1 /\ \A i \in 1 .. k : q[i] = b * q[i - 1]
    BY <2>1 DEF PowersTo
  <2> DEFINE r == [i \in 0 .. k + 1 |-> IF i = k + 1 THEN b * q[k] ELSE q[i]]
  <2>3. b * q[k] \in Nat BY <2>2
  <2>4. r \in [0 .. k + 1 -> Nat] BY <2>2, <2>3
  <2>5. \A i \in 0 .. k : r[i] = q[i] OBVIOUS
  <2>6. r[k + 1] = b * q[k] OBVIOUS
  <2> HIDE DEF r
  <2>7. ASSUME NEW i \in 1 .. k + 1 PROVE r[i] = b * r[i - 1]
    <3>1. CASE i = k + 1 BY <2>5, <2>6, <3>1
    <3>2. CASE i # k + 1
      <4>1. i \in 1 .. k /\ i \in 0 .. k /\ i - 1 \in 0 .. k BY <3>2
      <4> QED BY <2>2, <2>5, <4>1
    <3> QED BY <3>1, <3>2
  <2>8. r[0] = 1 BY <2>2, <2>5
  <2>9. r \in PowersTo(b, k + 1) BY <2>4, <2>7, <2>8 DEF PowersTo
  <2> QED BY <2>9
<1> HIDE DEF S
<1>3. S \in SUBSET Nat BY DEF S
<1>4. S = Nat BY <1>1, <1>2, <1>3, Induction
<1> QED BY <1>4 DEF S

\* Two partial solutions agree where both are defined.
LEMMA PowersToAgree ==
  ASSUME NEW b \in Nat, NEW n \in Nat, NEW m \in Nat, NEW q \in PowersTo(b, n),
         NEW r \in PowersTo(b, m), NEW i \in Nat, i <= n, i <= m
  PROVE  q[i] = r[i]
<1> DEFINE S == {k \in Nat : k <= n /\ k <= m => q[k] = r[k]}
<1>1. /\ q[0] = 1 /\ \A k \in 1 .. n : q[k] = b * q[k - 1]
      /\ r[0] = 1 /\ \A k \in 1 .. m : r[k] = b * r[k - 1]
  BY DEF PowersTo
<1>2. 0 \in S BY <1>1
<1>3. ASSUME NEW k \in Nat, k \in S PROVE k + 1 \in S
  <2> SUFFICES ASSUME k + 1 <= n, k + 1 <= m PROVE q[k + 1] = r[k + 1] OBVIOUS
  <2>1. q[k] = r[k] BY <1>3
  <2>2. k + 1 \in 1 .. n /\ k + 1 \in 1 .. m /\ (k + 1) - 1 = k OBVIOUS
  <2> QED BY <1>1, <2>1, <2>2
<1>4. S \in SUBSET Nat OBVIOUS
<1> HIDE DEF S
<1>5. S = Nat BY <1>2, <1>3, <1>4, Induction
<1> QED BY <1>5 DEF S

LEMMA PowersFacts ==
  ASSUME NEW b \in Nat
  PROVE  /\ \A n \in Nat : Loop!Powers(b)[n] \in Nat
         /\ Loop!Powers(b)[0] = 1
         /\ \A n \in Nat : Loop!Powers(b)[n + 1] = b * Loop!Powers(b)[n]
<1> DEFINE Q(n) == CHOOSE q : q \in PowersTo(b, n)
           p == [n \in Nat |-> Q(n)[n]]
           Solves(f) == f = [n \in Nat |-> IF n = 0 THEN 1 ELSE b * f[n - 1]]
<1>1. ASSUME NEW n \in Nat PROVE Q(n) \in PowersTo(b, n) BY PowersToExist
<1> HIDE DEF Q
<1>2. ASSUME NEW n \in Nat PROVE p[n] = IF n = 0 THEN 1 ELSE b * p[n - 1]
  <2>1. Q(n)[0] = 1 /\ \A i \in 1 .. n : Q(n)[i] = b * Q(n)[i - 1] BY <1>1 DEF PowersTo
  <2>2. CASE n = 0 BY <2>1, <2>2
  <2>3. CASE n # 0
    <3>1. n - 1 \in Nat /\ n \in 1 .. n /\ n - 1 <= n BY <2>3
    <3>2. Q(n)[n - 1] = Q(n - 1)[n - 1]
      <4>1. Q(n) \in PowersTo(b, n) /\ Q(n - 1) \in PowersTo(b, n - 1) BY <1>1, <3>1
      <4> QED BY <3>1, <4>1, PowersToAgree
    <3> QED BY <2>1, <2>3, <3>1, <3>2
  <2> QED BY <2>2, <2>3
<1>3. Solves(p)
  <2> DEFINE g == [n \in Nat |-> IF n = 0 THEN 1 ELSE b * p[n - 1]]
  <2>1. \A n \in Nat : p[n] = g[n] BY <1>2
  <2>2. p = g
    <3> QED BY <2>1
  <2> QED BY <2>2
<1> HIDE DEF p
<1>4. Loop!Powers(b) = CHOOSE f : Solves(f) BY DEF Loop!Powers
<1>5. Solves(Loop!Powers(b)) BY <1>3, <1>4
<1> DEFINE f == Loop!Powers(b)
<1>6. f = [n \in Nat |-> IF n = 0 THEN 1 ELSE b * f[n - 1]] BY <1>5
<1> HIDE DEF f
<1>7. f[0] = 1 BY <1>6
<1>8. ASSUME NEW n \in Nat PROVE f[n + 1] = b * f[n]
  <2>1. n + 1 \in Nat /\ n + 1 # 0 /\ (n + 1) - 1 = n OBVIOUS
  <2>2. f[n + 1] = IF n + 1 = 0 THEN 1 ELSE b * f[(n + 1) - 1] BY <1>6, <2>1
  <2> QED BY <2>1, <2>2
<1>9. \A n \in Nat : f[n] \in Nat
  <2> DEFINE S == {n \in Nat : f[n] \in Nat}
  <2>1. 0 \in S BY <1>7
  <2>2. \A n \in Nat : n \in S => n + 1 \in S BY <1>8
  <2>3. S \in SUBSET Nat OBVIOUS
  <2> HIDE DEF S
  <2>4. S = Nat BY <2>1, <2>2, <2>3, Induction
  <2> QED BY <2>4 DEF S
<1> QED BY <1>7, <1>8, <1>9 DEF f

LEMMA RetryMin ==
  ASSUME NEW a \in Nat, NEW b \in Nat
  PROVE  /\ Loop!Min({a, b}) \in {a, b} /\ Loop!Min({a, b}) <= a /\ Loop!Min({a, b}) <= b
<1>1. \E x \in {a, b} : \A y \in {a, b} : x <= y
  <2>1. CASE a <= b BY <2>1
  <2>2. CASE b <= a BY <2>2
  <2> QED BY <2>1, <2>2
<1>2. /\ Loop!Min({a, b}) \in {a, b}
      /\ \A y \in {a, b} : Loop!Min({a, b}) <= y
  BY <1>1 DEF Loop!Min
<1> QED BY <1>2

\* Capping before a product as well as after it changes nothing.
LEMMA CappedProduct ==
  ASSUME NEW a \in Nat, NEW m \in Nat, NEW f \in Nat
  PROVE  Loop!Min({Loop!Min({a, m}) * f, m}) = Loop!Min({a * f, m})
<1> DEFINE c == Loop!Min({a, m})
<1>1. c \in {a, m} /\ c <= a /\ c <= m BY RetryMin
<1> HIDE DEF c
<1>2. CASE c = a BY <1>2 DEF c
<1>3. CASE c = m /\ f = 0
  <2>1. c * f = 0 /\ a * f = 0 BY <1>1, <1>3
  <2> QED BY <2>1 DEF c
<1>4. CASE c = m /\ f # 0
  <2>1. m <= a BY <1>1, <1>4
  <2>2. m * f >= m
    <3>1. f >= 1 BY <1>4
    <3>2. m * (f - 1) \in Nat BY <3>1
    <3>3. m * f = m * (f - 1) + m BY <3>1
    <3> QED BY <3>2, <3>3
  <2>3. a * f >= m
    <3>1. f >= 1 BY <1>4
    <3>2. a * (f - 1) \in Nat BY <3>1
    <3>3. a * f = a * (f - 1) + a BY <3>1
    <3> QED BY <2>1, <3>2, <3>3
  <2>4. ASSUME NEW x \in Nat, x >= m PROVE Loop!Min({x, m}) = m
    BY <2>4, RetryMin
  <2>5. a * f \in Nat /\ m * f \in Nat OBVIOUS
  <2>6. Loop!Min({m * f, m}) = m BY <2>2, <2>4, <2>5
  <2>7. Loop!Min({a * f, m}) = m BY <2>3, <2>4, <2>5
  <2> QED BY <1>4, <2>6, <2>7 DEF c
<1> QED BY <1>1, <1>2, <1>3, <1>4

\* The k-th pause: of SubmitWithRetry k times the first one.
PauseOf(k) == IF method = "SubmitWithRetry" THEN k * config.InitialWait ELSE Loop!Expected(k)

RetryType == /\ method \in Loop!Loops /\ config \in Configs
             /\ attempt \in 0 .. config.MaxAttempts /\ wait \in Nat
             /\ pc \in {"call", "pause", "done"} /\ cancelled \in BOOLEAN
             /\ outcome \in {Unset, "nil", "err", "ctx"}
Histories == pauses \in Seq(Nat) /\ calls \in Seq({"nil", "err"})

\* How many calls and pauses there were, and how long the pauses and the next one are.
Counts == /\ Len(pauses) = attempt
          /\ Len(calls) = IF pc = "call" THEN attempt ELSE attempt + 1
          /\ pc = "pause" => attempt < config.MaxAttempts
Pauses == /\ \A k \in DOMAIN pauses : pauses[k] = PauseOf(k)
          /\ wait = PauseOf(attempt + 1)

\* Only the last call succeeds, and then the loop returns; otherwise it returns the error
\* of the last attempt or that of the context.
Returns == /\ \A k \in DOMAIN calls : calls[k] = "nil" => k = Len(calls) /\ pc = "done"
           /\ pc # "done" => outcome = Unset
           /\ pc = "done" => outcome \in {"nil", "err", "ctx"}
           /\ outcome \in {"nil", "err"} /\ pc = "done" => outcome = calls[Len(calls)]
           /\ outcome = "err" /\ pc = "done" => attempt = config.MaxAttempts
           /\ outcome = "ctx" /\ pc = "done" => cancelled

RetryInv == RetryType /\ Histories /\ Counts /\ Pauses /\ Returns

LEMMA ConfigFacts ==
  ASSUME config \in Configs
  PROVE  /\ config.MaxAttempts \in Nat /\ config.InitialWait \in Nat
         /\ config.MaxWait \in Nat /\ config.Multiplier \in Nat
BY ConfigAssumption

\* The pause before the next attempt is the one that attempt deserves.
LEMMA NextPause ==
  ASSUME config \in Configs, method \in Loop!Loops, attempt \in Nat,
         wait = PauseOf(attempt + 1)
  PROVE  Loop!NextWait = PauseOf(attempt + 2) /\ Loop!NextWait \in Nat
<1> DEFINE i == config.InitialWait
           f == config.Multiplier
           m == config.MaxWait
           p == Loop!Powers(f)
<1>1. i \in Nat /\ f \in Nat /\ m \in Nat BY ConfigFacts
<1>2. /\ p[0] = 1 /\ \A n \in Nat : p[n] \in Nat
      /\ \A n \in Nat : p[n + 1] = f * p[n]
  BY <1>1, PowersFacts
<1>3. attempt + 2 # 1 /\ (attempt + 2) - 1 = attempt + 1 /\ (attempt + 1) - 1 = attempt OBVIOUS
<1> HIDE DEF i, f, m, p
<1>4. CASE method = "SubmitWithRetry"
  <2>1. Loop!NextWait = i * (attempt + 2) BY <1>4 DEF Loop!NextWait, Loop!Linear, i
  <2>2. PauseOf(attempt + 2) = (attempt + 2) * i BY <1>4 DEF PauseOf, i
  <2>3. i * (attempt + 2) = (attempt + 2) * i /\ i * (attempt + 2) \in Nat BY <1>1
  <2> QED BY <2>1, <2>2, <2>3
<1>5. CASE method # "SubmitWithRetry"
  <2>1. Loop!NextWait = Loop!Min({wait * f, m})
    BY <1>5 DEF Loop!NextWait, Loop!Exponential, Loop!Capped, f, m
  <2>2. PauseOf(attempt + 2) = Loop!Min({i * p[attempt + 1], m})
    BY <1>3, <1>5 DEF PauseOf, Loop!Expected, i, f, m, p
  <2>3. p[attempt + 1] = f * p[attempt] /\ p[attempt] \in Nat BY <1>2
  <2>4. wait \in Nat /\ Loop!Min({wait * f, m}) = Loop!Min({i * p[attempt + 1], m})
    <3>1. CASE attempt = 0
      <4>1. wait = i BY <1>5, <3>1 DEF PauseOf, Loop!Expected, i
      <4>2. p[attempt + 1] = f BY <1>1, <1>2, <3>1, <2>3
      <4> QED BY <1>1, <4>1, <4>2
    <3>2. CASE attempt # 0
      <4>1. wait = Loop!Min({i * p[attempt], m})
        BY <1>3, <1>5, <3>2 DEF PauseOf, Loop!Expected, i, f, m, p
      <4>2. i * p[attempt] \in Nat BY <1>1, <2>3
      <4>3. wait \in Nat BY <1>1, <4>1, <4>2, RetryMin
      <4>4. Loop!Min({wait * f, m}) = Loop!Min({(i * p[attempt]) * f, m})
        <5> DEFINE a == i * p[attempt]
        <5>1. a \in Nat /\ wait = Loop!Min({a, m}) BY <4>1, <4>2
        <5> HIDE DEF a
        <5>2. Loop!Min({Loop!Min({a, m}) * f, m}) = Loop!Min({a * f, m})
          BY ONLY <1>1, <5>1, CappedProduct
        <5> QED BY <5>1, <5>2 DEF a
      <4>5. (i * p[attempt]) * f = i * p[attempt + 1] BY <1>1, <2>3
      <4> QED BY <4>3, <4>4, <4>5
    <3> QED BY <3>1, <3>2
  <2>5. Loop!Min({wait * f, m}) \in Nat
    <3>1. wait * f \in Nat BY <1>1, <2>4
    <3> QED BY <1>1, <3>1, RetryMin
  <2> QED BY <2>1, <2>2, <2>4, <2>5
<1> QED BY <1>4, <1>5

\* The pauses expected depend on the parameters only.
LEMMA SameExpected ==
  ASSUME UNCHANGED <<method, config>>
  PROVE  \A k : PauseOf(k)' = PauseOf(k)
BY DEF PauseOf, Loop!Expected

LEMMA RetryInvInit == Loop!Init => RetryInv
<1> SUFFICES ASSUME Loop!Init PROVE RetryInv OBVIOUS
<1>1. pauses = <<>> /\ calls = <<>> /\ attempt = 0 /\ wait = config.InitialWait /\ pc = "call"
  BY DEF Loop!Init
<1>2. /\ DOMAIN pauses = {} /\ DOMAIN calls = {} /\ Len(pauses) = 0 /\ Len(calls) = 0
      /\ pauses \in Seq(Nat) /\ calls \in Seq({"nil", "err"})
  BY ONLY <1>1
<1>3. config \in Configs /\ method \in Loop!Loops BY DEF Loop!Init
<1>4. RetryType
  <2>1. attempt \in 0 .. config.MaxAttempts /\ wait \in Nat BY <1>1, <1>3, ConfigFacts
  <2> QED BY <1>1, <1>3, <2>1 DEF Loop!Init, RetryType
<1>5. wait = PauseOf(attempt + 1)
  <2>1. attempt + 1 = 1 BY <1>1
  <2>2. 1 * config.InitialWait = config.InitialWait BY <1>3, ConfigFacts
  <2>3. PauseOf(1) = config.InitialWait BY <2>2 DEF PauseOf, Loop!Expected
  <2> QED BY <1>1, <2>1, <2>3
<1> QED BY <1>1, <1>2, <1>4, <1>5 DEF Loop!Init, RetryInv, Histories, Counts, Pauses, Returns

\* One call more.
LEMMA CallFacts ==
  ASSUME Histories, NEW r \in {"nil", "err"}, calls' = Append(calls, r)
  PROVE  /\ calls' \in Seq({"nil", "err"}) /\ Len(calls) \in Nat /\ Len(calls') = Len(calls) + 1
         /\ DOMAIN calls = 1 .. Len(calls) /\ DOMAIN calls' = 1 .. Len(calls) + 1
         /\ calls'[Len(calls) + 1] = r /\ \A k \in DOMAIN calls : calls'[k] = calls[k]
<1>1. calls \in Seq({"nil", "err"}) BY DEF Histories
<1> QED BY ONLY <1>1, r \in {"nil", "err"}, calls' = Append(calls, r)

LEMMA RetryInvNext == RetryInv /\ [Loop!Next]_(Loop!vars) => RetryInv'
<1> SUFFICES ASSUME RetryInv, [Loop!Next]_(Loop!vars) PROVE RetryInv' OBVIOUS
<1> USE DEF Loop!params, Loop!loopState, Loop!history, Loop!Return
<1>t. RetryType /\ Histories /\ Counts /\ Pauses /\ Returns BY DEF RetryInv
<1>a. attempt \in Nat /\ config \in Configs /\ config.MaxAttempts \in Nat /\ method \in Loop!Loops
  BY <1>t, ConfigFacts DEF RetryType
<1>1. CASE Loop!Succeed \/ Loop!Fail
  <2>1. PICK r \in {"nil", "err"} :
          /\ calls' = Append(calls, r)
          /\ IF r = "err" /\ attempt < config.MaxAttempts
             THEN pc' = "pause" /\ UNCHANGED outcome
             ELSE pc' = "done" /\ outcome' = r
    BY <1>1, <1>a DEF Loop!Succeed, Loop!Fail, Loop!LastAttempt
  <2>2. pc = "call" /\ UNCHANGED <<method, config, attempt, wait, cancelled, pauses>>
    BY <1>1 DEF Loop!Succeed, Loop!Fail
  <2>3. /\ calls' \in Seq({"nil", "err"}) /\ Len(calls) = attempt /\ Len(calls') = attempt + 1
        /\ DOMAIN calls = 1 .. attempt /\ DOMAIN calls' = 1 .. attempt + 1
        /\ calls'[attempt + 1] = r /\ \A k \in DOMAIN calls : calls'[k] = calls[k]
    BY <1>t, <2>1, <2>2, CallFacts DEF Counts
  <2>4. RetryType' BY <1>t, <2>1, <2>2 DEF RetryType
  <2>5. Histories' BY <1>t, <2>2, <2>3 DEF Histories
  <2>6. Counts' BY <1>t, <2>1, <2>2, <2>3 DEF Counts
  <2>7. Pauses' BY <1>t, <2>2, SameExpected DEF Pauses
  <2>8. Returns'
    <3>1. \A k \in DOMAIN calls' : calls'[k] = "nil" => k = Len(calls') /\ pc' = "done"
      <4> SUFFICES ASSUME NEW k \in DOMAIN calls', calls'[k] = "nil"
                   PROVE  k = Len(calls') /\ pc' = "done"
        OBVIOUS
      <4>1. k = attempt + 1 \/ k \in DOMAIN calls BY <1>a, <2>3
      <4>2. k \notin DOMAIN calls BY <1>t, <2>2, <2>3 DEF Returns
      <4> QED BY <2>1, <2>3, <4>1, <4>2
    <3>2. pc' = "done" => outcome' = r /\ outcome' = calls'[Len(calls')] BY <2>1, <2>3
    <3>3. pc' # "done" => outcome' = Unset BY <1>t, <2>1, <2>2 DEF Returns
    <3>4. outcome' = "err" /\ pc' = "done" => attempt = config.MaxAttempts
      <4>1. attempt \in 0 .. config.MaxAttempts BY <1>t DEF RetryType
      <4>2. outcome' = "err" /\ pc' = "done" => ~(attempt < config.MaxAttempts) BY <2>1
      <4> QED BY <1>a, <4>1, <4>2
    <3>5. r # "ctx" OBVIOUS
    <3> QED BY <2>2, <3>1, <3>2, <3>3, <3>4, <3>5 DEF Returns
  <2> QED BY <2>4, <2>5, <2>6, <2>7, <2>8 DEF RetryInv
<1>2. CASE Loop!Pause
  <2>1. /\ pc = "pause" /\ pauses' = Append(pauses, wait) /\ wait' = Loop!NextWait
        /\ attempt' = attempt + 1 /\ pc' = "call"
        /\ UNCHANGED <<method, config, cancelled, outcome, calls>>
    BY <1>2 DEF Loop!Pause
  <2>2. /\ pauses \in Seq(Nat) /\ wait \in Nat /\ Len(pauses) = attempt
        /\ wait = PauseOf(attempt + 1)
    BY <1>t DEF RetryType, Histories, Counts, Pauses
  <2>3. /\ pauses' \in Seq(Nat) /\ Len(pauses') = attempt + 1
        /\ DOMAIN pauses = 1 .. attempt /\ DOMAIN pauses' = 1 .. attempt + 1
        /\ pauses'[attempt + 1] = wait /\ \A k \in 1 .. attempt : pauses'[k] = pauses[k]
    <3>1. pauses' = Append(pauses, wait) BY <2>1
    <3> QED BY ONLY <2>2, <3>1
  <2>4. Loop!NextWait = PauseOf(attempt + 2) /\ Loop!NextWait \in Nat
    BY <1>a, <2>2, NextPause
  <2>5. attempt < config.MaxAttempts BY <1>t, <2>1 DEF Counts
  <2>6. RetryType' BY <1>t, <1>a, <2>1, <2>4, <2>5 DEF RetryType
  <2>7. Histories' BY <1>t, <2>1, <2>3 DEF Histories
  <2>8. Counts' BY <1>t, <2>1, <2>3 DEF Counts
  <2>9. Pauses'
    <3>1. \A k \in 1 .. attempt : pauses[k] = PauseOf(k) BY <1>t, <2>3 DEF Pauses
    <3>2. \A k \in 1 .. attempt + 1 : k = attempt + 1 \/ k \in 1 .. attempt BY <1>a
    <3>3. \A k \in DOMAIN pauses' : pauses'[k] = PauseOf(k) BY <2>2, <2>3, <3>1, <3>2
    <3>4. attempt' + 1 = attempt + 2 BY <1>a, <2>1
    <3>5. wait' = PauseOf(attempt' + 1) BY <2>1, <2>4, <3>4
    <3> QED BY <2>1, <3>3, <3>5, SameExpected DEF Pauses
  <2>10. Returns' BY <1>t, <2>1 DEF Returns
  <2> QED BY <2>6, <2>7, <2>8, <2>9, <2>10 DEF RetryInv
<1>3. CASE Loop!GiveUp
  <2>1. /\ pc = "pause" /\ cancelled /\ pc' = "done" /\ outcome' = "ctx"
        /\ UNCHANGED <<method, config, attempt, wait, cancelled, pauses, calls>>
    BY <1>3 DEF Loop!GiveUp
  <2>2. Pauses' BY <1>t, <2>1, SameExpected DEF Pauses
  <2>3. Returns' BY <1>t, <2>1 DEF Returns
  <2> QED BY <1>t, <2>1, <2>2, <2>3 DEF RetryInv, RetryType, Histories, Counts
<1>4. CASE Loop!Cancel
  <2>1. /\ cancelled' = TRUE
        /\ UNCHANGED <<method, config, attempt, wait, pc, outcome, pauses, calls>>
    BY <1>4 DEF Loop!Cancel
  <2>2. Pauses' BY <1>t, <2>1, SameExpected DEF Pauses
  <2>3. Returns' BY <1>t, <2>1 DEF Returns
  <2> QED BY <1>t, <2>1, <2>2, <2>3 DEF RetryInv, RetryType, Histories, Counts
<1>5. CASE UNCHANGED Loop!vars
  <2>1. UNCHANGED <<method, config, attempt, wait, pc, cancelled, outcome, pauses, calls>>
    BY <1>5 DEF Loop!vars
  <2>2. Pauses' BY <1>t, <2>1, SameExpected DEF Pauses
  <2> QED BY <1>t, <2>1, <2>2 DEF RetryInv, RetryType, Histories, Counts, Returns
<1> QED BY <1>1, <1>2, <1>3, <1>4, <1>5 DEF Loop!Next

LEMMA RetryTypeParts == RetryInv => Loop!TypeOK
BY DEF RetryInv, RetryType, Histories, Loop!TypeOK

LEMMA InvOutcomes == RetryInv => Loop!Outcomes
<1> SUFFICES ASSUME RetryInv PROVE Loop!Outcomes OBVIOUS
<1>1. attempt \in 0 .. config.MaxAttempts /\ config.MaxAttempts \in Nat
  BY ConfigFacts DEF RetryInv, RetryType
<1>2. Len(calls) <= config.MaxAttempts + 1 BY <1>1 DEF RetryInv, Counts
<1>3. outcome \in {"nil", "err", "ctx"} => pc = "done"
  BY UnsetAssumption DEF RetryInv, Returns
<1>4. pc = "done" => Len(calls) = attempt + 1 BY DEF RetryInv, Counts
<1> QED BY <1>1, <1>2, <1>3, <1>4 DEF RetryInv, Counts, Pauses, PauseOf, Returns, Loop!Outcomes

\* For any configuration: a loop calls at most MaxAttempts + 1 times and answers for its last
\* call or for its context; the pauses of Retry grow as its configuration asks.
THEOREM RetryOutcomes == Loop!Spec => []Loop!Outcomes
BY RetryInvInit, RetryInvNext, InvOutcomes, PTL DEF Loop!Spec

-----------------------------------------------------------------------------
(* The run explores the helpers one by one.  Only one of them takes steps. *)

RunInv == /\ subject = "limiter" => LimiterInv
          /\ subject = "sliding" => SlidingInv
          /\ subject = "cache" => StoreInv
          /\ subject = "retry" => RetryInv

LEMMA RunInit == Init => RunInv
BY LimiterInit, SlidingInvInit, StoreInit, RetryInvInit DEF Init, RunInv

LEMMA LimiterSteps ==
  ASSUME [Next]_vars, subject' = "limiter"
  PROVE  subject = "limiter" /\ [Limiter!Next]_(Limiter!vars)
<1>1. CASE Next BY <1>1 DEF Next, OfLimiter, OfSliding, OfStore, OfRetry, Is
<1>2. CASE UNCHANGED vars BY <1>2 DEF vars, ofLimiter, Limiter!vars, Limiter!bucket, Limiter!refill,
                                   Limiter!callers
<1> QED BY <1>1, <1>2

LEMMA SlidingSteps ==
  ASSUME [Next]_vars, subject' = "sliding"
  PROVE  subject = "sliding" /\ [Sliding!Next]_(Sliding!vars)
<1>1. CASE Next BY <1>1 DEF Next, OfLimiter, OfSliding, OfStore, OfRetry, Is
<1>2. CASE UNCHANGED vars BY <1>2 DEF vars, ofSliding, Sliding!vars
<1> QED BY <1>1, <1>2

LEMMA StoreSteps ==
  ASSUME [Next]_vars, subject' = "cache"
  PROVE  subject = "cache" /\ [Store!Next]_(Store!vars)
<1>1. CASE Next BY <1>1 DEF Next, OfLimiter, OfSliding, OfStore, OfRetry, Is
<1>2. CASE UNCHANGED vars BY <1>2 DEF vars, ofStore, Store!vars, Store!visible
<1> QED BY <1>1, <1>2

LEMMA RetrySteps ==
  ASSUME [Next]_vars, subject' = "retry"
  PROVE  subject = "retry" /\ [Loop!Next]_(Loop!vars)
<1>1. CASE Next BY <1>1 DEF Next, OfLimiter, OfSliding, OfStore, OfRetry, Is
<1>2. CASE UNCHANGED vars
  BY <1>2 DEF vars, ofRetry, Loop!vars, Loop!params, Loop!loopState, Loop!history
<1> QED BY <1>1, <1>2

LEMMA SubjectKept == [Next]_vars => subject' = subject
<1>1. Next => subject' = subject BY DEF Next, OfLimiter, OfSliding, OfStore, OfRetry, Is
<1>2. UNCHANGED vars => subject' = subject BY DEF vars
<1> QED BY <1>1, <1>2

LEMMA RunNext == RunInv /\ [Next]_vars => RunInv'
<1> SUFFICES ASSUME RunInv, [Next]_vars PROVE RunInv' OBVIOUS
<1>1. (subject = "limiter" => LimiterInv)' BY LimiterSteps, LimiterNext DEF RunInv
<1>2. (subject = "sliding" => SlidingInv)' BY SlidingSteps, SlidingInvNext DEF RunInv
<1>3. (subject = "cache" => StoreInv)' BY StoreSteps, StoreNext DEF RunInv
<1>4. (subject = "retry" => RetryInv)' BY RetrySteps, RetryInvNext DEF RunInv
<1> QED BY <1>1, <1>2, <1>3, <1>4 DEF RunInv

\* Each helper's variables keep their types.
THEOREM TypesCorrect == Spec => []TypeOK
<1>1. RunInv => TypeOK
  BY SlidingTypeParts, StoreTypeParts, RetryTypeParts DEF RunInv, LimiterInv, TypeOK
<1> QED BY RunInit, RunNext, <1>1, PTL DEF Spec

\* The bucket of the run, with any callers and any burst.
THEOREM BurstRespected == Spec => []TokensAccounted
<1>1. RunInv => TokensAccounted BY DEF RunInv, LimiterInv, TokensAccounted
<1> QED BY RunInit, RunNext, <1>1, PTL DEF Spec

\* The window of the run, with any callers, rate and window.
THEOREM RateKept == Spec => []RateRespected
<1>1. RunInv => RateRespected BY DEF RunInv, SlidingInv, RateRespected
<1> QED BY RunInit, RunNext, <1>1, PTL DEF Spec

\* Nobody is refused while fewer than rate grants lie within the last window.
THEOREM NoNeedlessDenial == Spec => DenialsJustified
<1>1. RunInv /\ [Next]_vars
        => [\A c \in Callers : subject = "sliding" => Sliding!DenialJustified(c)]_vars
  <2> SUFFICES ASSUME RunInv, Next, subject = "sliding", NEW c \in Callers
               PROVE  Sliding!DenialJustified(c)
    OBVIOUS
  <2>1. subject' = "sliding" BY DEF Next, OfLimiter, OfSliding, OfStore, OfRetry, Is
  <2> QED BY <2>1, SlidingSteps, DenialFair DEF RunInv
<1> QED BY RunInit, RunNext, <1>1, PTL DEF Spec, DenialsJustified

\* The retry loops of the run, with any configurations.
THEOREM OutcomesKept == Spec => []Outcomes
<1>1. RunInv => Outcomes BY InvOutcomes DEF RunInv, Outcomes
<1> QED BY RunInit, RunNext, <1>1, PTL DEF Spec

\* What Map sees is what the promise of Cache sees, while the cache is the subject, and
\* otherwise an empty map that never changes.
LEMMA SameMapInit == subject = "cache" /\ Store!Map!Init => Map!Init
BY DEF Store!Map!Init, Map!Init

LEMMA SameMap ==
  ASSUME subject = "cache", subject' = "cache", [Store!Map!Next]_(Store!Map!vars)
  PROVE  [Map!Next]_(Map!vars)
<1>1. ASSUME NEW k \in Keys, NEW v \in Values, NEW ttl \in TTLs, Store!Map!Set(k, v, ttl)
      PROVE  Map!Next
  <2>1. Map!Set(k, v, ttl) BY <1>1 DEF Store!Map!Set, Map!Set
  <2> QED BY <2>1 DEF Map!Next
<1>2. ASSUME NEW ks \in SUBSET Keys, Store!Map!Forget(ks) PROVE Map!Next
  <2>1. Map!Forget(ks) BY <1>2 DEF Store!Map!Forget, Map!Forget, Store!Map!Restrict, Map!Restrict
  <2> QED BY <2>1 DEF Map!Next
<1>3. ASSUME NEW k \in Keys, Store!Map!Get(k) PROVE Map!Next
  <2>1. Map!Get(k) BY <1>3 DEF Store!Map!Get, Map!Get
  <2> QED BY <2>1 DEF Map!Next
<1>a. CASE Store!Map!Size
  <2>1. Map!Size
    BY <1>a DEF Store!Map!Size, Map!Size, Store!Map!Cardinality, Map!Cardinality
  <2> QED BY <2>1 DEF Map!Next
<1>b. CASE Store!Map!Remove
  <2>1. Map!Remove BY <1>b DEF Store!Map!Remove, Map!Remove
  <2> QED BY <2>1 DEF Map!Next
<1>4. CASE Store!Map!List
  <2>1. Map!List BY <1>4 DEF Store!Map!List, Map!List
  <2> QED BY <2>1 DEF Map!Next
<1>5. CASE Store!Map!Stop
  <2>1. Map!Stop BY <1>5 DEF Store!Map!Stop, Map!Stop
  <2> QED BY <2>1 DEF Map!Next
<1>6. CASE Store!Map!Advance
  <2>1. Map!Advance
    BY <1>6 DEF Store!Map!Advance, Map!Advance, Store!Map!Restrict, Map!Restrict,
                Store!Map!Expiring, Map!Expiring
  <2> QED BY <2>1 DEF Map!Next
<1>7. CASE UNCHANGED Store!Map!vars BY <1>7 DEF Store!Map!vars, Map!vars
<1> QED BY <1>1, <1>2, <1>3, <1>a, <1>b, <1>4, <1>5, <1>6, <1>7 DEF Store!Map!Next

\* The cache of the run, with any keys, values and times to live.
THEOREM CacheIsTTLMap == Spec => ImplementsTTLMap
<1>1. Init => Map!Init
  <2> SUFFICES ASSUME Init PROVE Map!Init OBVIOUS
  <2>1. CASE subject = "cache" BY <2>1, MapInit, SameMapInit DEF Init
  <2>2. CASE subject # "cache" BY <2>2 DEF Map!Init
  <2> QED BY <2>1, <2>2
<1>2. RunInv /\ [Next]_vars => [Map!Next]_(Map!vars)
  <2> SUFFICES ASSUME RunInv, [Next]_vars PROVE [Map!Next]_(Map!vars) OBVIOUS
  <2>1. CASE subject = "cache"
    BY <2>1, SubjectKept, StoreSteps, MapNext, SameMap DEF RunInv
  <2>2. CASE subject # "cache" BY <2>2, SubjectKept DEF Map!vars
  <2> QED BY <2>1, <2>2
<1> QED BY RunInit, RunNext, <1>1, <1>2, PTL DEF Spec, ImplementsTTLMap, Map!Spec

=============================================================================
