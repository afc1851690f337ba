------------------------------ MODULE DataFacts -----------------------------
(***************************************************************************)
(* Lemmas about sequences that are used as channels, about numbers, and    *)
(* about what loops keep and sorts arrange.                                *)
(***************************************************************************)
EXTENDS Ordering, FiniteSetTheorems, WellFoundedInduction, TLAPS

-----------------------------------------------------------------------------
(* Channels *)

\* Receiving takes the first element and leaves the rest, in order.
LEMMA ReceiveFacts ==
  ASSUME NEW S, NEW q \in Seq(S), q # <<>>
  PROVE  /\ Head(q) \in S
         /\ Tail(q) \in Seq(S)
         /\ Len(q) \in Nat \ {0}
         /\ Len(Tail(q)) = Len(q) - 1
         /\ Head(q) = q[1]
         /\ \A i \in 1 .. Len(q) - 1 : Tail(q)[i] = q[i + 1]
OBVIOUS

\* Sending adds one element behind the others.
LEMMA SendFacts ==
  ASSUME NEW S, NEW q \in Seq(S), NEW x \in S
  PROVE  /\ Append(q, x) \in Seq(S)
         /\ Len(Append(q, x)) = Len(q) + 1
         /\ Append(q, x)[Len(q) + 1] = x
         /\ \A i \in 1 .. Len(q) : Append(q, x)[i] = q[i]
OBVIOUS

\* What a channel holds after a send.
LEMMA SendElements ==
  ASSUME NEW S, NEW q \in Seq(S), NEW x \in S
  PROVE  {Append(q, x)[i] : i \in DOMAIN Append(q, x)} = {q[i] : i \in DOMAIN q} \cup {x}
<1>1. DOMAIN Append(q, x) = DOMAIN q \cup {Len(q) + 1} OBVIOUS
<1>2. Append(q, x)[Len(q) + 1] = x BY SendFacts
<1>3. \A i \in DOMAIN q : Append(q, x)[i] = q[i] BY SendFacts
<1> QED BY ONLY <1>1, <1>2, <1>3

\* What a channel held before a receive.
LEMMA ReceiveElements ==
  ASSUME NEW S, NEW q \in Seq(S), q # <<>>
  PROVE  {q[i] : i \in DOMAIN q} = {Tail(q)[i] : i \in DOMAIN Tail(q)} \cup {Head(q)}
<1>1. /\ DOMAIN q = 1 .. Len(q) /\ Len(q) \in Nat \ {0}
      /\ DOMAIN Tail(q) = 1 .. Len(q) - 1
  OBVIOUS
<1>2. Head(q) = q[1] /\ \A i \in 1 .. Len(q) - 1 : Tail(q)[i] = q[i + 1] BY ReceiveFacts
<1>3. ASSUME NEW i \in DOMAIN q
      PROVE  q[i] \in {Tail(q)[k] : k \in DOMAIN Tail(q)} \cup {Head(q)}
  <2>1. CASE i = 1 BY <1>2, <2>1
  <2>2. CASE i # 1
    <3>1. i - 1 \in 1 .. Len(q) - 1 /\ (i - 1) + 1 = i BY <1>1, <2>2
    <3>2. Tail(q)[i - 1] = q[i] BY <1>2, <3>1
    <3> QED BY <1>1, <3>1, <3>2
  <2> QED BY <2>1, <2>2
<1>4. ASSUME NEW i \in DOMAIN Tail(q) PROVE Tail(q)[i] \in {q[k] : k \in DOMAIN q}
  <2>1. i + 1 \in DOMAIN q /\ Tail(q)[i] = q[i + 1] BY <1>1, <1>2
  <2> QED BY <2>1
<1>5. Head(q) \in {q[k] : k \in DOMAIN q} BY <1>1, <1>2
<1> QED BY <1>3, <1>4, <1>5

\* In a channel without repetitions the first element is not among the others.
LEMMA ReceiveDistinct ==
  ASSUME NEW S, NEW q \in Seq(S), q # <<>>,
         \A i, j \in DOMAIN q : i # j => q[i] # q[j]
  PROVE  /\ Head(q) \notin {Tail(q)[i] : i \in DOMAIN Tail(q)}
         /\ \A i, j \in DOMAIN Tail(q) : i # j => Tail(q)[i] # Tail(q)[j]
<1>1. /\ DOMAIN q = 1 .. Len(q) /\ Len(q) \in Nat \ {0}
      /\ DOMAIN Tail(q) = 1 .. Len(q) - 1
  OBVIOUS
<1>2. Head(q) = q[1] /\ \A i \in 1 .. Len(q) - 1 : Tail(q)[i] = q[i + 1] BY ReceiveFacts
<1>3. \A i \in DOMAIN Tail(q) : i + 1 \in DOMAIN q /\ i + 1 # 1 BY <1>1
<1>4. \A i, j \in DOMAIN Tail(q) : i # j => i + 1 # j + 1 BY <1>1
<1> QED BY <1>1, <1>2, <1>3, <1>4

\* Where a sequence has its elements.
LEMMA SeqDomain ==
  ASSUME NEW S, NEW s \in Seq(S)
  PROVE  Len(s) \in Nat /\ DOMAIN s = 1 .. Len(s) /\ \A i \in DOMAIN s : s[i] \in S
OBVIOUS

\* A sequence without repetitions has each of its elements once.
LEMMA TimesFacts ==
  ASSUME NEW s, NEW x, \A i, j \in DOMAIN s : i # j => s[i] # s[j]
  PROVE  Times(s, x) = IF x \in {s[i] : i \in DOMAIN s} THEN 1 ELSE 0
<1> DEFINE at == {k \in DOMAIN s : s[k] = x}
<1>1. CASE x \in {s[i] : i \in DOMAIN s}
  <2>1. PICK k \in DOMAIN s : s[k] = x BY <1>1
  <2>2. at = {k} BY <2>1
  <2>3. Cardinality({k}) = 1 BY FS_Singleton
  <2> QED BY <1>1, <2>2, <2>3 DEF Times
<1>2. CASE x \notin {s[i] : i \in DOMAIN s}
  <2>1. at = {} BY <1>2
  <2>2. Cardinality({}) = 0 BY FS_EmptySet
  <2> QED BY <1>2, <2>1, <2>2 DEF Times
<1> QED BY <1>1, <1>2

\* Appending something new keeps a sequence without repetitions.
LEMMA AppendDistinct ==
  ASSUME NEW S, NEW q \in Seq(S), NEW x \in S, x \notin {q[i] : i \in DOMAIN q},
         \A i, j \in DOMAIN q : i # j => q[i] # q[j]
  PROVE  \A i, j \in DOMAIN Append(q, x) : i # j => Append(q, x)[i] # Append(q, x)[j]
<1>1. DOMAIN Append(q, x) = DOMAIN q \cup {Len(q) + 1} OBVIOUS
<1>2. Append(q, x)[Len(q) + 1] = x BY SendFacts
<1>3. \A i \in DOMAIN q : Append(q, x)[i] = q[i] BY SendFacts
<1>4. \A i \in DOMAIN q : q[i] # x OBVIOUS
<1>5. \A i, j \in DOMAIN q : i # j => q[i] # q[j] OBVIOUS
<1> QED BY ONLY <1>1, <1>2, <1>3, <1>4, <1>5

-----------------------------------------------------------------------------
(* Numbers *)

\* A set of numbers has a least element.
LEMMA LeastElement ==
  ASSUME NEW T \in SUBSET Nat, T # {}
  PROVE  \E x \in T : \A y \in T : x <= y
<1> DEFINE R == OpToRel(<, Nat)
<1>1. IsWellFoundedOn(R, Nat) BY NatLessThanWellFounded
<1>2. \A x, y \in Nat : y < x => <<y, x>> \in R BY DEF OpToRel
<1> HIDE DEF R
<1>3. PICK x \in T : \A y \in T : ~ (<<y, x>> \in R) BY <1>1, WFMin
<1>4. \A y \in T : ~ (y < x) BY <1>2, <1>3
<1>5. \A y \in T : x <= y
  <2> SUFFICES ASSUME NEW y \in T PROVE x <= y OBVIOUS
  <2>1. x \in Nat /\ y \in Nat OBVIOUS
  <2> QED BY <1>4, <2>1
<1> QED BY <1>5

\* A set of places has a last one.
LEMMA GreatestElement ==
  ASSUME NEW n \in Nat, NEW P \in SUBSET (1 .. n), P # {}
  PROVE  \E x \in P : \A y \in P : y <= x
<1> DEFINE T == {k \in 0 .. n : n - k \in P}
<1>1. T \in SUBSET Nat /\ T # {}
  <2>1. PICK y \in P : TRUE OBVIOUS
  <2>2. n - y \in 0 .. n /\ n - (n - y) = y OBVIOUS
  <2>3. n - y \in T BY <2>1, <2>2
  <2>4. T \in SUBSET Nat OBVIOUS
  <2> HIDE DEF T
  <2> QED BY <2>3, <2>4
<1>2. PICK k \in T : \A l \in T : k <= l BY <1>1, LeastElement
<1>3. k \in 0 .. n /\ n - k \in P OBVIOUS
<1>4. ASSUME NEW y \in P PROVE y <= n - k
  <2>1. y \in 1 .. n /\ n - y \in 0 .. n /\ n - (n - y) = y OBVIOUS
  <2>2. n - y \in T BY <2>1
  <2>3. k <= n - y BY <1>2, <2>2
  <2> QED BY <1>3, <2>1, <2>3
<1> QED BY <1>3, <1>4

\* A set of numbers with 0 and the successor of each of its elements has them all.
LEMMA Induction ==
  ASSUME NEW S \in SUBSET Nat, 0 \in S, \A n \in Nat : n \in S => n + 1 \in S
  PROVE  S = Nat
<1> SUFFICES ASSUME Nat \ S # {} PROVE FALSE OBVIOUS
<1>1. PICK x \in Nat \ S : \A y \in Nat \ S : x <= y BY LeastElement
<1>2. x - 1 \in Nat /\ x - 1 \notin Nat \ S BY <1>1
<1> QED BY <1>1, <1>2

\* One more place.
LEMMA IntervalFacts ==
  ASSUME NEW n \in Nat
  PROVE  IsFiniteSet(1 .. n) /\ 1 .. n + 1 = (1 .. n) \cup {n + 1} /\ n + 1 \notin 1 .. n
<1>1. 1 \in Int /\ n \in Int OBVIOUS
<1>2. IsFiniteSet(1 .. n) BY <1>1, FS_Interval
<1> QED BY <1>2

-----------------------------------------------------------------------------
(* Orders *)

StrictOrder(S, R) ==
  /\ \A x \in S : <<x, x>> \notin R
  /\ \A x, y \in S : x # y => <<x, y>> \in R \/ <<y, x>> \in R
  /\ \A x, y, z \in S : <<x, y>> \in R /\ <<y, z>> \in R => <<x, z>> \in R

Rank(S, R, x) == Cardinality({y \in S : <<y, x>> \in R})

\* A member has fewer before it than one behind it.
LEMMA RankFacts ==
  ASSUME NEW S, IsFiniteSet(S), NEW R, StrictOrder(S, R), NEW x \in S
  PROVE  /\ Rank(S, R, x) \in 0 .. Cardinality(S) - 1
         /\ \A y \in S : <<x, y>> \in R => Rank(S, R, x) < Rank(S, R, y)
<1> DEFINE B(y) == {z \in S : <<z, y>> \in R}
<1>1. \A y \in S : IsFiniteSet(B(y)) /\ Cardinality(B(y)) \in Nat
  BY FS_Subset, FS_CardinalityType
<1>2. x \notin B(x) BY DEF StrictOrder
<1>3. Cardinality(B(x) \cup {x}) = Cardinality(B(x)) + 1
  BY <1>1, <1>2, FS_AddElement
<1>4. Cardinality(S) \in Nat /\ Cardinality(B(x) \cup {x}) <= Cardinality(S)
  BY FS_CardinalityType, FS_Subset
<1>5. ASSUME NEW y \in S, <<x, y>> \in R PROVE Rank(S, R, x) < Rank(S, R, y)
  <2>1. B(x) \cup {x} \subseteq B(y) BY <1>5 DEF StrictOrder
  <2>2. Cardinality(B(x) \cup {x}) <= Cardinality(B(y)) BY <1>1, <2>1, FS_Subset
  <2> QED BY <1>1, <1>3, <2>2 DEF Rank
<1>6. Rank(S, R, x) \in 0 .. Cardinality(S) - 1
  <2>1. Rank(S, R, x) = Cardinality(B(x)) BY DEF Rank
  <2>2. Cardinality(B(x)) \in Nat BY <1>1
  <2> HIDE DEF B
  <2> QED BY <1>3, <1>4, <2>1, <2>2
<1> QED BY <1>5, <1>6

\* Every number of predecessors is that of one member.
LEMMA AscendingFacts ==
  ASSUME NEW S, IsFiniteSet(S), NEW R, StrictOrder(S, R)
  PROVE  LET f == Ascending(S, R)
             N == 1 .. Cardinality(S)
         IN /\ Cardinality(S) \in Nat
            /\ f \in [N -> S]
            /\ \A k \in N : \A x \in S : Rank(S, R, x) = k - 1 <=> x = f[k]
            /\ \A x \in S : \E k \in N : x = f[k]
            /\ \A j, k \in N : j # k => f[j] # f[k]
            /\ \A j, k \in N : j < k => <<f[j], f[k]>> \in R
<1> DEFINE n == Cardinality(S)
           N == 1 .. n
           f == Ascending(S, R)
           rank == [x \in S |-> Rank(S, R, x)]
<1>1. n \in Nat BY FS_CardinalityType
<1>2. \A x \in S : rank[x] \in 0 .. n - 1 BY RankFacts
<1>3. \A x, y \in S : <<x, y>> \in R => rank[x] < rank[y] BY RankFacts
<1>4. \A x, y \in S : x # y => rank[x] # rank[y]
  <2> HIDE DEF rank
  <2>1. \A x \in S : rank[x] \in Int BY <1>1, <1>2
  <2>2. \A x, y \in S : x # y => <<x, y>> \in R \/ <<y, x>> \in R BY DEF StrictOrder
  <2>3. ASSUME NEW x \in S, NEW y \in S, x # y PROVE rank[x] # rank[y]
    <3>1. rank[x] < rank[y] \/ rank[y] < rank[x] BY <1>3, <2>2, <2>3
    <3> QED BY <2>1, <3>1
  <2> QED BY <2>3
<1>5. \A r \in 0 .. n - 1 : \E x \in S : rank[x] = r
  <2>1. rank \in [S -> 0 .. n - 1] BY <1>2
  <2> HIDE DEF rank, n
  <2>2. rank \in Injection(S, 0 .. n - 1)
    <3>1. \A x, y \in S : rank[x] = rank[y] => x = y BY <1>4
    <3>2. rank \in {M \in [S -> 0 .. n - 1] : \A x, y \in S : M[x] = M[y] => x = y} BY <2>1, <3>1
    <3> QED BY <3>2 DEF Injection, IsInjective
  <2>3. IsFiniteSet(0 .. n - 1) /\ Cardinality(0 .. n - 1) = n
    <3>1. 0 \in Int /\ n - 1 \in Int BY <1>1
    <3>2. IsFiniteSet(0 .. n - 1) /\ Cardinality(0 .. n - 1) = IF 0 > n - 1 THEN 0 ELSE (n - 1) - 0 + 1
      BY <3>1, FS_Interval
    <3> QED BY <1>1, <3>2
  <2>4. rank \in Surjection(S, 0 .. n - 1)
    <3>1. Cardinality(S) = Cardinality(0 .. n - 1) BY <2>3 DEF n
    <3> QED BY <2>2, <2>3, <3>1, FS_Injection
  <2> QED BY <2>4 DEF Surjection
<1>6. \A x \in S : rank[x] = Rank(S, R, x) OBVIOUS
<1>7. f = [k \in N |-> CHOOSE x \in S : Rank(S, R, x) = k - 1] BY DEF Ascending, Rank
<1> HIDE DEF rank, f, n
<1>8. \A k \in N : f[k] \in S /\ rank[f[k]] = k - 1
  <2> SUFFICES ASSUME NEW k \in N PROVE f[k] \in S /\ rank[f[k]] = k - 1 OBVIOUS
  <2>1. k - 1 \in 0 .. n - 1 BY <1>1
  <2>2. PICK x \in S : rank[x] = k - 1 BY <1>5, <2>1
  <2>3. f[k] = CHOOSE y \in S : Rank(S, R, y) = k - 1 BY <1>7
  <2> QED BY <1>6, <2>2, <2>3
<1>9. f \in [N -> S] BY <1>7, <1>8
<1>10. \A k \in N : \A x \in S : rank[x] = k - 1 <=> x = f[k] BY <1>4, <1>8
<1>11. ASSUME NEW x \in S PROVE \E k \in N : x = f[k]
  <2>1. rank[x] + 1 \in N /\ rank[x] = (rank[x] + 1) - 1 BY <1>1, <1>2
  <2> QED BY <1>10, <2>1
<1>12. \A j, k \in N : j # k => f[j] # f[k] BY <1>1, <1>8
<1>13. ASSUME NEW j \in N, NEW k \in N, j < k PROVE <<f[j], f[k]>> \in R
  <2>1. f[j] # f[k] BY <1>12, <1>13
  <2>2. <<f[k], f[j]>> \notin R
    <3> SUFFICES ASSUME <<f[k], f[j]>> \in R PROVE FALSE OBVIOUS
    <3>1. k - 1 < j - 1 BY <1>3, <1>8
    <3> QED BY <1>1, <1>13, <3>1
  <2> QED BY <1>8, <2>1, <2>2 DEF StrictOrder
<1>14. \A k \in N : \A x \in S : Rank(S, R, x) = k - 1 <=> x = f[k] BY <1>6, <1>10
<1> QED BY <1>1, <1>9, <1>11, <1>12, <1>13, <1>14 DEF f, n

\* f leads from each element of a to its place among the places P of s.
Places(s, P, R, a, f) ==
  /\ Len(a) = Cardinality(P)
  /\ f \in [DOMAIN a -> P]
  /\ \A k \in DOMAIN a : a[k] = s[f[k]]
  /\ \A i \in P : \E k \in DOMAIN a : i = f[k]
  /\ \A j, k \in DOMAIN a : j # k => f[j] # f[k]
  /\ \A j, k \in DOMAIN a : j < k => <<f[j], f[k]>> \in R

LEMMA ArrangeFacts ==
  ASSUME NEW T, NEW s \in Seq(T), NEW P \in SUBSET DOMAIN s, NEW R, StrictOrder(P, R)
  PROVE  /\ IsFiniteSet(P) /\ Cardinality(P) \in Nat
         /\ Arrange(s, P, R) \in Seq(T)
         /\ Places(s, P, R, Arrange(s, P, R), Ascending(P, R))
<1> DEFINE a == Arrange(s, P, R)
           f == Ascending(P, R)
           n == Cardinality(P)
<1>1. IsFiniteSet(P)
  <2>1. DOMAIN s = 1 .. Len(s) /\ Len(s) \in Nat OBVIOUS
  <2>2. 1 \in Int /\ Len(s) \in Int BY <2>1
  <2>3. IsFiniteSet(1 .. Len(s)) BY <2>2, FS_Interval
  <2> QED BY <2>1, <2>3, FS_Subset
<1>2. /\ n \in Nat /\ f \in [1 .. n -> P]
      /\ \A i \in P : \E k \in 1 .. n : i = f[k]
      /\ \A j, k \in 1 .. n : j # k => f[j] # f[k]
      /\ \A j, k \in 1 .. n : j < k => <<f[j], f[k]>> \in R
  BY <1>1, AscendingFacts
<1>3. a = [k \in 1 .. n |-> s[f[k]]] BY DEF Arrange
<1> HIDE DEF a, f, n
<1>4. \A k \in 1 .. n : s[f[k]] \in T BY <1>2
<1>5. a \in Seq(T) /\ Len(a) = n /\ DOMAIN a = 1 .. n BY <1>2, <1>3, <1>4
<1>6. \A k \in DOMAIN a : a[k] = s[f[k]] BY <1>3, <1>5
<1> QED BY <1>1, <1>2, <1>5, <1>6 DEF a, f, n, Places

Increasing(P) == {e \in P \X P : e[1] < e[2]}

LEMMA IncreasingOrder ==
  ASSUME NEW P \in SUBSET Int
  PROVE  StrictOrder(P, Increasing(P)) /\ \A i, j \in P : <<i, j>> \in Increasing(P) <=> i < j
<1>1. \A i, j \in P : <<i, j>> \in Increasing(P) <=> i < j BY DEF Increasing
<1>2. P \subseteq Int OBVIOUS
<1> QED BY <1>1, <1>2 DEF StrictOrder

\* What is kept of a sequence: the elements at the places, as they come.
LEMMA KeepFacts ==
  ASSUME NEW T, NEW s \in Seq(T), NEW P \in SUBSET DOMAIN s
  PROVE  LET a == Keep(s, P)
         IN /\ a \in Seq(T) /\ Len(a) = Cardinality(P) /\ Cardinality(P) \in Nat
            /\ \E f \in [DOMAIN a -> P] :
                 /\ \A k \in DOMAIN a : a[k] = s[f[k]]
                 /\ \A i \in P : \E k \in DOMAIN a : i = f[k]
                 /\ \A j, k \in DOMAIN a : j < k => f[j] < f[k]
<1> DEFINE R == Increasing(P)
           a == Arrange(s, P, R)
           f == Ascending(P, R)
<1>1. P \in SUBSET Int OBVIOUS
<1>2. StrictOrder(P, R) /\ \A i, j \in P : <<i, j>> \in R <=> i < j BY <1>1, IncreasingOrder
<1>3. Keep(s, P) = a BY DEF Keep, Increasing
<1> HIDE DEF R
<1>4. a \in Seq(T) /\ Cardinality(P) \in Nat /\ Places(s, P, R, a, f)
  <2>1. StrictOrder(P, R) BY <1>2
  <2> QED BY ONLY <2>1, ArrangeFacts
<1> HIDE DEF a, f
<1>5. \A j, k \in DOMAIN a : j < k => f[j] < f[k] BY <1>2, <1>4 DEF Places
<1> QED BY <1>3, <1>4, <1>5 DEF Places
=============================================================================
