--------------------------- MODULE LookupsProofs ---------------------------
(***************************************************************************)
(* Theorems about the subjects of MCLookups, each with every value of its  *)
(* constants: BGPTopology, DNSQuery, RPKI, ASNLookup, BGPCommands, Registry. *)
(***************************************************************************)
EXTENDS MCLookups, DataFacts, FiniteSetTheorems, TLAPS

-----------------------------------------------------------------------------
(* Sums *)

\* What holds of a set when it holds of all smaller ones holds of every set.
LEMMA BySize ==
  ASSUME NEW S, IsFiniteSet(S), NEW P \in SUBSET SUBSET S,
         \A s \in SUBSET S :
           (\A t \in SUBSET S : Cardinality(t) < Cardinality(s) => t \in P) => s \in P
  PROVE  P = SUBSET S
<1> SUFFICES ASSUME (SUBSET S) \ P # {} PROVE FALSE OBVIOUS
<1> DEFINE Sizes == {Cardinality(s) : s \in (SUBSET S) \ P}
<1>1. \A s \in SUBSET S : Cardinality(s) \in Nat BY FS_Subset, FS_CardinalityType
<1>2. Sizes \in SUBSET Nat /\ Sizes # {} BY <1>1
<1>3. PICK n \in Sizes : \A m \in Sizes : n <= m BY <1>2, LeastElement
<1>4. PICK s \in (SUBSET S) \ P : n = Cardinality(s) BY <1>3
<1>5. ASSUME NEW t \in SUBSET S, Cardinality(t) < Cardinality(s) PROVE t \in P
  <2> SUFFICES ASSUME t \notin P PROVE FALSE OBVIOUS
  <2>1. Cardinality(s) <= Cardinality(t) BY <1>3, <1>4
  <2> QED BY <1>1, <1>5, <2>1
<1> QED BY <1>4, <1>5

Pick(s) == CHOOSE x \in s : TRUE

LEMMA PickFacts ==
  ASSUME NEW S, IsFiniteSet(S), NEW s \in SUBSET S, NEW x \in s
  PROVE  /\ Cardinality(s) \in Nat \ {0}
         /\ Cardinality(s \ {x}) = Cardinality(s) - 1
         /\ s \ {x} \in SUBSET S
<1>1. IsFiniteSet(s) BY FS_Subset
<1>2. Cardinality(s) \in Nat BY <1>1, FS_CardinalityType
<1>3. Cardinality(s) # 0 BY <1>1, FS_EmptySet
<1>4. Cardinality(s \ {x}) = Cardinality(s) - 1 BY <1>1, FS_RemoveElement
<1> QED BY <1>2, <1>3, <1>4

\* g gives each subset of S the sum of f over it, the picked elements first.
Adds(g, f, S) ==
  \A s \in SUBSET S : g[s] = IF s = {} THEN 0 ELSE f[Pick(s)] + g[s \ {Pick(s)}]

Small(S, n) == {s \in SUBSET S : Cardinality(s) <= n}
AddsUpTo(f, S, n) ==
  {g \in [Small(S, n) -> Nat] :
     \A s \in Small(S, n) : g[s] = IF s = {} THEN 0 ELSE f[Pick(s)] + g[s \ {Pick(s)}]}

\* The recursive definition of a sum has a solution.
LEMMA SumsExist ==
  ASSUME NEW S, IsFiniteSet(S), NEW f \in [S -> Nat], NEW n \in Nat
  PROVE  AddsUpTo(f, S, n) # {}
<1> DEFINE N == {k \in Nat : AddsUpTo(f, S, k) # {}}
<1>1. \A s \in SUBSET S : IsFiniteSet(s) /\ Cardinality(s) \in Nat
  BY FS_Subset, FS_CardinalityType
<1>2. 0 \in N
  <2>1. \A s \in Small(S, 0) : s = {} BY <1>1, FS_EmptySet DEF Small
  <2> DEFINE g == [s \in Small(S, 0) |-> 0]
  <2>2. g \in AddsUpTo(f, S, 0) BY <2>1 DEF AddsUpTo
  <2> QED BY <2>2
<1>3. ASSUME NEW k \in Nat, k \in N PROVE k + 1 \in N
  <2>1. PICK g : g \in AddsUpTo(f, S, k) BY <1>3
  <2> DEFINE val(s) == IF s = {} THEN 0 ELSE f[Pick(s)] + g[s \ {Pick(s)}]
             h == [s \in Small(S, k + 1) |-> val(s)]
  <2>2. g \in [Small(S, k) -> Nat] /\ \A s \in Small(S, k) : g[s] = val(s)
    BY <2>1 DEF AddsUpTo
  <2>3. ASSUME NEW s \in Small(S, k + 1), s # {}
        PROVE  Pick(s) \in s /\ s \ {Pick(s)} \in Small(S, k) /\ f[Pick(s)] \in Nat
    <3>1. s \in SUBSET S /\ Cardinality(s) <= k + 1 BY DEF Small
    <3>2. Pick(s) \in s BY <2>3 DEF Pick
    <3>3. Cardinality(s \ {Pick(s)}) = Cardinality(s) - 1 BY <3>1, <3>2, PickFacts
    <3> QED BY <1>1, <3>1, <3>2, <3>3 DEF Small
  <2>4. \A s \in Small(S, k) : s \in Small(S, k + 1) BY <1>1 DEF Small
  <2>5. \A s \in Small(S, k + 1) : val(s) \in Nat BY <2>2, <2>3
  <2>6. h \in [Small(S, k + 1) -> Nat] BY <2>5
  <2>7. \A s \in Small(S, k) : h[s] = g[s] BY <2>2, <2>4
  <2>8. ASSUME NEW s \in Small(S, k + 1)
        PROVE  h[s] = IF s = {} THEN 0 ELSE f[Pick(s)] + h[s \ {Pick(s)}]
    <3>1. CASE s = {} BY <3>1
    <3>2. CASE s # {}
      <4>1. h[s \ {Pick(s)}] = g[s \ {Pick(s)}] BY <2>3, <2>7, <3>2
      <4>2. h[s] = f[Pick(s)] + g[s \ {Pick(s)}] BY <3>2
      <4> QED BY <3>2, <4>1, <4>2
    <3> QED BY <3>1, <3>2
  <2> HIDE DEF h
  <2>9. h \in AddsUpTo(f, S, k + 1) BY <2>6, <2>8 DEF AddsUpTo
  <2> QED BY <2>9
<1>4. N \in SUBSET Nat OBVIOUS
<1> HIDE DEF N
<1>5. N = Nat BY <1>2, <1>3, <1>4, Induction
<1> QED BY <1>5 DEF N

\* SumFunction is the sum of such a solution.
LEMMA SumSolves ==
  ASSUME NEW S, IsFiniteSet(S), NEW f \in [S -> Nat]
  PROVE  \E g \in [SUBSET S -> Nat] : Adds(g, f, S) /\ Topology!SumFunction(f) = g[S]
<1> DEFINE val(g, s) == IF s = {} THEN 0 ELSE f[Pick(s)] + g[s \ {Pick(s)}]
           Solves(g) == g = [s \in SUBSET S |-> val(g, s)]
           iter == CHOOSE g : Solves(g)
<1>1. Cardinality(S) \in Nat /\ Small(S, Cardinality(S)) = SUBSET S
  BY FS_CardinalityType, FS_Subset DEF Small
<1>2. PICK q : q \in AddsUpTo(f, S, Cardinality(S)) BY <1>1, SumsExist
<1>3. q \in [SUBSET S -> Nat] /\ \A s \in SUBSET S : q[s] = val(q, s)
  BY <1>1, <1>2 DEF AddsUpTo
<1>4. Solves(q) BY <1>3
<1>5. Solves(iter) BY <1>4
<1>6. Topology!SumFunction(f) = iter[S]
  BY DEF Topology!SumFunction, Topology!SumFunctionOnSet, Topology!FoldFunctionOnSet,
         Topology!MapThenFoldSet, Pick
<1> HIDE DEF iter
<1>7. Adds(iter, f, S) BY <1>5 DEF Adds
<1>8. iter \in [SUBSET S -> Nat]
  <2> DEFINE P == {s \in SUBSET S : iter[s] \in Nat}
  <2>1. ASSUME NEW s \in SUBSET S,
               \A t \in SUBSET S : Cardinality(t) < Cardinality(s) => t \in P
        PROVE  s \in P
    <3>1. CASE s = {}
      <4>1. iter[s] = 0 BY <1>7, <3>1 DEF Adds
      <4> QED BY <4>1
    <3>2. CASE s # {}
      <4>1. Pick(s) \in s BY <3>2 DEF Pick
      <4>2. s \ {Pick(s)} \in P BY <2>1, <4>1, PickFacts
      <4>3. iter[s] = f[Pick(s)] + iter[s \ {Pick(s)}] BY <1>7, <3>2 DEF Adds
      <4> QED BY <4>1, <4>2, <4>3
    <3> QED BY <3>1, <3>2
  <2>2. P \in SUBSET SUBSET S OBVIOUS
  <2> HIDE DEF P
  <2>3. P = SUBSET S BY <2>1, <2>2, BySize
  <2> QED BY <1>5, <2>3 DEF P
<1> QED BY <1>6, <1>7, <1>8

\* Sums of functions that agree are the same.
LEMMA SumsAgree ==
  ASSUME NEW S, IsFiniteSet(S), NEW T \in SUBSET S, NEW f, NEW h, \A x \in T : h[x] = f[x],
         NEW g, Adds(g, f, S), NEW k, Adds(k, h, T), NEW s \in SUBSET T
  PROVE  g[s] = k[s]
<1> DEFINE P == {t \in SUBSET T : g[t] = k[t]}
<1>1. IsFiniteSet(T) BY FS_Subset
<1>2. ASSUME NEW t \in SUBSET T,
             \A u \in SUBSET T : Cardinality(u) < Cardinality(t) => u \in P
      PROVE  t \in P
  <2>1. CASE t = {} BY <2>1 DEF Adds
  <2>2. CASE t # {}
    <3>1. Pick(t) \in t BY <2>2 DEF Pick
    <3>2. t \ {Pick(t)} \in P BY <1>1, <1>2, <3>1, PickFacts
    <3>3. t \in SUBSET S OBVIOUS
    <3> QED BY <2>2, <3>1, <3>2, <3>3 DEF Adds
  <2> QED BY <2>1, <2>2
<1>3. P \in SUBSET SUBSET T OBVIOUS
<1> HIDE DEF P
<1>4. P = SUBSET T BY <1>1, <1>2, <1>3, BySize
<1> QED BY <1>4 DEF P

\* A sum does not depend on the element that is added last.
LEMMA SumsExtract ==
  ASSUME NEW S, IsFiniteSet(S), NEW f \in [S -> Nat], NEW g \in [SUBSET S -> Nat], Adds(g, f, S),
         NEW s \in SUBSET S, NEW x \in s
  PROVE  g[s] = f[x] + g[s \ {x}]
<1> DEFINE P == {t \in SUBSET S : \A y \in t : g[t] = f[y] + g[t \ {y}]}
<1>1. ASSUME NEW t \in SUBSET S,
             \A u \in SUBSET S : Cardinality(u) < Cardinality(t) => u \in P
      PROVE  t \in P
  <2> SUFFICES ASSUME NEW y \in t PROVE g[t] = f[y] + g[t \ {y}] OBVIOUS
  <2> DEFINE p == Pick(t)
             rest == (t \ {p}) \ {y}
  <2>1. p \in t BY DEF Pick
  <2>2. g[t] = f[p] + g[t \ {p}] BY DEF Adds
  <2> HIDE DEF p
  <2>3. CASE y = p BY <2>2, <2>3
  <2>4. CASE y # p
    <3>1. t \ {p} \in P /\ t \ {y} \in P BY <1>1, <2>1, PickFacts
    <3>2. y \in t \ {p} /\ p \in t \ {y} BY <2>1, <2>4
    <3>3. rest = (t \ {y}) \ {p} OBVIOUS
    <3>4. g[t \ {p}] = f[y] + g[rest] /\ g[t \ {y}] = f[p] + g[rest] BY <3>1, <3>2, <3>3
    <3>5. f[y] \in Nat /\ f[p] \in Nat /\ g[rest] \in Nat BY <2>1
    <3> QED BY <2>2, <3>4, <3>5
  <2> QED BY <2>3, <2>4
<1>2. P \in SUBSET SUBSET S OBVIOUS
<1> HIDE DEF P
<1>3. P = SUBSET S BY <1>1, <1>2, BySize
<1> QED BY <1>3 DEF P

\* The sum over no element, and the sum over one element more.
LEMMA SumOfNothing ==
  ASSUME NEW f \in [{} -> Nat]
  PROVE  Topology!SumFunction(f) = 0
<1>1. IsFiniteSet({}) BY FS_EmptySet
<1> QED BY <1>1, SumSolves DEF Adds

LEMMA SumOfOneMore ==
  ASSUME NEW S, IsFiniteSet(S), NEW f \in [S -> Nat], NEW x \in S
  PROVE  LET rest == [y \in S \ {x} |-> f[y]]
         IN /\ Topology!SumFunction(f) = f[x] + Topology!SumFunction(rest)
            /\ Topology!SumFunction(rest) \in Nat
<1> DEFINE T == S \ {x}
           rest == [y \in T |-> f[y]]
<1>1. IsFiniteSet(T) /\ T \in SUBSET S /\ rest \in [T -> Nat] BY FS_Subset
<1>2. PICK g \in [SUBSET S -> Nat] : Adds(g, f, S) /\ Topology!SumFunction(f) = g[S]
  BY SumSolves
<1>3. PICK k \in [SUBSET T -> Nat] : Adds(k, rest, T) /\ Topology!SumFunction(rest) = k[T]
  BY <1>1, SumSolves
<1>4. g[S] = f[x] + g[T] BY <1>2, SumsExtract
<1>5. g[T] = k[T]
  <2>1. \A y \in T : rest[y] = f[y] OBVIOUS
  <2> HIDE DEF rest
  <2> QED BY <1>1, <1>2, <1>3, <2>1, SumsAgree
<1> QED BY <1>2, <1>3, <1>4, <1>5

\* A number that grows by one, a new 0, and zeros that are left out.
LEMMA SumWithBump ==
  ASSUME NEW S, IsFiniteSet(S), NEW f \in [S -> Nat], NEW h \in [S -> Nat], NEW x \in S,
         h[x] = f[x] + 1, \A y \in S \ {x} : h[y] = f[y]
  PROVE  Topology!SumFunction(h) = Topology!SumFunction(f) + 1
<1> DEFINE F == [y \in S \ {x} |-> f[y]]
           H == [y \in S \ {x} |-> h[y]]
<1>1. F = H OBVIOUS
<1>2. /\ Topology!SumFunction(f) = f[x] + Topology!SumFunction(F)
      /\ Topology!SumFunction(F) \in Nat
  BY SumOfOneMore
<1>3. Topology!SumFunction(h) = h[x] + Topology!SumFunction(H) BY SumOfOneMore
<1> HIDE DEF F, H
<1> QED BY <1>1, <1>2, <1>3

LEMMA SumWithZero ==
  ASSUME NEW S, IsFiniteSet(S), NEW f \in [S -> Nat], NEW x, x \notin S,
         NEW h \in [S \cup {x} -> Nat], h[x] = 0, \A y \in S : h[y] = f[y]
  PROVE  Topology!SumFunction(h) = Topology!SumFunction(f)
<1> DEFINE H == [y \in (S \cup {x}) \ {x} |-> h[y]]
<1>1. IsFiniteSet(S \cup {x}) BY FS_AddElement
<1>2. H = f
  <2>1. (S \cup {x}) \ {x} = S OBVIOUS
  <2>2. H = [y \in S |-> f[y]] BY <2>1
  <2> QED BY <2>2
<1>3. Topology!SumFunction(h) = h[x] + Topology!SumFunction(H) /\ Topology!SumFunction(H) \in Nat
  BY <1>1, SumOfOneMore
<1> HIDE DEF H
<1> QED BY <1>2, <1>3

LEMMA SumWithoutZeros ==
  ASSUME NEW S, IsFiniteSet(S), NEW f \in [S -> Nat], NEW T \in SUBSET S,
         \A x \in S \ T : f[x] = 0
  PROVE  Topology!SumFunction([x \in T |-> f[x]]) = Topology!SumFunction(f)
<1> DEFINE h == [x \in T |-> f[x]]
           Z == S \ T
<1>1. IsFiniteSet(T) /\ IsFiniteSet(Z) BY FS_Subset
<1>2. PICK g \in [SUBSET S -> Nat] : Adds(g, f, S) /\ Topology!SumFunction(f) = g[S]
  BY SumSolves
<1>3. h \in [T -> Nat] OBVIOUS
<1>4. PICK k \in [SUBSET T -> Nat] : Adds(k, h, T) /\ Topology!SumFunction(h) = k[T]
  BY <1>1, <1>3, SumSolves
<1>5. g[T] = k[T]
  <2>1. \A x \in T : h[x] = f[x] OBVIOUS
  <2> HIDE DEF h
  <2> QED BY <1>2, <1>4, <2>1, SumsAgree
<1> DEFINE P == {z \in SUBSET Z : g[T \cup z] = g[T]}
<1>6. ASSUME NEW z \in SUBSET Z,
             \A u \in SUBSET Z : Cardinality(u) < Cardinality(z) => u \in P
      PROVE  z \in P
  <2>1. CASE z = {}
    <3>1. T \cup z = T BY <2>1
    <3> QED BY <3>1
  <2>2. CASE z # {}
    <3>1. PICK x \in z : TRUE BY <2>2
    <3>2. z \ {x} \in P
      <4>1. Cardinality(z \ {x}) < Cardinality(z) /\ z \ {x} \in SUBSET Z
        BY <1>1, PickFacts
      <4> QED BY <1>6, <4>1
    <3>3. (T \cup z) \ {x} = T \cup (z \ {x}) /\ x \in T \cup z /\ T \cup z \in SUBSET S
      OBVIOUS
    <3> DEFINE s == T \cup z
    <3>6. s \in SUBSET S /\ x \in s BY <3>3
    <3> HIDE DEF s
    <3>7. g[s] = f[x] + g[s \ {x}] BY <1>2, <3>6, SumsExtract
    <3>4. g[T \cup z] = f[x] + g[T \cup (z \ {x})] BY <3>3, <3>7 DEF s
    <3>5. f[x] = 0 /\ g[T] \in Nat BY <3>1
    <3> QED BY <3>2, <3>4, <3>5
  <2> QED BY <2>1, <2>2
<1>7. P \in SUBSET SUBSET Z OBVIOUS
<1> HIDE DEF P, Z
<1>8. P = SUBSET Z
  <2>1. \A z \in SUBSET Z :
          (\A u \in SUBSET Z : Cardinality(u) < Cardinality(z) => u \in P) => z \in P
    BY <1>6
  <2> QED BY <1>1, <1>7, <2>1, BySize
<1>9. g[T \cup Z] = g[T] /\ T \cup Z = S BY <1>8 DEF P, Z
<1> QED BY <1>2, <1>4, <1>5, <1>9

-----------------------------------------------------------------------------
(* The topology *)

NodeType == [country : Countries, count : Nat, ips : Seq(Blocks)]
SelfType == [asn : Systems, country : Countries, count : {0}]
LinkType == [from : Systems, to : Systems, kind : Topology!Kinds]

\* What a topology is made of.
TopoType(t) ==
  /\ t = [Self |-> t.Self, Nodes |-> t.Nodes, Links |-> t.Links, Prefix |-> t.Prefix]
  /\ t.Self \in SelfType \cup {NoSelf}
  /\ t.Nodes \in [DOMAIN t.Nodes -> NodeType]
  /\ DOMAIN t.Nodes \subseteq Systems /\ IsFiniteSet(DOMAIN t.Nodes)
  /\ t.Links \in Seq(LinkType)
  /\ t.Prefix \in [DOMAIN t.Prefix -> DOMAIN t.Nodes] /\ DOMAIN t.Prefix \subseteq Blocks

Listed(t, a) == {t.Nodes[a].ips[i] : i \in DOMAIN t.Nodes[a].ips}
Indexed(t) == /\ \A a \in DOMAIN t.Nodes : Listed(t, a) \subseteq DOMAIN t.Prefix
              /\ \A p \in DOMAIN t.Prefix : p \in Listed(t, t.Prefix[p])
CountsOf(t) == [a \in DOMAIN t.Nodes |-> t.Nodes[a].count]

LEMMA CountsType == ASSUME NEW t, TopoType(t) PROVE CountsOf(t) \in [DOMAIN t.Nodes -> Nat]
BY DEF TopoType, CountsOf, NodeType

LEMMA NewTopologyFacts ==
  LET t == Topology!NewBGPTopology
  IN TopoType(t) /\ Indexed(t) /\ Topology!SumFunction(CountsOf(t)) = 0
<1> DEFINE t == Topology!NewBGPTopology
<1>1. /\ t = [Self |-> NoSelf, Nodes |-> <<>>, Links |-> <<>>, Prefix |-> <<>>]
      /\ t.Self = NoSelf /\ t.Nodes = <<>> /\ t.Links = <<>> /\ t.Prefix = <<>>
  BY DEF Topology!NewBGPTopology
<1> HIDE DEF t
<1>2. DOMAIN t.Nodes = {} /\ DOMAIN t.Prefix = {} BY <1>1
<1>3. TopoType(t) BY <1>1, <1>2, FS_EmptySet DEF TopoType
<1>4. Indexed(t) BY <1>2 DEF Indexed
<1>5. CountsOf(t) \in [{} -> Nat] BY <1>2 DEF CountsOf
<1> QED BY <1>3, <1>4, <1>5, SumOfNothing DEF t

LEMMA AddNodeFacts ==
  ASSUME NEW t, TopoType(t), NEW a \in Systems, NEW c \in Countries
  PROVE  LET u == Topology!AddNode(t, a, c)
         IN /\ TopoType(u) /\ a \in DOMAIN u.Nodes
            /\ u.Self = t.Self /\ u.Prefix = t.Prefix
            /\ Indexed(t) => Indexed(u)
            /\ Topology!SumFunction(CountsOf(u)) = Topology!SumFunction(CountsOf(t))
<1> DEFINE u == Topology!AddNode(t, a, c)
           D == DOMAIN t.Nodes
<1>1. CASE a \in D BY <1>1 DEF Topology!AddNode
<1>2. CASE a \notin D
  <2>1. /\ u = [Self |-> t.Self, Nodes |-> u.Nodes, Links |-> t.Links, Prefix |-> t.Prefix]
        /\ u.Nodes = [b \in D \cup {a} |-> IF b = a THEN Topology!Node(c) ELSE t.Nodes[b]]
    BY <1>2 DEF Topology!AddNode, Topology!Put, TopoType
  <2> HIDE DEF u
  <2>2. u.Self = t.Self /\ u.Links = t.Links /\ u.Prefix = t.Prefix BY <2>1
  <2>3. /\ DOMAIN u.Nodes = D \cup {a} /\ u.Nodes[a] = [country |-> c, count |-> 0, ips |-> <<>>]
        /\ \A b \in D : u.Nodes[b] = t.Nodes[b]
    BY <1>2, <2>1 DEF Topology!Node
  <2>4. u.Nodes \in [D \cup {a} -> NodeType]
    <3>1. [country |-> c, count |-> 0, ips |-> <<>>] \in NodeType BY DEF NodeType
    <3> QED BY <2>1, <2>3, <3>1 DEF TopoType
  <2>5. TopoType(u)
    <3>1. IsFiniteSet(D \cup {a}) BY FS_AddElement DEF TopoType
    <3> QED BY <2>1, <2>2, <2>3, <2>4, <3>1 DEF TopoType
  <2>6. ASSUME Indexed(t) PROVE Indexed(u)
    <3>1. Listed(u, a) = {} BY <2>3 DEF Listed
    <3>2. \A b \in D : Listed(u, b) = Listed(t, b) BY <2>3 DEF Listed
    <3>3. \A p \in DOMAIN t.Prefix : t.Prefix[p] \in D BY DEF TopoType
    <3> QED BY <2>2, <2>3, <2>6, <3>1, <3>2, <3>3 DEF Indexed
  <2>7. Topology!SumFunction(CountsOf(u)) = Topology!SumFunction(CountsOf(t))
    <3>1. CountsOf(t) \in [D -> Nat] /\ CountsOf(u) \in [D \cup {a} -> Nat]
      BY <2>3, <2>5, CountsType
    <3>2. CountsOf(u)[a] = 0 /\ \A b \in D : CountsOf(u)[b] = CountsOf(t)[b]
      BY <2>3 DEF CountsOf
    <3>3. IsFiniteSet(D) BY DEF TopoType
    <3> QED BY <1>2, <3>1, <3>2, <3>3, SumWithZero
  <2> QED BY <2>2, <2>3, <2>5, <2>6, <2>7 DEF u
<1> QED BY <1>1, <1>2

LEMMA AddPrefixFacts ==
  ASSUME NEW t, TopoType(t), NEW a \in Systems, NEW p \in Blocks
  PROVE  LET u == Topology!AddPrefix(t, a, p)
         IN /\ TopoType(u) /\ u.Self = t.Self
            /\ Indexed(t) => Indexed(u)
            /\ Topology!SumFunction(CountsOf(u)) = Topology!SumFunction(CountsOf(t)) + 1
<1> DEFINE v == Topology!AddNode(t, a, "")
           u == Topology!AddPrefix(t, a, p)
           D == DOMAIN v.Nodes
           node == v.Nodes[a]
           listed == [node EXCEPT !.ips = Append(node.ips, p), !.count = node.count + 1]
<1>1. /\ TopoType(v) /\ a \in D /\ v.Self = t.Self
      /\ Indexed(t) => Indexed(v)
      /\ Topology!SumFunction(CountsOf(v)) = Topology!SumFunction(CountsOf(t))
  BY AddNodeFacts, CountriesAssumption
<1>2. u = [v EXCEPT !.Nodes[a] = listed, !.Prefix = Topology!Put(v.Prefix, p, a)]
  BY DEF Topology!AddPrefix, Topology!Listed
<1> HIDE DEF v, u
<1>3. /\ u = [Self |-> v.Self, Nodes |-> [v.Nodes EXCEPT ![a] = listed], Links |-> v.Links,
              Prefix |-> Topology!Put(v.Prefix, p, a)]
  BY <1>1, <1>2 DEF TopoType
<1>4. /\ node \in NodeType /\ listed \in NodeType
      /\ listed.count = node.count + 1 /\ listed.ips = Append(node.ips, p)
  <2>1. node \in NodeType BY <1>1 DEF TopoType
  <2>2. Append(node.ips, p) \in Seq(Blocks) /\ node.count + 1 \in Nat BY <2>1 DEF NodeType
  <2> QED BY <2>1, <2>2 DEF NodeType
<1> HIDE DEF node, listed
<1>5. /\ u.Self = v.Self /\ u.Links = v.Links
      /\ DOMAIN u.Nodes = D /\ u.Nodes \in [D -> NodeType]
      /\ u.Nodes[a] = listed /\ \A b \in D \ {a} : u.Nodes[b] = v.Nodes[b]
  BY <1>1, <1>3, <1>4 DEF TopoType
<1>6. /\ DOMAIN u.Prefix = DOMAIN v.Prefix \cup {p}
      /\ u.Prefix[p] = a /\ \A q \in DOMAIN v.Prefix \ {p} : u.Prefix[q] = v.Prefix[q]
      /\ u.Prefix \in [DOMAIN v.Prefix \cup {p} -> D]
  <2>1. u.Prefix = [q \in DOMAIN v.Prefix \cup {p} |-> IF q = p THEN a ELSE v.Prefix[q]]
    BY <1>3 DEF Topology!Put
  <2> QED BY <1>1, <2>1 DEF TopoType
<1>7. TopoType(u)
  <2>1. u = [Self |-> u.Self, Nodes |-> u.Nodes, Links |-> u.Links, Prefix |-> u.Prefix]
    BY <1>3
  <2> QED BY <1>1, <1>5, <1>6, <2>1 DEF TopoType
<1>8. ASSUME Indexed(v) PROVE Indexed(u)
  <2>1. Listed(u, a) = Listed(v, a) \cup {p}
    <3>1. Listed(u, a) = {Append(node.ips, p)[i] : i \in DOMAIN Append(node.ips, p)}
      BY <1>4, <1>5 DEF Listed
    <3>2. Listed(v, a) = {node.ips[i] : i \in DOMAIN node.ips} BY DEF Listed, node
    <3>3. node.ips \in Seq(Blocks) BY <1>4 DEF NodeType
    <3> QED BY <3>1, <3>2, <3>3, SendElements, SMTT(30)
  <2>2. \A b \in D \ {a} : Listed(u, b) = Listed(v, b) BY <1>5 DEF Listed
  <2>3. \A b \in D : Listed(u, b) \subseteq DOMAIN u.Prefix
    BY <1>6, <1>8, <2>1, <2>2 DEF Indexed
  <2>4. \A q \in DOMAIN u.Prefix : q \in Listed(u, u.Prefix[q])
    <3> SUFFICES ASSUME NEW q \in DOMAIN u.Prefix PROVE q \in Listed(u, u.Prefix[q]) OBVIOUS
    <3>1. CASE q = p BY <1>6, <2>1, <3>1
    <3>2. CASE q # p
      <4>1. q \in DOMAIN v.Prefix /\ u.Prefix[q] = v.Prefix[q] BY <1>6, <3>2
      <4>2. q \in Listed(v, v.Prefix[q]) /\ v.Prefix[q] \in D
        BY <1>1, <1>8, <4>1 DEF Indexed, TopoType
      <4> QED BY <2>1, <2>2, <4>1, <4>2
    <3> QED BY <3>1, <3>2
  <2> QED BY <1>5, <2>3, <2>4 DEF Indexed
<1>9. Topology!SumFunction(CountsOf(u)) = Topology!SumFunction(CountsOf(v)) + 1
  <2>1. CountsOf(u) \in [D -> Nat] /\ CountsOf(v) \in [D -> Nat]
    BY <1>1, <1>5, <1>7, CountsType
  <2>2. /\ CountsOf(u)[a] = CountsOf(v)[a] + 1
        /\ \A b \in D \ {a} : CountsOf(u)[b] = CountsOf(v)[b]
    BY <1>1, <1>4, <1>5 DEF CountsOf, node
  <2>3. IsFiniteSet(D) BY <1>1 DEF TopoType
  <2> QED BY <1>1, <2>1, <2>2, <2>3, SumWithBump
<1> QED BY <1>1, <1>5, <1>7, <1>8, <1>9 DEF u

LEMMA AddLinkFacts ==
  ASSUME NEW t, TopoType(t), NEW a \in Systems, NEW b \in Systems, NEW k \in Topology!Kinds
  PROVE  LET u == Topology!AddLink(t, a, b, k)
         IN TopoType(u) /\ u.Self = t.Self /\ u.Nodes = t.Nodes /\ u.Prefix = t.Prefix
<1> DEFINE u == Topology!AddLink(t, a, b, k)
           l == [from |-> a, to |-> b, kind |-> k]
<1>1. u = [Self |-> t.Self, Nodes |-> t.Nodes, Links |-> Append(t.Links, l), Prefix |-> t.Prefix]
  <2>1. t = [Self |-> t.Self, Nodes |-> t.Nodes, Links |-> t.Links, Prefix |-> t.Prefix]
    BY DEF TopoType
  <2> QED BY <2>1, SMTT(30) DEF Topology!AddLink
<1>2. Append(t.Links, l) \in Seq(LinkType)
  <2>1. l \in LinkType BY DEF LinkType
  <2> HIDE DEF l
  <2> QED BY <2>1 DEF TopoType
<1> HIDE DEF u, l
<1> QED BY <1>1, <1>2 DEF TopoType, u

LEMMA SetSelfFacts ==
  ASSUME NEW t, TopoType(t), NEW a \in Systems, NEW c \in Countries
  PROVE  LET u == [t EXCEPT !.Self = Topology!SelfNode(a, c)]
         IN /\ TopoType(u) /\ u.Self.count = 0
            /\ u.Nodes = t.Nodes /\ u.Prefix = t.Prefix
<1> DEFINE u == [t EXCEPT !.Self = Topology!SelfNode(a, c)]
           n == Topology!SelfNode(a, c)
<1>1. n \in SelfType /\ n.count = 0 BY DEF Topology!SelfNode, SelfType
<1>2. u = [Self |-> n, Nodes |-> t.Nodes, Links |-> t.Links, Prefix |-> t.Prefix]
  BY DEF TopoType
<1> HIDE DEF n, u
<1> QED BY <1>1, <1>2 DEF TopoType, u

\* The cardinality that the modules of the instance speak of.
LEMMA SameCardinality == ASSUME NEW S PROVE Topology!Cardinality(S) = Cardinality(S)
BY DEF Topology!Cardinality, Cardinality

\* What a picture must show.
Shows(pic, sum) ==
  /\ \A k \in Topology!Boxed :
       /\ pic.ascii.boxes[k] \subseteq pic.mermaid.nodes
       /\ Cardinality(pic.ascii.boxes[k]) <= pic.ascii.heading[k]
  /\ UNION {{e[1], e[2]} : e \in pic.world.edges} \subseteq pic.world.groups \cup {""}
  /\ Cardinality(pic.mermaid.nodes) > 1 => Topology!SumFunction(pic.pie) = sum

LEMMA PictureFacts ==
  ASSUME NEW t, TopoType(t)
  PROVE  Shows(Topology!GenerateFullMapOutput(t), Topology!SumFunction(CountsOf(t)))
<1> DEFINE pic == Topology!GenerateFullMapOutput(t)
           D == DOMAIN t.Nodes
<1>1. /\ pic.ascii = Topology!GenerateASCTITopology(t)
      /\ pic.mermaid = Topology!GenerateMermaidDiagram(t)
      /\ pic.world = Topology!GenerateMermaidWorldMap(t)
  BY DEF Topology!GenerateFullMapOutput
<1>0. Cardinality(D) > 1 => pic.pie = Topology!GenerateMermaidPrefixPie(t)
  BY SameCardinality DEF Topology!GenerateFullMapOutput
<1> HIDE DEF pic
<1>2. pic.mermaid.nodes = D
  <2>1. Topology!GenerateMermaidDiagram(t).nodes = D BY DEF Topology!GenerateMermaidDiagram
  <2> QED BY <1>1, <2>1
<1>3. ASSUME NEW k \in Topology!Boxed
      PROVE  /\ pic.ascii.boxes[k] \subseteq pic.mermaid.nodes
             /\ Cardinality(pic.ascii.boxes[k]) <= pic.ascii.heading[k]
  <2> DEFINE E == Topology!Ends(t, k)
             I == {j \in DOMAIN t.Links : t.Links[j].kind = k}
  <2>1. pic.ascii.boxes[k] = E \cap D /\ pic.ascii.heading[k] = Cardinality(E)
    <3> HIDE DEF E
    <3>1. Topology!GenerateASCTITopology(t) =
            [prefixes |-> t.Self.count,
             heading  |-> [j \in Topology!Boxed |-> Topology!Cardinality(Topology!Ends(t, j))],
             boxes    |-> [j \in Topology!Boxed |-> Topology!Ends(t, j) \cap D]]
      BY DEF Topology!GenerateASCTITopology
    <3>2. /\ pic.ascii.heading[k] = Topology!Cardinality(Topology!Ends(t, k))
          /\ pic.ascii.boxes[k] = Topology!Ends(t, k) \cap D
      BY <1>1, <3>1
    <3> QED BY <3>2, SameCardinality DEF E
  <2>2. IsFiniteSet(E)
    <3>1. IsFiniteSet(I)
      <4>1. DOMAIN t.Links = 1 .. Len(t.Links) /\ Len(t.Links) \in Nat BY DEF TopoType
      <4>2. 1 \in Int /\ Len(t.Links) \in Int BY <4>1
      <4>3. IsFiniteSet(1 .. Len(t.Links)) BY <4>2, FS_Interval
      <4> QED BY <4>1, <4>3, FS_Subset
    <3>2. E = {t.Links[i].to : i \in I} BY DEF Topology!Ends
    <3> HIDE DEF I, E
    <3> DEFINE f == [i \in I |-> t.Links[i].to]
    <3>3. f \in Surjection(I, E) BY <3>2 DEF Surjection
    <3> QED BY <3>1, <3>3, FS_Surjection
  <2>3. Cardinality(E \cap D) <= Cardinality(E) BY <2>2, FS_Subset
  <2> QED BY <1>2, <2>1, <2>3
<1>4. UNION {{e[1], e[2]} : e \in pic.world.edges} \subseteq pic.world.groups \cup {""}
  <2> DEFINE place(a) == t.Nodes[a].country
             joined == {l \in Topology!Range(t.Links) : {l.from, l.to} \subseteq D}
  <2>1. /\ pic.world.groups = {Topology!Group(place(a)) : a \in D}
        /\ pic.world.edges = {<<place(l.from), place(l.to)>> : l \in joined}
    <3>1. Topology!GenerateMermaidWorldMap(t) =
            [groups |-> {Topology!Group(place(a)) : a \in D},
             edges  |-> {<<place(l.from), place(l.to)>> : l \in joined}]
      BY DEF Topology!GenerateMermaidWorldMap
    <3> QED BY <1>1, <3>1
  <2>2. \A l \in joined : l.from \in D /\ l.to \in D OBVIOUS
  <2> HIDE DEF place, joined
  <2>3. \A a \in D : place(a) \in pic.world.groups \cup {""}
    BY <2>1 DEF Topology!Group
  <2>4. ASSUME NEW e \in pic.world.edges
        PROVE  {e[1], e[2]} \subseteq pic.world.groups \cup {""}
    <3>1. PICK l \in joined : e = <<place(l.from), place(l.to)>> BY <2>1
    <3>2. e[1] = place(l.from) /\ e[2] = place(l.to) BY <3>1
    <3> QED BY <2>2, <2>3, <3>2
  <2>5. ASSUME NEW x \in UNION {{e[1], e[2]} : e \in pic.world.edges}
        PROVE  x \in pic.world.groups \cup {""}
    <3>1. PICK e \in pic.world.edges : x \in {e[1], e[2]} OBVIOUS
    <3> QED BY <2>4, <3>1
  <2> QED BY <2>5
<1>5. ASSUME Cardinality(D) > 1
      PROVE  Topology!SumFunction(pic.pie) = Topology!SumFunction(CountsOf(t))
  <2> DEFINE f == CountsOf(t)
             T == {b \in D : t.Nodes[b].count > 0}
  <2>1. f \in [D -> Nat] /\ IsFiniteSet(D) BY CountsType DEF TopoType
  <2>2. \A a \in D : f[a] = t.Nodes[a].count BY DEF CountsOf
  <2>3. pic.pie = [a \in T |-> f[a]]
    <3>1. pic.pie = [b \in T |-> t.Nodes[b].count]
      BY <1>0, <1>5 DEF Topology!GenerateMermaidPrefixPie
    <3>2. \A b \in T : b \in D OBVIOUS
    <3> HIDE DEF T, f
    <3> QED BY <2>2, <3>1, <3>2
  <2>4. \A a \in D \ T : f[a] = 0 BY <2>1, <2>2
  <2>5. T \in SUBSET D OBVIOUS
  <2> HIDE DEF f, T
  <2> QED BY <2>1, <2>3, <2>4, <2>5, SumWithoutZeros DEF f
<1> QED BY <1>2, <1>3, <1>4, <1>5 DEF Shows, pic

-----------------------------------------------------------------------------
(* A caller of the topology.  TopologyConsistent is inductive once every part of  *)
(* the record has its type: the sum of the counts needs the nodes to be finitely  *)
(* many and the counts to be numbers.                                             *)

TopoInv == /\ TopoType(topo) /\ Indexed(topo)
           /\ Topology!SumFunction(CountsOf(topo)) = added
           /\ calls \in 0 .. MaxCalls /\ panicked \in BOOLEAN
           /\ drawn # <<>> => Shows(drawn[1], drawn[2])

LEMMA TopoInit == Topology!Init => TopoInv
<1> SUFFICES ASSUME Topology!Init PROVE TopoInv OBVIOUS
<1>1. /\ topo = Topology!NewBGPTopology /\ calls = 0 /\ added = 0
      /\ drawn = <<>> /\ panicked = FALSE
  BY DEF Topology!Init
<1>2. TopoType(topo) /\ Indexed(topo) /\ Topology!SumFunction(CountsOf(topo)) = 0
  BY <1>1, NewTopologyFacts
<1>3. calls \in 0 .. MaxCalls BY <1>1, CallsAssumption
<1>4. panicked \in BOOLEAN BY <1>1
<1> QED BY <1>1, <1>2, <1>3, <1>4 DEF TopoInv

LEMMA TopoNext == TopoInv /\ [Topology!Next]_(Topology!topoVars) => TopoInv'
<1> SUFFICES ASSUME TopoInv, [Topology!Next]_(Topology!topoVars) PROVE TopoInv' OBVIOUS
<1>0. ASSUME Topology!Called PROVE panicked = FALSE /\ calls' \in 0 .. MaxCalls
  BY <1>0, CallsAssumption DEF Topology!Called, TopoInv
<1>1. ASSUME NEW a \in Systems, NEW c \in Countries, Topology!SetSelf(a, c) PROVE TopoInv'
  <2> DEFINE u == [topo EXCEPT !.Self = Topology!SelfNode(a, c)]
  <2>1. /\ Topology!Called /\ topo' = u
        /\ UNCHANGED <<added, drawn, panicked>>
    BY <1>1 DEF Topology!SetSelf, Topology!Quiet
  <2>2. TopoType(u) /\ u.Nodes = topo.Nodes /\ u.Prefix = topo.Prefix
    BY SetSelfFacts DEF TopoInv
  <2> HIDE DEF u
  <2>3. Indexed(topo') = Indexed(topo) /\ CountsOf(topo') = CountsOf(topo)
    BY <2>1, <2>2 DEF Indexed, Listed, CountsOf
  <2> QED BY <1>0, <2>1, <2>2, <2>3 DEF TopoInv
<1>2. ASSUME NEW a \in Systems, NEW c \in Countries, Topology!CallAddNode(a, c) PROVE TopoInv'
  <2>1. /\ Topology!Called /\ topo' = Topology!AddNode(topo, a, c)
        /\ UNCHANGED <<added, drawn, panicked>>
    BY <1>2 DEF Topology!CallAddNode, Topology!Quiet
  <2> QED BY <1>0, <2>1, AddNodeFacts DEF TopoInv
<1>3. ASSUME NEW a \in Systems, NEW p \in Blocks, Topology!CallAddPrefix(a, p) PROVE TopoInv'
  <2>1. /\ Topology!Called /\ topo' = Topology!AddPrefix(topo, a, p)
        /\ added' = added + 1 /\ UNCHANGED <<drawn, panicked>>
    BY <1>3 DEF Topology!CallAddPrefix, Topology!Quiet
  <2> QED BY <1>0, <2>1, AddPrefixFacts DEF TopoInv
<1>4. ASSUME NEW a \in Systems, NEW b \in Systems, NEW k \in Topology!Kinds,
             Topology!CallAddLink(a, b, k)
      PROVE  TopoInv'
  <2>1. /\ Topology!Called /\ topo' = Topology!AddLink(topo, a, b, k)
        /\ UNCHANGED <<added, drawn, panicked>>
    BY <1>4 DEF Topology!CallAddLink, Topology!Quiet
  <2>2. /\ TopoType(topo') /\ topo'.Self = topo.Self
        /\ topo'.Nodes = topo.Nodes /\ topo'.Prefix = topo.Prefix
    BY <2>1, AddLinkFacts DEF TopoInv
  <2>3. Indexed(topo') = Indexed(topo) /\ CountsOf(topo') = CountsOf(topo)
    BY <2>2 DEF Indexed, Listed, CountsOf
  <2> QED BY <1>0, <2>1, <2>2, <2>3 DEF TopoInv
<1>5. CASE Topology!Draw
  <2>1. Topology!Called /\ UNCHANGED <<topo, added>> BY <1>5 DEF Topology!Draw
  <2>2. CASE topo.Self = NoSelf
    <3>1. panicked' = TRUE /\ UNCHANGED drawn BY <1>5, <2>2 DEF Topology!Draw
    <3> QED BY <1>0, <2>1, <2>2, <3>1 DEF TopoInv
  <2>3. CASE topo.Self # NoSelf
    <3>1. drawn' = <<Topology!GenerateFullMapOutput(topo), added>> /\ UNCHANGED panicked
      BY <1>5, <2>3 DEF Topology!Draw
    <3>2. Shows(Topology!GenerateFullMapOutput(topo), added) BY PictureFacts DEF TopoInv
    <3>3. Shows(drawn'[1], drawn'[2]) BY <3>1, <3>2
    <3> QED BY <1>0, <2>1, <3>1, <3>3 DEF TopoInv
  <2> QED BY <2>2, <2>3
<1>6. CASE UNCHANGED Topology!topoVars BY <1>6 DEF Topology!topoVars, TopoInv
<1> QED BY <1>1, <1>2, <1>3, <1>4, <1>5, <1>6 DEF Topology!Next

\* The invariant says what the type invariant and TopologyConsistent say.
LEMMA TopoMeans == TopoInv => Topology!TypeOK /\ Topology!TopologyConsistent
<1> SUFFICES ASSUME TopoInv PROVE Topology!TypeOK /\ Topology!TopologyConsistent OBVIOUS
<1> DEFINE D == DOMAIN topo.Nodes
<1>1. /\ topo.Self \in SelfType \cup {NoSelf} /\ topo.Nodes \in [D -> NodeType]
      /\ D \subseteq Systems /\ topo.Links \in Seq(LinkType)
      /\ topo.Prefix \in [DOMAIN topo.Prefix -> D] /\ DOMAIN topo.Prefix \subseteq Blocks
  BY DEF TopoInv, TopoType
<1>2. Topology!TypeOK
  <2>1. topo.Self = NoSelf \/ (topo.Self.asn \in Systems /\ topo.Self.country \in Countries)
    BY <1>1 DEF SelfType
  <2>2. \A a \in D : topo.Nodes[a].country \in Countries /\ topo.Nodes[a].ips \in Seq(Blocks)
    BY <1>1 DEF NodeType
  <2>3. calls \in 0 .. MaxCalls /\ panicked \in BOOLEAN BY DEF TopoInv
  <2> QED BY <1>1, <2>1, <2>2, <2>3 DEF Topology!TypeOK, LinkType
<1>3. \A a \in D : Topology!Range(topo.Nodes[a].ips) = Listed(topo, a)
  BY DEF Topology!Range, Listed
<1>4. DOMAIN topo.Prefix = UNION {Topology!Range(topo.Nodes[a].ips) : a \in D}
  <2>1. \A a \in D : Listed(topo, a) \subseteq DOMAIN topo.Prefix BY DEF TopoInv, Indexed
  <2>2. \A p \in DOMAIN topo.Prefix : topo.Prefix[p] \in D /\ p \in Listed(topo, topo.Prefix[p])
    BY <1>1 DEF TopoInv, Indexed
  <2> QED BY <1>3, <2>1, <2>2
<1>5. \A p \in DOMAIN topo.Prefix :
        topo.Prefix[p] \in D /\ p \in Topology!Range(topo.Nodes[topo.Prefix[p]].ips)
  BY <1>1, <1>3 DEF TopoInv, Indexed
<1>6. Topology!SumFunction(Topology!Counts) = added
  <2>1. Topology!Counts = CountsOf(topo) BY DEF Topology!Counts, CountsOf
  <2> QED BY <2>1 DEF TopoInv
<1>7. drawn # <<>> =>
        /\ \A k \in Topology!Boxed :
             /\ drawn[1].ascii.boxes[k] \subseteq drawn[1].mermaid.nodes
             /\ Topology!Cardinality(drawn[1].ascii.boxes[k]) <= drawn[1].ascii.heading[k]
        /\ UNION {{e[1], e[2]} : e \in drawn[1].world.edges} \subseteq drawn[1].world.groups \cup {""}
        /\ Topology!Cardinality(drawn[1].mermaid.nodes) > 1
             => Topology!SumFunction(drawn[1].pie) = drawn[2]
  BY SameCardinality DEF TopoInv, Shows
<1>8. Topology!TopologyConsistent
  BY <1>4, <1>5, <1>6, <1>7 DEF Topology!TopologyConsistent
<1> QED BY <1>2, <1>8

\* However a caller fills a topology and draws it, its index, its nodes, its counts and
\* its pictures agree.
THEOREM TopologyAgrees == Topology!Spec => [](Topology!TypeOK /\ Topology!TopologyConsistent)
BY TopoInit, TopoNext, TopoMeans, PTL DEF Topology!Spec

LEMMA TopoRunInit == Init => (subject = "topology" => TopoInv)
BY TopoInit DEF Init

LEMMA TopoRunNext ==
  (subject = "topology" => TopoInv) /\ [Next]_vars => (subject = "topology" => TopoInv)'
<1> SUFFICES ASSUME subject = "topology" => TopoInv, [Next]_vars, subject' = "topology" PROVE TopoInv'
  OBVIOUS
<1>1. CASE Next
  <2>1. subject = "topology" BY <1>1 DEF Next
  <2>2. Topology!Next
    BY <1>1, <2>1 DEF Next, NextDNS, NextASN, NextRPKI, NextBGP, NextTopo, NextNames
  <2> QED BY <2>1, <2>2, TopoNext
<1>2. CASE UNCHANGED vars
  <2>1. subject = "topology" BY <1>2 DEF vars
  <2>2. UNCHANGED Topology!topoVars BY <1>2 DEF vars, ofTopo, Topology!topoVars
  <2> QED BY <2>1, <2>2, TopoNext
<1> QED BY <1>1, <1>2

\* The same for the topology as the run explores it, with any constants.
THEOREM TopologiesAgree == Spec => []TopologyConsistent
<1>1. (subject = "topology" => TopoInv) => TopologyConsistent
  BY TopoMeans DEF TopologyConsistent
<1> QED BY TopoRunInit, TopoRunNext, <1>1, PTL DEF Spec

-----------------------------------------------------------------------------
(* The DNS commands *)

ElementsOf(s) == {s[i] : i \in DOMAIN s}

\* A concatenation has the elements of both sequences.
LEMMA JoinFacts ==
  ASSUME NEW S, NEW q \in Seq(S), NEW r \in Seq(S)
  PROVE  /\ q \o r \in Seq(S)
         /\ ElementsOf(q \o r) = ElementsOf(q) \cup ElementsOf(r)
         /\ q \o r = <<>> <=> q = <<>> /\ r = <<>>
<1>1. q \o r \in Seq(S) OBVIOUS
<1>2. /\ Len(q \o r) = Len(q) + Len(r) /\ Len(q) \in Nat /\ Len(r) \in Nat
      /\ DOMAIN q = 1 .. Len(q) /\ DOMAIN r = 1 .. Len(r)
      /\ DOMAIN (q \o r) = 1 .. Len(q) + Len(r)
  OBVIOUS
<1>3. \A i \in DOMAIN q : (q \o r)[i] = q[i] OBVIOUS
<1>4. \A i \in DOMAIN r : (q \o r)[Len(q) + i] = r[i] OBVIOUS
<1>5. ElementsOf(q \o r) = ElementsOf(q) \cup ElementsOf(r)
  <2>1. ASSUME NEW i \in DOMAIN (q \o r) PROVE (q \o r)[i] \in ElementsOf(q) \cup ElementsOf(r)
    <3>1. CASE i <= Len(q)
      <4>1. i \in DOMAIN q BY <1>2, <3>1
      <4> QED BY <1>3, <4>1 DEF ElementsOf
    <3>2. CASE ~(i <= Len(q))
      <4>1. i - Len(q) \in DOMAIN r /\ Len(q) + (i - Len(q)) = i BY <1>2, <3>2
      <4>2. (q \o r)[i] = r[i - Len(q)] BY <1>4, <4>1
      <4> QED BY <4>1, <4>2 DEF ElementsOf
    <3> QED BY <3>1, <3>2
  <2>2. \A i \in DOMAIN q : i \in DOMAIN (q \o r) BY <1>2
  <2>3. \A i \in DOMAIN r : Len(q) + i \in DOMAIN (q \o r) BY <1>2
  <2>4. ASSUME NEW i \in DOMAIN q PROVE q[i] \in ElementsOf(q \o r) BY <1>3, <2>2 DEF ElementsOf
  <2>5. ASSUME NEW i \in DOMAIN r PROVE r[i] \in ElementsOf(q \o r) BY <1>4, <2>3 DEF ElementsOf
  <2>6. ElementsOf(q \o r) \subseteq ElementsOf(q) \cup ElementsOf(r) BY <2>1 DEF ElementsOf
  <2>7. ElementsOf(q) \subseteq ElementsOf(q \o r) BY <2>4 DEF ElementsOf
  <2>8. ElementsOf(r) \subseteq ElementsOf(q \o r) BY <2>5 DEF ElementsOf
  <2> QED BY <2>6, <2>7, <2>8
<1>6. q \o r = <<>> <=> q = <<>> /\ r = <<>> BY <1>1, <1>2
<1> QED BY <1>1, <1>5, <1>6

LEMMA OneMoreSet ==
  ASSUME NEW D, NEW k, NEW f, NEW g, \A i \in D : f[i] = g[i]
  PROVE  UNION {f[i] : i \in D \cup {k}} = (UNION {g[i] : i \in D}) \cup f[k]
<1> DEFINE L == UNION {f[i] : i \in D \cup {k}}
           R == (UNION {g[i] : i \in D}) \cup f[k]
<1>1. ASSUME NEW x \in L PROVE x \in R
  <2>1. PICK i \in D \cup {k} : x \in f[i] BY <1>1
  <2>2. CASE i = k BY <2>1, <2>2
  <2>3. CASE i \in D BY <2>1, <2>3
  <2> QED BY <2>2, <2>3
<1>2. ASSUME NEW x \in R PROVE x \in L
  <2>1. CASE x \in f[k]
    <3>1. k \in D \cup {k} OBVIOUS
    <3> QED BY <2>1, <3>1
  <2>2. CASE x \in UNION {g[i] : i \in D}
    <3>1. PICK i \in D : x \in g[i] BY <2>2
    <3>2. i \in D \cup {k} /\ x \in f[i] BY <3>1
    <3> QED BY <3>2
  <2> QED BY <1>2, <2>1, <2>2
<1> QED BY <1>1, <1>2

LEMMA NothingFacts ==
  /\ \A S : <<>> \in Seq(S)
  /\ Len(<<>>) = 0 /\ DOMAIN <<>> = {} /\ ElementsOf(<<>>) = {}
<1>1. DOMAIN <<>> = {} /\ Len(<<>>) = 0 OBVIOUS
<1>2. \A S : <<>> \in Seq(S) OBVIOUS
<1> QED BY <1>1, <1>2 DEF ElementsOf

LEMMA ServersFacts ==
  ASSUME servers \in ServerLists
  PROVE  servers \in Seq(STRING) /\ Len(servers) \in Nat
<1>1. servers \in Seq(STRING) BY ServersAssumption
<1> QED BY <1>1

Want == DNS!Wants[cmd]

LEMMA WantFacts ==
  ASSUME cmd \in DNS!Commands
  PROVE  cmd \in {"reverse", "zone"} => Want = "answer"
BY DEF Want, DNS!Commands, DNS!Wants, DNS!newDNSReverseCmd, DNS!newDNSZoneCmd

\* What a command keeps of an answer are records of it, and some unless it has none.
LEMMA KeptFacts ==
  ASSUME NEW r \in DNS!Replies
  PROVE  /\ r.records \in Seq(DNS!AllRecords) /\ DNS!Kept(r) \in Seq(DNS!AllRecords)
         /\ ElementsOf(DNS!Kept(r)) \subseteq ElementsOf(r.records)
         /\ Want # "first" => DNS!Kept(r) = r.records
         /\ DNS!Kept(r) = <<>> <=> r.records = <<>>
         /\ r.kind # "answer" => r.records = <<>>
         /\ r.kind \in {"answer", "refused", "silent"}
<1>1. /\ r.kind \in {"answer", "refused", "silent"}
      /\ r.kind # "answer" => r.records = <<>>
      /\ r.records = <<>> \/ r.records \in RecordLists
  BY DEF DNS!Replies, DNS!NoRecords
<1>2. r.records \in Seq(DNS!AllRecords)
  <2>1. CASE r.records = <<>> BY <2>1
  <2>2. CASE r.records \in RecordLists
    <3>1. r.records \in Seq(STRING) BY <2>2, RecordsAssumption
    <3>2. \A i \in DOMAIN r.records : r.records[i] \in DNS!AllRecords BY <2>2 DEF DNS!AllRecords
    <3> QED BY <3>1, <3>2
  <2> QED BY <1>1, <2>1, <2>2
<1>3. CASE Want = "first" /\ r.records # <<>>
  <2>1. DNS!Kept(r) = <<r.records[1]>> BY <1>3 DEF DNS!Kept, DNS!NoRecords, Want
  <2>2. 1 \in DOMAIN r.records /\ r.records[1] \in DNS!AllRecords BY <1>2, <1>3
  <2>3. ElementsOf(DNS!Kept(r)) = {r.records[1]} BY <2>1 DEF ElementsOf
  <2>4. r.records[1] \in ElementsOf(r.records) BY <2>2 DEF ElementsOf
  <2>5. DNS!Kept(r) \in Seq(DNS!AllRecords) /\ DNS!Kept(r) # <<>> BY <2>1, <2>2
  <2> QED BY <1>1, <1>2, <1>3, <2>3, <2>4, <2>5
<1>4. CASE ~(Want = "first" /\ r.records # <<>>)
  <2>1. DNS!Kept(r) = r.records BY <1>4 DEF DNS!Kept, DNS!NoRecords, Want
  <2> QED BY <1>1, <1>2, <2>1
<1> QED BY <1>3, <1>4

RecordsHeard == UNION {ElementsOf(heard[i].records) : i \in DOMAIN heard}

\* Until a command stops, each of its servers was asked or is left; it stops early only
\* with what it wants or when its time is over.
DNSInv ==
  /\ DNS!TypeOK
  /\ Len(heard) + Len(left) <= Len(servers)
  /\ \A i \in DOMAIN heard : heard[i].kind = "silent" => i = Len(heard) /\ cancelled
  /\ pc = "start" => cmd \in {"reverse", "zone"} /\ heard = <<>> /\ records = <<>>
  /\ pc = "done" => left = <<>> \/ (cmd \in {"reverse", "zone"} /\ heard = <<>>)
  /\ pc = "ask" => cmd # "reverse"
  /\ cmd = "reverse" => heard = <<>>
  /\ pc # "done" => outcome = ""
  /\ ~cancelled => \/ Len(heard) + Len(left) = Len(servers)
                   \/ /\ Want # "every" /\ DNS!Answered
                      /\ Want = "first" => records # <<>>
  /\ pc = "ask" /\ ~DNS!Answered => records = <<>>
  /\ outcome = "error" => records = <<>> /\ (DNS!Answered => Want # "answer")
  /\ cmd # "reverse" => ElementsOf(records) \subseteq RecordsHeard
  /\ Want = "every" => ElementsOf(records) = RecordsHeard

LEMMA DNSInit == DNS!Init => DNSInv
<1> SUFFICES ASSUME DNS!Init PROVE DNSInv OBVIOUS
<1>1. /\ cmd \in DNS!Commands /\ servers \in ServerLists /\ left = servers
      /\ pc = IF cmd \in {"reverse", "zone"} THEN "start" ELSE "ask"
      /\ cancelled = FALSE /\ heard = <<>> /\ records = <<>> /\ outcome = ""
  BY DEF DNS!Init
<1>2. servers \in Seq(STRING) /\ Len(servers) \in Nat BY <1>1, ServersFacts
<1>3. /\ heard \in Seq(DNS!Replies) /\ records \in Seq(DNS!AllRecords)
      /\ Len(heard) = 0 /\ DOMAIN heard = {} /\ ElementsOf(records) = {}
  BY <1>1, NothingFacts
<1>4. Len(heard) + Len(left) = Len(servers) /\ Len(heard) <= Len(servers)
  <2>1. Len(left) = Len(servers) BY <1>1
  <2> QED BY <1>2, <1>3, <2>1
<1>5. DNS!TypeOK
  <2>1. pc \in {"start", "ask", "done"} BY <1>1
  <2> QED BY <1>1, <1>2, <1>3, <1>4, <2>1 DEF DNS!TypeOK
<1>6. RecordsHeard = {} BY <1>3 DEF RecordsHeard
<1>7. Len(heard) + Len(left) <= Len(servers) BY <1>2, <1>4
<1> QED BY <1>1, <1>3, <1>4, <1>5, <1>6, <1>7 DEF DNSInv

LEMMA DNSNext == DNSInv /\ [DNS!Next]_(DNS!dnsVars) => DNSInv'
<1> SUFFICES ASSUME DNSInv, [DNS!Next]_(DNS!dnsVars) PROVE DNSInv' OBVIOUS
<1>t. /\ cmd \in DNS!Commands /\ servers \in ServerLists
      /\ pc \in {"start", "ask", "done"} /\ left \in Seq(STRING) /\ cancelled \in BOOLEAN
      /\ heard \in Seq(DNS!Replies) /\ Len(heard) <= Len(servers)
      /\ records \in Seq(DNS!AllRecords) /\ outcome \in {"", "printed", "error"}
  BY DEF DNSInv, DNS!TypeOK
<1>s. Len(servers) \in Nat /\ Len(heard) \in Nat /\ Len(left) \in Nat
  <2>1. Len(servers) \in Nat BY <1>t, ServersFacts
  <2>2. heard \in Seq(DNS!Replies) BY <1>t
  <2>3. left \in Seq(STRING) BY <1>t
  <2>4. Len(heard) \in Nat BY <2>2
  <2>5. Len(left) \in Nat BY <2>3
  <2> QED BY <2>1, <2>4, <2>5
<1>w. cmd \in {"reverse", "zone"} => Want = "answer" BY <1>t, WantFacts
<1>1. ASSUME NEW names \in RecordLists, DNS!LookupAddr(names) PROVE DNSInv'
  <2>1. /\ cmd = "reverse" /\ pc = "start" /\ pc' = "done" /\ records' = names
        /\ outcome' = IF names = <<>> THEN "error" ELSE "printed"
        /\ UNCHANGED <<cmd, servers, left, cancelled, heard>>
    BY <1>1 DEF DNS!LookupAddr, DNS!Return, DNS!NoRecords
  <2>2. names \in Seq(DNS!AllRecords)
    <3>1. names \in Seq(STRING) BY RecordsAssumption
    <3>2. \A i \in DOMAIN names : names[i] \in DNS!AllRecords BY DEF DNS!AllRecords
    <3> QED BY <3>1, <3>2
  <2>3. DNS!TypeOK' BY <1>t, <2>1, <2>2 DEF DNS!TypeOK
  <2>4. heard = <<>> /\ Want' = Want /\ DNS!Answered' = DNS!Answered
    BY <2>1 DEF DNSInv, Want, DNS!Answered, DNS!Wants
  <2>5. ~DNS!Answered BY <2>4, NothingFacts DEF DNS!Answered
  <2> QED BY <1>w, <2>1, <2>3, <2>4, <2>5 DEF DNSInv
<1>2. ASSUME NEW ok \in BOOLEAN, DNS!LookupNS(ok) PROVE DNSInv'
  <2>1. /\ cmd = "zone" /\ pc = "start"
        /\ (pc' = "ask" /\ outcome' = outcome) \/ (pc' = "done" /\ outcome' = "error")
        /\ UNCHANGED <<cmd, servers, left, cancelled, heard, records>>
    BY <1>2 DEF DNS!LookupNS, DNS!Return
  <2>2. DNS!TypeOK' BY <1>t, <2>1 DEF DNS!TypeOK
  <2>3. /\ Want' = Want /\ DNS!Answered' = DNS!Answered /\ RecordsHeard' = RecordsHeard
        /\ ElementsOf(records)' = ElementsOf(records)
    BY <2>1 DEF Want, DNS!Answered, DNS!Wants, RecordsHeard, ElementsOf
  <2>4. heard = <<>> /\ records = <<>> /\ outcome = "" BY <2>1 DEF DNSInv
  <2>5. ~DNS!Answered BY <2>4, NothingFacts DEF DNS!Answered
  <2> QED BY <1>w, <2>1, <2>2, <2>3, <2>4, <2>5 DEF DNSInv
<1>3. CASE DNS!Stop
  <2>1. /\ pc = "ask" /\ cancelled /\ left' = <<>>
        /\ UNCHANGED <<cmd, servers, pc, cancelled, heard, records, outcome>>
    BY <1>3 DEF DNS!Stop
  <2>2. DNS!TypeOK'
    <3>1. left' \in Seq(STRING) BY <2>1, NothingFacts
    <3> QED BY <1>t, <2>1, <3>1 DEF DNS!TypeOK
  <2>3. /\ Want' = Want /\ DNS!Answered' = DNS!Answered /\ RecordsHeard' = RecordsHeard
        /\ ElementsOf(records)' = ElementsOf(records)
    BY <2>1 DEF Want, DNS!Answered, DNS!Wants, RecordsHeard, ElementsOf
  <2>4. Len(left') = 0 BY <2>1, NothingFacts
  <2>5. Len(heard') + Len(left') <= Len(servers')
    <3>1. Len(heard) + Len(left) <= Len(servers) BY DEF DNSInv
    <3> QED BY <1>s, <2>1, <2>4, <3>1
  <2> QED BY <2>1, <2>2, <2>3, <2>5 DEF DNSInv
<1>4. ASSUME NEW r \in DNS!Replies, DNS!Exchange(r) PROVE DNSInv'
  <2>1. /\ pc = "ask" /\ left # <<>> /\ ~cancelled
        /\ heard' = Append(heard, r) /\ records' = records \o DNS!Kept(r)
        /\ left' = IF DNS!Enough(r) THEN <<>> ELSE Tail(left)
        /\ cancelled' = (r.kind = "silent")
        /\ UNCHANGED <<cmd, servers, pc, outcome>>
    BY <1>4 DEF DNS!Exchange
  <2>2. /\ heard' \in Seq(DNS!Replies) /\ Len(heard') = Len(heard) + 1
        /\ DOMAIN heard' = DOMAIN heard \cup {Len(heard) + 1}
        /\ heard'[Len(heard) + 1] = r
        /\ \A i \in DOMAIN heard : heard'[i] = heard[i]
    <3>1. heard \in Seq(DNS!Replies) /\ heard' = Append(heard, r) BY <1>t, <2>1
    <3>2. DOMAIN Append(heard, r) = DOMAIN heard \cup {Len(heard) + 1} BY <3>1
    <3>3. DOMAIN heard = 1 .. Len(heard) BY <3>1
    <3> QED BY <3>1, <3>2, <3>3, SendFacts
  <2>3. /\ left' \in Seq(STRING)
        /\ Len(left') = IF DNS!Enough(r) THEN 0 ELSE Len(left) - 1
        /\ Len(left) >= 1
    <3>1. /\ Tail(left) \in Seq(STRING) /\ Len(Tail(left)) = Len(left) - 1
          /\ Len(left) \in Nat \ {0}
      BY <1>t, <2>1, ReceiveFacts
    <3>2. Len(left) >= 1 BY <3>1
    <3>3. CASE DNS!Enough(r) BY <2>1, <3>2, <3>3, NothingFacts
    <3>4. CASE ~DNS!Enough(r) BY <2>1, <3>1, <3>2, <3>4
    <3> QED BY <3>3, <3>4
  <2>4. records' \in Seq(DNS!AllRecords)
        /\ ElementsOf(records') = ElementsOf(records) \cup ElementsOf(DNS!Kept(r))
        /\ (records' = <<>> <=> records = <<>> /\ DNS!Kept(r) = <<>>)
    <3>1. DNS!Kept(r) \in Seq(DNS!AllRecords) BY KeptFacts
    <3>2. records \in Seq(DNS!AllRecords) /\ records' = records \o DNS!Kept(r) BY <1>t, <2>1
    <3> HIDE DEF ElementsOf
    <3> QED BY ONLY <3>1, <3>2, JoinFacts
  <2>5. DNS!Answered' <=> DNS!Answered \/ r.kind = "answer"
    BY <2>2 DEF DNS!Answered
  <2>6. RecordsHeard' = RecordsHeard \cup ElementsOf(r.records)
    <3> DEFINE f == [i \in DOMAIN heard' |-> ElementsOf(heard'[i].records)]
               g == [i \in DOMAIN heard |-> ElementsOf(heard[i].records)]
               k == Len(heard) + 1
    <3>1. RecordsHeard' = UNION {f[i] : i \in DOMAIN heard'} BY DEF RecordsHeard, ElementsOf
    <3>2. RecordsHeard = UNION {g[i] : i \in DOMAIN heard} BY DEF RecordsHeard
    <3>3. DOMAIN heard' = DOMAIN heard \cup {k} /\ f[k] = ElementsOf(r.records) BY <2>2
    <3>4. \A i \in DOMAIN heard : f[i] = g[i] BY <2>2
    <3> HIDE DEF f, g, k
    <3>5. UNION {f[i] : i \in DOMAIN heard \cup {k}} = (UNION {g[i] : i \in DOMAIN heard}) \cup f[k]
      BY ONLY <3>4, OneMoreSet
    <3>6. RecordsHeard' = UNION {f[i] : i \in DOMAIN heard \cup {k}} BY ONLY <3>1, <3>3
    <3>7. f[k] = ElementsOf(r.records) BY <3>3
    <3> QED BY ONLY <3>2, <3>5, <3>6, <3>7
  <2>7. Want' = Want /\ ElementsOf(records)' = ElementsOf(records')
    BY <2>1 DEF Want, DNS!Wants, ElementsOf
  <2>8. DNS!Enough(r) => r.kind = "answer" /\ Want # "every" /\ (Want = "first" => r.records # <<>>)
    BY DEF DNS!Enough, DNS!NoRecords, Want
  <2>9. Len(heard) + Len(left) <= Len(servers) BY DEF DNSInv
  <2>10. /\ Len(heard') + Len(left') <= Len(servers') /\ Len(heard') <= Len(servers')
    <3> DEFINE n == Len(heard)  m == Len(left)  k == Len(servers)
    <3>1. Len(heard') = n + 1 /\ Len(servers') = k BY <2>1, <2>2
    <3>2. Len(left') = 0 \/ Len(left') = m - 1 BY <2>3
    <3>3. n \in Nat /\ m \in Nat /\ k \in Nat /\ n + m <= k /\ m >= 1 BY <1>s, <2>3, <2>9
    <3> HIDE DEF n, m, k
    <3> QED BY <3>1, <3>2, <3>3
  <2>11. DNS!TypeOK' BY <1>t, <2>1, <2>2, <2>3, <2>4, <2>10 DEF DNS!TypeOK
  <2>12. ASSUME NEW i \in DOMAIN heard', heard'[i].kind = "silent"
         PROVE  i = Len(heard') /\ cancelled'
    <3>1. i \notin DOMAIN heard BY <2>1, <2>2, <2>12 DEF DNSInv
    <3>2. i = Len(heard) + 1 BY <2>2, <3>1
    <3> QED BY <2>1, <2>2, <2>12, <3>2
  <2>13. ~cancelled' => \/ Len(heard') + Len(left') = Len(servers')
                        \/ /\ Want' # "every" /\ DNS!Answered'
                           /\ Want' = "first" => records' # <<>>
    <3>1. CASE DNS!Enough(r) BY <2>4, <2>5, <2>7, <2>8, <3>1, KeptFacts
    <3>2. CASE ~DNS!Enough(r)
      <4>1. CASE Len(heard) + Len(left) = Len(servers) BY <1>s, <2>1, <2>2, <2>3, <3>2, <4>1
      <4>2. CASE /\ Want # "every" /\ DNS!Answered
                 /\ Want = "first" => records # <<>>
        BY <2>4, <2>5, <2>7, <4>2
      <4> QED BY <2>1, <4>1, <4>2 DEF DNSInv
    <3> QED BY <3>1, <3>2
  <2>14. ~DNS!Answered' => records' = <<>>
    BY <2>1, <2>4, <2>5, KeptFacts DEF DNSInv
  <2>15. ElementsOf(records') \subseteq RecordsHeard'
    BY <2>1, <2>4, <2>6, KeptFacts DEF DNSInv
  <2>16. Want' = "every" => ElementsOf(records') = RecordsHeard'
    <3>1. Want = "every" => DNS!Kept(r) = r.records BY KeptFacts
    <3> QED BY <2>4, <2>6, <2>7, <3>1 DEF DNSInv
  <2>17. cmd' # "reverse" /\ outcome' = "" /\ pc' = "ask" BY <2>1 DEF DNSInv
  <2> QED BY <2>7, <2>10, <2>11, <2>12, <2>13, <2>14, <2>15, <2>16, <2>17 DEF DNSInv
<1>5. CASE DNS!Report
  <2>1. /\ pc = "ask" /\ left = <<>> /\ pc' = "done"
        /\ outcome' = IF DNS!HasAnswer THEN "printed" ELSE "error"
        /\ UNCHANGED <<cmd, servers, left, cancelled, heard, records>>
    BY <1>5 DEF DNS!Report, DNS!Return
  <2>2. DNS!TypeOK' BY <1>t, <2>1 DEF DNS!TypeOK
  <2>3. /\ Want' = Want /\ DNS!Answered' = DNS!Answered /\ RecordsHeard' = RecordsHeard
        /\ ElementsOf(records)' = ElementsOf(records)
    BY <2>1 DEF Want, DNS!Answered, DNS!Wants, RecordsHeard, ElementsOf
  <2>4. outcome' = "error" => records' = <<>> /\ (DNS!Answered' => Want' # "answer")
    <3>1. DNS!HasAnswer <=> IF Want = "answer" THEN DNS!Answered ELSE records # <<>>
      BY DEF DNS!HasAnswer, Want
    <3> QED BY <2>1, <2>3, <3>1 DEF DNSInv
  <2> QED BY <2>1, <2>2, <2>3, <2>4 DEF DNSInv
<1>6. CASE DNS!Cancel
  <2>1. /\ pc # "done" /\ ~cancelled /\ cancelled' = TRUE
        /\ UNCHANGED <<cmd, servers, pc, left, heard, records, outcome>>
    BY <1>6 DEF DNS!Cancel
  <2>2. DNS!TypeOK' BY <1>t, <2>1 DEF DNS!TypeOK
  <2>3. /\ Want' = Want /\ DNS!Answered' = DNS!Answered /\ RecordsHeard' = RecordsHeard
        /\ ElementsOf(records)' = ElementsOf(records)
    BY <2>1 DEF Want, DNS!Answered, DNS!Wants, RecordsHeard, ElementsOf
  <2> QED BY <2>1, <2>2, <2>3 DEF DNSInv
<1>7. CASE UNCHANGED DNS!dnsVars
  <2>1. UNCHANGED <<cmd, servers, pc, left, cancelled, heard, records, outcome>>
    BY <1>7 DEF DNS!dnsVars
  <2>2. DNS!TypeOK' BY <1>t, <2>1 DEF DNS!TypeOK
  <2>3. /\ Want' = Want /\ DNS!Answered' = DNS!Answered /\ RecordsHeard' = RecordsHeard
        /\ ElementsOf(records)' = ElementsOf(records)
    BY <2>1 DEF Want, DNS!Answered, DNS!Wants, RecordsHeard, ElementsOf
  <2> QED BY <2>1, <2>2, <2>3 DEF DNSInv
<1> QED BY <1>1, <1>2, <1>3, <1>4, <1>5, <1>6, <1>7 DEF DNS!Next

LEMMA DNSMeans == DNSInv => DNS!TypeOK /\ DNS!AnswersUsed
<1> SUFFICES ASSUME DNSInv PROVE DNS!TypeOK /\ DNS!AnswersUsed OBVIOUS
<1>0. DNS!TypeOK BY DEF DNSInv
<1>1. /\ heard \in Seq(DNS!Replies) /\ cmd \in DNS!Commands
      /\ Len(heard) \in Nat /\ Len(servers) \in Nat
      /\ left = <<>> => Len(left) = 0
      /\ heard = <<>> => Len(heard) = 0
  <2>1. /\ heard \in Seq(DNS!Replies) /\ cmd \in DNS!Commands /\ servers \in ServerLists
    BY <1>0 DEF DNS!TypeOK
  <2>2. Len(heard) \in Nat BY <2>1
  <2> QED BY <2>1, <2>2, ServersFacts, NothingFacts
<1>2. \A i \in DOMAIN heard : heard[i].kind = "silent" => i = Len(heard) BY DEF DNSInv
<1>3. pc = "done" /\ ~cancelled /\ heard # <<>> =>
        Len(heard) = Len(servers) \/ (DNS!Wants[cmd] # "every" /\ DNS!Answered)
  BY <1>1 DEF DNSInv, Want
<1>4. DNS!Wants[cmd] = "first" /\ pc = "done" /\ ~cancelled /\ Len(heard) < Len(servers)
        => records # <<>>
  <2>1. Want = "first" => cmd \notin {"reverse", "zone"} BY <1>1, WantFacts
  <2> QED BY <1>1, <2>1 DEF DNSInv, Want
<1>5. outcome = "error" => records = <<>> /\ (DNS!Answered => DNS!Wants[cmd] # "answer")
  BY DEF DNSInv, Want
<1>6. /\ cmd # "reverse" => ElementsOf(records) \subseteq RecordsHeard
      /\ DNS!Wants[cmd] = "every" => ElementsOf(records) = RecordsHeard
  BY DEF DNSInv, Want
<1>7. /\ ElementsOf(records) = {records[i] : i \in DOMAIN records}
      /\ RecordsHeard = UNION {{heard[i].records[j] : j \in DOMAIN heard[i].records} : i \in DOMAIN heard}
  BY DEF ElementsOf, RecordsHeard
<1> QED BY <1>0, <1>2, <1>3, <1>4, <1>5, <1>6, <1>7 DEF DNS!AnswersUsed

\* Whatever servers answer, refuse or never say, and whenever the time is over, a DNS
\* command asks the next server until it has what it wants, prints what answers hold,
\* and ends with an error only when nobody had a record.
THEOREM DNSAnswersUsed == DNS!Spec => [](DNS!TypeOK /\ DNS!AnswersUsed)
BY DNSInit, DNSNext, DNSMeans, PTL DEF DNS!Spec

-----------------------------------------------------------------------------
(* RPKI *)

\* A function that tells the members of a set apart has as many values.
LEMMA ImageCardinality ==
  ASSUME NEW S, IsFiniteSet(S), NEW h, \A x, y \in S : h[x] = h[y] => x = y
  PROVE  Cardinality({h[x] : x \in S}) = Cardinality(S) /\ IsFiniteSet({h[x] : x \in S})
<1> DEFINE T == {h[x] : x \in S}
           g == [x \in S |-> h[x]]
<1>1. g \in [S -> T] /\ (\A x, y \in S : g[x] = g[y] => x = y) /\ \A t \in T : \E x \in S : g[x] = t
  OBVIOUS
<1> HIDE DEF T, g
<1>2. g \in {M \in [S -> T] : \A x, y \in S : M[x] = M[y] => x = y} BY <1>1
<1>3. g \in Injection(S, T) BY <1>2 DEF Injection, IsInjective
<1>4. g \in Surjection(S, T) BY <1>1 DEF Surjection
<1>5. ExistsBijection(S, T) BY <1>3, <1>4 DEF Bijection, ExistsBijection
<1>6. IsFiniteSet(T) /\ Cardinality(T) = Cardinality(S) BY <1>5, FS_Bijection
<1> QED BY <1>6 DEF T

\* What one read of the whois connection may have returned, and no lines.
Heard == Rows \cup {<<>>}

SortOrder(text, P) == {e \in P \X P : Validity!Earlier(text, e[1], e[2])}

LEMMA HeardFacts ==
  ASSUME NEW text \in Heard
  PROVE  /\ text \in Seq(RowLines) /\ Len(text) \in Nat /\ DOMAIN text = 1 .. Len(text)
         /\ \A i \in DOMAIN text : text[i] # Blank => text[i] \in Prefixes
<1>1. text \in Seq(RowLines)
  <2>1. CASE text \in Rows BY <2>1, RowsAssumption
  <2>2. CASE text = <<>> BY <2>2
  <2> QED BY <2>1, <2>2 DEF Heard
<1>2. Len(text) \in Nat /\ DOMAIN text = 1 .. Len(text) /\ \A i \in DOMAIN text : text[i] \in RowLines
  BY <1>1
<1> QED BY <1>1, <1>2 DEF Prefixes

\* The places of one family are strictly ordered, and lines at two of them differ.
LEMMA FamilyFacts ==
  ASSUME NEW text \in Heard, NEW six \in BOOLEAN
  PROVE  LET P == Validity!Family(text, six)
         IN /\ P \in SUBSET DOMAIN text
            /\ StrictOrder(P, SortOrder(text, P))
            /\ \A i \in P : text[i] \in Prefixes /\ text[i].v6 = six
            /\ \A i, j \in P : i # j => text[i] # text[j]
            /\ \A i, j \in P : <<i, j>> \in SortOrder(text, P) => Validity!Before(text[i], text[j])
<1> DEFINE P == Validity!Family(text, six)
           R == SortOrder(text, P)
<1>1. Len(text) \in Nat /\ DOMAIN text = 1 .. Len(text) BY HeardFacts
<1>2. /\ P \subseteq DOMAIN text
      /\ \A i \in P : text[i] # Blank /\ text[i].v6 = six
      /\ \A i \in P : \A j \in 1 .. i - 1 : text[j] # text[i]
  BY DEF Validity!Family, Validity!Distinct
<1>3. \A i \in P : text[i] \in Prefixes BY <1>2, HeardFacts
<1>4. \A i, j \in P : <<i, j>> \in R <=> Validity!Earlier(text, i, j) BY DEF SortOrder
<1> HIDE DEF P, R
<1>5. P \subseteq Int BY <1>1, <1>2
<1>6. ASSUME NEW i \in P, NEW j \in P, i # j PROVE text[i] # text[j]
  <2>1. i \in 1 .. j - 1 \/ j \in 1 .. i - 1 BY <1>1, <1>2, <1>6
  <2> QED BY <1>2, <2>1
<1>7. \A i, j \in P : <<i, j>> \in R <=> Validity!Before(text[i], text[j])
  <2> SUFFICES ASSUME NEW i \in P, NEW j \in P
               PROVE  <<i, j>> \in R <=> Validity!Before(text[i], text[j])
    OBVIOUS
  <2>1. CASE i = j
    <3>1. text[i].place \in Int /\ text[i].mask \in Int BY <1>3, RowsAssumption
    <3>2. ~ Validity!Before(text[i], text[j]) BY <2>1, <3>1 DEF Validity!Before
    <3>3. ~ (i < j) BY <1>5, <2>1
    <3> QED BY <1>4, <3>2, <3>3 DEF Validity!Earlier
  <2>2. CASE i # j BY <1>4, <1>6, <2>2 DEF Validity!Earlier
  <2> QED BY <2>1, <2>2
<1>8. /\ \A p \in Prefixes : ~ Validity!Before(p, p)
      /\ \A p, q \in Prefixes : p # q => Validity!Before(p, q) \/ Validity!Before(q, p)
      /\ \A p, q, r \in Prefixes :
           Validity!Before(p, q) /\ Validity!Before(q, r) => Validity!Before(p, r)
  <2>1. \A p \in Prefixes : p.place \in Int /\ p.mask \in Int BY RowsAssumption
  <2>2. \A p, q \in Prefixes : p.place = q.place => p = q BY RowsAssumption
  <2>3. \A p \in Prefixes : ~ Validity!Before(p, p) BY <2>1 DEF Validity!Before
  <2>4. \A p, q \in Prefixes : p # q => Validity!Before(p, q) \/ Validity!Before(q, p)
    BY <2>1, <2>2 DEF Validity!Before
  <2>5. \A p, q, r \in Prefixes :
          Validity!Before(p, q) /\ Validity!Before(q, r) => Validity!Before(p, r)
    BY <2>1 DEF Validity!Before
  <2> QED BY <2>3, <2>4, <2>5
<1>9. StrictOrder(P, R)
  <2>1. \A i \in P : <<i, i>> \notin R BY <1>3, <1>7, <1>8
  <2>2. \A i, j \in P : i # j => <<i, j>> \in R \/ <<j, i>> \in R BY <1>3, <1>6, <1>7, <1>8
  <2>3. \A i, j, k \in P : <<i, j>> \in R /\ <<j, k>> \in R => <<i, k>> \in R BY <1>3, <1>7, <1>8
  <2> QED BY <2>1, <2>2, <2>3 DEF StrictOrder
<1> QED BY <1>2, <1>3, <1>6, <1>7, <1>9 DEF P, R

\* The families of a text, sorted.
LEMMA SortFacts ==
  ASSUME NEW text \in Heard, NEW six \in BOOLEAN
  PROVE  LET P == Validity!Family(text, six)
             a == Validity!Sort(text, P)
         IN /\ a \in Seq(RowLines) /\ Validity!Sorted(a)
            /\ \A k \in DOMAIN a : a[k] \in Prefixes /\ a[k].v6 = six
            /\ \A j, k \in DOMAIN a : j # k => a[j] # a[k]
            /\ {a[k] : k \in DOMAIN a} = {text[i] : i \in P}
<1> DEFINE P == Validity!Family(text, six)
           R == SortOrder(text, P)
           a == Validity!Sort(text, P)
           f == Ascending(P, R)
<1>1. /\ P \in SUBSET DOMAIN text
      /\ StrictOrder(P, R)
      /\ \A i \in P : text[i] \in Prefixes /\ text[i].v6 = six
      /\ \A i, j \in P : i # j => text[i] # text[j]
      /\ \A i, j \in P : <<i, j>> \in R => Validity!Before(text[i], text[j])
  BY FamilyFacts
<1>2. text \in Seq(RowLines) BY HeardFacts
<1>3. a = Arrange(text, P, R)
  <2>1. \A s, Q, O : Validity!Arrange(s, Q, O) = Arrange(s, Q, O)
    BY DEF Validity!Arrange, Arrange, Validity!Ascending, Ascending, Validity!Cardinality, Cardinality
  <2> QED BY <2>1 DEF Validity!Sort, SortOrder
<1> HIDE DEF P, R, a
<1>4. a \in Seq(RowLines) /\ Places(text, P, R, a, f)
  <2>1. StrictOrder(P, R) BY <1>1
  <2>2. P \in SUBSET DOMAIN text BY <1>1
  <2> QED BY ONLY <1>2, <1>3, <2>1, <2>2, ArrangeFacts
<1> HIDE DEF f
<1>5. /\ f \in [DOMAIN a -> P]
      /\ \A k \in DOMAIN a : a[k] = text[f[k]]
      /\ \A i \in P : \E k \in DOMAIN a : i = f[k]
      /\ \A j, k \in DOMAIN a : j # k => f[j] # f[k]
      /\ \A j, k \in DOMAIN a : j < k => <<f[j], f[k]>> \in R
  BY <1>4 DEF Places
<1>6. Validity!Sorted(a)
  <2> SUFFICES ASSUME NEW i \in DOMAIN a, i > 1 PROVE Validity!Before(a[i - 1], a[i])
    BY DEF Validity!Sorted
  <2>1. i - 1 \in DOMAIN a /\ i - 1 < i BY <1>4
  <2>2. f[i - 1] \in P /\ f[i] \in P /\ <<f[i - 1], f[i]>> \in R BY <1>5, <2>1
  <2>3. Validity!Before(text[f[i - 1]], text[f[i]]) BY <1>1, <2>2
  <2>4. a[i - 1] = text[f[i - 1]] /\ a[i] = text[f[i]] BY <1>5, <2>1
  <2> QED BY <2>3, <2>4
<1>7. \A k \in DOMAIN a : a[k] \in Prefixes /\ a[k].v6 = six BY <1>1, <1>5
<1>8. \A j, k \in DOMAIN a : j # k => a[j] # a[k] BY <1>1, <1>5
<1>9. {a[k] : k \in DOMAIN a} = {text[i] : i \in P} BY <1>5
<1> QED BY <1>4, <1>6, <1>7, <1>8, <1>9 DEF P, a

\* Both families together hold every line that is not blank, once.
LEMMA TextFacts ==
  ASSUME NEW text \in Heard
  PROVE  LET a   == Validity!Sort(text, Validity!Family(text, FALSE))
             b   == Validity!Sort(text, Validity!Family(text, TRUE))
             all == a \o b
         IN /\ Validity!Sorted(a) /\ Validity!Sorted(b)
            /\ \A k \in DOMAIN a : ~a[k].v6
            /\ \A k \in DOMAIN b : b[k].v6
            /\ Len(all) \in Nat /\ DOMAIN all = 1 .. Len(all)
            /\ \A j, k \in DOMAIN all : j # k => all[j] # all[k]
            /\ {all[k] : k \in DOMAIN all} = {text[i] : i \in DOMAIN text} \ {Blank}
<1> DEFINE P == Validity!Family(text, FALSE)
           Q == Validity!Family(text, TRUE)
           a == Validity!Sort(text, P)
           b == Validity!Sort(text, Q)
           all == a \o b
<1>1. /\ a \in Seq(RowLines) /\ Validity!Sorted(a)
      /\ \A k \in DOMAIN a : a[k] \in Prefixes /\ a[k].v6 = FALSE
      /\ \A j, k \in DOMAIN a : j # k => a[j] # a[k]
      /\ {a[k] : k \in DOMAIN a} = {text[i] : i \in P}
  BY SortFacts
<1>2. /\ b \in Seq(RowLines) /\ Validity!Sorted(b)
      /\ \A k \in DOMAIN b : b[k] \in Prefixes /\ b[k].v6 = TRUE
      /\ \A j, k \in DOMAIN b : j # k => b[j] # b[k]
      /\ {b[k] : k \in DOMAIN b} = {text[i] : i \in Q}
  BY SortFacts
<1>3. {text[i] : i \in P} \cup {text[i] : i \in Q} = {text[i] : i \in DOMAIN text} \ {Blank}
  <2>1. Len(text) \in Nat /\ DOMAIN text = 1 .. Len(text) BY HeardFacts
  <2>2. \A i \in P \cup Q : i \in DOMAIN text /\ text[i] # Blank
    BY DEF Validity!Family, Validity!Distinct
  <2>3. ASSUME NEW i \in DOMAIN text, text[i] # Blank
        PROVE  \E j \in P \cup Q : text[j] = text[i]
    <3> DEFINE T == {j \in DOMAIN text : text[j] = text[i]}
    <3>1. T \in SUBSET Nat /\ T # {} BY <2>1
    <3>2. PICK j \in T : \A k \in T : j <= k BY <3>1, LeastElement
    <3>3. j \in DOMAIN text /\ text[j] = text[i] OBVIOUS
    <3>4. \A k \in 1 .. j - 1 : text[k] # text[j]
      <4> SUFFICES ASSUME NEW k \in 1 .. j - 1, text[k] = text[j] PROVE FALSE OBVIOUS
      <4>1. k \in T /\ k < j BY <2>1, <3>3
      <4>2. j <= k BY <3>2, <4>1
      <4> QED BY <2>1, <3>3, <4>1, <4>2
    <3>5. j \in Validity!Distinct(text) BY <2>3, <3>3, <3>4 DEF Validity!Distinct
    <3>6. text[j].v6 \in BOOLEAN BY <2>3, <3>3, HeardFacts, RowsAssumption
    <3> HIDE DEF T
    <3>7. j \in P \cup Q BY <3>5, <3>6 DEF Validity!Family
    <3> QED BY <3>3, <3>7
  <2> HIDE DEF P, Q
  <2> QED BY <2>2, <2>3
<1> HIDE DEF P, Q, a, b
<1>4. /\ Len(a) \in Nat /\ DOMAIN a = 1 .. Len(a)
      /\ Len(b) \in Nat /\ DOMAIN b = 1 .. Len(b)
  BY <1>1, <1>2
<1>5. /\ Len(all) = Len(a) + Len(b) /\ DOMAIN all = 1 .. Len(all)
      /\ \A k \in DOMAIN a : all[k] = a[k]
      /\ \A k \in DOMAIN b : all[Len(a) + k] = b[k]
  BY <1>1, <1>2
<1> HIDE DEF all
<1>6. \A k \in DOMAIN all : k \in DOMAIN a \/ (k - Len(a) \in DOMAIN b /\ k = Len(a) + (k - Len(a)))
  BY <1>4, <1>5
<1>7. /\ \A k \in DOMAIN a : k \in DOMAIN all
      /\ \A k \in DOMAIN b : Len(a) + k \in DOMAIN all
  BY <1>4, <1>5
<1>8. ASSUME NEW j \in DOMAIN all, NEW k \in DOMAIN all, j # k PROVE all[j] # all[k]
  <2>1. CASE j \in DOMAIN a /\ k \in DOMAIN a BY <1>1, <1>5, <1>8, <2>1
  <2>2. CASE j \in DOMAIN a /\ k \notin DOMAIN a
    <3>1. all[j].v6 = FALSE /\ all[k].v6 = TRUE BY <1>1, <1>2, <1>5, <1>6, <2>2
    <3> QED BY <3>1
  <2>3. CASE j \notin DOMAIN a /\ k \in DOMAIN a
    <3>1. all[j].v6 = TRUE /\ all[k].v6 = FALSE BY <1>1, <1>2, <1>5, <1>6, <2>3
    <3> QED BY <3>1
  <2>4. CASE j \notin DOMAIN a /\ k \notin DOMAIN a
    <3>1. /\ j - Len(a) \in DOMAIN b /\ all[j] = b[j - Len(a)]
          /\ k - Len(a) \in DOMAIN b /\ all[k] = b[k - Len(a)]
      BY <1>5, <1>6, <2>4
    <3>2. j - Len(a) # k - Len(a) BY <1>4, <1>5, <1>8
    <3> QED BY <1>2, <3>1, <3>2
  <2> QED BY <2>1, <2>2, <2>3, <2>4
<1>9. {all[k] : k \in DOMAIN all} = {a[k] : k \in DOMAIN a} \cup {b[k] : k \in DOMAIN b}
  BY <1>5, <1>6, <1>7
<1>10. {all[k] : k \in DOMAIN all} = {text[i] : i \in DOMAIN text} \ {Blank}
  BY <1>1, <1>2, <1>3, <1>9
<1>11. Len(all) \in Nat BY <1>4, <1>5
<1> QED BY <1>1, <1>2, <1>5, <1>8, <1>10, <1>11 DEF P, Q, a, b, all

Judging == rcmd \in {"rpki", "routinator"}
Listing == rcmd \in {"show", "v6", "coverage"}

\* The first answer with rows is the i-th.
Counts(i) == /\ Validity!HasRows(answers[i])
             /\ \A j \in 1 .. i - 1 : ~ Validity!HasRows(answers[j])

\* The validity of listed prefixes that rows give.
Merged(a, b, rows) ==
  [p \in {q \in Validity!Range(a \o b) : Validity!RowsOf(rows, q) # {}} |->
     Validity!LastRow(rows, p).validity]

\* What ComputeRPKIStats makes of the prefixes and their validity.
Computed == LET all == v4 \o v6
            IN [total    |-> Len(all),
                valid    |-> Validity!Count(all, "valid"),
                invalid  |-> Validity!Count(all, "invalid"),
                unknown  |-> Validity!Count(all, "unknown"),
                notFound |-> Validity!Count(all, "notFound")]

ListedInv == /\ lines \in Heard
             /\ v4 = Validity!Sort(lines, Validity!Family(lines, FALSE))
             /\ v6 = Validity!Sort(lines, Validity!Family(lines, TRUE))
             /\ pc \in {"ripe", "gin", "list"} => lines = <<>>

JudgedInv == /\ Judging => /\ outcome # "error"
                           /\ pc \in {"ripe", "gin", "done"}
                           /\ pc = "ripe" => answers = <<>> /\ validity = ""
                           /\ pc = "gin" => answers = <<Fail>> /\ validity = ""
                           /\ (validity = "not_found") <=> (answers = <<Fail, Fail>>)
                           /\ lines = <<>> /\ merged = <<>>
             /\ validity \in {"", "valid", "invalid", "not_found"}
             /\ outcome \in {"", "printed", "error"}

MergedInv == Listing =>
  /\ pc \in {"list", "roa", "roagin", "sum", "done"}
  /\ answers \in Seq(Bodies \cup {Fail})
  /\ pc \in {"list", "roa"} => answers = <<>>
  /\ pc = "roagin" => \A i \in DOMAIN answers : ~ Validity!HasRows(answers[i])
  /\ rcmd # "coverage" => answers = <<>> /\ pc \notin {"roa", "roagin"}
  /\ \A i \in DOMAIN answers : Counts(i) => merged = Merged(v4, v6, answers[i])
  /\ (\A i \in DOMAIN answers : ~ Validity!HasRows(answers[i])) => merged = <<>>

StatsInv == stats # Validity!NoStats => pc = "done" /\ stats = Computed /\ Listing

RPKIInv == (Judging \/ Listing) /\ ListedInv /\ JudgedInv /\ MergedInv /\ StatsInv

\* The commands that ask validators for one prefix, and those that list prefixes.
LEMMA CommandFacts ==
  /\ Validity!Init => (Judging \/ Listing) /\ (Judging => pc = "ripe") /\ (Listing => pc = "list")
  /\ Listing => (Validity!Runs.rows <=> rcmd = "coverage")
  /\ ~ (Judging /\ Listing)
<1> DEFINE C == Validity!Command
<1>1. /\ DOMAIN C = {"show", "v6", "coverage", "rpki", "routinator"}
      /\ C["show"].asks = "list" /\ C["v6"].asks = "list" /\ C["coverage"].asks = "list"
      /\ C["rpki"].asks = "ripe" /\ C["routinator"].asks = "ripe"
      /\ C["show"].rows = FALSE /\ C["v6"].rows = FALSE /\ C["coverage"].rows = TRUE
  BY DEF Validity!Command, Validity!Plan, Validity!newBGPShow, Validity!newBGPV6,
         Validity!newBGPCoverage, Validity!newBGPRPKI, Validity!newBGPTRoutinator
<1> HIDE DEF C
<1>2. Validity!Runs = C[rcmd] BY DEF Validity!Runs, C
<1>3. Validity!Init => rcmd \in DOMAIN C /\ pc = Validity!Runs.asks BY DEF Validity!Init, C
<1> QED BY <1>1, <1>2, <1>3 DEF Judging, Listing

LEMMA SecondAnswer == ASSUME NEW x, NEW y PROVE Append(<<>>, x) = <<x>> /\ Append(<<y>>, x) = <<y, x>>
<1> DEFINE S == {x, y}
           a == Append(<<y>>, x)
           b == <<y, x>>
<1>1. <<y>> \in Seq(S) OBVIOUS
<1>2. a \in Seq(S) /\ Len(a) = 2 /\ a[2] = x /\ a[1] = y BY <1>1
<1>3. b \in Seq(S) /\ Len(b) = 2 /\ b[1] = y /\ b[2] = x OBVIOUS
<1>4. Append(<<>>, x) = <<x>> OBVIOUS
<1> HIDE DEF S, a, b
<1>5. a \in [1 .. 2 -> S] /\ b \in [1 .. 2 -> S] BY <1>2, <1>3
<1>6. \A i \in 1 .. 2 : i = 1 \/ i = 2 OBVIOUS
<1>7. \A i \in 1 .. 2 : a[i] = b[i] BY <1>2, <1>3, <1>6
<1>8. a = b BY <1>5, <1>7
<1> QED BY <1>4, <1>8 DEF a, b

LEMMA NothingListed ==
  /\ <<>> \in Heard
  /\ \A six \in BOOLEAN : Validity!Sort(<<>>, Validity!Family(<<>>, six)) = <<>>
<1>1. \A six \in BOOLEAN : Validity!Family(<<>>, six) = {}
  BY DEF Validity!Family, Validity!Distinct
<1>2. ASSUME NEW R PROVE Validity!Arrange(<<>>, {}, R) = <<>>
  <2>1. Validity!Cardinality({}) = 0
    BY FS_EmptySet DEF Validity!Cardinality, Cardinality
  <2>2. 1 .. 0 = {} OBVIOUS
  <2>3. Validity!Arrange(<<>>, {}, R) = [k \in {} |-> <<>>[Validity!Ascending({}, R)[k]]]
    BY <2>1, <2>2 DEF Validity!Arrange
  <2> QED BY <2>3
<1>3. \A six \in BOOLEAN : Validity!Sort(<<>>, Validity!Family(<<>>, six)) = <<>>
  BY <1>1, <1>2 DEF Validity!Sort
<1> QED BY <1>3 DEF Heard

LEMMA RPKIInit == Validity!Init => RPKIInv
<1> SUFFICES ASSUME Validity!Init PROVE RPKIInv OBVIOUS
<1>1. /\ lines = <<>> /\ v4 = <<>> /\ v6 = <<>> /\ answers = <<>> /\ merged = <<>>
      /\ validity = "" /\ stats = Validity!NoStats /\ outcome = ""
  BY DEF Validity!Init
<1>2. (Judging \/ Listing) /\ (Judging => pc = "ripe") /\ (Listing => pc = "list")
  BY CommandFacts
<1>3. ListedInv BY <1>1, NothingListed DEF ListedInv
<1>4. JudgedInv BY <1>1, <1>2 DEF JudgedInv
<1>5. MergedInv
  <2>0. answers = <<>> BY <1>1
  <2>1. answers \in Seq(Bodies \cup {Fail}) /\ DOMAIN answers = {} BY <2>0
  <2> QED BY <1>1, <1>2, <2>1 DEF MergedInv
<1>6. StatsInv BY <1>1 DEF StatsInv
<1> QED BY <1>2, <1>3, <1>4, <1>5, <1>6 DEF RPKIInv

LEMMA RPKINext == RPKIInv /\ [Validity!Next]_(Validity!rpkiVars) => RPKIInv'
<1> SUFFICES ASSUME RPKIInv, [Validity!Next]_(Validity!rpkiVars) PROVE RPKIInv' OBVIOUS
<1>1. (Judging \/ Listing) /\ ListedInv /\ JudgedInv /\ MergedInv /\ StatsInv BY DEF RPKIInv
<1>2. ~ (Judging /\ Listing) /\ (Listing => (Validity!Runs.rows <=> rcmd = "coverage"))
  BY CommandFacts
<1>3. ASSUME NEW reply \in {"valid", "invalid", Fail}, Validity!Judge(reply) PROVE RPKIInv'
  <2>1. /\ Judging /\ UNCHANGED <<rcmd, lines, v4, v6, merged, stats>>
        /\ pc \in {"ripe", "gin"} /\ answers' = Append(answers, reply)
        /\ pc' \in {"gin", "done"}
    BY <1>1, <1>3 DEF Validity!Judge, Validity!Return, MergedInv
  <2>2. Judging' /\ ~ Listing' BY <1>2, <2>1 DEF Judging, Listing
  <2>3. ListedInv' BY <1>1, <2>1 DEF ListedInv, JudgedInv
  <2>4. stats = Validity!NoStats /\ stats' = Validity!NoStats
    BY <1>1, <2>1 DEF StatsInv, Validity!NoStats
  <2>5. JudgedInv'
    <3>1. answers = <<>> \/ answers = <<Fail>> BY <1>1, <2>1 DEF JudgedInv
    <3>a. <<Fail, Fail>>[2] = Fail /\ Len(<<Fail, Fail>>) = 2 OBVIOUS
    <3>b. Append(<<>>, reply) = <<reply>> /\ Append(<<Fail>>, reply) = <<Fail, reply>>
      BY SecondAnswer
    <3>2. reply # Fail => answers' # <<Fail, Fail>>
      <4>1. answers' = <<reply>> \/ answers' = <<Fail, reply>> BY <2>1, <3>1, <3>b
      <4> QED BY <4>1
    <3>3. CASE reply = Fail /\ pc = "ripe"
      <4>a. answers' = <<Fail>> BY <1>1, <2>1, <3>3, <3>b DEF JudgedInv
      <4>b. pc' = "gin" /\ validity' = validity /\ outcome' = outcome
        BY <1>3, <3>3 DEF Validity!Judge
      <4>c. /\ validity = "" /\ outcome # "error" /\ outcome \in {"", "printed", "error"}
            /\ lines = <<>> /\ merged = <<>>
        BY <1>1, <2>1, <3>3 DEF JudgedInv
      <4>1. /\ answers' = <<Fail>> /\ pc' = "gin" /\ validity' = "" /\ outcome' = outcome
            /\ outcome # "error" /\ outcome \in {"", "printed", "error"}
            /\ lines' = <<>> /\ merged' = <<>>
        BY <2>1, <4>a, <4>b, <4>c
      <4>2. answers' # <<Fail, Fail>>
        <5>1. Len(<<Fail>>) = 1 OBVIOUS
        <5> QED BY <3>a, <4>1, <5>1
      <4> QED BY <2>2, <4>1, <4>2 DEF JudgedInv
    <3>4. CASE ~ (reply = Fail /\ pc = "ripe")
      <4>1. /\ pc' = "done" /\ outcome' = "printed"
            /\ validity' = (IF reply = Fail THEN "not_found" ELSE reply)
            /\ lines' = <<>> /\ merged' = <<>>
        BY <1>1, <1>3, <2>1, <3>4 DEF Validity!Judge, Validity!Return, JudgedInv
      <4>2. reply = Fail => answers' = <<Fail, Fail>>
        BY <1>1, <2>1, <3>4, <3>b DEF JudgedInv
      <4>3. reply # Fail => validity' \in {"valid", "invalid"} BY <4>1
      <4>4. (validity' = "not_found") <=> (answers' = <<Fail, Fail>>)
        BY <3>2, <4>1, <4>2, <4>3
      <4>5. validity' \in {"", "valid", "invalid", "not_found"} BY <4>1, <4>3
      <4> QED BY <4>1, <4>4, <4>5 DEF JudgedInv
    <3> QED BY <3>3, <3>4
  <2>6. MergedInv' BY <2>2 DEF MergedInv
  <2>7. StatsInv' BY <2>4 DEF StatsInv, Validity!NoStats
  <2> QED BY <2>2, <2>3, <2>5, <2>6, <2>7 DEF RPKIInv
<1>4. ASSUME NEW text \in Rows \cup {Fail}, Validity!List(text) PROVE RPKIInv'
  <2>1. /\ Listing /\ pc = "list" /\ UNCHANGED <<rcmd, answers, merged, validity, stats>>
        /\ answers = <<>> /\ merged = <<>> /\ lines = <<>>
    <3>1. pc = "list" /\ Listing BY <1>1, <1>4 DEF Validity!List, JudgedInv
    <3>2. answers = <<>> BY <1>1, <3>1 DEF MergedInv
    <3>3. merged = <<>> BY <1>1, <3>1, <3>2 DEF MergedInv
    <3> QED BY <1>1, <1>4, <3>1, <3>2, <3>3 DEF Validity!List, ListedInv
  <2>2. Listing' /\ ~ Judging' BY <1>2, <2>1 DEF Judging, Listing
  <2>3. stats = Validity!NoStats /\ stats' = Validity!NoStats
    BY <1>1, <2>1 DEF StatsInv, Validity!NoStats
  <2>4. /\ pc' \in {"roa", "sum", "done"} /\ (pc' = "roa" => rcmd = "coverage")
        /\ outcome' \in {"", "printed", "error"}
    BY <1>1, <1>2, <1>4, <2>1 DEF Validity!List, Validity!Return, JudgedInv
  <2>5. ListedInv'
    <3>1. CASE text \in {Fail, <<>>}
      <4>1. lines' = <<>> /\ v4' = v4 /\ v6' = v6 BY <1>4, <3>1 DEF Validity!List
      <4> QED BY <1>1, <2>1, <2>4, <4>1 DEF ListedInv
    <3>2. CASE text \notin {Fail, <<>>}
      <4>1. /\ lines' = text /\ text \in Heard
            /\ v4' = Validity!Sort(text, Validity!Family(text, FALSE))
            /\ v6' = Validity!Sort(text, Validity!Family(text, TRUE))
        BY <1>4, <3>2 DEF Validity!List, Heard
      <4> QED BY <2>4, <4>1 DEF ListedInv
    <3> QED BY <3>1, <3>2
  <2>6. JudgedInv' BY <1>1, <2>1, <2>2, <2>4 DEF JudgedInv
  <2>7. MergedInv'
    <3>1. answers' = <<>> /\ answers' \in Seq(Bodies \cup {Fail}) /\ DOMAIN answers' = {} BY <2>1
    <3> QED BY <2>1, <2>2, <2>4, <3>1 DEF MergedInv
  <2>8. StatsInv' BY <2>3 DEF StatsInv, Validity!NoStats
  <2> QED BY <2>2, <2>5, <2>6, <2>7, <2>8 DEF RPKIInv
<1>5. ASSUME NEW reply \in Bodies \cup {Fail}, Validity!Validate(reply) PROVE RPKIInv'
  <2>1. /\ Listing /\ pc \in {"roa", "roagin"} /\ rcmd = "coverage"
        /\ answers' = Append(answers, reply)
        /\ UNCHANGED <<rcmd, lines, v4, v6, validity, stats, outcome>>
    BY <1>1, <1>5 DEF Validity!Validate, JudgedInv, MergedInv
  <2>2. Listing' /\ ~ Judging' BY <1>2, <2>1 DEF Judging, Listing
  <2>3. stats = Validity!NoStats /\ stats' = Validity!NoStats
    BY <1>1, <2>1 DEF StatsInv, Validity!NoStats
  <2>4. /\ Validity!HasRows(reply) => merged' = Validity!Merge(reply) /\ pc' = "sum"
        /\ ~ Validity!HasRows(reply) => merged' = merged /\ pc' \in {"roagin", "sum"}
    BY <1>5 DEF Validity!Validate
  <2>5. answers \in Seq(Bodies \cup {Fail}) BY <1>1, <2>1 DEF MergedInv
  <2>6. \A i \in DOMAIN answers : ~ Validity!HasRows(answers[i])
    BY <1>1, <2>1 DEF MergedInv
  <2>7. merged = <<>> BY <1>1, <2>1, <2>6 DEF MergedInv
  <2>8. /\ answers' \in Seq(Bodies \cup {Fail}) /\ Len(answers) \in Nat
        /\ DOMAIN answers' = DOMAIN answers \cup {Len(answers) + 1}
        /\ answers'[Len(answers) + 1] = reply
        /\ \A i \in DOMAIN answers : answers'[i] = answers[i]
    BY <2>1, <2>5
  <2>9. MergedInv'
    <3> DEFINE n == Len(answers) + 1
    <3> HIDE DEF n
    <3>1. /\ DOMAIN answers' = DOMAIN answers \cup {n} /\ answers'[n] = reply
          /\ \A i \in DOMAIN answers : ~ Validity!HasRows(answers'[i])
      BY <2>6, <2>8 DEF n
    <3>2. Validity!Merge(reply) = Merged(v4', v6', reply)
      BY <2>1 DEF Validity!Merge, Merged
    <3>3. ASSUME NEW i \in DOMAIN answers', Counts(i)'
          PROVE  merged' = Merged(v4', v6', answers'[i])
      <4>1. Validity!HasRows(answers'[i]) BY <3>3 DEF Counts, Validity!HasRows
      <4>2. i = n /\ answers'[i] = reply BY <3>1, <4>1
      <4> QED BY <2>4, <3>2, <4>1, <4>2
    <3>4. ASSUME \A i \in DOMAIN answers' : ~ Validity!HasRows(answers'[i]) PROVE merged' = <<>>
      <4>1. ~ Validity!HasRows(reply) BY <3>1, <3>4
      <4> QED BY <2>4, <2>7, <4>1
    <3>5. pc' = "roagin" => \A i \in DOMAIN answers' : ~ Validity!HasRows(answers'[i])
      <4> SUFFICES ASSUME pc' = "roagin", NEW i \in DOMAIN answers'
                   PROVE  ~ Validity!HasRows(answers'[i])
        OBVIOUS
      <4>1. ~ Validity!HasRows(reply) BY <2>4
      <4> QED BY <3>1, <4>1
    <3>6. pc' \in {"roagin", "sum"} BY <2>4
    <3> QED BY <2>1, <2>8, <3>3, <3>4, <3>5, <3>6 DEF MergedInv, Validity!HasRows
  <2>10. ListedInv' BY <1>1, <2>1, <2>4 DEF ListedInv
  <2>11. JudgedInv' BY <1>1, <2>1, <2>2 DEF JudgedInv
  <2>12. StatsInv' BY <2>3 DEF StatsInv, Validity!NoStats
  <2> QED BY <2>2, <2>9, <2>10, <2>11, <2>12 DEF RPKIInv
<1>6. CASE Validity!Compute
  <2>1. /\ Listing /\ pc = "sum" /\ pc' = "done" /\ outcome' = "printed"
        /\ UNCHANGED <<rcmd, lines, v4, v6, answers, merged, validity>>
    BY <1>1, <1>6 DEF Validity!Compute, Validity!Return, JudgedInv
  <2>2. Listing' /\ ~ Judging' BY <1>2, <2>1 DEF Judging, Listing
  <2>3. ListedInv' BY <1>1, <2>1 DEF ListedInv
  <2>4. JudgedInv' BY <1>1, <2>1, <2>2 DEF JudgedInv
  <2>5. MergedInv'
    <3>1. \A i : Counts(i)' <=> Counts(i) BY <2>1 DEF Counts, Validity!HasRows
    <3> QED BY <1>1, <2>1, <2>2, <3>1 DEF MergedInv, Validity!HasRows
  <2>6. Computed' = Computed BY <2>1 DEF Computed, Validity!Count, Validity!ValidityOf
  <2>7. stats' = Validity!NoStats \/ stats' = Computed
    BY <1>6 DEF Validity!Compute, Computed
  <2>8. StatsInv'
    <3>1. Validity!NoStats' = Validity!NoStats BY DEF Validity!NoStats
    <3> QED BY <2>1, <2>2, <2>6, <2>7, <3>1 DEF StatsInv
  <2> QED BY <2>2, <2>3, <2>4, <2>5, <2>8 DEF RPKIInv
<1>7. CASE UNCHANGED Validity!rpkiVars
  <2>1. UNCHANGED <<rcmd, pc, lines, v4, v6, answers, merged, validity, stats, outcome>>
    BY <1>7 DEF Validity!rpkiVars
  <2>2. (Judging \/ Listing)' BY <1>1, <2>1 DEF Judging, Listing
  <2>3. ListedInv' BY <1>1, <2>1 DEF ListedInv
  <2>4. JudgedInv' BY <1>1, <2>1 DEF JudgedInv, Judging
  <2>5. MergedInv'
    <3>1. \A i : Counts(i)' <=> Counts(i) BY <2>1 DEF Counts, Validity!HasRows
    <3> QED BY <1>1, <2>1, <3>1 DEF MergedInv, Validity!HasRows, Listing
  <2>6. StatsInv'
    <3>1. Validity!NoStats' = Validity!NoStats BY DEF Validity!NoStats
    <3>2. Computed' = Computed BY <2>1 DEF Computed, Validity!Count, Validity!ValidityOf
    <3> QED BY <1>1, <2>1, <3>1, <3>2 DEF StatsInv, Listing
  <2> QED BY <2>2, <2>3, <2>4, <2>5, <2>6 DEF RPKIInv
<1> QED BY <1>3, <1>4, <1>5, <1>6, <1>7 DEF Validity!Next

\* Every validity is of one class; one nobody has filled in is not found.
LEMMA ClassFacts ==
  /\ \A v : Validity!Class(v) \in {"valid", "invalid", "unknown", "notFound"}
  /\ Validity!Class("") = "notFound"
<1>1. \A v : Validity!Class(v) \in {"valid", "invalid", "unknown", "notFound"}
  BY DEF Validity!Class
<1>2. Validity!Class("") = "notFound" BY DEF Validity!Class
<1> QED BY <1>1, <1>2

Members(all, class) == {i \in DOMAIN all : Validity!Class(Validity!ValidityOf(all[i])) = class}

\* The classes partition the prefixes.
LEMMA CountFacts ==
  ASSUME NEW all, NEW n \in Nat, DOMAIN all = 1 .. n
  PROVE  /\ \A c \in {"valid", "invalid", "unknown", "notFound"} :
              Validity!Count(all, c) \in Nat /\ Validity!Count(all, c) = Cardinality(Members(all, c))
         /\ n = Validity!Count(all, "valid") + Validity!Count(all, "invalid")
                + Validity!Count(all, "unknown") + Validity!Count(all, "notFound")
         /\ IsFiniteSet(DOMAIN all) /\ Cardinality(DOMAIN all) = n
<1> DEFINE A == Members(all, "valid")
           B == Members(all, "invalid")
           C == Members(all, "unknown")
           D == Members(all, "notFound")
<1>1. \A c : Validity!Count(all, c) = Cardinality(Members(all, c))
  BY DEF Validity!Count, Members, Validity!Cardinality, Cardinality
<1>2. IsFiniteSet(1 .. n) /\ Cardinality(1 .. n) = n
  <2>1. 1 \in Int /\ n \in Int OBVIOUS
  <2>2. IsFiniteSet(1 .. n) /\ Cardinality(1 .. n) = IF 1 > n THEN 0 ELSE n - 1 + 1
    BY <2>1, FS_Interval
  <2> QED BY <2>2
<1>3. ASSUME NEW c PROVE IsFiniteSet(Members(all, c)) /\ Cardinality(Members(all, c)) \in Nat
  <2>1. Members(all, c) \subseteq 1 .. n BY DEF Members
  <2> QED BY <1>2, <2>1, FS_Subset, FS_CardinalityType
<1>4. /\ A \cap B = {} /\ (A \cup B) \cap C = {} /\ (A \cup B \cup C) \cap D = {}
      /\ A \cup B \cup C \cup D = 1 .. n
  BY ClassFacts DEF Members
<1>5. /\ IsFiniteSet(A) /\ IsFiniteSet(B) /\ IsFiniteSet(C) /\ IsFiniteSet(D)
      /\ Cardinality(A) \in Nat /\ Cardinality(B) \in Nat
      /\ Cardinality(C) \in Nat /\ Cardinality(D) \in Nat
  BY <1>3
<1> HIDE DEF A, B, C, D
<1>6. /\ Cardinality(A \cap B) = 0 /\ Cardinality((A \cup B) \cap C) = 0
      /\ Cardinality((A \cup B \cup C) \cap D) = 0
  <2>1. Cardinality({}) = 0 BY FS_EmptySet
  <2> QED BY ONLY <1>4, <2>1
<1>7. IsFiniteSet(A \cup B) /\ Cardinality(A \cup B) = Cardinality(A) + Cardinality(B)
  <2>1. /\ IsFiniteSet(A \cup B)
        /\ Cardinality(A \cup B) = Cardinality(A) + Cardinality(B) - Cardinality(A \cap B)
    BY <1>5, FS_Union
  <2> QED BY ONLY <1>5, <1>6, <2>1
<1>8. /\ IsFiniteSet(A \cup B \cup C)
      /\ Cardinality(A \cup B \cup C) = Cardinality(A) + Cardinality(B) + Cardinality(C)
  <2>1. /\ IsFiniteSet((A \cup B) \cup C)
        /\ Cardinality((A \cup B) \cup C)
             = Cardinality(A \cup B) + Cardinality(C) - Cardinality((A \cup B) \cap C)
    BY <1>5, <1>7, FS_Union
  <2> QED BY ONLY <1>5, <1>6, <1>7, <2>1
<1>9. Cardinality(A \cup B \cup C \cup D)
        = Cardinality(A) + Cardinality(B) + Cardinality(C) + Cardinality(D)
  <2>1. Cardinality((A \cup B \cup C) \cup D)
          = Cardinality(A \cup B \cup C) + Cardinality(D) - Cardinality((A \cup B \cup C) \cap D)
    BY <1>5, <1>8, FS_Union
  <2> QED BY ONLY <1>5, <1>6, <1>8, <2>1
<1>10. n = Cardinality(A) + Cardinality(B) + Cardinality(C) + Cardinality(D)
  BY <1>2, <1>4, <1>9
<1> QED BY <1>1, <1>2, <1>3, <1>10 DEF A, B, C, D

\* The filled part of the bar is part of it.
LEMMA FilledFacts ==
  ASSUME NEW s, s.total \in Nat, s.valid \in Nat, s.valid <= s.total
  PROVE  Validity!Filled(s) \subseteq 0 .. Validity!BarWidth
<1> DEFINE n == s.total
           v == s.valid
<1>1. CASE n = 0 BY <1>1 DEF Validity!Filled, Validity!BarWidth
<1>2. CASE n # 0
  <2>1. n \in Nat \ {0} /\ v \in 0 .. n BY <1>2
  <2>2. v * 50 \in Nat /\ v * 50 <= n * 50 BY <2>1
  <2>3. Validity!Exact(s) = (v * 50) \div n BY DEF Validity!Exact, Validity!BarWidth
  <2>4. Validity!Rounds(s) => v \in 1 .. n - 1 /\ (v * 50) % n = 0
    BY DEF Validity!Rounds, Validity!BarWidth
  <2> HIDE DEF n, v
  <2>5. (v * 50) \div n \in 0 .. 50 BY <2>1, <2>2
  <2>6. v \in 1 .. n - 1 /\ (v * 50) % n = 0 => (v * 50) \div n # 0
    <3> SUFFICES ASSUME v \in 1 .. n - 1, (v * 50) % n = 0, (v * 50) \div n = 0 PROVE FALSE
      OBVIOUS
    <3>1. v * 50 = n * ((v * 50) \div n) + ((v * 50) % n) BY <2>1, <2>2
    <3>2. v * 50 = 0 BY <2>1, <3>1
    <3> QED BY <2>1, <3>2
  <2>7. Validity!Filled(s) \subseteq {Validity!Exact(s)}
          \cup (IF Validity!Rounds(s) THEN {Validity!Exact(s) - 1} ELSE {})
    BY <1>2 DEF Validity!Filled, n
  <2> QED BY <2>3, <2>4, <2>5, <2>6, <2>7 DEF Validity!BarWidth
<1> QED BY <1>1, <1>2

\* A prefix is valid when the first answer with rows says so.
Says(p) == \E i \in DOMAIN answers :
             /\ Counts(i)
             /\ Validity!RowsOf(answers[i], p) # {}
             /\ Validity!Class(Validity!LastRow(answers[i], p).validity) = "valid"

LEMMA ValidityFacts ==
  ASSUME Listing, MergedInv
  PROVE  /\ DOMAIN merged \subseteq Validity!Range(v4 \o v6)
         /\ \A p \in Validity!Range(v4 \o v6) :
              Validity!Class(Validity!ValidityOf(p)) = "valid" <=> Says(p)
<1> DEFINE all == Validity!Range(v4 \o v6)
<1>1. DOMAIN <<>> = {} OBVIOUS
<1>2. CASE \E i \in DOMAIN answers : Validity!HasRows(answers[i])
  <2> DEFINE T == {k \in DOMAIN answers : Validity!HasRows(answers[k])}
  <2>1. answers \in Seq(Bodies \cup {Fail}) BY DEF MergedInv
  <2>2. Len(answers) \in Nat /\ DOMAIN answers = 1 .. Len(answers) BY <2>1
  <2>3. T \in SUBSET Nat /\ T # {} BY <1>2, <2>2
  <2>4. PICK i \in T : \A k \in T : i <= k BY <2>3, LeastElement
  <2>5. i \in DOMAIN answers /\ Counts(i)
    <3>1. i \in DOMAIN answers /\ Validity!HasRows(answers[i]) OBVIOUS
    <3>2. ASSUME NEW j \in 1 .. i - 1, Validity!HasRows(answers[j]) PROVE FALSE
      <4>1. j \in T /\ j < i BY <2>2, <3>1, <3>2
      <4>2. i <= j BY <2>4, <4>1
      <4> QED BY <2>2, <3>1, <4>1, <4>2
    <3> QED BY <3>1, <3>2 DEF Counts
  <2>6. \A k \in DOMAIN answers : Counts(k) => k = i
    <3> SUFFICES ASSUME NEW k \in DOMAIN answers, Counts(k), k # i PROVE FALSE OBVIOUS
    <3>1. i \in 1 .. k - 1 \/ k \in 1 .. i - 1 BY <2>2, <2>5
    <3> QED BY <2>5, <3>1 DEF Counts
  <2> HIDE DEF T
  <2>7. merged = Merged(v4, v6, answers[i]) BY <2>5 DEF MergedInv
  <2> DEFINE rows == answers[i]
  <2>8. /\ DOMAIN merged = {q \in all : Validity!RowsOf(rows, q) # {}}
        /\ \A p \in DOMAIN merged : merged[p] = Validity!LastRow(rows, p).validity
    BY <2>7 DEF Merged
  <2>9. \A p : Says(p) <=> /\ Validity!RowsOf(rows, p) # {}
                           /\ Validity!Class(Validity!LastRow(rows, p).validity) = "valid"
    BY <2>5, <2>6 DEF Says
  <2>10. ASSUME NEW p \in all
         PROVE  Validity!Class(Validity!ValidityOf(p)) = "valid" <=> Says(p)
    <3>1. CASE Validity!RowsOf(rows, p) # {}
      <4>1. Validity!ValidityOf(p) = Validity!LastRow(rows, p).validity
        BY <2>8, <3>1 DEF Validity!ValidityOf
      <4> QED BY <2>9, <3>1, <4>1
    <3>2. CASE Validity!RowsOf(rows, p) = {}
      <4>1. Validity!ValidityOf(p) = "" BY <2>8, <3>2 DEF Validity!ValidityOf
      <4> QED BY <2>9, <3>2, <4>1, ClassFacts
    <3> QED BY <3>1, <3>2
  <2> QED BY <2>8, <2>10
<1>3. CASE \A i \in DOMAIN answers : ~ Validity!HasRows(answers[i])
  <2>1. merged = <<>> BY <1>3 DEF MergedInv
  <2>2. \A p : Validity!ValidityOf(p) = "" BY <1>1, <2>1 DEF Validity!ValidityOf
  <2>3. \A p : ~ Says(p) BY <1>3 DEF Says, Counts
  <2> QED BY <1>1, <2>1, <2>2, <2>3, ClassFacts
<1> QED BY <1>2, <1>3

LEMMA RPKIMeans == RPKIInv => Validity!TypeOK /\ Validity!StatsAddUp
<1> SUFFICES ASSUME RPKIInv PROVE Validity!TypeOK /\ Validity!StatsAddUp OBVIOUS
<1>1. (Judging \/ Listing) /\ ListedInv /\ JudgedInv /\ MergedInv /\ StatsInv BY DEF RPKIInv
<1>2. ~ (Judging /\ Listing) BY CommandFacts
<1> DEFINE all == v4 \o v6
           n   == Len(all)
<1>3. /\ Validity!Sorted(v4) /\ Validity!Sorted(v6)
      /\ \A k \in DOMAIN v4 : ~v4[k].v6
      /\ \A k \in DOMAIN v6 : v6[k].v6
      /\ n \in Nat /\ DOMAIN all = 1 .. n
      /\ \A j, k \in DOMAIN all : j # k => all[j] # all[k]
      /\ {all[k] : k \in DOMAIN all} = {lines[i] : i \in DOMAIN lines} \ {Blank}
  <2>1. PICK text \in Heard : text = lines BY <1>1 DEF ListedInv
  <2>2. /\ v4 = Validity!Sort(text, Validity!Family(text, FALSE))
        /\ v6 = Validity!Sort(text, Validity!Family(text, TRUE))
    BY <1>1, <2>1 DEF ListedInv
  <2>3. LET a == Validity!Sort(text, Validity!Family(text, FALSE))
            b == Validity!Sort(text, Validity!Family(text, TRUE))
            c == a \o b
        IN /\ Validity!Sorted(a) /\ Validity!Sorted(b)
           /\ \A k \in DOMAIN a : ~a[k].v6
           /\ \A k \in DOMAIN b : b[k].v6
           /\ Len(c) \in Nat /\ DOMAIN c = 1 .. Len(c)
           /\ \A j, k \in DOMAIN c : j # k => c[j] # c[k]
           /\ {c[k] : k \in DOMAIN c} = {text[i] : i \in DOMAIN text} \ {Blank}
    BY TextFacts
  <2>4. /\ Validity!Sorted(v4) /\ Validity!Sorted(v6)
        /\ \A k \in DOMAIN v4 : ~v4[k].v6
        /\ \A k \in DOMAIN v6 : v6[k].v6
    BY ONLY <2>2, <2>3
  <2>5. /\ n \in Nat /\ DOMAIN all = 1 .. n
        /\ \A j, k \in DOMAIN all : j # k => all[j] # all[k]
        /\ {all[k] : k \in DOMAIN all} = {text[i] : i \in DOMAIN text} \ {Blank}
    BY ONLY <2>2, <2>3
  <2> QED BY <2>1, <2>4, <2>5
<1>4. /\ Validity!Range(all) = {all[k] : k \in DOMAIN all}
      /\ Validity!Range(lines) = {lines[i] : i \in DOMAIN lines}
      /\ Validity!Range(v4) = {v4[i] : i \in DOMAIN v4}
      /\ Validity!Range(v6) = {v6[i] : i \in DOMAIN v6}
  BY DEF Validity!Range
<1> HIDE DEF all, n
<1>5. /\ DOMAIN merged \subseteq Validity!Range(all)
      /\ Listing => \A p \in Validity!Range(all) :
                      Validity!Class(Validity!ValidityOf(p)) = "valid" <=> Says(p)
  <2>1. CASE Listing BY <1>1, <2>1, ValidityFacts DEF all
  <2>2. CASE Judging
    <3>1. merged = <<>> BY <1>1, <2>2 DEF JudgedInv
    <3> QED BY <1>2, <2>2, <3>1
  <2> QED BY <1>1, <2>1, <2>2
<1>6. Validity!TypeOK
  <2>1. rcmd \in DOMAIN Validity!Command
    BY <1>1 DEF Judging, Listing, Validity!Command
  <2>2. pc \in {"ripe", "gin", "list", "roa", "roagin", "sum", "done"}
    BY <1>1 DEF JudgedInv, MergedInv
  <2>3. (\A p \in Validity!Range(v4) : ~p.v6) /\ (\A p \in Validity!Range(v6) : p.v6)
    BY <1>3, <1>4
  <2>4. DOMAIN merged \subseteq Validity!Range(v4 \o v6) BY <1>5 DEF all
  <2> QED BY <1>1, <2>1, <2>2, <2>3, <2>4 DEF Validity!TypeOK, JudgedInv
<1>7. ASSUME stats # Validity!NoStats
      PROVE  /\ stats.total = Cardinality(Validity!Range(lines) \ {Blank})
             /\ stats.total = stats.valid + stats.invalid + stats.unknown + stats.notFound
             /\ Validity!Filled(stats) \subseteq 0 .. Validity!BarWidth
             /\ stats.valid = Cardinality({p \in Validity!Range(all) : Says(p)})
  <2>1. stats = Computed /\ Listing BY <1>1, <1>7 DEF StatsInv
  <2>2. /\ stats.total = n /\ stats.valid = Validity!Count(all, "valid")
        /\ stats.invalid = Validity!Count(all, "invalid")
        /\ stats.unknown = Validity!Count(all, "unknown")
        /\ stats.notFound = Validity!Count(all, "notFound")
    BY <2>1 DEF Computed, all, n
  <2>3. /\ \A c \in {"valid", "invalid", "unknown", "notFound"} :
             Validity!Count(all, c) \in Nat /\ Validity!Count(all, c) = Cardinality(Members(all, c))
        /\ n = Validity!Count(all, "valid") + Validity!Count(all, "invalid")
               + Validity!Count(all, "unknown") + Validity!Count(all, "notFound")
        /\ IsFiniteSet(DOMAIN all) /\ Cardinality(DOMAIN all) = n
    BY <1>3, CountFacts
  <2>4. \A S \in SUBSET DOMAIN all : Cardinality({all[k] : k \in S}) = Cardinality(S)
    <3> SUFFICES ASSUME NEW S \in SUBSET DOMAIN all
                 PROVE  Cardinality({all[k] : k \in S}) = Cardinality(S)
      OBVIOUS
    <3>1. IsFiniteSet(S) BY <2>3, FS_Subset
    <3>2. \A x, y \in S : all[x] = all[y] => x = y BY <1>3
    <3> QED BY ONLY <3>1, <3>2, ImageCardinality
  <2>5. stats.total = Cardinality(Validity!Range(lines) \ {Blank})
    BY <1>3, <1>4, <2>2, <2>3, <2>4
  <2>6. Validity!Filled(stats) \subseteq 0 .. Validity!BarWidth
    <3>1. stats.total \in Nat /\ stats.valid \in Nat /\ stats.valid <= stats.total
      BY <1>3, <2>2, <2>3
    <3> QED BY ONLY <3>1, FilledFacts
  <2>7. stats.valid = Cardinality({p \in Validity!Range(all) : Says(p)})
    <3>1. {all[k] : k \in Members(all, "valid")} = {p \in Validity!Range(all) : Says(p)}
      BY <1>4, <1>5, <2>1 DEF Members
    <3>2. Members(all, "valid") \subseteq DOMAIN all BY DEF Members
    <3> QED BY <2>2, <2>3, <2>4, <3>1, <3>2
  <2> QED BY <2>2, <2>3, <2>5, <2>6, <2>7
<1>9. Judging => outcome # "error" /\ ((validity = "not_found") <=> (answers = <<Fail, Fail>>))
  BY <1>1 DEF JudgedInv
<1>10. Validity!Range(all) = Validity!Range(lines) \ {Blank} BY <1>3, <1>4
<1>11. \A S : Validity!Cardinality(S) = Cardinality(S)
  BY DEF Validity!Cardinality, Cardinality
<1>12. {p \in Validity!Range(all) : Says(p)} =
         {p \in Validity!Range(all) :
            \E i \in DOMAIN answers :
              /\ Validity!HasRows(answers[i])
              /\ \A j \in 1 .. i - 1 : ~ Validity!HasRows(answers[j])
              /\ Validity!RowsOf(answers[i], p) # {}
              /\ Validity!Class(Validity!LastRow(answers[i], p).validity) = "valid"}
  BY DEF Says, Counts
<1>13. Validity!StatsAddUp
  BY <1>3, <1>7, <1>9, <1>10, <1>11, <1>12 DEF Validity!StatsAddUp, all, Judging
<1> QED BY <1>6, <1>13

LEMMA RPKIRunInit == Init => (subject = "rpki" => RPKIInv)
BY RPKIInit DEF Init

LEMMA RPKIRunNext ==
  (subject = "rpki" => RPKIInv) /\ [Next]_vars => (subject = "rpki" => RPKIInv)'
<1> SUFFICES ASSUME subject = "rpki" => RPKIInv, [Next]_vars, subject' = "rpki" PROVE RPKIInv'
  OBVIOUS
<1>1. CASE NextRPKI BY <1>1, RPKINext DEF NextRPKI
<1>2. CASE UNCHANGED vars
  <2>1. UNCHANGED <<subject, Validity!rpkiVars>>
    BY <1>2 DEF vars, shared, ofRPKI, Validity!rpkiVars
  <2> QED BY <2>1, RPKINext
<1>3. CASE Next /\ ~ NextRPKI
  BY <1>3 DEF Next, NextDNS, NextASN, NextBGP, NextTopo, NextNames
<1> QED BY <1>1, <1>2, <1>3

\* In every run of the lookups the statistics of RPKI validity count every prefix of the
\* text once and in one class, as the first answer with rows says.
THEOREM StatsCorrect == Spec => []StatsAddUp
<1>1. (subject = "rpki" => RPKIInv) => StatsAddUp BY RPKIMeans DEF StatsAddUp
<1> QED BY RPKIRunInit, RPKIRunNext, <1>1, PTL DEF Spec

-----------------------------------------------------------------------------
(* The ASN lookups *)

Replies == Texts \cup Origins \cup ASAnswers \cup {Fail}
Entries == [turn : Nat \ {0}, source : ASN!Sources, reply : Replies]
Results == [ip : STRING, info : ASN!Info]

LEMMA RoutingFacts ==
  /\ DOMAIN ASN!NextHost = {"ripe", "radb", "arin"}
  /\ ASN!Routing = {"origin", "ripe", "radb", "arin"}
  /\ ASN!NextHost["ripe"] = "radb" /\ ASN!NextHost["radb"] = "arin" /\ ASN!NextHost["arin"] = "none"
  /\ ASN!Sources = {"origin", "name", "whoisname", "first", "details", "routes", "cymru", "detail",
                    "peers", "ripe", "radb", "arin"}
BY DEF ASN!NextHost, ASN!Routing, ASN!Sources

LEMMA StartFacts ==
  /\ DOMAIN ASN!Start = {"LookupIP", "LookupBulkIPs", "LookupASNM", "LookupPrefixes",
                         "LookupPrefixDetail", "LookupPeers"}
  /\ ASN!Start["LookupIP"] = "origin" /\ ASN!Start["LookupBulkIPs"] = "origin"
  /\ ASN!Start["LookupASNM"] = "first" /\ ASN!Start["LookupPrefixes"] = "routes"
  /\ ASN!Start["LookupPrefixDetail"] = "detail" /\ ASN!Start["LookupPeers"] = "peers"
BY DEF ASN!Start

\* The line a lookup takes, if any, says what lines say.
LEMMA AnyLineFacts ==
  ASSUME NEW V, NEW other \in V, NEW text \in Seq([key : STRING, value : V])
  PROVE  /\ Len(text) \in Nat /\ DOMAIN text = 1 .. Len(text)
         /\ \A i \in DOMAIN text : text[i].key \in STRING /\ text[i].value \in V
         /\ \A P \in SUBSET DOMAIN text : ASN!FirstOf(text, P, other) \in V
         /\ \A P \in SUBSET DOMAIN text : ASN!LastOf(text, P, other) \in V
<1>1. /\ Len(text) \in Nat /\ DOMAIN text = 1 .. Len(text)
      /\ \A i \in DOMAIN text : text[i] \in [key : STRING, value : V]
  <2> DEFINE L == [key : STRING, value : V]
  <2>1. text \in Seq(L) OBVIOUS
  <2> HIDE DEF L
  <2>2. /\ Len(text) \in Nat /\ DOMAIN text = 1 .. Len(text)
        /\ \A i \in DOMAIN text : text[i] \in L
    BY <2>1
  <2> QED BY <2>2 DEF L
<1>2. \A i \in DOMAIN text : text[i].key \in STRING /\ text[i].value \in V BY <1>1
<1>3. ASSUME NEW P \in SUBSET DOMAIN text PROVE ASN!FirstOf(text, P, other) \in V
  <2>1. CASE P = {} BY <2>1 DEF ASN!FirstOf
  <2>2. CASE P # {}
    <3> DEFINE x == CHOOSE i \in P : \A j \in P : i <= j
    <3>1. P \in SUBSET Nat BY <1>1
    <3>2. \E i \in P : \A j \in P : i <= j BY <2>2, <3>1, LeastElement
    <3>3. x \in P BY <3>2
    <3>4. ASN!FirstOf(text, P, other) = text[x].value BY <2>2 DEF ASN!FirstOf
    <3> HIDE DEF x
    <3> QED BY <1>2, <3>3, <3>4
  <2> QED BY <2>1, <2>2
<1>4. ASSUME NEW P \in SUBSET DOMAIN text PROVE ASN!LastOf(text, P, other) \in V
  <2>1. CASE P = {} BY <2>1 DEF ASN!LastOf
  <2>2. CASE P # {}
    <3> DEFINE x == CHOOSE i \in P : \A j \in P : j <= i
    <3>1. P \in SUBSET (1 .. Len(text)) BY <1>1
    <3>2. \E i \in P : \A j \in P : j <= i BY <1>1, <2>2, <3>1, GreatestElement
    <3>3. x \in P BY <3>2
    <3>4. ASN!LastOf(text, P, other) = text[x].value BY <2>2 DEF ASN!LastOf
    <3> HIDE DEF x
    <3> QED BY <1>2, <3>3, <3>4
  <2> QED BY <2>1, <2>2
<1> QED BY <1>1, <1>2, <1>3, <1>4

LEMMA LineFacts ==
  ASSUME NEW text \in Texts, NEW other \in STRING
  PROVE  /\ Len(text) \in Nat /\ DOMAIN text = 1 .. Len(text)
         /\ \A i \in DOMAIN text : text[i].key \in STRING /\ text[i].value \in STRING
         /\ \A P \in SUBSET DOMAIN text : ASN!FirstOf(text, P, other) \in STRING
         /\ \A P \in SUBSET DOMAIN text : ASN!LastOf(text, P, other) \in STRING
BY TextsAssumption, AnyLineFacts

LEMMA NamesAreStrings ==
  /\ "" \in STRING /\ ASN!NoASN \in STRING /\ ASN!NoInfo \in ASN!Info
  /\ ASN!NoPrefix \in STRING \X STRING
  /\ \A v \in STRING : ASN!Number(v) \in STRING
<1>1. "" \in STRING /\ "0" \in STRING /\ "4294967295" \in STRING BY StringAssumption
<1>2. \A v \in STRING : ASN!Number(v) \in STRING BY <1>1 DEF ASN!Number, ASN!NoASN
<1> QED BY <1>1, <1>2 DEF ASN!NoASN, ASN!NoInfo, ASN!Info, ASN!NoPrefix

\* A column is a string, also one that is missing.
LEMMA ColumnFacts == ASSUME NEW txt \in Seq(STRING), NEW n \in Nat \ {0}
                     PROVE  ASN!Column(txt, n) \in STRING
<1>1. n <= Len(txt) => txt[n] \in STRING OBVIOUS
<1>2. n <= Len(txt) \/ ~ (n <= Len(txt)) OBVIOUS
<1> QED BY <1>1, <1>2, StringAssumption DEF ASN!Column

LEMMA CutFacts ==
  ASSUME NEW text \in Texts
  PROVE  ASN!Cut(text) \in Seq([key : STRING, value : STRING \X STRING])
<1>1. /\ Len(text) \in Nat /\ DOMAIN text = 1 .. Len(text)
      /\ \A i \in DOMAIN text : text[i].key \in STRING /\ text[i].value \in STRING
  BY LineFacts, NamesAreStrings
<1>2. \A i \in DOMAIN text : ASN!Cut(text)[i] \in [key : STRING, value : STRING \X STRING]
  BY <1>1, StringAssumption DEF ASN!Cut
<1>3. DOMAIN ASN!Cut(text) = 1 .. Len(text)
      /\ ASN!Cut(text) = [i \in 1 .. Len(text) |-> ASN!Cut(text)[i]]
  BY <1>1 DEF ASN!Cut
<1> QED BY <1>1, <1>2, <1>3

LEMMA AtFacts ==
  ASSUME NEW text, NEW key
  PROVE  /\ ASN!At(text, key) \in SUBSET DOMAIN text
         /\ ASN!Said(text, key) \in SUBSET DOMAIN text
         /\ ASN!Numbered(text, key) \in SUBSET DOMAIN text
         /\ ASN!Routes(text) \in SUBSET DOMAIN text
BY DEF ASN!At, ASN!Said, ASN!Numbered, ASN!Routes

LEMMA ParseFacts ==
  /\ \A text \in Texts : ASN!parseWhoisForASN(text) \in ASN!Info
  /\ ASN!parseWhoisForASN(<<>>).asn = ASN!NoASN
<1>1. ASSUME NEW text \in Texts PROVE ASN!parseWhoisForASN(text) \in ASN!Info
  <2> DEFINE named == ASN!Said(text, "descr")
             later == {i \in ASN!At(text, "descr") : \E j \in named : j < i}
             cut   == ASN!Cut(text)
             routes == {i \in ASN!Routes(text) : cut[i].value # ASN!NoPrefix}
  <2>1. later \in SUBSET DOMAIN text BY AtFacts
  <2>3. ASN!FirstOf(cut, routes, ASN!NoPrefix) \in STRING \X STRING
    <3>1. DOMAIN cut = DOMAIN text BY DEF ASN!Cut
    <3>2. routes \in SUBSET DOMAIN cut BY <3>1, AtFacts
    <3>3. cut \in Seq([key : STRING, value : STRING \X STRING]) BY CutFacts
    <3> HIDE DEF cut, routes
    <3> QED BY <3>2, <3>3, NamesAreStrings, AnyLineFacts
  <2>2. /\ ASN!LastOf(text, ASN!Numbered(text, "origin"), ASN!NoASN) \in STRING
        /\ ASN!FirstOf(text, named, "") \in STRING
        /\ ASN!LastOf(text, later, "") \in STRING
        /\ ASN!LastOf(text, ASN!At(text, "source"), "") \in STRING
    BY <2>1, AtFacts, LineFacts, NamesAreStrings
  <2> QED BY <2>2, <2>3 DEF ASN!parseWhoisForASN, ASN!Info
<1>2. ASN!parseWhoisForASN(<<>>).asn = ASN!NoASN
  <2>1. ASN!Numbered(<<>>, "origin") = {} BY DEF ASN!At, ASN!Numbered
  <2> QED BY <2>1 DEF ASN!parseWhoisForASN, ASN!LastOf
<1> QED BY <1>1, <1>2

-----------------------------------------------------------------------------
(* What the history says *)

AskedIn(h, k) == {i \in DOMAIN h : h[i].turn = k /\ h[i].source \in ASN!Routing}

DecidedIn(h, k, result) ==
  \E i \in AskedIn(h, k) :
    /\ h[i].reply # Fail
    /\ result.asn = ASN!ASNOf(h[i])
    /\ result.source = IF h[i].source = "origin" THEN "cymru" ELSE "whois"
    /\ result.source = "whois" => result.asn # ASN!NoASN
    /\ \A j \in AskedIn(h, k) \ {i} : j < i /\ ASN!ASNOf(h[j]) = ASN!NoASN

\* Those in S were asked about the k-th address, and none of them knew it.
Silent(h, k, S) == /\ {h[i].source : i \in AskedIn(h, k)} = S
                   /\ \A i \in AskedIn(h, k) : ASN!ASNOf(h[i]) = ASN!NoASN

LastName(h, name) ==
  \/ name = "" /\ \A i \in DOMAIN h : ~ ASN!TellsName(h[i])
  \/ \E i \in DOMAIN h : /\ ASN!TellsName(h[i]) /\ name = ASN!NameOf(h[i])
                         /\ \A j \in DOMAIN h : ASN!TellsName(h[j]) => j <= i

LEMMA HearFacts ==
  ASSUME NEW h \in Seq(Entries), NEW e \in Entries
  PROVE  LET g == Append(h, e)
             n == Len(h) + 1
         IN /\ g \in Seq(Entries) /\ n \in Nat \ {0} /\ Len(g) = n
            /\ DOMAIN h = 1 .. n - 1 /\ DOMAIN g = 1 .. n
            /\ g[n] = e /\ \A i \in DOMAIN h : g[i] = h[i]
            /\ e.source \in ASN!Routing => AskedIn(g, e.turn) = AskedIn(h, e.turn) \cup {n}
            /\ \A k : e.turn # k \/ e.source \notin ASN!Routing =>
                 /\ AskedIn(g, k) = AskedIn(h, k)
                 /\ \A r : DecidedIn(g, k, r) <=> DecidedIn(h, k, r)
                 /\ \A S : Silent(g, k, S) <=> Silent(h, k, S)
<1> DEFINE g == Append(h, e)
           n == Len(h) + 1
<1>1. /\ g \in Seq(Entries) /\ n \in Nat \ {0} /\ Len(g) = n
      /\ DOMAIN h = 1 .. n - 1 /\ DOMAIN g = 1 .. n
      /\ g[n] = e /\ \A i \in DOMAIN h : g[i] = h[i]
  OBVIOUS
<1> HIDE DEF g, n
<1>2. DOMAIN g = DOMAIN h \cup {n} BY <1>1
<1>3. e.source \in ASN!Routing => AskedIn(g, e.turn) = AskedIn(h, e.turn) \cup {n}
  BY <1>1, <1>2 DEF AskedIn
<1>4. ASSUME NEW k, e.turn # k \/ e.source \notin ASN!Routing
      PROVE  /\ AskedIn(g, k) = AskedIn(h, k)
             /\ \A r : DecidedIn(g, k, r) <=> DecidedIn(h, k, r)
             /\ \A S : Silent(g, k, S) <=> Silent(h, k, S)
  <2>1. AskedIn(g, k) = AskedIn(h, k) BY <1>1, <1>2, <1>4 DEF AskedIn
  <2>2. \A i \in AskedIn(h, k) : g[i] = h[i] BY <1>1 DEF AskedIn
  <2>3. \A r : DecidedIn(g, k, r) <=> DecidedIn(h, k, r) BY <2>1, <2>2 DEF DecidedIn
  <2>4. {g[i].source : i \in AskedIn(h, k)} = {h[i].source : i \in AskedIn(h, k)} BY <2>2
  <2>5. \A S : Silent(g, k, S) <=> Silent(h, k, S) BY <2>1, <2>2, <2>4 DEF Silent
  <2> QED BY <2>1, <2>3, <2>5
<1> QED BY <1>1, <1>3, <1>4 DEF g, n

\* A source that knows the address decides, when those before did not.
LEMMA HearDecision ==
  ASSUME NEW h \in Seq(Entries), NEW e \in Entries, NEW S, NEW r,
         Silent(h, e.turn, S), e.source \in ASN!Routing, e.reply # Fail,
         r.asn = ASN!ASNOf(e), r.source = (IF e.source = "origin" THEN "cymru" ELSE "whois"),
         r.source = "whois" => r.asn # ASN!NoASN
  PROVE  DecidedIn(Append(h, e), e.turn, r)
<1> DEFINE g == Append(h, e)
           n == Len(h) + 1
<1>1. /\ n \in Nat \ {0} /\ DOMAIN h = 1 .. n - 1 /\ g[n] = e /\ \A i \in DOMAIN h : g[i] = h[i]
      /\ AskedIn(g, e.turn) = AskedIn(h, e.turn) \cup {n}
  BY HearFacts
<1> HIDE DEF g, n
<1>2. \A j \in AskedIn(g, e.turn) \ {n} : j < n /\ ASN!ASNOf(g[j]) = ASN!NoASN
  <2> SUFFICES ASSUME NEW j \in AskedIn(g, e.turn) \ {n}
               PROVE  j < n /\ ASN!ASNOf(g[j]) = ASN!NoASN
    OBVIOUS
  <2>1. j \in AskedIn(h, e.turn) /\ j \in DOMAIN h BY <1>1 DEF AskedIn
  <2>2. j < n BY <1>1, <2>1
  <2>3. g[j] = h[j] BY <1>1, <2>1
  <2> QED BY <2>1, <2>2, <2>3 DEF Silent
<1>3. n \in AskedIn(g, e.turn) BY <1>1
<1> QED BY <1>1, <1>2, <1>3 DEF DecidedIn, g

LEMMA HearSilence ==
  ASSUME NEW h \in Seq(Entries), NEW e \in Entries, NEW S,
         Silent(h, e.turn, S), e.source \in ASN!Routing, ASN!ASNOf(e) = ASN!NoASN
  PROVE  Silent(Append(h, e), e.turn, S \cup {e.source})
<1> DEFINE g == Append(h, e)
           n == Len(h) + 1
<1>1. /\ n \in Nat \ {0} /\ DOMAIN h = 1 .. n - 1 /\ g[n] = e /\ \A i \in DOMAIN h : g[i] = h[i]
      /\ AskedIn(g, e.turn) = AskedIn(h, e.turn) \cup {n}
  BY HearFacts
<1> HIDE DEF g, n
<1>2. \A i \in AskedIn(h, e.turn) : g[i] = h[i] BY <1>1 DEF AskedIn
<1>3. {g[i].source : i \in AskedIn(g, e.turn)} = S \cup {e.source} BY <1>1, <1>2 DEF Silent
<1>4. \A i \in AskedIn(g, e.turn) : ASN!ASNOf(g[i]) = ASN!NoASN BY <1>1, <1>2 DEF Silent
<1> QED BY <1>3, <1>4 DEF Silent, g

LEMMA HearName ==
  ASSUME NEW h \in Seq(Entries), NEW e \in Entries, NEW old, NEW name, LastName(h, old),
         ASN!TellsName(e) => name = ASN!NameOf(e),
         ~ ASN!TellsName(e) => name = old
  PROVE  LastName(Append(h, e), name)
<1> DEFINE g == Append(h, e)
           n == Len(h) + 1
<1>1. /\ n \in Nat \ {0} /\ DOMAIN h = 1 .. n - 1 /\ DOMAIN g = 1 .. n
      /\ g[n] = e /\ \A i \in DOMAIN h : g[i] = h[i]
  BY HearFacts
<1> HIDE DEF g, n
<1>2. DOMAIN g = DOMAIN h \cup {n} /\ \A i \in DOMAIN g : i <= n BY <1>1
<1>3. CASE ASN!TellsName(e) BY <1>1, <1>2, <1>3 DEF LastName, g
<1>4. CASE ~ ASN!TellsName(e)
  <2>1. CASE old = "" /\ \A i \in DOMAIN h : ~ ASN!TellsName(h[i])
    <3>1. \A i \in DOMAIN g : ~ ASN!TellsName(g[i]) BY <1>1, <1>2, <1>4, <2>1
    <3> QED BY <1>4, <2>1, <3>1 DEF LastName, g
  <2>2. ASSUME NEW i \in DOMAIN h, ASN!TellsName(h[i]), old = ASN!NameOf(h[i]),
               \A j \in DOMAIN h : ASN!TellsName(h[j]) => j <= i
        PROVE  LastName(g, name)
    <3>1. i \in DOMAIN g /\ g[i] = h[i] BY <1>1, <1>2
    <3>2. \A j \in DOMAIN g : ASN!TellsName(g[j]) => j <= i
      BY <1>1, <1>2, <1>4, <2>2
    <3> QED BY <1>4, <2>2, <3>1, <3>2 DEF LastName
  <2> QED BY <2>1, <2>2 DEF LastName, g
<1> QED BY <1>3, <1>4

\* The k-th address is unknown.
Missed(h, k) == Silent(h, k, ASN!Routing)

\* The results o, in order, are those of the places in K whose address is not unknown.
ResultsFor(named, h, K, o) ==
  LET answered == {k \in K : ~ Missed(h, k)}
  IN /\ Len(o) = Cardinality(answered)
     /\ \A k \in answered :
          LET result == o[Cardinality({j \in answered : j <= k})]
          IN result.ip = named[k] /\ DecidedIn(h, k, result.info)

\* A result of the next address goes behind the others.
LEMMA NextResult ==
  ASSUME NEW named, NEW t \in Nat, NEW h, NEW g, NEW o \in Seq(Results), ResultsFor(named, h, 1 .. t, o),
         \A k \in 1 .. t : /\ Missed(g, k) <=> Missed(h, k)
                           /\ \A r : DecidedIn(g, k, r) <=> DecidedIn(h, k, r)
  PROVE  /\ Missed(g, t + 1) => ResultsFor(named, g, 1 .. t + 1, o)
         /\ \A r \in Results : (/\ ~ Missed(g, t + 1) /\ r.ip = named[t + 1]
                                /\ DecidedIn(g, t + 1, r.info))
                                 => ResultsFor(named, g, 1 .. t + 1, Append(o, r))
<1> DEFINE A == {k \in 1 .. t : ~ Missed(h, k)}
           B == {k \in 1 .. t + 1 : ~ Missed(g, k)}
<1>1. IsFiniteSet(1 .. t) /\ 1 .. t + 1 = (1 .. t) \cup {t + 1} /\ t + 1 \notin 1 .. t
  BY IntervalFacts
<1>2. A \subseteq 1 .. t /\ IsFiniteSet(A) BY <1>1, FS_Subset
<1>3. /\ Len(o) = Cardinality(A)
      /\ \A k \in A : /\ o[Cardinality({j \in A : j <= k})].ip = named[k]
                      /\ DecidedIn(h, k, o[Cardinality({j \in A : j <= k})].info)
  BY DEF ResultsFor
<1>4. CASE Missed(g, t + 1)
  <2>1. B = A BY <1>1, <1>4
  <2> QED BY <1>3, <1>4, <2>1 DEF ResultsFor
<1>5. CASE ~ Missed(g, t + 1)
  <2>1. B = A \cup {t + 1} BY <1>1, <1>5
  <2> SUFFICES ASSUME NEW r \in Results, r.ip = named[t + 1], DecidedIn(g, t + 1, r.info)
               PROVE  ResultsFor(named, g, 1 .. t + 1, Append(o, r))
    BY <1>5
  <2> DEFINE p == Append(o, r)
  <2> HIDE DEF A
  <2>2. t + 1 \notin A BY <1>1, <1>2
  <2>3. Cardinality(B) = Cardinality(A) + 1 BY <1>2, <2>1, <2>2, FS_AddElement
  <2>4. /\ Len(p) = Len(o) + 1 /\ p[Len(o) + 1] = r /\ Len(o) \in Nat
        /\ \A i \in 1 .. Len(o) : p[i] = o[i]
    OBVIOUS
  <2> HIDE DEF p, B
  <2>5. ASSUME NEW k \in B
        PROVE  LET result == p[Cardinality({j \in B : j <= k})]
               IN result.ip = named[k] /\ DecidedIn(g, k, result.info)
    <3>1. CASE k = t + 1
      <4>1. \A j \in B : j <= k BY <1>2, <2>1, <3>1
      <4>2. {j \in B : j <= k} = B BY <4>1
      <4>3. Cardinality({j \in B : j <= k}) = Len(o) + 1 BY <1>3, <2>3, <4>2
      <4> QED BY <2>4, <3>1, <4>3
    <3>2. CASE k # t + 1
      <4> DEFINE C == {j \in A : j <= k}
      <4>1. k \in A /\ k \in 1 .. t BY <1>2, <2>1, <3>2
      <4>2. {j \in B : j <= k} = C BY <2>1, <4>1
      <4>3. k \in C /\ C \subseteq A BY <4>1
      <4> HIDE DEF C
      <4>4. IsFiniteSet(C) /\ Cardinality(C) <= Cardinality(A) BY <1>2, <4>3, FS_Subset
      <4>5. Cardinality(C) \in Nat BY <4>4, FS_CardinalityType
      <4>6. Cardinality(C) # 0 BY <4>3, <4>4, FS_EmptySet
      <4>7. Cardinality(C) \in 1 .. Len(o) BY <1>3, <2>4, <4>4, <4>5, <4>6
      <4>8. p[Cardinality(C)] = o[Cardinality(C)] BY <2>4, <4>7
      <4>9. /\ o[Cardinality(C)].ip = named[k]
            /\ DecidedIn(h, k, o[Cardinality(C)].info)
        BY <1>3, <4>1 DEF C
      <4> QED BY <4>1, <4>2, <4>8, <4>9
    <3> QED BY <3>1, <3>2
  <2> QED BY <1>3, <2>3, <2>4, <2>5 DEF ResultsFor, B, p
<1> QED BY <1>4, <1>5

LEMMA SameResults ==
  ASSUME NEW named, NEW K, NEW h, NEW g, NEW o, ResultsFor(named, h, K, o),
         \A k \in K : /\ Missed(g, k) <=> Missed(h, k)
                      /\ \A r : DecidedIn(g, k, r) <=> DecidedIn(h, k, r)
  PROVE  ResultsFor(named, g, K, o)
<1> DEFINE A == {k \in K : ~ Missed(h, k)}
<1>1. A = {k \in K : ~ Missed(g, k)} OBVIOUS
<1>2. /\ Len(o) = Cardinality(A)
      /\ \A k \in A : /\ o[Cardinality({j \in A : j <= k})].ip = named[k]
                      /\ DecidedIn(h, k, o[Cardinality({j \in A : j <= k})].info)
  BY DEF ResultsFor
<1>3. \A k \in A : \A r : DecidedIn(g, k, r) <=> DecidedIn(h, k, r) OBVIOUS
<1> HIDE DEF A
<1>4. \A k \in A : DecidedIn(g, k, o[Cardinality({j \in A : j <= k})].info) BY <1>2, <1>3
<1> QED BY <1>1, <1>2, <1>4 DEF ResultsFor

LEMMA SameSize == ASSUME NEW S PROVE ASN!Cardinality(S) = Cardinality(S)
BY DEF ASN!Cardinality, Cardinality

LEMMA SameKeep == ASSUME NEW s, NEW P PROVE ASN!Keep(s, P) = Keep(s, P)
BY DEF ASN!Keep, Keep, ASN!Arrange, Arrange, ASN!Ascending, Ascending, ASN!Cardinality, Cardinality

\* Each system a text mentions is named once.
LEMMA PeersFacts ==
  ASSUME NEW text \in Texts
  PROVE  LET o == ASN!Peers(text)
         IN /\ \A i, j \in DOMAIN o : i # j => o[i].asn # o[j].asn
            /\ {o[i].asn : i \in DOMAIN o} =
                 {text[i].value : i \in {j \in DOMAIN text : ASN!Mentions(text[j])}}
<1> DEFINE M == {j \in DOMAIN text : ASN!Mentions(text[j])}
           P == {i \in DOMAIN text :
                   /\ ASN!Mentions(text[i])
                   /\ \A j \in 1 .. i - 1 : ASN!Mentions(text[j]) => text[j].value # text[i].value}
           a == Keep(text, P)
           o == ASN!Peers(text)
           L == [key : STRING, value : STRING]
<1>1. Len(text) \in Nat /\ DOMAIN text = 1 .. Len(text) BY LineFacts, NamesAreStrings
<1>2. P \in SUBSET DOMAIN text OBVIOUS
<1>3. text \in Seq(L) BY TextsAssumption
<1>4. PICK f \in [DOMAIN a -> P] :
        /\ \A k \in DOMAIN a : a[k] = text[f[k]]
        /\ \A i \in P : \E k \in DOMAIN a : i = f[k]
        /\ \A j, k \in DOMAIN a : j < k => f[j] < f[k]
  <2> HIDE DEF P, L
  <2> QED BY <1>2, <1>3, KeepFacts
<1>5. a \in Seq(L)
  <2> HIDE DEF P, L
  <2> QED BY <1>2, <1>3, KeepFacts
<1>6. DOMAIN o = DOMAIN a /\ \A k \in DOMAIN a : o[k].asn = a[k].value
  BY SameKeep DEF ASN!Peers
<1>7. DOMAIN a \subseteq Int
  <2> HIDE DEF a, L
  <2> QED BY <1>5
<1> HIDE DEF o, a
<1>8. \A k \in DOMAIN o : o[k].asn = text[f[k]].value /\ f[k] \in P BY <1>4, <1>6
<1>9. \A i, j \in P : i # j => text[i].value # text[j].value
  <2> SUFFICES ASSUME NEW i \in P, NEW j \in P, i # j PROVE text[i].value # text[j].value
    OBVIOUS
  <2>1. i \in 1 .. j - 1 \/ j \in 1 .. i - 1 BY <1>1
  <2> QED BY <2>1
<1>10. ASSUME NEW i \in DOMAIN o, NEW j \in DOMAIN o, i # j PROVE o[i].asn # o[j].asn
  <2>1. i < j \/ j < i BY <1>6, <1>7, <1>10
  <2>2. f[i] \in Int /\ f[j] \in Int BY <1>1, <1>8
  <2>3. f[i] # f[j] BY <1>4, <1>6, <2>1, <2>2
  <2> QED BY <1>8, <1>9, <2>3
<1>11. ASSUME NEW i \in M PROVE \E k \in DOMAIN o : o[k].asn = text[i].value
  <2> DEFINE T == {j \in M : text[j].value = text[i].value}
  <2>1. T \in SUBSET Nat /\ i \in T BY <1>1
  <2>2. PICK j \in T : \A k \in T : j <= k BY <2>1, LeastElement
  <2>3. j \in M /\ text[j].value = text[i].value OBVIOUS
  <2>4. \A k \in 1 .. j - 1 : ASN!Mentions(text[k]) => text[k].value # text[j].value
    <3> SUFFICES ASSUME NEW k \in 1 .. j - 1, ASN!Mentions(text[k]), text[k].value = text[j].value
                 PROVE  FALSE
      OBVIOUS
    <3>1. k \in T /\ k < j BY <1>1, <2>3
    <3>2. j <= k BY <2>2, <3>1
    <3> QED BY <1>1, <2>3, <3>1, <3>2
  <2>5. j \in P BY <2>3, <2>4
  <2> HIDE DEF P, T
  <2>6. PICK k \in DOMAIN a : j = f[k] BY <1>4, <2>5
  <2> QED BY <1>6, <1>8, <2>3, <2>6
<1>12. {o[k].asn : k \in DOMAIN o} \subseteq {text[i].value : i \in M} BY <1>8
<1>13. {o[k].asn : k \in DOMAIN o} = {text[i].value : i \in M}
  <2> HIDE DEF M, P, L, a
  <2> QED BY ONLY <1>11, <1>12
<1> QED BY <1>10, <1>13 DEF o

-----------------------------------------------------------------------------
(* Its invariant *)

Addressed == fn \in {"LookupIP", "LookupBulkIPs"}

ASNType == /\ fn \in DOMAIN ASN!Start
           /\ given \in Seq(STRING) /\ given # <<>>
           /\ ips \in Seq(STRING) /\ ips # <<>> /\ Len(ips) <= Len(given)
           /\ \A i \in DOMAIN ips : ips[i] = given[Len(given) - Len(ips) + i]
           /\ fn # "LookupBulkIPs" => ips = given
           /\ info \in ASN!Info
           /\ heard \in Seq(Entries)
           /\ pc \in ASN!Sources \cup {"done"} /\ outcome \in {"", "ok", "error"}
           /\ pc = "done" <=> outcome # ""

AddressInv == Addressed =>
  /\ pc \in {"origin", "ripe", "radb", "arin", "name", "whoisname", "done"}
  /\ \A i \in DOMAIN heard : heard[i].turn <= ASN!Turn
  /\ pc = "origin" => Silent(heard, ASN!Turn, {})
  /\ pc = "ripe" => Silent(heard, ASN!Turn, {"origin"})
  /\ pc = "radb" => Silent(heard, ASN!Turn, {"origin", "ripe"})
  /\ pc = "arin" => Silent(heard, ASN!Turn, {"origin", "ripe", "radb"})
  /\ pc \in {"name", "whoisname"} =>
       DecidedIn(heard, ASN!Turn, info) /\ ~ Missed(heard, ASN!Turn)
  /\ fn = "LookupIP" /\ outcome = "ok" => DecidedIn(heard, ASN!Turn, info)
  /\ fn = "LookupIP" /\ outcome = "error" => Missed(heard, ASN!Turn)
  /\ fn = "LookupBulkIPs" => out \in Seq(Results) /\ ResultsFor(given, heard, ASN!Over, out)

SystemInv ==
  /\ fn = "LookupASNM" => /\ pc \in {"first", "name", "whoisname", "details", "done"}
                          /\ LastName(heard, info.name)
  /\ fn = "LookupPeers" => /\ pc \in {"peers", "done"}
                           /\ pc = "peers" => heard = <<>>
                           /\ outcome = "ok" => /\ heard[1].reply \in Texts
                                                /\ out = ASN!Peers(heard[1].reply)
  /\ fn = "LookupPrefixes" => /\ pc \in {"routes", "cymru", "done"}
  /\ fn = "LookupPrefixDetail" => pc \in {"detail", "done"}

ASNInv == ASNType /\ AddressInv /\ SystemInv

\* Where the current address is among those given.
LEMMA TurnFacts ==
  ASSUME ASNType
  PROVE  /\ Len(ips) \in Nat \ {0} /\ Len(given) \in Nat \ {0}
         /\ ASN!Turn \in 1 .. Len(given) /\ ips[1] = given[ASN!Turn] /\ ips[1] \in STRING
         /\ Len(ips) = 1 <=> ASN!Turn = Len(given)
         /\ Tail(ips) \in Seq(STRING) /\ Len(Tail(ips)) = Len(ips) - 1
         /\ \A i \in 1 .. Len(ips) - 1 : Tail(ips)[i] = ips[i + 1]
<1>1. /\ given \in Seq(STRING) /\ given # <<>>
      /\ ips \in Seq(STRING) /\ ips # <<>> /\ Len(ips) <= Len(given)
      /\ \A i \in DOMAIN ips : ips[i] = given[Len(given) - Len(ips) + i]
  BY DEF ASNType
<1>2. Len(ips) \in Nat \ {0} /\ DOMAIN ips = 1 .. Len(ips) /\ Len(given) \in Nat \ {0} BY <1>1
<1>3. ASN!Turn \in 1 .. Len(given) /\ (Len(ips) = 1 <=> ASN!Turn = Len(given))
  BY <1>1, <1>2 DEF ASN!Turn
<1>4. 1 \in DOMAIN ips BY <1>2
<1>5. ips[1] = given[ASN!Turn] /\ ips[1] \in STRING BY <1>1, <1>4 DEF ASN!Turn
<1>6. /\ Tail(ips) \in Seq(STRING) /\ Len(Tail(ips)) = Len(ips) - 1
      /\ \A i \in 1 .. Len(ips) - 1 : Tail(ips)[i] = ips[i + 1]
  BY <1>1, ReceiveFacts
<1> QED BY <1>2, <1>3, <1>5, <1>6

LEMMA ASNInit == ASN!Init => ASNInv
<1> SUFFICES ASSUME ASN!Init PROVE ASNInv OBVIOUS
<1>1. /\ fn \in DOMAIN ASN!Start /\ pc = ASN!Start[fn] /\ ips = given
      /\ info = ASN!NoInfo /\ out = <<>> /\ heard = <<>> /\ outcome = ""
  BY DEF ASN!Init
<1>2. given \in Seq(STRING) /\ given # <<>>
  <2>1. CASE fn = "LookupBulkIPs"
    <3>1. given \in BulkLists BY <2>1 DEF ASN!Init
    <3> QED BY <3>1, BulkAssumption
  <2>2. CASE fn # "LookupBulkIPs"
    <3>1. given \in {<<l[1]>> : l \in BulkLists} BY <2>2 DEF ASN!Init
    <3>2. PICK l \in BulkLists : given = <<l[1]>> BY <3>1
    <3>3. l \in Seq(STRING) /\ l # <<>> BY BulkAssumption
    <3>4. l[1] \in STRING BY <3>3
    <3> QED BY <3>2, <3>4
  <2> QED BY <2>1, <2>2
<1>3. Len(given) \in Nat \ {0} /\ DOMAIN given = 1 .. Len(given) BY <1>2
<1>4. /\ heard \in Seq(Entries) /\ out \in Seq(Results) /\ DOMAIN heard = {} /\ Len(heard) = 0
      /\ Len(out) = 0
  <2>1. heard = <<>> /\ out = <<>> BY <1>1
  <2> QED BY <2>1
<1>5. pc \in ASN!Sources /\ pc # "done" BY <1>1, StartFacts, RoutingFacts
<1>6. ASNType
  <2>1. ips = given BY <1>1
  <2>2. \A i \in DOMAIN given : Len(given) - Len(given) + i = i BY <1>3
  <2>3. \A i \in DOMAIN ips : ips[i] = given[Len(given) - Len(ips) + i] BY <2>1, <2>2
  <2>4. Len(ips) <= Len(given) BY <1>3, <2>1
  <2>5. info \in ASN!Info BY <1>1, NamesAreStrings
  <2>6. pc = "done" <=> outcome # "" BY <1>1, <1>5
  <2>7. fn \in DOMAIN ASN!Start /\ outcome \in {"", "ok", "error"} BY <1>1
  <2> QED BY <1>2, <1>4, <1>5, <2>1, <2>3, <2>4, <2>5, <2>6, <2>7 DEF ASNType
<1>7. AddressInv
  <2> SUFFICES ASSUME Addressed PROVE AddressInv BY DEF AddressInv
  <2>1. pc = "origin" BY <1>1, StartFacts DEF Addressed
  <2>2. Silent(heard, ASN!Turn, {}) BY <1>4 DEF Silent, AskedIn
  <2>3. ASN!Turn = 1
    <3>1. ips = given BY <1>1
    <3> QED BY <1>3, <3>1 DEF ASN!Turn
  <2>4. ASN!Over = {}
    <3>1. outcome = "" BY <1>1
    <3>2. \A k \in 1 .. Len(given) : ~ (k < 1) BY <1>3
    <3>3. \A k \in 1 .. Len(given) : ~ (k < ASN!Turn) BY <2>3, <3>2
    <3> QED BY <3>1, <3>3 DEF ASN!Over
  <2>5. ResultsFor(given, heard, {}, out) BY <1>4, FS_EmptySet DEF ResultsFor
  <2> QED BY <1>1, <1>4, <2>1, <2>2, <2>4, <2>5 DEF AddressInv
<1>8. SystemInv BY <1>1, <1>4, StartFacts DEF SystemInv, LastName, ASN!NoInfo
<1> QED BY <1>6, <1>7, <1>8 DEF ASNInv

\* The entry of a step that hears reply.
Entry(reply) == [turn |-> ASN!Turn, source |-> pc, reply |-> reply]

LEMMA EntryFacts ==
  ASSUME ASNType, pc # "done", NEW reply \in Replies, ASN!Hear(reply)
  PROVE  /\ Entry(reply) \in Entries /\ heard' = Append(heard, Entry(reply))
         /\ Entry(reply).turn = ASN!Turn /\ Entry(reply).source = pc
         /\ Entry(reply).reply = reply
         /\ heard' \in Seq(Entries) /\ Len(heard') = Len(heard) + 1 /\ Len(heard) \in Nat
         /\ heard'[Len(heard) + 1] = Entry(reply)
         /\ \A i \in DOMAIN heard : heard'[i] = heard[i]
         /\ DOMAIN heard' = DOMAIN heard \cup {Len(heard) + 1}
         /\ outcome = ""
<1>1. ASN!Turn \in Nat \ {0} BY TurnFacts
<1>2. Entry(reply) \in Entries BY <1>1 DEF Entry, Entries, ASNType
<1>3. heard' = Append(heard, Entry(reply)) BY DEF ASN!Hear, Entry
<1>4. heard \in Seq(Entries) /\ outcome = "" BY DEF ASNType
<1> DEFINE e == Entry(reply)
<1>5. e.turn = ASN!Turn /\ e.source = pc /\ e.reply = reply BY DEF Entry
<1>8. e \in Entries /\ heard' = Append(heard, e) BY <1>2, <1>3
<1> HIDE DEF e
<1>6. /\ heard' \in Seq(Entries) /\ Len(heard') = Len(heard) + 1 /\ Len(heard) \in Nat
      /\ heard'[Len(heard) + 1] = e
      /\ \A i \in DOMAIN heard : heard'[i] = heard[i]
      /\ DOMAIN heard' = 1 .. Len(heard) + 1 /\ DOMAIN heard = 1 .. Len(heard)
  <2> DEFINE g == Append(heard, e)
  <2>1. /\ g \in Seq(Entries) /\ Len(g) = Len(heard) + 1
        /\ DOMAIN g = 1 .. Len(heard) + 1
        /\ g[Len(heard) + 1] = e /\ \A i \in DOMAIN heard : g[i] = heard[i]
    BY <1>4, <1>8, HearFacts
  <2>2. DOMAIN heard = 1 .. Len(heard) /\ Len(heard) \in Nat BY <1>4, SeqDomain
  <2>3. heard' = g BY <1>8
  <2> HIDE DEF g
  <2> QED BY <2>1, <2>2, <2>3
<1>7. DOMAIN heard' = DOMAIN heard \cup {Len(heard) + 1} BY <1>6
<1> QED BY <1>2, <1>3, <1>4, <1>5, <1>6, <1>7 DEF e

\* What a step that hears something about the current address leaves as it was.
LEMMA HeardBefore ==
  ASSUME ASNType, AddressInv, Addressed, pc # "done", NEW reply \in Replies, ASN!Hear(reply)
  PROVE  /\ \A k \in 1 .. ASN!Turn - 1 :
              /\ Missed(heard', k) <=> Missed(heard, k)
              /\ \A r : DecidedIn(heard', k, r) <=> DecidedIn(heard, k, r)
         /\ \A i \in DOMAIN heard' : heard'[i].turn <= ASN!Turn
         /\ Silent(heard', ASN!Turn + 1, {})
         /\ ASN!Over = 1 .. ASN!Turn - 1
<1>1. /\ Entry(reply) \in Entries /\ heard' = Append(heard, Entry(reply))
      /\ Entry(reply).turn = ASN!Turn
      /\ DOMAIN heard' = DOMAIN heard \cup {Len(heard) + 1}
      /\ heard'[Len(heard) + 1] = Entry(reply) /\ \A i \in DOMAIN heard : heard'[i] = heard[i]
      /\ outcome = ""
  BY EntryFacts
<1>2. heard \in Seq(Entries) BY DEF ASNType
<1>3. ASN!Turn \in 1 .. Len(given) /\ Len(given) \in Nat BY TurnFacts
<1>4. ASSUME NEW k \in 1 .. ASN!Turn - 1
      PROVE  /\ Missed(heard', k) <=> Missed(heard, k)
             /\ \A r : DecidedIn(heard', k, r) <=> DecidedIn(heard, k, r)
  <2> DEFINE e == Entry(reply)
             g == Append(heard, e)
  <2>1. e \in Entries /\ e.turn # k
    <3>1. ASN!Turn # k BY <1>3
    <3> QED BY <1>1, <3>1
  <2>2. heard' = g BY <1>1
  <2> HIDE DEF e
  <2>3. /\ \A r : DecidedIn(g, k, r) <=> DecidedIn(heard, k, r)
        /\ \A S : Silent(g, k, S) <=> Silent(heard, k, S)
    BY <1>2, <2>1, HearFacts
  <2> HIDE DEF g
  <2> QED BY <2>2, <2>3 DEF Missed
<1>5. \A i \in DOMAIN heard' : heard'[i].turn <= ASN!Turn
  <2>1. \A i \in DOMAIN heard : heard[i].turn <= ASN!Turn BY DEF AddressInv
  <2>2. ASN!Turn <= ASN!Turn BY <1>3
  <2> QED BY <1>1, <2>1, <2>2
<1>6. Silent(heard', ASN!Turn + 1, {})
  <2>1. \A i \in DOMAIN heard' : heard'[i] \in Entries BY <1>1, <1>2, SeqDomain
  <2>2. \A i \in DOMAIN heard' : heard'[i].turn # ASN!Turn + 1
    <3> SUFFICES ASSUME NEW i \in DOMAIN heard', heard'[i].turn = ASN!Turn + 1 PROVE FALSE OBVIOUS
    <3>1. ASN!Turn + 1 <= ASN!Turn BY <1>5
    <3> QED BY <1>3, <3>1
  <2>3. AskedIn(heard', ASN!Turn + 1) = {} BY <2>2 DEF AskedIn
  <2> QED BY <2>3 DEF Silent
<1>7. ASN!Over = 1 .. ASN!Turn - 1
  <2>1. ASN!Over = {k \in 1 .. Len(given) : k < ASN!Turn} BY <1>1 DEF ASN!Over
  <2>2. {k \in 1 .. Len(given) : k < ASN!Turn} = 1 .. ASN!Turn - 1 BY <1>3
  <2> QED BY <2>1, <2>2
<1> QED BY <1>4, <1>5, <1>6, <1>7

LEMMA LeaveKeeps ==
  ASSUME ASNType, AddressInv, Addressed, pc # "done", NEW reply \in Replies, ASN!Hear(reply),
         UNCHANGED <<fn, given>>, NEW found \in BOOLEAN, NEW result \in ASN!Info,
         ASN!Leave(found, result),
         found => DecidedIn(heard', ASN!Turn, result) /\ ~ Missed(heard', ASN!Turn),
         ~ found => Missed(heard', ASN!Turn)
  PROVE  ASNInv'
<1>1. /\ heard' \in Seq(Entries) /\ outcome = "" BY EntryFacts
<1>2. /\ \A k \in 1 .. ASN!Turn - 1 :
           /\ Missed(heard', k) <=> Missed(heard, k)
           /\ \A r : DecidedIn(heard', k, r) <=> DecidedIn(heard, k, r)
      /\ \A i \in DOMAIN heard' : heard'[i].turn <= ASN!Turn
      /\ Silent(heard', ASN!Turn + 1, {})
      /\ ASN!Over = 1 .. ASN!Turn - 1
  BY HeardBefore
<1>3. /\ Len(ips) \in Nat \ {0} /\ Len(given) \in Nat \ {0}
      /\ ASN!Turn \in 1 .. Len(given) /\ ips[1] = given[ASN!Turn] /\ ips[1] \in STRING
      /\ Len(ips) = 1 <=> ASN!Turn = Len(given)
      /\ Tail(ips) \in Seq(STRING) /\ Len(Tail(ips)) = Len(ips) - 1
      /\ \A i \in 1 .. Len(ips) - 1 : Tail(ips)[i] = ips[i + 1]
  BY TurnFacts
<1>4. /\ fn \in DOMAIN ASN!Start /\ given \in Seq(STRING) /\ given # <<>>
      /\ ips \in Seq(STRING) /\ ips # <<>> /\ Len(ips) <= Len(given)
      /\ \A i \in DOMAIN ips : ips[i] = given[Len(given) - Len(ips) + i]
      /\ fn # "LookupBulkIPs" => ips = given
  BY DEF ASNType
<1>5. Addressed' /\ SystemInv' BY DEF Addressed, SystemInv
<1>6. CASE fn = "LookupIP"
  <2>1. /\ pc' = "done" /\ outcome' = (IF found THEN "ok" ELSE "error") /\ info' = result
        /\ ips' = ips /\ out' = out
    BY <1>6 DEF ASN!Leave, ASN!Return
  <2>2. ASN!Turn' = ASN!Turn BY <2>1 DEF ASN!Turn
  <2>3. ASNType' BY <1>1, <1>4, <2>1 DEF ASNType
  <2>4. AddressInv' BY <1>2, <1>6, <2>1, <2>2 DEF AddressInv
  <2> QED BY <1>5, <2>3, <2>4 DEF ASNInv
<1>7. CASE fn = "LookupBulkIPs"
  <2> DEFINE r == [ip |-> ips[1], info |-> result]
  <2>1. /\ info' = ASN!NoInfo
        /\ out' = IF found THEN Append(out, r) ELSE out
        /\ IF Len(ips) = 1 THEN pc' = "done" /\ outcome' = "ok" /\ ips' = ips
                           ELSE pc' = "origin" /\ outcome' = outcome /\ ips' = Tail(ips)
    BY <1>7 DEF ASN!Leave, ASN!Return, ASN!Go
  <2>2. r \in Results /\ r.ip = ips[1] /\ r.info = result BY <1>3 DEF Results
  <2>3. out \in Seq(Results) /\ ResultsFor(given, heard, 1 .. ASN!Turn - 1, out)
    BY <1>2, <1>7 DEF AddressInv
  <2> HIDE DEF r
  <2>4. out' \in Seq(Results) BY <2>1, <2>2, <2>3
  <2>5. ResultsFor(given, heard', 1 .. ASN!Turn, out')
    <3> DEFINE k == ASN!Turn - 1
    <3>1. k \in Nat /\ k + 1 = ASN!Turn BY <1>3
    <3>2. ResultsFor(given, heard, 1 .. k, out) BY <2>3
    <3>3. \A j \in 1 .. k : /\ Missed(heard', j) <=> Missed(heard, j)
                            /\ \A q : DecidedIn(heard', j, q) <=> DecidedIn(heard, j, q)
      BY <1>2
    <3> HIDE DEF k
    <3>4. /\ Missed(heard', k + 1) => ResultsFor(given, heard', 1 .. k + 1, out)
          /\ \A q \in Results : (/\ ~ Missed(heard', k + 1) /\ q.ip = given[k + 1]
                                 /\ DecidedIn(heard', k + 1, q.info))
                                  => ResultsFor(given, heard', 1 .. k + 1, Append(out, q))
      BY ONLY <2>3, <3>1, <3>2, <3>3, NextResult
    <3>5. CASE found
      <4>1. ResultsFor(given, heard', 1 .. k + 1, Append(out, r))
        BY <1>3, <2>2, <3>1, <3>4, <3>5
      <4> QED BY <2>1, <3>1, <3>5, <4>1
    <3>6. CASE ~ found BY <2>1, <3>1, <3>4, <3>6
    <3> QED BY <3>5, <3>6
  <2>6. CASE Len(ips) = 1
    <3>1. pc' = "done" /\ outcome' = "ok" /\ ips' = ips BY <2>1, <2>6
    <3>2. ASN!Turn' = ASN!Turn BY <3>1 DEF ASN!Turn
    <3>3. ASN!Over' = 1 .. ASN!Turn
      <4>1. ASN!Over' = 1 .. Len(given) BY <3>1 DEF ASN!Over
      <4> QED BY <1>3, <2>6, <4>1
    <3>4. ASNType' BY <1>1, <1>4, <2>1, <3>1, NamesAreStrings DEF ASNType
    <3>5. AddressInv' BY <1>2, <1>7, <2>4, <2>5, <3>1, <3>2, <3>3 DEF AddressInv
    <3> QED BY <1>5, <3>4, <3>5 DEF ASNInv
  <2>7. CASE Len(ips) # 1
    <3>1. pc' = "origin" /\ outcome' = "" /\ ips' = Tail(ips) BY <1>1, <2>1, <2>7
    <3>2. Len(ips') = Len(ips) - 1 /\ Len(ips') \in Nat \ {0}
      <4>1. Len(ips) \in Nat \ {0} /\ Len(ips) - 1 \in Nat \ {0} BY <1>3, <2>7
      <4>2. Len(ips') = Len(ips) - 1 BY <1>3, <3>1
      <4> QED BY <4>1, <4>2
    <3>3. ASN!Turn' = ASN!Turn + 1 BY <1>3, <3>2 DEF ASN!Turn
    <3>4. ASN!Over' = 1 .. ASN!Turn
      <4>1. ASN!Over' = {k \in 1 .. Len(given) : k < ASN!Turn + 1}
        BY <3>1, <3>3 DEF ASN!Over
      <4>2. ASN!Turn + 1 <= Len(given) BY <1>3, <2>7
      <4>3. {k \in 1 .. Len(given) : k < ASN!Turn + 1} = 1 .. ASN!Turn BY <1>3, <4>2
      <4> QED BY <4>1, <4>3
    <3>5. ips' \in Seq(STRING) /\ ips' # <<>> /\ Len(ips') <= Len(given)
      <4>1. ips' \in Seq(STRING) BY <1>3, <3>1
      <4>2. ips' # <<>> BY <3>2
      <4> QED BY <1>3, <1>4, <3>2, <4>1, <4>2
    <3>6. ASSUME NEW i \in DOMAIN ips' PROVE ips'[i] = given[Len(given) - Len(ips') + i]
      <4>1. i \in 1 .. Len(ips) - 1 BY <3>2, <3>5, SeqDomain
      <4>2. i + 1 \in DOMAIN ips
        <5>1. DOMAIN ips = 1 .. Len(ips) BY <1>4, SeqDomain
        <5> QED BY <1>3, <4>1, <5>1
      <4>3. ips'[i] = ips[i + 1] BY <1>3, <3>1, <4>1
      <4>4. ips[i + 1] = given[Len(given) - Len(ips) + (i + 1)] BY <1>4, <4>2
      <4>5. Len(given) - Len(ips) + (i + 1) = Len(given) - Len(ips') + i
        BY <1>3, <3>2, <4>1
      <4> QED BY <4>3, <4>4, <4>5
    <3>7. ASNType'
      <4>1. "origin" \in ASN!Sources BY RoutingFacts
      <4> QED BY <1>1, <1>4, <1>7, <2>1, <3>1, <3>5, <3>6, <4>1, NamesAreStrings DEF ASNType
    <3>8. AddressInv'
      <4>1. \A i \in DOMAIN heard' : heard'[i].turn <= ASN!Turn'
        <5> SUFFICES ASSUME NEW i \in DOMAIN heard' PROVE heard'[i].turn <= ASN!Turn + 1
          BY <3>3
        <5>1. heard'[i] \in Entries BY <1>1, SeqDomain
        <5>2. heard'[i].turn \in Nat BY <5>1 DEF Entries
        <5>3. heard'[i].turn <= ASN!Turn BY <1>2
        <5> QED BY <1>3, <5>2, <5>3
      <4>2. Silent(heard', ASN!Turn', {}) BY <1>2, <3>3
      <4>3. ResultsFor(given', heard', ASN!Over', out') BY <2>5, <3>4
      <4> QED BY <1>7, <2>4, <3>1, <4>1, <4>2, <4>3 DEF AddressInv
    <3> QED BY <1>5, <3>7, <3>8 DEF ASNInv
  <2> QED BY <2>6, <2>7
<1> QED BY <1>6, <1>7 DEF Addressed

\* A step that goes on to another source about the same address.
LEMMA GoKeeps ==
  ASSUME ASNType, AddressInv, Addressed, pc # "done", NEW reply \in Replies, ASN!Hear(reply),
         UNCHANGED <<fn, given, ips, out, outcome>>, info' \in ASN!Info,
         pc' \in {"ripe", "radb", "arin", "name", "whoisname"},
         pc' = "ripe" => Silent(heard', ASN!Turn, {"origin"}),
         pc' = "radb" => Silent(heard', ASN!Turn, {"origin", "ripe"}),
         pc' = "arin" => Silent(heard', ASN!Turn, {"origin", "ripe", "radb"}),
         pc' \in {"name", "whoisname"} =>
           DecidedIn(heard', ASN!Turn, info') /\ ~ Missed(heard', ASN!Turn)
  PROVE  ASNInv'
<1>1. heard' \in Seq(Entries) /\ outcome = "" BY EntryFacts
<1>2. /\ \A k \in 1 .. ASN!Turn - 1 :
           /\ Missed(heard', k) <=> Missed(heard, k)
           /\ \A r : DecidedIn(heard', k, r) <=> DecidedIn(heard, k, r)
      /\ \A i \in DOMAIN heard' : heard'[i].turn <= ASN!Turn
      /\ ASN!Over = 1 .. ASN!Turn - 1
  BY HeardBefore
<1>3. Addressed' /\ SystemInv' BY DEF Addressed, SystemInv
<1>4. ASN!Turn' = ASN!Turn /\ ASN!Over' = ASN!Over BY DEF ASN!Turn, ASN!Over
<1>5. ASNType'
  <2>1. pc' \in ASN!Sources /\ pc' # "done" BY RoutingFacts
  <2> QED BY <1>1, <2>1 DEF ASNType
<1>6. fn = "LookupBulkIPs" => ResultsFor(given, heard', ASN!Over, out)
  <2> SUFFICES ASSUME fn = "LookupBulkIPs" PROVE ResultsFor(given, heard', ASN!Over, out) OBVIOUS
  <2>1. ResultsFor(given, heard, ASN!Over, out) BY DEF AddressInv
  <2> QED BY ONLY <1>2, <2>1, SameResults
<1>7. AddressInv' BY <1>1, <1>2, <1>3, <1>4, <1>6 DEF AddressInv
<1> QED BY <1>3, <1>5, <1>7 DEF ASNInv

LEMMA DifferentSources ==
  /\ {"origin"} # ASN!Routing
  /\ \A S : S \cup {"arin"} = ASN!Routing => S \cup {"arin"} = {"origin", "ripe", "radb", "arin"}
  /\ {"origin", "ripe", "radb"} \cup {"arin"} = ASN!Routing
<1>1. ASN!Routing = {"origin", "ripe", "radb", "arin"} BY RoutingFacts
<1>2. "arin" \notin {"origin"} OBVIOUS
<1> QED BY <1>1, <1>2

\* lookupOriginDNS
LEMMA AskOriginKeeps ==
  ASSUME ASNInv, NEW txt \in Origins \cup {Fail}, ASN!AskOrigin(txt) PROVE ASNInv'
<1>1. ASNType /\ AddressInv /\ SystemInv BY DEF ASNInv
<1>2. /\ pc = "origin" /\ ASN!Hear(txt) /\ UNCHANGED <<fn, given, ips, out>> /\ outcome' = outcome
      /\ IF txt = Fail
         THEN pc' = "ripe" /\ info' = info
         ELSE pc' = "name" /\ info' = [ASN!parseCymruTXT(txt) EXCEPT !.source = "cymru"]
  BY DEF ASN!AskOrigin, ASN!Go
<1>3. Addressed BY <1>1, <1>2, StartFacts DEF ASNType, SystemInv, Addressed
<1>4. txt \in Replies BY DEF Replies
<1> DEFINE e == Entry(txt)
<1>5. /\ e \in Entries /\ heard' = Append(heard, e) /\ e.turn = ASN!Turn /\ e.source = "origin"
      /\ e.reply = txt
  BY <1>1, <1>2, <1>4, EntryFacts
<1>6. heard \in Seq(Entries) /\ Silent(heard, ASN!Turn, {}) /\ e.source \in ASN!Routing
  BY <1>1, <1>2, <1>3, <1>5, RoutingFacts DEF ASNType, AddressInv
<1> HIDE DEF e
<1>7. CASE txt = Fail
  <2>1. ASN!ASNOf(e) = ASN!NoASN BY <1>5, <1>7 DEF ASN!ASNOf
  <2>2. Silent(Append(heard, e), e.turn, {} \cup {e.source})
    BY <1>5, <1>6, <2>1, HearSilence
  <2>3. Silent(heard', ASN!Turn, {"origin"})
    <3>1. {} \cup {"origin"} = {"origin"} OBVIOUS
    <3> QED BY <1>5, <2>2, <3>1
  <2>4. info' \in ASN!Info BY <1>1, <1>2, <1>7 DEF ASNType
  <2> QED BY <1>1, <1>2, <1>3, <1>4, <1>7, <2>3, <2>4, GoKeeps
<1>8. CASE txt # Fail
  <2> DEFINE r == [ASN!parseCymruTXT(txt) EXCEPT !.source = "cymru"]
  <2>1. /\ ASN!Number(txt[1]) \in STRING
        /\ <<"", ASN!Column(txt, 2)>> \in STRING \X STRING
    <3>1. txt \in Seq(STRING) /\ txt # <<>> BY <1>8, OriginsAssumption
    <3>2. txt[1] \in STRING BY <3>1
    <3>3. ASN!Column(txt, 2) \in STRING
      <4>1. 2 \in Nat \ {0} OBVIOUS
      <4> QED BY <3>1, <4>1, ColumnFacts
    <3>4. ASN!Number(txt[1]) \in STRING BY <3>2, NamesAreStrings
    <3> QED BY <3>3, <3>4, StringAssumption
  <2>2. r \in ASN!Info /\ r.asn = ASN!Number(txt[1]) /\ r.source = "cymru"
    <3> DEFINE p == <<"", ASN!Column(txt, 2)>>
    <3>1. r = [ASN!NoInfo EXCEPT !.asn = ASN!Number(txt[1]), !.prefix = p, !.source = "cymru"]
      BY DEF ASN!parseCymruTXT
    <3>2. p \in STRING \X STRING BY <2>1
    <3> HIDE DEF p, r
    <3> QED BY <2>1, <3>1, <3>2, NamesAreStrings, StringAssumption DEF ASN!Info
  <2>3. ASN!ASNOf(e) = ASN!Number(txt[1]) BY <1>5, <1>8 DEF ASN!ASNOf
  <2> HIDE DEF r
  <2>4. DecidedIn(Append(heard, e), e.turn, r)
    <3>1. r.source # "whois" /\ r.source = (IF e.source = "origin" THEN "cymru" ELSE "whois")
      BY <1>5, <2>2
    <3> QED BY <1>5, <1>6, <1>8, <2>2, <2>3, <3>1, HearDecision
  <2>5. ~ Missed(heard', ASN!Turn)
    <3>1. AskedIn(Append(heard, e), e.turn) = AskedIn(heard, e.turn) \cup {Len(heard) + 1}
      BY <1>5, <1>6, HearFacts
    <3>2. AskedIn(heard, e.turn) = {} BY <1>5, <1>6 DEF Silent
    <3>3. heard'[Len(heard) + 1] = e BY <1>1, <1>2, <1>4, EntryFacts DEF e
    <3>4. {heard'[i].source : i \in AskedIn(heard', ASN!Turn)} = {"origin"}
      BY <1>5, <3>1, <3>2, <3>3
    <3> QED BY <3>4, DifferentSources DEF Missed, Silent
  <2>6. info' = r /\ pc' = "name" BY <1>2, <1>8 DEF r
  <2>7. DecidedIn(heard', ASN!Turn, info') BY <1>5, <2>4, <2>6
  <2> QED BY <1>1, <1>2, <1>3, <1>4, <2>2, <2>5, <2>6, <2>7, GoKeeps
<1> QED BY <1>7, <1>8

\* lookupWhoisASN
LEMMA AskHostKeeps ==
  ASSUME ASNInv, NEW text \in Texts \cup {Fail}, ASN!AskHost(text) PROVE ASNInv'
<1>1. ASNType /\ AddressInv /\ SystemInv BY DEF ASNInv
<1>2. /\ pc \in {"ripe", "radb", "arin"} /\ ASN!Hear(text) /\ UNCHANGED <<fn, given>>
      /\ IF ASN!Usable(text) \/ ASN!NextHost[pc] = "none"
         THEN ASN!Leave(ASN!Usable(text),
                        IF ASN!Usable(text) THEN [ASN!parseWhoisForASN(text) EXCEPT !.source = "whois"]
                                            ELSE ASN!NoInfo)
         ELSE pc' = ASN!NextHost[pc] /\ UNCHANGED <<outcome, ips, info, out>>
  BY RoutingFacts DEF ASN!AskHost, ASN!Go
<1>3. Addressed BY <1>1, <1>2, StartFacts DEF ASNType, SystemInv, Addressed
<1>4. text \in Replies /\ pc # "done" BY <1>2 DEF Replies
<1> DEFINE e == Entry(text)
<1>5. /\ e \in Entries /\ heard' = Append(heard, e) /\ e.turn = ASN!Turn /\ e.source = pc
      /\ e.reply = text
  BY <1>1, <1>2, <1>4, EntryFacts
<1>6. heard \in Seq(Entries) /\ e.source \in ASN!Routing
  BY <1>1, <1>2, <1>5, RoutingFacts DEF ASNType
<1> HIDE DEF e
<1>7. PICK S : /\ Silent(heard, ASN!Turn, S)
               /\ pc = "ripe" => S = {"origin"}
               /\ pc = "radb" => S = {"origin", "ripe"}
               /\ pc = "arin" => S = {"origin", "ripe", "radb"}
  BY <1>1, <1>2, <1>3 DEF AddressInv
<1>8. CASE ASN!Usable(text)
  <2> DEFINE r == [ASN!parseWhoisForASN(text) EXCEPT !.source = "whois"]
  <2>1. text # Fail /\ text \in Texts /\ ASN!parseWhoisForASN(text).asn # ASN!NoASN
    BY <1>8 DEF ASN!Usable
  <2>2. ASN!parseWhoisForASN(text) \in ASN!Info BY <2>1, ParseFacts
  <2>3. /\ r \in ASN!Info /\ r.asn = ASN!parseWhoisForASN(text).asn /\ r.source = "whois"
    BY <2>2, StringAssumption DEF ASN!Info
  <2>4. ASN!ASNOf(e) = r.asn BY <1>2, <1>5, <2>1, <2>3 DEF ASN!ASNOf
  <2>5. ASN!Leave(TRUE, r) BY <1>2, <1>8
  <2> HIDE DEF r
  <2>6. DecidedIn(Append(heard, e), e.turn, r)
    <3>1. r.source = (IF e.source = "origin" THEN "cymru" ELSE "whois") BY <1>2, <1>5, <2>3
    <3>2. r.asn # ASN!NoASN BY <2>1, <2>3
    <3> QED BY <1>5, <1>6, <1>7, <2>1, <2>4, <3>1, <3>2, HearDecision
  <2>7. ~ Missed(heard', ASN!Turn)
    <3>1. AskedIn(Append(heard, e), e.turn) = AskedIn(heard, e.turn) \cup {Len(heard) + 1}
      BY <1>5, <1>6, HearFacts
    <3>2. heard'[Len(heard) + 1] = e BY <1>1, <1>2, <1>4, EntryFacts DEF e
    <3>3. Len(heard) + 1 \in AskedIn(heard', ASN!Turn) BY <1>5, <3>1
    <3>4. ASN!ASNOf(heard'[Len(heard) + 1]) # ASN!NoASN BY <2>1, <2>3, <2>4, <3>2
    <3> QED BY <3>3, <3>4 DEF Missed, Silent
  <2>8. DecidedIn(heard', ASN!Turn, r) BY <1>5, <2>6
  <2> QED BY <1>1, <1>2, <1>3, <1>4, <2>3, <2>5, <2>7, <2>8, LeaveKeeps
<1>9. CASE ~ ASN!Usable(text)
  <2>1. ASN!ASNOf(e) = ASN!NoASN
    <3>1. CASE text = Fail BY <1>5, <3>1 DEF ASN!ASNOf
    <3>2. CASE text # Fail
      <4>1. ASN!parseWhoisForASN(text).asn = ASN!NoASN
        BY <1>9, <3>2, ParseFacts DEF ASN!Usable
      <4> QED BY <1>2, <1>5, <3>2, <4>1 DEF ASN!ASNOf
    <3> QED BY <3>1, <3>2
  <2>2. Silent(heard', ASN!Turn, S \cup {pc})
    <3>1. Silent(Append(heard, e), e.turn, S \cup {e.source})
      BY <1>5, <1>6, <1>7, <2>1, HearSilence
    <3> QED BY <1>5, <3>1
  <2>3. CASE pc = "arin"
    <3>1. ASN!Leave(FALSE, ASN!NoInfo)
      <4>1. ASN!Usable(text) = FALSE BY <1>9 DEF ASN!Usable
      <4>2. (IF ASN!Usable(text) THEN [ASN!parseWhoisForASN(text) EXCEPT !.source = "whois"]
                                 ELSE ASN!NoInfo) = ASN!NoInfo
        BY <1>9
      <4>3. ASN!NextHost[pc] = "none" BY <2>3, RoutingFacts
      <4> QED BY ONLY <1>2, <4>1, <4>2, <4>3
    <3>2. Missed(heard', ASN!Turn) BY <1>7, <2>2, <2>3, DifferentSources DEF Missed
    <3> QED BY <1>1, <1>2, <1>3, <1>4, <3>1, <3>2, NamesAreStrings, LeaveKeeps
  <2>4. CASE pc # "arin"
    <3>1. /\ pc = "ripe" => pc' = "radb" /\ ASN!NextHost[pc] # "none"
          /\ pc = "radb" => pc' = "arin" /\ ASN!NextHost[pc] # "none"
      BY <1>2, <1>9, RoutingFacts
    <3>2. UNCHANGED <<outcome, ips, info, out>> BY <1>2, <1>9, <2>4, <3>1
    <3>3. pc' = "radb" => Silent(heard', ASN!Turn, {"origin", "ripe"})
      <4> SUFFICES ASSUME pc' = "radb" PROVE Silent(heard', ASN!Turn, {"origin", "ripe"}) OBVIOUS
      <4>1. pc = "ripe" /\ S = {"origin"} BY <1>2, <1>7, <2>4, <3>1
      <4>2. S \cup {pc} = {"origin", "ripe"} BY <4>1
      <4> QED BY <2>2, <4>2
    <3>4. pc' = "arin" => Silent(heard', ASN!Turn, {"origin", "ripe", "radb"})
      <4> SUFFICES ASSUME pc' = "arin" PROVE Silent(heard', ASN!Turn, {"origin", "ripe", "radb"})
        OBVIOUS
      <4>1. pc = "radb" /\ S = {"origin", "ripe"} BY <1>2, <1>7, <2>4, <3>1
      <4>2. S \cup {pc} = {"origin", "ripe", "radb"} BY <4>1
      <4> QED BY <2>2, <4>2
    <3>5. info' \in ASN!Info BY <1>1, <3>2 DEF ASNType
    <3>6. pc' \in {"radb", "arin"} BY <1>2, <2>4, <3>1
    <3> QED BY <1>1, <1>2, <1>3, <1>4, <3>2, <3>3, <3>4, <3>5, <3>6, GoKeeps
  <2> QED BY <2>3, <2>4
<1> QED BY <1>8, <1>9
\* The name of the system found says nothing about the address.
LEMMA NameKeepsDecision ==
  ASSUME ASNType, AddressInv, Addressed, pc \in {"name", "whoisname"},
         NEW reply \in Replies, ASN!Hear(reply), NEW name \in STRING
  PROVE  /\ DecidedIn(heard', ASN!Turn, info) /\ ~ Missed(heard', ASN!Turn)
         /\ [info EXCEPT !.name = name] \in ASN!Info
         /\ DecidedIn(heard', ASN!Turn, [info EXCEPT !.name = name])
<1> DEFINE e == Entry(reply)
           r == [info EXCEPT !.name = name]
<1>1. /\ e \in Entries /\ heard' = Append(heard, e) /\ e.source = pc BY EntryFacts
<1>2. heard \in Seq(Entries) /\ info \in ASN!Info BY DEF ASNType
<1>3. pc \notin ASN!Routing BY RoutingFacts
<1>4. r \in ASN!Info /\ r.asn = info.asn /\ r.source = info.source BY <1>2 DEF ASN!Info
<1> HIDE DEF e, r
<1>5. /\ DecidedIn(Append(heard, e), ASN!Turn, info) <=> DecidedIn(heard, ASN!Turn, info)
      /\ Missed(Append(heard, e), ASN!Turn) <=> Missed(heard, ASN!Turn)
  BY <1>1, <1>2, <1>3, HearFacts DEF Missed
<1>6. DecidedIn(heard', ASN!Turn, info) /\ ~ Missed(heard', ASN!Turn)
  BY <1>1, <1>5 DEF AddressInv
<1>7. DecidedIn(heard', ASN!Turn, r) BY <1>4, <1>6 DEF DecidedIn
<1> QED BY <1>4, <1>6, <1>7 DEF r

\* A step of a function that looks no address up.
LEMMA OtherKeeps ==
  ASSUME ASNType, ~ Addressed, pc # "done", NEW reply \in Replies, ASN!Hear(reply),
         UNCHANGED <<fn, given, ips>>, info' \in ASN!Info,
         \/ pc' \in ASN!Sources /\ pc' # "done" /\ outcome' = outcome
         \/ pc' = "done" /\ outcome' \in {"ok", "error"}
  PROVE  ASNType' /\ AddressInv'
<1>1. heard' \in Seq(Entries) /\ outcome = "" BY EntryFacts
<1>2. AddressInv' BY DEF AddressInv, Addressed
<1> QED BY <1>1, <1>2 DEF ASNType

LEMMA NamesFacts ==
  /\ \A txts \in ASAnswers : ASN!parseASNameTXT(txts[1]) \in STRING
  /\ \A text \in Texts \cup {Fail} : ASN!WhoisName(text) \in STRING
<1>1. ASSUME NEW txts \in ASAnswers PROVE ASN!parseASNameTXT(txts[1]) \in STRING
  <2>1. txts \in Seq(Seq(STRING)) /\ txts # <<>> BY ASAssumption
  <2> DEFINE L == Seq(STRING)
  <2>2. txts[1] \in L
    <3> HIDE DEF L
    <3> QED BY <2>1 DEF L
  <2> QED BY <2>2, ColumnFacts DEF ASN!parseASNameTXT
<1>2. \A text \in Texts \cup {Fail} : ASN!WhoisName(text) \in STRING
  BY AtFacts, LineFacts, NamesAreStrings DEF ASN!WhoisName
<1> QED BY <1>1, <1>2

\* The name LookupASNM has after a step that hears a name, or none.
LEMMA NamedKeeps ==
  ASSUME ASNType, SystemInv, fn = "LookupASNM", pc \in {"first", "name", "whoisname"},
         NEW reply \in Replies, ASN!Hear(reply), NEW name \in STRING,
         info' = ASN!Named(name), reply = Fail => name = "",
         reply # Fail => name = ASN!NameOf(Entry(reply))
  PROVE  info' \in ASN!Info /\ LastName(heard', info'.name)
<1> DEFINE e == Entry(reply)
<1>1. /\ e \in Entries /\ heard' = Append(heard, e) /\ e.source = pc /\ e.reply = reply
  BY EntryFacts
<1>2. heard \in Seq(Entries) /\ info \in ASN!Info /\ LastName(heard, info.name)
  BY DEF ASNType, SystemInv
<1>3. info' = IF name = "" THEN info ELSE [info EXCEPT !.name = name] BY DEF ASN!Named
<1>4. /\ info' \in ASN!Info
      /\ info'.name = IF name = "" THEN info.name ELSE name
  BY <1>2, <1>3 DEF ASN!Info
<1>5. reply # Fail => name = ASN!NameOf(e) OBVIOUS
<1> HIDE DEF e
<1>6. ASN!TellsName(e) <=> name # "" BY <1>1, <1>5 DEF ASN!TellsName
<1>7. ASN!TellsName(e) => info'.name = ASN!NameOf(e)
  BY <1>1, <1>4, <1>5, <1>6 DEF ASN!TellsName
<1>8. ~ ASN!TellsName(e) => info'.name = info.name BY <1>4, <1>6
<1> DEFINE n == info'.name
<1> HIDE DEF n
<1>9. LastName(Append(heard, e), n) BY <1>1, <1>2, <1>7, <1>8, HearName DEF n
<1> QED BY <1>1, <1>4, <1>9 DEF n

\* lookupASName
LEMMA AskNameKeeps ==
  ASSUME ASNInv, NEW txts \in ASAnswers \cup {Fail}, ASN!AskName(txts) PROVE ASNInv'
<1> DEFINE name == ASN!parseASNameTXT(txts[1])
<1>1. ASNType /\ AddressInv /\ SystemInv BY DEF ASNInv
<1>2. /\ pc = "name" /\ ASN!Hear(txts) /\ UNCHANGED <<fn, given>>
      /\ IF txts = Fail THEN pc' = "whoisname" /\ UNCHANGED <<outcome, ips, info, out>>
                       ELSE ASN!NameKnown(name)
  BY DEF ASN!AskName, ASN!Go
<1>3. txts \in Replies BY DEF Replies
<1>4. fn = "LookupASNM" \/ Addressed BY <1>1, <1>2, StartFacts DEF ASNType, SystemInv, Addressed
<1>5. info \in ASN!Info /\ "whoisname" \in ASN!Sources BY <1>1, RoutingFacts DEF ASNType
<1>6. CASE Addressed
  <2>1. fn # "LookupASNM" BY <1>6 DEF Addressed
  <2>2. CASE txts = Fail
    <3>1. DecidedIn(heard', ASN!Turn, info) /\ ~ Missed(heard', ASN!Turn)
      BY <1>1, <1>2, <1>3, <1>6, NamesAreStrings, NameKeepsDecision
    <3>2. pc' = "whoisname" /\ info' = info /\ UNCHANGED <<fn, given, ips, out, outcome>>
      BY <1>2, <2>2
    <3>3. DecidedIn(heard', ASN!Turn, info') BY <3>1, <3>2
    <3> QED BY <1>1, <1>2, <1>3, <1>5, <1>6, <3>1, <3>2, <3>3, GoKeeps
  <2>3. CASE txts # Fail
    <3>1. name \in STRING BY <2>3, NamesFacts
    <3>2. ASN!Leave(TRUE, [info EXCEPT !.name = name])
      BY <1>2, <2>1, <2>3 DEF ASN!NameKnown, ASN!Named
    <3> DEFINE r == [info EXCEPT !.name = name]
    <3>3. /\ r \in ASN!Info /\ ~ Missed(heard', ASN!Turn) /\ DecidedIn(heard', ASN!Turn, r)
      BY <1>1, <1>2, <1>3, <1>6, <3>1, NameKeepsDecision
    <3> HIDE DEF r
    <3>4. ASN!Leave(TRUE, r) BY <3>2 DEF r
    <3> QED BY <1>1, <1>2, <1>3, <1>6, <3>3, <3>4, LeaveKeeps
  <2> QED BY <2>2, <2>3
<1>7. CASE fn = "LookupASNM"
  <2>1. ~ Addressed BY <1>7 DEF Addressed
  <2>2. CASE txts = Fail
    <3>1. pc' = "whoisname" /\ info' = info /\ UNCHANGED <<fn, given, ips, out, outcome>>
      BY <1>2, <2>2
    <3>2. info' = ASN!Named("") BY <1>7, <3>1 DEF ASN!Named
    <3>3. LastName(heard', info'.name)
      BY <1>1, <1>2, <1>3, <1>7, <2>2, <3>2, NamesAreStrings, NamedKeeps
    <3>4. ASNType' /\ AddressInv' BY <1>1, <1>2, <1>3, <1>5, <2>1, <3>1, OtherKeeps
    <3>5. SystemInv' BY <1>7, <3>1, <3>3 DEF SystemInv
    <3> QED BY <3>4, <3>5 DEF ASNInv
  <2>3. CASE txts # Fail
    <3>1. name \in STRING BY <2>3, NamesFacts
    <3>2. /\ pc' = "details" /\ info' = ASN!Named(name) /\ UNCHANGED <<outcome, ips, out>>
      BY <1>2, <1>7, <2>3 DEF ASN!NameKnown, ASN!Go
    <3>3. name = ASN!NameOf(Entry(txts)) BY <1>2 DEF ASN!NameOf, Entry
    <3>4. info' \in ASN!Info /\ LastName(heard', info'.name)
      BY <1>1, <1>2, <1>3, <1>7, <2>3, <3>1, <3>2, <3>3, NamedKeeps
    <3>5. ASNType' /\ AddressInv'
      BY <1>1, <1>2, <1>3, <2>1, <3>2, <3>4, RoutingFacts, OtherKeeps
    <3>6. SystemInv' BY <1>2, <1>7, <3>2, <3>4 DEF SystemInv
    <3> QED BY <3>5, <3>6 DEF ASNInv
  <2> QED BY <2>2, <2>3
<1> QED BY <1>4, <1>6, <1>7

\* lookupASNameWhois
LEMMA AskWhoisNameKeeps ==
  ASSUME ASNInv, NEW text \in Texts \cup {Fail}, ASN!AskWhoisName(text) PROVE ASNInv'
<1>1. ASNType /\ AddressInv /\ SystemInv BY DEF ASNInv
<1> DEFINE name == ASN!WhoisName(text)
<1>2. /\ pc \in {"first", "whoisname"} /\ ASN!Hear(text) /\ UNCHANGED <<fn, given>>
      /\ IF pc = "first"
         THEN pc' = "name" /\ info' = ASN!Named(name) /\ UNCHANGED <<outcome, ips, out>>
         ELSE ASN!NameKnown(name)
  BY DEF ASN!AskWhoisName, ASN!Go
<1>3. text \in Replies BY DEF Replies
<1>4. name \in STRING BY NamesFacts
<1>5. text = Fail => name = "" BY DEF ASN!WhoisName
<1>6. name = ASN!NameOf(Entry(text)) BY <1>2 DEF ASN!NameOf, Entry
<1> HIDE DEF name
<1>7. CASE Addressed
  <2>1. fn # "LookupASNM" BY <1>7 DEF Addressed
  <2>2. pc = "whoisname" BY <1>1, <1>2, <1>7 DEF AddressInv
  <2> DEFINE r == [info EXCEPT !.name = name]
  <2>3. /\ r \in ASN!Info /\ ~ Missed(heard', ASN!Turn) /\ DecidedIn(heard', ASN!Turn, r)
    BY <1>1, <1>2, <1>3, <1>4, <1>7, <2>2, NameKeepsDecision
  <2>4. ASN!Leave(TRUE, r) BY <1>2, <2>1, <2>2 DEF ASN!NameKnown, ASN!Named
  <2> HIDE DEF r
  <2> QED BY <1>1, <1>2, <1>3, <1>7, <2>2, <2>3, <2>4, LeaveKeeps
<1>8. CASE ~ Addressed
  <2>1. fn = "LookupASNM" BY <1>1, <1>2, <1>8, StartFacts DEF ASNType, SystemInv, Addressed
  <2>2. /\ pc' \in {"name", "details"} /\ info' = ASN!Named(name) /\ UNCHANGED <<outcome, ips, out>>
    BY <1>2, <2>1 DEF ASN!NameKnown, ASN!Go
  <2>3. info' \in ASN!Info /\ LastName(heard', info'.name)
    BY <1>1, <1>2, <1>3, <1>4, <1>5, <1>6, <2>1, <2>2, NamedKeeps
  <2>4. ASNType' /\ AddressInv'
    BY <1>1, <1>2, <1>3, <1>8, <2>2, <2>3, RoutingFacts, OtherKeeps
  <2>5. SystemInv' BY <1>2, <2>1, <2>2, <2>3 DEF SystemInv
  <2> QED BY <2>4, <2>5 DEF ASNInv
<1> QED BY <1>7, <1>8
\* The whois part of LookupASNM
LEMMA AskDetailsKeeps ==
  ASSUME ASNInv, NEW text \in Texts \cup {Fail}, ASN!AskDetails(text) PROVE ASNInv'
<1>1. ASNType /\ AddressInv /\ SystemInv BY DEF ASNInv
<1> DEFINE names == ASN!At(text, "as-name")
           e     == Entry(text)
<1>2. /\ pc = "details" /\ ASN!Hear(text) /\ UNCHANGED <<fn, given, ips, out>>
      /\ info' = IF text = Fail THEN info
                 ELSE [info EXCEPT !.name = ASN!LastOf(text, names, @),
                                   !.descr = ASN!LastOf(text, ASN!At(text, "descr"), @),
                                   !.source = "whois"]
      /\ pc' = "done" /\ outcome' = "ok"
  BY DEF ASN!AskDetails, ASN!Return
<1>3. text \in Replies BY DEF Replies
<1>4. fn = "LookupASNM" /\ ~ Addressed
  BY <1>1, <1>2, StartFacts DEF ASNType, AddressInv, SystemInv, Addressed
<1>5. /\ e \in Entries /\ heard' = Append(heard, e) /\ e.source = pc /\ e.reply = text
  BY <1>1, <1>2, <1>3, EntryFacts
<1>6. heard \in Seq(Entries) /\ info \in ASN!Info /\ LastName(heard, info.name)
  BY <1>1, <1>4 DEF ASNType, SystemInv
<1>7. info.name \in STRING /\ info.descr \in STRING BY <1>6 DEF ASN!Info
<1>8. /\ info' \in ASN!Info
      /\ info'.name = IF text = Fail THEN info.name ELSE ASN!LastOf(text, names, info.name)
  <2>1. CASE text = Fail BY <1>2, <1>6, <2>1
  <2>2. CASE text # Fail
    <3>1. /\ ASN!LastOf(text, names, info.name) \in STRING
          /\ ASN!LastOf(text, ASN!At(text, "descr"), info.descr) \in STRING
      BY <1>7, <2>2, AtFacts, LineFacts
    <3> HIDE DEF names
    <3> QED BY <1>2, <1>6, <2>2, <3>1, StringAssumption DEF ASN!Info
  <2> QED BY <2>1, <2>2
<1>9. text # Fail => ASN!NameOf(e) = ASN!LastOf(text, names, "")
  BY <1>2, <1>5 DEF ASN!NameOf
<1> HIDE DEF e
<1>10. ASN!TellsName(e) <=> text # Fail /\ names # {}
  <2>1. text # Fail /\ names = {} => ASN!NameOf(e) = "" BY <1>9 DEF ASN!LastOf
  <2> QED BY <1>2, <1>5, <2>1 DEF ASN!TellsName
<1>11. ASN!TellsName(e) => info'.name = ASN!NameOf(e)
  BY <1>8, <1>9, <1>10 DEF ASN!LastOf
<1>12. ~ ASN!TellsName(e) => info'.name = info.name
  BY <1>8, <1>10 DEF ASN!LastOf
<1>13. LastName(heard', info'.name)
  <2> DEFINE n == info'.name
  <2> HIDE DEF n
  <2>1. LastName(Append(heard, e), n) BY <1>5, <1>6, <1>11, <1>12, HearName DEF n
  <2> QED BY <1>5, <2>1 DEF n
<1>14. ASNType' /\ AddressInv'
  <2>1. UNCHANGED <<fn, given, ips>> /\ pc # "done" BY <1>2
  <2> QED BY <1>1, <1>2, <1>3, <1>4, <1>8, <2>1, OtherKeeps
<1>15. SystemInv' BY <1>2, <1>4, <1>13 DEF SystemInv
<1> QED BY <1>14, <1>15 DEF ASNInv

\* LookupPrefixDetail
LEMMA AskDetailKeeps ==
  ASSUME ASNInv, NEW text \in Texts \cup {Fail}, ASN!AskDetail(text) PROVE ASNInv'
<1>1. ASNType /\ AddressInv /\ SystemInv BY DEF ASNInv
<1>2. /\ pc = "detail" /\ ASN!Hear(text) /\ UNCHANGED <<fn, given, ips, out>>
      /\ info' = IF text \in {Fail, <<>>} THEN info
                 ELSE [ASN!NoInfo EXCEPT !.asn = ASN!Number(ASN!LastOf(text, ASN!At(text, "origin"), @)),
                                        !.descr = ASN!LastOf(text, ASN!At(text, "descr"), @),
                                        !.source = ASN!LastOf(text, ASN!At(text, "source"), @)]
      /\ pc' = "done" /\ outcome' \in {"ok", "error"}
  BY DEF ASN!AskDetail, ASN!Return
<1>3. text \in Replies BY DEF Replies
<1>4. fn = "LookupPrefixDetail" /\ ~ Addressed
  BY <1>1, <1>2, StartFacts DEF ASNType, AddressInv, SystemInv, Addressed
<1>5. info' \in ASN!Info
  <2>1. CASE text \in {Fail, <<>>} BY <1>1, <1>2, <2>1 DEF ASNType
  <2>2. CASE text \notin {Fail, <<>>}
    <3>1. ASN!NoInfo \in ASN!Info BY NamesAreStrings
    <3>2. /\ ASN!Number(ASN!LastOf(text, ASN!At(text, "origin"), ASN!NoInfo.asn)) \in STRING
          /\ ASN!LastOf(text, ASN!At(text, "descr"), ASN!NoInfo.descr) \in STRING
          /\ ASN!LastOf(text, ASN!At(text, "source"), ASN!NoInfo.source) \in STRING
      BY <2>2, <3>1, AtFacts, LineFacts, NamesAreStrings DEF ASN!Info
    <3> QED BY <1>2, <2>2, <3>1, <3>2 DEF ASN!Info
  <2> QED BY <2>1, <2>2
<1>6. ASNType' /\ AddressInv'
  <2>1. UNCHANGED <<fn, given, ips>> /\ pc # "done" BY <1>2
  <2> QED BY <1>1, <1>2, <1>3, <1>4, <1>5, <2>1, OtherKeeps
<1>7. SystemInv' BY <1>2, <1>4 DEF SystemInv
<1> QED BY <1>6, <1>7 DEF ASNInv

\* LookupPeers
LEMMA AskPeersKeeps ==
  ASSUME ASNInv, NEW text \in Texts \cup {Fail}, ASN!AskPeers(text) PROVE ASNInv'
<1>1. ASNType /\ AddressInv /\ SystemInv BY DEF ASNInv
<1>2. /\ pc = "peers" /\ ASN!Hear(text) /\ UNCHANGED <<fn, given, ips, info>>
      /\ out' = IF text \in {Fail, <<>>} THEN out ELSE ASN!Peers(text)
      /\ pc' = "done" /\ outcome' = IF text \in {Fail, <<>>} THEN "error" ELSE "ok"
  BY DEF ASN!AskPeers, ASN!Return
<1>3. text \in Replies BY DEF Replies
<1>4. fn = "LookupPeers" /\ ~ Addressed /\ heard = <<>>
  BY <1>1, <1>2, StartFacts DEF ASNType, AddressInv, SystemInv, Addressed
<1>5. ASNType' /\ AddressInv'
  <2>1. UNCHANGED <<fn, given, ips>> /\ pc # "done" BY <1>2
  <2>2. info' \in ASN!Info BY <1>1, <1>2 DEF ASNType
  <2>3. outcome' \in {"ok", "error"} BY <1>2
  <2> QED BY <1>1, <1>2, <1>3, <1>4, <2>1, <2>2, <2>3, OtherKeeps
<1>6. outcome' = "ok" => heard'[1].reply \in Texts /\ out' = ASN!Peers(heard'[1].reply)
  <2>1. outcome' = "ok" => text \in Texts /\ out' = ASN!Peers(text) BY <1>2
  <2>2. heard'[Len(heard) + 1] = Entry(text) /\ Entry(text).reply = text
    BY <1>1, <1>2, <1>3, EntryFacts
  <2>3. Len(heard) = 0 BY <1>4
  <2>4. heard'[1].reply = text BY <2>2, <2>3
  <2> QED BY <2>1, <2>4
<1>7. SystemInv' BY <1>2, <1>4, <1>6 DEF SystemInv
<1> QED BY <1>5, <1>7 DEF ASNInv

\* LookupPrefixes: the routes, then the TXT records
LEMMA PrefixesKeep ==
  ASSUME ASNInv, NEW reply \in Replies, ASN!Hear(reply), pc \in {"routes", "cymru"},
         UNCHANGED <<fn, given, ips, info>>,
         \/ pc' = "cymru" /\ outcome' = outcome
         \/ pc' = "done" /\ outcome' = "ok"
  PROVE  ASNInv'
<1>1. ASNType /\ AddressInv /\ SystemInv BY DEF ASNInv
<1>2. fn = "LookupPrefixes" /\ ~ Addressed
  BY <1>1, StartFacts DEF ASNType, AddressInv, SystemInv, Addressed
<1>3. ASNType' /\ AddressInv'
  <2>1. UNCHANGED <<fn, given, ips>> /\ pc # "done" OBVIOUS
  <2>2. info' \in ASN!Info BY <1>1 DEF ASNType
  <2>3. \/ pc' \in ASN!Sources /\ pc' # "done" /\ outcome' = outcome
        \/ pc' = "done" /\ outcome' \in {"ok", "error"}
    BY RoutingFacts
  <2> QED BY <1>1, <1>2, <2>1, <2>2, <2>3, OtherKeeps
<1>4. SystemInv' BY <1>2 DEF SystemInv
<1> QED BY <1>3, <1>4 DEF ASNInv

LEMMA AskRoutesKeeps ==
  ASSUME ASNInv, NEW text \in Texts \cup {Fail}, ASN!AskRoutes(text) PROVE ASNInv'
<1>1. /\ pc = "routes" /\ ASN!Hear(text) /\ UNCHANGED <<fn, given, ips, info>>
      /\ \/ pc' = "cymru" /\ outcome' = outcome
         \/ pc' = "done" /\ outcome' = "ok"
  BY DEF ASN!AskRoutes, ASN!Return, ASN!Go
<1>2. text \in Replies BY DEF Replies
<1> QED BY <1>1, <1>2, PrefixesKeep

LEMMA AskCymruKeeps ==
  ASSUME ASNInv, NEW txts \in ASAnswers \cup {Fail}, ASN!AskCymru(txts) PROVE ASNInv'
<1>1. /\ pc = "cymru" /\ ASN!Hear(txts) /\ UNCHANGED <<fn, given, ips, info>>
      /\ pc' = "done" /\ outcome' = "ok"
  BY DEF ASN!AskCymru, ASN!Return
<1>2. txts \in Replies BY DEF Replies
<1> QED BY <1>1, <1>2, PrefixesKeep

LEMMA ASNNext == ASNInv /\ ASN!Next => ASNInv'
BY AskOriginKeeps, AskHostKeeps, AskNameKeeps, AskWhoisNameKeeps, AskDetailsKeeps,
   AskDetailKeeps, AskPeersKeeps, AskRoutesKeeps, AskCymruKeeps DEF ASN!Next

LEMMA ASNStutters == ASNInv /\ UNCHANGED ASN!asnVars => ASNInv'
BY DEF ASN!asnVars, ASNInv, ASNType, AddressInv, SystemInv, Addressed, ASN!Turn, ASN!Over

\* What the invariant says of its history is what the property says.
LEMMA ASNMeans == ASNInv => ASN!TypeOK /\ ASN!SourcesUsed
<1> SUFFICES ASSUME ASNInv PROVE ASN!TypeOK /\ ASN!SourcesUsed OBVIOUS
<1>1. ASNType /\ AddressInv /\ SystemInv BY DEF ASNInv
<1>2. ASN!TypeOK
  <2>1. \A i \in DOMAIN heard : heard[i].source \in ASN!Sources
    <3>1. heard \in Seq(Entries) BY <1>1 DEF ASNType
    <3>2. \A i \in DOMAIN heard : heard[i] \in Entries BY <3>1, SeqDomain
    <3> QED BY <3>2 DEF Entries
  <2> QED BY <1>1, <2>1 DEF ASNType, ASN!TypeOK
<1>3. \A k : ASN!Asked(k) = AskedIn(heard, k) BY DEF ASN!Asked, AskedIn
<1>4. \A k, r : ASN!Decided(k, r) <=> DecidedIn(heard, k, r)
  BY <1>3 DEF ASN!Decided, DecidedIn
<1>5. \A k : ASN!Unknown(k) <=> Missed(heard, k) BY <1>3 DEF ASN!Unknown, Missed, Silent
<1>6. fn = "LookupIP" => ASN!Turn = 1
  <2> SUFFICES ASSUME fn = "LookupIP" PROVE ASN!Turn = 1 OBVIOUS
  <2>1. ips = given BY <1>1 DEF ASNType
  <2>2. Len(given) \in Nat BY <1>1, TurnFacts
  <2> QED BY <2>1, <2>2 DEF ASN!Turn
<1>7. fn = "LookupIP" /\ outcome = "ok" => ASN!Decided(1, info)
  BY <1>1, <1>4, <1>6 DEF AddressInv, Addressed
<1>8. fn = "LookupIP" /\ outcome = "error" => ASN!Unknown(1)
  BY <1>1, <1>5, <1>6 DEF AddressInv, Addressed
<1>9. fn = "LookupBulkIPs" =>
        LET answered == {k \in ASN!Over : ~ ASN!Unknown(k)}
        IN /\ Len(out) = ASN!Cardinality(answered)
           /\ \A k \in answered :
                LET result == out[ASN!Cardinality({j \in answered : j <= k})]
                IN result.ip = given[k] /\ ASN!Decided(k, result.info)
  <2> SUFFICES ASSUME fn = "LookupBulkIPs"
               PROVE  LET answered == {k \in ASN!Over : ~ ASN!Unknown(k)}
                      IN /\ Len(out) = ASN!Cardinality(answered)
                         /\ \A k \in answered :
                              LET result == out[ASN!Cardinality({j \in answered : j <= k})]
                              IN result.ip = given[k] /\ ASN!Decided(k, result.info)
    OBVIOUS
  <2>1. ResultsFor(given, heard, ASN!Over, out) BY <1>1 DEF AddressInv, Addressed
  <2>2. {k \in ASN!Over : ~ ASN!Unknown(k)} = {k \in ASN!Over : ~ Missed(heard, k)} BY <1>5
  <2>3. \A S : ASN!Cardinality(S) = Cardinality(S) BY SameSize
  <2> QED BY <1>4, <2>1, <2>2, <2>3 DEF ResultsFor
<1>10. fn = "LookupASNM" /\ outcome = "ok" =>
        \/ info.name = "" /\ \A i \in DOMAIN heard : ~ ASN!TellsName(heard[i])
        \/ \E i \in DOMAIN heard : /\ ASN!TellsName(heard[i]) /\ info.name = ASN!NameOf(heard[i])
                                   /\ \A j \in DOMAIN heard : ASN!TellsName(heard[j]) => j <= i
  BY <1>1 DEF SystemInv, LastName
<1>11. fn = "LookupPeers" /\ outcome = "ok" =>
        LET text == heard[1].reply
        IN /\ \A i, j \in DOMAIN out : i # j => out[i].asn # out[j].asn
           /\ {out[i].asn : i \in DOMAIN out} =
                {text[i].value : i \in {j \in DOMAIN text : ASN!Mentions(text[j])}}
  <2> SUFFICES ASSUME fn = "LookupPeers", outcome = "ok"
               PROVE  LET text == heard[1].reply
                      IN /\ \A i, j \in DOMAIN out : i # j => out[i].asn # out[j].asn
                         /\ {out[i].asn : i \in DOMAIN out} =
                              {text[i].value : i \in {j \in DOMAIN text : ASN!Mentions(text[j])}}
    OBVIOUS
  <2> DEFINE text == heard[1].reply
  <2>1. text \in Texts /\ out = ASN!Peers(text) BY <1>1 DEF SystemInv
  <2> HIDE DEF text
  <2>2. /\ \A i, j \in DOMAIN out : i # j => out[i].asn # out[j].asn
        /\ {out[i].asn : i \in DOMAIN out} =
             {text[i].value : i \in {j \in DOMAIN text : ASN!Mentions(text[j])}}
    BY <2>1, PeersFacts
  <2> QED BY <2>2 DEF text
<1>12. ASN!SourcesUsed
  BY ONLY <1>7, <1>8, <1>9, <1>10, <1>11 DEF ASN!SourcesUsed
<1> QED BY <1>2, <1>12

LEMMA ASNRunInit == Init => (subject = "asn" => ASNInv)
BY ASNInit DEF Init

LEMMA ASNRunNext == (subject = "asn" => ASNInv) /\ [Next]_vars => (subject = "asn" => ASNInv)'
<1> SUFFICES ASSUME subject = "asn" => ASNInv, [Next]_vars, subject' = "asn" PROVE ASNInv'
  OBVIOUS
<1>1. CASE Next
  <2>1. subject = "asn" BY <1>1 DEF Next
  <2>2. ASN!Next
    BY <1>1, <2>1 DEF Next, NextDNS, NextASN, NextRPKI, NextBGP, NextTopo, NextNames
  <2> QED BY <2>1, <2>2, ASNNext
<1>2. CASE UNCHANGED vars
  <2>1. subject = "asn" BY <1>2 DEF vars
  <2>2. UNCHANGED ASN!asnVars BY <1>2 DEF vars, shared, ofASN, ASN!asnVars
  <2> QED BY <2>1, <2>2, ASNStutters
<1> QED BY <1>1, <1>2

\* Whatever sources fail and whatever they say: LookupIP returns what the first source
\* that knows the address says, LookupBulkIPs one result for each address some source
\* knows, in their order, LookupASNM the name it was told last, LookupPeers each system
\* of the text once.
THEOREM LookupsUseSources == ASN!Spec => [](ASN!TypeOK /\ ASN!SourcesUsed)
<1>1. ASNInv /\ [ASN!Next]_(ASN!asnVars) => ASNInv' BY ASNNext, ASNStutters
<1> QED BY ASNInit, <1>1, ASNMeans, PTL DEF ASN!Spec

-----------------------------------------------------------------------------
(* The bgp commands *)

Plan(takes, asks, needs) == [takes |-> takes, asks |-> asks, needs |-> needs]

\* What the sources of a command have to do with the arguments it takes.
WellPlanned(b, t, p) ==
  /\ p.asks \in Seq(BGP!Sources) /\ \A i, j \in DOMAIN p.asks : i # j => p.asks[i] # p.asks[j]
  /\ ElementsOf(p.asks) \cap {"origin", "routes", "ripe"} \subseteq p.needs
  /\ "list" \in ElementsOf(p.asks) \ p.needs => b \in {"ip", "asn", "full", "map", "visualize", "topology"}
  /\ "prefix" \in ElementsOf(p.asks) => p.asks = <<"prefix">> /\ (b = "prefix" \/ t = "prefix")
  /\ IF b = "whois" THEN p = Plan(BGP!Targets, <<"radb", "ripe">>, {"ripe"})
                    ELSE ElementsOf(p.asks) \cap {"radb", "ripe"} = {}
  /\ b \in {"ip", "origin", "route", "path", "whois", "prefix"} => p.takes = BGP!Targets
  /\ t \in p.takes => \/ b \in {"whois", "route", "prefix"} \/ t \in {"prefix", "asn"}
                      \/ "origin" \in ElementsOf(p.asks)

\* s asks the sources in K, each once.
AsksFor(s, K) == /\ s \in Seq(BGP!Sources) /\ ElementsOf(s) = K
                 /\ \A i, j \in DOMAIN s : i # j => s[i] # s[j]

LEMMA ListsOfSources ==
  /\ AsksFor(<<"name">>, {"name"})
  /\ AsksFor(<<"list">>, {"list"})
  /\ AsksFor(<<"prefix">>, {"prefix"})
  /\ AsksFor(<<"origin">>, {"origin"})
  /\ AsksFor(<<"routes">>, {"routes"})
  /\ AsksFor(<<"radb", "ripe">>, {"radb", "ripe"})
  /\ AsksFor(<<"origin", "name">>, {"origin", "name"})
  /\ AsksFor(<<"name", "list">>, {"name", "list"})
  /\ AsksFor(<<"name", "details", "list">>, {"name", "details", "list"})
  /\ AsksFor(<<"origin", "name", "details", "list">>, {"origin", "name", "details", "list"})
  /\ AsksFor(<<"origin", "name", "details", "ptr", "ports", "list">>, {"origin", "name", "details", "ptr", "ports", "list"})
<1>1. AsksFor(<<"name">>, {"name"})
  BY DEF AsksFor, ElementsOf, BGP!Sources
<1>2. AsksFor(<<"list">>, {"list"})
  BY DEF AsksFor, ElementsOf, BGP!Sources
<1>3. AsksFor(<<"prefix">>, {"prefix"})
  BY DEF AsksFor, ElementsOf, BGP!Sources
<1>4. AsksFor(<<"origin">>, {"origin"})
  BY DEF AsksFor, ElementsOf, BGP!Sources
<1>5. AsksFor(<<"routes">>, {"routes"})
  BY DEF AsksFor, ElementsOf, BGP!Sources
<1>6. AsksFor(<<"radb", "ripe">>, {"radb", "ripe"})
  BY DEF AsksFor, ElementsOf, BGP!Sources
<1>7. AsksFor(<<"origin", "name">>, {"origin", "name"})
  BY DEF AsksFor, ElementsOf, BGP!Sources
<1>8. AsksFor(<<"name", "list">>, {"name", "list"})
  BY DEF AsksFor, ElementsOf, BGP!Sources
<1>9. AsksFor(<<"name", "details", "list">>, {"name", "details", "list"})
  BY DEF AsksFor, ElementsOf, BGP!Sources
<1>10. AsksFor(<<"origin", "name", "details", "list">>, {"origin", "name", "details", "list"})
  BY DEF AsksFor, ElementsOf, BGP!Sources
<1>11. AsksFor(<<"origin", "name", "details", "ptr", "ports", "list">>, {"origin", "name", "details", "ptr", "ports", "list"})
  BY DEF AsksFor, ElementsOf, BGP!Sources
<1> QED BY <1>1, <1>2, <1>3, <1>4, <1>5, <1>6, <1>7, <1>8, <1>9, <1>10, <1>11

LEMMA PlannedFor ==
  ASSUME NEW b, NEW t, NEW p, NEW K, AsksFor(p.asks, K),
         "origin" \in K \/ "routes" \in K \/ "ripe" \in K =>
           K \cap {"origin", "routes", "ripe"} \subseteq p.needs,
         "list" \in K => "list" \in p.needs \/ b \in {"ip", "asn", "full", "map", "visualize", "topology"},
         "prefix" \in K => p.asks = <<"prefix">> /\ (b = "prefix" \/ t = "prefix"),
         b = "whois" => p = Plan(BGP!Targets, <<"radb", "ripe">>, {"ripe"}),
         b # "whois" => "radb" \notin K /\ "ripe" \notin K,
         b \in {"ip", "origin", "route", "path", "whois", "prefix"} => p.takes = BGP!Targets,
         b \in {"ip", "origin", "route", "path"} => "origin" \in K \/ "routes" \in K,
         \/ b \in {"whois", "route", "prefix"} \/ t \in {"prefix", "asn"} \/ "origin" \in K
         \/ t \notin p.takes
  PROVE  WellPlanned(b, t, p)
<1>1. /\ p.asks \in Seq(BGP!Sources) /\ ElementsOf(p.asks) = K
      /\ \A i, j \in DOMAIN p.asks : i # j => p.asks[i] # p.asks[j]
  BY DEF AsksFor
<1> QED BY <1>1 DEF WellPlanned

LEMMA PlansFacts ==
  ASSUME NEW t \in BGP!Targets, NEW v \in BOOLEAN, NEW b \in DOMAIN BGP!Command(t, v)
  PROVE  WellPlanned(b, t, BGP!Command(t, v)[b])
<1> SUFFICES ASSUME NEW p, p = BGP!Command(t, v)[b] PROVE WellPlanned(b, t, p) OBVIOUS
<1>1. CASE b = "ip"
  <2>1. p.takes = BGP!Targets /\ p.needs = {"origin"}
    BY <1>1 DEF BGP!Command, BGP!newBGPIP, BGP!Plan
  <2>2. p.asks \in {<<"origin", "name">>, <<"origin", "name", "details", "list">>}
    BY <1>1 DEF BGP!Command, BGP!newBGPIP, BGP!Plan
  <2> QED BY <1>1, <2>1, <2>2, ListsOfSources, PlannedFor
<1>2. CASE b \in {"peers", "prefixes", "networks", "export"}
  <2>1. p.takes = {"asn"} /\ p.needs = {"list"} /\ p.asks = <<"list">>
    BY <1>2 DEF BGP!Command, BGP!newBGPPeers, BGP!newBGPPrefixList, BGP!newBGPNetworks, BGP!newBGPExport, BGP!Plan
  <2> QED BY <1>2, <2>1, ListsOfSources, PlannedFor
<1>3. CASE b \in {"asn", "name", "topology"}
  <2>1. p.takes = {"asn"} /\ p.needs = {}
    BY <1>3 DEF BGP!Command, BGP!newBGPASN, BGP!newBGPName, BGP!newBGPTopology, BGP!Plan
  <2>2. /\ b = "asn" => p.asks = <<"name", "details", "list">>
        /\ b = "name" => p.asks = <<"name">>
        /\ b = "topology" => p.asks = <<"name", "list">>
    BY <1>3 DEF BGP!Command, BGP!newBGPASN, BGP!newBGPName, BGP!newBGPTopology, BGP!Plan
  <2> QED BY <1>3, <2>1, <2>2, ListsOfSources, PlannedFor
<1>4. CASE b \in {"prefix", "origin", "route", "path"}
  <2>1. p.takes = BGP!Targets
    BY <1>4 DEF BGP!Command, BGP!newBGPPrefix, BGP!newBGPOrigin, BGP!newBGPRoute, BGP!newBGPPath, BGP!Plan
  <2>2. /\ b = "prefix" => p.asks = <<"prefix">> /\ p.needs = {}
        /\ b = "origin" => p.asks = <<"origin">> /\ p.needs = {"origin"}
        /\ b = "route" => p.asks = <<"routes">> /\ p.needs = {"routes"}
        /\ b = "path" => p.asks = <<"origin", "name">> /\ p.needs = {"origin"}
    BY <1>4 DEF BGP!Command, BGP!newBGPPrefix, BGP!newBGPOrigin, BGP!newBGPRoute, BGP!newBGPPath, BGP!Plan
  <2> QED BY <1>4, <2>1, <2>2, ListsOfSources, PlannedFor
<1>5. CASE b = "whois"
  <2>1. p = Plan(BGP!Targets, <<"radb", "ripe">>, {"ripe"})
    BY <1>5 DEF BGP!Command, BGP!newBGPWhois, BGP!Plan, Plan
  <2>2. p.takes = BGP!Targets /\ p.asks = <<"radb", "ripe">> /\ p.needs = {"ripe"}
    BY <2>1 DEF Plan
  <2> QED BY <1>5, <2>1, <2>2, ListsOfSources, PlannedFor
<1>6. CASE b \in {"full", "map", "visualize"}
  <2>1. p.needs = {"origin"} /\ p.takes \subseteq BGP!Anything
    BY <1>6 DEF BGP!Command, BGP!newBGPFull, BGP!newBGPMap, BGP!newBGPVis, BGP!Plan
  <2>2. /\ t = "prefix" => p.asks \in {<<"prefix">>, <<"origin", "name">>}
        /\ t = "asn" => p.asks \in {<<"name", "details", "list">>, <<"name", "list">>}
        /\ t \notin {"asn", "prefix"} =>
             p.asks \in {<<"origin", "name", "details", "ptr", "ports", "list">>, <<"origin", "name">>}
    BY <1>6 DEF BGP!Command, BGP!newBGPFull, BGP!newBGPMap, BGP!newBGPVis, BGP!Plan,
                BGP!runBGPIPFull, BGP!runBGPASNFull, BGP!runBGPIPMap, BGP!runBGPASNMap
  <2>3. CASE t = "prefix" BY <1>6, <2>1, <2>2, <2>3, ListsOfSources, PlannedFor
  <2>4. CASE t = "asn" BY <1>6, <2>1, <2>2, <2>4, ListsOfSources, PlannedFor
  <2>5. CASE t \notin {"asn", "prefix"}
    BY <1>6, <2>1, <2>2, <2>5, ListsOfSources, PlannedFor
  <2> QED BY <2>3, <2>4, <2>5
<1> QED BY <1>1, <1>2, <1>3, <1>4, <1>5, <1>6 DEF BGP!Command
-----------------------------------------------------------------------------
(* What they draw *)

\* A topology with the node of one system.
OneSystem(t, self, a) == /\ DOMAIN t = {"Self", "Nodes", "Links", "Prefix"}
                         /\ t.Self = self /\ DOMAIN t.Nodes = {a}

LEMMA AddPrefixToOne ==
  ASSUME NEW t, NEW self, NEW a, NEW p, OneSystem(t, self, a)
  PROVE  OneSystem(BGP!AddPrefix(t, a, p), self, a)
<1>1. /\ DOMAIN t = {"Self", "Nodes", "Links", "Prefix"}
      /\ t.Self = self /\ DOMAIN t.Nodes = {a}
  BY DEF OneSystem
<1>2. BGP!AddNode(t, a, "") = t BY <1>1 DEF BGP!AddNode
<1>3. BGP!AddPrefix(t, a, p) = [t EXCEPT !.Nodes[a] = BGP!Listed(@, p), !.Prefix = BGP!Put(@, p, a)]
  BY <1>2 DEF BGP!AddPrefix
<1> DEFINE u == [t EXCEPT !.Nodes[a] = BGP!Listed(@, p), !.Prefix = BGP!Put(@, p, a)]
<1>4. DOMAIN u = DOMAIN t OBVIOUS
<1>5. u.Self = t.Self BY <1>1
<1>6. u.Nodes = [t.Nodes EXCEPT ![a] = BGP!Listed(@, p)] BY <1>1
<1>7. DOMAIN u.Nodes = DOMAIN t.Nodes BY <1>6
<1> HIDE DEF u
<1> QED BY <1>1, <1>3, <1>4, <1>5, <1>7 DEF OneSystem, u

\* The topologies after each of the prefixes ps has been added to t.
Adding(t, a, ps, n, f) ==
  f = [i \in 0 .. n |-> IF i = 0 THEN t ELSE BGP!AddPrefix(f[i - 1], a, ps[i])]

LEMMA AddingExists ==
  ASSUME NEW t, NEW a, NEW ps, NEW n \in Nat
  PROVE  \E f : Adding(t, a, ps, n, f)
<1> DEFINE S == {m \in Nat : \E f : Adding(t, a, ps, m, f)}
<1>1. 0 \in S
  <2> DEFINE f == [i \in 0 .. 0 |-> t]
  <2>1. f = [i \in 0 .. 0 |-> IF i = 0 THEN t ELSE BGP!AddPrefix(f[i - 1], a, ps[i])] OBVIOUS
  <2> HIDE DEF f
  <2>2. Adding(t, a, ps, 0, f) BY <2>1 DEF Adding
  <2> QED BY <2>2
<1>2. ASSUME NEW m \in Nat, m \in S PROVE m + 1 \in S
  <2>1. PICK f : Adding(t, a, ps, m, f) BY <1>2
  <2> DEFINE g == [i \in 0 .. m + 1 |-> IF i = m + 1 THEN BGP!AddPrefix(f[m], a, ps[m + 1]) ELSE f[i]]
  <2>2. /\ \A i \in 0 .. m : g[i] = f[i]
        /\ g[m + 1] = BGP!AddPrefix(f[m], a, ps[m + 1])
    OBVIOUS
  <2>3. \A i \in 0 .. m : f[i] = IF i = 0 THEN t ELSE BGP!AddPrefix(f[i - 1], a, ps[i])
    <3> DEFINE h == [i \in 0 .. m |-> IF i = 0 THEN t ELSE BGP!AddPrefix(f[i - 1], a, ps[i])]
    <3>1. f = h BY <2>1 DEF Adding
    <3>2. \A i \in 0 .. m : h[i] = IF i = 0 THEN t ELSE BGP!AddPrefix(f[i - 1], a, ps[i]) OBVIOUS
    <3> HIDE DEF h
    <3> QED BY <3>1, <3>2
  <2>4. ASSUME NEW i \in 0 .. m + 1
        PROVE  g[i] = IF i = 0 THEN t ELSE BGP!AddPrefix(g[i - 1], a, ps[i])
    <3> HIDE DEF g
    <3>1. CASE i = m + 1
      <4>1. i # 0 /\ i - 1 = m /\ m \in 0 .. m BY <3>1
      <4>2. g[i - 1] = f[m] BY <2>2, <4>1
      <4> QED BY <2>2, <3>1, <4>1, <4>2
    <3>2. CASE i = 0
      <4>1. 0 \in 0 .. m OBVIOUS
      <4> QED BY <2>2, <2>3, <3>2, <4>1
    <3>3. CASE i # m + 1 /\ i # 0
      <4>1. i \in 0 .. m /\ i - 1 \in 0 .. m BY <3>3
      <4>2. g[i] = f[i] /\ g[i - 1] = f[i - 1] BY <2>2, <4>1
      <4>3. f[i] = BGP!AddPrefix(f[i - 1], a, ps[i]) BY <2>3, <3>3, <4>1
      <4> QED BY <3>3, <4>2, <4>3
    <3> QED BY <3>1, <3>2, <3>3
  <2>5. g = [i \in 0 .. m + 1 |-> IF i = 0 THEN t ELSE BGP!AddPrefix(g[i - 1], a, ps[i])]
    <3> DEFINE h == [i \in 0 .. m + 1 |-> IF i = 0 THEN t ELSE BGP!AddPrefix(g[i - 1], a, ps[i])]
    <3>1. \A i \in 0 .. m + 1 : h[i] = g[i] BY <2>4
    <3>2. DOMAIN h = 0 .. m + 1 /\ DOMAIN g = 0 .. m + 1 OBVIOUS
    <3>3. h = [i \in 0 .. m + 1 |-> h[i]] /\ g = [i \in 0 .. m + 1 |-> g[i]] OBVIOUS
    <3> HIDE DEF h, g
    <3>4. h = g BY <3>1, <3>3
    <3> QED BY <3>4 DEF h
  <2> HIDE DEF g
  <2>6. Adding(t, a, ps, m + 1, g) BY <2>5 DEF Adding
  <2> QED BY <2>6
<1>3. S = Nat
  <2>1. S \in SUBSET Nat OBVIOUS
  <2> HIDE DEF S
  <2> QED BY <1>1, <1>2, <2>1, Induction
<1> QED BY <1>3

\* However many prefixes are added, there is one system.
LEMMA AddAllFacts ==
  ASSUME NEW t, NEW self, NEW ps, Len(ps) \in Nat, OneSystem(t, self, asn)
  PROVE  OneSystem(BGP!AddAll(t, ps), self, asn)
<1> DEFINE n == Len(ps)
           f == CHOOSE f : Adding(t, asn, ps, n, f)
<1>1. BGP!AddAll(t, ps) = f[n] BY DEF BGP!AddAll, Adding
<1>2. Adding(t, asn, ps, n, f) BY AddingExists
<1> HIDE DEF f
<1>3. \A i \in 0 .. n : f[i] = IF i = 0 THEN t ELSE BGP!AddPrefix(f[i - 1], asn, ps[i])
  <2> DEFINE h == [i \in 0 .. n |-> IF i = 0 THEN t ELSE BGP!AddPrefix(f[i - 1], asn, ps[i])]
  <2>1. f = h BY <1>2 DEF Adding
  <2>2. \A i \in 0 .. n : h[i] = IF i = 0 THEN t ELSE BGP!AddPrefix(f[i - 1], asn, ps[i]) OBVIOUS
  <2> HIDE DEF h
  <2> QED BY <2>1, <2>2
<1> DEFINE S == {m \in Nat : m <= n => OneSystem(f[m], self, asn)}
<1>4. 0 \in S
  <2>1. f[0] = t BY <1>3
  <2> QED BY <2>1
<1>5. ASSUME NEW m \in Nat, m \in S PROVE m + 1 \in S
  <2> SUFFICES ASSUME m + 1 <= n PROVE OneSystem(f[m + 1], self, asn) OBVIOUS
  <2>1. m <= n /\ m + 1 \in 0 .. n /\ m + 1 # 0 /\ (m + 1) - 1 = m OBVIOUS
  <2>2. OneSystem(f[m], self, asn) BY <1>5, <2>1
  <2>3. f[m + 1] = BGP!AddPrefix(f[m], asn, ps[m + 1]) BY <1>3, <2>1
  <2> QED BY <2>2, <2>3, AddPrefixToOne
<1>6. S = Nat
  <2>1. S \in SUBSET Nat OBVIOUS
  <2> HIDE DEF S
  <2> QED BY <1>4, <1>5, <2>1, Induction
<1>7. n \in Nat /\ n <= n OBVIOUS
<1>8. OneSystem(f[n], self, asn) BY <1>6, <1>7
<1> QED BY <1>1, <1>8
LEMMA BGPSameCardinality == ASSUME NEW S PROVE BGP!Cardinality(S) = Cardinality(S)
BY DEF BGP!Cardinality, Cardinality

LEMMA BGPSameKeep == ASSUME NEW s, NEW P PROVE BGP!Keep(s, P) = Keep(s, P)
BY DEF BGP!Keep, Keep, BGP!Arrange, Arrange, BGP!Ascending, Ascending, BGP!Cardinality, Cardinality

ListLine == STRING \cup {Blank}

\* A list is split without loss.
LEMMA LinesFacts ==
  ASSUME list \in Seq(ListLine)
  PROVE  /\ BGP!Lines \in Seq(ListLine) /\ Len(BGP!Lines) \in Nat
         /\ Len(BGP!v4) + Len(BGP!v6) = Len(BGP!Lines)
<1> DEFINE kept == {i \in DOMAIN list : list[i] # Blank}
<1>1. BGP!Lines = Keep(list, kept) BY BGPSameKeep DEF BGP!Lines
<1>2. kept \in SUBSET DOMAIN list OBVIOUS
<1> HIDE DEF kept
<1>3. Keep(list, kept) \in Seq(ListLine) BY <1>2, KeepFacts
<1>4. PICK s \in Seq(ListLine) : s = BGP!Lines BY <1>1, <1>3
<1> DEFINE P == {i \in DOMAIN s : s[i] \notin IPv6Prefix}
           Q == {i \in DOMAIN s : s[i] \in IPv6Prefix}
<1>5. /\ BGP!v4 = Keep(s, P) /\ BGP!v6 = Keep(s, Q)
  BY <1>4, BGPSameKeep DEF BGP!v4, BGP!v6
<1>6. P \in SUBSET DOMAIN s /\ Q \in SUBSET DOMAIN s /\ P \cup Q = DOMAIN s /\ P \cap Q = {} OBVIOUS
<1> HIDE DEF P, Q
<1>7. /\ Len(Keep(s, P)) = Cardinality(P) /\ Cardinality(P) \in Nat
      /\ Len(Keep(s, Q)) = Cardinality(Q) /\ Cardinality(Q) \in Nat
  BY <1>6, KeepFacts
<1>8. Len(s) \in Nat /\ DOMAIN s = 1 .. Len(s) OBVIOUS
<1>9. IsFiniteSet(1 .. Len(s)) /\ Cardinality(1 .. Len(s)) = Len(s)
  <2>1. 1 \in Int /\ Len(s) \in Int /\ (1 > Len(s) => Len(s) = 0) /\ Len(s) - 1 + 1 = Len(s) BY <1>8
  <2> QED BY <2>1, FS_Interval
<1>10. IsFiniteSet(P) /\ IsFiniteSet(Q) BY <1>6, <1>8, <1>9, FS_Subset
<1>11. Cardinality(P \cup Q) = Cardinality(P) + Cardinality(Q) - Cardinality(P \cap Q)
  BY <1>10, FS_Union
<1>12. Cardinality(P \cap Q) = 0 BY <1>6, FS_EmptySet
<1>13. Cardinality(P) + Cardinality(Q) = Len(s)
  <2>1. Cardinality(P \cup Q) = Len(s) BY <1>6, <1>8, <1>9
  <2> QED BY ONLY <1>7, <1>11, <1>12, <2>1
<1> QED BY <1>4, <1>5, <1>7, <1>8, <1>13

\* What the picture of a command shows.
Drawing(drawing, a, count) ==
  IF bcmd = "topology" THEN drawing.ascii.prefixes = count ELSE drawing.mermaid.self = {a}

LEMMA OutputFacts ==
  ASSUME NEW t
  PROVE  LET drawing == BGP!GenerateFullMapOutput(t)
         IN /\ drawing.ascii.prefixes = t.Self.count
            /\ drawing.mermaid.self = DOMAIN t.Nodes \cap {t.Self.asn}
<1> DEFINE d == BGP!GenerateFullMapOutput(t)
<1>1. d.ascii = BGP!GenerateASCTITopology(t) /\ d.mermaid = BGP!GenerateMermaidDiagram(t)
  BY DEF BGP!GenerateFullMapOutput
<1> HIDE DEF d
<1>2. d.ascii.prefixes = t.Self.count BY <1>1 DEF BGP!GenerateASCTITopology
<1>3. d.mermaid.self = DOMAIN t.Nodes \cap {t.Self.asn}
  <2>1. BGP!GenerateMermaidDiagram(t).self = DOMAIN t.Nodes \cap {t.Self.asn}
    BY DEF BGP!GenerateMermaidDiagram
  <2> QED BY <1>1, <2>1
<1> QED BY <1>2, <1>3 DEF d

LEMMA DrawingFacts ==
  ASSUME list \in Seq(ListLine)
  PROVE  Drawing(BGP!GenerateFullMapOutput(BGP!Topology), asn, Len(BGP!Lines))
<1> DEFINE self == BGP!SelfNode(asn, "")
<1>1. BGP!Lines \in Seq(ListLine) /\ Len(BGP!Lines) \in Nat BY LinesFacts
<1>2. /\ BGP!NewBGPTopology = [Self |-> NoSelf, Nodes |-> <<>>, Links |-> <<>>, Prefix |-> <<>>]
      /\ DOMAIN BGP!NewBGPTopology.Nodes = {}
  BY DEF BGP!NewBGPTopology
<1>3. self.asn = asn BY DEF BGP!SelfNode
<1>4. CASE bcmd = "topology"
  <2> DEFINE t == [BGP!NewBGPTopology EXCEPT !.Self = [BGP!SelfNode(asn, "") EXCEPT !.count = Len(BGP!Lines)]]
  <2>1. BGP!Topology = t BY <1>4 DEF BGP!Topology
  <2>2. t.Self.count = Len(BGP!Lines) BY <1>2 DEF BGP!SelfNode
  <2> HIDE DEF t
  <2>3. BGP!GenerateFullMapOutput(t).ascii.prefixes = t.Self.count BY OutputFacts
  <2> QED BY <1>4, <2>1, <2>2, <2>3 DEF Drawing
<1>5. CASE bcmd # "topology"
  <2> DEFINE t == BGP!WithNode
             u == [BGP!NewBGPTopology EXCEPT !.Self = self]
  <2>1. OneSystem(t, self, asn)
    <3>1. /\ DOMAIN u = {"Self", "Nodes", "Links", "Prefix"} /\ u.Self = self
          /\ DOMAIN u.Nodes = {}
      BY <1>2
    <3> HIDE DEF u, self
    <3>2. t = [u EXCEPT !.Nodes = BGP!Put(@, asn, BGP!Node(""))]
      BY <3>1 DEF BGP!WithNode, BGP!AddNode, u, self
    <3>3. DOMAIN BGP!Put(u.Nodes, asn, BGP!Node("")) = {asn} BY <3>1 DEF BGP!Put
    <3> QED BY <3>1, <3>2, <3>3 DEF OneSystem
  <2>2. OneSystem(BGP!Topology, self, asn)
    <3>1. \A ps : Len(ps) \in Nat => OneSystem(BGP!AddAll(t, ps), self, asn)
      BY <2>1, AddAllFacts
    <3>2. Len(<<route>> \o BGP!Lines) \in Nat
      <4>1. PICK s \in Seq(ListLine) : s = BGP!Lines BY <1>1
      <4>2. s \in Seq(ListLine \cup {route}) /\ <<route>> \in Seq(ListLine \cup {route})
        OBVIOUS
      <4> HIDE DEF ListLine
      <4>3. Len(<<route>> \o s) \in Nat BY <4>2
      <4> QED BY <4>1, <4>3
    <3>3. Len(<<"the prefix">>) \in Nat /\ Len(<<>>) \in Nat OBVIOUS
    <3>4. Len(BGP!Added) \in Nat BY <1>1, <3>2, <3>3 DEF BGP!Added
    <3>5. BGP!Topology = BGP!AddAll(t, BGP!Added) BY <1>5 DEF BGP!Topology
    <3> HIDE DEF t, self
    <3> QED BY <3>1, <3>4, <3>5
  <2>3. PICK top : top = BGP!Topology OBVIOUS
  <2>4. top.Self = self /\ DOMAIN top.Nodes = {asn} BY <2>2, <2>3 DEF OneSystem
  <2>5. BGP!GenerateFullMapOutput(top).mermaid.self = DOMAIN top.Nodes \cap {top.Self.asn}
    BY OutputFacts
  <2> QED BY <1>3, <1>5, <2>3, <2>4, <2>5 DEF Drawing
<1> QED BY <1>4, <1>5
-----------------------------------------------------------------------------
(* Their invariant *)

Different(s) == \A i, j \in DOMAIN s : i # j => s[i] # s[j]

BGPType == /\ target \in BGP!Targets /\ verbose \in BOOLEAN
           /\ bcmd \in DOMAIN BGP!Command(target, verbose)
           /\ plan \in Seq(BGP!Sources) /\ Different(plan)
           /\ known \subseteq asked /\ asked \subseteq BGP!Sources
           /\ asn \in Found \cup {"", "given", "found"}
           /\ origin \in {"", "junk", "found"} /\ route \in {"", "route"}
           /\ list \in Lists \cup {<<>>}
           /\ cancelled \in BOOLEAN /\ outcome \in {"", "printed", "error"}

\* What of the sources has been asked, what is left, and what that means for the end.
PlanInv ==
  LET asks == ElementsOf(BGP!Runs.asks)
  IN /\ asked \cap ElementsOf(plan) = {} /\ asked \cup ElementsOf(plan) \subseteq asks \cup {"name"}
     /\ outcome # "error" /\ ~ BGP!Refused /\ bcmd # "whois" => asks \subseteq asked \cup ElementsOf(plan)
     /\ "prefix" \in ElementsOf(plan) => plan = <<"prefix">> /\ asked = {}
     /\ outcome # "" => plan = <<>>
     /\ BGP!Refused => plan = <<>> /\ asked = {} /\ outcome # "printed"
     /\ (asked \ known) \cap BGP!Runs.needs # {} => outcome = "error"
     /\ outcome = "error" => BGP!Refused \/ asked \ known # {}
     /\ bcmd = "whois" => \/ plan = <<"radb", "ripe">> /\ asked = {}
                          \/ plan = <<"ripe">> /\ asked = {"radb"} /\ known = {}
                          \/ plan = <<>> /\ ("ripe" \in asked => "radb" \in asked \ known)

FoundInv == /\ "origin" \in known \/ target = "asn" => asn # ""
            /\ outcome = "" => picture = <<>>
            /\ picture # <<>> => Drawing(picture[1], asn, Len(BGP!Lines))

BGPInv == BGPType /\ PlanInv /\ FoundInv

LEMMA ListFacts == ASSUME BGPType PROVE list \in Seq(ListLine)
<1>1. \A l \in Lists : l \in Seq(ListLine) BY ListsAssumption DEF ListLine
<1>2. <<>> \in Seq(ListLine)
  <2> HIDE DEF ListLine
  <2> QED OBVIOUS
<1>3. list \in Lists \/ list = <<>> BY DEF BGPType
<1> QED BY <1>1, <1>2, <1>3

LEMMA RunsFacts ==
  ASSUME BGPType
  PROVE  \E p : p = BGP!Runs /\ WellPlanned(bcmd, target, p)
BY PlansFacts DEF BGPType, BGP!Runs

LEMMA NoElements == ElementsOf(<<>>) = {} /\ Different(<<>>) /\ <<>> \in Seq(BGP!Sources)
BY DEF ElementsOf, Different

LEMMA BGPInit == BGP!Init => BGPInv
<1> SUFFICES ASSUME BGP!Init PROVE BGPInv OBVIOUS
<1>1. /\ target \in BGP!Targets /\ verbose \in BOOLEAN
      /\ bcmd \in DOMAIN BGP!Command(target, verbose)
      /\ plan = IF BGP!Refused THEN <<>> ELSE BGP!Runs.asks
      /\ asked = {} /\ known = {}
      /\ asn = IF target = "asn" THEN "given" ELSE ""
      /\ origin = "" /\ list = <<>> /\ route = ""
      /\ cancelled = FALSE /\ picture = <<>> /\ outcome = ""
  BY DEF BGP!Init
<1>2. PICK p : p = BGP!Runs /\ WellPlanned(bcmd, target, p)
  BY <1>1, PlansFacts DEF BGP!Runs
<1>3. BGPType
  <2>1. plan \in Seq(BGP!Sources) /\ Different(plan)
    BY <1>1, <1>2, NoElements DEF WellPlanned, Different
  <2> QED BY <1>1, <2>1 DEF BGPType
<1>4. PlanInv
  <2>1. ElementsOf(plan) \subseteq ElementsOf(BGP!Runs.asks) BY <1>1, NoElements
  <2>2. ~ BGP!Refused => ElementsOf(plan) = ElementsOf(BGP!Runs.asks) BY <1>1
  <2>3. "prefix" \in ElementsOf(plan) => plan = <<"prefix">>
    BY <1>1, <1>2, NoElements DEF WellPlanned
  <2>4. bcmd = "whois" => plan = <<"radb", "ripe">>
    <3> SUFFICES ASSUME bcmd = "whois" PROVE plan = <<"radb", "ripe">> OBVIOUS
    <3>1. p = Plan(BGP!Targets, <<"radb", "ripe">>, {"ripe"}) BY <1>2 DEF WellPlanned
    <3>2. p.takes = BGP!Targets /\ p.asks = <<"radb", "ripe">> BY <3>1 DEF Plan
    <3>3. ~ BGP!Refused BY <1>1, <1>2, <3>2 DEF BGP!Refused
    <3> QED BY <1>1, <1>2, <3>2, <3>3
  <2> QED BY <1>1, <2>1, <2>2, <2>3, <2>4 DEF PlanInv
<1>5. FoundInv BY <1>1 DEF FoundInv
<1> QED BY <1>3, <1>4, <1>5 DEF BGPInv

\* The source asked, and those left.
LEMMA SourceFacts ==
  ASSUME BGPType, plan # <<>>
  PROVE  /\ BGP!Source \in BGP!Sources /\ Tail(plan) \in Seq(BGP!Sources)
         /\ ElementsOf(plan) = ElementsOf(Tail(plan)) \cup {BGP!Source}
         /\ BGP!Source \notin ElementsOf(Tail(plan)) /\ Different(Tail(plan))
<1>1. plan \in Seq(BGP!Sources) /\ \A i, j \in DOMAIN plan : i # j => plan[i] # plan[j]
  BY DEF BGPType, Different
<1> DEFINE S == BGP!Sources
<1> HIDE DEF S
<1>2. plan \in Seq(S) BY <1>1 DEF S
<1>3. /\ Head(plan) \in S /\ Tail(plan) \in Seq(S) BY <1>2, ReceiveFacts
<1>4. {plan[i] : i \in DOMAIN plan} = {Tail(plan)[i] : i \in DOMAIN Tail(plan)} \cup {Head(plan)}
  BY <1>2, ReceiveElements
<1>5. /\ Head(plan) \notin {Tail(plan)[i] : i \in DOMAIN Tail(plan)}
      /\ \A i, j \in DOMAIN Tail(plan) : i # j => Tail(plan)[i] # Tail(plan)[j]
  BY <1>1, <1>2, ReceiveDistinct
<1> QED BY <1>3, <1>4, <1>5 DEF S, ElementsOf, Different, BGP!Source

\* The plan of "whois", step by step.
LEMMA WhoisFacts == /\ Tail(<<"radb", "ripe">>) = <<"ripe">> /\ Head(<<"radb", "ripe">>) = "radb"
                    /\ Tail(<<"ripe">>) = <<>> /\ Head(<<"ripe">>) = "ripe"
                    /\ Tail(<<"prefix">>) = <<>> /\ Head(<<"prefix">>) = "prefix"
                    /\ <<>> \o <<"name">> = <<"name">>
OBVIOUS

LEMMA SourceFailsKeeps == ASSUME BGPInv, BGP!SourceFails PROVE BGPInv'
<1>1. BGPType /\ PlanInv /\ FoundInv BY DEF BGPInv
<1> DEFINE s == BGP!Source
<1>2. /\ plan # <<>> /\ asked' = asked \cup {s}
      /\ IF s \in BGP!Runs.needs THEN outcome' = "error" /\ plan' = <<>>
                                 ELSE plan' = Tail(plan) /\ outcome' = outcome
      /\ UNCHANGED <<bcmd, target, verbose, known, asn, origin, list, route, cancelled, picture>>
  BY DEF BGP!SourceFails, BGP!Required, BGP!data
<1>3. outcome = "" /\ ~ BGP!Refused /\ picture = <<>> BY <1>1, <1>2 DEF PlanInv, FoundInv, BGPType
<1>4. /\ s \in BGP!Sources /\ Tail(plan) \in Seq(BGP!Sources)
      /\ ElementsOf(plan) = ElementsOf(Tail(plan)) \cup {s}
      /\ s \notin ElementsOf(Tail(plan)) /\ Different(Tail(plan))
  BY <1>1, <1>2, SourceFacts
<1>5. BGP!Runs' = BGP!Runs /\ (BGP!Refused' <=> BGP!Refused)
  BY <1>2 DEF BGP!Runs, BGP!Refused
<1>6. bcmd = "whois" =>
        \/ plan = <<"radb", "ripe">> /\ asked = {} /\ s = "radb" /\ Tail(plan) = <<"ripe">> /\ known = {}
        \/ plan = <<"ripe">> /\ asked = {"radb"} /\ known = {} /\ s = "ripe" /\ Tail(plan) = <<>>
  BY <1>1, <1>2, WhoisFacts DEF PlanInv, BGPType, BGP!Source
<1>7. "prefix" \notin ElementsOf(Tail(plan))
  BY <1>1, <1>4, WhoisFacts, NoElements DEF PlanInv
<1>8. PICK p : p = BGP!Runs /\ WellPlanned(bcmd, target, p) BY <1>1, RunsFacts
<1> DEFINE asks == ElementsOf(BGP!Runs.asks)
<1> HIDE DEF s, asks
<1>9. /\ asked \cap ElementsOf(plan) = {} /\ asked \cup ElementsOf(plan) \subseteq asks \cup {"name"}
      /\ bcmd # "whois" => asks \subseteq asked \cup ElementsOf(plan)
      /\ (asked \ known) \cap BGP!Runs.needs = {}
      /\ known \subseteq asked
  BY <1>1, <1>3 DEF PlanInv, asks, BGPType
<1>10. FoundInv'
  <2>1. outcome' = "" => picture' = <<>> BY <1>2, <1>3
  <2> QED BY <1>1, <1>2, <1>3, <2>1 DEF FoundInv
<1>11. s \in asked' \ known BY <1>2, <1>4, <1>9
<1>12. CASE s \in BGP!Runs.needs
  <2>1. outcome' = "error" /\ plan' = <<>> BY <1>2, <1>12
  <2>2. BGPType' BY <1>1, <1>2, <1>4, <2>1, NoElements DEF BGPType
  <2>3. bcmd = "whois" => ("ripe" \in asked' => "radb" \in asked' \ known)
    BY <1>2, <1>6
  <2>4. PlanInv' BY <1>2, <1>3, <1>4, <1>5, <1>9, <1>11, <2>1, <2>3, NoElements DEF PlanInv, asks
  <2> QED BY <1>10, <2>2, <2>4 DEF BGPInv
<1>13. CASE s \notin BGP!Runs.needs
  <2>1. outcome' = "" /\ plan' = Tail(plan) BY <1>2, <1>3, <1>13
  <2>2. BGPType' BY <1>1, <1>2, <1>4, <2>1 DEF BGPType
  <2>3. bcmd = "whois" => \/ plan' = <<"ripe">> /\ asked' = {"radb"} /\ known = {}
                          \/ plan' = <<>> /\ "radb" \in asked' \ known
    BY <1>2, <1>6, <2>1
  <2>4. (asked' \ known) \cap BGP!Runs.needs = {} BY <1>2, <1>9, <1>13
  <2>5. /\ asked' \cap ElementsOf(plan') = {} /\ asked' \cup ElementsOf(plan') \subseteq asks \cup {"name"}
        /\ bcmd # "whois" => asks \subseteq asked' \cup ElementsOf(plan')
    BY <1>2, <1>4, <1>9, <2>1
  <2>6. PlanInv' BY <1>2, <1>3, <1>5, <1>7, <2>1, <2>3, <2>4, <2>5 DEF PlanInv, asks
  <2> QED BY <1>10, <2>2, <2>6 DEF BGPInv
<1> QED BY <1>12, <1>13
LEMMA AnswerKeeps ==
  ASSUME BGPInv, NEW a \in Found, NEW o \in {"", "junk", "found"}, NEW l \in Lists,
         NEW r \in {"", "route"}, BGP!Answer(a, o, l, r)
  PROVE  BGPInv'
<1>1. BGPType /\ PlanInv /\ FoundInv BY DEF BGPInv
<1> DEFINE s == BGP!Source
<1>2. /\ plan # <<>> /\ asked' = asked \cup {s} /\ known' = known \cup {s}
      /\ asn' = CASE s = "origin" -> a [] s = "prefix" /\ o = "found" -> o [] OTHER -> asn
      /\ origin' = IF s = "prefix" THEN o ELSE origin
      /\ list' = IF s = "list" THEN l ELSE list
      /\ route' = IF s = "details" THEN r ELSE route
      /\ plan' = BGP!Rest(o)
      /\ UNCHANGED <<bcmd, target, verbose, cancelled, picture, outcome>>
  BY DEF BGP!Answer, BGP!CanAnswer
<1>3. outcome = "" /\ ~ BGP!Refused /\ picture = <<>> BY <1>1, <1>2 DEF PlanInv, FoundInv, BGPType
<1>4. /\ s \in BGP!Sources /\ Tail(plan) \in Seq(BGP!Sources)
      /\ ElementsOf(plan) = ElementsOf(Tail(plan)) \cup {s}
      /\ s \notin ElementsOf(Tail(plan)) /\ Different(Tail(plan))
  BY <1>1, <1>2, SourceFacts
<1>5. BGP!Runs' = BGP!Runs /\ (BGP!Refused' <=> BGP!Refused)
  BY <1>2 DEF BGP!Runs, BGP!Refused
<1>6. bcmd = "whois" =>
        \/ plan = <<"radb", "ripe">> /\ asked = {} /\ s = "radb"
        \/ plan = <<"ripe">> /\ asked = {"radb"} /\ known = {} /\ s = "ripe" /\ Tail(plan) = <<>>
  BY <1>1, <1>2, WhoisFacts DEF PlanInv, BGPType, BGP!Source
<1>7. "prefix" \in ElementsOf(plan) => plan = <<"prefix">> /\ asked = {} /\ s = "prefix" /\ Tail(plan) = <<>>
  BY <1>1, WhoisFacts DEF PlanInv, BGP!Source
<1>8. PICK p : p = BGP!Runs /\ WellPlanned(bcmd, target, p) BY <1>1, RunsFacts
<1>9. s = "radb" => bcmd = "whois"
  BY <1>1, <1>4, <1>8 DEF PlanInv, WellPlanned
<1>10. plan' = CASE s = "radb" -> <<>>
                [] s = "prefix" /\ bcmd # "prefix" /\ o = "found" -> Tail(plan) \o <<"name">>
                [] OTHER -> Tail(plan)
  BY <1>2 DEF BGP!Rest
<1> DEFINE asks == ElementsOf(BGP!Runs.asks)
<1> HIDE DEF s, asks
<1>11. /\ asked \cap ElementsOf(plan) = {} /\ asked \cup ElementsOf(plan) \subseteq asks \cup {"name"}
       /\ bcmd # "whois" => asks \subseteq asked \cup ElementsOf(plan)
       /\ (asked \ known) \cap BGP!Runs.needs = {}
       /\ known \subseteq asked
  BY <1>1, <1>3 DEF PlanInv, asks, BGPType
<1>12. (asked' \ known') \cap BGP!Runs.needs = {} BY <1>2, <1>11
<1>13. /\ list' \in Lists \cup {<<>>} /\ route' \in {"", "route"} /\ origin' \in {"", "junk", "found"}
       /\ known' \subseteq asked' /\ asked' \subseteq BGP!Sources
  BY <1>1, <1>2, <1>4 DEF BGPType
<1>14. /\ asn' \in Found \cup {"", "given", "found"}
       /\ s = "origin" => asn' # ""
       /\ s # "origin" => asn' \in {asn, "found"}
  BY <1>1, <1>2, FoundAssumption DEF BGPType
<1>15. FoundInv'
  <2>1. "origin" \in known' \/ target = "asn" => asn' # ""
    <3>1. CASE s = "origin" BY <1>14, <3>1
    <3>2. CASE s # "origin" BY <1>1, <1>2, <1>14, <3>2 DEF FoundInv
    <3> QED BY <3>1, <3>2
  <2> QED BY <1>2, <1>3, <2>1 DEF FoundInv
<1>16. CASE s = "radb"
  <2>1. plan' = <<>> BY <1>10, <1>16
  <2>2. BGPType' BY <1>1, <1>2, <1>13, <1>14, <2>1, NoElements DEF BGPType
  <2>3. bcmd = "whois" /\ "ripe" \notin asked'
    BY <1>2, <1>6, <1>9, <1>16
  <2>4. asked' \subseteq asks \cup {"name"} BY <1>2, <1>4, <1>11
  <2>5. PlanInv' BY <1>2, <1>3, <1>5, <1>12, <2>1, <2>3, <2>4, NoElements DEF PlanInv, asks
  <2> QED BY <1>15, <2>2, <2>5 DEF BGPInv
<1>17. CASE s = "prefix" /\ bcmd # "prefix" /\ o = "found"
  <2>1. plan = <<"prefix">> /\ asked = {} /\ Tail(plan) = <<>> BY <1>4, <1>7, <1>17
  <2>2. plan' = <<"name">>
    <3>1. plan' = Tail(plan) \o <<"name">> BY <1>10, <1>17
    <3> QED BY <2>1, <3>1, WhoisFacts
  <2>3. AsksFor(<<"name">>, {"name"}) BY ListsOfSources
  <2>4. /\ plan' \in Seq(BGP!Sources) /\ ElementsOf(plan') = {"name"} /\ Different(plan')
    BY <2>2, <2>3 DEF AsksFor, Different
  <2>5. asked' = {"prefix"} /\ ElementsOf(plan) = {"prefix"}
    <3>1. AsksFor(<<"prefix">>, {"prefix"}) BY ListsOfSources
    <3> QED BY <1>2, <1>17, <2>1, <3>1 DEF AsksFor
  <2>6. BGPType' BY <1>1, <1>2, <1>13, <1>14, <2>4 DEF BGPType
  <2>7. bcmd # "whois" BY <1>6, <1>17
  <2>8. PlanInv' BY <1>2, <1>3, <1>5, <1>11, <1>12, <2>4, <2>5, <2>7 DEF PlanInv, asks
  <2> QED BY <1>15, <2>6, <2>8 DEF BGPInv
<1>18. CASE s # "radb" /\ ~ (s = "prefix" /\ bcmd # "prefix" /\ o = "found")
  <2>1. plan' = Tail(plan) BY <1>10, <1>18
  <2>2. BGPType' BY <1>1, <1>2, <1>4, <1>13, <1>14, <2>1 DEF BGPType
  <2>3. bcmd = "whois" => plan' = <<>> /\ "radb" \in asked' \ known'
    BY <1>2, <1>6, <1>18, <2>1
  <2>4. "prefix" \notin ElementsOf(plan') BY <1>4, <1>7, <2>1, NoElements
  <2>5. /\ asked' \cap ElementsOf(plan') = {} /\ asked' \cup ElementsOf(plan') \subseteq asks \cup {"name"}
        /\ bcmd # "whois" => asks \subseteq asked' \cup ElementsOf(plan')
    BY <1>2, <1>4, <1>11, <2>1
  <2>6. PlanInv' BY <1>2, <1>3, <1>5, <1>12, <2>3, <2>4, <2>5 DEF PlanInv, asks
  <2> QED BY <1>15, <2>2, <2>6 DEF BGPInv
<1> QED BY <1>16, <1>17, <1>18

LEMMA ReportKeeps == ASSUME BGPInv, BGP!Report PROVE BGPInv'
<1>1. BGPType /\ PlanInv /\ FoundInv BY DEF BGPInv
<1>2. /\ plan = <<>> /\ outcome = ""
      /\ outcome' = IF BGP!Refused THEN "error" ELSE "printed"
      /\ picture' = <<>> \/ picture' = <<BGP!GenerateFullMapOutput(BGP!Topology)>>
      /\ UNCHANGED <<bcmd, target, verbose, plan, asked, known, asn, origin, list, route, cancelled>>
  BY DEF BGP!Report, BGP!data
<1>3. BGP!Runs' = BGP!Runs /\ (BGP!Refused' <=> BGP!Refused) /\ BGP!Lines' = BGP!Lines
  BY <1>2 DEF BGP!Runs, BGP!Refused, BGP!Lines
<1>4. list \in Seq(ListLine) BY <1>1, ListFacts
<1>5. Drawing(BGP!GenerateFullMapOutput(BGP!Topology), asn, Len(BGP!Lines))
  BY <1>4, DrawingFacts
<1>6. picture' # <<>> => Drawing(picture'[1], asn, Len(BGP!Lines))
  <2> DEFINE d == BGP!GenerateFullMapOutput(BGP!Topology)
  <2>1. Drawing(d, asn, Len(BGP!Lines)) BY <1>5
  <2>2. picture' = <<>> \/ picture' = <<d>> BY <1>2
  <2> HIDE DEF d
  <2>3. picture' # <<>> => picture'[1] = d BY <2>2
  <2> QED BY <2>1, <2>3
<1>7. BGPType' BY <1>1, <1>2 DEF BGPType
<1>8. PlanInv' BY <1>1, <1>2, <1>3 DEF PlanInv
<1>9. FoundInv'
  <2>1. \A d, a, n : Drawing(d, a, n)' <=> Drawing(d, a, n) BY <1>2 DEF Drawing
  <2>2. Drawing(picture[1], asn, Len(BGP!Lines))' <=> Drawing(picture'[1], asn, Len(BGP!Lines))
    BY <1>2, <1>3 DEF Drawing
  <2>3. outcome' # "" BY <1>2
  <2> QED BY <1>1, <1>2, <1>6, <2>2, <2>3 DEF FoundInv
<1> QED BY <1>7, <1>8, <1>9 DEF BGPInv

LEMMA BGPNext == BGPInv /\ [BGP!Next]_(BGP!cmdVars) => BGPInv'
<1> SUFFICES ASSUME BGPInv, [BGP!Next]_(BGP!cmdVars) PROVE BGPInv' OBVIOUS
<1>1. ASSUME UNCHANGED <<bcmd, target, verbose, plan, asked, known, asn, origin, list, route,
                         picture, outcome>>,
             cancelled' \in BOOLEAN
      PROVE  BGPInv'
  <2>1. BGP!Runs' = BGP!Runs /\ (BGP!Refused' <=> BGP!Refused) /\ BGP!Lines' = BGP!Lines
    BY <1>1 DEF BGP!Runs, BGP!Refused, BGP!Lines
  <2>2. BGPType' BY <1>1 DEF BGPInv, BGPType
  <2>3. PlanInv' BY <1>1, <2>1 DEF BGPInv, PlanInv
  <2>4. FoundInv' BY <1>1, <2>1 DEF BGPInv, FoundInv, Drawing
  <2> QED BY <2>2, <2>3, <2>4 DEF BGPInv
<1>2. CASE BGP!Cancel BY <1>1, <1>2 DEF BGP!Cancel, BGP!data
<1>3. CASE UNCHANGED BGP!cmdVars
  <2>1. cancelled' \in BOOLEAN BY <1>3 DEF BGP!cmdVars, BGPInv, BGPType
  <2> QED BY <1>1, <1>3, <2>1 DEF BGP!cmdVars, BGP!data
<1> QED BY <1>2, <1>3, AnswerKeeps, SourceFailsKeeps, ReportKeeps DEF BGP!Next

LEMMA BGPMeans == BGPInv => BGP!TypeOK /\ BGP!CommandsJustified
<1> SUFFICES ASSUME BGPInv PROVE BGP!TypeOK /\ BGP!CommandsJustified OBVIOUS
<1>1. BGPType /\ PlanInv /\ FoundInv BY DEF BGPInv
<1>2. BGP!TypeOK BY <1>1 DEF BGPType, BGP!TypeOK
<1>3. PICK p : p = BGP!Runs /\ WellPlanned(bcmd, target, p) BY <1>1, RunsFacts
<1> DEFINE lost == asked \ known
           asks == ElementsOf(p.asks)
<1>4. /\ asked \subseteq asks \cup {"name"} /\ (lost \cap p.needs # {} => outcome = "error")
      /\ asks \cap {"origin", "routes", "ripe"} \subseteq p.needs
      /\ BGP!Refused <=> target \notin p.takes
      /\ known \subseteq asked /\ asked \subseteq BGP!Sources
  BY <1>1, <1>3 DEF PlanInv, WellPlanned, BGPType, BGP!Refused
<1> HIDE DEF asks
<1>5. ASSUME outcome = "printed"
      PROVE  /\ lost \cap {"origin", "routes", "ripe"} = {}
             /\ "list" \in lost => bcmd \in {"ip", "asn", "full", "map", "visualize", "topology"}
             /\ asn = "" => bcmd \in {"whois", "route"} \/ target = "prefix" \/ bcmd = "prefix"
  <2>1. plan = <<>> /\ ~ BGP!Refused BY <1>1, <1>5 DEF PlanInv
  <2>2. bcmd # "whois" => asks \subseteq asked
    BY <1>1, <1>3, <1>5, <2>1, NoElements DEF PlanInv, asks
  <2>3. lost \cap {"origin", "routes", "ripe"} = {} BY <1>4, <1>5
  <2>4. "list" \in lost => bcmd \in {"ip", "asn", "full", "map", "visualize", "topology"}
    <3> SUFFICES ASSUME "list" \in lost PROVE bcmd \in {"ip", "asn", "full", "map", "visualize", "topology"}
      OBVIOUS
    <3>1. "list" \in asks \ p.needs BY <1>4, <1>5
    <3> QED BY <1>3, <3>1 DEF WellPlanned, asks
  <2>5. asn = "" => bcmd \in {"whois", "route"} \/ target = "prefix" \/ bcmd = "prefix"
    <3> SUFFICES ASSUME asn = "", bcmd \notin {"whois", "route", "prefix"}, target # "prefix"
                 PROVE  FALSE
      OBVIOUS
    <3>1. target # "asn" /\ "origin" \notin known BY <1>1 DEF FoundInv
    <3>2. target \in p.takes BY <1>4, <2>1
    <3>3. "origin" \in asks BY <1>3, <3>1, <3>2 DEF WellPlanned, asks
    <3> QED BY <2>2, <2>3, <3>1, <3>3
  <2> QED BY <2>3, <2>4, <2>5
<1>6. ASSUME outcome = "error"
      PROVE  lost # {} \/ (asked = {} /\ bcmd \notin {"ip", "origin", "route", "path"} \cup {"whois", "prefix"})
  <2> SUFFICES ASSUME lost = {}
               PROVE  asked = {} /\ bcmd \notin {"ip", "origin", "route", "path"} \cup {"whois", "prefix"}
    OBVIOUS
  <2>1. BGP!Refused /\ asked = {} BY <1>1, <1>6 DEF PlanInv
  <2>2. p.takes # BGP!Targets BY <1>1, <1>4, <2>1 DEF BGPType
  <2> QED BY <1>3, <2>1, <2>2 DEF WellPlanned
<1>7. "ripe" \in asked => "radb" \in lost
  <2> SUFFICES ASSUME "ripe" \in asked PROVE "radb" \in lost OBVIOUS
  <2>1. bcmd = "whois" BY <1>3, <1>4 DEF WellPlanned, asks
  <2> QED BY <1>1, <2>1 DEF PlanInv
<1>8. Len(BGP!v4) + Len(BGP!v6) = Len(BGP!Lines)
  <2>1. list \in Seq(ListLine) BY <1>1, ListFacts
  <2> QED BY <2>1, LinesFacts
<1>9. picture # <<>> =>
        IF bcmd = "topology" THEN picture[1].ascii.prefixes = Len(BGP!Lines)
                             ELSE picture[1].mermaid.self = {asn}
  BY <1>1 DEF FoundInv, Drawing
<1>10. BGP!CommandsJustified
  BY <1>5, <1>6, <1>7, <1>8, <1>9 DEF BGP!CommandsJustified
<1> QED BY <1>2, <1>10

LEMMA BGPRunInit == Init => (subject = "bgp" => BGPInv)
BY BGPInit DEF Init

LEMMA BGPRunNext == (subject = "bgp" => BGPInv) /\ [Next]_vars => (subject = "bgp" => BGPInv)'
<1> SUFFICES ASSUME subject = "bgp" => BGPInv, [Next]_vars, subject' = "bgp" PROVE BGPInv'
  OBVIOUS
<1>1. CASE Next
  <2>1. subject = "bgp" BY <1>1 DEF Next
  <2>2. BGP!Next
    BY <1>1, <2>1 DEF Next, NextDNS, NextASN, NextRPKI, NextBGP, NextTopo, NextNames
  <2> QED BY <2>1, <2>2, BGPNext
<1>2. CASE UNCHANGED vars
  <2>1. subject = "bgp" BY <1>2 DEF vars
  <2>2. UNCHANGED BGP!cmdVars
    BY <1>2 DEF vars, shared, ofBGP, BGP!cmdVars, BGP!data
  <2> QED BY <2>1, <2>2, BGPNext
<1> QED BY <1>1, <1>2

\* Whichever sources of a bgp command fail: a report has the source it is about, a
\* command that takes its argument gives up only when a source did, RIPE is asked when
\* RADB fails, no line of a list is lost when it is split, the map of topology counts
\* the prefixes of the list, and other drawings mark the system found or given.
THEOREM CommandsReportSources == BGP!Spec => [](BGP!TypeOK /\ BGP!CommandsJustified)
BY BGPInit, BGPNext, BGPMeans, PTL DEF BGP!Spec

-----------------------------------------------------------------------------
(* The plugin registry *)

USE NobodyAssumption

Result == [name : Names, failed : BOOLEAN]
NamesIn(s) == {s[i].name : i \in DOMAIN s}

-----------------------------------------------------------------------------
(* Results *)

\* Appending a result adds its name and leaves the others where they are.
LEMMA AppendFacts ==
  ASSUME NEW s \in Seq(Result), NEW r \in Result
  PROVE  /\ Append(s, r) \in Seq(Result)
         /\ DOMAIN Append(s, r) = DOMAIN s \cup {Len(s) + 1}
         /\ Len(s) + 1 \notin DOMAIN s
         /\ \A i \in DOMAIN s : Append(s, r)[i] = s[i]
         /\ Append(s, r)[Len(s) + 1] = r
         /\ NamesIn(Append(s, r)) = NamesIn(s) \cup {r.name}
<1>1. /\ Append(s, r) \in Seq(Result)
      /\ DOMAIN Append(s, r) = DOMAIN s \cup {Len(s) + 1}
      /\ Len(s) + 1 \notin DOMAIN s
      /\ \A i \in DOMAIN s : Append(s, r)[i] = s[i]
      /\ Append(s, r)[Len(s) + 1] = r
  OBVIOUS
<1>2. NamesIn(Append(s, r)) = NamesIn(s) \cup {r.name} BY ONLY <1>1 DEF NamesIn
<1> QED BY <1>1, <1>2

-----------------------------------------------------------------------------
(* Types *)

LEMMA TypeInit == Plugins!Init => Plugins!TypeOK
<1> SUFFICES ASSUME Plugins!Init PROVE Plugins!TypeOK OBVIOUS
<1>1. DOMAIN plugins = {} BY DEF Plugins!Init
<1>2. results \in Seq([name : Names, failed : BOOLEAN]) BY DEF Plugins!Init
<1> QED BY <1>1, <1>2 DEF Plugins!Init, Plugins!TypeOK

LEMMA TypeNext == Plugins!TypeOK /\ [Plugins!Next]_(Plugins!regVars) => Plugins!TypeOK'
<1> SUFFICES ASSUME Plugins!TypeOK, [Plugins!Next]_(Plugins!regVars) PROVE Plugins!TypeOK' OBVIOUS
<1> USE DEF Plugins!TypeOK
<1>1. ASSUME NEW n \in Names, NEW v \in Versions, Plugins!Register(n, v) PROVE Plugins!TypeOK'
  <2>1. CASE Plugins!Taken(n) BY <1>1, <2>1 DEF Plugins!Register, Plugins!walk
  <2>2. CASE ~Plugins!Taken(n) BY <1>1, <2>2 DEF Plugins!Register, Plugins!walk
  <2> QED BY <2>1, <2>2
<1>2. ASSUME NEW n \in Names, Plugins!Unregister(n) PROVE Plugins!TypeOK'
  BY <1>2 DEF Plugins!Unregister, Plugins!walk
<1>3. ASSUME NEW n \in Names, NEW valid \in BOOLEAN, Plugins!Visit(n, valid) PROVE Plugins!TypeOK'
  BY <1>3 DEF Plugins!Visit
<1>4. CASE Plugins!ExecuteAll BY <1>4 DEF Plugins!ExecuteAll
<1>5. CASE Plugins!Return BY <1>5 DEF Plugins!Return
<1>6. CASE Plugins!Cancel BY <1>6 DEF Plugins!Cancel
<1>7. ASSUME NEW failed \in BOOLEAN, Plugins!Executed(failed) PROVE Plugins!TypeOK'
  <2>1. [name |-> current, failed |-> failed] \in Result BY <1>7 DEF Plugins!Executed, Result
  <2>2. results' \in Seq(Result) BY <1>7, <2>1, AppendFacts DEF Plugins!Executed, Result
  <2> QED BY <1>7, <2>2 DEF Plugins!Executed, Result
<1>8. CASE UNCHANGED Plugins!regVars BY <1>8 DEF Plugins!regVars
<1> QED BY <1>1, <1>2, <1>3, <1>4, <1>5, <1>6, <1>7, <1>8 DEF Plugins!Next

\* Every variable keeps its type.
THEOREM TypeCorrect == Plugins!Spec => []Plugins!TypeOK
BY TypeInit, TypeNext, PTL DEF Plugins!Spec

-----------------------------------------------------------------------------
(* ExecuteAll.  EveryPluginRuns is not inductive: a name that the range has yet *)
(* to produce, or whose Execute runs, may have a result only when it was added  *)
(* while ExecuteAll runs, and no Execute runs outside of ExecuteAll.            *)

OnceUnlessAgain(s) == \A i, j \in DOMAIN s : i # j /\ s[i].name = s[j].name => s[i].name \in again

Inv == /\ Plugins!TypeOK
       /\ Plugins!EveryPluginRuns
       /\ unseen \cap (NamesIn(results) \cup {current}) \subseteq again
       /\ current \in NamesIn(results) => current \in again
       /\ ~ranging => current = Nobody

LEMMA InvInit == Plugins!Init => Inv
<1> SUFFICES ASSUME Plugins!Init PROVE Inv OBVIOUS
<1>1. Plugins!TypeOK BY TypeInit
<1> QED BY <1>1 DEF Plugins!Init, Inv, Plugins!EveryPluginRuns, NamesIn, Plugins!Ran

LEMMA InvNext == Inv /\ [Plugins!Next]_(Plugins!regVars) => Inv'
<1> SUFFICES ASSUME Inv, [Plugins!Next]_(Plugins!regVars) PROVE Inv' OBVIOUS
<1>0. Plugins!TypeOK' BY TypeNext DEF Inv
<1>r. Plugins!Ran = NamesIn(results) \cup ({current} \ {Nobody}) BY DEF Plugins!Ran, NamesIn
<1>s. Plugins!Ran' = NamesIn(results') \cup ({current'} \ {Nobody}) BY DEF Plugins!Ran, NamesIn
<1> USE DEF Inv
<1>1. ASSUME NEW n \in Names, NEW v \in Versions, Plugins!Register(n, v) PROVE Inv'
  <2>1. CASE Plugins!Taken(n)
    BY <1>0, <1>1, <2>1, <1>r, <1>s DEF Plugins!Register, Plugins!walk, Plugins!EveryPluginRuns
  <2>2. CASE ~Plugins!Taken(n)
    BY <1>0, <1>1, <2>2, <1>r, <1>s DEF Plugins!Register, Plugins!walk, Plugins!EveryPluginRuns, Plugins!MayWrite
  <2> QED BY <2>1, <2>2
<1>2. ASSUME NEW n \in Names, Plugins!Unregister(n) PROVE Inv'
  BY <1>0, <1>2, <1>r, <1>s DEF Plugins!Unregister, Plugins!walk, Plugins!EveryPluginRuns
<1>3. ASSUME NEW n \in Names, NEW valid \in BOOLEAN, Plugins!Visit(n, valid) PROVE Inv'
  <2>1. CASE valid BY <1>0, <1>3, <2>1, <1>r, <1>s DEF Plugins!Visit, Plugins!EveryPluginRuns, Plugins!TypeOK
  <2>2. CASE ~valid BY <1>0, <1>3, <2>2, <1>r, <1>s DEF Plugins!Visit, Plugins!EveryPluginRuns, Plugins!TypeOK
  <2> QED BY <2>1, <2>2
<1>4. CASE Plugins!ExecuteAll
  <2>1. NamesIn(results') = {} BY <1>4 DEF Plugins!ExecuteAll, NamesIn
  <2> QED BY <1>0, <1>4, <2>1, <1>s DEF Plugins!ExecuteAll, Plugins!EveryPluginRuns, Plugins!TypeOK
<1>5. CASE Plugins!Return BY <1>0, <1>5, <1>r, <1>s DEF Plugins!Return, Plugins!EveryPluginRuns, Plugins!Over
<1>6. CASE Plugins!Cancel BY <1>0, <1>6, <1>r, <1>s DEF Plugins!Cancel, Plugins!EveryPluginRuns
<1>7. ASSUME NEW failed \in BOOLEAN, Plugins!Executed(failed) PROVE Inv'
  <2> DEFINE r == [name |-> current, failed |-> failed]
  <2>1. r \in Result /\ r.name = current BY <1>7 DEF Plugins!Executed, Result, Plugins!TypeOK
  <2>2. results \in Seq(Result) BY DEF Plugins!TypeOK, Result
  <2>3. results' = Append(results, r) BY <1>7 DEF Plugins!Executed
  <2> HIDE DEF r
  <2>4. NamesIn(results') = NamesIn(results) \cup {current} BY <2>1, <2>2, <2>3, AppendFacts
  <2>5. OnceUnlessAgain(results)' BY <1>7, <2>1, <2>2, <2>3, AppendFacts
                                  DEF OnceUnlessAgain, NamesIn, Plugins!Executed, Plugins!EveryPluginRuns
  <2>6. /\ current # Nobody /\ current' = Nobody /\ ranging
        /\ UNCHANGED <<plugins, ranging, unseen, cancelled, rejected, stayed, again>>
    BY <1>7 DEF Plugins!Executed
  <2>7. Plugins!Ran' = Plugins!Ran BY <2>4, <2>6, <1>r, <1>s
  <2>8. Plugins!EveryPluginRuns'
    <3>1. \A i, j \in DOMAIN results' : i # j /\ results'[i].name = results'[j].name
                                         => results'[i].name \in again'
      BY <2>5 DEF OnceUnlessAgain
    <3>2. ~cancelled' => stayed' \ unseen' \subseteq Plugins!Ran' \cup rejected'
      BY <2>6, <2>7 DEF Plugins!EveryPluginRuns
    <3> QED BY <2>6, <3>1, <3>2 DEF Plugins!EveryPluginRuns
  <2>9. Nobody \notin NamesIn(results')
    <3>1. \A i \in DOMAIN results' : results'[i] \in Result BY <2>1, <2>2, <2>3, AppendFacts
    <3> QED BY ONLY <3>1, NobodyAssumption DEF NamesIn, Result
  <2>10. Nobody \notin unseen BY DEF Plugins!TypeOK
  <2>11. NamesIn(results)' = NamesIn(results) \cup {current} BY <2>4
  <2>12. (unseen \cap (NamesIn(results) \cup {current}))' \subseteq again'
    BY <2>6, <2>10, <2>11
  <2> QED BY <1>0, <2>6, <2>8, <2>9, <2>12
<1>8. CASE UNCHANGED Plugins!regVars BY <1>0, <1>8, <1>r, <1>s DEF Plugins!regVars, Plugins!EveryPluginRuns
<1> QED BY <1>1, <1>2, <1>3, <1>4, <1>5, <1>6, <1>7, <1>8 DEF Plugins!Next

\* Whatever plugins register and unregister while ExecuteAll calls them, each one
\* that stays registered gets its turn unless the context is done, and none runs
\* twice unless it was added meanwhile.
THEOREM RegistryRunsEveryPlugin == Plugins!Spec => []Plugins!EveryPluginRuns
<1>1. Inv => Plugins!EveryPluginRuns BY DEF Inv
<1> QED BY InvInit, InvNext, <1>1, PTL DEF Plugins!Spec

-----------------------------------------------------------------------------
(* The run explores the registry next to other subjects, which leave it alone. *)

LEMMA RunInit == Init => (subject = "plugins" => Inv)
BY InvInit DEF Init

LEMMA RunNext ==
  (subject = "plugins" => Inv) /\ [Next]_vars => (subject = "plugins" => Inv)'
<1> SUFFICES ASSUME subject = "plugins" => Inv, [Next]_vars, subject' = "plugins" PROVE Inv'
  OBVIOUS
<1>1. CASE Next
  <2>1. subject = "plugins" BY <1>1 DEF Next
  <2>2. Plugins!Next
    BY <1>1, <2>1 DEF Next, NextDNS, NextASN, NextRPKI, NextBGP, NextTopo, NextNames
  <2> QED BY <2>1, <2>2, InvNext
<1>2. CASE UNCHANGED vars
  <2>1. subject = "plugins" BY <1>2 DEF vars
  <2>2. UNCHANGED Plugins!regVars BY <1>2 DEF vars, shared, ofNames, Plugins!regVars
  <2> QED BY <2>1, <2>2, InvNext
<1> QED BY <1>1, <1>2

\* The same for the registry as the run explores it, with any constants.
THEOREM EveryPluginGetsItsTurn == Spec => []EveryPluginRuns
<1>1. (subject = "plugins" => Inv) => EveryPluginRuns BY DEF Inv, EveryPluginRuns
<1> QED BY RunInit, RunNext, <1>1, PTL DEF Spec
-----------------------------------------------------------------------------
(* All subjects *)

LEMMA DNSRunInit == Init => (subject = "dns" => DNSInv)
BY DNSInit DEF Init

LEMMA DNSRunNext == (subject = "dns" => DNSInv) /\ [Next]_vars => (subject = "dns" => DNSInv)'
<1> SUFFICES ASSUME subject = "dns" => DNSInv, [Next]_vars, subject' = "dns" PROVE DNSInv'
  OBVIOUS
<1>1. CASE Next
  <2>1. subject = "dns" BY <1>1 DEF Next
  <2>2. DNS!Next
    BY <1>1, <2>1 DEF Next, NextDNS, NextASN, NextRPKI, NextBGP, NextTopo, NextNames
  <2> QED BY <2>1, <2>2, DNSNext
<1>2. CASE UNCHANGED vars
  <2>1. subject = "dns" BY <1>2 DEF vars
  <2>2. UNCHANGED DNS!dnsVars BY <1>2 DEF vars, shared, ofDNS, DNS!dnsVars
  <2> QED BY <2>1, <2>2, DNSNext
<1> QED BY <1>1, <1>2

\* In every run of the lookups each subject keeps its types.
THEOREM TypesCorrect == Spec => []TypeOK
<1> DEFINE I == /\ subject = "dns" => DNSInv
                /\ subject = "asn" => ASNInv
                /\ subject = "rpki" => RPKIInv
                /\ subject = "bgp" => BGPInv
                /\ subject = "topology" => TopoInv
                /\ subject = "plugins" => Inv
<1>1. Init => I BY DNSRunInit, ASNRunInit, RPKIRunInit, BGPRunInit, TopoRunInit, RunInit
<1>2. I /\ [Next]_vars => I'
  BY DNSRunNext, ASNRunNext, RPKIRunNext, BGPRunNext, TopoRunNext, RunNext
<1>3. I => TypeOK
  BY DNSMeans, ASNMeans, RPKIMeans, BGPMeans, TopoMeans DEF TypeOK, Inv
<1> QED BY <1>1, <1>2, <1>3, PTL DEF Spec

\* Whatever fails, a DNS command, a lookup of a system and a bgp command say what the
\* answers they have justify, with any servers, texts, records and lists.
THEOREM LookupsJustified == Spec => []SourcesJustified
<1> DEFINE I == /\ subject = "dns" => DNSInv
                /\ subject = "asn" => ASNInv
                /\ subject = "bgp" => BGPInv
<1>1. Init => I BY DNSRunInit, ASNRunInit, BGPRunInit
<1>2. I /\ [Next]_vars => I' BY DNSRunNext, ASNRunNext, BGPRunNext
<1>3. I => SourcesJustified BY DNSMeans, ASNMeans, BGPMeans DEF SourcesJustified
<1> QED BY <1>1, <1>2, <1>3, PTL DEF Spec
=============================================================================
