------------------------------- MODULE BGPMap -------------------------------
(***************************************************************************)
(* The topology of pkg/network/bgpmap.go: its methods as operators on a    *)
(* record, and what its diagrams draw.  A definition marked MISTAKE is a   *)
(* wrong version of the one that follows.                                  *)
(***************************************************************************)
EXTENDS Integers, Sequences, FiniteSets, SequencesExt

CONSTANTS NoSelf      \* topo.Self = nil

Kinds == {"upstream", "peer", "customer", "transit"}
Boxed == Kinds \ {"transit"}   \* those the ASCII map draws

\* The node topo.Self is an object of its own, also when topo.Nodes has its system.
NewBGPTopology == [Self |-> NoSelf, Nodes |-> <<>>, Links |-> <<>>, Prefix |-> <<>>]

Node(country) == [country |-> country, count |-> 0, ips |-> <<>>]
SelfNode(asn, country) == [asn |-> asn, country |-> country, count |-> 0]

\* m[k] = v
Put(m, k, v) == [l \in DOMAIN m \cup {k} |-> IF l = k THEN v ELSE m[l]]

AddNode(t, asn, country) ==
  IF asn \in DOMAIN t.Nodes THEN t ELSE [t EXCEPT !.Nodes = Put(@, asn, Node(country))]

Listed_Once(node, p) ==                      \* MISTAKE: counts a prefix once only
  IF p \in Range(node.ips) THEN [node EXCEPT !.ips = Append(@, p)]
                           ELSE [node EXCEPT !.ips = Append(@, p), !.count = @ + 1]
Listed(node, p) == [node EXCEPT !.ips = Append(@, p), !.count = @ + 1]

\* A prefix of a system without a node makes one without a name and a country.
AddPrefix(t, asn, p) ==
  LET u == AddNode(t, asn, "")
  IN [u EXCEPT !.Nodes[asn] = Listed(@, p), !.Prefix = Put(@, p, asn)]

AddLink(t, from, to, kind) ==
  [t EXCEPT !.Links = Append(@, [from |-> from, to |-> to, kind |-> kind])]

-----------------------------------------------------------------------------
(* What the generators draw. *)

Ends(t, kind) == {t.Links[i].to : i \in {j \in DOMAIN t.Links : t.Links[j].kind = kind}}

\* Boxes are the ends of links, whoever they start from, that have a node; the
\* headings count all ends.  The number of prefixes is the one in Self.
GenerateASCTITopology(t) ==
  [prefixes |-> t.Self.count,
   heading  |-> [k \in Boxed |-> Cardinality(Ends(t, k))],
   boxes    |-> [k \in Boxed |-> Ends(t, k) \cap DOMAIN t.Nodes]]

\* A country nobody knows has no group here, and one called "Unknown" on the world map,
\* where an edge still leads to the country without a name.
GenerateMermaidDiagram(t) ==
  [nodes   |-> DOMAIN t.Nodes,
   grouped |-> {a \in DOMAIN t.Nodes : t.Nodes[a].country # ""},
   self    |-> DOMAIN t.Nodes \cap {t.Self.asn},
   arrows  |-> Len(t.Links)]

Group(country) == IF country = "" THEN "Unknown" ELSE country
GenerateMermaidWorldMap(t) ==
  LET known == {l \in Range(t.Links) : {l.from, l.to} \subseteq DOMAIN t.Nodes}
  IN [groups |-> {Group(t.Nodes[a].country) : a \in DOMAIN t.Nodes},
      edges  |-> {<<t.Nodes[l.from].country, t.Nodes[l.to].country>> : l \in known}]

GenerateMermaidPrefixPie(t) ==
  [a \in {b \in DOMAIN t.Nodes : t.Nodes[b].count > 0} |-> t.Nodes[a].count]

\* Its path is always the one system, which is drawn without an arrow.
GenerateFullMapOutput(t) ==
  [ascii   |-> GenerateASCTITopology(t),
   mermaid |-> GenerateMermaidDiagram(t),
   world   |-> GenerateMermaidWorldMap(t),
   pie     |-> IF Cardinality(DOMAIN t.Nodes) > 1 THEN GenerateMermaidPrefixPie(t) ELSE <<>>]
=============================================================================
