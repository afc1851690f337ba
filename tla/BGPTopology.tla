---------------------------- MODULE BGPTopology ----------------------------
(***************************************************************************)
(* A caller that uses the topology of pkg/network/bgpmap.go in any order.  *)
(***************************************************************************)
EXTENDS BGPMap

CONSTANTS Systems,    \* AS numbers
          Countries,  \* "" is a country nobody knows
          Blocks,
          MaxCalls    \* bound: calls a caller makes

VARIABLES topo,
          calls,     \* calls so far
          added,     \* history: calls of AddPrefix
          drawn,     \* the last picture, with the value of added then; <<>> before
          panicked   \* a nil Self was read

topoVars == <<topo, calls, added, drawn, panicked>>

Init == /\ topo = NewBGPTopology
        /\ calls = 0 /\ added = 0
        /\ drawn = <<>> /\ panicked = FALSE

Called == ~panicked /\ calls < MaxCalls /\ calls' = calls + 1
Quiet  == UNCHANGED <<drawn, panicked>>

SetSelf(a, c) == /\ Called
                 /\ topo' = [topo EXCEPT !.Self = SelfNode(a, c)]
                 /\ UNCHANGED added /\ Quiet

CallAddNode(a, c) == Called /\ topo' = AddNode(topo, a, c) /\ UNCHANGED added /\ Quiet

CallAddPrefix(a, p) == /\ Called
                       /\ topo' = AddPrefix(topo, a, p)
                       /\ added' = added + 1
                       /\ Quiet

CallAddLink(a, b, k) == Called /\ topo' = AddLink(topo, a, b, k) /\ UNCHANGED added /\ Quiet

\* GenerateASCTITopology draws nothing of a nil Self, but its caller reads Self.ASN.
Draw == /\ Called
        /\ IF topo.Self = NoSelf
           THEN panicked' = TRUE /\ UNCHANGED drawn
           ELSE drawn' = <<GenerateFullMapOutput(topo), added>> /\ UNCHANGED panicked
        /\ UNCHANGED <<topo, added>>

Next == \/ \E a \in Systems, c \in Countries : SetSelf(a, c) \/ CallAddNode(a, c)
        \/ \E a \in Systems, p \in Blocks : CallAddPrefix(a, p)
        \/ \E a, b \in Systems, k \in Kinds : CallAddLink(a, b, k)
        \/ Draw

Spec == Init /\ [][Next]_topoVars

-----------------------------------------------------------------------------
TypeOK == /\ topo.Self = NoSelf \/ (topo.Self.asn \in Systems /\ topo.Self.country \in Countries)
          /\ DOMAIN topo.Nodes \subseteq Systems
          /\ \A a \in DOMAIN topo.Nodes : /\ topo.Nodes[a].country \in Countries
                                          /\ topo.Nodes[a].ips \in Seq(Blocks)
          /\ topo.Links \in Seq([from : Systems, to : Systems, kind : Kinds])
          /\ DOMAIN topo.Prefix \subseteq Blocks
          /\ calls \in 0 .. MaxCalls /\ panicked \in BOOLEAN

Counts == [a \in DOMAIN topo.Nodes |-> topo.Nodes[a].count]

\* The index knows exactly the prefixes some node lists and leads to a node that lists
\* them; the counts of the nodes add up to the calls of AddPrefix, repetitions too,
\* and so does a pie when it is drawn; no box of the ASCII map is without a node,
\* though its heading may count one.
TopologyConsistent ==
  /\ DOMAIN topo.Prefix = UNION {Range(topo.Nodes[a].ips) : a \in DOMAIN topo.Nodes}
  /\ \A p \in DOMAIN topo.Prefix : /\ topo.Prefix[p] \in DOMAIN topo.Nodes
                                   /\ p \in Range(topo.Nodes[topo.Prefix[p]].ips)
  /\ SumFunction(Counts) = added
  /\ drawn # <<>> =>
       LET picture == drawn[1]
       IN /\ \A k \in Boxed : /\ picture.ascii.boxes[k] \subseteq picture.mermaid.nodes
                              /\ Cardinality(picture.ascii.boxes[k]) <= picture.ascii.heading[k]
          /\ UNION {{e[1], e[2]} : e \in picture.world.edges} \subseteq picture.world.groups \cup {""}
          /\ Cardinality(picture.mermaid.nodes) > 1 => SumFunction(picture.pie) = drawn[2]
=============================================================================
