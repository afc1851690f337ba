---------------------------- MODULE BGPCommands ----------------------------
(***************************************************************************)
(* The "bgp" commands of cmd/cli/bgp.go that look one target up; those     *)
(* with goroutines and those about RPKI have modules of their own.  Each   *)
(* asks sources in an order of its own: TXT records of Team Cymru, which   *)
(* heed the context, and whois servers, which have a timeout of their own. *)
(* The commands that draw build a topology.                                *)
(***************************************************************************)
EXTENDS BGPMap, Ordering

CONSTANTS Found,   \* systems a TXT record may name, with "0" when it cannot be read
          Lists,   \* lists of prefixes and blank lines whois may return
          V6,      \* those prefixes that are not IPv4
          Blank    \* a line that is blank

VARIABLES
  bcmd,       \* the command
  target,     \* what its argument is
  verbose,
  plan,       \* sources it has yet to ask, the next one first
  asked,      \* history: sources asked
  known,      \* sources that answered
  asn,        \* the system found or given
  origin,     \* the origin whois names for a prefix: a system, "junk", or "" for none
  list,       \* the lines of the last list
  route,      \* the route in the details of a system, "" for none
  cancelled,  \* ctx.Err() # nil
  picture,    \* what a drawing command draws
  outcome     \* "", "printed" or "error"

cmdVars == <<bcmd, target, verbose, plan, asked, known, asn, origin, list, route, cancelled,
             picture, outcome>>
data == <<asn, origin, list, route>>

Targets == {"ip4", "ip6", "asn", "prefix", "junk"}

\* A command: the arguments it takes, the sources it asks for them, and those of them
\* without which it ends with an error.
Plan(takes, asks, needs) == [takes |-> takes, asks |-> asks, needs |-> needs]

newBGPIP(v)     == Plan(Targets, IF v THEN <<"origin", "name", "details", "list">>
                                      ELSE <<"origin", "name">>, {"origin"})
newBGPASN       == Plan({"asn"}, <<"name", "details", "list">>, {})
newBGPPrefix    == Plan(Targets, <<"prefix">>, {})
newBGPOrigin    == Plan(Targets, <<"origin">>, {"origin"})
newBGPName      == Plan({"asn"}, <<"name">>, {})
newBGPWhois     == Plan(Targets, <<"radb", "ripe">>, {"ripe"})
newBGPRoute     == Plan(Targets, <<"routes">>, {"routes"})
newBGPPeers     == Plan({"asn"}, <<"list">>, {"list"})
newBGPPrefixList == Plan({"asn"}, <<"list">>, {"list"})
newBGPNetworks  == Plan({"asn"}, <<"list">>, {"list"})
newBGPExport    == Plan({"asn"}, <<"list">>, {"list"})
newBGPPath      == Plan(Targets, <<"origin", "name">>, {"origin"})
newBGPTopology  == Plan({"asn"}, <<"name", "list">>, {})

runBGPIPFull  == <<"origin", "name", "details", "ptr", "ports", "list">>
runBGPASNFull == <<"name", "details", "list">>
runBGPIPMap   == <<"origin", "name">>
runBGPASNMap  == <<"name", "details", "list">>
Anything == {"ip4", "ip6", "asn", "prefix"}
newBGPFull(t) == Plan(Anything, CASE t = "asn"    -> runBGPASNFull
                                  [] t = "prefix" -> <<"prefix">>
                                  [] OTHER        -> runBGPIPFull, {"origin"})
newBGPMap(t)  == Plan(Anything \ {"prefix"}, IF t = "asn" THEN runBGPASNMap ELSE runBGPIPMap,
                      {"origin"})
newBGPVis(t)  == Plan(Anything, CASE t = "asn"    -> <<"name", "list">>
                                  [] t = "prefix" -> <<"prefix">>
                                  [] OTHER        -> <<"origin", "name">>, {"origin"})

Command(t, v) ==
  [ip |-> newBGPIP(v), asn |-> newBGPASN, prefix |-> newBGPPrefix, peers |-> newBGPPeers,
   origin |-> newBGPOrigin, name |-> newBGPName, whois |-> newBGPWhois, route |-> newBGPRoute,
   prefixes |-> newBGPPrefixList, networks |-> newBGPNetworks, export |-> newBGPExport,
   path |-> newBGPPath, topology |-> newBGPTopology, full |-> newBGPFull(t),
   map |-> newBGPMap(t), visualize |-> newBGPVis(t)]

Runs    == Command(target, verbose)[bcmd]
Refused == target \notin Runs.takes

Required(source) == source \in Runs.needs

HeedContext == {"origin", "name"}

Init == /\ target \in Targets /\ verbose \in BOOLEAN
        /\ bcmd \in DOMAIN Command(target, verbose)
        /\ plan = IF Refused THEN <<>> ELSE Runs.asks
        /\ asked = {} /\ known = {}
        /\ asn = IF target = "asn" THEN "given" ELSE ""
        /\ origin = "" /\ list = <<>> /\ route = ""
        /\ cancelled = FALSE
        /\ picture = <<>>
        /\ outcome = ""

Source == Head(plan)

SourceFails ==
  /\ plan # <<>>
  /\ asked' = asked \cup {Source}
  /\ IF Required(Source)
     THEN outcome' = "error" /\ plan' = <<>>
     ELSE plan' = Tail(plan) /\ UNCHANGED outcome
  /\ UNCHANGED <<bcmd, target, verbose, known, data, cancelled, picture>>

\* No record is found for what is no IPv4 address: reverseIP leaves it as it is.
CanAnswer == /\ Source \in HeedContext => ~cancelled
             /\ Source \in {"origin", "routes"} => target = "ip4"

\* The first answer of two servers is enough for whois; details of a prefix that name
\* a system have its name looked up, by full and visualize.
Rest(o) == CASE Source = "radb" -> <<>>
             [] Source = "prefix" /\ bcmd # "prefix" /\ o = "found" -> Tail(plan) \o <<"name">>
             [] OTHER -> Tail(plan)

Answer(a, o, l, r) ==
  /\ plan # <<>>
  /\ CanAnswer
  /\ asked' = asked \cup {Source}
  /\ known' = known \cup {Source}
  /\ asn' = CASE Source = "origin" -> a
              [] Source = "prefix" /\ o = "found" -> o
              [] OTHER -> asn
  /\ origin' = IF Source = "prefix" THEN o ELSE origin
  /\ list' = IF Source = "list" THEN l ELSE list
  /\ route' = IF Source = "details" THEN r ELSE route
  /\ plan' = Rest(o)
  /\ UNCHANGED <<bcmd, target, verbose, cancelled, picture, outcome>>

Lines == Keep(list, {i \in DOMAIN list : list[i] # Blank})
v4    == Keep(Lines, {i \in DOMAIN Lines : Lines[i] \notin V6})
v6    == Keep(Lines, {i \in DOMAIN Lines : Lines[i] \in V6})

\* Self and the node of the same system, without the names and countries; map of a
\* system adds the route of its details, an empty one too, before the list; topology
\* counts in Self and adds no node.
WithNode == AddNode([NewBGPTopology EXCEPT !.Self = SelfNode(asn, "")], asn, "")
AddAll(t, ps) ==
  LET added[i \in 0 .. Len(ps)] == IF i = 0 THEN t ELSE AddPrefix(added[i - 1], asn, ps[i])
  IN added[Len(ps)]
Added == IF target = "asn" THEN (IF bcmd = "map" THEN <<route>> \o Lines ELSE Lines)
                           ELSE (IF bcmd = "map" THEN <<>> ELSE <<"the prefix">>)
Topology ==
  IF bcmd = "topology"
  THEN [NewBGPTopology EXCEPT !.Self = [SelfNode(asn, "") EXCEPT !.count = Len(Lines)]]
  ELSE AddAll(WithNode, Added)

Draws == bcmd \in {"map", "visualize", "topology"} /\ (target = "prefix" => origin = "found")

Report == /\ plan = <<>>
          /\ outcome = ""
          /\ outcome' = IF Refused THEN "error" ELSE "printed"
          /\ picture' = IF Draws /\ outcome' = "printed" THEN <<GenerateFullMapOutput(Topology)>> ELSE <<>>
          /\ UNCHANGED <<bcmd, target, verbose, plan, asked, known, data, cancelled>>

\* The timeout, for "ip" SIGINT, too; "route" looks up without the context.
Cancel == /\ outcome = ""
          /\ ~cancelled
          /\ cancelled' = TRUE
          /\ UNCHANGED <<bcmd, target, verbose, plan, asked, known, data, picture, outcome>>

Next == \/ \E a \in Found, o \in {"", "junk", "found"}, l \in Lists, r \in {"", "route"} :
             Answer(a, o, l, r)
        \/ SourceFails \/ Report \/ Cancel

Spec == Init /\ [][Next]_cmdVars

-----------------------------------------------------------------------------
Sources == {"origin", "name", "details", "list", "prefix", "routes", "radb", "ripe", "ptr", "ports"}

TypeOK == /\ bcmd \in DOMAIN Command(target, verbose) /\ target \in Targets
          /\ plan \in Seq(Sources)
          /\ known \subseteq asked /\ asked \subseteq Sources
          /\ asn \in Found \cup {"", "given", "found"}
          /\ origin \in {"", "junk", "found"} /\ route \in {"", "route"}
          /\ list \in Lists \cup {<<>>}
          /\ cancelled \in BOOLEAN /\ outcome \in {"", "printed", "error"}

\* A report is printed although details, names, ports and, but for the commands that
\* print nothing else, lists are missing, but never without the source it is about; a
\* command that takes its argument only fails when a source it asked does.  RIPE is
\* asked when RADB fails, only.  A list is split without loss.  The map of topology
\* counts the prefixes of the list, and a drawing of any other command marks the system
\* that was found or given.
CommandsJustified ==
  LET lost      == asked \ known
      addresses == {"ip", "origin", "route", "path"}
  IN /\ outcome = "printed" => /\ lost \cap {"origin", "routes", "ripe"} = {}
                               /\ "list" \in lost => bcmd \in {"ip", "asn", "full", "map", "visualize", "topology"}
                               /\ asn = "" => bcmd \in {"whois", "route"} \/ target = "prefix" \/ bcmd = "prefix"
     /\ outcome = "error" => lost # {} \/ (asked = {} /\ bcmd \notin addresses \cup {"whois", "prefix"})
     /\ "ripe" \in asked => "radb" \in lost
     /\ Len(v4) + Len(v6) = Len(Lines)
     /\ picture # <<>> =>
          LET drawing == picture[1]
          IN IF bcmd = "topology" THEN drawing.ascii.prefixes = Len(Lines)
                                  ELSE drawing.mermaid.self = {asn}

=============================================================================
