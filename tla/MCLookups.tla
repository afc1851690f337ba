----------------------------- MODULE MCLookups -----------------------------
(***************************************************************************)
(* Instances for TLC of the lookups that run without goroutines, of the    *)
(* topology and of the plugin registry.  They share nothing, so a behavior *)
(* is about one subject, and the variables the others have to themselves   *)
(* keep Unset.                                                             *)
(***************************************************************************)
EXTENDS LookupParameters, FiniteSets, TLC

CONSTANTS Unset, Blank, NoSelf, Rows, Bodies, Found, Lists, Systems, Countries, Blocks, MaxCalls

ASSUME CountriesAssumption == "" \in Countries   \* the country of a node AddPrefix makes
ASSUME CallsAssumption == MaxCalls \in Nat

\* A prefix has a place of its own in the order of strings.
RowLines == UNION {{text[i] : i \in DOMAIN text} : text \in Rows}
Prefixes == RowLines \ {Blank}
ASSUME RowsAssumption == /\ \A text \in Rows : text \in Seq(RowLines)
                         /\ \A p \in Prefixes : p.place \in Int /\ p.mask \in Int /\ p.v6 \in BOOLEAN
                         /\ \A p, q \in Prefixes : p.place = q.place => p = q
ASSUME FoundAssumption == "" \notin Found
ASSUME ListsAssumption == \A l \in Lists : l \in Seq(STRING \cup {Blank})
ASSUME FailAssumption == Fail \notin {"valid", "invalid", "not_found"}

VARIABLES
  subject, pc, heard, outcome, cancelled,
  cmd, servers, left, records,
  fn, given, ips, info, out,
  rcmd, lines, v4, v6, answers, merged, validity, stats,
  bcmd, target, verbose, plan, asked, known, asn, origin, list, route, picture,
  topo, calls, added, drawn, panicked,
  plugins, ranging, unseen, current, results, rejected, stayed, again, writes

IPv6Address == {"b"}
IPv6Prefix  == {"p6"}

DNS      == INSTANCE DNSQuery
ASN      == INSTANCE ASNLookup WITH IPv6 <- IPv6Address
Validity == INSTANCE RPKI WITH Lists <- Rows, Empty <- Blank
BGP      == INSTANCE BGPCommands WITH V6 <- IPv6Prefix
Topology == INSTANCE BGPTopology
Plugins  == INSTANCE Registry

shared  == <<pc, heard, outcome, cancelled>>
ofDNS   == <<cmd, servers, left, records>>
ofASN   == <<fn, given, ips, info, out>>
ofRPKI  == <<rcmd, lines, v4, v6, answers, merged, validity, stats>>
ofBGP   == <<bcmd, target, verbose, plan, asked, known, asn, origin, list, route, picture>>
ofTopo  == <<topo, calls, added, drawn, panicked>>
ofNames == <<plugins, ranging, unseen, current, results, rejected, stayed, again, writes>>
vars    == <<subject, shared, ofDNS, ofASN, ofRPKI, ofBGP, ofTopo, ofNames>>

NoDNS == cmd = Unset /\ servers = Unset /\ left = Unset /\ records = Unset
NoASN == fn = Unset /\ given = Unset /\ ips = Unset /\ info = Unset /\ out = Unset
NoRPKI == /\ rcmd = Unset /\ lines = Unset /\ v4 = Unset /\ v6 = Unset /\ answers = Unset
          /\ merged = Unset /\ validity = Unset /\ stats = Unset
NoBGP == /\ bcmd = Unset /\ target = Unset /\ verbose = Unset /\ plan = Unset /\ asked = Unset
         /\ known = Unset /\ asn = Unset /\ origin = Unset /\ list = Unset /\ route = Unset
         /\ picture = Unset
NoTopo == topo = Unset /\ calls = Unset /\ added = Unset /\ drawn = Unset /\ panicked = Unset
NoNames == /\ plugins = Unset /\ ranging = Unset /\ unseen = Unset /\ current = Unset
           /\ results = Unset /\ rejected = Unset /\ stayed = Unset /\ again = Unset
           /\ writes = Unset

Init ==
  \/ /\ subject = "dns" /\ DNS!Init
     /\ NoASN /\ NoRPKI /\ NoBGP /\ NoTopo /\ NoNames
  \/ /\ subject = "asn" /\ ASN!Init /\ cancelled = Unset
     /\ NoDNS /\ NoRPKI /\ NoBGP /\ NoTopo /\ NoNames
  \/ /\ subject = "rpki" /\ Validity!Init /\ heard = Unset /\ cancelled = Unset
     /\ NoDNS /\ NoASN /\ NoBGP /\ NoTopo /\ NoNames
  \/ /\ subject = "bgp" /\ BGP!Init /\ pc = Unset /\ heard = Unset
     /\ NoDNS /\ NoASN /\ NoRPKI /\ NoTopo /\ NoNames
  \/ /\ subject = "topology" /\ Topology!Init
     /\ pc = Unset /\ heard = Unset /\ outcome = Unset /\ cancelled = Unset
     /\ NoDNS /\ NoASN /\ NoRPKI /\ NoBGP /\ NoNames
  \/ /\ subject = "plugins" /\ Plugins!Init
     /\ pc = Unset /\ heard = Unset /\ outcome = Unset
     /\ NoDNS /\ NoASN /\ NoRPKI /\ NoBGP /\ NoTopo

NextDNS  == /\ subject = "dns" /\ DNS!Next
            /\ UNCHANGED <<ofASN, ofRPKI, ofBGP, ofTopo, ofNames>>
NextASN  == /\ subject = "asn" /\ ASN!Next
            /\ UNCHANGED <<cancelled, ofDNS, ofRPKI, ofBGP, ofTopo, ofNames>>
NextRPKI == /\ subject = "rpki" /\ Validity!Next
            /\ UNCHANGED <<heard, cancelled, ofDNS, ofASN, ofBGP, ofTopo, ofNames>>
NextBGP  == /\ subject = "bgp" /\ BGP!Next
            /\ UNCHANGED <<pc, heard, ofDNS, ofASN, ofRPKI, ofTopo, ofNames>>
NextTopo == /\ subject = "topology" /\ Topology!Next
            /\ UNCHANGED <<shared, ofDNS, ofASN, ofRPKI, ofBGP, ofNames>>
NextNames == /\ subject = "plugins" /\ Plugins!Next
             /\ UNCHANGED <<pc, heard, outcome, ofDNS, ofASN, ofRPKI, ofBGP, ofTopo>>

Next == /\ NextDNS \/ NextASN \/ NextRPKI \/ NextBGP \/ NextTopo \/ NextNames
        /\ UNCHANGED subject

Spec == Init /\ [][Next]_vars

-----------------------------------------------------------------------------
\* Each subject's type invariant.
TypeOK == /\ subject = "dns"      => DNS!TypeOK
          /\ subject = "asn"      => ASN!TypeOK
          /\ subject = "rpki"     => Validity!TypeOK
          /\ subject = "bgp"      => BGP!TypeOK
          /\ subject = "topology" => Topology!TypeOK
          /\ subject = "plugins"  => Plugins!TypeOK

\* Whatever fails, a DNS command, a lookup of a system and a bgp command say what the
\* answers they have justify, and only give up when their sources do.
SourcesJustified == /\ subject = "dns" => DNS!AnswersUsed
                    /\ subject = "asn" => ASN!SourcesUsed
                    /\ subject = "bgp" => BGP!CommandsJustified

\* RPKI statistics count every prefix once.
StatsAddUp == subject = "rpki" => Validity!StatsAddUp

\* Index, nodes and diagrams of a topology agree.
TopologyConsistent == subject = "topology" => Topology!TopologyConsistent

\* ExecuteAll gives every plugin that stays its turn, and only one.
EveryPluginRuns == subject = "plugins" => Plugins!EveryPluginRuns

-----------------------------------------------------------------------------
\* The three default servers, and one of --dns.
SomeServers == {<<"s1", "s2", "s3">>, <<"s1">>}
SomeRecords == {<<>>, <<"r">>, <<"r", "q">>}

\* An address of each family, and one said twice.
SomeBulks   == {<<"a", "b">>, <<"a", "a">>}
Line(k, v)  == [key |-> k, value |-> v]
\* No lines; no system; two descriptions and an origin that is no number behind one that
\* is; names, neighbours said twice, system 0; empty lines; a number that is too large.
SomeTexts   == {<<>>, <<Line("descr", "d1")>>,
                <<Line("route6", "p6"), Line("route", "p1"), Line("descr", "d1"),
                  Line("descr", "d2"), Line("origin", "7"), Line("origin", "junk")>>,
                <<Line("as-name", "n1"), Line("import", "8"), Line("export", "9"),
                  Line("export", "8"), Line("export", "junk"), Line("origin", "0")>>,
                <<Line("descr", ""), Line("route", ""), Line("as-name", ""), Line("origin", "8")>>,
                <<Line("origin", "big"), Line("import", "big"), Line("source", "radb")>>}
SomeOrigins == {<<"7", "p1">>, <<"0", "p2">>, <<"junk">>}
\* One record, one without a name, a short one, two of them.
SomeASAnswers == {<<<<"7", "US", "arin", "2000", "n2">>>>, <<<<"7", "US", "arin", "2000", "">>>>,
                  <<<<"7">>, <<"7", "US">>>>}
SomeWords  == {"", "junk"}
SomeBeyond == {"big"}

Prefix(place, mask, six) == [place |-> place, mask |-> mask, v6 |-> six]
p1 == Prefix(1, 24, FALSE)
p2 == Prefix(2, 16, FALSE)
p3 == Prefix(3, 48, TRUE)
Row(p, v) == [prefix |-> p, validity |-> v]
\* A repetition, both families, nothing but blank lines.
SomeRows   == {<<>>, <<Blank>>, <<p1, p2, p1>>, <<p3, Blank, p1>>}
\* Two rows about one prefix, words the statistics do not know.
SomeBodies == {<<>>, <<Row(p1, "valid")>>,
               <<Row(p1, "valid"), Row(p1, "invalid-asn"), Row(p2, "validating")>>,
               <<Row(p1, "odd"), Row(p3, "unknown")>>}

SomeLists  == {<<>>, <<"p4", "p6", Blank, "odd">>}
=============================================================================
