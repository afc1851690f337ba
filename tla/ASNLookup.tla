----------------------------- MODULE ASNLookup -----------------------------
(***************************************************************************)
(* The lookups of pkg/network/asn.go: each asks the TXT records of Team    *)
(* Cymru and whois servers in an order of its own and goes on with what    *)
(* answers.  An answer is a text, a sequence of lines [key, value], or TXT *)
(* records, sequences of columns; a text without lines stands for a read   *)
(* of no bytes, and a line that names several systems for several lines.   *)
(* Numbers of systems are strings here, "0" is the one that stands for     *)
(* none.                                                                   *)
(***************************************************************************)
EXTENDS LookupParameters, Ordering

CONSTANTS IPv6   \* addresses of BulkLists that are not IPv4

NoASN == "0"

VARIABLES
  fn,        \* the function that runs
  pc,        \* the source it asks next, "done"
  given,     \* the addresses it is given
  ips,       \* those LookupIP has yet to look up, the current one first
  info,      \* ASNInfo or PrefixInfo
  out,       \* prefixes, peers, or the results of LookupBulkIPs
  heard,     \* history: which address it was, the source asked and its answer
  outcome    \* "", "ok" or "error"

asnVars == <<fn, pc, given, ips, info, out, heard, outcome>>

NoPrefix == <<"", "">>
NoInfo == [asn |-> NoASN, prefix |-> NoPrefix, name |-> "", descr |-> "", source |-> ""]
Start == [LookupIP |-> "origin", LookupBulkIPs |-> "origin", LookupASNM |-> "first",
          LookupPrefixes |-> "routes", LookupPrefixDetail |-> "detail", LookupPeers |-> "peers"]

Init == /\ fn \in DOMAIN Start
        /\ pc = Start[fn]
        /\ given \in IF fn = "LookupBulkIPs" THEN BulkLists ELSE {<<l[1]>> : l \in BulkLists}
        /\ ips = given
        /\ info = NoInfo
        /\ out = <<>> /\ heard = <<>>
        /\ outcome = ""

-----------------------------------------------------------------------------
(* Texts *)

\* ParseUint, and what it returns when nobody asks for its error.
Readable(v) == v \notin Words \cup Beyond
Number(v) == CASE v \in Words -> NoASN [] v \in Beyond -> "4294967295" [] OTHER -> v

At(text, key)   == {i \in DOMAIN text : text[i].key = key}
Said(text, key) == {i \in At(text, key) : text[i].value # ""}
FirstOf(text, P, other) == IF P = {} THEN other ELSE text[CHOOSE i \in P : \A j \in P : i <= j].value
LastOf(text, P, other)  == IF P = {} THEN other ELSE text[CHOOSE i \in P : \A j \in P : j <= i].value
Values(text, P) == LET lines == Keep(text, P) IN [i \in DOMAIN lines |-> lines[i].value]

\* The lines of routes, cut after six characters: the colon of "route6:" stays.
Routes(text) == At(text, "route") \cup At(text, "route6")
Cut(text) == [i \in DOMAIN text |->
                [key |-> text[i].key,
                 value |-> <<IF text[i].key = "route6" THEN ":" ELSE "", text[i].value>>]]

\* The lines of a kind whose value is a number.
Numbered(text, key) == {i \in At(text, key) : Readable(text[i].value)}

\* The last origin that is a number; the first route and description, as the prefix and
\* the name, that are not empty; the last description behind the name.
parseWhoisForASN(text) ==
  LET named == Said(text, "descr")
      later == {i \in At(text, "descr") : \E j \in named : j < i}
      cut   == Cut(text)
  IN [asn    |-> LastOf(text, Numbered(text, "origin"), NoASN),
      prefix |-> FirstOf(cut, {i \in Routes(text) : cut[i].value # NoPrefix}, NoPrefix),
      name   |-> FirstOf(text, named, ""),
      descr  |-> LastOf(text, later, ""),
      source |-> LastOf(text, At(text, "source"), "")]

Column(txt, n) == IF n <= Len(txt) THEN txt[n] ELSE ""

parseCymruTXT(txt) == [NoInfo EXCEPT !.asn = Number(txt[1]), !.prefix = <<"", Column(txt, 2)>>]
parseASNameTXT(txt) == Column(txt, 5)
\* Takes the second column for a prefix: in the record of a system it is the country.
parseCymruPrefixTXT(txt) == <<"", Column(txt, 2)>>

\* The first mention of a system decides what it is.
Mentions(l) == l.key \in {"import", "export"} /\ Readable(l.value) /\ l.value # NoASN
Peers(text) ==
  LET fresh(i) == \A j \in 1 .. i - 1 : Mentions(text[j]) => text[j].value # text[i].value
      said == Keep(text, {i \in DOMAIN text : Mentions(text[i]) /\ fresh(i)})
  IN [i \in DOMAIN said |-> [asn  |-> said[i].value,
                             type |-> IF said[i].key = "import" THEN "upstream" ELSE "peer"]]

-----------------------------------------------------------------------------
(* Steps *)

Turn == Len(given) - Len(ips) + 1
Hear(reply) == heard' = Append(heard, [turn |-> Turn, source |-> pc, reply |-> reply])
Return(verdict) == pc' = "done" /\ outcome' = verdict
Go(source) == pc' = source /\ UNCHANGED outcome

\* LookupIP returns to its caller, or to LookupBulkIPs, which leaves errors out.
Leave(found, result) ==
  IF fn = "LookupIP"
  THEN Return(IF found THEN "ok" ELSE "error") /\ info' = result /\ UNCHANGED <<ips, out>>
  ELSE /\ out' = IF found THEN Append(out, [ip |-> ips[1], info |-> result]) ELSE out
       /\ IF Len(ips) = 1 THEN Return("ok") /\ UNCHANGED ips
                          ELSE Go("origin") /\ ips' = Tail(ips)
       /\ info' = NoInfo

\* lookupOriginDNS: any record will do, also one that holds no number.  It fails for
\* IPv6 without asking.
AskOrigin(txt) ==
  /\ pc = "origin"
  /\ ips[1] \in IPv6 => txt = Fail
  /\ Hear(txt)
  /\ IF txt = Fail
     THEN Go("ripe") /\ UNCHANGED info
     ELSE Go("name") /\ info' = [parseCymruTXT(txt) EXCEPT !.source = "cymru"]
  /\ UNCHANGED <<fn, given, ips, out>>

NextHost == [ripe |-> "radb", radb |-> "arin", arin |-> "none"]

Usable(text) == /\ text # Fail /\ text # <<>>
                /\ parseWhoisForASN(text).asn # NoASN

\* lookupWhoisASN asks three servers until one names a system.
AskHost(text) ==
  /\ pc \in DOMAIN NextHost
  /\ Hear(text)
  /\ IF Usable(text) \/ NextHost[pc] = "none"
     THEN Leave(Usable(text),
                IF Usable(text) THEN [parseWhoisForASN(text) EXCEPT !.source = "whois"]
                                ELSE NoInfo)
     ELSE Go(NextHost[pc]) /\ UNCHANGED <<ips, info, out>>
  /\ UNCHANGED <<fn, given>>

Named(name) == IF fn = "LookupASNM" /\ name = "" THEN info ELSE [info EXCEPT !.name = name]

\* The name is known: LookupIP is done, LookupASNM goes on to its details.
NameKnown(name) == IF fn = "LookupASNM"
                   THEN Go("details") /\ info' = Named(name) /\ UNCHANGED <<ips, out>>
                   ELSE Leave(TRUE, Named(name))

\* lookupASName: the first TXT record of the system, or else whois.
AskName(txts) == /\ pc = "name"
                 /\ Hear(txts)
                 /\ IF txts = Fail THEN Go("whoisname") /\ UNCHANGED <<ips, info, out>>
                                   ELSE NameKnown(parseASNameTXT(txts[1]))
                 /\ UNCHANGED <<fn, given>>

\* lookupASNameWhois never fails: the first as-name, or none.
WhoisName(text) == IF text = Fail THEN "" ELSE FirstOf(text, At(text, "as-name"), "")

AskWhoisName(text) ==
  /\ pc \in {"first", "whoisname"}
  /\ Hear(text)
  /\ IF pc = "first" THEN Go("name") /\ info' = Named(WhoisName(text)) /\ UNCHANGED <<ips, out>>
                     ELSE NameKnown(WhoisName(text))
  /\ UNCHANGED <<fn, given>>

\* The whois part of LookupASNM: the last line of a kind wins, an empty one, too.
AskDetails(text) ==
  /\ pc = "details"
  /\ Hear(text)
  /\ info' = IF text = Fail THEN info
             ELSE [info EXCEPT !.name = LastOf(text, At(text, "as-name"), @),
                               !.descr = LastOf(text, At(text, "descr"), @), !.source = "whois"]
  /\ Return("ok")
  /\ UNCHANGED <<fn, given, ips, out>>

\* LookupPrefixDetail: the last line of a kind wins, an origin that is no number, too.
AskDetail(text) ==
  /\ pc = "detail"
  /\ Hear(text)
  /\ info' = IF text \in {Fail, <<>>} THEN info
             ELSE [NoInfo EXCEPT !.asn = Number(LastOf(text, At(text, "origin"), @)),
                                !.descr = LastOf(text, At(text, "descr"), @),
                                !.source = LastOf(text, At(text, "source"), @)]
  /\ Return(IF text \in {Fail, <<>>} THEN "error" ELSE "ok")
  /\ UNCHANGED <<fn, given, ips, out>>

AskPeers(text) ==
  /\ pc = "peers"
  /\ Hear(text)
  /\ out' = IF text \in {Fail, <<>>} THEN out ELSE Peers(text)
  /\ Return(IF text \in {Fail, <<>>} THEN "error" ELSE "ok")
  /\ UNCHANGED <<fn, given, ips, info>>

\* LookupPrefixes takes the routes, empty ones, too; when there are none it turns to the TXT records.
AskRoutes(text) ==
  /\ pc = "routes"
  /\ Hear(text)
  /\ out' = IF text = Fail THEN <<>> ELSE Values(Cut(text), Routes(text))
  /\ IF out' = <<>> THEN Go("cymru") ELSE Return("ok")
  /\ UNCHANGED <<fn, given, ips, info>>

AskCymru(txts) ==
  /\ pc = "cymru"
  /\ Hear(txts)
  /\ out' = IF txts = Fail THEN out
            ELSE LET second == [i \in DOMAIN txts |-> parseCymruPrefixTXT(txts[i])]
                 IN out \o SelectSeq(second, LAMBDA p : p # NoPrefix)
  /\ Return("ok")
  /\ UNCHANGED <<fn, given, ips, info>>

Next == \/ \E txt \in Origins \cup {Fail} : AskOrigin(txt)
        \/ \E txts \in ASAnswers \cup {Fail} : AskName(txts) \/ AskCymru(txts)
        \/ \E text \in Texts \cup {Fail} :
             \/ AskHost(text) \/ AskWhoisName(text) \/ AskDetails(text)
             \/ AskDetail(text) \/ AskPeers(text) \/ AskRoutes(text)

Spec == Init /\ [][Next]_asnVars

-----------------------------------------------------------------------------
Info == [asn : STRING, prefix : STRING \X STRING, name : STRING, descr : STRING,
         source : STRING]
Sources == {"origin", "name", "whoisname", "first", "details", "routes", "cymru", "detail",
            "peers"} \cup DOMAIN NextHost

TypeOK == /\ fn \in DOMAIN Start
          /\ given \in Seq(STRING) /\ pc \in Sources \cup {"done"}
          /\ ips \in Seq(STRING) /\ ips # <<>>
          /\ info \in Info
          /\ \A i \in DOMAIN heard : heard[i].source \in Sources
          /\ outcome \in {"", "ok", "error"}

Routing == {"origin"} \cup DOMAIN NextHost

\* What a source said of the system an address belongs to, and of the name of a system.
ASNOf(e) == IF e.reply = Fail THEN NoASN
            ELSE IF e.source = "origin" THEN Number(e.reply[1])
            ELSE parseWhoisForASN(e.reply).asn
NameOf(e) == CASE e.source = "details" -> LastOf(e.reply, At(e.reply, "as-name"), "")
               [] e.source = "name"    -> parseASNameTXT(e.reply[1])
               [] OTHER                -> WhoisName(e.reply)
TellsName(e) == /\ e.reply # Fail
                /\ NameOf(e) = "" => e.source = "details" /\ At(e.reply, "as-name") # {}

\* Who was asked about the k-th address.
Asked(k) == {i \in DOMAIN heard : heard[i].turn = k /\ heard[i].source \in Routing}

\* The first source that knows an address decides about it, and it is unknown only
\* when all four do not know it; whois answers without a system do not count, a TXT
\* record without one does.
Decided(k, result) ==
  \E i \in Asked(k) :
    /\ heard[i].reply # Fail
    /\ result.asn = ASNOf(heard[i])
    /\ result.source = IF heard[i].source = "origin" THEN "cymru" ELSE "whois"
    /\ result.source = "whois" => result.asn # NoASN
    /\ \A j \in Asked(k) \ {i} : j < i /\ ASNOf(heard[j]) = NoASN
Unknown(k) == /\ {heard[i].source : i \in Asked(k)} = Routing
              /\ \A i \in Asked(k) : ASNOf(heard[i]) = NoASN

Over == {k \in 1 .. Len(given) : k < Turn \/ outcome # ""}

\* LookupIP returns what its sources justify; LookupBulkIPs has a result for exactly
\* the addresses some source knows, in their order; LookupASNM has the name it was
\* told last; LookupPeers names each system of the text once.
SourcesUsed ==
  /\ fn = "LookupIP" /\ outcome = "ok" => Decided(1, info)
  /\ fn = "LookupIP" /\ outcome = "error" => Unknown(1)
  /\ fn = "LookupBulkIPs" =>
       LET answered == {k \in Over : ~Unknown(k)}
       IN /\ Len(out) = Cardinality(answered)
          /\ \A k \in answered :
               LET result == out[Cardinality({j \in answered : j <= k})]
               IN result.ip = given[k] /\ Decided(k, result.info)
  /\ fn = "LookupASNM" /\ outcome = "ok" =>
       \/ info.name = "" /\ \A i \in DOMAIN heard : ~TellsName(heard[i])
       \/ \E i \in DOMAIN heard : /\ TellsName(heard[i]) /\ info.name = NameOf(heard[i])
                                  /\ \A j \in DOMAIN heard : TellsName(heard[j]) => j <= i
  /\ fn = "LookupPeers" /\ outcome = "ok" =>
       LET text == heard[1].reply
       IN /\ \A i, j \in DOMAIN out : i # j => out[i].asn # out[j].asn
          /\ {out[i].asn : i \in DOMAIN out} = {text[i].value : i \in {j \in DOMAIN text : Mentions(text[j])}}
=============================================================================
