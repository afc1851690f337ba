-------------------------------- MODULE RPKI --------------------------------
(***************************************************************************)
(* RPKI validity (pkg/network/rpki.go) and the commands that show it: "bgp *)
(* rpki", "routinator", "show", "v6" and "coverage" of cmd/cli/bgp.go.  A  *)
(* prefix is a record of its place in the order of strings, its mask and   *)
(* its family.  A definition marked MISTAKE is a wrong version of the one  *)
(* that follows.                                                           *)
(***************************************************************************)
EXTENDS Integers, Sequences, FiniteSets, SequencesExt, Ordering

CONSTANTS Lists,   \* lines one read of the whois connection returns: prefixes and Empty
          Bodies,  \* lists of rows [prefix, validity] a validator answers with
          Empty,   \* a line that is blank
          Fail     \* no connection, no answer, or an answer that cannot be parsed

VARIABLES
  rcmd,        \* the command
  pc,          \* what it does next
  lines,       \* history: the text of the whois server
  v4, v6,      \* the prefixes of each family, sorted; their validity is in merged
  answers,     \* history: answers of the validators, in order
  merged,      \* validity of the prefixes that have got one
  validity,    \* rpki, routinator: the validity shown
  stats,       \* RPKIStats, NoStats before
  outcome      \* "", "printed" or "error"

rpkiVars == <<rcmd, pc, lines, v4, v6, answers, merged, validity, stats, outcome>>

NoStats  == [total |-> -1]
BarWidth == 50

\* A command: what it asks first, whether it asks for the rows of the validators, and
\* whether it computes statistics.
Plan(asks, rows, sums) == [asks |-> asks, rows |-> rows, sums |-> sums]
newBGPShow        == Plan("list", FALSE, TRUE)
newBGPV6          == Plan("list", FALSE, FALSE)
newBGPCoverage    == Plan("list", TRUE, TRUE)
newBGPRPKI        == Plan("ripe", FALSE, FALSE)
newBGPTRoutinator == Plan("ripe", FALSE, FALSE)

Command == [show |-> newBGPShow, v6 |-> newBGPV6, coverage |-> newBGPCoverage,
            rpki |-> newBGPRPKI, routinator |-> newBGPTRoutinator]
Runs == Command[rcmd]

Init == /\ rcmd \in DOMAIN Command
        /\ pc = Runs.asks
        /\ lines = <<>> /\ v4 = <<>> /\ v6 = <<>>
        /\ answers = <<>>
        /\ merged = <<>>
        /\ validity = ""
        /\ stats = NoStats
        /\ outcome = ""

Return(verdict) == pc' = "done" /\ outcome' = verdict

-----------------------------------------------------------------------------
\* FetchRPKIFromRIPE asks two validators; without a status from either the validity
\* is "not_found", and the error its callers look at never comes.
Judge(reply) ==
  /\ pc \in {"ripe", "gin"}
  /\ answers' = Append(answers, reply)
  /\ IF reply = Fail /\ pc = "ripe"
     THEN pc' = "gin" /\ UNCHANGED <<validity, outcome>>
     ELSE Return("printed") /\ validity' = IF reply = Fail THEN "not_found" ELSE reply
  /\ UNCHANGED <<rcmd, lines, v4, v6, merged, stats>>

-----------------------------------------------------------------------------
Before(p, q) == p.mask < q.mask \/ (p.mask = q.mask /\ p.place < q.place)

\* The places of the lines that are taken.
Distinct_All(text) == {i \in DOMAIN text : text[i] # Empty}   \* MISTAKE: keeps repetitions
Distinct(text) == {i \in DOMAIN text : text[i] # Empty /\ \A j \in 1 .. i - 1 : text[j] # text[i]}
Family(text, six) == {i \in Distinct(text) : text[i].v6 = six}

\* sort.Slice, which may leave equal lines in any order.
Earlier(text, i, j) == Before(text[i], text[j]) \/ (text[i] = text[j] /\ i < j)
Sort(text, P) == Arrange(text, P, {e \in P \X P : Earlier(text, e[1], e[2])})

\* FetchFullPrefixList: each line once, by family, sorted by mask and name.
List(text) ==
  /\ pc = "list"
  /\ lines' = IF text = Fail THEN <<>> ELSE text
  /\ IF text \in {Fail, <<>>}
     THEN Return("error") /\ UNCHANGED <<v4, v6>>
     ELSE /\ v4' = Sort(text, Family(text, FALSE))
          /\ v6' = Sort(text, Family(text, TRUE))
          /\ pc' = IF Runs.rows THEN "roa" ELSE "sum"
          /\ UNCHANGED outcome
  /\ UNCHANGED <<rcmd, answers, merged, validity, stats>>

\* The validity of a prefix in a map that holds the last row of each prefix.
RowsOf(rows, p)  == {i \in DOMAIN rows : rows[i].prefix = p}
LastRow(rows, p) == rows[CHOOSE i \in RowsOf(rows, p) : \A j \in RowsOf(rows, p) : j <= i]
Merge_Any(rows) ==                                  \* MISTAKE: of every prefix with a row
  [p \in {rows[i].prefix : i \in DOMAIN rows} |-> LastRow(rows, p).validity]
Merge(rows) ==
  [p \in {q \in Range(v4 \o v6) : RowsOf(rows, q) # {}} |-> LastRow(rows, p).validity]

HasRows(reply) == reply \notin {Fail, <<>>}

\* FetchRPKIByASN: the rows of the first of two validators that has any; coverage
\* ignores its error.
Validate(reply) ==
  /\ pc \in {"roa", "roagin"}
  /\ answers' = Append(answers, reply)
  /\ IF HasRows(reply)
     THEN merged' = Merge(reply) /\ pc' = "sum"
     ELSE pc' = (IF pc = "roa" THEN "roagin" ELSE "sum") /\ UNCHANGED merged
  /\ UNCHANGED <<rcmd, lines, v4, v6, validity, stats, outcome>>

\* "" for a prefix whose validity nobody has filled in.
ValidityOf(p) == IF p \in DOMAIN merged THEN merged[p] ELSE ""

Class(v) == CASE v \in {"valid", "validating"} -> "valid"
              [] v \in {"invalid", "invalid-maxlength", "invalid-asn", "invalid-length"} -> "invalid"
              [] v = "unknown" -> "unknown"
              [] OTHER -> "notFound"

Count(all, class) == Cardinality({i \in DOMAIN all : Class(ValidityOf(all[i])) = class})

\* ComputeRPKIStats.
Compute == /\ pc = "sum"
           /\ LET all == v4 \o v6
              IN stats' = IF ~Runs.sums THEN NoStats
                          ELSE [total |-> Len(all), valid |-> Count(all, "valid"),
                                invalid |-> Count(all, "invalid"),
                                unknown |-> Count(all, "unknown"),
                                notFound |-> Count(all, "notFound")]
           /\ Return("printed")
           /\ UNCHANGED <<rcmd, lines, v4, v6, answers, merged, validity>>

\* How long the filled part of the bar of coverage may be: the truncated product of
\* rounded quotients is one short of a whole number at times, and exact only at the two
\* ends.  strings.Repeat panics when it, or what is left of the bar, is negative.
Exact(s) == (s.valid * BarWidth) \div s.total
Rounds(s) == s.valid \in 1 .. s.total - 1 /\ (s.valid * BarWidth) % s.total = 0
Filled(s) == IF s.total = 0 THEN {0}
             ELSE IF Rounds(s) THEN {Exact(s) - 1, Exact(s)} ELSE {Exact(s)}

Next == \/ \E reply \in {"valid", "invalid", Fail} : Judge(reply)
        \/ \E text \in Lists \cup {Fail} : List(text)
        \/ \E reply \in Bodies \cup {Fail} : Validate(reply)
        \/ Compute

Spec == Init /\ [][Next]_rpkiVars

-----------------------------------------------------------------------------
TypeOK == /\ rcmd \in DOMAIN Command
          /\ pc \in {"ripe", "gin", "list", "roa", "roagin", "sum", "done"}
          /\ \A p \in Range(v4) : ~p.v6
          /\ \A p \in Range(v6) : p.v6
          /\ DOMAIN merged \subseteq Range(v4 \o v6)
          /\ validity \in {"", "valid", "invalid", "not_found"}
          /\ outcome \in {"", "printed", "error"}

Sorted(s) == \A i \in DOMAIN s : i > 1 => Before(s[i - 1], s[i])

\* The statistics count every prefix of the text once and in one class, so that the
\* bar can be drawn, also of no prefix; a prefix is valid when the last row about it
\* in the first answer with rows says so; the validity of one prefix is "not found" when
\* both validators failed, only.
StatsAddUp ==
  LET all == v4 \o v6
      counts(i) == HasRows(answers[i]) /\ \A j \in 1 .. i - 1 : ~HasRows(answers[j])
      says(p) == \E i \in DOMAIN answers :
                   /\ counts(i)
                   /\ RowsOf(answers[i], p) # {}
                   /\ Class(LastRow(answers[i], p).validity) = "valid"
  IN /\ Sorted(v4) /\ Sorted(v6)
     /\ pc = "sum" => Range(all) = Range(lines) \ {Empty}
     /\ stats # NoStats =>
          /\ stats.total = Cardinality(Range(lines) \ {Empty})
          /\ stats.total = stats.valid + stats.invalid + stats.unknown + stats.notFound
          /\ Filled(stats) \subseteq 0 .. BarWidth
          /\ stats.valid = Cardinality({p \in Range(all) : says(p)})
     /\ rcmd \in {"rpki", "routinator"} =>
          /\ outcome # "error"
          /\ (validity = "not_found") <=> (answers = <<Fail, Fail>>)

=============================================================================
