--------------------------- MODULE QueryCommands ---------------------------
(***************************************************************************)
(* Commands that start one goroutine for each query and wait for the       *)
(* answers: "dns resolver", the WHOIS lookup of "domain whois", "info" and *)
(* "expire", "discovery all" and "port detail version".  The first two     *)
(* count the answers they read and look at the context, the third ranges   *)
(* over a channel that a closer closes, the last waits while its           *)
(* goroutines print.  A definition marked MISTAKE is a wrong version of    *)
(* the one that follows.                                                   *)
(***************************************************************************)
EXTENDS FanOutParameters

\* An answer: of use (an address, more than 100 bytes, a page, a banner), of no
\* use (no A record, 100 bytes or less), or an error.
Verdicts == {"good", "poor", "error"}

VARIABLES
  cmd,               \* the command that runs
  asking,            \* queries whose goroutine has not ended
  answers,           \* results or respCh, with room for one answer of each
  answersClosed,     \* discovery all: results is closed
  cancelled,         \* ctx.Err() # nil
  taken,             \* answers read (version: printed), in order
  raw,               \* whois: the answer kept
  outcome            \* what the command returns, "" before

queryVars == <<cmd, asking, answers, answersClosed, cancelled, taken, raw, outcome>>

Counting == cmd \in {"resolver", "whois"}
NoAnswer == [query |-> {}, verdict |-> "none"]

Init == /\ cmd \in {"resolver", "whois", "providers", "version"}
        /\ asking = Queries
        /\ answers = <<>> /\ answersClosed = FALSE
        /\ cancelled = FALSE
        /\ taken = <<>>
        /\ raw = NoAnswer
        /\ outcome = ""

-----------------------------------------------------------------------------
(* The goroutines.  Each posts one answer; the buffers have room for all. *)

Leave(q) == asking' = asking \ {q}

Post(q, v) == /\ q \in asking
              /\ Len(answers) < Cardinality(Queries)
              /\ answers' = Append(answers, [query |-> q, verdict |-> v])
              /\ Leave(q)
              /\ UNCHANGED <<cmd, answersClosed, cancelled, taken, raw, outcome>>

\* An exchange: an error, the first A record, or "no A record".
AskResolver(q, v) == cmd = "resolver" /\ Post(q, v)

\* dialTCP, the write and the read may fail; a read without an error has data.
AskWhois(q, v) == cmd = "whois" /\ Post(q, v)

\* osintHTTPGet of one provider: a page or an error.
AskProvider(q, v) == cmd = "providers" /\ v # "poor" /\ Post(q, v)

\* grabBannerTCP; a banner is printed under the mutex, an error is not.
PrintVersion(q, v) ==
  /\ cmd = "version" /\ v # "poor"
  /\ q \in asking
  /\ taken' = IF v = "error" THEN taken ELSE Append(taken, [query |-> q, verdict |-> v])
  /\ Leave(q)
  /\ UNCHANGED <<cmd, answers, answersClosed, cancelled, raw, outcome>>

\* discovery all: wg.Wait, then close(results).
CloseAnswers == /\ cmd = "providers"
                /\ asking = {}
                /\ ~answersClosed
                /\ answersClosed' = TRUE
                /\ UNCHANGED <<cmd, asking, answers, cancelled, taken, raw, outcome>>

-----------------------------------------------------------------------------
(* The command *)

More_Less == Len(taken) + 1 < Cardinality(Queries)   \* MISTAKE: one answer too few
More == Len(taken) < Cardinality(Queries)

Kept(a) == a.verdict = "good"

\* case r := <-results: whois keeps the last answer of use, since its break
\* leaves the select and not the loop.
Take == /\ answers # <<>>
        /\ Counting => More
        /\ taken' = Append(taken, Head(answers))
        /\ answers' = Tail(answers)
        /\ raw' = IF cmd = "whois" /\ Kept(Head(answers)) THEN Head(answers) ELSE raw
        /\ UNCHANGED <<cmd, asking, answersClosed, cancelled, outcome>>

\* case <-ctx.Done(): the error of the context, whatever has been read.
TimedOut == /\ Counting
            /\ More
            /\ cancelled
            /\ outcome' = "timeout"
            /\ UNCHANGED <<cmd, asking, answers, answersClosed, cancelled, taken, raw>>

Verdict == IF cmd = "whois" /\ raw = NoAnswer THEN "empty" ELSE "done"

Finish == /\ Counting => ~More
          /\ cmd = "providers" => answersClosed /\ answers = <<>>
          /\ cmd = "version" => asking = {}
          /\ outcome' = Verdict
          /\ UNCHANGED <<cmd, asking, answers, answersClosed, cancelled, taken, raw>>

\* The timeout, or a signal to "domain whois".  The other two have no context.
Cancel == /\ Counting
          /\ ~cancelled
          /\ cancelled' = TRUE
          /\ UNCHANGED <<cmd, asking, answers, answersClosed, taken, raw, outcome>>

Ask(q)  == \E v \in Verdicts : \/ AskResolver(q, v) \/ AskWhois(q, v)
                               \/ AskProvider(q, v) \/ PrintVersion(q, v)
Command == Take \/ TimedOut \/ Finish

Next == outcome = "" /\ ((\E q \in Queries : Ask(q)) \/ CloseAnswers \/ Command \/ Cancel)

Spec == Init /\ [][Next]_queryVars

-----------------------------------------------------------------------------
\* "domain expire" looks through the answer for its expiration date: it compares
\* the first 24 bytes of each line with a label of 21, which are never equal.
ExpiryCut   == 24
ExpiryLabel == 21
ExpiryFound(length) == length >= ExpiryCut /\ ExpiryCut = ExpiryLabel

-----------------------------------------------------------------------------
Answer   == [query : Queries, verdict : Verdicts]
Asked(s) == {s[i].query : i \in DOMAIN s}

TypeOK == /\ cmd \in {"resolver", "whois", "providers", "version"}
          /\ asking \subseteq Queries
          /\ answers \in Seq(Answer) /\ taken \in Seq(Answer)
          /\ raw \in Answer \cup {NoAnswer}
          /\ answersClosed \in BOOLEAN /\ cancelled \in BOOLEAN
          /\ outcome \in {"", "timeout", "empty", "done"}

\* Nobody's answer is lost or read twice while it is waited for, and what the
\* command returns is what the answers justify: "done" when everybody has
\* answered (and not when the first answer of use has come), with the last answer
\* of use; "empty" when nobody had one; an error of the context only after a
\* cancel and before the last answer.
AnswersJustified ==
  LET all == taken \o answers
  IN /\ \A i, j \in DOMAIN all : i # j => all[i].query # all[j].query
     /\ cmd # "version" => Asked(all) = Queries \ asking
     /\ outcome \in {"done", "empty"}
          => asking = {} /\ (cmd # "version" => Asked(taken) = Queries)
     /\ cmd = "whois" /\ outcome = "done"
          => \E i \in DOMAIN taken :
               /\ taken[i] = raw /\ raw.verdict = "good"
               /\ \A j \in DOMAIN taken : j > i => taken[j].verdict # "good"
     /\ outcome = "empty" => \A i \in DOMAIN taken : taken[i].verdict # "good"
     /\ outcome = "timeout" => cancelled /\ Asked(taken) # Queries

=============================================================================
