------------------------------ MODULE DNSQuery ------------------------------
(***************************************************************************)
(* The DNS commands that ask one server after another (cmd/cli/dns.go).    *)
(* Five collect what every server answers, "soa" and "cname" stop at the   *)
(* first record, "dnssec" at the first server that answers and "zone" at   *)
(* the first that starts a transfer; "reverse" asks the system's resolver  *)
(* once.  The time each exchange may take is the time of the whole         *)
(* command.  A definition marked MISTAKE is a wrong version of the one     *)
(* that follows.                                                           *)
(***************************************************************************)
EXTENDS LookupParameters

\* What a command is after: every record of every server, the first record, or a
\* server that answers at all.
newDNSLookupCmd  == "every"
newDNSMXCmd      == "every"
newDNSNSCmd      == "every"
newDNSTXTCmd     == "every"
newDNSCAACmd     == "every"
newDNSSOACmd     == "first"
newDNSCNAMECmd   == "first"
newDNSDNSSecCmd  == "answer"
newDNSZoneCmd    == "answer"
newDNSReverseCmd == "answer"

Wants == [lookup |-> newDNSLookupCmd, mx |-> newDNSMXCmd, ns |-> newDNSNSCmd,
          txt |-> newDNSTXTCmd, caa |-> newDNSCAACmd, soa |-> newDNSSOACmd,
          cname |-> newDNSCNAMECmd, dnssec |-> newDNSDNSSecCmd, zone |-> newDNSZoneCmd,
          reverse |-> newDNSReverseCmd]
Commands == DOMAIN Wants

\* What an exchange ends with: records, an error, or no answer for all the time
\* there is.  To "zone" any connection is an answer: a transfer that the server
\* refuses, or breaks off, comes as records and an error in the channel.
NoRecords == <<>>
Replies == [kind : {"answer"}, records : RecordLists]
           \cup [kind : {"refused", "silent"}, records : {NoRecords}]

VARIABLES
  cmd,        \* the command
  servers,    \* resolveServers; the name servers of the domain for "zone"
  pc,         \* "start", "ask" or "done"
  left,       \* servers not asked yet
  cancelled,  \* ctx.Err() # nil
  heard,      \* history: the reply of each server asked
  records,    \* the records printed at the end (soa, cname, dnssec, zone: at once)
  outcome     \* "", "printed" or "error"

dnsVars == <<cmd, servers, pc, left, cancelled, heard, records, outcome>>

Init == /\ cmd \in Commands
        /\ servers \in ServerLists
        /\ pc = IF cmd \in {"reverse", "zone"} THEN "start" ELSE "ask"
        /\ left = servers
        /\ cancelled = FALSE
        /\ heard = <<>> /\ records = <<>>
        /\ outcome = ""

Return(verdict) == pc' = "done" /\ outcome' = verdict

\* reverse: net.LookupAddr, which is not given the context.
LookupAddr(names) ==
  /\ cmd = "reverse" /\ pc = "start"
  /\ records' = names
  /\ Return(IF names = NoRecords THEN "error" ELSE "printed")
  /\ UNCHANGED <<cmd, servers, left, cancelled, heard>>

\* zone: net.LookupNS.
LookupNS(ok) == /\ cmd = "zone" /\ pc = "start"
                /\ IF ok THEN pc' = "ask" /\ UNCHANGED outcome ELSE Return("error")
                /\ UNCHANGED <<cmd, servers, left, cancelled, heard, records>>

\* if ctx.Err() != nil { break }
Stop == /\ pc = "ask"
        /\ left # <<>>
        /\ cancelled
        /\ left' = <<>>
        /\ UNCHANGED <<cmd, servers, pc, cancelled, heard, records, outcome>>

Enough_Any(r) == r.kind = "answer"           \* MISTAKE: soa ends with an empty answer
Enough(r) == /\ r.kind = "answer"
             /\ Wants[cmd] = "first" => r.records # NoRecords
             /\ Wants[cmd] # "every"

\* The records of an answer that the command keeps: soa and cname the first.
Kept(r) == IF Wants[cmd] = "first" /\ r.records # NoRecords THEN <<r.records[1]>> ELSE r.records

\* c.Exchange, where a server that stays silent uses up the command's time, and t.In,
\* which has a timeout of its own.  Nobody reads the errors of a transfer's envelopes.
Exchange(r) == /\ pc = "ask"
               /\ left # <<>>
               /\ ~cancelled
               /\ cmd = "zone" => r.kind # "silent"
               /\ heard' = Append(heard, r)
               /\ records' = records \o Kept(r)
               /\ left' = IF Enough(r) THEN <<>> ELSE Tail(left)
               /\ cancelled' = (r.kind = "silent")
               /\ UNCHANGED <<cmd, servers, pc, outcome>>

Answered == \E i \in DOMAIN heard : heard[i].kind = "answer"

HasAnswer == IF Wants[cmd] = "answer" THEN Answered ELSE records # <<>>

Report == /\ pc = "ask"
          /\ left = <<>>
          /\ Return(IF HasAnswer THEN "printed" ELSE "error")
          /\ UNCHANGED <<cmd, servers, left, cancelled, heard, records>>

\* The timeout, for "lookup" SIGINT, too.
Cancel == /\ pc # "done"
          /\ ~cancelled
          /\ cancelled' = TRUE
          /\ UNCHANGED <<cmd, servers, pc, left, heard, records, outcome>>

Next == \/ \E rs \in RecordLists : LookupAddr(rs)
        \/ \E ok \in BOOLEAN : LookupNS(ok)
        \/ \E r \in Replies : Exchange(r)
        \/ Stop \/ Report \/ Cancel

Spec == Init /\ [][Next]_dnsVars

-----------------------------------------------------------------------------
AllRecords == UNION {{rs[i] : i \in DOMAIN rs} : rs \in RecordLists}

TypeOK == /\ cmd \in Commands /\ servers \in ServerLists
          /\ pc \in {"start", "ask", "done"}
          /\ left \in Seq(STRING)
          /\ cancelled \in BOOLEAN
          /\ heard \in Seq(Replies) /\ Len(heard) <= Len(servers)
          /\ records \in Seq(AllRecords)
          /\ outcome \in {"", "printed", "error"}

\* A refusal or an empty answer never keeps the next server from being asked, but
\* one silent server does: nobody after it is asked.  An error means that nobody
\* had a record (dnssec, zone: that nobody answered); what is printed are records
\* of the answers, of all of them by the commands that collect.
AnswersUsed ==
  LET Of(r) == {r.records[i] : i \in DOMAIN r.records}
      all   == UNION {Of(heard[i]) : i \in DOMAIN heard}
      out   == {records[i] : i \in DOMAIN records}
      stops == Wants[cmd] # "every" /\ Answered
  IN /\ \A i \in DOMAIN heard : heard[i].kind = "silent" => i = Len(heard)
     /\ pc = "done" /\ ~cancelled /\ heard # <<>> => Len(heard) = Len(servers) \/ stops
     /\ Wants[cmd] = "first" /\ pc = "done" /\ ~cancelled /\ Len(heard) < Len(servers)
          => records # <<>>
     /\ outcome = "error" => records = <<>> /\ (Answered => Wants[cmd] # "answer")
     /\ cmd # "reverse" => out \subseteq all
     /\ Wants[cmd] = "every" => out = all

=============================================================================
