-------------------------- MODULE LookupParameters --------------------------
(* The parameters of DNSQuery, ASNLookup and Registry, and what is assumed of them. *)
EXTENDS Integers, Sequences

CONSTANTS ServerLists,  \* lists a DNS command may ask: the three default servers, one of --dns
          RecordLists,  \* records of the type asked for that one answer may hold, in order
          BulkLists,    \* addresses LookupBulkIPs is given; others are given the first
          Texts,        \* what one read of a whois connection may return
          Origins,      \* TXT records of an address: system, prefix, country, ...
          ASAnswers,    \* TXT records of a system one answer may hold: system, country,
                        \* registry, date, name
          Words,        \* texts that are no number, the empty one too
          Beyond,       \* numbers of more than 32 bits
          Fail,         \* no connection, or no TXT record
          Names,        \* what plugins are called
          Versions,     \* plugins that share a name
          Nobody,       \* no plugin is running
          MaxWrites     \* bound: calls of Register and Unregister

ASSUME ServersAssumption == \A s \in ServerLists : s \in Seq(STRING) /\ s # <<>>
ASSUME BulkAssumption    == \A l \in BulkLists : l \in Seq(STRING) /\ l # <<>>
ASSUME RecordsAssumption == \A rs \in RecordLists : rs \in Seq(STRING)
ASSUME TextsAssumption   == \A text \in Texts : text \in Seq([key : STRING, value : STRING])
ASSUME OriginsAssumption == \A txt \in Origins : txt \in Seq(STRING) /\ txt # <<>>
ASSUME ASAssumption      == \A txts \in ASAnswers : txts \in Seq(Seq(STRING)) /\ txts # <<>>
\* What the provers do not know of strings.
ASSUME StringAssumption  == {"", "0", "4294967295", ":", "cymru", "whois"} \subseteq STRING
ASSUME NobodyAssumption  == Nobody \notin Names

=============================================================================
