------------------------------ MODULE Registry ------------------------------
(***************************************************************************)
(* The plugin registry of pkg/plugin.  It has no lock, so its callers take *)
(* turns; but a plugin that ExecuteAll calls may register and unregister   *)
(* plugins while ExecuteAll ranges over the map.  Go then skips a plugin   *)
(* that is removed before its turn, and visits one that is added or not,   *)
(* also when it was visited under that name before.  A definition marked   *)
(* MISTAKE is a wrong version of the one that follows.                     *)
(***************************************************************************)
EXTENDS LookupParameters, FiniteSets

VARIABLES
  plugins,    \* registered plugins: version by name
  ranging,    \* ExecuteAll runs
  unseen,     \* names the range has yet to produce
  current,    \* the name whose Execute runs
  cancelled,  \* ctx.Err() # nil
  results,    \* what ExecuteAll returns
  rejected,   \* history: names whose Validate said no
  stayed,     \* history: names registered since ExecuteAll began
  again,      \* history: names added since
  writes      \* calls so far

regVars == <<plugins, ranging, unseen, current, cancelled, results, rejected, stayed, again,
             writes>>
walk    == <<ranging, current, cancelled, results, rejected>>

Init == /\ plugins = [n \in {} |-> Nobody]
        /\ ranging = FALSE /\ cancelled = FALSE
        /\ unseen = {} /\ rejected = {} /\ stayed = {} /\ again = {}
        /\ current = Nobody
        /\ results = <<>>
        /\ writes = 0

\* The caller's turn, or a plugin's that is being executed.
MayWrite == (ranging => current # Nobody) /\ writes < MaxWrites /\ writes' = writes + 1

Taken(n) == n \in DOMAIN plugins

\* An error, and no change, when the name is taken.
Register(n, v) ==
  /\ MayWrite
  /\ IF Taken(n)
     THEN UNCHANGED <<plugins, unseen, stayed, again>>
     ELSE /\ plugins' = [m \in DOMAIN plugins \cup {n} |-> IF m = n THEN v ELSE plugins[m]]
          /\ unseen' \in IF ranging THEN {unseen, unseen \cup {n}} ELSE {unseen}
          /\ again' = IF ranging THEN again \cup {n} ELSE again
          /\ UNCHANGED stayed
  /\ UNCHANGED walk

Unregister(n) == /\ MayWrite
                 /\ plugins' = [m \in DOMAIN plugins \ {n} |-> plugins[m]]
                 /\ unseen' = unseen \ {n}
                 /\ stayed' = stayed \ {n}
                 /\ UNCHANGED <<walk, again>>

ExecuteAll == /\ ~ranging
              /\ ranging' = TRUE
              /\ unseen' = DOMAIN plugins
              /\ stayed' = DOMAIN plugins
              /\ again' = {} /\ rejected' = {} /\ results' = <<>>
              /\ UNCHANGED <<plugins, current, cancelled, writes>>

\* The range produces a plugin; Validate lets it run or not.
Visit(n, valid) == /\ ranging /\ current = Nobody
                   /\ n \in unseen
                   /\ ~cancelled
                   /\ unseen' = unseen \ {n}
                   /\ current' = IF valid THEN n ELSE Nobody
                   /\ rejected' = IF valid THEN rejected ELSE rejected \cup {n}
                   /\ UNCHANGED <<plugins, ranging, cancelled, results, stayed, again, writes>>

\* Execute returns, with an error or without; its result is kept either way.
Executed(failed) == /\ ranging /\ current # Nobody
                    /\ results' = Append(results, [name |-> current, failed |-> failed])
                    /\ current' = Nobody
                    /\ UNCHANGED <<plugins, ranging, unseen, cancelled, rejected, stayed, again,
                                   writes>>

\* The range is over, or the context is done at its next step.
Over_Failed == unseen = {} \/ \E i \in DOMAIN results : results[i].failed  \* MISTAKE: a failure ends it
Over == unseen = {} \/ cancelled

Return == /\ ranging /\ current = Nobody
          /\ Over
          /\ ranging' = FALSE
          /\ unseen' = {}
          /\ UNCHANGED <<plugins, current, cancelled, results, rejected, stayed, again, writes>>

Cancel == /\ ~cancelled
          /\ cancelled' = TRUE
          /\ UNCHANGED <<plugins, ranging, unseen, current, results, rejected, stayed, again,
                         writes>>

Next == \/ \E n \in Names : \/ \E v \in Versions : Register(n, v)
                            \/ Unregister(n)
                            \/ \E valid \in BOOLEAN : Visit(n, valid)
        \/ ExecuteAll \/ Return \/ Cancel
        \/ \E failed \in BOOLEAN : Executed(failed)

Spec == Init /\ [][Next]_regVars

-----------------------------------------------------------------------------
TypeOK == /\ DOMAIN plugins \subseteq Names
          /\ \A n \in DOMAIN plugins : plugins[n] \in Versions
          /\ current \in Names \cup {Nobody}
          /\ results \in Seq([name : Names, failed : BOOLEAN])
          /\ unseen \cup rejected \cup stayed \cup again \subseteq Names
          /\ ranging \in BOOLEAN /\ cancelled \in BOOLEAN

Ran == {results[i].name : i \in DOMAIN results} \cup ({current} \ {Nobody})

\* Only a plugin added while ExecuteAll runs is executed twice; one that stays
\* registered gets its turn, be it after failures of others, unless the context is
\* done; what is still to come is registered.
EveryPluginRuns ==
  /\ \A i, j \in DOMAIN results : i # j /\ results[i].name = results[j].name
                                    => results[i].name \in again
  /\ stayed \subseteq DOMAIN plugins /\ unseen \subseteq DOMAIN plugins
  /\ ~cancelled => stayed \ unseen \subseteq Ran \cup rejected
  /\ ~ranging => unseen = {}
=============================================================================
