--------------------------- MODULE SubdomainTree ---------------------------
(***************************************************************************)
(* "subdomain recursive" and "subdomain enum" of cmd/cli/subdomain.go.     *)
(* recursive starts a goroutine for each name of the first level; it looks *)
(* the name up and, when it resolves, the names below it, three levels     *)
(* deep.  enum starts one that looks through a flat list and one that asks *)
(* crt.sh, which answers nothing so far.  All of them store what resolves  *)
(* in one sync.Map.  A name is the sequence of its prefixes, the one next  *)
(* to the domain first.  A definition marked MISTAKE is a wrong version of *)
(* the one that follows.                                                   *)
(***************************************************************************)
EXTENDS FanOutParameters

Depth == 3

VARIABLES
  cmd,         \* "recursive" or "enum"
  todo,        \* the names each goroutine still means to look up, next one first
  busy,        \* it has looked at the context and waits for the resolver
  cancelled,   \* ctx.Err() # nil
  names,       \* the keys of subdomains or allSubdomains
  looked,      \* history: names whose lookup returned
  reported     \* the report is printed, of all keys

treeVars == <<cmd, todo, busy, cancelled, names, looked, reported>>

First == [i \in DOMAIN Level1 |-> <<Level1[i]>>]
Under(n) == [i \in DOMAIN Below |-> Append(n, Below[i])]

\* Goroutines are numbered; in enum the first has the list and the second is crt.sh.
Init == /\ cmd \in {"recursive", "enum"}
        /\ todo = IF cmd = "recursive" THEN [g \in DOMAIN Level1 |-> <<First[g]>>]
                                       ELSE <<First, <<>>>>
        /\ busy = [g \in DOMAIN todo |-> FALSE]
        /\ cancelled = FALSE
        /\ names = {} /\ looked = {}
        /\ reported = FALSE

Current(g) == Head(todo[g])

Heeds(n) == cmd = "enum" \/ Len(n) > 1

\* if ctx.Err() != nil, before every lookup but those of the first level of recursive.
GiveUp(g) == /\ todo[g] # <<>> /\ ~busy[g]
             /\ cancelled /\ Heeds(Current(g))
             /\ todo' = [todo EXCEPT ![g] = <<>>]
             /\ UNCHANGED <<cmd, busy, cancelled, names, looked, reported>>

Begin(g) == /\ todo[g] # <<>> /\ ~busy[g]
            /\ ~(cancelled /\ Heeds(Current(g)))
            /\ busy' = [busy EXCEPT ![g] = TRUE]
            /\ UNCHANGED <<cmd, todo, cancelled, names, looked, reported>>

Deeper_Always(n, ok) == cmd = "recursive" /\ Len(n) < Depth  \* MISTAKE: below what fails, too
Deeper(n, ok) == ok /\ cmd = "recursive" /\ Len(n) < Depth

\* net.LookupHost answers: store the name, and look below it before the next one.
Resolve(g, ok) ==
  LET n == Current(g)
  IN /\ busy[g]
     /\ looked' = looked \cup {n}
     /\ names' = IF ok THEN names \cup {n} ELSE names
     /\ todo' = [todo EXCEPT ![g] = (IF Deeper(n, ok) THEN Under(n) ELSE <<>>) \o Tail(@)]
     /\ busy' = [busy EXCEPT ![g] = FALSE]
     /\ UNCHANGED <<cmd, cancelled, reported>>

Waited == \A g \in DOMAIN todo : todo[g] = <<>>

\* wg.Wait, then Range over the map.
Report == /\ Waited
          /\ reported' = TRUE
          /\ UNCHANGED <<cmd, todo, busy, cancelled, names, looked>>

Cancel == /\ ~cancelled
          /\ cancelled' = TRUE
          /\ UNCHANGED <<cmd, todo, busy, names, looked, reported>>

Lookups(g) == GiveUp(g) \/ Begin(g) \/ \E ok \in BOOLEAN : Resolve(g, ok)

Next == ~reported /\ ((\E g \in DOMAIN todo : Lookups(g)) \/ Report \/ Cancel)

Spec == Init /\ [][Next]_treeVars

-----------------------------------------------------------------------------
\* Names are up to three prefixes long; a goroutine waits for a name it has.
TypeOK == /\ cmd \in {"recursive", "enum"}
          /\ \A g \in DOMAIN todo : /\ todo[g] \in Seq(Seq(STRING))
                                    /\ busy[g] => todo[g] # <<>>
          /\ names \subseteq looked
          /\ \A n \in looked : Len(n) \in 1 .. Depth
          /\ cancelled \in BOOLEAN /\ reported \in BOOLEAN

Parent(n) == SubSeq(n, 1, Len(n) - 1)
Pending   == UNION {{todo[g][i] : i \in DOMAIN todo[g]} : g \in DOMAIN todo}

\* The names reported form a tree whatever is cancelled; without a cancel every name
\* of the first level and every name under one that resolves, and no other, is looked
\* up; recursive looks its first level up even after a cancel.
TreeComplete ==
  /\ \A n \in looked : Len(n) > 1 => Parent(n) \in names
  /\ reported /\ (~cancelled \/ cmd = "recursive")
       => \A i \in DOMAIN First : First[i] \in looked
  /\ reported /\ ~cancelled /\ cmd = "recursive"
       => \A n \in names : Len(n) < Depth => \A i \in DOMAIN Below : Under(n)[i] \in looked
  /\ reported => Pending = {}

=============================================================================
