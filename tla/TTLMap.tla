------------------------------- MODULE TTLMap -------------------------------
(***************************************************************************)
(* What pkg/utils/cache.go promises its callers: a map whose entries       *)
(* expire by themselves, without a lock.  From its last instant on nobody  *)
(* reads or lists an entry, but Size counts it until it is removed, which  *)
(* happens when the cache sees fit.                                        *)
(***************************************************************************)
EXTENDS Integers, FiniteSets, Functions

CONSTANTS Keys, Values, TTLs, MaxTime, Unset

VARIABLES now,     \* the clock
          live,    \* the entries that have not expired, [value, expiration] by key
          dead,    \* the keys of those that have, and have not been removed
          answer,  \* what the last call returned; Unset for a method without a result
          asked    \* flips with each call of Delete or Clear

vars == <<now, live, dead, answer, asked>>

Init == now = 0 /\ live = <<>> /\ dead = {} /\ answer = Unset /\ asked = FALSE

Set(k, v, ttl) ==
  /\ live' = [x \in DOMAIN live \cup {k} |->
                IF x = k THEN [value |-> v, expiration |-> now + ttl] ELSE live[x]]
  /\ dead' = dead \ {k}
  /\ answer' = Unset
  /\ UNCHANGED <<now, asked>>

Forget(ks) == /\ live' = Restrict(live, DOMAIN live \ ks)
              /\ dead' = dead \ ks
              /\ asked' = ~asked
              /\ answer' = Unset
              /\ UNCHANGED now

Get(k) == /\ answer' = <<"value", IF k \in DOMAIN live THEN live[k].value ELSE Unset>>
          /\ UNCHANGED <<now, live, dead, asked>>

Size == /\ answer' = <<"size", Cardinality(DOMAIN live \cup dead)>>
        /\ UNCHANGED <<now, live, dead, asked>>

\* Keys lists what Get would find; an entry in its last instant may be left out.
List == /\ \E ks \in SUBSET DOMAIN live :
             /\ answer' = <<"keys", ks>>
             /\ \A k \in DOMAIN live \ ks : live[k].expiration = now
        /\ UNCHANGED <<now, live, dead, asked>>

\* A call without a result that changes nothing callers can see.
Stop == answer' = Unset /\ UNCHANGED <<now, live, dead, asked>>

\* What has expired is removed all at once; nothing else is.
Remove == dead' = {} /\ UNCHANGED <<now, live, answer, asked>>

Expiring == {k \in DOMAIN live : live[k].expiration < now + 1}
Advance == /\ now < MaxTime
           /\ now' = now + 1
           /\ live' = Restrict(live, DOMAIN live \ Expiring)
           /\ dead' = dead \cup Expiring
           /\ UNCHANGED <<answer, asked>>

Next == \/ \E k \in Keys, v \in Values, ttl \in TTLs : Set(k, v, ttl)
        \/ \E ks \in SUBSET Keys : Forget(ks)
        \/ \E k \in Keys : Get(k)
        \/ Size \/ List \/ Stop \/ Remove \/ Advance

Spec == Init /\ [][Next]_vars

=============================================================================
