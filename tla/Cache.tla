------------------------------- MODULE Cache -------------------------------
(***************************************************************************)
(* Cache of pkg/utils/cache.go: a map under a RWMutex whose entries expire *)
(* and a goroutine that removes the expired ones now and then.  Every      *)
(* method holds the mutex from its first to its last statement and is one  *)
(* step; callers make any calls in any order.                              *)
(* A definition marked MISTAKE is a wrong version of the one that follows. *)
(***************************************************************************)
EXTENDS UtilsParameters, Functions

VARIABLES
  now,           \* time.Now()
  defaultTTL,    \* c.defaultTTL
  items,         \* c.items: the entries, [value, expiration] by key
  loop,          \* cleanup: "none", "new", "select", "done"
  stopCleanup,   \* c.stopCleanup is closed
  answer,        \* what the last call returned and of what kind it is; Unset for a
                 \* method without a result
  asked,         \* history: flips with each call of Delete or Clear
  panicked       \* the panic that ended the process, or "none"

visible == <<answer, asked>>
vars    == <<now, defaultTTL, items, loop, stopCleanup, visible, panicked>>

Init == /\ now = 0
        /\ defaultTTL \in TTLs
        /\ items = <<>>
        /\ loop = IF defaultTTL > 0 THEN "new" ELSE "none"
        /\ stopCleanup = FALSE
        /\ answer = Unset /\ asked = FALSE
        /\ panicked = "none"

Alive    == panicked = "none"
Panic(p) == panicked' = p /\ UNCHANGED <<now, defaultTTL, items, loop, stopCleanup, visible>>

-----------------------------------------------------------------------------
(* The methods *)

SetWithTTL(k, v, ttl) ==
  /\ items' = [x \in DOMAIN items \cup {k} |->
                 IF x = k THEN [value |-> v, expiration |-> now + ttl] ELSE items[x]]
  /\ answer' = Unset
  /\ UNCHANGED <<now, defaultTTL, loop, stopCleanup, asked, panicked>>

Set(k, v) == SetWithTTL(k, v, defaultTTL)

Expired_AtOnce(e) == now >= e.expiration - 1           \* MISTAKE: a tick early
Expired_Swapped(e) == now < e.expiration               \* MISTAKE: Before for After
Expired(e) == now > e.expiration                       \* After(entry.Expiration)

Get(k) == /\ answer' = <<"value", IF k \in DOMAIN items /\ now <= items[k].expiration
                                  THEN items[k].value ELSE Unset>>
          /\ UNCHANGED <<now, defaultTTL, items, loop, stopCleanup, asked, panicked>>

Delete(k) == /\ items' = Restrict(items, DOMAIN items \ {k})
             /\ asked' = ~asked
             /\ answer' = Unset
             /\ UNCHANGED <<now, defaultTTL, loop, stopCleanup, panicked>>

Clear == /\ items' = <<>>
         /\ asked' = ~asked
         /\ answer' = Unset
         /\ UNCHANGED <<now, defaultTTL, loop, stopCleanup, panicked>>

\* len(c.items): what has expired and has not been removed counts.
Size == /\ answer' = <<"size", Cardinality(DOMAIN items)>>
        /\ UNCHANGED <<now, defaultTTL, items, loop, stopCleanup, asked, panicked>>

\* Keys: time.Now().Before(v.Expiration)
ListKeys == /\ answer' = <<"keys", {k \in DOMAIN items : now < items[k].expiration}>>
            /\ UNCHANGED <<now, defaultTTL, items, loop, stopCleanup, asked, panicked>>

-----------------------------------------------------------------------------
(* cleanup *)

Interval == defaultTTL \div 2

\* time.NewTicker panics on an interval that is not positive.
CleanupStart == /\ loop = "new"
                /\ Interval > 0
                /\ loop' = "select"
                /\ UNCHANGED <<now, defaultTTL, items, stopCleanup, visible, panicked>>

CleanupPanic == loop = "new" /\ Interval = 0 /\ Panic("NewTicker")

Cleanup == /\ loop = "select"
           /\ items' = Restrict(items, {k \in DOMAIN items : ~Expired(items[k])})
           /\ UNCHANGED <<now, defaultTTL, loop, stopCleanup, visible, panicked>>

CleanupEnd == /\ loop = "select"
              /\ stopCleanup
              /\ loop' = "done"
              /\ UNCHANGED <<now, defaultTTL, items, stopCleanup, visible, panicked>>

Stop == /\ ~stopCleanup
        /\ stopCleanup' = TRUE
        /\ answer' = Unset
        /\ UNCHANGED <<now, defaultTTL, items, loop, asked, panicked>>

StopAgain == stopCleanup /\ Panic("close of closed stopCleanup")

Advance == /\ now < MaxTime
           /\ now' = now + 1
           /\ UNCHANGED <<defaultTTL, items, loop, stopCleanup, visible, panicked>>

CleanupStep == CleanupStart \/ CleanupPanic \/ Cleanup \/ CleanupEnd
Call == \/ \E k \in Keys, v \in Values : Set(k, v)
        \/ \E k \in Keys, v \in Values, ttl \in TTLs : SetWithTTL(k, v, ttl)
        \/ \E k \in Keys : Get(k) \/ Delete(k)
        \/ Clear \/ Size \/ ListKeys \/ Stop \/ StopAgain

Next == Alive /\ (Call \/ CleanupStep \/ Advance)

Spec == Init /\ [][Next]_vars

-----------------------------------------------------------------------------
\* What each variable holds.
TypeOK == /\ now \in 0 .. MaxTime /\ defaultTTL \in TTLs
          /\ DOMAIN items \subseteq Keys
          /\ \A k \in DOMAIN items : /\ items[k].value \in Values
                                     /\ items[k].expiration \in Nat
          /\ loop \in {"none", "new", "select", "done"}
          /\ stopCleanup \in BOOLEAN
          /\ \/ answer = Unset
             \/ answer[1] = "value" /\ answer[2] \in Values \cup {Unset}
             \/ answer[1] = "size"  /\ answer[2] \in Nat
             \/ answer[1] = "keys"  /\ answer[2] \subseteq Keys
          /\ asked \in BOOLEAN
          /\ panicked \in {"none", "NewTicker", "close of closed stopCleanup"}

Live     == Restrict(items, {k \in DOMAIN items : now <= items[k].expiration})
Stale(k) == k \in DOMAIN items /\ now > items[k].expiration
Dead     == {k \in DOMAIN items : Stale(k)}

\* For its callers the cache is a map whose entries expire at their time: the cleanup,
\* whenever it runs, is invisible to them but for Size, which it makes smaller.
Map == INSTANCE TTLMap WITH live <- Live, dead <- Dead
ImplementsTTLMap == Map!Spec

\* Until the cache is stopped an expired entry is removed or set anew.
Leaves(k) == ~Stale(k) \/ stopCleanup \/ defaultTTL = 0 \/ ~Alive
ExpiredLeave == \A k \in Keys : Stale(k) ~> Leaves(k)

=============================================================================
