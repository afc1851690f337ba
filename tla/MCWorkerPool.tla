---------------------------- MODULE MCWorkerPool ----------------------------
(* Instances of WorkerPool for TLC. *)
EXTENDS WorkerPool, TLC

CONSTANTS g1, g2, g3, g4, j1, j2, j3, owner, client

Gs == {g1, g2}
Gs4 == {g1, g2, g3, g4}
Js == {j1, j2}
Js3 == {j1, j2, j3}
Cs == {owner, client}

\* Any two calls by each of two callers.
AnyScripts == [Cs -> {<<a, b>> : a, b \in Methods}]

\* One caller starts the pool and shuts it down, the other submits.
OwnerScripts == {[c \in Cs |-> IF c = owner THEN <<"Start", stop>>
                                            ELSE <<"Submit", "Submit">>] :
                    stop \in {"Shutdown", "ShutdownWait"}}

\* As above with ShutdownWait, perhaps after a Shutdown, or nobody shuts the pool down;
\* the owner submits, too.
FairScripts == {[c \in Cs |-> IF c = owner THEN <<"Start", "Submit">> \o last
                                           ELSE <<"Submit", "Submit">>] :
                    last \in {<<>>, <<"ShutdownWait">>, <<"Shutdown", "ShutdownWait">>}}

ASSUME FairAssumption == \A s \in FairScripts : OneOwner(owner, s)

Symmetry == Permutations(Gs4) \cup Permutations(Js)
=============================================================================
