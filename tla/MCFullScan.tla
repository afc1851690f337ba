----------------------------- MODULE MCFullScan -----------------------------
(* Instances of FullScan for TLC. *)
EXTENDS FullScan, TLC

CONSTANTS w1, w2, www, mail

TwoPorts   == <<22, 80>>
ThreePorts == <<22, 80, 443>>
Names      == <<www, mail>>
One == {w1}
Two == {w1, w2}
Symmetry == Permutations(Two)
=============================================================================
