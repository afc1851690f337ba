----------------------------- MODULE MCPortScan -----------------------------
(* Instances of PortScan for TLC. *)
EXTENDS PortScan

CONSTANTS w1, w2

ThreePorts == <<21, 80, 443>>
Two == {w1, w2}
=============================================================================
