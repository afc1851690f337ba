----------------------------- MODULE MCDirBust -----------------------------
(* Instances of DirBust for TLC. *)
EXTENDS DirBust

CONSTANTS w1, w2, a, b, c

ThreePaths == <<a, b, c>>
Two == {w1, w2}
\* Both sides of 400, and the errors that are listed.
Codes == {399, 400, 401, 403}
=============================================================================
