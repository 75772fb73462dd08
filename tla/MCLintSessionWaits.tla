------------------------ MODULE MCLintSessionWaits --------------------------
(***************************************************************************)
(* The instance of LintSessionWaits for TLC.                               *)
(***************************************************************************)
EXTENDS LintSessionWaits, TLC

CONSTANTS c1, c2, c3

ThreeClients == {c1, c2, c3}
PoliteSymmetry == Permutations(ThreeClients)
=============================================================================
