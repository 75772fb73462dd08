--------------------------- MODULE MCLintSession ----------------------------
(***************************************************************************)
(* Instances of LintSession for TLC.                                       *)
(***************************************************************************)
EXTENDS LintSession, TLC

CONSTANTS c1, c2, c3

TwoClients == {c1, c2}
ThreeClients == {c1, c2, c3}
OneRude == {c1}
PoliteSymmetry == Permutations(ThreeClients)
=============================================================================
