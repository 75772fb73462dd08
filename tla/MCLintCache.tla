---------------------------- MODULE MCLintCache ----------------------------
(* Small instances of LintCache: the members of each set are interchangeable. *)
EXTENDS LintCache, TLC

MCSymmetry ==
    Permutations(Files) \cup Permutations(Runs) \cup Permutations(Contents)
    \cup Permutations(Configs)
=============================================================================
