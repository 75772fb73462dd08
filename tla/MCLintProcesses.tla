--------------------------- MODULE MCLintProcesses ---------------------------
(* Instances of LintProcesses: identifiers are interchangeable.             *)
EXTENDS LintProcesses, TLC

Interchangeable == Permutations(Numbers)
=============================================================================
