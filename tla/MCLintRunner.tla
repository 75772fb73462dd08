---------------------------- MODULE MCLintRunner ----------------------------
(* Small instances of LintRunner. *)
EXTENDS LintRunner

Task(m, h, t) == [memory |-> m, threads |-> h, tolerated |-> t]

\* Lists of up to three tasks: small ones, a large one, one of two threads, one
\* that tolerates status 1, and one that can never start.
MCTaskLists == {
    <<>>,
    <<Task(2, 1, {}), Task(9, 1, {})>>,
    <<Task(2, 1, {}), Task(2, 1, {1}), Task(2, 2, {})>>,
    <<Task(4, 1, {}), Task(3, 2, {1}), Task(1, 1, {})>>,
    <<Task(1, 1, {}), Task(3, 1, {1}), Task(1, 2, {}), Task(2, 1, {1, 2})>> }
=============================================================================
