---------------------------- MODULE MCLintCommand ----------------------------
(* An instance of LintCommand: three packages of which at most two fit       *)
(* together, one that can never fit, and nested commands of the first, one   *)
(* of which is larger than its package.                                      *)
EXTENDS LintCommand, TLC

CONSTANTS root, p1, p2, p3, p4, n1, n2

MCPackages == {p1, p2, p3, p4}
MCNested == {n1, n2}
MCPackageOf == n1 :> p1 @@ n2 :> p1
MCReservation ==
    [c \in Packages \cup Nested |->
        CASE c = p4 -> 9 [] c = n2 -> 4 [] c \in {p1, p2} -> 3 [] c \in {p3, n1} -> 2]
=============================================================================
