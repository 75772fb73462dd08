---------------------------- MODULE Reservations ----------------------------
(***************************************************************************)
(* The sum of the reservations of a set of holders.                        *)
(*                                                                         *)
(* Both admission controllers of the program add up the MiB and the        *)
(* threads their current holders reserve.  The sum is written here as the  *)
(* number of reserved units, which needs no recursion, so that facts about *)
(* it follow from the facts about cardinalities of finite sets.            *)
(***************************************************************************)
EXTENDS Integers, FiniteSets

\* The units that the holders in S reserve: <<c, 1>>, ..., <<c, amount[c]>>.
Units(amount, S) == UNION {{c} \X (1 .. amount[c]) : c \in S}

\* What the holders in S reserve altogether.
Total(amount, S) == Cardinality(Units(amount, S))

Larger(a, b) == IF a > b THEN a ELSE b
Smaller(a, b) == IF a < b THEN a ELSE b

\* The least number of the set S.
Least(S) == CHOOSE n \in S : \A m \in S : n <= m
=============================================================================
