--------------------------- MODULE AdmissionQueue ---------------------------
(***************************************************************************)
(* What an admission controller promises, with nothing said of sockets,    *)
(* processes, clocks or pressure: work is admitted strictly in order of    *)
(* arrival and only while the reservations of everything admitted fit in   *)
(* the budget together.  Work may leave the line, be turned away at its    *)
(* head or as a whole, and return its reservation at any time.             *)
(***************************************************************************)
EXTENDS Integers, Sequences, FiniteSets, Reservations

CONSTANTS
    Workers,        \* the pieces of work that ask for admission
    MaxMiB,         \* the memory budget
    Parallelism,    \* the thread budget
    BaseUsage       \* memory that is in use by nobody in Workers

VARIABLES
    memory, threads,    \* what each piece of work reserves
    waiting,            \* the line
    holders             \* the work that is admitted

vars == <<memory, threads, waiting, holders>>

Init ==
    /\ memory \in [Workers -> Nat] /\ threads \in [Workers -> Nat]
    /\ waiting \in Seq(Workers)
    /\ holders = {}

\* The reservations of the set S are within the budget.
WithinBudget(S) ==
    /\ BaseUsage + Total(memory, S) <= MaxMiB
    /\ Total(threads, S) <= Parallelism

\* The first n pieces of work of the line q, and the line behind them.
Front(q, n) == {q[i] : i \in 1 .. n}
Rest(q, n) == SubSeq(q, n + 1, Len(q))

\* The first n of the line q are admitted beside h if they fit, the next k are
\* turned away.
Serves(q, h) ==
    \E n \in 0 .. Len(q) : \E k \in 0 .. Len(q) - n :
        /\ waiting' = Rest(q, n + k)
        /\ holders' = h \cup Front(q, n)
        /\ n > 0 => WithinBudget(holders')

Arrive(w) ==
    /\ w \notin holders /\ \A i \in 1 .. Len(waiting) : waiting[i] # w
    /\ Serves(Append(waiting, w), holders)
Leave(w) ==
    \E i \in 1 .. Len(waiting) :
        /\ waiting[i] = w
        /\ Serves(SubSeq(waiting, 1, i - 1) \o Rest(waiting, i), holders)
Return(w) == w \in holders /\ Serves(waiting, holders \ {w})

Next ==
    /\ UNCHANGED <<memory, threads>>
    /\ \/ Serves(waiting, holders)
       \/ \E w \in Workers : Arrive(w) \/ Leave(w) \/ Return(w)

Spec == Init /\ [][Next]_vars

\* A line that is complete from the start and that nobody leaves.
ListNext ==
    /\ UNCHANGED <<memory, threads>>
    /\ Serves(waiting, holders) \/ \E w \in Workers : Return(w)

ListSpec == Init /\ [][ListNext]_vars

\* Safety: what the promise is for.
NeverOverBudget == holders # {} => WithinBudget(holders)
=============================================================================
