---------------------------- MODULE LintProcesses ----------------------------
(***************************************************************************)
(* The processes of one run of lint tasks and how they are signalled: the  *)
(* functions observeProcesses, track, cleanupDescendants, stop and finish  *)
(* of lint-runner.ts (packages/oxlint-config/src) on Linux.                *)
(*                                                                         *)
(* The system gives the identifiers of processes that have ended to new    *)
(* ones, of this run or not.  It does so cyclically, so that no identifier *)
(* is given again while one handler of the supervisor runs: a handler is   *)
(* one action, and the table changes between handlers.                     *)
(***************************************************************************)
EXTENDS Integers

CONSTANTS
    Numbers,        \* process identifiers
    Nobody,         \* the parent of processes that the supervisor cannot reach
    Newest          \* bound: the last start time

ASSUME NobodyAssumption == Nobody \notin Numbers
ASSUME NewestAssumption == Newest \in Nat

VARIABLES
    table,          \* the process table
    clock,          \* the present time
    phase,          \* of the run: "running", "stopping" or "settled"
    more,           \* are there tasks that have not started?
    active,         \* the children that are not closed
    descendants,    \* the start time of each process that was observed, or 0
    armed,          \* the groups with an escalation timer
    harmed          \* history: the signals that hit a process of somebody else

vars == <<table, clock, phase, more, active, descendants, armed, harmed>>

Times == 0 .. Newest

\* A child of the supervisor that has ended stays in the table until it is closed.
Process == [state : {"free", "alive", "ended"}, started : Times,
            parent : Numbers \cup {Nobody}, group : Numbers \cup {Nobody}, own : BOOLEAN]

Free == [state |-> "free", started |-> 0, parent |-> Nobody, group |-> Nobody, own |-> FALSE]

Init ==
    /\ table = [n \in Numbers |-> Free] /\ clock = 0
    /\ phase = "running" /\ more = TRUE
    /\ active = {} /\ armed = {}
    /\ descendants = [n \in Numbers |-> 0]
    /\ harmed = {}

-----------------------------------------------------------------------------
Present(t) == {n \in Numbers : t[n].state # "free"}
Others(t) == {n \in Present(t) : ~t[n].own}

\* An identifier is unused if neither a process nor a group has it.
Unused(t) == {n \in Numbers \ Present(t) : \A m \in Numbers : t[m].group # n}

\* The processes S end in the table t, where a are the children that are not
\* closed; their own children lose their parent.
Ends(t, S, a) ==
    [n \in Numbers |->
        IF n \in S
        THEN IF n \in a THEN [t[n] EXCEPT !.state = "ended", !.parent = Nobody] ELSE Free
        ELSE IF t[n].parent \in S THEN [t[n] EXCEPT !.parent = Nobody]
        ELSE t[n]]

\* Somebody else starts a process.
Appear(n) ==
    /\ n \in Unused(table) /\ clock < Newest
    /\ clock' = clock + 1
    /\ table' = [table EXCEPT ![n] = [state |-> "alive", started |-> clock',
                                      parent |-> Nobody, group |-> n, own |-> FALSE]]
    /\ UNCHANGED <<phase, more, active, descendants, armed, harmed>>

\* The process p starts another, in its own group or in a new one.
Fork(p, n) ==
    /\ table[p].state = "alive" /\ n \in Unused(table) /\ clock < Newest
    /\ clock' = clock + 1
    /\ \E g \in {table[p].group, n} :
        table' = [table EXCEPT ![n] = [state |-> "alive", started |-> clock',
                                       parent |-> p, group |-> g, own |-> table[p].own]]
    /\ UNCHANGED <<phase, more, active, descendants, armed, harmed>>

\* A process ends, by itself or because of SIGTERM, which it may also ignore.
Exit(n) ==
    /\ table[n].state = "alive"
    /\ table' = Ends(table, {n}, active)
    /\ UNCHANGED <<clock, phase, more, active, descendants, armed, harmed>>

-----------------------------------------------------------------------------
\* observeProcesses, from each of the processes a: they and all that descend from
\* them, zombies included, as far as nobody in between has ended.
Closed(t, S) == \A n \in Numbers : t[n].parent \in S => n \in S
Tree(t, a) == {n \in Numbers : \A S \in SUBSET Numbers : a \subseteq S /\ Closed(t, S) => n \in S}

\* track(): what is known after it.
Tracked(t, a) == [n \in Numbers |-> IF n \in Tree(t, a) THEN t[n].started ELSE descendants[n]]

\* The processes that cleanupDescendants signals.
\* The faulty variant does not compare the start times.
TrustingKnown(t, d) == {n \in Present(t) : d[n] # 0}
Known(t, d) == {n \in Present(t) : d[n] = t[n].started}

Groups(t, S) == {n \in Present(t) : t[n].group \in S}

Settles(a, m, stop) == a = {} /\ (stop \/ ~m)

\* What finish() makes of the table.  Faulty: with SIGTERM.
MeekSweep(t, d) == t
Sweep(t, d) == Ends(t, Known(t, d), {})

(***************************************************************************)
(* How a handler ends: with the table t, the children a, the tasks m, what *)
(* is known d, and having called stop() if stop became true.  SIGTERM goes *)
(* to the groups of the children and to all that is known, and, once no    *)
(* child is left, SIGKILL to all that is known.                            *)
(***************************************************************************)
Leaves(t, a, m, d, stop) ==
    LET stops == stop /\ phase = "running"
        settles == Settles(a, m, stop)
    IN  /\ active' = a /\ more' = m /\ descendants' = d
        /\ phase' = IF settles THEN "settled" ELSE IF stop THEN "stopping" ELSE "running"
        /\ armed' = IF settles THEN {} ELSE IF stops THEN a ELSE armed
        /\ table' = IF settles THEN Sweep(t, d) ELSE t
        /\ harmed' = harmed
             \cup (IF stops /\ Groups(t, a) \cap Others(t) # {} THEN {"terminate"} ELSE {})
             \cup (IF (stops \/ settles) /\ Known(t, d) \cap Others(t) # {} THEN {"sweep"} ELSE {})

\* stop() with the children a.
Stops(t, a) == Leaves(t, a, more, Tracked(t, a), TRUE)

\* The table t with the children S, each the leader of a group of its own.
Spawned(t, S) ==
    [n \in Numbers |->
        IF n \in S THEN [state |-> "alive", started |-> clock + 1,
                         parent |-> Nobody, group |-> n, own |-> TRUE]
        ELSE t[n]]

\* admit() with the table t and the children a: they are observed, the run may be
\* stopped, and some tasks may start, before the run is stopped or not.
Admits(t, a) ==
    \/ clock' = clock /\ Leaves(t, a, more, Tracked(t, a), FALSE)
    \/ clock' = clock /\ Stops(t, a)
    \/ /\ more /\ clock < Newest
       /\ clock' = clock + 1
       /\ \E S \in SUBSET Unused(table) \ {{}}, m \in BOOLEAN :
           \/ Leaves(Spawned(t, S), a \cup S, m, Tracked(t, a), FALSE)
           \/ Leaves(Spawned(t, S), a \cup S, m, Tracked(Spawned(t, S), a \cup S), TRUE)

Timer == phase = "running" /\ Admits(table, active)

Abort == phase = "running" /\ Stops(table, active) /\ UNCHANGED clock

\* The close event of the child c, which has been waited for just before, and which
\* leaves the children a.
Closes(c, a) ==
    /\ c \in active /\ table[c].state = "ended"
    /\ LET t == [table EXCEPT ![c] = Free]
       IN  \/ /\ phase = "stopping"
              /\ Leaves(t, a, more, descendants, TRUE) /\ UNCHANGED clock
           \/ phase = "running" /\ Admits(t, a)

Close(c) == Closes(c, active \ {c})

\* The escalation timer of the child c: SIGKILL to the group that has its number.
Escalate(c) ==
    /\ c \in armed
    /\ armed' = armed \ {c}
    /\ table' = Ends(table, Groups(table, {c}), active)
    /\ harmed' = harmed
         \cup (IF Groups(table, {c}) \cap Others(table) # {} THEN {"escalate"} ELSE {})
    /\ UNCHANGED <<clock, phase, more, active, descendants>>

Next ==
    \/ \E n \in Numbers : \/ Appear(n) \/ Exit(n) \/ Close(n) \/ Escalate(n)
                          \/ \E p \in Numbers : Fork(p, n)
    \/ Timer \/ Abort

Spec == Init /\ [][Next]_vars

-----------------------------------------------------------------------------
TypeOK ==
    /\ table \in [Numbers -> Process] /\ clock \in Times
    /\ phase \in {"running", "stopping", "settled"} /\ more \in BOOLEAN
    /\ active \subseteq Present(table) /\ armed \subseteq Numbers
    /\ descendants \in [Numbers -> 0 .. clock]
    /\ harmed \subseteq {"terminate", "sweep", "escalate"}

\* Safety: what stop() and finish() signal, the groups of children and the processes
\* observed at any time, however often identifiers were given to others since, are
\* processes of the run (lint-runner.ts:236-247, 276-294).
SweepsSpareOthers == harmed \subseteq {"escalate"}

\* Safety: no process that was observed, and no child, outlives the run
\* (lint-runner.ts:255-261).
KnownAreSwept ==
    phase = "settled" =>
        /\ active = {}
        /\ \A n \in Numbers : table[n].state = "alive" /\ table[n].own =>
               descendants[n] # table[n].started

\* "Linux PID start identities protect against killing a reused PID"
\* (docs/lint-execution.md): no process of somebody else is signalled.
ReusedSpared == harmed = {}
=============================================================================
