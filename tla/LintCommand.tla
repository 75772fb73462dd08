----------------------------- MODULE LintCommand -----------------------------
(***************************************************************************)
(* A command `ag-lint` with the commands that run under it: runLintCli in  *)
(* lint-cli.ts (packages/oxlint-config/src).                               *)
(*                                                                         *)
(* The root command either lints itself or runs a script.  The script      *)
(* starts package commands, which ask the coordinator of the root for a    *)
(* lease each, and their scripts start nested commands, which use the      *)
(* lease of their package.  The coordinator is what AdmissionQueue         *)
(* promises, the tasks of a command are its phase "running".               *)
(***************************************************************************)
EXTENDS Integers, Sequences, FiniteSets

CONSTANTS
    Root,           \* the root command
    Packages,       \* the commands that the script of the root may start
    Nested,         \* the commands that the scripts of packages may start
    PackageOf,      \* the package of each nested command
    reservation,    \* the memory that each package and nested command reserves
    MaxMiB,         \* the budget
    BaseUsage       \* what the root uses itself

Commands == {Root} \cup Packages \cup Nested

ASSUME CommandsAssumption ==
    /\ IsFiniteSet(Packages) /\ IsFiniteSet(Nested)
    /\ Root \notin Packages \cup Nested /\ Packages \cap Nested = {}
    /\ PackageOf \in [Nested -> Packages]
    /\ reservation \in [Packages \cup Nested -> Nat \ {0}]
    /\ MaxMiB \in Nat /\ BaseUsage \in Nat

VARIABLES
    phase,          \* of each command
    scripted,       \* does the root run a script, or lint by itself?
    session,        \* the session of the root: "none", "open" or "closed"
    output,         \* does the directory for the output of the shards exist?
    queue,          \* the packages that wait for a lease
    leases          \* the packages that have one

vars == <<phase, scripted, session, output, queue, leases>>

\* Threads are left out: each command has as many as it asks for.
Coordinator == INSTANCE AdmissionQueue WITH
    Workers <- Commands \ {Root}, Parallelism <- Cardinality(Commands),
    memory <- reservation, threads <- [c \in Commands \ {Root} |-> 1],
    waiting <- queue, holders <- leases

Ended == {"done", "failed", "killed"}

Init ==
    /\ phase = [c \in Commands |-> "off"]
    /\ scripted \in BOOLEAN
    /\ session = "none" /\ output = FALSE
    /\ queue = <<>> /\ leases = {}

-----------------------------------------------------------------------------
Moves(c, from, to) == phase[c] = from /\ phase' = [phase EXCEPT ![c] = to]

Queued(p) == \E i \in 1 .. Len(queue) : queue[i] = p

\* Whose script starts the command c.
ParentOf(c) == IF c \in Nested THEN PackageOf[c] ELSE Root

\* Without the root, which the user starts.
Started(c) == IF c = Root THEN TRUE
              ELSE phase[ParentOf(c)] = "running" /\ (c \in Packages => scripted)

Begin(c) ==
    /\ Started(c) /\ Moves(c, "off", "starting")
    /\ UNCHANGED <<scripted, session, output, queue, leases>>

\* The arguments, the budget, the discovery of files or the start of the session
\* make runLintCli throw before it owns anything.
Reject(c) ==
    /\ Moves(c, "starting", "failed")
    /\ UNCHANGED <<scripted, session, output, queue, leases>>

-----------------------------------------------------------------------------
OpenSession ==
    /\ Moves(Root, "starting", "equipping")
    /\ session' = "open"
    /\ UNCHANGED <<scripted, output, queue, leases>>

\* The directory for the output is made and the tasks are built, if shards run.
Equip ==
    /\ Moves(Root, "equipping", "running")
    /\ output' \in {FALSE, ~scripted}
    /\ UNCHANGED <<scripted, session, queue, leases>>

\* The directory cannot be made, or no batch is small enough.
EquipFails ==
    /\ ~scripted /\ Moves(Root, "equipping", "failed")
    /\ output' \in BOOLEAN
    /\ UNCHANGED <<scripted, session, queue, leases>>

\* The command c asks for a lease; it is refused if it can never fit, and there is
\* no answer if the session is closed.
Asks(c) ==
    /\ Moves(c, "starting", "waiting")
    /\ IF session # "open" \/ BaseUsage + reservation[c] > MaxMiB
       THEN UNCHANGED <<queue, leases>> ELSE Coordinator!Arrive(c)
    /\ UNCHANGED <<scripted, session, output>>

Request(p) == p \in Packages /\ Asks(p)

\* A nested command needs no lease, but has to fit in that of its package.
\* The faulty variant asks for one.
NeedyEnter(n) == n \in Nested /\ Asks(n)
Enter(n) ==
    /\ n \in Nested /\ reservation[n] <= reservation[PackageOf[n]]
    /\ Moves(n, "starting", "running")
    /\ UNCHANGED <<scripted, session, output, queue, leases>>

\* The coordinator admits packages and turns others away.
Serve ==
    /\ session = "open" /\ Coordinator!Serves(queue, leases)
    /\ <<queue, leases>>' # <<queue, leases>>
    /\ UNCHANGED <<phase, scripted, session, output>>

\* The faulty variant goes on without the answer.
HastyGranted(p) ==
    /\ Moves(p, "waiting", "running")
    /\ UNCHANGED <<scripted, session, output, queue, leases>>
Granted(p) ==
    /\ p \in leases /\ Moves(p, "waiting", "running")
    /\ UNCHANGED <<scripted, session, output, queue, leases>>

\* The request was refused, or the session is closed.
Denied(p) ==
    /\ p \notin leases /\ ~Queued(p)
    /\ Moves(p, "waiting", "failed")
    /\ UNCHANGED <<scripted, session, output, queue, leases>>

\* The place of the command p, in the line or among the leases, is given back.
\* The faulty variant leaves it in the line.
ForgetfulFrees(p) == Coordinator!Return(p) \/ (p \notin leases /\ UNCHANGED <<queue, leases>>)
Frees(p) ==
    \/ Coordinator!Return(p) \/ Coordinator!Leave(p)
    \/ p \notin leases /\ ~Queued(p) /\ UNCHANGED <<queue, leases>>

\* A signal while the command p waits.
Cancel(p) ==
    /\ Moves(p, "waiting", "failed")
    /\ Frees(p)
    /\ UNCHANGED <<scripted, session, output>>

-----------------------------------------------------------------------------
\* The tasks of c end; a script waits for the commands that it starts.
Complete(c) ==
    /\ \A d \in Commands \ {Root} : ParentOf(d) = c => phase[d] \in Ended \cup {"off"}
    /\ Moves(c, "running", "closing")
    /\ UNCHANGED <<scripted, session, output, queue, leases>>

\* The run of the tasks is stopped: a failure, a signal, too much memory.
Stop(c) ==
    /\ Moves(c, "running", "closing")
    /\ UNCHANGED <<scripted, session, output, queue, leases>>

\* The connection to the coordinator is lost, which stops the run of the tasks.
Disconnect(p) == p \in Packages /\ p \notin leases /\ Stop(p)

\* The finally clause of a package or nested command.
Release(c) ==
    /\ c # Root /\ Moves(c, "closing", "done")
    /\ Frees(c)
    /\ UNCHANGED <<scripted, session, output>>

\* The finally clause of the root: the session is closed ...
CloseSession ==
    /\ Moves(Root, "closing", "removing")
    /\ session' = "closed" /\ queue' = <<>> /\ leases' = {}
    /\ UNCHANGED <<scripted, output>>

\* ... and the directory for the output removed, unless removing that of the
\* session has failed already.
Remove ==
    /\ \/ Moves(Root, "removing", "done") /\ output' = FALSE
       \/ Moves(Root, "removing", "failed") /\ UNCHANGED output
    /\ UNCHANGED <<scripted, session, queue, leases>>

\* A command is killed.  The system closes its connections, and those to it.
Kill(c) ==
    /\ phase[c] \notin Ended \cup {"off"}
    /\ phase' = [phase EXCEPT ![c] = "killed"]
    /\ IF c = Root
       THEN session' = "closed" /\ queue' = <<>> /\ leases' = {}
       ELSE Frees(c) /\ UNCHANGED session
    /\ UNCHANGED <<scripted, output>>

AllEnded == (\A c \in Commands : phase[c] \in Ended \cup {"off"}) /\ UNCHANGED vars

Next ==
    \/ OpenSession \/ Equip \/ EquipFails \/ Serve \/ CloseSession \/ Remove
    \/ \E c \in Commands : Begin(c) \/ Reject(c) \/ Complete(c) \/ Stop(c) \/ Kill(c)
    \/ \E c \in Commands \ {Root} : Granted(c) \/ Denied(c) \/ Cancel(c) \/ Release(c)
    \/ \E p \in Packages : Request(p) \/ Disconnect(p)
    \/ \E n \in Nested : Enter(n)
    \/ AllEnded

Spec == Init /\ [][Next]_vars

(***************************************************************************)
(* Callbacks are called and tasks come to their end.  The coordinator      *)
(* serves its queue at the latest when nobody has a lease: until then the  *)
(* head of the queue waits for ever if it has to (lint-session.ts:81-88).  *)
(***************************************************************************)
Fairness ==
    /\ WF_vars(Reject(Root) \/ OpenSession) /\ WF_vars(Equip \/ EquipFails)
    /\ WF_vars(CloseSession) /\ WF_vars(Remove)
    /\ WF_vars(leases = {} /\ Serve)
    /\ \A p \in Packages : WF_vars(Reject(p) \/ Request(p)) /\ WF_vars(Disconnect(p))
    /\ \A n \in Nested : WF_vars(Reject(n) \/ Enter(n))
    /\ \A c \in Commands : WF_vars(Complete(c))
    /\ \A c \in Commands \ {Root} : WF_vars(Granted(c)) /\ WF_vars(Denied(c)) /\ WF_vars(Release(c))

FairSpec == Spec /\ Fairness

-----------------------------------------------------------------------------
\* Whose lease the command c works under.
PermitOf(c) == IF c \in Nested THEN PackageOf[c] ELSE c

\* Safety: while the session lasts, the leases that are out fit in the budget, and
\* they cover the packages whose tasks run, and each nested command under them
\* (lint-cli.ts:206-211, 245-259).
LeasesCoverWork ==
    session = "open" =>
        /\ leases # {} => Coordinator!WithinBudget(leases)
        /\ \A c \in Commands \ {Root} : phase[c] = "running" /\ phase[PermitOf(c)] = "running" =>
               PermitOf(c) \in leases /\ reservation[c] <= reservation[PermitOf(c)]

\* Safety: a command that has ended, in whatever way, is neither in the line nor
\* among the leases, and a root that ends well leaves nothing (lint-cli.ts:294-300).
EndedHoldNothing ==
    /\ \A c \in Commands \ {Root} : phase[c] \in Ended => c \notin leases /\ ~Queued(c)
    /\ phase[Root] = "done" => session = "closed" /\ ~output /\ leases = {} /\ queue = <<>>

\* Liveness: if tasks end, every command that was begun ends, and no other is begun.
\* A script waits for its commands, and they for leases, but never for the lease that
\* the script runs under (lint-cli.ts:217, 250).
EveryCommandEnds == <>[](\A c \in Commands : phase[c] \in Ended \cup {"off"})

\* "Session sockets and permits are reclaimed at command completion/disconnection"
\* (docs/lint-execution.md:46): a root command that has ended has no session.
SessionReclaimed == phase[Root] \in Ended => session # "open"
=============================================================================
