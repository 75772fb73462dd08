----------------------------- MODULE LintRunner -----------------------------
(***************************************************************************)
(* The execution of one list of lint tasks under a shared budget:          *)
(* runLintTasks in packages/oxlint-config/src/lint-runner.ts.              *)
(*                                                                         *)
(* Every action is one callback of the event loop, run to the end, or one  *)
(* step of a child process.  Time passes in periods of the interval timer. *)
(* What observe() and probe() return is chosen anew at each call.          *)
(***************************************************************************)
EXTENDS Integers, Sequences, FiniteSets, Reservations

CONSTANTS
    TaskLists,      \* the lists of tasks that may be submitted
    MaxMiB,         \* budget.maxMiB
    Parallelism,    \* budget.snapshot.parallelism
    InitialUsage,   \* the first observation of the process tree, in MiB
    ProcessLimit,   \* the smallest per-process limit, in MiB
    Usages,         \* what observe() may return later
    Headrooms,      \* what the memory probe may leave, in MiB
    Cpus,           \* the parallelism that later probes may find
    MostCpus,       \* the largest of those
    Statuses,       \* how a child may end, 2 standing for a spawn error too
    Patience        \* timer periods in admissionTimeoutMs

\* A task reserves memory and threads and names the statuses it tolerates.
Tasks == [memory : Nat, threads : Nat, tolerated : SUBSET Nat]

ASSUME TaskAssumption == TaskLists \subseteq Seq(Tasks)
ASSUME BudgetAssumption ==
    /\ MaxMiB \in Nat /\ Parallelism \in Nat
    /\ InitialUsage \in Nat /\ ProcessLimit \in Nat
ASSUME PressureAssumption ==
    /\ Usages \subseteq Nat /\ Headrooms \subseteq Nat
    /\ MostCpus \in Nat /\ Cpus \subseteq 1 .. MostCpus
ASSUME StatusAssumption == Statuses \subseteq Nat /\ Patience \in Nat \ {0}

VARIABLES
    tasks,          \* the submitted list
    outcome,        \* the promise, "new" before its executor runs
    next,           \* the first task that has not been taken from the list
    active,         \* the tasks whose child has not been closed
    reservedMiB, reservedThreads,   \* the counters in state
    stopping, status,   \* state.stopping and report.status
    failed,         \* observationError is set
    blocked,        \* timer periods since blockedAt, Unblocked if undefined
    armed,          \* the tasks whose escalation timer is pending
    exit,           \* how each child ended, Running before it does
    started, completed      \* the counters of the report

vars == <<tasks, outcome, next, active, reservedMiB, reservedThreads, stopping,
          status, failed, blocked, armed, exit, started, completed>>

Unblocked == -1
Running == -1
Sigkill == 137

N == Len(tasks)
Indices == UNION {1 .. Len(list) : list \in TaskLists}
memory == [i \in 1 .. N |-> tasks[i].memory]
threads == [i \in 1 .. N |-> tasks[i].threads]

-----------------------------------------------------------------------------
Init ==
    /\ tasks \in TaskLists
    /\ outcome = "new"
    /\ next = 1
    /\ active = {}
    /\ reservedMiB = 0 /\ reservedThreads = 0
    /\ stopping = FALSE /\ status = 0
    /\ failed = FALSE
    /\ blocked = Unblocked
    /\ armed = {}
    /\ exit = [i \in 1 .. N |-> Running]
    /\ started = 0 /\ completed = 0

\* finish(): the promise settles once no child is left and none will start.
\* The faulty variant settles whenever no child is left.
FaultyFinishes(a, n, stop) == a = {}
Finishes(a, n, stop) == a = {} /\ (stop \/ n > N)

\* What finish() makes of the promise.
HastyOutcomeOf(a, n, stop, err) ==     \* faulty: rejects without waiting
    IF err THEN "rejected" ELSE IF Finishes(a, n, stop) THEN "resolved" ELSE "pending"
OutcomeOf(a, n, stop, err) ==
    IF ~Finishes(a, n, stop) THEN "pending" ELSE IF err THEN "rejected" ELSE "resolved"

\* stop() arms an escalation timer per child, finish() clears them all.
MeekArmedBy(a, n, stop) == IF Finishes(a, n, stop) THEN {} ELSE armed   \* faulty
ArmedBy(a, n, stop) ==
    IF Finishes(a, n, stop) THEN {} ELSE IF stop /\ ~stopping THEN a ELSE armed

(***************************************************************************)
(* How a handler ends: with the children a, the next task n, the counters  *)
(* m and h, and having called stop(s) if stop became true.                 *)
(***************************************************************************)
Leaves(a, n, m, h, stop, s, err) ==
    /\ active' = a /\ next' = n /\ reservedMiB' = m /\ reservedThreads' = h
    /\ armed' = ArmedBy(a, n, stop)
    /\ outcome' = OutcomeOf(a, n, stop, err)
    /\ stopping' = stop /\ status' = s /\ failed' = err

Stops(a, n, m, h, s) == Leaves(a, n, m, h, TRUE, s, failed)
Fails(a, n, m, h) == Leaves(a, n, m, h, TRUE, 3, TRUE)
GoesOn(a, n, m, h) == Leaves(a, n, m, h, stopping, status, failed)

-----------------------------------------------------------------------------
\* Faulty variant: the reservations of this run are left out of the sum.
FaultyFits(i, m, h, usage, headroom, cpus) ==
    /\ usage + memory[i] <= MaxMiB
    /\ h + threads[i] <= cpus
    /\ memory[i] <= headroom

\* Task i may start beside reservations of m MiB and h threads.
Fits(i, m, h, usage, headroom, cpus) ==
    /\ InitialUsage + m + memory[i] <= MaxMiB
    /\ usage + memory[i] <= MaxMiB
    /\ h + threads[i] <= cpus
    /\ memory[i] + Larger(0, m - Larger(0, usage - InitialUsage)) <= headroom

\* The reservations m and h with the tasks from next to i - 1 added.
MemoryUpTo(i, m) == m + Total(memory, next .. i - 1)
ThreadsUpTo(i, h) == h + Total(threads, next .. i - 1)

\* The tasks from next to i - 1 start in one go beside m and h.
StartsUpTo(i, m, h, usage, headroom, cpus) ==
    \A j \in next .. i - 1 :
        Fits(j, MemoryUpTo(j, m), ThreadsUpTo(j, h), usage, headroom, cpus)

\* Nobody can be admitted: the periods it has been so, without active tasks.
\* Faulty variant: the clock never starts.
FaultyBlockedFor(a, since) == IF a # {} THEN Unblocked ELSE since
BlockedFor(a, since) ==
    IF a # {} THEN Unblocked ELSE IF since = Unblocked THEN 0 ELSE since

(***************************************************************************)
(* admit(), called with the children a and the reservations m and h, where *)
(* since is the time for which nobody could be admitted.                   *)
(***************************************************************************)
AdmitUnobservable(a, m, h, since) ==
    /\ Fails(a, next, m, h)
    /\ blocked' = since /\ UNCHANGED started

AdmitOverBudget(a, m, h, since) ==
    /\ \E usage \in Usages : usage > MaxMiB
    /\ Stops(a, next, m, h, 3)
    /\ blocked' = since /\ UNCHANGED started

\* All remaining tasks start.
AdmitAll(a, m, h, since) ==
    /\ \E usage \in Usages, headroom \in Headrooms, cpus \in Cpus :
        /\ usage <= MaxMiB
        /\ StartsUpTo(N + 1, m, h, usage, headroom, cpus)
    /\ GoesOn(a \cup next .. N, N + 1, MemoryUpTo(N + 1, m), ThreadsUpTo(N + 1, h))
    /\ started' = started + (N + 1 - next)
    /\ blocked' = IF next <= N THEN Unblocked ELSE since

\* Faulty variant: a task that does not fit is passed over for the next one.
SkippingAdmitSome(a, m, h, since) ==
    \E i \in next .. N - 1 : \E usage \in Usages, headroom \in Headrooms, cpus \in Cpus :
        /\ usage <= MaxMiB
        /\ StartsUpTo(i, m, h, usage, headroom, cpus)
        /\ ~Fits(i, MemoryUpTo(i, m), ThreadsUpTo(i, h), usage, headroom, cpus)
        /\ Fits(i + 1, MemoryUpTo(i, m), ThreadsUpTo(i, h), usage, headroom, cpus)
        /\ GoesOn(a \cup (next .. i + 1 \ {i}), i + 2,
                  MemoryUpTo(i, m) + memory[i + 1], ThreadsUpTo(i, h) + threads[i + 1])
        /\ started' = started + (i + 1 - next)
        /\ blocked' = Unblocked

\* The tasks before i start; i has to wait, or has waited for too long.
AdmitSome(a, m, h, since) ==
    \E i \in next .. N :
        /\ \E usage \in Usages, headroom \in Headrooms, cpus \in Cpus :
            /\ usage <= MaxMiB
            /\ StartsUpTo(i, m, h, usage, headroom, cpus)
            /\ ~Fits(i, MemoryUpTo(i, m), ThreadsUpTo(i, h), usage, headroom, cpus)
        /\ LET b == a \cup next .. i - 1
           IN  /\ blocked' = BlockedFor(b, since)
               /\ IF blocked' >= Patience
                  THEN Stops(b, i, MemoryUpTo(i, m), ThreadsUpTo(i, h), 3)
                  ELSE GoesOn(b, i, MemoryUpTo(i, m), ThreadsUpTo(i, h))
        /\ started' = started + (i - next)

\* The tasks before i start; opening i's output or spawning it throws.
AdmitThrows(a, m, h, since) ==
    \E i \in next .. N :
        /\ \E usage \in Usages, headroom \in Headrooms, cpus \in Cpus :
            /\ usage <= MaxMiB
            /\ StartsUpTo(i + 1, m, h, usage, headroom, cpus)
        /\ Fails(a \cup next .. i - 1, i + 1, MemoryUpTo(i, m), ThreadsUpTo(i, h))
        /\ started' = started + (i - next)
        /\ blocked' = Unblocked

Admit(a, m, h, since) ==
    \/ AdmitUnobservable(a, m, h, since) \/ AdmitOverBudget(a, m, h, since)
    \/ AdmitAll(a, m, h, since) \/ AdmitSome(a, m, h, since) \/ AdmitThrows(a, m, h, since)

-----------------------------------------------------------------------------
\* A task that could never start: runLintTasks throws before it starts any.
Impossible ==
    \E i \in 1 .. N : \/ memory[i] + InitialUsage > MaxMiB
                      \/ threads[i] > Parallelism
                      \/ memory[i] > ProcessLimit

StartImpossible ==
    /\ outcome = "new" /\ Impossible
    /\ outcome' = "rejected"
    /\ UNCHANGED <<tasks, next, active, reservedMiB, reservedThreads, stopping,
                   status, failed, blocked, armed, exit, started, completed>>

StartEmpty ==
    /\ outcome = "new" /\ N = 0
    /\ outcome' = "resolved"
    /\ UNCHANGED <<tasks, next, active, reservedMiB, reservedThreads, stopping,
                   status, failed, blocked, armed, exit, started, completed>>

\* The caller's signal was aborted before the call.
StartAborted ==
    /\ outcome = "new" /\ ~Impossible /\ N > 0
    /\ \E s \in {130, 143} : Stops({}, next, 0, 0, s)
    /\ UNCHANGED <<tasks, blocked, exit, started, completed>>

Start ==
    /\ outcome = "new" /\ ~Impossible /\ N > 0
    /\ Admit({}, 0, 0, Unblocked)
    /\ UNCHANGED <<tasks, exit, completed>>

\* The caller's signal is aborted.
Abort ==
    /\ outcome = "pending" /\ ~stopping
    /\ \E s \in {130, 143} : Stops(active, next, reservedMiB, reservedThreads, s)
    /\ UNCHANGED <<tasks, blocked, exit, started, completed>>

\* The interval timer, one period after its last firing.
Timer ==
    /\ outcome = "pending" /\ ~stopping
    /\ Admit(active, reservedMiB, reservedThreads,
             IF blocked = Unblocked THEN Unblocked ELSE blocked + 1)
    /\ UNCHANGED <<tasks, exit, completed>>

\* The child of task i has ended with a status that stops its siblings.
Bad(i) == exit[i] # 0 /\ exit[i] \notin tasks[i].tolerated

\* The close event of the child of task i, with m and h left reserved.
Closes(i, m, h) ==
    /\ i \in active /\ exit[i] # Running
    /\ completed' = completed + 1
    /\ LET a == active \ {i}
       IN  \/ /\ stopping
              /\ GoesOn(a, next, m, h) /\ UNCHANGED <<blocked, started>>
           \/ /\ ~stopping /\ Bad(i)
              /\ Stops(a, next, m, h, exit[i]) /\ UNCHANGED <<blocked, started>>
           \/ /\ ~stopping /\ ~Bad(i)
              /\ Admit(a, m, h, blocked)
    /\ UNCHANGED <<tasks, exit>>

\* Faulty variants: the threads of a closed child stay reserved; a task is
\* admitted while the run stops.
LeakyClose(i) == Closes(i, reservedMiB - memory[i], reservedThreads)
RestartingClose(i) ==
    /\ i \in active /\ exit[i] # Running
    /\ completed' = completed + 1
    /\ Admit(active \ {i}, reservedMiB - memory[i], reservedThreads - threads[i], blocked)
    /\ UNCHANGED <<tasks, exit>>

Close(i) == Closes(i, reservedMiB - memory[i], reservedThreads - threads[i])

\* The escalation timer of the child of task i: SIGKILL, if it still runs.
Escalate(i) ==
    /\ i \in armed
    /\ armed' = armed \ {i}
    /\ exit' = [exit EXCEPT ![i] = IF @ = Running THEN Sigkill ELSE @]
    /\ UNCHANGED <<tasks, outcome, next, active, reservedMiB, reservedThreads,
                   stopping, status, failed, blocked, started, completed>>

\* A child ends by itself, at a signal or because it could not be spawned.
Exit(i) ==
    /\ i \in active /\ exit[i] = Running
    /\ \E s \in Statuses : exit' = [exit EXCEPT ![i] = s]
    /\ UNCHANGED <<tasks, outcome, next, active, reservedMiB, reservedThreads,
                   stopping, status, failed, blocked, armed, started, completed>>

Settled == outcome \in {"resolved", "rejected"}

\* The promise has settled.
Terminated == Settled /\ UNCHANGED vars

Next ==
    \/ StartImpossible \/ StartEmpty \/ StartAborted \/ Start
    \/ Abort \/ Timer
    \/ \E i \in Indices : Close(i) \/ Escalate(i) \/ Exit(i)
    \/ Terminated

Spec == Init /\ [][Next]_vars

(***************************************************************************)
(* Callbacks are called and timers fire.  An attempt to admit may leave    *)
(* everything as it was unless the clock of the blocked list runs, so only *)
(* then is the interval timer a source of progress.  Nothing is assumed of *)
(* children: one that hangs ignores SIGTERM and dies of SIGKILL only.      *)
(***************************************************************************)
Fairness ==
    /\ WF_vars(StartImpossible) /\ WF_vars(StartEmpty) /\ WF_vars(Start)
    /\ WF_vars(blocked # Unblocked /\ Timer)
    /\ \A i \in Indices : WF_vars(Close(i)) /\ WF_vars(Escalate(i))

FairSpec == Spec /\ Fairness

-----------------------------------------------------------------------------
TypeOK ==
    /\ tasks \in TaskLists
    /\ outcome \in {"new", "pending", "resolved", "rejected"}
    /\ next \in 1 .. N + 1
    /\ active \subseteq 1 .. next - 1 /\ armed \subseteq 1 .. next - 1
    /\ reservedMiB \in Nat /\ reservedThreads \in Nat
    /\ stopping \in BOOLEAN /\ failed \in BOOLEAN /\ status \in Nat
    /\ blocked \in Unblocked .. Patience
    /\ exit \in [1 .. N -> Statuses \cup {Running, Sigkill}]
    /\ started \in 0 .. N /\ completed \in 0 .. started

\* Safety: the reservations of the children that are not closed, with the
\* memory that was in use before them, stay within the budget (lines 327-332),
\* however the observations move between the handlers.
BudgetRespected ==
    active # {} => /\ InitialUsage + Total(memory, active) <= MaxMiB
                   /\ Total(threads, active) <= MostCpus

\* Safety: the two counters and the report agree with the children there are
\* (lines 359-362, 369-372, 379), across throws, failures and cancellation.
CountersExact ==
    /\ reservedMiB = Total(memory, active)
    /\ reservedThreads = Total(threads, active)
    /\ started = completed + Cardinality(active)

\* Safety: the caller regains control only when no child of the run is left and
\* no escalation is pending, also when the run failed (lines 255-268).
SettledIsQuiet == Settled => active = {} /\ armed = {}

\* Safety: a resolved report with status 0 means that every task ran to its end
\* and ended with 0 or with a status it tolerates (lines 256, 380-382).
SuccessIsComplete ==
    outcome = "resolved" /\ status = 0 =>
        /\ completed = N
        /\ \A i \in 1 .. N : exit[i] # Running /\ ~Bad(i)

\* Safety: a failure, a signal or a lack of memory is never followed by another
\* task, and the first of them decides the report's status (lines 269-274, 299).
StopIsFinal ==
    [][stopping => /\ stopping' /\ status' = status /\ failed' = failed
                   /\ active' \subseteq active /\ next' = next]_vars

\* Liveness: a run that stops settles, although children may ignore SIGTERM
\* (lines 290-292).
StopSettles == stopping ~> Settled

\* Liveness: if its children come to their end, every run settles, although
\* the pressure may never leave room for the next task (lines 333-337).
Settles == (\A i \in Indices : WF_vars(Exit(i))) => <>Settled

\* Refinement: the run admits its tasks in the order of the list and within the
\* budget; it passes over no task but one whose start throws (lines 323-343).
Admission == INSTANCE AdmissionQueue WITH
    Workers <- Indices, Parallelism <- MostCpus, BaseUsage <- InitialUsage,
    memory <- [i \in Indices |-> IF i \in 1 .. N THEN memory[i] ELSE 0],
    threads <- [i \in Indices |-> IF i \in 1 .. N THEN threads[i] ELSE 0],
    waiting <- [k \in 1 .. N + 1 - next |-> next + k - 1],
    holders <- active

AdmitsInOrder == Admission!ListSpec
=============================================================================
