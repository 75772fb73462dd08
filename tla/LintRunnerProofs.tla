-------------------------- MODULE LintRunnerProofs --------------------------
(***************************************************************************)
(* The budget, the counters, the finality of a stop and the silence after  *)
(* the promise has settled, for every list of tasks, every budget and      *)
(* every sequence of observations.                                         *)
(***************************************************************************)
EXTENDS LintRunner, ReservationTheorems

(***************************************************************************)
(* What one call of admit() does, whichever way it ends: it starts the     *)
(* tasks from next to i - 1, each of which fits beside those before it,    *)
(* and perhaps gives up the task i.                                        *)
(***************************************************************************)
Launches(a, m, h, i) ==
    /\ active' = a \cup (next .. i - 1)
    /\ reservedMiB' = MemoryUpTo(i, m) /\ reservedThreads' = ThreadsUpTo(i, h)
    /\ started' = started + (i - next)
    /\ next' \in i .. i + 1 /\ next' <= N + 1
    /\ \/ i = next
       \/ \E usage \in Usages, headroom \in Headrooms, cpus \in Cpus :
              StartsUpTo(i, m, h, usage, headroom, cpus)

\* The list is finite, and what its tasks reserve are numbers.
LEMMA TaskTypes ==
    ASSUME tasks \in TaskLists
    PROVE  /\ N \in Nat
           /\ \A i \in 1 .. N : memory[i] \in Nat /\ threads[i] \in Nat
           /\ \A i \in 1 .. N + 1 : /\ \A j \in 1 .. i - 1 : memory[j] \in Nat
                                    /\ \A j \in 1 .. i - 1 : threads[j] \in Nat
<1>1. tasks \in Seq(Tasks)
  BY TaskAssumption
<1>2. N \in Nat
  BY <1>1 DEF N
<1>3. ASSUME NEW i \in 1 .. N PROVE memory[i] \in Nat /\ threads[i] \in Nat
  <2>1. tasks[i] \in Tasks
    BY <1>1 DEF N
  <2> QED
    BY <2>1 DEF Tasks, memory, threads
<1> QED
  BY <1>2, <1>3

\* A run of tasks that is a part of the list is finite and reserves a number.
LEMMA RangeTotals ==
    ASSUME tasks \in TaskLists, NEW a, a \subseteq 1 .. N
    PROVE  /\ IsFiniteSet(a)
           /\ Total(memory, a) \in Nat /\ Total(threads, a) \in Nat
<1>1. N \in Nat /\ \A i \in 1 .. N : memory[i] \in Nat /\ threads[i] \in Nat
  BY TaskTypes
<1>2. IsFiniteSet(a)
  <2>1. 1 \in Int /\ N \in Int
    BY <1>1
  <2>2. IsFiniteSet(1 .. N)
    BY <2>1, FS_Interval
  <2> QED
    BY <2>2, FS_Subset
<1> HIDE DEF memory, threads
<1> QED
  BY <1>1, <1>2, TotalType

\* Started tasks add what they reserve to what the others reserve.
LEMMA RangeAdds ==
    ASSUME tasks \in TaskLists, NEW n \in 1 .. N + 1, NEW a, a \subseteq 1 .. n - 1,
           NEW i \in n .. N + 1
    PROVE  /\ Total(memory, a \cup (n .. i - 1)) = Total(memory, a) + Total(memory, n .. i - 1)
           /\ Total(threads, a \cup (n .. i - 1)) = Total(threads, a) + Total(threads, n .. i - 1)
<1>1. N \in Nat /\ \A k \in 1 .. N : memory[k] \in Nat /\ threads[k] \in Nat
  BY TaskTypes
<1> DEFINE b == n .. i - 1
<1>2. a \subseteq 1 .. N /\ b \subseteq 1 .. N /\ a \cap b = {}
  BY <1>1
<1>3. IsFiniteSet(a) /\ IsFiniteSet(b)
  BY <1>2, RangeTotals
<1>4. \A x \in a \cup b : memory[x] \in Nat
  BY <1>1, <1>2
<1>5. \A x \in a \cup b : threads[x] \in Nat
  BY <1>1, <1>2
<1> HIDE DEF b
<1>6. Total(memory, a \cup b) = Total(memory, a) + Total(memory, b)
  BY <1>2, <1>3, <1>4, TotalUnion
<1>7. Total(threads, a \cup b) = Total(threads, a) + Total(threads, b)
  BY <1>2, <1>3, <1>5, TotalUnion
<1> QED
  BY <1>6, <1>7 DEF b

\* stop() and finish() leave the promise and the escalation timers as the children
\* and the list that are left say.
LEMMA LeavesAgree ==
    ASSUME NEW a, NEW n, NEW m, NEW h, NEW stop, NEW s, NEW err,
           Leaves(a, n, m, h, stop, s, err)
    PROVE  /\ active' = a /\ next' = n /\ reservedMiB' = m /\ reservedThreads' = h
           /\ stopping' = stop
           /\ ArmedBy(active', next', stopping') = armed'
           /\ OutcomeOf(active', next', stopping', failed') = outcome'
BY DEF Leaves

\* However admit() ends, it launches a run of tasks.
LEMMA AdmitLaunches ==
    ASSUME tasks \in TaskLists, next \in 1 .. N + 1, NEW a, NEW m, NEW h, NEW since,
           started \in Nat, m \in Nat, h \in Nat,
           Admit(a, m, h, since)
    PROVE  /\ \E i \in next .. N + 1 : Launches(a, m, h, i)
           /\ ArmedBy(active', next', stopping') = armed'
           /\ OutcomeOf(active', next', stopping', failed') = outcome'
<1>0. N \in Nat /\ next \in next .. N + 1
  BY TaskTypes
<1>1. CASE AdmitUnobservable(a, m, h, since) \/ AdmitOverBudget(a, m, h, since)
  <2>1. /\ active' = a /\ next' = next /\ reservedMiB' = m /\ reservedThreads' = h
        /\ started' = started
    BY <1>1 DEF AdmitUnobservable, AdmitOverBudget, Fails, Stops, Leaves
  <2>2. next .. next - 1 = {}
    BY <1>0
  <2>3. Total(memory, {}) = 0 /\ Total(threads, {}) = 0
    BY TotalEmpty
  <2>4. Launches(a, m, h, next)
    BY <1>0, <2>1, <2>2, <2>3 DEF Launches, MemoryUpTo, ThreadsUpTo
  <2> QED
    BY <1>0, <1>1, <2>4 DEF AdmitUnobservable, AdmitOverBudget, Fails, Stops, Leaves
<1>2. CASE AdmitAll(a, m, h, since)
  <2>1. (next .. (N + 1) - 1) = next .. N
    BY <1>0
  <2>2. Launches(a, m, h, N + 1)
    BY <1>0, <1>2, <2>1 DEF AdmitAll, GoesOn, Leaves, Launches
  <2> QED
    BY <1>0, <1>2, <2>2 DEF AdmitAll, GoesOn, Leaves
<1>3. CASE AdmitSome(a, m, h, since)
  <2>1. PICK i \in next .. N :
            /\ \E usage \in Usages, headroom \in Headrooms, cpus \in Cpus :
                   StartsUpTo(i, m, h, usage, headroom, cpus)
            /\ started' = started + (i - next)
            /\ \/ Stops(a \cup (next .. i - 1), i, MemoryUpTo(i, m), ThreadsUpTo(i, h), 3)
               \/ GoesOn(a \cup (next .. i - 1), i, MemoryUpTo(i, m), ThreadsUpTo(i, h))
    BY <1>3 DEF AdmitSome
  <2>2. PICK stop, s, err : Leaves(a \cup (next .. i - 1), i, MemoryUpTo(i, m),
                                   ThreadsUpTo(i, h), stop, s, err)
    BY <2>1, Zenon DEF Stops, GoesOn
  <2>3. /\ active' = a \cup (next .. i - 1) /\ next' = i
        /\ reservedMiB' = MemoryUpTo(i, m) /\ reservedThreads' = ThreadsUpTo(i, h)
        /\ ArmedBy(active', next', stopping') = armed'
        /\ OutcomeOf(active', next', stopping', failed') = outcome'
    BY <2>2, LeavesAgree
  <2>4. Launches(a, m, h, i)
    BY <1>0, <2>1, <2>3 DEF Launches
  <2> QED
    BY <1>0, <2>3, <2>4
<1>4. CASE AdmitThrows(a, m, h, since)
  <2>1. PICK i \in next .. N :
            /\ \E usage \in Usages, headroom \in Headrooms, cpus \in Cpus :
                   StartsUpTo(i + 1, m, h, usage, headroom, cpus)
            /\ started' = started + (i - next)
            /\ Fails(a \cup (next .. i - 1), i + 1, MemoryUpTo(i, m), ThreadsUpTo(i, h))
    BY <1>4 DEF AdmitThrows
  <2>2. (next .. i - 1) \subseteq (next .. (i + 1) - 1)
    BY <1>0
  <2>3. \E usage \in Usages, headroom \in Headrooms, cpus \in Cpus :
            StartsUpTo(i, m, h, usage, headroom, cpus)
    BY <2>1, <2>2 DEF StartsUpTo
  <2>4. Launches(a, m, h, i)
    BY <1>0, <2>1, <2>3 DEF Fails, Leaves, Launches
  <2> QED
    BY <1>0, <2>1, <2>4 DEF Fails, Leaves
<1> QED
  BY <1>1, <1>2, <1>3, <1>4 DEF Admit

-----------------------------------------------------------------------------
(***************************************************************************)
(* The inductive invariant.  TypeOK and CountersExact need each other: that*)
(* the counters are numbers follows from what they count.  The budget needs*)
(* the exact counters, since admit() looks at them and not at the children.*)
(***************************************************************************)
WithinBudget(a) ==
    a # {} => /\ InitialUsage + Total(memory, a) <= MaxMiB
              /\ Total(threads, a) <= MostCpus

\* Nothing has happened before the executor of the promise runs.
Fresh ==
    outcome = "new" => /\ next = 1 /\ active = {} /\ armed = {} /\ ~stopping
                       /\ started = 0 /\ completed = 0 /\ blocked = Unblocked

\* The clock of a blocked list runs only without children and is not over yet.
Clock ==
    outcome = "pending" /\ ~stopping =>
        blocked < Patience /\ (active # {} \/ next > N => blocked = Unblocked)

\* The promise is pending as long as finish() would return early.
Open == outcome = "pending" => ~Finishes(active, next, stopping)

RunInv ==
    /\ TypeOK /\ CountersExact /\ started < next
    /\ WithinBudget(active) /\ SettledIsQuiet
    /\ Fresh /\ Clock /\ Open

\* Several tasks that start at once leave the children within the budget: the
\* last of them has been checked against all the others (lines 327-332).
LEMMA LaunchKeepsBudget ==
    ASSUME tasks \in TaskLists, next \in 1 .. N + 1, NEW a, a \subseteq 1 .. next - 1,
           WithinBudget(a), NEW i \in next .. N + 1,
           Launches(a, Total(memory, a), Total(threads, a), i)
    PROVE  WithinBudget(a \cup (next .. i - 1))
<1>0. N \in Nat /\ \A k \in 1 .. N : memory[k] \in Nat /\ threads[k] \in Nat
  BY TaskTypes
<1>1. CASE i = next
  <2>1. a \cup (next .. i - 1) = a
    BY <1>0, <1>1
  <2> QED
    BY <2>1
<1>2. CASE i # next
  <2> DEFINE j == i - 1
             b == a \cup (next .. j - 1)
  <2>1. j \in next .. N /\ j \in next .. i - 1 /\ j \in next .. N + 1
    BY <1>0, <1>2
  <2>2. PICK usage \in Usages, headroom \in Headrooms, cpus \in Cpus :
             StartsUpTo(i, Total(memory, a), Total(threads, a), usage, headroom, cpus)
    BY <1>2 DEF Launches
  <2>3. Fits(j, MemoryUpTo(j, Total(memory, a)), ThreadsUpTo(j, Total(threads, a)),
             usage, headroom, cpus)
    BY <2>1, <2>2 DEF StartsUpTo
  <2>4. /\ InitialUsage + (Total(memory, a) + Total(memory, next .. j - 1)) + memory[j] <= MaxMiB
        /\ (Total(threads, a) + Total(threads, next .. j - 1)) + threads[j] <= cpus
    BY <2>3 DEF Fits, MemoryUpTo, ThreadsUpTo
  <2>5. /\ Total(memory, b) = Total(memory, a) + Total(memory, next .. j - 1)
        /\ Total(threads, b) = Total(threads, a) + Total(threads, next .. j - 1)
    BY <2>1, RangeAdds
  <2>6. b \subseteq 1 .. N /\ j \notin b /\ a \cup (next .. i - 1) = b \cup {j}
    BY <1>0, <2>1
  <2>7. /\ IsFiniteSet(b) /\ Total(memory, b) \in Nat /\ Total(threads, b) \in Nat
        /\ memory[j] \in Nat /\ threads[j] \in Nat
    <3>1. j \in 1 .. N
      BY <1>0, <2>1
    <3> HIDE DEF b, j
    <3> QED
      BY <1>0, <2>6, <3>1, RangeTotals
  <2>8. /\ \A x \in b \cup {j} : memory[x] \in Nat
        /\ \A x \in b \cup {j} : threads[x] \in Nat
    BY <1>0, <2>1, <2>6
  <2> HIDE DEF b, j
  <2>9. Total(memory, b \cup {j}) = Total(memory, b) + memory[j]
    BY <2>6, <2>7, <2>8, TotalAdd
  <2>10. Total(threads, b \cup {j}) = Total(threads, b) + threads[j]
    BY <2>6, <2>7, <2>8, TotalAdd
  <2>11. InitialUsage + Total(memory, b \cup {j}) <= MaxMiB
    BY <2>4, <2>5, <2>7, <2>9, BudgetAssumption
  <2>12. cpus <= MostCpus /\ cpus \in Nat
    BY PressureAssumption
  <2>13. Total(threads, b \cup {j}) <= MostCpus
    BY <2>4, <2>5, <2>7, <2>10, <2>12, PressureAssumption
  <2> QED
    BY <2>6, <2>11, <2>13 DEF WithinBudget
<1> QED
  BY <1>1, <1>2

\* The tasks before a point of the list are tasks of the list, and before any
\* later point of it.
LEMMA Ranges ==
    ASSUME NEW k \in Nat, NEW n \in 1 .. k + 1, NEW p \in n .. k + 1,
           NEW a, a \subseteq 1 .. p - 1, NEW b, b \subseteq 1 .. n - 1
    PROVE  /\ p \in 1 .. k + 1 /\ a \subseteq 1 .. k
           /\ b \subseteq 1 .. p - 1 /\ b \cup (n .. p - 1) \subseteq 1 .. p - 1
<1>1. /\ p \in 1 .. k + 1
  OBVIOUS
<1>2. a \subseteq 1 .. k
  OBVIOUS
<1>3. b \subseteq 1 .. p - 1
  OBVIOUS
<1>4. (n .. p - 1) \subseteq 1 .. p - 1
  OBVIOUS
<1> QED
  BY <1>1, <1>2, <1>3, <1>4

\* A handler moves on in the list, and its children are tasks it has passed.
LEMMA HandlerRanges ==
    ASSUME N \in Nat, next \in 1 .. N + 1, armed \subseteq 1 .. next - 1,
           next' \in next .. N + 1, active' \subseteq 1 .. next' - 1
    PROVE  /\ active' \subseteq 1 .. N /\ next' \in 1 .. N + 1
           /\ armed \subseteq 1 .. next' - 1
<1> DEFINE p == next'
<1>1. p \in next .. N + 1 /\ active' \subseteq 1 .. p - 1
  OBVIOUS
<1> HIDE DEF p
<1>2. p \in 1 .. N + 1 /\ active' \subseteq 1 .. N /\ armed \subseteq 1 .. p - 1
  BY <1>1, Ranges
<1> QED
  BY <1>2 DEF p

\* The same of a handler that launches the tasks before i.
LEMMA LaunchRanges ==
    ASSUME N \in Nat, next \in 1 .. N + 1, started \in Nat, started < next,
           NEW a, a \subseteq 1 .. next - 1, NEW i \in next .. N + 1,
           active' = a \cup (next .. i - 1), started' = started + (i - next),
           next' \in i .. i + 1, next' <= N + 1
    PROVE  /\ next' \in next .. N + 1 /\ active' \subseteq 1 .. next' - 1
           /\ started' \in Nat /\ started' < next'
<1> DEFINE p == next'
<1>1. p \in i .. i + 1 /\ p <= N + 1
  OBVIOUS
<1> HIDE DEF p
<1>2. a \cup (next .. i - 1) \subseteq 1 .. i - 1 /\ i \in 1 .. N + 1
  BY Ranges
<1>3. p \in i .. N + 1 /\ p \in next .. N + 1
  BY <1>1, <1>2
<1>4. a \cup (next .. i - 1) \subseteq 1 .. p - 1
  BY <1>2, <1>3, Ranges
<1>5. started + (i - next) \in Nat /\ started + (i - next) < p
  BY <1>2, <1>3
<1> QED
  BY <1>3, <1>4, <1>5 DEF p

\* Children that are closed leave the others within the budget.
LEMMA FewerKeepBudget ==
    ASSUME tasks \in TaskLists, NEW a, a \subseteq 1 .. N, WithinBudget(a),
           NEW b, b \subseteq a
    PROVE  WithinBudget(b)
<1>0. N \in Nat /\ \A k \in 1 .. N : memory[k] \in Nat /\ threads[k] \in Nat
  BY TaskTypes
<1>1. /\ IsFiniteSet(a)
      /\ Total(memory, a) \in Nat /\ Total(threads, a) \in Nat
      /\ Total(memory, b) \in Nat /\ Total(threads, b) \in Nat
  BY RangeTotals
<1>2. \A x \in a : memory[x] \in Nat
  BY <1>0
<1>3. \A x \in a : threads[x] \in Nat
  BY <1>0
<1>4. Total(memory, b) <= Total(memory, a) /\ Total(threads, b) <= Total(threads, a)
  BY <1>1, <1>2, <1>3, TotalSubset
<1>5. ASSUME b # {}
      PROVE  /\ InitialUsage + Total(memory, b) <= MaxMiB
             /\ Total(threads, b) <= MostCpus
  <2>1. InitialUsage + Total(memory, a) <= MaxMiB /\ Total(threads, a) <= MostCpus
    BY <1>5 DEF WithinBudget
  <2>2. InitialUsage + Total(memory, b) <= MaxMiB
    BY <1>1, <1>4, <2>1, BudgetAssumption
  <2>3. Total(threads, b) <= MostCpus
    BY <1>1, <1>4, <2>1, PressureAssumption
  <2> QED
    BY <2>2, <2>3
<1> QED
  BY <1>5 DEF WithinBudget

\* A handler that leaves exact counters, children within the budget and a sound
\* clock leaves the whole invariant: finish() and stop() see to the rest.
LEMMA HandlerKeepsInv ==
    ASSUME TypeOK, UNCHANGED <<tasks, exit>>,
           next' \in next .. N + 1, active' \subseteq 1 .. next' - 1,
           reservedMiB' = Total(memory, active'),
           reservedThreads' = Total(threads, active'),
           WithinBudget(active'), completed' \in Nat, started' \in Nat,
           started' = completed' + Cardinality(active'), started' < next',
           stopping' \in BOOLEAN, failed' \in BOOLEAN, status' \in Nat,
           blocked' \in Unblocked .. Patience,
           ~stopping' => /\ blocked' < Patience
                         /\ active' # {} \/ next' > N => blocked' = Unblocked,
           ArmedBy(active', next', stopping') = armed',
           OutcomeOf(active', next', stopping', failed') = outcome'
    PROVE  RunInv'
<1>0. N \in Nat /\ next \in 1 .. N + 1 /\ tasks \in TaskLists
  BY TaskTypes DEF TypeOK
<1>1. N' = N /\ memory' = memory /\ threads' = threads
  BY DEF N, memory, threads
<1>2. active' \subseteq 1 .. N /\ next' \in 1 .. N + 1 /\ armed \subseteq 1 .. next' - 1
  <2>1. armed \subseteq 1 .. next - 1
    BY DEF TypeOK
  <2> QED
    BY <1>0, <2>1, HandlerRanges
<1>3. /\ IsFiniteSet(active')
      /\ Total(memory, active') \in Nat /\ Total(threads, active') \in Nat
  BY <1>0, <1>2, RangeTotals
<1>4. Cardinality(active') \in Nat
  BY <1>3, FS_CardinalityType
<1>5. outcome' \in {"pending", "resolved", "rejected"}
  BY DEF OutcomeOf
<1>6. armed' \subseteq 1 .. next' - 1
  <2>1. armed' \in {{}, active', armed}
    BY DEF ArmedBy
  <2> QED
    BY <1>2, <2>1
<1>7. TypeOK'
  <2>1. /\ started' \in 0 .. N /\ completed' \in 0 .. started'
    BY <1>0, <1>2, <1>4
  <2>2. exit' \in [1 .. N -> Statuses \cup {Running, Sigkill}] /\ tasks' \in TaskLists
    BY DEF TypeOK
  <2> QED
    BY <1>1, <1>2, <1>3, <1>5, <1>6, <2>1, <2>2 DEF TypeOK
<1>8. CountersExact' /\ (started < next)' /\ WithinBudget(active)'
  BY <1>1 DEF CountersExact, WithinBudget
<1>9. Finishes(active, next, stopping)' <=> Finishes(active', next', stopping')
  BY <1>1 DEF Finishes
<1>10. SettledIsQuiet' /\ Open' /\ Fresh'
  BY <1>5, <1>9 DEF SettledIsQuiet, Settled, Open, Fresh, OutcomeOf, ArmedBy, Finishes
<1>11. Clock'
  BY <1>1 DEF Clock
<1> QED
  BY <1>7, <1>8, <1>10, <1>11 DEF RunInv

\* A handler that stops the run, or runs while it stops, keeps the invariant.
LEMMA StoppingKeepsInv ==
    ASSUME TypeOK, started < next, UNCHANGED <<tasks, exit, started, blocked>>,
           NEW a, a \subseteq 1 .. next - 1, WithinBudget(a),
           completed' \in Nat, started = completed' + Cardinality(a),
           NEW s \in Nat, NEW err \in BOOLEAN,
           Leaves(a, next, Total(memory, a), Total(threads, a), TRUE, s, err)
    PROVE  RunInv'
<1>1. /\ active' = a /\ next' = next /\ stopping' = TRUE
      /\ reservedMiB' = Total(memory, a) /\ reservedThreads' = Total(threads, a)
      /\ ArmedBy(active', next', stopping') = armed'
      /\ OutcomeOf(active', next', stopping', failed') = outcome'
  BY LeavesAgree
<1>2. status' = s /\ failed' = err
  BY DEF Leaves
<1>3. next' \in next .. N + 1
  BY <1>1, TaskTypes DEF TypeOK
<1>4. started' \in Nat /\ started' < next' /\ started' = completed' + Cardinality(active')
  BY <1>1, TaskTypes DEF TypeOK
<1>5. blocked' \in Unblocked .. Patience
  BY DEF TypeOK
<1> QED
  BY <1>1, <1>2, <1>3, <1>4, <1>5, HandlerKeepsInv

\* So many children are added as tasks are launched.
LEMMA LaunchCounts ==
    ASSUME tasks \in TaskLists, NEW n \in 1 .. N + 1, NEW a, a \subseteq 1 .. n - 1,
           NEW i \in n .. N + 1
    PROVE  /\ Cardinality(a) \in Nat
           /\ Cardinality(a \cup (n .. i - 1)) = Cardinality(a) + (i - n)
<1>0. N \in Nat
  BY TaskTypes
<1> DEFINE b == n .. i - 1
<1>1. IsFiniteSet(b) /\ Cardinality(b) = i - n
  <2>1. n \in Int /\ i - 1 \in Int
    BY <1>0
  <2>2. IsFiniteSet(b) /\ Cardinality(b) = IF n > i - 1 THEN 0 ELSE (i - 1) - n + 1
    BY <2>1, FS_Interval
  <2> HIDE DEF b
  <2> QED
    BY <1>0, <2>2
<1>2. a \subseteq 1 .. N /\ a \cap b = {}
  BY <1>0
<1> HIDE DEF b
<1>3. IsFiniteSet(a) /\ Cardinality(a) \in Nat
  BY <1>2, RangeTotals, FS_CardinalityType
<1>4. Cardinality(a \cup b) = Cardinality(a) + Cardinality(b) - Cardinality({})
  BY <1>1, <1>2, <1>3, FS_Union
<1>5. Cardinality({}) = 0
  BY FS_EmptySet
<1>6. i - n \in Nat
  BY <1>0
<1>7. Cardinality(a \cup b) = Cardinality(a) + (i - n)
  BY <1>1, <1>3, <1>4, <1>5, <1>6
<1> QED
  BY <1>3, <1>7 DEF b

\* A call of admit() with exact counters, children within the budget and a sound
\* clock leaves the invariant.
LEMMA AdmitKeepsInv ==
    ASSUME TypeOK, started < next, ~stopping, UNCHANGED <<tasks, exit>>,
           NEW a, a \subseteq 1 .. next - 1, WithinBudget(a),
           completed' \in Nat, started = completed' + Cardinality(a),
           NEW since \in Unblocked .. Patience,
           a # {} \/ next > N => since = Unblocked,
           Admit(a, Total(memory, a), Total(threads, a), since)
    PROVE  RunInv'
<1> DEFINE m == Total(memory, a)
           h == Total(threads, a)
<1>0. N \in Nat /\ next \in 1 .. N + 1 /\ tasks \in TaskLists /\ started \in Nat
  BY TaskTypes DEF TypeOK
<1>1. a \subseteq 1 .. N /\ m \in Nat /\ h \in Nat
  <2>1. a \subseteq 1 .. N
    BY <1>0
  <2> QED
    BY <1>0, <2>1, RangeTotals
<1> HIDE DEF m, h
<1>2. Admit(a, m, h, since)
  BY DEF m, h
<1>3. PICK i \in next .. N + 1 : Launches(a, m, h, i)
  BY <1>0, <1>1, <1>2, AdmitLaunches
<1>4. /\ ArmedBy(active', next', stopping') = armed'
      /\ OutcomeOf(active', next', stopping', failed') = outcome'
  BY <1>0, <1>1, <1>2, AdmitLaunches
<1>5. /\ active' = a \cup (next .. i - 1) /\ started' = started + (i - next)
      /\ next' \in i .. i + 1 /\ next' <= N + 1
      /\ reservedMiB' = m + Total(memory, next .. i - 1)
      /\ reservedThreads' = h + Total(threads, next .. i - 1)
  BY <1>3 DEF Launches, MemoryUpTo, ThreadsUpTo
<1>6. reservedMiB' = Total(memory, active') /\ reservedThreads' = Total(threads, active')
  BY <1>0, <1>5, RangeAdds DEF m, h
<1>7. WithinBudget(active')
  BY <1>0, <1>3, <1>5, LaunchKeepsBudget DEF m, h
<1>8. /\ next' \in next .. N + 1 /\ active' \subseteq 1 .. next' - 1
      /\ started' \in Nat /\ started' < next'
  BY <1>0, <1>5, LaunchRanges
<1>9. started' = completed' + Cardinality(active')
  <2>1. /\ Cardinality(a) \in Nat
        /\ Cardinality(active') = Cardinality(a) + (i - next)
    BY <1>0, <1>5, LaunchCounts
  <2> QED
    BY <1>0, <1>5, <2>1
<1>10. /\ stopping' \in BOOLEAN /\ failed' \in BOOLEAN /\ status' \in Nat
  <2>0. stopping \in BOOLEAN /\ failed \in BOOLEAN /\ status \in Nat
    BY DEF TypeOK
  <2>1. \/ stopping' = TRUE /\ status' = 3 /\ failed' \in {TRUE, failed}
        \/ stopping' = stopping /\ status' = status /\ failed' = failed
    <3>1. CASE AdmitUnobservable(a, m, h, since)
      BY <3>1 DEF AdmitUnobservable, Fails, Leaves
    <3>2. CASE AdmitOverBudget(a, m, h, since)
      BY <3>2 DEF AdmitOverBudget, Stops, Leaves
    <3>3. CASE AdmitAll(a, m, h, since)
      BY <3>3 DEF AdmitAll, GoesOn, Leaves
    <3>4. CASE AdmitSome(a, m, h, since)
      BY <3>4 DEF AdmitSome, Stops, GoesOn, Leaves
    <3>5. CASE AdmitThrows(a, m, h, since)
      BY <3>5 DEF AdmitThrows, Fails, Leaves
    <3> QED
      BY <1>2, <3>1, <3>2, <3>3, <3>4, <3>5 DEF Admit
  <2>2. stopping' \in BOOLEAN /\ failed' \in BOOLEAN
    BY <2>0, <2>1, Zenon
  <2>3. status' \in Nat
    <3>1. 3 \in Nat
      OBVIOUS
    <3> QED
      BY <2>0, <2>1, <3>1, Zenon
  <2> QED
    BY <2>2, <2>3
<1>11. /\ blocked' \in Unblocked .. Patience
       /\ ~stopping' => /\ blocked' < Patience
                        /\ active' # {} \/ next' > N => blocked' = Unblocked
  <2>0. Patience \in Nat /\ Patience # 0 /\ Unblocked = -1
    BY StatusAssumption DEF Unblocked
  <2>1. CASE AdmitUnobservable(a, m, h, since) \/ AdmitOverBudget(a, m, h, since)
    BY <2>1 DEF AdmitUnobservable, AdmitOverBudget, Fails, Stops, Leaves
  <2>2. CASE AdmitAll(a, m, h, since)
    <3>1. blocked' = IF next <= N THEN Unblocked ELSE since
      BY <2>2 DEF AdmitAll
    <3>2. blocked' = Unblocked
      BY <1>0, <3>1
    <3> QED
      BY <2>0, <3>2
  <2>3. CASE AdmitSome(a, m, h, since)
    <3>1. PICK j \in next .. N :
              LET b == a \cup (next .. j - 1)
              IN  /\ blocked' = BlockedFor(b, since)
                  /\ IF blocked' >= Patience
                     THEN Stops(b, j, MemoryUpTo(j, m), ThreadsUpTo(j, h), 3)
                     ELSE GoesOn(b, j, MemoryUpTo(j, m), ThreadsUpTo(j, h))
      BY <2>3 DEF AdmitSome
    <3>2. active' = a \cup (next .. j - 1) /\ next' = j /\ blocked' = BlockedFor(active', since)
          /\ (~stopping' => ~(blocked' >= Patience))
      BY <3>1 DEF Stops, GoesOn, Leaves
    <3>3. blocked' = IF active' # {} THEN Unblocked ELSE IF since = Unblocked THEN 0 ELSE since
      BY <3>2 DEF BlockedFor
    <3>4. blocked' \in Unblocked .. Patience
      BY <2>0, <3>3
    <3> QED
      BY <1>0, <2>0, <3>2, <3>3, <3>4
  <2>4. CASE AdmitThrows(a, m, h, since)
    BY <2>0, <2>4 DEF AdmitThrows, Fails, Leaves
  <2> QED
    BY <1>2, <2>1, <2>2, <2>3, <2>4 DEF Admit
<1> QED
  BY <1>4, <1>6, <1>7, <1>8, <1>9, <1>10, <1>11, HandlerKeepsInv

-----------------------------------------------------------------------------
\* An action that touches neither the list, the children nor the report.
Idles == UNCHANGED <<tasks, next, active, reservedMiB, reservedThreads, stopping,
                     status, failed, blocked, started, completed>>

\* The end of a child and of its escalation timer keep the invariant.
LEMMA ChildKeepsInv ==
    ASSUME RunInv, Idles, outcome' = outcome, armed' \subseteq armed,
           exit' \in [1 .. N -> Statuses \cup {Running, Sigkill}]
    PROVE  RunInv'
<1>1. N' = N /\ memory' = memory /\ threads' = threads
  BY DEF Idles, N, memory, threads
<1>2. TypeOK'
  BY <1>1 DEF RunInv, TypeOK, Idles
<1>3. CountersExact' /\ (started < next)' /\ WithinBudget(active)'
  BY <1>1 DEF RunInv, CountersExact, WithinBudget, Idles
<1>4. SettledIsQuiet' /\ Fresh' /\ Clock' /\ Open'
  BY <1>1 DEF RunInv, SettledIsQuiet, Settled, Fresh, Clock, Open, Finishes, Idles
<1> QED
  BY <1>2, <1>3, <1>4 DEF RunInv

\* The executor of the promise keeps the invariant when it settles at once.
LEMMA RefusalKeepsInv ==
    ASSUME RunInv, outcome = "new", Idles, UNCHANGED <<armed, exit>>,
           outcome' \in {"resolved", "rejected"}
    PROVE  RunInv'
<1>1. N' = N /\ memory' = memory /\ threads' = threads
  BY DEF Idles, N, memory, threads
<1>2. TypeOK'
  BY <1>1 DEF RunInv, TypeOK, Idles
<1>3. CountersExact' /\ (started < next)' /\ WithinBudget(active)'
  BY <1>1 DEF RunInv, CountersExact, WithinBudget, Idles
<1>4. SettledIsQuiet' /\ Fresh' /\ Clock' /\ Open'
  BY DEF RunInv, SettledIsQuiet, Fresh, Clock, Open, Idles
<1> QED
  BY <1>2, <1>3, <1>4 DEF RunInv

\* What a closed child leaves: the counters of the children that are left.
LEMMA CloseCounts ==
    ASSUME RunInv, NEW i \in active
    PROVE  /\ active \ {i} \subseteq 1 .. next - 1
           /\ WithinBudget(active \ {i})
           /\ reservedMiB - memory[i] = Total(memory, active \ {i})
           /\ reservedThreads - threads[i] = Total(threads, active \ {i})
           /\ completed + 1 \in Nat
           /\ started = (completed + 1) + Cardinality(active \ {i})
           /\ outcome = "pending"
<1>0. N \in Nat /\ \A k \in 1 .. N : memory[k] \in Nat /\ threads[k] \in Nat
  BY TaskTypes DEF RunInv, TypeOK
<1>1. /\ tasks \in TaskLists /\ next \in 1 .. N + 1 /\ active \subseteq 1 .. next - 1
      /\ completed \in Nat /\ started = completed + Cardinality(active)
      /\ reservedMiB = Total(memory, active) /\ reservedThreads = Total(threads, active)
  BY DEF RunInv, TypeOK, CountersExact
<1>2. active \subseteq 1 .. N
  BY <1>0, <1>1
<1>3. IsFiniteSet(active)
  BY <1>1, <1>2, RangeTotals
<1>4. \A x \in active : memory[x] \in Nat
  BY <1>0, <1>2
<1>5. \A x \in active : threads[x] \in Nat
  BY <1>0, <1>2
<1>6. Total(memory, active \ {i}) = Total(memory, active) - memory[i]
  BY <1>3, <1>4, TotalRemove
<1>7. Total(threads, active \ {i}) = Total(threads, active) - threads[i]
  BY <1>3, <1>5, TotalRemove
<1>8. Cardinality(active \ {i}) = Cardinality(active) - 1 /\ Cardinality(active) \in Nat
  BY <1>3, FS_RemoveElement, FS_CardinalityType
<1>9. WithinBudget(active \ {i})
  BY <1>1, <1>2, FewerKeepBudget DEF RunInv
<1>10. outcome = "pending"
  BY DEF RunInv, TypeOK, SettledIsQuiet, Settled, Fresh
<1> QED
  BY <1>1, <1>6, <1>7, <1>8, <1>9, <1>10

\* The close event keeps the invariant, whether the run stops or goes on.
LEMMA CloseKeepsInv == ASSUME RunInv, NEW i, Close(i) PROVE RunInv'
<1> DEFINE a == active \ {i}
<1>1. /\ i \in active /\ exit[i] # Running /\ completed' = completed + 1
      /\ UNCHANGED <<tasks, exit>>
  BY DEF Close, Closes
<1>2. /\ a \subseteq 1 .. next - 1 /\ WithinBudget(a)
      /\ reservedMiB - memory[i] = Total(memory, a)
      /\ reservedThreads - threads[i] = Total(threads, a)
      /\ completed' \in Nat /\ started = completed' + Cardinality(a)
      /\ outcome = "pending"
  BY <1>1, CloseCounts
<1>3. \/ stopping /\ GoesOn(a, next, Total(memory, a), Total(threads, a))
         /\ UNCHANGED <<blocked, started>>
      \/ /\ ~stopping /\ Bad(i) /\ UNCHANGED <<blocked, started>>
         /\ Stops(a, next, Total(memory, a), Total(threads, a), exit[i])
      \/ ~stopping /\ Admit(a, Total(memory, a), Total(threads, a), blocked)
  BY <1>2 DEF Close, Closes
<1> HIDE DEF a
<1>4. TypeOK /\ started < next
  BY DEF RunInv
<1>5. CASE /\ stopping /\ GoesOn(a, next, Total(memory, a), Total(threads, a))
           /\ UNCHANGED <<blocked, started>>
  <2>1. /\ Leaves(a, next, Total(memory, a), Total(threads, a), TRUE, status, failed)
        /\ status \in Nat /\ failed \in BOOLEAN
    BY <1>4, <1>5 DEF GoesOn, TypeOK
  <2> QED
    BY <1>1, <1>2, <1>4, <1>5, <2>1, StoppingKeepsInv
<1>6. CASE /\ ~stopping /\ Bad(i) /\ UNCHANGED <<blocked, started>>
           /\ Stops(a, next, Total(memory, a), Total(threads, a), exit[i])
  <2>1. exit[i] \in Nat
    <3>1. exit[i] \in Statuses \cup {Running, Sigkill}
      <4>1. i \in 1 .. N
        BY <1>1, <1>4, TaskTypes DEF TypeOK
      <4> QED
        BY <1>4, <4>1 DEF TypeOK
    <3>2. Statuses \subseteq Nat /\ Sigkill \in Nat
      BY StatusAssumption DEF Sigkill
    <3> QED
      BY <1>1, <3>1, <3>2, Zenon
  <2>2. /\ Leaves(a, next, Total(memory, a), Total(threads, a), TRUE, exit[i], failed)
        /\ failed \in BOOLEAN
    BY <1>4, <1>6 DEF Stops, TypeOK
  <2> QED
    BY <1>1, <1>2, <1>4, <1>6, <2>1, <2>2, StoppingKeepsInv
<1>7. CASE ~stopping /\ Admit(a, Total(memory, a), Total(threads, a), blocked)
  <2>1. blocked = Unblocked /\ blocked \in Unblocked .. Patience
    BY <1>1, <1>2, <1>4, <1>7 DEF RunInv, Clock, TypeOK
  <2> QED
    BY <1>1, <1>2, <1>4, <1>7, <2>1, AdmitKeepsInv
<1> QED
  BY <1>3, <1>5, <1>6, <1>7

\* The first admit(), or a signal that was aborted before, keeps the invariant.
LEMMA StartKeepsInv == ASSUME RunInv, Start \/ StartAborted PROVE RunInv'
<1>1. /\ TypeOK /\ started < next /\ next = 1 /\ ~stopping /\ blocked = Unblocked
      /\ started = 0 /\ completed = 0 /\ completed' = completed
      /\ UNCHANGED <<tasks, exit>>
  BY DEF RunInv, Fresh, Start, StartAborted
<1>2. Total(memory, {}) = 0 /\ Total(threads, {}) = 0 /\ Cardinality({}) = 0
  BY TotalEmpty, FS_EmptySet
<1>3. {} \subseteq 1 .. next - 1 /\ WithinBudget({})
  BY DEF WithinBudget
<1>4. completed' \in Nat /\ started = completed' + Cardinality({})
  BY <1>1, <1>2
<1>5. Unblocked \in Unblocked .. Patience
  BY StatusAssumption DEF Unblocked
<1>6. CASE Start
  <2>1. Admit({}, Total(memory, {}), Total(threads, {}), Unblocked)
    BY <1>2, <1>6 DEF Start
  <2> QED
    BY <1>1, <1>3, <1>4, <1>5, <2>1, AdmitKeepsInv
<1>7. CASE StartAborted
  <2>1. PICK s \in {130, 143} : Leaves({}, next, 0, 0, TRUE, s, failed)
    BY <1>7 DEF StartAborted, Stops
  <2>2. Leaves({}, next, Total(memory, {}), Total(threads, {}), TRUE, s, failed)
    BY <1>2, <2>1
  <2>3. s \in Nat /\ failed \in BOOLEAN /\ UNCHANGED <<started, blocked>>
    BY <1>1, <1>7 DEF StartAborted, TypeOK
  <2> QED
    BY <1>1, <1>3, <1>4, <2>2, <2>3, StoppingKeepsInv
<1> QED
  BY <1>6, <1>7

\* The timer and the signal keep the invariant.
LEMMA PendingKeepsInv == ASSUME RunInv, Timer \/ Abort PROVE RunInv'
<1>1. /\ TypeOK /\ started < next /\ ~stopping /\ outcome = "pending"
      /\ completed' = completed /\ UNCHANGED <<tasks, exit>>
      /\ WithinBudget(active)
  BY DEF RunInv, Timer, Abort
<1>2. /\ active \subseteq 1 .. next - 1 /\ completed \in Nat
      /\ failed \in BOOLEAN /\ blocked \in Unblocked .. Patience
  BY <1>1 DEF TypeOK
<1>3. /\ started = completed' + Cardinality(active)
      /\ reservedMiB = Total(memory, active) /\ reservedThreads = Total(threads, active)
  BY <1>1 DEF RunInv, CountersExact
<1>4. completed' \in Nat
  BY <1>1, <1>2
<1>5. CASE Timer
  <2> DEFINE since == IF blocked = Unblocked THEN Unblocked ELSE blocked + 1
  <2>1. Admit(active, Total(memory, active), Total(threads, active), since)
    BY <1>3, <1>5 DEF Timer
  <2>2. blocked < Patience /\ (active # {} \/ next > N => blocked = Unblocked)
    BY <1>1 DEF RunInv, Clock
  <2>3. since \in Unblocked .. Patience /\ (active # {} \/ next > N => since = Unblocked)
    BY <1>2, <2>2, StatusAssumption DEF Unblocked
  <2> HIDE DEF since
  <2> QED
    BY <1>1, <1>2, <1>3, <1>4, <2>1, <2>3, AdmitKeepsInv
<1>6. CASE Abort
  <2>1. PICK s \in {130, 143} :
            Leaves(active, next, Total(memory, active), Total(threads, active), TRUE, s, failed)
    BY <1>3, <1>6 DEF Abort, Stops
  <2>2. s \in Nat /\ UNCHANGED <<started, blocked>>
    BY <1>6 DEF Abort
  <2> QED
    BY <1>1, <1>2, <1>3, <1>4, <2>1, <2>2, StoppingKeepsInv
<1> QED
  BY <1>5, <1>6

\* Every step keeps the invariant.
LEMMA NextKeepsInv == RunInv /\ [Next]_vars => RunInv'
<1> SUFFICES ASSUME RunInv, [Next]_vars PROVE RunInv'
  OBVIOUS
<1>1. CASE StartImpossible \/ StartEmpty
  BY <1>1, RefusalKeepsInv DEF StartImpossible, StartEmpty, Idles
<1>2. CASE Start \/ StartAborted
  BY <1>2, StartKeepsInv
<1>3. CASE Timer \/ Abort
  BY <1>3, PendingKeepsInv
<1>4. ASSUME NEW i \in Indices, Close(i) PROVE RunInv'
  BY <1>4, CloseKeepsInv
<1>5. ASSUME NEW i \in Indices, Escalate(i) \/ Exit(i) PROVE RunInv'
  <2>1. exit \in [1 .. N -> Statuses \cup {Running, Sigkill}]
    BY DEF RunInv, TypeOK
  <2>2. exit' \in [1 .. N -> Statuses \cup {Running, Sigkill}]
    BY <1>5, <2>1 DEF Escalate, Exit
  <2>3. Idles /\ outcome' = outcome /\ armed' \subseteq armed
    BY <1>5 DEF Escalate, Exit, Idles
  <2> QED
    BY <2>2, <2>3, ChildKeepsInv
<1>6. CASE Terminated \/ UNCHANGED vars
  <2>1. exit \in [1 .. N -> Statuses \cup {Running, Sigkill}]
    BY DEF RunInv, TypeOK
  <2>2. Idles /\ outcome' = outcome /\ armed' \subseteq armed /\ exit' = exit
    BY <1>6 DEF Terminated, vars, Idles
  <2> QED
    BY <2>1, <2>2, ChildKeepsInv
<1> QED
  BY <1>1, <1>2, <1>3, <1>4, <1>5, <1>6 DEF Next

\* The invariant holds before the executor runs.
LEMMA InitHasInv == Init => RunInv
<1> SUFFICES ASSUME Init PROVE RunInv
  OBVIOUS
<1>1. N \in Nat
  BY TaskTypes DEF Init
<1>2. Total(memory, {}) = 0 /\ Total(threads, {}) = 0 /\ Cardinality({}) = 0
  BY TotalEmpty, FS_EmptySet
<1>3. TypeOK
  <2>1. next \in 1 .. N + 1 /\ started \in 0 .. N /\ completed \in 0 .. started
    BY <1>1 DEF Init
  <2>2. blocked \in Unblocked .. Patience /\ status \in Nat
    BY StatusAssumption DEF Init, Unblocked
  <2>3. exit \in [1 .. N -> Statuses \cup {Running, Sigkill}]
    BY DEF Init
  <2>4. reservedMiB \in Nat /\ reservedThreads \in Nat
    BY DEF Init
  <2> QED
    BY <2>1, <2>2, <2>3, <2>4 DEF Init, TypeOK
<1> QED
  BY <1>2, <1>3 DEF Init, RunInv, CountersExact, WithinBudget, SettledIsQuiet, Settled,
                    Fresh, Clock, Open

\* The invariant holds in every reachable state.
LEMMA InvHolds == Spec => []RunInv
BY InitHasInv, NextKeepsInv, PTL DEF Spec

\* Every variable keeps its type, for every list of tasks, every budget and every
\* sequence of observations.
THEOREM TypeCorrect == Spec => []TypeOK
<1>1. RunInv => TypeOK
  BY DEF RunInv
<1> QED
  BY <1>1, InvHolds, PTL

\* The children that are not closed stay within the memory and the threads of the
\* budget, however many start in one go (lint-runner.ts:323-343).
THEOREM BudgetSafe == Spec => []BudgetRespected
<1>1. RunInv => BudgetRespected
  BY DEF RunInv, WithinBudget, BudgetRespected
<1> QED
  BY <1>1, InvHolds, PTL

\* The counters agree with the children, so a reservation is neither lost nor
\* counted twice (lint-runner.ts:359-362, 369-372).
THEOREM CountersSafe == Spec => []CountersExact
<1>1. RunInv => CountersExact
  BY DEF RunInv
<1> QED
  BY <1>1, InvHolds, PTL

\* A settled promise leaves no child and no escalation timer behind
\* (lint-runner.ts:255-268).
THEOREM QuietSafe == Spec => []SettledIsQuiet
<1>1. RunInv => SettledIsQuiet
  BY DEF RunInv
<1> QED
  BY <1>1, InvHolds, PTL

\* A run that stops starts no further task and keeps its verdict
\* (lint-runner.ts:269-274, 299).
THEOREM StopFinal == Spec => StopIsFinal
<1> DEFINE Final == stopping => /\ stopping' /\ status' = status /\ failed' = failed
                                /\ active' \subseteq active /\ next' = next
<1>1. RunInv /\ [Next]_vars => [Final]_vars
  <2> SUFFICES ASSUME RunInv, [Next]_vars, stopping PROVE Final \/ UNCHANGED vars
    BY Zenon
  <2>1. outcome # "new"
    BY DEF RunInv, Fresh
  <2>2. ASSUME NEW i \in Indices, Close(i) \/ Escalate(i) \/ Exit(i) PROVE Final
    BY <2>2 DEF Close, Closes, GoesOn, Leaves, Escalate, Exit
  <2>3. CASE UNCHANGED vars
    BY <2>3
  <2>4. CASE Terminated
    BY <2>4 DEF Terminated
  <2> QED
    BY <2>1, <2>2, <2>3, <2>4 DEF Next, StartImpossible, StartEmpty, StartAborted, Start,
                                  Abort, Timer
<1>2. QED
  BY <1>1, InvHolds, PTL DEF Spec, StopIsFinal

-----------------------------------------------------------------------------
(***************************************************************************)
(* What a report with status 0 means.  Until a run stops, it has taken no  *)
(* task from the list without starting it, and the tasks that have gone    *)
(* ended well; whatever stops a run also sets the report's status.         *)
(***************************************************************************)
Well(i) == exit[i] # Running /\ ~Bad(i)

Honest ==
    /\ stopping => status # 0
    /\ ~stopping => /\ started = next - 1
                    /\ \A i \in (1 .. next - 1) \ active : Well(i)
    /\ outcome = "resolved" => Finishes(active, next, stopping)

\* A handler that leaves the run stopped is honest if the status is set.
LEMMA StoppedHonest ==
    ASSUME NEW a, NEW n, NEW m, NEW h, NEW s, NEW err, s # 0, tasks' = tasks,
           Leaves(a, n, m, h, TRUE, s, err)
    PROVE  Honest'
<1>1. stopping' = TRUE /\ status' = s /\ active' = a /\ next' = n
      /\ outcome' = OutcomeOf(a, n, TRUE, err)
  BY DEF Leaves
<1>2. N' = N
  BY DEF N
<1>3. outcome' = "resolved" => Finishes(active', next', stopping')
  BY <1>1 DEF OutcomeOf
<1> QED
  BY <1>1, <1>2, <1>3 DEF Honest, Finishes

\* The two ways to stop a run, with a status and with an error.
LEMMA StopsHonest ==
    ASSUME NEW a, NEW n, NEW m, NEW h, NEW s, s # 0, tasks' = tasks, Stops(a, n, m, h, s)
    PROVE  Honest'
BY StoppedHonest, Zenon DEF Stops

\* The error that stops a run is an outcome other than success.
LEMMA FailsHonest ==
    ASSUME NEW a, NEW n, NEW m, NEW h, tasks' = tasks, Fails(a, n, m, h)
    PROVE  Honest'
<1>1. 3 # 0
  OBVIOUS
<1> QED
  BY <1>1, StoppedHonest, Zenon DEF Fails

\* A handler that starts the tasks from next to i - 1 and goes on stays honest.
LEMMA WentOnHonest ==
    ASSUME RunInv, ~stopping, UNCHANGED <<tasks, exit>>, started = next - 1,
           NEW a, a \subseteq 1 .. next - 1, \A j \in (1 .. next - 1) \ a : Well(j),
           NEW i \in next .. N + 1, NEW m, NEW h, started' = started + (i - next),
           GoesOn(a \cup (next .. i - 1), i, m, h)
    PROVE  Honest'
<1>0. N \in Nat /\ next \in 1 .. N + 1
  BY TaskTypes DEF RunInv, TypeOK
<1>1. /\ stopping' = stopping /\ active' = a \cup (next .. i - 1) /\ next' = i
      /\ outcome' = OutcomeOf(active', next', stopping', failed)
  BY DEF GoesOn, Leaves
<1>2. N' = N /\ \A j : Well(j)' <=> Well(j)
  BY DEF N, Well, Bad
<1>3. started' = i - 1
  BY <1>0
<1>4. ASSUME NEW j \in (1 .. i - 1) \ (a \cup (next .. i - 1)) PROVE Well(j)
  <2>1. j \in (1 .. next - 1) \ a
    BY <1>0
  <2> QED
    BY <2>1
<1>5. outcome' = "resolved" => Finishes(active', next', stopping')
  BY <1>1 DEF OutcomeOf
<1> QED
  BY <1>1, <1>2, <1>3, <1>4, <1>5 DEF Honest, Finishes

\* A call of admit() stays honest.
LEMMA AdmitHonest ==
    ASSUME RunInv, ~stopping, UNCHANGED <<tasks, exit>>, started = next - 1,
           NEW a, a \subseteq 1 .. next - 1, \A j \in (1 .. next - 1) \ a : Well(j),
           NEW m, NEW h, NEW since, Admit(a, m, h, since)
    PROVE  Honest'
<1>0. N \in Nat /\ next \in 1 .. N + 1
  BY TaskTypes DEF RunInv, TypeOK
<1>1. CASE AdmitUnobservable(a, m, h, since)
  BY <1>1, FailsHonest DEF AdmitUnobservable
<1>2. CASE AdmitOverBudget(a, m, h, since)
  <2>1. Stops(a, next, m, h, 3) /\ 3 # 0
    BY <1>2 DEF AdmitOverBudget
  <2> QED
    BY <2>1, StopsHonest
<1>3. CASE AdmitAll(a, m, h, since)
  <2>1. N + 1 \in next .. N + 1 /\ next .. (N + 1) - 1 = next .. N
    BY <1>0
  <2>2. /\ GoesOn(a \cup (next .. N), N + 1, MemoryUpTo(N + 1, m), ThreadsUpTo(N + 1, h))
        /\ started' = started + ((N + 1) - next)
    BY <1>0, <1>3 DEF AdmitAll
  <2> DEFINE i == N + 1
  <2>3. /\ i \in next .. N + 1 /\ started' = started + (i - next)
        /\ GoesOn(a \cup (next .. i - 1), i, MemoryUpTo(i, m), ThreadsUpTo(i, h))
    BY <2>1, <2>2
  <2> HIDE DEF i
  <2> QED
    BY <2>3, WentOnHonest
<1>4. CASE AdmitSome(a, m, h, since)
  <2>1. PICK i \in next .. N :
            /\ started' = started + (i - next)
            /\ \/ Stops(a \cup (next .. i - 1), i, MemoryUpTo(i, m), ThreadsUpTo(i, h), 3)
               \/ GoesOn(a \cup (next .. i - 1), i, MemoryUpTo(i, m), ThreadsUpTo(i, h))
    BY <1>4 DEF AdmitSome
  <2>2. i \in next .. N + 1
    BY <1>0
  <2>3. CASE Stops(a \cup (next .. i - 1), i, MemoryUpTo(i, m), ThreadsUpTo(i, h), 3)
    <3>1. 3 # 0
      OBVIOUS
    <3> QED
      BY <2>3, <3>1, StopsHonest
  <2>4. CASE GoesOn(a \cup (next .. i - 1), i, MemoryUpTo(i, m), ThreadsUpTo(i, h))
    BY <2>1, <2>2, <2>4, WentOnHonest
  <2> QED
    BY <2>1, <2>3, <2>4
<1>5. CASE AdmitThrows(a, m, h, since)
  BY <1>5, FailsHonest DEF AdmitThrows
<1> QED
  BY <1>1, <1>2, <1>3, <1>4, <1>5 DEF Admit

\* Every step stays honest.
LEMMA NextHonest == RunInv /\ Honest /\ [Next]_vars => Honest'
<1> SUFFICES ASSUME RunInv, Honest, [Next]_vars PROVE Honest'
  OBVIOUS
<1>0. TypeOK /\ N \in Nat /\ next \in 1 .. N + 1 /\ active \subseteq 1 .. next - 1
  BY TaskTypes DEF RunInv, TypeOK
<1>1. CASE StartImpossible
  BY <1>1 DEF StartImpossible, Honest, Well, Bad
<1>2. CASE StartEmpty
  <2>1. next = 1 /\ active = {}
    BY <1>2 DEF StartEmpty, RunInv, Fresh
  <2>2. N' = N
    BY <1>2 DEF StartEmpty, N
  <2>3. Finishes(active, next, stopping)'
    BY <1>2, <2>1, <2>2 DEF StartEmpty, Finishes
  <2> QED
    BY <1>2, <2>3 DEF StartEmpty, Honest, Well, Bad
<1>3. CASE StartAborted
  <2>1. PICK s \in {130, 143} : Stops({}, next, 0, 0, s)
    BY <1>3 DEF StartAborted
  <2>2. s # 0 /\ tasks' = tasks
    BY <1>3 DEF StartAborted
  <2> QED
    BY <2>1, <2>2, StopsHonest
<1>4. CASE Start
  <2>1. /\ next = 1 /\ started = 0 /\ ~stopping
    BY <1>4 DEF Start, RunInv, Fresh
  <2>2. started = next - 1 /\ {} \subseteq 1 .. next - 1
    BY <2>1
  <2>3. \A j \in (1 .. next - 1) \ {} : Well(j)
    BY <2>1
  <2>4. Admit({}, 0, 0, Unblocked) /\ UNCHANGED <<tasks, exit>>
    BY <1>4 DEF Start
  <2> HIDE DEF Unblocked
  <2> QED
    BY <2>1, <2>2, <2>3, <2>4, AdmitHonest
<1>5. CASE Abort
  <2>1. PICK s \in {130, 143} : Stops(active, next, reservedMiB, reservedThreads, s)
    BY <1>5 DEF Abort
  <2>2. s # 0 /\ tasks' = tasks
    BY <1>5 DEF Abort
  <2> QED
    BY <2>1, <2>2, StopsHonest
<1>6. CASE Timer
  BY <1>0, <1>6, AdmitHonest DEF Timer, Honest
<1>7. ASSUME NEW i \in Indices, Close(i) PROVE Honest'
  <2>1. /\ i \in active /\ exit[i] # Running /\ UNCHANGED <<tasks, exit>>
        /\ outcome = "pending"
    BY <1>7, CloseCounts DEF Close, Closes
  <2> DEFINE a == active \ {i}
             m == reservedMiB - memory[i]
             h == reservedThreads - threads[i]
  <2>2. \/ stopping /\ GoesOn(a, next, m, h)
        \/ ~stopping /\ Bad(i) /\ Stops(a, next, m, h, exit[i])
        \/ ~stopping /\ ~Bad(i) /\ Admit(a, m, h, blocked)
    BY <1>7 DEF Close, Closes
  <2>3. ~stopping /\ ~Bad(i) => \A j \in (1 .. next - 1) \ a : Well(j)
    BY <2>1 DEF Honest, Well
  <2>4. a \subseteq 1 .. next - 1
    BY <1>0
  <2> HIDE DEF a, m, h
  <2>5. CASE stopping /\ GoesOn(a, next, m, h)
    <3>1. status # 0 /\ Leaves(a, next, m, h, TRUE, status, failed)
      BY <1>0, <2>5 DEF Honest, GoesOn, TypeOK
    <3> QED
      BY <2>1, <3>1, StoppedHonest
  <2>6. CASE ~stopping /\ Bad(i) /\ Stops(a, next, m, h, exit[i])
    BY <2>1, <2>6, StopsHonest DEF Bad
  <2>7. CASE ~stopping /\ ~Bad(i) /\ Admit(a, m, h, blocked)
    BY <2>1, <2>3, <2>4, <2>7, AdmitHonest DEF Honest
  <2> QED
    BY <2>2, <2>5, <2>6, <2>7
<1>8. ASSUME NEW i \in Indices, Escalate(i) \/ Exit(i) PROVE Honest'
  <2>2. N' = N /\ UNCHANGED <<stopping, status, started, next, active, outcome>>
    BY <1>8 DEF Escalate, Exit, N
  <2>3. ~stopping => \A j \in (1 .. next - 1) \ active : Well(j) /\ (exit'[j] = exit[j])
    BY <1>0, <1>8 DEF Escalate, Exit, Honest, TypeOK, Well
  <2>4. tasks' = tasks
    BY <1>8 DEF Escalate, Exit
  <2> QED
    BY <2>2, <2>3, <2>4 DEF Honest, Finishes, Well, Bad
<1>9. CASE Terminated \/ UNCHANGED vars
  BY <1>9 DEF Terminated, vars, Honest, Finishes, N, Well, Bad
<1> QED
  BY <1>1, <1>2, <1>3, <1>4, <1>5, <1>6, <1>7, <1>8, <1>9 DEF Next

\* A report with status 0 means that every task of the list has been started, has
\* ended and has ended well (lint-runner.ts:256, 380-382).
THEOREM SuccessSafe == Spec => []SuccessIsComplete
<1>1. Init => Honest
  BY DEF Init, Honest
<1>2. RunInv /\ Honest => SuccessIsComplete
  <2> SUFFICES ASSUME RunInv, Honest, outcome = "resolved", status = 0
               PROVE  completed = N /\ \A i \in 1 .. N : Well(i)
    BY DEF SuccessIsComplete, Well
  <2>1. /\ N \in Nat /\ next \in 1 .. N + 1 /\ completed \in Nat
        /\ started = completed + Cardinality(active)
    BY TaskTypes DEF RunInv, TypeOK, CountersExact
  <2>2. active = {} /\ ~stopping /\ next = N + 1
    BY <2>1 DEF RunInv, SettledIsQuiet, Settled, Honest, Finishes
  <2>3. Cardinality(active) = 0
    BY <2>2, FS_EmptySet
  <2>4. started = N /\ 1 .. next - 1 = 1 .. N
    BY <2>1, <2>2 DEF Honest
  <2> QED
    BY <2>1, <2>2, <2>3, <2>4 DEF Honest
<1> QED
  BY <1>1, <1>2, NextHonest, InvHolds, PTL DEF Spec

-----------------------------------------------------------------------------
(***************************************************************************)
(* Without its children, timers and signals a run is an AdmissionQueue     *)
(* whose line is the rest of the list.                                     *)
(***************************************************************************)

\* The tasks of the list from n on, in their order.
LineFrom(n) == [k \in 1 .. N + 1 - n |-> n + k - 1]

\* The sums of AdmissionQueue are those of this module.
LEMMA SameTotal == \A amount, S : Admission!Total(amount, S) = Total(amount, S)
BY DEF Admission!Total, Admission!Units, Admission!Cardinality, Total, Units, Cardinality

\* What the tasks reserve, with nothing for the places behind the list.
Padded(amount) == [i \in Indices |-> IF i \in 1 .. N THEN amount[i] ELSE 0]

\* The places behind the list add nothing.
LEMMA PaddedTotal ==
    ASSUME tasks \in TaskLists, NEW S, S \subseteq 1 .. N, NEW amount
    PROVE  Admission!Total(Padded(amount), S) = Total(amount, S)
<1>1. S \subseteq Indices
  BY DEF Indices, N
<1>2. \A c \in S : Padded(amount)[c] = amount[c]
  BY <1>1 DEF Padded
<1>3. Units(Padded(amount), S) = Units(amount, S)
  BY <1>2 DEF Units
<1> QED
  BY <1>3, SameTotal DEF Total

\* Children within the budget of this module are within that of AdmissionQueue.
LEMMA SameBudget ==
    ASSUME tasks \in TaskLists, NEW S, S \subseteq 1 .. N, S # {}, WithinBudget(S)
    PROVE  Admission!WithinBudget(S)
BY PaddedTotal DEF WithinBudget, Admission!WithinBudget, Padded

\* What is left of the line behind its first tasks, and these tasks.
LEMMA LineSplits ==
    ASSUME tasks \in TaskLists, NEW n \in 1 .. N + 1, NEW p \in n .. N + 1
    PROVE  /\ LineFrom(n) \in Seq(1 .. N) /\ Len(LineFrom(n)) = N + 1 - n
           /\ Admission!Rest(LineFrom(n), p - n) = LineFrom(p)
           /\ Admission!Front(LineFrom(n), p - n) = n .. p - 1
<1>0. N \in Nat
  BY TaskTypes
<1>1. LineFrom(n) \in Seq(1 .. N) /\ Len(LineFrom(n)) = N + 1 - n
  BY <1>0 DEF LineFrom
<1>2. Admission!Rest(LineFrom(n), p - n) = LineFrom(p)
  BY <1>0, <1>1 DEF LineFrom, Admission!Rest
<1>3. Admission!Front(LineFrom(n), p - n) = n .. p - 1
  <2>1. \A i \in 1 .. p - n : LineFrom(n)[i] = n + i - 1 /\ n + i - 1 \in n .. p - 1
    BY <1>0 DEF LineFrom
  <2>2. ASSUME NEW x \in n .. p - 1 PROVE \E i \in 1 .. p - n : x = LineFrom(n)[i]
    <3>1. x - n + 1 \in 1 .. p - n /\ x = n + (x - n + 1) - 1
      BY <1>0
    <3> QED
      BY <2>1, <3>1
  <2> QED
    BY <2>1, <2>2 DEF Admission!Front
<1> QED
  BY <1>1, <1>2, <1>3

\* The line is served beside the children a: Admission!Serves, for this line.
Serving(a) ==
    \E n \in 0 .. Len(LineFrom(next)) : \E k \in 0 .. Len(LineFrom(next)) - n :
        /\ LineFrom(next') = Admission!Rest(LineFrom(next), n + k)
        /\ active' = a \cup Admission!Front(LineFrom(next), n)
        /\ n > 0 => Admission!WithinBudget(active')

\* A handler that starts the tasks before i beside the children a, and perhaps gives
\* up the task i, serves the line.
LEMMA LaunchServes ==
    ASSUME tasks \in TaskLists, tasks' = tasks, next \in 1 .. N + 1,
           NEW a, a \subseteq 1 .. next - 1, NEW i \in next .. N + 1,
           active' = a \cup (next .. i - 1), next' \in i .. i + 1, next' <= N + 1,
           WithinBudget(active')
    PROVE  Serving(a)
<1>0. N \in Nat /\ N' = N
  BY TaskTypes DEF N
<1> DEFINE p == next'
<1>1. /\ p \in next .. N + 1 /\ p \in i .. N + 1
      /\ i - next \in 0 .. N + 1 - next /\ p - i \in 0 .. (N + 1 - next) - (i - next)
      /\ (i - next) + (p - i) = p - next
  <2>1. p \in i .. i + 1 /\ p <= N + 1
    OBVIOUS
  <2> HIDE DEF p
  <2> QED
    BY <1>0, <2>1
<1>2. LineFrom(next') = LineFrom(p)
  OBVIOUS
<1>3. /\ Len(LineFrom(next)) = N + 1 - next
      /\ Admission!Rest(LineFrom(next), p - next) = LineFrom(p)
      /\ Admission!Front(LineFrom(next), i - next) = next .. i - 1
  BY <1>1, LineSplits
<1>4. i - next > 0 => Admission!WithinBudget(active')
  <2>1. active' \subseteq 1 .. N
    BY <1>0
  <2>2. i - next > 0 => active' # {}
    BY <1>0
  <2> QED
    BY <2>1, <2>2, SameBudget
<1> HIDE DEF p
<1> QED
  BY <1>1, <1>2, <1>3, <1>4 DEF Serving

\* A handler that starts no task beside the children a serves the line, too.
LEMMA RestServes ==
    ASSUME tasks \in TaskLists, tasks' = tasks, next \in 1 .. N + 1,
           NEW a, a \subseteq 1 .. next - 1, active' = a, next' = next, WithinBudget(a)
    PROVE  Serving(a)
<1>1. next .. next - 1 = {} /\ next \in next .. N + 1 /\ next' \in next .. next + 1
  BY TaskTypes
<1>2. active' = a \cup (next .. next - 1) /\ next' <= N + 1
  BY <1>1
<1> QED
  BY <1>1, <1>2, LaunchServes

\* admit() serves the line, whichever way it ends.
LEMMA AdmitServes ==
    ASSUME TypeOK, tasks' = tasks, NEW a, a \subseteq 1 .. next - 1, WithinBudget(a),
           NEW since, Admit(a, Total(memory, a), Total(threads, a), since)
    PROVE  Serving(a)
<1>1. N \in Nat /\ next \in 1 .. N + 1 /\ tasks \in TaskLists /\ started \in Nat
  BY TaskTypes DEF TypeOK
<1>2. a \subseteq 1 .. N
  BY <1>1
<1>3. Total(memory, a) \in Nat /\ Total(threads, a) \in Nat
  BY <1>1, <1>2, RangeTotals
<1>4. PICK i \in next .. N + 1 : Launches(a, Total(memory, a), Total(threads, a), i)
  BY <1>1, <1>3, AdmitLaunches
<1>5. /\ active' = a \cup (next .. i - 1)
      /\ next' \in i .. i + 1 /\ next' <= N + 1
  BY <1>4 DEF Launches
<1>6. WithinBudget(a \cup (next .. i - 1))
  BY <1>1, <1>4, LaunchKeepsBudget
<1> QED
  BY <1>1, <1>5, <1>6, LaunchServes

\* The run implements AdmissionQueue: no task overtakes another one, tasks are only
\* added if all the children fit the budget, and a task leaves the line without a
\* child only if its start throws (lint-runner.ts:323-343).
THEOREM AdmitsLikeAQueue == Spec => AdmitsInOrder
<1>1. ASSUME Init PROVE Admission!Init
  <2>1. /\ tasks \in TaskLists /\ next = 1 /\ active = {} /\ N \in Nat
        /\ \A i \in 1 .. N : memory[i] \in Nat /\ threads[i] \in Nat
    BY <1>1, TaskTypes DEF Init
  <2>2. Padded(memory) \in [Indices -> Nat] /\ Padded(threads) \in [Indices -> Nat]
    <3> HIDE DEF memory, threads
    <3> QED
      BY <2>1 DEF Padded
  <2>3. 1 .. N \subseteq Indices
    BY <2>1 DEF Indices, N
  <2>4. LineFrom(next) \in Seq(Indices)
    BY <2>1, <2>3 DEF LineFrom
  <2> QED
    BY <2>1, <2>2, <2>4 DEF Admission!Init, Padded, LineFrom
<1>2. ASSUME RunInv, [Next]_vars PROVE [Admission!ListNext]_(Admission!vars)
  <2>0. /\ tasks \in TaskLists /\ next \in 1 .. N + 1 /\ active \subseteq 1 .. next - 1
        /\ TypeOK /\ WithinBudget(active)
        /\ outcome = "new" => active = {}
    BY <1>2 DEF RunInv, TypeOK, Fresh
  <2>1. tasks' = tasks
    BY <1>2 DEF Next, vars, StartImpossible, StartEmpty, StartAborted, Start, Abort, Timer,
                Close, Closes, Escalate, Exit, Terminated
  <2>2. Padded(memory)' = Padded(memory) /\ Padded(threads)' = Padded(threads)
    BY <2>1 DEF Padded, memory, threads, N
  <2>3. ASSUME NEW a, a \subseteq active, active' = a, next' = next
        PROVE  Serving(a)
    <3>1. a \subseteq 1 .. next - 1 /\ active \subseteq 1 .. N
      BY <2>0, <2>3, TaskTypes
    <3>2. WithinBudget(a)
      BY <2>0, <2>3, <3>1, FewerKeepBudget
    <3> QED
      BY <2>0, <2>1, <2>3, <3>1, <3>2, RestServes
  <2>4. ASSUME Serving(active) PROVE Admission!ListNext
    BY <2>1, <2>2, <2>4 DEF Admission!ListNext, Admission!Serves, Serving, Padded, LineFrom, N
  <2>5. CASE UNCHANGED vars \/ Terminated \/ StartImpossible \/ StartEmpty \/ StartAborted
             \/ Abort
    <3>1. active' = active /\ next' = next /\ active \subseteq active
      BY <2>0, <2>5 DEF vars, Terminated, StartImpossible, StartEmpty, StartAborted, Abort,
                        Stops, Leaves
    <3>2. Serving(active)
      BY <2>3, <3>1
    <3>3. Admission!ListNext
      BY <2>4, <3>2
    <3> QED
      BY <3>3
  <2>6. CASE Start \/ Timer
    <3>1. PICK since : Admit(active, Total(memory, active), Total(threads, active), since)
      BY <1>2, <2>0, <2>6, TotalEmpty DEF Start, Timer, RunInv, CountersExact
    <3> QED
      BY <2>0, <2>1, <2>4, <3>1, AdmitServes
  <2>7. ASSUME NEW i \in Indices, Escalate(i) \/ Exit(i) PROVE Admission!ListNext
    <3>1. active' = active /\ next' = next
      BY <2>7 DEF Escalate, Exit
    <3> QED
      BY <2>3, <2>4, <3>1
  <2>8. ASSUME NEW i \in Indices, Close(i) PROVE Admission!ListNext
    <3> DEFINE a == active \ {i}
    <3>1. i \in active
      BY <2>8 DEF Close, Closes
    <3>2. /\ a \subseteq 1 .. next - 1 /\ WithinBudget(a)
          /\ reservedMiB - memory[i] = Total(memory, a)
          /\ reservedThreads - threads[i] = Total(threads, a)
      BY <1>2, <3>1, CloseCounts
    <3>3. \/ active' = a /\ next' = next
          \/ Admit(a, Total(memory, a), Total(threads, a), blocked)
      BY <2>8, <3>2 DEF Close, Closes, GoesOn, Stops, Leaves
    <3>4. Serving(a)
      <4>1. CASE active' = a /\ next' = next
        BY <2>3, <4>1
      <4>2. CASE Admit(a, Total(memory, a), Total(threads, a), blocked)
        BY <2>0, <2>1, <3>2, <4>2, AdmitServes
      <4> QED
        BY <3>3, <4>1, <4>2
    <3> QED
      BY <2>1, <2>2, <3>1, <3>4 DEF Admission!ListNext, Admission!Return, Admission!Serves,
                                    Serving, Padded, LineFrom, N
  <2> QED
    BY <1>2, <2>5, <2>6, <2>7, <2>8 DEF Next
<1>3. RunInv /\ [Next]_vars => [Admission!ListNext]_(Admission!vars)
  BY <1>2
<1> QED
  BY <1>1, <1>3, InvHolds, PTL DEF Spec, AdmitsInOrder, Admission!ListSpec
=============================================================================
