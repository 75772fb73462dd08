------------------------- MODULE LintProcessesProofs -------------------------
(***************************************************************************)
(* Theorems about LintProcesses, for every set of identifiers: the signals *)
(* of stop() and finish() reach processes of the run only, and what was    *)
(* observed does not outlive it.                                           *)
(***************************************************************************)
EXTENDS LintProcesses, TLAPS

\* A child has a parent that runs, and comes from where its parent does.
Family(t) ==
    \A n \in Present(t) : t[n].parent # Nobody =>
        t[t[n].parent].state = "alive" /\ t[t[n].parent].own = t[n].own

\* The groups of children that are not closed have no members of somebody else.
OwnGroups(t, a) == \A n \in Present(t) : t[n].group \in a => t[n].own

\* A start time that was observed, and that a process has, is that of the run.
Identities(t, d) == \A n \in Present(t) : d[n] = t[n].started => t[n].own

\* What the table t, the children a and the observations d are like at the time k.
Fit(t, a, d, k) ==
    /\ t \in [Numbers -> Process] /\ k \in Times
    /\ a \subseteq Present(t) /\ d \in [Numbers -> 0 .. k]
    /\ \A n \in Numbers \ Present(t) : t[n] = Free
    /\ \A n \in Present(t) : t[n].started \in 1 .. k
    /\ \A c \in a : t[c].own
    /\ Family(t) /\ OwnGroups(t, a) /\ Identities(t, d)

\* The inductive invariant.
ProcInv ==
    /\ TypeOK /\ Fit(table, active, descendants, clock)
    /\ SweepsSpareOthers /\ KnownAreSwept

-----------------------------------------------------------------------------
\* Processes that end leave the others fit.
LEMMA EndsFit ==
    ASSUME NEW t, NEW a, NEW d, NEW k, Fit(t, a, d, k), NEW S \in SUBSET Numbers
    PROVE  Fit(Ends(t, S, a), a, d, k) /\ Present(Ends(t, S, a)) \subseteq Present(t)
<1> DEFINE u == Ends(t, S, a)
<1>1. t \in [Numbers -> Process] /\ a \subseteq Present(t) /\ Present(t) \subseteq Numbers
  BY DEF Fit, Present
<1>2. Free \in Process
  BY NewestAssumption DEF Free, Process, Times
<1>3. \A n \in Numbers : u[n] = IF n \in S
          THEN IF n \in a THEN [t[n] EXCEPT !.state = "ended", !.parent = Nobody] ELSE Free
          ELSE IF t[n].parent \in S THEN [t[n] EXCEPT !.parent = Nobody] ELSE t[n]
  BY DEF Ends
<1>4. u \in [Numbers -> Process]
  BY <1>1, <1>2 DEF Ends, Process
<1>5. \A n \in Numbers : \/ u[n] = Free /\ n \notin a /\ n \in S
                         \/ /\ u[n].state # "free" <=> n \in Present(t)
                            /\ u[n].started = t[n].started /\ u[n].group = t[n].group
                            /\ u[n].own = t[n].own
                            /\ u[n].parent \in {t[n].parent, Nobody}
                            /\ u[n].parent # Nobody => n \notin S /\ u[n].parent \notin S
                            /\ n \notin S => u[n].state = t[n].state
  <2> TAKE n \in Numbers
  <2>1. t[n] \in Process
    BY <1>1
  <2>2. CASE n \in S /\ n \notin a
    BY <2>2, <1>3
  <2>3. CASE n \in S /\ n \in a
    BY <2>3, <2>1, <1>3, <1>1 DEF Process, Present
  <2>4. CASE n \notin S /\ t[n].parent \in S
    BY <2>4, <2>1, <1>3 DEF Process, Present
  <2>5. CASE n \notin S /\ t[n].parent \notin S
    BY <2>5, <2>1, <1>3 DEF Process, Present
  <2> QED
    BY <2>2, <2>3, <2>4, <2>5
<1>6. Free.state = "free"
  BY DEF Free
<1> HIDE DEF u
<1>7. Present(u) \subseteq Present(t)
  BY <1>5, <1>6 DEF Present
<1>8. \A n \in Present(u) : /\ n \in Numbers /\ n \in Present(t)
                            /\ u[n].started = t[n].started /\ u[n].group = t[n].group
                            /\ u[n].own = t[n].own
                            /\ u[n].parent \in {t[n].parent, Nobody}
                            /\ u[n].parent # Nobody => n \notin S /\ u[n].parent \notin S
  BY <1>5, <1>6 DEF Present
<1>9. a \subseteq Present(u)
  BY <1>1, <1>5 DEF Present
<1>10. \A n \in Numbers \ Present(u) : u[n] = Free
  <2> TAKE n \in Numbers \ Present(u)
  <2>1. CASE n \in Present(t)
    BY <2>1, <1>5 DEF Present
  <2>2. CASE n \notin Present(t)
    <3>1. t[n] = Free
      BY <2>2 DEF Fit
    <3>2. t[n].parent = Nobody
      BY <3>1 DEF Free
    <3>3. t[n].parent \notin S /\ n \notin a
      BY <3>2, NobodyAssumption, <1>1, <2>2
    <3> QED
      BY <3>1, <3>3, <1>3
  <2> QED
    BY <2>1, <2>2
<1>11. Family(u)
  <2> SUFFICES ASSUME NEW n \in Present(u), u[n].parent # Nobody
               PROVE  u[u[n].parent].state = "alive" /\ u[u[n].parent].own = u[n].own
    BY DEF Family
  <2> DEFINE p == t[n].parent
  <2>1. u[n].parent = p /\ p # Nobody /\ p \notin S /\ n \in Present(t) /\ n \in Numbers
    BY <1>8
  <2>2. p \in Numbers
    BY <2>1, <1>1 DEF Process
  <2>3. t[p].state = "alive" /\ t[p].own = t[n].own
    BY <2>1 DEF Fit, Family
  <2>4. u[p].state = t[p].state /\ u[p].own = t[p].own
    BY <2>1, <2>2, <1>5
  <2> QED
    BY <2>1, <2>3, <2>4, <1>8
<1>12. OwnGroups(u, a)
  BY <1>8 DEF OwnGroups, Fit
<1>13. Identities(u, d)
  BY <1>8 DEF Identities, Fit
<1>14. \A n \in Present(u) : u[n].started \in 1 .. k
  BY <1>8 DEF Fit
<1>15. \A c \in a : u[c].own
  BY <1>8, <1>9 DEF Fit
<1> QED
  BY <1>4, <1>7, <1>9, <1>10, <1>11, <1>12, <1>13, <1>14, <1>15 DEF Fit, u

\* The walk from children of the run finds processes of the run.
LEMMA TreeOwn ==
    ASSUME NEW t, NEW a, NEW d, NEW k, Fit(t, a, d, k), NEW n \in Tree(t, a)
    PROVE  n \in Present(t) /\ t[n].own
<1> DEFINE S == {m \in Present(t) : t[m].own}
<1>1. a \subseteq S
  BY DEF Fit
<1>2. Closed(t, S)
  <2> SUFFICES ASSUME NEW m \in Numbers, t[m].parent \in S PROVE m \in S
    BY DEF Closed
  <2>1. t[m].parent \in Numbers
    BY DEF Present
  <2>2. t[m].parent # Nobody
    BY <2>1, NobodyAssumption
  <2>3. m \in Present(t)
    BY <2>2 DEF Fit, Free
  <2>4. t[t[m].parent].own = t[m].own
    BY <2>2, <2>3 DEF Fit, Family
  <2> QED
    BY <2>3, <2>4
<1>3. S \in SUBSET Numbers
  BY DEF Present
<1>4. n \in S
  BY <1>1, <1>2, <1>3 DEF Tree
<1> QED
  BY <1>4

\* An observation leaves what is known fit.
LEMMA TrackedFit ==
    ASSUME NEW t, NEW a, NEW k, Fit(t, a, descendants, k)
    PROVE  Fit(t, a, Tracked(t, a), k)
<1> DEFINE d == Tracked(t, a)
<1>1. \A n \in Numbers : d[n] = IF n \in Tree(t, a) THEN t[n].started ELSE descendants[n]
  BY DEF Tracked
<1>2. \A n \in Tree(t, a) : n \in Present(t) /\ t[n].own
  BY TreeOwn
<1>3. \A n \in Tree(t, a) : t[n].started \in 0 .. k
  <2> TAKE n \in Tree(t, a)
  <2>1. t[n].started \in 1 .. k
    BY <1>2 DEF Fit
  <2>2. k \in Nat
    BY NewestAssumption DEF Fit, Times
  <2> QED
    BY <2>1, <2>2
<1>4. d \in [Numbers -> 0 .. k]
  BY <1>3 DEF Tracked, Fit
<1>5. Identities(t, d)
  BY <1>1, <1>2 DEF Identities, Fit, Present
<1> QED
  BY <1>4, <1>5 DEF Fit

\* What is known, if it is fit, is not of somebody else.
LEMMA KnownOwn ==
    ASSUME NEW t, NEW a, NEW d, NEW k, Fit(t, a, d, k)
    PROVE  Known(t, d) \cap Others(t) = {} /\ Groups(t, a) \cap Others(t) = {}
BY DEF Known, Others, Groups, Fit, Identities, OwnGroups

-----------------------------------------------------------------------------
\* A process with an identifier that is not in use leaves the others fit, if it
\* comes from where its parent does and joins no group of somebody else.
LEMMA NewFit ==
    ASSUME NEW t, NEW a, NEW d, NEW k, Fit(t, a, d, k), k + 1 \in Times,
           NEW S \in SUBSET Unused(t), NEW b \in SUBSET S,
           NEW u \in [Numbers -> Process], \A n \in Numbers \ S : u[n] = t[n],
           \A n \in S : /\ u[n].state = "alive" /\ u[n].started = k + 1
                        /\ u[n].parent # Nobody =>
                             t[u[n].parent].state = "alive" /\ t[u[n].parent].own = u[n].own
                        /\ \/ u[n].group = n
                           \/ \E m \in Present(t) : u[n].group = t[m].group /\ u[n].own = t[m].own,
           \A n \in b : u[n].own
    PROVE  Fit(u, a \cup b, d, k + 1)
<1>1. /\ t \in [Numbers -> Process] /\ a \subseteq Present(t) /\ Present(t) \subseteq Numbers
      /\ k \in Nat /\ d \in [Numbers -> 0 .. k]
  BY NewestAssumption DEF Fit, Present, Times
<1>2. S \subseteq Numbers /\ S \cap Present(t) = {} /\ \A n \in S, m \in Numbers : t[m].group # n
  BY DEF Unused
<1>3. \A n \in Numbers : n \in Present(u) <=> n \in Present(t) \/ n \in S
  BY <1>1, <1>2 DEF Present
<1>4. Present(u) = Present(t) \cup S
  BY <1>1, <1>2, <1>3 DEF Present
<1>5. a \cup b \subseteq Present(u)
  BY <1>1, <1>4
<1>6. d \in [Numbers -> 0 .. k + 1]
  <2>1. 0 .. k \subseteq 0 .. k + 1
    BY <1>1
  <2> QED
    BY <1>1, <2>1
<1>7. \A n \in Numbers \ Present(u) : u[n] = Free
  BY <1>4 DEF Fit
<1>8. \A n \in Present(u) : u[n].started \in 1 .. k + 1
  <2> SUFFICES ASSUME NEW n \in Present(u) PROVE u[n].started \in 1 .. k + 1
    OBVIOUS
  <2>1. CASE n \in S
    BY <2>1, <1>1
  <2>2. CASE n \notin S
    <3>1. n \in Present(t) /\ n \in Numbers
      BY <2>2, <1>4, <1>1
    <3>2. t[n].started \in 1 .. k /\ u[n] = t[n]
      BY <3>1, <2>2 DEF Fit
    <3> QED
      BY <3>2, <1>1
  <2> QED
    BY <2>1, <2>2
<1>9. \A c \in a \cup b : u[c].own
  BY <1>1, <1>2 DEF Fit
<1>10. Family(u)
  <2> SUFFICES ASSUME NEW n \in Present(u), u[n].parent # Nobody
               PROVE  u[u[n].parent].state = "alive" /\ u[u[n].parent].own = u[n].own
    BY DEF Family
  <2>1. n \in Numbers /\ u[n].parent \in Numbers
    BY <1>1, <1>2, <1>4 DEF Process
  <2>2. t[u[n].parent].state = "alive" /\ t[u[n].parent].own = u[n].own
    <3>1. CASE n \in S
      BY <3>1
    <3>2. CASE n \notin S
      BY <3>2, <1>4, <2>1 DEF Fit, Family
    <3> QED
      BY <3>1, <3>2
  <2>3. u[n].parent \in Present(t)
    BY <2>1, <2>2 DEF Present
  <2>4. u[u[n].parent] = t[u[n].parent]
    BY <2>1, <2>3, <1>2
  <2> QED
    BY <2>2, <2>4
<1>11. OwnGroups(u, a \cup b)
  <2> SUFFICES ASSUME NEW n \in Present(u), u[n].group \in a \cup b PROVE u[n].own
    BY DEF OwnGroups
  <2>1. CASE n \in S /\ u[n].group = n
    BY <2>1, <1>1, <1>2
  <2>2. CASE n \in S /\ u[n].group # n
    <3>1. PICK m \in Present(t) : u[n].group = t[m].group /\ u[n].own = t[m].own
      BY <2>2
    <3>2. t[m].group \notin b
      BY <1>1, <1>2
    <3> QED
      BY <3>1, <3>2 DEF Fit, OwnGroups
  <2>3. CASE n \notin S
    <3>1. n \in Present(t) /\ u[n] = t[n]
      BY <2>3, <1>1, <1>4
    <3>2. t[n].group \notin b
      BY <3>1, <1>1, <1>2
    <3> QED
      BY <3>1, <3>2 DEF Fit, OwnGroups
  <2> QED
    BY <2>1, <2>2, <2>3
<1>12. Identities(u, d)
  <2> SUFFICES ASSUME NEW n \in Present(u), d[n] = u[n].started PROVE u[n].own
    BY DEF Identities
  <2>1. n \in Numbers /\ d[n] \in 0 .. k
    BY <1>1, <1>2, <1>4
  <2>2. d[n] # k + 1
    BY <2>1, <1>1
  <2>3. n \notin S
    BY <2>2
  <2>4. n \in Present(t) /\ u[n] = t[n]
    BY <2>1, <2>3, <1>4
  <2> QED
    BY <2>4 DEF Fit, Identities
<1> QED
  BY <1>5, <1>6, <1>7, <1>8, <1>9, <1>10, <1>11, <1>12 DEF Fit

\* A child that has ended is taken from the table.
LEMMA ReapedFit ==
    ASSUME Fit(table, active, descendants, clock),
           NEW c \in active, table[c].state = "ended"
    PROVE  LET t == [table EXCEPT ![c] = Free]
           IN  /\ Fit(t, active \ {c}, descendants, clock)
               /\ Unused(table) \subseteq Unused(t)
<1> DEFINE t == [table EXCEPT ![c] = Free]
<1>1. /\ table \in [Numbers -> Process] /\ active \subseteq Present(table)
      /\ Present(table) \subseteq Numbers /\ c \in Numbers
  BY DEF Fit, Present
<1>2. Free \in Process /\ Free.state = "free" /\ Free.group = Nobody
  BY NewestAssumption DEF Free, Process, Times
<1>3. t \in [Numbers -> Process] /\ \A n \in Numbers : t[n] = IF n = c THEN Free ELSE table[n]
  BY <1>1, <1>2
<1> HIDE DEF t
<1>4. Present(t) = Present(table) \ {c}
  BY <1>1, <1>2, <1>3 DEF Present
<1>5. \A n \in Present(t) : n \in Numbers /\ n \in Present(table) /\ t[n] = table[n]
  BY <1>1, <1>3, <1>4
<1>6. Family(t)
  <2> SUFFICES ASSUME NEW n \in Present(t), t[n].parent # Nobody
               PROVE  t[t[n].parent].state = "alive" /\ t[t[n].parent].own = t[n].own
    BY DEF Family
  <2>1. table[table[n].parent].state = "alive" /\ table[table[n].parent].own = table[n].own
    BY <1>5 DEF Fit, Family
  <2>2. table[n].parent \in Numbers /\ table[n].parent # c
    BY <2>1, <1>1, <1>5 DEF Process
  <2> QED
    BY <2>1, <2>2, <1>3, <1>5
<1>7. \A n \in Numbers \ Present(t) : t[n] = Free
  BY <1>3, <1>4 DEF Fit
<1>8. Fit(t, active \ {c}, descendants, clock)
  BY <1>3, <1>4, <1>5, <1>6, <1>7, <1>1 DEF Fit, OwnGroups, Identities
<1>9. Unused(table) \subseteq Unused(t)
  BY <1>1, <1>2, <1>3, <1>4, NobodyAssumption DEF Unused
<1> QED
  BY <1>8, <1>9 DEF t

-----------------------------------------------------------------------------
\* The end of a handler keeps the invariant, if what it leaves is fit.
LEMMA LeavesKeepsInv ==
    ASSUME ProcInv, phase # "settled",
           NEW t, NEW a, NEW m \in BOOLEAN, NEW d, NEW stop \in BOOLEAN,
           Fit(t, a, d, clock'), Leaves(t, a, m, d, stop)
    PROVE  ProcInv'
<1> DEFINE settles == Settles(a, m, stop)
           stops == stop /\ phase = "running"
<1>1. active' = a /\ more' = m /\ descendants' = d
  BY DEF Leaves
<1>2. t \in [Numbers -> Process] /\ a \subseteq Numbers
  BY DEF Fit, Present
<1>3. Known(t, d) \in SUBSET Numbers
  BY DEF Known, Present
<1>4. settles => a = {}
  BY DEF Settles
<1>5. table' = IF settles THEN Sweep(t, d) ELSE t
  BY DEF Leaves
<1>6. Fit(table', active', descendants', clock')
  <2>1. CASE settles
    BY <2>1, <1>1, <1>3, <1>4, <1>5, EndsFit DEF Sweep
  <2>2. CASE ~settles
    BY <2>2, <1>1, <1>5
  <2> QED
    BY <2>1, <2>2
<1>7. phase' \in {"running", "stopping", "settled"} /\ (phase' = "settled" => settles)
  BY DEF Leaves
<1>8. armed' \subseteq Numbers
  BY <1>2 DEF Leaves, ProcInv, TypeOK
<1>9. harmed' = harmed
  <2>1. Known(t, d) \cap Others(t) = {} /\ Groups(t, a) \cap Others(t) = {}
    BY KnownOwn
  <2> QED
    BY <2>1 DEF Leaves
<1>10. TypeOK'
  BY <1>1, <1>6, <1>7, <1>8, <1>9 DEF TypeOK, Fit, ProcInv
<1>11. KnownAreSwept'
  <2> SUFFICES ASSUME phase' = "settled"
               PROVE  /\ active' = {}
                      /\ \A n \in Numbers : table'[n].state = "alive" /\ table'[n].own =>
                             descendants'[n] # table'[n].started
    BY DEF KnownAreSwept
  <2>1. active' = {} /\ table' = Ends(t, Known(t, d), {})
    BY <1>1, <1>4, <1>5, <1>7 DEF Sweep
  <2>2. SUFFICES ASSUME NEW n \in Numbers, table'[n].state = "alive" PROVE d[n] # table'[n].started
    BY <2>1, <1>1
  <2>3. Free.state # "alive"
    BY DEF Free
  <2>4. n \notin Known(t, d)
    BY <2>1, <2>2, <2>3 DEF Ends
  <2>5. t[n].state # "free" /\ table'[n].started = t[n].started
    BY <2>1, <2>2, <2>4, <1>2 DEF Ends, Process
  <2>6. n \in Present(t)
    BY <2>5 DEF Present
  <2> QED
    BY <2>4, <2>5, <2>6 DEF Known
<1> QED
  BY <1>6, <1>9, <1>10, <1>11 DEF ProcInv, SweepsSpareOthers

\* admit() keeps the invariant, whatever starts and however it ends.
LEMMA AdmitsKeepsInv ==
    ASSUME ProcInv, phase # "settled", NEW t, NEW a, Fit(t, a, descendants, clock),
           Unused(table) \subseteq Unused(t), Admits(t, a)
    PROVE  ProcInv'
<1>1. more \in BOOLEAN /\ clock \in Nat /\ clock \in Times
  BY NewestAssumption DEF ProcInv, TypeOK, Times
<1>2. Fit(t, a, Tracked(t, a), clock)
  BY TrackedFit
<1>3. CASE clock' = clock /\ Leaves(t, a, more, Tracked(t, a), FALSE)
  BY <1>1, <1>2, <1>3, LeavesKeepsInv
<1>4. CASE clock' = clock /\ Stops(t, a)
  BY <1>1, <1>2, <1>4, LeavesKeepsInv DEF Stops
<1>5. ASSUME clock < Newest, clock' = clock + 1, NEW S \in SUBSET Unused(table), NEW m \in BOOLEAN,
             \/ Leaves(Spawned(t, S), a \cup S, m, Tracked(t, a), FALSE)
             \/ Leaves(Spawned(t, S), a \cup S, m, Tracked(Spawned(t, S), a \cup S), TRUE)
      PROVE  ProcInv'
  <2> DEFINE u == Spawned(t, S)
  <2>1. clock + 1 \in Times
    BY <1>1, <1>5, NewestAssumption DEF Times
  <2>2. t \in [Numbers -> Process] /\ S \subseteq Numbers
    BY DEF Fit, Unused
  <2>3. u \in [Numbers -> Process] /\ \A n \in Numbers : u[n] =
            IF n \in S THEN [state |-> "alive", started |-> clock + 1,
                             parent |-> Nobody, group |-> n, own |-> TRUE] ELSE t[n]
    BY <2>1, <2>2 DEF Spawned, Process
  <2>4. S \in SUBSET Unused(t)
    OBVIOUS
  <2> HIDE DEF u
  <2>5. \A d : Fit(t, a, d, clock) => Fit(u, a \cup S, d, clock + 1)
    <3> SUFFICES ASSUME NEW d, Fit(t, a, d, clock) PROVE Fit(u, a \cup S, d, clock + 1)
      OBVIOUS
    <3>1. \A n \in Numbers \ S : u[n] = t[n]
      BY <2>3
    <3>2. \A n \in S : /\ u[n].state = "alive" /\ u[n].started = clock + 1
                       /\ u[n].parent = Nobody /\ u[n].group = n /\ u[n].own
      <4> TAKE n \in S
      <4>1. u[n] = [state |-> "alive", started |-> clock + 1,
                    parent |-> Nobody, group |-> n, own |-> TRUE]
        BY <2>2, <2>3
      <4> QED
        BY <4>1
    <3>3. S \in SUBSET S /\ u \in [Numbers -> Process]
      BY <2>3
    <3>4. \A n \in S : /\ u[n].state = "alive" /\ u[n].started = clock + 1
                       /\ u[n].parent # Nobody =>
                            t[u[n].parent].state = "alive" /\ t[u[n].parent].own = u[n].own
                       /\ \/ u[n].group = n
                          \/ \E o \in Present(t) : u[n].group = t[o].group /\ u[n].own = t[o].own
      BY <3>2
    <3>5. \A n \in S : u[n].own
      BY <3>2
    <3> QED
      BY <3>1, <3>3, <3>4, <3>5, <2>1, <2>4, NewFit
  <2>6. CASE Leaves(u, a \cup S, m, Tracked(t, a), FALSE)
    BY <2>5, <2>6, <1>2, <1>5, LeavesKeepsInv
  <2>7. CASE Leaves(u, a \cup S, m, Tracked(u, a \cup S), TRUE)
    BY <2>5, <2>7, <1>5, TrackedFit, LeavesKeepsInv
  <2> QED
    BY <1>5, <2>6, <2>7 DEF u
<1> QED
  BY <1>3, <1>4, <1>5 DEF Admits

-----------------------------------------------------------------------------
\* A process that appears, or is forked, keeps the invariant.
LEMMA StartKeepsInv ==
    ASSUME ProcInv, NEW n \in Numbers, Appear(n) \/ \E p \in Numbers : Fork(p, n)
    PROVE  ProcInv'
<1>1. /\ n \in Unused(table) /\ clock < Newest /\ clock' = clock + 1
      /\ UNCHANGED <<phase, more, active, descendants, armed, harmed>>
  BY DEF Appear, Fork
<1>2. clock \in Nat /\ clock + 1 \in Times /\ table \in [Numbers -> Process]
  BY <1>1, NewestAssumption DEF ProcInv, TypeOK, Times
<1> DEFINE Newborn(q) ==
             /\ q \in Process /\ table' = [table EXCEPT ![n] = q]
             /\ q.state = "alive" /\ q.started = clock + 1
             /\ q.parent # Nobody => table[q.parent].state = "alive" /\ table[q.parent].own = q.own
             /\ \/ q.group = n
                \/ \E m \in Present(table) : q.group = table[m].group /\ q.own = table[m].own
<1>3. PICK q : Newborn(q)
  <2>1. CASE Appear(n)
    <3> DEFINE q == [state |-> "alive", started |-> clock + 1,
                     parent |-> Nobody, group |-> n, own |-> FALSE]
    <3>1. q \in Process /\ table' = [table EXCEPT ![n] = q]
      BY <2>1, <1>1, <1>2 DEF Appear, Process
    <3>2. Newborn(q)
      BY <3>1
    <3> QED
      BY <3>2
  <2>2. ASSUME NEW p \in Numbers, Fork(p, n) PROVE \E q : Newborn(q)
    <3>1. PICK g \in {table[p].group, n} :
              table' = [table EXCEPT ![n] = [state |-> "alive", started |-> clock',
                                             parent |-> p, group |-> g, own |-> table[p].own]]
      BY <2>2 DEF Fork
    <3> DEFINE q == [state |-> "alive", started |-> clock + 1,
                     parent |-> p, group |-> g, own |-> table[p].own]
    <3>2. table' = [table EXCEPT ![n] = q]
      BY <3>1, <1>1
    <3>3. table[p].state = "alive" /\ p \in Present(table)
      BY <2>2 DEF Fork, Present
    <3>4. q \in Process
      BY <1>2, <2>2 DEF Process
    <3>5. q.parent = p /\ q.own = table[p].own /\ q.group \in {table[p].group, n}
      OBVIOUS
    <3> QED
      BY <3>2, <3>3, <3>4, <3>5
  <2> QED
    BY <2>1, <2>2
<1>4. Fit(table', active, descendants, clock + 1)
  <2>1. table' \in [Numbers -> Process] /\ table'[n] = q
        /\ \A m \in Numbers \ {n} : table'[m] = table[m]
    BY <1>2, <1>3
  <2>2. {n} \in SUBSET Unused(table) /\ active \cup {} = active /\ {} \in SUBSET {n}
    BY <1>1
  <2>3. Fit(table, active, descendants, clock)
    BY DEF ProcInv
  <2>4. \A m \in {n} :
            /\ table'[m].state = "alive" /\ table'[m].started = clock + 1
            /\ table'[m].parent # Nobody =>
                 table[table'[m].parent].state = "alive" /\ table[table'[m].parent].own = table'[m].own
            /\ \/ table'[m].group = m
               \/ \E o \in Present(table) :
                      table'[m].group = table[o].group /\ table'[m].own = table[o].own
    BY <1>3, <2>1
  <2>5. \A m \in {} : table'[m].own
    OBVIOUS
  <2>6. Fit(table', active \cup {}, descendants, clock + 1)
    BY <1>2, <2>1, <2>2, <2>3, <2>4, <2>5, NewFit
  <2> QED
    BY <2>2, <2>6
<1>5. KnownAreSwept'
  <2>1. descendants[n] \in 0 .. clock
    BY DEF ProcInv, TypeOK
  <2>2. descendants[n] # clock + 1
    BY <2>1, <1>2
  <2>3. \A m \in Numbers : table'[m] = IF m = n THEN q ELSE table[m]
    BY <1>2, <1>3
  <2> QED
    BY <1>1, <1>3, <2>2, <2>3 DEF KnownAreSwept, ProcInv
<1> QED
  BY <1>1, <1>2, <1>4, <1>5 DEF ProcInv, TypeOK, Fit, SweepsSpareOthers

\* Processes that end, by themselves or at an escalation timer, keep the invariant.
LEMMA EndsKeepsInv ==
    ASSUME ProcInv, NEW S \in SUBSET Numbers, table' = Ends(table, S, active),
           UNCHANGED <<clock, phase, more, active, descendants>>,
           armed' \subseteq armed, harmed' \subseteq harmed \cup {"escalate"}
    PROVE  ProcInv'
<1>1. Fit(table', active', descendants', clock')
  BY EndsFit DEF ProcInv
<1>2. KnownAreSwept'
  <2>1. table \in [Numbers -> Process]
    BY DEF ProcInv, TypeOK
  <2>2. \A n \in Numbers : table'[n].state = "alive" =>
            /\ table[n].state = "alive" /\ table'[n].own = table[n].own
            /\ table'[n].started = table[n].started
    BY <2>1 DEF Ends, Process, Free
  <2> QED
    BY <2>2 DEF KnownAreSwept, ProcInv
<1> QED
  BY <1>1, <1>2 DEF ProcInv, TypeOK, Fit, SweepsSpareOthers

\* The close event keeps the invariant.
LEMMA CloseKeepsInv == ASSUME ProcInv, NEW c \in Numbers, Close(c) PROVE ProcInv'
<1> DEFINE t == [table EXCEPT ![c] = Free]
           a == active \ {c}
<1>1. c \in active /\ table[c].state = "ended"
  BY DEF Close, Closes
<1>2. Fit(t, a, descendants, clock) /\ Unused(table) \subseteq Unused(t)
  BY <1>1, ReapedFit DEF ProcInv
<1>3. phase # "settled" /\ more \in BOOLEAN
  BY <1>1 DEF ProcInv, KnownAreSwept, TypeOK
<1>4. CASE phase = "stopping" /\ Leaves(t, a, more, descendants, TRUE) /\ UNCHANGED clock
  BY <1>2, <1>3, <1>4, LeavesKeepsInv
<1>5. CASE phase = "running" /\ Admits(t, a)
  BY <1>2, <1>3, <1>5, AdmitsKeepsInv
<1> QED
  BY <1>4, <1>5 DEF Close, Closes

\* Every step keeps the invariant.
LEMMA NextKeepsInv == ProcInv /\ [Next]_vars => ProcInv'
<1> SUFFICES ASSUME ProcInv, [Next]_vars PROVE ProcInv'
  OBVIOUS
<1>1. Fit(table, active, descendants, clock) /\ more \in BOOLEAN
  BY DEF ProcInv, TypeOK
<1>2. ASSUME NEW n \in Numbers, Appear(n) \/ \E p \in Numbers : Fork(p, n) PROVE ProcInv'
  BY <1>2, StartKeepsInv
<1>3. ASSUME NEW n \in Numbers, Exit(n) PROVE ProcInv'
  BY <1>3, EndsKeepsInv DEF Exit
<1>4. ASSUME NEW n \in Numbers, Close(n) PROVE ProcInv'
  BY <1>4, CloseKeepsInv
<1>5. ASSUME NEW n \in Numbers, Escalate(n) PROVE ProcInv'
  <2>1. Groups(table, {n}) \in SUBSET Numbers
    BY DEF Groups, Present
  <2> QED
    BY <1>5, <2>1, EndsKeepsInv DEF Escalate
<1>6. CASE Timer
  BY <1>1, <1>6, AdmitsKeepsInv DEF Timer
<1>7. CASE Abort
  BY <1>1, <1>7, TrackedFit, LeavesKeepsInv DEF Abort, Stops
<1>8. CASE UNCHANGED vars
  BY <1>8 DEF vars, ProcInv, TypeOK, Fit, Present, Times, Process, Family, OwnGroups, Identities,
              SweepsSpareOthers, KnownAreSwept
<1> QED
  BY <1>2, <1>3, <1>4, <1>5, <1>6, <1>7, <1>8 DEF Next

\* The invariant holds before anything has started.
LEMMA InitHasInv == Init => ProcInv
<1> SUFFICES ASSUME Init PROVE ProcInv
  OBVIOUS
<1>1. Free \in Process /\ Free.state = "free"
  BY NewestAssumption DEF Free, Process, Times
<1>2. Present(table) = {} /\ \A n \in Numbers : table[n] = Free
  BY <1>1 DEF Init, Present
<1>3. clock = 0 /\ clock \in Times /\ descendants \in [Numbers -> 0 .. 0]
  BY NewestAssumption DEF Init, Times
<1>4. Fit(table, active, descendants, clock)
  BY <1>1, <1>2, <1>3 DEF Init, Fit, Family, OwnGroups, Identities
<1>5. TypeOK
  BY <1>1, <1>2, <1>3 DEF Init, TypeOK
<1> QED
  BY <1>4, <1>5 DEF Init, ProcInv, SweepsSpareOthers, KnownAreSwept

\* The invariant holds in every reachable state.
LEMMA ProcInvHolds == Spec => []ProcInv
BY InitHasInv, NextKeepsInv, PTL DEF Spec

\* Type correctness: what runLintTasks keeps of its children, their descendants and
\* their timers, beside the process table (lint-runner.ts:221-253).
THEOREM TypeCorrect == Spec => []TypeOK
<1>1. ProcInv => TypeOK
  BY DEF ProcInv
<1> QED
  BY <1>1, ProcInvHolds, PTL

\* stop() and finish() signal processes of the run only, however many processes
\* have had the same identifiers (lint-runner.ts:236-247, 276-294).
THEOREM OthersSafe == Spec => []SweepsSpareOthers
<1>1. ProcInv => SweepsSpareOthers
  BY DEF ProcInv
<1> QED
  BY <1>1, ProcInvHolds, PTL

\* What track() has ever observed does not outlive the run (lint-runner.ts:255-261).
THEOREM KnownEnd == Spec => []KnownAreSwept
<1>1. ProcInv => KnownAreSwept
  BY DEF ProcInv
<1> QED
  BY <1>1, ProcInvHolds, PTL
=============================================================================
