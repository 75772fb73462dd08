---------------------------- MODULE MemoryBudget ----------------------------
(***************************************************************************)
(* How much memory ag-lint may use (memory-budget.ts): what the system     *)
(* tells of itself, every readable control group from that of the process  *)
(* up to the mount, and the budget that follows.                           *)
(*                                                                         *)
(* Amounts are bytes of which Mib make one MiB.  A path is a sequence of   *)
(* names.  A file that is missing, unreadable or holds no number, as "max" *)
(* is, has the content Unknown.  Other processes run: what a control group *)
(* uses is whatever it is when its file is read, and "read" remembers it.  *)
(***************************************************************************)
EXTENDS Integers, Sequences, FiniteSets, Reservations
Paths == INSTANCE SequencesExt

CONSTANTS
    Mib,            \* bytes of a MiB
    MaxSafe,        \* the largest number of bytes that is not taken for "unlimited"
    Unknown,        \* the content of a file that tells no number
    Usages          \* what control groups may be using

ASSUME MibAssumption ==
    /\ Mib \in Nat \ {0} /\ MaxSafe \in Nat /\ Unknown \in Int \ Nat
    /\ Usages \subseteq Nat \cup {Unknown}

VARIABLES
    system,         \* what the files tell that does not change in the meantime
    probe           \* the snapshot that is being taken, and the directories left

\* A byte count, unless it stands for no limit.
memoryBytes(v) == IF v # Unknown /\ v <= MaxSafe THEN v ELSE Unknown
Known(S) == {memoryBytes(v) : v \in S} \ {Unknown}
Positive(n) == IF n > 0 THEN n ELSE 0
AtLeastOne(n) == IF n > 1 THEN n ELSE 1

\* What a system may tell: every content is a number or Unknown, a path a sequence of
\* names; what node and the host tell is a number if it is there.
Readings == Nat \cup {Unknown}
SystemOK(s) ==
    /\ s.linux \in BOOLEAN /\ s.parallelism \in Int /\ {s.total, s.available} \subseteq Nat
    /\ s.memTotal \cup s.memAvailable \subseteq Readings
    /\ \A r \in s.rlimits : r \subseteq Readings
    /\ \A k \in DOMAIN s.memberships : k \in Nat /\ s.memberships[k].path \in Seq(STRING)
    /\ \A k \in DOMAIN s.mounts : k \in Nat /\ s.mounts[k].root \in Seq(STRING)
    /\ \A f \in DOMAIN s.files : \A name \in {"max", "high", "quota", "period"} :
           s.files[f][name] \in Readings
    /\ s.constrained \cup s.hostLimit \cup s.hostAvailable \subseteq Int

Unprobed ==
    [todo |-> <<>>, total |-> 0, available |-> 0, parallelism |-> 1,
     constraints |-> {}, rlimits |-> {}, read |-> {}, failed |-> FALSE]

-----------------------------------------------------------------------------
\* Does the membership e tell the place of the process in the hierarchy mounted at m?
Belongs(e, m) ==
    IF m.kind = "cgroup2" THEN e.identifier = 0
    ELSE e.controllers \cap m.controllers \cap {"memory", "cpu", "cpuset"} # {}

Membership(m) ==
    LET fitting == {k \in DOMAIN system.memberships : Belongs(system.memberships[k], m)}
    IN  IF fitting = {} THEN {} ELSE {system.memberships[Least(fitting)].path}

\* The directories of the process in the hierarchy mounted at m, its own first and the
\* mount last; none if its group is outside of what is mounted.
Walk(m) ==
    LET Inside(path) == path = <<>> \/ Paths!IsPrefix(m.root, path)
        Suffix(path) == IF path = <<>> THEN <<>>
                        ELSE SubSeq(path, Len(m.root) + 1, Len(path))
        Chain(path) == [k \in 1 .. Len(Suffix(path)) + 1 |->
            [kind |-> m.kind, at |-> m.at,
             below |-> SubSeq(Suffix(path), 1, Len(Suffix(path)) + 1 - k)]]
        chains == {Chain(path) : path \in {p \in Membership(m) : Inside(p)}}
    IN  IF chains = {} THEN <<>> ELSE CHOOSE c \in chains : TRUE

\* What /proc says: the limits of the process, the memory of the guest, the mounts.
ReadProc ==
    LET first(S, default) == IF Known(S) = {} THEN default ELSE CHOOSE v \in Known(S) : TRUE
    IN  probe' =
            [Unprobed EXCEPT
                !.parallelism = AtLeastOne(system.parallelism),
                !.total = IF system.linux THEN first(system.memTotal, system.total)
                          ELSE system.total,
                !.available = IF system.linux THEN first(system.memAvailable, system.available)
                              ELSE system.available,
                !.rlimits = IF system.linux
                            THEN {Least(Known(r)) : r \in {s \in system.rlimits : Known(s) # {}}}
                            ELSE {},
                !.todo = IF system.linux
                         THEN [k \in DOMAIN system.mounts |-> Walk(system.mounts[k])]
                         ELSE <<>>]

-----------------------------------------------------------------------------
File(d, name) ==
    IF <<d.at, d.below>> \in DOMAIN system.files
    THEN system.files[<<d.at, d.below>>][name] ELSE Unknown

\* Faulty variant: unreadable usage counts as none.
OptimisticConstraints(d, usage) ==
    LET limit == memoryBytes(File(d, "max"))
        used == IF usage = Unknown THEN 0 ELSE usage
    IN  IF limit = Unknown THEN {}
        ELSE {[source |-> d, limit |-> limit, used |-> used, soft |-> FALSE]}

\* The constraints that the directory d adds while it uses this much.
Constraints(d, usage) ==
    LET limit == memoryBytes(File(d, "max"))
        high == IF d.kind = "cgroup2" THEN memoryBytes(File(d, "high")) ELSE Unknown
    IN  {c \in {[source |-> d, limit |-> limit, soft |-> FALSE,
                 used |-> IF usage = Unknown THEN limit ELSE usage],
                [source |-> d, limit |-> high, soft |-> TRUE, used |-> usage]} :
            c.limit # Unknown /\ c.used # Unknown}

\* The processors that the quota of d leaves.
Quota(d, parallelism) ==
    LET quota == File(d, "quota")
        period == File(d, "period")
    IN  IF quota <= 0 \/ period <= 0 THEN parallelism
        ELSE AtLeastOne(Smaller(parallelism, quota \div period))

\* Has the loop over the mounts ended?  What is left of each walk is in todo.
Visited == \A m \in DOMAIN probe.todo : probe.todo[m] = <<>>

\* One iteration of the loop over directories: of the first mount that has any left.
Visit ==
    \E m \in DOMAIN probe.todo :
        /\ probe.todo[m] # <<>> /\ \A n \in DOMAIN probe.todo : n < m => probe.todo[n] = <<>>
        /\ LET d == Head(probe.todo[m])
           IN  \E usage \in {memoryBytes(u) : u \in Usages} :
               probe' = [probe EXCEPT
                   !.todo[m] = Tail(@),
                   !.constraints = @ \cup Constraints(d, usage),
                   !.parallelism = Quota(d, @),
                   !.read = @ \cup {[source |-> d, usage |-> usage]}]

\* What the process knows of its own limit and was told of its host.
Provision ==
    LET own == {[source |-> "node", limit |-> c, used |-> Positive(c - system.available),
                 soft |-> FALSE] : c \in {x \in system.constrained : 0 < x /\ x < probe.total}}
        free == IF system.hostAvailable = {} THEN {0} ELSE {a * Mib : a \in system.hostAvailable}
        host == {[source |-> "host", limit |-> h * Mib, used |-> Positive(h * Mib - a),
                  soft |-> FALSE] : h \in system.hostLimit, a \in free}
        invalid == \/ \E n \in system.hostLimit \cup system.hostAvailable : n < 1
                   \/ system.hostLimit = {} /\ system.hostAvailable # {}
    IN  [probe EXCEPT !.constraints = @ \cup own \cup host, !.failed = invalid]

-----------------------------------------------------------------------------
HardBytes(s) == Least({s.total} \cup {c.limit : c \in {x \in s.constraints : ~x.soft}})
AvailableBytes(s) ==
    Positive(Least({s.available, HardBytes(s)}
                 \cup {Positive(c.limit - c.used) : c \in s.constraints}))

Refused == [refused |-> TRUE, max |-> 0, available |-> 0]

\* The budget in MiB for the snapshot s, if that many MiB are asked for: none or one.
resolveMemoryBudget(s, requested) ==
    LET automatic == (AvailableBytes(s) * 4) \div (5 * Mib)
        max == IF requested = {} THEN automatic ELSE CHOOSE r \in requested : TRUE
    IN  IF s.total = 0 \/ max < 1 \/ max > HardBytes(s) \div Mib THEN Refused
        ELSE [refused |-> FALSE, max |-> max, available |-> AvailableBytes(s) \div Mib]
=============================================================================
