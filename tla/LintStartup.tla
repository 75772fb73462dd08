---------------------------- MODULE LintStartup -----------------------------
(***************************************************************************)
(* What runLintCli decides before it starts anything (lint-cli.ts): from   *)
(* its arguments, its environment and the probe of the memory, the threads *)
(* and the reservation of the command and whether it may be split.         *)
(***************************************************************************)
EXTENDS LintArguments, MemoryBudget

CONSTANTS
    Commands,               \* command lines with the environment of the command
    THREAD_MEMORY_MIB, COMMAND_MEMORY_MIB, MINIMUM_WORKER_MIB, RESERVATION_MARGIN_MIB

ASSUME CommandsAssumption ==
    \A c \in Commands :
        /\ SystemOK(c.system) /\ c.own \in Nat
        /\ c.argv \in Seq({c.argv[i] : i \in DOMAIN c.argv})
        /\ \A i \in DOMAIN c.argv :
               /\ c.argv[i] = [name |-> c.argv[i].name, value |-> c.argv[i].value]
               /\ \A v, w \in c.argv[i].value : v = w
        /\ \A p, q \in c.inherited : p = q /\ p.maxMiB \in Nat
ASSUME MemoryAssumption ==
    /\ MINIMUM_WORKER_MIB \in Nat \ {0} /\ RESERVATION_MARGIN_MIB \in Nat
    /\ THREAD_MEMORY_MIB \in Nat /\ THREAD_MEMORY_MIB >= MINIMUM_WORKER_MIB
    /\ COMMAND_MEMORY_MIB \in Nat /\ COMMAND_MEMORY_MIB >= MINIMUM_WORKER_MIB

VARIABLES
    command,                \* the command line and the environment
    stage,                  \* how far the command is
    parsed,                 \* what its arguments are
    plan,                   \* how it may be split
    outcome                 \* what was decided

startupVars == <<system, probe, command, stage, parsed, plan, outcome>>

Undecided == [threads |-> 0, reservation |-> 0, budget |-> 0, cached |-> FALSE]

StartupInit ==
    /\ command \in Commands /\ system = command.system
    /\ probe = Unprobed /\ stage = "begun" /\ outcome = Undecided
    /\ parsed = Unparsed /\ plan = Unplanned

\* parseLintArguments: the next argument.
ReadArgument ==
    /\ stage = "begun" /\ ~parsed.rejected /\ parsed.index <= Len(command.argv)
    /\ parsed' = ParseStep(command.argv, parsed)
    /\ UNCHANGED <<system, probe, command, stage, plan, outcome>>

\* All arguments are read before anything is probed.
ArgumentsRead ==
    /\ stage = "begun" /\ (parsed.rejected \/ parsed.index > Len(command.argv))
    /\ \/ /\ parsed.rejected
          /\ stage' = "rejected" /\ UNCHANGED probe
       \/ /\ ~parsed.rejected /\ parsed.option["--help"] # {}
          /\ stage' = "help" /\ UNCHANGED probe
       \/ /\ ~parsed.rejected /\ parsed.option["--help"] = {}
          /\ stage' = "probing" /\ ReadProc
    /\ UNCHANGED <<system, command, parsed, plan, outcome>>

ProbeDirectory ==
    /\ stage = "probing" /\ Visit
    /\ UNCHANGED <<system, command, stage, parsed, plan, outcome>>

-----------------------------------------------------------------------------
AskedMiB ==
    {Numbers[n] : n \in {w.name : w \in parsed.option["--max-mem"]} \cap DOMAIN Numbers}
InheritedMiB == {p.maxMiB : p \in command.inherited}
ParentLease == IF command.parentLease = {} THEN 0 ELSE CHOOSE l \in command.parentLease : TRUE

Budget(snapshot) ==
    IF \E a \in AskedMiB, i \in InheritedMiB : a > i THEN Refused
    ELSE resolveMemoryBudget(snapshot, IF AskedMiB # {} THEN AskedMiB ELSE InheritedMiB)

\* The bytes that the command may count on, without what its processes use already.
Headroom(snapshot, budget) ==
    Least({budget.max * Mib, budget.available * Mib} \cup snapshot.rlimits) - command.own * Mib

External == parsed.option["--command"] # {}

AutomaticThreads(snapshot, headroom) ==
    AtLeastOne(Smaller(IF command.inherited # {} THEN 1 ELSE snapshot.parallelism,
                       AtLeastOne(headroom \div (THREAD_MEMORY_MIB * Mib))))

\* The threads of the command, none if it asks for more than there are.
ThreadsOf(automatic) ==
    LET asked == IF External THEN {} ELSE RequestedThreads(parsed.args)
        valued == {Numbers[w.name] : w \in {x \in asked :
                       x.value = {} /\ x.name \in DOMAIN Numbers}}
    IN  IF asked = {} THEN {automatic} ELSE {n \in valued : 1 <= n /\ n <= automatic}

Reservation(headroom, threads) ==
    Smaller(IF External THEN COMMAND_MEMORY_MIB ELSE threads * THREAD_MEMORY_MIB,
            (headroom - RESERVATION_MARGIN_MIB * Mib) \div Mib)

\* From the complete probe to the threads and the reservation.  A command below another one, or
\* one that is not the engine, is not split.
Decide ==
    /\ stage = "probing" /\ Visited
    /\ LET snapshot == Provision
           budget == Budget(snapshot)
           headroom == Headroom(snapshot, budget)
           threads == ThreadsOf(AutomaticThreads(snapshot, headroom))
           Leased(n) == ParentLease > 0 /\ command.inherited # {} =>
                            Reservation(headroom, n) <= ParentLease
           refused == \/ snapshot.failed \/ budget.refused
                      \/ headroom < (MINIMUM_WORKER_MIB + RESERVATION_MARGIN_MIB) * Mib
       IN  \/ /\ refused \/ ~\E n \in threads : Leased(n)
              /\ stage' = "rejected" /\ UNCHANGED <<plan, outcome>>
           \/ /\ ~refused
              /\ stage' = "planning"
              /\ plan' = [Unplanned EXCEPT !.whole = External \/ command.inherited # {}]
              /\ \E n \in threads :
                     /\ Leased(n)
                     /\ outcome' = [threads |-> n, reservation |-> Reservation(headroom, n),
                                    budget |-> budget.max,
                                    cached |-> parsed.option["--cache"] # {}]
    /\ UNCHANGED <<system, probe, command, parsed>>

\* planSharding: the next argument of the engine.
PlanArgument ==
    /\ stage = "planning" /\ ~plan.whole /\ plan.index <= Len(parsed.args)
    /\ plan' = PlanStep(parsed.args, plan)
    /\ UNCHANGED <<system, probe, command, stage, parsed, outcome>>

\* The last step before the session is started.
PlanMade ==
    /\ stage = "planning" /\ (plan.whole \/ plan.index > Len(parsed.args))
    /\ plan' = Planned(plan) /\ stage' = "ready"
    /\ UNCHANGED <<system, probe, command, parsed, outcome>>

StartupEnded == stage \in {"rejected", "help", "ready"}

StartupNext ==
    ReadArgument \/ ArgumentsRead \/ ProbeDirectory \/ Decide \/ PlanArgument \/ PlanMade

-----------------------------------------------------------------------------
\* The directories that tell a limit of the process: those of its control groups.
Groups == UNION {{w[k] : k \in DOMAIN w} :
                 w \in {Walk(system.mounts[m]) : m \in DOMAIN system.mounts}}

UsageRead(d) == {r.usage : r \in {x \in probe.read : x.source = d}}
LimitOf(d, name) == {memoryBytes(File(d, name))} \ {Unknown}

\* What is decided fits into everything that was read.
Fits(decided) ==
    LET need == (decided.reservation + RESERVATION_MARGIN_MIB + command.own) * Mib
        Leaves(limit, usage) == usage # Unknown /\ need <= limit - usage
    IN  /\ decided.reservation >= MINIMUM_WORKER_MIB
        /\ decided.threads > 1 =>
               /\ decided.threads <= probe.parallelism /\ command.inherited = {}
               /\ (decided.threads * THREAD_MEMORY_MIB + command.own) * Mib <= probe.available
        /\ \A m \in InheritedMiB : decided.budget <= m
        /\ system.linux =>
            /\ \A d \in Groups :
                /\ \A limit \in LimitOf(d, "max"), u \in UsageRead(d) :
                       Leaves(limit, u) /\ decided.budget * Mib <= limit
                /\ \A limit \in LimitOf(d, "high") \cap
                                (IF d.kind = "cgroup2" THEN Nat ELSE {}), u \in UsageRead(d) :
                       u # Unknown => Leaves(limit, u)
                /\ UsageRead(d) # {}
            /\ \A r \in system.rlimits : \A v \in Known(r) : need <= v
        /\ \A h \in system.hostLimit :
               /\ decided.budget <= h
               /\ \E a \in system.hostAvailable : need <= a * Mib

\* Safety (memory-budget.ts:84-120 and 185-243, lint-cli.ts:135-147): what a command
\* reserves, with the margin and what its processes use already, fits into what every
\* visible control group above it leaves, hard or soft, at the moment when its usage was
\* read, and into no group whose usage could not be read; it is enough for a worker and
\* for each of several threads, and the budget is within every hard limit and within
\* that of the command above.
ReservationFits == stage \in {"planning", "ready"} => Fits(outcome)

\* The positions that a sequence of positions has, and whether it tells where the items of s
\* are among those of t, in the same order.
Places(place) == {place[k] : k \in DOMAIN place}
InOrder(s, t, place) ==
    /\ DOMAIN place = DOMAIN s
    /\ \A k \in DOMAIN place : s[k] = t[place[k]]
    /\ \A j, k \in DOMAIN place : j < k => place[j] < place[k]

\* Is the token an option of ag-lint, and one whose value is the next token?
Own(t) == t.name \in WRAPPER_OPTIONS
TakesNext(t) == Own(t) /\ t.name \notin {"--help", "--cache"} /\ t.value = {}

\* Of the first n tokens, args are those of the engine, at these places, and the others are
\* options of ag-lint, their values, and one double dash before such an option.
RestOf(argv, n, args, place) ==
    LET kept == Places(place)
        taken == 1 .. n \ kept
        ends == {k \in kept : argv[k] = Separator}
        dashes == {k \in taken : argv[k] = Separator}
    IN  /\ InOrder(args, argv, place)
        /\ \A i \in kept : Own(argv[i]) => \E k \in ends : k < i
        /\ \A i \in taken, k \in ends : i < k
        /\ \A j, k \in dashes : j = k
        /\ \A i \in taken :
               \/ Own(argv[i])
               \/ i \in dashes /\ i < Len(argv) /\ Own(argv[i + 1])
               \/ i - 1 \in taken /\ TakesNext(argv[i - 1])

\* Safety (lint-arguments.ts:24-72): whatever is accepted, the arguments for the engine are
\* those that were given, in order, without the options of ag-lint and their values and
\* without at most one double dash; no option of ag-lint reaches the engine but behind a
\* double dash, and nothing behind that one is taken away.
EngineSeesTheRest ==
    stage \in {"probing", "planning", "ready"} =>
        \E place \in [DOMAIN parsed.args -> DOMAIN command.argv] :
            RestOf(command.argv, Len(command.argv), parsed.args, place)

\* The options are the arguments at these places, of which one with an inline value is two.
SpelledOut(options, args, place) ==
    /\ DOMAIN place = DOMAIN options
    /\ \A j, k \in DOMAIN place : j < k => place[j] <= place[k]
    /\ \A i \in Places(place) : \E k \in DOMAIN place :
           LET words == {j \in DOMAIN place : place[j] = i}
           IN  \/ words = {k} /\ options[k] = args[i]
              \/ /\ words = {k, k + 1} /\ options[k] = Word(args[i].name)
                 /\ {options[k + 1]} = {Word(v) : v \in args[i].value}

\* Of the first n arguments, the targets of a plan are those at one list of places and its
\* options those at another one; the others are for the report and the threads, or the double
\* dash at the end, behind which there are only targets.
SplitOf(args, n, p, targetsAt, optionsAt, end) ==
    LET T == Places(targetsAt)
        O == Places(optionsAt)
        rest == 1 .. n \ (T \cup O \cup {end})
        Behind(i, names) == args[i - 1].name \in names /\ args[i - 1].value = {}
    IN  /\ InOrder(p.targets, args, targetsAt) /\ SpelledOut(p.options, args, optionsAt)
        /\ T \cap O = {}
        /\ end <= n => end \notin T \cup O /\ args[end] = Separator /\ end + 1 .. n \subseteq T
        /\ \A i \in T : args[i].name \in DashDashed \cup Dashed => end < i
        /\ \A i \in O : \/ args[i].name \in FlagNames \cup ValueNames
                        \/ i - 1 \in O /\ Behind(i, ValueNames)
        /\ \A i \in rest : \/ args[i].name \in ReportFlags \cup ReportValues
                           \/ i - 1 \in rest /\ Behind(i, ReportValues)

\* Safety (lint-shard.ts:79-130): a command is only split if each of its arguments is a
\* target, an option that every process is given too, or one of the options for reports
\* and threads that the merged report reproduces; what is behind a double dash is a target.
SplitLosesNothing ==
    stage = "ready" /\ ~plan.whole =>
        LET args == parsed.args
        IN  \E targetsAt \in [DOMAIN plan.targets -> DOMAIN args],
               optionsAt \in [DOMAIN plan.options -> DOMAIN args],
               end \in 1 .. Len(args) + 1 :
                   SplitOf(args, Len(args), plan, targetsAt, optionsAt, end)
=============================================================================
