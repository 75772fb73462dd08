--------------------------- MODULE LintArguments ---------------------------
(***************************************************************************)
(* How ag-lint reads its command line: which options are its own           *)
(* (lint-arguments.ts) and whether the remaining ones allow one command to *)
(* be split over several processes (planSharding in lint-shard.ts).        *)
(*                                                                         *)
(* A token is its name and, after an equals sign, its value: none or one,  *)
(* as a set.  Which names look like options is given by two sets, and what *)
(* a word is worth as a number by a function.                              *)
(***************************************************************************)
EXTENDS Integers, Sequences, FiniteSets

CONSTANTS
    DashDashed,     \* the names that begin with two dashes
    Dashed,         \* the names that begin with one dash only, and are longer
    Numbers,        \* the value of each word that is written as a number
    FlagNames,      \* FLAG_OPTIONS of lint-shard.ts
    ValueNames      \* VALUE_OPTIONS of lint-shard.ts

ASSUME NumbersAssumption == Numbers \in [DOMAIN Numbers -> Nat]

Word(name) == [name |-> name, value |-> {}]
Inline(name, value) == [name |-> name, value |-> {value}]
Separator == Word("--")

WRAPPER_OPTIONS ==
    {"--max-mem", "--profile", "--command", "--help", "--cache", "--cache-location"}

ASSUME NamesAssumption == {"--"} \cup WRAPPER_OPTIONS \subseteq DashDashed

\* The token behind position i, if there is one.
Following(s, i) == IF i < Len(s) THEN {s[i + 1]} ELSE {}

\* A positive number of MiB.
ParsesMaxMemory(w) == w \in DOMAIN Numbers /\ Numbers[w] > 0

Unparsed ==
    [index |-> 1, separated |-> FALSE, rejected |-> FALSE, args |-> <<>>,
     option |-> [o \in WRAPPER_OPTIONS |-> {}]]

\* The wrapper option at position i and its value.
ReadOption(argv, s, i) ==
    LET t == argv[i]
        inline == {Word(v) : v \in t.value}
        value == IF inline = {} THEN Following(argv, i) ELSE inline
        usable == \E v \in value :
            v.name # "" /\ v.name \notin DashDashed
            /\ (t.name = "--max-mem" => v.value = {} /\ ParsesMaxMemory(v.name))
        flag == t.name \in {"--help", "--cache"}
    IN  IF \/ s.option[t.name] # {}
           \/ flag /\ inline # {}
           \/ ~flag /\ ~usable
        THEN [s EXCEPT !.rejected = TRUE]
        ELSE [s EXCEPT !.option[t.name] = IF flag THEN {t} ELSE value,
                       !.index = i + (IF flag \/ inline # {} THEN 1 ELSE 2)]

\* Faulty variant: every double dash before an option is taken away.
GreedyForwards(argv, s, i) == \E n \in Following(argv, i) : n.name \in WRAPPER_OPTIONS

\* Is the double dash at position i the one that a package manager put in front of
\* the options of ag-lint?
Forwards(argv, s, i) ==
    /\ ~s.separated
    /\ \E n \in Following(argv, i) : n.name \in WRAPPER_OPTIONS /\ s.option[n.name] = {}

\* One iteration of the loop of parseLintArguments.
ParseStep(argv, s) ==
    LET i == s.index
        t == argv[i]
    IN  IF t = Separator
        THEN IF Forwards(argv, s, i)
             THEN [s EXCEPT !.separated = TRUE, !.index = i + 1]
             ELSE [s EXCEPT !.args = @ \o SubSeq(argv, i, Len(argv)), !.index = Len(argv) + 1]
        ELSE IF t.name \in WRAPPER_OPTIONS THEN ReadOption(argv, s, i)
        ELSE [s EXCEPT !.args = Append(@, t), !.index = i + 1]

-----------------------------------------------------------------------------
Unplanned ==
    [index |-> 1, whole |-> FALSE, format |-> {}, options |-> <<>>, targets |-> <<>>,
     flags |-> {}, maxWarnings |-> {}]

ReportFlags == {"--quiet", "--silent", "--deny-warnings"}
ReportValues == {"-f", "--format", "--max-warnings", "--threads"}

\* Faulty variant: the argument behind is skipped also when the value is inline.
SkippingPlanValue(args, s, i) ==
    LET value == {Word(v) : v \in args[i].value}
    IN  [s EXCEPT !.index = i + 2, !.format = IF args[i].name = "--format" THEN value ELSE @]

\* The option at position i that takes a value: what it does to the plan.
PlanValue(args, s, i) ==
    LET name == args[i].name
        inline == {Word(v) : v \in args[i].value}
        value == IF inline = {} THEN Following(args, i) ELSE inline
        next == [s EXCEPT !.index = i + (IF inline = {} THEN 2 ELSE 1)]
        whole == [s EXCEPT !.whole = TRUE]
    IN  IF value = {} THEN whole
        ELSE CASE name \in {"-f", "--format"} -> [next EXCEPT !.format = value]
             []   name = "--threads" -> next
             []   name = "--max-warnings" ->
                      IF \A v \in value : v.value = {} /\ v.name \in DOMAIN Numbers
                      THEN [next EXCEPT !.maxWarnings = {Numbers[v.name] : v \in value}]
                      ELSE whole
             []   OTHER -> [next EXCEPT !.options =
                      @ \o <<Word(name), CHOOSE v \in value : TRUE>>]

\* One iteration of the loop of planSharding.  "whole" is where it returns undefined:
\* the command has to stay in one process.  The value of an option with one dash is
\* never behind an equals sign.
PlanStep(args, s) ==
    LET i == s.index
        t == args[i]
        plain == t.value = {}
    IN  IF t = Separator
        THEN [s EXCEPT !.targets = @ \o SubSeq(args, i + 1, Len(args)), !.index = Len(args) + 1]
        ELSE IF t.name \notin DashDashed \cup Dashed
        THEN [s EXCEPT !.targets = Append(@, t), !.index = i + 1]
        ELSE IF t.name \in FlagNames /\ plain
        THEN [s EXCEPT !.options = Append(@, t), !.index = i + 1]
        ELSE IF t.name \in ReportFlags /\ plain
        THEN [s EXCEPT !.flags = @ \cup {t.name}, !.index = i + 1]
        ELSE IF t.name \in ValueNames \cup ReportValues /\ (plain \/ t.name \in DashDashed)
        THEN PlanValue(args, s, i)
        ELSE [s EXCEPT !.whole = TRUE]

\* The merged report is one of these.
Planned(plan) ==
    IF plan.format \subseteq {Word("json"), Word("unix")} /\ plan.format # {}
    THEN plan ELSE [plan EXCEPT !.whole = TRUE]

\* The threads that runLintCli takes the command to ask for.
RequestedThreads(args) ==
    LET inline == {i \in DOMAIN args : args[i].name = "--threads" /\ args[i].value # {}}
        plain == {i \in DOMAIN args : args[i] = Word("--threads")}
        First(I) == CHOOSE i \in I : \A j \in I : i <= j
    IN  IF inline # {} THEN {Word(v) : v \in args[First(inline)].value}
        ELSE IF plain # {} THEN Following(args, First(plain)) ELSE {}
=============================================================================
