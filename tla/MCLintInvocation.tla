-------------------------- MODULE MCLintInvocation --------------------------
(* Command lines of up to four tokens on a plain system; and few of them on *)
(* many systems: control groups of either kind, one to three levels deep,   *)
(* with and without limits, quotas, a host and a command above.             *)
EXTENDS LintInvocation
LOCAL INSTANCE SequencesExt

NotANumber == -1
MCUsages == {3, 9, NotANumber}

MCDashDashed == WRAPPER_OPTIONS \cup ReportFlags \cup
    {"--", "--format", "--max-warnings", "--threads", "--fix", "--config", "--vue-plugin"}
MCDashed == {"-f", "-c"}
MCNumbers == [w \in {"0", "1", "2", "4", "20", "99"} |->
    CASE w = "0" -> 0 [] w = "1" -> 1 [] w = "2" -> 2 [] w = "4" -> 4 [] w = "20" -> 20
    [] OTHER -> 99]

Free == [max |-> Unknown, high |-> Unknown, quota |-> Unknown, period |-> 2]
Limit(n) == [Free EXCEPT !.max = n]
High(n) == [Free EXCEPT !.high = n]
Cpu(n) == [Free EXCEPT !.quota = n]

\* Four processors, 48 bytes of which 44 are free; two bytes are a MiB.
PlainSystem ==
    [linux |-> TRUE, total |-> 48, available |-> 44, parallelism |-> 4,
     memTotal |-> {}, memAvailable |-> {}, rlimits |-> {}, memberships |-> <<>>,
     mounts |-> <<>>, files |-> <<>>, constrained |-> {}, hostLimit |-> {},
     hostAvailable |-> {}]

Unified == [kind |-> "cgroup2", controllers |-> {}, root |-> <<>>, at |-> "unified"]
Legacy == [kind |-> "cgroup", controllers |-> {"memory"}, root |-> <<"a">>, at |-> "legacy"]
Outside == [kind |-> "cgroup2", controllers |-> {}, root |-> <<"z">>, at |-> "outside"]
InUnified(path) == [identifier |-> 0, controllers |-> {}, path |-> path]
InLegacy(path) == [identifier |-> 4, controllers |-> {"memory", "pids"}, path |-> path]

\* Two levels of either hierarchy with every pair of contents.
Contents == {Free, Limit(12), Limit(30), High(20), Cpu(4), Limit(1000)}
Hierarchies ==
    {[PlainSystem EXCEPT !.memberships = <<InLegacy(<<"a", "b">>), InUnified(<<"a">>)>>,
                         !.mounts = ms,
                         !.files = <<"unified", <<"a">>>> :> f @@ <<"unified", <<>>>> :> g
                                   @@ <<"legacy", <<"b">>>> :> f @@ <<"legacy", <<>>>> :> g] :
        f \in Contents, g \in Contents,
        ms \in {<<Unified>>, <<Legacy>>, <<Legacy, Outside, Unified>>}}

Others ==
    {[PlainSystem EXCEPT !.hostLimit = h, !.hostAvailable = a, !.rlimits = r,
                         !.constrained = c, !.memAvailable = {m}, !.linux = l] :
        h \in {{}, {15}, {0}}, a \in {{}, {12}, {25}}, r \in {{}, {{Unknown, 24}, {22, 31}}},
        c \in {{}, {26}}, m \in {36, 2000}, l \in BOOLEAN}

Line(argv, s, inherited, lease, own) ==
    [argv |-> argv, system |-> s, inherited |-> inherited, parentLease |-> lease, own |-> own]

Tokens == {Word("--max-mem"), Word("4"), Inline("--max-mem", "4"), Word("--cache"), Separator,
           Inline("--format", "json"), Word("--fix"), Inline("--threads", "2"), Word("--quiet")}
MoreTokens == Tokens \cup
    {Word("--help"), Word("--command"), Word("src"), Word("-f"), Word("json"),
     Word("--threads"), Word("-c"), Inline("-c", "x"), Inline("--config", "x"),
     Inline("--max-warnings", "0")}
Json == <<Inline("--format", "json")>>

MCCommands ==
    {Line(argv, PlainSystem, {}, {}, 0) :
        argv \in TupleOf(Tokens, 4) \cup SeqOf(MoreTokens, 3)} \cup
    {Line(argv, s, i, l, own) :
        argv \in {Json, Json \o <<Inline("--threads", "2")>>, <<Inline("--max-mem", "99")>>,
                  <<Inline("--max-mem", "20")>>, <<Inline("--command", "tool")>>},
        s \in Hierarchies \cup Others,
        <<i, l>> \in {<<{}, {}>>, <<{[maxMiB |-> 12]}, {}>>, <<{[maxMiB |-> 12]}, {4}>>},
        own \in {0, 1}}

\* Four files, of which each suffices for a shard, so that shards have one to four files,
\* and as many of no size as of any other one.
MCOrders == {<<>>, <<1, 2, 3, 4>>, <<3, 1, 4, 2>>}
MCBytes == <<1, 2, 1, 3>>

At(offset, severity) == [offset |-> offset, severity |-> severity]

\* Two diagnostics at one offset, two that the engine gives in descending order.
MCFindings == {
    <<<<>>, <<>>, <<>>, <<>>>>,
    <<<<At(2, "warning"), At(1, "error")>>, <<>>, <<At(1, "warning"), At(1, "error")>>, <<>>>>,
    <<<<At(3, "warning")>>, <<At(2, "warning"), At(1, "warning")>>, <<>>, <<At(0, "advice")>>>> }

Policy(quiet, silent, deny, most) ==
    [quiet |-> quiet, silent |-> silent, denyWarnings |-> deny, maxWarnings |-> most]

MCPolicies == {
    Policy(FALSE, FALSE, FALSE, {}), Policy(TRUE, FALSE, TRUE, {}),
    Policy(TRUE, FALSE, FALSE, {2}), Policy(FALSE, TRUE, FALSE, {3}) }
=============================================================================
