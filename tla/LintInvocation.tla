--------------------------- MODULE LintInvocation ---------------------------
(***************************************************************************)
(* A lint command that is run by itself, from its arguments to its report: *)
(* LintStartup decides the threads and whether the command may be split,   *)
(* the engine discovers the files, LintShards does the rest.               *)
(***************************************************************************)
EXTENDS LintShards, LintStartup

shardVars == vars
Unused == [order |-> <<>>]
Forgotten == [argv |-> <<>>]

InvocationInit ==
    /\ StartupInit /\ Empty
    /\ input = Unused /\ phase = "starting"

Start == StartupNext /\ UNCHANGED shardVars

\* The command is one that may be split.  What is not looked at any more is forgotten,
\* so that commands that differ in nothing else go on as one.
Split ==
    /\ stage = "ready" /\ ~plan.whole
    /\ stage' = "split" /\ probe' = Unprobed
    /\ outcome' = [Undecided EXCEPT !.threads = outcome.threads, !.cached = outcome.cached]
    /\ system' = Forgotten /\ command' = Forgotten
    /\ parsed' = Unparsed /\ plan' = Unplanned
    /\ UNCHANGED shardVars

\* discoverFiles.  A discovery that fails yields no files.
Discover ==
    /\ stage = "split" /\ phase = "starting"
    /\ phase' = "discovered"
    /\ input' \in Discovered(outcome.threads, outcome.cached)
    /\ UNCHANGED startupVars
    /\ UNCHANGED <<loads, shards, batch, tasks, outputs, report>>

Shard == phase # "starting" /\ Next /\ UNCHANGED startupVars

\* Rejected, help, or left to one process.
Done ==
    /\ stage \in {"rejected", "help"} \/ (stage = "ready" /\ plan.whole)
    /\ UNCHANGED startupVars /\ UNCHANGED shardVars

InvocationNext == Start \/ Split \/ Discover \/ Shard \/ Done

InvocationSpec == InvocationInit /\ [][InvocationNext]_<<shardVars, startupVars>>
=============================================================================
