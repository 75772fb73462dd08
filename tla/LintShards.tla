----------------------------- MODULE LintShards -----------------------------
(***************************************************************************)
(* How ag-lint splits the files of one lint command over processes and     *)
(* merges their reports: lint-shard.ts, lint-batch.ts and the part of      *)
(* lint-cli.ts that uses them.                                             *)
(*                                                                         *)
(* A file is its rank among the names, as localeCompare orders them.  The  *)
(* files do not change (LintCache is about those that do), so the engine   *)
(* and the cache find the same in them.  A diagnostic is the file, its     *)
(* number there, its offset and its severity.  One step is one iteration   *)
(* of a loop of the code; processes report in any order.                   *)
(***************************************************************************)
EXTENDS Integers, Sequences, FiniteSets, Reservations

CONSTANTS
    Files,          \* the files that may be discovered
    Orders,         \* the orders in which they may be discovered
    Sizes,          \* the sizes that they may have
    Findings,       \* what the engine may find in them
    Bytes,          \* the bytes that each name takes on a command line
    Capacities,     \* the bytes that a command line may have for names
    FilesPerShard,
    Policies        \* report options: quiet, silent, denyWarnings, maxWarnings

ASSUME FilesAssumption ==
    /\ Files \subseteq Nat /\ IsFiniteSet(Files)
    /\ \A o \in Orders :
           o \in Seq(Files) /\ \A i, j \in DOMAIN o : o[i] = o[j] => i = j
    /\ Sizes \subseteq Nat /\ Bytes \in [Files -> Nat \ {0}]
ASSUME LimitsAssumption ==
    /\ Capacities \subseteq Int
    /\ FilesPerShard \in Nat \ {0}
ASSUME ReportsAssumption ==
    /\ \A found \in Findings :
           found \in [Files -> Seq([offset : Nat, severity : {"error", "warning", "advice"}])]
    /\ \A p \in Policies : p.maxWarnings \subseteq Nat

VARIABLES
    input,      \* what the command has been given, and finds in the directory
    phase,      \* how far it is
    loads,      \* the files of each shard
    shards,     \* the files of each shard that are not in a batch yet
    batch,      \* the batch that is being filled
    tasks,      \* the batches that are complete, one task each
    outputs,    \* the files in the reports of the tasks, as each report has them
    report      \* what is printed, the exit status and the number of files

vars == <<input, phase, loads, shards, batch, tasks, outputs, report>>

FilesIn(s) == {s[i] : i \in DOMAIN s}

\* What is in S, each behind all that R puts before it.
Ranked(S, R) ==
    [i \in 1 .. Cardinality(S) |->
        CHOOSE x \in S : Cardinality({y \in S : <<y, x>> \in R}) = i - 1]

Nothing == [policy |-> {}, shown |-> <<>>, status |-> 0, files |-> 0]

-----------------------------------------------------------------------------
\* The files that the engine discovers, with their sizes and cache entries, and what the
\* engine would find in them.
Discovered(threads, cached) ==
    {i \in [order : Orders, size : [Files -> Sizes], found : Findings, cached : {cached},
            known : SUBSET Files, threads : {threads}, capacity : Capacities] :
        i.known \subseteq IF cached THEN FilesIn(i.order) ELSE {}}

Empty ==
    /\ loads = <<>> /\ shards = <<>> /\ batch = <<>> /\ tasks = <<>>
    /\ outputs = <<>> /\ report = Nothing

\* The files that no cache entry answers for.  Whatever has them has them in the order
\* of discovery.
Pending == FilesIn(input.order) \ input.known
Position(f) == CHOOSE i \in DOMAIN input.order : input.order[i] = f

Count == Smaller(input.threads, Cardinality(Pending) \div FilesPerShard)

\* Too few files for two shards: one process, which is all of the command unless
\* there is a cache to be used.
Plan ==
    /\ phase = "discovered"
    /\ \/ /\ Count >= 2
          /\ phase' = "assigning" /\ loads' = [s \in 1 .. Count |-> {}]
          /\ UNCHANGED shards
       \/ /\ Count < 2 /\ input.cached /\ input.order # <<>>
          /\ phase' = "batching"
          /\ shards' = IF Pending = {} THEN <<>> ELSE <<Pending>>
          /\ UNCHANGED loads
       \/ /\ Count < 2 /\ ~(input.cached /\ input.order # <<>>)
          /\ phase' = "unsharded"
          /\ UNCHANGED <<loads, shards>>
    /\ UNCHANGED <<input, batch, tasks, outputs, report>>

Placed == UNION {loads[s] : s \in DOMAIN loads}

\* The largest file that has no shard, the first discovered of several.
Largest(f) ==
    \A g \in Pending \ Placed :
        \/ input.size[f] > input.size[g]
        \/ input.size[f] = input.size[g] /\ Position(f) <= Position(g)

Load(s) == Total(input.size, loads[s])

\* Faulty variant: the shard with the fewest files.
ShortestLightest(s) ==
    \A t \in DOMAIN loads :
        \/ Cardinality(loads[s]) < Cardinality(loads[t])
        \/ Cardinality(loads[s]) = Cardinality(loads[t]) /\ s <= t

\* The first of the lightest shards.
Lightest(s) ==
    \A t \in DOMAIN loads : Load(s) < Load(t) \/ (Load(s) = Load(t) /\ s <= t)

Place ==
    /\ phase = "assigning"
    /\ \E f \in Pending \ Placed, s \in DOMAIN loads :
        /\ Largest(f) /\ Lightest(s)
        /\ loads' = [loads EXCEPT ![s] = @ \cup {f}]
    /\ UNCHANGED <<input, phase, shards, batch, tasks, outputs, report>>

\* A shard that has no file makes no batch.
Assign ==
    /\ phase = "assigning" /\ Placed = Pending
    /\ phase' = "batching" /\ shards' = loads
    /\ UNCHANGED <<input, loads, batch, tasks, outputs, report>>

-----------------------------------------------------------------------------
\* Faulty variant: the batch is begun again without being kept.
ForgetfulFlush(f) == batch' = <<f>> /\ UNCHANGED tasks

Overflows(f) == Total(Bytes, FilesIn(batch)) + Bytes[f] > input.capacity
Flush(f) == batch' = <<f>> /\ tasks' = Append(tasks, batch)

\* One iteration of batchLintFiles, with the next file of the first shard.
Batch ==
    /\ phase = "batching" /\ shards # <<>>
    /\ \E f \in Head(shards) :
        /\ \A g \in Head(shards) : Position(f) <= Position(g)
        /\ \/ /\ Bytes[f] > input.capacity
              /\ phase' = "refused" /\ UNCHANGED <<shards, batch, tasks>>
           \/ /\ Bytes[f] <= input.capacity
              /\ shards' = [shards EXCEPT ![1] = @ \ {f}]
              /\ IF Overflows(f) /\ batch # <<>> THEN Flush(f)
                 ELSE batch' = Append(batch, f) /\ UNCHANGED tasks
              /\ UNCHANGED phase
    /\ UNCHANGED <<input, loads, outputs, report>>

\* The batches of the first shard are complete.
EndShard ==
    /\ phase = "batching" /\ shards # <<>> /\ Head(shards) = {}
    /\ shards' = Tail(shards) /\ batch' = <<>>
    /\ tasks' = IF batch = <<>> THEN tasks ELSE Append(tasks, batch)
    /\ UNCHANGED <<input, phase, loads, outputs, report>>

-----------------------------------------------------------------------------
\* The orders in which the files in S may be.
Arrangements(S) ==
    {s \in [1 .. Cardinality(S) -> S] : \A i, j \in DOMAIN s : s[i] = s[j] => i = j}

\* The process of the next task ends and leaves a report of its files, which it takes in
\* any order; or the run fails, with no report.
Lint ==
    /\ phase = "batching" /\ shards = <<>> /\ Len(outputs) < Len(tasks)
    /\ \/ /\ \E s \in Arrangements(FilesIn(tasks[Len(outputs) + 1])) :
              outputs' = Append(outputs, s)
          /\ UNCHANGED phase
       \/ phase' = "failed" /\ UNCHANGED outputs
    /\ UNCHANGED <<input, loads, shards, batch, tasks, report>>

\* The files that the cache answers for, in the order of discovery.
Answered ==
    LET answered == FilesIn(input.order) \cap input.known
    IN  Ranked(answered, {p \in answered \X answered : Position(p[1]) < Position(p[2])})

\* The reports of the tasks with that of the files that were not linted.
Merged == IF Answered = <<>> THEN outputs ELSE Append(outputs, Answered)

\* What the engine reports of a file.
Diagnostic(f, n) ==
    [file |-> f, n |-> n, offset |-> input.found[f][n].offset,
     severity |-> input.found[f][n].severity]

\* The diagnostics of the reports, each at its place: <<k, j, n>> is where the n-th one
\* of the j-th file of the k-th report is.
PlacesOf(file, k, j) == {<<k, j, n>> : n \in DOMAIN input.found[file]}
Diagnostics(reports) ==
    [at \in UNION {UNION {PlacesOf(reports[k][j], k, j) : j \in DOMAIN reports[k]} :
                   k \in DOMAIN reports} |->
        Diagnostic(reports[at[1]][at[2]], at[3])]

ComesFirst(a, b) ==
    \/ a[1] < b[1]
    \/ a[1] = b[1] /\ a[2] < b[2]
    \/ a[1] = b[1] /\ a[2] = b[2] /\ a[3] < b[3]

\* By file and offset, and in the order of the reports otherwise.
SortOrder(all) ==
    {p \in (DOMAIN all) \X (DOMAIN all) :
        LET d == all[p[1]]
            e == all[p[2]]
        IN  \/ d.file < e.file
            \/ d.file = e.file /\ d.offset < e.offset
            \/ d.file = e.file /\ d.offset = e.offset /\ ComesFirst(p[1], p[2])}

Number(all, severity) == Cardinality({a \in DOMAIN all : all[a].severity = severity})

\* Do the diagnostics fail the command under the policy p?
\* Faulty variant: warnings that are not shown do not count.
QuietFails(all, p) ==
    Number(all, "error") > 0 \/ (~p.quiet /\ p.denyWarnings /\ DOMAIN all # {})
Fails(all, p) ==
    \/ Number(all, "error") > 0
    \/ p.denyWarnings /\ Number(all, "warning") > 0
    \/ \E most \in p.maxWarnings : Number(all, "warning") > most

Hides(p, d) == p.silent \/ (p.quiet /\ d.severity = "warning")

\* renderShards.
Render ==
    /\ phase = "batching" /\ shards = <<>> /\ Len(outputs) = Len(tasks)
    /\ phase' = "reported"
    /\ LET reports == Merged
           all == Diagnostics(reports)
       IN  \E p \in Policies :
              LET shown == Ranked({a \in DOMAIN all : ~Hides(p, all[a])}, SortOrder(all))
              IN  report' = [policy |-> p,
                             shown |-> [i \in DOMAIN shown |-> all[shown[i]]],
                             status |-> IF Fails(all, p) THEN 1 ELSE 0,
                             files |-> Total([k \in DOMAIN reports |-> Len(reports[k])],
                                             DOMAIN reports)]
    /\ UNCHANGED <<input, loads, shards, batch, tasks, outputs>>

Terminated == phase \in {"unsharded", "refused", "failed", "reported"} /\ UNCHANGED vars

Next ==
    Plan \/ Place \/ Assign \/ Batch \/ EndShard \/ Lint \/ Render \/ Terminated

-----------------------------------------------------------------------------
\* Safety (assignShards, lint-shard.ts:139-144): no shard is more than its smallest
\* file ahead of any other one, however the sizes are, so that no process is left
\* with the work that another one could have had.
Balanced ==
    \A s, t \in DOMAIN loads :
        \A f \in loads[s] : Total(input.size, loads[s] \ {f}) <= Load(t)

\* A batch that has files, in the order of discovery, and no more than the ceiling allows.
Ordered(s) == \A i, j \in DOMAIN s : i < j => Position(s[i]) < Position(s[j])
Fine(s) == s # <<>> /\ Ordered(s) /\ Total(Bytes, FilesIn(s)) <= input.capacity

\* Safety (lint-shard.ts:145-147, lint-batch.ts:30-49): once the batches are complete,
\* every file that has to be linted is in one of them and in no two, in the order of
\* discovery, and no batch is empty or beyond the ceiling.
NothingDropped ==
    phase \in {"batching", "failed", "reported"} /\ shards = <<>> =>
        /\ UNION {FilesIn(tasks[k]) : k \in DOMAIN tasks} = Pending
        /\ \A k, l \in DOMAIN tasks : k # l => FilesIn(tasks[k]) \cap FilesIn(tasks[l]) = {}
        /\ \A k \in DOMAIN tasks : Fine(tasks[k])

\* What one process reports of all files.
Whole ==
    UNION {{Diagnostic(f, n) : n \in DOMAIN input.found[f]} : f \in FilesIn(input.order)}

Precedes(d, e) ==
    \/ d.file < e.file
    \/ d.file = e.file /\ d.offset < e.offset
    \/ d.file = e.file /\ d.offset = e.offset /\ d.n < e.n

\* Safety (docs/lint-execution.md:91-93, renderShards): diagnostics, quiet, silent,
\* deny-warnings, max-warnings and the status match a single process, with the order
\* normalised to file and offset, however the files are split, whichever the cache
\* answers for and in whatever order the processes report them.
AsOneProcess ==
    phase = "reported" =>
        LET p == report.policy
            visible == {d \in Whole : ~Hides(p, d)}
            warnings == {d \in Whole : d.severity = "warning"}
        IN  /\ {report.shown[i] : i \in DOMAIN report.shown} = visible
            /\ Len(report.shown) = Cardinality(visible)
            /\ \A i, j \in DOMAIN report.shown :
                   i < j => Precedes(report.shown[i], report.shown[j])
            /\ report.status = 0 <=>
                   /\ \A d \in Whole : d.severity # "error"
                   /\ p.denyWarnings => warnings = {}
                   /\ \A most \in p.maxWarnings : Cardinality(warnings) <= most
            /\ report.files = Len(input.order)
=============================================================================
