# A TLA+ model of ag-lint and the tools around its catalog

The repository packages lint configurations, an Oxlint plugin and `ag-lint`, a
supervisor that runs lint commands under one budget of memory and threads. The
supervisor (`src/packages/oxlint-config/src/lint-*.ts`) is the concurrent part
of the program and the centre of this project. Around it are tools that decide
who owns a rule, make configurations, generate the catalog, renew frozen inputs
and let rules written for ESLint run in the plugin; the second part models
those of them that keep state, can stop half way or have to agree with one
another. Line numbers below without a name are those of the files `lint-*.ts`.

## Inventory

| component | state | operations | interacts with |
|---|---|---|---|
| admission coordinator, `lint-session.ts` 20–193 | queue of requests, active leases by socket, sockets, `acquired`/`released`, `closing`, deadlines | connection, data, close events; the 25 ms timer; `close()` | clients over a local socket; the memory probe; the observed process tree |
| lease client, `lint-session.ts` 204–259 | socket, `granted`, the caller's promise | request, grant, refusal, abort, release, loss of the coordinator | the coordinator |
| task runner, `lint-runner.ts` 165–401 | active children with reservations, next task, counters, `stopping`, `blockedAt`, escalation timers, report | admission, close of a child, cancellation, escalation, settling | child processes; probe; process tree; caller's signal |
| process observation, `lint-runner.ts` 112–157, 225–247 | descendants by identifier and start time | `track`, `cleanupDescendants` | the process table |
| lint command, `lint-cli.ts` 118–332 | session, lease, temporary directory, status | one run of `ag-lint`: root, package or nested | all of the above, cache, shards |
| result cache, `lint-cache.ts`, `lint-cli.ts` 174–202, 262–287 | the cache file | read, hash, lint the rest, rewrite | files that are edited meanwhile, other runs |
| arguments, budget, sharding, batching: `lint-arguments.ts`, `memory-budget.ts`, `lint-shard.ts`, `lint-batch.ts` | none | pure functions, one after another in a command | control groups that change while they are read; the command above |
| configuration generator, `index.ts`, `cli.ts`, `compiler.ts` of oxlint-config | layers, providers in use; files visited | translate, preset, finalize, check compiler options, write | the catalog; files of the consumer |
| rule catalog, `rule-catalog/src/index.ts` | mappings, aliases, evidence (data) | `resolveRule`, `resolveRuleDetailed` | the generator, the configurations |
| catalog generation, `scripts/generate.ts` | the mappings and layers so far | apply a layer, map a rule, register, classify | the providers, the catalog |
| upstream maintenance, `scripts/refresh.ts`, `vendor.ts`, `integrity.ts`, `check.ts`, `import-upstream.ts`, `mirrors.ts` | checked-in files; the rule and target in global variables; a directory of copies | refresh, check, import, mirror | upstream servers, a project somebody edits |
| source policy, `scripts/source-policy.ts` | issues, the scope stack | one visit of a syntax tree | — |
| oxlint plugin, `legacy-context.ts`, `legacy-source.ts`, layers of providers | adapters and analyses by engine object | create rules, visit nodes, mark variables | the engine, which uses its objects again |
| visitors of the plugin's rules, other scripts, vendored ports | none that outlives a call | | Oxlint, npm, git |

What makes the code hard is listed, line by line, in `PROJECT.json` under
`hazards`. In short:

* sockets close, requests are repeated and clients die while their request is
  unread, queued, granted on the wire or refused; the coordinator closes while
  all of this goes on;
* the head of the queue waits for pressure that may never end; entries behind
  it keep their own deadline;
* a lease and a started task are admitted on an observation that is stale as
  soon as it is made, so the sum of reservations has to hold the budget;
* failures, cancellation, a throwing `spawn` and hanging children meet in
  `finish()`, which must settle once, late enough and at all;
* identifiers of processes are given to others while the run remembers them;
* a command owns a session, a lease and a directory and can fail anywhere;
  commands wait for leases and scripts wait for commands;
* files are edited, the configuration changes and the cache file is rewritten
  between the steps of a run;
* control groups are nested, change between two reads and are limited by
  commands above, and an argument that is read differently by the supervisor
  and by the engine loses files or options;
* several rules are translated to one target and settings of one rule come from
  several layers, whose order decides;
* a refresh stops after any of its steps, an upstream tag is moved, and a
  project is edited while it is copied;
* the plugin's adapters outlive the rule that made them, and in some cases the
  file.

What each component has to satisfy:

* coordinator: reservations within the budget, first come first served, every
  request answered, every lease returned, every lease held by a connected
  socket, nothing granted after `close()`;
* runner: the same admission promise; counters that agree with the children; a
  stop is final; success means that every task succeeded; the caller regains
  control only when no child is left, and always regains it;
* observation: only processes of the run are signalled, and all of them;
* command: session, lease and directory are given back on every path, and
  nobody waits for a lease that waits for him;
* cache: what a run reports was so during the run, whoever else writes the cache,
  and what is wrong in the cache comes from races that can be named;
* start of a command: what is reserved fits below every limit there is, the
  engine gets every argument that is not the supervisor's, a command is split
  only if its report survives that, and every file is in exactly one shard and
  batch;
* configurations: a translation neither drops nor changes a level of a rule
  that has a target, a rule has one owner, both readers of the catalog agree;
* maintenance: a mixture of two refreshes never passes the check, copies are
  those of the inventory, fixtures belong to the rule they test;
* plugin: a rule sees its file, the node it visits and the part of the graph it
  was told of.

## Modules

* `Reservations` – sums of reservations (`Total`) over finite sets.
* `AdmissionQueue` – the abstract promise: work is admitted strictly in order
  and only while all reservations fit together. `ListSpec` is the form for a
  list that is complete from the start and that nobody leaves.
* `LintSession` – coordinator and clients. A client's payload is a record of
  memory, threads and whether it bears the token. `link`, `unread`, `outbound`
  are the socket seen from both ends; one action per event handler. The close
  handlers run admission as their last call, so `Admit` is a part of those
  actions and not one of its own.
* `LintSessionWaits` – `LintSession` with a history variable: for how long a
  queued request has been waiting while nobody was active.
* `LintRunner` – one call of `runLintTasks`. `Admit(a, m, h, since)` is the
  function `admit` called with the children and counters that the handler has
  already updated; its disjuncts are the ways it can end. `Leaves` is the
  common end of all handlers: `stop()` and `finish()`.
* `LintProcesses` – the same run seen from the process table: who descends from
  whom, in which group, since when. `Tree` is the walk of `observeProcesses`,
  `Tracked` what `track()` remembers, `Leaves` again the end of a handler, now
  with its signals. SIGTERM has no effect of its own, since a process may end
  at any time or ignore it; SIGKILL ends processes at once. What a handler
  hits is recorded in `harmed`.
* `LintCommand` – the root command, the packages its script starts and the
  nested commands theirs start. It uses the actions of `AdmissionQueue` for the
  coordinator, which `LintSession` is shown to implement, and the phase
  "running" for `runLintTasks`, which `LintRunner` models.
* `LintCache` – the cache file, concurrent runs with `--cache`, and the world
  that changes around them. A diagnostic is what it was computed from, a
  content and a configuration; both may change at any moment and return to what
  they were. The engine of each shard or batch reads the configuration when it
  starts. The file is truncated and written in two steps. Four histories that no
  guard reads are for the properties: `contents` and `configs` of a run, what its
  targets and the configuration have been since it began, and `raced` and
  `racedKeys`, the hashes and the keys that an edit, or a new configuration,
  made old while a run had yet to lint.
* `LintShards` – how the files of one command are split into shards and batches
  and how the reports are merged, with those the cache answers for. A file is
  given to a shard, and to a batch, in a step of its own; the engine reports the
  files of a batch in any order. A report is its list of files, and a diagnostic
  has a place in the merged list (report, file, number): the stable sort of
  `renderShards` is a ranking (`Ranked`) of the places by file, offset and place.
* `LintArguments` – `parseLintArguments` and `planSharding` over lists of
  tokens: what one iteration of their loops does (`ParseStep`, `PlanStep`). A
  token is a name with or without a value after an equals sign.
* `MemoryBudget` – `probeMemory` and `resolveMemoryBudget` over control groups of
  both versions; what a file says when it is read is chosen then. One mount is
  walked after the other, one directory a step (`probe.todo`).
* `LintStartup` – what `runLintCli` decides before it starts anything: threads,
  reservation, and whether the command may be split. It uses the two above, and
  each argument is read, or planned, in a step of its own.
* `LintInvocation` – `LintStartup` followed by `LintShards` under the threads
  that were decided: a command from its arguments to its report.
* `RuleOwnership` – `resolveRule` over the tables of the rule catalog.
* `CompatibilityConfig` – `createCompatibilityConfigGroups`, `createConfig` and
  `finalizeProviders`. A layer is a function from rules to settings. A rule is
  decided in one step (`Decide`), and a decision gives its target a setting in
  another (`Assign`), which may be refused because of an earlier one.
* `ConsumerCli` – the command `ag-oxlint-config`: its arguments, the file it
  writes, and the check of compiler options through chains of `extends`.
* `CatalogGenerator` – `generate.ts` from the tables to mappings, presets,
  registrations and the enforcement of clauses; it extends `RuleOwnership`, so
  that what it makes is what the lookup reads. The calls of `mapRule` that are
  left are a set, `work`: tables have their turns in the order of the script, and
  the rules of one table, none of which occurs twice, come in any order.
* `SourcePolicy` – `inspectSource` over syntax trees with scopes. A tree numbers
  its nodes in the order of the visit, a parent before its children; the scopes
  around a node are those of the nodes above it (`Around`).
* `SnapshotRefresh` – a refresh of the frozen inputs, one action per step, that
  fails or dies anywhere, and the check afterwards.
* `FixtureImport` – `import-upstream.ts`: nested test programs, a tester that is
  restored after each of them, fixtures by rule. `saving` is the pair of global
  variables that `CaptureTester.run` sets and puts back.
* `Mirrors` – `prepareMirrors` and `verifyMirrors`, path by path, while somebody
  edits the project.
* `LegacyContext` – the contexts of rules written for ESLint in one process of
  the engine: files one after another, rules in turn, events of a traversal.
* `MC…` modules give small values to constants; `MCTooling` holds one of the
  tools in each behaviour, chosen at the start, since they do not interact.
* `ReservationTheorems`, `LintSessionProofs`, `LintRunnerProofs`,
  `LintProcessesProofs`, `LintCacheProofs`, `LintCommandProofs`,
  `LintInvocationProofs`, `ToolingProofs` – lemmas and theorems; the last two
  prove about several modules each.

Definitions whose comment says *faulty* are variants of the operator that
follows them, wrong in a way the code could be wrong. Specifications do not use
them; each run's properties are known to fail when one replaces the operator.

## Runs

| run | question | bounds |
|---|---|---|
| `session_safety` | do budget, order (`AdmissionQueue`), accounting and closing hold in every interleaving? | three interchangeable clients, all payloads |
| `session_liveness` | is everything answered and returned, also if a peer writes a second payload? | two clients, one of them rude, one or two threads |
| `session_false_timeout` | is the doc's claim on false timeouts true? **No** | three clients |
| `runner` | budget, order, counters, status and settling of a run, with children that hang and children that end | lists of up to four tasks |
| `processes_safety` | is what was observed swept, and nothing else signalled? | three identifiers, six start times |
| `processes_reuse` | are reused identifiers protected? **Not** from the escalation timer | same, four times |
| `command` | do leases cover the work, is nothing held after the end, and does everybody end? | four packages, two nested commands |
| `command_session` | is the session closed when the command ends? **Not** if it fails early | same as `command` |
| `cache_safety` | is a report ever of before its run, or an entry wrong, but for the races that are named? | one file, two runs; two contents and two configurations that change and return without limit |
| `cache_exact` | is an entry stored under the hash of what was linted? **No** | one file, two runs |
| `shards` | does the reservation fit, does the engine get what it should, is any file lost, any shard overloaded, or the report different from that of one process? | lines of up to four tokens on a plain system, five lines on some hundred systems; four files, three orders, three sizes |
| `tooling` | do the tools around the catalog keep their promises (one property each)? | below |

Three clients are enough for an active lease, a head and a request behind it at
the same time, with any of them closing. Lists of four tasks let one task run,
one wait and one be behind it, with a task that tolerates a status and one that
never fits. Three identifiers are enough for two children and an outsider, or a
child, a descendant that moves to its own group and an outsider, and six start
times let each be reused. Four packages hold two that fit together, one that
has to wait and one that is refused. The cache's properties speak of one file
and one entry at a time, and the files share only the key, so one file is
enough; a second run makes torn files and entries that are taken over, and two
contents are enough for an edit and its undoing. Four files in shards of one to four give several batches in a shard, and
shards without files if files are empty. Four tokens hold an option, its value,
a separator and an argument behind it; systems have control groups of up
to three levels in both versions, with and without limits, quotas, a mount that
does not show the process, limits of the process and a command above.

`tooling` has for each tool the cases its code tells apart: translated groups
of one to three rules over every combination of mapping, alias, schema,
language, type information and level, presets of every policy and profile and
own layers; graphs of compiler options with diamonds, cycles, packages and
unreadable files; syntax trees with shadowed and unshadowed CommonJS globals;
layers of sources that contradict one another; three revisions, two versions
with two archives each and four refreshes; two rules whose test programs run
programs of a third; five paths, two edits; two files and three rules from
three layers in a process of the engine. Together they have about 680,000 states; a tool
that has ended stays as it is (`Ended`).

The runs of `LintProcesses` stop when start times are used up, which their
configurations allow with `CHECK_DEADLOCK FALSE`; all others are checked for
deadlock, and the models have an explicit step for the end where the program
has one.

## What the code does otherwise

The runs marked **No** check sentences of the documentation or of comments that
the code does not live up to; `findings` in `PROJECT.json` quotes them. Two
matter most. A root command that fails after `startLintSession` and before its
`try` (a large environment makes `batchLintFiles` throw there) leaves a server
and a timer that keep the process alive. And the cache hashes files before the
engine reads them: an edit in between stores diagnostics of the new content
under the hash of the old. When the file then returns to its old content, as
after an undo or a change of branches, these diagnostics are reported for it. The
same holds of a configuration that changes after it was printed and before an
engine starts, and then returns. So an entry that matches the present may be
wrong. `EntriesExact`, the documented meaning, does not hold;
`OnlyRacesSpoil` says that these two races are the only ways to a wrong entry,
and `NoStaleReport` excepts from what a run reports the cached diagnostics of a
hash or a key that was raced, and nothing else.

Three more sentences differ from the code and have no run: the comment at
`lint-cli.ts` 220–222 says that a full cache hit leaves the cache file as it is,
which line 282 rewrites like any other; `docs/lint-execution.md:91` promises
each shard at least 128 files, which holds on average, since files are balanced
by size; and `finish()` clears the escalation timers once all children are closed,
although a process of their groups that nobody observed and that ignores SIGTERM
may be left. Removing the directory of a session at the end of a command may
fail too (`lint-cli.ts:296`), which leaves the output directory of line 223;
`Remove` in `LintCommand` has this outcome.

Of the tools, these are worth a reader's attention and stated as they are, in
the models and in what their properties leave out:

* an enabled rule with native evidence is resolved before its language is looked
  at (`rule-catalog/src/index.ts:391`), so that `consistent-type-exports` is on
  for JavaScript, of which `resolveRule` says that it requires TypeScript;
* `resolveRule` looks mappings up by the canonical name (`index.ts:238–243`), so
  the mappings that a profile has under an alias (`generate.ts:390–410`) only
  reach presets; `PresetFollowsCatalog` leaves aliases out;
* `source-policy.ts:142–156` leaves a `var` in the block it stands in, so a use
  of the name behind the block counts as one of the global;
* two fixtures that differ only in the errors they expect are one
  (`import-upstream.ts:430–451`), and a rule is not restored when `save` throws,
  which is harmless because every failure fails the command;
* `mirrors.ts` compares the project with the inventory at the end: a link that
  is edited and edited back is not seen, which is why `MirrorsAgree` speaks of
  links only for one edit;
* `integrity.ts` writes the manifest before it checks the corpus;
* whether rules written for ESLint see the parser of another layer depends on
  the engine: if it does not freeze contexts, the first layer's `parser` stays
  on a context that others share. In TypeScript files, variables that a comment
  adds cannot be marked as used, and `writable` in a comment does not change a
  variable that the engine has. The graph shows the edge of a loop before
  ESLint's own event for it does, and a segment only once its start was visited.

## Fairness

Event handlers run again and again because they run on an event loop that
nothing blocks. A timer is a source of progress only when its tick has to
change something: the coordinator's while no lease is active (its deadline
runs), the runner's while the clock of the blocked list runs. Nothing is
assumed of clients except that they read their socket and end once they have a
lease, and nothing of children: that they come to their end is the premise of
`Settles`, and of `EveryCommandEnds`. The probe may fail or report pressure for
ever. In `LintCommand` the coordinator serves its queue when nobody has a lease;
before that the head may have to wait for ever, which is what makes a nested
request for a lease dangerous. The other modules assume no fairness: their properties are safety.

## Assumptions on the system

* No identifier of a process is given again while one handler of the supervisor
  runs: the system hands them out cyclically. Without this, the walk of
  `observeProcesses` and the comparison in `cleanupDescendants` would each have
  a moment between looking and signalling.
* No identifier is given to a process while a group has it, and none while the
  process is a child that has not been waited for.
* Processes are reaped by their own parents at once.

## Proofs

All theorems hold for every value of the constants.

* `ReservationTheorems`: adding, removing and joining holders does to `Total`
  what `+=` and `-=` do to the counters of the code; and leaving a queue, at its
  head or in the middle, keeps the order and the members of the rest. What
  corresponds one to one is as much, and nothing is left out of it (`OneEach`).
* `LintSessionProofs`: `TypeCorrect`, and `BudgetSafe` for every set of
  clients. `BudgetRespected` is inductive together with the type invariant: the
  leases only grow in `Fits`, which tests the sum. `SocketsHold`,
  `CountersSafe`, `HoldersSafe`, `ClosedForGood` and `PatientBehindWork` rest on
  `SocketInv`: whoever is queued or has a lease has a socket whose close event
  is still to come, and what a client believes follows from what is on its
  wire. A handler's effect on the books is that of the `admit()` it ends with,
  which `AdmitSteps` states once. `AdmitsLikeAQueue`: each of them is a stutter
  or a step of `AdmissionQueue`.
* `LintRunnerProofs`: `BudgetSafe`, `CountersSafe`, `QuietSafe`, `StopFinal`,
  `SuccessSafe`, for every list of tasks. The invariant `RunInv` adds to the
  types that the counters are the sums over the active children
  (`CountersExact`), without which the test in `Fits` would say nothing of the
  children, that children are tasks already passed, and that a settled run is
  quiet. `SuccessIsComplete` needs `Honest` besides: while a run goes on,
  every task that is passed and not active ended well. `AdmitsLikeAQueue`: a
  call of `admit()` starts the next tasks of the list and each fits beside those
  before it, so it is one step of the abstract admission.
* `LintProcessesProofs`: `OthersSafe` and `KnownEnd`. The invariant `Fit` says
  that a process comes from where its parent does, that the groups of children
  have no other members, and that a start time which was observed and which a
  process still has is one of the run; the walk is closed under the first.
* `LintCacheProofs`: `ReportFresh` and `RacesAloneSpoil`. The invariant
  `CacheInv` says of each entry, in the file or in a run, that its diagnosis is
  of its hash and its key unless these were raced (`Exact`), and of each run that
  what it has yet to lint still is what it hashed, under the configuration it
  printed, unless that was raced (`Awaiting`): what the engine finds later is
  then exact too (`Linted`). `Accounted` is needed for targets that are not
  linted, whose entry in the cache has their hash.
* `LintCommandProofs`: `WorkIsCovered` and `NothingHeldAfterEnd`. `CommandInv`
  says who stands in the line and who has a lease: only packages that wait, run
  or close, none twice, and only while there is a session.
* `LintInvocationProofs`, about a command from its arguments to its report:
  * `ReservationAlwaysFits`, for every host. `StartupInv` says of a probe what it
    has read so far (`Snapshot`: every file that was read has left its limits
    among the constraints) and what it has still to read (`Covered`: each
    directory has been read or is in the list of its mount). So a complete probe
    has the limits of all groups, and what is decided is below each of them.
  * `EngineAlwaysSeesTheRest`, for every command line. `Read` says of the tokens
    read so far that they are what the property says of all: there is a list of
    increasing places, those of the arguments kept, and every token at another
    place is one that ag-lint has for itself. It adds that no double dash has
    been kept while there is more to read, and none taken away before the parser
    notes it (`separated`): so a kept one ends the loop, and a second one is kept.
  * `SplitNeverLosesAnything`, for every list of arguments. `Planning` says the
    same of a plan: there are places for the targets and for the options, the
    double dash is not among the arguments planned while there is more, and what
    is left is for the report. Every step adds the places of one argument, or of
    an option and its value, to one of the three (`MoreDivided`).
  * `ShardsAlwaysBalanced`, for every list of files: files are placed from the
    largest on, each in the smallest shard. `LargestFirst` says that no file
    which waits is larger than one which is placed; the file placed last on the
    largest shard was put on what was the smallest by then, so the difference of
    two shards is at most that file.
  * `NothingEverDropped`: `Distributed` says that tasks, the batch that is being
    filled and the shards that are left have each file once, and that a batch
    grows in the order of the files, all of which fit into a command line.
  * `AlwaysReportsAsOneProcess`, for every list of files, what is found in them,
    what the cache answers for, order of the processes and policy. `ReportsInv`
    says that each report has the files of its task, once; with
    `NothingEverDropped` and the answered files, the merged reports have every
    file once (`Complete`). So their places correspond one to one to the
    diagnostics of one process, and ties of file and offset, which only one file
    can have, are in its order (`DiagnosticsOnce`). Ranking by a strict order
    lists everything once and in this order (`RankedLists`); counts and the
    number of files are cardinalities of what corresponds.
* `ToolingProofs`, about the tools of `tooling`:
  * `CheckedComplete`. `RefreshInv` says that the manifest on disk always is that
    of a complete refresh (`Recorded`), and, while one goes on, which files come
    from the lock in memory by then (`Progress`), so that this remains so when the
    last step writes a manifest. The check compares the files with the manifest.
  * `MirrorsAlike`. `FilesInv` says that a copy which was compared has the
    inventory's files; `LinksInv` is the argument of an optimistic reader: as long
    as the project is what the inventory says, so are the links, and one edit away
    from that is either after the links were made or still to be seen by the
    comparison at the end. A second edit may undo the first, which is where the
    invariant and the property stop.
  * `FixturesAttributed`. `ImportInv` says that, unless something failed, what is
    captured is attributed to the right rule, and that the global variables are
    those of the innermost program that runs (`RuleInPlace`), which every frame
    has saved for the one around it.
  * `FinalizingKeepsAllLevels`, for every list of overrides and every subset of
    them that matches a file. The entries that `Pruned` keeps (`EntriesKept`)
    hold all that name a rule which is on in any layer; so the deciding entry of
    such a rule stays, and all entries of others are off.
  * `OwnersAlwaysOne`, for every catalog. `Decided` says what a decision of
    `resolveRuleDetailed` can be: one that transfers a rule has the rule's level
    or is inert, whatever table it came from. `Accounted` says of the targets so
    far that each enabled decision has its target as it wants it, and that each
    enabled target is some decision's. The second half is needed for the first:
    a decision that replaces a setting which is on would be unnoticed otherwise.
  * `GlobalsAlwaysReported`, for every tree. `Around` is the least set of
    ancestors, so the innermost scope with a declaration of the name is found
    by climbing, and what is collected for a scope is what is declared in it.
    `PolicyInv` says that the issues are those of the nodes visited.
  * `RulesAlwaysSeeTheirFile`, for every list of files and rules. `AdaptersInv`
    says that the adapters which rules of the file have are of its tree and of
    its one analysis (`Serves`), which is there from the first of them on, and
    that no variable was marked elsewhere for this file. `Told` is what a rule
    knows of the graph: it has handled the starts of exactly the reachable
    segments whose events it had its turn for. The scope of a node and what is
    around it are functions by recursion over the tree; that they exist, and that
    they agree, follows from the least node for which they would not.
  * `CheckedAsTypeScriptUses`, for any finite number of files that extend each
    other in any way, circles included. The loader is a function by recursion
    over the chain of files it came through; it exists because every chain leaves
    one file fewer (`FewerLeft`, `LoadDefined`). What it returns is right for each
    chain, by the least number of files left (`LoadRight`): it fails unless all
    that is reached can be read and resolved and leads neither back to the chain
    nor in a circle (`Good`); and else the options are those of the last entry
    that sets any, as TypeScript takes them (`Gives`). `CliInv` says that the
    verdict of the command is that of the loader.
  * `CatalogReadersAgree`, for every draft of the guide. `GeneratorInv` says that
    the mappings come in the order of the tables, at most one of a rule in each
    scope (`MappingsOrdered`), that each is made of an entry (`RowFacts`), and that
    the layers hold what the mappings give (`LayersHold`) and nothing else
    (`LayersOnly`). The second half matters as much as the first: an implementation
    that another mapping turned on would be on beside the owner. From it follows
    what a file gets: of all implementations of a rule, the last mapping that
    counts for the file decides (`DecidesFacts`, `PresetAt`). It is the one that
    `resolveRule` selects (`LookedUp`), and what it answers is what that mapping
    says (`OwnerDecided`). The last mapping that `classify` takes for a clause
    decides for files of its own language (`ReportedClausesAreOn`).

The named assumptions of the modules are what these theorems take for granted,
and TLC evaluates each of them on the values of a run. Most give a constant its
type. The others are facts about data the code relies on: `CatalogAssumption`
(a mapping that is on has a target, native evidence is for registered rules),
which holds for `catalog.json` as it is checked in; `RequestsAssumption` (rules
of a group have settings, as the type `RuleMap` demands); `MemoryAssumption` (a
thread and a command reserve at least the minimum of a worker, as the constants
of `memory-budget.ts` do); `CommandsAssumption` of `LintStartup` (there is one
inherited budget at most, and a token has one value at most); `NamesAssumption`
(the options of ag-lint, and the double dash, begin with two dashes, as those of
`lint-arguments.ts` do); `FilesAssumption` (a list of files has none twice and
no name is empty); `SourcesAssumption` (a parser gives one tree with a program at
its root); `ProcessesAssumption` (the engine numbers nodes from the root, says
of a segment that it is unreachable when it starts one as such, and defines in
the global scope of a typed file only what the file declares at its top);
`InvocationsAssumption` (a project has finitely many files, and each extends a
list of others); `EquivalentsAssumption` and `DraftsAssumption` (the tables of
`generate.ts` are one for each scope and language and mapped in the order of the
scopes, the rules of those for TypeScript are in no other; no two rules of the
guide have an implementation in common; and a rule of the guide that is registered
for consumers is so under its own name, with the implementation that it is mapped
to), which hold for the tables as they are checked in. Without the second, the two
readers would disagree: the layers know a target by its name only.

Only model-checked:

* all liveness, which is out of the prover's reach.

## Not modelled

* The visitors of the plugin's own rules, which look at one node each and keep
  nothing, and the references that `typescript.ts` collects from decorators.
* The parser of imported files (`import-parser.ts`): a loader of other files.
* What a port changes in a source (`ports.ts`), the tables the generator starts
  from, and the reading of Airbnb's configurations and of the guide: data.
* Build, packaging, benchmarks and the comparison with former configurations:
  I/O and child processes one after another, whose failure stops the script.
  `snapshots:record` by hand is not part of `SnapshotRefresh`.
* Vendored code of others.
* Formats: `/proc` and control group files, JSON, the profile report and the
  texts of errors. What such a file yields is any value in the models.

## Plan

1. A composition of `LintRunner` with `LintProcesses`, if the product stays
   small enough.
