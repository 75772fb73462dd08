------------------------------ MODULE LintCache ------------------------------
(***************************************************************************)
(* The result cache of runs with --cache: lint-cache.ts and the parts of   *)
(* runLintCli in lint-cli.ts that use it (packages/oxlint-config/src).     *)
(*                                                                         *)
(* Files are edited and the configuration changes while several runs read  *)
(* and rewrite one cache file; both may return to what they were, as after *)
(* an undo or a change of branches.  Diagnostics are identified by what    *)
(* they were computed from: a content of the file and a configuration.     *)
(***************************************************************************)
EXTENDS FiniteSets, Functions

CONSTANTS
    Files,          \* the files that a run may discover
    Runs,           \* concurrent invocations, each starting over when it ends
    Contents,       \* what a file may contain
    Configs,        \* the configurations that there may be
    NoKey           \* the key of a run without a cache

ASSUME NoKeyAssumption == NoKey \notin Configs

VARIABLES
    content,        \* the present content of each file
    config,         \* the present configuration
    store,          \* the cache file
    run,            \* what each invocation knows
    raced,          \* history: files and the hashes of a run that had them still to lint when
                    \* they were edited
    racedKeys       \* history: keys of runs that had yet to lint when the configuration changed

vars == <<content, config, store, run, raced, racedKeys>>

\* Functions from some of the files.
Partial(S) == UNION {[known -> S] : known \in SUBSET Files}

Diagnosis == [content : Contents, config : Configs]
Entry == [hash : Contents, diagnosis : Diagnosis]
Cache == [key : Configs \cup {NoKey}, files : Partial(Entry)]

\* Engines are known by the configurations they read.  The last two fields are a history: what
\* its targets contained, and what the configuration was, since the run began.
Invocation == [
    phase : {"idle", "keyed", "prepared", "linting", "writing", "overwriting"},
    targets : SUBSET Files, key : Configs \cup {NoKey}, cached : Partial(Entry),
    hashes : Partial(Contents), pending : SUBSET Files,
    engines : SUBSET Configs, fresh : Partial(Diagnosis),
    contents : Partial(SUBSET Contents), configs : SUBSET Configs]

NoEntries == [f \in {} |-> f]

\* A cache file that is absent, or not the JSON text of a cache.
Unusable == [key |-> NoKey, files |-> NoEntries]

Idle == [phase |-> "idle", targets |-> {}, key |-> NoKey, cached |-> NoEntries,
         hashes |-> NoEntries, pending |-> {}, engines |-> {}, fresh |-> NoEntries,
         contents |-> NoEntries, configs |-> {}]

Init ==
    /\ content \in [Files -> Contents] /\ config \in Configs
    /\ store = Unusable
    /\ run = [p \in Runs |-> Idle]
    /\ raced = {} /\ racedKeys = {}

-----------------------------------------------------------------------------
\* Has the run p a hash of the file f that its engine has yet to read?
Awaits(p, f) == run[p].phase \in {"prepared", "linting"} /\ f \in run[p].pending

\* Has the run p printed a configuration that an engine of it may have yet to read?
AwaitsEngine(p) ==
    \/ run[p].phase = "keyed"
    \/ run[p].phase \in {"prepared", "linting"} /\ run[p].pending # {}

\* A file gets another content, new or old.
Edit(f) ==
    /\ \E c \in Contents \ {content[f]} :
        /\ content' = [content EXCEPT ![f] = c]
        /\ run' = [p \in Runs |->
               IF f \in run[p].targets
               THEN [run[p] EXCEPT !.contents[f] = @ \cup {c}] ELSE run[p]]
    /\ raced' = raced \cup {<<f, run[p].hashes[f]>> : p \in {q \in Runs : Awaits(q, f)}}
    /\ UNCHANGED <<config, store, racedKeys>>

Configure ==
    /\ \E k \in Configs \ {config} :
        /\ config' = k
        /\ run' = [p \in Runs |->
               IF run[p].phase = "idle" THEN run[p] ELSE [run[p] EXCEPT !.configs = @ \cup {k}]]
    /\ racedKeys' = racedKeys \cup
           ({run[p].key : p \in {q \in Runs : AwaitsEngine(q)}} \ {NoKey})
    /\ UNCHANGED <<content, store, raced>>

-----------------------------------------------------------------------------
\* The run p goes on with the record r, and the world stays as it is.
Becomes(p, r) ==
    /\ run' = [run EXCEPT ![p] = r]
    /\ UNCHANGED <<content, config, raced, racedKeys>>

\* Files are discovered and the configuration is printed; it may fail to be.
Begin(p) ==
    /\ run[p].phase = "idle"
    /\ \E t \in SUBSET Files \ {{}}, k \in {config, NoKey} :
        Becomes(p, [Idle EXCEPT !.phase = "keyed", !.targets = t, !.key = k,
                                !.contents = [f \in t |-> {content[f]}], !.configs = {config}])
    /\ UNCHANGED store

\* readLintCache: the entries, if they were written for the key k.
\* The faulty variant does not compare the keys.
FaultyReadStore(k) == store.files
ReadStore(k) == IF store.key = k THEN store.files ELSE NoEntries

\* The targets whose content has no entry.
Unknown(targets, entries) ==
    {f \in targets : f \notin DOMAIN entries \/ entries[f].hash # content[f]}

\* The cache is read and the targets are hashed; without a key there is no cache.
Prepare(p) ==
    /\ run[p].phase = "keyed"
    /\ LET cached == IF run[p].key = NoKey THEN NoEntries ELSE ReadStore(run[p].key)
       IN  Becomes(p, [run[p] EXCEPT !.phase = "prepared", !.cached = cached,
                                     !.hashes = Restrict(content, run[p].targets),
                                     !.pending = Unknown(run[p].targets, cached)])
    /\ UNCHANGED store

\* The engine of a shard or a batch starts and reads the configuration.
Spawn(p) ==
    /\ run[p].phase \in {"prepared", "linting"} /\ run[p].pending # {}
    /\ Becomes(p, [run[p] EXCEPT !.phase = "linting", !.engines = @ \cup {config}])
    /\ UNCHANGED store

\* An engine reads the file f and diagnoses what it finds there.
Lint(p, f) ==
    /\ run[p].phase = "linting" /\ f \in run[p].pending
    /\ \E k \in run[p].engines :
       LET d == [content |-> content[f], config |-> k]
           known == DOMAIN run[p].fresh \cup {f}
       IN  Becomes(p, [run[p] EXCEPT
               !.pending = @ \ {f},
               !.fresh = [g \in known |-> IF g = f THEN d ELSE @[g]]])
    /\ UNCHANGED store

\* What the run p reports of its targets: fresh diagnostics before cached ones.
Reported(p) ==
    [f \in run[p].targets |->
        IF f \in DOMAIN run[p].fresh THEN run[p].fresh[f] ELSE run[p].cached[f].diagnosis]

\* The hashes that the entries are stored under.  Faulty: taken afterwards.
LateHashes(p) == content
HashesOf(p) == run[p].hashes

\* What the run p stores: an entry for each target and for nothing else.
Stored(p) ==
    [key |-> run[p].key,
     files |-> [f \in run[p].targets |-> [hash |-> HashesOf(p)[f], diagnosis |-> Reported(p)[f]]]]

Complete(p) == run[p].phase \in {"prepared", "linting"} /\ run[p].pending = {}

\* writeFileSync truncates the file ...
Truncate(p) ==
    /\ Complete(p) /\ run[p].key # NoKey
    /\ store' = Unusable
    /\ Becomes(p, [run[p] EXCEPT !.phase = "writing"])

\* ... and writes it before the run reports.  Another run that has truncated it too
\* will write over this text, and leave the end of it if its own text is shorter.
Write(p) ==
    /\ run[p].phase \in {"writing", "overwriting"}
    /\ store' = Stored(p) \/ (run[p].phase = "overwriting" /\ store' = Unusable)
    /\ run' = [q \in Runs |->
                   IF q = p THEN Idle
                   ELSE IF run[q].phase = "writing" THEN [run[q] EXCEPT !.phase = "overwriting"]
                   ELSE run[q]]
    /\ UNCHANGED <<content, config, raced, racedKeys>>

\* A run ends without rewriting the cache: it has none, a task failed, writing
\* failed, or it is killed.
End(p) ==
    /\ run[p].phase # "idle"
    /\ Becomes(p, Idle)
    /\ UNCHANGED store

Next ==
    \/ \E f \in Files : Edit(f)
    \/ Configure
    \/ \E p \in Runs : \/ Begin(p) \/ Prepare(p) \/ Spawn(p)
                       \/ \E f \in Files : Lint(p, f)
                       \/ Truncate(p) \/ Write(p) \/ End(p)

Spec == Init /\ [][Next]_vars

-----------------------------------------------------------------------------
TypeOK ==
    /\ content \in [Files -> Contents] /\ config \in Configs
    /\ store \in Cache
    /\ run \in [Runs -> Invocation]
    /\ \A p \in Runs : run[p].pending \subseteq run[p].targets
    /\ raced \subseteq Files \X Contents /\ racedKeys \subseteq Configs

\* Safety: whatever is edited or restored while runs overlap, fail or die, each diagnostic of a
\* report was computed from a content that the file, and a configuration that the program, had
\* during the run.  Excepted is the cached diagnostic of a hash, or of a key, that an edit,
\* or a new configuration, made old while some run had yet to lint: that run stores what it
\* then found under the old hash and key (lint-cli.ts:189-191, 270-281).
NoStaleReport ==
    \A p \in Runs : Complete(p) \/ run[p].phase \in {"writing", "overwriting"} =>
        \A f \in run[p].targets :
            LET linted == f \in DOMAIN run[p].fresh
            IN  /\ linted \/ <<f, run[p].hashes[f]>> \notin raced =>
                       Reported(p)[f].content \in run[p].contents[f]
                /\ linted \/ run[p].key \notin racedKeys =>
                       Reported(p)[f].config \in run[p].configs

\* Safety: an entry is of another content than its hash only if the file was edited after a run
\* took that hash and before its engine read the file, and of another configuration than its key
\* only if that changed after a run had printed it and while engines might still start.  Nothing
\* else makes a wrong entry: neither torn files, nor taking entries over from run to run, nor an
\* edit that is undone at another time (lint-cli.ts:183-191, 278-286, lint-cache.ts:34-44).
OnlyRacesSpoil ==
    \A f \in DOMAIN store.files :
        LET e == store.files[f]
        IN  /\ <<f, e.hash>> \notin raced => e.diagnosis.content = e.hash
            /\ store.key \notin racedKeys => e.diagnosis.config = store.key

\* "stores each discovered file's diagnostics under the SHA-256 of its content"
\* (docs/lint-execution.md:103-104): of the content they were computed from.
EntriesExact ==
    \A f \in DOMAIN store.files : store.files[f].diagnosis.content = store.files[f].hash
=============================================================================
