----------------------------- MODULE ConsumerCli -----------------------------
(***************************************************************************)
(* The command ag-oxlint-config (cli.ts): it reads its arguments and then  *)
(* prints its help, writes a configuration, or checks the compiler options *)
(* of a project (compiler.ts), which may extend other files.               *)
(*                                                                         *)
(* A path is a stem with or without the ending .json.  What `extends'      *)
(* names is a path below the declaring file or that of a package, or the   *)
(* package alone.  A file holds what it extends and its own options, or    *)
(* cannot be parsed; comments and trailing commas are left out.            *)
(***************************************************************************)
EXTENDS CompatibilityConfig

CONSTANT Invocations    \* the arguments, and the files of the project

\* A project has finitely many files, and what a file extends is a list.
ASSUME InvocationsAssumption ==
    \A c \in Invocations :
        /\ IsFiniteSet(DOMAIN c.files)
        /\ \A p \in DOMAIN c.files :
               LET parents == c.files[p].extends
               IN  Len(parents) \in Nat /\ DOMAIN parents = 1 .. Len(parents)

VARIABLES
    call,       \* the invocation
    index,      \* the next argument
    seen,       \* the flags so far
    parsed,     \* what they ask for
    stage,      \* what the command does
    disk        \* the files of the project

cliVars == <<call, index, seen, parsed, stage, disk>>

VALUED == {"--language", "--environment", "--policy", "--profile", "--import-groups",
           "--source-type", "--output"}
SWITCHES == {"--force", "--help", "--check-tsconfig"}
Defaults ==
    [language |-> "javascript", environment |-> "browser", policy |-> "compatibility",
     profile |-> "guide", importGroups |-> Nothing, sourceType |-> "module", typeAware |-> FALSE]
OptionOf ==
    "--language" :> "language" @@ "--environment" :> "environment" @@ "--policy" :> "policy"
    @@ "--profile" :> "profile" @@ "--import-groups" :> "importGroups" @@ "--source-type" :> "sourceType"

CliInit ==
    /\ call \in Invocations
    /\ index = 1 /\ seen = {} /\ stage = "parsing" /\ disk = call.files
    /\ parsed = [options |-> Defaults, output |-> ".oxlintrc.json", force |-> FALSE, help |-> FALSE,
                 tsconfig |-> {}]

\* The value behind a flag: the next argument, if it is no flag.
Value == {call.args[i] : i \in {i \in {index + 1} \cap DOMAIN call.args : call.args[i] \notin call.dashed}}

ReadFlag ==
    /\ stage = "parsing" /\ index <= Len(call.args)
    /\ LET flag == call.args[index]
           rejected == \/ flag \in seen
                       \/ flag \notin VALUED \cup SWITCHES
                       \/ flag \in VALUED /\ Value = {}
           takes == flag \in VALUED \/ flag = "--check-tsconfig"
       IN  /\ seen' = seen \cup {flag}
           /\ stage' = IF rejected THEN "rejected" ELSE stage
           /\ index' = index + 1 + (IF takes THEN Cardinality(Value) ELSE 0)
           /\ parsed' =
                CASE rejected -> parsed
                  [] flag = "--force" -> [parsed EXCEPT !.force = TRUE]
                  [] flag = "--help" -> [parsed EXCEPT !.help = TRUE]
                  [] flag = "--check-tsconfig" ->
                        [parsed EXCEPT !.tsconfig = IF Value = {} THEN {"tsconfig.json"} ELSE Value]
                  [] flag = "--output" -> [parsed EXCEPT !.output = CHOOSE v \in Value : TRUE]
                  [] OTHER -> [parsed EXCEPT !.options[OptionOf[flag]] = CHOOSE v \in Value : TRUE]
    /\ UNCHANGED <<call, disk>>

ParsedAll ==
    /\ stage = "parsing" /\ index > Len(call.args)
    /\ stage' = CASE ~ValidOptions(parsed.options) -> "rejected"
                  [] parsed.help -> "printed"
                  [] parsed.tsconfig # {} -> "checking"
                  [] parsed.output = "-" -> "printed"
                  [] OTHER -> "writing"
    /\ UNCHANGED <<call, index, seen, parsed, disk>>

\* A new file, or with --force whatever is there.
WriteConfig ==
    /\ stage = "writing"
    /\ IF ~parsed.force /\ parsed.output \in DOMAIN disk
       THEN stage' = "failed" /\ UNCHANGED disk
       ELSE stage' = "written" /\ disk' = parsed.output :> [readable |-> TRUE, extends |-> <<>>, options |-> <<>>] @@ disk
    /\ UNCHANGED <<call, index, seen, parsed>>

-----------------------------------------------------------------------------
\* compiler.ts

Path(stem, json) == IF json THEN stem \o ".json" ELSE stem

\* The paths that an entry of `extends' may mean, in the order in which they are tried.
Candidates(s) ==
    CASE s.kind = "relative" ->
            IF Path(s.stem, s.json) \in DOMAIN disk THEN <<Path(s.stem, s.json)>>
            ELSE <<Path(s.stem, TRUE)>>
      [] s.kind = "package" ->
            call.manifest \o <<"pkg/tsconfig.json">>
      [] s.kind = "subpath" -> <<Path(s.stem, s.json), Path(s.stem, s.json) \o ".json">>

\* A relative path is taken unseen; of a package, the first form that is installed.
resolveExtends(s) ==
    IF s.kind = "relative" THEN {Head(Candidates(s))}
    ELSE LET tried == Candidates(s)
             found == {i \in DOMAIN tried : tried[i] \in DOMAIN disk}
         IN  IF found = {} THEN {} ELSE {tried[CHOOSE i \in found : \A j \in found : i <= j]}

\* Faulty variant: the first file of the chain wins.
FirstMerged(below, above) == below @@ above

\* The options of a file over those that came before it.
Merged(below, above) ==
    [o \in DOMAIN below \cup DOMAIN above |-> IF o \in DOMAIN above THEN above[o] ELSE below[o]]

\* What the entries of a file give it, from the results of loading them in turn.
Inherited(results) ==
    LET after[n \in 0 .. Len(results)] ==
            IF n = 0 THEN {<<>>}
            ELSE UNION {{Merged(below, above) : above \in results[n]} : below \in after[n - 1]}
    IN  after[Len(results)]

Readable(path) == path \in DOMAIN disk /\ disk[path].readable

\* The files that a file extends.
Extended(path) ==
    IF ~Readable(path) THEN {}
    ELSE UNION {resolveExtends(disk[path].extends[i]) : i \in DOMAIN disk[path].extends}
Files == DOMAIN disk \cup parsed.tsconfig \cup UNION {Extended(path) : path \in DOMAIN disk}

\* By the files on the current chain and the file: its options, or nothing if it cannot be loaded.
load ==
    LET loaded[chain \in SUBSET DOMAIN disk] ==
            [path \in Files |->
                IF path \in chain \/ ~Readable(path) THEN {}
                ELSE LET parents == disk[path].extends
                         results == [i \in DOMAIN parents |->
                                        UNION {loaded[chain \cup {path}][p] : p \in resolveExtends(parents[i])}]
                     IN  {Merged(below, disk[path].options) : below \in Inherited(results)}]
    IN  loaded

Has(options, o, value) == o \in DOMAIN options /\ options[o] = value
STRICT_FAMILY == {"noImplicitAny", "strictNullChecks"}
Problems(options) ==
    {o \in {"strict", "noUncheckedIndexedAccess"} : ~Has(options, o, TRUE)}
    \cup {o \in {"useUnknownInCatchVariables"} \cup STRICT_FAMILY : Has(options, o, FALSE)}

checkTsconfig ==
    /\ stage = "checking"
    /\ \E path \in parsed.tsconfig :
           stage' = IF \E options \in load[{}][path] : Problems(options) = {} THEN "meets" ELSE "failed"
    /\ UNCHANGED <<call, index, seen, parsed, disk>>

CliNext == ReadFlag \/ ParsedAll \/ WriteConfig \/ checkTsconfig

-----------------------------------------------------------------------------

\* The files that some files lead to in steps.
Closure(step, files) ==
    {p \in DOMAIN step :
        \A S \in SUBSET DOMAIN step :
            files \subseteq S /\ (\A q \in S : step[q] \subseteq S) => p \in S}
Reached(files) == Closure([p \in Files |-> Extended(p)], files)

\* Every file of the project can be read, is found and does not extend itself in the end.
Whole(root) ==
    \A p \in Reached({root}) :
        /\ Readable(p)
        /\ \A i \in DOMAIN disk[p].extends : resolveExtends(disk[p].extends[i]) # {}
        /\ p \notin Reached(Extended(p))

\* The file behind the last entry with which an option comes, if the file itself does not set it.
Sets(path, o) == Readable(path) /\ o \in DOMAIN disk[path].options
Deciding(path, o) ==
    IF ~Readable(path) \/ Sets(path, o) THEN {}
    ELSE LET parents == disk[path].extends
             with == {i \in DOMAIN parents : \E p \in Reached(resolveExtends(parents[i])) : Sets(p, o)}
         IN  UNION {resolveExtends(parents[i]) : i \in {i \in with : \A j \in with : j <= i}}

\* The value of an option: the file's own, else that of the last entry that gives it one.
Gives(path, o) ==
    {disk[p].options[o] : p \in {p \in Closure([q \in Files |-> Deciding(q, o)], {path}) : Sets(p, o)}}

\* The check of a project passes exactly when TypeScript can read the whole of it and no file that
\* comes later takes back what the guide requires: a project that extends a file twice is no
\* circle, and the checked file decides over all (checkTsconfig).
ChecksWhatTypeScriptUses ==
    stage \in {"meets", "failed"} =>
        \A root \in parsed.tsconfig :
            stage = "meets" <=>
                /\ Whole(root)
                /\ \A o \in {"strict", "noUncheckedIndexedAccess"} : Gives(root, o) = {TRUE}
                /\ \A o \in {"useUnknownInCatchVariables"} \cup STRICT_FAMILY : Gives(root, o) # {FALSE}
=============================================================================
