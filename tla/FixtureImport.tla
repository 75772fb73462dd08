---------------------------- MODULE FixtureImport ----------------------------
(***************************************************************************)
(* import-upstream.ts: it runs the test programs of the upstream rules     *)
(* with a tester that only records their cases, and writes them down as    *)
(* fixtures under the rule and the target that they belong to, which are   *)
(* global variables of the script.                                         *)
(*                                                                         *)
(* A test program is a sequence of statements, and what it exports at the  *)
(* end.  A case has a code and a kind: it is taken, excluded (a parser or  *)
(* syntax that is not supported), skipped (no fixture), or makes save      *)
(* throw.  The other fields of a fixture go by its code.                   *)
(***************************************************************************)
EXTENDS Naturals, Sequences, FiniteSets

CONSTANTS
    Catalogued,     \* the target of the first mapping of a source rule
    Suites          \* the mappings with their test files, and the programs of the files

VARIABLES
    suite,          \* the input, of which the mappings that are done are taken away
    files,          \* the files of the current mapping that are still to be run
    frames,         \* the programs being run: files and their next statements, the innermost last
    saving,         \* the cases that the innermost one is saving, and the rule to be put back
    currentRule, currentTarget, currentSource,
    capture,        \* the fixtures
    failures, exclusions,
    importer        \* what the command does

importVars ==
    <<suite, files, frames, saving, currentRule, currentTarget, currentSource, capture, failures,
      exclusions, importer>>

Current == <<currentRule, currentTarget>>
Idle == [cases |-> <<>>, after |-> {}]

ImportInit ==
    /\ suite \in Suites
    /\ files = <<>> /\ frames = <<>> /\ saving = Idle
    /\ currentRule = "" /\ currentTarget = "" /\ currentSource = ""
    /\ capture = <<>> /\ failures = {} /\ exclusions = <<>> /\ importer = "mapping"

Mapping == Head(suite.mappings)
Own == <<Mapping.source, Mapping.target>>

\* The next mapping, or the end of the loop.
NextMapping ==
    /\ importer = "mapping"
    /\ IF suite.mappings = <<>>
       THEN importer' = "writing" /\ UNCHANGED <<files, currentRule, currentTarget>>
       ELSE /\ importer' = "running"
            /\ files' = Mapping.files
            /\ currentRule' = Mapping.source /\ currentTarget' = Mapping.target
    /\ UNCHANGED <<suite, frames, saving, currentSource, capture, failures, exclusions>>

NextFile ==
    /\ importer = "running" /\ frames = <<>>
    /\ IF files = <<>>
       THEN /\ suite' = [suite EXCEPT !.mappings = Tail(@)]
            /\ importer' = "mapping"
            /\ UNCHANGED <<files, frames, currentSource, failures>>
       ELSE /\ files' = Tail(files)
            /\ currentSource' = Head(files)
            /\ IF Head(files) \in DOMAIN suite.programs
               THEN frames' = <<[file |-> Head(files), at |-> 1]>> /\ UNCHANGED failures
               ELSE failures' = failures \cup {Head(files)} /\ UNCHANGED frames
            /\ UNCHANGED <<suite, importer>>
    /\ UNCHANGED <<saving, currentRule, currentTarget, capture, exclusions>>

Frame == frames[Len(frames)]
Program == suite.programs[Frame.file]
Running == importer = "running" /\ frames # <<>> /\ saving = Idle
AtEnd == Frame.at > Len(Program.statements)
AtStatement(kind) == Running /\ ~AtEnd /\ Program.statements[Frame.at].kind = kind
Statement == Program.statements[Frame.at]
Onward == [frames EXCEPT ![Len(frames)].at = @ + 1]
Outward == SubSeq(frames, 1, Len(frames) - 1)

\* What a program throws ends all of them, and the loop notes it for the file that it ran.
ThrowOut == frames' = <<>> /\ failures' = failures \cup {currentSource}
Return == frames' = Onward /\ UNCHANGED failures

\* The cases are saved one after another; `meant' is the rule that the program names and its
\* target, for the property only.
SaveAll(cases, meant) == saving' = [cases |-> cases, after |-> {Current}, meant |-> meant]

\* CaptureTester.run: a name of the catalog is the rule for the run.
Run ==
    /\ AtStatement("run")
    /\ LET known == Statement.name \in DOMAIN Catalogued
           named == <<Statement.name, Catalogued[Statement.name]>>
       IN  /\ IF known /\ Statement.name # currentRule
              THEN currentRule' = named[1] /\ currentTarget' = named[2]
              ELSE UNCHANGED <<currentRule, currentTarget>>
           /\ SaveAll(Statement.cases, IF known /\ Statement.name # Mapping.source THEN named ELSE Own)
    /\ UNCHANGED <<suite, files, frames, currentSource, capture, failures, exclusions, importer>>

\* captureRun: the cases belong to the current rule.
CaptureRun ==
    /\ AtStatement("assert") /\ SaveAll(Statement.cases, Own)
    /\ UNCHANGED <<suite, files, frames, currentRule, currentTarget, currentSource, capture, failures,
                   exclusions, importer>>

\* requireFixture: a program of the suite is run, anything else is a stub or is not found.
Require ==
    /\ AtStatement("require")
    /\ IF Statement.name \in DOMAIN suite.programs
       THEN frames' = Append(Onward, [file |-> Statement.name, at |-> 1]) /\ UNCHANGED failures
       ELSE IF Statement.name = "stub" THEN Return ELSE ThrowOut
    /\ UNCHANGED <<suite, files, saving, currentRule, currentTarget, currentSource, capture,
                   exclusions, importer>>

\* The cases of the default export, when the program has ended.
EndProgram ==
    /\ Running /\ AtEnd /\ SaveAll(Program.exported, Own)
    /\ UNCHANGED <<suite, files, frames, currentRule, currentTarget, currentSource, capture, failures,
                   exclusions, importer>>

\* save: what it throws leaves the rule of the run.
save ==
    /\ saving # Idle /\ saving.cases # <<>>
    /\ LET case == Head(saving.cases)
           item == [rule |-> currentRule, target |-> currentTarget, code |-> case.code,
                    origin |-> currentSource, meant |-> saving.meant]
       IN  /\ IF case.kind = "throws" THEN ThrowOut /\ saving' = Idle
              ELSE saving' = [saving EXCEPT !.cases = Tail(@)] /\ UNCHANGED <<frames, failures>>
           /\ capture' = IF case.kind = "taken" THEN Append(capture, item) ELSE capture
           /\ exclusions' = IF case.kind = "excluded" THEN Append(exclusions, item) ELSE exclusions
    /\ UNCHANGED <<suite, files, currentRule, currentTarget, currentSource, importer>>

\* Faulty variant: the rule of one run stays for what follows it.
KeepAfter(previous, during) == during

Restored(previous, during) == previous

\* All cases are saved, and the program goes on or is left.
Saved ==
    /\ saving # Idle /\ saving.cases = <<>>
    /\ \E previous \in saving.after :
        /\ currentRule' = Restored(previous, Current)[1]
        /\ currentTarget' = Restored(previous, Current)[2]
    /\ saving' = Idle /\ frames' = IF AtEnd THEN Outward ELSE Onward
    /\ UNCHANGED <<suite, files, currentSource, capture, failures, exclusions, importer>>

\* Of equal cases of a rule only the first is kept.  Both files are written, whatever failed.
Unique ==
    {i \in DOMAIN capture : \A j \in DOMAIN capture :
        j < i => capture[j].rule # capture[i].rule \/ capture[j].code # capture[i].code}
WriteFixtures ==
    /\ importer = "writing"
    /\ capture' = [i \in Unique |-> capture[i]]
    /\ importer' = IF failures = {} THEN "imported" ELSE "failed"
    /\ UNCHANGED <<suite, files, frames, saving, currentRule, currentTarget, currentSource, failures,
                   exclusions>>

ImportNext ==
    \/ NextMapping \/ NextFile
    \/ Run \/ CaptureRun \/ Require \/ EndProgram \/ save \/ Saved
    \/ WriteFixtures

-----------------------------------------------------------------------------

\* After an import that succeeded, every fixture is under the rule that its test program names, or
\* else under the rule whose test file it is, with the target of that rule; whatever other rules
\* the programs before it ran, however they were nested (CaptureTester.run, evaluate).
CapturesAttributed ==
    importer = "imported" =>
        \A i \in DOMAIN capture : <<capture[i].rule, capture[i].target>> = capture[i].meant
=============================================================================
