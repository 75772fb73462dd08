--------------------------- MODULE LegacyContext ---------------------------
(***************************************************************************)
(* The contexts in which the plugin runs rules that were written for       *)
(* ESLint: legacy-context.ts, legacy-source.ts and the providers that put  *)
(* a layer of their own on a context (import.ts, react.ts).                *)
(*                                                                         *)
(* One process of the engine lints files one after another.  It creates    *)
(* every rule for a file and then calls their visitors, event by event.    *)
(* All rules of a file share an adapter, which remembers the node visited, *)
(* and an analysis of the scopes, in which they mark variables as used;    *)
(* the engine's own objects are used again for the next file, and only     *)
(* the syntax tree is new.  A tree is the number of its file.  Nodes are   *)
(* numbers, the program is 1.                                              *)
(***************************************************************************)
EXTENDS Integers, Sequences
LOCAL INSTANCE SequencesExt

CONSTANTS
    Processes,      \* what engines lint: files, rules, and which of their objects are frozen
    GlobalSets      \* the variables of each environment and year, with their settings

Typed(f) == f.extension \in {"ts", "cts"}
Segments(e) == {e.segments[i] : i \in DOMAIN e.segments}

\* A file as the engine has it: nodes are numbered before those below them, a segment that is
\* started as unreachable is so, and a global variable that a typed file defines is declared
\* at its top.
Parsed(f) ==
    /\ Len(f.parent) \in Nat \ {0} /\ f.functions \subseteq 2 .. Len(f.parent)
    /\ \A n \in 2 .. Len(f.parent) : f.parent[n] \in 1 .. n - 1
    /\ DOMAIN f.events = 1 .. Len(f.events) /\ Len(f.events) \in Nat
    /\ \A i \in DOMAIN f.events :
        LET e == f.events[i]
        IN  /\ e.node \in 1 .. Len(f.parent)
            /\ e.selector = "unreachableSegmentStart" => Segments(e) \cap f.reachable = {}
    /\ Typed(f) => \A name \in DOMAIN f.native :
                       f.native[name].defined => name \in f.declared[1]

ASSUME ProcessesAssumption ==
    \A p \in Processes :
        /\ p.frozen \in {"none", "file", "all"}
        /\ DOMAIN p.rules = 1 .. Len(p.rules) /\ Len(p.rules) \in Nat \ {0}
        /\ DOMAIN p.files = 1 .. Len(p.files) /\ Len(p.files) \in Nat
        /\ \A i \in DOMAIN p.files : Parsed(p.files[i])

VARIABLES
    process,        \* the engine
    linted,         \* the number of the file, which is that of its tree
    adapters,       \* the adapters that have been made
    adapterOf,      \* the latest adapter of each tree
    analyses,       \* the analyses of scopes that have been made
    analysisOf,     \* those that are kept, by tree and key
    used,           \* the variables that are marked, by analysis and scope
    contexts,       \* what each rule that was created for the file has got
    event, turn,    \* the event that is delivered, and the rule whose turn it is
    started,        \* the segments whose start each rule has handled
    answer          \* what the last visitor could learn

pluginVars == <<process, linted, adapters, adapterOf, analyses, analysisOf, used, contexts,
                event, turn, started, answer>>

Unvisited == [rule |-> 0]

PluginInit ==
    /\ process \in Processes /\ linted = 0
    /\ adapters = <<>> /\ adapterOf = <<>> /\ analyses = <<>> /\ analysisOf = <<>>
    /\ used = {} /\ contexts = <<>> /\ event = 1 /\ turn = 1 /\ started = <<>>
    /\ answer = Unvisited

-----------------------------------------------------------------------------
\* The file that is linted.
Script == process.files[linted]
OneOf(S, otherwise) == IF S = {} THEN otherwise ELSE CHOOSE s \in S : TRUE

\* The entries of f, over those of g.
Upon(f, g) == [x \in DOMAIN f \cup DOMAIN g |-> IF x \in DOMAIN f THEN f[x] ELSE g[x]]

\* 0 is a version that is no number, like "latest".
Year(version) ==
    CASE version = 0 -> 2026
      [] version > 5 /\ version < 2015 -> version + 2009
      [] OTHER -> version

SourceType(f) ==
    IF f.agSourceType = {} THEN f.sourceType
    ELSE IF f.extension \in {"cjs", "cts"} THEN "commonjs" ELSE OneOf(f.agSourceType, "")
AnalysedYear(f) == Year(OneOf(f.agEcmaVersion, 2026))
RuleYear(f) == OneOf(f.agRuleEcmaVersion \ {0}, AnalysedYear(f))

\* The words of the file's block comments on variables; the last one on a name counts.
Comments(f, kind) == SelectSeq(f.comments, LAMBDA c : c.block /\ c.kind = kind)
Directed(f) ==
    LET words == Comments(f, "global")
    IN  [name \in {words[i].name : i \in DOMAIN words} |->
            Last(SelectSeq(words, LAMBDA c : c.name = name)).word]

Editions ==
    <<[year |-> 2015, set |-> "es2015"], [year |-> 2017, set |-> "es2017"],
      [year |-> 2020, set |-> "es2020"], [year |-> 2021, set |-> "es2021"]>>

\* The settings of variables; each source has the word over those below it.
Configured(f) ==
    LET With(sets, below) == FoldLeft(LAMBDA all, set : Upon(GlobalSets[set], all), below, sets)
        years == SelectSeq(Editions, LAMBDA edition : AnalysedYear(f) >= edition.year)
        natives == {name \in DOMAIN f.native : ~f.native[name].defined}
        languages == With(f.env, With([i \in DOMAIN years |-> years[i].set], GlobalSets["es5"]))
        modules == IF SourceType(f) = "commonjs" THEN GlobalSets["commonjs"] ELSE <<>>
        engine == IF f.agEcmaVersion # {} THEN <<>>
                  ELSE [name \in natives |-> IF f.native[name].writable THEN "writable" ELSE "readonly"]
    IN  Upon(f.globals, Upon(engine, Upon(modules, languages)))

\* Does a scope inside the global one hold what the file declares at its top?
OwnScope(f) ==
    IF Typed(f) THEN f.parsedAs = "module" ELSE SourceType(f) # "script" \/ f.globalReturn

\* The global scope of an analysis: what is configured, by the file's own word or not,
\* and what a script declares.
StandaloneGlobals(f) ==
    LET settings == Upon(Directed(f), Configured(f))
        there == {name \in DOMAIN settings : settings[name] # "off"}
    IN  [name \in there \cup (IF OwnScope(f) THEN {} ELSE f.declared[1]) |->
            [writable |-> name \in there /\ settings[name] = "writable",
             explicit |-> name \in there /\ name \in DOMAIN Directed(f)]]

\* nativeCommentGlobals: the engine's global scope with the file's own words.  What a file
\* declares that was parsed as a script, but is configured as a module, is not configured.
NativeGlobals(f) ==
    LET asModule == SourceType(f) = "module" /\ f.parsedAs = "script"
        directed == Directed(f)
        off == {name \in DOMAIN directed : directed[name] = "off"}
        dropped == {name \in DOMAIN f.native \cap off : ~f.native[name].defined}
        added == DOMAIN directed \ (off \cup DOMAIN f.native)
        Own(name) == asModule /\ f.native[name].defined
    IN  Upon([name \in added |-> [writable |-> directed[name] = "writable", explicit |-> TRUE]],
             [name \in DOMAIN f.native \ dropped |->
                 [writable |-> f.native[name].writable /\ ~Own(name),
                  explicit |-> f.native[name].explicit /\ ~Own(name)]])

Globals(f) == IF Typed(f) THEN NativeGlobals(f) ELSE StandaloneGlobals(f)

-----------------------------------------------------------------------------
\* Scopes: 0 is the global one, 1 the one inside it where a module or a CommonJS file
\* declares, and every function has one of its own.
FunctionsAround(f) ==
    LET up[m \in 1 .. Len(f.parent)] ==
            IF m \in f.functions \cup {1} THEN m ELSE up[f.parent[m]]
    IN  up
NearestScope(f, n) ==
    LET m == FunctionsAround(f)[n] IN IF m = 1 /\ ~OwnScope(f) THEN 0 ELSE m
GetScope(f, current) == IF current = 1 THEN 0 ELSE NearestScope(f, current)

\* The scope that markVariableAsUsed finds a name in, if any.  In TypeScript it is the
\* engine's, which knows nothing of directives.
Holding(f, current, name) ==
    LET Has(s) == IF s = 0 THEN name \in DOMAIN (IF Typed(f) THEN f.native ELSE StandaloneGlobals(f))
                  ELSE name \in f.declared[s]
        from == GetScope(f, current)
        holder[s \in 0 .. Len(f.parent)] ==
            IF Has(s) THEN {s}
            ELSE CASE s = 0 -> {} [] s = 1 -> holder[0] [] OTHER -> holder[NearestScope(f, f.parent[s])]
    IN  holder[IF from = 0 /\ OwnScope(f) THEN 1 ELSE from]

-----------------------------------------------------------------------------
OpenFile ==
    /\ linted < Len(process.files)
    /\ linted > 0 => event > Len(Script.events)
    /\ linted' = linted + 1
    /\ contexts' = <<>> /\ event' = 1 /\ turn' = 1 /\ answer' = Unvisited
    /\ started' = [r \in DOMAIN process.rules |-> {}]
    /\ UNCHANGED <<process, adapters, adapterOf, analyses, analysisOf, used>>

\* ruleLayers: the nearest frozen object below the rule's context is the root.
Roots(rule) ==
    CASE process.frozen = "none" -> {}
      [] process.frozen = "all" /\ rule.layer # "none" -> {rule.name}
      [] OTHER -> {"file"}

\* What tells one analysis of a file from another.
Key(f) ==
    [tree |-> linted, year |-> AnalysedYear(f), ruleYear |-> RuleYear(f), globals |-> f.globals,
     env |-> f.env, sourceType |-> SourceType(f), historical |-> f.agEcmaVersion # {}]

\* legacySource: the scopes of the engine, 0, or those of an analysis.
Analyse(f) ==
    LET key == Key(f)
        exported == {name \in DOMAIN StandaloneGlobals(f) :
                        \E i \in DOMAIN f.comments :
                            /\ f.comments[i].block /\ f.comments[i].kind = "exported"
                            /\ f.comments[i].name = name}
    IN  IF Typed(f) \/ key \in DOMAIN analysisOf
        THEN UNCHANGED <<analyses, analysisOf, used>>
        ELSE /\ analyses' = Append(analyses, key)
             /\ analysisOf' = Upon([k \in {key} |-> Len(analyses')], analysisOf)
             /\ used' = used \cup {[of |-> <<linted, Len(analyses')>>, scope |-> 0, name |-> name] :
                                      name \in exported}
SourceOf(f) ==
    LET found == analysisOf'[Key(f)] IN IF Typed(f) THEN <<linted, 0>> ELSE <<analyses'[found].tree, found>>

\* The adapter that serves this file and root already.
Kept(root) ==
    IF linted \in DOMAIN adapterOf
    THEN {i \in {adapterOf[linted]} : adapters[i].root = root} ELSE {}

\* fileAdapter.
Adapt(f, root) ==
    IF Kept(root) # {} THEN UNCHANGED <<adapters, adapterOf, analyses, analysisOf, used>>
    ELSE /\ Analyse(f)
         /\ adapters' = Append(adapters,
                [root |-> root, source |-> SourceOf(f), sourceType |-> SourceType(f),
                 year |-> RuleYear(f), current |-> 1])
         /\ adapterOf' = Upon([tree \in {linted} |-> Len(adapters')], adapterOf)

\* legacyContext up to the visitors, of the next rule; it throws without a frozen object.
\* What a layer says of the language keeps the source type and year of the adapter.
CreateRule ==
    /\ linted > 0 /\ Len(contexts) < Len(process.rules)
    /\ LET rule == process.rules[Len(contexts) + 1]
       IN  \/ /\ Roots(rule) = {}
              /\ contexts' = Append(contexts, [adapter |-> 0])
              /\ UNCHANGED <<adapters, adapterOf, analyses, analysisOf, used>>
           \/ \E root \in Roots(rule) :
                /\ Adapt(Script, root)
                /\ contexts' = Append(contexts, [adapter |-> adapterOf'[linted]])
    /\ UNCHANGED <<process, linted, event, turn, started, answer>>

-----------------------------------------------------------------------------
Neighbours(f, s) == {t \in f.segments : <<s, t>> \in f.edges \/ <<t, s>> \in f.edges}

\* Faulty variant: the engine's finished graph is shown as it is.
FinishedGraph(f, s, those) == Neighbours(f, s)

\* adaptSegment: the neighbours of a segment that a rule may see.
Shown(f, s, those) == {t \in Neighbours(f, s) : t \notin f.reachable \/ t \in those}

Starts(e) == e.selector \in {"segmentStart", "unreachableSegmentStart"}

\* The visitor of one rule is called: it asks for the scope, marks variables, and follows
\* the edges of the segments it is given.
Respond(rule, e) ==
    LET own == contexts[turn].adapter
        source == adapters[own].source
    IN  /\ adapters' = [adapters EXCEPT ![own].current = e.node]
        /\ used' = used \cup
               UNION {{[of |-> source, scope |-> s, name |-> name] :
                          s \in Holding(Script, adapters'[own].current, name)} : name \in rule.marks}
        /\ started' = IF Starts(e) THEN [started EXCEPT ![turn] = @ \cup Segments(e)] ELSE started
        /\ answer' = [rule |-> turn, event |-> event, source |-> source,
                      sourceType |-> adapters[own].sourceType, year |-> adapters[own].year,
                      scope |-> GetScope(Script, adapters'[own].current), globals |-> Globals(Script),
                      shown |-> UNION {Shown(Script, s, started[turn]) : s \in Segments(e)}]

VisitNode ==
    /\ linted > 0 /\ Len(contexts) = Len(process.rules) /\ event <= Len(Script.events)
    /\ LET rule == process.rules[turn]
           e == Script.events[event]
       IN  IF contexts[turn].adapter # 0 /\ e.selector \in rule.listens THEN Respond(rule, e)
           ELSE answer' = Unvisited /\ UNCHANGED <<adapters, used, started>>
    /\ turn' = IF turn = Len(process.rules) THEN 1 ELSE turn + 1
    /\ event' = IF turn = Len(process.rules) THEN event + 1 ELSE event
    /\ UNCHANGED <<process, linted, adapterOf, analyses, analysisOf, contexts>>

PluginNext == OpenFile \/ CreateRule \/ VisitNode

-----------------------------------------------------------------------------
Visited == Script.events[answer.event]

\* The nodes around each node, with itself.
NodesAround(f) ==
    LET above[n \in 1 .. Len(f.parent)] ==
            {n} \cup (IF n = 1 THEN {} ELSE above[f.parent[n]])
    IN  above

\* A visitor is answered from the innermost scope around the node it visits.
ScopeOfNode ==
    LET around == NodesAround(Script)[Visited.node] \cap Script.functions
    IN  IF around # {} /\ Visited.node # 1
        THEN answer.scope \in around /\ \A n \in around : n <= answer.scope
        ELSE answer.scope = IF Visited.node # 1 /\ OwnScope(Script) THEN 1 ELSE 0

\* All rules of a file use one analysis of it, and so does whoever marks a variable.
OneAnalysis ==
    \A i \in DOMAIN contexts : contexts[i].adapter # 0 =>
        LET adapter == adapters[contexts[i].adapter]
        IN  /\ adapter.source[1] = linted
            /\ adapter.sourceType = SourceType(Script)
            /\ \A u \in used : u.of[1] = linted => u.of = adapter.source

\* A rule that handles the starts of segments is shown those that started, and no other
\* one that it could take for one it knows.
GraphSoFar ==
    "segmentStart" \in process.rules[answer.rule].listens =>
        LET before == {s \in Script.segments : \E i \in 1 .. answer.event - 1 :
                          Script.events[i].selector = "segmentStart" /\ s \in Segments(Script.events[i])}
        IN  answer.shown = UNION {{t \in Neighbours(Script, s) : t \in before \/ t \notin Script.reachable} :
                                  s \in Segments(Visited)}

\* The file's own word on a name decides whether it is a global variable, unless the file
\* declares it.
DirectiveDecides ==
    \A name \in DOMAIN Directed(Script) :
        name \notin Script.declared[1] =>
            (name \in DOMAIN answer.globals <=> Directed(Script)[name] # "off")

\* Safety (legacy-context.ts:105-137, 231-281, legacy-source.ts:195-207): although the
\* engine's objects outlive the file, contexts differ by provider and the graph is
\* complete from the start, what a visitor of any rule learns is of its own file, of the
\* node that it visits and of the segments it was told of, and a variable that one rule
\* marked is marked for all.
RulesSeeTheirFile ==
    /\ linted > 0 => OneAnalysis
    /\ answer # Unvisited => ScopeOfNode /\ GraphSoFar /\ DirectiveDecides
=============================================================================
