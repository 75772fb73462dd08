----------------------------- MODULE MCTooling -----------------------------
(***************************************************************************)
(* The instances of the tools around the catalog: each behaviour is that   *)
(* of one of them, which is chosen at the start.                           *)
(***************************************************************************)
EXTENDS ConsumerCli, SourcePolicy, CatalogGenerator, Mirrors, FixtureImport, SnapshotRefresh, LegacyContext
LOCAL INSTANCE SequencesExt

Replacement(target, implementation, keepsCore) ==
    [target |-> target, setting |-> Setting(IF target = Nothing THEN "off" ELSE "error", {}),
     implementation |-> implementation, keepsCore |-> keepsCore]
Mapped(source, target, level) ==
    [Unmapped EXCEPT !.source = source, !.target = target, !.setting = Setting(level, {}),
                     !.implementation = "javascript"]
MCMappings ==
    <<Mapped("no-debugger", "ag-compat/no-debugger", "error"),
      [Mapped("no-shadow", "ag-compat/no-shadow", "error")
          EXCEPT !.typescript = Replacement("eslint/no-shadow", "native", FALSE)],
      [Mapped("no-undef", "ag-compat/no-undef", "error")
          EXCEPT !.typescript = Replacement(Nothing, "disabled", FALSE)],
      [Mapped("indent", "ag-compat/indent", "error")
          EXCEPT !.typescript = Replacement("ag-style/indent", "javascript", TRUE)],
      Mapped("dot-notation", "ag-compat/dot-notation", "error"),
      Mapped("import/no-commonjs", Nothing, "off"),
      [Mapped("import/no-commonjs", "import/no-commonjs", "error") EXCEPT !.scope = "guideline"],
      [Mapped("@ts/dot-notation", "typescript/dot-notation", "off")
          EXCEPT !.scope = "adguard-projects", !.language = "typescript", !.typed = TRUE],
      [Mapped("@ts/type-exports", "typescript/type-exports", "error")
          EXCEPT !.scope = "adguard-projects", !.language = "typescript", !.typed = TRUE]>>

Aliased(name, schema) ==
    [Unregistered EXCEPT !.canonical = name, !.target = "ag-compat/" \o name,
                         !.implementation = "javascript", !.schema = schema]
TypedAlias(name, javascript, typed, schema) ==
    [Unregistered EXCEPT !.canonical = name, !.target = "typescript/" \o name, !.typed = typed,
        !.implementation = "native", !.preserve = TRUE, !.language = "typescript",
        !.javascript = javascript, !.schema = schema]
MCCompatibility ==
    "no-debugger" :> Aliased("no-debugger", {}) @@ "no-shadow" :> Aliased("no-shadow", {"a"})
    @@ "no-undef" :> Aliased("no-undef", {"a"})
    @@ "indent" :> [Aliased("indent", {"a", "d"}) EXCEPT !.defaults = {"d"}]
    @@ "dot-notation" :> Aliased("dot-notation", {"a"})
    @@ "@ts/no-shadow" :> [Aliased("no-shadow", {}) EXCEPT !.target = "eslint/no-shadow",
                              !.implementation = "native", !.preserve = TRUE, !.javascript = "base"]
    @@ "@ts/dot-notation" :>
        [TypedAlias("dot-notation", "base", TRUE, {"a", "t"}) EXCEPT !.typescriptOnly = {"t"}]
    @@ "@ts/no-explicit-any" :> TypedAlias("no-explicit-any", "inert", FALSE, {"a"})
    @@ "@ts/return-await" :> TypedAlias("return-await", "same", TRUE, {"a"})
    @@ "@ts/type-exports" :> TypedAlias("type-exports", Nothing, TRUE, {"a"})
MCNativeEvidence ==
    "no-debugger" :> "eslint/no-debugger" @@ "@ts/type-exports" :> "typescript/type-exports"
MCManualClauses == {"1.1"}
MCTypeScriptSources ==
    {s \in DOMAIN MCCompatibility :
        s \in {"@ts/no-shadow", "@ts/dot-notation", "@ts/no-explicit-any", "@ts/return-await",
               "@ts/type-exports"}}
    \cup {"@ts/any", "@ts/shadow", "@ts/exports", "@ts/dot", "@ts/gone"}
MCSources == DOMAIN MCCompatibility \cup {"import/no-commonjs", "unknown", "1.1"}

MCProviderOf ==
    [t \in {"ag-compat/no-debugger", "ag-compat/no-shadow", "ag-compat/no-undef", "ag-compat/indent",
            "ag-compat/dot-notation"} |-> "ag-compat"]
    @@ [t \in {"ag-style/indent", "ag-style/semi"} |-> "ag-style"] @@ "ag-import/order" :> "ag-import"
    @@ [t \in {"eslint/no-shadow", "eslint/no-debugger"} |-> "eslint"]
    @@ [t \in {"typescript/dot-notation", "typescript/no-explicit-any", "typescript/return-await",
               "typescript/type-exports"} |-> "typescript"]
    @@ "import/no-commonjs" :> "import" @@ "mine/rule" :> "mine" @@ "ag-ts-style/semi" :> "ag-ts-style"
MCPROVIDERS == {"ag-compat", "ag-style", "ag-import"}
MCALIASES == {"ag-ts-style"}
MCUnnamed == {"./local.js"}

On(ts) == [t \in ts |-> Setting("error", {})]
OffAll(ts) == [t \in ts |-> Off]
MCPresets ==
    [rules |-> On({"ag-compat/no-shadow", "ag-compat/indent"}) @@ OffAll({"import/no-commonjs"}),
     typescriptRules |-> OffAll({"ag-compat/no-shadow", "ag-compat/indent"})
         @@ On({"eslint/no-shadow", "ag-style/indent"}),
     guideline |-> [rules |-> On({"import/no-commonjs"}) @@ OffAll({"ag-compat/indent"}),
                    typescriptRules |-> OffAll({"ag-style/indent"})],
     profile |-> [rules |-> On({"ag-compat/dot-notation", "ag-compat/indent"}),
                  typescriptRules |-> OffAll({"typescript/dot-notation"}) @@ On({"typescript/type-exports"})],
     importGroups |-> [g \in {Nothing, "example", "prose"} |-> Setting("error", {g})]]

RuleSettings == {Setting("off", {}), Setting("error", {}), Setting("warn", {"a"}),
             Setting("error", {"t"}), Setting("off", {"t"}), Setting("bogus", {})}
Rules(sources, settings) == [source : sources, setting : settings]
Grp(rules, language, typeAware, accept, parser, settings) ==
    [id |-> "main", files |-> {"src"}, rules |-> rules, language |-> language, typeAware |-> typeAware,
     accept |-> accept, parserOptions |-> parser, settings |-> settings]
Singles ==
    {Grp(<<r>>, l, a, c, p, s) : r \in Rules(MCSources, RuleSettings), l \in {"javascript", "typescript"},
        a \in BOOLEAN, c \in BOOLEAN, p \in {{}, {"lib"}}, s \in {{}, {"react"}, {"custom"}}}
Groupings ==
    {<<g>> : g \in Singles}
    \cup {<<Grp(<<q, r>>, l, a, FALSE, {}, {})>> :
            q \in Rules(MCSources \ {"1.1", "unknown"}, {Off, Setting("error", {}), Setting("warn", {"a"})}),
            r \in Rules(MCSources \ {"1.1", "unknown"}, {Off, Setting("error", {}), Setting("error", {"t"})}),
            l \in {"javascript", "typescript"}, a \in BOOLEAN}
Distinct(gs) == \A i, j \in DOMAIN gs[1].rules : i # j => gs[1].rules[i].source # gs[1].rules[j].source
Triples ==
    {<<Grp(<<q, r, s>>, l, TRUE, FALSE, {}, {})>> :
        q, r, s \in Rules({"no-shadow", "@ts/no-shadow", "dot-notation"}, {Off, Setting("error", {}), Setting("warn", {"a"})}),
        l \in {"javascript", "typescript"}}
Named(g, id, those) == [g EXCEPT !.id = id, !.files = those]
OneRule(source) == Grp(<<[source |-> source, setting |-> Setting("error", {})]>>, "javascript", FALSE, FALSE, {}, {})
Several ==
    {<<Named(OneRule("no-debugger"), i, {"src"}), Named(OneRule(s), j, f)>> :
        s \in {"no-shadow", "@ts/return-await"}, i \in {"one", ""}, j \in {"one", "two"}, f \in {{}, {"src"}}}
GroupRequests ==
    [kind : {"groups"}, groups : {gs \in Groupings \cup Triples : Distinct(gs)} \cup Several]
PresetRequests ==
    [kind : {"preset"}, options :
        [language : {"javascript", "typescript"}, policy : {"compatibility", "guideline", "strict"},
         profile : {"guide", "adguard-projects"}, sourceType : {"module", "script"},
         typeAware : BOOLEAN, importGroups : {Nothing, "example", "prose"}, environment : {"both"}]]
OwnLayers ==
    {r @@ s : r \in {NoRules} \cup [{"ag-style/semi"} -> {Off, Setting("error", {}), Setting("warn", {})}],
              s \in {NoRules} \cup [{"mine/rule"} -> {Off, Setting("error", {})}]}
        \cup {[t \in {"ag-ts-style/semi"} |-> Setting("error", {})], On({"eslint/no-shadow"}),
              "mine/rule" :> Setting("bogus", {})}
OwnRequests ==
    [kind : {"own"}, layers : {<<a, b, c>> : a, b, c \in OwnLayers},
     plugins : {{"mine"}, {"ag-style", "./local.js"}}]
MCRequests == GroupRequests \cup PresetRequests \cup OwnRequests

Extends(kind, stem, json) == [kind |-> kind, stem |-> stem, json |-> json]
Config(extends, options) == [readable |-> TRUE, extends |-> extends, options |-> options]
Strict == [o \in {"strict", "noUncheckedIndexedAccess"} |-> TRUE]
Undone == {Strict, "strict" :> FALSE, "strictNullChecks" :> FALSE}
Specifiers == {Extends("relative", "a", FALSE), Extends("relative", "b", TRUE),
               Extends("package", "pkg", FALSE), Extends("subpath", "pkg/base", FALSE)}
Few == {<<>>} \cup {<<s>> : s \in Specifiers \ {Extends("subpath", "pkg/base", FALSE)}}
         \cup {<<Extends("relative", "tsconfig", FALSE)>>}
Package == "pkg/tsconfig.json" :> Config(<<>>, Strict)
           @@ "pkg/base.json" :> Config(<<>>, "useUnknownInCatchVariables" :> FALSE)
Projects ==
    {"tsconfig.json" :> Config(e, o) @@ "a.json" :> Config(f, p) @@ "b.json" :> Config(g, q) @@ ms :
        e \in UNION {[1 .. n -> Specifiers] : n \in 0 .. 2}, o \in {<<>>, "strict" :> TRUE},
        f \in Few, g \in Few \ {<<Extends("package", "pkg", FALSE)>>}, p \in Undone, q \in {<<>>, Strict},
        ms \in {<<>>, Package, Package @@ "pkg/own.json" :> Config(<<>>, <<>>)}}
    \cup {"tsconfig.json" :> [Config(<<>>, Strict) EXCEPT !.readable = FALSE]}
Dashed == VALUED \cup SWITCHES \cup {"--unknown"}
Invoke(args, those, manifest) ==
    [args |-> args, files |-> those, manifest |-> manifest, dashed |-> Dashed]
Words == {"--policy", "guideline", "--force", "--output", "-", "--check-tsconfig"}
Asked == {<<"--help">>, <<"--unknown">>, <<"--output", ".oxlintrc.json">>}
MCInvocations ==
    {Invoke(<<"--check-tsconfig">>, f, <<"pkg/own.json">>) : f \in Projects}
    \cup {Invoke(a, f, <<>>) : a \in Asked \cup UNION {[1 .. n -> Words] : n \in 0 .. 3},
            f \in {<<>>, ".oxlintrc.json" :> Config(<<>>, Strict)}}

Node(kind, name, local) == [kind |-> kind, name |-> name, local |-> local, parent |-> 0]
Root == Node("program", "", FALSE)
Scoping ==
    {Node(k, "require", FALSE) : k \in {"let", "var", "call", "function"}} \cup {Node("block", "", FALSE)}
Syntax ==
    Scoping \cup {Node(k, "exports", FALSE) : k \in {"exports", "parameter", "import", "expression"}}
    \cup {Node(k, "load", FALSE) : k \in {"importFactory", "factoryCall", "let"}}
    \cup {Node("call", n, TRUE) : n \in {"require", "load"}}
    \cup {Node(k, "", FALSE) : k \in {"wildcard", "declared", "importEquals", "any", "call"}}
Loading ==
    {Node(k, "load", FALSE) : k \in {"importFactory", "factoryCall", "let"}}
    \cup {Node("call", "load", TRUE), Node("parameter", "require", FALSE), Node("import", "require", FALSE),
          Node("expression", "require", FALSE), Node("call", "require", FALSE), Node("block", "", FALSE)}
Trees(n, kinds) ==
    {<<Root>> \o [i \in 1 .. n |-> [t[i] EXCEPT !.parent = p[i]]] :
        t \in [1 .. n -> kinds], p \in {p \in [1 .. n -> 1 .. n] : \A i \in 1 .. n : p[i] <= i}}
Source(nodes, javascript, declarations, loader) ==
    [nodes |-> nodes, javascript |-> javascript, declarations |-> declarations, loader |-> loader]
MCSourceFiles ==
    {Source(t, FALSE, FALSE, FALSE) : t \in Trees(4, Scoping) \cup Trees(3, Loading)}
    \cup {Source(t, FALSE, d, l) : t \in Trees(2, Syntax), d \in BOOLEAN, l \in BOOLEAN}
    \cup {Source(<<Root>>, TRUE, FALSE, FALSE)}

-----------------------------------------------------------------------------
MCBuiltins == {"debugger", "shadow", "undef", "indent", "alert", "any", "dot"}
MCBareName ==
    [s \in {"debugger", "shadow", "undef", "indent", "alert", "types", "names", "ag/enum"} |-> s]
    @@ "@ts/any" :> "any" @@ "@ts/shadow" :> "shadow" @@ "@ts/exports" :> "exports" @@ "@ts/dot" :> "dot" @@ "@ts/gone" :> "gone"
Instead(target, adapt, keepsCore) == [target |-> target, adapt |-> adapt, keepsCore |-> keepsCore]
MCEquivalents ==
    "shadow" :> Instead("eslint/shadow", "none", FALSE)
    @@ "undef" :> Instead(Nothing, "none", FALSE)
    @@ "indent" :> Instead("ag-style/indent", "options", TRUE)
    @@ "types" :> Instead("ag-types", "error", FALSE)
    @@ "names" :> Instead("ag-names", "options", FALSE)
MCNatives == {"eslint/shadow", "typescript/any", "typescript/exports", "typescript/dot"}
MCOwn == {"ag-style/indent", "ag-types", "ag-names", "ag/enum"} \cup {"ag-compat/" \o s : s \in MCBuiltins}
Reg(source, target, schema) ==
    [source |-> source, target |-> target, extension |-> FALSE, unlessThere |-> FALSE, schema |-> schema,
     language |-> "any", javascript |-> Nothing, typescriptOnly |-> {}, defaults |-> {}]
Registered ==
    <<[Reg("@ts/any", "typescript/any", {}) EXCEPT !.language = "typescript", !.javascript = "inert"],
      [Reg("@ts/shadow", Nothing, {}) EXCEPT !.extension = TRUE, !.javascript = "base"]>>
    \o [i \in 1 .. 5 |-> LET s == <<"debugger", "shadow", "undef", "indent", "alert">>[i]
        IN  [Reg(s, "ag-compat/" \o s, {"a", "adapted"}) EXCEPT !.unlessThere = TRUE]]
    \o <<[Reg("types", "ag-types", {"a"}) EXCEPT !.unlessThere = TRUE],
         [Reg("names", "ag-names", {"a", "adapted"}) EXCEPT !.unlessThere = TRUE]>>
GenSettings == {Off, Setting("error", {}), Setting("warn", {"a"})}
Maybe(s, settings) == {NoRules} \cup [{s} -> settings]
Table(scope, language, rules) == [scope |-> scope, language |-> language, rules |-> rules]
InheritedBy == [s \in {"shadow", "undef", "indent", "types", "names"} |-> Setting("error", {"a"})]
ClauseFor(id, rules, guideline) ==
    [id |-> id, rules |-> rules, guideline |-> guideline, compiler |-> FALSE, excused |-> {},
     partial |-> {}, forced |-> {}, reasoned |-> TRUE]
ClausesOf(s) ==
    {ClauseFor("1", {s}, {s, "shadow"}), [ClauseFor("2", {"shadow", s}, {}) EXCEPT !.excused = {"guideline"}],
     [ClauseFor("3", {}, {s}) EXCEPT !.partial = {"guideline"}], [ClauseFor("4", {}, {}) EXCEPT !.compiler = TRUE],
     [ClauseFor("5", {s}, {s}) EXCEPT !.forced = {"compatibility"}]}
DraftOf(s, inherited, sample, guide, guideline, project) ==
    [configs |-> <<InheritedBy @@ inherited, sample>>,
     tables |-> <<Table("base", "any", guide), Table("base", "typescript", "ag/enum" :> Setting("error", {})),
                  Table("guideline", "any", guideline), Table("adguard-projects", "any", project),
                  Table("adguard-projects", "typescript", [t \in {"@ts/any", "@ts/dot"} |-> Setting("error", {})])>>,
     registrations |-> Registered, clauses |-> ClausesOf(s)]
MCDrafts ==
    UNION {{DraftOf(s, i, a, g, l, p) : i \in Maybe(s, GenSettings), a \in Maybe(s, GenSettings),
                g \in Maybe(s, {Setting("error", {})}), l \in Maybe(s, GenSettings),
                p \in Maybe(s, {Off, Setting("error", {"a"})})} :
            s \in {"debugger", "shadow", "undef", "indent", "types", "names"}}
    \cup {[DraftOf("alert", NoRules, NoRules, NoRules, NoRules, NoRules) EXCEPT !.clauses = c] :
            c \in {{}, {ClauseFor("1", {"alert"}, {})}, {[ClauseFor("1", {}, {}) EXCEPT !.reasoned = FALSE]}}}
    \cup {[DraftOf("shadow", NoRules, NoRules, NoRules, NoRules, NoRules) EXCEPT !.registrations = <<r>> \o Registered] :
            r \in {Reg("alert", "ag-unknown", {}), [Reg("@ts/exports", Nothing, {}) EXCEPT !.extension = TRUE]}}
    \cup {DraftOf("shadow", NoRules, NoRules, NoRules, t :> Setting("error", {}), NoRules) : t \in {"@ts/exports", "@ts/gone"}}

-----------------------------------------------------------------------------
MCMirrorPaths == <<"a", "b", "git", "l", "m">>
FileOf(v) == [kind |-> "file", value |-> v]
LinkTo(p) == [kind |-> "link", value |-> p]
Links == {<<LinkTo("a"), LinkTo("l")>>, <<FileOf("x"), LinkTo("m")>>, <<LinkTo("m"), LinkTo("a")>>,
          <<FileOf("x"), LinkTo("git")>>, <<FileOf("x"), [kind |-> "special", value |-> "x"]>>}
MCReferenceTrees ==
    {[p \in {"a", "b"} |-> FileOf(p)] @@ "l" :> x[1] @@ "m" :> x[2] @@ "git" :> FileOf("g") : x \in Links}
MCEditedEntries == {FileOf("x"), LinkTo("b"), LinkTo(Outside)}

-----------------------------------------------------------------------------
MCCatalogued == "one" :> "ag/one" @@ "two" :> "ag/two" @@ "three" :> "ag/three"
Case(code, kind) == [code |-> code, kind |-> kind]
CaseLists == {<<Case("x", "taken")>>, <<Case("y", "excluded"), Case("x", "taken"), Case("y", "taken")>>,
              <<Case("x", "taken"), Case("z", "throws")>>, <<Case("x", "skipped")>>}
Do(kind, name, cases) == [kind |-> kind, name |-> name, cases |-> cases]
Statements ==
    {Do("run", n, c) : n \in {"one", "two", "unknown"}, c \in CaseLists}
    \cup {Do("assert", "", <<Case("x", "taken")>>)}
    \cup {Do("require", n, <<>>) : n \in {"nested.js", "stub", "gone.js"}}
Prog(statements, exported) == [statements |-> statements, exported |-> exported]
Rule(source, fs) == [source |-> source, target |-> MCCatalogued[source], files |-> fs]
MCSuites ==
    {[mappings |-> <<Rule("one", <<"a.js", "b.js">>), [Rule("two", <<f>>) EXCEPT !.target = "ag/later"]>>,
      programs |-> "a.js" :> Prog(s, e) @@ "b.js" :> Prog(<<Do("run", "unknown", <<Case("w", "taken")>>)>>, <<>>)
                   @@ "c.js" :> Prog(<<Do("assert", "", <<Case("w", "taken")>>)>>, <<Case("w", "taken")>>)
                   @@ "nested.js" :> Prog(<<Do("run", "three", <<Case("n", "taken")>>)>>, n)] :
        f \in {"c.js", "missing.js"}, s \in UNION {[1 .. k -> Statements] : k \in 0 .. 2},
        e \in {<<>>, <<Case("x", "taken"), Case("z", "throws")>>}, n \in {<<>>, <<Case("n", "taken")>>}}

-----------------------------------------------------------------------------
MCSampleOf == 1 :> "s1" @@ 2 :> "s1" @@ 3 :> "s2"
MCArchivesOf == "v1" :> {"x", "y"} @@ "v2" :> {"z", "odd"}

-----------------------------------------------------------------------------
MCGlobalSets ==
    "es5" :> [n \in {"Object"} |-> "readonly"] @@ "es2015" :> [n \in {"Promise"} |-> "readonly"]
    @@ [y \in {"es2017", "es2020", "es2021"} |-> <<>>] @@ "browser" :> [n \in {"name"} |-> "writable"]
    @@ "commonjs" :> [n \in {"require"} |-> "readonly"]
Comment(block, kind, name, word) == [block |-> block, kind |-> kind, name |-> name, word |-> word]
Remarks ==
    <<Comment(TRUE, "global", "Promise", "writable"), Comment(TRUE, "global", "Promise", "off"),
      Comment(TRUE, "global", "extra", "readonly"), Comment(FALSE, "global", "Object", "off"),
      Comment(TRUE, "global", "top", "off"), Comment(TRUE, "exported", "top", "")>>
InEngine(writable, explicit, defined) ==
    [writable |-> writable, explicit |-> explicit, defined |-> defined]
Happens(selector, node, segments) == [selector |-> selector, node |-> node, segments |-> segments]
\* A function (node 2) with a loop around its second segment, and code after a return.
Traversal ==
    <<Happens("enter", 1, <<>>), Happens("segmentStart", 1, <<1>>), Happens("enter", 2, <<>>),
      Happens("segmentStart", 2, <<2>>), Happens("segmentStart", 3, <<3>>), Happens("enter", 3, <<>>),
      Happens("segmentLoop", 3, <<3, 3>>), Happens("segmentStart", 3, <<4>>),
      Happens("unreachableSegmentStart", 3, <<5>>), Happens("segmentEnd", 3, <<4>>), Happens("enter", 4, <<>>)>>
JavaScript ==
    [extension |-> "js", sourceType |-> "module", parsedAs |-> "module", agSourceType |-> {},
     agEcmaVersion |-> {}, agRuleEcmaVersion |-> {}, globalReturn |-> FALSE, globals |-> "name" :> "off", env |-> <<"browser">>,
     native |-> [n \in {"Object", "Promise", "Iterator"} |-> InEngine(FALSE, FALSE, FALSE)],
     comments |-> Remarks, parent |-> <<0, 1, 2, 1>>, functions |-> {2},
     declared |-> <<{"top"}, {"inner"}, {}, {}>>, segments |-> 1 .. 5, reachable |-> 1 .. 4,
     edges |-> {<<2, 3>>, <<3, 3>>, <<3, 4>>, <<4, 5>>, <<4, 3>>}, events |-> Traversal]
InScript == JavaScript.native @@ "top" :> InEngine(TRUE, TRUE, TRUE)
Scripts ==
    {JavaScript, [JavaScript EXCEPT !.agEcmaVersion = {5}, !.sourceType = "script"],
     [JavaScript EXCEPT !.agSourceType = {"module"}, !.extension = "cjs", !.agRuleEcmaVersion = {2018}],
     [JavaScript EXCEPT !.extension = "ts", !.parsedAs = "script", !.native = InScript],
     [JavaScript EXCEPT !.agEcmaVersion = {6}, !.sourceType = "script", !.globalReturn = TRUE]}
Runs(name, layer, listens, marks) == [name |-> name, layer |-> layer, listens |-> listens, marks |-> marks]
MCRules ==
    {Runs("no-undef", "none", {"enter"}, {"top"}), Runs("export", "language", {"enter"}, {}),
     Runs("jsx-uses-vars", "settings", {"enter"}, {"inner", "extra"}),
     Runs("constructor-super", "none", {"segmentStart", "unreachableSegmentStart", "segmentEnd", "segmentLoop"}, {})}
MCProcesses ==
    [files : UNION {[1 .. n -> Scripts] : n \in 1 .. 2}, frozen : {"file", "all"},
     rules : {r \in [1 .. 3 -> MCRules] : \A i, j \in 1 .. 3 : i # j => r[i] # r[j]}]
    \cup [files : {<<JavaScript>>}, frozen : {"none"}, rules : [1 .. 1 -> MCRules]]

-----------------------------------------------------------------------------

ConfigIdle ==
    /\ request = 0 /\ task = "idle" /\ ids = {} /\ ownership = <<>> /\ layers = <<>>
    /\ assigned = 0 /\ targets = {} /\ plugins = {} /\ given = <<>>
CliIdle == call = 0 /\ index = 0 /\ seen = {} /\ parsed = 0 /\ stage = "idle" /\ disk = 0
PolicyIdle == file = Source(<<Root>>, TRUE, FALSE, FALSE) /\ at = 2 /\ issues = {}
GeneratorIdle ==
    /\ draft = 0 /\ phase = "idle" /\ baseline = 0 /\ work = 0 /\ mappings = 0 /\ presets = 0
    /\ compatibility = 0 /\ enforcement = 0
MirrorIdle ==
    /\ tree = 0 /\ edits = 0 /\ walk = "failed" /\ cursor = 0 /\ side = 0 /\ inventory = 0 /\ copies = <<>>
ImportIdle ==
    /\ suite = 0 /\ files = 0 /\ frames = 0 /\ saving = Idle /\ currentRule = 0 /\ currentTarget = 0
    /\ currentSource = 0 /\ capture = 0 /\ failures = 0 /\ exclusions = 0 /\ importer = "idle"
RefreshIdle ==
    /\ head = 0 /\ served = 0 /\ frozen = 0 /\ checkout = 0 /\ memory = 0 /\ fetched = 0
    /\ stepAt = 0 /\ vendored = {} /\ runs = MaxRuns /\ verdict = "idle"
PluginIdle ==
    /\ process = [files |-> <<>>] /\ linted = 0 /\ adapters = 0 /\ adapterOf = 0 /\ analyses = 0
    /\ analysisOf = 0 /\ used = 0 /\ contexts = 0 /\ event = 0 /\ turn = 0 /\ started = 0
    /\ answer = Unvisited

Init ==
    \E tool \in {"config", "cli", "policy", "generator", "mirror", "import", "refresh", "plugin"} :
        /\ IF tool = "config" THEN ConfigInit ELSE ConfigIdle
        /\ IF tool = "cli" THEN CliInit ELSE CliIdle
        /\ IF tool = "policy" THEN PolicyInit ELSE PolicyIdle
        /\ IF tool = "generator" THEN GeneratorInit ELSE GeneratorIdle
        /\ IF tool = "mirror" THEN MirrorInit ELSE MirrorIdle
        /\ IF tool = "import" THEN ImportInit ELSE ImportIdle
        /\ IF tool = "refresh" THEN RefreshInit ELSE RefreshIdle
        /\ IF tool = "plugin" THEN PluginInit ELSE PluginIdle

\* The states in which a tool that was started has ended; the others are idle.
Ended ==
    /\ task \in {"threw", "idle"} \/ (task = "done" /\ (request.kind = "groups" => Len(request.groups) = 1))
    /\ stage \in {"rejected", "printed", "written", "failed", "meets", "idle"}
    /\ at > Len(file.nodes)
    /\ phase \in {"threw", "generated", "idle"}
    /\ walk \in {"ready", "failed"}
    /\ importer \in {"imported", "failed", "idle"}
    /\ stepAt = 0 /\ runs = MaxRuns /\ verdict # "none"
    /\ linted = Len(process.files) /\ (linted > 0 => event > Len(Script.events))

vars == <<configVars, cliVars, policyVars, generatorVars, mirrorVars, importVars, refreshVars, pluginVars>>

Next ==
    \/ ConfigNext /\ UNCHANGED <<cliVars, policyVars, generatorVars, mirrorVars, importVars, refreshVars, pluginVars>>
    \/ CliNext /\ UNCHANGED <<configVars, policyVars, generatorVars, mirrorVars, importVars, refreshVars, pluginVars>>
    \/ PolicyNext /\ UNCHANGED <<configVars, cliVars, generatorVars, mirrorVars, importVars, refreshVars, pluginVars>>
    \/ GeneratorNext /\ UNCHANGED <<configVars, cliVars, policyVars, mirrorVars, importVars, refreshVars, pluginVars>>
    \/ MirrorNext /\ UNCHANGED <<configVars, cliVars, policyVars, generatorVars, importVars, refreshVars, pluginVars>>
    \/ ImportNext /\ UNCHANGED <<configVars, cliVars, policyVars, generatorVars, mirrorVars, refreshVars, pluginVars>>
    \/ RefreshNext /\ UNCHANGED <<configVars, cliVars, policyVars, generatorVars, mirrorVars, importVars, pluginVars>>
    \/ PluginNext /\ UNCHANGED <<configVars, cliVars, policyVars, generatorVars, mirrorVars, importVars, refreshVars>>
    \/ Ended /\ UNCHANGED vars

Spec == Init /\ [][Next]_vars
=============================================================================
