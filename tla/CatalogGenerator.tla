-------------------------- MODULE CatalogGenerator --------------------------
(***************************************************************************)
(* generate.ts: it makes the catalog out of the configurations that the    *)
(* guide's sample inherits, the tables of additions, and the rules that    *)
(* the providers have.  The catalog has two readers: createConfig takes    *)
(* the layers of rules, resolveRule looks a rule up in the mappings.       *)
(*                                                                         *)
(* The texts of reasons, hashes and the report, and the depth of           *)
(* import/no-cycle, are left out.                                          *)
(***************************************************************************)
EXTENDS RuleOwnership

CONSTANTS
    Customs, Builtins, Provided, Ported, Styles,    \* source rules, by who implements them
    Natives, TypedNatives,                          \* targets of Oxlint
    OwnTargets,                                     \* targets of the providers of oxlint-plugin
    TypeScriptTargets,                              \* the ones that know TypeScript
    BareName,       \* of a source rule, without @typescript-eslint/
    Equivalents,    \* TYPESCRIPT_EQUIVALENTS: by source rule, a target, an adaptation, keepsCore
    Drafts          \* the configurations, tables, registrations and clauses

VARIABLES
    draft,          \* the input, of which what is done is taken away
    phase,
    baseline,       \* the inherited rules
    work,           \* what mapRule is still called with, in the order of its turns
    mappings,
    presets,        \* layers: the rules of each scope, and those for TypeScript
    compatibility,
    enforcement     \* of the clauses, by clause and policy

generatorVars ==
    <<draft, phase, baseline, work, mappings, presets, compatibility, enforcement>>

ScopeNames == {"base", "guideline", "adguard-projects"}
Parts == {"rules", "typescriptRules"}
Policies == {"compatibility", "guideline"}
Rank(scope) == CASE scope = "base" -> 0 [] scope = "guideline" -> 1 [] OTHER -> 2

Only(t, setting) == [x \in {t} |-> setting]
Laid(over, under) ==
    [t \in DOMAIN over \cup DOMAIN under |-> IF t \in DOMAIN over THEN over[t] ELSE under[t]]

\* The first implementation that there is.
resolveTarget(source) ==
    LET typed == source \in TypeScriptSources
        Choice(has, target, kind) == [has |-> has, target |-> target, implementation |-> kind]
        choices ==
            <<Choice(source \in Customs, source, "custom"),
              Choice(source \in Builtins, "ag-compat/" \o source, "javascript"),
              Choice(source \in Provided, "ag-" \o source, "javascript"),
              Choice(typed /\ source \in Ported, "ag-ts/" \o BareName[source], "javascript"),
              Choice(typed /\ "typescript/" \o BareName[source] \in Natives,
                     "typescript/" \o BareName[source], "native"),
              Choice(source \in Styles, "ag-style/" \o source, "javascript"),
              Choice(source \in Natives, source, "native"),
              Choice(TRUE, Nothing, Nothing)>>
    IN  Head(SelectSeq(choices, LAMBDA c : c.has))

\* The rules of a draft, and the implementations that one of them may have.
SourcesOf(d) == (UNION {DOMAIN d.configs[i] : i \in DOMAIN d.configs})
                \cup (UNION {DOMAIN d.tables[i].rules : i \in DOMAIN d.tables})
TargetsOf(s) ==
    ({resolveTarget(s).target}
     \cup IF s \in DOMAIN Equivalents THEN {Equivalents[s].target} ELSE {}) \ {Nothing}

IsSetting(s) == s = Setting(s.level, s.options) /\ IsLevel(s)
IsList(l) == l \in Seq({l[i] : i \in DOMAIN l})

ASSUME EquivalentsAssumption ==
    \A s \in DOMAIN Equivalents : Equivalents[s].adapt \in {"none", "options", "error"}

\* The tables are one for each scope and language, in the order of the scopes, the guide's first;
\* the rules of those for TypeScript are in no other table and no configuration.
Tables(d) ==
    /\ d = [configs |-> d.configs, tables |-> d.tables, registrations |-> d.registrations,
             clauses |-> d.clauses]
    /\ IsList(d.configs) /\ IsList(d.tables) /\ Len(d.tables) > 0
    /\ d.tables[1].scope = "base" /\ d.tables[1].language = "any"
    /\ \A i \in DOMAIN d.configs : \A s \in DOMAIN d.configs[i] : IsSetting(d.configs[i][s])
    /\ \A i \in DOMAIN d.tables :
           /\ d.tables[i].scope \in ScopeNames /\ d.tables[i].language \in {"any", "typescript"}
           /\ \A s \in DOMAIN d.tables[i].rules : IsSetting(d.tables[i].rules[s])
           /\ d.tables[i].language = "typescript" =>
                  \A j \in DOMAIN d.configs : DOMAIN d.configs[j] \cap DOMAIN d.tables[i].rules = {}
    /\ \A i, j \in DOMAIN d.tables : i < j =>
           /\ Rank(d.tables[i].scope) <= Rank(d.tables[j].scope)
           /\ d.tables[i].scope = d.tables[j].scope => d.tables[i].language # d.tables[j].language
           /\ "typescript" \in {d.tables[i].language, d.tables[j].language} =>
                  DOMAIN d.tables[i].rules \cap DOMAIN d.tables[j].rules = {}

\* No implementation is that of two rules, and rules that are not typescript-eslint's are
\* registered under their own names, with the implementation that they are mapped to.
ASSUME DraftsAssumption ==
    \A d \in Drafts :
        /\ Tables(d)
        /\ \A s, t \in SourcesOf(d) : s # t => TargetsOf(s) \cap TargetsOf(t) = {}
        /\ IsList(d.registrations)
        /\ \A i \in DOMAIN d.registrations :
               LET r == d.registrations[i]
               IN  r.source \in SourcesOf(d) \ TypeScriptSources =>
                       /\ ~r.extension /\ r.target = resolveTarget(r.source).target
                       /\ BareName[r.source] = r.source /\ r.language = "any" /\ r.defaults = {}

GeneratorInit ==
    /\ draft \in Drafts
    /\ phase = "apply" /\ baseline = NoRules /\ work = {} /\ mappings = <<>>
    /\ presets = [s \in ScopeNames |-> [p \in Parts |-> NoRules]]
    /\ compatibility = NoRules /\ enforcement = NoRules

Throw ==
    /\ phase' = "threw"
    /\ UNCHANGED <<draft, baseline, work, mappings, presets, compatibility, enforcement>>

\* A configuration over its ancestors: a setting without options keeps the inherited ones.
apply ==
    /\ phase = "apply" /\ draft.configs # <<>>
    /\ LET rules == Head(draft.configs)
           Inherited(s) == IF s \in DOMAIN baseline /\ rules[s].options = {}
                           THEN baseline[s].options ELSE rules[s].options
       IN  baseline' = Laid([s \in DOMAIN rules |-> Setting(rules[s].level, Inherited(s))], baseline)
    /\ draft' = [draft EXCEPT !.configs = Tail(@)]
    /\ UNCHANGED <<phase, work, mappings, presets, compatibility, enforcement>>

\* The calls of mapRule for a table.
Entries(turn, rules, scope, language) ==
    {[turn |-> turn, source |-> s, setting |-> rules[s], scope |-> scope, language |-> language] :
        s \in DOMAIN rules}

\* The rules that a clause may name.
Linkable ==
    DOMAIN baseline \cup UNION {DOMAIN draft.tables[i].rules :
        i \in {j \in DOMAIN draft.tables : draft.tables[j].scope # "adguard-projects"}}

\* What the guide adds replaces only what the sample has off, and clauses name only known rules.
addGuide ==
    /\ phase = "apply" /\ draft.configs = <<>>
    /\ LET guide == draft.tables[1].rules
           kept == [s \in DOMAIN baseline \ DOMAIN guide |-> baseline[s]]
           Of(i) == Entries(i, draft.tables[i].rules, draft.tables[i].scope, draft.tables[i].language)
       IN  IF \/ \E s \in DOMAIN guide \cap DOMAIN baseline : severity(baseline[s]) > 0
              \/ \E c \in draft.clauses : ~(c.rules \cup c.guideline \subseteq Linkable)
           THEN Throw
           ELSE /\ baseline' = kept
                /\ work' = Entries(0, kept, "base", "any") \cup UNION {Of(i) : i \in DOMAIN draft.tables}
                /\ phase' = "map"
                /\ UNCHANGED <<draft, mappings, presets, compatibility, enforcement>>

Adapted(e, setting) ==
    CASE e.adapt = "none" -> setting
      [] e.adapt = "options" -> [setting EXCEPT !.options = @ \cup {"adapted"}]
      [] e.adapt = "error" -> Setting("error", {})

\* The implementation of a rule in TypeScript files.
Equivalent(e, setting) ==
    LET typed == IF e.target = Nothing \/ (severity(setting) = 0 /\ e.adapt = "none")
                 THEN Off ELSE Adapted(e, setting)
    IN  [target |-> e.target, setting |-> typed, keepsCore |-> e.keepsCore,
         implementation |-> CASE severity(typed) = 0 -> "disabled"
                              [] e.target \in Natives -> "native"
                              [] OTHER -> "javascript"]

\* Faulty variant: the entry that turns the other implementation off is for rules that are on.
Supplemented(m) == IF m.typescript.target = Nothing THEN NoRules
                   ELSE Only(m.typescript.target, m.typescript.setting)

\* The TypeScript rules turn the implementation for JavaScript off and this one on; what is off in
\* JavaScript needs no entry unless it is on here.
Exchanged(m) ==
    LET e == m.typescript
        off == IF m.target \notin {Nothing, e.target} THEN Only(m.target, Off) ELSE NoRules
        on == IF e.target # Nothing /\ (m.target # Nothing \/ severity(e.setting) > 0)
              THEN Only(e.target, e.setting) ELSE NoRules
    IN  Laid(on, off)

\* What is off in the sample is in no layer.
Unlisted(e) == severity(e.setting) = 0 /\ e.scope = "base"
Replaced(e) == e.source \in DOMAIN Equivalents /\ e.language # "typescript"

MappingOf(e) ==
    LET choice == resolveTarget(e.source)
        target == IF Unlisted(e) THEN Nothing ELSE choice.target
    IN  [source |-> e.source, target |-> target, setting |-> e.setting, scope |-> e.scope,
         implementation |-> IF severity(e.setting) = 0 THEN "disabled" ELSE choice.implementation,
         language |-> IF Unlisted(e) THEN "any" ELSE e.language,
         typed |-> target \in TypedNatives,
         typescript |-> IF Replaced(e) THEN Equivalent(Equivalents[e.source], e.setting)
                        ELSE NoEquivalent]

\* What a mapping gives to its layer.
Plain(m) == IF m.target = Nothing THEN NoRules ELSE Only(m.target, m.setting)
Given(m) ==
    [rules |-> IF m.language = "typescript" THEN NoRules ELSE Plain(m),
     typescriptRules |-> IF m.language = "typescript" THEN Plain(m)
                         ELSE IF m.typescript # NoEquivalent THEN Exchanged(m) ELSE NoRules]

\* The next call of mapRule: tables have their turns in the order of the script.
First == CHOOSE e \in work : \A x \in work : e.turn <= x.turn

\* Record a rule in a layer; nothing that is on is dropped silently.
mapRule ==
    /\ phase = "map" /\ work # {}
    /\ LET e == First
           m == MappingOf(e)
           part == IF e.language = "typescript" THEN "typescriptRules" ELSE "rules"
           rules == presets[e.scope][part]
           conflict == m.target \in DOMAIN rules /\ rules[m.target] # e.setting
       IN  IF \/ ~Unlisted(e) /\ (m.target = Nothing \/ conflict)
              \/ Replaced(e) /\ m.typescript.target \notin
                     TypeScriptTargets \cup {Nothing, resolveTarget(e.source).target}
           THEN Throw
           ELSE /\ mappings' = Append(mappings, m)
                /\ presets' = [presets EXCEPT ![e.scope] = [p \in Parts |-> Laid(Given(m)[p], @[p])]]
                /\ work' = work \ {e}
                /\ UNCHANGED <<draft, phase, baseline, compatibility, enforcement>>

\* The target of a registration: that of its equivalent, for an extension of a core rule.
TargetOf(r) ==
    LET bare == BareName[r.source]
    IN  IF ~r.extension THEN r.target
        ELSE IF bare \in DOMAIN Equivalents THEN Equivalents[bare].target ELSE Nothing

\* The entry of an alias.
registerCompatibility(r, target) ==
    [canonical |-> BareName[r.source], target |-> target, typed |-> target \in TypedNatives,
     implementation |-> IF target \in Natives THEN "native" ELSE "javascript",
     preserve |-> r.source \in TypeScriptSources, language |-> r.language,
     javascript |-> r.javascript, typescriptOnly |-> r.typescriptOnly,
     schema |-> r.schema, defaults |-> r.defaults]

\* Whole tables of rules leave out what is registered already.
Skipped(r) == r.unlessThere /\ r.source \in DOMAIN compatibility

Register ==
    /\ phase = "map" /\ work = {} /\ draft.registrations # <<>>
    /\ LET r == Head(draft.registrations)
           target == TargetOf(r)
       IN  IF target \notin Natives \cup OwnTargets THEN Throw
           ELSE /\ compatibility' = IF Skipped(r) THEN compatibility
                        ELSE Laid(Only(r.source, registerCompatibility(r, target)), compatibility)
                /\ draft' = [draft EXCEPT !.registrations = Tail(@)]
                /\ UNCHANGED <<phase, baseline, work, mappings, presets, enforcement>>

\* The mappings of a rule that count for a policy, and the last of some.
Active(r, policy) ==
    {i \in DOMAIN mappings : /\ mappings[i].source = r
                             /\ \/ mappings[i].scope = "base"
                                \/ policy = "guideline" /\ mappings[i].scope = policy}
LastOf(indices) == mappings[CHOOSE i \in indices : \A j \in indices : j <= i]

\* How a policy enforces a clause, from the last mapping of each of its rules.
classify(c, policy) ==
    LET rules == IF policy = "guideline" THEN c.guideline ELSE c.rules
        active == {LastOf(Active(r, policy)) : r \in {r \in rules : Active(r, policy) # {}}}
        enabled == {m \in active : m.implementation # "disabled"}
        kinds == {m.implementation : m \in enabled}
        excused == policy \in c.excused \/ "compatibility" \in c.excused
    IN  CASE c.compiler -> "compiler"
          [] ~c.compiler /\ rules = {} -> "manual"
          [] ~c.compiler /\ rules # {} ->
                IF enabled = {} THEN "overridden"
                ELSE IF policy \in c.partial THEN "partial"
                ELSE IF policy \in c.forced \/ (Cardinality(enabled) < Cardinality(rules) /\ ~excused)
                THEN "overridden"
                ELSE IF "custom" \in kinds THEN "custom"
                ELSE IF "javascript" \in kinds THEN "javascript" ELSE "native"

\* An equivalent belongs to a mapped rule, and a clause that nobody enforces has a reason.
describe ==
    /\ phase = "map" /\ work = {} /\ draft.registrations = <<>>
    /\ LET found == [c \in draft.clauses |-> [p \in Policies |-> classify(c, p)]]
       IN  IF \/ \E s \in DOMAIN Equivalents : \A i \in DOMAIN mappings : mappings[i].source # s
              \/ \E c \in draft.clauses : ~c.reasoned /\ \E p \in Policies : found[c][p] = "manual"
           THEN Throw
           ELSE /\ enforcement' = found
                /\ phase' = "generated"
                /\ UNCHANGED <<draft, baseline, work, mappings, presets, compatibility>>

GeneratorNext == apply \/ addGuide \/ mapRule \/ Register \/ describe

-----------------------------------------------------------------------------

Lookup == INSTANCE RuleOwnership WITH Mappings <- mappings, Compatibility <- compatibility

\* The rules that a file of the language gets: createConfig lays the overlays over each other, and
\* those for TypeScript over all.
Overlaid(part, o) ==
    LET Layer(s) == IF s \in {"base", o.policy, o.profile} THEN presets[s][part] ELSE NoRules
    IN  Laid(Layer("adguard-projects"), Laid(Layer("guideline"), Layer("base")))
Preset(o) == IF o.language = "typescript"
             THEN Laid(Overlaid("typescriptRules", o), Overlaid("rules", o)) ELSE Overlaid("rules", o)
TurnedOn(rules) == {t \in DOMAIN rules : severity(rules[t]) > 0}

Lanes == [language : {"javascript", "typescript"}, policy : Policies,
          profile : {"guide", "adguard-projects"}, setting : {Unset}]

\* The two readers of the catalog agree: the owner that resolveRule names for a rule of a policy, a
\* profile and a language is on in their preset, as it says, and no other implementation of the
\* rule is; and none is when it says that the rule is off or the compiler's.  A clause that is
\* reported as enforced has a rule that is on in the preset of the policy.  Aliases, whose
\* mappings resolveRule does not look up, are not meant (mapRule, resolveRule, classify).
PresetFollowsCatalog ==
    phase = "generated" =>
        /\ \A i \in DOMAIN mappings, o \in Lanes :
            LET s == mappings[i].source
                mine == {mappings[j] : j \in {k \in DOMAIN mappings : mappings[k].source = s}}
                targets == (UNION {{m.target, m.typescript.target} : m \in mine}) \ {Nothing}
                rules == Preset(o)
                looked == /\ s \notin TypeScriptSources
                          /\ \E m \in mine : m.language \in {"any", o.language}
                                             /\ m.scope \in {"base", o.policy, o.profile}
            IN  looked => \A r \in {Lookup!resolveRule(s, o)} :
                    r.status # "unsupported" =>
                        /\ TurnedOn(rules) \cap targets =
                               IF r.status = "resolved" THEN {r.target} ELSE {}
                        /\ r.status = "resolved" => rules[r.target] = r.setting
        /\ \A c \in draft.clauses, p \in Policies :
            enforcement[c][p] \in {"custom", "javascript", "native"} =>
                \E i \in DOMAIN mappings, l \in {"javascript", "typescript"} :
                    LET m == mappings[i]
                    IN  /\ m.source \in IF p = "guideline" THEN c.guideline ELSE c.rules
                        /\ {m.target, m.typescript.target} \cap
                               TurnedOn(Preset([language |-> l, policy |-> p, profile |-> "guide"])) # {}
=============================================================================
