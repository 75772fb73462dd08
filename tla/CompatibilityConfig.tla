------------------------- MODULE CompatibilityConfig -------------------------
(***************************************************************************)
(* The configurations that oxlint-config makes: translated from the        *)
(* effective rules of a consumer (createCompatibilityConfigGroups), a      *)
(* preset (createConfig), or the consumer's own; and finalizeProviders,    *)
(* which takes the unused providers out of them.                           *)
(*                                                                         *)
(* A layer is a function from targets to settings: the first is for every  *)
(* file, the others are overrides, of which the last that matches a file   *)
(* and names the target decides.                                           *)
(***************************************************************************)
EXTENDS RuleOwnership, TLC
LOCAL INSTANCE SequencesExt

CONSTANTS
    ProviderOf,         \* the part of a target in front of its last slash
    PROVIDERS,          \* the providers of oxlint-plugin
    PROVIDER_ALIASES,   \* the ones that only finalizeProviders knows
    Unnamed,            \* plugins that are registered as a path
    ParserKeys,         \* the parser options that translateParserOptions accepts
    SettingKeys,        \* the settings that translateSettings accepts
    Presets,            \* the rules of the catalog, and its overlays
    Requests            \* what the functions are called with

\* A group has rules with settings, and is for files of one language.
GroupOK(g) ==
    /\ g.language \in {"javascript", "typescript"}
    /\ Len(g.rules) \in Nat
    /\ \A i \in 1 .. Len(g.rules) :
           LET setting == g.rules[i].setting
           IN  setting = Setting(setting.level, setting.options) /\ setting.level # Unset.level

ASSUME RequestsAssumption ==
    \A r \in Requests :
        /\ r.kind \in {"groups", "preset", "own"}
        /\ r.kind = "groups" =>
               /\ r = [kind |-> "groups", groups |-> r.groups]
               /\ r.groups \in Seq({r.groups[i] : i \in DOMAIN r.groups}) \ {<<>>}
               /\ \A i \in DOMAIN r.groups : GroupOK(r.groups[i])
        /\ r.kind = "own" =>
               Len(r.layers) \in Nat /\ DOMAIN r.layers = 1 .. Len(r.layers)

VARIABLES
    request,    \* the call, of which the groups that are done are taken away
    task,       \* what it does
    ids,        \* the names of its groups so far
    ownership,  \* the decisions about the rules of the current group
    assigned,   \* how many of them have given their targets a setting
    targets,    \* the settings of the targets so far
    layers,     \* the rules of the configuration
    plugins,    \* its jsPlugins, by name
    given       \* the layers that finalizeProviders got

configVars == <<request, task, ids, ownership, assigned, targets, layers, plugins, given>>

Enabled(layer) == {t \in DOMAIN layer : severity(layer[t]) > 0}
EnabledAnywhere(ls) == UNION {Enabled(ls[i]) : i \in DOMAIN ls}

ConfigInit ==
    /\ request \in Requests
    /\ task = request.kind
    /\ ids = {} /\ ownership = <<>> /\ assigned = 0 /\ targets = NoRules
    /\ layers = <<>> /\ plugins = {} /\ given = <<>>

Group == Head(request.groups)

\* The decision stands unless the context of the group needs a verification of its own.
Contextual(g, d) ==
    IF /\ d.status \in {"resolved", "compiler"}
       /\ \/ ~(g.parserOptions \subseteq ParserKeys)
          \/ d.typed /\ ~g.typeAware
          \/ ~(g.settings \subseteq SettingKeys) /\ d.source \notin DOMAIN NativeEvidence
    THEN [d EXCEPT !.status = "unsupported"] ELSE d

\* A group needs a name that no other has, and files.
RefuseGroup ==
    /\ task = "groups" /\ ownership = <<>>
    /\ Group.id \in ids \cup {""} \/ Group.files = {}
    /\ task' = "threw"
    /\ UNCHANGED <<request, ids, ownership, assigned, targets, layers, plugins, given>>

\* listRuleOwnership: the next rule of the group.
Decide ==
    /\ task = "groups"
    /\ Group.id \notin ids \cup {""} /\ Group.files # {}
    /\ IF Len(ownership) = Len(Group.rules)
       THEN task' = "assign" /\ UNCHANGED ownership
       ELSE LET g == Group
                r == g.rules[Len(ownership) + 1]
                o == [language |-> g.language, policy |-> "compatibility", profile |-> "guide",
                      setting |-> r.setting]
            IN  /\ ownership' =
                       Append(ownership, Contextual(g, resolveRuleDetailed(r.source, o, g.accept)))
                /\ UNCHANGED task
    /\ UNCHANGED <<request, ids, assigned, targets, layers, plugins, given>>

\* Is it a decision about a target?
Transfers(d) == d.status \in {"resolved", "disabled"} /\ d.target # Nothing
IsOn(setting) == severity(setting) > 0

\* Two different settings that are on cannot be had together.
Conflicts(d) ==
    /\ Transfers(d) /\ IsOn(d.setting)
    /\ d.target \in DOMAIN targets /\ IsOn(targets[d.target]) /\ targets[d.target] # d.setting

\* The rules with the setting of a decision for its target.
WithTarget(rules, d) ==
    [t \in DOMAIN rules \cup {d.target} |->
        IF t # d.target THEN rules[t] ELSE IF IsOn(d.setting) THEN d.setting ELSE Off]

\* Faulty variant: the last decision about a target wins.
LastAssigned(rules, d) == IF Transfers(d) THEN WithTarget(rules, d) ELSE rules

\* The target of a decision gets its setting: one that is on goes before one that is off.
Assigned(rules, d) ==
    IF ~Transfers(d) \/ (~IsOn(d.setting) /\ d.target \in DOMAIN rules) THEN rules
    ELSE WithTarget(rules, d)

\* The next decision.
Assign ==
    /\ task = "assign" /\ assigned < Len(ownership)
    /\ LET d == ownership[assigned + 1]
       IN  IF Conflicts(d) THEN task' = "threw" /\ UNCHANGED <<assigned, targets>>
           ELSE targets' = Assigned(targets, d) /\ assigned' = assigned + 1 /\ UNCHANGED task
    /\ UNCHANGED <<request, ids, ownership, layers, plugins, given>>

\* They become an override for the files of the group.
Override ==
    /\ task = "assign" /\ assigned = Len(ownership)
    /\ task' = "finalize" /\ layers' = <<NoRules, targets>> /\ plugins' = {}
    /\ UNCHANGED <<request, ids, ownership, assigned, targets, given>>

\* The next group starts with nothing of the last one.
NextGroup ==
    /\ task = "done" /\ request.kind = "groups" /\ Len(request.groups) > 1
    /\ ids' = ids \cup {Group.id}
    /\ request' = [request EXCEPT !.groups = Tail(@)]
    /\ task' = "groups" /\ ownership' = <<>> /\ assigned' = 0 /\ targets' = NoRules
    /\ layers' = <<>> /\ plugins' = {} /\ given' = <<>>

TypedTargets == {m.target : m \in {n \in Range(Mappings) : n.typed}}

ValidOptions(o) ==
    /\ o.language \in {"javascript", "typescript"} /\ o.policy \in {"compatibility", "guideline"}
    /\ o.profile \in {"guide", "adguard-projects"} /\ o.sourceType \in {"module", "script", "commonjs"}
    /\ o.environment \in {"browser", "node", "both"}
    /\ o.typeAware => o.language = "typescript"
    /\ o.importGroups # Nothing => o.policy = "guideline" /\ o.importGroups \in {"example", "prose"}

\* createConfig: the catalog with the overlays of the policy and the profile.
CreateConfig ==
    /\ task = "preset"
    /\ LET o == request.options
           guideline == o.policy = "guideline"
           overlays == (IF guideline THEN <<Presets.guideline>> ELSE <<>>)
                       \o (IF o.profile = "adguard-projects" THEN <<Presets.profile>> ELSE <<>>)
           Over(base, part) == FoldLeft(LAMBDA rules, l : l[part] @@ rules, base, overlays)
           commonjs == IF guideline /\ o.sourceType # "module" THEN "import/no-commonjs" :> Off ELSE NoRules
           order == IF guideline THEN "ag-import/order" :> Presets.importGroups[o.importGroups] ELSE NoRules
           everywhere == commonjs @@ order @@ Over(Presets.rules, "rules")
           typescript == Over(Presets.typescriptRules, "typescriptRules")
           kept == DOMAIN typescript \ (IF o.typeAware THEN {} ELSE TypedTargets)
       IN  IF ~ValidOptions(o)
           THEN task' = "threw" /\ UNCHANGED <<layers, plugins>>
           ELSE /\ task' = "finalize"
                /\ layers' = <<everywhere>>
                    \o (IF o.language = "typescript" THEN <<[t \in kept |-> typescript[t]]>> ELSE <<>>)
                    \o (IF guideline /\ o.sourceType = "module"
                        THEN <<"import/no-commonjs" :> Off>> ELSE <<>>)
                /\ plugins' = PROVIDERS
    /\ UNCHANGED <<request, ids, ownership, assigned, targets, given>>

\* A configuration that the consumer wrote.
Write ==
    /\ task = "own"
    /\ layers' = request.layers /\ plugins' = request.plugins /\ task' = "finalize"
    /\ UNCHANGED <<request, ids, ownership, assigned, targets, given>>

\* Faulty variant: an entry that is off goes whatever the other layers say.
EagerPruned(ls, known) ==
    [i \in DOMAIN ls |->
        [t \in {u \in DOMAIN ls[i] : u \in Enabled(ls[i]) \/ ProviderOf[u] \notin known} |-> ls[i][t]]]

\* An entry that is off goes when no other layer turns its rule on.
Pruned(ls, known) ==
    [i \in DOMAIN ls |->
        [t \in {u \in DOMAIN ls[i] :
                    \/ u \in Enabled(ls[i])
                    \/ \E j \in DOMAIN ls \ {i} : u \in Enabled(ls[j])
                    \/ ProviderOf[u] \notin known} |-> ls[i][t]]]

\* The layers without the entries of those providers.
WithoutProviders(ls, unused) ==
    [i \in DOMAIN ls |-> [t \in {u \in DOMAIN ls[i] : ProviderOf[u] \notin unused} |-> ls[i][t]]]

finalizeProviders ==
    /\ task = "finalize"
    /\ given' = layers
    /\ LET active == {ProviderOf[t] : t \in EnabledAnywhere(layers)}
           known == PROVIDERS \cup PROVIDER_ALIASES \cup (plugins \ Unnamed)
       IN  IF \E i \in DOMAIN layers : \E t \in DOMAIN layers[i] : ~IsLevel(layers[i][t])
           THEN task' = "threw" /\ UNCHANGED <<layers, plugins>>
           ELSE /\ task' = "done"
                /\ layers' = Pruned(WithoutProviders(layers, known \ active), known)
                /\ plugins' = (plugins \cap (Unnamed \cup active))
                              \cup ((PROVIDERS \cup PROVIDER_ALIASES) \cap active)
    /\ UNCHANGED <<request, ids, ownership, assigned, targets>>

ConfigNext ==
    \/ RefuseGroup \/ Decide \/ Assign \/ Override \/ NextGroup
    \/ CreateConfig \/ Write \/ finalizeProviders

-----------------------------------------------------------------------------

\* The setting that a file gets for a target when the overrides of ms match it.
Effective(ls, ms, t) ==
    LET at == {i \in ({1} \cup ms) \cap DOMAIN ls : t \in DOMAIN ls[i]}
    IN  IF at = {} THEN Off ELSE ls[CHOOSE i \in at : \A j \in at : j <= i][t]

\* Finalizing changes for no file what is on and how: neither does an entry that was pruned turn a
\* rule on again that an override had turned off, nor is one turned off.  The plugins are those of
\* the rules that are on somewhere, and the unnamed ones (finalizeProviders).
FinalizingKeepsLevels ==
    task = "done" =>
        LET entries == UNION {DOMAIN given[i] : i \in DOMAIN given}
            known == PROVIDERS \cup PROVIDER_ALIASES
            active == {ProviderOf[t] : t \in EnabledAnywhere(given)}
        IN  /\ \A ms \in SUBSET (2 .. Len(given)), t \in entries :
                LET before == Effective(given, ms, t)
                    after == Effective(layers, ms, t)
                IN  IF severity(before) > 0 THEN after = before ELSE severity(after) = 0
            /\ active \cap known \subseteq plugins
            /\ plugins \subseteq active \cup Unnamed

\* Is the rule one that a JavaScript file cannot break?
Inert(g, source) == g.language = "javascript" /\ Entry(source).javascript = "inert"

\* Every rule that the consumer has turned on has exactly one owner afterwards: it is on in the
\* configuration at its level, or left to the original owner, or cannot report anything; and what
\* is on in the configuration is on because the consumer turned it on.  The order of the rules and
\* entries of other rules for the same target take nothing of that away.
EachRuleHasOneOwner ==
    task = "done" /\ request.kind = "groups" =>
        LET rules == layers[2]
            Transferred(i) == ownership[i].status \in {"resolved", "disabled"}
            Carries(i, t) ==
                /\ Transferred(i) /\ ownership[i].target = t
                /\ t \in DOMAIN rules /\ rules[t].level = Group.rules[i].setting.level
        IN  /\ \A i \in DOMAIN ownership :
                severity(Group.rules[i].setting) > 0 =>
                    \/ ~Transferred(i)
                    \/ Carries(i, ownership[i].target)
                    \/ Inert(Group, Group.rules[i].source)
            /\ \A t \in Enabled(rules) : \E i \in DOMAIN ownership : Carries(i, t)
=============================================================================
