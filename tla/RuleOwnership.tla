---------------------------- MODULE RuleOwnership ----------------------------
(***************************************************************************)
(* Who owns a rule of a source configuration: the lookup of rule-catalog.  *)
(*                                                                         *)
(* A setting is a level and the set of the options that it names; the      *)
(* schema of a rule is the set of the options that it may name.  Options   *)
(* that are the same set are the same text.  The repeated selectors of     *)
(* naming-convention count as an option outside of its schema.             *)
(***************************************************************************)
EXTENDS Naturals, Sequences, FiniteSets

CONSTANTS
    Mappings,           \* catalog.mappings, in its order
    Compatibility,      \* catalog.compatibility, by source rule
    NativeEvidence,     \* nativeEvidence: the native target of a source rule
    ManualClauses,      \* the clauses that only a reviewer enforces
    TypeScriptSources   \* the source rules whose names begin with @typescript-eslint/

Nothing == "none"
Setting(level, options) == [level |-> level, options |-> options]
Unset == Setting("undefined", {})
Off == Setting("off", {})
NoRules == [t \in {} |-> Unset]

severity(s) == CASE s.level = "error" -> 2 [] s.level = "warn" -> 1 [] OTHER -> 0
IsLevel(s) == s.level \in {"off", "warn", "error"}

\* The values that a missing entry is read as.
NoEquivalent ==
    [target |-> Nothing, setting |-> Unset, implementation |-> Nothing, keepsCore |-> FALSE]
Unmapped ==
    [source |-> Nothing, target |-> Nothing, setting |-> Unset, implementation |-> Nothing,
     scope |-> "base", language |-> "any", typed |-> FALSE, typescript |-> NoEquivalent]
Unregistered ==
    [canonical |-> Nothing, target |-> Nothing, implementation |-> Nothing, typed |-> FALSE,
     preserve |-> FALSE, language |-> "any", javascript |-> Nothing, typescriptOnly |-> {},
     schema |-> {}, defaults |-> {}]

\* Whoever is on has a target, and what has none in TypeScript files is on in the others; the
\* rules with native evidence are registered.
ASSUME CatalogAssumption ==
    /\ DOMAIN Mappings = 1 .. Len(Mappings) /\ Len(Mappings) \in Nat
    /\ \A i \in DOMAIN Mappings :
           /\ severity(Mappings[i].setting) > 0 => Mappings[i].target # Nothing
           /\ Mappings[i].typescript # NoEquivalent /\ Mappings[i].typescript.target = Nothing =>
                  severity(Mappings[i].setting) > 0
    /\ \A source \in DOMAIN Compatibility : Compatibility[source].target # Nothing
    /\ DOMAIN NativeEvidence \subseteq DOMAIN Compatibility
    /\ \A source \in DOMAIN NativeEvidence : NativeEvidence[source] # Nothing

Entry(source) ==
    IF source \in DOMAIN Compatibility THEN Compatibility[source] ELSE Unregistered

\* The last mapping for the language, the policy and the profile, else the last one.
Selected(source, o) ==
    LET name == IF source \in DOMAIN Compatibility THEN Compatibility[source].canonical ELSE source
        candidates == {i \in DOMAIN Mappings : Mappings[i].source = name}
        Fits(m) == m.language \in {"any", o.language} /\ m.scope \in {"base", o.policy, o.profile}
        Before(i, j) == IF Fits(Mappings[i]) = Fits(Mappings[j]) THEN i <= j ELSE Fits(Mappings[j])
    IN  IF candidates = {} THEN Unmapped
        ELSE Mappings[CHOOSE i \in candidates : \A j \in candidates : Before(j, i)]

Decision(status, source, target, setting, implementation, typed) ==
    [status |-> status, source |-> source, target |-> target, setting |-> setting,
     implementation |-> implementation, typed |-> typed]
Unsupported(source) == Decision("unsupported", source, Nothing, Unset, Nothing, FALSE)
Disabled(source, o) == Decision("disabled", source, Nothing, o.setting, "disabled", FALSE)

\* What nobody implements needs no implementation when it is off.
Unowned(source, o) ==
    IF o.setting # Unset /\ severity(o.setting) = 0 THEN Disabled(source, o) ELSE Unsupported(source)

\* What replaces a mapping in TypeScript files; options of the consumer may be the core rule's.
Replacing(o, e, m) ==
    IF /\ ~e.preserve /\ e.language # "typescript" /\ o.language = "typescript"
       /\ ~(m.typescript.keepsCore /\ o.setting # Unset)
    THEN m.typescript ELSE NoEquivalent

\* The owner by the entry e, the mapping m and its replacement x.
OwnerBy(source, o, e, m, x) ==
    LET replaced == x # NoEquivalent
        pick == IF replaced THEN x ELSE IF e # Unregistered THEN e ELSE m
        default == IF replaced THEN x.setting
                   ELSE IF m # Unmapped THEN m.setting ELSE Setting("error", {})
        setting == IF o.setting # Unset THEN o.setting ELSE default
        off == severity(setting) = 0
        unverified ==
            /\ o.setting # Unset \/ (e # Unregistered /\ ~replaced)
            /\ ~off
            /\ e = Unregistered \/ ~(setting.options \subseteq e.schema)
    IN  IF ~IsLevel(setting) \/ unverified THEN Unsupported(source)
        ELSE Decision(
            IF replaced /\ x.target = Nothing /\ severity(m.setting) > 0 THEN "compiler"
            ELSE IF off THEN "disabled" ELSE "resolved",
            source, pick.target,
            IF off THEN setting ELSE [setting EXCEPT !.options = @ \cup e.defaults],
            IF off THEN "disabled" ELSE pick.implementation,
            IF e # Unregistered THEN e.typed ELSE m.typed)

\* The owner of a rule that its language allows.
Owner(source, o) ==
    LET e == Entry(source)
        m == Selected(source, o)
    IN  OwnerBy(source, o, e, m, Replacing(o, e, m))

\* Is the rule one for TypeScript files only, in a JavaScript file?
Foreign(source, o) ==
    LET e == Entry(source)
        language == IF e.language # "any" THEN e.language ELSE Selected(source, o).language
    IN  language = "typescript" /\ o.language # "typescript" /\ e.javascript # "same"

Known(source, o) == Entry(source) # Unregistered \/ Selected(source, o) # Unmapped

resolveRule(source, o) ==
    LET e == Entry(source)
        base == [o EXCEPT !.setting.options = @ \ e.typescriptOnly]
        set == o.setting # Unset
    IN  IF ~Known(source, o) THEN Unowned(source, o)
        ELSE IF ~Foreign(source, o) THEN Owner(source, o)
        ELSE IF set /\ e.javascript = "inert" THEN Disabled(source, o)
        ELSE IF set /\ e.javascript = "base" /\ Known(e.canonical, base)
        THEN [Owner(e.canonical, base) EXCEPT !.source = source]
        ELSE Unowned(source, o)

\* An enabled rule with native evidence has the owner that it has without options, whatever the
\* language.
WithEvidence(source, o) ==
    LET language == IF source \in TypeScriptSources THEN "typescript" ELSE "javascript"
        r == resolveRule(source, [language |-> language, policy |-> "compatibility",
                                  profile |-> "guide", setting |-> Unset])
    IN  IF r.status = "unsupported" THEN r ELSE [r EXCEPT !.setting = o.setting]

\* Options that are the recorded ones need no schema.
OrBaseline(decision, source, o) ==
    LET r == resolveRule(source, [o EXCEPT !.setting = Unset])
    IN  IF /\ decision.status = "unsupported" /\ o.setting # Unset
           /\ r.status \notin {"unsupported", "disabled"}
           /\ r.setting.options = o.setting.options
        THEN [r EXCEPT !.setting = o.setting] ELSE decision

\* The native owner, when its recorded differences are accepted.
OrNative(decision, source, accept) ==
    IF accept /\ source \in DOMAIN NativeEvidence /\ decision.status = "resolved"
    THEN [decision EXCEPT !.target = NativeEvidence[source], !.implementation = "native"]
    ELSE decision

\* The decision about a rule.
resolveRuleDetailed(source, o, accept) ==
    IF source \in ManualClauses THEN [Unsupported(source) EXCEPT !.status = "manual"]
    ELSE IF o.setting # Unset /\ ~IsLevel(o.setting) THEN Unsupported(source)
    ELSE IF source \in DOMAIN NativeEvidence /\ o.setting # Unset /\ severity(o.setting) > 0
    THEN IF o.setting.options \subseteq Entry(source).schema
         THEN OrNative(OrBaseline(WithEvidence(source, o), source, o), source, accept)
         ELSE Unsupported(source)
    ELSE OrNative(OrBaseline(resolveRule(source, o), source, o), source, accept)
=============================================================================
