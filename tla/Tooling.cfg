CONSTANTS
    Mappings <- MCMappings
    Compatibility <- MCCompatibility
    NativeEvidence <- MCNativeEvidence
    ManualClauses <- MCManualClauses
    TypeScriptSources <- MCTypeScriptSources
    ProviderOf <- MCProviderOf
    PROVIDERS <- MCPROVIDERS
    PROVIDER_ALIASES <- MCALIASES
    Unnamed <- MCUnnamed
    ParserKeys = {"ecmaVersion"}
    SettingKeys = {"react"}
    Presets <- MCPresets
    Requests <- MCRequests
    Invocations <- MCInvocations
    Sources <- MCSourceFiles
    Customs = {"ag/enum"}
    Builtins <- MCBuiltins
    Provided = {"types", "names"}
    Ported = {}
    Styles = {"indent"}
    Natives <- MCNatives
    TypedNatives = {"typescript/exports", "typescript/dot"}
    OwnTargets <- MCOwn
    TypeScriptTargets = {"eslint/shadow", "ag-style/indent"}
    BareName <- MCBareName
    Equivalents <- MCEquivalents
    Drafts <- MCDrafts
    MirrorPaths <- MCMirrorPaths
    ExcludedPaths = {"git"}
    ReferenceTrees <- MCReferenceTrees
    EditedEntries <- MCEditedEntries
    MaxEdits = 2
    Catalogued <- MCCatalogued
    Suites <- MCSuites
    Revisions = {1, 2, 3}
    SampleOf <- MCSampleOf
    PortedSamples = {"s1"}
    Archives = {"x", "y", "z", "odd"}
    ArchivesOf <- MCArchivesOf
    PortedArchives = {"x", "y", "z"}
    VendorFiles = {"core", "react"}
    MaxRuns = 4
    Processes <- MCProcesses
    GlobalSets <- MCGlobalSets
SPECIFICATION Spec
INVARIANTS
    FinalizingKeepsLevels EachRuleHasOneOwner ChecksWhatTypeScriptUses GlobalsReported
    PresetFollowsCatalog MirrorsAgree CapturesAttributed CheckedIsComplete
    RulesSeeTheirFile
