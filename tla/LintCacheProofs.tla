--------------------------- MODULE LintCacheProofs ---------------------------
(***************************************************************************)
(* What the cache contributes to a report is of the run, and what it keeps *)
(* is right, but for what an edit or a new configuration overtook: for any *)
(* number of files, contents, configurations and overlapping runs.         *)
(***************************************************************************)
EXTENDS LintCache, TLAPS

\* A function from some of the files, by its domain and its values.
LEMMA PartialIs ==
    ASSUME NEW S, NEW g
    PROVE  g \in Partial(S) <=> /\ g = [f \in DOMAIN g |-> g[f]]
                                /\ DOMAIN g \subseteq Files /\ \A f \in DOMAIN g : g[f] \in S
<1>1. ASSUME g \in Partial(S)
      PROVE  /\ g = [f \in DOMAIN g |-> g[f]]
             /\ DOMAIN g \subseteq Files /\ \A f \in DOMAIN g : g[f] \in S
  <2>1. PICK known \in SUBSET Files : g \in [known -> S]
    BY <1>1 DEF Partial
  <2> QED
    BY <2>1
<1>2. ASSUME /\ g = [f \in DOMAIN g |-> g[f]]
             /\ DOMAIN g \subseteq Files /\ \A f \in DOMAIN g : g[f] \in S
      PROVE  g \in Partial(S)
  <2>1. g \in [DOMAIN g -> S] /\ DOMAIN g \in SUBSET Files
    BY <1>2
  <2> QED
    BY <2>1, Zenon DEF Partial
<1> QED
  BY <1>1, <1>2

\* The function without arguments is one of them.
LEMMA NoEntriesPartial == ASSUME NEW S PROVE NoEntries \in Partial(S)
<1>1. NoEntries \in [{} -> S] /\ {} \in SUBSET Files
  BY DEF NoEntries
<1> QED
  BY <1>1, Zenon DEF Partial

-----------------------------------------------------------------------------
\* A run that has ended, and a cache file without entries, have their types.
LEMMA IdleTypes == Idle \in Invocation /\ Unusable \in Cache
BY NoEntriesPartial DEF Idle, Invocation, Unusable, Cache

\* A step of one run keeps the types if its new record has them.
LEMMA BecomesTypes ==
    ASSUME TypeOK, NEW p \in Runs, NEW r \in Invocation, r.pending \subseteq r.targets,
           Becomes(p, r), store' \in Cache
    PROVE  TypeOK'
BY DEF TypeOK, Becomes

\* What a run reports is a diagnosis of each of its targets, if none is pending.
LEMMA ReportedTypes ==
    ASSUME TypeOK, NEW p \in Runs,
           \A f \in run[p].targets : f \in DOMAIN run[p].fresh \/ f \in DOMAIN run[p].cached
    PROVE  \A f \in run[p].targets : Reported(p)[f] \in Diagnosis
<1> DEFINE r == run[p]
<1>1. r \in Invocation
  BY DEF TypeOK
<1>2. \A f \in DOMAIN r.fresh : r.fresh[f] \in Diagnosis
  BY <1>1, PartialIs DEF Invocation
<1>3. \A f \in DOMAIN r.cached : r.cached[f].diagnosis \in Diagnosis
  <2>1. \A f \in DOMAIN r.cached : r.cached[f] \in Entry
    BY <1>1, PartialIs DEF Invocation
  <2> QED
    BY <2>1 DEF Entry
<1> QED
  BY <1>2, <1>3 DEF Reported

(***************************************************************************)
(* The inductive invariant.  Whatever may be wrong is in the histories of  *)
(* races: a pending file still has its hash, and a key of a run that has   *)
(* yet to lint still is the configuration, unless raced says otherwise.    *)
(***************************************************************************)
Exact(files, key) ==
    \A f \in DOMAIN files :
        /\ <<f, files[f].hash>> \notin raced => files[f].diagnosis.content = files[f].hash
        /\ key \notin racedKeys => files[f].diagnosis.config = key

\* Is the key of r of the configuration k, if it is of any and was not overtaken?
Printed(r, k) == r.key \in {NoKey, k} \cup racedKeys

\* The histories of a run hold the present, and its key.
Begun(r) ==
    /\ r.phase = "idle" => r.targets = {}
    /\ r.phase = "keyed" => Printed(r, config)
    /\ r.phase # "idle" =>
        /\ DOMAIN r.contents = r.targets
        /\ \A f \in r.targets : content[f] \in r.contents[f]
        /\ config \in r.configs /\ r.key \in {NoKey} \cup r.configs

\* A target of a prepared run has been hashed, and is pending, linted or cached.
Accounted(r) ==
    r.phase \notin {"idle", "keyed"} =>
        /\ DOMAIN r.hashes = r.targets
        /\ \A f \in r.targets : r.hashes[f] \in r.contents[f]
        /\ Exact(r.cached, r.key)
        /\ \A f \in r.targets \ r.pending :
               \/ f \in DOMAIN r.fresh
               \/ r.key # NoKey /\ f \in DOMAIN r.cached /\ r.cached[f].hash = r.hashes[f]

\* What a run has yet to lint is what it hashed, and as it was configured.
Awaiting(r) ==
    r.phase \in {"prepared", "linting"} =>
        /\ \A f \in r.pending : r.hashes[f] = content[f] \/ <<f, r.hashes[f]>> \in raced
        /\ r.pending # {} => Printed(r, config)

\* What a run has linted is what it hashed, and of the time of the run.
Linted(r) ==
    /\ r.phase = "keyed" => r.engines = {} /\ r.fresh = NoEntries
    /\ r.phase \notin {"idle", "keyed"} =>
        /\ \A k \in r.engines : k \in r.configs /\ Printed(r, k)
        /\ \A f \in DOMAIN r.fresh :
            /\ f \in r.targets
            /\ r.fresh[f].content \in r.contents[f] /\ r.fresh[f].config \in r.configs
            /\ r.hashes[f] = r.fresh[f].content \/ <<f, r.hashes[f]>> \in raced
            /\ Printed(r, r.fresh[f].config)

\* Only a run with a key, and with nothing left to lint, writes the cache.
Finished(r) == r.phase \in {"writing", "overwriting"} => r.key # NoKey /\ r.pending = {}

Good(r) == Begun(r) /\ Accounted(r) /\ Awaiting(r) /\ Linted(r) /\ Finished(r)

CacheInv ==
    /\ TypeOK
    /\ Exact(store.files, store.key)
    /\ \A p \in Runs : Good(run[p])

\* The types of what a run knows, by file.
LEMMA FieldTypes ==
    ASSUME NEW r \in Invocation
    PROVE  /\ r.targets \subseteq Files /\ r.key \in Configs \cup {NoKey}
           /\ \A f \in DOMAIN r.hashes : r.hashes[f] \in Contents
           /\ \A f \in DOMAIN r.cached :
                  r.cached[f].hash \in Contents /\ r.cached[f].diagnosis \in Diagnosis
           /\ DOMAIN r.fresh \subseteq Files /\ \A f \in DOMAIN r.fresh : r.fresh[f] \in Diagnosis
           /\ DOMAIN r.contents \subseteq Files
           /\ \A f \in DOMAIN r.contents : r.contents[f] \in SUBSET Contents
<1>1. /\ r.contents \in Partial(SUBSET Contents) /\ r.hashes \in Partial(Contents)
      /\ r.cached \in Partial(Entry) /\ r.fresh \in Partial(Diagnosis)
      /\ r.targets \subseteq Files /\ r.key \in Configs \cup {NoKey}
  BY DEF Invocation
<1>2. /\ DOMAIN r.contents \subseteq Files
      /\ \A f \in DOMAIN r.contents : r.contents[f] \in SUBSET Contents
  BY <1>1, PartialIs
<1>3. \A f \in DOMAIN r.hashes : r.hashes[f] \in Contents
  BY <1>1, PartialIs
<1>4. \A f \in DOMAIN r.cached : r.cached[f] \in Entry
  BY <1>1, PartialIs
<1>5. DOMAIN r.fresh \subseteq Files /\ \A f \in DOMAIN r.fresh : r.fresh[f] \in Diagnosis
  BY <1>1, PartialIs
<1> QED
  BY <1>1, <1>2, <1>3, <1>4, <1>5 DEF Entry

\* A run whose file is edited stays good: its history gets the new content, and what it has
\* yet to lint of that file is raced.
LEMMA EditGood == ASSUME CacheInv, NEW f \in Files, Edit(f) PROVE CacheInv'
<1>1. PICK c \in Contents \ {content[f]} :
          /\ content' = [content EXCEPT ![f] = c]
          /\ run' = [p \in Runs |->
                 IF f \in run[p].targets
                 THEN [run[p] EXCEPT !.contents[f] = @ \cup {c}]
                 ELSE run[p]]
  BY DEF Edit
<1>2. /\ TypeOK /\ config' = config /\ store' = store /\ racedKeys' = racedKeys
      /\ raced' = raced \cup {<<f, run[p].hashes[f]>> : p \in {q \in Runs : Awaits(q, f)}}
  BY DEF Edit, CacheInv
<1>3. /\ f \in DOMAIN content /\ content'[f] = c
      /\ \A g \in Files : g # f => content'[g] = content[g]
  BY <1>1, <1>2 DEF TypeOK
<1>4. ASSUME NEW p \in Runs
      PROVE  /\ run'[p] \in Invocation /\ run'[p].pending \subseteq run'[p].targets
             /\ Good(run[p])'
  <2> DEFINE h == [run[p].contents EXCEPT ![f] = run[p].contents[f] \cup {c}]
             s == [run[p] EXCEPT !.contents = h]
  <2>1. /\ run[p] \in Invocation /\ run[p].pending \subseteq run[p].targets
        /\ Begun(run[p]) /\ Accounted(run[p]) /\ Awaiting(run[p]) /\ Linted(run[p])
        /\ Finished(run[p])
    BY <1>2 DEF CacheInv, TypeOK, Good
  <2>2. CASE f \notin run[p].targets
    <3>1. run'[p] = run[p]
      BY <1>1, <2>2
    <3>2. run[p].targets \subseteq Files
      BY <2>1, FieldTypes
    <3>3. Begun(run[p])' /\ Finished(run[p])'
      BY <1>2, <1>3, <2>1, <2>2, <3>1, <3>2 DEF Begun, Finished, Printed
    <3>4. Accounted(run[p])' /\ Linted(run[p])'
      BY <1>2, <2>1, <3>1 DEF Accounted, Linted, Exact, Printed
    <3>5. Awaiting(run[p])'
      BY <1>2, <1>3, <2>1, <2>2, <3>1, <3>2 DEF Awaiting, Printed
    <3> QED
      BY <2>1, <3>1, <3>3, <3>4, <3>5 DEF Good
  <2>3. CASE f \in run[p].targets
    <3>1. run'[p] = s
      BY <1>1, <2>3
    <3>2. run[p].phase # "idle" /\ DOMAIN run[p].contents = run[p].targets
      BY <2>1, <2>3 DEF Begun
    <3>3. /\ DOMAIN h = run[p].targets /\ c \in h[f]
          /\ \A g \in run[p].targets : run[p].contents[g] \subseteq h[g]
      BY <2>3, <3>2
    <3>4. h \in Partial(SUBSET Contents)
      <4>1. /\ run[p].targets \in SUBSET Files
            /\ \A g \in run[p].targets : run[p].contents[g] \in SUBSET Contents
        BY <2>1, <3>2, FieldTypes
      <4>2. h \in [run[p].targets -> SUBSET Contents]
        <5>1. run[p].contents \in [run[p].targets -> SUBSET Contents]
          <6>1. run[p].contents \in Partial(SUBSET Contents)
            BY <2>1 DEF Invocation
          <6> QED
            BY <3>2, <4>1, <6>1, PartialIs
        <5> QED
          BY <2>3, <4>1, <5>1
      <4> QED
        BY <4>1, <4>2, Zenon DEF Partial
    <3> HIDE DEF h
    <3>5. s \in Invocation
      BY <2>1, <3>4 DEF Invocation
    <3>6. /\ s.phase = run[p].phase /\ s.targets = run[p].targets /\ s.key = run[p].key
          /\ s.cached = run[p].cached /\ s.hashes = run[p].hashes
          /\ s.pending = run[p].pending /\ s.engines = run[p].engines
          /\ s.fresh = run[p].fresh /\ s.configs = run[p].configs /\ s.contents = h
      BY <2>1 DEF Invocation
    <3> HIDE DEF s
    <3>7. run[p].targets \subseteq Files
      BY <2>1, FieldTypes
    <3>8. Begun(run[p])' /\ Finished(run[p])'
      <4>1. \A g \in run[p].targets : content'[g] \in h[g]
        BY <1>3, <2>1, <3>2, <3>3, <3>7 DEF Begun
      <4> QED
        BY <1>2, <2>1, <3>1, <3>2, <3>3, <3>6, <4>1 DEF Begun, Finished, Printed
    <3>9. Accounted(run[p])'
      <4>1. Exact(run[p].cached, run[p].key) => Exact(s.cached, s.key)'
        BY <1>2, <3>1, <3>6 DEF Exact, s
      <4> QED
        BY <1>2, <2>1, <3>1, <3>3, <3>6 DEF Accounted, Exact
    <3>10. Linted(run[p])'
      BY <1>2, <2>1, <3>1, <3>3, <3>6 DEF Linted, Printed
    <3>11. Awaiting(run[p])'
      <4>1. ASSUME run[p].phase \in {"prepared", "linting"}, NEW g \in run[p].pending
            PROVE  run[p].hashes[g] = content'[g] \/ <<g, run[p].hashes[g]>> \in raced'
        <5>1. CASE g = f
          BY <1>2, <4>1, <5>1 DEF Awaits
        <5>2. CASE g # f
          BY <1>2, <1>3, <2>1, <3>7, <4>1, <5>2 DEF Awaiting
        <5> QED
          BY <5>1, <5>2
      <4> QED
        BY <1>2, <2>1, <3>1, <3>6, <4>1 DEF Awaiting, Printed
    <3> QED
      BY <2>1, <3>1, <3>5, <3>6, <3>8, <3>9, <3>10, <3>11 DEF Good
  <2> QED
    BY <2>2, <2>3
<1>5. TypeOK'
  <2>1. content' \in [Files -> Contents]
    BY <1>1, <1>2 DEF TypeOK
  <2>2. run' \in [Runs -> Invocation]
    BY <1>1, <1>4
  <2>3. raced' \subseteq Files \X Contents
    <3>1. ASSUME NEW p \in Runs, Awaits(p, f) PROVE run[p].hashes[f] \in Contents
      <4>1. /\ run[p] \in Invocation /\ f \in run[p].targets
            /\ DOMAIN run[p].hashes = run[p].targets
        BY <1>2, <3>1 DEF CacheInv, TypeOK, Good, Accounted, Awaits
      <4> QED
        BY <4>1, FieldTypes
    <3> QED
      BY <1>2, <3>1 DEF TypeOK
  <2> QED
    BY <1>2, <1>4, <2>1, <2>2, <2>3 DEF TypeOK
<1>6. Exact(store.files, store.key)'
  BY <1>2 DEF CacheInv, Exact
<1> QED
  BY <1>4, <1>5, <1>6 DEF CacheInv

\* A run stays good when the configuration changes: its history gets the new one, and its key
\* is raced if it has yet to lint.
LEMMA ConfigureGood == ASSUME CacheInv, Configure PROVE CacheInv'
<1>1. PICK k \in Configs \ {config} :
          /\ config' = k
          /\ run' = [p \in Runs |->
                 IF run[p].phase = "idle" THEN run[p]
                 ELSE [run[p] EXCEPT !.configs = run[p].configs \cup {k}]]
  BY DEF Configure
<1>2. /\ TypeOK /\ content' = content /\ store' = store /\ raced' = raced
      /\ racedKeys' = racedKeys \cup
             ({run[p].key : p \in {q \in Runs : AwaitsEngine(q)}} \ {NoKey})
  BY DEF Configure, CacheInv
<1>3. ASSUME NEW p \in Runs
      PROVE  /\ run'[p] \in Invocation /\ run'[p].pending \subseteq run'[p].targets
             /\ Good(run[p])'
  <2> DEFINE s == [run[p] EXCEPT !.configs = run[p].configs \cup {k}]
  <2>1. /\ run[p] \in Invocation /\ run[p].pending \subseteq run[p].targets
        /\ Begun(run[p]) /\ Accounted(run[p]) /\ Awaiting(run[p]) /\ Linted(run[p])
        /\ Finished(run[p])
    BY <1>2 DEF CacheInv, TypeOK, Good
  <2>2. CASE run[p].phase = "idle"
    <3>1. run'[p] = run[p]
      BY <1>1, <2>2
    <3> QED
      BY <2>1, <2>2, <3>1 DEF Good, Begun, Accounted, Awaiting, Linted, Finished
  <2>3. CASE run[p].phase # "idle"
    <3>1. run'[p] = s
      BY <1>1, <2>3
    <3>2. s \in Invocation
      BY <2>1 DEF Invocation
    <3>3. /\ s.phase = run[p].phase /\ s.targets = run[p].targets /\ s.key = run[p].key
          /\ s.cached = run[p].cached /\ s.hashes = run[p].hashes
          /\ s.pending = run[p].pending /\ s.engines = run[p].engines
          /\ s.fresh = run[p].fresh /\ s.contents = run[p].contents
          /\ s.configs = run[p].configs \cup {k}
      BY <2>1 DEF Invocation
    <3> HIDE DEF s
    <3>4. AwaitsEngine(p) => run[p].key \in {NoKey} \cup racedKeys'
      BY <1>2
    <3>5. Begun(run[p])' /\ Finished(run[p])'
      BY <1>1, <1>2, <2>1, <3>1, <3>3, <3>4 DEF Begun, Finished, Printed, AwaitsEngine
    <3>6. Accounted(run[p])'
      BY <1>2, <2>1, <3>1, <3>3 DEF Accounted, Exact
    <3>7. Awaiting(run[p])'
      BY <1>2, <2>1, <3>1, <3>3, <3>4 DEF Awaiting, Printed, AwaitsEngine
    <3>8. Linted(run[p])'
      BY <1>2, <2>1, <3>1, <3>3 DEF Linted, Printed
    <3> QED
      BY <2>1, <3>1, <3>2, <3>3, <3>5, <3>6, <3>7, <3>8 DEF Good
  <2> QED
    BY <2>2, <2>3
<1>4. TypeOK'
  <2>1. run' \in [Runs -> Invocation]
    BY <1>1, <1>3
  <2>2. racedKeys' \subseteq Configs
    <3>1. \A p \in Runs : run[p].key \in Configs \cup {NoKey}
      BY <1>2, FieldTypes DEF TypeOK
    <3> QED
      BY <1>2, <3>1 DEF TypeOK
  <2> QED
    BY <1>1, <1>2, <1>3, <2>1, <2>2 DEF TypeOK
<1>5. Exact(store.files, store.key)'
  BY <1>2 DEF CacheInv, Exact
<1> QED
  BY <1>3, <1>4, <1>5 DEF CacheInv

-----------------------------------------------------------------------------
\* A step of one run keeps the invariant if its new record is good.
LEMMA BecomesGood ==
    ASSUME CacheInv, NEW p \in Runs, NEW r \in Invocation, r.pending \subseteq r.targets,
           Good(r), Becomes(p, r), store' \in Cache, Exact(store'.files, store'.key)
    PROVE  CacheInv'
<1>1. TypeOK'
  BY BecomesTypes DEF CacheInv
<1>2. /\ content' = content /\ config' = config
      /\ raced' = raced /\ racedKeys' = racedKeys
  BY DEF Becomes
<1>3. ASSUME NEW q \in Runs PROVE Good(run'[q])
  BY DEF CacheInv, Becomes, TypeOK
<1>4. Exact(store.files, store.key)'
  BY <1>2 DEF Exact
<1>5. \A q \in Runs : Good(run[q])'
  BY <1>2, <1>3 DEF Good, Begun, Accounted, Awaiting, Linted, Finished, Exact, Printed
<1> QED
  BY <1>1, <1>4, <1>5 DEF CacheInv

\* A run that has ended, and a cache file without entries, are good.
LEMMA NothingIsGood == Good(Idle) /\ Exact(Unusable.files, Unusable.key)
<1>1. DOMAIN Unusable.files = {}
  BY DEF Unusable, NoEntries
<1> QED
  BY <1>1 DEF Idle, Good, Begun, Accounted, Awaiting, Linted, Finished, Exact

\* The histories of a run that begins hold the present, and nothing else.
LEMMA BeginGood == ASSUME CacheInv, NEW p \in Runs, Begin(p) PROVE CacheInv'
<1>1. PICK t \in SUBSET Files \ {{}}, k \in {config, NoKey} :
          Becomes(p, [Idle EXCEPT !.phase = "keyed", !.targets = t, !.key = k,
                                  !.contents = [f \in t |-> {content[f]}], !.configs = {config}])
  BY DEF Begin
<1> DEFINE h == [f \in t |-> {content[f]}]
           r == [Idle EXCEPT !.phase = "keyed", !.targets = t, !.key = k,
                             !.contents = h, !.configs = {config}]
<1>2. /\ TypeOK /\ store' = store /\ store \in Cache /\ Exact(store.files, store.key)
      /\ config \in Configs
  BY DEF Begin, CacheInv, TypeOK
<1>3. h \in Partial(SUBSET Contents) /\ DOMAIN h = t /\ \A f \in t : content[f] \in h[f]
  <2>1. h \in [t -> SUBSET Contents]
    BY <1>2 DEF TypeOK
  <2>2. h \in Partial(SUBSET Contents)
    BY <2>1, Zenon DEF Partial
  <2> QED
    BY <2>2
<1> HIDE DEF h
<1>4. r \in Invocation /\ r.pending \subseteq r.targets
  BY <1>2, <1>3, IdleTypes DEF Invocation, Idle
<1>5. Good(r)
  <2>1. /\ r.phase = "keyed" /\ r.targets = t /\ r.key = k /\ r.configs = {config}
        /\ r.contents = h /\ r.fresh = NoEntries /\ r.engines = {}
    BY DEF Idle
  <2> QED
    BY <1>3, <2>1 DEF Good, Begun, Accounted, Awaiting, Linted, Finished, Printed
<1> HIDE DEF r
<1>6. Becomes(p, r)
  BY <1>1 DEF r, h
<1> QED
  BY <1>2, <1>4, <1>5, <1>6, BecomesGood

\* What is read from the cache file is as exact as the file; a hash is of the present.
LEMMA PrepareGood == ASSUME CacheInv, NEW p \in Runs, Prepare(p) PROVE CacheInv'
<1> DEFINE r == run[p]
           c == IF r.key = NoKey THEN NoEntries ELSE ReadStore(r.key)
           h == Restrict(content, r.targets)
           u == Unknown(r.targets, c)
           s == [r EXCEPT !.phase = "prepared", !.cached = c, !.hashes = h, !.pending = u]
<1>1. /\ r.phase = "keyed" /\ Becomes(p, s) /\ store' = store
  BY DEF Prepare
<1>2. /\ TypeOK /\ r \in Invocation /\ Good(r) /\ store \in Cache
      /\ Exact(store.files, store.key)
  BY DEF CacheInv, TypeOK
<1> HIDE DEF r
<1>3. c \in Partial(Entry) /\ Exact(c, r.key)
  BY <1>2, NoEntriesPartial DEF ReadStore, Cache, Exact, NoEntries
<1>4. r.key = NoKey => c = NoEntries
  OBVIOUS
<1>5. h \in Partial(Contents) /\ DOMAIN h = r.targets /\ \A f \in r.targets : h[f] = content[f]
  <2>1. r.targets \subseteq Files
    BY <1>2 DEF Invocation
  <2>2. h \in [r.targets -> Contents]
    BY <1>2, <2>1 DEF Restrict, TypeOK
  <2>3. h \in Partial(Contents)
    BY <2>1, <2>2, Zenon DEF Partial
  <2> QED
    BY <2>2, <2>3 DEF Restrict
<1>6. u \subseteq r.targets /\ \A f \in r.targets \ u : f \in DOMAIN c /\ c[f].hash = content[f]
  BY DEF Unknown
<1> HIDE DEF c, h, u
<1>7. s \in Invocation /\ s.pending \subseteq s.targets
  BY <1>2, <1>3, <1>5, <1>6 DEF Invocation
<1>8. /\ s.phase = "prepared" /\ s.cached = c /\ s.hashes = h /\ s.pending = u
      /\ s.key = r.key /\ s.targets = r.targets /\ s.contents = r.contents
      /\ s.configs = r.configs /\ s.fresh = r.fresh /\ s.engines = r.engines
  BY <1>2 DEF Invocation
<1> HIDE DEF s
<1>9. Begun(s) /\ Linted(s) /\ Finished(s)
  BY <1>1, <1>2, <1>8 DEF Good, Begun, Linted, Finished, NoEntries
<1>10. Accounted(s)
  <2>1. \A f \in r.targets : h[f] \in r.contents[f]
    BY <1>1, <1>2, <1>5 DEF Good, Begun
  <2>2. \A f \in r.targets \ u : r.key # NoKey /\ f \in DOMAIN c /\ c[f].hash = h[f]
    BY <1>4, <1>5, <1>6 DEF NoEntries
  <2> QED
    BY <1>3, <1>5, <1>8, <2>1, <2>2 DEF Accounted
<1>11. Awaiting(s)
  BY <1>1, <1>2, <1>5, <1>6, <1>8 DEF Good, Begun, Awaiting, Printed
<1> QED
  BY <1>1, <1>2, <1>7, <1>9, <1>10, <1>11, BecomesGood DEF Good

\* An engine that starts reads the present configuration.
LEMMA SpawnGood == ASSUME CacheInv, NEW p \in Runs, Spawn(p) PROVE CacheInv'
<1> DEFINE r == run[p]
           s == [r EXCEPT !.phase = "linting", !.engines = r.engines \cup {config}]
<1>1. /\ r.phase \in {"prepared", "linting"} /\ r.pending # {}
      /\ Becomes(p, s) /\ store' = store
  BY DEF Spawn
<1>2. /\ TypeOK /\ r \in Invocation /\ Good(r) /\ store \in Cache
      /\ Exact(store.files, store.key) /\ config \in Configs /\ r.pending \subseteq r.targets
  BY DEF CacheInv, TypeOK
<1> HIDE DEF r
<1>3. s \in Invocation /\ s.pending \subseteq s.targets
  BY <1>2 DEF Invocation
<1>4. /\ s.phase = "linting" /\ s.cached = r.cached /\ s.hashes = r.hashes
      /\ s.pending = r.pending /\ s.key = r.key /\ s.targets = r.targets
      /\ s.contents = r.contents /\ s.configs = r.configs
      /\ s.fresh = r.fresh /\ s.engines = r.engines \cup {config}
  BY <1>2 DEF Invocation
<1> HIDE DEF s
<1>5. config \in r.configs /\ Printed(r, config)
  BY <1>1, <1>2 DEF Good, Begun, Awaiting
<1>6. Begun(s) /\ Accounted(s) /\ Awaiting(s) /\ Finished(s)
  BY <1>1, <1>2, <1>4 DEF Good, Begun, Accounted, Awaiting, Finished, Printed
<1>7. Linted(s)
  BY <1>1, <1>2, <1>4, <1>5 DEF Good, Linted, Printed
<1> QED
  BY <1>1, <1>2, <1>3, <1>6, <1>7, BecomesGood DEF Good

\* The diagnosis of a linted file is of the present, which still is its hash unless that is raced.
LEMMA LintGood == ASSUME CacheInv, NEW p \in Runs, NEW f \in Files, Lint(p, f) PROVE CacheInv'
<1> DEFINE r == run[p]
           known == DOMAIN r.fresh \cup {f}
           D(k) == [content |-> content[f], config |-> k]
           G(k) == [x \in known |-> IF x = f THEN D(k) ELSE r.fresh[x]]
           S(k) == [r EXCEPT !.pending = r.pending \ {f}, !.fresh = G(k)]
<1>1. PICK k \in r.engines :
          /\ r.phase = "linting" /\ f \in r.pending /\ Becomes(p, S(k)) /\ store' = store
  BY DEF Lint
<1> DEFINE d == D(k)
           g == G(k)
           s == S(k)
<1>2. /\ TypeOK /\ r \in Invocation /\ Good(r) /\ store \in Cache
      /\ Exact(store.files, store.key) /\ r.pending \subseteq r.targets
  BY DEF CacheInv, TypeOK
<1> HIDE DEF r
<1>3. k \in Configs /\ k \in r.configs /\ Printed(r, k)
  BY <1>1, <1>2 DEF Good, Linted, Invocation
<1>4. d \in Diagnosis /\ d.content = content[f] /\ d.config = k
  BY <1>2, <1>3 DEF Diagnosis, TypeOK
<1> HIDE DEF d
<1>5. /\ DOMAIN g = known /\ g[f] = d
      /\ \A x \in DOMAIN r.fresh : x # f => g[x] = r.fresh[x]
  BY DEF d
<1>6. g \in Partial(Diagnosis)
  <2>1. DOMAIN r.fresh \subseteq Files /\ \A x \in DOMAIN r.fresh : r.fresh[x] \in Diagnosis
    BY <1>2, FieldTypes
  <2>2. g \in [known -> Diagnosis] /\ known \in SUBSET Files
    BY <1>4, <2>1 DEF d
  <2> QED
    BY <2>2, Zenon DEF Partial
<1> HIDE DEF g
<1>7. s \in Invocation /\ s.pending \subseteq s.targets
  BY <1>2, <1>6 DEF Invocation, g
<1>8. /\ s.phase = "linting" /\ s.cached = r.cached /\ s.hashes = r.hashes
      /\ s.pending = r.pending \ {f} /\ s.key = r.key /\ s.targets = r.targets
      /\ s.contents = r.contents /\ s.configs = r.configs
      /\ s.fresh = g /\ s.engines = r.engines
  BY <1>1, <1>2 DEF Invocation, g
<1>9. Becomes(p, s) /\ store' = store
  BY <1>1
<1> HIDE DEF s
<1>10. Begun(s) /\ Awaiting(s) /\ Finished(s)
  BY <1>1, <1>2, <1>8 DEF Good, Begun, Awaiting, Finished, Printed
<1>11. Accounted(s)
  BY <1>1, <1>2, <1>5, <1>8 DEF Good, Accounted
<1>12. Linted(s)
  <2>1. /\ f \in r.targets /\ content[f] \in r.contents[f]
        /\ r.hashes[f] = content[f] \/ <<f, r.hashes[f]>> \in raced
    BY <1>1, <1>2 DEF Good, Begun, Awaiting
  <2>2. ASSUME NEW x \in known
        PROVE  /\ x \in s.targets
               /\ g[x].content \in s.contents[x] /\ g[x].config \in s.configs
               /\ s.hashes[x] = g[x].content \/ <<x, s.hashes[x]>> \in raced
               /\ Printed(s, g[x].config)
    <3>1. CASE x = f
      BY <1>3, <1>4, <1>5, <1>8, <2>1, <3>1 DEF Printed
    <3>2. CASE x # f
      BY <1>1, <1>2, <1>5, <1>8, <2>2, <3>2 DEF Good, Linted, Printed
    <3> QED
      BY <3>1, <3>2
  <2>3. \A e \in s.engines : e \in s.configs /\ Printed(s, e)
    BY <1>1, <1>2, <1>8 DEF Good, Linted, Printed
  <2> QED
    BY <1>5, <1>8, <2>2, <2>3 DEF Linted
<1> QED
  BY <1>2, <1>7, <1>9, <1>10, <1>11, <1>12, BecomesGood DEF Good

\* A truncated cache file has no entries.
LEMMA TruncateGood == ASSUME CacheInv, NEW p \in Runs, Truncate(p) PROVE CacheInv'
<1> DEFINE r == run[p]
           s == [r EXCEPT !.phase = "writing"]
<1>1. /\ r.phase \in {"prepared", "linting"} /\ r.pending = {} /\ r.key # NoKey
      /\ Becomes(p, s) /\ store' = Unusable
  BY DEF Truncate, Complete
<1>2. r \in Invocation /\ Good(r)
  BY DEF CacheInv, TypeOK
<1> HIDE DEF r
<1>3. s \in Invocation /\ s.pending \subseteq s.targets
  BY <1>1, <1>2 DEF Invocation
<1>4. /\ s.phase = "writing" /\ s.cached = r.cached /\ s.hashes = r.hashes
      /\ s.pending = r.pending /\ s.key = r.key /\ s.targets = r.targets
      /\ s.contents = r.contents /\ s.configs = r.configs
      /\ s.fresh = r.fresh /\ s.engines = r.engines
  BY <1>2 DEF Invocation
<1> HIDE DEF s
<1>5. Good(s)
  BY <1>1, <1>2, <1>4 DEF Good, Begun, Accounted, Awaiting, Linted, Finished, Printed
<1> QED
  BY <1>1, <1>3, <1>5, IdleTypes, NothingIsGood, BecomesGood

\* What a run with nothing left to lint reports, be it linted or cached: of the time of the run,
\* and of the hash and the key, but for what was raced.
LEMMA ReportedGood ==
    ASSUME CacheInv, NEW p \in Runs, run[p].phase \notin {"idle", "keyed"},
           run[p].pending = {}, NEW f \in run[p].targets
    PROVE  LET r == run[p]
               d == Reported(p)[f]
           IN  /\ d \in Diagnosis
               /\ r.hashes[f] \in Contents /\ r.hashes[f] \in r.contents[f]
               /\ <<f, r.hashes[f]>> \notin raced => d.content = r.hashes[f]
               /\ r.key \notin {NoKey} \cup racedKeys => d.config = r.key
               /\ f \in DOMAIN r.fresh =>
                      d.content \in r.contents[f] /\ d.config \in r.configs
               /\ f \notin DOMAIN r.fresh => r.key # NoKey /\ r.key \in r.configs
<1> DEFINE r == run[p]
           d == Reported(p)[f]
<1>1. TypeOK /\ r \in Invocation /\ Good(r)
  BY DEF CacheInv, TypeOK
<1>2. d = IF f \in DOMAIN r.fresh THEN r.fresh[f] ELSE r.cached[f].diagnosis
  BY DEF Reported
<1> HIDE DEF r, d
<1>3. r.phase \notin {"idle", "keyed"} /\ f \in r.targets /\ f \in r.targets \ r.pending
  BY DEF r
<1>4. /\ DOMAIN r.hashes = r.targets /\ r.hashes[f] \in r.contents[f]
      /\ Exact(r.cached, r.key) /\ r.key \in {NoKey} \cup r.configs
      /\ \/ f \in DOMAIN r.fresh
         \/ r.key # NoKey /\ f \in DOMAIN r.cached /\ r.cached[f].hash = r.hashes[f]
  BY <1>1, <1>3 DEF Good, Begun, Accounted
<1>5. r.hashes[f] \in Contents
  BY <1>1, <1>3, <1>4, FieldTypes
<1>6. CASE f \in DOMAIN r.fresh
  <2>1. d = r.fresh[f] /\ d \in Diagnosis
    BY <1>1, <1>2, <1>6, FieldTypes
  <2>2. /\ d.content \in r.contents[f] /\ d.config \in r.configs
        /\ r.hashes[f] = d.content \/ <<f, r.hashes[f]>> \in raced
        /\ Printed(r, d.config)
    BY <1>1, <1>3, <1>6, <2>1 DEF Good, Linted
  <2> QED
    BY <1>4, <1>5, <1>6, <2>1, <2>2 DEF Printed, r, d
<1>7. CASE f \notin DOMAIN r.fresh
  <2>1. /\ r.key # NoKey /\ f \in DOMAIN r.cached /\ r.cached[f].hash = r.hashes[f]
        /\ d = r.cached[f].diagnosis
    BY <1>2, <1>4, <1>7
  <2>2. d \in Diagnosis
    BY <1>1, <2>1, FieldTypes
  <2>3. /\ <<f, r.hashes[f]>> \notin raced => d.content = r.hashes[f]
        /\ r.key \notin racedKeys => d.config = r.key
    BY <1>4, <2>1 DEF Exact
  <2> QED
    BY <1>4, <1>5, <1>7, <2>1, <2>2, <2>3 DEF r, d
<1> QED
  BY <1>6, <1>7

\* The entries that a run writes are what it reports, under what it hashed.
LEMMA WriteGood == ASSUME CacheInv, NEW p \in Runs, Write(p) PROVE CacheInv'
<1> DEFINE r == run[p]
<1>1. /\ r.phase \in {"writing", "overwriting"} /\ content' = content /\ config' = config
      /\ raced' = raced /\ racedKeys' = racedKeys
      /\ store' \in {Stored(p), Unusable}
      /\ run' = [q \in Runs |->
                     IF q = p THEN Idle
                     ELSE IF run[q].phase = "writing"
                          THEN [run[q] EXCEPT !.phase = "overwriting"]
                          ELSE run[q]]
  BY DEF Write
<1>2. TypeOK /\ r \in Invocation /\ Good(r)
  BY DEF CacheInv, TypeOK
<1>3. r.key # NoKey /\ r.key \in Configs \cup {NoKey} /\ r.pending = {}
  BY <1>1, <1>2, FieldTypes DEF Good, Finished
<1>4. ASSUME NEW f \in r.targets
      PROVE  /\ r.hashes[f] \in Contents /\ Reported(p)[f] \in Diagnosis
             /\ <<f, r.hashes[f]>> \notin raced => Reported(p)[f].content = r.hashes[f]
             /\ r.key \notin racedKeys => Reported(p)[f].config = r.key
  BY <1>1, <1>3, ReportedGood
<1>5. Stored(p) \in Cache /\ Exact(Stored(p).files, Stored(p).key)
  <2> DEFINE e == [f \in r.targets |-> [hash |-> r.hashes[f], diagnosis |-> Reported(p)[f]]]
  <2>1. Stored(p) = [key |-> r.key, files |-> e]
    BY DEF Stored, HashesOf
  <2>2. r.targets \in SUBSET Files
    BY <1>2 DEF Invocation
  <2>3. e \in [r.targets -> Entry]
    BY <1>4 DEF Entry
  <2>4. e \in Partial(Entry)
    BY <2>2, <2>3, Zenon DEF Partial
  <2>5. Exact(e, r.key)
    BY <1>4 DEF Exact
  <2> HIDE DEF e, r
  <2> QED
    BY <1>3, <2>1, <2>4, <2>5 DEF Cache
<1>6. store' \in Cache /\ Exact(store'.files, store'.key)
  BY <1>1, <1>5, IdleTypes, NothingIsGood
<1>7. ASSUME NEW q \in Runs
      PROVE  /\ run'[q] \in Invocation /\ run'[q].pending \subseteq run'[q].targets
             /\ Good(run'[q])
  <2>0. run[q] \in Invocation /\ run[q].pending \subseteq run[q].targets /\ Good(run[q])
    BY <1>2 DEF CacheInv, TypeOK
  <2>1. CASE q = p
    <3>1. run'[q] = Idle
      BY <1>1, <2>1
    <3>2. Idle.pending \subseteq Idle.targets
      BY DEF Idle
    <3> QED
      BY <3>1, <3>2, IdleTypes, NothingIsGood
  <2>2. CASE q # p /\ run[q].phase = "writing"
    <3> DEFINE s == [run[q] EXCEPT !.phase = "overwriting"]
    <3>1. run'[q] = s
      BY <1>1, <2>2
    <3>2. s \in Invocation
      BY <2>0 DEF Invocation
    <3>3. /\ s.phase = "overwriting" /\ s.cached = run[q].cached /\ s.hashes = run[q].hashes
          /\ s.pending = run[q].pending /\ s.key = run[q].key /\ s.targets = run[q].targets
          /\ s.contents = run[q].contents /\ s.configs = run[q].configs
          /\ s.fresh = run[q].fresh /\ s.engines = run[q].engines
      BY <2>0 DEF Invocation
    <3> HIDE DEF s
    <3>4. Good(s) /\ s.pending \subseteq s.targets
      BY <2>0, <2>2, <3>3 DEF Good, Begun, Accounted, Awaiting, Linted, Finished, Printed
    <3> QED
      BY <3>1, <3>2, <3>4
  <2>3. CASE q # p /\ run[q].phase # "writing"
    BY <1>1, <2>0, <2>3
  <2> QED
    BY <2>1, <2>2, <2>3
<1>8. TypeOK'
  <2>1. run' \in [Runs -> Invocation]
    BY <1>1, <1>7
  <2> QED
    BY <1>1, <1>2, <1>6, <1>7, <2>1 DEF TypeOK
<1>9. Exact(store.files, store.key)'
  BY <1>1, <1>6 DEF Exact
<1>10. \A q \in Runs : Good(run[q])'
  <2>1. /\ content' = content /\ config' = config /\ raced' = raced /\ racedKeys' = racedKeys
        /\ \A q \in Runs : Good(run'[q])
    BY <1>1, <1>7
  <2> QED
    BY ONLY <2>1 DEF Good, Begun, Accounted, Awaiting, Linted, Finished, Exact, Printed
<1> QED
  BY <1>8, <1>9, <1>10 DEF CacheInv

\* A run that ends forgets what it knew.
LEMMA EndGood == ASSUME CacheInv, NEW p \in Runs, End(p) PROVE CacheInv'
<1>1. /\ Becomes(p, Idle) /\ store' = store /\ store \in Cache
      /\ Exact(store.files, store.key)
  BY DEF End, CacheInv, TypeOK
<1>2. Idle.pending \subseteq Idle.targets
  BY DEF Idle
<1> QED
  BY <1>1, <1>2, IdleTypes, NothingIsGood, BecomesGood

-----------------------------------------------------------------------------
\* Every step keeps the invariant.
LEMMA NextGood == CacheInv /\ [Next]_vars => CacheInv'
<1> SUFFICES ASSUME CacheInv, [Next]_vars PROVE CacheInv'
  OBVIOUS
<1>1. ASSUME NEW f \in Files, Edit(f) PROVE CacheInv'
  BY <1>1, EditGood
<1>2. CASE Configure
  BY <1>2, ConfigureGood
<1>3. ASSUME NEW p \in Runs,
             \/ Begin(p) \/ Prepare(p) \/ Spawn(p) \/ \E f \in Files : Lint(p, f)
             \/ Truncate(p) \/ Write(p) \/ End(p)
      PROVE  CacheInv'
  BY <1>3, BeginGood, PrepareGood, SpawnGood, LintGood, TruncateGood, WriteGood, EndGood
<1>4. CASE UNCHANGED vars
  BY <1>4 DEF vars, CacheInv, TypeOK, Good, Begun, Accounted, Awaiting, Linted, Finished,
              Exact, Printed
<1> QED
  BY <1>1, <1>2, <1>3, <1>4 DEF Next

\* Before the first run there are no entries, nothing is known and nothing was raced.
LEMMA InitGood == Init => CacheInv
<1> SUFFICES ASSUME Init PROVE CacheInv
  OBVIOUS
<1>1. TypeOK
  <2>1. Idle.pending \subseteq Idle.targets
    BY DEF Idle
  <2> QED
    BY <2>1, IdleTypes DEF Init, TypeOK
<1> QED
  BY <1>1, NothingIsGood DEF Init, CacheInv

\* The invariant holds in every reachable state.
LEMMA CacheInvHolds == Spec => []CacheInv
BY InitGood, NextGood, PTL DEF Spec

\* The types of the cache file, of what the runs know and of the histories of races.
THEOREM TypeCorrect == Spec => []TypeOK
<1>1. CacheInv => TypeOK
  BY DEF CacheInv
<1> QED
  BY <1>1, CacheInvHolds, PTL

\* Each diagnostic of a report is of a content and of a configuration that there were during
\* the run, for any overlap of runs, edits, undone edits, failures and torn files; excepted is
\* what was cached under a hash, or a key, that some run was overtaken with
\* (lint-cli.ts:189-191, 270-281).
THEOREM ReportFresh == Spec => []NoStaleReport
<1>1. CacheInv => NoStaleReport
  <2> SUFFICES ASSUME CacheInv, NEW p \in Runs,
                      Complete(p) \/ run[p].phase \in {"writing", "overwriting"},
                      NEW f \in run[p].targets
               PROVE  LET linted == f \in DOMAIN run[p].fresh
                      IN  /\ linted \/ <<f, run[p].hashes[f]>> \notin raced =>
                                 Reported(p)[f].content \in run[p].contents[f]
                          /\ linted \/ run[p].key \notin racedKeys =>
                                 Reported(p)[f].config \in run[p].configs
    BY DEF NoStaleReport
  <2>1. run[p].phase \notin {"idle", "keyed"} /\ run[p].pending = {}
    BY DEF CacheInv, Good, Finished, Complete
  <2> QED
    BY <2>1, ReportedGood
<1> QED
  BY <1>1, CacheInvHolds, PTL

\* Only two histories put a wrong diagnostic into the cache file: an edit between a run's hashing
\* and its linting of the file, and a change of the configuration between printing it and linting
\* (lint-cli.ts:183-191, 278-286).  All other entries are of their hash and their key,
\* also when contents and configurations return.
THEOREM RacesAloneSpoil == Spec => []OnlyRacesSpoil
<1>1. CacheInv => OnlyRacesSpoil
  BY DEF CacheInv, Exact, OnlyRacesSpoil
<1> QED
  BY <1>1, CacheInvHolds, PTL
=============================================================================
