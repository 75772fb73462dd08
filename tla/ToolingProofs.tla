---------------------------- MODULE ToolingProofs ----------------------------
(***************************************************************************)
(* Theorems about the tools around the catalog, one part for each:         *)
(* the frozen inputs, the copies of a reference project, the fixtures of   *)
(* the upstream tests, the providers of a configuration, the policy on the *)
(* sources, the contexts of the plugin's rules, the check of compiler      *)
(* options and the generator of the catalog.                               *)
(***************************************************************************)
EXTENDS SnapshotRefresh, Mirrors, FixtureImport, CompatibilityConfig, SourcePolicy,
        LegacyContext, ConsumerCli, CatalogGenerator, ReservationTheorems

-----------------------------------------------------------------------------
(* The frozen inputs.  What passes their check is complete, for every      *)
(* number of revisions, versions, archives and isolated sources, any       *)
(* number of refreshes and edits, and wherever each of them stopped.       *)

RefreshSpec == RefreshInit /\ [][RefreshNext]_refreshVars

\* The shapes of the lock and of the files.
LockShape(l) == l = [guide |-> l.guide, version |-> l.version, digest |-> l.digest]
FilesShape(d) ==
    /\ d = [lock |-> d.lock, vendor |-> d.vendor, guide |-> d.guide, sample |-> d.sample,
            port |-> d.port, airbnb |-> d.airbnb, corpus |-> d.corpus, catalog |-> d.catalog,
            manifest |-> d.manifest]
    /\ d.vendor = [f \in VendorFiles |-> d.vendor[f]]

\* The manifest is that of a complete refresh.
Recorded(d) == d.manifest = Hashes(Refreshed(d.manifest.lock))

\* What a running refresh has done before its step n, with the steps of Order.
Progress(n) ==
    /\ n \in {1, 2} => vendored = {}
    /\ n >= 2 => memory.digest = checkout
    /\ n >= 3 => fetched = memory.guide
    /\ n = 3 => \A f \in vendored : frozen.vendor[f] = checkout
    /\ n >= 4 => \A f \in VendorFiles : frozen.vendor[f] = checkout
    /\ n >= 5 => frozen.guide = fetched
    /\ n >= 6 => frozen.sample = SampleOf[fetched]
    /\ n >= 7 => frozen.port = Port(SampleOf[fetched])
    /\ n >= 8 => frozen.lock = memory
    /\ n >= 9 => frozen.airbnb = frozen.lock.version
    /\ n >= 12 => frozen.corpus = [of |-> checkout, failures |-> FALSE]

\* What the check compares.
Passes(d) ==
    /\ d.catalog = Catalog(d) /\ d.manifest = Hashes(d)

RefreshInv ==
    /\ FilesShape(frozen) /\ LockShape(frozen.lock) /\ LockShape(memory)
    /\ Recorded(frozen)
    /\ stepAt \in 0 .. 12 /\ vendored \subseteq VendorFiles
    /\ stepAt > 0 => Progress(stepAt) /\ verdict = "none"
    /\ verdict = "passed" => Passes(frozen)

\* The numbers of the steps.
LEMMA Steps ==
    ASSUME stepAt \in 0 .. 12
    PROVE  /\ Len(Order) = 12
           /\ AtStep("download") => stepAt = 1
           /\ AtStep("fetch") => stepAt = 2
           /\ AtStep("vendor") => stepAt = 3
           /\ AtStep("guide") => stepAt = 4
           /\ AtStep("sample") => stepAt = 5
           /\ AtStep("port") => stepAt = 6
           /\ AtStep("lock") => stepAt = 7
           /\ AtStep("airbnb") => stepAt = 8
           /\ AtStep("catalog") => stepAt = 9
           /\ AtStep("build") => stepAt = 10
           /\ AtStep("import") => stepAt = 11
           /\ AtStep("record") => stepAt = 12
BY DEF Order, AtStep

\* The start.
LEMMA RefreshInitHasInv == RefreshInit => RefreshInv
<1> SUFFICES ASSUME RefreshInit PROVE RefreshInv
  OBVIOUS
<1>1. PICK lock : LockShape(lock) /\ frozen = Refreshed(lock) /\ memory = lock
  BY DEF RefreshInit, Lock, LockShape
<1>2. frozen.lock = lock /\ FilesShape(frozen)
  BY <1>1 DEF Refreshed, FilesShape
<1>3. frozen.manifest = Hashes(frozen) /\ frozen.manifest.lock = lock
  BY <1>1 DEF Refreshed, Hashes
<1> QED
  BY <1>1, <1>2, <1>3 DEF RefreshInit, RefreshInv, Recorded

\* What happens outside, the end of a refresh and the check.
LEMMA QuietKeepsInv ==
    ASSUME RefreshInv, UNCHANGED <<frozen, memory>>,
           UpstreamMoves \/ GiveUp \/ Check \/ UNCHANGED refreshVars
    PROVE  RefreshInv'
<1>1. /\ FilesShape(frozen') /\ LockShape(frozen'.lock) /\ LockShape(memory')
      /\ Recorded(frozen') /\ stepAt' \in 0 .. 12 /\ vendored' \subseteq VendorFiles
  BY DEF RefreshInv, UpstreamMoves, GiveUp, Check, refreshVars
<1>2. ASSUME stepAt' > 0 PROVE Progress(stepAt)' /\ verdict' = "none"
  <2>1. stepAt' = stepAt /\ UNCHANGED <<checkout, fetched, vendored, verdict>>
    BY <1>2 DEF UpstreamMoves, GiveUp, Check, refreshVars
  <2> QED
    BY <1>2, <2>1 DEF RefreshInv, Progress
<1>3. ASSUME verdict' = "passed" PROVE Passes(frozen')
  <2>1. CASE Check
    BY <1>3, <2>1 DEF Check, Passes
  <2>2. CASE UpstreamMoves \/ GiveUp \/ UNCHANGED refreshVars
    BY <1>3, <2>2 DEF RefreshInv, UpstreamMoves, GiveUp, refreshVars
  <2> QED
    BY <2>1, <2>2
<1> QED
  BY <1>1, <1>2, <1>3 DEF RefreshInv

\* The edits of the lock, and the start of a refresh.
LEMMA LockKeepsInv ==
    ASSUME RefreshInv, EditLock \/ StartRefresh PROVE RefreshInv'
<1>1. FilesShape(frozen) /\ LockShape(frozen.lock) /\ LockShape(memory)
  BY DEF RefreshInv
<1>2. CASE EditLock
  <2>1. PICK v, d : frozen' = [frozen EXCEPT !.lock.version = v, !.lock.digest = d]
    BY <1>2, Zenon DEF EditLock
  <2>2. FilesShape(frozen') /\ frozen'.manifest = frozen.manifest
    BY <1>1, <2>1 DEF FilesShape
  <2>3. frozen'.lock = [frozen.lock EXCEPT !.version = v, !.digest = d]
    BY <1>1, <2>1 DEF FilesShape
  <2>4. LockShape(frozen'.lock)
    BY <1>1, <2>3 DEF LockShape
  <2>5. Recorded(frozen')
    BY <2>2 DEF RefreshInv, Recorded
  <2>6. stepAt' = 0 /\ verdict' = "none" /\ UNCHANGED <<memory, vendored>>
    BY <1>2 DEF EditLock, RefreshInv
  <2> QED
    BY <1>1, <2>2, <2>4, <2>5, <2>6 DEF RefreshInv
<1>3. CASE StartRefresh
  <2>1. frozen' = frozen /\ stepAt' = 1 /\ vendored' = {} /\ verdict' = "none"
    BY <1>3 DEF StartRefresh
  <2>2. LockShape(memory')
    BY <1>1, <1>3 DEF StartRefresh, LockShape
  <2>3. Progress(stepAt)'
    BY <2>1 DEF Progress
  <2> QED
    BY <1>1, <2>1, <2>2, <2>3 DEF RefreshInv
<1> QED
  BY <1>2, <1>3

\* What is downloaded and fetched changes no file.
LEMMA FetchesKeepInv ==
    ASSUME RefreshInv, Download \/ Fetch PROVE RefreshInv'
<1>1. stepAt \in 0 .. 12 /\ frozen' = frozen /\ UNCHANGED <<vendored, verdict>>
  BY DEF RefreshInv, Download, Fetch
<1>2. LockShape(memory')
  BY DEF RefreshInv, Download, Fetch, LockShape
<1>3. stepAt' \in {0, 2, 3}
  BY <1>1, Steps DEF Download, Fetch, StepDone
<1>4. ASSUME stepAt' > 0 PROVE Progress(stepAt)' /\ verdict' = "none"
  <2>1. CASE Download
    <3>1. stepAt = 1 /\ stepAt' = 2
      BY <1>1, <1>4, <2>1, Steps DEF Download, StepDone
    <3>2. vendored = {} /\ verdict = "none"
      BY <3>1 DEF RefreshInv, Progress
    <3>3. memory'.digest = checkout'
      BY <1>4, <2>1 DEF RefreshInv, Download, LockShape
    <3> QED
      BY <1>1, <3>1, <3>2, <3>3 DEF Progress
  <2>2. CASE Fetch
    <3>1. stepAt = 2 /\ stepAt' = 3
      BY <1>1, <1>4, <2>2, Steps DEF Fetch, StepDone
    <3>2. vendored = {} /\ verdict = "none" /\ memory.digest = checkout
      BY <3>1 DEF RefreshInv, Progress
    <3> QED
      BY <1>1, <2>2, <3>1, <3>2 DEF Progress, Fetch
  <2> QED
    BY <2>1, <2>2
<1> QED
  BY <1>1, <1>2, <1>3, <1>4 DEF RefreshInv, Passes, Catalog, Hashes

\* The isolated sources are written one after the other from the checked archive.
LEMMA VendorKeepsInv ==
    ASSUME RefreshInv, Vendor PROVE RefreshInv'
<1>1. /\ stepAt = 3 /\ Progress(3) /\ verdict = "none" /\ UNCHANGED <<memory, verdict, fetched, checkout>>
      /\ FilesShape(frozen) /\ LockShape(frozen.lock) /\ LockShape(memory) /\ Recorded(frozen)
      /\ vendored \subseteq VendorFiles /\ Len(Order) = 12
  BY Steps DEF RefreshInv, Vendor
<1>2. CASE stepAt' = 0 /\ UNCHANGED <<frozen, vendored>>
  BY <1>1, <1>2 DEF RefreshInv
<1>3. ASSUME NEW f \in VendorFiles, frozen' = [frozen EXCEPT !.vendor[f] = checkout],
             vendored' = vendored \cup {f},
             IF vendored' = VendorFiles THEN StepDone ELSE UNCHANGED stepAt
      PROVE  RefreshInv'
  <2>1. /\ FilesShape(frozen') /\ frozen'.vendor = [frozen.vendor EXCEPT ![f] = checkout]
        /\ frozen'.lock = frozen.lock /\ frozen'.manifest = frozen.manifest
    BY <1>1, <1>3 DEF FilesShape
  <2>2. \A g \in vendored' : frozen'.vendor[g] = checkout
    BY <1>1, <1>3, <2>1 DEF Progress, FilesShape
  <2>3. stepAt' = 3 \/ (stepAt' = 4 /\ vendored' = VendorFiles)
    BY <1>1, <1>3 DEF StepDone
  <2>4. Progress(stepAt)'
    BY <1>1, <2>2, <2>3 DEF Progress
  <2>5. LockShape(frozen'.lock) /\ Recorded(frozen')
    BY <1>1, <2>1 DEF Recorded
  <2> QED
    BY <1>1, <1>3, <2>1, <2>3, <2>4, <2>5 DEF RefreshInv
<1> QED
  BY <1>2, <1>3 DEF Vendor

\* One text after the other is written, and each is still there at the end.
LEMMA WritesKeepInv ==
    ASSUME RefreshInv, WriteFrozen PROVE RefreshInv'
<1>0. stepAt \in 4 .. 10
  BY Steps DEF RefreshInv, WriteFrozen
<1>1. /\ Progress(stepAt) /\ verdict = "none" /\ stepAt' = stepAt + 1
      /\ UNCHANGED <<memory, vendored, verdict, fetched, checkout>>
      /\ FilesShape(frozen) /\ LockShape(frozen.lock) /\ LockShape(memory) /\ Recorded(frozen)
      /\ vendored \subseteq VendorFiles
  <2>1. StepDone /\ UNCHANGED <<memory, vendored, verdict, fetched, checkout>>
    BY DEF WriteFrozen
  <2>2. Len(Order) = 12
    BY <1>0, Steps DEF RefreshInv
  <2>3. stepAt' = stepAt + 1
    BY <1>0, <2>1, <2>2 DEF StepDone
  <2> QED
    BY <1>0, <2>1, <2>3 DEF RefreshInv
<1>2. /\ FilesShape(frozen') /\ frozen'.vendor = frozen.vendor
      /\ frozen'.manifest = frozen.manifest
      /\ LockShape(frozen'.lock)
  BY <1>0, <1>1 DEF FilesShape, WriteFrozen
<1>3. Recorded(frozen')
  BY <1>1, <1>2 DEF Recorded
<1>4. /\ stepAt = 4 => frozen'.guide = fetched
      /\ stepAt > 4 => frozen'.guide = frozen.guide
      /\ stepAt = 5 => frozen'.sample = SampleOf[fetched]
      /\ stepAt > 5 => frozen'.sample = frozen.sample
      /\ stepAt = 6 => frozen'.port = Port(SampleOf[fetched])
      /\ stepAt > 6 => frozen'.port = frozen.port
  BY <1>0, <1>1, Steps DEF FilesShape, WriteFrozen
<1>5. /\ stepAt = 7 => frozen'.lock = memory
      /\ stepAt > 7 => frozen'.lock = frozen.lock
      /\ stepAt = 8 => frozen'.airbnb = frozen.lock.version
      /\ stepAt > 8 => frozen'.airbnb = frozen.airbnb
  BY <1>0, <1>1, Steps DEF FilesShape, WriteFrozen
<1>6. Progress(stepAt)'
  BY <1>0, <1>1, <1>2, <1>4, <1>5 DEF Progress
<1> QED
  BY <1>0, <1>1, <1>2, <1>3, <1>6 DEF RefreshInv

\* The corpus is that of the checked archive.
LEMMA ImportKeepsInv ==
    ASSUME RefreshInv, Import PROVE RefreshInv'
<1>1. /\ stepAt = 11 /\ Progress(11) /\ verdict = "none"
      /\ UNCHANGED <<memory, vendored, verdict, fetched, checkout>>
      /\ FilesShape(frozen) /\ LockShape(frozen.lock) /\ LockShape(memory) /\ Recorded(frozen)
      /\ vendored \subseteq VendorFiles /\ Len(Order) = 12
  BY Steps DEF RefreshInv, Import
<1>2. PICK failed \in BOOLEAN :
          /\ frozen' = [frozen EXCEPT !.corpus = [of |-> checkout, failures |-> failed]]
          /\ IF failed THEN stepAt' = 0 ELSE StepDone
  BY DEF Import
<1>3. /\ FilesShape(frozen') /\ frozen'.lock = frozen.lock /\ frozen'.manifest = frozen.manifest
      /\ frozen'.vendor = frozen.vendor /\ frozen'.guide = frozen.guide
      /\ frozen'.sample = frozen.sample /\ frozen'.port = frozen.port
      /\ frozen'.airbnb = frozen.airbnb
      /\ frozen'.corpus = [of |-> checkout, failures |-> failed]
  BY <1>1, <1>2 DEF FilesShape
<1>4. stepAt' = 0 \/ (stepAt' = 12 /\ ~failed)
  BY <1>1, <1>2 DEF StepDone
<1>5. ASSUME stepAt' > 0 PROVE Progress(stepAt)'
  <2>0. stepAt' = 12 /\ ~failed
    BY <1>4, <1>5
  <2>1. stepAt' = 12 /\ frozen'.corpus = [of |-> checkout, failures |-> FALSE]
    BY <1>3, <2>0, Zenon
  <2>2. /\ memory.digest = checkout /\ fetched = memory.guide /\ frozen.guide = fetched
        /\ frozen.sample = SampleOf[fetched] /\ frozen.port = Port(SampleOf[fetched])
        /\ frozen.lock = memory /\ frozen.airbnb = frozen.lock.version
        /\ \A f \in VendorFiles : frozen.vendor[f] = checkout
    BY <1>1, SMT DEF Progress
  <2>3. /\ ~(stepAt' \in {1, 2}) /\ stepAt' # 3
    BY <2>1
  <2> QED
    BY <1>1, <1>3, <2>1, <2>2, <2>3, Zenon DEF Progress
<1>6. LockShape(frozen'.lock) /\ Recorded(frozen')
  BY <1>1, <1>3 DEF Recorded
<1> QED
  BY <1>1, <1>3, <1>4, <1>5, <1>6 DEF RefreshInv

\* The manifest is that of what the refresh has written by then: all of it.
LEMMA RecordKeepsInv ==
    ASSUME RefreshInv, Record PROVE RefreshInv'
<1>1. /\ stepAt = 12 /\ Progress(12) /\ verdict = "none"
      /\ UNCHANGED <<memory, vendored, verdict, fetched, checkout>>
      /\ FilesShape(frozen) /\ LockShape(frozen.lock) /\ LockShape(memory) /\ Recorded(frozen)
      /\ vendored \subseteq VendorFiles /\ Len(Order) = 12
  BY Steps DEF RefreshInv, Record
<1>2. stepAt' = 0
  BY <1>1 DEF Record, StepDone
<1>3. Hashes(frozen) = Hashes(Refreshed(frozen.lock))
  <2>0. /\ memory.digest = checkout /\ fetched = memory.guide /\ frozen.guide = fetched
        /\ frozen.sample = SampleOf[fetched] /\ frozen.port = Port(SampleOf[fetched])
        /\ frozen.lock = memory /\ frozen.airbnb = frozen.lock.version
        /\ frozen.corpus = [of |-> checkout, failures |-> FALSE]
    BY <1>1, SMT DEF Progress
  <2>1. /\ frozen.lock = memory /\ frozen.guide = memory.guide
        /\ frozen.sample = SampleOf[memory.guide] /\ frozen.port = Port(SampleOf[memory.guide])
        /\ frozen.airbnb = memory.version
        /\ frozen.corpus = [of |-> memory.digest, failures |-> FALSE]
    BY <2>0, Zenon
  <2>2. frozen.vendor = [f \in VendorFiles |-> memory.digest]
    BY <1>1 DEF Progress, FilesShape
  <2> QED
    BY <2>1, <2>2 DEF Hashes, Refreshed
<1>4. CASE frozen' = frozen
  BY <1>1, <1>2, <1>4 DEF RefreshInv
<1>5. CASE frozen' = [frozen EXCEPT !.manifest = Hashes(frozen)]
  <2>1. /\ FilesShape(frozen') /\ frozen'.lock = frozen.lock
        /\ frozen'.manifest = Hashes(frozen)
    BY <1>1, <1>5 DEF FilesShape
  <2>2. Hashes(frozen).lock = frozen.lock
    BY DEF Hashes
  <2>3. Recorded(frozen') /\ LockShape(frozen'.lock)
    BY <1>1, <1>3, <2>1, <2>2 DEF Recorded
  <2> QED
    BY <1>1, <1>2, <2>1, <2>3 DEF RefreshInv
<1> QED
  BY <1>4, <1>5 DEF Record

\* Every step keeps the invariant.
LEMMA RefreshNextKeepsInv == RefreshInv /\ [RefreshNext]_refreshVars => RefreshInv'
<1> SUFFICES ASSUME RefreshInv, [RefreshNext]_refreshVars PROVE RefreshInv'
  OBVIOUS
<1>1. CASE UpstreamMoves \/ GiveUp \/ Check \/ UNCHANGED refreshVars
  <2>1. UNCHANGED <<frozen, memory>>
    BY <1>1 DEF UpstreamMoves, GiveUp, Check, refreshVars
  <2> QED
    BY <1>1, <2>1, QuietKeepsInv
<1> QED
  BY <1>1, LockKeepsInv, FetchesKeepInv, VendorKeepsInv, WritesKeepInv, ImportKeepsInv,
     RecordKeepsInv DEF RefreshNext

\* Files whose hashes are those of the manifest, with the catalog made from them, are the
\* files of a complete refresh.
LEMMA RecordedComplete ==
    ASSUME NEW d, FilesShape(d), Recorded(d), Passes(d) PROVE d = Refreshed(d.lock)
<1> DEFINE r == Refreshed(d.lock)
<1>1. d.manifest.lock = d.lock /\ Hashes(d) = Hashes(r)
  BY DEF Recorded, Passes, Hashes
<1>2. r.manifest = Hashes(r) /\ r.catalog = Catalog(r)
  BY DEF Refreshed, Hashes, Catalog
<1>3. r = [lock |-> r.lock, vendor |-> r.vendor, guide |-> r.guide, sample |-> r.sample,
           port |-> r.port, airbnb |-> r.airbnb, corpus |-> r.corpus, catalog |-> r.catalog,
           manifest |-> r.manifest]
  BY DEF Refreshed
<1> HIDE DEF r
<1>4. /\ d.lock = r.lock /\ d.vendor = r.vendor /\ d.guide = r.guide /\ d.sample = r.sample
      /\ d.port = r.port /\ d.airbnb = r.airbnb /\ d.corpus = r.corpus
  BY <1>1 DEF Hashes
<1>5. d.catalog = r.catalog /\ d.manifest = r.manifest
  BY <1>1, <1>2, <1>4 DEF Passes, Catalog
<1>6. d = r
  BY <1>3, <1>4, <1>5 DEF FilesShape
<1> QED
  BY <1>6 DEF r

\* What passes the check is what a complete refresh of the lock leaves (refresh.ts:30-100,
\* integrity.ts:8-61).
THEOREM CheckedComplete == RefreshSpec => []CheckedIsComplete
<1>1. RefreshInv => CheckedIsComplete
  BY RecordedComplete DEF RefreshInv, CheckedIsComplete
<1> QED
  BY <1>1, RefreshInitHasInv, RefreshNextKeepsInv, PTL DEF RefreshSpec

-----------------------------------------------------------------------------
(* The copies of a reference project.  They agree with the inventory and   *)
(* with each other, for any project, any number of paths and any edits.    *)
(* The argument for the links is that of an optimistic reader: as long as  *)
(* the project is what the inventory says, so are the links; and a project *)
(* that is not is caught by the comparison at the end unless the links had *)
(* been made before.                                                       *)

MirrorSpec == MirrorInit /\ [][MirrorNext]_mirrorVars

\* A tree with paths of the project.
IsTree(t) == DOMAIN t \subseteq Paths /\ t = [p \in DOMAIN t |-> TreeEntry(t[p])]

\* The paths that the current walk has passed.
Passed == {MirrorPaths[i] : i \in 1 .. cursor - 1}

Walks == {"inventory", "links", "copy", "relink", "compare", "verify", "ready", "failed"}

WalkTyped ==
    /\ IsTree(tree) /\ IsTree(inventory)
    /\ walk \in Walks /\ cursor \in 1 .. Len(MirrorPaths) /\ edits \in Nat
    /\ side \in Sides
    /\ walk \in {"inventory", "links"} => side = "baseline"
    /\ walk \in {"verify", "ready"} => side = "candidate"
    /\ walk = "inventory" => DOMAIN inventory \subseteq Passed
    /\ walk = "compare" => cursor = 1
    /\ walk = "failed" => copies = <<>>
    /\ walk # "failed" => copies = [s \in Sides |-> copies[s]]

\* The copies that have been compared, and those whose links have all been made.
Compared == {s \in Sides : walk \in {"verify", "ready"} \/ (s = "baseline" /\ side = "candidate")}
Linked == {s \in Sides : s \in Compared \/ (s = side /\ walk = "compare")}

\* The copy c has the files of the inventory.
Complete(c) ==
    /\ DOMAIN c = CopiedInventory
    /\ \A p \in CopiedInventory :
        /\ c[p].kind = inventory[p].kind
        /\ inventory[p].kind = "file" => c[p] = TreeEntry(inventory[p])

FilesInv ==
    walk # "failed" =>
        /\ \A s \in Sides : \A p \in DOMAIN copies[s] : copies[s][p] = TreeEntry(copies[s][p])
        /\ \A s \in Compared : Complete(copies[s])

\* Two trees agree at a path.
Agree(t, u, p) ==
    /\ p \in DOMAIN t <=> p \in DOMAIN u
    /\ p \in DOMAIN t => t[p] = u[p]

InventoryLinks == {p \in CopiedInventory : inventory[p].kind = "link"}
Leads(p) == contains(RealPath(inventory, p))

\* The links of the copy of s among the paths P lead where the inventory's do.
LinksRight(s, P) ==
    \A p \in InventoryLinks \cap P : copies[s][p].value = RealPath(inventory, p) /\ Leads(p)

\* What the links are if the project is what the inventory says.
Undisturbed ==
    /\ walk = "links" => \A p \in InventoryLinks \cap Passed : Leads(p)
    /\ walk \notin {"inventory", "links"} => \A p \in InventoryLinks : Leads(p)
    /\ walk = "relink" => LinksRight(side, Passed)
    /\ \A s \in Linked : LinksRight(s, Paths)

\* The paths that the comparison at the end has yet to pass.
Unverified ==
    IF walk = "ready" THEN {} ELSE IF walk = "verify" THEN Paths \ Passed ELSE Paths

\* What is known of the links unless the project was edited twice.
LinksInv ==
    /\ edits = 0 /\ walk = "inventory" => \A p \in Passed : Agree(tree, inventory, p)
    /\ edits = 0 /\ walk \notin {"inventory", "failed"} => tree = inventory
    /\ edits <= 1 /\ walk \notin {"inventory", "failed"} =>
        \/ tree = inventory /\ Undisturbed
        \/ walk \in {"verify", "ready"} /\ \A s \in Sides : LinksRight(s, Paths)
        \/ \E p \in Unverified : ~Agree(tree, inventory, p)

MirrorInv == WalkTyped /\ FilesInv /\ LinksInv

-----------------------------------------------------------------------------
(* Paths and trees. *)

\* There are paths, and the walk is at one of them.
LEMMA PathFacts ==
    /\ Len(MirrorPaths) \in Nat \ {0} /\ DOMAIN MirrorPaths = 1 .. Len(MirrorPaths)
    /\ cursor \in 1 .. Len(MirrorPaths) => Here \in Paths
BY PathsAssumption DEF Paths, Here

\* A walk passes one path after the other, all of them before the next walk.
LEMMA AdvancePasses ==
    ASSUME cursor \in 1 .. Len(MirrorPaths), NEW w, Advance(w)
    PROVE  /\ cursor' \in 1 .. Len(MirrorPaths)
           /\ \/ walk' = walk /\ Passed' = Passed \cup {Here}
              \/ /\ walk' = w /\ cursor' = 1 /\ Passed' = {}
                 /\ Paths = Passed \cup {Here}
<1>1. Len(MirrorPaths) \in Nat \ {0} /\ DOMAIN MirrorPaths = 1 .. Len(MirrorPaths)
  BY PathFacts
<1>2. CASE cursor < Len(MirrorPaths)
  <2>1. cursor' = cursor + 1 /\ walk' = walk
    BY <1>2 DEF Advance
  <2>2. (1 .. (cursor + 1) - 1) = (1 .. cursor - 1) \cup {cursor}
    BY <1>1, <1>2
  <2>3. Passed' = Passed \cup {Here}
    BY <2>1, <2>2 DEF Passed, Here
  <2> QED
    BY <1>1, <1>2, <2>1, <2>3
<1>3. CASE ~(cursor < Len(MirrorPaths))
  <2>0. cursor = Len(MirrorPaths)
    <3>1. ASSUME NEW n \in Nat, NEW c \in 1 .. n, ~(c < n) PROVE c = n
      BY <3>1
    <3> QED
      BY <1>1, <1>3, <3>1
  <2>1. cursor' = 1 /\ walk' = w /\ cursor = Len(MirrorPaths)
    BY <1>3, <2>0 DEF Advance
  <2>2. (1 .. Len(MirrorPaths)) = (1 .. cursor - 1) \cup {cursor} /\ (1 .. 1 - 1) = {}
    BY <1>1, <2>1
  <2>3. Paths = Passed \cup {Here}
    BY <1>1, <2>2 DEF Paths, Passed, Here
  <2>4. Passed' = {}
    BY <2>1, <2>2 DEF Passed
  <2> QED
    BY <1>1, <2>1, <2>3, <2>4
<1> QED
  BY <1>2, <1>3

\* A tree with another entry is a tree.
LEMMA WithIsTree ==
    ASSUME NEW t, IsTree(t), NEW p \in Paths, NEW e, e = TreeEntry(e)
    PROVE  /\ IsTree(With(t, p, e)) /\ DOMAIN With(t, p, e) = DOMAIN t \cup {p}
           /\ With(t, p, e)[p] = e
           /\ \A q \in DOMAIN t \ {p} : With(t, p, e)[q] = t[q]
<1> DEFINE u == With(t, p, e)
<1>1. /\ DOMAIN u = DOMAIN t \cup {p} /\ u[p] = e
      /\ \A q \in DOMAIN t \ {p} : u[q] = t[q]
      /\ u = [q \in DOMAIN u |-> u[q]]
  BY DEF With
<1>2. \A q \in DOMAIN t : t[q] = TreeEntry(t[q])
  BY DEF IsTree
<1>3. \A q \in DOMAIN u : u[q] = TreeEntry(u[q])
  BY <1>1, <1>2
<1> HIDE DEF u
<1>4. IsTree(u)
  BY <1>1, <1>3 DEF IsTree
<1> QED
  BY <1>1, <1>4 DEF u

\* A tree without one of its entries is a tree.
LEMMA WithoutIsTree ==
    ASSUME NEW t, IsTree(t), NEW p
    PROVE  IsTree([q \in DOMAIN t \ {p} |-> t[q]])
<1> DEFINE u == [q \in DOMAIN t \ {p} |-> t[q]]
<1>1. /\ DOMAIN u = DOMAIN t \ {p} /\ \A q \in DOMAIN u : u[q] = t[q]
      /\ u = [q \in DOMAIN u |-> u[q]]
  OBVIOUS
<1>2. \A q \in DOMAIN t : t[q] = TreeEntry(t[q])
  BY DEF IsTree
<1> HIDE DEF u
<1>3. IsTree(u)
  BY <1>1, <1>2 DEF IsTree
<1> QED
  BY <1>3 DEF u

\* Trees that differ do so at a path.
LEMMA TreesDiffer ==
    ASSUME NEW t, IsTree(t), NEW u, IsTree(u)
    PROVE  t = u <=> \A p \in Paths : Agree(t, u, p)
<1>1. ASSUME \A p \in Paths : Agree(t, u, p) PROVE t = u
  <2>1. DOMAIN t = DOMAIN u
    BY <1>1 DEF IsTree, Agree
  <2>2. \A p \in DOMAIN t : t[p] = u[p]
    BY <1>1 DEF IsTree, Agree
  <2>3. /\ t = [p \in DOMAIN t |-> TreeEntry(t[p])]
        /\ u = [p \in DOMAIN u |-> TreeEntry(u[p])]
    BY DEF IsTree
  <2> QED
    BY <2>1, <2>2, <2>3
<1> QED
  BY <1>1 DEF Agree

-----------------------------------------------------------------------------
(* Each step of the preparation, and each edit in between. *)

\* A preparation that failed.
LEMMA AbandonKeepsInv == ASSUME MirrorInv, Abandon PROVE MirrorInv'
BY DEF MirrorInv, WalkTyped, FilesInv, LinksInv, Abandon, Walks, IsTree, TreeEntry

\* The start.
LEMMA MirrorInitHasInv == MirrorInit => MirrorInv
<1> SUFFICES ASSUME MirrorInit PROVE MirrorInv
  OBVIOUS
<1>1. IsTree(tree) /\ IsTree(inventory) /\ DOMAIN inventory = {}
  BY TreesAssumption DEF MirrorInit, IsTree, NoTree
<1>2. cursor = 1 /\ cursor \in 1 .. Len(MirrorPaths) /\ Passed = {}
  BY PathFacts DEF MirrorInit, Passed
<1>3. WalkTyped
  BY <1>1, <1>2 DEF MirrorInit, WalkTyped, Walks, Sides
<1>4. FilesInv
  BY DEF MirrorInit, FilesInv, Compared, NoTree
<1>5. LinksInv
  BY <1>2 DEF MirrorInit, LinksInv
<1> QED
  BY <1>3, <1>4, <1>5 DEF MirrorInv

\* An edit: the project is not what the inventory says any more, or the inventory is not
\* complete yet, or the links have been made.
LEMMA EditKeepsInv == ASSUME MirrorInv, EditSource PROVE MirrorInv'
<1>0. /\ walk \notin {"ready", "failed"} /\ tree' # tree /\ edits' = edits + 1
      /\ UNCHANGED <<walk, cursor, side, inventory, copies>>
  BY DEF EditSource
<1>1. IsTree(tree) /\ IsTree(inventory) /\ edits \in Nat
  BY DEF MirrorInv, WalkTyped
<1>2. IsTree(tree')
  <2>1. PICK p \in Paths :
            \/ tree' = [q \in DOMAIN tree \ {p} |-> tree[q]]
            \/ \E e \in EditedEntries : tree' = With(tree, p, e)
    BY DEF EditSource
  <2>2. CASE tree' = [q \in DOMAIN tree \ {p} |-> tree[q]]
    BY <1>1, <2>2, WithoutIsTree
  <2>3. CASE \E e \in EditedEntries : tree' = With(tree, p, e)
    <3>1. PICK e \in EditedEntries : tree' = With(tree, p, e)
      BY <2>3
    <3>2. e = TreeEntry(e)
      BY TreesAssumption
    <3> QED
      BY <1>1, <3>1, <3>2, WithIsTree
  <2> QED
    BY <2>1, <2>2, <2>3
<1>3. WalkTyped'
  BY <1>0, <1>1, <1>2 DEF MirrorInv, WalkTyped, Passed
<1>4. FilesInv'
  BY <1>0 DEF MirrorInv, FilesInv, Compared, Complete, CopiedInventory
<1>5. ASSUME edits' <= 1, walk' \notin {"inventory", "failed"}
      PROVE  \/ walk' \in {"verify", "ready"} /\ (\A s \in Sides : LinksRight(s, Paths))'
             \/ (\E p \in Unverified : ~Agree(tree, inventory, p))'
  <2>1. edits = 0 /\ tree = inventory
    BY <1>0, <1>1, <1>5 DEF MirrorInv, LinksInv
  <2>2. \A p \in Paths : Agree(tree, inventory, p)
    BY <1>1, <2>1, TreesDiffer
  <2>3. Unverified \subseteq Paths
    BY DEF Unverified
  <2>4. Undisturbed \/ (\A s \in Sides : LinksRight(s, Paths))
    BY <1>0, <1>5, <2>1, <2>2, <2>3 DEF MirrorInv, LinksInv
  <2>5. CASE walk = "verify"
    <3>1. \A s \in Sides : LinksRight(s, Paths)
      BY <2>4, <2>5 DEF Undisturbed, Linked, Compared
    <3> QED
      BY <1>0, <2>5, <3>1 DEF LinksRight, InventoryLinks, CopiedInventory, Leads
  <2>6. CASE walk # "verify"
    <3>1. PICK p \in Paths : ~Agree(tree', inventory', p)
      BY <1>0, <1>1, <1>2, <2>1, TreesDiffer
    <3>2. p \in Unverified'
      BY <1>0, <2>6 DEF Unverified
    <3> QED
      BY <3>1, <3>2
  <2> QED
    BY <2>5, <2>6
<1>6. LinksInv'
  BY <1>0, <1>1, <1>5 DEF LinksInv
<1> QED
  BY <1>3, <1>4, <1>6 DEF MirrorInv

\* The inventory takes over the entry at the next path, if there is one.
LEMMA InventoryKeepsInv ==
    ASSUME MirrorInv, walk = "inventory", Advance("links"), UNCHANGED <<tree, edits, side, copies>>,
           inventory' = IF Here \in DOMAIN tree THEN With(inventory, Here, tree[Here]) ELSE inventory
    PROVE  MirrorInv'
<1>1. /\ IsTree(tree) /\ IsTree(inventory) /\ cursor \in 1 .. Len(MirrorPaths) /\ Here \in Paths
      /\ DOMAIN inventory \subseteq Passed /\ side = "baseline" /\ edits \in Nat
      /\ copies = [s \in Sides |-> copies[s]]
  BY PathFacts DEF MirrorInv, WalkTyped
<1>2. /\ cursor' \in 1 .. Len(MirrorPaths)
      /\ \/ walk' = walk /\ Passed' = Passed \cup {Here}
         \/ walk' = "links" /\ cursor' = 1 /\ Passed' = {} /\ Paths = Passed \cup {Here}
  BY <1>1, AdvancePasses
<1>3. /\ IsTree(inventory') /\ DOMAIN inventory' \subseteq Passed \cup {Here}
      /\ Here \in DOMAIN tree => Here \in DOMAIN inventory' /\ inventory'[Here] = tree[Here]
      /\ Here \notin DOMAIN tree => inventory' = inventory
      /\ \A p \in Passed \ {Here} : p \in DOMAIN inventory' <=> p \in DOMAIN inventory
      /\ \A p \in DOMAIN inventory \ {Here} : inventory'[p] = inventory[p]
  <2>1. CASE Here \in DOMAIN tree
    <3>1. tree[Here] = TreeEntry(tree[Here])
      BY <1>1, <2>1 DEF IsTree
    <3>2. inventory' = With(inventory, Here, tree[Here])
      BY <2>1
    <3>3. /\ IsTree(inventory') /\ DOMAIN inventory' = DOMAIN inventory \cup {Here}
          /\ inventory'[Here] = tree[Here]
          /\ \A q \in DOMAIN inventory \ {Here} : inventory'[q] = inventory[q]
      <4>1. ASSUME NEW e, e = TreeEntry(e), inventory' = With(inventory, Here, e)
            PROVE  /\ IsTree(inventory') /\ DOMAIN inventory' = DOMAIN inventory \cup {Here}
                   /\ inventory'[Here] = e
                   /\ \A q \in DOMAIN inventory \ {Here} : inventory'[q] = inventory[q]
        <5>1. /\ IsTree(With(inventory, Here, e))
              /\ DOMAIN With(inventory, Here, e) = DOMAIN inventory \cup {Here}
              /\ With(inventory, Here, e)[Here] = e
              /\ \A q \in DOMAIN inventory \ {Here} : With(inventory, Here, e)[q] = inventory[q]
          <6>1. IsTree(inventory) /\ Here \in Paths
            BY <1>1
          <6> QED
            BY <6>1, <4>1, WithIsTree
        <5> QED
          BY <4>1, <5>1
      <4> QED
        BY <3>1, <3>2, <4>1
    <3> QED
      BY <1>1, <2>1, <3>3
  <2>2. CASE Here \notin DOMAIN tree
    BY <1>1, <2>2
  <2> QED
    BY <2>1, <2>2
<1>4. WalkTyped'
  BY <1>1, <1>2, <1>3 DEF MirrorInv, WalkTyped, Walks
<1>5. FilesInv'
  BY <1>1, <1>2 DEF MirrorInv, FilesInv, Compared
<1>6. ASSUME edits = 0 PROVE \A p \in Passed \cup {Here} : Agree(tree, inventory', p)
  <2>1. \A p \in Passed : Agree(tree, inventory, p)
    BY <1>6 DEF MirrorInv, LinksInv
  <2>2. Agree(tree, inventory', Here)
    BY <1>1, <1>3, <2>1 DEF Agree
  <2>3. \A p \in Passed \ {Here} : Agree(tree, inventory', p)
    BY <1>3, <2>1 DEF Agree
  <2> QED
    BY <2>2, <2>3
<1>7. CASE walk' = walk /\ Passed' = Passed \cup {Here}
  BY <1>4, <1>5, <1>6, <1>7 DEF MirrorInv, LinksInv
<1>8. CASE walk' = "links" /\ cursor' = 1 /\ Passed' = {} /\ Paths = Passed \cup {Here}
  <2>1. edits = 0 => tree = inventory'
    BY <1>1, <1>3, <1>6, <1>8, TreesDiffer
  <2>2. Undisturbed'
    BY <1>1, <1>8 DEF Undisturbed, Linked, Compared
  <2>3. tree = inventory' \/ \E p \in Paths : ~Agree(tree, inventory', p)
    BY <1>1, <1>3, TreesDiffer
  <2>4. Unverified' = Paths
    BY <1>8 DEF Unverified
  <2>5. LinksInv'
    BY <1>8, <2>1, <2>2, <2>3, <2>4 DEF LinksInv
  <2> QED
    BY <1>4, <1>5, <2>5 DEF MirrorInv
<1> QED
  BY <1>2, <1>7, <1>8

\* What the steps behind the inventory have in common: they change neither the project nor the
\* inventory, so what is known of the links needs a proof only for a project that is what the
\* inventory says.
LEMMA LaterLinks ==
    ASSUME MirrorInv, walk \notin {"inventory", "verify", "failed"}, walk' \notin {"inventory", "failed"},
           UNCHANGED <<tree, edits, inventory>>, walk' \in {"verify", "ready"} => Passed' = {},
           walk' # "ready", walk # "ready",
           tree = inventory /\ Undisturbed => Undisturbed'
    PROVE  LinksInv'
<1>1. Unverified \subseteq Unverified'
  BY DEF Unverified
<1> QED
  BY <1>1 DEF MirrorInv, LinksInv

\* A link of the inventory that leads to what is copied.
LEMMA CheckKeepsInv ==
    ASSUME MirrorInv, walk = "links", Advance("copy"), UNCHANGED <<tree, edits, side, inventory, copies>>,
           Here \in InventoryLinks => Here \in DOMAIN tree /\ contains(RealPath(tree, Here))
    PROVE  MirrorInv'
<1>1. /\ cursor \in 1 .. Len(MirrorPaths) /\ side = "baseline"
      /\ IsTree(tree) /\ IsTree(inventory)
  BY DEF MirrorInv, WalkTyped
<1>2. /\ cursor' \in 1 .. Len(MirrorPaths)
      /\ \/ walk' = walk /\ Passed' = Passed \cup {Here}
         \/ walk' = "copy" /\ cursor' = 1 /\ Passed' = {} /\ Paths = Passed \cup {Here}
  BY <1>1, AdvancePasses
<1>3. WalkTyped'
  BY <1>1, <1>2 DEF MirrorInv, WalkTyped, Walks
<1>4. FilesInv'
  BY <1>1, <1>2 DEF MirrorInv, FilesInv, Compared
<1>5. ASSUME tree = inventory, Undisturbed PROVE Undisturbed'
  <2>1. \A p \in InventoryLinks \cap (Passed \cup {Here}) : Leads(p)
    BY <1>5 DEF Undisturbed, Leads
  <2>2. InventoryLinks' = InventoryLinks /\ \A p : Leads(p)' <=> Leads(p)
    BY DEF InventoryLinks, CopiedInventory, Leads
  <2>3. InventoryLinks \subseteq Paths /\ Linked' = {}
    BY <1>1, <1>2 DEF InventoryLinks, CopiedInventory, IsTree, Linked, Compared
  <2> QED
    BY <1>2, <2>1, <2>2, <2>3 DEF Undisturbed
<1>6. LinksInv'
  BY <1>2, <1>5, LaterLinks
<1> QED
  BY <1>3, <1>4, <1>6 DEF MirrorInv

\* One of the copies gets an entry of the project.
LEMMA CopyKeepsInv ==
    ASSUME MirrorInv, walk = "copy", Advance("relink"), UNCHANGED <<tree, edits, side, inventory>>,
           copies' = IF copied(Here) /\ Here \in DOMAIN tree
                     THEN [copies EXCEPT ![side] = With(@, Here, tree[Here])] ELSE copies
    PROVE  MirrorInv'
<1>1. /\ cursor \in 1 .. Len(MirrorPaths) /\ side \in Sides
      /\ IsTree(tree) /\ IsTree(inventory) /\ copies = [s \in Sides |-> copies[s]]
  BY DEF MirrorInv, WalkTyped
<1>2. /\ cursor' \in 1 .. Len(MirrorPaths)
      /\ \/ walk' = walk /\ Passed' = Passed \cup {Here}
         \/ walk' = "relink" /\ cursor' = 1 /\ Passed' = {} /\ Paths = Passed \cup {Here}
  BY <1>1, AdvancePasses
<1>3. /\ copies' = [s \in Sides |-> copies'[s]]
      /\ \A s \in Sides \ {side} : copies'[s] = copies[s]
      /\ \/ copies'[side] = copies[side]
         \/ Here \in DOMAIN tree /\ copies'[side] = With(copies[side], Here, tree[Here])
  <2>1. CASE copied(Here) /\ Here \in DOMAIN tree
    <3>1. copies' = [copies EXCEPT ![side] = With(copies[side], Here, tree[Here])]
      BY <2>1
    <3> QED
      BY <1>1, <2>1, <3>1
  <2>2. CASE ~(copied(Here) /\ Here \in DOMAIN tree)
    <3>1. copies' = copies
      BY <2>2
    <3> QED
      BY <1>1, <3>1
  <2> QED
    BY <2>1, <2>2
<1>4. WalkTyped'
  BY <1>1, <1>2, <1>3 DEF MirrorInv, WalkTyped, Walks
<1>5. Compared' = Compared /\ Linked' = Compared /\ Linked = Compared /\ side \notin Compared
  BY <1>1, <1>2 DEF Linked, Compared
<1>6. \A s \in Sides : \A p \in DOMAIN copies'[s] : copies'[s][p] = TreeEntry(copies'[s][p])
  <2>1. \A s \in Sides : \A p \in DOMAIN copies[s] : copies[s][p] = TreeEntry(copies[s][p])
    BY DEF MirrorInv, FilesInv
  <2>2. Here \in DOMAIN tree => tree[Here] = TreeEntry(tree[Here])
    BY <1>1 DEF IsTree
  <2>3. \A p \in DOMAIN copies'[side] : copies'[side][p] = TreeEntry(copies'[side][p])
    BY <1>1, <1>3, <2>1, <2>2 DEF With
  <2> QED
    BY <1>3, <2>1, <2>3
<1>7. FilesInv'
  <2>1. \A s \in Compared : Complete(copies[s])
    BY DEF MirrorInv, FilesInv
  <2>2. ASSUME NEW s \in Compared PROVE Complete(copies[s])'
    <3>1. copies'[s] = copies[s]
      BY <1>3, <1>5, <2>2 DEF Compared
    <3> QED
      BY <2>1, <2>2, <3>1 DEF Complete, CopiedInventory
  <2> QED
    BY <1>5, <1>6, <2>2 DEF FilesInv
<1>8. ASSUME tree = inventory, Undisturbed PROVE Undisturbed'
  <2>1. InventoryLinks' = InventoryLinks /\ \A p : Leads(p)' <=> Leads(p)
    BY DEF InventoryLinks, CopiedInventory, Leads
  <2>2. \A s \in Linked' : LinksRight(s, Paths)'
    <3>1. \A s \in Compared : LinksRight(s, Paths) /\ copies'[s] = copies[s]
      BY <1>3, <1>5, <1>8 DEF Undisturbed, Compared
    <3> QED
      BY <1>5, <2>1, <3>1 DEF LinksRight
  <2>3. LinksRight(side, {})'
    BY DEF LinksRight
  <2> QED
    BY <1>2, <1>8, <2>1, <2>2, <2>3 DEF Undisturbed
<1>9. LinksInv'
  BY <1>2, <1>8, LaterLinks
<1> QED
  BY <1>4, <1>7, <1>9 DEF MirrorInv

\* One of its links is made anew.
LEMMA RelinkKeepsInv ==
    ASSUME MirrorInv, walk = "relink", Advance("compare"), UNCHANGED <<tree, edits, side, inventory>>,
           Here \in InventoryLinks => Here \in DOMAIN copies[side],
           copies' = IF Here \in InventoryLinks
                     THEN [copies EXCEPT ![side][Here] = [kind |-> "link", value |-> RealPath(tree, Here)]]
                     ELSE copies
    PROVE  MirrorInv'
<1>1. /\ cursor \in 1 .. Len(MirrorPaths) /\ side \in Sides
      /\ IsTree(tree) /\ IsTree(inventory) /\ copies = [s \in Sides |-> copies[s]]
  BY DEF MirrorInv, WalkTyped
<1>2. /\ cursor' \in 1 .. Len(MirrorPaths)
      /\ \/ walk' = walk /\ Passed' = Passed \cup {Here}
         \/ walk' = "compare" /\ cursor' = 1 /\ Passed' = {} /\ Paths = Passed \cup {Here}
  BY <1>1, AdvancePasses
<1> DEFINE link == [kind |-> "link", value |-> RealPath(tree, Here)]
<1>3. /\ copies' = [s \in Sides |-> copies'[s]]
      /\ \A s \in Sides \ {side} : copies'[s] = copies[s]
      /\ DOMAIN copies'[side] = DOMAIN copies[side]
      /\ \A p \in DOMAIN copies[side] :
            copies'[side][p] = IF p = Here /\ Here \in InventoryLinks THEN link ELSE copies[side][p]
  <2>1. CASE Here \in InventoryLinks
    <3>1. copies' = [copies EXCEPT ![side] = [copies[side] EXCEPT ![Here] = link]]
      BY <2>1
    <3> HIDE DEF link
    <3> QED
      BY <1>1, <2>1, <3>1
  <2>2. CASE Here \notin InventoryLinks
    <3>1. copies' = copies
      BY <2>2
    <3> QED
      BY <1>1, <2>2, <3>1
  <2> QED
    BY <2>1, <2>2
<1>4. WalkTyped'
  BY <1>1, <1>2, <1>3 DEF MirrorInv, WalkTyped, Walks
<1>5. /\ Compared' = Compared /\ Linked = Compared /\ side \notin Compared
      /\ Linked' = IF walk' = "compare" THEN Compared \cup {side} ELSE Compared
  BY <1>1, <1>2 DEF Linked, Compared
<1>6. \A s \in Sides : \A p \in DOMAIN copies'[s] : copies'[s][p] = TreeEntry(copies'[s][p])
  <2>1. \A s \in Sides : \A p \in DOMAIN copies[s] : copies[s][p] = TreeEntry(copies[s][p])
    BY DEF MirrorInv, FilesInv
  <2>2. link = TreeEntry(link)
    BY DEF TreeEntry
  <2> HIDE DEF link
  <2> QED
    BY <1>1, <1>3, <2>1, <2>2
<1>7. FilesInv'
  <2>1. \A s \in Compared : Complete(copies[s])
    BY DEF MirrorInv, FilesInv
  <2>2. ASSUME NEW s \in Compared PROVE Complete(copies[s])'
    <3>1. copies'[s] = copies[s]
      BY <1>3, <1>5, <2>2 DEF Compared
    <3> QED
      BY <2>1, <2>2, <3>1 DEF Complete, CopiedInventory
  <2> QED
    BY <1>5, <1>6, <2>2 DEF FilesInv
<1>8. ASSUME tree = inventory, Undisturbed PROVE Undisturbed'
  <2>1. InventoryLinks' = InventoryLinks /\ \A p : Leads(p)' <=> Leads(p)
    BY DEF InventoryLinks, CopiedInventory, Leads
  <2>2. \A p \in InventoryLinks \cap (Passed \cup {Here}) :
            copies'[side][p].value = RealPath(inventory, p) /\ Leads(p)
    <3>1. ASSUME NEW p \in InventoryLinks, p \in Passed \cup {Here}
          PROVE  copies'[side][p].value = RealPath(inventory, p) /\ Leads(p)
      <4>1. Leads(p)
        BY <1>8, <3>1 DEF Undisturbed
      <4>2. CASE p = Here
        <5>1. copies'[side][p] = link
          BY <1>3, <3>1, <4>2
        <5> QED
          BY <1>8, <4>1, <4>2, <5>1
      <4>3. CASE p # Here
        <5>1. copies[side][p].value = RealPath(inventory, p)
          BY <1>8, <3>1, <4>3 DEF Undisturbed, LinksRight
        <5>2. copies'[side][p] = copies[side][p]
          BY <1>3, <4>3
        <5> QED
          BY <4>1, <5>1, <5>2
      <4> QED
        BY <4>2, <4>3
    <3> QED
      BY <3>1
  <2>3. \A s \in Compared : LinksRight(s, Paths)'
    <3>1. \A s \in Compared : LinksRight(s, Paths) /\ copies'[s] = copies[s]
      BY <1>3, <1>5, <1>8 DEF Undisturbed, Compared
    <3> QED
      BY <2>1, <3>1 DEF LinksRight
  <2>4. CASE walk' = walk /\ Passed' = Passed \cup {Here}
    <3>1. LinksRight(side, Passed)'
      BY <2>1, <2>2, <2>4 DEF LinksRight
    <3> QED
      BY <1>5, <1>8, <2>1, <2>3, <2>4, <3>1 DEF Undisturbed
  <2>5. CASE walk' = "compare" /\ Paths = Passed \cup {Here}
    <3>1. LinksRight(side, Paths)'
      BY <2>1, <2>2, <2>5 DEF LinksRight
    <3> QED
      BY <1>5, <1>8, <2>1, <2>3, <2>5, <3>1 DEF Undisturbed
  <2> QED
    BY <1>2, <2>4, <2>5
<1>9. LinksInv'
  BY <1>2, <1>8, LaterLinks
<1> QED
  BY <1>4, <1>7, <1>9 DEF MirrorInv

\* A copy that has the files of the inventory; the next copy, or the comparison at the end.
LEMMA CompareKeepsInv ==
    ASSUME MirrorInv, walk = "compare", UNCHANGED <<tree, edits, cursor, inventory, copies>>,
           side' = "candidate", walk' = IF side = "baseline" THEN "copy" ELSE "verify",
           DOMAIN copies[side] = CopiedInventory,
           \A p \in CopiedInventory :
                /\ copies[side][p].kind = inventory[p].kind
                /\ copies[side][p].kind = "file" => copies[side][p].value = inventory[p].value
    PROVE  MirrorInv'
<1>1. /\ cursor = 1 /\ side \in Sides /\ IsTree(inventory) /\ "candidate" \in Sides
      /\ copies = [s \in Sides |-> copies[s]]
  BY DEF MirrorInv, WalkTyped, Sides
<1>2. WalkTyped'
  BY <1>1 DEF MirrorInv, WalkTyped, Walks
<1>3. /\ Compared' = Compared \cup {side} /\ Linked' = Compared \cup {side}
      /\ Linked = Compared \cup {side}
  BY <1>1 DEF Linked, Compared, Sides
<1>4. Complete(copies[side])
  <2>1. \A p \in DOMAIN copies[side] : copies[side][p] = TreeEntry(copies[side][p])
    BY <1>1 DEF MirrorInv, FilesInv
  <2>2. ASSUME NEW p \in CopiedInventory, inventory[p].kind = "file"
        PROVE  copies[side][p] = TreeEntry(inventory[p])
    <3>1. copies[side][p] = TreeEntry(copies[side][p])
      BY <2>1
    <3>2. copies[side][p].kind = inventory[p].kind /\ copies[side][p].value = inventory[p].value
      BY <2>2
    <3> QED
      BY <3>1, <3>2 DEF TreeEntry
  <2> QED
    BY <2>2 DEF Complete
<1>5. FilesInv'
  <2>1. \A s \in Compared \cup {side} : Complete(copies[s])
    BY <1>4 DEF MirrorInv, FilesInv
  <2> QED
    BY <1>3, <2>1 DEF MirrorInv, FilesInv, Complete, CopiedInventory
<1>6. ASSUME tree = inventory, Undisturbed PROVE Undisturbed'
  <2>1. InventoryLinks' = InventoryLinks /\ \A p : Leads(p)' <=> Leads(p)
    BY DEF InventoryLinks, CopiedInventory, Leads
  <2>2. \A s \in Linked' : LinksRight(s, Paths)'
    BY <1>3, <1>6, <2>1 DEF Undisturbed, LinksRight
  <2> QED
    BY <1>6, <2>1, <2>2 DEF Undisturbed
<1>7. Passed' = {}
  BY <1>1 DEF Passed
<1>8. LinksInv'
  BY <1>6, <1>7, LaterLinks
<1> QED
  BY <1>2, <1>5, <1>8 DEF MirrorInv

\* The project agrees with the inventory at one more path.
LEMMA VerifyKeepsInv ==
    ASSUME MirrorInv, walk = "verify", Advance("ready"), UNCHANGED <<tree, edits, side, inventory, copies>>,
           Agree(tree, inventory, Here)
    PROVE  MirrorInv'
<1>1. cursor \in 1 .. Len(MirrorPaths) /\ side = "candidate"
  BY DEF MirrorInv, WalkTyped
<1>2. /\ cursor' \in 1 .. Len(MirrorPaths)
      /\ \/ walk' = walk /\ Passed' = Passed \cup {Here}
         \/ walk' = "ready" /\ cursor' = 1 /\ Passed' = {} /\ Paths = Passed \cup {Here}
  BY <1>1, AdvancePasses
<1>3. WalkTyped'
  BY <1>1, <1>2 DEF MirrorInv, WalkTyped, Walks
<1>4. FilesInv'
  BY <1>1, <1>2 DEF MirrorInv, FilesInv, Compared, Complete, CopiedInventory
<1>5. InventoryLinks' = InventoryLinks /\ \A p : Leads(p)' <=> Leads(p)
  BY DEF InventoryLinks, CopiedInventory, Leads
<1>6. (\A s \in Sides : LinksRight(s, Paths)) => (\A s \in Sides : LinksRight(s, Paths))'
  BY <1>5 DEF LinksRight
<1>7. Undisturbed => Undisturbed'
  BY <1>1, <1>2, <1>5 DEF Undisturbed, LinksRight, Linked, Compared
<1>8. ASSUME NEW p \in Unverified, ~Agree(tree, inventory, p)
      PROVE  p \in Unverified' /\ ~Agree(tree, inventory, p)'
  BY <1>2, <1>8 DEF Unverified, Agree
<1>9. LinksInv'
  BY <1>2, <1>6, <1>7, <1>8 DEF MirrorInv, LinksInv
<1> QED
  BY <1>3, <1>4, <1>9 DEF MirrorInv

\* Each step is one of these.
LEMMA MirrorNextKeepsInv == MirrorInv /\ [MirrorNext]_mirrorVars => MirrorInv'
<1> SUFFICES ASSUME MirrorInv, [MirrorNext]_mirrorVars PROVE MirrorInv'
  OBVIOUS
<1>1. CASE EditSource
  BY <1>1, EditKeepsInv
<1>2. CASE TakeInventory
  BY <1>2, AbandonKeepsInv, InventoryKeepsInv DEF TakeInventory
<1>3. CASE CheckLink
  BY <1>3, AbandonKeepsInv, CheckKeepsInv DEF CheckLink, InventoryLinks
<1>4. CASE CopyEntry
  BY <1>4, CopyKeepsInv DEF CopyEntry
<1>5. CASE Relink
  BY <1>5, AbandonKeepsInv, RelinkKeepsInv DEF Relink, InventoryLinks
<1>6. CASE CompareCopy
  BY <1>6, AbandonKeepsInv, CompareKeepsInv DEF CompareCopy
<1>7. CASE VerifySource
  BY <1>7, AbandonKeepsInv, VerifyKeepsInv DEF VerifySource, SameEntry, Agree
<1>8. CASE UNCHANGED mirrorVars
  BY <1>8 DEF mirrorVars, MirrorInv, WalkTyped, FilesInv, LinksInv, Undisturbed, Linked, Compared, Complete,
              LinksRight, InventoryLinks, CopiedInventory, Leads, Unverified, Agree, Passed, IsTree
<1> QED
  BY <1>1, <1>2, <1>3, <1>4, <1>5, <1>6, <1>7, <1>8 DEF MirrorNext

-----------------------------------------------------------------------------

\* However many paths the project has and however it is edited: what prepareMirrors returns agrees
\* with the inventory, in its files always and in its links unless two edits hid each other.
THEOREM MirrorsAlike == MirrorSpec => []MirrorsAgree
<1>1. MirrorInv => MirrorsAgree
  <2> SUFFICES ASSUME MirrorInv PROVE MirrorsAgree
    OBVIOUS
  <2>1. walk = "failed" => copies = <<>>
    BY DEF MirrorInv, WalkTyped
  <2>2. ASSUME walk = "ready", NEW s \in Sides
        PROVE  /\ DOMAIN copies[s] = CopiedInventory
               /\ \A p \in CopiedInventory :
                    /\ copies[s][p].kind = inventory[p].kind
                    /\ inventory[p].kind = "file" => copies[s][p] = inventory[p]
                    /\ inventory[p].kind = "link" /\ edits <= 1 =>
                        copies[s][p].value = RealPath(inventory, p) /\ contains(copies[s][p].value)
    <3>1. Complete(copies[s])
      BY <2>2 DEF MirrorInv, FilesInv, Compared
    <3>2. \A p \in CopiedInventory : inventory[p] = TreeEntry(inventory[p]) /\ p \in Paths
      BY DEF MirrorInv, WalkTyped, IsTree, CopiedInventory
    <3>3. edits <= 1 => LinksRight(s, Paths)
      BY <2>2 DEF MirrorInv, LinksInv, Undisturbed, Linked, Compared, Unverified
    <3>4. ASSUME NEW p \in CopiedInventory, inventory[p].kind = "link", edits <= 1
          PROVE  copies[s][p].value = RealPath(inventory, p) /\ contains(RealPath(inventory, p))
      BY <3>2, <3>3, <3>4 DEF LinksRight, InventoryLinks, Leads
    <3> QED
      BY <3>1, <3>2, <3>4 DEF Complete
  <2> QED
    BY <2>1, <2>2 DEF MirrorsAgree
<1> QED
  BY <1>1, MirrorInitHasInv, MirrorNextKeepsInv, PTL DEF MirrorSpec

-----------------------------------------------------------------------------
(* The fixtures of the upstream tests.  As long as nothing has failed, the *)
(* current rule is that of the mapping between two runs, and in a run it   *)
(* is the one that the cases are saved under; whatever fails may leave a   *)
(* wrong one, but then the import fails.                                   *)

ImportSpec == ImportInit /\ [][ImportNext]_importVars

Attributed(f) == <<f.rule, f.target>> = f.meant

\* The rules while a test file is run.
RuleInPlace ==
    /\ saving = Idle => Current = Own
    /\ saving # Idle =>
           saving = [cases |-> saving.cases, after |-> {Own}, meant |-> Current]

ImportInv ==
    /\ importer \in {"mapping", "running", "writing"} => \E S : capture \in Seq(S)
    /\ frames = <<>> \/ importer # "running" => saving = Idle
    /\ importer = "imported" => failures = {}
    /\ failures = {} =>
           /\ \A i \in DOMAIN capture : Attributed(capture[i])
           /\ importer = "running" => RuleInPlace

\* A fixture that is added to a sequence of them.
LEMMA FixtureAdded ==
    ASSUME NEW c, \E S : c \in Seq(S), NEW f
    PROVE  /\ \E S : Append(c, f) \in Seq(S)
           /\ \A i \in DOMAIN Append(c, f) :
                  (i \in DOMAIN c /\ Append(c, f)[i] = c[i]) \/ Append(c, f)[i] = f
<1>1. PICK S : c \in Seq(S)
  OBVIOUS
<1> DEFINE T == S \cup {f}
<1>2. c \in Seq(T) /\ f \in T
  <2>1. DOMAIN c = 1 .. Len(c) /\ Len(c) \in Nat /\ \A i \in 1 .. Len(c) : c[i] \in S
    BY <1>1
  <2>2. c = [i \in 1 .. Len(c) |-> c[i]]
    BY <1>1
  <2>3. \A i \in 1 .. Len(c) : c[i] \in T
    BY <2>1
  <2> HIDE DEF T
  <2>4. [i \in 1 .. Len(c) |-> c[i]] \in Seq(T)
    BY <2>1, <2>3
  <2> QED
    BY <2>2, <2>4 DEF T
<1> HIDE DEF T
<1>3. Append(c, f) \in Seq(T)
  BY <1>2
<1>4. \A i \in DOMAIN Append(c, f) :
          (i \in DOMAIN c /\ Append(c, f)[i] = c[i]) \/ Append(c, f)[i] = f
  BY <1>2
<1> QED
  BY <1>3, <1>4

LEMMA ImportInitHasInv == ImportInit => ImportInv
<1> SUFFICES ASSUME ImportInit PROVE ImportInv
  OBVIOUS
<1>1. capture = <<>> /\ saving = Idle /\ importer = "mapping"
  BY DEF ImportInit
<1>3. \A i \in DOMAIN capture : FALSE
  BY <1>1
<1>2. \E S : capture \in Seq(S)
  <2>1. <<>> \in Seq({})
    OBVIOUS
  <2> QED
    BY <1>1, <2>1
<1> QED
  BY <1>1, <1>2, <1>3 DEF ImportInv

LEMMA LoopsKeepInv ==
    ASSUME ImportInv, NextMapping \/ NextFile
    PROVE  ImportInv'
<1>1. saving = Idle /\ saving' = saving /\ capture' = capture
  BY DEF ImportInv, NextMapping, NextFile
<1>2. CASE NextMapping
  <2>1. /\ importer = "mapping" /\ failures' = failures
        /\ importer' \in {"writing", "running"} /\ (importer' = "running" => Current' = Own')
    BY <1>2 DEF NextMapping, Current, Own, Mapping
  <2> QED
    BY <1>1, <2>1 DEF ImportInv, RuleInPlace
<1>3. CASE NextFile
  <2>1. /\ importer = "running" /\ importer' \in {"mapping", "running"}
        /\ importer' = "running" => Current' = Current /\ Own' = Own
        /\ failures' = {} => failures = {}
    BY <1>3 DEF NextFile, Current, Own, Mapping
  <2> QED
    BY <1>1, <2>1 DEF ImportInv, RuleInPlace
<1> QED
  BY <1>2, <1>3

LEMMA StatementsKeepInv ==
    ASSUME ImportInv, Run \/ CaptureRun \/ Require \/ EndProgram
    PROVE  ImportInv'
<1>1. /\ importer = "running" /\ frames # <<>> /\ saving = Idle
      /\ UNCHANGED <<suite, capture, importer>> /\ Own' = Own
  BY DEF Run, CaptureRun, Require, EndProgram, AtStatement, Running, Own, Mapping
<1>2. CASE CaptureRun \/ EndProgram
  <2>1. /\ UNCHANGED <<frames, failures>> /\ Current' = Current
        /\ \E c : saving' = [cases |-> c, after |-> {Current}, meant |-> Own]
    BY <1>2 DEF CaptureRun, EndProgram, SaveAll, Current
  <2>2. PICK c : saving' = [cases |-> c, after |-> {Current}, meant |-> Own]
    BY <2>1
  <2>3. saving' # Idle /\ saving'.cases = c
    BY <2>2 DEF Idle
  <2> QED
    BY <1>1, <2>1, <2>2, <2>3 DEF ImportInv, RuleInPlace
<1>3. CASE Run
  <2> DEFINE known == Statement.name \in DOMAIN Catalogued
             named == <<Statement.name, Catalogued[Statement.name]>>
             during == IF known /\ Statement.name # currentRule THEN named ELSE Current
             meant == IF known /\ Statement.name # Mapping.source THEN named ELSE Own
  <2>1. /\ UNCHANGED <<frames, failures>> /\ Current' = during
        /\ saving' = [cases |-> Statement.cases, after |-> {Current}, meant |-> meant]
    BY <1>3 DEF Run, SaveAll, Current
  <2>2. Current = Own => during = meant
    BY DEF Current, Own
  <2> HIDE DEF during, meant
  <2>3. saving' # Idle /\ saving'.cases = Statement.cases
    BY <2>1 DEF Idle
  <2> QED
    BY <1>1, <2>1, <2>2, <2>3 DEF ImportInv, RuleInPlace
<1>4. CASE Require
  <2>1. saving' = saving /\ Current' = Current /\ (failures' = {} => failures = {})
    BY <1>4 DEF Require, Return, ThrowOut, Current
  <2> QED
    BY <1>1, <2>1 DEF ImportInv, RuleInPlace
<1> QED
  BY <1>2, <1>3, <1>4

LEMMA SavingKeepsInv ==
    ASSUME ImportInv, save \/ Saved
    PROVE  ImportInv'
<1>1. /\ importer = "running" /\ frames # <<>> /\ saving # Idle
      /\ UNCHANGED <<suite, importer>> /\ Own' = Own
  BY DEF save, Saved, ImportInv, Own, Mapping
<1>2. CASE save
  <2> DEFINE item == [rule |-> currentRule, target |-> currentTarget, code |-> Head(saving.cases).code,
                      origin |-> currentSource, meant |-> saving.meant]
  <2>1. /\ capture' = Append(capture, item) \/ capture' = capture
        /\ Current' = Current
        /\ \/ failures' # {} /\ saving' = Idle
           \/ saving' = [saving EXCEPT !.cases = Tail(@)] /\ UNCHANGED <<frames, failures>>
    BY <1>2 DEF save, ThrowOut, Current
  <2>2. saving = [cases |-> saving.cases, after |-> {Own}, meant |-> Current] => Attributed(item)
    BY DEF Attributed, Current
  <2> HIDE DEF item
  <2>3. /\ \E S : capture' \in Seq(S)
        /\ \A i \in DOMAIN capture' :
               (i \in DOMAIN capture /\ capture'[i] = capture[i]) \/ capture'[i] = item
    <3>1. \E S : capture \in Seq(S)
      BY <1>1 DEF ImportInv
    <3>2. CASE capture' = capture
      BY <3>1, <3>2
    <3>3. CASE capture' = Append(capture, item)
      BY <3>1, <3>3, FixtureAdded
    <3> QED
      BY <2>1, <3>2, <3>3
  <2>4. ASSUME failures' = {} PROVE (\A i \in DOMAIN capture' : Attributed(capture'[i])) /\ RuleInPlace'
    <3>1. failures = {} /\ saving' = [saving EXCEPT !.cases = Tail(@)]
      BY <2>1, <2>4
    <3>2. /\ saving = [cases |-> saving.cases, after |-> {Own}, meant |-> Current]
          /\ \A i \in DOMAIN capture : Attributed(capture[i])
      BY <1>1, <3>1 DEF ImportInv, RuleInPlace
    <3>3. saving' = [cases |-> Tail(saving.cases), after |-> {Own}, meant |-> Current]
      <4> DEFINE c == saving.cases
                 a == {Own}
                 m == Current
      <4>1. saving = [cases |-> c, after |-> a, meant |-> m]
        BY <3>2
      <4> HIDE DEF c, a, m
      <4>2. saving' = [cases |-> Tail(c), after |-> a, meant |-> m]
        BY <3>1, <4>1
      <4> QED
        BY <4>2 DEF c, a, m
    <3>4. saving' # Idle /\ saving'.cases = Tail(saving.cases)
      BY <3>3 DEF Idle
    <3> QED
      BY <1>1, <2>1, <2>2, <2>3, <3>2, <3>3, <3>4 DEF RuleInPlace
  <2>5. frames' = <<>> => saving' = Idle
    BY <1>1, <1>2 DEF save, ThrowOut
  <2> QED
    BY <1>1, <2>3, <2>4, <2>5 DEF ImportInv
<1>3. CASE Saved
  <2>1. /\ UNCHANGED <<capture, failures>> /\ saving' = Idle
        /\ \E previous \in saving.after : currentRule' = previous[1] /\ currentTarget' = previous[2]
    BY <1>3 DEF Saved, Restored
  <2>2. saving.after = {Own} => Current' = Own
    BY <2>1 DEF Current, Own
  <2> QED
    BY <1>1, <2>1, <2>2 DEF ImportInv, RuleInPlace
<1> QED
  BY <1>2, <1>3

LEMMA WriteKeepsInv ==
    ASSUME ImportInv, WriteFixtures
    PROVE  ImportInv'
<1>1. /\ importer' \in {"imported", "failed"} /\ UNCHANGED <<saving, failures>>
      /\ importer = "writing" /\ capture' = [i \in Unique |-> capture[i]]
      /\ importer' = "imported" => failures = {}
  BY DEF WriteFixtures
<1>2. DOMAIN capture' \subseteq DOMAIN capture /\ \A i \in DOMAIN capture' : capture'[i] = capture[i]
  BY <1>1 DEF Unique
<1> QED
  BY <1>1, <1>2 DEF ImportInv

\* Every fixture of an import that succeeded is under the rule that its test program names or that
\* its file is for (CaptureTester.run, evaluate), for any mappings and programs.
THEOREM FixturesAttributed == ImportSpec => []CapturesAttributed
<1>1. ImportInv /\ [ImportNext]_importVars => ImportInv'
  <2>1. CASE UNCHANGED importVars
    BY <2>1 DEF ImportInv, RuleInPlace, importVars, Current, Own, Mapping
  <2> QED
    BY <2>1, LoopsKeepInv, StatementsKeepInv, SavingKeepsInv, WriteKeepsInv DEF ImportNext
<1>2. ImportInv => CapturesAttributed
  BY DEF ImportInv, CapturesAttributed, Attributed
<1> QED
  BY <1>1, <1>2, ImportInitHasInv, PTL DEF ImportSpec

-----------------------------------------------------------------------------
(* The providers of a configuration.                                       *)

ConfigSpec == ConfigInit /\ [][ConfigNext]_configVars

LEMMA GreatestExists ==
    ASSUME NEW n \in Nat, NEW S \in SUBSET (1 .. n), S # {}
    PROVE  \E i \in S : \A j \in S : j <= i
<1> DEFINE T == {n - i : i \in S}
<1>1. T \subseteq Nat /\ T # {}
  <2>1. \A i \in S : n - i \in Nat
    OBVIOUS
  <2> QED
    BY <2>1
<1> DEFINE m == Least(T)
<1>2. m \in T /\ \A k \in T : m <= k
  <2> HIDE DEF T
  <2> QED
    BY <1>1, LeastNat
<1> HIDE DEF m
<1>3. PICK i \in S : m = n - i
  BY <1>2
<1>4. ASSUME NEW j \in S PROVE j <= i
  <2>1. m <= n - j
    BY <1>2
  <2> QED
    BY <1>3, <2>1
<1> QED
  BY <1>4

Layered(ls) == \E n \in Nat : DOMAIN ls = 1 .. n

\* The layers out are made of entries of ls, with all those of the targets that are on somewhere.
EntriesKept(ls, out) ==
    /\ DOMAIN out = DOMAIN ls
    /\ \A i \in DOMAIN ls : \A t :
          /\ t \in DOMAIN out[i] => t \in DOMAIN ls[i] /\ out[i][t] = ls[i][t]
          /\ t \in EnabledAnywhere(ls) /\ t \in DOMAIN ls[i] => t \in DOMAIN out[i]

LEMMA PrunedEntries ==
    ASSUME NEW ls, NEW known, NEW active, active = {ProviderOf[t] : t \in EnabledAnywhere(ls)},
           NEW out,
           out = Pruned(WithoutProviders(ls, known \ active), known)
    PROVE  EntriesKept(ls, out)
<1> DEFINE left == WithoutProviders(ls, known \ active)
<1>1. /\ DOMAIN left = DOMAIN ls
      /\ \A i \in DOMAIN ls :
             /\ DOMAIN left[i] = {u \in DOMAIN ls[i] : ProviderOf[u] \notin known \ active}
             /\ \A t \in DOMAIN left[i] : left[i][t] = ls[i][t]
  BY DEF WithoutProviders
<1>2. out = Pruned(left, known)
  OBVIOUS
<1> HIDE DEF left
<1>3. /\ DOMAIN out = DOMAIN ls
      /\ \A i \in DOMAIN ls :
            /\ DOMAIN out[i] = {u \in DOMAIN left[i] :
                                   \/ u \in Enabled(left[i])
                                   \/ \E j \in DOMAIN ls \ {i} : u \in Enabled(left[j])
                                   \/ ProviderOf[u] \notin known}
            /\ \A t \in DOMAIN out[i] : out[i][t] = left[i][t]
  <2> DEFINE Staying(i) == {u \in DOMAIN left[i] :
                           \/ u \in Enabled(left[i])
                           \/ \E j \in DOMAIN ls \ {i} : u \in Enabled(left[j])
                           \/ ProviderOf[u] \notin known}
  <2>1. out = [i \in DOMAIN ls |-> [t \in Staying(i) |-> left[i][t]]]
    BY <1>1, <1>2 DEF Pruned
  <2> HIDE DEF Staying
  <2>2. /\ DOMAIN out = DOMAIN ls
        /\ \A i \in DOMAIN ls :
              DOMAIN out[i] = Staying(i) /\ \A t \in DOMAIN out[i] : out[i][t] = left[i][t]
    BY <2>1
  <2> QED
    BY <2>2 DEF Staying
<1>4. ASSUME NEW i \in DOMAIN ls, NEW t, t \in EnabledAnywhere(ls), t \in DOMAIN ls[i]
      PROVE  t \in DOMAIN out[i]
  <2>1. PICK j \in DOMAIN ls : t \in Enabled(ls[j])
    BY <1>4 DEF EnabledAnywhere
  <2>2. t \in DOMAIN ls[j] /\ severity(ls[j][t]) > 0
    BY <2>1 DEF Enabled
  <2>3. ProviderOf[t] \in active
    BY <1>4
  <2>4. t \in DOMAIN left[i] /\ t \in DOMAIN left[j] /\ left[j][t] = ls[j][t]
    BY <1>1, <1>4, <2>2, <2>3
  <2>5. t \in Enabled(left[j])
    BY <2>2, <2>4 DEF Enabled
  <2> QED
    BY <1>3, <2>4, <2>5
<1> QED
  BY <1>1, <1>3, <1>4 DEF EntriesKept

\* The setting of a file is one of the entries, or off.
LEMMA EffectiveEntry ==
    ASSUME NEW ls, Layered(ls), NEW ms, NEW t
    PROVE  \/ /\ \A i \in ({1} \cup ms) \cap DOMAIN ls : t \notin DOMAIN ls[i]
              /\ Effective(ls, ms, t) = Off
           \/ \E i \in DOMAIN ls : t \in DOMAIN ls[i] /\ Effective(ls, ms, t) = ls[i][t]
<1> DEFINE found == {i \in ({1} \cup ms) \cap DOMAIN ls : t \in DOMAIN ls[i]}
<1>1. CASE found = {}
  BY <1>1 DEF Effective
<1>2. CASE found # {}
  <2>1. PICK n \in Nat : DOMAIN ls = 1 .. n
    BY DEF Layered
  <2>2. \E i \in found : \A j \in found : j <= i
    <3>1. found \in SUBSET (1 .. n)
      BY <2>1
    <3> HIDE DEF found
    <3> QED
      BY <1>2, <3>1, GreatestExists
  <2> DEFINE last == CHOOSE i \in found : \A j \in found : j <= i
  <2>3. last \in found
    <3> HIDE DEF found
    <3> QED
      BY <2>2
  <2>4. Effective(ls, ms, t) = ls[last][t]
    BY <1>2 DEF Effective
  <2> QED
    BY <2>3, <2>4
<1> QED
  BY <1>1, <1>2

\* Finalizing changes no effective setting that is on, and turns none on.
LEMMA EffectiveStays ==
    ASSUME NEW ls, Layered(ls), NEW out, EntriesKept(ls, out), NEW ms, NEW t
    PROVE  IF severity(Effective(ls, ms, t)) > 0
           THEN Effective(out, ms, t) = Effective(ls, ms, t)
           ELSE severity(Effective(out, ms, t)) = 0
<1>1. severity(Off) = 0 /\ \A s : severity(s) \in {0, 1, 2}
  BY DEF severity, Off, Setting
<1> USE DEF EntriesKept
<1>2. CASE t \in EnabledAnywhere(ls)
  <2> DEFINE before == {i \in ({1} \cup ms) \cap DOMAIN ls : t \in DOMAIN ls[i]}
             after == {i \in ({1} \cup ms) \cap DOMAIN out : t \in DOMAIN out[i]}
  <2>1. before = after /\ \A i \in before : out[i][t] = ls[i][t]
    BY <1>2
  <2>2. before # {} => (CHOOSE i \in before : \A j \in before : j <= i) \in before
    <3>1. PICK n \in Nat : DOMAIN ls = 1 .. n
      BY DEF Layered
    <3>2. before \in SUBSET (1 .. n)
      BY <3>1
    <3> HIDE DEF before
    <3> SUFFICES ASSUME before # {} PROVE (CHOOSE i \in before : \A j \in before : j <= i) \in before
      OBVIOUS
    <3>3. \E i \in before : \A j \in before : j <= i
      BY <3>2, GreatestExists
    <3> QED
      BY <3>3
  <2>3. /\ Effective(ls, ms, t) =
               IF before = {} THEN Off ELSE ls[CHOOSE i \in before : \A j \in before : j <= i][t]
        /\ Effective(out, ms, t) =
               IF after = {} THEN Off ELSE out[CHOOSE i \in after : \A j \in after : j <= i][t]
    BY DEF Effective
  <2> HIDE DEF before, after
  <2>4. Effective(out, ms, t) = Effective(ls, ms, t)
    BY <2>1, <2>2, <2>3
  <2> QED
    BY <1>1, <2>4
<1>3. CASE t \notin EnabledAnywhere(ls)
  <2>1. \A i \in DOMAIN ls : t \in DOMAIN ls[i] => severity(ls[i][t]) = 0
    BY <1>1, <1>3 DEF EnabledAnywhere, Enabled
  <2>2. severity(Effective(ls, ms, t)) = 0
    BY <1>1, <2>1, EffectiveEntry
  <2>3. Layered(out)
    BY DEF Layered
  <2>4. severity(Effective(out, ms, t)) = 0
    BY <1>1, <2>1, <2>3, EffectiveEntry
  <2> QED
    BY <2>2, <2>4
<1> QED
  BY <1>2, <1>3

ConfigInv ==
    /\ task \in {"groups", "preset", "own", "threw", "assign", "finalize", "done"}
    /\ task = "finalize" => Layered(layers)
    /\ task = "own" => Layered(request.layers)
    /\ FinalizingKeepsLevels

LEMMA ConfigInitHasInv == ConfigInit => ConfigInv
BY RequestsAssumption DEF ConfigInit, ConfigInv, FinalizingKeepsLevels, Layered

\* A configuration is one layer, with an override for TypeScript and one for scripts or without.
LEMMA LayersBuilt ==
    ASSUME NEW a, NEW b, NEW c, NEW p \in BOOLEAN, NEW q \in BOOLEAN
    PROVE  Layered(<<a>> \o (IF p THEN <<b>> ELSE <<>>) \o (IF q THEN <<c>> ELSE <<>>))
<1> DEFINE S == {a, b, c}
           x == IF p THEN <<b>> ELSE <<>>
           y == IF q THEN <<c>> ELSE <<>>
<1>1. <<a>> \in Seq(S) /\ x \in Seq(S) /\ y \in Seq(S)
  <2>1. <<a>> \in Seq(S) /\ <<b>> \in Seq(S) /\ <<c>> \in Seq(S) /\ <<>> \in Seq(S)
    OBVIOUS
  <2> HIDE DEF S
  <2> QED
    BY <2>1
<1> HIDE DEF S, x, y
<1>2. <<a>> \o x \o y \in Seq(S)
  BY <1>1
<1>3. Layered(<<a>> \o x \o y)
  BY <1>2 DEF Layered
<1> QED
  BY <1>3 DEF x, y

LEMMA CreateKeepsInv == ASSUME ConfigInv, CreateConfig PROVE ConfigInv'
<1>1. task' = "threw" \/ (task' = "finalize" /\ Layered(layers'))
  BY LayersBuilt DEF CreateConfig
<1> QED
  BY <1>1 DEF ConfigInv, FinalizingKeepsLevels

LEMMA FinalizeKeepsInv == ASSUME ConfigInv, finalizeProviders PROVE ConfigInv'
<1> DEFINE active == {ProviderOf[t] : t \in EnabledAnywhere(layers)}
           known == PROVIDERS \cup PROVIDER_ALIASES \cup (plugins \ Unnamed)
<1>1. task = "finalize" /\ given' = layers /\ Layered(layers)
  BY DEF finalizeProviders, ConfigInv
<1>2. CASE task' = "threw"
  BY <1>2 DEF ConfigInv, FinalizingKeepsLevels
<1>3. CASE /\ task' = "done"
           /\ layers' = Pruned(WithoutProviders(layers, known \ active), known)
           /\ plugins' = (plugins \cap (Unnamed \cup active))
                         \cup ((PROVIDERS \cup PROVIDER_ALIASES) \cap active)
  <2> DEFINE out == layers'
  <2>1. EntriesKept(layers, out)
    <3>1. out = Pruned(WithoutProviders(layers, known \ active), known)
      BY <1>3
    <3>2. active = {ProviderOf[t] : t \in EnabledAnywhere(layers)}
      OBVIOUS
    <3> HIDE DEF out, active, known
    <3> QED
      BY <3>1, <3>2, PrunedEntries
  <2>2. /\ active \cap (PROVIDERS \cup PROVIDER_ALIASES) \subseteq plugins'
        /\ plugins' \subseteq active \cup Unnamed
    <3> HIDE DEF active
    <3> QED
      BY <1>3
  <2>3. \A ms, t :
            IF severity(Effective(layers, ms, t)) > 0
            THEN Effective(out, ms, t) = Effective(layers, ms, t)
            ELSE severity(Effective(out, ms, t)) = 0
    <3> HIDE DEF out
    <3> QED
      BY <1>1, <2>1, EffectiveStays
  <2>4. FinalizingKeepsLevels'
    BY <1>1, <2>2, <2>3 DEF FinalizingKeepsLevels
  <2> QED
    BY <1>3, <2>4 DEF ConfigInv
<1> QED
  BY <1>2, <1>3 DEF finalizeProviders

\* Finalizing changes for no file what is on and how (finalizeProviders), for any layers and
\* overrides of a translated configuration, a preset or the consumer's own.
THEOREM FinalizingKeepsAllLevels == ConfigSpec => []FinalizingKeepsLevels
<1>1. ASSUME ConfigInv, [ConfigNext]_configVars PROVE ConfigInv'
  <2>1. CASE RefuseGroup \/ Decide \/ NextGroup
    <3>1. task' \in {"threw", "groups", "assign"}
      BY <2>1 DEF RefuseGroup, Decide, NextGroup
    <3> QED
      BY <3>1 DEF ConfigInv, FinalizingKeepsLevels
  <2>2. CASE Assign \/ Override
    <3>1. task' = "threw" \/ task' = "assign" \/ (task' = "finalize" /\ \E rules : layers' = <<NoRules, rules>>)
      BY <2>2 DEF Assign, Override
    <3>2. \A rules : DOMAIN <<NoRules, rules>> = 1 .. 2
      OBVIOUS
    <3> QED
      BY <3>1, <3>2 DEF ConfigInv, FinalizingKeepsLevels, Layered
  <2>3. CASE Write
    <3>1. task = "own" /\ task' = "finalize" /\ layers' = request.layers
      BY <2>3 DEF Write
    <3>2. Layered(layers')
      BY <1>1, <3>1 DEF ConfigInv
    <3> QED
      BY <3>1, <3>2 DEF ConfigInv, FinalizingKeepsLevels
  <2>4. CASE UNCHANGED configVars
    BY <1>1, <2>4 DEF ConfigInv, configVars, FinalizingKeepsLevels
  <2> QED
    BY <1>1, <2>1, <2>2, <2>3, <2>4, CreateKeepsInv, FinalizeKeepsInv DEF ConfigNext
<1>2. ConfigInv => FinalizingKeepsLevels
  BY DEF ConfigInv
<1> QED
  BY <1>1, <1>2, ConfigInitHasInv, PTL DEF ConfigSpec

-----------------------------------------------------------------------------
(* The owners of the rules of a consumer, for every catalog in which who   *)
(* is on has a target, and any number of rules and groups.                 *)

\* Settings and decisions are records.
SettingShape(s) == s = Setting(s.level, s.options)
DecisionShape(d) == d = Decision(d.status, d.source, d.target, d.setting, d.implementation, d.typed)
OptionsShape(o) ==
    /\ o = [language |-> o.language, policy |-> o.policy, profile |-> o.profile,
            setting |-> o.setting]
    /\ SettingShape(o.setting)
    /\ o.setting = Unset \/ o.setting.level # Unset.level

\* A decision to transfer a rule is one about its setting, and its target is only missing if
\* nothing can be reported.
GoodDecision(d, source, o) ==
    /\ DecisionShape(d)
    /\ d.status \in {"resolved", "disabled"} =>
           /\ d.setting.level = o.setting.level
           /\ IsOn(o.setting) =>
                  \/ d.target # Nothing
                  \/ o.language # "typescript" /\ Entry(source).javascript = "inert"

LEMMA SeverityOfLevel ==
    ASSUME NEW s, NEW t, s.level = t.level
    PROVE  severity(s) = severity(t)
BY DEF severity

LEMMA SelectedMapping ==
    ASSUME NEW source, NEW o
    PROVE  \/ Selected(source, o) = Unmapped
           \/ \E i \in DOMAIN Mappings : Selected(source, o) = Mappings[i]
<1> DEFINE name == IF source \in DOMAIN Compatibility THEN Compatibility[source].canonical ELSE source
           candidates == {i \in DOMAIN Mappings : Mappings[i].source = name}
           fits(m) == m.language \in {"any", o.language} /\ m.scope \in {"base", o.policy, o.profile}
           before(i, j) == IF fits(Mappings[i]) = fits(Mappings[j]) THEN i <= j ELSE fits(Mappings[j])
           last == CHOOSE i \in candidates : \A j \in candidates : before(j, i)
           fitting == {i \in candidates : fits(Mappings[i])}
<1>1. Selected(source, o) = IF candidates = {} THEN Unmapped ELSE Mappings[last]
  BY DEF Selected
<1>2. \A I \in SUBSET (DOMAIN Mappings) : I # {} => \E i \in I : \A j \in I : j <= i
  BY CatalogAssumption, GreatestExists
<1>3. candidates \in SUBSET (DOMAIN Mappings) /\ fitting \in SUBSET candidates
  OBVIOUS
<1>4. ASSUME candidates # {} PROVE \E i \in candidates : \A j \in candidates : before(j, i)
  <2>1. CASE fitting # {}
    <3>1. PICK i \in fitting : \A j \in fitting : j <= i
      BY <1>2, <1>3, <2>1
    <3>2. \A j \in candidates : before(j, i)
      BY <3>1
    <3> QED
      BY <3>1, <3>2
  <2>2. CASE fitting = {}
    <3>1. PICK i \in candidates : \A j \in candidates : j <= i
      BY <1>2, <1>3, <1>4
    <3>2. \A j \in candidates : ~fits(Mappings[j])
      BY <2>2
    <3>3. \A j \in candidates : before(j, i)
      BY <3>1, <3>2
    <3> QED
      BY <3>3
  <2> QED
    BY <2>1, <2>2
<1>5. candidates # {} => last \in DOMAIN Mappings
  <2> HIDE DEF before
  <2> QED
    BY <1>3, <1>4
<1> QED
  BY <1>1, <1>5

LEMMA OwnerShape ==
    ASSUME NEW source, NEW o
    PROVE  DecisionShape(Owner(source, o))
<1> DEFINE d == Owner(source, o)
<1>1. \E a, b, c, s, f, g : d = Decision(a, b, c, s, f, g)
  BY DEF Owner, OwnerBy, Unsupported
<1> HIDE DEF d
<1>2. PICK a, b, c, s, f, g : d = Decision(a, b, c, s, f, g)
  BY <1>1
<1>3. DecisionShape(d)
  BY <1>2 DEF DecisionShape, Decision
<1> QED
  BY <1>3 DEF d

\* The owner by the catalog: the level is that of the consumer, and a target is only missing if
\* the rule is off and not registered.
LEMMA OwnerOf ==
    ASSUME NEW source, NEW o, SettingShape(o.setting), Known(source, o),
           Owner(source, o).status \in {"resolved", "disabled"}
    PROVE  /\ o.setting # Unset => Owner(source, o).setting.level = o.setting.level
           /\ Owner(source, o).target = Nothing =>
                  /\ Owner(source, o).status = "disabled"
                  /\ source \notin DOMAIN Compatibility
                  /\ o.setting # Unset => ~IsOn(o.setting)
<1> DEFINE e == Entry(source)
           m == Selected(source, o)
           x == Replacing(o, e, m)
           replaced == x # NoEquivalent
           pick == IF replaced THEN x ELSE IF e # Unregistered THEN e ELSE m
           default == IF replaced THEN x.setting
                      ELSE IF m # Unmapped THEN m.setting ELSE Setting("error", {})
           setting == IF o.setting # Unset THEN o.setting ELSE default
           off == severity(setting) = 0
           unverified ==
               /\ o.setting # Unset \/ (e # Unregistered /\ ~replaced)
               /\ ~off
               /\ e = Unregistered \/ ~(setting.options \subseteq e.schema)
           d == Decision(
               IF replaced /\ x.target = Nothing /\ severity(m.setting) > 0 THEN "compiler"
               ELSE IF off THEN "disabled" ELSE "resolved",
               source, pick.target,
               IF off THEN setting ELSE [setting EXCEPT !.options = @ \cup e.defaults],
               IF off THEN "disabled" ELSE pick.implementation,
               IF e # Unregistered THEN e.typed ELSE m.typed)
<1>1. Owner(source, o) = IF ~IsLevel(setting) \/ unverified THEN Unsupported(source) ELSE d
  BY DEF Owner, OwnerBy
<1>2. ~unverified /\ Owner(source, o) = d
  <2> HIDE DEF unverified, setting, d
  <2> QED
    BY <1>1 DEF Unsupported, Decision
<1>3. /\ d.status = IF replaced /\ x.target = Nothing /\ severity(m.setting) > 0 THEN "compiler"
                    ELSE IF off THEN "disabled" ELSE "resolved"
      /\ d.target = pick.target
      /\ d.setting = IF off THEN setting ELSE [setting EXCEPT !.options = @ \cup e.defaults]
  BY DEF Decision
<1>4. m = Unmapped \/ \E i \in DOMAIN Mappings : m = Mappings[i]
  BY SelectedMapping
<1>5. Unmapped.typescript = NoEquivalent
  BY DEF Unmapped
<1>6. replaced => x = m.typescript
  BY DEF Replacing
<1> HIDE DEF d, x, m
<1>7. ASSUME o.setting # Unset PROVE d.setting.level = o.setting.level
  <2>1. setting = o.setting
    BY <1>7
  <2>2. setting = [level |-> setting.level, options |-> setting.options]
    BY <2>1 DEF SettingShape, Setting
  <2> HIDE DEF setting
  <2>3. [setting EXCEPT !.options = @ \cup e.defaults].level = setting.level
    BY <2>2
  <2> QED
    BY <1>3, <2>1, <2>3
<1>8. ASSUME d.target = Nothing
      PROVE  /\ d.status = "disabled"
             /\ source \notin DOMAIN Compatibility
             /\ o.setting # Unset => ~IsOn(o.setting)
  <2>1. ~replaced
    <3> SUFFICES ASSUME replaced PROVE FALSE
      OBVIOUS
    <3>1. x = m.typescript /\ x.target = Nothing /\ x # NoEquivalent
      BY <1>3, <1>6, <1>8
    <3>2. m # Unmapped
      BY <1>5, <3>1
    <3>3. severity(m.setting) > 0
      BY <1>4, <3>1, <3>2, CatalogAssumption
    <3>4. d.status = "compiler"
      BY <1>3, <3>1, <3>3
    <3> QED
      BY <1>2, <3>4
  <2>2. e = Unregistered /\ source \notin DOMAIN Compatibility
    <3>1. CASE source \in DOMAIN Compatibility
      <4>1. e = Compatibility[source] /\ e.target # Nothing
        BY <3>1, CatalogAssumption DEF Entry
      <4>2. e # Unregistered
        BY <4>1 DEF Unregistered
      <4> QED
        BY <1>3, <1>8, <2>1, <4>1, <4>2
    <3> QED
      BY <3>1 DEF Entry
  <2>3. m # Unmapped /\ m.target = Nothing
    BY <1>3, <1>8, <2>1, <2>2 DEF Known, m
  <2>4. severity(m.setting) \in {0, 1, 2} /\ ~(severity(m.setting) > 0)
    BY <1>4, <2>3, CatalogAssumption DEF severity
  <2>5. off
    <3>1. CASE o.setting # Unset
      BY <1>2, <2>2, <3>1
    <3>2. CASE o.setting = Unset
      <4>1. setting = m.setting
        BY <2>1, <2>3, <3>2
      <4> HIDE DEF setting
      <4> QED
        BY <2>4, <4>1
    <3> QED
      BY <3>1, <3>2
  <2>6. d.status = "disabled"
    BY <1>3, <2>1, <2>5
  <2>7. o.setting # Unset => ~IsOn(o.setting)
    <3>1. o.setting # Unset => setting = o.setting
      OBVIOUS
    <3> HIDE DEF setting
    <3> QED
      BY <2>5, <3>1 DEF IsOn
  <2> QED
    BY <2>2, <2>6, <2>7
<1> QED
  BY <1>2, <1>7, <1>8

\* The lookup of a rule, with a setting of the consumer or the recorded one.
LEMMA ResolvedRule ==
    ASSUME NEW source, NEW o, OptionsShape(o)
    PROVE  /\ o.setting # Unset => GoodDecision(resolveRule(source, o), source, o)
           /\ DecisionShape(resolveRule(source, o))
           /\ o.setting = Unset =>
                  LET d == resolveRule(source, o)
                  IN  /\ d.status = "resolved" => d.target # Nothing
                      /\ d.status = "disabled" /\ source \in DOMAIN Compatibility =>
                             d.target # Nothing
<1> DEFINE e == Entry(source)
           base == [o EXCEPT !.setting.options = @ \ e.typescriptOnly]
           set == o.setting # Unset
           d == resolveRule(source, o)
<1>1. d = IF ~Known(source, o) THEN Unowned(source, o)
          ELSE IF ~Foreign(source, o) THEN Owner(source, o)
          ELSE IF set /\ e.javascript = "inert" THEN Disabled(source, o)
          ELSE IF set /\ e.javascript = "base" /\ Known(e.canonical, base)
          THEN [Owner(e.canonical, base) EXCEPT !.source = source]
          ELSE Unowned(source, o)
  BY DEF resolveRule
<1>2. SettingShape(o.setting)
  BY DEF OptionsShape
<1> HIDE DEF d
<1>3. CASE d = Unowned(source, o)
  <2>1. CASE o.setting # Unset /\ severity(o.setting) = 0
    <3>1. d = Decision("disabled", source, Nothing, o.setting, "disabled", FALSE)
      BY <1>3, <2>1 DEF Unowned, Disabled
    <3> QED
      BY <2>1, <3>1 DEF Decision, DecisionShape, GoodDecision, IsOn, d
  <2>2. CASE o.setting = Unset \/ severity(o.setting) # 0
    <3>1. d = Decision("unsupported", source, Nothing, Unset, Nothing, FALSE)
      BY <1>3, <2>2 DEF Unowned, Unsupported
    <3> QED
      BY <3>1 DEF Decision, DecisionShape, GoodDecision, d
  <2> QED
    BY <2>1, <2>2
<1>4. CASE Known(source, o) /\ d = Owner(source, o)
  <2>1. DecisionShape(d)
    BY <1>4, OwnerShape
  <2>2. d.status \in {"resolved", "disabled"} =>
            /\ o.setting # Unset => d.setting.level = o.setting.level
            /\ d.target = Nothing =>
                  /\ d.status = "disabled"
                  /\ source \notin DOMAIN Compatibility
                  /\ o.setting # Unset => ~IsOn(o.setting)
    BY <1>2, <1>4, OwnerOf
  <2> QED
    BY <2>1, <2>2 DEF GoodDecision, d
<1>5. CASE Foreign(source, o) /\ set /\ e.javascript = "inert" /\ d = Disabled(source, o)
  <2>1. o.language # "typescript"
    BY <1>5 DEF Foreign
  <2>2. d = Decision("disabled", source, Nothing, o.setting, "disabled", FALSE)
    BY <1>5 DEF Disabled
  <2> QED
    BY <1>5, <2>1, <2>2 DEF Decision, DecisionShape, GoodDecision, d
<1>6. CASE /\ set /\ e.javascript = "base" /\ Known(e.canonical, base)
           /\ d = [Owner(e.canonical, base) EXCEPT !.source = source]
  <2> DEFINE w == Owner(e.canonical, base)
  <2>1. DecisionShape(w)
    BY OwnerShape
  <2>2. /\ base.setting = Setting(o.setting.level, o.setting.options \ e.typescriptOnly)
        /\ base.setting.level = o.setting.level
    BY DEF OptionsShape, SettingShape, Setting
  <2>3. base.setting # Unset
    BY <1>6, <2>2 DEF OptionsShape
  <2>4. SettingShape(base.setting)
    BY <2>2 DEF SettingShape, Setting
  <2>5. severity(base.setting) = severity(o.setting)
    BY <2>2, SeverityOfLevel
  <2>6. w.status \in {"resolved", "disabled"} =>
            /\ w.setting.level = base.setting.level
            /\ w.target = Nothing => ~IsOn(base.setting)
    BY <1>6, <2>3, <2>4, OwnerOf
  <2> HIDE DEF w, base
  <2>7. /\ d = [w EXCEPT !.source = source]
        /\ w = [status |-> w.status, source |-> w.source, target |-> w.target,
                setting |-> w.setting, implementation |-> w.implementation, typed |-> w.typed]
    BY <1>6, <2>1 DEF DecisionShape, Decision, w
  <2>8. /\ d = [status |-> w.status, source |-> source, target |-> w.target,
                setting |-> w.setting, implementation |-> w.implementation, typed |-> w.typed]
    BY <2>7
  <2>9. /\ DecisionShape(d)
        /\ d.status = w.status /\ d.target = w.target /\ d.setting = w.setting
    BY <2>8 DEF DecisionShape, Decision
  <2> QED
    BY <1>6, <2>2, <2>5, <2>6, <2>9 DEF GoodDecision, IsOn, d
<1> QED
  BY <1>1, <1>3, <1>4, <1>5, <1>6

\* Options that are the recorded ones: the recorded owner, if it is one.
LEMMA BaselineDecision ==
    ASSUME NEW source, NEW o, OptionsShape(o), o.setting # Unset,
           NEW d, GoodDecision(d, source, o)
    PROVE  GoodDecision(OrBaseline(d, source, o), source, o)
<1> DEFINE p == [o EXCEPT !.setting = Unset]
           r == resolveRule(source, p)
           b == OrBaseline(d, source, o)
<1>1. b = d \/ (r.status \notin {"unsupported", "disabled"} /\ b = [r EXCEPT !.setting = o.setting])
  BY DEF OrBaseline
<1>2. p = [language |-> o.language, policy |-> o.policy, profile |-> o.profile, setting |-> Unset]
  BY DEF OptionsShape
<1>3. OptionsShape(p) /\ p.setting = Unset
  BY <1>2 DEF OptionsShape, SettingShape, Unset, Setting
<1>4. DecisionShape(r) /\ (r.status = "resolved" => r.target # Nothing)
  <2> HIDE DEF p
  <2> QED
    BY <1>3, ResolvedRule
<1> HIDE DEF b, r
<1>5. CASE b = [r EXCEPT !.setting = o.setting] /\ r.status \notin {"unsupported", "disabled"}
  <2>1. b = Decision(r.status, r.source, r.target, o.setting, r.implementation, r.typed)
    BY <1>4, <1>5 DEF DecisionShape, Decision
  <2> QED
    BY <1>4, <1>5, <2>1 DEF GoodDecision, DecisionShape, Decision, b
<1> QED
  BY <1>1, <1>5 DEF b

LEMMA NativeFields ==
    ASSUME NEW d, DecisionShape(d), NEW t
    PROVE  [d EXCEPT !.target = t, !.implementation = "native"] =
           Decision(d.status, d.source, t, d.setting, "native", d.typed)
<1> DEFINE a == d.status
           b == d.source
           c == d.target
           s == d.setting
           f == d.implementation
           g == d.typed
           n == [d EXCEPT !.target = t, !.implementation = "native"]
<1>1. d = [status |-> a, source |-> b, target |-> c, setting |-> s, implementation |-> f, typed |-> g]
  BY DEF DecisionShape, Decision
<1>2. n = [d EXCEPT !.target = t, !.implementation = "native"]
  OBVIOUS
<1> HIDE DEF a, b, c, s, f, g, n
<1>3. n = [status |-> a, source |-> b, target |-> t, setting |-> s, implementation |-> "native",
           typed |-> g]
  BY <1>1, <1>2
<1> QED
  BY <1>3 DEF Decision, n, a, b, c, s, f, g

\* The native owner is one.
LEMMA NativeDecision ==
    ASSUME NEW source, NEW o, NEW accept, NEW d, GoodDecision(d, source, o)
    PROVE  GoodDecision(OrNative(d, source, accept), source, o)
<1>1. CASE source \in DOMAIN NativeEvidence /\ d.status = "resolved"
  <2> DEFINE t == NativeEvidence[source]
             n == [d EXCEPT !.target = t, !.implementation = "native"]
  <2>1. t # Nothing
    BY <1>1, CatalogAssumption
  <2>2. n = Decision(d.status, d.source, t, d.setting, "native", d.typed)
    <3> HIDE DEF t
    <3> QED
      BY NativeFields DEF GoodDecision
  <2>3. GoodDecision(n, source, o)
    <3> HIDE DEF t, n
    <3> QED
      BY <2>1, <2>2 DEF GoodDecision, DecisionShape, Decision
  <2>4. OrNative(d, source, accept) \in {n, d}
    BY DEF OrNative
  <2> HIDE DEF n
  <2> QED
    BY <2>3, <2>4
<1>2. CASE ~(source \in DOMAIN NativeEvidence /\ d.status = "resolved")
  BY <1>2 DEF OrNative
<1> QED
  BY <1>1, <1>2

\* A rule with native evidence that is on has its recorded owner.
LEMMA EvidenceDecision ==
    ASSUME NEW source, NEW o, OptionsShape(o), source \in DOMAIN NativeEvidence
    PROVE  GoodDecision(WithEvidence(source, o), source, o)
<1> DEFINE language == IF source \in TypeScriptSources THEN "typescript" ELSE "javascript"
           p == [language |-> language, policy |-> "compatibility", profile |-> "guide",
                 setting |-> Unset]
           r == resolveRule(source, p)
           w == WithEvidence(source, o)
<1>1. OptionsShape(p) /\ p.setting = Unset
  BY DEF OptionsShape, SettingShape, Unset, Setting
<1>2. w = IF r.status = "unsupported" THEN r ELSE [r EXCEPT !.setting = o.setting]
  BY DEF WithEvidence
<1>3. /\ DecisionShape(r)
      /\ r.status \in {"resolved", "disabled"} => r.target # Nothing
  <2> HIDE DEF p
  <2> QED
    BY <1>1, ResolvedRule, CatalogAssumption
<1> HIDE DEF w, r
<1>4. CASE r.status = "unsupported"
  BY <1>2, <1>3, <1>4 DEF GoodDecision, w
<1>5. CASE r.status # "unsupported"
  <2>1. w = Decision(r.status, r.source, r.target, o.setting, r.implementation, r.typed)
    BY <1>2, <1>3, <1>5 DEF DecisionShape, Decision
  <2> QED
    BY <1>3, <2>1 DEF GoodDecision, DecisionShape, Decision, w
<1> QED
  BY <1>4, <1>5

LEMMA DetailedDecision ==
    ASSUME NEW source, NEW o, OptionsShape(o), o.setting # Unset, NEW accept
    PROVE  GoodDecision(resolveRuleDetailed(source, o, accept), source, o)
<1> DEFINE d == resolveRuleDetailed(source, o, accept)
           manual == [Unsupported(source) EXCEPT !.status = "manual"]
<1>1. \/ d = manual
      \/ d = Unsupported(source)
      \/ /\ source \in DOMAIN NativeEvidence
         /\ d = OrNative(OrBaseline(WithEvidence(source, o), source, o), source, accept)
      \/ d = OrNative(OrBaseline(resolveRule(source, o), source, o), source, accept)
  BY DEF resolveRuleDetailed
<1> HIDE DEF d
<1>2. CASE d = Unsupported(source)
  BY <1>2 DEF GoodDecision, DecisionShape, Unsupported, Decision, d
<1>3. CASE d = manual
  <2> DEFINE u == Unsupported(source)
  <2>1. DecisionShape(u)
    BY DEF Unsupported, DecisionShape, Decision
  <2> HIDE DEF u
  <2>2. [u EXCEPT !.status = "manual"] =
            Decision("manual", u.source, u.target, u.setting, u.implementation, u.typed)
    BY <2>1 DEF DecisionShape, Decision
  <2>3. d = [u EXCEPT !.status = "manual"]
    BY <1>3 DEF u
  <2> QED
    BY <2>2, <2>3 DEF GoodDecision, DecisionShape, Decision, d
<1>4. CASE /\ source \in DOMAIN NativeEvidence
           /\ d = OrNative(OrBaseline(WithEvidence(source, o), source, o), source, accept)
  <2>1. GoodDecision(OrBaseline(WithEvidence(source, o), source, o), source, o)
    BY <1>4, EvidenceDecision, BaselineDecision
  <2> QED
    BY <1>4, <2>1, NativeDecision DEF d
<1>5. CASE d = OrNative(OrBaseline(resolveRule(source, o), source, o), source, accept)
  <2>1. GoodDecision(OrBaseline(resolveRule(source, o), source, o), source, o)
    BY ResolvedRule, BaselineDecision
  <2> QED
    BY <1>5, <2>1, NativeDecision DEF d
<1> QED
  BY <1>1, <1>2, <1>3, <1>4, <1>5

\* The context of a group can take a transfer away.
LEMMA ContextualDecision ==
    ASSUME NEW source, NEW o, NEW g, NEW d, GoodDecision(d, source, o)
    PROVE  GoodDecision(Contextual(g, d), source, o)
<1> DEFINE n == [d EXCEPT !.status = "unsupported"]
<1>1. n = Decision("unsupported", d.source, d.target, d.setting, d.implementation, d.typed)
  BY DEF GoodDecision, DecisionShape, Decision
<1>2. Contextual(g, d) = n \/ Contextual(g, d) = d
  BY DEF Contextual
<1> HIDE DEF n
<1>3. GoodDecision(n, source, o)
  BY <1>1 DEF GoodDecision, DecisionShape, Decision
<1> QED
  BY <1>2, <1>3

\* Every decision of a group is about the rule at its place.
Decided(g, i, d) ==
    d.status \in {"resolved", "disabled"} =>
        /\ d.setting.level = g.rules[i].setting.level
        /\ IsOn(g.rules[i].setting) => d.target # Nothing \/ Inert(g, g.rules[i].source)

LEMMA GroupDecision ==
    ASSUME NEW g, GroupOK(g), NEW i \in 1 .. Len(g.rules)
    PROVE  LET o == [language |-> g.language, policy |-> "compatibility", profile |-> "guide",
                     setting |-> g.rules[i].setting]
           IN  Decided(g, i, Contextual(g, resolveRuleDetailed(g.rules[i].source, o, g.accept)))
<1> DEFINE r == g.rules[i]
           o == [language |-> g.language, policy |-> "compatibility", profile |-> "guide",
                 setting |-> r.setting]
           d == Contextual(g, resolveRuleDetailed(r.source, o, g.accept))
<1>1. /\ r.setting = Setting(r.setting.level, r.setting.options)
      /\ r.setting.level # Unset.level
      /\ g.language \in {"javascript", "typescript"}
  BY DEF GroupOK
<1>2. OptionsShape(o) /\ o.setting # Unset /\ o.setting = r.setting /\ o.language = g.language
  BY <1>1 DEF OptionsShape, SettingShape
<1> HIDE DEF o
<1>3. GoodDecision(d, r.source, o)
  BY <1>2, DetailedDecision, ContextualDecision
<1> HIDE DEF d
<1>4. Decided(g, i, d)
  BY <1>1, <1>2, <1>3 DEF GoodDecision, Decided, Inert
<1> QED
  BY <1>4 DEF d, o

Groups == UNION {{r.groups[i] : i \in DOMAIN r.groups} : r \in {q \in Requests : q.kind = "groups"}}

\* The groups that are left.
GroupsLeft ==
    /\ request = [kind |-> "groups", groups |-> request.groups]
    /\ request.groups \in Seq(Groups)
    /\ request.groups # <<>>

\* What the decisions so far have made of the targets.
Accounted ==
    /\ \A i \in 1 .. assigned :
           Transfers(ownership[i]) =>
               /\ ownership[i].target \in DOMAIN targets
               /\ IsOn(ownership[i].setting) => targets[ownership[i].target] = ownership[i].setting
    /\ \A t \in DOMAIN targets :
           IsOn(targets[t]) =>
               \E i \in 1 .. assigned :
                   /\ Transfers(ownership[i])
                   /\ ownership[i].target = t
                   /\ ownership[i].setting = targets[t]

GroupInv ==
    /\ GroupsLeft
    /\ task \in {"groups", "assign", "finalize", "done", "threw"}
    /\ \E S : ownership \in Seq(S)
    /\ Len(ownership) <= Len(Group.rules)
    /\ \A i \in 1 .. Len(ownership) : Decided(Group, i, ownership[i])
    /\ assigned \in 0 .. Len(ownership)
    /\ Accounted
    /\ task = "groups" => assigned = 0 /\ targets = NoRules
    /\ task \in {"finalize", "done"} => assigned = Len(ownership)
    /\ task = "finalize" => layers = <<NoRules, targets>>
    /\ task = "done" => EntriesKept(<<NoRules, targets>>, layers)

OwnersInv ==
    /\ request.kind = "groups" => GroupInv
    /\ task \in {"groups", "assign"} => request.kind = "groups"

LEMMA GroupsAreOK ==
    /\ \A g \in Groups : GroupOK(g)
    /\ GroupsLeft => Group \in Groups
<1>1. ASSUME NEW g \in Groups PROVE GroupOK(g)
  <2>1. PICK r \in Requests :
            /\ r.kind = "groups"
            /\ \E i \in DOMAIN r.groups : g = r.groups[i]
    BY DEF Groups
  <2>2. \A i \in DOMAIN r.groups : GroupOK(r.groups[i])
    BY <2>1, RequestsAssumption
  <2> QED
    BY <2>1, <2>2
<1>2. GroupsLeft => Group \in Groups
  BY DEF GroupsLeft, Group
<1> QED
  BY <1>1, <1>2

LEMMA NothingAccounted ==
    ASSUME assigned = 0, targets = NoRules
    PROVE  Accounted
<1>1. DOMAIN targets = {}
  BY DEF NoRules
<1> QED
  BY <1>1 DEF Accounted

LEMMA OwnersInitHasInv == ConfigInit => OwnersInv
<1> SUFFICES ASSUME ConfigInit, request.kind = "groups" PROVE GroupInv
  BY RequestsAssumption DEF ConfigInit, OwnersInv
<1>1. GroupsLeft
  <2>1. request \in Requests /\ request.kind = "groups"
    BY DEF ConfigInit
  <2>2. /\ request = [kind |-> "groups", groups |-> request.groups]
        /\ request.groups \in Seq({request.groups[i] : i \in DOMAIN request.groups}) \ {<<>>}
    BY <2>1, RequestsAssumption
  <2>3. {request.groups[i] : i \in DOMAIN request.groups} \subseteq Groups
    BY <2>1 DEF Groups
  <2>4. Seq({request.groups[i] : i \in DOMAIN request.groups}) \subseteq Seq(Groups)
    BY <2>3
  <2> QED
    BY <2>2, <2>4 DEF GroupsLeft
<1>2. Len(Group.rules) \in Nat
  BY <1>1, GroupsAreOK DEF GroupOK
<1>3. ownership = <<>> /\ ownership \in Seq({})
  BY DEF ConfigInit
<1>4. Len(ownership) = 0
  BY <1>3
<1>5. Accounted
  BY NothingAccounted DEF ConfigInit
<1> QED
  BY <1>1, <1>2, <1>3, <1>4, <1>5 DEF ConfigInit, GroupInv

LEMMA OneMoreDecision ==
    ASSUME NEW s, \E S : s \in Seq(S), NEW d
    PROVE  /\ \E S : Append(s, d) \in Seq(S)
           /\ Len(s) \in Nat
           /\ Len(Append(s, d)) = Len(s) + 1
           /\ \A i \in 1 .. Len(s) : Append(s, d)[i] = s[i]
           /\ Append(s, d)[Len(s) + 1] = d
<1>1. PICK S : s \in Seq(S)
  OBVIOUS
<1>2. s \in Seq(S \cup {d}) /\ d \in S \cup {d}
  BY <1>1
<1> DEFINE T == S \cup {d}
<1> HIDE DEF T
<1>3. s \in Seq(T) /\ d \in T
  BY <1>2 DEF T
<1> QED
  BY <1>3

\* A decision is about the next rule of the group.
LEMMA DecideKeepsOwners == ASSUME GroupInv, Decide PROVE GroupInv'
<1>1. /\ task = "groups"
      /\ request' = request /\ assigned' = assigned /\ targets' = targets /\ layers' = layers
      /\ Group' = Group
  BY DEF Decide, Group
<1>2. assigned = 0 /\ targets = NoRules
  BY <1>1 DEF GroupInv
<1>3. GroupsLeft' /\ Accounted'
  <2>1. Accounted'
    <3>1. assigned' = 0 /\ DOMAIN targets' = {}
      BY <1>1, <1>2 DEF NoRules
    <3> QED
      BY <3>1 DEF Accounted
  <2> QED
    BY <1>1, <2>1 DEF GroupInv, GroupsLeft
<1>4. GroupOK(Group) /\ Len(Group.rules) \in Nat
  BY GroupsAreOK DEF GroupInv, GroupOK
<1>5. CASE task' = "assign" /\ ownership' = ownership
  <2>1. Len(ownership') \in Nat
    BY <1>5, OneMoreDecision DEF GroupInv
  <2> QED
    BY <1>1, <1>2, <1>3, <1>5, <2>1 DEF GroupInv
<1>6. CASE Len(ownership) # Len(Group.rules) /\ task' = task
  <2> DEFINE k == Len(ownership) + 1
             r == Group.rules[k]
             o == [language |-> Group.language, policy |-> "compatibility", profile |-> "guide",
                   setting |-> r.setting]
             d == Contextual(Group, resolveRuleDetailed(r.source, o, Group.accept))
  <2>1. ownership' = Append(ownership, d)
    BY <1>6 DEF Decide
  <2>2. Len(ownership) \in Nat /\ Len(ownership) <= Len(Group.rules)
    BY OneMoreDecision DEF GroupInv
  <2>3. k \in 1 .. Len(Group.rules)
    BY <1>4, <1>6, <2>2
  <2>4. Decided(Group, k, d)
    BY <1>4, <2>3, GroupDecision
  <2> HIDE DEF d
  <2>5. /\ \E S : ownership' \in Seq(S)
        /\ Len(ownership') = k
        /\ \A i \in 1 .. Len(ownership) : ownership'[i] = ownership[i]
        /\ ownership'[k] = d
    BY <2>1, OneMoreDecision DEF GroupInv
  <2>6. \A i \in 1 .. k : Decided(Group, i, ownership'[i])
    <3>1. ASSUME NEW i \in 1 .. k PROVE i = k \/ i \in 1 .. Len(ownership)
      BY <2>2
    <3> QED
      BY <2>4, <2>5, <3>1 DEF GroupInv
  <2> QED
    BY <1>1, <1>2, <1>3, <1>6, <2>2, <2>3, <2>5, <2>6 DEF GroupInv
<1> QED
  BY <1>1, <1>5, <1>6 DEF Decide

\* The next decision gives its target a setting, which takes none away that is on.
LEMMA AssignKeepsOwners == ASSUME GroupInv, Assign PROVE GroupInv'
<1> DEFINE d == ownership[assigned + 1]
<1>1. /\ task = "assign" /\ assigned < Len(ownership)
      /\ request' = request /\ ownership' = ownership /\ layers' = layers
      /\ Group' = Group
  BY DEF Assign, Group
<1>2. GroupsLeft'
  BY <1>1 DEF GroupInv, GroupsLeft
<1>3. Len(ownership) \in Nat /\ assigned \in Nat
  BY OneMoreDecision DEF GroupInv
<1>4. CASE task' = "threw" /\ UNCHANGED <<assigned, targets>>
  <2>1. Accounted'
    BY <1>1, <1>4 DEF GroupInv, Accounted
  <2> QED
    BY <1>1, <1>2, <1>4, <2>1 DEF GroupInv
<1>5. CASE /\ ~Conflicts(d) /\ targets' = Assigned(targets, d) /\ assigned' = assigned + 1
           /\ task' = task
  <2>1. assigned' \in 0 .. Len(ownership)
    BY <1>1, <1>3, <1>5
  <2>2. \A i \in 1 .. assigned' : i \in 1 .. assigned \/ i = assigned + 1
    BY <1>3, <1>5
  <2>3. assigned + 1 \in 1 .. assigned' /\ 1 .. assigned \subseteq 1 .. assigned'
    BY <1>3, <1>5
  <2> DEFINE new == IF IsOn(d.setting) THEN d.setting ELSE Off
  <2>4. CASE ~Transfers(d) \/ (~IsOn(d.setting) /\ d.target \in DOMAIN targets)
    <3>1. targets' = targets
      BY <1>5, <2>4 DEF Assigned
    <3>2. Accounted'
      BY <1>1, <2>2, <2>3, <2>4, <3>1 DEF GroupInv, Accounted
    <3> QED
      BY <1>1, <1>2, <1>5, <2>1, <3>2 DEF GroupInv
  <2>5. CASE Transfers(d) /\ (IsOn(d.setting) \/ d.target \notin DOMAIN targets)
    <3>1. targets' = [t \in DOMAIN targets \cup {d.target} |->
                        IF t # d.target THEN targets[t] ELSE new]
      BY <1>5, <2>5 DEF Assigned, WithTarget
    <3> HIDE DEF d, new
    <3>2. /\ DOMAIN targets' = DOMAIN targets \cup {d.target}
          /\ targets'[d.target] = new
          /\ \A t \in DOMAIN targets : t # d.target => targets'[t] = targets[t]
      BY <3>1
    <3>3. IsOn(d.setting) => new = d.setting
      BY DEF new
    <3>4. ~IsOn(d.setting) => ~IsOn(new)
      BY DEF new, IsOn, Off, Setting, severity
    <3>5. ASSUME NEW i \in 1 .. assigned, Transfers(ownership[i])
          PROVE  /\ ownership[i].target \in DOMAIN targets'
                 /\ IsOn(ownership[i].setting) =>
                        targets'[ownership[i].target] = ownership[i].setting
      <4>1. /\ ownership[i].target \in DOMAIN targets
            /\ IsOn(ownership[i].setting) => targets[ownership[i].target] = ownership[i].setting
        BY <3>5 DEF GroupInv, Accounted
      <4>2. CASE ownership[i].target # d.target
        BY <3>2, <4>1, <4>2
      <4>3. CASE ownership[i].target = d.target /\ IsOn(ownership[i].setting)
        <5>1. IsOn(d.setting) /\ targets[d.target] = ownership[i].setting
          BY <2>5, <4>1, <4>3 DEF d
        <5>2. targets[d.target] = d.setting
          BY <1>5, <2>5, <4>1, <4>3, <5>1 DEF Conflicts, d
        <5> QED
          BY <3>2, <3>3, <4>3, <5>1, <5>2
      <4>4. CASE ownership[i].target = d.target /\ ~IsOn(ownership[i].setting)
        BY <3>2, <4>4
      <4> QED
        BY <4>2, <4>3, <4>4
    <3>6. ASSUME NEW t \in DOMAIN targets', IsOn(targets'[t])
          PROVE  \E i \in 1 .. assigned' :
                     /\ Transfers(ownership[i])
                     /\ ownership[i].target = t
                     /\ ownership[i].setting = targets'[t]
      <4>1. CASE t = d.target
        <5>1. targets'[t] = d.setting
          BY <3>2, <3>3, <3>4, <3>6, <4>1
        <5> QED
          BY <2>3, <2>5, <4>1, <5>1 DEF d
      <4>2. CASE t # d.target
        <5>1. t \in DOMAIN targets /\ targets'[t] = targets[t]
          BY <3>2, <4>2
        <5>2. PICK i \in 1 .. assigned :
                  /\ Transfers(ownership[i])
                  /\ ownership[i].target = t
                  /\ ownership[i].setting = targets[t]
          BY <3>6, <5>1 DEF GroupInv, Accounted
        <5> QED
          BY <2>3, <5>1, <5>2
      <4> QED
        BY <4>1, <4>2
    <3>7. Transfers(d) => /\ d.target \in DOMAIN targets'
                          /\ IsOn(d.setting) => targets'[d.target] = d.setting
      BY <3>2, <3>3
    <3>8. Accounted'
      BY <1>1, <2>2, <3>5, <3>6, <3>7 DEF Accounted, d
    <3> QED
      BY <1>1, <1>2, <1>5, <2>1, <3>8 DEF GroupInv
  <2> QED
    BY <2>4, <2>5
<1> QED
  BY <1>4, <1>5 DEF Assign

LEMMA TailOfMore ==
    ASSUME NEW S, NEW s \in Seq(S), Len(s) > 1
    PROVE  Tail(s) \in Seq(S) /\ Tail(s) # <<>>
<1> DEFINE rest == Tail(s)
<1>1. Len(s) \in Nat /\ Len(s) > 1
  OBVIOUS
<1>2. rest \in Seq(S) /\ Len(rest) = Len(s) - 1
  OBVIOUS
<1> HIDE DEF rest
<1>3. Len(rest) > 0
  BY <1>1, <1>2
<1>4. rest # <<>>
  BY <1>3
<1> QED
  BY <1>2, <1>4 DEF rest

LEMMA NextGroupKeepsOwners == ASSUME GroupInv, NextGroup PROVE GroupInv'
<1> DEFINE gs == request.groups
<1>1. /\ request' = [request EXCEPT !.groups = Tail(@)]
      /\ request = [kind |-> "groups", groups |-> gs]
      /\ gs \in Seq(Groups) /\ Len(gs) > 1
  BY DEF NextGroup, GroupInv, GroupsLeft
<1> DEFINE rest == Tail(gs)
<1>2. rest \in Seq(Groups) /\ rest # <<>>
  BY <1>1, TailOfMore
<1>3. request' = [kind |-> "groups", groups |-> rest]
  <2>1. request' = [request EXCEPT !.groups = rest]
    BY <1>1
  <2>2. request = [kind |-> "groups", groups |-> gs]
    BY <1>1
  <2> HIDE DEF rest, gs
  <2> QED
    BY <2>1, <2>2
<1> HIDE DEF gs, rest
<1>4. GroupsLeft'
  BY <1>2, <1>3 DEF GroupsLeft
<1>5. Group' \in Groups
  BY <1>2, <1>3 DEF Group
<1>6. Len(Group'.rules) \in Nat
  BY <1>5, GroupsAreOK DEF GroupOK
<1>7. ownership' = <<>> /\ assigned' = 0 /\ targets' = NoRules /\ task' = "groups"
  BY DEF NextGroup
<1>8. ownership' \in Seq({}) /\ Len(ownership') = 0
  BY <1>7
<1>9. Accounted'
  <2>1. DOMAIN targets' = {}
    BY <1>7 DEF NoRules
  <2> QED
    BY <1>7, <2>1 DEF Accounted
<1> QED
  BY <1>4, <1>6, <1>7, <1>8, <1>9 DEF GroupInv

LEMMA FinalizeKeepsOwners == ASSUME GroupInv, finalizeProviders PROVE GroupInv'
<1>1. /\ task = "finalize" /\ layers = <<NoRules, targets>>
      /\ request' = request /\ ownership' = ownership /\ assigned' = assigned
      /\ targets' = targets /\ Group' = Group
  BY DEF finalizeProviders, GroupInv, Group
<1>2. GroupsLeft' /\ Accounted'
  BY <1>1 DEF GroupInv, GroupsLeft, Accounted
<1> DEFINE active == {ProviderOf[t] : t \in EnabledAnywhere(layers)}
           known == PROVIDERS \cup PROVIDER_ALIASES \cup (plugins \ Unnamed)
           ls == layers
           out == layers'
<1>3. task' = "threw" \/ (task' = "done" /\ out = Pruned(WithoutProviders(ls, known \ active), known))
  BY DEF finalizeProviders
<1>4. task' = "done" => EntriesKept(ls, out)
  <2>1. active = {ProviderOf[t] : t \in EnabledAnywhere(ls)}
    OBVIOUS
  <2> HIDE DEF active, known, ls, out
  <2> QED
    BY <1>3, <2>1, PrunedEntries
<1>5. task' = "done" => EntriesKept(<<NoRules, targets'>>, layers')
  BY <1>1, <1>4
<1>6. assigned' = Len(ownership')
  BY <1>1 DEF GroupInv
<1> HIDE DEF active, known, ls, out
<1> QED
  BY <1>1, <1>2, <1>3, <1>5, <1>6 DEF GroupInv

LEMMA OwnersInvOwns == ASSUME OwnersInv PROVE EachRuleHasOneOwner
<1> SUFFICES ASSUME task = "done", request.kind = "groups" PROVE EachRuleHasOneOwner
  BY DEF EachRuleHasOneOwner
<1> DEFINE rules == layers[2]
           Transferred(i) == ownership[i].status \in {"resolved", "disabled"}
           Carries(i, t) ==
               /\ Transferred(i) /\ ownership[i].target = t
               /\ t \in DOMAIN rules /\ rules[t].level = Group.rules[i].setting.level
           ls == <<NoRules, targets>>
<1>1. /\ GroupInv
      /\ DOMAIN ownership = 1 .. Len(ownership)
      /\ Accounted
      /\ assigned = Len(ownership)
      /\ EntriesKept(ls, layers)
  BY DEF OwnersInv, GroupInv
<1>2. ls[2] = targets /\ 2 \in DOMAIN ls
  OBVIOUS
<1>3. \A t \in DOMAIN targets : IsOn(targets[t]) => t \in EnabledAnywhere(ls)
  <2>1. ASSUME NEW t \in DOMAIN targets, IsOn(targets[t]) PROVE t \in Enabled(ls[2])
    BY <1>2, <2>1 DEF Enabled, IsOn
  <2> HIDE DEF ls
  <2> QED
    BY <1>2, <2>1 DEF EnabledAnywhere
<1> HIDE DEF ls
<1>4. \A t : /\ t \in DOMAIN rules => t \in DOMAIN targets /\ rules[t] = targets[t]
             /\ t \in DOMAIN targets /\ IsOn(targets[t]) => t \in DOMAIN rules
  BY <1>1, <1>2, <1>3 DEF EntriesKept
<1> HIDE DEF rules
<1>5. ASSUME NEW i \in DOMAIN ownership, IsOn(Group.rules[i].setting), Transferred(i),
             ~Inert(Group, Group.rules[i].source)
      PROVE  Carries(i, ownership[i].target)
  <2>1. /\ ownership[i].setting.level = Group.rules[i].setting.level
        /\ ownership[i].target # Nothing
    BY <1>1, <1>5 DEF GroupInv, Decided
  <2>2. IsOn(ownership[i].setting)
    BY <1>5, <2>1, SeverityOfLevel DEF IsOn
  <2>3. /\ ownership[i].target \in DOMAIN targets
        /\ targets[ownership[i].target] = ownership[i].setting
    BY <1>1, <1>5, <2>1, <2>2 DEF Accounted, Transfers
  <2> QED
    BY <1>4, <1>5, <2>1, <2>2, <2>3
<1>6. ASSUME NEW t \in Enabled(rules) PROVE \E i \in DOMAIN ownership : Carries(i, t)
  <2>1. t \in DOMAIN rules /\ t \in DOMAIN targets /\ rules[t] = targets[t] /\ IsOn(targets[t])
    BY <1>4, <1>6 DEF Enabled, IsOn
  <2>2. PICK i \in 1 .. assigned :
            /\ Transfers(ownership[i])
            /\ ownership[i].target = t
            /\ ownership[i].setting = targets[t]
    BY <1>1, <2>1 DEF Accounted
  <2>3. Transferred(i) /\ ownership[i].setting.level = Group.rules[i].setting.level
    BY <1>1, <2>2 DEF GroupInv, Decided, Transfers
  <2> QED
    BY <1>1, <2>1, <2>2, <2>3
<1>7. /\ \A i \in DOMAIN ownership :
             severity(Group.rules[i].setting) > 0 =>
                 \/ ~Transferred(i)
                 \/ Carries(i, ownership[i].target)
                 \/ Inert(Group, Group.rules[i].source)
      /\ \A t \in Enabled(rules) : \E i \in DOMAIN ownership : Carries(i, t)
  <2> HIDE DEF Carries, Transferred
  <2> QED
    BY <1>5, <1>6 DEF IsOn
<1> QED
  BY <1>7 DEF EachRuleHasOneOwner, rules

\* Every rule that the consumer has turned on keeps exactly one owner at its level
\* (createCompatibilityConfig), in any number of groups with any number of rules.
THEOREM OwnersAlwaysOne == ConfigSpec => []EachRuleHasOneOwner
<1>1. ASSUME OwnersInv, [ConfigNext]_configVars PROVE OwnersInv'
  <2>1. CASE RefuseGroup
    <3>1. Group' = Group /\ Accounted' = Accounted /\ GroupsLeft' = GroupsLeft
      BY <2>1 DEF RefuseGroup, Group, Accounted, GroupsLeft
    <3> QED
      BY <1>1, <2>1, <3>1 DEF RefuseGroup, OwnersInv, GroupInv
  <2>2. CASE Decide
    <3>1. GroupInv'
      BY <1>1, <2>2, DecideKeepsOwners DEF OwnersInv, Decide
    <3>2. request' = request /\ request.kind = "groups"
      BY <1>1, <2>2 DEF Decide, OwnersInv
    <3> QED
      BY <3>1, <3>2 DEF OwnersInv
  <2>3. CASE Assign
    <3>1. GroupInv'
      BY <1>1, <2>3, AssignKeepsOwners DEF OwnersInv, Assign
    <3>2. request' = request /\ request.kind = "groups"
      BY <1>1, <2>3 DEF Assign, OwnersInv
    <3> QED
      BY <3>1, <3>2 DEF OwnersInv
  <2>4. CASE Override
    <3>1. Group' = Group /\ Accounted' = Accounted /\ GroupsLeft' = GroupsLeft
      BY <2>4 DEF Override, Group, Accounted, GroupsLeft
    <3> QED
      BY <1>1, <2>4, <3>1 DEF Override, OwnersInv, GroupInv
  <2>5. CASE NextGroup
    <3>1. GroupInv'
      BY <1>1, <2>5, NextGroupKeepsOwners DEF OwnersInv, NextGroup
    <3>2. request'.kind = "groups"
      BY <3>1 DEF GroupInv, GroupsLeft
    <3> QED
      BY <3>1, <3>2 DEF OwnersInv
  <2>6. CASE CreateConfig \/ Write
    <3>1. /\ task \in {"preset", "own"} /\ task' \in {"threw", "finalize"}
          /\ request' = request
      BY <2>6 DEF CreateConfig, Write
    <3>2. request.kind # "groups"
      BY <1>1, <3>1 DEF OwnersInv, GroupInv
    <3> QED
      BY <3>1, <3>2 DEF OwnersInv
  <2>7. CASE finalizeProviders
    <3>1. request' = request /\ task' \in {"threw", "done"}
      BY <2>7 DEF finalizeProviders
    <3>2. request.kind = "groups" => GroupInv'
      BY <1>1, <2>7, FinalizeKeepsOwners DEF OwnersInv
    <3> QED
      BY <3>1, <3>2 DEF OwnersInv
  <2>8. CASE UNCHANGED configVars
    <3>1. Group' = Group /\ Accounted' = Accounted /\ GroupsLeft' = GroupsLeft
      BY <2>8 DEF configVars, Group, Accounted, GroupsLeft
    <3> QED
      BY <1>1, <2>8, <3>1 DEF configVars, OwnersInv, GroupInv
  <2> QED
    BY <1>1, <2>1, <2>2, <2>3, <2>4, <2>5, <2>6, <2>7, <2>8 DEF ConfigNext
<1> QED
  BY <1>1, OwnersInitHasInv, OwnersInvOwns, PTL DEF ConfigSpec

-----------------------------------------------------------------------------
(* The policy on the sources.  A name is looked up in the scopes around    *)
(* its use, and only there, for every file: that a declaration found there *)
(* is one that the language sees, although the old kind of variable is     *)
(* collected in the block that it stands in.                               *)

PolicySpec == PolicyInit /\ [][PolicyNext]_policyVars

\* The nodes are a tree with the program at its root.
Tree ==
    /\ Len(file.nodes) \in Nat \ {0}
    /\ Nodes = 1 .. Len(file.nodes)
    /\ Kind(1) = "program"
    /\ \A n \in Nodes : n # 1 => Parent(n) = {file.nodes[n].parent}
    /\ \A n \in Nodes : n # 1 => file.nodes[n].parent \in 1 .. n - 1
    /\ Parent(1) = {}

\* A set of nodes with the parents of its nodes.
ParentClosed(S) ==
    /\ S \in SUBSET Nodes
    /\ \A p \in S : Parent(p) \subseteq S

LEMMA AroundWithin ==
    ASSUME NEW n, NEW S, ParentClosed(S), n \in S
    PROVE  Around(n) \subseteq S
BY DEF Around, ParentClosed

LEMMA AroundIsClosed ==
    ASSUME Tree, NEW n \in Nodes
    PROVE  /\ ParentClosed(Around(n))
           /\ n \in Around(n)
<1>1. ASSUME NEW m \in Around(n), NEW p \in Parent(m) PROVE p \in Around(n)
  <2>1. m \in Nodes /\ p \in Nodes
    BY <1>1 DEF Around, Tree
  <2>2. ASSUME NEW S \in SUBSET Nodes, n \in S, \A q \in S : Parent(q) \subseteq S PROVE p \in S
    BY <1>1, <2>2 DEF Around
  <2> QED
    BY <2>1, <2>2 DEF Around
<1> QED
  BY <1>1 DEF ParentClosed, Around

\* What is around something around a node is around the node.
LEMMA AroundTransitive ==
    ASSUME Tree, NEW n \in Nodes, NEW m \in Around(n)
    PROVE  Around(m) \subseteq Around(n)
BY AroundIsClosed, AroundWithin

\* What is around a node is the node itself, or around its parent.
LEMMA AroundParent ==
    ASSUME Tree, NEW n \in Nodes, NEW p \in Parent(n)
    PROVE  /\ Around(n) \subseteq {n} \cup Around(p)
           /\ Around(p) \subseteq Around(n)
           /\ p \in Nodes /\ p < n
<1>1. /\ p \in Nodes
      /\ p < n
      /\ Parent(n) = {p}
  BY DEF Tree
<1>2. /\ ParentClosed(Around(p))
      /\ p \in Around(p)
      /\ ParentClosed(Around(n))
      /\ n \in Around(n)
  BY <1>1, AroundIsClosed
<1>3. ParentClosed({n} \cup Around(p))
  BY <1>1, <1>2 DEF ParentClosed
<1>4. p \in Around(n)
  BY <1>1, <1>2 DEF ParentClosed
<1> QED
  BY <1>1, <1>3, <1>4, AroundWithin, AroundTransitive

\* A node comes after the ones around it.
LEMMA AroundBefore ==
    ASSUME Tree, NEW n \in Nodes, NEW m \in Around(n)
    PROVE  m \in Nodes /\ m <= n
<1> DEFINE S == {k \in Nodes : k <= n}
<1>1. ASSUME NEW k \in S, NEW p \in Parent(k) PROVE p \in S
  <2>1. p \in Nodes /\ p < k
    BY AroundParent
  <2> QED
    BY <2>1 DEF Tree
<1>2. ParentClosed(S) /\ n \in S
  BY <1>1 DEF ParentClosed, Tree
<1> HIDE DEF S
<1>3. m \in S
  BY <1>2, AroundWithin
<1> QED
  BY <1>3 DEF S

\* The program is around every node.
LEMMA ProgramAround ==
    ASSUME Tree, NEW n \in Nodes
    PROVE  1 \in Around(n)
<1> DEFINE m == Least(Around(n))
<1>1. /\ m \in Around(n)
      /\ \A k \in Around(n) : m <= k
  <2>1. Around(n) \subseteq Nat /\ Around(n) # {}
    BY AroundIsClosed DEF ParentClosed, Tree
  <2> QED
    BY <2>1, LeastNat
<1> HIDE DEF m
<1>2. m \in Nodes
  BY <1>1, AroundBefore
<1> SUFFICES ASSUME m # 1 PROVE FALSE
  BY <1>1
<1> DEFINE p == file.nodes[m].parent
<1>3. p \in Parent(m) /\ p \in 1 .. m - 1
  BY <1>2 DEF Tree
<1>4. p \in Around(n)
  BY <1>1, <1>3, AroundIsClosed DEF ParentClosed
<1> QED
  BY <1>1, <1>2, <1>3, <1>4 DEF Tree

\* Of two nodes around a third, the earlier is around the later.
LEMMA AroundChain ==
    ASSUME Tree, NEW d \in Nodes, NEW x \in Around(d), NEW y \in Around(d), x <= y
    PROVE  x \in Around(y)
<1> DEFINE S == {m \in Around(d) : m < x \/ x \in Around(m)}
<1>1. x \in Nodes /\ y \in Nodes
  BY AroundBefore
<1>2. ParentClosed(Around(d)) /\ d \in Around(d)
  BY AroundIsClosed
<1>3. ASSUME NEW m \in S, NEW p \in Parent(m) PROVE p \in S
  <2>1. /\ m \in Nodes
        /\ p \in Around(d)
    BY <1>2 DEF ParentClosed
  <2>2. /\ Around(m) \subseteq {m} \cup Around(p)
        /\ p \in Nodes
        /\ p < m
    BY <2>1, AroundParent
  <2>3. CASE m < x
    <3>1. p < x
      BY <1>1, <2>1, <2>2, <2>3 DEF Tree
    <3> QED
      BY <2>1, <3>1
  <2>4. CASE x \in Around(m)
    BY <2>1, <2>2, <2>4
  <2> QED
    BY <2>3, <2>4
<1>4. ParentClosed(S) /\ d \in S
  BY <1>2, <1>3 DEF ParentClosed
<1> HIDE DEF S
<1>5. y \in S
  BY <1>4, AroundWithin
<1>6. ~(y < x)
  BY <1>1 DEF Tree
<1> QED
  BY <1>5, <1>6 DEF S

LEMMA InnermostOf ==
    ASSUME Tree, NEW S \in SUBSET Nodes, S # {}
    PROVE  /\ Innermost(S) \in S
           /\ \A m \in S : m <= Innermost(S)
<1>1. \E n \in S : \A m \in S : m <= n
  BY GreatestExists DEF Tree
<1> QED
  BY <1>1 DEF Innermost

\* The scope that a node stands in is around it, and the last such one.
LEMMA ScopeAround ==
    ASSUME Tree, NEW d \in Nodes, d # 1
    PROVE  \E p \in Parent(d) :
             /\ ScopeOf(d) \in Scopes(p)
             /\ \A s \in Scopes(p) : s <= ScopeOf(d)
<1> DEFINE p == file.nodes[d].parent
<1>1. Parent(d) = {p} /\ p \in Nodes
  BY DEF Tree
<1> HIDE DEF p
<1>2. (UNION {Scopes(q) : q \in Parent(d)}) = Scopes(p)
  BY <1>1
<1>3. Scopes(p) \in SUBSET Nodes
  BY DEF Scopes, Around
<1>4. 1 \in Scopes(p)
  BY <1>1, ProgramAround DEF Tree, Scopes, scopeKinds
<1>5. ScopeOf(d) = Innermost(Scopes(p))
  BY <1>2 DEF ScopeOf
<1> QED
  BY <1>1, <1>3, <1>4, <1>5, InnermostOf

\* A declaration is seen wherever the scope is one that collects it: the function that a
\* variable of the old kind is of is around the block that it stands in.
LEMMA CollectedIsDeclared ==
    ASSUME Tree, NEW n \in Nodes, NEW name, NEW s \in Scopes(n), NEW d \in Collected(s, name)
    PROVE  Declares(d, n, name)
<1>1. s \in Around(n) /\ s \in Nodes /\ d \in Nodes /\ Name(d) = name
  BY AroundBefore DEF Scopes, Collected
<1>2. CASE d = s /\ Kind(d) \in {"function", "expression"}
  BY <1>1, <1>2 DEF Declares
<1>3. CASE /\ Kind(d) \in {"let", "var", "import", "importFactory", "function", "parameter"}
           /\ ScopeOf(d) = s
  <2>1. CASE Kind(d) # "var"
    BY <1>1, <1>3, <2>1 DEF Declares, Home
  <2>2. CASE Kind(d) = "var"
    <3> DEFINE F == Scopes(d) \cap {h \in Nodes : Kind(h) \in Functions}
               home == Innermost(F)
    <3>1. d # 1
      BY <2>2 DEF Tree
    <3>2. PICK p \in Parent(d) : s \in Scopes(p) /\ \A h \in Scopes(p) : h <= s
      BY <1>1, <1>3, <3>1, ScopeAround
    <3>3. /\ Around(d) \subseteq {d} \cup Around(p)
          /\ p \in Nodes
      BY <1>1, AroundParent
    <3>4. 1 \in F
      BY <1>1, ProgramAround DEF Tree, Scopes, scopeKinds, Functions
    <3>5. F \in SUBSET Nodes
      OBVIOUS
    <3>6. home \in F
      <4> HIDE DEF F
      <4> QED
        BY <3>4, <3>5, InnermostOf
    <3>7. home \in Scopes(d) /\ Kind(home) \in Functions
      <4> HIDE DEF home
      <4> QED
        BY <3>6
    <3> HIDE DEF F, home
    <3>8. home # d
      BY <2>2, <3>7 DEF Functions
    <3>9. home \in Around(p) /\ home <= s /\ s \in Around(p)
      BY <3>2, <3>3, <3>7, <3>8 DEF Scopes
    <3>10. home \in Around(s)
      BY <3>3, <3>9, AroundChain
    <3>11. home \in Around(n)
      BY <1>1, <3>10, AroundTransitive
    <3>12. Home(d) = home
      BY <2>2 DEF Home, home, F
    <3> QED
      BY <1>1, <2>2, <3>11, <3>12 DEF Declares
  <2> QED
    BY <2>1, <2>2
<1> QED
  BY <1>2, <1>3 DEF Collected

\* Without variables of the old kind, every declaration that is seen is collected in a scope
\* around.
LEMMA DeclaredIsCollected ==
    ASSUME Tree, NEW n \in Nodes, NEW name, NEW d \in Nodes, Kind(d) # "var", Declares(d, n, name)
    PROVE  \E s \in Scopes(n) : d \in Collected(s, name)
<1>1. Name(d) = name
  BY DEF Declares
<1>2. CASE Kind(d) \in {"function", "expression"} /\ d \in Around(n)
  <2>1. d \in Scopes(n)
    BY <1>2 DEF Scopes, scopeKinds
  <2>2. d \in Collected(d, name)
    BY <1>1, <1>2 DEF Collected
  <2> QED
    BY <2>1, <2>2
<1>3. CASE /\ Kind(d) \in {"let", "var", "import", "importFactory", "function", "parameter"}
           /\ Home(d) \in Around(n)
  <2> DEFINE s == ScopeOf(d)
  <2>1. d # 1
    BY <1>3 DEF Tree
  <2>2. Kind(s) \in scopeKinds
    BY <2>1, ScopeAround DEF Scopes
  <2>3. s \in Around(n)
    BY <1>3 DEF Home
  <2>4. d \in Collected(s, name)
    BY <1>1, <1>3 DEF Collected
  <2> HIDE DEF s
  <2> QED
    BY <2>2, <2>3, <2>4 DEF Scopes
<1> QED
  BY <1>2, <1>3 DEF Declares

\* The uses that the policy is about: what is reported of them is decided by the lookup.
Use(n) == Kind(n) = "exports" \/ (Kind(n) = "call" /\ Name(n) = "require" /\ ~file.nodes[n].local)

LEMMA LookupDecides ==
    ASSUME NEW n \in Nodes, Use(n)
    PROVE  Reported(n) <=> \A s \in Scopes(n) : Collected(s, Name(n)) = {}
<1> DEFINE global == lookup(n, Name(n)) = "global"
<1>1. Reported(n) <=> global
  <2>1. CASE Kind(n) = "exports"
    BY <2>1 DEF Reported
  <2>2. CASE Kind(n) = "call" /\ Name(n) = "require" /\ ~file.nodes[n].local
    <3> HIDE DEF global
    <3>1. lookup(n, Name(n)) = "global" <=> global
      BY DEF global
    <3> QED
      BY <2>2, <3>1 DEF Reported
  <2> QED
    BY <2>1, <2>2 DEF Use
<1>2. global <=> {s \in Scopes(n) : Collected(s, Name(n)) # {}} = {}
  BY DEF lookup
<1> QED
  BY <1>1, <1>2

\* What was visited so far, and reported of it.
Reports == {n \in Nodes : Reported(n)}
PolicyInv ==
    /\ file \in Sources
    /\ ~file.javascript =>
           /\ at \in Nat
           /\ issues = {n \in Reports : n < at}

LEMMA SourceIsTree == ASSUME file \in Sources PROVE Tree
<1>1. /\ Len(file.nodes) \in Nat \ {0}
      /\ DOMAIN file.nodes = 1 .. Len(file.nodes)
      /\ file.nodes[1].kind = "program"
      /\ \A n \in 2 .. Len(file.nodes) : file.nodes[n].parent \in 1 .. n - 1
  BY SourcesAssumption
<1> QED
  BY <1>1 DEF Tree, Nodes, Kind, Parent

LEMMA PolicyInvReports == ASSUME PolicyInv PROVE GlobalsReported
<1>1. Tree
  BY SourceIsTree DEF PolicyInv
<1> SUFFICES ASSUME at > Len(file.nodes), ~file.javascript, NEW n \in Nodes, Use(n)
             PROVE  /\ ~(\E d \in Nodes : Declares(d, n, Name(n))) => n \in issues
                    /\ /\ \E d \in Nodes : Declares(d, n, Name(n))
                       /\ \A d \in Nodes : Kind(d) # "var"
                       => n \notin issues
  BY DEF GlobalsReported, Use
<1>2. n < at
  BY <1>1 DEF PolicyInv, Tree
<1>3. n \in issues <=> Reported(n)
  <2>1. n \in issues <=> n \in Reports
    BY <1>2 DEF PolicyInv
  <2>2. n \in Reports <=> Reported(n)
    BY Zenon DEF Reports
  <2> QED
    BY Zenon, <2>1, <2>2
<1>4. n \in issues <=> \A s \in Scopes(n) : Collected(s, Name(n)) = {}
  BY <1>3, LookupDecides
<1>5. ASSUME ~(\E d \in Nodes : Declares(d, n, Name(n))) PROVE n \in issues
  <2>1. ASSUME NEW s \in Scopes(n), NEW d \in Collected(s, Name(n)) PROVE FALSE
    <3>1. d \in Nodes
      BY <2>1 DEF Collected
    <3> QED
      BY <1>1, <1>5, <2>1, <3>1, CollectedIsDeclared
  <2> QED
    BY <1>4, <2>1
<1>6. ASSUME NEW d \in Nodes, Declares(d, n, Name(n)), \A e \in Nodes : Kind(e) # "var"
      PROVE  n \notin issues
  <2>1. \E s \in Scopes(n) : d \in Collected(s, Name(n))
    BY <1>1, <1>6, DeclaredIsCollected
  <2> QED
    BY <1>4, <2>1
<1> QED
  BY <1>5, <1>6

\* No use of the module globals of CommonJS passes, and without variables of the old kind no
\* local name is taken for one, in every tree of nodes (inspectSource).
THEOREM GlobalsAlwaysReported == PolicySpec => []GlobalsReported
<1>1. PolicyInit => PolicyInv
  <2> SUFFICES ASSUME PolicyInit PROVE PolicyInv
    OBVIOUS
  <2>1. Nodes = 1 .. Len(file.nodes)
    BY SourceIsTree DEF PolicyInit, Tree
  <2>2. {n \in Reports : n < 1} = {}
    BY <2>1 DEF Reports
  <2> QED
    BY <2>2 DEF PolicyInit, PolicyInv
<1>2. ASSUME PolicyInv, [PolicyNext]_policyVars PROVE PolicyInv'
  <2>1. file' = file
    BY <1>2 DEF PolicyNext, RefuseFile, Visit, policyVars
  <2>2. Reports' = Reports
    BY <2>1 DEF Reports, Nodes, Reported, Kind, Name, lookup, External, isFactoryCall, Parent,
                        Collected, Scopes, ScopeOf, Around, IsBridge, factories
  <2>3. CASE RefuseFile
    BY <1>2, <2>1, <2>3 DEF RefuseFile, PolicyInv
  <2>4. CASE Visit
    <3>1. /\ ~file.javascript
          /\ at \in Nodes
          /\ at' = at + 1
          /\ issues' = issues \cup {n \in {at} : Reported(n)}
      BY <2>4 DEF Visit
    <3>2. Nodes = 1 .. Len(file.nodes) /\ Len(file.nodes) \in Nat
      BY <1>2, SourceIsTree DEF PolicyInv, Tree
    <3>3. \A n \in Nodes : (n < at + 1) <=> (n < at \/ n = at)
      BY <3>1, <3>2
    <3>4. issues' = {n \in Reports : n < at + 1}
      BY <1>2, <3>1, <3>3 DEF PolicyInv, Reports
    <3>5. at + 1 \in Nat
      BY <3>1, <3>2
    <3> QED
      BY <1>2, <2>1, <2>2, <3>1, <3>4, <3>5 DEF PolicyInv
  <2>5. CASE UNCHANGED policyVars
    BY <1>2, <2>1, <2>2, <2>5 DEF policyVars, PolicyInv
  <2> QED
    BY <1>2, <2>3, <2>4, <2>5 DEF PolicyNext
<1>3. PolicyInv => GlobalsReported
  BY PolicyInvReports
<1> QED
  BY <1>1, <1>2, <1>3, PTL DEF PolicySpec

-----------------------------------------------------------------------------
(* The contexts of the plugin's rules.  Every adapter that a rule of the   *)
(* file has is of the file and its one analysis, and a rule has handled    *)
(* the starts of exactly the reachable segments that it was told of.       *)

PluginSpec == PluginInit /\ [][PluginNext]_pluginVars

\* The recursive functions exist, as nodes are numbered before those below them: of the numbers
\* up to which there is none, there would be a least one.
LEMMA FunctionsAroundDefined ==
    ASSUME NEW f, Parsed(f)
    PROVE  FunctionsAround(f) = [m \in 1 .. Len(f.parent) |->
               IF m \in f.functions \cup {1} THEN m ELSE FunctionsAround(f)[f.parent[m]]]
<1> DEFINE N == Len(f.parent)
           From(g, m) == IF m \in f.functions \cup {1} THEN m ELSE g[f.parent[m]]
           Partial(n) == \E g : g = [m \in 1 .. n |-> From(g, m)]
           Missing == {n \in 0 .. N : ~Partial(n)}
<1>1. N \in Nat /\ \A n \in 2 .. N : f.parent[n] \in 1 .. n - 1
  BY DEF Parsed
<1>2. Partial(0)
  <2> DEFINE e == [m \in 1 .. 0 |-> m]
  <2>1. e = [m \in 1 .. 0 |-> From(e, m)]
    OBVIOUS
  <2> QED
    BY <2>1
<1>3. ASSUME NEW n \in 1 .. N, Partial(n - 1) PROVE Partial(n)
  <2>1. PICK g : g = [m \in 1 .. n - 1 |-> From(g, m)]
    BY <1>3
  <2> DEFINE h == [m \in 1 .. n |-> IF m = n THEN From(g, n) ELSE g[m]]
  <2>2. ASSUME NEW m \in 1 .. n PROVE h[m] = From(g, m)
    <3>1. CASE m = n
      BY <3>1
    <3>2. CASE m # n
      <4>1. m \in 1 .. n - 1
        BY <1>1, <3>2
      <4> QED
        BY <2>1, <3>2, <4>1
    <3> QED
      BY <3>1, <3>2
  <2>3. ASSUME NEW m \in 1 .. n PROVE From(g, m) = From(h, m)
    <3>1. CASE m \in f.functions \cup {1}
      BY <3>1
    <3>2. CASE m \notin f.functions \cup {1}
      <4>1. f.parent[m] \in 1 .. n - 1
        BY <1>1, <3>2
      <4>2. h[f.parent[m]] = g[f.parent[m]]
        BY <1>1, <4>1
      <4> QED
        BY <3>2, <4>2
    <3> QED
      BY <3>1, <3>2
  <2>4. h = [m \in 1 .. n |-> From(h, m)]
    <3>1. \A m \in 1 .. n : h[m] = From(h, m)
      BY <2>2, <2>3
    <3>2. h = [m \in 1 .. n |-> h[m]]
      OBVIOUS
    <3> HIDE DEF h, From
    <3> QED
      BY <3>1, <3>2
  <2> QED
    BY <2>4
<1>4. Partial(N)
  <2> SUFFICES ASSUME ~Partial(N) PROVE FALSE
    OBVIOUS
  <2> HIDE DEF Partial
  <2>1. Missing \subseteq Nat /\ Missing # {}
    BY <1>1
  <2>2. Least(Missing) \in Missing /\ \A m \in Missing : Least(Missing) <= m
    <3> HIDE DEF Missing
    <3> QED
      BY <2>1, LeastNat
  <2>3. Least(Missing) # 0
    BY <1>2, <2>2
  <2>4. Least(Missing) - 1 \in 0 .. N /\ Least(Missing) - 1 \notin Missing
    BY <1>1, <2>2, <2>3
  <2>5. Partial(Least(Missing) - 1) /\ Least(Missing) \in 1 .. N
    BY <1>1, <2>2, <2>3, <2>4
  <2> QED
    BY <1>3, <2>2, <2>5
<1>5. FunctionsAround(f) = CHOOSE g : g = [m \in 1 .. N |-> From(g, m)]
  BY DEF FunctionsAround
<1> QED
  BY <1>4, <1>5

LEMMA NodesAroundDefined ==
    ASSUME NEW f, Parsed(f)
    PROVE  NodesAround(f) = [n \in 1 .. Len(f.parent) |->
               {n} \cup (IF n = 1 THEN {} ELSE NodesAround(f)[f.parent[n]])]
<1> DEFINE N == Len(f.parent)
           From(g, n) == {n} \cup (IF n = 1 THEN {} ELSE g[f.parent[n]])
           Partial(k) == \E g : g = [n \in 1 .. k |-> From(g, n)]
           Missing == {k \in 0 .. N : ~Partial(k)}
<1>1. N \in Nat /\ \A n \in 2 .. N : f.parent[n] \in 1 .. n - 1
  BY DEF Parsed
<1>2. Partial(0)
  <2> DEFINE e == [n \in 1 .. 0 |-> n]
  <2>1. e = [n \in 1 .. 0 |-> From(e, n)]
    OBVIOUS
  <2> QED
    BY <2>1
<1>3. ASSUME NEW k \in 1 .. N, Partial(k - 1) PROVE Partial(k)
  <2>1. PICK g : g = [n \in 1 .. k - 1 |-> From(g, n)]
    BY <1>3
  <2> DEFINE h == [n \in 1 .. k |-> IF n = k THEN From(g, k) ELSE g[n]]
  <2>2. ASSUME NEW n \in 1 .. k PROVE h[n] = From(g, n)
    <3>1. CASE n = k
      BY <3>1
    <3>2. CASE n # k
      <4>1. n \in 1 .. k - 1
        BY <1>1, <3>2
      <4>2. g[n] = From(g, n)
        <5> HIDE DEF From
        <5> QED
          BY <2>1, <4>1
      <4>3. h[n] = g[n]
        BY <3>2
      <4> QED
        BY <4>2, <4>3
    <3> QED
      BY <3>1, <3>2
  <2>3. ASSUME NEW n \in 1 .. k PROVE From(g, n) = From(h, n)
    <3>1. CASE n = 1
      BY <3>1
    <3>2. CASE n # 1
      <4>1. f.parent[n] \in 1 .. k - 1
        BY <1>1, <3>2
      <4>2. h[f.parent[n]] = g[f.parent[n]]
        BY <1>1, <4>1
      <4> QED
        BY <3>2, <4>2
    <3> QED
      BY <3>1, <3>2
  <2>4. h = [n \in 1 .. k |-> From(h, n)]
    <3>1. \A n \in 1 .. k : h[n] = From(h, n)
      BY <2>2, <2>3
    <3>2. h = [n \in 1 .. k |-> h[n]]
      OBVIOUS
    <3> HIDE DEF h, From
    <3> QED
      BY <3>1, <3>2
  <2> QED
    BY <2>4
<1>4. Partial(N)
  <2> SUFFICES ASSUME ~Partial(N) PROVE FALSE
    OBVIOUS
  <2> HIDE DEF Partial
  <2>1. Missing \subseteq Nat /\ Missing # {}
    BY <1>1
  <2>2. Least(Missing) \in Missing /\ \A m \in Missing : Least(Missing) <= m
    <3> HIDE DEF Missing
    <3> QED
      BY <2>1, LeastNat
  <2>3. Least(Missing) # 0
    BY <1>2, <2>2
  <2>4. Least(Missing) - 1 \in 0 .. N /\ Least(Missing) - 1 \notin Missing
    BY <1>1, <2>2, <2>3
  <2>5. Partial(Least(Missing) - 1) /\ Least(Missing) \in 1 .. N
    BY <1>1, <2>2, <2>3, <2>4
  <2> QED
    BY <1>3, <2>2, <2>5
<1>5. NodesAround(f) = CHOOSE g : g = [n \in 1 .. N |-> From(g, n)]
  BY DEF NodesAround
<1> QED
  BY <1>4, <1>5

\* The function that getScope finds is the last one around the node, and without one it finds
\* the program.
LEMMA LastFunctionAround ==
    ASSUME NEW f, Parsed(f), NEW n \in 1 .. Len(f.parent)
    PROVE  LET around == NodesAround(f)[n] \cap f.functions
           IN  /\ around = {} => FunctionsAround(f)[n] = 1
               /\ around # {} => /\ FunctionsAround(f)[n] \in around
                                 /\ \A k \in around : k <= FunctionsAround(f)[n]
<1> DEFINE N == Len(f.parent)
           around(m) == NodesAround(f)[m] \cap f.functions
           up(m) == FunctionsAround(f)[m]
           Right(m) == /\ NodesAround(f)[m] \subseteq 1 .. m
                       /\ around(m) = {} => up(m) = 1
                       /\ around(m) # {} => up(m) \in around(m) /\ \A k \in around(m) : k <= up(m)
           Wrong == {m \in 1 .. N : ~Right(m)}
<1>1. N \in Nat /\ f.functions \subseteq 2 .. N /\ \A m \in 2 .. N : f.parent[m] \in 1 .. m - 1
  BY DEF Parsed
<1>2. \A m \in 1 .. N :
          /\ up(m) = IF m \in f.functions \cup {1} THEN m ELSE up(f.parent[m])
          /\ NodesAround(f)[m] = {m} \cup (IF m = 1 THEN {} ELSE NodesAround(f)[f.parent[m]])
  BY FunctionsAroundDefined, NodesAroundDefined
<1>3. ASSUME 1 \in 1 .. N PROVE Right(1)
  <2>1. NodesAround(f)[1] = {1} /\ up(1) = 1 /\ 1 \notin f.functions
    BY <1>1, <1>2, <1>3
  <2> QED
    BY <2>1
<1>4. ASSUME NEW m \in 2 .. N, Right(f.parent[m]) PROVE Right(m)
  <2> DEFINE p == f.parent[m]
  <2>1. p \in 1 .. m - 1 /\ NodesAround(f)[m] = {m} \cup NodesAround(f)[p]
    BY <1>1, <1>2
  <2>2. NodesAround(f)[m] \subseteq 1 .. m
    BY <1>1, <1>4, <2>1
  <2>3. CASE m \in f.functions
    <3>1. up(m) = m /\ m \in around(m)
      BY <1>1, <1>2, <2>1, <2>3
    <3> QED
      BY <1>1, <2>2, <3>1
  <2>4. CASE m \notin f.functions
    <3>1. up(m) = up(p) /\ around(m) = around(p)
      BY <1>1, <1>2, <2>1, <2>4
    <3> QED
      BY <1>4, <2>2, <3>1
  <2> QED
    BY <2>3, <2>4
<1>5. Wrong = {}
  <2> SUFFICES ASSUME Wrong # {} PROVE FALSE
    OBVIOUS
  <2> HIDE DEF Right
  <2>1. Wrong \subseteq Nat
    BY <1>1
  <2> DEFINE w == Least(Wrong)
  <2>2. w \in Wrong /\ \A m \in Wrong : w <= m
    <3> HIDE DEF Wrong
    <3> QED
      BY <2>1, LeastNat
  <2> HIDE DEF w
  <2>3. w \in 1 .. N /\ ~Right(w)
    BY <2>2
  <2>4. w \in 2 .. N
    BY <1>1, <1>3, <2>3
  <2>5. f.parent[w] \in 1 .. w - 1
    BY <1>1, <2>4
  <2>6. f.parent[w] \in 1 .. N /\ f.parent[w] \notin Wrong
    BY <1>1, <2>2, <2>4, <2>5
  <2> QED
    BY <1>4, <2>3, <2>4, <2>6
<1> QED
  BY <1>5

\* Whatever is configured, a directive decides over the name, unless the file declares it.
LEMMA DirectivesDecide ==
    ASSUME NEW f, Parsed(f), NEW name \in DOMAIN Directed(f), name \notin f.declared[1]
    PROVE  name \in DOMAIN Globals(f) <=> Directed(f)[name] # "off"
<1>1. CASE Typed(f)
  <2>1. \A n \in DOMAIN f.native : f.native[n].defined => n \in f.declared[1]
    BY <1>1 DEF Parsed
  <2> DEFINE directed == Directed(f)
             off == {n \in DOMAIN directed : directed[n] = "off"}
             dropped == {n \in DOMAIN f.native \cap off : ~f.native[n].defined}
             added == DOMAIN directed \ (off \cup DOMAIN f.native)
  <2>2. DOMAIN NativeGlobals(f) = added \cup (DOMAIN f.native \ dropped)
    BY DEF NativeGlobals, Upon
  <2>3. Globals(f) = NativeGlobals(f)
    BY <1>1 DEF Globals
  <2> QED
    BY <2>1, <2>2, <2>3
<1>2. CASE ~Typed(f)
  <2> DEFINE settings == Upon(Directed(f), Configured(f))
             there == {n \in DOMAIN settings : settings[n] # "off"}
  <2>1. DOMAIN StandaloneGlobals(f) = there \cup (IF OwnScope(f) THEN {} ELSE f.declared[1])
    BY DEF StandaloneGlobals
  <2>2. name \in DOMAIN settings /\ settings[name] = Directed(f)[name]
    BY DEF Upon
  <2>3. Globals(f) = StandaloneGlobals(f)
    BY <1>2 DEF Globals
  <2> HIDE DEF settings
  <2> QED
    BY <2>1, <2>2, <2>3
<1> QED
  BY <1>1, <1>2

-----------------------------------------------------------------------------
\* s is a sequence, of whatever elements.
Listed(s) == \E n \in Nat : s = [k \in 1 .. n |-> s[k]]

LEMMA SeqIsListed == ASSUME NEW S, NEW s \in Seq(S) PROVE Listed(s)
<1>1. Len(s) \in Nat /\ s = [k \in 1 .. Len(s) |-> s[k]]
  OBVIOUS
<1> QED
  BY <1>1 DEF Listed

LEMMA OneMore ==
    ASSUME NEW s, Listed(s), NEW e
    PROVE  /\ Listed(Append(s, e)) /\ Len(s) \in Nat /\ Len(Append(s, e)) = Len(s) + 1
           /\ DOMAIN s = 1 .. Len(s) /\ DOMAIN Append(s, e) = 1 .. Len(s) + 1
           /\ \A k \in DOMAIN s : Append(s, e)[k] = s[k]
           /\ Append(s, e)[Len(s) + 1] = e
<1>1. PICK n \in Nat : s = [k \in 1 .. n |-> s[k]]
  BY DEF Listed
<1> DEFINE S == {s[k] : k \in 1 .. n} \cup {e}
<1>2. s \in [1 .. n -> S]
  BY <1>1
<1>3. s \in Seq(S) /\ e \in S
  BY <1>2
<1> HIDE DEF S
<1>4. Len(s) = n
  BY <1>2
<1>5. /\ Append(s, e) \in Seq(S) /\ Len(Append(s, e)) = n + 1
      /\ \A k \in 1 .. n : Append(s, e)[k] = s[k]
      /\ Append(s, e)[n + 1] = e
  BY <1>3, <1>4
<1>6. Listed(Append(s, e))
  BY <1>5, SeqIsListed
<1> QED
  BY <1>2, <1>4, <1>5, <1>6

\* Where the scopes of the file are: in the engine or in its analysis.
Analysed == Typed(Script) \/ Key(Script) \in DOMAIN analysisOf
Source == IF Typed(Script) THEN <<linted, 0>> ELSE <<linted, analysisOf[Key(Script)]>>

\* The fields of an adapter.
Fields(a) ==
    a = [root |-> a.root, source |-> a.source, sourceType |-> a.sourceType, year |-> a.year,
         current |-> a.current]

\* The adapter is one of the file that is linted.
Serves(i) ==
    /\ i \in DOMAIN adapters /\ Fields(adapters[i])
    /\ adapters[i].source = Source /\ adapters[i].sourceType = SourceType(Script)

\* The adapters and analyses, and whose they are.
AdaptersInv ==
    /\ Listed(adapters) /\ Listed(analyses)
    /\ \A k \in DOMAIN analysisOf :
           analysisOf[k] \in DOMAIN analyses /\ analyses[analysisOf[k]] = k
    /\ \A t \in DOMAIN adapterOf : t \in Nat /\ t <= linted
    /\ linted > 0 /\ linted \in DOMAIN adapterOf => Analysed /\ Serves(adapterOf[linted])
    /\ \A i \in DOMAIN contexts : contexts[i].adapter # 0 =>
           linted \in DOMAIN adapterOf /\ Serves(contexts[i].adapter)
    /\ \A u \in used : /\ u.of[1] \in Nat /\ u.of[1] <= linted
                       /\ u.of[1] = linted => Analysed /\ u.of = Source

\* The segments of the events before the next one of rule r that it has been told of.
Told(r, t) ==
    \E i \in 1 .. IF r < turn THEN event ELSE event - 1 :
        /\ Script.events[i].selector = "segmentStart"
        /\ t \in Segments(Script.events[i])

\* The segments that are shown with the event n.
StartedBefore(f, n) ==
    {s \in f.segments : \E i \in 1 .. n - 1 :
        f.events[i].selector = "segmentStart" /\ s \in Segments(f.events[i])}
ShownAt(f, n) ==
    UNION {{t \in Neighbours(f, s) : t \in StartedBefore(f, n) \/ t \notin f.reachable} :
           s \in Segments(f.events[n])}

AnswerInv ==
    /\ answer.rule \in DOMAIN process.rules
    /\ answer.event \in DOMAIN Script.events
    /\ answer.scope = GetScope(Script, Visited.node)
    /\ answer.globals = Globals(Script)
    /\ GraphSoFar

PluginInv ==
    /\ process \in Processes /\ linted \in 0 .. Len(process.files)
    /\ Listed(contexts) /\ Len(contexts) <= Len(process.rules)
    /\ turn \in 1 .. Len(process.rules) /\ event \in Nat \ {0}
    /\ Len(contexts) < Len(process.rules) => event = 1 /\ turn = 1
    /\ linted = 0 => contexts = <<>> /\ answer = Unvisited
    /\ linted > 0 =>
           /\ DOMAIN started = DOMAIN process.rules
           /\ \A r \in DOMAIN process.rules :
                  /\ r \in DOMAIN contexts => contexts[r].adapter # 0
                  /\ "segmentStart" \in process.rules[r].listens
                  => \A t \in Script.reachable : t \in started[r] <=> Told(r, t)
    /\ AdaptersInv
    /\ answer # Unvisited => AnswerInv

LEMMA ScriptParsed ==
    ASSUME process \in Processes, linted \in 1 .. Len(process.files)
    PROVE  /\ Parsed(Script) /\ process.rules # <<>>
           /\ DOMAIN process.rules = 1 .. Len(process.rules) /\ Len(process.rules) \in Nat \ {0}
           /\ Len(process.files) \in Nat
BY ProcessesAssumption DEF Script

LEMMA PluginInitHasInv == PluginInit => PluginInv
<1> SUFFICES ASSUME PluginInit PROVE PluginInv
  OBVIOUS
<1>1. /\ DOMAIN process.rules = 1 .. Len(process.rules) /\ Len(process.rules) \in Nat \ {0}
      /\ Len(process.files) \in Nat
  BY ProcessesAssumption DEF PluginInit
<1>2. Listed(<<>>) /\ Len(<<>>) = 0 /\ DOMAIN <<>> = {}
  <2>1. <<>> = [k \in 1 .. 0 |-> <<>>[k]]
    OBVIOUS
  <2> QED
    BY <2>1 DEF Listed
<1>3. AdaptersInv
  BY <1>2 DEF PluginInit, AdaptersInv
<1> QED
  BY <1>1, <1>2, <1>3 DEF PluginInit, PluginInv

\* Nothing of the files before is of the next one.
LEMMA OpenFileKeepsInv == ASSUME PluginInv, OpenFile PROVE PluginInv'
<1>1. /\ process' = process /\ process \in Processes /\ linted' = linted + 1
      /\ linted' \in 1 .. Len(process.files) /\ linted \in Nat
      /\ contexts' = <<>> /\ event' = 1 /\ turn' = 1 /\ answer' = Unvisited
      /\ started' = [r \in DOMAIN process.rules |-> {}]
      /\ UNCHANGED <<adapters, adapterOf, analyses, analysisOf, used>>
  <2>1. Len(process.files) \in Nat
    BY ProcessesAssumption DEF PluginInv
  <2> QED
    BY <2>1 DEF PluginInv, OpenFile
<1>2. /\ DOMAIN process.rules = 1 .. Len(process.rules) /\ Len(process.rules) \in Nat \ {0}
  BY <1>1, ProcessesAssumption
<1>3. Listed(<<>>) /\ Len(<<>>) = 0 /\ DOMAIN <<>> = {}
  <2>1. <<>> = [k \in 1 .. 0 |-> <<>>[k]]
    OBVIOUS
  <2> QED
    BY <2>1 DEF Listed
<1>4. AdaptersInv'
  <2>1. \A t \in DOMAIN adapterOf' : t \in Nat /\ t <= linted' /\ t # linted'
    BY <1>1 DEF PluginInv, AdaptersInv
  <2>2. \A u \in used' : u.of[1] \in Nat /\ u.of[1] <= linted' /\ u.of[1] # linted'
    BY <1>1 DEF PluginInv, AdaptersInv
  <2> QED
    BY <1>1, <1>3, <2>1, <2>2 DEF PluginInv, AdaptersInv
<1>5. \A r \in DOMAIN process.rules : \A t : ~Told(r, t)'
  BY <1>1, <1>2 DEF Told
<1> QED
  BY <1>1, <1>2, <1>3, <1>4, <1>5 DEF PluginInv

\* After an analysis there is one of the file, which is the one that there was, and the
\* variables that are marked in the file are marked in it.
LEMMA AnalyseFinds ==
    ASSUME PluginInv, linted > 0, UNCHANGED <<process, linted>>, Analyse(Script)
    PROVE  /\ Listed(analyses')
           /\ \A k \in DOMAIN analysisOf' :
                  analysisOf'[k] \in DOMAIN analyses' /\ analyses'[analysisOf'[k]] = k
           /\ Analysed' /\ (Analysed => Source' = Source) /\ SourceOf(Script) = Source'
           /\ \A u \in used' : /\ u.of[1] \in Nat /\ u.of[1] <= linted
                               /\ u.of[1] = linted => u.of = Source'
<1> DEFINE key == Key(Script)
<1>1. /\ linted \in Nat /\ AdaptersInv
      /\ Script' = Script /\ Key(Script)' = key /\ key.tree = linted
      /\ Typed(Script)' = Typed(Script)
  BY DEF PluginInv, Script, Key, Typed, AnalysedYear, RuleYear, SourceType
<1>2. CASE Typed(Script) \/ key \in DOMAIN analysisOf
  <2>1. UNCHANGED <<analyses, analysisOf, used>>
    BY <1>2 DEF Analyse
  <2>2. Analysed /\ Analysed' /\ Source' = Source
    BY <1>1, <1>2, <2>1 DEF Analysed, Source
  <2>3. SourceOf(Script) = Source
    <3>1. CASE Typed(Script)
      BY <3>1 DEF SourceOf, Source
    <3>2. CASE ~Typed(Script)
      <4>1. analyses[analysisOf[key]].tree = linted
        BY <1>1, <1>2, <3>2 DEF AdaptersInv
      <4> QED
        BY <2>1, <3>2, <4>1 DEF SourceOf, Source
    <3> QED
      BY <3>1, <3>2
  <2> QED
    BY <1>1, <2>1, <2>2, <2>3 DEF AdaptersInv
<1>3. CASE ~(Typed(Script) \/ key \in DOMAIN analysisOf)
  <2> DEFINE n == Len(analyses)
  <2>1. /\ analyses' = Append(analyses, key)
        /\ analysisOf' = Upon([k \in {key} |-> Len(analyses')], analysisOf)
        /\ \A u \in used' : u \in used \/ u.of = <<linted, Len(analyses')>>
    BY <1>3 DEF Analyse
  <2>2. /\ Listed(analyses') /\ n \in Nat /\ Len(analyses') = n + 1
        /\ DOMAIN analyses = 1 .. n /\ DOMAIN analyses' = 1 .. n + 1
        /\ \A k \in DOMAIN analyses : analyses'[k] = analyses[k]
        /\ analyses'[n + 1] = key
    BY <1>1, <2>1, OneMore DEF AdaptersInv
  <2>3. /\ DOMAIN analysisOf' = {key} \cup DOMAIN analysisOf
        /\ analysisOf'[key] = n + 1
        /\ \A k \in DOMAIN analysisOf : k # key => analysisOf'[k] = analysisOf[k]
    <3> HIDE DEF key
    <3> QED
      BY <2>1, <2>2 DEF Upon
  <2>4. \A k \in DOMAIN analysisOf' :
            analysisOf'[k] \in DOMAIN analyses' /\ analyses'[analysisOf'[k]] = k
    <3> HIDE DEF key, n
    <3> QED
      BY <1>1, <1>3, <2>2, <2>3 DEF AdaptersInv
  <2>5. ~Analysed /\ Analysed' /\ Source' = <<linted, n + 1>>
    <3>1. ~Analysed
      BY <1>3 DEF Analysed
    <3>2. Analysed'
      BY <1>1, <2>3 DEF Analysed
    <3>3. Source' = <<linted, n + 1>>
      BY <1>1, <1>3, <2>3 DEF Source
    <3> QED
      BY <3>1, <3>2, <3>3
  <2>6. SourceOf(Script) = Source'
    BY <1>1, <1>3, <2>2, <2>3, <2>5 DEF SourceOf
  <2>7. ASSUME NEW u \in used'
        PROVE  /\ u.of[1] \in Nat /\ u.of[1] <= linted
               /\ u.of[1] = linted => u.of = Source'
    <3>1. CASE u \in used
      BY <1>1, <2>5, <3>1 DEF AdaptersInv
    <3>2. CASE u.of = <<linted, Len(analyses')>>
      BY <1>1, <2>2, <2>5, <3>2
    <3> QED
      BY <2>1, <3>1, <3>2
  <2> QED
    BY <2>2, <2>4, <2>5, <2>6, <2>7
<1> QED
  BY <1>2, <1>3

\* The adapter that a rule gets is of the file, and those of the other rules remain so.
LEMMA AdaptServes ==
    ASSUME PluginInv, linted > 0, UNCHANGED <<process, linted>>, NEW root, Adapt(Script, root)
    PROVE  /\ Listed(adapters') /\ Listed(analyses')
           /\ \A k \in DOMAIN analysisOf' :
                  analysisOf'[k] \in DOMAIN analyses' /\ analyses'[analysisOf'[k]] = k
           /\ \A t \in DOMAIN adapterOf' : t \in Nat /\ t <= linted
           /\ linted \in DOMAIN adapterOf' /\ Analysed' /\ Serves(adapterOf[linted])'
           /\ adapterOf'[linted] # 0
           /\ \A i : linted \in DOMAIN adapterOf /\ Serves(i) => Serves(i)'
           /\ \A u \in used' : /\ u.of[1] \in Nat /\ u.of[1] <= linted
                               /\ u.of[1] = linted => u.of = Source'
<1>1. /\ linted \in Nat /\ AdaptersInv
      /\ Script' = Script /\ SourceType(Script)' = SourceType(Script)
  BY DEF PluginInv, Script, SourceType
<1>2. \E n \in Nat : DOMAIN adapters = 1 .. n
  BY <1>1 DEF AdaptersInv, Listed
<1>3. CASE Kept(root) # {}
  <2>1. UNCHANGED <<adapters, adapterOf, analyses, analysisOf, used>>
    BY <1>3 DEF Adapt
  <2>2. linted \in DOMAIN adapterOf
    BY <1>3 DEF Kept
  <2>3. Analysed /\ Serves(adapterOf[linted])
    BY <1>1, <2>2 DEF AdaptersInv
  <2>4. Source' = Source /\ Analysed' = Analysed
    BY <1>1, <2>1 DEF Source, Analysed, Key, Typed, AnalysedYear, RuleYear, SourceType, Script
  <2>5. \A i : Serves(i)' = Serves(i)
    BY <1>1, <2>1, <2>4 DEF Serves
  <2>6. adapterOf[linted] # 0
    BY <1>2, <2>3 DEF Serves
  <2>7. Serves(adapterOf[linted])'
    BY <2>1, <2>3, <2>5
  <2> QED
    BY <1>1, <2>1, <2>2, <2>3, <2>4, <2>5, <2>6, <2>7 DEF AdaptersInv
<1>4. CASE Kept(root) = {}
  <2> DEFINE a == [root |-> root, source |-> SourceOf(Script), sourceType |-> SourceType(Script),
                   year |-> RuleYear(Script), current |-> 1]
  <2>1. /\ Analyse(Script)
        /\ adapters' = Append(adapters, a)
        /\ adapterOf' = Upon([t \in {linted} |-> Len(adapters')], adapterOf)
    BY <1>4 DEF Adapt
  <2>2. /\ Listed(analyses')
        /\ \A k \in DOMAIN analysisOf' :
               analysisOf'[k] \in DOMAIN analyses' /\ analyses'[analysisOf'[k]] = k
        /\ Analysed' /\ (Analysed => Source' = Source) /\ SourceOf(Script) = Source'
        /\ \A u \in used' : /\ u.of[1] \in Nat /\ u.of[1] <= linted
                            /\ u.of[1] = linted => u.of = Source'
    BY <2>1, AnalyseFinds
  <2>3. Fields(a) /\ a.source = Source' /\ a.sourceType = SourceType(Script)'
    BY <1>1, <2>2 DEF Fields
  <2> HIDE DEF a
  <2>4. PICK n \in Nat :
            /\ Listed(adapters') /\ Len(adapters') = n + 1
            /\ DOMAIN adapters = 1 .. n /\ DOMAIN adapters' = 1 .. n + 1
            /\ \A k \in DOMAIN adapters : adapters'[k] = adapters[k]
            /\ adapters'[n + 1] = a
    BY <1>1, <2>1, OneMore DEF AdaptersInv
  <2>5. /\ DOMAIN adapterOf' = {linted} \cup DOMAIN adapterOf
        /\ adapterOf'[linted] = n + 1
    BY <2>1, <2>4 DEF Upon
  <2>6. Serves(n + 1)'
    BY <2>3, <2>4 DEF Serves
  <2>7. ASSUME linted \in DOMAIN adapterOf, NEW i, Serves(i) PROVE Serves(i)'
    <3>1. Source' = Source
      BY <1>1, <2>2, <2>7 DEF AdaptersInv
    <3> QED
      BY <1>1, <2>4, <2>7, <3>1 DEF Serves
  <2>8. Serves(adapterOf[linted])'
    BY <2>5, <2>6
  <2>9. \A t \in DOMAIN adapterOf' : t \in Nat /\ t <= linted
    BY <1>1, <2>5 DEF AdaptersInv
  <2> QED
    BY <2>2, <2>4, <2>5, <2>7, <2>8, <2>9
<1> QED
  BY <1>3, <1>4

LEMMA CreateRuleKeepsInv == ASSUME PluginInv, CreateRule PROVE PluginInv'
<1>1. /\ linted > 0 /\ Len(contexts) < Len(process.rules) /\ event = 1 /\ turn = 1
      /\ UNCHANGED <<process, linted, event, turn, started, answer>>
      /\ AdaptersInv /\ Script' = Script /\ Listed(contexts)
      /\ linted \in 1 .. Len(process.files) /\ process \in Processes
  <2>1. Len(process.files) \in Nat
    BY ProcessesAssumption DEF PluginInv
  <2> QED
    BY <2>1 DEF PluginInv, CreateRule, Script
<1>2. Len(process.rules) \in Nat \ {0} /\ DOMAIN process.rules = 1 .. Len(process.rules)
  BY <1>1, ProcessesAssumption
<1>3. /\ AdaptersInv'
      /\ \E c : contexts' = Append(contexts, c)
  <2>1. CASE /\ contexts' = Append(contexts, [adapter |-> 0])
             /\ UNCHANGED <<adapters, adapterOf, analyses, analysisOf, used>>
    <3>1. \A i \in DOMAIN contexts' : contexts'[i].adapter # 0 =>
              i \in DOMAIN contexts /\ contexts'[i] = contexts[i]
      BY <1>1, <2>1, OneMore
    <3>2. \A i : Serves(i)' = Serves(i)
      BY <1>1, <2>1 DEF Serves, Source, Key, Typed, AnalysedYear, RuleYear, SourceType, Script
    <3>3. Source' = Source /\ Analysed' = Analysed
      BY <1>1, <2>1 DEF Source, Analysed, Key, Typed, AnalysedYear, RuleYear, SourceType, Script
    <3>4. \A i \in DOMAIN contexts' : contexts'[i].adapter # 0 =>
              (linted \in DOMAIN adapterOf)' /\ Serves(contexts[i].adapter)'
      <4> SUFFICES ASSUME NEW i \in DOMAIN contexts', contexts'[i].adapter # 0
                   PROVE  (linted \in DOMAIN adapterOf)' /\ Serves(contexts[i].adapter)'
        OBVIOUS
      <4>1. linted \in DOMAIN adapterOf /\ Serves(contexts[i].adapter)
        BY <1>1, <3>1 DEF AdaptersInv
      <4>2. contexts'[i].adapter = contexts[i].adapter
        BY <3>1
      <4> QED
        BY <1>1, <2>1, <3>2, <4>1, <4>2 DEF Serves
    <3>5. (linted > 0 /\ linted \in DOMAIN adapterOf => Analysed /\ Serves(adapterOf[linted]))'
      <4>1. adapterOf'[linted'] = adapterOf[linted]
        BY <1>1, <2>1
      <4> QED
        BY <1>1, <2>1, <3>2, <3>3, <4>1 DEF AdaptersInv, Serves
    <3> QED
      BY <1>1, <2>1, <3>3, <3>4, <3>5 DEF AdaptersInv
  <2>2. ASSUME NEW root, Adapt(Script, root),
               contexts' = Append(contexts, [adapter |-> adapterOf'[linted]])
        PROVE  AdaptersInv'
    <3>1. /\ Listed(adapters') /\ Listed(analyses')
          /\ \A k \in DOMAIN analysisOf' :
                 analysisOf'[k] \in DOMAIN analyses' /\ analyses'[analysisOf'[k]] = k
          /\ \A t \in DOMAIN adapterOf' : t \in Nat /\ t <= linted
          /\ linted \in DOMAIN adapterOf' /\ Analysed' /\ Serves(adapterOf[linted])'
          /\ \A i : linted \in DOMAIN adapterOf /\ Serves(i) => Serves(i)'
          /\ \A u \in used' : /\ u.of[1] \in Nat /\ u.of[1] <= linted
                              /\ u.of[1] = linted => u.of = Source'
      BY <1>1, <2>2, AdaptServes
    <3>2. ASSUME NEW i \in DOMAIN contexts', contexts'[i].adapter # 0
          PROVE  Serves(contexts[i].adapter)'
      <4>1. CASE i \in DOMAIN contexts
        <5>1. contexts'[i] = contexts[i]
          BY <1>1, <2>2, <4>1, OneMore
        <5>2. linted \in DOMAIN adapterOf /\ Serves(contexts[i].adapter)
          BY <1>1, <3>2, <4>1, <5>1 DEF AdaptersInv
        <5>3. PICK k : k = contexts[i].adapter
          OBVIOUS
        <5>4. Serves(k)'
          BY <3>1, <5>2, <5>3
        <5> QED
          BY <5>1, <5>3, <5>4
      <4>2. CASE i \notin DOMAIN contexts
        <5>1. contexts'[i].adapter = adapterOf'[linted']
          BY <1>1, <2>2, <4>2, OneMore
        <5> QED
          BY <3>1, <5>1
      <4> QED
        BY <4>1, <4>2
    <3> QED
      BY <1>1, <3>1, <3>2 DEF AdaptersInv
  <2> QED
    BY <2>1, <2>2 DEF CreateRule
<1>4. Listed(contexts') /\ Len(contexts') <= Len(process.rules)
  BY <1>1, <1>2, <1>3, OneMore
<1>5. DOMAIN contexts \subseteq DOMAIN contexts' /\ \A r \in DOMAIN contexts : contexts'[r] = contexts[r]
  BY <1>1, <1>3, OneMore
<1>6. \A r : \A t : Told(r, t)' = Told(r, t)
  BY <1>1 DEF Told
<1>7. AnswerInv' = AnswerInv
  BY <1>1 DEF AnswerInv, GraphSoFar, Visited
<1> QED
  BY <1>1, <1>2, <1>3, <1>4, <1>5, <1>6, <1>7 DEF PluginInv

\* After its turn a rule has been told of the event.
LEMMA TurnTells ==
    ASSUME PluginInv, VisitNode
    PROVE  /\ linted \in 1 .. Len(process.files) /\ process \in Processes /\ Parsed(Script)
           /\ Len(process.rules) \in Nat \ {0} /\ DOMAIN process.rules = 1 .. Len(process.rules)
           /\ event \in DOMAIN Script.events /\ event \in Nat /\ Script' = Script
           /\ DOMAIN contexts = DOMAIN process.rules
           /\ turn' \in 1 .. Len(process.rules) /\ event' \in Nat \ {0}
           /\ \A r \in DOMAIN process.rules : \A t :
                  Told(r, t)' <=> \/ Told(r, t)
                                  \/ /\ r = turn /\ Script.events[event].selector = "segmentStart"
                                     /\ t \in Segments(Script.events[event])
<1>1. /\ linted > 0 /\ Len(contexts) = Len(process.rules) /\ event <= Len(Script.events)
      /\ turn' = IF turn = Len(process.rules) THEN 1 ELSE turn + 1
      /\ event' = IF turn = Len(process.rules) THEN event + 1 ELSE event
      /\ process' = process /\ linted' = linted /\ Script' = Script
      /\ process \in Processes /\ turn \in 1 .. Len(process.rules) /\ event \in Nat \ {0}
      /\ Listed(contexts)
  BY DEF PluginInv, VisitNode, Script
<1>2. Len(process.files) \in Nat /\ linted \in 0 .. Len(process.files)
  BY ProcessesAssumption DEF PluginInv
<1>3. linted \in 1 .. Len(process.files)
  BY <1>1, <1>2
<1>4. /\ Parsed(Script)
      /\ DOMAIN process.rules = 1 .. Len(process.rules) /\ Len(process.rules) \in Nat \ {0}
  BY <1>1, <1>3, ScriptParsed
<1>5. /\ event \in DOMAIN Script.events
      /\ turn' \in 1 .. Len(process.rules) /\ event' \in Nat \ {0}
  BY <1>1, <1>4 DEF Parsed
<1>6. DOMAIN contexts = DOMAIN process.rules
  BY <1>1, <1>4, OneMore
<1>7. ASSUME NEW r \in DOMAIN process.rules, NEW t
      PROVE  Told(r, t)' <=> \/ Told(r, t)
                             \/ /\ r = turn /\ Script.events[event].selector = "segmentStart"
                                /\ t \in Segments(Script.events[event])
  <2> DEFINE last == IF r < turn THEN event ELSE event - 1
  <2>1. r \in Nat /\ turn \in Nat /\ turn' \in Nat /\ r >= 1 /\ r <= Len(process.rules)
    BY <1>1, <1>4, <1>5
  <2>2. (IF r < turn' THEN event' ELSE event' - 1) = IF r = turn THEN event ELSE last
    BY <1>1, <1>4, <2>1
  <2>3. r = turn => last = event - 1
    BY <2>1
  <2>4. Told(r, t) <=> \E i \in 1 .. last : /\ Script.events[i].selector = "segmentStart"
                                            /\ t \in Segments(Script.events[i])
    BY DEF Told
  <2>5. Told(r, t)' <=> \E i \in 1 .. IF r = turn THEN event ELSE last :
                            /\ Script.events[i].selector = "segmentStart"
                            /\ t \in Segments(Script.events[i])
    BY <1>1, <2>2 DEF Told
  <2> HIDE DEF last
  <2>6. CASE r # turn
    BY <2>4, <2>5, <2>6
  <2>7. CASE r = turn
    <3>1. 1 .. event = (1 .. event - 1) \cup {event}
      BY <1>1
    <3> QED
      BY <2>3, <2>4, <2>5, <2>7, <3>1
  <2> QED
    BY <2>6, <2>7
<1> QED
  BY <1>1, <1>3, <1>4, <1>5, <1>6, <1>7

\* What a rule learns is of its file and node, and no more than it has been told of.
LEMMA RespondAnswers ==
    ASSUME PluginInv, VisitNode, contexts[turn].adapter # 0,
           Respond(process.rules[turn], Script.events[event])
    PROVE  AdaptersInv' /\ AnswerInv'
<1> DEFINE e == Script.events[event]
           rule == process.rules[turn]
<1> PICK own : own = contexts[turn].adapter
  OBVIOUS
<1>1. /\ linted \in 1 .. Len(process.files) /\ process \in Processes
      /\ DOMAIN process.rules = 1 .. Len(process.rules) /\ turn \in DOMAIN process.rules
      /\ event \in DOMAIN Script.events /\ event \in Nat /\ Script' = Script
      /\ DOMAIN contexts = DOMAIN process.rules
      /\ UNCHANGED <<process, linted, adapterOf, analyses, analysisOf, contexts>>
      /\ AdaptersInv
  BY TurnTells DEF PluginInv, VisitNode
<1>2. linted \in DOMAIN adapterOf /\ Analysed /\ Serves(own)
  BY <1>1 DEF AdaptersInv
<1>3. Source' = Source /\ Analysed' = Analysed
  BY <1>1 DEF Source, Analysed, Key, Typed, AnalysedYear, RuleYear, SourceType, Script
<1>4. adapters' = [adapters EXCEPT ![own].current = e.node]
  BY DEF Respond
<1>5. /\ own \in DOMAIN adapters /\ DOMAIN adapters' = DOMAIN adapters
      /\ adapters'[own] = [adapters[own] EXCEPT !.current = e.node]
      /\ \A i \in DOMAIN adapters : i # own => adapters'[i] = adapters[i]
  BY <1>2, <1>4 DEF Serves
<1>6. /\ Fields(adapters'[own]) /\ adapters'[own].current = e.node
      /\ adapters'[own].source = adapters[own].source
      /\ adapters'[own].sourceType = adapters[own].sourceType
  BY <1>2, <1>5 DEF Serves, Fields
<1>7. Listed(adapters')
  BY <1>1, <1>4 DEF AdaptersInv, Listed
<1>8. \A i : Serves(i) => Serves(i)'
  BY <1>1, <1>3, <1>5, <1>6 DEF Serves, SourceType
<1>9. ASSUME NEW u \in used'
      PROVE  /\ u.of[1] \in Nat /\ u.of[1] <= linted
             /\ u.of[1] = linted => u.of = Source
  <2>1. u \in used \/ u.of = adapters[own].source
    BY DEF Respond
  <2>2. adapters[own].source = Source /\ Source[1] = linted
    BY <1>2 DEF Serves, Source
  <2> QED
    BY <1>1, <2>1, <2>2 DEF AdaptersInv
<1>10. AdaptersInv'
  <2>1. \A i \in DOMAIN contexts : contexts[i].adapter # 0 => Serves(contexts[i].adapter)'
    <3> SUFFICES ASSUME NEW i \in DOMAIN contexts, contexts[i].adapter # 0
                 PROVE  Serves(contexts[i].adapter)'
      OBVIOUS
    <3>1. PICK k : k = contexts[i].adapter
      OBVIOUS
    <3>2. Serves(k)
      BY <1>1, <3>1 DEF AdaptersInv
    <3> QED
      BY <1>1, <1>8, <3>1, <3>2
  <2>2. Serves(adapterOf[linted])'
    <3>1. PICK k : k = adapterOf[linted]
      OBVIOUS
    <3>2. Serves(k)
      BY <1>1, <1>2, <3>1 DEF AdaptersInv
    <3> QED
      BY <1>1, <1>8, <3>1, <3>2
  <2> QED
    BY <1>1, <1>2, <1>3, <1>7, <1>9, <2>1, <2>2 DEF AdaptersInv
<1>11. /\ answer'.rule = turn /\ answer'.event = event
       /\ answer'.scope = GetScope(Script, adapters'[own].current)
       /\ answer'.globals = Globals(Script)
       /\ answer'.shown = UNION {Shown(Script, s, started[turn]) : s \in Segments(e)}
  BY DEF Respond
<1>12. ASSUME "segmentStart" \in rule.listens
       PROVE  answer'.shown = ShownAt(Script, event)
  <2>1. \A t \in Script.reachable : t \in started[turn] <=> Told(turn, t)
    BY <1>1, <1>12 DEF PluginInv
  <2>2. \A t \in Script.segments : t \in StartedBefore(Script, event) <=> Told(turn, t)
    <3>1. ~(turn < turn)
      BY <1>1
    <3> QED
      BY <3>1 DEF Told, StartedBefore
  <2>3. \A s : Shown(Script, s, started[turn])
               = {t \in Neighbours(Script, s) :
                      t \in StartedBefore(Script, event) \/ t \notin Script.reachable}
    BY <2>1, <2>2 DEF Shown, Neighbours
  <2> QED
    BY <1>11, <2>3 DEF ShownAt
<1>13. GraphSoFar'
  <2>1. (GraphSoFar <=> ("segmentStart" \in process.rules[answer.rule].listens =>
                             answer.shown = ShownAt(Script, answer.event)))'
    BY DEF GraphSoFar, ShownAt, StartedBefore, Visited
  <2> QED
    BY <1>1, <1>11, <1>12, <2>1
<1>14. AnswerInv'
  BY <1>1, <1>6, <1>11, <1>13 DEF AnswerInv, Visited, GetScope, NearestScope, OwnScope, SourceType, Typed
<1> QED
  BY <1>10, <1>14

LEMMA VisitNodeKeepsInv == ASSUME PluginInv, VisitNode PROVE PluginInv'
<1> DEFINE e == Script.events[event]
           rule == process.rules[turn]
           responds == contexts[turn].adapter # 0 /\ e.selector \in rule.listens
<1>1. /\ linted \in 1 .. Len(process.files) /\ process \in Processes /\ Parsed(Script)
      /\ Len(process.rules) \in Nat \ {0} /\ DOMAIN process.rules = 1 .. Len(process.rules)
      /\ event \in DOMAIN Script.events /\ event \in Nat /\ Script' = Script
      /\ DOMAIN contexts = DOMAIN process.rules
      /\ turn' \in 1 .. Len(process.rules) /\ event' \in Nat \ {0}
      /\ \A r \in DOMAIN process.rules : \A t :
             Told(r, t)' <=> \/ Told(r, t)
                             \/ r = turn /\ e.selector = "segmentStart" /\ t \in Segments(e)
  BY TurnTells
<1>2. /\ UNCHANGED <<process, linted, adapterOf, analyses, analysisOf, contexts>>
      /\ linted > 0 /\ Len(contexts) = Len(process.rules) /\ turn \in DOMAIN process.rules
      /\ DOMAIN started = DOMAIN process.rules
  BY <1>1 DEF PluginInv, VisitNode
<1>3. AdaptersInv' /\ (answer' # Unvisited => AnswerInv')
  <2>1. CASE responds
    BY <2>1, RespondAnswers DEF VisitNode
  <2>2. CASE ~responds
    <3>1. answer' = Unvisited /\ UNCHANGED <<adapters, used>>
      BY <2>2 DEF VisitNode
    <3>2. Source' = Source /\ Analysed' = Analysed
      BY <1>1, <1>2 DEF Source, Analysed, Key, Typed, AnalysedYear, RuleYear, SourceType, Script
    <3>3. \A i : Serves(i)' = Serves(i)
      BY <1>1, <3>1, <3>2 DEF Serves, SourceType
    <3>4. AdaptersInv' = AdaptersInv
      BY <1>2, <3>1, <3>2, <3>3 DEF AdaptersInv
    <3> QED
      BY <3>1, <3>4 DEF PluginInv
  <2> QED
    BY <2>1, <2>2
<1>4. /\ DOMAIN started' = DOMAIN process.rules
      /\ \A r \in DOMAIN process.rules : r # turn => started'[r] = started[r]
      /\ started'[turn] = IF responds /\ Starts(e) THEN started[turn] \cup Segments(e)
                          ELSE started[turn]
  BY <1>2 DEF VisitNode, Respond
<1>5. ASSUME NEW r \in DOMAIN process.rules, r \in DOMAIN contexts => contexts[r].adapter # 0,
             "segmentStart" \in process.rules[r].listens, NEW t \in Script.reachable
      PROVE  t \in started'[r] <=> Told(r, t)'
  <2>1. t \in started[r] <=> Told(r, t)
    BY <1>2, <1>5 DEF PluginInv
  <2>2. CASE r # turn
    BY <1>1, <1>4, <2>1, <2>2
  <2>3. CASE r = turn
    <3>1. responds <=> e.selector \in rule.listens
      BY <1>1, <1>5, <2>3
    <3>2. e.selector = "unreachableSegmentStart" => t \notin Segments(e)
      BY <1>1, <1>5 DEF Parsed
    <3>3. e.selector = "segmentStart" => responds /\ Starts(e)
      BY <1>5, <2>3, <3>1 DEF Starts
    <3>4. Starts(e) => e.selector \in {"segmentStart", "unreachableSegmentStart"}
      BY DEF Starts
    <3> QED
      BY <1>1, <1>4, <2>1, <2>3, <3>2, <3>3, <3>4
  <2> QED
    BY <2>2, <2>3
<1> QED
  BY <1>1, <1>2, <1>3, <1>4, <1>5 DEF PluginInv

\* What a visitor learns of its scope is what the nodes around it say.
LEMMA AnswersOfScope ==
    ASSUME PluginInv, answer # Unvisited
    PROVE  ScopeOfNode /\ DirectiveDecides
<1>1. /\ AnswerInv /\ Parsed(Script)
  <2>1. linted # 0 /\ linted \in 0 .. Len(process.files) /\ process \in Processes
    BY DEF PluginInv
  <2>2. Len(process.files) \in Nat
    BY <2>1, ProcessesAssumption
  <2>3. linted \in 1 .. Len(process.files)
    BY <2>1, <2>2
  <2> QED
    BY <2>1, <2>3, ScriptParsed DEF PluginInv
<1>2. DirectiveDecides
  BY <1>1, DirectivesDecide DEF DirectiveDecides, AnswerInv
<1> DEFINE n == Visited.node
           around == NodesAround(Script)[n] \cap Script.functions
           m == FunctionsAround(Script)[n]
<1>3. n \in 1 .. Len(Script.parent)
  BY <1>1 DEF AnswerInv, Parsed, Visited
<1>4. /\ around = {} => m = 1
      /\ around # {} => m \in around /\ \A k \in around : k <= m
  BY <1>1, <1>3, LastFunctionAround
<1>5. 1 \notin around /\ around \subseteq Nat
  BY <1>1 DEF Parsed
<1>6. answer.scope = IF n = 1 THEN 0 ELSE IF m = 1 /\ ~OwnScope(Script) THEN 0 ELSE m
  BY <1>1 DEF AnswerInv, GetScope, NearestScope
<1>7. CASE around # {} /\ n # 1
  <2>1. m \in around /\ m # 1
    BY <1>4, <1>5, <1>7
  <2> QED
    BY <1>2, <1>4, <1>6, <1>7, <2>1 DEF ScopeOfNode
<1>8. CASE ~(around # {} /\ n # 1)
  BY <1>2, <1>4, <1>6, <1>8 DEF ScopeOfNode
<1> QED
  BY <1>7, <1>8

\* Although the engine's objects outlive the file, what a visitor of any rule learns is of its own
\* file, of its node and of the segments it was told of, and what one rule marks is marked for
\* all, for any number of files, rules and providers, any trees and graphs, and in every
\* order in which the engine may use its objects again (legacyContext, legacySource).
THEOREM RulesAlwaysSeeTheirFile == PluginSpec => []RulesSeeTheirFile
<1>1. PluginInv /\ [PluginNext]_pluginVars => PluginInv'
  <2> SUFFICES ASSUME PluginInv, [PluginNext]_pluginVars PROVE PluginInv'
    OBVIOUS
  <2>1. CASE UNCHANGED pluginVars
    <3>1. Script' = Script /\ Source' = Source /\ Analysed' = Analysed
      BY <2>1 DEF pluginVars, Source, Analysed, Key, Typed, AnalysedYear, RuleYear, SourceType, Script
    <3>2. \A i : Serves(i)' = Serves(i)
      BY <2>1, <3>1 DEF pluginVars, Serves, SourceType
    <3>3. \A r : \A t : Told(r, t)' = Told(r, t)
      BY <2>1, <3>1 DEF pluginVars, Told
    <3>4. AdaptersInv' = AdaptersInv /\ AnswerInv' = AnswerInv
      BY <2>1, <3>1, <3>2 DEF pluginVars, AdaptersInv, AnswerInv, GraphSoFar, Visited
    <3> QED
      BY <2>1, <3>1, <3>3, <3>4 DEF pluginVars, PluginInv
  <2> QED
    BY <2>1, OpenFileKeepsInv, CreateRuleKeepsInv, VisitNodeKeepsInv DEF PluginNext
<1>2. PluginInv => RulesSeeTheirFile
  <2> SUFFICES ASSUME PluginInv PROVE RulesSeeTheirFile
    OBVIOUS
  <2>1. linted > 0 => OneAnalysis
    <3> SUFFICES ASSUME linted > 0, NEW i \in DOMAIN contexts, contexts[i].adapter # 0
                 PROVE  LET adapter == adapters[contexts[i].adapter]
                        IN  /\ adapter.source[1] = linted
                            /\ adapter.sourceType = SourceType(Script)
                            /\ \A u \in used : u.of[1] = linted => u.of = adapter.source
      BY DEF OneAnalysis
    <3>1. Serves(contexts[i].adapter) /\ Source[1] = linted
      BY DEF PluginInv, AdaptersInv, Source
    <3> QED
      BY <3>1 DEF PluginInv, AdaptersInv, Serves
  <2>2. answer # Unvisited => ScopeOfNode /\ GraphSoFar /\ DirectiveDecides
    BY AnswersOfScope DEF PluginInv, AnswerInv
  <2> QED
    BY <2>1, <2>2 DEF RulesSeeTheirFile
<1> QED
  BY <1>1, <1>2, PluginInitHasInv, PTL DEF PluginSpec

-----------------------------------------------------------------------------
(* The check of the compiler options.  The command passes a project        *)
(* exactly if all of it can be read and has the options that the guide     *)
(* requires, whatever its files extend.                                    *)

\* Files that lead only to files: all that some lead to hold these and are closed, and are the
\* fewest files that do.
LEMMA ClosureFacts ==
    ASSUME NEW step, \A p \in DOMAIN step : step[p] \subseteq DOMAIN step,
           NEW ps \in SUBSET DOMAIN step
    PROVE  /\ ps \subseteq Closure(step, ps)
           /\ Closure(step, ps) \subseteq DOMAIN step
           /\ \A p \in Closure(step, ps) : step[p] \subseteq Closure(step, ps)
           /\ \A S \in SUBSET DOMAIN step :
                  ps \subseteq S /\ (\A p \in S : step[p] \subseteq S) => Closure(step, ps) \subseteq S
<1>1. Closure(step, ps) \subseteq DOMAIN step
  BY DEF Closure
<1>2. ps \subseteq Closure(step, ps)
  BY DEF Closure
<1>3. ASSUME NEW S \in SUBSET DOMAIN step, ps \subseteq S, \A p \in S : step[p] \subseteq S
      PROVE  Closure(step, ps) \subseteq S
  BY <1>3 DEF Closure
<1>4. ASSUME NEW p \in Closure(step, ps), NEW q \in step[p] PROVE q \in Closure(step, ps)
  <2>1. q \in DOMAIN step
    BY <1>1, <1>4
  <2>2. ASSUME NEW S \in SUBSET DOMAIN step, ps \subseteq S, \A r \in S : step[r] \subseteq S
        PROVE  q \in S
    <3>1. p \in S
      BY <1>3, <1>4, <2>2
    <3> QED
      BY <1>4, <2>2, <3>1
  <2> QED
    BY <2>1, <2>2 DEF Closure
<1> QED
  BY <1>1, <1>2, <1>3, <1>4

\* From one file come the file itself and what it leads to in the next steps.
LEMMA ClosureOfOne ==
    ASSUME NEW step, \A p \in DOMAIN step : step[p] \subseteq DOMAIN step, NEW p \in DOMAIN step
    PROVE  Closure(step, {p}) = {p} \cup Closure(step, step[p])
<1>1. /\ p \in Closure(step, {p})
      /\ Closure(step, {p}) \subseteq DOMAIN step
      /\ \A q \in Closure(step, {p}) : step[q] \subseteq Closure(step, {p})
  BY ClosureFacts
<1>2. /\ step[p] \subseteq Closure(step, step[p])
      /\ Closure(step, step[p]) \subseteq DOMAIN step
      /\ \A q \in Closure(step, step[p]) : step[q] \subseteq Closure(step, step[p])
  BY ClosureFacts
<1>3. Closure(step, step[p]) \subseteq Closure(step, {p})
  <2>1. step[p] \in SUBSET DOMAIN step /\ step[p] \subseteq Closure(step, {p})
    BY <1>1
  <2> QED
    BY <1>1, <2>1, ClosureFacts
<1>4. Closure(step, {p}) \subseteq {p} \cup Closure(step, step[p])
  <2> DEFINE S == {p} \cup Closure(step, step[p])
  <2>1. S \in SUBSET DOMAIN step /\ {p} \subseteq S /\ \A q \in S : step[q] \subseteq S
    BY <1>2
  <2> HIDE DEF S
  <2>2. Closure(step, {p}) \subseteq S
    BY <2>1, ClosureFacts
  <2> QED
    BY <2>2 DEF S
<1> QED
  BY <1>1, <1>3, <1>4

\* What some files lead to, one of them leads to.
LEMMA ClosureOfSome ==
    ASSUME NEW step, \A p \in DOMAIN step : step[p] \subseteq DOMAIN step,
           NEW ps \in SUBSET DOMAIN step, NEW q
    PROVE  q \in Closure(step, ps) <=> \E p \in ps : q \in Closure(step, {p})
<1> DEFINE S == UNION {Closure(step, {p}) : p \in ps}
<1>1. \A p \in ps : /\ p \in Closure(step, {p})
                       /\ Closure(step, {p}) \subseteq DOMAIN step
                       /\ \A r \in Closure(step, {p}) : step[r] \subseteq Closure(step, {p})
  BY ClosureFacts
<1>2. /\ ps \subseteq Closure(step, ps)
      /\ Closure(step, ps) \in SUBSET DOMAIN step
      /\ \A r \in Closure(step, ps) : step[r] \subseteq Closure(step, ps)
  BY ClosureFacts
<1>3. Closure(step, ps) \subseteq S
  <2>1. S \in SUBSET DOMAIN step /\ ps \subseteq S /\ \A r \in S : step[r] \subseteq S
    BY <1>1
  <2> HIDE DEF S
  <2> QED
    BY <2>1, ClosureFacts
<1>4. ASSUME NEW p \in ps PROVE Closure(step, {p}) \subseteq Closure(step, ps)
  <2>1. {p} \in SUBSET DOMAIN step /\ {p} \subseteq Closure(step, ps)
    BY <1>2, <1>4
  <2> QED
    BY <1>2, <2>1, ClosureFacts
<1> QED
  BY <1>3, <1>4

-----------------------------------------------------------------------------

\* A project has finitely many files, and a file a list of entries.
ProjectOK ==
    /\ IsFiniteSet(DOMAIN disk)
    /\ \A p : Readable(p) => /\ Len(disk[p].extends) \in Nat
                             /\ DOMAIN disk[p].extends = 1 .. Len(disk[p].extends)

LEMMA ResolvesToOne ==
    ASSUME NEW s PROVE resolveExtends(s) = {} \/ \E p : resolveExtends(s) = {p}
  BY DEF resolveExtends

LEMMA ExtendedAreFiles == ASSUME NEW p PROVE Extended(p) \subseteq Files
  BY DEF Extended, Files, Readable

\* What a file leads to is the file and what it extends leads to.
LEMMA ReachedFacts ==
    /\ \A p \in Files : /\ Reached({p}) = {p} \cup Reached(Extended(p))
                        /\ Reached({p}) \subseteq Files
    /\ \A ps \in SUBSET Files : \A q : q \in Reached(ps) <=> \E p \in ps : q \in Reached({p})
<1> DEFINE step == [p \in Files |-> Extended(p)]
<1>1. /\ DOMAIN step = Files /\ \A p \in Files : step[p] = Extended(p)
      /\ \A p \in DOMAIN step : step[p] \subseteq DOMAIN step
  BY ExtendedAreFiles
<1>2. \A ps : Reached(ps) = Closure(step, ps)
  BY DEF Reached
<1> HIDE DEF step
<1>3. ASSUME NEW p \in Files
      PROVE  Reached({p}) = {p} \cup Reached(Extended(p)) /\ Reached({p}) \subseteq Files
  <2>1. Closure(step, {p}) = {p} \cup Closure(step, step[p])
    BY <1>1, <1>3, ClosureOfOne
  <2>2. Closure(step, {p}) \subseteq DOMAIN step
    <3>1. {p} \in SUBSET DOMAIN step
      BY <1>1, <1>3
    <3> QED
      BY <1>1, <3>1, ClosureFacts
  <2> QED
    BY <1>1, <1>2, <1>3, <2>1, <2>2
<1>4. ASSUME NEW ps \in SUBSET Files, NEW q
      PROVE  q \in Reached(ps) <=> \E p \in ps : q \in Reached({p})
  <2>1. ps \in SUBSET DOMAIN step
    BY <1>1
  <2>2. q \in Closure(step, ps) <=> \E p \in ps : q \in Closure(step, {p})
    BY <1>1, <2>1, ClosureOfSome
  <2> QED
    BY <1>2, <2>2
<1> QED
  BY <1>3, <1>4

\* Inherited is defined for every number of results.
After(results, g, n) ==
    IF n = 0 THEN {<<>>}
    ELSE UNION {{Merged(below, above) : above \in results[n]} : below \in g[n - 1]}

LEMMA AfterDefined ==
    ASSUME NEW results, NEW N \in Nat
    PROVE  \E g : g = [n \in 0 .. N |-> After(results, g, n)]
<1> DEFINE Partial(n) == \E g : g = [m \in 0 .. n |-> After(results, g, m)]
           Missing == {n \in Nat : ~Partial(n)}
<1>1. Partial(0)
  <2> DEFINE e == [m \in 0 .. 0 |-> {<<>>}]
  <2>1. \A m \in 0 .. 0 : After(results, e, m) = {<<>>}
    BY DEF After
  <2>2. e = [m \in 0 .. 0 |-> After(results, e, m)]
    BY <2>1
  <2> QED
    BY <2>2
<1>2. ASSUME NEW n \in Nat \ {0}, Partial(n - 1) PROVE Partial(n)
  <2>1. PICK g : g = [m \in 0 .. n - 1 |-> After(results, g, m)]
    BY <1>2
  <2> DEFINE h == [m \in 0 .. n |-> IF m = n THEN After(results, g, n) ELSE g[m]]
  <2>2. ASSUME NEW m \in 0 .. n PROVE After(results, h, m) = After(results, g, m)
    <3>1. CASE m = 0
      BY <3>1 DEF After
    <3>2. CASE m # 0
      <4>1. h[m - 1] = g[m - 1]
        BY <3>2
      <4> HIDE DEF h
      <4> QED
        BY <4>1, <3>2 DEF After
    <3> QED
      BY <3>1, <3>2
  <2>3. ASSUME NEW m \in 0 .. n PROVE h[m] = After(results, g, m)
    <3>1. CASE m = n
      BY <3>1
    <3>2. CASE m # n
      <4>1. m \in 0 .. n - 1
        BY <3>2
      <4>2. g[m] = After(results, g, m)
        <5> HIDE DEF h
        <5> QED
          BY <2>1, <4>1
      <4> QED
        BY <3>2, <4>2
    <3> QED
      BY <3>1, <3>2
  <2>4. h = [m \in 0 .. n |-> After(results, h, m)]
    <3>1. h = [m \in 0 .. n |-> h[m]]
      OBVIOUS
    <3> HIDE DEF h
    <3> QED
      BY <2>2, <2>3, <3>1
  <2> QED
    BY <2>4
<1>3. Partial(N)
  <2> SUFFICES ASSUME ~Partial(N) PROVE FALSE
    OBVIOUS
  <2> HIDE DEF Partial
  <2>1. Missing \subseteq Nat /\ Missing # {}
    OBVIOUS
  <2>2. Least(Missing) \in Missing /\ \A m \in Missing : Least(Missing) <= m
    <3> HIDE DEF Missing
    <3> QED
      BY <2>1, LeastNat
  <2>3. Least(Missing) # 0
    BY <1>1, <2>2
  <2>4. Least(Missing) - 1 \in Nat /\ Least(Missing) - 1 \notin Missing
    BY <2>2, <2>3
  <2>5. Partial(Least(Missing) - 1) /\ Least(Missing) \in Nat \ {0}
    BY <2>2, <2>3, <2>4
  <2> QED
    BY <1>2, <2>2, <2>5
<1> QED
  BY <1>3

\* The options that the first n entries give together: of each the value of the last that has it.
OfAll(r, n, options) ==
    /\ \A o : o \in DOMAIN options <=> \E i \in 1 .. n : o \in DOMAIN r[i]
    /\ \A o : \A i \in 1 .. n :
           o \in DOMAIN r[i] /\ (\A j \in i + 1 .. n : o \notin DOMAIN r[j]) => options[o] = r[i][o]

\* Results are together nothing if one of them is, and otherwise the options of all.
Joined(results, r, n) ==
    IF \E i \in 1 .. n : results[i] = {} THEN Inherited(results) = {}
    ELSE \E options : Inherited(results) = {options} /\ OfAll(r, n, options)

LEMMA InheritedFacts ==
    ASSUME NEW N \in Nat, NEW results, Len(results) = N, NEW r,
           \A i \in 1 .. N : results[i] = {} \/ results[i] = {r[i]}
    PROVE  Joined(results, r, N)
<1> DEFINE after == CHOOSE g : g = [n \in 0 .. N |-> After(results, g, n)]
           Right(n) == IF \E i \in 1 .. n : results[i] = {} THEN after[n] = {}
                       ELSE \E options : after[n] = {options} /\ OfAll(r, n, options)
           Wrong == {n \in 0 .. N : ~Right(n)}
<1>1. after = [n \in 0 .. N |-> After(results, after, n)]
  BY AfterDefined
<1>2. Inherited(results) = after[N]
  BY DEF Inherited, After
<1> HIDE DEF after
<1>3. Right(0)
  <2>1. after[0] = {<<>>}
    BY <1>1 DEF After
  <2>2. OfAll(r, 0, <<>>)
    BY DEF OfAll
  <2> QED
    BY <2>1, <2>2
<1>4. ASSUME NEW n \in 1 .. N, Right(n - 1) PROVE Right(n)
  <2>1. after[n] = UNION {{Merged(below, above) : above \in results[n]} : below \in after[n - 1]}
    <3>1. n \in 0 .. N /\ n # 0
      OBVIOUS
    <3>2. after[n] = After(results, after, n)
      BY <1>1, <3>1
    <3> QED
      BY <3>1, <3>2 DEF After
  <2>2. CASE \E i \in 1 .. n - 1 : results[i] = {}
    <3>1. after[n - 1] = {}
      BY <1>4, <2>2
    <3>2. after[n] = {}
      BY <2>1, <3>1
    <3>3. \E i \in 1 .. n : results[i] = {}
      BY <2>2
    <3> QED
      BY <3>2, <3>3
  <2>3. CASE ~\E i \in 1 .. n - 1 : results[i] = {}
    <3>1. PICK below : after[n - 1] = {below} /\ OfAll(r, n - 1, below)
      BY <1>4, <2>3
    <3>2. CASE results[n] = {}
      <4>1. after[n] = {}
        BY <2>1, <3>2
      <4> QED
        BY <3>2, <4>1
    <3>3. CASE results[n] = {r[n]}
      <4> DEFINE options == Merged(below, r[n])
      <4>1. after[n] = {options}
        BY <2>1, <3>1, <3>3
      <4>2. ASSUME NEW o
            PROVE  /\ o \in DOMAIN options <=> o \in DOMAIN below \/ o \in DOMAIN r[n]
                   /\ o \in DOMAIN r[n] => options[o] = r[n][o]
                   /\ o \in DOMAIN below /\ o \notin DOMAIN r[n] => options[o] = below[o]
        BY DEF Merged
      <4> HIDE DEF options
      <4>3. ASSUME NEW o PROVE o \in DOMAIN options <=> \E i \in 1 .. n : o \in DOMAIN r[i]
        <5>1. o \in DOMAIN below <=> \E i \in 1 .. n - 1 : o \in DOMAIN r[i]
          BY <3>1 DEF OfAll
        <5>2. \A i \in 1 .. n : i \in 1 .. n - 1 \/ i = n
          OBVIOUS
        <5>3. n \in 1 .. n /\ \A i \in 1 .. n - 1 : i \in 1 .. n
          OBVIOUS
        <5> QED
          BY <4>2, <5>1, <5>2, <5>3
      <4>4. ASSUME NEW o, NEW i \in 1 .. n, o \in DOMAIN r[i], \A j \in i + 1 .. n : o \notin DOMAIN r[j]
            PROVE  options[o] = r[i][o]
        <5>1. CASE i = n
          BY <4>2, <4>4, <5>1
        <5>2. CASE i # n
          <6>1. i \in 1 .. n - 1 /\ n \in i + 1 .. n /\ i + 1 .. n - 1 \subseteq i + 1 .. n
            BY <5>2
          <6>2. o \notin DOMAIN r[n] /\ \A j \in i + 1 .. n - 1 : o \notin DOMAIN r[j]
            BY <4>4, <6>1
          <6>3. o \in DOMAIN below /\ below[o] = r[i][o]
            BY <3>1, <4>4, <6>1, <6>2 DEF OfAll
          <6> QED
            BY <4>2, <6>2, <6>3
        <5> QED
          BY <5>1, <5>2
      <4>5. OfAll(r, n, options)
        BY <4>3, <4>4 DEF OfAll
      <4>6. ~\E i \in 1 .. n : results[i] = {}
        <5>1. results[n] # {} /\ \A i \in 1 .. n : i \in 1 .. n - 1 \/ i = n
          BY <3>3
        <5> QED
          BY <2>3, <5>1
      <4> QED
        BY <4>1, <4>5, <4>6
    <3> QED
      BY <3>2, <3>3
  <2> QED
    BY <2>2, <2>3
<1>5. Right(N)
  <2> SUFFICES ASSUME ~Right(N) PROVE FALSE
    OBVIOUS
  <2> HIDE DEF Right
  <2>1. Wrong \subseteq Nat /\ Wrong # {}
    OBVIOUS
  <2>2. Least(Wrong) \in Wrong /\ \A m \in Wrong : Least(Wrong) <= m
    <3> HIDE DEF Wrong
    <3> QED
      BY <2>1, LeastNat
  <2>3. Least(Wrong) # 0
    BY <1>3, <2>2
  <2>4. Least(Wrong) - 1 \in 0 .. N /\ Least(Wrong) - 1 \notin Wrong
    BY <2>2, <2>3
  <2>5. Right(Least(Wrong) - 1) /\ Least(Wrong) \in 1 .. N
    BY <2>2, <2>3, <2>4
  <2> QED
    BY <1>4, <2>2, <2>5
<1> QED
  BY <1>2, <1>5 DEF Joined

\* What load makes of a file behind a chain, if g is what it makes of the files behind longer ones.
Results(g, chain, path) ==
    [i \in DOMAIN disk[path].extends |->
        UNION {g[chain \cup {path}][p] : p \in resolveExtends(disk[path].extends[i])}]
Load(g, chain) ==
    [path \in Files |->
        IF path \in chain \/ ~Readable(path) THEN {}
        ELSE {Merged(below, disk[path].options) : below \in Inherited(Results(g, chain, path))}]

\* The files that are left get fewer with every file of a chain.
LEMMA FewerLeft ==
    ASSUME IsFiniteSet(DOMAIN disk), NEW chain \in SUBSET DOMAIN disk,
           NEW path, path \notin chain, Readable(path)
    PROVE  /\ chain \cup {path} \in SUBSET DOMAIN disk
           /\ Cardinality(DOMAIN disk \ chain) \in Nat
           /\ Cardinality(DOMAIN disk \ (chain \cup {path})) \in Nat
           /\ Cardinality(DOMAIN disk \ (chain \cup {path})) < Cardinality(DOMAIN disk \ chain)
<1> DEFINE left == DOMAIN disk \ chain
           rest == DOMAIN disk \ (chain \cup {path})
<1>1. path \in left /\ rest = left \ {path} /\ chain \cup {path} \in SUBSET DOMAIN disk
  BY DEF Readable
<1>2. IsFiniteSet(left)
  BY FS_Subset
<1>3. Cardinality(left) \in Nat /\ IsFiniteSet(rest)
  BY <1>1, <1>2, FS_CardinalityType, FS_Subset
<1>4. Cardinality(rest) \in Nat /\ Cardinality(rest) = Cardinality(left) - 1
  BY <1>1, <1>2, <1>3, FS_RemoveElement, FS_CardinalityType
<1> QED
  BY <1>1, <1>3, <1>4

\* Behind chains that leave fewer than n files, load is defined.
Deep(n) == {chain \in SUBSET DOMAIN disk : Cardinality(DOMAIN disk \ chain) < n}

LEMMA LoadAlike ==
    ASSUME IsFiniteSet(DOMAIN disk), NEW n \in Nat, NEW g, NEW h, \A c \in Deep(n) : g[c] = h[c],
           NEW chain \in Deep(n + 1)
    PROVE  Load(g, chain) = Load(h, chain)
<1>1. ASSUME NEW path, path \notin chain, Readable(path)
      PROVE  Results(g, chain, path) = Results(h, chain, path)
  <2>1. chain \cup {path} \in Deep(n)
    <3>1. chain \in SUBSET DOMAIN disk /\ Cardinality(DOMAIN disk \ chain) < n + 1
      BY DEF Deep
    <3>2. /\ chain \cup {path} \in SUBSET DOMAIN disk
          /\ Cardinality(DOMAIN disk \ chain) \in Nat
          /\ Cardinality(DOMAIN disk \ (chain \cup {path})) \in Nat
          /\ Cardinality(DOMAIN disk \ (chain \cup {path})) < Cardinality(DOMAIN disk \ chain)
      BY <1>1, <3>1, FewerLeft
    <3>3. Cardinality(DOMAIN disk \ (chain \cup {path})) < n
      BY <3>1, <3>2
    <3> QED
      BY <3>2, <3>3 DEF Deep
  <2>2. g[chain \cup {path}] = h[chain \cup {path}]
    BY <2>1
  <2> QED
    BY <2>2 DEF Results
<1>2. \A path : IF path \in chain \/ ~Readable(path) THEN TRUE
                ELSE Inherited(Results(g, chain, path)) = Inherited(Results(h, chain, path))
  BY <1>1
<1> QED
  BY <1>2 DEF Load

LEMMA LoadDefined ==
    ASSUME IsFiniteSet(DOMAIN disk)
    PROVE  load = [chain \in SUBSET DOMAIN disk |-> Load(load, chain)]
<1> DEFINE Partial(n) == \E g : g = [chain \in Deep(n) |-> Load(g, chain)]
           Missing == {n \in Nat : ~Partial(n)}
           N == Cardinality(DOMAIN disk)
<1>1. Partial(0)
  <2>1. Deep(0) = {}
    <3> SUFFICES ASSUME NEW chain \in Deep(0) PROVE FALSE
      OBVIOUS
    <3>1. IsFiniteSet(DOMAIN disk \ chain)
      BY FS_Subset
    <3>2. Cardinality(DOMAIN disk \ chain) \in Nat
      BY <3>1, FS_CardinalityType
    <3> QED
      BY <3>2 DEF Deep
  <2> DEFINE e == [chain \in {} |-> {}]
  <2>2. e = [chain \in Deep(0) |-> Load(e, chain)]
    BY <2>1
  <2> QED
    BY <2>2
<1>2. ASSUME NEW n \in Nat, Partial(n) PROVE Partial(n + 1)
  <2>1. PICK g : g = [chain \in Deep(n) |-> Load(g, chain)]
    BY <1>2
  <2> DEFINE h == [chain \in Deep(n + 1) |-> Load(g, chain)]
  <2>2. ASSUME NEW chain \in Deep(n) PROVE g[chain] = h[chain]
    <3>1. chain \in Deep(n + 1)
      <4>1. IsFiniteSet(DOMAIN disk \ chain)
        BY FS_Subset
      <4>2. Cardinality(DOMAIN disk \ chain) \in Nat
        BY <4>1, FS_CardinalityType
      <4> QED
        BY <4>2 DEF Deep
    <3>2. g[chain] = Load(g, chain)
      BY <2>1
    <3> QED
      BY <3>1, <3>2
  <2> HIDE DEF h
  <2>3. \A chain \in Deep(n + 1) : Load(g, chain) = Load(h, chain)
    BY <2>2, LoadAlike
  <2>4. h = [chain \in Deep(n + 1) |-> Load(h, chain)]
    BY <2>3 DEF h
  <2> QED
    BY <2>4
<1>3. N \in Nat
  BY FS_CardinalityType
<1>4. Partial(N + 1)
  <2> SUFFICES ASSUME ~Partial(N + 1) PROVE FALSE
    OBVIOUS
  <2> HIDE DEF Partial, N
  <2>1. Missing \subseteq Nat /\ Missing # {}
    BY <1>3
  <2>2. Least(Missing) \in Missing /\ \A m \in Missing : Least(Missing) <= m
    <3> HIDE DEF Missing
    <3> QED
      BY <2>1, LeastNat
  <2>3. Least(Missing) # 0
    BY <1>1, <2>2
  <2> DEFINE m == Least(Missing) - 1
  <2>4. m \in Nat /\ m \notin Missing /\ m + 1 = Least(Missing)
    BY <2>2, <2>3
  <2>5. Partial(m)
    BY <2>4
  <2>6. ~Partial(m + 1)
    BY <2>2, <2>4
  <2> HIDE DEF m
  <2> QED
    BY <1>2, <2>4, <2>5, <2>6
<1>5. Deep(N + 1) = SUBSET DOMAIN disk
  <2> SUFFICES ASSUME NEW chain \in SUBSET DOMAIN disk PROVE Cardinality(DOMAIN disk \ chain) < N + 1
    BY DEF Deep
  <2>1. IsFiniteSet(DOMAIN disk \ chain) /\ Cardinality(DOMAIN disk \ chain) <= N
    BY FS_Subset
  <2>2. Cardinality(DOMAIN disk \ chain) \in Nat
    BY <2>1, FS_CardinalityType
  <2> HIDE DEF N
  <2> QED
    BY <1>3, <2>1, <2>2
<1>6. load = CHOOSE g : g = [chain \in SUBSET DOMAIN disk |-> Load(g, chain)]
  BY DEF load, Load, Results
<1> QED
  <2>1. \E g : g = [chain \in SUBSET DOMAIN disk |-> Load(g, chain)]
    BY <1>4, <1>5
  <2> QED
    BY <1>6, <2>1

\* A file's own value decides; otherwise what its deciding entry gives.
LEMMA GivesFacts ==
    ASSUME NEW p \in Files, NEW o
    PROVE  /\ Sets(p, o) => Gives(p, o) = {disk[p].options[o]}
           /\ ~Sets(p, o) /\ Deciding(p, o) = {} => Gives(p, o) = {}
           /\ ~Sets(p, o) => \A q : Deciding(p, o) = {q} => Gives(p, o) = Gives(q, o)
<1> DEFINE step == [q \in Files |-> Deciding(q, o)]
<1>1. \A q : Deciding(q, o) \subseteq Files
  <2> SUFFICES ASSUME NEW q, NEW r \in Deciding(q, o) PROVE r \in Files
    OBVIOUS
  <2>1. r \in Extended(q)
    BY DEF Deciding, Extended
  <2> QED
    BY <2>1, ExtendedAreFiles
<1>2. /\ DOMAIN step = Files /\ step[p] = Deciding(p, o)
      /\ \A q \in DOMAIN step : step[q] \subseteq DOMAIN step
  BY <1>1
<1>3. \A q : Gives(q, o) = {disk[r].options[o] : r \in {r \in Closure(step, {q}) : Sets(r, o)}}
  BY DEF Gives
<1> HIDE DEF step
<1>4. Closure(step, {p}) = {p} \cup Closure(step, Deciding(p, o))
  BY <1>2, ClosureOfOne
<1>5. Closure(step, {}) = {}
  <2>1. {} \in SUBSET DOMAIN step /\ {} \subseteq {} /\ \A q \in {} : step[q] \subseteq {}
    OBVIOUS
  <2>2. Closure(step, {}) \subseteq {}
    BY <1>2, <2>1, ClosureFacts
  <2> QED
    BY <2>2
<1>6. ASSUME Sets(p, o) PROVE Gives(p, o) = {disk[p].options[o]}
  <2>1. Deciding(p, o) = {}
    BY <1>6 DEF Deciding
  <2>2. {r \in Closure(step, {p}) : Sets(r, o)} = {p}
    BY <1>4, <1>5, <1>6, <2>1
  <2> QED
    BY <1>3, <2>2
<1>7. ASSUME ~Sets(p, o), Deciding(p, o) = {} PROVE Gives(p, o) = {}
  <2>1. {r \in Closure(step, {p}) : Sets(r, o)} = {}
    BY <1>4, <1>5, <1>7
  <2> QED
    BY <1>3, <2>1
<1>8. ASSUME ~Sets(p, o), NEW q, Deciding(p, o) = {q} PROVE Gives(p, o) = Gives(q, o)
  <2>1. {r \in Closure(step, {p}) : Sets(r, o)} = {r \in Closure(step, {q}) : Sets(r, o)}
    BY <1>4, <1>8
  <2> QED
    BY <1>3, <2>1
<1> QED
  BY <1>6, <1>7, <1>8

-----------------------------------------------------------------------------

\* All that a file leads to is there, outside the chain, and on no circle.
Good(chain, path) ==
    \A q \in Reached({path}) :
        /\ q \notin chain /\ Readable(q)
        /\ \A i \in DOMAIN disk[q].extends : resolveExtends(disk[q].extends[i]) # {}
        /\ q \notin Reached(Extended(q))

\* The options are those that TypeScript takes from a file.
Used(path, options) ==
    \A o : /\ o \in DOMAIN options <=> \E q \in Reached({path}) : Sets(q, o)
           /\ Gives(path, o) = IF o \in DOMAIN options THEN {options[o]} ELSE {}

\* What load must make of a file behind a chain.
Right(chain, path) ==
    IF Good(chain, path) THEN \E options : load[chain][path] = {options} /\ Used(path, options)
    ELSE load[chain][path] = {}

\* Behind a file that can be read everything is good if it is behind each of its entries.
LEMMA GoodByEntries ==
    ASSUME NEW chain, NEW path \in Files, path \notin chain, Readable(path)
    PROVE  Good(chain, path) <=>
               \A i \in DOMAIN disk[path].extends :
                   LET ps == resolveExtends(disk[path].extends[i])
                   IN  ps # {} /\ \A q \in ps : Good(chain \cup {path}, q)
<1>1. /\ Extended(path) \in SUBSET Files
      /\ Reached({path}) = {path} \cup Reached(Extended(path))
      /\ \A q : q \in Reached(Extended(path)) <=> \E p \in Extended(path) : q \in Reached({p})
  BY ReachedFacts, ExtendedAreFiles
<1>2. \A q : q \in Extended(path) <=>
          \E i \in DOMAIN disk[path].extends : q \in resolveExtends(disk[path].extends[i])
  BY DEF Extended
<1>3. ASSUME Good(chain, path), NEW i \in DOMAIN disk[path].extends
      PROVE  /\ resolveExtends(disk[path].extends[i]) # {}
             /\ \A q \in resolveExtends(disk[path].extends[i]) : Good(chain \cup {path}, q)
  <2>1. path \in Reached({path})
    BY <1>1
  <2>2. resolveExtends(disk[path].extends[i]) # {} /\ path \notin Reached(Extended(path))
    BY <1>3, <2>1 DEF Good
  <2>3. ASSUME NEW q \in resolveExtends(disk[path].extends[i]), NEW r \in Reached({q})
        PROVE  r \in Reached({path}) /\ r # path
    <3>1. r \in Reached(Extended(path))
      BY <1>1, <1>2, <2>3
    <3> QED
      BY <1>1, <2>2, <3>1
  <2>4. ASSUME NEW q \in resolveExtends(disk[path].extends[i]) PROVE Good(chain \cup {path}, q)
    BY <1>3, <2>3 DEF Good
  <2> QED
    BY <2>2, <2>4
<1>4. ASSUME \A i \in DOMAIN disk[path].extends :
                 /\ resolveExtends(disk[path].extends[i]) # {}
                 /\ \A q \in resolveExtends(disk[path].extends[i]) : Good(chain \cup {path}, q)
      PROVE  Good(chain, path)
  <2>1. ASSUME NEW q \in Reached(Extended(path))
        PROVE  /\ q \notin chain \cup {path} /\ Readable(q)
               /\ \A i \in DOMAIN disk[q].extends : resolveExtends(disk[q].extends[i]) # {}
               /\ q \notin Reached(Extended(q))
    <3>1. PICK p \in Extended(path) : q \in Reached({p})
      BY <1>1, <2>1
    <3>2. Good(chain \cup {path}, p)
      BY <1>2, <1>4, <3>1
    <3> QED
      BY <3>1, <3>2 DEF Good
  <2>2. path \notin Reached(Extended(path))
    BY <2>1
  <2> QED
    BY <1>1, <1>4, <2>1, <2>2 DEF Good
<1> QED
  BY <1>3, <1>4

\* load makes what it must of a file if it does of those that the file extends.
LEMMA RightStep ==
    ASSUME ProjectOK, NEW chain \in SUBSET DOMAIN disk, NEW path \in Files,
           path \notin chain, Readable(path), \A q \in Extended(path) : Right(chain \cup {path}, q)
    PROVE  Right(chain, path)
<1> DEFINE parents == disk[path].extends
           N == Len(parents)
           named(i) == resolveExtends(parents[i])
           results == Results(load, chain, path)
           own == disk[path].options
           r == [i \in 1 .. N |-> CHOOSE options : options \in results[i]]
           Learnt(i, options) == \A q \in named(i) : Used(q, options)
           Bad(i) == named(i) = {} \/ \E q \in named(i) : ~Good(chain \cup {path}, q)
<1>1. N \in Nat /\ DOMAIN parents = 1 .. N
  BY DEF ProjectOK
<1>2. /\ Len(results) = N
      /\ \A i \in 1 .. N : results[i] = UNION {load[chain \cup {path}][p] : p \in named(i)}
  <2>1. results = [i \in 1 .. N |-> UNION {load[chain \cup {path}][p] : p \in named(i)}]
    BY <1>1 DEF Results
  <2> HIDE DEF results, N, named
  <2> QED
    BY <1>1, <2>1
<1>3. load[chain][path] = {Merged(below, own) : below \in Inherited(results)}
  <2>1. load[chain] = Load(load, chain)
    BY LoadDefined DEF ProjectOK
  <2> QED
    BY <2>1 DEF Load
<1>4. \A q : q \in Extended(path) <=> \E i \in 1 .. N : q \in named(i)
  BY <1>1 DEF Extended
<1> HIDE DEF parents, N, named, results, own
<1>5. ASSUME NEW i \in 1 .. N
      PROVE  IF Bad(i) THEN results[i] = {}
             ELSE results[i] = {r[i]} /\ Learnt(i, r[i])
  <2>1. named(i) = {} \/ \E q : named(i) = {q}
    BY ResolvesToOne DEF named
  <2>2. CASE named(i) = {}
    BY <1>2, <2>2
  <2>3. CASE named(i) # {}
    <3>1. PICK q : named(i) = {q}
      BY <2>1, <2>3
    <3>2. results[i] = load[chain \cup {path}][q]
      <4> DEFINE loaded(p) == load[chain \cup {path}][p]
      <4>1. results[i] = UNION {loaded(p) : p \in named(i)}
        BY <1>2
      <4> HIDE DEF loaded
      <4>2. results[i] = loaded(q)
        BY <3>1, <4>1
      <4> QED
        BY <4>2 DEF loaded
    <3>3. q \in Extended(path)
      BY <1>4, <3>1
    <3>4. Right(chain \cup {path}, q)
      BY <3>3
    <3>5. CASE Good(chain \cup {path}, q)
      <4>1. PICK options : results[i] = {options} /\ Used(q, options)
        BY <3>2, <3>4, <3>5 DEF Right
      <4>2. r[i] = options
        BY <4>1
      <4> HIDE DEF r
      <4>3. ~Bad(i) /\ Learnt(i, r[i])
        BY <3>1, <3>5, <4>1, <4>2
      <4> QED
        BY <4>1, <4>2, <4>3
    <3>6. CASE ~Good(chain \cup {path}, q)
      <4>1. Bad(i) /\ results[i] = {}
        BY <3>1, <3>2, <3>4, <3>6 DEF Right
      <4> QED
        BY <4>1
    <3> QED
      BY <3>5, <3>6
  <2> QED
    BY <2>2, <2>3
<1>6. Good(chain, path) <=> \A i \in 1 .. N : ~Bad(i)
  BY <1>1, GoodByEntries DEF named, parents
<1> HIDE DEF r, Bad
<1>7. Joined(results, r, N)
  <2>1. \A i \in 1 .. N : results[i] = {} \/ results[i] = {r[i]}
    BY <1>5
  <2> HIDE DEF Learnt
  <2> QED
    BY <1>1, <1>2, <2>1, InheritedFacts
<1>8. CASE ~Good(chain, path)
  <2>1. PICK i \in 1 .. N : Bad(i)
    BY <1>6, <1>8
  <2>2. results[i] = {}
    BY <1>5, <2>1
  <2>3. Inherited(results) = {}
    BY <1>7, <2>2 DEF Joined
  <2>4. load[chain][path] = {}
    BY <1>3, <2>3
  <2> QED
    BY <1>8, <2>4 DEF Right
<1>9. CASE Good(chain, path)
  <2>1. \A i \in 1 .. N : ~Bad(i) /\ results[i] = {r[i]} /\ Learnt(i, r[i])
    BY <1>5, <1>6, <1>9
  <2>2. ~\E i \in 1 .. N : results[i] = {}
    <3>1. \A i \in 1 .. N : results[i] = {r[i]}
      BY <2>1
    <3> QED
      BY <3>1
  <2>3. PICK below : Inherited(results) = {below} /\ OfAll(r, N, below)
    BY <1>7, <2>2 DEF Joined
  <2> DEFINE options == Merged(below, own)
  <2>4. load[chain][path] = {options}
    BY <1>3, <2>3
  <2>5. \A o : /\ o \in DOMAIN options <=> o \in DOMAIN below \/ o \in DOMAIN own
               /\ o \in DOMAIN own => options[o] = own[o]
               /\ o \in DOMAIN below /\ o \notin DOMAIN own => options[o] = below[o]
    BY DEF Merged
  <2> HIDE DEF options
  <2>6. \A i \in 1 .. N : \E q : named(i) = {q} /\ Used(q, r[i])
    <3> SUFFICES ASSUME NEW i \in 1 .. N PROVE \E q : named(i) = {q} /\ Used(q, r[i])
      OBVIOUS
    <3>1. named(i) # {} /\ Learnt(i, r[i])
      BY <2>1 DEF Bad
    <3>2. named(i) = {} \/ \E q : named(i) = {q}
      BY ResolvesToOne DEF named
    <3> QED
      BY <3>1, <3>2
  <2> HIDE DEF Learnt
  <2>7. ASSUME NEW o, NEW i \in 1 .. N
        PROVE  o \in DOMAIN r[i] <=> \E q \in Reached(named(i)) : Sets(q, o)
    <3>1. PICK q : named(i) = {q} /\ Used(q, r[i])
      BY <2>6
    <3> QED
      BY <3>1 DEF Used
  <2>8. ASSUME NEW o PROVE Sets(path, o) <=> o \in DOMAIN own
    BY DEF Sets, own
  <2>9. ASSUME NEW o PROVE o \in DOMAIN options <=> \E q \in Reached({path}) : Sets(q, o)
    <3>1. /\ Extended(path) \in SUBSET Files
          /\ Reached({path}) = {path} \cup Reached(Extended(path))
      BY ReachedFacts, ExtendedAreFiles
    <3>2. \A q : q \in Reached(Extended(path)) <=> \E p \in Extended(path) : q \in Reached({p})
      BY <3>1, ReachedFacts
    <3>3. ASSUME NEW q, Sets(q, o)
          PROVE  q \in Reached(Extended(path)) <=> \E i \in 1 .. N : q \in Reached(named(i))
      <4>1. ASSUME NEW p \in Extended(path) PROVE \E i \in 1 .. N : named(i) = {p}
        BY <1>4, <2>6
      <4>2. ASSUME NEW i \in 1 .. N PROVE \E p \in Extended(path) : named(i) = {p}
        BY <1>4, <2>6
      <4> QED
        BY <3>2, <4>1, <4>2
    <3>4. (\E q \in Reached(Extended(path)) : Sets(q, o)) <=> \E i \in 1 .. N : o \in DOMAIN r[i]
      BY <2>7, <3>3
    <3> QED
      BY <2>3, <2>5, <2>8, <3>1, <3>4 DEF OfAll
  <2>10. ASSUME NEW o PROVE Gives(path, o) = IF o \in DOMAIN options THEN {options[o]} ELSE {}
    <3>1. CASE Sets(path, o)
      <4>1. Gives(path, o) = {own[o]}
        BY <3>1, GivesFacts DEF own
      <4> QED
        BY <2>5, <2>8, <3>1, <4>1
    <3>2. CASE ~Sets(path, o)
      <4> DEFINE with == {i \in 1 .. N : o \in DOMAIN r[i]}
                 lasts == {i \in with : \A j \in with : j <= i}
      <4>1. Deciding(path, o) = UNION {named(i) : i \in lasts}
        <5>1. {i \in DOMAIN parents : \E p \in Reached(resolveExtends(parents[i])) : Sets(p, o)} = with
          <6>1. \A i \in 1 .. N : o \in DOMAIN r[i] <=> \E p \in Reached(resolveExtends(parents[i])) : Sets(p, o)
            BY <2>7 DEF named
          <6> QED
            BY <1>1, <6>1
        <5> HIDE DEF with
        <5> QED
          BY <3>2, <5>1 DEF Deciding, named, parents
      <4>2. CASE with = {}
        <5>1. Deciding(path, o) = {}
          BY <4>1, <4>2
        <5>2. Gives(path, o) = {}
          BY <3>2, <5>1, GivesFacts
        <5>3. o \notin DOMAIN options
          BY <2>3, <2>5, <2>8, <3>2, <4>2 DEF OfAll
        <5> QED
          BY <5>2, <5>3
      <4>3. CASE with # {}
        <5>1. PICK i \in with : \A j \in with : j <= i
          <6>1. with \subseteq 1 .. N
            OBVIOUS
          <6> HIDE DEF with
          <6> QED
            BY <1>1, <4>3, <6>1, GreatestExists
        <5>2. lasts = {i}
          <6>1. \A j \in lasts : j = i
            BY <1>1, <5>1
          <6> QED
            BY <5>1, <6>1
        <5>3. PICK q : named(i) = {q} /\ Used(q, r[i])
          BY <2>6
        <5>4. Deciding(path, o) = {q}
          BY <4>1, <5>2, <5>3
        <5>5. Gives(path, o) = Gives(q, o)
          BY <3>2, <5>4, GivesFacts
        <5>6. Gives(q, o) = {r[i][o]}
          BY <5>1, <5>3 DEF Used
        <5>7. \A j \in i + 1 .. N : o \notin DOMAIN r[j]
          <6> SUFFICES ASSUME NEW j \in i + 1 .. N, o \in DOMAIN r[j] PROVE FALSE
            OBVIOUS
          <6>1. j \in with
            BY <1>1
          <6> QED
            BY <1>1, <5>1, <6>1
        <5>8. o \in DOMAIN below /\ below[o] = r[i][o]
          BY <2>3, <5>1, <5>7 DEF OfAll
        <5>9. o \in DOMAIN options /\ options[o] = r[i][o]
          BY <2>5, <2>8, <3>2, <5>8
        <5> QED
          BY <5>5, <5>6, <5>9
      <4> QED
        BY <4>2, <4>3
    <3> QED
      BY <3>1, <3>2
  <2>11. Used(path, options)
    BY <2>9, <2>10 DEF Used
  <2> QED
    BY <1>9, <2>4, <2>11 DEF Right
<1> QED
  BY <1>8, <1>9

\* It does so of every file, behind every chain.
LEMMA LoadRight ==
    ASSUME ProjectOK
    PROVE  \A chain \in SUBSET DOMAIN disk : \A path \in Files : Right(chain, path)
<1> DEFINE left(chain) == Cardinality(DOMAIN disk \ chain)
           Wrong == {n \in Nat : \E chain \in SUBSET DOMAIN disk :
                                     left(chain) = n /\ \E path \in Files : ~Right(chain, path)}
<1> SUFFICES ASSUME NEW wrong \in SUBSET DOMAIN disk, \E path \in Files : ~Right(wrong, path)
             PROVE  FALSE
  OBVIOUS
<1>1. \A chain \in SUBSET DOMAIN disk : left(chain) \in Nat
  <2> SUFFICES ASSUME NEW chain \in SUBSET DOMAIN disk PROVE left(chain) \in Nat
    OBVIOUS
  <2>1. IsFiniteSet(DOMAIN disk \ chain)
    BY FS_Subset DEF ProjectOK
  <2> QED
    BY <2>1, FS_CardinalityType
<1>2. Wrong \subseteq Nat /\ Wrong # {}
  <2>1. left(wrong) \in Wrong
    BY <1>1
  <2> QED
    BY <2>1
<1>3. Least(Wrong) \in Wrong /\ \A n \in Wrong : Least(Wrong) <= n
  <2> HIDE DEF Wrong
  <2> QED
    BY <1>2, LeastNat
<1>4. PICK chain \in SUBSET DOMAIN disk :
          left(chain) = Least(Wrong) /\ \E path \in Files : ~Right(chain, path)
  BY <1>3
<1>5. PICK path \in Files : ~Right(chain, path)
  BY <1>4
<1>6. CASE path \in chain \/ ~Readable(path)
  <2>1. load[chain] = Load(load, chain)
    BY LoadDefined DEF ProjectOK
  <2>2. load[chain][path] = {}
    BY <1>6, <2>1 DEF Load
  <2>3. path \in Reached({path})
    BY ReachedFacts
  <2>4. ~Good(chain, path)
    BY <1>6, <2>3 DEF Good
  <2> QED
    BY <1>5, <2>2, <2>4 DEF Right
<1>7. CASE path \notin chain /\ Readable(path)
  <2>1. /\ chain \cup {path} \in SUBSET DOMAIN disk
        /\ left(chain \cup {path}) < left(chain)
    BY <1>7, FewerLeft DEF ProjectOK
  <2>2. \A q \in Files : Right(chain \cup {path}, q)
    <3> SUFFICES ASSUME NEW q \in Files, ~Right(chain \cup {path}, q) PROVE FALSE
      OBVIOUS
    <3>1. left(chain \cup {path}) \in Wrong
      BY <1>1, <2>1
    <3>2. Least(Wrong) <= left(chain \cup {path})
      BY <1>3, <3>1
    <3>3. left(chain) \in Nat /\ left(chain \cup {path}) \in Nat
      BY <1>1, <2>1
    <3> HIDE DEF left, Wrong
    <3> QED
      BY <1>4, <2>1, <3>2, <3>3
  <2>3. \A q \in Extended(path) : Right(chain \cup {path}, q)
    BY <2>2, ExtendedAreFiles
  <2> QED
    BY <1>5, <1>7, <2>3, RightStep
<1> QED
  BY <1>6, <1>7

\* Over the same files all of this is the same.
LEMMA LoadUnchanged ==
    ASSUME UNCHANGED <<disk, call, parsed>>
    PROVE  load' = load
<1>1. \A s : resolveExtends(s)' = resolveExtends(s)
  <2> SUFFICES ASSUME NEW s PROVE resolveExtends(s)' = resolveExtends(s)
    OBVIOUS
  <2>1. Candidates(s)' = Candidates(s)
    BY DEF Candidates
  <2> QED
    BY <2>1 DEF resolveExtends
<1>2. \A p : Readable(p)' = Readable(p)
  BY DEF Readable
<1>3. \A p : Extended(p)' = Extended(p)
  BY <1>1, <1>2 DEF Extended
<1>4. Files' = Files
  BY <1>3 DEF Files
<1>5. \A g, chain, path : Results(g, chain, path)' = Results(g, chain, path)
  BY <1>1 DEF Results
<1>6. \A g, chain : Load(g, chain)' = Load(g, chain)
  BY <1>2, <1>4, <1>5 DEF Load
<1>7. load = CHOOSE g : g = [chain \in SUBSET DOMAIN disk |-> Load(g, chain)]
  BY DEF load, Load, Results
<1>8. load' = CHOOSE g : g = [chain \in SUBSET DOMAIN disk' |-> Load(g, chain)']
  BY DEF load, Load, Results
<1> QED
  BY <1>6, <1>7, <1>8

CliSpec == CliInit /\ [][CliNext]_cliVars

\* At most one file is checked, and nothing is written before it; the verdict is that on the options
\* that load finds.
CliInv ==
    /\ call \in Invocations
    /\ stage # "written" => disk = call.files
    /\ parsed = [options |-> parsed.options, output |-> parsed.output, force |-> parsed.force,
                 help |-> parsed.help, tsconfig |-> parsed.tsconfig]
    /\ \A p, q \in parsed.tsconfig : p = q
    /\ stage = "writing" => parsed.tsconfig = {}
    /\ stage \in {"meets", "failed"} =>
           \A path \in parsed.tsconfig :
               stage = "meets" <=> \E options \in load[{}][path] : Problems(options) = {}

LEMMA CliInitHasInv == CliInit => CliInv
  BY DEF CliInit, CliInv

LEMMA ReadFlagKeepsInv == ASSUME CliInv, ReadFlag PROVE CliInv'
<1>1. stage = "parsing" /\ stage' \in {"parsing", "rejected"} /\ UNCHANGED <<call, disk>>
  BY DEF ReadFlag
<1> DEFINE flag == call.args[index]
<1>2. \/ parsed' = parsed
      \/ parsed' = [parsed EXCEPT !.force = TRUE]
      \/ parsed' = [parsed EXCEPT !.help = TRUE]
      \/ parsed' = [parsed EXCEPT !.tsconfig = IF Value = {} THEN {"tsconfig.json"} ELSE Value]
      \/ parsed' = [parsed EXCEPT !.output = CHOOSE v \in Value : TRUE]
      \/ parsed' = [parsed EXCEPT !.options[OptionOf[flag]] = CHOOSE v \in Value : TRUE]
  <2> DEFINE rejected == \/ flag \in seen
                         \/ flag \notin VALUED \cup SWITCHES
                         \/ flag \in VALUED /\ Value = {}
  <2>1. parsed' =
          CASE rejected -> parsed
            [] flag = "--force" -> [parsed EXCEPT !.force = TRUE]
            [] flag = "--help" -> [parsed EXCEPT !.help = TRUE]
            [] flag = "--check-tsconfig" ->
                  [parsed EXCEPT !.tsconfig = IF Value = {} THEN {"tsconfig.json"} ELSE Value]
            [] flag = "--output" -> [parsed EXCEPT !.output = CHOOSE v \in Value : TRUE]
            [] OTHER -> [parsed EXCEPT !.options[OptionOf[flag]] = CHOOSE v \in Value : TRUE]
    BY DEF ReadFlag
  <2> HIDE DEF flag, rejected
  <2> QED
    BY <2>1
<1>3. \A p, q \in Value : p = q
  BY DEF Value
<1>4. /\ parsed' = [options |-> parsed'.options, output |-> parsed'.output, force |-> parsed'.force,
                    help |-> parsed'.help, tsconfig |-> parsed'.tsconfig]
      /\ parsed'.tsconfig \in {parsed.tsconfig, {"tsconfig.json"}, Value}
  <2> DEFINE a == parsed.options
             b == parsed.output
             c == parsed.force
             d == parsed.help
             e == parsed.tsconfig
             p == [options |-> a, output |-> b, force |-> c, help |-> d, tsconfig |-> e]
             T == IF Value = {} THEN {"tsconfig.json"} ELSE Value
             v == CHOOSE x \in Value : TRUE
             name == OptionOf[flag]
  <2>1. parsed = p
    BY DEF CliInv
  <2>2. \/ parsed' = p
        \/ parsed' = [p EXCEPT !.force = TRUE]
        \/ parsed' = [p EXCEPT !.help = TRUE]
        \/ parsed' = [p EXCEPT !.tsconfig = T]
        \/ parsed' = [p EXCEPT !.output = v]
        \/ parsed' = [p EXCEPT !.options[name] = v]
    BY <1>2, <2>1
  <2>3. e = parsed.tsconfig /\ T \in {{"tsconfig.json"}, Value}
    OBVIOUS
  <2> HIDE DEF a, b, c, d, e, T, v, name
  <2> QED
    BY <2>2, <2>3
<1> QED
  BY <1>1, <1>3, <1>4 DEF CliInv

LEMMA CheckKeepsCliInv == ASSUME CliInv, checkTsconfig PROVE CliInv'
<1>1. UNCHANGED <<disk, call, parsed>> /\ stage = "checking" /\ stage' \in {"meets", "failed"}
  BY DEF checkTsconfig
<1>2. load' = load
  BY <1>1, LoadUnchanged
<1>3. ASSUME NEW path \in parsed.tsconfig
      PROVE  stage' = "meets" <=> \E options \in load[{}][path] : Problems(options) = {}
  <2>1. \A p \in parsed.tsconfig : p = path
    BY <1>3 DEF CliInv
  <2>2. stage' = IF \E options \in load[{}][path] : Problems(options) = {} THEN "meets" ELSE "failed"
    BY <1>3, <2>1 DEF checkTsconfig
  <2> QED
    BY <2>2
<1> QED
  BY <1>1, <1>2, <1>3 DEF CliInv

LEMMA CliNextKeepsInv == CliInv /\ [CliNext]_cliVars => CliInv'
<1> SUFFICES ASSUME CliInv, [CliNext]_cliVars PROVE CliInv'
  OBVIOUS
<1>1. CASE ReadFlag
  BY <1>1, ReadFlagKeepsInv
<1>2. CASE ParsedAll
  <2>1. /\ UNCHANGED <<call, disk, parsed>> /\ stage = "parsing"
        /\ stage' \in {"rejected", "printed", "checking", "writing"}
        /\ stage' = "writing" => parsed.tsconfig = {}
    BY <1>2 DEF ParsedAll
  <2> QED
    BY <2>1 DEF CliInv
<1>3. CASE WriteConfig
  <2>1. UNCHANGED <<call, parsed>> /\ stage = "writing" /\ stage' \in {"failed", "written"}
    BY <1>3 DEF WriteConfig
  <2>2. stage' = "failed" => UNCHANGED disk
    BY <1>3 DEF WriteConfig
  <2> QED
    BY <2>1, <2>2 DEF CliInv
<1>4. CASE checkTsconfig
  BY <1>4, CheckKeepsCliInv
<1>5. CASE UNCHANGED cliVars
  <2>1. UNCHANGED <<call, disk, parsed, stage>>
    BY <1>5 DEF cliVars
  <2>2. load' = load
    BY <2>1, LoadUnchanged
  <2> QED
    BY <2>1, <2>2 DEF CliInv
<1> QED
  BY <1>1, <1>2, <1>3, <1>4, <1>5 DEF CliNext

LEMMA CliInvChecks == ASSUME CliInv PROVE ChecksWhatTypeScriptUses
<1> SUFFICES ASSUME stage \in {"meets", "failed"}, NEW root \in parsed.tsconfig
             PROVE  stage = "meets" <=>
                        /\ Whole(root)
                        /\ \A o \in {"strict", "noUncheckedIndexedAccess"} : Gives(root, o) = {TRUE}
                        /\ \A o \in {"useUnknownInCatchVariables"} \cup STRICT_FAMILY :
                               Gives(root, o) # {FALSE}
  BY DEF ChecksWhatTypeScriptUses
<1>1. ProjectOK
  BY InvocationsAssumption DEF CliInv, ProjectOK, Readable
<1>2. root \in Files
  BY DEF Files
<1>3. Right({}, root)
  BY <1>1, <1>2, LoadRight
<1>4. Whole(root) <=> Good({}, root)
  BY DEF Whole, Good
<1>5. stage = "meets" <=> \E options \in load[{}][root] : Problems(options) = {}
  BY DEF CliInv
<1>6. CASE ~Good({}, root)
  BY <1>3, <1>4, <1>5, <1>6 DEF Right
<1>7. CASE Good({}, root)
  <2>1. PICK options : load[{}][root] = {options} /\ Used(root, options)
    BY <1>3, <1>7 DEF Right
  <2>2. \A o : Gives(root, o) = IF o \in DOMAIN options THEN {options[o]} ELSE {}
    BY <2>1 DEF Used
  <2>3. \A o, value : Has(options, o, value) <=> Gives(root, o) = {value}
    BY <2>2 DEF Has
  <2>4. Problems(options) = {} <=>
            /\ \A o \in {"strict", "noUncheckedIndexedAccess"} : Has(options, o, TRUE)
            /\ \A o \in {"useUnknownInCatchVariables"} \cup STRICT_FAMILY : ~Has(options, o, FALSE)
    BY DEF Problems
  <2>5. stage = "meets" <=> Problems(options) = {}
    BY <1>5, <2>1
  <2> QED
    BY <1>4, <1>7, <2>3, <2>4, <2>5
<1> QED
  BY <1>6, <1>7

\* For every project, whatever its files extend and however often: ag-oxlint-config passes it exactly
\* if TypeScript can read all of it and takes from it the options that the guide requires
\* (checkTsconfig, load and resolveExtends of compiler.ts).
THEOREM CheckedAsTypeScriptUses == CliSpec => []ChecksWhatTypeScriptUses
<1>1. CliInit => CliInv
  BY CliInitHasInv
<1>2. CliInv /\ [CliNext]_cliVars => CliInv'
  BY CliNextKeepsInv
<1>3. CliInv => ChecksWhatTypeScriptUses
  BY CliInvChecks
<1> QED
  BY <1>1, <1>2, <1>3, PTL DEF CliSpec

-----------------------------------------------------------------------------
(* The generator of the catalog.  The mappings come in the order of the    *)
(* tables, at most one of a rule in each scope, and the layers hold what   *)
(* the mappings give and nothing else; so the last mapping that counts for *)
(* a file decides what its rules have on, and it is the one that is looked *)
(* up.                                                                     *)

GeneratorSpec == GeneratorInit /\ [][GeneratorNext]_generatorVars

\* What a table, or a configuration, contributes.
EntryRight(e) ==
    /\ e.turn \in Nat /\ e.scope \in ScopeNames /\ e.language \in {"any", "typescript"}
    /\ IsSetting(e.setting)

\* A mapping is made of an entry, and has a target unless it is off in the sample.
RowRight(m) ==
    \E e : /\ EntryRight(e) /\ m = MappingOf(e)
           /\ m.target = Nothing => Unlisted(e)

\* A mapping beside which there may be others of the same rule.
Plural(m) ==
    m.language = "any" /\ (m.typescript # NoEquivalent <=> m.source \in DOMAIN Equivalents)

MappingsOrdered ==
    \A i, j \in DOMAIN mappings : i < j =>
        /\ Rank(mappings[i].scope) <= Rank(mappings[j].scope)
        /\ mappings[i].source = mappings[j].source =>
               /\ mappings[i].scope # mappings[j].scope
               /\ Plural(mappings[i]) /\ Plural(mappings[j])

WorkOrdered ==
    \A e, f \in work :
        /\ e.turn <= f.turn => Rank(e.scope) <= Rank(f.scope)
        /\ e # f /\ e.source = f.source =>
               e.scope # f.scope /\ e.language = "any" /\ f.language = "any"

WorkFollows ==
    \A i \in DOMAIN mappings, e \in work :
        /\ Rank(mappings[i].scope) <= Rank(e.scope)
        /\ mappings[i].source = e.source =>
               mappings[i].scope # e.scope /\ Plural(mappings[i]) /\ e.language = "any"

\* The layers hold what the mappings give.
LayersHold ==
    \A i \in DOMAIN mappings, p \in Parts : \A t \in DOMAIN Given(mappings[i])[p] :
        /\ t \in DOMAIN presets[mappings[i].scope][p]
        /\ presets[mappings[i].scope][p][t] = Given(mappings[i])[p][t]
LayersOnly ==
    \A c \in ScopeNames, p \in Parts : \A t \in DOMAIN presets[c][p] :
        \E i \in DOMAIN mappings :
            mappings[i].scope = c /\ t \in DOMAIN Given(mappings[i])[p]

Empty == [s \in ScopeNames |-> [p \in Parts |-> NoRules]]
LayersShape == presets = [s \in ScopeNames |-> [p \in Parts |-> presets[s][p]]]

\* What is left of the draft d.
DraftLeft(d) ==
    /\ draft = [configs |-> draft.configs, tables |-> d.tables,
                registrations |-> draft.registrations, clauses |-> d.clauses]
    /\ IsList(draft.configs) /\ IsList(draft.registrations)
    /\ \A i \in DOMAIN draft.configs : \E j \in DOMAIN d.configs : draft.configs[i] = d.configs[j]
    /\ \A i \in DOMAIN draft.registrations :
           \E j \in DOMAIN d.registrations : draft.registrations[i] = d.registrations[j]

BaselineRight(d) ==
    \A s \in DOMAIN baseline :
        /\ IsSetting(baseline[s])
        /\ \E j \in DOMAIN d.configs : s \in DOMAIN d.configs[j]

SourcesRight(d) ==
    /\ \A e \in work : EntryRight(e) /\ e.source \in SourcesOf(d)
    /\ \A i \in DOMAIN mappings : RowRight(mappings[i]) /\ mappings[i].source \in SourcesOf(d)

\* What resolveRule needs of a registration.
RegistrationsRight(d) ==
    \A s \in DOMAIN compatibility \cap SourcesOf(d) : s \notin TypeScriptSources =>
        LET e == compatibility[s]
        IN  /\ e.canonical = s /\ e.target = resolveTarget(s).target /\ e.language = "any"
            /\ ~e.preserve /\ e.defaults = {}

GeneratorInv(d) ==
    /\ DraftLeft(d) /\ BaselineRight(d) /\ SourcesRight(d) /\ RegistrationsRight(d)
    /\ IsList(mappings) /\ MappingsOrdered /\ WorkOrdered /\ WorkFollows
    /\ LayersShape /\ LayersHold /\ LayersOnly
    /\ phase = "apply" => mappings = <<>> /\ work = {} /\ presets = Empty
    /\ phase = "generated" =>
           enforcement = [c \in draft.clauses |-> [p \in Policies |-> classify(c, p)]]

-----------------------------------------------------------------------------
\* Lists.
LEMMA ListFacts ==
    ASSUME NEW q, IsList(q)
    PROVE  Len(q) \in Nat /\ DOMAIN q = 1 .. Len(q)
BY DEF IsList

LEMMA ListOfItsOwn ==
    ASSUME NEW S, NEW q \in Seq(S)
    PROVE  IsList(q)
<1> DEFINE T == {q[i] : i \in DOMAIN q}
           n == Len(q)
<1>1. n \in Nat /\ q \in [1 .. n -> S] /\ DOMAIN q = 1 .. n
  OBVIOUS
<1>2. \A i \in 1 .. n : q[i] \in T
  BY <1>1
<1>3. q \in [1 .. n -> T]
  BY <1>1, <1>2
<1>4. q \in Seq(T)
  <2> HIDE DEF T, n
  <2> QED
    BY <1>1, <1>3, SeqDef
<1> QED
  BY <1>4 DEF IsList

LEMMA ListTail ==
    ASSUME NEW q, IsList(q), q # <<>>
    PROVE  /\ IsList(Tail(q)) /\ Head(q) = q[1] /\ 1 \in DOMAIN q
           /\ \A i \in DOMAIN Tail(q) : i + 1 \in DOMAIN q /\ Tail(q)[i] = q[i + 1]
<1> DEFINE S == {q[i] : i \in DOMAIN q}
<1>1. q \in Seq(S)
  BY DEF IsList
<1>2. Tail(q) \in Seq(S)
  BY <1>1
<1>3. /\ Head(q) = q[1] /\ 1 \in DOMAIN q
      /\ \A i \in DOMAIN Tail(q) : i + 1 \in DOMAIN q /\ Tail(q)[i] = q[i + 1]
  BY <1>1, TailMembers
<1>4. IsList(Tail(q))
  <2> HIDE DEF S
  <2> QED
    BY <1>2, ListOfItsOwn
<1> QED
  BY <1>3, <1>4

LEMMA ListAppended ==
    ASSUME NEW q, IsList(q), NEW x
    PROVE  /\ IsList(Append(q, x)) /\ DOMAIN Append(q, x) = DOMAIN q \cup {Len(q) + 1}
           /\ Len(q) + 1 \notin DOMAIN q /\ DOMAIN q = 1 .. Len(q) /\ Len(q) \in Nat
           /\ Append(q, x)[Len(q) + 1] = x
           /\ \A i \in DOMAIN q : Append(q, x)[i] = q[i]
<1> DEFINE S == {q[i] : i \in DOMAIN q} \cup {x}
           r == Append(q, x)
<1>1. q \in Seq(S) /\ Len(q) \in Nat /\ DOMAIN q = 1 .. Len(q)
  BY DEF IsList
<1>2. r \in Seq(S) /\ DOMAIN r = 1 .. (Len(q) + 1) /\ Len(r) = Len(q) + 1
  BY <1>1
<1>3. r[Len(q) + 1] = x /\ \A i \in DOMAIN q : r[i] = q[i]
  BY <1>1
<1>4. DOMAIN r = DOMAIN q \cup {Len(q) + 1} /\ Len(q) + 1 \notin DOMAIN q
  BY <1>1, <1>2
<1>5. IsList(r)
  <2> HIDE DEF S, r
  <2> QED
    BY <1>2, ListOfItsOwn
<1> QED
  BY <1>1, <1>3, <1>4, <1>5

-----------------------------------------------------------------------------
\* What an equivalent and a mapping are.
LEMMA EquivalentFacts ==
    ASSUME NEW s \in DOMAIN Equivalents, NEW setting, IsSetting(setting)
    PROVE  LET x == Equivalent(Equivalents[s], setting)
           IN  /\ x # NoEquivalent /\ x.target = Equivalents[s].target
               /\ x.setting = Setting(x.setting.level, x.setting.options)
               /\ x.target = Nothing => severity(x.setting) = 0
<1> DEFINE e == Equivalents[s]
           x == Equivalent(e, setting)
<1>1. x.target = e.target /\ x.implementation \in {"disabled", "native", "javascript"}
  BY DEF Equivalent
<1>2. x # NoEquivalent
  BY <1>1 DEF NoEquivalent, Nothing
<1>3. severity(Off) = 0 /\ Off = Setting(Off.level, Off.options)
  BY DEF severity, Off, Setting
<1>4. /\ setting = Setting(setting.level, setting.options)
      /\ e.adapt \in {"none", "options", "error"}
  BY EquivalentsAssumption DEF IsSetting
<1>5. Adapted(e, setting) = Setting(Adapted(e, setting).level, Adapted(e, setting).options)
  BY <1>4 DEF Adapted, Setting
<1>6. x.setting = IF e.target = Nothing \/ (severity(setting) = 0 /\ e.adapt = "none")
                  THEN Off ELSE Adapted(e, setting)
  BY DEF Equivalent
<1> HIDE DEF x, e
<1>7. x.setting = Setting(x.setting.level, x.setting.options)
  BY <1>3, <1>5, <1>6
<1>8. x.target = Nothing => severity(x.setting) = 0
  BY <1>1, <1>3, <1>6
<1> QED
  BY <1>1, <1>2, <1>7, <1>8 DEF x, e

RowFacts(m) ==
    /\ m.target \in {Nothing, resolveTarget(m.source).target}
    /\ m.target = Nothing => m.scope = "base" /\ severity(m.setting) = 0
    /\ m.language \in {"any", "typescript"} /\ m.scope \in ScopeNames
    /\ IsSetting(m.setting) /\ m # Unmapped
    /\ m.language = "typescript" => m.typescript = NoEquivalent
    /\ m.typescript # NoEquivalent =>
           /\ m.source \in DOMAIN Equivalents
           /\ m.typescript = Equivalent(Equivalents[m.source], m.setting)
    /\ m.implementation # "disabled" => severity(m.setting) > 0

LEMMA RowRightFacts ==
    ASSUME NEW m, RowRight(m)
    PROVE  RowFacts(m)
<1>1. PICK e : EntryRight(e) /\ m = MappingOf(e) /\ (m.target = Nothing => Unlisted(e))
  BY DEF RowRight
<1>2. /\ m.source = e.source /\ m.setting = e.setting /\ m.scope = e.scope
      /\ m.target = IF Unlisted(e) THEN Nothing ELSE resolveTarget(e.source).target
      /\ m.language = IF Unlisted(e) THEN "any" ELSE e.language
      /\ m.typescript = IF Replaced(e) THEN Equivalent(Equivalents[e.source], e.setting)
                        ELSE NoEquivalent
      /\ m.implementation = IF severity(e.setting) = 0 THEN "disabled"
                            ELSE resolveTarget(e.source).implementation
  BY <1>1 DEF MappingOf
<1>3. severity(m.setting) \in {0, 1, 2}
  BY DEF severity
<1>4. m # Unmapped
  <2>1. m.setting.level \in {"off", "warn", "error"}
    BY <1>1, <1>2 DEF EntryRight, IsSetting, IsLevel
  <2>2. Unmapped.setting.level = "undefined"
    BY DEF Unmapped, Unset, Setting
  <2> QED
    BY <2>1, <2>2
<1>5. m.target \in {Nothing, resolveTarget(m.source).target}
  BY <1>2
<1>6. m.target = Nothing => m.scope = "base" /\ severity(m.setting) = 0
  BY <1>1, <1>2 DEF Unlisted
<1>7. m.language \in {"any", "typescript"} /\ m.scope \in ScopeNames /\ IsSetting(m.setting)
  BY <1>1, <1>2 DEF EntryRight
<1>8. m.language = "typescript" => m.typescript = NoEquivalent
  BY <1>2 DEF Replaced
<1>9. m.typescript # NoEquivalent =>
           /\ m.source \in DOMAIN Equivalents
           /\ m.typescript = Equivalent(Equivalents[m.source], m.setting)
  BY <1>2 DEF Replaced
<1>10. m.implementation # "disabled" => severity(m.setting) > 0
  BY <1>2, <1>3
<1> QED
  BY <1>4, <1>5, <1>6, <1>7, <1>8, <1>9, <1>10 DEF RowFacts

LEMMA PlainFacts ==
    ASSUME NEW m
    PROVE  /\ \A t : t \in DOMAIN Plain(m) <=> m.target # Nothing /\ t = m.target
           /\ \A t \in DOMAIN Plain(m) : Plain(m)[t] = m.setting
BY DEF Plain, Only, NoRules

LEMMA ExchangedFacts ==
    ASSUME NEW m
    PROVE  LET e == m.typescript
               on == e.target # Nothing /\ (m.target # Nothing \/ severity(e.setting) > 0)
           IN  /\ \A t : t \in DOMAIN Exchanged(m) <=>
                         \/ on /\ t = e.target
                         \/ m.target \notin {Nothing, e.target} /\ t = m.target
               /\ \A t \in DOMAIN Exchanged(m) :
                      /\ t = e.target => Exchanged(m)[t] = e.setting
                      /\ t # e.target => Exchanged(m)[t] = Off
<1> DEFINE e == m.typescript
           on == e.target # Nothing /\ (m.target # Nothing \/ severity(e.setting) > 0)
           F == IF m.target \notin {Nothing, e.target} THEN Only(m.target, Off) ELSE NoRules
           N == IF on THEN Only(e.target, e.setting) ELSE NoRules
<1>1. Exchanged(m) = Laid(N, F)
  BY DEF Exchanged
<1>2. /\ \A t : t \in DOMAIN N <=> on /\ t = e.target
      /\ \A t \in DOMAIN N : N[t] = e.setting
  BY DEF Only, NoRules
<1>3. /\ \A t : t \in DOMAIN F <=> m.target \notin {Nothing, e.target} /\ t = m.target
      /\ \A t \in DOMAIN F : F[t] = Off
  BY DEF Only, NoRules
<1> HIDE DEF F, N
<1>4. /\ DOMAIN Laid(N, F) = DOMAIN N \cup DOMAIN F
      /\ \A t \in DOMAIN N : Laid(N, F)[t] = N[t]
      /\ \A t \in DOMAIN F : t \notin DOMAIN N => Laid(N, F)[t] = F[t]
  BY DEF Laid
<1>5. \A t : t \in DOMAIN Exchanged(m) <=>
                         \/ on /\ t = e.target
                         \/ m.target \notin {Nothing, e.target} /\ t = m.target
  BY <1>1, <1>2, <1>3, <1>4
<1>6. ASSUME NEW t \in DOMAIN Exchanged(m)
      PROVE  /\ t = e.target => Exchanged(m)[t] = e.setting
             /\ t # e.target => Exchanged(m)[t] = Off
  <2>1. t \in DOMAIN N <=> on /\ t = e.target
    BY <1>2
  <2>2. t \in DOMAIN F <=> m.target \notin {Nothing, e.target} /\ t = m.target
    BY <1>3
  <2>3. t \in DOMAIN N \/ t \in DOMAIN F
    BY <1>1, <1>4
  <2> QED
    BY <1>1, <1>2, <1>3, <1>4, <2>1, <2>2, <2>3
<1> QED
  BY <1>5, <1>6

\* What is laid over something else.
LEMMA LaidFacts ==
    ASSUME NEW f, NEW g
    PROVE  /\ \A t : t \in DOMAIN Laid(f, g) <=> t \in DOMAIN f \/ t \in DOMAIN g
           /\ \A t \in DOMAIN f : Laid(f, g)[t] = f[t]
           /\ \A t \in DOMAIN g : t \notin DOMAIN f => Laid(f, g)[t] = g[t]
BY DEF Laid

\* A mapping gives only to implementations of its rule.
LEMMA GivenTargets ==
    ASSUME NEW m, RowFacts(m), NEW p \in Parts, NEW t \in DOMAIN Given(m)[p]
    PROVE  t \in TargetsOf(m.source)
<1>1. /\ Given(m)["rules"] = IF m.language = "typescript" THEN NoRules ELSE Plain(m)
      /\ Given(m)["typescriptRules"] = IF m.language = "typescript" THEN Plain(m)
                         ELSE IF m.typescript # NoEquivalent THEN Exchanged(m) ELSE NoRules
  BY DEF Given
<1>2. DOMAIN NoRules = {}
  BY DEF NoRules
<1>3. m.target # Nothing => m.target \in TargetsOf(m.source)
  BY DEF RowFacts, TargetsOf
<1>4. t \in DOMAIN Plain(m) => t \in TargetsOf(m.source)
  BY <1>3, PlainFacts
<1>5. ASSUME m.typescript # NoEquivalent, t \in DOMAIN Exchanged(m)
      PROVE  t \in TargetsOf(m.source)
  <2>1. /\ m.source \in DOMAIN Equivalents /\ IsSetting(m.setting)
        /\ m.typescript = Equivalent(Equivalents[m.source], m.setting)
    BY <1>5 DEF RowFacts
  <2>2. m.typescript.target = Equivalents[m.source].target
    BY <2>1, EquivalentFacts
  <2>3. m.typescript.target # Nothing => m.typescript.target \in TargetsOf(m.source)
    BY <2>1, <2>2 DEF TargetsOf
  <2> QED
    BY <1>3, <1>5, <2>3, ExchangedFacts
<1> QED
  BY <1>1, <1>2, <1>4, <1>5 DEF Parts

-----------------------------------------------------------------------------
\* The steps.

LEMMA GeneratorInitHasInv ==
    ASSUME GeneratorInit
    PROVE  \E d \in Drafts : GeneratorInv(d)
<1>1. draft \in Drafts
  BY DEF GeneratorInit
<1>2. /\ Tables(draft) /\ IsList(draft.registrations)
  BY <1>1, DraftsAssumption
<1>3. DraftLeft(draft)
  BY <1>2 DEF DraftLeft, Tables
<1>4. DOMAIN NoRules = {}
  BY DEF NoRules
<1>5. IsList(<<>>) /\ DOMAIN <<>> = {}
  <2>1. <<>> \in Seq({})
    OBVIOUS
  <2>2. IsList(<<>>)
    BY <2>1, ListOfItsOwn
  <2> QED
    BY <2>2
<1>6. mappings = <<>> /\ work = {} /\ compatibility = NoRules /\ baseline = NoRules /\ phase = "apply"
      /\ presets = Empty
  BY DEF GeneratorInit, Empty
<1>7. BaselineRight(draft) /\ SourcesRight(draft) /\ RegistrationsRight(draft)
  BY <1>4, <1>5, <1>6 DEF BaselineRight, SourcesRight, RegistrationsRight
<1>8. MappingsOrdered /\ WorkOrdered /\ WorkFollows /\ LayersHold
  BY <1>5, <1>6 DEF MappingsOrdered, WorkOrdered, WorkFollows, LayersHold
<1>9. LayersShape /\ LayersOnly
  BY <1>4, <1>6 DEF LayersShape, LayersOnly, Empty
<1>10. GeneratorInv(draft)
  BY <1>3, <1>5, <1>6, <1>7, <1>8, <1>9 DEF GeneratorInv
<1> QED
  BY <1>1, <1>10

\* What a step leaves alone.
LEMMA MappingsAlone ==
    ASSUME NEW d, GeneratorInv(d), UNCHANGED <<mappings, presets>>
    PROVE  /\ IsList(mappings)' /\ MappingsOrdered' /\ LayersShape' /\ LayersHold' /\ LayersOnly'
           /\ UNCHANGED work => SourcesRight(d)' /\ WorkOrdered' /\ WorkFollows'
<1>1. IsList(mappings)' /\ MappingsOrdered'
  BY DEF GeneratorInv, IsList, MappingsOrdered
<1>2. LayersShape'
  BY DEF GeneratorInv, LayersShape
<1>3. LayersHold'
  BY DEF GeneratorInv, LayersHold
<1>4. LayersOnly'
  BY DEF GeneratorInv, LayersOnly
<1>5. UNCHANGED work => SourcesRight(d)'
  BY DEF GeneratorInv, SourcesRight
<1>6. UNCHANGED work => WorkOrdered' /\ WorkFollows'
  BY DEF GeneratorInv, WorkOrdered, WorkFollows
<1> QED
  BY <1>1, <1>2, <1>3, <1>4, <1>5, <1>6

LEMMA ThrowKeepsInv ==
    ASSUME NEW d, GeneratorInv(d), Throw \/ UNCHANGED generatorVars
    PROVE  GeneratorInv(d)'
<1>1. UNCHANGED <<draft, baseline, work, mappings, presets, compatibility, enforcement>>
  BY DEF Throw, generatorVars
<1>2. DraftLeft(d)' /\ BaselineRight(d)' /\ RegistrationsRight(d)'
  BY <1>1 DEF GeneratorInv, DraftLeft, BaselineRight, RegistrationsRight
<1>3. phase' = "apply" => phase = "apply"
  BY DEF Throw, generatorVars
<1>4. phase' = "apply" => (mappings = <<>> /\ work = {} /\ presets = Empty)'
  BY <1>1, <1>3 DEF GeneratorInv, Empty
<1>5. phase' = "generated" =>
        (enforcement = [c \in draft.clauses |-> [p \in Policies |-> classify(c, p)]])'
  <2>1. phase' = "generated" => phase = "generated"
    BY DEF Throw, generatorVars
  <2>2. ASSUME NEW c, NEW p PROVE classify(c, p)' = classify(c, p)
    BY <1>1 DEF classify, Active, LastOf
  <2> QED
    BY <1>1, <2>1, <2>2 DEF GeneratorInv
<1> QED
  BY <1>1, <1>2, <1>4, <1>5, MappingsAlone DEF GeneratorInv

LEMMA ApplyKeepsInv ==
    ASSUME NEW d \in Drafts, GeneratorInv(d), apply
    PROVE  GeneratorInv(d)'
<1> DEFINE rules == Head(draft.configs)
           Carried(s) == IF s \in DOMAIN baseline /\ rules[s].options = {}
                           THEN baseline[s].options ELSE rules[s].options
           own == [s \in DOMAIN rules |-> Setting(rules[s].level, Carried(s))]
<1>1. /\ phase = "apply" /\ draft.configs # <<>>
      /\ baseline' = Laid(own, baseline) /\ draft' = [draft EXCEPT !.configs = Tail(@)]
      /\ UNCHANGED <<phase, work, mappings, presets, compatibility, enforcement>>
  BY DEF apply
<1>2. DraftLeft(d) /\ BaselineRight(d) /\ Tables(d)
  BY DraftsAssumption DEF GeneratorInv
<1>3. /\ IsList(Tail(draft.configs)) /\ rules = draft.configs[1] /\ 1 \in DOMAIN draft.configs
      /\ \A i \in DOMAIN Tail(draft.configs) :
             i + 1 \in DOMAIN draft.configs /\ Tail(draft.configs)[i] = draft.configs[i + 1]
  BY <1>1, <1>2, ListTail DEF DraftLeft
<1>4. /\ draft'.configs = Tail(draft.configs) /\ draft'.tables = d.tables
      /\ draft'.registrations = draft.registrations /\ draft'.clauses = d.clauses
      /\ draft' = [configs |-> draft'.configs, tables |-> d.tables,
                   registrations |-> draft'.registrations, clauses |-> d.clauses]
  <2> DEFINE rest == Tail(draft.configs)
             all == draft.registrations
  <2>1. draft = [configs |-> draft.configs, tables |-> d.tables, registrations |-> all,
                 clauses |-> d.clauses]
    BY <1>2 DEF DraftLeft
  <2>2. draft' = [draft EXCEPT !.configs = rest]
    BY <1>1
  <2> HIDE DEF rest, all
  <2>3. draft' = [configs |-> rest, tables |-> d.tables, registrations |-> all,
                  clauses |-> d.clauses]
    BY <2>1, <2>2
  <2> QED
    BY <2>3 DEF rest, all
<1>5. DraftLeft(d)'
  <2>1. \A i \in DOMAIN Tail(draft.configs) : \E j \in DOMAIN d.configs :
            Tail(draft.configs)[i] = d.configs[j]
    BY <1>2, <1>3 DEF DraftLeft
  <2>2. /\ IsList(draft'.configs) /\ IsList(draft'.registrations)
        /\ \A i \in DOMAIN draft'.configs : \E j \in DOMAIN d.configs : draft'.configs[i] = d.configs[j]
        /\ \A i \in DOMAIN draft'.registrations :
               \E j \in DOMAIN d.registrations : draft'.registrations[i] = d.registrations[j]
    BY <1>2, <1>3, <1>4, <2>1 DEF DraftLeft
  <2>3. IsList(draft.configs)' /\ IsList(draft.registrations)'
    BY <2>2 DEF IsList
  <2> QED
    BY <1>4, <2>2, <2>3 DEF DraftLeft
<1>6. PICK k \in DOMAIN d.configs : rules = d.configs[k]
  BY <1>2, <1>3 DEF DraftLeft
<1>7. \A s \in DOMAIN own : IsSetting(own[s])
  <2>1. \A s \in DOMAIN rules : IsSetting(rules[s])
    BY <1>2, <1>6 DEF Tables
  <2> QED
    BY <2>1 DEF IsSetting, IsLevel, Setting
<1>8. DOMAIN own = DOMAIN d.configs[k]
  BY <1>6
<1>9. BaselineRight(d)'
  <2> HIDE DEF own
  <2>1. ASSUME NEW s \in DOMAIN baseline'
        PROVE  /\ IsSetting(baseline'[s]) /\ \E j \in DOMAIN d.configs : s \in DOMAIN d.configs[j]
    <3>1. CASE s \in DOMAIN own
      BY <1>1, <1>6, <1>7, <1>8, <3>1, LaidFacts
    <3>2. CASE s \notin DOMAIN own
      BY <1>1, <1>2, <3>2, LaidFacts DEF BaselineRight
    <3> QED
      BY <3>1, <3>2
  <2> QED
    BY <2>1 DEF BaselineRight
<1>10. RegistrationsRight(d)'
  BY <1>1 DEF GeneratorInv, RegistrationsRight
<1>11. (mappings = <<>> /\ work = {} /\ presets = Empty)' /\ phase' # "generated"
  BY <1>1 DEF GeneratorInv, Empty
<1> QED
  BY <1>1, <1>5, <1>9, <1>10, <1>11, MappingsAlone DEF GeneratorInv

LEMMA AddGuideKeepsInv ==
    ASSUME NEW d \in Drafts, GeneratorInv(d), addGuide
    PROVE  GeneratorInv(d)'
<1> DEFINE tables == d.tables
           guide == tables[1].rules
           kept == [s \in DOMAIN baseline \ DOMAIN guide |-> baseline[s]]
           Of(i) == Entries(i, tables[i].rules, tables[i].scope, tables[i].language)
<1>1. DraftLeft(d) /\ BaselineRight(d) /\ Tables(d)
  BY DraftsAssumption DEF GeneratorInv
<1>2. draft.tables = tables
  BY <1>1 DEF DraftLeft
<1>3. CASE Throw
  BY <1>3, ThrowKeepsInv
<1>4. ASSUME ~Throw
      PROVE  /\ phase = "apply" /\ phase' = "map" /\ baseline' = kept
             /\ work' = Entries(0, kept, "base", "any") \cup UNION {Of(i) : i \in DOMAIN tables}
             /\ UNCHANGED <<draft, mappings, presets, compatibility, enforcement>>
  BY <1>2, <1>4 DEF addGuide
<1>5. Len(tables) \in Nat /\ DOMAIN tables = 1 .. Len(tables) /\ 1 \in DOMAIN tables
  BY <1>1, ListFacts DEF Tables
<1> DEFINE Before(e) == /\ e.turn = 0 /\ e.scope = "base" /\ e.language = "any"
                       /\ e.source \in DOMAIN kept /\ e.setting = baseline[e.source]
           Later(e, i) == /\ e.turn = i /\ e.scope = tables[i].scope
                          /\ e.language = tables[i].language
                          /\ e.source \in DOMAIN tables[i].rules
                          /\ e.setting = tables[i].rules[e.source]
           Shape(e) == e = [turn |-> e.turn, source |-> e.source, setting |-> e.setting,
                            scope |-> e.scope, language |-> e.language]
<1>6. ASSUME ~Throw, NEW e \in work'
      PROVE  Shape(e) /\ (Before(e) \/ \E i \in DOMAIN tables : Later(e, i))
  <2>1. CASE e \in Entries(0, kept, "base", "any")
    <3>1. PICK s \in DOMAIN kept : e = [turn |-> 0, source |-> s, setting |-> kept[s], scope |-> "base",
                                       language |-> "any"]
      BY <2>1 DEF Entries
    <3>2. kept[s] = baseline[s]
      OBVIOUS
    <3> HIDE DEF kept
    <3>3. /\ e.turn = 0 /\ e.source = s /\ e.setting = baseline[s] /\ e.scope = "base"
          /\ e.language = "any"
      BY <3>1, <3>2
    <3> QED
      BY <3>1, <3>2, <3>3
  <2>2. CASE e \in UNION {Of(i) : i \in DOMAIN tables}
    <3>1. PICK i \in DOMAIN tables : e \in Of(i)
      BY <2>2
    <3>2. PICK s \in DOMAIN tables[i].rules :
              e = [turn |-> i, source |-> s, setting |-> tables[i].rules[s],
                   scope |-> tables[i].scope, language |-> tables[i].language]
      BY <3>1 DEF Entries
    <3>3. Shape(e) /\ Later(e, i)
      <4> HIDE DEF tables
      <4> QED
        BY <3>2
    <3> QED
      BY <3>3
  <2> QED
    BY <1>4, <1>6, <2>1, <2>2
<1>7. \A s \in DOMAIN kept : /\ s \in DOMAIN baseline /\ s \notin DOMAIN guide
                             /\ IsSetting(baseline[s])
                             /\ \E j \in DOMAIN d.configs : s \in DOMAIN d.configs[j]
  BY <1>1 DEF BaselineRight
<1>8. ASSUME NEW i \in DOMAIN tables
      PROVE  /\ tables[i].scope \in ScopeNames /\ tables[i].language \in {"any", "typescript"}
             /\ \A s \in DOMAIN tables[i].rules : IsSetting(tables[i].rules[s])
             /\ tables[i].language = "typescript" => DOMAIN kept \cap DOMAIN tables[i].rules = {}
             /\ tables[1].scope = "base" /\ tables[1].language = "any"
             /\ i \in Nat /\ i > 0
  BY <1>1, <1>5, <1>7 DEF Tables
<1>9. ASSUME NEW i \in DOMAIN tables, NEW j \in DOMAIN tables, i < j
      PROVE  /\ Rank(tables[i].scope) <= Rank(tables[j].scope)
             /\ tables[i].scope = tables[j].scope => tables[i].language # tables[j].language
             /\ "typescript" \in {tables[i].language, tables[j].language} =>
                    DOMAIN tables[i].rules \cap DOMAIN tables[j].rules = {}
  BY <1>1, <1>9 DEF Tables
<1>10. Rank("base") = 0 /\ \A c : Rank(c) \in {0, 1, 2}
  BY DEF Rank
<1>11. ASSUME ~Throw, NEW e \in work', NEW f \in work'
       PROVE  /\ e.turn <= f.turn => Rank(e.scope) <= Rank(f.scope)
              /\ e # f /\ e.source = f.source =>
                     e.scope # f.scope /\ e.language = "any" /\ f.language = "any"
  <2> HIDE DEF kept
  <2>1. /\ Shape(e) /\ (Before(e) \/ \E i \in DOMAIN tables : Later(e, i))
        /\ Shape(f) /\ (Before(f) \/ \E i \in DOMAIN tables : Later(f, i))
    BY <1>6, <1>11
  <2>2. ASSUME NEW x, NEW y, NEW i \in DOMAIN tables, Before(x), Later(y, i)
        PROVE  /\ Rank(x.scope) <= Rank(y.scope) /\ ~(y.turn <= x.turn)
               /\ x.source = y.source =>
                      x.scope # y.scope /\ x.language = "any" /\ y.language = "any"
    <3>1. Rank(x.scope) <= Rank(y.scope) /\ ~(y.turn <= x.turn)
      BY <1>8, <1>10, <2>2
    <3>2. ASSUME x.source = y.source
          PROVE  x.scope # y.scope /\ x.language = "any" /\ y.language = "any"
      <4>1. x.source \in DOMAIN kept /\ x.source \in DOMAIN tables[i].rules
        BY <2>2, <3>2
      <4>2. i # 1 /\ tables[i].language # "typescript"
        BY <1>7, <1>8, <4>1
      <4>3. tables[i].language = "any" /\ 1 < i
        BY <1>8, <4>2
      <4>4. tables[i].scope # "base"
        BY <1>5, <1>8, <1>9, <4>3
      <4> QED
        BY <2>2, <4>3, <4>4
    <3> QED
      BY <3>1, <3>2
  <2>3. CASE Before(e) /\ Before(f)
    <3>1. Rank(e.scope) = 0 /\ Rank(f.scope) = 0
      BY <1>10, <2>3
    <3>2. e.source = f.source => e = f
      BY <2>1, <2>3
    <3> QED
      BY <3>1, <3>2
  <2>4. ASSUME NEW i \in DOMAIN tables, NEW j \in DOMAIN tables, Later(e, i), Later(f, j)
        PROVE  /\ e.turn <= f.turn => Rank(e.scope) <= Rank(f.scope)
               /\ e # f /\ e.source = f.source =>
                     e.scope # f.scope /\ e.language = "any" /\ f.language = "any"
    <3>1. e.turn = i /\ f.turn = j /\ e.scope = tables[i].scope /\ f.scope = tables[j].scope
          /\ e.language = tables[i].language /\ f.language = tables[j].language
          /\ e.source \in DOMAIN tables[i].rules /\ f.source \in DOMAIN tables[j].rules
      BY <2>4
    <3>2. i = j => Rank(e.scope) = Rank(f.scope) /\ (e.source = f.source => e = f)
      BY <2>1, <2>4
    <3>3. i < j \/ j < i \/ i = j
      BY <1>5
    <3>4. Rank(e.scope) \in Nat /\ Rank(f.scope) \in Nat
      BY <1>10
    <3>5. tables[i].language \in {"any", "typescript"} /\ tables[j].language \in {"any", "typescript"}
      BY <1>8
    <3>6. CASE i < j
      BY <1>9, <3>1, <3>5, <3>6
    <3>7. CASE j < i
      <4>1. ~(e.turn <= f.turn)
        BY <1>5, <3>1, <3>7
      <4> QED
        BY <1>9, <3>1, <3>5, <3>7, <4>1
    <3>8. CASE i = j
      BY <3>2, <3>4, <3>8
    <3> QED
      BY <3>3, <3>6, <3>7, <3>8
  <2> QED
    BY <2>1, <2>2, <2>3, <2>4
<1>12. ASSUME ~Throw PROVE SourcesRight(d)'
  <2> HIDE DEF kept
  <2>1. ASSUME NEW e \in work' PROVE EntryRight(e) /\ e.source \in SourcesOf(d)
    <3>1. CASE Before(e)
      <4>1. EntryRight(e)
        BY <1>7, <3>1 DEF EntryRight, ScopeNames
      <4> QED
        BY <1>7, <3>1, <4>1 DEF SourcesOf
    <3>2. ASSUME NEW i \in DOMAIN tables, Later(e, i) PROVE EntryRight(e) /\ e.source \in SourcesOf(d)
      <4>1. EntryRight(e)
        BY <1>8, <3>2 DEF EntryRight
      <4>2. e.source \in UNION {DOMAIN d.tables[k].rules : k \in DOMAIN d.tables}
        BY <3>2
      <4> QED
        BY <4>1, <4>2 DEF SourcesOf
    <3> QED
      BY <1>6, <1>12, <3>1, <3>2
  <2> QED
    BY <1>4, <1>12, <2>1 DEF GeneratorInv, SourcesRight
<1>13. ASSUME ~Throw PROVE BaselineRight(d)'
  <2>1. DOMAIN kept \subseteq DOMAIN baseline /\ \A s \in DOMAIN kept : kept[s] = baseline[s]
    OBVIOUS
  <2> HIDE DEF kept
  <2> QED
    BY <1>1, <1>4, <1>13, <2>1 DEF BaselineRight
<1>14. ASSUME ~Throw PROVE WorkOrdered' /\ WorkFollows'
  <2>1. WorkOrdered'
    BY <1>11, <1>14 DEF WorkOrdered
  <2>2. mappings' = <<>>
    BY <1>4, <1>14 DEF GeneratorInv
  <2>3. DOMAIN mappings' = {}
    BY <2>2
  <2> QED
    BY <2>1, <2>3 DEF WorkFollows
<1>15. ASSUME ~Throw PROVE GeneratorInv(d)'
  <2>1. DraftLeft(d)' /\ RegistrationsRight(d)'
    BY <1>1, <1>4, <1>15 DEF GeneratorInv, DraftLeft, RegistrationsRight
  <2>2. phase' # "apply" /\ phase' # "generated"
    BY <1>4, <1>15
  <2> QED
    BY <1>4, <1>12, <1>13, <1>14, <1>15, <2>1, <2>2, MappingsAlone DEF GeneratorInv
<1> QED
  BY <1>3, <1>15

\* Whose turn it is.
LEMMA FirstFacts ==
    ASSUME work # {}, \A e \in work : e.turn \in Nat
    PROVE  First \in work /\ \A x \in work : First.turn <= x.turn
<1> DEFINE S == {e.turn : e \in work}
<1>1. S \subseteq Nat /\ S # {}
  OBVIOUS
<1>2. Least(S) \in S /\ \A m \in S : Least(S) <= m
  <2> HIDE DEF S
  <2> QED
    BY <1>1, LeastNat
<1>3. \E e \in work : \A x \in work : e.turn <= x.turn
  BY <1>2
<1> QED
  BY <1>3 DEF First

\* What the mapping of an entry is.
LEMMA EntryMapped ==
    ASSUME NEW e, EntryRight(e), Unlisted(e) \/ MappingOf(e).target # Nothing
    PROVE  LET m == MappingOf(e)
           IN  /\ RowRight(m) /\ m.source = e.source /\ m.scope = e.scope
               /\ e.language = "any" => Plural(m)
<1> DEFINE m == MappingOf(e)
<1>1. /\ m.source = e.source /\ m.scope = e.scope
      /\ m.language = IF Unlisted(e) THEN "any" ELSE e.language
      /\ m.typescript = IF Replaced(e) THEN Equivalent(Equivalents[e.source], e.setting)
                        ELSE NoEquivalent
  BY DEF MappingOf
<1>2. RowRight(m)
  <2>1. m.target = Nothing => Unlisted(e)
    OBVIOUS
  <2> QED
    BY <2>1 DEF RowRight
<1>3. ASSUME e.language = "any" PROVE Plural(m)
  <2>1. Replaced(e) <=> e.source \in DOMAIN Equivalents
    BY <1>3 DEF Replaced
  <2>2. e.source \in DOMAIN Equivalents =>
            Equivalent(Equivalents[e.source], e.setting) # NoEquivalent
    BY EquivalentFacts DEF EntryRight
  <2> HIDE DEF m
  <2> QED
    BY <1>1, <1>3, <2>1, <2>2 DEF Plural
<1> QED
  BY <1>1, <1>2, <1>3

LEMMA MapRuleKeepsInv ==
    ASSUME NEW d \in Drafts, GeneratorInv(d), mapRule
    PROVE  GeneratorInv(d)'
<1> DEFINE e == First
           m == MappingOf(e)
           n == Len(mappings) + 1
<1>1. CASE Throw
  BY <1>1, ThrowKeepsInv
<1>2. ASSUME ~Throw
      PROVE  /\ phase = "map" /\ work # {} /\ (Unlisted(e) \/ m.target # Nothing)
             /\ mappings' = Append(mappings, m) /\ work' = work \ {e}
             /\ presets' = [presets EXCEPT ![e.scope] = [p \in Parts |-> Laid(Given(m)[p], @[p])]]
             /\ UNCHANGED <<draft, phase, baseline, compatibility, enforcement>>
  BY <1>2 DEF mapRule
<1> SUFFICES ASSUME ~Throw PROVE GeneratorInv(d)'
  BY <1>1
<1>3. /\ SourcesRight(d) /\ WorkOrdered /\ WorkFollows /\ MappingsOrdered /\ LayersShape
      /\ LayersHold /\ LayersOnly /\ IsList(mappings)
  BY DEF GeneratorInv
<1>4. e \in work /\ \A x \in work : e.turn <= x.turn
  <2>1. \A x \in work : x.turn \in Nat
    BY <1>3 DEF SourcesRight, EntryRight
  <2>2. work # {}
    BY DEF mapRule
  <2> QED
    BY <2>1, <2>2, FirstFacts
<1>5. EntryRight(e) /\ e.source \in SourcesOf(d)
  BY <1>3, <1>4 DEF SourcesRight
<1>6. /\ RowRight(m) /\ m.source = e.source /\ m.scope = e.scope
      /\ e.language = "any" => Plural(m)
  BY <1>2, <1>5, EntryMapped
<1>7. RowFacts(m)
  BY <1>6, RowRightFacts
<1> HIDE DEF e, m
<1>8. /\ IsList(mappings') /\ DOMAIN mappings' = DOMAIN mappings \cup {n}
      /\ n \notin DOMAIN mappings /\ DOMAIN mappings = 1 .. Len(mappings) /\ Len(mappings) \in Nat
      /\ mappings'[n] = m /\ \A i \in DOMAIN mappings : mappings'[i] = mappings[i]
  <2>1. mappings' = Append(mappings, m)
    BY <1>2
  <2> QED
    BY <1>3, <2>1, ListAppended
<1>9. MappingsOrdered'
  <2>1. ASSUME NEW i \in DOMAIN mappings', NEW j \in DOMAIN mappings', i < j
        PROVE  /\ Rank(mappings'[i].scope) <= Rank(mappings'[j].scope)
               /\ mappings'[i].source = mappings'[j].source =>
                      /\ mappings'[i].scope # mappings'[j].scope
                      /\ Plural(mappings'[i]) /\ Plural(mappings'[j])
    <3>1. i \in DOMAIN mappings
      BY <1>8, <2>1
    <3>2. CASE j \in DOMAIN mappings
      <4> HIDE DEF n
      <4> QED
        BY <1>3, <1>8, <2>1, <3>1, <3>2 DEF MappingsOrdered
    <3>3. CASE j = n
      <4> HIDE DEF n
      <4>1. /\ Rank(mappings[i].scope) <= Rank(e.scope)
            /\ mappings[i].source = e.source =>
                    mappings[i].scope # e.scope /\ Plural(mappings[i]) /\ e.language = "any"
        BY <1>3, <1>4, <3>1 DEF WorkFollows
      <4> QED
        BY <1>6, <1>8, <3>1, <3>3, <4>1
    <3> QED
      BY <1>8, <3>2, <3>3
  <2> QED
    BY <2>1 DEF MappingsOrdered
<1>10. WorkOrdered'
  BY <1>2, <1>3 DEF WorkOrdered
<1>11. WorkFollows'
  <2>1. ASSUME NEW i \in DOMAIN mappings', NEW f \in work'
        PROVE  /\ Rank(mappings'[i].scope) <= Rank(f.scope)
               /\ mappings'[i].source = f.source =>
                      mappings'[i].scope # f.scope /\ Plural(mappings'[i]) /\ f.language = "any"
    <3> HIDE DEF n
    <3>1. f \in work /\ f # e
      BY <1>2
    <3>2. CASE i \in DOMAIN mappings
      BY <1>3, <1>8, <3>1, <3>2 DEF WorkFollows
    <3>3. CASE i = n
      <4>1. /\ e.turn <= f.turn => Rank(e.scope) <= Rank(f.scope)
            /\ e # f /\ e.source = f.source =>
                   e.scope # f.scope /\ e.language = "any" /\ f.language = "any"
        BY <1>3, <1>4, <3>1 DEF WorkOrdered
      <4> QED
        BY <1>4, <1>6, <1>8, <3>1, <3>3, <4>1
    <3> QED
      BY <1>8, <3>2, <3>3
  <2> QED
    BY <2>1 DEF WorkFollows
<1>12. SourcesRight(d)'
  <2>1. \A f \in work' : EntryRight(f) /\ f.source \in SourcesOf(d)
    BY <1>2, <1>3 DEF SourcesRight
  <2>2. \A i \in DOMAIN mappings' : RowRight(mappings'[i]) /\ mappings'[i].source \in SourcesOf(d)
    <3> HIDE DEF n
    <3> QED
      BY <1>3, <1>5, <1>6, <1>8 DEF SourcesRight
  <2> QED
    BY <2>1, <2>2 DEF SourcesRight
<1>13. /\ \A c \in ScopeNames, p \in Parts : presets'[c][p] =
              IF c = m.scope THEN Laid(Given(m)[p], presets[c][p]) ELSE presets[c][p]
       /\ LayersShape'
  <2> DEFINE L == [p \in Parts |-> Laid(Given(m)[p], presets[m.scope][p])]
  <2>1. DOMAIN presets = ScopeNames /\ \A c \in ScopeNames : presets[c] = [p \in Parts |-> presets[c][p]]
    BY <1>3 DEF LayersShape
  <2>2. presets' = [presets EXCEPT ![m.scope] = L]
    BY <1>2, <1>6
  <2>3. \A p \in Parts : L[p] = Laid(Given(m)[p], presets[m.scope][p])
    OBVIOUS
  <2>4. L = [p \in Parts |-> L[p]]
    OBVIOUS
  <2> HIDE DEF L
  <2>5. \A c \in ScopeNames : presets'[c] = IF c = m.scope THEN L ELSE presets[c]
    BY <2>1, <2>2
  <2>6. presets' = [c \in ScopeNames |-> presets'[c]]
    BY <2>1, <2>2
  <2>7. \A c \in ScopeNames : presets'[c] = [p \in Parts |-> presets'[c][p]]
    BY <2>1, <2>4, <2>5
  <2>8. LayersShape'
    BY <2>6, <2>7 DEF LayersShape
  <2> QED
    BY <2>3, <2>5, <2>8
<1>14. m.scope \in ScopeNames
  BY <1>7 DEF RowFacts
<1>15. LayersHold'
  <2>1. ASSUME NEW i \in DOMAIN mappings', NEW p \in Parts, NEW t \in DOMAIN Given(mappings'[i])[p]
        PROVE  /\ t \in DOMAIN presets'[mappings'[i].scope][p]
               /\ presets'[mappings'[i].scope][p][t] = Given(mappings'[i])[p][t]
    <3> HIDE DEF n
    <3>1. CASE i = n
      BY <1>8, <1>13, <1>14, <2>1, <3>1, LaidFacts
    <3>2. CASE i \in DOMAIN mappings
      <4> DEFINE x == mappings[i]
                 c == mappings[i].scope
      <4>1. mappings'[i] = x /\ t \in DOMAIN Given(x)[p]
        BY <1>8, <2>1, <3>2
      <4>2. t \in DOMAIN presets[c][p] /\ presets[c][p][t] = Given(x)[p][t]
        BY <1>3, <3>2, <4>1 DEF LayersHold
      <4>3. RowFacts(x) /\ x.source \in SourcesOf(d)
        BY <1>3, <3>2, RowRightFacts DEF SourcesRight
      <4>4. t \in TargetsOf(x.source) /\ c \in ScopeNames
        BY <4>1, <4>3, GivenTargets DEF RowFacts
      <4>5. CASE c # m.scope
        BY <1>13, <4>1, <4>2, <4>4, <4>5
      <4>6. CASE c = m.scope
        <5>1. x.source # m.source
          BY <1>3, <1>4, <1>6, <3>2, <4>6 DEF WorkFollows
        <5>2. t \notin DOMAIN Given(m)[p]
          BY <1>5, <1>6, <1>7, <4>3, <4>4, <5>1, GivenTargets, DraftsAssumption
        <5> QED
          BY <1>13, <4>1, <4>2, <4>4, <4>6, <5>2, LaidFacts
      <4> QED
        BY <4>5, <4>6
    <3> QED
      BY <1>8, <3>1, <3>2
  <2> QED
    BY <2>1 DEF LayersHold
<1>16. LayersOnly'
  <2>1. ASSUME NEW c \in ScopeNames, NEW p \in Parts, NEW t \in DOMAIN presets'[c][p]
        PROVE  \E i \in DOMAIN mappings' : mappings'[i].scope = c /\ t \in DOMAIN Given(mappings'[i])[p]
    <3> HIDE DEF n
    <3>1. CASE c = m.scope /\ t \in DOMAIN Given(m)[p]
      BY <1>8, <3>1
    <3>2. CASE ~(c = m.scope /\ t \in DOMAIN Given(m)[p])
      <4>1. t \in DOMAIN presets[c][p]
        BY <1>13, <2>1, <3>2, LaidFacts
      <4>2. PICK i \in DOMAIN mappings : mappings[i].scope = c /\ t \in DOMAIN Given(mappings[i])[p]
        BY <1>3, <4>1 DEF LayersOnly
      <4> QED
        BY <1>8, <4>2
    <3> QED
      BY <3>1, <3>2
  <2> QED
    BY <2>1 DEF LayersOnly
<1>17. DraftLeft(d)' /\ BaselineRight(d)' /\ RegistrationsRight(d)'
  BY <1>2 DEF GeneratorInv, DraftLeft, BaselineRight, RegistrationsRight
<1>18. IsList(mappings)' /\ phase' # "apply" /\ phase' # "generated"
  <2>1. phase = "map" /\ phase' = phase
    BY <1>2 DEF mapRule
  <2>2. IsList(mappings)'
    BY <1>8 DEF IsList
  <2> QED
    BY <2>1, <2>2
<1> QED
  BY <1>9, <1>10, <1>11, <1>12, <1>13, <1>15, <1>16, <1>17, <1>18 DEF GeneratorInv

LEMMA RegisterKeepsInv ==
    ASSUME NEW d \in Drafts, GeneratorInv(d), Register
    PROVE  GeneratorInv(d)'
<1> DEFINE r == Head(draft.registrations)
           target == TargetOf(r)
           entry == registerCompatibility(r, target)
           rest == Tail(draft.registrations)
<1>1. CASE Throw
  BY <1>1, ThrowKeepsInv
<1>2. ASSUME ~Throw
      PROVE  /\ compatibility' = IF Skipped(r) THEN compatibility
                                 ELSE Laid(Only(r.source, entry), compatibility)
             /\ draft' = [draft EXCEPT !.registrations = rest]
             /\ UNCHANGED <<phase, baseline, work, mappings, presets, enforcement>>
  BY <1>2 DEF Register
<1> SUFFICES ASSUME ~Throw PROVE GeneratorInv(d)'
  BY <1>1
<1>3. DraftLeft(d) /\ BaselineRight(d) /\ RegistrationsRight(d)
  BY DEF GeneratorInv
<1>4. /\ IsList(rest) /\ r = draft.registrations[1] /\ 1 \in DOMAIN draft.registrations
      /\ \A i \in DOMAIN rest :
             i + 1 \in DOMAIN draft.registrations /\ rest[i] = draft.registrations[i + 1]
  <2>1. draft.registrations # <<>> /\ IsList(draft.registrations)
    BY <1>3 DEF Register, DraftLeft
  <2> QED
    BY <2>1, ListTail
<1>5. draft' = [configs |-> draft.configs, tables |-> d.tables, registrations |-> rest,
                clauses |-> d.clauses]
  <2> DEFINE all == draft.registrations
             configs == draft.configs
  <2>1. draft = [configs |-> configs, tables |-> d.tables, registrations |-> all,
                 clauses |-> d.clauses]
    BY <1>3 DEF DraftLeft
  <2>2. draft' = [draft EXCEPT !.registrations = rest]
    BY <1>2
  <2> HIDE DEF rest, all, configs
  <2>3. draft' = [configs |-> configs, tables |-> d.tables, registrations |-> rest,
                  clauses |-> d.clauses]
    BY <2>1, <2>2
  <2> QED
    BY <2>3 DEF configs
<1>6. DraftLeft(d)'
  <2>1. \A i \in DOMAIN rest : \E j \in DOMAIN d.registrations : rest[i] = d.registrations[j]
    BY <1>3, <1>4 DEF DraftLeft
  <2>2. /\ draft'.configs = draft.configs /\ draft'.tables = d.tables
        /\ draft'.registrations = rest /\ draft'.clauses = d.clauses
    <3> HIDE DEF rest
    <3> QED
      BY <1>5
  <2>3. IsList(draft.configs)' /\ IsList(draft.registrations)'
    BY <1>3, <1>4, <2>2 DEF DraftLeft, IsList
  <2> HIDE DEF rest
  <2> QED
    BY <1>3, <1>5, <2>1, <2>2, <2>3 DEF DraftLeft
<1>7. BaselineRight(d)'
  BY <1>2, <1>3 DEF BaselineRight
<1>8. PICK k \in DOMAIN d.registrations : r = d.registrations[k]
  BY <1>3, <1>4 DEF DraftLeft
<1>9. r.source \in SourcesOf(d) \ TypeScriptSources =>
          /\ ~r.extension /\ r.target = resolveTarget(r.source).target
          /\ BareName[r.source] = r.source /\ r.language = "any" /\ r.defaults = {}
  BY <1>8, DraftsAssumption
<1>10. r.source \in SourcesOf(d) \ TypeScriptSources =>
          /\ entry.canonical = r.source /\ entry.target = resolveTarget(r.source).target
          /\ entry.language = "any" /\ ~entry.preserve /\ entry.defaults = {}
  <2>1. ~r.extension => target = r.target
    BY DEF TargetOf
  <2>2. /\ entry.canonical = BareName[r.source] /\ entry.target = target
        /\ entry.language = r.language /\ entry.defaults = r.defaults
    BY DEF registerCompatibility
  <2>3. entry.preserve = (r.source \in TypeScriptSources)
    BY DEF registerCompatibility
  <2> HIDE DEF r, entry, target
  <2>4. r.source \in SourcesOf(d) \ TypeScriptSources => target = r.target
    BY <1>9, <2>1, Zenon
  <2>5. r.source \in SourcesOf(d) \ TypeScriptSources => ~entry.preserve
    BY <2>3, Zenon
  <2>6. r.source \in SourcesOf(d) \ TypeScriptSources =>
            /\ r.target = resolveTarget(r.source).target
            /\ BareName[r.source] = r.source /\ r.language = "any" /\ r.defaults = {}
    BY <1>9, Zenon
  <2> QED
    BY <2>2, <2>4, <2>5, <2>6
<1>11. RegistrationsRight(d)'
  <2> HIDE DEF r, entry
  <2>1. ASSUME NEW s \in DOMAIN compatibility', s \in SourcesOf(d), s \notin TypeScriptSources
        PROVE  LET e == compatibility'[s]
               IN  /\ e.canonical = s /\ e.target = resolveTarget(s).target /\ e.language = "any"
                   /\ ~e.preserve /\ e.defaults = {}
    <3>1. DOMAIN Only(r.source, entry) = {r.source} /\ Only(r.source, entry)[r.source] = entry
      BY DEF Only
    <3>2. CASE compatibility'[s] = entry /\ s = r.source
      BY <1>10, <2>1, <3>2
    <3>3. CASE s \in DOMAIN compatibility /\ compatibility'[s] = compatibility[s]
      BY <1>3, <2>1, <3>3 DEF RegistrationsRight
    <3>4. \/ compatibility'[s] = entry /\ s = r.source
          \/ s \in DOMAIN compatibility /\ compatibility'[s] = compatibility[s]
      <4>1. CASE Skipped(r)
        BY <1>2, <2>1, <4>1
      <4>2. CASE ~Skipped(r)
        BY <1>2, <2>1, <3>1, <4>2, LaidFacts
      <4> QED
        BY <4>1, <4>2
    <3> QED
      BY <3>2, <3>3, <3>4
  <2> QED
    BY <2>1 DEF RegistrationsRight
<1>12. phase' = phase /\ phase = "map"
  BY <1>2 DEF Register
<1>13. UNCHANGED <<mappings, presets, work>>
  BY <1>2
<1> QED
  BY <1>6, <1>7, <1>11, <1>12, <1>13, MappingsAlone DEF GeneratorInv

LEMMA DescribeKeepsInv ==
    ASSUME NEW d \in Drafts, GeneratorInv(d), describe
    PROVE  GeneratorInv(d)'
<1>1. CASE Throw
  BY <1>1, ThrowKeepsInv
<1>2. ASSUME ~Throw
      PROVE  /\ enforcement' = [c \in draft.clauses |-> [p \in Policies |-> classify(c, p)]]
             /\ phase' = "generated"
             /\ UNCHANGED <<draft, baseline, work, mappings, presets, compatibility>>
  BY <1>2 DEF describe
<1> SUFFICES ASSUME ~Throw PROVE GeneratorInv(d)'
  BY <1>1
<1>3. DraftLeft(d)' /\ BaselineRight(d)' /\ RegistrationsRight(d)'
  BY <1>2 DEF GeneratorInv, DraftLeft, BaselineRight, RegistrationsRight
<1>4. (enforcement = [c \in draft.clauses |-> [p \in Policies |-> classify(c, p)]])'
  <2>1. ASSUME NEW c, NEW p PROVE classify(c, p)' = classify(c, p)
    BY <1>2 DEF classify, Active, LastOf
  <2> QED
    BY <1>2, <2>1
<1>5. phase' # "apply"
  BY <1>2
<1>6. UNCHANGED <<mappings, presets, work>>
  BY <1>2
<1> QED
  BY <1>3, <1>4, <1>5, <1>6, MappingsAlone DEF GeneratorInv

LEMMA GeneratorInvHolds == GeneratorSpec => [](\E d \in Drafts : GeneratorInv(d))
<1>1. GeneratorInit => \E d \in Drafts : GeneratorInv(d)
  BY GeneratorInitHasInv
<1>2. (\E d \in Drafts : GeneratorInv(d)) /\ [GeneratorNext]_generatorVars =>
          (\E d \in Drafts : GeneratorInv(d))'
  <2>1. ASSUME NEW d \in Drafts, GeneratorInv(d), [GeneratorNext]_generatorVars
        PROVE  GeneratorInv(d)'
    BY <2>1, ApplyKeepsInv, AddGuideKeepsInv, MapRuleKeepsInv, RegisterKeepsInv, DescribeKeepsInv,
       ThrowKeepsInv DEF GeneratorNext
  <2> QED
    BY <2>1
<1> QED
  BY <1>1, <1>2, PTL DEF GeneratorSpec

-----------------------------------------------------------------------------
\* What a file gets.

Applies(c, o) == c \in ScopeNames /\ c \in {"base", o.policy, o.profile}

LEMMA OverlaidIn ==
    ASSUME NEW o, NEW p, NEW c, NEW t, Applies(c, o), t \in DOMAIN presets[c][p],
           \A b : Applies(b, o) /\ t \in DOMAIN presets[b][p] => Rank(b) <= Rank(c)
    PROVE  t \in DOMAIN Overlaid(p, o) /\ Overlaid(p, o)[t] = presets[c][p][t]
<1> DEFINE L(b) == IF b \in {"base", o.policy, o.profile} THEN presets[b][p] ELSE NoRules
           low == Laid(L("guideline"), L("base"))
<1>1. Overlaid(p, o) = Laid(L("adguard-projects"), low)
  BY DEF Overlaid
<1>2. \A b : b \in {"base", o.policy, o.profile} => L(b) = presets[b][p]
  OBVIOUS
<1>3. \A b : b \notin {"base", o.policy, o.profile} => t \notin DOMAIN L(b)
  BY DEF NoRules
<1>4. L(c) = presets[c][p] /\ t \in DOMAIN L(c)
  BY <1>2 DEF Applies
<1>5. ASSUME NEW b \in ScopeNames, t \in DOMAIN L(b) PROVE Rank(b) <= Rank(c)
  <2>1. Applies(b, o)
    BY <1>3, <1>5 DEF Applies
  <2>2. t \in DOMAIN presets[b][p]
    BY <1>2, <1>5, <2>1 DEF Applies
  <2> QED
    BY <2>1, <2>2
<1>6. /\ Rank("base") = 0 /\ Rank("guideline") = 1 /\ Rank("adguard-projects") = 2
      /\ ScopeNames = {"base", "guideline", "adguard-projects"} /\ c \in ScopeNames
  BY DEF Rank, ScopeNames, Applies
<1> HIDE DEF L
<1>7. CASE c = "adguard-projects"
  BY <1>1, <1>4, <1>7, LaidFacts
<1>8. CASE c = "guideline"
  <2>1. t \notin DOMAIN L("adguard-projects")
    BY <1>5, <1>6, <1>8
  <2>2. t \in DOMAIN low /\ low[t] = L(c)[t]
    BY <1>4, <1>8, LaidFacts
  <2> QED
    BY <1>1, <1>4, <2>1, <2>2, LaidFacts
<1>9. CASE c = "base"
  <2>1. t \notin DOMAIN L("adguard-projects") /\ t \notin DOMAIN L("guideline")
    BY <1>5, <1>6, <1>9
  <2>2. t \in DOMAIN low /\ low[t] = L(c)[t]
    BY <1>4, <1>9, <2>1, LaidFacts
  <2> QED
    BY <1>1, <1>4, <2>1, <2>2, LaidFacts
<1> QED
  BY <1>6, <1>7, <1>8, <1>9

LEMMA OverlaidOnly ==
    ASSUME NEW o, NEW p, NEW t \in DOMAIN Overlaid(p, o)
    PROVE  \E c : Applies(c, o) /\ t \in DOMAIN presets[c][p]
<1> DEFINE L(b) == IF b \in {"base", o.policy, o.profile} THEN presets[b][p] ELSE NoRules
           low == Laid(L("guideline"), L("base"))
<1>1. Overlaid(p, o) = Laid(L("adguard-projects"), low)
  BY DEF Overlaid
<1>2. ASSUME NEW b \in ScopeNames, t \in DOMAIN L(b)
      PROVE  Applies(b, o) /\ t \in DOMAIN presets[b][p]
  <2>1. b \in {"base", o.policy, o.profile}
    BY <1>2 DEF NoRules
  <2>2. L(b) = presets[b][p]
    BY <2>1
  <2> QED
    BY <1>2, <2>1, <2>2 DEF Applies
<1> HIDE DEF L
<1>3. \E b \in ScopeNames : t \in DOMAIN L(b)
  BY <1>1, LaidFacts DEF ScopeNames
<1> QED
  BY <1>2, <1>3

\* Does mapping i count for a file?
Counts(i, o) ==
    /\ mappings[i].language \in {"any", o.language} /\ Applies(mappings[i].scope, o)

\* Is it the last that does?
Decides(i, o) ==
    /\ i \in DOMAIN mappings /\ Counts(i, o)
    /\ \A j \in DOMAIN mappings :
           mappings[j].source = mappings[i].source /\ Counts(j, o) => j <= i

\* The only mapping of its rule that gives anything to the layers of a file, or the last.
LEMMA DecidesFacts ==
    ASSUME NEW d \in Drafts, GeneratorInv(d), NEW o, NEW i, Decides(i, o), NEW p \in Parts,
           NEW t \in TargetsOf(mappings[i].source)
    PROVE  LET m == mappings[i]
           IN  /\ t \in DOMAIN Given(m)[p] =>
                      t \in DOMAIN Overlaid(p, o) /\ Overlaid(p, o)[t] = Given(m)[p][t]
               /\ t \in DOMAIN Overlaid(p, o) => \E j \in DOMAIN mappings :
                      /\ mappings[j].source = m.source /\ t \in DOMAIN Given(mappings[j])[p]
                      /\ j # i => m.target # Nothing /\ Plural(m) /\ Plural(mappings[j])
<1> DEFINE m == mappings[i]
<1>1. /\ SourcesRight(d) /\ MappingsOrdered /\ LayersHold /\ LayersOnly /\ IsList(mappings)
  BY DEF GeneratorInv
<1>2. /\ i \in DOMAIN mappings /\ Counts(i, o) /\ Applies(m.scope, o)
      /\ \A j \in DOMAIN mappings : mappings[j].source = m.source /\ Counts(j, o) => j <= i
  BY DEF Decides, Counts
<1>3. \A j \in DOMAIN mappings : RowFacts(mappings[j]) /\ mappings[j].source \in SourcesOf(d)
  BY <1>1, RowRightFacts DEF SourcesRight
<1>4. Len(mappings) \in Nat /\ DOMAIN mappings = 1 .. Len(mappings)
  BY <1>1, ListFacts
<1>5. Rank("base") = 0 /\ \A b : Rank(b) \in {0, 1, 2}
  BY DEF Rank
<1>6. \A b \in ScopeNames : Rank(b) = 0 => b = "base"
  BY DEF Rank, ScopeNames
<1>7. ASSUME NEW b, Applies(b, o), t \in DOMAIN presets[b][p]
      PROVE  \E j \in DOMAIN mappings :
                 /\ mappings[j].source = m.source /\ mappings[j].scope = b
                 /\ t \in DOMAIN Given(mappings[j])[p]
                 /\ j # i => Plural(m) /\ Plural(mappings[j])
                 /\ Rank(b) <= Rank(m.scope)
                 /\ m.target = Nothing => j = i
  <2>1. PICK j \in DOMAIN mappings : mappings[j].scope = b /\ t \in DOMAIN Given(mappings[j])[p]
    BY <1>1, <1>7 DEF LayersOnly, Applies
  <2>2. t \in TargetsOf(mappings[j].source)
    BY <1>3, <2>1, GivenTargets
  <2>3. mappings[j].source = m.source
    BY <1>2, <1>3, <2>2, DraftsAssumption
  <2>4. j # i => /\ Plural(m) /\ Plural(mappings[j]) /\ mappings[j].scope # m.scope
    <3>1. j < i \/ i < j \/ i = j
      BY <1>2, <1>4
    <3> QED
      BY <1>1, <1>2, <2>3, <3>1 DEF MappingsOrdered
  <2>5. j # i => j < i
    <3>1. j # i => Counts(j, o)
      BY <1>7, <2>1, <2>4 DEF Counts, Plural
    <3>2. j # i => j <= i
      BY <1>2, <2>3, <3>1
    <3> QED
      BY <1>2, <1>4, <3>2
  <2>6. Rank(b) <= Rank(m.scope)
    BY <1>1, <1>2, <1>5, <2>1, <2>5 DEF MappingsOrdered
  <2>7. m.target = Nothing => j = i
    <3>1. ASSUME m.target = Nothing PROVE m.scope = b
      <4>1. m.scope = "base"
        BY <1>2, <1>3, <3>1 DEF RowFacts
      <4>2. Rank(b) = 0 /\ b \in ScopeNames
        BY <1>5, <1>7, <2>6, <4>1 DEF Applies
      <4> QED
        BY <1>6, <4>1, <4>2
    <3> QED
      BY <2>1, <2>4, <3>1
  <2> QED
    BY <2>1, <2>3, <2>4, <2>6, <2>7
<1>8. ASSUME t \in DOMAIN Given(m)[p]
      PROVE  t \in DOMAIN Overlaid(p, o) /\ Overlaid(p, o)[t] = Given(m)[p][t]
  <2>1. t \in DOMAIN presets[m.scope][p] /\ presets[m.scope][p][t] = Given(m)[p][t]
    BY <1>1, <1>2, <1>8 DEF LayersHold
  <2>2. \A b : Applies(b, o) /\ t \in DOMAIN presets[b][p] => Rank(b) <= Rank(m.scope)
    BY <1>7
  <2>3. t \in DOMAIN Overlaid(p, o) /\ Overlaid(p, o)[t] = presets[m.scope][p][t]
    <3> DEFINE c == m.scope
    <3>1. Applies(c, o) /\ t \in DOMAIN presets[c][p]
      BY <1>2, <2>1
    <3>2. \A b : Applies(b, o) /\ t \in DOMAIN presets[b][p] => Rank(b) <= Rank(c)
      BY <2>2
    <3> HIDE DEF c
    <3>3. t \in DOMAIN Overlaid(p, o) /\ Overlaid(p, o)[t] = presets[c][p][t]
      BY <3>1, <3>2, OverlaidIn
    <3> QED
      BY <3>3 DEF c
  <2> QED
    BY <2>1, <2>3
<1>9. ASSUME t \in DOMAIN Overlaid(p, o)
      PROVE  \E j \in DOMAIN mappings :
                 /\ mappings[j].source = m.source /\ t \in DOMAIN Given(mappings[j])[p]
                 /\ j # i => m.target # Nothing /\ Plural(m) /\ Plural(mappings[j])
  <2>1. PICK b : Applies(b, o) /\ t \in DOMAIN presets[b][p]
    BY <1>9, OverlaidOnly
  <2> HIDE DEF m
  <2> QED
    BY <1>7, <2>1
<1> QED
  BY <1>8, <1>9

\* The implementation and the setting that a mapping has in a language.
Replacement(m, o) == o.language = "typescript" /\ m.typescript # NoEquivalent
TargetFor(m, o) == IF Replacement(m, o) THEN m.typescript.target ELSE m.target
SettingFor(m, o) == IF Replacement(m, o) THEN m.typescript.setting ELSE m.setting

\* In the rules of a file, those for TypeScript aside.
LEMMA RulesAt ==
    ASSUME NEW d \in Drafts, GeneratorInv(d), NEW o, NEW i, Decides(i, o),
           NEW t \in TargetsOf(mappings[i].source)
    PROVE  LET m == mappings[i]
               R == Overlaid("rules", o)
           IN  /\ t \in DOMAIN R <=> m.language = "any" /\ t = m.target
               /\ t \in DOMAIN R => R[t] = m.setting
<1> DEFINE m == mappings[i]
           R == Overlaid("rules", o)
<1>1. \A j \in DOMAIN mappings : RowFacts(mappings[j])
  BY RowRightFacts DEF GeneratorInv, SourcesRight
<1>2. i \in DOMAIN mappings /\ RowFacts(m) /\ t # Nothing /\ "rules" \in Parts
  BY <1>1 DEF Decides, TargetsOf, Parts
<1>3. \A x : Given(x)["rules"] = IF x.language = "typescript" THEN NoRules ELSE Plain(x)
  BY DEF Given
<1>4. \A x : /\ t \in DOMAIN Given(x)["rules"] => x.language # "typescript" /\ t = x.target
             /\ x.language # "typescript" /\ t = x.target =>
                    t \in DOMAIN Given(x)["rules"] /\ Given(x)["rules"][t] = x.setting
  BY <1>2, <1>3, PlainFacts DEF NoRules
<1>5. /\ t \in DOMAIN Given(m)["rules"] => t \in DOMAIN R /\ R[t] = Given(m)["rules"][t]
      /\ t \in DOMAIN R => \E j \in DOMAIN mappings :
             /\ mappings[j].source = m.source /\ t \in DOMAIN Given(mappings[j])["rules"]
             /\ j # i => m.target # Nothing /\ Plural(m) /\ Plural(mappings[j])
  BY <1>2, DecidesFacts
<1>6. m.language \in {"any", "typescript"}
  BY <1>2 DEF RowFacts
<1>7. ASSUME t \in DOMAIN R PROVE m.language = "any" /\ t = m.target
  <2>1. PICK j \in DOMAIN mappings :
             /\ mappings[j].source = m.source /\ t \in DOMAIN Given(mappings[j])["rules"]
             /\ j # i => m.target # Nothing /\ Plural(m) /\ Plural(mappings[j])
    BY <1>5, <1>7
  <2>2. mappings[j].language # "typescript" /\ t = mappings[j].target
    BY <1>4, <2>1
  <2>3. CASE j = i
    BY <1>6, <2>2, <2>3
  <2>4. CASE j # i
    <3>1. m.language = "any" /\ m.target # Nothing
      BY <2>1, <2>4 DEF Plural
    <3>2. t = resolveTarget(m.source).target /\ m.target = resolveTarget(m.source).target
      BY <1>1, <1>2, <2>1, <2>2, <3>1 DEF RowFacts
    <3> QED
      BY <3>1, <3>2
  <2> QED
    BY <2>3, <2>4
<1>8. ASSUME m.language = "any", t = m.target PROVE t \in DOMAIN R /\ R[t] = m.setting
  BY <1>4, <1>5, <1>8
<1> QED
  BY <1>7, <1>8

\* In those for TypeScript.
LEMMA TypeScriptRulesAt ==
    ASSUME NEW d \in Drafts, GeneratorInv(d), NEW o, NEW i, Decides(i, o),
           NEW t \in TargetsOf(mappings[i].source)
    PROVE  LET m == mappings[i]
               T == Overlaid("typescriptRules", o)
               e == m.typescript
           IN  /\ m.language = "typescript" =>
                      /\ t \in DOMAIN T <=> t = m.target
                      /\ t \in DOMAIN T => T[t] = m.setting
               /\ m.language = "any" /\ e = NoEquivalent => t \notin DOMAIN T
               /\ e # NoEquivalent =>
                      /\ t = e.target /\ (m.target # Nothing \/ severity(e.setting) > 0) =>
                             t \in DOMAIN T /\ T[t] = e.setting
                      /\ t # e.target /\ t = m.target => t \in DOMAIN T /\ T[t] = Off
                      /\ m.target = Nothing /\ t \in DOMAIN T =>
                             t = e.target /\ severity(e.setting) > 0
<1> DEFINE m == mappings[i]
           e == m.typescript
           P == "typescriptRules"
           T == Overlaid(P, o)
<1>1. \A j \in DOMAIN mappings : RowFacts(mappings[j])
  BY RowRightFacts DEF GeneratorInv, SourcesRight
<1>2. i \in DOMAIN mappings /\ RowFacts(m) /\ t # Nothing /\ P \in Parts
  BY <1>1 DEF Decides, TargetsOf, Parts
<1>3. \A x : Given(x)[P] = IF x.language = "typescript" THEN Plain(x)
                           ELSE IF x.typescript # NoEquivalent THEN Exchanged(x) ELSE NoRules
  BY DEF Given
<1>4. /\ t \in DOMAIN Given(m)[P] => t \in DOMAIN T /\ T[t] = Given(m)[P][t]
      /\ t \in DOMAIN T => \E j \in DOMAIN mappings :
             /\ mappings[j].source = m.source /\ t \in DOMAIN Given(mappings[j])[P]
             /\ j # i => m.target # Nothing /\ Plural(m) /\ Plural(mappings[j])
  BY <1>2, DecidesFacts
<1> HIDE DEF P
<1>5. ASSUME m.language = "typescript"
      PROVE  /\ t \in DOMAIN T <=> t = m.target
             /\ t \in DOMAIN T => T[t] = m.setting
  <2>1. ~Plural(m) /\ Given(m)[P] = Plain(m)
    BY <1>3, <1>5 DEF Plural
  <2>2. t \in DOMAIN T => t \in DOMAIN Given(m)[P]
    BY <1>4, <2>1
  <2> QED
    BY <1>2, <1>4, <2>1, <2>2, PlainFacts
<1>6. ASSUME m.language = "any", e = NoEquivalent PROVE t \notin DOMAIN T
  <2>1. ASSUME NEW j \in DOMAIN mappings, mappings[j].source = m.source,
               j # i => Plural(m) /\ Plural(mappings[j])
        PROVE  t \notin DOMAIN Given(mappings[j])[P]
    <3>1. mappings[j].language = "any" /\ mappings[j].typescript = NoEquivalent
      BY <1>6, <2>1 DEF Plural
    <3> QED
      BY <1>3, <3>1 DEF NoRules
  <2> QED
    BY <1>4, <2>1
<1>7. ASSUME e # NoEquivalent
      PROVE  /\ t = e.target /\ (m.target # Nothing \/ severity(e.setting) > 0) =>
                    t \in DOMAIN T /\ T[t] = e.setting
             /\ t # e.target /\ t = m.target => t \in DOMAIN T /\ T[t] = Off
             /\ m.target = Nothing /\ t \in DOMAIN T =>
                    t = e.target /\ severity(e.setting) > 0
  <2>1. Given(m)[P] = Exchanged(m)
    BY <1>2, <1>3, <1>7 DEF RowFacts
  <2>2. /\ t \in DOMAIN Exchanged(m) <=>
               \/ e.target # Nothing /\ (m.target # Nothing \/ severity(e.setting) > 0) /\ t = e.target
               \/ m.target \notin {Nothing, e.target} /\ t = m.target
        /\ t \in DOMAIN Exchanged(m) => /\ t = e.target => Exchanged(m)[t] = e.setting
                                        /\ t # e.target => Exchanged(m)[t] = Off
    BY ExchangedFacts
  <2>3. m.target = Nothing /\ t \in DOMAIN T => t \in DOMAIN Exchanged(m)
    BY <1>4, <2>1
  <2> HIDE DEF m, T
  <2> QED
    BY <1>2, <1>4, <2>1, <2>2, <2>3
<1> QED
  BY <1>5, <1>6, <1>7 DEF P

\* So in the rules of a file an implementation is on when the deciding mapping says so.
LEMMA PresetAt ==
    ASSUME NEW d \in Drafts, GeneratorInv(d), NEW o, o.language \in {"javascript", "typescript"},
           NEW i, Decides(i, o), NEW t \in TargetsOf(mappings[i].source)
    PROVE  LET m == mappings[i]
           IN  /\ t \in TurnedOn(Preset(o)) <=>
                      t = TargetFor(m, o) /\ severity(SettingFor(m, o)) > 0
               /\ t \in TurnedOn(Preset(o)) => Preset(o)[t] = SettingFor(m, o)
<1> DEFINE m == mappings[i]
           e == m.typescript
           R == Overlaid("rules", o)
           T == Overlaid("typescriptRules", o)
           S == Preset(o)
           Goal == /\ t \in TurnedOn(S) <=> t = TargetFor(m, o) /\ severity(SettingFor(m, o)) > 0
                   /\ t \in TurnedOn(S) => S[t] = SettingFor(m, o)
<1>1. RowFacts(m) /\ t # Nothing
  BY RowRightFacts DEF GeneratorInv, SourcesRight, Decides, TargetsOf
<1>2. /\ m.language \in {"any", "typescript"} /\ m.language \in {"any", o.language}
      /\ m.target = Nothing => severity(m.setting) = 0
  BY <1>1 DEF RowFacts, Decides, Counts
<1>3. /\ t \in DOMAIN R <=> m.language = "any" /\ t = m.target
      /\ t \in DOMAIN R => R[t] = m.setting
  BY RulesAt
<1>4. t \in TurnedOn(S) <=> t \in DOMAIN S /\ severity(S[t]) > 0
  BY DEF TurnedOn
<1>5. severity(Off) = 0
  BY DEF severity, Off, Setting
<1>6. ASSUME o.language = "javascript" PROVE Goal
  <2>1. S = R /\ ~Replacement(m, o)
    BY <1>6 DEF Preset, Replacement
  <2>2. m.language = "any"
    BY <1>2, <1>6
  <2>3. TargetFor(m, o) = m.target /\ SettingFor(m, o) = m.setting
    BY <2>1 DEF TargetFor, SettingFor
  <2> HIDE DEF m, R, S
  <2> QED
    BY <1>3, <1>4, <2>1, <2>2, <2>3
<1>7. ASSUME o.language = "typescript" PROVE Goal
  <2>1. S = Laid(T, R) /\ (Replacement(m, o) <=> e # NoEquivalent)
    BY <1>7 DEF Preset, Replacement
  <2>2. /\ t \in DOMAIN S <=> t \in DOMAIN T \/ t \in DOMAIN R
        /\ t \in DOMAIN T => S[t] = T[t]
        /\ t \in DOMAIN R /\ t \notin DOMAIN T => S[t] = R[t]
    <3> HIDE DEF S, R, T
    <3> QED
      BY <2>1, LaidFacts
  <2>3. /\ m.language = "typescript" =>
                      /\ t \in DOMAIN T <=> t = m.target
                      /\ t \in DOMAIN T => T[t] = m.setting
        /\ m.language = "any" /\ e = NoEquivalent => t \notin DOMAIN T
        /\ e # NoEquivalent =>
               /\ t = e.target /\ (m.target # Nothing \/ severity(e.setting) > 0) =>
                      t \in DOMAIN T /\ T[t] = e.setting
               /\ t # e.target /\ t = m.target => t \in DOMAIN T /\ T[t] = Off
               /\ m.target = Nothing /\ t \in DOMAIN T =>
                      t = e.target /\ severity(e.setting) > 0
    BY TypeScriptRulesAt
  <2>4. m.language = "typescript" => e = NoEquivalent
    BY <1>1 DEF RowFacts
  <2>5. e # NoEquivalent => t = e.target \/ m.target = Nothing \/ t = m.target
    <3>1. ASSUME e # NoEquivalent
          PROVE  m.source \in DOMAIN Equivalents /\ e.target = Equivalents[m.source].target
      BY <1>1, <3>1, EquivalentFacts DEF RowFacts
    <3>2. m.target \in {Nothing, resolveTarget(m.source).target}
      BY <1>1 DEF RowFacts
    <3> QED
      BY <3>1, <3>2 DEF TargetsOf
  <2>6. /\ e = NoEquivalent => TargetFor(m, o) = m.target /\ SettingFor(m, o) = m.setting
        /\ e # NoEquivalent => TargetFor(m, o) = e.target /\ SettingFor(m, o) = e.setting
    BY <2>1 DEF TargetFor, SettingFor
  <2>7. ASSUME m.language = "typescript" PROVE Goal
    <3> HIDE DEF S, R, T, e, m
    <3> QED
      BY <1>3, <1>4, <2>2, <2>3, <2>4, <2>6, <2>7
  <2>8. ASSUME m.language = "any", e = NoEquivalent PROVE Goal
    <3> HIDE DEF S, R, T, e, m
    <3> QED
      BY <1>3, <1>4, <2>2, <2>3, <2>6, <2>8
  <2>9. ASSUME m.language = "any", e # NoEquivalent PROVE Goal
    <3> HIDE DEF S, R, T, e, m
    <3>1. TargetFor(m, o) = e.target /\ SettingFor(m, o) = e.setting
      BY <2>6, <2>9
    <3>2. CASE t = e.target /\ (m.target # Nothing \/ severity(e.setting) > 0)
      <4>1. t \in DOMAIN T /\ T[t] = e.setting
        BY <2>3, <2>9, <3>2
      <4> QED
        BY <1>4, <2>2, <3>1, <3>2, <4>1
    <3>3. CASE t = e.target /\ m.target = Nothing /\ ~(severity(e.setting) > 0)
      <4>1. t \notin DOMAIN S
        BY <1>1, <1>3, <2>2, <2>3, <2>9, <3>3
      <4> QED
        BY <1>4, <3>1, <3>3, <4>1
    <3>4. CASE t # e.target /\ t = m.target
      <4>1. t \in DOMAIN S /\ S[t] = Off
        BY <2>2, <2>3, <2>9, <3>4
      <4> QED
        BY <1>4, <1>5, <3>1, <3>4, <4>1
    <3>5. CASE t # e.target /\ m.target = Nothing
      <4>1. t \notin DOMAIN S
        BY <1>1, <1>3, <2>2, <2>3, <2>9, <3>5
      <4> QED
        BY <1>4, <3>1, <3>5, <4>1
    <3> QED
      BY <2>5, <2>9, <3>2, <3>3, <3>4, <3>5
  <2> QED
    BY <1>2, <2>7, <2>8, <2>9
<1>8. Goal
  <2> HIDE DEF Goal
  <2> QED
    BY <1>6, <1>7
<1> QED
  BY <1>8

\* What the lookup selects for a rule that is registered under its own name.
LEMMA LookedUp ==
    ASSUME NEW d \in Drafts, GeneratorInv(d), NEW o, NEW k \in DOMAIN mappings, Counts(k, o),
           mappings[k].source \notin TypeScriptSources
    PROVE  \E i : /\ Decides(i, o) /\ mappings[i].source = mappings[k].source
                  /\ Lookup!Selected(mappings[k].source, o) = mappings[i]
<1> DEFINE s == mappings[k].source
           name == IF s \in DOMAIN compatibility THEN compatibility[s].canonical ELSE s
           candidates == {i \in DOMAIN mappings : mappings[i].source = name}
           fits(m) == m.language \in {"any", o.language} /\ m.scope \in {"base", o.policy, o.profile}
           before(i, j) == IF fits(mappings[i]) = fits(mappings[j]) THEN i <= j ELSE fits(mappings[j])
           last == CHOOSE i \in candidates : \A j \in candidates : before(j, i)
           fitting == {i \in candidates : Counts(i, o)}
<1>1. s \in SourcesOf(d) /\ \A i \in DOMAIN mappings : mappings[i].scope \in ScopeNames
  BY RowRightFacts DEF GeneratorInv, SourcesRight, RowFacts
<1>2. name = s
  BY <1>1 DEF GeneratorInv, RegistrationsRight
<1>3. \A i \in candidates : fits(mappings[i]) <=> Counts(i, o)
  BY <1>1 DEF Counts, Applies
<1>4. \A i, j \in candidates :
          before(i, j) <=> IF Counts(i, o) <=> Counts(j, o) THEN i <= j ELSE Counts(j, o)
  BY <1>3, Zenon
<1>5. Lookup!Selected(s, o) = mappings[last]
  <2>1. Lookup!Selected(s, o) = IF candidates = {} THEN Lookup!Unmapped ELSE mappings[last]
    BY DEF Lookup!Selected
  <2>2. candidates # {}
    BY <1>2
  <2> QED
    BY <2>1, <2>2
<1> HIDE DEF fits, before, name
<1>6. k \in fitting /\ fitting \in SUBSET candidates /\ candidates \in SUBSET (1 .. Len(mappings))
      /\ Len(mappings) \in Nat
  BY <1>2, ListFacts DEF GeneratorInv
<1>7. PICK i \in fitting : \A j \in fitting : j <= i
  BY <1>6, GreatestExists
<1>8. \A j \in candidates : before(j, i)
  BY <1>4, <1>6, <1>7
<1>9. last \in candidates /\ \A j \in candidates : before(j, last)
  <2>1. \E x \in candidates : \A j \in candidates : before(j, x)
    BY <1>6, <1>7, <1>8
  <2> HIDE DEF candidates
  <2> QED
    BY <2>1
<1> HIDE DEF last
<1>10. last \in fitting
  BY <1>4, <1>6, <1>7, <1>9
<1>11. \A j \in fitting : j <= last
  BY <1>4, <1>6, <1>9, <1>10
<1>12. Decides(last, o) /\ mappings[last].source = s
  BY <1>2, <1>10, <1>11 DEF Decides
<1> QED
  BY <1>5, <1>12

\* The owner that the lookup names is what the deciding mapping says.
LEMMA OwnerDecided ==
    ASSUME NEW d \in Drafts, GeneratorInv(d), NEW o \in Lanes, NEW i, Decides(i, o),
           NEW s, s = mappings[i].source, s \notin TypeScriptSources,
           Lookup!Selected(s, o) = mappings[i], Lookup!resolveRule(s, o).status # "unsupported"
    PROVE  LET r == Lookup!resolveRule(s, o)
               m == mappings[i]
           IN  /\ r.status = "resolved" <=> severity(SettingFor(m, o)) > 0
               /\ r.status = "resolved" => r.target = TargetFor(m, o) /\ r.setting = SettingFor(m, o)
<1> DEFINE r == Lookup!resolveRule(s, o)
           m == mappings[i]
           e == Lookup!Entry(s)
           x == IF Replacement(m, o) THEN m.typescript ELSE NoEquivalent
           setting == SettingFor(m, o)
<1>1. RowFacts(m) /\ s \in SourcesOf(d)
  BY RowRightFacts DEF GeneratorInv, SourcesRight, Decides
<1>2. /\ e.language = "any" /\ ~e.preserve /\ e.defaults = {}
      /\ e # Unregistered => e.target = resolveTarget(s).target
  <2>1. CASE s \in DOMAIN compatibility
    <3>1. e = compatibility[s]
      BY <2>1 DEF Lookup!Entry
    <3> QED
      BY <1>1, <2>1, <3>1 DEF GeneratorInv, RegistrationsRight
  <2>2. CASE s \notin DOMAIN compatibility
    <3>1. e = Unregistered
      BY <2>2 DEF Lookup!Entry, Lookup!Unregistered, Lookup!Nothing, Unregistered, Nothing
    <3> QED
      BY <3>1 DEF Unregistered
  <2> QED
    BY <2>1, <2>2
<1>3. o.setting = Unset /\ o.language \in {"javascript", "typescript"}
  BY DEF Lanes
<1>4. m # Unmapped /\ m.language \in {"any", o.language}
  BY <1>1 DEF RowFacts, Decides, Counts
<1>5. r = Lookup!Owner(s, o)
  BY <1>2, <1>4
  DEF Lookup!resolveRule, Lookup!Known, Lookup!Foreign, Lookup!Unmapped, Lookup!Unset, Unmapped,
      Unset, Lookup!Setting, Setting, Lookup!Nothing, Nothing, Lookup!NoEquivalent, NoEquivalent
<1>6. Lookup!Replacing(o, e, m) = x
  BY <1>2, <1>3, <1>4
  DEF Lookup!Replacing, Replacement, Lookup!Unset, Unset, Lookup!Setting, Setting,
      Lookup!NoEquivalent, NoEquivalent, Lookup!Nothing, Nothing
<1>7. r = Lookup!OwnerBy(s, o, e, m, x)
  BY <1>5, <1>6 DEF Lookup!Owner
<1>8. /\ x # NoEquivalent <=> Replacement(m, o)
      /\ Replacement(m, o) => x = m.typescript
      /\ setting = IF Replacement(m, o) THEN x.setting ELSE m.setting
  BY DEF Replacement, SettingFor
<1>9. /\ setting = Setting(setting.level, setting.options)
      /\ Replacement(m, o) /\ x.target = Nothing => severity(setting) = 0
  <2>1. ASSUME Replacement(m, o)
        PROVE  /\ setting = Setting(setting.level, setting.options)
               /\ x.target = Nothing => severity(setting) = 0
    <3>1. /\ s \in DOMAIN Equivalents /\ IsSetting(m.setting)
          /\ x = Equivalent(Equivalents[s], m.setting)
      BY <1>1, <1>8, <2>1 DEF RowFacts, Replacement
    <3>2. /\ x.setting = Setting(x.setting.level, x.setting.options)
          /\ x.target = Nothing => severity(x.setting) = 0
      BY <3>1, EquivalentFacts
    <3> QED
      BY <1>8, <2>1, <3>2
  <2>2. ASSUME ~Replacement(m, o) PROVE setting = Setting(setting.level, setting.options)
    BY <1>1, <1>8, <2>2 DEF RowFacts, IsSetting
  <2> QED
    BY <2>1, <2>2
<1>10. /\ Lookup!severity(setting) = severity(setting) /\ severity(setting) \in {0, 1, 2}
       /\ Lookup!severity(m.setting) = severity(m.setting)
  BY DEF Lookup!severity, severity
<1>11. [setting EXCEPT !.options = @ \cup e.defaults] = setting
  BY <1>2, <1>9 DEF Setting
<1> DEFINE replaced == x # NoEquivalent
           pick == IF replaced THEN x ELSE IF e # Unregistered THEN e ELSE m
           off == severity(setting) = 0
           status == IF replaced /\ x.target = Nothing /\ severity(m.setting) > 0 THEN "compiler"
                     ELSE IF off THEN "disabled" ELSE "resolved"
<1>12. r.status = status /\ r.target = pick.target /\ r.setting = setting
  <2> DEFINE default == IF replaced THEN x.setting
                        ELSE IF m # Unmapped THEN m.setting ELSE Setting("error", {})
             asked == IF o.setting # Unset THEN o.setting ELSE default
             unverified ==
                 /\ o.setting # Unset \/ (e # Unregistered /\ ~replaced)
                 /\ ~(Lookup!severity(asked) = 0)
                 /\ e = Unregistered \/ ~(asked.options \subseteq e.schema)
             decision == Lookup!Decision(
                 IF replaced /\ x.target = Nothing /\ Lookup!severity(m.setting) > 0 THEN "compiler"
                 ELSE IF Lookup!severity(asked) = 0 THEN "disabled" ELSE "resolved",
                 s, pick.target,
                 IF Lookup!severity(asked) = 0 THEN asked
                 ELSE [asked EXCEPT !.options = @ \cup e.defaults],
                 IF Lookup!severity(asked) = 0 THEN "disabled" ELSE pick.implementation,
                 IF e # Unregistered THEN e.typed ELSE m.typed)
  <2>1. r = IF ~Lookup!IsLevel(asked) \/ unverified THEN Lookup!Unsupported(s) ELSE decision
    BY <1>7
    DEF Lookup!OwnerBy, Lookup!NoEquivalent, NoEquivalent, Lookup!Unregistered, Unregistered,
        Lookup!Unmapped, Unmapped, Lookup!Unset, Unset, Lookup!Setting, Setting, Lookup!Nothing,
        Nothing
  <2>2. Lookup!Unsupported(s).status = "unsupported"
    BY DEF Lookup!Unsupported, Lookup!Decision
  <2>3. asked = setting
    BY <1>3, <1>4, <1>8
  <2>4. r = decision
    <3> HIDE DEF asked, unverified, decision, r
    <3>1. r.status # "unsupported"
      BY DEF r
    <3> QED
      BY <2>1, <2>2, <3>1
  <2>5. /\ decision.status =
               IF replaced /\ x.target = Nothing /\ Lookup!severity(m.setting) > 0 THEN "compiler"
               ELSE IF Lookup!severity(asked) = 0 THEN "disabled" ELSE "resolved"
        /\ decision.target = pick.target
        /\ decision.setting = IF Lookup!severity(asked) = 0 THEN asked
                              ELSE [asked EXCEPT !.options = @ \cup e.defaults]
    <3> HIDE DEF asked, pick, e, x, m, replaced
    <3> QED
      BY DEF Lookup!Decision
  <2> HIDE DEF asked, decision, setting, r, pick, e, x, m, replaced
  <2> QED
    BY <1>10, <1>11, <2>3, <2>4, <2>5
<1>13. status = "resolved" <=> severity(setting) > 0
  BY <1>8, <1>9, <1>10
<1>14. ASSUME severity(setting) > 0 PROVE pick.target = TargetFor(m, o)
  <2>1. ~Replacement(m, o) => m.target = resolveTarget(s).target
    BY <1>1, <1>8, <1>14 DEF RowFacts
  <2> QED
    BY <1>2, <1>8, <2>1 DEF TargetFor
<1>15. r.status = "resolved" <=> severity(SettingFor(m, o)) > 0
  BY <1>12, <1>13
<1>16. r.status = "resolved" => r.target = TargetFor(m, o) /\ r.setting = SettingFor(m, o)
  BY <1>12, <1>13, <1>14
<1> QED
  BY <1>15, <1>16

\* The two parts of PresetFollowsCatalog.
LEMMA OwnersAreOn ==
    ASSUME NEW d \in Drafts, GeneratorInv(d), NEW k \in DOMAIN mappings, NEW o \in Lanes
    PROVE  LET s == mappings[k].source
               mine == {mappings[j] : j \in {j \in DOMAIN mappings : mappings[j].source = s}}
               owned == (UNION {{m.target, m.typescript.target} : m \in mine}) \ {Nothing}
               rules == Preset(o)
               looked == /\ s \notin TypeScriptSources
                         /\ \E m \in mine : m.language \in {"any", o.language}
                                            /\ m.scope \in {"base", o.policy, o.profile}
           IN  looked => \A r \in {Lookup!resolveRule(s, o)} :
                   r.status # "unsupported" =>
                       /\ TurnedOn(rules) \cap owned =
                              IF r.status = "resolved" THEN {r.target} ELSE {}
                       /\ r.status = "resolved" => rules[r.target] = r.setting
<1> DEFINE s == mappings[k].source
           mine == {mappings[j] : j \in {j \in DOMAIN mappings : mappings[j].source = s}}
           owned == (UNION {{m.target, m.typescript.target} : m \in mine}) \ {Nothing}
           rules == Preset(o)
           looked == /\ s \notin TypeScriptSources
                     /\ \E m \in mine : m.language \in {"any", o.language}
                                        /\ m.scope \in {"base", o.policy, o.profile}
           r == Lookup!resolveRule(s, o)
           Goal == /\ TurnedOn(rules) \cap owned = IF r.status = "resolved" THEN {r.target} ELSE {}
                   /\ r.status = "resolved" => rules[r.target] = r.setting
<1>1. ASSUME looked, r.status # "unsupported" PROVE Goal
  <2>1. PICK j \in DOMAIN mappings : mappings[j].source = s /\ Counts(j, o)
    <3>1. \A x \in DOMAIN mappings : mappings[x].scope \in ScopeNames
      BY RowRightFacts DEF GeneratorInv, SourcesRight, RowFacts
    <3> QED
      BY <1>1, <3>1 DEF Counts, Applies
  <2>2. PICK i : Decides(i, o) /\ mappings[i].source = s /\ Lookup!Selected(s, o) = mappings[i]
    BY <1>1, <2>1, LookedUp
  <2> DEFINE m == mappings[i]
             v == severity(SettingFor(m, o))
  <2>3. /\ r.status = "resolved" <=> v > 0
        /\ r.status = "resolved" => r.target = TargetFor(m, o) /\ r.setting = SettingFor(m, o)
    BY <1>1, <2>2, OwnerDecided
  <2>4. owned \subseteq TargetsOf(s)
    <3>1. ASSUME NEW x \in DOMAIN mappings, mappings[x].source = s
          PROVE  {mappings[x].target, mappings[x].typescript.target} \ {Nothing} \subseteq TargetsOf(s)
      <4>1. RowFacts(mappings[x])
        BY RowRightFacts DEF GeneratorInv, SourcesRight
      <4>2. mappings[x].typescript # NoEquivalent =>
                /\ s \in DOMAIN Equivalents
                /\ mappings[x].typescript.target = Equivalents[s].target
        BY <3>1, <4>1, EquivalentFacts DEF RowFacts
      <4>3. NoEquivalent.target = Nothing
        BY DEF NoEquivalent
      <4> QED
        BY <3>1, <4>1, <4>2, <4>3 DEF RowFacts, TargetsOf
    <3> QED
      BY <3>1
  <2>5. \A t \in TargetsOf(s) : /\ t \in TurnedOn(rules) <=> t = TargetFor(m, o) /\ v > 0
                                /\ t \in TurnedOn(rules) => rules[t] = SettingFor(m, o)
    BY <2>2, PresetAt DEF Lanes
  <2>6. ASSUME v > 0 PROVE TargetFor(m, o) \in owned
    <3>1. RowFacts(m) /\ m \in mine
      BY <2>2, RowRightFacts DEF GeneratorInv, SourcesRight, Decides
    <3>2. TargetFor(m, o) \in {m.target, m.typescript.target}
      BY DEF TargetFor
    <3>3. CASE Replacement(m, o)
      <4>1. /\ s \in DOMAIN Equivalents /\ IsSetting(m.setting)
            /\ m.typescript = Equivalent(Equivalents[s], m.setting)
        BY <2>2, <3>1, <3>3 DEF RowFacts, Replacement
      <4>2. m.typescript.target = Nothing => severity(m.typescript.setting) = 0
        BY <4>1, EquivalentFacts
      <4>3. TargetFor(m, o) = m.typescript.target /\ SettingFor(m, o) = m.typescript.setting
        BY <3>3 DEF TargetFor, SettingFor
      <4>4. TargetFor(m, o) # Nothing
        BY <2>6, <4>2, <4>3
      <4> QED
        BY <3>1, <3>2, <4>4
    <3>4. CASE ~Replacement(m, o)
      <4>1. TargetFor(m, o) = m.target /\ SettingFor(m, o) = m.setting
        BY <3>4 DEF TargetFor, SettingFor
      <4>2. TargetFor(m, o) # Nothing
        BY <2>6, <3>1, <4>1 DEF RowFacts
      <4> QED
        BY <3>1, <3>2, <4>2
    <3> QED
      BY <3>3, <3>4
  <2> HIDE DEF m, v, rules, owned, r
  <2>7. CASE v > 0
    <3>1. TurnedOn(rules) \cap owned = {TargetFor(m, o)}
      BY <2>4, <2>5, <2>6, <2>7
    <3>2. rules[TargetFor(m, o)] = SettingFor(m, o)
      BY <2>4, <2>5, <2>6, <2>7
    <3> QED
      BY <2>3, <2>7, <3>1, <3>2
  <2>8. CASE ~(v > 0)
    <3>1. TurnedOn(rules) \cap owned = {}
      BY <2>4, <2>5, <2>8
    <3> QED
      BY <2>3, <2>8, <3>1
  <2> QED
    BY <2>7, <2>8
<1> HIDE DEF Goal
<1>2. looked => \A x \in {r} : x.status # "unsupported" => Goal
  BY <1>1
<1> QED
  BY <1>2 DEF Goal

LEMMA ReportedClausesAreOn ==
    ASSUME NEW d \in Drafts, GeneratorInv(d), NEW c, NEW p \in Policies,
           classify(c, p) \in {"custom", "javascript", "native"}
    PROVE  \E i \in DOMAIN mappings, l \in {"javascript", "typescript"} :
               LET m == mappings[i]
               IN  /\ m.source \in IF p = "guideline" THEN c.guideline ELSE c.rules
                   /\ {m.target, m.typescript.target} \cap
                          TurnedOn(Preset([language |-> l, policy |-> p, profile |-> "guide"])) # {}
<1> DEFINE rules == IF p = "guideline" THEN c.guideline ELSE c.rules
           active == {LastOf(Active(r, p)) : r \in {r \in rules : Active(r, p) # {}}}
           enabled == {m \in active : m.implementation # "disabled"}
<1>1. enabled # {}
  <2>1. enabled = {} => classify(c, p) \in {"compiler", "manual", "overridden"}
    <3> DEFINE kinds == {m.implementation : m \in enabled}
               excused == p \in c.excused \/ "compatibility" \in c.excused
               found == IF enabled = {} THEN "overridden"
                ELSE IF p \in c.partial THEN "partial"
                ELSE IF p \in c.forced \/ (Cardinality(enabled) < Cardinality(rules) /\ ~excused)
                THEN "overridden"
                ELSE IF "custom" \in kinds THEN "custom"
                ELSE IF "javascript" \in kinds THEN "javascript" ELSE "native"
    <3>1. classify(c, p) = CASE c.compiler -> "compiler"
                             [] ~c.compiler /\ rules = {} -> "manual"
                             [] ~c.compiler /\ rules # {} -> found
      BY DEF classify
    <3>2. enabled = {} => found = "overridden"
      OBVIOUS
    <3> HIDE DEF rules, found, enabled
    <3> QED
      BY <3>1, <3>2
  <2> HIDE DEF enabled
  <2> QED
    BY <2>1
<1>2. PICK r \in rules : /\ Active(r, p) # {}
                         /\ LastOf(Active(r, p)).implementation # "disabled"
  BY <1>1
<1> DEFINE A == Active(r, p)
           k == CHOOSE i \in A : \A j \in A : j <= i
           m == mappings[k]
<1>3. k \in A /\ \A j \in A : j <= k
  <2>1. A \in SUBSET (1 .. Len(mappings)) /\ Len(mappings) \in Nat
    BY ListFacts DEF GeneratorInv, Active
  <2>2. \E i \in A : \A j \in A : j <= i
    BY <1>2, <2>1, GreatestExists
  <2> HIDE DEF A
  <2> QED
    BY <2>2
<1>4. m.implementation # "disabled"
  BY <1>2 DEF LastOf
<1> HIDE DEF k
<1>5. /\ k \in DOMAIN mappings /\ m.source = r
      /\ m.scope = "base" \/ (p = "guideline" /\ m.scope = p)
  BY <1>3 DEF Active
<1>6. RowFacts(m) /\ \A j \in DOMAIN mappings : mappings[j].scope \in ScopeNames
  BY <1>5, RowRightFacts DEF GeneratorInv, SourcesRight, RowFacts
<1>7. severity(m.setting) > 0 /\ m.target # Nothing /\ m.target \in TargetsOf(m.source)
  BY <1>4, <1>6 DEF RowFacts, TargetsOf
<1> DEFINE l == IF m.language = "typescript" THEN "typescript" ELSE "javascript"
           o == [language |-> l, policy |-> p, profile |-> "guide"]
<1>8. l \in {"javascript", "typescript"} /\ o.language = l /\ o.policy = p /\ o.profile = "guide"
  OBVIOUS
<1>9. m.language \in {"any", l}
  BY <1>6 DEF RowFacts
<1>10. ~Replacement(m, o)
  BY <1>6, <1>8 DEF Replacement, RowFacts
<1> HIDE DEF o
<1>11. Decides(k, o)
  <2>1. Counts(k, o)
    BY <1>5, <1>6, <1>8, <1>9 DEF Counts, Applies
  <2>2. ASSUME NEW j \in DOMAIN mappings, mappings[j].source = m.source, Counts(j, o)
        PROVE  j <= k
    <3>1. mappings[j].scope \in ScopeNames /\ mappings[j].scope \in {"base", p, "guide"}
      BY <1>8, <2>2 DEF Counts, Applies
    <3>2. mappings[j].scope = "base" \/ (p = "guideline" /\ mappings[j].scope = p)
      BY <3>1 DEF ScopeNames, Policies
    <3>3. j \in A
      BY <1>5, <2>2, <3>2 DEF Active
    <3> QED
      BY <1>3, <3>3
  <2> QED
    BY <1>5, <2>1, <2>2 DEF Decides
<1>12. m.target \in TurnedOn(Preset(o))
  <2>1. TargetFor(m, o) = m.target /\ SettingFor(m, o) = m.setting
    BY <1>10 DEF TargetFor, SettingFor
  <2>2. m.target \in TurnedOn(Preset(o)) <=>
            m.target = TargetFor(m, o) /\ severity(SettingFor(m, o)) > 0
    BY <1>7, <1>8, <1>11, PresetAt
  <2> QED
    BY <1>7, <2>1, <2>2
<1>13. m.source \in rules /\ {m.target, m.typescript.target} \cap
           TurnedOn(Preset([language |-> l, policy |-> p, profile |-> "guide"])) # {}
  BY <1>5, <1>12 DEF o
<1> HIDE DEF l
<1> QED
  BY <1>5, <1>8, <1>13

\* For every draft of the guide, and every size of its tables, the catalog that the generator makes
\* has one answer for both of its readers (mapRule, resolveRule, createConfig, classify).
THEOREM CatalogReadersAgree == GeneratorSpec => []PresetFollowsCatalog
<1>1. ASSUME NEW d \in Drafts, GeneratorInv(d)
      PROVE  PresetFollowsCatalog
  <2>1. ASSUME phase = "generated", NEW c \in draft.clauses, NEW p \in Policies,
               enforcement[c][p] \in {"custom", "javascript", "native"}
        PROVE  classify(c, p) \in {"custom", "javascript", "native"}
    <3>1. enforcement = [x \in draft.clauses |-> [q \in Policies |-> classify(x, q)]]
      BY <1>1, <2>1 DEF GeneratorInv
    <3> QED
      BY <2>1, <3>1
  <2> QED
    BY <1>1, <2>1, OwnersAreOn, ReportedClausesAreOn DEF PresetFollowsCatalog
<1>2. (\E d \in Drafts : GeneratorInv(d)) => PresetFollowsCatalog
  BY <1>1
<1> QED
  BY <1>2, GeneratorInvHolds, PTL
=============================================================================
