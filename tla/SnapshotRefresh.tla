--------------------------- MODULE SnapshotRefresh ---------------------------
(***************************************************************************)
(* The frozen inputs of the repository: refresh.ts renews them in many     *)
(* steps, each of which can fail or be the last one before the process     *)
(* dies, and check.ts later decides whether they are what the lock says.   *)
(*                                                                         *)
(* The lock (sources.json) pins a revision of the guide and the version of *)
(* the rule sources, of which there is one here, with the digest of its    *)
(* archive.  A file is what it was made from; a hash is the file itself.   *)
(***************************************************************************)
EXTENDS Naturals, Sequences

CONSTANTS
    Revisions,          \* of the guide
    SampleOf,           \* the sample in a revision of the guide
    PortedSamples,      \* the samples that the reviewed patches fit
    Archives,           \* contents of archives
    ArchivesOf,         \* what the archive of a version may be
    PortedArchives,     \* the archives that the recipes fit
    VendorFiles,        \* the isolated sources
    MaxRuns             \* bounds the refreshes and the edits of the lock

VARIABLES
    head,           \* the newest revision of the guide
    served,         \* the archive that is served for a version
    frozen,         \* the files of the repository
    checkout,       \* the extracted archive, in the cache
    memory,         \* the lock that the refresh works on
    fetched,        \* the revision whose texts it has
    stepAt,         \* its next step; 0 when none runs
    vendored,       \* the isolated sources that it has written
    runs,           \* refreshes and edits so far
    verdict         \* of the last check, until something happens

refreshVars ==
    <<head, served, frozen, checkout, memory, fetched, stepAt, vendored, runs, verdict>>

Unread == "unread"
Versions == DOMAIN ArchivesOf
Port(sample) == <<"port", sample>>
Catalog(d) == <<d.guide, d.sample, d.vendor, d.airbnb>>
Lock(revision, version, digest) == [guide |-> revision, version |-> version, digest |-> digest]

\* What integrity.ts hashes: the lock and every frozen file, not the catalog.
Hashes(d) ==
    [lock |-> d.lock, vendor |-> d.vendor, guide |-> d.guide, sample |-> d.sample, port |-> d.port,
     airbnb |-> d.airbnb, corpus |-> d.corpus]

\* The files that a complete refresh with this lock leaves.
Refreshed(lock) ==
    LET made == [lock |-> lock, vendor |-> [f \in VendorFiles |-> lock.digest], guide |-> lock.guide,
                 sample |-> SampleOf[lock.guide], port |-> Port(SampleOf[lock.guide]),
                 airbnb |-> lock.version, corpus |-> [of |-> lock.digest, failures |-> FALSE]]
    IN  [lock |-> made.lock, vendor |-> made.vendor, guide |-> made.guide, sample |-> made.sample,
         port |-> made.port, airbnb |-> made.airbnb, corpus |-> made.corpus,
         catalog |-> Catalog(made), manifest |-> Hashes(made)]

RefreshInit ==
    /\ \E r \in Revisions, v \in Versions, a \in PortedArchives :
        /\ SampleOf[r] \in PortedSamples /\ a \in ArchivesOf[v]
        /\ frozen = Refreshed(Lock(r, v, a))
        /\ head = r /\ memory = Lock(r, v, a)
    /\ served \in {s \in [Versions -> Archives] : \A v \in Versions : s[v] \in ArchivesOf[v]}
    /\ checkout = Unread /\ fetched = Unread /\ stepAt = 0 /\ vendored = {} /\ runs = 0
    /\ verdict = "none"

\* Faulty variant: the hashes are recorded before the fixtures are imported.
EarlyOrder ==
    <<"download", "fetch", "vendor", "guide", "sample", "port", "lock", "airbnb", "catalog", "build",
      "record", "import">>

Order ==
    <<"download", "fetch", "vendor", "guide", "sample", "port", "lock", "airbnb", "catalog", "build",
      "import", "record">>

\* Outside: the guide moves on, a tag is moved, a maintainer edits the lock or takes that back.
UpstreamMoves ==
    /\ runs < MaxRuns /\ runs' = runs + 1
    /\ \/ head' \in Revisions \ {head} /\ UNCHANGED served
       \/ /\ \E v \in Versions, a \in Archives :
                a \in ArchivesOf[v] /\ served' = [served EXCEPT ![v] = a]
          /\ served' # served /\ UNCHANGED head
    /\ UNCHANGED <<frozen, checkout, memory, fetched, stepAt, vendored, verdict>>
EditLock ==
    /\ stepAt = 0 /\ runs < MaxRuns /\ runs' = runs + 1
    /\ \E v \in Versions, d \in Archives \cup {Unread} :
        /\ d = Unread \/ d \in ArchivesOf[v]
        /\ frozen' = [frozen EXCEPT !.lock.version = v, !.lock.digest = d]
    /\ frozen' # frozen /\ verdict' = "none"
    /\ UNCHANGED <<head, served, checkout, memory, fetched, stepAt, vendored>>

\* The lock is read, and with --latest-guide moved to the newest revision, in memory.
StartRefresh ==
    /\ stepAt = 0 /\ runs < MaxRuns /\ runs' = runs + 1
    /\ \E latest \in BOOLEAN :
        memory' = IF latest THEN [frozen.lock EXCEPT !.guide = head] ELSE frozen.lock
    /\ fetched' = Unread /\ vendored' = {} /\ stepAt' = 1 /\ verdict' = "none"
    /\ UNCHANGED <<head, served, frozen, checkout>>

AtStep(step) == stepAt > 0 /\ Order[stepAt] = step
StepDone == stepAt' = IF stepAt = Len(Order) THEN 0 ELSE stepAt + 1

\* Any step can fail on its own account, or the process is killed.
GiveUp ==
    /\ stepAt > 0 /\ stepAt' = 0
    /\ UNCHANGED <<head, served, frozen, checkout, memory, fetched, vendored, runs, verdict>>

\* The archive must have the digest of the lock; only --record-archives records a missing one.
Download ==
    /\ AtStep("download")
    /\ LET archive == served[memory.version]
       IN  \/ /\ memory.digest \in {archive, Unread}
              /\ memory' = [memory EXCEPT !.digest = archive]
              /\ checkout' = archive
              /\ StepDone
           \/ /\ memory.digest # archive
              /\ stepAt' = 0 /\ UNCHANGED <<memory, checkout>>
    /\ UNCHANGED <<head, served, frozen, fetched, vendored, runs, verdict>>

\* The texts of the guide, whose sample must still be portable.
Fetch ==
    /\ AtStep("fetch")
    /\ fetched' = memory.guide
    /\ IF SampleOf[memory.guide] \in PortedSamples THEN StepDone ELSE stepAt' = 0
    /\ UNCHANGED <<head, served, frozen, checkout, memory, vendored, runs, verdict>>

\* vendor.ts: nothing is written unless every recipe fits; then one file after the other.
Vendor ==
    /\ AtStep("vendor")
    /\ IF checkout \notin PortedArchives THEN stepAt' = 0 /\ UNCHANGED <<frozen, vendored>>
       ELSE /\ \E f \in VendorFiles \ vendored :
                frozen' = [frozen EXCEPT !.vendor[f] = checkout] /\ vendored' = vendored \cup {f}
            /\ IF vendored' = VendorFiles THEN StepDone ELSE UNCHANGED stepAt
    /\ UNCHANGED <<head, served, checkout, memory, fetched, runs, verdict>>

\* The frozen texts and the lock; the catalog and what is inherited; and the build.
WriteFrozen ==
    /\ \/ AtStep("guide") /\ frozen' = [frozen EXCEPT !.guide = fetched]
       \/ AtStep("sample") /\ frozen' = [frozen EXCEPT !.sample = SampleOf[fetched]]
       \/ AtStep("port") /\ frozen' = [frozen EXCEPT !.port = Port(SampleOf[fetched])]
       \/ AtStep("lock") /\ frozen' = [frozen EXCEPT !.lock = memory]
       \/ AtStep("airbnb") /\ frozen' = [frozen EXCEPT !.airbnb = frozen.lock.version]
       \/ AtStep("catalog") /\ frozen' = [frozen EXCEPT !.catalog = Catalog(frozen)]
       \/ AtStep("build") /\ UNCHANGED frozen
    /\ StepDone
    /\ UNCHANGED <<head, served, checkout, memory, fetched, vendored, runs, verdict>>

\* The corpus and its report are written even when fixtures could not be captured.
Import ==
    /\ AtStep("import")
    /\ \E failed \in BOOLEAN :
        /\ frozen' = [frozen EXCEPT !.corpus = [of |-> checkout, failures |-> failed]]
        /\ IF failed THEN stepAt' = 0 ELSE StepDone
    /\ UNCHANGED <<head, served, checkout, memory, fetched, vendored, runs, verdict>>

\* integrity.ts --write: the manifest is written before the corpus is looked at.
Record ==
    /\ AtStep("record")
    /\ IF frozen.port # Port(frozen.sample) THEN stepAt' = 0 /\ UNCHANGED frozen
       ELSE /\ frozen' = [frozen EXCEPT !.manifest = Hashes(frozen)]
            /\ IF frozen.corpus.failures THEN stepAt' = 0 ELSE StepDone
    /\ UNCHANGED <<head, served, checkout, memory, fetched, vendored, runs, verdict>>

\* catalog:check and snapshots:check, as check.ts runs them.
Check ==
    /\ stepAt = 0 /\ verdict = "none"
    /\ verdict' = IF /\ frozen.catalog = Catalog(frozen)
                     /\ frozen.airbnb = frozen.lock.version
                     /\ frozen.port = Port(frozen.sample)
                     /\ frozen.manifest = Hashes(frozen)
                     /\ ~frozen.corpus.failures
                  THEN "passed" ELSE "failed"
    /\ UNCHANGED <<head, served, frozen, checkout, memory, fetched, stepAt, vendored, runs>>

RefreshNext ==
    \/ UpstreamMoves \/ EditLock \/ StartRefresh \/ GiveUp
    \/ Download \/ Fetch \/ Vendor \/ WriteFrozen \/ Import \/ Record
    \/ Check

-----------------------------------------------------------------------------

\* What passes the check is what a complete refresh of the lock leaves, from the archive with its
\* digest: wherever a refresh stopped, and whatever was served meanwhile, no mixture of two
\* revisions passes (refresh, vendor, integrity, check).
CheckedIsComplete == verdict = "passed" => frozen = Refreshed(frozen.lock)
=============================================================================
