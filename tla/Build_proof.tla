------------------------------ MODULE Build_proof ------------------------------
(***************************************************************************)
(* Proofs about Build: the invariants of the cache and of the installer    *)
(* survive their composition, and every link reads whole inputs, for any   *)
(* number of builds, sources, versions and faults.                         *)
(***************************************************************************)
EXTENDS Build, TLAPS

\* The theorems of the two components, about the instances' variables.
CacheP == INSTANCE RuntimeCache_proof
ZigP   == INSTANCE ToolchainInstall_proof
            WITH lock <- zigLock, pc <- zigPc, result <- zigResult

\* The assumptions of the components hold of the composition's constants.
LEMMA PartsAssumptions ==
  CacheP!CacheAssumption /\ ZigP!ProcAssumption /\ ZigP!LayoutAssumption
  BY BuildAssumption
  DEF CacheP!CacheAssumption, ZigP!ProcAssumption, ZigP!LayoutAssumption,
      IsFiniteSet, CacheP!IsFiniteSet

-----------------------------------------------------------------------------
(* The definitions of an instance and of the instance of its proofs agree *)

\* The invariant of the cache.
LEMMA SameCacheInvariant == Cache!CacheInvariant <=> CacheP!CacheInvariant
  BY DEF Cache!CacheInvariant, Cache!TypeOK, Cache!LockHeld, Cache!EntriesWhole,
         Cache!OwnArchiveThere, Cache!TempsAreMine, Cache!Inside, Cache!Own,
         CacheP!CacheInvariant, CacheP!TypeOK, CacheP!LockHeld, CacheP!EntriesWhole,
         CacheP!OwnArchiveThere, CacheP!TempsAreMine, CacheP!Inside, CacheP!Own

\* Locking, sweeping, writing and publishing.
LEMMA SameExtract ==
  ASSUME NEW p \in Proc, Cache!Extract(p) PROVE CacheP!Extract(p)
  <1> USE DEF Cache!Goto, CacheP!Goto, Cache!Own, CacheP!Own, Cache!Files, CacheP!Files
  <1>1. ASSUME Cache!OpenCache(p) PROVE CacheP!OpenCache(p)
    BY <1>1 DEF Cache!OpenCache, CacheP!OpenCache
  <1>2. ASSUME Cache!LockCache(p) PROVE CacheP!LockCache(p)
    BY <1>2 DEF Cache!LockCache, CacheP!LockCache
  <1>3. ASSUME Cache!Sweep(p) PROVE CacheP!Sweep(p)
    BY <1>3 DEF Cache!Sweep, CacheP!Sweep
  <1>4. ASSUME Cache!Swept(p) PROVE CacheP!Swept(p)
    BY <1>4 DEF Cache!Swept, CacheP!Swept
  <1>5. ASSUME Cache!Lookup(p) PROVE CacheP!Lookup(p)
    BY <1>5 DEF Cache!Lookup, CacheP!Lookup, Cache!GiveUp, CacheP!GiveUp
  <1>6. ASSUME Cache!Write(p) PROVE CacheP!Write(p)
    BY <1>6 DEF Cache!Write, CacheP!Write
  <1>7. ASSUME Cache!Publish(p) PROVE CacheP!Publish(p)
    BY <1>7 DEF Cache!Publish, CacheP!Publish
  <1>8. ASSUME Cache!Evict(p) PROVE CacheP!Evict(p)
    BY <1>8 DEF Cache!Evict, CacheP!Evict, Cache!Oldest, CacheP!Oldest, Cache!Remove, CacheP!Remove, Cache!Cardinality, CacheP!Cardinality
  <1>9. ASSUME Cache!Evicted(p) PROVE CacheP!Evicted(p)
    BY <1>9 DEF Cache!Evicted, CacheP!Evicted, Cache!Cardinality, CacheP!Cardinality
  <1> QED BY <1>1, <1>2, <1>3, <1>4, <1>5, <1>6, <1>7, <1>8, <1>9 DEF Cache!Extract, CacheP!Extract

\* A build gives back the lock it holds; a failed call gives it back too.
LEMMA SameFault ==
  ASSUME NEW p \in Proc
  PROVE  /\ Cache!Release(p) => CacheP!Release(p)
         /\ Cache!Fail(p) => CacheP!Fail(p)
  BY DEF Cache!Release, CacheP!Release, Cache!Fail, CacheP!Fail, Cache!GiveUp, CacheP!GiveUp,
         Cache!Goto, CacheP!Goto, Cache!Inside, CacheP!Inside

\* The same for the state after a step.
LEMMA SameCacheInvariantNext == Cache!CacheInvariant' <=> CacheP!CacheInvariant'
  BY DEF Cache!CacheInvariant, Cache!TypeOK, Cache!LockHeld, Cache!EntriesWhole,
         Cache!OwnArchiveThere, Cache!TempsAreMine, Cache!Inside, Cache!Own,
         CacheP!CacheInvariant, CacheP!TypeOK, CacheP!LockHeld, CacheP!EntriesWhole,
         CacheP!OwnArchiveThere, CacheP!TempsAreMine, CacheP!Inside, CacheP!Own

\* The installer's invariant, in the same way.
LEMMA SameInstallInvariant ==
  /\ Zig!InstallInvariant => ZigP!InstallInvariant
  /\ ZigP!InstallInvariant' => Zig!InstallInvariant'
  BY DEF Zig!InstallInvariant, Zig!TypeOK, Zig!LockHeld, Zig!StagedSoFar, Zig!Answered,
         Zig!PublishedWhole, Zig!Critical, Zig!Content,
         ZigP!InstallInvariant, ZigP!TypeOK, ZigP!LockHeld, ZigP!StagedSoFar, ZigP!Answered,
         ZigP!PublishedWhole, ZigP!Critical, ZigP!Content

\* The steps of ensure_zig and its failures.
LEMMA SameInstall ==
  ASSUME NEW p \in Proc, Zig!Step(p) \/ Zig!Fail(p) PROVE ZigP!Step(p) \/ ZigP!Fail(p)
  <1> USE DEF Zig!Goto, ZigP!Goto, Zig!Leave, ZigP!Leave, Zig!ZigExists, ZigP!ZigExists
  <1>1. ASSUME Zig!Open(p) PROVE ZigP!Open(p)
    BY <1>1 DEF Zig!Open, ZigP!Open
  <1>2. ASSUME Zig!Lock(p) PROVE ZigP!Lock(p)
    BY <1>2 DEF Zig!Lock, ZigP!Lock
  <1>3. ASSUME Zig!FindZig(p) PROVE ZigP!FindZig(p)
    BY <1>3 DEF Zig!FindZig, ZigP!FindZig
  <1>4. ASSUME Zig!RefuseBroken(p) PROVE ZigP!RefuseBroken(p)
    BY <1>4 DEF Zig!RefuseBroken, ZigP!RefuseBroken
  <1>5. ASSUME Zig!ClearStaging(p) PROVE ZigP!ClearStaging(p)
    BY <1>5 DEF Zig!ClearStaging, ZigP!ClearStaging, Zig!Leftover, ZigP!Leftover
  <1>6. ASSUME Zig!BeginDownload(p) PROVE ZigP!BeginDownload(p)
    BY <1>6 DEF Zig!BeginDownload, ZigP!BeginDownload
  <1>7. ASSUME Zig!Download(p) PROVE ZigP!Download(p)
    BY <1>7 DEF Zig!Download, ZigP!Download
  <1>8. ASSUME Zig!Verify(p) PROVE ZigP!Verify(p)
    BY <1>8 DEF Zig!Verify, ZigP!Verify
  <1>9. ASSUME Zig!BeginExtract(p) PROVE ZigP!BeginExtract(p)
    BY <1>9 DEF Zig!BeginExtract, ZigP!BeginExtract
  <1>10. ASSUME Zig!Extract(p) PROVE ZigP!Extract(p)
    BY <1>10 DEF Zig!Extract, ZigP!Extract
  <1>11. ASSUME Zig!RemoveArchive(p) PROVE ZigP!RemoveArchive(p)
    BY <1>11 DEF Zig!RemoveArchive, ZigP!RemoveArchive
  <1>12. ASSUME Zig!Install(p) PROVE ZigP!Install(p)
    BY <1>12 DEF Zig!Install, ZigP!Install
  <1>13. ASSUME Zig!Finish(p) PROVE ZigP!Finish(p)
    BY <1>13 DEF Zig!Finish, ZigP!Finish
  <1>14. ASSUME Zig!Fail(p) PROVE ZigP!Fail(p)
    BY <1>14 DEF Zig!Fail, ZigP!Fail, Zig!Critical, ZigP!Critical
  <1> QED
    BY <1>1, <1>2, <1>3, <1>4, <1>5, <1>6, <1>7, <1>8, <1>9, <1>10, <1>11, <1>12, <1>13, <1>14
    DEF Zig!Step, ZigP!Step

-----------------------------------------------------------------------------
(* What a step of a part, and a step elsewhere, does to its invariant *)

\* A step elsewhere leaves the cache and at most counts a fault.
LEMMA CacheFrame ==
  ASSUME Cache!CacheInvariant, UNCHANGED storeVars, faults' \in Nat
  PROVE  Cache!CacheInvariant'
  BY DEF storeVars, Cache!CacheInvariant, Cache!TypeOK, Cache!LockHeld, Cache!EntriesWhole,
         Cache!OwnArchiveThere, Cache!TempsAreMine, Cache!Inside, Cache!Own

\* The same for the installer.
LEMMA ZigFrame ==
  ASSUME Zig!InstallInvariant, UNCHANGED zigVars, faults' \in Nat
  PROVE  Zig!InstallInvariant'
  BY DEF zigVars, Zig!InstallInvariant, Zig!TypeOK, Zig!LockHeld, Zig!StagedSoFar,
         Zig!Answered, Zig!PublishedWhole, Zig!Critical, Zig!Content

\* A step of one build in the cache keeps its invariant and every other build
\* where it is.
LEMMA CacheStep ==
  ASSUME Cache!CacheInvariant, NEW p \in Proc,
         Cache!Extract(p) \/ Cache!Release(p) \/ Cache!Fail(p)
  PROVE  /\ Cache!CacheInvariant'
         /\ faults' \in Nat
         /\ \A q \in Proc \ {p} : cachePc'[q] = cachePc[q]
  <1>1. CacheP!CacheInvariant
    BY SameCacheInvariant
  <1>2. CacheP!Extract(p) \/ CacheP!Release(p) \/ CacheP!Fail(p)
    BY SameExtract, SameFault
  <1>3. CacheP!CacheInvariant'
    <2>1. CASE CacheP!OpenCache(p) \/ CacheP!LockCache(p) \/ CacheP!Release(p)
      BY <1>1, <2>1, PartsAssumptions, CacheP!LockingKeepsInvariant
    <2>2. CASE CacheP!Sweep(p) \/ CacheP!Swept(p) \/ CacheP!Lookup(p) \/ CacheP!Write(p)
               \/ CacheP!Publish(p)
      BY <1>1, <2>2, PartsAssumptions, CacheP!HolderKeepsInvariant
    <2>3. CASE CacheP!Evict(p) \/ CacheP!Evicted(p)
      BY <1>1, <2>3, PartsAssumptions, CacheP!EvictionKeepsInvariant
    <2>4. CASE CacheP!Fail(p)
      BY <1>1, <2>4, PartsAssumptions, CacheP!FaultKeepsInvariant
    <2> QED BY <1>2, <2>1, <2>2, <2>3, <2>4 DEF CacheP!Extract
  <1>4. \A q \in Proc \ {p} : cachePc'[q] = cachePc[q]
    BY <1>1, <1>2
    DEF CacheP!CacheInvariant, CacheP!TypeOK, CacheP!Extract, CacheP!OpenCache,
        CacheP!LockCache, CacheP!Sweep, CacheP!Swept, CacheP!Lookup, CacheP!Write,
        CacheP!Publish, CacheP!Evict, CacheP!Evicted, CacheP!Release, CacheP!Fail,
        CacheP!GiveUp, CacheP!Goto
  <1> QED
    BY <1>3, <1>4, SameCacheInvariantNext DEF Cache!CacheInvariant, Cache!TypeOK

\* A step of one build in ensure_zig keeps its invariant and every other
\* build's answer.
LEMMA ZigStep ==
  ASSUME Zig!InstallInvariant, NEW p \in Proc, Zig!Step(p) \/ Zig!Fail(p)
  PROVE  /\ Zig!InstallInvariant'
         /\ faults' \in Nat
         /\ \A q \in Proc \ {p} : zigResult'[q] = zigResult[q]
  <1>1. ZigP!InstallInvariant
    BY SameInstallInvariant
  <1>2. ZigP!Step(p) \/ ZigP!Fail(p)
    BY SameInstall
  <1>3. ZigP!InstallInvariant'
    <2>1. CASE ZigP!Open(p) \/ ZigP!Lock(p)
      BY <1>1, <2>1, PartsAssumptions, ZigP!EnterKeepsInvariant
    <2>2. CASE ZigP!ClearStaging(p) \/ ZigP!BeginDownload(p) \/ ZigP!Download(p)
               \/ ZigP!BeginExtract(p) \/ ZigP!Extract(p) \/ ZigP!RemoveArchive(p)
      BY <1>1, <2>2, PartsAssumptions, ZigP!StagingKeepsInvariant
    <2>3. CASE ZigP!FindZig(p) \/ ZigP!RefuseBroken(p) \/ ZigP!Verify(p) \/ ZigP!Install(p)
               \/ ZigP!Finish(p)
      BY <1>1, <2>3, PartsAssumptions, ZigP!ReturnKeepsInvariant
    <2>4. CASE ZigP!Fail(p)
      BY <1>1, <2>4, PartsAssumptions, ZigP!FaultKeepsInvariant
    <2> QED BY <1>2, <2>1, <2>2, <2>3, <2>4 DEF ZigP!Step
  <1>4. \A q \in Proc \ {p} : zigResult'[q] = zigResult[q]
    BY <1>1, <1>2
    DEF ZigP!InstallInvariant, ZigP!TypeOK, ZigP!Step, ZigP!Open, ZigP!Lock, ZigP!FindZig,
        ZigP!RefuseBroken, ZigP!ClearStaging, ZigP!BeginDownload, ZigP!Download, ZigP!Verify,
        ZigP!BeginExtract, ZigP!Extract, ZigP!RemoveArchive, ZigP!Install, ZigP!Finish,
        ZigP!Fail, ZigP!Leave
  <1> QED
    BY <1>3, <1>4, SameInstallInvariant DEF Zig!InstallInvariant, Zig!TypeOK

\* A build may die anywhere, the cache lock and the install lock both in hand.
LEMMA DeathKeepsParts ==
  ASSUME Cache!CacheInvariant, Zig!InstallInvariant, NEW p \in Proc,
         Cache!Dies(p), Zig!Dies(p), faults' \in Nat
  PROVE  Cache!CacheInvariant' /\ Zig!InstallInvariant'
  <1>1. Cache!CacheInvariant'
    BY BuildAssumption
    DEF Cache!Dies, Cache!CacheInvariant, Cache!TypeOK, Cache!LockHeld, Cache!EntriesWhole,
        Cache!OwnArchiveThere, Cache!TempsAreMine, Cache!Inside, Cache!Own
  <1>2. Zig!InstallInvariant'
    BY BuildAssumption
    DEF Zig!Dies, Zig!InstallInvariant, Zig!TypeOK, Zig!LockHeld, Zig!StagedSoFar,
        Zig!Answered, Zig!PublishedWhole, Zig!Critical, Zig!Content
  <1> QED BY <1>1, <1>2

-----------------------------------------------------------------------------
(* The invariant of the composition *)

\* Where a build is.
Places == {"idle", "extract", "install", "link", "linked", "clean", "ok", "failed"}

\* The cache lock is kept from the extraction to the end of the link, and the
\* linker is only reached with a toolchain.
LinkHolds ==
  \A p \in Proc :
    /\ buildPc[p] \in {"install", "link"} => cachePc[p] = "holding"
    /\ buildPc[p] = "link" => zigResult[p] = "ok"

BuildInvariant ==
  /\ Cache!CacheInvariant /\ Zig!InstallInvariant
  /\ buildPc \in [Proc -> Places]
  /\ LinkHolds

\* No build has begun.
LEMMA InitInvariant == Init => BuildInvariant
  <1> SUFFICES ASSUME Init PROVE BuildInvariant
    OBVIOUS
  <1>1. Cache!CacheInvariant
    BY BuildAssumption
    DEF Init, Cache!Init, Cache!CacheInvariant, Cache!TypeOK, Cache!LockHeld,
        Cache!EntriesWhole, Cache!OwnArchiveThere, Cache!TempsAreMine, Cache!Inside, Cache!Own
  <1>2. Zig!InstallInvariant
    BY BuildAssumption
    DEF Init, Zig!Init, Zig!InstallInvariant, Zig!TypeOK, Zig!LockHeld, Zig!StagedSoFar,
        Zig!Answered, Zig!PublishedWhole, Zig!Critical, Zig!Content
  <1> QED BY <1>1, <1>2 DEF Init, BuildInvariant, LinkHolds, Places

\* The steps of build_file between the calls it makes.
LEMMA OwnStepKeepsInvariant ==
  ASSUME BuildInvariant, NEW p \in Proc,
         \/ WriteObject(p) \/ Extracted(p) \/ NotExtracted(p) \/ Installed(p)
         \/ NotInstalled(p) \/ Link(p) \/ Clean(p)
  PROVE  BuildInvariant'
  <1>1. UNCHANGED <<storeVars, zigVars>>
    BY DEF WriteObject, Extracted, NotExtracted, Installed, NotInstalled, Link, Clean
  <1>2. faults' \in Nat
    BY DEF WriteObject, Extracted, NotExtracted, Installed, NotInstalled, Link, Clean,
           BuildInvariant, Cache!CacheInvariant, Cache!TypeOK
  <1>3. Cache!CacheInvariant' /\ Zig!InstallInvariant'
    BY <1>1, <1>2, CacheFrame, ZigFrame DEF BuildInvariant
  <1>4. buildPc' \in [Proc -> Places] /\ LinkHolds'
    BY <1>1
    DEF WriteObject, Extracted, NotExtracted, Installed, NotInstalled, Link, Clean, Goto,
        BuildInvariant, LinkHolds, Places, storeVars, zigVars
  <1> QED BY <1>3, <1>4 DEF BuildInvariant

\* The calls of extract_runtime_to_cache and the end of its lock.
LEMMA StoreStepKeepsInvariant ==
  ASSUME BuildInvariant, NEW p \in Proc, Extract(p) \/ Unlock(p)
  PROVE  BuildInvariant'
  <1> USE DEF BuildInvariant
  <1>1. CASE Extract(p)
    <2>1. Cache!CacheInvariant' /\ faults' \in Nat /\ \A q \in Proc \ {p} : cachePc'[q] = cachePc[q]
      BY <1>1, CacheStep DEF Extract
    <2>2. Zig!InstallInvariant'
      BY <1>1, <2>1, ZigFrame DEF Extract
    <2>3. LinkHolds'
      BY <1>1, <2>1 DEF Extract, LinkHolds, ownVars, zigVars
    <2> QED BY <1>1, <2>1, <2>2, <2>3 DEF Extract, ownVars
  <1>2. CASE Unlock(p)
    <2>1. Cache!CacheInvariant' /\ faults' \in Nat /\ \A q \in Proc \ {p} : cachePc'[q] = cachePc[q]
      <3>1. CASE cachePc[p] = "holding"
        BY <1>2, <3>1, CacheStep DEF Unlock
      <3>2. CASE cachePc[p] # "holding"
        <4>1. UNCHANGED storeVars /\ faults' \in Nat
          BY <1>2, <3>2 DEF Unlock, Cache!CacheInvariant, Cache!TypeOK
        <4> QED BY <4>1, CacheFrame DEF storeVars
      <3> QED BY <3>1, <3>2
    <2>2. Zig!InstallInvariant'
      BY <1>2, <2>1, ZigFrame DEF Unlock
    <2>3. buildPc' \in [Proc -> Places] /\ LinkHolds'
      BY <1>2, <2>1 DEF Unlock, Goto, LinkHolds, Places, zigVars
    <2> QED BY <2>1, <2>2, <2>3
  <1> QED BY <1>1, <1>2

\* The calls of ensure_zig, made under the cache lock.
LEMMA InstallStepKeepsInvariant ==
  ASSUME BuildInvariant, NEW p \in Proc, Install(p)
  PROVE  BuildInvariant'
  <1> USE DEF BuildInvariant
  <1>1. Zig!InstallInvariant' /\ faults' \in Nat /\ \A q \in Proc \ {p} : zigResult'[q] = zigResult[q]
    BY ZigStep DEF Install
  <1>2. Cache!CacheInvariant'
    BY <1>1, CacheFrame DEF Install
  <1>3. LinkHolds'
    BY <1>1 DEF Install, LinkHolds, ownVars, storeVars
  <1> QED BY <1>1, <1>2, <1>3 DEF Install, ownVars

\* A build dies and is started again.
LEMMA CrashKeepsInvariant ==
  ASSUME BuildInvariant, NEW p \in Proc, Crash(p)
  PROVE  BuildInvariant'
  <1> USE DEF BuildInvariant
  <1>1. faults' \in Nat
    BY DEF Crash, Cache!CacheInvariant, Cache!TypeOK
  <1>2. Cache!CacheInvariant' /\ Zig!InstallInvariant'
    BY <1>1, DeathKeepsParts DEF Crash
  <1>3. buildPc' \in [Proc -> Places] /\ LinkHolds'
    BY DEF Crash, Cache!Dies, Zig!Dies, Places, LinkHolds, Cache!CacheInvariant, Cache!TypeOK,
           Zig!InstallInvariant, Zig!TypeOK
  <1> QED BY <1>2, <1>3

\* Every step of any build, failed calls and deaths included.
LEMMA StepKeepsInvariant == BuildInvariant /\ [Next]_buildVars => BuildInvariant'
  <1> SUFFICES ASSUME BuildInvariant, [Next]_buildVars PROVE BuildInvariant'
    OBVIOUS
  <1>1. ASSUME NEW p \in Proc, Step(p) \/ Crash(p) PROVE BuildInvariant'
    BY <1>1, OwnStepKeepsInvariant, StoreStepKeepsInvariant, InstallStepKeepsInvariant,
       CrashKeepsInvariant
    DEF Step
  <1>2. CASE UNCHANGED buildVars
    <2>1. UNCHANGED <<storeVars, zigVars, buildPc>> /\ faults' \in Nat
      BY <1>2 DEF buildVars, ownVars, BuildInvariant, Cache!CacheInvariant, Cache!TypeOK
    <2>2. Cache!CacheInvariant' /\ Zig!InstallInvariant'
      BY <2>1, CacheFrame, ZigFrame DEF BuildInvariant
    <2>3. LinkHolds'
      BY <2>1 DEF BuildInvariant, LinkHolds, storeVars, zigVars
    <2> QED BY <2>1, <2>2, <2>3 DEF BuildInvariant
  <1> QED BY <1>1, <1>2 DEF Next, Over

\* The cache and the installer keep their invariants inside a build, and no
\* build reaches the linker without both.
THEOREM BuildInvariance == Spec => []BuildInvariant
  <1> QED BY InitInvariant, StepKeepsInvariant, PTL DEF Spec

\* Every link reads a whole archive of its own version and runs a whole
\* toolchain, for any number of concurrent builds.
THEOREM WholeInputs == Spec => []LinksWholeInputs
  <1>1. BuildInvariant => LinksWholeInputs
    BY DEF BuildInvariant, LinkHolds, LinksWholeInputs, Cache!CacheInvariant,
           Cache!OwnArchiveThere, Cache!Own, Zig!InstallInvariant, Zig!Answered
  <1> QED BY <1>1, BuildInvariance, PTL
-----------------------------------------------------------------------------
(* The object files of builds of different sources *)

\* Where a build is between writing its object and removing it.
Building == {"extract", "install", "link", "linked", "clean"}

\* A build finds its own object where it wrote it until it removes it, it tries
\* the link only with the lock in hand and lets go of it after, and one that has
\* tried the link leaves no object behind.
ObjectsApart ==
  \A p \in Proc :
    /\ buildPc[p] \in Building => object[ObjectOf(p)] = p
    /\ buildPc[p] = "linked" => cachePc[p] = "holding"
    /\ p \notin KeepObj /\ (buildPc[p] = "ok" \/ (buildPc[p] = "failed" /\ cachePc[p] = "done"))
         => object[ObjectOf(p)] # p

ObjectInvariant == BuildInvariant /\ object \in [Source -> Proc \cup {NoProc}] /\ ObjectsApart

\* Every process builds a source of its own.
OwnSource == \A p, q \in Proc : SourceOf[p] = SourceOf[q] => p = q

\* A step of one build leaves every other where it is.
LEMMA OthersStay ==
  ASSUME BuildInvariant, NEW p \in Proc, Step(p) \/ Crash(p)
  PROVE  \A q \in Proc \ {p} : buildPc'[q] = buildPc[q] /\ cachePc'[q] = cachePc[q]
  <1>1. ASSUME Extract(p) \/ Unlock(p) PROVE \A q \in Proc \ {p} : cachePc'[q] = cachePc[q]
    BY <1>1, CacheStep DEF Extract, Unlock, BuildInvariant, storeVars
  <1>2. ASSUME Crash(p) PROVE \A q \in Proc \ {p} : cachePc'[q] = cachePc[q]
    BY <1>2 DEF Crash, Cache!Dies, BuildInvariant, Cache!CacheInvariant, Cache!TypeOK
  <1>3. ASSUME ~(Extract(p) \/ Unlock(p) \/ Crash(p)) PROVE UNCHANGED cachePc
    BY <1>3 DEF Step, WriteObject, Extracted, NotExtracted, Install, Installed, NotInstalled,
                Link, Clean, storeVars
  <1>4. \A q \in Proc \ {p} : buildPc'[q] = buildPc[q]
    BY DEF Step, Crash, WriteObject, Extract, Extracted, NotExtracted, Install, Installed,
           NotInstalled, Link, Unlock, Clean, Goto, BuildInvariant, ownVars
  <1> QED BY <1>1, <1>2, <1>3, <1>4

\* Nor does it touch the object of another source.
LEMMA OthersObject ==
  ASSUME ObjectInvariant, OwnSource, NEW p \in Proc, Step(p) \/ Crash(p)
  PROVE  /\ object' \in [Source -> Proc \cup {NoProc}]
         /\ \A q \in Proc \ {p} : object'[ObjectOf(q)] = object[ObjectOf(q)]
  <1>1. \A q \in Proc : ObjectOf(q) \in Source /\ (q # p => ObjectOf(q) # ObjectOf(p))
    BY BuildAssumption DEF OwnSource, ObjectOf
  <1>2. \/ UNCHANGED object
        \/ \E v \in Proc \cup {NoProc} : object' = [object EXCEPT ![ObjectOf(p)] = v]
    BY DEF Step, Crash, WriteObject, Extract, Extracted, NotExtracted, Install, Installed,
           NotInstalled, Link, Unlock, Clean, ownVars
  <1> QED BY <1>1, <1>2 DEF ObjectInvariant

\* What a build's own step does to what is claimed of it.
LEMMA OwnObjectKept ==
  ASSUME ObjectInvariant, NEW p \in Proc, Step(p) \/ Crash(p)
  PROVE  /\ buildPc'[p] \in Building => object'[ObjectOf(p)] = p
         /\ buildPc'[p] = "linked" => cachePc'[p] = "holding"
         /\ p \notin KeepObj /\ (buildPc'[p] = "ok" \/ (buildPc'[p] = "failed" /\ cachePc'[p] = "done"))
              => object'[ObjectOf(p)] # p
  <1> USE DEF ObjectInvariant, ObjectsApart, Building
  <1>0. ObjectOf(p) \in Source /\ NoProc # p /\ buildPc \in [Proc -> Places]
    BY BuildAssumption DEF ObjectOf, BuildInvariant
  <1>1. CASE WriteObject(p) \/ Crash(p)
    BY <1>0, <1>1 DEF WriteObject, Crash, Goto
  <1>2. CASE Extract(p) \/ Install(p)
    BY <1>0, <1>2 DEF Extract, Install, ownVars
  <1>3. CASE Extracted(p) \/ NotExtracted(p) \/ Installed(p) \/ NotInstalled(p) \/ Link(p)
    BY <1>0, <1>3 DEF Extracted, NotExtracted, Installed, NotInstalled, Link, Goto, LinkHolds,
                      BuildInvariant, storeVars
  <1>4. CASE Unlock(p)
    BY <1>0, <1>4 DEF Unlock, Goto
  <1>5. CASE Clean(p)
    BY <1>0, <1>5 DEF Clean, Goto
  <1> QED BY <1>1, <1>2, <1>3, <1>4, <1>5 DEF Step

\* Every step keeps the objects of builds of different sources apart.
LEMMA StepKeepsObjects ==
  ASSUME OwnSource, ObjectInvariant, [Next]_buildVars
  PROVE  ObjectInvariant'
  <1>1. BuildInvariant'
    BY StepKeepsInvariant DEF ObjectInvariant
  <1>2. ASSUME NEW p \in Proc, Step(p) \/ Crash(p) PROVE ObjectInvariant'
    <2>1. BuildInvariant
      BY DEF ObjectInvariant
    <2> QED
      BY <1>1, <1>2, <2>1, OthersStay, OthersObject, OwnObjectKept
      DEF ObjectInvariant, ObjectsApart, ObjectOf
  <1>3. CASE UNCHANGED buildVars
    BY <1>1, <1>3 DEF ObjectInvariant, ObjectsApart, ObjectOf, buildVars, ownVars, storeVars
  <1> QED BY <1>2, <1>3 DEF Next, Over

\* Builds of different sources never link one another's object file, and one
\* whose link has been tried removes its own, for any number of builds, crashes
\* and failed calls.
THEOREM OwnObjects == ASSUME OwnSource PROVE Spec => []OwnObjectUntilLinked
  <1>1. Init => ObjectInvariant
    BY InitInvariant, BuildAssumption DEF Init, ObjectInvariant, ObjectsApart, Building
  <1>2. ObjectInvariant /\ [Next]_buildVars => ObjectInvariant'
    BY StepKeepsObjects
  <1>3. ObjectInvariant => OwnObjectUntilLinked
    BY DEF ObjectInvariant, ObjectsApart, OwnObjectUntilLinked, Building
  <1> QED BY <1>1, <1>2, <1>3, PTL DEF Spec
=============================================================================
