-------------------------- MODULE RuntimeCache_proof --------------------------
(***************************************************************************)
(* Proofs about RuntimeCache, for any number of builds and versions, any   *)
(* bound on the archives and any number of faults.                         *)
(***************************************************************************)
EXTENDS RuntimeCache, TLAPS

\* Everything a step of the specification can be.
Acts(p) == Extract(p) \/ Release(p) \/ Fail(p) \/ Crash(p)

\* The cache as the first build finds it.
LEMMA InitInvariant == Init => CacheInvariant
  BY CacheAssumption
  DEF Init, CacheInvariant, TypeOK, LockHeld, EntriesWhole, OwnArchiveThere, TempsAreMine,
      Inside, Own

\* Waiting, and taking and giving back the lock, touch no file.
LEMMA LockingKeepsInvariant ==
  ASSUME CacheInvariant, NEW p \in Proc, OpenCache(p) \/ LockCache(p) \/ Release(p)
  PROVE  CacheInvariant'
  <1> USE CacheAssumption
      DEF CacheInvariant, TypeOK, LockHeld, EntriesWhole, OwnArchiveThere, TempsAreMine,
          Inside, Own, Goto
  <1>1. CASE OpenCache(p)  BY <1>1 DEF OpenCache
  <1>2. CASE LockCache(p)  BY <1>2 DEF LockCache
  <1>3. CASE Release(p)    BY <1>3 DEF Release
  <1> QED BY <1>1, <1>2, <1>3

\* The steps of the holder: it sweeps, writes to its own temporary file and
\* publishes that when it is whole.
LEMMA HolderKeepsInvariant ==
  ASSUME CacheInvariant, NEW p \in Proc,
         Sweep(p) \/ Swept(p) \/ Lookup(p) \/ Write(p) \/ Publish(p)
  PROVE  CacheInvariant'
  <1> USE CacheAssumption
      DEF CacheInvariant, TypeOK, LockHeld, EntriesWhole, OwnArchiveThere, TempsAreMine,
          Inside, Own, Goto
  <1>1. CASE Sweep(p)    BY <1>1 DEF Sweep
  <1>2. CASE Swept(p)    BY <1>2 DEF Swept
  <1>3. CASE Lookup(p)   BY <1>3 DEF Lookup, GiveUp, Files
  <1>4. CASE Write(p)    BY <1>4 DEF Write
  <1>5. CASE Publish(p)  BY <1>5 DEF Publish
  <1> QED BY <1>1, <1>2, <1>3, <1>4, <1>5

\* Eviction passes the own archive over.
LEMMA EvictionKeepsInvariant ==
  ASSUME CacheInvariant, NEW p \in Proc, Evict(p) \/ Evicted(p)
  PROVE  CacheInvariant'
  <1> USE CacheAssumption
      DEF CacheInvariant, TypeOK, LockHeld, EntriesWhole, OwnArchiveThere, TempsAreMine,
          Inside, Own, Goto
  <1>1. CASE Evict(p)    BY <1>1 DEF Evict, Oldest, Remove, Files
  <1>2. CASE Evicted(p)  BY <1>2 DEF Evicted
  <1> QED BY <1>1, <1>2

\* A failed call and a crash give the lock back, and leave the files.
LEMMA FaultKeepsInvariant ==
  ASSUME CacheInvariant, NEW p \in Proc, Fail(p) \/ Crash(p)
  PROVE  CacheInvariant'
  <1> USE CacheAssumption
      DEF CacheInvariant, TypeOK, LockHeld, EntriesWhole, OwnArchiveThere, TempsAreMine,
          Inside, Own
  <1>1. CASE Fail(p)   BY <1>1 DEF Fail, GiveUp
  <1>2. CASE Crash(p)  BY <1>2 DEF Crash, Dies
  <1> QED BY <1>1, <1>2

\* No step of the specification leaves the invariant.
LEMMA StepKeepsInvariant == CacheInvariant /\ [Next]_cacheVars => CacheInvariant'
  <1> SUFFICES ASSUME CacheInvariant, [Next]_cacheVars PROVE CacheInvariant'
    OBVIOUS
  <1>1. ASSUME NEW p \in Proc, Acts(p) PROVE CacheInvariant'
    BY <1>1, LockingKeepsInvariant, HolderKeepsInvariant, EvictionKeepsInvariant,
       FaultKeepsInvariant
    DEF Acts, Extract
  <1>2. CASE Ended \/ UNCHANGED cacheVars
    BY <1>2 DEF Ended, cacheVars, CacheInvariant, TypeOK, LockHeld, EntriesWhole,
                OwnArchiveThere, TempsAreMine, Own
  <1> QED BY <1>1, <1>2 DEF Next, Acts

\* One build at a time works on the cache, and what is published is whole:
\* cache_lock is held from the sweep to the end of the link.
THEOREM CacheInvariance == Spec => []CacheInvariant
  <1> QED BY InitInvariant, StepKeepsInvariant, PTL DEF Spec

-----------------------------------------------------------------------------
(* Eviction *)

\* Whoever holds the lock after eviction is the only one that could add an
\* archive, and it does not.
LEMMA StepKeepsBound ==
  ASSUME CacheInvariant, CacheBounded, [Next]_cacheVars
  PROVE  CacheBounded'
  <1> USE DEF CacheBounded, Goto
  <1>1. ASSUME NEW p \in Proc, OpenCache(p) \/ LockCache(p) \/ Sweep(p) \/ Swept(p) \/ Lookup(p)
                               \/ Release(p) \/ Fail(p) \/ Crash(p)
        PROVE  CacheBounded'
    <2>1. UNCHANGED entry
      BY <1>1 DEF OpenCache, LockCache, Sweep, Swept, Lookup, Release, Fail, Crash, Dies
    <2>2. Files' = Files
      BY <2>1 DEF Files
    <2>3. \A q \in Proc : cachePc'[q] = "holding" => cachePc[q] = "holding"
      BY <1>1 DEF CacheInvariant, TypeOK, OpenCache, LockCache, Sweep, Swept, Lookup, Release,
                  Fail, Crash, Dies, GiveUp
    <2> QED BY <2>2, <2>3
  <1>2. ASSUME NEW p \in Proc, Write(p) \/ Publish(p) \/ Evict(p)
        PROVE  CacheBounded'
    <2>1. cachePc[p] \in Inside \ {"holding"} /\ cacheLock = p
      BY <1>2 DEF Write, Publish, Evict, CacheInvariant, LockHeld, Inside
    <2>2. \A q \in Proc : cachePc[q] # "holding"
      BY <2>1 DEF CacheInvariant, LockHeld, Inside
    <2>3. \A q \in Proc : cachePc'[q] # "holding"
      BY <1>2, <2>2 DEF Write, Publish, Evict, CacheInvariant, TypeOK
    <2> QED BY <2>3
  <1>3. ASSUME NEW p \in Proc, Evicted(p) PROVE CacheBounded'
    <2>1. Files' = Files
      BY <1>3 DEF Evicted, Files
    <2> QED BY <1>3, <2>1 DEF Evicted
  <1>4. CASE Ended \/ UNCHANGED cacheVars
    <2>1. Files' = Files
      BY <1>4 DEF Ended, cacheVars, Files
    <2> QED BY <1>4, <2>1 DEF Ended, cacheVars
  <1> QED BY <1>1, <1>2, <1>3, <1>4 DEF Next, Extract

\* Every extraction that succeeds leaves at most MAX_CACHED_ARCHIVES archives,
\* for as long as its caller holds the lock.
THEOREM Bounded == Spec => []CacheBounded
  <1>1. Init => CacheBounded
    BY DEF Init, CacheBounded
  <1> QED BY <1>1, CacheInvariance, StepKeepsBound, PTL DEF Spec

\* evict_old_archives removes an archive only if it keeps no older one, its own
\* apart.
THEOREM OldestGo == Spec => NewestKept
  <1> DEFINE Kept == \A h \in Files, k \in Hash :
                       entry'[h] = "none" /\ entry'[k] = "full"
                       /\ (\A p \in Proc : cacheLock = p => k # Own(p))
                         => mtime[h] <= mtime[k]
  <1>1. ASSUME CacheInvariant, [Next]_cacheVars PROVE Kept
    <2>1. ASSUME NEW p \in Proc, Evict(p) PROVE Kept
      <3>1. PICK g \in Oldest(Files \ {Own(p)}) : Remove(g)
        BY <2>1 DEF Evict
      <3>2. cacheLock = p
        BY <1>1, <2>1 DEF Evict, CacheInvariant, LockHeld, Inside
      <3>3. ASSUME NEW h \in Files, NEW k \in Hash,
                   entry'[h] = "none", entry'[k] = "full", k # Own(p)
            PROVE  mtime[h] <= mtime[k]
        <4>1. h = g /\ k \in Files \ {Own(p)}
          BY <1>1, <3>1, <3>3 DEF Remove, Files, CacheInvariant, TypeOK
        <4> QED BY <3>1, <4>1 DEF Oldest
      <3> QED BY <3>2, <3>3
    <2>2. ASSUME NEW p \in Proc, Publish(p) PROVE Kept
      <3>1. temp[p] = "full"
        BY <1>1, <2>2 DEF Publish, Goto, CacheInvariant, TempsAreMine
      <3> QED BY <1>1, <2>2, <3>1 DEF Publish, Files, CacheInvariant, TypeOK
    <2>3. ASSUME NEW p \in Proc, Acts(p), ~Evict(p), ~Publish(p) PROVE Kept
      <3>1. UNCHANGED entry
        BY <2>3 DEF Acts, Extract, OpenCache, LockCache, Sweep, Swept, Lookup, Write, Evicted,
                    Release, Fail, Crash, Dies
      <3> QED BY <3>1 DEF Files
    <2>4. CASE Ended \/ UNCHANGED cacheVars
      BY <2>4 DEF Ended, cacheVars, Files
    <2> QED BY <1>1, <2>1, <2>2, <2>3, <2>4 DEF Next, Acts, Extract
  <1>2. CacheInvariant /\ [Next]_cacheVars => [Kept]_cacheVars
    BY <1>1
  <1> QED BY <1>2, CacheInvariance, PTL DEF Spec, NewestKept
=============================================================================
