----------------------------- MODULE RuntimeCache -----------------------------
(***************************************************************************)
(* The cache of runtime archives (src/ryo-backend/src/runtime_lib.rs).     *)
(* Every build links against the archive its compiler embeds, under a name *)
(* that carries the hash of its bytes.  extract_runtime_to_cache_at takes  *)
(* the cache lock, sweeps temporary files, writes the archive if it is not *)
(* there, evicts old ones, and returns the lock to its caller, who keeps   *)
(* it until the linker has read the archive.                               *)
(***************************************************************************)
EXTENDS Naturals, FiniteSets

CONSTANTS
  Proc, NoProc,
  Hash,         \* versions of the runtime archive
  HashOf,       \* the version each process embeds
  MaxArchives,  \* MAX_CACHED_ARCHIVES
  MaxTime,      \* bound: modification times are 0 .. MaxTime
  MaxFaults     \* bound: failed calls and crashes, in all

ASSUME CacheAssumption ==
  /\ NoProc \notin Proc
  /\ IsFiniteSet(Hash) /\ HashOf \in [Proc -> Hash]
  /\ MaxArchives \in Nat \ {0} /\ MaxTime \in Nat /\ MaxFaults \in Nat

VARIABLES
  cacheLock,    \* the holder of .runtime-cache.lock
  cachePc,      \* where each process is in the extraction
  entry,        \* what is in the cache under the name of each version
  mtime,        \* the modification time of each archive
  temp,         \* the temporary file of each process
  faults

cacheVars == <<cacheLock, cachePc, entry, mtime, temp, faults>>

Inside == {"sweep", "lookup", "write", "written", "evict", "holding"}
Files  == {h \in Hash : entry[h] \in {"partial", "full"}}   \* the regular files
Own(p) == HashOf[p]

\* Any archives of other versions, and entries that are not regular files.
Init ==
  /\ cacheLock = NoProc
  /\ cachePc = [p \in Proc |-> "idle"]
  /\ entry \in [Hash -> {"none", "odd", "full"}]
  /\ mtime \in [Hash -> 0 .. MaxTime]
  /\ temp = [p \in Proc |-> "none"]
  /\ faults = 0

Goto(p, from, to) == cachePc[p] = from /\ cachePc' = [cachePc EXCEPT ![p] = to]

OpenCache(p) ==
  /\ Goto(p, "idle", "waiting")
  /\ UNCHANGED <<cacheLock, entry, mtime, temp, faults>>

\* Mutant: the lock is shared.
ShareCache(p) ==
  /\ Goto(p, "waiting", "sweep")
  /\ cacheLock' = p
  /\ UNCHANGED <<entry, mtime, temp, faults>>

LockCache(p) ==
  /\ cacheLock = NoProc
  /\ Goto(p, "waiting", "sweep")
  /\ cacheLock' = p
  /\ UNCHANGED <<entry, mtime, temp, faults>>

\* sweep_stale_temp_files, one file after the other in any order.
Sweep(p) ==
  /\ cachePc[p] = "sweep"
  /\ \E q \in Proc : temp[q] # "none" /\ temp' = [temp EXCEPT ![q] = "none"]
  /\ UNCHANGED <<cacheLock, cachePc, entry, mtime, faults>>

Swept(p) ==
  /\ \A q \in Proc : temp[q] = "none"
  /\ Goto(p, "sweep", "lookup")
  /\ UNCHANGED <<cacheLock, entry, mtime, temp, faults>>

\* The call returns an error, and the lock is given back with it.
GiveUp(p) ==
  /\ cachePc' = [cachePc EXCEPT ![p] = "failed"]
  /\ cacheLock' = IF cacheLock = p THEN NoProc ELSE cacheLock

\* An archive that is there is reused as it is.
Lookup(p) ==
  /\ cachePc[p] = "lookup"
  /\ \/ Own(p) \in Files /\ Goto(p, "lookup", "evict") /\ UNCHANGED cacheLock
     \/ entry[Own(p)] = "odd" /\ GiveUp(p)
     \/ entry[Own(p)] = "none" /\ Goto(p, "lookup", "write") /\ UNCHANGED cacheLock
  /\ UNCHANGED <<entry, mtime, temp, faults>>

\* fs::write to a temporary name, then one rename.
Write(p) ==
  /\ cachePc[p] = "write"
  /\ \/ temp[p] # "partial" /\ temp' = [temp EXCEPT ![p] = "partial"] /\ UNCHANGED cachePc
     \/ temp[p] = "partial" /\ temp' = [temp EXCEPT ![p] = "full"] /\ Goto(p, "write", "written")
  /\ UNCHANGED <<cacheLock, entry, mtime, faults>>

\* The new archive may be stamped with any time: clocks are coarse, and set.
Publish(p) ==
  /\ Goto(p, "written", "evict")
  /\ entry' = [entry EXCEPT ![Own(p)] = temp[p]]
  /\ temp' = [temp EXCEPT ![p] = "none"]
  /\ \E t \in 0 .. MaxTime : mtime' = [mtime EXCEPT ![Own(p)] = t]
  /\ UNCHANGED <<cacheLock, faults>>

\* evict_old_archives removes the oldest archives but its own until
\* MaxArchives are left.  The lock keeps the listing it works from current.
Oldest(S) == {h \in S : \A k \in S : mtime[h] <= mtime[k]}
Remove(h) == entry' = [entry EXCEPT ![h] = "none"]

\* Mutants: the own archive is met and not passed over; the newest go first.
EvictStuck(p) ==
  /\ cachePc[p] = "evict" /\ Cardinality(Files) > MaxArchives
  /\ IF Own(p) \in Oldest(Files) THEN UNCHANGED entry
     ELSE \E h \in Oldest(Files) : Remove(h)
  /\ UNCHANGED <<cacheLock, cachePc, mtime, temp, faults>>
EvictNewest(p) ==
  /\ cachePc[p] = "evict" /\ Cardinality(Files) > MaxArchives
  /\ \E h \in Files \ {Own(p)} : Remove(h) /\ \A k \in Files \ {Own(p)} : mtime[k] <= mtime[h]
  /\ UNCHANGED <<cacheLock, cachePc, mtime, temp, faults>>

Evict(p) ==
  /\ cachePc[p] = "evict" /\ Cardinality(Files) > MaxArchives
  /\ \E h \in Oldest(Files \ {Own(p)}) : Remove(h)
  /\ UNCHANGED <<cacheLock, cachePc, mtime, temp, faults>>

\* Mutant: one archive too many is kept.
EvictedButOne(p) ==
  /\ Cardinality(Files) <= MaxArchives + 1
  /\ Goto(p, "evict", "holding")
  /\ UNCHANGED <<cacheLock, entry, mtime, temp, faults>>

Evicted(p) ==
  /\ Cardinality(Files) <= MaxArchives
  /\ Goto(p, "evict", "holding")
  /\ UNCHANGED <<cacheLock, entry, mtime, temp, faults>>

\* The caller drops the lock it was given.
Release(p) ==
  /\ Goto(p, "holding", "done")
  /\ cacheLock' = NoProc
  /\ UNCHANGED <<entry, mtime, temp, faults>>

\* Any call to the file system may fail: `?` returns the error.
Fail(p) ==
  /\ cachePc[p] \in (Inside \ {"holding"}) \cup {"waiting"}
  /\ faults < MaxFaults /\ faults' = faults + 1
  /\ GiveUp(p)
  /\ UNCHANGED <<entry, mtime, temp>>

\* The process dies, and the command is run again.
Dies(p) ==
  /\ cachePc' = [cachePc EXCEPT ![p] = "idle"]
  /\ cacheLock' = IF cacheLock = p THEN NoProc ELSE cacheLock
  /\ UNCHANGED <<entry, mtime, temp>>

Crash(p) ==
  /\ cachePc[p] \in Inside \cup {"waiting"}
  /\ faults < MaxFaults /\ faults' = faults + 1
  /\ Dies(p)

Extract(p) ==
  \/ OpenCache(p) \/ LockCache(p) \/ Sweep(p) \/ Swept(p) \/ Lookup(p)
  \/ Write(p) \/ Publish(p) \/ Evict(p) \/ Evicted(p)

Ended == (\A p \in Proc : cachePc[p] \in {"done", "failed"}) /\ UNCHANGED cacheVars
Next == (\E p \in Proc : Extract(p) \/ Release(p) \/ Fail(p) \/ Crash(p)) \/ Ended
Spec == Init /\ [][Next]_cacheVars

-----------------------------------------------------------------------------
(* Properties *)

TypeOK ==
  /\ cacheLock \in Proc \cup {NoProc}
  /\ cachePc \in [Proc -> Inside \cup {"idle", "waiting", "done", "failed"}]
  /\ entry \in [Hash -> {"none", "odd", "partial", "full"}]
  /\ mtime \in [Hash -> 0 .. MaxTime]
  /\ temp \in [Proc -> {"none", "partial", "full"}]
  /\ faults \in Nat

LockHeld == \A p \in Proc : cachePc[p] \in Inside <=> cacheLock = p

\* What is published is never a torn archive.
EntriesWhole == \A h \in Hash : entry[h] # "partial"

\* The archive the holder found or wrote is there, whole, until it lets go of
\* the lock: this is what the caller links, whatever a build that died while it
\* wrote has left and whatever the others would sweep, evict or rewrite.
OwnArchiveThere ==
  \A p \in Proc : cachePc[p] \in {"evict", "holding"} => entry[Own(p)] = "full"

TempsAreMine ==
  \A p \in Proc :
    /\ cachePc[p] = "written" => temp[p] = "full"
    /\ cachePc[p] \in {"lookup", "evict", "holding"} => \A q \in Proc : temp[q] = "none"
    /\ cachePc[p] \in {"write", "written"} => \A q \in Proc \ {p} : temp[q] = "none"

\* The inductive invariant: one process at a time works on the cache.
CacheInvariant == TypeOK /\ LockHeld /\ EntriesWhole /\ OwnArchiveThere /\ TempsAreMine

\* Whenever an extraction has succeeded, evict_old_archives has brought the
\* cache within MAX_CACHED_ARCHIVES, the archive in use counted.
CacheBounded == \A p \in Proc : cachePc[p] = "holding" => Cardinality(Files) <= MaxArchives

\* What evict_old_archives removes is never newer than an archive it keeps,
\* the archive in use apart.
NewestKept ==
  [][\A h \in Files, k \in Hash :
       entry'[h] = "none" /\ entry'[k] = "full" /\ (\A p \in Proc : cacheLock = p => k # Own(p))
         => mtime[h] <= mtime[k]]_cacheVars
=============================================================================
