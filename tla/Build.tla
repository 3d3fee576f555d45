--------------------------------- MODULE Build ---------------------------------
(***************************************************************************)
(* `ryo build` (src/ryo-driver/src/pipeline/build.rs 83-118 and            *)
(* src/ryo-backend/src/linker.rs): each process writes an object file next *)
(* to its source, extracts the runtime archive and keeps the cache lock,   *)
(* has the toolchain installed if need be, runs the linker, gives the lock *)
(* back and removes the object file.  The two components it calls are the  *)
(* modules RuntimeCache and ToolchainInstall, on the same processes.       *)
(***************************************************************************)
EXTENDS Naturals, FiniteSets

CONSTANTS
  Proc, NoProc,
  Source, SourceOf,     \* the source file each process builds
  KeepObj,              \* the processes run with RYO_KEEP_OBJ set
  Hash, HashOf, MaxArchives, MaxTime, Layouts, MaxFaults

ASSUME BuildAssumption ==
  /\ NoProc \notin Proc /\ SourceOf \in [Proc -> Source] /\ KeepObj \subseteq Proc
  /\ IsFiniteSet(Hash) /\ HashOf \in [Proc -> Hash]
  /\ MaxArchives \in Nat \ {0} /\ MaxTime \in Nat /\ MaxFaults \in Nat
  /\ Layouts \subseteq {"nested", "flat", "nozig"}

VARIABLES
  cacheLock, cachePc, entry, mtime, temp,                   \* RuntimeCache
  layout, zigLock, zigPc, archive, tree, zig, zigResult,    \* ToolchainInstall
  buildPc,      \* where each process is in build_file
  object,       \* whose object code is in the object file of each source
  linked,       \* the linker has written the process's executable
  faults

zigVars   == <<layout, zigLock, zigPc, archive, tree, zig, zigResult>>
storeVars == <<cacheLock, cachePc, entry, mtime, temp>>
ownVars   == <<buildPc, object, linked>>
buildVars == <<zigVars, storeVars, ownVars, faults>>

Cache == INSTANCE RuntimeCache
Zig   == INSTANCE ToolchainInstall
           WITH lock <- zigLock, pc <- zigPc, result <- zigResult

\* get_output_filenames: the source path with another extension.
ObjectOf(p) == SourceOf[p]

Init ==
  /\ Cache!Init /\ Zig!Init
  /\ buildPc = [p \in Proc |-> "idle"]
  /\ object = [s \in Source |-> NoProc]
  /\ linked = [p \in Proc |-> FALSE]

Goto(p, from, to) == buildPc[p] = from /\ buildPc' = [buildPc EXCEPT ![p] = to]

\* The front end and code generation are done; fs::write of the object.
WriteObject(p) ==
  /\ Goto(p, "idle", "extract")
  /\ object' = [object EXCEPT ![ObjectOf(p)] = p]
  /\ linked' = [linked EXCEPT ![p] = FALSE]
  /\ UNCHANGED <<zigVars, storeVars, faults>>

Extract(p) ==
  /\ buildPc[p] = "extract"
  /\ Cache!Extract(p) \/ Cache!Fail(p)
  /\ UNCHANGED <<zigVars, ownVars>>

\* Mutant: the lock is dropped as soon as the archive is there.
ExtractedUnlocked(p) ==
  /\ cachePc[p] = "holding"
  /\ Goto(p, "extract", "install")
  /\ cacheLock' = NoProc /\ cachePc' = [cachePc EXCEPT ![p] = "done"]
  /\ UNCHANGED <<zigVars, entry, mtime, temp, object, linked, faults>>

Extracted(p) ==
  /\ cachePc[p] = "holding"
  /\ Goto(p, "extract", "install")
  /\ UNCHANGED <<zigVars, storeVars, object, linked, faults>>

\* `?` on the extraction: build_file returns at once.
NotExtracted(p) ==
  /\ cachePc[p] = "failed"
  /\ Goto(p, "extract", "failed")
  /\ UNCHANGED <<zigVars, storeVars, object, linked, faults>>

\* link_executable, under the cache lock: the toolchain first.
Install(p) ==
  /\ buildPc[p] = "install"
  /\ Zig!Step(p) \/ Zig!Fail(p)
  /\ UNCHANGED <<storeVars, ownVars>>

Installed(p) ==
  /\ zigResult[p] = "ok"
  /\ Goto(p, "install", "link")
  /\ UNCHANGED <<zigVars, storeVars, object, linked, faults>>

NotInstalled(p) ==
  /\ zigResult[p] = "err"
  /\ Goto(p, "install", "linked")
  /\ UNCHANGED <<zigVars, storeVars, object, linked, faults>>

\* `zig cc` reads the object and the archive and writes the executable.
Link(p) ==
  /\ Goto(p, "link", "linked")
  /\ \/ linked' = [linked EXCEPT ![p] = TRUE] /\ UNCHANGED faults
     \/ faults < MaxFaults /\ faults' = faults + 1 /\ UNCHANGED linked
  /\ UNCHANGED <<zigVars, storeVars, object>>

Unlock(p) ==
  /\ Goto(p, "linked", "clean")
  /\ IF cachePc[p] = "holding" THEN Cache!Release(p) ELSE UNCHANGED <<storeVars, faults>>
  /\ UNCHANGED <<zigVars, object, linked>>

\* The object is removed, also after a failed link, unless it is to be kept.
\* Mutant: only after a good link.
CleanAfterSuccess(p) ==
  /\ Goto(p, "clean", IF linked[p] THEN "ok" ELSE "failed")
  /\ object' = IF p \in KeepObj \/ ~linked[p] THEN object
               ELSE [object EXCEPT ![ObjectOf(p)] = NoProc]
  /\ UNCHANGED <<zigVars, storeVars, linked, faults>>

Clean(p) ==
  /\ Goto(p, "clean", IF linked[p] THEN "ok" ELSE "failed")
  /\ object' = IF p \in KeepObj THEN object ELSE [object EXCEPT ![ObjectOf(p)] = NoProc]
  /\ UNCHANGED <<zigVars, storeVars, linked, faults>>

\* The process dies wherever it is, and the command is run again: the locks
\* are freed, the files stay.
Crash(p) ==
  /\ buildPc[p] \notin {"idle", "ok", "failed"}
  /\ faults < MaxFaults /\ faults' = faults + 1
  /\ Cache!Dies(p) /\ Zig!Dies(p)
  /\ buildPc' = [buildPc EXCEPT ![p] = "idle"]
  /\ UNCHANGED <<object, linked>>

Step(p) ==
  \/ WriteObject(p) \/ Extract(p) \/ Extracted(p) \/ NotExtracted(p)
  \/ Install(p) \/ Installed(p) \/ NotInstalled(p)
  \/ Link(p) \/ Unlock(p) \/ Clean(p)

Over == (\A p \in Proc : buildPc[p] \in {"ok", "failed"}) /\ UNCHANGED buildVars
Next == (\E p \in Proc : Step(p) \/ Crash(p)) \/ Over
Spec == Init /\ [][Next]_buildVars
FairSpec == Spec /\ \A p \in Proc : WF_buildVars(Step(p))

-----------------------------------------------------------------------------
(* Properties *)

\* link_executable: whatever other builds do, while a process links its archive is in the cache
\* and whole, and the toolchain it runs is installed and whole.
LinksWholeInputs ==
  \A p \in Proc : buildPc[p] = "link" => entry[HashOf[p]] = "full" /\ zig = "good"

\* Builds of different sources never link one another's object file
\* (get_output_filenames), and once the link has been tried, a build that returns
\* has removed its own ("Runs on the link-failure path too").
OwnObjectUntilLinked ==
  \A p \in Proc :
    /\ buildPc[p] = "link" => object[ObjectOf(p)] = p
    /\ p \notin KeepObj /\ (buildPc[p] = "ok" \/ (buildPc[p] = "failed" /\ cachePc[p] = "done"))
         => object[ObjectOf(p)] # p

\* No build waits for ever: the install lock is only ever taken inside the
\* cache lock, and every holder goes on or dies.
EveryBuildEnds == \A p \in Proc : <>(buildPc[p] \in {"ok", "failed"})
=============================================================================
