------------------------ MODULE ToolchainInstall_proof ------------------------
(***************************************************************************)
(* Proofs about ToolchainInstall, for any set of processes, any archive    *)
(* layout and any number of faults.                                        *)
(***************************************************************************)
EXTENDS ToolchainInstall, TLAPS

\* Everything a step of the specification can be.
Acts(p) == Step(p) \/ Fail(p) \/ Crash(p) \/ Again(p)

\* The state before any process has called ensure_zig.
LEMMA InitInvariant == Init => InstallInvariant
  BY ProcAssumption
  DEF Init, InstallInvariant, TypeOK, LockHeld, StagedSoFar, Answered, PublishedWhole,
      Critical, Content

\* Waiting for the lock and taking it.
LEMMA EnterKeepsInvariant ==
  ASSUME InstallInvariant, NEW p \in Proc, Open(p) \/ Lock(p)
  PROVE  InstallInvariant'
  <1> USE ProcAssumption
      DEF InstallInvariant, TypeOK, LockHeld, StagedSoFar, Answered, PublishedWhole,
          Critical, Content, Goto
  <1>1. CASE Open(p)  BY <1>1 DEF Open
  <1>2. CASE Lock(p)  BY <1>2 DEF Lock
  <1> QED BY <1>1, <1>2

\* Staging: the holder works alone on the staging directory.
LEMMA StagingKeepsInvariant ==
  ASSUME InstallInvariant, NEW p \in Proc,
         \/ ClearStaging(p) \/ BeginDownload(p) \/ Download(p)
         \/ BeginExtract(p) \/ Extract(p) \/ RemoveArchive(p)
  PROVE  InstallInvariant'
  <1> USE ProcAssumption
      DEF InstallInvariant, TypeOK, LockHeld, StagedSoFar, Answered, PublishedWhole,
          Critical, Content, Goto
  <1>1. CASE ClearStaging(p)   BY <1>1 DEF ClearStaging, Leftover
  <1>2. CASE BeginDownload(p)  BY <1>2 DEF BeginDownload
  <1>3. CASE Download(p)       BY <1>3 DEF Download
  <1>4. CASE BeginExtract(p)   BY <1>4 DEF BeginExtract
  <1>5. CASE Extract(p)        BY <1>5 DEF Extract
  <1>6. CASE RemoveArchive(p)  BY <1>6 DEF RemoveArchive
  <1> QED BY <1>1, <1>2, <1>3, <1>4, <1>5, <1>6

\* Steps that check, publish or return.
LEMMA ReturnKeepsInvariant ==
  ASSUME InstallInvariant, NEW p \in Proc,
         FindZig(p) \/ RefuseBroken(p) \/ Verify(p) \/ Install(p) \/ Finish(p)
  PROVE  InstallInvariant'
  <1> USE ProcAssumption
      DEF InstallInvariant, TypeOK, LockHeld, StagedSoFar, Answered, PublishedWhole,
          Critical, Content, Goto, Leave, ZigExists
  <1>1. CASE FindZig(p)       BY <1>1 DEF FindZig
  <1>2. CASE RefuseBroken(p)  BY <1>2 DEF RefuseBroken
  <1>3. CASE Verify(p)        BY <1>3 DEF Verify
  <1>4. CASE Install(p)       BY <1>4 DEF Install
  <1>5. CASE Finish(p)        BY <1>5 DEF Finish
  <1> QED BY <1>1, <1>2, <1>3, <1>4, <1>5

\* Errors, crashes and calls that are made again.
LEMMA FaultKeepsInvariant ==
  ASSUME InstallInvariant, NEW p \in Proc, Fail(p) \/ Crash(p) \/ Again(p)
  PROVE  InstallInvariant'
  <1> USE ProcAssumption
      DEF InstallInvariant, TypeOK, LockHeld, StagedSoFar, Answered, PublishedWhole,
          Critical, Content, Goto, Leave
  <1>1. CASE Fail(p)   BY <1>1 DEF Fail
  <1>2. CASE Crash(p)  BY <1>2 DEF Crash, Dies
  <1>3. CASE Again(p)  BY <1>3 DEF Again
  <1> QED BY <1>1, <1>2, <1>3

\* Every step preserves the invariant.
LEMMA StepKeepsInvariant == InstallInvariant /\ [Next]_vars => InstallInvariant'
  <1> SUFFICES ASSUME InstallInvariant, [Next]_vars PROVE InstallInvariant'
    OBVIOUS
  <1>1. CASE \E p \in Proc : Acts(p)
    <2> PICK p \in Proc : Acts(p)  BY <1>1
    <2> QED
      BY EnterKeepsInvariant, StagingKeepsInvariant, ReturnKeepsInvariant, FaultKeepsInvariant
      DEF Acts, Step
  <1>2. CASE UNCHANGED vars
    BY <1>2 DEF vars, InstallInvariant, TypeOK, LockHeld, StagedSoFar, Answered, PublishedWhole
  <1> QED BY <1>1, <1>2 DEF Next, Acts, Done

\* The lock serializes the installers: in every reachable state the invariant
\* holds, for every number of processes.
THEOREM Invariance == Spec => []InstallInvariant
  <1> QED BY InitInvariant, StepKeepsInvariant, PTL DEF Spec

\* Only a whole toolchain with the pinned digest is ever installed.
THEOREM OnlyWholePublished == Spec => []PublishedWhole
  <1>1. InstallInvariant => PublishedWhole  BY DEF InstallInvariant
  <1> QED BY <1>1, Invariance, PTL

\* What is installed is never replaced.
THEOREM InstalledStays == Spec => NeverReplaced
  <1>1. InstallInvariant /\ [Next]_vars => [zig # "absent" => UNCHANGED zig]_vars
    <2> SUFFICES ASSUME InstallInvariant, [Next]_vars, zig # "absent" PROVE zig' = zig
      BY DEF vars
    <2>1. ASSUME NEW p \in Proc, Acts(p) PROVE zig' = zig
      <3> USE <2>1 DEF Acts, Step, InstallInvariant, StagedSoFar, Critical
      <3> QED
        BY DEF Open, Lock, FindZig, RefuseBroken, ClearStaging, BeginDownload, Download,
               Verify, BeginExtract, Extract, RemoveArchive, Install, Finish, Fail, Crash,
               Dies, Again
    <2> QED BY <2>1 DEF Next, Acts, Done, vars
  <1> QED BY <1>1, Invariance, PTL DEF Spec, NeverReplaced

\* A step of one process is a step of the abstract installation, or none.
LEMMA StepKeepsPromise ==
  ASSUME InstallInvariant, NEW p \in Proc, Acts(p)
  PROVE  Abstract!Next \/ UNCHANGED <<zig = "good", result>>
  <1> USE DEF InstallInvariant, TypeOK, Answered, StagedSoFar, PublishedWhole, Critical
  <1>1. CASE Open(p) \/ Lock(p) \/ ClearStaging(p) \/ BeginDownload(p) \/ Download(p)
             \/ BeginExtract(p) \/ Extract(p) \/ RemoveArchive(p) \/ Crash(p)
    BY <1>1 DEF Open, Lock, ClearStaging, BeginDownload, Download, BeginExtract, Extract,
                RemoveArchive, Crash, Dies
  <1>2. ASSUME NEW r \in {"ok", "err"}, Leave(p, r), zig' = zig, pc[p] # "done",
               r = "ok" => zig = "good"
        PROVE  Abstract!Answer(p, r)
    BY <1>2 DEF Leave, Abstract!Answer
  <1>3. ASSUME NEW r \in {"ok", "err"}, Abstract!Answer(p, r)  PROVE Abstract!Next
    BY <1>3 DEF Abstract!Next, Abstract!Results
  <1>4. CASE FindZig(p)
    BY <1>2, <1>3, <1>4 DEF FindZig, ZigExists
  <1>5. CASE RefuseBroken(p)
    BY <1>2, <1>3, <1>5 DEF RefuseBroken
  <1>6. CASE Fail(p)
    BY <1>2, <1>3, <1>6 DEF Fail
  <1>7. CASE Verify(p)
    <2>1. CASE Leave(p, "err")
      BY <1>2, <1>3, <1>7, <2>1 DEF Verify
    <2>2. CASE UNCHANGED result
      BY <1>7, <2>2 DEF Verify
    <2> QED BY <1>7, <2>1, <2>2 DEF Verify
  <1>8. CASE Install(p)
    <2>1. CASE zig = "absent"
      <3>1. UNCHANGED result /\ ~(zig = "good")  BY <1>8, <2>1 DEF Install
      <3>2. CASE zig' = "good"
        <4>1. Abstract!Publish  BY <3>1, <3>2 DEF Abstract!Publish
        <4> QED BY <4>1 DEF Abstract!Next
      <3>3. CASE zig' # "good"
        BY <3>1, <3>3
      <3> QED BY <3>2, <3>3
    <2>2. CASE zig # "absent"
      BY <1>2, <1>3, <1>8, <2>2 DEF Install
    <2> QED BY <2>1, <2>2
  <1>9. CASE Finish(p)
    <2>1. CASE ZigExists
      BY <1>2, <1>3, <1>9, <2>1 DEF Finish, ZigExists
    <2>2. CASE ~ZigExists
      BY <1>2, <1>3, <1>9, <2>2 DEF Finish
    <2> QED BY <2>1, <2>2
  <1>10. CASE Again(p)
    <2>1. Abstract!Again(p)  BY <1>10 DEF Again, Abstract!Again
    <2> QED BY <2>1 DEF Abstract!Next
  <1> QED
    BY <1>1, <1>4, <1>5, <1>6, <1>7, <1>8, <1>9, <1>10 DEF Acts, Step

\* ensure_zig implements its abstract promise, for every number of processes.
THEOREM Implements == Spec => KeepsPromise
  <1>1. Init => Abstract!Init
    BY DEF Init, Abstract!Init
  <1>2. InstallInvariant /\ [Next]_vars => [Abstract!Next]_<<zig = "good", result>>
    <2> SUFFICES ASSUME InstallInvariant, [Next]_vars
                 PROVE  Abstract!Next \/ UNCHANGED <<zig = "good", result>>
      OBVIOUS
    <2>1. CASE \E p \in Proc : Acts(p)
      BY <2>1, StepKeepsPromise
    <2>2. CASE UNCHANGED vars
      BY <2>2 DEF vars
    <2> QED BY <2>1, <2>2 DEF Next, Acts, Done
  <1> QED BY <1>1, <1>2, Invariance, PTL DEF Spec, KeepsPromise, Abstract!Spec
=============================================================================
