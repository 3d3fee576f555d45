--------------------------- MODULE ToolchainInstall ---------------------------
(***************************************************************************)
(* The Zig toolchain is installed on demand by any number of compiler      *)
(* processes (src/ryo-backend/src/toolchain.rs).  ensure_zig takes an      *)
(* exclusive file lock, looks for the binary, and otherwise downloads an   *)
(* archive into a staging directory, checks its digest, extracts it, and   *)
(* renames the tree into place.  The operating system gives the lock back  *)
(* when its holder returns or dies; the staging directory survives both.   *)
(***************************************************************************)
EXTENDS Naturals

CONSTANTS
  Proc, NoProc,
  Layouts,      \* shapes the pinned archive may have
  MaxFaults     \* bound: failed steps, bad downloads and crashes, in all

\* "nested": one directory inside the archive; "flat": none; "nozig": no binary.
ASSUME ProcAssumption == NoProc \notin Proc /\ MaxFaults \in Nat
ASSUME LayoutAssumption == Layouts \subseteq {"nested", "flat", "nozig"}

VARIABLES
  layout,   \* the shape of the archive the pinned digest belongs to
  lock,     \* the holder of .zig-<version>.install.lock
  pc,       \* where each process is in ensure_zig
  archive,  \* the archive file in the staging directory
  tree,     \* the tree extracted in the staging directory
  zig,      \* the installed directory zig-<version>
  result,   \* the outcome of each process's last call
  faults

vars == <<layout, lock, pc, archive, tree, zig, result, faults>>

Content == {"none", "partial", "bad", "good"}     \* of a file or of a tree
Critical == {"locked", "staged", "downloading", "downloaded", "verified",
             "extracting", "extracted", "unpacked", "installed"}

ZigExists == zig \in {"partial", "bad", "good"}     \* zig_path.exists()

Init ==
  /\ layout \in Layouts
  /\ lock = NoProc
  /\ pc = [p \in Proc |-> "idle"]
  /\ archive = "none" /\ tree = "none" /\ zig = "absent"
  /\ result = [p \in Proc |-> "none"]
  /\ faults = 0

Goto(p, from, to) == pc[p] = from /\ pc' = [pc EXCEPT ![p] = to]

\* ensure_zig creates the directory and opens the lock file, then waits.
Open(p) ==
  /\ Goto(p, "idle", "waiting")
  /\ UNCHANGED <<layout, lock, archive, tree, zig, result, faults>>

\* Mutant: the lock is shared.
LockShared(p) ==
  /\ Goto(p, "waiting", "locked")
  /\ lock' = p
  /\ UNCHANGED <<layout, archive, tree, zig, result, faults>>

Lock(p) ==
  /\ lock = NoProc
  /\ Goto(p, "waiting", "locked")
  /\ lock' = p
  /\ UNCHANGED <<layout, archive, tree, zig, result, faults>>

\* The call returns, and the lock file is closed with it.
Leave(p, r) ==
  /\ pc' = [pc EXCEPT ![p] = "done"]
  /\ result' = [result EXCEPT ![p] = r]
  /\ lock' = IF lock = p THEN NoProc ELSE lock

FindZig(p) ==
  /\ pc[p] = "locked" /\ ZigExists
  /\ Leave(p, "ok")
  /\ UNCHANGED <<layout, archive, tree, zig, faults>>

\* download_zig gives up on an installed directory without a binary.  Mutant:
\* it removes the directory, so that the next call installs again.
RepairBroken(p) ==
  /\ pc[p] = "locked" /\ zig = "nozig"
  /\ zig' = "absent"
  /\ Leave(p, "err")
  /\ UNCHANGED <<layout, archive, tree, faults>>

RefuseBroken(p) ==
  /\ pc[p] = "locked" /\ zig = "nozig"
  /\ Leave(p, "err")
  /\ UNCHANGED <<layout, archive, tree, zig, faults>>

\* What remove_dir_all(..).ok() may leave of a tree.
Leftover(t) == IF t = "none" THEN {"none"} ELSE {"none", "partial", t}

\* Mutant: a staging directory that is there already is an error.
ClearOnlyNew(p) ==
  /\ zig = "absent" /\ pc[p] = "locked"
  /\ \/ archive = "none" /\ tree = "none" /\ Goto(p, "locked", "staged") /\ UNCHANGED <<lock, result>>
     \/ (archive # "none" \/ tree # "none") /\ Leave(p, "err")
  /\ UNCHANGED <<layout, archive, tree, zig, faults>>

ClearStaging(p) ==
  /\ zig = "absent"
  /\ Goto(p, "locked", "staged")
  /\ archive' \in {"none", archive}
  /\ tree' \in Leftover(tree)
  /\ UNCHANGED <<layout, lock, zig, result, faults>>

BeginDownload(p) ==
  /\ Goto(p, "staged", "downloading")
  /\ archive' = "partial"
  /\ UNCHANGED <<layout, lock, tree, zig, result, faults>>

\* The body of the response may be cut short or be another file altogether.
Download(p) ==
  /\ Goto(p, "downloading", "downloaded")
  /\ \/ archive' = "good" /\ UNCHANGED faults
     \/ archive' = "bad" /\ faults < MaxFaults /\ faults' = faults + 1
  /\ UNCHANGED <<layout, lock, tree, zig, result>>

\* verify_archive
Verify(p) ==
  /\ pc[p] = "downloaded"
  /\ \/ archive = "good" /\ Goto(p, "downloaded", "verified") /\ UNCHANGED <<lock, result>>
     \/ archive # "good" /\ Leave(p, "err")
  /\ UNCHANGED <<layout, archive, tree, zig, faults>>

BeginExtract(p) ==
  /\ Goto(p, "verified", "extracting")
  /\ tree' = "partial"
  /\ UNCHANGED <<layout, lock, archive, zig, result, faults>>

Extract(p) ==
  /\ Goto(p, "extracting", "extracted")
  /\ tree' = archive
  /\ UNCHANGED <<layout, lock, archive, zig, result, faults>>

RemoveArchive(p) ==
  /\ Goto(p, "extracted", "unpacked")
  /\ archive' = "none"
  /\ UNCHANGED <<layout, lock, tree, zig, result, faults>>

\* install_staged_toolchain: one rename.  Of a flat archive the staging
\* directory itself is renamed, of a nested one the directory inside it.
Install(p) ==
  /\ pc[p] = "unpacked"
  /\ \/ /\ zig = "absent"
        /\ Goto(p, "unpacked", "installed")
        /\ zig' = IF layout = "nozig" THEN "nozig" ELSE tree
        /\ tree' = "none"
        /\ UNCHANGED <<lock, result>>
     \/ /\ zig # "absent"
        /\ Leave(p, "err")
        /\ UNCHANGED <<zig, tree>>
  /\ UNCHANGED <<layout, archive, faults>>

\* The rest of the staging directory is removed, or left; then ensure_zig looks
\* once more.  Mutant: it does not.
FinishBlindly(p) ==
  /\ pc[p] = "installed"
  /\ Leave(p, "ok")
  /\ UNCHANGED <<layout, archive, tree, zig, faults>>

Finish(p) ==
  /\ pc[p] = "installed"
  /\ Leave(p, IF ZigExists THEN "ok" ELSE "err")
  /\ UNCHANGED <<layout, archive, tree, zig, faults>>

\* Any call to the file system or the network may fail: `?` returns, what is
\* staged stays.  The last removal is `.ok()` and never fails the call.
Fail(p) ==
  /\ pc[p] \in (Critical \ {"installed"}) \cup {"waiting"}
  /\ faults < MaxFaults /\ faults' = faults + 1
  /\ Leave(p, "err")
  /\ UNCHANGED <<layout, archive, tree, zig>>

\* The process dies, and the command is run again.
Dies(p) ==
  /\ pc' = [pc EXCEPT ![p] = "idle"]
  /\ result' = [result EXCEPT ![p] = "none"]
  /\ lock' = IF lock = p THEN NoProc ELSE lock
  /\ UNCHANGED <<layout, archive, tree, zig>>

Crash(p) ==
  /\ pc[p] \in Critical \cup {"waiting"}
  /\ faults < MaxFaults /\ faults' = faults + 1
  /\ Dies(p)

\* The command is run again after an error.
Again(p) ==
  /\ result[p] = "err"
  /\ Goto(p, "done", "idle")
  /\ result' = [result EXCEPT ![p] = "none"]
  /\ UNCHANGED <<layout, lock, archive, tree, zig, faults>>

Step(p) ==
  \/ Open(p) \/ Lock(p) \/ FindZig(p) \/ RefuseBroken(p) \/ ClearStaging(p)
  \/ BeginDownload(p) \/ Download(p) \/ Verify(p) \/ BeginExtract(p)
  \/ Extract(p) \/ RemoveArchive(p) \/ Install(p) \/ Finish(p)

Done == (\A p \in Proc : result[p] = "ok") /\ UNCHANGED vars
Next == (\E p \in Proc : Step(p) \/ Fail(p) \/ Crash(p) \/ Again(p)) \/ Done
Spec == Init /\ [][Next]_vars

\* Every process goes on, and a failed command is tried again.
FairSpec == Spec /\ \A p \in Proc : WF_vars(Step(p)) /\ WF_vars(Again(p))

-----------------------------------------------------------------------------
(* Properties *)

TypeOK ==
  /\ layout \in Layouts
  /\ lock \in Proc \cup {NoProc}
  /\ pc \in [Proc -> Critical \cup {"idle", "waiting", "done"}]
  /\ archive \in Content /\ tree \in Content
  /\ zig \in Content \cup {"absent", "nozig"}
  /\ result \in [Proc -> {"none", "ok", "err"}]
  /\ faults \in Nat

\* The lock is held by whoever is past it.
LockHeld == \A p \in Proc : pc[p] \in Critical <=> lock = p

\* How far the holder has come, and what it therefore has staged.
StagedSoFar ==
  \A p \in Proc :
    /\ pc[p] \in {"verified", "extracting", "extracted"} => archive = "good"
    /\ pc[p] \in {"extracted", "unpacked"} => tree = "good"
    /\ pc[p] \in Critical \ {"locked", "installed"} => zig = "absent"

\* A call has answered exactly when it is done, and Ok only for a toolchain.
Answered ==
  \A p \in Proc : /\ result[p] = "none" <=> pc[p] # "done"
                  /\ result[p] = "ok" => zig = "good"

\* Only a whole toolchain from an archive with the pinned digest is ever
\* installed, whatever an interrupted or a concurrent install left staged.
PublishedWhole == zig \in {"absent", "nozig", "good"} /\ (zig = "nozig" => layout = "nozig")

\* The inductive invariant: one installer at a time, which works on what it
\* staged itself and publishes it whole.
InstallInvariant == TypeOK /\ LockHeld /\ StagedSoFar /\ Answered /\ PublishedWhole

\* An installed directory is never replaced or touched again: Zig runs from it
\* after the lock is given back.
NeverReplaced == [][zig # "absent" => UNCHANGED zig]_vars

\* ensure_zig keeps its abstract promise.
Abstract == INSTANCE AtomicInstall WITH installed <- (zig = "good")
KeepsPromise == Abstract!Spec

\* Whoever needs the toolchain gets it: a crash or an error leaves nothing
\* behind that stops a later call, if the archive holds the binary at all.
EventuallyInstalled ==
  layout # "nozig" => <>(\A p \in Proc : result[p] = "ok")
=============================================================================
