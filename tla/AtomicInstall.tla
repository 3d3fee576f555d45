---------------------------- MODULE AtomicInstall ----------------------------
(***************************************************************************)
(* What ensure_zig (src/ryo-backend/src/toolchain.rs 11-41) promises to    *)
(* the processes that call it, whatever they crash or race into: the       *)
(* toolchain appears once, whole, and stays; a call that returns Ok        *)
(* returns after it has appeared.                                          *)
(***************************************************************************)
CONSTANT Proc
VARIABLES
  installed,    \* a usable toolchain is in place
  result        \* the outcome of each process's last call

Results == {"none", "ok", "err"}

Init == installed = FALSE /\ result = [p \in Proc |-> "none"]

Publish == ~installed /\ installed' = TRUE /\ UNCHANGED result

Answer(p, r) ==
  /\ result[p] = "none" /\ r \in {"ok", "err"}
  /\ r = "ok" => installed
  /\ result' = [result EXCEPT ![p] = r]
  /\ UNCHANGED installed

Again(p) ==
  /\ result[p] = "err"
  /\ result' = [result EXCEPT ![p] = "none"]
  /\ UNCHANGED installed

Next == Publish \/ \E p \in Proc : Again(p) \/ \E r \in Results : Answer(p, r)
Spec == Init /\ [][Next]_<<installed, result>>
=============================================================================
