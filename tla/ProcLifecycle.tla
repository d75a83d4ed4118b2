--------------------------- MODULE ProcLifecycle ---------------------------
(***************************************************************************)
(* What the process table promises: processes are numbered in the order    *)
(* they start, at most Max of them ever start, at most one runs at a time, *)
(* and a process that has ended never runs again.                          *)
(***************************************************************************)
EXTENDS Naturals

CONSTANT Max            \* process numbers handed out per boot

VARIABLE phase          \* phase[n] of the n-th process

Init == phase = [n \in 1..Max |-> "unborn"]

(* The next number starts once every earlier process has ended.            *)
Start(n) ==
  /\ phase[n] = "unborn"
  /\ \A m \in 1..(n - 1) : phase[m] = "ended"
  /\ phase' = [phase EXCEPT ![n] = "running"]

End(n) ==
  /\ phase[n] = "running"
  /\ phase' = [phase EXCEPT ![n] = "ended"]

Next == \E n \in 1..Max : Start(n) \/ End(n)

Spec == Init /\ [][Next]_phase
=============================================================================
