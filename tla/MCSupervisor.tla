---------------------------- MODULE MCSupervisor ----------------------------
(* Instances of Supervisor for TLC. *)
EXTENDS Supervisor, TLC

CONSTANTS s1, p1, p2, p3

OneSlot == {s1}
TwoProcs == {p1, p2}
ThreeProcs == {p1, p2, p3}
OnePort  == [i \in Slot |-> 9100]
ProcSymmetry == Permutations(Proc)
=============================================================================
