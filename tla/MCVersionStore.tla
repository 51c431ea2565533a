--------------------------- MODULE MCVersionStore ---------------------------
(* Instances of VersionStore for TLC.                                      *)
EXTENDS VersionStore, TLC

CONSTANTS update1, update2

(* The newest has another launcher protocol, and can be no controller.     *)
MCVersion == 1..3
MCManaging == 1..2
MCLauncher == [v \in MCVersion |-> IF v = 3 THEN 2 ELSE 1]
MCOperation == {update1, update2}
MCFaults == {"kill", "signal", "io", "network", "ipc"}

(* No two bootstraps at once that go on without their lock.                *)
OneIsInterrupted ==
    \A o1, o2 \in Operation :
        o1 # o2 => ~(/\ IsBoot(o1) /\ IsBoot(o2) /\ lock \notin {o1, o2})

(* Operations are interchangeable.                                         *)
Symmetry == Permutations(MCOperation)
=============================================================================
