----------------------------- MODULE MCPidFile -----------------------------
(* Instances of PidFile for TLC. *)
EXTENDS PidFile, TLC

CONSTANTS a, b, c

ThreePids == {a, b, c}

\* No definition looks at anything but the identity of a PID.
Symmetry == Permutations(Pids)
=============================================================================
