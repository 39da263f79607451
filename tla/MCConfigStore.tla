--------------------------- MODULE MCConfigStore ---------------------------
(* Instances of ConfigStore for TLC. *)
EXTENDS ConfigStore, TLC

CONSTANTS p1, p2

TwoProcs == {p1, p2}

AllFaults == {"create", "write", "fsync", "link", "bak", "rename", "dirsync"}

\* No definition looks at anything but the identity of a process.
Symmetry == Permutations(Procs)
=============================================================================
