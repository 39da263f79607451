-------------------------- MODULE MCFrameAssembly --------------------------
(* Instances of FrameAssembly for TLC. *)
EXTENDS FrameAssembly
=============================================================================
