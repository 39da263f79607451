--------------------------- MODULE MCHidppWorker ---------------------------
(* An instance of HidppWorker for TLC. *)
EXTENDS HidppWorker

OneMouse == {"mouse"}
=============================================================================
