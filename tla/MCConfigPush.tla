---------------------------- MODULE MCConfigPush ----------------------------
(* Instances of ConfigPush for TLC: the configs are model values. *)
EXTENDS ConfigPush

CONSTANTS A, B

TwoConfigs == {A, B}
=============================================================================
