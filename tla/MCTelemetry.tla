---------------------------- MODULE MCTelemetry ----------------------------
(* Instances of Telemetry for TLC. *)
EXTENDS Telemetry

CONSTANTS Speed, Out, Dx

\* Two speeds, which only an accelerated sample fills, and one delta.
ThreeFields == {Speed, Out, Dx}
OneRawField == {Dx}
=============================================================================
