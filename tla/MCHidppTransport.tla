-------------------------- MODULE MCHidppTransport --------------------------
(* An instance of HidppTransport for TLC. *)
EXTENDS HidppTransport

C(kind, dev, sub, slot) == [kind |-> kind, dev |-> dev, sub |-> sub, slot |-> slot]

\* A feature of the mouse, a short request, two slots of
\* the receiver and a ping.
SomeCalls == { C("feature", 1, "dpi", 0),
               C("short", 1, "battery", 0),
               C("register", 0, "B5", 1), C("register", 0, "B5", 2),
               C("ping", 0, "ping", 0) }

Registers == {"B5", "ping"}
Nibble == [r \in Registers |-> IF r = "ping" THEN 0 ELSE 5]
=============================================================================
