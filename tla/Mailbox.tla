------------------------------ MODULE Mailbox ------------------------------
(***************************************************************************)
(* What the push pipeline of the daemon promises: a one-reader mailbox     *)
(* that keeps the newest message.  Messages are numbered.  The reader may  *)
(* skip messages that a newer one overtook, and everything unread may be   *)
(* forgotten when the process ends, but no message arrives out of order    *)
(* and none arrives that was not sent.                                     *)
(***************************************************************************)
EXTENDS Naturals

VARIABLES
  sent, \* the newest message sent
  got   \* the newest message received

Init == sent = 0 /\ got = 0

Send ==
  /\ sent' \in Nat /\ sent' > sent
  /\ UNCHANGED got

Receive ==
  /\ got' \in Nat /\ got < got' /\ got' <= sent
  /\ UNCHANGED sent

Forget ==
  /\ sent' = got
  /\ UNCHANGED got

Next == Send \/ Receive \/ Forget

Spec == Init /\ [][Next]_<<sent, got>>
=============================================================================
