------------------------ MODULE MCDeviceLifecycle ------------------------
(* Instances of DeviceLifecycle for TLC. *)
EXTENDS DeviceLifecycle, TLC

CONSTANTS p1, p2, p3, d1, d2, Main, Editor

ThreePaths == {p1, p2, p3}
TwoIds == {d1, d2}
OneName == {Main}
OneApp == {Editor}

\* A mouse with two nodes and a second mouse.
Mixed == (p1 :> d1) @@ (p2 :> d1) @@ (p3 :> d2)

TwoRdevs == {1, 2}

Profile(id, apps, off) == [name |-> Main, device_id |-> id, match_app |-> apps, disable |-> off]
Config(list, on) == [profiles |-> list, active |-> Main, raw |-> on]

\* A profile for all mice; profiles for the editor only, which disable one mouse;
\* and the intercept switch turned off.
Everyday == Config(<<Profile(AnyId, AnyApp, FALSE)>>, TRUE)
EditorOnly == Config(<<Profile(d1, {Editor}, TRUE), Profile(AnyId, {Editor}, FALSE)>>, TRUE)
Off == Config(<<Profile(AnyId, AnyApp, FALSE)>>, FALSE)

AllConfigs == {Everyday, EditorOnly, Off}

AllFaults == {"open", "grab", "create", "epoll", "io"}
NoEpoll == AllFaults \ {"epoll"}
=============================================================================
