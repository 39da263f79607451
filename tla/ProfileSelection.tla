------------------------- MODULE ProfileSelection -------------------------
(***************************************************************************)
(* find_profile: which profile of a config applies to a mouse while an     *)
(* application has the focus.                                              *)
(*                                                                         *)
(* A device id, a profile name and a focused application are opaque.  The  *)
(* match_app pattern of a profile is represented by the applications whose *)
(* WM_CLASS contains it.  The empty pattern is contained in everything, a  *)
(* non-empty one is not contained in the empty string NoFocus.             *)
(***************************************************************************)
EXTENDS Naturals, Sequences

CONSTANTS
  Ids,        \* device ids
  Names,      \* profile names
  Apps,       \* focused applications
  AnyId,      \* the empty device_id: all devices
  NoFocus,    \* the empty focused application
  NoProfile   \* nullptr

Focus == Apps \cup {NoFocus}

\* The empty match_app.
AnyApp == Focus

Profiles ==
  [name : Names, device_id : Ids \cup {AnyId},
   match_app : SUBSET Apps \cup {AnyApp}, disable : BOOLEAN]

ConfigType == [profiles : Seq(Profiles), active : Names, raw : BOOLEAN]

ASSUME SelectionAssumption ==
  /\ AnyId \notin Ids
  /\ NoFocus \notin Apps
  /\ NoProfile \notin Profiles

profile_matches_app(p, app) == app \in p.match_app

\* The profiles of c, by index, that pass the application gate.
Open(c, app) == {i \in 1..Len(c.profiles) : profile_matches_app(c.profiles[i], app)}

First(S) == CHOOSE i \in S : \A j \in S : i <= j

\* Four passes over the profiles, the first hit of the first pass with one wins.
find_profile(c, app, id) ==
  LET open == Open(c, app)
      own == {i \in open : c.profiles[i].device_id = id}
      all == {i \in open : c.profiles[i].device_id = AnyId}
      active == {i \in open : c.profiles[i].name = c.active}
  IN CASE own # {} -> c.profiles[First(own)]
       [] own = {} /\ all # {} -> c.profiles[First(all)]
       [] own = {} /\ all = {} /\ active # {} -> c.profiles[First(active)]
       [] own = {} /\ all = {} /\ active = {} /\ open # {} -> c.profiles[First(open)]
       [] OTHER -> NoProfile

\* The selected profile says that the device is to be left alone.
Disabled(c, app, id) ==
  find_profile(c, app, id) # NoProfile /\ find_profile(c, app, id).disable

-----------------------------------------------------------------------------
(* What the selection promises *)

\* The preference order of the header comment as one number, ties broken by
\* the position in the list.
Rank(c, id, i) ==
  CASE c.profiles[i].device_id = id -> 1
    [] c.profiles[i].device_id # id /\ c.profiles[i].device_id = AnyId -> 2
    [] c.profiles[i].device_id \notin {id, AnyId} /\ c.profiles[i].name = c.active -> 3
    [] OTHER -> 4

Before(c, id, i, j) ==
  \/ Rank(c, id, i) < Rank(c, id, j)
  \/ Rank(c, id, i) = Rank(c, id, j) /\ i <= j

\* The selected profile is the best one the application gate lets through.
IsBest(c, app, id) ==
  \A i \in Open(c, app) :
    (\A j \in Open(c, app) : Before(c, id, i, j)) => find_profile(c, app, id) = c.profiles[i]

\* An application-scoped profile is never selected for another focus (C29-N1).
IsInScope(c, app, id) ==
  LET p == find_profile(c, app, id)
  IN p # NoProfile => profile_matches_app(p, app)

\* If one device has no profile then no device has one: apply_new_config takes
\* "no device got a profile" for "the config has none for this focus".
IsNullForAll(c, app) ==
  (\E id \in Ids : find_profile(c, app, id) = NoProfile)
    => \A id \in Ids : find_profile(c, app, id) = NoProfile
=============================================================================
