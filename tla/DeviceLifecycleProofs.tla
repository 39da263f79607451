----------------------- MODULE DeviceLifecycleProofs -----------------------
(***************************************************************************)
(* The daemon's bookkeeping of the mice it holds is right for any number   *)
(* of mice, any assignment of device ids to nodes, any configs, any        *)
(* backoff and any sequence of kernel events, failures and changes.        *)
(***************************************************************************)
EXTENDS DeviceLifecycle, WellFoundedInduction, TLAPS

-----------------------------------------------------------------------------
(* find_profile keeps its promises for every config, of any length *)

\* A non-empty set of numbers has a first element.
LEMMA FirstIsLeast ==
  ASSUME NEW S, S \subseteq Nat, S # {}
  PROVE  First(S) \in S /\ \A j \in S : First(S) <= j
<1>1. PICK i \in S : \A j \in S : ~(<<j, i>> \in OpToRel(<, Nat))
  BY WFMin, NatLessThanWellFounded, Zenon
<1>2. \A j \in S : ~(j < i)
  BY <1>1, Zenon DEF OpToRel
<1>3. \A j \in S : i <= j
  <2>1. \A j \in S : j \in Nat
    OBVIOUS
  <2> QED BY <1>2, <2>1
<1> QED BY <1>3 DEF First

\* find_profile returns a profile that passes the application gate, or nothing
\* if none does.
LEMMA FoundIsOpen ==
  ASSUME NEW c \in ConfigType, NEW a, NEW id
  PROVE  \/ Open(c, a) = {} /\ find_profile(c, a, id) = NoProfile
         \/ \E i \in Open(c, a) : find_profile(c, a, id) = c.profiles[i]
<1> DEFINE open == Open(c, a)
           own == {i \in open : c.profiles[i].device_id = id}
           all == {i \in open : c.profiles[i].device_id = AnyId}
           active == {i \in open : c.profiles[i].name = c.active}
           p == find_profile(c, a, id)
<1>1. open \subseteq Nat
  BY DEF Open
<1>2. \A S \in SUBSET open : S # {} => First(S) \in open
  BY <1>1, FirstIsLeast
<1>3. own \in SUBSET open /\ all \in SUBSET open /\ active \in SUBSET open /\ open \in SUBSET open
  OBVIOUS
<1>4. /\ own # {} => p = c.profiles[First(own)]
      /\ own = {} /\ all # {} => p = c.profiles[First(all)]
      /\ own = {} /\ all = {} /\ active # {} => p = c.profiles[First(active)]
      /\ own = {} /\ all = {} /\ active = {} /\ open # {} => p = c.profiles[First(open)]
      /\ open = {} => p = NoProfile
  BY Zenon DEF find_profile
<1> HIDE DEF open, own, all, active, p
<1>5. \/ open = {} /\ p = NoProfile
      \/ \E i \in open : p = c.profiles[i]
  BY <1>2, <1>3, <1>4, Zenon
<1> QED BY <1>5 DEF open, p

\* The result has its type.
LEMMA FoundType ==
  ASSUME NEW c \in ConfigType, NEW a, NEW id
  PROVE  find_profile(c, a, id) \in Profiles \cup {NoProfile}
<1>1. \A i \in Open(c, a) : c.profiles[i] \in Profiles
  BY DEF Open, ConfigType
<1> QED BY <1>1, FoundIsOpen, Zenon

\* C29-N1: whatever the config, an application-scoped profile is never selected
\* for another focus.
THEOREM ScopeIsKeptAlways ==
  ASSUME NEW c \in ConfigType, NEW a \in Focus, NEW id \in Ids
  PROVE  IsInScope(c, a, id)
<1>1. \A i \in Open(c, a) : profile_matches_app(c.profiles[i], a)
  BY DEF Open
<1> QED BY <1>1, FoundIsOpen, Zenon DEF IsInScope

\* Whether find_profile finds anything does not depend on the device, which is
\* what apply_new_config's test of any_live relies on.
THEOREM NullForAllAlways ==
  ASSUME NEW c \in ConfigType, NEW a \in Focus
  PROVE  IsNullForAll(c, a)
<1>1. \A i \in Open(c, a) : c.profiles[i] # NoProfile
  BY SelectionAssumption DEF Open, ConfigType
<1>2. \A id \in Ids : find_profile(c, a, id) = NoProfile <=> Open(c, a) = {}
  BY <1>1, FoundIsOpen, Zenon
<1> QED BY <1>2, Zenon DEF IsNullForAll

\* find_profile implements the preference order of its comment, for every
\* config: the four passes select the best profile the gate lets through.
THEOREM BestIsSelected ==
  ASSUME NEW c \in ConfigType, NEW a \in Focus, NEW id \in Ids
  PROVE  IsBest(c, a, id)
<1> DEFINE open == Open(c, a)
           own == {i \in open : c.profiles[i].device_id = id}
           all == {i \in open : c.profiles[i].device_id = AnyId}
           active == {i \in open : c.profiles[i].name = c.active}
           p == find_profile(c, a, id)
<1> SUFFICES ASSUME NEW b \in open, \A j \in open : Before(c, id, b, j)
             PROVE  p = c.profiles[b]
  BY DEF IsBest
<1>1. open \subseteq Nat
  BY DEF Open
<1>2. \A S \in SUBSET open : S # {} => First(S) \in S /\ \A j \in S : First(S) <= j
  BY <1>1, FirstIsLeast
<1>3. /\ own # {} => p = c.profiles[First(own)]
      /\ own = {} /\ all # {} => p = c.profiles[First(all)]
      /\ own = {} /\ all = {} /\ active # {} => p = c.profiles[First(active)]
      /\ own = {} /\ all = {} /\ active = {} /\ open # {} => p = c.profiles[First(open)]
  BY Zenon DEF find_profile
<1>4. id # AnyId
  BY SelectionAssumption
<1>5. \A S \in SUBSET open : b \in S /\ (\A j \in S : Rank(c, id, b) = Rank(c, id, j)) => First(S) = b
  <2> SUFFICES ASSUME NEW S \in SUBSET open, b \in S, \A j \in S : Rank(c, id, b) = Rank(c, id, j)
               PROVE  First(S) = b
    OBVIOUS
  <2>1. First(S) \in S /\ First(S) <= b
    BY <1>2
  <2>2. Rank(c, id, b) \in 1..4
    BY DEF Rank
  <2>3. b <= First(S)
    BY <2>1, <2>2 DEF Before
  <2> QED BY <1>1, <2>1, <2>3
<1>6. CASE own # {}
  <2>1. \A j \in own : Rank(c, id, j) = 1
    BY DEF Rank
  <2>2. b \in own
    BY <1>6, <2>1 DEF Before, Rank
  <2> QED BY <1>3, <1>5, <1>6, <2>1, <2>2
<1>7. CASE own = {} /\ all # {}
  <2>1. \A j \in all : Rank(c, id, j) = 2
    BY <1>4 DEF Rank
  <2>2. \A j \in open : Rank(c, id, j) # 1
    BY <1>7 DEF Rank
  <2>3. b \in all
    BY <1>7, <2>1, <2>2 DEF Before, Rank
  <2> QED BY <1>3, <1>5, <1>7, <2>1, <2>3
<1>8. CASE own = {} /\ all = {} /\ active # {}
  <2>1. \A j \in open : c.profiles[j].device_id \notin {id, AnyId}
    BY <1>8
  <2>2. \A j \in active : Rank(c, id, j) = 3
    BY <2>1 DEF Rank
  <2>3. \A j \in open : Rank(c, id, j) \in {3, 4}
    BY <2>1 DEF Rank
  <2>4. b \in active
    BY <1>8, <2>1, <2>2, <2>3 DEF Before, Rank
  <2> QED BY <1>3, <1>5, <1>8, <2>2, <2>4
<1>9. CASE own = {} /\ all = {} /\ active = {}
  <2>1. \A j \in open : c.profiles[j].device_id \notin {id, AnyId} /\ c.profiles[j].name # c.active
    BY <1>9
  <2>2. \A j \in open : Rank(c, id, j) = 4
    BY <2>1 DEF Rank
  <2> QED BY <1>3, <1>5, <1>9, <2>2
<1> QED BY <1>6, <1>7, <1>8, <1>9

-----------------------------------------------------------------------------
(* The profile a device gets *)

LEMMA SelectedType ==
  ASSUME NEW c \in Configs, NEW a, NEW id
  PROVE  find_profile(c, a, id) \in Profiles \cup {NoProfile}
<1>1. c \in ConfigType
  BY DeviceAssumption
<1> QED BY <1>1, FoundType

\* apply_profile changes nothing of a device but its profile.
LEMMA ReapplyKeeps ==
  ASSUME NEW c \in Configs, NEW a, NEW d \in DeviceType
  PROVE  /\ Reapply(d, c, a) \in DeviceType
         /\ Reapply(d, c, a).path = d.path
         /\ Reapply(d, c, a).alive = d.alive
         /\ find_profile(c, a, IdOf[d.path]) # NoProfile
              => Reapply(d, c, a).applied = find_profile(c, a, IdOf[d.path])
<1> DEFINE p == find_profile(c, a, IdOf[d.path])
<1>1. p \in Profiles \cup {NoProfile}
  BY SelectedType
<1>2. Reapply(d, c, a) = [d EXCEPT !.applied = IF p # NoProfile THEN p ELSE @]
  BY DEF Reapply
<1> HIDE DEF p
<1>3. /\ Reapply(d, c, a) \in DeviceType
      /\ Reapply(d, c, a).path = d.path
      /\ Reapply(d, c, a).alive = d.alive
      /\ p # NoProfile => Reapply(d, c, a).applied = p
  BY <1>1, <1>2 DEF DeviceType
<1> QED BY <1>3 DEF p

-----------------------------------------------------------------------------
(* The open sets, the grabs and the devices *)

HeldInv == OpenSetsAgree /\ OneGrabPerMouse /\ GrabsOwned

\* Releasing the devices in S and changing the others in place keeps the books
\* right: a released id belongs to no device that stays.
LEMMA HeldUpdate ==
  ASSUME HeldTypes, HeldInv,
         NEW S \in SUBSET devices,
         NEW f \in [devices -> DeviceType],
         \A d \in devices : f[d].path = d.path /\ f[d].alive = d.alive,
         devices' = {f[d] : d \in devices \ S},
         Release(S)
  PROVE  HeldTypes' /\ HeldInv'
<1> USE DeviceAssumption
<1>1. \A d, e \in devices : IdOf[d.path] = IdOf[e.path] => d = e
  BY DEF HeldInv, OneGrabPerMouse
<1>2. \A d \in devices : d \in DeviceType /\ d.path \in Paths /\ IdOf[d.path] \in Ids
  BY DEF HeldTypes, DeviceType
<1>3. HeldTypes'
  BY <1>2 DEF HeldTypes, Release
<1>4. openedPaths' = PathsOf(devices')
  BY <1>1 DEF HeldInv, OpenSetsAgree, PathsOf, Release
<1>5. openedIds' = IdsOf(devices')
  BY <1>1 DEF HeldInv, OpenSetsAgree, IdsOf, Release
<1>6. OneGrabPerMouse'
  BY <1>1 DEF OneGrabPerMouse
<1>7. grabs' = PathsOf({d \in devices' : d.alive})
  BY <1>1 DEF HeldInv, GrabsOwned, PathsOf, Release
<1> QED BY <1>3, <1>4, <1>5, <1>6, <1>7 DEF HeldInv, OpenSetsAgree, GrabsOwned

\* The same without a change.
LEMMA HeldRelease ==
  ASSUME HeldTypes, HeldInv,
         NEW S \in SUBSET devices,
         devices' = devices \ S,
         Release(S)
  PROVE  HeldTypes' /\ HeldInv'
<1> DEFINE f == [d \in devices |-> d]
<1>1. f \in [devices -> DeviceType]
  BY DEF HeldTypes
<1>2. \A d \in devices : f[d].path = d.path /\ f[d].alive = d.alive
  OBVIOUS
<1>3. devices' = {f[d] : d \in devices \ S}
  OBVIOUS
<1> HIDE DEF f
<1> QED BY <1>1, <1>2, <1>3, HeldUpdate

LEMMA HeldSame ==
  ASSUME HeldTypes, HeldInv, UNCHANGED heldVars
  PROVE  HeldTypes' /\ HeldInv'
BY DEF heldVars, HeldTypes, HeldInv, OpenSetsAgree, OneGrabPerMouse, GrabsOwned, PathsOf, IdsOf

\* A mouse that the pass opens is new, and so is its id.
LEMMA HeldOpen ==
  ASSUME TypeOK, HeldInv, NEW p \in Paths, OpenDevice(p)
  PROVE  HeldTypes' /\ HeldInv'
<1> USE DeviceAssumption
<1>1. /\ p \notin openedPaths /\ IdOf[p] \notin openedIds /\ rdev[p] # 0
      /\ devices' = devices \cup {Device(p)}
      /\ openedPaths' = openedPaths \cup {p}
      /\ openedIds' = openedIds \cup {IdOf[p]}
      /\ grabs' = grabs \cup {p}
  BY DEF OpenDevice, Wanted, Admitted, Opens
<1>2. Device(p) \in DeviceType /\ Device(p).path = p /\ Device(p).alive
  <2>1. find_profile(cfg, app, IdOf[p]) \in Profiles \cup {NoProfile}
    BY SelectedType DEF TypeOK, ChoiceTypes
  <2>2. rdev[p] \in Rdevs
    BY <1>1 DEF TypeOK, KernelTypes
  <2> QED BY <2>1, <2>2 DEF Device, DeviceType
<1> DEFINE n == Device(p)
<1>3. devices' = devices \cup {n} /\ n \in DeviceType /\ n.path = p /\ n.alive
  BY <1>1, <1>2
<1> HIDE DEF n
<1>4. HeldTypes'
  BY <1>1, <1>3 DEF TypeOK, HeldTypes
<1>5. openedPaths' = PathsOf(devices')
  BY <1>1, <1>3 DEF HeldInv, OpenSetsAgree, PathsOf
<1>6. openedIds' = IdsOf(devices')
  BY <1>1, <1>3 DEF HeldInv, OpenSetsAgree, IdsOf
<1>7. \A d \in devices : IdOf[d.path] # IdOf[p]
  BY <1>1 DEF HeldInv, OpenSetsAgree, IdsOf
<1>8. OneGrabPerMouse'
  BY <1>3, <1>7 DEF HeldInv, OneGrabPerMouse
<1>9. grabs' = PathsOf({d \in devices' : d.alive})
  BY <1>1, <1>3 DEF HeldInv, GrabsOwned, PathsOf
<1> QED BY <1>4, <1>5, <1>6, <1>8, <1>9 DEF HeldInv, OpenSetsAgree, GrabsOwned

\* The removal phase of a scan.
LEMMA HeldScan ==
  ASSUME TypeOK, HeldInv, do_hotplug_scan
  PROVE  HeldTypes' /\ HeldInv'
<1>1. CASE rawOn
  <2> DEFINE gone == {d \in devices : ~SameNode(d)}
  <2>1. gone \in SUBSET devices /\ devices' = devices \ gone /\ Release(gone)
    BY <1>1 DEF do_hotplug_scan
  <2> QED BY <2>1, HeldRelease DEF TypeOK
<1>2. CASE ~rawOn
  BY <1>2, HeldSame DEF do_hotplug_scan, TypeOK
<1> QED BY <1>1, <1>2

LEMMA HeldRemove ==
  ASSUME TypeOK, HeldInv, NEW d \in devices, Remove(d)
  PROVE  HeldTypes' /\ HeldInv'
<1>1. devices' = devices \ {d} /\ Release({d})
  BY DEF Remove
<1> QED BY <1>1, HeldRelease DEF TypeOK

LEMMA HeldFocus ==
  ASSUME TypeOK, HeldInv, ApplyActiveApp
  PROVE  HeldTypes' /\ HeldInv'
<1>1. PICK a \in report \ {app} :
        /\ devices' = {Reapply(d, cfg, a) : d \in devices \ DisabledBy(cfg, a)}
        /\ Release(DisabledBy(cfg, a))
  BY DEF ApplyActiveApp
<1> DEFINE S == DisabledBy(cfg, a)
           f == [d \in devices |-> Reapply(d, cfg, a)]
<1>2. \A d \in devices : /\ Reapply(d, cfg, a) \in DeviceType
                         /\ Reapply(d, cfg, a).path = d.path
                         /\ Reapply(d, cfg, a).alive = d.alive
  BY ReapplyKeeps DEF TypeOK, ChoiceTypes, HeldTypes
<1>3. S \in SUBSET devices
  BY DEF DisabledBy
<1>4. f \in [devices -> DeviceType] /\ \A d \in devices : f[d].path = d.path /\ f[d].alive = d.alive
  BY <1>2
<1>5. devices' = {f[d] : d \in devices \ S}
  BY <1>1
<1>6. Release(S)
  BY <1>1
<1> HIDE DEF S, f
<1> QED BY <1>3, <1>4, <1>5, <1>6, HeldUpdate DEF TypeOK

\* The teardown empties everything; the live path is HeldUpdate again.
LEMMA HeldConfig ==
  ASSUME TypeOK, HeldInv, NEW c \in Configs, apply_new_config(c)
  PROVE  HeldTypes' /\ HeldInv'
<1> DEFINE S == DisabledBy(c, app)
           kept == devices \ S
           live == \E d \in kept : find_profile(c, app, IdOf[d.path]) # NoProfile
           full == kept = {} \/ c.raw # rawOn
           f == [d \in devices |-> [Reapply(d, c, app) EXCEPT !.applied = IF live THEN @ ELSE NoProfile]]
<1>1. CASE full
  <2>1. /\ devices' = {} /\ openedPaths' = {} /\ openedIds' = {}
        /\ grabs' = grabs \ {d.path : d \in {e \in devices : e.alive}}
    BY <1>1 DEF apply_new_config
  <2>2. grabs' = {}
    BY <2>1 DEF HeldInv, GrabsOwned, PathsOf
  <2> QED BY <2>1, <2>2 DEF HeldTypes, HeldInv, OpenSetsAgree, OneGrabPerMouse, GrabsOwned, PathsOf, IdsOf
<1>2. CASE ~full
  <2>1. devices' = {f[d] : d \in kept}
    BY <1>2 DEF apply_new_config
  <2>2. Release(S)
    BY <1>2 DEF apply_new_config
  <2>3. S \in SUBSET devices
    BY DEF DisabledBy
  <2>4. \A d \in devices : f[d] \in DeviceType /\ f[d].path = d.path /\ f[d].alive = d.alive
    <3> SUFFICES ASSUME NEW d \in devices
                 PROVE  f[d] \in DeviceType /\ f[d].path = d.path /\ f[d].alive = d.alive
      OBVIOUS
    <3>1. /\ Reapply(d, c, app) \in DeviceType
          /\ Reapply(d, c, app).path = d.path
          /\ Reapply(d, c, app).alive = d.alive
      BY ReapplyKeeps DEF TypeOK, HeldTypes
    <3>2. f[d] = [Reapply(d, c, app) EXCEPT !.applied = IF live THEN @ ELSE NoProfile]
      OBVIOUS
    <3> HIDE DEF f, live
    <3> QED BY <3>1, <3>2 DEF DeviceType
  <2>5. DOMAIN f = devices /\ f = [d \in devices |-> f[d]]
    OBVIOUS
  <2> HIDE DEF f
  <2>6. f \in [devices -> DeviceType]
    BY <2>4, <2>5
  <2> HIDE DEF S
  <2> QED BY <2>1, <2>2, <2>3, <2>4, <2>6, HeldUpdate DEF TypeOK
<1> QED BY <1>1, <1>2

LEMMA HeldUnplug ==
  ASSUME TypeOK, HeldInv, NEW p \in Paths, Unplug(p)
  PROVE  HeldTypes' /\ HeldInv'
<1> DEFINE g(d) == [d EXCEPT !.alive = d.alive /\ d.path # p]
<1>1. /\ devices' = {g(d) : d \in devices} /\ grabs' = grabs \ {p}
      /\ UNCHANGED <<openedPaths, openedIds>>
  BY DEF Unplug
<1>2. \A d \in devices : /\ g(d) \in DeviceType /\ g(d).path = d.path
                         /\ g(d).alive = (d.alive /\ d.path # p)
  BY DEF TypeOK, HeldTypes, DeviceType
<1> HIDE DEF g
<1>3. HeldTypes'
  BY <1>1, <1>2 DEF TypeOK, HeldTypes
<1>4. openedPaths' = PathsOf(devices') /\ openedIds' = IdsOf(devices')
  BY <1>1, <1>2 DEF HeldInv, OpenSetsAgree, PathsOf, IdsOf
<1>5. OneGrabPerMouse'
  BY <1>1, <1>2 DEF HeldInv, OneGrabPerMouse
<1>6. grabs' = PathsOf({d \in devices' : d.alive})
  <2> DEFINE rest == {d \in devices : d.alive /\ d.path # p}
  <2>1. {d \in devices' : d.alive} = {g(d) : d \in rest}
    BY <1>1, <1>2, Zenon
  <2>2. grabs' = {d.path : d \in rest}
    BY <1>1, Zenon DEF HeldInv, GrabsOwned, PathsOf
  <2>3. \A d \in rest : g(d).path = d.path
    BY <1>2
  <2> HIDE DEF rest
  <2> QED BY <2>1, <2>2, <2>3 DEF PathsOf
<1> QED BY <1>3, <1>4, <1>5, <1>6 DEF HeldInv, OpenSetsAgree, GrabsOwned

\* The steps that leave the devices alone.
LEMMA HeldUnchanged ==
  ASSUME \/ \E p \in Paths : \/ SkipOpened(p) \/ SkipDenied(p) \/ OpenFails(p) \/ GrabFails(p)
                             \/ HeldBack(p) \/ SkipDuplicate(p) \/ SkipDisabled(p)
                             \/ CreateFails(p) \/ EpollFails(p) \/ Plug(p)
         \/ EndPass \/ HandleHotplug \/ KickRescan \/ SameActiveApp \/ Tick
         \/ \E a \in Focus : SetActiveApp(a)
         \/ UNCHANGED vars
  PROVE  UNCHANGED heldVars
BY DEF SkipOpened, SkipDenied, OpenFails, GrabFails, HeldBack, SkipDuplicate, SkipDisabled,
       CreateFails, EpollFails, Plug, EndPass, HandleHotplug, KickRescan, SameActiveApp, Tick,
       SetActiveApp, heldVars, vars

\* No step of the daemon or its environment breaks the books.
LEMMA HeldStep ==
  ASSUME TypeOK, HeldInv, [Next]_vars
  PROVE  HeldTypes' /\ HeldInv'
<1>1. ASSUME NEW p \in Paths, VisitMouse(p)
      PROVE  HeldTypes' /\ HeldInv'
  BY <1>1, HeldOpen, HeldUnchanged, HeldSame, Zenon DEF VisitMouse, TypeOK
<1>2. ASSUME NEW d \in devices, Disconnect(d) \/ IoError(d)
      PROVE  HeldTypes' /\ HeldInv'
  BY <1>2, HeldRemove, Zenon DEF Disconnect, IoError
<1>3. CASE HotplugScan \/ PeriodicRescan
  BY <1>3, HeldScan, Zenon DEF HotplugScan, PeriodicRescan
<1>4. CASE ApplyNewConfig
  BY <1>4, HeldConfig, Zenon DEF ApplyNewConfig
<1>5. CASE EndPass \/ HandleHotplug \/ KickRescan \/ SameActiveApp \/ Tick \/ UNCHANGED vars
  BY <1>5, HeldUnchanged, HeldSame, Zenon DEF TypeOK
<1>6. ASSUME NEW a \in Focus, SetActiveApp(a)
      PROVE  HeldTypes' /\ HeldInv'
  BY <1>6, HeldUnchanged, HeldSame, Zenon DEF TypeOK
<1>7. ASSUME NEW p \in Paths, Plug(p) \/ Unplug(p)
      PROVE  HeldTypes' /\ HeldInv'
  BY <1>7, HeldUnplug, HeldUnchanged, HeldSame, Zenon DEF TypeOK
<1>8. CASE ApplyActiveApp
  BY <1>8, HeldFocus
<1>9. CASE LoopStep
  BY <1>1, <1>2, <1>3, <1>5, <1>8, <1>9, Zenon DEF LoopStep
<1> QED BY <1>2, <1>4, <1>5, <1>6, <1>7, <1>9, Zenon DEF Next

-----------------------------------------------------------------------------
(* Types *)

RestTypes ==
  /\ KernelTypes /\ ChoiceTypes /\ DenyTypes /\ TimerTypes /\ PassTypes
  /\ spent \in [Bounded -> Nat]

LEMMA RestSame ==
  ASSUME RestTypes, UNCHANGED <<kernelVars, choiceVars, denyVars, timerVars, passVars, spent>>
  PROVE  RestTypes'
BY DEF RestTypes, KernelTypes, ChoiceTypes, DenyTypes, TimerTypes, PassTypes,
       kernelVars, choiceVars, denyVars, timerVars, passVars

LEMMA SpendType ==
  ASSUME spent \in [Bounded -> Nat], NEW what \in Bounded, NEW max, Spend(what, max)
  PROVE  spent' \in [Bounded -> Nat]
BY DEF Spend

LEMMA CanFailType ==
  ASSUME spent \in [Bounded -> Nat], NEW fault, CanFail(fault)
  PROVE  spent' \in [Bounded -> Nat]
BY SpendType DEF CanFail, Bounded

LEMMA DenyType ==
  ASSUME DenyTypes, NEW p \in Paths, deny_reopen(p)
  PROVE  DenyTypes'
<1>1. DenyTicks \in {NoDeny} \cup 0..DenyTicks
  BY DeviceAssumption
<1>2. IdOf[p] \in Ids
  BY DeviceAssumption
<1> QED BY <1>1, <1>2 DEF DenyTypes, deny_reopen

LEMMA PruneType ==
  ASSUME DenyTypes, Prune
  PROVE  DenyTypes'
<1>1. \A p \in Paths : pathDeny[p] \in {NoDeny} \cup 0..DenyTicks
  BY DEF DenyTypes
<1>2. \A i \in Ids : idDeny[i] \in {NoDeny} \cup 0..DenyTicks
  BY DEF DenyTypes
<1> QED BY <1>1, <1>2 DEF DenyTypes, Prune

LEMMA BeginType ==
  ASSUME DenyTypes, NEW kind \in {"setup", "scan"}, Begin(kind)
  PROVE  DenyTypes' /\ PassTypes'
BY PruneType DEF Begin, PassTypes, Listed

LEMMA ScanType ==
  ASSUME DenyTypes, PassTypes, do_hotplug_scan
  PROVE  DenyTypes' /\ PassTypes'
<1>1. CASE rawOn
  BY <1>1, BeginType DEF do_hotplug_scan
<1>2. CASE ~rawOn
  BY <1>2 DEF do_hotplug_scan, DenyTypes, PassTypes, denyVars, passVars
<1> QED BY <1>1, <1>2

\* What every visit of a mouse has in common.
LEMMA VisitType ==
  ASSUME RestTypes, NEW p \in Paths, Visit(p), DenyTypes', missed' \in BOOLEAN,
         spent' \in [Bounded -> Nat]
  PROVE  RestTypes'
BY DEF RestTypes, Visit, KernelTypes, ChoiceTypes, TimerTypes, PassTypes,
       kernelVars, choiceVars, timerVars

LEMMA VisitMouseType ==
  ASSUME RestTypes, NEW p \in Paths, VisitMouse(p)
  PROVE  RestTypes'
<1>0. DenyTypes /\ missed \in BOOLEAN /\ spent \in [Bounded -> Nat]
  BY DEF RestTypes, PassTypes
<1>s. ASSUME UNCHANGED denyVars
      PROVE  DenyTypes'
  BY <1>0, <1>s DEF DenyTypes, denyVars
<1>1. CASE SkipOpened(p)
  <2>1. Visit(p) /\ UNCHANGED denyVars /\ missed' \in BOOLEAN /\ spent' = spent
    BY <1>0, <1>1 DEF SkipOpened, Miss, NoMiss
  <2> QED BY <1>0, <1>s, <2>1, VisitType
<1>2. CASE SkipDenied(p)
  <2>1. Visit(p) /\ UNCHANGED denyVars /\ missed' \in BOOLEAN /\ spent' = spent
    BY <1>0, <1>2 DEF SkipDenied, Miss, NoMiss
  <2> QED BY <1>0, <1>s, <2>1, VisitType
<1>3. CASE SkipDuplicate(p)
  <2>1. Visit(p) /\ UNCHANGED denyVars /\ missed' \in BOOLEAN /\ spent' = spent
    BY <1>0, <1>3 DEF SkipDuplicate, Miss, NoMiss
  <2> QED BY <1>0, <1>s, <2>1, VisitType
<1>4. CASE SkipDisabled(p)
  <2>1. Visit(p) /\ UNCHANGED denyVars /\ missed' \in BOOLEAN /\ spent' = spent
    BY <1>0, <1>4 DEF SkipDisabled, Miss, NoMiss
  <2> QED BY <1>0, <1>s, <2>1, VisitType
<1>5. CASE OpenDevice(p)
  <2>1. Visit(p) /\ UNCHANGED denyVars /\ missed' \in BOOLEAN /\ spent' = spent
    BY <1>0, <1>5 DEF OpenDevice, Miss, NoMiss
  <2> QED BY <1>0, <1>s, <2>1, VisitType
<1>6. CASE GrabFails(p)
  <2>1. Visit(p) /\ deny_reopen(p) /\ missed' \in BOOLEAN
    BY <1>6 DEF GrabFails, Miss
  <2>2. spent' \in [Bounded -> Nat]
    BY <1>0, <1>6, CanFailType DEF GrabFails
  <2> QED BY <1>0, <2>1, <2>2, DenyType, VisitType
<1>7. CASE HeldBack(p)
  <2>1. Visit(p) /\ deny_reopen(p) /\ missed' \in BOOLEAN
    BY <1>7 DEF HeldBack, Miss
  <2>2. spent' \in [Bounded -> Nat]
    BY <1>0, <1>7, CanFailType DEF HeldBack
  <2> QED BY <1>0, <2>1, <2>2, DenyType, VisitType
<1>8. CASE CreateFails(p)
  <2>1. Visit(p) /\ deny_reopen(p) /\ missed' \in BOOLEAN
    BY <1>8 DEF CreateFails, Miss
  <2>2. spent' \in [Bounded -> Nat]
    BY <1>0, <1>8, CanFailType DEF CreateFails
  <2> QED BY <1>0, <2>1, <2>2, DenyType, VisitType
<1>9. CASE EpollFails(p)
  <2>1. Visit(p) /\ UNCHANGED denyVars /\ missed' \in BOOLEAN
    BY <1>9 DEF EpollFails, Miss
  <2>2. spent' \in [Bounded -> Nat]
    BY <1>0, <1>9, CanFailType DEF EpollFails
  <2> QED BY <1>s, <2>1, <2>2, VisitType
<1>10. CASE OpenFails(p)
  <2>1. Visit(p) /\ missed' \in BOOLEAN
    BY <1>10 DEF OpenFails, Miss
  <2>2. spent' \in [Bounded -> Nat]
    BY <1>0, <1>10, CanFailType DEF OpenFails
  <2>3. DenyTypes'
    BY <1>0, <1>10, DeviceAssumption DEF OpenFails, DenyTypes, NoDeny
  <2> QED BY <2>1, <2>2, <2>3, VisitType
<1> QED BY <1>1, <1>2, <1>3, <1>4, <1>5, <1>6, <1>7, <1>8, <1>9, <1>10, Zenon DEF VisitMouse

LEMMA RemoveType ==
  ASSUME RestTypes, NEW d \in DeviceType, Remove(d), spent' \in [Bounded -> Nat]
  PROVE  RestTypes'
<1>1. d.path \in Paths /\ IdOf[d.path] \in Ids
  BY DeviceAssumption DEF DeviceType
<1>2. DenyTypes'
  <2>1. CASE SameNode(d)
    BY <1>1, <2>1, DenyType DEF Remove, RestTypes
  <2>2. CASE ~SameNode(d)
    BY <1>1, <2>2 DEF Remove, RestTypes, DenyTypes
  <2> QED BY <2>1, <2>2
<1> QED BY <1>2 DEF Remove, RestTypes, KernelTypes, ChoiceTypes, TimerTypes, PassTypes,
                    kernelVars, choiceVars, passVars

LEMMA ChangeType ==
  ASSUME RestTypes, ApplyNewConfig
  PROVE  RestTypes'
<1>1. PICK c \in Configs : apply_new_config(c)
  BY DEF ApplyNewConfig
<1>2. cfg' = c /\ rawOn' = c.raw /\ c.raw \in BOOLEAN
  BY <1>1, DeviceAssumption DEF apply_new_config, ConfigType
<1>3. DenyTypes' /\ PassTypes'
  <2>1. (setup_devices \/ UNCHANGED <<passVars, denyVars>>)
    BY <1>1 DEF apply_new_config
  <2>2. Begin("setup") \/ UNCHANGED <<passVars, denyVars>>
    BY <2>1 DEF setup_devices
  <2>3. CASE Begin("setup")
    BY <2>3, BeginType DEF RestTypes
  <2>4. CASE UNCHANGED <<passVars, denyVars>>
    BY <2>4 DEF RestTypes, PassTypes, DenyTypes, passVars, denyVars
  <2> QED BY <2>2, <2>3, <2>4
<1>4. spent' \in [Bounded -> Nat]
  BY SpendType DEF ApplyNewConfig, RestTypes, Bounded
<1> QED BY <1>2, <1>3, <1>4 DEF ApplyNewConfig, RestTypes, KernelTypes, ChoiceTypes, TimerTypes, kernelVars

\* Every step keeps the types of everything but the devices.
LEMMA RestStep ==
  ASSUME TypeOK, [Next]_vars
  PROVE  RestTypes'
<1> USE DEF Bounded
<1>0. RestTypes /\ spent \in [Bounded -> Nat] /\ devices \subseteq DeviceType
  BY DEF TypeOK, RestTypes, HeldTypes
<1>1. ASSUME NEW p \in Paths, VisitMouse(p)
      PROVE  RestTypes'
  BY <1>0, <1>1, VisitMouseType
<1>2. ASSUME NEW d \in devices, Disconnect(d)
      PROVE  RestTypes'
  BY <1>0, <1>2, RemoveType DEF Disconnect
<1>3. ASSUME NEW d \in devices, IoError(d)
      PROVE  RestTypes'
  BY <1>0, <1>3, RemoveType, SpendType DEF IoError
<1>4. CASE EndPass
  BY <1>0, <1>4 DEF EndPass, RestTypes, KernelTypes, ChoiceTypes, DenyTypes, TimerTypes, PassTypes,
                    kernelVars, choiceVars, denyVars
<1>5. CASE HandleHotplug
  BY <1>0, <1>5 DEF HandleHotplug, RestTypes, KernelTypes, ChoiceTypes, DenyTypes, TimerTypes, PassTypes,
                    choiceVars, denyVars, passVars
<1>6. CASE HotplugScan
  <2>1. DenyTypes' /\ PassTypes'
    BY <1>0, <1>6, ScanType DEF HotplugScan, RestTypes
  <2> QED BY <1>0, <1>6, <2>1 DEF HotplugScan, RestTypes, KernelTypes, ChoiceTypes, TimerTypes, kernelVars, choiceVars
<1>7. CASE KickRescan
  BY <1>0, <1>7 DEF KickRescan, RestTypes, KernelTypes, ChoiceTypes, DenyTypes, TimerTypes, PassTypes,
                    kernelVars, choiceVars, denyVars, passVars
<1>8. CASE PeriodicRescan
  <2>1. DenyTypes' /\ PassTypes'
    BY <1>0, <1>8, ScanType DEF PeriodicRescan, RestTypes
  <2> QED BY <1>0, <1>8, <2>1, DeviceAssumption
          DEF PeriodicRescan, RestTypes, KernelTypes, ChoiceTypes, TimerTypes, kernelVars, choiceVars
<1>9. CASE ApplyActiveApp
  BY <1>0, <1>9 DEF ApplyActiveApp, RestTypes, KernelTypes, ChoiceTypes, DenyTypes, TimerTypes, PassTypes,
                    kernelVars, denyVars, passVars
<1>10. CASE SameActiveApp
  BY <1>0, <1>10 DEF SameActiveApp, RestTypes, KernelTypes, ChoiceTypes, DenyTypes, TimerTypes, PassTypes,
                     kernelVars, denyVars, timerVars, passVars
<1>11. CASE ApplyNewConfig
  BY <1>0, <1>11, ChangeType
<1>12. CASE Tick
  <2>1. \A n \in {NoDeny} \cup 0..DenyTicks : Down(n) \in {NoDeny} \cup 0..DenyTicks
    BY DeviceAssumption DEF Down, NoDeny
  <2>2. DenyTypes'
    BY <1>0, <1>12, <2>1 DEF Tick, RestTypes, DenyTypes
  <2>3. Down(rescanIn) \in 0..PeriodTicks
    BY <1>0, DeviceAssumption DEF Down, RestTypes, TimerTypes
  <2> QED BY <1>0, <1>12, <2>2, <2>3 DEF Tick, RestTypes, KernelTypes, ChoiceTypes, TimerTypes, PassTypes,
                                         kernelVars, choiceVars, passVars
<1>13. ASSUME NEW a \in Focus, SetActiveApp(a)
       PROVE  RestTypes'
  <2>1. spent' \in [Bounded -> Nat]
    BY <1>0, <1>13, SpendType DEF SetActiveApp
  <2> QED BY <1>0, <1>13, <2>1 DEF SetActiveApp, RestTypes, KernelTypes, ChoiceTypes, DenyTypes, TimerTypes,
                                   PassTypes, kernelVars, denyVars, timerVars, passVars
<1>14. ASSUME NEW p \in Paths, Plug(p)
       PROVE  RestTypes'
  <2>1. spent' \in [Bounded -> Nat]
    BY <1>0, <1>14, SpendType DEF Plug
  <2> QED BY <1>0, <1>14, <2>1 DEF Plug, RestTypes, KernelTypes, ChoiceTypes, DenyTypes, TimerTypes,
                                   PassTypes, choiceVars, denyVars, timerVars, passVars
<1>15. ASSUME NEW p \in Paths, Unplug(p)
       PROVE  RestTypes'
  <2>1. spent' \in [Bounded -> Nat]
    BY <1>0, <1>15, SpendType DEF Unplug
  <2> QED BY <1>0, <1>15, <2>1 DEF Unplug, RestTypes, KernelTypes, ChoiceTypes, DenyTypes, TimerTypes,
                                   PassTypes, choiceVars, denyVars, timerVars, passVars
<1>16. CASE UNCHANGED vars
  BY <1>0, <1>16, RestSame DEF vars
<1>17. CASE LoopStep
  BY <1>1, <1>2, <1>4, <1>5, <1>6, <1>7, <1>8, <1>9, <1>10, <1>17, Zenon DEF LoopStep
<1> QED BY <1>3, <1>11, <1>12, <1>13, <1>14, <1>15, <1>16, <1>17, Zenon DEF Next

-----------------------------------------------------------------------------
(* The intercept switch *)

\* With the switch off nothing is held and no pass is under way.
RawInv ==
  /\ ~rawOn => devices = {} /\ todo = {}
  /\ pass = "idle" => todo = {}

LEMMA RawScan ==
  ASSUME RawInv, do_hotplug_scan, UNCHANGED rawOn
  PROVE  RawInv'
BY DEF RawInv, do_hotplug_scan, Begin, passVars, heldVars

LEMMA RawStep ==
  ASSUME TypeOK, RawInv, [Next]_vars
  PROVE  RawInv'
<1>1. ASSUME NEW p \in Paths, VisitMouse(p)
      PROVE  RawInv'
  <2>1. Visit(p)
    BY <1>1 DEF VisitMouse, SkipOpened, SkipDenied, OpenFails, GrabFails, HeldBack, SkipDuplicate,
                SkipDisabled, CreateFails, EpollFails, OpenDevice
  <2>2. rawOn /\ UNCHANGED <<rawOn, pass>> /\ pass # "idle"
    BY <2>1 DEF Visit, RawInv, choiceVars, TypeOK, ChoiceTypes
  <2> QED BY <2>2 DEF RawInv
<1>2. ASSUME NEW d \in devices, Disconnect(d) \/ IoError(d)
      PROVE  RawInv'
  <2>1. Remove(d)
    BY <1>2 DEF Disconnect, IoError
  <2> QED BY <2>1 DEF Remove, RawInv, choiceVars, passVars
<1>3. CASE EndPass
  BY <1>3 DEF EndPass, RawInv, choiceVars, heldVars
<1>4. CASE HotplugScan
  BY <1>4, RawScan DEF HotplugScan, choiceVars
<1>5. CASE PeriodicRescan
  BY <1>5, RawScan DEF PeriodicRescan, choiceVars
<1>6. CASE ApplyActiveApp
  BY <1>6 DEF ApplyActiveApp, RawInv, passVars
<1>7. CASE ApplyNewConfig
  <2>1. PICK c \in Configs : apply_new_config(c)
    BY <1>7 DEF ApplyNewConfig
  <2>2. todo = {} /\ pass = "idle"
    BY <1>7 DEF ApplyNewConfig, Idle, RawInv
  <2>3. (setup_devices \/ UNCHANGED <<passVars, denyVars>>) /\ rawOn' = c.raw
    BY <2>1 DEF apply_new_config
  <2>4. UNCHANGED passVars \/ (rawOn' /\ pass' = "setup")
    BY <2>3 DEF setup_devices, Begin
  <2>5. CASE ~c.raw
    <3>1. devices' = {}
      BY <2>1, <2>5, DeviceAssumption DEF apply_new_config, RawInv, ConfigType, TypeOK, ChoiceTypes
    <3> QED BY <2>2, <2>3, <2>4, <2>5, <3>1 DEF RawInv, passVars
  <2>6. CASE c.raw
    BY <2>2, <2>3, <2>4, <2>6 DEF RawInv, passVars
  <2> QED BY <2>5, <2>6
<1>8. ASSUME NEW p \in Paths, Unplug(p)
      PROVE  RawInv'
  BY <1>8 DEF Unplug, RawInv, choiceVars, passVars
<1>9. ASSUME \/ HandleHotplug \/ KickRescan \/ SameActiveApp \/ Tick \/ UNCHANGED vars
             \/ \E a \in Focus : SetActiveApp(a)
             \/ \E p \in Paths : Plug(p)
      PROVE  RawInv'
  BY <1>9 DEF HandleHotplug, KickRescan, SameActiveApp, Tick, SetActiveApp, Plug, vars, RawInv,
              choiceVars, heldVars, passVars
<1>10. CASE LoopStep
  BY <1>1, <1>2, <1>3, <1>4, <1>5, <1>6, <1>9, <1>10, Zenon DEF LoopStep
<1> QED BY <1>2, <1>7, <1>8, <1>9, <1>10, Zenon DEF Next

-----------------------------------------------------------------------------
(* The selected profile *)

\* What config and focus say of an open device.
Suits(d, c, a) ==
  /\ ~Disabled(c, a, IdOf[d.path])
  /\ find_profile(c, a, IdOf[d.path]) # NoProfile => d.applied = find_profile(c, a, IdOf[d.path])

SelectInv == \A d \in devices : Suits(d, cfg, app)

LEMMA SelectKept ==
  ASSUME SelectInv, UNCHANGED <<cfg, app>>,
         \A d \in devices' : \E e \in devices : d.path = e.path /\ d.applied = e.applied
  PROVE  SelectInv'
BY DEF SelectInv, Suits

LEMMA SelectStep ==
  ASSUME TypeOK, SelectInv, [Next]_vars
  PROVE  SelectInv'
<1>1. ASSUME NEW p \in Paths, OpenDevice(p)
      PROVE  SelectInv'
  <2>1. devices' = devices \cup {Device(p)} /\ ~Disabled(cfg, app, IdOf[p]) /\ UNCHANGED <<cfg, app>>
    BY <1>1 DEF OpenDevice, Wanted, Visit, choiceVars
  <2>2. Suits(Device(p), cfg, app)
    BY <2>1 DEF Suits, Device
  <2> QED BY <2>1, <2>2 DEF SelectInv, Suits
<1>2. ASSUME devices' \subseteq devices, UNCHANGED <<cfg, app>>
      PROVE  SelectInv'
  BY <1>2, SelectKept
<1>3. ASSUME NEW d \in devices, Disconnect(d) \/ IoError(d)
      PROVE  SelectInv'
  BY <1>2, <1>3 DEF Disconnect, IoError, Remove, choiceVars
<1>4. CASE HotplugScan \/ PeriodicRescan
  BY <1>2, <1>4 DEF HotplugScan, PeriodicRescan, do_hotplug_scan, choiceVars, heldVars
<1>5. CASE ApplyActiveApp
  <2>1. PICK a \in report : /\ app' = a /\ cfg' = cfg
                            /\ devices' = {Reapply(d, cfg, a) : d \in devices \ DisabledBy(cfg, a)}
    BY <1>5 DEF ApplyActiveApp
  <2>2. ASSUME NEW d \in devices \ DisabledBy(cfg, a)
        PROVE  Suits(Reapply(d, cfg, a), cfg, a)
    <3>1. d \in DeviceType /\ cfg \in Configs
      BY DEF TypeOK, HeldTypes, ChoiceTypes
    <3>2. ~Disabled(cfg, a, IdOf[d.path])
      BY DEF DisabledBy
    <3> QED BY <3>1, <3>2, ReapplyKeeps DEF Suits
  <2> QED BY <2>1, <2>2 DEF SelectInv
<1>6. CASE ApplyNewConfig
  <2>1. PICK c \in Configs : apply_new_config(c)
    BY <1>6 DEF ApplyNewConfig
  <2>2. cfg' = c /\ app' = app
    BY <1>6, <2>1 DEF ApplyNewConfig, apply_new_config
  <2> DEFINE kept == devices \ DisabledBy(c, app)
             live == \E d \in kept : find_profile(c, app, IdOf[d.path]) # NoProfile
             new(d) == [Reapply(d, c, app) EXCEPT !.applied = IF live THEN @ ELSE NoProfile]
  <2>3. devices' = {} \/ devices' = {new(d) : d \in kept}
    BY <2>1 DEF apply_new_config
  <2>4. ASSUME NEW d \in kept
        PROVE  Suits(new(d), c, app)
    <3>1. d \in DeviceType
      BY DEF TypeOK, HeldTypes
    <3>2. /\ Reapply(d, c, app) \in DeviceType /\ Reapply(d, c, app).path = d.path
          /\ find_profile(c, app, IdOf[d.path]) # NoProfile
               => Reapply(d, c, app).applied = find_profile(c, app, IdOf[d.path])
      BY <3>1, ReapplyKeeps
    <3>3. find_profile(c, app, IdOf[d.path]) # NoProfile => live
      OBVIOUS
    <3>4. ~Disabled(c, app, IdOf[d.path])
      BY DEF DisabledBy
    <3> HIDE DEF live
    <3>5. new(d).path = d.path /\ (live => new(d).applied = Reapply(d, c, app).applied)
      BY <3>2 DEF DeviceType
    <3> QED BY <3>2, <3>3, <3>4, <3>5 DEF Suits
  <2> QED BY <2>2, <2>3, <2>4 DEF SelectInv
<1>7. ASSUME NEW p \in Paths, Unplug(p)
      PROVE  SelectInv'
  <2>1. devices' = {[d EXCEPT !.alive = d.alive /\ d.path # p] : d \in devices} /\ UNCHANGED <<cfg, app>>
    BY <1>7 DEF Unplug, choiceVars
  <2>2. \A d \in devices : LET n == [d EXCEPT !.alive = d.alive /\ d.path # p]
                           IN n.path = d.path /\ n.applied = d.applied
    BY DEF TypeOK, HeldTypes, DeviceType
  <2> QED BY <2>1, <2>2, SelectKept
<1>8. ASSUME \/ \E p \in Paths : \/ SkipOpened(p) \/ SkipDenied(p) \/ OpenFails(p) \/ GrabFails(p)
                                 \/ HeldBack(p) \/ SkipDuplicate(p) \/ SkipDisabled(p)
                                 \/ CreateFails(p) \/ EpollFails(p) \/ Plug(p)
             \/ EndPass \/ HandleHotplug \/ KickRescan \/ SameActiveApp \/ Tick
             \/ \E a \in Focus : SetActiveApp(a)
             \/ UNCHANGED vars
      PROVE  SelectInv'
  <2>1. UNCHANGED heldVars
    BY <1>8, HeldUnchanged, Zenon
  <2>2. UNCHANGED <<cfg, app>>
    BY <1>8 DEF SkipOpened, SkipDenied, OpenFails, GrabFails, HeldBack, SkipDuplicate, SkipDisabled,
                CreateFails, EpollFails, Visit, Plug, EndPass, HandleHotplug, KickRescan, SameActiveApp,
                Tick, SetActiveApp, choiceVars, vars
  <2> QED BY <1>2, <2>1, <2>2 DEF heldVars
<1>9. ASSUME NEW p \in Paths, VisitMouse(p)
      PROVE  SelectInv'
  BY <1>1, <1>8, <1>9, Zenon DEF VisitMouse
<1>10. CASE LoopStep
  BY <1>3, <1>4, <1>5, <1>8, <1>9, <1>10, Zenon DEF LoopStep
<1> QED BY <1>3, <1>6, <1>7, <1>8, <1>10, Zenon DEF Next

-----------------------------------------------------------------------------
(* No mouse is forgotten *)

\* Nothing is to be done about this mouse ...
Settled(p) == IdOf[p] \in openedIds \/ Disabled(cfg, app, IdOf[p])

\* ... or the pass still comes to it, or has left word that it failed: start()
\* in the deny list, a scan in missed_any, a config change in rescan_needed_.
Pending(p) ==
  \/ inotify
  \/ pass = "start" /\ (p \in todo \/ pathDeny[p] # NoDeny)
  \/ pass = "setup" /\ rescanNeeded
  \/ pass = "scan" /\ (p \in todo \/ missed)
  \/ pass = "idle" /\ RetryComing

RetryInv == rawOn => \A p \in Listed : Settled(p) \/ Pending(p)

LEMMA RetryUnchanged ==
  ASSUME RetryInv, UNCHANGED <<rdev, cfg, app, rawOn, heldVars, denyVars, timerVars, passVars>>, inotify => inotify'
  PROVE  RetryInv'
BY DEF RetryInv, Settled, Pending, Listed, RetryComing, heldVars, denyVars, timerVars, passVars

\* A failure in the pass of start() leaves a deny entry, one in a scan is
\* counted; every other outcome settles the mouse.
LEMMA RetryVisited ==
  ASSUME TypeOK, OpenSetsAgree, "epoll" \notin StartFaults, NEW p \in Paths, VisitMouse(p), rawOn
  PROVE  \/ Settled(p)'
         \/ pass = "start" /\ pathDeny'[p] # NoDeny
         \/ pass # "start" /\ missed'
<1> USE DeviceAssumption
<1>1. CASE SkipOpened(p)
  <2>1. PICK d \in devices : d.path = p
    BY <1>1 DEF SkipOpened, OpenSetsAgree, PathsOf
  <2>2. IdOf[p] \in openedIds
    BY <2>1 DEF OpenSetsAgree, IdsOf
  <2> QED BY <1>1, <2>2 DEF SkipOpened, Settled, heldVars
<1>2. CASE SkipDenied(p)
  BY <1>2 DEF SkipDenied, Miss, denyVars, NoDeny
<1>3. CASE OpenFails(p)
  BY <1>3 DEF OpenFails, Miss, NoDeny, TypeOK, DenyTypes
<1>4. CASE GrabFails(p) \/ HeldBack(p) \/ CreateFails(p)
  BY <1>4 DEF GrabFails, HeldBack, CreateFails, deny_reopen, Miss, NoDeny, TypeOK, DenyTypes
<1>5. CASE SkipDuplicate(p)
  BY <1>5 DEF SkipDuplicate, Settled, heldVars
<1>6. CASE SkipDisabled(p)
  BY <1>6 DEF SkipDisabled, Visit, Settled, choiceVars
<1>7. CASE EpollFails(p)
  BY <1>7 DEF EpollFails, CanFail, Miss
<1>8. CASE OpenDevice(p)
  BY <1>8 DEF OpenDevice, Settled
<1> QED BY <1>1, <1>2, <1>3, <1>4, <1>5, <1>6, <1>7, <1>8 DEF VisitMouse

\* A visit takes nothing from the other mice.
LEMMA VisitKeeps ==
  ASSUME TypeOK, NEW p \in Paths, VisitMouse(p)
  PROVE  /\ Visit(p)
         /\ openedIds \subseteq openedIds'
         /\ missed => missed'
         /\ \A q \in Paths : pathDeny[q] # NoDeny => pathDeny'[q] # NoDeny
<1>1. DenyTicks # NoDeny /\ pathDeny \in [Paths -> {NoDeny} \cup 0..DenyTicks]
  BY DeviceAssumption DEF NoDeny, TypeOK, DenyTypes
<1>2. CASE SkipOpened(p) \/ SkipDenied(p) \/ SkipDuplicate(p) \/ SkipDisabled(p) \/ EpollFails(p)
  BY <1>2 DEF SkipOpened, SkipDenied, SkipDuplicate, SkipDisabled, EpollFails, Miss, NoMiss, heldVars, denyVars
<1>3. CASE OpenFails(p)
  BY <1>1, <1>3 DEF OpenFails, Miss, heldVars
<1>4. CASE GrabFails(p) \/ HeldBack(p) \/ CreateFails(p)
  BY <1>1, <1>4 DEF GrabFails, HeldBack, CreateFails, deny_reopen, Miss, heldVars
<1>5. CASE OpenDevice(p)
  BY <1>5 DEF OpenDevice, NoMiss, denyVars
<1> QED BY <1>2, <1>3, <1>4, <1>5 DEF VisitMouse

LEMMA RetryVisit ==
  ASSUME TypeOK, OpenSetsAgree, RawInv, RetryInv, "epoll" \notin StartFaults,
         NEW p \in Paths, VisitMouse(p)
  PROVE  RetryInv'
<1>1. /\ Visit(p) /\ openedIds \subseteq openedIds' /\ (missed => missed')
      /\ \A q \in Paths : pathDeny[q] # NoDeny => pathDeny'[q] # NoDeny
  BY VisitKeeps
<1>2. /\ UNCHANGED <<rdev, inotify, cfg, app, rawOn, rescanNeeded, pass>>
      /\ p \in todo /\ todo' = todo \ {p}
  BY <1>1 DEF Visit, kernelVars, choiceVars, timerVars
<1>3. rawOn /\ pass \in {"start", "setup", "scan"}
  BY <1>2 DEF RawInv, TypeOK, PassTypes, ChoiceTypes
<1>4. \/ Settled(p)'
      \/ pass = "start" /\ pathDeny'[p] # NoDeny
      \/ pass # "start" /\ missed'
  BY <1>3, RetryVisited
<1>5. \A q \in Paths : Settled(q) => Settled(q)'
  BY <1>1, <1>2 DEF Settled
<1>6. ASSUME NEW q \in Listed
      PROVE  Settled(q)' \/ Pending(q)'
  <2>1. q \in Paths /\ (Settled(q) \/ Pending(q))
    BY <1>3, <1>6 DEF RetryInv, Listed
  <2>2. CASE q = p
    <3>1. CASE pass = "setup"
      BY <1>2, <1>5, <2>1, <3>1 DEF Pending
    <3>2. CASE pass # "setup"
      BY <1>2, <1>3, <1>4, <2>2, <3>2 DEF Pending
    <3> QED BY <3>1, <3>2
  <2>3. CASE q # p
    BY <1>1, <1>2, <1>3, <1>5, <2>1, <2>3 DEF Pending
  <2> QED BY <2>2, <2>3
<1>7. Listed' = Listed
  BY <1>2 DEF Listed
<1> QED BY <1>6, <1>7 DEF RetryInv

LEMMA RetryStep ==
  ASSUME TypeOK, OpenSetsAgree, RawInv, RetryInv, "epoll" \notin StartFaults, [Next]_vars
  PROVE  RetryInv'
<1>1. ASSUME NEW p \in Paths, VisitMouse(p)
      PROVE  RetryInv'
  BY <1>1, RetryVisit
<1>2. ASSUME NEW d \in devices, Disconnect(d) \/ IoError(d)
      PROVE  RetryInv'
  <2>1. Remove(d)
    BY <1>2 DEF Disconnect, IoError
  <2>2. pass' = "idle" /\ rescanNeeded'
    BY <2>1 DEF Remove, Idle, passVars
  <2> QED BY <2>2 DEF RetryInv, Pending, RetryComing
<1>3. CASE EndPass
  <2>1. /\ todo = {} /\ pass' = "idle" /\ pass \in {"start", "setup", "scan"}
        /\ rescanNeeded' = IF pass = "scan" THEN missed ELSE rescanNeeded
        /\ UNCHANGED <<rdev, inotify, cfg, app, rawOn, openedIds, pathDeny>>
    BY <1>3 DEF EndPass, kernelVars, choiceVars, heldVars, denyVars
  <2>2. \A p \in Listed : Pending(p) => Pending(p)'
    <3> SUFFICES ASSUME NEW p \in Listed, Pending(p)
                 PROVE  Pending(p)'
      OBVIOUS
    <3>1. p \in Paths
      BY DEF Listed
    <3>2. inotify \/ pathDeny[p] # NoDeny \/ rescanNeeded'
      BY <2>1 DEF Pending
    <3>3. RetryComing'
      BY <2>1, <3>1, <3>2 DEF RetryComing
    <3> QED BY <2>1, <3>3 DEF Pending
  <2> QED BY <2>1, <2>2 DEF RetryInv, Settled, Listed
<1>4. CASE HotplugScan \/ PeriodicRescan
  <2>1. do_hotplug_scan /\ UNCHANGED <<rdev, rawOn>>
    BY <1>4 DEF HotplugScan, PeriodicRescan, kernelVars, choiceVars
  <2>2. rawOn => pass' = "scan" /\ todo' = Listed
    BY <2>1 DEF do_hotplug_scan, Begin
  <2> QED BY <2>1, <2>2 DEF RetryInv, Pending, Listed
<1>5. CASE HandleHotplug
  <2>1. pass' = "idle" /\ hotplug'
    BY <1>5 DEF HandleHotplug, Idle, passVars
  <2> QED BY <2>1 DEF RetryInv, Pending, RetryComing
<1>6. CASE KickRescan \/ ApplyActiveApp
  <2>1. pass' = "idle" /\ rescanNeeded'
    BY <1>6 DEF KickRescan, ApplyActiveApp, Idle, passVars
  <2> QED BY <2>1 DEF RetryInv, Pending, RetryComing
<1>7. CASE ApplyNewConfig
  <2>1. PICK c \in Configs : apply_new_config(c)
    BY <1>7 DEF ApplyNewConfig
  <2>2. rescanNeeded' /\ pass = "idle"
    BY <1>7 DEF ApplyNewConfig, Idle
  <2>3. setup_devices \/ UNCHANGED <<passVars, denyVars>>
    BY <2>1 DEF apply_new_config
  <2>4. pass' \in {"idle", "setup"}
    BY <2>2, <2>3 DEF setup_devices, Begin, passVars
  <2> QED BY <2>2, <2>4 DEF RetryInv, Pending, RetryComing
<1>8. CASE SameActiveApp \/ UNCHANGED vars \/ \E a \in Focus : SetActiveApp(a)
  BY <1>8, RetryUnchanged DEF SameActiveApp, SetActiveApp, vars, kernelVars, choiceVars
<1>9. CASE Tick
  <2>1. /\ pass = "idle" /\ UNCHANGED <<rdev, inotify, cfg, app, rawOn, devices, openedIds, rescanNeeded, hotplug, pass>>
        /\ pathDeny' = [p \in Paths |-> Down(pathDeny[p])]
        /\ idDeny' = [i \in Ids |-> Down(idDeny[i])]
    BY <1>9 DEF Tick, Waiting, Idle, kernelVars, choiceVars, heldVars, passVars
  <2>2. \A n \in {NoDeny} \cup 0..DenyTicks : n # NoDeny => Down(n) # NoDeny
    BY DeviceAssumption DEF Down, NoDeny
  <2>3. /\ \A p \in Paths : pathDeny[p] # NoDeny => pathDeny'[p] # NoDeny
        /\ \A i \in Ids : idDeny[i] # NoDeny => idDeny'[i] # NoDeny
    BY <2>1, <2>2 DEF TypeOK, DenyTypes
  <2>4. RetryComing => RetryComing'
    BY <2>1, <2>3 DEF RetryComing
  <2> QED BY <2>1, <2>4 DEF RetryInv, Settled, Pending, Listed
<1>10. ASSUME NEW p \in Paths, Plug(p) \/ Unplug(p)
       PROVE  RetryInv'
  BY <1>10 DEF Plug, Unplug, RetryInv, Pending
<1>11. CASE LoopStep
  BY <1>1, <1>2, <1>3, <1>4, <1>5, <1>6, <1>8, <1>11, Zenon DEF LoopStep
<1> QED BY <1>2, <1>7, <1>8, <1>9, <1>10, <1>11, Zenon DEF Next

-----------------------------------------------------------------------------
(* Theorems *)

Inv == TypeOK /\ HeldInv /\ RawInv /\ SelectInv

LEMMA InitInv == Init => Inv /\ RetryInv
<1> SUFFICES ASSUME Init
             PROVE  Inv /\ RetryInv
  OBVIOUS
<1> USE DeviceAssumption
<1>1. devices = {} /\ openedPaths = {} /\ openedIds = {} /\ grabs = {}
  BY DEF Init
<1>2. HeldTypes /\ HeldInv /\ SelectInv
  BY <1>1 DEF HeldTypes, HeldInv, OpenSetsAgree, OneGrabPerMouse, GrabsOwned, SelectInv, PathsOf, IdsOf
<1>3. cfg \in Configs /\ cfg.raw \in BOOLEAN /\ rawOn = cfg.raw
  BY DEF Init, ConfigType
<1>4. KernelTypes /\ ChoiceTypes
  BY <1>3 DEF Init, KernelTypes, ChoiceTypes, Focus
<1>5. DenyTypes /\ TimerTypes /\ PassTypes /\ spent \in [Bounded -> Nat]
  <2>1. DenyTypes
    BY DEF Init, DenyTypes
  <2>2. TimerTypes
    <3>1. 0 \in 0..PeriodTicks
      OBVIOUS
    <3>2. rescanIn = 0 /\ rescanNeeded = FALSE /\ hotplug = FALSE
      BY DEF Init
    <3> QED BY <3>1, <3>2, Zenon DEF TimerTypes
  <2>3. PassTypes
    <3>1. todo \subseteq Paths
      BY DEF Init, Listed
    <3> QED BY <3>1 DEF Init, PassTypes
  <2> QED BY <2>1, <2>2, <2>3 DEF Init
<1>6. RawInv /\ RetryInv
  BY <1>1, <1>3 DEF Init, RawInv, RetryInv, Pending
<1> QED BY <1>2, <1>4, <1>5, <1>6 DEF Inv, TypeOK

LEMMA InvStep == Inv /\ [Next]_vars => Inv'
<1> SUFFICES ASSUME Inv, [Next]_vars
             PROVE  Inv'
  OBVIOUS
<1>1. HeldTypes' /\ HeldInv'
  BY HeldStep DEF Inv
<1>2. RestTypes'
  BY RestStep DEF Inv, TypeOK, RestTypes
<1>3. RawInv' /\ SelectInv'
  BY RawStep, SelectStep DEF Inv
<1> QED BY <1>1, <1>2, <1>3 DEF Inv, TypeOK, RestTypes

LEMMA InvAlways == Spec => []Inv
BY InitInv, InvStep, PTL DEF Spec

\* Every variable keeps its type: no sequence of failures prolongs a deny entry
\* past DENY_REOPEN_MS (deny_reopen, prune_path_deny, prune_dev_deny).
THEOREM TypeCorrect == Spec => []TypeOK
<1>1. Inv => TypeOK
  BY DEF Inv
<1> QED BY <1>1, InvAlways, PTL

\* opened_paths_ and opened_device_ids_ stay the paths and ids of devices_
\* through setup_devices, do_hotplug_scan, apply_new_config, apply_active_app
\* and the clean-up of run_loop.
THEOREM BooksAgree == Spec => []OpenSetsAgree
<1>1. Inv => OpenSetsAgree
  BY DEF Inv, HeldInv
<1> QED BY <1>1, InvAlways, PTL

\* HP-3: the daemon never grabs two nodes of one mouse.
THEOREM OneGrab == Spec => []OneGrabPerMouse
<1>1. Inv => OneGrabPerMouse
  BY DEF Inv, HeldInv
<1> QED BY <1>1, InvAlways, PTL

\* Every grabbed node belongs to an open device, after every early return of
\* setup_devices and do_hotplug_scan and every way a device is closed.
THEOREM NoGrabLeaks == Spec => []GrabsOwned
<1>1. Inv => GrabsOwned
  BY DEF Inv, HeldInv
<1> QED BY <1>1, InvAlways, PTL

\* PAS-1: with raw_input_enabled off no mouse is held, though scans, focus
\* changes and kernel events go on.
THEOREM RawOff == Spec => []RawOffHoldsNothing
<1>1. Inv => RawOffHoldsNothing
  BY DEF Inv, RawInv, HeldInv, GrabsOwned, PathsOf, RawOffHoldsNothing
<1> QED BY <1>1, InvAlways, PTL

\* PAS-2, HP-1, LIVE-DISABLE: a mouse that config and focus disable is released
\* in the step that disables it and is not opened while they do.
THEOREM DisabledReleased == Spec => []DisabledIsReleased
<1>1. Inv => DisabledIsReleased
  BY DEF Inv, SelectInv, Suits, DisabledIsReleased
<1> QED BY <1>1, InvAlways, PTL

\* apply_profile has been called with the profile find_profile selects, for
\* every open mouse and after every config and focus change.
THEOREM AppliedSelected == Spec => []AppliedIsSelected
<1>1. Inv => AppliedIsSelected
  BY DEF Inv, SelectInv, Suits, AppliedIsSelected
<1> QED BY <1>1, InvAlways, PTL

\* R5-B: if epoll_ctl does not fail while start() opens the mice, a mouse that
\* could be open and is not always has a retry coming.
THEOREM NothingForgotten ==
  ASSUME "epoll" \notin StartFaults
  PROVE  Spec => []NoMouseForgotten
<1>1. Inv /\ RetryInv => NoMouseForgotten
  BY DEF Inv, TypeOK, KernelTypes, RawInv, RetryInv, Settled, Pending, RetryComing, NoMouseForgotten, Idle
<1>2. Inv /\ RetryInv /\ [Next]_vars => RetryInv'
  BY RetryStep DEF Inv, HeldInv
<1> QED BY <1>1, <1>2, InitInv, InvAlways, PTL DEF Spec

\* The books, the devices and the grabs agree after every step.
THEOREM HoldsAlwaysSound == Spec => []HoldsAreSound
<1> QED BY BooksAgree, OneGrab, NoGrabLeaks, PTL DEF HoldsAreSound

\* What is held, and how, is always what config and focus ask for.
THEOREM ConfigAlwaysObeyed == Spec => []ConfigObeyed
<1>1. Inv => /\ \A id \in Ids : IsBest(cfg, app, id) /\ IsInScope(cfg, app, id)
             /\ IsNullForAll(cfg, app)
  <2>1. ASSUME Inv PROVE cfg \in ConfigType /\ app \in Focus
    BY <2>1, DeviceAssumption DEF Inv, TypeOK, ChoiceTypes
  <2>2. QED
    BY <2>1, BestIsSelected, ScopeIsKeptAlways, NullForAllAlways
<1>2. Inv => RawOffHoldsNothing /\ DisabledIsReleased /\ AppliedIsSelected
  BY DEF Inv, RawInv, HeldInv, GrabsOwned, PathsOf, RawOffHoldsNothing, SelectInv, Suits,
    DisabledIsReleased, AppliedIsSelected
<1>3. Inv => ConfigObeyed
  BY <1>1, <1>2 DEF ConfigObeyed
<1> QED BY <1>3, InvAlways, PTL

-----------------------------------------------------------------------------
(* A live update keeps what it leaves enabled *)

\* The mice that config c and focus a disable share no path with the others.
LEMMA ReleaseSpares ==
  ASSUME OpenSetsAgree, NEW c, NEW a, Release(DisabledBy(c, a)),
         NEW d \in devices, ~Disabled(c, a, IdOf[d.path])
  PROVE  d.path \in openedPaths'
<1>1. d.path \in openedPaths
  BY DEF OpenSetsAgree, PathsOf
<1>2. d.path \notin PathsOf(DisabledBy(c, a))
  BY DEF PathsOf, DisabledBy
<1> QED BY <1>1, <1>2 DEF Release

\* Only a new config and a new focus change what the mice are asked for.
LEMMA ChoiceStep ==
  ASSUME [Next]_vars
  PROVE  UNCHANGED <<cfg, app>> \/ ApplyActiveApp \/ ApplyNewConfig
<1>1. ASSUME NEW p \in Paths, VisitMouse(p)
      PROVE  UNCHANGED <<cfg, app>>
  BY <1>1 DEF VisitMouse, SkipOpened, SkipDenied, OpenFails, GrabFails, HeldBack, SkipDuplicate,
              SkipDisabled, CreateFails, EpollFails, OpenDevice, Visit, choiceVars
<1>2. ASSUME NEW d \in devices, Disconnect(d) \/ IoError(d)
      PROVE  UNCHANGED <<cfg, app>>
  BY <1>2 DEF Disconnect, IoError, Remove, choiceVars
<1>3. CASE \/ HotplugScan \/ PeriodicRescan \/ EndPass \/ HandleHotplug \/ KickRescan \/ SameActiveApp
           \/ Tick \/ UNCHANGED vars
  BY <1>3 DEF HotplugScan, PeriodicRescan, do_hotplug_scan, EndPass, HandleHotplug, KickRescan,
              SameActiveApp, Tick, choiceVars, vars
<1>4. CASE \/ \E a \in Focus : SetActiveApp(a)
           \/ \E p \in Paths : Plug(p) \/ Unplug(p)
  BY <1>4 DEF SetActiveApp, Plug, Unplug, choiceVars
<1>5. CASE LoopStep
  BY <1>1, <1>2, <1>3, <1>5 DEF LoopStep
<1> QED BY <1>2, <1>3, <1>4, <1>5 DEF Next

\* R5: apply_new_config and apply_active_app work on the open mice in place: a
\* mouse that stays enabled is not closed, unless the intercept switch itself
\* changes; also the early way out of apply_new_config, which closes everything,
\* is taken only when no open mouse stays enabled.
THEOREM GrabsSurviveUpdates == Spec => LiveUpdateKeepsGrabs
<1>1. Inv /\ [Next]_vars =>
        [(cfg' # cfg \/ app' # app) /\ rawOn' = rawOn =>
           \A d \in devices : ~Disabled(cfg', app', IdOf[d.path]) => d.path \in openedPaths']_vars
  <2> SUFFICES ASSUME Inv, Next, cfg' # cfg \/ app' # app, rawOn' = rawOn,
                      NEW d \in devices, ~Disabled(cfg', app', IdOf[d.path])
               PROVE  d.path \in openedPaths'
    OBVIOUS
  <2>1. OpenSetsAgree
    BY DEF Inv, HeldInv
  <2>2. CASE ApplyActiveApp
    <3>1. cfg' = cfg /\ Release(DisabledBy(cfg, app'))
      BY <2>2 DEF ApplyActiveApp
    <3> QED BY <2>1, <3>1, ReleaseSpares
  <2>3. CASE ApplyNewConfig
    <3>1. PICK c \in Configs : apply_new_config(c)
      BY <2>3 DEF ApplyNewConfig
    <3>2. cfg' = c /\ app' = app /\ c.raw = rawOn
      BY <2>3, <3>1 DEF ApplyNewConfig, apply_new_config
    <3>3. d \in devices \ DisabledBy(c, app)
      BY <3>2 DEF DisabledBy
    <3>4. Release(DisabledBy(c, app))
      BY <3>1, <3>2, <3>3 DEF apply_new_config
    <3> QED BY <2>1, <3>2, <3>4, ReleaseSpares
  <2> QED BY <2>2, <2>3, ChoiceStep
<1> QED BY <1>1, InvAlways, PTL DEF Spec, LiveUpdateKeepsGrabs
=============================================================================
