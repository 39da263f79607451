---------------------------- MODULE CliCommands ----------------------------
(***************************************************************************)
(* The commands of rawaccel-cli as functions of the loaded config: what a  *)
(* command leaves to be saved, or that it refuses.                         *)
(***************************************************************************)
EXTENDS ConfigCodec

CONSTANT make_preset(_, _)  \* the presets' table (include/presets.hpp)

Done(c) == [ok |-> TRUE, cfg |-> c]
Refused(c) == [ok |-> FALSE, cfg |-> c]

NamesOf(c) == {c.profiles[i].name : i \in DOMAIN c.profiles}

\* The first profile with a name, as every command looks it up.
IndexOf(c, name) ==
  CHOOSE i \in DOMAIN c.profiles :
    c.profiles[i].name = name /\ \A k \in 1..(i - 1) : c.profiles[k].name # name

\* A name a new profile may take: not empty, not cut by the loader, not taken.
Free(c, name) == name # "" /\ Cut[name] = name /\ name \notin NamesOf(c)
HasRoom(c) == Len(c.profiles) < MAX_PROFILES

\* The profiles without those of some names, in their order.
Without(ps, names) ==
  LET kept == {i \in DOMAIN ps : ps[i].name \notin names}
  IN  [k \in 1..Cardinality(kept) |->
         ps[CHOOSE i \in kept : Cardinality({j \in kept : j <= i}) = k]]

Add(c, dp) == [c EXCEPT !.profiles = Append(@, dp)]
Fresh(name) == [device_profile EXCEPT !.name = name]

-----------------------------------------------------------------------------
cmd_set(c, name) ==
  IF name \in NamesOf(c) THEN Done([c EXCEPT !.active = name]) ELSE Refused(c)

cmd_create(c, name) ==
  IF Free(c, name) /\ HasRoom(c) THEN Done(Add(c, Fresh(name))) ELSE Refused(c)

cmd_delete(c, name) ==
  LET left == Without(c.profiles, {name})
      active == CASE left = <<>> -> ""
                  [] left # <<>> /\ c.active = name -> left[1].name
                  [] OTHER -> c.active
  IN  IF name \in NamesOf(c) THEN Done([c EXCEPT !.profiles = left, !.active = active])
      ELSE Refused(c)

\* The copy is bound to no device.
cmd_duplicate(c, src, dst) ==
  IF Free(c, dst) /\ src \in NamesOf(c) /\ HasRoom(c)
  THEN Done(Add(c, [c.profiles[IndexOf(c, src)] EXCEPT !.name = dst, !.id = ""]))
  ELSE Refused(c)

cmd_create_preset(c, preset, name) ==
  LET dp == make_preset(preset, name)
  IN  IF Free(c, name) /\ dp.name # "" /\ HasRoom(c) THEN Done(Add(c, dp)) ELSE Refused(c)

\* Mutant: the active profile keeps its old name.
cmd_rename_dangling(c, old, new) ==
  IF Free(c, new) /\ old \in NamesOf(c)
  THEN Done([c EXCEPT !.profiles[IndexOf(c, old)].name = new])
  ELSE Refused(c)

cmd_rename(c, old, new) ==
  IF Free(c, new) /\ old \in NamesOf(c)
  THEN Done([c EXCEPT !.profiles[IndexOf(c, old)].name = new,
                      !.active = IF @ = old THEN new ELSE @])
  ELSE Refused(c)

-----------------------------------------------------------------------------
(* set-param *)

AxisKeys == {"mode", "gain", "capmode"} \cup ArgsNumbers

\* The domain of a key, checked against the profile as it is.
InDomain(dp, key, v) ==
  CASE key = "mode" -> v \in Modes
    [] key = "capmode" -> v \in CapModes
    [] key = "dist" -> v \in {"euclidean", "max", "lp", "separate"}
    [] key \in {"gain", "raw", "disable"} -> v \in {0, 1}
    [] key = "dpi" -> v \in 1..DPI_MAX
    [] key = "odpi" -> v = 0 \/ v \in OUTPUT_DPI_MIN..DPI_MAX
    [] key = "weight" -> v \in 0..WEIGHT_MAX
    [] key = "norm" -> v > 0
    [] key = "acc" -> v <= ACCEL_MAX
    [] key = "capx" -> v \in 0..CAP_X_MAX /\ v >= dp.x.off /\ v >= dp.y.off
    [] key = "capy" -> v \in 0..CAP_Y_MAX
    [] key = "off" -> v \in 0..CAP_X_MAX /\ v <= dp.x.capx /\ v <= dp.y.capx
    [] key = "gamma" -> v \in 0..GAMMA_MAX
    [] key = "scale" -> v \in SCALE_MIN..SCALE_MAX
    [] key = "decay" -> v = 0 \/ v \in NATURAL_DECAY_RATE_MIN..DECAY_RATE_MAX
    [] key = "smin" -> v \in 0..SPEED_MAX /\ (dp.smax = 0 \/ v <= dp.smax)
    [] key = "smax" -> v \in 0..SPEED_MAX /\ (v = 0 \/ v >= dp.smin)
    [] key = "rot" -> TRUE
    [] key = "id" -> Cut[v] = v
    [] key = "app" -> Cut[Trim[v]] = Trim[v]
    [] OTHER -> FALSE

\* Mutant: the floor of a domain without its ceiling.
InDomain_floor(dp, key, v) == InDomain(dp, key, v) \/ (key = "decay" /\ v > 0)

\* A distance is a flag and a norm.  "lp" keeps the norm that is there, unless
\* it is the one that stands for "max".
Distance(dp, v, lp) ==
  [dp EXCEPT !.whole = IF v = "separate" THEN 0 ELSE 1,
             !.norm = CASE v = "separate" -> @
                        [] v = "max" -> NORM_OF_MAX
                        [] v = "lp" -> lp
                        [] v = "euclidean" -> EUCLIDEAN]

\* The keys of the curve are set on both axes.
Assigned(dp, key, v) ==
  CASE key \in AxisKeys -> [dp EXCEPT !.x[key] = v, !.y[key] = v]
    [] key = "id" /\ v \in AnyDevice -> [dp EXCEPT !.id = ""]
    [] key = "app" -> [dp EXCEPT !.app = Trim[v]]
    [] key = "dist" -> Distance(dp, v, IF dp.norm >= MAX_NORM THEN EUCLIDEAN ELSE dp.norm)
    [] OTHER -> [dp EXCEPT ![key] = v]

\* Mutant: a domain without its ceiling.
cmd_set_param_unbounded(c, name, key, v) ==
  IF name \in NamesOf(c) /\ InDomain_floor(c.profiles[IndexOf(c, name)], key, v)
  THEN Done([c EXCEPT !.profiles[IndexOf(c, name)] =
               sanitize_device_profile(Assigned(@, key, v))])
  ELSE Refused(c)

cmd_set_param(c, name, key, v) ==
  IF name \in NamesOf(c) /\ InDomain(c.profiles[IndexOf(c, name)], key, v)
  THEN Done([c EXCEPT !.profiles[IndexOf(c, name)] =
               sanitize_device_profile(Assigned(@, key, v))])
  ELSE Refused(c)

-----------------------------------------------------------------------------
(* export and import.  A file to import is a "wrapper" (a whole config, with *)
(* its own active profile, master switch and version), an "object", an       *)
(* "array", or a "stream" of one profile per line.                           *)

cmd_export(c, names) ==
  [kind |-> "stream", active |-> Absent, raw |-> Absent, version |-> Absent,
   frags |-> LET chosen == SelectSeq(c.profiles, LAMBDA dp : dp.name \in names)
             IN  [i \in DOMAIN chosen |-> profile_to_json(chosen[i])]]

Fragments(f) ==
  CASE f.kind = "object" -> Len(f.frags) = 1
    [] f.kind = "array" -> f.frags # <<>> /\ f.frags[1] # Wrong
    [] f.kind = "stream" -> f.frags # <<>> /\ Wrong \notin Range(f.frags)
    [] f.kind = "wrapper" -> f.frags # <<>>
    [] OTHER -> FALSE

\* A curve the loader would cut, or whose last value has no partner.
check_import_lut_size(j) ==
  \A a \in {j.x, j.y} :
    a \notin {Absent, Wrong} /\ a.lut \notin {Absent, Wrong} =>
      Len(a.lut) % 2 = 0 /\ Len(a.lut) <= LUT_RAW_DATA_CAPACITY

\* What one profile of the file must be: nothing in it is cut on the way in.
Importable(j) ==
  /\ j # Wrong
  /\ ~ProfileThrows(j)
  /\ check_import_lut_size(j)
  /\ json_get_string_limited(j.name, "") # ""
  /\ \A s \in {j.name, j.id, j.app} : s \in {Absent, Wrong} \/ Cut[s] = s

\* A profile is migrated once, by the version it carries or else the wrapper's.
Migrated(f, j) ==
  LET version == IF VersionOf(j.version) # <<>> THEN VersionOf(j.version) ELSE VersionOf(f.version)
  IN  migrate_config([app_config EXCEPT !.version = version,
                                        !.profiles = <<device_profile_from_json(j)>>]).profiles[1]

\* Mutant: the wrapper's version is that of the whole config, which is migrated.
cmd_import_migrates_all(c, f) ==
  LET batch == [i \in DOMAIN f.frags |-> device_profile_from_json(f.frags[i])]
      merged == migrate_config([c EXCEPT !.profiles = @ \o batch,
                                         !.version = IF f.kind = "wrapper" THEN VersionOf(f.version) ELSE @])
  IN  IF /\ Fragments(f)
         /\ \A i \in DOMAIN f.frags : Importable(f.frags[i])
         /\ \A i \in DOMAIN batch : batch[i].name \notin NamesOf(c) \cup {batch[k].name : k \in 1..(i - 1)}
         /\ Len(c.profiles) + Len(batch) <= MAX_PROFILES
      THEN Done(merged) ELSE Refused(c)

cmd_import(c, f) ==
  LET names == [i \in DOMAIN f.frags |-> f.frags[i].name]
      batch == [i \in DOMAIN f.frags |-> Migrated(f, f.frags[i])]
      merged == [c EXCEPT
                   !.profiles = @ \o batch,
                   !.active = IF f.kind = "wrapper" /\ f.active \notin {Absent, Wrong} THEN f.active ELSE @,
                   !.raw = IF f.kind = "wrapper" THEN bool_from_json_lenient(f.raw, @) ELSE @]
  IN  IF /\ Fragments(f)
         /\ \A i \in DOMAIN f.frags : Importable(f.frags[i])
         /\ \A i \in DOMAIN f.frags : names[i] \notin NamesOf(c) \cup {names[k] : k \in 1..(i - 1)}
         /\ Len(c.profiles) + Len(f.frags) <= MAX_PROFILES
      THEN Done([merged EXCEPT !.active = IF @ \in NamesOf(merged) THEN @ ELSE merged.profiles[1].name])
      ELSE Refused(c)

-----------------------------------------------------------------------------
(* validate: the loaded config against itself, then against the raw file *)

ValidateErrors(c) ==
  \/ c.profiles = <<>>
  \/ c.active \notin NamesOf(c)
  \/ "" \in NamesOf(c)
  \/ \E i, k \in DOMAIN c.profiles : i < k /\ c.profiles[i].name = c.profiles[k].name

\* Settings that are in range and do nothing, and two profiles for one device.
ValidateWarnings(c) ==
  \/ \E i, k \in DOMAIN c.profiles :
       i < k /\ c.profiles[i].id # "" /\ c.profiles[i].id = c.profiles[k].id
  \/ \E i \in DOMAIN c.profiles : \E a \in {c.profiles[i].x, c.profiles[i].y} :
       a.mode = "lookup" /\ a.lut = <<>>

\* A number of the file that is not the number stored for it.
Differs(raw, stored, f) == raw[f] \notin {Absent, Wrong, Inf} /\ raw[f] # stored[f]

ProfileNumbers == {"dpi", "odpi", "rot", "smin", "smax", "weight", "norm"}

Clamped(j, dp) ==
  \/ \E f \in ProfileNumbers : Differs(j, dp, f)
  \/ \E axis \in {"x", "y"} :
       j[axis] \notin {Absent, Wrong} /\ \E f \in ArgsNumbers : Differs(j[axis], dp[axis], f)
  \/ j.smin \notin {Absent, Wrong, Inf} /\ j.smax \notin {Absent, Wrong, Inf} /\ j.smin > j.smax
  \/ j.name \notin {Absent, Wrong} /\ Cut[j.name] # j.name

\* "failed", "warnings" or "clean", from the config and a second look at the file.
cmd_validate(c, f) ==
  LET compared == IF f.root = "object" /\ f.profiles \notin {Absent, Wrong}
                  THEN {i \in DOMAIN f.profiles \cap DOMAIN c.profiles : f.profiles[i] # Wrong} ELSE {}
  IN  CASE ValidateErrors(c) -> "failed"
        [] ~ValidateErrors(c) /\ (ValidateWarnings(c)
              \/ \E i \in compared : Clamped(f.profiles[i], c.profiles[i])) -> "warnings"
        [] OTHER -> "clean"
=============================================================================
