---------------------------- MODULE ConfigCodec ----------------------------
(***************************************************************************)
(* The settings as JSON and as the program holds them: reading, sanitising *)
(* and migrating a config, and writing it back.                            *)
(*                                                                         *)
(* A field of a file holds a value, or Absent or Wrong (another JSON       *)
(* type); Inf is what the code guards against and the parser lets no file  *)
(* hold.  Numbers are small: the limits below keep their order and the     *)
(* bands between them, not their size.  Fields with the same rule stand    *)
(* for one another: "scale" for the accel_args with a floor and a ceiling  *)
(* of their own, "gamma" for motivity, whose floor is 0, "weight" for      *)
(* weights, ratios, snap and half-lives, "dpi" for polling_rate too.  A    *)
(* boolean is 0 or 1, as the lenient reader takes it, and a name longer    *)
(* than MAX_NAME_LEN is one that Cut changes.                              *)
(***************************************************************************)
EXTENDS Integers, Sequences, SequencesExt

CONSTANTS
  Absent, Wrong, Inf,  \* what a field can be besides a value
  Bad,                 \* a version string that is not numbers with dots
  Cut,                 \* Cut[n]: the string n, cut to the length the loader keeps
  Trim                 \* Trim[n]: the string n without white space around it

MAX_PROFILES == 3
MAX_PROFILES_FILE == 4
LUT_RAW_DATA_CAPACITY == 6
FLT_MAX == 40
RAWACCEL_VERSION == <<1, 1, 0>>

SCALE_MIN == 1
SCALE_MAX == 4
CAP_X_MAX == 4
CAP_Y_MAX == 3
ACCEL_MAX == 3
GAMMA_MAX == 3
NATURAL_DECAY_RATE_MIN == 2
DECAY_RATE_MAX == 4
SPEED_MAX == 4
DPI_MAX == 4
OUTPUT_DPI_MIN == 2
WEIGHT_MAX == 4
CIRCLE == 4
MAX_NORM == 7
EUCLIDEAN == 3
NORM_OF_MAX == 9

Modes == {"noaccel", "classic", "power", "natural", "jump", "synchronous", "lookup"}
CapModes == {"out", "in", "io"}
ArgsNumbers == {"acc", "off", "capx", "capy", "decay", "gamma", "scale"}
AnyDevice == {"(all)", "all", "*"}

\* The members' initial values (include/config.hpp).
accel_args ==
  [mode |-> "noaccel", gain |-> 1, capmode |-> "out", acc |-> 1, off |-> 0,
   capx |-> 2, capy |-> 1, decay |-> 2, gamma |-> 2, scale |-> 1, lut |-> <<>>]
device_profile ==
  [name |-> "", id |-> "", app |-> "", dpi |-> 2, disable |-> 0, raw |-> 0, rot |-> 0,
   odpi |-> 3, smin |-> 0, smax |-> 0, whole |-> 1, norm |-> EUCLIDEAN, weight |-> 1,
   x |-> accel_args, y |-> accel_args]
app_config == [version |-> <<>>, active |-> "default", raw |-> 1, profiles |-> <<>>]

Least(a, b) == IF a < b THEN a ELSE b
Most(a, b) == IF a > b THEN a ELSE b
Clamp(v, lo, hi) == Least(Most(v, lo), hi)

-----------------------------------------------------------------------------
(* Reading one field *)

finite_or(v, default) == IF v = Inf THEN default ELSE v
Number(v, default) == IF v \in {Absent, Wrong} THEN default ELSE v
json_get_int_safe(v, default) == IF v \in {Absent, Wrong, Inf} THEN default ELSE v
bool_from_json_lenient(v, default) == IF v \in {0, 1} THEN v ELSE default
json_get_string_limited(v, default) == IF v \in {Absent, Wrong} THEN default ELSE Cut[v]

\* lut_length beside fewer elements, without it, or of another type.
LutOf(j) ==
  IF j.lut \in {Absent, Wrong} THEN <<>>
  ELSE LET raw == CASE j.len = Absent -> Len(j.lut)
                    [] j.len \in {Wrong, Inf} -> 0
                    [] OTHER -> Most(j.len, 0)
           n == Least(Least(raw, LUT_RAW_DATA_CAPACITY), Len(j.lut))
           v(i) == IF j.lut[i] \in {Wrong, Inf} THEN 0
                   ELSE Clamp(j.lut[i], -FLT_MAX, FLT_MAX)
       IN  [i \in 1..(n \div 2) |-> <<v(2 * i - 1), v(2 * i)>>]

\* What makes accel_args_from_json throw: a mode or cap_mode nobody knows, and
\* a number that is none.  The two elements of "cap" only fall back.
ArgsThrow(j) ==
  \/ j.mode \notin Modes \cup {Absent, Wrong}
  \/ j.capmode \notin CapModes \cup {Absent, Wrong}
  \/ \E f \in ArgsNumbers \ {"capx", "capy"} : j[f] \in {Wrong, Inf}

accel_args_from_json(j) ==
  [mode |-> IF j.mode \in Modes THEN j.mode ELSE accel_args.mode,
   gain |-> bool_from_json_lenient(j.gain, accel_args.gain),
   capmode |-> IF j.capmode \in CapModes THEN j.capmode ELSE accel_args.capmode,
   acc |-> Number(j.acc, accel_args.acc),
   off |-> Number(j.off, accel_args.off),
   capx |-> Number(j.capx, accel_args.capx),
   capy |-> Number(j.capy, accel_args.capy),
   decay |-> Number(j.decay, accel_args.decay),
   gamma |-> Number(j.gamma, accel_args.gamma),
   scale |-> Number(j.scale, accel_args.scale),
   lut |-> LutOf(j)]

-----------------------------------------------------------------------------
(* Sanitising *)

\* The points by their x, those of one x in the order they came.
sort_lut_data(lut) ==
  LET rank(k) == Cardinality({i \in DOMAIN lut : \/ lut[i][1] < lut[k][1]
                                                 \/ lut[i][1] = lut[k][1] /\ i <= k})
  IN  [n \in DOMAIN lut |-> lut[CHOOSE k \in DOMAIN lut : rank(k) = n]]

\* The order matters: the cap is dropped before the floors, the breakpoint is
\* raised to the offset before the ceilings, the offset's ceiling comes first.
sanitize_accel_args(a) ==
  LET capy == IF a.acc < 0 /\ finite_or(a.capy, 0) > 0 THEN 0 ELSE finite_or(a.capy, 0)
      decay == IF a.mode = "natural" /\ a.decay > 0 THEN Most(a.decay, NATURAL_DECAY_RATE_MIN)
               ELSE Most(a.decay, 0)
      off == Most(a.off, 0)
      floored == Most(finite_or(a.capx, 0), 0)
      capx == IF a.mode = "classic" /\ a.capmode \in {"io", "in"} THEN Most(floored, off)
              ELSE floored
  IN  [a EXCEPT !.acc = Least(@, ACCEL_MAX),
                !.off = Least(off, CAP_X_MAX),
                !.capx = Least(capx, CAP_X_MAX),
                !.capy = Clamp(capy, 0, CAP_Y_MAX),
                !.decay = Least(decay, DECAY_RATE_MAX),
                !.gamma = Clamp(@, 0, GAMMA_MAX),
                !.scale = Clamp(@, SCALE_MIN, SCALE_MAX),
                !.lut = sort_lut_data(@)]

\* speed_max is held against speed_min before and after the common ceiling.
SpeedLimits(smin, smax) ==
  LET raised == IF smax > 0 /\ smax < smin THEN smin ELSE smax
      low == Least(smin, SPEED_MAX)
      high == Least(raised, SPEED_MAX)
  IN  <<low, IF high > 0 /\ high < low THEN low ELSE high>>

\* 0 means no normalisation; what lies between 0 and 1 becomes 1.
OutputDpi(v) ==
  IF v <= 0 THEN 0 ELSE Clamp(v, OUTPUT_DPI_MIN, DPI_MAX)

sanitize_profile(p) ==
  LET speed == SpeedLimits(Most(finite_or(p.smin, 0), 0), Most(finite_or(p.smax, 0), 0))
      norm == finite_or(p.norm, EUCLIDEAN)
  IN  [p EXCEPT !.rot = finite_or(@, 0) % CIRCLE,
                !.odpi = OutputDpi(finite_or(@, device_profile.odpi)),
                !.smin = speed[1],
                !.smax = speed[2],
                !.norm = IF norm <= 0 THEN EUCLIDEAN ELSE norm,
                !.weight = Clamp(finite_or(@, 1), 0, WEIGHT_MAX),
                !.x = sanitize_accel_args(@),
                !.y = sanitize_accel_args(@)]

sanitize_device_profile(dp) ==
  [sanitize_profile(dp) EXCEPT !.dpi = Clamp(@, 1, DPI_MAX)]

-----------------------------------------------------------------------------
(* Profiles *)

AxisOf(j) == IF j \in {Absent, Wrong} THEN accel_args ELSE accel_args_from_json(j)

ProfileThrows(j) == \E a \in {j.x, j.y} : a \notin {Absent, Wrong} /\ ArgsThrow(a)

\* The members of the inner object, before they are sanitised.
profile_from_json_obj(j) ==
  LET d == device_profile
  IN  [d EXCEPT !.raw = bool_from_json_lenient(j.raw, @),
                !.rot = Number(j.rot, @),
                !.odpi = Number(j.odpi, @),
                !.smin = Number(j.smin, @),
                !.smax = Number(j.smax, @),
                !.whole = bool_from_json_lenient(j.whole, @),
                !.norm = Number(j.norm, @),
                !.weight = Number(j.weight, @),
                !.x = AxisOf(j.x),
                !.y = AxisOf(j.y)]

device_profile_from_json(j) ==
  LET id == json_get_string_limited(j.id, "")
  IN  sanitize_device_profile(
        [profile_from_json_obj(j) EXCEPT
           !.name = json_get_string_limited(j.name, ""),
           !.id = IF id \in AnyDevice THEN "" ELSE id,
           !.app = json_get_string_limited(j.app, ""),
           !.dpi = json_get_int_safe(j.dpi, device_profile.dpi),
           !.disable = bool_from_json_lenient(j.disable, @)])

\* A curve is written in every mode, not only in lookup mode.
accel_args_to_json(a) ==
  LET flat == [k \in 1..(2 * Len(a.lut)) |-> a.lut[(k + 1) \div 2][2 - (k % 2)]]
      none == a.lut = <<>>
  IN  [mode |-> a.mode, gain |-> a.gain, capmode |-> a.capmode, acc |-> a.acc, off |-> a.off,
       capx |-> a.capx, capy |-> a.capy, decay |-> a.decay, gamma |-> a.gamma, scale |-> a.scale,
       lut |-> IF none THEN Absent ELSE flat,
       len |-> IF none THEN Absent ELSE Len(flat)]

profile_to_json(dp) ==
  [name |-> dp.name, id |-> dp.id, app |-> IF dp.app = "" THEN Absent ELSE dp.app,
   dpi |-> dp.dpi, disable |-> dp.disable, raw |-> dp.raw, rot |-> dp.rot, odpi |-> dp.odpi,
   smin |-> dp.smin, smax |-> dp.smax, whole |-> dp.whole, norm |-> dp.norm,
   weight |-> dp.weight, x |-> accel_args_to_json(dp.x), y |-> accel_args_to_json(dp.y),
   version |-> RAWACCEL_VERSION]

-----------------------------------------------------------------------------
(* Versions and migration *)

\* Broken is older than everything; a component that is missing is 0.
version_lt(a, b) ==
  \/ a \in {Bad, <<>>}
  \/ LET at(v, i) == IF i <= Len(v) THEN v[i] ELSE 0
     IN  \E i \in 1..Most(Len(a), Len(b)) :
           at(a, i) < at(b, i) /\ \A k \in 1..(i - 1) : at(a, k) = at(b, k)

\* Before 0.4 the y of a lookup+gain point was a gain; now it is a speed.
migrate_lookup_gain(a) ==
  IF a.mode # "lookup" \/ a.gain = 0 THEN a
  ELSE [a EXCEPT !.lut =
          [i \in DOMAIN @ |->
             LET x == @[i][1]  y == @[i][2] IN
             IF x > 0 /\ y * x \in -FLT_MAX..FLT_MAX THEN <<x, y * x>> ELSE <<x, y>>]]

migrate_config(c) ==
  LET rescaled == [i \in DOMAIN c.profiles |->
                     [c.profiles[i] EXCEPT !.x = migrate_lookup_gain(@), !.y = migrate_lookup_gain(@)]]
      fixed == IF version_lt(c.version, <<0, 4, 0>>) THEN rescaled ELSE c.profiles
  IN  IF c.version # RAWACCEL_VERSION
           /\ (version_lt(c.version, <<0, 3, 0>>) \/ version_lt(c.version, <<0, 4, 0>>))
      THEN [c EXCEPT !.version = RAWACCEL_VERSION,
                     !.profiles = [i \in DOMAIN fixed |-> sanitize_device_profile(fixed[i])]]
      ELSE c

VersionOf(v) == IF v \in {Absent, Wrong} THEN <<>> ELSE v

-----------------------------------------------------------------------------
(* The whole file.  Its root is an "object", "null" or "other"; "foreign"   *)
(* says that it has an array under a key the program does not know.         *)

Read(f, max) == SubSeq(f.profiles, 1, Least(max, Len(f.profiles)))

\* What app_config_from_json_obj refuses.  Beyond the bound of a push the rest
\* is dropped unread; beyond the bound of a file the file is refused.
Rejects(f, max) ==
  \/ f.root = "other"
  \/ /\ f.root = "object"
     /\ \/ f.profiles = Wrong
        \/ /\ f.profiles \notin {Absent, Wrong}
           /\ \/ \E i \in 1..Least(max + 1, Len(f.profiles)) : f.profiles[i] = Wrong
              \/ \E i \in DOMAIN Read(f, max) : ProfileThrows(f.profiles[i])
              \/ Len(f.profiles) > max /\ max >= MAX_PROFILES_FILE

\* Mutant: the version is not read back.
app_config_from_json_obj_unversioned(f, max) ==
  IF f.root = "null" THEN app_config
  ELSE [version |-> <<>>,
        active |-> IF f.active = Absent THEN app_config.active
                   ELSE json_get_string_limited(f.active, "default"),
        raw |-> bool_from_json_lenient(f.raw, app_config.raw),
        profiles |-> IF f.profiles = Absent THEN <<>>
                     ELSE [i \in DOMAIN Read(f, max) |-> device_profile_from_json(f.profiles[i])]]

app_config_from_json_obj(f, max) ==
  IF f.root = "null" THEN app_config
  ELSE [version |-> VersionOf(f.version),
        active |-> IF f.active = Absent THEN app_config.active
                   ELSE json_get_string_limited(f.active, "default"),
        raw |-> bool_from_json_lenient(f.raw, app_config.raw),
        profiles |-> IF f.profiles = Absent THEN <<>>
                     ELSE [i \in DOMAIN Read(f, max) |-> device_profile_from_json(f.profiles[i])]]

\* The daemon's reading of a push, and everybody's reading of the file.
app_config_from_json(f) == migrate_config(app_config_from_json_obj(f, MAX_PROFILES))
load_config(f) == migrate_config(app_config_from_json_obj(f, MAX_PROFILES_FILE))

\* A newer version is kept, so that the file is not taken for an older one.
app_config_to_json_obj(c) ==
  [root |-> "object",
   version |-> IF version_lt(c.version, RAWACCEL_VERSION) THEN RAWACCEL_VERSION ELSE c.version,
   active |-> c.active, raw |-> c.raw,
   profiles |-> [i \in DOMAIN c.profiles |-> profile_to_json(c.profiles[i])],
   foreign |-> FALSE]

\* What save_config puts in the file: a sanitised copy, never migrated again.
save_config(c) ==
  app_config_to_json_obj([c EXCEPT !.profiles =
                            [i \in DOMAIN @ |-> sanitize_device_profile(@[i])]])
=============================================================================
