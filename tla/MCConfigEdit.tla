---------------------------- MODULE MCConfigEdit ----------------------------
(***************************************************************************)
(* ConfigEdit in four scenes.  "wide": one run of the CLI, every command,  *)
(* over files with one thing wrong in each way the loader knows.  "two":   *)
(* two runs that overlap.  "edits": three handlers of the window in a row. *)
(* "races": the window, a run of the CLI and the user with an editor.      *)
(***************************************************************************)
EXTENDS ConfigEdit

CONSTANTS absent, wrong, inf, bad, missing, garbage

Strings == {"default", "a", "b", "c", "new", "long", "", "(all)", "m1", "app", "fast",
            "a (copy)", "a (copy) 2", "default (copy)", "default (copy) 2",
            "b (copy)", "new (copy)", "c (copy)", " app ", "app ", "app and more"}
MCCut == [s \in Strings |-> CASE s = "long" -> "new" [] s = "app and more" -> "app " [] OTHER -> s]
MCTrim == [s \in Strings |-> IF s \in {" app ", "app "} THEN "app" ELSE s]
MCCopyNames(n) ==
  CASE n = "a" -> <<"a (copy)", "a (copy) 2">>
    [] n = "default" -> <<"default (copy)", "default (copy) 2">>
    [] n = "b" -> <<"b (copy)">>
    [] n = "new" -> <<"new (copy)">>
    [] OTHER -> <<"c (copy)">>
preset(which, name) ==
  [Fresh(name) EXCEPT !.x.mode = "classic", !.y.mode = "classic", !.x.acc = 2, !.y.acc = 2]

Curve == [accel_args EXCEPT !.mode = "lookup", !.lut = <<<<1, 2>>, <<3, 4>>>>]
Raw(name) == profile_to_json(Fresh(name))
Axes(j, a) == [j EXCEPT !.x = a, !.y = a]
RawCurve(name) == [Axes(Raw(name), accel_args_to_json(Curve)) EXCEPT !.version = Absent]
File(version, active, profiles) ==
  [root |-> "object", version |-> version, active |-> active, raw |-> 1,
   profiles |-> profiles, foreign |-> FALSE]
Now == RAWACCEL_VERSION
One(j) == File(Now, "a", <<j>>)

RawArgs == accel_args_to_json(accel_args)
CrossArgs ==
  {[RawArgs EXCEPT !.mode = m, !.capmode = k, !.off = o, !.capx = x] :
     m \in {"classic", "natural"}, k \in {"io", "out"}, o \in {0, 3, 6}, x \in {0, 2, 6}}
  \cup {[RawArgs EXCEPT !.acc = v, !.capy = y] : v \in {-1, 5}, y \in {0, 2, 5}}
  \cup {[RawArgs EXCEPT !.mode = m, !.decay = d] : m \in {"classic", "natural"}, d \in {-1, 0, 1, 5}}
  \cup {[RawArgs EXCEPT ![f] = v] : f \in ArgsNumbers, v \in {Absent, Wrong}}
  \cup {[RawArgs EXCEPT !.scale = v, !.gamma = w] : v \in {0, 5}, w \in {-1, 0, 4}}
  \cup {[RawArgs EXCEPT !.mode = v] : v \in {"nonsense", Absent, Wrong}}
  \cup {[RawArgs EXCEPT !.capmode = v] : v \in {"nonsense", Wrong}}
  \cup {[RawArgs EXCEPT !.mode = "lookup", !.gain = g, !.lut = l, !.len = n] :
          g \in {0, 1}, n \in {Absent, Wrong, 2, 9},
          l \in {Wrong, <<3, 4, 1, 2>>, <<1, Wrong, 2, 50>>, <<1, 2, 3>>, <<4, 1, 3, 1, 2, 1, 1, 1>>}}

WideProfiles ==
  {Axes(Raw("a"), a) : a \in CrossArgs}
  \cup {[Raw("a") EXCEPT !.x = v] : v \in {Absent, Wrong}}
  \cup {[Raw("a") EXCEPT ![f] = v] :
          f \in {"dpi", "odpi", "rot", "smin", "smax", "weight", "norm"}, v \in {-1, 0, 1, 5, 6, 9, Absent, Wrong}}
  \cup {[Raw("a") EXCEPT !.smin = v, !.smax = w] : v \in {1, 3, 6}, w \in {1, 5}}
  \cup {[Raw("a") EXCEPT ![f] = v] : f \in {"whole", "disable", "raw"}, v \in {0, 1, Wrong}}
  \cup {[Raw("a") EXCEPT !.id = v] : v \in {"(all)", "m1", Wrong}}
  \cup {[Raw("a") EXCEPT !.name = v] : v \in {"long", "", Absent}}
  \cup {[Raw("a") EXCEPT !.app = v] : v \in {" app ", "app and more", Wrong}}

Versions == {<<0, 3, 9>>, <<0, 4>>, <<0, 4, 0, 1>>, <<1, 1>>, <<2>>, Bad, Absent, Wrong}

WideFiles ==
  {One(j) : j \in WideProfiles}
  \cup {File(v, "a", <<RawCurve("a"), Raw("b")>>) : v \in Versions}
  \cup {File(Now, v, <<Raw("a"), Raw("b")>>) : v \in {"b", "c", "", Absent, Wrong}}
  \cup {File(Now, "a", v) : v \in {Absent, Wrong, <<>>, <<Wrong>>, <<Raw("a"), Raw("a")>>,
          <<Raw("a"), Raw("b"), Raw("c")>>, <<Raw("a"), Raw("b"), Raw("c"), Raw("default")>>,
          <<Raw("a"), Raw("b"), Raw("c"), Raw("default"), Raw("new")>>}}
  \cup {[File(Now, "", <<>>) EXCEPT !.root = v] : v \in {"object", "null", "other"}}
  \cup {[File(Now, "", Absent) EXCEPT !.foreign = TRUE], Missing, Garbage}

Params ==
  {<<"mode", v>> : v \in {"classic", "natural", "lookup", "nonsense"}}
  \cup {<<"capmode", "io">>, <<"gain", 0>>, <<"dpi", 5>>, <<"dpi", 3>>, <<"odpi", 0>>, <<"odpi", 1>>}
  \cup {<<f, v>> : f \in {"acc", "off", "capx", "capy", "decay", "gamma", "scale", "smin", "smax"}, v \in {-1, 1, 2, 3, 5}}
  \cup {<<"dist", "max">>, <<"dist", "lp">>, <<"norm", 3>>, <<"rot", 7>>, <<"id", "(all)">>,
        <<"id", "long">>, <<"app", " app ">>, <<"app", "app and more">>, <<"gamma", 0>>, <<"raw", 1>>, <<"weight", 5>>, <<"none", 1>>}

Stream(frags) == [kind |-> "stream", active |-> Absent, raw |-> Absent, version |-> Absent, frags |-> frags]
Wrapper(version, active, frags) ==
  [kind |-> "wrapper", active |-> active, raw |-> 0, version |-> version, frags |-> frags]
Imports ==
  {Stream(<<Raw("new")>>), Stream(<<Raw("new"), Raw("a")>>), Stream(<<RawCurve("new")>>),
   Stream(<<Raw("long")>>), Stream(<<Wrong>>), Stream(<<>>),
   Wrapper(<<0, 3, 9>>, "new", <<RawCurve("new")>>), Wrapper(<<0, 3, 9>>, "zzz", <<RawCurve("c"), Raw("new")>>),
   Wrapper(Now, "a", <<RawCurve("new")>>),
   Stream(<<Axes(Raw("new"), [RawArgs EXCEPT !.lut = <<1, 2, 3>>])>>)}

Basic ==
  {[op |-> "set", name |-> "b"], [op |-> "create", name |-> "new"],
   [op |-> "delete", name |-> "a"], [op |-> "rename", name |-> "a", new |-> "new"],
   [op |-> "duplicate", name |-> "a", new |-> "new"],
   [op |-> "set-param", name |-> "a", key |-> "dpi", value |-> 3],
   [op |-> "import", from |-> Wrapper(<<0, 3, 9>>, "new", <<RawCurve("new")>>)]}
Commands ==
  Basic
  \cup {[op |-> "list"], [op |-> "validate"]}
  \cup {[op |-> "create", name |-> n] : n \in {"", "a", "long"}}
  \cup {[op |-> "rename", name |-> "b", new |-> "long"], [op |-> "duplicate", name |-> "b", new |-> "a"],
        [op |-> "create-preset", preset |-> "fast", name |-> "new"]}
  \cup {[op |-> "set-param", name |-> "a", key |-> e[1], value |-> e[2]] : e \in Params}
  \cup {[op |-> "import", from |-> f] : f \in Imports}

Quiet == [mice |-> {}, names |-> {}, params |-> {}, yparams |-> {}, imports |-> {}, edits |-> 0, hand |-> {}]
Wide == Quiet @@ [files |-> WideFiles, commands |-> Commands, runs |-> 1]
Two == Quiet @@ [files |-> {File(Now, "a", <<Raw("a"), Raw("b")>>), File(Now, "", <<>>), Missing},
                 commands |-> Basic \cup {[op |-> "validate"]}, runs |-> 2]

\* Of each, something that no widget can show.
Bound == [Raw("a") EXCEPT !.id = "m1", !.app = " app ", !.norm = 6]
Odd == [Raw("b") EXCEPT !.norm = NORM_OF_MAX, !.y = accel_args_to_json(Curve)]
Slow == [Axes(Raw("a"), [RawArgs EXCEPT !.acc = -1, !.gamma = 0]) EXCEPT !.norm = 1]
Edits ==
  [files |-> {File(Now, "a", <<Bound, Odd>>), File(<<0, 3, 9>>, "b", <<RawCurve("b"), Slow>>)},
   commands |-> {}, runs |-> 0, edits |-> 3, hand |-> {}, mice |-> {"m1"}, names |-> {"b", "new"},
   params |-> {<<"app", "app and more">>, <<"mode", "lookup">>, <<"dist", "max">>, <<"lp", 3>>, <<"dist", "lp">>, <<"id", "">>},
   yparams |-> {<<"acc", 2>>},
   imports |-> {RawCurve("long")}]
Races ==
  [files |-> {File(Now, "a", <<Raw("a"), Raw("b")>>), File(Now, "", <<>>), Missing, Garbage},
   commands |-> {[op |-> "delete", name |-> "a"]},
   runs |-> 1, edits |-> 2, hand |-> {File(Now, "c", <<Raw("c")>>), Missing},
   mice |-> {}, names |-> {"new"}, params |-> {<<"dpi", 3>>}, yparams |-> {}, imports |-> {}]
MCScenes == [wide |-> Wide, two |-> Two, edits |-> Edits, races |-> Races]
=============================================================================
