----------------------------- MODULE ConfigEdit -----------------------------
(***************************************************************************)
(* One settings file and everybody who edits it: runs of rawaccel-cli,     *)
(* which load, change and save it without a lock; the window, which loads  *)
(* it once and later saves all of it, after a look at the file's time; and *)
(* the user with an editor.  How one save reaches the disk is ConfigStore. *)
(***************************************************************************)
EXTENDS GuiWindow

CONSTANTS
  Clis,          \* runs of the command-line tool that may overlap
  Scenes,        \* by name: files, commands, mice, hand edits and budgets tried together
  Missing,       \* no file
  Garbage        \* a file that is no JSON

\* Strings, and those that the loader does not cut.
Str == DOMAIN Cut
Short == {n \in Str : Cut[n] = n}

\* An axis, with the points of its curve, and a profile as the program holds
\* them once they are loaded.
Points == (-FLT_MAX..FLT_MAX) \X (-FLT_MAX..FLT_MAX)
IsCurve(l) == l \in Seq(Points) /\ Len(l) <= LUT_POINTS_CAPACITY
IsArgs(a) ==
  /\ a = [f \in DOMAIN accel_args |-> a[f]]
  /\ a.mode \in Modes /\ a.capmode \in CapModes /\ a.gain \in {0, 1}
  /\ \A f \in ArgsNumbers : a[f] \in Int
  /\ IsCurve(a.lut)
IsProfile(dp) ==
  /\ dp = [f \in DOMAIN device_profile |-> dp[f]]
  /\ {dp.name, dp.id, dp.app} \subseteq Short /\ {dp.whole, dp.raw, dp.disable} \subseteq {0, 1}
  /\ \A f \in ProfileNumbers : dp[f] \in Int
  /\ dp.smax > 0 => dp.smax >= dp.smin
  /\ IsArgs(dp.x) /\ IsArgs(dp.y)

\* What a file, a fragment to import, a command and an input of the window can be.
IsNumber(v) == v \in Int \cup {Absent, Wrong}
IsText(v) == v \in Str \cup {Absent, Wrong}
IsVersion(v) == v \in {Absent, Wrong, Bad} \/ v \in Seq(Int)
IsAxisJson(a) ==
  /\ \A f \in ArgsNumbers : IsNumber(a[f])
  /\ a.lut \in {Absent, Wrong} \/ a.lut \in Seq(Int \cup {Wrong})
  /\ IsNumber(a.len)
IsProfileJson(j) ==
  /\ IsVersion(j.version)
  /\ \A f \in {"name", "id", "app"} : IsText(j[f])
  /\ \A f \in ProfileNumbers : IsNumber(j[f])
  /\ \A a \in {j.x, j.y} : a \in {Absent, Wrong} \/ IsAxisJson(a)
IsArray(s) == s \in Seq(Range(s)) /\ \A i \in DOMAIN s : s[i] = Wrong \/ IsProfileJson(s[i])
IsFile(f) ==
  \/ f \in {Missing, Garbage}
  \/ /\ f.root \in {"object", "null", "other"} /\ IsText(f.active) /\ IsVersion(f.version)
     /\ (f.profiles \in {Absent, Wrong} \/ IsArray(f.profiles))

IsPreset(preset, name) ==
  LET dp == make_preset(preset, name) IN dp.name \in {name, ""} /\ (dp.name # "" => IsProfile(dp))
IsCommand(m) ==
  CASE m.op \in {"rename", "duplicate"} -> m.new \in Str
    [] m.op = "create" -> m.name \in Str
    [] m.op = "create-preset" -> m.name \in Str /\ IsPreset(m.preset, m.name)
    [] m.op = "set-param" -> /\ m.key \in ArgsNumbers \cup ProfileNumbers => m.value \in Int
                             /\ m.key \in {"id", "app"} => m.value \in Str
    [] m.op = "import" -> IsArray(m.from.frags) /\ IsVersion(m.from.version)
    [] OTHER -> m.op \in {"set", "delete", "list", "validate"}
IsInput(key, v) ==
  /\ key \in AxisKeys \cup ProfileNumbers \cup {"dist", "lp", "id", "app", "raw"}
  /\ key \in ArgsNumbers \cup ProfileNumbers \cup {"lp"} => v \in Int
  /\ (key = "mode" => v \in Modes) /\ (key = "capmode" => v \in CapModes)
  /\ key = "dist" => v \in {"euclidean", "max", "lp", "separate"}
  /\ (key = "app" => v \in Str) /\ (key \in {"gain", "raw"} => v \in {0, 1})
  /\ (key = "acc" => v >= 0) /\ (key = "gamma" => v >= GAMMA_SPIN_MIN)
  /\ (key = "lp" => v \in LP_MIN..LP_MAX)

\* The name entries of the window hold no more than the loader keeps.
ASSUME EditAssumption ==
  /\ {Absent, Wrong, Inf} \cap (Int \cup Str) = {}
  /\ {"", "default"} \subseteq Short /\ \A n \in Str : Cut[n] \in Short /\ Trim[n] \in Str
  /\ \A n \in Short : CopyNames(n) \in Seq(Short \ {""})
  /\ \A s \in DOMAIN Scenes :
       /\ \A f \in Scenes[s].files \cup Scenes[s].hand : IsFile(f)
       /\ \A m \in Scenes[s].commands : IsCommand(m)
       /\ \A n \in Scenes[s].names :
            n \in Short /\ (n # "" => IsPreset("fast", n) /\ make_preset("fast", n).name = n)
       /\ \A e \in Scenes[s].params \cup Scenes[s].yparams : IsInput(e[1], e[2])
       /\ \A e \in Scenes[s].yparams : e[1] \in AxisKeys
       /\ \A j \in Scenes[s].imports : IsProfileJson(j)
       /\ Scenes[s].mice \subseteq Short \ {Unplugged}

VARIABLES
  scene,     \* the scene of this behaviour
  file,      \* the settings file
  stamp,     \* its modification time, a counter
  cli,       \* the runs
  win,       \* the window
  left,      \* what is left of the budgets
  pristine,  \* history: every file written by hand was sound
  theirs     \* history: times of saves by others while the window was idle

editVars == <<scene, file, stamp, cli, win, left, pristine, theirs>>

-----------------------------------------------------------------------------
Parsed(f) == f \notin {Missing, Garbage}
Loadable(f) == Parsed(f) /\ ~Rejects(f, MAX_PROFILES_FILE)

\* Names are there, differ, and the active one is one of them or none.
Sound(c) ==
  /\ "" \notin NamesOf(c)
  /\ \A i, k \in DOMAIN c.profiles : c.profiles[i].name = c.profiles[k].name => i = k
  /\ c.active \in NamesOf(c) \cup {""}

IdleCli == [pc |-> "idle", cmd |-> [op |-> "none"], cfg |-> app_config, seen |-> 0, rc |-> 0]
NoWindow == [phase |-> "off"]

EditInit ==
  /\ scene \in DOMAIN Scenes
  /\ file \in Scenes[scene].files
  /\ stamp = 1
  /\ cli = [p \in Clis |-> IdleCli]
  /\ win = IF Scenes[scene].edits = 0 THEN NoWindow ELSE [phase |-> "start"]
  /\ left = [runs |-> Scenes[scene].runs, edits |-> Scenes[scene].edits, hand |-> IF Scenes[scene].hand = {} THEN 0 ELSE 1]
  /\ pristine = (file = Missing \/ (Loadable(file) /\ Sound(load_config(file))))
  /\ theirs = {}

\* Somebody other than the window puts f in the file.
PutByOthers(f) ==
  /\ file' = f
  /\ stamp' = stamp + 1
  /\ theirs' = IF win.phase = "idle" /\ win.stamp # 0 THEN theirs \cup {stamp'} ELSE theirs

-----------------------------------------------------------------------------
(* rawaccel-cli *)

DefaultAdded(c) == [Add(c, Fresh("default")) EXCEPT !.active = "default"]

Result(c, m) ==
  CASE m.op = "set" -> cmd_set(c, m.name)
    [] m.op = "create" -> cmd_create(c, m.name)
    [] m.op = "delete" -> cmd_delete(c, m.name)
    [] m.op = "rename" -> cmd_rename(c, m.name, m.new)
    [] m.op = "duplicate" -> cmd_duplicate(c, m.name, m.new)
    [] m.op = "create-preset" -> cmd_create_preset(c, m.preset, m.name)
    [] m.op = "set-param" -> cmd_set_param(c, m.name, m.key, m.value)
    [] m.op = "import" -> cmd_import(c, m.from)

Finished(p, rc) == cli' = [cli EXCEPT ![p] = [IdleCli EXCEPT !.rc = rc]]
Goes(p, m, pc, c) ==
  cli' = [cli EXCEPT ![p] = [pc |-> pc, cmd |-> m, cfg |-> c, seen |-> stamp, rc |-> 0]]

\* main: a file that is missing or empty is seeded, one that does not load is
\* refused; validate loads for itself and creates nothing.
CliStart(p) ==
  /\ left.runs > 0
  /\ cli[p].pc = "idle" /\ p = CHOOSE q \in Clis : cli[q].pc = "idle"  \* one is like another
  /\ \E m \in Scenes[scene].commands :
       CASE m.op = "validate" ->
              IF Loadable(file) THEN Goes(p, m, "compare", load_config(file)) ELSE Finished(p, 1)
         [] m.op # "validate" /\ file = Missing -> Goes(p, m, "seed", DefaultAdded(app_config))
         [] m.op # "validate" /\ file # Missing ->
              IF ~Loadable(file) THEN Finished(p, 1)
              ELSE Goes(p, m, IF load_config(file).profiles = <<>> THEN "look" ELSE "run", load_config(file))
  /\ left' = [left EXCEPT !.runs = @ - 1]
  /\ UNCHANGED <<scene, file, stamp, win, pristine, theirs>>

\* The file is read once more: an array under a foreign key is not overwritten
\* by the repair, and what cannot be told apart neither.
CliLook(p) ==
  /\ cli[p].pc = "look"
  /\ cli' = IF Parsed(file) /\ file.root = "object" /\ ~file.foreign
            THEN [cli EXCEPT ![p].pc = "seed", ![p].cfg = DefaultAdded(@)]
            ELSE [cli EXCEPT ![p].pc = "run"]
  /\ UNCHANGED <<scene, file, stamp, win, left, pristine, theirs>>

CliSeed(p) ==
  /\ cli[p].pc = "seed"
  /\ \/ /\ PutByOthers(save_config(cli[p].cfg))
        /\ cli' = [cli EXCEPT ![p].pc = "run", ![p].seen = stamp']
     \/ /\ Finished(p, 1)
        /\ UNCHANGED <<file, stamp, theirs>>
  /\ UNCHANGED <<scene, win, left, pristine>>

\* The command, and safe_save when it changes something.
CliRun(p) ==
  /\ cli[p].pc = "run"
  /\ IF cli[p].cmd.op = "list"
     THEN Finished(p, 0) /\ UNCHANGED <<file, stamp, theirs>>
     ELSE LET r == Result(cli[p].cfg, cli[p].cmd)
          IN  \/ /\ r.ok /\ Len(r.cfg.profiles) <= MAX_PROFILES_FILE
                 /\ PutByOthers(save_config(r.cfg))
                 /\ Finished(p, 0)
              \/ Finished(p, 1) /\ UNCHANGED <<file, stamp, theirs>>
  /\ UNCHANGED <<scene, win, left, pristine>>

\* The second half of validate, which opens the file again: 0 is "clean".
CliCompare(p) ==
  /\ cli[p].pc = "compare"
  /\ LET raw == IF Parsed(file) THEN file ELSE [root |-> "null"]
     IN  Finished(p, CASE cmd_validate(cli[p].cfg, raw) = "clean" -> 0
                       [] cmd_validate(cli[p].cfg, raw) = "warnings" -> 2
                       [] OTHER -> 1)
  /\ UNCHANGED <<scene, file, stamp, win, left, pristine, theirs>>

-----------------------------------------------------------------------------
(* The window *)

\* What does not load is copied aside, if that works, and a default takes its
\* place whether it worked or not.
GuiLoad ==
  /\ win.phase = "start"
  /\ LET c == CASE file = Missing -> app_config
                [] Loadable(file) -> load_config(file)
                [] OTHER -> Add(app_config, Fresh("default"))
         filled == IF c.profiles = <<>> THEN Add(c, Fresh("default")) ELSE c
     IN  win' = Window(filled, Scenes[scene].mice)
  /\ UNCHANGED <<scene, file, stamp, cli, left, pristine, theirs>>

GuiStamp ==
  /\ win.phase = "stamp"
  /\ LET active == win.cfg.active
         at == IF active \in NamesOf(win.cfg) THEN IndexOf(win.cfg, active) ELSE 1
     IN  win' = [rebuild_profile_combo([win EXCEPT !.cur = at]) EXCEPT
                   !.stamp = IF file = Missing THEN 0 ELSE stamp, !.phase = "idle"]
  /\ UNCHANGED <<scene, file, stamp, cli, left, pristine, theirs>>

\* A handler of the window runs.
Handle(w) ==
  /\ win' = w
  /\ left' = [left EXCEPT !.edits = @ - 1]
  /\ UNCHANGED <<scene, file, stamp, cli, pristine, theirs>>

Ready == win.phase = "idle" /\ left.edits > 0

GuiParam ==
  /\ Ready
  /\ \/ \E e \in Scenes[scene].params : Handle(on_param_changed(win, e[1], e[2]))
     \/ \E e \in Scenes[scene].yparams : Handle(on_y_param_changed(win, e[1], e[2]))
GuiSwitch == Ready /\ \E i \in DOMAIN win.cfg.profiles : Handle(on_profile_changed(win, i))
GuiLink == Ready /\ \E ok \in BOOLEAN : Handle(on_xy_link_toggled(win, ~win.linked, ok))
GuiRaw == Ready /\ Handle(on_raw_input_toggled(win, 1 - win.cfg.raw))
GuiApply == Ready /\ Handle(on_apply_clicked(win))
GuiMice == Ready /\ \E mice \in SUBSET Scenes[scene].mice : Handle(refresh_mice_combo(win, mice))
GuiNew == Ready /\ \E n \in Scenes[scene].names, preset \in {"", "fast"} : Handle(on_new_profile(win, n, preset))
GuiRename == Ready /\ \E n \in Scenes[scene].names : Handle(on_rename_profile(win, n))
GuiDelete == Ready /\ Handle(on_delete_profile(win))
GuiDuplicate == Ready /\ Handle(on_duplicate_profile(win))
GuiReset == Ready /\ Handle(on_reset_profile(win))
GuiSaveAs == Ready /\ \E n \in Scenes[scene].names, ok \in BOOLEAN : Handle(save_profile_as_dialog(win, n, ok))
GuiImport == Ready /\ \E j \in Scenes[scene].imports : Handle(import_profile_done(win, j))

\* The curve editor: its axis, its rows and the graph.
GuiLut ==
  /\ Ready /\ LutGraphMode(win)
  /\ LET rows == DOMAIN lut_args(win).lut
     IN  \/ Handle([win EXCEPT !.lut = IF @ = "x" THEN "y" ELSE "x"])
         \/ Handle(on_lut_add_point(win))
         \/ \E x \in {0, 3} : Handle(AddPointAt(win, x, 2))
         \/ \E i \in rows : Handle(on_lut_row_delete(win, i))
         \/ \E i \in rows : Handle(lut_list_changed(win, i, 5, 1))

\* Mutant: the stamp is tested for its sign, and every real time is negative.
GuiCheck_dead ==
  /\ win.phase = "check"
  /\ win' = [win EXCEPT !.phase = "write"]
  /\ UNCHANGED <<scene, file, stamp, cli, left, pristine, theirs>>

\* save_config_now, first: has the file another time than the window knows?
GuiCheck ==
  /\ win.phase = "check"
  /\ LET changed == win.stamp # 0 /\ file # Missing /\ stamp # win.stamp
     IN  win' = [win EXCEPT !.phase = IF changed THEN "idle" ELSE "write"]
  /\ UNCHANGED <<scene, file, stamp, cli, left, pristine, theirs>>

GuiWrite ==
  /\ win.phase = "write"
  /\ \/ /\ Len(win.cfg.profiles) <= MAX_PROFILES_FILE
        /\ file' = save_config(win.cfg)
        /\ stamp' = stamp + 1
        /\ win' = [win EXCEPT !.phase = "restamp"]
     \/ /\ win' = [win EXCEPT !.phase = "idle"]
        /\ UNCHANGED <<file, stamp>>
  /\ UNCHANGED <<scene, cli, left, pristine, theirs>>

GuiRestamp ==
  /\ win.phase = "restamp"
  /\ win' = [win EXCEPT !.phase = "idle", !.unsaved = FALSE,
                        !.stamp = IF file = Missing THEN 0 ELSE stamp]
  /\ UNCHANGED <<scene, file, stamp, cli, left, pristine, theirs>>

-----------------------------------------------------------------------------
\* The user saves another file, or removes it.
HandEdit ==
  /\ left.hand > 0
  /\ \E f \in Scenes[scene].hand :
       /\ PutByOthers(f)
       /\ pristine' = (pristine /\ (f = Missing \/ (Loadable(f) /\ Sound(load_config(f)))))
  /\ left' = [left EXCEPT !.hand = @ - 1]
  /\ UNCHANGED <<scene, cli, win>>

EditNext ==
  \/ \E p \in Clis : CliStart(p) \/ CliLook(p) \/ CliSeed(p) \/ CliRun(p) \/ CliCompare(p)
  \/ GuiLoad \/ GuiStamp \/ GuiParam \/ GuiSwitch \/ GuiLink \/ GuiRaw \/ GuiApply \/ GuiMice
  \/ GuiNew \/ GuiRename \/ GuiDelete \/ GuiDuplicate \/ GuiReset \/ GuiSaveAs \/ GuiImport
  \/ GuiLut \/ GuiCheck \/ GuiWrite \/ GuiRestamp
  \/ HandEdit

EditSpec == EditInit /\ [][EditNext]_editVars

-----------------------------------------------------------------------------
(* Properties *)

\* Whoever edits, in whatever order: as long as the user wrote no unsound file,
\* the file loads, its profiles have names that differ, and the active profile
\* is one of them (rename, delete, import and the window's handlers all move it).
SavedIsSound ==
  pristine => file = Missing \/ (Loadable(file) /\ Sound(load_config(file)))

Targets(m) ==
  CASE m.op \in {"rename", "duplicate"} -> {m.name, m.new}
    [] m.op = "import" -> {m.from.frags[i].name : i \in DOMAIN m.from.frags}
    [] OTHER -> {m.name}

\* A command of the CLI gives back every profile it was not asked about exactly
\* as it loaded it, curves and migrated ones included, and the master switch.
\* It saves nothing over a file that did not load, and what it writes of its own
\* accord, the default profile, goes over no file with anything in it.
OthersUntouched ==
  [][/\ \A p \in Clis :
          cli[p].pc = "run" /\ file' # file /\ cli'[p].pc = "idle" =>
            LET m == cli[p].cmd
                kept(c) == Without(c.profiles, Targets(m))
                now == load_config(file')
            IN  /\ kept(now) = kept(cli[p].cfg)
                /\ m.op = "import" \/ now.raw = cli[p].cfg.raw
                /\ cli[p].seen = stamp => Loadable(file)
     /\ \A p \in Clis :
          cli[p].pc = "seed" /\ file' # file /\ cli[p].seen = stamp =>
            \/ file = Missing
            \/ Loadable(file) /\ load_config(file).profiles = <<>> /\ ~file.foreign]_editVars

SameConfig(c, d) == c.profiles = d.profiles /\ c.active = d.active /\ c.raw = d.raw

\* Loading is a fixed point: a loaded config saved and loaded again, pushed to
\* the daemon, or exported and imported profile by profile, is itself; nothing is
\* migrated or clamped twice.  And the daemon gets from the window's push what
\* the window's file says.
LoadIsStable ==
  /\ Loadable(file) =>
       LET c == load_config(file)
       IN  /\ SameConfig(load_config(save_config(c)), c)
           /\ Len(c.profiles) <= MAX_PROFILES =>
                SameConfig(app_config_from_json(app_config_to_json_obj(c)), c)
           /\ \A i \in DOMAIN c.profiles :
                Migrated(cmd_export(c, {}), profile_to_json(c.profiles[i])) = c.profiles[i]
  /\ win.phase = "restamp" /\ Len(win.cfg.profiles) <= MAX_PROFILES =>
       SameConfig(app_config_from_json(app_config_to_json_obj(win.cfg)),
                  load_config(save_config(win.cfg)))

\* What load_config makes of a number of the file.
NumbersKept(f) ==
  LET c == load_config(f)
  IN  \A i \in DOMAIN c.profiles : LET j == f.profiles[i]  dp == c.profiles[i] IN
        /\ \A n \in {"dpi", "odpi", "rot", "smin", "smax", "weight", "norm"} :
             j[n] \in {Absent, Wrong, dp[n]}
        /\ \A axis \in {"x", "y"} : j[axis] \in {Absent, Wrong}
             \/ \A n \in ArgsNumbers : j[axis][n] \in {Absent, Wrong, dp[axis][n]}

\* set-param stores the value it was asked for, or exits with an error and
\* leaves the file alone (an angle is normalised; a cap over a negative
\* acceleration is dropped; so is white space around an application); validate says
\* "clean" of a file it read twice only
\* if the config is consistent and loading it changes no number.
NothingSilent ==
  [][\A p \in Clis :
       LET m == cli[p].cmd  done == cli'[p].pc = "idle"  rc == cli'[p].rc IN
       /\ cli[p].pc = "run" /\ done /\ rc = 1 => file' = file
       /\ cli[p].pc = "run" /\ done /\ rc = 0 /\ m.op = "set-param" /\ m.key # "dist" =>
            LET c == load_config(file')
                dp == c.profiles[IndexOf(c, m.name)]
            IN  \/ m.key \in AxisKeys /\ \A axis \in {"x", "y"} :
                     \/ dp[axis][m.key] = m.value
                     \/ m.key = "capy" /\ dp[axis].acc < 0 /\ dp[axis].capy = 0
                \/ m.key \notin AxisKeys /\ dp[m.key] = m.value
                \/ m.key = "app" /\ dp.app = Trim[m.value]
                \/ m.key = "rot" /\ dp.rot = m.value % CIRCLE
                \/ m.key = "id" /\ m.value \in AnyDevice /\ dp.id = ""
       /\ cli[p].pc = "compare" /\ done /\ rc = 0 /\ cli[p].seen = stamp =>
            Sound(cli[p].cfg) /\ cli[p].cfg.active # "" /\ NumbersKept(file)]_editVars

\* What somebody else saved while the window was idle is never overwritten by
\* the window, however many edits it collected before it saves.
GuiKeepsOthers ==
  [][win.phase = "write" /\ win'.phase = "restamp" /\ file # Missing => stamp \notin theirs]_editVars

\* Between two handlers the window is true to its profile: what the widgets say
\* is the current profile, so that Apply on its own changes nothing but what
\* the widgets cannot show: numbers beyond a spin button move to its nearest
\* end, an application loses the white space around it, and Y's fields without a
\* widget follow X.  Axes that are shown linked are equal.
WindowIsHonest ==
  win.phase = "idle" =>
    LET dp == Cur(win)
        back == Cur(widgets_to_profile(win))
    IN  /\ win.linked => dp.x = dp.y
        /\ [back EXCEPT !.x = dp.x, !.y = dp.y, !.norm = dp.norm, !.app = dp.app] = dp
        /\ back.x = AxisShown(dp.x)
        /\ \A f \in {"mode", "acc", "off", "capy"} : back.y[f] = AxisShown(dp.y)[f]
        /\ back.y.lut = dp.y.lut \/ dp.y.lut = <<>>
        /\ IF dp.whole = 1 /\ dp.norm >= MAX_NORM THEN back.norm >= MAX_NORM
           ELSE back.norm = dp.norm \/ (dp.whole = 1 /\ back.norm = NormShown(dp.norm))
        /\ back.app \in {dp.app, Cut[Trim[dp.app]]}
=============================================================================
