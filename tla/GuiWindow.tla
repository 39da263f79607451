----------------------------- MODULE GuiWindow -----------------------------
(***************************************************************************)
(* The handlers of the settings window as functions of the window: the     *)
(* config it holds, the profile it shows and what its widgets say.  The    *)
(* toolkit runs one handler at a time, to its end.                         *)
(*                                                                         *)
(* A handler that ends in save_config_now leaves the window in phase       *)
(* "check", where the save starts (ConfigEdit).  "shown" is the state of   *)
(* the widgets as a profile; "sel", "dist" and "lp" are the device, the    *)
(* distance and the norm, which have no field of their own.                *)
(***************************************************************************)
EXTENDS CliCommands

CONSTANT CopyNames(_)  \* "x (copy)", "x (copy) 2", ... in the order they are tried

LUT_POINTS_CAPACITY == LUT_RAW_DATA_CAPACITY \div 2
\* What the spin buttons can show, where the loader accepts more.
LP_MIN == 2
LP_MAX == 5
GAMMA_SPIN_MIN == 1
Unplugged == "(unplugged)"

Window(c, mice) ==
  [cfg |-> c, cur |-> 1, linked |-> TRUE, mem |-> EUCLIDEAN, mice |-> mice,
   shown |-> device_profile, sel |-> "", dist |-> "euclidean", lp |-> EUCLIDEAN,
   lut |-> "x", unsaved |-> FALSE, phase |-> "stamp", stamp |-> 0]

Cur(w) == w.cfg.profiles[w.cur]
Saves(w) == [w EXCEPT !.phase = "check"]
Unsaved(w) == [w EXCEPT !.unsaved = TRUE]

-----------------------------------------------------------------------------
(* Widgets and profile *)

\* Y has widgets of its own for some fields; the rest follows X.  Its curve is
\* X's only while it has none.
YAxis(w, x) ==
  LET y == w.shown.y
      own == Cur(w).y.lut
  IN  IF w.linked THEN x
      ELSE [x EXCEPT !.mode = y.mode, !.acc = y.acc, !.off = y.off, !.capy = y.capy,
                     !.lut = IF own = <<>> THEN @ ELSE own]

\* "All devices" forgets the bound mouse only while that mouse is listed.
BoundTo(w) ==
  CASE w.sel \in w.mice -> w.sel
    [] w.sel \notin w.mice /\ Cur(w).id \in w.mice -> ""
    [] OTHER -> Cur(w).id

widgets_to_profile(w) ==
  LET s == w.shown
      x == [s.x EXCEPT !.lut = Cur(w).x.lut]
      smax == IF s.smax > 0 /\ s.smax < s.smin THEN s.smin ELSE s.smax
      dp == [Cur(w) EXCEPT !.x = x, !.y = YAxis(w, x), !.raw = s.raw, !.rot = s.rot,
                           !.smin = s.smin, !.smax = smax, !.odpi = s.odpi,
                           !.weight = s.weight, !.dpi = s.dpi, !.id = BoundTo(w),
                           !.app = Cut[Trim[s.app]]]
  IN  [w EXCEPT !.cfg.profiles[w.cur] = Distance(dp, w.dist, w.lp),
                !.shown.smax = smax,
                !.mem = IF w.dist = "max" THEN @ ELSE w.lp,
                !.unsaved = TRUE]

device_combo_select(w, id) == IF id \in w.mice \cup {""} THEN id ELSE Unplugged

\* The curve editor follows the axis that has a curve.
update_lut_visibility(w) ==
  LET other == IF w.lut = "x" THEN "y" ELSE "x"
      lookup(axis) == w.shown[axis].mode = "lookup"
  IN  IF ~w.linked /\ ~lookup(w.lut) /\ lookup(other) THEN [w EXCEPT !.lut = other] ELSE w

\* A spin button shows the nearest value in its range; Max is never shown as a norm.
AxisShown(a) == [a EXCEPT !.acc = Most(@, 0), !.gamma = Most(@, GAMMA_SPIN_MIN)]
NormShown(norm) == Clamp(norm, LP_MIN, LP_MAX)

profile_to_widgets(w) ==
  LET dp == Cur(w)
      max == dp.norm >= MAX_NORM
      dist == CASE dp.whole = 0 -> "separate"
                [] dp.whole = 1 /\ max -> "max"
                [] dp.whole = 1 /\ dp.norm = EUCLIDEAN -> "euclidean"
                [] OTHER -> "lp"
  IN  update_lut_visibility(
        [w EXCEPT !.linked = @ /\ dp.x = dp.y,
                  !.shown = [dp EXCEPT !.x = AxisShown(@), !.y = AxisShown(@)],
                  !.dist = dist,
                  !.lp = NormShown(IF max THEN w.mem ELSE dp.norm),
                  !.sel = device_combo_select(w, dp.id)])

rebuild_profile_combo(w) ==
  profile_to_widgets([w EXCEPT !.cur = Most(1, Least(@, Len(w.cfg.profiles)))])

\* The profile at an index becomes the current and the active one.
Choose(w, i) == [w EXCEPT !.cur = i, !.cfg.active = w.cfg.profiles[i].name]

on_param_changed(w, key, v) ==
  LET typed == CASE key = "dist" -> [w EXCEPT !.dist = v]
                 [] key = "lp" -> [w EXCEPT !.lp = v]
                 [] key = "id" -> [w EXCEPT !.sel = v]
                 [] key \in AxisKeys -> [w EXCEPT !.shown.x[key] = v]
                 [] OTHER -> [w EXCEPT !.shown[key] = v]
  IN  update_lut_visibility(widgets_to_profile(typed))

\* The same, from a widget of the Y axis, which is dead while it is linked.
on_y_param_changed(w, key, v) ==
  IF w.linked THEN w
  ELSE update_lut_visibility(widgets_to_profile([w EXCEPT !.shown.y[key] = v]))

\* Mutant: the widgets go on showing the other profile.
on_profile_changed_unshown(w, i) == IF i \in DOMAIN w.cfg.profiles THEN Choose(w, i) ELSE w

on_profile_changed(w, i) ==
  IF i \in DOMAIN w.cfg.profiles THEN profile_to_widgets(Choose(w, i)) ELSE w

\* Linking two axes that differ is asked about first.
on_xy_link_toggled(w, on, confirmed) ==
  IF on /\ ~w.linked /\ Cur(w).x # Cur(w).y /\ ~confirmed THEN w
  ELSE widgets_to_profile([w EXCEPT !.linked = on])

on_raw_input_toggled(w, on) == Saves([w EXCEPT !.cfg.raw = on, !.unsaved = TRUE])

on_apply_clicked(w) == Saves(widgets_to_profile(w))

refresh_mice_combo(w, mice) ==
  LET listed == [w EXCEPT !.mice = mice]
  IN  [listed EXCEPT !.sel = device_combo_select(listed, Cur(w).id)]

-----------------------------------------------------------------------------
(* Profiles *)

on_new_profile(w, name, preset) ==
  LET dp == IF preset = "" THEN Fresh(name) ELSE make_preset(preset, name)
      added == [w EXCEPT !.cfg = Add(@, dp)]
  IN  IF name \in NamesOf(w.cfg) \cup {""} \/ ~HasRoom(w.cfg) THEN w
      ELSE Saves(rebuild_profile_combo([Choose(added, Len(added.cfg.profiles)) EXCEPT !.cfg.active = name]))

on_rename_profile(w, name) ==
  LET old == Cur(w).name
  IN  IF name = "" \/ (name # old /\ name \in NamesOf(w.cfg)) THEN w
      ELSE Saves(rebuild_profile_combo(
             [w EXCEPT !.cfg.profiles[w.cur].name = name,
                       !.cfg.active = IF @ = old THEN name ELSE @]))

\* The last profile stays.
on_delete_profile(w) ==
  IF Len(w.cfg.profiles) <= 1 THEN w
  ELSE LET left == [w EXCEPT !.cfg.profiles = RemoveAt(@, w.cur)]
       IN  Saves(rebuild_profile_combo(Choose(left, Most(1, w.cur - 1))))

\* A copy under the first of its names that is free, bound to no device.
on_duplicate_profile(w) ==
  LET now == widgets_to_profile(w)
      names == CopyNames(Cur(w).name)
      free == {i \in DOMAIN names : names[i] \notin NamesOf(w.cfg)}
      added == [now EXCEPT !.cfg = Add(@, [Cur(now) EXCEPT !.name = names[Min(free)], !.id = ""])]
  IN  IF free = {} \/ ~HasRoom(w.cfg) THEN now
      ELSE Saves(rebuild_profile_combo(Choose(added, Len(added.cfg.profiles))))

on_reset_profile(w) ==
  Unsaved(profile_to_widgets(
    [w EXCEPT !.cfg.profiles[w.cur] = [device_profile EXCEPT !.name = Cur(w).name, !.id = Cur(w).id]]))

\* Another profile of that name is replaced only when that is confirmed.
save_profile_as_dialog(w, name, confirmed) ==
  LET now == widgets_to_profile(w)
      dp == [Cur(now) EXCEPT !.name = name]
      known == name \in NamesOf(w.cfg)
      at == IF known THEN IndexOf(w.cfg, name) ELSE Len(w.cfg.profiles) + 1
      stored == IF known THEN [now EXCEPT !.cfg.profiles[at] = dp] ELSE [now EXCEPT !.cfg = Add(@, dp)]
  IN  CASE name = "" -> w
        [] name # "" /\ (IF known THEN at # w.cur /\ ~confirmed ELSE ~HasRoom(w.cfg)) -> now
        [] OTHER -> Saves(rebuild_profile_combo(Choose(stored, at)))

\* One profile, migrated by its own version; a name too long is cut.
import_profile_done(w, j) ==
  LET dp == Migrated([version |-> Absent], j)
  IN  IF ProfileThrows(j) \/ ~check_import_lut_size(j) \/ dp.name = ""
           \/ dp.name \in NamesOf(w.cfg) \/ ~HasRoom(w.cfg)
      THEN w
      ELSE Saves(rebuild_profile_combo([w EXCEPT !.cfg = Add(@, dp)]))

-----------------------------------------------------------------------------
(* The curve editor.  With gain, what is stored of a point is a speed. *)

lut_args(w) == Cur(w)[w.lut]
lut_stored_to_gain(speed, stored, velocity) ==
  IF velocity = 0 THEN stored ELSE IF speed > 0 THEN stored \div speed ELSE 1
lut_gain_to_stored(speed, gain, velocity) == IF velocity = 0 THEN gain ELSE gain * speed

lut_set_points(w, points) ==
  LET sorted == SubSeq(sort_lut_data(points), 1, Least(Len(points), LUT_POINTS_CAPACITY))
      bounded == [i \in DOMAIN sorted |->
                    <<Clamp(sorted[i][1], -FLT_MAX, FLT_MAX), Clamp(sorted[i][2], -FLT_MAX, FLT_MAX)>>]
  IN  [w EXCEPT !.cfg.profiles[w.cur][w.lut].lut = bounded]

lut_mirror_link(w) ==
  IF w.linked
  THEN [w EXCEPT !.cfg.profiles[w.cur] = [@ EXCEPT !.x = lut_args(w), !.y = lut_args(w)]]
  ELSE w

SetPoints(w, points) == Unsaved(lut_mirror_link(lut_set_points(w, points)))

LutGraphMode(w) == w.shown.x.mode = "lookup" \/ (~w.linked /\ w.shown.y.mode = "lookup")

\* A click on the graph: a point where it was clicked.
AddPointAt(w, speed, gain) ==
  LET a == lut_args(w)
  IN  IF Len(a.lut) >= LUT_POINTS_CAPACITY THEN w
      ELSE SetPoints(w, Append(a.lut, <<speed, lut_gain_to_stored(speed, gain, a.gain)>>))

\* The button: a point beyond the last, with its gain.
on_lut_add_point(w) ==
  LET a == lut_args(w)
      last == a.lut[Len(a.lut)]
  IN  IF a.lut = <<>> THEN AddPointAt(w, 1, 2)
      ELSE AddPointAt(w, last[1] + 1, lut_stored_to_gain(last[1], last[2], a.gain))

on_lut_row_delete(w, i) == SetPoints(w, RemoveAt(lut_args(w).lut, i))

\* A row is edited: the whole list is read back from its rows.
lut_list_changed(w, i, speed, gain) ==
  LET a == lut_args(w)
      row(k) == IF k = i THEN <<speed, lut_gain_to_stored(speed, gain, a.gain)>>
                ELSE IF a.gain = 1 /\ a.lut[k][1] <= 0 THEN <<a.lut[k][1], a.lut[k][1]>>
                ELSE a.lut[k]
  IN  SetPoints(w, [k \in DOMAIN a.lut |-> row(k)])
=============================================================================
