----------------------------- MODULE HidppCalls -----------------------------
(***************************************************************************)
(* The calls of HidppTransport that are made of several requests: reading  *)
(* the feature set, the battery, the pairing slots and the DPI, writing    *)
(* DPI, polling rate, lift-off distance and a profile sector, switching    *)
(* the onboard profiles off and on, and identifying what answers on a      *)
(* hidraw node.  Calls of one object follow each other (the HID++ worker   *)
(* of the daemon, a task of the GUI, a command of the CLI).                *)
(*                                                                         *)
(* A request is answered, refused, or times out: then it has reached the   *)
(* device or not.  Between two requests the user may change the DPI at the *)
(* mouse.  What the answers carry is kept only where a later request or    *)
(* the result depends on it; the requests themselves are HidppTransport's. *)
(***************************************************************************)
EXTENDS Naturals, Sequences, FiniteSets, SequencesExt

CONSTANTS
  Candidates,  \* the device indices identify sweeps, in order (0xFF, 0x00, 1..6)
  Topologies,  \* what may be plugged in: [target -> sequence of its features],
               \*   << >> where nobody answers
  RegistersOf, \* [target -> battery registers it answers]
  Identity,    \* [target -> the [serial, model] that its firmware can tell]
  NameChunks, FwRecords,  \* requests a name takes (16 at most), firmware records (8 at most)
  Legacy,      \* targets that answer a HID++ 1.0 ping
  ListChunks,  \* [DPI feature -> chunks of its list: sequences of bytes]
  DpiX, DpiY,  \* what a device is set to when a behaviour begins
  ChunkMax,    \* chunks asked for at most (256 in the code)
  Rates,       \* [feature -> supported polling rates]
  RateCode,    \* [feature -> rates that have a code in it]
  TableSlots,  \* [topology -> pairing slots the product table gives its receiver]
  Bolts,       \* topologies whose receiver is a Bolt
  Slots, Occupied,  \* pairing slots a receiver reports, and those in use
  Sectors,     \* chunks of a profile sector
  Controls,    \* reprogrammable controls
  Calls,       \* the calls that are made: [op, tgt, val]
  Timeout,     \* what an unanswered request costs
  Budget,      \* kIdentifyBudget
  Streak,      \* kIdentifyTimeoutStreak
  MaxCalls, MaxTrouble, MaxButtons   \* bounds

Targets == Range(Candidates)
Ops == {"features", "battery", "pairing", "dpi_info", "set_dpi", "set_lod", "set_rate", "restore",
        "get_rate", "sector", "headers", "read_sector", "reprog", "host", "led", "identify"}

\* A feature index is a byte, so no device has more features than chunks are
\* asked for; identify_logitech_devices starts at the node.
ASSUME CallsAssumption ==
  /\ Candidates \in Seq(Targets) /\ Len(Candidates) >= 2
  /\ \A F \in Topologies : \A t \in Targets : F[t] \in Seq(Range(F[t])) /\ Len(F[t]) <= ChunkMax
  /\ \A t \in Targets : RegistersOf[t] \subseteq {"0D", "07"}
  /\ ChunkMax \in Nat /\ Slots \in Nat /\ Slots <= ChunkMax /\ Sectors \in Nat /\ Controls \in Nat
  /\ \A F \in Topologies : TableSlots[F] \in 0..ChunkMax
  /\ NameChunks \in Nat /\ FwRecords \in Nat
  /\ \A c \in Calls : c.op \in Ops /\ c.tgt \in Targets /\ (c.op = "identify" => c.tgt = Candidates[1])
  /\ Timeout \in Nat /\ Budget \in Nat \ {0} /\ Streak \in Nat \ {0}
  /\ MaxCalls \in Nat /\ MaxTrouble \in Nat /\ MaxButtons \in Nat

Node == Candidates[1]    \* what a new object addresses
NoCall == [pc |-> "idle"]
NoInfo == [ext |-> FALSE, x |-> 0, y |-> 0, lod |-> 0, got |-> {}]
NoId == [serial |-> "", model |-> ""]

-----------------------------------------------------------------------------
(* A DPI list: what is sent in chunks, with levels and ranges cut anywhere,  *)
(* is put together again byte by byte and then decoded.                      *)

LevelCap == 2048
NoStep == 8192  \* a step has 13 bits

\* The bytes of the chunks that came.
Bytes(f, got) ==
  FlattenSeq([n \in DOMAIN ListChunks[f] |-> IF n \in got THEN ListChunks[f][n] ELSE << >>])

\* The list is over when it ends in a zero word.
EndsInZeros(bytes) == LET n == Len(bytes) IN n >= 2 /\ bytes[n] = 0 /\ bytes[n - 1] = 0

\* An odd byte at the end is no word.
Words(bytes) == [k \in 1..(Len(bytes) \div 2) |-> 256 * bytes[2 * k - 1] + bytes[2 * k]]

\* From the last level to another one by equal steps; the last step may be shorter.
Stepped(levels, step, last) ==
  LET back == Last(levels)
      n == Min({(last - back) \div step, LevelCap - Len(levels)})
      grid == levels \o [k \in 1..n |-> back + k * step]
  IN  IF Len(grid) < LevelCap /\ Last(grid) # last THEN Append(grid, last) ELSE grid

\* One word: a level, the end, a step (with the high bits set), or the level a step
\* leads to.
Decoding == [levels : Seq(Nat), step : 0..NoStep, over : BOOLEAN]
Decoded[d \in Decoding, word \in Nat] ==
  CASE d.over -> d
    [] ~d.over /\ d.step # NoStep ->
         [d EXCEPT !.step = NoStep,
                   !.levels = IF d.step # 0 /\ @ # << >> /\ word > Last(@) THEN Stepped(@, d.step, word) ELSE @]
    [] ~d.over /\ d.step = NoStep /\ word = 0 -> [d EXCEPT !.over = TRUE]
    [] ~d.over /\ d.step = NoStep /\ word \div 8192 = 7 -> [d EXCEPT !.step = word % 8192]
    [] OTHER -> [d EXCEPT !.levels = Append(@, word)]

Decode(bytes) ==
  FoldLeft(LAMBDA d, word : Decoded[d, word],
           [levels |-> << >>, step |-> NoStep, over |-> FALSE], Words(bytes))

\* A step whose level was cut off is dropped.
decode_dpi_levels(bytes) == Decode(bytes).levels

\* The levels that are read of a list, by what came of it; what the device lists is
\* all of it.
DpiFeatures == {"extdpi", "dpi"}
LevelsRead ==
  [f \in DpiFeatures |->
     [got \in SUBSET DOMAIN ListChunks[f] |-> Range(decode_dpi_levels(Bytes(f, got)))]]
Levels == UNION {LevelsRead[f][DOMAIN ListChunks[f]] : f \in DpiFeatures}
ListOf(info) == IF info.ext THEN "extdpi" ELSE "dpi"

\* Nothing came after a chunk that was missed: the list is cut short at most.
Gapless(got) == \A n \in got : 1..n \subseteq got

\* A list is decoded from the front, so that what is left of one that is cut short
\* is listed.
ASSUME ListAssumption ==
  /\ DpiX \in Levels /\ DpiY \in Levels
  /\ \A f \in DpiFeatures : \A got \in SUBSET DOMAIN ListChunks[f] :
       Gapless(got) => LevelsRead[f][got] \subseteq Levels

-----------------------------------------------------------------------------

VARIABLES
  FeatureAt,  \* what is plugged in
  slow,     \* the devices take all the time there is to answer
  hw,       \* what the devices are set to: [target -> [mode, x, y, lod, rate]]
  idx,      \* feature_indices_: the (target, feature) pairs it knows
  fset,     \* feature_sets_, feature_metadata_sets_: target -> features
  devidx,   \* device_index_
  off,      \* history: targets whose profiles a call switched off, with an answer
  flag,     \* onboard_profiles_disabled_by_us_
  call,     \* the call that runs, or NoCall
  last,     \* history: the last call that returned
  touched,  \* history: the DPI was changed at the mouse since that call began
  trouble,  \* requests so far that were late, refused or lost
  calls, buttons  \* how much of the bounds is used up

callVars == <<FeatureAt, slow, off, hw, idx, fset, devidx, flag, call, last, touched, trouble, calls, buttons>>
plugged == <<FeatureAt, slow>>
caches == <<idx, fset>>
callHistory == <<last, touched, calls, buttons>>

Features(t) == Range(FeatureAt[t])

CallsInit ==
  /\ FeatureAt \in Topologies /\ slow \in BOOLEAN /\ off = {}
  /\ hw = [t \in Targets |-> [mode |-> "onboard", x |-> DpiX, y |-> DpiY, lod |-> 1, rate |-> 1000]]
  /\ idx = {} /\ fset = << >> /\ devidx = Node /\ flag = FALSE
  /\ call = NoCall /\ last = NoCall /\ touched = FALSE
  /\ trouble = 0 /\ calls = 0 /\ buttons = 0

Tgt == IF call.tgt = Node THEN devidx ELSE call.tgt

-----------------------------------------------------------------------------
(* One request *)

\* A request the device can serve may go any way; one it cannot is refused or
\* times out.  A slow device answers just before the deadline.
Outcomes(can) == IF can THEN {"ok", "err", "lost", "late"} ELSE {"err", "lost"}
Answered(o) == o = "ok"
Executed(o) == o \in {"ok", "late"}
Cost(o) == IF o \in {"ok", "err"} /\ ~slow THEN 0 ELSE Timeout

\* The request of a stage, with the outcome o; c is the call after it.
Asks(can, o, c) ==
  /\ o \in Outcomes(can)
  /\ trouble' = IF o = "ok" \/ (o = "err" /\ ~can) THEN trouble ELSE trouble + 1
  /\ trouble' <= MaxTrouble
  /\ call' = [c EXCEPT !.t = @ + Cost(o)]
  /\ UNCHANGED <<plugged, devidx, callHistory>>

\* A stage that makes no request.
Skips(o, c) ==
  o = "ok" /\ call' = c /\ UNCHANGED <<plugged, devidx, trouble, callHistory>>

At(pc) == call.pc = pc
Goto(pc) == [call EXCEPT !.pc = pc]
Loop(pc) == [call EXCEPT !.pc = pc, !.i = 1, !.miss = 0, !.dl = call.t + Budget]
Ret(res) == [call EXCEPT !.pc = "ret", !.res = res]

\* The bookkeeping of the enumeration loops: one more index, and the run of
\* misses starts again at an answer.
Again(ok) ==
  [call EXCEPT !.i = IF ~ok /\ call.miss + 1 >= Streak THEN ChunkMax + 1 ELSE @ + 1,
               !.miss = IF ok THEN 0 ELSE @ + 1]


\* An enumeration of n indices ends with the last one, after Streak misses in a
\* row, or when its budget is used up.
Over(n) == call.i > n \/ call.t >= call.dl

-----------------------------------------------------------------------------
(* resolve_feature_index: a request of its own unless the index is known *)

\* Mutant: the index is filed under the object's own target.
KnownAs_node(t, f) == <<devidx, f>>

\* The cache key.
KnownAs(t, f) == <<t, f>>

Need == [mode |-> "onboard", restore |-> "onboard", sector |-> "onboard",
         caps |-> "extdpi", legacy |-> "dpi", rate |-> "rate", xrate |-> "extrate",
         xlive |-> "extrate", live |-> "rate", headers |-> "onboard",
         read_sector |-> "onboard", reprog |-> "reprog", host |-> "host", led |-> "led"]

AfterMode == IF call.op = "set_rate" THEN Goto("rate") ELSE Goto("caps")

\* What a stage does when its feature has no index.
NoIndex(pc) ==
  CASE pc = "mode" -> AfterMode
    [] pc = "restore" -> Ret(TRUE)
    [] pc = "caps" -> Goto("legacy")
    [] pc = "legacy" -> [Goto("dpi_done") EXCEPT !.info = NoInfo]
    [] pc = "rate" -> Goto("xrate")
    [] pc = "xlive" -> Goto("live")
    [] OTHER -> Ret(FALSE)

resolve_feature_index(o) ==
  /\ call.pc \in DOMAIN Need
  /\ LET f == Need[call.pc] IN
     /\ KnownAs(Tgt, f) \notin idx
     /\ Asks(f \in Features(Tgt), o, IF Answered(o) THEN call ELSE NoIndex(call.pc))
     /\ idx' = IF Answered(o) THEN idx \cup {KnownAs(Tgt, f)} ELSE idx
  /\ UNCHANGED <<hw, fset, flag, off>>

\* The stage has its index.
With(pc) == At(pc) /\ KnownAs(Tgt, Need[pc]) \in idx

-----------------------------------------------------------------------------
(* get_feature_metadata and get_feature_set *)

\* get_feature_set files what was found under its target, also the empty set of
\* a device that did not answer.
FeaturesDone ==
  /\ At("fs_done")
  /\ call' = [Goto(call.then) EXCEPT !.i = 1]
  /\ fset' = [t \in DOMAIN fset \cup {Tgt} |-> IF t = Tgt THEN call.found ELSE fset[t]]
  /\ UNCHANGED <<plugged, hw, idx, devidx, flag, off, trouble, callHistory>>

FeaturesKnown ==
  /\ At("features") /\ Tgt \in DOMAIN fset
  /\ call' = [Goto(call.then) EXCEPT !.found = fset[Tgt]]
  /\ UNCHANGED <<plugged, hw, caches, devidx, flag, off, trouble, callHistory>>

\* ROOT.GetFeature(FEATURE_SET), then GetCount.
FeatureRoot(o) ==
  /\ \/ At("features") /\ Tgt \notin DOMAIN fset
     \/ At("fs_count")
  /\ Asks(FeatureAt[Tgt] # << >>, o,
          IF ~Answered(o) THEN [Goto("fs_done") EXCEPT !.found = {}]
          ELSE IF At("features") THEN Goto("fs_count")
          ELSE [Loop("fs_each") EXCEPT !.found = {}, !.dl = @ + Cost(o)])
  /\ UNCHANGED <<hw, caches, flag, off>>

FeatureEach(o) ==
  /\ At("fs_each")
  /\ LET n == Len(FeatureAt[Tgt]) IN
     IF Over(n)
     THEN Skips(o, Goto("fs_done")) /\ UNCHANGED idx
     ELSE LET f == FeatureAt[Tgt][call.i] IN
          /\ Asks(TRUE, o, [Again(Answered(o)) EXCEPT
                             !.found = IF Answered(o) THEN @ \cup {f} ELSE @])
          /\ idx' = IF Answered(o) THEN idx \cup {KnownAs(Tgt, f)} ELSE idx
  /\ UNCHANGED <<hw, fset, flag, off>>

-----------------------------------------------------------------------------
(* get_battery_status *)

\* The features, then the registers.
BatteryOrder == <<"unified", "centurion", "status", "voltage">>

BatteryRegisters == <<"0D", "07">>
Sources == BatteryOrder \o BatteryRegisters

\* Every feature the set has is asked, then the two registers; the first answer
\* is the result.
get_battery_status(o) ==
  /\ At("battery")
  /\ IF call.i > Len(Sources)
     THEN Skips(o, Ret("none"))
     ELSE LET s == Sources[call.i]
              next == [call EXCEPT !.i = @ + 1]
          IN IF call.i <= Len(BatteryOrder) /\ s \notin call.found
             THEN Skips(o, next)
             ELSE Asks(s \in Features(Tgt) \cup RegistersOf[Tgt], o,
                       IF Answered(o) THEN Ret(s) ELSE next)
  /\ UNCHANGED <<hw, caches, flag, off>>

-----------------------------------------------------------------------------
(* get_pairing_info *)

\* The receiver reports how many slots it has, unless it is a Bolt; without an
\* answer, the product table tells.  An unknown product is not asked.
PairingCount(o) ==
  /\ At("pair_info")
  /\ IF TableSlots[FeatureAt] = 0
     THEN Skips(o, Ret({}))
     ELSE IF FeatureAt \in Bolts
     THEN Skips(o, [Loop("pairing") EXCEPT !.sub = TableSlots[FeatureAt]])
     ELSE Asks(TRUE, o, [Loop("pairing") EXCEPT !.sub = IF Answered(o) THEN Slots ELSE TableSlots[FeatureAt],
                                                !.dl = @ + Cost(o)])
  /\ UNCHANGED <<hw, caches, flag, off>>

\* Each slot is read; an occupied one takes two more reads, not at a Bolt, whose
\* failure costs a name, not the slot.
get_pairing_info(o) ==
  /\ At("pairing")
  /\ IF Over(call.sub)
     THEN Skips(o, Ret(call.found))
     ELSE Asks(TRUE, o,
               IF ~Answered(o) THEN Again(FALSE)
               ELSE IF call.i \in Occupied /\ FeatureAt \notin Bolts
               THEN [Goto("pair_name") EXCEPT !.found = @ \cup {call.i}, !.miss = 0]
               ELSE [Again(TRUE) EXCEPT !.found = @ \cup {call.i}])
  /\ UNCHANGED <<hw, caches, flag, off>>

PairingDetail(o) ==
  /\ call.pc \in {"pair_name", "pair_serial"}
  /\ Asks(TRUE, o, IF At("pair_name") THEN Goto("pair_serial")
                   ELSE [Goto("pairing") EXCEPT !.i = @ + 1])
  /\ UNCHANGED <<hw, caches, flag, off>>

-----------------------------------------------------------------------------
(* Onboard profiles *)

SetMode(t, m) == hw' = [hw EXCEPT ![t].mode = m]

\* disable_onboard_profiles_for_write reads the mode; no answer counts as on.
ReadMode(o) ==
  /\ With("mode")
  /\ Asks(TRUE, o, IF Answered(o) /\ hw[Tgt].mode = "host" THEN AfterMode ELSE Goto("disable"))
  /\ UNCHANGED <<hw, caches, flag, off>>

\* It switches them off, and remembers it when the answer comes; the caller goes
\* on either way.
disable_onboard_profiles_for_write(o) ==
  /\ At("disable")
  /\ Asks(TRUE, o, AfterMode)
  /\ IF Executed(o) THEN SetMode(Tgt, "host") ELSE UNCHANGED hw
  /\ flag' = (flag \/ Answered(o))
  /\ off' = IF Answered(o) THEN off \cup {Tgt} ELSE off
  /\ UNCHANGED caches

\* restore_onboard_profiles
RestoreUnneeded ==
  /\ At("restore") /\ ~flag
  /\ call' = Ret(TRUE)
  /\ UNCHANGED <<plugged, hw, caches, devidx, flag, off, trouble, callHistory>>

\* The profiles are switched on again, and forgotten when the answer comes.
restore_onboard_profiles(o) ==
  /\ With("restore") /\ flag
  /\ Asks(TRUE, o, Ret(Answered(o)))
  /\ IF Executed(o) THEN SetMode(Tgt, "onboard") ELSE UNCHANGED hw
  /\ flag' = ~Answered(o)
  /\ off' = IF Executed(o) THEN off \ {Tgt} ELSE off
  /\ UNCHANGED caches

-----------------------------------------------------------------------------
(* get_dpi_info *)

\* The capabilities of the extended feature.
DpiCaps(o) ==
  /\ With("caps")
  /\ Asks(TRUE, o, Goto(IF Answered(o) THEN "current" ELSE "legacy"))
  /\ UNCHANGED <<hw, caches, flag, off>>

\* The current values, of the extended or of the legacy feature, as they are
\* now; then the list.  A failed extended read falls back to the legacy feature.
DpiCurrent(o) ==
  /\ At("current") \/ With("legacy")
  /\ LET ext == At("current")
         h == hw[Tgt]
         info == [ext |-> ext, x |-> h.x, y |-> h.y, lod |-> h.lod, got |-> {}]
     IN Asks(TRUE, o, IF Answered(o) THEN [Loop("list") EXCEPT !.info = info, !.dl = @ + Cost(o)]
                      ELSE IF ext THEN Goto("legacy") ELSE NoIndex("legacy"))
  /\ UNCHANGED <<hw, caches, flag, off>>

\* One chunk of the list.  What is missed leaves a gap, and a list whose end is
\* missed is asked on.
DpiList(o) ==
  /\ At("list")
  /\ IF Over(ChunkMax)
     THEN Skips(o, Goto("dpi_done"))
     ELSE LET f == ListOf(call.info)
              got == call.info.got \cup {call.i}
          IN Asks(call.i \in DOMAIN ListChunks[f], o,
                  IF ~Answered(o) THEN Again(FALSE)
                  ELSE [Again(TRUE) EXCEPT !.info.got = got,
                                           !.pc = IF EndsInZeros(Bytes(f, got)) THEN "dpi_done" ELSE @])
  /\ UNCHANGED <<hw, caches, flag, off>>

\* Mutant: set_dpi writes what the list does not have.
DpiDone_unlisted ==
  /\ At("dpi_done")
  /\ call' = CASE call.op = "dpi_info" -> Ret(TRUE)
               [] call.op = "set_dpi" -> Goto("write")
               [] call.op = "set_lod" -> IF call.info.ext /\ call.val \in 1..3 THEN Goto("write") ELSE Ret(FALSE)
  /\ UNCHANGED <<plugged, hw, caches, devidx, flag, off, trouble, callHistory>>

\* Back in the caller: set_dpi asks for a listed value, set_lift_off_distance
\* for the extended feature.
DpiDone ==
  /\ At("dpi_done")
  /\ call' = CASE call.op = "dpi_info" -> Ret(call.info # NoInfo)
               [] call.op = "set_dpi" ->
                    IF /\ call.info # NoInfo /\ call.val # 0
                       /\ call.val \in LevelsRead[ListOf(call.info)][call.info.got]
                    THEN Goto("write") ELSE Ret(FALSE)
               [] call.op = "set_lod" -> IF call.info.ext /\ call.val \in 1..3 THEN Goto("write") ELSE Ret(FALSE)
  /\ UNCHANGED <<plugged, hw, caches, devidx, flag, off, trouble, callHistory>>

Clamp(n) == IF n < 1 THEN 1 ELSE IF n > 3 THEN 3 ELSE n

\* Mutant: set_dpi keeps the Y axis it has read (DPIFIX-1).
NewDpi_keeps_y(h) ==
  IF call.op = "set_dpi" THEN [h EXCEPT !.x = call.val, !.y = call.info.y]
  ELSE [h EXCEPT !.x = call.info.x, !.y = call.info.y, !.lod = call.val]

\* What the write sets: set_dpi both axes to one value, with the lift-off
\* distance it has read; set_lift_off_distance the axes it has read.
NewDpi(h) ==
  IF call.op = "set_dpi"
  THEN [h EXCEPT !.x = call.val, !.y = call.val,
                 !.lod = IF call.info.ext THEN Clamp(call.info.lod) ELSE @]
  ELSE [h EXCEPT !.x = call.info.x, !.y = call.info.y, !.lod = call.val]

\* The device refuses a write while an onboard profile is active.
Writable(t) == "onboard" \notin Features(t) \/ hw[t].mode = "host"

DpiWrite(o) ==
  /\ At("write")
  /\ Asks(Writable(Tgt), o, Ret(Answered(o)))
  /\ hw' = IF Executed(o) THEN [hw EXCEPT ![Tgt] = NewDpi(@)] ELSE hw
  /\ UNCHANGED <<caches, flag, off>>

-----------------------------------------------------------------------------
(* set_polling_rate: the legacy feature first, then the extended one *)

RateSupported(o) ==
  /\ \E pc \in {"rate", "xrate"} :
       /\ With(pc)
       /\ Asks(TRUE, o,
               IF Answered(o) /\ call.val \in Rates[Need[pc]]
               THEN Goto(IF pc = "rate" THEN "rateset" ELSE "xrateset")
               ELSE NoIndex(pc))
       /\ call.val \in RateCode[Need[pc]]
  /\ UNCHANGED <<hw, caches, flag, off>>

\* A rate that has no code in a feature is not asked there.
RateNoCode ==
  /\ \E pc \in {"rate", "xrate"} :
       At(pc) /\ call.val \notin RateCode[Need[pc]] /\ call' = NoIndex(pc)
  /\ UNCHANGED <<plugged, hw, caches, devidx, flag, off, trouble, callHistory>>

\* A legacy write that fails is tried again with the extended feature.
RateWrite(o) ==
  /\ call.pc \in {"rateset", "xrateset"}
  /\ Asks(Writable(Tgt), o,
          IF Answered(o) THEN Ret(TRUE)
          ELSE IF At("rateset") THEN Goto("xrate") ELSE Ret(FALSE))
  /\ hw' = IF Executed(o) THEN [hw EXCEPT ![Tgt].rate = call.val] ELSE hw
  /\ UNCHANGED <<caches, flag, off>>

-----------------------------------------------------------------------------
(* write_onboard_profile_sector: chunk after chunk, until one fails *)

SectorWrite(o) ==
  /\ With("sector")
  /\ Asks(TRUE, o, IF ~Answered(o) THEN Ret(FALSE)
                   ELSE IF call.i = Sectors THEN Ret(TRUE)
                   ELSE [call EXCEPT !.i = @ + 1])
  /\ UNCHANGED <<hw, caches, flag, off>>

-----------------------------------------------------------------------------
(* The calls that only read, or write once *)

\* How many requests they make, and whether a later one that fails is skipped or
\* ends the call.  The polling rate: what is active, one or two connection types
\* and the rate, else the legacy feature; the profile headers: from RAM, and
\* from ROM if there are none; the controls are read on whatever is missed.
Chain == [xlive |-> [n |-> 4, skip |-> FALSE], live |-> [n |-> 1, skip |-> FALSE],
          headers |-> [n |-> 3, skip |-> TRUE], read_sector |-> [n |-> 1 + Sectors, skip |-> FALSE],
          reprog |-> [n |-> 1 + Controls, skip |-> TRUE],
          host |-> [n |-> 1, skip |-> FALSE], led |-> [n |-> 1, skip |-> FALSE]]

\* The second connection type is not asked when the first one is the active one.
ReadChain(o) ==
  /\ call.pc \in DOMAIN Chain /\ With(call.pc)
  /\ LET c == Chain[call.pc]
         jump == IF At("xlive") /\ call.i = 2 THEN {1, 2} ELSE {1}
     IN \E k \in jump :
          Asks(TRUE, o,
               IF ~Answered(o) /\ (call.i = 1 \/ ~c.skip) THEN [NoIndex(call.pc) EXCEPT !.i = 1]
               ELSE IF call.i + k > c.n THEN Ret(TRUE)
               ELSE [call EXCEPT !.i = @ + k])
  /\ UNCHANGED <<hw, caches, flag, off>>

-----------------------------------------------------------------------------
(* identify_logitech_devices *)

\* The requests of get_device_info: a first one, and what follows if it is
\* answered (n more, given up after tol misses in a row).
InfoSections == <<[f |-> "name", n |-> NameChunks, tol |-> 1], [f |-> "name", n |-> 0, tol |-> 1],
                  [f |-> "friendly", n |-> NameChunks, tol |-> 1],
                  [f |-> "fw", n |-> FwRecords, tol |-> Streak], [f |-> "unit", n |-> 0, tol |-> 1]>>

\* What the first answer of a section adds to the identity: the firmware tells both
\* parts, the unit id the serial if it is still missing.
Learnt(id, f) ==
  LET serial == IF id.serial = "" THEN Identity[devidx].serial ELSE id.serial
  IN  CASE f = "fw" -> [serial |-> serial, model |-> Identity[devidx].model]
        [] f = "unit" -> [id EXCEPT !.serial = serial]
        [] OTHER -> id

\* One deadline is shared by all candidates and looked at before each.
SweepOver == call.cand > Len(Candidates) \/ call.t >= call.sweep

\* The next candidate: set_device_index forgets all caches.
Sweep ==
  /\ At("sweep")
  /\ IF SweepOver
     THEN /\ call' = IF call.out # {} THEN Ret(call.out) ELSE [Goto("ping") EXCEPT !.sub = 0]
          /\ UNCHANGED <<idx, fset, devidx>>
     ELSE /\ devidx' = Candidates[call.cand]
          /\ idx' = {} /\ fset' = << >>
          /\ call' = [Goto("features") EXCEPT !.cand = @ + 1, !.then = "identified"]
  /\ UNCHANGED <<plugged, hw, flag, off, trouble, callHistory>>

Identified ==
  /\ At("identified")
  /\ call' = IF call.found \cap {"name", "fw"} = {} THEN Goto("sweep")
             ELSE [Goto("info") EXCEPT !.i = 1, !.miss = 0, !.id = NoId]
  /\ UNCHANGED <<plugged, hw, caches, devidx, flag, off, trouble, callHistory>>

\* same_identified_device: what the two have told, also if that is nothing.
Listed(out, id) == \E u \in out : u.id = id

\* One request of get_device_info; after the last section the device is listed.
DeviceInfo(o) ==
  /\ At("info")
  /\ IF call.i > Len(InfoSections)
     THEN Skips(o, [Goto("sweep") EXCEPT
                      !.out = IF Listed(@, call.id) THEN @ ELSE @ \cup {[tgt |-> devidx, id |-> call.id]}])
     ELSE LET s == InfoSections[call.i]
              next == [call EXCEPT !.i = @ + 1, !.sub = 0, !.miss = 0]
              more == [call EXCEPT !.sub = @ + 1, !.miss = IF Answered(o) THEN 0 ELSE @ + 1]
              id == IF call.sub = 0 /\ Answered(o) THEN Learnt(call.id, s.f) ELSE call.id
          IN IF s.f \notin call.found
             THEN Skips(o, next)
             ELSE Asks(TRUE, o,
                       IF (~Answered(o) /\ (call.sub = 0 \/ call.miss + 1 >= s.tol))
                          \/ call.sub = s.n
                       THEN [next EXCEPT !.id = id] ELSE [more EXCEPT !.id = id])
  /\ UNCHANGED <<hw, caches, flag, off>>

\* Nothing answers as HID++ 2.0: a HID++ 1.0 ping of the node, then of index 0.
Ping(o) ==
  /\ At("ping")
  /\ LET t == Candidates[call.sub + 1] IN
     Asks(t \in Legacy, o, IF Answered(o) THEN Ret({[tgt |-> t, id |-> NoId]})
                           ELSE IF call.sub = 0 THEN [call EXCEPT !.sub = 1] ELSE Ret({}))
  /\ UNCHANGED <<hw, caches, flag, off>>

-----------------------------------------------------------------------------
(* Calls *)

FirstStage(op) ==
  CASE op \in {"features", "battery"} -> "features"
    [] op = "pairing" -> "pair_info"
    [] op = "dpi_info" -> "caps"
    [] op \in {"set_dpi", "set_lod", "set_rate"} -> "mode"
    [] op = "restore" -> "restore"
    [] op = "get_rate" -> "xlive"
    [] op \in {"sector", "headers", "read_sector", "reprog", "host", "led"} -> op
    [] op = "identify" -> "sweep"

\* identify_logitech_devices works on an object of its own.
BeginCall(c) ==
  /\ call = NoCall /\ calls < MaxCalls
  /\ calls' = calls + 1
  /\ call' = [op |-> c.op, tgt |-> c.tgt, val |-> c.val, pc |-> FirstStage(c.op),
              i |-> 1, sub |-> 0, miss |-> 0, t |-> 0, dl |-> Budget, sweep |-> Budget,
              cand |-> 1, found |-> {}, out |-> {}, info |-> NoInfo, id |-> NoId,
              then |-> IF c.op = "features" THEN "ret" ELSE c.op,
              res |-> FALSE, at |-> trouble, before |-> hw]
  /\ touched' = FALSE /\ last' = NoCall
  /\ c.op = "identify" => ~flag
  /\ idx' = IF c.op = "identify" THEN {} ELSE idx
  /\ fset' = IF c.op = "identify" THEN << >> ELSE fset
  /\ UNCHANGED <<plugged, hw, devidx, flag, off, trouble, buttons>>

Return ==
  /\ At("ret")
  /\ last' = [op |-> call.op, tgt |-> Tgt, val |-> call.val, t |-> call.t, pc |-> "ret",
              res |-> call.res, found |-> call.found, got |-> call.info.got,
              clean |-> trouble = call.at /\ ~slow, before |-> call.before]
  /\ call' = NoCall
  /\ idx' = IF call.op = "identify" THEN {} ELSE idx
  /\ fset' = IF call.op = "identify" THEN << >> ELSE fset
  /\ devidx' = IF call.op = "identify" THEN Node ELSE devidx
  /\ UNCHANGED <<plugged, hw, flag, off, touched, trouble, calls, buttons>>

\* The user changes the DPI at the mouse (external).
Button(t, v) ==
  /\ Features(t) \cap {"dpi", "extdpi"} # {}
  /\ buttons < MaxButtons /\ buttons' = buttons + 1
  /\ hw' = [hw EXCEPT ![t].x = v, ![t].y = v]
  /\ touched' = TRUE
  /\ UNCHANGED <<plugged, caches, devidx, flag, off, call, last, trouble, calls>>

Stage(o) ==
  \/ resolve_feature_index(o) \/ FeatureRoot(o) \/ FeatureEach(o)
  \/ get_battery_status(o) \/ PairingCount(o) \/ get_pairing_info(o) \/ PairingDetail(o)
  \/ ReadMode(o) \/ disable_onboard_profiles_for_write(o) \/ restore_onboard_profiles(o)
  \/ DpiCaps(o) \/ DpiCurrent(o) \/ DpiList(o) \/ DpiWrite(o)
  \/ RateSupported(o) \/ RateWrite(o) \/ SectorWrite(o) \/ ReadChain(o)
  \/ DeviceInfo(o) \/ Ping(o)

Local ==
  \/ FeaturesDone \/ FeaturesKnown \/ RestoreUnneeded \/ DpiDone \/ RateNoCode
  \/ Sweep \/ Identified \/ Return

CallsNext ==
  \/ \E c \in Calls : BeginCall(c)
  \/ \E o \in Outcomes(TRUE) : Stage(o)
  \/ Local
  \/ \E t \in Targets, v \in Levels : Button(t, v)

\* Every request ends (HidppTransport), so the call goes on.
CallsSpec == CallsInit /\ [][CallsNext]_callVars /\ WF_callVars((\E o \in Outcomes(TRUE) : Stage(o)) \/ Local)

-----------------------------------------------------------------------------
(* Properties *)

Returned(op) == call = NoCall /\ last.pc = "ret" /\ last.op = op

\* The state is well formed: a run of misses never gets longer than Streak, and
\* what the profiles were switched off for is a device that has them.
CallsTypeOK ==
  /\ call = NoCall \/ (call.miss <= Streak /\ call.t \in Nat)
  /\ \A t \in off : "onboard" \in Features(t)
  /\ trouble <= MaxTrouble

\* At most one of the devices behind the node has onboard profiles.
OneKeeper == \A t, u \in Targets : "onboard" \in Features(t) \cap Features(u) => t = u

\* As long as a device is in host mode because of an answered call, the object
\* knows that it has something to restore.
FlagTells == off # {} => flag

\* A write that reports success is what the device is set to, on both axes, also
\* when it came by way of the second feature; unless the user has changed the
\* DPI at the mouse in the meantime.  A restore that succeeds has left onboard mode
\* on again, and one that is due is known to be, where one flag is enough: with
\* two devices that have onboard profiles, the restore of one clears the flag that
\* both have set.
TrueIsDone ==
  /\ Returned("set_dpi") /\ last.res /\ ~touched =>
       hw[last.tgt].x = last.val /\ hw[last.tgt].y = last.val
  /\ Returned("set_rate") /\ last.res => hw[last.tgt].rate = last.val
  /\ Returned("set_lod") /\ last.res => hw[last.tgt].lod = last.val
  /\ OneKeeper => FlagTells /\ (Returned("restore") /\ last.res => last.tgt \notin off)

\* No call writes a value the device does not list, unless it is set_dpi and a chunk
\* from the middle of the list was missed: then words are put together from the
\* bytes of two, and one of those can be asked for and is written.  A list that is
\* cut short is no such case, wherever it is cut.  The lift-off distance is set
\* without touching the DPI, and the DPI without touching it.
OthersKept ==
  /\ \A t \in Targets : hw[t].lod \in 1..3
  /\ Returned(last.op) /\ (last.op = "set_dpi" => Gapless(last.got)) =>
       \A t \in Targets : {hw[t].x, hw[t].y} \subseteq Levels \cup {last.before[t].x, last.before[t].y}
  /\ Returned("set_lod") /\ ~touched =>
       hw[last.tgt].x = last.before[last.tgt].x /\ hw[last.tgt].y = last.before[last.tgt].y
  /\ Returned("set_dpi") => hw[last.tgt].lod = last.before[last.tgt].lod
  /\ \A t \in Targets : Returned(last.op) /\ t # last.tgt /\ ~touched => hw[t] = last.before[t]

\* What the caches say of a target is true of this target (T49-02): features and
\* indices of several devices behind one node are not mixed up.
CacheIsTrue ==
  /\ \A k \in idx : k[2] \in Features(k[1])
  /\ \A t \in DOMAIN fset : fset[t] \subseteq Features(t)

\* The first source, in the order of the GUI, that the target has.
Has(t, i) == <<"unified", "centurion", "status", "voltage", "0D", "07">>[i] \in Features(t) \cup RegistersOf[t]
Preferred(t) ==
  IF \E i \in 1..6 : Has(t, i)
  THEN <<"unified", "centurion", "status", "voltage", "0D", "07">>[
         CHOOSE i \in 1..6 : Has(t, i) /\ \A j \in 1..(i - 1) : ~Has(t, j)]
  ELSE "none"

\* The battery is read from the source the GUI names as well (R6-3), of the
\* target that was asked (T50-02), when every request is answered and the cached
\* feature set is complete; it is never read from what the target does not have.
BatteryOfTarget ==
  Returned("battery") =>
    /\ last.res \in Features(last.tgt) \cup RegistersOf[last.tgt] \cup {"none"}
    /\ last.clean /\ fset[last.tgt] = Features(last.tgt) => last.res = Preferred(last.tgt)

\* The worst case of one enumeration, of a DPI query and of one candidate.
LoopMax == Budget + Timeout
InfoMax == (2 * NameChunks + FwRecords + 5) * Timeout
MaxTime ==
  [features |-> 2 * Timeout + LoopMax, battery |-> 8 * Timeout + LoopMax,
   pairing |-> LoopMax + 3 * Timeout, dpi_info |-> 5 * Timeout + LoopMax,
   set_dpi |-> 9 * Timeout + LoopMax, set_lod |-> 9 * Timeout + LoopMax,
   get_rate |-> 7 * Timeout, headers |-> 4 * Timeout, host |-> 2 * Timeout,
   led |-> 2 * Timeout, read_sector |-> (Sectors + 2) * Timeout,
   reprog |-> (Controls + 2) * Timeout, set_rate |-> 9 * Timeout, restore |-> 2 * Timeout, sector |-> (Sectors + 1) * Timeout,
   identify |-> Budget + 2 * Timeout + LoopMax + InfoMax + 2 * Timeout]

\* What the firmware of a target tells of it, when it is asked.
Told(t) ==
  [serial |-> IF Features(t) \cap {"fw", "unit"} # {} THEN Identity[t].serial ELSE "",
   model |-> IF "fw" \in Features(t) THEN Identity[t].model ELSE ""]
Identifiable == {t \in Targets : Features(t) \cap {"name", "fw"} # {}}

\* An entry of the list says of a device what the device has told or nothing, no
\* two say the same, and a sweep that is not disturbed has an entry for each device
\* that can be told apart: one, also if it answers on two indices.  Where an answer
\* is missed, such a device can be listed twice.
IdentifiesOnce ==
  Returned("identify") =>
    /\ \A u, v \in last.res : u.id = v.id => u = v
    /\ \A u \in last.res : \A part \in {"serial", "model"} : u.id[part] \in {"", Told(u.tgt)[part]}
    /\ last.clean /\ Identifiable # {} => {u.id : u \in last.res} = {Told(t) : t \in Identifiable}

\* Several devices behind one node are kept apart: their features and indices in
\* the caches, their batteries, and their entries in the list.
TargetsKeptApart == CallsTypeOK /\ CacheIsTrue /\ BatteryOfTarget /\ IdentifiesOnce

=============================================================================
