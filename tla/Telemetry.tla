----------------------------- MODULE Telemetry -----------------------------
(***************************************************************************)
(* The last-motion sample of a device: the loop thread writes it           *)
(* (flush_motion) and clears it (apply_profile), the IPC thread reads it   *)
(* (status_json), with the generation counter `samples' instead of a lock. *)
(*                                                                         *)
(* A sample is represented by its number, 0 is a cleared field.  Every     *)
(* store and load is a step; the relaxed ones between two accesses of the  *)
(* counter happen in any order, but not across them, which is what the     *)
(* x86-64 build guarantees.  The counter of 64 bits does not wrap.         *)
(***************************************************************************)
EXTENDS Naturals

CONSTANTS
  Fields,      \* the atomic fields of telemetry_state
  RawFields,   \* the ones a raw passthrough sample fills
  MaxSpins,    \* attempts of one status_json
  MaxSamples,  \* bound: flushes
  MaxResets    \* bound: profile applies

ASSUME TelemetryAssumption ==
  /\ RawFields \subseteq Fields
  /\ MaxSpins \in Nat /\ MaxSamples \in Nat /\ MaxResets \in Nat

VARIABLES
  samples,    \* telemetry_state::samples
  payload,    \* its other fields
  rawProfile, \* the profile is raw passthrough
  writer,     \* what the loop thread is writing
  wtodo,      \* the fields it has not stored yet
  flushes,    \* history: the number of flushes begun
  resets,     \* history: the number of resets completed
  resetAt,    \* history: flushes at the last completed reset
  published,  \* history: the payloads of all completed samples
  reader,     \* what the IPC thread is doing
  spins,      \* attempts
  s1,         \* the first load of the counter
  rtodo,      \* the fields not loaded yet
  got,        \* the fields loaded
  telem_ok,   \* the sample is reported
  since,      \* history: resets at the first load of the counter
  floor,      \* history: resetAt at that load
  whole       \* history: no reset was completed between the two loads

writerVars == <<samples, payload, rawProfile, writer, wtodo, flushes, resets, resetAt, published>>
readerVars == <<reader, spins, s1, rtodo, got, telem_ok, since, floor, whole>>
telemetryVars == <<writerVars, readerVars>>

Cleared == [f \in Fields |-> 0]

TelemetryInit ==
  /\ samples = 0 /\ payload = Cleared /\ rawProfile = FALSE
  /\ writer = "idle" /\ wtodo = {}
  /\ flushes = 0 /\ resets = 0 /\ resetAt = 0 /\ published = {}
  /\ reader = "idle" /\ spins = 0 /\ s1 = 0 /\ rtodo = {} /\ got = Cleared
  /\ telem_ok = FALSE /\ since = 0 /\ floor = 0 /\ whole = FALSE

-----------------------------------------------------------------------------
(* The loop thread *)

\* flush_motion: odd, the write is in progress.
FlushBegin ==
  /\ writer = "idle" /\ flushes < MaxSamples
  /\ samples' = samples + 1
  /\ writer' = "flush" /\ wtodo' = (IF rawProfile THEN RawFields ELSE Fields)
  /\ flushes' = flushes + 1
  /\ UNCHANGED <<payload, rawProfile, resets, resetAt, published, readerVars>>

Store(f) ==
  /\ f \in wtodo
  /\ payload' = [payload EXCEPT ![f] = IF writer = "flush" THEN flushes ELSE 0]
  /\ wtodo' = wtodo \ {f}
  /\ UNCHANGED <<samples, rawProfile, writer, flushes, resets, resetAt, published, readerVars>>

\* Even: the sample is complete.
FlushEnd ==
  /\ writer = "flush" /\ wtodo = {}
  /\ samples' = samples + 1
  /\ writer' = "idle"
  /\ published' = published \cup {payload}
  /\ UNCHANGED <<payload, rawProfile, wtodo, flushes, resets, resetAt, readerVars>>

\* apply_profile: odd, then every field is cleared ...
ResetBegin ==
  /\ writer = "idle" /\ resets < MaxResets
  /\ samples' = samples + 1
  /\ rawProfile' \in BOOLEAN
  /\ writer' = "reset" /\ wtodo' = Fields
  /\ UNCHANGED <<payload, flushes, resets, resetAt, published, readerVars>>

\* ... and the counter is set back to 0: there is no sample.
ResetEnd ==
  /\ writer = "reset" /\ wtodo = {}
  /\ samples' = 0
  /\ writer' = "idle"
  /\ resets' = resets + 1 /\ resetAt' = flushes
  /\ UNCHANGED <<payload, rawProfile, wtodo, flushes, published, readerVars>>

-----------------------------------------------------------------------------
(* The IPC thread *)

StatusBegin ==
  /\ reader = "idle"
  /\ reader' = "try" /\ spins' = 0 /\ telem_ok' = FALSE
  /\ UNCHANGED <<writerVars, s1, rtodo, got, since, floor, whole>>

\* The spins are used up, or there has been no motion: telem_ok stays false.
ReadGivesUp ==
  /\ reader = "try"
  /\ spins = MaxSpins \/ samples = 0
  /\ reader' = "done"
  /\ UNCHANGED <<writerVars, spins, s1, rtodo, got, telem_ok, since, floor, whole>>

Spin ==
  /\ reader = "try" /\ spins < MaxSpins /\ samples % 2 = 1
  /\ spins' = spins + 1
  /\ UNCHANGED <<writerVars, reader, s1, rtodo, got, telem_ok, since, floor, whole>>

LoadFirst ==
  /\ reader = "try" /\ spins < MaxSpins
  /\ samples # 0 /\ samples % 2 = 0
  /\ reader' = "load" /\ s1' = samples /\ rtodo' = Fields
  /\ since' = resets /\ floor' = resetAt
  /\ UNCHANGED <<writerVars, spins, got, telem_ok, whole>>

Load(f) ==
  /\ f \in rtodo
  /\ got' = [got EXCEPT ![f] = payload[f]]
  /\ rtodo' = rtodo \ {f}
  /\ UNCHANGED <<writerVars, reader, spins, s1, telem_ok, since, floor, whole>>

\* Fault: any even counter will do.
LoadSecondEven ==
  /\ reader = "load" /\ rtodo = {}
  /\ IF samples % 2 = 0
       THEN reader' = "done" /\ telem_ok' = TRUE /\ whole' = (since = resets) /\ UNCHANGED spins
       ELSE reader' = "try" /\ spins' = spins + 1 /\ UNCHANGED <<telem_ok, whole>>
  /\ UNCHANGED <<writerVars, s1, rtodo, got, since, floor>>

\* The sample is taken if the counter has not changed.
LoadSecond ==
  /\ reader = "load" /\ rtodo = {}
  /\ IF samples = s1
       THEN reader' = "done" /\ telem_ok' = TRUE /\ whole' = (since = resets) /\ UNCHANGED spins
       ELSE reader' = "try" /\ spins' = spins + 1 /\ UNCHANGED <<telem_ok, whole>>
  /\ UNCHANGED <<writerVars, s1, rtodo, got, since, floor>>

Report ==
  /\ reader = "done"
  /\ reader' = "idle"
  /\ UNCHANGED <<writerVars, spins, s1, rtodo, got, telem_ok, since, floor, whole>>

WriterStep == FlushBegin \/ FlushEnd \/ ResetBegin \/ ResetEnd \/ \E f \in Fields : Store(f)

ReaderStep ==
  \/ StatusBegin \/ ReadGivesUp \/ Spin \/ LoadFirst \/ LoadSecond \/ Report
  \/ \E f \in Fields : Load(f)

TelemetryNext == WriterStep \/ ReaderStep

TelemetrySpec == TelemetryInit /\ [][TelemetryNext]_telemetryVars

-----------------------------------------------------------------------------
(* Properties *)

Sample == [Fields -> Nat]

\* Every variable has its type, and a status_json makes at most MaxSpins
\* attempts.
TelemetryTypeOK ==
  /\ samples \in Nat /\ payload \in Sample /\ rawProfile \in BOOLEAN
  /\ writer \in {"idle", "flush", "reset"} /\ wtodo \subseteq Fields
  /\ flushes \in Nat /\ resets \in Nat /\ resetAt \in Nat /\ published \subseteq Sample
  /\ reader \in {"idle", "try", "load", "done"} /\ spins \in 0..MaxSpins
  /\ s1 \in Nat /\ rtodo \subseteq Fields /\ got \in Sample
  /\ telem_ok \in BOOLEAN /\ since \in Nat /\ floor \in Nat /\ whole \in BOOLEAN

Reported == reader = "done" /\ telem_ok

\* A reported sample is one that flush_motion wrote as a whole, if no profile
\* was applied while it was read.
WholeSample == Reported /\ whole => got \in published

\* TEL-1: whatever happens while it is read, a reported sample holds nothing
\* from before the last profile apply that was complete when the read began.
NothingStale == Reported => \A f \in Fields : got[f] = 0 \/ got[f] > floor

\* What status_json reports is one sample of the current profile, though the loop
\* thread writes while it reads and the counter starts again with every apply.
ReadIsSound == WholeSample /\ NothingStale
=============================================================================
