------------------------------ MODULE AutoLevel ------------------------------
(***************************************************************************)
(* Automatic leveling (autolevel.py): a preset is wired to the USB path,   *)
(* the riff played through it and measured, its level trimmed until it is  *)
(* on target, and the wiring put back.  One step per message to the unit,  *)
(* each of which may fail; several threads may have a wiring of their own. *)
(***************************************************************************)
EXTENDS Integers, Sequences

CONSTANTS Threads,    \* the bench's loop, and one per riff played
          Loop,       \* the bench's loop, the only one that levels
          Presets,
          Name,       \* Name[p]: presets may share one
          Own,        \* Own[p] = <<in_portid, out_portid>> of the preset
          Usb,        \* USB 5/6, at either end
          Scenes,     \* 0 is scene A
          Scened,     \* the presets whose output level is assigned to scenes
          Fader,      \* Fader[p][s]: saved output level in dB
          Loudness,   \* Loudness[p]: of the riff with the fader at 0
          Crest,      \* Crest[p]: true peak above the loudness
          Noise,      \* how far a measurement may be off
          Lo, Hi,     \* range of the fader
          Ceiling,    \* TRUE_PEAK_CEILING_DBTP, with 0 the target
          MaxIterations

LevelAssumption ==
  /\ Own \in [Presets -> (Nat \ {Usb}) \X (Nat \ {Usb})] /\ Usb \in Nat
  /\ Lo \in Int /\ Hi \in Int /\ Lo <= Hi
  /\ Scenes \subseteq Nat /\ 0 \in Scenes /\ Scened \subseteq Presets
  /\ Fader \in [Presets -> [Scenes -> Lo .. Hi]]
  /\ \A p \in Presets \ Scened, s \in Scenes : Fader[p][s] = Fader[p][0]
  /\ Noise \subseteq Int /\ \E n \in Noise : \A k \in Noise : -n <= k /\ k <= n
  /\ Loudness \in [Presets -> Int] /\ Crest \in [Presets -> Nat]
  /\ MaxIterations \in Nat \ {0} /\ Ceiling \in Nat
  /\ Loop \in Threads
ASSUME LevelAssumption

VARIABLES
  unit,   \* the preset being worked on: which, its ports, its fader by scene
  reamp,  \* reamp[t]: a reamp_routing() of thread t and how far it is
  run,    \* the level_current() of the loop
  lost    \* history: an end of a wiring could not be put back

leveling == <<unit, reamp, run, lost>>

\* A preset as it is when it is recalled.
Loaded(p, s) == [pre |-> p, name |-> s.name, in |-> s.in, out |-> s.out, db |-> s.db,
                 scened |-> s.scened, scene |-> 0, gain |-> s.gain]
AsMade(p) == [name |-> Name[p], in |-> Own[p][1], out |-> Own[p][2], db |-> Fader[p],
              scened |-> p \in Scened, gain |-> FALSE]
Off == [at |-> "off"]
NoRun == [at |-> "none"]

ClampHigh(db) == IF db > Hi THEN Hi ELSE db  \* mutant: no lower end

Clamp(db) == IF db < Lo THEN Lo ELSE IF db > Hi THEN Hi ELSE db
Abs(x) == IF x < 0 THEN -x ELSE x

\* The level of the active scene, and the unit once it is told another: the one
\* of all scenes, unless each has its own.
Db == unit.db[unit.scene]
Moved(db) == [unit EXCEPT !.db = [s \in Scenes |->
                IF unit.scened /\ s # unit.scene THEN @[s] ELSE db]]

LevelInit(p) ==
  /\ unit = Loaded(p, AsMade(p))
  /\ reamp = [t \in Threads |-> Off]
  /\ run = NoRun
  /\ lost = FALSE

-----------------------------------------------------------------------------
(* reamp_routing *)

At(t, where) == reamp[t].at = where
Go(t, where) == reamp' = [reamp EXCEPT ![t].at = where]

Enter(t, feed, tap) ==
  reamp' = [reamp EXCEPT ![t] = [at |-> "ports", feed |-> feed, tap |-> tap, in |-> 0, out |-> 0]]

\* Before the try: what cannot be read is not touched.
ReadPorts(t) ==
  /\ At(t, "ports")
  /\ \/ reamp' = [reamp EXCEPT ![t].at = "feed", ![t].in = unit.in, ![t].out = unit.out]
     \/ Go(t, "off")
  /\ UNCHANGED <<unit, run, lost>>

Feed(t) ==
  /\ At(t, "feed")
  /\ \/ unit' = [unit EXCEPT !.in = IF reamp[t].feed THEN Usb ELSE @] /\ Go(t, "tap")
     \/ UNCHANGED unit /\ Go(t, "restore in")
  /\ UNCHANGED <<run, lost>>

\* The ports are read back, but what they are makes no difference.
Tap(t) ==
  /\ At(t, "tap")
  /\ \/ unit' = [unit EXCEPT !.out = IF reamp[t].tap THEN Usb ELSE @] /\ Go(t, "on")
     \/ unit' \in {unit, [unit EXCEPT !.out = IF reamp[t].tap THEN Usb ELSE @]}
        /\ Go(t, "restore in")
  /\ UNCHANGED <<run, lost>>

RestoreInOnly(t) ==  \* mutant: only the fed end is put back
  /\ At(t, "restore in")
  /\ unit' = [unit EXCEPT !.in = IF reamp[t].feed THEN reamp[t].in ELSE @]
  /\ Go(t, "off")
  /\ UNCHANGED <<run, lost>>

\* finally: both ends in one try.
RestoreIn(t) ==
  /\ At(t, "restore in")
  /\ \/ /\ unit' = [unit EXCEPT !.in = IF reamp[t].feed THEN reamp[t].in ELSE @]
        /\ Go(t, "restore out")
        /\ UNCHANGED lost
     \/ UNCHANGED unit /\ Go(t, "off") /\ lost' = TRUE
  /\ UNCHANGED run

RestoreOut(t) ==
  /\ At(t, "restore out")
  /\ \/ unit' = [unit EXCEPT !.out = IF reamp[t].tap THEN reamp[t].out ELSE @] /\ UNCHANGED lost
     \/ UNCHANGED unit /\ lost' = TRUE
  /\ Go(t, "off")
  /\ UNCHANGED run

Wiring(t) == ReadPorts(t) \/ Feed(t) \/ Tap(t) \/ RestoreIn(t) \/ RestoreOut(t)

-----------------------------------------------------------------------------
(* level_current *)

\* What a measurement can come to: nothing through a wiring that is not there.
Heard == IF unit.in = Usb /\ unit.out = Usb
         THEN {Loudness[unit.pre] + Db + e : e \in Noise} ELSE {}
Peak(m) == m + Crest[unit.pre]

StartRun(dry) == [at |-> "first", dry |-> dry, n |-> 1, delta |-> 0, peak |-> 0, cur |-> 0,
                  written |-> FALSE, pinned |-> FALSE, converged |-> FALSE, over |-> FALSE, error |-> FALSE]

Ended(r) == [r EXCEPT !.at = "ended"]

\* One measurement before anything is written.  The knob is read for the scene
\* the unit is said to be in, if it says so in time.
First ==
  /\ run.at = "first" /\ At(Loop, "on")
  /\ \/ run' = [Ended(run) EXCEPT !.error = TRUE]
     \/ \E m \in Heard :
          LET r == [run EXCEPT !.delta = -m, !.over = Peak(m) > Ceiling]
          IN IF run.dry THEN run' = Ended(r)
             ELSE IF m = 0 THEN run' = [Ended(r) EXCEPT !.converged = TRUE]
             ELSE \E s \in Scenes : run' = [r EXCEPT !.at = "write", !.cur = unit.db[s]]
  /\ UNCHANGED <<unit, reamp, lost>>

\* The fader has ends; a run that has come to one makes no further pass.
WriteTrim ==
  /\ run.at = "write"
  /\ LET ideal == run.cur + run.delta
     IN /\ unit' = Moved(Clamp(ideal))
        /\ run' = [run EXCEPT !.at = "again", !.n = @ + 1, !.written = TRUE,
                              !.pinned = ideal # Clamp(ideal), !.cur = Clamp(ideal)]
  /\ UNCHANGED <<reamp, lost>>

AfterMeasureKeen(m) ==  \* mutant: only a loop that wants more level looks at the peak
  LET r == [run EXCEPT !.delta = -m, !.peak = Peak(m)]
  IN IF Peak(m) > Ceiling /\ m < 0 THEN [r EXCEPT !.at = "back off"]
     ELSE IF m = 0 THEN [Ended(r) EXCEPT !.converged = TRUE]
     ELSE IF run.pinned \/ run.n > MaxIterations THEN Ended(r)
     ELSE [r EXCEPT !.at = "write"]

AfterMeasureEndless(m) ==  \* mutant: as many passes as it takes
  LET r == [run EXCEPT !.delta = -m, !.peak = Peak(m)]
  IN IF Peak(m) > Ceiling THEN [r EXCEPT !.at = "back off"]
     ELSE IF m = 0 THEN [Ended(r) EXCEPT !.converged = TRUE]
     ELSE [r EXCEPT !.at = "write", !.n = 1]

\* Over the ceiling comes first, on target or not.
AfterMeasure(m) ==
  LET r == [run EXCEPT !.delta = -m, !.peak = Peak(m)]
  IN IF Peak(m) > Ceiling THEN [r EXCEPT !.at = "back off"]
     ELSE IF m = 0 THEN [Ended(r) EXCEPT !.converged = TRUE]
     ELSE IF run.pinned \/ run.n > MaxIterations THEN Ended(r)
     ELSE [r EXCEPT !.at = "write"]

Again ==
  /\ run.at = "again"
  /\ \/ run' = [Ended(run) EXCEPT !.error = TRUE]
     \/ \E m \in Heard : run' = AfterMeasure(m)
  /\ UNCHANGED <<unit, reamp, lost>>

BackOff ==
  /\ run.at = "back off"
  /\ LET back == Clamp(run.cur - (run.peak - Ceiling))
     IN unit' = Moved(back) /\ run' = [Ended(run) EXCEPT !.cur = back]
  /\ UNCHANGED <<reamp, lost>>

\* Out of the with block, or an exception out of a knob that cannot be moved.
LeaveRun ==
  /\ run.at \in {"ended", "write", "back off"} /\ At(Loop, "on")
  /\ run' = IF run.at = "ended" THEN run ELSE [Ended(run) EXCEPT !.error = TRUE]
  /\ Go(Loop, "restore in")
  /\ UNCHANGED <<unit, lost>>

Leveling == First \/ WriteTrim \/ Again \/ BackOff \/ LeaveRun
=============================================================================
