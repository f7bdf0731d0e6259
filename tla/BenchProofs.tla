---------------------------- MODULE BenchProofs ----------------------------
(* The leveling bench, for any number of presets, commands and players. *)
EXTENDS Bench, TLAPS

\* The shape of what the unit, the wirings, a run and a command keep.
Levels == [Scenes -> Lo .. Hi]
Units == [pre : Presets, name : Names, in : Nat, out : Nat, db : Levels, scened : BOOLEAN,
          scene : Scenes, gain : BOOLEAN]
Kept == [name : Names, in : Nat, out : Nat, db : Levels, scened : BOOLEAN, gain : BOOLEAN]
UnitOK == unit \in Units
SavedOK == saved \in [Presets -> Kept]

Ways == {"off", "ports", "feed", "tap", "on", "restore in", "restore out"}
Wirings == {Off} \cup [at : Ways, feed : BOOLEAN, tap : BOOLEAN, in : Nat, out : Nat]
ReampOK == reamp \in [Threads -> Wirings]

Traffic ==
  /\ script \in Seq(Commands) /\ inbox \in Seq(Commands)
  /\ told \in Seq(Presets) /\ asked \in Seq(Presets) /\ coming \in Seq(Presets)

Runs == [at : {"first", "write", "again", "back off", "ended"}, dry : BOOLEAN,
         n : 1 .. MaxIterations + 1, delta : Int, peak : Int, cur : Int, written : BOOLEAN,
         pinned : BOOLEAN, converged : BOOLEAN, over : BOOLEAN, error : BOOLEAN]
RunOK == run = NoRun \/ (run \in Runs /\ (run.at \in {"first", "write"} => run.n <= MaxIterations))

\* What the bench remembers of each name, and what there was.
Places == [place : [pre : Presets, scene : Scenes], db : Lo .. Hi, sure : BOOLEAN]
Remembered == applied \in [Names -> NoTrim .. Hi] /\ was \in [Names -> SUBSET Places]

\* A take that goes on has room for a block.
Take ==
  /\ state \in {"idle", "armed", "recording", "done"} /\ stream \in {"none", "open", "ended"}
  /\ blocks \in 0 .. MaxBlocks /\ quiet \in 0 .. MaxQuiet
  /\ stream = "open" =>
       \/ state = "armed" /\ blocks = 0 /\ quiet = 0
       \/ state = "recording" /\ blocks < MaxBlocks /\ quiet < MaxQuiet
  /\ op.at = "save take" => stream = "none"

\* Where a command can be, and what it knows there.
InOpen == {"drain", "recall", "listen", "landed"}
Stages(d) ==
  CASE d = "state" -> {"grid", "pointer", "active", "answer"}
    [] d = "save" -> {"pointer", "create", "answer"}
    [] d = "revert_levels" -> {"grid", "pointer", "active", "put back", "answer"}
    [] d = "open" -> InOpen \cup {"grid", "pointer", "active", "answer"}
    [] d = "apply_trim" -> InOpen \cup {"grid", "pointer", "active", "trim", "answer"}
    [] d = "measure_many" -> InOpen \cup {"next", "grid", "pointer", "active", "rows", "with",
                                          "within", "leave", "answer"}
    [] d = "measure_scenes" -> {"grid", "pointer", "active", "scene", "rows", "with", "within",
                                "leave", "scene back", "answer"}
    [] d = "autolevel" -> {"rows", "grid", "pointer", "active", "trim", "with", "within", "leave",
                           "answer"}
    [] d \in {"measure", "level_scenes"} -> {"rows", "with", "within", "leave", "answer"}
    [] d = "play" -> {"rows", "answer"}
    [] d = "sample_stop" -> {"do", "save take", "answer"}
    [] OTHER -> {"do", "answer"}

Fields == {"do", "arg", "at", "i", "got", "label", "name", "levels", "level", "rows", "error",
           "sure", "stuck", "before", "undone", "found"}
Underway ==
  /\ DOMAIN op = Fields /\ op.arg \in Commands /\ op.do = op.arg.do
  /\ op.at \in Stages(op.do) /\ op.i \in Nat \ {0}
  /\ op.at \in InOpen => Wanted \in Presets
  /\ op.name \in Names /\ op.levels \in Levels /\ op.level \in Lo .. Hi
  /\ op.at = "create" => op.label \in Presets
  /\ op.do = "measure_scenes" => op.before \in Scenes
OpOK == op = NoOp \/ Underway

Shape == UnitOK /\ SavedOK /\ ReampOK /\ Traffic /\ RunOK /\ Remembered /\ Take /\ OpOK

-----------------------------------------------------------------------------
(* Commands *)

\* Which commands are done at once.
AtOnce == {"level", "scene", "cancel", "stop_play", "sample_arm", "sample_stop",
           "sample_discard", "use_riff"}

\* A command that is about to be done at once is one of those, with what it takes.
LEMMA DoneAtOnce ==
  ASSUME OpOK, op.at = "do"
  PROVE  /\ op.do \in AtOnce /\ DOMAIN op = Fields
         /\ op.do = "level" => op.arg.db \in Int
         /\ op.do = "scene" => op.arg.scene \in Scenes
<1>1. op # NoOp
  BY DEF NoOp
<1>2. Underway
  BY <1>1 DEF OpOK
<1>3. op.do \in AtOnce
  BY <1>2 DEF Underway, Stages, InOpen, AtOnce, Commands
<1>4. /\ op.do = "level" => op.arg.db \in Int
      /\ op.do = "scene" => op.arg.scene \in Scenes
  BY <1>2 DEF Underway, Commands
<1> QED
  BY <1>2, <1>3, <1>4 DEF Underway

\* What a command done at once comes to, by what it touches.
LEMMA Doing ==
  ASSUME OpOK, Do
  PROVE  /\ op.at = "do" /\ UNCHANGED <<applied, run, lost>> /\ Quiet
         /\ \/ op' = [op EXCEPT !.at = "answer"] /\ op.do # "sample_stop"
            \/ op.do = "sample_stop" /\ op' = [op EXCEPT !.at = "save take"] /\ StopStream
         /\ \/ /\ op.do = "level" /\ unit' = Moved(Clamp(op.arg.db))
               /\ UNCHANGED <<reamp, sampling>>
            \/ /\ op.do = "scene" /\ unit' = [unit EXCEPT !.scene = op.arg.scene]
               /\ UNCHANGED <<reamp, sampling>>
            \/ /\ op.do = "stop_play" /\ UNCHANGED <<unit, sampling>>
               /\ reamp' = [t \in Threads |->
                              IF t \in Players /\ At(t, "on")
                              THEN [reamp[t] EXCEPT !.at = "restore in"] ELSE reamp[t]]
            \/ UNCHANGED <<unit, reamp, sampling>>
            \/ UNCHANGED <<unit, reamp>> /\ (Arm \/ StopStream \/ Discard \/ UseRiff)
<1>1. op.at = "do"
  BY DEF Do, On
<1>2. op.do \in AtOnce
  BY <1>1, DoneAtOnce
<1>3. CASE op.do = "level"
  BY <1>1, <1>3 DEF Do, GoOn, leveling
<1>4. CASE op.do = "scene"
  BY <1>1, <1>4 DEF Do, GoOn, leveling
<1>5. CASE op.do = "cancel"
  BY <1>1, <1>5 DEF Do, GoOn, leveling
<1>6. CASE op.do = "stop_play"
  BY <1>1, <1>6 DEF Do, GoOn, leveling
<1>7. CASE op.do = "sample_arm"
  BY <1>1, <1>7 DEF Do, GoOn, leveling
<1>8. CASE op.do = "sample_stop"
  BY <1>1, <1>8 DEF Do, GoOn, leveling
<1>9. CASE op.do = "sample_discard"
  BY <1>1, <1>9 DEF Do, GoOn, leveling
<1>10. CASE op.do = "use_riff"
  BY <1>1, <1>10 DEF Do, GoOn, leveling
<1> QED
  BY <1>2, <1>3, <1>4, <1>5, <1>6, <1>7, <1>8, <1>9, <1>10 DEF AtOnce

-----------------------------------------------------------------------------
(* Frames *)

\* Which step writes what.
LEMMA Frames ==
  ASSUME OpOK, [Next]_vars
  PROVE  /\ \/ UNCHANGED unit \/ Land \/ PlayerRecalls \/ Do \/ ApplyTrim \/ PutBack
            \/ AddGain \/ Scene \/ LastScene \/ SceneBack \/ LevelStep
            \/ \E t \in Threads : Threaded(t)
         /\ \/ UNCHANGED reamp \/ Do \/ BeginPlay \/ With \/ MeasureOnce \/ LastScene
            \/ Raise \/ LevelStep
            \/ \E t \in Threads : Threaded(t)
         /\ \/ UNCHANGED run \/ Answer \/ With \/ LevelStep
         /\ \/ UNCHANGED lost
            \/ \E t \in Threads : Threaded(t)
         /\ \/ UNCHANGED saved \/ Create
         /\ \/ UNCHANGED asked \/ Land \/ Recall
         /\ \/ UNCHANGED coming \/ Land \/ Announce \/ PlayerRecalls \/ Create
         /\ \/ UNCHANGED told \/ Announce \/ Pump \/ Drain \/ Listen
         /\ \/ UNCHANGED inbox \/ Send \/ TakeCommand
         /\ \/ UNCHANGED script \/ Send
         /\ \/ UNCHANGED <<applied, was>> \/ ApplyTrim \/ PutBack \/ RememberFader
         /\ \/ UNCHANGED sampling \/ Do \/ Keep \/ AudioThread
         /\ \/ UNCHANGED calm \/ TakeCommand \/ PlayerRecalls
         /\ \/ UNCHANGED crossed \/ Land \/ PlayerRecalls \/ TakeCommand \/ Create
         /\ \/ UNCHANGED op \/ Main
<1>1. ASSUME TakeCommand
      PROVE  UNCHANGED <<unit, reamp, run, lost, saved, asked, coming, told, script, applied, was,
             sampling>>
  BY <1>1 DEF TakeCommand, sampling, leveling, vars, loop, device, history, Quiet
<1>2. ASSUME Pump
      PROVE  UNCHANGED <<unit, reamp, run, lost, saved, asked, coming, inbox, script, applied, was,
             sampling, calm, crossed, op>>
  BY <1>2 DEF Pump, sampling, leveling, vars, loop, device, history, Quiet
<1>3. ASSUME Answer
      PROVE  UNCHANGED <<unit, reamp, lost, saved, asked, coming, told, inbox, script, applied,
             was, sampling, calm, crossed>>
  BY <1>3 DEF Answer, sampling, leveling, vars, loop, device, history, Quiet
<1>4. ASSUME NoAnswer
      PROVE  UNCHANGED <<unit, reamp, run, lost, saved, asked, coming, told, inbox, script,
             applied, was, sampling, calm, crossed>>
  BY <1>4 DEF NoAnswer, Failed, sampling, leveling, vars, loop, device, history, Quiet
<1>5. ASSUME Drain
      PROVE  UNCHANGED <<unit, reamp, run, lost, saved, asked, coming, inbox, script, applied, was,
             sampling, calm, crossed>>
  BY <1>5 DEF Drain, On, Learn, sampling, leveling, vars, loop, device, history, Quiet
<1>6. ASSUME Recall
      PROVE  UNCHANGED <<unit, reamp, run, lost, saved, coming, told, inbox, script, applied, was,
             sampling, calm, crossed>>
  BY <1>6 DEF Recall, GoOn, On, sampling, leveling, vars, loop, device, history, Quiet
<1>7. ASSUME Listen
      PROVE  UNCHANGED <<unit, reamp, run, lost, saved, asked, coming, inbox, script, applied, was,
             sampling, calm, crossed>>
  BY <1>7 DEF Listen, On, Learn, sampling, leveling, vars, loop, device, history, Quiet
<1>8. ASSUME Landed
      PROVE  UNCHANGED <<unit, reamp, run, lost, saved, asked, coming, told, inbox, script,
             applied, was, sampling, calm, crossed>>
  BY <1>8 DEF Landed, On, Learn, sampling, leveling, vars, loop, device, history, Quiet
<1>9. ASSUME GiveUp
      PROVE  UNCHANGED <<unit, reamp, run, lost, saved, asked, coming, told, inbox, script,
             applied, was, sampling, calm, crossed>>
  BY <1>9 DEF GiveUp, GoOn, On, Learn, sampling, leveling, vars, loop, device, history, Quiet
<1>10. ASSUME ReadGrid
      PROVE  UNCHANGED <<unit, reamp, run, lost, saved, asked, coming, told, inbox, script,
             applied, was, sampling, calm, crossed>>
  BY <1>10 DEF ReadGrid, On, Learn, sampling, leveling, vars, loop, device, history, Quiet
<1>11. ASSUME ReadPointer
      PROVE  UNCHANGED <<unit, reamp, run, lost, saved, asked, coming, told, inbox, script,
             applied, was, sampling, calm, crossed>>
  BY <1>11 DEF ReadPointer, On, Learn, sampling, leveling, vars, loop, device, history, Quiet
<1>37. ASSUME ReadActive
      PROVE  UNCHANGED <<unit, reamp, run, lost, saved, asked, coming, told, inbox, script,
             applied, was, sampling, calm, crossed>>
  BY <1>37 DEF ReadActive, On, Learn, sampling, leveling, vars, loop, device, history, Quiet
<1>12. ASSUME Do
      PROVE  UNCHANGED <<run, lost, saved, asked, coming, told, inbox, script, applied, was, calm,
             crossed>>
  BY <1>12, Doing DEF sampling, leveling, vars, loop, device, history, Quiet
<1>13. ASSUME Keep
      PROVE  UNCHANGED <<unit, reamp, run, lost, saved, asked, coming, told, inbox, script,
             applied, was, calm, crossed>>
  BY <1>13 DEF Keep, SaveTake, GoOn, On, sampling, leveling, vars, loop, device, history, Quiet
<1>14. ASSUME Create
      PROVE  UNCHANGED <<unit, reamp, run, lost, asked, told, inbox, script, applied, was,
             sampling, calm>>
  BY <1>14 DEF Create, GoOn, On, sampling, leveling, vars, loop, device, history, Quiet
<1>15. ASSUME ApplyTrim
      PROVE  UNCHANGED <<reamp, run, lost, saved, asked, coming, told, inbox, script, sampling,
             calm, crossed>>
  BY <1>15
  DEF ApplyTrim, Remember, Note, GoOn, Failed, On, sampling, leveling, vars, loop, device,
      history, Quiet
<1>16. ASSUME PutBack
      PROVE  UNCHANGED <<reamp, run, lost, saved, asked, coming, told, inbox, script, sampling,
             calm, crossed>>
  BY <1>16 DEF PutBack, On, sampling, leveling, vars, loop, device, history, Quiet
<1>17. ASSUME NextPreset
      PROVE  UNCHANGED <<unit, reamp, run, lost, saved, asked, coming, told, inbox, script,
             applied, was, sampling, calm, crossed>>
  BY <1>17 DEF NextPreset, GoOn, On, sampling, leveling, vars, loop, device, history, Quiet
<1>18. ASSUME RowsKnown
      PROVE  UNCHANGED <<unit, reamp, run, lost, saved, asked, coming, told, inbox, script,
             applied, was, sampling, calm, crossed>>
  BY <1>18 DEF RowsKnown, GoOn, On, sampling, leveling, vars, loop, device, history, Quiet
<1>19. ASSUME BeginPlay
      PROVE  UNCHANGED <<unit, run, lost, saved, asked, coming, told, inbox, script, applied, was,
             sampling, calm, crossed>>
  BY <1>19
  DEF BeginPlay, Enter, GoOn, On, sampling, leveling, vars, loop, device, history, Quiet
<1>20. ASSUME RememberFader
      PROVE  UNCHANGED <<unit, reamp, run, lost, saved, asked, coming, told, inbox, script,
             sampling, calm, crossed>>
  BY <1>20
  DEF RememberFader, Remember, Note, GoOn, On, sampling, leveling, vars, loop, device,
      history, Quiet
<1>21. ASSUME ReadScene
      PROVE  UNCHANGED <<unit, reamp, run, lost, saved, asked, coming, told, inbox, script,
             applied, was, sampling, calm, crossed>>
  BY <1>21 DEF ReadScene, On, sampling, leveling, vars, loop, device, history, Quiet
<1>22. ASSUME With
      PROVE  UNCHANGED <<unit, lost, saved, asked, coming, told, inbox, script, applied, was,
             sampling, calm, crossed>>
  BY <1>22 DEF With, Enter, GoOn, On, sampling, leveling, vars, loop, device, history, Quiet
<1>23. ASSUME MeasureOnce
      PROVE  UNCHANGED <<unit, run, lost, saved, asked, coming, told, inbox, script, applied, was,
             sampling, calm, crossed>>
  BY <1>23 DEF MeasureOnce, Go, On, sampling, leveling, vars, loop, device, history, Quiet
<1>24. ASSUME AddGain
      PROVE  UNCHANGED <<reamp, run, lost, saved, asked, coming, told, inbox, script, applied, was,
             sampling, calm, crossed>>
  BY <1>24 DEF AddGain, On, sampling, leveling, vars, loop, device, history, Quiet
<1>25. ASSUME Scene
      PROVE  UNCHANGED <<reamp, run, lost, saved, asked, coming, told, inbox, script, applied, was,
             sampling, calm, crossed>>
  BY <1>25 DEF Scene, On, sampling, leveling, vars, loop, device, history, Quiet
<1>26. ASSUME LastScene
      PROVE  UNCHANGED <<run, lost, saved, asked, coming, told, inbox, script, applied, was,
             sampling, calm, crossed>>
  BY <1>26 DEF LastScene, Go, GoOn, On, sampling, leveling, vars, loop, device, history, Quiet
<1>27. ASSUME Raise
      PROVE  UNCHANGED <<unit, run, lost, saved, asked, coming, told, inbox, script, applied, was,
             sampling, calm, crossed>>
  BY <1>27 DEF Raise, Go, On, sampling, leveling, vars, loop, device, history, Quiet
<1>28. ASSUME SceneBack
      PROVE  UNCHANGED <<reamp, run, lost, saved, asked, coming, told, inbox, script, applied, was,
             sampling, calm, crossed>>
  BY <1>28, ZenonT(30)
  DEF SceneBack, GoOn, On, sampling, leveling, vars, loop, device, history, Quiet
<1>29. ASSUME LevelStep
      PROVE  UNCHANGED <<lost, saved, asked, coming, told, inbox, script, applied, was, sampling,
             calm, crossed>>
  BY <1>29
  DEF LevelStep, Leveling, First, WriteTrim, Again, BackOff, LeaveRun, Go, On, sampling,
      leveling, vars, loop, device, history, Quiet
<1>30. ASSUME Left
      PROVE  UNCHANGED <<unit, reamp, run, lost, saved, asked, coming, told, inbox, script,
             applied, was, sampling, calm, crossed>>
  BY <1>30 DEF Left, Failed, On, sampling, leveling, vars, loop, device, history, Quiet
<1>31. ASSUME Send
      PROVE  UNCHANGED <<unit, reamp, run, lost, saved, asked, coming, told, applied, was,
             sampling, calm, crossed, op>>
  BY <1>31 DEF Send, sampling, leveling, vars, loop, device, history, Quiet
<1>32. ASSUME Land
      PROVE  UNCHANGED <<reamp, run, lost, saved, told, inbox, script, applied, was, sampling,
             calm, op>>
  BY <1>32 DEF Land, sampling, leveling, vars, loop, device, history, Quiet
<1>33. ASSUME Announce
      PROVE  UNCHANGED <<unit, reamp, run, lost, saved, asked, inbox, script, applied, was,
             sampling, calm, crossed, op>>
  BY <1>33 DEF Announce, sampling, leveling, vars, loop, device, history, Quiet
<1>34. ASSUME PlayerRecalls
      PROVE  UNCHANGED <<reamp, run, lost, saved, asked, told, inbox, script, applied, was,
             sampling, op>>
  BY <1>34 DEF PlayerRecalls, sampling, leveling, vars, loop, device, history, Quiet
<1>35. ASSUME AudioThread
      PROVE  UNCHANGED <<unit, reamp, run, lost, saved, asked, coming, told, inbox, script,
             applied, was, calm, crossed, op>>
  BY <1>35
  DEF AudioThread, Audio, Block, Finished, sampling, leveling, vars, loop, device, history,
      Quiet
<1>36. ASSUME NEW t \in Threads, Threaded(t)
      PROVE  UNCHANGED <<run, saved, asked, coming, told, inbox, script, applied, was, sampling,
             calm, crossed, op>>
  BY <1>36
  DEF Threaded, Wiring, ReadPorts, Feed, Tap, RestoreIn, RestoreOut, EndPlay, Go, vars,
      leveling, sampling, loop, device, history, Quiet
<1> QED
  BY <1>1, <1>2, <1>3, <1>4, <1>5, <1>6, <1>7, <1>8, <1>9, <1>10, <1>11, <1>12, <1>13, <1>14,
     <1>15, <1>16, <1>17, <1>18, <1>19, <1>20, <1>21, <1>22, <1>23, <1>24, <1>25, <1>26, <1>27,
     <1>28, <1>29, <1>30, <1>31, <1>32, <1>33, <1>34, <1>35, <1>36, <1>37
  DEF Next, Main, vars, leveling, sampling, loop, device, history

-----------------------------------------------------------------------------
(* Shape *)

\* The fader's ends.
LEMMA ClampInRange ==
  ASSUME NEW x \in Int
  PROVE  Clamp(x) \in Lo .. Hi
<1>1. Lo \in Int /\ Hi \in Int /\ Lo <= Hi
  BY LevelAssumption, Zenon DEF LevelAssumption
<1> QED
  BY <1>1 DEF Clamp

\* A command under way is one.
LEMMA Busy ==
  ASSUME OpOK, op.at # "idle"
  PROVE  op # NoOp /\ Underway
BY DEF OpOK, NoOp

\* So is a run.
LEMMA Running ==
  ASSUME RunOK, run.at # "none"
  PROVE  /\ run # NoRun /\ run \in Runs /\ (run.at \in {"first", "write"} => run.n <= MaxIterations)
         /\ run.cur \in Int /\ run.delta \in Int /\ run.peak \in Int
<1>1. run # NoRun
  BY DEF NoRun
<1>2. run \in Runs /\ (run.at \in {"first", "write"} => run.n <= MaxIterations)
  BY <1>1 DEF RunOK
<1>3. run.cur \in Int
  BY <1>2 DEF Runs
<1>4. run.delta \in Int
  BY <1>2 DEF Runs
<1>5. run.peak \in Int
  BY <1>2 DEF Runs
<1> QED
  BY <1>1, <1>2, <1>3, <1>4, <1>5

\* A command knows what it takes.
LEMMA Takes ==
  ASSUME Underway
  PROVE  /\ op.do = "apply_trim" => op.arg.db \in Int
         /\ op.do \in {"measure_scenes", "level_scenes"} => op.arg.scenes \in Seq(Scenes)
         /\ op.do = "measure_many" => op.arg.list \in Seq(Addresses)
         /\ op.do = "open" \/ (op.do = "apply_trim" /\ op.arg.open) => op.arg.pos \in Presets
         /\ op.do = "autolevel" => op.arg.dry \in BOOLEAN
<1>1. op.arg \in Commands /\ op.do = op.arg.do
  BY DEF Underway
<1> QED
  BY <1>1 DEF Commands

\* A preset in its slot, and one recalled.
LEMMA LoadedOK ==
  ASSUME SavedOK, NEW p \in Presets
  PROVE  Loaded(p, saved[p]) \in Units
<1>1. saved[p] \in Kept
  BY DEF SavedOK
<1>2. 0 \in Scenes
  BY LevelAssumption, Zenon DEF LevelAssumption
<1> QED
  BY <1>1, <1>2 DEF Loaded, Kept, Units

\* Changing one thing about the preset leaves it one.
LEMMA UnitChanges ==
  ASSUME UnitOK
  PROVE  /\ \A x \in Nat : [unit EXCEPT !.in = x] \in Units
         /\ \A x \in Nat : [unit EXCEPT !.out = x] \in Units
         /\ \A x \in Levels : [unit EXCEPT !.db = x] \in Units
         /\ \A x \in Scenes : [unit EXCEPT !.scene = x] \in Units
         /\ [unit EXCEPT !.gain = TRUE] \in Units
BY DEF UnitOK, Units

\* The level of the scene is one of them, and so are the levels with another.
LEMMA LevelOf ==
  ASSUME UnitOK
  PROVE  /\ Db \in Lo .. Hi
         /\ \A x \in Lo .. Hi : Moved(x) \in Units
         /\ \A x \in Lo .. Hi : Moved(x).db[unit.scene] = x
         /\ \A x : \E l : Moved(x) = [unit EXCEPT !.db = l]
<1>1. unit.db \in Levels /\ unit.scene \in Scenes
  BY DEF UnitOK, Units
<1>2. Db \in Lo .. Hi
  BY <1>1 DEF Db, Levels
<1>3. ASSUME NEW x
      PROVE  Moved(x) = [unit EXCEPT !.db =
               [s \in Scenes |-> IF unit.scened /\ s # unit.scene THEN unit.db[s] ELSE x]]
  BY DEF Moved
<1>4. ASSUME NEW x \in Lo .. Hi
      PROVE  [s \in Scenes |-> IF unit.scened /\ s # unit.scene THEN unit.db[s] ELSE x] \in Levels
  BY <1>1 DEF Levels
<1>5. ASSUME NEW x \in Lo .. Hi
      PROVE  Moved(x) \in Units /\ Moved(x).db[unit.scene] = x
  <2>1. DEFINE l == [s \in Scenes |-> IF unit.scened /\ s # unit.scene THEN unit.db[s] ELSE x]
  <2>2. PICK m \in Levels : m = l
    BY <1>4, Zenon
  <2>3. Moved(x) = [unit EXCEPT !.db = m]
    BY <1>3, <2>2, Zenon
  <2>4. Moved(x).db = m
    BY <2>3 DEF UnitOK, Units
  <2>5. m[unit.scene] = x
    BY <1>1, <2>2
  <2> QED
    BY <2>2, <2>3, <2>4, <2>5, UnitChanges, Zenon
<1> QED
  BY <1>2, <1>3, <1>5, Zenon

\* A level told is the level there is.
LEMMA LevelTold ==
  ASSUME UnitOK, NEW y \in Lo .. Hi, unit' = Moved(y)
  PROVE  Db' = y /\ unit'.pre = unit.pre
<1>1. PICK l : unit' = [unit EXCEPT !.db = l]
  BY LevelOf
<1>2. unit'.scene = unit.scene /\ unit'.pre = unit.pre
  BY <1>1 DEF UnitOK, Units
<1>3. unit'.db[unit.scene] = y
  BY LevelOf
<1> QED
  BY <1>2, <1>3 DEF Db

\* What a step of a wiring may do to the preset: put a number in at either end.
LEMMA ReampFields ==
  ASSUME ReampOK, NEW t \in Threads, ~At(t, "off")
  PROVE  reamp[t] \in [at : Ways, feed : BOOLEAN, tap : BOOLEAN, in : Nat, out : Nat]
BY DEF ReampOK, Wirings, Off, At

\* Every write to the unit is one it has: a port, a level within its range, a
\* scene, a block.
LEMMA UnitKept ==
  ASSUME Shape, [Next]_vars
  PROVE  UnitOK'
<1> USE DEF Shape
<1>1. CASE UNCHANGED unit
  BY <1>1, Zenon DEF UnitOK
<1>2. ASSUME NEW p \in Presets, unit' = Loaded(p, saved[p])
      PROVE  UnitOK'
  BY <1>2, LoadedOK, Zenon DEF UnitOK
<1>3. CASE Land
  <2>1. Head(asked) \in Presets
    BY <1>3 DEF Land, Traffic
  <2> QED
    BY <1>2, <1>3, <2>1, Zenon DEF Land
<1>4. CASE PlayerRecalls
  BY <1>2, <1>4, Zenon DEF PlayerRecalls
<1>5. ASSUME NEW x \in Int, unit' = Moved(Clamp(x))
      PROVE  UnitOK'
  BY <1>5, ClampInRange, LevelOf, Zenon DEF UnitOK
<1>6. ASSUME NEW x \in Scenes, unit' = [unit EXCEPT !.scene = x]
      PROVE  UnitOK'
  BY <1>6, UnitChanges, Zenon DEF UnitOK
<1>7. CASE Do
  BY <1>1, <1>5, <1>6, <1>7, Doing, DoneAtOnce
<1>8. \A l \in Lo .. Hi : l \in Int
  BY LevelAssumption DEF LevelAssumption
<1>9. CASE ApplyTrim
  <2>1. op.do = "apply_trim" /\ op.at = "trim"
    BY <1>9 DEF ApplyTrim, On
  <2>2. Underway
    BY <2>1 DEF OpOK, NoOp
  <2>3. PICK x \in Int : x = op.level + op.arg.db
    BY <1>8, <2>1, <2>2, Takes DEF Underway
  <2>4. UNCHANGED unit \/ unit' = Moved(Clamp(x))
    BY <1>9, <2>3, Zenon DEF ApplyTrim
  <2> QED
    BY <1>1, <1>5, <2>4
<1>10. CASE PutBack
  <2>1. op.at = "put back"
    BY <1>10 DEF PutBack, On
  <2>2. op.name \in Names
    BY <2>1, Busy DEF Underway
  <2>6. Lo \in Int /\ Hi \in Int
    BY LevelAssumption, Zenon DEF LevelAssumption
  <2>3. applied[op.name] \in Int
    BY <2>2, <2>6 DEF Remembered, NoTrim
  <2> QED
    BY <1>1, <1>5, <1>10, <2>3, Zenon DEF PutBack
<1>11. CASE AddGain
  BY <1>11, UnitChanges, Zenon DEF AddGain, UnitOK
<1>12. CASE Scene
  <2>1. /\ op.do \in {"measure_scenes", "level_scenes"} /\ op # NoOp
        /\ op.i <= Len(op.arg.scenes) /\ unit' = [unit EXCEPT !.scene = SceneOf(op.i)]
    BY <1>12 DEF Scene, NoOp
  <2>4. Underway
    BY <2>1 DEF OpOK
  <2>2. op.arg.scenes \in Seq(Scenes) /\ op.i \in Nat \ {0}
    BY <2>1, <2>4, Takes DEF Underway
  <2>3. SceneOf(op.i) \in Scenes
    <3>1. PICK s \in Seq(Scenes) : s = op.arg.scenes
      BY <2>2, Zenon
    <3>2. op.i <= Len(s)
      BY <2>1, <3>1, Zenon
    <3>3. s[op.i] \in Scenes
      BY <2>2, <3>2
    <3> QED
      BY <3>1, <3>3, Zenon DEF SceneOf
  <2> QED
    BY <1>6, <2>1, <2>3, Zenon
<1>13. CASE LastScene
  <2>1. 0 \in Scenes
    BY LevelAssumption, Zenon DEF LevelAssumption
  <2> QED
    BY <1>1, <1>6, <1>13, <2>1, Zenon DEF LastScene
<1>14. CASE SceneBack
  <2>1. op.at = "scene back"
    BY <1>14 DEF SceneBack, On
  <2>3. op # NoOp
    BY <2>1, Busy
  <2>2. op.before \in Scenes
    BY <2>1, <2>3, ZenonT(30) DEF OpOK, Underway, Stages, InOpen
  <2> QED
    BY <1>1, <1>6, <1>14, <2>2, Zenon DEF SceneBack
<1>15. CASE LevelStep
  <2>1. CASE UNCHANGED unit
    BY <1>1, <2>1
  <2>2. CASE WriteTrim
    <3>1. run.cur + run.delta \in Int
      BY <2>2, Running DEF WriteTrim
    <3> QED
      BY <1>5, <2>2, <3>1, Zenon DEF WriteTrim
  <2>3. CASE BackOff
    <3>2. run.cur \in Int /\ run.peak \in Int
      BY <2>3, Running DEF BackOff
    <3>3. Ceiling \in Int
      BY LevelAssumption DEF LevelAssumption
    <3>1. run.cur - (run.peak - Ceiling) \in Int
      BY <3>2, <3>3
    <3> QED
      BY <1>5, <2>3, <3>1, Zenon DEF BackOff
  <2> QED
    BY <1>15, <2>1, <2>2, <2>3 DEF LevelStep, Leveling, First, Again, LeaveRun
<1>16. ASSUME NEW t \in Threads, Threaded(t)
      PROVE  UnitOK'
  <2>1. CASE UNCHANGED unit
    BY <1>1, <2>1
  <2>2. ASSUME NEW x \in Nat, unit' = [unit EXCEPT !.in = x] \/ unit' = [unit EXCEPT !.out = x]
        PROVE  UnitOK'
    BY <2>2, UnitChanges, Zenon DEF UnitOK
  <2>9. Usb \in Nat
    BY LevelAssumption, Zenon DEF LevelAssumption
  <2>3. unit.in \in Nat /\ unit.out \in Nat /\ Usb \in Nat
    BY <2>9 DEF UnitOK, Units
  <2>4. CASE Feed(t)
    BY <2>1, <2>2, <2>3, <2>4, Zenon DEF Feed
  <2>5. CASE Tap(t)
    <3>1. unit' = unit \/ \E x \in Nat : unit' = [unit EXCEPT !.out = x]
      <4>1. \E x \in Nat : x = (IF reamp[t].tap THEN Usb ELSE unit.out)
        BY <2>3
      <4> QED
        BY <2>5, <4>1 DEF Tap
    <3> QED
      BY <2>1, <2>2, <3>1, Zenon
  <2>6. ~At(t, "off") => reamp[t].in \in Nat /\ reamp[t].out \in Nat
    BY ReampFields
  <2>7. CASE RestoreIn(t)
    <3>1. reamp[t].in \in Nat
      BY <2>6, <2>7 DEF RestoreIn, At
    <3> QED
      BY <2>1, <2>2, <2>3, <2>7, <3>1, Zenon DEF RestoreIn
  <2>8. CASE RestoreOut(t)
    <3>1. reamp[t].out \in Nat
      BY <2>6, <2>8 DEF RestoreOut, At
    <3> QED
      BY <2>1, <2>2, <2>3, <2>8, <3>1, Zenon DEF RestoreOut
  <2> QED
    BY <1>16, <2>1, <2>4, <2>5, <2>7, <2>8 DEF Threaded, Wiring, ReadPorts, EndPlay
<1> QED
  BY <1>1, <1>3, <1>4, <1>7, <1>9, <1>10, <1>11, <1>12, <1>13, <1>14, <1>15, <1>16, Frames

\* A slot is written with what there is.
LEMMA SavedKept ==
  ASSUME Shape, [Next]_vars
  PROVE  SavedOK'
<1> USE DEF Shape
<1>1. CASE UNCHANGED saved
  BY <1>1 DEF SavedOK
<1>2. CASE Create
  <2>1. op.at = "create"
    BY <1>2 DEF Create, On
  <2>2. op.label \in Presets
    BY <2>1, Busy DEF Underway
  <2>3. [name |-> unit.name, in |-> unit.in, out |-> unit.out, db |-> unit.db,
         scened |-> unit.scened, gain |-> unit.gain] \in Kept
    BY DEF UnitOK, Units, Kept
  <2> QED
    BY <1>2, <2>2, <2>3, Zenon DEF Create, SavedOK
<1> QED
  BY <1>1, <1>2, Frames

\* A wiring that goes on, begins, or has read its ports is one.
LEMMA WiringGoesOn ==
  ASSUME ReampOK, NEW t \in Threads
  PROVE  /\ \A w \in Ways : ~At(t, "off") /\ Go(t, w) => ReampOK'
         /\ \A f, p \in BOOLEAN : Enter(t, f, p) => ReampOK'
         /\ \A x, y \in Nat :
              /\ ~At(t, "off")
              /\ reamp' = [reamp EXCEPT ![t].at = "feed", ![t].in = x, ![t].out = y]
              => ReampOK'
<1>1. ~At(t, "off") => reamp[t] \in [at : Ways, feed : BOOLEAN, tap : BOOLEAN, in : Nat, out : Nat]
  BY ReampFields
<1>2. ASSUME NEW r \in [at : Ways, feed : BOOLEAN, tap : BOOLEAN, in : Nat, out : Nat],
             reamp' = [reamp EXCEPT ![t] = r]
      PROVE  ReampOK'
  BY <1>2, Zenon DEF ReampOK, Wirings
<1>3. ASSUME NEW w \in Ways, ~At(t, "off"), Go(t, w)
      PROVE  ReampOK'
  <2>1. [reamp[t] EXCEPT !.at = w]
          \in [at : Ways, feed : BOOLEAN, tap : BOOLEAN, in : Nat, out : Nat]
    BY <1>1, <1>3
  <2>2. reamp' = [reamp EXCEPT ![t] = [reamp[t] EXCEPT !.at = w]]
    BY <1>3, Zenon DEF Go
  <2> QED
    BY <1>2, <2>1, <2>2, Zenon
<1>4. ASSUME NEW x \in BOOLEAN, NEW y \in BOOLEAN, Enter(t, x, y)
      PROVE  ReampOK'
  <2>1. [at |-> "ports", feed |-> x, tap |-> y, in |-> 0, out |-> 0]
          \in [at : Ways, feed : BOOLEAN, tap : BOOLEAN, in : Nat, out : Nat]
    BY DEF Ways
  <2> QED
    BY <1>2, <1>4, <2>1, Zenon DEF Enter
<1>5. ASSUME NEW x \in Nat, NEW y \in Nat, ~At(t, "off"),
             reamp' = [reamp EXCEPT ![t].at = "feed", ![t].in = x, ![t].out = y]
      PROVE  ReampOK'
  <2>1. [[[reamp[t] EXCEPT !.at = "feed"] EXCEPT !.in = x] EXCEPT !.out = y]
          \in [at : Ways, feed : BOOLEAN, tap : BOOLEAN, in : Nat, out : Nat]
    BY <1>1, <1>5 DEF Ways
  <2>2. reamp' = [reamp EXCEPT ![t] = [[[reamp[t] EXCEPT !.at = "feed"] EXCEPT !.in = x] EXCEPT !.out = y]]
    BY <1>5 DEF ReampOK
  <2> QED
    BY <1>2, <2>1, <2>2, Zenon
<1> QED
  BY <1>3, <1>4, <1>5, Zenon

\* A wiring goes from its first read to its last write and off again.
LEMMA ReampKept ==
  ASSUME Shape, [Next]_vars
  PROVE  ReampOK'
<1> USE DEF Shape
<1>1. CASE UNCHANGED reamp
  BY <1>1 DEF ReampOK
<1>2. ASSUME NEW t \in Threads, NEW w \in Ways, ~At(t, "off"), Go(t, w)
      PROVE  ReampOK'
  BY <1>2, WiringGoesOn, Zenon
<1>3. Loop \in Threads /\ \A w \in Ways : At(Loop, w) /\ w # "off" => ~At(Loop, "off")
  BY LevelAssumption DEF LevelAssumption, At
<1>4. {"off", "tap", "on", "restore in", "restore out"} \subseteq Ways
  BY DEF Ways
<1>5. ASSUME At(Loop, "on"), Go(Loop, "restore in")
      PROVE  ReampOK'
  <2>1. ~At(Loop, "off")
    BY <1>5 DEF At
  <2> QED
    BY <1>2, <1>3, <1>4, <1>5, <2>1, Zenon
<1>6. CASE Do
  <2>1. CASE UNCHANGED reamp
    BY <1>1, <2>1
  <2>2. CASE reamp' = [t \in Threads |-> IF t \in Players /\ At(t, "on")
                                         THEN [reamp[t] EXCEPT !.at = "restore in"] ELSE reamp[t]]
    <3>1. ASSUME NEW t \in Threads, t \in Players /\ At(t, "on")
          PROVE  [reamp[t] EXCEPT !.at = "restore in"] \in Wirings
      <4>1. reamp[t] \in [at : Ways, feed : BOOLEAN, tap : BOOLEAN, in : Nat, out : Nat]
        BY <3>1, ReampFields DEF At
      <4> QED
        BY <4>1 DEF Wirings, Ways
    <3>2. \A t \in Threads : reamp[t] \in Wirings
      BY DEF ReampOK
    <3> QED
      BY <2>2, <3>1, <3>2, Zenon DEF ReampOK
  <2> QED
    BY <1>6, <2>1, <2>2, Doing
<1>7. CASE BeginPlay
  <2>1. PICK t \in Threads : Enter(t, TRUE, FALSE)
    BY <1>7 DEF BeginPlay, Players
  <2> QED
    BY <2>1, WiringGoesOn, Zenon
<1>8. CASE With
  BY <1>3, <1>8, WiringGoesOn, Zenon DEF With
<1>9. CASE MeasureOnce \/ LastScene \/ Raise
  BY <1>5, <1>9, Zenon DEF MeasureOnce, LastScene, Raise
<1>10. CASE LevelStep
  BY <1>1, <1>5, <1>10 DEF LevelStep, Leveling, First, WriteTrim, Again, BackOff, LeaveRun
<1>11. ASSUME NEW t \in Threads, Threaded(t)
       PROVE  ReampOK'
  <2>1. unit.in \in Nat /\ unit.out \in Nat
    BY DEF UnitOK, Units
  <2>2. \A w \in {"ports", "feed", "tap", "restore in", "restore out", "on"} : At(t, w) => ~At(t, "off")
    BY DEF At
  <2>3. CASE ReadPorts(t)
    BY <1>2, <1>4, <2>1, <2>2, <2>3, WiringGoesOn, Zenon DEF ReadPorts
  <2>4. CASE Feed(t)
    BY <1>2, <1>4, <2>2, <2>4, Zenon DEF Feed
  <2>5. CASE Tap(t)
    BY <1>2, <1>4, <2>2, <2>5, Zenon DEF Tap
  <2>6. CASE RestoreIn(t)
    BY <1>2, <1>4, <2>2, <2>6, Zenon DEF RestoreIn
  <2>7. CASE RestoreOut(t)
    BY <1>2, <1>4, <2>2, <2>7, Zenon DEF RestoreOut
  <2>8. CASE EndPlay(t)
    BY <1>2, <1>4, <2>2, <2>8, Zenon DEF EndPlay
  <2> QED
    BY <1>11, <2>3, <2>4, <2>5, <2>6, <2>7, <2>8, Zenon DEF Threaded, Wiring
<1> QED
  BY <1>1, <1>6, <1>7, <1>8, <1>9, <1>10, <1>11, Frames

\* Queues hold what is put in.
LEMMA Queueing ==
  ASSUME NEW S, NEW q \in Seq(S)
  PROVE  /\ \A x \in S : Append(q, x) \in Seq(S)
         /\ q # <<>> => Head(q) \in S /\ Tail(q) \in Seq(S)
         /\ q # <<>> => q[Len(q)] \in S
         /\ <<>> \in Seq(S)
<1>1. q # <<>> => Len(q) \in 1 .. Len(q)
  OBVIOUS
<1> QED
  BY <1>1

\* What is sent, asked, announced and heard is about presets there are.
LEMMA TrafficKept ==
  ASSUME Shape, [Next]_vars
  PROVE  Traffic'
<1> USE DEF Shape
<1>1. script' \in Seq(Commands)
  BY Frames, Queueing, Zenon DEF Send, Traffic
<1>2. inbox' \in Seq(Commands)
  <2>1. CASE Send
    BY <2>1, Queueing, Zenon DEF Send, Traffic
  <2>2. CASE TakeCommand
    BY <2>2, Queueing, Zenon DEF TakeCommand, Traffic
  <2> QED
    BY <2>1, <2>2, Frames DEF Traffic
<1>3. told' \in Seq(Presets)
  <2>1. CASE Announce
    BY <2>1, Queueing, Zenon DEF Announce, Traffic
  <2>2. CASE Pump \/ Drain \/ Listen
    <3>1. told' = <<>>
      BY <2>2, Zenon DEF Pump, Drain, Listen
    <3> QED
      BY <3>1
  <2> QED
    BY <2>1, <2>2, Frames DEF Traffic
<1>4. asked' \in Seq(Presets)
  <2>1. CASE Recall
    <3>1. op.at = "recall"
      BY <2>1 DEF Recall, On
    <3>2. Wanted \in Presets
      BY <3>1, Busy DEF Underway, InOpen
    <3> QED
      BY <2>1, <3>2, Queueing, Zenon DEF Recall, Traffic
  <2> QED
    BY <2>1, Frames, Queueing, Zenon DEF Land, Traffic
<1>5. coming' \in Seq(Presets)
  <2>1. CASE Create
    <3>1. op.at = "create"
      BY <2>1 DEF Create, On
    <3>2. op.label \in Presets
      BY <3>1, Busy DEF Underway
    <3> QED
      BY <2>1, <3>2, Queueing, Zenon DEF Create, Traffic
  <2> QED
    BY <2>1, Frames, Queueing, ZenonT(30) DEF Land, Announce, PlayerRecalls, Traffic
<1> QED
  BY <1>1, <1>2, <1>3, <1>4, <1>5 DEF Traffic

\* No run makes more passes than it may.
LEMMA RunKept ==
  ASSUME Shape, [Next]_vars
  PROVE  RunOK'
<1> USE DEF Shape
<1>1. CASE run' = run \/ run' = NoRun
  BY <1>1 DEF RunOK
<1>2. ASSUME run' \in Runs, run'.at \in {"first", "write"} => run'.n <= MaxIterations
      PROVE  RunOK'
  BY <1>2 DEF RunOK
<1>3. MaxIterations \in Nat \ {0} /\ Ceiling \in Int
  <2>1. MaxIterations \in Nat \ {0} /\ Ceiling \in Nat
    BY LevelAssumption, Zenon DEF LevelAssumption
  <2> QED
    BY <2>1
<1>4. ASSUME With
      PROVE  RunOK'
  <2>1. CASE run' = NoRun
    BY <1>1, <2>1
  <2>2. CASE op.do = "autolevel" /\ run' = StartRun(op.arg.dry)
    <3>1. op.at = "with"
      BY <1>4 DEF With, On
    <3>2. op.arg.dry \in BOOLEAN
      BY <2>2, <3>1, Busy, Takes
    <3>3. run' \in Runs /\ run'.n = 1
      BY <1>3, <2>2, <3>2 DEF StartRun, Runs
    <3>4. run'.n <= MaxIterations
      BY <1>3, <3>3
    <3> QED
      BY <1>2, <3>3, <3>4, Zenon
  <2> QED
    BY <1>4, <2>1, <2>2, Zenon DEF With
<1>5. ASSUME NEW m \in Int
      PROVE  -m \in Int /\ Peak(m) \in Int /\ (Peak(m) > Ceiling) \in BOOLEAN
  <2>1. Crest[unit.pre] \in Nat
    <3>2. unit.pre \in Presets
      BY DEF UnitOK, Units
    <3>1. Crest \in [Presets -> Nat] /\ unit.pre \in Presets
      BY <3>2, LevelAssumption, Zenon DEF LevelAssumption
    <3> QED
      BY <3>1, Zenon
  <2> QED
    BY <1>3, <2>1 DEF Peak
<1>6. \A m \in Heard : m \in Int
  <2>1. Loudness \in [Presets -> Int] /\ Noise \subseteq Int
    BY LevelAssumption, Zenon DEF LevelAssumption
  <2>3. Lo \in Int /\ Hi \in Int
    BY LevelAssumption, Zenon DEF LevelAssumption
  <2>2. unit.pre \in Presets /\ Db \in Int
    BY <2>3, LevelOf DEF UnitOK, Units
  <2>4. Loudness[unit.pre] \in Int
    BY <2>1, <2>2, Zenon
  <2>5. ASSUME NEW m \in Heard PROVE m \in Int
    <3>1. PICK e \in Noise : m = Loudness[unit.pre] + Db + e
      BY <2>5, Zenon DEF Heard
    <3> QED
      BY <2>1, <2>2, <2>4, <3>1
  <2> QED
    BY <2>5
<1>7. CASE LevelStep
  <2>1. CASE First
    <3>1. run.at = "first" /\ run \in Runs
      BY <2>1, Running DEF First
    <3>2. \A x \in Scenes : unit.db[x] \in Int
      <4>1. unit.db \in Levels /\ Lo \in Int /\ Hi \in Int
        BY LevelAssumption DEF LevelAssumption, UnitOK, Units
      <4> QED
        BY <4>1 DEF Levels
    <3>3. CASE run' = [Ended(run) EXCEPT !.error = TRUE]
      BY <1>2, <3>1, <3>3 DEF Ended, Runs
    <3>4. ASSUME NEW m \in Heard,
                 LET r == [run EXCEPT !.delta = -m, !.over = Peak(m) > Ceiling]
                 IN \/ run' \in {Ended(r), [Ended(r) EXCEPT !.converged = TRUE]}
                    \/ \E x \in Scenes : run' = [r EXCEPT !.at = "write", !.cur = unit.db[x]]
          PROVE  RunOK'
      <4>1. PICK d \in Int : d = -m
        BY <1>5, <1>6
      <4>2. PICK o \in BOOLEAN : o = (Peak(m) > Ceiling)
        BY <1>5, <1>6, Zenon
      <4>3. DEFINE r == [run EXCEPT !.delta = d, !.over = o]
      <4>4. r \in Runs /\ r.n = run.n
        BY <3>1, ZenonT(30) DEF Runs
      <4>5. PICK q \in Runs : q = r
        BY <4>4, Zenon
      <4>6. \/ run' \in {Ended(q), [Ended(q) EXCEPT !.converged = TRUE]}
            \/ \E x \in Int : run' = [q EXCEPT !.at = "write", !.cur = x]
        BY <3>2, <3>4, <4>1, <4>2, <4>5, Zenon
      <4>7. q.n <= MaxIterations
        BY <2>1, <4>4, <4>5, Running DEF First
      <4>8. run' \in Runs /\ run'.n = q.n
        BY <4>6 DEF Ended, Runs
      <4> QED
        BY <1>2, <4>7, <4>8, Zenon
    <3> QED
      BY <2>1, <3>3, <3>4, Zenon DEF First
  <2>2. CASE WriteTrim
    <3>1. run \in Runs /\ run.n <= MaxIterations
      BY <2>2, Running DEF WriteTrim
    <3>2. PICK x \in Int : x = run.cur + run.delta
      BY <2>2, Running DEF WriteTrim
    <3>3. PICK y \in Lo .. Hi : y = Clamp(x)
      BY ClampInRange, Zenon
    <3>4. PICK z \in BOOLEAN : z = (x # y)
      BY Zenon
    <3>5. run' = [run EXCEPT !.at = "again", !.n = @ + 1, !.written = TRUE, !.pinned = z, !.cur = y]
      BY <2>2, <3>2, <3>3, <3>4, Zenon DEF WriteTrim
    <3>6. y \in Int
      <4>1. Lo \in Int /\ Hi \in Int
        BY LevelAssumption, Zenon DEF LevelAssumption
      <4> QED
        BY <4>1
    <3>10. run.n \in 1 .. MaxIterations + 1
      BY <3>1, Zenon DEF Runs
    <3>7. PICK n \in 1 .. MaxIterations + 1 : n = run.n + 1
      BY <1>3, <3>1, <3>10
    <3>8. run' = [run EXCEPT !.at = "again", !.n = n, !.written = TRUE, !.pinned = z, !.cur = y]
      BY <3>5, <3>7, Zenon
    <3>9. run' \in Runs /\ run'.at = "again"
      BY <3>1, <3>6, <3>8 DEF Runs
    <3> QED
      BY <1>2, <3>9
  <2>3. CASE Again
    <3>1. run.at = "again" /\ run \in Runs
      BY <2>3, Running DEF Again
    <3>2. CASE run' = [Ended(run) EXCEPT !.error = TRUE]
      <4>1. run' \in Runs /\ run'.at = "ended"
        BY <3>1, <3>2 DEF Ended, Runs
      <4> QED
        BY <1>2, <4>1
    <3>3. ASSUME NEW m \in Heard, run' = AfterMeasure(m)
          PROVE  RunOK'
      <4>1. PICK d \in Int : d = -m
        BY <1>5, <1>6
      <4>2. PICK k \in Int : k = Peak(m)
        BY <1>5, <1>6
      <4>3. DEFINE r == [run EXCEPT !.delta = d, !.peak = k]
      <4>4. r \in Runs /\ r.n = run.n
        BY <3>1 DEF Runs
      <4>5. PICK q \in Runs : q = r
        BY <4>4, Zenon
      <4>6. \/ run' \in {[q EXCEPT !.at = "back off"], [Ended(q) EXCEPT !.converged = TRUE], Ended(q)}
            \/ run' = [q EXCEPT !.at = "write"] /\ ~(run.n > MaxIterations)
        BY <3>3, <4>1, <4>2, <4>5, Zenon DEF AfterMeasure
      <4>7. run' \in Runs /\ run'.n = q.n
        BY <4>6 DEF Ended, Runs
      <4>8. run'.at \notin {"first", "write"} \/ ~(run.n > MaxIterations)
        BY <4>6 DEF Ended, Runs
      <4>10. run.n \in 1 .. MaxIterations + 1
        BY <3>1, Zenon DEF Runs
      <4>9. run.n \in Int
        BY <1>3, <4>10
      <4> QED
        BY <1>2, <1>3, <4>4, <4>5, <4>7, <4>8, <4>9
    <3> QED
      BY <2>3, <3>2, <3>3, Zenon DEF Again
  <2>4. CASE BackOff
    <3>1. run \in Runs
      BY <2>4, Running DEF BackOff
    <3>2. run.cur - (run.peak - Ceiling) \in Int
      <4>1. run.cur \in Int /\ run.peak \in Int
        BY <2>4, Running DEF BackOff
      <4> QED
        BY <1>3, <4>1
    <3>3. PICK y \in Lo .. Hi : y = Clamp(run.cur - (run.peak - Ceiling))
      BY <3>2, ClampInRange, Zenon
    <3>5. y \in Int
      <4>1. Lo \in Int /\ Hi \in Int
        BY LevelAssumption, Zenon DEF LevelAssumption
      <4> QED
        BY <4>1
    <3>6. run' = [Ended(run) EXCEPT !.cur = y]
      BY <2>4, <3>3, Zenon DEF BackOff
    <3>7. run' \in Runs /\ run'.at = "ended"
      BY <3>1, <3>5, <3>6 DEF Ended, Runs
    <3> QED
      BY <1>2, <3>7
  <2>5. CASE LeaveRun
    <3>1. run \in Runs
      BY <2>5, Running DEF LeaveRun
    <3>2. CASE run' = [Ended(run) EXCEPT !.error = TRUE]
      <4>1. run' \in Runs /\ run'.at = "ended"
        BY <3>1, <3>2 DEF Ended, Runs
      <4> QED
        BY <1>2, <4>1
    <3> QED
      BY <1>1, <2>5, <3>2, Zenon DEF LeaveRun
  <2> QED
    BY <1>7, <2>1, <2>2, <2>3, <2>4, <2>5, Zenon DEF LevelStep, Leveling
<1> QED
  BY <1>1, <1>4, <1>7, Frames DEF Answer

\* What is remembered of a fader was in its range.
LEMMA RememberedKept ==
  ASSUME Shape, [Next]_vars
  PROVE  Remembered'
<1> USE DEF Shape
<1>1. CASE UNCHANGED <<applied, was>>
  BY <1>1 DEF Remembered
<1>2. NoTrim \in NoTrim .. Hi /\ Lo .. Hi \subseteq NoTrim .. Hi
  <2>1. Lo \in Int /\ Hi \in Int /\ Lo <= Hi
    BY LevelAssumption, Zenon DEF LevelAssumption
  <2> QED
    BY <2>1 DEF NoTrim
<1>6. applied \in [Names -> NoTrim .. Hi] /\ was \in [Names -> SUBSET Places]
  BY DEF Remembered
<1>4. ASSUME op.name \in Names, op.level \in Lo .. Hi, Remember, Note
      PROVE  Remembered'
  <2>1. applied' = [applied EXCEPT ![op.name] = IF @ = NoTrim THEN op.level ELSE @]
    BY <1>4, Zenon DEF Remember
  <2>2. applied' \in [Names -> NoTrim .. Hi]
    <3>1. PICK v \in NoTrim .. Hi : v = (IF applied[op.name] = NoTrim THEN op.level ELSE applied[op.name])
      BY <1>2, <1>4, <1>6, Zenon
    <3>2. applied' = [applied EXCEPT ![op.name] = v]
      BY <2>1, <3>1, Zenon
    <3> QED
      BY <1>6, <3>2, Zenon
  <2>3. PICK r \in Places : r = [place |-> Place, db |-> Db, sure |-> op.sure /\ calm]
    <3>1. Place \in [pre : Presets, scene : Scenes]
      <4>1. 0 \in Scenes
        BY LevelAssumption, Zenon DEF LevelAssumption
      <4> QED
        BY <4>1 DEF Place, UnitOK, Units
    <3>2. PICK b \in BOOLEAN : b = (op.sure /\ calm)
      OBVIOUS
    <3>3. Db \in Lo .. Hi
      BY LevelOf
    <3> QED
      BY <3>1, <3>2, <3>3 DEF Places
  <2>4. PICK n \in SUBSET Places :
          n = (IF \E q \in was[op.name] : q.place = Place THEN was[op.name] ELSE was[op.name] \cup {r})
    BY <1>4, <1>6, <2>3
  <2>5. was' = [was EXCEPT ![op.name] = n]
    BY <1>4, <2>3, <2>4, Zenon DEF Note
  <2>6. was' \in [Names -> SUBSET Places]
    BY <1>6, <2>5, Zenon
  <2> QED
    BY <2>2, <2>6 DEF Remembered
<1>5. CASE PutBack
  <2>1. applied' = applied \/ applied' = [applied EXCEPT ![op.name] = NoTrim]
    BY <1>5, Zenon DEF PutBack
  <2>2. applied' \in [Names -> NoTrim .. Hi]
    BY <1>2, <1>6, <2>1, Zenon
  <2>3. was' = [was EXCEPT ![op.name] = {}]
    BY <1>5, Zenon DEF PutBack
  <2>4. {} \in SUBSET Places
    OBVIOUS
  <2>5. was' \in [Names -> SUBSET Places]
    BY <1>6, <2>3, <2>4, Zenon
  <2> QED
    BY <2>2, <2>5 DEF Remembered
<1>7. op.at = "trim" => op.name \in Names /\ op.level \in Lo .. Hi
  BY Busy DEF Underway
<1> QED
  BY <1>1, <1>4, <1>5, <1>7, Frames, Zenon DEF ApplyTrim, RememberFader, On

-----------------------------------------------------------------------------
(* The command under way *)

\* Where a command is tells which ones it can be.
LEMMA Whereabouts ==
  ASSUME Underway
  PROVE  /\ op.at \in InOpen => op.do \in {"open", "apply_trim", "measure_many"}
         /\ op.at = "grid" => op.do \in {"state", "revert_levels", "open", "apply_trim",
                                        "measure_many", "measure_scenes", "autolevel"}
         /\ op.at = "pointer" => op.do \in {"state", "save", "revert_levels", "open", "apply_trim",
                                           "measure_many", "measure_scenes", "autolevel"}
         /\ op.at = "active" => op.do \in {"state", "revert_levels", "open", "apply_trim",
                                          "measure_many", "measure_scenes", "autolevel"}
         /\ op.at = "trim" => op.do \in {"apply_trim", "autolevel"}
         /\ op.at = "rows" => op.do \in {"measure_many", "measure_scenes", "autolevel", "measure",
                                        "level_scenes", "play"}
         /\ op.at \in {"with", "within", "leave"} =>
              op.do \in {"measure_many", "measure_scenes", "autolevel", "measure", "level_scenes"}
         /\ op.at = "next" => op.do = "measure_many"
         /\ op.at \in {"scene", "scene back"} => op.do = "measure_scenes"
         /\ op.at = "create" => op.do = "save"
         /\ op.at = "put back" => op.do = "revert_levels"
         /\ op.at = "save take" => op.do = "sample_stop"
BY DEF Underway, Stages, InOpen

\* Any command can end, and those on a list or in a wiring go on.
LEMMA StagesAre ==
  /\ \A d : "answer" \in Stages(d)
  /\ \A d \in {"open", "apply_trim", "measure_many"} : InOpen \subseteq Stages(d)
  /\ \A d \in {"state", "revert_levels", "open", "apply_trim", "measure_many", "measure_scenes",
             "autolevel"} : {"grid", "pointer", "active"} \subseteq Stages(d)
  /\ \A d \in {"apply_trim", "autolevel"} : "trim" \in Stages(d)
  /\ \A d \in {"measure_many", "measure_scenes", "autolevel", "measure", "level_scenes"} :
       {"rows", "with", "within", "leave"} \subseteq Stages(d)
  /\ "next" \in Stages("measure_many") /\ "rows" \in Stages("play")
  /\ {"scene", "scene back"} \subseteq Stages("measure_scenes")
  /\ "put back" \in Stages("revert_levels") /\ {"pointer", "create"} \subseteq Stages("save")
  /\ "save take" \in Stages("sample_stop")
BY DEF Stages, InOpen

\* A step of a command is one if the command stays, and knows what it needs.
Onward(w, n) ==
  /\ DOMAIN op' = Fields /\ op'.arg = op.arg /\ op'.do = op.do
  /\ op'.at = w /\ op'.i = n
  /\ op'.name = op.name /\ op'.levels = op.levels /\ op'.level = op.level

\* A command that keeps its place among its steps is still under way.
LEMMA StepsOn ==
  ASSUME Underway, NEW w \in Stages(op.do), NEW n \in Nat \ {0}, Onward(w, n),
         w \in InOpen => Wanted' \in Presets,
         w = "create" => op'.label \in Presets,
         op.do = "measure_scenes" => op'.before \in Scenes
  PROVE  OpOK'
  BY DEF Onward, OpOK, Underway

\* One that only goes on to a step where nothing has to be known, or the same.
LEMMA GoesOn ==
  ASSUME Underway, NEW w, GoOn(w)
  PROVE  /\ Onward(w, op.i) /\ UNCHANGED Wanted
         /\ op'.got = op.got /\ op'.label = op.label /\ op'.before = op.before
<1>1. op' = [op EXCEPT !.at = w] /\ DOMAIN op = Fields
  BY DEF GoOn, Underway
<1>2. /\ DOMAIN op' = Fields /\ op'.arg = op.arg /\ op'.do = op.do /\ op'.at = w /\ op'.i = op.i
      /\ op'.got = op.got /\ op'.label = op.label /\ op'.before = op.before
      /\ op'.name = op.name /\ op'.levels = op.levels /\ op'.level = op.level
  BY <1>1 DEF Fields
<1> QED
  BY <1>2 DEF Onward, Wanted, Address

\* Nothing to know at these.
Plain == {"answer", "grid", "rows", "with", "within", "leave", "next", "scene", "scene back",
          "save take", "do"}

\* A step to a place where nothing was promised yet.
LEMMA PlainStep ==
  ASSUME Underway, NEW w \in Plain, w \in Stages(op.do), NEW n \in Nat \ {0}, Onward(w, n),
         op'.before \in {op.before} \cup Scenes
  PROVE  OpOK'
<1>1. /\ w \notin InOpen /\ w # "create"
  BY DEF Plain, InOpen
<1>2. op.do = "measure_scenes" => op'.before \in Scenes
  BY DEF Underway
<1> QED
  BY <1>1, <1>2, StepsOn

\* A command that fails ends or goes on with its list.
LEMMA FailsOn ==
  ASSUME Underway, Failed
  PROVE  OpOK'
<1>1. DOMAIN op = Fields /\ op.i \in Nat \ {0}
  BY DEF Underway
<1>2. CASE op.do = "measure_many"
  <2>1. op' = [op EXCEPT !.at = "next", !.i = @ + 1, !.rows = Append(@, "error")]
    BY <1>2, Zenon DEF Failed
  <2>2. Onward("next", op.i + 1) /\ op'.before = op.before
    BY <1>1, <2>1 DEF Onward, Fields
  <2>3. "next" \in Stages(op.do) /\ "next" \in Plain
    BY <1>2, StagesAre DEF Plain
  <2>4. op.i + 1 \in Nat \ {0}
    BY <1>1
  <2> QED
    BY <2>2, <2>3, <2>4, PlainStep
<1>3. CASE op.do # "measure_many"
  <2>1. op' = [op EXCEPT !.at = "answer", !.error = TRUE]
    BY <1>3, Zenon DEF Failed
  <2>2. Onward("answer", op.i) /\ op'.before = op.before
    BY <1>1, <2>1 DEF Onward, Fields
  <2>3. "answer" \in Stages(op.do) /\ "answer" \in Plain
    BY StagesAre DEF Plain
  <2> QED
    BY <1>1, <2>2, <2>3, PlainStep
<1> QED
  BY <1>2, <1>3

\* A command begins where its handler does.
LEMMA CommandBegins ==
  ASSUME Shape, TakeCommand
  PROVE  OpOK'
<1> DEFINE c == Head(inbox)
<1>1. c \in Commands
  BY Queueing, Zenon DEF Shape, Traffic, TakeCommand
<1>2. op' = [Started(c) EXCEPT !.at = Begins(c)]
  BY DEF TakeCommand
<1>3. /\ DOMAIN op' = Fields /\ op'.arg = c /\ op'.do = c.do /\ op'.at = Begins(c) /\ op'.i = 1
      /\ op'.before = 0 /\ op'.name = unit.name /\ op'.levels = unit.db /\ op'.level = Db
  BY <1>2 DEF Started, Fields
<1>4. Begins(c) \in Stages(c.do)
  BY <1>1 DEF Commands, Begins, Stages, InOpen
<1>5. Begins(c) \in InOpen => c.do = "open" \/ (c.do = "apply_trim" /\ c.open)
  BY <1>1 DEF Commands, Begins, InOpen
<1>7. Begins(c) # "create"
  BY <1>1 DEF Commands, Begins
<1>8. c.do = "open" \/ (c.do = "apply_trim" /\ c.open) => c.pos \in Presets
  BY <1>1 DEF Commands
<1>9. op'.at \in InOpen => Wanted' \in Presets
  BY <1>3, <1>5, <1>8 DEF Wanted, Address
<1>10. /\ op'.arg \in Commands /\ op'.do = op'.arg.do /\ op'.at \in Stages(op'.do)
       /\ op'.i \in Nat \ {0} /\ op'.at # "create" /\ op'.before \in Scenes
  <2>1. 1 \in Nat \ {0} /\ 0 \in Scenes
    BY LevelAssumption DEF LevelAssumption
  <2>2. Begins(c) # "create"
    BY <1>7
  <2> QED
    BY <1>1, <1>3, <1>4, <2>1, <2>2, Zenon
<1>11. op'.name \in Names /\ op'.levels \in Levels /\ op'.level \in Lo .. Hi
  BY <1>3, LevelOf DEF Shape, UnitOK, Units
<1> QED
  BY <1>3, <1>9, <1>10, <1>11, Zenon DEF OpOK, Underway

\* A read changes only what the command knows, and where it is.
Reading == Drain \/ Listen \/ Landed \/ GiveUp \/ ReadGrid \/ ReadPointer \/ ReadActive
Reads ==
  /\ Underway /\ DOMAIN op' = Fields
  /\ op'.do = op.do /\ op'.arg = op.arg /\ op'.i = op.i /\ op'.rows = op.rows
  /\ op'.error = op.error /\ op'.stuck = op.stuck /\ op'.before = op.before
  /\ op'.undone = op.undone /\ op'.found = op.found
  /\ op'.name \in {op.name, unit.name} /\ op'.levels \in {op.levels, unit.db}
  /\ op'.level = op.level \/ \E s \in Scenes : op'.level = op.levels[s]
  /\ \/ op.at = "drain" /\ op'.at = "recall"
     \/ op.at = "listen" /\ op'.at \in {"landed", "grid"}
     \/ op.at = "landed" /\ op'.at \in {AfterOpen, "listen"}
     \/ op.at = "grid" /\ op'.at = "pointer"
     \/ op.at = "pointer" /\ op.do # "save" /\ op'.at = "active"
     \/ op.at = "pointer" /\ op.do = "save" /\ op'.at = "create" /\ op'.label \in Presets
     \/ op.at = "active" /\ op'.at = AfterState

LEMMA ReadsOnly ==
  ASSUME OpOK, Reading
  PROVE  Reads
<1>1. op.at \in {"drain", "listen", "landed", "grid", "pointer", "active"}
  BY DEF Reading, Drain, Listen, Landed, GiveUp, ReadGrid, ReadPointer, ReadActive, On
<1>2. Underway /\ DOMAIN op = Fields
  BY <1>1, Busy DEF Underway
<1> USE DEF Fields
<1>3. CASE Drain
  BY <1>2, <1>3 DEF Drain, On, Learn, Reads
<1>4. CASE Listen
  BY <1>2, <1>4 DEF Listen, On, Learn, Reads
<1>5. CASE Landed
  <2>1. PICK w : w = AfterOpen
    OBVIOUS
  <2> QED
    BY <1>2, <1>5, <2>1 DEF Landed, On, Learn, GoOn, Reads
<1>6. CASE GiveUp
  BY <1>2, <1>6 DEF GiveUp, On, Learn, Reads
<1>7. CASE ReadGrid
  BY <1>2, <1>7 DEF ReadGrid, On, Learn, Reads
<1>8. CASE ReadPointer
  BY <1>2, <1>8 DEF ReadPointer, On, Learn, Reads
<1>9. CASE ReadActive
  <2>1. PICK w : w = AfterState
    OBVIOUS
  <2> QED
    BY <1>2, <1>9, <2>1 DEF ReadActive, On, Learn, Reads
<1> QED
  BY <1>3, <1>4, <1>5, <1>6, <1>7, <1>8, <1>9 DEF Reading

\* It takes a command to another of its steps.
LEMMA ReadsKept ==
  ASSUME Shape, Reading
  PROVE  OpOK'
<1>1. Reads
  BY ReadsOnly DEF Shape
<1>2. Underway
  BY <1>1 DEF Reads
<1>3. UNCHANGED Wanted
  BY <1>1 DEF Reads, Wanted, Address
<1>4. op'.name \in Names /\ op'.levels \in Levels /\ op'.level \in Lo .. Hi
  BY <1>1, <1>2 DEF Reads, Underway, Shape, UnitOK, Units, Levels
<1>5. op'.at \in Stages(op.do)
  <2>1. CASE op.at \in InOpen
    <3>1. op.do \in {"open", "apply_trim", "measure_many"}
      BY <1>2, <2>1, Whereabouts
    <3>2. op'.at \in {"recall", "landed", "listen", "grid", AfterOpen}
      BY <1>1, <2>1 DEF Reads, InOpen
    <3>3. AfterOpen \in Stages(op.do)
      BY <3>1, StagesAre DEF AfterOpen
    <3> QED
      BY <3>1, <3>2, <3>3, StagesAre DEF InOpen
  <2>2. CASE op.at = "grid"
    <3>1. op'.at = "pointer"
      BY <1>1, <2>2 DEF Reads
    <3> QED
      BY <1>2, <2>2, <3>1, Whereabouts, StagesAre
  <2>3. CASE op.at = "pointer"
    <3>1. IF op.do = "save" THEN op'.at = "create" ELSE op'.at = "active"
      BY <1>1, <2>3 DEF Reads
    <3> QED
      BY <1>2, <2>3, <3>1, Whereabouts, StagesAre
  <2>4. CASE op.at = "active"
    <3>1. op'.at = AfterState
      BY <1>1, <2>4 DEF Reads
    <3>2. AfterState \in Stages(op.do)
      BY <1>2, <2>4, Whereabouts, StagesAre DEF AfterState, Trimming
    <3> QED
      BY <3>1, <3>2
  <2> QED
    BY <1>1, <2>1, <2>2, <2>3, <2>4 DEF Reads, InOpen
<1>6. op'.at \in InOpen => Wanted' \in Presets
  <2>1. op.at \in InOpen => Wanted \in Presets
    BY <1>2 DEF Underway
  <2>2. ASSUME op'.at \in InOpen PROVE op.at \in InOpen
    <3>1. op.at = "active" => AfterState \notin InOpen
      BY <1>2, Whereabouts DEF AfterState, InOpen, Trimming
    <3> QED
      BY <1>1, <2>2, <3>1 DEF Reads, InOpen
  <2> QED
    BY <1>3, <2>1, <2>2
<1>7. op'.at = "create" => op'.label \in Presets
  <2>1. AfterOpen # "create" /\ (op.at = "active" => AfterState # "create")
    BY <1>2, Whereabouts DEF AfterOpen, AfterState, Trimming
  <2> QED
    BY <1>1, <2>1 DEF Reads
<1>8. /\ DOMAIN op' = Fields /\ op'.arg = op.arg /\ op'.do = op.do /\ op'.i = op.i
      /\ op'.before = op.before
  BY <1>1 DEF Reads
<1>9. /\ op.arg \in Commands /\ op.do = op.arg.do /\ op.i \in Nat \ {0}
      /\ op.do = "measure_scenes" => op.before \in Scenes
  BY <1>2 DEF Underway
<1> QED
  BY <1>4, <1>5, <1>6, <1>7, <1>8, <1>9, Zenon DEF OpOK, Underway

\* Every step takes the command under way to another of its steps, or ends it.
LEMMA OpKept ==
  ASSUME Shape, [Next]_vars
  PROVE  OpOK'
<1> USE DEF Shape
<1>1. CASE UNCHANGED op
  BY <1>1 DEF OpOK, Underway, Wanted, Address
<1>2. CASE TakeCommand
  BY <1>2, CommandBegins
<1>3. CASE Answer
  BY <1>3 DEF Answer, OpOK
<1>4. ASSUME Underway, NEW w \in Plain, w \in Stages(op.do), NEW n \in Nat \ {0}, Onward(w, n),
             op'.before \in {op.before} \cup Scenes
      PROVE  OpOK'
  BY <1>4, PlainStep
<1>5. ASSUME Underway, NEW w \in Plain, w \in Stages(op.do), GoOn(w)
      PROVE  OpOK'
  <2>1. op.i \in Nat \ {0} /\ Onward(w, op.i) /\ op'.before = op.before
    BY <1>5, GoesOn DEF Underway
  <2> QED
    BY <1>4, <1>5, <2>1, Zenon
<1>7. ASSUME op.at # "idle"
      PROVE  Underway
  BY <1>7, Busy
<1>8. CASE NoAnswer
  BY <1>8, Busy, FailsOn DEF NoAnswer
<1>9. CASE Drain \/ Listen \/ Landed \/ GiveUp \/ ReadGrid \/ ReadPointer \/ ReadActive
  BY <1>9, ReadsKept DEF Reading
<1>10. CASE Recall
  <2>1. op.at = "recall" /\ Underway /\ GoOn("listen")
    BY <1>10, Busy DEF Recall, On
  <2>2. /\ Onward("listen", op.i) /\ UNCHANGED Wanted /\ op'.before = op.before
    BY <2>1, GoesOn, Zenon
  <2>3. "listen" \in Stages(op.do) /\ Wanted \in Presets
    BY <2>1, Whereabouts, StagesAre DEF InOpen, Underway
  <2>4. op.i \in Nat \ {0} /\ (op.do = "measure_scenes" => op.before \in Scenes)
    BY <2>1 DEF Underway
  <2> QED
    BY <2>1, <2>2, <2>3, <2>4, StepsOn
<1>16. CASE Do
  <2>1. op.at = "do" /\ Underway
    BY <1>16, Busy, Doing
  <2>2. \/ GoOn("answer")
        \/ op.do = "sample_stop" /\ GoOn("save take")
    BY <1>16, Doing, Zenon DEF GoOn
  <2>3. "answer" \in Stages(op.do) /\ (op.do = "sample_stop" => "save take" \in Stages(op.do))
    BY StagesAre
  <2>4. {"answer", "save take"} \subseteq Plain
    BY DEF Plain
  <2> QED
    BY <1>5, <2>1, <2>2, <2>3, <2>4, Zenon
<1>17. CASE Keep
  <2>1. Underway /\ GoOn("answer")
    BY <1>17, Busy DEF Keep, On
  <2>2. "answer" \in Stages(op.do) /\ "answer" \in Plain
    BY StagesAre DEF Plain
  <2> QED
    BY <1>5, <2>1, <2>2, Zenon
<1>18. CASE Create
  <2>1. Underway /\ GoOn("answer")
    BY <1>18, Busy DEF Create, On
  <2>2. "answer" \in Stages(op.do) /\ "answer" \in Plain
    BY StagesAre DEF Plain
  <2> QED
    BY <1>5, <2>1, <2>2, Zenon
<1>19. CASE ApplyTrim
  <2>1. Underway /\ (GoOn("answer") \/ Failed)
    BY <1>19, Busy DEF ApplyTrim, On
  <2>2. "answer" \in Stages(op.do) /\ "answer" \in Plain
    BY StagesAre DEF Plain
  <2> QED
    BY <1>5, <2>1, <2>2, FailsOn, Zenon
<1>20. CASE PutBack
  <2>1. op.at = "put back" /\ Underway
    BY <1>20, Busy DEF PutBack, On
  <2>2. DOMAIN op = Fields /\ op.i \in Nat \ {0} /\ op.do # "measure_scenes"
    BY <2>1, Whereabouts DEF Underway
  <2>3. op' = [op EXCEPT !.at = "answer", !.undone = was[op.name]]
    BY <1>20 DEF PutBack
  <2>4. Onward("answer", op.i)
    BY <2>2, <2>3 DEF Onward, Fields
  <2>5. "answer" \in Stages(op.do) /\ "answer" \notin InOpen
    BY StagesAre DEF InOpen
  <2> QED
    BY <2>1, <2>2, <2>4, <2>5, StepsOn
<1>21. CASE NextPreset
  <2>1. op.at = "next" /\ Underway
    BY <1>21, Busy DEF NextPreset, On
  <2>2. op.do = "measure_many"
    BY <2>1, Whereabouts
  <2>3. CASE GoOn("answer")
    <3>1. "answer" \in Stages(op.do) /\ "answer" \in Plain
      BY StagesAre DEF Plain
    <3> QED
      BY <1>5, <2>1, <2>3, <3>1, Zenon
  <2>4. CASE GoOn("drain") /\ ~(op.i > Len(op.arg.list))
    <3>1. Onward("drain", op.i) /\ UNCHANGED Wanted /\ op'.before = op.before
      BY <2>1, <2>4, GoesOn, Zenon
    <3>2. op.i \in Nat \ {0} /\ op.arg.list \in Seq(Addresses)
      BY <2>1, <2>2, Takes DEF Underway
    <3>3. Wanted \in Presets
      <4>1. PICK l \in Seq(Addresses) : l = op.arg.list
        BY <3>2, Zenon
      <4>5. ~(op.i > Len(l))
        BY <2>4, <4>1, Zenon
      <4>2. op.i <= Len(l)
        BY <3>2, <4>5
      <4>3. l[op.i] \in Addresses
        BY <3>2, <4>2
      <4>4. Wanted = l[op.i].pos
        BY <2>2, <4>1, Zenon DEF Wanted, Address
      <4> QED
        BY <4>3, <4>4 DEF Addresses
    <3>4. "drain" \in Stages(op.do) /\ op.do # "measure_scenes"
      BY <2>2, StagesAre DEF InOpen
    <3> QED
      BY <2>1, <3>1, <3>2, <3>3, <3>4, StepsOn
  <2> QED
    BY <1>21, <2>3, <2>4, Zenon DEF NextPreset
<1>22. CASE RowsKnown
  <2>1. op.at = "rows" /\ Underway /\ op.do # "play"
    BY <1>22, Busy DEF RowsKnown, On
  <2>2. \/ GoOn("with")
        \/ op.do = "autolevel" /\ GoOn("grid")
    BY <1>22 DEF RowsKnown, GoOn
  <2>3. "with" \in Stages(op.do) /\ (op.do = "autolevel" => "grid" \in Stages(op.do))
    BY <2>1, Whereabouts, StagesAre
  <2>4. {"with", "grid"} \subseteq Plain
    BY DEF Plain
  <2> QED
    BY <1>5, <2>1, <2>2, <2>3, <2>4, Zenon
<1>23. CASE BeginPlay
  <2>1. op.at = "rows" /\ Underway /\ GoOn("answer")
    BY <1>23, Busy DEF BeginPlay, On
  <2>2. "answer" \in Stages(op.do) /\ "answer" \in Plain
    BY <2>1, Whereabouts, StagesAre DEF Plain
  <2> QED
    BY <1>5, <2>1, <2>2, Zenon
<1>24. CASE RememberFader
  <2>1. op.at = "trim" /\ Underway /\ GoOn("with") /\ op.do = "autolevel"
    BY <1>24, Busy DEF RememberFader, On
  <2>2. "with" \in Stages(op.do) /\ "with" \in Plain
    BY <2>1, Whereabouts, StagesAre DEF Plain
  <2> QED
    BY <1>5, <2>1, <2>2, Zenon
<1>25. CASE ReadScene
  <2>1. op.at = "scene" /\ Underway
    BY <1>25, Busy DEF ReadScene, On
  <2>2. DOMAIN op = Fields /\ op.i \in Nat \ {0}
    BY <2>1 DEF Underway
  <2>3. Onward("rows", op.i) /\ op'.before \in Scenes
    <3>1. PICK x \in Scenes : op' = [op EXCEPT !.at = "rows", !.before = x, !.sure = x = unit.scene]
      BY <1>25 DEF ReadScene
    <3> QED
      BY <2>2, <3>1 DEF Onward, Fields
  <2>4. "rows" \in Stages(op.do) /\ "rows" \in Plain
    BY <2>1, Whereabouts, StagesAre DEF Plain
  <2> QED
    BY <1>4, <2>1, <2>2, <2>3, <2>4, Zenon
<1>26. CASE With
  <2>1. op.at = "with" /\ Underway /\ GoOn("within")
    BY <1>26, Busy DEF With, On
  <2>2. "within" \in Stages(op.do) /\ "within" \in Plain
    BY <2>1, Whereabouts, StagesAre DEF Plain
  <2> QED
    BY <1>5, <2>1, <2>2, Zenon
<1>27. CASE MeasureOnce
  <2>1. op.at = "within" /\ Underway
    BY <1>27, Busy DEF MeasureOnce, On
  <2>2. DOMAIN op = Fields /\ op.i \in Nat \ {0}
    BY <2>1 DEF Underway
  <2>3. PICK row : op' = [op EXCEPT !.at = "leave", !.rows = Append(@, row)]
    BY <1>27, Zenon DEF MeasureOnce
  <2>4. Onward("leave", op.i) /\ op'.before = op.before
    BY <2>2, <2>3 DEF Onward, Fields
  <2>5. "leave" \in Stages(op.do) /\ "leave" \in Plain
    BY <2>1, Whereabouts, StagesAre DEF Plain
  <2> QED
    BY <1>4, <2>1, <2>2, <2>4, <2>5, Zenon
<1>28. CASE Scene
  <2>1. op.at = "within" /\ Underway
    BY <1>28, Busy DEF Scene, On
  <2>2. DOMAIN op = Fields /\ op.i \in Nat \ {0}
    BY <2>1 DEF Underway
  <2>3. PICK row : op' = [op EXCEPT !.i = @ + 1, !.rows = Append(@, row)]
    BY <1>28, Zenon DEF Scene
  <2>4. Onward("within", op.i + 1) /\ op'.before = op.before
    BY <2>1, <2>2, <2>3 DEF Onward, Fields
  <2>5. "within" \in Stages(op.do) /\ "within" \in Plain
    BY <2>1, Whereabouts, StagesAre DEF Plain
  <2>6. op.i + 1 \in Nat \ {0}
    BY <2>2
  <2> QED
    BY <1>4, <2>1, <2>4, <2>5, <2>6, Zenon
<1>29. CASE LastScene
  <2>1. op.at = "within" /\ Underway /\ GoOn("leave")
    BY <1>29, Busy DEF LastScene, On
  <2>2. "leave" \in Stages(op.do) /\ "leave" \in Plain
    BY <2>1, Whereabouts, StagesAre DEF Plain
  <2> QED
    BY <1>5, <2>1, <2>2, Zenon
<1>30. CASE Raise
  <2>1. op.at = "within" /\ Underway
    BY <1>30, Busy DEF Raise, On
  <2>2. DOMAIN op = Fields /\ op.i \in Nat \ {0}
    BY <2>1 DEF Underway
  <2>3. op' = [op EXCEPT !.at = "leave", !.error = TRUE]
    BY <1>30 DEF Raise
  <2>4. Onward("leave", op.i) /\ op'.before = op.before
    BY <2>2, <2>3 DEF Onward, Fields
  <2>5. "leave" \in Stages(op.do) /\ "leave" \in Plain
    BY <2>1, Whereabouts, StagesAre DEF Plain
  <2> QED
    BY <1>4, <2>1, <2>2, <2>4, <2>5, Zenon
<1>31. CASE SceneBack
  <2>1. op.at = "scene back" /\ Underway
    BY <1>31, Busy DEF SceneBack, On
  <2>2. "answer" \in Stages(op.do) /\ "answer" \in Plain
    BY <2>1, Whereabouts, StagesAre DEF Plain
  <2>3. CASE GoOn("answer")
    BY <1>5, <2>1, <2>2, <2>3, Zenon
  <2>4. CASE op' = [op EXCEPT !.at = "answer", !.error = TRUE, !.stuck = TRUE]
    <3>1. DOMAIN op = Fields /\ op.i \in Nat \ {0}
      BY <2>1 DEF Underway
    <3>2. Onward("answer", op.i) /\ op'.before = op.before
      BY <2>4, <3>1 DEF Onward, Fields
    <3> QED
      BY <1>4, <2>1, <2>2, <3>1, <3>2, Zenon
  <2> QED
    BY <1>31, <2>3, <2>4, Zenon DEF SceneBack
<1>32. CASE LevelStep
  <2>1. op.at = "within" /\ Underway
    BY <1>32, Busy DEF LevelStep, On
  <2>2. op' = op \/ GoOn("leave")
    BY <1>32 DEF LevelStep, GoOn
  <2>3. "leave" \in Stages(op.do) /\ "leave" \in Plain
    BY <2>1, Whereabouts, StagesAre DEF Plain
  <2> QED
    BY <1>1, <1>5, <2>1, <2>2, <2>3, Zenon
<1>33. CASE Left
  <2>1. op.at \in {"within", "leave"} /\ Underway
    BY <1>33, Busy DEF Left
  <2>8. DOMAIN op = Fields /\ op.i \in Nat \ {0}
    BY <2>1 DEF Underway
  <2>2. DOMAIN op = Fields /\ op.i \in Nat \ {0} /\ op.i + 1 \in Nat \ {0}
    BY <2>8
  <2>3. CASE Failed
    BY <2>1, <2>3, FailsOn
  <2>4. CASE op.do = "measure_many" /\ op' = [op EXCEPT !.at = "next", !.i = @ + 1]
    <3>1. Onward("next", op.i + 1) /\ op'.before = op.before
      BY <2>2, <2>4 DEF Onward, Fields
    <3>2. "next" \in Stages(op.do) /\ "next" \in Plain
      BY <2>4, StagesAre DEF Plain
    <3> QED
      BY <1>4, <2>1, <2>2, <3>1, <3>2, Zenon
  <2>5. ASSUME NEW e, op.do = "measure_scenes", op' = [op EXCEPT !.at = "scene back", !.error = e]
        PROVE  OpOK'
    <3>1. Onward("scene back", op.i) /\ op'.before = op.before
      BY <2>2, <2>5 DEF Onward, Fields
    <3>2. "scene back" \in Stages(op.do) /\ "scene back" \in Plain
      BY <2>5, StagesAre DEF Plain
    <3> QED
      BY <1>4, <2>1, <2>2, <3>1, <3>2, Zenon
  <2>6. ASSUME NEW e, op' = [op EXCEPT !.at = "answer", !.error = e]
        PROVE  OpOK'
    <3>1. Onward("answer", op.i) /\ op'.before = op.before
      BY <2>2, <2>6, SMTT(20) DEF Onward, Fields
    <3>2. "answer" \in Stages(op.do) /\ "answer" \in Plain
      BY StagesAre DEF Plain
    <3> QED
      BY <1>4, <2>1, <2>2, <3>1, <3>2, Zenon
  <2>7. \/ Failed
        \/ op.do = "measure_many" /\ op' = [op EXCEPT !.at = "next", !.i = @ + 1]
        \/ op.do = "measure_scenes" /\ \E e : op' = [op EXCEPT !.at = "scene back", !.error = e]
        \/ \E e : op' = [op EXCEPT !.at = "answer", !.error = e]
    <3>1. CASE op.do = "measure_many"
      BY <1>33, <3>1 DEF Left
    <3>2. CASE op.do = "measure_scenes"
      BY <1>33, <3>2 DEF Left
    <3>3. CASE op.do \notin {"measure_many", "measure_scenes"}
      BY <1>33, <3>3 DEF Left
    <3> QED
      BY <3>1, <3>2, <3>3
  <2> QED
    BY <2>3, <2>4, <2>5, <2>6, <2>7, Zenon
<1>34. CASE Pump \/ AddGain
  BY <1>1, <1>34 DEF Pump, AddGain, loop
<1> QED
  BY <1>1, <1>2, <1>3, <1>8, <1>9, <1>10, <1>16, <1>17, <1>18, <1>19, <1>20, <1>21, <1>22,
     <1>23, <1>24, <1>25, <1>26, <1>27, <1>28, <1>29, <1>30, <1>31,
     <1>32, <1>33, <1>34, Frames, Zenon DEF Main

-----------------------------------------------------------------------------
(* The sampler *)

\* A take is saved by a command that has stopped the stream.
LEMMA TakesEnd ==
  ASSUME OpOK, Main, op'.at = "save take", ~Do
  PROVE  op' = op
<1>1. ASSUME NEW w, w # "save take", DOMAIN op = Fields, GoOn(w)
      PROVE  FALSE
  BY <1>1 DEF GoOn, Fields
<1>2. op.at # "idle" => Underway /\ DOMAIN op = Fields
  BY Busy DEF Underway
<1>3. CASE TakeCommand
  <2>1. op'.at = Begins(Head(inbox))
    BY <1>3 DEF TakeCommand, Started
  <2> QED
    BY <2>1 DEF Begins
<1>4. CASE Answer
  BY <1>4 DEF Answer, NoOp
<1>5. CASE Failed /\ op.at # "idle"
  BY <1>2, <1>5 DEF Failed, Fields
<1>6. CASE NoAnswer
  BY <1>5, <1>6 DEF NoAnswer
<1>7. CASE Reading
  <2>1. Reads
    BY <1>7, ReadsOnly
  <2>2. AfterOpen # "save take"
    BY DEF AfterOpen
  <2>3. op.at = "active" => AfterState # "save take"
    BY <2>1, Whereabouts DEF AfterState, Reads, Trimming
  <2> QED
    BY <2>1, <2>2, <2>3 DEF Reads
<1>8. CASE Recall \/ Keep \/ Create \/ RememberFader \/ With \/ LastScene \/ BeginPlay
  <2>1. op.at # "idle"
    BY <1>8 DEF Recall, Keep, Create, RememberFader, With, LastScene, BeginPlay, On
  <2>2. \E w \in {"listen", "answer", "with", "within", "leave"} : GoOn(w)
    BY <1>8, Zenon DEF Recall, Keep, Create, RememberFader, With, LastScene, BeginPlay
  <2> QED
    BY <1>1, <1>2, <2>1, <2>2
<1>11. CASE ApplyTrim
  BY <1>1, <1>2, <1>5, <1>11 DEF ApplyTrim, On
<1>12. CASE PutBack \/ ReadScene \/ SceneBack
  BY <1>2, <1>12 DEF PutBack, ReadScene, SceneBack, GoOn, On, Fields
<1>13. CASE NextPreset
  BY <1>1, <1>2, <1>13 DEF NextPreset, On
<1>14. CASE RowsKnown
  BY <1>2, <1>14 DEF RowsKnown, GoOn, On, Fields
<1>15. CASE MeasureOnce \/ Scene \/ Raise
  BY <1>2, <1>15 DEF MeasureOnce, Scene, Raise, On, Fields
<1>16. CASE LevelStep
  BY <1>2, <1>16 DEF LevelStep, On, Fields
<1>17. CASE Left
  <2>1. op.at \in {"within", "leave"} /\ DOMAIN op = Fields
    BY <1>2, <1>17 DEF Left
  <2>2. CASE op.do = "measure_many"
    BY <1>5, <1>17, <2>1, <2>2 DEF Left, Fields
  <2>3. CASE op.do = "measure_scenes"
    BY <1>5, <1>17, <2>1, <2>3 DEF Left, Fields
  <2>4. CASE op.do \notin {"measure_many", "measure_scenes"}
    BY <1>5, <1>17, <2>1, <2>4 DEF Left, Fields
  <2> QED
    BY <2>2, <2>3, <2>4
<1>18. CASE Pump \/ AddGain
  BY <1>18 DEF Pump, AddGain, loop
<1> QED
  BY <1>3, <1>4, <1>6, <1>7, <1>8, <1>11, <1>12, <1>13, <1>14, <1>15, <1>16, <1>17, <1>18,
     Zenon DEF Main, Reading

\* What a take may be, whatever the command.
TakeOK ==
  /\ state \in {"idle", "armed", "recording", "done"} /\ stream \in {"none", "open", "ended"}
  /\ blocks \in 0 .. MaxBlocks /\ quiet \in 0 .. MaxQuiet
  /\ stream = "open" =>
       \/ state = "armed" /\ blocks = 0 /\ quiet = 0
       \/ state = "recording" /\ blocks < MaxBlocks /\ quiet < MaxQuiet

\* What a step does to the sampler is one of its operations.
LEMMA TakeSteps ==
  ASSUME TakeOK
  PROVE  /\ UNCHANGED sampling \/ Arm \/ StopStream \/ Discard \/ UseRiff => TakeOK'
         /\ SaveTake /\ stream = "none" => TakeOK'
         /\ Audio => TakeOK' /\ (stream = "none" => stream' = "none")
<1>1. MaxBlocks \in Nat /\ MaxBlocks >= 2 /\ MaxQuiet \in Nat /\ MaxQuiet >= 1
  BY SamplerAssumption DEF SamplerAssumption
<1>2. 0 \in 0 .. MaxBlocks /\ 1 \in 0 .. MaxBlocks /\ 0 \in 0 .. MaxQuiet
  BY <1>1
<1>3. UNCHANGED sampling => TakeOK'
  BY DEF sampling, TakeOK
<1>4. ASSUME Arm PROVE TakeOK'
  <2>1. CASE state \in {"armed", "recording"}
    BY <1>3, <1>4, <2>1 DEF Arm
  <2>2. CASE state \notin {"armed", "recording"}
    <3>1. /\ blocks' = 0 /\ quiet' = 0
          /\ ((state' = "armed" /\ stream' \in {"open", "ended"}) \/ UNCHANGED <<state, stream>>)
      BY <1>4, <2>2 DEF Arm
    <3>2. stream # "open"
      BY <2>2 DEF TakeOK
    <3> QED
      BY <1>2, <3>1, <3>2 DEF TakeOK
  <2> QED
    BY <2>1, <2>2
<1>5. StopStream => TakeOK'
  BY DEF StopStream, TakeOK
<1>6. Discard => TakeOK'
  BY <1>2 DEF Discard, TakeOK
<1>7. UseRiff => TakeOK'
  BY DEF UseRiff, TakeOK
<1>8. SaveTake /\ stream = "none" => TakeOK'
  BY DEF SaveTake, TakeOK
<1>9. ASSUME NEW loud \in BOOLEAN, Block(loud)
      PROVE  TakeOK' /\ stream = "open"
  <2>1. stream = "open"
    BY <1>9 DEF Block
  <2>2. CASE state = "armed"
    <3>1. state' = "recording" /\ blocks' = 1 /\ stream' = stream /\ quiet' = quiet /\ quiet = 0
      BY <1>9, <2>1, <2>2 DEF Block, TakeOK
    <3> QED
      BY <1>1, <1>2, <2>1, <3>1 DEF TakeOK
  <2>3. CASE state = "recording"
    <3>1. /\ blocks' = blocks + 1 /\ quiet' \in {0, quiet + 1} /\ state' = state
          /\ stream' = IF Full(blocks', quiet') THEN "ended" ELSE stream
      BY <1>9, <2>3 DEF Block, QuietAfter
    <3>2. blocks \in 0 .. MaxBlocks /\ blocks < MaxBlocks /\ quiet \in 0 .. MaxQuiet /\ quiet < MaxQuiet
      BY <2>1, <2>3 DEF TakeOK
    <3>3. blocks' \in 0 .. MaxBlocks /\ quiet' \in 0 .. MaxQuiet
      BY <1>1, <3>1, <3>2
    <3>4. stream' = "open" => blocks' < MaxBlocks /\ quiet' < MaxQuiet
      BY <1>1, <3>1, <3>2, <3>3 DEF Full
    <3>5. stream' \in {"open", "ended"}
      BY <2>1, <3>1, Zenon
    <3>6. state' = "recording"
      BY <2>3, <3>1
    <3> QED
      BY <2>1, <3>3, <3>4, <3>5, <3>6, Zenon DEF TakeOK
  <2> QED
    BY <1>9, <2>1, <2>2, <2>3 DEF Block
<1>10. Finished => TakeOK' /\ stream = "ended"
  BY DEF Finished, TakeOK
<1>11. Audio => TakeOK' /\ (stream = "none" => stream' = "none")
  BY <1>9, <1>10 DEF Audio
<1> QED
  BY <1>3, <1>4, <1>5, <1>6, <1>7, <1>8, <1>11, Zenon

\* A take never outgrows its limit and a quiet stretch its own.
LEMMA TakeKept ==
  ASSUME Shape, [Next]_vars
  PROVE  Take'
<1>1. OpOK
  BY DEF Shape
<1>2. TakeOK /\ (op.at = "save take" => stream = "none")
  BY DEF Shape, Take, TakeOK
<1>5. StopStream => stream' = "none"
  BY DEF StopStream
<1>8. Keep => SaveTake /\ stream = "none"
  BY <1>2 DEF Keep, On
<1>9. AudioThread => TakeOK' /\ (stream = "none" => stream' = "none")
  BY <1>2, TakeSteps, Zenon DEF AudioThread
<1>10. TakeOK'
  <2>1. CASE Do
    <3>1. UNCHANGED sampling \/ Arm \/ StopStream \/ Discard \/ UseRiff
      BY <1>1, <2>1, Doing, Zenon
    <3> QED
      BY <1>2, <3>1, TakeSteps, Zenon
  <2> QED
    BY <1>1, <1>2, <1>8, <1>9, <2>1, Frames, TakeSteps, Zenon
<1>11. ASSUME op'.at = "save take" PROVE stream' = "none"
  <2>1. CASE Do
    <3>1. CASE op' = [op EXCEPT !.at = "answer"]
      <4>1. DOMAIN op = Fields
        BY <1>1, <2>1, Doing, DoneAtOnce
      <4> QED
        BY <1>11, <3>1, <4>1 DEF Fields
    <3> QED
      BY <1>1, <1>5, <2>1, <3>1, Doing
  <2>2. CASE op' = op /\ ~Do
    <3>1. op.at = "save take" /\ stream = "none"
      BY <1>2, <1>11, <2>2
    <3>2. CASE Keep
      <4>1. DOMAIN op = Fields
        BY <1>1, <3>1, Busy DEF Underway
      <4> QED
        BY <1>11, <3>2, <4>1 DEF Keep, GoOn, Fields
    <3>3. CASE UNCHANGED sampling
      BY <3>1, <3>3 DEF sampling
    <3> QED
      BY <1>1, <1>9, <2>2, <3>1, <3>2, <3>3, Frames, Zenon
  <2> QED
    BY <1>1, <1>11, <2>1, <2>2, Frames, TakesEnd, Zenon
<1> QED
  BY <1>10, <1>11 DEF Take, TakeOK

-----------------------------------------------------------------------------
(* The types *)

\* The bench starts in shape.
LEMMA InitShape == Init => Shape
<1> SUFFICES ASSUME Init PROVE Shape
  OBVIOUS
<1>1. /\ Own \in [Presets -> (Nat \ {Usb}) \X (Nat \ {Usb})] /\ Fader \in [Presets -> Levels]
      /\ Lo \in Int /\ Hi \in Int /\ Lo <= Hi /\ 0 \in Scenes
  BY LevelAssumption, Zenon DEF LevelAssumption, Levels
<1>2. \A p \in Presets : AsMade(p) \in Kept
  BY <1>1 DEF AsMade, Kept, Names
<1>3. SavedOK
  BY <1>2 DEF Init, SavedOK
<1>4. UnitOK
  <2>1. PICK p \in Presets : unit = Loaded(p, AsMade(p))
    BY DEF Init, LevelInit
  <2>2. PICK k \in Kept : k = AsMade(p)
    BY <1>2
  <2>3. Loaded(p, k) \in Units
    BY <1>1 DEF Loaded, Kept, Units
  <2> QED
    BY <2>1, <2>2, <2>3, Zenon DEF UnitOK
<1>5. ReampOK
  BY DEF Init, LevelInit, ReampOK, Wirings
<1>6. Traffic
  <2>1. script \in Seq(Commands)
    BY SessionsAssumption DEF Init, SessionsAssumption
  <2> QED
    BY <2>1 DEF Init, Traffic
<1>7. RunOK
  BY DEF Init, LevelInit, RunOK
<1>8. Remembered
  <2>1. NoTrim \in NoTrim .. Hi
    BY <1>1 DEF NoTrim
  <2> QED
    BY <2>1 DEF Init, Remembered
<1>9. Take
  <2>1. MaxBlocks \in Nat /\ MaxQuiet \in Nat
    BY SamplerAssumption DEF SamplerAssumption
  <2> QED
    BY <2>1 DEF Init, SamplerInit, Take, NoOp
<1>10. OpOK
  BY DEF Init, OpOK
<1> QED
  BY <1>3, <1>4, <1>5, <1>6, <1>7, <1>8, <1>9, <1>10 DEF Shape

\* Every step keeps all parts of it.
LEMMA StepShape == Shape /\ [Next]_vars => Shape'
<1> SUFFICES ASSUME Shape, [Next]_vars PROVE Shape'
  OBVIOUS
<1> QED
  BY UnitKept, SavedKept, ReampKept, TrafficKept, RunKept, RememberedKept, TakeKept, OpKept,
     Zenon
  DEF Shape

\* So it is always in shape.
LEMMA ShapeHolds == Spec => []Shape
  BY InitShape, StepShape, PTL DEF Spec

\* Unit, slots, wirings, sampler, runs and commands keep their types, for any
\* presets, threads and sessions; no run makes more passes than it may, and a
\* take is not longer than its limit.
THEOREM BenchTyped == Spec => []TypeOK
<1>1. Shape => TypeOK
  <2> SUFFICES ASSUME Shape PROVE TypeOK
    OBVIOUS
  <2>1. /\ unit.pre \in Presets /\ unit.name \in Names
        /\ unit.scene \in Scenes /\ unit.db \in [Scenes -> Lo .. Hi]
    BY DEF Shape, UnitOK, Units, Levels
  <2>2. DOMAIN reamp = Threads /\ applied \in [Names -> NoTrim .. Hi]
    BY DEF Shape, ReampOK, Remembered
  <2>3. \A p \in Presets : saved[p].db \in [Scenes -> Lo .. Hi]
    BY DEF Shape, SavedOK, Kept, Levels
  <2>4. /\ state \in {"idle", "armed", "recording", "done"} /\ stream \in {"none", "open", "ended"}
        /\ blocks <= MaxBlocks /\ quiet <= MaxQuiet
    <3>1. MaxBlocks \in Nat /\ MaxQuiet \in Nat
      BY SamplerAssumption DEF SamplerAssumption
    <3>2. Take
      BY DEF Shape
    <3>3. /\ state \in {"idle", "armed", "recording", "done"}
          /\ stream \in {"none", "open", "ended"}
          /\ blocks \in 0 .. MaxBlocks /\ quiet \in 0 .. MaxQuiet
      BY <3>2, Zenon DEF Take
    <3> QED
      BY <3>1, <3>3
  <2>5. run # NoRun => run.n <= MaxIterations + 1
    <3>1. ASSUME run # NoRun PROVE run.n \in 1 .. MaxIterations + 1
      BY <3>1, Zenon DEF Shape, RunOK, Runs
    <3>2. MaxIterations \in Nat
      BY LevelAssumption, Zenon DEF LevelAssumption
    <3> QED
      BY <3>1, <3>2
  <2>6. op.at = "leave" => op.do \notin {"state", "open", "save"}
    BY Busy, Whereabouts DEF Shape
  <2> QED
    BY <2>1, <2>2, <2>3, <2>4, <2>5, <2>6, Zenon DEF TypeOK
<1> QED
  BY <1>1, ShapeHolds, PTL

-----------------------------------------------------------------------------
(* What moves, and what moves it *)

\* A command stays the one it is until it is answered.
Stays ==
  /\ Underway /\ op.at # "answer" /\ DOMAIN op' = Fields
  /\ op'.do = op.do /\ op'.arg = op.arg /\ op'.found = op.found

\* Only its taking and its answer change the command there is.
LEMMA CommandStays ==
  ASSUME OpOK, [Next]_vars
  PROVE  UNCHANGED op \/ TakeCommand \/ Answer \/ Stays
<1>1. ASSUME NEW w, Underway, op.at # "answer", GoOn(w)
      PROVE  Stays
  BY <1>1 DEF GoOn, Stays, Underway, Fields
<1>2. op.at # "idle" => Underway
  BY Busy
<1>3. Underway => DOMAIN op = Fields
  BY DEF Underway
<1>5. CASE Failed /\ op.at \notin {"idle", "answer"}
  BY <1>2, <1>3, <1>5 DEF Failed, Fields, Stays
<1>6. CASE NoAnswer
  BY <1>5, <1>6 DEF NoAnswer
<1>7. CASE Reading
  <2>1. Reads
    BY <1>7, ReadsOnly
  <2> QED
    BY <2>1 DEF Reads, Stays
<1>8. CASE Recall \/ Keep \/ Create \/ RememberFader \/ With \/ LastScene \/ BeginPlay
  <2>1. op.at \notin {"idle", "answer"}
    BY <1>8 DEF Recall, Keep, Create, RememberFader, With, LastScene, BeginPlay, On
  <2>2. \E w : GoOn(w)
    BY <1>8, Zenon DEF Recall, Keep, Create, RememberFader, With, LastScene, BeginPlay
  <2> QED
    BY <1>1, <1>2, <2>1, <2>2
<1>11. CASE ApplyTrim
  BY <1>1, <1>2, <1>5, <1>11 DEF ApplyTrim, On
<1>12. CASE PutBack \/ ReadScene \/ SceneBack
  BY <1>2, <1>3, <1>12 DEF PutBack, ReadScene, SceneBack, GoOn, On, Fields, Stays
<1>13. CASE NextPreset
  BY <1>1, <1>2, <1>13 DEF NextPreset, On
<1>14. CASE RowsKnown
  BY <1>2, <1>3, <1>14 DEF RowsKnown, GoOn, On, Fields, Stays
<1>15. CASE MeasureOnce \/ Scene \/ Raise
  BY <1>2, <1>3, <1>15 DEF MeasureOnce, Scene, Raise, On, Fields, Stays
<1>16. CASE LevelStep
  BY <1>2, <1>3, <1>16 DEF LevelStep, On, Fields, Stays
<1>17. CASE Left
  <2>1. op.at \in {"within", "leave"} /\ Underway /\ DOMAIN op = Fields
    BY <1>2, <1>3, <1>17 DEF Left
  <2>2. CASE op.do = "measure_many"
    BY <1>5, <1>17, <2>1, <2>2 DEF Left, Fields, Stays
  <2>3. CASE op.do = "measure_scenes"
    BY <1>5, <1>17, <2>1, <2>3 DEF Left, Fields, Stays
  <2>4. CASE op.do \notin {"measure_many", "measure_scenes"}
    BY <1>5, <1>17, <2>1, <2>4 DEF Left, Fields, Stays
  <2> QED
    BY <2>2, <2>3, <2>4
<1>18. CASE Pump \/ AddGain
  BY <1>18 DEF Pump, AddGain, loop
<1>19. CASE Do
  <2>1. op.at = "do" /\ \E w : GoOn(w)
    BY <1>19, Doing DEF GoOn
  <2> QED
    BY <1>1, <1>2, <2>1
<1> QED
  BY <1>6, <1>7, <1>8, <1>11, <1>12, <1>13, <1>14, <1>15, <1>16, <1>17, <1>18, <1>19,
     Frames, Zenon DEF Main, Reading

\* Only a recall changes the preset, and each step changes one thing of it.
LEMMA UnitMoves ==
  ASSUME Shape, [Next]_vars
  PROVE  \/ Land \/ PlayerRecalls
         \/ /\ unit'.pre = unit.pre
            /\ \/ unit'.in = unit.in /\ unit'.out = unit.out
               \/ \E t \in Threads : Threaded(t)
            /\ unit'.db = unit.db \/ Do \/ ApplyTrim \/ PutBack \/ LevelStep
            /\ unit'.scene = unit.scene \/ Do \/ Scene \/ LastScene \/ SceneBack
            /\ unit'.gain = unit.gain \/ AddGain
            /\ unit'.name = unit.name /\ unit'.scened = unit.scened
<1>1. unit \in Units
  BY DEF Shape, UnitOK
<1>10. ASSUME NEW x, unit' = Moved(x)
       PROVE  \E l : unit' = [unit EXCEPT !.db = l]
  <2>1. PICK l : l = [s \in Scenes |-> IF unit.scened /\ s # unit.scene THEN unit.db[s] ELSE x]
    OBVIOUS
  <2>2. unit' = [unit EXCEPT !.db = l]
    BY <1>10, <2>1 DEF Moved
  <2> QED
    BY <2>2
<1>11. (\E x : unit' = Moved(x)) => \E l : unit' = [unit EXCEPT !.db = l]
  BY <1>10
<1>2. ASSUME NEW x PROVE
        /\ unit' = [unit EXCEPT !.db = x] =>
             /\ unit'.pre = unit.pre /\ unit'.name = unit.name /\ unit'.scened = unit.scened
             /\ unit'.in = unit.in /\ unit'.out = unit.out
             /\ unit'.scene = unit.scene /\ unit'.gain = unit.gain
        /\ unit' = [unit EXCEPT !.scene = x] =>
             /\ unit'.pre = unit.pre /\ unit'.name = unit.name /\ unit'.scened = unit.scened
             /\ unit'.in = unit.in /\ unit'.out = unit.out
             /\ unit'.db = unit.db /\ unit'.gain = unit.gain
        /\ unit' = [unit EXCEPT !.gain = x] =>
             /\ unit'.pre = unit.pre /\ unit'.name = unit.name /\ unit'.scened = unit.scened
             /\ unit'.in = unit.in /\ unit'.out = unit.out
             /\ unit'.db = unit.db /\ unit'.scene = unit.scene
        /\ unit' = [unit EXCEPT !.in = x] \/ unit' = [unit EXCEPT !.out = x] =>
             /\ unit'.pre = unit.pre /\ unit'.name = unit.name /\ unit'.scened = unit.scened /\ unit'.db = unit.db
             /\ unit'.scene = unit.scene /\ unit'.gain = unit.gain
  BY <1>1 DEF Units
<1>3. CASE Do
  <2>1. \/ UNCHANGED unit \/ \E x : unit' = [unit EXCEPT !.db = x]
        \/ \E x : unit' = [unit EXCEPT !.scene = x]
    <3>1. \/ UNCHANGED unit \/ \E x : unit' = Moved(x)
          \/ \E x : unit' = [unit EXCEPT !.scene = x]
      BY <1>3, Doing, Zenon DEF Shape
    <3> QED
      BY <1>11, <3>1, Zenon
  <2> QED
    BY <1>2, <1>3, <2>1, Zenon
<1>4. CASE ApplyTrim \/ PutBack
  <2>1. UNCHANGED unit \/ \E x : unit' = [unit EXCEPT !.db = x]
    <3>1. UNCHANGED unit \/ \E x : unit' = Moved(x)
      BY <1>4, Zenon DEF ApplyTrim, PutBack
    <3> QED
      BY <1>11, <3>1, Zenon
  <2> QED
    BY <1>2, <1>4, <2>1, Zenon
<1>5. CASE LevelStep
  <2>1. UNCHANGED unit \/ \E x : unit' = [unit EXCEPT !.db = x]
    <3>1. UNCHANGED unit \/ \E x : unit' = Moved(x)
      BY <1>5, Zenon DEF LevelStep, Leveling, First, WriteTrim, Again, BackOff, LeaveRun
    <3> QED
      BY <1>11, <3>1, Zenon
  <2> QED
    BY <1>2, <1>5, <2>1, Zenon
<1>6. CASE Scene \/ LastScene \/ SceneBack
  <2>1. UNCHANGED unit \/ \E x : unit' = [unit EXCEPT !.scene = x]
    BY <1>6, Zenon DEF Scene, LastScene, SceneBack
  <2> QED
    BY <1>2, <1>6, <2>1, Zenon
<1>7. CASE AddGain
  <2>1. \E x : unit' = [unit EXCEPT !.gain = x]
    BY <1>7, Zenon DEF AddGain
  <2> QED
    BY <1>2, <1>7, <2>1, Zenon
<1>8. ASSUME NEW t \in Threads, Threaded(t)
      PROVE  /\ unit'.pre = unit.pre /\ unit'.db = unit.db /\ unit'.scene = unit.scene
             /\ unit'.gain = unit.gain /\ unit'.name = unit.name /\ unit'.scened = unit.scened
  <2>1. UNCHANGED unit \/ \E x : unit' = [unit EXCEPT !.in = x] \/ unit' = [unit EXCEPT !.out = x]
    BY <1>8 DEF Threaded, Wiring, ReadPorts, Feed, Tap, RestoreIn, RestoreOut, EndPlay
  <2> QED
    BY <1>2, <2>1, Zenon
<1>9. OpOK
  BY DEF Shape
<1> QED
  BY <1>3, <1>4, <1>5, <1>6, <1>7, <1>8, <1>9, Frames, Zenon

-----------------------------------------------------------------------------
(* Routing *)

Measuring == {"measure", "measure_many", "measure_scenes", "level_scenes", "autolevel"}

\* While nothing crosses, a riff is played beside commands that keep away from
\* the preset, and one thread at a time has a wiring.
AloneAtTheUnit ==
  ~crossed =>
    /\ Playing => op.do \in Harmless \cup {"none"} \/ (op.do = "play" /\ op.at = "answer")
    /\ \A t, u \in Threads : ~At(t, "off") /\ ~At(u, "off") => t = u

\* The loop's own wiring belongs to a command that measures.
LoopWired == ~At(Loop, "off") => op.at \in {"within", "leave"} /\ op.do \in Measuring

\* A wiring has read the preset's own ports, and has the ends it moved still to
\* put back.
Wire(t) ==
  /\ ~At(t, "ports") => reamp[t].in = Own[unit.pre][1] /\ reamp[t].out = Own[unit.pre][2]
  /\ unit.in # Own[unit.pre][1] =>
       reamp[t].at \in {"tap", "on", "restore in"} /\ reamp[t].feed
  /\ unit.out # Own[unit.pre][2] =>
       reamp[t].at \in {"on", "restore in", "restore out"} /\ reamp[t].tap
Home == unit.in = Own[unit.pre][1] /\ unit.out = Own[unit.pre][2]
SlotsHome == \A p \in Presets : saved[p].in = Own[p][1] /\ saved[p].out = Own[p][2]
Wires ==
  ~crossed /\ ~lost =>
    /\ \A t \in Threads : ~At(t, "off") => Wire(t)
    /\ ~Wired => Home
    /\ SlotsHome

\* A command that recalls nothing finds the unit at rest, unless somebody is at
\* it; so a save has read where it writes, if it was told in time.
Unasked ==
  calm /\ op.do \notin {"none", "open", "apply_trim", "measure_many"} => asked = <<>>
SaveKnows == calm /\ op.at = "create" /\ op.sure => op.label = unit.pre

RouteInv == AloneAtTheUnit /\ LoopWired /\ Wires /\ Unasked /\ SaveKnows

\* No step but the beginning of a wiring makes one.
LEMMA WiringMoves ==
  ASSUME Shape, [Next]_vars
  PROVE  BeginPlay \/ With \/ \A t \in Threads : At(t, "off") => At(t, "off")'
<1>1. reamp \in [Threads -> Wirings] /\ OpOK
  BY DEF Shape, ReampOK
<1>2. ASSUME NEW t \in Threads, NEW r, ~At(t, "off"), reamp' = [reamp EXCEPT ![t] = r]
      PROVE  \A u \in Threads : At(u, "off") => At(u, "off")'
  BY <1>1, <1>2 DEF At
<1>3. ASSUME NEW t \in Threads, NEW w, ~At(t, "off"), Go(t, w)
      PROVE  \A u \in Threads : At(u, "off") => At(u, "off")'
  <2>1. reamp' = [reamp EXCEPT ![t] = [reamp[t] EXCEPT !.at = w]]
    BY <1>3, Zenon DEF Go
  <2> QED
    BY <1>2, <1>3, <2>1, Zenon
<1>4. Loop \in Threads
  BY LevelAssumption, Zenon DEF LevelAssumption
<1>5. CASE UNCHANGED reamp
  BY <1>5 DEF At
<1>6. CASE MeasureOnce \/ LastScene \/ Raise
  <2>1. ~At(Loop, "off") /\ Go(Loop, "restore in")
    BY <1>6 DEF MeasureOnce, LastScene, Raise, At
  <2> QED
    BY <1>3, <1>4, <2>1, Zenon
<1>7. CASE LevelStep
  <2>1. UNCHANGED reamp \/ (~At(Loop, "off") /\ Go(Loop, "restore in"))
    BY <1>7 DEF LevelStep, Leveling, First, WriteTrim, Again, BackOff, LeaveRun, At
  <2> QED
    BY <1>3, <1>4, <1>5, <2>1, ZenonT(30)
<1>8. CASE Do
  <2>1. CASE reamp' = [t \in Threads |-> IF t \in Players /\ At(t, "on")
                                         THEN [reamp[t] EXCEPT !.at = "restore in"] ELSE reamp[t]]
    BY <2>1 DEF At
  <2> QED
    BY <1>1, <1>5, <1>8, <2>1, Doing
<1>9. ASSUME NEW t \in Threads, Threaded(t)
      PROVE  \A u \in Threads : At(u, "off") => At(u, "off")'
  <2>1. ~At(t, "off") /\ \/ UNCHANGED reamp \/ \E w : Go(t, w)
                         \/ reamp' = [reamp EXCEPT ![t].at = "feed", ![t].in = unit.in, ![t].out = unit.out]
    BY <1>9 DEF Threaded, Wiring, ReadPorts, Feed, Tap, RestoreIn, RestoreOut, EndPlay, At
  <2>2. CASE reamp' = [reamp EXCEPT ![t].at = "feed", ![t].in = unit.in, ![t].out = unit.out]
    BY <1>1, <2>1, <2>2 DEF At
  <2>3. ASSUME NEW w, Go(t, w) PROVE \A u \in Threads : At(u, "off") => At(u, "off")'
    BY <1>3, <2>1, <2>3, Zenon
  <2>4. CASE \E w : Go(t, w)
    BY <2>3, <2>4, Zenon
  <2>5. CASE UNCHANGED reamp
    BY <2>5 DEF At
  <2>6. \/ UNCHANGED reamp \/ \E w : Go(t, w)
        \/ reamp' = [reamp EXCEPT ![t].at = "feed", ![t].in = unit.in, ![t].out = unit.out]
    BY <2>1, Zenon
  <2> QED
    BY <2>2, <2>4, <2>5, <2>6, Zenon
<1> QED
  BY <1>1, <1>5, <1>6, <1>7, <1>8, <1>9, Frames, Zenon

\* A command that works on the preset is alone at it.
LEMMA AllOff ==
  ASSUME AloneAtTheUnit, LoopWired, ~crossed, op.at \notin {"within", "leave"},
         op.do \notin Harmless \cup {"none"}, ~(op.do = "play" /\ op.at = "answer")
  PROVE  \A t \in Threads : At(t, "off")
BY DEF AloneAtTheUnit, LoopWired, Playing, Players

\* What has a wiring stays in it.
LEMMA StaysWithin ==
  ASSUME OpOK, [Next]_vars, op.at \in {"within", "leave"}, ~At(Loop, "off")
  PROVE  op'.at \in {"within", "leave"}
<1>1. DOMAIN op = Fields
  BY Busy DEF Underway
<1>2. UNCHANGED op \/ Main
  BY Frames
<1>3. Main => MeasureOnce \/ AddGain \/ Scene \/ LastScene \/ Raise \/ LevelStep
  BY Doing DEF Main, TakeCommand, Pump, Answer, NoAnswer, Drain, Recall, Listen, Landed, GiveUp,
     ReadGrid, ReadPointer, ReadActive, Keep, Create, ApplyTrim, PutBack, NextPreset, RowsKnown, BeginPlay,
     RememberFader, ReadScene, With, SceneBack, Left, On
<1>4. CASE MeasureOnce \/ Scene \/ Raise
  BY <1>1, <1>4 DEF MeasureOnce, Scene, Raise, Fields
<1>5. CASE AddGain
  BY <1>5 DEF AddGain
<1>6. CASE LastScene \/ LevelStep
  BY <1>1, <1>6 DEF LastScene, LevelStep, GoOn, Fields
<1> QED
  BY <1>2, <1>3, <1>4, <1>5, <1>6

\* No other command begins while one works on a preset, so only somebody at the
\* unit can move it away.
LEMMA AloneKept ==
  ASSUME Shape, RouteInv, [Next]_vars
  PROVE  AloneAtTheUnit'
<1> SUFFICES ASSUME ~crossed' PROVE AloneAtTheUnit'
  BY DEF AloneAtTheUnit
<1>1. OpOK /\ AloneAtTheUnit /\ LoopWired /\ Loop \in Threads
  BY LevelAssumption, Zenon DEF Shape, RouteInv, LevelAssumption
<1>2. ~crossed
  BY <1>1, Frames DEF Land, PlayerRecalls, TakeCommand, Create
<1>3. CASE BeginPlay
  <2>1. op.at = "rows" /\ op.do = "play" /\ DOMAIN op = Fields
    BY <1>1, <1>3, Busy DEF BeginPlay, On, Underway
  <2>2. \A t \in Threads : At(t, "off")
    BY <1>1, <1>2, <2>1, AllOff DEF Harmless
  <2>3. PICK t \in Players : Enter(t, TRUE, FALSE)
    BY <1>3, Zenon DEF BeginPlay
  <2>4. \A u \in Threads \ {t} : At(u, "off")'
    BY <2>2, <2>3 DEF Enter, At, Players, Shape, ReampOK
  <2>5. op'.at = "answer" /\ op'.do = "play"
    BY <1>3, <2>1 DEF BeginPlay, GoOn, Fields
  <2> QED
    BY <2>4, <2>5 DEF AloneAtTheUnit
<1>4. CASE With
  <2>1. op.at = "with" /\ op.do \in Measuring
    BY <1>1, <1>4, Busy, Whereabouts DEF With, On, Measuring
  <2>2. \A t \in Threads : At(t, "off")
    BY <1>1, <1>2, <2>1, AllOff DEF Harmless, Measuring
  <2>3. \A u \in Threads \ {Loop} : At(u, "off")'
    BY <1>4, <2>2 DEF With, Enter, At, Shape, ReampOK
  <2> QED
    BY <2>3 DEF AloneAtTheUnit, Playing, Players
<1>5. CASE \A t \in Threads : At(t, "off") => At(t, "off")'
  <2>1. \A t, u \in Threads : ~At(t, "off")' /\ ~At(u, "off")' => t = u
    BY <1>1, <1>2, <1>5 DEF AloneAtTheUnit
  <2>2. Playing' => Playing
    BY <1>5 DEF Playing, Players
  <2>3. Playing => op.do \in Harmless \cup {"none"} \/ (op.do = "play" /\ op.at = "answer")
    BY <1>1, <1>2 DEF AloneAtTheUnit
  <2>4. CASE TakeCommand
    <3>1. op'.do = Head(inbox).do
      BY <2>4 DEF TakeCommand, Started
    <3>2. Playing => Head(inbox).do \in Harmless
      BY <2>4 DEF TakeCommand
    <3> QED
      BY <2>1, <2>2, <3>1, <3>2 DEF AloneAtTheUnit
  <2>5. CASE Answer
    <3>1. op'.do = "none"
      BY <2>5 DEF Answer, NoOp
    <3> QED
      BY <2>1, <3>1 DEF AloneAtTheUnit
  <2>6. CASE UNCHANGED op
    BY <2>1, <2>2, <2>3, <2>6 DEF AloneAtTheUnit
  <2>7. CASE Stays
    BY <2>1, <2>2, <2>3, <2>7 DEF AloneAtTheUnit, Stays
  <2> QED
    BY <1>1, <2>4, <2>5, <2>6, <2>7, CommandStays
<1> QED
  BY <1>3, <1>4, <1>5, WiringMoves

\* The loop takes its wiring down before it answers.
LEMMA LoopWiredKept ==
  ASSUME Shape, RouteInv, [Next]_vars
  PROVE  LoopWired'
<1>1. OpOK /\ LoopWired /\ Loop \in Threads
  BY LevelAssumption, Zenon DEF Shape, RouteInv, LevelAssumption
<1>2. CASE With
  <2>1. op.do \in Measuring /\ DOMAIN op = Fields
    BY <1>1, <1>2, Busy, Whereabouts DEF With, On, Measuring, Underway
  <2>2. op'.at = "within" /\ op'.do = op.do
    BY <1>2, <2>1 DEF With, GoOn, Fields
  <2> QED
    BY <2>1, <2>2 DEF LoopWired
<1>3. ASSUME ~With, ~At(Loop, "off")'
      PROVE  op'.at \in {"within", "leave"} /\ op'.do \in Measuring
  <2>1. CASE BeginPlay
    <3>1. PICK t \in Players : Enter(t, TRUE, FALSE)
      BY <2>1, Zenon DEF BeginPlay
    <3>2. ~At(Loop, "off")
      BY <1>1, <1>3, <3>1 DEF Enter, At, Players, Shape, ReampOK
    <3>3. op.at = "rows"
      BY <2>1 DEF BeginPlay, On
    <3> QED
      BY <1>1, <3>2, <3>3 DEF LoopWired
  <2>2. CASE ~BeginPlay
    <3>1. ~At(Loop, "off")
      BY <1>1, <1>3, <2>2, WiringMoves
    <3>2. op.at \in {"within", "leave"} /\ op.do \in Measuring
      BY <1>1, <3>1 DEF LoopWired
    <3>3. op'.at \in {"within", "leave"}
      BY <1>1, <3>1, <3>2, StaysWithin
    <3>4. ~TakeCommand /\ ~Answer
      BY <3>2 DEF TakeCommand, Answer
    <3>5. op'.do = op.do
      BY <1>1, <3>4, CommandStays DEF Stays
    <3> QED
      BY <3>2, <3>3, <3>5
  <2> QED
    BY <2>1, <2>2
<1> QED
  BY <1>2, <1>3 DEF LoopWired

\* A recall is asked for by the commands that open a preset, and done when they
\* are told.
LEMMA UnaskedKept ==
  ASSUME Shape, RouteInv, [Next]_vars
  PROVE  Unasked'
<1> SUFFICES ASSUME calm', op'.do \notin {"none", "open", "apply_trim", "measure_many"}
             PROVE  asked' = <<>>
  BY DEF Unasked
<1>1. OpOK /\ Unasked
  BY DEF Shape, RouteInv
<1>2. CASE TakeCommand
  BY <1>2 DEF TakeCommand, device
<1>3. CASE ~TakeCommand
  <2>1. calm
    BY <1>1, <1>3, Frames DEF PlayerRecalls
  <2>2. ~Answer
    BY DEF Answer, NoOp
  <2>3. op'.do = op.do
    BY <1>1, <1>3, <2>2, CommandStays DEF Stays
  <2>4. asked = <<>>
    BY <1>1, <2>1, <2>3 DEF Unasked
  <2>5. ~Land
    BY <2>4 DEF Land
  <2>6. ~Recall
    BY <1>1, <2>3, Busy, Whereabouts DEF Recall, On, InOpen
  <2> QED
    BY <1>1, <2>4, <2>5, <2>6, Frames
<1> QED
  BY <1>2, <1>3

\* A save gets to its write by reading where it is.
LEMMA CreateBegins ==
  ASSUME OpOK, [Next]_vars, op'.at = "create"
  PROVE  op' = op \/ (ReadPointer /\ (op'.sure => op'.label = unit.pre))
<1>1. ASSUME NEW w, w # "create", DOMAIN op = Fields, GoOn(w)
      PROVE  FALSE
  BY <1>1 DEF GoOn, Fields
<1>2. op.at # "idle" => Underway /\ DOMAIN op = Fields
  BY Busy DEF Underway
<1>3. CASE TakeCommand
  <2>1. op'.at = Begins(Head(inbox))
    BY <1>3 DEF TakeCommand, Started
  <2> QED
    BY <2>1 DEF Begins
<1>4. CASE Answer
  BY <1>4 DEF Answer, NoOp
<1>5. ASSUME Failed, op.at # "idle"
      PROVE  FALSE
  BY <1>2, <1>5 DEF Failed, Fields
<1>6. CASE NoAnswer
  BY <1>5, <1>6 DEF NoAnswer
<1>7. CASE Drain \/ Listen \/ Landed \/ GiveUp \/ ReadGrid \/ ReadActive
  <2>1. Reads
    BY <1>7, ReadsOnly DEF Reading
  <2>2. op.at # "pointer"
    BY <1>7 DEF Drain, Listen, Landed, GiveUp, ReadGrid, ReadActive, On
  <2>3. AfterOpen # "create"
    BY DEF AfterOpen
  <2>4. op.at = "active" => AfterState # "create"
    BY <2>1, Whereabouts DEF AfterState, Reads, Trimming
  <2> QED
    BY <2>1, <2>2, <2>3, <2>4 DEF Reads
<1>8. CASE Recall \/ Keep \/ Create \/ RememberFader \/ With \/ LastScene \/ BeginPlay
  <2>1. op.at # "idle"
    BY <1>8 DEF Recall, Keep, Create, RememberFader, With, LastScene, BeginPlay, On
  <2>2. \E w \in {"listen", "answer", "with", "within", "leave"} : GoOn(w)
    BY <1>8, Zenon DEF Recall, Keep, Create, RememberFader, With, LastScene, BeginPlay
  <2> QED
    BY <1>1, <1>2, <2>1, <2>2
<1>10. CASE ReadPointer
  <2>1. Reads
    BY <1>10, ReadsOnly DEF Reading
  <2>2. op.at = "pointer" /\ DOMAIN op = Fields
    BY <1>2, <1>10 DEF ReadPointer, On
  <2>3. op.do = "save"
    BY <2>1, <2>2 DEF Reads
  <2>4. PICK p \in Presets : op' = [op EXCEPT !.at = "create", !.label = p,
                                              !.sure = @ /\ p = unit.pre]
    BY <1>10, <2>3 DEF ReadPointer, Learn
  <2>5. op'.label = p /\ (op'.sure => p = unit.pre)
    BY <2>2, <2>4 DEF Fields
  <2> QED
    BY <1>10, <2>5
<1>11. CASE ApplyTrim
  BY <1>1, <1>2, <1>5, <1>11 DEF ApplyTrim, On
<1>12. ASSUME PutBack \/ ReadScene \/ SceneBack
       PROVE  FALSE
  BY <1>2, <1>12 DEF PutBack, ReadScene, SceneBack, GoOn, On, Fields
<1>13. CASE NextPreset
  BY <1>1, <1>2, <1>13 DEF NextPreset, On
<1>14. CASE RowsKnown
  BY <1>2, <1>14 DEF RowsKnown, GoOn, On, Fields
<1>15. ASSUME MeasureOnce \/ Scene \/ Raise
       PROVE  FALSE
  <2>1. op.at = "within" /\ DOMAIN op = Fields
    BY <1>2, <1>15 DEF MeasureOnce, Scene, Raise, On
  <2>2. CASE MeasureOnce
    BY <2>1, <2>2 DEF MeasureOnce, Fields
  <2>3. CASE Scene
    BY <2>1, <2>3 DEF Scene, Fields
  <2>4. CASE Raise
    BY <2>1, <2>4 DEF Raise, Fields
  <2> QED
    BY <1>15, <2>2, <2>3, <2>4
<1>16. CASE LevelStep
  BY <1>2, <1>16 DEF LevelStep, On, Fields
<1>17. ASSUME Left
       PROVE  FALSE
  <2>1. op.at \in {"within", "leave"} /\ DOMAIN op = Fields
    BY <1>2, <1>17 DEF Left
  <2>2. CASE op.do = "measure_many"
    BY <1>5, <1>17, <2>1, <2>2 DEF Left, Fields
  <2>3. CASE op.do = "measure_scenes"
    BY <1>5, <1>17, <2>1, <2>3 DEF Left, Fields
  <2>4. CASE op.do \notin {"measure_many", "measure_scenes"}
    BY <1>5, <1>17, <2>1, <2>4 DEF Left, Fields
  <2> QED
    BY <2>2, <2>3, <2>4
<1>18. CASE Pump \/ AddGain
  BY <1>18 DEF Pump, AddGain, loop
<1>19. CASE Do
  <2>1. op.at = "do" /\ \E w \in {"answer", "save take"} : GoOn(w)
    BY <1>19, Doing DEF GoOn
  <2> QED
    BY <1>1, <1>2, <2>1
<1> QED
  BY <1>3, <1>4, <1>6, <1>7, <1>8, <1>10, <1>11, <1>12, <1>13, <1>14, <1>15, <1>16, <1>17,
     <1>18, <1>19, Frames, Zenon DEF Main

\* Nothing moves the unit between the read of a save and its write.
LEMMA SaveKnowsKept ==
  ASSUME Shape, RouteInv, [Next]_vars
  PROVE  SaveKnows'
<1> SUFFICES ASSUME calm', op'.at = "create", op'.sure PROVE op'.label = unit'.pre
  BY DEF SaveKnows
<1>1. OpOK /\ Unasked /\ SaveKnows
  BY DEF Shape, RouteInv
<1>2. CASE ReadPointer /\ (op'.sure => op'.label = unit.pre)
  BY <1>2 DEF ReadPointer, leveling
<1>3. CASE op' = op
  <2>1. op.do = "save" /\ op.at = "create"
    BY <1>1, <1>3, Busy, Whereabouts
  <2>2. calm
    BY <1>1, <2>1, Frames DEF PlayerRecalls, TakeCommand
  <2>3. asked = <<>> /\ op.label = unit.pre
    BY <1>1, <1>3, <2>1, <2>2 DEF Unasked, SaveKnows
  <2>4. ~Land /\ ~PlayerRecalls
    BY <2>3 DEF Land, PlayerRecalls
  <2>5. unit'.pre = unit.pre
    BY <2>4, UnitMoves
  <2> QED
    BY <1>3, <2>3, <2>5
<1> QED
  BY <1>1, <1>2, <1>3, CreateBegins

\* A wiring that goes on keeps account of what it moved, until it has put it back.
LEMMA WireGoesOn ==
  ASSUME Shape, NEW t \in Threads, ~At(t, "off"), Wire(t), Threaded(t), ~lost, ~lost'
  PROVE  /\ ~At(t, "off")' => Wire(t)'
         /\ At(t, "off")' => Home'
<1>1. reamp[t] \in [at : Ways, feed : BOOLEAN, tap : BOOLEAN, in : Nat, out : Nat]
  BY ReampFields DEF Shape
<1>2. unit \in Units
  BY DEF Shape, UnitOK
<1>3. reamp \in [Threads -> Wirings]
  BY DEF Shape, ReampOK
<1>4. unit'.pre = unit.pre
  BY <1>2 DEF Units, Threaded, Wiring, ReadPorts, Feed, Tap, RestoreIn, RestoreOut, EndPlay
<1>5. PICK a, b : a = Own[unit.pre][1] /\ b = Own[unit.pre][2]
  OBVIOUS
<1>6. /\ ~At(t, "ports") => reamp[t].in = a /\ reamp[t].out = b
      /\ unit.in # a => reamp[t].at \in {"tap", "on", "restore in"} /\ reamp[t].feed
      /\ unit.out # b => reamp[t].at \in {"on", "restore in", "restore out"} /\ reamp[t].tap
  BY <1>5, Zenon DEF Wire
<1>7. SUFFICES ASSUME TRUE
               PROVE  /\ ~At(t, "off")' =>
                           /\ ~At(t, "ports")' => reamp'[t].in = a /\ reamp'[t].out = b
                           /\ unit'.in # a => reamp'[t].at \in {"tap", "on", "restore in"} /\ reamp'[t].feed
                           /\ unit'.out # b => reamp'[t].at \in {"on", "restore in", "restore out"}
                                               /\ reamp'[t].tap
                      /\ At(t, "off")' => unit'.in = a /\ unit'.out = b
  BY <1>4, <1>5, <1>7, Zenon DEF Wire, Home
<1>8. ASSUME NEW w, Go(t, w)
      PROVE  /\ reamp'[t].at = w /\ reamp'[t].in = reamp[t].in /\ reamp'[t].out = reamp[t].out
             /\ (reamp'[t].feed <=> reamp[t].feed) /\ (reamp'[t].tap <=> reamp[t].tap)
  BY <1>1, <1>3, <1>8 DEF Go
<1>9. CASE ReadPorts(t)
  <2>1. At(t, "ports") /\ unit' = unit
    BY <1>9 DEF ReadPorts
  <2>2. unit.in = a /\ unit.out = b
    BY <1>6, <2>1 DEF At
  <2>3. CASE Go(t, "off")
    BY <1>8, <2>1, <2>2, <2>3 DEF At
  <2>4. CASE reamp' = [reamp EXCEPT ![t].at = "feed", ![t].in = unit.in, ![t].out = unit.out]
    <3>1. reamp'[t].in = unit.in /\ reamp'[t].out = unit.out /\ reamp'[t].at = "feed"
      BY <1>1, <1>3, <2>4
    <3> QED
      BY <2>1, <2>2, <3>1 DEF At
  <2> QED
    BY <1>9, <2>3, <2>4 DEF ReadPorts
<1>10. CASE Feed(t)
  <2>1. At(t, "feed") /\ unit.in = a /\ unit.out = b /\ reamp[t].in = a /\ reamp[t].out = b
    BY <1>6, <1>10 DEF Feed, At
  <2>2. CASE unit' = [unit EXCEPT !.in = IF reamp[t].feed THEN Usb ELSE @] /\ Go(t, "tap")
    <3>1. unit'.out = b /\ (~reamp[t].feed => unit'.in = a)
      BY <1>2, <2>1, <2>2 DEF Units
    <3>2. /\ reamp'[t].at = "tap" /\ reamp'[t].in = reamp[t].in /\ reamp'[t].out = reamp[t].out
          /\ (reamp'[t].feed <=> reamp[t].feed) /\ (reamp'[t].tap <=> reamp[t].tap)
      BY <1>8, <2>2, Zenon
    <3> QED
      BY <2>1, <3>1, <3>2 DEF At
  <2>3. CASE UNCHANGED unit /\ Go(t, "restore in")
    BY <1>8, <2>1, <2>3 DEF At
  <2> QED
    BY <1>10, <2>2, <2>3 DEF Feed
<1>11. CASE Tap(t)
  <2>1. At(t, "tap") /\ unit.out = b /\ reamp[t].in = a /\ reamp[t].out = b
    BY <1>6, <1>11 DEF Tap, At
  <2>2. Go(t, "on") \/ Go(t, "restore in")
    BY <1>11, Zenon DEF Tap
  <2>3. /\ unit'.in = unit.in
        /\ unit'.out # b => reamp[t].tap
    BY <1>2, <1>11, <2>1 DEF Tap, Units
  <2>4. PICK w \in {"on", "restore in"} : Go(t, w)
    BY <2>2, Zenon
  <2>5. /\ reamp'[t].at = w /\ reamp'[t].in = reamp[t].in /\ reamp'[t].out = reamp[t].out
        /\ (reamp'[t].feed <=> reamp[t].feed) /\ (reamp'[t].tap <=> reamp[t].tap)
    BY <1>8, <2>4, Zenon
  <2> QED
    BY <1>6, <2>1, <2>3, <2>5 DEF At
<1>12. CASE RestoreIn(t)
  <2>1. At(t, "restore in") /\ reamp[t].in = a /\ reamp[t].out = b
    BY <1>6, <1>12 DEF RestoreIn, At
  <2>2. unit' = [unit EXCEPT !.in = IF reamp[t].feed THEN reamp[t].in ELSE @] /\ Go(t, "restore out")
    BY <1>12 DEF RestoreIn
  <2>3. unit'.in = a /\ unit'.out = unit.out
    BY <1>2, <1>6, <2>1, <2>2 DEF Units
  <2>4. /\ reamp'[t].at = "restore out" /\ reamp'[t].in = reamp[t].in /\ reamp'[t].out = reamp[t].out
        /\ (reamp'[t].feed <=> reamp[t].feed) /\ (reamp'[t].tap <=> reamp[t].tap)
    BY <1>8, <2>2, Zenon
  <2> QED
    BY <1>6, <2>1, <2>3, <2>4 DEF At
<1>13. CASE RestoreOut(t)
  <2>1. At(t, "restore out") /\ reamp[t].out = b /\ unit.in = a
    BY <1>6, <1>13 DEF RestoreOut, At
  <2>2. unit' = [unit EXCEPT !.out = IF reamp[t].tap THEN reamp[t].out ELSE @] /\ Go(t, "off")
    BY <1>13 DEF RestoreOut
  <2>3. unit'.in = a /\ unit'.out = b
    BY <1>2, <1>6, <2>1, <2>2 DEF Units
  <2>4. /\ reamp'[t].at = "off" /\ reamp'[t].in = reamp[t].in /\ reamp'[t].out = reamp[t].out
        /\ (reamp'[t].feed <=> reamp[t].feed) /\ (reamp'[t].tap <=> reamp[t].tap)
    BY <1>8, <2>2, Zenon
  <2> QED
    BY <2>3, <2>4 DEF At
<1>14. CASE EndPlay(t)
  <2>1. At(t, "on") /\ Go(t, "restore in") /\ unit' = unit
    BY <1>14 DEF EndPlay
  <2>2. /\ reamp'[t].at = "restore in" /\ reamp'[t].in = reamp[t].in /\ reamp'[t].out = reamp[t].out
        /\ (reamp'[t].feed <=> reamp[t].feed) /\ (reamp'[t].tap <=> reamp[t].tap)
    BY <1>8, <2>1, Zenon
  <2> QED
    BY <1>6, <2>1, <2>2 DEF At
<1> QED
  BY <1>9, <1>10, <1>11, <1>12, <1>13, <1>14 DEF Threaded, Wiring

\* Other steps do not touch the ports; they may end a measurement.
LEMMA OthersStayWired ==
  ASSUME Shape, [Next]_vars, ~Land, ~PlayerRecalls, ~BeginPlay, ~With,
         \A t \in Threads : ~Threaded(t)
  PROVE  /\ unit'.pre = unit.pre /\ unit'.in = unit.in /\ unit'.out = unit.out
         /\ \A t \in Threads : ~At(t, "off") /\ Wire(t) => ~At(t, "off")' /\ Wire(t)'
         /\ \A t \in Threads : At(t, "off") => At(t, "off")'
<1>1. unit'.pre = unit.pre /\ unit'.in = unit.in /\ unit'.out = unit.out
  BY UnitMoves
<1>2. reamp \in [Threads -> Wirings] /\ OpOK /\ Loop \in Threads
  BY LevelAssumption, Zenon DEF Shape, ReampOK, LevelAssumption
<1>3. ASSUME NEW t \in Threads, ~At(t, "off"), Wire(t),
             \/ reamp'[t] = reamp[t]
             \/ At(t, "on") /\ reamp'[t] = [reamp[t] EXCEPT !.at = "restore in"]
      PROVE  ~At(t, "off")' /\ Wire(t)'
  <2>1. reamp[t] \in [at : Ways, feed : BOOLEAN, tap : BOOLEAN, in : Nat, out : Nat]
    BY <1>3, ReampFields DEF Shape
  <2>2. CASE reamp'[t] = reamp[t]
    <3>1. PICK a, b : a = Own[unit.pre][1] /\ b = Own[unit.pre][2]
      OBVIOUS
    <3>2. a = Own[unit'.pre][1] /\ b = Own[unit'.pre][2]
      BY <1>1, <3>1, Zenon
    <3>3. reamp[t].at # "off"
      BY <1>3 DEF At
    <3>4. /\ reamp[t].at # "ports" => reamp[t].in = a /\ reamp[t].out = b
          /\ unit.in # a => reamp[t].at \in {"tap", "on", "restore in"} /\ reamp[t].feed
          /\ unit.out # b => reamp[t].at \in {"on", "restore in", "restore out"} /\ reamp[t].tap
      BY <1>3, <3>1, Zenon DEF Wire, At
    <3>5. /\ reamp'[t].at # "off"
          /\ reamp'[t].at # "ports" => reamp'[t].in = a /\ reamp'[t].out = b
          /\ unit'.in # a => reamp'[t].at \in {"tap", "on", "restore in"} /\ reamp'[t].feed
          /\ unit'.out # b => reamp'[t].at \in {"on", "restore in", "restore out"} /\ reamp'[t].tap
      <4>1. reamp'[t].at # "off" /\ (reamp'[t].at # "ports" => reamp'[t].in = a /\ reamp'[t].out = b)
        <5>1. reamp[t].at # "ports" => reamp[t].in = a /\ reamp[t].out = b
          BY <3>4, Zenon
        <5> QED
          BY <2>2, <3>3, <5>1
      <4>2. unit'.in # a => reamp'[t].at \in {"tap", "on", "restore in"} /\ reamp'[t].feed
        <5> SUFFICES ASSUME unit'.in # a PROVE reamp'[t].at \in {"tap", "on", "restore in"} /\ reamp'[t].feed
          OBVIOUS
        <5>1. unit.in # a
          BY <1>1, Zenon
        <5> QED
          BY <2>2, <3>4, <5>1, Zenon
      <4>3. unit'.out # b => reamp'[t].at \in {"on", "restore in", "restore out"} /\ reamp'[t].tap
        <5> SUFFICES ASSUME unit'.out # b
                     PROVE  reamp'[t].at \in {"on", "restore in", "restore out"} /\ reamp'[t].tap
          OBVIOUS
        <5>1. unit.out # b
          BY <1>1, Zenon
        <5> QED
          BY <2>2, <3>4, <5>1, Zenon
      <4> QED
        BY <4>1, <4>2, <4>3, Zenon
    <3> QED
      BY <3>2, <3>5, Zenon DEF At, Wire
  <2>3. CASE At(t, "on") /\ reamp'[t] = [reamp[t] EXCEPT !.at = "restore in"]
    <3>1. /\ reamp'[t].at = "restore in" /\ reamp'[t].in = reamp[t].in /\ reamp'[t].out = reamp[t].out
          /\ (reamp'[t].feed <=> reamp[t].feed) /\ (reamp'[t].tap <=> reamp[t].tap)
      BY <2>1, <2>3
    <3>2. PICK a, b : a = Own[unit.pre][1] /\ b = Own[unit.pre][2]
      OBVIOUS
    <3>3. /\ reamp[t].in = a /\ reamp[t].out = b
          /\ unit.in # a => reamp[t].feed
          /\ unit.out # b => reamp[t].tap
      BY <1>3, <2>3, <3>2 DEF Wire, At
    <3>4. /\ reamp'[t].in = a /\ reamp'[t].out = b
          /\ unit'.in # a => reamp'[t].at \in {"tap", "on", "restore in"} /\ reamp'[t].feed
          /\ unit'.out # b => reamp'[t].at \in {"on", "restore in", "restore out"} /\ reamp'[t].tap
      BY <1>1, <3>1, <3>3
    <3>5. a = Own[unit'.pre][1] /\ b = Own[unit'.pre][2]
      BY <1>1, <3>2, Zenon
    <3> QED
      BY <3>1, <3>4, <3>5 DEF At, Wire
  <2> QED
    BY <1>3, <2>2, <2>3
<1>4. \A t \in Threads : \/ reamp'[t] = reamp[t]
                         \/ At(t, "on") /\ reamp'[t] = [reamp[t] EXCEPT !.at = "restore in"]
  <2>1. CASE UNCHANGED reamp
    BY <2>1
  <2>2. CASE At(Loop, "on") /\ Go(Loop, "restore in")
    BY <1>2, <2>2 DEF Go
  <2>3. CASE reamp' = [t \in Threads |-> IF t \in Players /\ At(t, "on")
                                         THEN [reamp[t] EXCEPT !.at = "restore in"] ELSE reamp[t]]
    BY <2>3
  <2>4. MeasureOnce \/ LastScene \/ Raise \/ LevelStep =>
          UNCHANGED reamp \/ (At(Loop, "on") /\ Go(Loop, "restore in"))
    BY Zenon
    DEF MeasureOnce, LastScene, Raise, LevelStep, Leveling, First, WriteTrim, Again, BackOff,
       LeaveRun
  <2>5. Do => \/ UNCHANGED reamp
              \/ reamp' = [t \in Threads |-> IF t \in Players /\ At(t, "on")
                                             THEN [reamp[t] EXCEPT !.at = "restore in"] ELSE reamp[t]]
    BY <1>2, Doing, Zenon
  <2>6. UNCHANGED reamp \/ Do \/ MeasureOnce \/ LastScene \/ Raise \/ LevelStep
    BY <1>2, Frames, Zenon
  <2> QED
    BY <2>1, <2>2, <2>3, <2>4, <2>5, <2>6
<1>5. \A t \in Threads : At(t, "off") => At(t, "off")'
  BY <1>4 DEF At
<1> QED
  BY <1>1, <1>3, <1>4, <1>5, Zenon

\* Whoever is wired has kept the ports that the preset had, and puts back the ones
\* it changed.
LEMMA WiresKept ==
  ASSUME Shape, RouteInv, [Next]_vars
  PROVE  Wires'
<1> SUFFICES ASSUME ~crossed', ~lost'
             PROVE  /\ \A t \in Threads : ~At(t, "off")' => Wire(t)'
                    /\ ~Wired' => Home'
                    /\ SlotsHome'
  BY DEF Wires
<1>1. OpOK /\ AloneAtTheUnit /\ LoopWired /\ Loop \in Threads
  BY LevelAssumption, Zenon DEF Shape, RouteInv, LevelAssumption
<1>2. ~crossed
  BY <1>1, Frames DEF Land, PlayerRecalls, TakeCommand, Create
<1>3. ~lost
  <2>1. ASSUME NEW t \in Threads, Threaded(t) PROVE lost' = lost \/ lost'
    BY <2>1 DEF Threaded, Wiring, ReadPorts, Feed, Tap, RestoreIn, RestoreOut, EndPlay
  <2> QED
    BY <1>1, <2>1, Frames
<1>4. /\ \A t \in Threads : ~At(t, "off") => Wire(t)
      /\ ~Wired => Home
      /\ SlotsHome
  BY <1>2, <1>3, Zenon DEF RouteInv, Wires
<1>5. \A t, u \in Threads : ~At(t, "off") /\ ~At(u, "off") => t = u
  BY <1>1, <1>2 DEF AloneAtTheUnit
<1>6. SlotsHome'
  <2>1. CASE Create
    <3>1. op.at = "create" /\ op.do = "save" /\ op.label \in Presets
      BY <1>1, <2>1, Busy, Whereabouts DEF Create, On, Underway
    <3>2. calm /\ op.sure
      BY <2>1 DEF Create
    <3>3. op.label = unit.pre
      BY <3>1, <3>2 DEF RouteInv, SaveKnows
    <3>4. \A t \in Threads : At(t, "off")
      BY <1>1, <1>2, <3>1, AllOff DEF Harmless
    <3>5. Home
      BY <1>4, <3>4 DEF Wired
    <3>6. saved' = [saved EXCEPT ![op.label] = [name |-> unit.name, in |-> unit.in,
                                               out |-> unit.out, db |-> unit.db,
                                               scened |-> unit.scened, gain |-> unit.gain]]
      BY <2>1 DEF Create
    <3>7. saved \in [Presets -> Kept]
      BY DEF Shape, SavedOK
    <3>8. saved'[op.label].in = unit.in /\ saved'[op.label].out = unit.out
      BY <3>1, <3>6, <3>7
    <3>9. \A p \in Presets : p # op.label => saved'[p] = saved[p]
      BY <3>6, <3>7
    <3>10. ASSUME NEW p \in Presets
           PROVE  saved'[p].in = Own[p][1] /\ saved'[p].out = Own[p][2]
      <4>1. CASE p = op.label
        BY <3>3, <3>5, <3>8, <4>1, Zenon DEF Home
      <4>2. CASE p # op.label
        BY <1>4, <3>9, <4>2, Zenon DEF SlotsHome
      <4> QED
        BY <4>1, <4>2
    <3> QED
      BY <3>10, Zenon DEF SlotsHome
  <2>2. CASE UNCHANGED saved
    BY <1>4, <2>2, Zenon DEF SlotsHome
  <2> QED
    BY <1>1, <2>1, <2>2, Frames
<1>7. CASE Land \/ PlayerRecalls
  <2>1. PICK p \in Presets : unit' = Loaded(p, saved[p])
    <3>1. asked # <<>> => Head(asked) \in Presets
      BY Queueing, Zenon DEF Shape, Traffic
    <3> QED
      BY <1>7, <3>1, Zenon DEF Land, PlayerRecalls
  <2>2. unit'.pre = p /\ unit'.in = saved[p].in /\ unit'.out = saved[p].out
    BY <2>1 DEF Loaded
  <2>3. ~Wired
    BY <1>7 DEF Land, PlayerRecalls
  <2>4. UNCHANGED reamp
    BY <1>7 DEF Land, PlayerRecalls
  <2>5. \A t \in Threads : At(t, "off")'
    BY <2>3, <2>4 DEF Wired, At
  <2>6. Home'
    BY <1>4, <2>2, Zenon DEF SlotsHome, Home
  <2> QED
    BY <1>6, <2>5, <2>6
<1>8. CASE BeginPlay \/ With
  <2>1. op.at \in {"rows", "with"} /\ op.do \in Measuring \cup {"play"}
    BY <1>1, <1>8, Busy, Whereabouts DEF BeginPlay, With, On, Measuring
  <2>2. \A t \in Threads : At(t, "off")
    BY <1>1, <1>2, <2>1, AllOff DEF Harmless, Measuring
  <2>3. Home
    BY <1>4, <2>2 DEF Wired
  <2>4. UNCHANGED unit
    BY <1>8 DEF BeginPlay, With
  <2>5. Home'
    BY <2>3, <2>4, Zenon DEF Home
  <2>6. PICK t \in Threads : Enter(t, TRUE, FALSE) \/ Enter(t, TRUE, TRUE)
    BY <1>1, <1>8, Zenon DEF BeginPlay, With, Players
  <2>7. reamp \in [Threads -> Wirings]
    BY DEF Shape, ReampOK
  <2>8. \A u \in Threads : At(u, "off")' \/ At(u, "ports")'
    BY <2>2, <2>6, <2>7 DEF Enter, At
  <2>9. \A u \in Threads : At(u, "ports")' => Wire(u)'
    BY <2>5, Zenon DEF Wire, Home
  <2> QED
    BY <1>6, <2>5, <2>8, <2>9
<1>9. ASSUME NEW t \in Threads, Threaded(t), ~Land, ~PlayerRecalls, ~BeginPlay, ~With
      PROVE  (\A u \in Threads : ~At(u, "off")' => Wire(u)') /\ (~Wired' => Home')
  <2>1. ~At(t, "off")
    BY <1>9 DEF Threaded, Wiring, ReadPorts, Feed, Tap, RestoreIn, RestoreOut, EndPlay, At
  <2>2. \A u \in Threads \ {t} : At(u, "off")
    BY <1>5, <2>1
  <2>3. \A u \in Threads \ {t} : At(u, "off")'
    BY <1>9, <2>2, WiringMoves
  <2>4. Wire(t)
    BY <1>4, <2>1
  <2>5. (~At(t, "off")' => Wire(t)') /\ (At(t, "off")' => Home')
    BY <1>3, <1>9, <2>1, <2>4, WireGoesOn
  <2> QED
    BY <2>3, <2>5 DEF Wired
<1>10. CASE /\ ~Land /\ ~PlayerRecalls /\ ~BeginPlay /\ ~With
            /\ \A t \in Threads : ~Threaded(t)
  <2>1. /\ unit'.pre = unit.pre /\ unit'.in = unit.in /\ unit'.out = unit.out
        /\ \A t \in Threads : ~At(t, "off") /\ Wire(t) => ~At(t, "off")' /\ Wire(t)'
        /\ \A t \in Threads : At(t, "off") => At(t, "off")'
    BY <1>10, OthersStayWired
  <2>2. \A t \in Threads : ~At(t, "off")' => Wire(t)'
    BY <1>4, <2>1
  <2>3. ~Wired' => ~Wired
    BY <1>4, <2>1 DEF Wired
  <2>4. Home => Home'
    BY <2>1, Zenon DEF Home
  <2> QED
    BY <1>4, <1>6, <2>2, <2>3, <2>4
<1> QED
  BY <1>6, <1>7, <1>8, <1>9, <1>10

\* Nobody is wired when the bench starts.
LEMMA InitRoute == Init => RouteInv
<1> SUFFICES ASSUME Init PROVE RouteInv
  OBVIOUS
<1>1. \A t \in Threads : At(t, "off")
  <2>1. reamp = [t \in Threads |-> Off]
    BY Zenon DEF Init, LevelInit
  <2>2. Off.at = "off"
    BY DEF Off
  <2> QED
    BY <2>1, <2>2, Zenon DEF At
<1>2. Home /\ SlotsHome
  <2>1. PICK p \in Presets : unit = Loaded(p, AsMade(p))
    BY DEF Init, LevelInit
  <2>2. unit.pre = p /\ unit.in = Own[p][1] /\ unit.out = Own[p][2]
    BY <2>1 DEF Loaded, AsMade
  <2>3. SlotsHome
    BY DEF Init, SlotsHome, AsMade
  <2> QED
    BY <2>2, <2>3 DEF Home
<1>3. op.do = "none" /\ op.at = "idle"
  BY DEF Init, NoOp
<1>4. Loop \in Threads
  BY LevelAssumption, Zenon DEF LevelAssumption
<1>5. AloneAtTheUnit
  BY <1>1, <1>3 DEF AloneAtTheUnit
<1>6. LoopWired
  BY <1>1, <1>4 DEF LoopWired
<1>7. Wires
  BY <1>1, <1>2 DEF Wires
<1>8. Unasked /\ SaveKnows
  BY <1>3 DEF Unasked, SaveKnows
<1> QED
  BY <1>5, <1>6, <1>7, <1>8 DEF RouteInv

\* Every step keeps all parts of it.
LEMMA StepRoute == Shape /\ RouteInv /\ [Next]_vars => RouteInv'
<1> SUFFICES ASSUME Shape, RouteInv, [Next]_vars PROVE RouteInv'
  OBVIOUS
<1> QED
  BY AloneKept, LoopWiredKept, WiresKept, UnaskedKept, SaveKnowsKept, Zenon DEF RouteInv

\* So both hold together.
LEMMA RouteHolds == Spec => [](Shape /\ RouteInv)
<1>1. Init => Shape /\ RouteInv
  BY InitShape, InitRoute
<1>2. Shape /\ RouteInv /\ [Next]_vars => (Shape /\ RouteInv)'
  BY StepShape, StepRoute
<1> QED
  BY <1>1, <1>2, PTL DEF Spec

\* Whatever is measured, leveled, played, saved or recalled, in any order, and
\* whatever fails or raises: once nothing is under way, the preset and every
\* slot have their own ports, unless a restoring itself failed, two wirings met,
\* or somebody at the unit crossed one or a save.
THEOREM RoutingIsRestored == Spec => []RoutingRestored
<1>1. Shape /\ RouteInv => RoutingRestored
  <2> SUFFICES ASSUME Shape, RouteInv, Idle, ~crossed, ~lost
               PROVE  /\ <<unit.in, unit.out>> = Own[unit.pre]
                      /\ \A p \in Presets : <<saved[p].in, saved[p].out>> = Own[p]
    BY Zenon DEF RoutingRestored
  <2>1. Home /\ SlotsHome
    BY DEF RouteInv, Wires, Idle
  <2>2. \A p \in Presets : Own[p] = <<Own[p][1], Own[p][2]>>
    <3>1. Own \in [Presets -> (Nat \ {Usb}) \X (Nat \ {Usb})]
      BY LevelAssumption, Zenon DEF LevelAssumption
    <3> QED
      BY <3>1
  <2>3. unit.pre \in Presets
    BY DEF Shape, UnitOK, Units
  <2> QED
    BY <2>1, <2>2, <2>3, Zenon DEF Home, SlotsHome
<1> QED
  BY <1>1, RouteHolds, PTL

-----------------------------------------------------------------------------
(* Which step goes on *)

\* Where a command is tells what the loop can do next.
LEMMA Doers ==
  ASSUME Main
  PROVE  /\ op.at = "idle" => TakeCommand \/ Pump
         /\ op.at = "answer" => Answer
         /\ op.at = "drain" => Drain
         /\ op.at = "recall" => Recall \/ NoAnswer
         /\ op.at = "listen" => Listen \/ GiveUp
         /\ op.at = "landed" => Landed \/ NoAnswer
         /\ op.at = "grid" => ReadGrid \/ NoAnswer
         /\ op.at = "pointer" => ReadPointer \/ NoAnswer
         /\ op.at = "active" => ReadActive
         /\ op.at = "put back" => PutBack \/ NoAnswer
         /\ op.at = "rows" => RowsKnown \/ BeginPlay \/ NoAnswer
         /\ op.at = "trim" => ApplyTrim \/ RememberFader
         /\ op.at = "next" => NextPreset
         /\ op.at = "scene" => ReadScene
         /\ op.at = "scene back" => SceneBack
         /\ op.at = "with" => With
         /\ op.at = "within" => MeasureOnce \/ AddGain \/ Scene \/ LastScene \/ Raise \/ LevelStep \/ Left
         /\ op.at = "leave" => Left
<1>1. /\ TakeCommand \/ Pump => op.at = "idle"
      /\ Answer => op.at = "answer"
      /\ Drain => op.at = "drain"
      /\ Recall => op.at = "recall"
      /\ Listen \/ GiveUp => op.at = "listen"
      /\ Landed => op.at = "landed"
      /\ ReadGrid => op.at = "grid"
      /\ ReadPointer => op.at = "pointer"
      /\ ReadActive => op.at = "active"
      /\ NoAnswer => op.at \in {"grid", "pointer", "landed", "rows", "create", "put back", "do", "recall"}
  BY
  DEF TakeCommand, Pump, Answer, Drain, Recall, Listen, GiveUp, Landed, ReadGrid, ReadPointer,
         ReadActive, NoAnswer, On
<1>2. /\ Do => op.at = "do"
      /\ Keep => op.at = "save take"
      /\ Create => op.at = "create"
      /\ ApplyTrim \/ RememberFader => op.at = "trim"
      /\ PutBack => op.at = "put back"
      /\ NextPreset => op.at = "next"
      /\ RowsKnown \/ BeginPlay => op.at = "rows"
      /\ ReadScene => op.at = "scene"
      /\ With => op.at = "with"
  BY DEF Do, Keep, Create, ApplyTrim, RememberFader, PutBack, NextPreset, RowsKnown, BeginPlay,
         ReadScene, With, On
<1>3. /\ MeasureOnce \/ AddGain \/ Scene \/ LastScene \/ Raise \/ LevelStep => op.at = "within"
      /\ SceneBack => op.at = "scene back"
      /\ Left => op.at \in {"within", "leave"}
  BY DEF MeasureOnce, AddGain, Scene, LastScene, Raise, LevelStep, SceneBack, Left, On
<1> QED
  BY <1>1, <1>2, <1>3 DEF Main

\* What the loop does not do leaves the command alone, and the preset but for its
\* ports, unless a recall is done.
LEMMA Aside ==
  ASSUME Shape, [Next]_vars, ~Main
  PROVE  /\ UNCHANGED <<op, run, applied, was, saved>>
         /\ calm' => (calm /\ ~PlayerRecalls)
         /\ \/ Land \/ PlayerRecalls
            \/ /\ unit'.pre = unit.pre /\ unit'.db = unit.db /\ unit'.scene = unit.scene
               /\ unit'.gain = unit.gain /\ unit'.name = unit.name /\ unit'.scened = unit.scened
         /\ UNCHANGED asked \/ Land
         /\ UNCHANGED coming \/ Land \/ Announce \/ PlayerRecalls
         /\ UNCHANGED told \/ Announce
<1>1. OpOK
  BY DEF Shape
<1>2. PlayerRecalls => calm' = FALSE
  BY DEF PlayerRecalls
<1>3. /\ UNCHANGED <<run, applied, was, saved>>
      /\ UNCHANGED calm \/ PlayerRecalls
      /\ UNCHANGED asked \/ Land
      /\ UNCHANGED coming \/ Land \/ Announce \/ PlayerRecalls
      /\ UNCHANGED told \/ Announce
      /\ UNCHANGED op
  BY <1>1, Frames DEF Main
<1>4. \/ Land \/ PlayerRecalls
      \/ /\ unit'.pre = unit.pre /\ unit'.db = unit.db /\ unit'.scene = unit.scene
         /\ unit'.gain = unit.gain /\ unit'.name = unit.name /\ unit'.scened = unit.scened
  BY UnitMoves DEF Main
<1> QED
  BY <1>2, <1>3, <1>4

\* Nor does anything else move the preset once the unit is at rest.
LEMMA AsideAtRest ==
  ASSUME Shape, [Next]_vars, ~Main, asked = <<>>, calm'
  PROVE  /\ unit'.pre = unit.pre /\ unit'.db = unit.db /\ unit'.scene = unit.scene
         /\ unit'.gain = unit.gain /\ unit'.name = unit.name /\ unit'.scened = unit.scened
         /\ UNCHANGED Db /\ asked' = <<>> /\ calm
<1>1. ~Land
  BY DEF Land
<1>2. /\ unit'.pre = unit.pre /\ unit'.db = unit.db /\ unit'.scene = unit.scene
      /\ unit'.gain = unit.gain /\ unit'.name = unit.name /\ unit'.scened = unit.scened
      /\ asked' = <<>> /\ calm
  BY <1>1, Aside
<1> QED
  BY <1>2 DEF Db

\* Once calm, a command was so before.
LEMMA CalmBefore ==
  ASSUME Shape, [Next]_vars, calm', ~TakeCommand
  PROVE  calm
<1>1. OpOK
  BY DEF Shape
<1>2. PlayerRecalls => calm' = FALSE
  BY DEF PlayerRecalls
<1> QED
  BY <1>1, <1>2, Frames

\* A step of the loop that neither takes a command nor answers goes on with it.
LEMMA Going ==
  ASSUME OpOK, [Next]_vars, Main, ~TakeCommand, op'.do # "none"
  PROVE  Stays /\ DOMAIN op = Fields /\ op.at \notin {"idle", "answer"}
<1>1. op.at # "answer"
  <2>1. ~Answer
    BY DEF Answer, NoOp
  <2> QED
    BY <2>1, Doers
<1>2. op.at # "idle"
  <2>1. SUFFICES ASSUME op.at = "idle" PROVE FALSE
    OBVIOUS
  <2>2. op' = op
    BY <2>1, Doers DEF Pump, loop
  <2>3. "idle" \notin Stages(op.do)
    BY DEF Stages, InOpen
  <2>4. op = NoOp
    BY <2>1, <2>3 DEF OpOK, Underway
  <2> QED
    BY <2>2, <2>4 DEF NoOp
<1>3. Underway /\ DOMAIN op = Fields
  BY <1>2, Busy DEF Underway
<1>4. UNCHANGED op \/ Stays
  BY <1>1, <1>2, CommandStays DEF TakeCommand, Answer
<1> QED
  BY <1>1, <1>2, <1>3, <1>4 DEF Stays

-----------------------------------------------------------------------------
(* Opening *)

\* The recall of w is on its way: asked for, done, or told.
Trip(w) ==
  /\ asked \in {<<>>, <<w>>} /\ coming \in {<<>>, <<w>>} /\ told \in {<<>>, <<w>>}
  /\ asked # <<>> => coming = <<>> /\ told = <<>>
  /\ coming # <<>> => told = <<>>
  /\ asked = <<>> => unit.pre = w

\* What opens a preset and drained with nothing older on its way is followed by
\* its own recall alone, and goes on once that is done; a column knows then what
\* there is.
Opened(w) ==
  /\ op.at = "recall" => asked = <<>> /\ coming = <<>> /\ told = <<>>
  /\ op.at \in {"listen", "landed"} => Trip(w)
  /\ op.at \in {"landed", "grid", "pointer", "active", "trim"} => asked = <<>>
Shown(w) ==
  /\ op.at \in {"grid", "pointer", "active"} => unit.pre = w
  /\ op.at \in {"landed", "pointer", "active"} => op.got = w
  /\ op.at = "active" => op.label = w
  /\ op.at = "answer" /\ ~op.error => op.got = w /\ (op.arg.cloud \/ op.label = w)
OpenInv ==
  /\ op.do \in {"open", "apply_trim"} /\ op.sure /\ calm => Opened(Wanted)
  /\ op.do = "open" /\ op.sure /\ calm => Shown(Wanted)

\* A queue of one.
LEMMA Single ==
  ASSUME NEW w
  PROVE  /\ <<w>> # <<>> /\ Append(<<>>, w) = <<w>> /\ Head(<<w>>) = w /\ Tail(<<w>>) = <<>>
         /\ <<w>>[Len(<<w>>)] = w
  OBVIOUS

\* The unit and its announcements take the recall on its way.
LEMMA TripGoesOn ==
  ASSUME Shape, [Next]_vars, ~Main, calm', NEW w, Trip(w)
  PROVE  Trip(w)' /\ (asked = <<>> => asked' = <<>>)
<1>1. CASE Land
  <2>1. asked = <<w>> /\ coming = <<>> /\ told = <<>>
    BY <1>1 DEF Land, Trip
  <2>2. asked' = <<>> /\ coming' = <<w>> /\ told' = <<>>
    BY <1>1, <2>1, Single DEF Land
  <2>3. unit'.pre = w
    BY <1>1, <2>1, Single DEF Land, Loaded
  <2> QED
    BY <2>1, <2>2, <2>3, Single DEF Trip
<1>2. CASE Announce
  <2>1. coming = <<w>> /\ told = <<>> /\ asked = <<>> /\ unit.pre = w
    BY <1>2 DEF Announce, Trip
  <2>2. asked' = <<>> /\ coming' = <<>> /\ told' = <<w>>
    BY <1>2, <2>1, Single DEF Announce, device
  <2>3. unit'.pre = w
    BY <1>2, <2>1 DEF Announce, leveling
  <2> QED
    BY <2>2, <2>3 DEF Trip
<1>3. CASE ~Land /\ ~Announce
  <2>1. unit'.pre = unit.pre /\ asked' = asked /\ coming' = coming /\ told' = told
    BY <1>3, Aside
  <2> QED
    BY <2>1 DEF Trip
<1>4. asked = <<>> => ~Land
  BY DEF Land
<1> QED
  BY <1>1, <1>2, <1>3, <1>4, Aside

\* What the unit does meanwhile keeps to it.
LEMMA OpenStays ==
  ASSUME Shape, OpenInv, [Next]_vars, ~Main
  PROVE  OpenInv'
<1>1. op' = op /\ (calm' => calm /\ ~PlayerRecalls)
  BY Aside
<1>2. PICK w : w = Wanted
  OBVIOUS
<1>3. Wanted' = w
  BY <1>1, <1>2 DEF Wanted, Address
<1>4. ASSUME op.do \in {"open", "apply_trim"}, op.sure, calm'
      PROVE  Opened(w)'
  <2>1. Opened(w)
    BY <1>1, <1>2, <1>4 DEF OpenInv
  <2>2. op.at = "recall" => asked' = <<>> /\ coming' = <<>> /\ told' = <<>>
    <3>1. op.at = "recall" => ~Land /\ ~Announce
      BY <2>1 DEF Opened, Land, Announce
    <3> QED
      BY <1>1, <1>4, <2>1, <3>1, Aside DEF Opened
  <2>3. op.at \in {"listen", "landed"} => Trip(w)'
    BY <1>4, <2>1, TripGoesOn DEF Opened
  <2>4. op.at \in {"landed", "grid", "pointer", "active", "trim"} => asked' = <<>>
    BY <1>4, <2>1, AsideAtRest DEF Opened
  <2> QED
    BY <1>1, <2>2, <2>3, <2>4 DEF Opened
<1>5. ASSUME op.do = "open", op.sure, calm'
      PROVE  Shown(w)'
  <2>1. Opened(w) /\ Shown(w)
    BY <1>1, <1>2, <1>5 DEF OpenInv
  <2>2. op.at \in {"grid", "pointer", "active"} => unit'.pre = w
    BY <1>5, <2>1, AsideAtRest DEF Opened, Shown
  <2> QED
    BY <1>1, <2>1, <2>2 DEF Shown
<1>6. /\ op'.do \in {"open", "apply_trim"} /\ op'.sure /\ calm' => Opened(Wanted)'
      /\ op'.do = "open" /\ op'.sure /\ calm' => Shown(Wanted)'
  BY <1>1, <1>3, <1>4, <1>5 DEF Opened, Shown, Trip
<1> QED
  BY <1>6 DEF OpenInv

\* Every step of an opening keeps to its own recall.
LEMMA OpenKept ==
  ASSUME Shape, OpenInv, [Next]_vars
  PROVE  OpenInv'
<1>1. OpOK
  BY DEF Shape
<1>2. CASE ~Main
  BY <1>2, OpenStays
<1>3. CASE TakeCommand
  <2>1. PICK c : c = Head(inbox)
    OBVIOUS
  <2>2. op' = [Started(c) EXCEPT !.at = Begins(c)] /\ calm' = (asked = <<>>) /\ asked' = asked
    BY <1>3, <2>1 DEF TakeCommand, device
  <2>3. op'.at = Begins(c) /\ op'.do = c.do
    BY <2>2 DEF Started
  <2>4. c.do \in {"open", "apply_trim"} => Begins(c) \in {"drain", "grid"}
    BY DEF Begins
  <2>5. c.do = "open" => Begins(c) = "drain"
    BY DEF Begins
  <2> QED
    BY <2>2, <2>3, <2>4, <2>5 DEF OpenInv, Opened, Shown
<1>4. CASE Main /\ ~TakeCommand
  <2> SUFFICES ASSUME op'.do \in {"open", "apply_trim"}, op'.sure, calm'
               PROVE  Opened(Wanted)' /\ (op'.do = "open" => Shown(Wanted)')
    BY DEF OpenInv
  <2>1. calm
    BY <1>4, CalmBefore
  <2>2. Stays /\ DOMAIN op = Fields /\ op.at \notin {"idle", "answer"}
    BY <1>1, <1>4, Going
  <2>3. op'.do = op.do /\ op'.arg = op.arg /\ Underway
    BY <2>2 DEF Stays
  <2>4. PICK w : w = Wanted
    OBVIOUS
  <2>5. Wanted' = w /\ w = op.arg.pos
    BY <2>3, <2>4 DEF Wanted, Address
  <2>6. op.sure => Opened(w) /\ (op.do = "open" => Shown(w))
    BY <2>1, <2>3, <2>4 DEF OpenInv
  <2>7. SUFFICES Opened(w)' /\ (op.do = "open" => Shown(w)')
    BY <2>3, <2>5 DEF Opened, Shown, Trip
  <2>8. op.at \in {"drain", "recall", "listen", "landed", "grid", "pointer", "active", "trim"}
    BY <2>2, <2>3 DEF Underway, Stages, InOpen
  <2>9. CASE NoAnswer
    <3>1. op'.at = "answer" /\ op'.error
      BY <2>2, <2>3, <2>9 DEF NoAnswer, Failed, Fields
    <3> QED
      BY <3>1 DEF Opened, Shown
  <2>10. CASE Drain
    <3>1. /\ op'.at = "recall" /\ op'.sure = (coming = <<>> /\ asked = <<>>)
          /\ told' = <<>> /\ asked' = asked /\ coming' = coming
      BY <2>2, <2>3, <2>10 DEF Drain, Learn, Fields, device
    <3> QED
      BY <3>1 DEF Opened, Shown
  <2>11. CASE Recall
    <3>1. op.at = "recall" /\ op'.at = "listen" /\ op'.sure = op.sure
      BY <2>2, <2>11 DEF Recall, On, GoOn, Fields
    <3>2. asked = <<>> /\ coming = <<>> /\ told = <<>>
      BY <2>6, <3>1 DEF Opened
    <3>3. asked' = <<w>> /\ coming' = <<>> /\ told' = <<>>
      BY <2>4, <2>11, <3>2, Single DEF Recall
    <3>4. Trip(w)'
      BY <3>3, Single DEF Trip
    <3> QED
      BY <3>1, <3>4 DEF Opened, Shown
  <2>12. CASE Listen
    <3>1. /\ op.at = "listen" /\ op'.at = "landed" /\ op'.sure = op.sure /\ told # <<>>
          /\ op'.got = told[Len(told)]
      BY <2>2, <2>3, <2>12 DEF Listen, Learn, On, Fields
    <3>2. Trip(w)
      BY <2>6, <3>1 DEF Opened
    <3>3. told = <<w>> /\ asked = <<>> /\ coming = <<>> /\ unit.pre = w
      BY <3>1, <3>2 DEF Trip
    <3>4. told' = <<>> /\ asked' = <<>> /\ coming' = <<>> /\ unit'.pre = w
      BY <2>12, <3>3 DEF Listen, device, leveling
    <3>5. Trip(w)'
      BY <3>4 DEF Trip
    <3>6. op'.got = w
      BY <3>1, <3>3, Single
    <3> QED
      BY <3>1, <3>4, <3>5, <3>6 DEF Opened, Shown
  <2>13. CASE Landed
    <3>1. UNCHANGED <<unit, asked, coming, told>> /\ op.at = "landed"
      BY <2>13 DEF Landed, On, leveling, Quiet, device
    <3>2. /\ op'.sure => op.sure
          /\ op'.at \in {"listen", IF op.do = "open" THEN "answer" ELSE "grid"}
          /\ op'.got = op.got
          /\ op'.at = "answer" => op.arg.cloud \/ op'.label = w
      <4>1. CASE GoOn(AfterOpen) /\ Address.cloud
        BY <2>2, <2>3, <4>1 DEF GoOn, AfterOpen, Address, Fields
      <4>2. CASE Learn([op EXCEPT !.at = AfterOpen, !.label = Wanted,
                                  !.sure = @ /\ unit.pre = Wanted])
        BY <2>2, <2>3, <2>4, <4>2 DEF Learn, AfterOpen, Fields
      <4>3. CASE GoOn("listen")
        BY <2>2, <2>3, <4>3 DEF GoOn, Fields
      <4> QED
        BY <2>13, <4>1, <4>2, <4>3 DEF Landed
    <3>3. Trip(w) /\ asked = <<>> /\ (op.do = "open" => op.got = w)
      BY <2>6, <3>1, <3>2 DEF Opened, Shown
    <3>4. Trip(w)' /\ asked' = <<>> /\ unit'.pre = w
      BY <3>1, <3>3 DEF Trip
    <3> QED
      BY <2>3, <3>2, <3>3, <3>4 DEF Opened, Shown
  <2>14. CASE GiveUp
    <3>1. /\ UNCHANGED <<unit, asked, coming, told>> /\ op.at = "listen" /\ op'.at = "grid"
          /\ op'.sure => op.sure /\ asked = <<>>
      BY <2>2, <2>3, <2>14 DEF GiveUp, Learn, On, Fields, leveling, Quiet, device
    <3>2. Trip(w)
      BY <2>6, <3>1 DEF Opened
    <3>3. asked' = <<>> /\ unit'.pre = w
      BY <3>1, <3>2 DEF Trip
    <3> QED
      BY <3>1, <3>3 DEF Opened, Shown
  <2>15. CASE ReadGrid
    <3>1. /\ UNCHANGED <<unit, asked>> /\ op.at = "grid" /\ op'.at = "pointer"
          /\ op'.sure = op.sure /\ op'.got = unit.pre
      BY <2>2, <2>3, <2>15 DEF ReadGrid, Learn, On, Fields, leveling, Quiet, device
    <3> QED
      BY <2>6, <3>1 DEF Opened, Shown
  <2>16. CASE ReadPointer
    <3>1. /\ UNCHANGED <<unit, asked>> /\ op.at = "pointer" /\ op'.at = "active"
          /\ op'.sure => op.sure /\ op'.label = unit.pre
          /\ op'.got = op.got
      BY <2>2, <2>3, <2>16 DEF ReadPointer, Learn, On, Fields, leveling, Quiet, device
    <3> QED
      BY <2>6, <3>1 DEF Opened, Shown
  <2>17. CASE ReadActive
    <3>1. PICK a : a = IF op.do = "open" THEN "answer" ELSE "trim"
      OBVIOUS
    <3>2. AfterState = a
      BY <2>3, <3>1 DEF AfterState, Trimming
    <3>3. /\ UNCHANGED <<unit, asked>> /\ op.at = "active" /\ op'.at = a
          /\ op'.sure => op.sure
          /\ op'.got = op.got /\ op'.label = op.label
      BY <2>2, <2>3, <2>17, <3>2 DEF ReadActive, Learn, On, Fields, leveling, Quiet, device
    <3> QED
      BY <2>6, <3>1, <3>3 DEF Opened, Shown
  <2>18. CASE ApplyTrim \/ RememberFader
    <3>1. op'.at = "answer" /\ op.do = "apply_trim"
      BY <2>2, <2>3, <2>18 DEF ApplyTrim, RememberFader, GoOn, Failed, Fields
    <3> QED
      BY <3>1 DEF Opened
  <2> QED
    BY <1>4, <2>8, <2>9, <2>10, <2>11, <2>12, <2>13, <2>14, <2>15, <2>16, <2>17, <2>18, Doers
<1> QED
  BY <1>2, <1>3, <1>4

\* However long a recall takes and however it is told, a column shows the preset
\* that was asked for, and its position, if the drain of the bus left nothing
\* behind, the bench did not give up while the recall was under way, the pointer
\* was answered as the unit stood, and nobody was at the unit.
THEOREM OpenIsTheAsked == Spec => []OpenReturnsTheAsked
<1>1. Init => OpenInv
  BY DEF Init, NoOp, OpenInv
<1>2. Shape /\ OpenInv /\ [Next]_vars => OpenInv'
  BY OpenKept
<1>3. OpenInv => OpenReturnsTheAsked
  BY DEF OpenInv, Shown, OpenReturnsTheAsked, On
<1> QED
  BY <1>1, <1>2, <1>3, ShapeHolds, PTL DEF Spec

-----------------------------------------------------------------------------
(* Putting back *)

\* What is about to be trimmed goes by the name that was read, and is at the
\* level that was, if nobody was at the unit and what it said was so.
KnownLevel ==
  op.do \in Trimming /\ op.sure /\ calm =>
    /\ op.at \in {"pointer", "active"} => op.levels = unit.db
    /\ op.at = "trim" => op.level = Db

\* What is kept for a name is what the first of its trims found, if it is the
\* only one; what revert_levels has answered still holds.
Noted ==
  \A n \in Names : /\ was[n] = {} <=> applied[n] = NoTrim
                   /\ \A r \in was[n] : was[n] = {r} /\ r.sure => applied[n] = r.db
RevertInv ==
  op.do = "revert_levels" /\ op.at = "answer" /\ ~op.error /\ calm =>
    \A r \in op.undone : op.undone = {r} /\ r.sure => Db = r.db

\* A command that trims finds the unit at rest where it reads it.
LEMMA AtRest ==
  ASSUME Unasked, OpenInv, op.do \in Trimming, op.sure, calm,
         op.at \in {"pointer", "active", "trim"}
  PROVE  asked = <<>>
BY DEF Unasked, OpenInv, Opened, Trimming

\* The level read stays the level there is.
LEMMA KnownKept ==
  ASSUME Shape, RouteInv, OpenInv, KnownLevel, [Next]_vars
  PROVE  KnownLevel'
<1> SUFFICES ASSUME op'.do \in Trimming, op'.sure, calm'
             PROVE  /\ op'.at \in {"pointer", "active"} => op'.levels = unit'.db
                    /\ op'.at = "trim" => op'.level = Db'
  BY DEF KnownLevel
<1>1. OpOK /\ Unasked
  BY DEF Shape, RouteInv
<1>2. CASE ~Main
  <2>1. op' = op /\ calm
    BY <1>2, Aside
  <2>2. op.at \in {"pointer", "active", "trim"} => unit'.db = unit.db /\ Db' = Db
    BY <1>1, <1>2, <2>1, AtRest, AsideAtRest
  <2> QED
    BY <2>1, <2>2 DEF KnownLevel
<1>3. CASE TakeCommand
  <2>1. PICK c : c = Head(inbox)
    OBVIOUS
  <2>2. op' = [Started(c) EXCEPT !.at = Begins(c)]
    BY <1>3, <2>1 DEF TakeCommand
  <2>3. op'.at = Begins(c) /\ op'.do = c.do
    BY <2>2 DEF Started
  <2>4. c.do \in Trimming => Begins(c) \in {"drain", "grid", "rows"}
    BY DEF Begins, Trimming
  <2> QED
    BY <2>3, <2>4
<1>4. CASE Main /\ ~TakeCommand
  <2>1. calm
    BY <1>4, CalmBefore
  <2>2. Stays /\ DOMAIN op = Fields /\ op.at \notin {"idle", "answer"}
    BY <1>1, <1>4, Going DEF Trimming
  <2>3. op'.do = op.do /\ op'.arg = op.arg /\ Underway
    BY <2>2 DEF Stays
  <2>4. op.sure =>
          /\ op.at \in {"pointer", "active"} => op.levels = unit.db
          /\ op.at = "trim" => op.level = Db
    BY <2>1, <2>3 DEF KnownLevel
  <2>5. CASE ReadGrid
    <3>1. op'.at = "pointer" /\ op'.levels = unit.db /\ unit' = unit
      BY <2>2, <2>3, <2>5 DEF ReadGrid, Learn, Fields, leveling, Trimming
    <3> QED
      BY <3>1
  <2>6. CASE ReadPointer
    <3>1. /\ op.at = "pointer" /\ op'.at = "active" /\ op'.levels = op.levels /\ unit' = unit
          /\ op'.sure => op.sure
      BY <2>2, <2>3, <2>6 DEF ReadPointer, Learn, On, Fields, leveling, Trimming
    <3> QED
      BY <2>4, <3>1
  <2>7. CASE ReadActive
    <3>1. AfterState = "trim" /\ op.at = "active"
      BY <2>3, <2>7 DEF AfterState, ReadActive, On, Trimming
    <3>2. PICK s \in Scenes : /\ op'.at = "trim" /\ op'.level = op.levels[s] /\ unit' = unit
                              /\ op'.sure => op.sure /\ s = unit.scene
      BY <2>2, <2>3, <2>7, <3>1 DEF ReadActive, Learn, Fields, leveling, Trimming
    <3>3. op.levels[s] = Db
      BY <2>4, <3>1, <3>2 DEF Db
    <3> QED
      BY <3>2, <3>3 DEF Db
  <2>8. CASE Drain \/ Listen \/ Landed \/ GiveUp
    <3>1. Reads /\ op.at \in InOpen
      BY <1>1, <2>8, ReadsOnly DEF Reading, Drain, Listen, Landed, GiveUp, On, InOpen
    <3>2. AfterOpen \in {"grid", "answer"}
      BY <2>3 DEF AfterOpen, Trimming
    <3> QED
      BY <3>1, <3>2 DEF Reads, InOpen
  <2>9. CASE NoAnswer
    <3>1. op'.at = "answer"
      BY <2>2, <2>3, <2>9 DEF NoAnswer, Failed, Fields, Trimming
    <3> QED
      BY <3>1
  <2>10. CASE Recall \/ With
    <3>1. op'.at \in {"listen", "within"}
      BY <2>2, <2>10 DEF Recall, With, GoOn, Fields
    <3> QED
      BY <3>1
  <2>11. CASE RowsKnown \/ BeginPlay
    <3>1. op'.at \in {"grid", "with", "answer"}
      BY <2>2, <2>11 DEF RowsKnown, BeginPlay, GoOn, Fields
    <3> QED
      BY <3>1
  <2>12. CASE ApplyTrim \/ RememberFader
    <3>1. op'.at \in {"answer", "with"}
      BY <2>2, <2>3, <2>12 DEF ApplyTrim, RememberFader, Failed, GoOn, Fields, Trimming
    <3> QED
      BY <3>1
  <2>13. CASE Left
    <3>1. op'.at = "answer"
      BY <2>2, <2>3, <2>13 DEF Left, Failed, Fields, Trimming
    <3> QED
      BY <3>1
  <2>14. CASE op.at = "within" /\ ~Left
    <3>1. LevelStep
      BY <1>4, <2>3, <2>14, Doers
      DEF MeasureOnce, AddGain, Scene, LastScene, Raise, Trimming
    <3>2. op'.at \in {"within", "leave"}
      BY <2>2, <2>14, <3>1 DEF LevelStep, Fields
    <3> QED
      BY <3>2
  <2>15. op.at \in InOpen \cup {"rows", "grid", "pointer", "active", "trim", "with", "within",
                               "leave"}
    BY <2>2, <2>3 DEF Underway, Stages, Trimming
  <2> QED
    BY <1>4, <2>5, <2>6, <2>7, <2>8, <2>9, <2>10, <2>11, <2>12, <2>13, <2>14, <2>15, Doers
    DEF InOpen
<1> QED
  BY <1>2, <1>3, <1>4

\* The first trim of a name is kept, and all of them are noted.
LEMMA NotedKept ==
  ASSUME Shape, KnownLevel, Noted, [Next]_vars
  PROVE  Noted'
<1>1. /\ OpOK /\ applied \in [Names -> NoTrim .. Hi] /\ was \in [Names -> SUBSET Places]
  BY DEF Shape, Remembered
<1>2. CASE (ApplyTrim \/ RememberFader) /\ Remember /\ Note
  <2>1. op.at = "trim" /\ op.do \in Trimming
    BY <1>2 DEF ApplyTrim, RememberFader, On, Trimming
  <2>2. op.name \in Names /\ op.level \in Lo .. Hi
    BY <1>1, <2>1, Busy DEF Underway
  <2>3. op.level # NoTrim
    <3>1. Lo \in Int /\ Hi \in Int
      BY LevelAssumption, Zenon DEF LevelAssumption
    <3> QED
      BY <2>2, <3>1 DEF NoTrim
  <2>4. PICK q : q = [place |-> Place, db |-> Db, sure |-> op.sure /\ calm]
    OBVIOUS
  <2>5. PICK n \in Names : n = op.name
    BY <2>2
  <2>6. applied' = [applied EXCEPT ![n] = IF @ = NoTrim THEN op.level ELSE @]
    BY <1>2, <2>5 DEF Remember
  <2>7. \/ was' = was /\ was[n] # {}
        \/ was' = [was EXCEPT ![n] = @ \cup {q}]
    <3>1. was' = [was EXCEPT ![n] = IF \E r \in @ : r.place = Place THEN @ ELSE @ \cup {q}]
      BY <1>2, <2>4, <2>5 DEF Note
    <3>2. CASE \E r \in was[n] : r.place = Place
      BY <1>1, <3>1, <3>2
    <3>3. CASE ~\E r \in was[n] : r.place = Place
      BY <1>1, <3>1, <3>3
    <3> QED
      BY <3>2, <3>3
  <2>8. q.sure => op.level = q.db
    BY <2>1, <2>4 DEF KnownLevel
  <2>9. ASSUME NEW k \in Names \ {n}
        PROVE  was'[k] = was[k] /\ applied'[k] = applied[k]
    BY <1>1, <2>6, <2>7, <2>9
  <2>10. CASE was[n] = {}
    <3>1. applied'[n] = op.level /\ was'[n] = {q}
      BY <1>1, <2>6, <2>7, <2>10 DEF Noted
    <3> QED
      BY <2>3, <2>8, <2>9, <3>1 DEF Noted
  <2>11. CASE was[n] # {}
    <3>1. applied'[n] = applied[n] /\ applied[n] # NoTrim
      BY <1>1, <2>6, <2>11 DEF Noted
    <3>2. was'[n] \in {was[n], was[n] \cup {q}} /\ was'[n] # {}
      BY <1>1, <2>7, <2>11
    <3>3. ASSUME NEW r \in was'[n], was'[n] = {r}, r.sure
          PROVE  applied'[n] = r.db
      <4>1. was[n] = {r}
        BY <2>11, <3>2, <3>3
      <4> QED
        BY <3>1, <3>3, <4>1 DEF Noted
    <3> QED
      BY <2>9, <3>1, <3>2, <3>3 DEF Noted
  <2> QED
    BY <2>10, <2>11
<1>3. CASE PutBack
  <2>1. was' = [was EXCEPT ![op.name] = {}]
    BY <1>3 DEF PutBack
  <2>2. applied' = [applied EXCEPT ![op.name] = NoTrim]
    BY <1>1, <1>3 DEF PutBack
  <2> QED
    BY <1>1, <2>1, <2>2 DEF Noted
<1>4. CASE UNCHANGED <<applied, was>>
  BY <1>4 DEF Noted
<1> QED
  BY <1>1, <1>2, <1>3, <1>4, Frames DEF ApplyTrim, RememberFader

\* It writes what the first trim found, which is in the fader's range.
LEMMA PutsBack ==
  ASSUME Shape, Noted, PutBack, NEW r \in op'.undone, op'.undone = {r}, r.sure
  PROVE  Db' = r.db
<1>1. op.at = "put back" /\ OpOK /\ Remembered /\ UnitOK
  BY DEF PutBack, On, Shape
<1>2. Underway /\ DOMAIN op = Fields /\ op.name \in Names
  BY <1>1, Busy DEF Underway
<1>3. op'.undone = was[op.name]
  BY <1>2 DEF PutBack, Fields
<1>4. applied[op.name] = r.db /\ applied[op.name] # NoTrim
  BY <1>2, <1>3 DEF Noted
<1>5. Lo \in Int /\ Hi \in Int
  BY LevelAssumption, Zenon DEF LevelAssumption
<1>6. applied[op.name] \in NoTrim .. Hi
  BY <1>1, <1>2 DEF Remembered
<1>7. r.db \in Lo .. Hi
  BY <1>4, <1>5, <1>6 DEF NoTrim
<1>8. Clamp(applied[op.name]) = r.db
  BY <1>4, <1>5, <1>7 DEF Clamp
<1>9. unit' = Moved(r.db)
  BY <1>4, <1>8, Zenon DEF PutBack
<1> QED
  BY <1>1, <1>7, <1>9, LevelTold

\* Nobody moves the fader before the answer is sent.
LEMMA RevertKept ==
  ASSUME Shape, RouteInv, Noted, RevertInv, [Next]_vars
  PROVE  RevertInv'
<1> SUFFICES ASSUME op'.do = "revert_levels", op'.at = "answer", ~op'.error, calm',
                    NEW r \in op'.undone, op'.undone = {r}, r.sure
             PROVE  Db' = r.db
  BY DEF RevertInv
<1>1. OpOK /\ Unasked
  BY DEF Shape, RouteInv
<1>2. CASE ~Main
  <2>1. op' = op /\ calm
    BY <1>2, Aside
  <2>2. asked = <<>>
    BY <1>1, <2>1 DEF Unasked
  <2>3. Db' = Db
    BY <1>2, <2>2, AsideAtRest
  <2> QED
    BY <2>1, <2>3 DEF RevertInv
<1>3. CASE TakeCommand
  BY <1>3 DEF TakeCommand, Started, Begins
<1>4. CASE Main /\ ~TakeCommand
  <2>1. Stays /\ DOMAIN op = Fields /\ op.at \notin {"idle", "answer"}
    BY <1>1, <1>4, Going
  <2>2. op.do = "revert_levels" /\ Underway
    BY <2>1 DEF Stays
  <2>3. op.at \in {"grid", "pointer", "active", "put back"}
    BY <2>1, <2>2 DEF Underway, Stages
  <2>4. ~NoAnswer
    BY <2>1, <2>2 DEF NoAnswer, Failed, Fields
  <2>5. ~Reading
    <3>1. Reading => op'.at \in {"pointer", "active", "put back"}
      BY <1>1, <2>2, <2>3, ReadsOnly DEF Reads, AfterState, Trimming
    <3> QED
      BY <3>1
  <2>6. PutBack
    BY <1>4, <2>3, <2>4, <2>5, Doers DEF Reading
  <2> QED
    BY <2>6, PutsBack
<1> QED
  BY <1>2, <1>3, <1>4

\* revert_levels puts a fader back to where it was before the first of any number
\* of trims and automatic runs, whatever other commands came between, if of all
\* presets and scenes of that name one was trimmed, nobody was at the unit then
\* or now, and what the bench was told of the level and the scene was so.
THEOREM RevertRestores == Spec => []RevertPutsBack
<1>1. Init => OpenInv /\ KnownLevel /\ Noted /\ RevertInv
  BY DEF Init, NoOp, OpenInv, KnownLevel, Trimming, Noted, RevertInv
<1>2. Shape /\ RouteInv /\ OpenInv /\ KnownLevel /\ Noted /\ RevertInv /\ [Next]_vars
        => (OpenInv /\ KnownLevel /\ Noted /\ RevertInv)'
  BY OpenKept, KnownKept, NotedKept, RevertKept
<1>3. RevertInv => RevertPutsBack
  BY DEF RevertInv, RevertPutsBack, On
<1> QED
  BY <1>1, <1>2, <1>3, RouteHolds, PTL DEF Spec

-----------------------------------------------------------------------------
(* A run of automatic leveling *)

\* A run belongs to the command that began it, and one that only reports does
\* not get to a write.
RunOf ==
  run # NoRun =>
    /\ op.do = "autolevel" /\ op.at \in {"within", "leave", "answer"}
    /\ run.dry <=> op.arg.dry
    /\ run.dry => run.at \in {"first", "ended"}

\* A run is one.
LEMMA RunIsOne ==
  ASSUME NEW r \in Runs
  PROVE  r # NoRun
<1>1. r.at \in {"first", "write", "again", "back off", "ended"}
  BY DEF Runs
<1>2. NoRun.at = "none"
  BY DEF NoRun
<1> QED
  BY <1>1, <1>2

\* What a step of a run leaves of it.
LEMMA RunSteps ==
  ASSUME Shape, LevelStep
  PROVE  /\ run \in Runs /\ run' \in Runs /\ (run'.dry <=> run.dry)
         /\ (run.dry => run.at \in {"first", "ended"}) => (run.dry => run'.at \in {"first", "ended"})
         /\ op.do = "autolevel" /\ op.at = "within" /\ (op' = op \/ op' = [op EXCEPT !.at = "leave"])
<1>1. RunOK /\ OpOK
  BY DEF Shape
<1>2. run \in Runs
  <2>1. run.at # "none"
    BY DEF LevelStep, Leveling, First, WriteTrim, Again, BackOff, LeaveRun
  <2> QED
    BY <1>1, <2>1, Running, SMTT(30)
<1>3. op.do = "autolevel" /\ op.at = "within" /\ (op' = op \/ op' = [op EXCEPT !.at = "leave"])
  BY DEF LevelStep, On
<1>4. run' # NoRun
  <2>1. run' = NoRun => run'.at = "none"
    <3>1. NoRun.at = "none"
      BY DEF NoRun
    <3> QED
      BY <3>1
  <2>2. CASE First
    BY <1>2, <2>1, <2>2, Zenon DEF First, Ended, Runs
  <2>3. CASE WriteTrim
    BY <1>2, <2>1, <2>3 DEF WriteTrim, Runs
  <2>4. CASE Again
    BY <1>2, <2>1, <2>4, Zenon DEF Again, AfterMeasure, Ended, Runs
  <2>5. CASE BackOff
    BY <1>2, <2>1, <2>5 DEF BackOff, Ended, Runs
  <2>6. CASE LeaveRun
    BY <1>2, <2>1, <2>6 DEF LeaveRun, Ended, Runs
  <2> QED
    BY <2>2, <2>3, <2>4, <2>5, <2>6 DEF LevelStep, Leveling
<1>5. [Next]_vars
  BY DEF Next, Main
<1>6. run' \in Runs
  BY <1>4, <1>5, RunKept DEF RunOK
<1>7. /\ run'.dry <=> run.dry
      /\ (run.dry => run.at \in {"first", "ended"}) => (run.dry => run'.at \in {"first", "ended"})
  <2>2. CASE First
    BY <1>2, <2>2, ZenonT(40) DEF First, Ended, Runs
  <2>3. CASE WriteTrim
    BY <1>2, <2>3 DEF WriteTrim, Runs
  <2>4. CASE Again
    BY <1>2, <2>4, ZenonT(40) DEF Again, AfterMeasure, Ended, Runs
  <2>5. CASE BackOff
    BY <1>2, <2>5 DEF BackOff, Ended, Runs
  <2>6. CASE LeaveRun
    BY <1>2, <2>6 DEF LeaveRun, Ended, Runs
  <2> QED
    BY <2>2, <2>3, <2>4, <2>5, <2>6, Zenon DEF LevelStep, Leveling
<1> QED
  BY <1>2, <1>3, <1>6, <1>7

\* A run is gone with its command.
LEMMA RunOfKept ==
  ASSUME Shape, RunOf, [Next]_vars
  PROVE  RunOf'
<1> SUFFICES ASSUME run' # NoRun
             PROVE  /\ op'.do = "autolevel" /\ op'.at \in {"within", "leave", "answer"}
                    /\ run'.dry <=> op'.arg.dry
                    /\ run'.dry => run'.at \in {"first", "ended"}
  BY DEF RunOf
<1>1. OpOK
  BY DEF Shape
<1>2. CASE With
  <2>1. op.at = "with" /\ Underway /\ DOMAIN op = Fields
    BY <1>1, <1>2, Busy DEF With, On, Underway
  <2>2. op' = [op EXCEPT !.at = "within"]
    BY <1>2 DEF With, GoOn
  <2>3. op'.at = "within" /\ op'.do = op.do /\ op'.arg = op.arg
    BY <2>1, <2>2 DEF Fields
  <2>4. op.do = "autolevel" /\ run' = StartRun(op.arg.dry)
    BY <1>2 DEF With
  <2>5. op.arg.dry \in BOOLEAN
    BY <2>1, <2>4, Takes
  <2>6. (run'.dry <=> op.arg.dry) /\ run'.at = "first"
    BY <2>4, <2>5 DEF StartRun
  <2> QED
    BY <2>3, <2>4, <2>6
<1>3. CASE LevelStep
  <2>1. run # NoRun
    BY <1>3, RunSteps, RunIsOne
  <2>2. DOMAIN op = Fields
    BY <1>1, <1>3, RunSteps, Busy DEF Underway
  <2>3. op'.at \in {"within", "leave"} /\ op'.do = op.do /\ op'.arg = op.arg
    BY <1>3, <2>2, RunSteps DEF Fields
  <2> QED
    BY <1>3, <2>1, <2>3, RunSteps DEF RunOf
<1>4. CASE run' = run /\ ~With /\ ~LevelStep
  <2>1. op.do = "autolevel" /\ op.at \in {"within", "leave", "answer"}
    BY <1>4 DEF RunOf
  <2>2. op'.do = op.do /\ op'.arg = op.arg /\ op'.at \in {"within", "leave", "answer"}
    <3>1. CASE ~Main
      BY <2>1, <3>1, Aside
    <3>2. CASE Main
      <4>1. ~Answer
        BY <1>4 DEF Answer
      <4>2. Left
        <5>1. op.at # "answer"
          BY <3>2, <4>1, Doers
        <5>2. ~MeasureOnce /\ ~AddGain /\ ~Scene /\ ~LastScene /\ ~Raise
          BY <2>1 DEF MeasureOnce, AddGain, Scene, LastScene, Raise
        <5> QED
          BY <1>4, <2>1, <3>2, <5>1, <5>2, Doers
      <4>3. DOMAIN op = Fields
        BY <1>1, <2>1, Busy DEF Underway
      <4> QED
        BY <2>1, <4>2, <4>3 DEF Left, Failed, Fields
    <3> QED
      BY <3>1, <3>2
  <2> QED
    BY <1>4, <2>2 DEF RunOf
<1> QED
  BY <1>1, <1>2, <1>3, <1>4, Frames DEF Answer

\* A run is where it wants to be: below the ceiling as far as a measurement can
\* tell, over it without having touched anything, or at the end of the range.
TruePeak == Loudness[unit.pre] + Db + Crest[unit.pre]
LowEnough == \/ \E e \in Noise : TruePeak + e <= Ceiling
             \/ ~run.written /\ run.over
             \/ Db = Lo

\* What a run knows of the fader is where the fader is.
RunInv ==
  run # NoRun /\ calm /\ ~run.error =>
    /\ run.at \in {"again", "back off"} => run.cur = Db
    /\ run.at = "first" => ~run.written
    /\ run.at = "back off" => \E e \in Noise : run.peak = TruePeak + e
    /\ run.at = "ended" /\ ~run.dry => LowEnough

\* What is heard of the preset is off by an error of the measurement.
LEMMA HeardIs ==
  ASSUME UnitOK, NEW m \in Heard
  PROVE  /\ m \in Int /\ Peak(m) \in Int /\ TruePeak \in Int
         /\ \E e \in Noise : e \in Int /\ Peak(m) = TruePeak + e
<1>1. /\ Loudness \in [Presets -> Int] /\ Crest \in [Presets -> Nat] /\ Noise \subseteq Int
      /\ Lo \in Int /\ Hi \in Int
  BY LevelAssumption, Zenon DEF LevelAssumption
<1>2. PICK l \in Int : l = Loudness[unit.pre]
  BY <1>1 DEF UnitOK, Units
<1>3. PICK c \in Int : c = Crest[unit.pre]
  BY <1>1 DEF UnitOK, Units
<1>4. PICK d \in Int : d = Db
  BY <1>1, LevelOf
<1>5. PICK e \in Noise : m = l + d + e
  BY <1>2, <1>4 DEF Heard
<1>6. e \in Int
  BY <1>1
<1>7. Peak(m) = m + c /\ TruePeak = l + d + c
  BY <1>2, <1>3, <1>4, Zenon DEF Peak, TruePeak
<1> QED
  BY <1>5, <1>6, <1>7

\* A step of a run that does not fail keeps its account of the fader.
LEMMA RunStays ==
  ASSUME Shape, RunInv, LevelStep, calm, ~run'.error
  PROVE  /\ run'.at \in {"again", "back off"} => run'.cur = Db'
         /\ run'.at = "first" => ~run'.written
         /\ run'.at = "back off" => \E e \in Noise : run'.peak = TruePeak' + e
         /\ run'.at = "ended" /\ ~run'.dry => LowEnough'
<1>1. UnitOK
  BY DEF Shape
<1>2. run \in Runs /\ run # NoRun
  BY RunSteps, RunIsOne
<1>3. Ceiling \in Int /\ Lo \in Int /\ Hi \in Int /\ Lo <= Hi
  <2>1. Ceiling \in Nat /\ Lo \in Int /\ Hi \in Int /\ Lo <= Hi
    BY LevelAssumption, Zenon DEF LevelAssumption
  <2> QED
    BY <2>1
<1>4. CASE First
  <2>1. run.at = "first" /\ unit' = unit
    BY <1>4 DEF First
  <2>2. PICK m \in Heard :
          LET r == [run EXCEPT !.delta = -m, !.over = Peak(m) > Ceiling]
          IN IF run.dry THEN run' = Ended(r)
             ELSE IF m = 0 THEN run' = [Ended(r) EXCEPT !.converged = TRUE]
             ELSE \E s \in Scenes : run' = [r EXCEPT !.at = "write", !.cur = unit.db[s]]
    <3>1. run' # [Ended(run) EXCEPT !.error = TRUE]
      BY <1>2 DEF Ended, Runs
    <3> QED
      BY <1>4, <3>1, Zenon DEF First
  <2>3. PICK e \in Noise : e \in Int /\ Peak(m) = TruePeak + e
    BY <1>1, HeardIs
  <2>4. m \in Int /\ Peak(m) \in Int /\ TruePeak \in Int
    BY <1>1, HeardIs
  <2>5. PICK d : d = -m
    OBVIOUS
  <2>6. PICK o \in BOOLEAN : o <=> (TruePeak + e > Ceiling)
    BY Zenon
  <2>7. (Peak(m) > Ceiling) = o
    BY <1>3, <2>3, <2>4, <2>6
  <2>8. PICK r : r = [run EXCEPT !.delta = d, !.over = o]
    OBVIOUS
  <2>9. \/ run.dry /\ run' = Ended(r)
        \/ run' = [Ended(r) EXCEPT !.converged = TRUE]
        \/ \E c : run' = [r EXCEPT !.at = "write", !.cur = c]
    BY <2>2, <2>5, <2>7, <2>8, Zenon
  <2>10. /\ r.at = "first" /\ (r.error <=> run.error) /\ (r.dry <=> run.dry) /\ (r.over <=> o)
         /\ (r.written <=> run.written)
         /\ DOMAIN r = {"at", "dry", "n", "delta", "peak", "cur", "written", "pinned", "converged",
                        "over", "error"}
    BY <1>2, <2>1, <2>8 DEF Runs
  <2>11. /\ run'.at \in {"ended", "write"} /\ (run'.error <=> run.error) /\ (run'.dry <=> run.dry)
         /\ (run'.over <=> o) /\ (run'.written <=> run.written)
    BY <2>9, <2>10 DEF Ended
  <2>12. ~run.written
    BY <1>2, <2>1, <2>11 DEF RunInv
  <2>13. TruePeak' = TruePeak
    BY <2>1 DEF TruePeak, Db
  <2>14. LowEnough'
    BY <1>3, <2>1, <2>3, <2>4, <2>6, <2>11, <2>12, <2>13 DEF LowEnough
  <2> QED
    BY <2>1, <2>11, <2>14, ZenonT(30)
<1>5. CASE WriteTrim
  <2>1. PICK y : y = Clamp(run.cur + run.delta)
    OBVIOUS
  <2>2. Db' = y
    <3>1. run.cur + run.delta \in Int
      <4>1. run.cur \in Int /\ run.delta \in Int
        BY <1>5, Running DEF WriteTrim, Shape
      <4> QED
        BY <4>1
    <3>2. y \in Lo .. Hi /\ unit' = Moved(y)
      BY <1>5, <2>1, <3>1, ClampInRange, Zenon DEF WriteTrim
    <3> QED
      BY <1>1, <3>2, LevelTold
  <2>3. run'.at = "again" /\ run'.cur = y
    BY <1>2, <1>5, <2>1 DEF WriteTrim, Runs
  <2> QED
    BY <2>2, <2>3
<1>6. CASE Again
  <2>1. run.at = "again" /\ unit' = unit
    BY <1>6 DEF Again
  <2>2. PICK m \in Heard : run' = AfterMeasure(m)
    <3>1. run' # [Ended(run) EXCEPT !.error = TRUE]
      BY <1>2 DEF Ended, Runs
    <3> QED
      BY <1>6, <3>1, Zenon DEF Again
  <2>3. PICK e \in Noise : e \in Int /\ Peak(m) = TruePeak + e
    BY <1>1, HeardIs
  <2>4. m \in Int /\ Peak(m) \in Int /\ TruePeak \in Int
    BY <1>1, HeardIs
  <2>5. PICK d : d = -m
    OBVIOUS
  <2>6. PICK k : k = Peak(m)
    OBVIOUS
  <2>7. PICK r : r = [run EXCEPT !.delta = d, !.peak = k]
    OBVIOUS
  <2>8. \/ Peak(m) > Ceiling /\ run' = [r EXCEPT !.at = "back off"]
        \/ ~(Peak(m) > Ceiling) /\ run' \in {[Ended(r) EXCEPT !.converged = TRUE], Ended(r),
                                             [r EXCEPT !.at = "write"]}
    BY <2>2, <2>5, <2>6, <2>7, Zenon DEF AfterMeasure
  <2>9. /\ (r.error <=> run.error) /\ r.cur = run.cur /\ r.peak = k
        /\ DOMAIN r = {"at", "dry", "n", "delta", "peak", "cur", "written", "pinned", "converged",
                       "over", "error"}
    BY <1>2, <2>7 DEF Runs
  <2>10. /\ (run'.error <=> run.error) /\ run'.cur = run.cur /\ run'.peak = k
         /\ \/ run'.at = "back off"
            \/ ~(Peak(m) > Ceiling) /\ run'.at \in {"ended", "write"}
    BY <2>8, <2>9 DEF Ended
  <2>11. run.cur = Db
    BY <1>2, <2>1, <2>10 DEF RunInv
  <2>12. TruePeak' = TruePeak
    BY <2>1 DEF TruePeak, Db
  <2>13. ~(Peak(m) > Ceiling) => LowEnough'
    BY <1>3, <2>3, <2>4, <2>12 DEF LowEnough
  <2>14. Db' = Db
    BY <2>1 DEF Db
  <2> QED
    BY <2>14, <2>1, <2>3, <2>6, <2>10, <2>11, <2>12, <2>13
<1>7. CASE BackOff
  <2>1. run.at = "back off" /\ unit' = Moved(Clamp(run.cur - (run.peak - Ceiling)))
    BY <1>7, Zenon DEF BackOff
  <2>2. run'.at = "ended" /\ (run'.error <=> run.error)
    BY <1>2, <1>7 DEF BackOff, Ended, Runs
  <2>3. run.cur = Db /\ \E e \in Noise : run.peak = TruePeak + e
    BY <1>2, <2>1, <2>2 DEF RunInv
  <2>4. PICK e \in Noise : run.peak = TruePeak + e
    BY <2>3
  <2>5. /\ Loudness \in [Presets -> Int] /\ Crest \in [Presets -> Nat] /\ Noise \subseteq Int
    BY LevelAssumption, Zenon DEF LevelAssumption
  <2>6. PICK l \in Int : l = Loudness[unit.pre]
    BY <1>1, <2>5 DEF UnitOK, Units
  <2>7. PICK c \in Int : c = Crest[unit.pre]
    BY <1>1, <2>5 DEF UnitOK, Units
  <2>8. PICK d \in Int : d = Db
    BY <1>1, <1>3, LevelOf
  <2>9. PICK y : y = Clamp(run.cur - (run.peak - Ceiling))
    OBVIOUS
  <2>10. TruePeak = l + d + c /\ e \in Int
    BY <2>5, <2>6, <2>7, <2>8 DEF TruePeak
  <2>16. PICK z : z = run.cur - (run.peak - Ceiling)
    OBVIOUS
  <2>11. z = d - (l + d + c + e - Ceiling) /\ y = Clamp(z)
    <3>1. run.cur = d /\ run.peak = l + d + c + e
      BY <2>3, <2>4, <2>8, <2>10
    <3>2. z = d - (l + d + c + e - Ceiling)
      BY <1>3, <2>10, <2>16, <3>1
    <3>3. y = Clamp(z)
      BY <2>9, <2>16, Zenon
    <3> QED
      BY <3>2, <3>3
  <2>12. y \in Int /\ (y = Lo \/ l + y + c + e <= Ceiling)
    BY <1>3, <2>10, <2>11 DEF Clamp
  <2>13. Db' = y /\ unit'.pre = unit.pre
    <3>1. z \in Int
      BY <1>3, <2>10, <2>11
    <3>2. y \in Lo .. Hi /\ unit' = Moved(y)
      BY <2>1, <2>9, <2>11, <3>1, ClampInRange, Zenon
    <3> QED
      BY <1>1, <3>2, LevelTold
  <2>14. TruePeak' = l + y + c
    BY <2>6, <2>7, <2>13 DEF TruePeak
  <2>15. LowEnough'
    BY <2>12, <2>13, <2>14 DEF LowEnough
  <2> QED
    BY <2>2, <2>15
<1>8. CASE LeaveRun
  <2>1. run' # [Ended(run) EXCEPT !.error = TRUE]
    BY <1>2 DEF Ended, Runs
  <2>2. run.at = "ended" /\ run' = run /\ unit' = unit
    BY <1>8, <2>1 DEF LeaveRun
  <2> QED
    BY <1>2, <2>2 DEF RunInv, LowEnough, TruePeak, Db
<1> QED
  BY <1>4, <1>5, <1>6, <1>7, <1>8 DEF LevelStep, Leveling

\* Nobody else moves the fader under it.
LEMMA RunInvKept ==
  ASSUME Shape, RouteInv, RunOf, RunInv, [Next]_vars
  PROVE  RunInv'
<1> SUFFICES ASSUME run' # NoRun, calm', ~run'.error
             PROVE  /\ run'.at \in {"again", "back off"} => run'.cur = Db'
                    /\ run'.at = "first" => ~run'.written
                    /\ run'.at = "back off" => \E e \in Noise : run'.peak = TruePeak' + e
                    /\ run'.at = "ended" /\ ~run'.dry => LowEnough'
  BY DEF RunInv
<1>1. OpOK /\ Unasked
  BY DEF Shape, RouteInv
<1>2. CASE With
  BY <1>2 DEF With, StartRun
<1>3. CASE LevelStep
  <2>1. ~TakeCommand
    BY <1>3 DEF LevelStep, TakeCommand, On
  <2>2. calm
    BY <2>1, CalmBefore
  <2> QED
    BY <1>3, <2>2, RunStays
<1>4. CASE run' = run /\ ~LevelStep
  <2>1. op.do = "autolevel" /\ op.at \in {"within", "leave", "answer"}
    BY <1>4 DEF RunOf
  <2>2. calm
    <3>1. ~TakeCommand
      BY <2>1 DEF TakeCommand
    <3> QED
      BY <3>1, CalmBefore
  <2>3. ~Land /\ ~PlayerRecalls
    <3>1. asked = <<>>
      BY <1>1, <2>1, <2>2 DEF Unasked
    <3> QED
      BY <3>1 DEF Land, PlayerRecalls
  <2>4. ~Do /\ ~ApplyTrim /\ ~PutBack /\ ~Scene /\ ~LastScene /\ ~SceneBack
    BY <2>1 DEF Do, ApplyTrim, PutBack, Scene, LastScene, SceneBack, On
  <2>5. unit'.pre = unit.pre /\ Db' = Db
    BY <1>4, <2>3, <2>4, UnitMoves DEF Db
  <2>6. TruePeak' = TruePeak /\ (LowEnough => LowEnough')
    BY <1>4, <2>5 DEF TruePeak, LowEnough
  <2> QED
    BY <1>4, <2>2, <2>5, <2>6 DEF RunInv
<1> QED
  BY <1>1, <1>2, <1>3, <1>4, Frames DEF Answer

\* Shape, routing and the run together.
LEMMA RunHolds == Spec => [](Shape /\ RouteInv /\ RunOf /\ RunInv)
<1>1. Init => RunOf /\ RunInv
  <2>1. Init => run = NoRun
    BY Zenon DEF Init, LevelInit
  <2> QED
    BY <2>1 DEF RunOf, RunInv
<1>2. Shape /\ RouteInv /\ RunOf /\ RunInv /\ [Next]_vars => (RunOf /\ RunInv)'
  BY RunOfKept, RunInvKept
<1> QED
  BY <1>1, <1>2, RouteHolds, PTL DEF Spec

\* However loud a preset is, wherever its fader is and however far measurements
\* are off, a run that moved the fader leaves the peak at or below the ceiling,
\* but for that error, or the fader at the end of its range.
THEOREM RunsEndLowEnough == Spec => []NeverLeftOver
<1>1. Shape /\ RunOf /\ RunInv => NeverLeftOver
  <2> SUFFICES ASSUME Shape, RunInv, run.at = "ended", ~run.dry, ~run.error, calm
               PROVE  LET peak == Loudness[unit.pre] + Db + Crest[unit.pre]
                          off == CHOOSE n \in Noise : \A k \in Noise : k <= n
                      IN \/ peak <= Ceiling + off
                         \/ ~run.written /\ run.over
                         \/ Db = Lo
    BY Zenon DEF NeverLeftOver
  <2>1. run # NoRun
    BY DEF NoRun
  <2>2. LowEnough
    BY <2>1 DEF RunInv
  <2>3. PICK off : off = CHOOSE n \in Noise : \A k \in Noise : k <= n
    OBVIOUS
  <2>4. PICK n \in Noise : \A k \in Noise : -n <= k /\ k <= n
    BY LevelAssumption, Zenon DEF LevelAssumption
  <2>5. off \in Noise /\ n <= off
    BY <2>3, <2>4, Zenon
  <2>6. Noise \subseteq Int /\ Ceiling \in Nat
    BY LevelAssumption, Zenon DEF LevelAssumption
  <2>7. ASSUME NEW e \in Noise, TruePeak + e <= Ceiling
        PROVE  TruePeak <= Ceiling + off
    <3>1. TruePeak \in Int
      <4>1. /\ Loudness \in [Presets -> Int] /\ Crest \in [Presets -> Nat]
            /\ Lo \in Int /\ Hi \in Int
        BY LevelAssumption, Zenon DEF LevelAssumption
      <4>2. Loudness[unit.pre] \in Int /\ Crest[unit.pre] \in Int /\ Db \in Int
        BY <4>1, LevelOf DEF Shape, UnitOK, Units
      <4> QED
        BY <4>2 DEF TruePeak
    <3>2. -n <= e
      BY <2>4, <2>7
    <3>3. e \in Int /\ n \in Int /\ off \in Int /\ Ceiling \in Int
      BY <2>5, <2>6
    <3> QED
      BY <2>5, <2>7, <3>1, <3>2, <3>3
  <2> QED
    BY <2>2, <2>3, <2>7, Zenon DEF LowEnough, TruePeak
<1> QED
  BY <1>1, RunHolds, PTL

-----------------------------------------------------------------------------
(* Commands that only report *)

\* What a command found when it began is a preset.
FoundOK ==
  op # NoOp => op.found \in Units
FoundHome == op.found.in = Own[op.found.pre][1] /\ op.found.out = Own[op.found.pre][2]

Same == /\ unit.pre = op.found.pre /\ unit.db = op.found.db /\ unit.gain = op.found.gain
        /\ unit.name = op.found.name /\ unit.scened = op.found.scened
SameScene == unit.scene = op.found.scene
AsSaved == /\ unit.db = saved[unit.pre].db /\ unit.gain = saved[unit.pre].gain
           /\ unit.name = saved[unit.pre].name /\ unit.scened = saved[unit.pre].scened
           /\ unit.scene = 0

\* Nothing of the preset moves but its ports and the scene.
Unmoved == /\ unit'.pre = unit.pre /\ unit'.db = unit.db /\ unit'.gain = unit.gain
           /\ unit'.name = unit.name /\ unit'.scened = unit.scened

Returns ==
  /\ op.sure /\ op.at \in {"rows", "with", "within", "leave", "scene back"} =>
       op.before = op.found.scene
  /\ op.at \notin {"within", "leave", "scene back", "answer"} => SameScene
  /\ op.at = "answer" /\ op.sure /\ ~op.stuck => SameScene

\* A command that only reports may move the scene, and knows where to put it
\* back, if it was told in time and nothing keeps it from it; one that goes
\* through presets leaves the last one as it was saved.
ReportInv ==
  ReportOnly(op) /\ calm /\ ~crossed =>
    /\ ~lost => FoundHome
    /\ op.do # "measure_many" => Same
    /\ op.do \in {"measure", "autolevel"} => SameScene
    /\ op.do = "measure_scenes" => Returns
    /\ op.do = "measure_many" => (Same /\ SameScene) \/ AsSaved

\* It is set when a command is taken and kept until its answer.
LEMMA FoundKept == Shape /\ FoundOK /\ [Next]_vars => FoundOK'
<1> SUFFICES ASSUME Shape, FoundOK, [Next]_vars, op' # NoOp
             PROVE  op'.found \in Units
  BY DEF FoundOK
<1>1. OpOK /\ UnitOK
  BY DEF Shape
<1>2. CASE TakeCommand
  <2>1. op'.found = unit
    BY <1>2 DEF TakeCommand, Started
  <2> QED
    BY <1>1, <2>1 DEF UnitOK
<1>3. CASE Stays
  <2>1. Underway /\ op'.found = op.found
    BY <1>3 DEF Stays
  <2>2. "arg" \in DOMAIN op
    BY <2>1 DEF Underway, Fields
  <2>3. "arg" \notin DOMAIN NoOp
    BY DEF NoOp
  <2>4. op # NoOp
    BY <2>2, <2>3
  <2> QED
    BY <2>1, <2>4 DEF FoundOK
<1>4. CASE op' = op
  BY <1>4 DEF FoundOK
<1> QED
  BY <1>1, <1>2, <1>3, <1>4, CommandStays DEF Answer

\* Only a restoring can be lost, and nothing that crossed is forgotten.
LEMMA LostForGood ==
  ASSUME Shape, [Next]_vars
  PROVE  (~lost' => ~lost) /\ (~crossed' => ~crossed)
<1>1. OpOK
  BY DEF Shape
<1>2. ASSUME NEW t \in Threads, Threaded(t)
      PROVE  ~lost' => ~lost
  BY <1>2 DEF Threaded, Wiring, ReadPorts, Feed, Tap, RestoreIn, RestoreOut, EndPlay
<1>3. Land \/ PlayerRecalls \/ TakeCommand \/ Create => (~crossed' => ~crossed)
  BY DEF Land, PlayerRecalls, TakeCommand, Create
<1> QED
  BY <1>1, <1>2, <1>3, Frames

\* How a measurement of scenes goes on.
LEMMA ScenesGoOn ==
  ASSUME Shape, [Next]_vars, Main, ~TakeCommand, op.do = "measure_scenes", op'.do = op.do
  PROVE  /\ op.at \in {"rows", "with", "within", "leave", "scene back"} => (op'.sure => op.sure)
         /\ op.at = "scene" => op'.at = "rows" /\ (op'.sure => op'.before = unit.scene)
         /\ op.at # "scene" => op'.before = op.before
         /\ op.at \in {"within", "leave"} => op'.at \in {"within", "leave", "scene back"}
         /\ op.at = "scene back" => op'.at = "answer" /\ (unit'.scene = op.before \/ op'.stuck)
         /\ op.at \in {"grid", "pointer", "active"} => op'.at \in {"pointer", "active", "scene", "answer"}
         /\ op.at = "rows" => op'.at \in {"with", "answer"}
         /\ op.at = "with" => op'.at = "within"
         /\ op.at \in {"grid", "pointer", "active", "scene", "rows", "with", "within", "leave",
                      "scene back"}
<1>1. Stays /\ DOMAIN op = Fields /\ op.at \notin {"idle", "answer"}
  BY Going DEF Shape
<1>2. Underway
  BY <1>1 DEF Stays
<1>3. op.at \in {"grid", "pointer", "active", "scene", "rows", "with", "within", "leave",
                "scene back"}
  BY <1>1, <1>2 DEF Underway, Stages
<1>4. CASE NoAnswer
  <2>1. op' = [op EXCEPT !.at = "answer", !.error = TRUE] /\ op.at \in {"grid", "pointer", "rows"}
    BY <1>3, <1>4 DEF NoAnswer, Failed
  <2> QED
    BY <1>1, <2>1 DEF Fields
<1>5. CASE Reading
  <2>1. Reads
    BY <1>5, ReadsOnly DEF Shape
  <2>2. AfterState = "scene"
    BY DEF AfterState, Trimming
  <2>3. op.at \in {"drain", "listen", "landed", "grid", "pointer", "active"}
    BY <2>1 DEF Reads
  <2> QED
    BY <1>3, <2>1, <2>2, <2>3 DEF Reads
<1>6. CASE op.at = "scene"
  <2>1. \E s \in Scenes : op' = [op EXCEPT !.at = "rows", !.before = s, !.sure = s = unit.scene]
    BY <1>6, Doers DEF ReadScene
  <2> QED
    BY <1>1, <1>6, <2>1 DEF Fields
<1>7. CASE op.at = "rows" /\ ~NoAnswer
  <2>1. RowsKnown
    BY <1>7, Doers DEF BeginPlay
  <2>2. op' = [op EXCEPT !.at = "with"]
    BY <2>1 DEF RowsKnown, GoOn
  <2> QED
    BY <1>1, <1>7, <2>2 DEF Fields
<1>8. CASE op.at = "with"
  <2>1. op' = [op EXCEPT !.at = "within"]
    BY <1>8, Doers DEF With, GoOn
  <2> QED
    BY <1>1, <1>8, <2>1 DEF Fields
<1>9. CASE Left
  <2>1. op' = [op EXCEPT !.at = "scene back", !.error = @ \/ On("within")]
    BY <1>9 DEF Left
  <2>2. PICK e : op' = [op EXCEPT !.at = "scene back", !.error = e]
    BY <2>1
  <2>3. op.at \in {"within", "leave"}
    BY <1>9 DEF Left
  <2> QED
    BY <1>1, <2>2, <2>3 DEF Fields
<1>10. CASE op.at = "within" /\ ~Left
  <2>1. Scene \/ LastScene \/ Raise
    BY <1>10, Doers DEF MeasureOnce, AddGain, LevelStep
  <2>2. \/ op' = [op EXCEPT !.at = "leave"]
        \/ op' = [op EXCEPT !.at = "leave", !.error = TRUE]
        \/ \E i, r : op' = [op EXCEPT !.i = i, !.rows = r]
    BY <2>1, Zenon DEF Scene, LastScene, Raise, GoOn
  <2> QED
    BY <1>1, <1>10, <2>2 DEF Fields
<1>11. CASE op.at = "scene back"
  <2>1. SceneBack
    BY <1>11, Doers
  <2>2. CASE unit' = [unit EXCEPT !.scene = op.before] /\ op' = [op EXCEPT !.at = "answer"]
    BY <1>1, <1>11, <2>2 DEF Fields, Shape, UnitOK, Units
  <2>3. CASE op' = [op EXCEPT !.at = "answer", !.error = TRUE, !.stuck = TRUE]
    BY <1>1, <1>11, <2>3 DEF Fields
  <2> QED
    BY <2>1, <2>2, <2>3, ZenonT(30) DEF SceneBack, GoOn
<1> QED
  BY <1>3, <1>4, <1>5, <1>6, <1>7, <1>8, <1>9, <1>10, <1>11, Doers DEF Reading

\* A run that only reports touches nothing.
LEMMA DryTouchesNothing ==
  ASSUME Shape, RunOf, LevelStep, op.arg.dry
  PROVE  unit' = unit
<1>1. run # NoRun
  BY RunSteps, RunIsOne
<1>2. run.at \in {"first", "ended"}
  BY <1>1 DEF RunOf
<1>3. First \/ LeaveRun
  BY <1>2 DEF LevelStep, Leveling, WriteTrim, Again, BackOff
<1> QED
  BY <1>3 DEF First, LeaveRun

\* What a command that only reports does to the preset besides its ports.
LEMMA ReportTouches ==
  ASSUME Shape, Unasked, RunOf, [Next]_vars, ReportOnly(op), calm, calm'
  PROVE  /\ op.do # "measure_many" => Unmoved
         /\ op.do \in {"measure", "autolevel"} => unit'.scene = unit.scene
         /\ op.do = "measure_scenes" => \/ unit'.scene = unit.scene
                                       \/ op.at = "within"
                                       \/ (op.at = "scene back" /\ SceneBack)
         /\ op.do = "measure_many" => Land \/ (Unmoved /\ unit'.scene = unit.scene)
         /\ saved' = saved
<1>1. OpOK
  BY DEF Shape
<1>2. op.do \in {"measure", "measure_many", "measure_scenes", "autolevel"}
      /\ (op.do = "autolevel" => op.arg.dry)
  BY DEF ReportOnly, Reporting
<1>3. ~PlayerRecalls
  BY DEF PlayerRecalls
<1>4. op.do # "measure_many" => ~Land
  BY <1>2 DEF Unasked, Land
<1>5. ~Do
  <2>1. Do => op.at = "do"
    BY DEF Do, On
  <2> QED
    BY <1>1, <1>2, <2>1, DoneAtOnce DEF AtOnce
<1>6. ~ApplyTrim /\ ~AddGain
  BY <1>2 DEF ApplyTrim, AddGain
<1>7. ~PutBack /\ ~Create
  <2>1. PutBack => op.at = "put back"
    BY DEF PutBack, On
  <2>2. Create => op.at = "create"
    BY DEF Create, On
  <2> QED
    BY <1>1, <1>2, <2>1, <2>2, Busy, Whereabouts
<1>8. LevelStep => op.do = "autolevel" /\ unit' = unit
  BY <1>2, DryTouchesNothing DEF LevelStep
<1>9. SceneBack => op.do = "measure_scenes" /\ op.at = "scene back"
  <2>1. SceneBack => op.at = "scene back"
    BY DEF SceneBack, On
  <2> QED
    BY <1>1, <2>1, Busy, Whereabouts
<1>10. Scene \/ LastScene => op.do \in {"measure_scenes", "level_scenes"} /\ op.at = "within"
  BY DEF Scene, LastScene, On
<1>11. saved' = saved
  BY <1>1, <1>7, Frames
<1>12. \/ Land
       \/ Unmoved /\ (unit'.scene = unit.scene \/ Scene \/ LastScene \/ SceneBack)
  BY <1>3, <1>5, <1>6, <1>7, <1>8, UnitMoves DEF Unmoved
<1>13. op.do # "measure_many" => Unmoved
  BY <1>4, <1>12
<1>14. op.do \in {"measure", "autolevel"} => unit'.scene = unit.scene
  BY <1>4, <1>9, <1>10, <1>12
<1>15. op.do = "measure_scenes" =>
         unit'.scene = unit.scene \/ op.at = "within" \/ (op.at = "scene back" /\ SceneBack)
  BY <1>4, <1>9, <1>10, <1>12
<1>16. op.do = "measure_many" => Land \/ unit'.scene = unit.scene
  BY <1>9, <1>10, <1>12
<1>17. op.do = "measure_many" => Land \/ Unmoved
  BY <1>12
<1> QED
  BY <1>11, <1>13, <1>14, <1>15, <1>16, <1>17, Zenon

\* Every step of a report keeps account of what it found.
LEMMA ReportKept ==
  ASSUME Shape, RouteInv, RunOf, ReportInv, [Next]_vars
  PROVE  ReportInv'
<1> SUFFICES ASSUME ReportOnly(op'), calm', ~crossed'
             PROVE  /\ ~lost' => FoundHome'
                    /\ op'.do # "measure_many" => Same'
                    /\ op'.do \in {"measure", "autolevel"} => SameScene'
                    /\ op'.do = "measure_scenes" => Returns'
                    /\ op'.do = "measure_many" => (Same' /\ SameScene') \/ AsSaved'
  BY DEF ReportInv, ReportOnly
<1>1. OpOK /\ UnitOK /\ SavedOK /\ Unasked /\ LoopWired /\ Wires
  BY DEF Shape, RouteInv
<1>2. ~crossed /\ (~lost' => ~lost)
  BY LostForGood
<1>3. CASE TakeCommand
  <2>1. op'.found = unit /\ unit' = unit /\ op.at = "idle" /\ op'.do = Head(inbox).do
        /\ op'.at = Begins(Head(inbox))
    BY <1>3 DEF TakeCommand, Started, leveling
  <2>2. op'.do \notin Harmless
    BY DEF ReportOnly, Reporting, Harmless
  <2>3. ~Playing
    BY <1>3, <2>1, <2>2 DEF TakeCommand
  <2>4. ~Wired
    BY <1>1, <2>1, <2>3 DEF LoopWired, Playing, Wired, Players
  <2>5. ~lost' => Home
    BY <1>1, <1>2, <2>4 DEF Wires
  <2>6. ~lost' => FoundHome'
    BY <2>1, <2>5 DEF FoundHome, Home
  <2>7. Same' /\ SameScene'
    BY <2>1 DEF Same, SameScene
  <2>8. op'.do = "measure_scenes" => op'.at = "grid"
    BY <2>1 DEF Begins
  <2> QED
    BY <2>6, <2>7, <2>8 DEF Returns
<1>4. CASE ~TakeCommand
  <2>1. calm
    BY <1>4, CalmBefore
  <2>2. ~Answer
    BY DEF Answer, NoOp, ReportOnly, Reporting
  <2>3. op'.do = op.do /\ op'.arg = op.arg /\ op'.found = op.found
    BY <1>1, <1>4, <2>2, CommandStays DEF Stays
  <2>4. ReportOnly(op)
    BY <2>3 DEF ReportOnly
  <2>5. /\ op.do # "measure_many" => Unmoved
        /\ op.do \in {"measure", "autolevel"} => unit'.scene = unit.scene
        /\ op.do = "measure_scenes" => \/ unit'.scene = unit.scene
                                      \/ op.at = "within"
                                      \/ (op.at = "scene back" /\ SceneBack)
        /\ op.do = "measure_many" => Land \/ (Unmoved /\ unit'.scene = unit.scene)
        /\ saved' = saved
    BY <1>1, <2>1, <2>4, ReportTouches
  <2>6. /\ ~lost => FoundHome
        /\ op.do # "measure_many" => Same
        /\ op.do \in {"measure", "autolevel"} => SameScene
        /\ op.do = "measure_scenes" => Returns
        /\ op.do = "measure_many" => (Same /\ SameScene) \/ AsSaved
    BY <1>2, <2>1, <2>4, Zenon DEF ReportInv
  <2>7. ~lost' => FoundHome'
    BY <1>2, <2>3, <2>6, Zenon DEF FoundHome
  <2>8. op.do # "measure_many" => Same'
    BY <2>3, <2>5, <2>6 DEF Same, Unmoved
  <2>9. op.do \in {"measure", "autolevel"} => SameScene'
    BY <2>3, <2>5, <2>6 DEF SameScene
  <2>10. op.do = "measure_many" => (Same' /\ SameScene') \/ AsSaved'
    <3>1. CASE Land
      <4>1. PICK q \in Presets : q = Head(asked)
        BY <3>1, Queueing DEF Land, Shape, Traffic
      <4>2. unit' = Loaded(q, saved[q])
        BY <3>1, <4>1 DEF Land
      <4>3. AsSaved'
        BY <2>5, <4>2 DEF AsSaved, Loaded
      <4> QED
        BY <4>3
    <3>2. CASE ~Land
      BY <2>3, <2>5, <2>6, <3>2 DEF Same, SameScene, AsSaved, Unmoved
    <3> QED
      BY <3>1, <3>2
  <2>11. ASSUME op.do = "measure_scenes"
         PROVE  Returns'
    <3>1. CASE ~Main
      <4>1. op' = op
        BY <3>1, Aside
      <4>2. unit'.scene = unit.scene
        <5>1. asked = <<>>
          BY <1>1, <2>1, <2>11 DEF Unasked
        <5> QED
          BY <3>1, <5>1, AsideAtRest
      <4> QED
        BY <2>6, <2>11, <4>1, <4>2 DEF Returns, SameScene
    <3>2. CASE Main
      <4>1. /\ op.at \in {"rows", "with", "within", "leave", "scene back"} => (op'.sure => op.sure)
            /\ op.at = "scene" => op'.at = "rows" /\ (op'.sure => op'.before = unit.scene)
            /\ op.at # "scene" => op'.before = op.before
            /\ op.at \in {"within", "leave"} => op'.at \in {"within", "leave", "scene back"}
            /\ op.at = "scene back" => op'.at = "answer" /\ (unit'.scene = op.before \/ op'.stuck)
            /\ op.at \in {"grid", "pointer", "active"} => op'.at \in {"pointer", "active", "scene", "answer"}
            /\ op.at = "rows" => op'.at \in {"with", "answer"}
            /\ op.at = "with" => op'.at = "within"
            /\ op.at \in {"grid", "pointer", "active", "scene", "rows", "with", "within", "leave",
                         "scene back"}
        BY <1>4, <2>3, <2>11, <3>2, ScenesGoOn
      <4>2. Returns
        BY <2>6, <2>11
      <4>3. CASE op.at = "scene back"
        BY <2>3, <4>1, <4>2, <4>3 DEF Returns, SameScene
      <4>4. CASE op.at = "scene"
        <5>1. unit'.scene = unit.scene
          BY <2>5, <2>11, <4>4
        <5> QED
          BY <2>3, <4>1, <4>2, <4>4, <5>1 DEF Returns, SameScene
      <4>5. CASE op.at \in {"within", "leave"}
        BY <2>3, <4>1, <4>2, <4>5 DEF Returns
      <4>6. CASE op.at \in {"grid", "pointer", "active", "rows", "with"}
        <5>1. unit'.scene = unit.scene
          BY <2>5, <2>11, <4>6
        <5> QED
          BY <2>3, <4>1, <4>2, <4>6, <5>1 DEF Returns, SameScene
      <4> QED
        BY <4>1, <4>3, <4>4, <4>5, <4>6
    <3> QED
      BY <3>1, <3>2
  <2> QED
    BY <2>3, <2>7, <2>8, <2>9, <2>10, <2>11
<1> QED
  BY <1>3, <1>4

\* Whatever is measured, scene by scene, preset by preset or in a dry run, and
\* whatever of it fails but the putting back of an end or of the scene: the preset
\* is as it was found, or as it is saved; that is, if nobody is at the unit, no
\* recall or save met a wiring, and the scene to go back to was told in time.
THEOREM ReportsTouchNothing == Spec => []ReportsWriteNothing
<1>1. Init => FoundOK /\ ReportInv
  BY DEF Init, NoOp, FoundOK, ReportInv, ReportOnly, Reporting
<1>2. Shape /\ RouteInv /\ RunOf /\ RunInv /\ FoundOK /\ ReportInv /\ [Next]_vars
        => (FoundOK /\ ReportInv)'
  BY FoundKept, ReportKept
<1>3. Shape /\ RouteInv /\ FoundOK /\ ReportInv => ReportsWriteNothing
  <2> SUFFICES ASSUME Shape, RouteInv, FoundOK, ReportInv, op.at = "answer", ReportOnly(op),
                      op.do = "measure_scenes" => op.sure /\ ~op.stuck, calm, ~crossed, ~lost
               PROVE  \/ unit = op.found
                      \/ op.do = "measure_many" /\ unit = Loaded(unit.pre, saved[unit.pre])
    BY Zenon DEF ReportsWriteNothing, On
  <2>1. op.do \in {"measure", "measure_many", "measure_scenes", "autolevel"}
    BY DEF ReportOnly, Reporting
  <2>2. \A t \in Threads : At(t, "off")
    <3>1. op.do \notin Harmless \cup {"none"} /\ op.do # "play"
      BY <2>1 DEF Harmless
    <3> QED
      BY <3>1, AllOff DEF RouteInv
  <2>3. Home /\ SlotsHome
    BY <2>2 DEF RouteInv, Wires, Wired
  <2>4. FoundHome /\ ((Same /\ SameScene) \/ (op.do = "measure_many" /\ AsSaved))
    BY <2>1 DEF ReportInv, Returns
  <2>5. UnitOK /\ SavedOK
    BY DEF Shape
  <2>6. CASE Same /\ SameScene
    <3>1. op # NoOp
      BY <2>1 DEF NoOp
    <3>2. unit.in = op.found.in /\ unit.out = op.found.out
      BY <2>3, <2>4, <2>6 DEF Home, FoundHome, Same
    <3>3. PICK f : f = op.found
      OBVIOUS
    <3>4. f \in Units
      BY <3>1, <3>3 DEF FoundOK
    <3>5. unit = f
      BY <2>5, <2>6, <3>2, <3>3, <3>4 DEF UnitOK, Units, Same, SameScene
    <3> QED
      BY <3>3, <3>5
  <2>7. CASE op.do = "measure_many" /\ AsSaved
    <3>1. unit.pre \in Presets
      BY <2>5 DEF UnitOK, Units
    <3>2. /\ unit.in = saved[unit.pre].in /\ unit.out = saved[unit.pre].out
          /\ unit.db = saved[unit.pre].db /\ unit.gain = saved[unit.pre].gain /\ unit.scene = 0
          /\ unit.name = saved[unit.pre].name /\ unit.scened = saved[unit.pre].scened
      BY <2>3, <2>7, <3>1 DEF Home, SlotsHome, AsSaved
    <3>3. unit = Loaded(unit.pre, saved[unit.pre])
      BY <2>5, <3>2 DEF UnitOK, Units, Loaded
    <3> QED
      BY <2>7, <3>3
  <2> QED
    BY <2>4, <2>6, <2>7
<1> QED
  BY <1>1, <1>2, <1>3, RunHolds, PTL DEF Spec

=============================================================================
