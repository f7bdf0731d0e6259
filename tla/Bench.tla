-------------------------------- MODULE Bench --------------------------------
(***************************************************************************)
(* The leveling bench (leveling.py): one loop takes Patchbay's commands    *)
(* from stdin, one at a time, and talks to the unit; riffs are played by   *)
(* threads of their own, takes recorded by the audio thread.  One step per *)
(* message to the unit, or read of it.                                     *)
(***************************************************************************)
EXTENDS AutoLevel, Sampler

CONSTANTS Sessions,   \* the sequences of commands Patchbay may send
          MaxPlayer   \* recalls at the unit itself

\* A preset by folder and position, or by the cloud_id of a download.
Addresses == [pos : Presets, cloud : BOOLEAN]

\* What Patchbay may send, with what each command takes.
Commands ==
  [do : {"state", "save", "revert_levels", "measure", "play", "stop_play", "cancel",
         "sample_arm", "sample_stop", "sample_discard", "use_riff"}] \cup
  [do : {"open"}, pos : Presets, cloud : BOOLEAN] \cup [do : {"level"}, db : Int] \cup
  [do : {"scene"}, scene : Scenes] \cup [do : {"measure_many"}, list : Seq(Addresses)] \cup
  [do : {"measure_scenes", "level_scenes"}, scenes : Seq(Scenes), dry : BOOLEAN] \cup
  [do : {"autolevel"}, dry : BOOLEAN] \cup
  [do : {"apply_trim"}, open : {FALSE}, db : Int] \cup
  [do : {"apply_trim"}, open : {TRUE}, pos : Presets, cloud : BOOLEAN, db : Int]

ASSUME SessionsAssumption == Sessions \subseteq Seq(Commands)

VARIABLES
  script, inbox,  \* commands not sent yet, and sent but not taken
  op,         \* the command the loop is at
  applied,    \* by name of preset: what a fader read before the first trim, or NoTrim
  cancelled,  \* the flag of `cancel`
  told,       \* _pending: the presets of RecallPreset broadcasts
  asked,      \* the unit: recalls it has still to do
  coming,     \* the unit: broadcasts it has still to make
  saved,      \* the unit: its slots
  was,        \* history, by name: the levels that the trims since the last
              \* revert found, the first of each preset and scene
  calm, crossed,  \* history: nobody at the unit during this command; a wiring
                  \* or a save met another command, or somebody at the unit
  begun,      \* history: presets begun since a cancel was sent
  played

device == <<asked, coming, saved>>
history == <<was, calm, crossed, begun, played>>
loop == <<op, applied, cancelled>>
vars == <<leveling, sampling, script, inbox, loop, told, device, history>>

Names == {Name[p] : p \in Presets}
NoTrim == Lo - 1
NoOp == [do |-> "none", at |-> "idle"]

\* A command and how far it is: the preset read, under which position; its name,
\* levels, and the level it is taken to be at; the rows of its report; whether it
\* failed; whether all it was told was so, and nothing else was on its way;
\* whether it could not put the scene back; what a revert undid; what it found
\* when it began.
Started(c) == [do |-> c.do, arg |-> c, at |-> "start", i |-> 1, got |-> 0, label |-> 0,
               name |-> unit.name, levels |-> unit.db, level |-> Db, rows |-> <<>>,
               error |-> FALSE, sure |-> TRUE, stuck |-> FALSE, before |-> 0, undone |-> {},
               found |-> unit]

Reporting == {"measure", "measure_many", "measure_scenes"}
ReportOnly(o) == o.do \in Reporting \/ (o.do = "autolevel" /\ o.arg.dry)
Trimming == {"apply_trim", "autolevel"}
Harmless == {"state", "cancel", "sample_arm", "sample_stop", "sample_discard", "use_riff",
             "stop_play"}

Players == Threads \ {Loop}
Wired == \E t \in Threads : ~At(t, "off")
Playing == \E t \in Players : ~At(t, "off")

Init ==
  /\ \E p \in Presets : LevelInit(p)
  /\ SamplerInit
  /\ script \in Sessions /\ inbox = <<>>
  /\ op = NoOp
  /\ applied = [n \in Names |-> NoTrim] /\ was = [n \in Names |-> {}]
  /\ cancelled = FALSE
  /\ told = <<>> /\ asked = <<>> /\ coming = <<>>
  /\ saved = [p \in Presets |-> AsMade(p)]
  /\ calm = TRUE /\ crossed = FALSE /\ begun = 0 /\ played = 0

-----------------------------------------------------------------------------
(* The unit, and the player at it *)

\* A recall is done some time after it was asked for, and then announced.
Land ==
  /\ asked # <<>>
  /\ unit' = Loaded(Head(asked), saved[Head(asked)])
  /\ asked' = Tail(asked)
  /\ coming' = Append(coming, Head(asked))
  /\ crossed' = (crossed \/ Wired)
  /\ UNCHANGED <<reamp, run, lost, sampling, script, inbox, loop, told, saved, was, calm, begun,
                 played>>

Announce ==
  /\ coming # <<>>
  /\ told' = Append(told, Head(coming)) /\ coming' = Tail(coming)
  /\ UNCHANGED <<leveling, sampling, script, inbox, loop, asked, saved, history>>

PlayerRecalls ==
  /\ played < MaxPlayer /\ asked = <<>>
  /\ \E p \in Presets : unit' = Loaded(p, saved[p]) /\ coming' = Append(coming, p)
  /\ played' = played + 1
  /\ calm' = FALSE
  /\ crossed' = (crossed \/ Wired)
  /\ UNCHANGED <<reamp, run, lost, sampling, script, inbox, loop, told, asked, saved, was, begun>>

-----------------------------------------------------------------------------
(* serve *)

Send ==
  /\ script # <<>>
  /\ inbox' = Append(inbox, Head(script)) /\ script' = Tail(script)
  /\ UNCHANGED <<leveling, sampling, loop, told, device, history>>

\* Where a command begins.
Begins(c) ==
  CASE c.do \in {"state", "revert_levels"} -> "grid"
    [] c.do = "open" -> "drain"
    [] c.do = "apply_trim" -> IF c.open THEN "drain" ELSE "grid"
    [] c.do = "measure_scenes" -> "grid"
    [] c.do = "save" -> "pointer"
    [] c.do = "measure_many" -> "next"
    [] c.do \in {"measure", "level_scenes", "autolevel", "play"} -> "rows"
    [] OTHER -> "do"

TakeCommand ==
  /\ op.at = "idle" /\ inbox # <<>>
  /\ op' = [Started(Head(inbox)) EXCEPT !.at = Begins(Head(inbox))]
  /\ inbox' = Tail(inbox)
  /\ cancelled' = (cancelled /\ Head(inbox).do # "measure_many")
  /\ calm' = (asked = <<>>)
  /\ crossed' = (crossed \/ (Playing /\ Head(inbox).do \notin Harmless))
  /\ begun' = 0
  /\ UNCHANGED <<leveling, sampling, script, applied, told, device, was, played>>

\* An idle loop throws away what came.
Pump ==
  /\ op.at = "idle" /\ inbox = <<>> /\ told # <<>>
  /\ told' = <<>>
  /\ UNCHANGED <<leveling, sampling, script, inbox, loop, device, history>>

Answer ==
  /\ op.at = "answer"
  /\ op' = NoOp
  /\ run' = NoRun
  /\ UNCHANGED <<unit, reamp, lost, sampling, script, inbox, applied, cancelled, told, device,
                 history>>

On(at) == op.at = at
GoOn(at) == op' = [op EXCEPT !.at = at]
Quiet == UNCHANGED <<script, inbox, told, device, history>>

\* The guard of every command; a list goes on with its next preset.
Failed == IF op.do = "measure_many"
          THEN op' = [op EXCEPT !.at = "next", !.i = @ + 1, !.rows = Append(@, "error")]
          ELSE op' = [op EXCEPT !.at = "answer", !.error = TRUE]

\* Anything asked of the unit may stay without an answer.
NoAnswer ==
  /\ op.at \in {"grid", "pointer", "landed", "rows", "create", "put back", "do", "recall"}
  /\ Failed
  /\ UNCHANGED <<leveling, sampling, applied, cancelled>> /\ Quiet

-----------------------------------------------------------------------------
(* Bench.open, preset_state *)

\* A list makes no use of what open reads of a preset.
Learn(o) == op' = IF op.do = "measure_many" THEN [op EXCEPT !.at = o.at] ELSE o

Address == IF op.do = "measure_many" THEN op.arg.list[op.i] ELSE op.arg
Wanted == Address.pos

DrainNothing ==  \* mutant: what is buffered stays
  /\ On("drain")
  /\ Learn([op EXCEPT !.at = "recall", !.sure = coming = <<>> /\ asked = <<>>])
  /\ UNCHANGED <<leveling, sampling, applied, cancelled, script, inbox, told, device, history>>

Drain ==
  /\ On("drain")
  /\ told' = <<>>
  /\ Learn([op EXCEPT !.at = "recall", !.sure = coming = <<>> /\ asked = <<>>])
  /\ UNCHANGED <<leveling, sampling, applied, cancelled, script, inbox, device, history>>

Recall ==
  /\ On("recall")
  /\ asked' = Append(asked, Wanted)
  /\ GoOn("listen")
  /\ UNCHANGED <<leveling, sampling, applied, cancelled, script, inbox, told, coming, saved, history>>

\* The last payload of a batch counts.
Listen ==
  /\ On("listen") /\ told # <<>>
  /\ Learn([op EXCEPT !.at = "landed", !.got = told[Len(told)]])
  /\ told' = <<>>
  /\ UNCHANGED <<leveling, sampling, applied, cancelled, script, inbox, device, history>>

AfterOpen == IF op.do = "measure_many" THEN "rows"
             ELSE IF op.do = "apply_trim" THEN "grid" ELSE "answer"

\* The payload is believed if the pointer is there, by what the unit says of it,
\* now or late, or if there is none: that of a download has no position.
Landed ==
  /\ On("landed")
  /\ \/ Address.cloud /\ GoOn(AfterOpen)
     \/ /\ ~Address.cloud
        /\ Learn([op EXCEPT !.at = AfterOpen, !.label = Wanted, !.sure = @ /\ unit.pre = Wanted])
     \/ ~Address.cloud /\ GoOn("listen")
  /\ UNCHANGED <<leveling, sampling, applied, cancelled>> /\ Quiet

\* The time to settle is up, or nothing can be read; the recall may be still
\* under way.
GiveUp ==
  /\ On("listen")
  /\ Learn([op EXCEPT !.at = "grid", !.sure = @ /\ asked = <<>>])
  /\ UNCHANGED <<leveling, sampling, applied, cancelled>> /\ Quiet

\* preset_state: the grid, then the pointer, then the active scene.
ReadGrid ==
  /\ On("grid")
  /\ Learn([op EXCEPT !.at = "pointer", !.got = unit.pre, !.name = unit.name, !.levels = unit.db])
  /\ UNCHANGED <<leveling, sampling, applied, cancelled>> /\ Quiet

AfterState ==
  CASE op.do \in {"state", "open"} -> "answer"
    [] op.do = "measure_many" -> "rows"
    [] op.do \in Trimming -> "trim"
    [] op.do = "revert_levels" -> "put back"
    [] op.do = "measure_scenes" -> "scene"

\* An answer that is late may be an older one.
ReadPointer ==
  /\ On("pointer")
  /\ \E p \in Presets :
       Learn([op EXCEPT !.at = IF op.do = "save" THEN "create" ELSE "active",
                        !.label = p, !.sure = @ /\ p = unit.pre])
  /\ UNCHANGED <<leveling, sampling, applied, cancelled>> /\ Quiet

\* current_scene: scene A if there is no answer, an older one if it is late; the
\* levels shown are those of that scene.
ReadActive ==
  /\ On("active")
  /\ \E s \in Scenes :
       Learn([op EXCEPT !.at = AfterState, !.level = op.levels[s],
                        !.sure = @ /\ (op.do \in Trimming => s = unit.scene)])
  /\ UNCHANGED <<leveling, sampling, applied, cancelled>> /\ Quiet

-----------------------------------------------------------------------------
(* Commands of one write *)

\* What one command makes of the unit and its sampler, with nothing to wait for.
Do ==
  /\ On("do")
  /\ CASE op.do = "level" ->
            unit' = Moved(Clamp(op.arg.db))
            /\ UNCHANGED <<reamp, run, lost, sampling, cancelled>> /\ GoOn("answer")
       [] op.do = "scene" ->
            unit' = [unit EXCEPT !.scene = op.arg.scene]
            /\ UNCHANGED <<reamp, run, lost, sampling, cancelled>> /\ GoOn("answer")
       [] op.do = "cancel" ->
            cancelled' = TRUE /\ UNCHANGED <<leveling, sampling>> /\ GoOn("answer")
       [] op.do = "stop_play" ->
            UNCHANGED <<unit, run, lost, sampling, cancelled>> /\ GoOn("answer")
            /\ reamp' = [t \in Threads |-> IF t \in Players /\ At(t, "on")
                                           THEN [reamp[t] EXCEPT !.at = "restore in"] ELSE reamp[t]]
       [] op.do = "sample_arm" -> Arm /\ UNCHANGED <<leveling, cancelled>> /\ GoOn("answer")
       [] op.do = "sample_stop" -> StopStream /\ UNCHANGED <<leveling, cancelled>> /\ GoOn("save take")
       [] op.do = "sample_discard" -> Discard /\ UNCHANGED <<leveling, cancelled>> /\ GoOn("answer")
       [] op.do = "use_riff" -> UseRiff /\ UNCHANGED <<leveling, cancelled>> /\ GoOn("answer")
  /\ UNCHANGED applied /\ Quiet

Keep ==
  /\ On("save take")
  /\ SaveTake /\ GoOn("answer")
  /\ UNCHANGED <<leveling, applied, cancelled>> /\ Quiet

\* save: whatever is being worked on, at the position read; the unit then
\* announces the preset as after a recall.  Its name is the one being worked on.
Create ==
  /\ On("create")
  /\ saved' = [saved EXCEPT ![op.label] = [name |-> unit.name, in |-> unit.in, out |-> unit.out,
                                           db |-> unit.db, scened |-> unit.scened,
                                           gain |-> unit.gain]]
  /\ coming' = Append(coming, op.label)
  /\ crossed' = (crossed \/ ~calm \/ ~op.sure)
  /\ GoOn("answer")
  /\ UNCHANGED <<leveling, sampling, applied, cancelled, script, inbox, told, asked, was, calm,
                 begun, played>>

RememberLast ==  \* mutant: every trim starts anew
  applied' = [applied EXCEPT ![op.name] = op.level]

\* applied.setdefault, by the name of the preset read and the level read.
Remember == applied' = [applied EXCEPT ![op.name] = IF @ = NoTrim THEN op.level ELSE @]

\* What is trimmed: the scene, where each has its own level.
Place == [pre |-> unit.pre, scene |-> IF unit.scened THEN unit.scene ELSE 0]
Note == was' = [was EXCEPT ![op.name] =
                  IF \E r \in @ : r.place = Place THEN @
                  ELSE @ \cup {[place |-> Place, db |-> Db, sure |-> op.sure /\ calm]}]

ApplyTrim ==
  /\ On("trim") /\ op.do = "apply_trim"
  /\ Remember /\ Note
  /\ \/ unit' = Moved(Clamp(op.level + op.arg.db)) /\ GoOn("answer")
     \/ UNCHANGED unit /\ Failed
  /\ UNCHANGED <<reamp, run, lost, sampling, cancelled, script, inbox, told, device,
                 calm, crossed, begun, played>>

\* revert_levels, for the name of the preset that is loaded.
PutBack ==
  /\ On("put back")
  /\ IF applied[op.name] = NoTrim THEN UNCHANGED <<unit, applied>>
     ELSE /\ unit' = Moved(Clamp(applied[op.name]))
          /\ applied' = [applied EXCEPT ![op.name] = NoTrim]
  /\ op' = [op EXCEPT !.at = "answer", !.undone = was[op.name]]
  /\ was' = [was EXCEPT ![op.name] = {}]
  /\ UNCHANGED <<reamp, run, lost, sampling, cancelled, script, inbox, told, device,
                 calm, crossed, begun, played>>

-----------------------------------------------------------------------------
(* Commands that measure *)

\* measure_many reads the flag between presets.
NextPreset ==
  /\ On("next")
  /\ IF op.i > Len(op.arg.list) \/ cancelled
     THEN GoOn("answer") /\ UNCHANGED begun
     ELSE /\ GoOn("drain")
          /\ begun' = IF \E k \in DOMAIN inbox : inbox[k].do = "cancel" THEN begun + 1 ELSE begun
  /\ UNCHANGED <<leveling, sampling, applied, cancelled, script, inbox, told, device,
                 was, calm, crossed, played>>

\* measurement_rows, read by the loop also for the thread that plays.
RowsKnown ==
  /\ On("rows") /\ op.do # "play"
  /\ GoOn(IF op.do = "autolevel" /\ ~op.arg.dry THEN "grid" ELSE "with")
  /\ UNCHANGED <<leveling, sampling, applied, cancelled>> /\ Quiet

BeginPlay ==
  /\ On("rows") /\ op.do = "play"
  /\ \E t \in Players : At(t, "off") /\ Enter(t, TRUE, FALSE)
  /\ GoOn("answer")
  /\ UNCHANGED <<unit, run, lost, sampling, applied, cancelled>> /\ Quiet

\* What an automatic run is going to move can be put back from here on.
RememberFader ==
  /\ On("trim") /\ op.do = "autolevel"
  /\ Remember /\ Note
  /\ GoOn("with")
  /\ UNCHANGED <<leveling, sampling, cancelled, script, inbox, told, device,
                 calm, crossed, begun, played>>

\* current_scene once more, for the scene to go back to.
ReadScene ==
  /\ On("scene")
  /\ \E s \in Scenes :
       op' = [op EXCEPT !.at = "rows", !.before = s, !.sure = s = unit.scene]
  /\ UNCHANGED <<leveling, sampling, applied, cancelled>> /\ Quiet

With ==
  /\ On("with")
  /\ Enter(Loop, TRUE, TRUE) /\ GoOn("within")
  /\ run' = IF op.do = "autolevel" THEN StartRun(op.arg.dry) ELSE NoRun
  /\ UNCHANGED <<unit, lost, sampling, applied, cancelled>> /\ Quiet

MeasureOnce ==
  /\ On("within") /\ op.do \in {"measure", "measure_many"} /\ At(Loop, "on")
  /\ \E row \in {"measured" : m \in Heard} \cup {"error"} :
       op' = [op EXCEPT !.at = "leave", !.rows = Append(@, row)]
  /\ Go(Loop, "restore in")
  /\ UNCHANGED <<unit, run, lost, sampling, applied, cancelled>> /\ Quiet

\* level_scenes first looks for a Gain block and adds one.
AddGain ==
  /\ On("within") /\ At(Loop, "on") /\ op.do = "level_scenes" /\ ~op.arg.dry /\ ~unit.gain
  /\ op.i = 1
  /\ unit' = [unit EXCEPT !.gain = TRUE]
  /\ UNCHANGED <<reamp, run, lost, sampling, op, applied, cancelled>> /\ Quiet

\* set_scene of QuadCortex returns nothing, which both loops take for a switch
\* that failed: the scene is switched to and passed over.
SceneOf(i) == op.arg.scenes[i]
Scene ==
  /\ On("within") /\ At(Loop, "on") /\ op.do \in {"measure_scenes", "level_scenes"}
  /\ op.do = "level_scenes" /\ ~op.arg.dry /\ op.i = 1 => unit.gain
  /\ op.i <= Len(op.arg.scenes)
  /\ unit' = [unit EXCEPT !.scene = SceneOf(op.i)]
  /\ op' = [op EXCEPT !.i = @ + 1,
                      !.rows = Append(@, <<SceneOf(op.i), unit'.scene, "not confirmed">>)]
  /\ UNCHANGED <<reamp, run, lost, sampling, applied, cancelled>> /\ Quiet

\* Scene A within the wiring here, the scene found after it there.
LastScene ==
  /\ On("within") /\ At(Loop, "on") /\ op.do \in {"measure_scenes", "level_scenes"}
  /\ op.i > Len(op.arg.scenes)
  /\ unit' = IF op.do = "level_scenes" THEN [unit EXCEPT !.scene = 0] ELSE unit
  /\ Go(Loop, "restore in") /\ GoOn("leave")
  /\ UNCHANGED <<run, lost, sampling, applied, cancelled>> /\ Quiet

\* Whatever raises inside the with block leaves it.
Raise ==
  /\ On("within") /\ At(Loop, "on")
  /\ op.do \in {"measure_scenes", "level_scenes"}
  /\ Go(Loop, "restore in")
  /\ op' = [op EXCEPT !.at = "leave", !.error = TRUE]
  /\ UNCHANGED <<unit, run, lost, sampling, applied, cancelled>> /\ Quiet

BackToA ==  \* mutant: scene A in the end here too
  /\ On("scene back")
  /\ unit' = [unit EXCEPT !.scene = 0]
  /\ GoOn("answer")
  /\ UNCHANGED <<reamp, run, lost, sampling, applied, cancelled>> /\ Quiet

\* finally: it may fail like any message, and then nobody tries again.
SceneBack ==
  /\ On("scene back")
  /\ \/ unit' = [unit EXCEPT !.scene = op.before] /\ GoOn("answer")
     \/ /\ unit' \in {unit, [unit EXCEPT !.scene = op.before]}
        /\ op' = [op EXCEPT !.at = "answer", !.error = TRUE, !.stuck = TRUE]
  /\ UNCHANGED <<reamp, run, lost, sampling, applied, cancelled>> /\ Quiet

LevelStep ==
  /\ On("within") /\ op.do = "autolevel"
  /\ Leveling
  /\ op' = IF reamp' = reamp THEN op ELSE [op EXCEPT !.at = "leave"]
  /\ UNCHANGED <<sampling, applied, cancelled>> /\ Quiet

\* Out of the with block; it may also never have come to its body.
Left ==
  /\ op.at \in {"within", "leave"} /\ At(Loop, "off")
  /\ IF On("within") /\ op.do # "measure_scenes" THEN Failed
     ELSE op' = CASE op.do = "measure_many" -> [op EXCEPT !.at = "next", !.i = @ + 1]
                  [] op.do = "measure_scenes" ->
                         [op EXCEPT !.at = "scene back", !.error = @ \/ On("within")]
                  [] OTHER -> [op EXCEPT !.at = "answer", !.error = @ \/ (run # NoRun /\ run.error)]
  /\ UNCHANGED <<leveling, sampling, applied, cancelled>> /\ Quiet

-----------------------------------------------------------------------------
(* The other threads *)

EndPlay(t) ==
  /\ t \in Players /\ At(t, "on")
  /\ Go(t, "restore in")
  /\ UNCHANGED <<unit, run, lost>>

Threaded(t) ==
  /\ Wiring(t) \/ EndPlay(t)
  /\ UNCHANGED <<sampling, script, inbox, loop, told, device, history>>

AudioThread ==
  /\ Audio
  /\ UNCHANGED <<leveling, script, inbox, loop, told, device, history>>

Main == \/ TakeCommand \/ Pump \/ Answer \/ NoAnswer
        \/ Drain \/ Recall \/ Listen \/ Landed \/ GiveUp \/ ReadGrid \/ ReadPointer \/ ReadActive
        \/ Do \/ Keep \/ Create \/ ApplyTrim \/ PutBack
        \/ NextPreset \/ RowsKnown \/ BeginPlay \/ RememberFader \/ ReadScene \/ With
        \/ MeasureOnce \/ AddGain \/ Scene \/ LastScene \/ Raise \/ SceneBack \/ LevelStep \/ Left

Next == \/ Main \/ Send \/ Land \/ Announce \/ PlayerRecalls \/ AudioThread
        \/ \E t \in Threads : Threaded(t)

Spec == Init /\ [][Next]_vars

\* The loop, its threads, the audio thread and the unit all go on; nobody has
\* to send a command or touch the unit.
FairSpec == /\ Spec
            /\ WF_vars(Main) /\ WF_vars(Land) /\ WF_vars(Announce) /\ WF_vars(AudioThread)
            /\ \A t \in Threads : WF_vars(Threaded(t))

-----------------------------------------------------------------------------
TypeOK ==
  /\ unit.pre \in Presets /\ unit.name \in Names
  /\ unit.scene \in Scenes /\ unit.db \in [Scenes -> Lo .. Hi]
  /\ DOMAIN reamp = Threads
  /\ applied \in [Names -> NoTrim .. Hi]
  /\ \A p \in Presets : saved[p].db \in [Scenes -> Lo .. Hi]
  /\ state \in {"idle", "armed", "recording", "done"} /\ stream \in {"none", "open", "ended"}
  /\ blocks <= MaxBlocks /\ quiet <= MaxQuiet
  /\ run # NoRun => run.n <= MaxIterations + 1
  /\ op.at = "leave" => op.do \notin {"state", "open", "save"}

Idle == op.at = "idle" /\ asked = <<>> /\ ~Wired

\* Once nothing is under way, the preset and every slot have the wiring they
\* were made with, whatever failed, unless it was the restoring itself.
RoutingRestored ==
  Idle /\ ~crossed /\ ~lost =>
    /\ <<unit.in, unit.out>> = Own[unit.pre]
    /\ \A p \in Presets : <<saved[p].in, saved[p].out>> = Own[p]

\* The grid that a column shows is that of the preset asked for, and under its
\* position, if nothing older was still to come from the unit when it was asked
\* for, the pointer was as the unit said, the bench did not give up while the
\* recall was under way, and nobody was at the unit (leveling.py 241-248).
OpenReturnsTheAsked ==
  On("answer") /\ op.do = "open" /\ ~op.error /\ op.sure /\ calm
    => op.got = Wanted /\ (op.arg.cloud \/ op.label = Wanted)

\* revert_levels puts a fader back to where it was before the first trim since
\* the last revert, however many there were and whatever was opened in between,
\* if under the name it goes by only one preset and scene was trimmed, which is
\* the one there now, and the bench knew its level then (leveling.py 587-600).
RevertPutsBack ==
  On("answer") /\ op.do = "revert_levels" /\ ~op.error /\ calm =>
    \A r \in op.undone : op.undone = {r} /\ r.sure /\ r.place = Place => Db = r.db

\* A run that moved the fader leaves the peak at or below the ceiling, but for
\* what a measurement may be off, and one that did not says when it is over.
NeverLeftOver ==
  run.at = "ended" /\ ~run.dry /\ ~run.error /\ ~crossed /\ calm =>
    LET peak == Loudness[unit.pre] + Db + Crest[unit.pre]
        off == CHOOSE n \in Noise : \A k \in Noise : k <= n
    IN \/ peak <= Ceiling + off
       \/ ~run.written /\ run.over
       \/ Db = Lo

\* What only reports leaves the preset as it was, or as it is in its slot,
\* whatever fails, unless it is the putting back of an end or of the scene, if
\* nobody is at the unit and no recall or save meets a wiring; and the scene, if
\* the unit had said in time which one it was in (leveling.py 527, 558-561).
ReportsWriteNothing ==
  On("answer") /\ ReportOnly(op) /\ calm /\ ~crossed /\ ~lost
    /\ (op.do = "measure_scenes" => op.sure /\ ~op.stuck) =>
    \/ unit = op.found
    \/ op.do = "measure_many" /\ unit = Loaded(unit.pre, saved[unit.pre])

\* Every command is answered, whatever the unit does, and every take ends by
\* itself, at the latest at its limit.
EverythingEnds == /\ inbox # <<>> ~> (inbox = <<>> /\ op.at = "idle")
                  /\ state = "recording" ~> state # "recording"

\* leveling.py, at `cancelled`: "Set by `cancel`, read between presets."
CancelStopsTheRun == begun <= 1

\* level_scenes: only a scene whose switch is not confirmed is passed over.
SwitchedScenesAreMeasured ==
  On("answer") /\ op.do \in {"measure_scenes", "level_scenes"} =>
    \A k \in DOMAIN op.rows : op.rows[k][3] = "not confirmed" => op.rows[k][1] # op.rows[k][2]
=============================================================================
