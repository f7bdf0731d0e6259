----------------------------- MODULE PresetTools -----------------------------
(***************************************************************************)
(* The tools of the MCP server that edit a preset or the global settings   *)
(* (server.py), as the messages QuadCortex sends for them (transport.py).  *)
(*                                                                         *)
(* A call is a script: messages to send, reads to wait for, scenes to      *)
(* await.  Every step is one action, since mcp runs the tools on worker    *)
(* threads, the unit has buttons of its own, and it answers when it likes. *)
(* Pauses between messages are not steps: nothing depends on them.         *)
(***************************************************************************)
EXTENDS Unit, SequencesExt

CONSTANTS Workers,    \* threads of one MCP server
          Jobs,       \* Jobs[w]: the calls thread w may make
          MaxCalls,   \* MaxCalls[w]: how many of them
          Rounds,     \* reads of one _await_scene before its deadline
          MaxLag,     \* messages on their way to the unit
          MaxPlayer,  \* things done at the unit itself
          Starts      \* the presets to begin with

VARIABLES unit,
          queue,      \* what is on its way to the unit, in order
          pending,    \* _pending: scene, mode and settings messages told
          todo,       \* todo[w]: what is left of the call of w
          call,       \* call[w]
          made,       \* made[w]: number of calls made
          kept,       \* kept[w]: `previous` of load_settings_preset
          before,     \* history: the unit when the call began
          clean,      \* history: the call met no timeout and nobody else
          played

vars == <<unit, queue, pending, todo, call, made, kept, before, clean, played>>

NoCall == [tool |-> None]

\* At most one for each scene.
PerScene(S) == {list \in Seq(S) : \A i \in 1 .. Len(list) : i - 1 \in Scenes}

\* What an MCP client may ask for, and with what; match is whether the list of
\* presets has the one named.
BlockSpec == [col : Cols, device : Devices, params : Seq(Params \X Values)]
Chain == [row : Rows, in : Nat \cup {None}, out : Nat \cup {None},
          split : Points \cup {None}, blocks : Seq(BlockSpec)]
Calls ==
  [tool : {"build_preset"}, clear : BOOLEAN, spec : Seq(Chain)]
  \cup [tool : {"clear_grid", "get_mode", "get_current_preset", "get_io_settings",
                "list_device_presets", "list_settings_presets", "read_input_level"}]
  \cup [tool : {"add_block"}, cell : Cells, device : Devices, params : Seq(Params \X Values)]
  \cup [tool : {"add_capture", "add_ir"}, cell : Cells, key : Values]
  \cup [tool : {"remove_block"}, cell : Cells]
  \cup [tool : {"set_parameter"}, cell : Cells, param : Params, value : Values]
  \cup [tool : {"set_parameter_scenes"}, cell : Cells, param : Params, values : PerScene(Values)]
  \cup [tool : {"assign_expression"}, cell : Cells, param : Params, pedal : Nat]
  \cup [tool : {"add_split"}, row : Rows, points : Points]
  \cup [tool : {"set_lane_routing"}, row : Rows, in : Nat \cup {None}, out : Nat \cup {None}]
  \cup [tool : {"set_lane_output", "set_mixer"}, row : Rows, value : Values]
  \cup [tool : {"switch_scene"}, scene : Scenes]
  \cup [tool : {"set_preset_meta"}, labels : PerScene(Names \cup {None})]
  \cup [tool : {"set_block_bypass"}, cell : Cells, value : Values, scenes : PerScene(Values)]
  \cup [tool : {"assign_stomp"}, cell : Cells, switch : Switches, kind : Kinds,
         momentary : BOOLEAN]
  \cup [tool : {"unassign_stomp"}, cell : Cells, switch : Switches]
  \cup [tool : {"load_device_preset"}, cell : Cells, match : BOOLEAN, value : Values]
  \cup [tool : {"save_device_preset"}, cell : Cells, name : Names]
  \cup [tool : {"delete_device_preset"}, name : Names]
  \cup [tool : {"switch_mode"}, mode : Modes]
  \cup [tool : {"set_mode_cycle"}, modes : SUBSET Modes]
  \cup [tool : {"set_global_eq", "set_io_port", "write_input_level"}, value : Values]
  \cup [tool : {"load_settings_preset"}, target : {"eq"}, match : BOOLEAN, value : Values]
  \cup [tool : {"load_settings_preset"}, target : {"io"}, match : BOOLEAN, value : Values,
         confirm : BOOLEAN]

\* What the unit can be asked for.
Topics == {"scene", "mode", "eq", "io", "preset", "presets"}

ASSUME PresetToolsAssumption ==
  /\ \A w \in Workers : Jobs[w] \subseteq Calls
  /\ \A u \in Starts : u \in Units /\ Tidy(u)
  /\ Rounds \in Nat \ {0}
  /\ {"cap", "ir"} \subseteq Devices
  /\ None \notin Workers \cup Topics \cup Commands \cup [blocks : Blocks]
  /\ \A modes \in SUBSET Modes : modes # None

-----------------------------------------------------------------------------
(* QuadCortex: one message each *)

Sent(c) == [do |-> "send", cmd |-> c]
Read(of, then) == [do |-> "read", cmd |-> None, of |-> of, then |-> then]
Request(c, of) == [do |-> "read", cmd |-> c, of |-> of, then |-> "go on"]
AwaitScene(s) == [do |-> "await", cmd |-> None, of |-> "scene", scene |-> s, left |-> Rounds]

QcAddBlock(cell, device) == <<Sent([op |-> "block", cell |-> cell, device |-> device])>>
QcDeleteBlock(cell) == <<Sent([op |-> "delete", cell |-> cell])>>
QcSetRouting(row, in, out) == <<Sent([op |-> "route", row |-> row, in |-> in, out |-> out])>>
QcSetSplit(row, points) == <<Sent([op |-> "split", row |-> row, points |-> points])>>
QcSetParam(cell, p, v) == <<Sent([op |-> "param", cell |-> cell, param |-> p, value |-> v])>>
QcAssignToScenes(cell, p) == <<Sent([op |-> "assign", cell |-> cell, param |-> p])>>
QcWriteBypass(cell, v) == <<Sent([op |-> "bypass", cell |-> cell, value |-> v])>>
QcExpression(cell, p, n) == <<Sent([op |-> "expr", cell |-> cell, param |-> p, pedal |-> n])>>
QcLaneParam(row, f, v) == <<Sent([op |-> "lane", row |-> row, field |-> f, value |-> v])>>
QcSetScene(s) == <<Sent([op |-> "scene", scene |-> s])>>
QcSceneLabel(s, l) == <<Sent([op |-> "label", scene |-> s, label |-> l])>>
QcLoadModel(cell, d, v) == <<Sent([op |-> "model", cell |-> cell, device |-> d, value |-> v])>>
QcUnassignStomp(cell, w) == <<Sent([op |-> "unstomp", cell |-> cell, switch |-> w])>>
\* Say whose settings are meant, then have them saved; the unit has one slot.
QcSelectSlot(cell) == <<Request([op |-> "select", cell |-> cell], "presets")>>
QcSaveModel(cell, name) ==
  QcSelectSlot(cell) \o <<Request([op |-> "create", name |-> name], "presets")>>
QcModelPresets(then) == Read("presets", then)
QcDeleteModel(name) == <<Sent([op |-> "forget", name |-> name])>>
QcSetMode(m) == <<Sent([op |-> "mode", mode |-> m])>>
QcSetModeCycle(ms) == <<Sent([op |-> "cycle", modes |-> ms])>>
QcGlobalEq(v) == <<Sent([op |-> "eq", value |-> v])>>
QcIoPort(v) == <<Sent([op |-> "io", value |-> v])>>
QcLoadSettings(target, v) ==
  <<Sent([op |-> IF target = "io" THEN "io" ELSE "eq", value |-> v])>>

QcPresetMeta(labels) ==
  FlattenSeq([i \in 1 .. Len(labels) |->
    IF labels[i] = None THEN <<>> ELSE QcSceneLabel(i - 1, labels[i])])

\* The flag is a message of its own, after the one whose echo clears it.
QcAssignStomp(cell, w, kind, momentary) ==
  <<Sent([op |-> "stomp", cell |-> cell, switch |-> w, kind |-> kind]),
    Sent([op |-> "momentary", switch |-> w, on |-> momentary])>>

\* A block and the string parameters that bind a capture or an IR to it.
QcSetCapture(cell, key) == QcAddBlock(cell, "cap") \o QcSetParam(cell, 1, key)
QcSetIr(cell, key) == QcAddBlock(cell, "ir") \o QcSetParam(cell, 0, key) \o QcSetParam(cell, 1, key)

WalkInHaste(values, write) ==  \* mutant: no wait for the switch
  FlattenSeq([i \in 1 .. Len(values) |-> QcSetScene(i - 1) \o write[values[i]]])
  \o QcSetScene(0) \o <<AwaitScene(0)>>

WalkFromOne(values, write) ==  \* mutant: scenes counted from one
  FlattenSeq([i \in 1 .. Len(values) |->
    QcSetScene(i) \o <<AwaitScene(i)>> \o write[values[i]]])

\* One walk over the scenes for a list of values: make it active, await it,
\* write; scene A in the end.  What the await came to makes no difference.
Walk(values, write) ==
  FlattenSeq([i \in 1 .. Len(values) |->
    QcSetScene(i - 1) \o <<AwaitScene(i - 1)>> \o write[values[i]]])
  \o QcSetScene(0) \o <<AwaitScene(0)>>

QcSetParamScenes(cell, p, values) ==
  QcAssignToScenes(cell, p) \o Walk(values, [v \in Values |-> QcSetParam(cell, p, v)])

\* Row by row what the preset read says, then the routing of an empty grid.
QcClearRow(i, blocks) ==
  FlattenSeq([j \in 1 .. Width |->
    IF blocks[<<i, j - 1>>] = None THEN <<>> ELSE QcDeleteBlock(<<i, j - 1>>)])
  \o QcSetSplit(i, None)

QcClearGrid(blocks) ==
  FlattenSeq([i \in 1 .. Height |-> QcClearRow(i - 1, blocks)])
  \o QcSetRouting(0, 1, 19)
  \o FlattenSeq([i \in 1 .. Height - 1 |-> QcSetRouting(i, 0, 0)])

-----------------------------------------------------------------------------
(* The tools *)

QcSetParams(cell, params) ==
  FlattenSeq([i \in 1 .. Len(params) |-> QcSetParam(cell, params[i][1], params[i][2])])

\* One chain of a spec: routing, splitter, blocks with their parameters.
BuildChain(ch) ==
  (IF ch.in = None /\ ch.out = None THEN <<>> ELSE QcSetRouting(ch.row, ch.in, ch.out))
  \o (IF ch.split = None THEN <<>> ELSE QcSetSplit(ch.row, ch.split))
  \o FlattenSeq([i \in 1 .. Len(ch.blocks) |->
       QcAddBlock(<<ch.row, ch.blocks[i].col>>, ch.blocks[i].device)
       \o QcSetParams(<<ch.row, ch.blocks[i].col>>, ch.blocks[i].params)])

BuildPreset(c) ==
  (IF c.clear THEN <<Read("preset", "clear")>> ELSE <<>>)
  \o FlattenSeq([i \in 1 .. Len(c.spec) |-> BuildChain(c.spec[i])])
  \o <<Read("preset", "show")>>

ClearGrid(c) == <<Read("preset", "clear")>>

AddBlock(c) == QcAddBlock(c.cell, c.device) \o QcSetParams(c.cell, c.params)

AddCapture(c) == QcSetCapture(c.cell, c.key)
AddIr(c) == QcSetIr(c.cell, c.key)
RemoveBlock(c) == QcDeleteBlock(c.cell)
SetParameter(c) == QcSetParam(c.cell, c.param, c.value)
SetParameterScenes(c) == QcSetParamScenes(c.cell, c.param, c.values)
AssignExpression(c) == QcExpression(c.cell, c.param, c.pedal)
AddSplit(c) == QcSetSplit(c.row, c.points)
SetLaneRouting(c) == QcSetRouting(c.row, c.in, c.out)
SetLaneOutput(c) == QcLaneParam(c.row, "output_control", c.value)
SetMixer(c) == QcLaneParam(c.row, "mixer", c.value)
SwitchScene(c) == QcSetScene(c.scene)

SetPresetMeta(c) == QcPresetMeta(c.labels)

\* Without scenes one plain flag; with them the index comes from the preset.
SetBlockBypass(c) ==
  IF c.scenes = <<>> THEN QcWriteBypass(c.cell, c.value) ELSE <<Read("preset", "bypass")>>

AssignStomp(c) == <<Read("preset", "stomp")>>
UnassignStomp(c) == QcUnassignStomp(c.cell, c.switch) \o <<Read("preset", "show")>>
LoadDevicePreset(c) == <<Read("preset", "model")>>
SaveDevicePreset(c) == <<Read("preset", "save")>>
DeleteDevicePreset(c) == <<QcModelPresets("delete"), QcModelPresets("go on")>>
SwitchMode(c) == <<Read("mode", "mode")>>
SetModeCycle(c) == QcSetModeCycle(c.modes)
SetGlobalEq(c) == QcGlobalEq(c.value) \o <<Read("eq", "show")>>
SetIoPort(c) == QcIoPort(c.value) \o <<Read("io", "show")>>

\* All that is left to restore after an I/O preset.
IoSnapshot == Read("io", "previous")

\* The list of presets; a read that proves the settings can be read; another
\* one that is kept as `previous`.
LoadSettingsPreset(c) ==
  IF c.target = "io" THEN <<QcModelPresets("match"), Read("io", "confirm"), IoSnapshot>>
  ELSE <<QcModelPresets("match"), Read("eq", "previous")>>

\* What only reads.  A list of presets is read whole, whatever it is for.
GetMode(c) == <<Read("mode", "show")>>
GetCurrentPreset(c) == <<Read("preset", "show")>>
GetIoSettings(c) == <<Read("io", "show")>>
ListDevicePresets(c) == <<QcModelPresets("show")>>
ListSettingsPresets(c) == <<QcModelPresets("show")>>

\* The bench's trim: what is read first after the write is its echo.
ReadInputLevel(c) == <<Read("io", "show")>>
WriteInputLevel(c) == QcIoPort(c.value) \o <<Read("io", "go on"), Read("io", "show")>>

Script(c) ==
  CASE c.tool = "build_preset"         -> BuildPreset(c)
    [] c.tool = "clear_grid"           -> ClearGrid(c)
    [] c.tool = "add_block"            -> AddBlock(c)
    [] c.tool = "add_capture"          -> AddCapture(c)
    [] c.tool = "add_ir"               -> AddIr(c)
    [] c.tool = "remove_block"         -> RemoveBlock(c)
    [] c.tool = "set_parameter"        -> SetParameter(c)
    [] c.tool = "set_parameter_scenes" -> SetParameterScenes(c)
    [] c.tool = "assign_expression"    -> AssignExpression(c)
    [] c.tool = "add_split"            -> AddSplit(c)
    [] c.tool = "set_lane_routing"     -> SetLaneRouting(c)
    [] c.tool = "set_lane_output"      -> SetLaneOutput(c)
    [] c.tool = "set_mixer"            -> SetMixer(c)
    [] c.tool = "switch_scene"         -> SwitchScene(c)
    [] c.tool = "set_preset_meta"      -> SetPresetMeta(c)
    [] c.tool = "set_block_bypass"     -> SetBlockBypass(c)
    [] c.tool = "assign_stomp"         -> AssignStomp(c)
    [] c.tool = "unassign_stomp"       -> UnassignStomp(c)
    [] c.tool = "load_device_preset"   -> LoadDevicePreset(c)
    [] c.tool = "save_device_preset"   -> SaveDevicePreset(c)
    [] c.tool = "delete_device_preset" -> DeleteDevicePreset(c)
    [] c.tool = "switch_mode"          -> SwitchMode(c)
    [] c.tool = "set_mode_cycle"       -> SetModeCycle(c)
    [] c.tool = "set_global_eq"        -> SetGlobalEq(c)
    [] c.tool = "set_io_port"          -> SetIoPort(c)
    [] c.tool = "load_settings_preset" -> LoadSettingsPreset(c)
    [] c.tool = "get_mode"             -> GetMode(c)
    [] c.tool = "get_current_preset"   -> GetCurrentPreset(c)
    [] c.tool = "get_io_settings"      -> GetIoSettings(c)
    [] c.tool = "list_device_presets"  -> ListDevicePresets(c)
    [] c.tool = "list_settings_presets" -> ListSettingsPresets(c)
    [] c.tool = "read_input_level"     -> ReadInputLevel(c)
    [] c.tool = "write_input_level"    -> WriteInputLevel(c)

-----------------------------------------------------------------------------
(* What a read decides *)

\* The rest of a call of w whose read came to x, None if nothing came.
\* bypass_param_index raises without a preset or a block, _block_at and the
\* reads of server.py give the answer of an error, clear_grid() just returns.
Block(c, x) == IF x = None THEN None ELSE x.blocks[c.cell]

AfterRead(w, then, x, rest) ==
  LET c == call[w]
  IN CASE then = "clear"   -> (IF x = None THEN <<>> ELSE QcClearGrid(x.blocks)) \o rest
       [] then = "bypass"  -> IF Block(c, x) = None THEN <<>>
                              ELSE QcAssignToScenes(c.cell, ParamCount[Block(c, x)])
                                   \o Walk(c.scenes, [v \in Values |-> QcWriteBypass(c.cell, v)])
       [] then = "stomp"   -> IF Block(c, x) = None THEN <<>>
                              ELSE QcAssignStomp(c.cell, c.switch, c.kind, c.momentary)
                                   \o <<Read("preset", "show")>>
       [] then = "model"   -> IF Block(c, x) = None THEN <<>>
                              ELSE <<QcModelPresets("match")>>
                                   \o QcLoadModel(c.cell, Block(c, x), c.value)
                                   \o <<Read("preset", "show")>>
       [] then = "save"    -> IF Block(c, x) = None THEN <<>>
                              ELSE <<QcModelPresets("go on")>> \o QcSaveModel(c.cell, c.name)
       [] then = "delete"  -> IF \A m \in x : m.name # c.name THEN <<>>
                              ELSE QcDeleteModel(c.name) \o rest
       [] then = "match"   -> IF c.match THEN rest ELSE <<>>
       [] then = "mode"    -> IF x \notin {None, {}} /\ c.mode \notin x THEN <<>>
                              ELSE QcSetMode(c.mode)
       [] then = "confirm" -> IF x = None \/ ~c.confirm THEN <<>> ELSE rest
       [] then = "previous" -> QcLoadSettings(c.target, c.value) \o <<Read(c.target, "show")>>
       [] OTHER            -> rest

\* read_state() raises when it has nothing to fall back to.
Raises(of) == of \in {"scene", "mode", "eq", "presets"}

-----------------------------------------------------------------------------
Init ==
  /\ unit \in Starts
  /\ queue = <<>> /\ pending = <<>>
  /\ todo = [w \in Workers |-> <<>>]
  /\ call = [w \in Workers |-> NoCall]
  /\ made = [w \in Workers |-> 0]
  /\ kept = [w \in Workers |-> None]
  /\ before = [w \in Workers |-> unit]
  /\ clean = [w \in Workers |-> FALSE]
  /\ played = 0

\* Others are no longer alone once something of w goes out.
Disturbed(w) == [u \in Workers |-> clean[u] /\ u = w]

Call(w) ==
  /\ todo[w] = <<>> /\ made[w] < MaxCalls[w]
  /\ \E c \in Jobs[w] :
       /\ call' = [call EXCEPT ![w] = c]
       /\ todo' = [todo EXCEPT ![w] = Script(c)]
  /\ made' = [made EXCEPT ![w] = @ + 1]
  /\ kept' = [kept EXCEPT ![w] = None]
  /\ before' = [before EXCEPT ![w] = unit]
  /\ clean' = [clean EXCEPT ![w] = /\ queue = <<>> /\ Settled(unit)
                                   /\ \A u \in Workers : todo[u] = <<>>]
  /\ UNCHANGED <<unit, queue, pending, played>>

Doing(w, what) == todo[w] # <<>> /\ Head(todo[w]).do = what

Send(w) ==
  /\ Doing(w, "send") /\ Len(queue) < MaxLag
  /\ queue' = Append(queue, [by |-> w, cmd |-> Head(todo[w]).cmd, read |-> None])
  /\ todo' = [todo EXCEPT ![w] = Tail(@)]
  /\ clean' = Disturbed(w)
  /\ UNCHANGED <<unit, pending, call, made, kept, before, played>>

\* _await_scene() is read_state("Scene") until it is the one, or time is up.
Ask(w) ==
  /\ Doing(w, "read") \/ Doing(w, "await")
  /\ Len(queue) < MaxLag
  /\ LET step == Head(todo[w])
     IN /\ queue' = Append(queue, [by |-> w, cmd |-> step.cmd, read |-> step.of])
        /\ todo' = [todo EXCEPT ![w] =
                       <<[do |-> "wait", of |-> step.of, for |-> step]>> \o Tail(@)]
  /\ clean' = Disturbed(w)
  /\ UNCHANGED <<unit, pending, call, made, kept, before, played>>

\* What the unit says about itself.
Told(u, of) ==
  CASE of = "scene"   -> u.scene
    [] of = "mode"    -> u.cycle
    [] of = "eq"      -> u.eq
    [] of = "io"      -> u.io
    [] of = "preset"  -> [blocks |-> u.blocks]
    [] of = "presets" -> u.own

ContinueForEver(w, x) ==  \* mutant: the deadline starts again with every read
  LET step == Head(todo[w]).for
  IN /\ todo' = [todo EXCEPT ![w] =
          IF step.do = "read" THEN AfterRead(w, step.then, x, Tail(todo[w]))
          ELSE IF x = step.scene THEN Tail(todo[w])
          ELSE <<step>> \o Tail(todo[w])]
     /\ UNCHANGED kept

\* The step of w goes on with x, the answer it got or took for one.
Continue(w, x) ==
  LET step == Head(todo[w]).for
      rest == Tail(todo[w])
  IN /\ todo' = [todo EXCEPT ![w] =
          IF step.do = "read" THEN AfterRead(w, step.then, x, rest)
          ELSE IF x = step.scene \/ step.left = 1 THEN rest
          ELSE <<[step EXCEPT !.left = @ - 1]>> \o rest]
     /\ kept' = [kept EXCEPT ![w] = IF step.do = "read" /\ step.then = "previous" THEN x ELSE @]

Mine(w) == {i \in 1 .. Len(pending) : pending[i].to = w}
About(of) == {i \in 1 .. Len(pending) : pending[i].of = of}
Earliest(S) == CHOOSE i \in S : \A j \in S : i <= j
Without(p, of) == FlattenSeq([i \in 1 .. Len(p) |-> IF p[i].of = of THEN <<>> ELSE <<p[i]>>])

\* What is still to come, or has come, for w is nobody's from now on.
NotBy(w) == [i \in 1 .. Len(queue) |->
               IF queue[i].by = w THEN [queue[i] EXCEPT !.by = None] ELSE queue[i]]
NotFor(w, p) == [i \in 1 .. Len(p) |->
                   IF p[i].to = w THEN [p[i] EXCEPT !.to = None] ELSE p[i]]

\* request() finds the answer to its own request, and leaves it in _pending;
\* earlier messages of the command are gone if they came in a round before.
\* _read_preset_once() takes it out.
Answered(w) ==
  /\ Doing(w, "wait") /\ Head(todo[w]).of # "io" /\ Mine(w) # {}
  /\ LET i  == Earliest(Mine(w))
         of == pending[i].of
         x  == pending[i].is
         sc == Head(todo[w]).for
     IN /\ \/ pending' = IF of \in {"preset", "presets"} THEN RemoveAt(pending, i)
                         ELSE [pending EXCEPT ![i].to = None]
           \/ /\ of \notin {"preset", "presets"}
              /\ pending' = Without([pending EXCEPT ![i].to = None], of)
        /\ Continue(w, x)
        /\ clean' = [clean EXCEPT ![w] =
             @ /\ (sc.do = "await" => x = sc.scene \/ sc.left > 1)]
  /\ UNCHANGED <<unit, queue, call, made, before, played>>

\* read_message() takes the first message of the command, whoever asked.
TakeFirst(w) ==
  /\ Doing(w, "wait") /\ Head(todo[w]).of = "io" /\ About("io") # {}
  /\ LET i == Earliest(About("io"))
     IN /\ pending' = NotFor(w, RemoveAt(pending, i))
        /\ Continue(w, pending[i].is)
        /\ clean' = [clean EXCEPT ![w] = @ /\ pending[i].to = w]
  /\ queue' = NotBy(w)
  /\ UNCHANGED <<unit, call, made, before, played>>

\* Nothing came in time.  The answer may still come, and is nobody's then.
\* request() has dropped what carried its command, and falls back to the first.
TimeOut(w) ==
  /\ Doing(w, "wait")
  /\ LET of == Head(todo[w]).of
         fall == IF Raises(of) /\ About(of) \ Mine(w) # {}
                 THEN pending[Earliest(About(of) \ Mine(w))].is ELSE None
     IN /\ IF fall = None /\ Raises(of)
           THEN todo' = [todo EXCEPT ![w] = <<>>] /\ UNCHANGED kept
           ELSE Continue(w, fall)
        /\ Mine(w) = {}
        /\ pending' = IF Raises(of) THEN Without(pending, of) ELSE pending
  /\ queue' = NotBy(w)
  /\ clean' = [clean EXCEPT ![w] = FALSE]
  /\ UNCHANGED <<unit, call, made, before, played>>

-----------------------------------------------------------------------------
(* The unit *)

\* What it tells everybody unasked.
Push(of, x) == Append(pending, [of |-> of, is |-> x, to |-> None])

UnitStep ==
  /\ queue # <<>>
  /\ queue' = Tail(queue)
  /\ LET m == Head(queue)
     IN /\ unit' = IF m.cmd = None THEN unit ELSE Apply(unit, m.cmd)
        /\ pending' = IF m.read # None
                      THEN IF m.by = None /\ m.read = "preset" THEN pending
                           ELSE Append(pending, [of |-> m.read, is |-> Told(unit', m.read),
                                                 to |-> m.by])
                      ELSE IF m.cmd.op = "io" THEN Push("io", m.cmd.value) ELSE pending
  /\ UNCHANGED <<todo, call, made, kept, before, clean, played>>

\* A switch of scenes takes the unit a while.
Settle ==
  /\ ~Settled(unit)
  /\ unit' = [unit EXCEPT !.scene = unit.next]
  /\ pending' = Push("scene", unit.next)
  /\ UNCHANGED <<queue, todo, call, made, kept, before, clean, played>>

\* Somebody steps on a scene, or turns an input up, at the unit itself.
Player ==
  /\ played < MaxPlayer
  /\ played' = played + 1
  /\ \/ \E s \in Scenes : unit' = [unit EXCEPT !.next = s] /\ UNCHANGED pending
     \/ \E v \in Values : unit' = [unit EXCEPT !.io = v] /\ pending' = Push("io", v)
  /\ clean' = [w \in Workers |-> FALSE]
  /\ UNCHANGED <<queue, todo, call, made, kept, before>>

Step(w) == Send(w) \/ Ask(w) \/ Answered(w) \/ TakeFirst(w) \/ TimeOut(w)

Next == UnitStep \/ Settle \/ Player \/ \E w \in Workers : Call(w) \/ Step(w)

Spec == Init /\ [][Next]_vars

\* A thread inside a call goes on, and the unit takes the reports written to it;
\* what it answers may come after any deadline.
FairSpec == Spec /\ WF_vars(UnitStep) /\ \A w \in Workers : WF_vars(Step(w))

-----------------------------------------------------------------------------
(* What the calls promise *)

\* One value to each scene named, the others as they were.
InScenes(u, cell, p, values) ==
  [u EXCEPT !.scened = @ \cup {<<cell, p>>},
            !.value[cell][p] = [s \in Scenes |-> IF s < Len(values) THEN values[s + 1] ELSE @[s]],
            !.scene = 0, !.next = 0]

\* The blocks of a spec where they go.
Placed(ch) ==
  {[cell |-> <<ch.row, b.col>>, device |-> b.device, params |-> b.params] : b \in ToSet(ch.blocks)}
BlockSpecs(spec) == UNION {Placed(ch) : ch \in ToSet(spec)}

SpecValue(params) ==
  [p \in Params |-> [s \in Scenes |->
     LET given == {i \in 1 .. Len(params) : params[i][1] = p}
     IN IF given = {} THEN 0 ELSE params[CHOOSE i \in given : TRUE][2]]]

\* The routing of an empty grid.
Idle(r) == IF r = 0 THEN [in |-> 1, out |-> 19] ELSE [in |-> 0, out |-> 0]

\* These blocks, the routing and the splits of these chains, and nothing else.
Laid(u, chains, blocks) ==
  LET at(cell) == {b \in blocks : b.cell = cell}
      in(r) == {ch \in chains : ch.row = r}
      block(cell) == CHOOSE b \in at(cell) : TRUE
      chain(r) == CHOOSE ch \in in(r) : TRUE
  IN [u EXCEPT
        !.blocks = [c \in Cells |-> IF at(c) = {} THEN None ELSE block(c).device],
        !.value  = [c \in Cells |-> IF at(c) = {} THEN Fresh ELSE SpecValue(block(c).params)],
        !.scened = {}, !.expr = {},
        !.split  = [r \in Rows |-> IF in(r) = {} THEN None ELSE chain(r).split],
        !.route  = [r \in Rows |->
                      IF in(r) = {} THEN Idle(r)
                      ELSE [in  |-> IF chain(r).in = None THEN Idle(r).in ELSE chain(r).in,
                            out |-> IF chain(r).out = None THEN Idle(r).out ELSE chain(r).out]]]

Built(u, spec) == Laid(u, ToSet(spec), BlockSpecs(spec))

\* The unit after a call of one of these tools, for a unit it found as u.
Promised(c, u) ==
  CASE c.tool = "build_preset" -> Built(u, c.spec)
    [] c.tool = "clear_grid" -> Built(u, <<>>)
    [] c.tool = "set_parameter_scenes" -> InScenes(u, c.cell, c.param, c.values)
    [] c.tool = "set_block_bypass" ->
         IF u.blocks[c.cell] = None THEN u
         ELSE InScenes(u, c.cell, ParamCount[u.blocks[c.cell]], c.scenes)
    [] c.tool = "assign_stomp" ->
         IF u.blocks[c.cell] = None THEN u
         ELSE [Bound(u, c) EXCEPT !.momentary = IF c.momentary THEN @ \cup {c.switch}
                                                ELSE @ \ {c.switch}]
    [] c.tool = "save_device_preset" ->
         IF u.blocks[c.cell] = None THEN u ELSE Created([u EXCEPT !.slot = c.cell], c)
    [] c.tool = "switch_mode" ->
         IF c.mode \in u.cycle \/ u.cycle = {} THEN [u EXCEPT !.mode = c.mode] ELSE u

Promising == {"build_preset", "clear_grid", "set_parameter_scenes", "set_block_bypass",
              "assign_stomp", "save_device_preset", "switch_mode"}

\* A spec that names each row, each cell and each parameter once.
Plain(spec) ==
  /\ \A i, j \in 1 .. Len(spec) : spec[i].row = spec[j].row => i = j
  /\ \A i \in 1 .. Len(spec) :
       LET bs == spec[i].blocks
       IN /\ \A j, k \in 1 .. Len(bs) : bs[j].col = bs[k].col => j = k
          /\ \A l \in 1 .. Len(bs) :
               \A j, k \in 1 .. Len(bs[l].params) :
                 bs[l].params[j][1] = bs[l].params[k][1] => j = k

Promises(c, u) ==
  /\ c.tool \in Promising
  /\ c.tool = "build_preset" => c.clear /\ Plain(c.spec)
  /\ c.tool = "set_block_bypass" => c.scenes # <<>>
  /\ c.tool = "set_parameter_scenes" => u.blocks[c.cell] # None

-----------------------------------------------------------------------------
(* Properties *)

\* What may be queued, and what the unit may tell of each topic.
Messages ==
  [by : Workers \cup {None}, cmd : Commands, read : {None}]
  \cup [by : Workers \cup {None}, cmd : Commands \cup {None}, read : Topics]

TellsOf(of) ==
  CASE of = "scene" -> Scenes
    [] of = "mode" -> SUBSET Modes
    [] of \in {"eq", "io"} -> Values
    [] of = "preset" -> [blocks : Blocks]
    [] of = "presets" -> SUBSET [name : Names, settings : Settings]

\* The threads of the server, what it has queued and what it knows of the unit
\* are of the kinds server.py and transport.py make.
TypeOK ==
  /\ unit \in Units /\ Tidy(unit)
  /\ queue \in Seq(Messages)
  /\ \A i \in 1 .. Len(pending) :
       /\ pending[i].of \in Topics /\ pending[i].is \in TellsOf(pending[i].of)
       /\ pending[i].to \in Workers \cup {None}
  /\ \A w \in Workers : \A i, j \in Mine(w) : i = j
  /\ call \in [Workers -> Calls \cup {NoCall}]
  /\ made \in [Workers -> Nat] /\ clean \in [Workers -> BOOLEAN]

\* A call of many messages comes to what its tool promises, and leaves the rest
\* of the preset alone, if nobody else wrote and every read was answered: a walk
\* puts each value into its own scene and ends in scene A, a bypass lands on the
\* bypass and on no parameter, a preset built from a spec holds nothing of the
\* one before, a switch keeps its momentary flag, a saved block is the one asked.
EndsAsAsked ==
  \A w \in Workers :
    (clean[w] /\ todo[w] = <<>> /\ queue = <<>> /\ Settled(unit) /\ Promises(call[w], before[w]))
      => unit = Promised(call[w], before[w])

\* Every call comes back, whether its reads are answered in time or not: all
\* waits of transport.py have a deadline, also that of a scene that never comes.
CallsReturn == \A w \in Workers : todo[w] # <<>> ~> todo[w] = <<>>
=============================================================================
