-------------------------------- MODULE Unit --------------------------------
(***************************************************************************)
(* The Quad Cortex as the tools of the MCP server see it: the working      *)
(* preset and the global settings, changed by one message after another.   *)
(* All of this is outside the repository; it says what transport.py and    *)
(* server.py rely on, and their comments report as observed on the device. *)
(***************************************************************************)
EXTENDS Integers, Sequences

CONSTANTS Height, Width, \* of the grid
          Scenes,       \* 0 .. 7 in the device, 0 is scene A
          Devices,      \* block models
          MostParams,   \* readable parameters of a model, at most
          ParamCount,   \* a model's number of them
          Switches,     \* footswitches
          Points,       \* the columns of a split and of its merge
          Modes,        \* performance modes, 0 is the one of presets
          Names,        \* of scenes and of saved settings
          Values,       \* parameter values, 0 a fresh block's
          None          \* nothing there, nothing said

Rows == 0 .. Height - 1
Cols == 0 .. Width - 1
Cells == Rows \X Cols
\* The bypass of a block is one past its last readable parameter.
Params == 0 .. MostParams
Fields == {"output_control", "mixer"}
Kinds == {"primary", "secondary"}
Fresh == [p \in Params |-> [s \in Scenes |-> 0]]
Blocks == [Cells -> Devices \cup {None}]

UnitAssumption ==
  /\ Height \in Nat \ {0} /\ Width \in Nat \ {0}
  /\ Scenes \subseteq Nat /\ 0 \in Scenes
  /\ 0 \in Values /\ 0 \in Modes
  /\ MostParams \in Nat \ {0} /\ ParamCount \in [Devices -> Params]
  /\ None \notin Devices \cup Cells \cup Nat
ASSUME UnitAssumption

Empty ==
  [ blocks |-> [c \in Cells |-> None],
    value  |-> [c \in Cells |-> Fresh],
    scened |-> {},                        \* <<cell, param>> assigned to scenes
    expr   |-> {},                        \* <<cell, param>> on a pedal
    route  |-> [r \in Rows |-> [in |-> 0, out |-> 0]],
    split  |-> [r \in Rows |-> None],
    lane   |-> [f \in Fields |-> [r \in Rows |-> 0]],
    stomp  |-> [w \in Switches |-> None],
    momentary |-> {},
    label  |-> [s \in Scenes |-> None],
    scene  |-> 0,                         \* the active scene
    next   |-> 0,                         \* the one it is switching to
    mode   |-> 0, cycle |-> {0},
    slot   |-> None, own |-> {},          \* the open block, the saved settings
    eq     |-> 0, io |-> 0 ]

Settings == Devices \X [Params -> [Scenes -> Values]]
Ports == [in : Nat, out : Nat]

Units ==
  [ blocks : Blocks, value : [Cells -> [Params -> [Scenes -> Values]]],
    scened : SUBSET (Cells \X Params), expr : SUBSET (Cells \X Params),
    route : [Rows -> Ports], split : [Rows -> Points \cup {None}],
    lane : [Fields -> [Rows -> Values]],
    stomp : [Switches -> (Cells \X Kinds) \cup {None}], momentary : SUBSET Switches,
    label : [Scenes -> Names \cup {None}], scene : Scenes, next : Scenes,
    mode : Modes, cycle : SUBSET Modes,
    slot : Cells \cup {None}, own : SUBSET [name : Names, settings : Settings],
    eq : Values, io : Values ]

\* A cell without a block has no parameters.
Tidy(u) ==
  \A c \in Cells : u.blocks[c] = None =>
    u.value[c] = Fresh /\ \A x \in u.scened \cup u.expr : x[1] # c

Settled(u) == u.scene = u.next

\* A plain write lands on the active scene once the parameter is assigned to
\* scenes, and on all of them before.
Written(u, cell, p, v) ==
  [u EXCEPT !.value[cell][p] =
     [s \in Scenes |-> IF <<cell, p>> \in u.scened /\ s # u.scene THEN @[s] ELSE v]]

Cleared(u, cell, device) ==
  [u EXCEPT !.blocks[cell] = device, !.value[cell] = Fresh,
            !.scened = {x \in @ : x[1] # cell}, !.expr = {x \in @ : x[1] # cell}]

\* A block without a model at this place ignores what is meant for it.
OnBlock(u, c, new) == IF u.blocks[c.cell] = None THEN u ELSE new

\* A block has one switch of each kind; assigning again moves it, and the
\* device clears the switch's momentary flag.
Bound(u, c) ==
  [u EXCEPT !.stomp = [w \in Switches |->
                         IF w = c.switch THEN <<c.cell, c.kind>>
                         ELSE IF @[w] = <<c.cell, c.kind>> THEN None ELSE @[w]],
            !.momentary = @ \ {c.switch}]

Unbound(u, c) ==
  IF u.stomp[c.switch] # None /\ u.stomp[c.switch][1] = c.cell
  THEN [u EXCEPT !.stomp[c.switch] = None, !.momentary = @ \ {c.switch}]
  ELSE u

\* The settings of the open block, under a name; refused if it has them already.
Created(u, c) ==
  IF u.slot = None THEN u
  ELSE LET settings == <<u.blocks[u.slot], u.value[u.slot]>>
       IN IF u.blocks[u.slot] = None \/ \E x \in u.own : x.settings = settings THEN u
          ELSE [u EXCEPT !.own = @ \cup {[name |-> c.name, settings |-> settings]}]

Commands ==
  [op : {"block"}, cell : Cells, device : Devices]
  \cup [op : {"delete"}, cell : Cells]
  \cup [op : {"route"}, row : Rows, in : Nat \cup {None}, out : Nat \cup {None}]
  \cup [op : {"split"}, row : Rows, points : Points \cup {None}]
  \cup [op : {"param"}, cell : Cells, param : Params, value : Values]
  \cup [op : {"assign"}, cell : Cells, param : Params]
  \cup [op : {"bypass"}, cell : Cells, value : Values]
  \cup [op : {"expr"}, cell : Cells, param : Params, pedal : Nat]
  \cup [op : {"model"}, cell : Cells, device : Devices, value : Values]
  \cup [op : {"lane"}, row : Rows, field : Fields, value : Values]
  \cup [op : {"scene"}, scene : Scenes]
  \cup [op : {"label"}, scene : Scenes, label : Names]
  \cup [op : {"stomp"}, cell : Cells, switch : Switches, kind : Kinds]
  \cup [op : {"momentary"}, switch : Switches, on : BOOLEAN]
  \cup [op : {"unstomp"}, cell : Cells, switch : Switches]
  \cup [op : {"mode"}, mode : Modes]
  \cup [op : {"cycle"}, modes : SUBSET Modes]
  \cup [op : {"select"}, cell : Cells]
  \cup [op : {"create"}, name : Names]
  \cup [op : {"forget"}, name : Names]
  \cup [op : {"eq"}, value : Values]
  \cup [op : {"io"}, value : Values]

\* What a message makes of the unit.
Apply(u, c) ==
  CASE c.op = "block"     -> Cleared(u, c.cell, c.device)
    [] c.op = "delete"    -> Cleared(u, c.cell, None)
    [] c.op = "route"     -> [u EXCEPT !.route[c.row] =
                                [in  |-> IF c.in = None THEN @.in ELSE c.in,
                                 out |-> IF c.out = None THEN @.out ELSE c.out]]
    [] c.op = "split"     -> [u EXCEPT !.split[c.row] = c.points]
    [] c.op = "param"     -> OnBlock(u, c, Written(u, c.cell, c.param, c.value))
    [] c.op = "assign"    -> OnBlock(u, c, [u EXCEPT !.scened = @ \cup {<<c.cell, c.param>>}])
    [] c.op = "bypass"    -> IF u.blocks[c.cell] = None THEN u
                             ELSE Written(u, c.cell, ParamCount[u.blocks[c.cell]], c.value)
    [] c.op = "expr"      -> OnBlock(u, c, [u EXCEPT !.expr =
                                IF c.pedal = 0 THEN @ \ {<<c.cell, c.param>>}
                                ELSE @ \cup {<<c.cell, c.param>>}])
    [] c.op = "model"     -> IF u.blocks[c.cell] # c.device THEN u
                             ELSE [u EXCEPT !.value[c.cell] =
                                [p \in Params |-> IF p < ParamCount[c.device]
                                                  THEN [s \in Scenes |-> c.value] ELSE @[p]]]
    [] c.op = "lane"      -> [u EXCEPT !.lane[c.field][c.row] = c.value]
    [] c.op = "scene"     -> [u EXCEPT !.next = c.scene]
    [] c.op = "label"     -> [u EXCEPT !.label[c.scene] = c.label]
    [] c.op = "stomp"     -> Bound(u, c)
    [] c.op = "momentary" -> [u EXCEPT !.momentary =
                                IF c.on THEN @ \cup {c.switch} ELSE @ \ {c.switch}]
    [] c.op = "unstomp"   -> Unbound(u, c)
    [] c.op = "mode"      -> [u EXCEPT !.mode = c.mode]
    [] c.op = "cycle"     -> [u EXCEPT !.cycle = c.modes,
                                       !.mode = IF @ \in c.modes THEN @ ELSE 0]
    [] c.op = "select"    -> [u EXCEPT !.slot = c.cell]
    [] c.op = "create"    -> Created(u, c)
    [] c.op = "forget"    -> [u EXCEPT !.own = {x \in @ : x.name # c.name}]
    [] c.op = "eq"        -> [u EXCEPT !.eq = c.value]
    [] c.op = "io"        -> [u EXCEPT !.io = c.value]
=============================================================================
