---------------------------- MODULE MCPresetTools ----------------------------
(* Two rows of two columns, two scenes, four models. *)
EXTENDS PresetTools, TLC

CONSTANT w1

MCScenes == {0, 1}
MCDevices == {"amp", "delay", "cap", "ir"}
MCParamCount == [d \in MCDevices |-> IF d = "amp" THEN 1 ELSE 2]
MCSwitches == {"A", "B"}
MCBranch == <<0, 1>>
MCPoints == {MCBranch}

Cell == <<0, 0>>
Other == <<1, 1>>

\* A preset with two blocks, a branch and a footswitch in use; two modes.
Used == [Empty EXCEPT !.blocks = [Empty.blocks EXCEPT ![Cell] = "amp", ![Other] = "delay"],
                      !.scened = {<<Other, 0>>},
                      !.value = [Empty.value EXCEPT ![Other][0] = [s \in MCScenes |-> s]],
                      !.split = [r \in Rows |-> IF r = 0 THEN MCBranch ELSE None],
                      !.route = [r \in Rows |-> [in |-> 1, out |-> 19]],
                      !.stomp = [w \in MCSwitches |-> IF w = "A" THEN <<Other, "primary">> ELSE None],
                      !.momentary = {"A"},
                      !.cycle = {0, 6}]
\* The same with settings saved and their block open.
Saved == [Used EXCEPT !.slot = Other,
                      !.own = {[name |-> "mine", settings |-> <<"delay", Used.value[Other]>>]}]
MCStarts == {Used, Saved}

Rig == << [row |-> 0, in |-> 1, out |-> None, split |-> MCBranch,
           blocks |-> << [col |-> 1, device |-> "delay", params |-> << <<0, 1>> >>],
                         [col |-> 0, device |-> "amp", params |-> <<>>] >>] >>

Walks == { [tool |-> "set_parameter_scenes", cell |-> Cell, param |-> 0, values |-> <<0, 1>>],
           [tool |-> "set_block_bypass", cell |-> Other, scenes |-> <<1, 0>>, value |-> 1] }

Long ==
  Walks \cup
  { [tool |-> "build_preset", clear |-> TRUE, spec |-> Rig],
    [tool |-> "clear_grid"],
    [tool |-> "assign_stomp", cell |-> Cell, switch |-> "A", kind |-> "primary", momentary |-> TRUE],
    [tool |-> "assign_stomp", cell |-> Other, switch |-> "B", kind |-> "primary", momentary |-> FALSE],
    [tool |-> "save_device_preset", cell |-> Other, name |-> "mine"],
    [tool |-> "switch_mode", mode |-> 6],
    [tool |-> "load_settings_preset", target |-> "eq", match |-> TRUE, value |-> 1],
    [tool |-> "load_settings_preset", target |-> "io", match |-> TRUE, confirm |-> TRUE,
     value |-> 1] }

Short ==
  { [tool |-> "add_block", cell |-> Cell, device |-> "delay", params |-> << <<1, 1>> >>],
    [tool |-> "build_preset", clear |-> FALSE, spec |-> Rig],
    [tool |-> "add_capture", cell |-> <<1, 0>>, key |-> 1],
    [tool |-> "add_ir", cell |-> <<1, 0>>, key |-> 1],
    [tool |-> "remove_block", cell |-> Other],
    [tool |-> "set_parameter", cell |-> Other, param |-> 0, value |-> 1],
    [tool |-> "assign_expression", cell |-> Cell, param |-> 0, pedal |-> 1],
    [tool |-> "add_split", row |-> 1, points |-> MCBranch],
    [tool |-> "set_lane_routing", row |-> 1, in |-> None, out |-> 14],
    [tool |-> "set_lane_output", row |-> 0, value |-> 1],
    [tool |-> "set_mixer", row |-> 0, value |-> 1],
    [tool |-> "switch_scene", scene |-> 1],
    [tool |-> "set_preset_meta", labels |-> <<None, "lead">>],
    [tool |-> "set_block_bypass", cell |-> Cell, scenes |-> <<>>, value |-> 1],
    [tool |-> "unassign_stomp", cell |-> Other, switch |-> "A"],
    [tool |-> "load_device_preset", cell |-> Cell, match |-> TRUE, value |-> 1],
    [tool |-> "load_device_preset", cell |-> Cell, match |-> FALSE, value |-> 1],
    [tool |-> "load_settings_preset", target |-> "eq", match |-> FALSE, value |-> 1],
    [tool |-> "delete_device_preset", name |-> "mine"],
    [tool |-> "set_mode_cycle", modes |-> {0}],
    [tool |-> "set_global_eq", value |-> 1],
    [tool |-> "set_io_port", value |-> 1],
    [tool |-> "write_input_level", value |-> 1] } \cup
  { [tool |-> t] : t \in {"get_mode", "get_current_preset", "get_io_settings",
                          "list_device_presets", "list_settings_presets", "read_input_level"} }

MCJobs == w1 :> (Long \cup Short)
MCMaxCalls == w1 :> 1
=============================================================================
