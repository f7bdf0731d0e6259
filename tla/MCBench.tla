------------------------------ MODULE MCBench ------------------------------
(* Two presets, one of them too loud, and what a user does with them in one  *)
(* go: a few commands that Patchbay sends without waiting for the answers.   *)
EXTENDS Bench, TLC

CONSTANTS main, player

MCOwn == (0 :> <<1, 3>>) @@ (1 :> <<2, 3>>)
MCName == (0 :> "clean") @@ (1 :> "lead")
MCFader == (0 :> [s \in {0, 1} |-> 0]) @@ (1 :> (0 :> 1 @@ 1 :> -1))
MCLoudness == (0 :> 2) @@ (1 :> -2)
MCCrest == (0 :> 1) @@ (1 :> 4)
MCNoise == {0, 1}
MCLo == -2

Cmd(d) == [do |-> d]
At0 == [pos |-> 0, cloud |-> FALSE]
At1 == [pos |-> 1, cloud |-> FALSE]
Open(p) == [do |-> "open", pos |-> p, cloud |-> FALSE]
Download(p) == [do |-> "open", pos |-> p, cloud |-> TRUE]
Scene1 == [do |-> "scene", scene |-> 1]
Level(db) == [do |-> "level", db |-> db]
Trim(db) == [do |-> "apply_trim", open |-> FALSE, db |-> db]
TrimAt(p, db) == [do |-> "apply_trim", open |-> TRUE, pos |-> p, cloud |-> FALSE, db |-> db]
Auto(dry) == [do |-> "autolevel", dry |-> dry]
Many(l) == [do |-> "measure_many", list |-> l]
ByScene(d, dry) == [do |-> d, scenes |-> <<0, 1>>, dry |-> dry]

MCSessions ==
  { <<Cmd("save"), Open(0), Open(1)>>,
    <<Trim(1), TrimAt(1, -1), Cmd("revert_levels")>>,
    <<Trim(1), Level(0), Trim(-2), Cmd("revert_levels")>>,
    <<Scene1, Trim(1), Cmd("revert_levels")>>,
    <<Download(1), Open(0)>>,
    <<Auto(FALSE), Cmd("revert_levels")>>,
    <<Auto(TRUE), Cmd("save")>>,
    <<Many(<<At1, At0>>)>>,
    <<Many(<<At1>>), Cmd("cancel")>>,
    <<Scene1, ByScene("measure_scenes", TRUE), ByScene("level_scenes", FALSE)>>,
    <<Cmd("play"), Cmd("state"), Cmd("stop_play"), Cmd("measure")>>,
    <<Cmd("sample_arm"), Cmd("sample_stop"), Cmd("sample_arm"), Cmd("sample_discard")>>,
    <<Cmd("sample_arm"), Cmd("use_riff"), Cmd("sample_stop")>> }

MCCancelled == { <<Many(<<At1, At0>>), Cmd("cancel")>> }
=============================================================================
