------------------------------ MODULE MCSlots ------------------------------
(* Three slots, the middle one unsaved; every tool on one thread beside      *)
(* listings and saves on the other.                                          *)
EXTENDS Slots, TLC

CONSTANTS w1, w2, a, b

MCNamed == (0 :> a) @@ (1 :> None) @@ (2 :> b)

Recalls == { [tool |-> "recall_preset", folder |-> FALSE, pos |-> 1],
             [tool |-> "switch_preset", folder |-> TRUE, pos |-> 2] }

Saves == { [tool |-> "save_preset", name |-> n] : n \in {None, b} } \cup
         { [tool |-> "save_preset_as", name |-> b, pos |-> p, overwrite |-> o] :
             p \in {None, 0, 1}, o \in BOOLEAN }

Looks == { [tool |-> "list_empty_slots"], [tool |-> "directory_summary"] }

Loops == { [tool |-> "level_setlist", list |-> <<2, 0>>, folder |-> f, save |-> TRUE] :
               f \in BOOLEAN } \cup
           { [tool |-> "suggest_levels", list |-> <<1, 0>>, folder |-> TRUE],
             [tool |-> "compare_presets", list |-> <<None, 2>>, folder |-> TRUE] } \cup
           { [tool |-> "level_preset", list |-> <<None>>, apply |-> y, save |-> TRUE] :
               y \in BOOLEAN }

MCJobs == (w1 :> Recalls \cup Saves \cup Looks \cup Loops)
          @@ (w2 :> {[tool |-> "directory_summary"], [tool |-> "save_preset", name |-> None]})
=============================================================================
