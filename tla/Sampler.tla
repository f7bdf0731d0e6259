------------------------------- MODULE Sampler -------------------------------
(***************************************************************************)
(* The sampler of audio_io.py: armed, it starts with the first loud block  *)
(* and ends after silence or at its limit.  Blocks come on the audio       *)
(* thread, everything else is called by the bench's loop.                  *)
(***************************************************************************)
EXTENDS Naturals, Sequences

CONSTANTS MaxBlocks,  \* max_seconds, in blocks
          MaxQuiet,   \* silence_seconds, in blocks
          Riff        \* a riff the bench brings itself

\* A take has room for more than the block it starts with.
SamplerAssumption == MaxBlocks \in Nat \ {0, 1} /\ MaxQuiet \in Nat \ {0}
ASSUME SamplerAssumption

VARIABLES
  state,   \* idle, armed, recording, done
  stream,  \* none, open, ended: stopped by its callback, or never started
  blocks, quiet,
  file     \* what is in the reference sample on disk

sampling == <<state, stream, blocks, quiet, file>>

SamplerInit ==
  /\ state = "idle" /\ stream = "none"
  /\ blocks = 0 /\ quiet = 0
  /\ file = "none"

\* Nothing happens while one is under way; the stream may fail to open, with
\* the fields of the last take gone already, or to start, with the state set.
Arm ==
  IF state \in {"armed", "recording"} THEN UNCHANGED sampling
  ELSE /\ blocks' = 0 /\ quiet' = 0
       /\ \/ state' = "armed" /\ stream' \in {"open", "ended"}
          \/ UNCHANGED <<state, stream>>
       /\ UNCHANGED file

QuietAfter(loud) == IF loud THEN 0 ELSE quiet + 1

Full(n, q) == q >= MaxQuiet \/ n >= MaxBlocks

\* The callback: a block of the audio thread.
Block(loud) ==
  /\ stream = "open"
  /\ \/ /\ state = "armed" /\ loud
        /\ state' = "recording" /\ blocks' = 1
        /\ UNCHANGED <<stream, quiet>>
     \/ /\ state = "recording" /\ blocks <= MaxBlocks
        /\ blocks' = blocks + 1 /\ quiet' = QuietAfter(loud)
        /\ stream' = IF Full(blocks', quiet') THEN "ended" ELSE stream
        /\ UNCHANGED state
  /\ UNCHANGED file

\* _on_finished, on the audio thread too.
Finished ==
  /\ stream = "ended" /\ state = "recording"
  /\ state' = "done"
  /\ UNCHANGED <<stream, blocks, quiet, file>>

\* stop() waits for the stream to end before it looks at the blocks.
StopStream ==
  /\ stream' = "none"
  /\ state' = IF stream # "none" /\ state = "recording" THEN "done" ELSE state
  /\ UNCHANGED <<blocks, quiet, file>>

\* Saved from what is there, also if it was saved before; or saving fails.
SaveTake ==
  IF blocks = 0
  THEN state' = "idle" /\ UNCHANGED <<stream, blocks, quiet, file>>
  ELSE /\ state' = "done"
       /\ file' \in {"take", file}
       /\ UNCHANGED <<stream, blocks, quiet>>

Discard ==
  /\ stream' = "none" /\ state' = "idle" /\ blocks' = 0 /\ quiet' = 0
  /\ UNCHANGED file

\* use_riff copies the riff over the reference; the sampler does not know.
UseRiff == file' = Riff /\ UNCHANGED <<state, stream, blocks, quiet>>

Audio == (\E loud \in BOOLEAN : Block(loud)) \/ Finished
=============================================================================
