-------------------------------- MODULE Slots --------------------------------
(***************************************************************************)
(* Saving into the slots of a setlist: the position the unit has open, the *)
(* preset being worked on, the listing of the directory the server caches, *)
(* its copy on disk, and the tools of server.py that recall, save and list *)
(* slots or work through a list of them.  One step per message to the unit *)
(* and per access to the file, since tools run on several threads.         *)
(***************************************************************************)
EXTENDS Naturals, Sequences, FiniteSets

CONSTANTS Workers,    \* threads of one MCP server
          Positions,  \* slots of the setlist, 0 the one open at first
          Names,
          Named,      \* the slots that hold a preset at first, by name
          Jobs,       \* Jobs[w]: the calls thread w may make
          MaxCalls,
          MaxPlayer,  \* things done at the unit or in Cortex Control
          None        \* no name, no answer, no file

Tools == {"recall_preset", "switch_preset", "save_preset", "save_preset_as", "list_empty_slots",
          "directory_summary", "level_setlist", "level_preset", "suggest_levels", "compare_presets"}
Sources == {"device", "snapshot", "empty"}
Answers == {"error", "refused", "nameless", "saved", "recalled", "counts"}

\* What the tools are called with.  A folder is given or not, a position or a
\* name may be left out, and None in a list is the preset that is open.  A
\* call with an empty list sends nothing and is left out.
Lists(S) == Seq(S) \ {<<>>}
Calls ==
  [tool : {"recall_preset", "switch_preset"}, folder : BOOLEAN, pos : Positions] \cup
  [tool : {"save_preset"}, name : Names \cup {None}] \cup
  [tool : {"save_preset_as"}, name : Names, pos : Positions \cup {None}, overwrite : BOOLEAN] \cup
  [tool : {"list_empty_slots", "directory_summary"}] \cup
  [tool : {"level_setlist"}, list : Lists(Positions), folder : BOOLEAN, save : BOOLEAN] \cup
  [tool : {"suggest_levels", "compare_presets"}, list : Lists(Positions \cup {None}),
   folder : BOOLEAN] \cup
  [tool : {"level_preset"}, list : {<<None>>}, apply : BOOLEAN, save : BOOLEAN]

\* The names of a setlist.
Contents == [Positions -> Names \cup {None}]

SlotsAssumption ==
  /\ Positions \subseteq Nat /\ 0 \in Positions /\ IsFiniteSet(Positions)
  /\ Named \in Contents
  /\ None \notin Names \cup Positions \cup Contents \cup Tools \cup Sources \cup Answers
  /\ None \notin [n : Nat, files : Contents \cup {None}]
  /\ \A w \in Workers : Jobs[w] \subseteq Calls
ASSUME SlotsAssumption

VARIABLES
  slots,   \* the unit: the preset of each slot, without a name if unsaved
  at,      \* the unit: the position that is open
  work,    \* the unit: the preset being worked on, not saved
  cache, source,  \* _catalog_cache, _catalog_source
  snap,    \* the snapshot on disk
  pc, job, loc,  \* a call of each thread: next step, arguments, locals
  made, done,    \* calls of each thread, rows of the list it is through with
  before,  \* history: slots and listing when the call began
  clean,   \* history: nobody else changed anything since, nothing was late
  played

unit == <<slots, at, work>>
listing == <<cache, source, snap>>
history == <<made, before, played>>
vars == <<unit, listing, pc, job, loc, done, clean, history>>

-----------------------------------------------------------------------------
\* A listing: its count of files, and the setlist if its folder came.
NamesIn(s) == [p \in Positions |-> s[p].name]
Whole(f) == [n |-> Cardinality(Positions) + 1, files |-> f]
Trickle == [n |-> 1, files |-> None]
Nothing == [n |-> 0, files |-> None]
Count(cat) == IF cat = None THEN 0 ELSE cat.n

OccupantByIndex(cat, p) ==  \* mutant: the index field of a whole read, always 0
  IF cat.files = None THEN None ELSE cat.files[0]

\* _slot_occupant: None too if the folder is not in the listing.
Occupant(cat, p) == IF cat.files = None THEN None ELSE cat.files[p]
FreeIfAbsent(cat) ==  \* mutant: a slot counts as free only without an entry
  {p \in Positions : p \notin DOMAIN cat.files}
Free(cat) == {p \in Positions : cat.files[p] = None}

Locals == [pos |-> None, name |-> None, view |-> None, live |-> None, old |-> None,
           list |-> <<>>, said |-> None]
NoJob == [tool |-> None]

Init ==
  /\ slots = [p \in Positions |-> [name |-> Named[p], of |-> p, trim |-> 0]]
  /\ at = 0 /\ work = slots[0]
  /\ cache = None /\ source = None
  /\ snap \in {None, Whole(Named), Trickle}
  /\ pc = [w \in Workers |-> "idle"] /\ job = [w \in Workers |-> NoJob]
  /\ loc = [w \in Workers |-> Locals]
  /\ made = [w \in Workers |-> 0] /\ done = [w \in Workers |-> <<>>]
  /\ before = [w \in Workers |-> slots]
  /\ clean = [w \in Workers |-> FALSE]
  /\ played = 0

\* The tools that work through a list, and those of them that write and may save.
\* None in a list is the preset that is open.
Through == {"level_setlist", "level_preset", "suggest_levels", "compare_presets"}
Levelling == {"level_setlist", "level_preset"}
Begin(list) == IF Head(list) = None THEN "level" ELSE "recall"

Listed(c) == IF "list" \in DOMAIN c THEN c.list ELSE <<>>

\* Where a call begins.
First(c) ==
  CASE c.tool = "recall_preset" -> IF c.folder THEN "recall" ELSE "position"
    [] c.tool \in {"save_preset", "save_preset_as", "list_empty_slots"} -> "position"
    [] c.tool = "directory_summary" -> "catalog"
    [] c.tool = "switch_preset" -> "recall"
    [] c.tool \in Through -> Begin(c.list)

Call(w) ==
  /\ pc[w] = "idle" /\ made[w] < MaxCalls
  /\ \E c \in Jobs[w] :
       /\ job' = [job EXCEPT ![w] = c]
       /\ pc' = [pc EXCEPT ![w] = First(c)]
       /\ loc' = [loc EXCEPT ![w] = [Locals EXCEPT !.list = Listed(c)]]
  /\ made' = [made EXCEPT ![w] = @ + 1]
  /\ done' = [done EXCEPT ![w] = <<>>]
  /\ before' = [before EXCEPT ![w] = slots]
  /\ clean' = [clean EXCEPT ![w] = \A u \in Workers : pc[u] = "idle"]
  /\ UNCHANGED <<unit, listing, played>>

\* A write to the unit by one thread spoils the calls of the others.
Alone(w) == [u \in Workers |-> clean[u] /\ u = w]

Say(w, what) == /\ loc' = [loc EXCEPT ![w].said = what]
                /\ pc' = [pc EXCEPT ![w] = "idle"]

\* A tool that raises, or the error it catches, ends its call or its list; the
\* list of empty slots does without the position.
Fail(w) ==
  /\ pc[w] \in {"position", "verify"}
  /\ IF job[w].tool = "list_empty_slots"
     THEN pc' = [pc EXCEPT ![w] = "catalog"] /\ UNCHANGED loc
     ELSE Say(w, "error")
  /\ UNCHANGED <<unit, listing, job, done, clean, history>>

-----------------------------------------------------------------------------
(* The position, the catalogue *)

Given(w, field) == IF field \in DOMAIN job[w] THEN job[w][field] ELSE None

\* What follows when the position is known.
AfterPosition(w) ==
  CASE job[w].tool = "recall_preset" -> "recall"
    [] job[w].tool = "save_preset" /\ job[w].name # None -> "write"
    [] OTHER -> "catalog"

\* SetlistPosition READ.  When time is up, request() takes an older message.
Position(w) ==
  /\ pc[w] = "position"
  /\ \E p \in Positions :
       /\ loc' = [loc EXCEPT
            ![w].pos = IF job[w].tool = "save_preset_as" /\ job[w].pos # None THEN job[w].pos
                       ELSE p,
            ![w].name = Given(w, "name")]
       /\ clean' = [clean EXCEPT ![w] = @ /\ p = at]
  /\ pc' = [pc EXCEPT ![w] = AfterPosition(w)]
  /\ UNCHANGED <<unit, listing, job, done, history>>

\* The cached listing serves, unless a call wants another; so does one that
\* could not tell the folder.  list_directory() may get part of the stream.
Catalog(w) ==
  /\ pc[w] = "catalog"
  /\ IF cache # None /\ job[w].tool # "directory_summary"
     THEN /\ loc' = [loc EXCEPT ![w].view = cache]
          /\ pc' = [pc EXCEPT ![w] = "use"]
     ELSE /\ \E live \in {None, Trickle, Whole(NamesIn(slots))} :
               loc' = [loc EXCEPT ![w].live = live]
          /\ pc' = [pc EXCEPT ![w] = "snapshot"]
  /\ UNCHANGED <<unit, listing, job, done, clean, history>>

LoadSnapshot(w) ==
  /\ pc[w] = "snapshot"
  /\ loc' = [loc EXCEPT ![w].old = snap]
  /\ pc' = [pc EXCEPT ![w] = "keep"]
  /\ UNCHANGED <<unit, listing, job, done, clean, history>>

\* The live listing if it is at least as complete as the one on disk, which it
\* then replaces; otherwise the one on disk; otherwise whatever there is.
Keep(w) ==
  /\ pc[w] = "keep"
  /\ LET live == loc[w].live
         old  == loc[w].old
     IN IF Count(live) >= Count(old) /\ Count(live) > 0
        THEN cache' = live /\ source' = "device" /\ snap' = live
        ELSE IF Count(old) > 0
        THEN cache' = old /\ source' = "snapshot" /\ UNCHANGED snap
        ELSE /\ cache' = IF live = None THEN Nothing ELSE live
             /\ source' = "empty" /\ UNCHANGED snap
  /\ loc' = [loc EXCEPT ![w].view = cache', ![w].live = None, ![w].old = None]
  /\ pc' = [pc EXCEPT ![w] = "use"]
  /\ UNCHANGED <<unit, job, done, clean, history>>

-----------------------------------------------------------------------------
(* What is done with them *)

\* The slots that are free, first the one that is open.
ListEmptySlots(w) ==
  /\ pc[w] = "use" /\ job[w].tool = "list_empty_slots"
  /\ LET view == loc[w].view
     IN Say(w, IF view.files = None THEN "error"
               ELSE [free |-> Free(view),
                     recommended |-> IF loc[w].pos \in Free(view) THEN loc[w].pos ELSE None])
  /\ UNCHANGED <<unit, listing, job, done, clean, history>>

DirectorySummary(w) ==
  /\ pc[w] = "use" /\ job[w].tool = "directory_summary"
  /\ Say(w, "counts")
  /\ UNCHANGED <<unit, listing, job, done, clean, history>>

\* save_preset_as() refuses a slot with another name in the listing.
Refuses(w, occupant) ==
  occupant # None /\ occupant # job[w].name /\ ~job[w].overwrite

CheckSlot(w) ==
  /\ pc[w] = "use" /\ job[w].tool = "save_preset_as"
  /\ IF Refuses(w, Occupant(loc[w].view, loc[w].pos))
     THEN Say(w, "refused")
     ELSE pc' = [pc EXCEPT ![w] = "write"] /\ UNCHANGED loc
  /\ UNCHANGED <<unit, listing, job, done, clean, history>>

ReuseNameBlindly(w) ==  \* mutant: saved without looking for a name
  /\ pc[w] = "use" /\ job[w].tool \in Levelling \cup {"save_preset"}
  /\ loc' = [loc EXCEPT ![w].name = Occupant(loc[w].view, loc[w].pos)]
  /\ pc' = [pc EXCEPT ![w] = "write"]
  /\ UNCHANGED <<unit, listing, job, done, clean, history>>

\* save_preset() without a name takes the slot's, or that of the preset read.
ReuseName(w) ==
  /\ pc[w] = "use" /\ job[w].tool \in Levelling \cup {"save_preset"}
  /\ loc' = [loc EXCEPT ![w].name = Occupant(loc[w].view, loc[w].pos)]
  /\ pc' = [pc EXCEPT ![w] = IF loc'[w].name = None THEN "name" ELSE "write"]
  /\ UNCHANGED <<unit, listing, job, done, clean, history>>

Row(w, saved) == [pos |-> Head(loc[w].list), at |-> at, of |-> work.of, saved |-> saved]
NextRow(w, row) ==
  /\ done' = [done EXCEPT ![w] = Append(@, row)]
  /\ loc' = [loc EXCEPT ![w] = [Locals EXCEPT !.list = Tail(loc[w].list)]]
  /\ pc' = [pc EXCEPT ![w] = IF Tail(loc[w].list) = <<>> THEN "idle"
                              ELSE Begin(Tail(loc[w].list))]

\* No name in the preset read, or nothing read in time: not saved.
NameOfPreset(w) ==
  /\ pc[w] = "name"
  /\ \/ /\ work.name # None
        /\ loc' = [loc EXCEPT ![w].name = work.name]
        /\ pc' = [pc EXCEPT ![w] = "write"]
        /\ UNCHANGED done
     \/ IF job[w].tool \in Levelling THEN NextRow(w, Row(w, FALSE))
        ELSE Say(w, "nameless") /\ UNCHANGED done
  /\ UNCHANGED <<unit, listing, job, clean, history>>

\* File CREATE: the unit commits what is being worked on, wherever that is from.
Write(w) ==
  /\ pc[w] = "write"
  /\ slots' = [slots EXCEPT ![loc[w].pos] = [work EXCEPT !.name = loc[w].name]]
  /\ clean' = Alone(w)
  /\ IF job[w].tool \in Levelling THEN NextRow(w, Row(w, TRUE))
     ELSE Say(w, "saved") /\ UNCHANGED done
  /\ UNCHANGED <<at, work, listing, job, history>>

-----------------------------------------------------------------------------
(* Recalling *)

TargetLast(w) ==  \* mutant: the last of the list each time
  IF loc[w].list # <<>> THEN job[w].list[Len(job[w].list)] ELSE job[w].pos
Target(w) == IF loc[w].list # <<>> THEN Head(loc[w].list) ELSE job[w].pos

\* SetlistPosition UPDATE, which the unit ignores without a folder.  The tools
\* for one preset look the folder up if none is given, those for a list do not.
Addressed(w) == job[w].folder \/ job[w].tool \in {"recall_preset", "switch_preset"}

Recall(w) ==
  /\ pc[w] = "recall"
  /\ IF Addressed(w)
     THEN at' = Target(w) /\ work' = slots[Target(w)]
     ELSE UNCHANGED <<at, work>>
  /\ clean' = Alone(w)
  /\ pc' = [pc EXCEPT ![w] = CASE job[w].tool = "recall_preset" -> "verify"
                               [] job[w].tool = "switch_preset" -> "idle"
                               [] OTHER -> "level"]
  /\ UNCHANGED <<slots, listing, job, loc, done, history>>

Verify(w) ==
  /\ pc[w] = "verify"
  /\ \E p \in Positions :
       /\ clean' = [clean EXCEPT ![w] = @ /\ p = at]
       /\ Say(w, IF p = Target(w) THEN "recalled" ELSE "refused")
  /\ UNCHANGED <<unit, listing, job, done, history>>

\* What is written: nothing by a report, and by level_preset() only if told to.
Trims(c) == c.tool = "level_setlist" \/ (c.tool = "level_preset" /\ c.apply)

\* Measured on what is being worked on, between two changes of the routing that
\* cancel out (AutoLevel), and trimmed unless it is on target or only a report;
\* what was written is saved, if asked.  No signal, for one, ends the call, after
\* a write or before.
Level(w) ==
  /\ pc[w] = "level"
  /\ \E wrote \in IF Trims(job[w]) THEN BOOLEAN ELSE {FALSE} :
       /\ work' = IF wrote THEN [work EXCEPT !.trim = 1] ELSE work
       /\ clean' = IF wrote THEN Alone(w) ELSE clean
       /\ \/ IF wrote /\ job[w].save
             THEN pc' = [pc EXCEPT ![w] = "position"] /\ UNCHANGED <<loc, done>>
             ELSE NextRow(w, Row(w, FALSE))
          \/ Say(w, "error") /\ UNCHANGED done
  /\ UNCHANGED <<slots, at, listing, job, history>>

\* At the unit, or in Cortex Control: another preset opened, this one saved.
Player ==
  /\ played < MaxPlayer
  /\ played' = played + 1
  /\ \/ \E p \in Positions : at' = p /\ work' = slots[p] /\ UNCHANGED slots
     \/ \E n \in Names : /\ slots' = [slots EXCEPT ![at] = [work EXCEPT !.name = n]]
                         /\ UNCHANGED <<at, work>>
  /\ clean' = [w \in Workers |-> FALSE]
  /\ UNCHANGED <<listing, pc, job, loc, made, done, before>>

Next ==
  \/ Player
  \/ \E w \in Workers :
       \/ Call(w) \/ Fail(w) \/ Position(w) \/ Catalog(w) \/ LoadSnapshot(w) \/ Keep(w)
       \/ ListEmptySlots(w) \/ DirectorySummary(w) \/ CheckSlot(w) \/ ReuseName(w)
       \/ NameOfPreset(w) \/ Write(w) \/ Recall(w) \/ Verify(w) \/ Level(w)

Spec == Init /\ [][Next]_vars

-----------------------------------------------------------------------------
(* Properties *)

\* The listing is one list_directory() can return, and calls are where the
\* tools of server.py can be.
Preset == [name : Names \cup {None}, of : Positions, trim : {0, 1}]
TypeOK ==
  /\ slots \in [Positions -> Preset] /\ at \in Positions /\ work \in Preset
  /\ cache = None <=> source = None
  /\ source = "empty" => cache.files = None
  /\ \A w \in Workers : pc[w] = "write" => loc[w].name \in Names /\ loc[w].pos \in Positions
  /\ \A w \in Workers : Len(done[w]) + Len(loc[w].list) <= Len(Listed(job[w]))

\* The call looked into a listing that was right.
Informed(w) == loc[w].view # None /\ loc[w].view.files = NamesIn(before[w])

Said(w, tool, what) == pc[w] = "idle" /\ clean[w] /\ job[w].tool = tool /\ loc[w].said = what

\* A save that nobody disturbs commits what is being worked on to the slot that
\* was named or is open, under the name given or the one it had, and leaves
\* every other slot alone; with a right listing it never takes a slot of another
\* name unless told to, and refuses none without that reason.
SavesAsPromised ==
  \A w \in Workers :
    LET p == loc[w].pos
        n == loc[w].name
        was == before[w][p].name
        saved(tool) == Said(w, tool, "saved")
    IN /\ saved("save_preset") \/ saved("save_preset_as") =>
            slots = [before[w] EXCEPT ![p] = [work EXCEPT !.name = n]]
       /\ saved("save_preset") =>
            /\ p = at
            /\ n = (IF job[w].name # None THEN job[w].name
                    ELSE IF Informed(w) /\ was # None THEN was ELSE n)
       /\ saved("save_preset_as") =>
            /\ p = (IF job[w].pos # None THEN job[w].pos ELSE at)
            /\ Informed(w) /\ ~job[w].overwrite => was \in {None, n}
       /\ Said(w, "save_preset_as", "refused") /\ Informed(w) => was \notin {None, n}

\* Every row of a levelled, suggested or compared list is about the preset its
\* position names, or the one open at first, and what was saved is that preset
\* with its trim, in its own slot, when a folder was given and nobody touched the
\* unit meanwhile; a call that only reports changes no slot.
LevelsTheListed ==
  \A w \in Workers :
    (Given(w, "folder") # FALSE /\ clean[w]) =>
      /\ \A i \in 1 .. Len(done[w]) :
           LET row == done[w][i]
               p   == IF row.pos = None THEN row.at ELSE row.pos
           IN /\ row.of = before[w][p].of
              /\ row.saved => slots[p].of = row.of /\ slots[p].trim = 1
      /\ job[w].tool \in Through /\ ~Trims(job[w]) => slots = before[w]

\* The slot recommended is the open one, and empty, by a right listing.
RecommendsOpenEmpty ==
  \A w \in Workers :
    (pc[w] = "idle" /\ job[w].tool = "list_empty_slots" /\ clean[w] /\ Informed(w)) =>
      /\ loc[w].said.free = {p \in Positions : slots[p].name = None}
      /\ loc[w].said.recommended \in {None, at} \cap ({None} \cup loc[w].said.free)

\* "SAFETY: refuses to write into a slot that already holds a preset with a
\* different name unless overwrite=True" (save_preset_as), with the setlist in
\* the listing it goes by.
RefusesNamedSlots ==
  [][\A w \in Workers :
       (/\ pc[w] = "write" /\ pc'[w] = "idle"
        /\ job[w].tool = "save_preset_as" /\ ~job[w].overwrite /\ loc[w].view.files # None)
         => slots[loc[w].pos].name \in {None, loc[w].name}]_vars
=============================================================================
