----------------------------- MODULE SlotsProofs -----------------------------
(* Saving and levelling, for any slots, threads and calls. *)
EXTENDS Slots, FiniteSetTheorems, SequenceTheorems, TLAPS

-----------------------------------------------------------------------------
(* Types *)

Listings == {c \in [n : Nat, files : Contents \cup {None}] : c.n = 0 => c.files = None}
Sayings == Answers \cup {None} \cup [free : SUBSET Positions, recommended : Positions \cup {None}]
Local == [pos : Positions \cup {None}, name : Names \cup {None},
          view : Listings \cup {None}, live : Listings \cup {None}, old : Listings \cup {None},
          list : Seq(Positions \cup {None}), said : Sayings]
Rows == [pos : Positions \cup {None}, at : Positions, of : Positions, saved : BOOLEAN]

Saves == {"save_preset", "save_preset_as"}
Looking == {"catalog", "snapshot", "keep", "use"}
\* From the write of the trim to the end of the save.
Saving == {"position", "name", "write"} \cup Looking

Stages == {"idle", "recall", "verify", "level"} \cup Saving

\* The steps of each tool.
Steps(d) ==
  CASE d = "recall_preset" -> {"position", "recall", "verify", "idle"}
    [] d = "switch_preset" -> {"recall", "idle"}
    [] d = "save_preset" -> Saving \cup {"idle"}
    [] d = "save_preset_as" -> {"position", "write", "idle"} \cup Looking
    [] d = "list_empty_slots" -> {"position", "idle"} \cup Looking
    [] d = "directory_summary" -> {"idle"} \cup Looking
    [] d = "level_setlist" -> {"recall", "level", "idle"} \cup Saving
    [] d = "level_preset" -> {"level", "idle"} \cup Saving
    [] d \in {"suggest_levels", "compare_presets"} -> {"recall", "level", "idle"}
    [] OTHER -> {"idle"}

UnitOK == slots \in [Positions -> Preset] /\ at \in Positions /\ work \in Preset

\* A setlist that came has a count, so that an empty listing has none.
ListingOK ==
  /\ cache \in Listings \cup {None} /\ snap \in Listings \cup {None}
  /\ source \in Sources \cup {None}
  /\ cache = None <=> source = None
  /\ source = "empty" => cache.files = None

ThreadsOK ==
  /\ pc \in [Workers -> Stages] /\ job \in [Workers -> Calls \cup {NoJob}]
  /\ loc \in [Workers -> Local] /\ done \in [Workers -> Seq(Rows)]
  /\ before \in [Workers -> [Positions -> Preset]] /\ clean \in [Workers -> BOOLEAN]

\* What is known at the step a call is at.
Placed(w) ==
  /\ pc[w] \in Steps(job[w].tool)
  /\ pc[w] # "idle" => loc[w].said = None
  /\ pc[w] # "idle" /\ job[w].tool \in Through => loc[w].list # <<>>
  /\ job[w].tool \notin Through => loc[w].list = <<>> /\ done[w] = <<>>
  /\ job[w].tool = "level_preset" => loc[w].list \in {<<>>, <<None>>}
  /\ pc[w] = "recall" /\ job[w].tool \in Through => Head(loc[w].list) \in Positions
  /\ pc[w] \in {"recall", "level"} => loc[w].pos = None \/ job[w].tool = "recall_preset"
  /\ pc[w] \in Saving => (job[w].tool \in Levelling => Trims(job[w]))
  /\ pc[w] \in Saving \ {"position"} /\ job[w].tool \in Saves \cup Levelling => loc[w].pos \in Positions
  /\ pc[w] \in Saving \ {"position"} /\ job[w].tool = "save_preset_as" => loc[w].name = job[w].name
  /\ pc[w] = "use" => loc[w].view \in Listings
  /\ pc[w] = "write" => loc[w].name \in Names
  /\ job[w].tool \in Saves /\ loc[w].said \in {"saved", "refused"} => loc[w].pos \in Positions
  /\ Len(done[w]) + Len(loc[w].list) <= Len(Listed(job[w]))

Typed == UnitOK /\ ListingOK /\ ThreadsOK /\ \A w \in Workers : Placed(w)

-----------------------------------------------------------------------------
(* What a save goes by *)

Over(w, what) == loc[w].said = what

\* The name a save is about to use, and why it was let through or refused.
NameOfSave(w) ==
  LET p == loc[w].pos
      n == loc[w].name
      was == before[w][p].name
  IN job[w].tool = "save_preset" =>
       /\ pc[w] \in Looking \cup {"name"} => job[w].name = None
       /\ pc[w] = "name" /\ Informed(w) => was = None
       /\ pc[w] = "write" \/ Over(w, "saved") =>
            /\ job[w].name # None => n = job[w].name
            /\ job[w].name = None /\ Informed(w) /\ was # None => n = was

SlotOfSave(w) ==
  LET p == loc[w].pos
      n == loc[w].name
      was == before[w][p].name
  IN job[w].tool = "save_preset_as" =>
       /\ Over(w, "saved") \/ Over(w, "refused") => n = job[w].name
       /\ pc[w] = "write" \/ Over(w, "saved") =>
            (Informed(w) /\ ~job[w].overwrite => was \in {None, n})
       /\ Over(w, "refused") => (Informed(w) => was \notin {None, n})

\* What a list of empty slots was made of.
Recommends(w) ==
  job[w].tool = "list_empty_slots" /\ pc[w] = "idle" =>
    /\ loc[w].view \in Listings
    /\ loc[w].view.files # None =>
         loc[w].said = [free |-> Free(loc[w].view),
                        recommended |-> IF loc[w].pos \in Free(loc[w].view) THEN loc[w].pos ELSE None]

-----------------------------------------------------------------------------
(* A call that nobody disturbs *)

\* What is being worked on is from the slot that is open.
Open == slots[at].of = work.of

\* The slots are those of the beginning, but for what the call saved.
SlotsKept(w) ==
  /\ job[w].tool \notin Saves => \A p \in Positions : slots[p].of = before[w][p].of
  /\ job[w].tool \in Saves /\ Over(w, "saved") =>
       slots = [before[w] EXCEPT ![loc[w].pos] = [work EXCEPT !.name = loc[w].name]]
  /\ (job[w].tool \in Saves => ~Over(w, "saved")) /\ (job[w].tool \in Levelling => ~Trims(job[w])) =>
       slots = before[w]

\* The position it goes by is the one that is open.
PositionKept(w) ==
  job[w].tool # "recall_preset" /\ loc[w].pos # None =>
    loc[w].pos = IF job[w].tool = "save_preset_as" /\ job[w].pos # None THEN job[w].pos ELSE at

RowOK(w, row) ==
  LET p == IF row.pos = None THEN row.at ELSE row.pos
  IN /\ row.of = before[w][p].of
     /\ row.saved => slots[p].of = row.of /\ slots[p].trim = 1

\* It works on the preset the list has next, and its rows are about theirs.
ListKept(w) ==
  job[w].tool \in Through =>
    /\ job[w].tool \in Levelling /\ pc[w] \in Saving => work.trim = 1
    /\ Given(w, "folder") # FALSE =>
         /\ pc[w] \in Saving \cup {"level"} => Head(loc[w].list) \in {None, at}
         /\ \A i \in 1 .. Len(done[w]) : RowOK(w, done[w][i])

Undisturbed(w) == SlotsKept(w) /\ PositionKept(w) /\ ListKept(w)

Told(w) == NameOfSave(w) /\ SlotOfSave(w) /\ Recommends(w)

SaveInv ==
  /\ Typed /\ Open
  /\ \A w \in Workers : Told(w)
  /\ \A w \in Workers : clean[w] => Undisturbed(w)

-----------------------------------------------------------------------------
(* Facts about the constants and the calls *)

\* None is no position, name, setlist or listing.
LEMMA NoneIsNothing ==
  /\ None \notin Positions /\ None \notin Names /\ None \notin Contents
  /\ None \notin Listings
<1>1. None \notin Names \cup Positions \cup Contents \cup Tools \cup Sources \cup Answers
      /\ None \notin [n : Nat, files : Contents \cup {None}]
  BY SlotsAssumption, Zenon DEF SlotsAssumption
<1> QED
  BY <1>1, Zenon DEF Listings

\* Nor is it a tool, a source or an answer.
LEMMA NoneIsNoWord ==
  ASSUME NEW x \in Tools \cup Sources \cup Answers
  PROVE  None # x
  BY SlotsAssumption, Zenon DEF SlotsAssumption

\* A call is of one of the tools.
LEMMA ToolOfCall ==
  ASSUME NEW c \in Calls
  PROVE  c.tool \in Tools
  BY DEF Calls, Tools

\* What a call carries, by its tool.
LEMMA ArgsOfCall ==
  ASSUME NEW c \in Calls
  PROVE  /\ c.tool \in {"recall_preset", "switch_preset"} => c.pos \in Positions /\ c.folder \in BOOLEAN
         /\ c.tool = "save_preset" => c.name \in Names \cup {None} /\ "name" \in DOMAIN c
         /\ c.tool = "save_preset_as" =>
              /\ c.name \in Names /\ "name" \in DOMAIN c
              /\ c.pos \in Positions \cup {None} /\ c.overwrite \in BOOLEAN
         /\ c.tool \in Through \ {"level_preset"} =>
              /\ c.list \in Lists(Positions \cup {None}) /\ "list" \in DOMAIN c
              /\ c.folder \in BOOLEAN /\ "folder" \in DOMAIN c
         /\ c.tool = "level_setlist" => c.list \in Lists(Positions)
         /\ c.tool = "level_preset" =>
              c.list = <<None>> /\ "list" \in DOMAIN c /\ c.apply \in BOOLEAN
         /\ c.tool \notin Through => "list" \notin DOMAIN c
         /\ c.tool \notin Saves => "name" \notin DOMAIN c
<1>1. \A S, T : S \subseteq T => Seq(S) \subseteq Seq(T)
  OBVIOUS
<1>2. Lists(Positions) \subseteq Lists(Positions \cup {None})
  BY <1>1, Zenon DEF Lists
<1>3. CASE c \in [tool : {"recall_preset", "switch_preset"}, folder : BOOLEAN, pos : Positions]
  BY <1>3 DEF Through, Saves
<1>4. CASE c \in [tool : {"save_preset"}, name : Names \cup {None}]
  BY <1>4 DEF Through, Saves
<1>5. CASE c \in [tool : {"save_preset_as"}, name : Names, pos : Positions \cup {None}, overwrite : BOOLEAN]
  BY <1>5 DEF Through, Saves
<1>6. CASE c \in [tool : {"list_empty_slots", "directory_summary"}]
  BY <1>6 DEF Through, Saves
<1>7. CASE c \in [tool : {"level_setlist"}, list : Lists(Positions), folder : BOOLEAN, save : BOOLEAN]
  BY <1>2, <1>7 DEF Through, Saves
<1>8. CASE c \in [tool : {"suggest_levels", "compare_presets"}, list : Lists(Positions \cup {None}),
                  folder : BOOLEAN]
  BY <1>8 DEF Through, Saves
<1>9. CASE c \in [tool : {"level_preset"}, list : {<<None>>}, apply : BOOLEAN, save : BOOLEAN]
  BY <1>9 DEF Through, Saves
<1> QED
  BY <1>3, <1>4, <1>5, <1>6, <1>7, <1>8, <1>9 DEF Calls

\* The list a call works through.
LEMMA ListOfCall ==
  ASSUME NEW c \in Calls
  PROVE  /\ Listed(c) \in Seq(Positions \cup {None})
         /\ c.tool \in Through <=> Listed(c) # <<>>
         /\ c.tool = "level_preset" => Listed(c) = <<None>>
<1>1. CASE c.tool = "level_preset"
  <2>1. Listed(c) = <<None>>
    BY <1>1, ArgsOfCall DEF Listed
  <2> QED
    BY <1>1, <2>1 DEF Through
<1>2. CASE c.tool \in Through \ {"level_preset"}
  <2>1. Listed(c) \in Lists(Positions \cup {None})
    BY <1>2, ArgsOfCall DEF Listed
  <2> QED
    BY <1>2, <2>1 DEF Lists
<1>3. CASE c.tool \notin Through
  <2>1. Listed(c) = <<>>
    BY <1>3, ArgsOfCall DEF Listed
  <2>2. c.tool # "level_preset"
    BY <1>3 DEF Through
  <2> QED
    BY <1>3, <2>1, <2>2
<1> QED
  BY <1>1, <1>2, <1>3

\* A thread's step.
Step(w) ==
  \/ Call(w) \/ Fail(w) \/ Position(w) \/ Catalog(w) \/ LoadSnapshot(w) \/ Keep(w)
  \/ ListEmptySlots(w) \/ DirectorySummary(w) \/ CheckSlot(w) \/ ReuseName(w)
  \/ NameOfPreset(w) \/ Write(w) \/ Recall(w) \/ Verify(w) \/ Level(w)

\* A step is the player's, none, or a thread's.
LEMMA Stepping == [Next]_vars <=> Player \/ UNCHANGED vars \/ \E w \in Workers : Step(w)
  BY DEF Next, Step

Quiet(u) == /\ pc'[u] = pc[u] /\ job'[u] = job[u] /\ loc'[u] = loc[u] /\ done'[u] = done[u]
            /\ before'[u] = before[u]
            /\ clean'[u] => clean[u] /\ slots' = slots /\ at' = at /\ work' = work

\* A step leaves the other threads alone, and the unit, or their calls are not
\* undisturbed.
LEMMA OthersStay ==
  ASSUME ThreadsOK, NEW w \in Workers, Step(w), NEW u \in Workers, u # w
  PROVE  Quiet(u)
<1> USE DEF ThreadsOK, unit, listing, history, Quiet
<1>1. CASE Call(w)
  BY <1>1 DEF Call
<1>2. CASE Fail(w)
  BY <1>2 DEF Fail, Say
<1>3. CASE Position(w)
  BY <1>3 DEF Position
<1>4. CASE Catalog(w)
  BY <1>4 DEF Catalog
<1>5. CASE LoadSnapshot(w)
  BY <1>5 DEF LoadSnapshot
<1>6. CASE Keep(w)
  BY <1>6 DEF Keep
<1>7. CASE ListEmptySlots(w)
  BY <1>7 DEF ListEmptySlots, Say
<1>8. CASE DirectorySummary(w)
  BY <1>8 DEF DirectorySummary, Say
<1>9. CASE CheckSlot(w)
  BY <1>9 DEF CheckSlot, Say
<1>10. CASE ReuseName(w)
  BY <1>10 DEF ReuseName
<1>11. CASE NameOfPreset(w)
  BY <1>11 DEF NameOfPreset, NextRow, Say
<1>12. CASE Write(w)
  BY <1>12 DEF Write, NextRow, Say, Alone
<1>13. CASE Recall(w)
  BY <1>13 DEF Recall, Alone
<1>14. CASE Verify(w)
  BY <1>14 DEF Verify, Say
<1>15. CASE Level(w)
  BY <1>15 DEF Level, NextRow, Say, Alone
<1> QED
  BY <1>1, <1>2, <1>3, <1>4, <1>5, <1>6, <1>7, <1>8, <1>9, <1>10, <1>11, <1>12, <1>13, <1>14,
     <1>15
     DEF Step

-----------------------------------------------------------------------------
(* Types are kept *)

\* The steps of a tool that is not one of them all.
LEMMA StepsOf ==
  /\ Steps(None) = {"idle"}
  /\ Steps("recall_preset") = {"position", "recall", "verify", "idle"}
  /\ Steps("switch_preset") = {"recall", "idle"}
  /\ Steps("save_preset") = Saving \cup {"idle"}
  /\ Steps("save_preset_as") = {"position", "write", "idle"} \cup Looking
  /\ Steps("list_empty_slots") = {"position", "idle"} \cup Looking
  /\ Steps("directory_summary") = {"idle"} \cup Looking
  /\ Steps("level_setlist") = {"recall", "level", "idle"} \cup Saving
  /\ Steps("level_preset") = {"level", "idle"} \cup Saving
  /\ Steps("suggest_levels") = {"recall", "level", "idle"}
  /\ Steps("compare_presets") = {"recall", "level", "idle"}
<1>1. None # "recall_preset" /\ None # "switch_preset" /\ None # "save_preset" /\ None # "save_preset_as"
      /\ None # "list_empty_slots" /\ None # "directory_summary" /\ None # "level_setlist"
      /\ None # "level_preset" /\ None # "suggest_levels" /\ None # "compare_presets"
  BY NoneIsNoWord DEF Tools
<1> QED
  BY <1>1 DEF Steps

\* A thread that is busy has a call.
LEMMA Busy ==
  ASSUME ThreadsOK, NEW w \in Workers, Placed(w)
  PROVE  /\ pc[w] # "idle" => job[w] \in Calls
         /\ job[w] \notin Calls => job[w] = NoJob /\ job[w].tool = None /\ pc[w] = "idle"
<1>1. job[w] \in Calls \/ job[w] = NoJob
  BY DEF ThreadsOK
<1>2. NoJob.tool = None
  BY DEF NoJob
<1> QED
  BY <1>1, <1>2, StepsOf DEF Placed

\* Who is at a step.
LEMMA Doing ==
  ASSUME ThreadsOK, NEW w \in Workers, Placed(w)
  PROVE  /\ pc[w] = "position" => job[w].tool \in {"recall_preset", "list_empty_slots"} \cup Saves \cup Levelling
         /\ pc[w] \in Looking => job[w].tool \in {"list_empty_slots", "directory_summary"} \cup Saves \cup Levelling
         /\ pc[w] = "name" => job[w].tool \in {"save_preset"} \cup Levelling
         /\ pc[w] = "write" => job[w].tool \in Saves \cup Levelling
         /\ pc[w] = "recall" => job[w].tool \in {"recall_preset", "switch_preset"} \cup (Through \ {"level_preset"})
         /\ pc[w] = "verify" => job[w].tool = "recall_preset"
         /\ pc[w] = "level" => job[w].tool \in Through
<1> DEFINE d == job[w].tool
<1>1. d = None \/ d \in {"recall_preset", "switch_preset", "save_preset", "save_preset_as",
                         "list_empty_slots", "directory_summary"} \cup Through
  BY Busy, ToolOfCall DEF Tools, Through
<1>2. pc[w] \in Steps(d)
  BY DEF Placed
<1> HIDE DEF d
<1>3. d = None => pc[w] = "idle"
  BY <1>2, StepsOf
<1>4. CASE d \in {"recall_preset", "switch_preset", "list_empty_slots", "directory_summary"}
  BY <1>2, <1>4, StepsOf DEF d, Looking, Saves, Levelling, Through
<1>5. CASE d \in Saves
  BY <1>2, <1>5, StepsOf DEF d, Looking, Saving, Saves, Levelling, Through
<1>6. CASE d \in Through
  BY <1>2, <1>6, StepsOf DEF d, Looking, Saving, Saves, Levelling, Through
<1> QED
  BY <1>1, <1>3, <1>4, <1>5, <1>6 DEF d, Looking, Saves

\* No thread has a call at first, and the listing is none or one on disk.
LEMMA InitTyped == Init => Typed
<1> SUFFICES ASSUME Init PROVE Typed
  OBVIOUS
<1>1. Cardinality(Positions) \in Nat
  BY SlotsAssumption, FS_CardinalityType DEF SlotsAssumption
<1>2. Named \in Contents /\ 0 \in Positions /\ Positions \subseteq Nat
  BY SlotsAssumption, Zenon DEF SlotsAssumption
<1>3. UnitOK
  <2>1. slots \in [Positions -> Preset]
    BY <1>2 DEF Init, Preset, Contents
  <2> QED
    BY <1>2, <2>1 DEF Init, UnitOK
<1>4. Whole(Named) \in Listings /\ Trickle \in Listings
  BY <1>1, <1>2 DEF Whole, Trickle, Listings
<1>5. ListingOK
  <2>1. None # "empty"
    BY NoneIsNoWord DEF Sources
  <2> QED
    BY <1>4, <2>1 DEF Init, ListingOK
<1>6. Locals \in Local
  BY EmptySeq DEF Locals, Local, Sayings
<1>7. ThreadsOK
  <2>1. pc \in [Workers -> Stages] /\ clean \in [Workers -> BOOLEAN]
    BY DEF Init, Stages
  <2>2. job \in [Workers -> Calls \cup {NoJob}]
    BY DEF Init
  <2>3. loc \in [Workers -> Local]
    BY <1>6 DEF Init
  <2>4. done \in [Workers -> Seq(Rows)]
    BY EmptySeq DEF Init
  <2>5. before \in [Workers -> [Positions -> Preset]]
    BY <1>3 DEF Init, UnitOK
  <2> QED
    BY <2>1, <2>2, <2>3, <2>4, <2>5 DEF ThreadsOK
<1>8. ASSUME NEW w \in Workers
      PROVE  Placed(w)
  <2>1. pc[w] = "idle" /\ job[w] = NoJob /\ loc[w] = Locals /\ done[w] = <<>>
    BY DEF Init
  <2>2. NoJob.tool = None /\ Listed(NoJob) = <<>>
    BY DEF NoJob, Listed
  <2>3. Locals.list = <<>> /\ Locals.said = None
    BY DEF Locals
  <2>4. None \notin Through /\ None # "level_preset" /\ None # "save_preset" /\ None # "save_preset_as"
    BY NoneIsNoWord DEF Through, Tools
  <2>5. Len(<<>>) = 0
    OBVIOUS
  <2> QED
    BY <2>1, <2>2, <2>3, <2>4, <2>5, StepsOf DEF Placed, Saving, Looking, Saves
<1> QED
  BY <1>3, <1>5, <1>7, <1>8 DEF Typed

Keeps(w) == UnitOK' /\ ListingOK' /\ ThreadsOK' /\ Placed(w)'

\* What holds of the thread that moves holds of all.
LEMMA Carry ==
  ASSUME Typed, NEW w \in Workers, Step(w), Keeps(w)
  PROVE  Typed'
<1>1. ASSUME NEW u \in Workers, u # w
      PROVE  Placed(u)'
  <2>1. Quiet(u)
    BY <1>1, OthersStay DEF Typed
  <2>2. Placed(u)
    BY DEF Typed
  <2> QED
    BY <2>1, <2>2, ZenonT(60) DEF Placed, Quiet
<1> QED
  BY <1>1 DEF Typed, Keeps

\* A thread that changes only where it is and what it has read.
LEMMA Moved ==
  ASSUME Typed, NEW w \in Workers, NEW s \in Stages, NEW l \in Local,
         pc' = [pc EXCEPT ![w] = s], loc' = [loc EXCEPT ![w] = l],
         UNCHANGED <<job, done, before>>, clean' \in [Workers -> BOOLEAN]
  PROVE  /\ ThreadsOK' /\ pc'[w] = s /\ loc'[w] = l
         /\ job'[w] = job[w] /\ done'[w] = done[w] /\ before'[w] = before[w]
  BY DEF Typed, ThreadsOK

\* What a thread has read so far.
LEMMA LocalIs ==
  ASSUME Typed, NEW w \in Workers
  PROVE  /\ loc[w] \in Local /\ pc[w] \in Stages /\ clean[w] \in BOOLEAN
         /\ job[w] \in Calls \cup {NoJob} /\ done[w] \in Seq(Rows)
  BY DEF Typed, ThreadsOK

\* A new call starts with nothing read.
LEMMA CallTyped ==
  ASSUME Typed, NEW w \in Workers, Call(w)
  PROVE  Keeps(w)
<1>1. PICK c \in Jobs[w] :
        /\ job' = [job EXCEPT ![w] = c] /\ pc' = [pc EXCEPT ![w] = First(c)]
        /\ loc' = [loc EXCEPT ![w] = [Locals EXCEPT !.list = Listed(c)]]
  BY DEF Call
<1>2. c \in Calls
  <2>1. Jobs[w] \subseteq Calls
    BY SlotsAssumption, Zenon DEF SlotsAssumption
  <2> QED
    BY <2>1
<1>3. PICK l : l = [Locals EXCEPT !.list = Listed(c)]
  OBVIOUS
<1>4. l.list = Listed(c) /\ l.pos = None /\ l.said = None
  BY <1>3 DEF Locals
<1>5. l \in Local
  BY <1>2, <1>3, ListOfCall DEF Locals, Local, Sayings
<1>6. c.tool \in Through => Begin(Listed(c)) \in {"level", "recall"}
  BY DEF Begin
<1>7. First(c) \in Steps(c.tool) \cap Stages
  <2>1. c.tool = "recall_preset" => First(c) \in {"recall", "position"}
    BY DEF First, Through
  <2>2. c.tool \in {"save_preset", "save_preset_as", "list_empty_slots"} => First(c) = "position"
    BY DEF First, Through
  <2>3. c.tool = "directory_summary" => First(c) = "catalog"
    BY DEF First, Through
  <2>4. c.tool = "switch_preset" => First(c) = "recall"
    BY DEF First, Through
  <2>5. c.tool \in Through => First(c) = Begin(c.list) /\ c.list = Listed(c)
    BY <1>2, ArgsOfCall DEF First, Through, Listed
  <2>6. c.tool = "level_preset" => First(c) = "level"
    <3>1. c.tool = "level_preset" => c.list = <<None>>
      BY <1>2, ArgsOfCall
    <3>2. Head(<<None>>) = None
      OBVIOUS
    <3> QED
      BY <2>5, <3>1, <3>2 DEF Through, Begin
  <2> QED
    BY <1>2, <1>6, <2>1, <2>2, <2>3, <2>4, <2>5, <2>6, ToolOfCall, StepsOf
       DEF Tools, Through, Saving, Looking, Stages
<1>8. ThreadsOK'
  <2>1. pc' \in [Workers -> Stages] /\ job' \in [Workers -> Calls \cup {NoJob}]
    BY <1>1, <1>2, <1>7 DEF Typed, ThreadsOK
  <2>2. loc' \in [Workers -> Local]
    BY <1>1, <1>3, <1>5 DEF Typed, ThreadsOK
  <2>3. done' \in [Workers -> Seq(Rows)]
    BY EmptySeq DEF Call, Typed, ThreadsOK
  <2>4. before' \in [Workers -> [Positions -> Preset]]
    BY DEF Call, Typed, ThreadsOK, UnitOK
  <2>5. clean' \in [Workers -> BOOLEAN]
    <3>1. (\A u \in Workers : pc[u] = "idle") \in BOOLEAN
      OBVIOUS
    <3> QED
      BY <3>1 DEF Call, Typed, ThreadsOK
  <2> QED
    BY <2>1, <2>2, <2>3, <2>4, <2>5 DEF ThreadsOK
<1>9. pc'[w] = First(c) /\ job'[w] = c /\ loc'[w] = l /\ done'[w] = <<>>
  BY <1>1, <1>3 DEF Call, Typed, ThreadsOK
<1>10. Placed(w)'
  <2>1. c.tool \in Through <=> l.list # <<>>
    BY <1>2, <1>4, ListOfCall
  <2>2. c.tool = "level_preset" => l.list = <<None>>
    BY <1>2, <1>4, ListOfCall
  <2>3. First(c) = "recall" /\ c.tool \in Through => Head(l.list) \in Positions
    <3>1. c.tool \in Through => First(c) = Begin(l.list) /\ l.list \in Seq(Positions \cup {None})
      BY <1>2, <1>4, ArgsOfCall, ListOfCall DEF First, Through, Listed
    <3>2. l.list \in Seq(Positions \cup {None}) /\ l.list # <<>> => Head(l.list) \in Positions \cup {None}
      BY HeadTailProperties
    <3> QED
      BY <2>1, <3>1, <3>2 DEF Begin
  <2>4. First(c) \in Saving => c.tool \notin Levelling
    <3>1. c.tool \in Levelling => First(c) = Begin(c.list)
      BY DEF First, Through, Levelling
    <3> QED
      BY <3>1 DEF Saving, Looking, Begin
  <2>5. First(c) \in Saving \ {"position"} => c.tool = "directory_summary" /\ First(c) = "catalog"
    <3>1. c.tool \in Tools
      BY <1>2, ToolOfCall
    <3> QED
      BY <3>1 DEF First, Begin, Tools, Through, Saving, Looking
  <2>6. Len(<<>>) = 0 /\ Len(l.list) \in Nat
    BY <1>5, LenProperties DEF Local
  <2>7. None # "saved" /\ None # "refused"
    BY NoneIsNoWord DEF Answers
  <2> QED
    BY <1>4, <1>7, <1>9, <2>1, <2>2, <2>3, <2>4, <2>5, <2>6, <2>7
       DEF Placed, Saves, Levelling, Saving, Looking
<1>11. UnitOK' /\ ListingOK'
  BY DEF Call, unit, listing, Typed, UnitOK, ListingOK
<1> QED
  BY <1>8, <1>10, <1>11 DEF Keeps

\* A tool that answers.
LEMMA SayTyped ==
  ASSUME Typed, NEW w \in Workers, pc[w] # "idle", NEW what \in Sayings, Say(w, what),
         UNCHANGED <<job, done, before>>, clean' \in [Workers -> BOOLEAN],
         job[w].tool \in Saves /\ what \in {"saved", "refused"} => loc[w].pos \in Positions
  PROVE  ThreadsOK' /\ Placed(w)'
<1>1. /\ Placed(w) /\ ThreadsOK
  BY DEF Typed
<1>2. PICK l : l = [loc[w] EXCEPT !.said = what]
  OBVIOUS
<1>3. loc[w] \in Local
  BY LocalIs
<1>4. l \in Local /\ l.said = what /\ l.pos = loc[w].pos /\ l.list = loc[w].list
  BY <1>2, <1>3 DEF Local
<1>5. pc' = [pc EXCEPT ![w] = "idle"] /\ loc' = [loc EXCEPT ![w] = l]
  BY <1>2 DEF Say
<1>6. /\ ThreadsOK' /\ pc'[w] = "idle" /\ loc'[w] = l
      /\ job'[w] = job[w] /\ done'[w] = done[w] /\ before'[w] = before[w]
  BY <1>4, <1>5, Moved DEF Stages
<1>7. "idle" \in Steps(job[w].tool)
  BY <1>1, Busy, ToolOfCall, StepsOf DEF Tools
<1> QED
  BY <1>1, <1>4, <1>6, <1>7 DEF Placed, Saving, Looking

\* A read that fails ends the call, but for the list of empty slots.
LEMMA FailTyped ==
  ASSUME Typed, NEW w \in Workers, Fail(w)
  PROVE  Keeps(w)
<1>1. UnitOK' /\ ListingOK'
  BY DEF Fail, unit, listing, Typed, UnitOK, ListingOK
<1>2. UNCHANGED <<job, done, before>> /\ clean' \in [Workers -> BOOLEAN] /\ pc[w] # "idle"
  BY DEF Fail, history, Typed, ThreadsOK
<1>3. CASE job[w].tool = "list_empty_slots"
  <2>1. loc[w] \in Local /\ loc' = [loc EXCEPT ![w] = loc[w]]
    BY <1>3, LocalIs DEF Fail, Typed, ThreadsOK
  <2>2. pc' = [pc EXCEPT ![w] = "catalog"]
    BY <1>3 DEF Fail
  <2>3. /\ ThreadsOK' /\ pc'[w] = "catalog" /\ loc'[w] = loc[w]
        /\ job'[w] = job[w] /\ done'[w] = done[w] /\ before'[w] = before[w]
    BY <1>2, <2>1, <2>2, Moved DEF Stages, Saving, Looking
  <2>4. Placed(w)'
    BY <1>2, <1>3, <2>3, StepsOf DEF Typed, Placed, Saving, Looking, Saves, Levelling, Through
  <2> QED
    BY <1>1, <2>3, <2>4 DEF Keeps
<1>4. CASE job[w].tool # "list_empty_slots"
  <2>1. Say(w, "error")
    BY <1>4 DEF Fail
  <2>2. "error" \in Sayings
    BY DEF Sayings, Answers
  <2>3. ThreadsOK' /\ Placed(w)'
    BY <1>2, <2>1, <2>2, SayTyped
  <2> QED
    BY <1>1, <2>3 DEF Keeps
<1> QED
  BY <1>3, <1>4

\* The position a call goes by is one of the setlist.
LEMMA PositionTyped ==
  ASSUME Typed, NEW w \in Workers, Position(w)
  PROVE  Keeps(w)
<1>1. UnitOK' /\ ListingOK'
  BY DEF Position, unit, listing, Typed, UnitOK, ListingOK
<1>2. UNCHANGED <<job, done, before>> /\ pc[w] = "position"
  BY DEF Position, history
<1>3. PICK p \in Positions :
        /\ loc' = [loc EXCEPT
             ![w].pos = IF job[w].tool = "save_preset_as" /\ job[w].pos # None THEN job[w].pos ELSE p,
             ![w].name = Given(w, "name")]
        /\ clean' = [clean EXCEPT ![w] = @ /\ p = at]
  BY DEF Position
<1>4. clean' \in [Workers -> BOOLEAN]
  <2>1. (clean[w] /\ p = at) \in BOOLEAN
    OBVIOUS
  <2> QED
    BY <1>3, <2>1 DEF Typed, ThreadsOK
<1>5. Placed(w) /\ ThreadsOK /\ loc[w] \in Local
  BY LocalIs DEF Typed
<1>6. job[w] \in Calls /\ job[w].tool \in {"recall_preset", "list_empty_slots"} \cup Saves \cup Levelling
  BY <1>2, <1>5, Busy, Doing
<1>7. PICK q : q = IF job[w].tool = "save_preset_as" /\ job[w].pos # None THEN job[w].pos ELSE p
  OBVIOUS
<1>8. q \in Positions
  BY <1>6, <1>7, ArgsOfCall
<1>9. PICK n : n = Given(w, "name")
  OBVIOUS
<1>10. /\ n \in Names \cup {None}
       /\ job[w].tool \in Saves => n = job[w].name
  BY <1>6, <1>9, ArgsOfCall DEF Given, Saves
<1>11. PICK l : l = [loc[w] EXCEPT !.pos = q, !.name = n]
  OBVIOUS
<1>12. l \in Local /\ l.pos = q /\ l.name = n /\ l.list = loc[w].list /\ l.said = loc[w].said
  BY <1>5, <1>8, <1>10, <1>11 DEF Local
<1>13. loc' = [loc EXCEPT ![w] = l]
  BY <1>3, <1>5, <1>7, <1>9, <1>11 DEF ThreadsOK
<1>14. PICK s : s = AfterPosition(w)
  OBVIOUS
<1>15. s = IF job[w].tool = "recall_preset" THEN "recall"
           ELSE IF job[w].tool = "save_preset" /\ job[w].name # None THEN "write" ELSE "catalog"
  BY <1>14 DEF AfterPosition
<1>16. pc' = [pc EXCEPT ![w] = s] /\ s \in Stages
  BY <1>14, <1>15 DEF Position, Stages, Saving, Looking
<1>17. /\ ThreadsOK' /\ pc'[w] = s /\ loc'[w] = l
       /\ job'[w] = job[w] /\ done'[w] = done[w] /\ before'[w] = before[w]
  BY <1>2, <1>4, <1>12, <1>13, <1>16, Moved
<1>18. s \in Steps(job[w].tool)
  BY <1>6, <1>15, StepsOf DEF Saves, Levelling, Saving, Looking
<1>19. s = "recall" => job[w].tool = "recall_preset" /\ job[w].tool \notin Through
  BY <1>15 DEF Through
<1>20. s = "write" => n \in Names
  BY <1>10, <1>15 DEF Saves
<1>21. job[w].tool = "save_preset_as" => n = job[w].name
  BY <1>10 DEF Saves
<1>22. Placed(w)'
  BY <1>2, <1>5, <1>8, <1>12, <1>15, <1>17, <1>18, <1>19, <1>20, <1>21
  DEF Placed, Saving, Looking
<1> QED
  BY <1>1, <1>17, <1>22 DEF Keeps

\* A listing is the one cached, or to be compared with the one on disk.
LEMMA CatalogTyped ==
  ASSUME Typed, NEW w \in Workers, Catalog(w)
  PROVE  Keeps(w)
<1>1. UnitOK' /\ ListingOK'
  BY DEF Catalog, unit, listing, Typed, UnitOK, ListingOK
<1>2. UNCHANGED <<job, done, before>> /\ pc[w] = "catalog" /\ clean' \in [Workers -> BOOLEAN]
  BY DEF Catalog, history, Typed, ThreadsOK
<1>3. Placed(w) /\ ThreadsOK /\ loc[w] \in Local
  BY LocalIs DEF Typed
<1>4. PICK s \in {"use", "snapshot"}, l \in Local :
        /\ pc' = [pc EXCEPT ![w] = s] /\ loc' = [loc EXCEPT ![w] = l]
        /\ l.pos = loc[w].pos /\ l.name = loc[w].name /\ l.list = loc[w].list /\ l.said = loc[w].said
        /\ s = "use" => l.view \in Listings
  <2>1. CASE cache # None /\ job[w].tool # "directory_summary"
    <3>1. PICK l : l = [loc[w] EXCEPT !.view = cache]
      OBVIOUS
    <3>2. cache \in Listings
      BY <2>1 DEF Typed, ListingOK
    <3>3. l \in Local /\ l.pos = loc[w].pos /\ l.name = loc[w].name /\ l.list = loc[w].list /\ l.said = loc[w].said
          /\ l.view = cache
      BY <1>3, <3>1, <3>2 DEF Local
    <3> QED
      BY <2>1, <3>1, <3>2, <3>3 DEF Catalog
  <2>2. CASE ~(cache # None /\ job[w].tool # "directory_summary")
    <3>1. PICK live \in {None, Trickle, Whole(NamesIn(slots))} : loc' = [loc EXCEPT ![w].live = live]
      BY <2>2 DEF Catalog
    <3>2. live \in Listings \cup {None}
      <4>1. NamesIn(slots) \in Contents
        BY DEF NamesIn, Contents, Typed, UnitOK, Preset
      <4>2. Cardinality(Positions) \in Nat
        BY SlotsAssumption, FS_CardinalityType DEF SlotsAssumption
      <4> QED
        BY <4>1, <4>2 DEF Whole, Trickle, Listings
    <3>3. PICK l : l = [loc[w] EXCEPT !.live = live]
      OBVIOUS
    <3>4. l \in Local /\ l.pos = loc[w].pos /\ l.name = loc[w].name /\ l.list = loc[w].list /\ l.said = loc[w].said
      BY <1>3, <3>2, <3>3 DEF Local
    <3> QED
      BY <2>2, <3>1, <3>3, <3>4 DEF Catalog
  <2> QED
    BY <2>1, <2>2
<1>5. /\ ThreadsOK' /\ pc'[w] = s /\ loc'[w] = l
      /\ job'[w] = job[w] /\ done'[w] = done[w] /\ before'[w] = before[w]
  BY <1>2, <1>4, Moved DEF Stages, Saving, Looking
<1>6. s \in Steps(job[w].tool)
  <2>1. job[w].tool \in {"list_empty_slots", "directory_summary"} \cup Saves \cup Levelling
    BY <1>2, <1>3, Doing DEF Looking
  <2> QED
    BY <2>1, StepsOf DEF Saves, Levelling, Saving, Looking
<1>7. Placed(w)'
  BY <1>2, <1>3, <1>4, <1>5, <1>6 DEF Placed, Saving, Looking
<1> QED
  BY <1>1, <1>5, <1>7 DEF Keeps

\* What is on disk is a listing or nothing.
LEMMA LoadTyped ==
  ASSUME Typed, NEW w \in Workers, LoadSnapshot(w)
  PROVE  Keeps(w)
<1>1. UnitOK' /\ ListingOK'
  BY DEF LoadSnapshot, unit, listing, Typed, UnitOK, ListingOK
<1>2. UNCHANGED <<job, done, before>> /\ pc[w] = "snapshot" /\ clean' \in [Workers -> BOOLEAN]
  BY DEF LoadSnapshot, history, Typed, ThreadsOK
<1>3. Placed(w) /\ ThreadsOK /\ loc[w] \in Local /\ snap \in Listings \cup {None}
  BY LocalIs DEF Typed, ListingOK
<1>4. PICK l : l = [loc[w] EXCEPT !.old = snap]
  OBVIOUS
<1>5. l \in Local /\ l.pos = loc[w].pos /\ l.name = loc[w].name /\ l.list = loc[w].list /\ l.said = loc[w].said
  BY <1>3, <1>4 DEF Local
<1>6. /\ ThreadsOK' /\ pc'[w] = "keep" /\ loc'[w] = l
      /\ job'[w] = job[w] /\ done'[w] = done[w] /\ before'[w] = before[w]
  <2>1. pc' = [pc EXCEPT ![w] = "keep"] /\ loc' = [loc EXCEPT ![w] = l]
    BY <1>3, <1>4 DEF LoadSnapshot, ThreadsOK
  <2>2. "keep" \in Stages
    BY DEF Stages, Saving, Looking
  <2> QED
    BY <1>2, <1>5, <2>1, <2>2, Moved
<1>7. "keep" \in Steps(job[w].tool)
  <2>1. job[w].tool \in {"list_empty_slots", "directory_summary"} \cup Saves \cup Levelling
    BY <1>2, <1>3, Doing DEF Looking
  <2> QED
    BY <2>1, StepsOf DEF Saves, Levelling, Saving, Looking
<1>8. Placed(w)'
  BY <1>2, <1>3, <1>5, <1>6, <1>7 DEF Placed, Saving, Looking
<1> QED
  BY <1>1, <1>6, <1>8 DEF Keeps

\* Whatever came and whatever was on disk, the server has a listing afterwards.
LEMMA KeepTyped ==
  ASSUME Typed, NEW w \in Workers, Keep(w)
  PROVE  Keeps(w)
<1>1. UNCHANGED <<job, done, before>> /\ pc[w] = "keep" /\ clean' \in [Workers -> BOOLEAN]
  BY DEF Keep, history, Typed, ThreadsOK
<1>2. Placed(w) /\ ThreadsOK /\ loc[w] \in Local /\ snap \in Listings \cup {None}
  BY LocalIs DEF Typed, ListingOK
<1>3. PICK live, old \in Listings \cup {None} : live = loc[w].live /\ old = loc[w].old
  BY <1>2 DEF Local
<1>4. /\ Count(live) \in Nat /\ Count(old) \in Nat /\ Count(None) = 0
      /\ live # None /\ Count(live) = 0 => live.files = None
  BY <1>3, NoneIsNothing DEF Count, Listings
<1>5. Nothing \in Listings /\ Nothing.files = None
  BY DEF Nothing, Listings
<1>6. \/ /\ Count(live) > 0 /\ cache' = live /\ source' = "device" /\ snap' = live
      \/ /\ Count(old) > 0 /\ cache' = old /\ source' = "snapshot" /\ snap' = snap
      \/ /\ ~(Count(live) >= Count(old) /\ Count(live) > 0) /\ ~(Count(old) > 0)
         /\ cache' = (IF live = None THEN Nothing ELSE live) /\ source' = "empty" /\ snap' = snap
  BY <1>3 DEF Keep
<1>7. /\ cache' \in Listings /\ source' \in Sources /\ snap' \in Listings \cup {None}
      /\ source' = "empty" => cache'.files = None
  <2>1. CASE Count(live) > 0 /\ cache' = live /\ source' = "device" /\ snap' = live
    BY <1>3, <1>4, <2>1 DEF Sources
  <2>2. CASE Count(old) > 0 /\ cache' = old /\ source' = "snapshot" /\ snap' = snap
    BY <1>2, <1>3, <1>4, <2>2 DEF Sources
  <2>3. CASE /\ ~(Count(live) >= Count(old) /\ Count(live) > 0) /\ ~(Count(old) > 0)
             /\ cache' = (IF live = None THEN Nothing ELSE live) /\ source' = "empty" /\ snap' = snap
    <3>1. Count(live) = 0
      BY <1>4, <2>3
    <3> QED
      BY <1>2, <1>3, <1>4, <1>5, <2>3, <3>1 DEF Sources
  <2> QED
    BY <1>6, <2>1, <2>2, <2>3
<1>8. UnitOK' /\ ListingOK'
  <2>1. cache' # None /\ source' # None
    BY <1>7, NoneIsNothing, NoneIsNoWord
  <2> QED
    BY <1>7, <2>1 DEF Keep, unit, Typed, UnitOK, ListingOK
<1>9. PICK l : l = [loc[w] EXCEPT !.view = cache', !.live = None, !.old = None]
  OBVIOUS
<1>10. l \in Local /\ l.pos = loc[w].pos /\ l.name = loc[w].name /\ l.list = loc[w].list /\ l.said = loc[w].said
       /\ l.view = cache'
  BY <1>2, <1>7, <1>9 DEF Local
<1>11. loc' = [loc EXCEPT ![w] = l]
  BY <1>2, <1>9 DEF Keep, ThreadsOK
<1>12. /\ ThreadsOK' /\ pc'[w] = "use" /\ loc'[w] = l
       /\ job'[w] = job[w] /\ done'[w] = done[w] /\ before'[w] = before[w]
  BY <1>1, <1>10, <1>11, Moved DEF Keep, Stages, Saving, Looking
<1>13. "use" \in Steps(job[w].tool)
  <2>1. job[w].tool \in {"list_empty_slots", "directory_summary"} \cup Saves \cup Levelling
    BY <1>1, <1>2, Doing DEF Looking
  <2> QED
    BY <2>1, StepsOf DEF Saves, Levelling, Saving, Looking
<1>14. Placed(w)'
  BY <1>1, <1>2, <1>7, <1>10, <1>12, <1>13 DEF Placed, Saving, Looking
<1> QED
  BY <1>8, <1>12, <1>14 DEF Keeps

\* The free slots are positions, as is the one recommended.
LEMMA ListEmptyTyped ==
  ASSUME Typed, NEW w \in Workers, ListEmptySlots(w)
  PROVE  Keeps(w)
<1>1. UnitOK' /\ ListingOK'
  BY DEF ListEmptySlots, unit, listing, Typed, UnitOK, ListingOK
<1>2. /\ UNCHANGED <<job, done, before>> /\ clean' \in [Workers -> BOOLEAN]
      /\ pc[w] # "idle" /\ job[w].tool = "list_empty_slots"
  BY DEF ListEmptySlots, history, Typed, ThreadsOK
<1>3. PICK what : what = IF loc[w].view.files = None THEN "error"
               ELSE [free |-> Free(loc[w].view),
                     recommended |-> IF loc[w].pos \in Free(loc[w].view) THEN loc[w].pos ELSE None]
  OBVIOUS
<1>4. what \in Sayings
  BY <1>3 DEF Sayings, Answers, Free
<1>5. Say(w, what)
  BY <1>3, Zenon DEF ListEmptySlots
<1>6. ThreadsOK' /\ Placed(w)'
  BY <1>2, <1>4, <1>5, SayTyped DEF Saves
<1> QED
  BY <1>1, <1>6 DEF Keeps

\* Counting ends the call.
LEMMA SummaryTyped ==
  ASSUME Typed, NEW w \in Workers, DirectorySummary(w)
  PROVE  Keeps(w)
<1>1. UnitOK' /\ ListingOK'
  BY DEF DirectorySummary, unit, listing, Typed, UnitOK, ListingOK
<1>2. /\ UNCHANGED <<job, done, before>> /\ clean' \in [Workers -> BOOLEAN]
      /\ pc[w] # "idle" /\ Say(w, "counts") /\ "counts" \in Sayings
  BY DEF DirectorySummary, history, Typed, ThreadsOK, Sayings, Answers
<1>3. ThreadsOK' /\ Placed(w)'
  BY <1>2, SayTyped
<1> QED
  BY <1>1, <1>3 DEF Keeps

\* A save is refused, or writes under the name it was given.
LEMMA CheckTyped ==
  ASSUME Typed, NEW w \in Workers, CheckSlot(w)
  PROVE  Keeps(w)
<1>1. UnitOK' /\ ListingOK'
  BY DEF CheckSlot, unit, listing, Typed, UnitOK, ListingOK
<1>2. /\ UNCHANGED <<job, done, before>> /\ clean' \in [Workers -> BOOLEAN]
      /\ pc[w] = "use" /\ job[w].tool = "save_preset_as"
  BY DEF CheckSlot, history, Typed, ThreadsOK
<1>3. Placed(w) /\ ThreadsOK /\ loc[w] \in Local /\ job[w] \in Calls
  BY <1>2, LocalIs, Busy DEF Typed
<1>4. loc[w].pos \in Positions
  BY <1>2, <1>3 DEF Placed, Saving, Looking, Saves
<1>7. loc[w].name \in Names
  BY <1>2, <1>3, ArgsOfCall DEF Placed, Saving, Looking
<1>5. CASE Refuses(w, Occupant(loc[w].view, loc[w].pos))
  <2>1. Say(w, "refused") /\ "refused" \in Sayings
    BY <1>5 DEF CheckSlot, Sayings, Answers
  <2>2. ThreadsOK' /\ Placed(w)'
    BY <1>2, <1>4, <2>1, SayTyped
  <2> QED
    BY <1>1, <2>2 DEF Keeps
<1>6. CASE ~Refuses(w, Occupant(loc[w].view, loc[w].pos))
  <2>1. pc' = [pc EXCEPT ![w] = "write"] /\ loc' = [loc EXCEPT ![w] = loc[w]]
    BY <1>3, <1>6 DEF CheckSlot, ThreadsOK
  <2>2. /\ ThreadsOK' /\ pc'[w] = "write" /\ loc'[w] = loc[w]
        /\ job'[w] = job[w] /\ done'[w] = done[w] /\ before'[w] = before[w]
    BY <1>2, <1>3, <2>1, Moved DEF Stages, Saving
  <2> QED
    BY <1>1, <1>2, <1>3, <1>4, <1>7, <2>2, StepsOf
       DEF Keeps, Placed, Saving, Looking, Saves, Levelling, Through
<1> QED
  BY <1>5, <1>6

\* The slot's own name, if the listing has one.
LEMMA ReuseTyped ==
  ASSUME Typed, NEW w \in Workers, ReuseName(w)
  PROVE  Keeps(w)
<1>1. UnitOK' /\ ListingOK'
  BY DEF ReuseName, unit, listing, Typed, UnitOK, ListingOK
<1>2. /\ UNCHANGED <<job, done, before>> /\ clean' \in [Workers -> BOOLEAN]
      /\ pc[w] = "use" /\ job[w].tool \in Levelling \cup {"save_preset"}
  BY DEF ReuseName, history, Typed, ThreadsOK
<1>3. Placed(w) /\ ThreadsOK /\ loc[w] \in Local
  BY LocalIs DEF Typed
<1>4. loc[w].view \in Listings /\ loc[w].pos \in Positions
  BY <1>2, <1>3 DEF Placed, Saving, Looking, Saves
<1>5. PICK n : n = Occupant(loc[w].view, loc[w].pos)
  OBVIOUS
<1>6. n \in Names \cup {None}
  BY <1>4, <1>5 DEF Occupant, Listings, Contents
<1>7. PICK l : l = [loc[w] EXCEPT !.name = n]
  OBVIOUS
<1>8. l \in Local /\ l.pos = loc[w].pos /\ l.list = loc[w].list /\ l.said = loc[w].said /\ l.name = n
  BY <1>3, <1>6, <1>7 DEF Local
<1>9. loc' = [loc EXCEPT ![w] = l] /\ loc'[w].name = n
  BY <1>3, <1>5, <1>7, <1>8 DEF ReuseName, ThreadsOK
<1>10. PICK s : s = IF n = None THEN "name" ELSE "write"
  OBVIOUS
<1>11. pc' = [pc EXCEPT ![w] = s]
  BY <1>9, <1>10 DEF ReuseName
<1>12. /\ ThreadsOK' /\ pc'[w] = s /\ loc'[w] = l
       /\ job'[w] = job[w] /\ done'[w] = done[w] /\ before'[w] = before[w]
  <2>1. s \in Stages
    BY <1>10 DEF Stages, Saving
  <2>2. UNCHANGED <<job, done, before>> /\ clean' \in [Workers -> BOOLEAN]
    BY <1>2
  <2>3. loc' = [loc EXCEPT ![w] = l] /\ l \in Local
    BY <1>8, <1>9
  <2> QED
    BY <1>11, <2>1, <2>2, <2>3, Moved, Zenon
<1>13. s \in Steps(job[w].tool) /\ job[w].tool # "save_preset_as"
  BY <1>2, <1>10, StepsOf DEF Levelling, Saving
<1>14. Placed(w)'
  BY <1>2, <1>3, <1>4, <1>6, <1>8, <1>10, <1>12, <1>13 DEF Placed, Saving, Looking
<1> QED
  BY <1>1, <1>12, <1>14 DEF Keeps

\* A row, and the rest of the list.
LEMMA RowTyped ==
  ASSUME Typed, NEW w \in Workers, pc[w] # "idle", job[w].tool \in Through, NEW b \in BOOLEAN,
         NextRow(w, Row(w, b)), UNCHANGED <<job, before>>, clean' \in [Workers -> BOOLEAN]
  PROVE  /\ ThreadsOK' /\ Placed(w)'
         /\ loc'[w] = [Locals EXCEPT !.list = Tail(loc[w].list)]
         /\ done'[w] = Append(done[w], Row(w, b))
         /\ pc'[w] \in {"idle", "level", "recall"}
         /\ pc'[w] = "level" => Head(Tail(loc[w].list)) = None
<1>1. Placed(w) /\ ThreadsOK /\ loc[w] \in Local /\ job[w] \in Calls /\ done[w] \in Seq(Rows) /\ UnitOK
  BY LocalIs, Busy DEF Typed
<1>2. PICK list \in Seq(Positions \cup {None}) : list = loc[w].list
  BY <1>1 DEF Local
<1>3. list # <<>>
  BY <1>1, <1>2 DEF Placed
<1>4. PICK rest : rest = Tail(list)
  OBVIOUS
<1>5. /\ Head(list) \in Positions \cup {None} /\ rest \in Seq(Positions \cup {None})
      /\ Len(list) \in Nat /\ Len(rest) = Len(list) - 1
      /\ rest # <<>> => Head(rest) \in Positions \cup {None}
  BY <1>2, <1>3, <1>4, HeadTailProperties, LenProperties
<1>6. PICK row : row = Row(w, b)
  OBVIOUS
<1>7. row \in Rows
  BY <1>1, <1>2, <1>5, <1>6 DEF Row, Rows, UnitOK, Preset
<1>8. PICK d : d = Append(done[w], row)
  OBVIOUS
<1>9. d \in Seq(Rows) /\ Len(d) = Len(done[w]) + 1 /\ Len(done[w]) \in Nat
  BY <1>1, <1>7, <1>8, AppendProperties, LenProperties
<1>10. PICK l : l = [Locals EXCEPT !.list = rest]
  OBVIOUS
<1>11. l \in Local /\ l.pos = None /\ l.list = rest /\ l.said = None
  BY <1>5, <1>10 DEF Locals, Local, Sayings
<1>12. PICK s : s = IF rest = <<>> THEN "idle" ELSE Begin(rest)
  OBVIOUS
<1>13. /\ s \in {"idle", "level", "recall"}
       /\ s # "idle" => rest # <<>>
       /\ s = "level" => Head(rest) = None
       /\ s = "recall" => Head(rest) \in Positions
  BY <1>5, <1>12 DEF Begin
<1>14. /\ done' = [done EXCEPT ![w] = d] /\ loc' = [loc EXCEPT ![w] = l]
       /\ pc' = [pc EXCEPT ![w] = s]
  BY <1>1, <1>2, <1>4, <1>6, <1>8, <1>10, <1>12 DEF NextRow, ThreadsOK
<1>15. /\ ThreadsOK' /\ pc'[w] = s /\ loc'[w] = l /\ done'[w] = d
       /\ job'[w] = job[w] /\ before'[w] = before[w]
  BY <1>1, <1>9, <1>11, <1>13, <1>14 DEF ThreadsOK, Stages
<1>16. job[w].tool = "level_preset" => rest = <<>>
  <2>1. job[w].tool = "level_preset" => list = <<None>>
    BY <1>1, <1>2, <1>3 DEF Placed
  <2>2. Tail(<<None>>) = <<>>
    OBVIOUS
  <2> QED
    BY <1>4, <2>1, <2>2
<1>17. s \in Steps(job[w].tool)
  BY <1>12, <1>13, <1>16, StepsOf DEF Through
<1>18. Len(d) + Len(rest) <= Len(Listed(job[w]))
  <2>1. Listed(job[w]) \in Seq(Positions \cup {None})
    BY <1>1, ListOfCall
  <2>2. Len(Listed(job[w])) \in Nat
    BY <2>1, LenProperties
  <2>3. Len(done[w]) + Len(list) <= Len(Listed(job[w]))
    BY <1>1, <1>2 DEF Placed
  <2> QED
    BY <1>5, <1>9, <2>2, <2>3
<1>19. None # "saved" /\ None # "refused"
  BY NoneIsNoWord DEF Answers
<1>20. Placed(w)'
  BY <1>11, <1>13, <1>15, <1>16, <1>17, <1>18, <1>19 DEF Placed, Saving, Looking
<1> QED
  BY <1>2, <1>4, <1>6, <1>8, <1>10, <1>13, <1>15, <1>20

\* A save writes under a name or not at all.
LEMMA NameTyped ==
  ASSUME Typed, NEW w \in Workers, NameOfPreset(w)
  PROVE  Keeps(w)
<1>1. UnitOK' /\ ListingOK'
  BY DEF NameOfPreset, unit, listing, Typed, UnitOK, ListingOK
<1>2. /\ UNCHANGED <<job, before>> /\ clean' \in [Workers -> BOOLEAN] /\ pc[w] = "name"
  BY DEF NameOfPreset, history, Typed, ThreadsOK
<1>3. Placed(w) /\ ThreadsOK /\ loc[w] \in Local /\ UnitOK
  BY LocalIs DEF Typed
<1>4. job[w].tool \in {"save_preset"} \cup Levelling
  BY <1>2, <1>3, Doing
<1>5. CASE /\ work.name # None
           /\ loc' = [loc EXCEPT ![w].name = work.name]
           /\ pc' = [pc EXCEPT ![w] = "write"]
           /\ UNCHANGED done
  <2>1. PICK l : l = [loc[w] EXCEPT !.name = work.name]
    OBVIOUS
  <2>2. work.name \in Names
    BY <1>3, <1>5 DEF UnitOK, Preset
  <2>3. l \in Local /\ l.pos = loc[w].pos /\ l.list = loc[w].list /\ l.said = loc[w].said
        /\ l.name \in Names
    BY <1>3, <2>1, <2>2 DEF Local
  <2>4. loc' = [loc EXCEPT ![w] = l]
    BY <1>3, <1>5, <2>1 DEF ThreadsOK
  <2>5. /\ ThreadsOK' /\ pc'[w] = "write" /\ loc'[w] = l
        /\ job'[w] = job[w] /\ done'[w] = done[w] /\ before'[w] = before[w]
    BY <1>2, <1>5, <2>3, <2>4, Moved DEF Stages, Saving
  <2>6. "write" \in Steps(job[w].tool) /\ job[w].tool # "save_preset_as"
    BY <1>4, StepsOf DEF Levelling, Saving
  <2>7. Placed(w)'
    BY <1>2, <1>3, <2>3, <2>5, <2>6 DEF Placed, Saving, Looking
  <2> QED
    BY <1>1, <2>5, <2>7 DEF Keeps
<1>6. CASE job[w].tool \in Levelling /\ NextRow(w, Row(w, FALSE))
  <2>1. ThreadsOK' /\ Placed(w)'
    BY <1>2, <1>6, RowTyped DEF Levelling, Through
  <2> QED
    BY <1>1, <2>1 DEF Keeps
<1>7. CASE job[w].tool \notin Levelling /\ Say(w, "nameless") /\ UNCHANGED done
  <2>1. "nameless" \in Sayings
    BY DEF Sayings, Answers
  <2>2. ThreadsOK' /\ Placed(w)'
    BY <1>2, <1>7, <2>1, SayTyped
  <2> QED
    BY <1>1, <2>2 DEF Keeps
<1> QED
  BY <1>5, <1>6, <1>7 DEF NameOfPreset

\* A slot gets the preset being worked on under a name.
LEMMA WriteTyped ==
  ASSUME Typed, NEW w \in Workers, Write(w)
  PROVE  Keeps(w)
<1>1. Placed(w) /\ ThreadsOK /\ loc[w] \in Local /\ UnitOK /\ ListingOK
  BY LocalIs DEF Typed
<1>2. /\ UNCHANGED <<job, before>> /\ clean' \in [Workers -> BOOLEAN] /\ pc[w] = "write"
  <2>1. Alone(w) \in [Workers -> BOOLEAN]
    BY DEF Alone
  <2> QED
    BY <2>1 DEF Write, history
<1>3. job[w].tool \in Saves \cup Levelling
  BY <1>1, <1>2, Doing
<1>4. loc[w].pos \in Positions /\ loc[w].name \in Names
  BY <1>1, <1>2, <1>3 DEF Placed, Saving, Looking
<1>5. UnitOK' /\ ListingOK'
  <2>1. [work EXCEPT !.name = loc[w].name] \in Preset
    BY <1>1, <1>4 DEF UnitOK, Preset
  <2> QED
    BY <1>1, <2>1 DEF Write, UnitOK, ListingOK, listing
<1>6. CASE job[w].tool \in Levelling
  <2>1. ThreadsOK' /\ Placed(w)'
    BY <1>2, <1>6, RowTyped DEF Write, Levelling, Through
  <2> QED
    BY <1>5, <2>1 DEF Keeps
<1>7. CASE job[w].tool \notin Levelling
  <2>1. Say(w, "saved") /\ UNCHANGED done /\ "saved" \in Sayings
    BY <1>7 DEF Write, Sayings, Answers
  <2>2. ThreadsOK' /\ Placed(w)'
    BY <1>2, <1>4, <2>1, SayTyped
  <2> QED
    BY <1>5, <2>2 DEF Keeps
<1> QED
  BY <1>6, <1>7

\* What is recalled is a slot.
LEMMA TargetIs ==
  ASSUME Typed, NEW w \in Workers, pc[w] \in {"recall", "verify"}
  PROVE  /\ Target(w) \in Positions
         /\ job[w].tool \in Through => Target(w) = Head(loc[w].list)
<1>1. Placed(w) /\ ThreadsOK
  BY DEF Typed
<1>2. job[w] \in Calls
        /\ job[w].tool \in {"recall_preset", "switch_preset"} \cup (Through \ {"level_preset"})
  BY <1>1, Busy, Doing
<1>3. CASE job[w].tool \in Through
  <2>1. loc[w].list # <<>> /\ pc[w] = "recall"
    BY <1>1, <1>3, Doing DEF Placed, Through
  <2> QED
    BY <1>1, <1>3, <2>1 DEF Placed, Target
<1>4. CASE job[w].tool \in {"recall_preset", "switch_preset"}
  <2>1. job[w].tool \notin Through
    BY <1>4 DEF Through
  <2>2. loc[w].list = <<>> /\ job[w].pos \in Positions
    BY <1>1, <1>2, <1>4, <2>1, ArgsOfCall DEF Placed
  <2> QED
    BY <2>1, <2>2 DEF Target
<1> QED
  BY <1>2, <1>3, <1>4

\* A recall opens a slot of the setlist.
LEMMA RecallTyped ==
  ASSUME Typed, NEW w \in Workers, Recall(w)
  PROVE  Keeps(w)
<1>1. Placed(w) /\ ThreadsOK /\ loc[w] \in Local /\ UnitOK /\ ListingOK
  BY LocalIs DEF Typed
<1>2. /\ UNCHANGED <<job, done, before>> /\ clean' \in [Workers -> BOOLEAN] /\ pc[w] = "recall"
  <2>1. Alone(w) \in [Workers -> BOOLEAN]
    BY DEF Alone
  <2> QED
    BY <2>1 DEF Recall, history
<1>3. UnitOK' /\ ListingOK'
  <2>1. Target(w) \in Positions
    BY <1>2, TargetIs
  <2> QED
    BY <1>1, <2>1 DEF Recall, UnitOK, ListingOK, listing
<1>4. job[w].tool \in {"recall_preset", "switch_preset"} \cup (Through \ {"level_preset"})
  BY <1>1, <1>2, Doing
<1>5. PICK s : s = CASE job[w].tool = "recall_preset" -> "verify"
                     [] job[w].tool = "switch_preset" -> "idle"
                     [] OTHER -> "level"
  OBVIOUS
<1>6. /\ s \in {"verify", "idle", "level"}
      /\ s = "level" => job[w].tool \in Through \ {"level_preset"}
      /\ s = "verify" => job[w].tool = "recall_preset"
      /\ s = "idle" => job[w].tool = "switch_preset"
  BY <1>4, <1>5
<1>7. pc' = [pc EXCEPT ![w] = s] /\ loc' = [loc EXCEPT ![w] = loc[w]]
  BY <1>1, <1>5 DEF Recall, ThreadsOK
<1>8. /\ ThreadsOK' /\ pc'[w] = s /\ loc'[w] = loc[w]
      /\ job'[w] = job[w] /\ done'[w] = done[w] /\ before'[w] = before[w]
  <2>1. s \in Stages
    BY <1>6 DEF Stages
  <2> QED
    BY <1>1, <1>2, <1>7, <2>1, Moved, Zenon
<1>9. s \in Steps(job[w].tool)
  BY <1>6, StepsOf DEF Through
<1>10. Placed(w)'
  BY <1>1, <1>2, <1>6, <1>8, <1>9 DEF Placed, Saving, Looking, Saves
<1> QED
  BY <1>3, <1>8, <1>10 DEF Keeps

\* A recall is recalled or refused.
LEMMA VerifyTyped ==
  ASSUME Typed, NEW w \in Workers, Verify(w)
  PROVE  Keeps(w)
<1>1. UnitOK' /\ ListingOK'
  BY DEF Verify, unit, listing, Typed, UnitOK, ListingOK
<1>2. PICK p \in Positions :
        /\ clean' = [clean EXCEPT ![w] = @ /\ p = at]
        /\ Say(w, IF p = Target(w) THEN "recalled" ELSE "refused")
  BY DEF Verify
<1>3. UNCHANGED <<job, done, before>> /\ pc[w] = "verify"
  BY DEF Verify, history
<1>4. clean' \in [Workers -> BOOLEAN]
  <2>1. (clean[w] /\ p = at) \in BOOLEAN
    OBVIOUS
  <2> QED
    BY <1>2, <2>1 DEF Typed, ThreadsOK
<1>5. PICK what : what = IF p = Target(w) THEN "recalled" ELSE "refused"
  OBVIOUS
<1>6. what \in Sayings /\ Say(w, what)
  BY <1>2, <1>5 DEF Sayings, Answers
<1>7. job[w].tool \notin Saves
  BY <1>3, Doing DEF Typed, Saves
<1>8. ThreadsOK' /\ Placed(w)'
  BY <1>3, <1>4, <1>6, <1>7, SayTyped
<1> QED
  BY <1>1, <1>8 DEF Keeps

\* A measurement ends the row, the call, or goes on to save what it wrote.
LEMMA LevelTyped ==
  ASSUME Typed, NEW w \in Workers, Level(w)
  PROVE  Keeps(w)
<1>1. Placed(w) /\ ThreadsOK /\ loc[w] \in Local /\ UnitOK /\ ListingOK
  BY LocalIs DEF Typed
<1>2. UNCHANGED <<job, before>> /\ pc[w] = "level"
  BY DEF Level, history
<1>3. job[w].tool \in Through /\ job[w] \in Calls
  BY <1>1, <1>2, Doing, Busy
<1>4. PICK wrote \in IF Trims(job[w]) THEN BOOLEAN ELSE {FALSE} :
        /\ work' = IF wrote THEN [work EXCEPT !.trim = 1] ELSE work
        /\ clean' = IF wrote THEN Alone(w) ELSE clean
        /\ \/ IF wrote /\ job[w].save
              THEN pc' = [pc EXCEPT ![w] = "position"] /\ UNCHANGED <<loc, done>>
              ELSE NextRow(w, Row(w, FALSE))
           \/ Say(w, "error") /\ UNCHANGED done
  BY DEF Level
<1>5. wrote \in BOOLEAN /\ (wrote => Trims(job[w]))
  BY <1>4
<1>6. clean' \in [Workers -> BOOLEAN]
  <2>1. Alone(w) \in [Workers -> BOOLEAN]
    BY DEF Alone
  <2> QED
    BY <1>1, <1>4, <2>1 DEF ThreadsOK
<1>7. UnitOK' /\ ListingOK'
  <2>1. work' \in Preset
    BY <1>1, <1>4 DEF UnitOK, Preset
  <2> QED
    BY <1>1, <2>1 DEF Level, UnitOK, ListingOK, listing
<1>8. CASE wrote /\ pc' = [pc EXCEPT ![w] = "position"] /\ UNCHANGED <<loc, done>>
  <2>1. loc' = [loc EXCEPT ![w] = loc[w]]
    BY <1>1, <1>8 DEF ThreadsOK
  <2>2. "position" \in Stages
    BY DEF Stages, Saving
  <2>3. /\ ThreadsOK' /\ pc'[w] = "position" /\ loc'[w] = loc[w]
        /\ job'[w] = job[w] /\ done'[w] = done[w] /\ before'[w] = before[w]
    BY <1>1, <1>2, <1>6, <1>8, <2>1, <2>2, Moved
  <2>4. Trims(job[w]) /\ job[w].tool \in Levelling
    BY <1>5, <1>8 DEF Trims, Levelling
  <2>5. "position" \in Steps(job[w].tool)
    BY <2>4, StepsOf DEF Levelling, Saving
  <2>6. Placed(w)'
    BY <1>1, <1>2, <2>3, <2>4, <2>5 DEF Placed, Saving, Looking
  <2> QED
    BY <1>7, <2>3, <2>6 DEF Keeps
<1>9. CASE NextRow(w, Row(w, FALSE))
  <2>1. ThreadsOK' /\ Placed(w)'
    BY <1>2, <1>3, <1>6, <1>9, RowTyped
  <2> QED
    BY <1>7, <2>1 DEF Keeps
<1>10. CASE Say(w, "error") /\ UNCHANGED done
  <2>1. "error" \in Sayings
    BY DEF Sayings, Answers
  <2>2. ThreadsOK' /\ Placed(w)'
    BY <1>2, <1>6, <1>10, <2>1, SayTyped
  <2> QED
    BY <1>7, <2>2 DEF Keeps
<1> QED
  BY <1>4, <1>5, <1>8, <1>9, <1>10

\* Somebody at the unit leaves the threads where they are.
LEMMA PlayerTyped ==
  ASSUME Typed, Player
  PROVE  Typed'
<1>1. UNCHANGED <<pc, job, loc, done, before>>
  BY DEF Player
<1>2. UnitOK'
  BY DEF Player, Typed, UnitOK, Preset
<1>3. ListingOK'
  BY DEF Player, listing, Typed, ListingOK
<1>4. clean' \in [Workers -> BOOLEAN]
  BY DEF Player
<1>5. ThreadsOK'
  BY <1>1, <1>4 DEF Typed, ThreadsOK
<1>6. \A w \in Workers : Placed(w)'
  BY <1>1 DEF Typed, Placed
<1> QED
  BY <1>2, <1>3, <1>5, <1>6 DEF Typed

\* No step leaves the types.
LEMMA TypedKept == Typed /\ [Next]_vars => Typed'
<1> SUFFICES ASSUME Typed, [Next]_vars PROVE Typed'
  OBVIOUS
<1>1. CASE UNCHANGED vars
  BY <1>1 DEF vars, unit, listing, history, Typed, UnitOK, ListingOK, ThreadsOK, Placed
<1>2. ASSUME NEW w \in Workers, Step(w)
      PROVE  Typed'
  <2>1. Keeps(w)
    BY <1>2, CallTyped, FailTyped, PositionTyped, CatalogTyped, LoadTyped, KeepTyped,
       ListEmptyTyped,
       SummaryTyped, CheckTyped, ReuseTyped, NameTyped, WriteTyped, RecallTyped, VerifyTyped, LevelTyped
       DEF Step
  <2> QED
    BY <1>2, <2>1, Carry
<1> QED
  BY <1>1, <1>2, PlayerTyped, Stepping

\* Preset, listing and calls keep their types: a call that is about to save has
\* a slot and a name, a listing without the setlist is known to be empty.
THEOREM SlotsTyped == Spec => []TypeOK
<1>1. Typed => TypeOK
  <2> SUFFICES ASSUME Typed PROVE TypeOK
    OBVIOUS
  <2>1. \A w \in Workers : pc[w] = "write" => loc[w].name \in Names /\ loc[w].pos \in Positions
    <3> TAKE w \in Workers
    <3> HAVE pc[w] = "write"
    <3>1. job[w].tool \in Saves \cup Levelling
      BY Doing DEF Typed
    <3> QED
      BY <3>1 DEF Typed, Placed, Saving, Looking
  <2> QED
    BY <2>1 DEF Typed, UnitOK, ListingOK, Placed, TypeOK
<1> QED
  BY InitTyped, TypedKept, <1>1, PTL DEF Spec

-----------------------------------------------------------------------------
(* Calls are kept undisturbed *)

\* Nothing was said at first, and what is being worked on is from slot 0.
LEMMA InitSaves == Init => SaveInv
<1> SUFFICES ASSUME Init PROVE SaveInv
  OBVIOUS
<1>1. Typed
  BY InitTyped
<1>2. Open
  BY SlotsAssumption, Zenon DEF Init, Open, SlotsAssumption
<1>3. ASSUME NEW w \in Workers
      PROVE  Told(w) /\ ~clean[w]
  <2>1. job[w].tool = None /\ ~clean[w]
    BY DEF Init, NoJob
  <2>2. None # "save_preset" /\ None # "save_preset_as" /\ None # "list_empty_slots"
    BY NoneIsNoWord DEF Tools
  <2> QED
    BY <2>1, <2>2 DEF Told, NameOfSave, SlotOfSave, Recommends
<1> QED
  BY <1>1, <1>2, <1>3 DEF SaveInv

\* What is worked on is from the open slot: it is what a recall takes from it and
\* what a save puts into it.
LEMMA OpenKept == Typed /\ Open /\ [Next]_vars => Open'
<1> SUFFICES ASSUME Typed, Open, [Next]_vars PROVE Open'
  OBVIOUS
<1>1. UnitOK
  BY DEF Typed
<1>2. CASE UNCHANGED unit
  BY <1>2 DEF unit, Open
<1>3. CASE Player
  <2>1. CASE \E p \in Positions : at' = p /\ work' = slots[p] /\ UNCHANGED slots
    BY <2>1 DEF Open
  <2>2. CASE \E n \in Names : slots' = [slots EXCEPT ![at] = [work EXCEPT !.name = n]]
                              /\ UNCHANGED <<at, work>>
    BY <1>1, <2>2 DEF Open, UnitOK, Preset
  <2> QED
    BY <1>3, <2>1, <2>2 DEF Player
<1>4. ASSUME NEW w \in Workers, Write(w)
      PROVE  Open'
  <2>1. slots' = [slots EXCEPT ![loc[w].pos] = [work EXCEPT !.name = loc[w].name]]
        /\ UNCHANGED <<at, work>>
    BY <1>4 DEF Write
  <2> QED
    BY <1>1, <2>1 DEF Open, UnitOK, Preset
<1>5. ASSUME NEW w \in Workers, Recall(w)
      PROVE  Open'
  <2>1. CASE at' = Target(w) /\ work' = slots[Target(w)] /\ slots' = slots
    BY <2>1 DEF Open
  <2> QED
    BY <1>2, <1>5, <2>1 DEF Recall, unit
<1>6. ASSUME NEW w \in Workers, Level(w)
      PROVE  Open'
  <2>1. slots' = slots /\ at' = at /\ work'.of = work.of
    BY <1>1, <1>6 DEF Level, UnitOK, Preset
  <2> QED
    BY <2>1 DEF Open
<1>7. ASSUME NEW w \in Workers, Step(w), ~Write(w), ~Recall(w), ~Level(w)
      PROVE  UNCHANGED unit
  BY <1>7 DEF Step, Call, Fail, Position, Catalog, LoadSnapshot, Keep, ListEmptySlots,
     DirectorySummary, CheckSlot, ReuseName, NameOfPreset, Verify
<1> QED
  BY <1>2, <1>3, <1>4, <1>5, <1>6, <1>7, Stepping DEF vars

\* What a step of a thread has to keep.
Holds(w) == Told(w)' /\ (clean'[w] => Undisturbed(w)')
Before(w) == Typed /\ Open /\ Told(w) /\ (clean[w] => Undisturbed(w))

\* A thread that changes nothing of the unit, nor of its list.
LEMMA Steady ==
  ASSUME Typed, NEW w \in Workers, pc[w] # "idle", Undisturbed(w), UNCHANGED unit,
         job'[w] = job[w], done'[w] = done[w], before'[w] = before[w],
         loc'[w].list = loc[w].list, job[w].tool \in Saves => loc'[w].said # "saved",
         \/ loc'[w].pos = loc[w].pos
         \/ loc'[w].pos = (IF job[w].tool = "save_preset_as" /\ job[w].pos # None THEN job[w].pos
                          ELSE at),
         pc'[w] \in Saving \cup {"level"} => pc[w] \in Saving \cup {"level"},
         pc'[w] \in Saving => pc[w] \in Saving
  PROVE  Undisturbed(w)'
<1>1. /\ slots' = slots /\ at' = at /\ work' = work
  BY DEF unit
<1>2. job[w].tool \in Saves => ~Over(w, "saved")
  <2>1. None # "saved"
    BY NoneIsNoWord DEF Answers
  <2> QED
    BY <2>1 DEF Typed, Placed, Over
<1>3. job[w].tool \in Saves => ~Over(w, "saved")'
  BY DEF Over
<1>4. SlotsKept(w)'
  BY <1>1, <1>2, <1>3 DEF Undisturbed, SlotsKept, Trims
<1>5. PositionKept(w)'
  BY <1>1 DEF Undisturbed, PositionKept
<1>6. Given(w, "folder")' = Given(w, "folder")
  BY DEF Given
<1>7. \A row : RowOK(w, row)' <=> RowOK(w, row)
  BY <1>1 DEF RowOK
<1>8. ListKept(w)'
  BY <1>1, <1>6, <1>7 DEF Undisturbed, ListKept
<1> QED
  BY <1>4, <1>5, <1>8 DEF Undisturbed

\* The name of a slot in a listing that is right.
LEMMA RightListing ==
  ASSUME Typed, NEW w \in Workers, Informed(w), NEW p \in Positions
  PROVE  Occupant(loc[w].view, p) = before[w][p].name
<1>1. before[w] \in [Positions -> Preset]
  BY DEF Typed, ThreadsOK
<1>2. NamesIn(before[w]) \in Contents
  BY <1>1 DEF NamesIn, Contents, Preset
<1>3. NamesIn(before[w]) # None
  BY <1>2, NoneIsNothing
<1> QED
  BY <1>3 DEF Informed, Occupant, NamesIn

\* A call begins with the slots as they are.
LEMMA CallKept ==
  ASSUME NEW w \in Workers, Before(w), Call(w)
  PROVE  Holds(w)
<1>1. PICK c \in Jobs[w] :
        /\ job' = [job EXCEPT ![w] = c] /\ pc' = [pc EXCEPT ![w] = First(c)]
        /\ loc' = [loc EXCEPT ![w] = [Locals EXCEPT !.list = Listed(c)]]
  BY DEF Call
<1>2. c \in Calls
  <2>1. Jobs[w] \subseteq Calls
    BY SlotsAssumption, Zenon DEF SlotsAssumption
  <2> QED
    BY <2>1
<1>3. PICK l : l = [Locals EXCEPT !.list = Listed(c)]
  OBVIOUS
<1>4. l.list = Listed(c) /\ l.pos = None /\ l.said = None
  BY <1>3 DEF Locals
<1>5. /\ pc'[w] = First(c) /\ job'[w] = c /\ loc'[w] = l /\ done'[w] = <<>>
      /\ before'[w] = slots /\ slots' = slots
  BY <1>1, <1>3 DEF Call, Before, Typed, ThreadsOK, unit
<1>6. c.tool \in Tools
  BY <1>2, ToolOfCall
<1>7. First(c) # "idle"
  BY <1>6 DEF First, Begin, Tools, Through
<1>8. ~Over(w, "saved")' /\ ~Over(w, "refused")'
  <2>1. None # "saved" /\ None # "refused"
    BY NoneIsNoWord DEF Answers
  <2> QED
    BY <1>4, <1>5, <2>1 DEF Over
<1>9. First(c) \in Looking \cup {"name", "write"} => c.tool = "directory_summary"
  BY <1>6 DEF First, Begin, Tools, Through, Looking
<1>10. Told(w)'
  BY <1>5, <1>7, <1>8, <1>9 DEF Told, NameOfSave, SlotOfSave, Recommends
<1>11. SlotsKept(w)'
  BY <1>5, <1>8 DEF SlotsKept
<1>12. PositionKept(w)'
  BY <1>4, <1>5 DEF PositionKept
<1>13. ListKept(w)'
  <2>1. c.tool \in Through => First(c) = Begin(l.list)
    BY <1>2, <1>4, ArgsOfCall DEF First, Through, Listed
  <2>2. c.tool \in Through => First(c) \notin Saving /\ (First(c) = "level" => Head(l.list) = None)
    BY <2>1 DEF Begin, Saving, Looking
  <2>3. Len(<<>>) = 0 /\ \A i : i \notin 1 .. 0
    OBVIOUS
  <2>4. \A i \in 1 .. Len(done'[w]) : RowOK(w, done[w][i])'
    BY <1>5, <2>3, Zenon
  <2>5. job'[w].tool \in Through => pc'[w] \notin Saving
        /\ (pc'[w] \in Saving \cup {"level"} => Head(loc'[w].list) = None)
    BY <1>5, <2>2
  <2> QED
    BY <2>4, <2>5, Zenon DEF ListKept
<1> QED
  BY <1>10, <1>11, <1>12, <1>13 DEF Holds, Undisturbed

\* A tool that answers, and not that it has saved.
LEMMA SayKept ==
  ASSUME NEW w \in Workers, Before(w), pc[w] # "idle", NEW what \in Sayings, Say(w, what),
         UNCHANGED <<job, done, before, unit>>, clean'[w] => clean[w],
         job[w].tool \in Saves => what # "saved",
         job[w].tool = "save_preset_as" /\ what = "refused" =>
           /\ loc[w].name = job[w].name
           /\ Informed(w) => before[w][loc[w].pos].name \notin {None, loc[w].name},
         job[w].tool = "list_empty_slots" =>
           /\ loc[w].view \in Listings
           /\ loc[w].view.files # None =>
                what = [free |-> Free(loc[w].view),
                        recommended |-> IF loc[w].pos \in Free(loc[w].view) THEN loc[w].pos ELSE None]
  PROVE  Holds(w)
<1>1. loc[w] \in Local /\ ThreadsOK /\ Typed
  BY LocalIs DEF Before, Typed
<1>2. PICK l : l = [loc[w] EXCEPT !.said = what]
  OBVIOUS
<1>3. /\ l.said = what /\ l.pos = loc[w].pos /\ l.list = loc[w].list /\ l.view = loc[w].view
      /\ l.name = loc[w].name
  BY <1>1, <1>2 DEF Local
<1>4. /\ pc'[w] = "idle" /\ loc'[w] = l
      /\ job'[w] = job[w] /\ done'[w] = done[w] /\ before'[w] = before[w]
  BY <1>1, <1>2 DEF Say, ThreadsOK
<1>5. Informed(w)' <=> Informed(w)
  BY <1>3, <1>4 DEF Informed
<1>6. Told(w)'
  <2>1. NameOfSave(w)'
    BY <1>3, <1>4 DEF NameOfSave, Over, Saves, Looking
  <2>2. SlotOfSave(w)'
    BY <1>3, <1>4, <1>5 DEF SlotOfSave, Over, Saves
  <2>3. Recommends(w)'
    BY <1>3, <1>4 DEF Recommends
  <2> QED
    BY <2>1, <2>2, <2>3 DEF Told
<1>7. clean[w] => Undisturbed(w)'
  <2> SUFFICES ASSUME clean[w] PROVE Undisturbed(w)'
    OBVIOUS
  <2>1. "idle" \notin Saving \cup {"level"}
    BY DEF Saving, Looking
  <2> QED
    BY <1>1, <1>3, <1>4, <2>1, Steady DEF Before
<1> QED
  BY <1>6, <1>7 DEF Holds

\* A call that fails has saved nothing.
LEMMA FailKept ==
  ASSUME NEW w \in Workers, Before(w), Fail(w)
  PROVE  Holds(w)
<1>1. Typed /\ ThreadsOK /\ Placed(w)
  BY DEF Before, Typed
<1>2. UNCHANGED <<job, done, before, unit>> /\ (clean'[w] => clean[w]) /\ pc[w] \in {"position", "verify"}
  BY DEF Fail, history
<1>3. CASE job[w].tool = "list_empty_slots"
  <2>1. pc'[w] = "catalog" /\ loc' = loc
    BY <1>1, <1>3 DEF Fail, ThreadsOK
  <2>2. Told(w)'
    BY <1>2, <1>3, <2>1 DEF Told, NameOfSave, SlotOfSave, Recommends
  <2>3. "catalog" \in Saving /\ pc[w] \in Saving
    <3>1. pc[w] = "position"
      BY <1>1, <1>2, <1>3, StepsOf DEF Placed, Looking
    <3> QED
      BY <3>1 DEF Saving, Looking
  <2>4. job[w].tool \notin Saves /\ pc[w] # "idle"
    BY <1>2, <1>3 DEF Saves
  <2>5. clean[w] => Undisturbed(w)'
    BY <1>1, <1>2, <2>1, <2>3, <2>4, Steady DEF Before
  <2> QED
    BY <1>2, <2>2, <2>5 DEF Holds
<1>4. CASE job[w].tool # "list_empty_slots"
  <2>1. Say(w, "error") /\ "error" \in Sayings /\ pc[w] # "idle"
    BY <1>2, <1>4 DEF Fail, Sayings, Answers
  <2> QED
    BY <1>2, <1>4, <2>1, SayKept
<1> QED
  BY <1>3, <1>4

\* Undisturbed, the position read is the one that is open.
LEMMA PositionStays ==
  ASSUME NEW w \in Workers, Before(w), Position(w)
  PROVE  Holds(w)
<1>1. Typed /\ ThreadsOK /\ Placed(w) /\ loc[w] \in Local
  BY LocalIs DEF Before, Typed
<1>2. UNCHANGED <<job, done, before, unit>> /\ pc[w] = "position"
  BY DEF Position, history
<1>3. PICK p \in Positions :
        /\ loc' = [loc EXCEPT
             ![w].pos = IF job[w].tool = "save_preset_as" /\ job[w].pos # None THEN job[w].pos ELSE p,
             ![w].name = Given(w, "name")]
        /\ clean' = [clean EXCEPT ![w] = @ /\ p = at]
  BY DEF Position
<1>4. clean'[w] => clean[w] /\ p = at
  BY <1>1, <1>3 DEF ThreadsOK
<1>5. job[w] \in Calls /\ job[w].tool \in {"recall_preset", "list_empty_slots"} \cup Saves \cup Levelling
  BY <1>1, <1>2, Busy, Doing
<1>6. PICK l : l = [loc[w] EXCEPT !.pos = IF job[w].tool = "save_preset_as" /\ job[w].pos # None
                                          THEN job[w].pos ELSE p,
                                  !.name = Given(w, "name")]
  OBVIOUS
<1>7. /\ l.pos = (IF job[w].tool = "save_preset_as" /\ job[w].pos # None THEN job[w].pos ELSE p)
      /\ l.name = Given(w, "name") /\ l.list = loc[w].list /\ l.said = loc[w].said
      /\ l.view = loc[w].view
  BY <1>1, <1>6 DEF Local
<1>8. PICK s : s = AfterPosition(w)
  OBVIOUS
<1>9. s = IF job[w].tool = "recall_preset" THEN "recall"
          ELSE IF job[w].tool = "save_preset" /\ job[w].name # None THEN "write" ELSE "catalog"
  BY <1>8 DEF AfterPosition
<1>10. /\ pc'[w] = s /\ loc'[w] = l /\ job'[w] = job[w] /\ done'[w] = done[w] /\ before'[w] = before[w]
  BY <1>1, <1>2, <1>3, <1>6, <1>8 DEF Position, ThreadsOK
<1>11. loc[w].said = None /\ None # "saved" /\ None # "refused"
  BY <1>1, <1>2, NoneIsNoWord DEF Placed, Answers
<1>12. ~Over(w, "saved")' /\ ~Over(w, "refused")'
  BY <1>7, <1>10, <1>11 DEF Over
<1>13. Told(w)'
  <2>1. NameOfSave(w)'
    <3>1. CASE job[w].tool = "save_preset"
      <4>1. Given(w, "name") = job[w].name
        BY <1>5, <3>1, ArgsOfCall DEF Given
      <4> QED
        BY <1>7, <1>9, <1>10, <1>12, <3>1, <4>1 DEF NameOfSave, Looking
    <3> QED
      BY <1>10, <3>1 DEF NameOfSave
  <2>2. SlotOfSave(w)'
    BY <1>9, <1>10, <1>12 DEF SlotOfSave
  <2>3. Recommends(w)'
    BY <1>9, <1>10 DEF Recommends
  <2> QED
    BY <2>1, <2>2, <2>3 DEF Told
<1>14. clean'[w] => Undisturbed(w)'
  <2> SUFFICES ASSUME clean'[w] PROVE Undisturbed(w)'
    OBVIOUS
  <2>1. pc[w] \in Saving /\ pc[w] # "idle"
    BY <1>2 DEF Saving
  <2>2. loc'[w].pos = (IF job[w].tool = "save_preset_as" /\ job[w].pos # None THEN job[w].pos ELSE at)
    BY <1>4, <1>7, <1>10
  <2> QED
    BY <1>1, <1>2, <1>4, <1>7, <1>10, <1>11, <2>1, <2>2, Steady DEF Before
<1> QED
  BY <1>13, <1>14 DEF Holds

\* Looking for the listing.
LEMMA LookKept ==
  ASSUME NEW w \in Workers, Before(w), pc[w] \in Looking, NEW s \in Looking, NEW l,
         pc' = [pc EXCEPT ![w] = s], loc' = [loc EXCEPT ![w] = l],
         l.pos = loc[w].pos, l.name = loc[w].name, l.list = loc[w].list, l.said = loc[w].said,
         UNCHANGED <<job, done, before, unit>>, clean'[w] => clean[w]
  PROVE  Holds(w)
<1>1. Typed /\ ThreadsOK /\ Placed(w)
  BY DEF Before, Typed
<1>2. /\ pc'[w] = s /\ loc'[w] = l /\ job'[w] = job[w] /\ done'[w] = done[w] /\ before'[w] = before[w]
  BY <1>1 DEF ThreadsOK
<1>3. pc[w] # "idle" /\ s # "idle" /\ s \notin {"name", "write"} /\ pc[w] \in Saving
  BY DEF Looking, Saving
<1>4. l.said = None /\ None # "saved" /\ None # "refused"
  BY <1>1, <1>3, NoneIsNoWord DEF Placed, Answers
<1>5. ~Over(w, "saved")' /\ ~Over(w, "refused")'
  BY <1>2, <1>4 DEF Over
<1>6. Told(w)'
  <2>1. NameOfSave(w)'
    BY <1>2, <1>3, <1>5 DEF Before, Told, NameOfSave
  <2>2. SlotOfSave(w)' /\ Recommends(w)'
    BY <1>2, <1>3, <1>5 DEF SlotOfSave, Recommends
  <2> QED
    BY <2>1, <2>2 DEF Told
<1>7. clean[w] => Undisturbed(w)'
  <2> SUFFICES ASSUME clean[w] PROVE Undisturbed(w)'
    OBVIOUS
  <2> QED
    BY <1>1, <1>2, <1>3, <1>4, Steady DEF Before
<1> QED
  BY <1>6, <1>7 DEF Holds

\* The catalogue is looked up, nothing else.
LEMMA CatalogKept ==
  ASSUME NEW w \in Workers, Before(w), Catalog(w)
  PROVE  Holds(w)
<1>1. loc[w] \in Local /\ pc[w] \in Looking /\ {"use", "snapshot"} \subseteq Looking
  BY LocalIs DEF Before, Catalog, Looking
<1>2. UNCHANGED <<job, done, before, unit>> /\ (clean'[w] => clean[w])
  BY DEF Catalog, history
<1>3. CASE cache # None /\ job[w].tool # "directory_summary"
  <2>1. PICK l : l = [loc[w] EXCEPT !.view = cache]
    OBVIOUS
  <2>2. l.pos = loc[w].pos /\ l.name = loc[w].name /\ l.list = loc[w].list /\ l.said = loc[w].said
    BY <1>1, <2>1 DEF Local
  <2>3. loc' = [loc EXCEPT ![w] = l] /\ pc' = [pc EXCEPT ![w] = "use"]
    BY <1>3, <2>1 DEF Catalog
  <2> QED
    BY <1>1, <1>2, <2>2, <2>3, LookKept
<1>4. CASE ~(cache # None /\ job[w].tool # "directory_summary")
  <2>1. PICK live : loc' = [loc EXCEPT ![w].live = live]
    BY <1>4 DEF Catalog
  <2>2. PICK l : l = [loc[w] EXCEPT !.live = live]
    OBVIOUS
  <2>3. l.pos = loc[w].pos /\ l.name = loc[w].name /\ l.list = loc[w].list /\ l.said = loc[w].said
    BY <1>1, <2>2 DEF Local
  <2>4. loc' = [loc EXCEPT ![w] = l] /\ pc' = [pc EXCEPT ![w] = "snapshot"]
    BY <1>4, <2>1, <2>2 DEF Catalog
  <2> QED
    BY <1>1, <1>2, <2>3, <2>4, LookKept
<1> QED
  BY <1>3, <1>4

\* So is the one on disk.
LEMMA LoadKept ==
  ASSUME NEW w \in Workers, Before(w), LoadSnapshot(w)
  PROVE  Holds(w)
<1>1. loc[w] \in Local /\ pc[w] \in Looking /\ "keep" \in Looking
  BY LocalIs DEF Before, LoadSnapshot, Looking
<1>2. UNCHANGED <<job, done, before, unit>> /\ (clean'[w] => clean[w])
  BY DEF LoadSnapshot, history
<1>3. PICK l : l = [loc[w] EXCEPT !.old = snap]
  OBVIOUS
<1>4. l.pos = loc[w].pos /\ l.name = loc[w].name /\ l.list = loc[w].list /\ l.said = loc[w].said
  BY <1>1, <1>3 DEF Local
<1>5. loc' = [loc EXCEPT ![w] = l] /\ pc' = [pc EXCEPT ![w] = "keep"]
  BY <1>3 DEF LoadSnapshot
<1> QED
  BY <1>1, <1>2, <1>4, <1>5, LookKept

\* Keeping a listing decides nothing about the slots.
LEMMA KeepKept ==
  ASSUME NEW w \in Workers, Before(w), Keep(w)
  PROVE  Holds(w)
<1>1. loc[w] \in Local /\ ThreadsOK /\ pc[w] \in Looking /\ "use" \in Looking
  BY LocalIs DEF Before, Typed, Keep, Looking
<1>2. UNCHANGED <<job, done, before, unit>> /\ (clean'[w] => clean[w])
  BY DEF Keep, history
<1>3. PICK l : l = [loc[w] EXCEPT !.view = cache', !.live = None, !.old = None]
  OBVIOUS
<1>4. l.pos = loc[w].pos /\ l.name = loc[w].name /\ l.list = loc[w].list /\ l.said = loc[w].said
  BY <1>1, <1>3 DEF Local
<1>5. loc' = [loc EXCEPT ![w] = l] /\ pc' = [pc EXCEPT ![w] = "use"]
  BY <1>1, <1>3 DEF Keep, ThreadsOK
<1> QED
  BY <1>1, <1>2, <1>4, <1>5, LookKept

\* A list of empty slots is made of the listing looked into.
LEMMA ListEmptyKept ==
  ASSUME NEW w \in Workers, Before(w), ListEmptySlots(w)
  PROVE  Holds(w)
<1>1. Placed(w) /\ pc[w] = "use" /\ job[w].tool = "list_empty_slots"
  BY DEF Before, Typed, ListEmptySlots
<1>2. UNCHANGED <<job, done, before, unit>> /\ (clean'[w] => clean[w])
  BY DEF ListEmptySlots, history
<1>3. PICK what : what = IF loc[w].view.files = None THEN "error"
               ELSE [free |-> Free(loc[w].view),
                     recommended |-> IF loc[w].pos \in Free(loc[w].view) THEN loc[w].pos ELSE None]
  OBVIOUS
<1>4. what \in Sayings
  BY <1>3 DEF Sayings, Answers, Free
<1>5. Say(w, what)
  BY <1>3, Zenon DEF ListEmptySlots
<1>6. loc[w].view \in Listings
  BY <1>1 DEF Placed
<1>7. job[w].tool \notin Saves
  BY <1>1 DEF Saves
<1> QED
  BY <1>1, <1>2, <1>3, <1>4, <1>5, <1>6, <1>7, SayKept

\* Counting says nothing of the slots.
LEMMA SummaryKept ==
  ASSUME NEW w \in Workers, Before(w), DirectorySummary(w)
  PROVE  Holds(w)
<1>1. /\ UNCHANGED <<job, done, before, unit>> /\ (clean'[w] => clean[w])
      /\ pc[w] # "idle" /\ Say(w, "counts") /\ "counts" \in Sayings
      /\ job[w].tool = "directory_summary"
  BY DEF DirectorySummary, history, Sayings, Answers
<1> QED
  BY <1>1, SayKept

\* A slot of another name by the listing is refused unless told to overwrite.
LEMMA CheckKept ==
  ASSUME NEW w \in Workers, Before(w), CheckSlot(w)
  PROVE  Holds(w)
<1>1. Typed /\ ThreadsOK /\ Placed(w) /\ loc[w] \in Local
  BY LocalIs DEF Before, Typed
<1>2. /\ UNCHANGED <<job, done, before, unit>> /\ (clean'[w] => clean[w])
      /\ pc[w] = "use" /\ job[w].tool = "save_preset_as"
  BY DEF CheckSlot, history
<1>3. loc[w].pos \in Positions /\ loc[w].name = job[w].name
  BY <1>1, <1>2 DEF Placed, Saving, Looking, Saves
<1>4. Informed(w) => Occupant(loc[w].view, loc[w].pos) = before[w][loc[w].pos].name
  BY <1>1, <1>3, RightListing
<1>5. CASE Refuses(w, Occupant(loc[w].view, loc[w].pos))
  <2>1. Say(w, "refused") /\ "refused" \in Sayings
    BY <1>5 DEF CheckSlot, Sayings, Answers
  <2>2. Informed(w) => before[w][loc[w].pos].name \notin {None, loc[w].name}
    BY <1>3, <1>4, <1>5 DEF Refuses
  <2> QED
    BY <1>2, <1>3, <2>1, <2>2, SayKept
<1>6. CASE ~Refuses(w, Occupant(loc[w].view, loc[w].pos))
  <2>1. pc'[w] = "write" /\ loc' = loc
    BY <1>1, <1>6 DEF CheckSlot, ThreadsOK
  <2>2. Informed(w) /\ ~job[w].overwrite => before[w][loc[w].pos].name \in {None, loc[w].name}
    BY <1>3, <1>4, <1>6 DEF Refuses
  <2>3. loc[w].said = None /\ None # "saved" /\ None # "refused"
    BY <1>1, <1>2, NoneIsNoWord DEF Placed, Answers
  <2>4. Told(w)'
    <3>1. NameOfSave(w)' /\ Recommends(w)'
      BY <1>2, <2>1 DEF NameOfSave, Recommends
    <3>2. ~Over(w, "saved")' /\ ~Over(w, "refused")' /\ (Informed(w)' <=> Informed(w))
      BY <1>2, <2>1, <2>3 DEF Over, Informed
    <3>3. SlotOfSave(w)'
      BY <1>2, <2>1, <2>2, <3>2 DEF SlotOfSave
    <3> QED
      BY <3>1, <3>3 DEF Told
  <2>5. {"use", "write"} \subseteq Saving /\ pc[w] # "idle"
    BY <1>2 DEF Saving, Looking
  <2>6. clean[w] => Undisturbed(w)'
    <3> SUFFICES ASSUME clean[w] PROVE Undisturbed(w)'
      OBVIOUS
    <3> QED
      BY <1>1, <1>2, <2>1, <2>3, <2>5, Steady DEF Before
  <2> QED
    BY <1>2, <2>4, <2>6 DEF Holds
<1> QED
  BY <1>5, <1>6

\* A name that is reused is the slot's by the listing.
LEMMA ReuseKept ==
  ASSUME NEW w \in Workers, Before(w), ReuseName(w)
  PROVE  Holds(w)
<1>1. Typed /\ ThreadsOK /\ Placed(w) /\ loc[w] \in Local
  BY LocalIs DEF Before, Typed
<1>2. /\ UNCHANGED <<job, done, before, unit>> /\ (clean'[w] => clean[w])
      /\ pc[w] = "use" /\ job[w].tool \in Levelling \cup {"save_preset"}
  BY DEF ReuseName, history
<1>3. loc[w].pos \in Positions
  BY <1>1, <1>2 DEF Placed, Saving, Looking, Saves
<1>4. PICK n : n = Occupant(loc[w].view, loc[w].pos)
  OBVIOUS
<1>5. Informed(w) => n = before[w][loc[w].pos].name
  BY <1>1, <1>3, <1>4, RightListing
<1>6. PICK l : l = [loc[w] EXCEPT !.name = n]
  OBVIOUS
<1>7. /\ l.pos = loc[w].pos /\ l.list = loc[w].list /\ l.said = loc[w].said /\ l.view = loc[w].view
      /\ l.name = n
  BY <1>1, <1>6 DEF Local
<1>8. /\ pc'[w] = IF n = None THEN "name" ELSE "write"
      /\ loc'[w] = l /\ job'[w] = job[w] /\ done'[w] = done[w] /\ before'[w] = before[w]
  <2>1. loc'[w] = l
    BY <1>1, <1>4, <1>6 DEF ReuseName, ThreadsOK
  <2> QED
    BY <1>1, <1>2, <1>7, <2>1 DEF ReuseName, ThreadsOK
<1>9. loc[w].said = None /\ None # "saved" /\ None # "refused"
  BY <1>1, <1>2, NoneIsNoWord DEF Placed, Answers
<1>10. ~Over(w, "saved")' /\ ~Over(w, "refused")' /\ (Informed(w)' <=> Informed(w))
  BY <1>7, <1>8, <1>9 DEF Over, Informed
<1>11. Told(w)'
  <2>1. NameOfSave(w)'
    <3>1. job[w].tool = "save_preset" => job[w].name = None
      BY <1>2 DEF Before, Told, NameOfSave, Looking
    <3> QED
      BY <1>5, <1>7, <1>8, <1>10, <3>1 DEF NameOfSave
  <2>2. job[w].tool \notin {"save_preset_as", "list_empty_slots"}
    BY <1>2 DEF Levelling
  <2>3. SlotOfSave(w)' /\ Recommends(w)'
    BY <1>8, <2>2 DEF SlotOfSave, Recommends
  <2> QED
    BY <2>1, <2>3 DEF Told
<1>12. clean[w] => Undisturbed(w)'
  <2> SUFFICES ASSUME clean[w] PROVE Undisturbed(w)'
    OBVIOUS
  <2>1. {"use", "write", "name"} \subseteq Saving /\ pc[w] # "idle"
    BY <1>2 DEF Saving, Looking
  <2> QED
    BY <1>1, <1>2, <1>7, <1>8, <1>9, <2>1, Steady DEF Before
<1> QED
  BY <1>2, <1>11, <1>12 DEF Holds

\* A row is about the preset its position names.
LEMMA RowKept ==
  ASSUME NEW w \in Workers, Before(w), pc[w] \in {"level", "name", "write"}, job[w].tool \in Through,
         NEW b \in BOOLEAN, NextRow(w, Row(w, b)), UNCHANGED <<job, before, at>>,
         clean' \in [Workers -> BOOLEAN], clean'[w] => clean[w],
         clean[w] =>
           /\ \A p \in Positions : slots'[p].of = slots[p].of /\ (slots[p].trim = 1 => slots'[p].trim = 1)
           /\ b => slots'[at].trim = 1
           /\ (job[w].tool \in Levelling => ~Trims(job[w])) => slots' = slots
  PROVE  Holds(w)
<1>1. Typed /\ ThreadsOK /\ Placed(w) /\ UnitOK /\ done[w] \in Seq(Rows)
  BY LocalIs DEF Before, Typed
<1>2. PICK list, rest : list = loc[w].list /\ rest = Tail(list)
  OBVIOUS
<1>3. PICK row : row = Row(w, b)
  OBVIOUS
<1>4. /\ pc'[w] \in {"idle", "level", "recall"}
      /\ loc'[w] = [Locals EXCEPT !.list = rest] /\ done'[w] = Append(done[w], row)
      /\ pc'[w] = "level" => Head(rest) = None
  BY <1>1, <1>2, <1>3, RowTyped
<1>5. loc'[w].list = rest /\ loc'[w].pos = None /\ loc'[w].said = None
  BY <1>4 DEF Locals
<1>6. job[w].tool \notin Saves /\ job[w].tool # "list_empty_slots" /\ job' = job /\ before' = before
  BY DEF Through, Saves
<1>7. Told(w)'
  BY <1>6 DEF Told, NameOfSave, SlotOfSave, Recommends, Saves
<1>8. clean[w] => Undisturbed(w)'
  <2> SUFFICES ASSUME clean[w] PROVE Undisturbed(w)'
    OBVIOUS
  <2>1. SlotsKept(w) /\ ListKept(w)
    BY DEF Before, Undisturbed
  <2>2. SlotsKept(w)'
    <3>1. \A p \in Positions : slots'[p].of = before[w][p].of
      BY <1>6, <2>1 DEF SlotsKept
    <3>2. (job[w].tool \in Levelling => ~Trims(job[w])) => slots' = before[w]
      BY <1>6, <2>1 DEF SlotsKept
    <3> QED
      BY <1>6, <3>1, <3>2 DEF SlotsKept, Trims
  <2>3. PositionKept(w)'
    BY <1>5 DEF PositionKept
  <2>4. ListKept(w)'
    <3>1. pc'[w] \notin Saving
      BY <1>4 DEF Saving, Looking
    <3> SUFFICES ASSUME Given(w, "folder") # FALSE
                 PROVE  \A i \in 1 .. Len(done'[w]) : RowOK(w, done[w][i])'
      <4>1. Given(w, "folder")' = Given(w, "folder")
        BY <1>6 DEF Given
      <4> QED
        BY <1>4, <1>5, <3>1, <4>1 DEF ListKept
    <3>2. /\ \A i \in 1 .. Len(done[w]) : RowOK(w, done[w][i])
          /\ Head(loc[w].list) \in {None, at}
      <4>1. pc[w] \in Saving \cup {"level"}
        BY DEF Saving
      <4> QED
        BY <2>1, <4>1 DEF ListKept
    <3>3. ASSUME NEW r, RowOK(w, r), r \in Rows
          PROVE  RowOK(w, r)'
      <4>1. PICK p \in Positions : p = IF r.pos = None THEN r.at ELSE r.pos
        BY <3>3 DEF Rows
      <4>2. /\ r.of = before[w][p].of
            /\ r.saved => slots[p].of = r.of /\ slots[p].trim = 1
        BY <3>3, <4>1 DEF RowOK
      <4>3. slots'[p].of = slots[p].of /\ (slots[p].trim = 1 => slots'[p].trim = 1)
        BY <4>1
      <4> QED
        BY <1>6, <3>3, <4>1, <4>2, <4>3 DEF RowOK
    <3>4. RowOK(w, row)'
      <4>1. row.pos \in {None, at} /\ row.at = at /\ row.of = work.of /\ row.saved = b
        BY <1>3, <3>2 DEF Row
      <4>2. PICK p : p = IF row.pos = None THEN row.at ELSE row.pos
        OBVIOUS
      <4>3. p = at /\ at \in Positions
        BY <1>1, <4>1, <4>2 DEF UnitOK
      <4>4. work.of = slots[at].of /\ slots[at].of = before[w][at].of
        BY <1>6, <2>1, <4>3 DEF Before, Open, SlotsKept
      <4>5. slots'[at].of = slots[at].of /\ (b => slots'[at].trim = 1)
        BY <4>3
      <4> QED
        BY <1>6, <4>1, <4>2, <4>3, <4>4, <4>5 DEF RowOK
    <3>5. ASSUME NEW i \in 1 .. Len(done'[w])
          PROVE  RowOK(w, done[w][i])'
      <4>1. row \in Rows
        <5>1. loc[w].list \in Seq(Positions \cup {None}) /\ loc[w].list # <<>>
          BY <1>1, LocalIs DEF Local, Placed
        <5>2. Head(loc[w].list) \in Positions \cup {None}
          BY <5>1, HeadTailProperties
        <5> QED
          BY <1>1, <1>3, <5>2 DEF Row, Rows, UnitOK, Preset
      <4>2. /\ Len(done'[w]) = Len(done[w]) + 1 /\ Len(done[w]) \in Nat
            /\ \A j \in 1 .. Len(done[w]) : done'[w][j] = done[w][j]
            /\ done'[w][Len(done[w]) + 1] = row
        BY <1>1, <1>4, <4>1, AppendProperties, LenProperties
      <4>3. CASE i \in 1 .. Len(done[w])
        <5>1. RowOK(w, done[w][i]) /\ done[w][i] \in Rows
          BY <1>1, <3>2, <4>3, ElementOfSeq
        <5>2. PICK r : r = done[w][i] /\ r = done'[w][i]
          BY <4>2, <4>3
        <5>3. RowOK(w, r)'
          BY <3>3, <5>1, <5>2
        <5> QED
          BY <5>2, <5>3
      <4>4. CASE i = Len(done[w]) + 1
        BY <3>4, <4>2, <4>4
      <4> QED
        BY <4>2, <4>3, <4>4
    <3> QED
      BY <3>5
  <2> QED
    BY <2>2, <2>3, <2>4 DEF Undisturbed
<1> QED
  BY <1>7, <1>8 DEF Holds

\* A slot without a name gets that of the preset being worked on.
LEMMA NameKept ==
  ASSUME NEW w \in Workers, Before(w), NameOfPreset(w)
  PROVE  Holds(w)
<1>1. Typed /\ ThreadsOK /\ Placed(w) /\ loc[w] \in Local /\ UnitOK
  BY LocalIs DEF Before, Typed
<1>2. /\ UNCHANGED <<job, before, unit, clean>> /\ clean \in [Workers -> BOOLEAN] /\ pc[w] = "name"
  BY <1>1 DEF NameOfPreset, history, ThreadsOK
<1>3. job[w].tool \in {"save_preset"} \cup Levelling
  BY <1>1, <1>2, Doing
<1>4. CASE /\ work.name # None
           /\ loc' = [loc EXCEPT ![w].name = work.name]
           /\ pc' = [pc EXCEPT ![w] = "write"]
           /\ UNCHANGED done
  <2>1. PICK l : l = [loc[w] EXCEPT !.name = work.name]
    OBVIOUS
  <2>2. /\ l.pos = loc[w].pos /\ l.list = loc[w].list /\ l.said = loc[w].said /\ l.view = loc[w].view
    BY <1>1, <2>1 DEF Local
  <2>3. /\ pc'[w] = "write" /\ loc'[w] = l /\ job'[w] = job[w] /\ done'[w] = done[w]
        /\ before'[w] = before[w]
    BY <1>1, <1>2, <1>4, <2>1 DEF ThreadsOK
  <2>4. loc[w].said = None /\ None # "saved" /\ None # "refused"
    BY <1>1, <1>2, NoneIsNoWord DEF Placed, Answers
  <2>5. ~Over(w, "saved")' /\ ~Over(w, "refused")' /\ (Informed(w)' <=> Informed(w))
    BY <2>2, <2>3, <2>4 DEF Over, Informed
  <2>6. NameOfSave(w)'
    <3>1. job[w].tool = "save_preset" =>
            job[w].name = None /\ (Informed(w) => before[w][loc[w].pos].name = None)
      BY <1>2 DEF Before, Told, NameOfSave
    <3> QED
      BY <2>2, <2>3, <2>5, <3>1 DEF NameOfSave, Looking
  <2>7. SlotOfSave(w)' /\ Recommends(w)'
    BY <1>3, <2>3 DEF SlotOfSave, Recommends, Levelling
  <2>8. clean[w] => Undisturbed(w)'
    <3> SUFFICES ASSUME clean[w] PROVE Undisturbed(w)'
      OBVIOUS
    <3>1. {"name", "write"} \subseteq Saving /\ pc[w] # "idle"
      BY <1>2 DEF Saving
    <3> QED
      BY <1>1, <1>2, <2>2, <2>3, <2>4, <3>1, Steady DEF Before
  <2> QED
    BY <1>2, <2>6, <2>7, <2>8 DEF Holds, Told
<1>5. CASE job[w].tool \in Levelling /\ NextRow(w, Row(w, FALSE))
  <2>1. slots' = slots /\ at' = at
    BY <1>2 DEF unit
  <2> QED
    BY <1>2, <1>5, <2>1, RowKept DEF Levelling, Through
<1>6. CASE job[w].tool \notin Levelling /\ Say(w, "nameless") /\ UNCHANGED done
  <2>1. "nameless" \in Sayings /\ job[w].tool = "save_preset"
    BY <1>3, <1>6 DEF Sayings, Answers
  <2> QED
    BY <1>2, <1>6, <2>1, SayKept
<1> QED
  BY <1>4, <1>5, <1>6 DEF NameOfPreset

\* A save commits what is being worked on to the slot it goes by.
LEMMA WriteKept ==
  ASSUME NEW w \in Workers, Before(w), Write(w)
  PROVE  Holds(w)
<1>1. Typed /\ ThreadsOK /\ Placed(w) /\ loc[w] \in Local /\ UnitOK
  BY LocalIs DEF Before, Typed
<1>2. /\ UNCHANGED <<job, before, at, work>> /\ clean' = Alone(w) /\ pc[w] = "write"
      /\ slots' = [slots EXCEPT ![loc[w].pos] = [work EXCEPT !.name = loc[w].name]]
  BY DEF Write, history
<1>3. clean' \in [Workers -> BOOLEAN] /\ (clean'[w] => clean[w])
  BY <1>2 DEF Alone
<1>4. job[w].tool \in Saves \cup Levelling
  BY <1>1, <1>2, Doing
<1>5. loc[w].pos \in Positions /\ loc[w].name \in Names
  BY <1>1, <1>2, <1>4 DEF Placed, Saving, Looking
<1>6. PICK put : put = [work EXCEPT !.name = loc[w].name]
  OBVIOUS
<1>7. put.of = work.of /\ put.trim = work.trim /\ slots' = [slots EXCEPT ![loc[w].pos] = put]
  BY <1>1, <1>2, <1>6 DEF UnitOK, Preset
<1>8. CASE job[w].tool \in Levelling
  <2>1. NextRow(w, Row(w, TRUE))
    BY <1>8 DEF Write
  <2>2. Trims(job[w]) /\ job[w].tool \in Through
    BY <1>1, <1>2, <1>8 DEF Placed, Saving, Levelling, Through
  <2>3. ASSUME clean[w]
        PROVE  /\ \A p \in Positions :
                    slots'[p].of = slots[p].of /\ (slots[p].trim = 1 => slots'[p].trim = 1)
               /\ slots'[at].trim = 1
    <3>1. PositionKept(w) /\ ListKept(w)
      BY <2>3 DEF Before, Undisturbed
    <3>2. job[w].tool \notin {"recall_preset", "save_preset_as"} /\ loc[w].pos # None
      BY <1>5, <1>8, NoneIsNothing DEF Levelling
    <3>3. loc[w].pos = at
      BY <3>1, <3>2 DEF PositionKept
    <3>4. work.trim = 1
      BY <1>2, <1>8, <2>2, <3>1 DEF ListKept, Saving
    <3>5. slots[at].of = work.of
      BY DEF Before, Open
    <3> QED
      BY <1>1, <1>7, <3>3, <3>4, <3>5 DEF UnitOK
  <2> QED
    BY <1>2, <1>3, <1>8, <2>1, <2>2, <2>3, RowKept
<1>9. CASE job[w].tool \notin Levelling
  <2>1. Say(w, "saved") /\ UNCHANGED done /\ job[w].tool \in Saves
    BY <1>4, <1>9 DEF Write
  <2>2. PICK l : l = [loc[w] EXCEPT !.said = "saved"]
    OBVIOUS
  <2>3. /\ l.pos = loc[w].pos /\ l.list = loc[w].list /\ l.said = "saved" /\ l.view = loc[w].view
        /\ l.name = loc[w].name
    BY <1>1, <2>2 DEF Local
  <2>4. /\ pc'[w] = "idle" /\ loc'[w] = l /\ job'[w] = job[w] /\ done'[w] = done[w]
        /\ before'[w] = before[w]
    BY <1>1, <1>2, <2>1, <2>2 DEF Say, ThreadsOK
  <2>5. Informed(w)' <=> Informed(w)
    BY <2>3, <2>4 DEF Informed
  <2>6. NameOfSave(w)'
    BY <1>2, <2>3, <2>4, <2>5 DEF Before, Told, NameOfSave, Looking
  <2>7. SlotOfSave(w)'
    <3>1. job[w].tool = "save_preset_as" => loc[w].name = job[w].name
      BY <1>1, <1>2 DEF Placed, Saving
    <3> QED
      BY <1>2, <2>3, <2>4, <2>5, <3>1 DEF Before, Told, SlotOfSave, Over
  <2>8. Recommends(w)'
    BY <2>1, <2>4 DEF Recommends, Saves
  <2>9. clean[w] => Undisturbed(w)'
    <3> SUFFICES ASSUME clean[w] PROVE Undisturbed(w)'
      OBVIOUS
    <3>1. SlotsKept(w) /\ PositionKept(w)
      BY DEF Before, Undisturbed
    <3>2. loc[w].said # "saved"
      BY <1>1, <1>2, NoneIsNoWord DEF Placed, Answers
    <3>3. slots = before[w]
      BY <1>9, <3>1, <3>2 DEF SlotsKept, Over
    <3>4. Over(w, "saved")'
      BY <2>3, <2>4 DEF Over
    <3>5. SlotsKept(w)'
      BY <1>2, <2>1, <2>3, <2>4, <3>3, <3>4 DEF SlotsKept
    <3>6. PositionKept(w)'
      BY <1>2, <2>3, <2>4, <3>1 DEF PositionKept
    <3>7. ListKept(w)'
      BY <2>1, <2>4 DEF ListKept, Saves, Through
    <3> QED
      BY <3>5, <3>6, <3>7 DEF Undisturbed
  <2> QED
    BY <1>3, <2>6, <2>7, <2>8, <2>9 DEF Holds, Told
<1> QED
  BY <1>8, <1>9

\* A recall that is addressed opens the preset the list has next.
LEMMA RecallKept ==
  ASSUME NEW w \in Workers, Before(w), Recall(w)
  PROVE  Holds(w)
<1>1. Typed /\ ThreadsOK /\ Placed(w) /\ UnitOK
  BY DEF Before, Typed
<1>2. /\ UNCHANGED <<job, before, slots, done, loc>> /\ clean' = Alone(w) /\ pc[w] = "recall"
      /\ Addressed(w) => at' = Target(w)
  BY DEF Recall, history
<1>3. clean'[w] => clean[w]
  BY <1>2 DEF Alone
<1>4. /\ job[w].tool \in {"recall_preset", "switch_preset"} \cup (Through \ {"level_preset"})
      /\ job[w] \in Calls
  BY <1>1, <1>2, Doing, Busy
<1>5. pc'[w] \in {"verify", "idle", "level"}
  BY <1>1 DEF Recall, ThreadsOK
<1>6. job[w].tool \notin Saves \cup {"list_empty_slots"}
  BY <1>4 DEF Saves, Through
<1>7. Told(w)'
  BY <1>2, <1>6 DEF Told, NameOfSave, SlotOfSave, Recommends, Saves
<1>8. clean[w] => Undisturbed(w)'
  <2> SUFFICES ASSUME clean[w] PROVE Undisturbed(w)'
    OBVIOUS
  <2>1. SlotsKept(w) /\ ListKept(w)
    BY DEF Before, Undisturbed
  <2>2. SlotsKept(w)'
    BY <1>2, <1>6, <2>1 DEF SlotsKept, Trims, Over
  <2>3. PositionKept(w)'
    BY <1>1, <1>2 DEF Placed, PositionKept
  <2>4. ListKept(w)'
    <3>1. pc'[w] \notin Saving
      BY <1>5 DEF Saving, Looking
    <3> SUFFICES ASSUME job[w].tool \in Through, Given(w, "folder") # FALSE
                 PROVE  /\ Head(loc[w].list) \in {None, at'}
                        /\ \A i \in 1 .. Len(done[w]) : RowOK(w, done[w][i])'
      <4>1. Given(w, "folder")' = Given(w, "folder")
        BY <1>2 DEF Given
      <4>2. loc' = loc /\ done' = done /\ job' = job
        BY <1>2
      <4>3. \A i \in 1 .. Len(done'[w]) : RowOK(w, done[w][i])' <=> RowOK(w, done[w][i])'
        OBVIOUS
      <4> QED
        BY <3>1, <4>1, <4>2, <4>3 DEF ListKept
    <3>2. Addressed(w)
      <4>1. "folder" \in DOMAIN job[w] /\ job[w].folder \in BOOLEAN
        BY <1>4, ArgsOfCall DEF Through
      <4> QED
        BY <4>1 DEF Given, Addressed
    <3>3. at' = Head(loc[w].list)
      BY <1>1, <1>2, <3>2, TargetIs
    <3>4. \A i \in 1 .. Len(done[w]) : RowOK(w, done[w][i])
      BY <2>1 DEF ListKept
    <3>5. \A row : RowOK(w, row)' <=> RowOK(w, row)
      BY <1>2 DEF RowOK
    <3>6. done' = done
      BY <1>2
    <3> QED
      BY <3>3, <3>4, <3>5, <3>6
  <2> QED
    BY <2>2, <2>3, <2>4 DEF Undisturbed
<1> QED
  BY <1>3, <1>7, <1>8 DEF Holds

\* Verifying a recall changes nothing.
LEMMA VerifyKept ==
  ASSUME NEW w \in Workers, Before(w), Verify(w)
  PROVE  Holds(w)
<1>1. PICK p \in Positions :
        /\ clean' = [clean EXCEPT ![w] = @ /\ p = at]
        /\ Say(w, IF p = Target(w) THEN "recalled" ELSE "refused")
  BY DEF Verify
<1>2. UNCHANGED <<job, done, before, unit>> /\ pc[w] = "verify"
  BY DEF Verify, history
<1>3. clean'[w] => clean[w]
  BY <1>1 DEF Before, Typed, ThreadsOK
<1>4. PICK what : what = IF p = Target(w) THEN "recalled" ELSE "refused"
  OBVIOUS
<1>5. what \in Sayings /\ Say(w, what)
  BY <1>1, <1>4 DEF Sayings, Answers
<1>6. job[w].tool = "recall_preset"
  BY <1>2, Doing DEF Before, Typed
<1> QED
  BY <1>2, <1>3, <1>5, <1>6, SayKept DEF Saves

\* Measuring and trimming stay with the preset.
LEMMA LevelKept ==
  ASSUME NEW w \in Workers, Before(w), Level(w)
  PROVE  Holds(w)
<1>1. Typed /\ ThreadsOK /\ Placed(w) /\ loc[w] \in Local /\ UnitOK
  BY LocalIs DEF Before, Typed
<1>2. UNCHANGED <<job, before, slots, at>> /\ pc[w] = "level"
  BY DEF Level, history
<1>3. job[w].tool \in Through /\ job[w] \in Calls
  BY <1>1, <1>2, Doing, Busy
<1>4. PICK wrote \in IF Trims(job[w]) THEN BOOLEAN ELSE {FALSE} :
        /\ work' = IF wrote THEN [work EXCEPT !.trim = 1] ELSE work
        /\ clean' = IF wrote THEN Alone(w) ELSE clean
        /\ \/ IF wrote /\ job[w].save
              THEN pc' = [pc EXCEPT ![w] = "position"] /\ UNCHANGED <<loc, done>>
              ELSE NextRow(w, Row(w, FALSE))
           \/ Say(w, "error") /\ UNCHANGED done
  BY DEF Level
<1>5. wrote \in BOOLEAN /\ (wrote => Trims(job[w]))
  BY <1>4
<1>6. clean' \in [Workers -> BOOLEAN] /\ (clean'[w] => clean[w])
  <2>1. Alone(w) \in [Workers -> BOOLEAN] /\ (Alone(w)[w] => clean[w])
    BY DEF Alone
  <2> QED
    BY <1>1, <1>4, <2>1 DEF ThreadsOK
<1>7. job[w].tool \notin Saves /\ job[w].tool # "list_empty_slots"
  BY <1>3 DEF Through, Saves
<1>8. Told(w)'
  BY <1>2, <1>7 DEF Told, NameOfSave, SlotOfSave, Recommends, Saves
<1>9. CASE NextRow(w, Row(w, FALSE))
  BY <1>2, <1>3, <1>6, <1>9, RowKept
<1>10. CASE \/ wrote /\ pc' = [pc EXCEPT ![w] = "position"] /\ UNCHANGED <<loc, done>>
            \/ Say(w, "error") /\ UNCHANGED done
  <2>1. /\ done' = done /\ loc'[w].list = loc[w].list /\ loc'[w].pos = loc[w].pos
        /\ (pc'[w] = "position" /\ wrote) \/ pc'[w] = "idle"
    BY <1>1, <1>10 DEF Say, ThreadsOK, Local
  <2>2. pc[w] \in Saving \cup {"level"} /\ "idle" \notin Saving \cup {"level"} /\ "position" \in Saving
    BY <1>2 DEF Saving, Looking
  <2>3. clean[w] => Undisturbed(w)'
    <3> SUFFICES ASSUME clean[w] PROVE Undisturbed(w)'
      OBVIOUS
    <3>1. SlotsKept(w) /\ PositionKept(w) /\ ListKept(w)
      BY DEF Before, Undisturbed
    <3>2. SlotsKept(w)'
      BY <1>2, <1>7, <3>1 DEF SlotsKept, Trims
    <3>3. PositionKept(w)'
      BY <1>2, <2>1, <3>1 DEF PositionKept
    <3>4. ListKept(w)'
      <4>1. Given(w, "folder")' = Given(w, "folder")
        BY <1>2 DEF Given
      <4>2. \A row : RowOK(w, row)' <=> RowOK(w, row)
        BY <1>2 DEF RowOK
      <4>3. wrote => work'.trim = 1
        BY <1>1, <1>4 DEF UnitOK, Preset
      <4>4. Given(w, "folder") # FALSE =>
              /\ Head(loc[w].list) \in {None, at}
              /\ \A i \in 1 .. Len(done[w]) : RowOK(w, done[w][i])
        BY <1>3, <2>2, <3>1 DEF ListKept
      <4>5. Given(w, "folder") # FALSE => \A i \in 1 .. Len(done'[w]) : RowOK(w, done[w][i])'
        BY <2>1, <4>2, <4>4
      <4> QED
        BY <1>2, <2>1, <2>2, <4>1, <4>3, <4>4, <4>5 DEF ListKept
    <3> QED
      BY <3>2, <3>3, <3>4 DEF Undisturbed
  <2> QED
    BY <1>6, <1>8, <2>3 DEF Holds
<1> QED
  BY <1>4, <1>5, <1>9, <1>10

\* What a thread knows stays while it does nothing, and its call undisturbed.
LEMMA QuietKept ==
  ASSUME NEW u \in Workers, Told(u), Quiet(u), clean[u] => Undisturbed(u)
  PROVE  Holds(u)
<1> USE DEF Quiet
<1>1. Told(u)'
  <2>1. NameOfSave(u)'
    BY DEF Told, NameOfSave, Over, Informed
  <2>2. SlotOfSave(u)'
    BY DEF Told, SlotOfSave, Over, Informed
  <2>3. Recommends(u)'
    BY DEF Told, Recommends
  <2> QED
    BY <2>1, <2>2, <2>3 DEF Told
<1>2. clean'[u] => Undisturbed(u)'
  <2> SUFFICES ASSUME clean'[u] PROVE Undisturbed(u)'
    OBVIOUS
  <2>1. SlotsKept(u) /\ PositionKept(u) /\ ListKept(u) /\ slots' = slots /\ at' = at /\ work' = work
    BY DEF Undisturbed
  <2>2. SlotsKept(u)'
    BY <2>1 DEF SlotsKept, Over
  <2>3. PositionKept(u)'
    BY <2>1 DEF PositionKept
  <2>4. ListKept(u)'
    <3>1. Given(u, "folder")' = Given(u, "folder")
      BY DEF Given
    <3>2. \A row : RowOK(u, row)' <=> RowOK(u, row)
      BY <2>1 DEF RowOK
    <3>3. (\A i \in 1 .. Len(done[u]) : RowOK(u, done[u][i]))
            => \A i \in 1 .. Len(done'[u]) : RowOK(u, done[u][i])'
      BY <3>2
    <3> QED
      BY <2>1, <3>1, <3>3 DEF ListKept
  <2> QED
    BY <2>2, <2>3, <2>4 DEF Undisturbed
<1> QED
  BY <1>1, <1>2 DEF Holds

\* Every step keeps what saves, lists and listings of empty slots go by.
LEMMA SaveKept == SaveInv /\ [Next]_vars => SaveInv'
<1> SUFFICES ASSUME SaveInv, [Next]_vars PROVE SaveInv'
  OBVIOUS
<1>1. Typed' /\ Open'
  BY TypedKept, OpenKept DEF SaveInv
<1>2. ThreadsOK /\ \A u \in Workers : Before(u)
  BY DEF SaveInv, Typed, Before
<1>3. ASSUME NEW u \in Workers PROVE Holds(u)
  <2>1. Before(u) /\ Told(u) /\ (clean[u] => Undisturbed(u))
    BY <1>2 DEF Before
  <2>2. CASE Player
    <3>1. /\ pc' = pc /\ job' = job /\ loc' = loc /\ done' = done /\ before' = before
          /\ clean' = [w \in Workers |-> FALSE]
      BY <2>2 DEF Player
    <3>2. Told(u)'
      <4>1. NameOfSave(u)'
        BY <2>1, <3>1 DEF Told, NameOfSave, Over, Informed
      <4>2. SlotOfSave(u)'
        BY <2>1, <3>1 DEF Told, SlotOfSave, Over, Informed
      <4>3. Recommends(u)'
        BY <2>1, <3>1 DEF Told, Recommends
      <4> QED
        BY <4>1, <4>2, <4>3 DEF Told
    <3>3. ~clean'[u]
      BY <3>1
    <3> QED
      BY <3>2, <3>3 DEF Holds
  <2>3. CASE UNCHANGED vars
    <3>1. Quiet(u)
      BY <2>3 DEF vars, unit, listing, history, Quiet
    <3> QED
      BY <2>1, <3>1, QuietKept
  <2>4. ASSUME NEW w \in Workers, Step(w) PROVE Holds(u)
    <3>1. CASE u # w
      <4>1. Quiet(u)
        BY <1>2, <2>4, <3>1, OthersStay
      <4> QED
        BY <2>1, <4>1, QuietKept
    <3>2. CASE u = w
      <4>1. Before(w)
        BY <1>2
      <4>2. CASE Call(w)
        BY <3>2, <4>1, <4>2, CallKept
      <4>3. CASE Fail(w)
        BY <3>2, <4>1, <4>3, FailKept
      <4>4. CASE Position(w)
        BY <3>2, <4>1, <4>4, PositionStays
      <4>5. CASE Catalog(w)
        BY <3>2, <4>1, <4>5, CatalogKept
      <4>6. CASE LoadSnapshot(w)
        BY <3>2, <4>1, <4>6, LoadKept
      <4>7. CASE Keep(w)
        BY <3>2, <4>1, <4>7, KeepKept
      <4>8. CASE ListEmptySlots(w)
        BY <3>2, <4>1, <4>8, ListEmptyKept
      <4>9. CASE DirectorySummary(w)
        BY <3>2, <4>1, <4>9, SummaryKept
      <4>10. CASE CheckSlot(w)
        BY <3>2, <4>1, <4>10, CheckKept
      <4>11. CASE ReuseName(w)
        BY <3>2, <4>1, <4>11, ReuseKept
      <4>12. CASE NameOfPreset(w)
        BY <3>2, <4>1, <4>12, NameKept
      <4>13. CASE Write(w)
        BY <3>2, <4>1, <4>13, WriteKept
      <4>14. CASE Recall(w)
        BY <3>2, <4>1, <4>14, RecallKept
      <4>15. CASE Verify(w)
        BY <3>2, <4>1, <4>15, VerifyKept
      <4>16. CASE Level(w)
        BY <3>2, <4>1, <4>16, LevelKept
      <4> QED
        BY <2>4, <4>2, <4>3, <4>4, <4>5, <4>6, <4>7, <4>8, <4>9, <4>10, <4>11, <4>12, <4>13,
           <4>14, <4>15, <4>16 DEF Step
    <3> QED
      BY <3>1, <3>2
  <2> QED
    BY <2>2, <2>3, <2>4, Stepping
<1> QED
  BY <1>1, <1>3 DEF SaveInv, Holds

-----------------------------------------------------------------------------
(* The promises *)

\* What holds of the saves, the lists and the listings of empty slots always.
LEMMA SavesHold == Spec => []SaveInv
  BY InitSaves, SaveKept, PTL DEF Spec

\* Whatever the threads do, a save that nobody disturbs commits the preset being
\* worked on to the slot named or open, under the right name, and nothing else;
\* by a right listing it takes no slot of another name unasked, and refuses none
\* without that reason.
THEOREM SavesAreAsPromised == Spec => []SavesAsPromised
<1>1. SaveInv => SavesAsPromised
  <2> SUFFICES ASSUME SaveInv, NEW w \in Workers
               PROVE  LET p == loc[w].pos
                          n == loc[w].name
                          was == before[w][p].name
                          saved(tool) == Said(w, tool, "saved")
                      IN /\ saved("save_preset") \/ saved("save_preset_as") =>
                              slots = [before[w] EXCEPT ![p] = [work EXCEPT !.name = n]]
                         /\ saved("save_preset") =>
                              /\ p = at
                              /\ n = (IF job[w].name # None THEN job[w].name
                                      ELSE IF Informed(w) /\ was # None THEN was ELSE n)
                         /\ saved("save_preset_as") =>
                              /\ p = (IF job[w].pos # None THEN job[w].pos ELSE at)
                              /\ Informed(w) /\ ~job[w].overwrite => was \in {None, n}
                         /\ Said(w, "save_preset_as", "refused") /\ Informed(w) =>
                              was \notin {None, n}
    BY Zenon DEF SavesAsPromised
  <2>1. Placed(w) /\ Told(w) /\ (clean[w] => Undisturbed(w))
    BY DEF SaveInv, Typed
  <2>2. ASSUME NEW d \in Saves, Said(w, d, "saved")
        PROVE  /\ slots = [before[w] EXCEPT ![loc[w].pos] = [work EXCEPT !.name = loc[w].name]]
               /\ loc[w].pos = IF d = "save_preset_as" /\ job[w].pos # None THEN job[w].pos ELSE at
    <3>1. /\ job[w].tool = d /\ job[w].tool \in Saves /\ loc[w].said = "saved"
          /\ SlotsKept(w) /\ PositionKept(w)
      BY <2>1, <2>2 DEF Said, Undisturbed
    <3>2. loc[w].pos # None /\ d # "recall_preset"
      BY <2>1, <3>1, NoneIsNothing DEF Placed, Saves
    <3> QED
      BY <3>1, <3>2 DEF SlotsKept, PositionKept, Over
  <2>3. Said(w, "save_preset", "saved") =>
          /\ job[w].name # None => loc[w].name = job[w].name
          /\ job[w].name = None /\ Informed(w) /\ before[w][loc[w].pos].name # None =>
               loc[w].name = before[w][loc[w].pos].name
    BY <2>1 DEF Said, Told, NameOfSave, Over
  <2>4. /\ Said(w, "save_preset_as", "saved") =>
             (Informed(w) /\ ~job[w].overwrite =>
                before[w][loc[w].pos].name \in {None, loc[w].name})
        /\ Said(w, "save_preset_as", "refused") =>
             (Informed(w) => before[w][loc[w].pos].name \notin {None, loc[w].name})
    BY <2>1 DEF Said, Told, SlotOfSave, Over
  <2> QED
    BY <2>2, <2>3, <2>4 DEF Saves
<1> QED
  BY <1>1, SavesHold, PTL

\* Whatever the threads do, the rows of a list that nobody disturbs are about the
\* presets it names, and what was saved is that preset with its trim in its slot;
\* a call that only reports changes no slot.
THEOREM ListedAreLevelled == Spec => []LevelsTheListed
<1>1. SaveInv => LevelsTheListed
  <2> SUFFICES ASSUME SaveInv, NEW w \in Workers, Given(w, "folder") # FALSE, clean[w]
               PROVE  /\ \A i \in 1 .. Len(done[w]) : RowOK(w, done[w][i])
                      /\ job[w].tool \in Through /\ ~Trims(job[w]) => slots = before[w]
    BY Zenon DEF LevelsTheListed, RowOK
  <2>1. Placed(w) /\ SlotsKept(w) /\ ListKept(w)
    BY DEF SaveInv, Typed, Undisturbed
  <2>2. \A i \in 1 .. Len(done[w]) : RowOK(w, done[w][i])
    <3>1. CASE job[w].tool \in Through
      BY <2>1, <3>1 DEF ListKept
    <3>2. CASE job[w].tool \notin Through
      <4>1. Len(done[w]) = 0
        BY <2>1, <3>2 DEF Placed
      <4> QED
        BY <4>1
    <3> QED
      BY <3>1, <3>2
  <2>3. job[w].tool \in Through /\ ~Trims(job[w]) => slots = before[w]
    BY <2>1 DEF SlotsKept, Through, Saves
  <2> QED
    BY <2>2, <2>3
<1> QED
  BY <1>1, SavesHold, PTL

\* Whatever the threads do, a list of empty slots that nobody disturbs, made of
\* the right listing, has the empty slots and recommends the open one or none.
THEOREM RecommendedIsOpenEmpty == Spec => []RecommendsOpenEmpty
<1>1. SaveInv => RecommendsOpenEmpty
  <2> SUFFICES ASSUME SaveInv, NEW w \in Workers, pc[w] = "idle",
                      job[w].tool = "list_empty_slots", clean[w], Informed(w)
               PROVE  /\ loc[w].said.free = {p \in Positions : slots[p].name = None}
                      /\ loc[w].said.recommended \in {None, at} \cap ({None} \cup loc[w].said.free)
    BY Zenon DEF RecommendsOpenEmpty
  <2>1. Recommends(w) /\ SlotsKept(w) /\ PositionKept(w)
    BY DEF SaveInv, Told, Undisturbed
  <2>2. slots = before[w]
    BY <2>1 DEF SlotsKept, Saves, Levelling
  <2>3. loc[w].view.files = [p \in Positions |-> slots[p].name]
    BY <2>2 DEF Informed, NamesIn
  <2>4. loc[w].view.files # None
    <3>1. slots \in [Positions -> Preset]
      BY DEF SaveInv, Typed, UnitOK
    <3>2. loc[w].view.files \in Contents
      BY <2>3, <3>1 DEF Contents, Preset
    <3> QED
      BY <3>2, NoneIsNothing
  <2>5. Free(loc[w].view) = {p \in Positions : slots[p].name = None}
    BY <2>3 DEF Free
  <2>6. loc[w].pos \in {None, at}
    BY <2>1 DEF PositionKept
  <2>7. /\ loc[w].said.free = Free(loc[w].view)
        /\ loc[w].said.recommended = IF loc[w].pos \in Free(loc[w].view) THEN loc[w].pos ELSE None
    BY <2>1, <2>4 DEF Recommends
  <2> QED
    BY <2>5, <2>6, <2>7
<1> QED
  BY <1>1, SavesHold, PTL
=============================================================================
