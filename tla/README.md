# qc-mcp in TLA+

qc-mcp controls a Neural DSP Quad Cortex over USB-HID. Its parts are an MCP
server with some eighty tools, a daemon that owns the device and shares its
session, a leveling bench with audio I/O, interposers that let the tools ride
the session of the vendor's application (Cortex Control), and Patchbay, an
Electron application that starts, watches and stops all of it.

This directory holds TLA+ models of it, TLC configurations that check them on
small instances, and TLAPS proofs for every value of the constants.
`PROJECT.json` maps every definition to the lines of source it stands for, and
lists the runs, the mutants, the findings, the hazards and the theorems.

    tlc -config MCDaemonHub.cfg MCDaemonHub      # one run; all are in PROJECT.json
    tlapm ConnectionProofs.tla                   # the proofs of one module

## 1. Inventory

Line numbers refer to `src/qc_mcp/` (Python) and `app/src/` (TypeScript).

| Component | State | Operations | Talks to | What is hard | What makes it correct | Module |
|---|---|---|---|---|---|---|
| Daemon, client side included (`daemon.py`) | client registry, a report queue per client, `_next_client`, `_write_lock`, `_stop`; per client a socket, call numbers, `req_base` | pump thread; `hello read write status bye`; accept, drop, close; `_rpc` with timeouts | device, any number of client processes | pump and handlers interleave; replies arrive after the call gave up; a slow write; a client that stops reading | each client gets the device's stream from the moment it registered, once and in order, unless a loss on its own path happened; bounded queues; nobody holds up the pump; answers go to the call that asked; disjoint request ids | DaemonHub, Broadcast |
| Framing and `send` (`protocol.py`, `transport.py`) | `_send_lock`, `Reassembler._buf` | cut a message into reports, write them, join them | device, other writers | writers of other threads and processes, writes refused or raising half way | whole messages only, and every message written is heard | ReportWire |
| Session lock (`lockfile.py`, used by `daemon.serve` and `server._conn`) | `session.json` | read, acquire, release | every process that opens the device, Patchbay | two processes between a look and a write; crashes | the record never names a live process without the device; a stale one stops nobody | SessionLock |
| Exchanges (`transport.py`, `server.py`) | `_pending`, `_io_lock`, request ids | `request`, `_read_preset_once`, `read_message`, `latest_broadcast`, `switch_preset`, `cpu_load` | device, other threads of the MCP server | answers late, of others, or unsolicited; two threads over one list | an answer that arrived is found by who asked, nobody takes another's | Exchange |
| Connection lifecycle (`transport.py` 87-260, `server.py` 250-470, `backend.py`) | `_qc`, `riding`, heartbeat, firmware, two environment variables | connect, disconnect, `_conn`, open, handshake, version, close | device, Cortex Control | the application appears or leaves in between | the application keeps its session, and none of ours outlives a close | Connection |
| Scene and preset writes, MCP tools that edit (`transport.py` 530-1330, `server.py`) | on the device: blocks, parameters per scene, routing, footswitches, settings | some thirty tools, each a sequence of messages, reads and waits | device, other tools, somebody at the unit | a confirmation that does not come, an answer after its deadline, an index read before it is used | each value in its own scene, what was asked and nothing else; every call returns | PresetTools, Unit |
| MCP tools over slots, catalogue (`server.py` 560-700, 900-1100, 1480-1700) | `_catalog_cache`, a snapshot on disk; on the device: slots, position, working preset | recall, save, save as, list, level a list | device, other tools, other savers | a stale or partial listing, positions read before they are used | a save goes where it promises, a list is worked through preset by preset | Slots |
| Automatic leveling (`autolevel.py`) | routing of the reamp loop, the trim | `reamp_routing`, `level_current`, `level_scenes` | device, audio | each message may fail; several threads rewire | routing restored; never left over the ceiling | AutoLevel |
| Leveling bench (`leveling.py`) | one JSON-line process: session, player thread, cancel flag, undo store | open, state, measure, play, level, trim, revert, save, cancel | Patchbay, device, audio | the player thread beside the loop; broadcasts of older recalls; cancel | the preset asked is the one shown; the undo undoes; reports write nothing | Bench |
| Sampler (`audio_io.py`) | state, stream, blocks, file | arm, stop, discard, callback | PortAudio's thread | callback against main thread | every take ends | Sampler |
| FIFO bridges (`bridge.py`, `winbridge.py`) and HID backends (`iohid.py`, `winhid.py`) | reader thread, FIFO handles | open, reopen, read, write, close | interposers, OS | stale FIFOs, a reader replaced while it reads | one live reader | as seen by Connection |
| Interposers (`interceptor/`, `interceptor-win/`) | hooks inside Cortex Control | fan-out of input, injection of output | FIFO bridges | native code in another process | every reader gets every report | - |
| Patchbay: supervision (`main/daemon.ts`) | `child`, `external`, `state`, `liveSocket`, `starting` | start, adopt, stop, evict, exit of the child | daemon processes, socket, session lock | a stop that does not wait; exits of an old child; sockets and records by name | a daemon of Patchbay's is its child or told to stop; no stop or start goes on for ever | Supervisor |
| Patchbay: session (`shared/session.ts`, `run-plan.ts`, `once.ts`, `main/session.ts`, `index.ts`) | goal, plan, single flight, failure count | resolve, plan, run, pursue, tick | supervision, Cortex Control | overlapping ticks, steps that time out and go on | one plan at a time; what the plan leaves is what it said | - |
| Patchbay: bench proxy, updater, Cortex Control, settings | sidecar, download, process, files | calls, check and install, launch and wait, read and write | bench, network, OS | answers after a restart | one answer per call | - |
| Renderer, loudness, riffs, tools, scripts | views, filters, files | - | - | - | - | - |

## 2. Plan

Done: DaemonHub with Broadcast (proofs in DaemonHubProofs), ReportWire
(ReportWireProofs), SessionLock (DaemonHubProofs), Exchange (ExchangeProofs),
Supervisor (SupervisorProofs), Connection (ConnectionProofs), Bench over
AutoLevel and Sampler (BenchProofs), Slots (SlotsProofs), PresetTools over Unit
(PresetToolsProofs).

Left, most important first:

1. **SessionPlan**: `resolveSession` and `planFor` as operators against a
   definition of what each goal needs, `runPlan` with steps that time out,
   `SingleFlight` and the tick as actions, over Supervisor.
2. **BenchProxy**: Patchbay's side of the bench's commands.
3. **HubWire**: DaemonHub's trims and losses under ReportWire's reassembly.
4. The pipes of the bridges, and `reconnect()` with them.

## 3. Modules

### DaemonHub (`daemon.py`)

One pump thread, one thread per connection, and the clients' transports. A
client is the number of its connection, which the daemon never reuses; reports
are numbered in the order the device produced them.

- `Emit` (external), `PumpRead`, `PumpSnapshot`, `FanOut` are `_pump`: the
  registry is copied under `_lock` and the appends happen one client at a time
  afterwards, so that clients register and leave in between.
- `Attach` is connect, accept and registration; `HandleHello`, `HandleStatus`,
  `HandleRead`, `WriteBegin`/`WriteEnd`, `HandleBye` are `_handle`. A write has
  two steps since `_write_lock` is held for as long as the HID write takes.
  `Drop` is the thread that ends by itself, at its poll or because its answer
  could not be sent.
- `Rpc`, `TakeReply`, `SkipLateReply`, `TimeOut`, `Crash` are `SocketTransport`.
- `joined` and `lost` are history variables. `lost[c]` is set by the three
  things that discard a report owed to `c`: a trim, a skipped late reply, the
  death of the client's socket.

A client that registers before the pump has taken its copy of the registry
still gets the round in progress, hence `HandedOut` in `Attach`.

**Broadcast** promises a client every report from some point on, in order and
once; a gap only after a recorded loss. `SharesOneSession` is that
specification as a property of DaemonHub, with the identity for `got` and
`lost`.

### ReportWire (`protocol.py` 242-292, `transport.py` 367-386)

Senders cut a message into reports and write them one at a time; the receiver
joins them by FLAG_FIRST and FLAG_LAST. A message is its payload units, each
tagged with sender, number, place and length, so that a joined message is whole
exactly when it equals what was sent. `_send_lock` belongs to a process:
`ProcessOf` says which threads share one. `WriteRefused` is a non-benign code,
which `send` counts and passes over; `WriteFails` is an exception, which leaves
the lock and the rest of the message.

### SessionLock (`lockfile.py`, `daemon.serve`, `server._conn`/`_disconnect`)

Every access to the file is one step. A daemon looks at the record, opens,
acquires (look, write, look again), serves, and on SIGTERM releases, closes and
releases again; a stdio server opens first, takes the record over and closes
before it releases. Every process can be killed at each step. `Direct` are those
who seize the device: the device refuses them next to anybody and anybody next
to them.

### Exchange (`transport.py` 370-640, `server.py` switch_preset, cpu_load)

The device tells every client everything. `Collect` moves what has arrived into
`_pending`; `Found`, `NotYet` and `TimeOut` are one round of the exchange
methods, which differ in what ends them: "request" (`request`) and "match"
(`_read_preset_once`) their own request_id, "first" (`read_message`) the first
message of the command. "stream" (`latest_broadcast`) and "load" (`cpu_load`)
ask nothing: `BeginStream` drops what is stale, `Gather` takes what comes.
"drain" is `switch_preset`. "load" and "drain" have no lock and run beside the
others of their client. `RequestKept` is what `request` really leaves in
`_pending`: its answer, and what precedes it twice. The history variable
`arrived` says of a thread that its answer has been put into `_pending` and that
no call past the lock has taken it out since (`Robbed`): whom `switch_preset`
leaves without an answer is not asked to have found it.

### Supervisor (`app/src/main/daemon.ts`, `daemon.serve`)

Patchbay's side is `child`, `external`, `state`, `liveSocket`, the begin() of
each call of `start()`, a `stop()` of an adopted daemon that has not returned,
and the SIGKILL timers. `Start`, `Adopt`, `NotInstalled`, `Spawn`, `Ask`, `Gone`,
`Up`, `Again`, `GiveUp` are `start` and `begin`; `Stop`, `WindDown` and `Kill` are
`stop` with `evict`; `ExitEvent` is the handler that begin() leaves on its child.
A connect to a unix socket is accepted or refused by the kernel at once and heard
of later, so `saw` is fixed when it is made and acted on in another step; a
child's exit is heard of after the connects it accepted. Everything between two
awaits is one step.

The processes' side is `daemon.serve` as far as the socket path and the record
go: look for an owner (`Check`), open the device, look again (`Look`), write the
record (`Write`), read it back (`Settle`), bind (`Listen`); after SIGTERM look at
the record (`Release`) and unlink it (`Drop`), close, which unlinks the socket
path whoever bound it (`CloseOnce`, `CloseAgain`), and release once more. Each is
a step, so that two daemons interleave between any two of them. `Rude` daemons
are started with `--takeover` and pass every owner. A process may die at every
step; whether the device opens next to another daemon's is open too.

No step waits for anything the code does not wait for: a plan that stops and
starts (`shared/session.ts` 213-217), the tick, Disconnect and a step of a plan
that timed out call `Stop` and `Start` in any order and at any time. `left` is a
history variable: which child was told to stop, and which the exit handler of an
earlier one took from Patchbay (`Strays`).

### PresetTools and Unit (`transport.py` 530-1330, `server.py`)

A call of a tool is a script: messages to send, reads to wait for, scenes to
await. The operators named after the tools (`BuildPreset`, `SetBlockBypass`,
`AssignStomp`, ...) give the script of a call, and those named `Qc...` the
messages QuadCortex sends for one of its methods. `AfterRead` is what a tool
does with what it read: a bypass finds its parameter's index, `clear_grid` the
blocks there are, a switch of mode whether the mode is in the cycle. The actions
are the steps of any script: `Send`; `Ask` and then `Answered`, `TakeFirst` or
`TimeOut`, for `request` and `_read_preset_once`, for `read_message`, and for
both when nothing came. Messages travel in a queue of `MaxLag`; `UnitStep` is
the device taking one, `Settle` a scene switch coming to its end, `Player`
somebody at the unit.

Unit is the device, outside of this repository: what a message does to the
preset and to the settings as far as the code relies on it and its comments
report it from the hardware (a plain write to a parameter that is assigned to
scenes lands on the active scene, a switch that is bound anew loses its
momentary flag, the settings of a block are saved for the block that is open).

`Calls` is what a client may ask for, `Units` what the unit can hold and
`Commands` the messages it takes, for a grid of `Height` rows and `Width` columns
and models with up to `MostParams` readable parameters. `apply_spec`, which builds
a preset from a file, has no caller but a test tool and is left out; a tool builds
chain by chain (`BuildChain`).

`Promised` says what seven of the tools, those that send more than a message or
go by what they read, are to make of the preset; the rest of it must be as it
was. A spec is promised if it names each row, cell and parameter once (`Plain`):
named twice, the last one stands. `clean` is the history variable that says no deadline passed and nobody
else wrote.

### Slots (`server.py`)

The slots, the position that is open and the preset being worked on are the
device's; `cache`, `source` and `snap` are `_catalog_cache`, `_catalog_source`
and the snapshot on disk. A call goes through the steps of its tool, one per
message and per access to the file: `Position` (SetlistPosition READ, which
after its deadline returns some older position), `Catalog`, `LoadSnapshot` and
`Keep` (`_catalog`: a cached listing serves; a live one is kept if it is at
least as complete as the one on disk), `ListEmptySlots`, `DirectorySummary`,
`CheckSlot` (the guard of `save_preset_as`), `ReuseName`, `NameOfPreset`,
`Write` (File CREATE), `Recall`, `Verify`, `Level`. The tools that work through
a list (`level_setlist`, `suggest_levels`, `compare_presets`, `level_preset` with
one row) recall, level and perhaps save row by row; what happens within
`Level` is AutoLevel's.

`Informed` says the listing a call went by was right, `clean` that nobody
disturbed it and no answer was late. `RefusesNamedSlots` asks the same without
either, and is finding 3.

### AutoLevel, Sampler and Bench (`autolevel.py`, `audio_io.py`, `leveling.py`)

AutoLevel has the actions of `reamp_routing` (`ReadPorts`, `Feed`, `Tap`,
`RestoreIn`, `RestoreOut`, any of which may fail) for any thread, and those of
`level_current` (`First`, `WriteTrim`, `Again`, `BackOff`, `LeaveRun`). Levels
are integers of dB; a measurement is the loudness of the preset with its fader,
off by a member of `Noise`.

Sampler has the state machine of `Sampler`: `Block` and `Finished` on the audio
thread, `Arm`, `StopStream`, `SaveTake`, `Discard` and `UseRiff` as parts of
actions of the loop.

Bench puts them together. The loop takes one command at a time (`TakeCommand`,
`Answer`) and goes through its steps: `Drain`, `Recall`, `Listen`, `Landed`,
`GiveUp` are `Bench.open`; `ReadGrid`, `ReadPointer` and `ReadActive`
`preset_state`; `Do` the commands of one write; `ApplyTrim`, `RememberFader` and
`PutBack` the trims and their undo; `NextPreset` `measure_many`; `With` to `Left`
what runs inside the rewiring: one measurement, a walk over the scenes, an
automatic run. `NoAnswer` is an exception out of a read, which the guard of every
command turns into an answer. `Land` and `Announce` are a recall done and told
of; a broadcast of an older one may be anywhere between. Patchbay sends what
`Sessions` allow, in any pace. A riff is played by a thread with a rewiring of
its own.

The level of a preset is one for all scenes or, for those in `Scened`, one per
scene: `Db` is that of the active scene, and a write moves it alone. What is
known of the unit may be old: the position and the scene that are read are any,
when they come late. `open` believes a payload if the position then read is the
one it asked for, or at once if it asked for a download, which has none
(`Landed`); it gives up at any time, also with its recall still under way
(`GiveUp`), and then reads whatever grid there is. The undo store `applied` goes
by the name a preset was read under (`Name` may give two the same), not by which
preset or scene it is. The finally of `measure_scenes` is a message like any
other and may fail (`SceneBack`).

History variables tell apart what the code has no means against: `lost`, the
putting back of a port that failed, and `stuck`, that of the scene; `crossed`, a
wiring or a save that met another command, a recall or somebody at the unit;
`calm`, nobody at the unit; `sure`, what the command was told was so: nothing
older on its way when a recall was asked for, none under way when it gave up, the
position and the scene as they were. `was` is what the trims since the last
revert found, for each name the first of each preset and scene.

### Connection (`server.py`, `transport.py`, `backend.py`)

`Connect` to `Force` are the tool `connect` with its modes, up to `_conn`:
`Launch`, `AwaitBridge` and `QuitApp` what it does about Cortex Control, `Share`
and `Force` what it sets in the environment. `Lock`, `OpenIo`, `Listen`, `Beat`,
`Handshake`, `Version` and `Claim` are `_conn` and `QuadCortex.open` under
`_lock`, `Confirm` the first read; `LockToLeave`, `Silence`, `Goodbye` and
`CloseIo` `disconnect`. `Expire` is the unit forgetting a session that nobody
keeps alive. Cortex Control, stock or instrumented, starts and quits at any
step, `MaxApp` times.

## 4. Runs

| Run | Instance | What it shows |
|---|---|---|
| `hub` | 2 clients (3 calls and 1), 2 reports, QUEUE_CAP 1, slices of 2 | the streams are complete, ordered, bounded; answers go to their call; ids never meet; the hub is a Broadcast; the pump waits for nobody |
| `wire` | 3 threads of one process, reports of 2 units, messages of 1 to 5 units, 2 each | whole messages only; what was written is heard |
| `lock` | a daemon in direct mode, one with --takeover in bridge mode, a server | the record is backed; a stale record stops nobody |
| `exchange` | two threads of one client (`request`; `_read_preset_once`, `read_message`, `latest_broadcast`, `switch_preset` and `cpu_load`), another client that listens, two commands, 2+1 questions, 1 push | an answer that arrived and was not taken past the lock is found; `request` and `_read_preset_once` return their own |
| `supervisor` | two spawns, a daemon started by hand with `--takeover`, two calls of start(), two rounds, stops at any time | no orphan but by an earlier child's exit; "starting" has a start behind it; a stop ends; a start ends |
| `preset_tools` | two rows, two columns, two scenes, four models, one call of each of 37 kinds from two presets, somebody at the unit once | calls come to what they promise; every call returns |
| `slots` | three slots, a thread with one call of any tool, another that lists or saves, somebody at the unit once, three states of the snapshot | saves as promised; lists levelled in their own presets; the slot recommended is open and empty |
| `bench` | two presets, one with a level per scene, two scenes, thirteen sessions of up to four commands, one player thread, one recall at the unit | routing, levels and scenes put back; open returns what was asked; never left over the ceiling; every command answered, every take ended |
| `connection` | two threads (3 calls and 1), both platforms, Cortex Control started up to twice | no session taken over, none left behind; direct is direct |
| `bench_cancel` | as `bench`, without fairness | violation, finding 1 |
| `bench_scenes` | as `bench`, without fairness | violation, finding 2 |
| `slots_overwrite` | as `slots`, two calls of each thread, nobody at the unit | violation, finding 3 |

**Bounds.** All of them limit what the environment does, or count down what the
code itself counts.

- Hub, wire, lock: two clients are enough for one to register or leave while a
  round is copied to the other; three calls for a read that times out, a later
  call that meets the late reply, and one more; two reports with a cap of one
  for a round that is trimmed and for an order to break. `ReqStride` 2 lets a
  client use up its slice. Five units at two to a report cover one, two and
  three reports with a full and a short last one; each thread sends two.
- Exchange: two questions (`MaxAsks`) of one client are the least for an answer
  to be late, and one of the other client for an answer that is somebody
  else's; a client listens to a stream only while it still has questions, so
  that listening without end does not multiply the states. One push
  (`MaxPushes`) is a change of the device that an older answer does not have.
  The commands are symmetric.
- Supervisor: `MaxRounds` is 150 in the code; two rounds are one that asks again
  and one that gives up. Two processes to spawn are an old daemon and a new one,
  the third is in the way of both. A second call of start() is for the mutant
  that does not join the first.
- PresetTools: `MaxCalls` 1, since a call is between one and some twenty messages
  and every message and answer interleaves with the unit; two rounds (`Rounds`)
  of `_await_scene` are one that fails and the last; `MaxLag` 2 lets a message
  go out while the one before is on its way; `MaxPlayer` 1 is a change in the
  middle of a call. A parameter has a value per scene, two scenes keep a walk's
  values apart; the models have one and two parameters, so that a bypass index
  taken from the wrong model hits a parameter.
- Slots: three positions are one that is open, one unsaved, and another one; two
  rows are the least for a row to be about the other's preset. One call of each
  thread meets at every step; the violation needs a second.
- Bench: the sessions are those in which commands have something to do with each
  other: opens after a save and after a download, trims on top of each other with
  other presets, levels and scenes between, an automatic run with its undo, dry
  runs, lists, a cancel, scenes measured and leveled from another scene than A, a
  riff beside other commands, takes. The two presets go by different names; what
  holds of namesakes is in the proof, for any `Name`. `MaxIterations` is 4 by default in the code, here 2: a pass, another
  one and the limit. The fader's range of five steps is small enough for the
  trim to run into both ends, the crests for one preset to go over the ceiling.
  `MaxBlocks` 3 and `MaxQuiet` 2 let a take end by silence and by its limit.
- Connection: three calls are a connect, a disconnect and a connect in another
  mode; `MaxApp` 2 an application that comes back.

**Deadlock** is not checked: the daemon stops, processes end, and the bounds end
every behaviour.

**Fairness.** `hub` assumes weak fairness of the pump thread only: it is a loop
without blocking calls other than `read_reports` with a timeout of 50 ms;
nothing is assumed of clients, handlers or writes. `lock` assumes that a process
inside `acquire`, `release` or an open takes its next step; nobody need start,
stop or die. `supervisor` assumes that Patchbay's event loop runs what is due
(its timers and its awaits) and nothing of any daemon, not even that its exit is
heard of.
`preset_tools` assumes that a thread inside a call goes on and that the unit
takes what was written to it; neither that it answers in time nor that a scene
switch ever ends. `bench` assumes that the loop, the threads it starts and the
audio thread go on and that the unit comes to the end of a recall; nobody need
send a command. The other runs check safety only.

## 5. Proofs

A theorem is about every value of the constants its module declares: any number
of clients, threads, processes and messages, any bound. What a theorem assumes
beyond the named assumptions of the model is in its statement (`ASSUME`) and
below. Each component's invariant was checked by TLC on the instance of its run
before it was proved.

**DaemonHubProofs**. `HubAssumption` says only that `MaxClients`, `ReqStride`,
`QueueCap`, `MaxReports` and `MaxCalls` are numbers, the stride and the cap
positive.

- `HubTyped`: `Spec => []TypeOK`.
- `ClientsIdsDisjoint`: `Spec => []SlicesDisjoint`. The inductive part, `IdInv`,
  says that a client has drawn no id before its hello was answered, and that
  every answer to a hello on its way, and every `reqBase` set by one, is that
  client's slice. `SlicesDisjoint` speaks of the ids a client drew and, while it
  is up, the one it draws next. The slices of two numbers do not meet by
  arithmetic on the stride.
- `RepliesAnswerTheirCall`: `Spec => AnswersOwnCall`. The part of `IdInv` it
  rests on: call numbers in the socket, in the replies and in the call in flight
  agree on their op, so that an equal id means the same call.
- `QueuesStayBounded`: `Spec => []QueueBounded`: only `FanOut` lengthens a queue
  and it trims what it stores.

Its second part proves `StreamsComplete`, `StreamsOrdered` and
`HubIsBroadcast`. A stream is what a client was given, what the replies on their
way to it carry and what its queue holds. `Follows(s, lo, hi, whole)` says that
`s` ascends within `lo + 1 .. hi`, and is the whole interval if `whole`.
`StreamInv` says that every client's stream follows from `joined` up to what the
pump has given it so far, whole unless something was recorded as lost, and what
that needs to be inductive: the pump's batch is the interval it has read last,
targets of the round are registered, a served client's queue ends with its last
report, every reply carries an interval. The lemmas on `Follows` (continued by
the next interval, thinned in the middle, cut short at the end) are the trim,
the late reply and the crash. For the refinement, every step is a step of
Broadcast, or a stutter, under the identity: what `TakeReply` adds follows what
was given, and a gap before it was recorded as lost in an earlier step or in
this one.

What the standard library lacks about `FlattenSeq` stands at the head of the
module: `FlattenSeq` is a recursive function, so the prover can unfold it, and an
induction on a set of numbers that is given as a set needs no operator
parameter. ExchangeProofs begins with the same induction and the facts about
`FlattenSeq` and `ToSet` it needs.

DaemonHubProofs also holds the theorems about the record the daemon keeps of its
session, SessionLock's, for any daemons and servers in any modes: `RecordTyped`
and `RecordIsBacked`. `RecordBacked` alone is not inductive; the invariant adds
that a process past its open has the device and that the record names nobody who
has not written it.

**ReportWireProofs**, for any threads, messages of any length and any report
size. `WireTyped` holds for any number of processes. `WholeMessages` and
`WrittenMessagesAreHeard` assume `OneSendLock`: all threads share one QuadCortex,
as they do in the server and in the bench (two processes that write through one
daemon do not, and section 7 says what happens then). `OnlyWholeMessages` is not
inductive, since it says nothing of a message half way; `Halfway` does: what a
thread has still to write is the end of one of its messages from some report on,
and the receiver has joined all that came before, unless a report was refused.
`Locked` makes that thread the only one.

**ExchangeProofs**, for any threads of any clients, any number of questions and
pushes. `ExchangesTyped`. `AnswersAreOwn`: `Spec => ReturnsOwnAnswer`, whatever
the threads without the lock do; the invariant (`Own`) is that a request id is
drawn once, that every message anywhere carries one that was drawn, and that
whatever carries the id of a thread's exchange is about its command and no older
than its question. `AnsweredAreFound`: `Spec => AnsweredIsFound`, with
`switch_preset` and `cpu_load` on any thread. Its invariant (`Answered`): an
answer that came in and that no call past the lock took is in `_pending` and the
thread is about to look. Whoever else takes something out is inside the lock, and
so not beside the exchange (`Alone`).

**ConnectionProofs**, for any number of threads and calls on any platform, with
the app starting and quitting as often as it likes: `ConnectionTyped`,
`AppKeepsItsSession`, `NoSessionLeft`, `DirectMeansDirect`. The invariant: only
the holder of `_lock` has an object half made or half closed (`Locked`, `Kept`);
how far that object is at each step of `open` (`Half`); before a handshake the
app is down, without the unit, or was there from before the lock (`Polite`); a
session of ours has an object that will say goodbye for it (`Owned`, `Gone`); and
a call for direct mode that runs by itself carries it to its end (`Forced`).

**SupervisorProofs**, for any number of daemons, spawned or started by hand, with
and without `--takeover`, and of calls of start(), and with no assumption on who
calls what when: `SupervisorTyped`, `DaemonsSupervised` (NoOrphan) and
`NeverStartingForNothing` (StartingIsAtWork). The invariant they share, `Begun`:
one start is in flight (`OneStart`); one that still probes has no child to lose
when it spawns (`EmptyProbe`), since only a spawn makes one and a start that
returns leaves "stopped" only without one (`ChildKnown`); and while Patchbay says
"starting" a begin() waits for the child. Each exit, of whichever child, ends
both the child and the word, and that is why NoOrphan has to name the one child
it takes by mistake.

**BenchProofs**, for any presets, sessions of any commands, players and recalls
at the unit. The named assumptions: `SessionsAssumption` says what each command
carries, as `serve()` reads it from the message; `LevelAssumption` that the
levels are integers in a range and that the error of a measurement is bounded;
`SamplerAssumption` that a take has room for two blocks. `BenchTyped` rests on
`Shape`, the types of all state: the largest part, `OpOK`, says which steps each
command has (`Stages`) and what is known at each of them, which the code only
implies (a preset that was read before a trim is written, a label before a
save). `RoutingIsRestored`: `Spec => []RoutingRestored`. The property looks only
at states in which nobody is wired, so it is far from inductive. `RouteInv` adds
for a thread in the middle (`Wires`, `Wire`): the ports it has kept are the
preset's own, a port that differs from them is one it has changed and is on its
way to put back; the slots are never saved in between. That needs in turn that a
wired loop is inside a measuring command (`LoopWired`), that a command which
reads and then writes finds the same preset (`SaveKnows`, `AloneAtTheUnit`), and
so that no recall of an earlier command is still to be done (`Unasked`), unless
somebody is at the unit.

Four more rest on these; none assumes more than the model does, and each property
names what it leaves out. `RevertRestores` (RevertPutsBack): `KnownLevel` says
that what is about to be trimmed is still what was read, `Noted` that what is
kept for a name is what its first trim found, if that is the only one, and
`RevertInv` that what a `revert_levels` has answered still holds. The names are
any (`Name` need not tell presets apart), so the argument is about what `was` has
for a name, not about a preset. `OpenIsTheAsked` (OpenReturnsTheAsked): `OpenInv`
follows one recall through the three queues between the bench and the unit
(`Trip`), from a drain after which nothing older is on its way (`Opened`) to the
grid that is read or the payload that is believed (`Shown`). `RunsEndLowEnough`
(NeverLeftOver): `RunInv` says that a run's `cur` is where the level of the active
scene is after a write, until somebody recalls, and that a run ends low enough as
far as one measurement can tell; `RunOf` ties a run to the command that began it.
`ReportsTouchNothing` (ReportsWriteNothing): `ReportInv` compares the unit with
what the command found at each of its steps, which scene it has still to put back
(`Returns`) unless that failed, and, for `measure_many`, that the last preset is
as it was saved.

**SlotsProofs**, for any slots, threads and calls, lists of any length, and a
player who recalls and saves as often as he likes. `SlotsAssumption`: the slots
are finitely many numbers, 0 among them, the calls are those of the tools
(`Calls`), and `None` is none of the values it stands beside. `SlotsTyped` rests
on `Typed`, whose last part, `Placed`, has the steps of each tool (`Steps`) and
what is known at each: whoever writes has a position and a name, whoever saves a
row was told to trim. The three others share `SaveInv`. What is being worked on
is always from the slot that is open (`Open`). `Told` is what a call has found
out, whoever disturbs it: why a save was let through or refused, where its name
is from, what a list of empty slots was made of. `Undisturbed` holds of a call
while its `clean` does: the slots are those of its beginning but for what it
saved (`SlotsKept`), the position it goes by is the one that is open
(`PositionKept`), and a list is at the preset it has next, its rows about theirs
(`ListKept`). The properties only look at calls that are over. A step is one of
the thread's own or leaves it alone, or else it is not undisturbed any more
(`OthersStay`).

**PresetTools** (PresetToolsProofs). For a grid of any size, any number of
parameters, scenes and switches, specs and lists of values of any length, any
number of threads, and a player at the unit. `UnitAssumption`: height and width
are positive, scenes are numbered from 0, a model has at most `MostParams`
readable parameters, and `None` is none of the values it stands beside.
`PresetToolsAssumption`: the calls are those of the tools (`Calls`), the presets
to begin with are ones the unit can hold (`Units`, and a cell without a block has
no parameters: `Tidy`), and a wait for a scene reads at least once. Which calls
there are, how many are made and how many messages may be on their way is open.

`TypesHold` rests on `Typed` and `Waited`. `Typed` has the course of a call:
what is left of it is steps that its tool takes, with at most one pause, at the
front, and whoever is told something is at that pause. `Waited` says that of a
question and of its answer there is at most one, in the queue or in `_pending`,
and that both are about what the thread waits for.

`CallsEndAsAsked` needs to know in the middle of a call that it will end well.
A `Way` from one unit to another along a list of messages and steps is a path of
units: one for each message the unit takes, for each wait for a scene that ends
with that scene, and for a read the unit stays. `Held`, the invariant of each
thread: while nobody has disturbed its call, the unit is `OnTheWay`, that is
there is a way along the queue and on along what is left of the call that ends
in what was promised; or the call is `Deciding`, has sent nothing yet and waits
for the read it goes by, whose answer is right; and `Alone`: its question is the
last message in the queue, an answer waits for it only when the queue is empty,
and a scene that was answered as the one switched to has settled. A step of the
unit or of the thread goes one step along the way; the step of anybody else ends
`clean`, or is not seen by the unit.

So what is left to prove is about no step at all: that the script of each tool is
a way to what it promises. A walk through the scenes is one for a list of any
length (each value lands in its own scene because each switch is awaited), and
so is the clearing of a grid, row by row and cell by cell, and a spec, chain by
chain, block by block and parameter by parameter. These are inductions on the
length of a `FlattenSeq`. The library's induction over the natural numbers takes
an operator, which no prover here can instantiate, so they are stated for sets of
numbers (`InductionOnSet`: a set with 0 and with the successor of each of its
numbers has them all).

**Only model-checked**: the liveness properties (EveryReportHandedOut,
StaleRecordIsTaken, StopEnds, StartEnds, CallsReturn, EverythingEnds), which are
out of the prover's reach. The violations of section 6 are TLC's.

## 6. Findings

Each is the counterexample of a violation run and quotes the line it disagrees
with in `PROJECT.json`.

1. `bench_cancel`: the loop of the bench is busy with `measure_many` and reads
   `cancel` after it, and `measure_many` resets the flag when it begins: every
   preset of the list is measured all the same.
2. `bench_scenes`: `QuadCortex.set_scene` returns None, which both walks over the
   scenes take for a switch that failed: no scene is measured or trimmed.
3. `slots_overwrite`: `save_preset_as` goes by a listing that no save refreshes,
   and overwrites a slot that was saved into since.

## 7. Seen while modelling

What was seen of the code beyond the findings, by reading it for the models or in
a counterexample of an instance that no run keeps; where a property is named, it
is the one that fails. Little of it contradicts a promise in so many words, and
some of it is admitted in comments; the hazards in `PROJECT.json` give the lines.

Sharing the device:

- The daemon's `_write_lock` covers a report, not a message, and its heartbeat
  takes none: with two processes in `ProcessOf`, reports of two messages
  interleave and `OnlyWholeMessages` fails.
- `release` looks at the record and deletes it by path, and `serve` releases
  twice: the record of a daemon that has started meanwhile is gone while it
  serves. Two starters of `acquire` can both read their own name back; its
  read-back can refuse in the name of a process that has died; a pid that was
  used again makes a stale record look live.
- `switch_preset` and `cpu_load`, outside the lock, and `reconnect`, which
  replaces the list, take another thread's answer out of `_pending`, and its
  exchange times out: `AnsweredIsFound` without `Robbed` fails.
  `read_message` takes the answer to another client's question. `request`
  leaves its own in the list, for the next read of that command that is not
  answered in time. `latest_broadcast` drops what is in the list, not what the
  transport has still to hand over, so that the first reports may be stale.
- An application that lives but does not answer the version in time is thrown
  off by a handshake. A fallback from a bridge or a shared handle to direct
  mode is reported as the mode asked for if another thread connected meanwhile.
  A crash, or a goodbye that could not be sent, leaves a session that the next
  open in shared mode rides until it expires. The reader of `winbridge` can
  reopen its pipe after a close.

Patchbay, where a stop and a start follow each other (`planFor` puts both in one
plan, and no step waits for the old process):

- The exit handler of a daemon that was stopped clears `child` and the state of
  the one started since: it runs on without a parent, Disconnect does not reach
  it, and the next start adopts it at best. `NoOrphan` without `strayed` fails.
  `external` is left set by it.
- A stop while an answered connect is on its way back leaves "running" with no
  child behind it.
- A daemon that is going unlinks the socket path by name, and so does its second
  close: the path of the one started since is lost while it serves. Two that look
  at the record before either has written it may both bind, as far as the record
  goes, and the later one unlinks the path of the earlier.
- `liveSocket` outlives a child that died by itself, and the next stop unlinks
  the path whoever has bound it since; a second stop during the first one's wait
  for an adopted daemon does the same.

Presets:

- Two rewirings at a time, a riff and a measurement, or somebody recalling
  a preset during one, leave the preset on USB 5/6; so does the end of the bench
  1.5 s after its stdin was closed. A save in between keeps it so.
- `open` right after a save may take the payload of the CREATE, which had not
  arrived when the queue was drained. When it gives up, after six seconds or at
  the first exception of `_collect`, with the recall still under way, it returns
  the grid of the preset before. A download is believed without a look at the
  pointer. A late answer about the position is taken for the one asked for.
- The undo store of the bench goes by the name of a preset and its row: one of
  the same name elsewhere is put back to the other's level, and in a preset with
  a level for each scene a scene to another's. A trim that was told the scene too
  late remembers another scene's level.
- `current_scene` answers scene A when there is no answer, and the scene that is
  put back is then another than the player's; putting it back may fail, and
  nobody tries again. `level_scenes` adds a Gain block although it measures no
  scene. `sample_stop` saves the last take again, over a riff chosen since. A
  sampler whose stream did not start stays armed, and `arm` does nothing until it
  is stopped or discarded.
- Two walks over scenes on two threads move the scene under each other's
  feet. A scene switch that was not confirmed is passed over, and its values
  go to the scene before. The index of a bypass is read before it is used.
  `clear_grid` returns as if it had cleared when its read was not answered.
- Somebody who recalls a preset between the read of the position and the CREATE
  of a save has it saved in the slot that was open before. A list with presets
  given without a folder is ignored by the unit, and the preset that is open
  is levelled and saved once per row.

## 8. Not modelled

Bytes: protobuf contents, gzip, hex encoding and JSON lines are not modelled;
a message is who asked, for what, and what it is to change. Time appears only as
"the deadline has passed", at the points where the code looks at the clock.
An unknown op answers with an error and changes nothing. Clients that draw more
ids than a slice holds are outside the guarantees and stated so in the property.
The loopback variant of the daemon's endpoint differs from the socket in nothing
the hub's properties tell apart; Patchbay on Windows does, since it neither
probes nor unlinks there and SIGTERM is TerminateProcess: Supervisor is the
macOS one, with a socket path that does not change.

- `loudness.py` is floating-point filtering, `riffs.py`, the WAV files and the
  PortAudio streams are I/O: a measurement is a number with an error.
- The interposers are hooks inside another program, the HID backends calls into
  the operating system. Of the bridges, their pipes and `reconnect()`, only
  whether one can be opened is in Connection; what goes wrong there ends in
  pipes nobody opens, which needs a model of the OS's.
- `add_block` and `recall_preset`, which sift `_pending` outside the lock like
  `switch_preset`, are messages in PresetTools and Slots.
- In server.py: the master volume and tempo (one message and no second state),
  the meters and what only measures, searches in the catalogue and favorites.
- In leveling.py: muting and soloing of switches, folders, the meter, the list
  of riffs, and the end of the process in the middle of a command.
- `preset.py` and the tables of the catalogue are functions of their input, with
  long tables and no state.
- In Patchbay: the session plan and the tick (planned), the proxy of the bench
  (planned), Cortex Control's launch (the app of Connection, the rest belongs to
  the plan), the updater (a download, a checksum and a restart that share
  nothing with the rest), the file formats of the clients, the renderer.
- `tools/` and the design documents' scripts are for development.
