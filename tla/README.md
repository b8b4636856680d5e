# A TLA+ development of LibreCreatures

LibreCreatures re-implements the engine of Creatures 1 and its kits: one game
process with a UI thread that simulates a world once per timer message,
a worker thread that serves a named pipe, and any number of kit processes that
send macros through that pipe. This directory keeps models of the parts whose
correctness depends on order: what may run inside what, which record outlives
which object, and who waits for whom.

## 1. Inventory

### 1.1 The system's parts

| Part | Source (under `src/src/`) | State it keeps | Operations |
|---|---|---|---|
| SFC_OLE pipe server | `c1/scripting/pipe_server.*`, `c1/platform/windows_pipe_server*.cpp`, `c1/application/main_frame.cpp` | worker thread, stop and completion events, posted commands, pending-command and macro-holder maps | start, serve one client, marshal a command, dispatch it, stop |
| Kit pipe client | `kits/c1kitlib/src/sfc_ole_pipe_transport.cpp` | one pipe handle per call | connect, write, read, close |
| Kit server pipe | `kits/c1kitlib/src/kit_server_pipe.cpp`, `c1/platform/windows_pipe_dispatch_proxy.cpp` | the kit's own pipe, thread and window | send, read and post a word, notice an exited kit, stop |
| Object event scheduler | `c1/objects/events.*` | ring of immediate events, table of delayed events, ring of stimuli | queue, process, cancel, purge |
| Macro scheduler | `c1/scripting/macro.cpp`, `classifier_scripts.cpp`, `c1/platform/windows_document_host.cpp` | running-macro slots, executing stack, deferred scripts | start, run one turn, fire a classifier script, purge, clear |
| Macro holders | `c1/scripting/macro_holder.cpp`, `c1/application/sfc_ole.cpp`, `c1/scripting/dde.cpp` | a macro owned by a kit or conversation | create, request, publish, destroy |
| Object lifetimes | `c1/objects/lifecycle.cpp`, `object.cpp`, `c1/world/runtime.cpp` | world lists, galleries, every object reference | kill, delete, reap, adopt, destroy |
| World tick | `c1/application/document.cpp`, `c1/world/tick.cpp`, `update_timer.cpp` | re-entrancy guard, timer, autosave state | update_world, toggle timer, autosave |
| Lift and call buttons | `c1/objects/lift.cpp`, `call_button.cpp`, `vehicle.cpp` | pending calls, movement, passengers | call, tick, arrive, board |
| Carrying | `c1/ui/tools.cpp`, `c1/objects/object.cpp`, `simple_object.cpp`, `vehicle.cpp`, `c1/creatures/creature.cpp` | bounds mode and reference of everything that can be carried, whether the hand is shown | click, take, drop, board, get off, end |
| Objects | `c1/objects/simple_object.cpp`, `compound_object.cpp`, `entity.cpp`, `bubble.cpp` | position, pose, carrier | per-tick movement and animation |
| Creatures | `c1/creatures/*` | skeleton, genome, drives, registry | update, speech, birth, death |
| Brain | `c1/brain/*` | lobes of neurons and their dendrites, migration candidates, instincts, recorder buffers | load genes, wire, one brain tick, migrate, dream, archive, record |
| Biochemistry | `c1/biochemistry/*` | 256 concentrations, tables of receptors, emitters and reactions | load genes, one chemical tick, add a dose |
| Genome, breeding | `c1/creatures/genome.cpp`, `egg.cpp`, `creature.cpp`, `c1/platform/windows_creature_transfer_host.cpp`, `windows_egg_transfer.cpp` | a genome file for each name; the names of creatures, gametes, children and eggs | copy, cross, find a gene; conceive, lay, hatch, export, import |
| World map | `c1/world/map.cpp`, `geometry.cpp`, `places.cpp` | rooms, favourite places (at most 6) | lookups, edits |
| Embedded kits | `c1/application/embedded_kits.cpp`, `kit_processes.cpp`, `c1/platform/windows_embedded_kit_host.cpp` | 20 slots, each with a dispatch and a process handle; the count of attached slots | launch, shut down, broadcast, end all |
| Pending deaths | `c1/archive/funeral_kit.cpp`, `c1/ui/event_bar.cpp` | at most 16 words that wait for the Funeral Kit | append, flush, notify |
| Display | `c1/display/*`, `c1/world/viewport.cpp` | the view and its glide, at most 64 dirty rectangles, sprite cache, galleries | scroll, follow, queue, draw, cache |
| Sound | `c1/sound/*` | voices, cache, queue | play, stop, fade |
| Archive, files | `c1/archive/*`, `c1/common/*` | none in memory | read, write, backup |
| User interface | `c1/ui/*` and most of `c1/platform/*` | windows, tools, selection | input, painting |
| Kits | `kits/{shell,science,biochem,hatchery,...}` | each kit's forms | forms over macros |

### 1.2 How they interact

* A kit writes a command to the pipe. The worker posts it to the main window as
  message 0x402 and waits; the UI thread runs it inside its message loop.
* A command creates, requests and destroys macro holders; a macro runs commands
  that create, kill and delete objects, open modal boxes, and start scripts.
* The world update timer calls `update_world`, which walks objects, then runs
  every macro one turn, then a cohort of creatures; queued object events are
  processed at phases 0, 4, 8 and 12 of 16.
* An event handler starts classifier scripts, which are macros again.
* Deleting an object must reach every place that holds a pointer to it: events,
  stimuli, macros, deferred scripts, other objects, the hand, the event bar.
* The game starts a kit as a process and writes each message to the slot's pipe;
  a thread of the kit reads it and posts it to the kit's main thread. A kit that
  ends asks the game through SFC_OLE to shut its slot down; a kit that crashed is
  noticed when the next message to it fails.
* The hand, norns and vehicles take things by queued events; the notices that
  tell the hand of it are queued events too, up to four ticks later.
* An autosave runs at the end of an update: it stops nothing, tells the kits
  twice, promotes one backup, saves, and refreshes the other.
* An object plays sounds through the manager's channels and keeps the number of
  the one that goes on; mute, pause and the window's focus reach all of them.
* A creature is built from the genome file of its name, again at each age; mating,
  hatching and importing write such files and name their owners.
* Any modal box runs a nested message loop, so all of this can happen inside a
  command that is only half done.

### 1.3 What is hard

The hazards are listed in `PROJECT.json`, each at its line. They are of these
kinds: a shared auto-reset event between two threads and nested commands
(pipe server); fixed queues whose records hold raw pointers (object events);
objects and macros that delete themselves or each other while on the C++ stack
(macro scheduler, lifetimes); two processes that find out about each other's
start and end through a pipe with one instance (kit slots); re-entrancy
through message loops (world tick); a crash between two file operations (world
files); indices kept over turns into tables that change meanwhile (enumeration,
lift slots, sound channels); state of one object that others must tell it to
change (the hand); and names kept in several places that must go on to mean the
same genes (breeding).

## 2. Plan

Modules are written so that the most entangled code comes first. A module that
is to be proved about uses no recursive operator; its parameters are constants
with named assumptions and each handler is one action.

| Order | Module | Models | Composes |
|---|---|---|---|
| done | `KitRequests` | what the game promises a kit about a command | |
| done | `PipeServer` | worker thread, UI thread, kits, pipe and events of SFC_OLE | refines `KitRequests` |
| done | `EventQueues` | what the three event queues promise | |
| done | `ObjectEvents` | immediate ring, delayed table, stimulus ring, purge and save | refines `EventQueues` |
| done | `MacroScheduler` | running list, walk, classifier scripts, purge, holders | |
| done | `KitSlots` | the game's kit slots, the kit's own pipe server, launch, crash, shutdown, the Funeral Kit's pending deaths | |
| done | `WorldTick` | `update_world`: guard, timer, pause, file commands, cohorts walked by index, autosave and failures | `MacroScheduler`'s walk as one step |
| done | `WorldFiles` | save, autosave, opening and both backups, with crashes between the file operations | |
| done | `Lift` | call buttons, pending calls, movement, arrival | |
| done | `CaosScript` | loops, subroutines, waits and enumeration inside one script, with the registry | |
| done | `SoundManager` | cache, channels, copies, queue, mute, pause and focus | |
| done | `Carrying` | the hand, norns, things and vehicles that take and drop each other | an event phase of `ObjectEvents` as a queue |
| done | `Biochemistry` | the chemistry of a creature as operators: one update, the gene loaders | the `Chemistry` step of `WorldTick` |
| done | `Dendrites`, `Lobes` | the brain as operators: learning, forgetting, reattaching, migrating, rules, wiring, senses, dreams | the `BrainDone` step of `WorldTick`; `Biochemistry`'s rates |
| done | `Genome` | genes as operators: copying with mutations, crossing, which loader reads which | |
| done | `Breeding` | names and genome files: gametes, children, eggs, export and import | a crossing of `Genome` as a step |
| done | `WorldSpace` | the ring, rooms, falls, the view and the dirty queue as operators | the places `Carrying` leaves out |
| later | `KitMacros` | pipe commands nested in a macro's modal box, holder tables | `PipeServer`'s stack with `MacroScheduler`'s |
| later | `BrainRecorder`, `SpriteCache` | bounded buffers and caches | |

Every module that keeps state has its theorems in a proof module (section 6), beside the operators of
biochemistry, brain, genome and space: each safety invariant and each action property that a run checks is
proved as well. What is still only model-checked is liveness, and section 6 says why.

## 3. The modules and the code

### 3.1 PipeServer and KitRequests

`PipeServer` has three kinds of actors.

* **A kit** (`kit`, `asking`, `outcome`) does `Connect`, `Ask`, `Receive`,
  `CloseEnd`, the four steps of `PipeMacroTransport`; `CallFails` is an error of
  any of them, `Die` a kit that is killed in the middle.
* **The worker** (`worker`, `failures`, `serving`, `response`) walks through
  `run_worker`, `serve_client` and `marshal_command_to_main_thread`; the value
  of `worker` is the place in that code. Every test of the stop event is a guard
  at the place where the code tests it, and there is none where it does not.
* **The UI thread** (`ui`, `queue`, `stack`, `context`) takes posted commands.
  `stack` holds the commands it is inside of: a command that opens a modal box
  pumps messages, so `BeginCommand` may push another. `stop()` is the states
  `signalling`, `joining`, `discarding`, `stopped` of `ui`.

The pipe is `pipe`, `client`, `inbox`, `outbox`: one instance, one message each
way. The completion event is `doneEvent`, a Boolean, because an auto-reset event
remembers one signal however often it is set. A reply is its kind and the number
of the command it answers: text and handles are left out. `context[n]` is the
shared `PipeServerCommandContext` of command `n`.

`KitRequests` knows only commands: sent, new, running or done, and what the kit
was told. `PipeServer` implements it under the mapping `Promise` in the module:
`progress` is the context's state seen without the queue, `verdict` what the kit
received, `open` that `stop()` has not finished joining.

### 3.2 ObjectEvents and EventQueues

`ObjectEvents` keeps the queues as the code does: an array of `Capacity` records
with a read and a write position for each ring (`Capacity` is 200 in the code),
an array with free-slot marks and a hand-kept count for delayed events. Values
left behind in unused slots are kept, since handlers hold records by reference.
Each producer (`QueueImmediate`, `QueueDelayed`, `QueueStimulus`), `Cancel...`,
`Delete` (with the whole purge), `Kill`, `Save` (with the inspection that lets
killed objects go), `NewWorld` and the phases of processing are actions. A
handler is the interval between `Take...` and `HandlerReturns`: anything a
script may do, any of the former, may happen in it.

`EventQueues` is the same three queues as plain sequences and sets:
`KeepsOrder` says that `ObjectEvents` implements it.

### 3.3 MacroScheduler

The hard part of this code is what runs inside what, so the C++ stack is a
variable. `stack` is a sequence of frames, each a macro inside
`execute_interpreter` with `todo`, the steps its current command has still to
do; the bottom frame is the UI thread outside any macro. A command such as
`kill`, `cdie` or `aslp` becomes a list of steps in the order the code performs
them (run the paused scripts, purge, fire the death script, mark dead), and a
step that runs a script pushes a frame. What happens after the command
(`Returned`, `ReturnedDestroyed`) is a step too, so a purge in between meets the
macro while it is still executing.

`running`, `next`, `deferred` are `g_running_macros`,
`g_running_macro_scheduler_next` and `g_deferred_script_events`. `heap` and
`macro` say which addresses are allocated and what is there: an address may be
used again, which matters where the code compares pointers. `turned` is a
history variable. The kits' holders and the DDE conversations are the actions under
`Kit`; `held` is `owning_holder`, `dde` marks the macro of a conversation.

Assumed: the script of a sleep indicator only plays a sound. Commands that
neither yield, end, fire, kill nor change sleep and death are stuttering steps.

### 3.4 KitSlots

Three kinds of threads act.

* **The game's UI thread** keeps the slots (`dispatch`, `asked`, `handle`,
  `active`), its message queue (`posted`) and the deaths (`buried`, `pending`).
  `todo` is what its present handler has still to do: a menu click, a dead
  creature's pane or a broadcast puts in its sends, launches and flushes in the
  order of the code, and the actions `Launch`, `LaunchEnds`, `TellKit`,
  `FlushWords`, `ClearWords` take one off the front and may put others there. A
  message box is the entry "box": messages and timers are taken while it is
  at the front. One send is `Connect` or `GiveUp`, `Write`, `SendEnds`; `link`
  is the place in `send_to_kit`.
* **A kit's pipe thread** (`worker`) walks through `PipeKitServer::run`; each
  Win32 call is one step, and the flag is tested only where the code tests it.
* **A kit's main thread** (`main`) starts, may show a message box, opens its
  window, hears words from `inbox`, quits, and goes through `stop()` in the
  steps `Stop`, `Wake`, `Join`.

`server`, `client` and `buffer` are the slot's pipe: one instance, one word.
`received` and `told` are history variables. A kit's quit travels through
`PipeServer`'s pipe; here it is an element of `quits` that arrives later, also
after the kit has gone. "slow" in `Faults` lets the waits with a limit (one
second in a send, two in `stop()`) run out; without it they run out only when
nothing is left to wait for. The switches `LC_FIX(64)`, `(75)` and `(76)` are on,
as in the default build.

### 3.5 WorldTick

One thread, whose C++ stack of `update_world` calls is `frames`; a frame's `at` is
the place in `Document::update_world` and `index` the index of the creature walk.
`box` says that the innermost call waits in a message box, whose loop may take
the timer, the pause button, menu commands and kits that open and close.
`BeginUpdate` tests and sets the guard; `Fail` is the exception path, which gives
the guard back and tells the player. `PickCreature`, `BrainDone`, `Chemistry`,
`ActionDone` and `CohortDone` are the cohort's walk over `registry`; `Birth` and
`Death` happen wherever scripts run. `BeginAutosave` and its successors are
`Document::autosave` with its two broadcasts of the control state. `BeginFile`,
`EndFile` and `OpenWorld` are the file commands, `Pause` and `Play` the buttons, with the timer they
kill and arm. `belief` is what a kit makes of the broadcasts: it toggles.
`joined`, `updated` and `served` are history.

### 3.6 WorldFiles

`disk` gives each directory (`Main`, `TempBu`, `Backup`) its world file and its creature
sprites. A save or autosave puts its file operations in `todo`, in the order of
`Document::save`, `promote_temporary_world_backup` and
`refresh_temporary_world_backup`; each is one step, and `Crash` may come between
any two or leave the world file being copied cut short (`Write` and `Finish` are the two
halves of a write over the old file). `Reopen` opens the world if it is whole; restoring a
backup is the player's work and not modelled. `DiskFills` lets a write stop half way and the code
go on: see section 7.

### 3.7 Lift

`Place` and `Forget` are a button's birth and end, `Request` is
`CallButton::request_lift_call`, `Select` the selection in `Lift::tick` with its
cooldown, `Tick` a tick of travel and `Arrive` the arrival. The lift's own scripts, data
in the world file, are external: they give it a speed (`RunScript`) or hold it.
Positions are half pixels, because an 8.8 speed leaves a fraction.

### 3.8 CaosScript

A program is a sequence of commands; `frames` is the value stack, one frame for each
construct, of as many values as the construct pushes. The actions are the control commands of
`execute_interpreter`: `Enum`, `NextObject`, `Branch`, `Begin` and `Close` for loops and
subroutines, `Wait`, `Over`, `KillTarget`, `Instantiate`, `Stop`; `Crossed` is a closing command
that finds another construct's values on top, and `Turn` begins a turn.
`registry`, `removals` and `serial` are `WorldRuntime`'s list of objects and its
log of removals, by which `IndexAfter` moves a saved index; between turns objects
are killed, freed at a save, deleted and born, a world is loaded, and an event
starts the script anew. Conditions are left free. The scripts themselves are
constants of the run. `Word` is 2^32, the width in which `wait` counts down. `missed`, `waited`
and two fields of a frame are history.

### 3.9 SoundManager

`mixer` is the manager: each function of `sound.cpp` is an operator on it, and each
entry point (`sndc`, `sndl`, `snde`, `sndq`, `fade`, `stpc`, the update, mute, pause, focus, an
object's end, a world's end) an action. `playing` is DirectSound's side; a
one-shot buffer ends on its own. `loads` and `plays` say what the file and
DirectSound allow. `handle` and `wanted` are the object's channel number and sound, `Noisy` the
objects, `scheduled` the queue of `sndq`. The loops of the code that stop several channels,
make room in the cache, play what is due and update each channel are `Stopped`, `MadeRoom`,
`QueuePlayed` and `ChannelsUpdated`: a closed form where the order makes no difference,
a recursive function in the code's order where it does.

### 3.10 Carrying

`mode` and `ref` are the bounds mode and reference of whatever is carried, `queue`
the immediate events 4 and 5 that wait. Clicks, `grab`, `dpas`, `tele`, `mcrt`, death,
kill, delete, a save and a load are actions that come in any number between two
phases; the handlers (`HandTakesThing`, `NornTakesThing`, `NornBoards`,
`HandReturns`, ...) run when a phase drains the queue. `astray` is history: it is set by the six steps
after which the hand is never told (section 7), each named in the action that
sets it.

### 3.11 Biochemistry, Dendrites and Lobes

One call of these parts is a computation of one thread that nothing interrupts, so they
are operators and not state machines: `WorldTick`'s `Chemistry` and `BrainDone` are the steps in
which they happen. What can go wrong in them is arithmetic on bytes and choices among
bounded tables.

`Biochemistry` is `Biochemistry::update` on a body (`conc`, `loci`): `Emit`, `Receive`,
`React`, `Decay`, in the order of the code, each over its table (`Emitted`, `Received`, `Reacted`) in
`BiochemistryUpdate`; `LoadReaction`, `LoadReceptor` and `LoadEmitter` are the gene
loaders with their normalisation. A rate's bit mask is written as the tick's remainder.

`Dendrites` is one tick of a dendrite in the order of `update_late_phase` (`Sensitise`,
`Reinforce`, `Settle`, `Strengthen`, `Weaken`), the two ways a loose one finds a source (`AttachLoose`,
`Migrate`), and the neurons' activation and `WinnerTakesAll`. What an SVRule is worth
is a parameter there, any byte; `Lobes!EvaluateRule` says what it is. Draws of `rand` are
parameters, and so is the shuffled list a migration looks through. `Lobes` has the geometry (`Placed`), the wiring of
a new brain (`WiredTo`), the merge of the senses, the loose counts
and the walk of migration, dreams, and the sources the archive keeps. A dendrite whose
source pointer is null has source 0 (`NoSource` in `Lobes`).

The builds' fixes of rows 2, 4, 5, 6, 50, 51 and 82 of the list of native bugs are on. A
loose dendrite that the genome's gain rule strengthens again is attached to
its old source, which another may have taken meanwhile: the theorems therefore claim distinct
sources of attaching and migrating, not of a whole tick.

### 3.12 Genome

A genome is the sequence of its genes, a gene its header and data; the flags of a
gene are a set. `Copies` are the results of `copy_gene_with_mutation`, one for each
outcome of its draws. `Reads` is the test of `find_next_matching_gene`, and `Readers` are the
thirteen calls of it by the loaders of the brain, the chemistry and the body.
`Crossing` is the state of `recombine_genome_streams`, `Steps` what one turn of its
loops may make of it: `CopyNext`, or at the end of a run `CrossAt`, with `Duplicate` and
`Omit`. A crossing is one computation, so this too is no state machine; `RunLengths`
is the range of its draw of a run, 10 to 100 in the code.

Tags between genes are left out: a mutation that happens to write one of them, and a file
cut inside a gene, are not modelled. `OneReaderOfEach` and
`CrossingAligns` are about everything else a draw can do. Row 7 of the list of native
bugs (a mutated pigment extension) is fixed, as in the builds.

### 3.13 Breeding

`creature` is the registry: the own name, gamete and child of each
creature, the genes it was built from and those its child was conceived with (the last two are
history: the code has only the names). `egg` has each egg's `obv0` and the
genes meant for it, `file` what the genome file of each name holds, `exported` the
player's files. Genes are numbers, and a crossing makes a new one.

`Ovulates` and `Settles` are the life of a gamete in `update_environment_and_life_stage`;
`Conceives` and `Fruitless` are `process_insemination`, with the draw of
`generate_unique_genome_filename` (`Drawn`); `Grows` reads the file again. `LayEgg` is `setv baby 0` by the
laying script, `Hatch` is `new: crea`, `HatcheryEgg` is `new: gene` in the Hatchery's
script, `TestCreature` the Testing menu. `ExportCreature` and `ImportCreature` are
`export_current_creature` and `Creature::deserialize` with its two renamings
(`OwnNames`, `ChildNames`) and the gamete that follows them (`Renamed`);
`ExportEgg` and `ImportEgg` are those of eggs, whose look-up (`Taken`) sees more than
the others. An exported file may be copied, imported any number of times, or thrown away.

### 3.14 WorldSpace

The map is a ring of `WorldWidth` columns; a rectangle over the seam keeps its right edge beyond
the width, once round at most (`WorldRect`), and `Covers` is what that representation means. The operators have
the names of the functions they stand for: `WrappedRectsOverlap`,
`Intersected` (the first argument of `intersect_wrapped_world_rects`; nobody reads the second), `UnionOf`,
`PointerUnion`; `QueuedDirty` is the queue of a deferred drawing. A view is such a rectangle
(`Scrolled`, `OriginSet`, `OriginRequested`, `Glided`, `Followed`, `ToViewport`). Rooms are a sequence, and
`FirstLeast` is what their loops find (`NearestRoomBounds` with the repair of row 22, `FloorRoomBelow`);
`LetGoOf` and `FallAdvanced` are letting go above a floor and a tick of the fall, `Correction` the push of a creature
back into its room. They are calls of one thread, so there is no state machine.

## 4. What is checked

| Run | Shows | Bounds |
|---|---|---|
| `pipe` | a kit's answer is about its own command and true; the shared completion event never loses a wake-up; `stop()` leaves nothing queued or half run; no reply is thrown away unread; every call and `stop()` return; `KitRequests` is implemented | 2 kits, 2 commands, 2 failing creations |
| `events` | both rings wrap: order kept, the record a handler holds stands, the hand-kept count is right, no record names a freed object | 3 slots, 3 events, an object and a creature |
| `macro_scripts` | kill, death, sleep and pauses inside each other, and kits' macros between them: no macro used after it is freed or owned twice, each macro one turn in each walk, no held-back event stranded | 3 addresses, a creature, an object that kits may own and an indicator, 4 frames |
| `kit_safety` | the count of attached slots is right and no process is lost, however the slot is shut down; a send that returned true was read; the notice of an exited kit never ends a running one | 1 slot, 2 processes, all faults |
| `kit_live` | no reported death is lost but by a kit that ends; the UI thread comes back from every send; the slot of a kit that is gone is freed | 2 slots, 1 process, crashes, 2 deaths, room for 2 |
| `world_tick` | one update at a time; timer, toolbar and kits agree; no chemistry twice in an update; the world and every creature in it go on | 3 creatures, 2 cohorts, 1 kit, counters modulo 2, 1 failure |
| `world_files` | a whole world is always left somewhere; the backups stay older than the world and complete with their sprites | 2 norns, 3 saves, 2 crashes or failed writes |
| `lift_calls` | every call is answered, at its floor; a lit button is queued; the selected slot holds the target | 4 buttons, 3 slots and floors, 1.5 pixels a tick |
| `caos_script` | an enumeration visits each object that stays, once; no construct takes another's values; a wait lasts its ticks; a turn ends | 8 scripts, 3 objects, 9 values, a log of 4 removals, words of 5 |
| `sound` | counts by hand agree with channels and copies; no voice plays a released buffer; an object's channel is its own; a loop outlives mute, pause and focus | 2 objects, 2 sounds, 2 channels, a cache of 1 or 2 |
| `carrying` | the hand comes back when nothing hangs from it; nobody holds two things; no reference dangles; what a norn holds is taken only by what may take it | 2 norns, 2 things, 1 vehicle, 2 requests, 1 end |
| `breeding` | nobody's genome file is written over, a gamete is its bearer's, the unborn keep their genes, no mother bears her own name | 2 creatures, 1 egg, 3 names, 4 sets of genes, 1 dead, 1 exported file |

Before the run `carrying` TLC evaluates the assumptions of `MCWorldSpace`: all pairs of rectangles
on a ring of six columns, all queues of four, glides of up to 120 pixels, maps of two rooms.
Before the run `world_tick` TLC evaluates the assumptions of `MCBiochemistry` and
`MCLobes`, each one named and commented: reactions balance on boundary
concentrations, decay and weights come to rest, the last gene wins its locus, a whole
update keeps bytes; loose dendrites reattach, migration settles, one neuron wins,
every rule of three tokens is worth a byte, each loose neuron migrates within one
walk, senses merge without a gap, dreams end. Before `breeding` it evaluates those of
`MCGenome`: every byte's mutants, one loader for each pair of selectors, all crossings of homologous
parents of up to four genes, crossings of others cut off after eight steps. They cover what the theorems do not (a fold, a
whole walk), on bounded inputs: boundary bytes, lobes of up to three neurons.

`RecordsSound`, `MemorySound`, `SlotsSound`, `TickSound`, `FilesSound`, `LiftSound`,
`EnumSound`, `MixerSound`, `RidesSound` and `BreedingSound` are conjunctions of the named parts above
them in their modules, the type invariant among them; so are `WorldServes` and
`LiftServes`, of temporal formulas. TLC names the conjunction that fails and its state shows the
part.

`CHECK_DEADLOCK FALSE` in the kits' runs: a game that has been closed, and whose
kits have ended, does nothing more. In `world_files`: a
game whose world file was cut short by a crash cannot open it, and stops.

Why the bounds are enough. *Pipe*: a shared event goes wrong with one abandoned
command and one waited for, the second of them nested in the first's box; the
second kit writes while the first is served. *Events*: with three slots a ring is full at two
records, so three events wrap it and meet it empty, full and split across the
end. *Macros*: four frames hold a walk's macro, a script
started by its command, one started by that, and the UI thread; three addresses
let one be freed and used again while two others are on the stack. The list's
limit of 1000 is the constant `Limit`. *Kits*: `Procs` bounds the processes ever
started; with two, a slot is used again while the process before is still ending.
Where no death occurs the number of the Funeral Kit's
slot does not matter, so `kit_safety` gives it 0. The limit of 16 waiting words is
`MaxPending`. `kit_live` leaves out three faults: a
late or complaining Funeral Kit does lose a death, and one that cannot be started
is told of none. *World tick*: with three creatures and a stride of two one cohort
holds two and the other one, so a death or birth moves creatures between cohorts
and past the walk's index. `MaxNested` bounds the stack, which the guard holds to
one update. *Files*: a promotion needs an autosave after an autosave; the third save
meets the trouble of the second. *Lift*: three floors give a call on each side
of a travelling lift, the fourth button meets full tables. A speed of three half
pixels steps over a floor. *Scripts*: nine values are full after two enumerations
and a subroutine; a log of four removals holds all that three objects can come to, as the code's 1024 are
meant to (the theorem says when). A word of five makes `wait 0` the longest wait of the run. *Sound*:
two channels are both taken by one sound, the
second of them through a copy; a cache of one evicts at each new sound. *Carrying*: two requests are what it takes
for a second take to come between a take and the notice it causes; a handler's
own events are not bounded. *Breeding*: a clash needs two who want one name, in the
registry, in an egg or in a file; with three names a renamed one still has a
choice, and a fourth set of genes is crossed while three are held. The theorem has no
bounds.

## 5. Fairness

Safety properties are checked without fairness. `PipeServer!FairSpec` assumes
that the worker's thread runs (each of its steps that the code goes on to take
by itself), that the UI thread returns to its message loop (a user answers every
box), and that a kit that has begun a call finishes it unless it is killed. No
fairness is assumed of time-outs, of kits starting calls, of failures or of
anybody closing the game. A kit process that is suspended or sits in a dialog of
its own is therefore left out: see section 7. `TimerFires` is fair
because Windows posts WM_TIMER as long as the timer is set, and OnClose does
not kill it.

`KitSlots!FairSpec` assumes that the UI thread goes on with its handler and its
messages and that its boxes are answered (`Handler`), that a kit's pipe thread
runs while its process does, and that a process told to terminate ends. Nothing
is assumed of a kit's main thread: `SendReturns` holds because the pipe thread
never waits for it.

`WorldTick!FairSpec` assumes that the UI thread finishes the update it is in, that the timer
fires while it is set, that the player answers boxes and ends the dialog of a file command. The
update's steps have strong fairness, since a box may come up in them again and
again, each time answered. Whether a script fails, saves or opens a box is not
assumed.

`LiftSpec`'s fairness: the lift ticks and selects, its scripts run, and one that
holds the lift releases it. `LiftServes` speaks of behaviours in which calls and
buttons cease to come. `CaosFairSpec` assumes one thing, that the
interpreter goes on inside a turn, which no message can interrupt. `SoundManager`, `Carrying`,
`WorldFiles` and `Breeding` are checked for safety alone.

## 6. What is proved

Every theorem is about all values of the constants that the module's named assumptions allow, and
rests on nothing else unless it is said below.

`PipeServerProofs` proves, for every set of kits, every number of commands and
of creation failures, from `KitsAssumption` and `BoundsAssumption` alone:

* `TypeCorrect`: `Spec => []TypeOK`;
* `RepliesAreOwn`, `WakeupIsNeverLost`, `StopLeavesNothing`: the invariants of
  the run `pipe`;
* `RepliesAreFlushed`: its action property.

None of these is inductive by itself. The inductive invariant ties the places
together (`IInv`, a conjunction of named parts such as `PipeInv`, `QueueInv`,
`StackInv`, `NoLostWakeup` and `FlushInv`): which command the worker serves is the one its kit asked last; a
command is in the queue, on the stack or in neither exactly as its context says,
and at most once; an answer on its way in `response` or `outbox` is already true.
The lemmas prove it step by step, one named step per action; footprint lemmas
say which actions leave which part alone.

`Implements`, `Spec => Promise!Spec`, is the refinement of `KitRequests`: each action maps to one step
of it or to a stutter.

Its second half proves of `CaosScript`, what the pipe's commands and all scripts run in, for any
scripts, objects, stack and log, from `CaosScriptAssumption`:

* `WaitsLast`, the action property of the run `caos_script`, without a condition. Its invariant
  `WaitCounts` says that the ticks that are left and the turns that were spent add up to the count of the
  `wait` at the cursor, in unsigned words, which is why `wait 0` is the longest and why an event
  must reset the count.
* `EnumerationsVisitOnce`, without a condition, and `EnumerationsAreSound`, `CaosSpec /\ []LogReaches =>
  []EnumSound`: nothing that stays is passed by. `EnumOnce` says that what a frame has visited lies at or before
  the index it saved, and `EnumAll` that what it should visit and has not lies after it,
  where saved indices are first moved back for the removals since. `MovedIs` gives
  that fold over the log a function with a fact for each removal, so that a removal can be
  followed through it. The hypothesis `LogReaches` says that no enumeration under way has let more removals pass
  than the log holds; when one has, the code does not translate its index at all, and it may pass objects by (section 7).
  `FewObjectsAreVisited` shows that the hypothesis holds for ever in a world of no more than `LogLimit`
  objects: counted over the objects that are still to be born, the removals cannot be
  more (`FewInv`). The model's objects are not born a second time; a world that goes on
  breeding is the first theorem's.
* `ConstructsNeverCross`: in a script whose constructs are nested each closing command finds the values
  its own construct pushed. `ConstructsNest` says that the frames on the stack are just those constructs
  around the cursor that push values, from the outermost in, with those around each `gsub` under the frame of its call (`Fits`).
  The work is in the scans: `seek_next_command` and `scan_branch` look for an end by counting, and that this
  count finds the mate of the construct is an induction over the text between the two, made
  with the least place where it would fail.

`SequenceFilterProofs` proves what `Without(s, gone)`, the loop that compacts a ring, a list or a queue,
returns for sequences of any length: which elements stay, in what order, how many, and that it
commutes with appending. `Without` is a recursive function (the standard `SelectSeq` takes an operator and
no prover here can look into it); each lemma is an induction on the length, made with the
well-foundedness of the natural numbers instead of the library's induction rules. `ObjectEvents`,
`MacroScheduler`, `Carrying`, `CaosScript` and `SoundManager` use it. The module also holds the lemmas
that give a recursive function its values step by step (`FoldExists`, `NumbersAre`), on which the proofs about
the log, the cache and the queue rest.

`ObjectEventsProofs` proves, for all objects, delays and capacities:

* `RecordsAreSound` and `NothingDangles`, the invariants of the run `events`. The inductive invariant
  (`EventsInv`) says that the read and write positions of each ring enclose only
  records, the count is the number of active slots and serial numbers occur once in the table,
  the record a handler holds by reference lies just before the ring, so that nothing queued meanwhile
  overwrites it, and both objects of whatever will be read exist;
* `OrderIsKept`, the refinement of `EventQueues`: every action is one of its steps or a
  stutter, a cancel and a purge included, which compact a ring in place.

Its second half proves of `SoundManager`, for any objects, sounds, channels, capacities and fades, from
`SoundAssumption`, the three properties of the run `sound`: `MixerIsSound`, `ChannelsAreOwn` and `LoopsSurvive`.
`SoundSafe` is inductive:

* `MixerOK`: the counts by hand are those of channels and copies (`Tallied`), the live buffers are the
  voices of the channels and the entries of the cache, and whatever a channel plays is in the
  cache (`Voiced`), so that nothing evicted is still heard;
* `Claimed`: a channel that is held has an object that remembers its number, without which nobody could stop it;
* nothing is on while the window has lost the focus;
* where the cache has room for all sounds (`Roomy`): a held channel does not fade, a loop plays on as one through a buffer
  that no other object's channel shares (`Tidy`), and the number an object remembers is that of a held
  channel with its own sound (`Owned`). `Roomy` is not an assumption but the condition that `OwnChannel` and
  `LoopSurvives` themselves state: in a smaller cache they are false (section 7).

`MixerOK` is first proved of each function of the manager and then of their sequences (an update plays
what is due, then updates every channel); `Carries` is what each function keeps of the mixer it is given: it makes
no new held sound, and in a roomy cache it leaves held channels as they were. So the action of an entry point needs
only what the last function does to the caller's own channel.

`MacroSchedulerProofs` proves `NothingInUseIsFreed`, `OneTurnEach`, `PurgedMacrosStop` and `HeldEventsHaveATurn`, the
invariants of the run `macro_scripts`. `MacroInv` says which macros are listed, executing and owned, by whom and once each
(`Owned`, `Listed`); what each frame of the interpreter still has to do and which macro it may still touch
(`Frames`, `Cleared`, `Bottom`); and where the walk stands among those that have had their turn (`Walked`).
The last theorem needs a second invariant on top of it, `EventInv`. An event that is held back has a paused script of its owner in
the list, or a frame of the stack has still to apply or to forget it (`HeldBack`). A script leaves the list only under its
own turn, after which the walk applies the event, or in a purge, which forgets it. Three facts make that hold at every step: a
frame purges at once after the turns it gives (`InOrder`); whom a frame is about to load with an event has no script and no event held
back, or a purge forgets it first (`EventNext`); and where a turn is still owed before a purge, to whichever macro now has that
address, the event held back for that macro's owner will be settled by another step (`TurnsSettle`).
The hypothesis `KitsApart`, that no kit's macro acts on a creature, is needed: without it `MemorySound` is false
(section 7).

`KitSlotsProofs` proves, for all slots, processes, faults and deaths, `SlotsAreSound` (the invariant of the run
`kit_safety`), `NoticesSpareTheLiving` and `SentWordsAreReceived` (its action properties). `KitInv` ties what the game
believes of each slot to its process, to the notices that are posted and to what the current handler still has to
do; `PipeInv` ties a word on its way to the instance of the kit it was written to.

`DeathsAreKept` is the invariant of the run `kit_live`, under `NothingHinders`: kits may crash, but are not slow, do not
complain and can be started, and the document has room for every death. Without one of these a death can be lost (section
7). What makes `DeathKept` inductive is `DeathInv`. The words of a flush are sent one after the other and cleared only
then (`Uninterrupted`, `ClearedIsSent`), although they are cleared whatever became of their sends. What waits in a
kit's window is known to have been sent, or its send is the current one (`InboxTold`), so that when the kit goes, its loss is
one that `DeathKept` excepts. A pipe that a gone process leaves behind can take only the `YOUR_ID_IS` of the
next one (`StaleForId`); hence a death always goes to the process that the slot holds, which reads it unless it is ending (`SendReaches`).

`WorldTickProofs` proves `TickIsSound` and `OneChemistryEach`, the properties of the run `world_tick`, and
`KitsKeepTheirBelief`. `TickInv`: the guard is set exactly while an update is on the stack, of which there is one;
a kit's belief differs from the world's pause by the toggles still to come; no creature that was visited
stands before the walk's index. `TickIsSound` supposes a player who does neither of the two things of `Hands`
(section 7). It also proves, for any number of saves, crashes and failed writes of `WorldFiles`, `BackupsAreSound` without a
condition and `AWholeWorldIsLeft` under `~DiskFills`. `FilesInv` says that `todo` is the rest of one of the
code's lists of file operations (`Planned`), that the directories hold generations in order (`Generations`),
that a directory that is being emptied or filled is never the only whole one (`Wholes`), and whose sprites are there (`Sprites`).

`MotionProofs` proves of `Lift`, for any floors, buttons, speed and table sizes: `LightsAndCallsAgree` without a condition;
`LiftIsSound` and `LightsGoOutAtTheirFloor` under `Careful`, that buttons are placed and removed only while the lift is idle
(section 7). `LiftInv`: calls lie in the first slots without a gap and at floors of the table; the selected slot
holds the call the lift travels to; the cabin is on the way to it and not past it. Of `Carrying`, for any norns, things and vehicles:
`NobodyDangles`, `LateDropsAreIgnored` and `HandComesBack`. `RidesInv` adds to the first property that every event
that waits names only who exists, and that of two things one norn holds the drop of one waits (`Surplus`), which
is why a norn ends with one thing however many takes were under way. `HandInv` says of a hand not led astray
what makes it come back: behind every notice that hides it for something it no longer carries waits one that shows it,
behind every one that shows it waits the notice of what hangs from it, and nothing that was killed is about to be picked
up (`Follows`, `Parked`). What hangs on over a vehicle is the exception: there the vehicle's event waits.

`CreatureProofs` proves of chemistry and brain, for every byte, rule, gene, draw and
tick and with no assumption:

* `ReactionBalances`, `DueReactionHappens`, `DecayRunsOut`: a reaction takes what
  it needs for the times it happens, never more than there is, also when its four
  slots name one chemical; rounding starves no reaction that is due; what decays runs out;
* `LoadedReactionsAreLegal`, `ReceptorsDoNotCompete`, `EmittersDoNotCompete`: what
  genes load never makes an update divide by zero, and no two records write one locus or
  feed one chemical from one locus;
* `UpdatesKeepBytes`: a whole update, with tables of any length, keeps every concentration and locus a byte;
* `RulesAreWorthBytes`: so is what any rule is worth, of whatever tokens a genome has, which is what the
  theorems about a tick suppose of it. `RuleValues` turns the recursion from the last token to the first into a fold;
* `RangesAreOrdered`, `CountInRange`, `WiringStaysInLobe`, `LobesFitExtendedGrid`,
  `SourcesSurviveArchive`: ranges, counts, sources and places stay where arrays and bytes hold them;
* `WeightsConverge`, `ReinforcementNeverWeakens`, `LooseIsForgotten`: what a tick
  may do to a dendrite, whatever bytes the genome's rules give;
* `AttachKeepsSourcesDistinct`, `MigrationKeepsSourcesDistinct`, `NoLooseNeuronIsPassed`,
  `OneWinner`: dendrites of one neuron stay apart, migration passes no neuron by, one neuron fires.

of `Genome`, from `RunLengthsAssumption` alone:

* `CopyKeeps`: a copy keeps a gene's identity, generation, flags and length, and a pigment
  extension's tag; `OneReaderOfEach`: mutations or not, one loader reads it;
* `CrossingAligns`: the child of parents with the same genes has them in order, and
  is as long as they are but for counted duplications and omissions. The
  invariant (`Sound`) says that both parents keep their list of identities and that
  the child's genes stand in the order of that list and not past the cursor of the parent read from; it holds
  at a swap because the other cursor has been moved to the same identity. That it holds at the start and that
  every step keeps it is what is proved; that it then holds at the end is induction over the steps.

and of `Breeding` `BreedingIsSound`, `Spec => []BreedingSound`, for any
creatures, eggs, names and bounds from `NobodyAssumption` alone. The
inductive invariant (`IInv`) adds to the property that whoever is in the world has a name of
`Names`. The hard step is an import: two names may be given and two files written at once.
`WriteCreatures` and `WriteEggs` say what a written file does to all who are named, and are used once for
each of the two; `OwnNameIsFree` and `ChildNameIsFree` say that neither is another's own name.

`MotionProofs` proves of `WorldSpace`, from `SpaceAssumption`, for a world of any size:

* `OverlapIsCommonPoint`, `IntersectedIsInside`, `IntersectedKeepsCommon`, `UnionCoversBoth`: the comparisons
  are about points of the ring, nothing is drawn beside the view, and nothing in it is lost by cutting
  (outside `MeetTwice`) or merging; `QueueForgetsNoPoint`: nor by the queue;
* `ScrolledStaysInWorld`, `PlacedInView`, `StepsAreForward`, `FollowingIsGentle`: where the view may be and how it moves;
* `RoomIsAlwaysFound`, `FallEndsOnFloor`, `CorrectionCentres`: nothing is without a floor, falls through one
  or is left outside its room. `FirstLeastExists`, from the library's well-foundedness of the natural numbers, says that the loops
  over rooms find one.

TLC alone:

* liveness (`CallReturns`, `StopReturns`, `SendReturns`, `GoneKitIsFreed`, `WorldServes`, `LiftServes`, `TurnsEnd`):
  the prover has no reasoning about ENABLED, hence none about fairness;
* what a whole walk of migration, a whole crossing or the merge of the senses computes. The theorems about dendrites,
  copies and space are about one application of an operator, or one step of a walk. What goes on over a list there is
  a fold of the library or is followed by a recursive operator of an MC module, into which no prover here can look;
  what is a recursive function in these modules (`Without`, the log, the cache, the queue, an update of
  the chemistry, a rule) is proved about.

`PROJECT.json` lists the sixty theorems a reader should know of; a few that are named above
(`DecayRunsOut`, `EmittersDoNotCompete`, `ReinforcementNeverWeakens`, `RangesAreOrdered`, `CountInRange`,
`IntersectedIsInside`, `ScrolledStaysInWorld`, `PlacedInView`, `StepsAreForward`, `FollowingIsGentle`, `CorrectionCentres`) are proved like the others and not listed there.

## 7. What is not modelled, and what the models leave open

Each component left out is in `PROJECT.json` with its reason. Painting, menus
and the kits' forms are I/O around one call. The brain recorder is a long
single-threaded computation over a stream, in which order plays no part. Inside the modelled parts: the COM route to
the kits (the pipe route is the one the code uses under Wine), the registration
and the menu of tools, the second way slot 2 is launched; the text of
commands and replies, the handle tables of the holders (a stale handle is
answered by an error before anything changes), log output, volume and pan, the
archive's format, poses and velocities, and the original
game's behaviour behind the `LC_FIX` switches, which is modelled only as
mutants.

The runs keep to what the properties hold of. Modelling met the following cases
outside them, each excluded by a constant, a fairness assumption or a named
exception:

* `PipeServer::stop` restarts its ten seconds with every window message
  (`pipe_server.cpp:217`), so the update timer keeps it waiting for a worker that
  is flushing to a kit that does not read. The run's kits finish their calls.
* A macro whose script kills its owner is marked for deletion by the purge, but
  the interpreter returns before the test that deletes it (`macro.cpp:4759`).
* A kit's macro whose command makes its owner die is loaded with the death
  script, which may delete the macro under the command's own frame. The kits of
  `macro_scripts` own no creature.
* An event held back because a kit's macro of that owner is paused waits until some
  script of the owner has a turn again, if the kit destroys the macro.
  `DeferredHasTurn` excepts the object that kits own.
* The words that wait for the Funeral Kit are cleared after a flush whose sends
  all failed, because a crashed kit's slot still counts as connected
  (`funeral_kit.cpp:23`). `DeathKept` excepts the kit that ends.
  They are cleared as well when the kit lives but is too slow for its send, or could not be
  started; a kit that shows a message box as it opens answers a word and forgets it; and a death reported
  to a full document is not kept at all. The run and the theorem of `DeathKept` exclude these four.
* Opening a world while the game is paused arms the timer and leaves the pause
  latch set; a kit opened while the game is paused believes that it runs
  (`joined`); a single step of the debug menu runs outside the update's `try`.
* A DDE conversation is not told when its macro is gone. One whose script runs past its end
  without `endm` deletes itself (`macro.cpp:4719`), and closing the world deletes them all;
  the conversation keeps the pointer and its next transaction uses it (`dde.cpp:195`).
  `MacroScheduler` stops following such a conversation.
* A rectangle that meets the view on both sides of the seam is drawn on one only
  (`SecondPieceIsLost`). The union of a creature's old and new bounds (`skeleton.cpp:1328`) is that wide when a
  move jumps over the seam without touching it; the comment at `simple_object.cpp:54` knows of such unions.
* A smooth scroll asked for a place above or below the world never ends: what the edge takes from a step stays
  to be done (`rendering.cpp:945`), and while it is, the creature is not followed (`GlideAboveNeverEnds`).
* A save that stops half way (`DiskFills`) is taken for a success, and the cut
  world is copied over both backups. MFC writes beside the old file where it can,
  and then the failure does no harm.
* While calls at near floors go on, a far one waits for ever. A button removed
  while the lift travels to it takes with it a call that has since come to its slot
  (`lift.cpp:195`), and one placed meanwhile turns the lift's target (`Careful`).
* The serials of an enumeration are not archived: one that a save and a load
  interrupt may skip objects. So may one that waits while more objects are removed than the log remembers, 1024:
  its index is then not moved at all (`LogReaches`). `over` after `inst` in one turn never ends it.
* In a cache too small for all sounds, an object's channel number may outlive the
  sound and reach a stranger's (`OwnChannel` supposes room for all). An attenuation
  of -9986 or less makes the step of a fade zero, and such a fade does not end. A
  killed object's loop goes on until the save.
* Six steps leave the hand hidden, or shown with something in it: `kill` of what a
  waiting event will put in the hand, or whose notice still waits; `dpas` when the
  carried norn has just come off, or was just let go over the vehicle; `mcrt` of
  the carried object; a norn taken up together with something else. `HandFree`
  excepts behaviours in which one has been taken. Scripts that send events 4 and 5 by
  hand, and the export of a creature, are left out.
* The draws of a conception, of `new: gene` and of a creature's import look at the creatures and
  not at the eggs, although the comment at `windows_macro_host.cpp:1715` takes eggs for creatures
  of that registry; `windows_egg_transfer.cpp:74` does look. An egg whose name is drawn,
  and an egg or unborn child whose name an import brings, gets the writer's
  genes. `UnbornKept` excepts them: `Overwritten` and `Supplanted` give them the new genes.
* Files of older saves beside genome files that were written since, the Hatchery's colouring of
  a crossed file, an export that fails (the creature stays), and a death between two
  steps of an import are left out of `Breeding`.
