----------------------------- MODULE ObjectEvents -----------------------------
(***************************************************************************)
(* The event scheduler of the world (objects/events.cpp) and what other    *)
(* code does to it: a ring of immediate events, a table of delayed ones    *)
(* and a ring of creature stimuli, each with Capacity records that hold    *)
(* raw pointers to objects.  A phase of the world tick processes them.     *)
(* The handler of an event may run the first turn of a script, and a       *)
(* script may queue and cancel events and kill or delete any object, the   *)
(* event's own source and target included.                                 *)
(*                                                                         *)
(* The argument of an event is a serial number here, so that every event   *)
(* is told apart.  A creature and its skeleton object are one object.      *)
(***************************************************************************)
EXTENDS Naturals, Sequences, FiniteSets, SequencesExt, SequenceFilter

CONSTANTS Objects,    \* addresses an object may have
          Creatures,  \* those of creatures
          Nobody,     \* the null pointer
          Capacity,   \* kObjectEventQueueCapacity
          Privileged, \* privilege_level() > 1: a save resets the world tick
          Delays,     \* delays a producer asks for
          MaxTick,    \* bound: the world tick
          MaxEvents   \* bound: events and stimuli queued in all

ASSUME ObjectsAssumption == Creatures \subseteq Objects /\ Nobody \notin Objects
ASSUME SizesAssumption == /\ Capacity \in Nat \ {0, 1}
                          /\ MaxTick \in Nat /\ MaxEvents \in Nat
                          /\ Delays \subseteq Nat \ {0}
                          /\ Privileged \in BOOLEAN

Slots == 0 .. Capacity - 1
EventIds == {"event_4", "other"}   \* the kind `dpas` cancels, and the rest
Event == [source : Objects \cup {Nobody}, target : Objects \cup {Nobody},
          event_id : EventIds, argument : 0..MaxEvents]
NoEvent == [source |-> Nobody, target |-> Nobody, event_id |-> "other",
            argument |-> 0]
FreeSlot == [event |-> NoEvent, due_world_tick |-> 0]

VARIABLES
  immediate_events, immediate_read, immediate_write,
  delayed_events, delayed_event_count,
  creature_stimuli, stimulus_read, stimulus_write,
  phase,       \* where process_queued_events is
  handled,     \* the event its handler was given, and the slot it refers to
  world_tick,
  objects,     \* the objects that have not been deleted
  ticking,     \* those with tick_enabled
  queued       \* events queued so far

immediateVars == <<immediate_events, immediate_read, immediate_write>>
delayedVars   == <<delayed_events, delayed_event_count>>
stimulusVars  == <<creature_stimuli, stimulus_read, stimulus_write>>
phaseVars     == <<phase, handled>>
worldVars     == <<world_tick, objects, ticking>>
vars == <<immediateVars, delayedVars, stimulusVars, phaseVars, worldVars, queued>>

Nothing == [event |-> NoEvent, slot |-> 0, queue |-> "none"]

TypeOK ==
  /\ immediate_events \in [Slots -> Event]
  /\ immediate_read \in Slots /\ immediate_write \in Slots
  /\ delayed_events \in [Slots -> [event : Event, due_world_tick : 0..MaxTick]]
  /\ delayed_event_count \in 0..Capacity
  /\ creature_stimuli \in [Slots -> Event]
  /\ stimulus_read \in Slots /\ stimulus_write \in Slots
  /\ phase \in {"idle", "next", "handling"}
  /\ handled \in [event : Event, slot : Slots,
                  queue : {"none", "immediate", "delayed"}]
  /\ world_tick \in 0..MaxTick
  /\ objects \subseteq Objects /\ ticking \subseteq objects
  /\ queued \in 0..MaxEvents

Init ==
  /\ immediate_events = [i \in Slots |-> NoEvent]
  /\ immediate_read = 0 /\ immediate_write = 0
  /\ delayed_events = [i \in Slots |-> FreeSlot] /\ delayed_event_count = 0
  /\ creature_stimuli = [i \in Slots |-> NoEvent]
  /\ stimulus_read = 0 /\ stimulus_write = 0
  /\ phase = "idle" /\ handled = Nothing
  /\ world_tick = 0
  /\ objects = Objects /\ ticking = Objects
  /\ queued = 0

-------------------------------------------------------------------------------
(* Rings and the delayed table *)

Following(i) == (i + 1) % Capacity

\* immediate_event_count, queued_stimulus_count.
RingCount(read, write) ==
  IF write >= read THEN write - read ELSE Capacity - read + write

\* The records from read up to write, in order.
Live(ring, read, write) ==
  [i \in 1 .. RingCount(read, write) |-> ring[(read + i - 1) % Capacity]]

\* The ring after the kept records have been stored from read on.
Compacted(ring, read, kept) ==
  [i \in Slots |->
     LET place == ((i + Capacity - read) % Capacity) + 1
     IN  IF place <= Len(kept) THEN kept[place] ELSE ring[i]]

Immediate == Live(immediate_events, immediate_read, immediate_write)
Stimuli == Live(creature_stimuli, stimulus_read, stimulus_write)

Active(i) == delayed_events[i].due_world_tick # 0
ActiveSlots == {i \in Slots : Active(i)}

\* How many active slots the scan of take_due_delayed_event has passed.
ActiveBefore(i) == Cardinality({j \in ActiveSlots : j < i})

\* The slots the scan can return.
DueSlots == {i \in ActiveSlots : /\ delayed_events[i].due_world_tick <= world_tick
                                 /\ ActiveBefore(i) < delayed_event_count}

\* Mutant: the source is forgotten.
NamesTarget(event, o) == event.target = o

Names(event, o) == event.source = o \/ event.target = o

-------------------------------------------------------------------------------
(* Producers: any code of the UI thread, the handler of an event included. *)

NewEvent(source, target, id) ==
  [source |-> source, target |-> target, event_id |-> id,
   argument |-> queued + 1]

Counted == queued < MaxEvents /\ queued' = queued + 1

\* A full ring drops the event.
QueueImmediate(source, target, id) ==
  /\ Counted
  /\ IF Following(immediate_write) = immediate_read
       THEN UNCHANGED immediateVars
       ELSE /\ immediate_events' = [immediate_events EXCEPT
                  ![immediate_write] = NewEvent(source, target, id)]
            /\ immediate_write' = Following(immediate_write)
            /\ UNCHANGED immediate_read
  /\ UNCHANGED <<delayedVars, stimulusVars, phaseVars, worldVars>>

FirstFree == CHOOSE i \in Slots \ ActiveSlots : \A j \in Slots \ ActiveSlots : i <= j

\* A full table drops the event, and so does one whose count says it is full.
QueueDelayed(source, target, delay) ==
  /\ world_tick + delay <= MaxTick
  /\ Counted
  /\ IF delayed_event_count = Capacity \/ ActiveSlots = Slots
       THEN UNCHANGED delayedVars
       ELSE /\ delayed_events' = [delayed_events EXCEPT ![FirstFree] =
                  [event |-> NewEvent(source, target, "other"),
                   due_world_tick |-> world_tick + delay]]
            /\ delayed_event_count' = delayed_event_count + 1
  /\ UNCHANGED <<immediateVars, stimulusVars, phaseVars, worldVars>>

QueueStimulus(source, creature) ==
  /\ Counted
  /\ IF Following(stimulus_write) = stimulus_read
       THEN UNCHANGED stimulusVars
       ELSE /\ creature_stimuli' = [creature_stimuli EXCEPT
                  ![stimulus_write] = NewEvent(source, creature, "other")]
            /\ stimulus_write' = Following(stimulus_write)
            /\ UNCHANGED stimulus_read
  /\ UNCHANGED <<immediateVars, delayedVars, phaseVars, worldVars>>

\* Mutant: every event of the source is taken back.
CancelAllFrom(source) ==
  LET kept == Without(Immediate, {event \in ToSet(Immediate) : event.source = source})
  IN  /\ immediate_events' = Compacted(immediate_events, immediate_read, kept)
      /\ immediate_write' = (immediate_read + Len(kept)) % Capacity
      /\ UNCHANGED <<immediate_read, delayedVars, stimulusVars, phaseVars,
                     worldVars, queued>>

\* `dpas` takes back the pickups that the vehicle has queued.
CancelImmediateFrom(source) ==
  LET kept == Without(Immediate, {event \in ToSet(Immediate) :
                 event.source = source /\ event.event_id = "event_4"})
  IN  /\ immediate_events' = Compacted(immediate_events, immediate_read, kept)
      /\ immediate_write' = (immediate_read + Len(kept)) % Capacity
      /\ UNCHANGED <<immediate_read, delayedVars, stimulusVars, phaseVars,
                     worldVars, queued>>

-------------------------------------------------------------------------------
(* Objects come and go. *)

Create(o) ==
  /\ o \notin objects
  /\ objects' = objects \cup {o} /\ ticking' = ticking \cup {o}
  /\ UNCHANGED <<immediateVars, delayedVars, stimulusVars, phaseVars,
                 world_tick, queued>>

\* `kill` parks an object: its events stay and are passed over.
Kill(o) ==
  /\ o \in ticking \ Creatures
  /\ ticking' = ticking \ {o}
  /\ UNCHANGED <<immediateVars, delayedVars, stimulusVars, phaseVars,
                 world_tick, objects, queued>>

PurgeImmediate(o) ==
  LET kept == Without(Immediate, {event \in ToSet(Immediate) : Names(event, o)})
  IN  /\ immediate_events' = Compacted(immediate_events, immediate_read, kept)
      /\ immediate_write' = (immediate_read + Len(kept)) % Capacity
      /\ UNCHANGED immediate_read

\* Mutant: the count is left alone.
PurgeDelayedUncounted(o) ==
  /\ delayed_events' = [i \in Slots |->
        IF i \in ActiveSlots /\ Names(delayed_events[i].event, o)
          THEN [delayed_events[i] EXCEPT !.due_world_tick = 0]
          ELSE delayed_events[i]]
  /\ UNCHANGED delayed_event_count

PurgeDelayed(o) ==
  LET purged == {i \in ActiveSlots : Names(delayed_events[i].event, o)}
  IN  /\ delayed_events' = [i \in Slots |->
            IF i \in purged
              THEN [delayed_events[i] EXCEPT !.due_world_tick = 0]
              ELSE delayed_events[i]]
      /\ delayed_event_count' = delayed_event_count - Cardinality(purged)

PurgeStimuli(o) ==
  LET kept == Without(Stimuli, {stimulus \in ToSet(Stimuli) : Names(stimulus, o)})
  IN  /\ creature_stimuli' = Compacted(creature_stimuli, stimulus_read, kept)
      /\ stimulus_write' = (stimulus_read + Len(kept)) % Capacity
      /\ UNCHANGED stimulus_read

\* delete_object_and_purge_runtime_references: `kill` of a creature, an export,
\* a dead body removed.
Delete(o) ==
  /\ o \in objects
  /\ PurgeImmediate(o) /\ PurgeDelayed(o) /\ PurgeStimuli(o)
  /\ objects' = objects \ {o} /\ ticking' = ticking \ {o}
  /\ UNCHANGED <<phaseVars, world_tick, queued>>

\* delayed_event_at(i) for i below delayed_event_count: the first active slots;
\* it finds none when the count is too large.
Inspected == {i \in ActiveSlots : ActiveBefore(i) < delayed_event_count}

\* The part of can_be_destroyed that asks the queues.
CanBeDestroyed(o) ==
  /\ \A i \in DOMAIN Immediate : ~Names(Immediate[i], o)
  /\ delayed_event_count <= Cardinality(ActiveSlots)
  /\ \A i \in Inspected : ~Names(delayed_events[i].event, o)
  /\ \A i \in DOMAIN Stimuli : ~Names(Stimuli[i], o)

\* Saving the world deletes killed objects that nothing refers to.  A save
\* comes from a menu or the autosave, never from inside a handler; fields,
\* macros and deferred scripts outside this module may keep any of them.  A
\* privileged save resets the tick, which update_world undoes after an autosave.
Save(freed) ==
  /\ phase = "idle"
  /\ freed \subseteq objects \ ticking
  /\ \A o \in freed : CanBeDestroyed(o)
  /\ objects' = objects \ freed
  /\ world_tick' \in IF Privileged THEN {0, world_tick} ELSE {world_tick}
  /\ UNCHANGED <<immediateVars, delayedVars, stimulusVars, phaseVars, ticking,
                 queued>>

\* delete_contents empties everything before another world is opened, and the
\* load brings its own tick.
NewWorld ==
  /\ phase = "idle"
  /\ immediate_events' = [i \in Slots |-> NoEvent]
  /\ immediate_read' = 0 /\ immediate_write' = 0
  /\ delayed_events' = [i \in Slots |-> FreeSlot] /\ delayed_event_count' = 0
  /\ creature_stimuli' = [i \in Slots |-> NoEvent]
  /\ stimulus_read' = 0 /\ stimulus_write' = 0
  /\ objects' = Objects /\ ticking' = Objects /\ world_tick' \in 0..MaxTick
  /\ UNCHANGED <<phaseVars, queued>>

-------------------------------------------------------------------------------
(* process_queued_events, at phases 0, 4, 8 and 12 of the world tick *)

StartPhase ==
  /\ phase = "idle"
  /\ phase' = "next"
  /\ UNCHANGED <<immediateVars, delayedVars, stimulusVars, handled, worldVars,
                 queued>>

\* dispatch_object_event: the target's handler gets the event by reference.
Dispatch(event, slot, queue) ==
  IF event.target \in ticking
    THEN /\ phase' = "handling"
         /\ handled' = [event |-> event, slot |-> slot, queue |-> queue]
    ELSE UNCHANGED phaseVars

TakeImmediate ==
  /\ phase = "next" /\ immediate_read # immediate_write
  /\ immediate_read' = Following(immediate_read)
  /\ Dispatch(immediate_events[immediate_read], immediate_read, "immediate")
  /\ UNCHANGED <<immediate_events, immediate_write, delayedVars, stimulusVars,
                 worldVars, queued>>

TakeDelayed ==
  /\ phase = "next" /\ immediate_read = immediate_write
  /\ DueSlots # {}
  /\ LET slot == CHOOSE i \in DueSlots : \A j \in DueSlots : i <= j
     IN  /\ delayed_events' = [delayed_events EXCEPT ![slot].due_world_tick = 0]
         /\ delayed_event_count' = delayed_event_count - 1
         /\ Dispatch(delayed_events[slot].event, slot, "delayed")
  /\ UNCHANGED <<immediateVars, stimulusVars, worldVars, queued>>

HandlerReturns ==
  /\ phase = "handling"
  /\ phase' = "next" /\ handled' = Nothing
  /\ UNCHANGED <<immediateVars, delayedVars, stimulusVars, worldVars, queued>>

\* apply_stimulus touches the creature's brain and chemistry only.
DrainStimuli ==
  /\ phase = "next" /\ immediate_read = immediate_write /\ DueSlots = {}
  /\ stimulus_read' = stimulus_write
  /\ phase' = "idle"
  /\ UNCHANGED <<immediateVars, delayedVars, creature_stimuli, stimulus_write,
                 handled, worldVars, queued>>

Tick ==
  /\ phase = "idle" /\ world_tick < MaxTick
  /\ world_tick' = world_tick + 1
  /\ UNCHANGED <<immediateVars, delayedVars, stimulusVars, phaseVars, objects,
                 ticking, queued>>

-------------------------------------------------------------------------------
Produce ==
  \E source \in objects :
    \/ \E target \in objects :
         \/ \E id \in EventIds : QueueImmediate(source, target, id)
         \/ \E delay \in Delays : QueueDelayed(source, target, delay)
    \/ \E creature \in objects \cap Creatures : QueueStimulus(source, creature)
    \/ CancelImmediateFrom(source)

Lifetimes ==
  \/ \E o \in Objects : Create(o) \/ Kill(o) \/ Delete(o)
  \/ \E freed \in SUBSET objects : Save(freed)
  \/ NewWorld

Process == \/ StartPhase \/ TakeImmediate \/ TakeDelayed \/ HandlerReturns
           \/ DrainStimuli

Next == Produce \/ Lifetimes \/ Process \/ Tick
Spec == Init /\ [][Next]_vars
-------------------------------------------------------------------------------
(* Properties *)

\* delayed_event_count is kept apart from the marks in the slots it counts by
\* the producer, the scan and the purge; the scan and can_be_destroyed stop at
\* it, so a count too small hides events and one too large stops every save
\* from freeing anything.
CountIsActive == delayed_event_count = Cardinality(ActiveSlots)

\* No record that will still be read points to a deleted object, whether it
\* was deleted outright or freed by a save (purge_object_references and
\* can_be_destroyed together).
NoDanglingRecord ==
  \A event \in {Immediate[i] : i \in DOMAIN Immediate}
              \cup {Stimuli[i] : i \in DOMAIN Stimuli}
              \cup {delayed_events[i].event : i \in ActiveSlots} :
    {event.source, event.target} \subseteq objects

\* A handler holds its event by reference into the ring: whatever the handler
\* queues, cancels or deletes, the record it holds stays as it was.
HeldEventStands ==
  handled.queue = "immediate" => immediate_events[handled.slot] = handled.event

\* The rings, the table and its count implement EventQueues: order is kept by
\* every cancel and purge, nothing is lost, doubled, early or passed over.
Queues == INSTANCE EventQueues WITH
  Room <- Capacity - 1, DelayRoom <- Capacity, None <- NoEvent,
  Arguments <- 1..MaxEvents,
  immediate <- Immediate, stimuli <- Stimuli,
  delayed <- {delayed_events[i] : i \in ActiveSlots},
  handling <- handled.event, working <- phase # "idle",
  tick <- world_tick, live <- objects
KeepsOrder == Queues!Spec

\* What every reader of the queues relies on: positions inside the rings, a count
\* of delayed events that is right, and held records that stand.
RecordsSound == TypeOK /\ CountIsActive /\ HeldEventStands
=============================================================================
