------------------------------ MODULE EventQueues ------------------------------
(***************************************************************************)
(* What the event scheduler of the world promises, without rings, slots or *)
(* counters.  Immediate events are handled one at a time in the order they *)
(* were queued; a delayed one waits until it is due and no immediate one   *)
(* is left; stimuli go when nothing else is.  An event is dropped only     *)
(* when its queue is full, taken back, or names a deleted object, and one  *)
(* that reaches a parked target is passed over.                            *)
(***************************************************************************)
EXTENDS Naturals, Sequences, FiniteSets, SequencesExt, SequenceFilter

CONSTANTS Room,      \* immediate events, or stimuli, that can wait
          DelayRoom, \* delayed events that can wait
          EventIds, Arguments,
          None       \* no event is being handled

VARIABLES immediate,  \* a sequence of events
          delayed,    \* a set of [event, due_world_tick] records
          stimuli,    \* a sequence of events
          handling,   \* the event whose handler runs
          working,    \* a phase is under way
          tick, live, ticking

queues == <<immediate, delayed, stimuli>>
vars == <<queues, handling, working, tick, live, ticking>>

Init == /\ immediate = <<>> /\ delayed = {} /\ stimuli = <<>>
        /\ handling = None /\ working = FALSE
        /\ tick = 0 /\ ticking = live

Event == [source : live, target : live, event_id : EventIds,
          argument : Arguments]

Queue == /\ Len(immediate) < Room
         /\ UNCHANGED <<delayed, stimuli, handling, working, tick, live, ticking>>
         /\ \E e \in Event : immediate' = Append(immediate, e)

Delay == /\ Cardinality(delayed) < DelayRoom
         /\ UNCHANGED <<immediate, stimuli, handling, working, tick, live, ticking>>
         /\ \E d \in delayed' \ delayed :
              /\ delayed' = delayed \cup {d}
              /\ d.event \in Event /\ d.due_world_tick > tick

Stimulate == /\ Len(stimuli) < Room
             /\ UNCHANGED <<immediate, delayed, handling, working, tick, live, ticking>>
             /\ \E e \in Event : stimuli' = Append(stimuli, e)

TakeBack(s) == /\ immediate' = Without(immediate, {e \in ToSet(immediate) :
                                  e.source = s /\ e.event_id = "event_4"})
               /\ UNCHANGED <<delayed, stimuli, handling, working, tick, live, ticking>>

Start == /\ ~working /\ working' = TRUE
         /\ UNCHANGED <<queues, handling, tick, live, ticking>>

Begin(e) == handling' = IF e.target \in ticking THEN e ELSE None

HandleImmediate == /\ working /\ handling = None /\ immediate # <<>>
                   /\ Begin(Head(immediate)) /\ immediate' = Tail(immediate)
                   /\ UNCHANGED <<delayed, stimuli, working, tick, live, ticking>>

HandleDelayed == /\ working /\ handling = None /\ immediate = <<>>
                 /\ \E d \in delayed : /\ d.due_world_tick <= tick
                                       /\ Begin(d.event)
                                       /\ delayed' = delayed \ {d}
                 /\ UNCHANGED <<immediate, stimuli, working, tick, live, ticking>>

Return == /\ handling # None /\ handling' = None
          /\ UNCHANGED <<queues, working, tick, live, ticking>>

Finish == /\ working /\ handling = None
          /\ immediate = <<>> /\ \A d \in delayed : d.due_world_tick > tick
          /\ stimuli' = <<>> /\ working' = FALSE
          /\ UNCHANGED <<immediate, delayed, handling, tick, live, ticking>>

Names(e, o) == o \in {e.source, e.target}

Born(o) == /\ o \notin live
           /\ live' = live \cup {o} /\ ticking' = ticking \cup {o}
           /\ UNCHANGED <<queues, handling, working, tick>>

Parked(o) == /\ ticking' = ticking \ {o}
             /\ UNCHANGED <<queues, handling, working, tick, live>>

\* Everything that names a deleted object goes with it, and nothing else.
Deleted(o) == /\ live' = live \ {o} /\ ticking' = ticking \ {o}
              /\ immediate' = Without(immediate, {e \in ToSet(immediate) : Names(e, o)})
              /\ delayed' = {d \in delayed : ~Names(d.event, o)}
              /\ stimuli' = Without(stimuli, {e \in ToSet(stimuli) : Names(e, o)})
              /\ UNCHANGED <<handling, working, tick>>

\* A save frees parked objects that no event names; it may reset the tick.
Saved == /\ ~working
         /\ live' \subseteq live
         /\ \A o \in live \ live' :
              /\ o \notin ticking
              /\ \A i \in DOMAIN immediate : ~Names(immediate[i], o)
              /\ \A d \in delayed : ~Names(d.event, o)
              /\ \A i \in DOMAIN stimuli : ~Names(stimuli[i], o)
         /\ tick' \in {tick, 0}
         /\ UNCHANGED <<queues, handling, working, ticking>>

Emptied == /\ ~working
           /\ immediate' = <<>> /\ delayed' = {} /\ stimuli' = <<>>
           /\ tick' \in Nat /\ ticking' = live'
           /\ UNCHANGED <<handling, working>>

Ticked == /\ ~working /\ tick' = tick + 1
          /\ UNCHANGED <<queues, handling, working, live, ticking>>

Next == \/ Queue \/ Delay \/ Stimulate \/ Start \/ HandleImmediate
        \/ HandleDelayed \/ Return \/ Finish \/ Saved \/ Emptied \/ Ticked
        \/ \E o \in live : TakeBack(o) \/ Parked(o) \/ Deleted(o)
        \/ \E o \in live' : Born(o)
Spec == Init /\ [][Next]_vars
=============================================================================
