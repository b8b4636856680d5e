------------------------------ MODULE Carrying ------------------------------
(***************************************************************************)
(* Who carries what: the hand (ui/tools.cpp), norns (creatures/creature.cpp),*)
(* things (objects/simple_object.cpp) and vehicles. Nobody takes a thing    *)
(* directly: a click or a script queues "take" (event 4) or "let" (event 5),*)
(* and the handlers in the next event phase change the bounds mode and the  *)
(* reference and queue further events, above all to the hand, which hides   *)
(* while something hangs from it. Between the click and the phase there are *)
(* up to four ticks in which anything else may happen to the same objects.  *)
(***************************************************************************)
EXTENDS Naturals, Sequences, FiniteSets, SequencesExt, SequenceFilter

CONSTANTS
    Norns, Things, Vehicles, Hand, Nil,
    MaxQueue,   \* bound: events that wait when a click or a script queues more
    MaxEnded    \* bound: objects that come to their end

Carried == Norns \union Things
Objects == Carried \union Vehicles
Parties == Objects \union {Hand}

ASSUME PartiesAssumption ==
    /\ IsFiniteSet(Objects)
    /\ Norns \intersect Things = {} /\ Carried \intersect Vehicles = {}
    /\ Hand \notin Objects /\ Nil \notin Parties /\ MaxQueue \in Nat /\ MaxEnded \in Nat

VARIABLES
    mode,       \* bounds mode: "world", "hand" unbounded_1, "held" explicit_rectangle,
                \* "aboard" vehicle_local
    ref,        \* bounds_reference_object
    life,       \* "ticks", "dead" (a norn's body), "killed" (until a save), "gone"
    shown,      \* the hand is unbounded itself: it follows the mouse and reads clicks
    queue,      \* immediate events that wait
    draining,   \* an event phase has begun and not found the queue empty yet
    astray      \* history: the hand was told, or not told, what it can never make good
vars == <<mode, ref, life, shown, queue, draining, astray>>

Event == [from : Parties, kind : {"take", "let"}, to : Carried \union {Hand}]
Take(a, b) == [from |-> a, kind |-> "take", to |-> b]
Let(a, b) == [from |-> a, kind |-> "let", to |-> b]

Exists(x) == life[x] # "gone"
\* x may come to its end, or has done so
MayEnd(x) == Cardinality({y \in Objects : life[y] # "ticks"} \union {x}) <= MaxEnded
InHand == {x \in Carried : mode[x] = "hand"}
HeldBy(n) == {t \in Things : mode[t] = "held" /\ ref[t] = n}

TypeOK ==
    /\ mode \in [Carried -> {"world", "hand", "held", "aboard"}]
    /\ ref \in [Carried -> Norns \union Vehicles \union {Nil}]
    /\ life \in [Objects -> {"ticks", "dead", "killed", "gone"}]
    /\ queue \in Seq(Event)
    /\ {shown, draining, astray} \subseteq BOOLEAN
    \* whatever lies in the world or hangs from the hand refers to nobody
    /\ \A x \in Carried : mode[x] \in {"world", "hand"} => ref[x] = Nil

Init ==
    /\ mode = [x \in Carried |-> "world"] /\ ref = [x \in Carried |-> Nil]
    /\ life = [x \in Objects |-> "ticks"]
    /\ shown = TRUE /\ queue = <<>> /\ draining = FALSE /\ astray = FALSE

\* set_bounds_mode and set_bounds_reference_object
Put(x, where, whose) ==
    /\ mode' = [mode EXCEPT ![x] = where]
    /\ ref' = [ref EXCEPT ![x] = whose]
Stays == UNCHANGED <<mode, ref>>

-----------------------------------------------------------------------------
(* Clicks: read in the ticks of the hand or of what hangs from it           *)

Queues(events) == queue' = queue \o events

\* a right click of the hand; what it shows may be a norn or a thing
Click(x) ==
    /\ ~draining /\ shown /\ Len(queue) < MaxQueue
    /\ life[x] \in {"ticks", "dead"} /\ mode[x] # "hand"
    /\ Queues(<<Take(Hand, x)>>)
    /\ UNCHANGED <<mode, ref, life, shown, draining, astray>>

\* a right click that the carried object reads in its own tick
ClickCarried(x) ==
    /\ ~draining /\ x \in InHand /\ life[x] \in {"ticks", "dead"} /\ Len(queue) < MaxQueue
    /\ Queues(<<Let(x, x)>>)
    /\ UNCHANGED <<mode, ref, life, shown, draining, astray>>

-----------------------------------------------------------------------------
(* Scripts: in the ticks, or started by a handler in the middle of a phase  *)

\* a norn reaches for a thing, or for the hand
NornTakes(n, x) ==
    /\ life[n] = "ticks" /\ Len(queue) < MaxQueue
    /\ x \in {Hand} \union {t \in Things : life[t] = "ticks"}
    /\ Queues(<<Take(n, x)>>)
    /\ UNCHANGED <<mode, ref, life, shown, draining, astray>>

\* drop: notify_dependents_on_removal
NornDrops(n) ==
    /\ life[n] = "ticks" /\ Len(queue) < MaxQueue
    /\ \E t \in Carried : ref[t] = n
    /\ Queues([i \in 1 .. Cardinality({t \in Carried : ref[t] = n}) |->
                  Let(n, SetToSeq({t \in Carried : ref[t] = n})[i])])
    /\ UNCHANGED <<mode, ref, life, shown, draining, astray>>

\* gpas, for the norns that overlap it and are not bound to it
Gather(v, S) ==
    /\ life[v] = "ticks" /\ S # {} /\ Len(queue) < MaxQueue
    /\ \A n \in S : Exists(n) /\ ref[n] # v
    /\ Queues([i \in 1 .. Cardinality(S) |-> Take(v, SetToSeq(S)[i])])
    /\ UNCHANGED <<mode, ref, life, shown, draining, astray>>

\* dpas: everyone off, and those that wait to get on as well. A norn that the hand
\* let go over the vehicle hangs on until the vehicle takes it: now nobody will
AllOff(v) ==
    LET waits == Without(queue, {e \in Event : e.from = v /\ e.kind = "take"})
        aboard == {n \in Norns : ref[n] = v}
    IN  /\ life[v] = "ticks" /\ Len(waits) < MaxQueue
        /\ queue' = waits \o [i \in 1 .. Cardinality(aboard) |-> Let(v, SetToSeq(aboard)[i])]
        /\ draining' = (draining /\ queue' # <<>>)
        /\ astray' = (astray \/ \E n \in InHand : Take(v, n) \in ToSet(queue))
        /\ UNCHANGED <<mode, ref, life, shown>>

\* tele: every norn bound to the vehicle lands in the world
Teleport(v) ==
    LET aboard == {n \in Norns : ref[n] = v} IN
    /\ life[v] = "ticks" /\ aboard # {}
    /\ mode' = [x \in Carried |-> IF x \in aboard THEN "world" ELSE mode[x]]
    /\ ref' = [x \in Carried |-> IF x \in aboard THEN Nil ELSE ref[x]]
    /\ UNCHANGED <<life, shown, queue, draining, astray>>

\* mcrt moves its target into the world, also out of the hand, which is not told
MoveTo(x) ==
    /\ life[x] = "ticks" /\ mode[x] # "world"
    /\ Put(x, "world", Nil)
    /\ astray' = (astray \/ x \in InHand)
    /\ UNCHANGED <<life, shown, queue, draining>>

-----------------------------------------------------------------------------
(* The end of an object                                                     *)

\* variant: before row 31, the hand was not told
NotLetGo(x) == Stays /\ UNCHANGED shown
\* release_from_pointer_tool runs the hand's event at once
LetGo(x) ==
    IF x \in InHand THEN Put(x, "world", Nil) /\ shown' = TRUE
    ELSE Stays /\ UNCHANGED shown

\* kill parks a thing or a vehicle; the events it waits for are not purged: those
\* that bring it into the hand, or tell the hand that it is there, still arrive
Kill(x) ==
    /\ x \in Things \union Vehicles /\ life[x] = "ticks" /\ MayEnd(x)
    /\ life' = [life EXCEPT ![x] = "killed"]
    /\ LetGo(x)
    /\ astray' = (astray \/ Take(Hand, x) \in ToSet(queue) \/ Let(x, Hand) \in ToSet(queue))
    /\ UNCHANGED <<queue, draining>>

\* the other objects forget a norn
Forgotten(n) == ref' = [x \in Carried |-> IF ref[x] = n THEN Nil ELSE ref[x]]

\* die, up to what carries and is carried
Die(n) ==
    /\ n \in Norns /\ life[n] = "ticks" /\ MayEnd(n)
    /\ life' = [life EXCEPT ![n] = "dead"]
    /\ Forgotten(n)
    /\ UNCHANGED <<mode, shown, queue, draining, astray>>

Purged(n) == Without(queue, {e \in Event : n \in {e.from, e.to}})

\* delete_object_and_purge_runtime_references, for a norn
Delete(n) ==
    /\ n \in Norns /\ Exists(n) /\ MayEnd(n)
    /\ life' = [life EXCEPT ![n] = "gone"]
    /\ shown' = (shown \/ n \in InHand)
    /\ mode' = [mode EXCEPT ![n] = "world"]
    /\ ref' = [x \in Carried |-> IF x = n \/ ref[x] = n THEN Nil ELSE ref[x]]
    /\ queue' = Purged(n)
    /\ draining' = (draining /\ queue' # <<>>)
    /\ UNCHANGED astray

\* variant: waiting events are not asked
UnreferredNow(x) == \A y \in Carried : Exists(y) => ref[y] # x
\* can_be_destroyed
CanBeDestroyed(x) ==
    /\ \A y \in Carried : Exists(y) => ref[y] # x
    /\ \A i \in DOMAIN queue : x \notin {queue[i].from, queue[i].to}

\* a save deletes what was killed and nobody refers to
Reap(x) ==
    /\ ~draining /\ x \in Things \union Vehicles /\ life[x] = "killed" /\ CanBeDestroyed(x)
    /\ life' = [life EXCEPT ![x] = "gone"]
    /\ mode' = [y \in Carried |-> IF y = x THEN "world" ELSE mode[y]]
    /\ ref' = [y \in Carried |-> IF y = x THEN Nil ELSE ref[y]]
    /\ UNCHANGED <<shown, queue, draining, astray>>

\* the hand gets "take" from itself after a load in which nothing is in it
Load ==
    /\ ~draining /\ InHand = {} /\ Len(queue) < MaxQueue
    /\ Queues(<<Take(Hand, Hand)>>)
    /\ astray' = (astray /\ queue # <<>>)
    /\ UNCHANGED <<mode, ref, life, shown, draining>>

\* tick: a thing whose norn was forgotten falls into the world
Settle(t) ==
    /\ ~draining /\ t \in Things /\ life[t] = "ticks" /\ mode[t] = "held" /\ ref[t] = Nil
    /\ Put(t, "world", Nil)
    /\ UNCHANGED <<life, shown, queue, draining, astray>>

-----------------------------------------------------------------------------
(* The event phase                                                          *)

BeginPhase ==
    /\ ~draining /\ queue # <<>> /\ draining' = TRUE
    /\ UNCHANGED <<mode, ref, life, shown, queue, astray>>

\* event e has been taken from the queue and its handler queues the others
Handled(events) ==
    /\ queue' = Tail(queue) \o events
    /\ draining' = (queue' # <<>>)
    /\ UNCHANGED life

\* SimpleObject::handle_queued_event_4, from the hand
HandTakesThing(t) ==
    /\ queue[1] = Take(Hand, t)
    /\ IF InHand # {} THEN Stays /\ Handled(<<>>)
       ELSE Put(t, "hand", Nil) /\ Handled(<<Let(t, Hand)>>)
    /\ UNCHANGED <<shown, astray>>

\* whatever else it holds
LetsGo(n, t) ==
    LET others == SetToSeq(HeldBy(n) \ {t}) IN [i \in DOMAIN others |-> Let(n, others[i])]

\* ... from a norn
NornTakesThing(n, t) ==
    /\ queue[1] = Take(n, t)
    /\ Put(t, "held", n)
    /\ Handled((IF t \in InHand THEN <<Take(t, Hand)>> ELSE <<>>) \o LetsGo(n, t))
    /\ UNCHANGED <<shown, astray>>

\* end_interaction_with_source: into the topmost vehicle under it, or the world
EndInteraction(t) ==
    \/ Put(t, "world", Nil)
    \/ \E v \in Vehicles : Exists(v) /\ Put(t, "aboard", v)

\* variant: whoever let go of it last
LetByAnyone(t, a) == mode[t] = "held"
LetByHolder(t, a) == mode[t] = "held" /\ ref[t] = a

\* SimpleObject::handle_queued_event_5
ThingIsLet(t, a) ==
    /\ queue[1] = Let(a, t)
    /\ IF t \in InHand THEN EndInteraction(t) /\ Handled(<<Take(t, Hand)>>)
       ELSE IF LetByHolder(t, a) THEN EndInteraction(t) /\ Handled(<<>>)
       ELSE Stays /\ Handled(<<>>)
    /\ UNCHANGED <<shown, astray>>

\* Creature::handle_pickup_event, from a vehicle
NornBoards(n, v) ==
    /\ queue[1] = Take(v, n)
    /\ Put(n, "aboard", v)
    /\ Handled(IF n \in InHand THEN <<Take(Hand, Hand)>> ELSE <<>>)
    /\ UNCHANGED <<shown, astray>>

\* ... from the hand, if this click was privileged; a click that waits is read at once.
\* It does not ask what else hangs from the hand
HandTakesNorn(n, privileged, clicked) ==
    /\ queue[1] = Take(Hand, n)
    /\ IF ~privileged THEN Stays /\ Handled(<<>>) /\ UNCHANGED astray
       ELSE /\ Put(n, "hand", Nil)
            /\ Handled((IF clicked THEN <<Let(n, n)>> ELSE <<>>) \o <<Let(n, Hand)>>)
            /\ astray' = (astray \/ InHand \ {n} # {})
    /\ UNCHANGED shown

\* Creature::handle_drop_event, from a vehicle: wherever the norn is by now
NornLeaves(n, v) ==
    /\ queue[1] = Let(v, n)
    /\ Put(n, "world", Nil)
    /\ Handled(<<>>)
    /\ astray' = (astray \/ n \in InHand)
    /\ UNCHANGED shown

\* ... from anyone else; over a vehicle it hangs on until the vehicle takes it
NornIsLet(n, a) ==
    /\ queue[1] = Let(a, n) /\ a \notin Vehicles
    /\ IF n \notin InHand THEN Stays /\ Handled(<<>>)
       ELSE \/ Put(n, "world", Nil) /\ Handled(<<Take(Hand, Hand)>>)
            \/ \E v \in Vehicles :
                 Exists(v) /\ Put(n, "hand", Nil) /\ Handled(<<Take(v, n), Take(Hand, Hand)>>)
    /\ UNCHANGED <<shown, astray>>

\* PointerTool::handle_queued_event_4: from a norn it is a stimulus
HandReturns(a) ==
    /\ queue[1] = Take(a, Hand)
    /\ IF a \in Norns THEN Handled(<<Take(Hand, a)>>) /\ UNCHANGED shown
       ELSE Handled(<<>>) /\ shown' = TRUE
    /\ UNCHANGED <<mode, ref, astray>>

\* PointerTool::handle_queued_event_5
HandHides(a) ==
    /\ queue[1] = Let(a, Hand)
    /\ shown' = FALSE /\ Handled(<<>>)
    /\ UNCHANGED <<mode, ref, astray>>

Handle ==
    /\ draining
    /\ \/ \E t \in Things : HandTakesThing(t)
       \/ \E t \in Things, n \in Norns : NornTakesThing(n, t)
       \/ \E t \in Things, a \in Parties : ThingIsLet(t, a)
       \/ \E n \in Norns, v \in Vehicles : NornBoards(n, v) \/ NornLeaves(n, v)
       \/ \E n \in Norns, privileged, clicked \in BOOLEAN : HandTakesNorn(n, privileged, clicked)
       \/ \E n \in Norns, a \in Parties : NornIsLet(n, a)
       \/ \E a \in Parties : HandReturns(a) \/ HandHides(a)

Next ==
    \/ \E x \in Carried : Click(x) \/ ClickCarried(x)
    \/ \E n \in Norns, x \in Things \union {Hand} : NornTakes(n, x)
    \/ \E n \in Norns : NornDrops(n) \/ Die(n) \/ Delete(n)
    \/ \E v \in Vehicles : AllOff(v) \/ Teleport(v) \/ \E S \in SUBSET Norns : Gather(v, S)
    \/ \E x \in Carried : MoveTo(x)
    \/ \E x \in Objects : Kill(x) \/ Reap(x)
    \/ \E t \in Things : Settle(t)
    \/ Load \/ BeginPhase \/ Handle

Spec == Init /\ [][Next]_vars

-----------------------------------------------------------------------------
(* Properties                                                               *)

\* When no event waits, the hand is hidden just while something hangs from it, and
\* that is one object: a hand that hides with nothing in it never comes back. The
\* exceptions, each a step of the code, are those that set astray
HandFree ==
    queue = <<>> /\ ~astray => Cardinality(InHand) = IF shown THEN 0 ELSE 1

\* When no event waits a norn holds one thing at most, however often it and others
\* took things while the events of earlier takes were still on their way
OneHeld == queue = <<>> => \A n \in Norns : Cardinality(HeldBy(n)) <= 1

\* What update_movement_bounds follows is there: a passenger's vehicle is never null
\* and never freed, a held thing's norn is never freed, nor is anyone in an event
NoDangling ==
    /\ \A x \in Carried : Exists(x) =>
         /\ mode[x] = "aboard" => ref[x] \in Vehicles
         /\ mode[x] = "held" => ref[x] \in Norns \union {Nil}
         /\ ref[x] # Nil => Exists(ref[x])
    /\ \A i \in DOMAIN queue : \A x \in {queue[i].from, queue[i].to} \ {Hand} : Exists(x)

\* A drop that comes late takes a thing from nobody but the norn that dropped it
KeepsWhatItHolds ==
    [][\A t \in Things, n, m \in Norns :
         mode[t] = "held" /\ ref[t] = n /\ m # n
         /\ draining /\ queue[1] = Let(m, t) /\ queue' = Tail(queue)
           => mode'[t] = "held" /\ ref'[t] = n]_vars

\* Modes, references and lives agree for everything that is carried.
RidesSound == TypeOK /\ OneHeld /\ NoDangling
=============================================================================
