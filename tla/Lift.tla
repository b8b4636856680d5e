---------------------------------- MODULE Lift ----------------------------------
(***************************************************************************)
(* A lift and its call buttons: objects/lift.cpp, call_button.cpp and the  *)
(* part of vehicle.cpp a lift runs.                                        *)
(*                                                                         *)
(* A pressed button lights, and its call waits in one of the lift's slots  *)
(* until the lift selects it, travels and arrives.  The scripts of the     *)
(* lift are external: event 1 and 2 give it a speed down and up the        *)
(* screen, and a script may hold the lift by its object variable 0.        *)
(* Positions are pixels; the cabin's are half pixels, the fraction an 8.8  *)
(* speed of 384 leaves.                                                    *)
(***************************************************************************)
EXTENDS Integers, FiniteSets

CONSTANTS
    Buttons,   \* every call button of the lift
    RoomY,     \* [Buttons -> Nat]: the floor of the room each one stands in
    Proof,     \* buttons whose event 1 is disabled for creatures
    LastY,     \* the lowest position the lift's movement bounds allow
    Capacity,  \* kCallButtonCapacity: slots, and entries of the floor table
    Speed,     \* speed the lift's scripts set, in half pixels a tick
    NoButton,  \* an empty slot
    Careful    \* are buttons placed and removed only while the lift rests?

Unregistered == 255   \* floor_index of a button without a floor

ASSUME LiftAssumption ==
    /\ RoomY \in [Buttons -> 0 .. LastY] /\ LastY \in Nat /\ NoButton \notin Buttons
    /\ Capacity \in 1 .. Unregistered /\ Speed \in Nat \ {0} /\ Careful \in BOOLEAN

VARIABLES
    cabin,       \* position of the cabin's floor, in half pixels
    velocity,
    interaction, \* interaction_event: 0 at rest, 1 and 2 moving
    held,        \* object_variable_0 # 0
    current,     \* current_floor_index, the target's once a move has begun
    selected,    \* selected_call_button_index
    cooldown,    \* call_selection_cooldown
    slots,       \* call_button_refs
    floorY,      \* floor_y_by_index, up to floor_count
    floorIndex,  \* floor_index of each button
    lit,         \* buttons whose current interaction event is 1
    placed,      \* buttons that exist
    script       \* the script of the lift that has not run yet

liftVars == <<cabin, velocity, interaction, held, current, selected, cooldown,
              slots, floorY, floorIndex, lit, placed, script>>

FloorCount == Cardinality(DOMAIN floorY)
Registered == {b \in placed : floorIndex[b] # Unregistered}
Queued(b) == \E i \in DOMAIN slots : slots[i] = b
Pixels(halves) == halves \div 2
Gap(x, z) == IF x < z THEN z - x ELSE x - z
Abs(x) == Gap(x, 0)

LiftTypeOK ==
    /\ cabin \in 0 .. 2 * LastY + 1 /\ velocity \in {-Speed, 0, Speed}
    /\ interaction \in 0 .. 2 /\ held \in BOOLEAN
    /\ current \in 0 .. Capacity - 1
    /\ selected \in -1 .. Capacity - 1
    /\ cooldown \in 0 .. 1
    /\ slots \in [0 .. Capacity - 1 -> Buttons \union {NoButton}]
    /\ DOMAIN floorY = 0 .. FloorCount - 1 /\ FloorCount \in 0 .. Capacity
    /\ floorIndex \in [Buttons -> (0 .. Capacity - 1) \union {Unregistered}]
    /\ lit \subseteq placed /\ placed \subseteq Buttons
    /\ script \in {"none", "event_0", "event_1", "event_2", "event_6"}

\* The lift's script installs it in the room of its first floor.
LiftInit ==
    /\ \E b \in Buttons : (\A c \in Buttons : RoomY[b] <= RoomY[c])
                          /\ cabin = 2 * RoomY[b]
    /\ velocity = 0 /\ interaction = 0 /\ held = FALSE /\ current = 0
    /\ selected = -1 /\ cooldown = 0
    /\ slots = [i \in 0 .. Capacity - 1 |-> NoButton]
    /\ floorY = [i \in {} |-> 0]
    /\ floorIndex = [b \in Buttons |-> Unregistered]
    /\ lit = {} /\ placed = {} /\ script = "none"

-----------------------------------------------------------------------------
Stopped == interaction = 0 /\ lit = {}

\* the button finds room in the lift's floor table
Registers == FloorCount < Capacity

\* A script creates a button, which registers its floor; floors are listed from
\* the top down (update_lift_state_and_queue_redraw).
Place(b) ==
    /\ b \notin placed /\ floorIndex[b] = Unregistered
    /\ Careful => Stopped
    /\ \A c \in Buttons : floorIndex[c] # Unregistered => RoomY[c] < RoomY[b]
    /\ placed' = placed \union {b}
    /\ IF Registers
       THEN /\ floorY' = [i \in 0 .. FloorCount |->
                             IF i = FloorCount THEN RoomY[b] ELSE floorY[i]]
            /\ floorIndex' = [floorIndex EXCEPT ![b] = FloorCount]
            /\ current' = IF Pixels(cabin) = RoomY[b] THEN FloorCount ELSE current
       ELSE UNCHANGED <<floorY, floorIndex, current>>
    /\ UNCHANGED <<cabin, velocity, interaction, held, selected, cooldown, slots,
                   lit, script>>

\* A button is deleted: Lift::clear_references_to empties its slots, and leaves
\* the selected index alone.
Forget(b) ==
    /\ b \in placed
    /\ Careful => Stopped
    /\ placed' = placed \ {b} /\ lit' = lit \ {b}
    /\ slots' = [i \in DOMAIN slots |-> IF slots[i] = b THEN NoButton ELSE slots[i]]
    /\ UNCHANGED <<cabin, velocity, interaction, held, current, selected, cooldown,
                   floorY, floorIndex, script>>

FreeSlots == {i \in DOMAIN slots : slots[i] = NoButton}

\* it lights, unless it is proof against the creature or finds no slot
Lights(b, byCreature) == FreeSlots # {} /\ ~(byCreature /\ b \in Proof)

\* CallButton::request_lift_call: the call takes the first free slot.
Request(b, byCreature) ==
    /\ b \in Registered /\ b \notin lit
    /\ interaction # 0 \/ current # floorIndex[b]
    /\ lit' = IF Lights(b, byCreature) THEN lit \union {b} ELSE lit
    /\ slots' = [i \in DOMAIN slots |->
                    IF i \in FreeSlots /\ (\A j \in FreeSlots : i <= j)
                    THEN b ELSE slots[i]]
    /\ UNCHANGED <<cabin, velocity, interaction, held, current, selected, cooldown,
                   floorY, floorIndex, placed, script>>

\* request_move: a passenger asks for the next floor down the screen, or up it.
PassengerMove(down) ==
    /\ interaction = 0 /\ ~held
    /\ IF down THEN current < FloorCount - 1 ELSE current > 0
    /\ interaction' = 1
    /\ current' = IF down THEN current + 1 ELSE current - 1
    /\ cabin' = 2 * Pixels(cabin)
    /\ script' = IF down THEN "event_1" ELSE "event_2"
    /\ UNCHANGED <<velocity, held, selected, cooldown, slots, floorY, floorIndex,
                   lit, placed>>

-----------------------------------------------------------------------------
\* a variant: only half of the slots are read, as in the original
ReadSlotsNative == 0 .. (Capacity \div 2) - 1
ReadSlots == DOMAIN slots

Away(i) == Gap(floorIndex[slots[i]], current)
\* the slot of the nearest floor, the first of equals
Nearest == {i \in ReadSlots : slots[i] # NoButton /\
               \A j \in ReadSlots : slots[j] # NoButton =>
                   Away(i) < Away(j) \/ (Away(i) = Away(j) /\ i <= j)}

\* select_nearest_call_button_and_start_move, once every sixteen ticks
Select ==
    /\ IF cooldown # 0
       THEN cooldown' = cooldown - 1
            /\ UNCHANGED <<selected, current, interaction, cabin, script>>
       ELSE /\ interaction = 0 /\ ~held /\ UNCHANGED cooldown
            /\ IF Nearest = {}
               THEN selected' = -1 /\ UNCHANGED <<current, interaction, cabin, script>>
               ELSE \E i \in Nearest :
                      /\ selected' = i /\ current' = floorIndex[slots[i]]
                      /\ interaction' = IF current < current' THEN 1 ELSE 2
                      /\ script' = IF current < current' THEN "event_1" ELSE "event_2"
                      /\ cabin' = 2 * Pixels(cabin)
    /\ UNCHANGED <<velocity, held, slots, floorY, floorIndex, lit, placed>>

\* The cabin and the floor lie in one band of the whole-pixel speed.
Band == IF Pixels(velocity) = 0 THEN 1 ELSE Abs(Pixels(velocity))
InBand == Pixels(cabin) \div Band = floorY[current] \div Band
ReachedFloor == \/ velocity > 0 /\ Pixels(cabin) >= floorY[current]
                \/ velocity < 0 /\ Pixels(cabin) <= floorY[current]
\* a variant: any floor at all
ArrivesAnywhere == TRUE
Arrives == InBand \/ ReachedFloor

\* a variant: the selection is not reset
NoSelectionKept == selected
NoSelection == -1

\* Lift::tick: on arrival complete_floor_arrival stops the lift, and the selected
\* call's light and slot are cleared, if its button still stands there.
Arrive ==
    /\ interaction # 0 /\ Arrives
    /\ velocity' = 0 /\ cabin' = 2 * Pixels(cabin)
    /\ interaction' = 0 /\ script' = "event_0"
    /\ lit' = IF selected = -1 THEN lit ELSE lit \ {slots[selected]}
    /\ slots' = [i \in DOMAIN slots |-> IF i = selected THEN NoButton ELSE slots[i]]
    /\ selected' = NoSelection /\ cooldown' = 1
    /\ UNCHANGED <<held, current, floorY, floorIndex, placed>>

\* Vehicle::tick of a lift between floors; at its movement bounds it collides
Travel ==
    /\ velocity # 0 /\ ~(interaction # 0 /\ Arrives)
    /\ IF Pixels(cabin + velocity) \in 0 .. LastY
       THEN cabin' = cabin + velocity /\ UNCHANGED <<velocity, script>>
       ELSE cabin' = 2 * Pixels(cabin) /\ velocity' = 0 /\ script' = "event_6"
    /\ UNCHANGED <<interaction, held, current, selected, cooldown, slots,
                   floorY, floorIndex, lit, placed>>

Tick == Arrive \/ Travel

\* (external) the lift's script of the event it was sent
RunScript ==
    /\ script # "none"
    /\ velocity' = IF script = "event_1" THEN Speed
                   ELSE IF script = "event_2" THEN -Speed ELSE velocity
    /\ script' = "none"
    /\ UNCHANGED <<cabin, interaction, held, current, selected, cooldown, slots,
                   floorY, floorIndex, lit, placed>>

\* (external) a script holds the lift where it is, and lets it go
Hold == /\ ~held /\ held' = TRUE
        /\ UNCHANGED <<cabin, velocity, interaction, current, selected, cooldown,
                       slots, floorY, floorIndex, lit, placed, script>>
Release == /\ held /\ held' = FALSE
           /\ UNCHANGED <<cabin, velocity, interaction, current, selected, cooldown,
                          slots, floorY, floorIndex, lit, placed, script>>

Disturb == \/ \E b \in Buttons : \/ Place(b) \/ Forget(b)
                                 \/ \E c \in BOOLEAN : Request(b, c)
           \/ \E d \in BOOLEAN : PassengerMove(d)
           \/ Hold
LiftNext == Disturb \/ Select \/ Tick \/ RunScript \/ Release

LiftSpec == LiftInit /\ [][LiftNext]_liftVars
(* Every object is ticked in each world update, the drives of every object are *)
(* updated in each sixteenth one, and every running macro gets its turns; a    *)
(* script that holds the lift lets it go.                                      *)
LiftFairSpec == /\ LiftSpec
                /\ WF_liftVars(Select) /\ WF_liftVars(Tick)
                /\ WF_liftVars(RunScript) /\ WF_liftVars(Release)

-----------------------------------------------------------------------------
(* A button is lit exactly while its call waits in the lift's slots, in one of *)
(* them: no light without a call to put it out, none out with a call waiting.  *)
(* A button that is proof against creatures may wait unlit, and twice.         *)
LitIsQueued ==
    /\ \A b \in lit : Queued(b)
    /\ \A i, j \in DOMAIN slots :
          slots[i] # NoButton /\ slots[i] \notin Proof =>
              slots[i] \in lit /\ (slots[j] = slots[i] => i = j)

(* The call the lift has selected is the one it travels to: the index is kept  *)
(* over many ticks while the slots beside it are filled and emptied.           *)
SelectedIsTarget ==
    selected # -1 /\ slots[selected] # NoButton =>
        interaction # 0 /\ floorIndex[slots[selected]] = current

(* A light goes out, other than with its button, only in front of the lift:    *)
(* the cabin stands within one tick's travel of the button's own floor.        *)
AnsweredAtItsFloor ==
    [][\A b \in lit \ lit' : b \in placed' =>
           Gap(Pixels(cabin'), RoomY[b]) <= (Speed + 1) \div 2]_liftVars

(* Once nobody presses, rides, holds or rebuilds any more, every lit button is *)
(* answered: no call is stepped over, forgotten in a slot or locked out.       *)
CallsAnswered ==
    <>[][~Disturb]_liftVars => \A b \in Buttons : b \in lit ~> b \notin lit

(* And a lift that has begun to move arrives.                                  *)
MoveEnds == interaction # 0 ~> interaction = 0

\* Lights, slots, floors and the selection agree at every moment.
LiftSound == LiftTypeOK /\ LitIsQueued /\ SelectedIsTarget

\* Everyone is served: calls are answered, and a move comes to its end.
LiftServes == CallsAnswered /\ MoveEnds
=============================================================================
