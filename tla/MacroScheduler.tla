---------------------------- MODULE MacroScheduler ----------------------------
(***************************************************************************)
(* The macro scheduler: the list of running macros, the walk that gives    *)
(* each one turn per world update, the interpreter's finalization, the     *)
(* start of classifier scripts with the deferral of events to a paused     *)
(* script, the purge of an object's macros, and the holders through which  *)
(* kits own a macro.  A script can kill objects, itself included, while    *)
(* its macro is on the C++ stack: the stack is the variable `stack`.       *)
(*                                                                         *)
(* A frame is a macro inside execute_interpreter with the steps its        *)
(* command has still to do; the bottom frame is the UI thread itself.  A   *)
(* frame with nothing to do is between two commands.                       *)
(***************************************************************************)
EXTENDS Naturals, FiniteSets, SequencesExt, SequenceFilter

CONSTANTS Macros,     \* addresses a macro may have
          NoMacro,
          Objects,    \* script owners
          Creatures,  \* owners that can die
          Indicators, \* sleep indicators: their scripts only play a sound
          Selectable, \* owners a kit's macro is given
          Nobody,     \* the null owner
          Kits,       \* whether kits send commands
          Limit,      \* kMaximumRunningMacros
          MaxDepth    \* bound: frames on the stack

ASSUME OwnersAssumption == /\ Creatures \cup Indicators \cup Selectable \subseteq Objects
                           /\ Creatures \cap Indicators = {}
                           /\ Nobody \notin Objects /\ NoMacro \notin Macros
ASSUME SizesAssumption == /\ Limit \in Nat \ {0} /\ MaxDepth \in Nat \ {0, 1}
                          /\ Kits \in BOOLEAN

VARIABLES
  running,   \* g_running_macros
  next,      \* g_running_macro_scheduler_next
  deferred,  \* owners with an entry in g_deferred_script_events
  heap,      \* macros that are allocated
  macro,     \* their fields
  stack,
  walking,   \* update_world is in its macro loop
  index,     \* the loop's index
  turned,    \* history: running macros that had their turn in this walk
  sleeping,  \* the sleep indicator of each creature that has one
  dead       \* creatures with death_state set

listVars == <<running, next, turned>>
heapVars == <<heap, macro>>
walkVars == <<walking, index>>
bodyVars == <<sleeping, dead>>
vars == <<listVars, heapVars, deferred, stack, walkVars, bodyVars>>

Fields == [owner : Objects \cup {Nobody}, destroy_when_finished : BOOLEAN,
           paused : BOOLEAN, purged : BOOLEAN, capture : BOOLEAN, held : BOOLEAN, dde : BOOLEAN]
Unused == [owner |-> Nobody, destroy_when_finished |-> FALSE, paused |-> FALSE,
           purged |-> FALSE, capture |-> FALSE, held |-> FALSE, dde |-> FALSE]

\* What a frame may have to do: to an object, to a macro, or its return.
ObjectSteps == {"turns", "purge", "fire", "restart", "apply", "dies"}
MacroSteps == {"turn", "start", "hand_over", "release", "uncapture"}
Returns == {"destroyed", "changed", "complete", "advance"}
Step == [op : ObjectSteps, of : Objects \cup {Nobody}] \cup [op : MacroSteps, of : Macros]
        \cup [op : Returns, of : {Nobody}]
Do(op, x) == [op |-> op, of |-> x]
Return(op) == Do(op, Nobody)

Top == Last(stack)
InInterpreter == Top.macro # NoMacro /\ Top.todo = <<>>
Idle == Len(stack) = 1 /\ Top.todo = <<>>
AtStep(op) == Top.todo # <<>> /\ Head(Top.todo).op = op
Subject == Head(Top.todo).of
OnStack == {stack[i].macro : i \in DOMAIN stack}

TypeOK ==
  /\ heap \subseteq Macros
  /\ running \in BoundedSeq(Macros, Limit)
  /\ next \in 0..Len(running)
  /\ deferred \subseteq Objects
  /\ macro \in [Macros -> Fields]
  /\ Len(stack) \in 1..MaxDepth /\ stack[1].macro = NoMacro
  /\ \A i \in DOMAIN stack : /\ stack[i].macro \in Macros \cup {NoMacro}
                             /\ ToSet(stack[i].todo) \subseteq Step
  /\ walking \in BOOLEAN /\ index \in Nat
  /\ turned \subseteq Macros
  /\ sleeping \in [Creatures -> Indicators \cup {Nobody}]
  /\ dead \subseteq Creatures

Init ==
  /\ running = <<>> /\ next = 0 /\ turned = {}
  /\ deferred = {}
  /\ heap = {} /\ macro = [m \in Macros |-> Unused]
  /\ stack = <<[macro |-> NoMacro, todo |-> <<>>]>>
  /\ walking = FALSE /\ index = 0
  /\ sleeping = [c \in Creatures |-> Nobody] /\ dead = {}

-------------------------------------------------------------------------------
(* The list, the heap and the stack *)

\* erase_running_macro_slot, for each macro of `gone` that is in the list.
Erased(gone) ==
  /\ running' = Without(running, gone)
  /\ next' = Len(Without(SubSeq(running, 1, next), gone))
  /\ turned' = turned \ gone

\* `delete`; the destructor makes a holder forget the macro.
Freed(gone) ==
  /\ heap' = heap \ gone
  /\ macro' = [m \in Macros |-> IF m \in gone THEN Unused ELSE macro[m]]

\* The top frame goes on with other steps, or with a nested frame on top.
GoesOn(todo) == stack' = [stack EXCEPT ![Len(stack)].todo = todo]
StepDone == GoesOn(Tail(Top.todo))
StepDoneThen(m, rest) ==
  stack' = Append([stack EXCEPT ![Len(stack)].todo = rest],
                  [macro |-> m, todo |-> <<>>])
Popped == stack' = Front(stack)

\* remove_from_running_scheduler_and_destroy
RemovedAndDestroyed(m) ==
  /\ Erased({m})
  /\ Freed(IF macro[m].destroy_when_finished THEN {m} ELSE {})

\* remove_from_running_scheduler_and_release
RemovedAndReleased(m) ==
  /\ Erased({m})
  /\ Freed(IF ~macro[m].capture \/ macro[m].destroy_when_finished THEN {m} ELSE {})

\* start_execution of a macro whose fields become `fields`: its first turn runs
\* at once.  A full list makes it a report.
Started(m, fields, rest) ==
  LET listed == m \in ToSet(running)
      scheduled == listed \/ Len(running) < Limit
  IN  /\ running' = IF scheduled /\ ~listed THEN Append(running, m) ELSE running
      /\ macro' = [macro EXCEPT ![m] = [fields EXCEPT !.paused = FALSE, !.capture = FALSE]]
      /\ IF scheduled THEN StepDoneThen(m, rest) ELSE GoesOn(rest)
      /\ UNCHANGED <<next, turned>>

-------------------------------------------------------------------------------
(* One command of the macro on top.  A command that completes its iteration *)
(* and touches nothing here is a stuttering step.                           *)

\* app:, dde: and sys: end the turn and mark the macro as paused.
Pauses ==
  /\ InInterpreter /\ ~macro[Top.macro].capture
  /\ macro' = [macro EXCEPT ![Top.macro].paused = TRUE]
  /\ Popped
  /\ UNCHANGED <<listVars, heap, deferred, walkVars, bodyVars>>

\* `wait`, `over`, a touch that is not there yet: the turn ends.
Yields ==
  /\ InInterpreter /\ ~macro[Top.macro].capture
  /\ Popped
  /\ UNCHANGED <<listVars, heapVars, deferred, walkVars, bodyVars>>

\* endm, stop, and the touch that gives up.
Ends ==
  /\ InInterpreter
  /\ RemovedAndDestroyed(Top.macro)
  /\ Popped
  /\ UNCHANGED <<deferred, walkVars, bodyVars>>

\* A syntax error, an exception or a script without an end.
Terminates ==
  /\ InInterpreter
  /\ RemovedAndReleased(Top.macro)
  /\ Popped
  /\ UNCHANGED <<deferred, walkVars, bodyVars>>

KillSteps(o) == <<Do("turns", o), Do("purge", o)>>

\* set_sleep_indicator(false) runs the indicator's script, then kills it.
WakeSteps(c) ==
  IF sleeping[c] = Nobody THEN <<>>
  ELSE <<Do("fire", sleeping[c]), Do("turns", sleeping[c]), Do("purge", sleeping[c])>>
Awake(o) == sleeping' = [c \in Creatures |-> IF c = o THEN Nobody ELSE sleeping[c]]

\* Creature::die: death_state is set after the death script's first turn.
DeathSteps(c) ==
  WakeSteps(c) \o <<Do("turns", c), Do("purge", c), Do("fire", c), Do("dies", c)>>

\* An indicator that nothing names stands for the new object.
Unnamed(i) == /\ \A c \in Creatures : sleeping[c] # i
              /\ \A m \in heap : macro[m].owner # i
              /\ \A k \in DOMAIN stack : \A s \in ToSet(stack[k].todo) : s.of # i

Commands(steps) ==
  /\ InInterpreter /\ Len(stack) < MaxDepth
  /\ macro[Top.macro].owner \notin Indicators
  /\ GoesOn(steps)
  /\ UNCHANGED <<listVars, heapVars, deferred, walkVars>>

\* `kill`: the owner is read before the call.  A creature is deleted, and
\* another may be born at its address.
Kill(o) ==
  /\ Commands(Append(KillSteps(o),
       Return(IF o = macro[Top.macro].owner THEN "destroyed" ELSE "changed")))
  /\ Awake(o) /\ dead' = dead \ {o}

Cdie(c) ==
  /\ c \notin dead
  /\ Commands(Append(DeathSteps(c), Return("complete")))
  /\ Awake(c) /\ UNCHANGED dead

\* `aslp 1` makes an indicator and fires its event.
FallsAsleep(c, i) ==
  /\ sleeping[c] = Nobody /\ Unnamed(i)
  /\ Commands(<<Do("fire", i), Return("complete")>>)
  /\ sleeping' = [sleeping EXCEPT ![c] = i] /\ UNCHANGED dead

\* `aslp 0`
WakesUp(c) ==
  /\ sleeping[c] # Nobody
  /\ Commands(Append(WakeSteps(c), Return("complete")))
  /\ Awake(c) /\ UNCHANGED dead

\* Mutant: the interpreter does not look at the purge's mark.
ReturnedUnchecked ==
  /\ AtStep("changed") \/ AtStep("complete")
  /\ IF AtStep("changed") /\ ~macro[Top.macro].capture THEN Popped ELSE StepDone
  /\ UNCHANGED <<listVars, heapVars, deferred, walkVars, bodyVars>>

\* After the command: a macro purged meanwhile is deleted here.
Returned ==
  /\ AtStep("changed") \/ AtStep("complete")
  /\ LET m == Top.macro
     IN  IF macro[m].purged
           THEN Freed({m}) /\ Popped
           ELSE /\ IF AtStep("changed") /\ ~macro[m].capture THEN Popped ELSE StepDone
                /\ UNCHANGED heapVars
  /\ UNCHANGED <<listVars, deferred, walkVars, bodyVars>>

\* macro_destroyed: the interpreter does not touch the macro again.
ReturnedDestroyed ==
  /\ AtStep("destroyed")
  /\ Popped
  /\ UNCHANGED <<listVars, heapVars, deferred, walkVars, bodyVars>>

-------------------------------------------------------------------------------
(* Steps of a command *)

\* purge_destroy_when_finished_macros: paused scripts get their turn first.
TurnsBegin ==
  /\ AtStep("turns")
  /\ LET waits == {m \in Macros : /\ macro[m].owner = Subject /\ macro[m].paused
                                  /\ macro[m].destroy_when_finished}
         waiting == Without(running, Macros \ waits)
     IN  GoesOn([i \in DOMAIN waiting |-> Do("turn", waiting[i])] \o Tail(Top.todo))
  /\ UNCHANGED <<listVars, heapVars, deferred, walkVars, bodyVars>>

TurnBeforePurge ==
  /\ AtStep("turn")
  /\ IF Subject \in ToSet(running) /\ macro[Subject].paused
       THEN /\ macro' = [macro EXCEPT ![Subject].paused = FALSE]
            /\ StepDoneThen(Subject, Tail(Top.todo))
       ELSE StepDone /\ UNCHANGED macro
  /\ UNCHANGED <<listVars, heap, deferred, walkVars, bodyVars>>

Doomed(o) == {m \in ToSet(running) : macro[m].owner = o /\ macro[m].destroy_when_finished}

\* Mutant: native's purge deletes a macro that is executing.
PurgesOutright ==
  /\ AtStep("purge")
  /\ Erased(Doomed(Subject)) /\ Freed(Doomed(Subject))
  /\ deferred' = deferred \ {Subject}
  /\ StepDone
  /\ UNCHANGED <<walkVars, bodyVars>>

\* Mutant: a purge does not forget the deferred event.
PurgesButKeepsEvent ==
  /\ AtStep("purge")
  /\ Erased(Doomed(Subject))
  /\ LET doomed == Doomed(Subject)
     IN  /\ heap' = heap \ (doomed \ OnStack)
         /\ macro' = [m \in Macros |-> IF m \notin doomed THEN macro[m]
                                       ELSE IF m \in OnStack THEN [macro[m] EXCEPT !.purged = TRUE]
                                       ELSE Unused]
  /\ StepDone
  /\ UNCHANGED <<walkVars, deferred, bodyVars>>

\* purge_destroy_when_finished_macros_for_owner
Purges ==
  /\ AtStep("purge")
  /\ LET doomed == Doomed(Subject)
     IN  /\ Erased(doomed)
         /\ heap' = heap \ (doomed \ OnStack)
         /\ macro' = [m \in Macros |-> IF m \notin doomed THEN macro[m]
                                       ELSE IF m \in OnStack THEN [macro[m] EXCEPT !.purged = TRUE]
                                       ELSE Unused]
  /\ deferred' = deferred \ {Subject}
  /\ StepDone
  /\ UNCHANGED <<walkVars, bodyVars>>

Dies ==
  /\ AtStep("dies")
  /\ dead' = dead \cup {Subject}
  /\ StepDone
  /\ UNCHANGED <<listVars, heapVars, deferred, walkVars, sleeping>>

\* execute_script_for_classifier.
Firing == AtStep("fire") \/ AtStep("restart")
Found == Without(running, {m \in Macros : macro[m].owner # Subject})
Reuses == Found # <<>> /\ AtStep("fire")

\* No script for the event, a timer event while a script runs, or no memory.
FiresNothing ==
  /\ Firing
  /\ StepDone
  /\ UNCHANGED <<listVars, heapVars, deferred, walkVars, bodyVars>>

Defers == Reuses /\ macro[Head(Found)].paused

FiresDeferred ==
  /\ Firing /\ Defers
  /\ deferred' = deferred \cup {Subject}
  /\ StepDone
  /\ UNCHANGED <<listVars, heapVars, walkVars, bodyVars>>

FiresReload ==
  /\ Firing /\ Reuses /\ ~Defers
  /\ Started(Head(Found), macro[Head(Found)], Tail(Top.todo))
  /\ UNCHANGED <<heap, deferred, walkVars, bodyVars>>

FiresNew(m) ==
  /\ Firing /\ ~Reuses
  /\ m \notin heap
  /\ heap' = heap \cup {m}
  /\ Started(m, [Unused EXCEPT !.owner = Subject, !.destroy_when_finished = TRUE],
             Tail(Top.todo))
  /\ UNCHANGED <<deferred, walkVars, bodyVars>>

-------------------------------------------------------------------------------
(* The walk of update_world and what else the UI thread does *)

WalkBegins ==
  /\ Idle /\ ~walking
  /\ walking' = TRUE /\ index' = 0 /\ turned' = {}
  /\ UNCHANGED <<running, next, heapVars, deferred, stack, bodyVars>>

WalkTurn ==
  /\ Idle /\ walking /\ index < Len(running)
  /\ LET m == running[index + 1]
     IN  /\ next' = index + 1
         /\ macro' = [macro EXCEPT ![m].paused = FALSE]
         /\ turned' = turned \cup {m}
         /\ StepDoneThen(m, <<Do("apply", macro[m].owner), Return("advance")>>)
  /\ UNCHANGED <<running, heap, deferred, walkVars, bodyVars>>

\* apply_deferred_script_events, with the owner read before the turn.
AppliesDeferred ==
  /\ AtStep("apply")
  /\ IF Subject \in deferred
       THEN GoesOn(<<Do("fire", Subject)>> \o Tail(Top.todo))
       ELSE StepDone
  /\ deferred' = deferred \ {Subject}
  /\ UNCHANGED <<listVars, heapVars, walkVars, bodyVars>>

\* Mutant: native steps to the next slot whatever was removed.
AdvancesByOne ==
  /\ AtStep("advance")
  /\ index' = index + 1 /\ next' = 0
  /\ StepDone
  /\ UNCHANGED <<running, turned, heapVars, deferred, walking, bodyVars>>

Advances ==
  /\ AtStep("advance")
  /\ index' = next /\ next' = 0
  /\ StepDone
  /\ UNCHANGED <<running, turned, heapVars, deferred, walking, bodyVars>>

WalkEnds ==
  /\ Idle /\ walking /\ index >= Len(running)
  /\ walking' = FALSE /\ index' = 0 /\ turned' = {}
  /\ UNCHANGED <<running, next, heapVars, deferred, stack, bodyVars>>

\* Events and lifetimes outside the walk: the hand, queued events, chemistry.
World(steps) ==
  /\ Idle /\ ~walking
  /\ GoesOn(steps)
  /\ UNCHANGED <<listVars, heapVars, deferred, walkVars>>

ObjectEvent(o) ==
  /\ o \in Objects \ Creatures
  /\ World(<<Do("fire", o)>>)
  /\ UNCHANGED bodyVars

\* An event wakes a creature, and its activation starts a second script beside
\* the first.
CreatureEvent(c) ==
  /\ \E op \in {"fire", "restart"} : World(Append(WakeSteps(c), Do(op, c)))
  /\ Awake(c) /\ UNCHANGED dead

ObjectKilled(o) ==
  /\ World(KillSteps(o))
  /\ Awake(o) /\ dead' = dead \ {o}

CreatureDies(c) ==
  /\ c \notin dead
  /\ World(DeathSteps(c))
  /\ Awake(c) /\ UNCHANGED dead

\* clear_running_macros, when the world is closed.
Clears ==
  /\ Idle /\ ~walking
  /\ Erased(ToSet(running)) /\ Freed(ToSet(running))
  /\ deferred' = {}
  /\ sleeping' = [c \in Creatures |-> Nobody] /\ dead' = {}
  /\ UNCHANGED <<stack, walkVars>>

-------------------------------------------------------------------------------
(* Holders of kits.  A holder whose macro is gone adopts a new one on its   *)
(* next use, which is HolderCreated again.                                  *)

HolderMacro(c) == [Unused EXCEPT !.owner = c, !.held = TRUE]

HolderCreated(m, c) ==
  /\ Kits /\ Idle /\ ~walking
  /\ m \notin heap
  /\ heap' = heap \cup {m}
  /\ macro' = [macro EXCEPT ![m] = HolderMacro(c)]
  /\ UNCHANGED <<listVars, deferred, stack, walkVars, bodyVars>>

HolderStarts(m, c) ==
  /\ Kits /\ Idle /\ ~walking
  /\ macro[m].held
  /\ macro' = [macro EXCEPT ![m].owner = c]
  /\ GoesOn(<<Do("start", m)>>)
  /\ UNCHANGED <<listVars, heap, deferred, walkVars, bodyVars>>

\* execute_to_output_buffer: a macro of this mode is never scheduled.
HolderOutputs(m, c) ==
  /\ Kits /\ Idle /\ ~walking
  /\ macro[m].held /\ m \notin ToSet(running)
  /\ macro' = [macro EXCEPT ![m] = [HolderMacro(c) EXCEPT !.capture = TRUE]]
  /\ StepDoneThen(m, <<Do("uncapture", m)>>)
  /\ UNCHANGED <<listVars, heap, deferred, walkVars, bodyVars>>

\* FIRECOMMAND: the holder dies with the command; the pipe server hands a
\* started macro over first, SFC.OLE does not.
FiresCommand(m, c, hands_over) ==
  /\ Kits /\ Idle /\ ~walking
  /\ m \notin heap
  /\ heap' = heap \cup {m}
  /\ macro' = [macro EXCEPT ![m] = HolderMacro(c)]
  /\ GoesOn(<<Do("start", m)>> \o (IF hands_over THEN <<Do("hand_over", m)>> ELSE <<>>)
            \o <<Do("release", m)>>)
  /\ UNCHANGED <<listVars, deferred, walkVars, bodyVars>>

HolderDestroyed(m) ==
  /\ Kits /\ Idle /\ ~walking
  /\ macro[m].held
  /\ RemovedAndReleased(m)
  /\ UNCHANGED <<deferred, stack, walkVars, bodyVars>>

-------------------------------------------------------------------------------
(* DDE conversations.  A conversation owns a macro as a holder does, but      *)
(* nothing tells it that the macro is gone: after a script that ran past its  *)
(* end, or a world that was closed, its pointer dangles and what the next     *)
(* transaction does is undefined.  The model goes no further with it: `dde`   *)
(* is lost with the macro.                                                    *)

\* connect_confirm
Connects(m, c) ==
  /\ Kits /\ Idle /\ ~walking
  /\ m \notin heap
  /\ heap' = heap \cup {m}
  /\ macro' = [macro EXCEPT ![m] = [Unused EXCEPT !.owner = c, !.dde = TRUE]]
  /\ UNCHANGED <<listVars, deferred, stack, walkVars, bodyVars>>

Transaction(m) == Kits /\ Idle /\ ~walking /\ macro[m].dde

\* execute: the owner stays the creature selected when the conversation began.
\* A poke only replaces the text.
Executes(m) ==
  /\ Transaction(m)
  /\ GoesOn(<<Do("start", m)>>)
  /\ UNCHANGED <<listVars, heapVars, deferred, walkVars, bodyVars>>

\* request of "Macro": unlike a holder's, the macro may be running, and the
\* request is then the end of the script it was in.
Requests(m) ==
  /\ Transaction(m)
  /\ macro' = [macro EXCEPT ![m].capture = TRUE, ![m].paused = FALSE]
  /\ StepDoneThen(m, <<Do("uncapture", m)>>)
  /\ UNCHANGED <<listVars, heap, deferred, walkVars, bodyVars>>

\* Mutant: the conversation deletes its macro and leaves it in the list.
DisconnectsListed(m) ==
  /\ Transaction(m)
  /\ Freed({m})
  /\ UNCHANGED <<listVars, deferred, stack, walkVars, bodyVars>>

Disconnects(m) ==
  /\ Transaction(m)
  /\ RemovedAndReleased(m)
  /\ UNCHANGED <<deferred, stack, walkVars, bodyVars>>

-------------------------------------------------------------------------------
(* Steps of a kit's call *)

StartStep ==
  /\ AtStep("start")
  /\ Started(Subject, macro[Subject], Tail(Top.todo))
  /\ UNCHANGED <<heap, deferred, walkVars, bodyVars>>

\* Mutant: the holder keeps the macro it has handed over.
HandsOverShared ==
  /\ AtStep("hand_over")
  /\ macro' = IF macro[Subject].held /\ Subject \in ToSet(running)
                THEN [macro EXCEPT ![Subject].destroy_when_finished = TRUE]
                ELSE macro
  /\ StepDone
  /\ UNCHANGED <<listVars, heap, deferred, walkVars, bodyVars>>

HandsOver ==
  /\ AtStep("hand_over")
  /\ macro' = IF macro[Subject].held /\ Subject \in ToSet(running)
                THEN [macro EXCEPT ![Subject].held = FALSE,
                                   ![Subject].destroy_when_finished = TRUE]
                ELSE macro
  /\ StepDone
  /\ UNCHANGED <<listVars, heap, deferred, walkVars, bodyVars>>

ReleaseStep ==
  /\ AtStep("release")
  /\ IF macro[Subject].held THEN RemovedAndReleased(Subject)
                            ELSE UNCHANGED <<listVars, heapVars>>
  /\ StepDone
  /\ UNCHANGED <<deferred, walkVars, bodyVars>>

Uncaptures ==
  /\ AtStep("uncapture")
  /\ macro' = [macro EXCEPT ![Subject].capture = FALSE]
  /\ StepDone
  /\ UNCHANGED <<listVars, heap, deferred, walkVars, bodyVars>>

-------------------------------------------------------------------------------
Command ==
  \/ Pauses \/ Yields \/ Ends \/ Terminates
  \/ \E o \in Objects : Kill(o)
  \/ \E c \in Creatures : \/ Cdie(c) \/ WakesUp(c)
                          \/ \E i \in Indicators : FallsAsleep(c, i)

CommandStep ==
  \/ Returned \/ ReturnedDestroyed
  \/ TurnsBegin \/ TurnBeforePurge \/ Purges \/ Dies
  \/ FiresNothing \/ FiresDeferred \/ FiresReload \/ \E m \in Macros : FiresNew(m)

Walk == WalkBegins \/ WalkTurn \/ AppliesDeferred \/ Advances \/ WalkEnds

Outside ==
  \/ \E o \in Objects : ObjectEvent(o) \/ ObjectKilled(o)
  \/ \E c \in Creatures : CreatureEvent(c) \/ CreatureDies(c)
  \/ Clears

Kit ==
  \/ \E m \in Macros, c \in Selectable :
       \/ HolderCreated(m, c) \/ HolderStarts(m, c) \/ HolderOutputs(m, c)
       \/ \E hands_over \in BOOLEAN : FiresCommand(m, c, hands_over)
       \/ Connects(m, c)
  \/ \E m \in Macros : HolderDestroyed(m) \/ Executes(m) \/ Requests(m) \/ Disconnects(m)
  \/ StartStep \/ HandsOver \/ ReleaseStep \/ Uncaptures

Next == Command \/ CommandStep \/ Walk \/ Outside \/ Kit
Spec == Init /\ [][Next]_vars
-------------------------------------------------------------------------------
(* Properties *)

\* No macro is deleted while a frame of execute_interpreter, or the kit's call
\* that waits for its output, still uses it (the mark in
\* purge_destroy_when_finished_macros_for_owner is there for this).
NoUseAfterFree ==
  /\ OnStack \subseteq heap \cup {NoMacro}
  /\ \A i \in DOMAIN stack : \A s \in ToSet(stack[i].todo) :
       s.op = "uncapture" => s.of \in heap

\* The list names each macro once, and none that is deleted or purged, however
\* kills, ends and restarts nest (g_running_macros holds raw pointers).
ListSound ==
  /\ IsInjective(running)
  /\ \A m \in ToSet(running) : m \in heap /\ ~macro[m].purged

\* Between two turns of a walk exactly the macros before the index have had
\* their turn: none gets two, and none that was there is passed over, whatever
\* the turns removed and added (document.cpp's macro loop, row 61).
EachOnce ==
  walking /\ Idle =>
    /\ index <= Len(running)
    /\ \A k \in DOMAIN running : running[k] \in turned <=> k <= index

\* A macro marked by a purge runs no command after the one it was in.
PurgedRunsNoMore ==
  InInterpreter => ~macro[Top.macro].purged

\* An event held back for a paused script has a script of its owner to come
\* after: otherwise no turn would ever apply it (FIX row 18).  The object a kit
\* may select is left out: its event waits for ever if the kit destroys the macro.
DeferredHasTurn ==
  Idle => \A o \in deferred \ Selectable : \E m \in ToSet(running) : macro[m].owner = o

\* A macro deletes itself at its end or is deleted by its holder, never both:
\* a second delete corrupted the heap (remove_from_running_scheduler_and_release).
OneOwner ==
  \A m \in heap : LET f == macro[m]
                  IN  ~(f.held /\ f.destroy_when_finished) /\ ~(f.dde /\ (f.held \/ f.destroy_when_finished))

\* Nothing the interpreter holds a pointer to is freed, listed twice or owned twice,
\* however kills, deaths, sleeps, ends and kits' calls nest on the C++ stack.
MemorySound == TypeOK /\ NoUseAfterFree /\ ListSound /\ OneOwner
=============================================================================
