------------------------------ MODULE WorldTick ------------------------------
(***************************************************************************)
(* One turn of the world: Document::update_world, the timer that calls it, *)
(* the pause and the file commands that stop and start that timer, and the *)
(* kits, which are told of a pause by a code they treat as a toggle.       *)
(*                                                                         *)
(* Everything runs on the UI thread.  A message box, inside a script or    *)
(* inside an autosave that fails, runs a nested message loop: `frames` is  *)
(* the C++ stack of calls of update_world, innermost first, and `box` says *)
(* that the innermost one waits for a box.                                 *)
(***************************************************************************)
EXTENDS Integers, Sequences, FiniteSets, SequencesExt

CONSTANTS
    Creatures,   \* creatures that may ever be in the registry
    Nobody,      \* no creature
    Kits,        \* kits that may be open
    Stride,      \* kCreatureUpdateCohortCount, 4 in the code
    MaxTick,     \* the tick and phase counters are taken modulo MaxTick
    MaxFailures, \* updates that an exception ends
    Hands        \* what the player may do, a subset of
                 \* {"openpaused", "consoleinsave"}

ASSUME WorldTickAssumption ==
    /\ Stride \in Nat \ {0}
    /\ MaxTick \in Nat \ {0}
    /\ MaxFailures \in Nat
    /\ Nobody \notin Creatures

VARIABLES
    registry,  \* the creature registry, in order
    gone,      \* creatures that were deleted
    frames,    \* calls of update_world on the stack
    box,       \* a message box of the innermost call is up
    guard,     \* world_update_in_progress_
    cohort,    \* creature_update_cohort_
    tick,      \* world_tick_count_
    phase,     \* world_tick_phase_
    timer,     \* the window has its world update timer
    paused,    \* world_update_paused_
    file,      \* the file command whose dialog is up, and whether it re-arms
    blocked,   \* Document::autosave_blocked
    belief,    \* what each kit thinks of the world
    joined,    \* history: was the kit right when it was opened?
    updated,   \* history: creatures whose chemistry this update has run
    served,    \* history: the creature the walk came to last
    failures

vars == <<registry, gone, frames, box, guard, cohort, tick, phase, timer, paused,
          file, blocked, belief, joined, updated, served, failures>>
walk == <<registry, gone, cohort, tick, phase, updated, served>>
world == <<timer, paused, file>>
kits == <<belief, joined>>

NoFile == [command |-> "none", rearm |-> FALSE]

\* A call of update_world: the place it has come to, the index of its walk, and
\* whether confirm_script_replacement found the world running.
Places == {"scripts", "pick", "brain", "chemistry", "action", "dreams", "phase",
           "score", "saving", "saved", "finish"}
Frame == [at : Places, index : Nat, resume : BOOLEAN]

TypeOK ==
    /\ registry \in Seq(Creatures) /\ IsInjective(registry)
    /\ gone \subseteq Creatures
    /\ frames \in Seq(Frame)
    /\ box \in BOOLEAN /\ (box => frames # <<>>)
    /\ guard \in BOOLEAN /\ timer \in BOOLEAN /\ paused \in BOOLEAN
    /\ blocked \in BOOLEAN
    /\ cohort \in 0 .. Stride - 1
    /\ tick \in 0 .. MaxTick - 1 /\ phase \in 0 .. MaxTick - 1
    /\ file \in [command : {"none", "save", "open"}, rearm : BOOLEAN]
    /\ belief \in [Kits -> {"closed", "running", "paused"}]
    /\ joined \in [Kits -> BOOLEAN]
    /\ updated \subseteq Creatures
    /\ served \in Creatures \union {Nobody}
    /\ failures \in 0 .. MaxFailures

Init ==
    /\ registry \in {s \in SeqOf(Creatures, Cardinality(Creatures)) :
                        IsInjective(s) /\ ToSet(s) # {}}
    /\ gone = {} /\ frames = <<>> /\ box = FALSE /\ guard = FALSE
    /\ cohort = 0 /\ tick = 0 /\ phase = 0
    /\ timer = TRUE /\ paused = FALSE /\ file = NoFile /\ blocked = FALSE
    /\ belief = [k \in Kits |-> "closed"]
    /\ joined = [k \in Kits |-> FALSE]
    /\ updated = {} /\ served = Nobody /\ failures = 0

-----------------------------------------------------------------------------
(* Messages are taken by the main loop, by a box, by a file dialog.         *)
InLoop == frames = <<>> \/ box
Running == ~paused

\* An autosave has sent the first of its two broadcasts.
PairOpen == \E n \in 1 .. Len(frames) : frames[n].at \in {"saving", "saved"}

\* control state 9, which a kit takes as "the other of running and paused"
Told == [k \in Kits |-> IF belief[k] = "running" THEN "paused"
                       ELSE IF belief[k] = "paused" THEN "running" ELSE "closed"]

\* A kit starts with game_paused_ = false and asks nobody.
OpenKit(k) ==
    /\ InLoop /\ belief[k] = "closed"
    /\ belief' = [belief EXCEPT ![k] = "running"]
    /\ joined' = [joined EXCEPT ![k] = ~paused /\ ~PairOpen]
    /\ UNCHANGED <<walk, world, frames, box, guard, blocked, failures>>

CloseKit(k) ==
    /\ InLoop /\ belief[k] # "closed"
    /\ belief' = [belief EXCEPT ![k] = "closed"]
    /\ UNCHANGED <<walk, world, frames, box, guard, blocked, joined, failures>>

\* The toolbar works in the main loop only, the debug console also beside a box
\* or a file dialog.
ConsoleAllowed == file.command = "none" \/ "consoleinsave" \in Hands

\* service_world_update_timer on a running world
PauseWorld ==
    /\ belief' = Told /\ timer' = FALSE /\ paused' = TRUE

\* arm_world_update_timer on a paused world
ResumeWorld ==
    /\ belief' = Told /\ timer' = TRUE /\ paused' = FALSE

Pause ==
    /\ InLoop /\ ConsoleAllowed /\ Running
    /\ PauseWorld
    /\ UNCHANGED <<walk, file, frames, box, guard, blocked, joined, failures>>

Play ==
    /\ InLoop /\ ConsoleAllowed /\ ~Running
    /\ ResumeWorld
    /\ UNCHANGED <<walk, file, frames, box, guard, blocked, joined, failures>>

-----------------------------------------------------------------------------
(* File commands: the timer is killed, a dialog runs, the timer comes back. *)
BeginFile(command) ==
    /\ frames = <<>> /\ file = NoFile
    /\ command = "open" /\ paused => "openpaused" \in Hands
    /\ timer' = FALSE
    /\ file' = [command |-> command, rearm |-> Running]
    /\ UNCHANGED <<walk, paused, frames, box, guard, blocked, kits, failures>>

\* The world was saved, or the dialog was cancelled: re-arm what was running
\* when the command began (LC_FIX(33)).
EndFile ==
    /\ frames = <<>> /\ file.command # "none"
    /\ timer' = (timer \/ file.rearm)
    /\ file' = NoFile
    /\ UNCHANGED <<walk, paused, frames, box, guard, blocked, kits, failures>>

\* Another world was read: DeleteContents, then Document::open_document, which
\* arms the timer and leaves the pause alone.
OpenWorld ==
    /\ frames = <<>> /\ file.command = "open"
    /\ "openpaused" \in Hands \/ ~paused
    /\ \E s \in SeqOf(Creatures, Cardinality(Creatures)) :
            IsInjective(s) /\ ToSet(s) = Creatures \ gone /\ registry' = s
    /\ timer' = TRUE /\ file' = NoFile
    /\ guard' = FALSE /\ cohort' = 0 /\ tick' = 0 /\ phase' = 0
    /\ updated' = {} /\ served' = Nobody
    /\ UNCHANGED <<gone, paused, frames, box, blocked, kits, failures>>

-----------------------------------------------------------------------------
(* update_world                                                             *)
Top == frames[1]
GoTo(place, n) == frames' = <<[Top EXCEPT !.at = place, !.index = n]>> \o Tail(frames)
Working == frames # <<>> /\ ~box
At(place) == Working /\ Top.at = place

\* update_world entered by the timer; a call that finds the guard set returns.
\* MaxNested bounds the stack of updates, should the guard not hold one off.
MaxNested == 2
MayBegin == ~guard
BeginUpdate ==
    /\ InLoop /\ timer /\ MayBegin /\ Len(frames) < MaxNested
    /\ guard' = TRUE /\ box' = FALSE
    /\ frames' = <<[at |-> "scripts", index |-> 0, resume |-> FALSE]>> \o frames
    /\ updated' = {} /\ served' = Nobody
    /\ UNCHANGED <<registry, gone, cohort, tick, phase, world, blocked, kits, failures>>

\* Scripts run by object ticks, macros, creature updates and queued events.
ScriptPlaces == {"scripts", "brain", "chemistry", "action", "phase"}

Birth(c) ==
    /\ Working /\ Top.at \in ScriptPlaces
    /\ c \notin gone \union ToSet(registry)
    /\ registry' = Append(registry, c)
    /\ UNCHANGED <<gone, cohort, tick, phase, updated, served, world, frames, box,
                   guard, blocked, kits, failures>>

Deletion(c) ==
    /\ Working /\ Top.at \in ScriptPlaces
    /\ \E n \in DOMAIN registry :
          registry[n] = c /\ registry' = RemoveAt(registry, n)
    /\ gone' = gone \union {c}
    /\ UNCHANGED <<cohort, tick, phase, updated, served, world, frames, box, guard,
                   blocked, kits, failures>>

\* A box of a script.  confirm_script_replacement pauses a running world first.
OpenBox ==
    /\ Working /\ Top.at \in {"scripts", "phase"}
    /\ box' = TRUE
    /\ UNCHANGED <<walk, world, frames, guard, blocked, kits, failures>>

AskReplacement ==
    /\ Working /\ Top.at \in {"scripts", "phase"} /\ Running
    /\ PauseWorld
    /\ box' = TRUE
    /\ frames' = <<[Top EXCEPT !.resume = TRUE]>> \o Tail(frames)
    /\ UNCHANGED <<walk, file, guard, blocked, joined, failures>>

CloseBox ==
    /\ box
    /\ box' = FALSE
    /\ frames' = <<[Top EXCEPT !.resume = FALSE]>> \o Tail(frames)
    /\ IF Top.resume /\ ~Running
       THEN ResumeWorld
       ELSE UNCHANGED <<belief, timer, paused>>
    /\ UNCHANGED <<walk, file, guard, blocked, joined, failures>>

\* The rest of the update is abandoned; C1MainFrame::update_document_world
\* catches what was thrown and gives the guard back.
Abandon ==
    /\ guard' = FALSE
    /\ frames' = Tail(frames)
    /\ box' = (Tail(frames) # <<>>)

Fail ==
    /\ Working /\ Top.at \in ScriptPlaces \union {"dreams"}
    /\ failures < MaxFailures
    /\ failures' = failures + 1
    /\ Abandon
    /\ UNCHANGED <<walk, world, blocked, kits>>

ScriptsDone ==
    /\ At("scripts")
    /\ GoTo("pick", cohort)
    /\ UNCHANGED <<walk, world, box, guard, blocked, kits, failures>>

\* The cohort: indices are 0-based, as in the code, and the bound is read anew.
InRegistry(n) == n < Len(registry)
Creature(n) == registry[n + 1]
NextIndexStuck == Top.index  \* a variant: no step
NextIndex == Top.index + Stride

\* One that dreams or does not tick is stepped over, a dead one has no brain.
PickCreature ==
    /\ At("pick") /\ InRegistry(Top.index)
    /\ served' = Creature(Top.index)
    /\ \/ GoTo("brain", Top.index)
       \/ GoTo("chemistry", Top.index)
       \/ GoTo("pick", NextIndex)
    /\ UNCHANGED <<registry, gone, cohort, tick, phase, updated, world, box, guard,
                   blocked, kits, failures>>

\* a variant: one cohort too few
NextCohortShort == IF cohort + 1 < Stride - 1 THEN cohort + 1 ELSE 0
NextCohort == IF cohort + 1 < Stride THEN cohort + 1 ELSE 0

CohortDone ==
    /\ At("pick") /\ ~InRegistry(Top.index)
    /\ cohort' = NextCohort
    /\ GoTo("dreams", 0)
    /\ UNCHANGED <<registry, gone, tick, phase, updated, served, world, box, guard,
                   blocked, kits, failures>>

BrainDone ==
    /\ At("brain") /\ InRegistry(Top.index)
    /\ GoTo("chemistry", Top.index)
    /\ UNCHANGED <<walk, world, box, guard, blocked, kits, failures>>

Chemistry ==
    /\ At("chemistry") /\ InRegistry(Top.index)
    /\ updated' = updated \union {Creature(Top.index)}
    /\ GoTo("action", Top.index)
    /\ UNCHANGED <<registry, gone, cohort, tick, phase, served, world, box, guard,
                   blocked, kits, failures>>

\* action selection, if alive, and the creature's own tick
ActionDone ==
    /\ At("action") /\ InRegistry(Top.index)
    /\ GoTo("pick", NextIndex)
    /\ UNCHANGED <<walk, world, box, guard, blocked, kits, failures>>

\* The registry shrank under the walk: creature_at throws std::out_of_range.
IndexThrows ==
    /\ Working /\ Top.at \in {"brain", "chemistry", "action"}
    /\ ~InRegistry(Top.index)
    /\ Abandon
    /\ UNCHANGED <<walk, world, blocked, kits, failures>>

DreamsDone ==
    /\ At("dreams")
    /\ phase' = (phase + 1) % MaxTick
    /\ GoTo("phase", 0)
    /\ UNCHANGED <<registry, gone, cohort, tick, updated, served, world, box, guard,
                   blocked, kits, failures>>

PhaseDone ==
    /\ At("phase")
    /\ GoTo("score", 0)
    /\ UNCHANGED <<walk, world, box, guard, blocked, kits, failures>>

\* a variant: only the closing half of the pair is sent
BeginAutosaveSilent ==
    /\ At("score") /\ ~blocked
    /\ GoTo("saving", 0)
    /\ UNCHANGED <<walk, world, box, guard, blocked, kits, failures>>

\* The autosave is due: the first half of the pair of broadcasts.
BeginAutosave ==
    /\ At("score") /\ ~blocked
    /\ belief' = Told
    /\ GoTo("saving", 0)
    /\ UNCHANGED <<walk, world, box, guard, blocked, joined, failures>>

\* MFC reports a save it could not complete in a box, and save() still returns.
SaveReport ==
    /\ At("saving")
    /\ box' = TRUE
    /\ UNCHANGED <<walk, world, frames, guard, blocked, kits, failures>>

SaveReturns ==
    /\ At("saving")
    /\ GoTo("saved", 0)
    /\ UNCHANGED <<walk, world, box, guard, blocked, kits, failures>>

\* an exception out of the save ends autosaves for this session
SaveThrows ==
    /\ At("saving")
    /\ blocked' = TRUE
    /\ GoTo("saved", 0)
    /\ UNCHANGED <<walk, world, box, guard, kits, failures>>

\* the second half of the pair
EndAutosave ==
    /\ At("saved")
    /\ belief' = Told
    /\ GoTo("finish", 0)
    /\ UNCHANGED <<walk, world, box, guard, blocked, joined, failures>>

NoAutosave ==
    /\ At("score")
    /\ GoTo("finish", 0)
    /\ UNCHANGED <<walk, world, box, guard, blocked, kits, failures>>

EndUpdate ==
    /\ At("finish")
    /\ tick' = (tick + 1) % MaxTick
    /\ guard' = FALSE
    /\ frames' = Tail(frames)
    /\ box' = (Tail(frames) # <<>>)
    /\ UNCHANGED <<registry, gone, cohort, phase, updated, served, world, blocked, kits,
                   failures>>

-----------------------------------------------------------------------------
Update ==
    \/ ScriptsDone \/ PickCreature \/ CohortDone \/ BrainDone \/ Chemistry
    \/ ActionDone \/ IndexThrows \/ DreamsDone \/ PhaseDone
    \/ SaveReturns \/ SaveThrows \/ EndAutosave \/ EndUpdate
    \/ BeginAutosave \/ NoAutosave

Scripts ==
    \/ \E c \in Creatures : Birth(c) \/ Deletion(c)
    \/ OpenBox \/ AskReplacement \/ SaveReport \/ Fail

Player ==
    \/ \E k \in Kits : OpenKit(k) \/ CloseKit(k)
    \/ Pause \/ Play \/ EndFile \/ OpenWorld
    \/ \E command \in {"save", "open"} : BeginFile(command)

Next == Update \/ Scripts \/ Player \/ BeginUpdate \/ CloseBox

Spec == Init /\ [][Next]_vars

\* The UI thread goes on with an update, WM_TIMER comes while the timer is set,
\* and the player answers boxes and dialogs.
FairSpec ==
    /\ Spec
    /\ SF_vars(Update) /\ WF_vars(BeginUpdate)
    /\ WF_vars(CloseBox) /\ WF_vars(EndFile \/ OpenWorld)

-----------------------------------------------------------------------------
(* Properties                                                               *)

\* One update at a time, and no update lost to a guard that was not given back:
\* the guard is set exactly while a call of update_world is on the stack,
\* whatever boxes ran inside it and however the last one ended.
GuardIsUpdate ==
    /\ Len(frames) <= 1
    /\ guard = (frames # <<>>)

\* Between file commands the window has its timer exactly if the toolbar shows
\* the world running: pauses, duplicate-script boxes and saves leave neither a
\* paused world that ticks nor a running one that stands still.
TimerMatchesLatch ==
    file.command = "none" => (timer = Running)

\* A kit that was right about the world when it opened stays right: every
\* toggle it is sent has its counterpart, also when a box inside an autosave or
\* a script lets the player pause.
BeliefKept ==
    ~PairOpen => \A k \in Kits :
        joined[k] /\ belief[k] # "closed" => (belief[k] = "paused") = paused

\* However the registry shifts under the walk, no creature's chemistry runs
\* twice in one update.
ChemistryOnce ==
    [][\A c \in updated : Chemistry => Creature(Top.index) # c]_vars

\* While the timer is set and no file command comes, the world goes on: the
\* tick counter changes again and again, whatever updates failed before.
WorldGoesOn ==
    <>[](timer /\ file = NoFile) => []<>(tick = 0) /\ []<>(tick = MaxTick - 1)

\* ... and the walk comes to every creature that stays again and again.
EveryoneServed ==
    \A c \in Creatures :
        <>[](timer /\ file = NoFile /\ c \in ToSet(registry)) => []<>(served = c)

\* The guard, the timer, the toolbar and the kits agree on what the world does,
\* across boxes, file commands, failures and autosaves.
TickSound == TypeOK /\ GuardIsUpdate /\ TimerMatchesLatch /\ BeliefKept

\* The world and everyone in it go on while the timer is set.
WorldServes == WorldGoesOn /\ EveryoneServed
=============================================================================
