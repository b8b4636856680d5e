------------------------------- MODULE CaosScript -------------------------------
(***************************************************************************)
(* One script in the interpreter of scripting/macro.cpp: its control flow  *)
(* (enum, loop, reps, doif, gsub), the turns it runs in, and the registry  *)
(* of objects that an enumeration walks while objects are killed and born. *)
(*                                                                         *)
(* A program is a sequence of commands, [op, arg]; the other commands of   *)
(* the language change what these conditions and the registry show, which  *)
(* is left free.  The value stack is kept as frames: a frame is what one   *)
(* construct pushes and pops, Values(kind) 32-bit values of the code's 20. *)
(***************************************************************************)
EXTENDS Integers, Sequences, FiniteSets, SequencesExt, SequenceFilter

CONSTANTS
    Programs,   \* the scripts; the first command is number 1
    Objects, Creatures,
    Owner,      \* the script's own object, which another module removes
    Nobody,
    StackSize,  \* values in caos_value_stack
    LogLimit,   \* kRemovalLogLimit: removals the registry remembers
    Word        \* 2^32: counts are unsigned words

ASSUME CaosScriptAssumption ==
    /\ Creatures \subseteq Objects /\ Nobody \notin Objects
    /\ Owner \notin Objects \union {Nobody}
    /\ StackSize \in Nat /\ LogLimit \in Nat /\ Word \in Nat \ {0}
    /\ \A p \in Programs :
        /\ Len(p) \in Nat /\ DOMAIN p = 1 .. Len(p)
        /\ \A i \in DOMAIN p : p[i].op \in {"wait", "reps"} => p[i].arg \in 0 .. Word - 1

VARIABLES
    program, cursor,
    frames,    \* of the value stack, the newest last
    waiting,   \* wait_ticks_remaining
    waited,    \* turns spent at the present wait
    state,     \* "out" of a turn, "in" one, "ended", "crossed"
    capture,   \* capture_output_enabled
    target,
    registry,  \* the non-scenery objects, in order
    hidden,    \* killed objects below the world that no save has freed yet
    unborn,
    removals,  \* the registry's log of [serial, index], indices from 0
    serial,    \* removals so far
    missed     \* objects that a finished enumeration should have visited

caosVars == <<program, cursor, frames, waiting, waited, state, capture, target,
          registry, hidden, unborn, removals, serial, missed>>
world == <<registry, hidden, unborn, removals, serial>>
script == <<program, cursor, frames, waiting, waited, state, capture, target, missed>>

Values(kind) == CASE kind = "enum" -> 4 [] kind = "reps" -> 2 [] OTHER -> 1
StackFrame == [kind : {"enum", "reps", "loop", "gsub"}, back : Nat, n : Int,
          since : Int, matches : SUBSET Objects, seen : Seq(Objects)]
NoSerial == -1
\* back: saved cursor; n: count or index; since: removal serial; the last two
\* are the history of an enumeration
Push(kind, n, since, matches, seen) ==
    [kind |-> kind, back |-> cursor + 1, n |-> n, since |-> since,
     matches |-> matches, seen |-> seen]
Pushed == Cardinality({x \in (DOMAIN frames) \X (1 .. 4) : x[2] <= Values(frames[x[1]].kind)})

CaosTypeOK ==
    /\ program \in Programs /\ cursor \in 1 .. Len(program) + 1
    /\ frames \in Seq(StackFrame) /\ Pushed <= StackSize
    /\ waiting \in Nat /\ waited \in Nat /\ capture \in BOOLEAN
    /\ state \in {"out", "in", "ended", "crossed"}
    /\ target \in Objects \union {Owner, Nobody}
    /\ IsInjective(registry) /\ ToSet(registry) \subseteq Objects \ unborn
    /\ hidden \subseteq ToSet(registry)
    /\ Len(removals) <= LogLimit /\ missed \subseteq Objects

CaosInit ==
    /\ program \in Programs /\ cursor = 1 /\ frames = <<>> /\ waiting = 0 /\ waited = 0
    /\ state = "out" /\ capture = FALSE /\ target = Owner
    /\ registry \in {s \in SeqOf(Objects, Cardinality(Objects)) : IsInjective(s)}
    /\ unborn = Objects \ ToSet(registry)
    /\ hidden = {} /\ removals = <<>> /\ serial = 0 /\ missed = {}

-----------------------------------------------------------------------------
(* The registry: WorldRuntime                                               *)
IndexOf(o) == (CHOOSE i \in DOMAIN registry : registry[i] = o) - 1

Erase(o) ==
    /\ registry' = RemoveAt(registry, IndexOf(o) + 1)
    /\ hidden' = hidden \ {o}
    /\ serial' = serial + 1
    /\ LET log == Append(removals, [serial |-> serial + 1, index |-> IndexOf(o)])
       IN  removals' = IF Len(log) > LogLimit THEN Tail(log) ELSE log

\* a variant: no translation, as in the original
IndexUntranslated(index, since) == index

\* object_index_after_removals: the index moved back for every removal at or
\* before it since it was saved, unless the log no longer goes back that far
Moved(log, index, since) ==
    LET moved[k \in 0 .. Len(log)] ==
          IF k = 0 THEN index
          ELSE IF log[k].serial > since /\ log[k].index <= moved[k - 1] THEN moved[k - 1] - 1
          ELSE moved[k - 1]
    IN  moved[Len(log)]
IndexAfter(index, since) ==
    IF removals = <<>> \/ Head(removals).serial > since + 1 THEN index
    ELSE Moved(removals, index, since)

Matching(class) == {o \in ToSet(registry) \ hidden : class = "any" \/ o \in Creatures}

\* Between turns other scripts and updates kill, delete and create.
Kill(o) == \* of an object: it is put below the world
    /\ o \in ToSet(registry) \ (Creatures \union hidden)
    /\ hidden' = hidden \union {o}
    /\ UNCHANGED <<registry, unborn, removals, serial>>
Delete(o) == \* of a creature at once, of a killed object by the next save
    /\ o \in ToSet(registry) \cap (Creatures \union hidden)
    /\ Erase(o) /\ UNCHANGED unborn
Birth(o) ==
    /\ o \in unborn
    /\ registry' = Append(registry, o) /\ unborn' = unborn \ {o}
    /\ UNCHANGED <<hidden, removals, serial>>

\* references to what is gone are cleared (validate_object_context)
Forget(o) == IF target = o THEN Nobody ELSE target

Between ==
    /\ state \in {"out", "ended"}
    /\ \/ \E o \in Objects : Kill(o) /\ UNCHANGED script
       \/ \E o \in Objects : /\ Delete(o) /\ target' = Forget(o)
                             /\ UNCHANGED <<program, cursor, frames, waiting, waited,
                                            state, capture, missed>>
       \/ \E o \in Objects : Birth(o) /\ UNCHANGED script

\* Macro::serialize: a loaded script has no serials, and the world no log.  What
\* an enumeration that is loaded should still visit is not claimed.
Reload ==
    /\ state = "out"
    /\ frames' = [i \in DOMAIN frames |->
                    [frames[i] EXCEPT !.since = NoSerial, !.matches = {}]]
    /\ registry' = Without(registry, hidden)
    /\ hidden' = {} /\ removals' = <<>> /\ serial' = 0
    /\ UNCHANGED <<program, cursor, waiting, waited, state, capture, target, unborn,
                   missed>>

-----------------------------------------------------------------------------
(* The interpreter                                                          *)
Op(p) == program[p].op
Now == program[cursor]
At(op) == state = "in" /\ cursor <= Len(program) /\ Now.op = op
Newest == Last(frames)
Goto(p) == cursor' = p
GoOn == UNCHANGED state  \* iteration_complete: the same turn goes on
\* finalize_interpreter_iteration of cursor_changed: a script that captures its
\* output goes on
EndTurn == state' = IF capture THEN "in" ELSE "out"
Terminate == /\ state' = "ended"
             /\ UNCHANGED <<cursor, frames, waiting, waited, capture, target, missed>>
Count(op, from, to) == Cardinality({p \in from .. to : Op(p) = op})

\* variant: also one inside bracketed text
NextAfterInText ==
    {p \in cursor + 1 .. Len(program) :
        /\ Op(p) = "next" \/ program[p] = [op |-> "text", arg |-> "next"]
        /\ Count("enum", cursor + 1, p - 1) = Count("next", cursor + 1, p - 1)}
\* seek_next_command: the `next` of this enum; those of enums inside are passed
NextAfter ==
    {p \in cursor + 1 .. Len(program) :
        /\ Op(p) = "next"
        /\ Count("enum", cursor + 1, p - 1) = Count("next", cursor + 1, p - 1)}
First(S) == CHOOSE p \in S : \A q \in S : p <= q

\* scan_branch: the endi, or the else if one is looked for, of this doif
BranchEnds(stopAtElse) ==
    {p \in cursor + 1 .. Len(program) :
        /\ Op(p) = "endi" \/ (stopAtElse /\ Op(p) = "else")
        /\ Count("doif", cursor + 1, p - 1) = Count("endi", cursor + 1, p - 1)}

\* The frame an ending construct needs; with another on top the code takes the
\* values of another construct for cursors and counts, which ends the model's run.
Has(kind) == frames # <<>> /\ Newest.kind = kind
KindOf == [next |-> "enum", untl |-> "loop", ever |-> "loop", repe |-> "reps", retn |-> "gsub"]
Closers == DOMAIN KindOf
Crossed ==
    /\ \E op \in Closers : At(op) /\ ~Has(KindOf[op])
    /\ state' = IF frames = <<>> THEN "ended" ELSE "crossed"
    /\ UNCHANGED <<program, cursor, frames, waiting, waited, capture, target, missed>>
    /\ UNCHANGED world

Pushes(frame) == Pushed + Values(frame.kind) <= StackSize
Enter(frame) == \* loop, reps, gsub
    IF Pushes(frame)
    THEN frames' = Append(frames, frame) /\ GoOn
         /\ UNCHANGED <<waiting, waited, capture, target, missed>>
    ELSE state' = "ended" /\ UNCHANGED <<frames, waiting, waited, capture, target, missed>>

Visit(frame, i) == \* an enumeration comes to the object at index i - 1
    /\ target' = registry[i]
    /\ frames' = Append(frame.below, [kind |-> "enum", back |-> frame.back, n |-> i - 1,
                                     since |-> serial, matches |-> frame.matches,
                                     seen |-> Append(frame.seen, registry[i])])

Enum ==
    /\ At("enum")
    /\ LET S == {i \in DOMAIN registry : registry[i] \in Matching(Now.arg)} IN
       \/ /\ S = {} /\ target' = Owner
          /\ IF NextAfter = {} THEN state' = "ended" /\ UNCHANGED cursor
             ELSE Goto(First(NextAfter) + 1) /\ GoOn
          /\ UNCHANGED frames
       \/ /\ S # {} /\ Pushed + Values("enum") <= StackSize
          /\ Visit([below |-> frames, back |-> cursor + 1, seen |-> <<>>,
                    matches |-> Matching(Now.arg)], First(S))
          /\ Goto(cursor + 1) /\ GoOn
       \/ /\ S # {} /\ Pushed + Values("enum") > StackSize
          /\ state' = "ended" /\ target' = registry[First(S)] /\ UNCHANGED <<frames, cursor>>
    /\ UNCHANGED <<program, waiting, waited, capture, missed, world>>

NextObject ==
    /\ At("next") /\ Has("enum")
    /\ LET class == program[Newest.back - 1].arg
           after == IF Newest.since = NoSerial THEN Newest.n ELSE IndexAfter(Newest.n, Newest.since)
           S == {i \in DOMAIN registry : i - 1 > after /\ registry[i] \in Matching(class)}
       IN  IF S = {}
           THEN /\ frames' = Front(frames) /\ target' = Owner /\ Goto(cursor + 1)
                /\ missed' = (Newest.matches \cap Matching(class)) \ ToSet(Newest.seen)
           ELSE /\ Visit([below |-> Front(frames), back |-> Newest.back,
                          matches |-> Newest.matches, seen |-> Newest.seen], First(S))
                /\ Goto(Newest.back) /\ UNCHANGED missed
    /\ GoOn /\ UNCHANGED <<program, waiting, waited, capture, world>>

\* A true doif goes on; a false one, and an else that is reached, scan.
Branch ==
    \/ /\ At("doif") \/ At("endi") \/ At("text")
       /\ Goto(cursor + 1) /\ GoOn
    \/ /\ At("doif") \/ At("else")
       /\ LET ends == BranchEnds(Now.op = "doif")
          IN  IF ends = {} THEN state' = "ended" /\ UNCHANGED cursor
              ELSE Goto(First(ends) + 1) /\ GoOn

Labels == {p \in DOMAIN program : program[p] = [op |-> "subr", arg |-> Now.arg]}

\* begin_loop, begin_counted_repeat, execute_global_subroutine_command
Begin ==
    \/ /\ At("loop") /\ Enter(Push("loop", 0, NoSerial, {}, <<>>)) /\ Goto(cursor + 1)
    \/ /\ At("reps") /\ Enter(Push("reps", Now.arg, NoSerial, {}, <<>>)) /\ Goto(cursor + 1)
    \/ /\ At("gsub") /\ Labels # {} /\ Enter(Push("gsub", 0, NoSerial, {}, <<>>))
       /\ Goto(First(Labels) + 1)
    \/ At("gsub") /\ Labels = {} /\ Terminate

\* untl, ever, repe, retn
Close ==
    \/ /\ At("untl") /\ Has("loop")
       /\ \/ frames' = Front(frames) /\ Goto(cursor + 1)
          \/ UNCHANGED frames /\ Goto(Newest.back)
    \/ At("ever") /\ Has("loop") /\ UNCHANGED frames /\ Goto(Newest.back)
    \/ /\ At("repe") /\ Has("reps")
       /\ IF Newest.n <= 1
          THEN frames' = Front(frames) /\ Goto(cursor + 1)
          ELSE frames' = [frames EXCEPT ![Len(frames)].n = @ - 1] /\ Goto(Newest.back)
    \/ At("retn") /\ Has("gsub") /\ frames' = Front(frames) /\ Goto(Newest.back)

\* execute_wait_command: the first pass stores the count, each pass ends a turn,
\* the last one moves on.
Wait ==
    /\ At("wait")
    /\ LET left == IF waiting = 0 THEN (Now.arg - 1) % Word ELSE waiting - 1 IN
       /\ waiting' = left
       /\ IF left # 0 THEN waited' = waited + 1 /\ UNCHANGED cursor
          ELSE waited' = 0 /\ Goto(cursor + 1)
    /\ EndTurn

\* variant: the turn goes on
OverGoesOn == GoOn
OverEndsTurn == EndTurn
\* over: again next turn while the target's animation runs
Over ==
    /\ At("over")
    /\ \/ Goto(cursor + 1)
       \/ target # Nobody /\ UNCHANGED cursor
    /\ OverEndsTurn

\* kill targ: a creature leaves the registry, an object goes below the world; one
\* that kills its owner is gone
KillTarget ==
    /\ At("kill") /\ Goto(cursor + 1)
    /\ IF target = Owner THEN state' = "ended" ELSE EndTurn
    /\ CASE target \in {Owner, Nobody} -> UNCHANGED <<world, target>>
         [] target \in Creatures -> Delete(target) /\ target' = Nobody
         [] OTHER -> /\ IF target \in hidden THEN UNCHANGED world ELSE Kill(target)
                     /\ UNCHANGED target

Instantiate == At("inst") /\ capture' = TRUE /\ Goto(cursor + 1) /\ GoOn

\* stop, and a subr that is run into, and the end of the text
Stop == At("stop") \/ At("subr") \/ (state = "in" /\ cursor > Len(program))

Command ==
    \/ Enum \/ NextObject
    \/ Branch /\ UNCHANGED <<program, frames, waiting, waited, capture, target, missed, world>>
    \/ Begin /\ UNCHANGED <<program, world>>
    \/ Close /\ GoOn /\ UNCHANGED <<program, waiting, waited, capture, target, missed, world>>
    \/ Wait /\ UNCHANGED <<program, frames, capture, target, missed, world>>
    \/ Over /\ UNCHANGED <<program, frames, waiting, waited, capture, target, missed, world>>
    \/ KillTarget /\ UNCHANGED <<program, frames, waiting, waited, capture, missed>>
    \/ Instantiate /\ UNCHANGED <<program, frames, waiting, waited, target, missed, world>>
    \/ Stop /\ Terminate /\ UNCHANGED <<program, world>>
    \/ Crossed

Turn == /\ state = "out" /\ state' = "in"
        /\ UNCHANGED <<program, cursor, frames, waiting, waited, capture, target, missed, world>>

\* variants of what an event leaves of the script it replaces
NoWaitKept == waiting
NoWait == 0
\* reset_execution_state: an event starts the script anew
Event ==
    /\ state \in {"out", "ended"}
    /\ cursor' = 1 /\ frames' = <<>> /\ waiting' = NoWait /\ waited' = 0
    /\ capture' = FALSE /\ target' = Owner /\ state' = "out" /\ missed' = {}
    /\ UNCHANGED <<program, world>>

CaosNext == Command \/ Turn \/ Event \/ Between \/ Reload
CaosSpec == CaosInit /\ [][CaosNext]_caosVars
\* The interpreter does not leave a turn on its own.
CaosFairSpec == CaosSpec /\ WF_caosVars(Command)

-----------------------------------------------------------------------------
(* An enumeration visits every object that matches from its beginning to its *)
(* end, whatever is killed, freed or born while its body runs and waits.     *)
(* One that a save and a load interrupt is exempt: serials are not archived. *)
EnumVisitsAll == missed = {}

(* ... and none twice, loaded or not.                                        *)
EnumVisitsOnce ==
    \A i \in DOMAIN frames : frames[i].kind = "enum" => IsInjective(frames[i].seen)

Ends(kind) == {op \in Closers : KindOf[op] = kind}
Endings(op) == IF op = "doif" THEN {"endi"} ELSE Ends(op)
Begins(p) == {i \in DOMAIN p : p[i].op \in {"enum", "loop", "reps", "doif"}}
Finishes(p) == {i \in DOMAIN p : p[i].op \in {"next", "untl", "ever", "repe", "endi"}}
\* mate takes each construct's begin to its end: no two overlap, an else stands
\* right in its doif, a subr in no construct, a retn in no loop of its subroutine.
Pairs(p, mate) ==
    /\ \A b \in Begins(p) : mate[b] > b /\ p[mate[b]].op \in Endings(p[b].op)
    /\ \A e \in Finishes(p) : \E b \in Begins(p) : mate[b] = e
    /\ \A b, c \in Begins(p) : b < c => mate[b] < c \/ mate[c] < mate[b]
    /\ \A i \in DOMAIN p :
        LET around == {b \in Begins(p) : b < i /\ i < mate[b]} IN
        /\ p[i].op = "else" => \E b \in around : p[b].op = "doif" /\ \A c \in around : c <= b
        /\ p[i].op = "subr" => around = {}
        /\ p[i].op = "retn" => /\ \A b \in around : p[b].op = "doif"
                              /\ \E l \in 1 .. i - 1 : p[l].op = "subr"
Nested == {p \in Programs : \E mate \in [Begins(p) -> Finishes(p)] : Pairs(p, mate)}

(* A script whose constructs are nested meets each next, untl, ever, repe and *)
(* retn with the values on the stack that its own enum, loop, reps or gsub put*)
(* there: no skipped branch or body and no word in brackets changes that.     *)
CountIn(ops, from, to) == Cardinality({p \in from .. to : Op(p) \in ops})
NeverCrossed ==
    program \in Nested => \A op \in Closers : At(op) =>
        LET kind == KindOf[op] IN
        /\ Has(kind)
        /\ kind # "gsub" => CountIn({kind}, Newest.back - 1, cursor)
                              = CountIn(Ends(kind), Newest.back - 1, cursor)

(* wait n ends n turns, also for a script that an event has begun anew in    *)
(* the middle of an earlier wait; wait 0 is the longest.                     *)
WaitLasts ==
    [][\A p \in DOMAIN program :
        Wait /\ p = cursor /\ cursor' # cursor =>
            waited + 1 = IF program[p].arg = 0 THEN Word ELSE program[p].arg]_caosVars

(* A turn ends, so one script never keeps the world from its tick.           *)
TurnsEnd == state = "in" ~> state # "in"

\* An enumeration visits just what it should, on a stack that holds its values.
EnumSound == CaosTypeOK /\ EnumVisitsAll /\ EnumVisitsOnce
=============================================================================
