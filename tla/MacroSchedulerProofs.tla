------------------------ MODULE MacroSchedulerProofs ------------------------
(***************************************************************************)
(* That nothing the interpreter points at is freed, listed twice or owned  *)
(* twice, that a purged macro runs no further command, that a walk gives   *)
(* each macro one turn, and that an event held back for a paused script    *)
(* has a turn to come: for any number of macros, objects, creatures and    *)
(* kits, any length of the list and any depth of the C++ stack.            *)
(*                                                                         *)
(* One hypothesis is needed, KitsApart: a kit's macro has no owner that    *)
(* falls asleep or dies.  Without it MemorySound is false: a death script  *)
(* loads the kit's macro, which then deletes itself while a frame below is *)
(* still executing it.  The other three rest on the same invariant; the    *)
(* last one needs a second, EventInv, on top of it, and comes last.        *)
(***************************************************************************)
EXTENDS MacroScheduler, SequenceFilterProofs, SequenceTheorems, TLAPS

KitsApart == Kits => Selectable \cap Creatures = {}

-----------------------------------------------------------------------------
(* The inductive invariant *)

\* What a step is about exists.
OwnStep == [op : ObjectSteps \ {"dies"}, of : Objects] \cup [op : {"dies"}, of : Creatures]
           \cup [op : MacroSteps, of : Macros] \cup [op : Returns, of : {Nobody}]
Frame == [macro : Macros \cup {NoMacro}, todo : Seq(OwnStep)]

Parts ==
  /\ deferred \subseteq Objects
  /\ walking \in BOOLEAN /\ index \in Nat
  /\ sleeping \in [Creatures -> Indicators \cup {Nobody}]
  /\ dead \subseteq Creatures

\* The macros: who owns them and who deletes them.
Accounted(f) ==
  /\ f.owner \in Objects
  /\ ~(f.held /\ f.destroy_when_finished)
  /\ ~(f.dde /\ (f.held \/ f.destroy_when_finished))
  /\ f.purged => f.destroy_when_finished
  /\ ~f.destroy_when_finished => Kits /\ f.owner \in Selectable
Owned ==
  /\ heap \subseteq Macros /\ macro \in [Macros -> Fields]
  /\ \A m \in Macros \ heap : macro[m] = Unused
  /\ \A m \in heap : Accounted(macro[m])

\* The list names them once.
Listed ==
  /\ running \in Seq(Macros) /\ Len(running) <= Limit
  /\ \A i, j \in 1..Len(running) : running[i] = running[j] => i = j
  /\ \A i \in 1..Len(running) : running[i] \in heap /\ ~macro[running[i]].purged
  /\ next \in 0..Len(running)

\* What is left of a macro's command: its return comes last, and a creature's
\* event follows at once on the purge of the creature's macros.
InCommand(todo) ==
  \A k \in 1..Len(todo) :
    /\ todo[k].op \in {"turns", "turn", "purge", "fire", "dies", "destroyed", "changed", "complete"}
    /\ todo[k].op \in Returns <=> k = Len(todo)
    /\ todo[k].op = "fire" =>
         \/ todo[k].of \in Indicators
         \/ todo[k].of \in Creatures /\ (k > 1 => todo[k - 1] = Do("purge", todo[k].of))

FiresCreature(todo) ==
  todo # <<>> /\ todo[1].op = "fire" /\ todo[1].of \in Creatures

\* The frames of execute_interpreter: each macro is in one, and only the top one
\* is between two commands.
Frames ==
  /\ stack \in Seq(Frame) /\ Len(stack) \in 1..MaxDepth /\ stack[1].macro = NoMacro
  /\ \A i \in 2..Len(stack) :
       /\ stack[i].macro \in heap /\ ~macro[stack[i].macro].paused
       /\ InCommand(stack[i].todo)
       /\ stack[i].todo # <<>> => i < MaxDepth /\ macro[stack[i].macro].owner \notin Indicators
       /\ macro[stack[i].macro].purged => stack[i].todo # <<>>
       /\ i < Len(stack) => stack[i].todo # <<>> /\ ~FiresCreature(stack[i].todo)
  /\ \A i, j \in 2..Len(stack) : stack[i].macro = stack[j].macro => i = j

\* No listed macro belongs to the creature whose event is next.
Cleared ==
  Len(stack) > 1 /\ FiresCreature(Top.todo) =>
    \A i \in 1..Len(running) : macro[running[i]].owner # Top.todo[1].of

\* The UI thread's own frame.
Bottom ==
  LET todo == stack[1].todo
  IN  \A k \in 1..Len(todo) :
        /\ todo[k].op \notin {"destroyed", "changed", "complete"}
        /\ todo[k].op = "advance" <=> walking /\ k = Len(todo)
        /\ todo[k].op = "start" =>
             /\ k = 1 /\ Len(stack) = 1 /\ todo[k].of \in heap
             /\ macro[todo[k].of].held \/ macro[todo[k].of].dde
        /\ todo[k].op = "uncapture" =>
             /\ Len(todo) = 1 /\ todo[k].of \in heap
             /\ macro[todo[k].of].capture /\ ~macro[todo[k].of].destroy_when_finished
             /\ Len(stack) = 1 \/ stack[2].macro = todo[k].of

\* How far the walk has come: the macros up to there have had their turn.
Reached == IF stack[1].todo = <<>> THEN index ELSE next
Walked ==
  /\ \A m \in turned : \E i \in 1..Len(running) : running[i] = m
  /\ walking => /\ Len(stack) > 1 => stack[1].todo # <<>>
                /\ Reached <= Len(running)
                /\ \A i \in 1..Len(running) : running[i] \in turned <=> i <= Reached

MacroInv == Parts /\ Owned /\ Listed /\ Frames /\ Cleared /\ Bottom /\ Walked

-----------------------------------------------------------------------------
(* Steps and what is left to do *)

\* What a step of each kind is about.
LEMMA OwnSteps ==
  ASSUME NEW s \in OwnStep
  PROVE  /\ s.op \in ObjectSteps => s.of \in Objects
         /\ s.op = "dies" => s.of \in Creatures
         /\ s.op \in MacroSteps => s.of \in Macros
         /\ s \in Step
  BY OwnersAssumption DEF OwnStep, Step, ObjectSteps, MacroSteps, Returns

LEMMA ObjectStep ==
  ASSUME NEW op \in ObjectSteps, NEW o \in Objects, op = "dies" => o \in Creatures
  PROVE  Do(op, o) \in OwnStep /\ Do(op, o).op = op /\ Do(op, o).of = o
  BY DEF Do, OwnStep

LEMMA MacroStep ==
  ASSUME NEW op \in MacroSteps, NEW m \in Macros
  PROVE  Do(op, m) \in OwnStep /\ Do(op, m).op = op /\ Do(op, m).of = m
  BY DEF Do, OwnStep

LEMMA ReturnStep ==
  ASSUME NEW op \in Returns
  PROVE  Return(op) \in OwnStep /\ Return(op).op = op
  BY DEF Return, Do, OwnStep

\* The first step is done.
LEMMA StepTaken ==
  ASSUME NEW todo \in Seq(OwnStep), todo # <<>>
  PROVE  /\ Head(todo) \in OwnStep /\ Head(todo) = todo[1] /\ Len(todo) >= 1
         /\ Tail(todo) \in Seq(OwnStep) /\ Len(Tail(todo)) = Len(todo) - 1
         /\ \A k \in 1..Len(todo) - 1 : Tail(todo)[k] = todo[k + 1]
         /\ Tail(todo) = <<>> <=> Len(todo) = 1
<1>1. Tail(todo) \in Seq(OwnStep) /\ Len(Tail(todo)) = Len(todo) - 1
      /\ \A i \in 1 .. Len(Tail(todo)) : Tail(todo)[i] = todo[i + 1]
  BY HeadTailProperties, Zenon
<1>2. Head(todo) = todo[1] /\ Len(todo) >= 1 /\ Head(todo) \in OwnStep
  OBVIOUS
<1>3. Tail(todo) = <<>> <=> Len(Tail(todo)) = 0
  BY <1>1, EmptySeq
<1> QED  BY <1>1, <1>2, <1>3

LEMMA CommandGoesOn ==
  ASSUME NEW todo \in Seq(OwnStep), todo # <<>>, InCommand(todo)
  PROVE  /\ InCommand(Tail(todo))
         /\ todo[1].op # "purge" => ~FiresCreature(Tail(todo))
         /\ FiresCreature(Tail(todo)) => Tail(todo)[1].of = todo[1].of
         /\ Tail(todo) = <<>> <=> todo[1].op \in Returns
<1> DEFINE n == Len(todo)  t == Tail(todo)
<1>1. /\ t \in Seq(OwnStep) /\ Len(t) = n - 1 /\ n >= 1 /\ n \in Nat
      /\ \A k \in 1..n - 1 : t[k] = todo[k + 1]
      /\ t = <<>> <=> n = 1
  BY StepTaken
<1>2. InCommand(t)
  <2> SUFFICES ASSUME NEW k \in 1..Len(t)
               PROVE  /\ t[k].op \in {"turns", "turn", "purge", "fire", "dies", "destroyed", "changed", "complete"}
                      /\ t[k].op \in Returns <=> k = Len(t)
                      /\ t[k].op = "fire" =>
                           \/ t[k].of \in Indicators
                           \/ t[k].of \in Creatures /\ (k > 1 => t[k - 1] = Do("purge", t[k].of))
    BY DEF InCommand
  <2>1. k + 1 \in 1..n /\ t[k] = todo[k + 1] /\ (k > 1 => t[k - 1] = todo[k]) /\ (k + 1) - 1 = k
        /\ (k = Len(t) <=> k + 1 = n) /\ k + 1 > 1
    BY <1>1
  <2> HIDE DEF t, n
  <2> QED  BY <2>1 DEF InCommand, n
<1>3. FiresCreature(t) => todo[1] = Do("purge", t[1].of)
  <2> SUFFICES ASSUME FiresCreature(t) PROVE todo[1] = Do("purge", t[1].of)
    OBVIOUS
  <2>1. t # <<>> /\ t[1].op = "fire" /\ t[1].of \in Creatures
    BY DEF FiresCreature
  <2>2. 2 \in 1..n /\ t[1] = todo[2] /\ 2 > 1
    BY <1>1, <2>1
  <2>3. t[1].of \in Creatures => t[1].of \notin Indicators
    BY OwnersAssumption
  <2>4. todo[2 - 1] = Do("purge", todo[2].of)
    BY <2>1, <2>2, <2>3 DEF InCommand
  <2> QED  BY <2>2, <2>4
<1>4. t = <<>> <=> todo[1].op \in Returns
  <2>1. 1 \in 1..n
    BY <1>1
  <2>2. todo[1].op \in Returns <=> 1 = n
    BY <2>1 DEF InCommand
  <2> QED  BY <1>1, <2>2
<1>5. FiresCreature(t) => todo[1].op = "purge" /\ t[1].of = todo[1].of
  <2> HIDE DEF t
  <2> QED  BY <1>3 DEF Do
<1> QED  BY <1>2, <1>4, <1>5

\* Steps put in front of a purge.
LEMMA TurnsInFront ==
  ASSUME NEW turns \in Seq(Macros), NEW todo \in Seq(OwnStep), NEW all,
         all = [i \in DOMAIN turns |-> Do("turn", turns[i])] \o todo
  PROVE  /\ all \in Seq(OwnStep) /\ Len(all) = Len(turns) + Len(todo)
         /\ \A k \in 1..Len(turns) : all[k] = Do("turn", turns[k])
         /\ \A k \in 1..Len(todo) : all[Len(turns) + k] = todo[k]
<1> DEFINE f == [i \in DOMAIN turns |-> Do("turn", turns[i])]
<1>1. \A i \in 1..Len(turns) : Do("turn", turns[i]) \in OwnStep
  BY MacroStep DEF MacroSteps
<1>2. f \in Seq(OwnStep) /\ Len(f) = Len(turns) /\ \A k \in 1..Len(turns) : f[k] = Do("turn", turns[k])
  <2>1. f = [i \in 1..Len(turns) |-> Do("turn", turns[i])]
    OBVIOUS
  <2>2. f \in [1..Len(turns) -> OwnStep]
    BY <1>1, <2>1
  <2> QED  BY <2>1, <2>2
<1>3. f \o todo \in Seq(OwnStep) /\ Len(f \o todo) = Len(f) + Len(todo)
      /\ \A i \in 1..Len(f) + Len(todo) : (f \o todo)[i] = IF i <= Len(f) THEN f[i] ELSE todo[i - Len(f)]
  BY <1>2, ConcatProperties, Zenon
<1> HIDE DEF f
<1>4. ASSUME NEW k \in 1..Len(turns) PROVE (f \o todo)[k] = Do("turn", turns[k])
  BY <1>2, <1>3
<1>5. ASSUME NEW k \in 1..Len(todo) PROVE (f \o todo)[Len(turns) + k] = todo[k]
  <2>1. Len(turns) + k \in 1..Len(f) + Len(todo) /\ ~(Len(turns) + k <= Len(f)) /\ Len(turns) + k - Len(f) = k
    BY <1>2
  <2> QED  BY <1>3, <2>1
<1> QED  BY <1>2, <1>3, <1>4, <1>5 DEF f

LEMMA CommandWithTurns ==
  ASSUME NEW turns \in Seq(Macros), NEW todo \in Seq(OwnStep), NEW all, todo # <<>>,
         all = [i \in DOMAIN turns |-> Do("turn", turns[i])] \o todo,
         InCommand(todo), ~FiresCreature(todo)
  PROVE  all \in Seq(OwnStep) /\ all # <<>> /\ InCommand(all) /\ ~FiresCreature(all)
<1>1. /\ all \in Seq(OwnStep) /\ Len(all) = Len(turns) + Len(todo)
      /\ \A k \in 1..Len(turns) : all[k] = Do("turn", turns[k])
      /\ \A k \in 1..Len(todo) : all[Len(turns) + k] = todo[k]
  BY TurnsInFront
<1>2. Len(todo) \in Nat \ {0} /\ Len(turns) \in Nat
  OBVIOUS
<1>3. \A k \in 1..Len(turns) : all[k].op = "turn"
  BY <1>1 DEF Do
<1>4. ASSUME NEW k \in 1..Len(all)
      PROVE  /\ all[k].op \in {"turns", "turn", "purge", "fire", "dies", "destroyed", "changed", "complete"}
             /\ all[k].op \in Returns <=> k = Len(all)
             /\ all[k].op = "fire" =>
                  \/ all[k].of \in Indicators
                  \/ all[k].of \in Creatures /\ (k > 1 => all[k - 1] = Do("purge", all[k].of))
  <2>1. CASE k <= Len(turns)
    <3>1. k \in 1..Len(turns) /\ k # Len(all)
      BY <2>1, <1>1, <1>2
    <3>2. all[k].op = "turn"
      BY <3>1, <1>3
    <3> QED  BY <3>1, <3>2 DEF Returns
  <2>2. CASE k > Len(turns)
    <3> DEFINE j == k - Len(turns)
    <3>1. j \in 1..Len(todo) /\ k = Len(turns) + j /\ (k = Len(all) <=> j = Len(todo))
      BY <2>2, <1>1, <1>2
    <3>2. all[k] = todo[j]
      BY <3>1, <1>1
    <3>3. j > 1 => all[k - 1] = todo[j - 1]
      <4>1. j > 1 => j - 1 \in 1..Len(todo) /\ k - 1 = Len(turns) + (j - 1)
        BY <3>1
      <4> HIDE DEF j
      <4> QED  BY <4>1, <1>1
    <3>4. j = 1 => ~(todo[1].op = "fire" /\ todo[1].of \in Creatures)
      BY DEF FiresCreature
    <3> HIDE DEF j
    <3> QED  BY <3>1, <3>2, <3>3, <3>4 DEF InCommand
  <2> QED  BY <2>1, <2>2, <1>1, <1>2
<1>5. InCommand(all)
  BY <1>4 DEF InCommand
<1>6. ~FiresCreature(all)
  <2>1. CASE Len(turns) = 0
    BY <2>1, <1>1, <1>2 DEF FiresCreature
  <2>2. CASE Len(turns) > 0
    <3>1. 1 \in 1..Len(turns)
      BY <2>2, <1>2
    <3>2. all[1].op = "turn"
      BY <3>1, <1>3
    <3> QED  BY <3>2 DEF FiresCreature
  <2> QED  BY <2>1, <2>2, <1>2
<1> QED  BY <1>1, <1>2, <1>5, <1>6

-----------------------------------------------------------------------------
(* The stack *)

LEMMA TopFrame ==
  ASSUME NEW s \in Seq(Frame), Len(s) >= 1
  PROVE  /\ Last(s) = s[Len(s)] /\ Len(s) \in Nat \ {0} /\ s[Len(s)] \in Frame
         /\ \A i \in 1..Len(s) : s[i].todo \in Seq(OwnStep) /\ s[i].macro \in Macros \cup {NoMacro}
<1>1. Len(s) \in Nat \ {0} /\ \A i \in 1..Len(s) : s[i] \in Frame
  OBVIOUS
<1> QED  BY <1>1 DEF Last, Frame

LEMMA StackGoesOn ==
  ASSUME NEW s \in Seq(Frame), Len(s) >= 1, NEW t \in Seq(OwnStep)
  PROVE  /\ [s EXCEPT ![Len(s)].todo = t] \in Seq(Frame)
         /\ Len([s EXCEPT ![Len(s)].todo = t]) = Len(s)
         /\ \A i \in 1..Len(s) - 1 : [s EXCEPT ![Len(s)].todo = t][i] = s[i]
         /\ [s EXCEPT ![Len(s)].todo = t][Len(s)].macro = s[Len(s)].macro
         /\ [s EXCEPT ![Len(s)].todo = t][Len(s)].todo = t
<1> DEFINE n == Len(s)  e == [s[n] EXCEPT !.todo = t]  r == [s EXCEPT ![n].todo = t]
<1>1. n \in 1..Len(s) /\ s[n] \in Frame /\ n \in Nat
  OBVIOUS
<1>2. e \in Frame /\ e.macro = s[n].macro /\ e.todo = t
  BY <1>1 DEF Frame
<1>3. r = [s EXCEPT ![n] = e]
  BY <1>1
<1> HIDE DEF e
<1>4. /\ [s EXCEPT ![n] = e] \in Seq(Frame) /\ Len([s EXCEPT ![n] = e]) = Len(s)
      /\ \A j \in 1..Len(s) : [s EXCEPT ![n] = e][j] = IF j = n THEN e ELSE s[j]
  BY <1>1, <1>2, ExceptSeq
<1>6. r \in Seq(Frame) /\ Len(r) = Len(s) /\ r[n] = e
  BY <1>1, <1>3, <1>4
<1>7. ASSUME NEW i \in 1..Len(s) - 1 PROVE r[i] = s[i]
  <2>1. i \in 1..Len(s) /\ i # n
    BY <1>1
  <2> QED  BY <2>1, <1>3, <1>4
<1> HIDE DEF r
<1>5. /\ r \in Seq(Frame) /\ Len(r) = Len(s)
      /\ \A i \in 1..Len(s) - 1 : r[i] = s[i]
      /\ r[Len(s)].macro = s[Len(s)].macro /\ r[Len(s)].todo = t
  BY <1>2, <1>6, <1>7
<1> QED  BY <1>5, Zenon DEF r

PushedOn(s, m, t) == Append([s EXCEPT ![Len(s)].todo = t], [macro |-> m, todo |-> <<>>])

LEMMA StackPushed ==
  ASSUME NEW s \in Seq(Frame), Len(s) >= 1, NEW t \in Seq(OwnStep), NEW m \in Macros, NEW r,
         r = PushedOn(s, m, t)
  PROVE  /\ r \in Seq(Frame) /\ Len(r) = Len(s) + 1
         /\ \A i \in 1..Len(s) - 1 : r[i] = s[i]
         /\ r[Len(s)].macro = s[Len(s)].macro /\ r[Len(s)].todo = t
         /\ r[Len(s) + 1].macro = m /\ r[Len(s) + 1].todo = <<>>
<1> DEFINE u == [s EXCEPT ![Len(s)].todo = t]  f == [macro |-> m, todo |-> <<>>]
<1>1. u = [s EXCEPT ![Len(s)].todo = t] /\ r = Append(u, f)
  BY DEF PushedOn
<1>2. f \in Frame /\ f.macro = m /\ f.todo = <<>>
  BY DEF Frame
<1> HIDE DEF u, f
<1>4. /\ u \in Seq(Frame) /\ Len(u) = Len(s)
      /\ \A i \in 1..Len(s) - 1 : u[i] = s[i]
      /\ u[Len(s)].macro = s[Len(s)].macro /\ u[Len(s)].todo = t
  BY StackGoesOn, Zenon DEF u
<1>3. /\ Append(u, f) \in Seq(Frame) /\ Len(Append(u, f)) = Len(u) + 1
      /\ \A i \in 1..Len(u) : Append(u, f)[i] = u[i]
      /\ Append(u, f)[Len(u) + 1] = f
  BY <1>2, <1>4, AppendProperties
<1>5. Len(s) \in Nat \ {0} /\ Len(s) \in 1..Len(u) /\ \A i \in 1..Len(s) - 1 : i \in 1..Len(u)
  BY <1>4
<1>6. r \in Seq(Frame) /\ Len(r) = Len(s) + 1 /\ r[Len(s) + 1] = f
  BY <1>1, <1>3, <1>4
<1>7. \A i \in 1..Len(u) : r[i] = u[i]
  BY <1>1, <1>3
<1> QED  BY <1>2, <1>4, <1>5, <1>6, <1>7

LEMMA StackPopped ==
  ASSUME NEW s \in Seq(Frame), Len(s) >= 2, NEW r, r = Front(s)
  PROVE  /\ r \in Seq(Frame) /\ Len(r) = Len(s) - 1
         /\ \A i \in 1..Len(s) - 1 : r[i] = s[i]
<1>1. Len(s) \in Nat /\ \A i \in 1..Len(s) - 1 : s[i] \in Frame
  OBVIOUS
<1>2. /\ SubSeq(s, 1, Len(s) - 1) \in Seq(Frame)
      /\ Len(SubSeq(s, 1, Len(s) - 1)) = IF 1 <= Len(s) - 1 THEN Len(s) - 1 - 1 + 1 ELSE 0
      /\ \A i \in 1..Len(s) - 1 - 1 + 1 : SubSeq(s, 1, Len(s) - 1)[i] = s[1 + i - 1]
  BY <1>1, SubSeqProperties
<1> QED  BY <1>1, <1>2 DEF Front

-----------------------------------------------------------------------------
(* The list *)

\* Taking macros out of the list keeps the others, in order, and the walk's
\* place among them.
LEMMA ErasedList ==
  ASSUME Listed, NEW gone, Erased(gone), \A m \in turned : \E i \in 1..Len(running) : running[i] = m
  PROVE  /\ running' \in Seq(Macros) /\ Len(running') <= Limit
         /\ \A i, j \in 1..Len(running') : running'[i] = running'[j] => i = j
         /\ \A i \in 1..Len(running') :
              running'[i] \notin gone /\ \E j \in 1..Len(running) : running[j] = running'[i]
         /\ \A j \in 1..Len(running) :
              running[j] \notin gone => \E i \in 1..Len(running') : running'[i] = running[j]
         /\ next' \in 0..Len(running')
         /\ \A m \in turned' : \E i \in 1..Len(running') : running'[i] = m
         /\ (next <= Len(running) /\ \A i \in 1..Len(running) : running[i] \in turned <=> i <= next) =>
              \A i \in 1..Len(running') : running'[i] \in turned' <=> i <= next'
<1> DEFINE A == SubSeq(running, 1, next)  B == SubSeq(running, next + 1, Len(running))
           a == Without(A, gone)  b == Without(B, gone)
<1>1. /\ running \in Seq(Macros) /\ Len(running) \in Nat /\ next \in 0..Len(running) /\ next \in Nat
      /\ \A i \in 1..Len(running) : running[i] \in Macros
  BY DEF Listed
<1>2. /\ A \in Seq(Macros) /\ Len(A) = next
      /\ \A i \in 1..next : A[i] = running[i]
  <2>1. /\ A \in Seq(Macros) /\ Len(A) = IF 1 <= next THEN next - 1 + 1 ELSE 0
        /\ \A i \in 1..next - 1 + 1 : A[i] = running[1 + i - 1]
    BY <1>1, SubSeqProperties
  <2> HIDE DEF A
  <2> QED  BY <2>1, <1>1
<1>3. /\ B \in Seq(Macros) /\ Len(B) = Len(running) - next
      /\ \A i \in 1..Len(running) - next : B[i] = running[next + i]
  <2>1. next + 1 \in Int /\ Len(running) \in Int /\ \A i \in next + 1 .. Len(running) : running[i] \in Macros
    BY <1>1
  <2>2. /\ B \in Seq(Macros)
        /\ Len(B) = IF next + 1 <= Len(running) THEN Len(running) - (next + 1) + 1 ELSE 0
        /\ \A i \in 1..Len(running) - (next + 1) + 1 : B[i] = running[(next + 1) + i - 1]
    BY <2>1, SubSeqProperties
  <2> HIDE DEF B
  <2> QED  BY <2>2, <1>1
<1>4. running = A \o B
  <2>1. 1 \in 1..Len(running) + 1 /\ next \in 1 - 1 .. Len(running) /\ Len(running) \in next .. Len(running)
    BY <1>1
  <2>2. A \o B = SubSeq(running, 1, Len(running))
    BY <2>1, <1>1, ConcatAdjacentSubSeq
  <2> QED  BY <2>2, <1>1, SubSeqFull
<1> HIDE DEF A, B
<1>5. Without(running, gone) = a \o b
  BY <1>2, <1>3, <1>4, WithoutConcat, Zenon
<1>6. a \in Seq(Macros) /\ b \in Seq(Macros)
  BY <1>2, <1>3, WithoutIsSeq, Zenon
<1>7. running' = Without(running, gone) /\ next' = Len(a) /\ turned' = turned \ gone
  BY DEF Erased, A
<1> HIDE DEF a, b
<1>8. /\ running' \in Seq(Macros) /\ Len(running') = Len(a) + Len(b)
      /\ \A i \in 1..Len(a) + Len(b) : running'[i] = IF i <= Len(a) THEN a[i] ELSE b[i - Len(a)]
  BY <1>5, <1>6, <1>7, ConcatProperties
<1>9. Len(a) \in Nat /\ Len(b) \in Nat
  BY <1>6
<1>10. Len(running') \in 0..Len(running)
  BY <1>1, <1>7, WithoutShortens
<1>11. \A i, j \in 1..Len(running') : running'[i] = running'[j] => i = j
  <2>1. running \in Seq(Macros) /\ \A i, j \in 1..Len(running) : running[i] = running[j] => i = j
    BY DEF Listed
  <2>2. \A i, j \in 1..Len(Without(running, gone)) :
          Without(running, gone)[i] = Without(running, gone)[j] => i = j
    BY <2>1, WithoutDistinct, Zenon
  <2> QED  BY <2>2, <1>7
<1>12. \A y : (\E i \in 1..Len(running') : running'[i] = y)
               <=> y \notin gone /\ \E i \in 1..Len(running) : running[i] = y
  <2> TAKE y
  <2>0. running \in Seq(Macros)
    BY <1>1
  <2>1. (\E i \in 1..Len(Without(running, gone)) : Without(running, gone)[i] = y)
         <=> y \notin gone /\ \E i \in 1..Len(running) : running[i] = y
    BY <2>0, WithoutKeeps
  <2> QED  BY <2>1, <1>7
<1>13. \A y : (\E i \in 1..Len(a) : a[i] = y)
               <=> y \notin gone /\ \E i \in 1..Len(A) : A[i] = y
  <2> TAKE y
  <2>0. A \in Seq(Macros)
    BY <1>2
  <2>1. (\E i \in 1..Len(Without(A, gone)) : Without(A, gone)[i] = y)
         <=> y \notin gone /\ \E i \in 1..Len(A) : A[i] = y
    BY <2>0, WithoutKeeps
  <2> QED  BY <2>1 DEF a
<1>14. \A y : (\E i \in 1..Len(b) : b[i] = y)
               <=> y \notin gone /\ \E i \in 1..Len(B) : B[i] = y
  <2> TAKE y
  <2>0. B \in Seq(Macros)
    BY <1>3
  <2>1. (\E i \in 1..Len(Without(B, gone)) : Without(B, gone)[i] = y)
         <=> y \notin gone /\ \E i \in 1..Len(B) : B[i] = y
    BY <2>0, WithoutKeeps
  <2> QED  BY <2>1 DEF b
<1>15. ASSUME \A i \in 1..Len(running) : running[i] \in turned <=> i <= next,
              NEW i \in 1..Len(running')
       PROVE  running'[i] \in turned' <=> i <= next'
  <2>1. running'[i] \notin gone
    BY <1>12
  <2>2. CASE i <= Len(a)
    <3>1. i \in 1..Len(a) /\ running'[i] = a[i]
      BY <2>2, <1>8, <1>9
    <3>2. PICK j \in 1..Len(A) : A[j] = a[i]
      BY <3>1, <1>13
    <3>3. j \in 1..Len(running) /\ j <= next /\ running[j] = running'[i]
      BY <3>1, <3>2, <1>1, <1>2
    <3>4. running'[i] \in turned
      BY <3>3, <1>15
    <3> QED  BY <3>4, <2>1, <2>2, <1>7
  <2>3. CASE ~(i <= Len(a))
    <3>1. i - Len(a) \in 1..Len(b) /\ running'[i] = b[i - Len(a)]
      BY <2>3, <1>8, <1>9
    <3>2. PICK j \in 1..Len(B) : B[j] = b[i - Len(a)]
      BY <3>1, <1>14
    <3>3. next + j \in 1..Len(running) /\ ~(next + j <= next) /\ running[next + j] = running'[i]
      BY <3>1, <3>2, <1>1, <1>3
    <3>4. running'[i] \notin turned
      BY <3>3, <1>15
    <3> QED  BY <3>4, <2>3, <1>7
  <2> QED  BY <2>2, <2>3
<1>16. next' \in 0..Len(running')
  BY <1>7, <1>8, <1>9
<1>17. Len(running') <= Limit
  BY <1>10, <1>1, SizesAssumption DEF Listed
<1>18. \A m \in turned' : \E i \in 1..Len(running') : running'[i] = m
  BY <1>7, <1>12
<1> QED  BY <1>8, <1>11, <1>12, <1>15, <1>16, <1>17, <1>18

\* Starting a macro: it comes last unless it is listed.
LEMMA StartedList ==
  ASSUME Listed, NEW m \in Macros, NEW fields, NEW rest, Started(m, fields, rest)
  PROVE  /\ running' \in Seq(Macros) /\ Len(running') <= Limit
         /\ \A i, j \in 1..Len(running') : running'[i] = running'[j] => i = j
         /\ Len(running) <= Len(running')
         /\ \A i \in 1..Len(running) : running'[i] = running[i]
         /\ \A i \in 1..Len(running') : running'[i] = m \/ i \in 1..Len(running)
         /\ next' \in 0..Len(running')
         /\ turned' = turned /\ next' = next
         /\ running' = running
             \/ \A i \in 1..Len(running) : running[i] # m
<1>1. /\ running \in Seq(Macros) /\ Len(running) \in Nat /\ next \in 0..Len(running)
      /\ \A i, j \in 1..Len(running) : running[i] = running[j] => i = j
      /\ Len(running) <= Limit /\ Limit \in Nat
  BY SizesAssumption DEF Listed
<1>2. ToSet(running) = {running[i] : i \in 1..Len(running)}
  BY <1>1 DEF ToSet
<1>3. turned' = turned /\ next' = next
  BY DEF Started
<1>4. CASE running' = running
  BY <1>4, <1>1, <1>3
<1>5. CASE running' # running
  <2>1. running' = Append(running, m) /\ m \notin ToSet(running) /\ Len(running) < Limit
    BY <1>5 DEF Started
  <2>2. /\ Append(running, m) \in Seq(Macros) /\ Len(Append(running, m)) = Len(running) + 1
        /\ \A i \in 1..Len(running) : Append(running, m)[i] = running[i]
        /\ Append(running, m)[Len(running) + 1] = m
    BY <1>1, AppendProperties
  <2>3. \A i \in 1..Len(running) : running[i] # m
    BY <2>1, <1>2
  <2> QED  BY <2>1, <2>2, <2>3, <1>1, <1>3
<1> QED  BY <1>4, <1>5

-----------------------------------------------------------------------------
(* The macros *)

Keeps(m) == m \in heap' /\ macro'[m] = macro[m]

LEMMA UnusedFields ==
  /\ Unused \in Fields
  /\ Unused.owner = Nobody /\ Unused.destroy_when_finished = FALSE /\ Unused.paused = FALSE
  /\ Unused.purged = FALSE /\ Unused.capture = FALSE /\ Unused.held = FALSE /\ Unused.dde = FALSE
  BY DEF Unused, Fields

LEMMA OwnedFreed ==
  ASSUME Owned, NEW gone, Freed(gone)
  PROVE  /\ Owned' /\ heap' = heap \ gone
         /\ \A m \in Macros : m \notin gone => macro'[m] = macro[m]
<1>1. heap \subseteq Macros /\ macro \in [Macros -> Fields]
  BY DEF Owned
<1>2. heap' = heap \ gone /\ macro' = [m \in Macros |-> IF m \in gone THEN Unused ELSE macro[m]]
  BY DEF Freed
<1>3. \A m \in Macros : macro'[m] = IF m \in gone THEN Unused ELSE macro[m]
  BY <1>2
<1>4. macro' \in [Macros -> Fields]
  BY <1>1, <1>2, UnusedFields
<1>5. \A m \in Macros \ heap' : macro'[m] = Unused
  BY <1>2, <1>3 DEF Owned
<1>6. \A m \in heap' : Accounted(macro'[m])
  BY <1>1, <1>2, <1>3 DEF Owned
<1>7. heap' \subseteq Macros
  BY <1>1, <1>2
<1>8. Owned'
  BY <1>4, <1>5, <1>6, <1>7 DEF Owned, Accounted
<1> QED  BY <1>2, <1>3, <1>8

LEMMA OwnedSet ==
  ASSUME Owned, NEW m \in Macros, NEW f \in Fields, Accounted(f),
         heap' = heap \cup {m}, macro' = [macro EXCEPT ![m] = f]
  PROVE  /\ Owned' /\ macro'[m] = f /\ m \in heap'
         /\ \A k \in Macros : k # m => macro'[k] = macro[k]
         /\ \A k \in heap : k # m => Keeps(k)
<1>1. heap \subseteq Macros /\ macro \in [Macros -> Fields]
  BY DEF Owned
<1>2. macro' \in [Macros -> Fields] /\ macro'[m] = f
      /\ \A k \in Macros : k # m => macro'[k] = macro[k]
  BY <1>1
<1>3. \A k \in Macros \ heap' : macro'[k] = Unused
  BY <1>2 DEF Owned
<1>4. \A k \in heap' : Accounted(macro'[k])
  BY <1>1, <1>2 DEF Owned
<1>5. Owned'
  BY <1>1, <1>2, <1>3, <1>4 DEF Owned, Accounted
<1> QED  BY <1>1, <1>2, <1>5 DEF Keeps

\* The fields of macros that are allocated.
LEMMA OwnFields ==
  ASSUME Owned, NEW m \in heap
  PROVE  /\ m \in Macros /\ macro[m] \in Fields /\ Accounted(macro[m])
         /\ macro[m].owner \in Objects
         /\ macro[m].paused \in BOOLEAN /\ macro[m].held \in BOOLEAN /\ macro[m].dde \in BOOLEAN
         /\ macro[m].capture \in BOOLEAN /\ macro[m].purged \in BOOLEAN
         /\ macro[m].destroy_when_finished \in BOOLEAN
  BY DEF Owned, Fields, Accounted

\* Only a macro that is allocated has an owner of any kind.
LEMMA HeldIsAllocated ==
  ASSUME Owned, NEW m \in Macros, macro[m].held \/ macro[m].dde
  PROVE  /\ m \in heap /\ ~macro[m].destroy_when_finished /\ ~macro[m].purged
         /\ Kits /\ macro[m].owner \in Selectable
<1>1. m \in heap
  BY UnusedFields DEF Owned
<1> QED  BY <1>1, OwnFields DEF Accounted

-----------------------------------------------------------------------------
(* The list and the macros in it *)

LEMMA ListedSame ==
  ASSUME Listed, running' = running, next' = next,
         \A i \in 1..Len(running) : running[i] \in heap' /\ ~macro'[running[i]].purged
  PROVE  Listed'
  BY DEF Listed

LEMMA ListedErased ==
  ASSUME Listed, Walked, NEW gone, Erased(gone),
         \A m \in heap : m \notin gone => m \in heap' /\ (macro'[m].purged => macro[m].purged)
  PROVE  Listed'
<1>1. /\ running' \in Seq(Macros) /\ Len(running') <= Limit
      /\ \A i, j \in 1..Len(running') : running'[i] = running'[j] => i = j
      /\ \A i \in 1..Len(running') :
           running'[i] \notin gone /\ \E j \in 1..Len(running) : running[j] = running'[i]
      /\ next' \in 0..Len(running')
  BY ErasedList DEF Walked
<1>2. ASSUME NEW i \in 1..Len(running') PROVE running'[i] \in heap' /\ ~macro'[running'[i]].purged
  <2>1. PICK j \in 1..Len(running) : running[j] = running'[i]
    BY <1>1
  <2>2. running'[i] \in heap /\ ~macro[running'[i]].purged
    BY <2>1 DEF Listed
  <2> QED  BY <2>2, <1>1
<1> QED  BY <1>1, <1>2 DEF Listed

LEMMA ListedStarted ==
  ASSUME Listed, NEW m \in Macros, NEW fields, NEW rest, Started(m, fields, rest),
         \A k \in heap : k # m => Keeps(k), m \in heap', ~macro'[m].purged
  PROVE  Listed'
<1>1. /\ running' \in Seq(Macros) /\ Len(running') <= Limit
      /\ \A i, j \in 1..Len(running') : running'[i] = running'[j] => i = j
      /\ \A i \in 1..Len(running) : running'[i] = running[i]
      /\ \A i \in 1..Len(running') : running'[i] = m \/ i \in 1..Len(running)
      /\ next' \in 0..Len(running')
  BY StartedList
<1>2. ASSUME NEW i \in 1..Len(running') PROVE running'[i] \in heap' /\ ~macro'[running'[i]].purged
  <2>1. CASE running'[i] = m
    BY <2>1
  <2>2. CASE running'[i] # m
    <3>1. i \in 1..Len(running) /\ running'[i] = running[i]
      BY <2>2, <1>1
    <3>2. running[i] \in heap /\ ~macro[running[i]].purged
      BY <3>1 DEF Listed
    <3> QED  BY <3>1, <3>2, <2>2 DEF Keeps
  <2> QED  BY <2>1, <2>2
<1> QED  BY <1>1, <1>2 DEF Listed

-----------------------------------------------------------------------------
(* The walk *)

\* The walk is in a turn before and after the step.
InTurn == /\ walking' = walking
          /\ walking => stack[1].todo # <<>> /\ stack'[1].todo # <<>>

LEMMA WalkedSame ==
  ASSUME Walked, InTurn, UNCHANGED listVars
  PROVE  Walked'
  BY DEF Walked, InTurn, Reached, listVars

LEMMA WalkedErased ==
  ASSUME Listed, Walked, InTurn, NEW gone, Erased(gone)
  PROVE  Walked'
<1>1. /\ next' \in 0..Len(running')
      /\ \A m \in turned' : \E i \in 1..Len(running') : running'[i] = m
      /\ (next <= Len(running) /\ \A i \in 1..Len(running) : running[i] \in turned <=> i <= next) =>
           \A i \in 1..Len(running') : running'[i] \in turned' <=> i <= next'
      /\ running' \in Seq(Macros)
  BY ErasedList DEF Walked
<1>2. ASSUME walking'
      PROVE  /\ stack'[1].todo # <<>> /\ next' <= Len(running')
             /\ \A i \in 1..Len(running') : running'[i] \in turned' <=> i <= next'
  BY <1>1, <1>2 DEF InTurn, Walked, Reached, Listed
<1> QED  BY <1>1, <1>2 DEF Walked, Reached

LEMMA WalkedStarted ==
  ASSUME Listed, Walked, InTurn, NEW m \in Macros, NEW fields, NEW rest, Started(m, fields, rest)
  PROVE  Walked'
<1>1. /\ Len(running) <= Len(running') /\ running' \in Seq(Macros) /\ running \in Seq(Macros)
      /\ \A i \in 1..Len(running) : running'[i] = running[i]
      /\ \A i \in 1..Len(running') : running'[i] = m \/ i \in 1..Len(running)
      /\ next' \in 0..Len(running') /\ next \in 0..Len(running)
      /\ turned' = turned /\ next' = next
      /\ running' = running \/ \A i \in 1..Len(running) : running[i] # m
  BY StartedList DEF Listed
<1>2. \A k \in turned : \E i \in 1..Len(running) : running[i] = k
  BY DEF Walked
<1>3. \A k \in turned' : \E i \in 1..Len(running') : running'[i] = k
  BY <1>1, <1>2
<1>4. ASSUME walking' PROVE stack'[1].todo # <<>> /\ next' <= Len(running')
  BY <1>1, <1>4 DEF InTurn
<1>5. ASSUME walking', NEW i \in 1..Len(running')
      PROVE  running'[i] \in turned' <=> i <= next'
  <2>1. \A j \in 1..Len(running) : running[j] \in turned <=> j <= next
    BY <1>5 DEF InTurn, Walked, Reached
  <2>2. CASE i \in 1..Len(running)
    BY <2>1, <2>2, <1>1
  <2>3. CASE i \notin 1..Len(running)
    <3>1. running'[i] = m /\ running' # running /\ ~(i <= next)
      BY <2>3, <1>1
    <3>2. m \notin turned
      BY <3>1, <1>1, <1>2
    <3> QED  BY <3>1, <3>2, <1>1
  <2> QED  BY <2>2, <2>3
<1> QED  BY <1>3, <1>4, <1>5 DEF Walked, Reached

-----------------------------------------------------------------------------
(* The frames *)

LEMMA StackFacts ==
  ASSUME Frames
  PROVE  /\ Len(stack) \in Nat \ {0} /\ stack \in Seq(Frame)
         /\ Top = stack[Len(stack)] /\ Top.todo \in Seq(OwnStep)
         /\ Len(stack) = 1 => Top = stack[1] /\ Top.macro = NoMacro
         /\ Len(stack) > 1 =>
              /\ Top.macro \in heap /\ ~macro[Top.macro].paused /\ InCommand(Top.todo)
              /\ Top.todo # <<>> => Len(stack) < MaxDepth /\ macro[Top.macro].owner \notin Indicators
              /\ macro[Top.macro].purged => Top.todo # <<>>
         /\ InInterpreter => Len(stack) > 1 /\ ~macro[Top.macro].purged
         /\ Idle => Len(stack) = 1
<1>1. Len(stack) \in Nat \ {0} /\ stack \in Seq(Frame) /\ stack[1].macro = NoMacro
  BY DEF Frames
<1>2. Top = stack[Len(stack)] /\ Top.todo \in Seq(OwnStep)
  BY <1>1, TopFrame DEF Top
<1>3. ASSUME Len(stack) > 1
      PROVE  /\ Top.macro \in heap /\ ~macro[Top.macro].paused /\ InCommand(Top.todo)
             /\ Top.todo # <<>> => Len(stack) < MaxDepth /\ macro[Top.macro].owner \notin Indicators
             /\ macro[Top.macro].purged => Top.todo # <<>>
  <2>1. Len(stack) \in 2..Len(stack)
    BY <1>1, <1>3
  <2> QED  BY <1>2, <2>1 DEF Frames
<1>4. InInterpreter => Len(stack) > 1
  BY <1>1, <1>2 DEF InInterpreter
<1>5. InInterpreter => Top.todo = <<>>
  BY DEF InInterpreter
<1> QED  BY <1>1, <1>2, <1>3, <1>4, <1>5 DEF Idle

LEMMA StackDepth ==
  ASSUME Frames
  PROVE  Len(stack) = 1 \/ Len(stack) > 1
<1>1. Len(stack) \in 1..MaxDepth /\ MaxDepth \in Nat
  BY SizesAssumption DEF Frames
<1> QED  BY <1>1

LEMMA StackGrows ==
  ASSUME Frames, NEW m \in Macros, NEW t \in Seq(OwnStep), StepDoneThen(m, t)
  PROVE  /\ stack' \in Seq(Frame) /\ Len(stack') = Len(stack) + 1
         /\ \A i \in 1..Len(stack) - 1 : stack'[i] = stack[i]
         /\ stack'[Len(stack)].macro = stack[Len(stack)].macro /\ stack'[Len(stack)].todo = t
         /\ stack'[Len(stack) + 1].macro = m /\ stack'[Len(stack) + 1].todo = <<>>
<1>1. stack' = PushedOn(stack, m, t)
  BY DEF StepDoneThen, PushedOn
<1>2. Len(stack) >= 1 /\ stack \in Seq(Frame)
  BY DEF Frames
<1> QED  BY <1>1, <1>2, StackPushed

\* The macros of the frames.
LEMMA OnStackAre ==
  ASSUME Frames
  PROVE  /\ \A m \in Macros : m \in OnStack <=> \E i \in 2..Len(stack) : stack[i].macro = m
         /\ \A i \in 2..Len(stack) : stack[i].macro \in OnStack /\ stack[i].macro \in heap
         /\ OnStack \subseteq heap \cup {NoMacro}
<1>1. Len(stack) \in Nat \ {0} /\ stack \in Seq(Frame) /\ stack[1].macro = NoMacro
      /\ NoMacro \notin Macros
  BY OwnersAssumption DEF Frames
<1>2. OnStack = {stack[i].macro : i \in 1..Len(stack)}
  BY <1>1 DEF OnStack
<1>3. \A i \in 1..Len(stack) : i = 1 \/ i \in 2..Len(stack)
  BY <1>1
<1>4. \A i \in 2..Len(stack) : stack[i].macro \in heap /\ i \in 1..Len(stack)
  BY <1>1 DEF Frames
<1> QED  BY <1>1, <1>2, <1>3, <1>4

\* A step of a frame above the UI thread's, or of the UI thread's own frame.
LEMMA FirstStep ==
  ASSUME Frames, Bottom, NEW op, AtStep(op)
  PROVE  /\ Top.todo \in Seq(OwnStep) /\ Top.todo # <<>>
         /\ Top.todo[1] \in OwnStep /\ Top.todo[1].op = op /\ Subject = Top.todo[1].of
         /\ op \in ObjectSteps => Subject \in Objects
         /\ op = "dies" => Subject \in Creatures
         /\ op \in MacroSteps => Subject \in Macros
         /\ op \in Returns => Len(stack) > 1 \/ op = "advance"
         /\ op \in {"start", "hand_over", "release", "uncapture", "apply", "advance", "restart"} =>
              Len(stack) = 1
<1>1. /\ Len(stack) \in Nat \ {0}
      /\ Top.todo \in Seq(OwnStep)
      /\ Len(stack) = 1 => Top = stack[1]
      /\ Len(stack) > 1 => InCommand(Top.todo)
  BY StackFacts
<1>2. Top.todo # <<>> /\ Head(Top.todo).op = op
  BY DEF AtStep
<1>3. Head(Top.todo) \in OwnStep /\ Head(Top.todo) = Top.todo[1] /\ Len(Top.todo) >= 1
  BY <1>1, <1>2, StepTaken
<1>4. /\ Top.todo[1].op \in ObjectSteps => Top.todo[1].of \in Objects
      /\ Top.todo[1].op = "dies" => Top.todo[1].of \in Creatures
      /\ Top.todo[1].op \in MacroSteps => Top.todo[1].of \in Macros
  BY <1>3, OwnSteps
<1>5. 1 \in 1..Len(Top.todo)
  BY <1>1, <1>3
<1>6. Len(stack) > 1 => op \in {"turns", "turn", "purge", "fire", "dies", "destroyed", "changed", "complete"}
  BY <1>1, <1>2, <1>3, <1>5 DEF InCommand
<1>7. Len(stack) = 1 => op \notin {"destroyed", "changed", "complete"}
  BY <1>1, <1>2, <1>3, <1>5 DEF Bottom
<1>11. Len(stack) = 1 \/ Len(stack) > 1
  BY <1>1
<1>8. op \in Returns => Len(stack) > 1 \/ op = "advance"
  BY <1>7, <1>11 DEF Returns
<1>9. op \in {"start", "hand_over", "release", "uncapture", "apply", "advance", "restart"} =>
        Len(stack) = 1
  BY <1>6, <1>11
<1>10. Subject = Top.todo[1].of /\ Top.todo[1].op = op
  BY <1>2, <1>3 DEF Subject
<1> QED  BY <1>1, <1>2, <1>3, <1>4, <1>8, <1>9, <1>10

LEMMA FramesPopped ==
  ASSUME Owned, Frames, Bottom, Len(stack) > 1, Popped, walking' = walking,
         \A m \in heap : m # Top.macro => Keeps(m),
         macro[Top.macro].capture /\ ~macro[Top.macro].destroy_when_finished => Keeps(Top.macro)
  PROVE  Frames' /\ Cleared' /\ Bottom' /\ stack'[1] = stack[1]
<1> DEFINE n == Len(stack)
<1>1. n \in Nat /\ n >= 2 /\ stack \in Seq(Frame) /\ Top = stack[n]
  BY StackFacts
<1>2. stack' \in Seq(Frame) /\ Len(stack') = n - 1 /\ \A i \in 1..n - 1 : stack'[i] = stack[i]
  BY <1>1, StackPopped DEF Popped
<1>3. \A i \in 2..n - 1 : i \in 2..n /\ i < n /\ stack[i].macro # Top.macro /\ Keeps(stack[i].macro)
  <2>1. n \in 2..n /\ \A i \in 2..n - 1 : i \in 2..n /\ i < n
    BY <1>1
  <2> QED  BY <2>1, <1>1 DEF Frames
<1>4. ASSUME NEW i \in 2..Len(stack')
      PROVE  /\ stack'[i].macro \in heap' /\ ~macro'[stack'[i].macro].paused
             /\ InCommand(stack'[i].todo)
             /\ stack'[i].todo # <<>> => i < MaxDepth /\ macro'[stack'[i].macro].owner \notin Indicators
             /\ macro'[stack'[i].macro].purged => stack'[i].todo # <<>>
             /\ stack'[i].todo # <<>> /\ ~FiresCreature(stack'[i].todo)
  <2>1. i \in 2..n - 1 /\ i \in 1..n - 1
    BY <1>2, <1>1
  <2>2. stack'[i] = stack[i] /\ Keeps(stack[i].macro) /\ i \in 2..n /\ i < n
    BY <2>1, <1>2, <1>3
  <2> QED  BY <2>2 DEF Frames, Keeps
<1>5. \A i, j \in 2..Len(stack') : stack'[i].macro = stack'[j].macro => i = j
  <2>1. \A i \in 2..Len(stack') : i \in 2..n /\ stack'[i] = stack[i]
    BY <1>1, <1>2
  <2> QED  BY <2>1 DEF Frames
<1>6. Len(stack') \in 1..MaxDepth /\ stack'[1] = stack[1]
  BY <1>1, <1>2, SizesAssumption DEF Frames
<1>7. Frames'
  BY <1>2, <1>4, <1>5, <1>6 DEF Frames, InCommand, FiresCreature
<1>8. Cleared'
  <2>1. Top' = stack'[Len(stack')]
    BY <1>2, <1>6, TopFrame DEF Top
  <2>2. Len(stack') > 1 => Len(stack') \in 2..Len(stack')
    BY <1>6
  <2> QED  BY <2>1, <2>2, <1>4 DEF Cleared, FiresCreature
<1>9. Bottom'
  <2>1. SUFFICES ASSUME NEW k \in 1..Len(stack[1].todo)
        PROVE  /\ stack[1].todo[k].op \notin {"destroyed", "changed", "complete"}
               /\ stack[1].todo[k].op = "advance" <=> walking' /\ k = Len(stack[1].todo)
               /\ stack[1].todo[k].op = "start" => FALSE
               /\ stack[1].todo[k].op = "uncapture" =>
                    /\ Len(stack[1].todo) = 1 /\ stack[1].todo[k].of \in heap'
                    /\ macro'[stack[1].todo[k].of].capture
                    /\ ~macro'[stack[1].todo[k].of].destroy_when_finished
                    /\ Len(stack') = 1 \/ stack'[2].macro = stack[1].todo[k].of
    BY <1>6 DEF Bottom
  <2>2. /\ stack[1].todo[k].op \notin {"destroyed", "changed", "complete"}
        /\ stack[1].todo[k].op = "advance" <=> walking' /\ k = Len(stack[1].todo)
        /\ stack[1].todo[k].op = "start" => FALSE
    BY <1>1 DEF Bottom
  <2>3. ASSUME stack[1].todo[k].op = "uncapture"
        PROVE  /\ Len(stack[1].todo) = 1 /\ stack[1].todo[k].of \in heap'
               /\ macro'[stack[1].todo[k].of].capture
               /\ ~macro'[stack[1].todo[k].of].destroy_when_finished
               /\ Len(stack') = 1 \/ stack'[2].macro = stack[1].todo[k].of
    <3> DEFINE m == stack[1].todo[k].of
    <3>1. /\ Len(stack[1].todo) = 1 /\ m \in heap /\ macro[m].capture /\ ~macro[m].destroy_when_finished
          /\ stack[2].macro = m
      BY <2>3, <1>1 DEF Bottom
    <3>2. Keeps(m)
      BY <3>1
    <3>3. Len(stack') = 1 \/ stack'[2] = stack[2]
      BY <1>1, <1>2
    <3> QED  BY <3>1, <3>2, <3>3 DEF Keeps
  <2> QED  BY <2>2, <2>3
<1> QED  BY <1>6, <1>7, <1>8, <1>9

\* What a step inside a command may do to the macros.
Spared(m) ==
  /\ m \in heap' /\ macro'[m].paused = macro[m].paused /\ macro'[m].owner = macro[m].owner
  /\ ~macro[m].destroy_when_finished => macro'[m] = macro[m]

LEMMA FramesWentOn ==
  ASSUME Owned, Frames, Bottom, Len(stack) > 1, NEW t \in Seq(OwnStep), GoesOn(t), walking' = walking,
         InCommand(t), t # <<>> => Top.todo # <<>> \/
                         (Len(stack) < MaxDepth /\ macro[Top.macro].owner \notin Indicators),
         macro'[Top.macro].purged => t # <<>>,
         \A m \in heap : m \in OnStack \/ ~macro[m].destroy_when_finished => Spared(m),
         FiresCreature(t) => \A i \in 1..Len(running') : macro'[running'[i]].owner # t[1].of
  PROVE  Frames' /\ Cleared' /\ Bottom' /\ stack'[1] = stack[1]
<1> DEFINE n == Len(stack)
<1>1. /\ n \in Nat /\ n >= 2 /\ stack \in Seq(Frame) /\ Top = stack[n]
      /\ Top.todo # <<>> => n < MaxDepth /\ macro[Top.macro].owner \notin Indicators
  BY StackFacts
<1>2. /\ stack' \in Seq(Frame) /\ Len(stack') = n /\ \A i \in 1..n - 1 : stack'[i] = stack[i]
      /\ stack'[n].macro = stack[n].macro /\ stack'[n].todo = t
  <2>1. stack' = [stack EXCEPT ![n].todo = t]
    BY DEF GoesOn
  <2>2. Len(stack) >= 1
    BY <1>1
  <2>3. /\ [stack EXCEPT ![n].todo = t] \in Seq(Frame)
        /\ Len([stack EXCEPT ![n].todo = t]) = Len(stack)
        /\ \A i \in 1..n - 1 : [stack EXCEPT ![n].todo = t][i] = stack[i]
        /\ [stack EXCEPT ![n].todo = t][n].macro = stack[n].macro
        /\ [stack EXCEPT ![n].todo = t][n].todo = t
    BY <1>1, <2>2, StackGoesOn, Zenon
  <2> QED  BY <2>1, <2>3
<1>3. \A i \in 2..n : stack[i].macro \in heap /\ Spared(stack[i].macro) /\ stack'[i].macro = stack[i].macro
  <2>1. \A i \in 2..n : stack[i].macro \in heap /\ stack[i].macro \in OnStack
    BY OnStackAre
  <2>2. ASSUME NEW i \in 2..n PROVE stack'[i].macro = stack[i].macro
    <3>1. i \in 1..n - 1 \/ i = n
      BY <1>1
    <3> QED  BY <3>1, <1>2
  <2> QED  BY <2>1, <2>2
<1>4. ASSUME NEW i \in 2..n, i < n
      PROVE  /\ stack'[i].macro \in heap' /\ ~macro'[stack'[i].macro].paused
             /\ InCommand(stack'[i].todo)
             /\ stack'[i].todo # <<>> => i < MaxDepth /\ macro'[stack'[i].macro].owner \notin Indicators
             /\ macro'[stack'[i].macro].purged => stack'[i].todo # <<>>
             /\ i < n => stack'[i].todo # <<>> /\ ~FiresCreature(stack'[i].todo)
  <2>1. stack'[i] = stack[i]
    BY <1>4, <1>1, <1>2
  <2> QED  BY <2>1, <1>3, <1>4 DEF Frames, Spared
<1>5. /\ stack'[n].macro \in heap' /\ ~macro'[stack'[n].macro].paused
      /\ InCommand(stack'[n].todo)
      /\ stack'[n].todo # <<>> => n < MaxDepth /\ macro'[stack'[n].macro].owner \notin Indicators
      /\ macro'[stack'[n].macro].purged => stack'[n].todo # <<>>
  <2>1. n \in 2..n
    BY <1>1
  <2>2. ~macro[stack[n].macro].paused
    BY <2>1 DEF Frames
  <2> QED  BY <2>1, <2>2, <1>1, <1>2, <1>3 DEF Spared
<1>6. ASSUME NEW i \in 2..Len(stack')
      PROVE  /\ stack'[i].macro \in heap' /\ ~macro'[stack'[i].macro].paused
             /\ InCommand(stack'[i].todo)
             /\ stack'[i].todo # <<>> => i < MaxDepth /\ macro'[stack'[i].macro].owner \notin Indicators
             /\ macro'[stack'[i].macro].purged => stack'[i].todo # <<>>
             /\ i < Len(stack') => stack'[i].todo # <<>> /\ ~FiresCreature(stack'[i].todo)
  <2>1. i \in 2..n /\ (i < n \/ i = n)
    BY <1>1, <1>2
  <2>2. CASE i < n
    BY <2>1, <2>2, <1>2, <1>4
  <2>3. CASE i = n
    BY <2>3, <1>2, <1>5
  <2> QED  BY <2>1, <2>2, <2>3
<1>7. \A i, j \in 2..Len(stack') : stack'[i].macro = stack'[j].macro => i = j
  BY <1>2, <1>3 DEF Frames
<1>8. Len(stack') \in 1..MaxDepth /\ stack'[1] = stack[1] /\ stack'[2].macro = stack[2].macro
  <2>1. 1 \in 1..n - 1 /\ 2 \in 2..n
    BY <1>1
  <2> QED  BY <2>1, <1>2, <1>3 DEF Frames
<1>9. Frames'
  BY <1>2, <1>6, <1>7, <1>8 DEF Frames, InCommand, FiresCreature
<1>10. Cleared'
  <2>1. Top' = stack'[n]
    BY <1>1, <1>2, TopFrame DEF Top
  <2> QED  BY <2>1, <1>2 DEF Cleared, FiresCreature
<1>11. Bottom'
  <2>1. SUFFICES ASSUME NEW k \in 1..Len(stack[1].todo)
        PROVE  /\ stack[1].todo[k].op \notin {"destroyed", "changed", "complete"}
               /\ stack[1].todo[k].op = "advance" <=> walking' /\ k = Len(stack[1].todo)
               /\ stack[1].todo[k].op = "start" => FALSE
               /\ stack[1].todo[k].op = "uncapture" =>
                    /\ Len(stack[1].todo) = 1 /\ stack[1].todo[k].of \in heap'
                    /\ macro'[stack[1].todo[k].of].capture
                    /\ ~macro'[stack[1].todo[k].of].destroy_when_finished
                    /\ stack[2].macro = stack[1].todo[k].of
    BY <1>8 DEF Bottom
  <2>2. /\ stack[1].todo[k].op \notin {"destroyed", "changed", "complete"}
        /\ stack[1].todo[k].op = "advance" <=> walking' /\ k = Len(stack[1].todo)
        /\ stack[1].todo[k].op = "start" => FALSE
        /\ stack[1].todo[k].op = "uncapture" =>
             /\ Len(stack[1].todo) = 1 /\ stack[1].todo[k].of \in heap
             /\ macro[stack[1].todo[k].of].capture
             /\ ~macro[stack[1].todo[k].of].destroy_when_finished
             /\ stack[2].macro = stack[1].todo[k].of
    BY <1>1 DEF Bottom
  <2> QED  BY <2>2 DEF Spared
<1> QED  BY <1>8, <1>9, <1>10, <1>11

LEMMA FramesPushed ==
  ASSUME Owned, Frames, Bottom, Len(stack) > 1, Top.todo # <<>>, walking' = walking,
         NEW m \in Macros, NEW t \in Seq(OwnStep), StepDoneThen(m, t),
         InCommand(t), t # <<>>, ~FiresCreature(t),
         m \in heap', ~macro'[m].paused, ~macro'[m].purged, m \notin OnStack,
         \A k \in heap : k # m => Keeps(k)
  PROVE  Frames' /\ Cleared' /\ Bottom' /\ stack'[1] = stack[1]
<1> DEFINE n == Len(stack)
<1>1. /\ n \in Nat /\ n >= 2 /\ stack \in Seq(Frame) /\ Top = stack[n]
      /\ n < MaxDepth /\ macro[Top.macro].owner \notin Indicators
  BY StackFacts
<1>2. /\ stack' \in Seq(Frame) /\ Len(stack') = n + 1 /\ \A i \in 1..n - 1 : stack'[i] = stack[i]
      /\ stack'[n].macro = stack[n].macro /\ stack'[n].todo = t
      /\ stack'[n + 1].macro = m /\ stack'[n + 1].todo = <<>>
  <2>3. /\ stack' \in Seq(Frame) /\ Len(stack') = Len(stack) + 1
        /\ \A i \in 1..Len(stack) - 1 : stack'[i] = stack[i]
        /\ stack'[Len(stack)].macro = stack[Len(stack)].macro /\ stack'[Len(stack)].todo = t
        /\ stack'[Len(stack) + 1].macro = m /\ stack'[Len(stack) + 1].todo = <<>>
    BY StackGrows
  <2> QED  BY <2>3
<1>3. \A i \in 2..n : /\ stack[i].macro \in heap /\ Keeps(stack[i].macro) /\ stack[i].macro # m
                      /\ stack'[i].macro = stack[i].macro
  <2>1. \A i \in 2..n : stack[i].macro \in heap /\ stack[i].macro \in OnStack
    BY OnStackAre
  <2>2. \A i \in 2..n : stack'[i].macro = stack[i].macro
    BY <1>1, <1>2
  <2> QED  BY <2>1, <2>2
<1>4. ASSUME NEW i \in 2..n, i < n
      PROVE  /\ stack'[i].macro \in heap' /\ ~macro'[stack'[i].macro].paused
             /\ InCommand(stack'[i].todo)
             /\ stack'[i].todo # <<>> => i < MaxDepth /\ macro'[stack'[i].macro].owner \notin Indicators
             /\ stack'[i].todo # <<>> /\ ~FiresCreature(stack'[i].todo)
  <2>1. stack'[i] = stack[i]
    BY <1>4, <1>1, <1>2
  <2> QED  BY <2>1, <1>3, <1>4 DEF Frames, Keeps
<1>5. /\ stack'[n].macro \in heap' /\ ~macro'[stack'[n].macro].paused
      /\ InCommand(stack'[n].todo)
      /\ n < MaxDepth /\ macro'[stack'[n].macro].owner \notin Indicators
      /\ stack'[n].todo # <<>> /\ ~FiresCreature(stack'[n].todo)
  <2>1. n \in 2..n
    BY <1>1
  <2>2. ~macro[stack[n].macro].paused
    BY <2>1 DEF Frames
  <2> QED  BY <2>1, <2>2, <1>1, <1>2, <1>3 DEF Keeps
<1>6. InCommand(<<>>)
  BY DEF InCommand
<1>7. ASSUME NEW i \in 2..Len(stack')
      PROVE  /\ stack'[i].macro \in heap' /\ ~macro'[stack'[i].macro].paused
             /\ InCommand(stack'[i].todo)
             /\ stack'[i].todo # <<>> => i < MaxDepth /\ macro'[stack'[i].macro].owner \notin Indicators
             /\ macro'[stack'[i].macro].purged => stack'[i].todo # <<>>
             /\ i < Len(stack') => stack'[i].todo # <<>> /\ ~FiresCreature(stack'[i].todo)
  <2>1. (i \in 2..n /\ i < n) \/ i = n \/ i = n + 1
    BY <1>1, <1>2
  <2>2. CASE i \in 2..n /\ i < n
    BY <2>2, <1>4
  <2>3. CASE i = n
    BY <2>3, <1>5
  <2>4. CASE i = n + 1
    <3>1. ~(i < Len(stack'))
      BY <2>4, <1>1, <1>2
    <3> QED  BY <3>1, <2>4, <1>2, <1>6
  <2> QED  BY <2>1, <2>2, <2>3, <2>4
<1>8. \A i, j \in 2..Len(stack') : stack'[i].macro = stack'[j].macro => i = j
  <2>1. \A i \in 2..Len(stack') : i \in 2..n \/ i = n + 1
    BY <1>1, <1>2
  <2>2. \A i, j \in 2..n : stack'[i].macro = stack'[j].macro => i = j
    BY <1>3 DEF Frames
  <2> QED  BY <2>1, <2>2, <1>2, <1>3
<1>9. Len(stack') \in 1..MaxDepth /\ stack'[1] = stack[1] /\ stack'[2].macro = stack[2].macro
  <2>1. 1 \in 1..n - 1 /\ 2 \in 2..n
    BY <1>1
  <2>2. MaxDepth \in Nat
    BY SizesAssumption
  <2> QED  BY <2>1, <2>2, <1>1, <1>2, <1>3 DEF Frames
<1>10. Frames'
  BY <1>2, <1>7, <1>8, <1>9 DEF Frames, InCommand, FiresCreature
<1>11. Cleared'
  <2>1. Top' = stack'[n + 1]
    BY <1>1, <1>2, TopFrame DEF Top
  <2> QED  BY <2>1, <1>2 DEF Cleared, FiresCreature
<1>12. Bottom'
  <2>1. SUFFICES ASSUME NEW k \in 1..Len(stack[1].todo)
        PROVE  /\ stack[1].todo[k].op \notin {"destroyed", "changed", "complete"}
               /\ stack[1].todo[k].op = "advance" <=> walking' /\ k = Len(stack[1].todo)
               /\ stack[1].todo[k].op = "start" => FALSE
               /\ stack[1].todo[k].op = "uncapture" =>
                    /\ Len(stack[1].todo) = 1 /\ stack[1].todo[k].of \in heap'
                    /\ macro'[stack[1].todo[k].of].capture
                    /\ ~macro'[stack[1].todo[k].of].destroy_when_finished
                    /\ stack[2].macro = stack[1].todo[k].of
    BY <1>9 DEF Bottom
  <2>2. /\ stack[1].todo[k].op \notin {"destroyed", "changed", "complete"}
        /\ stack[1].todo[k].op = "advance" <=> walking' /\ k = Len(stack[1].todo)
        /\ stack[1].todo[k].op = "start" => FALSE
        /\ stack[1].todo[k].op = "uncapture" =>
             /\ Len(stack[1].todo) = 1 /\ stack[1].todo[k].of \in heap
             /\ macro[stack[1].todo[k].of].capture
             /\ ~macro[stack[1].todo[k].of].destroy_when_finished
             /\ stack[2].macro = stack[1].todo[k].of
    BY <1>1 DEF Bottom
  <2>3. 2 \in 2..n
    BY <1>1
  <2> QED  BY <2>2, <2>3, <1>3 DEF Keeps
<1> QED  BY <1>9, <1>10, <1>11, <1>12

-----------------------------------------------------------------------------
(* The UI thread's frame, and both kinds together *)

LEMMA UIWentOn ==
  ASSUME Frames, Len(stack) = 1, NEW t \in Seq(OwnStep), GoesOn(t)
  PROVE  Frames' /\ Cleared' /\ Len(stack') = 1 /\ stack'[1].todo = t
<1>1. stack \in Seq(Frame) /\ stack[1].macro = NoMacro /\ Len(stack) >= 1
  BY DEF Frames
<1>2. /\ [stack EXCEPT ![Len(stack)].todo = t] \in Seq(Frame)
      /\ Len([stack EXCEPT ![Len(stack)].todo = t]) = Len(stack)
      /\ \A i \in 1..Len(stack) - 1 : [stack EXCEPT ![Len(stack)].todo = t][i] = stack[i]
      /\ [stack EXCEPT ![Len(stack)].todo = t][Len(stack)].macro = stack[Len(stack)].macro
      /\ [stack EXCEPT ![Len(stack)].todo = t][Len(stack)].todo = t
  BY <1>1, StackGoesOn, Zenon
<1>3. stack' \in Seq(Frame) /\ Len(stack') = 1 /\ stack'[1].todo = t /\ stack'[1].macro = NoMacro
  BY <1>1, <1>2 DEF GoesOn
<1>4. Len(stack') \in 1..MaxDepth
  BY <1>3 DEF Frames
<1>5. Frames'
  BY <1>3, <1>4 DEF Frames
<1>6. Cleared'
  BY <1>3 DEF Cleared
<1> QED  BY <1>3, <1>5, <1>6

LEMMA UIPushed ==
  ASSUME Frames, Len(stack) = 1, NEW m \in Macros, NEW t \in Seq(OwnStep), StepDoneThen(m, t),
         m \in heap', ~macro'[m].paused, ~macro'[m].purged
  PROVE  /\ Frames' /\ Cleared' /\ Len(stack') = 2
         /\ stack'[1].todo = t /\ stack'[2].macro = m
<1>1. stack \in Seq(Frame) /\ stack[1].macro = NoMacro /\ Len(stack) >= 1
  BY DEF Frames
<1>3. /\ stack' \in Seq(Frame) /\ Len(stack') = Len(stack) + 1
      /\ \A i \in 1..Len(stack) - 1 : stack'[i] = stack[i]
      /\ stack'[Len(stack)].macro = stack[Len(stack)].macro /\ stack'[Len(stack)].todo = t
      /\ stack'[Len(stack) + 1].macro = m /\ stack'[Len(stack) + 1].todo = <<>>
  BY StackGrows
<1>4. /\ stack' \in Seq(Frame) /\ Len(stack') = 2
      /\ stack'[1].macro = NoMacro /\ stack'[1].todo = t
      /\ stack'[2].macro = m /\ stack'[2].todo = <<>>
  BY <1>1, <1>3
<1>5. Len(stack') \in 1..MaxDepth
  BY <1>4, SizesAssumption
<1>6. InCommand(<<>>)
  BY DEF InCommand
<1>7. ASSUME NEW i \in 2..Len(stack')
      PROVE  /\ stack'[i].macro \in heap' /\ ~macro'[stack'[i].macro].paused
             /\ InCommand(stack'[i].todo)
             /\ stack'[i].todo = <<>> /\ ~macro'[stack'[i].macro].purged
             /\ ~(i < Len(stack')) /\ i = 2
  <2>1. i = 2
    BY <1>4
  <2> QED  BY <2>1, <1>4, <1>6
<1>8. Frames'
  BY <1>4, <1>5, <1>7 DEF Frames, InCommand, FiresCreature
<1>9. Cleared'
  <2>1. Top' = stack'[2]
    BY <1>4 DEF Top, Last
  <2> QED  BY <2>1, <1>4 DEF Cleared, FiresCreature
<1> QED  BY <1>4, <1>8, <1>9

\* The UI thread is between two things it does.
LEMMA UIIdle ==
  ASSUME Frames, Idle, stack' = stack
  PROVE  /\ Len(stack) = 1 /\ stack[1].todo = <<>> /\ stack'[1].todo = <<>> /\ Len(stack') = 1
         /\ Frames' /\ Cleared' /\ Bottom'
<1>1. Len(stack) = 1 /\ stack[1].todo = <<>>
  BY StackFacts DEF Idle
<1>2. Frames'
  BY <1>1 DEF Frames
<1> QED  BY <1>1, <1>2 DEF Cleared, Bottom

\* The rest of what the UI thread has to do, once it did a step of it.
LEMMA RestOfUI ==
  ASSUME Frames, Bottom, Len(stack) = 1, Top.todo # <<>>, Top.todo[1].op # "advance"
  PROVE  /\ Tail(Top.todo) \in Seq(OwnStep) /\ Top.todo = stack[1].todo
         /\ \A k \in 1..Len(Tail(Top.todo)) :
              /\ Tail(Top.todo)[k].op
                   \notin {"destroyed", "changed", "complete", "start", "uncapture"}
              /\ Tail(Top.todo)[k].op = "advance" <=> walking /\ k = Len(Tail(Top.todo))
         /\ walking => Tail(Top.todo) # <<>>
<1> DEFINE todo == stack[1].todo  t == Tail(Top.todo)
<1>1. Top = stack[1] /\ todo \in Seq(OwnStep) /\ todo # <<>>
  BY StackFacts
<1>2. /\ Len(todo) \in Nat /\ Len(todo) >= 1 /\ Len(t) = Len(todo) - 1
      /\ \A k \in 1..Len(todo) - 1 : t[k] = todo[k + 1]
      /\ t = <<>> <=> Len(todo) = 1
      /\ t \in Seq(OwnStep)
  BY <1>1, StepTaken
<1> HIDE DEF t
<1>4. ASSUME NEW k \in 1..Len(t)
      PROVE  /\ t[k].op \notin {"destroyed", "changed", "complete", "start", "uncapture"}
             /\ t[k].op = "advance" <=> walking /\ k = Len(t)
  <2>1. k + 1 \in 1..Len(todo) /\ t[k] = todo[k + 1] /\ (k + 1 = Len(todo) <=> k = Len(t))
        /\ k + 1 # 1 /\ Len(todo) # 1
    BY <1>2
  <2> QED  BY <2>1 DEF Bottom
<1>6. walking => t # <<>>
  <2>1. Len(todo) \in 1..Len(todo) /\ (t = <<>> => Len(todo) = 1)
    BY <1>2
  <2>2. walking => todo[Len(todo)].op = "advance"
    BY <2>1 DEF Bottom
  <2> QED  BY <2>1, <2>2, <1>1
<1> QED  BY <1>1, <1>2, <1>4, <1>6 DEF t

LEMMA BottomTail ==
  ASSUME Frames, Bottom, Len(stack) = 1, Top.todo # <<>>, Top.todo[1].op # "advance",
         stack'[1].todo = Tail(Top.todo), walking' = walking
  PROVE  Bottom' /\ InTurn
<1> DEFINE t == Tail(Top.todo)
<1>1. /\ Top.todo = stack[1].todo
      /\ \A k \in 1..Len(t) :
           /\ t[k].op \notin {"destroyed", "changed", "complete", "start", "uncapture"}
           /\ t[k].op = "advance" <=> walking /\ k = Len(t)
      /\ walking => t # <<>>
  BY RestOfUI
<1> HIDE DEF t
<1>2. stack'[1].todo = t
  BY DEF t
<1>3. Bottom'
  BY <1>1, <1>2 DEF Bottom
<1> QED  BY <1>1, <1>2, <1>3 DEF InTurn

LEMMA InTurnAbove ==
  ASSUME Walked, Len(stack) > 1, stack'[1] = stack[1], walking' = walking
  PROVE  InTurn
  BY DEF Walked, InTurn

\* A step that is done.
LEMMA StepsOn ==
  ASSUME Owned, Frames, Bottom, Walked, NEW op, AtStep(op), op \notin Returns, StepDone,
         walking' = walking,
         Len(stack) > 1 => \A m \in heap : m \in OnStack \/ ~macro[m].destroy_when_finished => Spared(m),
         Len(stack) > 1 /\ op = "purge" /\ Subject \in Creatures =>
           \A i \in 1..Len(running') : macro'[running'[i]].owner # Subject
  PROVE  Frames' /\ Cleared' /\ Bottom' /\ InTurn
<1> DEFINE t == Tail(Top.todo)
<1>1. /\ Top.todo \in Seq(OwnStep) /\ Top.todo # <<>> /\ Top.todo[1].op = op
      /\ Subject = Top.todo[1].of
  BY FirstStep
<1>2. t \in Seq(OwnStep) /\ GoesOn(t) /\ op # "advance"
  BY <1>1, StepTaken DEF StepDone, Returns
<1>3. CASE Len(stack) = 1
  <2>1. Frames' /\ Cleared' /\ stack'[1].todo = t
    BY <1>2, <1>3, UIWentOn
  <2> QED  BY <2>1, <1>1, <1>2, <1>3, BottomTail
<1>4. CASE Len(stack) > 1
  <2>1. InCommand(Top.todo)
    BY <1>4, StackFacts
  <2>2. /\ InCommand(t) /\ t # <<>>
        /\ FiresCreature(t) => Top.todo[1].op = "purge" /\ t[1].of = Top.todo[1].of
    BY <2>1, <1>1, CommandGoesOn
  <2>3. FiresCreature(t) => \A i \in 1..Len(running') : macro'[running'[i]].owner # t[1].of
    BY <2>2, <1>1, <1>4 DEF FiresCreature
  <2> HIDE DEF t
  <2>4. Frames' /\ Cleared' /\ Bottom' /\ stack'[1] = stack[1]
    BY <2>2, <2>3, <1>1, <1>2, <1>4, FramesWentOn
  <2> QED  BY <2>4, <1>4, InTurnAbove
<1>5. Len(stack) = 1 \/ Len(stack) > 1
  BY StackDepth
<1> QED  BY <1>3, <1>4, <1>5

\* A step that has a macro executed first.
LEMMA StepsInto ==
  ASSUME Owned, Frames, Bottom, Walked, NEW op, AtStep(op), op \notin Returns, op # "purge",
         NEW m \in Macros, StepDoneThen(m, Tail(Top.todo)), walking' = walking,
         m \in heap', ~macro'[m].paused, ~macro'[m].purged, Len(stack) > 1 => m \notin OnStack,
         \A k \in heap : k # m => Keeps(k)
  PROVE  Frames' /\ Cleared' /\ Bottom' /\ InTurn
<1> DEFINE t == Tail(Top.todo)
<1>1. Top.todo \in Seq(OwnStep) /\ Top.todo # <<>> /\ Top.todo[1].op = op
  BY FirstStep
<1>2. t \in Seq(OwnStep) /\ StepDoneThen(m, t) /\ op # "advance"
  BY <1>1, StepTaken DEF Returns
<1>3. CASE Len(stack) = 1
  <2>1. Frames' /\ Cleared' /\ stack'[1].todo = t
    <3> HIDE DEF t
    <3> QED  BY <1>2, <1>3, UIPushed
  <2> QED  BY <2>1, <1>1, <1>2, <1>3, BottomTail
<1>4. CASE Len(stack) > 1
  <2>1. InCommand(Top.todo)
    BY <1>4, StackFacts
  <2>2. InCommand(t) /\ t # <<>> /\ ~FiresCreature(t)
    BY <2>1, <1>1, CommandGoesOn
  <2> HIDE DEF t
  <2>3. Frames' /\ Cleared' /\ Bottom' /\ stack'[1] = stack[1]
    BY <2>2, <1>1, <1>2, <1>4, FramesPushed
  <2> QED  BY <2>3, <1>4, InTurnAbove
<1>5. Len(stack) = 1 \/ Len(stack) > 1
  BY StackDepth
<1> QED  BY <1>3, <1>4, <1>5

-----------------------------------------------------------------------------
(* Commands that end a turn *)

LEMMA PartsSame ==
  ASSUME Parts, UNCHANGED <<deferred, walkVars, bodyVars>>
  PROVE  Parts' /\ walking' = walking
  BY DEF Parts, walkVars, bodyVars

LEMMA Executing ==
  ASSUME Frames, Owned, InInterpreter
  PROVE  /\ Len(stack) > 1 /\ Top.todo = <<>>
         /\ Top.macro \in heap /\ Top.macro \in Macros /\ Accounted(macro[Top.macro])
         /\ ~macro[Top.macro].paused /\ ~macro[Top.macro].purged
  BY StackFacts, OwnFields DEF InInterpreter

LEMMA PausesKeeps ==
  ASSUME MacroInv, Pauses
  PROVE  MacroInv'
<1> DEFINE m == Top.macro  f == [macro[m] EXCEPT !.paused = TRUE]
<1>1. Parts /\ Owned /\ Listed /\ Frames /\ Bottom /\ Walked
  BY DEF MacroInv
<1>2. Len(stack) > 1 /\ m \in heap /\ m \in Macros /\ Accounted(macro[m])
  BY <1>1, Executing DEF Pauses
<1>3. macro[m] \in Fields
  BY <1>1, <1>2, OwnFields
<1>4. f \in Fields /\ Accounted(f) /\ f.purged = macro[m].purged
  BY <1>2, <1>3 DEF Fields, Accounted
<1>5. heap' = heap \cup {m} /\ macro' = [macro EXCEPT ![m] = f]
  BY <1>2 DEF Pauses
<1> HIDE DEF f
<1>6. /\ Owned' /\ macro'[m] = f /\ m \in heap'
      /\ \A k \in heap : k # m => Keeps(k)
  BY <1>1, <1>2, <1>4, <1>5, OwnedSet
<1>7. UNCHANGED listVars /\ Parts' /\ walking' = walking
  BY <1>1, PartsSame DEF Pauses
<1>8. Listed'
  <2>1. \A i \in 1..Len(running) : running[i] \in heap' /\ ~macro'[running[i]].purged
    BY <1>1, <1>4, <1>6 DEF Listed, Keeps
  <2> QED  BY <1>1, <1>7, <2>1, ListedSame DEF listVars
<1>9. Frames' /\ Cleared' /\ Bottom' /\ stack'[1] = stack[1]
  BY <1>1, <1>2, <1>6, <1>7, FramesPopped DEF Pauses
<1>10. Walked'
  BY <1>1, <1>2, <1>7, <1>9, InTurnAbove, WalkedSame
<1> QED  BY <1>6, <1>7, <1>8, <1>9, <1>10 DEF MacroInv

LEMMA HeapSame ==
  ASSUME Owned, Listed, UNCHANGED <<listVars, heapVars>>
  PROVE  Owned' /\ Listed' /\ \A m \in heap : Keeps(m) /\ Spared(m)
<1>1. heap' = heap /\ macro' = macro /\ running' = running /\ next' = next
  BY DEF listVars, heapVars
<1> QED  BY <1>1 DEF Owned, Listed, Keeps, Spared

LEMMA YieldsKeeps ==
  ASSUME MacroInv, Yields
  PROVE  MacroInv'
<1>1. Parts /\ Owned /\ Listed /\ Frames /\ Bottom /\ Walked
  BY DEF MacroInv
<1>2. Len(stack) > 1 /\ Top.macro \in heap
  BY <1>1, Executing DEF Yields
<1>3. /\ UNCHANGED listVars /\ Parts' /\ walking' = walking
      /\ Owned' /\ Listed' /\ \A m \in heap : Keeps(m)
  BY <1>1, PartsSame, HeapSame DEF Yields
<1>4. Frames' /\ Cleared' /\ Bottom' /\ stack'[1] = stack[1]
  BY <1>1, <1>2, <1>3, FramesPopped DEF Yields
<1>5. Walked'
  BY <1>1, <1>2, <1>3, <1>4, InTurnAbove, WalkedSame
<1> QED  BY <1>3, <1>4, <1>5 DEF MacroInv

\* A macro leaves the list and, with `gone`, the heap.
LEMMA EndedKeeps ==
  ASSUME MacroInv, InInterpreter, NEW gone, Erased({Top.macro}), Freed(gone),
         gone = {} \/ (gone = {Top.macro} /\
                        (macro[Top.macro].destroy_when_finished \/ ~macro[Top.macro].capture)),
         Popped, UNCHANGED <<deferred, walkVars, bodyVars>>
  PROVE  MacroInv'
<1> DEFINE m == Top.macro
<1>1. Parts /\ Owned /\ Listed /\ Frames /\ Bottom /\ Walked
  BY DEF MacroInv
<1>2. Len(stack) > 1 /\ m \in heap /\ m \in Macros
  BY <1>1, Executing
<1>3. /\ Owned' /\ heap' = heap \ gone
      /\ \A k \in Macros : k \notin gone => macro'[k] = macro[k]
  BY <1>1, OwnedFreed
<1>4. Parts' /\ walking' = walking
  BY <1>1, PartsSame
<1>5. \A k \in heap : k # m => Keeps(k)
  BY <1>1, <1>3 DEF Keeps, Owned
<1>6. macro[m].capture /\ ~macro[m].destroy_when_finished => Keeps(m)
  BY <1>2, <1>3 DEF Keeps
<1>7. Listed'
  BY <1>1, <1>5, ListedErased DEF Keeps
<1>8. Frames' /\ Cleared' /\ Bottom' /\ stack'[1] = stack[1]
  BY <1>1, <1>2, <1>4, <1>5, <1>6, FramesPopped
<1>9. Walked'
  BY <1>1, <1>2, <1>4, <1>8, InTurnAbove, WalkedErased
<1> QED  BY <1>3, <1>4, <1>7, <1>8, <1>9 DEF MacroInv

LEMMA EndsKeeps ==
  ASSUME MacroInv, Ends
  PROVE  MacroInv'
<1> DEFINE gone == IF macro[Top.macro].destroy_when_finished THEN {Top.macro} ELSE {}
<1>1. /\ InInterpreter /\ Erased({Top.macro}) /\ Freed(gone)
      /\ Popped /\ UNCHANGED <<deferred, walkVars, bodyVars>>
  BY DEF Ends, RemovedAndDestroyed
<1>2. gone = {} \/ (gone = {Top.macro} /\
                     (macro[Top.macro].destroy_when_finished \/ ~macro[Top.macro].capture))
  OBVIOUS
<1> HIDE DEF gone
<1> QED  BY <1>1, <1>2, EndedKeeps

LEMMA TerminatesKeeps ==
  ASSUME MacroInv, Terminates
  PROVE  MacroInv'
<1> DEFINE gone == IF ~macro[Top.macro].capture \/ macro[Top.macro].destroy_when_finished
                   THEN {Top.macro} ELSE {}
<1>1. /\ InInterpreter /\ Erased({Top.macro}) /\ Freed(gone)
      /\ Popped /\ UNCHANGED <<deferred, walkVars, bodyVars>>
  BY DEF Terminates, RemovedAndReleased
<1>2. gone = {} \/ (gone = {Top.macro} /\
                     (macro[Top.macro].destroy_when_finished \/ ~macro[Top.macro].capture))
  OBVIOUS
<1> HIDE DEF gone
<1> QED  BY <1>1, <1>2, EndedKeeps

-----------------------------------------------------------------------------
(* Commands that run other macros *)

\* The steps of a death or a waking, before the command's return.
Deeds(todo) ==
  /\ todo \in Seq(OwnStep)
  /\ \A k \in 1..Len(todo) :
       /\ todo[k].op \in {"turns", "purge", "fire", "dies"}
       /\ todo[k].op = "fire" =>
            \/ todo[k].of \in Indicators
            \/ todo[k].of \in Creatures /\ k > 1 /\ todo[k - 1] = Do("purge", todo[k].of)

LEMMA DeedsReturn ==
  ASSUME NEW todo, Deeds(todo), NEW op \in {"destroyed", "changed", "complete"}
  PROVE  /\ Append(todo, Return(op)) \in Seq(OwnStep) /\ Append(todo, Return(op)) # <<>>
         /\ InCommand(Append(todo, Return(op))) /\ ~FiresCreature(Append(todo, Return(op)))
<1> DEFINE r == Return(op)  t == Append(todo, r)  n == Len(todo)
<1>1. r \in OwnStep /\ r.op = op
  BY ReturnStep DEF Returns
<1>2. todo \in Seq(OwnStep) /\ n \in Nat
  BY DEF Deeds
<1> HIDE DEF r
<1>3. /\ t \in Seq(OwnStep) /\ t # <<>> /\ Len(t) = n + 1
      /\ \A i \in 1..n : t[i] = todo[i]
      /\ t[n + 1] = r
  BY <1>1, <1>2, AppendProperties
<1> HIDE DEF t
<1>4. ASSUME NEW k \in 1..Len(t)
      PROVE  /\ t[k].op \in {"turns", "turn", "purge", "fire", "dies", "destroyed", "changed", "complete"}
             /\ t[k].op \in Returns <=> k = Len(t)
             /\ t[k].op = "fire" =>
                  \/ t[k].of \in Indicators
                  \/ t[k].of \in Creatures /\ (k > 1 => t[k - 1] = Do("purge", t[k].of))
  <2>1. CASE k = n + 1
    BY <2>1, <1>1, <1>3 DEF Returns
  <2>2. CASE k # n + 1
    <3>1. k \in 1..n /\ k # Len(t) /\ t[k] = todo[k] /\ (k > 1 => t[k - 1] = todo[k - 1])
      BY <2>2, <1>2, <1>3
    <3> QED  BY <3>1 DEF Deeds, Returns
  <2> QED  BY <2>1, <2>2
<1>5. ~FiresCreature(t)
  <2>1. SUFFICES ASSUME t[1].op = "fire", t[1].of \in Creatures PROVE FALSE
    BY DEF FiresCreature
  <2>2. t[1].of \notin Indicators
    BY <2>1, OwnersAssumption
  <2>3. CASE n = 0
    BY <2>1, <2>3, <1>1, <1>3
  <2>4. CASE n > 0
    <3>1. 1 \in 1..n /\ t[1] = todo[1] /\ ~(1 > 1)
      BY <2>4, <1>2, <1>3
    <3> QED  BY <3>1, <2>1, <2>2 DEF Deeds
  <2> QED  BY <2>3, <2>4, <1>2
<1> QED  BY <1>3, <1>4, <1>5 DEF InCommand, t, r

LEMMA DeedsTogether ==
  ASSUME NEW s, Deeds(s), NEW t, Deeds(t)
  PROVE  Deeds(s \o t)
<1> DEFINE u == s \o t
<1>1. s \in Seq(OwnStep) /\ t \in Seq(OwnStep) /\ Len(s) \in Nat /\ Len(t) \in Nat
  BY DEF Deeds
<1>2. /\ u \in Seq(OwnStep) /\ Len(u) = Len(s) + Len(t)
      /\ \A i \in 1..Len(s) + Len(t) : u[i] = IF i <= Len(s) THEN s[i] ELSE t[i - Len(s)]
  BY <1>1, ConcatProperties
<1> HIDE DEF u
<1>3. ASSUME NEW k \in 1..Len(u)
      PROVE  /\ u[k].op \in {"turns", "purge", "fire", "dies"}
             /\ u[k].op = "fire" =>
                  \/ u[k].of \in Indicators
                  \/ u[k].of \in Creatures /\ k > 1 /\ u[k - 1] = Do("purge", u[k].of)
  <2>1. CASE k <= Len(s)
    <3>1. k \in 1..Len(s) /\ u[k] = s[k] /\ (k > 1 => u[k - 1] = s[k - 1])
      BY <2>1, <1>1, <1>2
    <3> QED  BY <3>1 DEF Deeds
  <2>2. CASE k > Len(s)
    <3> DEFINE j == k - Len(s)
    <3>1. j \in 1..Len(t) /\ u[k] = t[j] /\ (j > 1 => u[k - 1] = t[j - 1] /\ k > 1)
      <4>1. j \in 1..Len(t) /\ k \in 1..Len(s) + Len(t) /\ ~(k <= Len(s))
        BY <2>2, <1>1, <1>2
      <4>2. u[k] = t[j]
        BY <4>1, <1>2
      <4>3. j > 1 => k - 1 \in 1..Len(s) + Len(t) /\ ~(k - 1 <= Len(s)) /\ k - 1 - Len(s) = j - 1 /\ k > 1
        BY <4>1, <1>1
      <4>4. j > 1 => u[k - 1] = t[j - 1]
        BY <4>3, <1>2
      <4> QED  BY <4>1, <4>2, <4>3, <4>4
    <3> HIDE DEF j
    <3> QED  BY <3>1 DEF Deeds
  <2> QED  BY <2>1, <2>2, <1>1, <1>2
<1> QED  BY <1>2, <1>3 DEF Deeds, u

LEMMA KillDeeds ==
  ASSUME NEW o \in Objects
  PROVE  Deeds(KillSteps(o))
<1> DEFINE a == Do("turns", o)  b == Do("purge", o)
<1>1. a \in OwnStep /\ b \in OwnStep /\ a.op = "turns" /\ b.op = "purge"
  BY ObjectStep DEF ObjectSteps
<1> HIDE DEF a, b
<1>2. <<a, b>> \in Seq(OwnStep) /\ Len(<<a, b>>) = 2 /\ <<a, b>>[1] = a /\ <<a, b>>[2] = b
  BY <1>1
<1>3. \A k \in 1..2 : k = 1 \/ k = 2
  OBVIOUS
<1>4. Deeds(<<a, b>>)
  BY <1>1, <1>2, <1>3 DEF Deeds
<1> QED  BY <1>4 DEF KillSteps, a, b

LEMMA WakeDeeds ==
  ASSUME Parts, NEW c \in Creatures
  PROVE  Deeds(WakeSteps(c))
<1> DEFINE i == sleeping[c]  f == Do("fire", i)  a == Do("turns", i)  b == Do("purge", i)
<1>1. i \in Indicators \cup {Nobody}
  BY DEF Parts
<1>2. CASE i = Nobody
  BY <1>2 DEF WakeSteps, Deeds
<1>3. CASE i # Nobody
  <2>1. i \in Indicators /\ i \in Objects
    BY <1>1, <1>3, OwnersAssumption
  <2>2. /\ a \in OwnStep /\ b \in OwnStep /\ f \in OwnStep
        /\ a.op = "turns" /\ b.op = "purge" /\ f.op = "fire" /\ f.of = i
    BY <2>1, ObjectStep DEF ObjectSteps
  <2>3. WakeSteps(c) = <<f, a, b>>
    BY <1>3 DEF WakeSteps
  <2> HIDE DEF a, b, f
  <2>4. /\ <<f, a, b>> \in Seq(OwnStep) /\ Len(<<f, a, b>>) = 3
        /\ <<f, a, b>>[1] = f /\ <<f, a, b>>[2] = a /\ <<f, a, b>>[3] = b
    BY <2>2
  <2>5. \A k \in 1..3 : k = 1 \/ k = 2 \/ k = 3
    OBVIOUS
  <2> HIDE DEF i
  <2>6. Deeds(<<f, a, b>>)
    BY <2>1, <2>2, <2>4, <2>5 DEF Deeds
  <2> QED  BY <2>3, <2>6
<1> QED  BY <1>2, <1>3

LEMMA DeathDeeds ==
  ASSUME Parts, NEW c \in Creatures
  PROVE  Deeds(DeathSteps(c))
<1> DEFINE a == Do("turns", c)  b == Do("purge", c)  f == Do("fire", c)  d == Do("dies", c)
<1>1. /\ a \in OwnStep /\ b \in OwnStep /\ f \in OwnStep /\ d \in OwnStep
      /\ a.op = "turns" /\ b.op = "purge" /\ f.op = "fire" /\ d.op = "dies" /\ f.of = c
  BY ObjectStep, OwnersAssumption DEF ObjectSteps
<1>2. b = Do("purge", c)
  OBVIOUS
<1>3. DeathSteps(c) = WakeSteps(c) \o <<a, b, f, d>>
  BY DEF DeathSteps
<1> HIDE DEF a, b, f, d
<1>4. /\ <<a, b, f, d>> \in Seq(OwnStep) /\ Len(<<a, b, f, d>>) = 4
      /\ <<a, b, f, d>>[1] = a /\ <<a, b, f, d>>[2] = b /\ <<a, b, f, d>>[3] = f
      /\ <<a, b, f, d>>[4] = d
  BY <1>1
<1>5. \A k \in 1..4 : k = 1 \/ k = 2 \/ k = 3 \/ k = 4
  OBVIOUS
<1>6. 3 - 1 = 2 /\ 3 > 1
  OBVIOUS
<1>7. Deeds(<<a, b, f, d>>)
  BY <1>1, <1>2, <1>4, <1>5, <1>6 DEF Deeds
<1> QED  BY <1>3, <1>7, WakeDeeds, DeedsTogether

\* A command with steps: what they are, the frame goes on with them.
LEMMA CommandsKeeps ==
  ASSUME MacroInv, NEW steps \in Seq(OwnStep), Commands(steps),
         InCommand(steps), steps # <<>>, ~FiresCreature(steps), Parts'
  PROVE  MacroInv'
<1>1. Parts /\ Owned /\ Listed /\ Frames /\ Bottom /\ Walked
  BY DEF MacroInv
<1>2. Len(stack) > 1 /\ Top.macro \in heap
  BY <1>1, Executing DEF Commands
<1>3. /\ UNCHANGED listVars /\ walking' = walking
      /\ Owned' /\ Listed' /\ \A m \in heap : Spared(m)
  BY <1>1, HeapSame DEF Commands, walkVars
<1>4. Frames' /\ Cleared' /\ Bottom' /\ stack'[1] = stack[1]
  BY <1>1, <1>2, <1>3, FramesWentOn DEF Commands
<1>5. Walked'
  BY <1>1, <1>2, <1>3, <1>4, InTurnAbove, WalkedSame
<1> QED  BY <1>3, <1>4, <1>5 DEF MacroInv

LEMMA KillKeeps ==
  ASSUME MacroInv, NEW o \in Objects, Kill(o)
  PROVE  MacroInv'
<1> DEFINE op == IF o = macro[Top.macro].owner THEN "destroyed" ELSE "changed"
           steps == Append(KillSteps(o), Return(op))
<1>1. Commands(steps) /\ Awake(o) /\ dead' = dead \ {o}
  <2>1. Return(op) = Return(IF o = macro[Top.macro].owner THEN "destroyed" ELSE "changed")
    OBVIOUS
  <2> QED  BY DEF Kill
<1>2. op \in {"destroyed", "changed", "complete"} /\ Deeds(KillSteps(o))
  BY KillDeeds
<1>3. Parts'
  BY <1>1 DEF MacroInv, Parts, Commands, walkVars, Awake
<1> HIDE DEF op
<1>4. steps \in Seq(OwnStep) /\ steps # <<>> /\ InCommand(steps) /\ ~FiresCreature(steps)
  BY <1>2, DeedsReturn
<1> HIDE DEF steps
<1> QED  BY <1>1, <1>3, <1>4, CommandsKeeps

LEMMA CdieKeeps ==
  ASSUME MacroInv, NEW c \in Creatures, Cdie(c)
  PROVE  MacroInv'
<1> DEFINE steps == Append(DeathSteps(c), Return("complete"))
<1>1. Commands(steps) /\ Awake(c) /\ dead' = dead
  BY DEF Cdie
<1>2. Deeds(DeathSteps(c))
  BY DeathDeeds DEF MacroInv
<1>3. Parts'
  BY <1>1 DEF MacroInv, Parts, Commands, walkVars, Awake
<1>4. steps \in Seq(OwnStep) /\ steps # <<>> /\ InCommand(steps) /\ ~FiresCreature(steps)
  BY <1>2, DeedsReturn
<1> HIDE DEF steps
<1> QED  BY <1>1, <1>3, <1>4, CommandsKeeps

LEMMA WakesUpKeeps ==
  ASSUME MacroInv, NEW c \in Creatures, WakesUp(c)
  PROVE  MacroInv'
<1> DEFINE steps == Append(WakeSteps(c), Return("complete"))
<1>1. Commands(steps) /\ Awake(c) /\ dead' = dead
  BY DEF WakesUp
<1>2. Deeds(WakeSteps(c))
  BY WakeDeeds DEF MacroInv
<1>3. Parts'
  BY <1>1 DEF MacroInv, Parts, Commands, walkVars, Awake
<1>4. steps \in Seq(OwnStep) /\ steps # <<>> /\ InCommand(steps) /\ ~FiresCreature(steps)
  BY <1>2, DeedsReturn
<1> HIDE DEF steps
<1> QED  BY <1>1, <1>3, <1>4, CommandsKeeps

LEMMA FallsAsleepKeeps ==
  ASSUME MacroInv, NEW c \in Creatures, NEW i \in Indicators, FallsAsleep(c, i)
  PROVE  MacroInv'
<1> DEFINE f == Do("fire", i)  r == Return("complete")
<1>1. Commands(<<f, r>>) /\ sleeping' = [sleeping EXCEPT ![c] = i] /\ dead' = dead
  BY DEF FallsAsleep
<1>2. f \in OwnStep /\ r \in OwnStep /\ f.op = "fire" /\ f.of = i /\ r.op = "complete"
  BY ObjectStep, ReturnStep, OwnersAssumption DEF ObjectSteps, Returns
<1>3. Parts'
  BY <1>1 DEF MacroInv, Parts, Commands, walkVars
<1> HIDE DEF f, r
<1>4. <<f, r>> \in Seq(OwnStep) /\ Len(<<f, r>>) = 2 /\ <<f, r>>[1] = f /\ <<f, r>>[2] = r
      /\ <<f, r>> # <<>>
  BY <1>2
<1>5. \A k \in 1..2 : k = 1 \/ k = 2
  OBVIOUS
<1>6. InCommand(<<f, r>>) /\ ~FiresCreature(<<f, r>>)
  BY <1>2, <1>4, <1>5, OwnersAssumption DEF InCommand, FiresCreature, Returns
<1> QED  BY <1>1, <1>3, <1>4, <1>6, CommandsKeeps

-----------------------------------------------------------------------------
(* Steps of a command *)

LEMMA ReturnedKeeps ==
  ASSUME MacroInv, Returned
  PROVE  MacroInv'
<1> DEFINE m == Top.macro
<1>1. Parts /\ Owned /\ Listed /\ Frames /\ Bottom /\ Walked
  BY DEF MacroInv
<1>2. PICK op \in {"changed", "complete"} : AtStep(op)
  BY DEF Returned
<1>3. /\ Top.todo \in Seq(OwnStep) /\ Top.todo # <<>> /\ Top.todo[1].op = op
      /\ op \in Returns => Len(stack) > 1 \/ op = "advance"
  BY <1>1, <1>2, FirstStep
<1>4. op \in Returns /\ op # "advance"
  BY <1>2 DEF Returns
<1>5. Len(stack) > 1
  BY <1>3, <1>4
<1>6. m \in heap /\ InCommand(Top.todo)
  BY <1>1, <1>5, StackFacts
<1>7. UNCHANGED listVars /\ Parts' /\ walking' = walking
  BY <1>1, PartsSame DEF Returned
<1>8. CASE macro[m].purged
  <2>1. Freed({m}) /\ Popped
    BY <1>8 DEF Returned
  <2>2. /\ Owned' /\ heap' = heap \ {m}
        /\ \A k \in Macros : k \notin {m} => macro'[k] = macro[k]
    BY <1>1, <2>1, OwnedFreed
  <2>3. \A k \in heap : k # m => Keeps(k)
    BY <1>1, <2>2 DEF Keeps, Owned
  <2>4. macro[m].destroy_when_finished
    BY <1>1, <1>6, <1>8, OwnFields DEF Accounted
  <2>5. Frames' /\ Cleared' /\ Bottom' /\ stack'[1] = stack[1]
    BY <1>1, <1>5, <1>7, <2>1, <2>3, <2>4, FramesPopped
  <2>6. Listed'
    <3>1. \A i \in 1..Len(running) : running[i] \in heap' /\ ~macro'[running[i]].purged
      BY <1>1, <1>8, <2>3 DEF Listed, Keeps
    <3> QED  BY <1>1, <1>7, <3>1, ListedSame DEF listVars
  <2>7. Walked'
    BY <1>1, <1>5, <1>7, <2>5, InTurnAbove, WalkedSame
  <2> QED  BY <1>7, <2>2, <2>5, <2>6, <2>7 DEF MacroInv
<1>9. CASE ~macro[m].purged
  <2>1. UNCHANGED heapVars /\ (Popped \/ StepDone)
    BY <1>9 DEF Returned
  <2>2. Owned' /\ Listed' /\ \A k \in heap : Keeps(k) /\ Spared(k)
    BY <1>1, <1>7, <2>1, HeapSame
  <2>3. CASE Popped
    BY <1>1, <1>5, <1>6, <1>7, <2>2, <2>3, FramesPopped, InTurnAbove, WalkedSame DEF MacroInv
  <2>4. CASE StepDone
    <3> DEFINE t == Tail(Top.todo)
    <3>1. t \in Seq(OwnStep) /\ GoesOn(t) /\ t = <<>>
      BY <1>3, <1>4, <1>6, <2>4, CommandGoesOn, StepTaken DEF StepDone
    <3> HIDE DEF t
    <3>2. InCommand(t) /\ ~FiresCreature(t)
      BY <3>1 DEF InCommand, FiresCreature
    <3>3. ~macro'[m].purged
      BY <1>6, <1>9, <2>2 DEF Keeps
    <3>4. Frames' /\ Cleared' /\ Bottom' /\ stack'[1] = stack[1]
      BY <1>1, <1>5, <1>7, <2>2, <3>1, <3>2, <3>3, FramesWentOn
    <3> QED  BY <1>1, <1>5, <1>7, <2>2, <3>4, InTurnAbove, WalkedSame DEF MacroInv
  <2> QED  BY <2>1, <2>3, <2>4
<1> QED  BY <1>8, <1>9

LEMMA ReturnedDestroyedKeeps ==
  ASSUME MacroInv, ReturnedDestroyed
  PROVE  MacroInv'
<1>1. Parts /\ Owned /\ Listed /\ Frames /\ Bottom /\ Walked
  BY DEF MacroInv
<1>2. Len(stack) > 1
  BY <1>1, FirstStep DEF ReturnedDestroyed, Returns
<1>3. Top.macro \in heap
  BY <1>1, <1>2, StackFacts
<1>4. /\ UNCHANGED listVars /\ Parts' /\ walking' = walking /\ Popped
      /\ Owned' /\ Listed' /\ \A m \in heap : Keeps(m)
  BY <1>1, PartsSame, HeapSame DEF ReturnedDestroyed
<1>5. Frames' /\ Cleared' /\ Bottom' /\ stack'[1] = stack[1]
  BY <1>1, <1>2, <1>3, <1>4, FramesPopped
<1> QED  BY <1>1, <1>2, <1>4, <1>5, InTurnAbove, WalkedSame DEF MacroInv

\* Turns or an event put in front of what the UI thread has to do.
LEMMA BottomWithSteps ==
  ASSUME Frames, Bottom, Len(stack) = 1, Top.todo # <<>>, Top.todo[1].op \in {"turns", "apply"},
         NEW n \in Nat, NEW all, Len(all) = n + Len(Tail(Top.todo)),
         \A k \in 1..n : all[k].op \in {"turn", "fire"},
         \A k \in 1..Len(Tail(Top.todo)) : all[n + k] = Tail(Top.todo)[k],
         stack'[1].todo = all, walking' = walking
  PROVE  Bottom' /\ InTurn
<1> DEFINE t == Tail(Top.todo)
<1>1. /\ t \in Seq(OwnStep) /\ Top.todo = stack[1].todo
      /\ \A k \in 1..Len(t) :
           /\ t[k].op \notin {"destroyed", "changed", "complete", "start", "uncapture"}
           /\ t[k].op = "advance" <=> walking /\ k = Len(t)
      /\ walking => t # <<>>
  BY RestOfUI
<1>2. Len(all) = n + Len(t) /\ \A k \in 1..Len(t) : all[n + k] = t[k]
  OBVIOUS
<1> HIDE DEF t
<1>4. Len(t) \in Nat
  BY <1>1
<1>5. walking => Len(t) > 0
  BY <1>1, <1>4, EmptySeq
<1>6. ASSUME NEW k \in 1..Len(all)
      PROVE  /\ all[k].op \notin {"destroyed", "changed", "complete", "start", "uncapture"}
             /\ all[k].op = "advance" <=> walking /\ k = Len(all)
  <2>1. CASE k <= n
    <3>1. k \in 1..n /\ (walking => k # Len(all))
      BY <2>1, <1>2, <1>4, <1>5
    <3>2. all[k].op \in {"turn", "fire"}
      BY <3>1
    <3> QED  BY <3>1, <3>2
  <2>2. CASE k > n
    <3> DEFINE j == k - n
    <3>4. Len(all) = n + Len(t)
      BY <1>2
    <3>5. k \in 1..Len(all)
      OBVIOUS
    <3>0. k \in Nat /\ k <= n + Len(t) /\ (k = Len(all) <=> k = n + Len(t))
      BY ONLY <3>4, <3>5, <1>4, n \in Nat
    <3>3. j \in 1..Len(t) /\ k = n + j /\ (k = n + Len(t) <=> j = Len(t))
      BY ONLY <3>0, <2>2, <1>4, n \in Nat
    <3>1. j \in 1..Len(t) /\ k = n + j /\ (k = Len(all) <=> j = Len(t))
      BY <3>0, <3>3
    <3> HIDE DEF j
    <3>2. all[k] = t[j]
      BY <3>1, <1>2
    <3> QED  BY <3>1, <3>2, <1>1
  <2> QED  BY <2>1, <2>2, <1>2, <1>4
<1>7. walking => all # <<>>
  <2>1. walking => Len(all) # 0
    BY <1>2, <1>4, <1>5
  <2> QED  BY <2>1, EmptySeq
<1>8. Bottom'
  BY <1>6 DEF Bottom
<1> QED  BY <1>1, <1>7, <1>8 DEF InTurn

LEMMA TurnsBeginKeeps ==
  ASSUME MacroInv, TurnsBegin
  PROVE  MacroInv'
<1>1. Parts /\ Owned /\ Listed /\ Frames /\ Bottom /\ Walked
  BY DEF MacroInv
<1>2. AtStep("turns") /\ UNCHANGED <<listVars, heapVars>> /\ UNCHANGED <<deferred, walkVars, bodyVars>>
  BY DEF TurnsBegin
<1>3. Top.todo \in Seq(OwnStep) /\ Top.todo # <<>> /\ Top.todo[1].op = "turns"
  BY <1>1, <1>2, FirstStep
<1>4. PICK turns \in Seq(Macros) :
        GoesOn([i \in DOMAIN turns |-> Do("turn", turns[i])] \o Tail(Top.todo))
  <2> DEFINE waits == {m \in Macros : /\ macro[m].owner = Subject /\ macro[m].paused
                                      /\ macro[m].destroy_when_finished}
             waiting == Without(running, Macros \ waits)
  <2>1. GoesOn([i \in DOMAIN waiting |-> Do("turn", waiting[i])] \o Tail(Top.todo))
    BY DEF TurnsBegin
  <2>2. running \in Seq(Macros)
    BY <1>1 DEF Listed
  <2>3. waiting \in Seq(Macros)
    BY <2>2, WithoutIsSeq, Zenon
  <2> HIDE DEF waiting
  <2> QED  BY <2>1, <2>3
<1> DEFINE t == Tail(Top.todo)
           all == [i \in DOMAIN turns |-> Do("turn", turns[i])] \o t
<1>5. UNCHANGED listVars /\ Parts' /\ walking' = walking
  BY <1>1, <1>2, PartsSame
<1>6. Owned' /\ Listed' /\ \A m \in heap : Spared(m)
  BY <1>1, <1>2, HeapSame
<1>7. t \in Seq(OwnStep)
  BY <1>3, StepTaken
<1>8. /\ all \in Seq(OwnStep) /\ Len(all) = Len(turns) + Len(t)
      /\ \A k \in 1..Len(turns) : all[k] = Do("turn", turns[k])
      /\ \A k \in 1..Len(t) : all[Len(turns) + k] = t[k]
  BY <1>7, TurnsInFront
<1>9. CASE Len(stack) = 1
  <2>1. Frames' /\ Cleared' /\ stack'[1].todo = all
    <3> HIDE DEF all
    <3>1. GoesOn(all)
      BY <1>4 DEF all
    <3> QED  BY <3>1, <1>1, <1>8, <1>9, UIWentOn
  <2>2. Len(turns) \in Nat /\ \A k \in 1..Len(turns) : all[k].op = "turn"
    <3>1. \A k \in 1..Len(turns) : all[k] = Do("turn", turns[k])
      BY <1>8
    <3>2. \A k \in 1..Len(turns) : Do("turn", turns[k]).op = "turn"
      BY DEF Do
    <3> HIDE DEF all
    <3> QED  BY <3>1, <3>2
  <2>3. Bottom' /\ InTurn
    <3>1. stack'[1].todo = all
      BY <2>1
    <3>2. /\ Len(all) = Len(turns) + Len(Tail(Top.todo))
          /\ \A k \in 1..Len(Tail(Top.todo)) : all[Len(turns) + k] = Tail(Top.todo)[k]
      BY <1>8
    <3> HIDE DEF all
    <3> QED  BY <3>1, <3>2, <2>2, <1>1, <1>3, <1>5, <1>9, BottomWithSteps
  <2> QED  BY <2>1, <2>3, <1>1, <1>5, <1>6, WalkedSame DEF MacroInv
<1>10. CASE Len(stack) > 1
  <2>1. InCommand(Top.todo)
    BY <1>1, <1>10, StackFacts
  <2>2. InCommand(t) /\ t # <<>> /\ ~FiresCreature(t)
    BY <2>1, <1>3, CommandGoesOn DEF Returns
  <2>3. all # <<>> /\ InCommand(all) /\ ~FiresCreature(all)
    BY <2>2, <1>7, CommandWithTurns
  <2>4. GoesOn(all)
    BY <1>4
  <2> HIDE DEF all
  <2>5. Frames' /\ Cleared' /\ Bottom' /\ stack'[1] = stack[1]
    BY <1>1, <1>3, <1>5, <1>6, <1>8, <1>10, <2>3, <2>4, FramesWentOn
  <2> QED  BY <2>5, <1>1, <1>5, <1>6, <1>10, InTurnAbove, WalkedSame DEF MacroInv
<1> QED  BY <1>1, <1>9, <1>10, StackDepth

LEMMA ListIs ==
  ASSUME Listed
  PROVE  /\ ToSet(running) = {running[i] : i \in 1..Len(running)}
         /\ \A m \in ToSet(running) : m \in Macros /\ m \in heap /\ ~macro[m].purged
<1>1. running \in Seq(Macros)
  BY DEF Listed
<1>2. ToSet(running) = {running[i] : i \in 1..Len(running)}
  BY <1>1 DEF ToSet
<1> QED  BY <1>1, <1>2 DEF Listed

LEMMA TurnBeforePurgeKeeps ==
  ASSUME MacroInv, TurnBeforePurge
  PROVE  MacroInv'
<1> DEFINE m == Subject  f == [macro[m] EXCEPT !.paused = FALSE]
<1>1. Parts /\ Owned /\ Listed /\ Frames /\ Bottom /\ Walked
  BY DEF MacroInv
<1>2. AtStep("turn") /\ "turn" \notin Returns /\ "turn" # "purge"
  BY DEF TurnBeforePurge, Returns
<1>3. UNCHANGED listVars /\ Parts' /\ walking' = walking
  BY <1>1, PartsSame DEF TurnBeforePurge
<1>4. CASE m \in ToSet(running) /\ macro[m].paused
  <2>1. m \in Macros /\ m \in heap
    BY <1>1, <1>4, ListIs
  <2>2. macro[m] \in Fields /\ Accounted(macro[m])
    BY <1>1, <2>1, OwnFields
  <2>3. f \in Fields /\ Accounted(f) /\ f.purged = macro[m].purged /\ ~f.paused
    BY <2>2 DEF Fields, Accounted
  <2>4. heap' = heap \cup {m} /\ macro' = [macro EXCEPT ![m] = f]
        /\ StepDoneThen(m, Tail(Top.todo))
    BY <2>1, <1>4 DEF TurnBeforePurge
  <2> HIDE DEF f, m
  <2>5. /\ Owned' /\ macro'[m] = f /\ m \in heap'
        /\ \A k \in heap : k # m => Keeps(k)
    BY <1>1, <2>1, <2>3, <2>4, OwnedSet
  <2>6. Listed'
    <3>1. \A i \in 1..Len(running) : running[i] \in heap' /\ ~macro'[running[i]].purged
      BY <1>1, <2>3, <2>5 DEF Listed, Keeps
    <3> QED  BY <1>1, <1>3, <3>1, ListedSame DEF listVars
  <2>7. m \notin OnStack
    BY <1>1, <1>4, <2>1, OnStackAre DEF Frames
  <2>8. ~macro'[m].purged
    BY <2>3, <2>5, <1>1, <1>4, ListIs
  <2>9. Frames' /\ Cleared' /\ Bottom' /\ InTurn
    BY <1>1, <1>2, <1>3, <2>1, <2>3, <2>4, <2>5, <2>7, <2>8, StepsInto
  <2> QED  BY <1>1, <1>3, <2>5, <2>6, <2>9, WalkedSame DEF MacroInv
<1>5. CASE ~(m \in ToSet(running) /\ macro[m].paused)
  <2>1. StepDone /\ UNCHANGED heapVars
    BY <1>5 DEF TurnBeforePurge, heapVars
  <2>2. Owned' /\ Listed' /\ \A k \in heap : Spared(k)
    BY <2>1, <1>1, <1>3, HeapSame
  <2>3. Frames' /\ Cleared' /\ Bottom' /\ InTurn
    BY <1>1, <1>2, <1>3, <2>1, <2>2, StepsOn
  <2> QED  BY <1>1, <1>3, <2>2, <2>3, WalkedSame DEF MacroInv
<1> QED  BY <1>4, <1>5

LEMMA PurgesKeeps ==
  ASSUME KitsApart, MacroInv, Purges
  PROVE  MacroInv'
<1> DEFINE doomed == Doomed(Subject)
<1>1. Parts /\ Owned /\ Listed /\ Frames /\ Bottom /\ Walked
  BY DEF MacroInv
<1>2. /\ AtStep("purge") /\ "purge" \notin Returns /\ StepDone
      /\ Erased(doomed) /\ heap' = heap \ (doomed \ OnStack)
      /\ macro' = [m \in Macros |-> IF m \notin doomed THEN macro[m]
                                    ELSE IF m \in OnStack THEN [macro[m] EXCEPT !.purged = TRUE]
                                    ELSE Unused]
      /\ deferred' = deferred \ {Subject} /\ UNCHANGED <<walkVars, bodyVars>>
  BY DEF Purges, Returns
<1>3. Parts' /\ walking' = walking
  BY <1>1, <1>2 DEF Parts, walkVars, bodyVars
<1>4. \A m \in doomed : /\ m \in heap /\ m \in Macros /\ macro[m].destroy_when_finished
                        /\ macro[m].owner = Subject
  BY <1>1, ListIs DEF Doomed
<1>5. heap \subseteq Macros /\ macro \in [Macros -> Fields]
  BY <1>1 DEF Owned
<1>6. \A i \in 1..Len(running) : running[i] \in Macros /\ (running[i] \in doomed <=>
         macro[running[i]].owner = Subject /\ macro[running[i]].destroy_when_finished)
  BY <1>1, ListIs DEF Doomed
<1> HIDE DEF doomed
<1>7. \A m \in Macros : macro'[m] = IF m \notin doomed THEN macro[m]
                                    ELSE IF m \in OnStack THEN [macro[m] EXCEPT !.purged = TRUE]
                                    ELSE Unused
  BY <1>2
<1>8. ASSUME NEW m \in Macros, m \in doomed, m \in OnStack
      PROVE  /\ macro'[m] = [macro[m] EXCEPT !.purged = TRUE] /\ macro'[m] \in Fields
             /\ Accounted(macro'[m]) /\ m \in heap' /\ macro[m].destroy_when_finished
             /\ macro'[m].paused = macro[m].paused /\ macro'[m].owner = macro[m].owner
  <2> DEFINE f == [macro[m] EXCEPT !.purged = TRUE]
  <2>1. macro[m] \in Fields /\ Accounted(macro[m]) /\ m \in heap /\ macro[m].destroy_when_finished
    BY <1>1, <1>4, <1>8, OwnFields
  <2>2. f \in Fields /\ Accounted(f) /\ f.paused = macro[m].paused /\ f.owner = macro[m].owner
    BY <2>1 DEF Fields, Accounted
  <2>3. macro'[m] = f
    BY <1>7, <1>8
  <2> QED  BY <2>1, <2>2, <2>3, <1>2, <1>8
<1>9. \A m \in Macros : m \notin doomed => macro'[m] = macro[m] /\ (m \in heap' <=> m \in heap)
  BY <1>2, <1>7
<1>10. \A m \in Macros : m \in doomed /\ m \notin OnStack => macro'[m] = Unused /\ m \notin heap'
  BY <1>2, <1>7, <1>4
<1>11. Owned'
  <2>1. macro' \in [Macros -> Fields]
    <3>1. \A m \in Macros : macro'[m] \in Fields
      BY <1>5, <1>8, <1>9, <1>10, UnusedFields
    <3>2. macro' = [m \in Macros |-> macro'[m]]
      BY <1>2
    <3> HIDE <1>2
    <3> QED  BY <3>1, <3>2
  <2>2. \A m \in Macros \ heap' : macro'[m] = Unused
    BY <1>1, <1>8, <1>9, <1>10 DEF Owned
  <2>3. \A m \in heap' : Accounted(macro'[m])
    <3> SUFFICES ASSUME NEW m \in heap' PROVE Accounted(macro'[m])
      OBVIOUS
    <3>1. m \in Macros /\ m \in heap
      BY <1>2, <1>5
    <3>2. CASE m \in doomed
      BY <3>1, <3>2, <1>8, <1>10
    <3>3. CASE m \notin doomed
      BY <3>1, <3>3, <1>1, <1>9 DEF Owned
    <3> QED  BY <3>2, <3>3
  <2>4. heap' \subseteq Macros
    BY <1>2, <1>5
  <2> QED  BY <2>1, <2>2, <2>3, <2>4 DEF Owned, Accounted
<1>12. Listed'
  <2>1. \A m \in heap : m \notin doomed => m \in heap' /\ (macro'[m].purged => macro[m].purged)
    BY <1>5, <1>9
  <2> QED  BY <2>1, <1>1, <1>2, ListedErased
<1>13. \A m \in heap : m \in OnStack \/ ~macro[m].destroy_when_finished => Spared(m)
  <2> SUFFICES ASSUME NEW m \in heap, m \in OnStack \/ ~macro[m].destroy_when_finished
               PROVE  Spared(m)
    OBVIOUS
  <2>1. m \in Macros
    BY <1>5
  <2>2. CASE m \in doomed
    BY <2>1, <2>2, <1>4, <1>8 DEF Spared
  <2>3. CASE m \notin doomed
    BY <2>1, <2>3, <1>9 DEF Spared
  <2> QED  BY <2>2, <2>3
<1>14. ASSUME Subject \in Creatures, NEW i \in 1..Len(running')
       PROVE  macro'[running'[i]].owner # Subject
  <2>1. running'[i] \notin doomed /\ \E j \in 1..Len(running) : running[j] = running'[i]
    BY <1>1, <1>2, ErasedList DEF Walked
  <2>2. PICK j \in 1..Len(running) : running[j] = running'[i]
    BY <2>1
  <2>3. SUFFICES ASSUME macro'[running'[i]].owner = Subject PROVE FALSE
    OBVIOUS
  <2>4. macro[running[j]].owner = Subject /\ running[j] \in heap /\ running[j] \notin doomed
    BY <2>1, <2>2, <2>3, <1>1, <1>6, <1>9 DEF Listed
  <2>5. ~macro[running[j]].destroy_when_finished
    BY <2>4, <1>6
  <2>6. Kits /\ Subject \in Selectable
    BY <2>4, <2>5, <1>1, OwnFields DEF Accounted
  <2> QED  BY <2>6, <1>14 DEF KitsApart
<1>15. Frames' /\ Cleared' /\ Bottom' /\ InTurn
  BY <1>1, <1>2, <1>3, <1>13, <1>14, StepsOn
<1>16. Walked'
  BY <1>1, <1>2, <1>15, WalkedErased
<1> QED  BY <1>3, <1>11, <1>12, <1>15, <1>16 DEF MacroInv

\* A step that touches neither the list nor the macros.
LEMMA QuietStepKeeps ==
  ASSUME MacroInv, NEW op, AtStep(op), op \notin Returns, op # "purge", StepDone,
         UNCHANGED <<listVars, heapVars>>, walking' = walking, Parts'
  PROVE  MacroInv'
<1>1. Owned /\ Listed /\ Frames /\ Bottom /\ Walked
  BY DEF MacroInv
<1>2. Owned' /\ Listed' /\ \A k \in heap : Spared(k)
  BY <1>1, HeapSame
<1>3. Frames' /\ Cleared' /\ Bottom' /\ InTurn
  BY <1>1, <1>2, StepsOn
<1>4. Walked'
  BY <1>1, <1>3, WalkedSame DEF listVars
<1> QED  BY <1>2, <1>3, <1>4 DEF MacroInv

LEMMA DiesKeeps ==
  ASSUME MacroInv, Dies
  PROVE  MacroInv'
<1>3. Subject \in Creatures
  BY FirstStep DEF MacroInv, Dies
<1>1. Parts' /\ walking' = walking
  BY <1>3 DEF MacroInv, Parts, Dies, walkVars
<1>2. AtStep("dies") /\ "dies" \notin Returns /\ "dies" # "purge" /\ StepDone
      /\ UNCHANGED <<listVars, heapVars>>
  BY DEF Dies, Returns
<1> QED  BY <1>1, <1>2, QuietStepKeeps

LEMMA FiringStep ==
  ASSUME Firing
  PROVE  \E op \in {"fire", "restart"} : AtStep(op) /\ op \notin Returns /\ op # "purge"
                                         /\ op \in ObjectSteps
  BY DEF Firing, Returns, ObjectSteps

LEMMA FiresNothingKeeps ==
  ASSUME MacroInv, FiresNothing
  PROVE  MacroInv'
<1>1. PICK op : AtStep(op) /\ op \notin Returns /\ op # "purge"
  BY FiringStep DEF FiresNothing
<1>2. Parts' /\ walking' = walking
  BY PartsSame DEF MacroInv, FiresNothing
<1> QED  BY <1>1, <1>2, QuietStepKeeps DEF FiresNothing

LEMMA FiresDeferredKeeps ==
  ASSUME MacroInv, FiresDeferred
  PROVE  MacroInv'
<1>1. PICK op : AtStep(op) /\ op \notin Returns /\ op # "purge" /\ op \in ObjectSteps
  BY FiringStep DEF FiresDeferred
<1>2. Subject \in Objects
  BY <1>1, FirstStep DEF MacroInv
<1>3. Parts' /\ walking' = walking
  BY <1>2 DEF MacroInv, Parts, FiresDeferred, walkVars, bodyVars
<1> QED  BY <1>1, <1>3, QuietStepKeeps DEF FiresDeferred

\* A macro is started by the step at hand.
LEMMA StartedKeeps ==
  ASSUME MacroInv, NEW op \in {"fire", "restart", "start"}, AtStep(op),
         NEW m \in Macros, NEW fields \in Fields, Started(m, fields, Tail(Top.todo)),
         heap' = heap \cup {m}, Accounted(fields), ~fields.purged,
         Len(stack) > 1 => m \notin OnStack /\ (m \in heap => m \in ToSet(running)),
         UNCHANGED <<deferred, walkVars, bodyVars>>
  PROVE  MacroInv'
<1> DEFINE f == [fields EXCEPT !.paused = FALSE, !.capture = FALSE]
<1>1. Parts /\ Owned /\ Listed /\ Frames /\ Bottom /\ Walked
  BY DEF MacroInv
<1>2. op \notin Returns /\ op # "purge"
  BY DEF Returns
<1>3. Parts' /\ walking' = walking
  BY <1>1, PartsSame
<1>4. f \in Fields /\ Accounted(f) /\ ~f.purged /\ ~f.paused
  BY DEF Fields, Accounted
<1>5. macro' = [macro EXCEPT ![m] = f]
  BY DEF Started
<1> HIDE DEF f
<1>6. /\ Owned' /\ macro'[m] = f /\ m \in heap'
      /\ \A k \in heap : k # m => Keeps(k)
  BY <1>1, <1>4, <1>5, OwnedSet
<1>7. Listed'
  BY <1>1, <1>4, <1>6, ListedStarted
<1>8. CASE StepDoneThen(m, Tail(Top.todo))
  <2>1. Frames' /\ Cleared' /\ Bottom' /\ InTurn
    BY <1>1, <1>2, <1>3, <1>4, <1>6, <1>8, StepsInto
  <2> QED  BY <2>1, <1>1, <1>3, <1>6, <1>7, WalkedStarted DEF MacroInv
<1>9. CASE ~StepDoneThen(m, Tail(Top.todo))
  <2>1. StepDone /\ m \notin ToSet(running)
    BY <1>9 DEF Started, StepDone
  <2>2. Len(stack) > 1 => \A k \in heap : Spared(k)
    BY <2>1, <1>6 DEF Keeps, Spared
  <2>3. Frames' /\ Cleared' /\ Bottom' /\ InTurn
    BY <1>1, <1>2, <1>3, <2>1, <2>2, StepsOn
  <2> QED  BY <2>3, <1>1, <1>3, <1>6, <1>7, WalkedStarted DEF MacroInv
<1> QED  BY <1>8, <1>9

\* What is found to be reloaded is in the list, and its owner is right.
LEMMA FoundIs ==
  ASSUME Listed, Found # <<>>
  PROVE  Head(Found) \in ToSet(running) /\ macro[Head(Found)].owner = Subject
<1> DEFINE others == {m \in Macros : macro[m].owner # Subject}
<1>1. running \in Seq(Macros) /\ Found = Without(running, others)
  BY DEF Listed, Found
<1>2. Found \in Seq(Macros \ others)
  BY <1>1, WithoutIsSeq, Zenon
<1> HIDE DEF others
<1>3. Head(Found) \in Macros \ others /\ 1 \in 1..Len(Found) /\ Found[1] = Head(Found)
  BY <1>2
<1>4. \A y : (\E i \in 1..Len(Without(running, others)) : Without(running, others)[i] = y)
               <=> y \notin others /\ \E i \in 1..Len(running) : running[i] = y
  <2>1. running \in Seq(Macros)
    BY <1>1
  <2> QED  BY <2>1, WithoutKeeps, Zenon
<1>5. \E i \in 1..Len(running) : running[i] = Head(Found)
  BY <1>1, <1>3, <1>4
<1> QED  BY <1>3, <1>5, ListIs DEF others

LEMMA FiresReloadKeeps ==
  ASSUME MacroInv, FiresReload
  PROVE  MacroInv'
<1> DEFINE m == Head(Found)
<1>1. Owned /\ Listed /\ Frames /\ Bottom /\ Cleared
  BY DEF MacroInv
<1>2. AtStep("fire") /\ Found # <<>>
  BY DEF FiresReload, Reuses
<1>3. m \in ToSet(running) /\ macro[m].owner = Subject
  BY <1>1, <1>2, FoundIs
<1>4. m \in Macros /\ m \in heap /\ ~macro[m].purged
  BY <1>1, <1>3, ListIs
<1>5. macro[m] \in Fields /\ Accounted(macro[m])
  BY <1>1, <1>4, OwnFields
<1>6. /\ Started(m, macro[m], Tail(Top.todo)) /\ heap' = heap \cup {m}
      /\ UNCHANGED <<deferred, walkVars, bodyVars>>
  BY <1>4 DEF FiresReload
<1> HIDE DEF m
<1>7. ASSUME Len(stack) > 1 PROVE m \notin OnStack
  <2>1. Top.todo # <<>> /\ Top.todo[1].op = "fire" /\ Subject = Top.todo[1].of
        /\ Top.todo \in Seq(OwnStep)
    BY <1>1, <1>2, FirstStep
  <2>2. 1 \in 1..Len(Top.todo)
    BY <2>1
  <2>3. Subject \in Indicators \/ Subject \in Creatures
    BY <2>1, <2>2, <1>1, <1>7, StackFacts DEF InCommand
  <2>4. Subject \notin Creatures
    <3>1. \E i \in 1..Len(running) : running[i] = m
      BY <1>1, <1>3, ListIs
    <3> QED  BY <3>1, <2>1, <1>1, <1>3, <1>7 DEF Cleared, FiresCreature
  <2>5. SUFFICES ASSUME m \in OnStack PROVE FALSE
    OBVIOUS
  <2>6. PICK i \in 2..Len(stack) : stack[i].macro = m
    BY <2>5, <1>1, <1>4, OnStackAre
  <2>7. stack[i].todo # <<>>
    <3>1. i < Len(stack) \/ i = Len(stack)
      BY <1>1, StackFacts
    <3>2. CASE i < Len(stack)
      BY <3>2, <1>1 DEF Frames
    <3>3. CASE i = Len(stack)
      BY <3>3, <2>1, <1>1, StackFacts
    <3> QED  BY <3>1, <3>2, <3>3
  <2>8. macro[m].owner \notin Indicators
    BY <2>6, <2>7, <1>1 DEF Frames
  <2> QED  BY <2>3, <2>4, <2>8, <1>3
<1> QED  BY <1>2, <1>3, <1>4, <1>5, <1>6, <1>7, StartedKeeps

LEMMA FiresNewKeeps ==
  ASSUME MacroInv, NEW m \in Macros, FiresNew(m)
  PROVE  MacroInv'
<1> DEFINE fields == [Unused EXCEPT !.owner = Subject, !.destroy_when_finished = TRUE]
<1>1. Frames /\ Bottom
  BY DEF MacroInv
<1>2. PICK op \in {"fire", "restart"} : AtStep(op) /\ op \in ObjectSteps
  BY FiringStep DEF FiresNew
<1>3. Subject \in Objects
  BY <1>1, <1>2, FirstStep
<1>4. fields \in Fields /\ Accounted(fields) /\ ~fields.purged
  BY <1>3 DEF Fields, Accounted, Unused
<1>5. /\ m \notin heap /\ heap' = heap \cup {m} /\ Started(m, fields, Tail(Top.todo))
      /\ UNCHANGED <<deferred, walkVars, bodyVars>>
  BY DEF FiresNew
<1> HIDE DEF fields
<1>6. m \notin OnStack
  BY <1>1, <1>5, OnStackAre
<1> QED  BY <1>2, <1>4, <1>5, <1>6, StartedKeeps

-----------------------------------------------------------------------------
(* The walk *)

LEMMA WalkBeginsKeeps ==
  ASSUME MacroInv, WalkBegins
  PROVE  MacroInv'
<1>1. Parts /\ Owned /\ Listed /\ Frames
  BY DEF MacroInv
<1>2. /\ stack'[1].todo = <<>> /\ Len(stack') = 1 /\ Frames' /\ Cleared' /\ Bottom'
  BY <1>1, UIIdle DEF WalkBegins
<1>3. Parts' /\ Owned' /\ Listed'
  BY <1>1 DEF WalkBegins, Parts, Owned, Listed, heapVars, bodyVars
<1>4. walking' = TRUE /\ index' = 0 /\ turned' = {} /\ running' = running
  BY DEF WalkBegins
<1>5. Len(running') \in Nat
  BY <1>1, <1>4 DEF Listed
<1>6. Walked'
  BY <1>2, <1>4, <1>5 DEF Walked, Reached
<1> QED  BY <1>2, <1>3, <1>6 DEF MacroInv

LEMMA WalkEndsKeeps ==
  ASSUME MacroInv, WalkEnds
  PROVE  MacroInv'
<1>1. Parts /\ Owned /\ Listed /\ Frames
  BY DEF MacroInv
<1>2. /\ stack'[1].todo = <<>> /\ Len(stack') = 1 /\ Frames' /\ Cleared' /\ Bottom'
  BY <1>1, UIIdle DEF WalkEnds
<1>3. Parts' /\ Owned' /\ Listed'
  BY <1>1 DEF WalkEnds, Parts, Owned, Listed, heapVars, bodyVars
<1>4. Walked'
  BY DEF Walked, WalkEnds
<1> QED  BY <1>2, <1>3, <1>4 DEF MacroInv

LEMMA WalkTurnKeeps ==
  ASSUME MacroInv, WalkTurn
  PROVE  MacroInv'
<1> DEFINE m == running[index + 1]  f == [macro[m] EXCEPT !.paused = FALSE]
           a == Do("apply", macro[m].owner)  r == Return("advance")
<1>1. Parts /\ Owned /\ Listed /\ Frames /\ Walked
  BY DEF MacroInv
<1>2. /\ Idle /\ walking /\ index < Len(running) /\ next' = index + 1
      /\ turned' = turned \cup {m} /\ StepDoneThen(m, <<a, r>>)
      /\ running' = running /\ heap' = heap
      /\ macro' = [macro EXCEPT ![m] = f]
      /\ UNCHANGED <<deferred, walkVars, bodyVars>>
  BY DEF WalkTurn
<1>3. /\ running \in Seq(Macros) /\ Len(running) \in Nat /\ index \in Nat
      /\ index + 1 \in 1..Len(running)
      /\ \A i, j \in 1..Len(running) : running[i] = running[j] => i = j
  BY <1>1, <1>2 DEF Parts, Listed
<1>4. m \in heap /\ ~macro[m].purged
  BY <1>1, <1>3 DEF Listed
<1>5. m \in Macros /\ macro[m] \in Fields /\ Accounted(macro[m]) /\ macro[m].owner \in Objects
  BY <1>1, <1>4, OwnFields
<1>6. f \in Fields /\ Accounted(f) /\ f.purged = macro[m].purged /\ ~f.paused
  BY <1>5 DEF Fields, Accounted
<1>7. a \in OwnStep /\ a.op = "apply" /\ r \in OwnStep /\ r.op = "advance"
  BY <1>5, ObjectStep, ReturnStep DEF ObjectSteps, Returns
<1>8. Parts' /\ walking' = walking
  BY <1>1, <1>2, PartsSame
<1>9. Len(stack) = 1 /\ stack[1].todo = <<>>
  BY <1>1, <1>2, StackFacts DEF Idle
<1>10. heap' = heap \cup {m}
  BY <1>2, <1>4
<1>11. \A i \in 1..Len(running) : running[i] \in turned <=> i <= index
  BY <1>1, <1>2, <1>9 DEF Walked, Reached
<1>12. \A k \in turned : \E i \in 1..Len(running) : running[i] = k
  BY <1>1 DEF Walked
<1>13. \E i \in 1..Len(running) : running[i] = m
  BY <1>3
<1>14. \A i \in 1..Len(running) : running[i] = m <=> i = index + 1
  BY <1>3
<1> HIDE DEF f, a, r, m
<1>15. /\ Owned' /\ macro'[m] = f /\ m \in heap' /\ \A k \in heap : k # m => Keeps(k)
  BY <1>1, <1>2, <1>5, <1>6, <1>10, OwnedSet
<1>16. Listed'
  <2>1. \A i \in 1..Len(running) : running[i] \in heap' /\ ~macro'[running[i]].purged
    BY <1>1, <1>6, <1>15 DEF Listed, Keeps
  <2>2. next' \in 0..Len(running')
    BY <1>2, <1>3
  <2>3. running' \in Seq(Macros) /\ Len(running') <= Limit
        /\ \A i, j \in 1..Len(running') : running'[i] = running'[j] => i = j
    BY <1>1, <1>2 DEF Listed
  <2> QED  BY <2>1, <2>2, <2>3, <1>2 DEF Listed
<1>17. <<a, r>> \in Seq(OwnStep) /\ Len(<<a, r>>) = 2 /\ <<a, r>>[1] = a /\ <<a, r>>[2] = r
       /\ <<a, r>> # <<>>
  BY <1>7
<1>18. /\ Frames' /\ Cleared' /\ Len(stack') = 2
       /\ stack'[1].todo = <<a, r>> /\ stack'[2].macro = m
  BY <1>1, <1>2, <1>4, <1>5, <1>6, <1>9, <1>15, <1>17, UIPushed
<1>19. Bottom'
  <2>1. \A k \in 1..2 : k = 1 \/ k = 2
    OBVIOUS
  <2> QED  BY <2>1, <1>2, <1>7, <1>8, <1>17, <1>18 DEF Bottom
<1>20. Walked'
  <2>1. ASSUME NEW i \in 1..Len(running) PROVE running[i] \in turned' <=> i <= next'
    BY <1>2, <1>3, <1>11, <1>14
  <2>2. \A k \in turned' : \E i \in 1..Len(running) : running[i] = k
    BY <1>2, <1>12, <1>13
  <2>3. next' <= Len(running)
    BY <1>2, <1>3
  <2> QED  BY <2>1, <2>2, <2>3, <1>2, <1>17, <1>18 DEF Walked, Reached
<1> QED  BY <1>8, <1>15, <1>16, <1>18, <1>19, <1>20 DEF MacroInv

LEMMA AppliesDeferredKeeps ==
  ASSUME MacroInv, AppliesDeferred
  PROVE  MacroInv'
<1> DEFINE f == Do("fire", Subject)  t == Tail(Top.todo)
<1>1. Parts /\ Owned /\ Listed /\ Frames /\ Bottom /\ Walked
  BY DEF MacroInv
<1>2. AtStep("apply") /\ "apply" \in ObjectSteps
  BY DEF AppliesDeferred, ObjectSteps
<1>3. /\ Top.todo \in Seq(OwnStep) /\ Top.todo # <<>> /\ Top.todo[1].op = "apply"
      /\ Subject \in Objects /\ Len(stack) = 1
  BY <1>1, <1>2, FirstStep
<1>4. /\ UNCHANGED listVars /\ Parts' /\ walking' = walking /\ UNCHANGED heapVars
  BY <1>1 DEF AppliesDeferred, Parts, walkVars, bodyVars
<1>5. Owned' /\ Listed'
  BY <1>1, <1>4, HeapSame
<1>6. t \in Seq(OwnStep)
  BY <1>3, StepTaken
<1>7. f \in OwnStep /\ f.op = "fire"
  BY <1>3, ObjectStep DEF ObjectSteps
<1>8. CASE StepDone
  <2>1. "apply" \notin Returns /\ "apply" # "purge"
    BY DEF Returns
  <2> QED  BY <2>1, <1>2, <1>4, <1>8, QuietStepKeeps
<1>9. CASE ~StepDone
  <2>1. GoesOn(<<f>> \o t)
    BY <1>9 DEF AppliesDeferred
  <2> HIDE DEF f
  <2>2. <<f>> \in Seq(OwnStep) /\ Len(<<f>>) = 1 /\ <<f>>[1] = f
    BY <1>7
  <2> DEFINE all == <<f>> \o t
  <2>3. /\ all \in Seq(OwnStep) /\ Len(all) = Len(<<f>>) + Len(t)
        /\ \A i \in 1..Len(<<f>>) + Len(t) : all[i] = IF i <= Len(<<f>>) THEN <<f>>[i] ELSE t[i - Len(<<f>>)]
    BY <1>6, <2>2, ConcatProperties
  <2> HIDE DEF t, all
  <2>4. Len(t) \in Nat
    BY <1>6
  <2>5. Len(all) = 1 + Len(t) /\ \A k \in 1..1 : all[k].op \in {"turn", "fire"}
    BY <1>7, <2>2, <2>3, <2>4
  <2>6. \A k \in 1..Len(t) : all[1 + k] = t[k]
    <3> SUFFICES ASSUME NEW k \in 1..Len(t) PROVE all[1 + k] = t[k]
      OBVIOUS
    <3>1. 1 + k \in 1..1 + Len(t) /\ ~(1 + k <= 1) /\ 1 + k - 1 = k
      BY <2>4
    <3> QED  BY <3>1, <2>2, <2>3
  <2>7. Frames' /\ Cleared' /\ stack'[1].todo = all
    BY <1>1, <1>3, <2>1, <2>3, UIWentOn DEF all
  <2>8. Bottom' /\ InTurn
    BY <1>1, <1>3, <1>4, <2>5, <2>6, <2>7, BottomWithSteps DEF t
  <2> QED  BY <1>1, <1>4, <1>5, <2>7, <2>8, WalkedSame DEF MacroInv
<1> QED  BY <1>8, <1>9

LEMMA AdvancesKeeps ==
  ASSUME MacroInv, Advances
  PROVE  MacroInv'
<1> DEFINE t == Tail(Top.todo)
<1>1. Parts /\ Owned /\ Listed /\ Frames /\ Bottom /\ Walked
  BY DEF MacroInv
<1>2. /\ AtStep("advance") /\ index' = next /\ next' = 0 /\ StepDone
      /\ UNCHANGED <<running, turned, heapVars, deferred, walking, bodyVars>>
  BY DEF Advances
<1>3. Top.todo \in Seq(OwnStep) /\ Top.todo # <<>> /\ Top.todo[1].op = "advance" /\ Len(stack) = 1
  BY <1>1, <1>2, FirstStep
<1>4. t \in Seq(OwnStep) /\ (t = <<>> <=> Len(Top.todo) = 1) /\ Len(Top.todo) >= 1 /\ Len(Top.todo) \in Nat
  BY <1>3, StepTaken
<1>5. Top = stack[1]
  BY <1>1, <1>3, StackFacts
<1>6. walking /\ Len(Top.todo) = 1
  <2>1. 1 \in 1..Len(stack[1].todo)
    BY <1>4, <1>5
  <2> QED  BY <2>1, <1>1, <1>3, <1>5 DEF Bottom
<1>7. GoesOn(t) /\ t = <<>>
  BY <1>2, <1>4, <1>6 DEF StepDone
<1> HIDE DEF t
<1>8. Frames' /\ Cleared' /\ Len(stack') = 1 /\ stack'[1].todo = <<>>
  BY <1>1, <1>3, <1>4, <1>7, UIWentOn
<1>9. Bottom'
  BY <1>8 DEF Bottom
<1>10. Parts'
  BY <1>1, <1>2 DEF Parts, Listed, bodyVars
<1>11. Owned' /\ Listed'
  BY <1>1, <1>2 DEF Owned, Listed, heapVars
<1>12. Walked'
  BY <1>1, <1>2, <1>3, <1>5, <1>6, <1>8 DEF Walked, Reached
<1> QED  BY <1>8, <1>9, <1>10, <1>11, <1>12 DEF MacroInv

-----------------------------------------------------------------------------
(* Events outside the walk *)

LEMMA WorldKeeps ==
  ASSUME MacroInv, NEW steps \in Seq(OwnStep), World(steps), Parts',
         \A k \in 1..Len(steps) : steps[k].op \in {"turns", "purge", "fire", "dies", "restart"}
  PROVE  MacroInv'
<1>1. Owned /\ Listed /\ Frames /\ Walked
  BY DEF MacroInv
<1>2. Idle /\ ~walking /\ GoesOn(steps) /\ UNCHANGED <<listVars, heapVars>> /\ ~walking'
  BY DEF World, walkVars
<1>3. Owned' /\ Listed'
  BY <1>1, <1>2, HeapSame
<1>4. Len(stack) = 1
  BY <1>1, <1>2, StackFacts
<1>5. Frames' /\ Cleared' /\ stack'[1].todo = steps
  BY <1>1, <1>2, <1>4, UIWentOn
<1>6. Bottom'
  BY <1>2, <1>5 DEF Bottom
<1>7. InTurn /\ UNCHANGED listVars
  BY <1>2 DEF World, walkVars, InTurn
<1>8. Walked'
  BY <1>1, <1>7, WalkedSame
<1> QED  BY <1>3, <1>5, <1>6, <1>8 DEF MacroInv

LEMMA ObjectEventKeeps ==
  ASSUME MacroInv, NEW o \in Objects, ObjectEvent(o)
  PROVE  MacroInv'
<1> DEFINE f == Do("fire", o)
<1>1. f \in OwnStep /\ f.op = "fire"
  BY ObjectStep DEF ObjectSteps
<1>2. World(<<f>>) /\ Parts'
  BY DEF MacroInv, ObjectEvent, World, Parts, walkVars, bodyVars
<1> HIDE DEF f
<1>3. <<f>> \in Seq(OwnStep) /\ \A k \in 1..Len(<<f>>) : <<f>>[k].op = "fire"
  BY <1>1
<1> QED  BY <1>2, <1>3, WorldKeeps

LEMMA ObjectKilledKeeps ==
  ASSUME MacroInv, NEW o \in Objects, ObjectKilled(o)
  PROVE  MacroInv'
<1>1. World(KillSteps(o)) /\ Parts'
  BY DEF MacroInv, ObjectKilled, World, Parts, walkVars, Awake
<1>2. Deeds(KillSteps(o))
  BY KillDeeds
<1> QED  BY <1>1, <1>2, WorldKeeps DEF Deeds

LEMMA CreatureDiesKeeps ==
  ASSUME MacroInv, NEW c \in Creatures, CreatureDies(c)
  PROVE  MacroInv'
<1>1. World(DeathSteps(c)) /\ Parts'
  BY DEF MacroInv, CreatureDies, World, Parts, walkVars, Awake
<1>2. Deeds(DeathSteps(c))
  BY DeathDeeds DEF MacroInv
<1> QED  BY <1>1, <1>2, WorldKeeps DEF Deeds

LEMMA CreatureEventKeeps ==
  ASSUME MacroInv, NEW c \in Creatures, CreatureEvent(c)
  PROVE  MacroInv'
<1>1. PICK op \in {"fire", "restart"} : World(Append(WakeSteps(c), Do(op, c)))
  BY DEF CreatureEvent
<1> DEFINE d == Do(op, c)  s == WakeSteps(c)
<1>2. Parts'
  BY <1>1 DEF MacroInv, CreatureEvent, World, Parts, walkVars, Awake
<1>3. d \in OwnStep /\ d.op = op
  BY ObjectStep, OwnersAssumption DEF ObjectSteps
<1>4. Deeds(s)
  BY WakeDeeds DEF MacroInv
<1> HIDE DEF d, s
<1>5. s \in Seq(OwnStep) /\ \A k \in 1..Len(s) : s[k].op \in {"turns", "purge", "fire", "dies"}
  BY <1>4 DEF Deeds
<1>6. /\ Append(s, d) \in Seq(OwnStep) /\ Len(Append(s, d)) = Len(s) + 1
      /\ \A i \in 1..Len(s) : Append(s, d)[i] = s[i]
      /\ Append(s, d)[Len(s) + 1] = d
  BY <1>3, <1>5, AppendProperties
<1>7. ASSUME NEW k \in 1..Len(Append(s, d))
      PROVE  Append(s, d)[k].op \in {"turns", "purge", "fire", "dies", "restart"}
  <2>1. k \in 1..Len(s) \/ k = Len(s) + 1
    BY <1>5, <1>6
  <2> QED  BY <2>1, <1>3, <1>5, <1>6
<1>8. World(Append(s, d))
  BY <1>1 DEF s, d
<1> QED  BY <1>2, <1>6, <1>7, <1>8, WorldKeeps

\* Something between two things the UI thread does, outside a walk.
LEMMA IdleKeeps ==
  ASSUME MacroInv, Idle, ~walking, ~walking', stack' = stack, Parts', Owned', Listed',
         UNCHANGED listVars \/ \E gone : Erased(gone)
  PROVE  MacroInv'
<1>1. Listed /\ Frames /\ Walked /\ InTurn
  BY DEF MacroInv, Parts, InTurn
<1>2. Frames' /\ Cleared' /\ Bottom'
  BY <1>1, UIIdle
<1>3. Walked'
  BY <1>1, WalkedSame, WalkedErased
<1> QED  BY <1>2, <1>3 DEF MacroInv

LEMMA ClearsKeeps ==
  ASSUME MacroInv, Clears
  PROVE  MacroInv'
<1> DEFINE gone == ToSet(running)
<1>1. Parts /\ Owned /\ Listed /\ Walked
  BY DEF MacroInv
<1>2. Idle /\ ~walking /\ Erased(gone) /\ Freed(gone) /\ stack' = stack /\ ~walking'
  BY DEF Clears, walkVars
<1>3. Parts'
  BY <1>1 DEF Clears, Parts, walkVars
<1> HIDE DEF gone
<1>4. /\ Owned' /\ heap' = heap \ gone
      /\ \A m \in Macros : m \notin gone => macro'[m] = macro[m]
  BY <1>1, <1>2, OwnedFreed
<1>5. Listed'
  BY <1>1, <1>2, <1>4, ListedErased DEF Owned
<1> QED  BY <1>2, <1>3, <1>4, <1>5, IdleKeeps

-----------------------------------------------------------------------------
(* Kits *)

\* A kit's call, from the UI thread: what it leaves to be done.
LEMMA KitGoesOn ==
  ASSUME MacroInv, Idle, ~walking, UNCHANGED <<listVars, walkVars>>, Parts', Owned', Listed',
         NEW t \in Seq(OwnStep), GoesOn(t), Len(t) \in Nat \ {0}, t[1].op = "start",
         t[1].of \in heap', macro'[t[1].of].held \/ macro'[t[1].of].dde,
         \A k \in 2..Len(t) : t[k].op \in {"hand_over", "release"}
  PROVE  MacroInv'
<1>1. Frames /\ Walked
  BY DEF MacroInv
<1>2. Len(stack) = 1
  BY <1>1, StackFacts
<1>3. Frames' /\ Cleared' /\ stack'[1].todo = t /\ Len(stack') = 1
  BY <1>1, <1>2, UIWentOn
<1>4. ~walking' /\ InTurn /\ UNCHANGED listVars
  BY DEF walkVars, InTurn
<1>5. ASSUME NEW k \in 1..Len(t), k # 1
      PROVE  t[k].op \in {"hand_over", "release"}
  <2>1. k \in 2..Len(t)
    BY <1>5
  <2> QED  BY <2>1
<1>6. Bottom'
  BY <1>3, <1>4, <1>5 DEF Bottom
<1>7. Walked'
  BY <1>1, <1>4, WalkedSame
<1> QED  BY <1>3, <1>6, <1>7 DEF MacroInv

\* A kit's call that has a macro write to its output buffer.
LEMMA KitOutputs ==
  ASSUME MacroInv, Idle, ~walking, UNCHANGED <<listVars, walkVars>>, Parts', Owned', Listed',
         NEW m \in Macros, StepDoneThen(m, <<Do("uncapture", m)>>), m \in heap',
         macro'[m].capture, ~macro'[m].destroy_when_finished,
         ~macro'[m].paused, ~macro'[m].purged
  PROVE  MacroInv'
<1> DEFINE u == Do("uncapture", m)
<1>1. Frames /\ Walked
  BY DEF MacroInv
<1>2. Len(stack) = 1
  BY <1>1, StackFacts
<1>3. u \in OwnStep /\ u.op = "uncapture" /\ u.of = m
  BY MacroStep DEF MacroSteps
<1>4. StepDoneThen(m, <<u>>)
  OBVIOUS
<1> HIDE DEF u
<1>5. <<u>> \in Seq(OwnStep) /\ Len(<<u>>) = 1 /\ <<u>>[1] = u
  BY <1>3
<1>6. Frames' /\ Cleared' /\ stack'[1].todo = <<u>> /\ Len(stack') = 2 /\ stack'[2].macro = m
  BY <1>1, <1>2, <1>4, <1>5, UIPushed
<1>7. ~walking' /\ InTurn /\ UNCHANGED listVars
  BY DEF walkVars, InTurn
<1>8. Bottom'
  BY <1>3, <1>5, <1>6, <1>7 DEF Bottom
<1>9. Walked'
  BY <1>1, <1>7, WalkedSame
<1> QED  BY <1>6, <1>8, <1>9 DEF MacroInv

\* A macro that is not allocated is not listed, and one given new fields that
\* no purge has marked does not disturb the list.
LEMMA ListedSet ==
  ASSUME Listed, UNCHANGED listVars, NEW m, m \in heap', ~macro'[m].purged,
         \A k \in heap : k # m => Keeps(k)
  PROVE  Listed'
<1>1. \A i \in 1..Len(running) : running[i] \in heap' /\ ~macro'[running[i]].purged
  BY DEF Listed, Keeps
<1> QED  BY <1>1, ListedSame DEF listVars

LEMMA HolderFields ==
  ASSUME NEW c \in Selectable, Kits
  PROVE  LET f == HolderMacro(c)  g == [f EXCEPT !.capture = TRUE]
             d == [Unused EXCEPT !.owner = c, !.dde = TRUE]
         IN  /\ f \in Fields /\ Accounted(f) /\ ~f.purged /\ f.held
             /\ g \in Fields /\ Accounted(g) /\ ~g.purged /\ g.capture
             /\ ~g.paused /\ ~g.destroy_when_finished
             /\ d \in Fields /\ Accounted(d) /\ ~d.purged
  BY OwnersAssumption DEF HolderMacro, Unused, Fields, Accounted

LEMMA HolderCreatedKeeps ==
  ASSUME MacroInv, NEW m \in Macros, NEW c \in Selectable, HolderCreated(m, c)
  PROVE  MacroInv'
<1> DEFINE f == HolderMacro(c)
<1>1. Parts /\ Owned /\ Listed
  BY DEF MacroInv
<1>2. f \in Fields /\ Accounted(f) /\ ~f.purged
  BY HolderFields DEF HolderCreated
<1>3. /\ Idle /\ ~walking /\ heap' = heap \cup {m} /\ macro' = [macro EXCEPT ![m] = f]
      /\ UNCHANGED <<listVars, deferred, stack, walkVars, bodyVars>>
  BY DEF HolderCreated
<1> HIDE DEF f
<1>4. Owned' /\ macro'[m] = f /\ m \in heap' /\ \A k \in heap : k # m => Keeps(k)
  BY <1>1, <1>2, <1>3, OwnedSet
<1>5. Listed'
  BY <1>1, <1>2, <1>3, <1>4, ListedSet
<1>6. Parts' /\ ~walking' /\ stack' = stack /\ UNCHANGED listVars
  BY <1>1, <1>3, PartsSame
<1> QED  BY <1>3, <1>4, <1>5, <1>6, IdleKeeps

LEMMA ConnectsKeeps ==
  ASSUME MacroInv, NEW m \in Macros, NEW c \in Selectable, Connects(m, c)
  PROVE  MacroInv'
<1> DEFINE f == [Unused EXCEPT !.owner = c, !.dde = TRUE]
<1>1. Parts /\ Owned /\ Listed
  BY DEF MacroInv
<1>2. f \in Fields /\ Accounted(f) /\ ~f.purged
  BY HolderFields DEF Connects
<1>3. /\ Idle /\ ~walking /\ heap' = heap \cup {m} /\ macro' = [macro EXCEPT ![m] = f]
      /\ UNCHANGED <<listVars, deferred, stack, walkVars, bodyVars>>
  BY DEF Connects
<1> HIDE DEF f
<1>4. Owned' /\ macro'[m] = f /\ m \in heap' /\ \A k \in heap : k # m => Keeps(k)
  BY <1>1, <1>2, <1>3, OwnedSet
<1>5. Listed'
  BY <1>1, <1>2, <1>3, <1>4, ListedSet
<1>6. Parts' /\ ~walking' /\ stack' = stack /\ UNCHANGED listVars
  BY <1>1, <1>3, PartsSame
<1> QED  BY <1>3, <1>4, <1>5, <1>6, IdleKeeps

\* The macro of a holder or of a conversation that ends.
LEMMA ReleasedKeeps ==
  ASSUME MacroInv, Idle, ~walking, NEW m \in Macros, RemovedAndReleased(m),
         UNCHANGED <<deferred, stack, walkVars, bodyVars>>
  PROVE  MacroInv'
<1> DEFINE gone == IF ~macro[m].capture \/ macro[m].destroy_when_finished THEN {m} ELSE {}
<1>1. Parts /\ Owned /\ Listed /\ Walked
  BY DEF MacroInv
<1>2. Erased({m}) /\ Freed(gone) /\ gone \subseteq {m}
  BY DEF RemovedAndReleased
<1> HIDE DEF gone
<1>3. Owned' /\ heap' = heap \ gone /\ \A k \in Macros : k \notin gone => macro'[k] = macro[k]
  BY <1>1, <1>2, OwnedFreed
<1>4. Listed'
  <2>1. \A k \in heap : k \notin {m} => k \in heap' /\ (macro'[k].purged => macro[k].purged)
    BY <1>1, <1>2, <1>3 DEF Owned
  <2> QED  BY <2>1, <1>1, <1>2, ListedErased
<1>5. Parts' /\ ~walking' /\ stack' = stack
  BY <1>1, PartsSame
<1> QED  BY <1>2, <1>3, <1>4, <1>5, IdleKeeps

LEMMA HolderDestroyedKeeps ==
  ASSUME MacroInv, NEW m \in Macros, HolderDestroyed(m)
  PROVE  MacroInv'
  BY ReleasedKeeps DEF HolderDestroyed

LEMMA DisconnectsKeeps ==
  ASSUME MacroInv, NEW m \in Macros, Disconnects(m)
  PROVE  MacroInv'
  BY ReleasedKeeps DEF Disconnects, Transaction

LEMMA HolderStartsKeeps ==
  ASSUME MacroInv, NEW m \in Macros, NEW c \in Selectable, HolderStarts(m, c)
  PROVE  MacroInv'
<1> DEFINE f == [macro[m] EXCEPT !.owner = c]  d == Do("start", m)
<1>1. Parts /\ Owned /\ Listed
  BY DEF MacroInv
<1>2. macro[m].held
  BY DEF HolderStarts
<1>3. m \in heap /\ ~macro[m].purged /\ Kits /\ ~macro[m].destroy_when_finished
  BY <1>1, <1>2, HeldIsAllocated
<1>4. macro[m] \in Fields /\ Accounted(macro[m])
  BY <1>1, <1>3, OwnFields
<1>5. f \in Fields /\ Accounted(f) /\ ~f.purged /\ f.held
  BY <1>2, <1>3, <1>4, OwnersAssumption DEF Fields, Accounted
<1>6. /\ Idle /\ ~walking /\ heap' = heap \cup {m} /\ macro' = [macro EXCEPT ![m] = f]
      /\ GoesOn(<<d>>) /\ UNCHANGED <<listVars, deferred, walkVars, bodyVars>>
  BY <1>3 DEF HolderStarts
<1>7. d \in OwnStep /\ d.op = "start" /\ d.of = m
  BY MacroStep DEF MacroSteps
<1> HIDE DEF f, d
<1>8. Owned' /\ macro'[m] = f /\ m \in heap' /\ \A k \in heap : k # m => Keeps(k)
  BY <1>1, <1>5, <1>6, OwnedSet
<1>9. Listed'
  BY <1>1, <1>5, <1>6, <1>8, ListedSet
<1>10. Parts' /\ UNCHANGED <<listVars, walkVars>>
  BY <1>1, <1>6, PartsSame
<1>11. /\ <<d>> \in Seq(OwnStep) /\ Len(<<d>>) \in Nat \ {0} /\ <<d>>[1] = d
       /\ \A k \in 2..Len(<<d>>) : <<d>>[k].op \in {"hand_over", "release"}
  BY <1>7
<1> QED  BY <1>5, <1>6, <1>7, <1>8, <1>9, <1>10, <1>11, KitGoesOn

LEMMA ExecutesKeeps ==
  ASSUME MacroInv, NEW m \in Macros, Executes(m)
  PROVE  MacroInv'
<1> DEFINE d == Do("start", m)
<1>1. Parts /\ Owned /\ Listed
  BY DEF MacroInv
<1>2. macro[m].dde
  BY DEF Executes, Transaction
<1>3. m \in heap
  BY <1>1, <1>2, HeldIsAllocated
<1>4. /\ Idle /\ ~walking /\ GoesOn(<<d>>)
      /\ UNCHANGED <<listVars, heapVars, deferred, walkVars, bodyVars>>
  BY DEF Executes, Transaction
<1>5. d \in OwnStep /\ d.op = "start" /\ d.of = m
  BY MacroStep DEF MacroSteps
<1> HIDE DEF d
<1>6. Owned' /\ Listed' /\ heap' = heap /\ macro' = macro
  BY <1>1, <1>4, HeapSame DEF heapVars
<1>7. Parts' /\ UNCHANGED <<listVars, walkVars>>
  BY <1>1, <1>4, PartsSame
<1>8. /\ <<d>> \in Seq(OwnStep) /\ Len(<<d>>) \in Nat \ {0} /\ <<d>>[1] = d
      /\ \A k \in 2..Len(<<d>>) : <<d>>[k].op \in {"hand_over", "release"}
  BY <1>5
<1> QED  BY <1>2, <1>3, <1>4, <1>5, <1>6, <1>7, <1>8, KitGoesOn

LEMMA FiresCommandKeeps ==
  ASSUME MacroInv, NEW m \in Macros, NEW c \in Selectable, NEW hands_over \in BOOLEAN,
         FiresCommand(m, c, hands_over)
  PROVE  MacroInv'
<1> DEFINE f == HolderMacro(c)
           a == Do("start", m)  h == Do("hand_over", m)  r == Do("release", m)
           mid == IF hands_over THEN <<h>> ELSE <<>>
           first == <<a>> \o mid
           all == first \o <<r>>
<1>1. Parts /\ Owned /\ Listed
  BY DEF MacroInv
<1>2. f \in Fields /\ Accounted(f) /\ ~f.purged /\ f.held
  BY HolderFields DEF FiresCommand
<1>3. /\ Idle /\ ~walking /\ heap' = heap \cup {m} /\ macro' = [macro EXCEPT ![m] = f]
      /\ GoesOn(all) /\ UNCHANGED <<listVars, deferred, walkVars, bodyVars>>
  BY DEF FiresCommand
<1>4. /\ a \in OwnStep /\ a.op = "start" /\ a.of = m
      /\ h \in OwnStep /\ h.op = "hand_over"
      /\ r \in OwnStep /\ r.op = "release"
  BY MacroStep DEF MacroSteps
<1> HIDE DEF f, a, h, r
<1>5. /\ mid \in Seq(OwnStep) /\ Len(mid) \in Nat
      /\ \A k \in 1..Len(mid) : mid[k].op = "hand_over"
  <2>1. CASE hands_over
    BY <2>1, <1>4
  <2>2. CASE ~hands_over
    BY <2>2
  <2> QED  BY <2>1, <2>2
<1> HIDE DEF mid
<1>6. <<a>> \in Seq(OwnStep) /\ Len(<<a>>) = 1 /\ <<a>>[1] = a
      /\ <<r>> \in Seq(OwnStep) /\ Len(<<r>>) = 1 /\ <<r>>[1] = r
  BY <1>4
<1>7. /\ first \in Seq(OwnStep) /\ Len(first) = Len(<<a>>) + Len(mid)
      /\ \A i \in 1..Len(<<a>>) + Len(mid) :
           first[i] = IF i <= Len(<<a>>) THEN <<a>>[i] ELSE mid[i - Len(<<a>>)]
  BY <1>5, <1>6, ConcatProperties
<1>8. /\ Len(first) = 1 + Len(mid) /\ first[1] = a
      /\ \A i \in 2..1 + Len(mid) : first[i] = mid[i - 1]
  BY <1>5, <1>6, <1>7
<1>9. first \in Seq(OwnStep)
  BY <1>7
<1> HIDE DEF first
<1>10. /\ all \in Seq(OwnStep) /\ Len(all) = Len(first) + Len(<<r>>)
       /\ \A i \in 1..Len(first) + Len(<<r>>) :
            all[i] = IF i <= Len(first) THEN first[i] ELSE <<r>>[i - Len(first)]
  BY <1>6, <1>9, ConcatProperties
<1>11. Len(all) = 2 + Len(mid) /\ all[1] = a
  BY <1>5, <1>6, <1>8, <1>10
<1>12. ASSUME NEW k \in 2..Len(all) PROVE all[k].op \in {"hand_over", "release"}
  <2>1. CASE k = 2 + Len(mid)
    <3>1. all[k] = <<r>>[1]
      BY <2>1, <1>5, <1>6, <1>8, <1>10
    <3> QED  BY <3>1, <1>4, <1>6
  <2>2. CASE k # 2 + Len(mid)
    <3>1. k \in 2..1 + Len(mid) /\ k - 1 \in 1..Len(mid)
      BY <2>2, <1>5, <1>11
    <3>2. all[k] = first[k]
      BY <3>1, <1>5, <1>6, <1>8, <1>10
    <3> QED  BY <3>1, <3>2, <1>5, <1>8
  <2> QED  BY <2>1, <2>2
<1>13. Owned' /\ macro'[m] = f /\ m \in heap' /\ \A k \in heap : k # m => Keeps(k)
  BY <1>1, <1>2, <1>3, OwnedSet
<1>14. Listed'
  BY <1>1, <1>2, <1>3, <1>13, ListedSet
<1>15. Parts' /\ UNCHANGED <<listVars, walkVars>>
  BY <1>1, <1>3, PartsSame
<1>16. Len(all) \in Nat \ {0}
  BY <1>5, <1>11
<1>17. all \in Seq(OwnStep)
  BY <1>10
<1> HIDE DEF all
<1> QED  BY <1>2, <1>3, <1>4, <1>11, <1>12, <1>13, <1>14, <1>15, <1>16, <1>17, KitGoesOn

LEMMA HolderOutputsKeeps ==
  ASSUME MacroInv, NEW m \in Macros, NEW c \in Selectable, HolderOutputs(m, c)
  PROVE  MacroInv'
<1> DEFINE f == [HolderMacro(c) EXCEPT !.capture = TRUE]
<1>1. Parts /\ Owned /\ Listed
  BY DEF MacroInv
<1>2. f \in Fields /\ Accounted(f) /\ ~f.purged /\ f.capture /\ ~f.paused /\ ~f.destroy_when_finished
  BY HolderFields DEF HolderOutputs
<1>3. macro[m].held
  BY DEF HolderOutputs
<1>4. m \in heap
  BY <1>1, <1>3, HeldIsAllocated
<1>5. /\ Idle /\ ~walking /\ heap' = heap \cup {m} /\ macro' = [macro EXCEPT ![m] = f]
      /\ StepDoneThen(m, <<Do("uncapture", m)>>)
      /\ UNCHANGED <<listVars, deferred, walkVars, bodyVars>>
  BY <1>4 DEF HolderOutputs
<1> HIDE DEF f
<1>6. Owned' /\ macro'[m] = f /\ m \in heap' /\ \A k \in heap : k # m => Keeps(k)
  BY <1>1, <1>2, <1>5, OwnedSet
<1>7. Listed'
  BY <1>1, <1>2, <1>5, <1>6, ListedSet
<1>8. Parts' /\ UNCHANGED <<listVars, walkVars>>
  BY <1>1, <1>5, PartsSame
<1> QED  BY <1>2, <1>5, <1>6, <1>7, <1>8, KitOutputs

LEMMA RequestsKeeps ==
  ASSUME MacroInv, NEW m \in Macros, Requests(m)
  PROVE  MacroInv'
<1> DEFINE f == [macro[m] EXCEPT !.capture = TRUE, !.paused = FALSE]
<1>1. Parts /\ Owned /\ Listed
  BY DEF MacroInv
<1>2. macro[m].dde
  BY DEF Requests, Transaction
<1>3. m \in heap /\ ~macro[m].purged /\ ~macro[m].destroy_when_finished
  BY <1>1, <1>2, HeldIsAllocated
<1>4. macro[m] \in Fields /\ Accounted(macro[m])
  BY <1>1, <1>3, OwnFields
<1>5. f \in Fields /\ Accounted(f) /\ ~f.purged /\ f.capture /\ ~f.paused /\ ~f.destroy_when_finished
  BY <1>3, <1>4 DEF Fields, Accounted
<1>6. /\ Idle /\ ~walking /\ heap' = heap \cup {m} /\ macro' = [macro EXCEPT ![m] = f]
      /\ StepDoneThen(m, <<Do("uncapture", m)>>)
      /\ UNCHANGED <<listVars, deferred, walkVars, bodyVars>>
  BY <1>3 DEF Requests, Transaction
<1> HIDE DEF f
<1>7. Owned' /\ macro'[m] = f /\ m \in heap' /\ \A k \in heap : k # m => Keeps(k)
  BY <1>1, <1>5, <1>6, OwnedSet
<1>8. Listed'
  BY <1>1, <1>5, <1>6, <1>7, ListedSet
<1>9. Parts' /\ UNCHANGED <<listVars, walkVars>>
  BY <1>1, <1>6, PartsSame
<1> QED  BY <1>5, <1>6, <1>7, <1>8, <1>9, KitOutputs

LEMMA StartStepKeeps ==
  ASSUME MacroInv, StartStep
  PROVE  MacroInv'
<1> DEFINE m == Subject
<1>1. Owned /\ Frames /\ Bottom
  BY DEF MacroInv
<1>2. /\ AtStep("start") /\ Started(m, macro[m], Tail(Top.todo))
      /\ UNCHANGED <<heap, deferred, walkVars, bodyVars>>
  BY DEF StartStep
<1>3. /\ m \in Macros /\ Len(stack) = 1 /\ Top.todo[1].op = "start" /\ m = Top.todo[1].of
      /\ Top.todo \in Seq(OwnStep) /\ Top.todo # <<>>
  BY <1>1, <1>2, FirstStep DEF MacroSteps
<1>4. Top = stack[1] /\ 1 \in 1..Len(Top.todo)
  BY <1>1, <1>3, StackFacts
<1>5. macro[m].held \/ macro[m].dde
  BY <1>1, <1>3, <1>4 DEF Bottom
<1>6. m \in heap /\ ~macro[m].purged
  BY <1>1, <1>3, <1>5, HeldIsAllocated
<1>7. macro[m] \in Fields /\ Accounted(macro[m]) /\ heap' = heap \cup {m}
  BY <1>1, <1>2, <1>6, OwnFields
<1> HIDE DEF m
<1> QED  BY <1>2, <1>3, <1>6, <1>7, StartedKeeps

\* A step of a kit's call that changes one macro, or none.
LEMMA CallStepKeeps ==
  ASSUME MacroInv, NEW op \in {"hand_over", "uncapture"}, AtStep(op), StepDone,
         NEW m \in heap, NEW f \in Fields, Accounted(f), ~f.purged \/ macro[m].purged = f.purged,
         heap' = heap, macro' = [macro EXCEPT ![m] = f],
         UNCHANGED <<listVars, deferred, walkVars, bodyVars>>
  PROVE  MacroInv'
<1>1. Parts /\ Owned /\ Listed /\ Frames /\ Bottom /\ Walked
  BY DEF MacroInv
<1>2. Len(stack) = 1 /\ op \notin Returns
  BY <1>1, FirstStep DEF Returns
<1>3. heap' = heap \cup {m} /\ m \in Macros
  BY <1>1 DEF Owned
<1>4. Owned' /\ macro'[m] = f /\ m \in heap' /\ \A k \in heap : k # m => Keeps(k)
  BY <1>1, <1>3, OwnedSet
<1>5. Listed'
  <2>1. \A i \in 1..Len(running) : running[i] \in heap' /\ ~macro'[running[i]].purged
    BY <1>1, <1>4 DEF Listed, Keeps
  <2> QED  BY <1>1, <2>1, ListedSame DEF listVars
<1>6. Parts' /\ walking' = walking /\ UNCHANGED listVars
  BY <1>1, PartsSame
<1>7. Frames' /\ Cleared' /\ Bottom' /\ InTurn
  BY <1>1, <1>2, <1>6, StepsOn
<1> QED  BY <1>1, <1>4, <1>5, <1>6, <1>7, WalkedSame DEF MacroInv

LEMMA HandsOverKeeps ==
  ASSUME MacroInv, HandsOver
  PROVE  MacroInv'
<1> DEFINE m == Subject  f == [macro[m] EXCEPT !.held = FALSE, !.destroy_when_finished = TRUE]
<1>1. Parts /\ Owned /\ Frames /\ Bottom
  BY DEF MacroInv
<1>2. AtStep("hand_over") /\ StepDone /\ UNCHANGED <<listVars, heap, deferred, walkVars, bodyVars>>
  BY DEF HandsOver
<1>3. m \in Macros
  BY <1>1, <1>2, FirstStep DEF MacroSteps
<1>4. CASE macro[m].held /\ m \in ToSet(running)
  <2>1. m \in heap /\ ~macro[m].purged
    BY <1>1, <1>3, <1>4, HeldIsAllocated
  <2>2. macro[m] \in Fields /\ Accounted(macro[m])
    BY <1>1, <2>1, OwnFields
  <2>3. f \in Fields /\ Accounted(f) /\ ~f.purged
    BY <1>4, <2>1, <2>2 DEF Fields, Accounted
  <2>4. macro' = [macro EXCEPT ![m] = f]
    BY <1>4 DEF HandsOver
  <2> HIDE DEF f, m
  <2> QED  BY <1>2, <2>1, <2>3, <2>4, CallStepKeeps
<1>5. CASE ~(macro[m].held /\ m \in ToSet(running))
  <2>1. macro' = macro
    BY <1>5 DEF HandsOver
  <2>2. Parts' /\ walking' = walking
    BY <1>1, <1>2, PartsSame
  <2>3. "hand_over" \notin Returns /\ "hand_over" # "purge" /\ UNCHANGED <<listVars, heapVars>>
    BY <2>1, <1>2 DEF Returns, heapVars
  <2> QED  BY <1>2, <2>2, <2>3, QuietStepKeeps
<1> QED  BY <1>4, <1>5

LEMMA UncapturesKeeps ==
  ASSUME MacroInv, Uncaptures
  PROVE  MacroInv'
<1> DEFINE m == Subject  f == [macro[m] EXCEPT !.capture = FALSE]
<1>1. Owned /\ Frames /\ Bottom
  BY DEF MacroInv
<1>2. /\ AtStep("uncapture") /\ StepDone /\ UNCHANGED <<listVars, heap, deferred, walkVars, bodyVars>>
      /\ macro' = [macro EXCEPT ![m] = f]
  BY DEF Uncaptures
<1>3. /\ m \in Macros /\ Len(stack) = 1 /\ Top.todo[1].op = "uncapture" /\ m = Top.todo[1].of
      /\ Top.todo \in Seq(OwnStep) /\ Top.todo # <<>>
  BY <1>1, <1>2, FirstStep DEF MacroSteps
<1>4. Top = stack[1] /\ 1 \in 1..Len(Top.todo)
  BY <1>1, <1>3, StackFacts
<1>5. m \in heap
  BY <1>1, <1>3, <1>4 DEF Bottom
<1>6. macro[m] \in Fields /\ Accounted(macro[m])
  BY <1>1, <1>5, OwnFields
<1>7. f \in Fields /\ Accounted(f) /\ f.purged = macro[m].purged
  BY <1>6 DEF Fields, Accounted
<1> HIDE DEF f, m
<1> QED  BY <1>2, <1>5, <1>7, CallStepKeeps

LEMMA ReleaseStepKeeps ==
  ASSUME MacroInv, ReleaseStep
  PROVE  MacroInv'
<1> DEFINE m == Subject
           gone == IF ~macro[m].capture \/ macro[m].destroy_when_finished THEN {m} ELSE {}
<1>1. Parts /\ Owned /\ Listed /\ Frames /\ Bottom /\ Walked
  BY DEF MacroInv
<1>2. /\ AtStep("release") /\ StepDone /\ UNCHANGED <<deferred, walkVars, bodyVars>>
      /\ "release" \notin Returns /\ "release" # "purge"
  BY DEF ReleaseStep, Returns
<1>3. Parts' /\ walking' = walking /\ Len(stack) = 1
  BY <1>1, <1>2, PartsSame, FirstStep
<1>4. CASE macro[m].held
  <2>1. Erased({m}) /\ Freed(gone) /\ gone \subseteq {m}
    BY <1>4 DEF ReleaseStep, RemovedAndReleased
  <2> HIDE DEF gone, m
  <2>2. Owned' /\ heap' = heap \ gone /\ \A k \in Macros : k \notin gone => macro'[k] = macro[k]
    BY <1>1, <2>1, OwnedFreed
  <2>3. Listed'
    <3>1. \A k \in heap : k \notin {m} => k \in heap' /\ (macro'[k].purged => macro[k].purged)
      BY <1>1, <2>1, <2>2 DEF Owned
    <3> QED  BY <3>1, <1>1, <2>1, ListedErased
  <2>4. Frames' /\ Cleared' /\ Bottom' /\ InTurn
    BY <1>1, <1>2, <1>3, StepsOn
  <2> QED  BY <1>1, <1>3, <2>1, <2>2, <2>3, <2>4, WalkedErased DEF MacroInv
<1>5. CASE ~macro[m].held
  <2>1. UNCHANGED <<listVars, heapVars>>
    BY <1>5 DEF ReleaseStep
  <2> QED  BY <2>1, <1>2, <1>3, QuietStepKeeps
<1> QED  BY <1>4, <1>5

-----------------------------------------------------------------------------
(* The specification *)

LEMMA MacroInit == Init => MacroInv
<1> SUFFICES ASSUME Init PROVE MacroInv
  OBVIOUS
<1> DEFINE f == [macro |-> NoMacro, todo |-> <<>>]
<1>1. /\ running = <<>> /\ next = 0 /\ turned = {} /\ deferred = {} /\ heap = {}
      /\ macro = [m \in Macros |-> Unused] /\ stack = <<f>>
      /\ walking = FALSE /\ index = 0 /\ sleeping = [c \in Creatures |-> Nobody] /\ dead = {}
  BY DEF Init
<1>2. f \in Frame /\ f.macro = NoMacro /\ f.todo = <<>>
  BY DEF Frame
<1> HIDE DEF f
<1>3. /\ stack \in Seq(Frame) /\ Len(stack) = 1
      /\ stack[1].macro = NoMacro /\ stack[1].todo = <<>>
  BY <1>1, <1>2
<1>4. Parts
  BY <1>1 DEF Parts
<1>5. Owned
  BY <1>1, UnusedFields DEF Owned
<1>6. Listed
  BY <1>1, SizesAssumption DEF Listed
<1>7. Frames
  BY <1>3, SizesAssumption DEF Frames
<1>8. Cleared /\ Bottom
  BY <1>3 DEF Cleared, Bottom
<1>9. Walked
  BY <1>1, <1>3 DEF Walked
<1> QED  BY <1>4, <1>5, <1>6, <1>7, <1>8, <1>9 DEF MacroInv

LEMMA MacroNext ==
  ASSUME KitsApart, MacroInv, [Next]_vars
  PROVE  MacroInv'
<1>1. CASE Command
  <2>1. CASE Pauses \/ Yields \/ Ends \/ Terminates
    BY <2>1, PausesKeeps, YieldsKeeps, EndsKeeps, TerminatesKeeps
  <2>2. CASE \E o \in Objects : Kill(o)
    BY <2>2, KillKeeps
  <2>3. CASE \E c \in Creatures : \/ Cdie(c) \/ WakesUp(c)
                                  \/ \E i \in Indicators : FallsAsleep(c, i)
    BY <2>3, CdieKeeps, WakesUpKeeps, FallsAsleepKeeps
  <2> QED  BY <1>1, <2>1, <2>2, <2>3 DEF Command
<1>2. CASE CommandStep
  <2>1. CASE Returned \/ ReturnedDestroyed \/ TurnsBegin \/ TurnBeforePurge
    BY <2>1, ReturnedKeeps, ReturnedDestroyedKeeps, TurnsBeginKeeps, TurnBeforePurgeKeeps
  <2>2. CASE Purges \/ Dies
    BY <2>2, PurgesKeeps, DiesKeeps
  <2>3. CASE FiresNothing \/ FiresDeferred \/ FiresReload \/ \E m \in Macros : FiresNew(m)
    BY <2>3, FiresNothingKeeps, FiresDeferredKeeps, FiresReloadKeeps, FiresNewKeeps
  <2> QED  BY <1>2, <2>1, <2>2, <2>3 DEF CommandStep
<1>3. CASE Walk
  BY <1>3, WalkBeginsKeeps, WalkTurnKeeps, AppliesDeferredKeeps, AdvancesKeeps, WalkEndsKeeps
  DEF Walk
<1>4. CASE Outside
  BY <1>4, ObjectEventKeeps, ObjectKilledKeeps, CreatureEventKeeps, CreatureDiesKeeps, ClearsKeeps
  DEF Outside
<1>5. CASE Kit
  <2>1. CASE \E m \in Macros, c \in Selectable :
               \/ HolderCreated(m, c) \/ HolderStarts(m, c) \/ HolderOutputs(m, c)
               \/ \E hands_over \in BOOLEAN : FiresCommand(m, c, hands_over)
               \/ Connects(m, c)
    BY <2>1, HolderCreatedKeeps, HolderStartsKeeps, HolderOutputsKeeps, FiresCommandKeeps,
       ConnectsKeeps
  <2>2. CASE \E m \in Macros : HolderDestroyed(m) \/ Executes(m) \/ Requests(m) \/ Disconnects(m)
    BY <2>2, HolderDestroyedKeeps, ExecutesKeeps, RequestsKeeps, DisconnectsKeeps
  <2>3. CASE StartStep \/ HandsOver \/ ReleaseStep \/ Uncaptures
    BY <2>3, StartStepKeeps, HandsOverKeeps, ReleaseStepKeeps, UncapturesKeeps
  <2> QED  BY <1>5, <2>1, <2>2, <2>3 DEF Kit
<1>6. CASE UNCHANGED vars
  <2>1. /\ UNCHANGED <<running, next, turned, heap, macro, deferred, stack>>
        /\ UNCHANGED <<walking, index, sleeping, dead>>
    BY <1>6 DEF vars, listVars, heapVars, walkVars, bodyVars
  <2>2. Parts' /\ Owned' /\ Listed'
    BY <2>1 DEF MacroInv, Parts, Owned, Listed
  <2>3. Frames'
    BY <2>1 DEF MacroInv, Frames
  <2>4. Cleared'
    BY <2>1 DEF MacroInv, Cleared, Top
  <2>5. Bottom' /\ Walked'
    BY <2>1 DEF MacroInv, Bottom, Walked, Reached
  <2> QED  BY <2>2, <2>3, <2>4, <2>5 DEF MacroInv
<1> QED  BY <1>1, <1>2, <1>3, <1>4, <1>5, <1>6 DEF Next

\* The inductive invariant holds in every state: of the macros, the list, the
\* frames of execute_interpreter, the UI thread's own frame and the walk.
THEOREM MacroInductive ==
  ASSUME KitsApart
  PROVE  Spec => []MacroInv
<1>1. KitsApart
  OBVIOUS
<1>2. Init => MacroInv
  BY MacroInit
<1>3. MacroInv /\ [Next]_vars => MacroInv'
  BY <1>1, MacroNext
<1> QED  BY <1>2, <1>3, PTL DEF Spec

\* What the invariant says of the types.
LEMMA MacroTypes == MacroInv => TypeOK
<1> SUFFICES ASSUME MacroInv PROVE TypeOK
  OBVIOUS
<1>1. Parts /\ Owned /\ Listed /\ Frames /\ Walked
  BY DEF MacroInv
<1>2. running \in BoundedSeq(Macros, Limit)
  <2>1. Len(running) \in 0..Limit /\ running \in [1..Len(running) -> Macros]
    BY <1>1, SizesAssumption DEF Listed
  <2> DEFINE n == Len(running)
  <2>2. n \in 0..Limit /\ running \in [1..n -> Macros]
    BY <2>1
  <2> HIDE DEF n
  <2> QED  BY <2>2 DEF BoundedSeq, SeqOf
<1>3. ASSUME NEW i \in DOMAIN stack
      PROVE  stack[i].macro \in Macros \cup {NoMacro} /\ ToSet(stack[i].todo) \subseteq Step
  <2>1. stack[i] \in Frame
    BY <1>1 DEF Frames
  <2>2. stack[i].macro \in Macros \cup {NoMacro} /\ stack[i].todo \in Seq(OwnStep)
    BY <2>1 DEF Frame
  <2>3. \A k \in DOMAIN stack[i].todo : stack[i].todo[k] \in Step
    BY <2>2, OwnSteps
  <2> QED  BY <2>2, <2>3 DEF ToSet
<1>4. turned \subseteq Macros
  BY <1>1 DEF Walked, Listed
<1>5. next \in 0..Len(running) /\ Len(stack) \in 1..MaxDepth /\ stack[1].macro = NoMacro
  BY <1>1 DEF Listed, Frames
<1> QED  BY <1>1, <1>2, <1>3, <1>4, <1>5 DEF TypeOK, Parts, Owned

\* Nothing the interpreter holds a pointer to is freed, listed twice or owned
\* twice: no macro with a frame on the C++ stack or with a kit waiting for its
\* output is deleted, g_running_macros names every macro once and none that is
\* deleted or purged, and one party at most deletes a macro.
THEOREM NothingInUseIsFreed ==
  ASSUME KitsApart
  PROVE  Spec => []MemorySound
<1>1. KitsApart
  OBVIOUS
<1>2. MacroInv => MemorySound
  <2> SUFFICES ASSUME MacroInv PROVE MemorySound
    OBVIOUS
  <2>1. Owned /\ Listed /\ Frames /\ Bottom
    BY DEF MacroInv
  <2>2. OneOwner
    BY <2>1 DEF Owned, Accounted, OneOwner
  <2>3. ListSound
    <3>1. DOMAIN running = 1..Len(running)
      BY <2>1 DEF Listed
    <3> QED  BY <2>1, <3>1, ListIs DEF Listed, ListSound, IsInjective
  <2>4. NoUseAfterFree
    <3>1. OnStack \subseteq heap \cup {NoMacro}
      BY <2>1, OnStackAre
    <3>2. ASSUME NEW i \in DOMAIN stack, NEW s \in ToSet(stack[i].todo), s.op = "uncapture"
          PROVE  s.of \in heap
      <4>0. stack \in Seq(Frame)
        BY <2>1 DEF Frames
      <4>5. i \in 1..Len(stack) /\ stack[i] \in Frame
        BY <4>0
      <4>1. i \in 1..Len(stack) /\ stack[i].todo \in Seq(OwnStep)
        BY <4>5 DEF Frame
      <4>2. PICK k \in 1..Len(stack[i].todo) : s = stack[i].todo[k]
        BY <4>1 DEF ToSet
      <4>3. CASE i = 1
        BY <4>2, <4>3, <3>2, <2>1 DEF Bottom
      <4>4. CASE i # 1
        <5>1. i \in 2..Len(stack)
          BY <4>1, <4>4
        <5>2. InCommand(stack[i].todo)
          BY <5>1, <2>1 DEF Frames
        <5> QED  BY <5>2, <4>2, <3>2 DEF InCommand
      <4> QED  BY <4>3, <4>4
    <3> QED  BY <3>1, <3>2 DEF NoUseAfterFree
  <2> QED  BY <2>2, <2>3, <2>4, MacroTypes DEF MemorySound
<1> QED  BY <1>1, <1>2, MacroInductive, PTL

\* Between two turns of a walk of update_world, exactly the macros before the
\* index have had their turn, whatever the turns have added and removed.
THEOREM OneTurnEach ==
  ASSUME KitsApart
  PROVE  Spec => []EachOnce
<1>1. KitsApart
  OBVIOUS
<1>2. MacroInv => EachOnce
  <2> SUFFICES ASSUME MacroInv, walking, Idle
               PROVE  /\ index <= Len(running)
                      /\ \A k \in DOMAIN running : running[k] \in turned <=> k <= index
    BY DEF EachOnce
  <2>1. Listed /\ Frames /\ Walked
    BY DEF MacroInv
  <2>2. stack[1].todo = <<>>
    BY <2>1, StackFacts DEF Idle
  <2>3. DOMAIN running = 1..Len(running)
    BY <2>1 DEF Listed
  <2> QED  BY <2>1, <2>2, <2>3 DEF Walked, Reached
<1> QED  BY <1>1, <1>2, MacroInductive, PTL

\* A macro that the purge of its owner has marked runs no command after the one
\* it was in: the interpreter deletes it when that command returns.
THEOREM PurgedMacrosStop ==
  ASSUME KitsApart
  PROVE  Spec => []PurgedRunsNoMore
<1>1. KitsApart
  OBVIOUS
<1>2. MacroInv => PurgedRunsNoMore
  BY StackFacts DEF MacroInv, PurgedRunsNoMore
<1> QED  BY <1>1, <1>2, MacroInductive, PTL

-----------------------------------------------------------------------------
(* Events held back for a paused script *)

\* A frame of the stack has the step still to do.
Has(todo, s) == \E j \in 1..Len(todo) : todo[j] = s
Awaits(s) == \E k \in 1..Len(stack) : Has(stack[k].todo, s)

\* The event of o will be forgotten or applied by a step that is to come.
Clearing(o) == Awaits(Do("purge", o)) \/ Awaits(Do("apply", o))
PausedScript(o) ==
  \E i \in 1..Len(running) : macro[running[i]].owner = o /\ macro[running[i]].paused

\* The turns before a purge come first in what a frame has to do, and the purge
\* follows on them; in a macro's command an event that is not the command's
\* first step follows on a purge.
NoTurns(todo) == \A j \in 1..Len(todo) : todo[j].op # "turn"
TurnsFirst(todo) ==
  \A j \in 1..Len(todo) : todo[j].op = "turn" => \A i \in 1..j : todo[i].op = "turn"
PurgesNext(todo) ==
  \A j \in 1..Len(todo) : todo[j].op = "turns" =>
    j + 1 \in 1..Len(todo) /\ todo[j + 1] = Do("purge", todo[j].of)
FiresAfterPurge(todo) ==
  \A j \in 2..Len(todo) : todo[j].op = "fire" => todo[j - 1] = Do("purge", todo[j].of)
FiresFirst(todo) == todo # <<>> /\ todo[1].op = "fire"
InOrder ==
  /\ \A k \in 1..Len(stack) : TurnsFirst(stack[k].todo) /\ PurgesNext(stack[k].todo)
  /\ \A k \in 2..Len(stack) : /\ FiresAfterPurge(stack[k].todo)
                              /\ k < Len(stack) => ~FiresFirst(stack[k].todo)

\* An event that a command is about to fire cannot be held back for good.
EventNext ==
  Len(stack) > 1 /\ FiresFirst(Top.todo) =>
    \A o \in Objects \ Selectable :
      Top.todo[1].of = o =>
        \/ Clearing(o)
        \/ o \notin deferred /\ \A i \in 1..Len(running) : macro[running[i]].owner # o

\* A turn before a purge may go to a macro that has taken another's address.
TurnsSettle ==
  \A m \in Macros, o \in deferred \ Selectable :
    Awaits(Do("turn", m)) /\ macro[m].owner = o => Clearing(o)

HeldBack == \A o \in deferred \ Selectable : PausedScript(o) \/ Clearing(o)

EventInv == InOrder /\ EventNext /\ TurnsSettle /\ HeldBack

-----------------------------------------------------------------------------
(* What the top frame has to do changes *)

GoesWith(t) == GoesOn(t) \/ \E m \in Macros : StepDoneThen(m, t)

LEMMA TopWorks ==
  ASSUME Frames, NEW t \in Seq(OwnStep), GoesWith(t)
  PROVE  /\ stack' \in Seq(Frame) /\ Len(stack) \in Nat \ {0}
         /\ \/ Len(stack') = Len(stack) /\ GoesOn(t)
            \/ Len(stack') = Len(stack) + 1 /\ stack'[Len(stack) + 1].todo = <<>>
         /\ \A i \in 1..Len(stack) - 1 : stack'[i] = stack[i]
         /\ stack'[Len(stack)].todo = t
<1>1. stack \in Seq(Frame) /\ Len(stack) >= 1 /\ Len(stack) \in Nat \ {0}
  BY DEF Frames
<1>2. CASE GoesOn(t)
  <2> DEFINE r == [stack EXCEPT ![Len(stack)].todo = t]
  <2>1. /\ r \in Seq(Frame) /\ Len(r) = Len(stack)
        /\ \A i \in 1..Len(stack) - 1 : r[i] = stack[i]
        /\ r[Len(stack)].todo = t
    BY <1>1, StackGoesOn
  <2>2. stack' = r
    BY <1>2 DEF GoesOn
  <2> HIDE DEF r
  <2> QED  BY <1>1, <1>2, <2>1, <2>2
<1>3. CASE \E m \in Macros : StepDoneThen(m, t)
  BY <1>1, <1>3, StackGrows
<1> QED  BY <1>2, <1>3 DEF GoesWith

LEMMA TopAwaits ==
  ASSUME Frames, NEW t \in Seq(OwnStep), GoesWith(t)
  PROVE  /\ \A s : Awaits(s)' => Has(t, s) \/ Awaits(s)
         /\ \A s : Has(t, s) => Awaits(s)'
         /\ \A s : Awaits(s) => Has(Top.todo, s) \/ Awaits(s)'
<1> DEFINE n == Len(stack)
<1>1. /\ n \in Nat \ {0} /\ Len(stack') \in {n, n + 1}
      /\ Len(stack') = n + 1 => stack'[n + 1].todo = <<>>
      /\ \A i \in 1..n - 1 : stack'[i] = stack[i]
      /\ stack'[n].todo = t /\ Top = stack[n]
  BY TopWorks, StackFacts
<1> HIDE DEF n
<1>2. ASSUME NEW s, Awaits(s)' PROVE Has(t, s) \/ Awaits(s)
  <2>1. PICK k \in 1..Len(stack') : Has(stack'[k].todo, s)
    BY <1>2 DEF Awaits, Has
  <2>2. CASE k = n + 1
    BY <2>1, <2>2, <1>1 DEF Has
  <2>3. CASE k = n
    BY <2>1, <2>3, <1>1
  <2>4. CASE k \notin {n, n + 1}
    <3>1. k \in 1..n - 1 /\ k \in 1..n
      BY <2>4, <1>1
    <3> QED  BY <3>1, <2>1, <1>1 DEF Awaits, n
  <2> QED  BY <2>2, <2>3, <2>4
<1>3. ASSUME NEW s, Has(t, s) PROVE Awaits(s)'
  <2>1. n \in 1..Len(stack')
    BY <1>1
  <2> QED  BY <2>1, <1>1, <1>3 DEF Awaits, Has
<1>4. ASSUME NEW s, Awaits(s) PROVE Has(Top.todo, s) \/ Awaits(s)'
  <2>1. PICK k \in 1..n : Has(stack[k].todo, s)
    BY <1>4 DEF Awaits, n
  <2>2. CASE k = n
    BY <2>1, <2>2, <1>1
  <2>3. CASE k # n
    <3>1. k \in 1..n - 1 /\ k \in 1..Len(stack')
      BY <2>3, <1>1
    <3> QED  BY <3>1, <2>1, <1>1 DEF Awaits, Has
  <2> QED  BY <2>2, <2>3
<1> QED  BY <1>2, <1>3, <1>4

LEMMA TopInOrder ==
  ASSUME Frames, InOrder, NEW t \in Seq(OwnStep), GoesWith(t), TurnsFirst(t), PurgesNext(t),
         Len(stack) > 1 => FiresAfterPurge(t) /\ (FiresFirst(t) => ~\E m \in Macros : StepDoneThen(m, t))
  PROVE  InOrder'
<1> DEFINE n == Len(stack)
<1>1. /\ n \in Nat \ {0} /\ Len(stack') \in {n, n + 1}
      /\ Len(stack') = n + 1 => stack'[n + 1].todo = <<>>
      /\ \A i \in 1..n - 1 : stack'[i] = stack[i]
      /\ stack'[n].todo = t
      /\ Len(stack') = n \/ ~GoesOn(t)
  <2>1. GoesOn(t) => Len(stack') = n
    <3>1. stack \in Seq(Frame) /\ Len(stack) >= 1
      BY DEF Frames
    <3> QED  BY <3>1, StackGoesOn DEF GoesOn
  <2> QED  BY <2>1, TopWorks
<1>2. /\ \A k \in 1..n : TurnsFirst(stack[k].todo) /\ PurgesNext(stack[k].todo)
      /\ \A k \in 2..n : /\ FiresAfterPurge(stack[k].todo)
                         /\ k < n => ~FiresFirst(stack[k].todo)
  BY DEF InOrder
<1>3. TurnsFirst(<<>>) /\ PurgesNext(<<>>) /\ FiresAfterPurge(<<>>)
  BY DEF TurnsFirst, PurgesNext, FiresAfterPurge
<1>4. Len(stack') = n + 1 /\ n > 1 => ~FiresFirst(t)
  BY <1>1 DEF GoesWith
<1> HIDE DEF n
<1>5. ASSUME NEW k \in 1..Len(stack') PROVE TurnsFirst(stack'[k].todo) /\ PurgesNext(stack'[k].todo)
  <2>1. k \in 1..n - 1 \/ k = n \/ (k = n + 1 /\ Len(stack') = n + 1)
    BY <1>1
  <2>2. k \in 1..n - 1 => k \in 1..n
    BY <1>1
  <2> QED  BY <2>1, <2>2, <1>1, <1>2, <1>3
<1>6. ASSUME NEW k \in 2..Len(stack')
      PROVE  /\ FiresAfterPurge(stack'[k].todo)
             /\ k < Len(stack') => ~FiresFirst(stack'[k].todo)
  <2>1. k \in 1..n - 1 \/ k = n \/ (k = n + 1 /\ Len(stack') = n + 1)
    BY <1>1
  <2>2. CASE k \in 1..n - 1
    <3>1. k \in 2..n /\ k < n
      BY <2>2, <1>1
    <3> QED  BY <3>1, <2>2, <1>1, <1>2
  <2>3. CASE k = n
    <3>1. n > 1 /\ (k < Len(stack') => Len(stack') = n + 1)
      BY <2>3, <1>1
    <3> QED  BY <3>1, <2>3, <1>1, <1>4 DEF n
  <2>4. CASE k = n + 1 /\ Len(stack') = n + 1
    BY <2>4, <1>1, <1>3
  <2> QED  BY <2>1, <2>2, <2>3, <2>4
<1> QED  BY <1>5, <1>6 DEF InOrder, TurnsFirst, PurgesNext, FiresAfterPurge, FiresFirst

LEMMA TopEvent ==
  ASSUME Frames, NEW t \in Seq(OwnStep), GoesWith(t),
         Len(stack) > 1 /\ FiresFirst(t) =>
           \A o \in Objects \ Selectable :
             t[1].of = o =>
               \/ Clearing(o)'
               \/ o \notin deferred' /\ \A i \in 1..Len(running') : macro'[running'[i]].owner # o
  PROVE  EventNext'
<1>1. /\ stack' \in Seq(Frame) /\ Len(stack) \in Nat \ {0}
      /\ \/ Len(stack') = Len(stack) /\ GoesOn(t)
         \/ Len(stack') = Len(stack) + 1 /\ stack'[Len(stack) + 1].todo = <<>>
      /\ stack'[Len(stack)].todo = t
  BY TopWorks
<1>2. Len(stack') >= 1
  BY <1>1
<1>3. Top' = stack'[Len(stack')]
  BY <1>1, <1>2, TopFrame DEF Top
<1>4. CASE Len(stack') = Len(stack)
  BY <1>1, <1>3, <1>4 DEF EventNext, FiresFirst, Clearing, Awaits, Has
<1>5. CASE Len(stack') = Len(stack) + 1 /\ stack'[Len(stack) + 1].todo = <<>>
  BY <1>3, <1>5 DEF EventNext, FiresFirst
<1> QED  BY <1>1, <1>4, <1>5

\* The stack does not both stay and grow.
LEMMA NotPushed ==
  ASSUME Frames, NEW t \in Seq(OwnStep), GoesOn(t)
  PROVE  ~\E m \in Macros : StepDoneThen(m, t)
<1> SUFFICES ASSUME NEW m \in Macros, StepDoneThen(m, t) PROVE FALSE
  OBVIOUS
<1>1. Len(stack') = Len(stack) + 1 /\ Len(stack) \in Nat
  BY StackGrows, StackFacts
<1>2. Len(stack') = Len(stack)
  <2>1. stack \in Seq(Frame) /\ Len(stack) >= 1
    BY DEF Frames
  <2> QED  BY <2>1, StackGoesOn DEF GoesOn
<1> QED  BY <1>1, <1>2

\* A step is taken from the top frame's.
LEMMA TailHas ==
  ASSUME NEW todo \in Seq(OwnStep), todo # <<>>
  PROVE  /\ \A s : Has(Tail(todo), s) => Has(todo, s)
         /\ \A s : Has(todo, s) => s = todo[1] \/ Has(Tail(todo), s)
         /\ TurnsFirst(todo) => TurnsFirst(Tail(todo))
         /\ PurgesNext(todo) => PurgesNext(Tail(todo))
         /\ TurnsFirst(todo) /\ todo[1].op # "turn" => NoTurns(todo) /\ NoTurns(Tail(todo))
         /\ FiresAfterPurge(todo) => /\ FiresAfterPurge(Tail(todo))
                                     /\ FiresFirst(Tail(todo)) => todo[1] = Do("purge", Tail(todo)[1].of)
<1> DEFINE n == Len(todo)  t == Tail(todo)
<1>1. /\ Len(t) = n - 1 /\ n >= 1 /\ n \in Nat
      /\ \A k \in 1..n - 1 : t[k] = todo[k + 1]
      /\ t = <<>> <=> n = 1
  BY StepTaken
<1> HIDE DEF t
<1>2. \A k \in 1..Len(t) : k + 1 \in 2..n /\ k + 1 \in 1..n /\ t[k] = todo[k + 1]
  BY <1>1
<1>3. \A k \in 1..n : k = 1 \/ (k - 1 \in 1..Len(t) /\ t[k - 1] = todo[k])
  <2> SUFFICES ASSUME NEW k \in 1..n, k # 1 PROVE k - 1 \in 1..Len(t) /\ t[k - 1] = todo[k]
    OBVIOUS
  <2>1. k - 1 \in 1..n - 1 /\ (k - 1) + 1 = k
    BY <1>1
  <2> QED  BY <2>1, <1>1
<1> HIDE DEF n
<1>4. \A s : Has(t, s) => Has(todo, s)
  BY <1>2 DEF Has, n
<1>5. \A s : Has(todo, s) => s = todo[1] \/ Has(t, s)
  BY <1>3 DEF Has, n
<1>6. ASSUME TurnsFirst(todo) PROVE TurnsFirst(t)
  <2> SUFFICES ASSUME NEW j \in 1..Len(t), t[j].op = "turn", NEW i \in 1..j PROVE t[i].op = "turn"
    BY DEF TurnsFirst
  <2>1. i \in 1..Len(t) /\ i + 1 \in 1..(j + 1) /\ j + 1 \in 1..n
    BY <1>1
  <2>2. todo[j + 1].op = "turn"
    BY <1>2
  <2>3. todo[i + 1].op = "turn"
    BY <2>1, <2>2, <1>6 DEF TurnsFirst, n
  <2> QED  BY <2>1, <2>3, <1>2
<1>7. ASSUME TurnsFirst(todo), todo[1].op # "turn" PROVE NoTurns(todo) /\ NoTurns(t)
  <2>1. \A j \in 1..n : 1 \in 1..j
    BY <1>1
  <2>2. NoTurns(todo)
    BY <2>1, <1>7 DEF TurnsFirst, NoTurns, n
  <2> QED  BY <2>2, <1>2 DEF NoTurns, n
<1>8. ASSUME FiresAfterPurge(todo) PROVE FiresAfterPurge(t)
  <2> SUFFICES ASSUME NEW j \in 2..Len(t), t[j].op = "fire" PROVE t[j - 1] = Do("purge", t[j].of)
    BY DEF FiresAfterPurge
  <2>1. j \in 1..Len(t) /\ j - 1 \in 1..Len(t) /\ (j - 1) + 1 = j /\ j + 1 \in 2..n /\ (j + 1) - 1 = j
    BY <1>1
  <2>2. t[j] = todo[j + 1] /\ t[j - 1] = todo[j]
    BY <2>1, <1>2
  <2> QED  BY <2>1, <2>2, <1>8 DEF FiresAfterPurge, n
<1>9. ASSUME FiresAfterPurge(todo), FiresFirst(t) PROVE todo[1] = Do("purge", t[1].of)
  <2>1. t # <<>> /\ t[1].op = "fire"
    BY <1>9 DEF FiresFirst
  <2>2. 2 \in 2..n /\ 2 - 1 = 1 /\ t[1] = todo[2]
    BY <2>1, <1>1
  <2> QED  BY <2>1, <2>2, <1>9 DEF FiresAfterPurge, n
<1>10. ASSUME PurgesNext(todo) PROVE PurgesNext(t)
  <2> SUFFICES ASSUME NEW j \in 1..Len(t), t[j].op = "turns"
               PROVE  j + 1 \in 1..Len(t) /\ t[j + 1] = Do("purge", t[j].of)
    BY DEF PurgesNext
  <2>1. (j + 1) + 1 \in 1..n /\ todo[(j + 1) + 1] = Do("purge", todo[j + 1].of) /\ t[j] = todo[j + 1]
    BY <1>2, <1>10 DEF PurgesNext, n
  <2>2. j + 1 \in 1..Len(t)
    BY <2>1, <1>1
  <2> QED  BY <2>1, <2>2, <1>2
<1> QED  BY <1>4, <1>5, <1>6, <1>7, <1>8, <1>9, <1>10 DEF t

LEMMA TakesStep ==
  ASSUME Frames, Bottom, InOrder, NEW op, AtStep(op), op # "purge", GoesWith(Tail(Top.todo))
  PROVE  /\ InOrder' /\ EventNext'
         /\ \A s : Awaits(s)' => Awaits(s)
         /\ \A s : Awaits(s) => s.op = op \/ Awaits(s)'
<1> DEFINE t == Tail(Top.todo)  n == Len(stack)
<1>1. Top.todo \in Seq(OwnStep) /\ Top.todo # <<>> /\ Top.todo[1].op = op
  BY FirstStep
<1>2. t \in Seq(OwnStep)
  BY <1>1, StepTaken
<1>3. Top = stack[n] /\ n \in 1..Len(stack) /\ (n > 1 => n \in 2..Len(stack))
  BY StackFacts
<1>4. TurnsFirst(t) /\ PurgesNext(t)
  BY <1>1, <1>3, TailHas DEF InOrder
<1>5. n > 1 => FiresAfterPurge(t) /\ ~FiresFirst(t)
  <2> SUFFICES ASSUME n > 1 PROVE FiresAfterPurge(t) /\ ~FiresFirst(t)
    OBVIOUS
  <2>1. FiresAfterPurge(Top.todo)
    BY <1>3 DEF InOrder
  <2>2. FiresAfterPurge(t) /\ (FiresFirst(t) => Top.todo[1] = Do("purge", t[1].of))
    BY <2>1, <1>1, TailHas
  <2>3. Do("purge", t[1].of).op = "purge"
    BY DEF Do
  <2> QED  BY <2>2, <2>3, <1>1
<1>6. /\ \A s : Has(t, s) => Has(Top.todo, s)
      /\ \A s : Has(Top.todo, s) => s = Top.todo[1] \/ Has(t, s)
  BY <1>1, TailHas
<1>7. GoesWith(t)
  OBVIOUS
<1> HIDE DEF t
<1>8. InOrder'
  BY <1>2, <1>4, <1>5, <1>7, TopInOrder DEF n
<1>9. EventNext'
  BY <1>2, <1>5, <1>7, TopEvent DEF n
<1>10. \A s : Has(Top.todo, s) => Awaits(s)
  BY <1>3 DEF Awaits, n
<1>11. /\ \A s : Awaits(s)' => Has(t, s) \/ Awaits(s)
       /\ \A s : Has(t, s) => Awaits(s)'
       /\ \A s : Awaits(s) => Has(Top.todo, s) \/ Awaits(s)'
  BY <1>2, <1>7, TopAwaits
<1> QED  BY <1>1, <1>6, <1>8, <1>9, <1>10, <1>11

\* The steps that clear an event and the turns, when a step of another kind is
\* taken.
LEMMA StillClearing ==
  ASSUME NEW op, \A s : Awaits(s) => s.op = op \/ Awaits(s)', op \notin {"purge", "apply"}
  PROVE  \A o : Clearing(o) => Clearing(o)'
<1>1. \A o : Do("purge", o).op = "purge" /\ Do("apply", o).op = "apply"
  BY DEF Do
<1> QED  BY <1>1 DEF Clearing

\* What is held back stays so, when what keeps it does.
LEMMA StaysHeld ==
  ASSUME TurnsSettle, HeldBack, deferred' \subseteq deferred,
         \A o \in deferred' \ Selectable : Clearing(o) => Clearing(o)',
         \A o \in deferred' \ Selectable, i \in 1..Len(running) :
           macro[running[i]].paused /\ macro[running[i]].owner = o =>
             \/ Clearing(o)'
             \/ /\ \E j \in 1..Len(running') : running'[j] = running[i]
                /\ macro'[running[i]].paused /\ macro'[running[i]].owner = o,
         \A m \in Macros, o \in deferred' \ Selectable :
           Awaits(Do("turn", m))' /\ macro'[m].owner = o =>
             (Awaits(Do("turn", m)) /\ macro[m].owner = o) \/ Clearing(o)'
  PROVE  TurnsSettle' /\ HeldBack'
<1>1. ASSUME NEW m \in Macros, NEW o \in deferred' \ Selectable,
             Awaits(Do("turn", m))', macro'[m].owner = o
      PROVE  Clearing(o)'
  BY <1>1 DEF TurnsSettle
<1>2. ASSUME NEW o \in deferred' \ Selectable PROVE PausedScript(o)' \/ Clearing(o)'
  <2>1. PausedScript(o) \/ Clearing(o)
    BY <1>2 DEF HeldBack
  <2>2. CASE PausedScript(o)
    <3>1. PICK i \in 1..Len(running) : macro[running[i]].owner = o /\ macro[running[i]].paused
      BY <2>2 DEF PausedScript
    <3>2. CASE Clearing(o)'
      BY <3>2
    <3>3. CASE ~Clearing(o)'
      <4>1. /\ \E j \in 1..Len(running') : running'[j] = running[i]
            /\ macro'[running[i]].paused /\ macro'[running[i]].owner = o
        BY <1>2, <3>1, <3>3
      <4> QED  BY <4>1 DEF PausedScript
    <3> QED  BY <3>2, <3>3
  <2> QED  BY <2>1, <2>2, <1>2
<1> QED  BY <1>1, <1>2 DEF TurnsSettle, HeldBack

\* The list is as it was, and a macro that changes has no owner whose event
\* could be held back for it.
LEMMA SameList ==
  ASSUME Listed, Len(running) <= Len(running'), \A i \in 1..Len(running) : running'[i] = running[i],
         \A i \in 1..Len(running) :
           LET m == running[i]
           IN  \/ macro'[m].paused = macro[m].paused /\ macro'[m].owner = macro[m].owner
               \/ ~macro[m].paused \/ macro[m].owner \in Selectable
  PROVE  \A i \in 1..Len(running) :
           macro[running[i]].paused /\ macro[running[i]].owner \notin Selectable =>
             /\ \E j \in 1..Len(running') : running'[j] = running[i]
             /\ macro'[running[i]].paused /\ macro'[running[i]].owner = macro[running[i]].owner
<1>1. Len(running) \in Nat
  BY DEF Listed
<1>2. \A i \in 1..Len(running) : i \in 1..Len(running')
  <2> SUFFICES ASSUME NEW i \in 1..Len(running) PROVE i \in 1..Len(running')
    OBVIOUS
  <2> QED  BY <1>1
<1> QED  BY <1>2

-----------------------------------------------------------------------------
(* The commands *)

\* The top frame returns with nothing that would clear an event left to do.
LEMMA PopAwaits ==
  ASSUME Frames, InOrder, Len(stack) > 1, Popped,
         \A j \in 1..Len(Top.todo) : Top.todo[j].op \in Returns
  PROVE  /\ InOrder' /\ EventNext'
         /\ \A s : Awaits(s)' => Awaits(s)
         /\ \A o : Clearing(o) => Clearing(o)'
<1> DEFINE n == Len(stack)
<1>1. /\ n \in Nat /\ n > 1 /\ Top = stack[n]
      /\ stack' \in Seq(Frame) /\ Len(stack') = n - 1
      /\ \A i \in 1..n - 1 : stack'[i] = stack[i]
  <2>1. stack \in Seq(Frame) /\ Len(stack) >= 2
    BY DEF Frames
  <2> QED  BY <2>1, StackPopped, StackFacts DEF Popped
<1> HIDE DEF n
<1>2. \A k \in 1..Len(stack') : k \in 1..n /\ k < n /\ stack'[k] = stack[k]
  BY <1>1
<1>3. /\ \A k \in 1..n : TurnsFirst(stack[k].todo) /\ PurgesNext(stack[k].todo)
      /\ \A k \in 2..n : /\ FiresAfterPurge(stack[k].todo)
                         /\ k < n => ~FiresFirst(stack[k].todo)
  BY DEF InOrder, n
<1>4. \A k \in 2..Len(stack') : k \in 2..n /\ k \in 1..Len(stack')
  BY <1>1
<1>5. InOrder'
  <2>1. \A k \in 1..Len(stack') : TurnsFirst(stack'[k].todo) /\ PurgesNext(stack'[k].todo)
    BY <1>2, <1>3
  <2>2. \A k \in 2..Len(stack') : FiresAfterPurge(stack'[k].todo) /\ ~FiresFirst(stack'[k].todo)
    BY <1>2, <1>3, <1>4
  <2> QED  BY <2>1, <2>2 DEF InOrder, TurnsFirst, PurgesNext, FiresAfterPurge, FiresFirst
<1>6. EventNext'
  <2> SUFFICES ASSUME Len(stack') > 1, FiresFirst(Top.todo)' PROVE FALSE
    BY DEF EventNext
  <2>1. Top' = stack'[Len(stack')] /\ Len(stack') \in 2..Len(stack')
    BY <1>1, TopFrame DEF Top
  <2> QED  BY <2>1, <1>2, <1>3, <1>4 DEF FiresFirst
<1>7. ASSUME NEW s, Awaits(s)' PROVE Awaits(s)
  BY <1>2, <1>7 DEF Awaits, Has, n
<1>8. ASSUME NEW s, Awaits(s), s.op \notin Returns PROVE Awaits(s)'
  <2>1. PICK k \in 1..n : Has(stack[k].todo, s)
    BY <1>8 DEF Awaits, n
  <2>2. k # n
    BY <2>1, <1>1, <1>8 DEF Has
  <2>3. k \in 1..Len(stack') /\ stack'[k] = stack[k]
    BY <2>2, <1>1
  <2> QED  BY <2>1, <2>3 DEF Awaits, Has
<1>9. \A o : Do("purge", o).op \notin Returns /\ Do("apply", o).op \notin Returns
  BY DEF Do, Returns
<1> QED  BY <1>5, <1>6, <1>7, <1>8, <1>9 DEF Clearing

\* A macro between two commands, or at its command's return, leaves the stack.
LEMMA LeavesHeld ==
  ASSUME MacroInv, EventInv, Len(stack) > 1, Popped, UNCHANGED deferred,
         \A j \in 1..Len(Top.todo) : Top.todo[j].op \in Returns,
         \A m \in Macros : macro'[m].owner \in {macro[m].owner, Nobody},
         \A i \in 1..Len(running) :
           running[i] # Top.macro =>
             /\ \E j \in 1..Len(running') : running'[j] = running[i]
             /\ macro'[running[i]] = macro[running[i]]
  PROVE  EventInv'
<1>1. Frames /\ InOrder /\ TurnsSettle /\ HeldBack /\ Parts
  BY DEF MacroInv, EventInv
<1>2. /\ InOrder' /\ EventNext'
      /\ \A s : Awaits(s)' => Awaits(s)
      /\ \A o : Clearing(o) => Clearing(o)'
  BY <1>1, PopAwaits
<1>3. ~macro[Top.macro].paused
  BY <1>1, StackFacts
<1>4. Nobody \notin deferred'
  BY <1>1, OwnersAssumption DEF Parts
<1>5. TurnsSettle' /\ HeldBack'
  BY <1>1, <1>2, <1>3, <1>4, StaysHeld
<1> QED  BY <1>2, <1>5 DEF EventInv

LEMMA PausesHolds ==
  ASSUME MacroInv, EventInv, Pauses
  PROVE  EventInv'
<1>1. Owned /\ Listed /\ Frames
  BY DEF MacroInv
<1>2. Len(stack) > 1 /\ Top.todo = <<>> /\ Top.macro \in Macros
  BY <1>1, Executing DEF Pauses
<1>3. Popped /\ UNCHANGED <<deferred, running>> /\ macro' = [macro EXCEPT ![Top.macro].paused = TRUE]
  BY DEF Pauses, listVars
<1>4. macro \in [Macros -> Fields] /\ \A i \in 1..Len(running) : running[i] \in Macros
  BY <1>1 DEF Owned, Listed
<1>5. \A m \in Macros : m # Top.macro => macro'[m] = macro[m]
  BY <1>3, <1>4
<1>6. macro'[Top.macro].owner = macro[Top.macro].owner
  BY <1>2, <1>3, <1>4 DEF Fields
<1>7. \A m \in Macros : macro'[m].owner \in {macro[m].owner, Nobody}
  BY <1>5, <1>6
<1> QED  BY <1>2, <1>3, <1>4, <1>5, <1>7, LeavesHeld

LEMMA YieldsHolds ==
  ASSUME MacroInv, EventInv, Yields
  PROVE  EventInv'
<1>1. Len(stack) > 1 /\ Top.todo = <<>>
  BY Executing DEF Yields, MacroInv
<1>2. Popped /\ UNCHANGED <<deferred, running, macro>>
  BY DEF Yields, listVars, heapVars
<1> QED  BY <1>1, <1>2, LeavesHeld

\* What is taken from the list, and what is deleted.
LEMMA ErasedFreed ==
  ASSUME MacroInv, NEW gone, Erased(gone), NEW freed, Freed(freed), freed \subseteq gone
  PROVE  /\ \A m \in Macros : macro'[m].owner \in {macro[m].owner, Nobody}
         /\ \A i \in 1..Len(running) :
              running[i] \notin gone =>
                /\ \E j \in 1..Len(running') : running'[j] = running[i]
                /\ macro'[running[i]] = macro[running[i]]
<1>1. Owned /\ Listed /\ Walked
  BY DEF MacroInv
<1>2. \A j \in 1..Len(running) :
        running[j] \notin gone => \E i \in 1..Len(running') : running'[i] = running[j]
  BY <1>1, ErasedList DEF Walked
<1>3. \A m \in Macros : macro'[m] = IF m \in freed THEN Unused ELSE macro[m]
  BY DEF Freed
<1>4. \A i \in 1..Len(running) : running[i] \in Macros
  BY <1>1 DEF Listed
<1> QED  BY <1>2, <1>3, <1>4, UnusedFields

LEMMA EndsHolds ==
  ASSUME MacroInv, EventInv, Ends \/ Terminates
  PROVE  EventInv'
<1>1. Len(stack) > 1 /\ Top.todo = <<>>
  BY Executing DEF Ends, Terminates, MacroInv
<1>2. Popped /\ UNCHANGED deferred
  BY DEF Ends, Terminates
<1>3. PICK freed \in SUBSET {Top.macro} : Erased({Top.macro}) /\ Freed(freed)
  BY DEF Ends, Terminates, RemovedAndDestroyed, RemovedAndReleased
<1>4. /\ \A m \in Macros : macro'[m].owner \in {macro[m].owner, Nobody}
      /\ \A i \in 1..Len(running) :
           running[i] \notin {Top.macro} =>
             /\ \E j \in 1..Len(running') : running'[j] = running[i]
             /\ macro'[running[i]] = macro[running[i]]
  BY <1>3, ErasedFreed
<1> QED  BY <1>1, <1>2, <1>4, LeavesHeld

\* A command's steps: no turns, and the event that it begins with is forgotten by
\* a purge that is to come.
Orderly(todo) ==
  /\ todo \in Seq(OwnStep) /\ NoTurns(todo) /\ PurgesNext(todo) /\ FiresAfterPurge(todo)
  /\ FiresFirst(todo) => Has(todo, Do("purge", todo[1].of))

LEMMA OrderlyTogether ==
  ASSUME NEW s, Orderly(s), NEW t, Orderly(t), ~FiresFirst(t)
  PROVE  Orderly(s \o t) /\ (FiresFirst(s \o t) => FiresFirst(s))
<1> DEFINE u == s \o t
<1>1. s \in Seq(OwnStep) /\ t \in Seq(OwnStep) /\ Len(s) \in Nat /\ Len(t) \in Nat
  BY DEF Orderly
<1>2. /\ u \in Seq(OwnStep) /\ Len(u) = Len(s) + Len(t)
      /\ \A i \in 1..Len(s) + Len(t) : u[i] = IF i <= Len(s) THEN s[i] ELSE t[i - Len(s)]
  BY <1>1, ConcatProperties
<1> HIDE DEF u
<1>3. \A k \in 1..Len(s) : k \in 1..Len(u) /\ u[k] = s[k]
  BY <1>1, <1>2
<1>4. \A k \in 1..Len(u) : k \in 1..Len(s) \/ (k > Len(s) /\ k - Len(s) \in 1..Len(t) /\ u[k] = t[k - Len(s)])
  <2> SUFFICES ASSUME NEW k \in 1..Len(u), k \notin 1..Len(s)
               PROVE  k > Len(s) /\ k - Len(s) \in 1..Len(t) /\ u[k] = t[k - Len(s)]
    OBVIOUS
  <2>1. k > Len(s) /\ k - Len(s) \in 1..Len(t) /\ k \in 1..Len(s) + Len(t) /\ ~(k <= Len(s))
    BY <1>1, <1>2
  <2> QED  BY <2>1, <1>2
<1>5. NoTurns(u)
  BY <1>3, <1>4 DEF NoTurns, Orderly
<1>6. FiresAfterPurge(u)
  <2> SUFFICES ASSUME NEW j \in 2..Len(u), u[j].op = "fire" PROVE u[j - 1] = Do("purge", u[j].of)
    BY DEF FiresAfterPurge
  <2>1. j \in 1..Len(u) /\ j - 1 \in 1..Len(u)
    BY <1>1, <1>2
  <2>2. CASE j \in 1..Len(s)
    <3>1. j \in 2..Len(s) /\ j - 1 \in 1..Len(s)
      BY <2>2
    <3> QED  BY <3>1, <2>2, <1>3 DEF Orderly, FiresAfterPurge
  <2>3. CASE j \notin 1..Len(s)
    <3> DEFINE i == j - Len(s)
    <3>1. i \in 1..Len(t) /\ u[j] = t[i]
      BY <2>1, <2>3, <1>4
    <3>2. i # 1
      <4>1. t # <<>>
        BY <3>1, <1>1
      <4>2. i = 1 => u[j] = t[1]
        BY <3>1
      <4> HIDE DEF i
      <4> QED  BY <4>1, <4>2 DEF FiresFirst
    <3>3. i \in 2..Len(t) /\ j - 1 \notin 1..Len(s) /\ (j - 1) - Len(s) = i - 1
      BY <3>1, <3>2, <2>1, <2>3, <1>1
    <3>4. u[j - 1] = t[i - 1]
      BY <3>3, <2>1, <1>4
    <3> HIDE DEF i
    <3> QED  BY <3>1, <3>3, <3>4 DEF Orderly, FiresAfterPurge
  <2> QED  BY <2>2, <2>3
<1>7. FiresFirst(u) => FiresFirst(s) /\ u[1] = s[1]
  <2>1. CASE Len(s) = 0
    <3>1. s = <<>>
      BY <2>1, <1>1, EmptySeq
    <3>2. u = t
      BY <3>1, <1>1 DEF u
    <3> QED  BY <3>2
  <2>2. CASE Len(s) > 0
    <3>1. 1 \in 1..Len(s) /\ s # <<>>
      BY <2>2, <1>1
    <3> QED  BY <3>1, <1>3 DEF FiresFirst
  <2> QED  BY <2>1, <2>2, <1>1
<1>8. FiresFirst(u) => Has(u, Do("purge", u[1].of))
  <2> SUFFICES ASSUME FiresFirst(u) PROVE Has(u, Do("purge", u[1].of))
    OBVIOUS
  <2>1. Has(s, Do("purge", u[1].of))
    BY <1>7 DEF Orderly
  <2> QED  BY <2>1, <1>3 DEF Has
<1>9. PurgesNext(u)
  <2> SUFFICES ASSUME NEW j \in 1..Len(u), u[j].op = "turns"
               PROVE  j + 1 \in 1..Len(u) /\ u[j + 1] = Do("purge", u[j].of)
    BY DEF PurgesNext
  <2>1. CASE j \in 1..Len(s)
    <3>1. j + 1 \in 1..Len(s) /\ s[j + 1] = Do("purge", s[j].of)
      BY <2>1, <1>3 DEF Orderly, PurgesNext
    <3> QED  BY <3>1, <2>1, <1>3
  <2>2. CASE j \notin 1..Len(s)
    <3> DEFINE i == j - Len(s)
    <3>1. i \in 1..Len(t) /\ u[j] = t[i]
      BY <2>2, <1>4
    <3>2. t[i].op = "turns" => i + 1 \in 1..Len(t) /\ t[i + 1] = Do("purge", t[i].of)
      BY <3>1 DEF Orderly, PurgesNext
    <3>3. i + 1 \in 1..Len(t) => j + 1 \in 1..Len(u) /\ j + 1 \notin 1..Len(s) /\ (j + 1) - Len(s) = i + 1
      BY <2>2, <1>1, <1>2
    <3> HIDE DEF i
    <3>4. i + 1 \in 1..Len(t) => u[j + 1] = t[i + 1]
      BY <3>3, <1>4
    <3> QED  BY <3>1, <3>2, <3>3, <3>4
  <2> QED  BY <2>1, <2>2
<1> QED  BY <1>2, <1>5, <1>6, <1>7, <1>8, <1>9 DEF Orderly, u

LEMMA OneReturn ==
  ASSUME NEW op \in Returns
  PROVE  Orderly(<<Return(op)>>) /\ ~FiresFirst(<<Return(op)>>)
<1> DEFINE r == Return(op)
<1>1. r \in OwnStep /\ r.op = op
  BY ReturnStep
<1> HIDE DEF r
<1>2. <<r>> \in Seq(OwnStep) /\ Len(<<r>>) = 1 /\ <<r>>[1] = r
  BY <1>1
<1> QED  BY <1>1, <1>2 DEF Orderly, NoTurns, PurgesNext, FiresAfterPurge, FiresFirst, Returns, r

\* Steps and a return.
LEMMA OrderlyReturn ==
  ASSUME NEW s, Orderly(s), NEW op \in Returns
  PROVE  Orderly(Append(s, Return(op))) /\ (FiresFirst(Append(s, Return(op))) => FiresFirst(s))
<1> DEFINE r == Return(op)
<1>1. s \in Seq(OwnStep) /\ r \in OwnStep
  BY ReturnStep DEF Orderly
<1>2. Orderly(<<r>>) /\ ~FiresFirst(<<r>>)
  BY OneReturn
<1> HIDE DEF r
<1>3. Append(s, r) = s \o <<r>>
  BY <1>1, AppendIsConcat
<1> QED  BY <1>2, <1>3, OrderlyTogether DEF r

LEMMA KillOrderly ==
  ASSUME NEW o \in Objects
  PROVE  Orderly(KillSteps(o)) /\ ~FiresFirst(KillSteps(o))
<1> DEFINE a == Do("turns", o)  b == Do("purge", o)
<1>1. /\ a \in OwnStep /\ b \in OwnStep /\ a.op = "turns" /\ b.op = "purge"
      /\ a.of = o /\ b = Do("purge", o)
  BY ObjectStep DEF ObjectSteps
<1> HIDE DEF a, b
<1>2. <<a, b>> \in Seq(OwnStep) /\ Len(<<a, b>>) = 2 /\ <<a, b>>[1] = a /\ <<a, b>>[2] = b
  BY <1>1
<1>3. (\A k \in 1..2 : k = 1 \/ k = 2) /\ 1 + 1 = 2 /\ 2 \in 1..2
  OBVIOUS
<1>4. Orderly(<<a, b>>) /\ ~FiresFirst(<<a, b>>)
  BY <1>1, <1>2, <1>3 DEF Orderly, NoTurns, PurgesNext, FiresAfterPurge, FiresFirst
<1> QED  BY <1>4 DEF KillSteps, a, b

LEMMA WakeOrderly ==
  ASSUME Parts, NEW c \in Creatures
  PROVE  Orderly(WakeSteps(c))
<1> DEFINE i == sleeping[c]  f == Do("fire", i)  a == Do("turns", i)  b == Do("purge", i)
<1>1. i \in Indicators \cup {Nobody}
  BY DEF Parts
<1>2. CASE i = Nobody
  BY <1>2 DEF WakeSteps, Orderly, NoTurns, PurgesNext, FiresAfterPurge, FiresFirst
<1>3. CASE i # Nobody
  <2>1. i \in Objects
    BY <1>1, <1>3, OwnersAssumption
  <2>2. /\ a \in OwnStep /\ b \in OwnStep /\ f \in OwnStep
        /\ a.op = "turns" /\ b.op = "purge" /\ f.op = "fire" /\ f.of = i /\ a.of = i
    BY <2>1, ObjectStep DEF ObjectSteps
  <2>3. WakeSteps(c) = <<f, a, b>> /\ b = Do("purge", i)
    BY <1>3 DEF WakeSteps
  <2> HIDE DEF a, b, f
  <2>4. /\ <<f, a, b>> \in Seq(OwnStep) /\ Len(<<f, a, b>>) = 3
        /\ <<f, a, b>>[1] = f /\ <<f, a, b>>[2] = a /\ <<f, a, b>>[3] = b
    BY <2>2
  <2>5. (\A k \in 1..3 : k = 1 \/ k = 2 \/ k = 3) /\ 2 + 1 = 3 /\ 3 \in 1..3
    OBVIOUS
  <2> HIDE DEF i
  <2>6. NoTurns(<<f, a, b>>) /\ PurgesNext(<<f, a, b>>) /\ FiresAfterPurge(<<f, a, b>>)
    BY <2>2, <2>3, <2>4, <2>5 DEF NoTurns, PurgesNext, FiresAfterPurge
  <2>7. Has(<<f, a, b>>, Do("purge", <<f, a, b>>[1].of))
    <3>1. 3 \in 1..3
      OBVIOUS
    <3> QED  BY <3>1, <2>2, <2>3, <2>4 DEF Has
  <2> QED  BY <2>3, <2>4, <2>6, <2>7 DEF Orderly
<1> QED  BY <1>2, <1>3

LEMMA DeathOrderly ==
  ASSUME Parts, NEW c \in Creatures
  PROVE  Orderly(DeathSteps(c))
<1> DEFINE a == Do("turns", c)  b == Do("purge", c)  f == Do("fire", c)  d == Do("dies", c)
<1>1. /\ a \in OwnStep /\ b \in OwnStep /\ f \in OwnStep /\ d \in OwnStep
      /\ a.op = "turns" /\ b.op = "purge" /\ f.op = "fire" /\ d.op = "dies" /\ f.of = c
      /\ a.of = c
  BY ObjectStep, OwnersAssumption DEF ObjectSteps
<1>2. b = Do("purge", c)
  OBVIOUS
<1>3. DeathSteps(c) = WakeSteps(c) \o <<a, b, f, d>>
  BY DEF DeathSteps
<1> HIDE DEF a, b, f, d
<1>4. /\ <<a, b, f, d>> \in Seq(OwnStep) /\ Len(<<a, b, f, d>>) = 4
      /\ <<a, b, f, d>>[1] = a /\ <<a, b, f, d>>[2] = b /\ <<a, b, f, d>>[3] = f
      /\ <<a, b, f, d>>[4] = d
  BY <1>1
<1>5. \A k \in 1..4 : k = 1 \/ k = 2 \/ k = 3 \/ k = 4
  OBVIOUS
<1>6. 3 - 1 = 2 /\ 1 + 1 = 2 /\ 2 \in 1..4
  OBVIOUS
<1>7. /\ NoTurns(<<a, b, f, d>>) /\ PurgesNext(<<a, b, f, d>>)
      /\ FiresAfterPurge(<<a, b, f, d>>) /\ ~FiresFirst(<<a, b, f, d>>)
  BY <1>1, <1>2, <1>4, <1>5, <1>6 DEF NoTurns, PurgesNext, FiresAfterPurge, FiresFirst
<1>8. Orderly(<<a, b, f, d>>)
  BY <1>4, <1>7 DEF Orderly
<1> QED  BY <1>3, <1>7, <1>8, WakeOrderly, OrderlyTogether

LEMMA NoTurnsFirst ==
  ASSUME NEW t, NoTurns(t)
  PROVE  TurnsFirst(t) /\ \A m : ~Has(t, Do("turn", m))
<1>1. \A m : Do("turn", m).op = "turn"
  BY DEF Do
<1> QED  BY <1>1 DEF NoTurns, TurnsFirst, Has

\* A command with steps begins.
LEMMA CommandsHolds ==
  ASSUME MacroInv, EventInv, NEW steps \in Seq(OwnStep), Commands(steps),
         NoTurns(steps), PurgesNext(steps), FiresAfterPurge(steps),
         FiresFirst(steps) => \A o \in Objects \ Selectable : steps[1].of = o =>
           \/ Clearing(o) \/ Has(steps, Do("purge", o))
           \/ o \notin deferred /\ \A i \in 1..Len(running) : macro[running[i]].owner # o
  PROVE  EventInv'
<1>1. Frames /\ InOrder /\ TurnsSettle /\ HeldBack /\ Listed
  BY DEF MacroInv, EventInv
<1>2. Top.todo = <<>> /\ GoesOn(steps) /\ UNCHANGED <<running, macro, deferred>>
  BY DEF Commands, InInterpreter, listVars, heapVars
<1>3. GoesWith(steps)
  BY <1>2 DEF GoesWith
<1>4. /\ \A s : Awaits(s)' => Has(steps, s) \/ Awaits(s)
      /\ \A s : Has(steps, s) => Awaits(s)'
      /\ \A s : Awaits(s) => Has(Top.todo, s) \/ Awaits(s)'
  BY <1>1, <1>3, TopAwaits
<1>5. \A s : ~Has(Top.todo, s)
  BY <1>2 DEF Has
<1>6. TurnsFirst(steps) /\ \A m : ~Has(steps, Do("turn", m))
  BY NoTurnsFirst
<1>7. \A o : Clearing(o) \/ Has(steps, Do("purge", o)) => Clearing(o)'
  BY <1>4, <1>5 DEF Clearing
<1>8. InOrder'
  <2>1. ~\E m \in Macros : StepDoneThen(m, steps)
    BY <1>1, <1>2, NotPushed
  <2> QED  BY <2>1, <1>1, <1>3, <1>6, TopInOrder
<1>9. EventNext'
  BY <1>1, <1>2, <1>3, <1>7, TopEvent
<1>10. TurnsSettle' /\ HeldBack'
  BY <1>1, <1>2, <1>4, <1>6, <1>7, StaysHeld
<1> QED  BY <1>8, <1>9, <1>10 DEF EventInv

LEMMA OrderlyCommand ==
  ASSUME MacroInv, EventInv, NEW steps, Commands(steps), Orderly(steps)
  PROVE  EventInv'
BY CommandsHolds DEF Orderly

LEMMA KillHolds ==
  ASSUME MacroInv, EventInv, NEW o \in Objects, Kill(o)
  PROVE  EventInv'
<1> DEFINE op == IF o = macro[Top.macro].owner THEN "destroyed" ELSE "changed"
           steps == Append(KillSteps(o), Return(op))
<1>1. Commands(steps)
  <2>1. Return(op) = Return(IF o = macro[Top.macro].owner THEN "destroyed" ELSE "changed")
    OBVIOUS
  <2> QED  BY DEF Kill
<1>2. op \in Returns
  BY DEF Returns
<1> HIDE DEF op
<1>3. Orderly(steps)
  BY <1>2, KillOrderly, OrderlyReturn
<1> HIDE DEF steps
<1> QED  BY <1>1, <1>3, OrderlyCommand

LEMMA CdieHolds ==
  ASSUME MacroInv, EventInv, NEW c \in Creatures, Cdie(c) \/ WakesUp(c)
  PROVE  EventInv'
<1>1. Parts /\ "complete" \in Returns
  BY DEF MacroInv, Returns
<1>2. \/ Commands(Append(DeathSteps(c), Return("complete")))
      \/ Commands(Append(WakeSteps(c), Return("complete")))
  BY DEF Cdie, WakesUp
<1>3. /\ Orderly(Append(DeathSteps(c), Return("complete")))
      /\ Orderly(Append(WakeSteps(c), Return("complete")))
  BY <1>1, DeathOrderly, WakeOrderly, OrderlyReturn
<1> QED  BY <1>2, <1>3, OrderlyCommand

LEMMA FallsAsleepHolds ==
  ASSUME MacroInv, EventInv, NEW c \in Creatures, NEW i \in Indicators, FallsAsleep(c, i)
  PROVE  EventInv'
<1> DEFINE f == Do("fire", i)  r == Return("complete")
<1>1. Commands(<<f, r>>) /\ Unnamed(i)
  BY DEF FallsAsleep
<1>2. f \in OwnStep /\ r \in OwnStep /\ f.op = "fire" /\ f.of = i /\ r.op = "complete"
  BY ObjectStep, ReturnStep, OwnersAssumption DEF ObjectSteps, Returns
<1>3. \A k \in 1..Len(running) : macro[running[k]].owner # i
  BY <1>1 DEF Unnamed, MacroInv, Listed
<1>4. \A o \in Objects \ Selectable : o = i => Clearing(o) \/ o \notin deferred
  BY <1>3 DEF EventInv, HeldBack, PausedScript
<1> HIDE DEF f, r
<1>5. <<f, r>> \in Seq(OwnStep) /\ Len(<<f, r>>) = 2 /\ <<f, r>>[1] = f /\ <<f, r>>[2] = r
  BY <1>2
<1>6. \A k \in 1..2 : k = 1 \/ k = 2
  OBVIOUS
<1>7. NoTurns(<<f, r>>) /\ PurgesNext(<<f, r>>) /\ FiresAfterPurge(<<f, r>>)
  BY <1>2, <1>5, <1>6 DEF NoTurns, PurgesNext, FiresAfterPurge
<1>8. \A o \in Objects \ Selectable : <<f, r>>[1].of = o =>
        Clearing(o) \/ (o \notin deferred /\ \A k \in 1..Len(running) : macro[running[k]].owner # o)
  BY <1>2, <1>3, <1>4, <1>5
<1> HIDE <1>2
<1> QED  BY <1>1, <1>5, <1>7, <1>8, CommandsHolds

-----------------------------------------------------------------------------
(* Steps of a command *)

\* A step that clears nothing is taken; the stack may grow by it.
LEMMA StepHolds ==
  ASSUME MacroInv, EventInv, NEW op, AtStep(op), op \notin {"purge", "apply"},
         GoesWith(Tail(Top.todo)), deferred' \subseteq deferred,
         \A o \in deferred' \ Selectable, i \in 1..Len(running) :
           macro[running[i]].paused /\ macro[running[i]].owner = o =>
             \/ Clearing(o)'
             \/ /\ \E j \in 1..Len(running') : running'[j] = running[i]
                /\ macro'[running[i]].paused /\ macro'[running[i]].owner = o,
         \A m \in Macros, o \in deferred' \ Selectable :
           Awaits(Do("turn", m)) /\ macro'[m].owner = o => macro[m].owner = o \/ Clearing(o)'
  PROVE  EventInv'
<1>1. Frames /\ Bottom /\ InOrder /\ TurnsSettle /\ HeldBack
  BY DEF MacroInv, EventInv
<1>2. /\ InOrder' /\ EventNext'
      /\ \A s : Awaits(s)' => Awaits(s)
      /\ \A s : Awaits(s) => s.op = op \/ Awaits(s)'
  BY <1>1, TakesStep
<1>3. \A o : Clearing(o) => Clearing(o)'
  BY <1>2, StillClearing
<1>4. TurnsSettle' /\ HeldBack'
  BY <1>1, <1>2, <1>3, StaysHeld
<1> QED  BY <1>2, <1>4 DEF EventInv

LEMMA StillStepHolds ==
  ASSUME MacroInv, EventInv, NEW op, AtStep(op), op \notin {"purge", "apply"}, StepDone,
         UNCHANGED <<running, deferred>>,
         \A m \in Macros : macro'[m].owner = macro[m].owner /\ macro'[m].paused = macro[m].paused
  PROVE  EventInv'
<1>1. GoesWith(Tail(Top.todo))
  BY DEF GoesWith, StepDone
<1>2. \A i \in 1..Len(running) : running[i] \in Macros
  BY DEF MacroInv, Listed
<1> QED  BY <1>1, <1>2, StepHolds

LEMMA ReturnedHolds ==
  ASSUME MacroInv, EventInv, Returned \/ ReturnedDestroyed
  PROVE  EventInv'
<1> DEFINE m == Top.macro
<1>1. Parts /\ Owned /\ Listed /\ Frames /\ Bottom
  BY DEF MacroInv
<1>2. PICK op \in {"changed", "complete", "destroyed"} : AtStep(op)
  BY DEF Returned, ReturnedDestroyed
<1>3. Top.todo \in Seq(OwnStep) /\ Top.todo # <<>> /\ Top.todo[1].op = op
      /\ (op \in Returns => Len(stack) > 1 \/ op = "advance")
  BY <1>1, <1>2, FirstStep
<1>4. op \in Returns /\ Len(stack) > 1
  BY <1>3 DEF Returns
<1>5. InCommand(Top.todo)
  BY <1>1, <1>4, StackFacts
<1>6. \A j \in 1..Len(Top.todo) : Top.todo[j].op \in Returns
  <2>1. 1 \in 1..Len(Top.todo)
    BY <1>3
  <2>2. Len(Top.todo) = 1
    BY <2>1, <1>3, <1>4, <1>5 DEF InCommand
  <2> QED  BY <2>2, <1>3, <1>4
<1>7. UNCHANGED <<running, deferred>>
  BY DEF Returned, ReturnedDestroyed, listVars
<1>8. CASE Popped /\ UNCHANGED macro
  BY <1>4, <1>6, <1>7, <1>8, LeavesHeld
<1>9. CASE Popped /\ Freed({m}) /\ macro[m].purged
  <2>1. \A k \in Macros : macro'[k] = IF k \in {m} THEN Unused ELSE macro[k]
    BY <1>9 DEF Freed
  <2>2. \A i \in 1..Len(running) : running[i] \in Macros
    BY <1>1 DEF Listed
  <2> HIDE DEF m
  <2>3. \A k \in Macros : macro'[k].owner \in {macro[k].owner, Nobody}
    BY <2>1, UnusedFields
  <2>4. \A i \in 1..Len(running) : running[i] # m => macro'[running[i]] = macro[running[i]]
    BY <2>1, <2>2
  <2> QED  BY <1>4, <1>6, <1>7, <1>9, <2>3, <2>4, LeavesHeld DEF m
<1>10. CASE StepDone /\ UNCHANGED macro
  BY <1>2, <1>7, <1>10, StillStepHolds
<1> QED  BY <1>8, <1>9, <1>10 DEF Returned, ReturnedDestroyed, heapVars

LEMMA QuietStepHolds ==
  ASSUME MacroInv, EventInv, Dies \/ FiresNothing \/ Advances
  PROVE  EventInv'
<1>1. PICK op \in {"dies", "fire", "restart", "advance"} : AtStep(op)
  BY DEF Dies, FiresNothing, Firing, Advances
<1>2. StepDone /\ UNCHANGED <<running, deferred, macro>>
  BY DEF Dies, FiresNothing, Advances, listVars, heapVars
<1> QED  BY <1>1, <1>2, StillStepHolds

LEMMA CallStepHolds ==
  ASSUME MacroInv, EventInv, HandsOver \/ Uncaptures
  PROVE  EventInv'
<1> DEFINE m == Subject
<1>1. PICK op \in {"hand_over", "uncapture"} : AtStep(op)
  BY DEF HandsOver, Uncaptures
<1>2. StepDone /\ UNCHANGED <<running, deferred>>
  BY DEF HandsOver, Uncaptures, listVars
<1>3. macro \in [Macros -> Fields]
  BY DEF MacroInv, Owned
<1>4. \/ macro' = macro
      \/ macro' = [macro EXCEPT ![m].capture = FALSE]
      \/ macro' = [macro EXCEPT ![m].held = FALSE, ![m].destroy_when_finished = TRUE]
  BY DEF HandsOver, Uncaptures
<1> HIDE DEF m
<1>5. \A k \in Macros : macro'[k].owner = macro[k].owner /\ macro'[k].paused = macro[k].paused
  BY <1>3, <1>4 DEF Fields
<1> QED  BY <1>1, <1>2, <1>5, StillStepHolds

LEMMA TurnBeforePurgeHolds ==
  ASSUME MacroInv, EventInv, TurnBeforePurge
  PROVE  EventInv'
<1> DEFINE m == Subject  f == [macro[m] EXCEPT !.paused = FALSE]
<1>1. Owned /\ Listed /\ Frames /\ Bottom /\ InOrder /\ TurnsSettle
  BY DEF MacroInv, EventInv
<1>2. AtStep("turn") /\ UNCHANGED <<running, deferred>>
  BY DEF TurnBeforePurge, listVars
<1>3. CASE m \in ToSet(running) /\ macro[m].paused
  <2>1. m \in Macros /\ macro \in [Macros -> Fields]
    BY <1>1, <1>3, ListIs DEF Owned
  <2>2. macro' = [macro EXCEPT ![m] = f] /\ StepDoneThen(m, Tail(Top.todo))
    BY <1>3 DEF TurnBeforePurge
  <2>3. GoesWith(Tail(Top.todo))
    BY <2>1, <2>2 DEF GoesWith
  <2>4. f.owner = macro[m].owner
    BY <2>1 DEF Fields
  <2>5. Awaits(Do("turn", m))
    <3>1. /\ Top.todo # <<>> /\ Top.todo[1] \in OwnStep /\ Top.todo[1].op = "turn"
          /\ m = Top.todo[1].of /\ Top.todo \in Seq(OwnStep)
      BY <1>1, <1>2, FirstStep
    <3>2. Top.todo[1] = Do("turn", m)
      BY <3>1 DEF OwnStep, Do
    <3>3. 1 \in 1..Len(Top.todo) /\ Top = stack[Len(stack)] /\ Len(stack) \in 1..Len(stack)
      BY <3>1, <1>1, StackFacts
    <3> QED  BY <3>2, <3>3 DEF Awaits, Has
  <2> HIDE DEF m, f
  <2>6. \A k \in Macros : k # m => macro'[k] = macro[k]
    BY <2>1, <2>2
  <2>7. \A k \in Macros : macro'[k].owner = macro[k].owner
    BY <2>1, <2>2, <2>4, <2>6
  <2>8. \A o : Clearing(o) => Clearing(o)'
    <3>1. \A s : Awaits(s) => s.op = "turn" \/ Awaits(s)'
      BY <1>1, <1>2, <2>3, TakesStep
    <3> QED  BY <3>1, StillClearing
  <2>9. \A o \in deferred' \ Selectable : macro[m].owner = o => Clearing(o)'
    BY <1>1, <1>2, <2>1, <2>5, <2>8 DEF TurnsSettle
  <2>10. \A i \in 1..Len(running) : running[i] \in Macros
    BY <1>1 DEF Listed
  <2> QED  BY <1>2, <2>3, <2>6, <2>7, <2>9, <2>10, StepHolds
<1>4. CASE ~(m \in ToSet(running) /\ macro[m].paused)
  <2>1. StepDone /\ UNCHANGED macro
    BY <1>4 DEF TurnBeforePurge
  <2> QED  BY <2>1, <1>2, StillStepHolds
<1> QED  BY <1>3, <1>4

\* A macro is started: it was not paused, or its owner is one a kit may select.
LEMMA StartedHolds ==
  ASSUME MacroInv, EventInv, NEW op \in {"fire", "restart", "start"}, AtStep(op),
         NEW m \in Macros, NEW fields \in Fields, Started(m, fields, Tail(Top.todo)),
         UNCHANGED deferred,
         m \in ToSet(running) => ~macro[m].paused \/ macro[m].owner \in Selectable,
         fields.owner = macro[m].owner
           \/ \A o \in deferred \ Selectable :
                fields.owner = o => Clearing(o) \/ ~Awaits(Do("turn", m))
  PROVE  EventInv'
<1>1. Owned /\ Listed /\ Frames /\ Bottom /\ InOrder
  BY DEF MacroInv, EventInv
<1>2. GoesWith(Tail(Top.todo))
  BY DEF GoesWith, Started, StepDone
<1>3. \A o : Clearing(o) => Clearing(o)'
  <2>1. op # "purge"
    OBVIOUS
  <2>2. \A s : Awaits(s) => s.op = op \/ Awaits(s)'
    BY <1>1, <1>2, <2>1, TakesStep
  <2> QED  BY <2>2, StillClearing
<1>4. macro \in [Macros -> Fields] /\ \A i \in 1..Len(running) : running[i] \in Macros
  BY <1>1 DEF Owned, Listed
<1>5. /\ Len(running) <= Len(running')
      /\ \A i \in 1..Len(running) : running'[i] = running[i]
  BY <1>1, StartedList
<1> DEFINE f == [fields EXCEPT !.paused = FALSE, !.capture = FALSE]
<1>6. macro' = [macro EXCEPT ![m] = f]
  BY DEF Started
<1>7. f.owner = fields.owner
  BY DEF Fields
<1> HIDE DEF f
<1>8. \A k \in Macros : macro'[k] = IF k = m THEN f ELSE macro[k]
  BY <1>4, <1>6
<1>9. \A i \in 1..Len(running) : running[i] = m => ~macro[m].paused \/ macro[m].owner \in Selectable
  BY <1>1, ListIs
<1>10. \A i \in 1..Len(running) :
         \/ macro'[running[i]].paused = macro[running[i]].paused
              /\ macro'[running[i]].owner = macro[running[i]].owner
         \/ ~macro[running[i]].paused \/ macro[running[i]].owner \in Selectable
  BY <1>4, <1>8, <1>9
<1>11. \A i \in 1..Len(running) :
         macro[running[i]].paused /\ macro[running[i]].owner \notin Selectable =>
           /\ \E j \in 1..Len(running') : running'[j] = running[i]
           /\ macro'[running[i]].paused /\ macro'[running[i]].owner = macro[running[i]].owner
  BY <1>1, <1>5, <1>10, SameList
<1>12. \A k \in Macros, o \in deferred' \ Selectable :
         Awaits(Do("turn", k)) /\ macro'[k].owner = o => macro[k].owner = o \/ Clearing(o)'
  BY <1>3, <1>7, <1>8
<1> QED  BY <1>2, <1>11, <1>12, StepHolds

LEMMA FiresReloadHolds ==
  ASSUME MacroInv, EventInv, FiresReload
  PROVE  EventInv'
<1> DEFINE m == Head(Found)
<1>1. Owned /\ Listed
  BY DEF MacroInv
<1>2. AtStep("fire") /\ Found # <<>> /\ ~macro[m].paused
  BY DEF FiresReload, Reuses, Defers
<1>3. m \in Macros
  BY <1>1, <1>2, FoundIs, ListIs
<1>4. macro[m] \in Fields
  BY <1>1, <1>3 DEF Owned
<1>5. Started(m, macro[m], Tail(Top.todo)) /\ UNCHANGED deferred
  BY DEF FiresReload
<1> HIDE DEF m
<1> QED  BY <1>2, <1>3, <1>4, <1>5, StartedHolds

\* While the UI thread itself is at an event, no turn is still to come.
LEMMA NoTurnAwaited ==
  ASSUME MacroInv, InOrder, Len(stack) = 1, Top.todo # <<>> => Top.todo[1].op # "turn"
  PROVE  NoTurns(Top.todo) /\ \A m : ~Awaits(Do("turn", m))
<1>1. Frames /\ Top = stack[1] /\ Top.todo \in Seq(OwnStep) /\ 1 \in 1..Len(stack)
  BY StackFacts DEF MacroInv
<1>2. TurnsFirst(Top.todo)
  BY <1>1 DEF InOrder
<1>3. NoTurns(Top.todo)
  <2>1. CASE Top.todo = <<>>
    BY <2>1 DEF NoTurns
  <2>2. CASE Top.todo # <<>>
    BY <2>2, <1>1, <1>2, TailHas
  <2> QED  BY <2>1, <2>2
<1>4. \A m : ~Has(Top.todo, Do("turn", m))
  BY <1>3, NoTurnsFirst
<1>5. \A k \in 1..Len(stack) : k = 1
  OBVIOUS
<1> QED  BY <1>1, <1>3, <1>4, <1>5 DEF Awaits

\* Where an event is fired: by the UI thread, or as the first step left of a command.
LEMMA FiringWhere ==
  ASSUME MacroInv, EventInv, Firing
  PROVE  /\ Subject \in Objects
         /\ \/ \A m : ~Awaits(Do("turn", m))
            \/ Subject \in Selectable \/ Clearing(Subject)
            \/ Subject \notin deferred /\ \A i \in 1..Len(running) : macro[running[i]].owner # Subject
<1>1. Frames /\ Bottom /\ InOrder /\ EventNext
  BY DEF MacroInv, EventInv
<1>2. PICK op \in {"fire", "restart"} : AtStep(op) /\ op \in ObjectSteps
  BY FiringStep
<1>3. /\ Top.todo # <<>> /\ Top.todo[1].op = op /\ Subject = Top.todo[1].of /\ Subject \in Objects
      /\ op = "restart" => Len(stack) = 1
  BY <1>1, <1>2, FirstStep
<1>4. CASE Len(stack) = 1
  BY <1>1, <1>3, <1>4, NoTurnAwaited
<1>5. CASE Len(stack) > 1
  <2>1. op = "fire"
    <3>1. Len(stack) # 1
      BY <1>1, <1>5 DEF Frames
    <3> QED  BY <3>1, <1>2, <1>3
  <2>2. FiresFirst(Top.todo)
    BY <2>1, <1>3 DEF FiresFirst
  <2>3. ASSUME NEW o \in Objects \ Selectable, o = Subject
        PROVE  \/ Clearing(o)
               \/ o \notin deferred /\ \A i \in 1..Len(running) : macro[running[i]].owner # o
    BY <2>2, <2>3, <1>1, <1>3, <1>5 DEF EventNext
  <2> QED  BY <2>3, <1>3
<1> QED  BY <1>1, <1>3, <1>4, <1>5, StackDepth

LEMMA FiresNewHolds ==
  ASSUME MacroInv, EventInv, NEW m \in Macros, FiresNew(m)
  PROVE  EventInv'
<1> DEFINE fields == [Unused EXCEPT !.owner = Subject, !.destroy_when_finished = TRUE]
<1>1. Listed
  BY DEF MacroInv
<1>2. PICK op \in {"fire", "restart"} : AtStep(op)
  BY FiringStep DEF FiresNew
<1>3. Firing /\ m \notin heap /\ Started(m, fields, Tail(Top.todo)) /\ UNCHANGED deferred
  BY DEF FiresNew
<1>4. /\ Subject \in Objects
      /\ \/ \A k : ~Awaits(Do("turn", k))
         \/ Subject \in Selectable \/ Clearing(Subject)
         \/ Subject \notin deferred /\ \A i \in 1..Len(running) : macro[running[i]].owner # Subject
  BY <1>3, FiringWhere
<1>5. fields \in Fields /\ fields.owner = Subject
  BY <1>4 DEF Fields, Unused
<1>6. m \notin ToSet(running)
  BY <1>1, <1>3, ListIs
<1> HIDE DEF fields
<1>7. \A o \in deferred \ Selectable : fields.owner = o => Clearing(o) \/ ~Awaits(Do("turn", m))
  BY <1>4, <1>5
<1> QED  BY <1>2, <1>3, <1>5, <1>6, <1>7, StartedHolds

LEMMA StartStepHolds ==
  ASSUME MacroInv, EventInv, StartStep
  PROVE  EventInv'
<1> DEFINE m == Subject
<1>1. Owned /\ Listed /\ Frames /\ Bottom
  BY DEF MacroInv
<1>2. AtStep("start") /\ Started(m, macro[m], Tail(Top.todo)) /\ UNCHANGED deferred
  BY DEF StartStep
<1>3. /\ Top.todo # <<>> /\ Top.todo[1].op = "start" /\ m = Top.todo[1].of
      /\ Top.todo \in Seq(OwnStep) /\ m \in Macros /\ Len(stack) = 1
  <2>1. "start" \in MacroSteps
    BY DEF MacroSteps
  <2> QED  BY <2>1, <1>1, <1>2, FirstStep
<1>4. m \in heap /\ (macro[m].held \/ macro[m].dde)
  <2>1. Top = stack[1] /\ 1 \in 1..Len(Top.todo)
    BY <1>1, <1>3, StackFacts
  <2> QED  BY <2>1, <1>1, <1>3 DEF Bottom
<1>5. macro[m] \in Fields /\ macro[m].owner \in Selectable
  BY <1>1, <1>3, <1>4, HeldIsAllocated DEF Owned
<1> HIDE DEF m
<1> QED  BY <1>2, <1>3, <1>5, StartedHolds

LEMMA FiresDeferredHolds ==
  ASSUME MacroInv, EventInv, FiresDeferred
  PROVE  EventInv'
<1> DEFINE o == Subject
<1>1. Listed /\ Frames /\ Bottom /\ InOrder /\ TurnsSettle /\ HeldBack
  BY DEF MacroInv, EventInv
<1>2. /\ AtStep("fire") /\ Firing /\ Found # <<>> /\ macro[Head(Found)].paused
      /\ deferred' = deferred \cup {o} /\ StepDone /\ UNCHANGED <<running, macro>>
  BY DEF FiresDeferred, Defers, Reuses, listVars, heapVars
<1>3. \E i \in 1..Len(running) : macro[running[i]].owner = o /\ macro[running[i]].paused
  BY <1>1, <1>2, FoundIs, ListIs
<1>4. GoesWith(Tail(Top.todo)) /\ "fire" # "purge"
  BY <1>2 DEF GoesWith, StepDone
<1>5. /\ InOrder' /\ EventNext'
      /\ \A s : Awaits(s)' => Awaits(s)
      /\ \A s : Awaits(s) => s.op = "fire" \/ Awaits(s)'
  BY <1>1, <1>2, <1>4, TakesStep
<1>6. \A x : Clearing(x) => Clearing(x)'
  BY <1>5, StillClearing
<1>7. \/ \A m : ~Awaits(Do("turn", m))
      \/ o \in Selectable \/ Clearing(o)
  BY <1>2, <1>3, FiringWhere
<1> HIDE DEF o
<1>8. HeldBack'
  <2> SUFFICES ASSUME NEW x \in deferred' \ Selectable PROVE PausedScript(x)' \/ Clearing(x)'
    BY DEF HeldBack
  <2>1. PausedScript(x) \/ Clearing(x)
    BY <1>1, <1>2, <1>3 DEF HeldBack, PausedScript
  <2>2. PausedScript(x) => PausedScript(x)'
    BY <1>2 DEF PausedScript
  <2> QED  BY <2>1, <2>2, <1>6
<1>9. TurnsSettle'
  <2> SUFFICES ASSUME NEW m \in Macros, NEW x \in deferred' \ Selectable,
                      Awaits(Do("turn", m))', macro[m].owner = x
               PROVE  Clearing(x)'
    BY <1>2 DEF TurnsSettle
  <2>1. Awaits(Do("turn", m))
    BY <1>5
  <2>2. Clearing(x)
    BY <2>1, <1>1, <1>2, <1>7 DEF TurnsSettle
  <2> QED  BY <2>2, <1>6
<1> QED  BY <1>5, <1>8, <1>9 DEF EventInv

LEMMA PurgesHolds ==
  ASSUME KitsApart, MacroInv, EventInv, Purges
  PROVE  EventInv'
<1> DEFINE doomed == Doomed(Subject)  t == Tail(Top.todo)  x == Subject
<1>1. /\ Parts /\ Owned /\ Listed /\ Frames /\ Bottom /\ Walked
      /\ InOrder /\ TurnsSettle /\ HeldBack
  BY DEF MacroInv, EventInv
<1>2. /\ AtStep("purge") /\ StepDone
      /\ Erased(doomed)
      /\ macro' = [m \in Macros |-> IF m \notin doomed THEN macro[m]
                                    ELSE IF m \in OnStack THEN [macro[m] EXCEPT !.purged = TRUE]
                                    ELSE Unused]
      /\ deferred' = deferred \ {x}
  BY DEF Purges
<1>3. /\ Top.todo \in Seq(OwnStep) /\ Top.todo # <<>> /\ Top.todo[1].op = "purge"
      /\ x = Top.todo[1].of
  BY <1>1, <1>2, FirstStep
<1>4. /\ Top = stack[Len(stack)] /\ Len(stack) \in 1..Len(stack)
      /\ Len(stack) > 1 => Len(stack) \in 2..Len(stack)
  BY <1>1, StackFacts
<1>5. t \in Seq(OwnStep) /\ GoesOn(t) /\ GoesWith(t)
  BY <1>2, <1>3, StepTaken DEF StepDone, GoesWith
<1>6. /\ TurnsFirst(t) /\ PurgesNext(t)
      /\ Len(stack) > 1 => FiresAfterPurge(t)
      /\ Len(stack) > 1 /\ FiresFirst(t) => Top.todo[1] = Do("purge", t[1].of)
      /\ \A s : Has(t, s) => Has(Top.todo, s)
      /\ \A s : Has(Top.todo, s) => s = Top.todo[1] \/ Has(t, s)
  BY <1>1, <1>3, <1>4, TailHas DEF InOrder
<1> HIDE DEF t
<1>7. InOrder'
  BY <1>1, <1>5, <1>6, NotPushed, TopInOrder
<1>8. /\ \A s : Awaits(s)' => Has(t, s) \/ Awaits(s)
      /\ \A s : Has(t, s) => Awaits(s)'
      /\ \A s : Awaits(s) => Has(Top.todo, s) \/ Awaits(s)'
  BY <1>1, <1>5, TopAwaits
<1>9. \A s : Awaits(s)' => Awaits(s)
  BY <1>4, <1>6, <1>8 DEF Awaits
<1>10. \A o : o # x /\ Clearing(o) => Clearing(o)'
  <2>1. \A o : Do("purge", o).of = o /\ Do("apply", o).op = "apply"
    BY DEF Do
  <2> HIDE DEF x
  <2> QED  BY <2>1, <1>3, <1>6, <1>8 DEF Clearing
<1>11. macro \in [Macros -> Fields] /\ \A i \in 1..Len(running) : running[i] \in Macros
  BY <1>1 DEF Owned, Listed
<1>12. \A i \in 1..Len(running) : running[i] \in doomed <=>
         macro[running[i]].owner = x /\ macro[running[i]].destroy_when_finished
  BY <1>1, ListIs DEF Doomed
<1> HIDE DEF doomed, x
<1>13. \A m \in Macros : m \notin doomed => macro'[m] = macro[m]
  BY <1>2
<1>14. \A m \in Macros : macro'[m].owner \in {macro[m].owner, Nobody}
  BY <1>2, <1>11, UnusedFields DEF Fields
<1>15. \A i \in 1..Len(running) :
         running[i] \notin doomed =>
           \E j \in 1..Len(running') : running'[j] = running[i]
  BY <1>1, <1>2, ErasedList DEF Walked
<1>16. Nobody \notin deferred'
  BY <1>1, <1>2, OwnersAssumption DEF Parts
<1>17. TurnsSettle' /\ HeldBack'
  <2>1. \A o \in deferred' \ Selectable : o # x /\ o # Nobody /\ o \in deferred
    BY <1>2, <1>16
  <2>2. \A o \in deferred' \ Selectable, i \in 1..Len(running) :
          macro[running[i]].paused /\ macro[running[i]].owner = o =>
             /\ \E j \in 1..Len(running') : running'[j] = running[i]
             /\ macro'[running[i]].paused /\ macro'[running[i]].owner = o
    BY <2>1, <1>11, <1>12, <1>13, <1>15
  <2>3. \A m \in Macros, o \in deferred' \ Selectable :
           Awaits(Do("turn", m))' /\ macro'[m].owner = o =>
             Awaits(Do("turn", m)) /\ macro[m].owner = o
    BY <2>1, <1>9, <1>14
  <2>4. deferred' \subseteq deferred /\ \A o \in deferred' \ Selectable : Clearing(o) => Clearing(o)'
    BY <2>1, <1>2, <1>10
  <2> QED  BY <2>2, <2>3, <2>4, <1>1, StaysHeld
<1>18. ASSUME x \in Objects \ Selectable, NEW i \in 1..Len(running')
       PROVE  macro'[running'[i]].owner # x
  <2>1. running'[i] \notin doomed /\ \E j \in 1..Len(running) : running[j] = running'[i]
    BY <1>1, <1>2, ErasedList DEF Walked
  <2>2. PICK j \in 1..Len(running) : running[j] = running'[i]
    BY <2>1
  <2>3. SUFFICES ASSUME macro'[running'[i]].owner = x PROVE FALSE
    OBVIOUS
  <2>4. running[j] \in heap /\ running[j] \notin doomed /\ macro[running[j]].owner = x
    BY <2>1, <2>2, <2>3, <1>1, <1>11, <1>13 DEF Listed
  <2>5. ~macro[running[j]].destroy_when_finished
    BY <2>4, <1>12
  <2> QED  BY <2>4, <2>5, <1>1, <1>18, OwnFields DEF Accounted
<1>19. EventNext'
  <2>1. ASSUME Len(stack) > 1, FiresFirst(t), NEW o \in Objects \ Selectable, t[1].of = o
        PROVE  o \notin deferred' /\ \A i \in 1..Len(running') : macro'[running'[i]].owner # o
    <3>1. o = x
      BY <2>1, <1>3, <1>6 DEF Do
    <3> QED  BY <3>1, <1>2, <1>18
  <2> QED  BY <2>1, <1>1, <1>5, TopEvent
<1> QED  BY <1>7, <1>17, <1>19 DEF EventInv

LEMMA TurnsBeginHolds ==
  ASSUME MacroInv, EventInv, TurnsBegin
  PROVE  EventInv'
<1> PICK o : o = Subject
  OBVIOUS
<1> DEFINE t == Tail(Top.todo)
<1>1. Owned /\ Listed /\ Frames /\ Bottom /\ InOrder /\ TurnsSettle /\ HeldBack
  BY DEF MacroInv, EventInv
<1>2. AtStep("turns") /\ UNCHANGED <<running, deferred, macro>>
  BY DEF TurnsBegin, listVars, heapVars
<1>3. /\ Top.todo \in Seq(OwnStep) /\ Top.todo # <<>> /\ Top.todo[1].op = "turns"
      /\ o = Top.todo[1].of
  BY <1>1, <1>2, FirstStep
<1>4. PICK turns \in Seq(Macros) :
        /\ GoesOn([i \in DOMAIN turns |-> Do("turn", turns[i])] \o t)
        /\ \A k \in 1..Len(turns) : macro[turns[k]].owner = o
  <2> DEFINE waits == {m \in Macros : /\ macro[m].owner = Subject /\ macro[m].paused
                                      /\ macro[m].destroy_when_finished}
             waiting == Without(running, Macros \ waits)
  <2>1. GoesOn([i \in DOMAIN waiting |-> Do("turn", waiting[i])] \o t)
    BY DEF TurnsBegin
  <2>2. running \in Seq(Macros)
    BY <1>1 DEF Listed
  <2>3. waiting \in Seq(Macros) /\ waiting \in Seq(Macros \ (Macros \ waits))
    BY <2>2, WithoutIsSeq, Zenon
  <2> HIDE DEF waiting
  <2>4. \A k \in 1..Len(waiting) : waiting[k] \in Macros \ (Macros \ waits)
    BY <2>3
  <2>5. \A k \in 1..Len(waiting) : macro[waiting[k]].owner = o
    BY <2>4
  <2> QED  BY <2>1, <2>3, <2>5
<1> DEFINE all == [i \in DOMAIN turns |-> Do("turn", turns[i])] \o t
           n == Len(turns)
<1>5. t \in Seq(OwnStep) /\ Len(t) \in Nat /\ n \in Nat
  BY <1>3, StepTaken
<1>6. /\ all \in Seq(OwnStep) /\ Len(all) = n + Len(t)
      /\ \A k \in 1..n : all[k] = Do("turn", turns[k])
      /\ \A k \in 1..Len(t) : all[n + k] = t[k]
  BY <1>5, TurnsInFront
<1>7. /\ Top = stack[Len(stack)] /\ Len(stack) \in 1..Len(stack)
      /\ Len(stack) > 1 => Len(stack) \in 2..Len(stack)
  BY <1>1, StackFacts
<1>8. /\ NoTurns(t) /\ PurgesNext(t)
      /\ Len(stack) > 1 => FiresAfterPurge(t)
      /\ \A s : Has(t, s) => Has(Top.todo, s)
      /\ \A s : Has(Top.todo, s) => s = Top.todo[1] \/ Has(t, s)
  BY <1>1, <1>3, <1>7, TailHas DEF InOrder
<1>9. 1 \in 1..Len(t) /\ t[1] = Do("purge", o)
  <2>1. PurgesNext(Top.todo) /\ 1 \in 1..Len(Top.todo)
    BY <1>1, <1>3, <1>7 DEF InOrder
  <2>2. 2 \in 1..Len(Top.todo) /\ Top.todo[2] = Do("purge", o)
    BY <2>1, <1>3 DEF PurgesNext
  <2>3. Len(t) = Len(Top.todo) - 1 /\ \A k \in 1..Len(Top.todo) - 1 : t[k] = Top.todo[k + 1]
    BY <1>3, StepTaken
  <2> HIDE DEF t
  <2> QED  BY <2>2, <2>3
<1>10. GoesOn(all)
  BY <1>4
<1> HIDE DEF all, t
<1>11. \A k \in 1..n : all[k].op = "turn" /\ k \in 1..Len(all)
  <2>1. \A m : Do("turn", m).op = "turn"
    BY DEF Do
  <2> QED  BY <2>1, <1>5, <1>6
<1>12. ASSUME NEW k \in 1..Len(all), k \notin 1..n
       PROVE  k - n \in 1..Len(t) /\ all[k] = t[k - n] /\ all[k].op # "turn"
  <2>1. k - n \in 1..Len(t) /\ n + (k - n) = k
    BY <1>5, <1>6, <1>12
  <2> QED  BY <2>1, <1>6, <1>8 DEF NoTurns
<1>13. TurnsFirst(all)
  <2> SUFFICES ASSUME NEW j \in 1..Len(all), all[j].op = "turn", NEW i \in 1..j PROVE all[i].op = "turn"
    BY DEF TurnsFirst
  <2>1. j \in 1..n
    BY <1>12
  <2>2. i \in 1..n
    BY <2>1
  <2> QED  BY <2>2, <1>11
<1>14. PurgesNext(all)
  <2> SUFFICES ASSUME NEW j \in 1..Len(all), all[j].op = "turns"
               PROVE  j + 1 \in 1..Len(all) /\ all[j + 1] = Do("purge", all[j].of)
    BY DEF PurgesNext
  <2>1. j \notin 1..n
    BY <1>11
  <2>2. j - n \in 1..Len(t) /\ all[j] = t[j - n]
    BY <2>1, <1>12
  <2>3. (j - n) + 1 \in 1..Len(t) /\ t[(j - n) + 1] = Do("purge", t[j - n].of)
    BY <2>2, <1>8 DEF PurgesNext
  <2>4. n + ((j - n) + 1) = j + 1 /\ j + 1 \in 1..Len(all)
    BY <2>3, <1>5, <1>6
  <2> QED  BY <2>2, <2>3, <2>4, <1>6
<1>15. ASSUME Len(stack) > 1 PROVE FiresAfterPurge(all) /\ ~FiresFirst(all)
  <2>1. FiresAfterPurge(all)
    <3> SUFFICES ASSUME NEW j \in 2..Len(all), all[j].op = "fire" PROVE all[j - 1] = Do("purge", all[j].of)
      BY DEF FiresAfterPurge
    <3>1. j \in 1..Len(all) /\ j \notin 1..n
      BY <1>11
    <3>2. j - n \in 1..Len(t) /\ all[j] = t[j - n]
      BY <3>1, <1>12
    <3>3. j - n # 1
      BY <3>2, <1>9 DEF Do
    <3>4. j - n \in 2..Len(t) /\ (j - n) - 1 \in 1..Len(t) /\ n + ((j - n) - 1) = j - 1
      BY <3>2, <3>3, <1>5
    <3>5. t[(j - n) - 1] = Do("purge", t[j - n].of)
      BY <3>2, <3>4, <1>8, <1>15 DEF FiresAfterPurge
    <3> QED  BY <3>2, <3>4, <3>5, <1>6
  <2>2. all[1].op # "fire"
    <3>1. CASE 1 \in 1..n
      BY <3>1, <1>11
    <3>2. CASE 1 \notin 1..n
      <4>1. n = 0 /\ n + 1 = 1
        BY <3>2, <1>5
      <4> QED  BY <4>1, <1>6, <1>9 DEF Do
    <3> QED  BY <3>1, <3>2
  <2> QED  BY <2>1, <2>2 DEF FiresFirst
<1>16. GoesWith(all)
  BY <1>10 DEF GoesWith
<1>17. InOrder' /\ EventNext'
  BY <1>1, <1>6, <1>13, <1>14, <1>15, <1>16, TopInOrder, TopEvent
<1>18. /\ \A s : Awaits(s)' => Has(all, s) \/ Awaits(s)
       /\ \A s : Has(all, s) => Awaits(s)'
       /\ \A s : Awaits(s) => Has(Top.todo, s) \/ Awaits(s)'
  BY <1>1, <1>6, <1>16, TopAwaits
<1>19. \A s : Has(t, s) => Has(all, s)
  <2>1. \A k \in 1..Len(t) : n + k \in 1..Len(all)
    BY <1>5, <1>6
  <2> QED  BY <2>1, <1>6 DEF Has
<1>20. \A x : Clearing(x) => Clearing(x)'
  <2>1. \A x : Do("purge", x).op = "purge" /\ Do("apply", x).op = "apply"
    BY DEF Do
  <2> QED  BY <2>1, <1>3, <1>8, <1>18, <1>19 DEF Clearing
<1>21. Clearing(o)'
  <2>1. Has(t, Do("purge", o))
    BY <1>9 DEF Has
  <2> QED  BY <2>1, <1>18, <1>19 DEF Clearing
<1>22. ASSUME NEW m \in Macros, Awaits(Do("turn", m))'
       PROVE  Awaits(Do("turn", m)) \/ macro[m].owner = o
  <2>1. SUFFICES ASSUME Has(all, Do("turn", m)) PROVE macro[m].owner = o
    BY <1>18, <1>22
  <2>2. PICK k \in 1..Len(all) : all[k] = Do("turn", m)
    BY <2>1 DEF Has
  <2>3. k \in 1..n
    BY <2>2, <1>12 DEF Do
  <2>4. Do("turn", turns[k]) = Do("turn", m)
    BY <2>2, <2>3, <1>6
  <2>5. turns[k] = m
    BY <2>4 DEF Do
  <2> QED  BY <2>3, <2>5, <1>4
<1>23. TurnsSettle' /\ HeldBack'
  BY <1>1, <1>2, <1>20, <1>21, <1>22, StaysHeld
<1> QED  BY <1>17, <1>23 DEF EventInv

LEMMA ReleaseStepHolds ==
  ASSUME MacroInv, EventInv, ReleaseStep
  PROVE  EventInv'
<1> DEFINE m == Subject
           gone == IF ~macro[m].capture \/ macro[m].destroy_when_finished THEN {m} ELSE {}
<1>1. Parts /\ Owned /\ Listed /\ Frames /\ Bottom
  BY DEF MacroInv
<1>2. AtStep("release") /\ StepDone /\ UNCHANGED deferred
  BY DEF ReleaseStep
<1>3. m \in Macros
  <2>1. "release" \in MacroSteps
    BY DEF MacroSteps
  <2> QED  BY <2>1, <1>1, <1>2, FirstStep
<1>4. CASE macro[m].held
  <2>1. Erased({m}) /\ Freed(gone) /\ gone \subseteq {m}
    BY <1>4 DEF ReleaseStep, RemovedAndReleased
  <2>2. macro[m].owner \in Selectable
    BY <1>1, <1>3, <1>4, HeldIsAllocated
  <2> HIDE DEF gone, m
  <2>3. /\ \A k \in Macros : macro'[k].owner \in {macro[k].owner, Nobody}
        /\ \A i \in 1..Len(running) :
             running[i] \notin {m} =>
               /\ \E j \in 1..Len(running') : running'[j] = running[i]
               /\ macro'[running[i]] = macro[running[i]]
    BY <2>1, ErasedFreed
  <2>4. Nobody \notin deferred'
    BY <1>1, <1>2, OwnersAssumption DEF Parts
  <2>5. GoesWith(Tail(Top.todo))
    BY <1>2 DEF GoesWith, StepDone
  <2> QED  BY <1>2, <2>2, <2>3, <2>4, <2>5, StepHolds
<1>5. CASE ~macro[m].held
  <2>1. UNCHANGED <<running, macro>>
    BY <1>5 DEF ReleaseStep, listVars, heapVars
  <2> QED  BY <2>1, <1>2, StillStepHolds
<1> QED  BY <1>4, <1>5

-----------------------------------------------------------------------------
(* The UI thread *)

LEMMA OneStep ==
  ASSUME NEW s \in OwnStep, s.op \notin {"turn", "turns", "fire"}
  PROVE  Orderly(<<s>>) /\ ~FiresFirst(<<s>>)
<1>1. <<s>> \in Seq(OwnStep) /\ Len(<<s>>) = 1 /\ <<s>>[1] = s
  OBVIOUS
<1> QED  BY <1>1 DEF Orderly, NoTurns, PurgesNext, FiresAfterPurge, FiresFirst

\* The UI thread begins something: an event, a turn, a kit's call.
LEMMA IdleHolds ==
  ASSUME MacroInv, EventInv, Idle, NEW t \in Seq(OwnStep), GoesWith(t), NoTurns(t), PurgesNext(t),
         deferred' \subseteq deferred,
         \A o \in deferred' \ Selectable, i \in 1..Len(running) :
           macro[running[i]].paused /\ macro[running[i]].owner = o =>
             \/ Clearing(o)'
             \/ /\ \E j \in 1..Len(running') : running'[j] = running[i]
                /\ macro'[running[i]].paused /\ macro'[running[i]].owner = o
  PROVE  EventInv'
<1>1. Frames /\ InOrder /\ TurnsSettle /\ HeldBack
  BY DEF MacroInv, EventInv
<1>2. Len(stack) = 1 /\ Top.todo = <<>> /\ Top = stack[1] /\ ~(1 > 1)
  BY <1>1, StackFacts DEF Idle
<1>3. \A s : ~Awaits(s)
  <2>1. \A k \in 1..Len(stack) : k = 1
    BY <1>2
  <2> QED  BY <2>1, <1>2 DEF Awaits, Has
<1>4. \A s : Awaits(s)' => Has(t, s)
  BY <1>1, <1>3, TopAwaits
<1>5. TurnsFirst(t) /\ \A m : ~Has(t, Do("turn", m))
  BY NoTurnsFirst
<1>6. InOrder' /\ EventNext'
  BY <1>1, <1>2, <1>5, TopInOrder, TopEvent
<1>7. \A o : ~Clearing(o)
  BY <1>3 DEF Clearing
<1>8. TurnsSettle' /\ HeldBack'
  BY <1>1, <1>4, <1>5, <1>7, StaysHeld
<1> QED  BY <1>6, <1>8 DEF EventInv

\* It changes something, and nothing is begun.
LEMMA IdleStaysHolds ==
  ASSUME MacroInv, EventInv, Idle, stack' = stack, deferred' \subseteq deferred,
         \A o \in deferred' \ Selectable, i \in 1..Len(running) :
           macro[running[i]].paused /\ macro[running[i]].owner = o =>
             /\ \E j \in 1..Len(running') : running'[j] = running[i]
             /\ macro'[running[i]].paused /\ macro'[running[i]].owner = o
  PROVE  EventInv'
<1>1. Frames /\ InOrder /\ TurnsSettle /\ HeldBack
  BY DEF MacroInv, EventInv
<1>2. Len(stack) = 1 /\ Top.todo = <<>> /\ Top = stack[1] /\ ~(1 > 1)
  BY <1>1, StackFacts DEF Idle
<1>3. \A s : ~Awaits(s)
  <2>1. \A k \in 1..Len(stack) : k = 1
    BY <1>2
  <2> QED  BY <2>1, <1>2 DEF Awaits, Has
<1>4. \A s : ~Awaits(s)'
  BY <1>3 DEF Awaits
<1>5. InOrder'
  BY <1>1 DEF InOrder
<1>6. EventNext'
  BY <1>2 DEF EventNext
<1>7. \A o : ~Clearing(o)
  BY <1>3 DEF Clearing
<1>8. TurnsSettle' /\ HeldBack'
  BY <1>1, <1>4, <1>7, StaysHeld
<1> QED  BY <1>5, <1>6, <1>8 DEF EventInv

LEMMA WalkMovesHolds ==
  ASSUME MacroInv, EventInv, WalkBegins \/ WalkEnds
  PROVE  EventInv'
<1>1. Idle /\ UNCHANGED <<running, macro, deferred, stack>>
  BY DEF WalkBegins, WalkEnds, heapVars
<1> QED  BY <1>1, IdleStaysHolds

LEMMA ClearsHolds ==
  ASSUME MacroInv, EventInv, Clears
  PROVE  EventInv'
<1>1. Idle /\ stack' = stack /\ deferred' = {}
  BY DEF Clears
<1> QED  BY <1>1, IdleStaysHolds

LEMMA WalkTurnHolds ==
  ASSUME MacroInv, EventInv, WalkTurn
  PROVE  EventInv'
<1> PICK m : m = running[index + 1]
  OBVIOUS
<1> PICK o : o = macro[m].owner
  OBVIOUS
<1> DEFINE f == [macro[m] EXCEPT !.paused = FALSE]
           a == Do("apply", o)  r == Return("advance")
<1>1. Parts /\ Owned /\ Listed /\ Frames
  BY DEF MacroInv
<1>2. /\ Idle /\ index < Len(running) /\ StepDoneThen(m, <<a, r>>)
      /\ running' = running /\ macro' = [macro EXCEPT ![m] = f] /\ deferred' = deferred
  BY DEF WalkTurn
<1>3. index + 1 \in 1..Len(running)
  BY <1>1, <1>2 DEF Parts, Listed
<1>4. m \in heap /\ m \in Macros
  BY <1>1, <1>3 DEF Listed, Owned
<1>5. a \in OwnStep /\ a.op = "apply" /\ r \in OwnStep /\ r.op = "advance"
  BY <1>1, <1>4, OwnFields, ObjectStep, ReturnStep DEF ObjectSteps, Returns
<1>6. \A k \in Macros : k # m => macro'[k] = macro[k]
  BY <1>1, <1>2 DEF Owned
<1>7. \A i \in 1..Len(running) : running[i] \in Macros
  BY <1>1 DEF Listed
<1> HIDE DEF a, r, f
<1>8. <<a, r>> \in Seq(OwnStep) /\ Len(<<a, r>>) = 2 /\ <<a, r>>[1] = a /\ <<a, r>>[2] = r
  BY <1>5
<1>9. (\A k \in 1..2 : k = 1 \/ k = 2) /\ 1 \in 1..2
  OBVIOUS
<1>10. NoTurns(<<a, r>>) /\ PurgesNext(<<a, r>>)
  BY <1>5, <1>8, <1>9 DEF NoTurns, PurgesNext
<1>11. GoesWith(<<a, r>>)
  BY <1>2, <1>4 DEF GoesWith
<1>12. Clearing(o)'
  <2>1. Has(<<a, r>>, a)
    BY <1>8, <1>9 DEF Has
  <2>2. Awaits(a)'
    BY <2>1, <1>1, <1>8, <1>11, TopAwaits
  <2> QED  BY <2>2 DEF Clearing, a
<1>13. \A x \in deferred' \ Selectable, i \in 1..Len(running) :
         macro[running[i]].paused /\ macro[running[i]].owner = x =>
           \/ Clearing(x)'
           \/ /\ \E j \in 1..Len(running') : running'[j] = running[i]
              /\ macro'[running[i]].paused /\ macro'[running[i]].owner = x
  BY <1>2, <1>6, <1>7, <1>12
<1> QED  BY <1>2, <1>8, <1>10, <1>11, <1>13, IdleHolds

LEMMA AppliesDeferredHolds ==
  ASSUME MacroInv, EventInv, AppliesDeferred
  PROVE  EventInv'
<1> PICK o : o = Subject
  OBVIOUS
<1> DEFINE f == Do("fire", o)  t == Tail(Top.todo)  all == <<f>> \o t
<1>1. Frames /\ Bottom /\ InOrder /\ TurnsSettle /\ HeldBack /\ "apply" \in ObjectSteps
  BY DEF MacroInv, EventInv, ObjectSteps
<1>2. AtStep("apply") /\ UNCHANGED <<running, macro>> /\ deferred' = deferred \ {o}
  BY DEF AppliesDeferred, listVars, heapVars
<1>3. /\ Top.todo \in Seq(OwnStep) /\ Top.todo # <<>> /\ Top.todo[1].op = "apply"
      /\ o = Top.todo[1].of /\ o \in Objects /\ Len(stack) = 1
  BY <1>1, <1>2, FirstStep
<1>4. Top = stack[1] /\ 1 \in 1..Len(stack)
  BY <1>1, <1>3, StackFacts
<1>5. t \in Seq(OwnStep) /\ Len(t) \in Nat
  BY <1>3, StepTaken
<1>6. /\ NoTurns(t) /\ PurgesNext(t)
      /\ \A s : Has(Top.todo, s) => s = Top.todo[1] \/ Has(t, s)
  BY <1>1, <1>3, <1>4, TailHas DEF InOrder
<1>7. \E u \in {t, all} : GoesOn(u)
  BY DEF AppliesDeferred, StepDone
<1>8. f \in OwnStep /\ f.op = "fire"
  BY <1>3, ObjectStep DEF ObjectSteps
<1> HIDE DEF f, t
<1>9. <<f>> \in Seq(OwnStep) /\ Len(<<f>>) = 1 /\ <<f>>[1] = f
  BY <1>8
<1>10. /\ all \in Seq(OwnStep) /\ Len(all) = 1 + Len(t) /\ all[1] = f
       /\ \A k \in 1..Len(t) : k + 1 \in 1..Len(all) /\ all[k + 1] = t[k]
  <2>1. /\ all \in Seq(OwnStep) /\ Len(all) = Len(<<f>>) + Len(t)
        /\ \A i \in 1..Len(<<f>>) + Len(t) :
             all[i] = IF i <= Len(<<f>>) THEN <<f>>[i] ELSE t[i - Len(<<f>>)]
    BY <1>5, <1>9, ConcatProperties
  <2> HIDE DEF all
  <2>2. ASSUME NEW k \in 1..Len(t) PROVE k + 1 \in 1..Len(all) /\ all[k + 1] = t[k]
    <3>1. k + 1 \in 1..1 + Len(t) /\ ~(k + 1 <= 1) /\ (k + 1) - 1 = k
      BY <1>5
    <3> QED  BY <3>1, <2>1, <1>9
  <2>3. 1 \in 1..1 + Len(t) /\ 1 <= 1
    BY <1>5
  <2> QED  BY <2>1, <2>2, <2>3, <1>9
<1> HIDE DEF all
<1>11. \A k \in 1..Len(all) : k = 1 \/ (k - 1 \in 1..Len(t) /\ all[k] = t[k - 1])
  <2> SUFFICES ASSUME NEW k \in 1..Len(all), k # 1
               PROVE  k - 1 \in 1..Len(t) /\ all[k] = t[k - 1]
    OBVIOUS
  <2>1. k - 1 \in 1..Len(t) /\ (k - 1) + 1 = k
    BY <1>5, <1>10
  <2> QED  BY <2>1, <1>10
<1>12. NoTurns(all)
  BY <1>6, <1>8, <1>10, <1>11 DEF NoTurns
<1>13. PurgesNext(all)
  <2> SUFFICES ASSUME NEW j \in 1..Len(all), all[j].op = "turns"
               PROVE  j + 1 \in 1..Len(all) /\ all[j + 1] = Do("purge", all[j].of)
    BY DEF PurgesNext
  <2>1. j - 1 \in 1..Len(t) /\ all[j] = t[j - 1] /\ (j - 1) + 1 = j
    BY <1>8, <1>10, <1>11
  <2>2. j \in 1..Len(t) /\ t[j] = Do("purge", t[j - 1].of)
    BY <2>1, <1>6 DEF PurgesNext
  <2> QED  BY <2>1, <2>2, <1>10
<1>14. \A s : Has(t, s) => Has(all, s)
  BY <1>10 DEF Has
<1>15. PICK u \in {t, all} : GoesOn(u)
  BY <1>7
<1>16. /\ u \in Seq(OwnStep) /\ GoesWith(u) /\ NoTurns(u) /\ PurgesNext(u)
       /\ \A s : Has(t, s) => Has(u, s)
  BY <1>5, <1>6, <1>10, <1>12, <1>13, <1>14, <1>15 DEF GoesWith
<1>17. /\ \A s : Awaits(s)' => Has(u, s) \/ Awaits(s)
       /\ \A s : Has(u, s) => Awaits(s)'
       /\ \A s : Awaits(s) => Has(Top.todo, s) \/ Awaits(s)'
  BY <1>1, <1>16, TopAwaits
<1>18. TurnsFirst(u) /\ \A m : ~Has(u, Do("turn", m))
  BY <1>16, NoTurnsFirst
<1>19. InOrder' /\ EventNext'
  <2>1. ~(Len(stack) > 1)
    BY <1>3
  <2> QED  BY <2>1, <1>1, <1>16, <1>18, TopInOrder, TopEvent
<1>20. \A x : x # o /\ Clearing(x) => Clearing(x)'
  <2>1. \A x : Do("apply", x).of = x /\ Do("purge", x).op = "purge"
    BY DEF Do
  <2> QED  BY <2>1, <1>3, <1>6, <1>16, <1>17 DEF Clearing
<1>21. TurnsSettle' /\ HeldBack'
  BY <1>1, <1>2, <1>17, <1>18, <1>20, StaysHeld
<1> QED  BY <1>19, <1>21 DEF EventInv

\* The list and the macros stay while the UI thread begins something.
LEMMA WorldHolds ==
  ASSUME MacroInv, EventInv, NEW steps \in Seq(OwnStep), World(steps), NoTurns(steps), PurgesNext(steps)
  PROVE  EventInv'
<1>1. Idle /\ GoesOn(steps) /\ UNCHANGED <<running, macro, deferred>>
  BY DEF World, listVars, heapVars
<1>2. GoesWith(steps)
  BY <1>1 DEF GoesWith
<1> QED  BY <1>1, <1>2, IdleHolds

LEMMA ObjectEventHolds ==
  ASSUME MacroInv, EventInv, NEW o \in Objects, ObjectEvent(o)
  PROVE  EventInv'
<1> DEFINE f == Do("fire", o)
<1>1. f \in OwnStep /\ f.op = "fire" /\ World(<<f>>)
  BY ObjectStep DEF ObjectSteps, ObjectEvent
<1> HIDE DEF f
<1>2. <<f>> \in Seq(OwnStep) /\ Len(<<f>>) = 1 /\ <<f>>[1] = f
  BY <1>1
<1>3. NoTurns(<<f>>) /\ PurgesNext(<<f>>)
  BY <1>1, <1>2 DEF NoTurns, PurgesNext
<1> QED  BY <1>1, <1>2, <1>3, WorldHolds

LEMMA CreatureEventHolds ==
  ASSUME MacroInv, EventInv, NEW c \in Creatures, CreatureEvent(c)
  PROVE  EventInv'
<1>1. PICK op \in {"fire", "restart"} : World(Append(WakeSteps(c), Do(op, c)))
  BY DEF CreatureEvent
<1> DEFINE d == Do(op, c)  s == WakeSteps(c)  u == Append(s, d)
<1>2. d \in OwnStep /\ d.op = op
  BY ObjectStep, OwnersAssumption DEF ObjectSteps
<1>3. Orderly(s)
  BY WakeOrderly DEF MacroInv
<1> HIDE DEF d, s
<1>4. s \in Seq(OwnStep) /\ NoTurns(s) /\ PurgesNext(s) /\ Len(s) \in Nat
  BY <1>3 DEF Orderly
<1>5. /\ u \in Seq(OwnStep) /\ Len(u) = Len(s) + 1
      /\ \A i \in 1..Len(s) : u[i] = s[i]
      /\ u[Len(s) + 1] = d
  BY <1>2, <1>4, AppendProperties
<1>6. World(u)
  BY <1>1 DEF s, d
<1> HIDE DEF u
<1>7. \A k \in 1..Len(u) : k \in 1..Len(s) \/ k = Len(s) + 1
  BY <1>4, <1>5
<1>8. \A k \in 1..Len(s) : k \in 1..Len(u)
  BY <1>4, <1>5
<1>9. NoTurns(u) /\ PurgesNext(u)
  BY <1>2, <1>4, <1>5, <1>7, <1>8 DEF NoTurns, PurgesNext
<1> QED  BY <1>5, <1>6, <1>9, WorldHolds

LEMMA OutsideHolds ==
  ASSUME MacroInv, EventInv, Outside
  PROVE  EventInv'
<1>1. CASE \E o \in Objects : ObjectEvent(o)
  BY <1>1, ObjectEventHolds
<1>2. CASE \E o \in Objects : ObjectKilled(o)
  <2>1. PICK o \in Objects : World(KillSteps(o))
    BY <1>2 DEF ObjectKilled
  <2>2. Orderly(KillSteps(o))
    BY KillOrderly
  <2> QED  BY <2>1, <2>2, WorldHolds DEF Orderly
<1>3. CASE \E c \in Creatures : CreatureEvent(c)
  BY <1>3, CreatureEventHolds
<1>4. CASE \E c \in Creatures : CreatureDies(c)
  <2>1. PICK c \in Creatures : World(DeathSteps(c))
    BY <1>4 DEF CreatureDies
  <2>2. Orderly(DeathSteps(c))
    BY DeathOrderly DEF MacroInv
  <2> QED  BY <2>1, <2>2, WorldHolds DEF Orderly
<1> QED  BY <1>1, <1>2, <1>3, <1>4, ClearsHolds DEF Outside

\* A kit's macro has an owner the kit may select: nothing is held back for it.
LEMMA KitSetsHolds ==
  ASSUME MacroInv, EventInv, Idle, NEW m \in Macros, NEW f, macro' = [macro EXCEPT ![m] = f],
         UNCHANGED <<running, deferred>>, m \notin heap \/ macro[m].held \/ macro[m].dde,
         stack' = stack \/ \E t : Orderly(t) /\ GoesWith(t)
  PROVE  EventInv'
<1>1. Owned /\ Listed
  BY DEF MacroInv
<1>2. \A k \in Macros : k # m => macro'[k] = macro[k]
  BY <1>1 DEF Owned
<1>3. \A i \in 1..Len(running) : running[i] \in Macros /\ running[i] \in heap
  BY <1>1 DEF Listed
<1>4. m \notin heap \/ macro[m].owner \in Selectable
  BY <1>1, HeldIsAllocated
<1>5. \A o \in deferred' \ Selectable, i \in 1..Len(running) :
         macro[running[i]].paused /\ macro[running[i]].owner = o =>
           /\ \E j \in 1..Len(running') : running'[j] = running[i]
           /\ macro'[running[i]].paused /\ macro'[running[i]].owner = o
  BY <1>2, <1>3, <1>4
<1> QED  BY <1>5, IdleHolds, IdleStaysHolds DEF Orderly

LEMMA KitStartsHolds ==
  ASSUME MacroInv, EventInv, NEW m \in Macros, NEW c \in Selectable,
         \/ HolderCreated(m, c) \/ HolderStarts(m, c) \/ HolderOutputs(m, c) \/ Connects(m, c)
         \/ Requests(m) \/ Executes(m)
  PROVE  EventInv'
<1>1. macro \in [Macros -> Fields]
  BY DEF MacroInv, Owned
<1> DEFINE a == Do("start", m)  u == Do("uncapture", m)
<1>2. a \in OwnStep /\ a.op = "start" /\ u \in OwnStep /\ u.op = "uncapture"
  BY MacroStep DEF MacroSteps
<1>3. /\ Idle /\ UNCHANGED <<running, deferred>>
      /\ m \notin heap \/ macro[m].held \/ macro[m].dde
      /\ stack' = stack \/ \E t \in {<<a>>, <<u>>} : GoesWith(t)
  BY DEF HolderCreated, HolderStarts, HolderOutputs, Connects, Requests, Executes, Transaction,
         listVars, GoesWith
<1>4. \E f : macro' = [macro EXCEPT ![m] = f]
  <2>1. CASE HolderCreated(m, c) \/ HolderOutputs(m, c) \/ Connects(m, c)
    BY <2>1 DEF HolderCreated, HolderOutputs, Connects
  <2>2. CASE HolderStarts(m, c)
    <3>1. macro' = [macro EXCEPT ![m] = [macro[m] EXCEPT !.owner = c]]
      BY <2>2, <1>1 DEF HolderStarts
    <3> QED  BY <3>1
  <2>3. CASE Requests(m)
    <3>1. macro' = [macro EXCEPT ![m] = [macro[m] EXCEPT !.capture = TRUE, !.paused = FALSE]]
      BY <2>3, <1>1 DEF Requests
    <3> QED  BY <3>1
  <2>4. CASE Executes(m)
    <3>1. macro' = [macro EXCEPT ![m] = macro[m]]
      BY <2>4, <1>1 DEF Executes, heapVars
    <3> QED  BY <3>1
  <2> QED  BY <2>1, <2>2, <2>3, <2>4
<1> HIDE DEF a, u
<1>5. Orderly(<<a>>) /\ Orderly(<<u>>)
  BY <1>2, OneStep
<1> QED  BY <1>3, <1>4, <1>5, KitSetsHolds

LEMMA FiresCommandHolds ==
  ASSUME MacroInv, EventInv, NEW m \in Macros, NEW c \in Selectable, NEW hands_over \in BOOLEAN,
         FiresCommand(m, c, hands_over)
  PROVE  EventInv'
<1> DEFINE f == HolderMacro(c)
           a == Do("start", m)  h == Do("hand_over", m)  r == Do("release", m)
           mid == IF hands_over THEN <<h>> ELSE <<>>
           all == <<a>> \o mid \o <<r>>
<1>1. /\ Idle /\ m \notin heap /\ macro' = [macro EXCEPT ![m] = f]
      /\ GoesOn(all) /\ UNCHANGED <<running, deferred>>
  BY DEF FiresCommand, listVars
<1>2. /\ a \in OwnStep /\ a.op = "start"
      /\ h \in OwnStep /\ h.op = "hand_over"
      /\ r \in OwnStep /\ r.op = "release"
  BY MacroStep DEF MacroSteps
<1> HIDE DEF f, a, h, r
<1>3. Orderly(<<a>>) /\ ~FiresFirst(<<a>>) /\ Orderly(<<r>>) /\ ~FiresFirst(<<r>>)
  BY <1>2, OneStep
<1>4. Orderly(mid) /\ ~FiresFirst(mid)
  <2>1. CASE hands_over
    BY <2>1, <1>2, OneStep
  <2>2. CASE ~hands_over
    BY <2>2 DEF Orderly, NoTurns, PurgesNext, FiresAfterPurge, FiresFirst
  <2> QED  BY <2>1, <2>2
<1> HIDE DEF mid
<1>5. Orderly(<<a>> \o mid)
  BY <1>3, <1>4, OrderlyTogether
<1>6. Orderly(all)
  BY <1>3, <1>5, OrderlyTogether
<1>7. \E t : Orderly(t) /\ GoesWith(t)
  <2> HIDE DEF all
  <2> QED  BY <1>1, <1>6 DEF GoesWith
<1> HIDE DEF all
<1> QED  BY <1>1, <1>7, KitSetsHolds

LEMMA KitEndsHolds ==
  ASSUME MacroInv, EventInv, NEW m \in Macros, HolderDestroyed(m) \/ Disconnects(m)
  PROVE  EventInv'
<1>1. Parts /\ Owned
  BY DEF MacroInv
<1>2. /\ Idle /\ UNCHANGED <<stack, deferred>> /\ RemovedAndReleased(m)
      /\ macro[m].held \/ macro[m].dde
  BY DEF HolderDestroyed, Disconnects, Transaction
<1>3. macro[m].owner \in Selectable
  BY <1>1, <1>2, HeldIsAllocated
<1>4. PICK freed \in SUBSET {m} : Erased({m}) /\ Freed(freed)
  BY <1>2 DEF RemovedAndReleased
<1>5. \A i \in 1..Len(running) :
        running[i] \notin {m} =>
          /\ \E j \in 1..Len(running') : running'[j] = running[i]
          /\ macro'[running[i]] = macro[running[i]]
  BY <1>4, ErasedFreed
<1> QED  BY <1>2, <1>3, <1>5, IdleStaysHolds

-----------------------------------------------------------------------------
(* Every step keeps an event's turn *)

LEMMA EventInit == Init => EventInv
<1> SUFFICES ASSUME Init PROVE EventInv
  OBVIOUS
<1> DEFINE f == [macro |-> NoMacro, todo |-> <<>>]
<1>1. stack = <<f>> /\ deferred = {} /\ f.todo = <<>>
  BY DEF Init
<1> HIDE DEF f
<1>2. Len(stack) = 1 /\ stack[1].todo = <<>>
  BY <1>1
<1>3. TurnsFirst(<<>>) /\ PurgesNext(<<>>)
  BY DEF TurnsFirst, PurgesNext
<1>4. InOrder /\ EventNext
  BY <1>2, <1>3 DEF InOrder, EventNext
<1> QED  BY <1>1, <1>4 DEF EventInv, TurnsSettle, HeldBack

LEMMA EventSteps ==
  ASSUME KitsApart, MacroInv, EventInv, [Next]_vars
  PROVE  EventInv'
<1>1. CASE Command
  <2>1. CASE Pauses \/ Yields \/ Ends \/ Terminates
    BY <2>1, PausesHolds, YieldsHolds, EndsHolds
  <2>2. CASE \E o \in Objects : Kill(o)
    BY <2>2, KillHolds
  <2>3. CASE \E c \in Creatures : \/ Cdie(c) \/ WakesUp(c)
                                  \/ \E i \in Indicators : FallsAsleep(c, i)
    BY <2>3, CdieHolds, FallsAsleepHolds
  <2> QED  BY <1>1, <2>1, <2>2, <2>3 DEF Command
<1>2. CASE CommandStep
  <2>1. CASE Returned \/ ReturnedDestroyed \/ TurnsBegin \/ TurnBeforePurge
    BY <2>1, ReturnedHolds, TurnsBeginHolds, TurnBeforePurgeHolds
  <2>2. CASE Purges \/ Dies
    BY <2>2, PurgesHolds, QuietStepHolds
  <2>3. CASE FiresNothing \/ FiresDeferred \/ FiresReload \/ \E m \in Macros : FiresNew(m)
    BY <2>3, QuietStepHolds, FiresDeferredHolds, FiresReloadHolds, FiresNewHolds
  <2> QED  BY <1>2, <2>1, <2>2, <2>3 DEF CommandStep
<1>3. CASE Walk
  BY <1>3, WalkMovesHolds, WalkTurnHolds, AppliesDeferredHolds, QuietStepHolds DEF Walk
<1>4. CASE Outside
  BY <1>4, OutsideHolds
<1>5. CASE Kit
  <2>1. CASE \E m \in Macros, c \in Selectable :
               \/ HolderCreated(m, c) \/ HolderStarts(m, c) \/ HolderOutputs(m, c)
               \/ \E hands_over \in BOOLEAN : FiresCommand(m, c, hands_over)
               \/ Connects(m, c)
    BY <2>1, KitStartsHolds, FiresCommandHolds
  <2>2. CASE \E m \in Macros : HolderDestroyed(m) \/ Disconnects(m)
    BY <2>2, KitEndsHolds
  <2>3. CASE \E m \in Macros : Executes(m) \/ Requests(m)
    <3>1. PICK m \in Macros : Executes(m) \/ Requests(m)
      BY <2>3
    <3>2. \E c : c \in Selectable
      BY <3>1, HeldIsAllocated DEF MacroInv, Executes, Requests, Transaction
    <3> QED  BY <3>1, <3>2, KitStartsHolds
  <2>4. CASE StartStep \/ HandsOver \/ ReleaseStep \/ Uncaptures
    BY <2>4, StartStepHolds, CallStepHolds, ReleaseStepHolds
  <2> QED  BY <1>5, <2>1, <2>2, <2>3, <2>4 DEF Kit
<1>6. CASE UNCHANGED vars
  <2>1. UNCHANGED <<running, macro, deferred, stack>>
    BY <1>6 DEF vars, listVars, heapVars
  <2>2. InOrder'
    BY <2>1 DEF EventInv, InOrder
  <2>3. \A s : Awaits(s)' <=> Awaits(s)
    BY <2>1 DEF Awaits
  <2>4. \A o : Clearing(o)' <=> Clearing(o)
    BY <2>3 DEF Clearing
  <2>5. EventNext'
    BY <2>1, <2>4 DEF EventInv, EventNext, Top
  <2>6. TurnsSettle'
    BY <2>1, <2>3, <2>4 DEF EventInv, TurnsSettle
  <2>7. HeldBack'
    BY <2>1, <2>4 DEF EventInv, HeldBack, PausedScript
  <2> QED  BY <2>2, <2>5, <2>6, <2>7 DEF EventInv
<1> QED  BY <1>1, <1>2, <1>3, <1>4, <1>5, <1>6 DEF Next

\* An event held back for a paused script has a script of its owner to come after
\* it, so that a later turn applies it: whatever the scripts, kills, deaths and
\* sleeps in between, and for every object a kit cannot select.
THEOREM HeldEventsHaveATurn ==
  ASSUME KitsApart
  PROVE  Spec => []DeferredHasTurn
<1>1. KitsApart
  OBVIOUS
<1>2. Init => EventInv
  BY EventInit
<1>3. MacroInv /\ EventInv /\ [Next]_vars => EventInv'
  BY <1>1, EventSteps
<1>4. MacroInv /\ EventInv => DeferredHasTurn
  <2> SUFFICES ASSUME MacroInv, EventInv, Idle, NEW o \in deferred \ Selectable
               PROVE  \E m \in ToSet(running) : macro[m].owner = o
    BY DEF DeferredHasTurn
  <2>1. Len(stack) = 1 /\ Top.todo = <<>> /\ Top = stack[1]
    BY StackFacts DEF MacroInv, Idle
  <2>2. \A k \in 1..Len(stack) : k = 1
    BY <2>1
  <2>3. ~Clearing(o)
    BY <2>1, <2>2 DEF Clearing, Awaits, Has
  <2>4. PausedScript(o)
    BY <2>3 DEF EventInv, HeldBack
  <2> QED  BY <2>4, ListIs DEF MacroInv, PausedScript
<1> QED  BY <1>1, <1>2, <1>3, <1>4, MacroInductive, PTL DEF Spec
=============================================================================
