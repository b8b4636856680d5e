---------------------------- MODULE WorldTickProofs ----------------------------
(* The turn of the world for any creatures, kits, stride and failures, and its *)
(* files for any creatures, saves and troubles.                               *)
EXTENDS WorldTick, WorldFiles, SequenceTheorems, TLAPS

\* The bottom call is the only one, and the guard is its mark.
LEMMA GoToType ==
  ASSUME TypeOK, frames # <<>>, NEW p \in Places, NEW n \in Nat, GoTo(p, n)
  PROVE  /\ frames' \in Seq(Frame) /\ frames' # <<>> /\ Len(frames') = Len(frames)
         /\ frames'[1].at = p /\ frames'[1].index = n
         /\ frames'[1].resume = frames[1].resume
<1> DEFINE f == [Top EXCEPT !.at = p, !.index = n]
<1>1. frames \in Seq(Frame) /\ frames[1] \in Frame
  BY DEF TypeOK
<1>2. f \in Frame
  BY <1>1 DEF Top, Frame
<1>3. f.at = p /\ f.index = n /\ f.resume = frames[1].resume
  BY <1>1 DEF Top, Frame
<1>4. frames' = <<f>> \o Tail(frames)
  BY DEF GoTo
<1> HIDE DEF f, Frame
<1>5. QED
  BY <1>1, <1>2, <1>3, <1>4

LEMMA TailFrames ==
  ASSUME TypeOK, frames # <<>>
  PROVE  Tail(frames) \in Seq(Frame) /\ Len(Tail(frames)) = Len(frames) - 1
         /\ frames[1] \in Frame /\ Len(frames) \in Nat \ {0}
BY DEF TypeOK

LEMMA TypeInit == Init => TypeOK
<1> SUFFICES ASSUME Init PROVE TypeOK
  OBVIOUS
<1>1. registry \in Seq(Creatures) /\ IsInjective(registry)
  <2>1. PICK m \in 0 .. Cardinality(Creatures) : registry \in [1 .. m -> Creatures]
    BY DEF Init, SeqOf
  <2>2. registry \in Seq(Creatures)
    BY <2>1, SeqDef
  <2>3. QED
    BY <2>2 DEF Init
<1>2. frames \in Seq(Frame)
  BY EmptySeq DEF Init
<1>3. cohort \in 0 .. Stride - 1 /\ tick \in 0 .. MaxTick - 1 /\ phase \in 0 .. MaxTick - 1
      /\ failures \in 0 .. MaxFailures
  BY WorldTickAssumption DEF Init
<1>4. belief \in [Kits -> {"closed", "running", "paused"}] /\ joined \in [Kits -> BOOLEAN]
      /\ file \in [command : {"none", "save", "open"}, rearm : BOOLEAN]
  BY DEF Init, NoFile
<1>5. QED
  BY <1>1, <1>2, <1>3, <1>4 DEF Init, TypeOK

LEMMA ToldType ==
  ASSUME belief \in [Kits -> {"closed", "running", "paused"}]
  PROVE  Told \in [Kits -> {"closed", "running", "paused"}]
BY DEF Told

LEMMA RemovedType ==
  ASSUME NEW s \in Seq(Creatures), IsInjective(s), NEW n \in DOMAIN s
  PROVE  /\ RemoveAt(s, n) \in Seq(Creatures)
         /\ IsInjective(RemoveAt(s, n))
         /\ Len(RemoveAt(s, n)) = Len(s) - 1
         /\ \A i \in 1 .. Len(s) - 1 :
               RemoveAt(s, n)[i] = IF i < n THEN s[i] ELSE s[i + 1]
<1> DEFINE r == RemoveAt(s, n)
           a == SubSeq(s, 1, n - 1)
           b == SubSeq(s, n + 1, Len(s))
<1>1. Len(s) \in Nat /\ DOMAIN s = 1 .. Len(s) /\ n \in 1 .. Len(s)
      /\ \A i \in 1 .. Len(s) : s[i] \in Creatures
  OBVIOUS
<1>2. a \in Seq(Creatures) /\ Len(a) = n - 1 /\ \A i \in 1 .. n - 1 : a[i] = s[i]
  BY <1>1, SubSeqProperties
<1>3. b \in Seq(Creatures) /\ Len(b) = Len(s) - n
      /\ \A i \in 1 .. Len(s) - n : b[i] = s[n + i]
  BY <1>1, SubSeqProperties
<1>4. r \in Seq(Creatures) /\ Len(r) = Len(s) - 1
      /\ \A i \in 1 .. Len(s) - 1 : r[i] = IF i <= n - 1 THEN a[i] ELSE b[i - (n - 1)]
  <2> HIDE DEF a, b
  <2>1. r = a \o b
    BY DEF RemoveAt, a, b
  <2> HIDE DEF r
  <2> QED
    <3>1. r \in Seq(Creatures) /\ Len(r) = Len(a) + Len(b)
          /\ \A i \in 1 .. Len(a) + Len(b) :
                r[i] = IF i <= Len(a) THEN a[i] ELSE b[i - Len(a)]
      <4>1. a \in Seq(Creatures) /\ b \in Seq(Creatures)
        BY <1>2, <1>3
      <4> QED
        BY <2>1, <4>1, ConcatProperties
    <3>2. Len(a) + Len(b) = Len(s) - 1
      BY <1>1, <1>2, <1>3
    <3> QED
      BY <1>2, <3>1, <3>2
<1>5. \A i \in 1 .. Len(s) - 1 : r[i] = IF i < n THEN s[i] ELSE s[i + 1]
  <2> HIDE DEF a, b, r
  <2> TAKE i \in 1 .. Len(s) - 1
  <2>1. CASE i < n
    BY <1>1, <1>2, <1>4, <2>1
  <2>2. CASE ~(i < n)
    <3>1. i - (n - 1) \in 1 .. Len(s) - n /\ n + (i - (n - 1)) = i + 1
      BY <1>1, <2>2
    <3>2. b[i - (n - 1)] = s[i + 1]
      BY <1>3, <3>1
    <3> QED
      BY <1>1, <1>4, <2>2, <3>2
  <2> QED
    BY <2>1, <2>2
<1>6. IsInjective(r)
  <2> HIDE DEF a, b, r
  <2> SUFFICES ASSUME NEW i \in 1 .. Len(s) - 1, NEW j \in 1 .. Len(s) - 1, r[i] = r[j]
               PROVE i = j
    BY <1>4 DEF IsInjective
  <2> DEFINE h(k) == IF k < n THEN k ELSE k + 1
  <2>1. h(i) \in 1 .. Len(s) /\ h(j) \in 1 .. Len(s) /\ s[h(i)] = s[h(j)]
    BY <1>1, <1>5
  <2>2. h(i) = h(j)
    BY <1>1, <2>1 DEF IsInjective
  <2> QED
    BY <1>1, <2>2
<1> QED
  BY <1>4, <1>5, <1>6

\* Each step of an update keeps the types.
LEMMA TypeUpdate == TypeOK /\ Update => TypeOK'
<1> SUFFICES ASSUME TypeOK, Update PROVE TypeOK'
  OBVIOUS
<1>0. frames # <<>> /\ ~box
  BY DEF Update, ScriptsDone, PickCreature, CohortDone, BrainDone, Chemistry, ActionDone,
     IndexThrows, DreamsDone, PhaseDone, SaveReturns, SaveThrows, EndAutosave, EndUpdate,
     BeginAutosave, NoAutosave, At, Working
<1>1. frames[1].index \in Nat /\ Top.index \in Nat /\ NextIndex \in Nat /\ cohort \in Nat
  BY <1>0, TailFrames, WorldTickAssumption DEF TypeOK, Frame, Top, NextIndex
<1>2. Told \in [Kits -> {"closed", "running", "paused"}]
  BY ToldType DEF TypeOK
<1>3. Tail(frames) \in Seq(Frame)
  BY <1>0, TailFrames
<1> DEFINE Rest == /\ registry' \in Seq(Creatures) /\ IsInjective(registry')
                   /\ gone' \subseteq Creatures
                   /\ guard' \in BOOLEAN /\ timer' \in BOOLEAN /\ paused' \in BOOLEAN
                   /\ blocked' \in BOOLEAN
                   /\ cohort' \in 0 .. Stride - 1
                   /\ tick' \in 0 .. MaxTick - 1 /\ phase' \in 0 .. MaxTick - 1
                   /\ file' \in [command : {"none", "save", "open"}, rearm : BOOLEAN]
                   /\ belief' \in [Kits -> {"closed", "running", "paused"}]
                   /\ joined' \in [Kits -> BOOLEAN]
                   /\ updated' \subseteq Creatures
                   /\ served' \in Creatures \union {Nobody}
                   /\ failures' \in 0 .. MaxFailures
<1>4. CASE ScriptsDone
  <2>1. GoTo("pick", cohort) /\ box' = box
    BY <1>4 DEF ScriptsDone, At
  <2>2. "pick" \in Places /\ cohort \in Nat
    BY <1>1 DEF Places
  <2>3. frames' \in Seq(Frame) /\ frames' # <<>>
    BY <1>0, <2>1, <2>2, GoToType
  <2>4. Rest
    BY <1>4, <1>2, WorldTickAssumption DEF ScriptsDone, TypeOK, walk, world, kits
  <2> QED
    BY <1>0, <2>1, <2>3, <2>4 DEF TypeOK
<1>5. CASE CohortDone
  <2>1. GoTo("dreams", 0) /\ box' = box
    BY <1>5 DEF CohortDone, At
  <2>2. "dreams" \in Places /\ 0 \in Nat
    BY <1>1 DEF Places
  <2>3. frames' \in Seq(Frame) /\ frames' # <<>>
    BY <1>0, <2>1, <2>2, GoToType
  <2>4. Rest
    BY <1>5, <1>2, WorldTickAssumption DEF CohortDone, TypeOK, walk, world, kits, NextCohort
  <2> QED
    BY <1>0, <2>1, <2>3, <2>4 DEF TypeOK
<1>6. CASE BrainDone
  <2>1. GoTo("chemistry", Top.index) /\ box' = box
    BY <1>6 DEF BrainDone, At
  <2>2. "chemistry" \in Places /\ Top.index \in Nat
    BY <1>1 DEF Places
  <2>3. frames' \in Seq(Frame) /\ frames' # <<>>
    BY <1>0, <2>1, <2>2, GoToType
  <2>4. Rest
    BY <1>6, <1>2, WorldTickAssumption DEF BrainDone, TypeOK, walk, world, kits
  <2> QED
    BY <1>0, <2>1, <2>3, <2>4 DEF TypeOK
<1>7. CASE Chemistry
  <2>1. GoTo("action", Top.index) /\ box' = box
    BY <1>7 DEF Chemistry, At
  <2>2. "action" \in Places /\ Top.index \in Nat
    BY <1>1 DEF Places
  <2>3. frames' \in Seq(Frame) /\ frames' # <<>>
    BY <1>0, <2>1, <2>2, GoToType
  <2>4. updated' \subseteq Creatures
    <3>1. Top.index < Len(registry) /\ updated' = updated \union {registry[Top.index + 1]}
      BY <1>7 DEF Chemistry, Creature, InRegistry
    <3> QED
      BY <1>1, <3>1 DEF TypeOK
  <2>5. Rest
    BY <1>7, <2>4 DEF Chemistry, TypeOK, walk, world, kits
  <2> QED
    BY <1>0, <2>1, <2>3, <2>5 DEF TypeOK
<1>8. CASE ActionDone
  <2>1. GoTo("pick", NextIndex) /\ box' = box
    BY <1>8 DEF ActionDone, At
  <2>2. "pick" \in Places /\ NextIndex \in Nat
    BY <1>1 DEF Places
  <2>3. frames' \in Seq(Frame) /\ frames' # <<>>
    BY <1>0, <2>1, <2>2, GoToType
  <2>4. Rest
    BY <1>8, <1>2, WorldTickAssumption DEF ActionDone, TypeOK, walk, world, kits, NextIndex
  <2> QED
    BY <1>0, <2>1, <2>3, <2>4 DEF TypeOK
<1>9. CASE DreamsDone
  <2>1. GoTo("phase", 0) /\ box' = box
    BY <1>9 DEF DreamsDone, At
  <2>2. "phase" \in Places /\ 0 \in Nat
    BY <1>1 DEF Places
  <2>3. frames' \in Seq(Frame) /\ frames' # <<>>
    BY <1>0, <2>1, <2>2, GoToType
  <2>4. Rest
    BY <1>9, <1>2, WorldTickAssumption DEF DreamsDone, TypeOK, walk, world, kits
  <2> QED
    BY <1>0, <2>1, <2>3, <2>4 DEF TypeOK
<1>10. CASE PhaseDone
  <2>1. GoTo("score", 0) /\ box' = box
    BY <1>10 DEF PhaseDone, At
  <2>2. "score" \in Places /\ 0 \in Nat
    BY <1>1 DEF Places
  <2>3. frames' \in Seq(Frame) /\ frames' # <<>>
    BY <1>0, <2>1, <2>2, GoToType
  <2>4. Rest
    BY <1>10, <1>2, WorldTickAssumption DEF PhaseDone, TypeOK, walk, world, kits
  <2> QED
    BY <1>0, <2>1, <2>3, <2>4 DEF TypeOK
<1>11. CASE SaveReturns
  <2>1. GoTo("saved", 0) /\ box' = box
    BY <1>11 DEF SaveReturns, At
  <2>2. "saved" \in Places /\ 0 \in Nat
    BY <1>1 DEF Places
  <2>3. frames' \in Seq(Frame) /\ frames' # <<>>
    BY <1>0, <2>1, <2>2, GoToType
  <2>4. Rest
    BY <1>11, <1>2, WorldTickAssumption DEF SaveReturns, TypeOK, walk, world, kits
  <2> QED
    BY <1>0, <2>1, <2>3, <2>4 DEF TypeOK
<1>12. CASE SaveThrows
  <2>1. GoTo("saved", 0) /\ box' = box
    BY <1>12 DEF SaveThrows, At
  <2>2. "saved" \in Places /\ 0 \in Nat
    BY <1>1 DEF Places
  <2>3. frames' \in Seq(Frame) /\ frames' # <<>>
    BY <1>0, <2>1, <2>2, GoToType
  <2>4. Rest
    BY <1>12, <1>2, WorldTickAssumption DEF SaveThrows, TypeOK, walk, world, kits
  <2> QED
    BY <1>0, <2>1, <2>3, <2>4 DEF TypeOK
<1>13. CASE EndAutosave
  <2>1. GoTo("finish", 0) /\ box' = box
    BY <1>13 DEF EndAutosave, At
  <2>2. "finish" \in Places /\ 0 \in Nat
    BY <1>1 DEF Places
  <2>3. frames' \in Seq(Frame) /\ frames' # <<>>
    BY <1>0, <2>1, <2>2, GoToType
  <2>4. Rest
    BY <1>13, <1>2, WorldTickAssumption DEF EndAutosave, TypeOK, walk, world, kits
  <2> QED
    BY <1>0, <2>1, <2>3, <2>4 DEF TypeOK
<1>14. CASE BeginAutosave
  <2>1. GoTo("saving", 0) /\ box' = box
    BY <1>14 DEF BeginAutosave, At
  <2>2. "saving" \in Places /\ 0 \in Nat
    BY <1>1 DEF Places
  <2>3. frames' \in Seq(Frame) /\ frames' # <<>>
    BY <1>0, <2>1, <2>2, GoToType
  <2>4. Rest
    BY <1>14, <1>2, WorldTickAssumption DEF BeginAutosave, TypeOK, walk, world, kits
  <2> QED
    BY <1>0, <2>1, <2>3, <2>4 DEF TypeOK
<1>15. CASE NoAutosave
  <2>1. GoTo("finish", 0) /\ box' = box
    BY <1>15 DEF NoAutosave, At
  <2>2. "finish" \in Places /\ 0 \in Nat
    BY <1>1 DEF Places
  <2>3. frames' \in Seq(Frame) /\ frames' # <<>>
    BY <1>0, <2>1, <2>2, GoToType
  <2>4. Rest
    BY <1>15, <1>2, WorldTickAssumption DEF NoAutosave, TypeOK, walk, world, kits
  <2> QED
    BY <1>0, <2>1, <2>3, <2>4 DEF TypeOK
<1>16. CASE PickCreature
  <2>1. \/ GoTo("brain", Top.index) \/ GoTo("chemistry", Top.index) \/ GoTo("pick", NextIndex)
    BY <1>16 DEF PickCreature
  <2>2. frames' \in Seq(Frame) /\ frames' # <<>>
    BY <1>0, <1>1, <2>1, GoToType DEF Places
  <2>3. served' \in Creatures
    BY <1>1, <1>16 DEF PickCreature, Creature, InRegistry, TypeOK
  <2>4. Rest /\ box' = box
    BY <1>16, <2>3 DEF PickCreature, TypeOK, walk, world, kits
  <2> QED
    BY <1>0, <2>2, <2>4 DEF TypeOK
<1>17. CASE IndexThrows
  <2>1. frames' = Tail(frames) /\ box' = (Tail(frames) # <<>>)
    BY <1>17 DEF IndexThrows, Abandon
  <2>2. Rest
    BY <1>17, WorldTickAssumption DEF IndexThrows, TypeOK, walk, world, kits, Abandon
  <2> QED
    BY <1>3, <2>1, <2>2 DEF TypeOK
<1>18. CASE EndUpdate
  <2>1. frames' = Tail(frames) /\ box' = (Tail(frames) # <<>>)
    BY <1>18 DEF EndUpdate
  <2>2. tick' \in 0 .. MaxTick - 1
    BY <1>18, WorldTickAssumption DEF EndUpdate, TypeOK
  <2>3. Rest
    BY <1>18, <2>2 DEF EndUpdate, TypeOK, walk, world, kits
  <2> QED
    BY <1>3, <2>1, <2>3 DEF TypeOK
<1>19. QED
  BY <1>4, <1>5, <1>6, <1>7, <1>8, <1>9, <1>10, <1>11, <1>12, <1>13, <1>14, <1>15, <1>16, <1>17, <1>18 DEF Update

\* So does everything that happens beside it.
LEMMA TypeScripts == TypeOK /\ Scripts => TypeOK'
<1> SUFFICES ASSUME TypeOK, Scripts PROVE TypeOK'
  OBVIOUS
<1>1. ASSUME NEW c \in Creatures, Birth(c)
      PROVE TypeOK'
  <2>1. registry' = Append(registry, c) /\ c \notin ToSet(registry)
    BY <1>1 DEF Birth
  <2>2. registry' \in Seq(Creatures) /\ Len(registry') = Len(registry) + 1
        /\ \A i \in 1 .. Len(registry) : registry'[i] = registry[i]
    BY <2>1 DEF TypeOK
  <2>3. registry'[Len(registry) + 1] = c
    BY <2>1 DEF TypeOK
  <2>4. \A i \in 1 .. Len(registry) : registry[i] # c
    BY <2>1 DEF ToSet, TypeOK
  <2>5. IsInjective(registry')
    <3>1. Len(registry) \in Nat /\ \A i, j \in 1 .. Len(registry) : registry[i] = registry[j] => i = j
      BY DEF IsInjective, TypeOK
    <3>2. SUFFICES ASSUME NEW i \in 1 .. Len(registry) + 1, NEW j \in 1 .. Len(registry) + 1,
                          registry'[i] = registry'[j]
                   PROVE  i = j
      BY <2>2 DEF IsInjective
    <3> QED
      BY <2>2, <2>3, <2>4, <3>1, <3>2
  <2> QED
    BY <1>1, <2>2, <2>5 DEF Birth, TypeOK, world, kits
<1>2. ASSUME NEW c \in Creatures, Deletion(c)
      PROVE TypeOK'
  <2>1. registry' \in Seq(Creatures) /\ IsInjective(registry')
    BY <1>2, RemovedType DEF Deletion, TypeOK
  <2> QED
    BY <1>2, <2>1 DEF Deletion, TypeOK, world, kits
<1>3. CASE OpenBox
  BY <1>3 DEF OpenBox, Working, TypeOK, walk, world, kits
<1>4. CASE AskReplacement
  <2>1. frames' \in Seq(Frame) /\ frames' # <<>>
    <3> DEFINE f == [Top EXCEPT !.resume = TRUE]
    <3>1. frames # <<>> /\ frames' = <<f>> \o Tail(frames)
      BY <1>4 DEF AskReplacement, Working
    <3>2. f \in Frame
      BY <3>1, TailFrames DEF Top, Frame
    <3> HIDE DEF f, Frame
    <3> QED
      BY <3>1, <3>2, TailFrames
  <2>2. Told \in [Kits -> {"closed", "running", "paused"}]
    BY ToldType DEF TypeOK
  <2> QED
    BY <1>4, <2>1, <2>2 DEF AskReplacement, PauseWorld, TypeOK, walk
<1>5. CASE SaveReport
  BY <1>5 DEF SaveReport, At, Working, TypeOK, walk, world, kits
<1>6. CASE Fail
  <2>1. Tail(frames) \in Seq(Frame)
    BY <1>6, TailFrames DEF Fail, Working
  <2>2. failures' \in 0 .. MaxFailures
    BY <1>6, WorldTickAssumption DEF Fail, TypeOK
  <2> QED
    BY <1>6, <2>1, <2>2 DEF Fail, Abandon, TypeOK, walk, world, kits
<1>7. QED
  BY <1>1, <1>2, <1>3, <1>4, <1>5, <1>6 DEF Scripts

LEMMA TypeBeside == TypeOK /\ (Player \/ BeginUpdate \/ CloseBox) => TypeOK'
<1> SUFFICES ASSUME TypeOK, Player \/ BeginUpdate \/ CloseBox PROVE TypeOK'
  OBVIOUS
<1>0. Told \in [Kits -> {"closed", "running", "paused"}]
  BY ToldType DEF TypeOK
<1>1. ASSUME NEW k \in Kits, OpenKit(k)
      PROVE TypeOK'
  BY <1>1 DEF OpenKit, TypeOK, walk, world
<1>2. ASSUME NEW k \in Kits, CloseKit(k)
      PROVE TypeOK'
  BY <1>2 DEF CloseKit, TypeOK, walk, world
<1>3. CASE Pause
  BY <1>0, <1>3 DEF Pause, PauseWorld, TypeOK, walk
<1>4. CASE Play
  BY <1>0, <1>4 DEF Play, ResumeWorld, TypeOK, walk
<1>5. CASE EndFile
  BY <1>5 DEF EndFile, NoFile, TypeOK, walk, kits
<1>6. CASE OpenWorld
  <2>1. registry' \in Seq(Creatures) /\ IsInjective(registry')
    <3>1. PICK r \in SeqOf(Creatures, Cardinality(Creatures)) : IsInjective(r) /\ registry' = r
      BY <1>6 DEF OpenWorld
    <3>2. PICK m \in 0 .. Cardinality(Creatures) : r \in [1 .. m -> Creatures]
      BY DEF SeqOf
    <3> QED
      BY <3>1, <3>2, SeqDef
  <2>2. 0 \in 0 .. Stride - 1 /\ 0 \in 0 .. MaxTick - 1
    BY WorldTickAssumption
  <2> QED
    BY <1>6, <2>1, <2>2 DEF OpenWorld, NoFile, TypeOK, kits
<1>7. ASSUME NEW command \in {"save", "open"}, BeginFile(command)
      PROVE TypeOK'
  <2>1. file' = [command |-> command, rearm |-> Running] /\ Running \in BOOLEAN
    BY <1>7 DEF BeginFile, Running, TypeOK
  <2>2. file' \in [command : {"none", "save", "open"}, rearm : BOOLEAN]
    BY <2>1
  <2> QED
    BY <1>7, <2>2 DEF BeginFile, TypeOK, walk, kits
<1>8. CASE BeginUpdate
  <2> DEFINE f == [at |-> "scripts", index |-> 0, resume |-> FALSE]
  <2>1. f \in Frame /\ frames' = <<f>> \o frames
    BY <1>8 DEF BeginUpdate, Frame, Places
  <2>2. frames' \in Seq(Frame) /\ frames' # <<>>
    <3> HIDE DEF f, Frame
    <3> QED
      BY <2>1 DEF TypeOK
  <2> QED
    BY <1>8, <2>2 DEF BeginUpdate, TypeOK, world, kits
<1>9. CASE CloseBox
  <2>1. frames' \in Seq(Frame)
    <3> DEFINE f == [Top EXCEPT !.resume = FALSE]
    <3>1. frames # <<>> /\ frames' = <<f>> \o Tail(frames)
      BY <1>9 DEF CloseBox, TypeOK
    <3>2. f \in Frame
      BY <3>1, TailFrames DEF Top, Frame
    <3> HIDE DEF f, Frame
    <3> QED
      BY <3>1, <3>2, TailFrames
  <2> QED
    BY <1>0, <1>9, <2>1 DEF CloseBox, ResumeWorld, TypeOK, walk
<1>10. QED
  BY <1>1, <1>2, <1>3, <1>4, <1>5, <1>6, <1>7, <1>8, <1>9 DEF Player

LEMMA TypeNext == TypeOK /\ [Next]_vars => TypeOK'
<1>1. TypeOK /\ UNCHANGED vars => TypeOK'
  BY DEF TypeOK, vars
<1>2. QED
  BY <1>1, TypeUpdate, TypeScripts, TypeBeside DEF Next

\* Every variable of the update keeps its type.
THEOREM TickTypes == Spec => []TypeOK
BY TypeInit, TypeNext, PTL DEF Spec

-----------------------------------------------------------------------------
\* A kit that was right when it opened is right, or turned round while an
\* autosave has sent only the first of its two broadcasts.
BeliefTurned ==
    \A k \in Kits : joined[k] /\ belief[k] # "closed" =>
        (belief[k] = "paused") = (IF PairOpen THEN ~paused ELSE paused)

\* The walk is ahead of every creature it has updated, whatever was born or
\* deleted since, and none of those comes back.
WalkAhead ==
    /\ updated \subseteq gone \union ToSet(registry)
    /\ frames # <<>> =>
         /\ Top.at = "scripts" => updated = {}
         /\ Top.at \in {"pick", "brain", "chemistry"} =>
               \A i \in DOMAIN registry : registry[i] \in updated => i - 1 < Top.index
         /\ Top.at = "action" =>
               \A i \in DOMAIN registry : registry[i] \in updated => i - 1 <= Top.index

\* A file command has the timer off and knows whether it was on.
FileHolds ==
    file.command # "none" => frames = <<>> /\ ~timer /\ file.rearm = Running

TickInv == TypeOK /\ GuardIsUpdate /\ BeliefTurned /\ WalkAhead

LEMMA GuardNext == TypeOK /\ GuardIsUpdate /\ [Next]_vars => GuardIsUpdate'
<1> SUFFICES ASSUME TypeOK, GuardIsUpdate, [Next]_vars PROVE GuardIsUpdate'
  OBVIOUS
<1>0. frames \in Seq(Frame) /\ (box => frames # <<>>)
  BY DEF TypeOK
<1>1. Len(frames) \in Nat /\ (frames # <<>> => Len(frames) = 1 /\ Len(Tail(frames)) = 0)
      /\ (frames # <<>> => Tail(frames) = <<>>)
  <2>1. Len(frames) \in Nat /\ Len(frames) <= 1 /\ (Len(frames) = 0 => frames = <<>>)
    BY <1>0, EmptySeq DEF GuardIsUpdate
  <2> QED
    <3> SUFFICES ASSUME frames # <<>>
                 PROVE  Len(frames) = 1 /\ Len(Tail(frames)) = 0 /\ Tail(frames) = <<>>
      BY <2>1
    <3>1. Len(frames) = 1 /\ Tail(frames) \in Seq(Frame) /\ Len(Tail(frames)) = 0
      BY <2>1, TailFrames
    <3> QED
      BY <3>1, EmptySeq
<1>2. ASSUME UNCHANGED <<frames, guard>>
      PROVE  GuardIsUpdate'
  BY <1>2 DEF GuardIsUpdate
<1>3. ASSUME frames # <<>>, guard' = guard, NEW p \in Places, NEW n \in Nat, GoTo(p, n)
      PROVE  GuardIsUpdate'
  BY <1>3, GoToType DEF GuardIsUpdate
<1>4. ASSUME frames # <<>>, frames' = Tail(frames), guard' = FALSE
      PROVE  GuardIsUpdate'
  <2>1. frames' = <<>> /\ Len(frames') = 0
    BY <1>1, <1>4
  <2>2. (frames' # <<>>) = FALSE /\ Len(frames') <= 1
    BY <2>1
  <2> QED
    BY <1>4, <2>2 DEF GuardIsUpdate
<1>5. ASSUME frames # <<>>, guard' = guard, NEW b \in BOOLEAN,
             frames' = <<[Top EXCEPT !.resume = b]>> \o Tail(frames)
      PROVE  GuardIsUpdate'
  <2>1. Tail(frames) = <<>>
    BY <1>1, <1>5
  <2> DEFINE f == [Top EXCEPT !.resume = b]
  <2>2. frames' = <<f>> \o <<>>
    BY <1>5, <2>1
  <2> HIDE DEF f
  <2>3. frames' # <<>> /\ Len(frames') = 1
    BY <2>2
  <2> QED
    BY <1>5, <2>3 DEF GuardIsUpdate
<1>6. CASE Update
  <2>1. frames # <<>> => Top.index \in Nat /\ NextIndex \in Nat /\ cohort \in Nat /\ 0 \in Nat
    BY TailFrames, WorldTickAssumption DEF TypeOK, Frame, Top, NextIndex
  <2>2. \A p \in {"pick", "dreams", "brain", "chemistry", "action", "phase", "score",
                  "saving", "saved", "finish"} : p \in Places
    BY DEF Places
  <2>3. CASE IndexThrows \/ EndUpdate
    BY <1>4, <2>3 DEF IndexThrows, EndUpdate, Abandon, At, Working
  <2>4. CASE ~(IndexThrows \/ EndUpdate)
    <3>1. frames # <<>> /\ guard' = guard
      BY <1>6, <2>4 DEF Update, ScriptsDone, PickCreature, CohortDone, BrainDone, Chemistry,
        ActionDone, DreamsDone, PhaseDone, SaveReturns, SaveThrows, EndAutosave,
        BeginAutosave, NoAutosave, At, Working
    <3>2. \E p \in Places, n \in Nat : GoTo(p, n)
      <4>1. \E p \in {"pick", "dreams", "brain", "chemistry", "action", "phase", "score",
                      "saving", "saved", "finish"}, n \in {0, cohort, Top.index, NextIndex} :
               GoTo(p, n)
        <5> HIDE DEF Top, NextIndex, GoTo, At
        <5> QED
          BY <1>6, <2>4 DEF Update, ScriptsDone, PickCreature, CohortDone, BrainDone, Chemistry,
            ActionDone, DreamsDone, PhaseDone, SaveReturns, SaveThrows, EndAutosave,
            BeginAutosave, NoAutosave
      <4> QED
        BY <2>1, <2>2, <3>1, <4>1
    <3> QED
      BY <1>3, <3>1, <3>2
  <2> QED
    BY <2>3, <2>4
<1>7. CASE Scripts
  <2>1. CASE AskReplacement
    BY <1>5, <2>1 DEF AskReplacement, Working
  <2>2. CASE Fail
    BY <1>4, <2>2 DEF Fail, Working, Abandon
  <2> QED
    BY <1>2, <1>7, <2>1, <2>2 DEF Scripts, Birth, Deletion, OpenBox, SaveReport
<1>8. CASE Player
  <2>1. CASE OpenWorld
    BY <1>0, <2>1 DEF OpenWorld, GuardIsUpdate
  <2> QED
    BY <1>2, <1>8, <2>1 DEF Player, OpenKit, CloseKit, Pause, Play, EndFile, BeginFile
<1>9. CASE BeginUpdate
  <2> DEFINE f == [at |-> "scripts", index |-> 0, resume |-> FALSE]
  <2>1. frames = <<>> /\ frames' = <<f>> \o frames /\ guard' = TRUE
    BY <1>9 DEF BeginUpdate, MayBegin, GuardIsUpdate
  <2> HIDE DEF f
  <2>2. frames' # <<>> /\ Len(frames') = 1
    BY <2>1
  <2> QED
    <3>1. (frames' # <<>>) = TRUE /\ Len(frames') <= 1
      BY <2>2
    <3> QED
      BY <2>1, <3>1 DEF GuardIsUpdate
<1>10. CASE CloseBox
  BY <1>0, <1>5, <1>10 DEF CloseBox
<1>11. CASE UNCHANGED vars
  BY <1>2, <1>11 DEF vars
<1> QED
  BY <1>6, <1>7, <1>8, <1>9, <1>10, <1>11 DEF Next

\* The re-entrancy guard is set exactly while an update is on the stack.
THEOREM TickGuarded == Spec => [](TypeOK /\ GuardIsUpdate)
<1>1. Init => TypeOK /\ GuardIsUpdate
  <2>1. ASSUME Init PROVE GuardIsUpdate
    <3>1. frames = <<>> /\ (frames # <<>>) = FALSE /\ guard = FALSE /\ Len(frames) <= 1
      BY <2>1 DEF Init
    <3> QED
      BY <3>1 DEF GuardIsUpdate
  <2> QED
    BY <2>1, TypeInit
<1>2. TypeOK /\ GuardIsUpdate /\ [Next]_vars => TypeOK' /\ GuardIsUpdate'
  BY TypeNext, GuardNext
<1> QED
  BY <1>1, <1>2, PTL DEF Spec

-----------------------------------------------------------------------------
\* With one call on the stack, an autosave is half sent exactly if that call is.
Saving == frames # <<>> /\ frames[1].at \in {"saving", "saved"}

LEMMA PairIsSaving ==
  /\ TypeOK /\ GuardIsUpdate => (PairOpen <=> Saving)
  /\ TypeOK' /\ GuardIsUpdate' => (PairOpen' <=> Saving')
<1>1. ASSUME TypeOK, GuardIsUpdate PROVE PairOpen <=> Saving
  <2>0. frames \in Seq(Frame) /\ Len(frames) <= 1
    BY <1>1 DEF TypeOK, GuardIsUpdate
  <2>1. Len(frames) \in Nat /\ (frames # <<>> <=> Len(frames) = 1)
    <3>1. Len(frames) \in Nat /\ (Len(frames) = 0 <=> frames = <<>>)
      BY <2>0, EmptySeq
    <3>2. \A n \in Nat : n <= 1 => n = 0 \/ n = 1
      OBVIOUS
    <3>3. Len(frames) = 0 \/ Len(frames) = 1
      BY <2>0, <3>1, <3>2, Zenon
    <3> QED
      BY <3>1, <3>3
  <2> QED
    BY <2>0, <2>1 DEF PairOpen, Saving
<1>2. ASSUME TypeOK', GuardIsUpdate' PROVE PairOpen' <=> Saving'
  <2>0. frames' \in Seq(Frame) /\ Len(frames') <= 1
    BY <1>2 DEF TypeOK, GuardIsUpdate
  <2>1. Len(frames') \in Nat /\ (frames' # <<>> <=> Len(frames') = 1)
    <3>1. Len(frames') \in Nat /\ (Len(frames') = 0 <=> frames' = <<>>)
      BY <2>0, EmptySeq
    <3>2. \A n \in Nat : n <= 1 => n = 0 \/ n = 1
      OBVIOUS
    <3>3. Len(frames') = 0 \/ Len(frames') = 1
      BY <2>0, <3>1, <3>2, Zenon
    <3> QED
      BY <3>1, <3>3
  <2> QED
    BY <2>0, <2>1 DEF PairOpen, Saving
<1> QED
  BY <1>1, <1>2

\* What a kit believes survives a step that tells it nothing and changes nothing ...
LEMMA BeliefSame ==
  BeliefTurned /\ UNCHANGED <<belief, joined, paused>> /\ (PairOpen' <=> PairOpen)
    => BeliefTurned'
BY DEF BeliefTurned

\* ... and one that tells it of a change of the pause or of a half of the pair.
LEMMA BeliefToggled ==
  ASSUME TypeOK, BeliefTurned, belief' = Told, joined' = joined, paused' \in BOOLEAN,
         \/ paused' = ~paused /\ (PairOpen' <=> PairOpen)
         \/ paused' = paused /\ (PairOpen' <=> ~PairOpen)
  PROVE  BeliefTurned'
<1> SUFFICES ASSUME NEW k \in Kits, joined[k], belief'[k] # "closed"
             PROVE  (belief'[k] = "paused") <=> (IF PairOpen' THEN ~paused' ELSE paused')
  BY DEF BeliefTurned
<1>1. belief[k] \in {"closed", "running", "paused"} /\ paused \in BOOLEAN
  BY DEF TypeOK
<1>2. belief[k] # "closed" /\ (belief'[k] = "paused" <=> belief[k] # "paused")
  BY <1>1 DEF Told
<1>3. (belief[k] = "paused") <=> (IF PairOpen THEN ~paused ELSE paused)
  BY <1>2 DEF BeliefTurned
<1> QED
  BY <1>1, <1>2, <1>3

LEMMA BeliefNext ==
  TypeOK /\ GuardIsUpdate /\ BeliefTurned /\ [Next]_vars => BeliefTurned'
<1> SUFFICES ASSUME TypeOK, GuardIsUpdate, BeliefTurned, [Next]_vars PROVE BeliefTurned'
  OBVIOUS
<1>0. /\ frames \in Seq(Frame) /\ (box => frames # <<>>) /\ paused \in BOOLEAN
      /\ (PairOpen <=> Saving) /\ (PairOpen' <=> Saving')
  BY PairIsSaving, TypeNext, GuardNext DEF TypeOK
<1>1. ASSUME frames # <<>>, NEW p \in Places, NEW n \in Nat, GoTo(p, n)
      PROVE  Saving' <=> p \in {"saving", "saved"}
  BY <1>1, GoToType DEF Saving
<1>2. ASSUME frames # <<>>, frames' = Tail(frames)
      PROVE  ~Saving'
  <2>1. Len(Tail(frames)) = Len(frames) - 1 /\ Len(frames) \in Nat \ {0} /\ Len(frames) <= 1
        /\ Tail(frames) \in Seq(Frame)
    BY <1>2, TailFrames DEF GuardIsUpdate
  <2>2. Len(frames') = 0
    BY <1>2, <2>1
  <2>3. frames' = <<>>
    BY <1>2, <2>1, <2>2, EmptySeq
  <2> QED
    BY <2>3 DEF Saving
<1>3. ASSUME frames # <<>>, NEW b \in BOOLEAN,
             frames' = <<[Top EXCEPT !.resume = b]>> \o Tail(frames)
      PROVE  Saving' <=> Saving
  <2> DEFINE f == [Top EXCEPT !.resume = b]
  <2>1. f.at = frames[1].at
    BY <1>3, TailFrames DEF Top, Frame
  <2>2. frames' = <<f>> \o Tail(frames) /\ Tail(frames) \in Seq(Frame)
    BY <1>3, TailFrames
  <2> HIDE DEF f
  <2>3. frames' # <<>> /\ frames'[1] = f
    BY <2>2
  <2> QED
    BY <1>3, <2>1, <2>3 DEF Saving
<1>4. CASE Update
  <2>1. frames # <<>> /\ Top = frames[1] /\ Top.index \in Nat /\ NextIndex \in Nat
        /\ cohort \in Nat /\ joined' = joined /\ paused' = paused
    <3>1. frames # <<>> /\ joined' = joined /\ paused' = paused
      BY <1>4 DEF Update, ScriptsDone, PickCreature, CohortDone, BrainDone, Chemistry,
       ActionDone, IndexThrows, DreamsDone, PhaseDone, SaveReturns, SaveThrows, EndAutosave,
       EndUpdate, BeginAutosave, NoAutosave, At, Working, Abandon, world, kits
    <3> QED
      BY <3>1, TailFrames, WorldTickAssumption DEF TypeOK, Frame, Top, NextIndex
  <2>2. CASE BeginAutosave
    <3>1. GoTo("saving", 0) /\ Top.at = "score" /\ belief' = Told
      BY <2>2 DEF BeginAutosave, At
    <3>2. ~Saving /\ Saving'
      BY <1>1, <2>1, <3>1 DEF Saving, Places
    <3> QED
      BY <1>0, <2>1, <3>1, <3>2, BeliefToggled
  <2>3. CASE EndAutosave
    <3>1. GoTo("finish", 0) /\ Top.at = "saved" /\ belief' = Told
      BY <2>3 DEF EndAutosave, At
    <3>2. Saving /\ ~Saving'
      BY <1>1, <2>1, <3>1 DEF Saving, Places
    <3> QED
      BY <1>0, <2>1, <3>1, <3>2, BeliefToggled
  <2>4. CASE SaveReturns \/ SaveThrows
    <3>1. GoTo("saved", 0) /\ Top.at = "saving" /\ belief' = belief
      BY <2>4 DEF SaveReturns, SaveThrows, At, kits
    <3>2. Saving /\ Saving'
      BY <1>1, <2>1, <3>1 DEF Saving, Places
    <3> QED
      BY <1>0, <2>1, <3>1, <3>2, BeliefSame
  <2>5. CASE IndexThrows \/ EndUpdate
    <3>1. frames' = Tail(frames) /\ Top.at \notin {"saving", "saved"} /\ belief' = belief
      BY <2>5 DEF IndexThrows, EndUpdate, Abandon, At, kits
    <3>2. ~Saving /\ ~Saving'
      BY <1>2, <2>1, <3>1 DEF Saving
    <3> QED
      BY <1>0, <2>1, <3>1, <3>2, BeliefSame
  <2>6. CASE \/ ScriptsDone \/ PickCreature \/ CohortDone \/ BrainDone \/ Chemistry
             \/ ActionDone \/ DreamsDone \/ PhaseDone \/ NoAutosave
    <3>1. /\ Top.at \notin {"saving", "saved"} /\ belief' = belief
          /\ \E p \in {"pick", "dreams", "brain", "chemistry", "action", "phase", "score",
                      "finish"}, n \in {0, cohort, Top.index, NextIndex} :  GoTo(p, n)
      <4> HIDE DEF Top, NextIndex, GoTo
      <4> QED
        BY <2>6 DEF ScriptsDone, PickCreature, CohortDone, BrainDone, Chemistry, ActionDone,
          DreamsDone, PhaseDone, NoAutosave, At, kits
    <3>2. ~Saving
      BY <2>1, <3>1 DEF Saving
    <3>3. ~Saving'
      <4>1. PICK p \in {"pick", "dreams", "brain", "chemistry", "action", "phase", "score",
                        "finish"}, n \in {0, cohort, Top.index, NextIndex} :  GoTo(p, n)
        BY <3>1
      <4>2. p \in Places /\ p \notin {"saving", "saved"} /\ n \in Nat
        BY <2>1, <4>1 DEF Places
      <4> QED
        BY <1>1, <2>1, <4>1, <4>2
    <3> QED
      BY <1>0, <2>1, <3>1, <3>2, <3>3, BeliefSame
  <2> QED
    BY <1>4, <2>2, <2>3, <2>4, <2>5, <2>6 DEF Update
<1>5. CASE Scripts
  <2>1. CASE AskReplacement
    BY <1>0, <1>3, <2>1, BeliefToggled DEF AskReplacement, Working, PauseWorld, Running
  <2>2. CASE Fail
    <3>1. ~Saving
      BY <2>2 DEF Fail, Saving, Working, ScriptPlaces, Top
    <3>2. ~Saving' /\ UNCHANGED <<belief, joined, paused>>
      BY <1>2, <2>2 DEF Fail, Working, Abandon, kits, world
    <3> QED
      BY <1>0, <3>1, <3>2, BeliefSame
  <2>3. CASE ~(AskReplacement \/ Fail)
    <3>1. UNCHANGED <<frames, belief, joined, paused>>
      BY <1>5, <2>3 DEF Scripts, Birth, Deletion, OpenBox, SaveReport, kits, world
    <3> QED
      BY <1>0, <3>1, BeliefSame DEF Saving
  <2> QED
    BY <2>1, <2>2, <2>3
<1>6. CASE Player
  <2>1. ASSUME NEW k \in Kits, OpenKit(k) PROVE BeliefTurned'
    BY <1>0, <2>1 DEF OpenKit, world, BeliefTurned, Saving, TypeOK
  <2>2. ASSUME NEW k \in Kits, CloseKit(k) PROVE BeliefTurned'
    BY <1>0, <2>2 DEF CloseKit, world, BeliefTurned, Saving, TypeOK
  <2>3. CASE Pause
    <3>1. belief' = Told /\ joined' = joined /\ paused' = ~paused /\ frames' = frames
      BY <1>0, <2>3 DEF Pause, PauseWorld, Running
    <3> QED
      BY <1>0, <3>1, BeliefToggled DEF Saving
  <2>4. CASE Play
    <3>1. belief' = Told /\ joined' = joined /\ paused' = ~paused /\ frames' = frames
      BY <1>0, <2>4 DEF Play, ResumeWorld, Running
    <3> QED
      BY <1>0, <3>1, BeliefToggled DEF Saving
  <2>5. CASE \/ EndFile \/ OpenWorld
             \/ \E command \in {"save", "open"} : BeginFile(command)
    <3>1. UNCHANGED <<frames, belief, joined, paused>>
      BY <2>5 DEF EndFile, OpenWorld, BeginFile, kits
    <3> QED
      BY <1>0, <3>1, BeliefSame DEF Saving
  <2> QED
    BY <1>6, <2>1, <2>2, <2>3, <2>4, <2>5 DEF Player
<1>7. CASE BeginUpdate
  <2>1. frames = <<>> /\ UNCHANGED <<belief, joined, paused>>
    BY <1>7 DEF BeginUpdate, MayBegin, GuardIsUpdate, kits, world
  <2> DEFINE f == [at |-> "scripts", index |-> 0, resume |-> FALSE]
  <2>2. f.at = "scripts" /\ frames' = <<f>> \o frames
    BY <1>7 DEF BeginUpdate
  <2> HIDE DEF f
  <2>3. frames'[1] = f
    BY <2>1, <2>2
  <2>4. ~Saving /\ ~Saving'
    BY <2>1, <2>2, <2>3 DEF Saving
  <2> QED
    BY <1>0, <2>1, <2>4, BeliefSame
<1>8. CASE CloseBox
  <2>1. Saving' <=> Saving
    BY <1>0, <1>3, <1>8 DEF CloseBox
  <2>2. CASE Top.resume /\ ~Running
    BY <1>0, <1>8, <2>1, <2>2, BeliefToggled DEF CloseBox, ResumeWorld, Running
  <2>3. CASE ~(Top.resume /\ ~Running)
    BY <1>0, <1>8, <2>1, <2>3, BeliefSame DEF CloseBox
  <2> QED
    BY <2>2, <2>3
<1>9. CASE UNCHANGED vars
  BY <1>0, <1>9, BeliefSame DEF vars, Saving
<1> QED
  BY <1>4, <1>5, <1>6, <1>7, <1>8, <1>9 DEF Next

-----------------------------------------------------------------------------
LEMMA GoesOn ==
  ASSUME TypeOK, frames # <<>>
  PROVE  /\ Top = frames[1] /\ Top \in Frame /\ Top.index \in Nat /\ Top.index \in Int
         /\ cohort \in Nat /\ NextIndex \in Nat /\ Top.index < NextIndex
         /\ \A p \in Places, n \in Nat :
               GoTo(p, n) => frames' # <<>> /\ Top'.at = p /\ Top'.index = n
<1>1. Top = frames[1] /\ Top \in Frame /\ Top.index \in Nat
  BY TailFrames DEF Top, Frame
<1>2. cohort \in Nat /\ NextIndex \in Nat /\ Top.index < NextIndex
  BY <1>1, WorldTickAssumption DEF TypeOK, NextIndex
<1>3. ASSUME NEW p \in Places, NEW n \in Nat, GoTo(p, n)
      PROVE  frames' # <<>> /\ Top'.at = p /\ Top'.index = n
  BY <1>3, GoToType DEF Top
<1> QED
  BY <1>1, <1>2, <1>3

LEMMA WalkUpdate ==
  TypeOK /\ GuardIsUpdate /\ WalkAhead /\ Update => WalkAhead'
<1> SUFFICES ASSUME TypeOK, GuardIsUpdate, WalkAhead, Update PROVE WalkAhead'
  OBVIOUS
<1>0. frames # <<>> /\ registry' = registry /\ gone' = gone
  BY DEF Update, ScriptsDone, PickCreature, CohortDone, BrainDone, Chemistry, ActionDone,
     IndexThrows, DreamsDone, PhaseDone, SaveReturns, SaveThrows, EndAutosave, EndUpdate,
     BeginAutosave, NoAutosave, At, Working, walk
<1>1. /\ Top.index \in Nat /\ cohort \in Nat /\ NextIndex \in Nat /\ Top.index < NextIndex
      /\ \A p \in Places, n \in Nat :
            GoTo(p, n) => frames' # <<>> /\ Top'.at = p /\ Top'.index = n
  BY <1>0, GoesOn
<1>2. /\ Len(registry) \in Nat /\ DOMAIN registry = 1 .. Len(registry)
      /\ \A i, j \in DOMAIN registry : registry[i] = registry[j] => i = j
  BY DEF TypeOK, IsInjective
<1>3. CASE ScriptsDone
  <2>1. Top.at = "scripts" /\ updated = {} /\ updated' = {} /\ GoTo("pick", cohort)
    BY <1>0, <1>3 DEF ScriptsDone, At, walk, WalkAhead
  <2> QED
    BY <1>0, <1>1, <2>1 DEF WalkAhead, Places
<1>4. CASE PickCreature
  <2>1. Top.at = "pick" /\ updated' = updated
        /\ \/ GoTo("brain", Top.index) \/ GoTo("chemistry", Top.index) \/ GoTo("pick", NextIndex)
    BY <1>4 DEF PickCreature, At
  <2>2. frames' # <<>> /\ Top'.at \in {"brain", "chemistry", "pick"}
        /\ Top'.index \in Nat /\ Top.index <= Top'.index
    BY <1>1, <2>1 DEF Places
  <2>3. \A i \in DOMAIN registry : registry[i] \in updated => i - 1 < Top.index
    BY <1>0, <2>1 DEF WalkAhead
  <2>4. \A i \in DOMAIN registry : registry[i] \in updated => i - 1 < Top'.index
    BY <1>1, <1>2, <2>2, <2>3
  <2> QED
    BY <1>0, <2>1, <2>2, <2>4 DEF WalkAhead
<1>5. CASE BrainDone
  <2>1. Top.at = "brain" /\ updated' = updated /\ GoTo("chemistry", Top.index)
    BY <1>5 DEF BrainDone, At, walk
  <2>2. frames' # <<>> /\ Top'.at = "chemistry" /\ Top'.index = Top.index
    BY <1>1, <2>1 DEF Places
  <2> QED
    BY <1>0, <2>1, <2>2 DEF WalkAhead
<1>6. CASE Chemistry
  <2>1. Top.at = "chemistry" /\ GoTo("action", Top.index) /\ Top.index < Len(registry)
        /\ updated' = updated \union {registry[Top.index + 1]}
    BY <1>6 DEF Chemistry, At, InRegistry, Creature
  <2>2. frames' # <<>> /\ Top'.at = "action" /\ Top'.index = Top.index
    BY <1>1, <2>1 DEF Places
  <2>3. Top.index + 1 \in DOMAIN registry /\ registry[Top.index + 1] \in ToSet(registry)
    BY <1>1, <1>2, <2>1 DEF ToSet
  <2>4. \A i \in DOMAIN registry : registry[i] \in updated => i - 1 < Top.index
    BY <1>0, <2>1 DEF WalkAhead
  <2>5. ASSUME NEW i \in DOMAIN registry, registry[i] \in updated'
        PROVE  i - 1 <= Top.index
    <3>1. CASE registry[i] \in updated
      BY <1>1, <1>2, <2>4, <3>1
    <3>2. CASE registry[i] = registry[Top.index + 1]
      <4>1. i = Top.index + 1
        BY <1>2, <2>3, <3>2
      <4> QED
        BY <1>1, <4>1
    <3> QED
      BY <2>1, <2>5, <3>1, <3>2
  <2>6. updated' \subseteq gone \union ToSet(registry)
    BY <2>1, <2>3 DEF WalkAhead
  <2> QED
    BY <1>0, <2>2, <2>5, <2>6 DEF WalkAhead
<1>7. CASE ActionDone
  <2>1. Top.at = "action" /\ updated' = updated /\ GoTo("pick", NextIndex)
    BY <1>7 DEF ActionDone, At, walk
  <2>2. frames' # <<>> /\ Top'.at = "pick" /\ Top'.index = NextIndex
    BY <1>1, <2>1 DEF Places
  <2>3. \A i \in DOMAIN registry : registry[i] \in updated => i - 1 <= Top.index
    BY <1>0, <2>1 DEF WalkAhead
  <2>4. \A i \in DOMAIN registry : registry[i] \in updated => i - 1 < NextIndex
    BY <1>1, <1>2, <2>3
  <2> QED
    BY <1>0, <2>1, <2>2, <2>4 DEF WalkAhead
<1>8. CASE IndexThrows \/ EndUpdate
  <2>1. frames' = Tail(frames) /\ updated' = updated
    BY <1>8 DEF IndexThrows, EndUpdate, Abandon, walk
  <2>2. Len(Tail(frames)) = Len(frames) - 1 /\ Len(frames) \in Nat \ {0} /\ Len(frames) <= 1
        /\ Tail(frames) \in Seq(Frame)
    BY <1>0, TailFrames DEF GuardIsUpdate
  <2>3. Len(frames') = 0
    BY <2>1, <2>2
  <2>4. frames' = <<>>
    BY <2>1, <2>2, <2>3, EmptySeq
  <2> QED
    BY <1>0, <2>1, <2>4 DEF WalkAhead
<1>9. CASE \/ CohortDone \/ DreamsDone \/ PhaseDone \/ SaveReturns \/ SaveThrows
           \/ EndAutosave \/ BeginAutosave \/ NoAutosave
  <2>1. /\ updated' = updated
        /\ \E p \in {"dreams", "phase", "score", "saving", "saved", "finish"} : GoTo(p, 0)
    <3> HIDE DEF GoTo
    <3> QED
      BY <1>9 DEF CohortDone, DreamsDone, PhaseDone, SaveReturns, SaveThrows, EndAutosave,
        BeginAutosave, NoAutosave, walk
  <2>2. PICK p \in {"dreams", "phase", "score", "saving", "saved", "finish"} : GoTo(p, 0)
    BY <2>1
  <2>3. p \in Places
    BY DEF Places
  <2>4. Top'.at = p
    BY <1>1, <2>2, <2>3
  <2> QED
    BY <1>0, <2>1, <2>4 DEF WalkAhead
<1> QED
  BY <1>3, <1>4, <1>5, <1>6, <1>7, <1>8, <1>9 DEF Update

\* A call that only waits at its place, and a stack that is empty, keep the walk.
LEMMA WalkStays ==
  ASSUME WalkAhead, UNCHANGED <<registry, gone, updated>>,
         \/ frames' = <<>>
         \/ frames # <<>> /\ Top'.at = Top.at /\ Top'.index = Top.index
  PROVE  WalkAhead'
BY DEF WalkAhead

LEMMA WalkBirth ==
  ASSUME TypeOK, WalkAhead, NEW c \in Creatures, Birth(c)
  PROVE  WalkAhead'
<1>1. registry' = Append(registry, c) /\ c \notin gone \union ToSet(registry)
      /\ UNCHANGED <<gone, updated, frames>>
  BY DEF Birth
<1>2. /\ Len(registry) \in Nat /\ DOMAIN registry = 1 .. Len(registry)
      /\ DOMAIN registry' = 1 .. Len(registry) + 1
      /\ \A i \in 1 .. Len(registry) : registry'[i] = registry[i]
      /\ registry'[Len(registry) + 1] = c
  BY <1>1 DEF TypeOK
<1>3. c \notin updated
  BY <1>1 DEF WalkAhead
<1>4. updated' \subseteq gone' \union ToSet(registry')
  BY <1>1, <1>2 DEF ToSet, WalkAhead
<1>5. ASSUME NEW i \in DOMAIN registry', registry'[i] \in updated
      PROVE  i \in DOMAIN registry /\ registry[i] \in updated
  <2>1. i # Len(registry) + 1
    <3>1. ASSUME i = Len(registry) + 1 PROVE registry'[i] = c
      BY <1>2, <3>1, Zenon
    <3> QED
      BY <1>3, <1>5, <3>1, Zenon
  <2>2. i \in 1 .. Len(registry)
    BY <1>2, <2>1
  <2> QED
    BY <1>2, <1>5, <2>2
<1>6. Top' = Top
  BY <1>1 DEF Top
<1> QED
  BY <1>1, <1>4, <1>5, <1>6 DEF WalkAhead

LEMMA WalkDeletion ==
  ASSUME TypeOK, WalkAhead, NEW c \in Creatures, Deletion(c)
  PROVE  WalkAhead'
<1>1. PICK n \in DOMAIN registry : registry[n] = c /\ registry' = RemoveAt(registry, n)
  BY DEF Deletion
<1>2. gone' = gone \union {c} /\ UNCHANGED <<updated, frames>>
  BY DEF Deletion
<1>3. /\ registry' \in Seq(Creatures) /\ Len(registry') = Len(registry) - 1
      /\ \A i \in 1 .. Len(registry) - 1 :
            registry'[i] = IF i < n THEN registry[i] ELSE registry[i + 1]
  BY <1>1, RemovedType DEF TypeOK
<1>4. Len(registry) \in Nat /\ DOMAIN registry = 1 .. Len(registry)
      /\ DOMAIN registry' = 1 .. Len(registry) - 1 /\ n \in 1 .. Len(registry)
  <2> HIDE DEF RemoveAt
  <2> QED
    BY <1>3 DEF TypeOK
<1>5. Top' = Top
  BY <1>2 DEF Top
<1>6. ASSUME NEW i \in DOMAIN registry', registry'[i] \in updated
      PROVE  \E j \in DOMAIN registry : registry[j] \in updated /\ i <= j
  <2>1. i \in DOMAIN registry /\ i + 1 \in DOMAIN registry /\ i <= i /\ i <= i + 1
    BY <1>4
  <2>2. registry'[i] = registry[i] \/ registry'[i] = registry[i + 1]
    BY <1>3, <1>4
  <2> QED
    BY <1>6, <2>1, <2>2
<1>7. ASSUME NEW j \in DOMAIN registry, registry[j] # c
      PROVE  registry[j] \in ToSet(registry')
  <2>1. j # n
    BY <1>1, <1>7
  <2>2. CASE j < n
    <3>1. j \in 1 .. Len(registry) - 1 /\ registry'[j] = registry[j]
      BY <1>3, <1>4, <2>2
    <3> QED
      BY <1>4, <3>1 DEF ToSet
  <2>3. CASE j > n
    <3>1. j - 1 \in 1 .. Len(registry) - 1 /\ ~(j - 1 < n) /\ (j - 1) + 1 = j
      BY <1>4, <2>3
    <3>2. registry'[j - 1] = registry[j]
      BY <1>3, <3>1
    <3> QED
      BY <1>4, <3>1, <3>2 DEF ToSet
  <2> QED
    BY <1>4, <2>1, <2>2, <2>3
<1>8. updated' \subseteq gone' \union ToSet(registry')
  <2> SUFFICES ASSUME NEW u \in updated, u # c, u \notin gone PROVE u \in ToSet(registry')
    BY <1>2
  <2>1. u \in ToSet(registry)
    BY DEF WalkAhead
  <2>2. PICK j \in DOMAIN registry : registry[j] = u
    BY <2>1 DEF ToSet
  <2> QED
    BY <1>7, <2>2
<1>9. ASSUME frames # <<>> PROVE Top.index \in Nat
  BY <1>9, GoesOn
<1>10. ASSUME frames # <<>>, Top.at = "scripts" PROVE updated = {}
  BY <1>10 DEF WalkAhead
<1>11. ASSUME frames # <<>>, Top.at \in {"pick", "brain", "chemistry"},
              NEW i \in DOMAIN registry', registry'[i] \in updated
       PROVE  i - 1 < Top.index
  <2>1. PICK j \in DOMAIN registry : registry[j] \in updated /\ i <= j
    BY <1>6, <1>11
  <2>2. j - 1 < Top.index
    BY <1>11, <2>1 DEF WalkAhead
  <2> QED
    BY <1>4, <1>9, <1>11, <2>1, <2>2
<1>12. ASSUME frames # <<>>, Top.at = "action",
              NEW i \in DOMAIN registry', registry'[i] \in updated
       PROVE  i - 1 <= Top.index
  <2>1. PICK j \in DOMAIN registry : registry[j] \in updated /\ i <= j
    BY <1>6, <1>12
  <2>2. j - 1 <= Top.index
    BY <1>12, <2>1 DEF WalkAhead
  <2> QED
    BY <1>4, <1>9, <1>12, <2>1, <2>2
<1> QED
  BY <1>2, <1>5, <1>8, <1>10, <1>11, <1>12 DEF WalkAhead

LEMMA WalkNext ==
  TypeOK /\ GuardIsUpdate /\ WalkAhead /\ [Next]_vars => WalkAhead'
<1> SUFFICES ASSUME TypeOK, GuardIsUpdate, WalkAhead, [Next]_vars PROVE WalkAhead'
  OBVIOUS
<1>0. box => frames # <<>>
  BY DEF TypeOK
<1>1. ASSUME UNCHANGED <<registry, gone, updated, frames>> PROVE WalkAhead'
  BY <1>1 DEF WalkAhead, Top
<1>2. ASSUME frames # <<>>, NEW b \in BOOLEAN,
             frames' = <<[Top EXCEPT !.resume = b]>> \o Tail(frames)
      PROVE  Top'.at = Top.at /\ Top'.index = Top.index
  <2> DEFINE f == [Top EXCEPT !.resume = b]
  <2>1. f.at = Top.at /\ f.index = Top.index
    BY <1>2, GoesOn DEF Frame
  <2>2. frames' = <<f>> \o Tail(frames) /\ Tail(frames) \in Seq(Frame)
    BY <1>2, TailFrames
  <2> HIDE DEF f
  <2>3. frames'[1] = f
    BY <2>2
  <2> QED
    BY <2>1, <2>3 DEF Top
<1>3. CASE Update
  BY <1>3, WalkUpdate
<1>4. CASE Scripts
  <2>1. CASE AskReplacement
    BY <1>2, <2>1, WalkStays DEF AskReplacement, Working, walk
  <2>2. CASE Fail
    <3>1. frames # <<>> /\ frames' = Tail(frames) /\ UNCHANGED <<registry, gone, updated>>
      BY <2>2 DEF Fail, Working, Abandon, walk
    <3>2. Len(Tail(frames)) = Len(frames) - 1 /\ Len(frames) \in Nat \ {0} /\ Len(frames) <= 1
          /\ Tail(frames) \in Seq(Frame)
      BY <3>1, TailFrames DEF GuardIsUpdate
    <3>3. Len(frames') = 0
      BY <3>1, <3>2
    <3>4. frames' = <<>>
      BY <3>1, <3>2, <3>3, EmptySeq
    <3> QED
      BY <3>1, <3>4, WalkStays
  <2>3. CASE \E c \in Creatures : Birth(c) \/ Deletion(c)
    BY <2>3, WalkBirth, WalkDeletion
  <2>4. CASE OpenBox \/ SaveReport
    BY <1>1, <2>4 DEF OpenBox, SaveReport, walk
  <2> QED
    BY <1>4, <2>1, <2>2, <2>3, <2>4 DEF Scripts
<1>5. CASE Player
  <2>1. CASE OpenWorld
    BY <2>1 DEF OpenWorld, WalkAhead
  <2> QED
    BY <1>1, <1>5, <2>1 DEF Player, OpenKit, CloseKit, Pause, Play, EndFile, BeginFile, walk
<1>6. CASE BeginUpdate
  <2> DEFINE f == [at |-> "scripts", index |-> 0, resume |-> FALSE]
  <2>1. frames = <<>> /\ frames' = <<f>> \o frames /\ f.at = "scripts" /\ updated' = {}
    BY <1>6 DEF BeginUpdate, MayBegin, GuardIsUpdate
  <2> HIDE DEF f
  <2>2. frames'[1] = f
    BY <2>1
  <2>3. Top'.at = "scripts"
    BY <2>1, <2>2 DEF Top
  <2> QED
    BY <2>1, <2>3 DEF WalkAhead
<1>7. CASE CloseBox
  <2>1. frames # <<>> /\ UNCHANGED <<registry, gone, updated>>
        /\ frames' = <<[Top EXCEPT !.resume = FALSE]>> \o Tail(frames)
    BY <1>0, <1>7 DEF CloseBox, walk
  <2> QED
    BY <1>2, <2>1, WalkStays
<1>8. CASE UNCHANGED vars
  BY <1>1, <1>8 DEF vars
<1> QED
  BY <1>3, <1>4, <1>5, <1>6, <1>7, <1>8 DEF Next

-----------------------------------------------------------------------------
LEMMA InvInit == Init => TickInv
<1> SUFFICES ASSUME Init PROVE TickInv
  OBVIOUS
<1>1. TypeOK
  BY TypeInit
<1>2. GuardIsUpdate
  <2>1. frames = <<>> /\ (frames # <<>>) = FALSE /\ guard = FALSE /\ Len(frames) <= 1
    BY DEF Init
  <2> QED
    BY <2>1 DEF GuardIsUpdate
<1>3. BeliefTurned /\ WalkAhead
  BY DEF Init, BeliefTurned, WalkAhead
<1> QED
  BY <1>1, <1>2, <1>3 DEF TickInv

LEMMA InvNext == TickInv /\ [Next]_vars => TickInv'
BY TypeNext, GuardNext, BeliefNext, WalkNext DEF TickInv

\* The inductive invariant of the update holds always: guard, index of the walk and what each
\* kit believes of the pause.
THEOREM TickInductive == Spec => []TickInv
BY InvInit, InvNext, PTL DEF Spec

\* Every kit that opened on a right view of the world keeps it, for any number of
\* kits, boxes, failures and autosaves, and whatever the hands do.
THEOREM KitsKeepTheirBelief == Spec => []BeliefKept
<1>1. TickInv => BeliefKept
  BY DEF TickInv, BeliefTurned, BeliefKept
<1> QED
  BY <1>1, TickInductive, PTL

\* No creature is updated twice in one update, however many there are and
\* whatever the stride.
THEOREM OneChemistryEach == Spec => ChemistryOnce
<1>1. TickInv /\ [Next]_vars
        => [\A c \in updated : Chemistry => Creature(Top.index) # c]_vars
  <2> SUFFICES ASSUME TickInv, NEW c \in updated, Chemistry, Creature(Top.index) = c
               PROVE  FALSE
    OBVIOUS
  <2>1. frames # <<>> /\ Top.at = "chemistry" /\ Top.index < Len(registry)
    BY DEF Chemistry, At, Working, InRegistry
  <2>2. Top.index \in Nat
    BY <2>1, GoesOn DEF TickInv
  <2>3. Top.index + 1 \in DOMAIN registry /\ registry[Top.index + 1] \in updated
    BY <2>1, <2>2 DEF Creature, TickInv, TypeOK
  <2>4. (Top.index + 1) - 1 < Top.index
    BY <2>1, <2>3 DEF TickInv, WalkAhead
  <2> QED
    BY <2>2, <2>4
<1> QED
  BY <1>1, TickInductive, PTL DEF Spec, ChemistryOnce

-----------------------------------------------------------------------------
LEMMA HoldsNext ==
  ASSUME "openpaused" \notin Hands, "consoleinsave" \notin Hands,
         TypeOK, GuardIsUpdate, FileHolds, TimerMatchesLatch, [Next]_vars
  PROVE  FileHolds' /\ TimerMatchesLatch'
<1>0. /\ timer \in BOOLEAN /\ paused \in BOOLEAN /\ (box => frames # <<>>)
      /\ file.command \in {"none", "save", "open"} /\ file.rearm \in BOOLEAN
  BY DEF TypeOK
<1>1. ASSUME UNCHANGED <<file, timer, paused>>, frames' = frames \/ file.command = "none"
      PROVE  FileHolds' /\ TimerMatchesLatch'
  BY <1>1 DEF FileHolds, TimerMatchesLatch, Running
<1>2. ASSUME file' = file, file.command = "none",
             PauseWorld \/ ResumeWorld
      PROVE  FileHolds' /\ TimerMatchesLatch'
  BY <1>2 DEF FileHolds, TimerMatchesLatch, Running, PauseWorld, ResumeWorld
<1>3. frames # <<>> => file.command = "none"
  BY DEF FileHolds
<1>4. CASE Update
  <2>1. frames # <<>> /\ UNCHANGED <<file, timer, paused>>
    BY <1>4 DEF Update, ScriptsDone, PickCreature, CohortDone, BrainDone, Chemistry,
      ActionDone, IndexThrows, DreamsDone, PhaseDone, SaveReturns, SaveThrows, EndAutosave,
      EndUpdate, BeginAutosave, NoAutosave, At, Working, world
  <2> QED
    BY <1>1, <1>3, <2>1
<1>5. CASE Scripts
  <2>1. CASE AskReplacement
    BY <1>2, <1>3, <2>1 DEF AskReplacement, Working
  <2>2. CASE ~AskReplacement
    <3>1. frames # <<>> /\ UNCHANGED <<file, timer, paused>>
      BY <1>5, <2>2 DEF Scripts, Birth, Deletion, OpenBox, SaveReport, Fail, Working, At, world
    <3> QED
      BY <1>1, <1>3, <3>1
  <2> QED
    BY <2>1, <2>2
<1>6. CASE Player
  <2>1. CASE Pause \/ Play
    BY <1>2, <2>1 DEF Pause, Play, ConsoleAllowed
  <2>2. CASE \E k \in Kits : OpenKit(k) \/ CloseKit(k)
    BY <1>1, <2>2 DEF OpenKit, CloseKit, world
  <2>3. CASE EndFile
    <3>1. frames = <<>> /\ file.command # "none" /\ timer' = (timer \/ file.rearm)
          /\ file' = NoFile /\ paused' = paused /\ frames' = frames
      BY <2>3 DEF EndFile, walk
    <3>2. ~timer /\ file.rearm = Running
      BY <3>1 DEF FileHolds
    <3>3. timer' = Running' /\ file'.command = "none"
      BY <1>0, <3>1, <3>2 DEF NoFile, Running
    <3> QED
      BY <3>3 DEF FileHolds, TimerMatchesLatch
  <2>4. CASE OpenWorld
    BY <2>4 DEF OpenWorld, NoFile, FileHolds, TimerMatchesLatch, Running
  <2>5. ASSUME NEW command \in {"save", "open"}, BeginFile(command)
        PROVE  FileHolds' /\ TimerMatchesLatch'
    <3>1. file' = [command |-> command, rearm |-> Running] /\ timer' = FALSE
          /\ frames = <<>> /\ frames' = frames /\ paused' = paused
      BY <2>5 DEF BeginFile
    <3>2. file'.command = command /\ file'.rearm = Running
      BY <3>1
    <3>3. Running' = Running
      BY <3>1 DEF Running
    <3> QED
      BY <3>1, <3>2, <3>3 DEF FileHolds, TimerMatchesLatch
  <2> QED
    BY <1>6, <2>1, <2>2, <2>3, <2>4, <2>5 DEF Player
<1>7. CASE BeginUpdate
  <2>1. timer /\ UNCHANGED <<file, timer, paused>>
    BY <1>7 DEF BeginUpdate, world
  <2>2. file.command = "none"
    BY <2>1 DEF FileHolds
  <2> QED
    BY <1>1, <2>1, <2>2
<1>8. CASE CloseBox
  <2>1. file.command = "none" /\ file' = file
    BY <1>0, <1>3, <1>8 DEF CloseBox
  <2>2. CASE Top.resume /\ ~Running
    BY <1>2, <1>8, <2>1, <2>2 DEF CloseBox
  <2>3. CASE ~(Top.resume /\ ~Running)
    BY <1>1, <1>8, <2>1, <2>3 DEF CloseBox
  <2> QED
    BY <2>2, <2>3
<1>9. CASE UNCHANGED vars
  BY <1>1, <1>9 DEF vars
<1> QED
  BY <1>4, <1>5, <1>6, <1>7, <1>8, <1>9 DEF Next

\* With a toolbar that works in the main loop only, and no world opened over a
\* paused one, guard, timer, toolbar and kits always agree.
THEOREM TickIsSound ==
  ASSUME "openpaused" \notin Hands, "consoleinsave" \notin Hands
  PROVE  Spec => []TickSound
<1> DEFINE Inv == TickInv /\ FileHolds /\ TimerMatchesLatch
<1>1. Init => Inv
  <2> SUFFICES ASSUME Init PROVE Inv
    OBVIOUS
  <2>1. file.command = "none" /\ timer = Running
    BY DEF Init, NoFile, Running
  <2> QED
    BY <2>1, InvInit DEF FileHolds, TimerMatchesLatch
<1>2. Inv /\ [Next]_vars => Inv'
  BY InvNext, HoldsNext DEF TickInv
<1>3. Inv => TickSound
  BY DEF TickInv, BeliefTurned, BeliefKept, TickSound
<1> QED
  BY <1>1, <1>2, <1>3, PTL DEF Spec

-----------------------------------------------------------------------------
(* The files.  What a save, an autosave and an opening have to do             *)

Ops == {Op("removeWorld", "Backup", "Backup"), Op("removeSprite", "Backup", "Backup"),
        Op("copyWorld", "TempBu", "Backup"), Op("copyAll", "TempBu", "Backup"),
        Op("removeWorld", "TempBu", "TempBu"), Op("removeSprite", "TempBu", "TempBu"),
        Op("copyWorld", "Main", "TempBu"), Op("copyLiving", "Main", "TempBu"),
        Op("reap", "Main", "Main"), Op("write", "Main", "Main"), Op("finish", "Main", "Main")}

CopySpritesKinds == {"copyAll", "copyLiving"}

\* The temporary backup comes last, a directory gets its sprites right after its
\* world, and what is removed is copied again.
Planned(ops) ==
  /\ ops \in Seq(Ops)
  /\ \A i, j \in 1 .. Len(ops) : i < j /\ ops[i].to = "TempBu" => ops[j].to = "TempBu"
  /\ \A i \in 1 .. Len(ops) : i > 1 => ops[i].kind # "finish"
  /\ \A i \in 1 .. Len(ops) : ops[i].kind \in CopySpritesKinds /\ i > 1
       => ops[i - 1].kind = "copyWorld" /\ ops[i - 1].to = ops[i].to
  /\ \A i \in 1 .. Len(ops) : ops[i].kind = "copyWorld"
       => \E j \in 1 .. Len(ops) : j = i + 1 /\ ops[j].kind \in CopySpritesKinds /\ ops[j].to = ops[i].to
  /\ \A i \in 1 .. Len(ops) : ops[i].kind \in {"removeWorld", "removeSprite"}
       => \E j \in 1 .. Len(ops) : j > i /\ ops[j].kind = "copyWorld" /\ ops[j].to = ops[i].to

\* Two lists, one after the other.
LEMMA Joined ==
  ASSUME NEW S, NEW s \in Seq(S), NEW t \in Seq(S), NEW u \in Seq(S), Len(u) = Len(s) + Len(t),
         \A i \in 1 .. Len(s) : u[i] = s[i], \A i \in 1 .. Len(t) : u[i + Len(s)] = t[i]
  PROVE  s \o t = u
<1>1. s \o t \in Seq(S) /\ Len(s \o t) = Len(s) + Len(t) /\ Len(s) \in Nat /\ Len(t) \in Nat
  OBVIOUS
<1>2. \A i \in 1 .. Len(u) : (s \o t)[i] = u[i]
  <2> SUFFICES ASSUME NEW i \in 1 .. Len(u) PROVE (s \o t)[i] = u[i]
    OBVIOUS
  <2>1. CASE i <= Len(s)
    BY <1>1, <2>1
  <2>2. CASE i > Len(s)
    <3>1. i - Len(s) \in 1 .. Len(t) /\ (i - Len(s)) + Len(s) = i
      BY <1>1, <2>2
    <3>2. u[(i - Len(s)) + Len(s)] = t[i - Len(s)]
      BY <3>1
    <3> QED  BY <1>1, <2>2, <3>1, <3>2
  <2> QED  BY <2>1, <2>2, <1>1
<1> QED  BY <1>1, <1>2, SeqEqual

LEMMA PairsJoined ==
  ASSUME NEW S, NEW a \in S, NEW b \in S, NEW c \in S, NEW d \in S
  PROVE  <<a, b>> \o <<c, d>> = <<a, b, c, d>>
<1> DEFINE s == <<a, b>>  t == <<c, d>>  u == <<a, b, c, d>>
<1>1. s \in Seq(S) /\ t \in Seq(S) /\ u \in Seq(S) /\ Len(u) = Len(s) + Len(t)
  OBVIOUS
<1>2. \A i \in 1 .. Len(s) : u[i] = s[i]
  OBVIOUS
<1>3. \A i \in 1 .. Len(t) : u[i + Len(s)] = t[i]
  OBVIOUS
<1> HIDE DEF s, t, u
<1>4. s \o t = u
  BY <1>1, <1>2, <1>3, Joined, Zenon
<1> QED  BY <1>4 DEF s, t, u

LEMMA StepsAre ==
  /\ Refresh = <<Op("removeWorld", "TempBu", "TempBu"), Op("removeSprite", "TempBu", "TempBu"),
                 Op("copyWorld", "Main", "TempBu"), Op("copyLiving", "Main", "TempBu")>>
  /\ Promote = <<Op("removeWorld", "Backup", "Backup"), Op("removeSprite", "Backup", "Backup"),
                 Op("copyWorld", "TempBu", "Backup"), Op("copyAll", "TempBu", "Backup")>>
<1>1. \A a, b, c, d \in Ops : <<a, b>> \o <<c, d>> = <<a, b, c, d>>
  BY PairsJoined, Zenon
<1>2. /\ Op("removeWorld", "TempBu", "TempBu") \in Ops /\ Op("removeSprite", "TempBu", "TempBu") \in Ops
      /\ Op("copyWorld", "Main", "TempBu") \in Ops /\ Op("copyLiving", "Main", "TempBu") \in Ops
      /\ Op("removeWorld", "Backup", "Backup") \in Ops /\ Op("removeSprite", "Backup", "Backup") \in Ops
      /\ Op("copyWorld", "TempBu", "Backup") \in Ops /\ Op("copyAll", "TempBu", "Backup") \in Ops
  BY DEF Ops
<1>3. Refresh = <<Op("removeWorld", "TempBu", "TempBu"), Op("removeSprite", "TempBu", "TempBu"),
                  Op("copyWorld", "Main", "TempBu"), Op("copyLiving", "Main", "TempBu")>>
  BY <1>1, <1>2 DEF Refresh, Empty
<1>4. Promote = <<Op("removeWorld", "Backup", "Backup"), Op("removeSprite", "Backup", "Backup"),
                  Op("copyWorld", "TempBu", "Backup"), Op("copyAll", "TempBu", "Backup")>>
  BY <1>1, <1>2 DEF Promote, Empty
<1> QED  BY <1>3, <1>4

LEMMA SaveIs ==
  SaveSteps = <<Op("reap", "Main", "Main"),
                Op("removeWorld", "Backup", "Backup"), Op("removeSprite", "Backup", "Backup"),
                Op("copyWorld", "TempBu", "Backup"), Op("copyAll", "TempBu", "Backup"),
                Op("write", "Main", "Main")>>
<1> DEFINE s == <<Op("reap", "Main", "Main")>>
           t == <<Op("removeWorld", "Backup", "Backup"), Op("removeSprite", "Backup", "Backup"),
                  Op("copyWorld", "TempBu", "Backup"), Op("copyAll", "TempBu", "Backup")>>
           u == <<Op("reap", "Main", "Main"),
                  Op("removeWorld", "Backup", "Backup"), Op("removeSprite", "Backup", "Backup"),
                  Op("copyWorld", "TempBu", "Backup"), Op("copyAll", "TempBu", "Backup")>>
           v == <<Op("write", "Main", "Main")>>
           w == <<Op("reap", "Main", "Main"),
                  Op("removeWorld", "Backup", "Backup"), Op("removeSprite", "Backup", "Backup"),
                  Op("copyWorld", "TempBu", "Backup"), Op("copyAll", "TempBu", "Backup"),
                  Op("write", "Main", "Main")>>
<1>1. /\ s \in Seq(Ops) /\ t \in Seq(Ops) /\ u \in Seq(Ops) /\ v \in Seq(Ops) /\ w \in Seq(Ops)
      /\ Len(s) = 1 /\ Len(t) = 4 /\ Len(u) = 5 /\ Len(v) = 1 /\ Len(w) = 6
  BY DEF Ops
<1>2. /\ \A i \in 1 .. 1 : u[i] = s[i]
      /\ \A i \in 1 .. 4 : u[i + 1] = t[i]
  OBVIOUS
<1>3. /\ \A i \in 1 .. 5 : w[i] = u[i]
      /\ \A i \in 1 .. 1 : w[i + 5] = v[i]
  OBVIOUS
<1>4. SaveSteps = s \o t \o v
  BY StepsAre, Zenon DEF SaveSteps
<1> HIDE DEF s, t, u, v, w
<1>5. s \o t = u
  <2>1. /\ Len(u) = Len(s) + Len(t) /\ \A i \in 1 .. Len(s) : u[i] = s[i]
        /\ \A i \in 1 .. Len(t) : u[i + Len(s)] = t[i]
    BY <1>1, <1>2
  <2> QED  BY <1>1, <2>1, Joined, Zenon
<1>6. u \o v = w
  <2>1. /\ Len(w) = Len(u) + Len(v) /\ \A i \in 1 .. Len(u) : w[i] = u[i]
        /\ \A i \in 1 .. Len(v) : w[i + Len(u)] = v[i]
    BY <1>1, <1>3
  <2> QED  BY <1>1, <2>1, Joined, Zenon
<1> QED  BY <1>4, <1>5, <1>6 DEF w

LEMMA AutosaveIs ==
  Autosave = <<Op("removeWorld", "Backup", "Backup"), Op("removeSprite", "Backup", "Backup"),
               Op("copyWorld", "TempBu", "Backup"), Op("copyAll", "TempBu", "Backup"),
               Op("reap", "Main", "Main"),
               Op("removeWorld", "Backup", "Backup"), Op("removeSprite", "Backup", "Backup"),
               Op("copyWorld", "TempBu", "Backup"), Op("copyAll", "TempBu", "Backup"),
               Op("write", "Main", "Main"),
               Op("removeWorld", "TempBu", "TempBu"), Op("removeSprite", "TempBu", "TempBu"),
               Op("copyWorld", "Main", "TempBu"), Op("copyLiving", "Main", "TempBu")>>
<1> DEFINE s == <<Op("removeWorld", "Backup", "Backup"), Op("removeSprite", "Backup", "Backup"),
                  Op("copyWorld", "TempBu", "Backup"), Op("copyAll", "TempBu", "Backup")>>
           t == <<Op("reap", "Main", "Main"),
                  Op("removeWorld", "Backup", "Backup"), Op("removeSprite", "Backup", "Backup"),
                  Op("copyWorld", "TempBu", "Backup"), Op("copyAll", "TempBu", "Backup"),
                  Op("write", "Main", "Main")>>
           v == <<Op("removeWorld", "TempBu", "TempBu"), Op("removeSprite", "TempBu", "TempBu"),
                  Op("copyWorld", "Main", "TempBu"), Op("copyLiving", "Main", "TempBu")>>
           u == <<Op("removeWorld", "Backup", "Backup"), Op("removeSprite", "Backup", "Backup"),
                  Op("copyWorld", "TempBu", "Backup"), Op("copyAll", "TempBu", "Backup"),
                  Op("reap", "Main", "Main"),
                  Op("removeWorld", "Backup", "Backup"), Op("removeSprite", "Backup", "Backup"),
                  Op("copyWorld", "TempBu", "Backup"), Op("copyAll", "TempBu", "Backup"),
                  Op("write", "Main", "Main")>>
           w == <<Op("removeWorld", "Backup", "Backup"), Op("removeSprite", "Backup", "Backup"),
                  Op("copyWorld", "TempBu", "Backup"), Op("copyAll", "TempBu", "Backup"),
                  Op("reap", "Main", "Main"),
                  Op("removeWorld", "Backup", "Backup"), Op("removeSprite", "Backup", "Backup"),
                  Op("copyWorld", "TempBu", "Backup"), Op("copyAll", "TempBu", "Backup"),
                  Op("write", "Main", "Main"),
                  Op("removeWorld", "TempBu", "TempBu"), Op("removeSprite", "TempBu", "TempBu"),
                  Op("copyWorld", "Main", "TempBu"), Op("copyLiving", "Main", "TempBu")>>
<1>1. /\ s \in Seq(Ops) /\ t \in Seq(Ops) /\ v \in Seq(Ops) /\ u \in Seq(Ops) /\ w \in Seq(Ops)
      /\ Len(s) = 4 /\ Len(t) = 6 /\ Len(v) = 4 /\ Len(u) = 10 /\ Len(w) = 14
  BY DEF Ops
<1>2. /\ \A i \in 1 .. 4 : u[i] = s[i]
      /\ \A i \in 1 .. 6 : u[i + 4] = t[i]
  OBVIOUS
<1>3. /\ \A i \in 1 .. 10 : w[i] = u[i]
      /\ \A i \in 1 .. 4 : w[i + 10] = v[i]
  OBVIOUS
<1>4. Autosave = s \o t \o v
  BY StepsAre, SaveIs, Zenon DEF Autosave
<1> HIDE DEF s, t, u, v, w
<1>5. s \o t = u
  <2>1. /\ Len(u) = Len(s) + Len(t) /\ \A i \in 1 .. Len(s) : u[i] = s[i]
        /\ \A i \in 1 .. Len(t) : u[i + Len(s)] = t[i]
    BY <1>1, <1>2
  <2> QED  BY <1>1, <2>1, Joined, Zenon
<1>6. u \o v = w
  <2>1. /\ Len(w) = Len(u) + Len(v) /\ \A i \in 1 .. Len(u) : w[i] = u[i]
        /\ \A i \in 1 .. Len(v) : w[i + Len(u)] = v[i]
    BY <1>1, <1>3
  <2> QED  BY <1>1, <2>1, Joined, Zenon
<1> QED  BY <1>4, <1>5, <1>6 DEF w

LEMMA RefreshPlanned == Planned(Refresh) /\ Planned(<<>>)
  BY StepsAre DEF Planned, Ops, Op, CopySpritesKinds

LEMMA SavePlanned == Planned(SaveSteps)
  BY SaveIs DEF Planned, Ops, Op, CopySpritesKinds

LEMMA AutosavePlanned == Planned(Autosave)
  BY AutosaveIs DEF Planned, Ops, Op, CopySpritesKinds

-----------------------------------------------------------------------------
(* The first of the operations, and those after it *)

Copying(ops, d) == \E i \in 1 .. Len(ops) : ops[i].kind = "copyWorld" /\ ops[i].to = d
Filling(ops, d) == \E i \in 1 .. Len(ops) : ops[i].kind \in CopySpritesKinds /\ ops[i].to = d
Before(ops) == \E i \in 1 .. Len(ops) : ops[i].to # "TempBu"
Writing(ops) == \E i \in 1 .. Len(ops) : ops[i].kind \in {"write", "finish"}

LEMMA OpIs ==
  ASSUME NEW op \in Ops
  PROVE  /\ op \in [kind : Kinds, from : Directories, to : Directories]
         /\ op.kind \in {"removeWorld", "removeSprite"} => op.to \in {"TempBu", "Backup"}
         /\ op.kind = "copyWorld" => \/ op.from = "Main" /\ op.to = "TempBu"
                                     \/ op.from = "TempBu" /\ op.to = "Backup"
         /\ op.kind = "copyAll" => op.from = "TempBu" /\ op.to = "Backup"
         /\ op.kind = "copyLiving" => op.from = "Main" /\ op.to = "TempBu"
         /\ op.kind \in {"reap", "write", "finish"} => op.to = "Main"
BY DEF Ops, Op, Kinds, Directories

LEMMA NothingPlanned ==
  /\ Planned(<<>>) /\ ~Before(<<>>) /\ ~Writing(<<>>)
  /\ \A d \in Directories : ~Copying(<<>>, d) /\ ~Filling(<<>>, d)
BY DEF Planned, Before, Writing, Copying, Filling

LEMMA CopiedIsFilled ==
  ASSUME NEW ops, Planned(ops), NEW d, Copying(ops, d)
  PROVE  Filling(ops, d)
BY DEF Planned, Copying, Filling

\* What is known of the first, and what of the rest of the list when it is done.
LEMMA First ==
  ASSUME NEW ops, Planned(ops), ops # <<>>
  PROVE  LET op == Head(ops)  rest == Tail(ops)
         IN  /\ op \in Ops /\ Planned(rest)
             /\ op.to = "TempBu" => ~Before(ops) /\ ~Before(rest)
             /\ op.to # "TempBu" => Before(ops)
             /\ op.kind \in {"write", "finish"} => Writing(ops)
             /\ Before(rest) => Before(ops)
             /\ \A d \in Directories :
                  /\ Copying(ops, d) => Copying(rest, d) \/ (op.kind = "copyWorld" /\ op.to = d)
                  /\ Filling(ops, d) => Filling(rest, d) \/ (op.kind \in CopySpritesKinds /\ op.to = d)
                  /\ Filling(rest, d) => Filling(ops, d)
             /\ Writing(ops) => Writing(rest) \/ op.kind \in {"write", "finish"}
             /\ op.kind \in CopySpritesKinds => Filling(ops, op.to)
             /\ op.kind \in {"removeWorld", "removeSprite"} => Copying(rest, op.to) /\ Filling(rest, op.to)
             /\ op.kind = "copyWorld" => Filling(rest, op.to)
             /\ rest # <<>> => /\ Head(rest) \in Ops /\ Head(rest).kind # "finish"
                               /\ Head(rest).kind \in CopySpritesKinds =>
                                    op.kind = "copyWorld" /\ op.to = Head(rest).to
<1> DEFINE op == Head(ops)  rest == Tail(ops)  n == Len(ops)
<1>1. /\ ops \in Seq(Ops) /\ n \in Nat /\ n >= 1 /\ op = ops[1] /\ rest \in Seq(Ops) /\ Len(rest) = n - 1
      /\ \A i \in 1 .. n - 1 : rest[i] = ops[i + 1]
  BY DEF Planned
<1>2. \A i \in 1 .. n : ops[i] \in Ops
  BY <1>1
<1> HIDE DEF op, rest, n
<1>3. \A i \in 1 .. n : i # 1 => i - 1 \in 1 .. n - 1 /\ rest[i - 1] = ops[i]
  BY <1>1
<1>4. rest # <<>> => n > 1 /\ Head(rest) = ops[2]
  BY <1>1
<1>5. Planned(rest)
  <2>1. \A i, j \in 1 .. n - 1 : i < j /\ rest[i].to = "TempBu" => rest[j].to = "TempBu"
    BY <1>1 DEF Planned, n
  <2>2. \A i \in 1 .. n - 1 : i > 1 => rest[i].kind # "finish"
    BY <1>1 DEF Planned, n
  <2>3. \A i \in 1 .. n - 1 : rest[i].kind \in CopySpritesKinds /\ i > 1
          => rest[i - 1].kind = "copyWorld" /\ rest[i - 1].to = rest[i].to
    <3> SUFFICES ASSUME NEW i \in 1 .. n - 1, rest[i].kind \in CopySpritesKinds, i > 1
                 PROVE  rest[i - 1].kind = "copyWorld" /\ rest[i - 1].to = rest[i].to
      OBVIOUS
    <3>1. /\ i + 1 \in 1 .. n /\ i + 1 > 1 /\ rest[i] = ops[i + 1]
          /\ (i + 1) - 1 = i /\ rest[i - 1] = ops[i]
      BY <1>1
    <3> QED  BY <3>1, <1>1 DEF Planned, n
  <2>4. \A i \in 1 .. n - 1 : rest[i].kind = "copyWorld"
          => \E j \in 1 .. n - 1 : j = i + 1 /\ rest[j].kind \in CopySpritesKinds /\ rest[j].to = rest[i].to
    <3> SUFFICES ASSUME NEW i \in 1 .. n - 1, rest[i].kind = "copyWorld"
                 PROVE  \E j \in 1 .. n - 1 : j = i + 1 /\ rest[j].kind \in CopySpritesKinds
                                               /\ rest[j].to = rest[i].to
      OBVIOUS
    <3>1. i + 1 \in 1 .. n /\ rest[i] = ops[i + 1]
      BY <1>1
    <3>2. PICK j \in 1 .. n : j = (i + 1) + 1 /\ ops[j].kind \in CopySpritesKinds /\ ops[j].to = ops[i + 1].to
      BY <3>1 DEF Planned, n
    <3>3. j - 1 \in 1 .. n - 1 /\ j - 1 = i + 1 /\ rest[j - 1] = ops[j]
      BY <1>1, <1>3, <3>2
    <3> QED  BY <3>1, <3>2, <3>3
  <2>5. \A i \in 1 .. n - 1 : rest[i].kind \in {"removeWorld", "removeSprite"}
          => \E j \in 1 .. n - 1 : j > i /\ rest[j].kind = "copyWorld" /\ rest[j].to = rest[i].to
    <3> SUFFICES ASSUME NEW i \in 1 .. n - 1, rest[i].kind \in {"removeWorld", "removeSprite"}
                 PROVE  \E j \in 1 .. n - 1 : j > i /\ rest[j].kind = "copyWorld" /\ rest[j].to = rest[i].to
      OBVIOUS
    <3>1. i + 1 \in 1 .. n /\ rest[i] = ops[i + 1]
      BY <1>1
    <3>2. PICK j \in 1 .. n : j > i + 1 /\ ops[j].kind = "copyWorld" /\ ops[j].to = ops[i + 1].to
      BY <3>1 DEF Planned, n
    <3>3. j # 1 /\ j - 1 > i
      BY <3>2
    <3>4. j - 1 \in 1 .. n - 1 /\ rest[j - 1] = ops[j]
      BY <1>3, <3>3
    <3> QED  BY <3>1, <3>2, <3>3, <3>4
  <2> QED  BY <1>1, <2>1, <2>2, <2>3, <2>4, <2>5 DEF Planned
<1>6. op.to = "TempBu" => ~Before(ops) /\ ~Before(rest)
  <2> SUFFICES ASSUME op.to = "TempBu" PROVE ~Before(ops) /\ ~Before(rest)
    OBVIOUS
  <2>1. \A j \in 1 .. n : j # 1 => ops[j].to = "TempBu"
    BY <1>1 DEF Planned, n
  <2>2. \A j \in 1 .. n : ops[j].to = "TempBu"
    BY <1>1, <2>1
  <2> QED  BY <1>1, <2>2 DEF Before, n
<1>7. \A d : /\ Copying(ops, d) => Copying(rest, d) \/ (op.kind = "copyWorld" /\ op.to = d)
             /\ Filling(ops, d) => Filling(rest, d) \/ (op.kind \in CopySpritesKinds /\ op.to = d)
             /\ Filling(rest, d) => Filling(ops, d)
  <2>1. \A i \in 1 .. n : i = 1 \/ (i - 1 \in 1 .. Len(rest) /\ rest[i - 1] = ops[i])
    BY <1>1, <1>3
  <2>2. \A i \in 1 .. Len(rest) : i + 1 \in 1 .. n /\ rest[i] = ops[i + 1]
    BY <1>1
  <2> QED  BY <1>1, <2>1, <2>2 DEF Copying, Filling, n
<1>8. /\ Writing(ops) => Writing(rest) \/ op.kind \in {"write", "finish"}
      /\ Before(rest) => Before(ops)
  <2>1. \A i \in 1 .. n : i = 1 \/ (i - 1 \in 1 .. Len(rest) /\ rest[i - 1] = ops[i])
    BY <1>1, <1>3
  <2>2. \A i \in 1 .. Len(rest) : i + 1 \in 1 .. n /\ rest[i] = ops[i + 1]
    BY <1>1
  <2> QED  BY <1>1, <2>1, <2>2 DEF Writing, Before, n
<1>9. 1 \in 1 .. n
  BY <1>1
<1>10. /\ op.to # "TempBu" => Before(ops)
       /\ op.kind \in {"write", "finish"} => Writing(ops)
       /\ op.kind \in CopySpritesKinds => Filling(ops, op.to)
  BY <1>1, <1>9 DEF Before, Writing, Filling, n
<1>11. op.kind \in {"removeWorld", "removeSprite"} => Copying(rest, op.to) /\ Filling(rest, op.to)
  <2> SUFFICES ASSUME op.kind \in {"removeWorld", "removeSprite"} PROVE Copying(rest, op.to)
    BY <1>5, CopiedIsFilled, Zenon
  <2>1. PICK j \in 1 .. n : j > 1 /\ ops[j].kind = "copyWorld" /\ ops[j].to = ops[1].to
    BY <1>1, <1>9 DEF Planned, n
  <2>2. j - 1 \in 1 .. Len(rest) /\ rest[j - 1] = ops[j]
    BY <1>1, <1>3, <2>1
  <2> QED  BY <1>1, <2>1, <2>2 DEF Copying
<1>12. op.kind = "copyWorld" => Filling(rest, op.to)
  <2> SUFFICES ASSUME op.kind = "copyWorld" PROVE Filling(rest, op.to)
    OBVIOUS
  <2>1. PICK j \in 1 .. n : j = 1 + 1 /\ ops[j].kind \in CopySpritesKinds /\ ops[j].to = ops[1].to
    BY <1>1, <1>9 DEF Planned, n
  <2>2. j - 1 \in 1 .. Len(rest) /\ rest[j - 1] = ops[j]
    BY <1>1, <1>3, <2>1
  <2> QED  BY <1>1, <2>1, <2>2 DEF Filling
<1>13. rest # <<>> => /\ Head(rest) \in Ops /\ Head(rest).kind # "finish"
                      /\ Head(rest).kind \in CopySpritesKinds =>
                           op.kind = "copyWorld" /\ op.to = Head(rest).to
  <2> SUFFICES ASSUME rest # <<>>
               PROVE  /\ Head(rest) \in Ops /\ Head(rest).kind # "finish"
                      /\ Head(rest).kind \in CopySpritesKinds =>
                           op.kind = "copyWorld" /\ op.to = Head(rest).to
    OBVIOUS
  <2>1. 2 \in 1 .. n /\ 2 > 1 /\ 2 - 1 = 1 /\ Head(rest) = ops[2]
    BY <1>1, <1>4
  <2>2. ops[2].kind # "finish"
    BY <2>1 DEF Planned, n
  <2>3. ops[2].kind \in CopySpritesKinds => ops[2 - 1].kind = "copyWorld" /\ ops[2 - 1].to = ops[2].to
    BY <2>1 DEF Planned, n
  <2> QED  BY <1>1, <1>2, <2>1, <2>2, <2>3
<1>14. op \in Ops
  BY <1>1, <1>2, <1>9
<1> QED  BY <1>5, <1>6, <1>7, <1>8, <1>10, <1>11, <1>12, <1>13, <1>14 DEF op, rest

-----------------------------------------------------------------------------
(* The inductive invariant *)

IsWhole(d) == disk[d].world.kind = "whole"
Complete(d) == disk[d].world.holds \subseteq disk[d].sprites

Ended == ~running => todo = <<>> /\ troubles > 0

Generations ==
  /\ \A d \in Directories : disk[d].world.generation <= saves
  /\ GenerationsOrdered

\* The world is whole but while it is written; the temporary backup is whole but
\* while it is refreshed, and nothing is written then.
Wholes ==
  troubles = 0 \/ ~DiskFills =>
    /\ IsWhole("Main") \/ (IsWhole("TempBu") /\ (running => todo # <<>> /\ Now.kind = "finish"))
    /\ running => IsWhole("TempBu") \/ Copying(todo, "TempBu")
    /\ Before(todo) => IsWhole("TempBu")

\* A backup without the sprites of its world gets them before the list is done.
Sprites ==
  troubles = 0 =>
    /\ living \subseteq disk["Main"].sprites
    /\ Complete("Backup") \/ Filling(todo, "Backup")
    /\ Complete("TempBu") \/ Filling(todo, "TempBu")
    /\ Before(todo) => Complete("TempBu")
    /\ todo # <<>> /\ Now.kind = "copyAll" => disk["Backup"].world = disk["TempBu"].world
    /\ todo # <<>> /\ Now.kind = "copyLiving" => disk["TempBu"].world = disk["Main"].world
    /\ Filling(todo, "TempBu") /\ ~Writing(todo) => disk["Main"].world.holds = living

FilesInv == FilesTypeOK /\ Planned(todo) /\ Ended /\ Generations /\ Wholes /\ Sprites

\* What a directory holds, when its parts are known.
LEMMA DiskIs ==
  ASSUME FilesTypeOK
  PROVE  /\ \A d \in Directories : /\ disk[d] \in [world : Worlds, sprites : SUBSET Norns]
                                   /\ disk[d].world \in Worlds /\ disk[d].sprites \subseteq Norns
         /\ \A d \in Directories, w \in Worlds :
              LET e == [disk EXCEPT ![d].world = w]
              IN  /\ e \in [Directories -> [world : Worlds, sprites : SUBSET Norns]]
                  /\ e[d].world = w /\ e[d].sprites = disk[d].sprites
                  /\ \A x \in Directories \ {d} : e[x] = disk[x]
         /\ \A d \in Directories, S \in SUBSET Norns :
              LET e == [disk EXCEPT ![d].sprites = S]
              IN  /\ e \in [Directories -> [world : Worlds, sprites : SUBSET Norns]]
                  /\ e[d].world = disk[d].world /\ e[d].sprites = S
                  /\ \A x \in Directories \ {d} : e[x] = disk[x]
BY DEF FilesTypeOK

LEMMA WorldIs ==
  ASSUME NEW w \in Worlds
  PROVE  /\ w.generation \in 0 .. MaxSaves /\ w.holds \subseteq Norns
         /\ w.kind \in {"whole", "cut", "absent"}
         /\ w = Absent <=> w.kind = "absent"
         /\ w.kind # "whole" => w.generation = 0 /\ w.holds = {}
BY WorldFilesAssumption DEF Worlds, Whole, Absent, Cut

LEMMA WorldsAre ==
  /\ Absent \in Worlds /\ Absent.kind = "absent" /\ Absent.generation = 0 /\ Absent.holds = {}
  /\ Cut \in Worlds /\ Cut.kind = "cut" /\ Cut.generation = 0 /\ Cut.holds = {}
  /\ \A n \in 0 .. MaxSaves, S \in SUBSET Norns :
       /\ Whole(n, S) \in Worlds /\ Whole(n, S).kind = "whole"
       /\ Whole(n, S).generation = n /\ Whole(n, S).holds = S
<1>1. /\ Absent \in Worlds /\ Cut \in Worlds
      /\ \A n \in 0 .. MaxSaves, S \in SUBSET Norns : Whole(n, S) \in Worlds
  BY DEF Worlds
<1>2. /\ Absent.kind = "absent" /\ Absent.generation = 0 /\ Absent.holds = {}
      /\ Cut.kind = "cut" /\ Cut.generation = 0 /\ Cut.holds = {}
  BY DEF Absent, Cut
<1>3. \A n \in 0 .. MaxSaves, S \in SUBSET Norns :
        Whole(n, S).kind = "whole" /\ Whole(n, S).generation = n /\ Whole(n, S).holds = S
  BY DEF Whole
<1> QED  BY <1>1, <1>2, <1>3

LEMMA FilesInitInv == FilesInit => FilesInv
<1> SUFFICES ASSUME FilesInit PROVE FilesInv
  OBVIOUS
<1>1. PICK S \in SUBSET Norns :
        /\ living = S
        /\ disk = [d \in Directories |-> [world |-> Whole(0, S), sprites |-> S]]
  BY DEF FilesInit
<1>2. /\ running = TRUE /\ killed = {} /\ todo = <<>> /\ saves = 0 /\ troubles = 0
      /\ 0 \in 0 .. MaxSaves /\ 0 \in 0 .. MaxTroubles
  BY WorldFilesAssumption DEF FilesInit
<1>3. \A d \in Directories : disk[d].world = Whole(0, S) /\ disk[d].sprites = S
  BY <1>1
<1>4. /\ Whole(0, S) \in Worlds /\ Whole(0, S).kind = "whole"
      /\ Whole(0, S).generation = 0 /\ Whole(0, S).holds = S
  BY <1>2, WorldsAre
<1>5. "Main" \in Directories /\ "TempBu" \in Directories /\ "Backup" \in Directories
  BY DEF Directories
<1>6. FilesTypeOK
  BY <1>1, <1>2, <1>4 DEF FilesTypeOK
<1>7. Generations
  BY <1>2, <1>3, <1>4 DEF Generations, GenerationsOrdered
<1>8. Wholes /\ Sprites
  BY <1>1, <1>2, <1>3, <1>4, <1>5, NothingPlanned DEF Wholes, Sprites, IsWhole, Complete
<1> QED  BY <1>2, <1>6, <1>7, <1>8, NothingPlanned DEF FilesInv, Ended

-----------------------------------------------------------------------------
(* The steps *)

LEMMA DoneIs ==
  ASSUME FilesInv, todo # <<>>, Done
  PROVE  /\ Now \in Ops /\ Planned(todo')
         /\ todo' \in Seq([kind : Kinds, from : Directories, to : Directories])
         /\ Now.to = "TempBu" => ~Before(todo) /\ ~Before(todo')
         /\ Now.to # "TempBu" => Before(todo)
         /\ Now.kind \in {"write", "finish"} => Writing(todo)
         /\ Before(todo') => Before(todo)
         /\ \A d \in Directories :
              /\ Copying(todo, d) => Copying(todo', d) \/ (Now.kind = "copyWorld" /\ Now.to = d)
              /\ Filling(todo, d) => Filling(todo', d) \/ (Now.kind \in CopySpritesKinds /\ Now.to = d)
              /\ Filling(todo', d) => Filling(todo, d)
         /\ Writing(todo) => Writing(todo') \/ Now.kind \in {"write", "finish"}
         /\ Now.kind \in CopySpritesKinds => Filling(todo, Now.to)
         /\ Now.kind \in {"removeWorld", "removeSprite"} => Copying(todo', Now.to) /\ Filling(todo', Now.to)
         /\ Now.kind = "copyWorld" => Filling(todo', Now.to)
         /\ todo' # <<>> => /\ Now' \in Ops /\ Now'.kind # "finish"
                            /\ Now'.kind \in CopySpritesKinds => Now.kind = "copyWorld" /\ Now.to = Now'.to
<1>1. Planned(todo) /\ todo' = Tail(todo)
  BY DEF FilesInv, Done
<1>2. todo' \in Seq([kind : Kinds, from : Directories, to : Directories])
  <2>1. todo \in Seq([kind : Kinds, from : Directories, to : Directories])
    BY DEF FilesInv, FilesTypeOK
  <2> QED  BY <1>1, <2>1
<1> QED  BY <1>1, <1>2, First DEF Now

\* The directories an operation names.
LEMMA NowIs ==
  ASSUME Now \in Ops
  PROVE  /\ Now.from \in Directories /\ Now.to \in Directories
         /\ Now.kind \in {"removeWorld", "removeSprite"} => Now.to \in {"TempBu", "Backup"}
         /\ Now.kind = "copyWorld" => \/ Now.from = "Main" /\ Now.to = "TempBu"
                                      \/ Now.from = "TempBu" /\ Now.to = "Backup"
         /\ Now.kind = "copyAll" => Now.from = "TempBu" /\ Now.to = "Backup"
         /\ Now.kind = "copyLiving" => Now.from = "Main" /\ Now.to = "TempBu"
         /\ Now.kind \in {"reap", "write", "finish"} => Now.to = "Main"
BY OpIs

LEMMA WholeNow ==
  ASSUME Wholes, Ended, todo # <<>>, troubles = 0 \/ ~DiskFills
  PROVE  /\ running
         /\ Now.kind # "finish" => IsWhole("Main")
         /\ IsWhole("Main") \/ IsWhole("TempBu")
         /\ IsWhole("TempBu") \/ Copying(todo, "TempBu")
         /\ Before(todo) => IsWhole("TempBu")
<1>1. running
  BY DEF Ended
<1> QED  BY <1>1, Zenon DEF Wholes

LEMMA RemoveWorldKeeps ==
  ASSUME FilesInv, RemoveWorld
  PROVE  FilesInv'
<1>1. /\ todo # <<>> /\ Now.kind = "removeWorld" /\ Done
      /\ disk' = [disk EXCEPT ![Now.to].world = Absent]
      /\ UNCHANGED <<running, living, killed, saves, troubles>>
      /\ FilesTypeOK /\ Ended /\ Generations /\ Wholes /\ Sprites
  BY DEF RemoveWorld, FilesInv
<1>2. /\ Now.to \in {"TempBu", "Backup"} /\ Now \in Ops
      /\ Copying(todo', Now.to) /\ Filling(todo', Now.to)
  BY <1>1, DoneIs, NowIs
<1>3. /\ disk' \in [Directories -> [world : Worlds, sprites : SUBSET Norns]]
      /\ disk'[Now.to].world = Absent /\ disk'[Now.to].sprites = disk[Now.to].sprites
      /\ \A x \in Directories \ {Now.to} : disk'[x] = disk[x]
  BY <1>1, <1>2, DiskIs, NowIs, WorldsAre
<1>4. "Main" \in Directories /\ "TempBu" \in Directories /\ "Backup" \in Directories
  BY DEF Directories
<1>5. FilesTypeOK'
  BY <1>1, <1>3, DoneIs DEF FilesTypeOK
<1>6. Generations'
  BY <1>1, <1>3, WorldsAre, WorldFilesAssumption DEF Generations, GenerationsOrdered, FilesTypeOK
<1>7. Wholes'
  <2>1. \A d \in Directories : d # Now.to /\ IsWhole(d) => IsWhole(d)'
    BY <1>3 DEF IsWhole
  <2>2. ASSUME troubles = 0 \/ ~DiskFills
        PROVE  IsWhole("Main")' /\ (Before(todo') => IsWhole("TempBu")')
    <3>1. IsWhole("Main") /\ (Before(todo) => IsWhole("TempBu"))
      BY <1>1, <2>2, WholeNow
    <3>2. Before(todo') => Before(todo) /\ Now.to # "TempBu"
      BY <1>1, DoneIs
    <3> QED  BY <1>2, <1>4, <2>1, <3>1, <3>2
  <2>3. ASSUME troubles = 0 \/ ~DiskFills, running
        PROVE  IsWhole("TempBu")' \/ Copying(todo', "TempBu")
    BY <1>1, <1>2, <1>4, <2>1, <2>3, DoneIs DEF Wholes
  <2> QED  BY <1>1, <2>2, <2>3 DEF Wholes
<1>8. Sprites'
  <2>1. \A d \in Directories : d = Now.to \/ Complete(d) => Complete(d)'
    BY <1>3, WorldsAre DEF Complete
  <2> QED  BY <1>1, <1>2, <1>3, <1>4, <2>1, DoneIs, WorldsAre DEF Sprites, CopySpritesKinds
<1> QED  BY <1>1, <1>5, <1>6, <1>7, <1>8, DoneIs DEF FilesInv, Ended

LEMMA RemoveSpriteKeeps ==
  ASSUME FilesInv, RemoveSprite
  PROVE  FilesInv'
<1>1. /\ todo # <<>> /\ Now.kind = "removeSprite" /\ Done
      /\ UNCHANGED <<running, living, killed, saves, troubles>>
      /\ FilesTypeOK /\ Ended /\ Generations /\ Wholes /\ Sprites
  BY DEF RemoveSprite, FilesInv
<1>2. /\ Now.to \in {"TempBu", "Backup"} /\ Now \in Ops
      /\ Copying(todo', Now.to) /\ Filling(todo', Now.to) /\ Now.to \in Directories
  BY <1>1, DoneIs, NowIs
<1>3. /\ disk' \in [Directories -> [world : Worlds, sprites : SUBSET Norns]]
      /\ disk'[Now.to].world = disk[Now.to].world
      /\ \A x \in Directories \ {Now.to} : disk'[x] = disk[x]
  <2>1. CASE disk[Now.to].sprites = {}
    <3>1. disk' = disk
      BY <2>1 DEF RemoveSprite
    <3> QED  BY <1>1, <1>2, <3>1 DEF FilesTypeOK
  <2>2. CASE disk[Now.to].sprites # {}
    <3>1. PICK c \in disk[Now.to].sprites :
            disk' = [disk EXCEPT ![Now.to].sprites = disk[Now.to].sprites \ {c}]
      BY <2>2 DEF RemoveSprite
    <3>2. disk[Now.to].sprites \ {c} \in SUBSET Norns
      BY <1>1, <1>2, DiskIs
    <3> QED  BY <1>1, <1>2, <3>1, <3>2, DiskIs
  <2> QED  BY <2>1, <2>2
<1>4. "Main" \in Directories /\ "TempBu" \in Directories /\ "Backup" \in Directories
  BY DEF Directories
<1>5. FilesTypeOK'
  BY <1>1, <1>3, DoneIs DEF FilesTypeOK
<1>6. \A d \in Directories : disk'[d].world = disk[d].world
  BY <1>2, <1>3
<1>7. Generations'
  BY <1>1, <1>6 DEF Generations, GenerationsOrdered
<1>8. Wholes'
  BY <1>1, <1>2, <1>4, <1>6, DoneIs DEF Wholes, IsWhole
<1>9. Sprites'
  <2>1. \A d \in Directories \ {Now.to} : Complete(d) => Complete(d)'
    BY <1>3 DEF Complete
  <2> QED  BY <1>1, <1>2, <1>3, <1>4, <1>6, <2>1, DoneIs DEF Sprites, CopySpritesKinds
<1> QED  BY <1>1, <1>5, <1>7, <1>8, <1>9, DoneIs DEF FilesInv, Ended

LEMMA CopyWorldKeeps ==
  ASSUME FilesInv, CopyWorld
  PROVE  FilesInv'
<1>1. /\ todo # <<>> /\ Now.kind = "copyWorld" /\ Done
      /\ UNCHANGED <<running, living, killed, saves, troubles>>
      /\ FilesTypeOK /\ Ended /\ Generations /\ Wholes /\ Sprites
  BY DEF CopyWorld, FilesInv
<1>2. /\ \/ Now.from = "Main" /\ Now.to = "TempBu"
         \/ Now.from = "TempBu" /\ Now.to = "Backup"
      /\ Now \in Ops /\ Now.from \in Directories /\ Now.to \in Directories
      /\ Filling(todo', Now.to)
  BY <1>1, DoneIs, NowIs
<1>3. "Main" \in Directories /\ "TempBu" \in Directories /\ "Backup" \in Directories
  BY DEF Directories
<1>4. /\ disk' \in [Directories -> [world : Worlds, sprites : SUBSET Norns]]
      /\ disk[Now.from].world # Absent => disk'[Now.to].world = disk[Now.from].world
      /\ disk[Now.from].world = Absent => disk'[Now.to].world = disk[Now.to].world
      /\ \A x \in Directories : disk'[x].sprites = disk[x].sprites
      /\ \A x \in Directories \ {Now.to} : disk'[x] = disk[x]
  <2>1. CASE disk[Now.from].world = Absent
    <3>1. disk' = disk
      BY <2>1 DEF CopyWorld
    <3> QED  BY <1>1, <2>1, <3>1 DEF FilesTypeOK
  <2>2. CASE disk[Now.from].world # Absent
    <3>1. disk' = [disk EXCEPT ![Now.to].world = disk[Now.from].world]
      BY <2>2 DEF CopyWorld
    <3>2. disk[Now.from].world \in Worlds
      BY <1>1, <1>2, DiskIs
    <3> QED  BY <1>1, <1>2, <2>2, <3>1, <3>2, DiskIs
  <2> QED  BY <2>1, <2>2
<1>5. \A d \in Directories : disk[d].world \in Worlds
  BY <1>1, DiskIs
<1>6. \A d \in Directories : IsWhole(d) => disk[d].world # Absent
  BY WorldsAre DEF IsWhole
<1>7. FilesTypeOK'
  BY <1>1, <1>4, DoneIs DEF FilesTypeOK
<1>8. Generations'
  <2>1. /\ \A d \in Directories : disk[d].world.generation <= saves
        /\ GenerationsOrdered /\ saves' = saves
    BY <1>1 DEF Generations
  <2>2. \A d \in Directories : disk'[d].world.generation <= saves
    BY <1>2, <1>4, <2>1
  <2>3. GenerationsOrdered'
    <3>1. CASE disk[Now.from].world = Absent
      <4>1. \A d \in Directories : disk'[d].world = disk[d].world
        BY <1>2, <1>4, <3>1
      <4> QED  BY <2>1, <4>1 DEF GenerationsOrdered
    <3>2. CASE disk[Now.from].world # Absent /\ Now.from = "Main" /\ Now.to = "TempBu"
      <4>1. /\ disk'["TempBu"].world = disk["Main"].world /\ disk'["Main"].world = disk["Main"].world
            /\ disk'["Backup"].world = disk["Backup"].world
        BY <1>3, <1>4, <3>2
      <4>2. disk["Main"].world.generation \in Nat
        BY <1>3, <1>5, WorldIs
      <4> QED  BY <1>3, <2>1, <4>1, <4>2 DEF GenerationsOrdered
    <3>3. CASE disk[Now.from].world # Absent /\ Now.from = "TempBu" /\ Now.to = "Backup"
      <4>1. /\ disk'["Backup"].world = disk["TempBu"].world /\ disk'["Main"].world = disk["Main"].world
            /\ disk'["TempBu"].world = disk["TempBu"].world
        BY <1>3, <1>4, <3>3
      <4>2. disk["TempBu"].world.generation \in Nat
        BY <1>3, <1>5, WorldIs
      <4> QED  BY <1>3, <2>1, <4>1, <4>2 DEF GenerationsOrdered
    <3> QED  BY <1>2, <3>1, <3>2, <3>3
  <2> QED  BY <2>1, <2>2, <2>3 DEF Generations
<1>9. Wholes'
  <2> SUFFICES ASSUME troubles = 0 \/ ~DiskFills
               PROVE  IsWhole("Main")' /\ IsWhole("TempBu")'
    BY <1>1 DEF Wholes
  <2>1. IsWhole("Main") /\ (Before(todo) => IsWhole("TempBu"))
    BY <1>1, WholeNow
  <2>2. Now.to # "TempBu" => Before(todo)
    BY <1>1, DoneIs
  <2>3. IsWhole("Main")'
    BY <1>2, <1>3, <1>4, <2>1 DEF IsWhole
  <2>4. IsWhole("TempBu")'
    <3>1. CASE Now.to = "TempBu"
      BY <1>2, <1>3, <1>4, <1>6, <2>1, <3>1 DEF IsWhole
    <3>2. CASE Now.to = "Backup"
      BY <1>2, <1>3, <1>4, <2>1, <2>2, <3>2 DEF IsWhole
    <3> QED  BY <1>2, <3>1, <3>2
  <2> QED  BY <2>3, <2>4
<1>10. Sprites'
  <2> SUFFICES ASSUME troubles = 0 PROVE Sprites'
    BY <1>1 DEF Sprites
  <2>1. IsWhole("Main") /\ (Before(todo) => IsWhole("TempBu"))
    BY <1>1, WholeNow
  <2>2. disk[Now.from].world # Absent
    BY <1>1, <1>2, <1>6, <2>1, DoneIs
  <2>3. /\ living \subseteq disk["Main"].sprites /\ (Before(todo) => Complete("TempBu"))
        /\ Complete("Backup") \/ Filling(todo, "Backup")
        /\ Complete("TempBu") \/ Filling(todo, "TempBu")
        /\ Filling(todo, "TempBu") /\ ~Writing(todo) => disk["Main"].world.holds = living
    BY <1>1 DEF Sprites
  <2>4. /\ Now.to = "TempBu" => ~Before(todo')
        /\ Before(todo') => Before(todo)
        /\ \A d \in Directories : /\ Filling(todo, d) => Filling(todo', d)
                                  /\ Filling(todo', d) => Filling(todo, d)
        /\ Writing(todo) => Writing(todo')
        /\ todo' # <<>> => /\ Now' \in Ops
                           /\ Now'.kind \in CopySpritesKinds => Now.to = Now'.to
    BY <1>1, DoneIs DEF CopySpritesKinds
  <2>5. \A d \in Directories \ {Now.to} : Complete(d) => Complete(d)'
    BY <1>4 DEF Complete
  <2>6. /\ todo' # <<>> /\ Now'.kind = "copyAll" => Now.to = "Backup" /\ Now.from = "TempBu"
        /\ todo' # <<>> /\ Now'.kind = "copyLiving" => Now.to = "TempBu" /\ Now.from = "Main"
    BY <1>2, <2>4, OpIs DEF CopySpritesKinds
  <2>7. (Complete("Backup") \/ Filling(todo, "Backup"))'
    BY <1>2, <1>3, <2>3, <2>4, <2>5
  <2>8. (Complete("TempBu") \/ Filling(todo, "TempBu"))' /\ (Before(todo') => Complete("TempBu")')
    BY <1>2, <1>3, <2>3, <2>4, <2>5
  <2>9. /\ (todo # <<>> /\ Now.kind = "copyAll")' => disk'["Backup"].world = disk'["TempBu"].world
        /\ (todo # <<>> /\ Now.kind = "copyLiving")' => disk'["TempBu"].world = disk'["Main"].world
    BY <1>3, <1>4, <2>2, <2>6
  <2>10. Filling(todo', "TempBu") /\ ~Writing(todo') => disk'["Main"].world.holds = living'
    BY <1>1, <1>2, <1>3, <1>4, <2>3, <2>4
  <2>11. living' \subseteq disk'["Main"].sprites
    BY <1>1, <1>3, <1>4, <2>3
  <2> QED  BY <2>7, <2>8, <2>9, <2>10, <2>11 DEF Sprites
<1> QED  BY <1>1, <1>7, <1>8, <1>9, <1>10, DoneIs DEF FilesInv, Ended

LEMMA CopySpritesKeeps ==
  ASSUME FilesInv, CopySprites
  PROVE  FilesInv'
<1>1. /\ todo # <<>> /\ Now.kind \in CopySpritesKinds /\ Done
      /\ UNCHANGED <<running, living, killed, saves, troubles>>
      /\ FilesTypeOK /\ Ended /\ Generations /\ Wholes /\ Sprites
  BY DEF CopySprites, FilesInv, CopySpritesKinds
<1>2. /\ \/ Now.kind = "copyAll" /\ Now.from = "TempBu" /\ Now.to = "Backup"
         \/ Now.kind = "copyLiving" /\ Now.from = "Main" /\ Now.to = "TempBu"
      /\ Now \in Ops /\ Now.from \in Directories /\ Now.to \in Directories
      /\ Filling(todo, Now.to) /\ (todo' # <<>> => Now'.kind \notin CopySpritesKinds)
  BY <1>1, DoneIs, NowIs DEF CopySpritesKinds
<1>3. "Main" \in Directories /\ "TempBu" \in Directories /\ "Backup" \in Directories
  BY DEF Directories
<1> DEFINE chosen == IF Now.kind = "copyAll" THEN Norns ELSE living
           copied == disk[Now.to].sprites \union (disk[Now.from].sprites \cap chosen)
<1>4. disk' = [disk EXCEPT ![Now.to].sprites = copied]
  BY DEF CopySprites
<1>5. copied \in SUBSET Norns
  BY <1>1, <1>2, DiskIs
<1>6. /\ disk' \in [Directories -> [world : Worlds, sprites : SUBSET Norns]]
      /\ \A d \in Directories : disk'[d].world = disk[d].world
      /\ disk'[Now.to].sprites = copied
      /\ \A x \in Directories \ {Now.to} : disk'[x] = disk[x]
  <2> HIDE DEF copied
  <2> QED  BY <1>1, <1>2, <1>4, <1>5, DiskIs
<1>7. FilesTypeOK'
  BY <1>1, <1>6, DoneIs DEF FilesTypeOK
<1>8. Generations'
  BY <1>1, <1>6 DEF Generations, GenerationsOrdered
<1>9. Wholes'
  <2> SUFFICES ASSUME troubles = 0 \/ ~DiskFills
               PROVE  IsWhole("Main") /\ (IsWhole("TempBu") \/ Copying(todo', "TempBu"))
                      /\ (Before(todo') => IsWhole("TempBu"))
    BY <1>1, <1>3, <1>6 DEF Wholes, IsWhole
  <2>1. IsWhole("Main") /\ (Before(todo) => IsWhole("TempBu")) /\ (IsWhole("TempBu") \/ Copying(todo, "TempBu"))
    BY <1>1, <1>2, WholeNow
  <2>2. (Before(todo') => Before(todo)) /\ (Copying(todo, "TempBu") => Copying(todo', "TempBu"))
    BY <1>1, <1>2, <1>3, DoneIs
  <2> QED  BY <2>1, <2>2
<1>10. Sprites'
  <2> SUFFICES ASSUME troubles = 0 PROVE Sprites'
    BY <1>1 DEF Sprites
  <2>1. /\ living \subseteq disk["Main"].sprites /\ (Before(todo) => Complete("TempBu"))
        /\ Complete("Backup") \/ Filling(todo, "Backup")
        /\ Complete("TempBu") \/ Filling(todo, "TempBu")
        /\ Filling(todo, "TempBu") /\ ~Writing(todo) => disk["Main"].world.holds = living
        /\ Now.kind = "copyAll" => disk["Backup"].world = disk["TempBu"].world
        /\ Now.kind = "copyLiving" => disk["TempBu"].world = disk["Main"].world
    BY <1>1 DEF Sprites
  <2>2. /\ Now.to = "TempBu" => ~Before(todo) /\ ~Before(todo')
        /\ Now.to # "TempBu" => Before(todo)
        /\ Before(todo') => Before(todo)
        /\ \A d \in Directories : /\ Filling(todo, d) => Filling(todo', d) \/ Now.to = d
                                  /\ Filling(todo', d) => Filling(todo, d)
        /\ Writing(todo) => Writing(todo')
    BY <1>1, <1>2, DoneIs DEF CopySpritesKinds
  <2>3. \A d \in Directories : Complete(d) => Complete(d)'
    BY <1>6 DEF Complete
  <2>4. Now.kind = "copyLiving" => ~Writing(todo)
    <3>1. \A i \in 1 .. Len(todo) : todo[i].to = "TempBu" => todo[i].kind \notin {"write", "finish"}
      <4>1. \A i \in 1 .. Len(todo) : todo[i] \in Ops
        BY DEF FilesInv, Planned
      <4> QED  BY <4>1, OpIs
    <3> QED  BY <1>2, <2>2, <3>1 DEF Writing, Before
  <2>5. \A d \in Directories : d = Now.to => Complete(d)'
    <3>1. CASE Now.kind = "copyAll"
      <4>1. disk["Backup"].world.holds \subseteq disk["TempBu"].sprites /\ disk["TempBu"].sprites \subseteq Norns
        BY <1>1, <1>2, <1>3, <2>1, <2>2, <3>1, DiskIs DEF Complete
      <4> QED  BY <1>2, <1>6, <3>1, <4>1 DEF Complete
    <3>2. CASE Now.kind = "copyLiving"
      <4>1. disk["TempBu"].world.holds = living /\ living \subseteq disk["Main"].sprites
        BY <1>2, <2>1, <2>4, <3>2
      <4> QED  BY <1>2, <1>6, <3>2, <4>1 DEF Complete
    <3> QED  BY <1>2, <3>1, <3>2
  <2>6. /\ (Complete("Backup") \/ Filling(todo, "Backup"))'
        /\ (Complete("TempBu") \/ Filling(todo, "TempBu"))'
        /\ Before(todo') => Complete("TempBu")'
    BY <1>3, <2>1, <2>2, <2>3, <2>5
  <2>7. Filling(todo', "TempBu") /\ ~Writing(todo') => disk'["Main"].world.holds = living'
    BY <1>1, <1>3, <1>6, <2>1, <2>2
  <2>8. living' \subseteq disk'["Main"].sprites
    BY <1>1, <1>2, <1>3, <1>6, <2>1
  <2> QED  BY <1>2, <2>6, <2>7, <2>8 DEF Sprites, CopySpritesKinds
<1> QED  BY <1>1, <1>7, <1>8, <1>9, <1>10, DoneIs DEF FilesInv, Ended

LEMMA ReapKeeps ==
  ASSUME FilesInv, Reap
  PROVE  FilesInv'
<1>1. /\ todo # <<>> /\ Now.kind = "reap" /\ Done
      /\ UNCHANGED <<running, living, saves, troubles>>
      /\ FilesTypeOK /\ Ended /\ Generations /\ Wholes /\ Sprites
  BY DEF Reap, FilesInv
<1>2. Now.to = "Main" /\ Now \in Ops
  BY <1>1, DoneIs, NowIs
<1>3. "Main" \in Directories /\ "TempBu" \in Directories /\ "Backup" \in Directories
  BY DEF Directories
<1>4. PICK S \in SUBSET killed :
        /\ killed' = killed \ S
        /\ disk' = [disk EXCEPT !["Main"].sprites = disk["Main"].sprites \ S]
  BY DEF Reap
<1>5. /\ disk' \in [Directories -> [world : Worlds, sprites : SUBSET Norns]]
      /\ \A d \in Directories : disk'[d].world = disk[d].world
      /\ disk'["Main"].sprites = disk["Main"].sprites \ S
      /\ disk'["TempBu"] = disk["TempBu"] /\ disk'["Backup"] = disk["Backup"]
  <2> DEFINE left == disk["Main"].sprites \ S
  <2>1. left \in SUBSET Norns
    BY <1>1, <1>3, DiskIs
  <2>2. \A d \in Directories : d # "Main" => disk'[d] = disk[d]
    BY <1>4 DEF FilesTypeOK
  <2>3. "TempBu" # "Main" /\ "Backup" # "Main"
    OBVIOUS
  <2> HIDE DEF left
  <2> QED  BY <1>1, <1>3, <1>4, <2>1, <2>2, <2>3, DiskIs DEF left
<1>6. FilesTypeOK'
  BY <1>1, <1>4, <1>5, DoneIs DEF FilesTypeOK
<1>7. Generations'
  BY <1>1, <1>5 DEF Generations, GenerationsOrdered
<1>8. /\ Before(todo') => Before(todo)
      /\ Copying(todo, "TempBu") => Copying(todo', "TempBu")
      /\ \A d \in Directories : /\ Filling(todo, d) => Filling(todo', d)
                                /\ Filling(todo', d) => Filling(todo, d)
      /\ Writing(todo) => Writing(todo')
      /\ todo' # <<>> => Now'.kind \notin CopySpritesKinds
  BY <1>1, <1>3, DoneIs DEF CopySpritesKinds
<1>9. Wholes'
  <2> SUFFICES ASSUME troubles = 0 \/ ~DiskFills
               PROVE  IsWhole("Main") /\ (IsWhole("TempBu") \/ Copying(todo', "TempBu"))
                      /\ (Before(todo') => IsWhole("TempBu"))
    BY <1>1, <1>3, <1>5 DEF Wholes, IsWhole
  <2>1. IsWhole("Main") /\ (Before(todo) => IsWhole("TempBu")) /\ (IsWhole("TempBu") \/ Copying(todo, "TempBu"))
    BY <1>1, WholeNow
  <2> QED  BY <1>8, <2>1
<1>10. Sprites'
  <2> SUFFICES ASSUME troubles = 0 PROVE Sprites'
    BY <1>1 DEF Sprites
  <2>1. /\ Complete("TempBu") => Complete("TempBu")'
        /\ Complete("Backup") => Complete("Backup")'
    BY <1>5 DEF Complete
  <2>2. living' \subseteq disk'["Main"].sprites
    <3>1. living \subseteq disk["Main"].sprites /\ killed \subseteq Norns \ living
      BY <1>1 DEF Sprites, FilesTypeOK
    <3> QED  BY <1>1, <1>4, <1>5, <3>1
  <2> QED  BY <1>1, <1>3, <1>5, <1>8, <2>1, <2>2 DEF Sprites, CopySpritesKinds
<1> QED  BY <1>1, <1>6, <1>7, <1>9, <1>10, DoneIs DEF FilesInv, Ended

\* The world is replaced by one of this save.
LEMMA Written ==
  ASSUME FilesInv, todo # <<>>, Now.kind \in {"write", "finish"}, Done,
         disk' = [disk EXCEPT !["Main"].world = Whole(saves, living)],
         UNCHANGED <<running, living, killed, saves, troubles>>
  PROVE  FilesInv'
<1>1. FilesTypeOK /\ Ended /\ Generations /\ Wholes /\ Sprites
  BY DEF FilesInv
<1>2. Now.to = "Main" /\ Now \in Ops
  BY DoneIs, NowIs
<1>3. "Main" \in Directories /\ "TempBu" \in Directories /\ "Backup" \in Directories
  BY DEF Directories
<1>4. /\ Whole(saves, living) \in Worlds /\ Whole(saves, living).kind = "whole"
      /\ Whole(saves, living).generation = saves /\ Whole(saves, living).holds = living
  BY <1>1, WorldsAre DEF FilesTypeOK
<1>5. /\ disk' \in [Directories -> [world : Worlds, sprites : SUBSET Norns]]
      /\ disk'["Main"].world = Whole(saves, living)
      /\ disk'["Main"].sprites = disk["Main"].sprites
      /\ \A d \in Directories \ {"Main"} : disk'[d] = disk[d]
  BY <1>1, <1>3, <1>4, DiskIs
<1>6. FilesTypeOK'
  BY <1>1, <1>5, DoneIs DEF FilesTypeOK
<1>7. Generations'
  <2>1. saves \in Nat /\ saves' = saves /\ \A d \in Directories : disk[d].world.generation <= saves
    BY <1>1 DEF Generations, FilesTypeOK
  <2>2. /\ disk'["TempBu"] = disk["TempBu"] /\ disk'["Backup"] = disk["Backup"]
        /\ disk'["Main"].world.generation = saves
    BY <1>3, <1>4, <1>5
  <2>3. \A d \in Directories : disk'[d].world.generation <= saves
    BY <1>5, <2>1, <2>2
  <2> HIDE DEF Whole
  <2>4. GenerationsOrdered'
    BY <1>1, <1>3, <2>1, <2>2 DEF Generations, GenerationsOrdered
  <2> QED  BY <2>1, <2>3, <2>4 DEF Generations
<1>8. /\ Before(todo)
      /\ Copying(todo, "TempBu") => Copying(todo', "TempBu")
      /\ \A d \in Directories : /\ Filling(todo, d) => Filling(todo', d)
                                /\ Filling(todo', d) => Filling(todo, d)
      /\ todo' # <<>> => Now'.kind \notin CopySpritesKinds
  BY <1>1, <1>2, <1>3, DoneIs DEF CopySpritesKinds
<1>9. disk'["TempBu"] = disk["TempBu"] /\ disk'["Backup"] = disk["Backup"]
  BY <1>3, <1>5
<1>10. Wholes'
  <2> SUFFICES ASSUME troubles = 0 \/ ~DiskFills PROVE IsWhole("Main")' /\ IsWhole("TempBu")'
    BY DEF Wholes
  <2>1. IsWhole("TempBu")
    BY <1>1, <1>8, WholeNow
  <2> QED  BY <1>4, <1>5, <1>9, <2>1 DEF IsWhole
<1>11. Sprites'
  <2> SUFFICES ASSUME troubles = 0 PROVE Sprites'
    BY DEF Sprites
  <2>1. /\ Complete("TempBu") => Complete("TempBu")'
        /\ Complete("Backup") => Complete("Backup")'
    BY <1>9 DEF Complete
  <2>2. living' \subseteq disk'["Main"].sprites /\ disk'["Main"].world.holds = living'
    BY <1>1, <1>4, <1>5 DEF Sprites
  <2> QED  BY <1>1, <1>3, <1>8, <2>1, <2>2 DEF Sprites, CopySpritesKinds
<1> QED  BY <1>1, <1>6, <1>7, <1>10, <1>11, DoneIs DEF FilesInv, Ended

\* The write cuts the old file and has still to be finished.
LEMMA CutKeeps ==
  ASSUME FilesInv, todo # <<>>, Now.kind = "write",
         disk' = [disk EXCEPT !["Main"].world = Cut],
         todo' = <<Op("finish", "Main", "Main")>> \o Tail(todo),
         UNCHANGED <<running, living, killed, saves, troubles>>
  PROVE  FilesInv'
<1> DEFINE rest == Tail(todo)  finish == Op("finish", "Main", "Main")
<1>1. FilesTypeOK /\ Ended /\ Generations /\ Wholes /\ Sprites /\ Planned(todo)
  BY DEF FilesInv
<1>2. "Main" \in Directories /\ "TempBu" \in Directories /\ "Backup" \in Directories
  BY DEF Directories
<1>3. /\ Now \in Ops /\ Now.to = "Main" /\ Before(todo) /\ Planned(rest)
      /\ \A d \in Directories : /\ Copying(todo, d) => Copying(rest, d)
                                /\ Filling(todo, d) => Filling(rest, d)
                                /\ Filling(rest, d) => Filling(todo, d)
      /\ rest # <<>> => Head(rest).kind \notin CopySpritesKinds /\ Head(rest).kind # "finish"
  <2>1. Now \in Ops
    BY <1>1, First DEF Now
  <2>2. Now.to = "Main"
    BY <2>1, NowIs
  <2> QED  BY <1>1, <1>2, <2>1, <2>2, First DEF Now, CopySpritesKinds
<1>4. /\ finish \in Ops /\ finish.kind = "finish" /\ finish.to = "Main" /\ rest \in Seq(Ops)
      /\ finish \in [kind : Kinds, from : Directories, to : Directories]
  <2>1. finish \in Ops /\ finish.kind = "finish" /\ finish.to = "Main"
    BY DEF Ops, Op
  <2> QED  BY <1>3, <2>1, OpIs DEF Planned
<1>5. \A i \in 1 .. Len(rest) : rest[i] = todo[i + 1] /\ i + 1 \in 1 .. Len(todo)
  BY <1>1 DEF Planned
<1> HIDE DEF rest, finish
<1>6. /\ todo' \in Seq(Ops) /\ Len(rest) \in Nat /\ Len(todo') = Len(rest) + 1
      /\ todo'[1] = finish /\ todo' # <<>> /\ Now' = finish
      /\ \A i \in 1 .. Len(rest) : i + 1 \in 1 .. Len(todo') /\ todo'[i + 1] = rest[i]
  BY <1>4 DEF rest, finish, Now
<1>7. \A i \in 1 .. Len(todo') : i = 1 \/ (i - 1 \in 1 .. Len(rest) /\ todo'[i] = rest[i - 1])
  BY <1>6
<1>8. Planned(todo')
  <2>1. \A i, j \in 1 .. Len(todo') : i < j /\ todo'[i].to = "TempBu" => todo'[j].to = "TempBu"
    <3> SUFFICES ASSUME NEW i \in 1 .. Len(todo'), NEW j \in 1 .. Len(todo'), i < j, todo'[i].to = "TempBu"
                 PROVE  todo'[j].to = "TempBu"
      OBVIOUS
    <3>1. i # 1 /\ j # 1
      BY <1>4, <1>6
    <3>2. /\ i - 1 \in 1 .. Len(rest) /\ j - 1 \in 1 .. Len(rest) /\ i - 1 < j - 1
          /\ todo'[i] = rest[i - 1] /\ todo'[j] = rest[j - 1]
      BY <1>7, <3>1
    <3>3. \A k, l \in 1 .. Len(rest) : k < l /\ rest[k].to = "TempBu" => rest[l].to = "TempBu"
      BY <1>3 DEF Planned
    <3> QED  BY <3>2, <3>3
  <2>2. \A i \in 1 .. Len(rest) : rest[i].kind # "finish"
    <3>1. \A i \in 1 .. Len(todo) : i > 1 => todo[i].kind # "finish"
      BY <1>1 DEF Planned
    <3>2. \A i \in 1 .. Len(rest) : i + 1 > 1
      OBVIOUS
    <3> QED  BY <1>5, <3>1, <3>2
  <2>3. \A i \in 1 .. Len(todo') : i > 1 => todo'[i].kind # "finish"
    BY <1>7, <2>2
  <2>4. \A i \in 1 .. Len(todo') : todo'[i].kind \in CopySpritesKinds /\ i > 1
          => todo'[i - 1].kind = "copyWorld" /\ todo'[i - 1].to = todo'[i].to
    <3> SUFFICES ASSUME NEW i \in 1 .. Len(todo'), todo'[i].kind \in CopySpritesKinds, i > 1
                 PROVE  todo'[i - 1].kind = "copyWorld" /\ todo'[i - 1].to = todo'[i].to
      OBVIOUS
    <3>1. i - 1 \in 1 .. Len(rest) /\ todo'[i] = rest[i - 1]
      BY <1>7
    <3>2. i - 1 # 1
      <4>1. Len(rest) >= 1 => rest # <<>> /\ Head(rest) = rest[1]
        BY <1>4
      <4>2. Len(rest) >= 1 => rest[1].kind \notin CopySpritesKinds
        BY <1>3, <4>1
      <4>3. Len(rest) >= 1 /\ rest[i - 1].kind \in CopySpritesKinds
        BY <1>6, <3>1
      <4> QED  BY <4>2, <4>3
    <3>3. i - 1 \in 1 .. Len(todo') /\ (i - 1) - 1 \in 1 .. Len(rest) /\ todo'[i - 1] = rest[(i - 1) - 1]
      <4>1. i - 1 \in 1 .. Len(todo')
        BY <1>6, <3>1
      <4> QED  BY <1>7, <3>2, <4>1
    <3>4. \A k \in 1 .. Len(rest) : rest[k].kind \in CopySpritesKinds /\ k > 1
            => rest[k - 1].kind = "copyWorld" /\ rest[k - 1].to = rest[k].to
      BY <1>3 DEF Planned
    <3>5. i - 1 > 1
      BY <3>1, <3>2
    <3> QED  BY <3>1, <3>3, <3>4, <3>5
  <2>5. \A i \in 1 .. Len(todo') : todo'[i].kind = "copyWorld"
          => \E j \in 1 .. Len(todo') : j = i + 1 /\ todo'[j].kind \in CopySpritesKinds /\ todo'[j].to = todo'[i].to
    <3> SUFFICES ASSUME NEW i \in 1 .. Len(todo'), todo'[i].kind = "copyWorld"
                 PROVE  \E j \in 1 .. Len(todo') : j = i + 1 /\ todo'[j].kind \in CopySpritesKinds
                                                   /\ todo'[j].to = todo'[i].to
      OBVIOUS
    <3>1. i - 1 \in 1 .. Len(rest) /\ todo'[i] = rest[i - 1]
      BY <1>4, <1>6, <1>7
    <3>2. PICK j \in 1 .. Len(rest) : /\ j = (i - 1) + 1 /\ rest[j].kind \in CopySpritesKinds
                                      /\ rest[j].to = rest[i - 1].to
      BY <1>3, <3>1 DEF Planned
    <3>3. j + 1 \in 1 .. Len(todo') /\ j + 1 = i + 1 /\ todo'[j + 1] = rest[j]
      BY <1>6, <3>2
    <3> QED  BY <3>1, <3>2, <3>3
  <2>6. \A i \in 1 .. Len(todo') : todo'[i].kind \in {"removeWorld", "removeSprite"}
          => \E j \in 1 .. Len(todo') : j > i /\ todo'[j].kind = "copyWorld" /\ todo'[j].to = todo'[i].to
    <3> SUFFICES ASSUME NEW i \in 1 .. Len(todo'), todo'[i].kind \in {"removeWorld", "removeSprite"}
                 PROVE  \E j \in 1 .. Len(todo') : j > i /\ todo'[j].kind = "copyWorld"
                                                   /\ todo'[j].to = todo'[i].to
      OBVIOUS
    <3>1. i - 1 \in 1 .. Len(rest) /\ todo'[i] = rest[i - 1]
      BY <1>4, <1>6, <1>7
    <3>2. PICK j \in 1 .. Len(rest) : j > i - 1 /\ rest[j].kind = "copyWorld" /\ rest[j].to = rest[i - 1].to
      BY <1>3, <3>1 DEF Planned
    <3>3. j + 1 \in 1 .. Len(todo') /\ j + 1 > i /\ todo'[j + 1] = rest[j]
      BY <1>6, <3>2
    <3> QED  BY <3>1, <3>2, <3>3
  <2> QED  BY <1>6, <2>1, <2>3, <2>4, <2>5, <2>6 DEF Planned
<1>9. /\ \A d \in Directories : /\ Copying(todo, d) => Copying(todo', d)
                                /\ Filling(todo, d) => Filling(todo', d)
      /\ Writing(todo')
  <2>1. \A d : (Copying(rest, d) => Copying(todo', d)) /\ (Filling(rest, d) => Filling(todo', d))
    BY <1>6 DEF Copying, Filling
  <2>2. 1 \in 1 .. Len(todo')
    BY <1>6
  <2>3. Writing(todo')
    BY <1>4, <1>6, <2>2 DEF Writing
  <2> QED  BY <1>3, <2>1, <2>3
<1>10. /\ disk' \in [Directories -> [world : Worlds, sprites : SUBSET Norns]]
       /\ disk'["Main"].world = Cut /\ disk'["Main"].sprites = disk["Main"].sprites
       /\ \A d \in Directories \ {"Main"} : disk'[d] = disk[d]
  BY <1>1, <1>2, DiskIs, WorldsAre
<1>11. FilesTypeOK'
  <2>1. todo' \in Seq([kind : Kinds, from : Directories, to : Directories])
    <3>1. rest \in Seq([kind : Kinds, from : Directories, to : Directories])
      BY <1>1 DEF FilesTypeOK, rest
    <3> QED  BY <1>4, <3>1 DEF rest, finish
  <2> QED  BY <1>1, <1>10, <2>1 DEF FilesTypeOK
<1>12. disk'["TempBu"] = disk["TempBu"] /\ disk'["Backup"] = disk["Backup"]
  BY <1>2, <1>10
<1>13. Generations'
  <2>1. saves \in Nat /\ saves' = saves /\ \A d \in Directories : disk[d].world.generation <= saves
    BY <1>1 DEF Generations, FilesTypeOK
  <2>2. disk'["Main"].world.generation = 0 /\ disk'["Main"].world.kind = "cut"
    BY <1>10, WorldsAre
  <2>3. \A d \in Directories : disk'[d].world.generation <= saves
    BY <1>10, <2>1, <2>2
  <2>4. GenerationsOrdered'
    BY <1>1, <1>2, <1>12, <2>2 DEF Generations, GenerationsOrdered
  <2> QED  BY <2>1, <2>3, <2>4 DEF Generations
<1>14. Wholes'
  <2> SUFFICES ASSUME troubles = 0 \/ ~DiskFills PROVE IsWhole("TempBu")'
    BY <1>4, <1>6 DEF Wholes
  <2>1. IsWhole("TempBu")
    BY <1>1, <1>3, WholeNow
  <2> QED  BY <1>12, <2>1 DEF IsWhole
<1>15. Sprites'
  <2> SUFFICES ASSUME troubles = 0 PROVE Sprites'
    BY DEF Sprites
  <2>1. /\ Complete("TempBu") => Complete("TempBu")'
        /\ Complete("Backup") => Complete("Backup")'
    BY <1>12 DEF Complete
  <2>2. living' \subseteq disk'["Main"].sprites
    BY <1>1, <1>10 DEF Sprites
  <2> QED  BY <1>1, <1>2, <1>3, <1>4, <1>6, <1>9, <2>1, <2>2 DEF Sprites
<1> QED  BY <1>1, <1>6, <1>8, <1>11, <1>13, <1>14, <1>15 DEF FilesInv, Ended

LEMMA WriteFailsKeeps ==
  ASSUME FilesInv, WriteFails
  PROVE  FilesInv'
<1>1. /\ todo # <<>> /\ Now.kind \in {"write", "finish"} /\ Done /\ (~DiskFills => Now.kind = "write")
      /\ UNCHANGED <<disk, running, living, killed, saves>>
      /\ troubles < MaxTroubles /\ troubles' = troubles + 1
      /\ FilesTypeOK /\ Ended /\ Generations /\ Wholes /\ Sprites
  BY DEF WriteFails, FilesInv
<1>2. troubles' \in 0 .. MaxTroubles /\ troubles' > 0
  BY <1>1, WorldFilesAssumption DEF FilesTypeOK
<1>3. "TempBu" \in Directories
  BY DEF Directories
<1>4. /\ Before(todo) /\ Planned(todo')
      /\ todo' \in Seq([kind : Kinds, from : Directories, to : Directories])
  BY <1>1, DoneIs, NowIs
<1>5. Wholes'
  <2> SUFFICES ASSUME ~DiskFills PROVE IsWhole("Main")' /\ IsWhole("TempBu")'
    BY <1>2 DEF Wholes
  <2> QED  BY <1>1, <1>4, WholeNow DEF IsWhole
<1> QED  BY <1>1, <1>2, <1>4, <1>5
           DEF FilesInv, FilesTypeOK, Ended, Generations, GenerationsOrdered, Sprites

LEMMA CrashKeeps ==
  ASSUME FilesInv, Crash
  PROVE  FilesInv'
<1>1. /\ running /\ troubles < MaxTroubles /\ troubles' = troubles + 1
      /\ running' = FALSE /\ todo' = <<>> /\ living' = {} /\ killed' = {} /\ saves' = saves
      /\ FilesTypeOK /\ Generations /\ Wholes /\ Planned(todo) /\ Ended
  BY DEF Crash, FilesInv
<1>2. troubles' \in 0 .. MaxTroubles /\ troubles' > 0 /\ saves \in Nat
  BY <1>1, WorldFilesAssumption DEF FilesTypeOK
<1>3. "Main" \in Directories /\ "TempBu" \in Directories /\ "Backup" \in Directories
  BY DEF Directories
<1>4. \/ disk' = disk
      \/ /\ todo # <<>> /\ Now.kind = "copyWorld" /\ Now \in Ops /\ Now.to \in {"TempBu", "Backup"}
         /\ disk' = [disk EXCEPT ![Now.to].world = Cut]
  <2>1. todo # <<>> => Now \in Ops
    BY <1>1, First DEF Now
  <2> QED  BY <2>1, NowIs DEF Crash
<1>5. /\ disk' \in [Directories -> [world : Worlds, sprites : SUBSET Norns]]
      /\ \A d \in Directories : disk'[d].world \in {disk[d].world, Cut}
      /\ disk'["Main"] = disk["Main"]
      /\ disk'["TempBu"].world # disk["TempBu"].world
           => todo # <<>> /\ Now.kind = "copyWorld"
  <2>1. CASE disk' = disk
    BY <1>1, <2>1 DEF FilesTypeOK
  <2>2. CASE /\ todo # <<>> /\ Now.kind = "copyWorld" /\ Now \in Ops /\ Now.to \in {"TempBu", "Backup"}
             /\ disk' = [disk EXCEPT ![Now.to].world = Cut]
    <3>1. /\ disk' \in [Directories -> [world : Worlds, sprites : SUBSET Norns]]
          /\ disk'[Now.to].world = Cut
          /\ \A x \in Directories \ {Now.to} : disk'[x] = disk[x]
      BY <1>1, <1>3, <2>2, DiskIs, WorldsAre
    <3> QED  BY <1>3, <2>2, <3>1
  <2> QED  BY <1>4, <2>1, <2>2
<1>6. FilesTypeOK'
  <2>1. todo' \in Seq([kind : Kinds, from : Directories, to : Directories])
    BY <1>1
  <2>2. /\ running' \in BOOLEAN /\ living' \subseteq Norns /\ killed' \subseteq Norns \ living'
        /\ saves' \in 0 .. MaxSaves
    BY <1>1 DEF FilesTypeOK
  <2> QED  BY <1>2, <1>5, <2>1, <2>2 DEF FilesTypeOK
<1>7. Generations'
  <2>1. Cut.generation = 0 /\ Cut.kind = "cut"
    BY WorldsAre
  <2>2. \A d \in Directories : disk[d].world.generation <= saves
    BY <1>1 DEF Generations
  <2>3. \A d \in Directories : disk'[d].world.generation <= saves
    BY <1>2, <1>5, <2>1, <2>2
  <2>4. \A d \in Directories : disk'[d].world.kind = "whole" => disk'[d].world = disk[d].world
    BY <1>5, <2>1
  <2>5. GenerationsOrdered'
    BY <1>1, <2>4 DEF Generations, GenerationsOrdered
  <2> QED  BY <1>1, <2>3, <2>5 DEF Generations
<1>8. Wholes'
  <2> SUFFICES ASSUME ~DiskFills PROVE IsWhole("Main")' \/ IsWhole("TempBu")'
    BY <1>1, <1>2, NothingPlanned DEF Wholes
  <2>1. CASE todo # <<>> /\ Now.kind = "copyWorld"
    <3>1. IsWhole("Main")
      BY <1>1, <2>1, WholeNow
    <3> QED  BY <1>5, <3>1 DEF IsWhole
  <2>2. CASE ~(todo # <<>> /\ Now.kind = "copyWorld")
    <3>1. disk'["TempBu"].world = disk["TempBu"].world
      BY <1>5, <2>2
    <3> QED  BY <1>1, <1>5, <3>1 DEF Wholes, IsWhole
  <2> QED  BY <2>1, <2>2
<1> QED  BY <1>1, <1>2, <1>6, <1>7, <1>8, NothingPlanned DEF FilesInv, Ended, Sprites

LEMMA ReopenKeeps ==
  ASSUME FilesInv, Reopen
  PROVE  FilesInv'
<1>1. /\ ~running /\ IsWhole("Main") /\ running' = TRUE /\ todo' = Refresh
      /\ living' = disk["Main"].world.holds /\ killed' = {}
      /\ disk' = [disk EXCEPT !["Main"].sprites = disk["Main"].sprites \union disk["Main"].world.holds]
      /\ UNCHANGED <<saves, troubles>>
      /\ FilesTypeOK /\ Ended /\ Generations
  BY DEF Reopen, FilesInv, IsWhole
<1>2. "Main" \in Directories /\ "TempBu" \in Directories
  BY DEF Directories
<1>3. troubles \in Nat /\ troubles > 0
  BY <1>1, WorldFilesAssumption DEF Ended, FilesTypeOK
<1>4. disk["Main"].world.holds \subseteq Norns /\ disk["Main"].sprites \subseteq Norns
  BY <1>1, <1>2, DiskIs, WorldIs
<1>5. /\ disk' \in [Directories -> [world : Worlds, sprites : SUBSET Norns]]
      /\ \A d \in Directories : disk'[d].world = disk[d].world
  <2> DEFINE S == disk["Main"].sprites \union disk["Main"].world.holds
  <2>1. S \in SUBSET Norns
    BY <1>4
  <2> HIDE DEF S
  <2> QED  BY <1>1, <1>2, <2>1, DiskIs DEF S
<1>6. /\ Planned(Refresh) /\ ~Before(Refresh) /\ Copying(Refresh, "TempBu")
      /\ Refresh \in Seq([kind : Kinds, from : Directories, to : Directories])
  <2> DEFINE r == <<Op("removeWorld", "TempBu", "TempBu"), Op("removeSprite", "TempBu", "TempBu"),
                    Op("copyWorld", "Main", "TempBu"), Op("copyLiving", "Main", "TempBu")>>
  <2>1. ~Before(r)
    BY DEF Before, Op
  <2>2. 3 \in 1 .. Len(r) /\ r[3].kind = "copyWorld" /\ r[3].to = "TempBu"
    BY DEF Op
  <2>3. Copying(r, "TempBu")
    BY <2>2 DEF Copying
  <2>4. r \in Seq([kind : Kinds, from : Directories, to : Directories])
    BY DEF Op, Kinds, Directories
  <2> QED  BY <2>1, <2>3, <2>4, StepsAre, RefreshPlanned
<1>7. FilesTypeOK'
  BY <1>1, <1>4, <1>5, <1>6 DEF FilesTypeOK
<1>8. Generations'
  BY <1>1, <1>5 DEF Generations, GenerationsOrdered
<1>9. Wholes'
  BY <1>1, <1>2, <1>5, <1>6 DEF Wholes, IsWhole
<1> QED  BY <1>1, <1>3, <1>6, <1>7, <1>8, <1>9 DEF FilesInv, Ended, Sprites

LEMMA BeginSaveKeeps ==
  ASSUME FilesInv, BeginSave
  PROVE  FilesInv'
<1>1. /\ running /\ todo = <<>> /\ saves < MaxSaves /\ saves' = saves + 1
      /\ UNCHANGED <<disk, running, living, killed, troubles>>
      /\ FilesTypeOK /\ Ended /\ Generations /\ Wholes /\ Sprites
  BY DEF BeginSave, FilesInv, Idle
<1>2. "Main" \in Directories /\ "TempBu" \in Directories /\ "Backup" \in Directories
  BY DEF Directories
<1>3. /\ Planned(todo') /\ todo' # <<>> /\ Now'.kind \notin CopySpritesKinds /\ Writing(todo')
      /\ todo' \in Seq([kind : Kinds, from : Directories, to : Directories])
  <2>1. CASE todo' = SaveSteps
    <3> DEFINE r == <<Op("reap", "Main", "Main"),
                Op("removeWorld", "Backup", "Backup"), Op("removeSprite", "Backup", "Backup"),
                Op("copyWorld", "TempBu", "Backup"), Op("copyAll", "TempBu", "Backup"),
                Op("write", "Main", "Main")>>
    <3>1. /\ r # <<>> /\ Head(r).kind = "reap" /\ 6 \in 1 .. Len(r) /\ r[6].kind = "write"
          /\ r \in Seq([kind : Kinds, from : Directories, to : Directories])
      BY DEF Op, Kinds, Directories
    <3>2. Writing(r)
      BY <3>1 DEF Writing
    <3>3. todo' = r
      BY <2>1, SaveIs
    <3> HIDE DEF r
    <3> QED  BY <2>1, <3>1, <3>2, <3>3, SavePlanned DEF Now, CopySpritesKinds
  <2>2. CASE todo' = Autosave
    <3> DEFINE r == <<Op("removeWorld", "Backup", "Backup"), Op("removeSprite", "Backup", "Backup"),
               Op("copyWorld", "TempBu", "Backup"), Op("copyAll", "TempBu", "Backup"),
               Op("reap", "Main", "Main"),
               Op("removeWorld", "Backup", "Backup"), Op("removeSprite", "Backup", "Backup"),
               Op("copyWorld", "TempBu", "Backup"), Op("copyAll", "TempBu", "Backup"),
               Op("write", "Main", "Main"),
               Op("removeWorld", "TempBu", "TempBu"), Op("removeSprite", "TempBu", "TempBu"),
               Op("copyWorld", "Main", "TempBu"), Op("copyLiving", "Main", "TempBu")>>
    <3>1. /\ r # <<>> /\ Head(r).kind = "removeWorld" /\ 10 \in 1 .. Len(r) /\ r[10].kind = "write"
          /\ r \in Seq([kind : Kinds, from : Directories, to : Directories])
      BY DEF Op, Kinds, Directories
    <3>2. Writing(r)
      BY <3>1 DEF Writing
    <3>3. todo' = r
      BY <2>2, AutosaveIs
    <3> HIDE DEF r
    <3> QED  BY <2>2, <3>1, <3>2, <3>3, AutosavePlanned DEF Now, CopySpritesKinds
  <2> QED  BY <2>1, <2>2 DEF BeginSave
<1>4. saves \in Nat /\ saves' \in 0 .. MaxSaves
  BY <1>1, WorldFilesAssumption DEF FilesTypeOK
<1>5. FilesTypeOK'
  BY <1>1, <1>3, <1>4 DEF FilesTypeOK
<1>6. Generations'
  <2>1. \A d \in Directories : disk[d].world.generation <= saves /\ disk[d].world.generation \in Nat
    BY <1>1, DiskIs, WorldIs DEF Generations
  <2>2. \A d \in Directories : disk'[d].world.generation <= saves'
    BY <1>1, <1>4, <2>1
  <2>3. GenerationsOrdered'
    BY <1>1 DEF Generations, GenerationsOrdered
  <2> QED  BY <2>2, <2>3 DEF Generations
<1>7. Wholes'
  <2> SUFFICES ASSUME troubles = 0 \/ ~DiskFills PROVE IsWhole("Main") /\ IsWhole("TempBu")
    BY <1>1 DEF Wholes, IsWhole
  <2> QED  BY <1>1, <1>2, NothingPlanned, Zenon DEF Wholes
<1>8. Sprites'
  <2> SUFFICES ASSUME troubles = 0
               PROVE  living \subseteq disk["Main"].sprites /\ Complete("Backup") /\ Complete("TempBu")
    BY <1>1, <1>3 DEF Sprites, Complete, CopySpritesKinds
  <2> QED  BY <1>1, <1>2, NothingPlanned, Zenon DEF Sprites
<1> QED  BY <1>1, <1>3, <1>5, <1>6, <1>7, <1>8 DEF FilesInv, Ended

LEMMA LifeKeeps ==
  ASSUME FilesInv, NEW c \in Norns, Hatch(c) \/ Kill(c)
  PROVE  FilesInv'
<1>1. /\ running /\ todo = <<>> /\ UNCHANGED <<running, todo, saves, troubles>>
      /\ FilesTypeOK /\ Ended /\ Generations /\ Wholes /\ Sprites /\ Planned(todo)
  BY DEF Hatch, Kill, FilesInv, Idle
<1>2. "Main" \in Directories /\ "TempBu" \in Directories /\ "Backup" \in Directories
  BY DEF Directories
<1>3. CASE Hatch(c)
  <2>1. /\ c \notin living \union killed /\ living' = living \union {c} /\ killed' = killed
        /\ disk' = [disk EXCEPT !["Main"].sprites = disk["Main"].sprites \union {c}]
    BY <1>3 DEF Hatch
  <2> DEFINE S == disk["Main"].sprites \union {c}
  <2>2. S \in SUBSET Norns
    BY <1>1, <1>2, DiskIs
  <2>3. /\ disk' \in [Directories -> [world : Worlds, sprites : SUBSET Norns]]
        /\ \A d \in Directories : disk'[d].world = disk[d].world
        /\ disk'["Main"].sprites = S
        /\ \A d \in Directories \ {"Main"} : disk'[d] = disk[d]
    <3> HIDE DEF S
    <3> QED  BY <1>1, <1>2, <2>1, <2>2, DiskIs DEF S
  <2>4. FilesTypeOK'
    BY <1>1, <2>1, <2>3 DEF FilesTypeOK
  <2>5. Generations'
    BY <1>1, <2>3 DEF Generations, GenerationsOrdered
  <2>6. Wholes'
    BY <1>1, <1>2, <2>3, NothingPlanned DEF Wholes, IsWhole
  <2>7. Sprites'
    <3> SUFFICES ASSUME troubles = 0 PROVE Sprites'
      BY <1>1 DEF Sprites
    <3>1. living \subseteq disk["Main"].sprites /\ Complete("Backup") /\ Complete("TempBu")
      BY <1>1, <1>2, NothingPlanned, Zenon DEF Sprites
    <3>2. living' \subseteq disk'["Main"].sprites /\ Complete("Backup")' /\ Complete("TempBu")'
      BY <1>2, <2>1, <2>3, <3>1 DEF Complete
    <3> QED  BY <1>1, <1>2, <3>2, NothingPlanned DEF Sprites
  <2> QED  BY <1>1, <2>4, <2>5, <2>6, <2>7 DEF FilesInv, Ended
<1>4. CASE Kill(c)
  <2>1. /\ living' = living \ {c} /\ killed' = killed \union {c} /\ disk' = disk
    BY <1>4 DEF Kill
  <2>2. FilesTypeOK' /\ Generations' /\ Wholes'
    BY <1>1, <2>1 DEF FilesTypeOK, Generations, GenerationsOrdered, Wholes, IsWhole, Now
  <2>3. Sprites'
    <3> SUFFICES ASSUME troubles = 0 PROVE Sprites'
      BY <1>1 DEF Sprites
    <3>1. living \subseteq disk["Main"].sprites /\ Complete("Backup") /\ Complete("TempBu")
      BY <1>1, <1>2, NothingPlanned, Zenon DEF Sprites
    <3>2. living' \subseteq disk'["Main"].sprites /\ Complete("Backup")' /\ Complete("TempBu")'
      BY <2>1, <3>1 DEF Complete
    <3> QED  BY <1>1, <1>2, <3>2, NothingPlanned DEF Sprites
  <2> QED  BY <1>1, <2>2, <2>3 DEF FilesInv, Ended
<1> QED  BY <1>3, <1>4

\* Every step of a save, an opening or a life, and every crash, keeps the invariant.
LEMMA FilesNextKeeps ==
  ASSUME FilesInv, [FilesNext]_fileVars
  PROVE  FilesInv'
<1>1. CASE RemoveWorld
  BY <1>1, RemoveWorldKeeps
<1>2. CASE RemoveSprite
  BY <1>2, RemoveSpriteKeeps
<1>3. CASE CopyWorld
  BY <1>3, CopyWorldKeeps
<1>4. CASE CopySprites
  BY <1>4, CopySpritesKeeps
<1>5. CASE Reap
  BY <1>5, ReapKeeps
<1>6. CASE Write
  <2>1. /\ todo # <<>> /\ Now.kind = "write" /\ UNCHANGED <<running, living, killed, saves, troubles>>
    BY <1>6 DEF Write
  <2>2. CASE disk' = [disk EXCEPT !["Main"].world = Whole(saves, living)] /\ Done
    BY <2>1, <2>2, Written
  <2>3. CASE /\ disk' = [disk EXCEPT !["Main"].world = Cut]
             /\ todo' = <<Op("finish", "Main", "Main")>> \o Tail(todo)
    BY <2>1, <2>3, CutKeeps
  <2> QED  BY <1>6, <2>2, <2>3 DEF Write
<1>7. CASE Finish
  BY <1>7, Written DEF Finish
<1>8. CASE WriteFails
  BY <1>8, WriteFailsKeeps
<1>9. CASE BeginSave
  BY <1>9, BeginSaveKeeps
<1>10. CASE Crash
  BY <1>10, CrashKeeps
<1>11. CASE Reopen
  BY <1>11, ReopenKeeps
<1>12. ASSUME NEW c \in Norns, Hatch(c) \/ Kill(c) PROVE FilesInv'
  BY <1>12, LifeKeeps
<1>13. CASE UNCHANGED fileVars
  BY <1>13 DEF fileVars, FilesInv, FilesTypeOK, Planned, Ended, Generations, GenerationsOrdered,
               Wholes, Sprites, IsWhole, Complete, Now, Copying, Filling, Before, Writing
<1> QED  BY <1>1, <1>2, <1>3, <1>4, <1>5, <1>6, <1>7, <1>8, <1>9, <1>10, <1>11, <1>12, <1>13
           DEF FilesNext, FileStep

\* The inductive invariant of the world files holds always: what is left to do is the rest of
\* one of the code's lists of file operations.
THEOREM FilesInductive == FilesSpec => []FilesInv
BY FilesInitInv, FilesNextKeeps, PTL DEF FilesSpec

\* Whatever is interrupted, and even if a direct write stops half way, the backups stay
\* generations in order; while nothing was, each has the sprites of its world between saves.
THEOREM BackupsAreSound == FilesSpec => []FilesSound
<1>1. FilesInv => FilesSound
  <2> SUFFICES ASSUME FilesInv PROVE FilesSound
    OBVIOUS
  <2>1. BackupsComplete
    <3> SUFFICES ASSUME todo = <<>>, troubles = 0
                 PROVE  Complete("TempBu") /\ Complete("Backup")
      BY DEF BackupsComplete, Complete
    <3>1. "TempBu" \in Directories /\ "Backup" \in Directories
      BY DEF Directories
    <3> QED  BY <3>1, NothingPlanned, Zenon DEF FilesInv, Sprites
  <2> QED  BY <2>1 DEF FilesInv, FilesSound, Generations
<1> QED  BY <1>1, FilesInductive, PTL

\* A crash at any file operation leaves a whole world in some directory, if MFC's write does
\* no harm when it fails (~DiskFills): a direct write that stops half way destroys the world.
THEOREM AWholeWorldIsLeft == ~DiskFills => (FilesSpec => []WholeSomewhere)
<1> SUFFICES ASSUME ~DiskFills PROVE FilesSpec => []WholeSomewhere
  OBVIOUS
<1>1. FilesInv => WholeSomewhere
  <2>1. "Main" \in Directories /\ "TempBu" \in Directories
    BY DEF Directories
  <2> QED  BY <2>1 DEF FilesInv, Wholes, IsWhole, WholeSomewhere
<1> QED  BY <1>1, FilesInductive, PTL

=============================================================================
