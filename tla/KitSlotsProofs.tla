---------------------------- MODULE KitSlotsProofs ----------------------------
(* The game's slots and its kits, for any slots, processes, deaths and faults: *)
(* KitInv and PipeInv are invariants whatever fails. DeathInv, which stands on *)
(* them and says that no reported death is forgotten, supposes NothingHinders. *)
EXTENDS KitSlots, SequenceTheorems, FiniteSetTheorems, TLAPS

Messages == [why : {"exited", "quit"}, slot : Slots]

\* A word that names a creature names one whose death was reported.
Known == buried \cup {"id", "raise", "state", "none"}
Steps ==
  {o \in [op : {"send", "launched", "tell", "flush", "clear", "box"},
          slot : Slots, word : Known] :
     (o.op = "tell" => o.word \in buried) /\ (o.op = "send" => o.word # "none")}
Starts == Steps \cup {LaunchOf(s) : s \in Slots}

\* While the game runs, a slot is attached exactly if it holds a process, and
\* that process was started for it.
Synced == running => \A s \in Slots : s \in dispatch <=> handle[s] # None
Owned ==
  \A s \in Slots : handle[s] # None => slotOf[handle[s]] = s /\ main[handle[s]] # "none"

\* A notice that waits is about a slot that is free or whose process is over.
Noticed == \E i \in DOMAIN posted : posted[i].why = "exited"
NoticesSound ==
  \A i \in DOMAIN posted : posted[i].why = "exited" =>
    handle[posted[i].slot] = None \/ main[handle[posted[i].slot]] = "dead"

GameSide ==
  /\ dispatch \subseteq Slots /\ asked \subseteq dispatch
  /\ handle \in [Slots -> Procs \cup {None}] /\ running \in BOOLEAN
  /\ posted \in Seq(Messages)
  /\ main \in [Procs -> Phases] /\ slotOf \in [Procs -> Slots]
  /\ ActiveIsAttached /\ NoOrphan /\ Synced /\ Owned /\ NoticesSound

\* A handler starts a kit before anything else, in a slot that is not attached
\* and before any notice is posted.
TodoSound ==
  \/ todo \in Seq(Steps)
  \/ /\ todo \in Seq(Starts) /\ todo # <<>> /\ Tail(todo) \in Seq(Steps) /\ ~Noticed
     /\ \E s \in Slots \ dispatch : Head(todo) = LaunchOf(s)

-----------------------------------------------------------------------------
(* The slots *)

LEMMA MessageSlot ==
  ASSUME posted \in Seq(Messages), NEW i \in DOMAIN posted
  PROVE  posted[i].slot \in Slots
<1>1. posted[i] \in Messages
  OBVIOUS
<1> QED
  BY <1>1 DEF Messages

LEMMA GameStays ==
  GameSide /\ UNCHANGED <<dispatch, asked, handle, active, running, posted, main, slotOf>>
    => GameSide'
BY DEF GameSide, ActiveIsAttached, NoOrphan, Alive, Synced, Owned, NoticesSound

\* A kit's process moves on by itself.
LEMMA MainMoves ==
  ASSUME GameSide, NEW p \in Procs, NEW to \in Phases \ {"none"},
         main' = [main EXCEPT ![p] = to], main[p] \notin {"none", "dead"},
         to \notin Gone => Alive(p),
         UNCHANGED <<dispatch, asked, handle, active, running, posted, slotOf>>
  PROVE  GameSide'
<1>1. main' \in [Procs -> Phases] /\ \A q \in Procs : main'[q] = IF q = p THEN to ELSE main[q]
  BY DEF GameSide
<1>2. NoOrphan'
  BY <1>1 DEF GameSide, NoOrphan, Alive
<1>3. Owned' /\ Synced'
  BY <1>1, NoneAssumption DEF GameSide, Owned, Synced
<1>4. NoticesSound'
  <2> SUFFICES ASSUME NEW i \in DOMAIN posted, posted[i].why = "exited",
                      handle[posted[i].slot] # None
               PROVE  main'[handle[posted[i].slot]] = "dead"
    BY DEF NoticesSound
  <2>1. handle[posted[i].slot] \in Procs /\ main[handle[posted[i].slot]] = "dead"
    BY MessageSlot DEF GameSide, NoticesSound
  <2> QED
    BY <1>1, <2>1
<1> QED
  BY <1>1, <1>2, <1>3, <1>4 DEF GameSide, ActiveIsAttached

\* shutdown of a slot, attached or not, with the notices that stay.
LEMMA ShutdownKeeps ==
  ASSUME GameSide, NEW s \in Slots, Shutdown(s), UNCHANGED <<running, slotOf>>,
         posted' \in Seq(Messages),
         \A i \in DOMAIN posted' : \E j \in DOMAIN posted : posted'[i] = posted[j]
  PROVE  GameSide'
<1>1. /\ dispatch' = dispatch \ {s} /\ asked' = asked \ {s}
      /\ active' = IF s \in dispatch THEN active - 1 ELSE active
      /\ handle' = [handle EXCEPT ![s] = None]
      /\ main' = Terminated({handle[s]})
  BY DEF Shutdown
<1>2. /\ handle' \in [Slots -> Procs \cup {None}]
      /\ \A t \in Slots : handle'[t] = IF t = s THEN None ELSE handle[t]
  BY <1>1 DEF GameSide
<1>3. /\ main' \in [Procs -> Phases]
      /\ \A p \in Procs : main'[p] = IF p = handle[s] /\ Alive(p) THEN "dying" ELSE main[p]
  BY <1>1 DEF GameSide, Terminated, Phases
<1>4. ActiveIsAttached'
  <2>1. IsFiniteSet(dispatch)
    BY FS_Subset, SlotsAssumption DEF GameSide
  <2> QED
    BY <1>1, <2>1, FS_RemoveElement DEF GameSide, ActiveIsAttached
<1>5. NoOrphan'
  <2> SUFFICES ASSUME NEW p \in Procs, Alive(p)'
               PROVE  handle'[slotOf[p]] = p
    BY DEF NoOrphan
  <2>1. Alive(p) /\ (p # handle[s] \/ ~Alive(p))
    BY <1>3 DEF Alive, Gone
  <2>2. handle[slotOf[p]] = p /\ p # handle[s] /\ slotOf[p] \in Slots
    BY <2>1 DEF GameSide, NoOrphan, Alive, Gone
  <2> QED
    BY <1>2, <2>2
<1>6. Synced'
  BY <1>1, <1>2 DEF GameSide, Synced
<1>7. Owned'
  <2> SUFFICES ASSUME NEW t \in Slots, handle'[t] # None
               PROVE  slotOf[handle'[t]] = t /\ main'[handle'[t]] # "none"
    BY DEF Owned
  <2>1. handle'[t] = handle[t] /\ handle[t] \in Procs
    BY <1>2 DEF GameSide
  <2>2. slotOf[handle[t]] = t /\ main[handle[t]] # "none"
    BY <1>2, <2>1 DEF GameSide, Owned
  <2> QED
    BY <1>3, <2>1, <2>2
<1>8. NoticesSound'
  <2> SUFFICES ASSUME NEW i \in DOMAIN posted', posted'[i].why = "exited",
                      handle'[posted'[i].slot] # None
               PROVE  main'[handle'[posted'[i].slot]] = "dead"
    BY DEF NoticesSound
  <2>1. PICK j \in DOMAIN posted : posted'[i] = posted[j]
    OBVIOUS
  <2>2. posted[j].slot \in Slots
    BY MessageSlot DEF GameSide
  <2> DEFINE t == posted[j].slot
  <2>3. handle'[t] # None /\ posted[j].why = "exited" /\ posted'[i].slot = t
    BY <2>1
  <2>4. handle'[t] = handle[t] /\ handle[t] \in Procs
    BY <1>2, <2>2, <2>3 DEF GameSide
  <2>5. main[handle[t]] = "dead"
    BY <2>3, <2>4 DEF GameSide, NoticesSound
  <2> QED
    BY <1>3, <2>3, <2>4, <2>5 DEF Alive, Gone
<1> QED
  BY <1>1, <1>2, <1>3, <1>4, <1>5, <1>6, <1>7, <1>8 DEF GameSide

\* A notice is posted of an attached slot whose process is over.
LEMMA NoticeKeeps ==
  ASSUME GameSide, NEW s \in Slots, running, Notice(s),
         UNCHANGED <<dispatch, handle, active, running, main, slotOf>>
  PROVE  GameSide'
<1>1. CASE UNCHANGED <<asked, posted>>
  BY <1>1, GameStays
<1>2. CASE s \notin asked /\ Exited(s)
  <2>1. asked' = asked \cup {s} /\ posted' = Append(posted, [why |-> "exited", slot |-> s])
    BY <1>2 DEF Notice
  <2>2. s \in dispatch /\ main[handle[s]] = "dead"
    BY <1>2 DEF Exited, GameSide, Synced
  <2> DEFINE m == [why |-> "exited", slot |-> s]
  <2>3. m \in Messages /\ m.slot = s
    BY DEF Messages
  <2> HIDE DEF m
  <2>4. /\ posted' \in Seq(Messages) /\ Len(posted) \in Nat
        /\ DOMAIN posted = 1 .. Len(posted) /\ DOMAIN posted' = 1 .. Len(posted) + 1
        /\ \A i \in 1 .. Len(posted) : posted'[i] = posted[i]
        /\ posted'[Len(posted) + 1] = m
    BY <2>1, <2>3 DEF GameSide, m
  <2>5. NoticesSound'
    <3> SUFFICES ASSUME NEW i \in 1 .. Len(posted) + 1, posted'[i].why = "exited"
                 PROVE  \/ handle[posted'[i].slot] = None
                        \/ main[handle[posted'[i].slot]] = "dead"
      BY <2>4 DEF NoticesSound
    <3>1. CASE i \in 1 .. Len(posted)
      BY <2>4, <3>1 DEF GameSide, NoticesSound
    <3>2. CASE i = Len(posted) + 1
      BY <2>2, <2>3, <2>4, <3>2
    <3> QED
      BY <2>4, <3>1, <3>2
  <2> QED
    BY <2>1, <2>2, <2>4, <2>5 DEF GameSide, ActiveIsAttached, NoOrphan, Alive, Synced, Owned
<1> QED
  BY <1>1, <1>2 DEF Notice

-----------------------------------------------------------------------------
(* The handlers of the UI thread *)

LEMMA HeadTail ==
  ASSUME TodoSound, todo # <<>>
  PROVE  /\ Tail(todo) \in Seq(Steps)
         /\ Head(todo).op # "launch" => todo \in Seq(Steps) /\ Head(todo) \in Steps
         /\ Head(todo).op = "launch" =>
              ~Noticed /\ \E s \in Slots \ dispatch : Head(todo) = LaunchOf(s)
<1>1. CASE todo \in Seq(Steps)
  <2>1. Tail(todo) \in Seq(Steps) /\ Head(todo) \in Steps
    BY <1>1
  <2>2. Head(todo).op # "launch"
    BY <2>1 DEF Steps
  <2> QED
    BY <1>1, <2>1, <2>2
<1>2. CASE /\ Tail(todo) \in Seq(Steps) /\ ~Noticed
           /\ \E s \in Slots \ dispatch : Head(todo) = LaunchOf(s)
  <2>1. Head(todo).op = "launch"
    BY <1>2 DEF LaunchOf, Op
  <2> QED
    BY <1>2, <2>1
<1> QED
  BY <1>1, <1>2 DEF TodoSound

LEMMA GameHandler ==
  ASSUME GameSide, TodoSound, \/ Handler \/ Broadcast \/ Close
                              \/ \E s \in Slots : Toggle(s)
                              \/ \E c \in Deaths : ClickDead(c) \/ Bury(c)
                              \/ \E q \in quits : QuitArrives(q)
                              , quits \subseteq Procs \X Slots
  PROVE  GameSide'
<1>0. \A m \in Messages : m.slot \in Slots
  BY DEF Messages
<1>1. ASSUME NEW s \in Slots, Toggle(s) PROVE GameSide'
  <2>1. CASE UNCHANGED <<slotVars, main>>
    BY <1>1, <2>1, GameStays DEF Toggle, slotVars, queueVars, kitVars
  <2>2. CASE Shutdown(s)
    BY <1>1, <2>2, ShutdownKeeps DEF Toggle, queueVars, kitVars, GameSide
  <2> QED
    BY <1>1, <2>1, <2>2 DEF Toggle
<1>2. CASE Launch
  <2> DEFINE s == Head(todo).slot
  <2>1. s \in Slots \ dispatch /\ running /\ ~Noticed /\ handle[s] = None
    <3>1. ~Noticed /\ \E t \in Slots \ dispatch : Head(todo) = LaunchOf(t)
      BY <1>2, HeadTail DEF Launch
    <3>2. s \in Slots \ dispatch
      BY <3>1 DEF LaunchOf, Op
    <3> QED
      BY <1>2, <3>1, <3>2 DEF Launch, GameSide, Synced
  <2>2. CASE UNCHANGED <<slotVars, main, slotOf>>
    BY <1>2, <2>2, GameStays DEF Launch, slotVars, queueVars
  <2>3. ASSUME NEW p \in Fresh,
               /\ dispatch' = dispatch \cup {s} /\ asked' = asked \ {s}
               /\ handle' = [handle EXCEPT ![s] = p]
               /\ active' = active + 1
               /\ slotOf' = [slotOf EXCEPT ![p] = s]
               /\ main' = [main EXCEPT ![p] = "opening"]
        PROVE  GameSide'
    <3> HIDE DEF s
    <3>1. p \in Procs /\ main[p] = "none" /\ running' = running /\ posted' = posted
      BY <1>2, <2>3 DEF Fresh, Launch, queueVars
    <3>2. /\ handle' \in [Slots -> Procs \cup {None}]
          /\ \A t \in Slots : handle'[t] = IF t = s THEN p ELSE handle[t]
      BY <2>1, <2>3, <3>1 DEF GameSide
    <3>3. /\ main' \in [Procs -> Phases]
          /\ \A q \in Procs : main'[q] = IF q = p THEN "opening" ELSE main[q]
      BY <2>3, <3>1 DEF GameSide, Phases
    <3>4. /\ slotOf' \in [Procs -> Slots]
          /\ \A q \in Procs : slotOf'[q] = IF q = p THEN s ELSE slotOf[q]
      BY <2>1, <2>3, <3>1 DEF GameSide
    <3>5. ActiveIsAttached'
      <4>1. IsFiniteSet(dispatch)
        BY FS_Subset, SlotsAssumption DEF GameSide
      <4> QED
        BY <2>1, <2>3, <4>1, FS_AddElement DEF GameSide, ActiveIsAttached
    <3>6. NoOrphan'
      <4> SUFFICES ASSUME NEW q \in Procs, Alive(q)'
                   PROVE  handle'[slotOf'[q]] = q
        BY DEF NoOrphan
      <4>1. CASE q = p
        BY <2>1, <3>2, <3>4, <4>1
      <4>2. CASE q # p
        <5>1. handle[slotOf[q]] = q /\ slotOf[q] \in Slots
          BY <3>3, <4>2 DEF GameSide, NoOrphan, Alive
        <5>2. slotOf[q] # s
          BY <2>1, <5>1, NoneAssumption
        <5> QED
          BY <3>2, <3>4, <4>2, <5>1, <5>2
      <4> QED
        BY <4>1, <4>2
    <3>7. Synced'
      BY <2>1, <2>3, <3>1, <3>2, NoneAssumption DEF GameSide, Synced
    <3>8. Owned'
      <4> SUFFICES ASSUME NEW t \in Slots, handle'[t] # None
                   PROVE  slotOf'[handle'[t]] = t /\ main'[handle'[t]] # "none"
        BY DEF Owned
      <4>1. CASE t = s
        BY <2>1, <3>1, <3>2, <3>3, <3>4, <4>1
      <4>2. CASE t # s
        <5>1. handle'[t] = handle[t] /\ handle[t] \in Procs /\ slotOf[handle[t]] = t
              /\ main[handle[t]] # "none"
          BY <3>2, <4>2 DEF GameSide, Owned
        <5>2. handle[t] # p
          BY <3>1, <5>1
        <5> QED
          BY <3>3, <3>4, <5>1, <5>2
      <4> QED
        BY <4>1, <4>2
    <3>9. NoticesSound'
      BY <2>1, <3>1 DEF NoticesSound, Noticed
    <3> QED
      BY <2>1, <2>3, <3>1, <3>2, <3>3, <3>4, <3>5, <3>6, <3>7, <3>8, <3>9 DEF GameSide
  <2> QED
    BY <1>2, <2>2, <2>3 DEF Launch
<1>3. CASE LaunchEnds
  <2>1. Head(todo).slot \in Slots
    <3>1. Head(todo) \in Steps
      BY <1>3, HeadTail DEF LaunchEnds
    <3> QED
      BY <3>1 DEF Steps
  <2>2. CASE sent
    BY <1>3, <2>2, GameStays DEF LaunchEnds, slotVars, queueVars, kitVars
  <2>3. CASE ~sent
    BY <1>3, <2>1, <2>3, ShutdownKeeps DEF LaunchEnds, queueVars, kitVars, GameSide
  <2> QED
    BY <2>2, <2>3
<1>4. CASE ShutdownMessage
  <2>1. posted \in Seq(Messages) /\ posted # <<>> /\ posted' = Tail(posted)
    BY <1>4 DEF ShutdownMessage, GameSide
  <2>2. /\ posted' \in Seq(Messages) /\ Head(posted) \in Messages
        /\ \A i \in DOMAIN posted' : i + 1 \in DOMAIN posted /\ posted'[i] = posted[i + 1]
    BY <2>1
  <2> QED
    BY <1>0, <1>4, <2>2, ShutdownKeeps DEF ShutdownMessage, kitVars
<1>5. CASE Close
  <2>1. running' = FALSE /\ handle' = [s \in Slots |-> None]
        /\ main' = Terminated({handle[s] : s \in Slots})
        /\ UNCHANGED <<dispatch, asked, active, posted, slotOf>>
    BY <1>5 DEF Close, kitVars
  <2>2. handle' \in [Slots -> Procs \cup {None}] /\ \A s \in Slots : handle'[s] = None
    BY <2>1
  <2>3. /\ main' \in [Procs -> Phases]
        /\ \A p \in Procs : main'[p] = IF p \in {handle[s] : s \in Slots} /\ Alive(p)
                                         THEN "dying" ELSE main[p]
    BY <2>1 DEF GameSide, Terminated, Phases
  <2>4. NoOrphan'
    <3> SUFFICES ASSUME NEW p \in Procs, Alive(p)'
                 PROVE  FALSE
      BY DEF NoOrphan
    <3>1. Alive(p)
          /\ (p \notin {handle[s] : s \in Slots} \/ ~Alive(p))
      BY <2>3 DEF Alive, Gone
    <3>2. handle[slotOf[p]] = p /\ slotOf[p] \in Slots /\ Alive(p)
      BY <3>1 DEF GameSide, NoOrphan, Alive, Gone
    <3> QED
      BY <3>1, <3>2
  <2>5. NoticesSound'
    <3>1. \A i \in DOMAIN posted : posted[i].slot \in Slots
      BY MessageSlot DEF GameSide
    <3> QED
      BY <2>1, <2>2, <3>1 DEF NoticesSound
  <2> QED
    BY <2>1, <2>2, <2>3, <2>4, <2>5 DEF GameSide, ActiveIsAttached, Synced, Owned
<1>6. ASSUME NEW s \in Slots, GiveUp(s) \/ Write(s) PROVE GameSide'
  <2>1. CASE GiveUp(s)
    BY <2>1, NoticeKeeps DEF GiveUp, Sending, SendFails, kitVars
  <2>2. CASE Write(s)
    <3>1. CASE client[s] = "game"
      BY <2>2, <3>1, GameStays DEF Write, kitVars
    <3>2. CASE client[s] # "game"
      BY <2>2, <3>2, NoticeKeeps DEF Write, Sending, SendFails, kitVars
    <3> QED
      BY <3>1, <3>2
  <2> QED
    BY <1>6, <2>1, <2>2
<1>7. CASE \/ DismissBox \/ TellKit \/ FlushWords \/ ClearWords \/ Broadcast
           \/ \E s \in Slots : Connect(s) \/ SendEnds(s)
           \/ \E c \in Deaths : ClickDead(c) \/ Bury(c)
  BY <1>7, GameStays DEF DismissBox, TellKit, FlushWords, ClearWords, Broadcast, Connect,
    SendEnds, ClickDead, Bury, slotVars, queueVars, kitVars
<1>8. ASSUME NEW q \in quits, QuitArrives(q) PROVE GameSide'
  <2> DEFINE m == [why |-> "quit", slot |-> q[2]]
  <2>1. m \in Messages /\ m.why # "exited" /\ posted' = Append(posted, m)
    BY <1>8 DEF QuitArrives, Messages
  <2> HIDE DEF m
  <2>2. /\ posted' \in Seq(Messages) /\ Len(posted) \in Nat
        /\ DOMAIN posted = 1 .. Len(posted) /\ DOMAIN posted' = 1 .. Len(posted) + 1
        /\ \A i \in 1 .. Len(posted) : posted'[i] = posted[i]
        /\ posted'[Len(posted) + 1] = m
    BY <2>1 DEF GameSide
  <2>3. UNCHANGED <<dispatch, asked, handle, active, running, main, slotOf>>
    BY <1>8 DEF QuitArrives, slotVars, kitVars
  <2>4. NoticesSound'
    <3> SUFFICES ASSUME NEW i \in 1 .. Len(posted) + 1, posted'[i].why = "exited"
                 PROVE  \/ handle[posted'[i].slot] = None
                        \/ main[handle[posted'[i].slot]] = "dead"
      BY <2>2, <2>3 DEF NoticesSound
    <3>1. i # Len(posted) + 1
      BY <2>1, <2>2
    <3>2. i \in 1 .. Len(posted)
      BY <2>2, <3>1
    <3> QED
      BY <2>2, <3>2 DEF GameSide, NoticesSound
  <2> QED
    BY <2>2, <2>3, <2>4 DEF GameSide, ActiveIsAttached, NoOrphan, Alive, Synced, Owned
<1> QED
  BY <1>1, <1>2, <1>3, <1>4, <1>5, <1>6, <1>7, <1>8 DEF Handler

KitSteps(p) ==
  \/ PipeThread(p) \/ StartServer(p) \/ Start(p) \/ HandleWord(p)
  \/ RequestGameQuit(p) \/ Stop(p) \/ Wake(p) \/ Join(p) \/ Ends(p)

LEMMA GameKit ==
  ASSUME GameSide, NEW p \in Procs, KitSteps(p)
  PROVE  GameSide'
<1>1. CASE PipeThread(p) \/ StartServer(p) \/ HandleWord(p)
  BY <1>1, GameStays DEF PipeThread, TestStop, CreatePipe, Connected, Read, Reopen,
    StartServer, HandleWord, slotVars, queueVars, kitVars
<1>2. CASE Start(p) \/ RequestGameQuit(p) \/ Stop(p) \/ Wake(p) \/ Join(p)
  <2>1. UNCHANGED <<dispatch, asked, handle, active, running, posted, slotOf>>
    BY <1>2 DEF Start, RequestGameQuit, Stop, Wake, Join, slotVars, queueVars, kitVars
  <2>2. \E to \in {"complaining", "leaving", "open", "waking", "ended", "joining"} :
           /\ main' = [main EXCEPT ![p] = to] /\ main[p] \notin {"none", "dead"}
           /\ to \notin Gone => Alive(p)
    BY <1>2 DEF Start, RequestGameQuit, Stop, Wake, Join, Goes, Alive, Gone
  <2>3. PICK to \in {"complaining", "leaving", "open", "waking", "ended", "joining"} :
           /\ main' = [main EXCEPT ![p] = to] /\ main[p] \notin {"none", "dead"}
           /\ to \notin Gone => Alive(p)
    BY <2>2
  <2>4. to \in Phases \ {"none"}
    BY DEF Phases
  <2> QED
    BY <2>1, <2>3, <2>4, MainMoves
<1>3. CASE Ends(p)
  <2>1. main' = [main EXCEPT ![p] = "dead"] /\ main[p] \notin {"none", "dead"}
        /\ UNCHANGED <<dispatch, asked, handle, active, running, posted, slotOf>>
    BY <1>3 DEF Ends, Goes, Alive, Gone, slotVars, queueVars
  <2>2. "dead" \in Phases \ {"none"} /\ "dead" \in Gone
    BY DEF Phases, Gone
  <2> QED
    BY <2>1, <2>2, MainMoves
<1> QED
  BY <1>1, <1>2, <1>3 DEF KitSteps

-----------------------------------------------------------------------------
(* Words and what is left to do *)

LEMMA SeqGrows ==
  ASSUME NEW S, NEW T, S \subseteq T, NEW s \in Seq(S)
  PROVE  s \in Seq(T)
<1>1. s \in [1 .. Len(s) -> T] /\ Len(s) \in Nat
  OBVIOUS
<1> QED
  BY <1>1, SeqDef

LEMMA InFront ==
  ASSUME NEW S, NEW a \in S, NEW b \in S, NEW s \in Seq(S)
  PROVE  <<a>> \o s \in Seq(S) /\ <<a, b>> \o s \in Seq(S)
OBVIOUS

LEMMA StepsGrow ==
  ASSUME buried \subseteq buried'
  PROVE  Steps \subseteq Steps' /\ Known \subseteq Known'
BY DEF Steps, Known

LEMMA OpsAreSteps ==
  /\ \A s \in Slots : /\ Launched(s) \in Steps
                      /\ \A w \in Known \ {"none"} : Send(s, w) \in Steps
  /\ \A w \in buried : Tell(w) \in Steps
  /\ Flush \in Steps /\ Clear \in Steps /\ Box \in Steps
  /\ {"id", "raise", "state", "none"} \subseteq Known /\ buried \subseteq Known
BY SlotsAssumption DEF Steps, Known, Launched, Send, Tell, Flush, Clear, Box, Op

LEMMA WordOfStep ==
  ASSUME NEW o \in Steps
  PROVE  /\ o.word \in Known /\ o.slot \in Slots /\ (o.op = "tell" => o.word \in buried)
         /\ (o.op = "send" => o.word # "none")
         /\ (buried \subseteq Deaths /\ o.word \in Deaths => o.word \in buried)
BY WordsAssumption DEF Steps, Known

\* The words that wait for the Funeral Kit, and what a flush makes of them.
LEMMA FlushedSteps ==
  ASSUME pending \in Seq(buried), buried \subseteq Deaths
  PROVE  Flushed \in Seq(Steps)
<1>1. CASE Funeral \in dispatch
  <2> DEFINE f == [i \in 1 .. Len(pending) |-> Send(Funeral, pending[i])]
  <2>1. \A i \in 1 .. Len(pending) : Send(Funeral, pending[i]) \in Steps
    BY OpsAreSteps, SlotsAssumption, WordsAssumption
  <2>2. f \in [1 .. Len(pending) -> Steps] /\ Len(pending) \in Nat
    BY <2>1
  <2>3. f \in Seq(Steps)
    BY <2>2, SeqDef
  <2>4. Clear \in Steps
    BY OpsAreSteps
  <2>5. Flushed = f \o <<Clear>>
    BY <1>1 DEF Flushed
  <2> HIDE DEF f
  <2> QED
    BY <2>3, <2>4, <2>5
<1>2. CASE Funeral \notin dispatch
  BY <1>2 DEF Flushed
<1> QED
  BY <1>1, <1>2

\* What is left to do, of handlers that leave the buried as they are ...
LEMMA TodoHandler ==
  ASSUME TodoSound, pending \in Seq(buried), buried \subseteq Deaths, dispatch \subseteq Slots,
         UNCHANGED buried,
         \/ Handler \/ Broadcast \/ Close \/ \E s \in Slots : Toggle(s)
  PROVE  TodoSound'
<1>0. Steps' = Steps /\ Known' = Known
  BY DEF Steps, Known
<1>00. Starts' = Starts
  BY <1>0 DEF Starts
<1>1. ASSUME todo' \in Seq(Steps) PROVE TodoSound'
  BY <1>0, <1>1 DEF TodoSound
<1>2. ASSUME Pumping PROVE todo \in Seq(Steps)
  <2>1. CASE todo = <<>>
    BY <2>1
  <2>2. CASE AtBox
    BY <2>2, HeadTail DEF AtBox
  <2> QED
    BY <1>2, <2>1, <2>2 DEF Pumping
<1>3. ASSUME NEW s \in Slots, Toggle(s) PROVE TodoSound'
  <2>1. CASE s \notin dispatch /\ todo' = IF s = Funeral THEN <<LaunchOf(s), Flush>>
                                                        ELSE <<LaunchOf(s)>>
    <3>1. /\ todo' \in Seq(Starts) /\ todo' # <<>>
          /\ Head(todo') = LaunchOf(s) /\ Tail(todo') \in Seq(Steps)
      <4>1. Flush \in Steps /\ Flush \in Starts /\ LaunchOf(s) \in Starts
        BY OpsAreSteps DEF Starts
      <4> QED
        BY <2>1, <4>1
    <3>2. posted = <<>> /\ UNCHANGED <<dispatch, posted>>
      BY <1>3, <2>1 DEF Toggle, Clickable, queueVars, slotVars, Shutdown
    <3>3. ~Noticed'
      BY <3>2 DEF Noticed
    <3> QED
      BY <1>0, <1>00, <2>1, <3>1, <3>2, <3>3 DEF TodoSound
  <2>2. CASE UNCHANGED todo
    BY <1>1, <1>3, <2>2 DEF Toggle, Clickable
  <2> QED
    BY <1>3, <2>1, <2>2 DEF Toggle
<1>4. CASE Launch
  <2>1. Tail(todo) \in Seq(Steps) /\ Head(todo).slot \in Slots
    <3>1. Tail(todo) \in Seq(Steps) /\ \E s \in Slots \ dispatch : Head(todo) = LaunchOf(s)
      BY <1>4, HeadTail DEF Launch
    <3> QED
      BY <3>1 DEF LaunchOf, Op
  <2>2. \/ todo' = <<Box>> \o Tail(todo)
        \/ todo' = <<Send(Head(todo).slot, "id"), Launched(Head(todo).slot)>> \o Tail(todo)
    BY <1>4 DEF Launch
  <2>3. /\ Box \in Steps /\ Send(Head(todo).slot, "id") \in Steps
        /\ Launched(Head(todo).slot) \in Steps
    BY <2>1, OpsAreSteps
  <2>4. todo' \in Seq(Steps)
    BY <2>1, <2>2, <2>3, InFront, Zenon
  <2> QED
    BY <1>1, <2>4
<1>5. CASE LaunchEnds
  <2>1. Tail(todo) \in Seq(Steps) /\ Head(todo).slot \in Slots
    BY <1>5, HeadTail, WordOfStep DEF LaunchEnds
  <2>2. todo' = <<Send(Head(todo).slot, "raise")>> \o Tail(todo) \/ todo' = <<Box>> \o Tail(todo)
    BY <1>5 DEF LaunchEnds
  <2>3. Box \in Steps /\ Send(Head(todo).slot, "raise") \in Steps
    BY <2>1, OpsAreSteps
  <2>4. todo' \in Seq(Steps)
    BY <2>1, <2>2, <2>3, InFront, Zenon
  <2> QED
    BY <1>1, <2>4
<1>6. CASE DismissBox \/ ClearWords
  BY <1>1, <1>6, HeadTail DEF DismissBox, ClearWords, AtBox
<1>7. CASE ShutdownMessage \/ Close
  <2>1. todo' = todo /\ (Pumping \/ todo = <<>>)
    BY <1>7 DEF ShutdownMessage, Close, Clickable
  <2>2. todo \in Seq(Steps)
    <3>1. <<>> \in Seq(Steps)
      BY EmptySeq
    <3> QED
      BY <1>2, <2>1, <3>1, Zenon
  <2> QED
    BY <1>1, <2>1, <2>2
<1>8. CASE Broadcast
  <2>1. todo \in Seq(Steps)
    BY <1>2, <1>8 DEF Broadcast, Ticking
  <2>2. PICK slots \in [1 .. Cardinality(dispatch) -> dispatch] :
           todo' = [i \in DOMAIN slots |-> Send(slots[i], "state")] \o todo
    BY <1>8 DEF Broadcast
  <2> DEFINE f == [i \in DOMAIN slots |-> Send(slots[i], "state")]
  <2>3. f \in [1 .. Cardinality(dispatch) -> Steps]
    BY OpsAreSteps
  <2>4. Cardinality(dispatch) \in Nat
    BY FS_Subset, FS_CardinalityType, SlotsAssumption
  <2>5. f \in Seq(Steps)
    BY <2>3, <2>4, SeqDef
  <2>6. todo' = f \o todo
    BY <2>2
  <2> HIDE DEF f
  <2>7. todo' \in Seq(Steps)
    BY <2>1, <2>5, <2>6
  <2> QED
    BY <1>1, <2>7
<1>9. CASE TellKit
  <2>1. Tail(todo) \in Seq(Steps) /\ Head(todo).word \in Known \ {"none"}
    BY <1>9, OpsAreSteps, WordsAssumption, HeadTail, WordOfStep DEF TellKit
  <2>2. todo' = <<Send(Funeral, Head(todo).word)>> \o Tail(todo) \/ todo' = Tail(todo)
    BY <1>9 DEF TellKit
  <2>3. Send(Funeral, Head(todo).word) \in Steps
    BY <2>1, OpsAreSteps, SlotsAssumption
  <2>4. todo' \in Seq(Steps)
    BY <2>1, <2>2, <2>3, InFront, Zenon
  <2> QED
    BY <1>1, <2>4
<1>10. CASE FlushWords
  <2>1. Tail(todo) \in Seq(Steps) /\ todo' = Flushed \o Tail(todo)
    BY <1>10, HeadTail DEF FlushWords
  <2>2. todo' \in Seq(Steps)
    BY <2>1, FlushedSteps
  <2> QED
    BY <1>1, <2>2
<1>11. ASSUME NEW s \in Slots, Connect(s) \/ GiveUp(s) \/ Write(s) \/ SendEnds(s)
       PROVE  TodoSound'
  <2>1. todo \in Seq(Steps) /\ Tail(todo) \in Seq(Steps)
    BY <1>11, HeadTail DEF Connect, GiveUp, Write, SendEnds, Sending
  <2>2. todo' = todo \/ todo' = Tail(todo)
    BY <1>11 DEF Connect, GiveUp, Write, SendEnds, SendFails, Returns
  <2> QED
    BY <1>1, <2>1, <2>2
<1> QED
  BY <1>3, <1>4, <1>5, <1>6, <1>7, <1>8, <1>9, <1>10, <1>11 DEF Handler

\* ... and of those that a death starts.
LEMMA TodoDeath ==
  ASSUME TodoSound, NEW c \in Deaths, ClickDead(c) \/ Bury(c)
  PROVE  TodoSound'
<1>0. buried' = buried \cup {c} /\ UNCHANGED <<dispatch, posted>>
  BY DEF ClickDead, Bury, slotVars, queueVars
<1>1. Steps \subseteq Steps' /\ Flush \in Steps' /\ Tell(c) \in Steps'
  <2>1. Steps \subseteq Steps'
    BY <1>0, StepsGrow
  <2>2. Flush \in Steps
    BY OpsAreSteps
  <2>3. Tell(c) \in Steps'
    BY <1>0, SlotsAssumption DEF Steps, Known, Tell, Op
  <2> QED
    BY <2>1, <2>2, <2>3
<1>2. CASE ClickDead(c)
  <2>1. \/ todo' = <<Tell(c), Flush>>
        \/ Funeral \notin dispatch /\ todo' = <<LaunchOf(Funeral), Tell(c), Flush>>
    BY <1>2 DEF ClickDead
  <2>2. <<Tell(c), Flush>> \in Seq(Steps')
    BY <1>1
  <2>3. CASE todo' = <<Tell(c), Flush>>
    BY <2>2, <2>3 DEF TodoSound
  <2>4. CASE Funeral \notin dispatch /\ todo' = <<LaunchOf(Funeral), Tell(c), Flush>>
    <3>1. todo' # <<>> /\ Head(todo') = LaunchOf(Funeral) /\ Tail(todo') = <<Tell(c), Flush>>
      BY <2>4
    <3>4. todo' \in Seq(Starts')
      <4>1. {LaunchOf(Funeral), Tell(c), Flush} \subseteq Starts'
        BY <1>1, SlotsAssumption DEF Starts
      <4> QED
        BY <2>4, <4>1
    <3>2. ~Noticed'
      BY <1>0, <1>2 DEF ClickDead, Clickable, Noticed
    <3> QED
      BY <1>0, <2>2, <2>4, <3>1, <3>2, <3>4, SlotsAssumption DEF TodoSound
  <2> QED
    BY <2>1, <2>3, <2>4
<1>3. CASE Bury(c)
  <2>1. todo \in Seq(Steps)
    <3>1. CASE todo = <<>>
      BY <3>1
    <3>2. CASE AtBox
      BY <3>2, HeadTail DEF AtBox
    <3> QED
      BY <1>3, <3>1, <3>2 DEF Bury, Ticking, Pumping
  <2>2. todo \in Seq(Steps')
    BY <1>1, <2>1, SeqGrows
  <2>3. todo' = <<Flush, Flush>> \o todo \/ todo' = <<Flush>> \o todo
    BY <1>3 DEF Bury
  <2>4. todo' \in Seq(Steps')
    BY <1>1, <2>2, <2>3, InFront, Zenon
  <2> QED
    BY <2>4 DEF TodoSound
<1> QED
  BY <1>2, <1>3

\* A kit cannot change what is left to do, and its quit is no notice.
LEMMA TodoStays ==
  ASSUME TodoSound, UNCHANGED <<todo, buried, dispatch>>,
         posted' = posted \/ \E s \in Slots : posted' = Append(posted, [why |-> "quit", slot |-> s]),
         posted \in Seq(Messages)
  PROVE  TodoSound'
<1>1. Steps' = Steps /\ Starts' = Starts
  BY DEF Steps, Known, Starts
<1>2. ~Noticed => ~Noticed'
  <2>1. CASE posted' = posted
    BY <2>1 DEF Noticed
  <2>2. ASSUME NEW s \in Slots, posted' = Append(posted, [why |-> "quit", slot |-> s])
        PROVE  ~Noticed => ~Noticed'
    <3> DEFINE m == [why |-> "quit", slot |-> s]
    <3>1. m.why = "quit" /\ posted' = Append(posted, m)
      BY <2>2
    <3> HIDE DEF m
    <3>2. /\ DOMAIN posted' = 1 .. Len(posted) + 1 /\ Len(posted) \in Nat
          /\ DOMAIN posted = 1 .. Len(posted)
          /\ \A i \in 1 .. Len(posted) : posted'[i] = posted[i]
          /\ posted'[Len(posted) + 1] = m
      BY <3>1
    <3>3. ASSUME NEW i \in DOMAIN posted', posted'[i].why = "exited" PROVE Noticed
      <4>1. i # Len(posted) + 1
        BY <3>1, <3>2, <3>3
      <4>2. i \in DOMAIN posted /\ posted'[i] = posted[i]
        BY <3>2, <4>1
      <4> QED
        BY <3>3, <4>2 DEF Noticed
    <3> QED
      BY <3>3 DEF Noticed
  <2> QED
    BY <2>1, <2>2
<1> QED
  BY <1>1, <1>2 DEF TodoSound

-----------------------------------------------------------------------------
(* The words themselves, and the rest of the state *)

WordSide ==
  /\ buried \subseteq Deaths /\ graves \subseteq buried
  /\ pending \in Seq(buried) /\ Len(pending) <= MaxPending
  /\ inbox \in [Procs -> Seq(buried \cup {"id"})] /\ buffer \in [Slots -> Known]

RestSide ==
  /\ sent \in BOOLEAN /\ link \in {"idle", "open", "flush"} /\ peer \in Procs \cup {None}
  /\ tool_id \in [Procs -> Slots] /\ worker \in [Procs -> Turns]
  /\ received \in [Procs -> Words \cup {"none"}]
  /\ quits \subseteq Procs \X Slots /\ stop \in [Procs -> BOOLEAN]
  /\ server \in [Slots -> Procs \cup {None}]
  /\ client \in [Slots -> {"none", "free", "game", "left"}]
  /\ told \subseteq (Procs \cup {None}) \X Deaths \X BOOLEAN

Wordy == <<buried, graves, pending, inbox, buffer>>
Rested == <<sent, link, peer, tool_id, worker, received, quits, stop, server, client, told>>

LEMMA WordsStay == WordSide /\ UNCHANGED Wordy => WordSide'
BY DEF WordSide, Wordy, Known

LEMMA RestStays == RestSide /\ UNCHANGED Rested => RestSide'
BY DEF RestSide, Rested

LEMMA KnownWords == buried \subseteq Deaths => Known \subseteq Words \cup {"none"}
BY DEF Known, Words

LEMMA ClosePipeTypes ==
  ASSUME WordSide, RestSide, NEW p \in Procs, ClosePipe(p)
  PROVE  /\ server' \in [Slots -> Procs \cup {None}]
         /\ client' \in [Slots -> {"none", "free", "game", "left"}]
         /\ buffer' \in [Slots -> Known]
<1>1. CASE UNCHANGED pipeVars
  BY <1>1 DEF WordSide, RestSide, pipeVars
<1>2. CASE server[slotOf[p]] = p
  BY <1>2 DEF ClosePipe, WordSide, RestSide, Known
<1> QED
  BY <1>1, <1>2 DEF ClosePipe

LEMMA WordsHandler ==
  ASSUME GameSide, TodoSound, WordSide, RestSide,
         \/ Handler \/ Broadcast \/ Close
         \/ \E s \in Slots : Toggle(s)
         \/ \E c \in Deaths : ClickDead(c) \/ Bury(c)
         \/ \E q \in quits : QuitArrives(q)
  PROVE  WordSide' /\ RestSide'
<1>1. CASE \/ Launch \/ DismissBox \/ ShutdownMessage \/ FlushWords \/ Broadcast \/ Close
           \/ \E s \in Slots : Toggle(s)
  BY <1>1, WordsStay, RestStays DEF Launch, DismissBox, ShutdownMessage, FlushWords,
    Broadcast, Close, Toggle, Wordy, Rested, slotVars, queueVars, sendVars, deathVars,
    kitVars, threadVars, pipeVars
<1>2. CASE LaunchEnds
  <2>1. UNCHANGED Wordy
    BY <1>2 DEF LaunchEnds, Wordy, deathVars, kitVars, threadVars, pipeVars
  <2>2. sent' \in BOOLEAN
           /\ UNCHANGED <<link, peer, tool_id, worker, received, quits, stop, server, client, told>>
    BY <1>2 DEF LaunchEnds, RestSide, kitVars, threadVars, pipeVars
  <2> QED
    BY <2>1, <2>2, WordsStay DEF RestSide
<1>3. CASE TellKit
  <2>1. UNCHANGED Wordy
    BY <1>3 DEF TellKit, Wordy, deathVars, kitVars, threadVars, pipeVars
  <2>2. UNCHANGED <<sent, link, peer, tool_id, worker, received, quits, stop, server, client>>
    BY <1>3 DEF TellKit, RestSide, kitVars, threadVars, pipeVars
  <2>3. Head(todo).word \in Deaths
    <3>1. Head(todo) \in Steps /\ Head(todo).op = "tell"
      BY <1>3, HeadTail DEF TellKit
    <3> QED
      BY <3>1, WordOfStep DEF WordSide
  <2>4. told' \subseteq (Procs \cup {None}) \X Deaths \X BOOLEAN
    <3>1. \/ told' = told
          \/ told' = told \cup {<<None, Head(todo).word, FALSE>>}
      BY <1>3 DEF TellKit
    <3>2. <<None, Head(todo).word, FALSE>> \in (Procs \cup {None}) \X Deaths \X BOOLEAN
      BY <2>3
    <3> QED
      BY <3>1, <3>2, Zenon DEF RestSide
  <2> QED
    BY <2>1, <2>2, <2>4, WordsStay DEF RestSide
<1>4. CASE ClearWords
  <2>1. pending' = <<>> /\ UNCHANGED Rested /\ UNCHANGED <<buried, graves, inbox, buffer>>
    BY <1>4 DEF ClearWords, Rested, sendVars, kitVars, threadVars, pipeVars
  <2>2. pending' \in Seq(buried) /\ Len(pending') <= MaxPending
    BY <2>1, EmptySeq, LimitsAssumption
  <2> QED
    BY <2>1, <2>2, RestStays DEF WordSide, Known
<1>5. ASSUME NEW c \in Deaths, ClickDead(c) \/ Bury(c) PROVE WordSide' /\ RestSide'
  <2>1. buried' = buried \cup {c} /\ UNCHANGED <<graves, inbox, buffer>> /\ UNCHANGED Rested
    BY <1>5 DEF ClickDead, Bury, Rested, sendVars, kitVars, threadVars, pipeVars
  <2>2. \/ pending' = pending
        \/ Len(pending) < MaxPending /\ pending' = Append(pending, c)
    BY <1>5 DEF ClickDead, Bury
  <2>3. pending \in Seq(buried') /\ c \in buried'
    BY <2>1, SeqGrows DEF WordSide
  <2>4. pending' \in Seq(buried') /\ Len(pending') <= MaxPending
    <3>1. CASE pending' = pending
      BY <2>3, <3>1 DEF WordSide
    <3>2. CASE Len(pending) < MaxPending /\ pending' = Append(pending, c)
      BY <2>3, <3>2, LimitsAssumption
    <3> QED
      BY <2>2, <3>1, <3>2
  <2>5. Known \subseteq Known'
    BY <2>1, StepsGrow
  <2>6. inbox' \in [Procs -> Seq(buried' \cup {"id"})] /\ buffer' \in [Slots -> Known']
    <3>1. \A p \in Procs : inbox[p] \in Seq(buried' \cup {"id"})
      BY <2>1, SeqGrows DEF WordSide
    <3> QED
      BY <2>1, <2>5, <3>1 DEF WordSide
  <2> QED
    BY <2>1, <2>4, <2>6, RestStays DEF WordSide
<1>6. ASSUME NEW s \in Slots, Connect(s) \/ GiveUp(s) \/ Write(s) \/ SendEnds(s)
      PROVE  WordSide' /\ RestSide'
  <2>1. /\ Head(todo).word \in Known
        /\ UNCHANGED <<buried, graves, pending, inbox>>
        /\ UNCHANGED <<tool_id, worker, received, quits, stop, server>>
    <3>1. Head(todo) \in Steps
      BY <1>6, HeadTail DEF Connect, GiveUp, Write, SendEnds, Sending
    <3> QED
      BY <1>6, <3>1, WordOfStep DEF Connect, GiveUp, Write, SendEnds, deathVars, kitVars,
        threadVars, pipeVars
  <2>2. client' \in [Slots -> {"none", "free", "game", "left"}]
    BY <1>6 DEF Connect, GiveUp, Write, SendEnds, RestSide, pipeVars
  <2>3. buffer' \in [Slots -> Known]
    BY <1>6, <2>1 DEF Connect, GiveUp, Write, SendEnds, WordSide, pipeVars
  <2>4. \A p \in Procs \cup {None}, b \in BOOLEAN : Returns(p, b) =>
           /\ sent' \in BOOLEAN /\ link' \in {"idle", "open", "flush"}
           /\ peer' \in Procs \cup {None}
           /\ told' \subseteq (Procs \cup {None}) \X Deaths \X BOOLEAN
    BY DEF Returns, RestSide
  <2>5. /\ sent' \in BOOLEAN /\ link' \in {"idle", "open", "flush"}
        /\ peer' \in Procs \cup {None}
        /\ told' \subseteq (Procs \cup {None}) \X Deaths \X BOOLEAN
    <3>1. handle[s] \in Procs \cup {None} /\ peer \in Procs \cup {None}
          /\ server[s] \in Procs \cup {None}
      BY DEF GameSide, RestSide
    <3>2. CASE Connect(s)
      BY <3>1, <3>2 DEF Connect, RestSide
    <3>3. CASE GiveUp(s)
      BY <2>4, <3>1, <3>3 DEF GiveUp, SendFails
    <3>4. CASE Write(s)
      BY <2>4, <3>1, <3>4 DEF Write, SendFails, RestSide
    <3>5. CASE SendEnds(s)
      BY <2>4, <3>1, <3>5 DEF SendEnds
    <3> QED
      BY <1>6, <3>2, <3>3, <3>4, <3>5
  <2> QED
    BY <2>1, <2>2, <2>3, <2>5 DEF WordSide, RestSide, Known
<1>7. ASSUME NEW q \in quits, QuitArrives(q) PROVE WordSide' /\ RestSide'
  BY <1>7, WordsStay DEF QuitArrives, Wordy, RestSide, sendVars, deathVars, kitVars,
    threadVars, pipeVars
<1> QED
  BY <1>1, <1>2, <1>3, <1>4, <1>5, <1>6, <1>7 DEF Handler

LEMMA WordsKit ==
  ASSUME GameSide, WordSide, RestSide, NEW p \in Procs, KitSteps(p)
  PROVE  WordSide' /\ RestSide'
<1>0. /\ slotOf[p] \in Slots /\ Known \subseteq Words \cup {"none"}
      /\ buried' = buried => Known' = Known
  BY KnownWords DEF GameSide, WordSide, Known
<1>1. CASE \/ StartServer(p) \/ TestStop(p) \/ Start(p) \/ RequestGameQuit(p) \/ Stop(p)
           \/ Wake(p) \/ Join(p)
  <2>1. UNCHANGED Wordy
    BY <1>1 DEF StartServer, TestStop, Start, RequestGameQuit, Stop, Wake, Join, Wordy,
      deathVars, kitVars, pipeVars
  <2>2. /\ UNCHANGED <<sent, link, peer, tool_id, received, server, told>>
        /\ worker' \in [Procs -> Turns]
    BY <1>1 DEF StartServer, TestStop, Start, RequestGameQuit, Stop, Wake, Join, RestSide,
      sendVars, kitVars, threadVars, pipeVars, Turns
  <2>3. stop' \in [Procs -> BOOLEAN]
    BY <1>1 DEF StartServer, TestStop, Start, RequestGameQuit, Stop, Wake, Join, RestSide,
      threadVars
  <2>4. quits' \subseteq Procs \X Slots
    <3>1. <<p, tool_id[p]>> \in Procs \X Slots
      BY DEF RestSide
    <3>2. quits' = quits \/ quits' = quits \cup {<<p, tool_id[p]>>}
      BY <1>1 DEF StartServer, TestStop, Start, RequestGameQuit, Stop, Wake, Join
    <3> QED
      BY <3>1, <3>2 DEF RestSide
  <2>5. client' \in [Slots -> {"none", "free", "game", "left"}]
    BY <1>1 DEF StartServer, TestStop, Start, RequestGameQuit, Stop, Wake, Join, RestSide,
      pipeVars
  <2> QED
    BY <2>1, <2>2, <2>3, <2>4, <2>5, WordsStay DEF RestSide
<1>2. CASE CreatePipe(p)
  <2>1. UNCHANGED Wordy
    BY <1>2 DEF CreatePipe, Wordy, deathVars, kitVars, pipeVars
  <2>2. /\ UNCHANGED <<sent, link, peer, tool_id, received, quits, stop, told>>
        /\ worker' \in [Procs -> Turns]
        /\ server' \in [Slots -> Procs \cup {None}]
        /\ client' \in [Slots -> {"none", "free", "game", "left"}]
    BY <1>2 DEF CreatePipe, RestSide, sendVars, kitVars, pipeVars, Turns
  <2> QED
    BY <2>1, <2>2, WordsStay DEF RestSide
<1>3. CASE Connected(p) \/ Reopen(p)
  <2>1. UNCHANGED <<buried, graves, pending, inbox>>
        /\ UNCHANGED <<sent, link, peer, tool_id, received, quits, stop, told>>
    BY <1>3 DEF Connected, Reopen, deathVars, kitVars, sendVars
  <2>2. ClosePipe(p) \/ UNCHANGED pipeVars
    BY <1>3 DEF Connected, Reopen
  <2>3. /\ server' \in [Slots -> Procs \cup {None}]
        /\ client' \in [Slots -> {"none", "free", "game", "left"}]
        /\ buffer' \in [Slots -> Known]
    BY <2>2, ClosePipeTypes DEF WordSide, RestSide, pipeVars
  <2>4. worker' \in [Procs -> Turns]
    BY <1>3 DEF Connected, Reopen, RestSide, Turns
  <2> QED
    BY <1>0, <2>1, <2>3, <2>4 DEF WordSide, RestSide
<1>4. CASE Read(p)
  <2> DEFINE w == buffer[slotOf[p]]
  <2>1. w \in Known
    BY <1>0 DEF WordSide
  <2>2. UNCHANGED <<buried, graves, pending>>
        /\ UNCHANGED <<sent, link, peer, tool_id, quits, stop, told, server, client>>
    BY <1>4 DEF Read, deathVars, kitVars, sendVars
  <2>3. /\ received' = [received EXCEPT ![p] = w]
        /\ \/ w \in Tracked /\ inbox' = [inbox EXCEPT ![p] = Append(inbox[p], w)]
           \/ inbox' = inbox
        /\ buffer' = [buffer EXCEPT ![slotOf[p]] = "none"]
        /\ worker' = [worker EXCEPT ![p] = "closing"]
    BY <1>4 DEF Read
  <2>4. inbox' \in [Procs -> Seq(buried \cup {"id"})]
    <3>1. inbox[p] \in Seq(buried \cup {"id"})
      BY DEF WordSide
    <3>2. w \in Tracked => w \in buried \cup {"id"}
      BY <2>1, WordsAssumption DEF Tracked, Known
    <3>3. w \in Tracked => Append(inbox[p], w) \in Seq(buried \cup {"id"})
      <4> HIDE DEF w
      <4> QED
        BY <3>1, <3>2
    <3> QED
      BY <2>3, <3>3 DEF WordSide
  <2>5. buffer' \in [Slots -> Known]
    BY <2>3 DEF WordSide, Known
  <2>6. received' \in [Procs -> Words \cup {"none"}] /\ worker' \in [Procs -> Turns]
    BY <1>0, <2>1, <2>3 DEF RestSide, Turns
  <2> QED
    BY <1>0, <2>2, <2>4, <2>5, <2>6 DEF WordSide, RestSide
<1>5. CASE HandleWord(p)
  <2> DEFINE w == Head(inbox[p])
  <2>1. inbox[p] \in Seq(buried \cup {"id"}) /\ inbox[p] # <<>>
    BY <1>5 DEF HandleWord, WordSide
  <2>2. w \in buried \cup {"id"} /\ Tail(inbox[p]) \in Seq(buried \cup {"id"})
    BY <2>1
  <2>3. UNCHANGED <<buried, pending, buffer>>
        /\ UNCHANGED <<sent, link, peer, worker, received, quits, stop, server, client, told>>
        /\ inbox' = [inbox EXCEPT ![p] = Tail(inbox[p])]
    BY <1>5 DEF HandleWord, deathVars, sendVars, threadVars, pipeVars
  <2>4. Heard(p, w) \/ UNCHANGED <<tool_id, graves>>
    BY <1>5 DEF HandleWord
  <2>5. tool_id' \in [Procs -> Slots]
    BY <1>0, <2>4 DEF Heard, RestSide
  <2>6. graves' \subseteq buried
    <3>1. {w} \cap Deaths \subseteq buried
      BY <2>2, WordsAssumption
    <3> QED
      BY <2>4, <3>1 DEF Heard, WordSide
  <2>7. inbox' \in [Procs -> Seq(buried \cup {"id"})]
    BY <2>2, <2>3 DEF WordSide
  <2> QED
    BY <1>0, <2>3, <2>5, <2>6, <2>7 DEF WordSide, RestSide
<1>6. CASE Ends(p)
  <2>1. UNCHANGED <<buried, graves, pending>> /\ UNCHANGED <<sent, link, peer, quits, told>>
    BY <1>6 DEF Ends, deathVars, sendVars
  <2>2. inbox' = [inbox EXCEPT ![p] = <<>>] /\ <<>> \in Seq(buried \cup {"id"})
    BY <1>6, EmptySeq DEF Ends
  <2>3. inbox' \in [Procs -> Seq(buried \cup {"id"})]
    BY <2>2 DEF WordSide
  <2>4. /\ worker' \in [Procs -> Turns] /\ stop' \in [Procs -> BOOLEAN]
        /\ received' \in [Procs -> Words \cup {"none"}] /\ tool_id' \in [Procs -> Slots]
    BY <1>6, SlotsAssumption DEF Ends, RestSide, Turns
  <2>5. /\ server' \in [Slots -> Procs \cup {None}]
        /\ client' \in [Slots -> {"none", "free", "game", "left"}]
        /\ buffer' \in [Slots -> Known]
    BY <1>6, ClosePipeTypes DEF Ends
  <2> QED
    BY <1>0, <2>1, <2>3, <2>4, <2>5 DEF WordSide, RestSide
<1> QED
  BY <1>1, <1>2, <1>3, <1>4, <1>5, <1>6 DEF KitSteps, PipeThread

-----------------------------------------------------------------------------
KitInv == GameSide /\ TodoSound /\ WordSide /\ RestSide

LEMMA InvInit == Init => KitInv
<1> SUFFICES ASSUME Init PROVE KitInv
  OBVIOUS
<1>1. GameSide
  <2>1. posted \in Seq(Messages) /\ posted = <<>> /\ dispatch = {} /\ Cardinality({}) = 0
    BY EmptySeq, FS_EmptySet DEF Init
  <2>2. NoticesSound
    BY <2>1 DEF NoticesSound
  <2> QED
    BY <2>1, <2>2, SlotsAssumption DEF Init, GameSide, ActiveIsAttached, NoOrphan, Synced,
      Owned, Phases
<1>2. TodoSound
  BY EmptySeq DEF Init, TodoSound
<1>3. WordSide
  <2>1. <<>> \in Seq(buried \cup {"id"}) /\ pending = <<>> /\ <<>> \in Seq(buried)
    BY EmptySeq DEF Init
  <2> QED
    BY <2>1, LimitsAssumption DEF Init, WordSide, Known
<1>4. RestSide
  BY SlotsAssumption DEF Init, RestSide, Turns
<1> QED
  BY <1>1, <1>2, <1>3, <1>4 DEF KitInv

LEMMA InvNext == KitInv /\ [Next]_vars => KitInv'
<1> SUFFICES ASSUME KitInv, [Next]_vars PROVE KitInv'
  OBVIOUS
<1>0. GameSide /\ TodoSound /\ WordSide /\ RestSide
  BY DEF KitInv
<1>1. CASE \/ Handler \/ Broadcast \/ Close
           \/ \E s \in Slots : Toggle(s)
           \/ \E c \in Deaths : ClickDead(c) \/ Bury(c)
           \/ \E q \in quits : QuitArrives(q)
  <2>1. GameSide' /\ WordSide' /\ RestSide'
    BY <1>0, <1>1, GameHandler, WordsHandler DEF RestSide
  <2>2. TodoSound'
    <3>1. CASE Handler \/ Broadcast \/ Close \/ \E s \in Slots : Toggle(s)
      <4>1. UNCHANGED buried
        BY <3>1 DEF Handler, Broadcast, Close, Toggle, Launch, LaunchEnds, DismissBox,
          ShutdownMessage, TellKit, FlushWords, ClearWords, Connect, GiveUp, Write,
          SendEnds, deathVars
      <4> QED
        BY <1>0, <3>1, <4>1, TodoHandler DEF GameSide, WordSide
    <3>2. CASE \E c \in Deaths : ClickDead(c) \/ Bury(c)
      BY <1>0, <3>2, TodoDeath
    <3>3. ASSUME NEW q \in quits, QuitArrives(q) PROVE TodoSound'
      <4>1. q[2] \in Slots
        BY <1>0 DEF RestSide
      <4> QED
        BY <1>0, <3>3, <4>1, TodoStays DEF QuitArrives, slotVars, deathVars, GameSide
    <3> QED
      BY <1>1, <3>1, <3>2, <3>3
  <2> QED
    BY <2>1, <2>2 DEF KitInv
<1>2. ASSUME NEW p \in Procs, KitSteps(p) PROVE KitInv'
  <2>1. UNCHANGED <<todo, buried, dispatch, posted>>
    BY <1>2 DEF KitSteps, PipeThread, TestStop, CreatePipe, Connected, Read, Reopen,
      StartServer, Start, HandleWord, RequestGameQuit, Stop, Wake, Join, Ends, slotVars,
      queueVars, deathVars
  <2> QED
    BY <1>0, <1>2, <2>1, GameKit, WordsKit, TodoStays DEF KitInv, GameSide
<1>3. CASE UNCHANGED vars
  BY <1>0, <1>3, GameStays, TodoStays, WordsStay, RestStays DEF KitInv, GameSide, vars,
    slotVars, queueVars, sendVars, deathVars, kitVars, threadVars, pipeVars, Wordy, Rested
<1> QED
  BY <1>1, <1>2, <1>3 DEF Next, KitSteps

\* The invariant is stronger than the types.
LEMMA InvTypes == KitInv => TypeOK
<1> SUFFICES ASSUME KitInv PROVE TypeOK
  OBVIOUS
<1>0. GameSide /\ TodoSound /\ WordSide /\ RestSide
  BY DEF KitInv
<1>1. active \in 0 .. Cardinality(Slots)
  <2>1. IsFiniteSet(dispatch) /\ Cardinality(dispatch) <= Cardinality(Slots)
    BY <1>0, FS_Subset, SlotsAssumption DEF GameSide
  <2> QED
    BY <1>0, <2>1, FS_CardinalityType, SlotsAssumption DEF GameSide, ActiveIsAttached
<1>2. Known \subseteq Words \cup {"none"}
  BY <1>0, KnownWords DEF WordSide
<1> DEFINE Ops == [op : {"send", "launch", "launched", "tell", "flush", "clear", "box"},
                   slot : Slots, word : Words \cup {"none"}]
<1>3. todo \in Seq(Ops)
  <2>1. Steps \subseteq Ops
    BY <1>2 DEF Steps
  <2>2. Starts \subseteq Ops
    BY <2>1 DEF Starts, LaunchOf, Op
  <2> HIDE DEF Ops
  <2>3. CASE todo \in Seq(Steps)
    BY <2>1, <2>3, SeqGrows
  <2>4. CASE todo \in Seq(Starts)
    BY <2>2, <2>4, SeqGrows
  <2> QED
    BY <1>0, <2>3, <2>4 DEF TodoSound
<1>4. pending \in Seq(Deaths)
  BY <1>0, SeqGrows DEF WordSide
<1>5. inbox \in [Procs -> Seq(Words)]
  <2>1. buried \cup {"id"} \subseteq Words
    BY <1>0 DEF WordSide, Words
  <2>2. \A p \in Procs : inbox[p] \in Seq(Words)
    BY <1>0, <2>1, SeqGrows DEF WordSide
  <2> QED
    BY <1>0, <2>2 DEF WordSide
<1>6. buffer \in [Slots -> Words \cup {"none"}]
  BY <1>0, <1>2 DEF WordSide
<1> QED
  BY <1>0, <1>1, <1>3, <1>4, <1>5, <1>6 DEF TypeOK, GameSide, WordSide, RestSide, Messages

\* Every variable of the slots, the pipes and the kits keeps its type.
THEOREM KitTypes == Spec => []TypeOK
BY InvInit, InvNext, InvTypes, PTL DEF Spec

\* The count of attached slots is right and no kit is lost, for any number of
\* slots and kit processes and whatever faults they have.
THEOREM SlotsAreSound == Spec => []SlotsSound
<1>1. KitInv => SlotsSound
  BY InvTypes DEF KitInv, GameSide, SlotsSound
<1> QED
  BY <1>1, InvInit, InvNext, PTL DEF Spec

\* A notice never ends a kit that runs, however long it waits behind others.
THEOREM NoticesSpareTheLiving == Spec => NoticeSparesTheLiving
<1>1. KitInv /\ [Next]_vars =>
        [ShutdownMessage /\ Head(posted).why = "exited"
           => LET p == handle[Head(posted).slot] IN p = None \/ main[p] \in Gone]_vars
  <2> SUFFICES ASSUME KitInv, ShutdownMessage, Head(posted).why = "exited"
               PROVE  LET p == handle[Head(posted).slot] IN p = None \/ main[p] \in Gone
    OBVIOUS
  <2>1. posted \in Seq(Messages) /\ posted # <<>> /\ NoticesSound
    BY DEF KitInv, GameSide, ShutdownMessage
  <2>2. 1 \in DOMAIN posted /\ Head(posted) = posted[1]
    BY <2>1
  <2> QED
    BY <2>1, <2>2 DEF NoticesSound, Gone
<1> QED
  BY <1>1, InvInit, InvNext, PTL DEF Spec, NoticeSparesTheLiving

-----------------------------------------------------------------------------
(* The pipe *)

\* A pipe has an owner whose thread is at it; only the send that is going on is
\* connected to one, and only what it wrote is in one.
PipeSide ==
  /\ \A p \in Procs : stop[p] => main[p] \in Leaving \cup Gone
  /\ \A p \in Procs : main[p] = "none" => worker[p] = "none"
  /\ \A p \in Procs :
       worker[p] \in {"waiting", "reading", "closing"} => server[slotOf[p]] = p
  /\ \A s \in Slots : server[s] # None =>
       slotOf[server[s]] = s /\ worker[server[s]] \in {"waiting", "reading", "closing"}
  /\ \A s \in Slots : client[s] # "none" => server[s] # None
  /\ \A s \in Slots : client[s] = "free" => worker[server[s]] = "waiting"
  /\ \A s \in Slots : client[s] = "game" =>
       link # "idle" /\ Head(todo).slot = s /\ server[s] = peer
  /\ \A s \in Slots : buffer[s] # "none" => client[s] = "game"

Ending(p) == main[p] \in Leaving \cup Gone

\* A send holds a pipe into which nothing was written, or its word is in the
\* pipe, or read by a thread that will read nothing else meanwhile.
Opened(s) ==
  client[s] = "game" => worker[peer] \in {"waiting", "reading"} /\ buffer[s] = "none"
WasRead(s, w) ==
  /\ received[peer] = w /\ buffer[s] = "none" /\ worker[peer] # "reading"
  /\ worker[peer] = "waiting" => client[s] = "free"
IsThere(s, w) ==
  client[s] = "game" /\ worker[peer] \in {"waiting", "reading"} /\ buffer[s] = w
Held ==
  link # "idle" =>
    /\ todo # <<>> /\ Head(todo).op = "send" /\ Head(todo).word # "none"
    /\ peer \in Procs /\ slotOf[peer] = Head(todo).slot /\ main[peer] # "none"
    /\ link = "open" => Opened(Head(todo).slot)
    /\ link = "flush" =>
         \/ Ending(peer) \/ WasRead(Head(todo).slot, Head(todo).word)
         \/ IsThere(Head(todo).slot, Head(todo).word)

PipeInv == PipeSide /\ Held

LEMMA PipeStays ==
  ASSUME PipeInv,
         UNCHANGED <<todo, link, peer, slotOf, received, server, client, buffer, worker>>,
         \A p \in Procs : stop'[p] => stop[p] \/ main'[p] \in Leaving \cup Gone,
         \A p \in Procs : main'[p] = "none" => main[p] = "none",
         \A p \in Procs : main[p] # "none" => main'[p] # "none",
         \A p \in Procs : main[p] \in Leaving \cup Gone => main'[p] \in Leaving \cup Gone
  PROVE  PipeInv'
<1>1. PipeSide'
  BY DEF PipeInv, PipeSide
<1>2. Held'
  BY DEF PipeInv, Held, Opened, WasRead, IsThere, Ending
<1> QED
  BY <1>1, <1>2 DEF PipeInv

\* No handler but that of a send goes on while a send has a pipe open.
LEMMA PipeIdle ==
  ASSUME PipeInv, link = "idle",
         UNCHANGED <<link, peer, slotOf, received, server, client, buffer, worker, stop>>,
         \A p \in Procs : main'[p] = "none" => main[p] = "none",
         \A p \in Procs : main[p] \in Leaving \cup Gone => main'[p] \in Leaving \cup Gone
  PROVE  PipeInv'
BY DEF PipeInv, PipeSide, Held

LEMMA TerminatedMoves ==
  ASSUME NEW P, main \in [Procs -> Phases], main' = Terminated(P)
  PROVE  /\ \A p \in Procs : main'[p] = "none" => main[p] = "none"
         /\ \A p \in Procs : main[p] \in Leaving \cup Gone => main'[p] \in Leaving \cup Gone
BY DEF Terminated, Gone, Leaving

LEMMA PipeHandler ==
  ASSUME KitInv, PipeInv,
         \/ Handler \/ Broadcast \/ Close
         \/ \E s \in Slots : Toggle(s)
         \/ \E c \in Deaths : ClickDead(c) \/ Bury(c)
         \/ \E q \in quits : QuitArrives(q)
  PROVE  PipeInv'
<1>0. /\ main \in [Procs -> Phases] /\ slotOf \in [Procs -> Slots]
      /\ link \in {"idle", "open", "flush"}
      /\ server \in [Slots -> Procs \cup {None}] /\ worker \in [Procs -> Turns]
      /\ client \in [Slots -> {"none", "free", "game", "left"}]
      /\ buffer \in [Slots -> Known] /\ TodoSound
  BY DEF KitInv, GameSide, RestSide, WordSide
<1>1. link # "idle" => todo # <<>> /\ Head(todo).op = "send"
  BY DEF PipeInv, Held
<1>2. ASSUME NEW q \in quits, QuitArrives(q) PROVE PipeInv'
  BY <1>2, PipeStays DEF QuitArrives, sendVars, kitVars, threadVars, pipeVars
<1>3. CASE \/ Broadcast \/ Close \/ DismissBox \/ ShutdownMessage \/ LaunchEnds \/ TellKit
           \/ FlushWords \/ ClearWords
           \/ \E s \in Slots : Toggle(s)
           \/ \E c \in Deaths : ClickDead(c) \/ Bury(c)
  <2>1. link = "idle"
    BY <1>1, <1>3 DEF Broadcast, Close, DismissBox, ShutdownMessage, LaunchEnds, TellKit,
      FlushWords, ClearWords, Toggle, ClickDead, Bury, Clickable, Ticking, Pumping, AtBox
  <2>2. UNCHANGED <<link, peer, slotOf, received, server, client, buffer, worker, stop>>
    BY <1>3 DEF Broadcast, Close, DismissBox, ShutdownMessage, LaunchEnds, TellKit,
      FlushWords, ClearWords, Toggle, ClickDead, Bury, sendVars, kitVars, threadVars, pipeVars
  <2>3. main' = main \/ \E P \in SUBSET (Procs \cup {None}) : main' = Terminated(P)
    <3>1. \A s \in Slots : handle[s] \in Procs \cup {None}
      BY DEF KitInv, GameSide
    <3>2. CASE Close
      <4>1. {handle[s] : s \in Slots} \in SUBSET (Procs \cup {None})
        BY <3>1
      <4> QED
        BY <3>2, <4>1 DEF Close
    <3>3. ASSUME NEW s \in Slots, Shutdown(s)
          PROVE  \E P \in SUBSET (Procs \cup {None}) : main' = Terminated(P)
      <4>1. {handle[s]} \in SUBSET (Procs \cup {None}) /\ main' = Terminated({handle[s]})
        BY <3>1, <3>3 DEF Shutdown
      <4> QED
        BY <4>1
    <3>4. CASE ShutdownMessage
      <4>1. Head(posted).slot \in Slots
        <5>1. posted \in Seq(Messages) /\ posted # <<>>
          BY <3>4 DEF ShutdownMessage, KitInv, GameSide
        <5>2. Head(posted) = posted[1] /\ 1 \in DOMAIN posted
          BY <5>1
        <5> QED
          BY <5>1, <5>2, MessageSlot
      <4> QED
        BY <3>3, <3>4, <4>1 DEF ShutdownMessage
    <3>5. CASE LaunchEnds
      <4>1. Head(todo).slot \in Slots
        BY <1>0, <3>5, HeadTail, WordOfStep DEF LaunchEnds
      <4> QED
        BY <3>3, <3>5, <4>1 DEF LaunchEnds
    <3>6. ASSUME NEW s \in Slots, Toggle(s)
          PROVE  main' = main \/ \E P \in SUBSET (Procs \cup {None}) : main' = Terminated(P)
      BY <3>3, <3>6 DEF Toggle
    <3> QED
      BY <1>3, <3>2, <3>4, <3>5, <3>6 DEF Broadcast, DismissBox, TellKit, FlushWords,
        ClearWords, ClickDead, Bury
  <2>4. /\ \A p \in Procs : main'[p] = "none" => main[p] = "none"
        /\ \A p \in Procs : main[p] \in Leaving \cup Gone => main'[p] \in Leaving \cup Gone
    BY <1>0, <2>3, TerminatedMoves
  <2> QED
    BY <2>1, <2>2, <2>4, PipeIdle
<1>4. CASE Launch
  <2>1. link = "idle" /\ UNCHANGED <<link, peer, received, server, client, buffer, worker, stop>>
    BY <1>1, <1>4 DEF Launch, sendVars, threadVars, pipeVars
  <2>2. CASE UNCHANGED <<slotVars, main, slotOf>>
    BY <2>1, <2>2, PipeIdle
  <2>3. ASSUME NEW p \in Fresh, slotOf' = [slotOf EXCEPT ![p] = Head(todo).slot],
               main' = [main EXCEPT ![p] = "opening"]
        PROVE  PipeInv'
    <3>1. p \in Procs /\ main[p] = "none" /\ worker[p] = "none"
      BY <2>3 DEF Fresh, PipeInv, PipeSide
    <3>2. /\ \A q \in Procs : q # p => slotOf'[q] = slotOf[q] /\ main'[q] = main[q]
          /\ main'[p] = "opening"
      BY <1>0, <2>3, <3>1
    <3>3. ~stop[p]
      BY <3>1 DEF PipeInv, PipeSide, Leaving, Gone
    <3>4. \A s \in Slots : server[s] # None => server[s] # p
      BY <3>1 DEF PipeInv, PipeSide
    <3>5. PipeSide'
      BY <1>0, <2>1, <3>1, <3>2, <3>3, <3>4 DEF PipeInv, PipeSide
    <3> QED
      BY <2>1, <3>5 DEF PipeInv, Held
  <2> QED
    BY <1>4, <2>2, <2>3 DEF Launch
<1>5. ASSUME NEW s \in Slots, Sending(s), UNCHANGED <<slotOf, main, worker, stop, received, server>>,
             Connect(s) \/ GiveUp(s) \/ Write(s) \/ SendEnds(s)
      PROVE  PipeInv'
  <2>1. /\ todo # <<>> /\ Head(todo).op = "send" /\ Head(todo).slot = s
        /\ Head(todo).word # "none"
    <3>1. Head(todo) \in Steps /\ todo # <<>> /\ Head(todo).op = "send" /\ Head(todo).slot = s
      BY <1>0, <1>5, HeadTail DEF Sending
    <3> QED
      BY <3>1, WordOfStep
  <2>2. CASE Connect(s)
    <3>1. /\ link = "idle" /\ client[s] = "free" /\ link' = "open" /\ peer' = server[s]
          /\ client' = [client EXCEPT ![s] = "game"] /\ UNCHANGED <<todo, buffer>>
      BY <2>2 DEF Connect
    <3>2. /\ server[s] \in Procs /\ slotOf[server[s]] = s /\ worker[server[s]] = "waiting"
          /\ \A t \in Slots : client[t] # "game"
      BY <1>0, <3>1 DEF PipeInv, PipeSide
    <3>3. buffer[s] = "none" /\ main[server[s]] # "none"
      BY <3>1, <3>2 DEF PipeInv, PipeSide
    <3>4. /\ client'[s] = "game" /\ \A t \in Slots : t # s => client'[t] = client[t]
      BY <1>0, <3>1
    <3>5. PipeSide'
      BY <1>5, <2>1, <3>1, <3>2, <3>3, <3>4 DEF PipeInv, PipeSide
    <3>6. Held'
      BY <1>5, <2>1, <3>1, <3>2, <3>3, <3>4 DEF Held, Opened
    <3> QED
      BY <3>5, <3>6 DEF PipeInv
  <2>3. CASE GiveUp(s)
    <3>1. link = "idle" /\ link' = "idle" /\ UNCHANGED <<client, buffer>>
      BY <2>3 DEF GiveUp, SendFails, Returns, pipeVars
    <3> QED
      BY <1>5, <3>1 DEF PipeInv, PipeSide, Held
  <2>4. CASE Write(s)
    <3>1. link = "open" /\ client' = client
      BY <2>4 DEF Write
    <3>2. CASE client[s] = "game"
      <4>1. /\ buffer' = [buffer EXCEPT ![s] = Head(todo).word] /\ link' = "flush"
            /\ UNCHANGED <<todo, peer>>
        BY <2>4, <3>2 DEF Write
      <4>2. /\ buffer'[s] = Head(todo).word /\ \A t \in Slots : t # s => buffer'[t] = buffer[t]
        BY <1>0, <4>1
      <4>3. worker[peer] \in {"waiting", "reading"} /\ peer \in Procs /\ slotOf[peer] = s
            /\ main[peer] # "none"
        BY <2>1, <3>1, <3>2 DEF PipeInv, Held, Opened
      <4>4. PipeSide'
        BY <1>5, <3>1, <3>2, <4>1, <4>2 DEF PipeInv, PipeSide
      <4>5. IsThere(s, Head(todo).word)'
        BY <1>5, <3>1, <3>2, <4>1, <4>2, <4>3 DEF IsThere
      <4>6. Held'
        BY <1>5, <2>1, <4>1, <4>3, <4>5 DEF Held
      <4> QED
        BY <4>4, <4>6 DEF PipeInv
    <3>3. CASE client[s] # "game"
      <4>1. link' = "idle" /\ buffer' = buffer
        BY <2>4, <3>3 DEF Write, SendFails, Returns
      <4>2. \A t \in Slots : client[t] # "game"
        BY <2>1, <3>3 DEF PipeInv, PipeSide
      <4> QED
        BY <1>5, <3>1, <4>1, <4>2 DEF PipeInv, PipeSide, Held
    <3> QED
      BY <3>2, <3>3
  <2>5. CASE SendEnds(s)
    <3>1. /\ link = "flush" /\ (client[s] # "game" \/ buffer[s] = "none") /\ link' = "idle"
          /\ buffer' = buffer
          /\ client' = [client EXCEPT ![s] = IF client[s] = "game" THEN "left" ELSE client[s]]
      BY <2>5 DEF SendEnds, Drained, Returns
    <3>2. \A t \in Slots : client'[t] = IF t = s /\ client[s] = "game" THEN "left" ELSE client[t]
      BY <1>0, <3>1
    <3>3. \A t \in Slots : client'[t] # "game" /\ buffer[t] = "none"
      BY <2>1, <3>1, <3>2 DEF PipeInv, PipeSide
    <3>4. PipeSide'
      BY <1>5, <3>1, <3>2, <3>3 DEF PipeInv, PipeSide
    <3> QED
      BY <3>1, <3>4 DEF PipeInv, Held
  <2> QED
    BY <1>5, <2>2, <2>3, <2>4, <2>5
<1>6. ASSUME NEW s \in Slots, Connect(s) \/ GiveUp(s) \/ Write(s) \/ SendEnds(s)
      PROVE  PipeInv'
  <2>1. Sending(s) /\ UNCHANGED <<slotOf, main, worker, stop, received, server>>
    BY <1>6 DEF Connect, GiveUp, Write, SendEnds, kitVars, threadVars, pipeVars
  <2> QED
    BY <1>5, <1>6, <2>1
<1> QED
  BY <1>2, <1>3, <1>4, <1>6 DEF Handler

\* The pipe of a process is closed, by its thread or with it.
LEMMA PipeCloses ==
  ASSUME KitInv, PipeInv, NEW p \in Procs, ClosePipe(p),
         NEW turn \in {"test", "ended"}, worker' = [worker EXCEPT ![p] = turn],
         UNCHANGED <<todo, link, peer, slotOf>>,
         worker[p] = "waiting" => Ending(p)',
         worker[p] = "reading" => Ending(p)',
         main[p] # "none",
         \A q \in Procs : stop'[q] => stop[q],
         \/ main' = main /\ received' = received
         \/ /\ main' = [main EXCEPT ![p] = "dead"]
            /\ received' = [received EXCEPT ![p] = "none"]
  PROVE  PipeInv'
<1>0. /\ main \in [Procs -> Phases] /\ slotOf \in [Procs -> Slots]
      /\ server \in [Slots -> Procs \cup {None}] /\ worker \in [Procs -> Turns]
      /\ client \in [Slots -> {"none", "free", "game", "left"}]
      /\ buffer \in [Slots -> Known] /\ received \in [Procs -> Words \cup {"none"}]
      /\ None \notin Procs
  BY NoneAssumption DEF KitInv, GameSide, RestSide, WordSide
<1> DEFINE s == slotOf[p]
<1>1. /\ s \in Slots
      /\ \A q \in Procs : worker'[q] = IF q = p THEN turn ELSE worker[q]
      /\ \A q \in Procs : q # p => main'[q] = main[q] /\ received'[q] = received[q]
      /\ main'[p] = main[p] \/ main'[p] = "dead"
      /\ \A q \in Procs : main'[q] \in Phases
  BY <1>0 DEF Phases
<1>2. /\ \A t \in Slots : t # s => /\ server'[t] = server[t] /\ client'[t] = client[t]
                                   /\ buffer'[t] = buffer[t]
      /\ server[s] = p => server'[s] = None /\ client'[s] = "none" /\ buffer'[s] = "none"
      /\ server[s] # p => /\ server'[s] = server[s] /\ client'[s] = client[s]
                          /\ buffer'[s] = buffer[s]
  BY <1>0, <1>1 DEF ClosePipe, pipeVars
<1>3. \A t \in Slots : server[t] = p => t = s
  BY <1>0 DEF PipeInv, PipeSide
<1>4. PipeSide'
  <2>1. \A q \in Procs : stop'[q] => main'[q] \in Leaving \cup Gone
    BY <1>1 DEF PipeInv, PipeSide, Gone
  <2>2. \A q \in Procs : main'[q] = "none" => worker'[q] = "none"
    BY <1>1 DEF PipeInv, PipeSide
  <2>3. \A q \in Procs :
          worker'[q] \in {"waiting", "reading", "closing"} => server'[slotOf[q]] = q
    <3> SUFFICES ASSUME NEW q \in Procs, worker'[q] \in {"waiting", "reading", "closing"}
                 PROVE  server'[slotOf[q]] = q
      OBVIOUS
    <3>1. q # p /\ worker'[q] = worker[q]
      BY <1>1
    <3>2. server[slotOf[q]] = q /\ slotOf[q] \in Slots
      BY <1>0, <3>1 DEF PipeInv, PipeSide
    <3> QED
      BY <1>2, <3>1, <3>2
  <2>4. \A t \in Slots : server'[t] # None =>
          slotOf[server'[t]] = t /\ worker'[server'[t]] \in {"waiting", "reading", "closing"}
    <3> SUFFICES ASSUME NEW t \in Slots, server'[t] # None
                 PROVE  /\ slotOf[server'[t]] = t
                        /\ worker'[server'[t]] \in {"waiting", "reading", "closing"}
      OBVIOUS
    <3>1. server'[t] = server[t] /\ server[t] # p /\ server[t] \in Procs
      BY <1>0, <1>2, <1>3
    <3> QED
      BY <1>1, <3>1 DEF PipeInv, PipeSide
  <2>5. \A t \in Slots : client'[t] # "none" => server'[t] # None
    BY <1>2 DEF PipeInv, PipeSide
  <2>6. \A t \in Slots : client'[t] = "free" => worker'[server'[t]] = "waiting"
    <3> SUFFICES ASSUME NEW t \in Slots, client'[t] = "free"
                 PROVE  worker'[server'[t]] = "waiting"
      OBVIOUS
    <3>1. server'[t] = server[t] /\ client[t] = "free" /\ server[t] # p
      BY <1>2, <1>3
    <3>2. server[t] \in Procs /\ worker[server[t]] = "waiting"
      BY <1>0, <3>1 DEF PipeInv, PipeSide
    <3> QED
      BY <1>1, <3>1, <3>2
  <2>7. \A t \in Slots : client'[t] = "game" =>
          link # "idle" /\ Head(todo).slot = t /\ server'[t] = peer
    BY <1>2 DEF PipeInv, PipeSide
  <2>8. \A t \in Slots : buffer'[t] # "none" => client'[t] = "game"
    BY <1>2 DEF PipeInv, PipeSide
  <2> HIDE DEF s
  <2> QED
    BY <2>1, <2>2, <2>3, <2>4, <2>5, <2>6, <2>7, <2>8 DEF PipeSide
<1>5. Held'
  <2> SUFFICES ASSUME link # "idle" PROVE Held'
    BY DEF Held
  <2> DEFINE t == Head(todo).slot
             w == Head(todo).word
  <2>1. /\ todo # <<>> /\ Head(todo).op = "send" /\ w # "none"
        /\ peer \in Procs /\ slotOf[peer] = t /\ main[peer] # "none" /\ t \in Slots
    BY <1>0 DEF PipeInv, Held
  <2>2. main'[peer] # "none"
    BY <1>1, <2>1
  <2>3. ASSUME peer = p
        PROVE  (link = "open" => Opened(t)') /\ (link = "flush" => Ending(peer)' \/ WasRead(t, w)')
    <3>1. link = "open" => Opened(t)'
      <4>1. t = s
        BY <2>1, <2>3
      <4>2. CASE server[s] = p
        BY <1>2, <4>1, <4>2 DEF Opened
      <4>3. CASE server[s] # p
        <5>1. client[s] # "game"
          BY <1>1, <2>3, <4>3 DEF PipeInv, PipeSide
        <5> QED
          BY <1>2, <4>1, <4>3, <5>1 DEF Opened
      <4> QED
        BY <4>2, <4>3
    <3>2. ASSUME link = "flush", ~Ending(p)' PROVE WasRead(t, w)'
      <4>1. main' = main /\ received' = received /\ ~Ending(p)
            /\ worker[p] \notin {"waiting", "reading"}
        <5>1. main' = main /\ received' = received
          BY <1>0, <3>2 DEF Ending, Gone
        <5> QED
          BY <3>2, <5>1 DEF Ending
      <4>2. WasRead(t, w)
        BY <2>3, <3>2, <4>1 DEF PipeInv, Held, IsThere
      <4>3. buffer'[t] = "none"
        BY <1>2, <2>1, <2>3, <4>2 DEF WasRead
      <4> QED
        BY <1>1, <2>1, <2>3, <4>1, <4>2, <4>3 DEF WasRead
    <3> QED
      BY <2>3, <3>1, <3>2
  <2>4. ASSUME peer # p
        PROVE  /\ link = "open" => Opened(t)'
               /\ link = "flush" => Ending(peer)' \/ WasRead(t, w)' \/ IsThere(t, w)'
    <3>1. /\ main'[peer] = main[peer] /\ received'[peer] = received[peer]
          /\ worker'[peer] = worker[peer]
      BY <1>1, <2>1, <2>4
    <3>2. CASE server[t] = peer \/ t # s
      <4>1. client'[t] = client[t] /\ buffer'[t] = buffer[t]
        BY <1>2, <2>1, <2>4, <3>2
      <4> QED
        BY <3>1, <4>1 DEF PipeInv, Held, Opened, Ending, WasRead, IsThere
    <3>3. CASE server[t] # peer /\ t = s
      <4>1. client[t] # "game" /\ buffer[t] = "none"
        BY <2>1, <3>3 DEF PipeInv, PipeSide
      <4>2. client'[t] # "game" /\ buffer'[t] = "none"
        BY <1>2, <2>1, <3>3, <4>1
      <4>3. worker[peer] # "waiting"
        BY <2>1, <3>3 DEF PipeInv, PipeSide
      <4> QED
        BY <3>1, <4>1, <4>2, <4>3 DEF PipeInv, Held, Opened, Ending, WasRead, IsThere
    <3> QED
      BY <3>2, <3>3
  <2> QED
    BY <2>1, <2>2, <2>3, <2>4 DEF Held
<1> QED
  BY <1>4, <1>5 DEF PipeInv

LEMMA PipeKit ==
  ASSUME KitInv, PipeInv, NEW p \in Procs, KitSteps(p)
  PROVE  PipeInv'
<1>0. /\ main \in [Procs -> Phases] /\ slotOf \in [Procs -> Slots]
      /\ server \in [Slots -> Procs \cup {None}] /\ worker \in [Procs -> Turns]
      /\ client \in [Slots -> {"none", "free", "game", "left"}]
      /\ buffer \in [Slots -> Known] /\ received \in [Procs -> Words \cup {"none"}]
      /\ stop \in [Procs -> BOOLEAN] /\ None \notin Procs /\ NoOrphan
      /\ slotOf[p] \in Slots /\ PipeSide /\ Held
  BY NoneAssumption DEF KitInv, GameSide, RestSide, WordSide, PipeInv
<1>1. CASE HandleWord(p)
  BY <1>1, PipeStays DEF HandleWord, sendVars, threadVars, pipeVars
<1>2. CASE Start(p) \/ RequestGameQuit(p) \/ Stop(p) \/ Join(p)
  <2>1. UNCHANGED <<todo, link, peer, slotOf, received, server, client, buffer, worker>>
    BY <1>2 DEF Start, RequestGameQuit, Stop, Join, sendVars, kitVars, threadVars, pipeVars
  <2>2. \E to \in {"complaining", "leaving", "open", "waking", "ended"} :
           /\ main' = [main EXCEPT ![p] = to] /\ main[p] # "none"
           /\ main[p] \in Leaving \cup Gone => to \in Leaving \cup Gone
           /\ \/ stop' = stop
              \/ stop' = [stop EXCEPT ![p] = TRUE] /\ to \in Leaving
    BY <1>2 DEF Start, RequestGameQuit, Stop, Join, Goes, Leaving, Gone, threadVars
  <2>3. /\ \A q \in Procs : stop'[q] => stop[q] \/ main'[q] \in Leaving \cup Gone
        /\ \A q \in Procs : main'[q] = "none" <=> main[q] = "none"
        /\ \A q \in Procs : main[q] \in Leaving \cup Gone => main'[q] \in Leaving \cup Gone
    BY <1>0, <2>2
  <2> QED
    BY <2>1, <2>3, PipeStays
<1>3. CASE Ends(p)
  <2>1. /\ ClosePipe(p) /\ worker' = [worker EXCEPT ![p] = "ended"]
        /\ main' = [main EXCEPT ![p] = "dead"] /\ main[p] # "none"
        /\ received' = [received EXCEPT ![p] = "none"]
        /\ stop' = [stop EXCEPT ![p] = FALSE] /\ UNCHANGED <<todo, link, peer, slotOf>>
    BY <1>3 DEF Ends, Goes, Alive, Gone, sendVars
  <2>2. Ending(p)'
    BY <1>0, <2>1 DEF Ending, Gone
  <2>3. \A q \in Procs : stop'[q] => stop[q]
    BY <1>0, <2>1
  <2> QED
    BY <2>1, <2>2, <2>3, PipeCloses
<1>4. CASE Reopen(p) \/ (Connected(p) /\ stop[p])
  <2>1. /\ ClosePipe(p) /\ main[p] # "none"
        /\ UNCHANGED <<todo, link, peer, slotOf, received, main, stop>>
    BY <1>4 DEF Reopen, Connected, Alive, sendVars, kitVars
  <2>2. CASE Reopen(p)
    BY <2>1, <2>2, PipeCloses DEF Reopen
  <2>3. CASE Connected(p) /\ stop[p]
    <3>1. Ending(p)'
      BY <1>0, <2>1, <2>3 DEF PipeSide, Ending
    <3> QED
      BY <2>1, <2>3, <3>1, PipeCloses DEF Connected
  <2> QED
    BY <1>4, <2>2, <2>3
<1>5. CASE TestStop(p) \/ StartServer(p)
  <2>1. /\ UNCHANGED <<todo, link, peer, slotOf, received, server, client, buffer, main, stop>>
        /\ worker[p] \in {"test", "none"} /\ main[p] # "none"
        /\ \E t \in {"test", "ended", "create"} : worker' = [worker EXCEPT ![p] = t]
    BY <1>5 DEF TestStop, StartServer, Alive, sendVars, kitVars, pipeVars
  <2>2. /\ worker'[p] \in {"test", "ended", "create"}
        /\ \A q \in Procs : q # p => worker'[q] = worker[q]
    BY <1>0, <2>1
  <2>3. PipeSide'
    BY <1>0, <2>1, <2>2 DEF PipeSide
  <2>4. Held'
    BY <1>0, <2>1, <2>2 DEF Held, Opened, WasRead, IsThere, Ending
  <2> QED
    BY <2>3, <2>4 DEF PipeInv
<1>6. CASE CreatePipe(p)
  <2> DEFINE s == slotOf[p]
  <2>1. /\ UNCHANGED <<todo, link, peer, slotOf, received, buffer, main, stop>>
        /\ worker[p] = "create" /\ main[p] # "none"
    BY <1>6 DEF CreatePipe, Alive, sendVars, kitVars, pipeVars
  <2>2. CASE server[s] # None
    <3>1. worker' = [worker EXCEPT ![p] = "test"] /\ UNCHANGED <<server, client>>
      BY <1>6, <2>2 DEF CreatePipe, pipeVars
    <3>2. worker'[p] = "test" /\ \A q \in Procs : q # p => worker'[q] = worker[q]
      BY <1>0, <3>1
    <3>3. PipeSide'
      BY <1>0, <2>1, <3>1, <3>2 DEF PipeSide
    <3>4. Held'
      BY <1>0, <2>1, <3>1, <3>2 DEF Held, Opened, WasRead, IsThere, Ending
    <3> QED
      BY <3>3, <3>4 DEF PipeInv
  <2>3. CASE server[s] = None
    <3>1. /\ worker' = [worker EXCEPT ![p] = "waiting"]
          /\ server' = [server EXCEPT ![s] = p] /\ client' = [client EXCEPT ![s] = "free"]
      BY <1>6, <2>3 DEF CreatePipe
    <3>2. /\ worker'[p] = "waiting" /\ \A q \in Procs : q # p => worker'[q] = worker[q]
          /\ server'[s] = p /\ \A t \in Slots : t # s => server'[t] = server[t]
          /\ client'[s] = "free" /\ \A t \in Slots : t # s => client'[t] = client[t]
      BY <1>0, <3>1
    <3>3. client[s] = "none" /\ buffer[s] = "none"
      BY <1>0, <2>3 DEF PipeSide
    <3>4. \A q \in Procs : worker[q] \in {"waiting", "reading", "closing"} => slotOf[q] # s
      BY <1>0, <2>3 DEF PipeSide
    <3>5. PipeSide'
      <4> HIDE DEF s
      <4>1. \A q \in Procs :
              worker'[q] \in {"waiting", "reading", "closing"} => server'[slotOf[q]] = q
        <5> SUFFICES ASSUME NEW q \in Procs, worker'[q] \in {"waiting", "reading", "closing"}
                     PROVE  server'[slotOf[q]] = q
          OBVIOUS
        <5>1. CASE q = p
          BY <3>2, <5>1 DEF s
        <5>2. CASE q # p
          <6>1. worker[q] \in {"waiting", "reading", "closing"} /\ slotOf[q] \in Slots
            BY <1>0, <3>2, <5>2
          <6> QED
            BY <1>0, <3>2, <3>4, <6>1 DEF PipeSide
        <5> QED
          BY <5>1, <5>2
      <4>2. \A t \in Slots : server'[t] # None =>
              slotOf[server'[t]] = t /\ worker'[server'[t]] \in {"waiting", "reading", "closing"}
        BY <1>0, <2>1, <3>2 DEF PipeSide, s
      <4>3. \A t \in Slots : client'[t] = "free" => worker'[server'[t]] = "waiting"
        <5> SUFFICES ASSUME NEW t \in Slots, client'[t] = "free", t # s
                     PROVE  worker'[server'[t]] = "waiting"
          BY <3>2
        <5>1. server'[t] = server[t] /\ worker[server[t]] = "waiting" /\ server[t] \in Procs
          BY <1>0, <3>2 DEF PipeSide
        <5> QED
          BY <2>1, <3>2, <5>1
      <4>4. \A q \in Procs : main[q] = "none" => worker'[q] = "none"
        BY <1>0, <2>1, <3>2 DEF PipeSide
      <4>5. \A t \in Slots : client'[t] # "none" => server'[t] # None
        BY <1>0, <3>2 DEF PipeSide
      <4>6. \A t \in Slots : client'[t] = "game" =>
              link # "idle" /\ Head(todo).slot = t /\ server'[t] = peer
        BY <1>0, <3>2 DEF PipeSide
      <4>7. \A t \in Slots : buffer[t] # "none" => client'[t] = "game"
        BY <1>0, <3>2, <3>3 DEF PipeSide
      <4> QED
        BY <1>0, <2>1, <4>1, <4>2, <4>3, <4>4, <4>5, <4>6, <4>7 DEF PipeSide
    <3>6. Held'
      <4> HIDE DEF s
      <4> SUFFICES ASSUME link # "idle" PROVE Held'
        BY <2>1 DEF Held
      <4> DEFINE t == Head(todo).slot
                 w == Head(todo).word
      <4>1. peer \in Procs /\ slotOf[peer] = t /\ t \in Slots
        BY <1>0 DEF Held
      <4>2. CASE t # s
        <5>1. peer # p
          BY <4>1, <4>2 DEF s
        <5> QED
          BY <1>0, <2>1, <3>2, <4>1, <4>2, <5>1 DEF Held, Opened, WasRead, IsThere, Ending
      <4>3. CASE t = s
        <5>1. worker'[peer] # "reading" /\ client'[t] = "free"
          BY <3>2, <3>4, <4>1, <4>3
        <5>2. link = "flush" => Ending(peer)' \/ WasRead(t, w)'
          <6>1. link = "flush" => Ending(peer) \/ WasRead(t, w)
            BY <1>0, <3>3, <4>3 DEF Held, IsThere
          <6> QED
            BY <2>1, <5>1, <6>1 DEF Ending, WasRead
        <5>3. Opened(t)'
          BY <2>1, <4>3, <3>2 DEF Opened
        <5> QED
          BY <1>0, <2>1, <5>2, <5>3 DEF Held
      <4> QED
        BY <4>2, <4>3
    <3> QED
      BY <3>5, <3>6 DEF PipeInv
  <2> QED
    BY <2>2, <2>3
<1>7. CASE Connected(p) /\ ~stop[p]
  <2>1. /\ UNCHANGED <<todo, link, peer, slotOf, received, server, client, buffer, main, stop>>
        /\ worker[p] = "waiting" /\ client[slotOf[p]] \in {"game", "left"}
        /\ \/ worker' = [worker EXCEPT ![p] = "reading"]
           \/ client[slotOf[p]] = "left" /\ worker' = [worker EXCEPT ![p] = "closing"]
    BY <1>7 DEF Connected, sendVars, kitVars, pipeVars
  <2>2. /\ \/ worker'[p] = "reading"
           \/ client[slotOf[p]] = "left" /\ worker'[p] = "closing"
        /\ \A q \in Procs : q # p => worker'[q] = worker[q]
        /\ server[slotOf[p]] = p
    BY <1>0, <2>1 DEF PipeSide
  <2>3. PipeSide'
    BY <1>0, <2>1, <2>2 DEF PipeSide
  <2>4. Held'
    BY <1>0, <2>1, <2>2 DEF Held, Opened, WasRead, IsThere, Ending
  <2> QED
    BY <2>3, <2>4 DEF PipeInv
<1>8. CASE Read(p)
  <2> DEFINE s == slotOf[p]
  <2>1. /\ UNCHANGED <<todo, link, peer, slotOf, server, client, main, stop>>
        /\ worker[p] = "reading" /\ (buffer[s] # "none" \/ client[s] = "left")
        /\ received' = [received EXCEPT ![p] = buffer[s]]
        /\ buffer' = [buffer EXCEPT ![s] = "none"]
        /\ worker' = [worker EXCEPT ![p] = "closing"]
    BY <1>8 DEF Read, Readable, sendVars
  <2>2. /\ worker'[p] = "closing" /\ received'[p] = buffer[s] /\ buffer'[s] = "none"
        /\ \A q \in Procs : q # p => worker'[q] = worker[q] /\ received'[q] = received[q]
        /\ \A t \in Slots : t # s => buffer'[t] = buffer[t]
        /\ server[s] = p
    BY <1>0, <2>1 DEF PipeSide
  <2>3. PipeSide'
    BY <1>0, <2>1, <2>2 DEF PipeSide
  <2>4. Held'
    <3> HIDE DEF s
    <3> SUFFICES ASSUME link # "idle" PROVE Held'
      BY <2>1 DEF Held
    <3> DEFINE t == Head(todo).slot
               w == Head(todo).word
    <3>1. peer \in Procs /\ slotOf[peer] = t /\ t \in Slots /\ s \in Slots /\ s = slotOf[p]
      BY <1>0 DEF Held, s
    <3>2. CASE t # s
      BY <1>0, <2>1, <2>2, <3>1, <3>2 DEF Held, Opened, WasRead, IsThere, Ending
    <3>3. CASE t = s /\ peer # p
      <4>1. client[t] # "game" /\ buffer[t] = "none" /\ worker[peer] \notin {"waiting", "reading"}
        BY <1>0, <2>2, <3>1, <3>3 DEF PipeSide
      <4> QED
        BY <1>0, <2>1, <2>2, <3>1, <3>3, <4>1 DEF Held, Opened, WasRead, IsThere, Ending
    <3>4. CASE t = s /\ peer = p
      <4>1. link = "open" => Opened(t)'
        <5>1. link = "open" => client[t] # "game"
          BY <1>0, <2>1, <3>4 DEF Held, Opened, PipeSide
        <5> QED
          BY <2>1, <5>1 DEF Opened
      <4>2. link = "flush" => Ending(peer) \/ IsThere(t, w)
        BY <1>0, <2>1, <3>4 DEF Held, WasRead
      <4>3. link = "flush" => Ending(peer)' \/ WasRead(t, w)'
        BY <2>1, <2>2, <3>4, <4>2 DEF Ending, WasRead, IsThere
      <4> QED
        BY <1>0, <2>1, <4>1, <4>3 DEF Held
    <3> QED
      BY <3>2, <3>3, <3>4
  <2> QED
    BY <2>3, <2>4 DEF PipeInv
<1>9. CASE Wake(p)
  <2> DEFINE s == slotOf[p]
  <2>1. /\ UNCHANGED <<todo, link, peer, slotOf, server, buffer, received, worker, stop>>
        /\ main[p] = "waking" /\ main' = [main EXCEPT ![p] = "joining"]
        /\ client' = [client EXCEPT ![s] = IF client[s] = "free" THEN "left" ELSE client[s]]
    BY <1>9 DEF Wake, Goes, sendVars, kitVars, threadVars
  <2>2. /\ main'[p] = "joining" /\ \A q \in Procs : q # p => main'[q] = main[q]
        /\ \A t \in Slots :
             client'[t] = IF t = s /\ client[t] = "free" THEN "left" ELSE client[t]
    BY <1>0, <2>1
  <2>3. PipeSide'
    BY <1>0, <2>1, <2>2 DEF PipeSide, Leaving, Gone
  <2>4. Held'
    <3> HIDE DEF s
    <3> SUFFICES ASSUME link # "idle" PROVE Held'
      BY <2>1 DEF Held
    <3> DEFINE t == Head(todo).slot
               w == Head(todo).word
    <3>1. peer \in Procs /\ slotOf[peer] = t /\ t \in Slots /\ main[peer] # "none"
      BY <1>0 DEF Held
    <3>2. main'[peer] # "none" /\ (Ending(peer) => Ending(peer)')
      BY <2>1, <2>2, <3>1 DEF Ending, Leaving, Gone
    <3>3. ~Ending(peer) => t # s
      <4> SUFFICES ASSUME ~Ending(peer), t = s PROVE FALSE
        OBVIOUS
      <4>1. Alive(peer) /\ Alive(p)
        BY <2>1, <3>1 DEF Ending, Alive, Gone
      <4>2. handle[t] = peer /\ handle[t] = p
        BY <1>0, <3>1, <4>1 DEF NoOrphan, s
      <4> QED
        BY <2>1, <4>2 DEF Ending, Leaving
    <3>4. Opened(t) => Opened(t)'
      BY <2>1, <2>2, <3>1 DEF Opened
    <3>5. Ending(peer) \/ WasRead(t, w) \/ IsThere(t, w)
            => Ending(peer)' \/ WasRead(t, w)' \/ IsThere(t, w)'
      BY <2>1, <2>2, <3>1, <3>2, <3>3 DEF WasRead, IsThere
    <3> QED
      BY <1>0, <2>1, <3>1, <3>2, <3>4, <3>5 DEF Held
  <2> QED
    BY <2>3, <2>4 DEF PipeInv
<1> QED
  BY <1>1, <1>2, <1>3, <1>4, <1>5, <1>6, <1>7, <1>8, <1>9 DEF KitSteps, PipeThread

LEMMA PipeInit == Init => PipeInv
<1> SUFFICES ASSUME Init PROVE PipeInv
  OBVIOUS
<1>1. /\ \A p \in Procs : stop[p] = FALSE /\ worker[p] = "none"
      /\ \A s \in Slots : server[s] = None /\ client[s] = "none" /\ buffer[s] = "none"
      /\ link = "idle"
  BY DEF Init
<1> QED
  BY <1>1 DEF PipeInv, PipeSide, Held

LEMMA PipeNext == KitInv /\ PipeInv /\ [Next]_vars => PipeInv'
<1> SUFFICES ASSUME KitInv, PipeInv, [Next]_vars PROVE PipeInv'
  OBVIOUS
<1>1. CASE UNCHANGED vars
  BY <1>1, PipeStays DEF vars, slotVars, queueVars, sendVars, deathVars, kitVars,
    threadVars, pipeVars
<1>2. CASE \E p \in Procs : KitSteps(p)
  BY <1>2, PipeKit
<1>3. CASE \/ Handler \/ Broadcast \/ Close
           \/ \E s \in Slots : Toggle(s)
           \/ \E c \in Deaths : ClickDead(c) \/ Bury(c)
           \/ \E q \in quits : QuitArrives(q)
  BY <1>3, PipeHandler
<1> QED
  BY <1>1, <1>2, <1>3 DEF Next, KitSteps

\* What a send returned true for was read, by the kit it was sent to, in any mix
\* of stops, ends and restarts of kits meanwhile.
THEOREM SentWordsAreReceived == Spec => SentIsReceived
<1>1. KitInv /\ PipeInv /\ [Next]_vars =>
        [\A s \in Slots : SendEnds(s) => received[peer] = Head(todo).word
                             \/ main[peer] \in Leaving \cup Gone]_vars
  <2> SUFFICES ASSUME PipeInv, NEW s \in Slots, SendEnds(s)
               PROVE  received[peer] = Head(todo).word \/ main[peer] \in Leaving \cup Gone
    OBVIOUS
  <2>1. link = "flush" /\ Head(todo).slot = s /\ (client[s] # "game" \/ buffer[s] = "none")
    BY DEF SendEnds, Sending, Drained
  <2> QED
    BY <2>1 DEF PipeInv, Held, Ending, WasRead, IsThere
<1> QED
  BY <1>1, InvInit, InvNext, PipeInit, PipeNext, PTL DEF Spec, SentIsReceived

-----------------------------------------------------------------------------
(* Reported deaths *)

\* Nothing but a crash takes a word away: no kit is slow, complains or cannot be
\* started, and the document has room for every death.
NothingHinders ==
  /\ Faults \subseteq {"crash"}
  /\ IsFiniteSet(Deaths) /\ Cardinality(Deaths) <= MaxPending

TellResults(c, p) == {<<p, c, TRUE>>, <<p, c, FALSE>>, <<None, c, FALSE>>}

\* The death is recorded, waits in a kit's window, or went to a kit that is ending.
GivenTo(c) == \E p \in Procs : c \in ToSet(inbox[p]) /\ slotOf[p] = Funeral
Lost(c) ==
  \E p \in Procs : slotOf[p] = Funeral /\ Ending(p) /\ TellResults(c, p) \cap told # {}
Safe(c) == c \in graves \/ GivenTo(c) \/ Lost(c)

Named(q, c) == \E i \in 1..Len(q) : q[i].word = c
DeathSend(o) == o.op = "send" /\ o.word \in Deaths

\* The words of a flush are sent one after the other and then cleared, and a death
\* is sent as soon as it was found that the kit is there.
Uninterrupted(q) ==
  \A k \in 1..Len(q) :
    q[k].op = "clear" \/ DeathSend(q[k]) => \A i \in 1..k - 1 : q[i].op = "send"
Addressed(q) ==
  \A k \in 1..Len(q) :
    q[k].word \in Deaths => q[k].slot = Funeral /\ q[k].op \in {"tell", "send"}

KitWasThere ==
  \/ Funeral \in dispatch
  \/ \E p \in Procs : slotOf[p] = Funeral /\ Ending(p)
Attached ==
  \A k \in 1..Len(todo) :
    /\ DeathSend(todo[k]) => Funeral \in dispatch /\ running
    /\ todo[k].op = "tell" => KitWasThere \/ Head(todo) = LaunchOf(Funeral)

\* What is cleared has been sent.
ClearedIsSent ==
  \A k \in 1..Len(todo) : todo[k].op = "clear" =>
    \A c \in ToSet(pending) : (\E i \in 1..k - 1 : todo[i].word = c) \/ Safe(c)

WaitsOnce ==
  \A i, j \in 1..Len(pending) : pending[i] = pending[j] => i = j

\* What waits in a kit's window is known to have been sent, or is just being sent.
InboxTold ==
  \A p \in Procs :
    /\ \A c \in ToSet(inbox[p]) \cap Deaths :
         \/ <<p, c, TRUE>> \in told
         \/ link = "flush" /\ peer = p /\ Head(todo).word = c
    /\ main[p] = "none" => inbox[p] = <<>>

\* A process that is gone leaves its pipe for at most one send, that of the next
\* one's YOUR_ID_IS.
StaleForId ==
  \A s \in Slots : client[s] = "free" /\ handle[s] \notin {None, server[s]} =>
    todo # <<>> /\ Head(todo) = Send(s, "id") /\ link = "idle"

\* A death that is being sent goes to the kit the slot holds, and is read by it
\* unless that kit is ending.
SendReaches ==
  link # "idle" /\ Head(todo).word \in Deaths =>
    LET c == Head(todo).word IN
    /\ link = "open" =>
         peer = handle[Funeral] /\ (Ending(peer) \/ client[Funeral] = "game")
    /\ link = "flush" =>
         \/ Ending(peer) \/ IsThere(Funeral, c)
         \/ c \in graves \cup ToSet(inbox[peer])

\* What is in a pipe is the word that is being sent.
BufferIsSent ==
  \A s \in Slots : buffer[s] # "none" =>
    todo # <<>> /\ link = "flush" /\ buffer[s] = Head(todo).word

NoComplaint == \A p \in Procs : main[p] # "complaining"

DeathInv ==
  /\ Uninterrupted(todo) /\ Addressed(todo) /\ Attached /\ ClearedIsSent /\ WaitsOnce
  /\ InboxTold /\ StaleForId /\ SendReaches /\ BufferIsSent /\ NoComplaint /\ DeathKept

-----------------------------------------------------------------------------
(* What is left to do, as a sequence *)

LEMMA Joined ==
  ASSUME NEW S, NEW f \in Seq(S), NEW r \in Seq(S)
  PROVE  /\ f \o r \in Seq(S) /\ Len(f \o r) = Len(f) + Len(r)
         /\ Len(f) \in Nat /\ Len(r) \in Nat
         /\ \A i \in 1..Len(f) : (f \o r)[i] = f[i]
         /\ \A i \in 1..Len(r) : (f \o r)[i + Len(f)] = r[i]
         /\ \A k \in 1..Len(f) + Len(r) :
              k \in 1..Len(f) \/ \E i \in 1..Len(r) : k = i + Len(f)
<1>1. /\ f \o r \in Seq(S) /\ Len(f \o r) = Len(f) + Len(r)
      /\ Len(f) \in Nat /\ Len(r) \in Nat
  OBVIOUS
<1>2. \A i \in 1..Len(f) : (f \o r)[i] = f[i]
  OBVIOUS
<1>3. \A i \in 1..Len(r) : (f \o r)[i + Len(f)] = r[i]
  OBVIOUS
<1>4. ASSUME NEW k \in 1..Len(f) + Len(r), k \notin 1..Len(f)
      PROVE  \E i \in 1..Len(r) : k = i + Len(f)
  <2>1. k - Len(f) \in 1..Len(r) /\ k = (k - Len(f)) + Len(f)
    BY <1>1, <1>4
  <2> QED  BY <2>1
<1> QED  BY <1>1, <1>2, <1>3, <1>4

LEMMA NamedJoined ==
  ASSUME NEW S, NEW f \in Seq(S), NEW r \in Seq(S), NEW c
  PROVE  Named(f \o r, c) <=> Named(f, c) \/ Named(r, c)
<1>1. ASSUME Named(f \o r, c) PROVE Named(f, c) \/ Named(r, c)
  BY <1>1, Joined DEF Named
<1>2. ASSUME Named(f, c) PROVE Named(f \o r, c)
  BY <1>2, Joined DEF Named
<1>3. ASSUME NEW i \in 1..Len(r), r[i].word = c PROVE Named(f \o r, c)
  <2>1. i + Len(f) \in 1..Len(f \o r) /\ (f \o r)[i + Len(f)] = r[i]
    BY Joined
  <2> QED  BY <1>3, <2>1 DEF Named
<1> QED  BY <1>1, <1>2, <1>3 DEF Named

LEMMA TailIs ==
  ASSUME NEW S, NEW q \in Seq(S), q # <<>>
  PROVE  /\ Tail(q) \in Seq(S) /\ Len(q) \in Nat /\ Len(Tail(q)) = Len(q) - 1
         /\ Head(q) = q[1] /\ 1 \in 1..Len(q)
         /\ \A i \in 1..Len(Tail(q)) : Tail(q)[i] = q[i + 1] /\ i + 1 \in 1..Len(q)
         /\ \A k \in 1..Len(q) : k = 1 \/ \E i \in 1..Len(Tail(q)) : k = i + 1
<1>1. /\ Tail(q) \in Seq(S) /\ Len(q) \in Nat /\ Len(Tail(q)) = Len(q) - 1
      /\ Head(q) = q[1] /\ 1 \in 1..Len(q)
  OBVIOUS
<1>2. \A i \in 1..Len(Tail(q)) : Tail(q)[i] = q[i + 1] /\ i + 1 \in 1..Len(q)
  BY <1>1
<1>3. ASSUME NEW k \in 1..Len(q), k # 1 PROVE \E i \in 1..Len(Tail(q)) : k = i + 1
  <2>1. k - 1 \in 1..Len(Tail(q)) /\ k = (k - 1) + 1
    BY <1>1, <1>3
  <2> QED  BY <2>1
<1> QED  BY <1>1, <1>2, <1>3

LEMMA NamedTail ==
  ASSUME NEW S, NEW q \in Seq(S), q # <<>>, NEW c
  PROVE  Named(q, c) <=> Head(q).word = c \/ Named(Tail(q), c)
<1>1. ASSUME Named(q, c) PROVE Head(q).word = c \/ Named(Tail(q), c)
  <2>1. PICK k \in 1..Len(q) : q[k].word = c
    BY <1>1 DEF Named
  <2>2. CASE k = 1
    BY <2>1, <2>2, TailIs
  <2>3. ASSUME NEW i \in 1..Len(Tail(q)), k = i + 1 PROVE Named(Tail(q), c)
    BY <2>1, <2>3, TailIs DEF Named
  <2> QED  BY <2>2, <2>3, TailIs
<1>2. Head(q).word = c => Named(q, c)
  BY TailIs DEF Named
<1>3. ASSUME NEW i \in 1..Len(Tail(q)), Tail(q)[i].word = c PROVE Named(q, c)
  BY <1>3, TailIs DEF Named
<1> QED  BY <1>1, <1>2, <1>3 DEF Named

\* A step that is not a send has no clearing and no death's send behind it.
Loose(q) == \A k \in 1..Len(q) : q[k].op # "clear" /\ ~DeathSend(q[k])

LEMMA LooseBehind ==
  ASSUME NEW S, NEW q \in Seq(S), Uninterrupted(q), q # <<>>, Head(q).op # "send"
  PROVE  Loose(Tail(q))
<1> SUFFICES ASSUME NEW k \in 1..Len(Tail(q)),
                    Tail(q)[k].op = "clear" \/ DeathSend(Tail(q)[k])
             PROVE  FALSE
  BY DEF Loose
<1>1. k + 1 \in 1..Len(q) /\ (q[k + 1].op = "clear" \/ DeathSend(q[k + 1]))
  BY TailIs
<1>2. 1 \in 1..(k + 1) - 1 /\ q[1].op # "send"
  BY TailIs
<1> QED  BY <1>1, <1>2 DEF Uninterrupted

LEMMA TailUninterrupted ==
  ASSUME NEW S, NEW q \in Seq(S), Uninterrupted(q), Addressed(q), q # <<>>
  PROVE  Uninterrupted(Tail(q)) /\ Addressed(Tail(q))
<1>1. Uninterrupted(Tail(q))
  <2> SUFFICES ASSUME NEW k \in 1..Len(Tail(q)),
                      Tail(q)[k].op = "clear" \/ DeathSend(Tail(q)[k]),
                      NEW i \in 1..k - 1
               PROVE  Tail(q)[i].op = "send"
    BY DEF Uninterrupted
  <2>1. k + 1 \in 1..Len(q) /\ (q[k + 1].op = "clear" \/ DeathSend(q[k + 1]))
    BY TailIs
  <2>2. i \in 1..Len(Tail(q)) /\ i + 1 \in 1..(k + 1) - 1
    BY TailIs
  <2>3. q[i + 1].op = "send"
    BY <2>1, <2>2 DEF Uninterrupted
  <2> QED  BY <2>2, <2>3, TailIs
<1>2. Addressed(Tail(q))
  BY TailIs DEF Addressed
<1> QED  BY <1>1, <1>2

LEMMA JoinedUninterrupted ==
  ASSUME NEW S, NEW f \in Seq(S), NEW r \in Seq(S), Uninterrupted(f), Addressed(f),
         Loose(r), Addressed(r)
  PROVE  Uninterrupted(f \o r) /\ Addressed(f \o r)
<1>1. Uninterrupted(f \o r)
  <2> SUFFICES ASSUME NEW k \in 1..Len(f \o r),
                      (f \o r)[k].op = "clear" \/ DeathSend((f \o r)[k]),
                      NEW i \in 1..k - 1
               PROVE  (f \o r)[i].op = "send"
    BY DEF Uninterrupted
  <2>1. k \in 1..Len(f)
    BY Joined DEF Loose
  <2>2. i \in 1..Len(f) /\ (f \o r)[i] = f[i] /\ (f \o r)[k] = f[k]
    BY <2>1, Joined
  <2> QED  BY <2>1, <2>2 DEF Uninterrupted
<1>2. Addressed(f \o r)
  <2> SUFFICES ASSUME NEW k \in 1..Len(f \o r), (f \o r)[k].word \in Deaths
               PROVE  (f \o r)[k].slot = Funeral /\ (f \o r)[k].op \in {"tell", "send"}
    BY DEF Addressed
  <2> QED  BY Joined DEF Addressed
<1> QED  BY <1>1, <1>2

-----------------------------------------------------------------------------
(* The words of deaths *)

LEMMA OwnWords ==
  /\ "id" \notin Deaths /\ "raise" \notin Deaths /\ "state" \notin Deaths /\ "none" \notin Deaths
BY WordsAssumption

LEMMA StartsAre ==
  ASSUME KitInv
  PROVE  /\ todo \in Seq(Starts) /\ Steps \subseteq Starts
         /\ \A o \in Starts : o.op \in {"send", "launch", "launched", "tell", "flush", "clear", "box"}
                              /\ o.slot \in Slots
<1>1. Steps \subseteq Starts
  BY DEF Starts
<1>2. todo \in Seq(Steps) \/ todo \in Seq(Starts)
  BY DEF KitInv, TodoSound
<1>3. todo \in Seq(Starts)
  BY <1>1, <1>2, SeqGrows
<1>4. ASSUME NEW o \in Starts
      PROVE  o.op \in {"send", "launch", "launched", "tell", "flush", "clear", "box"} /\ o.slot \in Slots
  BY <1>4 DEF Starts, Steps, LaunchOf, Op
<1> QED  BY <1>1, <1>3, <1>4

LEMMA EmptySet == ToSet(<<>>) = {}
BY DEF ToSet

LEMMA KeptIs ==
  DeathKept <=> \A c \in buried : c \in ToSet(pending) \/ Named(todo, c) \/ Safe(c)
BY DEF DeathKept, OnItsWay, Safe, GivenTo, Lost, TellResults, Ending, Named

LEMMA KeptThen ==
  ASSUME \A c \in buried' : c \in ToSet(pending') \/ Named(todo', c) \/ Safe(c)'
  PROVE  DeathKept'
BY DEF DeathKept, OnItsWay, Safe, GivenTo, Lost, TellResults, Ending, Named

\* A death is safe for good while the kits do nothing.
LEMMA SafeStays ==
  ASSUME told \subseteq told', graves \subseteq graves', UNCHANGED inbox,
         \A p \in Procs : Ending(p) => Ending(p)' /\ slotOf'[p] = slotOf[p],
         \A p \in Procs : inbox[p] # <<>> => slotOf'[p] = slotOf[p]
  PROVE  \A c : Safe(c) => Safe(c)'
<1> SUFFICES ASSUME NEW c, Safe(c) PROVE Safe(c)'
  OBVIOUS
<1>1. CASE c \in graves
  BY <1>1 DEF Safe
<1>2. ASSUME NEW p \in Procs, c \in ToSet(inbox[p]), slotOf[p] = Funeral PROVE Safe(c)'
  <2>1. inbox[p] # <<>>
    BY <1>2, EmptySet
  <2> QED  BY <1>2, <2>1 DEF Safe, GivenTo
<1>3. ASSUME NEW p \in Procs, slotOf[p] = Funeral, Ending(p), TellResults(c, p) \cap told # {}
      PROVE  Safe(c)'
  <2>1. TellResults(c, p) \cap told' # {}
    BY <1>3
  <2>2. Ending(p)' /\ slotOf'[p] = Funeral
    BY <1>3
  <2> QED  BY <2>1, <2>2 DEF Safe, Lost, TellResults
<1> QED  BY <1>1, <1>2, <1>3 DEF Safe, GivenTo, Lost

\* While no send is going on and the kits do nothing.
LEMMA IdleParts ==
  ASSUME KitInv, DeathInv, link = "idle",
         UNCHANGED <<link, peer, inbox, graves, buffer>>, told \subseteq told',
         \A p \in Procs : Ending(p) => Ending(p)',
         \A p \in Procs : main[p] # "none" => slotOf'[p] = slotOf[p] /\ main'[p] # "none",
         \A p \in Procs : main'[p] = "complaining" => main[p] = "complaining"
  PROVE  /\ \A c : Safe(c) => Safe(c)'
         /\ InboxTold' /\ SendReaches' /\ BufferIsSent' /\ NoComplaint'
<1>1. \A p \in Procs : Ending(p) => Ending(p)' /\ slotOf'[p] = slotOf[p]
  BY DEF Ending, Leaving, Gone
<1>2. \A p \in Procs : inbox[p] # <<>> => slotOf'[p] = slotOf[p]
  BY DEF DeathInv, InboxTold
<1>3. \A c : Safe(c) => Safe(c)'
  BY <1>1, <1>2, SafeStays
<1>4. InboxTold'
  BY DEF DeathInv, InboxTold
<1>5. SendReaches' /\ BufferIsSent' /\ NoComplaint'
  BY DEF DeathInv, SendReaches, BufferIsSent, NoComplaint
<1> QED  BY <1>3, <1>4, <1>5

HasTell(q) == \E k \in 1..Len(q) : q[k].op = "tell"

\* What is behind a step that is not a send, and what waits behind a message box.
LEMMA Behind ==
  ASSUME KitInv, DeathInv, todo # <<>>, Head(todo).op # "send"
  PROVE  /\ Tail(todo) \in Seq(Starts) /\ Loose(Tail(todo)) /\ Addressed(Tail(todo))
         /\ Uninterrupted(Tail(todo))
         /\ HasTell(Tail(todo)) => KitWasThere \/ Head(todo) = LaunchOf(Funeral)
         /\ Head(todo).op # "tell" => Head(todo).word \notin Deaths
         /\ \A c : Named(todo, c) <=> Head(todo).word = c \/ Named(Tail(todo), c)
<1>1. todo \in Seq(Starts)
  BY StartsAre
<1>2. Uninterrupted(todo) /\ Addressed(todo) /\ Attached
  BY DEF DeathInv
<1>3. Loose(Tail(todo)) /\ Addressed(Tail(todo)) /\ Uninterrupted(Tail(todo)) /\ Tail(todo) \in Seq(Starts)
  BY <1>1, <1>2, LooseBehind, TailUninterrupted, TailIs
<1>4. HasTell(Tail(todo)) => KitWasThere \/ Head(todo) = LaunchOf(Funeral)
  BY <1>1, <1>2, TailIs DEF Attached, HasTell
<1>5. Head(todo).op # "tell" => Head(todo).word \notin Deaths
  BY <1>1, <1>2, TailIs DEF Addressed
<1>6. \A c : Named(todo, c) <=> Head(todo).word = c \/ Named(Tail(todo), c)
  BY <1>1, NamedTail
<1> QED  BY <1>3, <1>4, <1>5, <1>6

LEMMA WaitsBehind ==
  ASSUME KitInv, DeathInv, todo = <<>> \/ AtBox
  PROVE  /\ todo \in Seq(Starts) /\ Loose(todo) /\ Addressed(todo) /\ Uninterrupted(todo)
         /\ HasTell(todo) => KitWasThere
<1>1. todo \in Seq(Starts) /\ Addressed(todo) /\ Attached /\ Uninterrupted(todo)
  BY StartsAre DEF DeathInv
<1>2. CASE todo = <<>>
  BY <1>1, <1>2 DEF Loose, HasTell
<1>3. CASE AtBox
  <2>1. todo # <<>> /\ Head(todo).op = "box"
    BY <1>3 DEF AtBox
  <2>2. Loose(Tail(todo)) /\ Head(todo).word \notin Deaths
    BY <2>1, Behind
  <2>3. Loose(todo)
    <3> SUFFICES ASSUME NEW k \in 1..Len(todo) PROVE todo[k].op # "clear" /\ ~DeathSend(todo[k])
      BY DEF Loose
    <3>1. CASE k = 1
      BY <1>1, <2>1, <3>1, TailIs DEF DeathSend
    <3>2. ASSUME NEW i \in 1..Len(Tail(todo)), k = i + 1
          PROVE  todo[k].op # "clear" /\ ~DeathSend(todo[k])
      BY <1>1, <2>1, <2>2, <3>2, TailIs DEF Loose
    <3> QED  BY <1>1, <2>1, <3>1, <3>2, TailIs
  <2>4. Head(todo) # LaunchOf(Funeral)
    BY <2>1 DEF LaunchOf, Op
  <2> QED  BY <1>1, <2>3, <2>4 DEF Attached, HasTell
<1> QED  BY <1>2, <1>3

\* New steps come to the front of what is left.
Plain(f) == \A k \in 1..Len(f) : f[k].word \notin Deaths /\ f[k].op \notin {"clear", "tell"}

LEMMA TodoIs ==
  ASSUME NEW f \in Seq(Starts), NEW r \in Seq(Starts), todo' = f \o r,
         Uninterrupted(f), Addressed(f), Loose(r), Addressed(r),
         \A k \in 1..Len(f) : DeathSend(f[k]) => (Funeral \in dispatch /\ running)',
         HasTell(f) \/ HasTell(r) => KitWasThere' \/ Head(todo') = LaunchOf(Funeral),
         \A k \in 1..Len(f) : f[k].op = "clear" =>
           \A c \in ToSet(pending') : \E i \in 1..k - 1 : f[i].word = c
  PROVE  Uninterrupted(todo') /\ Addressed(todo') /\ Attached' /\ ClearedIsSent'
<1>1. Uninterrupted(todo') /\ Addressed(todo')
  BY JoinedUninterrupted
<1>2. \A k \in 1..Len(todo') : \/ k \in 1..Len(f) /\ todo'[k] = f[k]
                               \/ \E i \in 1..Len(r) : todo'[k] = r[i] /\ k = i + Len(f)
  BY Joined
<1>3. Attached'
  <2> SUFFICES ASSUME NEW k \in 1..Len(todo')
               PROVE  /\ DeathSend(todo'[k]) => (Funeral \in dispatch /\ running)'
                      /\ todo'[k].op = "tell" => KitWasThere' \/ Head(todo') = LaunchOf(Funeral)
    BY DEF Attached, LaunchOf, Op, DeathSend
  <2> QED  BY <1>2 DEF HasTell, Loose
<1>4. ClearedIsSent'
  <2> SUFFICES ASSUME NEW k \in 1..Len(todo'), todo'[k].op = "clear", NEW c \in ToSet(pending')
               PROVE  \E i \in 1..k - 1 : todo'[i].word = c
    BY DEF ClearedIsSent
  <2>1. k \in 1..Len(f) /\ todo'[k] = f[k]
    BY <1>2 DEF Loose
  <2>2. PICK i \in 1..k - 1 : f[i].word = c
    BY <2>1
  <2>3. i \in 1..Len(f) /\ todo'[i] = f[i]
    BY <2>1, Joined
  <2> QED  BY <2>2, <2>3
<1> QED  BY <1>1, <1>3, <1>4

LEMMA PlainFront ==
  ASSUME NEW f \in Seq(Starts), NEW r \in Seq(Starts), todo' = f \o r, Plain(f),
         Loose(r), Addressed(r), HasTell(r) => KitWasThere'
  PROVE  /\ Uninterrupted(todo') /\ Addressed(todo') /\ Attached' /\ ClearedIsSent'
         /\ \A c \in Deaths : Named(r, c) => Named(todo', c)
<1>1. Uninterrupted(f) /\ Addressed(f) /\ ~HasTell(f)
      /\ \A k \in 1..Len(f) : ~DeathSend(f[k]) /\ f[k].op # "clear"
  BY DEF Plain, Uninterrupted, Addressed, HasTell, DeathSend
<1>2. \A c \in Deaths : Named(r, c) => Named(todo', c)
  BY NamedJoined
<1> QED  BY <1>1, <1>2, TodoIs

-----------------------------------------------------------------------------
(* The handlers that do not send *)

LEMMA ShutForgetsNot ==
  ASSUME KitInv, running, NEW s \in Slots, Shutdown(s), UNCHANGED slotOf
  PROVE  /\ KitWasThere => KitWasThere'
         /\ \A p \in Procs : Ending(p) => Ending(p)'
         /\ \A p \in Procs : main[p] # "none" => main'[p] # "none"
         /\ \A p \in Procs : main'[p] = "complaining" => main[p] = "complaining"
         /\ \A t \in Slots : handle'[t] \in {handle[t], None}
<1>1. /\ dispatch' = dispatch \ {s} /\ main' = Terminated({handle[s]})
      /\ handle' = [handle EXCEPT ![s] = None] /\ handle \in [Slots -> Procs \cup {None}]
      /\ main \in [Procs -> Phases]
  BY DEF Shutdown, KitInv, GameSide
<1>2. \A p \in Procs : main'[p] = IF p = handle[s] /\ Alive(p) THEN "dying" ELSE main[p]
  BY <1>1 DEF Terminated
<1>3. \A p \in Procs : Ending(p) => Ending(p)'
  BY <1>2 DEF Ending, Gone
<1>4. KitWasThere => KitWasThere'
  <2>1. CASE Funeral \in dispatch /\ s # Funeral
    BY <1>1, <2>1 DEF KitWasThere
  <2>2. CASE Funeral \in dispatch /\ s = Funeral
    <3>1. handle[s] \in Procs /\ slotOf[handle[s]] = Funeral /\ main[handle[s]] # "none"
      BY <1>1, <2>2 DEF KitInv, GameSide, Synced, Owned
    <3>2. \A p \in Procs : p = handle[s] => Ending(p)'
      BY <1>2, <3>1 DEF Ending, Alive, Gone
    <3>3. PICK p \in Procs : p = handle[s]
      BY <3>1
    <3> QED  BY <3>1, <3>2, <3>3 DEF KitWasThere
  <2>3. ASSUME NEW p \in Procs, slotOf[p] = Funeral, Ending(p) PROVE KitWasThere'
    BY <1>3, <2>3 DEF KitWasThere
  <2> QED  BY <2>1, <2>2, <2>3 DEF KitWasThere
<1>5. \A t \in Slots : handle'[t] \in {handle[t], None}
  BY <1>1
<1> QED  BY <1>2, <1>3, <1>4, <1>5

NotSending == todo = <<>> \/ Head(todo).op # "send"

LEMMA StaleIdle ==
  ASSUME KitInv, DeathInv, NotSending, UNCHANGED <<client, server>>,
         \A t \in Slots : handle'[t] \in {handle[t], None}
  PROVE  StaleForId'
<1>1. \A t \in Slots : ~(client[t] = "free" /\ handle[t] \notin {None, server[t]})
  BY DEF DeathInv, StaleForId, NotSending, Send, Op
<1> QED  BY <1>1 DEF StaleForId

\* The steps after which a new step, if any, is in front of the others.
LEMMA QuietStep ==
  ASSUME KitInv, DeathInv, NotSending, link = "idle", running' = running, running,
         UNCHANGED <<link, peer, inbox, graves, buffer, client, server, slotOf, pending, buried>>,
         told \subseteq told',
         UNCHANGED <<main, handle, dispatch>> \/ \E s \in Slots : Shutdown(s),
         NEW f \in Seq(Starts), Plain(f),
         \/ todo' = f \o todo /\ (todo = <<>> \/ AtBox)
         \/ /\ todo # <<>> /\ todo' = f \o Tail(todo) /\ Head(todo).op \notin {"launch", "send"}
            /\ \A c \in Deaths : Head(todo).word = c => Safe(c)'
  PROVE  DeathInv'
<1>1. /\ KitWasThere => KitWasThere'
      /\ \A p \in Procs : Ending(p) => Ending(p)'
      /\ \A p \in Procs : main[p] # "none" => slotOf'[p] = slotOf[p] /\ main'[p] # "none"
      /\ \A p \in Procs : main'[p] = "complaining" => main[p] = "complaining"
      /\ \A t \in Slots : handle'[t] \in {handle[t], None}
  <2>1. CASE UNCHANGED <<main, handle, dispatch>>
    BY <2>1 DEF KitWasThere, Ending
  <2>2. CASE \E s \in Slots : Shutdown(s)
    BY <2>2, ShutForgetsNot
  <2> QED  BY <2>1, <2>2
<1>2. /\ \A c : Safe(c) => Safe(c)'
      /\ InboxTold' /\ SendReaches' /\ BufferIsSent' /\ NoComplaint'
  BY <1>1, IdleParts
<1>3. StaleForId'
  BY <1>1, StaleIdle
<1>4. WaitsOnce'
  BY DEF DeathInv, WaitsOnce
<1>5. /\ Uninterrupted(todo') /\ Addressed(todo') /\ Attached' /\ ClearedIsSent'
      /\ \A c \in Deaths : Named(todo, c) => Named(todo', c) \/ Safe(c)'
  <2>1. CASE todo' = f \o todo /\ (todo = <<>> \/ AtBox)
    BY <1>1, <2>1, WaitsBehind, PlainFront
  <2>2. CASE /\ todo # <<>> /\ todo' = f \o Tail(todo) /\ Head(todo).op \notin {"launch", "send"}
             /\ \A c \in Deaths : Head(todo).word = c => Safe(c)'
    <3>1. Head(todo) # LaunchOf(Funeral)
      BY <2>2 DEF LaunchOf, Op
    <3>2. HasTell(Tail(todo)) => KitWasThere'
      BY <1>1, <2>2, <3>1, Behind
    <3>3. /\ Uninterrupted(todo') /\ Addressed(todo') /\ Attached' /\ ClearedIsSent'
          /\ \A c \in Deaths : Named(Tail(todo), c) => Named(todo', c)
      BY <2>2, <3>2, Behind, PlainFront
    <3>4. \A c : Named(todo, c) <=> Head(todo).word = c \/ Named(Tail(todo), c)
      BY <2>2, Behind
    <3> QED  BY <2>2, <3>3, <3>4
  <2> QED  BY <2>1, <2>2
<1>6. DeathKept'
  <2>1. \A c \in buried : c \in ToSet(pending) \/ Named(todo, c) \/ Safe(c)
    BY KeptIs DEF DeathInv
  <2>2. buried \subseteq Deaths
    BY DEF KitInv, WordSide
  <2> QED  BY <1>2, <1>5, <2>1, <2>2, KeptThen
<1> QED  BY <1>2, <1>3, <1>4, <1>5, <1>6 DEF DeathInv

LEMMA NotSendingIdle ==
  ASSUME PipeInv, NotSending
  PROVE  link = "idle"
BY DEF PipeInv, Held, NotSending

LEMMA PlainSteps ==
  ASSUME KitInv
  PROVE  /\ <<>> \in Seq(Starts) /\ Plain(<<>>)
         /\ \A s \in Slots : /\ <<LaunchOf(s)>> \in Seq(Starts) /\ Plain(<<LaunchOf(s)>>)
                             /\ <<LaunchOf(s), Flush>> \in Seq(Starts) /\ Plain(<<LaunchOf(s), Flush>>)
                             /\ <<Send(s, "raise")>> \in Seq(Starts) /\ Plain(<<Send(s, "raise")>>)
                             /\ <<Send(s, "id"), Launched(s)>> \in Seq(Starts)
                             /\ Plain(<<Send(s, "id"), Launched(s)>>)
         /\ <<Box>> \in Seq(Starts) /\ Plain(<<Box>>)
         /\ <<Flush>> \in Seq(Starts) /\ Plain(<<Flush>>)
         /\ <<Flush, Flush>> \in Seq(Starts) /\ Plain(<<Flush, Flush>>)
<1>1. /\ Flush \in Starts /\ Box \in Starts
      /\ \A s \in Slots : /\ LaunchOf(s) \in Starts /\ Launched(s) \in Starts
                          /\ Send(s, "raise") \in Starts /\ Send(s, "id") \in Starts
  BY OpsAreSteps DEF Starts, Known
<1>2. \A a \in Starts : <<a>> \in Seq(Starts) /\ \A b \in Starts : <<a, b>> \in Seq(Starts)
  OBVIOUS
<1>3. ASSUME NEW a, a.word \notin Deaths, a.op \notin {"clear", "tell"}
      PROVE  /\ Plain(<<a>>)
             /\ \A b : b.word \notin Deaths /\ b.op \notin {"clear", "tell"} => Plain(<<a, b>>)
  BY <1>3 DEF Plain
<1>4. \A s \in Slots : /\ LaunchOf(s).word = "none" /\ LaunchOf(s).op = "launch"
                       /\ Launched(s).word = "none" /\ Launched(s).op = "launched"
                       /\ Send(s, "raise").word = "raise" /\ Send(s, "raise").op = "send"
                       /\ Send(s, "id").word = "id" /\ Send(s, "id").op = "send"
  BY DEF LaunchOf, Launched, Send, Op
<1>5. Flush.word = "none" /\ Flush.op = "flush" /\ Box.word = "none" /\ Box.op = "box"
  BY DEF Flush, Box, Op
<1>6. <<>> \in Seq(Starts) /\ Plain(<<>>)
  BY DEF Plain
<1> QED  BY <1>1, <1>2, <1>3, <1>4, <1>5, <1>6, OwnWords

LEMMA NothingInFront ==
  ASSUME NEW S, NEW q \in Seq(S)
  PROVE  <<>> \o q = q /\ q \o <<>> = q
OBVIOUS

\* A death that is reported is named before anything forgets it.
LEMMA Room ==
  ASSUME KitInv, DeathInv, NothingHinders, NEW c \in Deaths \ buried
  PROVE  Len(pending) < MaxPending
<1>1. buried \subseteq Deaths /\ pending \in Seq(buried) /\ WaitsOnce /\ MaxPending \in Nat
  BY LimitsAssumption DEF KitInv, WordSide, DeathInv
<1>2. /\ IsFiniteSet(buried) /\ IsFiniteSet(buried \cup {c}) /\ IsFiniteSet(Deaths)
      /\ Cardinality(buried \cup {c}) = Cardinality(buried) + 1
  <2>1. IsFiniteSet(buried)
    BY <1>1, FS_Subset DEF NothingHinders
  <2> QED  BY <2>1, FS_AddElement DEF NothingHinders
<1>3. Cardinality(buried \cup {c}) <= Cardinality(Deaths)
  BY <1>1, <1>2, FS_Subset
<1>4. /\ Cardinality(buried) \in Nat /\ Cardinality(Deaths) \in Nat
  BY <1>2, FS_CardinalityType
<1>5. IsFiniteSet(1..Len(pending)) /\ Cardinality(1..Len(pending)) = Len(pending)
  <2>1. Len(pending) \in Nat /\ Len(pending) \in Int /\ 1 \in Int
    BY <1>1
  <2>2. \A b \in Int : IsFiniteSet(1..b) /\ Cardinality(1..b) = IF 1 > b THEN 0 ELSE b - 1 + 1
    BY <2>1, FS_Interval, Zenon
  <2> QED  BY <2>1, <2>2
<1>6. ~(Cardinality(buried) < Cardinality(1..Len(pending)))
  <2> SUFFICES ASSUME Cardinality(buried) < Cardinality(1..Len(pending)) PROVE FALSE
    OBVIOUS
  <2>1. pending \in [1..Len(pending) -> buried]
    BY <1>1
  <2>2. \E x, y \in 1..Len(pending) : x # y /\ pending[x] = pending[y]
    BY <1>2, <1>5, <2>1, FS_PigeonHole
  <2> QED  BY <1>1, <2>2 DEF WaitsOnce
<1>7. Len(pending) \in Nat
  BY <1>1
<1> QED  BY <1>1, <1>2, <1>3, <1>4, <1>5, <1>6, <1>7 DEF NothingHinders

\* Handlers that leave the slots and the processes as they are.
LEMMA SameSlots ==
  ASSUME KitInv, DeathInv, NotSending, link = "idle",
         UNCHANGED <<link, peer, inbox, graves, buffer, client, server, slotOf, main, handle,
                     dispatch>>,
         told \subseteq told'
  PROVE  /\ \A c : Safe(c) => Safe(c)'
         /\ KitWasThere => KitWasThere'
         /\ InboxTold' /\ SendReaches' /\ BufferIsSent' /\ NoComplaint' /\ StaleForId'
<1>1. /\ \A p \in Procs : Ending(p) => Ending(p)'
      /\ KitWasThere => KitWasThere'
  BY DEF Ending, KitWasThere
<1>2. \A t \in Slots : handle'[t] \in {handle[t], None}
  OBVIOUS
<1> QED  BY <1>1, <1>2, IdleParts, StaleIdle

LEMMA BuryKeeps ==
  ASSUME KitInv, PipeInv, DeathInv, NothingHinders, NEW c \in Deaths, Bury(c)
  PROVE  DeathInv'
<1>1. c \in Deaths \ buried /\ (todo = <<>> \/ AtBox) /\ NotSending
  BY DEF Bury, Ticking, Pumping, NotSending, AtBox
<1>2. Len(pending) < MaxPending /\ link = "idle"
  BY <1>1, Room, NotSendingIdle
<1>3. /\ buried' = buried \cup {c} /\ pending' = Append(pending, c)
      /\ todo' = <<Flush, Flush>> \o todo
      /\ UNCHANGED <<link, peer, inbox, graves, buffer, client, server, slotOf, main, handle,
                     dispatch, told>>
  BY <1>2 DEF Bury, slotVars, queueVars, sendVars, kitVars, pipeVars
<1>4. /\ \A d : Safe(d) => Safe(d)'
      /\ KitWasThere => KitWasThere'
      /\ InboxTold' /\ SendReaches' /\ BufferIsSent' /\ NoComplaint' /\ StaleForId'
  BY <1>1, <1>2, <1>3, SameSlots
<1>5. /\ Uninterrupted(todo') /\ Addressed(todo') /\ Attached' /\ ClearedIsSent'
      /\ \A d \in Deaths : Named(todo, d) => Named(todo', d)
  <2>1. /\ todo \in Seq(Starts) /\ Loose(todo) /\ Addressed(todo)
        /\ HasTell(todo) => KitWasThere'
    BY <1>1, <1>4, WaitsBehind
  <2> QED  BY <1>3, <2>1, PlainSteps, PlainFront
<1>6. pending \in Seq(buried) /\ buried \subseteq Deaths
  BY DEF KitInv, WordSide
<1>7. /\ Len(pending) \in Nat /\ Len(pending') = Len(pending) + 1
      /\ pending'[Len(pending) + 1] = c
      /\ \A i \in 1..Len(pending) : pending'[i] = pending[i] /\ pending[i] \in buried
      /\ DOMAIN pending' = 1..Len(pending) + 1 /\ DOMAIN pending = 1..Len(pending)
  BY <1>3, <1>6
<1>8. WaitsOnce'
  <2> SUFFICES ASSUME NEW i \in 1..Len(pending) + 1, NEW j \in 1..Len(pending) + 1,
                      pending'[i] = pending'[j]
               PROVE  i = j
    BY <1>7 DEF WaitsOnce
  <2>1. CASE i \in 1..Len(pending) /\ j \in 1..Len(pending)
    BY <1>7, <2>1 DEF DeathInv, WaitsOnce
  <2>2. CASE i = Len(pending) + 1 \/ j = Len(pending) + 1
    BY <1>1, <1>7, <2>2
  <2> QED  BY <1>7, <2>1, <2>2
<1>9. ToSet(pending') = ToSet(pending) \cup {c}
  BY <1>7 DEF ToSet
<1>10. DeathKept'
  <2>1. \A d \in buried : d \in ToSet(pending) \/ Named(todo, d) \/ Safe(d)
    BY KeptIs DEF DeathInv
  <2> QED  BY <1>3, <1>4, <1>5, <1>6, <1>9, <2>1, KeptThen
<1> QED  BY <1>4, <1>5, <1>8, <1>10 DEF DeathInv

LEMMA ClickKeeps ==
  ASSUME KitInv, PipeInv, DeathInv, NEW c \in Deaths, ClickDead(c)
  PROVE  DeathInv'
<1>1. /\ todo = <<>> /\ NotSending /\ c \in Deaths \ buried /\ running
      /\ buried' = buried \cup {c} /\ pending' = pending
      /\ UNCHANGED <<link, peer, inbox, graves, buffer, client, server, slotOf, main, handle,
                     dispatch, told, running>>
  BY DEF ClickDead, Clickable, NotSending, slotVars, queueVars, sendVars, kitVars, pipeVars
<1>2. link = "idle"
  BY <1>1, NotSendingIdle
<1>3. /\ \A d : Safe(d) => Safe(d)'
      /\ InboxTold' /\ SendReaches' /\ BufferIsSent' /\ NoComplaint' /\ StaleForId'
  BY <1>1, <1>2, SameSlots
<1>4. WaitsOnce'
  BY <1>1 DEF DeathInv, WaitsOnce
<1>5. /\ \A k \in 1..Len(todo') : todo'[k] \in {LaunchOf(Funeral), Tell(c), Flush}
      /\ \/ Funeral \in dispatch' \/ Head(todo') = LaunchOf(Funeral)
      /\ Named(todo', c)
  <2>0. Tell(c).word = c
    BY DEF Tell, Op
  <2>1. CASE Funeral \in dispatch
    <3>1. todo' = <<Tell(c), Flush>>
      BY <2>1 DEF ClickDead
    <3> QED  BY <1>1, <2>0, <2>1, <3>1 DEF Named
  <2>2. CASE Funeral \notin dispatch
    <3>1. todo' = <<LaunchOf(Funeral), Tell(c), Flush>>
      BY <2>2 DEF ClickDead
    <3>2. Head(todo') = LaunchOf(Funeral)
      BY <3>1
    <3>3. 2 \in 1..Len(todo') /\ todo'[2] = Tell(c)
      BY <3>1
    <3>4. \A k \in 1..Len(todo') : todo'[k] \in {LaunchOf(Funeral), Tell(c), Flush}
      BY <3>1
    <3> QED  BY <2>0, <3>2, <3>3, <3>4 DEF Named
  <2> QED  BY <2>1, <2>2
<1>6. \A o \in {LaunchOf(Funeral), Tell(c), Flush} :
         /\ o.op \notin {"clear", "send"}
         /\ o.word \in Deaths => o.slot = Funeral /\ o.op = "tell"
  BY OwnWords DEF LaunchOf, Tell, Flush, Op
<1>7. Uninterrupted(todo') /\ Addressed(todo') /\ ClearedIsSent'
  <2>1. Uninterrupted(todo')
    BY <1>5, <1>6 DEF Uninterrupted, DeathSend
  <2>2. Addressed(todo')
    BY <1>5, <1>6 DEF Addressed
  <2>3. ClearedIsSent'
    BY <1>5, <1>6 DEF ClearedIsSent
  <2> QED  BY <2>1, <2>2, <2>3
<1>8. Attached'
  <2>1. Funeral \in dispatch' => KitWasThere'
    BY DEF KitWasThere
  <2>2. \A k \in 1..Len(todo') : ~DeathSend(todo'[k])
    BY <1>5, <1>6 DEF DeathSend
  <2> QED  BY <1>5, <2>1, <2>2 DEF Attached, DeathSend, LaunchOf, Op
<1>9. DeathKept'
  <2>1. \A d \in buried : d \in ToSet(pending) \/ Named(todo, d) \/ Safe(d)
    BY KeptIs DEF DeathInv
  <2>2. \A d : ~Named(todo, d)
    BY <1>1 DEF Named
  <2> QED  BY <1>1, <1>3, <1>5, <2>1, <2>2, KeptThen
<1> QED  BY <1>3, <1>4, <1>7, <1>8, <1>9 DEF DeathInv

LEMMA LaunchKeeps ==
  ASSUME KitInv, PipeInv, DeathInv, NothingHinders, Launch
  PROVE  DeathInv'
<1> DEFINE s == Head(todo).slot
           r == Tail(todo)
<1>1. todo # <<>> /\ Head(todo).op = "launch" /\ NotSending /\ running
  BY DEF Launch, NotSending
<1>2. link = "idle"
  BY <1>1, NotSendingIdle
<1>3. PICK t \in Slots \ dispatch : Head(todo) = LaunchOf(t)
  BY <1>1, HeadTail DEF KitInv
<1>4. s = t
  BY <1>3 DEF LaunchOf, Op
<1>5. PICK p \in Fresh :
          /\ dispatch' = dispatch \cup {t} /\ handle' = [handle EXCEPT ![t] = p]
          /\ slotOf' = [slotOf EXCEPT ![p] = t] /\ main' = [main EXCEPT ![p] = "opening"]
          /\ todo' = <<Send(t, "id"), Launched(t)>> \o r
  BY <1>4 DEF Launch, NothingHinders
<1> HIDE DEF r, s
<1>6. /\ UNCHANGED <<link, peer, inbox, graves, buffer, client, server, told, pending, buried,
                     running>>
      /\ main \in [Procs -> Phases] /\ slotOf \in [Procs -> Slots]
      /\ handle \in [Slots -> Procs \cup {None}]
      /\ p \in Procs /\ main[p] = "none" /\ buried \subseteq Deaths
  BY DEF Launch, queueVars, sendVars, deathVars, pipeVars, KitInv, GameSide, Fresh, WordSide
<1>7. /\ \A q \in Procs : Ending(q) => Ending(q)' /\ q # p
      /\ \A q \in Procs : main[q] # "none" => slotOf'[q] = slotOf[q] /\ main'[q] # "none"
      /\ \A q \in Procs : main'[q] = "complaining" => main[q] = "complaining"
  BY <1>5, <1>6 DEF Ending, Leaving, Gone
<1>8. /\ \A c : Safe(c) => Safe(c)'
      /\ InboxTold' /\ SendReaches' /\ BufferIsSent' /\ NoComplaint'
  BY <1>2, <1>6, <1>7, IdleParts
<1>9. KitWasThere \/ Head(todo) = LaunchOf(Funeral) => KitWasThere'
  <2>1. CASE Funeral \in dispatch
    BY <1>5, <2>1 DEF KitWasThere
  <2>2. ASSUME NEW q \in Procs, slotOf[q] = Funeral, Ending(q) PROVE KitWasThere'
    <3>1. Ending(q)' /\ slotOf'[q] = Funeral
      BY <1>5, <1>6, <1>7, <2>2
    <3> QED  BY <3>1 DEF KitWasThere
  <2>3. CASE Head(todo) = LaunchOf(Funeral)
    <3>1. t = Funeral
      BY <1>3, <2>3 DEF LaunchOf, Op
    <3> QED  BY <1>5, <3>1 DEF KitWasThere
  <2> QED  BY <2>1, <2>2, <2>3 DEF KitWasThere
<1>10. /\ r \in Seq(Starts) /\ Loose(r) /\ Addressed(r) /\ (HasTell(r) => KitWasThere')
       /\ \A c \in Deaths : Named(todo, c) => Named(r, c)
  BY <1>1, <1>9, Behind DEF r
<1>11. /\ Uninterrupted(todo') /\ Addressed(todo') /\ Attached' /\ ClearedIsSent'
       /\ \A c \in Deaths : Named(r, c) => Named(todo', c)
  BY <1>5, <1>10, PlainSteps, PlainFront
<1>12. StaleForId'
  <2>1. \A u \in Slots : ~(client[u] = "free" /\ handle[u] \notin {None, server[u]})
    BY <1>1 DEF DeathInv, StaleForId, Send, Op
  <2>2. todo' # <<>> /\ Head(todo') = Send(t, "id") /\ link' = "idle"
    BY <1>2, <1>5, <1>6, <1>10
  <2>3. \A u \in Slots : u # t => handle'[u] = handle[u]
    BY <1>5, <1>6
  <2> QED  BY <1>6, <2>1, <2>2, <2>3 DEF StaleForId
<1>13. WaitsOnce'
  BY <1>6 DEF DeathInv, WaitsOnce
<1>14. DeathKept'
  <2>1. \A c \in buried : c \in ToSet(pending) \/ Named(todo, c) \/ Safe(c)
    BY KeptIs DEF DeathInv
  <2> QED  BY <1>6, <1>8, <1>10, <1>11, <2>1, KeptThen
<1> QED  BY <1>8, <1>11, <1>12, <1>13, <1>14 DEF DeathInv

\* Of the steps that do not send, those that need nothing of their own.
LEMMA QuietKeeps ==
  ASSUME KitInv, PipeInv, DeathInv,
         \/ LaunchEnds \/ DismissBox \/ ShutdownMessage \/ Broadcast
         \/ \E s \in Slots : Toggle(s)
  PROVE  DeathInv'
<1>1. NotSending /\ running /\ running' = running
  BY DEF LaunchEnds, DismissBox, ShutdownMessage, Broadcast, Toggle, Clickable, Ticking,
    Pumping, AtBox, NotSending, queueVars
<1>2. link = "idle"
  BY <1>1, NotSendingIdle
<1>3. UNCHANGED <<link, peer, inbox, graves, buffer, client, server, slotOf, pending, buried, told>>
  BY DEF LaunchEnds, DismissBox, ShutdownMessage, Broadcast, Toggle, slotVars, queueVars,
    sendVars, deathVars, kitVars, pipeVars
<1>4. todo \in Seq(Starts)
  BY StartsAre
<1>5. \A o : Head(todo) = o /\ o.op # "tell" /\ o.op # "send" /\ todo # <<>> =>
        \A c \in Deaths : Head(todo).word # c
  BY Behind
<1>6. CASE LaunchEnds
  <2>1. /\ todo # <<>> /\ Head(todo).op = "launched" /\ Head(todo).slot \in Slots
        /\ \A c \in Deaths : Head(todo).word # c
    BY <1>4, <1>5, <1>6, StartsAre, TailIs DEF LaunchEnds
  <2>2. \/ UNCHANGED <<main, handle, dispatch>>
           /\ todo' = <<Send(Head(todo).slot, "raise")>> \o Tail(todo)
        \/ (\E s \in Slots : Shutdown(s)) /\ todo' = <<Box>> \o Tail(todo)
    BY <1>6, <2>1 DEF LaunchEnds, slotVars
  <2> QED  BY <1>1, <1>2, <1>3, <2>1, <2>2, PlainSteps, QuietStep
<1>7. CASE DismissBox
  <2>1. /\ todo # <<>> /\ Head(todo).op = "box" /\ \A c \in Deaths : Head(todo).word # c
    BY <1>5, <1>7 DEF DismissBox, AtBox
  <2>2. todo' = <<>> \o Tail(todo)
    BY <1>4, <1>7, <2>1, TailIs, NothingInFront DEF DismissBox
  <2>3. UNCHANGED <<main, handle, dispatch>>
    BY <1>7 DEF DismissBox, slotVars
  <2> QED  BY <1>1, <1>2, <1>3, <2>1, <2>2, <2>3, PlainSteps, QuietStep
<1>8. CASE ShutdownMessage
  <2>1. todo' = <<>> \o todo /\ (todo = <<>> \/ AtBox)
    BY <1>4, <1>8, NothingInFront DEF ShutdownMessage, Pumping
  <2>2. Head(posted).slot \in Slots
    <3>1. posted \in Seq(Messages) /\ posted # <<>>
      BY <1>8 DEF ShutdownMessage, KitInv, GameSide
    <3>2. Head(posted) = posted[1] /\ 1 \in DOMAIN posted
      BY <3>1
    <3> QED  BY <3>1, <3>2, MessageSlot
  <2>3. \E s \in Slots : Shutdown(s)
    BY <1>8, <2>2 DEF ShutdownMessage
  <2> QED  BY <1>1, <1>2, <1>3, <2>1, <2>3, PlainSteps, QuietStep
<1>9. ASSUME NEW s \in Slots, Toggle(s) PROVE DeathInv'
  <2>1. todo = <<>>
    BY <1>9 DEF Toggle, Clickable
  <2>2. CASE s \in dispatch
    <3>1. Shutdown(s) /\ todo' = <<>> \o todo
      BY <1>4, <1>9, <2>2, NothingInFront DEF Toggle
    <3> QED  BY <1>1, <1>2, <1>3, <2>1, <3>1, PlainSteps, QuietStep
  <2>3. CASE s \notin dispatch
    <3>1. /\ UNCHANGED <<main, handle, dispatch>>
          /\ todo' = <<LaunchOf(s)>> \/ todo' = <<LaunchOf(s), Flush>>
      BY <1>9, <2>3 DEF Toggle, slotVars
    <3>2. todo' = <<LaunchOf(s)>> \o todo \/ todo' = <<LaunchOf(s), Flush>> \o todo
      BY <2>1, <3>1, PlainSteps, NothingInFront
    <3> QED  BY <1>1, <1>2, <1>3, <2>1, <3>1, <3>2, PlainSteps, QuietStep
  <2> QED  BY <2>2, <2>3
<1>10. CASE Broadcast
  <2>1. PICK f \in [1..Cardinality(dispatch) -> dispatch] :
           todo' = [i \in DOMAIN f |-> Send(f[i], "state")] \o todo
    BY <1>10 DEF Broadcast
  <2> DEFINE g == [i \in DOMAIN f |-> Send(f[i], "state")]
  <2>2. g \in Seq(Starts) /\ Plain(g)
    <3>1. IsFiniteSet(dispatch) /\ dispatch \subseteq Slots
      BY FS_Subset, SlotsAssumption DEF KitInv, GameSide
    <3>2. Cardinality(dispatch) \in Nat
      BY <3>1, FS_CardinalityType
    <3>3. \A i \in DOMAIN f : Send(f[i], "state") \in Starts
      BY <3>1, OpsAreSteps DEF Starts, Known
    <3>4. g \in [1..Cardinality(dispatch) -> Starts]
      BY <3>3
    <3>5. g \in Seq(Starts) /\ Len(g) = Cardinality(dispatch)
      BY <3>2, <3>4
    <3>6. \A i \in 1..Len(g) : g[i].word = "state" /\ g[i].op = "send"
      BY <3>5 DEF Send, Op
    <3> QED  BY <3>5, <3>6, OwnWords DEF Plain
  <2>3. todo = <<>> \/ AtBox
    BY <1>10 DEF Broadcast, Ticking, Pumping
  <2>4. UNCHANGED <<main, handle, dispatch>>
    BY <1>10 DEF Broadcast, slotVars
  <2> HIDE DEF g
  <2> QED  BY <1>1, <1>2, <1>3, <2>1, <2>2, <2>3, <2>4, QuietStep DEF g
<1> QED  BY <1>6, <1>7, <1>8, <1>9, <1>10

LEMMA DeathStays ==
  ASSUME DeathInv,
         UNCHANGED <<todo, dispatch, handle, running, pending, buried, told, slotOf, main, inbox,
                     graves, client, server, buffer, worker, link, peer>>
  PROVE  DeathInv'
<1>1. Uninterrupted(todo') /\ Addressed(todo') /\ Attached' /\ WaitsOnce'
  BY DEF DeathInv, Attached, KitWasThere, Ending, WaitsOnce
<1>2. \A c : Safe(c) => Safe(c)'
  BY DEF Safe, GivenTo, Lost, Ending
<1>3. ClearedIsSent'
  BY <1>2 DEF DeathInv, ClearedIsSent
<1>4. InboxTold' /\ StaleForId' /\ BufferIsSent' /\ NoComplaint'
  BY DEF DeathInv, InboxTold, StaleForId, BufferIsSent, NoComplaint
<1>5. SendReaches'
  BY DEF DeathInv, SendReaches, Ending, IsThere
<1>6. DeathKept'
  <2>1. \A c \in buried : c \in ToSet(pending) \/ Named(todo, c) \/ Safe(c)
    BY KeptIs DEF DeathInv
  <2> QED  BY <1>2, <2>1, KeptThen
<1> QED  BY <1>1, <1>3, <1>4, <1>5, <1>6 DEF DeathInv

LEMMA CloseKeeps ==
  ASSUME KitInv, PipeInv, DeathInv, Close
  PROVE  DeathInv'
<1>1. /\ todo = <<>> /\ NotSending /\ handle' = [s \in Slots |-> None]
      /\ main' = Terminated({handle[s] : s \in Slots}) /\ main \in [Procs -> Phases]
      /\ UNCHANGED <<todo, link, peer, inbox, graves, buffer, client, server, slotOf, told,
                     pending, buried>>
  BY DEF Close, Clickable, NotSending, sendVars, deathVars, kitVars, pipeVars, KitInv, GameSide
<1>2. link = "idle"
  BY <1>1, NotSendingIdle
<1>3. /\ \A p \in Procs : Ending(p) => Ending(p)'
      /\ \A p \in Procs : main[p] # "none" => slotOf'[p] = slotOf[p] /\ main'[p] # "none"
      /\ \A p \in Procs : main'[p] = "complaining" => main[p] = "complaining"
  BY <1>1 DEF Terminated, Ending, Gone
<1>4. /\ \A c : Safe(c) => Safe(c)'
      /\ InboxTold' /\ SendReaches' /\ BufferIsSent' /\ NoComplaint'
  BY <1>1, <1>2, <1>3, IdleParts
<1>5. StaleForId'
  BY <1>1 DEF StaleForId
<1>6. Uninterrupted(todo') /\ Addressed(todo') /\ Attached' /\ ClearedIsSent' /\ WaitsOnce'
  BY <1>1 DEF DeathInv, Attached, ClearedIsSent, WaitsOnce
<1>7. DeathKept'
  <2>1. \A c \in buried : c \in ToSet(pending) \/ Named(todo, c) \/ Safe(c)
    BY KeptIs DEF DeathInv
  <2> QED  BY <1>1, <1>4, <2>1, KeptThen
<1> QED  BY <1>4, <1>5, <1>6, <1>7 DEF DeathInv

LEMMA TellKeeps ==
  ASSUME KitInv, PipeInv, DeathInv, TellKit
  PROVE  DeathInv'
<1>1. /\ todo # <<>> /\ Head(todo).op = "tell" /\ NotSending /\ running
      /\ UNCHANGED <<link, peer, inbox, graves, buffer, client, server, slotOf, main, handle,
                     dispatch, pending, buried, running>>
  BY DEF TellKit, NotSending, slotVars, queueVars, deathVars, kitVars, pipeVars
<1>2. link = "idle"
  BY <1>1, NotSendingIdle
<1>3. PICK c : c = Head(todo).word
  OBVIOUS
<1>4. CASE Funeral \in dispatch
  <2>1. told' = told /\ todo' = <<Send(Funeral, c)>> \o Tail(todo)
    BY <1>3, <1>4 DEF TellKit
  <2>2. /\ \A d : Safe(d) => Safe(d)'
        /\ KitWasThere'
        /\ InboxTold' /\ SendReaches' /\ BufferIsSent' /\ NoComplaint' /\ StaleForId'
    BY <1>1, <1>2, <1>4, <2>1, SameSlots DEF KitWasThere
  <2> DEFINE f == <<Send(Funeral, c)>>
             r == Tail(todo)
  <2>3. r \in Seq(Starts) /\ Loose(r) /\ Addressed(r)
        /\ \A d : Named(todo, d) <=> c = d \/ Named(r, d)
    BY <1>1, <1>3, Behind
  <2>4. Send(Funeral, c) \in Starts /\ c \in Deaths
    <3>1. Head(todo) \in Steps /\ buried \subseteq Deaths
      BY <1>1, HeadTail DEF KitInv, WordSide
    <3>2. c \in buried
      BY <1>1, <1>3, <3>1, WordOfStep
    <3> QED  BY <3>1, <3>2, OpsAreSteps, OwnWords, SlotsAssumption DEF Starts
  <2>5. /\ f \in Seq(Starts) /\ Len(f) = 1 /\ f[1].op = "send" /\ f[1].word = c
        /\ f[1].slot = Funeral
    BY <2>4 DEF Send, Op
  <2>6. Uninterrupted(f) /\ Addressed(f)
    BY <2>5 DEF Uninterrupted, Addressed
  <2> HIDE DEF f, r
  <2>7. Named(todo', c) /\ \A d : Named(r, d) => Named(todo', d)
    <3>1. todo' = f \o r
      BY <2>1 DEF f, r
    <3>2. Named(f, c)
      BY <2>5 DEF Named
    <3> QED  BY <2>3, <2>5, <3>1, <3>2, NamedJoined
  <2>8. Uninterrupted(todo') /\ Addressed(todo') /\ Attached' /\ ClearedIsSent'
    <3>1. todo' = f \o r
      BY <2>1 DEF f, r
    <3>2. \A k \in 1..Len(f) : f[k].op # "clear"
      BY <2>5
    <3> QED  BY <1>1, <1>4, <2>2, <2>3, <2>5, <2>6, <3>1, <3>2, TodoIs
  <2>9. WaitsOnce'
    BY <1>1 DEF DeathInv, WaitsOnce
  <2>10. DeathKept'
    <3>1. \A d \in buried : d \in ToSet(pending) \/ Named(todo, d) \/ Safe(d)
      BY KeptIs DEF DeathInv
    <3> QED  BY <1>1, <2>2, <2>3, <2>7, <3>1, KeptThen
  <2> QED  BY <2>2, <2>8, <2>9, <2>10 DEF DeathInv
<1>5. CASE Funeral \notin dispatch
  <2>1. told' = told \cup {<<None, c, FALSE>>} /\ todo' = Tail(todo)
    BY <1>3, <1>5 DEF TellKit
  <2>2. todo' = <<>> \o Tail(todo)
    BY <1>1, <2>1, StartsAre, TailIs, NothingInFront
  <2>3. PICK p \in Procs : slotOf[p] = Funeral /\ Ending(p)
    <3>1. Head(todo) # LaunchOf(Funeral) /\ Head(todo) = todo[1] /\ 1 \in 1..Len(todo)
      BY <1>1, StartsAre, TailIs DEF LaunchOf, Op
    <3> QED  BY <1>1, <1>5, <3>1 DEF DeathInv, Attached, KitWasThere
  <2>4. Safe(c)'
    BY <1>1, <2>1, <2>3 DEF Safe, Lost, TellResults, Ending
  <2>5. \A d \in Deaths : Head(todo).word = d => Safe(d)'
    BY <1>3, <2>4
  <2> QED  BY <1>1, <1>2, <2>1, <2>2, <2>5, PlainSteps, QuietStep
<1> QED  BY <1>4, <1>5

\* A flush sends each word that waits before it clears them.
LEMMA FlushIs ==
  ASSUME KitInv, DeathInv, Funeral \in dispatch
  PROVE  /\ Flushed \in Seq(Starts) /\ Uninterrupted(Flushed) /\ Addressed(Flushed)
         /\ ~HasTell(Flushed)
         /\ \A k \in 1..Len(Flushed) : Flushed[k].op = "clear" =>
              \A c \in ToSet(pending) : \E i \in 1..k - 1 : Flushed[i].word = c
<1> DEFINE f == [i \in 1..Len(pending) |-> Send(Funeral, pending[i])]
           n == Len(pending)
<1>1. pending \in Seq(buried) /\ buried \subseteq Deaths /\ n \in Nat
  BY DEF KitInv, WordSide
<1>2. \A i \in 1..n : Send(Funeral, pending[i]) \in Starts
  <2>1. \A i \in 1..n : pending[i] \in Known \ {"none"}
    BY <1>1, OpsAreSteps, OwnWords
  <2> QED  BY <2>1, OpsAreSteps, SlotsAssumption DEF Starts
<1>3. Clear \in Starts /\ Clear.op = "clear" /\ Clear.word = "none"
  BY OpsAreSteps DEF Starts, Clear, Op
<1>4. f \in Seq(Starts) /\ Len(f) = n /\ \A i \in 1..n : f[i] = Send(Funeral, pending[i])
  BY <1>1, <1>2
<1>5. Flushed = f \o <<Clear>>
  BY DEF Flushed
<1>6. \A i \in 1..n : f[i].op = "send" /\ f[i].slot = Funeral /\ f[i].word = pending[i]
  BY <1>4 DEF Send, Op
<1> HIDE DEF f
<1>7. /\ Flushed \in Seq(Starts) /\ Len(Flushed) = n + 1 /\ Flushed[n + 1] = Clear
      /\ \A i \in 1..n : Flushed[i] = f[i]
  BY <1>1, <1>3, <1>4, <1>5
<1>8. \A c \in ToSet(pending) : \E i \in 1..n : Flushed[i].word = c
  BY <1>1, <1>6, <1>7 DEF ToSet
<1> HIDE DEF n
<1>9. \A k \in 1..n + 1 : k \in 1..n \/ k = n + 1
  BY <1>1 DEF n
<1>10. Uninterrupted(Flushed)
  <2> SUFFICES ASSUME NEW k \in 1..n + 1, NEW i \in 1..k - 1
               PROVE  Flushed[i].op = "send"
    BY <1>7 DEF Uninterrupted
  <2>1. i \in 1..n
    BY <1>1 DEF n
  <2> QED  BY <1>6, <1>7, <2>1
<1>11. Addressed(Flushed)
  BY <1>3, <1>6, <1>7, <1>9, OwnWords DEF Addressed
<1>12. ~HasTell(Flushed)
  BY <1>3, <1>6, <1>7, <1>9 DEF HasTell
<1>13. ASSUME NEW k \in 1..Len(Flushed), Flushed[k].op = "clear"
       PROVE  \A c \in ToSet(pending) : \E i \in 1..k - 1 : Flushed[i].word = c
  <2>1. k = n + 1
    BY <1>6, <1>7, <1>9, <1>13
  <2>2. k - 1 = n
    BY <1>1, <2>1 DEF n
  <2> QED  BY <1>8, <2>2
<1> QED  BY <1>7, <1>10, <1>11, <1>12, <1>13

LEMMA FlushKeeps ==
  ASSUME KitInv, PipeInv, DeathInv, FlushWords
  PROVE  DeathInv'
<1>1. /\ todo # <<>> /\ Head(todo).op = "flush" /\ NotSending /\ running
      /\ UNCHANGED <<link, peer, inbox, graves, buffer, client, server, slotOf, main, handle,
                     dispatch, pending, buried, running, told>>
      /\ todo' = Flushed \o Tail(todo)
  BY DEF FlushWords, NotSending, slotVars, queueVars, sendVars, deathVars, kitVars, pipeVars
<1>2. link = "idle"
  BY <1>1, NotSendingIdle
<1>3. CASE Funeral \notin dispatch
  <2>1. todo' = <<>> \o Tail(todo)
    BY <1>1, <1>3 DEF Flushed
  <2>2. \A c \in Deaths : Head(todo).word # c
    BY <1>1, Behind
  <2> QED  BY <1>1, <1>2, <2>1, <2>2, PlainSteps, QuietStep
<1>4. CASE Funeral \in dispatch
  <2>1. /\ \A d : Safe(d) => Safe(d)'
        /\ KitWasThere'
        /\ InboxTold' /\ SendReaches' /\ BufferIsSent' /\ NoComplaint' /\ StaleForId'
    BY <1>1, <1>2, <1>4, SameSlots DEF KitWasThere
  <2>2. /\ Tail(todo) \in Seq(Starts) /\ Loose(Tail(todo)) /\ Addressed(Tail(todo))
        /\ \A d \in Deaths : Named(todo, d) => Named(Tail(todo), d)
    BY <1>1, Behind
  <2>3. /\ Flushed \in Seq(Starts) /\ Uninterrupted(Flushed) /\ Addressed(Flushed)
        /\ \A k \in 1..Len(Flushed) : Flushed[k].op = "clear" =>
             \A c \in ToSet(pending) : \E i \in 1..k - 1 : Flushed[i].word = c
    BY <1>4, FlushIs
  <2>4. \A d \in Deaths : Named(todo, d) => Named(todo', d)
    BY <1>1, <2>2, <2>3, NamedJoined
  <2>5. Uninterrupted(todo') /\ Addressed(todo') /\ Attached' /\ ClearedIsSent'
    <3>1. PICK f : f = Flushed
      OBVIOUS
    <3>2. PICK r : r = Tail(todo)
      OBVIOUS
    <3>3. PICK w : w = ToSet(pending)
      OBVIOUS
    <3>4. /\ f \in Seq(Starts) /\ Uninterrupted(f) /\ Addressed(f)
          /\ r \in Seq(Starts) /\ Loose(r) /\ Addressed(r) /\ todo' = f \o r
          /\ \A k \in 1..Len(f) : f[k].op = "clear" => \A c \in w : \E i \in 1..k - 1 : f[i].word = c
      BY <1>1, <2>2, <2>3, <3>1, <3>2, <3>3
    <3>5. w = ToSet(pending')
      BY <1>1, <3>3
    <3>6. Funeral \in dispatch' /\ running'
      BY <1>1, <1>4
    <3> QED  BY <2>1, <3>4, <3>5, <3>6, TodoIs
  <2>6. WaitsOnce'
    BY <1>1 DEF DeathInv, WaitsOnce
  <2>7. DeathKept'
    <3>1. \A d \in buried : d \in ToSet(pending) \/ Named(todo, d) \/ Safe(d)
      BY KeptIs DEF DeathInv
    <3>2. buried \subseteq Deaths
      BY DEF KitInv, WordSide
    <3> QED  BY <1>1, <2>1, <2>4, <3>1, <3>2, KeptThen
  <2> QED  BY <2>1, <2>5, <2>6, <2>7 DEF DeathInv
<1> QED  BY <1>3, <1>4

LEMMA ClearKeeps ==
  ASSUME KitInv, PipeInv, DeathInv, ClearWords
  PROVE  DeathInv'
<1>1. /\ todo # <<>> /\ Head(todo).op = "clear" /\ NotSending /\ running /\ pending' = <<>>
      /\ UNCHANGED <<link, peer, inbox, graves, buffer, client, server, slotOf, main, handle,
                     dispatch, buried, running, told>>
      /\ todo' = Tail(todo)
  BY DEF ClearWords, NotSending, slotVars, queueVars, sendVars, kitVars, pipeVars
<1>2. link = "idle"
  BY <1>1, NotSendingIdle
<1>3. /\ \A d : Safe(d) => Safe(d)'
      /\ KitWasThere => KitWasThere'
      /\ InboxTold' /\ SendReaches' /\ BufferIsSent' /\ NoComplaint' /\ StaleForId'
  BY <1>1, <1>2, SameSlots
<1>4. /\ todo' = <<>> \o Tail(todo)
      /\ Head(todo) # LaunchOf(Funeral)
  BY <1>1, StartsAre, TailIs, NothingInFront DEF LaunchOf, Op
<1>5. /\ Tail(todo) \in Seq(Starts) /\ Loose(Tail(todo)) /\ Addressed(Tail(todo))
      /\ HasTell(Tail(todo)) => KitWasThere'
      /\ \A d \in Deaths : Named(todo, d) => Named(Tail(todo), d)
  BY <1>1, <1>3, <1>4, Behind
<1>6. /\ Uninterrupted(todo') /\ Addressed(todo') /\ Attached' /\ ClearedIsSent'
      /\ \A d \in Deaths : Named(Tail(todo), d) => Named(todo', d)
  BY <1>4, <1>5, PlainSteps, PlainFront
<1>7. WaitsOnce'
  BY <1>1 DEF WaitsOnce
<1>8. \A c \in ToSet(pending) : Safe(c)
  <2>1. todo[1].op = "clear" /\ 1 \in 1..Len(todo)
    BY <1>1, StartsAre, TailIs
  <2> QED  BY <2>1 DEF DeathInv, ClearedIsSent
<1>9. DeathKept'
  <2>1. \A d \in buried : d \in ToSet(pending) \/ Named(todo, d) \/ Safe(d)
    BY KeptIs DEF DeathInv
  <2>2. buried \subseteq Deaths
    BY DEF KitInv, WordSide
  <2> QED  BY <1>1, <1>3, <1>5, <1>6, <1>8, <2>1, <2>2, KeptThen
<1> QED  BY <1>3, <1>6, <1>7, <1>9 DEF DeathInv

-----------------------------------------------------------------------------
(* A send *)

LEMMA SendReturned ==
  ASSUME KitInv, DeathInv, running, todo # <<>>, Head(todo).op = "send", todo' = Tail(todo),
         UNCHANGED <<dispatch, running, pending, buried>>, KitWasThere => KitWasThere',
         \A c \in Deaths : Safe(c) \/ Head(todo).word = c => Safe(c)'
  PROVE  /\ Uninterrupted(todo') /\ Addressed(todo') /\ Attached' /\ ClearedIsSent' /\ WaitsOnce'
         /\ DeathKept'
<1>1. todo \in Seq(Starts) /\ pending \in Seq(buried) /\ buried \subseteq Deaths
  BY StartsAre DEF KitInv, WordSide
<1>2. Uninterrupted(todo) /\ Addressed(todo) /\ Attached /\ ClearedIsSent /\ WaitsOnce
  BY DEF DeathInv
<1>3. Uninterrupted(todo') /\ Addressed(todo')
  BY <1>1, <1>2, TailUninterrupted
<1>4. \A k \in 1..Len(todo') : k + 1 \in 1..Len(todo) /\ todo'[k] = todo[k + 1]
  BY <1>1, TailIs
<1>5. Attached'
  <2> SUFFICES ASSUME NEW k \in 1..Len(todo')
               PROVE  /\ DeathSend(todo'[k]) => (Funeral \in dispatch /\ running)'
                      /\ todo'[k].op = "tell" => KitWasThere'
    BY DEF Attached, LaunchOf, Op, DeathSend
  <2>1. /\ DeathSend(todo[k + 1]) => Funeral \in dispatch
        /\ todo[k + 1].op = "tell" => KitWasThere \/ Head(todo) = LaunchOf(Funeral)
    BY <1>2, <1>4 DEF Attached
  <2>2. Head(todo) # LaunchOf(Funeral)
    BY DEF LaunchOf, Op
  <2> QED  BY <1>4, <2>1, <2>2
<1>6. ClearedIsSent'
  <2> SUFFICES ASSUME NEW k \in 1..Len(todo'), todo'[k].op = "clear", NEW c \in ToSet(pending)
               PROVE  (\E i \in 1..k - 1 : todo'[i].word = c) \/ Safe(c)'
    BY DEF ClearedIsSent
  <2>1. c \in Deaths
    BY <1>1 DEF ToSet
  <2>2. (\E i \in 1..(k + 1) - 1 : todo[i].word = c) \/ Safe(c)
    BY <1>2, <1>4 DEF ClearedIsSent
  <2>3. ASSUME NEW i \in 1..(k + 1) - 1, todo[i].word = c
        PROVE  (\E j \in 1..k - 1 : todo'[j].word = c) \/ Safe(c)'
    <3>1. CASE i = 1
      BY <1>1, <2>1, <2>3, <3>1, TailIs
    <3>2. CASE i # 1
      <4>1. i - 1 \in 1..k - 1 /\ i - 1 \in 1..Len(todo') /\ (i - 1) + 1 = i
        BY <1>1, <3>2, TailIs
      <4>2. todo'[i - 1] = todo[i]
        BY <1>4, <4>1
      <4> QED  BY <2>3, <4>1, <4>2
    <3> QED  BY <3>1, <3>2
  <2> QED  BY <2>1, <2>2, <2>3
<1>7. WaitsOnce'
  BY <1>2 DEF WaitsOnce
<1>8. DeathKept'
  <2>1. \A d \in buried : d \in ToSet(pending) \/ Named(todo, d) \/ Safe(d)
    BY KeptIs DEF DeathInv
  <2>2. \A d : Named(todo, d) => Head(todo).word = d \/ Named(todo', d)
    BY <1>1, NamedTail
  <2> QED  BY <1>1, <2>1, <2>2, KeptThen
<1> QED  BY <1>3, <1>5, <1>6, <1>7, <1>8

\* A death is sent to the process that the slot holds.
LEMMA DeathGoesTo ==
  ASSUME KitInv, DeathInv, todo # <<>>, Head(todo).op = "send", Head(todo).word \in Deaths
  PROVE  /\ Head(todo).slot = Funeral /\ Funeral \in dispatch /\ running
         /\ handle[Funeral] \in Procs /\ slotOf[handle[Funeral]] = Funeral
<1>1. Head(todo) = todo[1] /\ 1 \in 1..Len(todo)
  BY StartsAre, TailIs
<1>2. Head(todo).slot = Funeral /\ Funeral \in dispatch /\ running
  BY <1>1 DEF DeathInv, Addressed, Attached, DeathSend
<1> QED  BY <1>2, SlotsAssumption DEF KitInv, GameSide, Synced, Owned

LEMMA ReturnsTell ==
  ASSUME NEW p, NEW ok \in BOOLEAN, Returns(p, ok)
  PROVE  /\ told \subseteq told' /\ todo' = Tail(todo) /\ link' = "idle"
         /\ \A c \in Deaths : Head(todo).word = c => <<p, c, ok>> \in told'
BY DEF Returns

LEMMA SendFailsHolds ==
  ASSUME KitInv, DeathInv, running, NEW s \in Slots, todo # <<>>, Head(todo).op = "send",
         Head(todo).slot = s, Returns(handle[s], FALSE), link # "flush",
         UNCHANGED <<dispatch, handle, running, pending, buried, inbox, graves, slotOf, main,
                     client, server, buffer>>,
         link = "idle" => client[s] # "free",
         Head(todo).word \in Deaths => Ending(handle[s])
  PROVE  DeathInv'
<1>1. /\ told \subseteq told' /\ todo' = Tail(todo) /\ link' = "idle"
      /\ \A c \in Deaths : Head(todo).word = c => <<handle[s], c, FALSE>> \in told'
  BY ReturnsTell
<1>2. \A p \in Procs : Ending(p) => Ending(p)'
  BY DEF Ending
<1>3. \A c : Safe(c) => Safe(c)'
  BY <1>1, <1>2, SafeStays
<1>4. ASSUME NEW c \in Deaths, Head(todo).word = c PROVE Safe(c)'
  <2>1. s = Funeral /\ handle[s] \in Procs /\ slotOf[handle[s]] = Funeral /\ Ending(handle[s])
    BY <1>4, DeathGoesTo
  <2>2. PICK p \in Procs : p = handle[s]
    BY <2>1
  <2>3. Ending(p)' /\ slotOf'[p] = Funeral /\ <<p, c, FALSE>> \in told'
    BY <1>1, <1>2, <1>4, <2>1, <2>2
  <2> QED  BY <2>3 DEF Safe, Lost, TellResults
<1>5. KitWasThere => KitWasThere'
  BY DEF KitWasThere, Ending
<1>6. /\ Uninterrupted(todo') /\ Addressed(todo') /\ Attached' /\ ClearedIsSent' /\ WaitsOnce'
      /\ DeathKept'
  BY <1>1, <1>3, <1>4, <1>5, SendReturned
<1>7. InboxTold'
  BY <1>1 DEF DeathInv, InboxTold
<1>8. StaleForId'
  <2>1. \A t \in Slots : ~(client[t] = "free" /\ handle[t] \notin {None, server[t]})
    BY DEF DeathInv, StaleForId, Send, Op
  <2> QED  BY <2>1 DEF StaleForId
<1>9. SendReaches' /\ NoComplaint'
  BY <1>1 DEF DeathInv, SendReaches, NoComplaint
<1>10. BufferIsSent'
  BY DEF DeathInv, BufferIsSent
<1> QED  BY <1>6, <1>7, <1>8, <1>9, <1>10 DEF DeathInv

LEMMA ConnectHolds ==
  ASSUME KitInv, PipeInv, DeathInv, NEW s \in Slots, Connect(s)
  PROVE  DeathInv'
<1>1. /\ todo # <<>> /\ Head(todo).op = "send" /\ Head(todo).slot = s /\ link = "idle" /\ running
      /\ client[s] = "free" /\ link' = "open" /\ peer' = server[s]
      /\ client' = [client EXCEPT ![s] = "game"]
      /\ UNCHANGED <<todo, dispatch, handle, running, pending, buried, inbox, graves, slotOf, main,
                     server, buffer, told>>
  BY DEF Connect, Sending, slotVars, queueVars, deathVars, kitVars
<1>2. client'[s] = "game" /\ \A t \in Slots : t # s => client'[t] = client[t]
  BY <1>1 DEF KitInv, RestSide
<1>3. /\ \A c : Safe(c) => Safe(c)'
      /\ KitWasThere => KitWasThere'
  BY <1>1 DEF Safe, GivenTo, Lost, KitWasThere, Ending
<1>4. Uninterrupted(todo') /\ Addressed(todo') /\ Attached' /\ ClearedIsSent' /\ WaitsOnce'
  BY <1>1, <1>3 DEF DeathInv, Attached, ClearedIsSent, WaitsOnce
<1>5. DeathKept'
  <2>1. \A d \in buried : d \in ToSet(pending) \/ Named(todo, d) \/ Safe(d)
    BY KeptIs DEF DeathInv
  <2> QED  BY <1>1, <1>3, <2>1, KeptThen
<1>6. InboxTold' /\ BufferIsSent' /\ NoComplaint'
  BY <1>1 DEF DeathInv, InboxTold, BufferIsSent, NoComplaint
<1>7. StaleForId'
  <2>1. \A t \in Slots : t # s => ~(client[t] = "free" /\ handle[t] \notin {None, server[t]})
    BY <1>1 DEF DeathInv, StaleForId, Send, Op
  <2> QED  BY <1>1, <1>2, <2>1 DEF StaleForId
<1>8. SendReaches'
  <2> SUFFICES ASSUME Head(todo).word \in Deaths
               PROVE  peer' = handle'[Funeral] /\ client'[Funeral] = "game"
    BY <1>1 DEF SendReaches
  <2>1. s = Funeral /\ handle[s] \in Procs
    BY <1>1, DeathGoesTo
  <2>2. Head(todo) # Send(s, "id")
    BY OwnWords DEF Send, Op
  <2>3. handle[s] \in {None, server[s]}
    BY <1>1, <2>2 DEF DeathInv, StaleForId
  <2> QED  BY <1>1, <1>2, <2>1, <2>3, NoneAssumption
<1> QED  BY <1>4, <1>5, <1>6, <1>7, <1>8 DEF DeathInv

LEMMA GiveUpHolds ==
  ASSUME KitInv, PipeInv, DeathInv, NothingHinders, NEW s \in Slots, GiveUp(s)
  PROVE  DeathInv'
<1>1. /\ running /\ todo # <<>> /\ Head(todo).op = "send" /\ Head(todo).slot = s
      /\ link = "idle" /\ client[s] # "free" /\ Overdue(s) /\ Returns(handle[s], FALSE)
      /\ UNCHANGED <<dispatch, handle, running, pending, buried, inbox, graves, slotOf, main,
                     client, server, buffer>>
  BY DEF GiveUp, Sending, SendFails, deathVars, kitVars, pipeVars
<1>2. Head(todo).word \in Deaths => Ending(handle[s])
  <2> SUFFICES ASSUME Head(todo).word \in Deaths PROVE Ending(handle[s])
    OBVIOUS
  <2>1. s = Funeral /\ handle[s] \in Procs
    BY <1>1, DeathGoesTo
  <2>2. Prompt
    BY DEF Prompt, NothingHinders
  <2> QED  BY <1>1, <2>1, <2>2, NoneAssumption DEF Overdue, Ending
<1> QED  BY <1>1, <1>2, SendFailsHolds

LEMMA WriteHolds ==
  ASSUME KitInv, PipeInv, DeathInv, NEW s \in Slots, Write(s)
  PROVE  DeathInv'
<1>1. /\ running /\ todo # <<>> /\ Head(todo).op = "send" /\ Head(todo).slot = s /\ link = "open"
      /\ UNCHANGED <<dispatch, handle, running, pending, buried, inbox, graves, slotOf, main,
                     client, server, worker>>
  BY DEF Write, Sending, deathVars, kitVars, threadVars
<1>2. CASE client[s] # "game"
  <2>1. Returns(handle[s], FALSE) /\ UNCHANGED buffer
    BY <1>2 DEF Write, SendFails
  <2>2. Head(todo).word \in Deaths => Ending(handle[s])
    BY <1>1, <1>2, DeathGoesTo DEF DeathInv, SendReaches
  <2> QED  BY <1>1, <2>1, <2>2, SendFailsHolds
<1>3. CASE client[s] = "game"
  <2>1. /\ buffer' = [buffer EXCEPT ![s] = Head(todo).word] /\ link' = "flush"
        /\ UNCHANGED <<todo, peer, told>>
    BY <1>3 DEF Write
  <2>2. buffer'[s] = Head(todo).word /\ \A t \in Slots : t # s => buffer'[t] = buffer[t]
    BY <2>1 DEF KitInv, WordSide
  <2>3. /\ \A c : Safe(c) => Safe(c)'
        /\ KitWasThere => KitWasThere'
    BY <1>1, <2>1 DEF Safe, GivenTo, Lost, KitWasThere, Ending
  <2>4. Uninterrupted(todo') /\ Addressed(todo') /\ Attached' /\ ClearedIsSent' /\ WaitsOnce'
    BY <1>1, <2>1, <2>3 DEF DeathInv, Attached, ClearedIsSent, WaitsOnce
  <2>5. DeathKept'
    <3>1. \A d \in buried : d \in ToSet(pending) \/ Named(todo, d) \/ Safe(d)
      BY KeptIs DEF DeathInv
    <3> QED  BY <1>1, <2>1, <2>3, <3>1, KeptThen
  <2>6. InboxTold' /\ NoComplaint'
    BY <1>1, <2>1 DEF DeathInv, InboxTold, NoComplaint
  <2>7. BufferIsSent'
    BY <1>1, <2>1, <2>2 DEF DeathInv, BufferIsSent
  <2>8. StaleForId'
    <3>1. \A t \in Slots : ~(client[t] = "free" /\ handle[t] \notin {None, server[t]})
      BY <1>1 DEF DeathInv, StaleForId
    <3> QED  BY <1>1, <3>1 DEF StaleForId
  <2>9. SendReaches'
    <3> SUFFICES ASSUME Head(todo).word \in Deaths
                 PROVE  IsThere(Funeral, Head(todo).word)'
      BY <2>1 DEF SendReaches
    <3>1. s = Funeral
      BY <1>1, DeathGoesTo
    <3>2. worker[peer] \in {"waiting", "reading"}
      BY <1>1, <1>3 DEF PipeInv, Held, Opened
    <3>3. client'[Funeral] = "game" /\ worker'[peer'] \in {"waiting", "reading"}
          /\ buffer'[Funeral] = Head(todo').word
      BY <1>1, <1>3, <2>1, <2>2, <3>1, <3>2
    <3> QED  BY <3>3 DEF IsThere
  <2> QED  BY <2>4, <2>5, <2>6, <2>7, <2>8, <2>9 DEF DeathInv
<1> QED  BY <1>2, <1>3

LEMMA SendEndsHolds ==
  ASSUME KitInv, PipeInv, DeathInv, NEW s \in Slots, SendEnds(s)
  PROVE  DeathInv'
<1>1. /\ running /\ todo # <<>> /\ Head(todo).op = "send" /\ Head(todo).slot = s /\ link = "flush"
      /\ Drained(s) /\ Returns(peer, TRUE)
      /\ client' = [client EXCEPT ![s] = IF client[s] = "game" THEN "left" ELSE client[s]]
      /\ UNCHANGED <<dispatch, handle, running, pending, buried, inbox, graves, slotOf, main,
                     server, worker, buffer>>
  BY DEF SendEnds, Sending, slotVars, queueVars, deathVars, kitVars, threadVars
<1>2. /\ told \subseteq told' /\ todo' = Tail(todo) /\ link' = "idle"
      /\ \A c \in Deaths : Head(todo).word = c => <<peer, c, TRUE>> \in told'
  BY <1>1, ReturnsTell
<1>3. \A p \in Procs : Ending(p) => Ending(p)'
  BY <1>1 DEF Ending
<1>4. \A c : Safe(c) => Safe(c)'
  BY <1>1, <1>2, <1>3, SafeStays
<1>5. ASSUME NEW c \in Deaths, Head(todo).word = c PROVE Safe(c)'
  <2>1. s = Funeral
    BY <1>1, <1>5, DeathGoesTo
  <2>2. PICK p \in Procs : p = peer /\ slotOf[p] = Funeral
    BY <1>1, <2>1 DEF PipeInv, Held
  <2>3. Ending(p) \/ IsThere(Funeral, c) \/ c \in graves \cup ToSet(inbox[p])
    BY <1>1, <1>5, <2>2 DEF DeathInv, SendReaches
  <2>4. ~IsThere(Funeral, c)
    <3>1. c # "none"
      BY OwnWords
    <3> QED  BY <1>1, <2>1, <3>1 DEF IsThere, Drained
  <2>5. CASE Ending(p)
    <3>1. Ending(p)' /\ slotOf'[p] = Funeral /\ <<p, c, TRUE>> \in told'
      BY <1>1, <1>2, <1>3, <1>5, <2>2, <2>5
    <3> QED  BY <3>1 DEF Safe, Lost, TellResults
  <2>6. CASE c \in graves
    BY <1>1, <2>6 DEF Safe
  <2>7. CASE c \in ToSet(inbox[p])
    BY <1>1, <2>2, <2>7 DEF Safe, GivenTo
  <2> QED  BY <2>3, <2>4, <2>5, <2>6, <2>7
<1>6. KitWasThere => KitWasThere'
  BY <1>1 DEF KitWasThere, Ending
<1>7. /\ Uninterrupted(todo') /\ Addressed(todo') /\ Attached' /\ ClearedIsSent' /\ WaitsOnce'
      /\ DeathKept'
  BY <1>1, <1>2, <1>4, <1>5, <1>6, SendReturned
<1>8. InboxTold'
  <2> SUFFICES ASSUME NEW p \in Procs, NEW c \in ToSet(inbox[p]) \cap Deaths
               PROVE  <<p, c, TRUE>> \in told'
    BY <1>1 DEF DeathInv, InboxTold
  <2> QED  BY <1>2 DEF DeathInv, InboxTold
<1>9. StaleForId'
  <2>1. \A t \in Slots : ~(client[t] = "free" /\ handle[t] \notin {None, server[t]})
    BY <1>1 DEF DeathInv, StaleForId
  <2>2. \A t \in Slots : client'[t] = "free" => client[t] = "free"
    BY <1>1 DEF KitInv, RestSide
  <2> QED  BY <1>1, <2>1, <2>2 DEF StaleForId
<1>10. SendReaches' /\ NoComplaint'
  BY <1>1, <1>2 DEF DeathInv, SendReaches, NoComplaint
<1>11. BufferIsSent'
  <2> SUFFICES ASSUME NEW t \in Slots, buffer[t] # "none" PROVE FALSE
    BY <1>1 DEF BufferIsSent
  <2>1. client[t] = "game" /\ Head(todo).slot = t
    BY DEF PipeInv, PipeSide
  <2> QED  BY <1>1, <2>1 DEF Drained
<1> QED  BY <1>7, <1>8, <1>9, <1>10, <1>11 DEF DeathInv

-----------------------------------------------------------------------------
(* The kits *)

\* A word that leaves a kit's window unrecorded is known to have been sent, or is
\* still named by the send that is going on.
LEMMA KitsForgetNot ==
  ASSUME KitInv, PipeInv, DeathInv,
         UNCHANGED <<todo, dispatch, running, pending, buried, slotOf>>,
         \A q \in Procs : Ending(q) => Ending(q)',
         \A c \in Deaths : Safe(c) => Safe(c)' \/ (link = "flush" /\ Head(todo).word = c)
  PROVE  /\ Uninterrupted(todo') /\ Addressed(todo') /\ Attached' /\ ClearedIsSent' /\ WaitsOnce'
         /\ DeathKept'
<1>1. /\ todo \in Seq(Starts) /\ pending \in Seq(buried) /\ buried \subseteq Deaths
      /\ Uninterrupted(todo) /\ Addressed(todo) /\ Attached /\ ClearedIsSent /\ WaitsOnce
  BY StartsAre DEF KitInv, WordSide, DeathInv
<1>2. KitWasThere => KitWasThere'
  BY DEF KitWasThere
<1>3. Uninterrupted(todo') /\ Addressed(todo') /\ Attached' /\ WaitsOnce'
  BY <1>1, <1>2 DEF Attached, WaitsOnce
<1>4. link = "flush" => /\ todo # <<>> /\ todo[1].op = "send" /\ Head(todo) = todo[1]
                        /\ 1 \in 1..Len(todo)
  BY <1>1, TailIs DEF PipeInv, Held
<1>5. ClearedIsSent'
  <2> SUFFICES ASSUME NEW k \in 1..Len(todo), todo[k].op = "clear", NEW c \in ToSet(pending)
               PROVE  (\E i \in 1..k - 1 : todo[i].word = c) \/ Safe(c)'
    BY DEF ClearedIsSent
  <2>1. c \in Deaths
    BY <1>1 DEF ToSet
  <2>2. (\E i \in 1..k - 1 : todo[i].word = c) \/ Safe(c)
    BY <1>1 DEF ClearedIsSent
  <2>3. CASE link = "flush" /\ Head(todo).word = c
    <3>1. k # 1
      BY <1>4, <2>3
    <3>2. 1 \in 1..k - 1
      BY <1>1, <3>1
    <3> QED  BY <1>4, <2>3, <3>2
  <2> QED  BY <2>1, <2>2, <2>3
<1>6. DeathKept'
  <2>1. \A d \in buried : d \in ToSet(pending) \/ Named(todo, d) \/ Safe(d)
    BY KeptIs DEF DeathInv
  <2>2. \A d : link = "flush" /\ Head(todo).word = d => Named(todo, d)
    BY <1>4 DEF Named
  <2> QED  BY <1>1, <2>1, <2>2, KeptThen
<1> QED  BY <1>3, <1>5, <1>6

\* A kit's step that neither takes a word in nor gives one up.
LEMMA KitMoves ==
  ASSUME KitInv, PipeInv, DeathInv,
         UNCHANGED <<todo, dispatch, handle, running, pending, buried, told, link, peer, slotOf,
                     inbox, graves>>,
         \A q \in Procs : Ending(q) => Ending(q)',
         \A q \in Procs : main'[q] = "none" => main[q] = "none",
         NoComplaint',
         \A s \in Slots : buffer'[s] \in {buffer[s], "none"},
         \A s \in Slots : client'[s] = "free" =>
           \/ client[s] = "free" /\ server'[s] = server[s]
           \/ server'[s] = handle[s],
         \A q \in Procs :
           q = peer /\ client[Funeral] = "game" /\ worker[q] \in {"waiting", "reading"} =>
             \/ Ending(q)'
             \/ /\ client'[Funeral] = "game" /\ buffer'[Funeral] = buffer[Funeral]
                /\ worker'[q] \in {"waiting", "reading"}
  PROVE  DeathInv'
<1>1. \A c \in Deaths : Safe(c) => Safe(c)' \/ (link = "flush" /\ Head(todo).word = c)
  BY SafeStays
<1>2. /\ Uninterrupted(todo') /\ Addressed(todo') /\ Attached' /\ ClearedIsSent' /\ WaitsOnce'
      /\ DeathKept'
  BY <1>1, KitsForgetNot
<1>3. InboxTold'
  BY DEF DeathInv, InboxTold
<1>4. StaleForId'
  BY DEF DeathInv, StaleForId
<1>5. BufferIsSent'
  BY DEF DeathInv, BufferIsSent
<1>6. SendReaches'
  <2> SUFFICES ASSUME link # "idle", NEW c \in Deaths, c = Head(todo).word
               PROVE  /\ link = "open" =>
                           peer = handle[Funeral] /\ (Ending(peer)' \/ client'[Funeral] = "game")
                      /\ link = "flush" =>
                           \/ Ending(peer)' \/ IsThere(Funeral, c)'
                           \/ c \in graves \cup ToSet(inbox[peer])
    BY DEF SendReaches
  <2>1. PICK q \in Procs : q = peer
    BY DEF PipeInv, Held
  <2>2. Ending(q) => Ending(peer)'
    BY <2>1 DEF Ending
  <2>3. Ending(q)' => Ending(peer)'
    BY <2>1 DEF Ending
  <2>4. Head(todo).slot = Funeral
    BY DeathGoesTo DEF PipeInv, Held
  <2>5. CASE link = "open"
    <3>1. peer = handle[Funeral] /\ (Ending(q) \/ client[Funeral] = "game")
      BY <2>1, <2>5 DEF DeathInv, SendReaches
    <3>2. client[Funeral] = "game" => worker[q] \in {"waiting", "reading"}
      BY <2>1, <2>4, <2>5 DEF PipeInv, Held, Opened
    <3> QED  BY <2>1, <2>2, <2>3, <2>5, <3>1, <3>2
  <2>6. CASE link = "flush"
    <3>1. Ending(q) \/ IsThere(Funeral, c) \/ c \in graves \cup ToSet(inbox[peer])
      BY <2>1, <2>6 DEF DeathInv, SendReaches
    <3>2. IsThere(Funeral, c) => Ending(q)' \/ IsThere(Funeral, c)'
      BY <2>1 DEF IsThere
    <3> QED  BY <2>2, <2>3, <2>6, <3>1, <3>2
  <2> QED  BY <2>5, <2>6 DEF RestSide
<1> QED  BY <1>2, <1>3, <1>4, <1>5, <1>6 DEF DeathInv

\* The pipe of a process and no other is closed by it.
LEMMA PipeClosed ==
  ASSUME KitInv, NEW p \in Procs, ClosePipe(p)
  PROVE  \A s \in Slots :
           \/ client'[s] = client[s] /\ server'[s] = server[s] /\ buffer'[s] = buffer[s]
           \/ /\ s = slotOf[p] /\ server[s] = p
              /\ client'[s] = "none" /\ server'[s] = None /\ buffer'[s] = "none"
BY DEF ClosePipe, KitInv, RestSide, WordSide, pipeVars

LEMMA KitMains ==
  ASSUME KitInv, DeathInv, NothingHinders, NEW p \in Procs, KitSteps(p)
  PROVE  /\ \A q \in Procs : Ending(q) => Ending(q)'
         /\ \A q \in Procs : main'[q] = "none" => main[q] = "none"
         /\ NoComplaint'
         /\ UNCHANGED <<todo, dispatch, handle, running, pending, buried, told, link, peer, slotOf>>
<1>1. UNCHANGED <<todo, dispatch, handle, running, pending, buried, told, link, peer, slotOf>>
  BY DEF KitSteps, PipeThread, TestStop, CreatePipe, Connected, Read, Reopen, StartServer, Start,
    HandleWord, RequestGameQuit, Stop, Wake, Join, Ends, slotVars, queueVars, sendVars, deathVars,
    kitVars
<1>2. main' = main \/ \E to \in {"leaving", "open", "waking", "joining", "ended", "dead"} :
         /\ main' = [main EXCEPT ![p] = to]
         /\ Ending(p) => to \in Leaving \cup Gone
  <2>1. "complaint" \notin Faults
    BY DEF NothingHinders
  <2>2. CASE PipeThread(p) \/ StartServer(p) \/ HandleWord(p)
    BY <2>2 DEF PipeThread, TestStop, CreatePipe, Connected, Read, Reopen, StartServer, HandleWord
  <2>3. CASE Start(p)
    BY <2>1, <2>3 DEF Start, Goes, Ending, Leaving, Gone
  <2>4. CASE RequestGameQuit(p) \/ Stop(p) \/ Wake(p) \/ Join(p)
    BY <2>4 DEF RequestGameQuit, Stop, Wake, Join, Goes, Leaving, Gone
  <2>5. CASE Ends(p)
    BY <2>5 DEF Ends, Goes, Leaving, Gone
  <2> QED  BY <2>2, <2>3, <2>4, <2>5 DEF KitSteps
<1>3. main \in [Procs -> Phases] /\ NoComplaint
  BY DEF KitInv, GameSide, DeathInv
<1>4. CASE main' = main
  BY <1>1, <1>3, <1>4 DEF Ending, NoComplaint
<1>5. ASSUME NEW to \in {"leaving", "open", "waking", "joining", "ended", "dead"},
             main' = [main EXCEPT ![p] = to], Ending(p) => to \in Leaving \cup Gone
      PROVE  /\ \A q \in Procs : Ending(q) => Ending(q)'
             /\ \A q \in Procs : main'[q] = "none" => main[q] = "none"
             /\ NoComplaint'
  <2>1. main'[p] = to /\ \A q \in Procs : q # p => main'[q] = main[q]
    BY <1>3, <1>5
  <2> QED  BY <1>3, <1>5, <2>1 DEF Ending, NoComplaint
<1> QED  BY <1>1, <1>2, <1>4, <1>5

LEMMA KitQuiet ==
  ASSUME KitInv, PipeInv, DeathInv, NothingHinders, NEW p \in Procs,
         \/ Start(p) \/ RequestGameQuit(p) \/ Stop(p) \/ Join(p) \/ Wake(p)
         \/ TestStop(p) \/ StartServer(p) \/ CreatePipe(p) \/ Connected(p) \/ Reopen(p)
  PROVE  DeathInv'
<1>0. KitSteps(p) /\ None \notin Procs
  BY NoneAssumption DEF KitSteps, PipeThread
<1>1. /\ \A q \in Procs : Ending(q) => Ending(q)'
      /\ \A q \in Procs : main'[q] = "none" => main[q] = "none"
      /\ NoComplaint'
      /\ UNCHANGED <<todo, dispatch, handle, running, pending, buried, told, link, peer, slotOf>>
  BY <1>0, KitMains
<1>2. UNCHANGED <<inbox, graves>>
  BY DEF Start, RequestGameQuit, Stop, Join, Wake, TestStop, StartServer, CreatePipe, Connected,
    Reopen, kitVars
<1>3. /\ slotOf[p] \in Slots /\ Funeral \in Slots
      /\ server \in [Slots -> Procs \cup {None}] /\ worker \in [Procs -> Turns]
      /\ client \in [Slots -> {"none", "free", "game", "left"}] /\ buffer \in [Slots -> Known]
  BY SlotsAssumption DEF KitInv, GameSide, RestSide, WordSide
<1>4. client[Funeral] = "game" => server[Funeral] = peer /\ peer \in Procs
  BY <1>3 DEF PipeInv, PipeSide, Held
<1>5. CASE Start(p) \/ RequestGameQuit(p) \/ Stop(p) \/ Join(p)
  <2>1. UNCHANGED <<client, server, buffer, worker>>
    BY <1>5 DEF Start, RequestGameQuit, Stop, Join, pipeVars, threadVars
  <2> QED  BY <1>1, <1>2, <2>1, KitMoves
<1>6. CASE Wake(p)
  <2>1. /\ UNCHANGED <<server, buffer, worker>>
        /\ \A s \in Slots : client'[s] = client[s] \/ (client[s] = "free" /\ client'[s] = "left")
    BY <1>3, <1>6 DEF Wake, threadVars
  <2> QED  BY <1>1, <1>2, <1>3, <2>1, KitMoves
<1>7. CASE TestStop(p) \/ StartServer(p)
  <2>1. /\ UNCHANGED <<client, server, buffer>>
        /\ \A q \in Procs : worker[q] \in {"waiting", "reading"} => worker'[q] = worker[q]
    BY <1>3, <1>7 DEF TestStop, StartServer, pipeVars
  <2> QED  BY <1>1, <1>2, <1>3, <2>1, KitMoves
<1>8. CASE CreatePipe(p)
  <2> DEFINE s == slotOf[p]
  <2>1. \A q \in Procs : worker[q] \in {"waiting", "reading"} => worker'[q] = worker[q]
    BY <1>3, <1>8 DEF CreatePipe, pipeVars
  <2>2. CASE UNCHANGED <<client, server, buffer>>
    BY <1>1, <1>2, <1>3, <2>1, <2>2, KitMoves
  <2>3. CASE server[s] = None
    <3>1. /\ server' = [server EXCEPT ![s] = p] /\ client' = [client EXCEPT ![s] = "free"]
          /\ buffer' = buffer
      BY <1>8, <2>3 DEF CreatePipe
    <3>2. handle[s] = p
      BY <1>8 DEF CreatePipe, KitInv, GameSide, NoOrphan
    <3>3. \A t \in Slots : IF t = s THEN server'[t] = p
                                    ELSE client'[t] = client[t] /\ server'[t] = server[t]
      BY <1>3, <3>1
    <3>4. client[Funeral] = "game" => s # Funeral
      BY <1>0, <1>4, <2>3
    <3> HIDE DEF s
    <3>5. client[Funeral] = "game" => client'[Funeral] = "game"
      BY <1>3, <3>3, <3>4
    <3>6. \A t \in Slots : client'[t] = "free" =>
            \/ client[t] = "free" /\ server'[t] = server[t]
            \/ server'[t] = handle[t]
      BY <3>2, <3>3
    <3> QED  BY <1>1, <1>2, <1>3, <2>1, <3>1, <3>5, <3>6, KitMoves
  <2> QED  BY <1>8, <2>2, <2>3 DEF CreatePipe, pipeVars
<1>9. CASE Connected(p) /\ ~stop[p]
  <2>1. /\ UNCHANGED <<client, server, buffer>> /\ worker[p] = "waiting"
        /\ \/ worker' = [worker EXCEPT ![p] = "reading"]
           \/ client[slotOf[p]] = "left" /\ worker' = [worker EXCEPT ![p] = "closing"]
    BY <1>9 DEF Connected, pipeVars
  <2>2. \A q \in Procs : q = peer /\ client[Funeral] = "game" => client[slotOf[q]] = "game"
    BY <1>3, <1>4, <1>0 DEF PipeInv, PipeSide
  <2>3. \A q \in Procs : q = peer /\ client[Funeral] = "game" /\ worker[q] \in {"waiting", "reading"}
                           => worker'[q] \in {"waiting", "reading"}
    BY <1>3, <2>1, <2>2
  <2> QED  BY <1>1, <1>2, <1>3, <2>1, <2>3, KitMoves
<1>10. CASE Reopen(p) \/ (Connected(p) /\ stop[p])
  <2>1. ClosePipe(p) /\ \A q \in Procs : q # p => worker'[q] = worker[q]
    BY <1>3, <1>10 DEF Reopen, Connected
  <2>2. \A s \in Slots :
           \/ client'[s] = client[s] /\ server'[s] = server[s] /\ buffer'[s] = buffer[s]
           \/ /\ s = slotOf[p] /\ server[s] = p
              /\ client'[s] = "none" /\ server'[s] = None /\ buffer'[s] = "none"
    BY <2>1, PipeClosed
  <2>3. ASSUME NEW q \in Procs, q = peer, client[Funeral] = "game", worker[q] \in {"waiting", "reading"}
        PROVE  \/ Ending(q)'
               \/ /\ client'[Funeral] = "game" /\ buffer'[Funeral] = buffer[Funeral]
                  /\ worker'[q] \in {"waiting", "reading"}
    <3>1. CASE q = p
      <4>1. stop[p]
        BY <1>10, <2>3, <3>1 DEF Reopen
      <4>2. Ending(q)
        BY <3>1, <4>1 DEF PipeInv, PipeSide, Ending
      <4> QED  BY <1>1, <4>2
    <3>2. CASE q # p
      BY <1>3, <1>4, <2>1, <2>2, <2>3, <3>2
    <3> QED  BY <3>1, <3>2
  <2> QED  BY <1>1, <1>2, <1>3, <2>2, <2>3, KitMoves
<1> QED  BY <1>5, <1>6, <1>7, <1>8, <1>9, <1>10

LEMMA InboxTail ==
  ASSUME NEW S, NEW q \in Seq(S), q # <<>>
  PROVE  /\ \A c : c \in ToSet(q) => c = Head(q) \/ c \in ToSet(Tail(q))
         /\ ToSet(Tail(q)) \subseteq ToSet(q)
<1>1. DOMAIN q = 1..Len(q) /\ DOMAIN Tail(q) = 1..Len(Tail(q))
  BY TailIs
<1>2. ASSUME NEW c \in ToSet(q) PROVE c = Head(q) \/ c \in ToSet(Tail(q))
  <2>1. PICK k \in 1..Len(q) : c = q[k]
    BY <1>1, <1>2 DEF ToSet
  <2>2. CASE k = 1
    BY <2>1, <2>2, TailIs
  <2>3. ASSUME NEW i \in 1..Len(Tail(q)), k = i + 1 PROVE c \in ToSet(Tail(q))
    <3>1. c = Tail(q)[i]
      BY <2>1, <2>3, TailIs
    <3> QED  BY <1>1, <3>1 DEF ToSet
  <2> QED  BY <2>2, <2>3, TailIs
<1>3. ASSUME NEW c \in ToSet(Tail(q)) PROVE c \in ToSet(q)
  <2>1. PICK i \in 1..Len(Tail(q)) : c = Tail(q)[i]
    BY <1>1, <1>3 DEF ToSet
  <2>2. c = q[i + 1] /\ i + 1 \in 1..Len(q)
    BY <2>1, TailIs
  <2> QED  BY <1>1, <2>2 DEF ToSet
<1> QED  BY <1>2, <1>3

LEMMA InboxGrows ==
  ASSUME NEW S, NEW q \in Seq(S), NEW w \in S
  PROVE  ToSet(Append(q, w)) = ToSet(q) \cup {w}
<1>1. /\ DOMAIN q = 1..Len(q) /\ DOMAIN Append(q, w) = 1..Len(q) + 1 /\ Len(q) \in Nat
      /\ \A i \in 1..Len(q) : Append(q, w)[i] = q[i]
      /\ Append(q, w)[Len(q) + 1] = w
  OBVIOUS
<1> QED  BY <1>1 DEF ToSet

LEMMA HandleKeeps ==
  ASSUME KitInv, PipeInv, DeathInv, NothingHinders, NEW p \in Procs, HandleWord(p)
  PROVE  DeathInv'
<1>1. /\ \A q \in Procs : Ending(q) => Ending(q)'
      /\ NoComplaint'
      /\ UNCHANGED <<todo, dispatch, handle, running, pending, buried, told, link, peer, slotOf>>
  BY KitMains DEF KitSteps
<1>2. /\ main[p] = "open" /\ inbox[p] # <<>>
      /\ inbox' = [inbox EXCEPT ![p] = Tail(inbox[p])]
      /\ graves' = graves \cup ({Head(inbox[p])} \cap Deaths)
      /\ UNCHANGED <<main, client, server, buffer, worker>>
  BY DEF HandleWord, Heard, DeathInv, NoComplaint, threadVars, pipeVars
<1>3. inbox \in [Procs -> Seq(buried \cup {"id"})]
  BY DEF KitInv, WordSide
<1>4. inbox'[p] = Tail(inbox[p]) /\ \A q \in Procs : q # p => inbox'[q] = inbox[q]
  BY <1>2, <1>3
<1>5. \A q \in Procs, c \in Deaths : c \in ToSet(inbox[q]) => c \in graves' \/ c \in ToSet(inbox'[q])
  BY <1>2, <1>3, <1>4, InboxTail
<1>6. \A q \in Procs : ToSet(inbox'[q]) \subseteq ToSet(inbox[q])
  BY <1>2, <1>3, <1>4, InboxTail
<1>7. ASSUME NEW c \in Deaths, Safe(c) PROVE Safe(c)'
  BY <1>1, <1>2, <1>5, <1>7 DEF Safe, GivenTo, Lost
<1>8. /\ Uninterrupted(todo') /\ Addressed(todo') /\ Attached' /\ ClearedIsSent' /\ WaitsOnce'
      /\ DeathKept'
  BY <1>1, <1>7, KitsForgetNot
<1>9. InboxTold'
  <2>1. main[p] # "none"
    BY <1>2
  <2> QED  BY <1>1, <1>2, <1>4, <1>6, <2>1 DEF DeathInv, InboxTold
<1>10. StaleForId' /\ BufferIsSent'
  BY <1>1, <1>2 DEF DeathInv, StaleForId, BufferIsSent
<1>11. SendReaches'
  <2>1. link # "idle" => peer \in Procs
    BY DEF PipeInv, Held
  <2> QED  BY <1>1, <1>2, <1>5, <2>1 DEF DeathInv, SendReaches, IsThere, Ending
<1> QED  BY <1>1, <1>8, <1>9, <1>10, <1>11 DEF DeathInv

LEMMA ReadKeeps ==
  ASSUME KitInv, PipeInv, DeathInv, NothingHinders, NEW p \in Procs, Read(p)
  PROVE  DeathInv'
<1> DEFINE s == slotOf[p]
           w == buffer[s]
<1>1. /\ \A q \in Procs : Ending(q) => Ending(q)'
      /\ NoComplaint'
      /\ UNCHANGED <<todo, dispatch, handle, running, pending, buried, told, link, peer, slotOf>>
  BY KitMains DEF KitSteps, PipeThread
<1>2. /\ Alive(p) /\ worker[p] = "reading"
      /\ inbox' = IF w \in Tracked /\ main[p] # "ended"
                    THEN [inbox EXCEPT ![p] = Append(inbox[p], w)] ELSE inbox
      /\ buffer' = [buffer EXCEPT ![s] = "none"] /\ worker' = [worker EXCEPT ![p] = "closing"]
      /\ UNCHANGED <<main, client, server, graves>>
  BY DEF Read
<1>3. /\ inbox \in [Procs -> Seq(buried \cup {"id"})] /\ buffer \in [Slots -> Known]
      /\ s \in Slots /\ worker \in [Procs -> Turns] /\ main \in [Procs -> Phases]
  BY DEF KitInv, GameSide, RestSide, WordSide
<1>4. server[s] = p
  BY <1>2 DEF PipeInv, PipeSide
<1>5. w # "none" => link = "flush" /\ w = Head(todo).word /\ peer = p
  BY <1>3, <1>4 DEF DeathInv, BufferIsSent, PipeInv, PipeSide
<1> HIDE DEF w, s
<1>6. \A q \in Procs : /\ ToSet(inbox[q]) \subseteq ToSet(inbox'[q])
                       /\ q # p => inbox'[q] = inbox[q]
  <2>1. CASE w \in Tracked /\ main[p] # "ended"
    <3>1. w \in buried \cup {"id"}
      BY <1>3, <2>1, WordsAssumption DEF Tracked, Known, KitInv, WordSide, w
    <3>2. inbox'[p] = Append(inbox[p], w) /\ \A q \in Procs : q # p => inbox'[q] = inbox[q]
      BY <1>2, <1>3, <2>1
    <3>3. ToSet(inbox'[p]) = ToSet(inbox[p]) \cup {w}
      BY <1>3, <3>1, <3>2, InboxGrows
    <3> QED  BY <3>2, <3>3
  <2>2. CASE ~(w \in Tracked /\ main[p] # "ended")
    BY <1>2, <2>2
  <2> QED  BY <2>1, <2>2
<1>7. \A c : c \in ToSet(inbox'[p]) => c \in ToSet(inbox[p]) \/ c = w
  <2>1. CASE w \in Tracked /\ main[p] # "ended"
    <3>1. w \in buried \cup {"id"}
      BY <1>3, <2>1, WordsAssumption DEF Tracked, Known, KitInv, WordSide, w
    <3>2. inbox'[p] = Append(inbox[p], w)
      BY <1>2, <1>3, <2>1
    <3> QED  BY <1>3, <3>1, <3>2, InboxGrows
  <2>2. CASE ~(w \in Tracked /\ main[p] # "ended")
    BY <1>2, <2>2
  <2> QED  BY <2>1, <2>2
<1>8. w \in Deaths => Ending(p) \/ w \in ToSet(inbox'[p])
  <2> SUFFICES ASSUME w \in Deaths, ~Ending(p) PROVE w \in ToSet(inbox'[p])
    OBVIOUS
  <2>1. w \in Tracked /\ main[p] # "ended"
    BY DEF Tracked, Ending, Leaving
  <2>2. w \in buried \cup {"id"}
    BY <1>3, <2>1, WordsAssumption DEF Tracked, Known, KitInv, WordSide, w
  <2>3. inbox'[p] = Append(inbox[p], w)
    BY <1>2, <1>3, <2>1
  <2> QED  BY <1>3, <2>2, <2>3, InboxGrows
<1>9. ASSUME NEW c \in Deaths, Safe(c) PROVE Safe(c)'
  BY <1>1, <1>2, <1>6, <1>9 DEF Safe, GivenTo, Lost
<1>10. /\ Uninterrupted(todo') /\ Addressed(todo') /\ Attached' /\ ClearedIsSent' /\ WaitsOnce'
       /\ DeathKept'
  BY <1>1, <1>9, KitsForgetNot
<1>11. InboxTold'
  <2>1. main[p] # "none"
    BY <1>2 DEF Alive
  <2>2. ASSUME NEW q \in Procs, NEW c \in ToSet(inbox'[q]) \cap Deaths
        PROVE  <<q, c, TRUE>> \in told \/ (link = "flush" /\ peer = q /\ Head(todo).word = c)
    <3>1. CASE c \in ToSet(inbox[q])
      BY <2>2, <3>1 DEF DeathInv, InboxTold
    <3>2. CASE c \notin ToSet(inbox[q])
      <4>1. q = p /\ c = w
        BY <1>6, <1>7, <2>2, <3>2
      <4>2. w # "none"
        BY <2>2, <4>1, OwnWords
      <4> QED  BY <1>5, <4>1, <4>2
    <3> QED  BY <3>1, <3>2
  <2>3. \A q \in Procs : main'[q] = "none" => inbox'[q] = <<>>
    BY <1>2, <1>6, <2>1 DEF DeathInv, InboxTold
  <2> QED  BY <1>1, <2>2, <2>3 DEF InboxTold
<1>12. StaleForId'
  BY <1>1, <1>2 DEF DeathInv, StaleForId
<1>13. BufferIsSent'
  <2>1. \A t \in Slots : buffer'[t] # "none" => buffer'[t] = buffer[t]
    BY <1>2, <1>3
  <2> QED  BY <1>1, <2>1 DEF DeathInv, BufferIsSent
<1>14. SendReaches'
  <2> SUFFICES ASSUME link # "idle", NEW c \in Deaths, c = Head(todo).word
               PROVE  /\ link = "open" =>
                           peer = handle[Funeral] /\ (Ending(peer)' \/ client'[Funeral] = "game")
                      /\ link = "flush" =>
                           \/ Ending(peer)' \/ IsThere(Funeral, c)'
                           \/ c \in graves \cup ToSet(inbox'[peer])
    BY <1>1, <1>2 DEF SendReaches
  <2>1. PICK q \in Procs : q = peer
    BY DEF PipeInv, Held
  <2>2. Ending(q) => Ending(peer)'
    BY <1>1, <2>1 DEF Ending
  <2>3. link = "open" => peer = handle[Funeral] /\ (Ending(q) \/ client[Funeral] = "game")
    BY <2>1 DEF DeathInv, SendReaches
  <2>4. link = "flush" => Ending(q) \/ IsThere(Funeral, c) \/ c \in graves \cup ToSet(inbox[peer])
    BY <2>1 DEF DeathInv, SendReaches
  <2>5. IsThere(Funeral, c) => Ending(q) \/ IsThere(Funeral, c)' \/ c \in ToSet(inbox'[q])
    <3> SUFFICES ASSUME IsThere(Funeral, c)
                 PROVE  Ending(q) \/ IsThere(Funeral, c)' \/ c \in ToSet(inbox'[q])
      OBVIOUS
    <3>1. /\ client[Funeral] = "game" /\ worker[peer] \in {"waiting", "reading"}
          /\ buffer[Funeral] = c /\ Funeral \in Slots /\ server[Funeral] = peer
      BY SlotsAssumption DEF IsThere, PipeInv, PipeSide
    <3>2. CASE s = Funeral
      <4>1. p = q /\ w = c
        BY <1>4, <2>1, <3>1, <3>2 DEF w
      <4> QED  BY <1>8, <4>1
    <3>3. CASE s # Funeral
      <4>1. buffer'[Funeral] = buffer[Funeral]
        BY <1>2, <1>3, <3>1, <3>3
      <4>2. p # q
        BY <1>4, <2>1, <3>1, <3>3 DEF PipeInv, PipeSide, s
      <4>3. worker'[q] = worker[q]
        BY <1>2, <1>3, <4>2
      <4> QED  BY <1>1, <1>2, <2>1, <3>1, <4>1, <4>3 DEF IsThere
    <3> QED  BY <3>2, <3>3
  <2>6. ToSet(inbox[q]) \subseteq ToSet(inbox'[q])
    BY <1>6
  <2> QED  BY <1>2, <2>1, <2>2, <2>3, <2>4, <2>5, <2>6
<1> QED  BY <1>1, <1>10, <1>11, <1>12, <1>13, <1>14 DEF DeathInv

LEMMA EndsKeeps ==
  ASSUME KitInv, PipeInv, DeathInv, NothingHinders, NEW p \in Procs, Ends(p)
  PROVE  DeathInv'
<1>1. /\ \A q \in Procs : Ending(q) => Ending(q)'
      /\ \A q \in Procs : main'[q] = "none" => main[q] = "none"
      /\ NoComplaint'
      /\ UNCHANGED <<todo, dispatch, handle, running, pending, buried, told, link, peer, slotOf>>
  BY KitMains DEF KitSteps
<1>2. /\ main' = [main EXCEPT ![p] = "dead"] /\ ClosePipe(p) /\ graves' = graves
      /\ inbox' = [inbox EXCEPT ![p] = <<>>] /\ worker' = [worker EXCEPT ![p] = "ended"]
  BY DEF Ends, Goes
<1>3. /\ inbox \in [Procs -> Seq(buried \cup {"id"})] /\ main \in [Procs -> Phases]
      /\ worker \in [Procs -> Turns] /\ server \in [Slots -> Procs \cup {None}]
  BY DEF KitInv, GameSide, RestSide, WordSide
<1>4. /\ inbox'[p] = <<>> /\ main'[p] = "dead"
      /\ \A q \in Procs : q # p => /\ inbox'[q] = inbox[q] /\ worker'[q] = worker[q]
  BY <1>2, <1>3
<1>5. Ending(p)'
  BY <1>4 DEF Ending, Gone
<1>6. \A s \in Slots :
        \/ client'[s] = client[s] /\ server'[s] = server[s] /\ buffer'[s] = buffer[s]
        \/ /\ s = slotOf[p] /\ server[s] = p
           /\ client'[s] = "none" /\ server'[s] = None /\ buffer'[s] = "none"
  BY <1>2, PipeClosed
<1>7. ASSUME NEW c \in Deaths, Safe(c)
      PROVE  Safe(c)' \/ (link = "flush" /\ Head(todo).word = c)
  <2>1. CASE c \in graves \/ Lost(c)
    BY <1>1, <1>2, <2>1 DEF Safe, Lost
  <2>2. ASSUME NEW q \in Procs, c \in ToSet(inbox[q]), slotOf[q] = Funeral
        PROVE  Safe(c)' \/ (link = "flush" /\ Head(todo).word = c)
    <3>1. CASE q # p
      BY <1>1, <1>4, <2>2, <3>1 DEF Safe, GivenTo
    <3>2. CASE q = p /\ <<q, c, TRUE>> \in told
      BY <1>1, <1>5, <2>2, <3>2 DEF Safe, Lost, TellResults
    <3> QED  BY <2>2, <3>1, <3>2 DEF DeathInv, InboxTold
  <2> QED  BY <1>7, <2>1, <2>2 DEF Safe, GivenTo
<1>8. /\ Uninterrupted(todo') /\ Addressed(todo') /\ Attached' /\ ClearedIsSent' /\ WaitsOnce'
      /\ DeathKept'
  BY <1>1, <1>7, KitsForgetNot
<1>9. InboxTold'
  BY <1>1, <1>4, EmptySet DEF DeathInv, InboxTold
<1>10. StaleForId' /\ BufferIsSent'
  BY <1>1, <1>6 DEF DeathInv, StaleForId, BufferIsSent
<1>11. SendReaches'
  <2> SUFFICES ASSUME link # "idle", NEW c \in Deaths, c = Head(todo).word
               PROVE  /\ link = "open" =>
                           peer = handle[Funeral] /\ (Ending(peer)' \/ client'[Funeral] = "game")
                      /\ link = "flush" =>
                           \/ Ending(peer)' \/ IsThere(Funeral, c)'
                           \/ c \in graves \cup ToSet(inbox'[peer])
    BY <1>1, <1>2 DEF SendReaches
  <2>1. PICK q \in Procs : q = peer
    BY DEF PipeInv, Held
  <2>2. Ending(q)' => Ending(peer)'
    BY <1>1, <2>1 DEF Ending
  <2>3. link = "open" => peer = handle[Funeral] /\ (Ending(q) \/ client[Funeral] = "game")
    BY <2>1 DEF DeathInv, SendReaches
  <2>4. link = "flush" => Ending(q) \/ IsThere(Funeral, c) \/ c \in graves \cup ToSet(inbox[peer])
    BY <2>1 DEF DeathInv, SendReaches
  <2>5. CASE q = p
    BY <1>5, <2>2, <2>3, <2>5
  <2>6. CASE q # p
    <3>1. client[Funeral] = "game" => client'[Funeral] = "game" /\ buffer'[Funeral] = buffer[Funeral]
      <4>1. client[Funeral] = "game" => server[Funeral] = q /\ Funeral \in Slots
        BY <2>1, SlotsAssumption DEF PipeInv, PipeSide
      <4> QED  BY <1>6, <2>6, <4>1
    <3>2. IsThere(Funeral, c) => IsThere(Funeral, c)'
      BY <1>1, <1>4, <2>1, <2>6, <3>1 DEF IsThere
    <3> QED  BY <1>1, <1>4, <2>1, <2>2, <2>3, <2>4, <2>6, <3>1, <3>2
  <2> QED  BY <2>5, <2>6
<1> QED  BY <1>1, <1>8, <1>9, <1>10, <1>11 DEF DeathInv

-----------------------------------------------------------------------------
(* No death is forgotten *)

LEMMA DeathInit == Init => DeathInv
<1> SUFFICES ASSUME Init PROVE DeathInv
  OBVIOUS
<1>1. /\ todo = <<>> /\ pending = <<>> /\ buried = {} /\ link = "idle"
      /\ \A p \in Procs : inbox[p] = <<>> /\ main[p] = "none"
      /\ \A s \in Slots : client[s] = "none" /\ buffer[s] = "none"
  BY DEF Init
<1>2. Uninterrupted(todo) /\ Addressed(todo) /\ Attached /\ ClearedIsSent /\ WaitsOnce
  BY <1>1 DEF Uninterrupted, Addressed, Attached, ClearedIsSent, WaitsOnce
<1>3. InboxTold /\ StaleForId /\ SendReaches /\ BufferIsSent /\ NoComplaint /\ DeathKept
  BY <1>1, EmptySet DEF InboxTold, StaleForId, SendReaches, BufferIsSent, NoComplaint, DeathKept
<1> QED  BY <1>2, <1>3 DEF DeathInv

LEMMA DeathNext ==
  ASSUME NothingHinders, KitInv, PipeInv, DeathInv, [Next]_vars
  PROVE  DeathInv'
<1>1. CASE UNCHANGED vars
  BY <1>1, DeathStays DEF vars, slotVars, queueVars, sendVars, deathVars, kitVars, threadVars,
    pipeVars
<1>2. CASE Handler
  <2>1. CASE \E s \in Slots : Connect(s) \/ GiveUp(s) \/ Write(s) \/ SendEnds(s)
    BY <2>1, ConnectHolds, GiveUpHolds, WriteHolds, SendEndsHolds
  <2> QED  BY <1>2, <2>1, LaunchKeeps, QuietKeeps, TellKeeps, FlushKeeps, ClearKeeps DEF Handler
<1>3. CASE Broadcast \/ Close \/ \E s \in Slots : Toggle(s)
  BY <1>3, QuietKeeps, CloseKeeps
<1>4. CASE \E c \in Deaths : ClickDead(c) \/ Bury(c)
  BY <1>4, ClickKeeps, BuryKeeps
<1>5. ASSUME NEW p \in Procs, KitSteps(p) PROVE DeathInv'
  <2>1. \/ HandleWord(p) \/ Read(p) \/ Ends(p)
        \/ Start(p) \/ RequestGameQuit(p) \/ Stop(p) \/ Join(p) \/ Wake(p)
        \/ TestStop(p) \/ StartServer(p) \/ CreatePipe(p) \/ Connected(p) \/ Reopen(p)
    BY <1>5 DEF KitSteps, PipeThread
  <2> QED  BY <2>1, HandleKeeps, ReadKeeps, EndsKeeps, KitQuiet
<1>6. ASSUME NEW q \in quits, QuitArrives(q) PROVE DeathInv'
  BY <1>6, DeathStays DEF QuitArrives, slotVars, sendVars, deathVars, kitVars, threadVars, pipeVars
<1> QED  BY <1>1, <1>2, <1>3, <1>4, <1>5, <1>6 DEF Next, KitSteps

\* A death that was reported is recorded, waits in the document or is on its way,
\* whatever is opened, shut, ended and started again meanwhile, unless it was given
\* to a kit that is ending: where nothing but crashes hinders.
THEOREM DeathsAreKept ==
  ASSUME NothingHinders
  PROVE  Spec => []DeathKept
<1>1. NothingHinders
  OBVIOUS
<1>2. KitInv /\ PipeInv /\ DeathInv /\ [Next]_vars => DeathInv'
  BY <1>1, DeathNext
<1>3. DeathInv => DeathKept
  BY DEF DeathInv
<1> QED  BY <1>2, <1>3, InvInit, InvNext, PipeInit, PipeNext, DeathInit, PTL DEF Spec
=============================================================================
