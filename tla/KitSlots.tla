------------------------------- MODULE KitSlots -------------------------------
(***************************************************************************)
(* The game's side of its kits and the kits' side of the game, without     *)
(* COM.  The game's UI thread keeps a dispatch and a process handle for    *)
(* each slot (application/embedded_kits.cpp), starts a kit as a process    *)
(* (platform/windows_embedded_kit_host.cpp) and writes each message to the *)
(* slot's named pipe (platform/windows_pipe_dispatch_proxy.cpp).  In the   *)
(* kit a worker thread reads the pipe (kits/c1kitlib kit_server_pipe.cpp)  *)
(* and posts each word to the main thread.  The Funeral Kit is told of     *)
(* deaths, some of which wait in the document (archive/funeral_kit.cpp).   *)
(*                                                                         *)
(* What the UI thread still has to do in its present handler is `todo`.    *)
(* It takes messages when that is empty, or at a message box of its own.   *)
(* A kit's "app: quit" comes through the macro pipe (see PipeServer), here *)
(* as a request in `quits` that arrives at some later time.                *)
(***************************************************************************)
EXTENDS Integers, Sequences, FiniteSets, SequencesExt

CONSTANTS Slots,        \* numbers of the slots in use
          Funeral,      \* kFuneralKitIndex
          Procs,        \* bound: kit processes ever started
          Deaths,       \* the words of the creatures that die
          MaxPending,   \* kMaximumPendingFuneralKitStateWords
          None,         \* no process
          Faults        \* which of FaultKinds may happen

ASSUME SlotsAssumption ==
  Slots \subseteq Nat /\ IsFiniteSet(Slots) /\ 0 \in Slots /\ Funeral \in Slots
ASSUME NoneAssumption == None \notin Procs
ASSUME LimitsAssumption == MaxPending \in Nat

\* A kit or its system takes longer than a wait allows; a kit crashes or is
\* killed; it shows a message box while it starts; it cannot be started.
FaultKinds == {"slow", "crash", "complaint", "no process"}
ASSUME FaultsAssumption == Faults \subseteq FaultKinds
Prompt == "slow" \notin Faults

ASSUME WordsAssumption == Deaths \cap {"id", "raise", "state", "none"} = {}

Words == Deaths \cup {"id", "raise", "state"}
Tracked == Deaths \cup {"id"}   \* those that change what a kit holds
Phases == {"none", "opening", "complaining", "open", "leaving", "waking",
           "joining", "ended", "dying", "dead"}
Turns == {"none", "test", "create", "waiting", "reading", "closing", "ended"}

VARIABLES
  dispatch,   \* the slots with a proxy attached
  asked,      \* those whose proxy has shutdown_requested_
  handle,     \* embedded_kit_process_handle of each slot
  active,     \* active_embedded_tool_count
  posted,     \* shutdown requests in the UI thread's message queue
  running,    \* the main window has not been closed
  todo,       \* what is left of the UI thread's handler
  link,       \* where send_to_kit is
  peer,       \* the process whose pipe it has open
  sent,       \* what send_your_id_is_message returned
  pending,    \* serialized_document_state_words
  buried,     \* the creatures whose death has been reported
  graves,     \* those the Funeral Kit has recorded
  slotOf,     \* the slot a process was started for
  main,       \* what its main thread is doing
  tool_id,    \* tool_id_ of its window
  inbox,      \* words posted to its window
  quits,      \* <<process, slot>> of each "app: quit" on its way
  worker,     \* where its pipe thread is
  stop,       \* stop_requested_
  received,   \* the last word its pipe thread has read
  server,     \* the process that owns the slot's pipe
  client,     \* who is at the pipe's other end
  buffer,     \* the word written and not yet read
  told        \* <<process, death, result>> of each attempt to tell the Funeral Kit

slotVars  == <<dispatch, asked, handle, active>>
queueVars == <<posted, running>>
sendVars  == <<link, peer, sent, told>>
deathVars == <<pending, buried>>
kitVars   == <<slotOf, tool_id, inbox, graves>>
threadVars == <<worker, stop, received>>
pipeVars  == <<server, client, buffer>>
vars == <<slotVars, queueVars, todo, sendVars, deathVars, kitVars, main, quits,
          threadVars, pipeVars>>

Op(op, s, w) == [op |-> op, slot |-> s, word |-> w]
Send(s, w) == Op("send", s, w)
LaunchOf(s) == Op("launch", s, "none")
Launched(s) == Op("launched", s, "none")
Tell(w) == Op("tell", Funeral, w)
Flush == Op("flush", Funeral, "none")
Clear == Op("clear", Funeral, "none")
Box == Op("box", 0, "none")

Gone == {"dying", "dead"}
Leaving == {"leaving", "waking", "joining", "ended"}
Alive(p) == main[p] \notin Gone \cup {"none"}
Fresh == {p \in Procs : main[p] = "none"}

TypeOK ==
  /\ dispatch \subseteq Slots /\ asked \subseteq dispatch
  /\ handle \in [Slots -> Procs \cup {None}]
  /\ active \in 0 .. Cardinality(Slots)
  /\ posted \in Seq([why : {"exited", "quit"}, slot : Slots])
  /\ running \in BOOLEAN /\ sent \in BOOLEAN
  /\ todo \in Seq([op : {"send", "launch", "launched", "tell", "flush", "clear", "box"},
                   slot : Slots, word : Words \cup {"none"}])
  /\ link \in {"idle", "open", "flush"} /\ peer \in Procs \cup {None}
  /\ pending \in Seq(Deaths) /\ Len(pending) <= MaxPending
  /\ graves \subseteq buried /\ buried \subseteq Deaths
  /\ slotOf \in [Procs -> Slots] /\ tool_id \in [Procs -> Slots]
  /\ main \in [Procs -> Phases] /\ worker \in [Procs -> Turns]
  /\ inbox \in [Procs -> Seq(Words)] /\ received \in [Procs -> Words \cup {"none"}]
  /\ quits \subseteq Procs \X Slots /\ stop \in [Procs -> BOOLEAN]
  /\ server \in [Slots -> Procs \cup {None}]
  /\ client \in [Slots -> {"none", "free", "game", "left"}]
  /\ buffer \in [Slots -> Words \cup {"none"}]
  /\ told \subseteq (Procs \cup {None}) \X Deaths \X BOOLEAN

Init ==
  /\ dispatch = {} /\ asked = {} /\ handle = [s \in Slots |-> None] /\ active = 0
  /\ posted = <<>> /\ running = TRUE /\ todo = <<>>
  /\ link = "idle" /\ peer = None /\ sent = FALSE /\ told = {}
  /\ pending = <<>> /\ buried = {} /\ graves = {}
  /\ slotOf = [p \in Procs |-> 0] /\ tool_id = [p \in Procs |-> 0]
  /\ main = [p \in Procs |-> "none"] /\ inbox = [p \in Procs |-> <<>>]
  /\ quits = {}
  /\ worker = [p \in Procs |-> "none"] /\ stop = [p \in Procs |-> FALSE]
  /\ received = [p \in Procs |-> "none"]
  /\ server = [s \in Slots |-> None] /\ client = [s \in Slots |-> "none"]
  /\ buffer = [s \in Slots |-> "none"]

-------------------------------------------------------------------------------
(* The game's slots *)

AtBox == todo # <<>> /\ Head(todo).op = "box"
Pumping == running /\ (todo = <<>> \/ AtBox)
\* Input and timers wait for posted messages; input also for the message box.
Ticking == Pumping /\ posted = <<>>
Clickable == running /\ todo = <<>> /\ posted = <<>>

\* kit_process_has_exited: the handle is still held and its process is over.
Exited(s) == handle[s] # None /\ main[handle[s]] = "dead"

\* TerminateProcess on those of P still active; the process ends some time later.
Terminated(P) ==
  [p \in Procs |-> IF p \in P /\ Alive(p) THEN "dying" ELSE main[p]]

\* Mutant: the process handle is dropped without ending its process.
ShutdownUnterminated(s) ==
  /\ dispatch' = dispatch \ {s} /\ asked' = asked \ {s}
  /\ active' = IF s \in dispatch THEN active - 1 ELSE active
  /\ handle' = [handle EXCEPT ![s] = None]
  /\ UNCHANGED main

Shutdown(s) ==
  /\ dispatch' = dispatch \ {s} /\ asked' = asked \ {s}
  /\ active' = IF s \in dispatch THEN active - 1 ELSE active
  /\ handle' = [handle EXCEPT ![s] = None]
  /\ main' = Terminated({handle[s]})

\* The Tools menu: opens a slot that is not running, shuts one that is.
Toggle(s) ==
  /\ Clickable
  /\ \/ /\ s \notin dispatch /\ Fresh # {}
        /\ todo' = IF s = Funeral THEN <<LaunchOf(s), Flush>> ELSE <<LaunchOf(s)>>
        /\ UNCHANGED <<slotVars, main>>
     \/ /\ s \in dispatch
        /\ Shutdown(s)
        /\ UNCHANGED todo
  /\ UNCHANGED <<queueVars, sendVars, deathVars, kitVars, quits, threadVars, pipeVars>>

\* launch_via_wine_proxy up to YOUR_ID_IS, or its message box.
Launch ==
  /\ running /\ todo # <<>> /\ Head(todo).op = "launch"
  /\ LET s == Head(todo).slot IN
     \/ /\ "no process" \in Faults
        /\ todo' = <<Box>> \o Tail(todo)
        /\ UNCHANGED <<slotVars, main, slotOf>>
     \/ \E p \in Fresh :
          /\ dispatch' = dispatch \cup {s} /\ asked' = asked \ {s}
          /\ handle' = [handle EXCEPT ![s] = p]
          /\ active' = active + 1
          /\ slotOf' = [slotOf EXCEPT ![p] = s]
          /\ main' = [main EXCEPT ![p] = "opening"]
          /\ todo' = <<Send(s, "id"), Launched(s)>> \o Tail(todo)
  /\ UNCHANGED <<queueVars, sendVars, deathVars, tool_id, inbox, graves, quits,
                 threadVars, pipeVars>>

\* Its rest: a kit that did not take the id is shut down, one that did is raised.
LaunchEnds ==
  /\ running /\ todo # <<>> /\ Head(todo).op = "launched"
  /\ LET s == Head(todo).slot IN
     IF sent
       THEN /\ todo' = <<Send(s, "raise")>> \o Tail(todo)
            /\ sent' = FALSE
            /\ UNCHANGED <<slotVars, main>>
       ELSE /\ Shutdown(s)
            /\ todo' = <<Box>> \o Tail(todo)
            /\ UNCHANGED sent
  /\ UNCHANGED <<queueVars, link, peer, told, deathVars, kitVars, quits, threadVars, pipeVars>>

DismissBox ==
  /\ Ticking /\ AtBox
  /\ todo' = Tail(todo)
  /\ UNCHANGED <<slotVars, queueVars, sendVars, deathVars, kitVars, main, quits,
                 threadVars, pipeVars>>

\* The message 0x401, or the game's turn at a kit's "app: quit".
ShutdownMessage ==
  /\ Pumping /\ posted # <<>>
  /\ Shutdown(Head(posted).slot)
  /\ posted' = Tail(posted)
  /\ UNCHANGED <<running, todo, sendVars, deathVars, kitVars, quits, threadVars, pipeVars>>

\* broadcast_embedded_control_state: to every attached slot in turn.
Broadcast ==
  /\ Ticking /\ dispatch # {}
  /\ \E slots \in [1 .. Cardinality(dispatch) -> dispatch] :
       /\ \A i, j \in DOMAIN slots : i < j => slots[i] < slots[j]
       /\ todo' = [i \in DOMAIN slots |-> Send(slots[i], "state")] \o todo
  /\ UNCHANGED <<slotVars, queueVars, sendVars, deathVars, kitVars, main, quits,
                 threadVars, pipeVars>>

\* OnClose: the processes are ended, the window and its queue go.
Close ==
  /\ Clickable
  /\ running' = FALSE
  /\ main' = Terminated({handle[s] : s \in Slots})
  /\ handle' = [s \in Slots |-> None]
  /\ UNCHANGED <<dispatch, asked, active, posted, todo, sendVars, deathVars,
                 kitVars, quits, threadVars, pipeVars>>

-------------------------------------------------------------------------------
(* Deaths *)

\* A dead creature's pane is clicked: the kit is opened if need be and told.
ClickDead(c) ==
  /\ Clickable /\ c \in Deaths \ buried /\ (Funeral \in dispatch \/ Fresh # {})
  /\ buried' = buried \cup {c}
  /\ todo' = IF Funeral \in dispatch THEN <<Tell(c), Flush>>
                                    ELSE <<LaunchOf(Funeral), Tell(c), Flush>>
  /\ UNCHANGED <<slotVars, queueVars, sendVars, pending, kitVars, main, quits,
                 threadVars, pipeVars>>

\* A corpse leaves the event bar: its word waits in the document, if there is
\* room, and the words are flushed.
Bury(c) ==
  /\ Ticking /\ c \in Deaths \ buried
  /\ buried' = buried \cup {c}
  /\ IF Len(pending) < MaxPending
       THEN pending' = Append(pending, c) /\ todo' = <<Flush, Flush>> \o todo
       ELSE UNCHANGED pending /\ todo' = <<Flush>> \o todo
  /\ UNCHANGED <<slotVars, queueVars, sendVars, kitVars, main, quits, threadVars, pipeVars>>

\* The second half of notify_funeral_kit_of_creature_death.
TellKit ==
  /\ running /\ todo # <<>> /\ Head(todo).op = "tell"
  /\ LET c == Head(todo).word IN
     IF Funeral \in dispatch
       THEN /\ todo' = <<Send(Funeral, c)>> \o Tail(todo)
            /\ UNCHANGED told
       ELSE /\ todo' = Tail(todo)
            /\ told' = told \cup {<<None, c, FALSE>>}
  /\ UNCHANGED <<slotVars, queueVars, link, peer, sent, deathVars, kitVars, main,
                 quits, threadVars, pipeVars>>

\* The words of a connected kit are sent one by one and then cleared.
Flushed ==
  IF Funeral \in dispatch
    THEN [i \in 1 .. Len(pending) |-> Send(Funeral, pending[i])] \o <<Clear>>
    ELSE <<>>

FlushWords ==
  /\ running /\ todo # <<>> /\ Head(todo).op = "flush"
  /\ todo' = Flushed \o Tail(todo)
  /\ UNCHANGED <<slotVars, queueVars, sendVars, deathVars, kitVars, main, quits,
                 threadVars, pipeVars>>

ClearWords ==
  /\ running /\ todo # <<>> /\ Head(todo).op = "clear"
  /\ pending' = <<>>
  /\ todo' = Tail(todo)
  /\ UNCHANGED <<slotVars, queueVars, sendVars, buried, kitVars, main, quits,
                 threadVars, pipeVars>>

-------------------------------------------------------------------------------
(* send_to_kit *)

Sending(s) == running /\ todo # <<>> /\ Head(todo).op = "send" /\ Head(todo).slot = s

\* Mutant: any failed send asks for the shutdown of the slot.
NoticeUnchecked(s) ==
  IF s \in asked
    THEN UNCHANGED <<asked, posted>>
    ELSE /\ asked' = asked \cup {s}
         /\ posted' = Append(posted, [why |-> "exited", slot |-> s])

\* Mutant: an exited kit is never noticed.
NoticeNever(s) == UNCHANGED <<asked, posted>>

\* request_shutdown_of_exited_kit.
Notice(s) ==
  IF s \in asked \/ ~Exited(s)
    THEN UNCHANGED <<asked, posted>>
    ELSE /\ asked' = asked \cup {s}
         /\ posted' = Append(posted, [why |-> "exited", slot |-> s])

\* Of the results only that of YOUR_ID_IS is looked at.
Returns(p, ok) ==
  LET w == Head(todo).word IN
  /\ sent' = (ok /\ w = "id")
  /\ told' = IF w \in Deaths THEN told \cup {<<p, w, ok>>} ELSE told
  /\ link' = "idle" /\ peer' = None
  /\ todo' = Tail(todo)

SendFails(s) ==
  /\ Returns(handle[s], FALSE)
  /\ Notice(s)

Connect(s) ==
  /\ Sending(s) /\ link = "idle" /\ client[s] = "free"
  /\ link' = "open" /\ peer' = server[s]
  /\ client' = [client EXCEPT ![s] = "game"]
  /\ UNCHANGED <<slotVars, queueVars, todo, sent, told, deathVars, kitVars, main,
                 quits, threadVars, server, buffer>>

\* Mutant: a missing pipe is taken to mean that the kit has closed.
OverdueAtOnce(s) == server[s] = None

\* The second is over, or the kit is known to be gone.
Overdue(s) == ~Prompt \/ handle[s] = None \/ main[handle[s]] \in Leaving \cup Gone

GiveUp(s) ==
  /\ Sending(s) /\ link = "idle" /\ client[s] # "free" /\ Overdue(s)
  /\ SendFails(s)
  /\ UNCHANGED <<dispatch, handle, active, running, deathVars, kitVars, main,
                 quits, threadVars, pipeVars>>

Write(s) ==
  /\ Sending(s) /\ link = "open"
  /\ IF client[s] = "game"
       THEN /\ buffer' = [buffer EXCEPT ![s] = Head(todo).word]
            /\ link' = "flush"
            /\ UNCHANGED <<asked, posted, todo, peer, sent, told>>
       ELSE SendFails(s) /\ UNCHANGED buffer
  /\ UNCHANGED <<dispatch, handle, active, running, deathVars, kitVars, main,
                 quits, threadVars, server, client>>

\* Mutant: the pipe is closed without FlushFileBuffers.
DrainedAtOnce(s) == TRUE

\* FlushFileBuffers returns once the kit has read, or the pipe is broken.
Drained(s) == client[s] # "game" \/ buffer[s] = "none"

SendEnds(s) ==
  /\ Sending(s) /\ link = "flush" /\ Drained(s)
  /\ client' = [client EXCEPT ![s] = IF @ = "game" THEN "left" ELSE @]
  /\ Returns(peer, TRUE)
  /\ UNCHANGED <<slotVars, queueVars, deathVars, kitVars, main, quits, threadVars,
                 server, buffer>>

-------------------------------------------------------------------------------
(* A kit's pipe thread *)

\* CloseHandle on p's end of its pipe.
ClosePipe(p) ==
  LET s == slotOf[p] IN
  IF server[s] = p
    THEN /\ server' = [server EXCEPT ![s] = None]
         /\ client' = [client EXCEPT ![s] = "none"]
         /\ buffer' = [buffer EXCEPT ![s] = "none"]
    ELSE UNCHANGED pipeVars

TestStop(p) ==
  /\ Alive(p) /\ worker[p] = "test"
  /\ worker' = [worker EXCEPT ![p] = IF stop[p] THEN "ended" ELSE "create"]
  /\ UNCHANGED <<slotVars, queueVars, todo, sendVars, deathVars, kitVars, main, quits,
                 stop, received, pipeVars>>

\* CreateNamedPipe, with one instance at most: another process may have it.
CreatePipe(p) ==
  /\ Alive(p) /\ worker[p] = "create"
  /\ LET s == slotOf[p] IN
     IF server[s] = None
       THEN /\ server' = [server EXCEPT ![s] = p]
            /\ client' = [client EXCEPT ![s] = "free"]
            /\ worker' = [worker EXCEPT ![p] = "waiting"]
            /\ UNCHANGED buffer
       ELSE /\ worker' = [worker EXCEPT ![p] = "test"]
            /\ UNCHANGED pipeVars
  /\ UNCHANGED <<slotVars, queueVars, todo, sendVars, deathVars, kitVars, main, quits,
                 stop, received>>

\* ConnectNamedPipe returns.  A client that has left before the call is not
\* one to read from; the thread may or may not have been in the call.
Connected(p) ==
  /\ Alive(p) /\ worker[p] = "waiting" /\ client[slotOf[p]] \in {"game", "left"}
  /\ IF stop[p]
       THEN /\ ClosePipe(p)
            /\ worker' = [worker EXCEPT ![p] = "ended"]
       ELSE /\ \/ worker' = [worker EXCEPT ![p] = "reading"]
               \/ /\ client[slotOf[p]] = "left"
                  /\ worker' = [worker EXCEPT ![p] = "closing"]
            /\ UNCHANGED pipeVars
  /\ UNCHANGED <<slotVars, queueVars, todo, sendVars, deathVars, kitVars, main, quits,
                 stop, received>>

\* Mutant: a read waits for the main thread to be at its window.
ReadableByWindow(p) ==
  main[p] = "open" /\ (buffer[slotOf[p]] # "none" \/ client[slotOf[p]] = "left")

Readable(p) == buffer[slotOf[p]] # "none" \/ client[slotOf[p]] = "left"

\* ReadFile, and PostMessage of the word while the window exists.  Only words
\* that change what is modelled are kept in the inbox.
Read(p) ==
  /\ Alive(p) /\ worker[p] = "reading" /\ Readable(p)
  /\ LET w == buffer[slotOf[p]] IN
     /\ received' = [received EXCEPT ![p] = w]
     /\ inbox' = IF w \in Tracked /\ main[p] # "ended"
                   THEN [inbox EXCEPT ![p] = Append(@, w)] ELSE inbox
     /\ buffer' = [buffer EXCEPT ![slotOf[p]] = "none"]
  /\ worker' = [worker EXCEPT ![p] = "closing"]
  /\ UNCHANGED <<slotVars, queueVars, todo, sendVars, deathVars, slotOf, tool_id,
                 graves, main, quits, stop, server, client>>

Reopen(p) ==
  /\ Alive(p) /\ worker[p] = "closing"
  /\ ClosePipe(p)
  /\ worker' = [worker EXCEPT ![p] = "test"]
  /\ UNCHANGED <<slotVars, queueVars, todo, sendVars, deathVars, kitVars, main, quits,
                 stop, received>>

-------------------------------------------------------------------------------
(* A kit's main thread *)

Goes(p, from, to) == main[p] \in from /\ main' = [main EXCEPT ![p] = to]

\* register_class_object starts the thread.
StartServer(p) ==
  /\ main[p] = "opening" /\ worker[p] = "none"
  /\ worker' = [worker EXCEPT ![p] = "test"]
  /\ UNCHANGED <<slotVars, queueVars, todo, sendVars, deathVars, kitVars, main, quits,
                 stop, received, pipeVars>>

\* create_main_window: it may show a message box, may fail, or opens the kit.
Start(p) ==
  /\ worker[p] # "none"
  /\ \/ "complaint" \in Faults /\ Goes(p, {"opening"}, "complaining")
     \/ Goes(p, {"opening", "complaining"}, "leaving")
     \/ Goes(p, {"opening", "complaining"}, "open")
  /\ UNCHANGED <<slotVars, queueVars, todo, sendVars, deathVars, kitVars, quits,
                 threadVars, pipeVars>>

\* What a word does to the window: YOUR_ID_IS sets its slot number, a death is
\* recorded, at once or from early_deaths_ when the start-up timer fires.
Heard(p, w) ==
  /\ tool_id' = IF w = "id" THEN [tool_id EXCEPT ![p] = slotOf[p]] ELSE tool_id
  /\ graves' = graves \cup ({w} \cap Deaths)

\* on_communicate, from the message loop or that of a message box: without
\* m_pMainWnd the word is answered and forgotten.
HandleWord(p) ==
  /\ main[p] \in {"open", "complaining"} /\ inbox[p] # <<>>
  /\ inbox' = [inbox EXCEPT ![p] = Tail(@)]
  /\ IF main[p] = "open" THEN Heard(p, Head(inbox[p])) ELSE UNCHANGED <<tool_id, graves>>
  /\ UNCHANGED <<slotVars, queueVars, todo, sendVars, deathVars, slotOf, main, quits,
                 threadVars, pipeVars>>

\* request_game_quit: with a transport the game is asked for "app: quit".
RequestGameQuit(p) ==
  /\ Goes(p, {"open"}, "leaving") /\ inbox[p] = <<>>
  /\ quits' \in {quits, quits \cup {<<p, tool_id[p]>>}}
  /\ UNCHANGED <<slotVars, queueVars, todo, sendVars, deathVars, kitVars, threadVars,
                 pipeVars>>

\* The request reaches the game, whether or not the kit still runs.
QuitArrives(q) ==
  /\ running
  /\ quits' = quits \ {q}
  /\ posted' = Append(posted, [why |-> "quit", slot |-> q[2]])
  /\ UNCHANGED <<slotVars, running, todo, sendVars, deathVars, kitVars, main,
                 threadVars, pipeVars>>

\* ExitInstance, stop(): the flag, then a connection to wake the thread.
Stop(p) ==
  /\ \/ worker[p] = "none" /\ Goes(p, {"leaving"}, "ended") /\ UNCHANGED stop
     \/ worker[p] # "none" /\ Goes(p, {"leaving"}, "waking")
        /\ stop' = [stop EXCEPT ![p] = TRUE]
  /\ UNCHANGED <<slotVars, queueVars, todo, sendVars, deathVars, kitVars, quits,
                 worker, received, pipeVars>>

Wake(p) ==
  /\ Goes(p, {"waking"}, "joining")
  /\ client' = [client EXCEPT ![slotOf[p]] = IF @ = "free" THEN "left" ELSE @]
  /\ UNCHANGED <<slotVars, queueVars, todo, sendVars, deathVars, kitVars, quits,
                 threadVars, server, buffer>>

\* The thread has ended, or two seconds are over.
Join(p) ==
  /\ worker[p] = "ended" \/ ~Prompt
       \/ (worker[p] = "waiting" /\ client[slotOf[p]] = "free")
  /\ Goes(p, {"joining"}, "ended")
  /\ UNCHANGED <<slotVars, queueVars, todo, sendVars, deathVars, kitVars, quits,
                 threadVars, pipeVars>>

\* A process is over, and with it all it held: it exits, has been terminated,
\* or crashes.
Ends(p) ==
  /\ \/ Goes(p, {"ended", "dying"}, "dead")
     \/ "crash" \in Faults /\ Alive(p) /\ main' = [main EXCEPT ![p] = "dead"]
  /\ ClosePipe(p)
  /\ worker' = [worker EXCEPT ![p] = "ended"] /\ stop' = [stop EXCEPT ![p] = FALSE]
  /\ inbox' = [inbox EXCEPT ![p] = <<>>] /\ received' = [received EXCEPT ![p] = "none"]
  /\ tool_id' = [tool_id EXCEPT ![p] = 0]
  /\ UNCHANGED <<slotVars, queueVars, todo, sendVars, deathVars, slotOf, graves, quits>>

-------------------------------------------------------------------------------
(* The system *)

\* What the UI thread goes on with by itself.
Handler ==
  \/ Launch \/ LaunchEnds \/ DismissBox \/ ShutdownMessage
  \/ TellKit \/ FlushWords \/ ClearWords
  \/ \E s \in Slots : Connect(s) \/ GiveUp(s) \/ Write(s) \/ SendEnds(s)

PipeThread(p) ==
  TestStop(p) \/ CreatePipe(p) \/ Connected(p) \/ Read(p) \/ Reopen(p)

Next ==
  \/ Handler \/ Broadcast \/ Close
  \/ \E s \in Slots : Toggle(s)
  \/ \E c \in Deaths : ClickDead(c) \/ Bury(c)
  \/ \E p \in Procs :
       \/ PipeThread(p) \/ StartServer(p) \/ Start(p) \/ HandleWord(p)
       \/ RequestGameQuit(p) \/ Stop(p) \/ Wake(p) \/ Join(p)
       \/ Ends(p)
  \/ \E q \in quits : QuitArrives(q)

Spec == Init /\ [][Next]_vars

\* The UI thread runs, a message box is answered, a kit's pipe thread runs and
\* a terminated process ends.  Nothing is asked of a kit's main thread.
FairSpec ==
  /\ Spec
  /\ WF_vars(Handler)
  /\ \A p \in Procs : WF_vars(PipeThread(p)) /\ WF_vars(main[p] = "dying" /\ Ends(p))

-------------------------------------------------------------------------------
(* Properties *)

\* active_embedded_tool_count is the number of attached slots, whatever mix of
\* menu, failed starts, notices and quit requests has shut slots down, a slot
\* that was shut already included (embedded_kits.cpp, shutdown).
ActiveIsAttached == active = Cardinality(dispatch)

\* A kit's process that has not ended and has not been told to is the one whose
\* handle its slot holds: no kit runs, or is still leaving, that the game has
\* lost, or after the game has closed.
NoOrphan == \A p \in Procs : Alive(p) => handle[slotOf[p]] = p

\* A send that returned true was read by the pipe thread of the process it
\* went to, unless that process is ending (send_to_kit flushes before it closes).
SentIsReceived ==
  [][\A s \in Slots :
       SendEnds(s) => received[peer] = Head(todo).word
                      \/ main[peer] \in Leaving \cup Gone]_vars

OnItsWay(c) ==
  \/ \E i \in 1 .. Len(todo) : todo[i].word = c
  \/ \E p \in Procs : c \in ToSet(inbox[p]) /\ slotOf[p] = Funeral

\* A reported death is waiting in the document, on its way or recorded; only a
\* kit that is ending takes one with it, having been given it or having failed
\* to start (the wait in send_to_kit, the flush and clear of funeral_kit.cpp).
DeathKept ==
  \A c \in buried :
    \/ c \in ToSet(pending) \cup graves \/ OnItsWay(c)
    \/ \E p \in Procs : /\ slotOf[p] = Funeral /\ main[p] \in Leaving \cup Gone
                        /\ {<<p, c, TRUE>>, <<p, c, FALSE>>, <<None, c, FALSE>>} \cap told # {}

\* The shutdown asked for by request_shutdown_of_exited_kit never ends a kit
\* that runs: not one that was slow to answer, nor one started since.
NoticeSparesTheLiving ==
  [][ShutdownMessage /\ Head(posted).why = "exited"
       => LET p == handle[Head(posted).slot] IN p = None \/ main[p] \in Gone]_vars

\* Whatever a kit's main thread does, the game's UI thread comes back from a
\* send: FlushFileBuffers has no limit of its own (send_to_kit).
SendReturns == link # "idle" ~> link = "idle"

\* The slot's kit is gone and so is every process started for the slot before.
Deserted(s) == Exited(s) /\ \A p \in Procs : slotOf[p] = s => main[p] \in {"none", "dead"}

\* The first message the game tries to send to a kit that is gone frees the
\* slot (request_shutdown_of_exited_kit and message 0x401).
GoneKitIsFreed ==
  \A s \in Slots : Deserted(s) /\ Sending(s) /\ link = "idle" ~> ~Exited(s)

\* Slots, their count and the processes agree, however a slot came to be shut.
SlotsSound == TypeOK /\ ActiveIsAttached /\ NoOrphan
=============================================================================
