------------------------------ MODULE PipeServer ------------------------------
(***************************************************************************)
(* The SFC_OLE named-pipe server of the game (scripting/pipe_server.cpp)   *)
(* and the two threads it lives on.  A worker thread owns the pipe and     *)
(* serves one kit at a time.  Each command is posted to the main window    *)
(* as message 0x402; the UI thread runs it and signals an auto-reset       *)
(* event.  The worker waits at most 30 s for that signal, and gives up at  *)
(* once when the server stops.  A command that opens a modal box runs a    *)
(* nested message loop, so the UI thread can start the next command before *)
(* the first has ended.                                                    *)
(*                                                                         *)
(* Commands are numbered in the order the kits write them.  What a command *)
(* does is left to the modules about macros: here a reply only says whose  *)
(* it is and of what kind.                                                 *)
(***************************************************************************)
EXTENDS Naturals, Sequences, FiniteSets

CONSTANTS Kits,              \* kit processes that may open the pipe
          NoKit,             \* nobody is at the other end of the pipe
          MaxRequests,       \* bound: commands the kits write in all
          MaxCreateFailures, \* kWorkerCreatePipeAttempts
          TimerArmed         \* the world update timer is running

ASSUME KitsAssumption == NoKit \notin Kits
ASSUME BoundsAssumption == /\ MaxRequests \in Nat
                           /\ MaxCreateFailures \in Nat \ {0}
                           /\ TimerArmed \in BOOLEAN

Request == 1..MaxRequests
ReplyKind == {"ok", "empty", "shutdown", "timeout", "refused", "lost"}
Reply == [kind : ReplyKind, of : Request]
NoReply == [kind |-> "none", of |-> 0]

VARIABLES
  \* the kits
  kit,         \* where each kit is in its connect-write-read-close round trip
  asking,      \* the command each kit wrote last
  asked,       \* how many commands have been written
  outcome,     \* what the kit got for each command
  \* the pipe
  pipe, client, inbox, outbox,
  \* the worker thread
  worker, failures, serving, response,
  \* the messages and the UI thread
  queue,       \* posted 0x402 messages
  stack,       \* commands the UI thread is inside of, innermost last
  context,     \* the shared PipeServerCommandContext of each command
  ui, timerDue,
  \* the two events
  stopEvent, doneEvent

kitVars    == <<kit, asking, asked, outcome>>
pipeVars   == <<pipe, client, inbox, outbox>>
workerVars == <<worker, failures, serving, response>>
uiVars     == <<queue, stack, context, ui, timerDue>>
eventVars  == <<stopEvent, doneEvent>>
vars == <<kitVars, pipeVars, workerVars, uiVars, eventVars>>

TypeOK ==
  /\ kit \in [Kits -> {"idle", "connected", "asked", "answered", "dead"}]
  /\ asking \in [Kits -> 0..MaxRequests]
  /\ asked \in 0..MaxRequests
  /\ outcome \in [Request -> Reply \cup {NoReply}]
  /\ pipe \in {"none", "listening", "open", "broken"}
  /\ client \in Kits \cup {NoKit}
  /\ inbox \in 0..MaxRequests
  /\ outbox \in Reply \cup {NoReply}
  /\ worker \in {"start", "create", "connect", "serve", "read", "marshal",
                 "post", "wait", "write", "flush", "close", "exited", "abandoned"}
  /\ failures \in 0..MaxCreateFailures
  /\ serving \in 0..MaxRequests
  /\ response \in Reply \cup {NoReply}
  /\ queue \in Seq(Request)
  /\ stack \in Seq([command : Request, published : BOOLEAN])
  /\ context \in [Request -> {"none", "queued", "running", "done", "dropped"}]
  /\ ui \in {"serving", "signalling", "joining", "discarding", "stopped"}
  /\ timerDue \in BOOLEAN
  /\ stopEvent \in BOOLEAN
  /\ doneEvent \in BOOLEAN

\* start(): both events are created unset, then the worker is created.
Init ==
  /\ kit = [k \in Kits |-> "idle"]
  /\ asking = [k \in Kits |-> 0]
  /\ asked = 0
  /\ outcome = [n \in Request |-> NoReply]
  /\ pipe = "none" /\ client = NoKit /\ inbox = 0 /\ outbox = NoReply
  /\ worker = "start" /\ failures = 0 /\ serving = 0 /\ response = NoReply
  /\ queue = <<>> /\ stack = <<>>
  /\ context = [n \in Request |-> "none"]
  /\ ui = "serving" /\ timerDue = FALSE
  /\ stopEvent = FALSE /\ doneEvent = FALSE

-------------------------------------------------------------------------------
(* A kit: PipeMacroTransport opens the pipe for every command, writes it,  *)
(* reads the reply and closes its end.  A kit may be killed at any point.  *)

HasPipe(k) == client = k /\ pipe = "open"

Connect(k) ==
  /\ kit[k] = "idle" /\ asked < MaxRequests
  /\ pipe = "listening"
  /\ pipe' = "open" /\ client' = k
  /\ kit' = [kit EXCEPT ![k] = "connected"]
  /\ UNCHANGED <<asking, asked, outcome, inbox, outbox, workerVars, uiVars,
                 eventVars>>

Ask(k) ==
  /\ kit[k] = "connected" /\ HasPipe(k) /\ asked < MaxRequests
  /\ asked' = asked + 1
  /\ inbox' = asked + 1
  /\ asking' = [asking EXCEPT ![k] = asked + 1]
  /\ kit' = [kit EXCEPT ![k] = "asked"]
  /\ UNCHANGED <<outcome, pipe, client, outbox, workerVars, uiVars, eventVars>>

Receive(k) ==
  /\ kit[k] = "asked" /\ HasPipe(k) /\ outbox # NoReply
  /\ outcome' = [outcome EXCEPT ![asking[k]] = outbox]
  /\ outbox' = NoReply
  /\ kit' = [kit EXCEPT ![k] = "answered"]
  /\ UNCHANGED <<asking, asked, pipe, client, inbox, workerVars, uiVars,
                 eventVars>>

CloseEnd(k) ==
  /\ kit[k] = "answered"
  /\ kit' = [kit EXCEPT ![k] = "idle"]
  /\ pipe' = IF HasPipe(k) THEN "broken" ELSE pipe
  /\ UNCHANGED <<asking, asked, outcome, client, inbox, outbox, workerVars,
                 uiVars, eventVars>>

\* The server closed its end: WriteFile or ReadFile fails in the kit.
CallFails(k) ==
  /\ kit[k] \in {"connected", "asked"} /\ ~HasPipe(k)
  /\ outcome' = IF kit[k] = "asked"
                  THEN [outcome EXCEPT ![asking[k]] =
                          [kind |-> "lost", of |-> asking[k]]]
                  ELSE outcome
  /\ kit' = [kit EXCEPT ![k] = "idle"]
  /\ UNCHANGED <<asking, asked, pipeVars, workerVars, uiVars, eventVars>>

Die(k) ==
  /\ kit[k] # "dead"
  /\ kit' = [kit EXCEPT ![k] = "dead"]
  /\ pipe' = IF HasPipe(k) THEN "broken" ELSE pipe
  /\ UNCHANGED <<asking, asked, outcome, client, inbox, outbox, workerVars,
                 uiVars, eventVars>>

-------------------------------------------------------------------------------
(* The worker: run_worker, serve_client and marshal_command_to_main_thread. *)

\* run_worker looks at the stop event once before its loop.
StartWorker ==
  /\ worker = "start"
  /\ worker' = IF stopEvent THEN "exited" ELSE "create"
  /\ UNCHANGED <<kitVars, pipeVars, failures, serving, response, uiVars,
                 eventVars>>

\* Neither the retry loop nor a created pipe looks at the stop event here.
CreatePipe ==
  /\ worker = "create"
  /\ worker' = "connect" /\ failures' = 0 /\ pipe' = "listening"
  /\ UNCHANGED <<kitVars, client, inbox, outbox, serving, response, uiVars,
                 eventVars>>

CreateFails ==
  /\ worker = "create" /\ failures < MaxCreateFailures
  /\ failures' = failures + 1
  /\ worker' = IF failures + 1 = MaxCreateFailures THEN "exited" ELSE "create"
  /\ UNCHANGED <<kitVars, pipeVars, serving, response, uiVars, eventVars>>

\* ConnectNamedPipe succeeds, reports ERROR_PIPE_CONNECTED, or its pending
\* event is signalled: the client's event is first in the wait.
ClientArrives ==
  /\ worker = "connect" /\ pipe \in {"open", "broken"}
  /\ worker' = "serve"
  /\ UNCHANGED <<kitVars, pipeVars, failures, serving, response, uiVars,
                 eventVars>>

\* Mutant: the wait for a client does not include the stop event.
ListenOnlyForClients == FALSE

StopWhileListening ==
  /\ worker = "connect" /\ pipe = "listening" /\ stopEvent
  /\ worker' = "close"
  /\ UNCHANGED <<kitVars, pipeVars, failures, serving, response, uiVars,
                 eventVars>>

\* Any other ConnectNamedPipe error, or no read event in serve_client.
ClientNotServed ==
  /\ worker = "connect"
  /\ worker' = "close"
  /\ UNCHANGED <<kitVars, pipeVars, failures, serving, response, uiVars,
                 eventVars>>

\* No connect event: run_worker closes the pipe and returns.
NoConnectEvent ==
  /\ worker = "connect"
  /\ worker' = "exited"
  /\ pipe' = "none" /\ client' = NoKit /\ inbox' = 0 /\ outbox' = NoReply
  /\ UNCHANGED <<kitVars, failures, serving, response, uiVars, eventVars>>

\* The top of the serve_client loop.
ServeNext ==
  /\ worker = "serve"
  /\ worker' = IF stopEvent THEN "close" ELSE "read"
  /\ UNCHANGED <<kitVars, pipeVars, failures, serving, response, uiVars,
                 eventVars>>

\* Mutant: the trailing NULs are stripped one byte too far.
ReadNothing ==
  /\ worker = "read" /\ inbox # 0
  /\ serving' = 0 /\ inbox' = 0
  /\ worker' = "marshal"
  /\ UNCHANGED <<kitVars, pipe, client, outbox, failures, response, uiVars,
                 eventVars>>

ReadCommand ==
  /\ worker = "read" /\ inbox # 0
  /\ serving' = inbox /\ inbox' = 0
  /\ worker' = "marshal"
  /\ UNCHANGED <<kitVars, pipe, client, outbox, failures, response, uiVars,
                 eventVars>>

\* The client has closed its end, or the wait for it ends with the stop event.
ReadEnds ==
  /\ worker = "read" /\ inbox = 0
  /\ pipe = "broken" \/ stopEvent
  /\ worker' = "close"
  /\ UNCHANGED <<kitVars, pipeVars, failures, serving, response, uiVars,
                 eventVars>>

Respond(kind) ==
  /\ response' = [kind |-> kind, of |-> serving]
  /\ worker' = "write"

\* The tests before the command is posted.
Marshal ==
  /\ worker = "marshal"
  /\ \/ stopEvent /\ Respond("shutdown")
     \/ ~stopEvent /\ worker' = "post" /\ UNCHANGED response
     \/ ~stopEvent /\ Respond("refused")
  /\ UNCHANGED <<kitVars, pipeVars, failures, serving, uiVars, eventVars>>

\* The stop event is not looked at between the tests and the post.
Post ==
  /\ worker = "post"
  /\ worker' = "wait"
  /\ queue' = Append(queue, serving)
  /\ context' = [context EXCEPT ![serving] = "queued"]
  /\ UNCHANGED <<kitVars, pipeVars, failures, serving, response, stack, ui,
                 timerDue, eventVars>>

\* Mutant: the message is in the queue although the post is reported failed.
PostFailsHalfWay ==
  /\ worker = "post"
  /\ Respond("refused")
  /\ queue' = Append(queue, serving)
  /\ UNCHANGED <<kitVars, pipeVars, failures, serving, stack, context, ui,
                 timerDue, eventVars>>

PostFails ==
  /\ worker = "post"
  /\ Respond("refused")
  /\ UNCHANGED <<kitVars, pipeVars, failures, serving, uiVars, eventVars>>

\* What the worker returns when it reads the response of its own context.
ReadResponse ==
  Respond(IF context[serving] = "done" THEN "ok" ELSE "empty")

\* Mutant: the signal alone ends the wait, as in the original game.
WakeOnAnySignal ==
  /\ worker = "wait" /\ ~stopEvent /\ doneEvent
  /\ doneEvent' = FALSE
  /\ ReadResponse
  /\ UNCHANGED <<kitVars, pipeVars, failures, serving, uiVars, stopEvent>>

\* Woken by the auto-reset event: a signal of an abandoned command is used up
\* and the wait starts again.
WakeOnDone ==
  /\ worker = "wait" /\ ~stopEvent /\ doneEvent
  /\ doneEvent' = FALSE
  /\ IF context[serving] = "done"
       THEN ReadResponse
       ELSE UNCHANGED <<worker, response>>
  /\ UNCHANGED <<kitVars, pipeVars, failures, serving, uiVars, stopEvent>>

\* The stop event is first in the wait.
WakeOnStop ==
  /\ worker = "wait" /\ stopEvent
  /\ Respond("shutdown")
  /\ UNCHANGED <<kitVars, pipeVars, failures, serving, uiVars, eventVars>>

TimeOut ==
  /\ worker = "wait" /\ ~stopEvent /\ ~doneEvent
  /\ Respond("timeout")
  /\ UNCHANGED <<kitVars, pipeVars, failures, serving, uiVars, eventVars>>

WriteReply ==
  /\ worker = "write"
  /\ IF pipe = "open"
       THEN outbox' = response /\ worker' = "flush"
       ELSE worker' = "close" /\ UNCHANGED outbox
  /\ serving' = 0 /\ response' = NoReply
  /\ UNCHANGED <<kitVars, pipe, client, inbox, failures, uiVars, eventVars>>

\* Mutant: the reply is not flushed.
SkipFlush ==
  /\ worker = "flush"
  /\ worker' = "serve"
  /\ UNCHANGED <<kitVars, pipeVars, failures, serving, response, uiVars,
                 eventVars>>

\* FlushFileBuffers returns when the client has read, or is gone.
FlushReply ==
  /\ worker = "flush"
  /\ outbox = NoReply \/ pipe = "broken"
  /\ worker' = "serve"
  /\ UNCHANGED <<kitVars, pipeVars, failures, serving, response, uiVars,
                 eventVars>>

\* DisconnectNamedPipe throws away what the client has not read.
ClosePipe ==
  /\ worker = "close"
  /\ pipe' = "none" /\ client' = NoKit /\ inbox' = 0 /\ outbox' = NoReply
  /\ worker' = IF stopEvent THEN "exited" ELSE "create"
  /\ UNCHANGED <<kitVars, failures, serving, response, uiVars, eventVars>>

-------------------------------------------------------------------------------
(* The UI thread: handle_pipe_server_command, and stop from OnClose.       *)

Top == stack[Len(stack)]

\* The message loop runs: the frame's own or stop's pump with no command on
\* the stack, or the loop of a modal box that the innermost command opened.
PumpsMessages ==
  /\ ui \in {"serving", "joining"}
  /\ stack # <<>> => ~Top.published

BeginCommand ==
  /\ PumpsMessages /\ queue # <<>>
  /\ queue' = Tail(queue)
  /\ stack' = Append(stack, [command |-> Head(queue), published |-> FALSE])
  /\ context' = [context EXCEPT ![Head(queue)] = "running"]
  /\ UNCHANGED <<kitVars, pipeVars, workerVars, ui, timerDue, eventVars>>

\* The response is stored, then completed is set.
PublishResponse ==
  /\ stack # <<>> /\ ~Top.published
  /\ context' = [context EXCEPT ![Top.command] = "done"]
  /\ stack' = [stack EXCEPT ![Len(stack)] =
                           [command |-> Top.command, published |-> TRUE]]
  /\ UNCHANGED <<kitVars, pipeVars, workerVars, queue, ui, timerDue, eventVars>>

\* Mutant: only the outermost command signals.
SignalOutermost ==
  /\ stack # <<>> /\ Top.published
  /\ doneEvent' = (doneEvent \/ Len(stack) = 1)
  /\ stack' = SubSeq(stack, 1, Len(stack) - 1)
  /\ UNCHANGED <<kitVars, pipeVars, workerVars, queue, context, ui, timerDue,
                 stopEvent>>

\* Mutant: the handler returns without setting the event.
SignalForgotten ==
  /\ stack # <<>> /\ Top.published
  /\ stack' = SubSeq(stack, 1, Len(stack) - 1)
  /\ UNCHANGED <<kitVars, pipeVars, workerVars, queue, context, ui, timerDue,
                 eventVars>>

SignalDone ==
  /\ stack # <<>> /\ Top.published
  /\ doneEvent' = TRUE
  /\ stack' = SubSeq(stack, 1, Len(stack) - 1)
  /\ UNCHANGED <<kitVars, pipeVars, workerVars, queue, context, ui, timerDue,
                 stopEvent>>

\* A modal box disables the frame, so OnClose finds no command on the stack.
StopBegins ==
  /\ ui = "serving" /\ stack = <<>>
  /\ ui' = "signalling" /\ stopEvent' = TRUE
  /\ UNCHANGED <<kitVars, pipeVars, workerVars, queue, stack, context, timerDue,
                 doneEvent>>

StopSignalsDone ==
  /\ ui = "signalling"
  /\ ui' = "joining" /\ doneEvent' = TRUE
  /\ UNCHANGED <<kitVars, pipeVars, workerVars, queue, stack, context, timerDue,
                 stopEvent>>

\* The world update timer posts to the frame whether or not it is closing.
TimerFires ==
  /\ TimerArmed /\ ui = "joining" /\ ~timerDue
  /\ timerDue' = TRUE
  /\ UNCHANGED <<kitVars, pipeVars, workerVars, queue, stack, context, ui,
                 eventVars>>

PumpTimer ==
  /\ ui = "joining" /\ stack = <<>> /\ timerDue
  /\ timerDue' = FALSE
  /\ UNCHANGED <<kitVars, pipeVars, workerVars, queue, stack, context, ui,
                 eventVars>>

WorkerJoined ==
  /\ ui = "joining" /\ stack = <<>> /\ worker = "exited"
  /\ ui' = "discarding"
  /\ UNCHANGED <<kitVars, pipeVars, workerVars, queue, stack, context, timerDue,
                 eventVars>>

\* Ten seconds without a message.  Every wait of the worker but the flush ends
\* at the stop event, so ten seconds are enough for a worker not in one.
AbandonWorker ==
  /\ ui = "joining" /\ stack = <<>> /\ queue = <<>> /\ ~timerDue
  /\ worker = "flush" /\ outbox # NoReply /\ pipe = "open"
  /\ ui' = "discarding" /\ worker' = "abandoned"
  /\ UNCHANGED <<kitVars, pipeVars, failures, serving, response, queue, stack,
                 context, timerDue, eventVars>>

\* Mutant: stop does not look into the message queue.
LeaveMessages ==
  /\ ui = "discarding"
  /\ ui' = "stopped"
  /\ UNCHANGED <<kitVars, pipeVars, workerVars, queue, stack, context, timerDue,
                 eventVars>>

DiscardMessages ==
  /\ ui = "discarding"
  /\ ui' = "stopped"
  /\ queue' = <<>>
  /\ context' = [n \in Request |->
                   IF context[n] = "queued" THEN "dropped" ELSE context[n]]
  /\ UNCHANGED <<kitVars, pipeVars, workerVars, stack, timerDue, eventVars>>

-------------------------------------------------------------------------------
Waiting(k) == kit[k] \in {"connected", "asked", "answered"}

\* The server has stopped and no kit is in a call: nothing is left to do.
Terminated ==
  /\ ui = "stopped" /\ \A k \in Kits : ~Waiting(k)
  /\ UNCHANGED vars

KitStep(k) == Connect(k) \/ Ask(k) \/ Receive(k) \/ CloseEnd(k) \/ CallFails(k)
              \/ Die(k)
WorkerStep ==
  \/ StartWorker \/ CreatePipe \/ CreateFails \/ ClientArrives \/ StopWhileListening
  \/ ClientNotServed \/ NoConnectEvent \/ ServeNext \/ ReadCommand \/ ReadEnds
  \/ Marshal \/ Post \/ PostFails \/ WakeOnDone \/ WakeOnStop \/ TimeOut
  \/ WriteReply \/ FlushReply \/ ClosePipe
UIStep ==
  \/ BeginCommand \/ PublishResponse \/ SignalDone
  \/ StopBegins \/ StopSignalsDone \/ TimerFires \/ PumpTimer
  \/ WorkerJoined \/ AbandonWorker \/ DiscardMessages

Next == (\E k \in Kits : KitStep(k)) \/ WorkerStep \/ UIStep \/ Terminated
Spec == Init /\ [][Next]_vars

\* Both threads run; a user answers every box; kits that are not killed go on
\* with a call they have begun.  Nobody has to close the game or time out.
WorkerFairness ==
  WF_vars(StartWorker \/ CreatePipe \/ ClientArrives \/ StopWhileListening \/ ServeNext
          \/ ReadCommand \/ ReadEnds \/ Marshal \/ Post \/ WakeOnDone
          \/ WakeOnStop \/ WriteReply \/ FlushReply \/ ClosePipe)
UIFairness ==
  /\ WF_vars(BeginCommand \/ PublishResponse \/ SignalDone \/ StopSignalsDone
             \/ WorkerJoined \/ DiscardMessages)
  /\ WF_vars(PumpTimer) /\ WF_vars(TimerFires) /\ WF_vars(AbandonWorker)
KitFairness ==
  \A k \in Kits : WF_vars(Ask(k) \/ Receive(k) \/ CloseEnd(k) \/ CallFails(k))
FairSpec == Spec /\ WorkerFairness /\ UIFairness /\ KitFairness
-------------------------------------------------------------------------------
(* Properties *)

\* A kit's answer is about the command it wrote, an "OK" only ever carries the
\* response of a command that has ended, and a late completion signal of an
\* abandoned command never delivers an empty reply (marshal_command_to_main_
\* thread's completed test, original-bugs.md row 34).
OwnReply ==
  \A n \in Request : outcome[n] # NoReply =>
    /\ outcome[n].of = n
    /\ outcome[n].kind # "empty"
    /\ outcome[n].kind = "ok" => context[n] = "done"

\* One auto-reset event is shared by all commands, nested and abandoned ones
\* included; a worker whose command is done is still certain to be woken.
NoLostWakeup ==
  worker = "wait" /\ context[serving] = "done" =>
    \/ doneEvent \/ stopEvent
    \/ \E i \in DOMAIN stack : stack[i].command = serving

\* stop() leaves no command waiting in the message queue and none half run:
\* each posted handle has been run or deleted (discard_pipe_messages).
StopDrains ==
  ui = "stopped" => /\ queue = <<>> /\ stack = <<>>
                    /\ \A n \in Request : context[n] \notin {"queued", "running"}

\* The worker disconnects a client that is still there only when it has read
\* the reply written for it: write is followed by a flush.
NoReplyDiscarded ==
  [][worker = "close" /\ worker' # "close" => outbox = NoReply \/ pipe = "broken"]_vars

\* A kit that has written a command gets an answer or an error, whatever the
\* threads, the other kits and a stop of the server do.
CallReturns == \A k \in Kits : kit[k] = "asked" ~> kit[k] # "asked"

\* stop(), once begun, returns: the join pumps messages so that a worker and
\* the UI thread never wait for each other.
StopReturns == ui = "signalling" ~> ui = "stopped"

\* The server, its threads and its events implement the promise made to kits:
\* run at most once, never after the close, "OK" only after the end, and a
\* refused command never run.
Promise == INSTANCE KitRequests WITH
  sent <- asked,
  progress <- [n \in Request |-> IF context[n] \in {"running", "done"}
                                  THEN context[n] ELSE "new"],
  verdict <- [n \in Request |->
                CASE outcome[n].kind \in {"timeout", "shutdown", "lost"} -> "error"
                  [] OTHER -> outcome[n].kind],
  open <- ui \in {"serving", "signalling", "joining"}
KeepsPromise == Promise!Spec
=============================================================================
