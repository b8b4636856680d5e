--------------------------- MODULE PipeServerProofs ---------------------------
(***************************************************************************)
(* Proofs about the commands of the kits, on the way and when they run:    *)
(* PipeServer for any set of kits and any number of commands, and, in its  *)
(* second half, CaosScript for any scripts, objects and stack.             *)
(*                                                                         *)
(* For the pipe the inductive invariant says where the one command in flight*)
(* is, what the shared contexts say about the queue and the UI thread's stack,*)
(* and what the phases of stop exclude.                                    *)
(***************************************************************************)
EXTENDS PipeServer, CaosScript, SequenceFilterProofs, SequenceTheorems,
        FiniteSetTheorems, TLAPS

\* No command is between the kit and its reply.
Fresh == inbox = 0 /\ serving = 0 /\ outbox = NoReply

HoldsCommand == worker \in {"marshal", "post", "wait", "write"}

\* The pipe has a client only from its connection to its close.
PipeInv ==
  /\ pipe \in {"none", "listening"} => client = NoKit /\ Fresh
  /\ pipe = "none" => worker \in {"start", "create", "exited"}
  /\ pipe = "listening" => worker = "connect" \/ worker = "close"
  /\ worker \in {"start", "create", "exited"} => pipe = "none"
  /\ HoldsCommand <=> serving # 0
  /\ worker = "connect" => outbox = NoReply
  /\ \A k \in Kits : kit[k] = "connected" /\ HasPipe(k) => Fresh
  /\ \A k \in Kits : kit[k] = "asked" /\ HasPipe(k) => asking[k] = asked
  /\ \A k \in Kits : kit[k] = "asked" => asking[k] # 0

\* Whatever is under way is about the command written last.
LatestInv ==
  /\ inbox # 0 => inbox = asked /\ serving = 0
  /\ serving # 0 => serving = asked
  /\ \A n \in Request : n > asked => context[n] = "none"
  /\ inbox # 0 => context[inbox] = "none"
  /\ worker \in {"marshal", "post"} => context[serving] = "none"

Truthful(r, n) ==
  /\ r.of = n /\ r.kind # "empty"
  /\ r.kind = "ok" => context[n] = "done"

ReplyInv ==
  /\ worker = "write" => response # NoReply /\ Truthful(response, serving)
  /\ outbox # NoReply => Truthful(outbox, asked)

\* Queue, stack and contexts agree.
QueueInv ==
  /\ \A i \in DOMAIN queue : context[queue[i]] = "queued"
  /\ \A i, j \in DOMAIN queue : queue[i] = queue[j] => i = j
  /\ \A n \in Request : context[n] = "queued" =>
       \E i \in DOMAIN queue : queue[i] = n
StackInv ==
  /\ \A i \in DOMAIN stack :
       context[stack[i].command] = IF stack[i].published THEN "done" ELSE "running"
  /\ \A i, j \in DOMAIN stack : stack[i].command = stack[j].command => i = j
  /\ \A i \in DOMAIN stack : stack[i].published => i = Len(stack)
  /\ \A n \in Request : context[n] = "running" =>
       \E i \in DOMAIN stack : stack[i].command = n

StopInv ==
  /\ ui = "serving" <=> ~stopEvent
  /\ ui \in {"signalling", "discarding", "stopped"} => stack = <<>>
  /\ ui \in {"discarding", "stopped"} => worker \in {"exited", "abandoned"}
  /\ ui = "stopped" => queue = <<>>

\* A reply stays unread only while the worker flushes it, or nobody reads it.
FlushInv ==
  outbox # NoReply => /\ inbox = 0
                      /\ pipe # "broken" => worker \in {"flush", "abandoned"}
                      /\ worker \in {"flush", "serve", "read", "close", "abandoned"}

\* A kit that waits has no outcome yet, and no two kits wait for one command.
OutcomeInv ==
  /\ \A n \in Request : outcome[n] # NoReply => n <= asked
  /\ \A k \in Kits : kit[k] = "asked" =>
       asking[k] <= asked /\ outcome[asking[k]] = NoReply
  /\ \A k, l \in Kits : kit[k] = "asked" /\ kit[l] = "asked"
                        /\ asking[k] = asking[l] => k = l

\* A command reported as refused has not been posted.
RefusedInv ==
  /\ \A n \in Request : outcome[n].kind = "refused" =>
       context[n] = "none" /\ n # inbox /\ n # serving
  /\ response.kind = "refused" => worker = "write" /\ context[serving] = "none"
  /\ outbox.kind = "refused" => context[asked] = "none"

IInv == TypeOK /\ PipeInv /\ LatestInv /\ ReplyInv /\ QueueInv /\ StackInv
        /\ StopInv /\ OwnReply /\ NoLostWakeup /\ FlushInv /\ OutcomeInv
        /\ RefusedInv

-------------------------------------------------------------------------------
(* The two things that happen to the innermost frame of the UI thread. *)

Frame == [command : Request, published : BOOLEAN]

LEMMA PopFrame ==
  ASSUME stack \in Seq(Frame), stack # <<>>, SignalDone
  PROVE  /\ stack' \in Seq(Frame) /\ Len(stack') = Len(stack) - 1
         /\ \A i \in DOMAIN stack' : i \in DOMAIN stack /\ stack'[i] = stack[i]
<1>1. Len(stack) \in Nat /\ Len(stack) > 0
  OBVIOUS
<1> DEFINE n == Len(stack) - 1
<1>2. n \in Nat /\ \A i \in 1..n : stack[i] \in Frame
  BY <1>1
<1>3. /\ SubSeq(stack, 1, n) \in Seq(Frame)
      /\ Len(SubSeq(stack, 1, n)) = IF 1 <= n THEN n - 1 + 1 ELSE 0
      /\ \A i \in 1..n - 1 + 1 : SubSeq(stack, 1, n)[i] = stack[1 + i - 1]
  <2> HIDE DEF n
  <2> QED BY <1>2, SubSeqProperties
<1>4. /\ stack' \in Seq(Frame) /\ Len(stack') = n
      /\ \A i \in 1..n : stack'[i] = stack[i]
  <2>1. stack' = SubSeq(stack, 1, n)
    BY DEF SignalDone
  <2> HIDE DEF n
  <2>2. Len(SubSeq(stack, 1, n)) = n
    BY <1>2, <1>3
  <2>3. \A i \in 1..n : SubSeq(stack, 1, n)[i] = stack[i]
    BY <1>2, <1>3
  <2> QED BY <1>3, <2>1, <2>2, <2>3
<1>5. DOMAIN stack' = 1..Len(stack) - 1 /\ DOMAIN stack = 1..Len(stack)
  BY <1>1, <1>4
<1> QED BY <1>1, <1>4, <1>5, Z3

LEMMA HeadCommand ==
  ASSUME TypeOK, QueueInv, BeginCommand
  PROVE  /\ Head(queue) \in Request /\ context[Head(queue)] = "queued"
         /\ Head(queue) = queue[1] /\ queue' \in Seq(Request)
         /\ \A n \in Request :
              context'[n] = IF n = Head(queue) THEN "running" ELSE context[n]
<1>1. /\ queue \in Seq(Request) /\ queue # <<>>
  BY DEF TypeOK, BeginCommand
<1>2. Head(queue) = queue[1] /\ 1 \in DOMAIN queue /\ Head(queue) \in Request
  BY <1>1
<1>3. queue' \in Seq(Request)
  BY <1>1 DEF BeginCommand
<1>4. \A n \in Request : context'[n] = IF n = Head(queue) THEN "running" ELSE context[n]
  BY <1>2 DEF BeginCommand, TypeOK
<1> QED BY <1>2, <1>3, <1>4 DEF QueueInv

LEMMA PublishFrame ==
  ASSUME stack \in Seq(Frame), PublishResponse
  PROVE  /\ stack' \in Seq(Frame) /\ Len(stack') = Len(stack)
         /\ Top \in Frame /\ Len(stack) \in DOMAIN stack
         /\ stack'[Len(stack)] = [command |-> Top.command, published |-> TRUE]
         /\ \A i \in DOMAIN stack : i # Len(stack) => stack'[i] = stack[i]
<1>1. /\ Len(stack) \in Nat /\ Len(stack) > 0 /\ DOMAIN stack = 1..Len(stack)
      /\ Top \in Frame
  BY DEF PublishResponse, Top
<1>2. [command |-> Top.command, published |-> TRUE] \in Frame
  BY <1>1 DEF Frame
<1>3. stack' = [stack EXCEPT ![Len(stack)] =
                  [command |-> Top.command, published |-> TRUE]]
  BY DEF PublishResponse
<1> QED BY <1>1, <1>2, <1>3

-------------------------------------------------------------------------------
LEMMA TypeStep == ASSUME IInv, [Next]_vars PROVE TypeOK'
<1> USE KitsAssumption, BoundsAssumption DEF IInv, TypeOK, Request, Reply, ReplyKind, NoReply, Respond, ReadResponse, PipeInv, HoldsCommand, HasPipe, PumpsMessages, Top,
         kitVars, pipeVars, workerVars, uiVars, eventVars
<1>0. CASE UNCHANGED vars BY <1>0 DEF vars
<1>1. ASSUME NEW k \in Kits, KitStep(k) PROVE TypeOK'
  <2>1. CASE Connect(k) BY <2>1 DEF Connect
  <2>2. CASE Ask(k) BY <2>2 DEF Ask
  <2>3. CASE Receive(k) BY <2>3 DEF Receive
  <2>4. CASE CloseEnd(k) BY <2>4 DEF CloseEnd
  <2>5. CASE CallFails(k) BY <2>5 DEF CallFails
  <2>6. CASE Die(k) BY <2>6 DEF Die
    <2> QED BY <1>1, <2>1, <2>2, <2>3, <2>4, <2>5, <2>6 DEF KitStep
<1>2. CASE WorkerStep
  <2>1. CASE StartWorker BY <2>1 DEF StartWorker
  <2>2. CASE CreatePipe BY <2>2 DEF CreatePipe
  <2>3. CASE CreateFails BY <2>3 DEF CreateFails
  <2>4. CASE ClientArrives BY <2>4 DEF ClientArrives
  <2>5. CASE StopWhileListening BY <2>5 DEF StopWhileListening
  <2>6. CASE ClientNotServed BY <2>6 DEF ClientNotServed
  <2>7. CASE NoConnectEvent BY <2>7 DEF NoConnectEvent
  <2>8. CASE ServeNext BY <2>8 DEF ServeNext
  <2>9. CASE ReadCommand BY <2>9 DEF ReadCommand
  <2>10. CASE ReadEnds BY <2>10 DEF ReadEnds
  <2>11. CASE Marshal BY <2>11 DEF Marshal
  <2>12. CASE Post BY <2>12 DEF Post
  <2>13. CASE PostFails BY <2>13 DEF PostFails
  <2>14. CASE WakeOnDone
    <3>1. CASE context[serving] = "done"
      <4>1. serving \in Request /\ response' = [kind |-> "ok", of |-> serving] /\ worker' = "write"
        BY <2>14, <3>1 DEF WakeOnDone, Respond, ReadResponse, PipeInv, HoldsCommand
      <4>2. response' \in Reply
        BY <4>1 DEF Reply, ReplyKind
      <4> QED BY <2>14, <4>1, <4>2 DEF WakeOnDone, kitVars, pipeVars, uiVars
    <3>2. CASE context[serving] # "done"
      BY <2>14, <3>2 DEF WakeOnDone, kitVars, pipeVars, uiVars
    <3> QED BY <3>1, <3>2
  <2>15. CASE WakeOnStop BY <2>15 DEF WakeOnStop
  <2>16. CASE TimeOut BY <2>16 DEF TimeOut
  <2>17. CASE WriteReply BY <2>17 DEF WriteReply
  <2>18. CASE FlushReply BY <2>18 DEF FlushReply
  <2>19. CASE ClosePipe BY <2>19 DEF ClosePipe
    <2> QED BY <1>2, <2>1, <2>2, <2>3, <2>4, <2>5, <2>6, <2>7, <2>8, <2>9,
             <2>10, <2>11, <2>12, <2>13, <2>14, <2>15, <2>16, <2>17, <2>18,
             <2>19 DEF WorkerStep
<1>3. CASE UIStep
  <2>1. CASE BeginCommand
    <3>1. Head(queue) \in Request /\ queue' \in Seq(Request)
      BY <2>1 DEF BeginCommand
    <3>2. stack' \in Seq([command : Request, published : BOOLEAN])
      BY <2>1, <3>1 DEF BeginCommand
    <3>3. context' \in [Request -> {"none", "queued", "running", "done", "dropped"}]
      BY <2>1, <3>1 DEF BeginCommand
    <3>4. timerDue' \in BOOLEAN /\ stopEvent' \in BOOLEAN /\ doneEvent' \in BOOLEAN
      BY <2>1 DEF BeginCommand
    <3>5. UNCHANGED <<kitVars, pipeVars, workerVars, ui>>
      BY <2>1 DEF BeginCommand
    <3> QED BY <3>1, <3>2, <3>3, <3>4, <3>5
  <2>2. CASE PublishResponse
    <3>1. stack' \in Seq(Frame)
      BY <2>2, PublishFrame DEF Frame
    <3>2. context' \in [Request -> {"none", "queued", "running", "done", "dropped"}]
      BY <2>2 DEF PublishResponse
    <3> QED BY <2>2, <3>1, <3>2 DEF PublishResponse, Frame, kitVars, pipeVars, workerVars, eventVars
  <2>3. CASE SignalDone
    <3>1. stack' \in Seq(Frame)
      BY <2>3, PopFrame DEF SignalDone, Frame
    <3> QED BY <2>3, <3>1 DEF SignalDone, Frame, kitVars, pipeVars, workerVars
  <2>4. CASE StopBegins BY <2>4 DEF StopBegins
  <2>5. CASE StopSignalsDone BY <2>5 DEF StopSignalsDone
  <2>6. CASE TimerFires BY <2>6 DEF TimerFires
  <2>7. CASE PumpTimer
    <3>1. timerDue' \in BOOLEAN
      BY <2>7 DEF PumpTimer
    <3> QED BY <2>7, <3>1 DEF PumpTimer, kitVars, pipeVars, workerVars, eventVars
  <2>8. CASE WorkerJoined BY <2>8 DEF WorkerJoined
  <2>9. CASE AbandonWorker BY <2>9 DEF AbandonWorker
  <2>10. CASE DiscardMessages BY <2>10 DEF DiscardMessages
    <2> QED BY <1>3, <2>1, <2>2, <2>3, <2>4, <2>5, <2>6, <2>7, <2>8, <2>9,
             <2>10 DEF UIStep
<1> QED BY <1>0, <1>1, <1>2, <1>3 DEF Next, Terminated

LEMMA PipeStep == ASSUME IInv, [Next]_vars PROVE PipeInv'
<1> USE KitsAssumption, BoundsAssumption DEF IInv, PipeInv, Fresh, HoldsCommand, TypeOK, LatestInv, HasPipe, Respond, ReadResponse, Request, Reply, ReplyKind, NoReply,
         kitVars, pipeVars, workerVars, uiVars, eventVars
<1>0. CASE UNCHANGED vars BY <1>0 DEF vars
<1>1. ASSUME NEW k \in Kits, KitStep(k) PROVE PipeInv'
  <2>1. CASE Connect(k) BY <2>1 DEF Connect
  <2>2. CASE Ask(k) BY <2>2 DEF Ask
  <2>3. CASE Receive(k) BY <2>3 DEF Receive
  <2>4. CASE CloseEnd(k) BY <2>4 DEF CloseEnd
  <2>5. CASE CallFails(k) BY <2>5 DEF CallFails
  <2>6. CASE Die(k) BY <2>6 DEF Die
    <2> QED BY <1>1, <2>1, <2>2, <2>3, <2>4, <2>5, <2>6 DEF KitStep
<1>2. CASE WorkerStep
  <2>1. CASE StartWorker BY <2>1 DEF StartWorker
  <2>2. CASE CreatePipe BY <2>2 DEF CreatePipe
  <2>3. CASE CreateFails BY <2>3 DEF CreateFails
  <2>4. CASE ClientArrives BY <2>4 DEF ClientArrives
  <2>5. CASE StopWhileListening BY <2>5 DEF StopWhileListening
  <2>6. CASE ClientNotServed BY <2>6 DEF ClientNotServed
  <2>7. CASE NoConnectEvent BY <2>7 DEF NoConnectEvent
  <2>8. CASE ServeNext BY <2>8 DEF ServeNext
  <2>9. CASE ReadCommand BY <2>9 DEF ReadCommand
  <2>10. CASE ReadEnds BY <2>10 DEF ReadEnds
  <2>11. CASE Marshal BY <2>11 DEF Marshal
  <2>12. CASE Post BY <2>12 DEF Post
  <2>13. CASE PostFails BY <2>13 DEF PostFails
  <2>14. CASE WakeOnDone BY <2>14 DEF WakeOnDone
  <2>15. CASE WakeOnStop BY <2>15 DEF WakeOnStop
  <2>16. CASE TimeOut BY <2>16 DEF TimeOut
  <2>17. CASE WriteReply BY <2>17 DEF WriteReply
  <2>18. CASE FlushReply BY <2>18 DEF FlushReply
  <2>19. CASE ClosePipe BY <2>19 DEF ClosePipe
    <2> QED BY <1>2, <2>1, <2>2, <2>3, <2>4, <2>5, <2>6, <2>7, <2>8, <2>9,
             <2>10, <2>11, <2>12, <2>13, <2>14, <2>15, <2>16, <2>17, <2>18,
             <2>19 DEF WorkerStep
<1>3. CASE UIStep
  <2>1. CASE BeginCommand BY <2>1 DEF BeginCommand
  <2>2. CASE PublishResponse BY <2>2 DEF PublishResponse
  <2>3. CASE SignalDone BY <2>3 DEF SignalDone
  <2>4. CASE StopBegins BY <2>4 DEF StopBegins
  <2>5. CASE StopSignalsDone BY <2>5 DEF StopSignalsDone
  <2>6. CASE TimerFires BY <2>6 DEF TimerFires
  <2>7. CASE PumpTimer BY <2>7 DEF PumpTimer
  <2>8. CASE WorkerJoined BY <2>8 DEF WorkerJoined
  <2>9. CASE AbandonWorker BY <2>9 DEF AbandonWorker
  <2>10. CASE DiscardMessages BY <2>10 DEF DiscardMessages
    <2> QED BY <1>3, <2>1, <2>2, <2>3, <2>4, <2>5, <2>6, <2>7, <2>8, <2>9,
             <2>10 DEF UIStep
<1> QED BY <1>0, <1>1, <1>2, <1>3 DEF Next, Terminated

LEMMA LatestStep == ASSUME IInv, [Next]_vars PROVE LatestInv'
<1> USE KitsAssumption, BoundsAssumption DEF IInv, LatestInv, PipeInv, Fresh, HoldsCommand, TypeOK, QueueInv, StackInv, HasPipe, Respond, ReadResponse, Top, Request, Reply, ReplyKind, NoReply,
         kitVars, pipeVars, workerVars, uiVars, eventVars
<1>0. CASE UNCHANGED vars BY <1>0 DEF vars
<1>1. ASSUME NEW k \in Kits, KitStep(k) PROVE LatestInv'
  <2>1. CASE Connect(k) BY <2>1 DEF Connect
  <2>2. CASE Ask(k) BY <2>2 DEF Ask
  <2>3. CASE Receive(k) BY <2>3 DEF Receive
  <2>4. CASE CloseEnd(k) BY <2>4 DEF CloseEnd
  <2>5. CASE CallFails(k) BY <2>5 DEF CallFails
  <2>6. CASE Die(k) BY <2>6 DEF Die
    <2> QED BY <1>1, <2>1, <2>2, <2>3, <2>4, <2>5, <2>6 DEF KitStep
<1>2. CASE WorkerStep
  <2>1. CASE StartWorker BY <2>1 DEF StartWorker
  <2>2. CASE CreatePipe BY <2>2 DEF CreatePipe
  <2>3. CASE CreateFails BY <2>3 DEF CreateFails
  <2>4. CASE ClientArrives BY <2>4 DEF ClientArrives
  <2>5. CASE StopWhileListening BY <2>5 DEF StopWhileListening
  <2>6. CASE ClientNotServed BY <2>6 DEF ClientNotServed
  <2>7. CASE NoConnectEvent BY <2>7 DEF NoConnectEvent
  <2>8. CASE ServeNext BY <2>8 DEF ServeNext
  <2>9. CASE ReadCommand BY <2>9 DEF ReadCommand
  <2>10. CASE ReadEnds BY <2>10 DEF ReadEnds
  <2>11. CASE Marshal BY <2>11 DEF Marshal
  <2>12. CASE Post BY <2>12 DEF Post
  <2>13. CASE PostFails BY <2>13 DEF PostFails
  <2>14. CASE WakeOnDone BY <2>14 DEF WakeOnDone
  <2>15. CASE WakeOnStop BY <2>15 DEF WakeOnStop
  <2>16. CASE TimeOut BY <2>16 DEF TimeOut
  <2>17. CASE WriteReply BY <2>17 DEF WriteReply
  <2>18. CASE FlushReply BY <2>18 DEF FlushReply
  <2>19. CASE ClosePipe BY <2>19 DEF ClosePipe
    <2> QED BY <1>2, <2>1, <2>2, <2>3, <2>4, <2>5, <2>6, <2>7, <2>8, <2>9,
             <2>10, <2>11, <2>12, <2>13, <2>14, <2>15, <2>16, <2>17, <2>18,
             <2>19 DEF WorkerStep
<1>3. CASE UIStep
  <2>1. CASE BeginCommand BY <2>1 DEF BeginCommand
  <2>2. CASE PublishResponse BY <2>2 DEF PublishResponse
  <2>3. CASE SignalDone BY <2>3 DEF SignalDone
  <2>4. CASE StopBegins BY <2>4 DEF StopBegins
  <2>5. CASE StopSignalsDone BY <2>5 DEF StopSignalsDone
  <2>6. CASE TimerFires BY <2>6 DEF TimerFires
  <2>7. CASE PumpTimer BY <2>7 DEF PumpTimer
  <2>8. CASE WorkerJoined BY <2>8 DEF WorkerJoined
  <2>9. CASE AbandonWorker BY <2>9 DEF AbandonWorker
  <2>10. CASE DiscardMessages BY <2>10 DEF DiscardMessages
    <2> QED BY <1>3, <2>1, <2>2, <2>3, <2>4, <2>5, <2>6, <2>7, <2>8, <2>9,
             <2>10 DEF UIStep
<1> QED BY <1>0, <1>1, <1>2, <1>3 DEF Next, Terminated

LEMMA ReplyStep == ASSUME IInv, [Next]_vars PROVE ReplyInv'
<1> USE KitsAssumption, BoundsAssumption DEF IInv, ReplyInv, Truthful, LatestInv, PipeInv, Fresh, HoldsCommand, TypeOK, QueueInv, StackInv, HasPipe, Respond, ReadResponse, Top, Request, Reply, ReplyKind, NoReply,
         kitVars, pipeVars, workerVars, uiVars, eventVars
<1>0. CASE UNCHANGED vars BY <1>0 DEF vars
<1>1. ASSUME NEW k \in Kits, KitStep(k) PROVE ReplyInv'
  <2>1. CASE Connect(k) BY <2>1 DEF Connect
  <2>2. CASE Ask(k) BY <2>2 DEF Ask
  <2>3. CASE Receive(k) BY <2>3 DEF Receive
  <2>4. CASE CloseEnd(k) BY <2>4 DEF CloseEnd
  <2>5. CASE CallFails(k) BY <2>5 DEF CallFails
  <2>6. CASE Die(k) BY <2>6 DEF Die
    <2> QED BY <1>1, <2>1, <2>2, <2>3, <2>4, <2>5, <2>6 DEF KitStep
<1>2. CASE WorkerStep
  <2>1. CASE StartWorker BY <2>1 DEF StartWorker
  <2>2. CASE CreatePipe BY <2>2 DEF CreatePipe
  <2>3. CASE CreateFails BY <2>3 DEF CreateFails
  <2>4. CASE ClientArrives BY <2>4 DEF ClientArrives
  <2>5. CASE StopWhileListening BY <2>5 DEF StopWhileListening
  <2>6. CASE ClientNotServed BY <2>6 DEF ClientNotServed
  <2>7. CASE NoConnectEvent BY <2>7 DEF NoConnectEvent
  <2>8. CASE ServeNext BY <2>8 DEF ServeNext
  <2>9. CASE ReadCommand BY <2>9 DEF ReadCommand
  <2>10. CASE ReadEnds BY <2>10 DEF ReadEnds
  <2>11. CASE Marshal BY <2>11 DEF Marshal
  <2>12. CASE Post BY <2>12 DEF Post
  <2>13. CASE PostFails BY <2>13 DEF PostFails
  <2>14. CASE WakeOnDone BY <2>14 DEF WakeOnDone
  <2>15. CASE WakeOnStop BY <2>15 DEF WakeOnStop
  <2>16. CASE TimeOut BY <2>16 DEF TimeOut
  <2>17. CASE WriteReply BY <2>17 DEF WriteReply
  <2>18. CASE FlushReply BY <2>18 DEF FlushReply
  <2>19. CASE ClosePipe BY <2>19 DEF ClosePipe
    <2> QED BY <1>2, <2>1, <2>2, <2>3, <2>4, <2>5, <2>6, <2>7, <2>8, <2>9,
             <2>10, <2>11, <2>12, <2>13, <2>14, <2>15, <2>16, <2>17, <2>18,
             <2>19 DEF WorkerStep
<1>3. CASE UIStep
  <2>1. CASE BeginCommand BY <2>1 DEF BeginCommand
  <2>2. CASE PublishResponse BY <2>2 DEF PublishResponse
  <2>3. CASE SignalDone BY <2>3 DEF SignalDone
  <2>4. CASE StopBegins BY <2>4 DEF StopBegins
  <2>5. CASE StopSignalsDone BY <2>5 DEF StopSignalsDone
  <2>6. CASE TimerFires BY <2>6 DEF TimerFires
  <2>7. CASE PumpTimer BY <2>7 DEF PumpTimer
  <2>8. CASE WorkerJoined BY <2>8 DEF WorkerJoined
  <2>9. CASE AbandonWorker BY <2>9 DEF AbandonWorker
  <2>10. CASE DiscardMessages BY <2>10 DEF DiscardMessages
    <2> QED BY <1>3, <2>1, <2>2, <2>3, <2>4, <2>5, <2>6, <2>7, <2>8, <2>9,
             <2>10 DEF UIStep
<1> QED BY <1>0, <1>1, <1>2, <1>3 DEF Next, Terminated

LEMMA StopStep == ASSUME IInv, [Next]_vars PROVE StopInv'
<1> USE KitsAssumption, BoundsAssumption DEF IInv, StopInv, PipeInv, Respond, ReadResponse, PumpsMessages, TypeOK,
         kitVars, pipeVars, workerVars, uiVars, eventVars
<1>0. CASE UNCHANGED vars BY <1>0 DEF vars
<1>1. ASSUME NEW k \in Kits, KitStep(k) PROVE StopInv'
  <2>1. CASE Connect(k) BY <2>1 DEF Connect
  <2>2. CASE Ask(k) BY <2>2 DEF Ask
  <2>3. CASE Receive(k) BY <2>3 DEF Receive
  <2>4. CASE CloseEnd(k) BY <2>4 DEF CloseEnd
  <2>5. CASE CallFails(k) BY <2>5 DEF CallFails
  <2>6. CASE Die(k) BY <2>6 DEF Die
    <2> QED BY <1>1, <2>1, <2>2, <2>3, <2>4, <2>5, <2>6 DEF KitStep
<1>2. CASE WorkerStep
  <2>1. CASE StartWorker BY <2>1 DEF StartWorker
  <2>2. CASE CreatePipe BY <2>2 DEF CreatePipe
  <2>3. CASE CreateFails BY <2>3 DEF CreateFails
  <2>4. CASE ClientArrives BY <2>4 DEF ClientArrives
  <2>5. CASE StopWhileListening BY <2>5 DEF StopWhileListening
  <2>6. CASE ClientNotServed BY <2>6 DEF ClientNotServed
  <2>7. CASE NoConnectEvent BY <2>7 DEF NoConnectEvent
  <2>8. CASE ServeNext BY <2>8 DEF ServeNext
  <2>9. CASE ReadCommand BY <2>9 DEF ReadCommand
  <2>10. CASE ReadEnds BY <2>10 DEF ReadEnds
  <2>11. CASE Marshal BY <2>11 DEF Marshal
  <2>12. CASE Post BY <2>12 DEF Post
  <2>13. CASE PostFails BY <2>13 DEF PostFails
  <2>14. CASE WakeOnDone BY <2>14 DEF WakeOnDone
  <2>15. CASE WakeOnStop BY <2>15 DEF WakeOnStop
  <2>16. CASE TimeOut BY <2>16 DEF TimeOut
  <2>17. CASE WriteReply BY <2>17 DEF WriteReply
  <2>18. CASE FlushReply BY <2>18 DEF FlushReply
  <2>19. CASE ClosePipe BY <2>19 DEF ClosePipe
    <2> QED BY <1>2, <2>1, <2>2, <2>3, <2>4, <2>5, <2>6, <2>7, <2>8, <2>9,
             <2>10, <2>11, <2>12, <2>13, <2>14, <2>15, <2>16, <2>17, <2>18,
             <2>19 DEF WorkerStep
<1>3. CASE UIStep
  <2>1. CASE BeginCommand BY <2>1 DEF BeginCommand
  <2>2. CASE PublishResponse BY <2>2 DEF PublishResponse
  <2>3. CASE SignalDone BY <2>3 DEF SignalDone
  <2>4. CASE StopBegins BY <2>4 DEF StopBegins
  <2>5. CASE StopSignalsDone BY <2>5 DEF StopSignalsDone
  <2>6. CASE TimerFires BY <2>6 DEF TimerFires
  <2>7. CASE PumpTimer BY <2>7 DEF PumpTimer
  <2>8. CASE WorkerJoined BY <2>8 DEF WorkerJoined
  <2>9. CASE AbandonWorker BY <2>9 DEF AbandonWorker
  <2>10. CASE DiscardMessages BY <2>10 DEF DiscardMessages
    <2> QED BY <1>3, <2>1, <2>2, <2>3, <2>4, <2>5, <2>6, <2>7, <2>8, <2>9,
             <2>10 DEF UIStep
<1> QED BY <1>0, <1>1, <1>2, <1>3 DEF Next, Terminated

LEMMA OwnReplyStep == ASSUME IInv, [Next]_vars PROVE OwnReply'
<1> USE KitsAssumption, BoundsAssumption DEF IInv, OwnReply, ReplyInv, Truthful, PipeInv, LatestInv, QueueInv, TypeOK, HasPipe, Respond, ReadResponse, Top, Request, Reply, ReplyKind, NoReply,
         kitVars, pipeVars, workerVars, uiVars, eventVars
<1>0. CASE UNCHANGED vars BY <1>0 DEF vars
<1>1. ASSUME NEW k \in Kits, KitStep(k) PROVE OwnReply'
  <2>1. CASE Connect(k) BY <2>1 DEF Connect
  <2>2. CASE Ask(k) BY <2>2 DEF Ask
  <2>3. CASE Receive(k) BY <2>3 DEF Receive
  <2>4. CASE CloseEnd(k) BY <2>4 DEF CloseEnd
  <2>5. CASE CallFails(k) BY <2>5 DEF CallFails
  <2>6. CASE Die(k) BY <2>6 DEF Die
    <2> QED BY <1>1, <2>1, <2>2, <2>3, <2>4, <2>5, <2>6 DEF KitStep
<1>2. CASE WorkerStep
  <2>1. CASE StartWorker BY <2>1 DEF StartWorker
  <2>2. CASE CreatePipe BY <2>2 DEF CreatePipe
  <2>3. CASE CreateFails BY <2>3 DEF CreateFails
  <2>4. CASE ClientArrives BY <2>4 DEF ClientArrives
  <2>5. CASE StopWhileListening BY <2>5 DEF StopWhileListening
  <2>6. CASE ClientNotServed BY <2>6 DEF ClientNotServed
  <2>7. CASE NoConnectEvent BY <2>7 DEF NoConnectEvent
  <2>8. CASE ServeNext BY <2>8 DEF ServeNext
  <2>9. CASE ReadCommand BY <2>9 DEF ReadCommand
  <2>10. CASE ReadEnds BY <2>10 DEF ReadEnds
  <2>11. CASE Marshal BY <2>11 DEF Marshal
  <2>12. CASE Post BY <2>12 DEF Post
  <2>13. CASE PostFails BY <2>13 DEF PostFails
  <2>14. CASE WakeOnDone BY <2>14 DEF WakeOnDone
  <2>15. CASE WakeOnStop BY <2>15 DEF WakeOnStop
  <2>16. CASE TimeOut BY <2>16 DEF TimeOut
  <2>17. CASE WriteReply BY <2>17 DEF WriteReply
  <2>18. CASE FlushReply BY <2>18 DEF FlushReply
  <2>19. CASE ClosePipe BY <2>19 DEF ClosePipe
    <2> QED BY <1>2, <2>1, <2>2, <2>3, <2>4, <2>5, <2>6, <2>7, <2>8, <2>9,
             <2>10, <2>11, <2>12, <2>13, <2>14, <2>15, <2>16, <2>17, <2>18,
             <2>19 DEF WorkerStep
<1>3. CASE UIStep
  <2>1. CASE BeginCommand BY <2>1 DEF BeginCommand
  <2>2. CASE PublishResponse BY <2>2 DEF PublishResponse
  <2>3. CASE SignalDone BY <2>3 DEF SignalDone
  <2>4. CASE StopBegins BY <2>4 DEF StopBegins
  <2>5. CASE StopSignalsDone BY <2>5 DEF StopSignalsDone
  <2>6. CASE TimerFires BY <2>6 DEF TimerFires
  <2>7. CASE PumpTimer BY <2>7 DEF PumpTimer
  <2>8. CASE WorkerJoined BY <2>8 DEF WorkerJoined
  <2>9. CASE AbandonWorker BY <2>9 DEF AbandonWorker
  <2>10. CASE DiscardMessages BY <2>10 DEF DiscardMessages
    <2> QED BY <1>3, <2>1, <2>2, <2>3, <2>4, <2>5, <2>6, <2>7, <2>8, <2>9,
             <2>10 DEF UIStep
<1> QED BY <1>0, <1>1, <1>2, <1>3 DEF Next, Terminated

\* The actions that touch the queue, the stack or a context.
LEMMA QueueFootprint ==
  ASSUME [Next]_vars
  PROVE  \/ UNCHANGED <<queue, stack, context>>
         \/ Post \/ BeginCommand \/ PublishResponse \/ SignalDone \/ DiscardMessages
<1> USE DEF kitVars, pipeVars, workerVars, uiVars, eventVars
<1>0. CASE UNCHANGED vars BY <1>0 DEF vars
<1>1. ASSUME NEW k \in Kits, KitStep(k) PROVE UNCHANGED <<queue, stack, context>>
  BY <1>1 DEF KitStep, Connect, Ask, Receive, CloseEnd, CallFails, Die
<1>2. CASE WorkerStep
  BY <1>2 DEF WorkerStep, StartWorker, CreatePipe, CreateFails, ClientArrives,
     StopWhileListening, ClientNotServed, NoConnectEvent, ServeNext,
     ReadCommand, ReadEnds, Marshal, PostFails, WakeOnDone, WakeOnStop,
     TimeOut, WriteReply, FlushReply, ClosePipe
<1>3. CASE UIStep
  BY <1>3 DEF UIStep, StopBegins, StopSignalsDone, TimerFires, PumpTimer,
     WorkerJoined, AbandonWorker
<1> QED BY <1>0, <1>1, <1>2, <1>3 DEF Next, Terminated

\* Each command is queued once.
LEMMA QueueStep == ASSUME IInv, [Next]_vars PROVE QueueInv'
<1> USE DEF IInv
<1>0. CASE UNCHANGED <<queue, stack, context>> BY <1>0 DEF QueueInv
<1>1. CASE Post
  <2>1. /\ serving \in Request /\ context[serving] = "none" /\ queue \in Seq(Request)
        /\ Len(queue) \in Nat /\ DOMAIN queue = 1..Len(queue)
    BY <1>1 DEF Post, PipeInv, HoldsCommand, LatestInv, TypeOK, Request
  <2>2. /\ DOMAIN queue' = 1..Len(queue) + 1 /\ queue'[Len(queue) + 1] = serving
        /\ \A i \in DOMAIN queue : queue'[i] = queue[i]
    BY <1>1, <2>1 DEF Post
  <2>3. \A n \in Request : context'[n] = IF n = serving THEN "queued" ELSE context[n]
    BY <1>1, <2>1 DEF Post, TypeOK
  <2>4. \A i \in DOMAIN queue : queue[i] \in Request /\ queue[i] # serving
    BY <2>1 DEF QueueInv
  <2> QED BY <2>1, <2>2, <2>3, <2>4 DEF QueueInv
<1>2. CASE BeginCommand
  <2>1. /\ Head(queue) = queue[1] /\ queue \in Seq(Request) /\ queue # <<>>
        /\ Len(queue) \in Nat /\ DOMAIN queue = 1..Len(queue)
        /\ queue' = Tail(queue)
    BY <1>2 DEF BeginCommand, TypeOK
  <2>2. /\ DOMAIN queue' = 1..Len(queue) - 1
        /\ \A i \in DOMAIN queue' : queue'[i] = queue[i + 1]
    BY <2>1
  <2>3. \A n \in Request : context'[n] = IF n = queue[1] THEN "running" ELSE context[n]
    BY <1>2, <2>1 DEF BeginCommand, TypeOK
  <2>4. \A i \in DOMAIN queue : queue[i] \in Request
    BY <2>1
  <2>5. \A i \in DOMAIN queue' : i + 1 \in DOMAIN queue /\ i + 1 # 1
    BY <2>1, <2>2
  <2>6. \A i \in DOMAIN queue : i # 1 => i - 1 \in DOMAIN queue' /\ queue'[i - 1] = queue[i]
    BY <2>1, <2>2
  <2>7. \A i \in DOMAIN queue' : context'[queue'[i]] = "queued"
    BY <2>1, <2>2, <2>3, <2>4, <2>5 DEF QueueInv
  <2>8. \A i, j \in DOMAIN queue' : queue'[i] = queue'[j] => i = j
    BY <2>1, <2>2, <2>5 DEF QueueInv
  <2>9. \A n \in Request : context'[n] = "queued" => \E i \in DOMAIN queue' : queue'[i] = n
    <3>1. SUFFICES ASSUME NEW n \in Request, context'[n] = "queued"
                   PROVE  \E i \in DOMAIN queue' : queue'[i] = n
      OBVIOUS
    <3>2. context[n] = "queued" /\ n # queue[1]
      BY <2>3, <3>1
    <3>3. PICK i \in DOMAIN queue : queue[i] = n
      BY <3>2 DEF QueueInv
    <3> QED BY <2>6, <3>2, <3>3
  <2> QED BY <2>7, <2>8, <2>9 DEF QueueInv
<1>3. CASE PublishResponse
  <2>1. context[Top.command] = "running"
    BY <1>3, PublishFrame DEF PublishResponse, StackInv, TypeOK, Frame, Top
  <2> QED BY <1>3, <2>1 DEF PublishResponse, QueueInv, TypeOK
<1>4. CASE SignalDone
  BY <1>4 DEF SignalDone, QueueInv
<1>5. CASE DiscardMessages
  <2>1. DOMAIN queue' = {} /\ \A n \in Request : context'[n] # "queued"
    BY <1>5 DEF DiscardMessages
  <2> QED BY <2>1 DEF QueueInv
<1> QED BY <1>0, <1>1, <1>2, <1>3, <1>4, <1>5, QueueFootprint

LEMMA StackStep == ASSUME IInv, [Next]_vars PROVE StackInv'
<1> USE DEF IInv
<1>0. CASE UNCHANGED <<queue, stack, context>> BY <1>0 DEF StackInv
<1>1. CASE Post
  <2>1. serving \in Request /\ context[serving] = "none" /\ UNCHANGED stack
    BY <1>1 DEF Post, PipeInv, HoldsCommand, LatestInv, TypeOK, Request
  <2>2. \A n \in Request : context'[n] = IF n = serving THEN "queued" ELSE context[n]
    BY <1>1, <2>1 DEF Post, TypeOK
  <2>3. stack \in Seq(Frame)
    BY DEF TypeOK, Frame
  <2>4. \A i \in DOMAIN stack : stack[i].command \in Request /\ stack[i].command # serving
    <3>1. \A i \in DOMAIN stack : stack[i] \in Frame
      BY <2>3
    <3> QED BY <2>1, <3>1 DEF StackInv, Frame
  <2> QED BY <2>1, <2>2, <2>4 DEF StackInv
<1>2. CASE BeginCommand
  <2>1. /\ Head(queue) \in Request /\ context[Head(queue)] = "queued"
        /\ stack \in Seq(Frame) /\ Len(stack) \in Nat
    BY <1>2 DEF BeginCommand, QueueInv, TypeOK, Frame
  <2>2. \A i \in DOMAIN stack : ~stack[i].published /\ context[stack[i].command] = "running"
    BY <1>2, <2>1 DEF BeginCommand, PumpsMessages, Top, StackInv, TypeOK
  <2>3. /\ DOMAIN stack' = 1..Len(stack) + 1 /\ Len(stack') = Len(stack) + 1
        /\ stack'[Len(stack) + 1] = [command |-> Head(queue), published |-> FALSE]
        /\ \A i \in DOMAIN stack : stack'[i] = stack[i]
    BY <1>2, <2>1 DEF BeginCommand
  <2>4. \A n \in Request : context'[n] = IF n = Head(queue) THEN "running" ELSE context[n]
    BY <1>2 DEF BeginCommand, TypeOK
  <2>5. \A i \in DOMAIN stack : stack[i].command \in Request
    <3>1. \A i \in DOMAIN stack : stack[i] \in Frame
      BY <2>1
    <3> QED BY <3>1 DEF Frame
  <2>6. DOMAIN stack = 1..Len(stack)
    BY <2>1
  <2> QED BY <2>1, <2>2, <2>3, <2>4, <2>5, <2>6 DEF StackInv
<1>3. CASE PublishResponse
  <2>1. /\ stack' \in Seq(Frame) /\ stack \in Seq(Frame) /\ Len(stack') = Len(stack)
        /\ Len(stack) \in DOMAIN stack /\ Top \in Frame
        /\ stack'[Len(stack)] = [command |-> Top.command, published |-> TRUE]
        /\ \A i \in DOMAIN stack : i # Len(stack) => stack'[i] = stack[i]
    BY <1>3, PublishFrame DEF TypeOK, Frame
  <2>2. DOMAIN stack' = DOMAIN stack
    BY <2>1
  <2>3. \A n \in Request : context'[n] = IF n = Top.command THEN "done" ELSE context[n]
    BY <1>3 DEF PublishResponse, TypeOK
  <2>4. \A i \in DOMAIN stack : stack[i].command \in Request /\ stack'[i].command = stack[i].command
    <3>1. \A i \in DOMAIN stack : stack[i] \in Frame
      BY <2>1
    <3>2. \A i \in DOMAIN stack : stack[i].command \in Request
      BY <3>1 DEF Frame
    <3> QED BY <2>1, <3>2 DEF Top
  <2>5. /\ Len(stack) \in DOMAIN stack /\ ~stack[Len(stack)].published
        /\ Top = stack[Len(stack)] /\ Top.command \in Request
    BY <1>3, <2>1, <2>4 DEF PublishResponse, Top
  <2>6. \A i \in DOMAIN stack : i # Len(stack) =>
          /\ ~stack'[i].published /\ stack[i].command # Top.command
          /\ context[stack[i].command] = "running"
    BY <2>1, <2>5 DEF StackInv
  <2>7. \A i \in DOMAIN stack' :
          context'[stack'[i].command] = IF stack'[i].published THEN "done" ELSE "running"
    <3>1. \A i \in DOMAIN stack : i # Len(stack) => context'[stack[i].command] = "running"
      BY <2>3, <2>4, <2>6
    <3>2. context'[Top.command] = "done"
      BY <2>3, <2>5
    <3> QED BY <2>1, <2>2, <2>4, <2>6, <3>1, <3>2
  <2>8. \A n \in Request : context'[n] = "running" =>
          \E i \in DOMAIN stack' : stack'[i].command = n
    BY <2>2, <2>3, <2>4 DEF StackInv
  <2>9. \A i, j \in DOMAIN stack' : stack'[i].command = stack'[j].command => i = j
    BY <2>2, <2>4 DEF StackInv
  <2>10. \A i \in DOMAIN stack' : stack'[i].published => i = Len(stack')
    BY <2>1, <2>2, <2>6
  <2> QED BY <2>7, <2>8, <2>9, <2>10 DEF StackInv
<1>4. CASE SignalDone
  <2>1. /\ Len(stack') = Len(stack) - 1 /\ stack' \in Seq(Frame) /\ stack \in Seq(Frame)
        /\ \A i \in DOMAIN stack' : i \in DOMAIN stack /\ stack'[i] = stack[i]
        /\ UNCHANGED context /\ Top.published /\ stack # <<>>
    BY <1>4, PopFrame DEF SignalDone, TypeOK, Frame
  <2>2. /\ DOMAIN stack = 1..Len(stack) /\ DOMAIN stack' = 1..Len(stack) - 1
        /\ Len(stack) \in DOMAIN stack
    BY <2>1
  <2>3. \A n \in Request : context[n] = "running" =>
          \E i \in DOMAIN stack' : stack'[i].command = n
    <3>1. SUFFICES ASSUME NEW n \in Request, context[n] = "running"
                   PROVE \E i \in DOMAIN stack' : stack'[i].command = n
      OBVIOUS
    <3>2. PICK i \in DOMAIN stack : stack[i].command = n
      BY <3>1 DEF StackInv
    <3>3. i # Len(stack)
      BY <2>1, <3>1, <3>2 DEF StackInv, Top
    <3> QED BY <2>1, <2>2, <3>2, <3>3
  <2>4. \A i \in DOMAIN stack' : ~stack'[i].published
    BY <2>1, <2>2 DEF StackInv
  <2> QED BY <2>1, <2>2, <2>3, <2>4 DEF StackInv
<1>5. CASE DiscardMessages
  <2>1. stack = <<>> /\ stack' = <<>>
    BY <1>5 DEF DiscardMessages, StopInv
  <2>2. DOMAIN stack' = {} /\ \A n \in Request : context[n] # "running"
    BY <2>1 DEF StackInv
  <2>3. \A n \in Request : context'[n] # "running"
    BY <1>5, <2>2 DEF DiscardMessages
  <2> QED BY <2>2, <2>3 DEF StackInv
<1> QED BY <1>0, <1>1, <1>2, <1>3, <1>4, <1>5, QueueFootprint

LEMMA WakeupStep == ASSUME IInv, [Next]_vars PROVE NoLostWakeup'
<1> USE KitsAssumption, BoundsAssumption DEF IInv, NoLostWakeup, Respond, ReadResponse, PipeInv, LatestInv, HoldsCommand, TypeOK, Request,
         kitVars, pipeVars, workerVars, uiVars, eventVars
<1>0. CASE UNCHANGED vars BY <1>0 DEF vars
<1>1. ASSUME NEW k \in Kits, KitStep(k) PROVE NoLostWakeup'
  <2>1. CASE Connect(k) BY <2>1 DEF Connect
  <2>2. CASE Ask(k) BY <2>2 DEF Ask
  <2>3. CASE Receive(k) BY <2>3 DEF Receive
  <2>4. CASE CloseEnd(k) BY <2>4 DEF CloseEnd
  <2>5. CASE CallFails(k) BY <2>5 DEF CallFails
  <2>6. CASE Die(k) BY <2>6 DEF Die
    <2> QED BY <1>1, <2>1, <2>2, <2>3, <2>4, <2>5, <2>6 DEF KitStep
<1>2. CASE WorkerStep
  <2>1. CASE StartWorker BY <2>1 DEF StartWorker
  <2>2. CASE CreatePipe BY <2>2 DEF CreatePipe
  <2>3. CASE CreateFails BY <2>3 DEF CreateFails
  <2>4. CASE ClientArrives BY <2>4 DEF ClientArrives
  <2>5. CASE StopWhileListening BY <2>5 DEF StopWhileListening
  <2>6. CASE ClientNotServed BY <2>6 DEF ClientNotServed
  <2>7. CASE NoConnectEvent BY <2>7 DEF NoConnectEvent
  <2>8. CASE ServeNext BY <2>8 DEF ServeNext
  <2>9. CASE ReadCommand BY <2>9 DEF ReadCommand
  <2>10. CASE ReadEnds BY <2>10 DEF ReadEnds
  <2>11. CASE Marshal BY <2>11 DEF Marshal
  <2>12. CASE Post BY <2>12 DEF Post
  <2>13. CASE PostFails BY <2>13 DEF PostFails
  <2>14. CASE WakeOnDone BY <2>14 DEF WakeOnDone
  <2>15. CASE WakeOnStop BY <2>15 DEF WakeOnStop
  <2>16. CASE TimeOut BY <2>16 DEF TimeOut
  <2>17. CASE WriteReply BY <2>17 DEF WriteReply
  <2>18. CASE FlushReply BY <2>18 DEF FlushReply
  <2>19. CASE ClosePipe BY <2>19 DEF ClosePipe
    <2> QED BY <1>2, <2>1, <2>2, <2>3, <2>4, <2>5, <2>6, <2>7, <2>8, <2>9,
             <2>10, <2>11, <2>12, <2>13, <2>14, <2>15, <2>16, <2>17, <2>18,
             <2>19 DEF WorkerStep
<1>3. CASE UIStep
  <2>1. CASE BeginCommand
    <3>1. /\ \A n \in Request : n # Head(queue) => context'[n] = context[n]
          /\ Head(queue) \in Request /\ context'[Head(queue)] = "running"
      BY <2>1, HeadCommand
    <3>2. \A i \in DOMAIN stack : i \in DOMAIN stack' /\ stack'[i] = stack[i]
      BY <2>1, <3>1 DEF BeginCommand, TypeOK
    <3>3. worker = "wait" => serving \in Request
      BY DEF PipeInv, HoldsCommand, TypeOK, Request
    <3> QED BY <2>1, <3>1, <3>2, <3>3 DEF BeginCommand, NoLostWakeup, workerVars, eventVars
  <2>2. CASE PublishResponse
    <3>1. /\ stack' \in Seq(Frame) /\ stack \in Seq(Frame) /\ Len(stack') = Len(stack)
          /\ Len(stack) \in DOMAIN stack
          /\ stack'[Len(stack)] = [command |-> Top.command, published |-> TRUE]
          /\ \A i \in DOMAIN stack : i # Len(stack) => stack'[i] = stack[i]
      BY <2>2, PublishFrame DEF TypeOK, Frame
    <3>2. \A i \in DOMAIN stack : i \in DOMAIN stack' /\ stack'[i].command = stack[i].command
      BY <3>1 DEF Top
    <3>3. \A n \in Request : n # Top.command => context'[n] = context[n]
      BY <2>2 DEF PublishResponse, TypeOK
    <3>4. worker = "wait" => serving \in Request
      BY DEF PipeInv, HoldsCommand, TypeOK, Request
    <3> QED BY <2>2, <3>1, <3>2, <3>3, <3>4 DEF PublishResponse, NoLostWakeup, Top, workerVars, eventVars
  <2>3. CASE SignalDone
    BY <2>3 DEF SignalDone, NoLostWakeup
  <2>4. CASE StopBegins BY <2>4 DEF StopBegins
  <2>5. CASE StopSignalsDone BY <2>5 DEF StopSignalsDone
  <2>6. CASE TimerFires BY <2>6 DEF TimerFires
  <2>7. CASE PumpTimer BY <2>7 DEF PumpTimer
  <2>8. CASE WorkerJoined BY <2>8 DEF WorkerJoined
  <2>9. CASE AbandonWorker BY <2>9 DEF AbandonWorker
  <2>10. CASE DiscardMessages BY <2>10 DEF DiscardMessages
    <2> QED BY <1>3, <2>1, <2>2, <2>3, <2>4, <2>5, <2>6, <2>7, <2>8, <2>9,
             <2>10 DEF UIStep
<1> QED BY <1>0, <1>1, <1>2, <1>3 DEF Next, Terminated

LEMMA FlushStep == ASSUME IInv, [Next]_vars PROVE FlushInv'
<1> USE KitsAssumption, BoundsAssumption DEF IInv, FlushInv, LatestInv, PipeInv, Fresh, HoldsCommand, TypeOK, HasPipe, Respond, ReadResponse, Request, Reply, ReplyKind, NoReply,
         kitVars, pipeVars, workerVars, uiVars, eventVars
<1>0. CASE UNCHANGED vars BY <1>0 DEF vars
<1>1. ASSUME NEW k \in Kits, KitStep(k) PROVE FlushInv'
  <2>1. CASE Connect(k) BY <2>1 DEF Connect
  <2>2. CASE Ask(k) BY <2>2 DEF Ask
  <2>3. CASE Receive(k) BY <2>3 DEF Receive
  <2>4. CASE CloseEnd(k) BY <2>4 DEF CloseEnd
  <2>5. CASE CallFails(k) BY <2>5 DEF CallFails
  <2>6. CASE Die(k) BY <2>6 DEF Die
    <2> QED BY <1>1, <2>1, <2>2, <2>3, <2>4, <2>5, <2>6 DEF KitStep
<1>2. CASE WorkerStep
  <2>1. CASE StartWorker BY <2>1 DEF StartWorker
  <2>2. CASE CreatePipe BY <2>2 DEF CreatePipe
  <2>3. CASE CreateFails BY <2>3 DEF CreateFails
  <2>4. CASE ClientArrives BY <2>4 DEF ClientArrives
  <2>5. CASE StopWhileListening BY <2>5 DEF StopWhileListening
  <2>6. CASE ClientNotServed BY <2>6 DEF ClientNotServed
  <2>7. CASE NoConnectEvent BY <2>7 DEF NoConnectEvent
  <2>8. CASE ServeNext BY <2>8 DEF ServeNext
  <2>9. CASE ReadCommand BY <2>9 DEF ReadCommand
  <2>10. CASE ReadEnds BY <2>10 DEF ReadEnds
  <2>11. CASE Marshal BY <2>11 DEF Marshal
  <2>12. CASE Post BY <2>12 DEF Post
  <2>13. CASE PostFails BY <2>13 DEF PostFails
  <2>14. CASE WakeOnDone BY <2>14 DEF WakeOnDone
  <2>15. CASE WakeOnStop BY <2>15 DEF WakeOnStop
  <2>16. CASE TimeOut BY <2>16 DEF TimeOut
  <2>17. CASE WriteReply BY <2>17 DEF WriteReply
  <2>18. CASE FlushReply BY <2>18 DEF FlushReply
  <2>19. CASE ClosePipe BY <2>19 DEF ClosePipe
    <2> QED BY <1>2, <2>1, <2>2, <2>3, <2>4, <2>5, <2>6, <2>7, <2>8, <2>9,
             <2>10, <2>11, <2>12, <2>13, <2>14, <2>15, <2>16, <2>17, <2>18,
             <2>19 DEF WorkerStep
<1>3. CASE UIStep
  <2>1. CASE BeginCommand BY <2>1 DEF BeginCommand
  <2>2. CASE PublishResponse BY <2>2 DEF PublishResponse
  <2>3. CASE SignalDone BY <2>3 DEF SignalDone
  <2>4. CASE StopBegins BY <2>4 DEF StopBegins
  <2>5. CASE StopSignalsDone BY <2>5 DEF StopSignalsDone
  <2>6. CASE TimerFires BY <2>6 DEF TimerFires
  <2>7. CASE PumpTimer BY <2>7 DEF PumpTimer
  <2>8. CASE WorkerJoined BY <2>8 DEF WorkerJoined
  <2>9. CASE AbandonWorker BY <2>9 DEF AbandonWorker
  <2>10. CASE DiscardMessages BY <2>10 DEF DiscardMessages
    <2> QED BY <1>3, <2>1, <2>2, <2>3, <2>4, <2>5, <2>6, <2>7, <2>8, <2>9,
             <2>10 DEF UIStep
<1> QED BY <1>0, <1>1, <1>2, <1>3 DEF Next, Terminated

LEMMA OutcomeStep == ASSUME IInv, [Next]_vars PROVE OutcomeInv'
<1> USE KitsAssumption, BoundsAssumption DEF IInv, OutcomeInv, FlushInv, PipeInv, Fresh, TypeOK, HasPipe, Respond, ReadResponse, Request, Reply, NoReply,
         kitVars, pipeVars, workerVars, uiVars, eventVars
<1>0. CASE UNCHANGED vars BY <1>0 DEF vars
<1>1. ASSUME NEW k \in Kits, KitStep(k) PROVE OutcomeInv'
  <2>1. CASE Connect(k) BY <2>1 DEF Connect
  <2>2. CASE Ask(k) BY <2>2 DEF Ask
  <2>3. CASE Receive(k) BY <2>3 DEF Receive
  <2>4. CASE CloseEnd(k) BY <2>4 DEF CloseEnd
  <2>5. CASE CallFails(k) BY <2>5 DEF CallFails
  <2>6. CASE Die(k) BY <2>6 DEF Die
    <2> QED BY <1>1, <2>1, <2>2, <2>3, <2>4, <2>5, <2>6 DEF KitStep
<1>2. CASE WorkerStep
  <2>1. CASE StartWorker BY <2>1 DEF StartWorker
  <2>2. CASE CreatePipe BY <2>2 DEF CreatePipe
  <2>3. CASE CreateFails BY <2>3 DEF CreateFails
  <2>4. CASE ClientArrives BY <2>4 DEF ClientArrives
  <2>5. CASE StopWhileListening BY <2>5 DEF StopWhileListening
  <2>6. CASE ClientNotServed BY <2>6 DEF ClientNotServed
  <2>7. CASE NoConnectEvent BY <2>7 DEF NoConnectEvent
  <2>8. CASE ServeNext BY <2>8 DEF ServeNext
  <2>9. CASE ReadCommand BY <2>9 DEF ReadCommand
  <2>10. CASE ReadEnds BY <2>10 DEF ReadEnds
  <2>11. CASE Marshal BY <2>11 DEF Marshal
  <2>12. CASE Post BY <2>12 DEF Post
  <2>13. CASE PostFails BY <2>13 DEF PostFails
  <2>14. CASE WakeOnDone BY <2>14 DEF WakeOnDone
  <2>15. CASE WakeOnStop BY <2>15 DEF WakeOnStop
  <2>16. CASE TimeOut BY <2>16 DEF TimeOut
  <2>17. CASE WriteReply BY <2>17 DEF WriteReply
  <2>18. CASE FlushReply BY <2>18 DEF FlushReply
  <2>19. CASE ClosePipe BY <2>19 DEF ClosePipe
    <2> QED BY <1>2, <2>1, <2>2, <2>3, <2>4, <2>5, <2>6, <2>7, <2>8, <2>9,
             <2>10, <2>11, <2>12, <2>13, <2>14, <2>15, <2>16, <2>17, <2>18,
             <2>19 DEF WorkerStep
<1>3. CASE UIStep
  <2>1. CASE BeginCommand BY <2>1 DEF BeginCommand
  <2>2. CASE PublishResponse BY <2>2 DEF PublishResponse
  <2>3. CASE SignalDone BY <2>3 DEF SignalDone
  <2>4. CASE StopBegins BY <2>4 DEF StopBegins
  <2>5. CASE StopSignalsDone BY <2>5 DEF StopSignalsDone
  <2>6. CASE TimerFires BY <2>6 DEF TimerFires
  <2>7. CASE PumpTimer BY <2>7 DEF PumpTimer
  <2>8. CASE WorkerJoined BY <2>8 DEF WorkerJoined
  <2>9. CASE AbandonWorker BY <2>9 DEF AbandonWorker
  <2>10. CASE DiscardMessages BY <2>10 DEF DiscardMessages
    <2> QED BY <1>3, <2>1, <2>2, <2>3, <2>4, <2>5, <2>6, <2>7, <2>8, <2>9,
             <2>10 DEF UIStep
<1> QED BY <1>0, <1>1, <1>2, <1>3 DEF Next, Terminated

\* The UI thread reads no reply: it keeps RefusedInv when it takes no command
\* back that has not been posted.
LEMMA RefusedKept ==
  ASSUME IInv, UNCHANGED <<outcome, inbox, outbox, serving, response, asked, worker>>,
         \A n \in Request : context[n] = "none" => context'[n] = "none"
  PROVE  RefusedInv'
<1>1. \A n \in Request : outcome'[n].kind = "refused" =>
        context'[n] = "none" /\ n # inbox' /\ n # serving'
  BY DEF IInv, RefusedInv
<1>2. response'.kind = "refused" => worker' = "write" /\ context'[serving'] = "none"
  <2>1. HAVE response'.kind = "refused"
  <2>2. worker = "write" /\ context[serving] = "none"
    BY <2>1 DEF IInv, RefusedInv
  <2>3. serving \in Request
    BY <2>2, BoundsAssumption DEF IInv, PipeInv, HoldsCommand, TypeOK, Request
  <2> QED BY <2>2, <2>3
<1>3. outbox'.kind = "refused" => context'[asked'] = "none"
  <2>1. HAVE outbox'.kind = "refused"
  <2>2. outbox # NoReply /\ context[asked] = "none"
    BY <2>1 DEF IInv, RefusedInv, NoReply
  <2>3. outbox.of = asked /\ outbox \in Reply
    BY <2>2 DEF IInv, ReplyInv, Truthful, TypeOK
  <2>4. asked \in Request
    BY <2>3 DEF Reply
  <2> QED BY <2>2, <2>4
<1> QED BY <1>1, <1>2, <1>3 DEF RefusedInv

LEMMA RefusedStep == ASSUME IInv, [Next]_vars PROVE RefusedInv'
<1> USE KitsAssumption, BoundsAssumption DEF IInv, RefusedInv, FlushInv, LatestInv, PipeInv, HoldsCommand, TypeOK, QueueInv, StackInv, HasPipe, Respond, ReadResponse, Request, Reply, ReplyKind, NoReply,
         kitVars, pipeVars, workerVars, uiVars, eventVars
<1>0. CASE UNCHANGED vars BY <1>0 DEF vars
<1>1. ASSUME NEW k \in Kits, KitStep(k) PROVE RefusedInv'
  <2>1. CASE Connect(k) BY <2>1 DEF Connect
  <2>2. CASE Ask(k)
    <3>1. \A n \in Request : outcome[n].kind = "refused" => n # asked + 1
      BY DEF OutcomeInv
    <3>2. serving = 0 /\ outbox = NoReply
      BY <2>2 DEF Ask, Fresh
    <3> QED BY <2>2, <3>1, <3>2 DEF Ask
  <2>3. CASE Receive(k) BY <2>3 DEF Receive
  <2>4. CASE CloseEnd(k) BY <2>4 DEF CloseEnd
  <2>5. CASE CallFails(k) BY <2>5 DEF CallFails
  <2>6. CASE Die(k) BY <2>6 DEF Die
    <2> QED BY <1>1, <2>1, <2>2, <2>3, <2>4, <2>5, <2>6 DEF KitStep
<1>2. CASE WorkerStep
  <2>1. CASE StartWorker BY <2>1 DEF StartWorker
  <2>2. CASE CreatePipe BY <2>2 DEF CreatePipe
  <2>3. CASE CreateFails BY <2>3 DEF CreateFails
  <2>4. CASE ClientArrives BY <2>4 DEF ClientArrives
  <2>5. CASE StopWhileListening BY <2>5 DEF StopWhileListening
  <2>6. CASE ClientNotServed BY <2>6 DEF ClientNotServed
  <2>7. CASE NoConnectEvent BY <2>7 DEF NoConnectEvent
  <2>8. CASE ServeNext BY <2>8 DEF ServeNext
  <2>9. CASE ReadCommand BY <2>9 DEF ReadCommand
  <2>10. CASE ReadEnds BY <2>10 DEF ReadEnds
  <2>11. CASE Marshal BY <2>11 DEF Marshal
  <2>12. CASE Post
    <3>1. /\ serving \in Request /\ worker = "post" /\ worker' = "wait"
          /\ \A n \in Request : n # serving => context'[n] = context[n]
      BY <2>12 DEF Post
    <3>2. response.kind # "refused" /\ outbox = NoReply
      BY <3>1
    <3> QED BY <2>12, <3>1, <3>2 DEF Post
  <2>13. CASE PostFails BY <2>13 DEF PostFails
  <2>14. CASE WakeOnDone BY <2>14 DEF WakeOnDone
  <2>15. CASE WakeOnStop BY <2>15 DEF WakeOnStop
  <2>16. CASE TimeOut BY <2>16 DEF TimeOut
  <2>17. CASE WriteReply BY <2>17 DEF WriteReply
  <2>18. CASE FlushReply BY <2>18 DEF FlushReply
  <2>19. CASE ClosePipe BY <2>19 DEF ClosePipe
    <2> QED BY <1>2, <2>1, <2>2, <2>3, <2>4, <2>5, <2>6, <2>7, <2>8, <2>9,
             <2>10, <2>11, <2>12, <2>13, <2>14, <2>15, <2>16, <2>17, <2>18,
             <2>19 DEF WorkerStep
<1>3. CASE UIStep
  <2>1. UNCHANGED <<outcome, inbox, outbox, serving, response, asked>>
    BY <1>3 DEF UIStep, BeginCommand, PublishResponse, SignalDone, StopBegins,
       StopSignalsDone, TimerFires, PumpTimer, WorkerJoined, AbandonWorker,
       DiscardMessages
  <2>2. CASE AbandonWorker BY <2>2 DEF AbandonWorker
  <2>3. CASE BeginCommand
    <3>1. context[Head(queue)] = "queued"
          /\ \A n \in Request :
               context'[n] = IF n = Head(queue) THEN "running" ELSE context[n]
      BY <2>3, HeadCommand
    <3>2. worker' = worker
      BY <2>3 DEF BeginCommand
    <3> QED BY <2>1, <3>1, <3>2, RefusedKept
  <2>4. CASE PublishResponse
    <3>1. /\ context[Top.command] = "running"
          /\ \A n \in Request : n # Top.command => context'[n] = context[n]
      BY <2>4, PublishFrame DEF PublishResponse, Frame, Top
    <3>2. worker' = worker
      BY <2>4 DEF PublishResponse
    <3> QED BY <2>1, <3>1, <3>2, RefusedKept
  <2>5. CASE DiscardMessages
    <3>1. /\ worker' = worker
          /\ \A n \in Request : context[n] = "none" => context'[n] = "none"
      BY <2>5 DEF DiscardMessages
    <3> QED BY <2>1, <3>1, RefusedKept
  <2>6. CASE SignalDone \/ StopBegins \/ StopSignalsDone \/ TimerFires \/ PumpTimer
             \/ WorkerJoined
    <3>1. UNCHANGED <<worker, context>>
      BY <2>6 DEF SignalDone, StopBegins, StopSignalsDone, TimerFires, PumpTimer,
         WorkerJoined
    <3> QED BY <2>1, <3>1, RefusedKept
  <2> QED BY <1>3, <2>2, <2>3, <2>4, <2>5, <2>6 DEF UIStep
<1> QED BY <1>0, <1>1, <1>2, <1>3 DEF Next, Terminated

-------------------------------------------------------------------------------
LEMMA InitInv == Init => IInv
<1> SUFFICES ASSUME Init PROVE IInv
  OBVIOUS
<1> USE KitsAssumption, BoundsAssumption DEF Init
<1>1. TypeOK
  <2>1. queue \in Seq(Request) /\ stack \in Seq([command : Request, published : BOOLEAN])
    OBVIOUS
  <2>2. 0 \in 0..MaxRequests /\ 0 \in 0..MaxCreateFailures
    OBVIOUS
  <2>3. kit \in [Kits -> {"idle", "connected", "asked", "answered", "dead"}]
    OBVIOUS
  <2>4. context \in [Request -> {"none", "queued", "running", "done", "dropped"}]
    OBVIOUS
  <2>5. outcome \in [Request -> Reply \cup {NoReply}]
    OBVIOUS
  <2>6. asking \in [Kits -> 0..MaxRequests]
    BY <2>2
  <2> QED BY <2>1, <2>2, <2>3, <2>4, <2>5, <2>6 DEF TypeOK
<1>2. PipeInv /\ LatestInv /\ ReplyInv /\ StopInv
  BY DEF PipeInv, LatestInv, ReplyInv, StopInv, Fresh, HoldsCommand, HasPipe, Request
<1>3. QueueInv /\ StackInv /\ OwnReply /\ NoLostWakeup /\ FlushInv /\ OutcomeInv
      /\ RefusedInv
  BY DEF QueueInv, StackInv, OwnReply, NoLostWakeup, FlushInv, OutcomeInv,
         RefusedInv, NoReply
<1> QED BY <1>1, <1>2, <1>3 DEF IInv

\* The inductive invariant holds always: where the worker, the UI thread, the queue, the
\* stack and the pipe stand with every command.
THEOREM Invariance == Spec => []IInv
<1>1. IInv /\ [Next]_vars => IInv'
  BY TypeStep, PipeStep, LatestStep, ReplyStep, QueueStep, StackStep, StopStep,
     OwnReplyStep, WakeupStep, FlushStep, OutcomeStep,
     RefusedStep DEF IInv
<1> QED BY InitInv, <1>1, PTL DEF Spec

\* Every variable keeps its type.
THEOREM TypeCorrect == Spec => []TypeOK
<1>1. IInv => TypeOK
  BY DEF IInv
<1> QED BY <1>1, Invariance, PTL

\* A kit is only ever answered about its own command, and "OK" means that the
\* command has ended: the completed test of marshal_command_to_main_thread is
\* enough, however many abandoned commands signal the shared event.
THEOREM RepliesAreOwn == Spec => []OwnReply
<1>1. IInv => OwnReply
  BY DEF IInv
<1> QED BY <1>1, Invariance, PTL

\* The worker is never left waiting for a signal that has been and gone.
THEOREM WakeupIsNeverLost == Spec => []NoLostWakeup
<1>1. IInv => NoLostWakeup
  BY DEF IInv
<1> QED BY <1>1, Invariance, PTL

\* stop() leaves no command queued or half run, even with an abandoned worker.
THEOREM StopLeavesNothing == Spec => []StopDrains
<1>1. IInv => StopDrains
  BY DEF IInv, StopDrains, StopInv, QueueInv, StackInv
<1> QED BY <1>1, Invariance, PTL

\* The worker never disconnects a kit that has yet to read its reply.
THEOREM RepliesAreFlushed == Spec => NoReplyDiscarded
<1>1. IInv /\ [Next]_vars =>
        [worker = "close" /\ worker' # "close" => outbox = NoReply \/ pipe = "broken"]_vars
  BY DEF IInv, FlushInv
<1> QED BY <1>1, Invariance, PTL DEF Spec, NoReplyDiscarded


-----------------------------------------------------------------------------
(***************************************************************************)
(* PipeServer implements KitRequests, for any kits and any bounds: under the*)
(* inductive invariant each step of a thread or of a kit is one step of the*)
(* promise, or changes nothing of it.                                      *)
(***************************************************************************)

\* The refinement mapping of PipeServer!Promise, one name for each variable.
Progress == [n \in Request |-> IF context[n] \in {"running", "done"}
                                THEN context[n] ELSE "new"]
Verdict == [n \in Request |->
              CASE outcome[n].kind \in {"timeout", "shutdown", "lost"} -> "error"
                [] OTHER -> outcome[n].kind]
Open == ui \in {"serving", "signalling", "joining"}

\* Only these actions change what the promise is about.
LEMMA PromiseFootprint ==
  ASSUME [Next]_vars
  PROVE  \/ UNCHANGED <<asked, context, outcome, ui>>
         \/ \E k \in Kits : Ask(k) \/ Receive(k) \/ CallFails(k)
         \/ Post \/ BeginCommand \/ PublishResponse
         \/ StopBegins \/ StopSignalsDone \/ WorkerJoined \/ AbandonWorker
         \/ DiscardMessages
<1> USE DEF kitVars, pipeVars, workerVars, uiVars, eventVars
<1>0. CASE UNCHANGED vars BY <1>0 DEF vars
<1>1. ASSUME NEW k \in Kits, KitStep(k)
      PROVE  \/ Ask(k) \/ Receive(k) \/ CallFails(k)
             \/ UNCHANGED <<asked, context, outcome, ui>>
  BY <1>1 DEF KitStep, Connect, CloseEnd, Die
<1>2. CASE WorkerStep
  BY <1>2 DEF WorkerStep, StartWorker, CreatePipe, CreateFails, ClientArrives,
     StopWhileListening, ClientNotServed, NoConnectEvent, ServeNext,
     ReadCommand, ReadEnds, Marshal, PostFails, WakeOnDone, WakeOnStop,
     TimeOut, WriteReply, FlushReply, ClosePipe
<1>3. CASE UIStep
  BY <1>3 DEF UIStep, SignalDone, TimerFires, PumpTimer
<1> QED BY <1>0, <1>1, <1>2, <1>3 DEF Next, Terminated

LEMMA VerdictOf ==
  ASSUME IInv, NEW n \in Request
  PROVE  /\ Verdict[n] = "none" <=> outcome[n] = NoReply
         /\ Verdict[n] = "refused" <=> outcome[n].kind = "refused"
         /\ Progress[n] = "new" <=> context[n] \notin {"running", "done"}
         /\ context[n] \in {"running", "done"} => Progress[n] = context[n]
<1>1. outcome[n] \in Reply \cup {NoReply}
  BY DEF IInv, TypeOK
<1> QED BY <1>1 DEF Verdict, Progress, Reply, ReplyKind, NoReply

-------------------------------------------------------------------------------
(* The steps of the promise, in terms of the mapped variables. *)

LEMMA TellMaps ==
  ASSUME IInv, NEW n \in Request, NEW r \in Reply,
         n <= asked, outcome[n] = NoReply,
         outcome' = [outcome EXCEPT ![n] = r],
         UNCHANGED <<asked, context, ui>>,
         \/ r.kind = "ok" /\ context[n] = "done"
         \/ r.kind = "refused" /\ context[n] = "none"
         \/ r.kind \in {"timeout", "shutdown", "lost"}
  PROVE  Promise!Next
<1>1. /\ Verdict[n] = "none" /\ UNCHANGED <<Progress, Open, asked>>
      /\ context[n] = "done" => Progress[n] = "done"
      /\ context[n] = "none" => Progress[n] = "new"
  <2>1. UNCHANGED <<Progress, Open, asked>>
    BY DEF Progress, Open
  <2> QED BY <2>1, VerdictOf
<1>2. ASSUME NEW what,
             what = IF r.kind \in {"timeout", "shutdown", "lost"} THEN "error"
                                                                  ELSE r.kind
      PROVE  Verdict' = [Verdict EXCEPT ![n] = what]
  <2>1. \A m \in Request : outcome'[m] = IF m = n THEN r ELSE outcome[m]
    BY DEF IInv, TypeOK
  <2>2. /\ Verdict' = [m \in Request |->
              CASE outcome'[m].kind \in {"timeout", "shutdown", "lost"} -> "error"
                [] OTHER -> outcome'[m].kind]
        /\ [Verdict EXCEPT ![n] = what] =
              [m \in Request |-> IF m = n THEN what ELSE Verdict[m]]
    BY DEF Verdict
  <2> QED BY <1>2, <2>1, <2>2 DEF Verdict
<1>3. CASE r.kind = "ok" /\ context[n] = "done"
  <2>1. Verdict' = [Verdict EXCEPT ![n] = "ok"]
    BY <1>2, <1>3
  <2> QED BY <1>1, <1>3, <2>1
       DEF Promise!Next, Promise!Answer, Promise!Tell, Promise!Request,
           Request, Verdict, Progress, Open
<1>4. CASE r.kind = "refused" /\ context[n] = "none"
  <2>1. Verdict' = [Verdict EXCEPT ![n] = "refused"]
    BY <1>2, <1>4
  <2> QED BY <1>1, <1>4, <2>1
       DEF Promise!Next, Promise!Refuse, Promise!Tell, Promise!Request,
           Request, Verdict, Progress, Open
<1>5. CASE r.kind \in {"timeout", "shutdown", "lost"}
  <2>1. Verdict' = [Verdict EXCEPT ![n] = "error"]
    BY <1>2, <1>5
  <2> QED BY <1>1, <2>1
       DEF Promise!Next, Promise!GiveUp, Promise!Tell, Promise!Request,
           Request, Verdict, Progress, Open
<1> QED BY <1>3, <1>4, <1>5

LEMMA KitMaps ==
  ASSUME IInv, NEW k \in Kits, Ask(k) \/ Receive(k) \/ CallFails(k)
  PROVE  [Promise!Next]_(Promise!vars)
<1>1. CASE Ask(k)
  <2>1. /\ asked < MaxRequests /\ asked' = asked + 1
        /\ UNCHANGED <<Progress, Verdict, Open>>
    BY <1>1 DEF Ask, uiVars, Progress, Verdict, Open
  <2> QED BY <2>1 DEF Promise!Next, Promise!Send, Progress, Verdict, Open
<1>2. CASE Receive(k)
  <2>1. /\ asking[k] = asked /\ asked \in Request /\ outcome[asked] = NoReply
        /\ outbox \in Reply /\ outbox.of = asked /\ outbox.kind # "empty"
        /\ outbox.kind = "ok" => context[asked] = "done"
        /\ outbox.kind = "refused" => context[asked] = "none"
    BY <1>2, BoundsAssumption
       DEF Receive, IInv, TypeOK, PipeInv, ReplyInv, Truthful, OutcomeInv,
           RefusedInv, Request
  <2>2. /\ outcome' = [outcome EXCEPT ![asked] = outbox]
        /\ UNCHANGED <<asked, context, ui>>
    BY <1>2, <2>1 DEF Receive, uiVars
  <2>3. /\ outbox.kind \in ReplyKind /\ asked <= asked
    BY <2>1 DEF Reply, Request
  <2>4. \/ outbox.kind = "ok" /\ context[asked] = "done"
        \/ outbox.kind = "refused" /\ context[asked] = "none"
        \/ outbox.kind \in {"timeout", "shutdown", "lost"}
    BY <2>1, <2>3 DEF ReplyKind
  <2> QED BY <2>1, <2>2, <2>3, <2>4, TellMaps
<1>3. CASE CallFails(k) /\ kit[k] = "asked"
  <2> DEFINE r == [kind |-> "lost", of |-> asking[k]]
  <2>1. /\ asking[k] \in Request /\ asking[k] <= asked
        /\ outcome[asking[k]] = NoReply
    BY <1>3, BoundsAssumption DEF IInv, TypeOK, PipeInv, OutcomeInv, Request
  <2>2. /\ outcome' = [outcome EXCEPT ![asking[k]] = r]
        /\ UNCHANGED <<asked, context, ui>>
    BY <1>3 DEF CallFails, uiVars
  <2>3. r \in Reply /\ r.kind = "lost"
    BY <2>1 DEF Reply, ReplyKind
  <2> HIDE DEF r
  <2> QED BY <2>1, <2>2, <2>3, TellMaps
<1>4. CASE CallFails(k) /\ kit[k] # "asked"
  BY <1>4 DEF CallFails, uiVars, Promise!vars
<1> QED BY <1>1, <1>2, <1>3, <1>4

LEMMA RunMaps == ASSUME IInv, BeginCommand PROVE Promise!Next
<1> DEFINE n == Head(queue)
<1>1. /\ n \in Request /\ context[n] = "queued"
      /\ \A m \in Request :
           context'[m] = IF m = n THEN "running" ELSE context[m]
  BY HeadCommand DEF IInv
<1>2. n <= asked /\ outcome[n].kind # "refused"
  BY <1>1, BoundsAssumption DEF IInv, TypeOK, LatestInv, RefusedInv, Request
<1>3. Open /\ UNCHANGED <<asked, Verdict, Open>>
  BY DEF BeginCommand, PumpsMessages, kitVars, Open, Verdict
<1> HIDE DEF n
<1>4. Progress[n] = "new" /\ Verdict[n] # "refused"
  BY <1>1, <1>2, VerdictOf
<1>5. Progress' = [Progress EXCEPT ![n] = "running"]
  BY <1>1 DEF Progress
<1>6. n \in Promise!Request
  BY <1>1 DEF Promise!Request, Request
<1> QED BY <1>2, <1>3, <1>4, <1>5, <1>6
     DEF Promise!Next, Promise!Run, Verdict, Progress, Open

LEMMA EndMaps == ASSUME IInv, PublishResponse PROVE Promise!Next
<1> DEFINE n == Top.command
<1>1. /\ stack # <<>> /\ Top \in Frame /\ n \in Request
      /\ context' = [context EXCEPT ![n] = "done"]
      /\ UNCHANGED <<asked, outcome, ui>>
  BY PublishFrame DEF IInv, TypeOK, Frame, PublishResponse, kitVars
<1>2. context[n] = "running"
  <2>1. Len(stack) \in DOMAIN stack /\ stack[Len(stack)] = Top /\ ~Top.published
    BY PublishFrame DEF IInv, TypeOK, Frame, PublishResponse, Top
  <2> QED BY <2>1 DEF IInv, StackInv
<1>3. Open /\ UNCHANGED <<Open, Verdict>>
  BY <1>1 DEF IInv, StopInv, TypeOK, Open, Verdict
<1> HIDE DEF n
<1>4. Progress[n] = "running"
  BY <1>1, <1>2, VerdictOf
<1>5. Progress' = [Progress EXCEPT ![n] = "done"]
  <2>1. \A m \in Request : context'[m] = IF m = n THEN "done" ELSE context[m]
    BY <1>1 DEF IInv, TypeOK
  <2> QED BY <2>1 DEF Progress
<1>6. n \in Promise!Request
  BY <1>1 DEF Promise!Request, Request
<1> QED BY <1>1, <1>3, <1>4, <1>5, <1>6
     DEF Promise!Next, Promise!End, Verdict, Progress, Open

LEMMA CloseMaps == ASSUME IInv, WorkerJoined \/ AbandonWorker PROVE Promise!Next
<1>1. /\ stack = <<>> /\ ui = "joining" /\ ui' = "discarding"
      /\ UNCHANGED <<asked, context, outcome>>
  BY DEF WorkerJoined, AbandonWorker, kitVars
<1>2. \A n \in Request : context[n] # "running"
  BY <1>1 DEF IInv, StackInv
<1>3. \A n \in Request : Progress[n] # "running"
  BY <1>2 DEF Progress
<1>4. Open /\ ~Open' /\ UNCHANGED <<asked, Progress, Verdict>>
  BY <1>1 DEF Open, Progress, Verdict
<1>5. Promise!Request = Request
  BY DEF Promise!Request, Request
<1> QED BY <1>3, <1>4, <1>5
     DEF Promise!Next, Promise!Close, Verdict, Progress, Open

\* A posted message, and one thrown away by stop(), is "new" to the promise.
LEMMA QueueMaps == ASSUME IInv, Post \/ DiscardMessages PROVE UNCHANGED Promise!vars
<1>1. UNCHANGED <<asked, outcome, Open>>
  <2>1. CASE Post
    BY <2>1 DEF Post, kitVars, Open
  <2>2. CASE DiscardMessages
    BY <2>2 DEF DiscardMessages, kitVars, Open
  <2> QED BY <2>1, <2>2
<1>2. \A n \in Request : context'[n] \in {"running", "done"} \/ context[n] \in {"running", "done"}
                         => context'[n] = context[n]
  <2>1. CASE Post
    <3>1. serving \in Request /\ context[serving] = "none"
      BY <2>1 DEF Post, IInv, TypeOK, PipeInv, HoldsCommand, LatestInv, Request
    <3> QED BY <2>1, <3>1 DEF Post, IInv, TypeOK
  <2>2. CASE DiscardMessages
    BY <2>2 DEF DiscardMessages
  <2> QED BY <2>1, <2>2
<1>3. UNCHANGED <<Progress, Verdict, Open>>
  BY <1>1, <1>2 DEF Progress, Verdict, Open
<1> QED BY <1>1, <1>3 DEF Promise!vars, Progress, Verdict, Open

-------------------------------------------------------------------------------
\* The named-pipe server, its worker, its events, the nested dispatch and the
\* stop keep the promise made to kits: each command at most once, in its time,
\* ended before "OK", and never after it was refused.
THEOREM Implements == Spec => KeepsPromise
<1>1. Init => Promise!Init
  <2> SUFFICES ASSUME Init PROVE Promise!Init
    OBVIOUS
  <2>1. /\ Progress = [n \in Request |-> "new"]
        /\ Verdict = [n \in Request |-> "none"] /\ Open /\ asked = 0
    BY DEF Init, Progress, Verdict, Open, NoReply
  <2> QED BY <2>1 DEF Promise!Init, Promise!Request, Request, Progress, Verdict, Open
<1>2. IInv /\ [Next]_vars => [Promise!Next]_(Promise!vars)
  <2> SUFFICES ASSUME IInv, [Next]_vars PROVE [Promise!Next]_(Promise!vars)
    OBVIOUS
  <2>1. CASE UNCHANGED <<asked, context, outcome, ui>>
    BY <2>1 DEF Promise!vars
  <2>2. CASE StopBegins \/ StopSignalsDone
    BY <2>2 DEF StopBegins, StopSignalsDone, kitVars, Promise!vars
  <2> QED BY <2>1, <2>2, PromiseFootprint, KitMaps, QueueMaps, RunMaps, EndMaps,
             CloseMaps
<1> QED BY <1>1, <1>2, Invariance, PTL DEF Spec, KeepsPromise, Promise!Spec

-----------------------------------------------------------------------------
(***************************************************************************)
(* The interpreter of one script, for any scripts, objects, stack size, log*)
(* and word.  Four invariants carry it: the types of the state, the turns that*)
(* a wait has had and has left, what each enumeration on the stack has seen of*)
(* the registry as the log of removals tells it, and the constructs that the*)
(* cursor of a nested script is in, which are those of the frames.         *)
(***************************************************************************)

-----------------------------------------------------------------------------
(* The interpreter of one script *)

Removal == [serial : Nat, index : Int]
Opener(f) == f.back - 1

\* A frame was put there by a command of the script.
FramesOf(q) ==
  \A j \in 1 .. Len(q) :
    /\ Opener(q[j]) \in DOMAIN program
    /\ Op(Opener(q[j])) = q[j].kind
FramesIn == FramesOf(frames)

CaosTyped ==
  /\ CaosTypeOK /\ FramesIn
  /\ registry \in Seq(Objects) /\ unborn \subseteq Objects
  /\ removals \in Seq(Removal) /\ serial \in Nat

LEMMA ProgramText ==
  ASSUME program \in Programs
  PROVE  Len(program) \in Nat /\ DOMAIN program = 1 .. Len(program)
BY CaosScriptAssumption

LEMMA FirstIs ==
  ASSUME NEW S, S \subseteq Nat, S # {}
  PROVE  First(S) \in S /\ \A q \in S : First(S) <= q
<1>1. \E i \in S : \A j \in S : i <= j
  BY LeastIn
<1> QED  BY <1>1 DEF First

-----------------------------------------------------------------------------
(* The values on the stack *)

Slots(q) == {x \in (DOMAIN q) \X (1 .. 4) : x[2] <= Values(q[x[1]].kind)}

LEMMA PushedIs == Pushed = Cardinality(Slots(frames))
BY DEF Pushed, Slots

LEMMA ValuesIn ==
  ASSUME NEW k
  PROVE  Values(k) \in 1 .. 4
BY DEF Values

LEMMA SlotsFinite ==
  ASSUME NEW q \in Seq(StackFrame)
  PROVE  IsFiniteSet(Slots(q)) /\ Cardinality(Slots(q)) \in Nat
<1>1. IsFiniteSet(1 .. Len(q)) /\ IsFiniteSet(1 .. 4)
  <2>1. Len(q) \in Int /\ 1 \in Int /\ 4 \in Int
    OBVIOUS
  <2> QED  BY <2>1, FS_Interval
<1>2. IsFiniteSet((1 .. Len(q)) \X (1 .. 4))
  BY <1>1, FS_Product
<1>3. Slots(q) \in SUBSET ((1 .. Len(q)) \X (1 .. 4))
  BY DEF Slots
<1>4. IsFiniteSet(Slots(q))
  BY <1>2, <1>3, FS_Subset
<1> QED  BY <1>4, FS_CardinalityType

LEMMA SlotsAppend ==
  ASSUME NEW q \in Seq(StackFrame), NEW f \in StackFrame
  PROVE  Cardinality(Slots(Append(q, f))) <= Cardinality(Slots(q)) + Values(f.kind)
<1> DEFINE n == Len(q) + 1
           More == {n} \X (1 .. Values(f.kind))
<1>1. Slots(Append(q, f)) \subseteq Slots(q) \cup More
  <2> SUFFICES ASSUME NEW x \in Slots(Append(q, f)) PROVE x \in Slots(q) \cup More
    OBVIOUS
  <2>1. /\ x \in (1 .. n) \X (1 .. 4) /\ x[2] <= Values(Append(q, f)[x[1]].kind)
        /\ Append(q, f)[n] = f /\ \A i \in 1 .. Len(q) : Append(q, f)[i] = q[i]
    BY DEF Slots
  <2>2. CASE x[1] = n
    <3>1. x[2] <= Values(f.kind)
      BY <2>1, <2>2
    <3>2. x[2] \in 1 .. Values(f.kind)
      BY <2>1, <3>1, ValuesIn
    <3>3. x = <<n, x[2]>>
      BY <2>1, <2>2
    <3> QED  BY <3>2, <3>3
  <2>3. CASE x[1] # n
    <3>1. x[1] \in 1 .. Len(q)
      BY <2>1, <2>3
    <3>2. x[2] <= Values(q[x[1]].kind)
      BY <2>1, <3>1
    <3> QED  BY <2>1, <3>1, <3>2 DEF Slots
  <2> QED  BY <2>2, <2>3
<1>2. IsFiniteSet(More) /\ Cardinality(More) = Values(f.kind)
  <2>1. Values(f.kind) \in Int /\ 1 \in Int /\ Values(f.kind) \in 1 .. 4
    BY ValuesIn
  <2>2. IsFiniteSet(1 .. Values(f.kind)) /\ Cardinality(1 .. Values(f.kind)) = Values(f.kind)
    <3> DEFINE v == Values(f.kind)
    <3> HIDE DEF v
    <3>1. v \in Int /\ 1 \in Int /\ v \in 1 .. 4
      BY <2>1 DEF v
    <3>2. IsFiniteSet(1 .. v) /\ Cardinality(1 .. v) = IF 1 > v THEN 0 ELSE v - 1 + 1
      BY <3>1, FS_Interval
    <3>3. IsFiniteSet(1 .. v) /\ Cardinality(1 .. v) = v
      BY <3>1, <3>2
    <3> QED  BY <3>3 DEF v
  <2>3. IsFiniteSet({n}) /\ Cardinality({n}) = 1
    BY FS_Singleton
  <2>4. IsFiniteSet(More) /\ Cardinality(More) = Cardinality({n}) * Cardinality(1 .. Values(f.kind))
    BY <2>2, <2>3, FS_Product
  <2> QED  BY <2>1, <2>2, <2>3, <2>4
<1>3. IsFiniteSet(Slots(q)) /\ Cardinality(Slots(q)) \in Nat
  BY SlotsFinite
<1> DEFINE S == Slots(q)
           T == Slots(Append(q, f))
<1> HIDE DEF S, T, More
<1>4. /\ IsFiniteSet(S \cup More)
      /\ Cardinality(S \cup More) = Cardinality(S) + Cardinality(More) - Cardinality(S \cap More)
  BY <1>2, <1>3, FS_Union DEF S
<1>5. Cardinality(S \cap More) \in Nat
  <2>1. S \cap More \in SUBSET S
    OBVIOUS
  <2>2. IsFiniteSet(S \cap More)
    BY <2>1, <1>3, FS_Subset DEF S
  <2> QED  BY <2>2, FS_CardinalityType
<1>6. Cardinality(T) <= Cardinality(S \cup More) /\ IsFiniteSet(T)
  <2>1. T \in SUBSET (S \cup More)
    BY <1>1 DEF S, T
  <2> QED  BY <2>1, <1>4, FS_Subset
<1>7. Cardinality(T) \in Nat /\ Cardinality(S \cup More) \in Nat
  BY <1>4, <1>6, FS_CardinalityType
<1>8. Cardinality(T) <= Cardinality(S) + Values(f.kind)
  BY <1>2, <1>3, <1>4, <1>5, <1>6, <1>7, ValuesIn DEF S
<1> QED  BY <1>8 DEF S, T

LEMMA SlotsWithin ==
  ASSUME NEW q \in Seq(StackFrame), NEW r \in Seq(StackFrame), Len(r) <= Len(q),
         \A i \in 1 .. Len(r) : r[i].kind = q[i].kind
  PROVE  Cardinality(Slots(r)) <= Cardinality(Slots(q))
<1>1. Slots(r) \in SUBSET Slots(q)
  <2> SUFFICES ASSUME NEW x \in Slots(r) PROVE x \in Slots(q)
    OBVIOUS
  <2>1. x \in (1 .. Len(r)) \X (1 .. 4) /\ x[2] <= Values(r[x[1]].kind)
    BY DEF Slots
  <2>2. x[1] \in 1 .. Len(q) /\ x[2] <= Values(q[x[1]].kind)
    BY <2>1
  <2> QED  BY <2>1, <2>2 DEF Slots
<1> QED  BY <1>1, SlotsFinite, FS_Subset

-----------------------------------------------------------------------------
(* The registry *)

Distinct(s) == \A i, j \in 1 .. Len(s) : s[i] = s[j] => i = j

LEMMA DistinctIs ==
  ASSUME NEW S, NEW s \in Seq(S)
  PROVE  /\ IsInjective(s) <=> Distinct(s)
         /\ \A o : o \in ToSet(s) <=> \E i \in 1 .. Len(s) : s[i] = o
BY DEF IsInjective, Distinct, ToSet

LEMMA Removed ==
  ASSUME NEW S, NEW s \in Seq(S), NEW i \in 1 .. Len(s)
  PROVE  /\ RemoveAt(s, i) \in Seq(S) /\ Len(RemoveAt(s, i)) = Len(s) - 1
         /\ \A j \in 1 .. Len(s) - 1 : RemoveAt(s, i)[j] = IF j < i THEN s[j] ELSE s[j + 1]
<1> DEFINE a == SubSeq(s, 1, i - 1)
           b == SubSeq(s, i + 1, Len(s))
<1>1. a \in Seq(S) /\ Len(a) = i - 1 /\ \A j \in 1 .. i - 1 : a[j] = s[j]
  <2>1. 1 \in Int /\ i - 1 \in Int /\ \A j \in 1 .. i - 1 : s[j] \in S
    OBVIOUS
  <2>2. /\ a \in Seq(S) /\ Len(a) = IF 1 <= i - 1 THEN i - 1 - 1 + 1 ELSE 0
        /\ \A j \in 1 .. i - 1 - 1 + 1 : a[j] = s[1 + j - 1]
    BY <2>1, SubSeqProperties
  <2> QED  BY <2>2
<1>2. b \in Seq(S) /\ Len(b) = Len(s) - i /\ \A j \in 1 .. Len(s) - i : b[j] = s[i + j]
  <2>1. i + 1 \in Int /\ Len(s) \in Int /\ \A j \in i + 1 .. Len(s) : s[j] \in S
    OBVIOUS
  <2>2. /\ b \in Seq(S) /\ Len(b) = IF i + 1 <= Len(s) THEN Len(s) - (i + 1) + 1 ELSE 0
        /\ \A j \in 1 .. Len(s) - (i + 1) + 1 : b[j] = s[(i + 1) + j - 1]
    BY <2>1, SubSeqProperties
  <2> QED  BY <2>2
<1> HIDE DEF a, b
<1>3. /\ a \o b \in Seq(S) /\ Len(a \o b) = Len(a) + Len(b)
      /\ \A j \in 1 .. Len(a) + Len(b) : (a \o b)[j] = IF j <= Len(a) THEN a[j] ELSE b[j - Len(a)]
  BY <1>1, <1>2, ConcatProperties
<1>4. RemoveAt(s, i) = a \o b
  BY DEF RemoveAt, a, b
<1>5. ASSUME NEW j \in 1 .. Len(s) - 1
      PROVE (a \o b)[j] = IF j < i THEN s[j] ELSE s[j + 1]
  <2>1. j \in 1 .. Len(a) + Len(b)
    BY <1>1, <1>2
  <2>2. CASE j < i
    BY <1>1, <1>3, <2>1, <2>2
  <2>3. CASE ~(j < i)
    <3>1. (a \o b)[j] = b[j - Len(a)] /\ j - Len(a) = j - (i - 1) /\ j - (i - 1) \in 1 .. Len(s) - i
      BY <1>1, <1>3, <2>1, <2>3
    <3>2. i + (j - (i - 1)) = j + 1
      OBVIOUS
    <3> QED  BY <1>2, <2>3, <3>1, <3>2
  <2> QED  BY <2>2, <2>3
<1>6. Len(a \o b) = Len(s) - 1
  BY <1>1, <1>2, <1>3
<1> QED  BY <1>3, <1>4, <1>5, <1>6

\* What becomes of the registry when o is erased at place at.
ErasedAt(at, o) ==
  /\ at \in 1 .. Len(registry) /\ registry[at] = o /\ at = IndexOf(o) + 1
  /\ registry' \in Seq(Objects) /\ Len(registry') = Len(registry) - 1
  /\ \A j \in 1 .. Len(registry) - 1 : registry'[j] = IF j < at THEN registry[j] ELSE registry[j + 1]

LEMMA EraseRegistry ==
  ASSUME registry \in Seq(Objects), IsInjective(registry), NEW o \in ToSet(registry), Erase(o)
  PROVE  /\ \E at \in Nat : ErasedAt(at, o)
         /\ IsInjective(registry') /\ ToSet(registry') = ToSet(registry) \ {o}
<1> DEFINE at == IndexOf(o) + 1
<1>1. at \in 1 .. Len(registry) /\ registry[at] = o
  <2>1. \E i \in DOMAIN registry : registry[i] = o
    BY DEF ToSet
  <2> DEFINE c == CHOOSE i \in DOMAIN registry : registry[i] = o
  <2>2. c \in DOMAIN registry /\ registry[c] = o
    BY <2>1
  <2>3. at = c - 1 + 1
    BY DEF IndexOf
  <2> HIDE DEF at, c
  <2> QED  BY <2>2, <2>3
<1>2. registry' = RemoveAt(registry, at)
  BY DEF Erase
<1> HIDE DEF at
<1>3. /\ registry' \in Seq(Objects) /\ Len(registry') = Len(registry) - 1
      /\ \A j \in 1 .. Len(registry) - 1 : registry'[j] = IF j < at THEN registry[j] ELSE registry[j + 1]
  BY <1>1, <1>2, Removed
<1>4. ErasedAt(at, o)
  BY <1>1, <1>3 DEF ErasedAt, at
<1>5. Distinct(registry)
  BY DistinctIs
<1>6. Distinct(registry')
  <2> SUFFICES ASSUME NEW i \in 1 .. Len(registry) - 1, NEW j \in 1 .. Len(registry) - 1,
                      registry'[i] = registry'[j]
               PROVE  i = j
    BY <1>3 DEF Distinct
  <2> DEFINE I == IF i < at THEN i ELSE i + 1
             J == IF j < at THEN j ELSE j + 1
  <2>1. registry'[i] = registry[I] /\ registry'[j] = registry[J] /\ I \in 1 .. Len(registry) /\ J \in 1 .. Len(registry)
    BY <1>3, <1>1
  <2>2. I = J
    BY <2>1, <1>5 DEF Distinct
  <2> QED  BY <2>2, <1>1
<1>7. ToSet(registry') = ToSet(registry) \ {o}
  <2>1. ASSUME NEW x, x \in ToSet(registry') PROVE x \in ToSet(registry) \ {o}
    <3>1. PICK j \in 1 .. Len(registry) - 1 : registry'[j] = x
      BY <1>3, <2>1, DistinctIs
    <3> DEFINE J == IF j < at THEN j ELSE j + 1
    <3>2. x = registry[J] /\ J \in 1 .. Len(registry) /\ J # at
      BY <1>1, <1>3, <3>1
    <3> QED  BY <1>1, <1>5, <3>2, DistinctIs DEF Distinct
  <2>2. ASSUME NEW x, x \in ToSet(registry) \ {o} PROVE x \in ToSet(registry')
    <3>1. PICK j \in 1 .. Len(registry) : registry[j] = x
      BY <2>2, DistinctIs
    <3>2. j # at
      BY <1>1, <2>2, <3>1
    <3>3. CASE j < at
      <4>1. j \in 1 .. Len(registry) - 1 /\ registry'[j] = x
        BY <1>1, <1>3, <3>1, <3>3
      <4> QED  BY <1>3, <4>1, DistinctIs
    <3>4. CASE j > at
      <4>1. j - 1 \in 1 .. Len(registry) - 1 /\ registry'[j - 1] = x
        BY <1>1, <1>3, <3>1, <3>4
      <4> QED  BY <1>3, <4>1, DistinctIs
    <3> QED  BY <3>2, <3>3, <3>4, <1>1
  <2> QED  BY <2>1, <2>2
<1> QED  BY <1>3, <1>4, <1>6, <1>7, <1>1, DistinctIs

LEMMA EraseLog ==
  ASSUME removals \in Seq(Removal), serial \in Nat, Len(removals) <= LogLimit,
         registry \in Seq(Objects), IsInjective(registry), NEW o \in ToSet(registry), Erase(o)
  PROVE  removals' \in Seq(Removal) /\ serial' \in Nat /\ Len(removals') <= LogLimit
<1> DEFINE r == [serial |-> serial + 1, index |-> IndexOf(o)]
           log == Append(removals, r)
<1>1. IndexOf(o) \in Int
  <2>1. PICK at \in Nat : ErasedAt(at, o)
    BY EraseRegistry
  <2>2. \E i \in DOMAIN registry : registry[i] = o
    BY DEF ToSet
  <2> DEFINE c == CHOOSE i \in DOMAIN registry : registry[i] = o
  <2>3. c \in DOMAIN registry
    BY <2>2
  <2>4. IndexOf(o) = c - 1
    BY DEF IndexOf
  <2> HIDE DEF c
  <2> QED  BY <2>3, <2>4
<1>2. r \in Removal
  BY <1>1 DEF Removal
<1> HIDE DEF r
<1>3. log \in Seq(Removal) /\ Len(log) = Len(removals) + 1 /\ log # <<>>
  BY <1>2
<1>4. Tail(log) \in Seq(Removal) /\ Len(Tail(log)) = Len(removals)
  BY <1>3
<1>5. removals' = (IF Len(log) > LogLimit THEN Tail(log) ELSE log) /\ serial' = serial + 1
  BY DEF Erase, r
<1> HIDE DEF log
<1> QED  BY <1>3, <1>4, <1>5, CaosScriptAssumption

-----------------------------------------------------------------------------
(* Frames *)

LEMMA PopIs ==
  ASSUME frames \in Seq(StackFrame), frames # <<>>
  PROVE  /\ Newest \in StackFrame /\ Newest = frames[Len(frames)] /\ Len(frames) \in Nat \ {0}
         /\ Front(frames) \in Seq(StackFrame) /\ Len(Front(frames)) = Len(frames) - 1
         /\ \A j \in 1 .. Len(frames) - 1 : Front(frames)[j] = frames[j]
<1>1. Len(frames) \in Nat \ {0}
  OBVIOUS
<1>2. PICK m \in Nat : m = Len(frames) - 1
  BY <1>1
<1>3. \A j \in 1 .. m : frames[j] \in StackFrame
  BY <1>1, <1>2
<1> DEFINE front == SubSeq(frames, 1, m)
<1>4. /\ front \in Seq(StackFrame)
      /\ Len(front) = IF 1 <= m THEN m - 1 + 1 ELSE 0
      /\ \A j \in 1 .. m - 1 + 1 : front[j] = frames[1 + j - 1]
  BY <1>3, SubSeqProperties
<1>5. Front(frames) = front /\ Newest = frames[Len(frames)]
  BY <1>2 DEF Front, Newest, Last
<1> HIDE DEF front
<1>6. Len(front) = m /\ \A j \in 1 .. m : front[j] = frames[j]
  BY <1>4
<1>7. Newest \in StackFrame
  BY <1>1, <1>5
<1> QED  BY <1>1, <1>2, <1>4, <1>5, <1>6, <1>7

LEMMA PushIs ==
  ASSUME NEW q \in Seq(StackFrame), NEW f \in StackFrame
  PROVE  /\ Append(q, f) \in Seq(StackFrame) /\ Len(Append(q, f)) = Len(q) + 1
         /\ Append(q, f)[Len(q) + 1] = f /\ \A j \in 1 .. Len(q) : Append(q, f)[j] = q[j]
OBVIOUS

\* The steps a command can make on the stack.
Pushing(f) == /\ f \in StackFrame /\ Pushed + Values(f.kind) <= StackSize
              /\ f.back = cursor + 1 /\ cursor \in DOMAIN program /\ Op(cursor) = f.kind
              /\ frames' = Append(frames, f)
Popping == frames # <<>> /\ frames' = Front(frames)
\* the newest frame stays, with other counts
Keeping(f) == /\ frames # <<>> /\ f \in StackFrame /\ f.kind = Newest.kind /\ f.back = Newest.back
              /\ frames' \in Seq(StackFrame) /\ Len(frames') = Len(frames) /\ frames'[Len(frames)] = f
              /\ \A j \in 1 .. Len(frames) - 1 : frames'[j] = frames[j]
FrameStep == (\E f \in StackFrame : Pushing(f) \/ Keeping(f)) \/ Popping \/ UNCHANGED frames

StackSound(q) == q \in Seq(StackFrame) /\ Cardinality(Slots(q)) <= StackSize /\ FramesOf(q)

LEMMA FramesStep ==
  ASSUME CaosTyped, FrameStep, program' = program
  PROVE  frames' \in Seq(StackFrame) /\ Pushed' <= StackSize /\ FramesIn'
<1>1. StackSound(frames)
  BY PushedIs DEF StackSound, CaosTyped, CaosTypeOK, FramesIn
<1>2. SUFFICES \E q : q = frames' /\ StackSound(q)
  <2>1. Pushed' = Cardinality(Slots(frames'))
    BY DEF Pushed, Slots
  <2>2. FramesOf(frames') => FramesIn'
    BY DEF FramesIn, FramesOf, Op, Opener
  <2> QED  BY <1>2, <2>1, <2>2 DEF StackSound
<1>3. frames \in Seq(StackFrame) /\ Cardinality(Slots(frames)) \in Nat /\ StackSize \in Nat
  BY <1>1, SlotsFinite, CaosScriptAssumption DEF StackSound
<1>4. CASE \E f \in StackFrame : Pushing(f)
  <2>1. PICK f \in StackFrame : Pushing(f)
    BY <1>4
  <2> DEFINE q == Append(frames, f)
  <2>2. /\ q \in Seq(StackFrame) /\ Len(q) = Len(frames) + 1 /\ q[Len(frames) + 1] = f
        /\ \A j \in 1 .. Len(frames) : q[j] = frames[j]
    BY <1>3, PushIs
  <2>3. Cardinality(Slots(q)) <= Cardinality(Slots(frames)) + Values(f.kind)
    BY <1>3, SlotsAppend
  <2>4. Cardinality(Slots(q)) <= StackSize
    <3>1. Cardinality(Slots(q)) \in Nat
      BY <2>2, SlotsFinite
    <3>2. Cardinality(Slots(frames)) + Values(f.kind) <= StackSize
      BY <2>1, PushedIs DEF Pushing
    <3> HIDE DEF q
    <3> QED  BY <1>3, <2>3, <3>1, <3>2, ValuesIn
  <2> HIDE DEF q
  <2>5. FramesOf(q)
    <3> SUFFICES ASSUME NEW j \in 1 .. Len(frames) + 1
                 PROVE  Opener(q[j]) \in DOMAIN program /\ Op(Opener(q[j])) = q[j].kind
      BY <2>2 DEF FramesOf
    <3>1. CASE j \in 1 .. Len(frames)
      BY <1>1, <2>2, <3>1 DEF StackSound, FramesOf
    <3>2. CASE j = Len(frames) + 1
      <4>1. cursor \in 1 .. Len(program) + 1 /\ Len(program) \in Nat
        BY ProgramText DEF CaosTyped, CaosTypeOK
      <4>2. Opener(f) = cursor
        BY <2>1, <4>1 DEF Pushing, Opener
      <4> QED  BY <2>1, <2>2, <3>2, <4>2 DEF Pushing
    <3> QED  BY <3>1, <3>2, <1>3
  <2>6. q = frames'
    BY <2>1 DEF Pushing, q
  <2> QED  BY <2>2, <2>4, <2>5, <2>6 DEF StackSound
<1>5. CASE \E f \in StackFrame : Keeping(f)
  <2>1. PICK f \in StackFrame : Keeping(f)
    BY <1>5
  <2>2. Newest = frames[Len(frames)] /\ Len(frames) \in Nat \ {0}
    BY <1>3, <2>1, PopIs DEF Keeping
  <2>3. PICK q : q = frames'
    OBVIOUS
  <2>4. /\ q \in Seq(StackFrame) /\ Len(q) = Len(frames)
        /\ \A j \in 1 .. Len(frames) : q[j].kind = frames[j].kind /\ q[j].back = frames[j].back
    BY <2>1, <2>2, <2>3 DEF Keeping
  <2>5. Cardinality(Slots(q)) <= StackSize
    <3>1. Cardinality(Slots(q)) <= Cardinality(Slots(frames))
      BY <1>3, <2>4, SlotsWithin
    <3>2. Cardinality(Slots(q)) \in Nat
      BY <2>4, SlotsFinite
    <3> QED  BY <1>1, <1>3, <3>1, <3>2 DEF StackSound
  <2>6. FramesOf(q)
    BY <1>1, <2>4 DEF FramesOf, StackSound, Opener
  <2> QED  BY <2>3, <2>4, <2>5, <2>6 DEF StackSound
<1>6. CASE Popping
  <2>1. PICK q : q = frames'
    OBVIOUS
  <2>2. /\ q \in Seq(StackFrame) /\ Len(q) = Len(frames) - 1 /\ Len(frames) \in Nat \ {0}
        /\ \A j \in 1 .. Len(frames) - 1 : q[j] = frames[j]
    BY <1>3, <1>6, <2>1, PopIs DEF Popping
  <2>3. Cardinality(Slots(q)) <= StackSize
    <3>1. Cardinality(Slots(q)) <= Cardinality(Slots(frames))
      BY <1>3, <2>2, SlotsWithin
    <3>2. Cardinality(Slots(q)) \in Nat
      BY <2>2, SlotsFinite
    <3> QED  BY <1>1, <1>3, <3>1, <3>2 DEF StackSound
  <2>4. FramesOf(q)
    BY <1>1, <2>2 DEF FramesOf, StackSound
  <2> QED  BY <2>1, <2>2, <2>3, <2>4 DEF StackSound
<1>7. CASE UNCHANGED frames
  BY <1>1, <1>7
<1> QED  BY <1>4, <1>5, <1>6, <1>7 DEF FrameStep

-----------------------------------------------------------------------------
(* Types *)

WorldTyped ==
  /\ registry \in Seq(Objects) /\ IsInjective(registry)
  /\ ToSet(registry) \subseteq Objects \ unborn /\ hidden \subseteq ToSet(registry)
  /\ unborn \subseteq Objects
  /\ removals \in Seq(Removal) /\ Len(removals) <= LogLimit /\ serial \in Nat
ScriptTyped ==
  /\ program \in Programs /\ cursor \in 1 .. Len(program) + 1
  /\ frames \in Seq(StackFrame) /\ Pushed <= StackSize /\ FramesIn
  /\ waiting \in Nat /\ waited \in Nat /\ capture \in BOOLEAN
  /\ state \in {"out", "in", "ended", "crossed"}
  /\ target \in Objects \union {Owner, Nobody} /\ missed \subseteq Objects

LEMMA TypedIs == CaosTyped <=> WorldTyped /\ ScriptTyped
BY DEF CaosTyped, CaosTypeOK, WorldTyped, ScriptTyped

LEMMA WorldRests == WorldTyped /\ UNCHANGED world => WorldTyped'
BY DEF WorldTyped, world, IsInjective, ToSet

LEMMA DeleteTyped ==
  ASSUME WorldTyped, NEW o, Delete(o)
  PROVE  WorldTyped'
<1>1. o \in ToSet(registry) /\ Erase(o) /\ unborn' = unborn /\ hidden' = hidden \ {o}
  BY DEF Delete, Erase
<1>2. /\ registry' \in Seq(Objects) /\ IsInjective(registry') /\ ToSet(registry') = ToSet(registry) \ {o}
  BY <1>1, EraseRegistry DEF WorldTyped, ErasedAt
<1>3. removals' \in Seq(Removal) /\ serial' \in Nat /\ Len(removals') <= LogLimit
  BY <1>1, EraseLog DEF WorldTyped
<1>4. ToSet(registry)' = ToSet(registry') /\ IsInjective(registry)' = IsInjective(registry')
  BY DEF ToSet, IsInjective
<1> QED  BY <1>1, <1>2, <1>3, <1>4 DEF WorldTyped

LEMMA KillTyped ==
  ASSUME WorldTyped, NEW o, Kill(o)
  PROVE  WorldTyped'
<1>1. ToSet(registry)' = ToSet(registry) /\ IsInjective(registry)' = IsInjective(registry)
  BY DEF Kill, ToSet, IsInjective
<1> QED  BY <1>1 DEF Kill, WorldTyped

LEMMA BirthIs ==
  ASSUME WorldTyped, NEW o, Birth(o)
  PROVE  /\ o \in Objects /\ registry' \in Seq(Objects) /\ Len(registry') = Len(registry) + 1
         /\ registry'[Len(registry) + 1] = o /\ \A j \in 1 .. Len(registry) : registry'[j] = registry[j]
BY DEF Birth, WorldTyped

LEMMA BirthTyped ==
  ASSUME WorldTyped, NEW o, Birth(o)
  PROVE  WorldTyped'
<1>1. /\ o \in Objects /\ registry' \in Seq(Objects) /\ Len(registry') = Len(registry) + 1
      /\ registry'[Len(registry) + 1] = o /\ \A j \in 1 .. Len(registry) : registry'[j] = registry[j]
  BY BirthIs
<1>2. o \in unborn /\ unborn' = unborn \ {o} /\ UNCHANGED <<hidden, removals, serial>>
  BY DEF Birth
<1>3. registry \in Seq(Objects) /\ Distinct(registry) /\ \A i \in 1 .. Len(registry) : registry[i] # o
  BY <1>2, DistinctIs DEF WorldTyped
<1>4. Distinct(registry')
  <2> SUFFICES ASSUME NEW i \in 1 .. Len(registry) + 1, NEW j \in 1 .. Len(registry) + 1,
                      registry'[i] = registry'[j]
               PROVE  i = j
    BY <1>1 DEF Distinct
  <2>1. i \in 1 .. Len(registry) \/ i = Len(registry) + 1
    BY <1>3
  <2>2. j \in 1 .. Len(registry) \/ j = Len(registry) + 1
    BY <1>3
  <2> QED  BY <1>1, <1>3, <2>1, <2>2 DEF Distinct
<1>5. ToSet(registry') = ToSet(registry) \cup {o}
  <2>1. ASSUME NEW x PROVE x \in ToSet(registry') <=> x \in ToSet(registry) \/ x = o
    <3>1. x \in ToSet(registry') <=> \E i \in 1 .. Len(registry) + 1 : registry'[i] = x
      BY <1>1, DistinctIs
    <3>2. x \in ToSet(registry) <=> \E i \in 1 .. Len(registry) : registry[i] = x
      BY <1>3, DistinctIs
    <3>3. Len(registry) \in Nat
      BY <1>3
    <3>4. (\E i \in 1 .. Len(registry) + 1 : registry'[i] = x)
            <=> x = o \/ \E i \in 1 .. Len(registry) : registry'[i] = x
      BY <1>1, <3>3
    <3> QED  BY <1>1, <3>1, <3>2, <3>4
  <2> QED  BY <2>1
<1>6. ToSet(registry)' = ToSet(registry') /\ IsInjective(registry)' = IsInjective(registry')
  BY DEF ToSet, IsInjective
<1>7. IsInjective(registry')
  BY <1>1, <1>4, DistinctIs
<1> QED  BY <1>1, <1>2, <1>5, <1>6, <1>7 DEF WorldTyped

LEMMA ReloadTyped ==
  ASSUME WorldTyped, Reload
  PROVE  WorldTyped'
<1>1. /\ registry' = Without(registry, hidden) /\ hidden' = {} /\ removals' = <<>> /\ serial' = 0
      /\ unborn' = unborn
  BY DEF Reload
<1>2. registry \in Seq(Objects) /\ Distinct(registry)
  BY DistinctIs DEF WorldTyped
<1>3. registry' \in Seq(Objects)
  BY <1>1, <1>2, WithoutIsSeq
<1>4. Distinct(registry')
  <2>1. \A i, j \in 1 .. Len(registry) : registry[i] = registry[j] => i = j
    BY <1>2 DEF Distinct
  <2>2. \A i, j \in 1 .. Len(Without(registry, hidden)) :
           Without(registry, hidden)[i] = Without(registry, hidden)[j] => i = j
    BY <1>2, <2>1, WithoutDistinct
  <2> QED  BY <1>1, <2>2 DEF Distinct
<1>5. ToSet(registry') = ToSet(registry) \ hidden
  <2>1. ASSUME NEW y PROVE y \in ToSet(registry') <=> y \in ToSet(registry) /\ y \notin hidden
    <3>1. (\E i \in 1 .. Len(Without(registry, hidden)) : Without(registry, hidden)[i] = y)
           <=> y \notin hidden /\ \E i \in 1 .. Len(registry) : registry[i] = y
      BY <1>2, WithoutKeeps
    <3> QED  BY <1>1, <1>2, <1>3, <3>1, DistinctIs
  <2> QED  BY <2>1
<1>6. ToSet(registry)' = ToSet(registry') /\ IsInjective(registry)' = IsInjective(registry')
  BY DEF ToSet, IsInjective
<1>7. IsInjective(registry')
  BY <1>3, <1>4, DistinctIs
<1>8. <<>> \in Seq(Removal) /\ Len(<<>>) <= LogLimit
  BY CaosScriptAssumption
<1> QED  BY <1>1, <1>3, <1>5, <1>6, <1>7, <1>8 DEF WorldTyped

LEMMA WorldStep ==
  ASSUME WorldTyped, [CaosNext]_caosVars
  PROVE  WorldTyped'
<1>1. CASE UNCHANGED world
  BY <1>1, WorldRests
<1>2. CASE KillTarget
  <2>1. Delete(target) \/ Kill(target) \/ UNCHANGED world
    BY <1>2 DEF KillTarget, world
  <2> QED  BY <1>1, <2>1, DeleteTyped, KillTyped
<1>3. CASE Between
  BY <1>3, DeleteTyped, KillTyped, BirthTyped DEF Between
<1>4. CASE Reload
  BY <1>4, ReloadTyped
<1> QED  BY <1>1, <1>2, <1>3, <1>4
         DEF CaosNext, Command, Enum, NextObject, Crossed, Turn, Event, caosVars, world

\* What a command leaves alone.
CursorSound == cursor \in 1 .. Len(program) + 1 /\ cursor' \in 1 .. Len(program) + 1

LEMMA AtIs ==
  ASSUME CaosTyped, NEW op, At(op)
  PROVE  /\ cursor \in DOMAIN program /\ cursor + 1 \in 1 .. Len(program) + 1 /\ Op(cursor) = op
         /\ Now = program[cursor] /\ Len(program) \in Nat
BY ProgramText DEF CaosTyped, CaosTypeOK, At, Now, Op

LEMMA Scanned ==
  ASSUME CaosTyped, NEW S, S \subseteq cursor + 1 .. Len(program), S # {}
  PROVE  First(S) \in S /\ First(S) + 1 \in 1 .. Len(program) + 1 /\ First(S) > cursor
         /\ \A q \in S : First(S) <= q
<1>1. cursor \in 1 .. Len(program) + 1 /\ Len(program) \in Nat
  BY ProgramText DEF CaosTyped, CaosTypeOK
<1>2. S \subseteq Nat
  BY <1>1
<1>3. First(S) \in S /\ \A q \in S : First(S) <= q
  BY <1>2, FirstIs
<1>4. First(S) \in cursor + 1 .. Len(program)
  BY <1>3
<1>5. \A i \in cursor + 1 .. Len(program) : i + 1 \in 1 .. Len(program) + 1 /\ i > cursor
  BY <1>1
<1> QED  BY <1>3, <1>4, <1>5

LEMMA BackIs ==
  ASSUME CaosTyped, frames # <<>>
  PROVE  /\ Newest \in StackFrame /\ Newest = frames[Len(frames)] /\ Len(frames) \in Nat \ {0}
         /\ Opener(Newest) \in DOMAIN program /\ Op(Opener(Newest)) = Newest.kind
         /\ Newest.back \in 2 .. Len(program) + 1
<1>1. Newest \in StackFrame /\ Newest = frames[Len(frames)] /\ Len(frames) \in Nat \ {0}
  BY PopIs DEF CaosTyped, CaosTypeOK
<1>2. Opener(Newest) \in DOMAIN program /\ Op(Opener(Newest)) = Newest.kind
  BY <1>1 DEF CaosTyped, FramesIn, FramesOf
<1>3. DOMAIN program = 1 .. Len(program) /\ Len(program) \in Nat /\ Newest.back \in Nat
  BY <1>1, ProgramText DEF CaosTyped, CaosTypeOK, StackFrame
<1> QED  BY <1>1, <1>2, <1>3 DEF Opener

LEMMA PushingIs ==
  ASSUME CaosTyped, NEW k \in {"enum", "reps", "loop", "gsub"}, At(k),
         NEW n \in Int, NEW since \in Int, NEW matches \in SUBSET Objects, NEW seen \in Seq(Objects),
         NEW f, f = [kind |-> k, back |-> cursor + 1, n |-> n, since |-> since,
                     matches |-> matches, seen |-> seen],
         Pushed + Values(k) <= StackSize, frames' = Append(frames, f)
  PROVE  FrameStep
<1>1. cursor \in DOMAIN program /\ Op(cursor) = k /\ cursor + 1 \in Nat
  BY AtIs
<1>2. f \in StackFrame /\ f.kind = k /\ f.back = cursor + 1
  BY <1>1 DEF StackFrame
<1>3. Pushing(f)
  BY <1>1, <1>2 DEF Pushing
<1> QED  BY <1>2, <1>3 DEF FrameStep

LEMMA RenewIs ==
  ASSUME CaosTyped, frames # <<>>, NEW f \in StackFrame,
         f.kind = Newest.kind, f.back = Newest.back,
         frames' = Append(Front(frames), f)
  PROVE  Keeping(f) /\ FrameStep
<1>1. PICK q \in Seq(StackFrame) : q = Front(frames) /\ Len(q) = Len(frames) - 1
           /\ \A j \in 1 .. Len(frames) - 1 : q[j] = frames[j]
  BY PopIs DEF CaosTyped, CaosTypeOK
<1>2. /\ Append(q, f) \in Seq(StackFrame) /\ Len(Append(q, f)) = Len(q) + 1
      /\ Append(q, f)[Len(q) + 1] = f /\ \A j \in 1 .. Len(q) : Append(q, f)[j] = q[j]
  BY <1>1, PushIs
<1>3. Len(frames) \in Nat \ {0}
  BY PopIs DEF CaosTyped, CaosTypeOK
<1>4. Keeping(f)
  BY <1>1, <1>2, <1>3 DEF Keeping
<1> QED  BY <1>4 DEF FrameStep

LEMMA MatchingIs ==
  ASSUME CaosTyped, NEW class
  PROVE  Matching(class) \subseteq Objects \ (hidden \cup unborn)
BY DEF CaosTyped, CaosTypeOK, Matching

\* Where an enumeration goes next.
FoundFrom(after, class) == {i \in DOMAIN registry : i - 1 > after /\ registry[i] \in Matching(class)}
Begun == {i \in DOMAIN registry : registry[i] \in Matching(Now.arg)}

LEMMA FoundIs ==
  ASSUME CaosTyped, NEW S, S \subseteq DOMAIN registry, S # {}
  PROVE  First(S) \in S /\ First(S) \in 1 .. Len(registry) /\ registry[First(S)] \in Objects
         /\ \A q \in S : First(S) <= q
<1>1. registry \in Seq(Objects)
  BY DEF CaosTyped
<1>2. S \subseteq Nat /\ DOMAIN registry = 1 .. Len(registry)
  BY <1>1
<1>3. First(S) \in S /\ \A q \in S : First(S) <= q
  BY <1>2, FirstIs
<1> HIDE DEF First
<1> QED  BY <1>1, <1>2, <1>3

\* What a step does to a script, apart from its data.
ScriptStep ==
  /\ program' = program /\ FrameStep /\ cursor' \in 1 .. Len(program) + 1
  /\ waiting' \in Nat /\ waited' \in Nat /\ capture' \in BOOLEAN
  /\ state' \in {"out", "in", "ended", "crossed"}
  /\ target' \in Objects \union {Owner, Nobody} /\ missed' \subseteq Objects

LEMMA ScriptStepTyped ==
  ASSUME CaosTyped, ScriptStep
  PROVE  ScriptTyped'
<1>1. frames' \in Seq(StackFrame) /\ Pushed' <= StackSize /\ FramesIn'
  BY FramesStep DEF ScriptStep
<1> QED  BY <1>1 DEF ScriptStep, ScriptTyped, CaosTyped, CaosTypeOK

LEMMA EnumTyped == ASSUME CaosTyped, Enum PROVE ScriptStep
<1> DEFINE S == {i \in DOMAIN registry : registry[i] \in Matching(Now.arg)}
<1> USE DEF CaosTyped, CaosTypeOK
<1>1. /\ At("enum") /\ UNCHANGED <<program, waiting, waited, capture, missed>>
      /\ program \in Programs /\ waiting \in Nat /\ waited \in Nat /\ capture \in BOOLEAN /\ missed \subseteq Objects
  BY DEF Enum
<1>2. cursor + 1 \in 1 .. Len(program) + 1 /\ cursor \in 1 .. Len(program) + 1
  BY <1>1, AtIs
<1>3. S \subseteq DOMAIN registry
  OBVIOUS
<1>4. CASE S = {}
  <2>1. /\ target' = Owner /\ UNCHANGED frames
        /\ IF NextAfter = {} THEN state' = "ended" /\ UNCHANGED cursor
           ELSE Goto(First(NextAfter) + 1) /\ GoOn
    BY <1>4 DEF Enum
  <2>2. NextAfter # {} => First(NextAfter) + 1 \in 1 .. Len(program) + 1
    BY Scanned DEF NextAfter
  <2>3. state' \in {"out", "in", "ended", "crossed"} /\ cursor' \in 1 .. Len(program) + 1
    BY <1>2, <2>1, <2>2 DEF Goto, GoOn
  <2> QED  BY <1>1, <2>1, <2>3 DEF ScriptStep, FrameStep
<1>5. CASE S # {} /\ Pushed + Values("enum") <= StackSize
  <2> DEFINE f == [kind |-> "enum", back |-> cursor + 1, n |-> First(S) - 1, since |-> serial,
                   matches |-> Matching(Now.arg), seen |-> Append(<<>>, registry[First(S)])]
  <2>1. frames' = Append(frames, f) /\ target' = registry[First(S)] /\ Goto(cursor + 1) /\ GoOn
    <3>1. ~(Pushed + Values("enum") > StackSize)
      <4>1. frames \in Seq(StackFrame)
        OBVIOUS
      <4>2. Pushed \in Nat
        BY ONLY <4>1, SlotsFinite, PushedIs
      <4>3. StackSize \in Nat
        BY CaosScriptAssumption
      <4>4. Values("enum") \in 1 .. 4
        BY ONLY ValuesIn
      <4> QED  BY <1>5, <4>2, <4>3, <4>4
    <3> QED  BY <1>5, <3>1 DEF Enum, Visit
  <2>2. First(S) \in 1 .. Len(registry) /\ registry[First(S)] \in Objects
    <3> HIDE DEF S
    <3> QED  BY <1>3, <1>5, FoundIs
  <2>3. First(S) - 1 \in Int /\ serial \in Int /\ Matching(Now.arg) \in SUBSET Objects
        /\ Append(<<>>, registry[First(S)]) \in Seq(Objects)
    <3>1. First(S) \in Int /\ registry \in Seq(Objects)
      BY <2>2
    <3>2. Matching(Now.arg) \subseteq Objects
      BY MatchingIs
    <3> HIDE DEF S
    <3>3. Append(<<>>, registry[First(S)]) \in Seq(Objects)
      BY <2>2
    <3> QED  BY <3>1, <3>2, <3>3
  <2> HIDE DEF S
  <2>4. FrameStep
    BY <1>1, <1>5, <2>1, <2>3, PushingIs
  <2> QED  BY <1>1, <1>2, <2>1, <2>2, <2>4 DEF ScriptStep, Goto, GoOn
<1>6. CASE S # {} /\ ~(Pushed + Values("enum") <= StackSize)
  <2>1. state' = "ended" /\ target' = registry[First(S)] /\ UNCHANGED <<frames, cursor>>
    BY <1>6 DEF Enum
  <2>2. registry[First(S)] \in Objects
    <3> HIDE DEF S
    <3> QED  BY <1>3, <1>6, FoundIs
  <2> QED  BY <1>1, <1>2, <2>1, <2>2 DEF ScriptStep, FrameStep
<1> QED  BY <1>4, <1>5, <1>6

LEMMA NextTyped == ASSUME CaosTyped, NextObject PROVE ScriptStep
<1> DEFINE class == program[Newest.back - 1].arg
           after == IF Newest.since = NoSerial THEN Newest.n ELSE IndexAfter(Newest.n, Newest.since)
           S == {i \in DOMAIN registry : i - 1 > after /\ registry[i] \in Matching(class)}
<1> USE DEF CaosTyped, CaosTypeOK
<1>1. /\ At("next") /\ Has("enum") /\ GoOn /\ UNCHANGED <<program, waiting, waited, capture>>
      /\ program \in Programs /\ waiting \in Nat /\ waited \in Nat /\ capture \in BOOLEAN /\ missed \subseteq Objects
      /\ state \in {"out", "in", "ended", "crossed"}
  BY DEF NextObject
<1>2. cursor + 1 \in 1 .. Len(program) + 1
  BY <1>1, AtIs
<1>3. frames # <<>> /\ Newest.kind = "enum"
  BY <1>1 DEF Has
<1>4. /\ Newest \in StackFrame /\ Newest.back \in 2 .. Len(program) + 1
  BY <1>3, BackIs
<1>5. Newest.back \in 1 .. Len(program) + 1 /\ Newest.matches \subseteq Objects
      /\ Newest.seen \in Seq(Objects) /\ Newest.back \in Nat /\ serial \in Int
  BY <1>4 DEF StackFrame
<1>6. S \subseteq DOMAIN registry
  OBVIOUS
<1>7. CASE S = {}
  <2>1. /\ frames' = Front(frames) /\ target' = Owner /\ cursor' = cursor + 1
        /\ missed' = (Newest.matches \cap Matching(class)) \ ToSet(Newest.seen)
    BY <1>7 DEF NextObject, Goto
  <2> QED  BY <1>1, <1>2, <1>3, <1>5, <2>1 DEF ScriptStep, FrameStep, Popping, GoOn
<1>8. CASE S # {}
  <2> DEFINE f == [kind |-> "enum", back |-> Newest.back, n |-> First(S) - 1, since |-> serial,
                   matches |-> Newest.matches, seen |-> Append(Newest.seen, registry[First(S)])]
  <2>1. frames' = Append(Front(frames), f) /\ target' = registry[First(S)] /\ cursor' = Newest.back
        /\ missed' = missed
    BY <1>8 DEF NextObject, Visit, Goto
  <2>2. First(S) \in 1 .. Len(registry) /\ registry[First(S)] \in Objects
    <3> HIDE DEF S
    <3> QED  BY <1>6, <1>8, FoundIs
  <2> HIDE DEF S
  <2>3. f \in StackFrame /\ f.kind = Newest.kind /\ f.back = Newest.back
    <3>1. First(S) - 1 \in Int /\ Append(Newest.seen, registry[First(S)]) \in Seq(Objects)
      BY <1>5, <2>2
    <3> QED  BY <1>3, <1>5, <3>1 DEF StackFrame
  <2> HIDE DEF f
  <2>4. FrameStep
    BY <1>3, <2>1, <2>3, RenewIs
  <2> QED  BY <1>1, <1>5, <2>1, <2>2, <2>4 DEF ScriptStep, GoOn
<1> QED  BY <1>7, <1>8

LEMMA BranchTyped ==
  ASSUME CaosTyped, Branch,
         UNCHANGED <<program, frames, waiting, waited, capture, target, missed>>
  PROVE  ScriptStep
<1> USE DEF CaosTyped, CaosTypeOK
<1>1. /\ cursor \in 1 .. Len(program) + 1 /\ FrameStep
  BY DEF FrameStep
<1>2. \A op : At(op) => cursor + 1 \in 1 .. Len(program) + 1
  BY AtIs
<1>3. \A s \in BOOLEAN : BranchEnds(s) # {} => First(BranchEnds(s)) + 1 \in 1 .. Len(program) + 1
  <2> TAKE s \in BOOLEAN
  <2> HAVE BranchEnds(s) # {}
  <2>1. BranchEnds(s) \subseteq cursor + 1 .. Len(program)
    BY DEF BranchEnds
  <2> QED  BY <2>1, Scanned
<1>4. (Now.op = "doif") \in BOOLEAN
  OBVIOUS
<1>5. cursor' \in 1 .. Len(program) + 1 /\ state' \in {"out", "in", "ended", "crossed"}
  BY <1>1, <1>2, <1>3, <1>4 DEF Branch, Goto, GoOn
<1> QED  BY <1>1, <1>5 DEF ScriptStep

LEMMA BeginTyped == ASSUME CaosTyped, Begin, UNCHANGED program PROVE ScriptStep
<1> USE DEF CaosTyped, CaosTypeOK
<1>1. \A op : At(op) => cursor + 1 \in 1 .. Len(program) + 1
  BY AtIs
<1>2. CASE At("gsub") /\ Labels = {} /\ Terminate
  BY <1>2 DEF Terminate, ScriptStep, FrameStep
<1>3. ASSUME NEW k \in {"loop", "reps", "gsub"}, At(k), NEW n \in Int,
             Enter(Push(k, n, NoSerial, {}, <<>>)), cursor' \in 1 .. Len(program) + 1
      PROVE  ScriptStep
  <2> DEFINE f == Push(k, n, NoSerial, {}, <<>>)
  <2>1. /\ f = [kind |-> k, back |-> cursor + 1, n |-> n, since |-> -1,
                matches |-> {}, seen |-> <<>>]
        /\ f.kind = k
    BY DEF Push, NoSerial
  <2>2. CASE Pushes(f)
    <3>1. frames' = Append(frames, f) /\ GoOn /\ UNCHANGED <<waiting, waited, capture, target, missed>>
          /\ Pushed + Values(k) <= StackSize
      BY <1>3, <2>1, <2>2 DEF Enter, Pushes
    <3>2. -1 \in Int /\ {} \in SUBSET Objects /\ <<>> \in Seq(Objects)
      OBVIOUS
    <3> HIDE DEF f
    <3>3. FrameStep
      BY <1>3, <2>1, <3>1, <3>2, PushingIs
    <3> QED  BY <1>3, <3>1, <3>3 DEF ScriptStep, GoOn
  <2>3. CASE ~Pushes(f)
    BY <1>3, <2>3 DEF Enter, ScriptStep, FrameStep
  <2> QED  BY <2>2, <2>3
<1>4. CASE At("loop") /\ Enter(Push("loop", 0, NoSerial, {}, <<>>)) /\ Goto(cursor + 1)
  BY <1>1, <1>3, <1>4 DEF Goto
<1>5. CASE At("reps") /\ Enter(Push("reps", Now.arg, NoSerial, {}, <<>>)) /\ Goto(cursor + 1)
  <2>1. Now.arg \in Int
    <3>1. program \in Programs /\ cursor \in DOMAIN program /\ program[cursor].op = "reps"
      BY <1>5, AtIs DEF At
    <3> QED  BY <3>1, CaosScriptAssumption DEF Now
  <2> QED  BY <1>1, <1>3, <1>5, <2>1 DEF Goto
<1>6. CASE At("gsub") /\ Labels # {} /\ Enter(Push("gsub", 0, NoSerial, {}, <<>>)) /\ Goto(First(Labels) + 1)
  <2>1. Len(program) \in Nat /\ Labels \subseteq 1 .. Len(program)
    BY ProgramText DEF Labels
  <2>2. Labels \subseteq Nat
    BY <2>1
  <2>3. First(Labels) \in Labels
    BY <1>6, <2>2, FirstIs
  <2> HIDE DEF Labels
  <2>4. First(Labels) + 1 \in 1 .. Len(program) + 1
    <3>1. First(Labels) \in 1 .. Len(program)
      BY <2>1, <2>3
    <3>2. \A i \in 1 .. Len(program) : i + 1 \in 1 .. Len(program) + 1
      BY <2>1
    <3> QED  BY <3>1, <3>2
  <2> QED  BY <1>3, <1>6, <2>4 DEF Goto
<1> QED  BY <1>2, <1>4, <1>5, <1>6 DEF Begin

LEMMA HasIs ==
  ASSUME CaosTyped, NEW k, Has(k)
  PROVE  /\ frames # <<>> /\ Newest.kind = k /\ Newest \in StackFrame /\ Newest = frames[Len(frames)]
         /\ Len(frames) \in Nat \ {0} /\ Newest.back \in 1 .. Len(program) + 1
         /\ Opener(Newest) \in DOMAIN program /\ Op(Opener(Newest)) = k
<1>1. frames # <<>> /\ Newest.kind = k
  BY DEF Has
<1>2. /\ Newest \in StackFrame /\ Newest = frames[Len(frames)] /\ Len(frames) \in Nat \ {0}
      /\ Opener(Newest) \in DOMAIN program /\ Op(Opener(Newest)) = Newest.kind
      /\ Newest.back \in 2 .. Len(program) + 1
  BY <1>1, BackIs
<1>3. Newest.back \in 1 .. Len(program) + 1
  BY <1>2
<1> QED  BY <1>1, <1>2, <1>3

LEMMA CountDown ==
  ASSUME CaosTyped, frames # <<>>, frames' = [frames EXCEPT ![Len(frames)].n = @ - 1]
  PROVE  Keeping([Newest EXCEPT !.n = @ - 1])
<1>1. /\ Newest \in StackFrame /\ Newest = frames[Len(frames)] /\ Len(frames) \in Nat \ {0}
  BY BackIs
<1>2. frames \in Seq(StackFrame)
  BY DEF CaosTyped, CaosTypeOK
<1> DEFINE f == [Newest EXCEPT !.n = @ - 1]
<1>3. f \in StackFrame /\ f.kind = Newest.kind /\ f.back = Newest.back
  <2>1. PICK g \in StackFrame : g = Newest
    BY <1>1
  <2>2. PICK m \in Int : m = g.n - 1
    BY DEF StackFrame
  <2>3. [g EXCEPT !.n = m] \in StackFrame /\ [g EXCEPT !.n = m].kind = g.kind
        /\ [g EXCEPT !.n = m].back = g.back
    BY DEF StackFrame
  <2>4. f = [g EXCEPT !.n = m]
    BY <2>1, <2>2
  <2> HIDE DEF f
  <2> QED  BY <2>1, <2>3, <2>4
<1>4. frames' = [frames EXCEPT ![Len(frames)] = f]
  BY <1>1
<1> HIDE DEF f
<1>5. /\ frames' \in Seq(StackFrame) /\ Len(frames') = Len(frames) /\ frames'[Len(frames)] = f
      /\ \A j \in 1 .. Len(frames) - 1 : frames'[j] = frames[j]
  BY <1>1, <1>2, <1>3, <1>4
<1> QED  BY <1>3, <1>5 DEF Keeping, f

LEMMA CloseTyped ==
  ASSUME CaosTyped, Close, GoOn, UNCHANGED <<program, waiting, waited, capture, target, missed>>
  PROVE  ScriptStep
<1> USE DEF CaosTyped, CaosTypeOK
<1>1. \A op : At(op) => cursor + 1 \in 1 .. Len(program) + 1
  BY AtIs
<1>2. \A k : Has(k) => frames # <<>> /\ Newest.back \in 1 .. Len(program) + 1
  BY HasIs
<1>3. frames # <<>> /\ cursor' \in 1 .. Len(program) + 1
  BY <1>1, <1>2 DEF Close, Goto
<1>4. FrameStep
  <2>1. CASE frames' = Front(frames) \/ UNCHANGED frames
    BY <1>3, <2>1 DEF FrameStep, Popping
  <2>2. CASE frames' = [frames EXCEPT ![Len(frames)].n = @ - 1]
    BY <1>3, <2>2, CountDown DEF FrameStep, Keeping
  <2> QED  BY <2>1, <2>2 DEF Close
<1> QED  BY <1>3, <1>4 DEF ScriptStep, GoOn

LEMMA WaitTyped ==
  ASSUME CaosTyped, Wait, UNCHANGED <<program, frames, capture, target, missed>>
  PROVE  ScriptStep
<1> USE DEF CaosTyped, CaosTypeOK
<1>1. cursor + 1 \in 1 .. Len(program) + 1 /\ program[cursor].op = "wait" /\ cursor \in DOMAIN program
  BY AtIs DEF Wait, At
<1>2. Now.arg \in 0 .. Word - 1 /\ Word \in Nat \ {0}
  BY <1>1, CaosScriptAssumption DEF Now, At
<1>3. (Now.arg - 1) % Word \in Nat
  BY <1>2
<1>4. waiting # 0 => waiting - 1 \in Nat
  OBVIOUS
<1>5. waiting' \in Nat /\ waited' \in Nat /\ cursor' \in 1 .. Len(program) + 1
  BY <1>1, <1>3, <1>4 DEF Wait, Goto
<1>6. state' \in {"out", "in", "ended", "crossed"} /\ FrameStep
  BY DEF Wait, EndTurn, FrameStep
<1> QED  BY <1>5, <1>6 DEF ScriptStep

LEMMA RestTyped ==
  ASSUME CaosTyped,
         \/ Over /\ UNCHANGED <<program, frames, waiting, waited, capture, target, missed, world>>
         \/ KillTarget /\ UNCHANGED <<program, frames, waiting, waited, capture, missed>>
         \/ Instantiate /\ UNCHANGED <<program, frames, waiting, waited, target, missed, world>>
         \/ Stop /\ Terminate /\ UNCHANGED <<program, world>>
         \/ Crossed
  PROVE  ScriptStep
<1> USE DEF CaosTyped, CaosTypeOK
<1>1. \A op : At(op) => cursor + 1 \in 1 .. Len(program) + 1
  BY AtIs
<1>2. UNCHANGED frames => FrameStep
  BY DEF FrameStep
<1>3. UNCHANGED frames
  BY DEF Terminate, Crossed
<1>4. CASE KillTarget /\ UNCHANGED <<program, frames, waiting, waited, capture, missed>>
  <2>1. cursor' \in 1 .. Len(program) + 1 /\ state' \in {"out", "in", "ended", "crossed"}
    BY <1>1, <1>4 DEF KillTarget, Goto, EndTurn
  <2>2. target' = target \/ target' = Nobody
    BY <1>4 DEF KillTarget
  <2> QED  BY <1>2, <1>4, <2>1, <2>2 DEF ScriptStep
<1>5. CASE Over /\ UNCHANGED <<program, frames, waiting, waited, capture, target, missed, world>>
  BY <1>1, <1>2, <1>5 DEF Over, OverEndsTurn, EndTurn, Goto, ScriptStep
<1>6. CASE Instantiate /\ UNCHANGED <<program, frames, waiting, waited, target, missed, world>>
  BY <1>1, <1>2, <1>6 DEF Instantiate, GoOn, Goto, ScriptStep
<1>7. CASE Terminate /\ UNCHANGED program
  BY <1>2, <1>7 DEF Terminate, ScriptStep
<1>8. CASE Crossed
  BY <1>2, <1>8 DEF Crossed, ScriptStep
<1> QED  BY <1>4, <1>5, <1>6, <1>7, <1>8

LEMMA ScriptSteps ==
  ASSUME CaosTyped, Command \/ Turn \/ Event
  PROVE  ScriptTyped'
<1>1. CASE Command
  <2>1. ScriptStep
    BY <1>1, EnumTyped, NextTyped, BranchTyped, BeginTyped, CloseTyped, WaitTyped, RestTyped DEF Command
  <2> QED  BY <2>1, ScriptStepTyped
<1>2. CASE Turn
  <2>1. ScriptStep
    BY <1>2 DEF CaosTyped, CaosTypeOK, Turn, ScriptStep, FrameStep
  <2> QED  BY <2>1, ScriptStepTyped
<1>3. CASE Event
  <2>1. /\ frames' = <<>> /\ cursor' = 1 /\ waiting' = 0 /\ waited' = 0 /\ capture' = FALSE
        /\ target' = Owner /\ state' = "out" /\ missed' = {} /\ program' = program
    BY <1>3 DEF Event, NoWait
  <2>2. Len(program) \in Nat /\ program \in Programs
    BY ProgramText DEF CaosTyped, CaosTypeOK
  <2>3. <<>> \in Seq(StackFrame) /\ FramesOf(<<>>) /\ Cardinality(Slots(<<>>)) = 0
    <3>1. Slots(<<>>) = {}
      BY DEF Slots
    <3> QED  BY <3>1, FS_EmptySet DEF FramesOf
  <2>4. Pushed' <= StackSize
    <3>1. Pushed' = Cardinality(Slots(frames'))
      BY DEF Pushed, Slots
    <3> QED  BY <2>1, <2>3, <3>1, CaosScriptAssumption
  <2>5. FramesIn'
    BY <2>1 DEF FramesIn, FramesOf
  <2>6. cursor' \in 1 .. Len(program') + 1 /\ program' \in Programs /\ frames' \in Seq(StackFrame)
    BY <2>1, <2>2, <2>3
  <2>7. /\ waiting' \in Nat /\ waited' \in Nat /\ capture' \in BOOLEAN
        /\ state' \in {"out", "in", "ended", "crossed"}
        /\ target' \in Objects \union {Owner, Nobody} /\ missed' \subseteq Objects
    BY <2>1
  <2> QED  BY <2>4, <2>5, <2>6, <2>7 DEF ScriptTyped
<1> QED  BY <1>1, <1>2, <1>3

LEMMA ScriptRests == ScriptTyped /\ UNCHANGED script => ScriptTyped'
BY DEF ScriptTyped, script, Pushed, FramesIn, FramesOf, Op, Opener

\* the frames lose their serials only
Unserialled(q, r) ==
  /\ r \in Seq(StackFrame) /\ Len(r) = Len(q)
  /\ \A j \in 1 .. Len(q) : /\ r[j].kind = q[j].kind /\ r[j].back = q[j].back /\ r[j].n = q[j].n
                            /\ r[j].since = NoSerial /\ r[j].matches = {} /\ r[j].seen = q[j].seen

LEMMA ReloadStack ==
  ASSUME CaosTyped, Reload
  PROVE  Unserialled(frames, frames')
<1>1. frames' = [i \in DOMAIN frames |-> [frames[i] EXCEPT !.since = NoSerial, !.matches = {}]]
  BY DEF Reload
<1>2. frames \in Seq(StackFrame) /\ NoSerial \in Int
  BY DEF CaosTyped, CaosTypeOK, NoSerial
<1>3. DOMAIN frames = 1 .. Len(frames)
  BY <1>2
<1>4. \A i \in 1 .. Len(frames) : /\ frames'[i] = [frames[i] EXCEPT !.since = NoSerial, !.matches = {}]
                                 /\ frames[i] \in StackFrame
  <2> TAKE i \in 1 .. Len(frames)
  <2>1. i \in DOMAIN frames /\ frames[i] \in StackFrame
    BY <1>2
  <2>2. frames'[i] = [frames[i] EXCEPT !.since = NoSerial, !.matches = {}]
    BY ONLY <1>1, <2>1
  <2> QED  BY <2>1, <2>2
<1>5. \A i \in 1 .. Len(frames) :
        /\ frames'[i] \in StackFrame /\ frames'[i].kind = frames[i].kind /\ frames'[i].back = frames[i].back
        /\ frames'[i].n = frames[i].n /\ frames'[i].since = NoSerial /\ frames'[i].matches = {}
        /\ frames'[i].seen = frames[i].seen
  <2> TAKE i \in 1 .. Len(frames)
  <2>1. PICK g \in StackFrame : g = frames[i]
    BY <1>4
  <2>2. PICK h : h = frames'[i]
    OBVIOUS
  <2>3. h = [g EXCEPT !.since = NoSerial, !.matches = {}]
    BY <1>4, <2>1, <2>2
  <2>4. /\ h \in StackFrame /\ h.kind = g.kind /\ h.back = g.back /\ h.n = g.n
        /\ h.since = NoSerial /\ h.matches = {} /\ h.seen = g.seen
    BY <1>2, <2>3 DEF StackFrame
  <2> QED  BY <2>1, <2>2, <2>4
<1>6. frames' \in Seq(StackFrame) /\ Len(frames') = Len(frames)
  <2>1. frames' = [i \in 1 .. Len(frames) |-> frames'[i]]
    BY <1>1, <1>3
  <2>2. Len(frames) \in Nat /\ \A i \in 1 .. Len(frames) : frames'[i] \in StackFrame
    BY <1>2, <1>5
  <2> QED  BY <2>1, <2>2
<1> QED  BY <1>5, <1>6 DEF Unserialled

LEMMA OutsideTyped ==
  ASSUME CaosTyped, Between \/ Reload
  PROVE  ScriptTyped'
<1>1. CASE UNCHANGED script
  BY <1>1, ScriptRests, TypedIs
<1>2. CASE \E o \in Objects : /\ Delete(o) /\ target' = Forget(o)
                              /\ UNCHANGED <<program, cursor, frames, waiting, waited, state, capture, missed>>
  <2>1. ScriptStep
    BY <1>2 DEF ScriptStep, FrameStep, Forget, CaosTyped, CaosTypeOK
  <2> QED  BY <2>1, ScriptStepTyped
<1>3. CASE Reload
  <2>1. PICK q : q = frames'
    OBVIOUS
  <2>2. Unserialled(frames, q) /\ frames \in Seq(StackFrame) /\ FramesOf(frames)
        /\ Cardinality(Slots(frames)) <= StackSize
    BY <1>3, <2>1, ReloadStack, PushedIs DEF CaosTyped, CaosTypeOK, FramesIn
  <2>3. q \in Seq(StackFrame) /\ Cardinality(Slots(q)) <= StackSize /\ FramesOf(q)
    <3>1. Cardinality(Slots(q)) <= Cardinality(Slots(frames))
      BY <2>2, SlotsWithin DEF Unserialled
    <3>2. Cardinality(Slots(q)) \in Nat /\ Cardinality(Slots(frames)) \in Nat /\ StackSize \in Nat
      BY <2>2, SlotsFinite, CaosScriptAssumption DEF Unserialled
    <3>3. FramesOf(q)
      BY <2>2 DEF Unserialled, FramesOf, Opener
    <3> QED  BY <2>2, <3>1, <3>2, <3>3 DEF Unserialled
  <2>4. program' = program /\ UNCHANGED <<cursor, waiting, waited, state, capture, target, missed>>
    BY <1>3 DEF Reload
  <2>5. Pushed' <= StackSize /\ FramesIn'
    <3>1. Pushed' = Cardinality(Slots(frames'))
      BY DEF Pushed, Slots
    <3>2. FramesOf(frames') => FramesIn'
      BY <2>4 DEF FramesIn, FramesOf, Op, Opener
    <3> QED  BY <2>1, <2>3, <3>1, <3>2
  <2> QED  BY <2>1, <2>3, <2>4, <2>5 DEF ScriptTyped, CaosTyped, CaosTypeOK
<1> QED  BY <1>1, <1>2, <1>3 DEF Between

LEMMA TypedStep == CaosTyped /\ [CaosNext]_caosVars => CaosTyped'
<1> SUFFICES ASSUME CaosTyped, [CaosNext]_caosVars PROVE WorldTyped' /\ ScriptTyped'
  BY DEF CaosTyped, CaosTypeOK, WorldTyped, ScriptTyped
<1>1. WorldTyped'
  BY TypedIs, WorldStep
<1>2. ScriptTyped'
  BY TypedIs, ScriptSteps, OutsideTyped, ScriptRests DEF CaosNext, caosVars, script
<1> QED  BY <1>1, <1>2

LEMMA TypedInit == CaosInit => CaosTyped
<1> SUFFICES ASSUME CaosInit PROVE WorldTyped /\ ScriptTyped
  BY TypedIs
<1>1. WorldTyped
  <2>1. IsInjective(registry) /\ registry \in Seq(Objects)
    BY DEF CaosInit, SeqOf
  <2>2. ToSet(registry) \subseteq Objects
    BY <2>1, DistinctIs
  <2> QED  BY <2>1, <2>2, CaosScriptAssumption DEF CaosInit, WorldTyped
<1>2. ScriptTyped
  <2>1. Slots(<<>>) = {} /\ Cardinality({}) = 0
    BY FS_EmptySet DEF Slots
  <2>2. Pushed <= StackSize
    <3>1. frames = <<>>
      BY DEF CaosInit
    <3>2. Pushed = 0
      BY <2>1, <3>1, PushedIs
    <3> QED  BY <3>2, CaosScriptAssumption
  <2>3. program \in Programs /\ Len(program) \in Nat
    BY ProgramText DEF CaosInit
  <2>4. frames = <<>> /\ FramesIn /\ frames \in Seq(StackFrame)
    BY DEF CaosInit, FramesIn, FramesOf
  <2>5. cursor = 1 /\ cursor \in 1 .. Len(program) + 1
    BY <2>3 DEF CaosInit
  <2>6. /\ waiting \in Nat /\ waited \in Nat /\ capture \in BOOLEAN
        /\ state \in {"out", "in", "ended", "crossed"}
        /\ target \in Objects \union {Owner, Nobody} /\ missed \subseteq Objects
    BY DEF CaosInit
  <2> QED  BY <2>2, <2>3, <2>4, <2>5, <2>6 DEF ScriptTyped
<1> QED  BY <1>1, <1>2

\* The interpreter keeps its cursor inside the text, its frames inside the value stack of 20
\* values, and the registry without duplicates.
THEOREM ScriptIsTyped == CaosSpec => []CaosTyped
BY TypedInit, TypedStep, PTL DEF CaosSpec

-----------------------------------------------------------------------------
(* Waits *)

Turns(p) == IF program[p].arg = 0 THEN Word ELSE program[p].arg
WaitCounts ==
  /\ waiting = 0 => waited = 0
  /\ waiting # 0 => /\ cursor \in DOMAIN program /\ Op(cursor) = "wait"
                    /\ waited + waiting = Turns(cursor)
WaitSound == CaosTyped /\ WaitCounts

LEMMA WaitPass ==
  ASSUME WaitSound, Wait, program' = program
  PROVE  /\ WaitCounts'
         /\ \A p \in DOMAIN program :
              p = cursor /\ cursor' # cursor => waited + 1 = Turns(p)
<1>1. cursor \in DOMAIN program /\ Op(cursor) = "wait" /\ Now = program[cursor]
  BY AtIs DEF Wait, WaitSound
<1>2. PICK a : a = Now.arg
  OBVIOUS
<1>3. a \in 0 .. Word - 1 /\ Word \in Nat \ {0}
  BY <1>1, <1>2, CaosScriptAssumption DEF WaitSound, CaosTyped, CaosTypeOK, Op
<1>4. Turns(cursor) = IF a = 0 THEN Word ELSE a
  BY <1>1, <1>2 DEF Turns
<1>5. (a - 1) % Word = IF a = 0 THEN Word - 1 ELSE a - 1
  BY <1>3
<1>0. PICK left : left = IF waiting = 0 THEN (Now.arg - 1) % Word ELSE waiting - 1
  OBVIOUS
<1>6. /\ left = IF waiting = 0 THEN (a - 1) % Word ELSE waiting - 1
      /\ waiting' = left
      /\ IF left # 0 THEN waited' = waited + 1 /\ UNCHANGED cursor ELSE waited' = 0
  BY <1>2, <1>0 DEF Wait
<1>7. waiting \in Nat /\ waited \in Nat
  BY DEF WaitSound, CaosTyped, CaosTypeOK
<1>8. waited + 1 + left = Turns(cursor)
  BY <1>3, <1>4, <1>5, <1>6, <1>7 DEF WaitSound, WaitCounts
<1>9. CASE left # 0
  <2>1. waited' + waiting' = Turns(cursor) /\ cursor' = cursor /\ waiting' # 0
    <3>1. left \in Int
      BY <1>3, <1>5, <1>6, <1>7
    <3> QED  BY <1>6, <1>7, <1>8, <1>9, <3>1
  <2> QED  BY <1>1, <2>1 DEF WaitCounts, Turns, Op
<1>10. CASE left = 0
  <2>1. waited' = 0 /\ waiting' = 0
    BY <1>6, <1>10
  <2>2. waited + 1 = Turns(cursor)
    BY <1>7, <1>8, <1>10
  <2> QED  BY <2>1, <2>2 DEF WaitCounts
<1> QED  BY <1>9, <1>10

LEMMA WaitStep == WaitSound /\ [CaosNext]_caosVars => WaitCounts'
<1> SUFFICES ASSUME WaitSound, [CaosNext]_caosVars PROVE WaitCounts'
  OBVIOUS
<1>1. CASE UNCHANGED <<program, waiting, waited>> /\ (waiting = 0 \/ UNCHANGED cursor)
  BY <1>1 DEF WaitSound, WaitCounts, Turns, Op
<1>2. CASE Wait /\ UNCHANGED program
  BY <1>2, WaitPass
<1>3. CASE Event
  BY <1>3 DEF Event, NoWait, WaitCounts
<1>4. CASE Command /\ ~(Wait /\ UNCHANGED program)
  <2>1. UNCHANGED <<program, waiting, waited>>
    BY <1>4 DEF Command, Enum, NextObject, Begin, Enter, Terminate, Crossed
  <2>2. waiting # 0 => cursor <= Len(program) /\ Now.op = "wait"
    <3>1. waiting # 0 => cursor \in DOMAIN program /\ program[cursor].op = "wait"
      BY DEF WaitSound, WaitCounts, Op
    <3> QED  BY <3>1, ProgramText DEF Now, WaitSound, CaosTyped, CaosTypeOK
  <2>3. waiting # 0 => UNCHANGED cursor
    <3> SUFFICES ASSUME waiting # 0 PROVE UNCHANGED cursor
      OBVIOUS
    <3>1. \A op : At(op) => op = "wait"
      BY <2>2 DEF At
    <3>2. ~Enum /\ ~NextObject /\ ~Branch /\ ~Begin /\ ~Close /\ ~Over /\ ~KillTarget /\ ~Instantiate
      BY <3>1 DEF Enum, NextObject, Branch, Begin, Close, Over, KillTarget, Instantiate
    <3> QED  BY <1>4, <3>2 DEF Command, Terminate, Crossed
  <2> QED  BY <1>1, <2>1, <2>3
<1>5. CASE Turn \/ Between \/ Reload \/ UNCHANGED caosVars
  <2>1. UNCHANGED <<program, waiting, waited, cursor>>
    BY <1>5 DEF Turn, Between, Reload, caosVars, script
  <2> QED  BY <1>1, <2>1
<1> QED  BY <1>2, <1>3, <1>4, <1>5 DEF CaosNext

LEMMA WaitIsSound == CaosSpec => []WaitSound
<1>1. CaosInit => WaitSound
  BY TypedInit DEF CaosInit, WaitSound, WaitCounts
<1>2. WaitSound /\ [CaosNext]_caosVars => WaitSound'
  BY WaitStep, TypedStep DEF WaitSound
<1> QED  BY <1>1, <1>2, PTL DEF CaosSpec

\* wait n ends n turns, also when an event has begun the script anew in the middle of an
\* earlier wait; wait 0 is the longest (execute_wait_command counts down from the unsigned -1).
THEOREM WaitsLast == CaosSpec => WaitLasts
<1>1. WaitSound /\ [CaosNext]_caosVars =>
        [\A p \in DOMAIN program :
          Wait /\ p = cursor /\ cursor' # cursor =>
            waited + 1 = IF program[p].arg = 0 THEN Word ELSE program[p].arg]_caosVars
  <2> SUFFICES ASSUME WaitSound, CaosNext, NEW p \in DOMAIN program, Wait, p = cursor, cursor' # cursor
               PROVE  waited + 1 = IF program[p].arg = 0 THEN Word ELSE program[p].arg
    OBVIOUS
  <2>1. program' = program
    BY DEF CaosNext, Command, Enum, NextObject, Crossed, Turn, Event, Between, Reload, script
  <2> QED  BY <2>1, WaitPass DEF Turns
<1> QED  BY <1>1, WaitIsSound, PTL DEF CaosSpec, WaitLasts

-----------------------------------------------------------------------------
(* The index of an enumeration after removals *)

MovedOnce(r, since, v) == IF r.serial > since /\ r.index <= v THEN v - 1 ELSE v
Moves(f, log, index, since) ==
  f[0] = index /\ \A k \in 1 .. Len(log) : f[k] = MovedOnce(log[k], since, f[k - 1])

LEMMA MovedIs ==
  ASSUME NEW log \in Seq(Removal), NEW index \in Int, NEW since \in Int
  PROVE  \E f \in [0 .. Len(log) -> Int] :
           Moves(f, log, index, since) /\ Moved(log, index, since) = f[Len(log)]
<1> DEFINE n == Len(log)
           Is(f) == f = [k \in 0 .. n |->
                          IF k = 0 THEN index
                          ELSE IF log[k].serial > since /\ log[k].index <= f[k - 1] THEN f[k - 1] - 1
                          ELSE f[k - 1]]
           m == CHOOSE f : Is(f)
<1>1. n \in Nat
  OBVIOUS
<1>2. \E f : Is(f)
  <2> DEFINE step == [k \in 1 .. n |-> [v \in Int |-> MovedOnce(log[k], since, v)]]
  <2>1. step \in [1 .. n -> [Int -> Int]]
    <3>1. \A k \in 1 .. n : \A v \in Int : MovedOnce(log[k], since, v) \in Int
      BY DEF MovedOnce
    <3> QED  BY <3>1
  <2>2. \A k \in 1 .. n : \A v \in Int : step[k][v] = MovedOnce(log[k], since, v)
    OBVIOUS
  <2> HIDE DEF step
  <2>3. PICK f : FoldsIn(Int, f, index, step, n)
    <3> HIDE DEF n, Is
    <3> QED  BY <1>1, <2>1, FoldExists
  <2>0. f \in [0 .. n -> Int] /\ f[0] = index /\ \A k \in 1 .. n : f[k] = step[k][f[k - 1]]
    BY <2>3 DEF FoldsIn
  <2>4. ASSUME NEW k \in 0 .. n
        PROVE  f[k] = IF k = 0 THEN index
                      ELSE IF log[k].serial > since /\ log[k].index <= f[k - 1] THEN f[k - 1] - 1
                      ELSE f[k - 1]
    <3>1. CASE k = 0
      BY <2>0, <3>1
    <3>2. CASE k # 0
      <4>1. k \in 1 .. n /\ k - 1 \in 0 .. n
        BY <1>1, <3>2
      <4> QED  BY <2>2, <2>0, <3>2, <4>1 DEF MovedOnce
    <3> QED  BY <3>1, <3>2
  <2> HIDE DEF n
  <2>5. Is(f)
    BY <2>0, <2>4
  <2> QED  BY <2>5
<1>3. Is(m)
  <2> HIDE DEF Is
  <2> QED  BY <1>2
<1>4. Moved(log, index, since) = m[n]
  BY DEF Moved
<1>5. \A k \in 0 .. n : m[k] = IF k = 0 THEN index
                               ELSE IF log[k].serial > since /\ log[k].index <= m[k - 1] THEN m[k - 1] - 1
                               ELSE m[k - 1]
  <2> HIDE DEF m
  <2> QED  BY <1>3
<1>6. DOMAIN m = 0 .. n /\ m = [k \in 0 .. n |-> m[k]]
  <2> HIDE DEF m
  <2> QED  BY <1>3
<1> HIDE DEF m, Is
<1>7. Moves(m, log, index, since)
  <2>1. m[0] = index
    BY <1>1, <1>5
  <2>2. ASSUME NEW k \in 1 .. n PROVE m[k] = MovedOnce(log[k], since, m[k - 1])
    BY <1>1, <1>5 DEF MovedOnce
  <2> QED  BY <2>1, <2>2 DEF Moves
<1>8. \A k \in 0 .. n : m[k] \in Int
  <2> DEFINE Good == {k \in Nat : m[k] \in Int}
  <2>1. 0 \in Good
    BY <1>7 DEF Moves
  <2>2. ASSUME NEW k \in 1 .. n, k - 1 \in Good PROVE k \in Good
    BY <1>7, <2>2 DEF Moves, MovedOnce
  <2>3. \A k \in 0 .. n : k \in Good
    <3> HIDE DEF Good
    <3> QED  BY <1>1, <2>1, <2>2, NumbersAre
  <2> QED  BY <2>3
<1>9. m \in [0 .. n -> Int]
  BY <1>6, <1>8
<1> QED  BY <1>4, <1>7, <1>9

LEMMA MovedAppend ==
  ASSUME NEW log \in Seq(Removal), NEW r \in Removal, NEW index \in Int, NEW since \in Int
  PROVE  Moved(Append(log, r), index, since) = MovedOnce(r, since, Moved(log, index, since))
<1> DEFINE n == Len(log)
<1>1. /\ n \in Nat /\ Append(log, r) \in Seq(Removal) /\ Len(Append(log, r)) = n + 1
      /\ Append(log, r)[n + 1] = r /\ \A k \in 1 .. n : Append(log, r)[k] = log[k]
  OBVIOUS
<1>2. PICK f \in [0 .. n -> Int] : Moves(f, log, index, since) /\ Moved(log, index, since) = f[n]
  BY MovedIs
<1>3. PICK g \in [0 .. n + 1 -> Int] :
        Moves(g, Append(log, r), index, since) /\ Moved(Append(log, r), index, since) = g[n + 1]
  BY <1>1, MovedIs
<1> DEFINE Good == {k \in Nat : f[k] = g[k]}
<1>4. 0 \in Good
  BY <1>2, <1>3 DEF Moves
<1>5. ASSUME NEW k \in 1 .. n, k - 1 \in Good PROVE k \in Good
  <2>1. k \in 1 .. n + 1 /\ f[k - 1] = g[k - 1]
    BY <1>1, <1>5
  <2>2. f[k] = MovedOnce(log[k], since, f[k - 1]) /\ g[k] = MovedOnce(Append(log, r)[k], since, g[k - 1])
    BY <1>1, <1>2, <1>3, <2>1 DEF Moves
  <2> QED  BY <1>1, <2>1, <2>2
<1>6. \A k \in 0 .. n : k \in Good
  <2> HIDE DEF Good
  <2> QED  BY <1>1, <1>4, <1>5, NumbersAre
<1>7. f[n] = g[n] /\ n + 1 \in 1 .. n + 1 /\ n + 1 - 1 = n
  BY <1>1, <1>6
<1>8. g[n + 1] = MovedOnce(r, since, g[n])
  BY <1>1, <1>3, <1>7 DEF Moves
<1> QED  BY <1>2, <1>3, <1>7, <1>8

LEMMA MovedTail ==
  ASSUME NEW log \in Seq(Removal), log # <<>>, NEW index \in Int, NEW since \in Int,
         log[1].serial <= since
  PROVE  Moved(Tail(log), index, since) = Moved(log, index, since)
<1> DEFINE n == Len(log)
<1>1. /\ n \in Nat \ {0} /\ Tail(log) \in Seq(Removal) /\ Len(Tail(log)) = n - 1
      /\ \A k \in 1 .. n - 1 : Tail(log)[k] = log[k + 1]
  OBVIOUS
<1>2. PICK f \in [0 .. n -> Int] : Moves(f, log, index, since) /\ Moved(log, index, since) = f[n]
  BY MovedIs
<1>3. PICK g \in [0 .. n - 1 -> Int] :
        Moves(g, Tail(log), index, since) /\ Moved(Tail(log), index, since) = g[n - 1]
  BY <1>1, MovedIs
<1> DEFINE Good == {k \in Nat : f[k + 1] = g[k]}
<1>4. 0 \in Good
  <2>1. 1 \in 1 .. n /\ log[1] \in Removal
    BY <1>1
  <2>2. f[1] = MovedOnce(log[1], since, f[0])
    BY <1>2, <2>1 DEF Moves
  <2>3. f[1] = f[0]
    BY <2>1, <2>2 DEF MovedOnce, Removal
  <2> QED  BY <1>2, <1>3, <2>3 DEF Moves
<1>5. ASSUME NEW k \in 1 .. n - 1, k - 1 \in Good PROVE k \in Good
  <2>1. k + 1 \in 1 .. n /\ k + 1 - 1 = k /\ f[k] = g[k - 1]
    BY <1>1, <1>5
  <2>2. f[k + 1] = MovedOnce(log[k + 1], since, f[k]) /\ g[k] = MovedOnce(Tail(log)[k], since, g[k - 1])
    BY <1>1, <1>2, <1>3, <2>1 DEF Moves
  <2> QED  BY <1>1, <2>1, <2>2
<1>6. \A k \in 0 .. n - 1 : k \in Good
  <2>1. n - 1 \in Nat
    BY <1>1
  <2> HIDE DEF Good, n
  <2> QED  BY <1>4, <1>5, <2>1, NumbersAre
<1>7. n - 1 \in 0 .. n - 1 /\ n - 1 + 1 = n
  BY <1>1
<1>8. f[n] = g[n - 1]
  BY <1>6, <1>7
<1> QED  BY <1>2, <1>3, <1>8

\* Nothing moves for removals that an index has seen, and nothing moves up.
LEMMA MovedNone ==
  ASSUME NEW log \in Seq(Removal), NEW index \in Int, NEW since \in Int,
         \A k \in 1 .. Len(log) : log[k].serial <= since
  PROVE  Moved(log, index, since) = index
<1> DEFINE n == Len(log)
<1>1. n \in Nat
  OBVIOUS
<1>2. PICK f \in [0 .. n -> Int] : Moves(f, log, index, since) /\ Moved(log, index, since) = f[n]
  BY MovedIs
<1> DEFINE Good == {k \in Nat : f[k] = index}
<1>3. 0 \in Good
  BY <1>2 DEF Moves
<1>4. ASSUME NEW k \in 1 .. n, k - 1 \in Good PROVE k \in Good
  <2>1. log[k].serial <= since /\ log[k] \in Removal /\ f[k - 1] = index
    BY <1>4
  <2>2. f[k] = MovedOnce(log[k], since, index)
    BY <1>2, <2>1 DEF Moves
  <2> QED  BY <2>1, <2>2 DEF MovedOnce, Removal
<1>5. \A k \in 0 .. n : k \in Good
  <2> HIDE DEF Good
  <2> QED  BY <1>1, <1>3, <1>4, NumbersAre
<1> QED  BY <1>1, <1>2, <1>5

LEMMA MovedDown ==
  ASSUME NEW log \in Seq(Removal), NEW index \in Int, NEW since \in Int
  PROVE  Moved(log, index, since) \in Int /\ Moved(log, index, since) <= index
<1> DEFINE n == Len(log)
<1>1. n \in Nat
  OBVIOUS
<1>2. PICK f \in [0 .. n -> Int] : Moves(f, log, index, since) /\ Moved(log, index, since) = f[n]
  BY MovedIs
<1> DEFINE Good == {k \in 0 .. n : f[k] <= index}
<1>3. 0 \in Good
  BY <1>1, <1>2 DEF Moves
<1>4. ASSUME NEW k \in 1 .. n, k - 1 \in Good PROVE k \in Good
  <2>1. f[k] = MovedOnce(log[k], since, f[k - 1]) /\ f[k - 1] \in Int /\ f[k] \in Int /\ f[k - 1] <= index
    BY <1>1, <1>2, <1>4 DEF Moves
  <2> QED  BY <1>1, <2>1 DEF MovedOnce
<1>5. \A k \in 0 .. n : k \in Good
  <2> HIDE DEF Good
  <2> QED  BY <1>1, <1>3, <1>4, NumbersAre
<1> QED  BY <1>1, <1>2, <1>5

-----------------------------------------------------------------------------
(* Enumerations *)

\* The log holds the latest removals, the newest last.
LogFrom(log, last) ==
  /\ Len(log) <= last
  /\ \A k \in 1 .. Len(log) : log[k].serial = last - Len(log) + k
LogIs == LogFrom(removals, serial)
\* what a log makes of an index
After(log, last, n, since) == IF last - Len(log) > since THEN n ELSE Moved(log, n, since)

\* Where an enumeration stands in the registry now.
Place(f) == IF f.since = NoSerial THEN f.n ELSE IndexAfter(f.n, f.since)
\* the log still holds every removal since the enumeration last moved
Reaches(f) == f.since = NoSerial \/ serial - Len(removals) <= f.since

\* What it has visited lies no further on than where it stands ...
FrameOnce(f) ==
  /\ Distinct(f.seen) /\ \A i \in 1 .. Len(f.seen) : f.seen[i] \notin unborn
  /\ \A j \in 1 .. Len(registry) : registry[j] \in ToSet(f.seen) => j - 1 <= Place(f)
  /\ f.since = NoSerial \/ f.since \in 0 .. serial
\* ... and what it still should visit lies further on.
FrameAll(f) ==
  /\ f.since = NoSerial => f.matches = {}
  /\ f.matches \cap unborn = {}
  /\ \A o \in f.matches : program[Opener(f)].arg = "any" \/ o \in Creatures
  /\ \A j \in 1 .. Len(registry) :
       registry[j] \in f.matches \ (hidden \cup ToSet(f.seen)) => j - 1 > Place(f)

LEMMA LogEmpty ==
  ASSUME NEW n \in Int, NEW since \in Int
  PROVE  Moved(<<>>, n, since) = n
<1>1. <<>> \in Seq(Removal) /\ \A k \in 1 .. Len(<<>>) : <<>>[k].serial <= since
  OBVIOUS
<1> QED  BY <1>1, MovedNone

LEMMA AfterIs ==
  ASSUME NEW log \in Seq(Removal), NEW last \in Nat, LogFrom(log, last), NEW n \in Int, NEW since \in Int
  PROVE  /\ (IF log = <<>> \/ Head(log).serial > since + 1 THEN n ELSE Moved(log, n, since))
              = After(log, last, n, since)
         /\ After(log, last, n, since) \in Int /\ After(log, last, n, since) <= n
         /\ last <= since => After(log, last, n, since) = n
<1>1. CASE log = <<>>
  BY <1>1, LogEmpty DEF After
<1>2. CASE log # <<>>
  <2>1. Len(log) \in Nat \ {0} /\ Head(log) = log[1] /\ 1 \in 1 .. Len(log)
    BY <1>2
  <2>2. log[1].serial = last - Len(log) + 1
    BY <2>1 DEF LogFrom
  <2>3. log[1].serial > since + 1 <=> last - Len(log) > since
    BY <2>1, <2>2
  <2>4. (IF log = <<>> \/ Head(log).serial > since + 1 THEN n ELSE Moved(log, n, since))
          = After(log, last, n, since)
    BY <1>2, <2>1, <2>3 DEF After
  <2>5. Moved(log, n, since) \in Int /\ Moved(log, n, since) <= n
    BY MovedDown
  <2>6. last <= since => Moved(log, n, since) = n
    <3> SUFFICES ASSUME last <= since PROVE \A k \in 1 .. Len(log) : log[k].serial <= since
      BY MovedNone
    <3> TAKE k \in 1 .. Len(log)
    <3>1. log[k].serial = last - Len(log) + k
      BY DEF LogFrom
    <3> QED  BY <2>1, <3>1
  <2> QED  BY <2>4, <2>5, <2>6 DEF After
<1> QED  BY <1>1, <1>2

Follows(new, last, r, log) ==
  \A n, since \in Int : last + 1 - Len(new) <= since =>
    Moved(new, n, since) = MovedOnce(r, since, Moved(log, n, since))

LEMMA LogGrows ==
  ASSUME NEW log \in Seq(Removal), NEW last \in Nat, LogFrom(log, last),
         NEW r \in Removal, r.serial = last + 1,
         NEW new, new = Append(log, r) \/ new = Tail(Append(log, r))
  PROVE  /\ new \in Seq(Removal) /\ LogFrom(new, last + 1)
         /\ last - Len(log) <= last + 1 - Len(new)
         /\ Follows(new, last, r, log)
<1> DEFINE long == Append(log, r)
<1>1. /\ long \in Seq(Removal) /\ Len(long) = Len(log) + 1 /\ long # <<>> /\ Len(log) \in Nat
      /\ long[Len(log) + 1] = r /\ \A k \in 1 .. Len(log) : long[k] = log[k]
  OBVIOUS
<1>2. \A k \in 1 .. Len(long) : long[k].serial = last + 1 - Len(long) + k
  <2> TAKE k \in 1 .. Len(long)
  <2>1. CASE k = Len(log) + 1
    BY <1>1, <2>1
  <2>2. CASE k # Len(log) + 1
    <3>1. k \in 1 .. Len(log) /\ long[k] = log[k]
      BY <1>1, <2>2
    <3>2. long[k].serial = last - Len(log) + k
      BY <3>1 DEF LogFrom
    <3> QED  BY <1>1, <3>2
  <2> QED  BY <2>1, <2>2
<1>3. \A n, since \in Int : Moved(long, n, since) = MovedOnce(r, since, Moved(log, n, since))
  BY MovedAppend
<1> HIDE DEF long
<1>4. Len(log) <= last
  BY DEF LogFrom
<1>5. CASE new = long
  <2>1. LogFrom(new, last + 1)
    <3>1. Len(new) <= last + 1
      BY <1>1, <1>4, <1>5
    <3>2. \A k \in 1 .. Len(new) : new[k].serial = last + 1 - Len(new) + k
      BY <1>2, <1>5
    <3> QED  BY <3>1, <3>2 DEF LogFrom
  <2>2. Follows(new, last, r, log)
    BY <1>3, <1>5 DEF Follows
  <2> QED  BY <1>1, <1>5, <2>1, <2>2
<1>6. CASE new = Tail(long)
  <2>1. /\ new \in Seq(Removal) /\ Len(new) = Len(log)
        /\ \A k \in 1 .. Len(log) : new[k] = long[k + 1]
    BY <1>1, <1>6
  <2>2. ASSUME NEW k \in 1 .. Len(new) PROVE new[k].serial = last + 1 - Len(new) + k
    <3>1. k + 1 \in 1 .. Len(long) /\ new[k] = long[k + 1]
      BY <1>1, <2>1
    <3>2. long[k + 1].serial = last + 1 - Len(long) + (k + 1)
      BY <1>2, <3>1
    <3> QED  BY <1>1, <2>1, <3>1, <3>2
  <2>3. ASSUME NEW n \in Int, NEW since \in Int, last + 1 - Len(new) <= since
        PROVE  Moved(new, n, since) = MovedOnce(r, since, Moved(log, n, since))
    <3>1. long[1].serial = last + 1 - Len(long) + 1
      BY <1>1, <1>2
    <3>2. long[1].serial <= since
      BY <1>1, <2>1, <2>3, <3>1
    <3>3. Moved(new, n, since) = Moved(long, n, since)
      BY <1>1, <1>6, <3>2, MovedTail
    <3> QED  BY <1>3, <3>3
  <2>4. LogFrom(new, last + 1)
    BY <1>1, <1>4, <2>1, <2>2 DEF LogFrom
  <2>5. last - Len(log) <= last + 1 - Len(new)
    BY <1>1, <2>1
  <2>6. Follows(new, last, r, log)
    BY <2>3 DEF Follows
  <2> QED  BY <2>1, <2>4, <2>5, <2>6
<1> QED  BY <1>5, <1>6 DEF long

LEMMA IndexAfterIs ==
  ASSUME removals \in Seq(Removal), serial \in Nat, LogIs, NEW n \in Int, NEW since \in Int
  PROVE  IndexAfter(n, since) = After(removals, serial, n, since)
BY AfterIs DEF IndexAfter, LogIs

\* How an erasure moves where an enumeration stands.
LEMMA EraseMoves ==
  ASSUME WorldTyped, LogIs, NEW o \in ToSet(registry), Erase(o), NEW at \in Nat, ErasedAt(at, o),
         NEW n \in Int, NEW since \in Int
  PROVE  /\ LogIs' /\ serial' = serial + 1
         /\ serial - Len(removals) <= serial' - Len(removals')
         /\ serial' - Len(removals') <= since =>
              IndexAfter(n, since)' =
                IF since <= serial /\ at - 1 <= IndexAfter(n, since) THEN IndexAfter(n, since) - 1
                ELSE IndexAfter(n, since)
         /\ serial' - Len(removals') > since => IndexAfter(n, since)' = n
<1>1. PICK r : r = [serial |-> serial + 1, index |-> IndexOf(o)]
  OBVIOUS
<1>2. PICK new, last : new = removals' /\ last = serial
  OBVIOUS
<1>3. /\ removals \in Seq(Removal) /\ last \in Nat
  BY <1>2 DEF WorldTyped
<1>4. r \in Removal /\ r.serial = last + 1 /\ r.index = at - 1
  <2>1. IndexOf(o) = at - 1
    <3>1. at = IndexOf(o) + 1 /\ at \in 1 .. Len(registry)
      BY DEF ErasedAt
    <3>2. \E i \in DOMAIN registry : registry[i] = o
      BY DEF ToSet
    <3>3. IndexOf(o) \in Int
      <4> DEFINE c == CHOOSE i \in DOMAIN registry : registry[i] = o
      <4>1. c \in DOMAIN registry
        BY <3>2
      <4>2. IndexOf(o) = c - 1 /\ registry \in Seq(Objects)
        BY DEF IndexOf, WorldTyped
      <4> HIDE DEF c
      <4> QED  BY <4>1, <4>2
    <3> QED  BY <3>1, <3>3
  <2>2. r = [serial |-> last + 1, index |-> at - 1]
    BY <1>1, <1>2, <2>1
  <2> QED  BY <1>3, <2>2 DEF Removal
<1>5. new = Append(removals, r) \/ new = Tail(Append(removals, r))
  BY <1>1, <1>2 DEF Erase
<1>6. serial' = last + 1
  BY <1>2 DEF Erase
<1>7. LogFrom(removals, last)
  BY <1>2 DEF LogIs
<1>8. /\ new \in Seq(Removal) /\ LogFrom(new, last + 1)
      /\ last - Len(removals) <= last + 1 - Len(new)
      /\ Follows(new, last, r, removals)
  <2>1. PICK log : log = removals
    OBVIOUS
  <2>2. log \in Seq(Removal) /\ LogFrom(log, last) /\ (new = Append(log, r) \/ new = Tail(Append(log, r)))
    BY <1>3, <1>5, <1>7, <2>1
  <2>3. /\ new \in Seq(Removal) /\ LogFrom(new, last + 1)
        /\ last - Len(log) <= last + 1 - Len(new)
        /\ Follows(new, last, r, log)
    BY <1>3, <1>4, <2>2, LogGrows
  <2> QED  BY <2>1, <2>3
<1>9. LogIs'
  BY <1>2, <1>6, <1>8 DEF LogIs
<1>10. IndexAfter(n, since)' = After(new, last + 1, n, since)
  <2>1. IndexAfter(n, since)' = IF new = <<>> \/ Head(new).serial > since + 1 THEN n ELSE Moved(new, n, since)
    BY <1>2 DEF IndexAfter
  <2>2. last + 1 \in Nat
    BY <1>3
  <2> QED  BY <1>8, <2>1, <2>2, AfterIs
<1>11. IndexAfter(n, since) = After(removals, last, n, since)
  BY <1>2, <1>3, IndexAfterIs
<1>12. Len(new) \in Nat /\ Len(removals) \in Nat
  BY <1>3, <1>8
<1>13. ASSUME last + 1 - Len(new) <= since
       PROVE  IndexAfter(n, since)' = MovedOnce(r, since, IndexAfter(n, since))
  <2>1. last - Len(removals) <= since
    BY <1>3, <1>8, <1>12, <1>13
  <2>2. IndexAfter(n, since) = Moved(removals, n, since)
    BY <1>3, <1>11, <1>12, <2>1 DEF After
  <2>3. IndexAfter(n, since)' = Moved(new, n, since)
    BY <1>3, <1>10, <1>12, <1>13 DEF After
  <2> QED  BY <1>8, <1>13, <2>2, <2>3 DEF Follows
<1>14. last + 1 - Len(new) > since => IndexAfter(n, since)' = n
  <2>1. last + 1 - Len(new) > since => After(new, last + 1, n, since) = n
    BY <1>3, <1>12 DEF After
  <2> QED  BY <1>10, <2>1
<1>15. r.serial > since <=> since <= last
  BY <1>3, <1>4
<1>16. last + 1 - Len(new) <= since =>
         IndexAfter(n, since)' =
           IF since <= last /\ at - 1 <= IndexAfter(n, since) THEN IndexAfter(n, since) - 1
           ELSE IndexAfter(n, since)
  BY <1>4, <1>13, <1>15 DEF MovedOnce
<1>17. LogIs' /\ serial' = serial + 1 /\ serial - Len(removals) <= serial' - Len(removals')
  BY <1>2, <1>3, <1>6, <1>8, <1>9, <1>12
<1>18. serial' - Len(removals') > since => IndexAfter(n, since)' = n
  BY <1>2, <1>3, <1>6, <1>12, <1>14
<1>19. serial' - Len(removals') <= since =>
         IndexAfter(n, since)' =
           IF since <= serial /\ at - 1 <= IndexAfter(n, since) THEN IndexAfter(n, since) - 1
           ELSE IndexAfter(n, since)
  BY <1>2, <1>3, <1>6, <1>12, <1>16
<1> QED  BY <1>17, <1>18, <1>19

LEMMA PlaceIs ==
  ASSUME WorldTyped, LogIs, NEW f \in StackFrame
  PROVE  Place(f) \in Int /\ Place(f) <= f.n /\ f.n \in Int /\ f.since \in Int
         /\ (f.since = serial => Place(f) = f.n)
<1>1. f.n \in Int /\ f.since \in Int
  BY DEF StackFrame
<1>2. PICK n \in Int, since \in Int : n = f.n /\ since = f.since
  BY <1>1
<1>3. IndexAfter(n, since) = After(removals, serial, n, since)
  BY IndexAfterIs DEF WorldTyped
<1>4. /\ After(removals, serial, n, since) \in Int /\ After(removals, serial, n, since) <= n
      /\ serial <= since => After(removals, serial, n, since) = n
  <2>1. PICK log \in Seq(Removal), last \in Nat : log = removals /\ last = serial /\ LogFrom(log, last)
    BY DEF WorldTyped, LogIs
  <2>2. /\ After(log, last, n, since) \in Int /\ After(log, last, n, since) <= n
        /\ last <= since => After(log, last, n, since) = n
    BY <2>1, AfterIs
  <2> QED  BY <2>1, <2>2
<1>5. Place(f) = IF since = NoSerial THEN n ELSE IndexAfter(n, since)
  BY <1>2 DEF Place
<1>6. serial \in Nat
  BY DEF WorldTyped
<1> QED  BY <1>1, <1>2, <1>3, <1>4, <1>5, <1>6

LEMMA PlaceRests ==
  ASSUME NEW f, UNCHANGED <<removals>>
  PROVE  Place(f)' = Place(f)
BY DEF Place, IndexAfter

LEMMA KeptByRest ==
  ASSUME NEW f, UNCHANGED world, program' = program
  PROVE  (FrameOnce(f) => FrameOnce(f)') /\ (FrameAll(f) => FrameAll(f)')
<1>1. Place(f)' = Place(f)
  BY PlaceRests DEF world
<1> QED  BY <1>1 DEF FrameOnce, FrameAll, world

LEMMA KeptByKill ==
  ASSUME NEW f, NEW o, Kill(o), program' = program
  PROVE  (FrameOnce(f) => FrameOnce(f)') /\ (FrameAll(f) => FrameAll(f)')
<1>1. Place(f)' = Place(f)
  BY PlaceRests DEF Kill
<1>2. UNCHANGED <<registry, unborn, serial>> /\ hidden \subseteq hidden'
  BY DEF Kill
<1> QED  BY <1>1, <1>2 DEF FrameOnce, FrameAll

LEMMA KeptByBirth ==
  ASSUME WorldTyped, NEW f \in StackFrame, NEW o, Birth(o), program' = program
  PROVE  (FrameOnce(f) => FrameOnce(f)') /\ (FrameAll(f) => FrameAll(f)')
<1>1. Place(f)' = Place(f)
  BY PlaceRests DEF Birth
<1>2. /\ o \in unborn /\ unborn' = unborn \ {o} /\ hidden' = hidden /\ serial' = serial
  BY DEF Birth
<1>3. /\ Len(registry') = Len(registry) + 1 /\ Len(registry) \in Nat
      /\ registry'[Len(registry) + 1] = o /\ \A j \in 1 .. Len(registry) : registry'[j] = registry[j]
  BY BirthIs DEF WorldTyped
<1>4. f.seen \in Seq(Objects)
  BY DEF StackFrame
<1>5. ASSUME FrameOnce(f) PROVE FrameOnce(f)'
  <2>1. \A i \in 1 .. Len(f.seen) : f.seen[i] \notin unborn'
    BY <1>2, <1>5 DEF FrameOnce
  <2>2. o \notin ToSet(f.seen)
    BY <1>2, <1>4, <1>5, DistinctIs DEF FrameOnce
  <2>3. ASSUME NEW j \in 1 .. Len(registry'), registry'[j] \in ToSet(f.seen)
        PROVE  j - 1 <= Place(f)
    <3>1. j \in 1 .. Len(registry) /\ registry[j] \in ToSet(f.seen)
      <4>1. j # Len(registry) + 1
        BY <1>3, <2>2, <2>3
      <4>2. j \in 1 .. Len(registry)
        BY <1>3, <4>1
      <4> QED  BY <1>3, <2>3, <4>2
    <3> QED  BY <1>5, <3>1 DEF FrameOnce
  <2> QED  BY <1>1, <1>2, <1>5, <2>1, <2>3 DEF FrameOnce
<1>6. ASSUME FrameAll(f) PROVE FrameAll(f)'
  <2>1. f.matches \cap unborn' = {} /\ o \notin f.matches
    BY <1>2, <1>6 DEF FrameAll
  <2>2. ASSUME NEW j \in 1 .. Len(registry'), registry'[j] \in f.matches \ (hidden' \cup ToSet(f.seen))
        PROVE  j - 1 > Place(f)
    <3>1. j \in 1 .. Len(registry) /\ registry[j] \in f.matches \ (hidden \cup ToSet(f.seen))
      <4>1. j # Len(registry) + 1
        BY <1>3, <2>1, <2>2
      <4>2. j \in 1 .. Len(registry)
        BY <1>3, <4>1
      <4> QED  BY <1>2, <1>3, <2>2, <4>2
    <3> QED  BY <1>6, <3>1 DEF FrameAll
  <2> QED  BY <1>1, <1>6, <2>1, <2>2 DEF FrameAll, Opener
<1> QED  BY <1>5, <1>6

LEMMA KeptByErase ==
  ASSUME WorldTyped, LogIs, NEW f \in StackFrame, NEW o \in ToSet(registry), Erase(o),
         unborn' = unborn, program' = program, FrameOnce(f)
  PROVE  FrameOnce(f)' /\ (FrameAll(f) /\ Reaches(f)' => FrameAll(f)')
<1>1. PICK at \in Nat : ErasedAt(at, o)
  BY EraseRegistry DEF WorldTyped
<1>2. PICK n \in Int, since \in Int : n = f.n /\ since = f.since
  BY PlaceIs
<1>3. PICK p \in Int : p = Place(f) /\ p <= n
  BY <1>2, PlaceIs
<1>4. PICK len \in Nat : len = Len(registry)
  BY DEF WorldTyped
<1>5. /\ at \in 1 .. len /\ Len(registry') = len - 1
      /\ \A j \in 1 .. len - 1 : registry'[j] = IF j < at THEN registry[j] ELSE registry[j + 1]
      /\ registry[at] = o
  BY <1>1, <1>4 DEF ErasedAt
<1>6. /\ serial' = serial + 1 /\ serial \in Nat /\ hidden' = hidden \ {o}
  BY DEF Erase, WorldTyped
<1>7. since = NoSerial \/ since \in 0 .. serial
  BY <1>2 DEF FrameOnce
<1>8. PICK later : later = Place(f)'
  OBVIOUS
<1>9. later = IF since = NoSerial THEN n ELSE IndexAfter(n, since)'
  BY <1>2, <1>8 DEF Place
<1>10. p = IF since = NoSerial THEN n ELSE IndexAfter(n, since)
  BY <1>2, <1>3 DEF Place
<1>11. /\ later = n \/ later = IF at - 1 <= p THEN p - 1 ELSE p
       /\ Reaches(f)' => (since = NoSerial /\ later = n) \/ later = IF at - 1 <= p THEN p - 1 ELSE p
  <2>1. CASE since = NoSerial
    BY <1>9, <2>1
  <2>2. CASE since # NoSerial
    <3>1. since <= serial /\ since # NoSerial
      BY <1>6, <1>7, <2>2
    <3>2. PICK first : first = serial' - Len(removals')
      OBVIOUS
    <3>3. first \in Int
      <4>1. removals' \in Seq(Removal)
        BY EraseLog DEF WorldTyped
      <4> QED  BY <1>6, <3>2, <4>1
    <3>4. /\ first <= since => IndexAfter(n, since)' = IF since <= serial /\ at - 1 <= IndexAfter(n, since)
                                                       THEN IndexAfter(n, since) - 1 ELSE IndexAfter(n, since)
          /\ first > since => IndexAfter(n, since)' = n
      BY <1>1, <3>2, EraseMoves
    <3>5. Reaches(f)' => first <= since
      BY <1>2, <3>1, <3>2 DEF Reaches
    <3> QED  BY <1>9, <1>10, <3>1, <3>3, <3>4, <3>5
  <2> QED  BY <2>1, <2>2
<1> DEFINE Old(j) == IF j < at THEN j ELSE j + 1
<1>12. \A j \in 1 .. len - 1 : /\ registry'[j] = registry[Old(j)] /\ Old(j) \in 1 .. len
                               /\ Old(j) # at /\ j <= Old(j)
  BY <1>5
<1>13. \A j \in 1 .. len - 1 : Old(j) - 1 <= p => j - 1 <= later
  BY <1>3, <1>11, <1>5
<1>14. ASSUME Reaches(f)', since # NoSerial
       PROVE  \A j \in 1 .. len - 1 : Old(j) - 1 > p => j - 1 > later
  BY <1>3, <1>11, <1>5, <1>14
<1> HIDE DEF Old
<1>15. FrameOnce(f)'
  <2>1. \A j \in 1 .. Len(registry') : registry'[j] \in ToSet(f.seen) => j - 1 <= later
    <3> SUFFICES ASSUME NEW j \in 1 .. len - 1, registry'[j] \in ToSet(f.seen) PROVE j - 1 <= later
      BY <1>5
    <3>1. registry[Old(j)] \in ToSet(f.seen) /\ Old(j) \in 1 .. Len(registry)
      BY <1>4, <1>12
    <3>2. Old(j) - 1 <= p
      BY <1>3, <3>1 DEF FrameOnce
    <3> QED  BY <1>13, <3>2
  <2>2. f.since = NoSerial \/ f.since \in 0 .. serial'
    BY <1>2, <1>6, <1>7
  <2> QED  BY <1>8, <2>1, <2>2 DEF FrameOnce
<1>16. ASSUME FrameAll(f), Reaches(f)' PROVE FrameAll(f)'
  <2>1. \A j \in 1 .. Len(registry') :
          registry'[j] \in f.matches \ (hidden' \cup ToSet(f.seen)) => j - 1 > later
    <3> SUFFICES ASSUME NEW j \in 1 .. len - 1,
                        registry'[j] \in f.matches \ (hidden' \cup ToSet(f.seen))
                 PROVE  j - 1 > later
      BY <1>5
    <3>1. registry'[j] = registry[Old(j)] /\ Old(j) \in 1 .. Len(registry) /\ Old(j) # at
      BY <1>4, <1>12
    <3>2. registry[Old(j)] # o
      <4>1. Distinct(registry)
        BY DistinctIs DEF WorldTyped
      <4> QED  BY <1>4, <1>5, <3>1, <4>1 DEF Distinct
    <3>3. registry[Old(j)] \in f.matches \ (hidden \cup ToSet(f.seen))
      BY <1>6, <3>1, <3>2
    <3>4. Old(j) - 1 > p
      BY <1>3, <1>16, <3>1, <3>3 DEF FrameAll
    <3>5. since # NoSerial
      BY <1>2, <1>16, <3>3 DEF FrameAll
    <3> QED  BY <1>14, <1>16, <3>4, <3>5
  <2> QED  BY <1>8, <1>16, <2>1 DEF FrameAll, Opener
<1> QED  BY <1>15, <1>16

\* The world's steps, whoever takes them.
WorldMoves == UNCHANGED world \/ \E o : Kill(o) \/ Delete(o) \/ Birth(o)

LEMMA FrameKept ==
  ASSUME WorldTyped, LogIs, WorldMoves, program' = program, NEW f \in StackFrame, FrameOnce(f)
  PROVE  FrameOnce(f)' /\ (FrameAll(f) /\ Reaches(f)' => FrameAll(f)')
BY KeptByRest, KeptByKill, KeptByBirth, KeptByErase DEF WorldMoves, Delete

LEMMA LogKept ==
  ASSUME WorldTyped, LogIs, WorldMoves
  PROVE  LogIs' /\ serial - Len(removals) <= serial' - Len(removals')
<1>1. CASE UNCHANGED <<removals, serial>>
  <2>1. Len(removals) \in Nat /\ serial \in Nat
    BY DEF WorldTyped
  <2> QED  BY <1>1, <2>1 DEF LogIs
<1>2. ASSUME NEW o, Delete(o) PROVE LogIs' /\ serial - Len(removals) <= serial' - Len(removals')
  <2>1. o \in ToSet(registry) /\ Erase(o)
    BY <1>2 DEF Delete
  <2>2. PICK at \in Nat : ErasedAt(at, o)
    BY <2>1, EraseRegistry DEF WorldTyped
  <2>3. 0 \in Int
    OBVIOUS
  <2> QED  BY <2>1, <2>2, <2>3, EraseMoves
<1> QED  BY <1>1, <1>2 DEF WorldMoves, world, Kill, Birth

FramesOnce == \A j \in 1 .. Len(frames) : frames[j].kind = "enum" => FrameOnce(frames[j])
FramesAll == \A j \in 1 .. Len(frames) : frames[j].kind = "enum" => FrameAll(frames[j])
\* No enumeration on the stack has let more removals pass than the log holds.
LogReaches == \A j \in 1 .. Len(frames) : frames[j].kind = "enum" => Reaches(frames[j])

\* Each frame of an enumeration was there before or is one of these.
StackFrom(New) ==
  /\ frames' \in Seq(StackFrame)
  /\ \A j \in 1 .. Len(frames') :
       \/ frames'[j].kind # "enum" \/ frames'[j] \in New
       \/ \E k \in 1 .. Len(frames) : frames'[j] = frames[k]

LEMMA FramesKept ==
  ASSUME CaosTyped, LogIs, FramesOnce, WorldMoves, program' = program,
         NEW New \in SUBSET StackFrame, \A f \in New : FrameOnce(f), StackFrom(New)
  PROVE  /\ FramesOnce'
         /\ FramesAll /\ (\A f \in New : FrameAll(f)) /\ LogReaches' => FramesAll'
<1>1. PICK q : q = frames'
  OBVIOUS
<1>2. q \in Seq(StackFrame) /\ frames \in Seq(StackFrame) /\ WorldTyped
  BY <1>1, TypedIs DEF StackFrom, CaosTyped, CaosTypeOK
<1>3. \A j \in 1 .. Len(q) :
        q[j].kind = "enum" => \/ q[j] \in New
                              \/ \E k \in 1 .. Len(frames) : q[j] = frames[k] /\ frames[k].kind = "enum"
  BY <1>1 DEF StackFrom
<1>4. ASSUME NEW j \in 1 .. Len(q), q[j].kind = "enum"
      PROVE  FrameOnce(q[j])' /\ (FrameAll(q[j]) /\ Reaches(q[j])' => FrameAll(q[j])')
  <2>1. FrameOnce(q[j]) /\ q[j] \in StackFrame
    BY <1>2, <1>3, <1>4 DEF FramesOnce
  <2> QED  BY <1>2, <2>1, FrameKept
<1>5. FramesOnce'
  <2>1. \A j \in 1 .. Len(q) : q[j].kind = "enum" => FrameOnce(q[j])'
    BY <1>4
  <2> QED  BY <1>1, <2>1 DEF FramesOnce, FrameOnce, Place, IndexAfter
<1>6. ASSUME FramesAll, \A f \in New : FrameAll(f), LogReaches' PROVE FramesAll'
  <2>1. \A j \in 1 .. Len(q) : q[j].kind = "enum" => Reaches(q[j])'
    BY <1>1, <1>6 DEF LogReaches, Reaches
  <2>2. \A j \in 1 .. Len(q) : q[j].kind = "enum" => FrameAll(q[j])'
    <3> SUFFICES ASSUME NEW j \in 1 .. Len(q), q[j].kind = "enum" PROVE FrameAll(q[j])'
      OBVIOUS
    <3>1. FrameAll(q[j])
      BY <1>3, <1>6 DEF FramesAll
    <3> QED  BY <1>4, <2>1, <3>1
  <2> QED  BY <1>1, <2>2 DEF FramesAll, FrameAll, Place, IndexAfter, Opener
<1> QED  BY <1>5, <1>6

-----------------------------------------------------------------------------
(* A visit *)

LEMMA SeenMore ==
  ASSUME NEW s \in Seq(Objects), NEW o \in Objects
  PROVE  /\ Append(s, o) \in Seq(Objects) /\ ToSet(Append(s, o)) = ToSet(s) \cup {o}
         /\ Distinct(s) /\ o \notin ToSet(s) => Distinct(Append(s, o))
<1> DEFINE t == Append(s, o)
<1>1. /\ t \in Seq(Objects) /\ Len(t) = Len(s) + 1 /\ t[Len(s) + 1] = o /\ Len(s) \in Nat
      /\ \A i \in 1 .. Len(s) : t[i] = s[i]
  OBVIOUS
<1> HIDE DEF t
<1>2. ToSet(t) = ToSet(s) \cup {o}
  <2> SUFFICES ASSUME NEW x PROVE x \in ToSet(t) <=> x \in ToSet(s) \/ x = o
    OBVIOUS
  <2>1. x \in ToSet(t) <=> \E i \in 1 .. Len(s) + 1 : t[i] = x
    BY <1>1, DistinctIs
  <2>2. x \in ToSet(s) <=> \E i \in 1 .. Len(s) : s[i] = x
    BY DistinctIs
  <2>3. (\E i \in 1 .. Len(s) + 1 : t[i] = x) <=> x = o \/ \E i \in 1 .. Len(s) : t[i] = x
    BY <1>1
  <2> QED  BY <1>1, <2>1, <2>2, <2>3
<1>3. ASSUME Distinct(s), o \notin ToSet(s) PROVE Distinct(t)
  <2> SUFFICES ASSUME NEW i \in 1 .. Len(s) + 1, NEW j \in 1 .. Len(s) + 1, t[i] = t[j] PROVE i = j
    BY <1>1 DEF Distinct
  <2>1. \A k \in 1 .. Len(s) : s[k] # o
    BY <1>3, DistinctIs
  <2>2. i \in 1 .. Len(s) \/ i = Len(s) + 1
    BY <1>1
  <2>3. j \in 1 .. Len(s) \/ j = Len(s) + 1
    BY <1>1
  <2> QED  BY <1>1, <1>3, <2>1, <2>2, <2>3 DEF Distinct
<1> QED  BY <1>1, <1>2, <1>3 DEF t

LEMMA VisitIs ==
  ASSUME CaosTyped, LogIs, NEW i \in 1 .. Len(registry), NEW seen \in Seq(Objects),
         NEW f \in StackFrame, f.n = i - 1, f.since = serial, f.seen = Append(seen, registry[i]),
         Distinct(seen), \A j \in 1 .. Len(seen) : seen[j] \notin unborn,
         \A j \in 1 .. Len(registry) : registry[j] \in ToSet(seen) => j < i
  PROVE  /\ FrameOnce(f)
         /\ /\ f.matches \cap unborn = {}
            /\ \A o \in f.matches : program[Opener(f)].arg = "any" \/ o \in Creatures
            /\ \A j \in 1 .. Len(registry) :
                 registry[j] \in f.matches \ (hidden \cup ToSet(seen)) => j >= i
            => FrameAll(f)
<1>1. /\ registry \in Seq(Objects) /\ Distinct(registry) /\ registry[i] \in Objects
      /\ registry[i] \notin unborn /\ serial \in Nat
  <2>1. registry \in Seq(Objects) /\ IsInjective(registry) /\ ToSet(registry) \subseteq Objects \ unborn
        /\ serial \in Nat
    BY DEF CaosTyped, CaosTypeOK
  <2>2. registry[i] \in ToSet(registry)
    BY <2>1, DistinctIs
  <2> QED  BY <2>1, <2>2, DistinctIs
<1>2. registry[i] \notin ToSet(seen)
  <2>1. i \in Int
    OBVIOUS
  <2> QED  BY <2>1
<1>3. /\ ToSet(f.seen) = ToSet(seen) \cup {registry[i]} /\ Distinct(f.seen) /\ f.seen \in Seq(Objects)
  BY <1>1, <1>2, SeenMore
<1>4. Place(f) = i - 1
  BY TypedIs, PlaceIs
<1>5. \A j \in 1 .. Len(f.seen) : f.seen[j] \notin unborn
  <2>1. \A x \in ToSet(f.seen) : x \notin unborn
    BY <1>1, <1>3, DistinctIs
  <2> QED  BY <1>3, <2>1, DistinctIs
<1>6. \A j \in 1 .. Len(registry) : registry[j] = registry[i] => j = i
  BY <1>1 DEF Distinct
<1>7. FrameOnce(f)
  <2>1. \A j \in 1 .. Len(registry) : registry[j] \in ToSet(f.seen) => j - 1 <= i - 1
    BY <1>3, <1>6
  <2> QED  BY <1>1, <1>3, <1>4, <1>5, <2>1 DEF FrameOnce
<1>8. ASSUME f.matches \cap unborn = {},
             \A o \in f.matches : program[Opener(f)].arg = "any" \/ o \in Creatures,
             \A j \in 1 .. Len(registry) :
               registry[j] \in f.matches \ (hidden \cup ToSet(seen)) => j >= i
      PROVE  FrameAll(f)
  <2>1. \A j \in 1 .. Len(registry) :
          registry[j] \in f.matches \ (hidden \cup ToSet(f.seen)) => j - 1 > i - 1
    <3> SUFFICES ASSUME NEW j \in 1 .. Len(registry), registry[j] \in f.matches \ (hidden \cup ToSet(f.seen))
                 PROVE  j - 1 > i - 1
      OBVIOUS
    <3>1. j >= i /\ j # i
      BY <1>3, <1>8
    <3> QED  BY <3>1
  <2>2. f.since # NoSerial
    BY <1>1 DEF NoSerial
  <2> QED  BY <1>4, <1>8, <2>1, <2>2 DEF FrameAll
<1> QED  BY <1>7, <1>8

\* What the enumerations of a state have done right.
EnumOnce == CaosTyped /\ LogIs /\ FramesOnce
EnumAll == EnumOnce /\ FramesAll /\ missed = {}
\* ... and what a step makes of it, as long as the log reaches back
EnumKept ==
  /\ LogIs' /\ FramesOnce'
  /\ FramesAll /\ missed = {} /\ LogReaches' => FramesAll' /\ missed' = {}

LEMMA FramesRest ==
  ASSUME EnumOnce, WorldMoves, program' = program, StackFrom({}), missed' = missed \/ missed' = {}
  PROVE  EnumKept
<1>1. LogIs'
  BY TypedIs, LogKept DEF EnumOnce
<1>2. {} \in SUBSET StackFrame
  OBVIOUS
<1>3. FramesOnce' /\ (FramesAll /\ LogReaches' => FramesAll')
  BY <1>2, FramesKept DEF EnumOnce
<1> QED  BY <1>1, <1>3 DEF EnumKept

LEMMA PlacesRise ==
  ASSUME NEW S \in SUBSET (1 .. Len(registry)), S # {}, CaosTyped
  PROVE  First(S) \in S /\ First(S) \in 1 .. Len(registry) /\ \A j \in S : j >= First(S)
<1>1. S \subseteq Nat /\ Len(registry) \in Nat
  BY DEF CaosTyped
<1>2. First(S) \in S /\ \A j \in S : First(S) <= j
  BY <1>1, FirstIs
<1> HIDE DEF First
<1>3. \A j \in S : j \in Int
  BY <1>1
<1> QED  BY <1>2, <1>3

LEMMA EnumKeeps == ASSUME EnumOnce, Enum PROVE EnumKept
<1> DEFINE S == {i \in DOMAIN registry : registry[i] \in Matching(Now.arg)}
           f == [kind |-> "enum", back |-> cursor + 1, n |-> First(S) - 1, since |-> serial,
                 matches |-> Matching(Now.arg), seen |-> Append(<<>>, registry[First(S)])]
<1>1. /\ At("enum") /\ UNCHANGED <<program, missed, world>>
      /\ \/ UNCHANGED frames
         \/ S # {} /\ frames' = Append(frames, f)
  BY DEF Enum, Visit
<1>2. CaosTyped /\ registry \in Seq(Objects) /\ frames \in Seq(StackFrame) /\ serial \in Nat
  BY DEF EnumOnce, CaosTyped, CaosTypeOK
<1>3. CASE UNCHANGED frames
  <2>1. StackFrom({})
    BY <1>2, <1>3 DEF StackFrom
  <2> QED  BY <1>1, <2>1, FramesRest DEF WorldMoves
<1>4. CASE S # {} /\ frames' = Append(frames, f)
  <2>1. S \in SUBSET (1 .. Len(registry))
    BY <1>2
  <2>2. PICK i : i = First(S)
    OBVIOUS
  <2>3. i \in S /\ i \in 1 .. Len(registry) /\ \A j \in S : j >= i
    <3> HIDE DEF S
    <3> QED  BY <1>2, <1>4, <2>1, <2>2, PlacesRise
  <2>4. \A j \in 1 .. Len(registry) : registry[j] \in Matching(Now.arg) => j \in S
    BY <1>2
  <2> HIDE DEF S
  <2>5. PICK g : g = f
    OBVIOUS
  <2>6. /\ g = [kind |-> "enum", back |-> cursor + 1, n |-> i - 1, since |-> serial,
                matches |-> Matching(Now.arg), seen |-> Append(<<>>, registry[i])]
    BY <2>2, <2>5
  <2>7. cursor \in DOMAIN program /\ cursor + 1 \in Nat /\ Now = program[cursor] /\ cursor \in Nat
    BY <1>1, <1>2, AtIs DEF CaosTyped, CaosTypeOK
  <2>8. registry[i] \in Objects /\ Matching(Now.arg) \subseteq Objects \ unborn
    BY <1>2, <2>3, MatchingIs
  <2>9. Append(<<>>, registry[i]) \in Seq(Objects)
    BY <2>8
  <2>10. g \in StackFrame /\ g.kind = "enum" /\ g.back = cursor + 1 /\ g.n = i - 1 /\ g.since = serial
         /\ g.matches = Matching(Now.arg) /\ g.seen = Append(<<>>, registry[i])
    BY <1>2, <2>3, <2>6, <2>7, <2>8, <2>9 DEF StackFrame
  <2>11. Opener(g) = cursor
    BY <2>7, <2>10 DEF Opener
  <2>12. FrameOnce(g) /\ FrameAll(g)
    <3>1. <<>> \in Seq(Objects) /\ Distinct(<<>>) /\ ToSet(<<>>) = {} /\ Len(<<>>) = 0
      BY DEF Distinct, ToSet
    <3>2. \A j \in 1 .. Len(<<>>) : <<>>[j] \notin unborn
      OBVIOUS
    <3>3. \A j \in 1 .. Len(registry) : registry[j] \in ToSet(<<>>) => j < i
      BY <3>1
    <3>4. g.matches \cap unborn = {}
      BY <2>8, <2>10
    <3>5. \A o \in g.matches : program[Opener(g)].arg = "any" \/ o \in Creatures
      BY <2>7, <2>10, <2>11 DEF Matching
    <3>6. \A j \in 1 .. Len(registry) :
            registry[j] \in g.matches \ (hidden \cup ToSet(<<>>)) => j >= i
      BY <2>3, <2>4, <2>10
    <3>7. LogIs
      BY DEF EnumOnce
    <3> QED  BY <1>2, <2>3, <2>10, <3>1, <3>2, <3>3, <3>4, <3>5, <3>6, <3>7, VisitIs
  <2>13. StackFrom({g})
    <3>1. /\ Append(frames, g) \in Seq(StackFrame) /\ Len(Append(frames, g)) = Len(frames) + 1
          /\ Append(frames, g)[Len(frames) + 1] = g
          /\ \A j \in 1 .. Len(frames) : Append(frames, g)[j] = frames[j]
      BY <1>2, <2>10, PushIs
    <3>2. \A j \in 1 .. Len(frames) + 1 : j \in 1 .. Len(frames) \/ j = Len(frames) + 1
      BY <1>2
    <3>3. frames' = Append(frames, g)
      BY <1>4, <2>5
    <3> QED  BY <3>1, <3>2, <3>3 DEF StackFrom
  <2>14. {g} \in SUBSET StackFrame /\ \A x \in {g} : FrameOnce(x) /\ FrameAll(x)
    BY <2>10, <2>12
  <2>15. WorldMoves /\ program' = program /\ missed' = missed
    BY <1>1 DEF WorldMoves
  <2>16. LogIs'
    BY <2>15, TypedIs, LogKept DEF EnumOnce
  <2>17. FramesOnce' /\ (FramesAll /\ LogReaches' => FramesAll')
    BY <2>13, <2>14, <2>15, FramesKept DEF EnumOnce
  <2> QED  BY <2>15, <2>16, <2>17 DEF EnumKept
<1> QED  BY <1>1, <1>3, <1>4

LEMMA NextKeeps == ASSUME EnumOnce, NextObject PROVE EnumKept
<1> DEFINE class == program[Newest.back - 1].arg
           after == IF Newest.since = NoSerial THEN Newest.n ELSE IndexAfter(Newest.n, Newest.since)
           S == {i \in DOMAIN registry : i - 1 > after /\ registry[i] \in Matching(class)}
           f == [kind |-> "enum", back |-> Newest.back, n |-> First(S) - 1, since |-> serial,
                 matches |-> Newest.matches, seen |-> Append(Newest.seen, registry[First(S)])]
<1>1. /\ Has("enum") /\ UNCHANGED <<program, world>>
      /\ \/ /\ S = {} /\ frames' = Front(frames)
            /\ missed' = (Newest.matches \cap Matching(class)) \ ToSet(Newest.seen)
         \/ S # {} /\ frames' = Append(Front(frames), f) /\ missed' = missed
  BY DEF NextObject, Visit
<1>2. CaosTyped /\ registry \in Seq(Objects) /\ frames \in Seq(StackFrame) /\ serial \in Nat /\ LogIs
      /\ WorldTyped
  BY TypedIs DEF EnumOnce, CaosTyped, CaosTypeOK
<1>3. PICK g : g = Newest
  OBVIOUS
<1>4. /\ frames # <<>> /\ g.kind = "enum" /\ g \in StackFrame /\ g = frames[Len(frames)]
      /\ Len(frames) \in Nat \ {0}
  BY <1>1, <1>2, <1>3, HasIs
<1>5. FrameOnce(g) /\ (FramesAll => FrameAll(g))
  BY <1>4 DEF EnumOnce, FramesOnce, FramesAll
<1>6. after = Place(g) /\ class = program[Opener(g)].arg
  BY <1>3 DEF Place, Opener
<1>7. Place(g) \in Int
  BY <1>2, <1>4, PlaceIs
<1>8. S \in SUBSET (1 .. Len(registry))
  BY <1>2
<1>9. \A j \in 1 .. Len(registry) : registry[j] \in Matching(class) /\ j - 1 > Place(g) <=> j \in S
  BY <1>2, <1>6
<1>10. PICK q \in Seq(StackFrame) : q = Front(frames) /\ Len(q) = Len(frames) - 1
            /\ \A j \in 1 .. Len(frames) - 1 : q[j] = frames[j]
  BY <1>2, <1>4, PopIs
<1>11. WorldMoves /\ program' = program
  BY <1>1 DEF WorldMoves
<1>12. LogIs'
  BY <1>2, <1>11, LogKept
\* what should still be visited lies in S
<1>13. ASSUME FrameAll(g)
       PROVE  \A j \in 1 .. Len(registry) :
                registry[j] \in g.matches \ (hidden \cup ToSet(g.seen)) => j \in S
  <2> SUFFICES ASSUME NEW j \in 1 .. Len(registry), registry[j] \in g.matches \ (hidden \cup ToSet(g.seen))
               PROVE  j \in S
    OBVIOUS
  <2>1. j - 1 > Place(g) /\ (class = "any" \/ registry[j] \in Creatures)
    BY <1>6, <1>13 DEF FrameAll
  <2>2. registry[j] \in ToSet(registry) \ hidden
    BY <1>2, DistinctIs
  <2>3. registry[j] \in Matching(class)
    BY <2>1, <2>2 DEF Matching
  <2> QED  BY <1>9, <2>1, <2>3
<1> HIDE DEF S, after, class
<1>14. CASE S = {}
  <2>1. frames' = q /\ missed' = (g.matches \cap Matching(class)) \ ToSet(g.seen)
    BY <1>1, <1>3, <1>10, <1>14
  <2>2. StackFrom({})
    <3>1. \A j \in 1 .. Len(q) : j \in 1 .. Len(frames) /\ q[j] = frames[j]
      BY <1>4, <1>10
    <3> QED  BY <2>1, <3>1 DEF StackFrom
  <2>3. {} \in SUBSET StackFrame
    OBVIOUS
  <2>4. FramesOnce' /\ (FramesAll /\ LogReaches' => FramesAll')
    BY <1>11, <2>2, <2>3, FramesKept DEF EnumOnce
  <2>5. ASSUME FramesAll PROVE missed' = {}
    <3> SUFFICES ASSUME NEW o \in (g.matches \cap Matching(class)) \ ToSet(g.seen) PROVE FALSE
      BY <2>1
    <3>1. o \in ToSet(registry) \ hidden
      BY DEF Matching
    <3>2. PICK j \in 1 .. Len(registry) : registry[j] = o
      BY <1>2, <3>1, DistinctIs
    <3> QED  BY <1>5, <1>13, <1>14, <2>5, <3>1, <3>2
  <2> QED  BY <1>12, <2>4, <2>5 DEF EnumKept
<1>15. CASE S # {}
  <2>1. PICK i : i = First(S)
    OBVIOUS
  <2>2. i \in S /\ i \in 1 .. Len(registry) /\ \A j \in S : j >= i
    BY <1>2, <1>8, <1>15, <2>1, PlacesRise
  <2>3. PICK h : h = f
    OBVIOUS
  <2>4. h = [kind |-> "enum", back |-> g.back, n |-> i - 1, since |-> serial,
             matches |-> g.matches, seen |-> Append(g.seen, registry[i])]
    BY <1>3, <2>1, <2>3
  <2>5. registry[i] \in Objects /\ g.seen \in Seq(Objects) /\ g.back \in Nat /\ g.matches \in SUBSET Objects
    BY <1>2, <1>4, <2>2 DEF StackFrame
  <2>6. Append(g.seen, registry[i]) \in Seq(Objects)
    BY <2>5
  <2>7. /\ h \in StackFrame /\ h.kind = "enum" /\ h.back = g.back /\ h.n = i - 1 /\ h.since = serial
        /\ h.matches = g.matches /\ h.seen = Append(g.seen, registry[i])
    BY <1>2, <2>2, <2>4, <2>5, <2>6 DEF StackFrame
  <2>8. \A j \in 1 .. Len(registry) : registry[j] \in ToSet(g.seen) => j < i
    <3> SUFFICES ASSUME NEW j \in 1 .. Len(registry), registry[j] \in ToSet(g.seen) PROVE j < i
      OBVIOUS
    <3>1. j - 1 <= Place(g)
      BY <1>5 DEF FrameOnce
    <3>2. i - 1 > Place(g)
      BY <1>9, <2>2
    <3> QED  BY <1>7, <2>2, <3>1, <3>2
  <2>9. FrameOnce(h)
    <3>1. Distinct(g.seen) /\ \A j \in 1 .. Len(g.seen) : g.seen[j] \notin unborn
      BY <1>5 DEF FrameOnce
    <3> QED  BY <1>2, <2>2, <2>5, <2>7, <2>8, <3>1, VisitIs
  <2>10. ASSUME FrameAll(g) PROVE FrameAll(h)
    <3>1. Distinct(g.seen) /\ \A j \in 1 .. Len(g.seen) : g.seen[j] \notin unborn
      BY <1>5 DEF FrameOnce
    <3>2. Opener(h) = Opener(g)
      BY <2>7 DEF Opener
    <3>3. h.matches \cap unborn = {} /\ \A o \in h.matches : program[Opener(h)].arg = "any" \/ o \in Creatures
      BY <2>7, <2>10, <3>2 DEF FrameAll
    <3>4. \A j \in 1 .. Len(registry) : registry[j] \in h.matches \ (hidden \cup ToSet(g.seen)) => j >= i
      BY <1>13, <2>2, <2>7, <2>10
    <3> QED  BY <1>2, <2>2, <2>5, <2>7, <2>8, <3>1, <3>3, <3>4, VisitIs
  <2>11. StackFrom({h})
    <3>1. /\ Append(q, h) \in Seq(StackFrame) /\ Len(Append(q, h)) = Len(q) + 1
          /\ Append(q, h)[Len(q) + 1] = h /\ \A j \in 1 .. Len(q) : Append(q, h)[j] = q[j]
      BY <2>7, PushIs
    <3>2. \A j \in 1 .. Len(q) + 1 : j = Len(q) + 1 \/ (j \in 1 .. Len(q) /\ j \in 1 .. Len(frames) - 1
                                                        /\ j \in 1 .. Len(frames))
      BY <1>4, <1>10
    <3>3. frames' = Append(q, h)
      BY <1>1, <1>10, <1>15, <2>3
    <3> QED  BY <1>10, <3>1, <3>2, <3>3 DEF StackFrom
  <2>12. {h} \in SUBSET StackFrame /\ (\A x \in {h} : FrameOnce(x)) /\ missed' = missed
    BY <1>1, <1>15, <2>7, <2>9
  <2>13. FramesOnce' /\ (FramesAll /\ (\A x \in {h} : FrameAll(x)) /\ LogReaches' => FramesAll')
    BY <1>11, <2>11, <2>12, FramesKept DEF EnumOnce
  <2>14. FramesAll => FrameAll(h)
    BY <1>5, <2>10
  <2> QED  BY <1>12, <2>12, <2>13, <2>14 DEF EnumKept
<1> QED  BY <1>1, <1>14, <1>15

LEMMA OthersKeep ==
  ASSUME EnumOnce, Command, ~Enum, ~NextObject
  PROVE  EnumKept
<1>1. CaosTyped /\ frames \in Seq(StackFrame)
  BY DEF EnumOnce, CaosTyped, CaosTypeOK
<1>2. WorldMoves /\ program' = program /\ missed' = missed
  <2>1. program' = program /\ missed' = missed
    BY DEF Command, Begin, Enter, Terminate, Crossed
  <2>2. CASE KillTarget
    <3>1. Delete(target) \/ Kill(target) \/ UNCHANGED world
      BY <2>2 DEF KillTarget, world
    <3> QED  BY <2>1, <3>1 DEF WorldMoves
  <2>3. CASE ~KillTarget
    <3>1. UNCHANGED world
      BY <2>3 DEF Command, Crossed
    <3> QED  BY <2>1, <3>1 DEF WorldMoves
  <2> QED  BY <2>1, <2>2, <2>3
<1>3. StackFrom({})
  <2>1. CASE UNCHANGED frames
    BY <1>1, <2>1 DEF StackFrom
  <2>2. CASE frames # <<>> /\ frames' = Front(frames)
    <3>1. /\ Len(frames) \in Nat \ {0} /\ Front(frames) \in Seq(StackFrame)
          /\ Len(Front(frames)) = Len(frames) - 1
          /\ \A j \in 1 .. Len(frames) - 1 : Front(frames)[j] = frames[j]
      BY <1>1, <2>2, PopIs
    <3>2. \A j \in 1 .. Len(frames) - 1 : j \in 1 .. Len(frames)
      BY <3>1
    <3> QED  BY <2>2, <3>1, <3>2 DEF StackFrom
  <2>3. ASSUME NEW k \in {"loop", "reps", "gsub"}, At(k), NEW n \in Int,
               Enter(Push(k, n, NoSerial, {}, <<>>))
        PROVE  StackFrom({})
    <3> DEFINE f == Push(k, n, NoSerial, {}, <<>>)
    <3>1. frames' = Append(frames, f) \/ UNCHANGED frames
      BY <2>3 DEF Enter
    <3>2. cursor + 1 \in Nat
      BY <1>1, <2>3, AtIs DEF CaosTyped, CaosTypeOK
    <3>3. f \in StackFrame /\ f.kind = k
      BY <3>2 DEF Push, StackFrame, NoSerial
    <3> HIDE DEF f
    <3>4. /\ Append(frames, f) \in Seq(StackFrame) /\ Len(Append(frames, f)) = Len(frames) + 1
          /\ Append(frames, f)[Len(frames) + 1] = f
          /\ \A j \in 1 .. Len(frames) : Append(frames, f)[j] = frames[j]
      BY <1>1, <3>3, PushIs
    <3>5. \A j \in 1 .. Len(frames) + 1 : j \in 1 .. Len(frames) \/ j = Len(frames) + 1
      BY <1>1
    <3> QED  BY <2>1, <3>1, <3>3, <3>4, <3>5 DEF StackFrom
  <2>4. CASE Begin
    <3>1. At("reps") => Now.arg \in Int
      <4> SUFFICES ASSUME At("reps") PROVE Now.arg \in Int
        OBVIOUS
      <4>1. program \in Programs /\ cursor \in DOMAIN program /\ program[cursor].op = "reps"
        BY <1>1, AtIs DEF At, CaosTyped, CaosTypeOK
      <4> QED  BY <4>1, CaosScriptAssumption DEF Now
    <3> QED  BY <2>1, <2>3, <2>4, <3>1 DEF Begin, Terminate
  <2>5. CASE Close
    <3>1. frames # <<>>
      BY <2>5 DEF Close, Has
    <3>2. CASE frames' = [frames EXCEPT ![Len(frames)].n = @ - 1] /\ At("repe") /\ Has("reps")
      <4>1. Keeping([Newest EXCEPT !.n = @ - 1])
        BY <1>1, <3>1, <3>2, CountDown
      <4>2. PICK g : g = [Newest EXCEPT !.n = @ - 1]
        OBVIOUS
      <4>3. Keeping(g) /\ Newest.kind = "reps"
        BY <3>2, <4>1, <4>2 DEF Has
      <4>4. Len(frames) \in Nat \ {0}
        BY <1>1, <3>1
      <4>5. \A j \in 1 .. Len(frames) : j = Len(frames) \/ j \in 1 .. Len(frames) - 1
        BY <4>4
      <4> QED  BY <4>3, <4>4, <4>5 DEF Keeping, StackFrom
    <3> QED  BY <2>1, <2>2, <2>5, <3>1, <3>2 DEF Close
  <2> QED  BY <2>1, <2>4, <2>5 DEF Command, Terminate, Crossed
<1> QED  BY <1>2, <1>3, FramesRest

-----------------------------------------------------------------------------
(* A load *)

\* What stays of a sequence moves towards its head.
LEMMA WithoutMovesDown ==
  ASSUME NEW S, NEW gone, NEW s \in Seq(S)
  PROVE  \A j \in 1 .. Len(Without(s, gone)) :
           j <= Len(s) /\ \E i \in 1 .. Len(s) : j <= i /\ s[i] = Without(s, gone)[j]
<1> DEFINE From(t, u) == \A j \in 1 .. Len(u) :
                           j <= Len(t) /\ \E i \in 1 .. Len(t) : j <= i /\ t[i] = u[j]
           Good == {t \in Seq(S) : From(t, Without(t, gone))}
<1>1. <<>> \in Good
  <2>1. Without(<<>>, gone) = <<>> /\ <<>> \in Seq(S)
    BY WithoutEmpty
  <2> QED  BY <2>1
<1>2. ASSUME NEW t \in Seq(S), NEW x \in S, t \in Good
      PROVE  Append(t, x) \in Good
  <2>1. PICK u : u = Without(t, gone)
    OBVIOUS
  <2>2. u \in Seq(S) /\ From(t, u)
    <3>1. Without(t, gone) \in Seq(S)
      BY WithoutIsSeq, Zenon
    <3> QED  BY <1>2, <2>1, <3>1
  <2>3. /\ Len(t) \in Nat /\ Len(Append(t, x)) = Len(t) + 1 /\ Append(t, x)[Len(t) + 1] = x
        /\ \A i \in 1 .. Len(t) : Append(t, x)[i] = t[i]
        /\ Append(t, x) \in Seq(S)
    OBVIOUS
  <2>4. /\ Len(u) \in Nat /\ Len(Append(u, x)) = Len(u) + 1 /\ Append(u, x)[Len(u) + 1] = x
        /\ \A i \in 1 .. Len(u) : Append(u, x)[i] = u[i]
    BY <2>2
  <2>5. From(Append(t, x), u)
    <3> SUFFICES ASSUME NEW j \in 1 .. Len(u)
                 PROVE  /\ j <= Len(t) + 1
                        /\ \E i \in 1 .. Len(t) + 1 : j <= i /\ Append(t, x)[i] = u[j]
      BY <2>3
    <3>1. PICK i \in 1 .. Len(t) : j <= i /\ t[i] = u[j] /\ j <= Len(t)
      BY <2>2
    <3>2. i \in 1 .. Len(t) + 1 /\ j <= Len(t) + 1 /\ Append(t, x)[i] = u[j]
      BY <2>3, <2>4, <3>1
    <3> QED  BY <3>1, <3>2
  <2>6. Len(u) <= Len(t)
    <3>1. CASE Len(u) = 0
      BY <2>3, <3>1
    <3>2. CASE Len(u) # 0
      <4>1. Len(u) \in 1 .. Len(u)
        BY <2>4, <3>2
      <4> QED  BY <2>2, <4>1
    <3> QED  BY <3>1, <3>2
  <2>7. From(Append(t, x), Append(u, x))
    <3> SUFFICES ASSUME NEW j \in 1 .. Len(u) + 1
                 PROVE  /\ j <= Len(t) + 1
                        /\ \E i \in 1 .. Len(t) + 1 : j <= i /\ Append(t, x)[i] = Append(u, x)[j]
      BY <2>3, <2>4
    <3>1. CASE j = Len(u) + 1
      <4>1. Len(t) + 1 \in 1 .. Len(t) + 1 /\ j <= Len(t) + 1
        BY <2>3, <2>4, <2>6, <3>1
      <4> QED  BY <2>3, <2>4, <3>1, <4>1
    <3>2. CASE j # Len(u) + 1
      <4>1. j \in 1 .. Len(u) /\ Append(u, x)[j] = u[j]
        BY <2>4, <3>2
      <4> QED  BY <2>3, <2>5, <4>1
    <3> QED  BY <3>1, <3>2
  <2> HIDE DEF From
  <2>8. Without(Append(t, x), gone) = IF x \in gone THEN u ELSE Append(u, x)
    BY <2>1, WithoutAppend, Zenon
  <2> QED  BY <2>3, <2>5, <2>7, <2>8
<1>3. Seq(S) \subseteq Good
  <2> HIDE DEF Good
  <2> QED  BY <1>1, <1>2, SequencesAre
<1> QED  BY <1>3

LEMMA ReloadKeeps == ASSUME EnumOnce, Reload PROVE EnumKept
<1>1. CaosTyped /\ frames \in Seq(StackFrame) /\ WorldTyped /\ LogIs /\ registry \in Seq(Objects)
  BY TypedIs DEF EnumOnce, CaosTyped, CaosTypeOK
<1>2. /\ registry' = Without(registry, hidden) /\ hidden' = {} /\ removals' = <<>> /\ serial' = 0
      /\ UNCHANGED <<program, unborn, missed>>
  BY DEF Reload
<1>3. LogIs'
  BY <1>2 DEF LogIs, LogFrom
<1>4. PICK q : q = frames'
  OBVIOUS
<1>5. Unserialled(frames, q)
  BY <1>1, <1>4, ReloadStack
<1>6. \A j \in 1 .. Len(registry') : \E i \in 1 .. Len(registry) : j <= i /\ registry[i] = registry'[j]
  BY <1>1, <1>2, WithoutMovesDown
<1>7. Len(registry') \in Nat /\ Len(registry) \in Nat
  <2>1. WorldTyped'
    BY <1>1, ReloadTyped
  <2>2. registry' \in Seq(Objects)
    BY <2>1 DEF WorldTyped
  <2> QED  BY <1>1, <2>2
<1>8. ASSUME NEW j \in 1 .. Len(q), q[j].kind = "enum"
      PROVE  FrameOnce(q[j])' /\ FrameAll(q[j])'
  <2>1. PICK f, g \in StackFrame : f = q[j] /\ g = frames[j]
    BY <1>1, <1>5 DEF Unserialled
  <2>2. /\ g.kind = "enum" /\ f.n = g.n /\ f.since = NoSerial /\ f.matches = {} /\ f.seen = g.seen
        /\ j \in 1 .. Len(frames)
    BY <1>5, <1>8, <2>1 DEF Unserialled
  <2>3. FrameOnce(g)
    BY <2>1, <2>2 DEF EnumOnce, FramesOnce
  <2>4. Place(f)' = f.n
    BY <2>2 DEF Place
  <2>5. Place(g) \in Int /\ Place(g) <= f.n /\ f.n \in Int
    <3>1. Place(g) \in Int /\ Place(g) <= g.n /\ g.n \in Int
      BY <1>1, PlaceIs
    <3> QED  BY <2>2, <3>1
  <2>6. \A k \in 1 .. Len(registry') : registry'[k] \in ToSet(f.seen) => k - 1 <= f.n
    <3> SUFFICES ASSUME NEW k \in 1 .. Len(registry'), registry'[k] \in ToSet(f.seen) PROVE k - 1 <= f.n
      OBVIOUS
    <3>1. PICK i \in 1 .. Len(registry) : k <= i /\ registry[i] = registry'[k]
      BY <1>6
    <3>2. i - 1 <= Place(g)
      BY <2>2, <2>3, <3>1 DEF FrameOnce
    <3> QED  BY <1>7, <2>5, <3>1, <3>2
  <2>7. FrameOnce(f)'
    BY <1>2, <2>2, <2>3, <2>4, <2>6 DEF FrameOnce
  <2>8. FrameAll(f)'
    BY <2>2 DEF FrameAll
  <2> QED  BY <2>1, <2>7, <2>8
<1>9. FramesOnce'
  <2>1. \A j \in 1 .. Len(q) : q[j].kind = "enum" => FrameOnce(q[j])'
    BY <1>8
  <2> QED  BY <1>4, <2>1 DEF FramesOnce, FrameOnce, Place, IndexAfter
<1>10. FramesAll'
  <2>1. \A j \in 1 .. Len(q) : q[j].kind = "enum" => FrameAll(q[j])'
    BY <1>8
  <2> QED  BY <1>4, <2>1 DEF FramesAll, FrameAll, Place, IndexAfter, Opener
<1> QED  BY <1>2, <1>3, <1>9, <1>10 DEF EnumKept

LEMMA EnumStep == EnumOnce /\ [CaosNext]_caosVars => EnumKept
<1> SUFFICES ASSUME EnumOnce, [CaosNext]_caosVars PROVE EnumKept
  OBVIOUS
<1>1. frames \in Seq(StackFrame)
  BY DEF EnumOnce, CaosTyped, CaosTypeOK
<1>2. UNCHANGED frames => StackFrom({})
  BY <1>1 DEF StackFrom
<1>3. CASE Command
  BY <1>3, EnumKeeps, NextKeeps, OthersKeep
<1>4. CASE Event
  <2>1. frames' = <<>>
    BY <1>4 DEF Event
  <2>2. StackFrom({})
    BY <2>1 DEF StackFrom
  <2>3. WorldMoves /\ program' = program /\ missed' = {}
    BY <1>4 DEF Event, WorldMoves
  <2> QED  BY <2>2, <2>3, FramesRest
<1>5. CASE Between
  <2>1. WorldMoves /\ program' = program /\ missed' = missed /\ UNCHANGED frames
    BY <1>5 DEF Between, WorldMoves, script
  <2> QED  BY <1>2, <2>1, FramesRest
<1>6. CASE Turn \/ UNCHANGED caosVars
  <2>1. WorldMoves /\ program' = program /\ missed' = missed /\ UNCHANGED frames
    BY <1>6 DEF Turn, WorldMoves, caosVars, world
  <2> QED  BY <1>2, <2>1, FramesRest
<1> QED  BY <1>3, <1>4, <1>5, <1>6, ReloadKeeps DEF CaosNext

LEMMA EnumInit == CaosInit => EnumAll
<1> SUFFICES ASSUME CaosInit PROVE EnumAll
  OBVIOUS
<1>1. frames = <<>> /\ removals = <<>> /\ serial = 0 /\ missed = {}
  BY DEF CaosInit
<1> QED  BY <1>1, TypedInit DEF EnumAll, EnumOnce, LogIs, LogFrom, FramesOnce, FramesAll

LEMMA EnumOnceStep == EnumOnce /\ [CaosNext]_caosVars => EnumOnce'
BY EnumStep, TypedStep DEF EnumOnce, EnumKept

LEMMA EnumAllStep == EnumAll /\ LogReaches' /\ [CaosNext]_caosVars => EnumAll'
BY EnumStep, EnumOnceStep DEF EnumAll, EnumKept

LEMMA OnceIs == EnumOnce => EnumVisitsOnce
<1> SUFFICES ASSUME EnumOnce, NEW i \in DOMAIN frames, frames[i].kind = "enum"
             PROVE  IsInjective(frames[i].seen)
  BY DEF EnumVisitsOnce
<1>1. frames \in Seq(StackFrame) /\ i \in 1 .. Len(frames)
  BY DEF EnumOnce, CaosTyped, CaosTypeOK
<1>2. Distinct(frames[i].seen) /\ frames[i].seen \in Seq(Objects)
  <2>1. FrameOnce(frames[i])
    BY <1>1 DEF EnumOnce, FramesOnce
  <2>2. PICK f \in StackFrame : f = frames[i]
    BY <1>1
  <2>3. f.seen \in Seq(Objects)
    BY DEF StackFrame
  <2> QED  BY <2>1, <2>2, <2>3 DEF FrameOnce
<1> QED  BY <1>2, DistinctIs

\* An enumeration visits nothing twice, whatever is removed.
THEOREM EnumerationsVisitOnce == CaosSpec => []EnumVisitsOnce
<1>1. CaosInit => EnumOnce
  BY EnumInit DEF EnumAll
<1> QED  BY <1>1, EnumOnceStep, OnceIs, PTL DEF CaosSpec

\* Where the log always reaches back to the last move of every enumeration under
\* way, each visits all that it should.
THEOREM EnumerationsAreSound == CaosSpec /\ []LogReaches => []EnumSound
<1>1. EnumAll => EnumSound
  BY OnceIs DEF EnumAll, EnumOnce, EnumSound, EnumVisitsAll, CaosTyped
<1> QED  BY <1>1, EnumInit, EnumAllStep, PTL DEF CaosSpec

-----------------------------------------------------------------------------
(* A world with no more objects than the log holds removals *)

Alive == Len(registry) + Cardinality(unborn)
FewRemovals ==
  /\ IsFiniteSet(unborn) /\ serial + Alive <= Cardinality(Objects)
  /\ Len(removals) = serial
FewInv == EnumOnce /\ FewRemovals

LEMMA FewReach ==
  ASSUME FewInv
  PROVE  LogReaches
<1> SUFFICES ASSUME NEW j \in 1 .. Len(frames), frames[j].kind = "enum" PROVE Reaches(frames[j])
  BY DEF LogReaches
<1>1. FrameOnce(frames[j]) /\ serial \in Nat
  BY DEF FewInv, EnumOnce, FramesOnce, CaosTyped
<1> QED  BY <1>1 DEF FewInv, FewRemovals, FrameOnce, Reaches

LEMMA FewStep ==
  ASSUME IsFiniteSet(Objects), Cardinality(Objects) <= LogLimit, FewInv, [CaosNext]_caosVars
  PROVE  FewRemovals'
<1>1. /\ WorldTyped /\ registry \in Seq(Objects) /\ Len(registry) \in Nat /\ serial \in Nat
      /\ IsFiniteSet(unborn) /\ serial + Len(registry) + Cardinality(unborn) <= Cardinality(Objects)
      /\ Cardinality(unborn) \in Nat /\ Cardinality(Objects) \in Nat /\ LogLimit \in Nat
      /\ Len(removals) = serial /\ removals \in Seq(Removal)
  BY TypedIs, FS_CardinalityType, CaosScriptAssumption DEF FewInv, FewRemovals, EnumOnce, WorldTyped, Alive
<1>2. CASE UNCHANGED <<registry, unborn, removals, serial>>
  BY <1>2 DEF FewInv, FewRemovals, Alive
<1>3. ASSUME NEW o, Delete(o) PROVE FewRemovals'
  <2>1. o \in ToSet(registry) /\ Erase(o) /\ unborn' = unborn
    BY <1>3 DEF Delete
  <2>2. PICK at \in Nat : ErasedAt(at, o)
    BY <1>1, <2>1, EraseRegistry DEF WorldTyped
  <2>3. Len(registry') = Len(registry) - 1 /\ Len(registry) >= 1
    BY <1>1, <2>2 DEF ErasedAt
  <2>4. serial' = serial + 1
    BY <2>1 DEF Erase
  <2>5. Len(removals') = serial + 1
    <3>1. PICK r : r = [serial |-> serial + 1, index |-> IndexOf(o)]
      OBVIOUS
    <3>2. Len(Append(removals, r)) = Len(removals) + 1
      BY <1>1
    <3>3. ~(Len(Append(removals, r)) > LogLimit)
      BY <1>1, <2>3, <3>2
    <3>4. removals' = Append(removals, r)
      BY <2>1, <3>1, <3>3 DEF Erase
    <3> QED  BY <1>1, <3>2, <3>4
  <2>6. serial' + (Len(registry') + Cardinality(unborn')) <= Cardinality(Objects)
    BY <1>1, <2>1, <2>3, <2>4
  <2> QED  BY <1>1, <2>1, <2>4, <2>5, <2>6 DEF FewRemovals, Alive
<1>4. ASSUME NEW o, Birth(o) PROVE FewRemovals'
  <2>1. o \in unborn /\ unborn' = unborn \ {o} /\ UNCHANGED <<removals, serial>>
        /\ Len(registry') = Len(registry) + 1
    BY <1>1, <1>4, BirthIs DEF Birth
  <2>2. IsFiniteSet(unborn') /\ Cardinality(unborn') = Cardinality(unborn) - 1
    BY <1>1, <2>1, FS_RemoveElement
  <2>3. serial' + (Len(registry') + Cardinality(unborn')) <= Cardinality(Objects)
    BY <1>1, <2>1, <2>2
  <2> QED  BY <1>1, <2>1, <2>2, <2>3 DEF FewRemovals, Alive
<1>5. CASE Reload
  <2>1. registry' = Without(registry, hidden) /\ unborn' = unborn /\ removals' = <<>> /\ serial' = 0
    BY <1>5 DEF Reload
  <2>2. Len(registry') \in 0 .. Len(registry)
    BY <1>1, <2>1, WithoutShortens
  <2>3. serial' + (Len(registry') + Cardinality(unborn')) <= Cardinality(Objects)
    BY <1>1, <2>1, <2>2
  <2>4. Len(removals') = serial'
    BY <2>1
  <2> QED  BY <1>1, <2>1, <2>3, <2>4 DEF FewRemovals, Alive
<1>6. CASE Command
  <2>1. (\E o : Delete(o)) \/ UNCHANGED <<registry, unborn, removals, serial>>
    <3>1. CASE KillTarget
      <4>1. Delete(target) \/ Kill(target) \/ UNCHANGED world
        BY <3>1 DEF KillTarget, world
      <4> QED  BY <4>1 DEF Kill, world
    <3>2. CASE ~KillTarget
      <4>1. UNCHANGED world
        BY <1>6, <3>2 DEF Command, Enum, NextObject, Crossed
      <4> QED  BY <4>1 DEF world
    <3> QED  BY <3>1, <3>2
  <2> QED  BY <1>2, <1>3, <2>1
<1>7. CASE Turn \/ Event \/ Between \/ UNCHANGED caosVars
  <2>1. \/ UNCHANGED <<registry, unborn, removals, serial>>
        \/ \E o : Delete(o) \/ Birth(o)
    BY <1>7 DEF Turn, Event, Between, Kill, caosVars, world
  <2> QED  BY <1>2, <1>3, <1>4, <2>1
<1> QED  BY <1>5, <1>6, <1>7 DEF CaosNext

LEMMA FewInit ==
  ASSUME IsFiniteSet(Objects), CaosInit
  PROVE  FewInv
<1>1. registry \in Seq(Objects) /\ IsInjective(registry) /\ unborn = Objects \ ToSet(registry)
      /\ removals = <<>> /\ serial = 0
  BY DEF CaosInit, SeqOf
<1>2. EnumOnce
  BY EnumInit DEF EnumAll
<1>3. ToSet(registry) \in SUBSET Objects /\ Distinct(registry)
  BY <1>1, DistinctIs
<1>4. IsFiniteSet(ToSet(registry)) /\ Cardinality(ToSet(registry)) = Len(registry)
  <2>1. PICK n \in Nat : n = Len(registry)
    BY <1>1
  <2>2. ExistsBijection(1 .. n, ToSet(registry))
    <3>1. registry \in [1 .. n -> ToSet(registry)]
      <4>1. registry \in [1 .. n -> Objects] /\ \A i \in 1 .. n : registry[i] \in ToSet(registry)
        BY <1>1, <2>1, DistinctIs
      <4> QED  BY <4>1
    <3>2. registry \in Bijection(1 .. n, ToSet(registry))
      BY <1>1, <1>3, <2>1, <3>1, DistinctIs DEF Bijection, Injection, Surjection, Distinct
    <3> QED  BY <3>2 DEF ExistsBijection
  <2>3. IsFiniteSet(1 .. n) /\ Cardinality(1 .. n) = n
    <3>1. 1 \in Int /\ n \in Int
      OBVIOUS
    <3>2. IsFiniteSet(1 .. n) /\ Cardinality(1 .. n) = IF 1 > n THEN 0 ELSE n - 1 + 1
      BY <3>1, FS_Interval
    <3> QED  BY <3>2
  <2>4. IsFiniteSet(ToSet(registry)) /\ Cardinality(ToSet(registry)) = Cardinality(1 .. n)
    BY <2>2, <2>3, FS_Bijection, FS_CardinalityType
  <2> QED  BY <2>1, <2>3, <2>4
<1>5. IsFiniteSet(unborn) /\ Cardinality(unborn) = Cardinality(Objects) - Len(registry)
  <2> DEFINE R == ToSet(registry)
  <2> HIDE DEF R
  <2>1. R \subseteq Objects /\ IsFiniteSet(R) /\ unborn = Objects \ R /\ Cardinality(R) = Len(registry)
    BY <1>1, <1>3, <1>4 DEF R
  <2>2. IsFiniteSet(Objects \ R) /\ Cardinality(Objects \ R) = Cardinality(Objects) - Cardinality(Objects \cap R)
    BY FS_Difference
  <2>3. Objects \cap R = R
    BY <2>1
  <2> QED  BY <2>1, <2>2, <2>3
<1>6. Cardinality(Objects) \in Nat /\ Len(registry) \in Nat
  BY <1>1, FS_CardinalityType
<1> QED  BY <1>1, <1>2, <1>5, <1>6 DEF FewInv, FewRemovals, Alive

\* ... as it always does in a world of no more objects than the log remembers.
THEOREM FewObjectsAreVisited ==
  ASSUME IsFiniteSet(Objects), Cardinality(Objects) <= LogLimit
  PROVE  CaosSpec => []EnumSound
<1>1. CaosInit => FewInv
  BY FewInit
<1>2. FewInv /\ [CaosNext]_caosVars => FewInv'
  BY FewStep, EnumOnceStep DEF FewInv
<1>3. FewInv => LogReaches
  BY FewReach
<1>4. CaosSpec => []LogReaches
  BY <1>1, <1>2, <1>3, PTL DEF CaosSpec
<1> QED  BY <1>4, EnumerationsAreSound, PTL

-----------------------------------------------------------------------------
(* Nested constructs *)

\* A script of n commands whose constructs mate pairs.
NestedBy(p, mate, n) ==
  /\ n \in Nat /\ DOMAIN p = 1 .. n
  /\ mate \in [Begins(p) -> Finishes(p)] /\ Pairs(p, mate)

Repeats == {"enum", "loop", "reps"}
\* the enum, loop and reps that command i is in, or ends
Around(p, mate, i) == {b \in Begins(p) : p[b].op # "doif" /\ b < i /\ i <= mate[b]}
NoLabel(p, from, to) == \A l \in from .. to : p[l].op # "subr"

LEMMA ClosersAre ==
  /\ Closers = {"next", "untl", "ever", "repe", "retn"}
  /\ KindOf["next"] = "enum" /\ KindOf["untl"] = "loop" /\ KindOf["ever"] = "loop"
  /\ KindOf["repe"] = "reps" /\ KindOf["retn"] = "gsub"
BY DEF Closers, KindOf

LEMMA EndingsAre ==
  /\ Endings("enum") = {"next"} /\ Endings("loop") = {"untl", "ever"}
  /\ Endings("reps") = {"repe"} /\ Endings("doif") = {"endi"}
BY ClosersAre DEF Endings, Ends

LEMMA PairsAre ==
  ASSUME NEW p, NEW mate, NEW n, NestedBy(p, mate, n)
  PROVE  /\ \A b \in Begins(p) : /\ b \in 1 .. n /\ mate[b] \in 1 .. n /\ mate[b] \in Finishes(p)
                                 /\ b < mate[b] /\ p[mate[b]].op \in Endings(p[b].op)
         /\ \A b, c \in Begins(p) : b < c => mate[b] < c \/ mate[c] < mate[b]
         /\ \A e \in Finishes(p) : \E b \in Begins(p) : mate[b] = e
         /\ \A b \in Begins(p), e \in Finishes(p) : b # e
         /\ n \in Nat /\ DOMAIN p = 1 .. n
<1>1. n \in Nat /\ DOMAIN p = 1 .. n /\ mate \in [Begins(p) -> Finishes(p)]
  BY DEF NestedBy
<1>2. /\ \A b \in Begins(p) : mate[b] > b /\ p[mate[b]].op \in Endings(p[b].op)
      /\ \A e \in Finishes(p) : \E b \in Begins(p) : mate[b] = e
      /\ \A b, c \in Begins(p) : b < c => mate[b] < c \/ mate[c] < mate[b]
  BY DEF NestedBy, Pairs
<1>3. Begins(p) \subseteq 1 .. n /\ Finishes(p) \subseteq 1 .. n
  BY <1>1 DEF Begins, Finishes
<1>4. \A b \in Begins(p), e \in Finishes(p) : b # e
  BY DEF Begins, Finishes
<1>5. \A b \in Begins(p) : /\ b \in 1 .. n /\ mate[b] \in 1 .. n /\ mate[b] \in Finishes(p)
                           /\ b < mate[b] /\ p[mate[b]].op \in Endings(p[b].op)
  <2> TAKE b \in Begins(p)
  <2>1. mate[b] \in Finishes(p)
    BY <1>1
  <2>2. b \in 1 .. n /\ mate[b] \in 1 .. n /\ mate[b] > b
    BY <1>2, <1>3, <2>1
  <2> QED  BY <1>2, <2>1, <2>2
<1> QED  BY <1>1, <1>2, <1>4, <1>5

LEMMA PlacesAre ==
  ASSUME NEW p, NEW mate, NEW n, NestedBy(p, mate, n), NEW i \in 1 .. n
  PROVE  LET around == {b \in Begins(p) : b < i /\ i < mate[b]} IN
         /\ p[i].op = "else" => \E b \in around : p[b].op = "doif" /\ \A c \in around : c <= b
         /\ p[i].op = "subr" => around = {}
         /\ p[i].op = "retn" => /\ \A b \in around : p[b].op = "doif"
                               /\ \E l \in 1 .. i - 1 : p[l].op = "subr"
<1>1. i \in DOMAIN p
  BY DEF NestedBy
<1> QED  BY <1>1 DEF NestedBy, Pairs

\* No two constructs end at one command.
LEMMA MatesDiffer ==
  ASSUME NEW p, NEW mate, NEW n, NestedBy(p, mate, n), NEW b \in Begins(p), NEW c \in Begins(p),
         mate[b] = mate[c]
  PROVE  b = c
<1>1. b \in 1 .. n /\ c \in 1 .. n /\ mate[b] \in 1 .. n /\ b < mate[b] /\ c < mate[c]
  BY PairsAre
<1>2. ~(b < c)
  <2>1. b < c => mate[b] < c \/ mate[c] < mate[b]
    BY PairsAre
  <2> QED  BY <1>1, <2>1
<1>3. ~(c < b)
  <2>1. c < b => mate[c] < b \/ mate[b] < mate[c]
    BY PairsAre
  <2> QED  BY <1>1, <2>1
<1> QED  BY <1>1, <1>2, <1>3

LEMMA AroundPlain ==
  ASSUME NEW p, NEW mate, NEW n, NestedBy(p, mate, n), NEW i \in 1 .. n,
         p[i].op \notin Repeats, p[i].op \notin {"next", "untl", "ever", "repe"}
  PROVE  Around(p, mate, i + 1) = Around(p, mate, i)
<1> SUFFICES ASSUME NEW b \in Begins(p), p[b].op # "doif"
             PROVE  b < i + 1 /\ i + 1 <= mate[b] <=> b < i /\ i <= mate[b]
  BY DEF Around
<1>1. b \in 1 .. n /\ mate[b] \in 1 .. n
  BY PairsAre
<1>2. p[b].op \in Repeats
  BY DEF Begins, Repeats
<1>3. b # i
  BY <1>2
<1>4. mate[b] # i
  <2>1. p[mate[b]].op \in Endings(p[b].op)
    BY PairsAre
  <2>2. p[mate[b]].op \in {"next", "untl", "ever", "repe"}
    BY <1>2, <2>1, EndingsAre DEF Repeats
  <2> QED  BY <2>2
<1> QED  BY <1>1, <1>3, <1>4

LEMMA AroundBegin ==
  ASSUME NEW p, NEW mate, NEW n, NestedBy(p, mate, n), NEW i \in 1 .. n, p[i].op \in Repeats
  PROVE  /\ i \in Begins(p) /\ Around(p, mate, i + 1) = Around(p, mate, i) \cup {i}
         /\ \A b \in Around(p, mate, i) : b < i
<1>1. i \in Begins(p) /\ p[i].op # "doif"
  BY DEF NestedBy, Begins, Repeats
<1>2. i < mate[i] /\ mate[i] \in 1 .. n
  BY <1>1, PairsAre
<1>3. ASSUME NEW b \in Begins(p), p[b].op # "doif"
      PROVE  b < i + 1 /\ i + 1 <= mate[b] <=> (b < i /\ i <= mate[b]) \/ b = i
  <2>1. b \in 1 .. n /\ mate[b] \in 1 .. n /\ mate[b] \in Finishes(p)
    BY PairsAre
  <2>2. mate[b] # i
    BY <1>1, <2>1, PairsAre
  <2> QED  BY <1>2, <2>1, <2>2
<1>4. Around(p, mate, i + 1) = Around(p, mate, i) \cup {i}
  BY <1>1, <1>3 DEF Around
<1> QED  BY <1>1, <1>4 DEF Around

\* After a construct one is where one was before it.
LEMMA AroundEnd ==
  ASSUME NEW p, NEW mate, NEW n, NestedBy(p, mate, n), NEW i \in Begins(p)
  PROVE  Around(p, mate, mate[i] + 1) = Around(p, mate, i)
<1> SUFFICES ASSUME NEW b \in Begins(p), p[b].op # "doif"
             PROVE  b < mate[i] + 1 /\ mate[i] + 1 <= mate[b] <=> b < i /\ i <= mate[b]
  BY DEF Around
<1>1. /\ b \in 1 .. n /\ mate[b] \in 1 .. n /\ b < mate[b] /\ i \in 1 .. n /\ mate[i] \in 1 .. n
      /\ i < mate[i] /\ b # mate[i] /\ i # mate[b]
  BY PairsAre
<1>2. (b < i => mate[b] < i \/ mate[i] < mate[b]) /\ (i < b => mate[i] < b \/ mate[b] < mate[i])
  BY PairsAre
<1> QED  BY <1>1, <1>2

\* The construct that a closer ends is the innermost around it.
LEMMA AroundCloser ==
  ASSUME NEW p, NEW mate, NEW n, NestedBy(p, mate, n), NEW i \in Begins(p), p[i].op \in Repeats
  PROVE  i \in Around(p, mate, mate[i]) /\ \A c \in Around(p, mate, mate[i]) : c <= i
<1>1. i \in 1 .. n /\ mate[i] \in 1 .. n /\ i < mate[i] /\ p[i].op # "doif"
  BY PairsAre DEF Repeats
<1>2. i \in Around(p, mate, mate[i])
  BY <1>1 DEF Around
<1>3. ASSUME NEW c \in Around(p, mate, mate[i]) PROVE c <= i
  <2>1. c \in Begins(p) /\ c < mate[i] /\ mate[i] <= mate[c]
    BY DEF Around
  <2>2. c \in 1 .. n /\ mate[c] \in 1 .. n /\ (i < c => mate[i] < c \/ mate[c] < mate[i])
    BY <2>1, PairsAre
  <2> QED  BY <1>1, <2>1, <2>2
<1> QED  BY <1>2, <1>3

\* An else is where its doif is.
LEMMA AroundElse ==
  ASSUME NEW p, NEW mate, NEW n, NestedBy(p, mate, n), NEW e \in 1 .. n, p[e].op = "else",
         NEW d \in Begins(p), p[d].op = "doif", d < e, e < mate[d],
         \A c \in Begins(p) : c < e /\ e < mate[c] => c <= d
  PROVE  Around(p, mate, e) = Around(p, mate, d)
<1> SUFFICES ASSUME NEW b \in Begins(p), p[b].op # "doif"
             PROVE  b < e /\ e <= mate[b] <=> b < d /\ d <= mate[b]
  BY DEF Around
<1>1. /\ b \in 1 .. n /\ mate[b] \in 1 .. n /\ b < mate[b] /\ mate[b] \in Finishes(p)
      /\ d \in 1 .. n /\ mate[d] \in 1 .. n /\ d # mate[b]
  BY PairsAre
<1>2. b # d /\ mate[b] # e
  BY <1>1 DEF Finishes
<1>3. b < e /\ e < mate[b] => b <= d
  OBVIOUS
<1>4. b < d => mate[b] < d \/ mate[d] < mate[b]
  BY PairsAre
<1> QED  BY <1>1, <1>2, <1>3, <1>4

\* A construct holds no label.
LEMMA NoLabelIn ==
  ASSUME NEW p, NEW mate, NEW n, NestedBy(p, mate, n), NEW i \in Begins(p)
  PROVE  NoLabel(p, i, mate[i])
<1> SUFFICES ASSUME NEW l \in i .. mate[i], p[l].op = "subr" PROVE FALSE
  BY DEF NoLabel
<1>1. i \in 1 .. n /\ mate[i] \in 1 .. n /\ mate[i] \in Finishes(p)
  BY PairsAre
<1>2. l # i /\ l # mate[i]
  BY <1>1 DEF Begins, Finishes
<1>3. l \in 1 .. n /\ i < l /\ l < mate[i]
  <2>1. n \in Nat
    BY PairsAre
  <2> QED  BY <1>1, <1>2, <2>1
<1>4. {b \in Begins(p) : b < l /\ l < mate[b]} = {}
  BY <1>3, PlacesAre
<1> QED  BY <1>3, <1>4

-----------------------------------------------------------------------------
(* Scans that count *)

\* Every construct of the kind that begins or ends between from and to lies there.
Closed(p, mate, kind, from, to) ==
  \A b \in Begins(p) : p[b].op = kind /\ ((from < b /\ b < to) \/ (from < mate[b] /\ mate[b] < to))
     => from < b /\ mate[b] < to
\* the commands between from and to, with one of these words
Words(p, ops, from, to) == {i \in from + 1 .. to - 1 : p[i].op \in ops}

\* as many of its kind have begun as have ended
Level(p, kind, from, to) ==
  Cardinality(Words(p, {kind}, from, to)) = Cardinality(Words(p, Endings(kind), from, to))

LEMMA WordsFinite ==
  ASSUME NEW p, NEW ops, NEW from \in Int, NEW to \in Int
  PROVE  IsFiniteSet(Words(p, ops, from, to)) /\ Cardinality(Words(p, ops, from, to)) \in Nat
<1>1. from + 1 \in Int /\ to - 1 \in Int
  OBVIOUS
<1>2. IsFiniteSet(from + 1 .. to - 1)
  BY <1>1, FS_Interval
<1>3. Words(p, ops, from, to) \in SUBSET (from + 1 .. to - 1)
  BY DEF Words
<1>4. IsFiniteSet(Words(p, ops, from, to))
  BY <1>2, <1>3, FS_Subset
<1> QED  BY <1>4, FS_CardinalityType

LEMMA BeginOf ==
  ASSUME NEW p, NEW mate, NEW n, NestedBy(p, mate, n), NEW kind \in {"enum", "loop", "reps", "doif"},
         NEW x \in 1 .. n, p[x].op \in Endings(kind)
  PROVE  \E b \in Begins(p) : mate[b] = x /\ p[b].op = kind
<1>1. x \in Finishes(p)
  BY EndingsAre DEF Finishes, NestedBy
<1>2. PICK b \in Begins(p) : mate[b] = x
  BY <1>1, PairsAre
<1>3. p[x].op \in Endings(p[b].op) /\ p[b].op \in {"enum", "loop", "reps", "doif"}
  BY <1>2, PairsAre DEF Begins
<1>4. p[b].op = kind
  BY <1>3, EndingsAre
<1> QED  BY <1>2, <1>4

LEMMA ScanIs ==
  ASSUME NEW p, NEW mate, NEW n, NestedBy(p, mate, n), NEW kind \in {"enum", "loop", "reps", "doif"},
         NEW from \in Nat, NEW to \in 0 .. n + 1, Closed(p, mate, kind, from, to),
         NEW e \in from + 1 .. to
  PROVE  /\ Level(p, kind, from, e) => \A b \in Words(p, {kind}, from, e) : mate[b] < e
         /\ e = to => Level(p, kind, from, e)
<1> DEFINE A == Words(p, Endings(kind), from, e)
           B == Words(p, {kind}, from, e)
           f == [x \in A |-> CHOOSE b \in Begins(p) : mate[b] = x]
<1>1. n \in Nat /\ e \in Int /\ from \in Int /\ e <= n + 1
  BY PairsAre
<1>2. \A x \in A : x \in 1 .. n /\ from < x /\ x < e /\ p[x].op \in Endings(kind)
  BY <1>1 DEF Words
<1>3. \A b \in B : b \in 1 .. n /\ from < b /\ b < e /\ p[b].op = kind /\ b \in Begins(p)
  BY <1>1, PairsAre DEF Words, Begins
<1>4. ASSUME NEW x \in A
      PROVE  f[x] \in B /\ mate[f[x]] = x
  <2>1. PICK c \in Begins(p) : mate[c] = x /\ p[c].op = kind
    BY <1>2, BeginOf
  <2>2. f[x] = CHOOSE b \in Begins(p) : mate[b] = x
    OBVIOUS
  <2>3. f[x] \in Begins(p) /\ mate[f[x]] = x
    BY <2>1, <2>2
  <2> HIDE DEF f
  <2>4. f[x] = c
    BY <2>1, <2>3, MatesDiffer
  <2>5. c \in 1 .. n /\ c < x /\ from < x /\ x < e /\ e <= to
    BY <1>2, <2>1, PairsAre
  <2>6. from < mate[c] /\ mate[c] < to
    BY <1>1, <1>2, <2>1, <2>5
  <2>7. from < c
    BY <2>1, <2>6 DEF Closed
  <2>8. c \in from + 1 .. e - 1
    BY <1>1, <1>2, <2>5, <2>7
  <2>9. c \in B
    BY <2>1, <2>8 DEF Words
  <2> QED  BY <2>3, <2>4, <2>9
<1>5. f \in [A -> B]
  <2>1. f = [x \in A |-> f[x]]
    OBVIOUS
  <2> HIDE DEF f
  <2> QED  BY <1>4, <2>1
<1> HIDE DEF f, A, B
<1>6. f \in Injection(A, B)
  <2>1. \A x, y \in A : f[x] = f[y] => x = y
    BY <1>4
  <2> QED  BY <1>5, <2>1 DEF Injection, IsInjective
<1>7. IsFiniteSet(B)
  BY <1>1, WordsFinite DEF B
<1>8. Cardinality(A) = Cardinality(B) <=> f \in Surjection(A, B)
  BY <1>6, <1>7, FS_Injection
<1>9. ASSUME Cardinality(A) = Cardinality(B), NEW b \in B PROVE mate[b] < e
  <2>1. PICK x \in A : f[x] = b
    BY <1>8, <1>9 DEF Surjection
  <2> QED  BY <1>2, <1>4, <2>1
<1>10. ASSUME e = to PROVE Cardinality(A) = Cardinality(B)
  <2>1. ASSUME NEW b \in B PROVE \E x \in A : f[x] = b
    <3>1. b \in Begins(p) /\ p[b].op = kind /\ from < b /\ b < to
      BY <1>3, <1>10
    <3>2. mate[b] < to /\ mate[b] \in 1 .. n /\ b < mate[b] /\ p[mate[b]].op \in Endings(kind) /\ b \in 1 .. n
      BY <3>1, PairsAre DEF Closed
    <3>3. mate[b] \in from + 1 .. e - 1
      BY <1>1, <1>10, <3>1, <3>2
    <3>4. mate[b] \in A
      BY <3>2, <3>3 DEF A, Words
    <3>5. mate[f[mate[b]]] = mate[b] /\ f[mate[b]] \in Begins(p)
      BY <1>3, <1>4, <3>4
    <3>6. f[mate[b]] = b
      BY <3>1, <3>5, MatesDiffer
    <3> QED  BY <3>4, <3>6
  <2>2. f \in Surjection(A, B)
    BY <1>5, <2>1 DEF Surjection
  <2> QED  BY <1>8, <2>2
<1> QED  BY <1>9, <1>10 DEF A, B, Level

\* between the begin and the end of a construct
LEMMA ClosedIn ==
  ASSUME NEW p, NEW mate, NEW n, NestedBy(p, mate, n), NEW kind, NEW i \in Begins(p)
  PROVE  Closed(p, mate, kind, i, mate[i]) /\ Closed(p, mate, kind, i - 1, mate[i] + 1)
<1>1. i \in 1 .. n /\ mate[i] \in 1 .. n /\ i < mate[i]
  BY PairsAre
<1>2. ASSUME NEW b \in Begins(p)
      PROVE  /\ b \in 1 .. n /\ mate[b] \in 1 .. n /\ b < mate[b]
             /\ (b < i => mate[b] < i \/ mate[i] < mate[b]) /\ (i < b => mate[i] < b \/ mate[b] < mate[i])
             /\ b # mate[i] /\ mate[b] # i /\ (mate[b] = mate[i] => b = i)
  BY PairsAre, MatesDiffer
<1>3. Closed(p, mate, kind, i, mate[i])
  <2> SUFFICES ASSUME NEW b \in Begins(p), (i < b /\ b < mate[i]) \/ (i < mate[b] /\ mate[b] < mate[i])
               PROVE  i < b /\ mate[b] < mate[i]
    BY DEF Closed
  <2> QED  BY <1>1, <1>2
<1>4. Closed(p, mate, kind, i - 1, mate[i] + 1)
  <2> SUFFICES ASSUME NEW b \in Begins(p),
                      (i - 1 < b /\ b < mate[i] + 1) \/ (i - 1 < mate[b] /\ mate[b] < mate[i] + 1)
               PROVE  i - 1 < b /\ mate[b] < mate[i] + 1
    BY DEF Closed
  <2> QED  BY <1>1, <1>2
<1> QED  BY <1>3, <1>4

\* Where a scan may stop: at one of these words, on the level it began on.
Stops(p, kind, ops, from, n) ==
  {q \in from + 1 .. n : p[q].op \in ops /\ Level(p, kind, from, q)}

\* A scan inside construct d passes no end but that of d.
LEMMA StopsAre ==
  ASSUME NEW p, NEW mate, NEW n, NestedBy(p, mate, n), NEW d \in Begins(p),
         NEW from \in 1 .. n, from < mate[d], Closed(p, mate, p[d].op, from, mate[d]),
         NEW ops, Endings(p[d].op) \subseteq ops, p[d].op \in {"enum", "doif"}
  PROVE  /\ mate[d] \in Stops(p, p[d].op, ops, from, n)
         /\ \A q \in Stops(p, p[d].op, ops, from, n) :
              q < mate[d] => /\ p[q].op \notin Endings(p[d].op)
                             /\ \A b \in Begins(p) : p[b].op = p[d].op /\ from < b /\ b < q => mate[b] < q
<1> DEFINE kind == p[d].op
           z == mate[d]
<1>1. n \in Nat /\ z \in 1 .. n /\ p[z].op \in Endings(kind) /\ z \in 0 .. n + 1 /\ from \in Nat
      /\ z \in from + 1 .. n /\ z \in from + 1 .. z
      /\ kind \in {"enum", "loop", "reps", "doif"}
  BY PairsAre
<1> HIDE DEF z, kind
<1>2. Level(p, kind, from, z)
  <2>1. Closed(p, mate, kind, from, z)
    BY DEF kind, z
  <2> QED  BY <1>1, <2>1, ScanIs
<1>3. z \in Stops(p, kind, ops, from, n)
  BY <1>1, <1>2 DEF Stops, kind
<1>4. ASSUME NEW q \in Stops(p, kind, ops, from, n), q < z
      PROVE  /\ p[q].op \notin Endings(kind)
             /\ \A b \in Begins(p) : p[b].op = kind /\ from < b /\ b < q => mate[b] < q
  <2>1. q \in from + 1 .. n /\ Level(p, kind, from, q)
    BY DEF Stops
  <2>2. q \in from + 1 .. z /\ q \in 1 .. n /\ from < q
    BY <1>1, <1>4, <2>1
  <2>3. \A b \in Words(p, {kind}, from, q) : mate[b] < q
    BY <1>1, <2>1, <2>2, ScanIs DEF kind, z
  <2>4. ASSUME NEW b \in Begins(p), p[b].op = kind, from < b, b < q PROVE mate[b] < q
    <3>1. b \in from + 1 .. q - 1
      BY <1>1, <2>2, <2>4, PairsAre
    <3>2. b \in Words(p, {kind}, from, q)
      BY <2>4, <3>1 DEF Words
    <3> QED  BY <2>3, <3>2
  <2>5. ASSUME p[q].op \in Endings(kind) PROVE FALSE
    <3>1. PICK b \in Begins(p) : mate[b] = q /\ p[b].op = kind
      BY <1>1, <2>2, <2>5, BeginOf
    <3>2. from < b
      BY <1>1, <1>4, <2>2, <3>1 DEF Closed, kind, z
    <3>3. b < q /\ q \in Int
      BY <2>2, <3>1, PairsAre
    <3>4. mate[b] < q
      BY <2>4, <3>1, <3>2, <3>3
    <3> QED  BY <3>1, <3>3, <3>4
  <2> QED  BY <2>4, <2>5
<1> QED  BY <1>3, <1>4 DEF kind, z

-----------------------------------------------------------------------------
(* What the scans find *)

LEMMA FirstLeast ==
  ASSUME NEW S, S \subseteq Int, NEW x \in S, \A y \in S : x <= y
  PROVE  First(S) = x
<1>1. First(S) \in S /\ \A y \in S : First(S) <= y
  BY DEF First
<1> HIDE DEF First
<1>2. First(S) <= x /\ x <= First(S) /\ x \in Int /\ First(S) \in Int
  BY <1>1
<1> QED  BY <1>2

\* seek_next_command finds the end of its enum.
LEMMA NextIs ==
  ASSUME NEW p, NEW mate, NEW n, NestedBy(p, mate, n), NEW i \in 1 .. n, p[i].op = "enum"
  PROVE  LET S == Stops(p, "enum", {"next"}, i, n) IN S # {} /\ First(S) = mate[i]
<1> DEFINE S == Stops(p, "enum", {"next"}, i, n)
<1>1. i \in Begins(p)
  BY PairsAre DEF Begins
<1>2. i < mate[i] /\ mate[i] \in 1 .. n
  BY <1>1, PairsAre
<1>3. Closed(p, mate, p[i].op, i, mate[i])
  BY <1>1, ClosedIn
<1>4. Endings("enum") = {"next"}
  BY EndingsAre
<1>5. mate[i] \in S /\ \A q \in S : q < mate[i] => p[q].op \notin {"next"}
  BY <1>1, <1>2, <1>3, <1>4, StopsAre
<1>6. \A q \in S : q \in Int /\ p[q].op \in {"next"}
  BY <1>2 DEF Stops
<1> HIDE DEF S
<1>7. \A q \in S : mate[i] <= q
  BY <1>2, <1>5, <1>6
<1>8. S \subseteq Int
  BY <1>6
<1>9. First(S) = mate[i]
  BY <1>5, <1>7, <1>8, FirstLeast
<1> QED  BY <1>5, <1>9 DEF S

\* Where a scan leaves off, nothing but the innermost doif has changed.
Landing(p, mate, i, f) ==
  /\ f \in i + 1 .. Len(p) /\ Around(p, mate, f + 1) = Around(p, mate, i) /\ NoLabel(p, i, f)

LEMMA DoifLands ==
  ASSUME NEW p, NEW mate, NestedBy(p, mate, Len(p)), NEW i \in 1 .. Len(p), p[i].op = "doif",
         NEW f \in Stops(p, "doif", {"endi", "else"}, i, Len(p)),
         \A q \in Stops(p, "doif", {"endi", "else"}, i, Len(p)) : f <= q
  PROVE  Landing(p, mate, i, f)
<1> DEFINE n == Len(p)
           S == Stops(p, "doif", {"endi", "else"}, i, n)
<1>1. n \in Nat /\ i \in Begins(p)
  BY PairsAre DEF Begins
<1> HIDE DEF n
<1>2. i < mate[i] /\ mate[i] \in 1 .. n /\ NestedBy(p, mate, n) /\ i \in 1 .. n
  BY <1>1, PairsAre DEF n
<1>3. Closed(p, mate, p[i].op, i, mate[i])
  BY <1>1, <1>2, ClosedIn
<1>4. Endings("doif") = {"endi"}
  BY EndingsAre
<1>5. /\ mate[i] \in S
      /\ \A q \in S : q < mate[i] =>
            /\ p[q].op \notin {"endi"}
            /\ \A b \in Begins(p) : p[b].op = "doif" /\ i < b /\ b < q => mate[b] < q
  BY <1>1, <1>2, <1>3, <1>4, StopsAre
<1>6. f \in S /\ f <= mate[i]
  BY <1>5 DEF n
<1>7. f \in i + 1 .. n /\ p[f].op \in {"endi", "else"} /\ f \in 1 .. n /\ i < f
  BY <1>1, <1>6 DEF Stops
<1> HIDE DEF S
<1>8. NoLabel(p, i, f)
  <2>1. NoLabel(p, i, mate[i])
    BY <1>1, <1>2, NoLabelIn
  <2> QED  BY <1>1, <1>2, <1>6, <1>7, <2>1 DEF NoLabel
<1>9. Around(p, mate, f + 1) = Around(p, mate, i)
  <2>1. CASE f = mate[i]
    BY <1>1, <1>2, <2>1, AroundEnd
  <2>2. CASE f < mate[i]
    <3>1. p[f].op = "else"
      BY <1>5, <1>6, <1>7, <2>2
    <3>2. PICK d \in Begins(p) : /\ d < f /\ f < mate[d] /\ p[d].op = "doif"
                                 /\ \A c \in Begins(p) : c < f /\ f < mate[c] => c <= d
      <4> DEFINE around == {b \in Begins(p) : b < f /\ f < mate[b]}
      <4>1. \E b \in around : p[b].op = "doif" /\ \A c \in around : c <= b
        BY <1>2, <1>7, <3>1, PlacesAre
      <4> QED  BY <4>1
    <3>3. i <= d /\ d \in 1 .. n /\ mate[d] \in 1 .. n
      BY <1>1, <1>2, <1>7, <2>2, <3>2, PairsAre
    <3>4. ~(i < d)
      BY <1>5, <1>6, <1>7, <2>2, <3>2, <3>3
    <3>5. d = i
      BY <1>2, <3>3, <3>4
    <3>6. Around(p, mate, f) = Around(p, mate, i)
      BY <1>2, <1>7, <3>1, <3>2, <3>5, AroundElse
    <3>7. Around(p, mate, f + 1) = Around(p, mate, f)
      BY <1>2, <1>7, <3>1, AroundPlain DEF Repeats
    <3> QED  BY <3>6, <3>7
  <2> QED  BY <1>2, <1>6, <1>7, <2>1, <2>2
<1> QED  BY <1>7, <1>8, <1>9 DEF Landing, n

LEMMA ElseLands ==
  ASSUME NEW p, NEW mate, NestedBy(p, mate, Len(p)), NEW i \in 1 .. Len(p), p[i].op = "else",
         NEW f \in Stops(p, "doif", {"endi"}, i, Len(p)),
         \A q \in Stops(p, "doif", {"endi"}, i, Len(p)) : f <= q
  PROVE  Landing(p, mate, i, f)
<1> DEFINE n == Len(p)
           S == Stops(p, "doif", {"endi"}, i, n)
<1>1. n \in Nat /\ i \notin Begins(p)
  BY PairsAre DEF Begins
<1> HIDE DEF n
<1>2. NestedBy(p, mate, n) /\ i \in 1 .. n
  BY DEF n
<1>3. PICK d \in Begins(p) : /\ d < i /\ i < mate[d] /\ p[d].op = "doif"
                             /\ \A c \in Begins(p) : c < i /\ i < mate[c] => c <= d
  <2> DEFINE around == {b \in Begins(p) : b < i /\ i < mate[b]}
  <2>1. \E b \in around : p[b].op = "doif" /\ \A c \in around : c <= b
    BY <1>2, PlacesAre
  <2> QED  BY <2>1
<1>4. d \in 1 .. n /\ mate[d] \in 1 .. n
  BY <1>2, PairsAre
<1>5. Closed(p, mate, "doif", i, mate[d])
  <2> SUFFICES ASSUME NEW b \in Begins(p),
                      (i < b /\ b < mate[d]) \/ (i < mate[b] /\ mate[b] < mate[d])
               PROVE  i < b /\ mate[b] < mate[d]
    BY DEF Closed
  <2>1. b \in 1 .. n /\ mate[b] \in 1 .. n /\ b < mate[b] /\ b # i
    BY <1>1, <1>2, PairsAre
  <2>2. (b < d => mate[b] < d \/ mate[d] < mate[b]) /\ (d < b => mate[d] < b \/ mate[b] < mate[d])
    BY <1>2, PairsAre
  <2>3. b < i /\ i < mate[b] => b <= d
    BY <1>3
  <2> QED  BY <1>2, <1>3, <1>4, <2>1, <2>2, <2>3
<1>6. Endings("doif") = {"endi"}
  BY EndingsAre
<1>7. mate[d] \in S /\ \A q \in S : q < mate[d] => p[q].op \notin {"endi"}
  BY <1>2, <1>3, <1>5, <1>6, StopsAre
<1>8. f \in S /\ f <= mate[d]
  BY <1>7 DEF n
<1>9. f \in i + 1 .. n /\ p[f].op \in {"endi"} /\ f \in Int
  BY <1>1, <1>8 DEF Stops
<1> HIDE DEF S
<1>10. f = mate[d]
  BY <1>4, <1>7, <1>8, <1>9
<1>11. Around(p, mate, f + 1) = Around(p, mate, i)
  <2>1. Around(p, mate, mate[d] + 1) = Around(p, mate, d)
    BY <1>2, AroundEnd
  <2>2. Around(p, mate, i) = Around(p, mate, d)
    BY <1>2, <1>3, AroundElse
  <2> QED  BY <1>10, <2>1, <2>2
<1>12. NoLabel(p, i, f)
  <2>1. NoLabel(p, d, mate[d])
    BY <1>2, NoLabelIn
  <2> QED  BY <1>2, <1>3, <1>4, <1>10, <2>1 DEF NoLabel
<1> QED  BY <1>9, <1>11, <1>12 DEF Landing, n

-----------------------------------------------------------------------------
(* The frames on the stack and the constructs around the cursor *)

\* With m frames of q below it the cursor may be at i: the newest is that of the
\* innermost construct around i, or that of the subroutine that i is in.
FitsAt(p, mate, q, m, i) ==
  IF Around(p, mate, i) = {}
  THEN IF m = 0 THEN NoLabel(p, 1, i - 1) ELSE q[m].kind = "gsub"
  ELSE /\ m # 0 /\ q[m].kind # "gsub" /\ q[m].back - 1 \in Around(p, mate, i)
       /\ \A c \in Around(p, mate, i) : c <= q[m].back - 1
\* A frame returns to behind the command that pushed it on what is below.
FrameFits(p, mate, q, j) ==
  /\ q[j].back \in Nat /\ q[j].back - 1 \in DOMAIN p /\ p[q[j].back - 1].op = q[j].kind
  /\ FitsAt(p, mate, q, j - 1, q[j].back - 1)
Fits(p, mate, q, m, i) ==
  FitsAt(p, mate, q, m, i) /\ \A j \in 1 .. m : FrameFits(p, mate, q, j)
Alike(q, r, m) == \A j \in 1 .. m : q[j].kind = r[j].kind /\ q[j].back = r[j].back

LEMMA FitsAtLike ==
  ASSUME NEW p, NEW mate, NEW q, NEW r, NEW m \in Nat, NEW k \in 0 .. m, NEW i,
         Alike(q, r, m), FitsAt(p, mate, q, k, i)
  PROVE  FitsAt(p, mate, r, k, i)
<1>1. k # 0 => k \in 1 .. m
  OBVIOUS
<1>2. k # 0 => q[k].kind = r[k].kind /\ q[k].back = r[k].back
  BY <1>1 DEF Alike
<1> QED  BY <1>2 DEF FitsAt

LEMMA FrameFitsLike ==
  ASSUME NEW p, NEW mate, NEW q, NEW r, NEW m \in Nat, NEW j \in 1 .. m,
         Alike(q, r, m), FrameFits(p, mate, q, j)
  PROVE  FrameFits(p, mate, r, j)
<1>1. q[j].kind = r[j].kind /\ q[j].back = r[j].back
  BY DEF Alike
<1>2. j - 1 \in 0 .. m
  OBVIOUS
<1>3. FitsAt(p, mate, r, j - 1, q[j].back - 1)
  BY <1>2, FitsAtLike DEF FrameFits
<1> QED  BY <1>1, <1>3 DEF FrameFits

LEMMA FitsLike ==
  ASSUME NEW p, NEW mate, NEW q, NEW r, NEW m \in Nat, NEW i,
         Alike(q, r, m), Fits(p, mate, q, m, i)
  PROVE  Fits(p, mate, r, m, i)
<1>1. FitsAt(p, mate, r, m, i)
  BY FitsAtLike DEF Fits
<1>2. \A j \in 1 .. m : FrameFits(p, mate, r, j)
  BY FrameFitsLike DEF Fits
<1> QED  BY <1>1, <1>2 DEF Fits

LEMMA FitsMove ==
  ASSUME NEW p, NEW mate, NEW q, NEW m \in Nat, NEW i \in Nat \ {0}, NEW t \in Nat, i < t,
         Fits(p, mate, q, m, i), Around(p, mate, t) = Around(p, mate, i), NoLabel(p, i, t - 1)
  PROVE  Fits(p, mate, q, m, t)
<1>1. NoLabel(p, 1, i - 1) => NoLabel(p, 1, t - 1)
  <2> SUFFICES ASSUME NoLabel(p, 1, i - 1), NEW l \in 1 .. t - 1 PROVE p[l].op # "subr"
    BY DEF NoLabel
  <2>1. l \in 1 .. i - 1 \/ l \in i .. t - 1
    OBVIOUS
  <2> QED  BY <2>1 DEF NoLabel
<1> QED  BY <1>1 DEF Fits, FitsAt

LEMMA FitsStep ==
  ASSUME NEW p, NEW mate, NEW n, NestedBy(p, mate, n), NEW q, NEW m \in Nat, NEW i \in 1 .. n,
         Fits(p, mate, q, m, i), p[i].op \notin Repeats \cup {"next", "untl", "ever", "repe", "subr"}
  PROVE  Fits(p, mate, q, m, i + 1)
<1>1. Around(p, mate, i + 1) = Around(p, mate, i)
  BY AroundPlain
<1>2. i \in Nat \ {0} /\ i + 1 \in Nat /\ i < i + 1
  BY PairsAre
<1>3. NoLabel(p, i, i + 1 - 1)
  BY <1>2 DEF NoLabel
<1> QED  BY <1>1, <1>2, <1>3, FitsMove

LEMMA FitsBack ==
  ASSUME NEW p, NEW mate, NEW n, NestedBy(p, mate, n), NEW q, NEW m \in Nat \ {0},
         FrameFits(p, mate, q, m), q[m].kind \in Repeats
  PROVE  FitsAt(p, mate, q, m, q[m].back)
<1> DEFINE b == q[m].back - 1
<1>1. b \in 1 .. n /\ p[b].op = q[m].kind /\ q[m].back \in Nat
  BY PairsAre DEF FrameFits
<1>2. b + 1 = q[m].back
  BY <1>1
<1> HIDE DEF b
<1>3. Around(p, mate, b + 1) = Around(p, mate, b) \cup {b} /\ \A c \in Around(p, mate, b) : c < b
  BY <1>1, AroundBegin
<1>4. q[m].kind # "gsub"
  BY DEF Repeats
<1>5. b \in Int /\ b = q[m].back - 1
  BY <1>1 DEF b
<1>6. \A c \in Around(p, mate, b + 1) : c <= b
  <2>1. \A c \in Around(p, mate, b) : c \in 1 .. n
    BY PairsAre DEF Around
  <2> QED  BY <1>1, <1>3, <2>1
<1> QED  BY <1>2, <1>3, <1>4, <1>5, <1>6 DEF FitsAt

LEMMA FitsPush ==
  ASSUME NEW p, NEW mate, NEW n, NestedBy(p, mate, n), NEW q, NEW r, NEW m \in Nat, NEW i \in 1 .. n,
         Fits(p, mate, q, m, i), Alike(q, r, m), r[m + 1].kind = p[i].op, r[m + 1].back = i + 1
  PROVE  /\ \A j \in 1 .. m + 1 : FrameFits(p, mate, r, j)
         /\ p[i].op \in Repeats => Fits(p, mate, r, m + 1, i + 1)
         /\ \A l \in 1 .. n : p[i].op = "gsub" /\ p[l].op = "subr" => Fits(p, mate, r, m + 1, l + 1)
<1>1. i \in Nat /\ i + 1 - 1 = i /\ i \in DOMAIN p /\ i + 1 \in Nat
  BY PairsAre
<1>2. Fits(p, mate, r, m, i)
  BY FitsLike
<1>3. FrameFits(p, mate, r, m + 1)
  <2>1. m + 1 - 1 = m
    OBVIOUS
  <2> QED  BY <1>1, <1>2, <2>1 DEF FrameFits, Fits
<1>4. \A j \in 1 .. m + 1 : FrameFits(p, mate, r, j)
  <2>1. \A j \in 1 .. m + 1 : j \in 1 .. m \/ j = m + 1
    OBVIOUS
  <2> QED  BY <1>2, <1>3, <2>1 DEF Fits
<1>5. ASSUME p[i].op \in Repeats PROVE Fits(p, mate, r, m + 1, i + 1)
  <2>1. m + 1 \in Nat \ {0}
    OBVIOUS
  <2>2. FitsAt(p, mate, r, m + 1, r[m + 1].back)
    BY <1>3, <1>5, <2>1, FitsBack
  <2> QED  BY <1>4, <2>2 DEF Fits
<1>6. ASSUME NEW l \in 1 .. n, p[i].op = "gsub", p[l].op = "subr"
      PROVE  Fits(p, mate, r, m + 1, l + 1)
  <2>1. {b \in Begins(p) : b < l /\ l < mate[b]} = {}
    BY <1>6, PlacesAre
  <2>2. Around(p, mate, l) = {}
    <3> SUFFICES ASSUME NEW b \in Begins(p), b < l, l <= mate[b] PROVE FALSE
      BY DEF Around
    <3>1. mate[b] \in Finishes(p) /\ mate[b] \in 1 .. n
      BY PairsAre
    <3>2. mate[b] # l
      BY <1>6, <3>1 DEF Finishes
    <3> QED  BY <2>1, <3>1, <3>2
  <2>3. Around(p, mate, l + 1) = {}
    BY <1>6, <2>2, AroundPlain DEF Repeats
  <2>4. m + 1 # 0
    OBVIOUS
  <2>5. FitsAt(p, mate, r, m + 1, l + 1)
    BY <1>6, <2>3, <2>4 DEF FitsAt
  <2> QED  BY <1>4, <2>5 DEF Fits
<1> QED  BY <1>4, <1>5, <1>6

\* At the end of a loop the newest frame is its own, and what is below fits after it.
LEMMA FitsEnd ==
  ASSUME NEW p, NEW mate, NEW n, NestedBy(p, mate, n), NEW q, NEW m \in Nat,
         NEW b \in Begins(p), p[b].op \in Repeats, Fits(p, mate, q, m, mate[b])
  PROVE  /\ m # 0 /\ q[m].kind = p[b].op /\ q[m].back = b + 1
         /\ Fits(p, mate, q, m - 1, mate[b] + 1) /\ Fits(p, mate, q, m, b + 1)
<1>1. b \in 1 .. n /\ mate[b] \in 1 .. n /\ b < mate[b]
  BY PairsAre
<1>2. b \in Around(p, mate, mate[b]) /\ \A c \in Around(p, mate, mate[b]) : c <= b
  BY AroundCloser
<1>3. /\ m # 0 /\ q[m].back - 1 \in Around(p, mate, mate[b])
      /\ \A c \in Around(p, mate, mate[b]) : c <= q[m].back - 1
  BY <1>2 DEF Fits, FitsAt
<1>4. m \in 1 .. m /\ m \in Nat \ {0} /\ m - 1 \in Nat
  BY <1>3
<1>5. FrameFits(p, mate, q, m)
  BY <1>4 DEF Fits
<1>6. q[m].back \in Nat /\ q[m].back - 1 \in DOMAIN p /\ p[q[m].back - 1].op = q[m].kind
      /\ FitsAt(p, mate, q, m - 1, q[m].back - 1)
  BY <1>5 DEF FrameFits
<1>7. q[m].back - 1 <= b /\ b <= q[m].back - 1
  BY <1>2, <1>3
<1>8. q[m].back - 1 = b /\ q[m].back = b + 1
  BY <1>1, <1>6, <1>7
<1>9. q[m].kind = p[b].op
  BY <1>6, <1>8
<1>10. \A j \in 1 .. m - 1 : FrameFits(p, mate, q, j)
  <2>1. \A j \in 1 .. m - 1 : j \in 1 .. m
    BY <1>4
  <2> QED  BY <2>1 DEF Fits
<1>11. Fits(p, mate, q, m - 1, b)
  BY <1>6, <1>8, <1>10 DEF Fits
<1>12. Fits(p, mate, q, m - 1, mate[b] + 1)
  <2> DEFINE t == mate[b] + 1
             k == m - 1
  <2>1. Around(p, mate, t) = Around(p, mate, b)
    BY AroundEnd
  <2>2. b \in Nat \ {0} /\ t \in Nat /\ b < t /\ t - 1 = mate[b] /\ k \in Nat
    BY <1>1, <1>4, PairsAre
  <2>3. NoLabel(p, b, t - 1)
    BY <2>2, NoLabelIn
  <2>4. Fits(p, mate, q, k, b)
    BY <1>11
  <2> HIDE DEF t, k
  <2>5. Fits(p, mate, q, k, t)
    BY <2>1, <2>2, <2>3, <2>4, FitsMove
  <2> QED  BY <2>5 DEF t, k
<1>13. Fits(p, mate, q, m, b + 1)
  BY <1>4, <1>5, <1>8, <1>9, FitsBack DEF Fits
<1> QED  BY <1>3, <1>8, <1>9, <1>12, <1>13

LEMMA FitsReturn ==
  ASSUME NEW p, NEW mate, NEW n, NestedBy(p, mate, n), NEW q, NEW m \in Nat,
         NEW i \in 1 .. n, p[i].op = "retn", Fits(p, mate, q, m, i)
  PROVE  m # 0 /\ q[m].kind = "gsub" /\ Fits(p, mate, q, m - 1, q[m].back)
<1> DEFINE around == {b \in Begins(p) : b < i /\ i < mate[b]}
<1>1. (\A b \in around : p[b].op = "doif") /\ \E l \in 1 .. i - 1 : p[l].op = "subr"
  BY PlacesAre
<1>2. Around(p, mate, i) = {}
  <2> SUFFICES ASSUME NEW b \in Begins(p), p[b].op # "doif", b < i, i <= mate[b] PROVE FALSE
    BY DEF Around
  <2>1. mate[b] \in Finishes(p) /\ mate[b] \in 1 .. n
    BY PairsAre
  <2>2. mate[b] # i
    BY <2>1 DEF Finishes
  <2> QED  BY <1>1, <2>1, <2>2
<1>3. m # 0 /\ q[m].kind = "gsub"
  BY <1>1, <1>2 DEF Fits, FitsAt, NoLabel
<1>4. m \in 1 .. m /\ m - 1 \in Nat
  BY <1>3
<1>5. q[m].back \in Nat /\ q[m].back - 1 \in DOMAIN p /\ p[q[m].back - 1].op = "gsub"
      /\ FitsAt(p, mate, q, m - 1, q[m].back - 1)
  BY <1>3, <1>4 DEF Fits, FrameFits
<1>6. \A j \in 1 .. m - 1 : FrameFits(p, mate, q, j)
  <2>1. \A j \in 1 .. m - 1 : j \in 1 .. m
    BY <1>4
  <2> QED  BY <2>1 DEF Fits
<1>7. Fits(p, mate, q, m - 1, q[m].back - 1) /\ q[m].back - 1 \in 1 .. n
  BY <1>5, <1>6, PairsAre DEF Fits
<1>8. Fits(p, mate, q, m - 1, q[m].back - 1 + 1)
  BY <1>4, <1>5, <1>7, FitsStep DEF Repeats
<1>9. q[m].back - 1 + 1 = q[m].back
  BY <1>5
<1> QED  BY <1>3, <1>8, <1>9

-----------------------------------------------------------------------------
(* A step of the script and its constructs *)

Fitting(mate) ==
  /\ NestedBy(program, mate, Len(program))
  /\ Fits(program, mate, frames, Len(frames), cursor)
Landed(mate) ==
  state' \in {"out", "in"} => Fits(program, mate, frames', Len(frames'), cursor')

LEMMA StackLength == CaosTyped => Len(frames) \in Nat /\ frames \in Seq(StackFrame)
BY DEF CaosTyped, CaosTypeOK

LEMMA FitStay ==
  ASSUME NEW mate, Fitting(mate), UNCHANGED <<frames, cursor>>
  PROVE  Landed(mate)
BY DEF Fitting, Landed

LEMMA FitPlain ==
  ASSUME CaosTyped, NEW mate, Fitting(mate), NEW op, At(op),
         op \notin Repeats \cup {"next", "untl", "ever", "repe", "subr"},
         UNCHANGED frames, cursor' = cursor + 1
  PROVE  Landed(mate)
<1>1. cursor \in 1 .. Len(program) /\ program[cursor].op = op
  BY AtIs, ProgramText DEF Op, CaosTyped, CaosTypeOK
<1>2. Len(frames) \in Nat
  BY StackLength
<1>3. Fits(program, mate, frames, Len(frames), cursor + 1)
  BY <1>1, <1>2, FitsStep DEF Fitting
<1> QED  BY <1>3 DEF Landed

LEMMA FitAppend ==
  ASSUME CaosTyped, NEW mate, Fitting(mate), NEW k, At(k),
         NEW f \in StackFrame, f.kind = k, f.back = cursor + 1, frames' = Append(frames, f),
         NEW l \in 1 .. Len(program),
         \/ k \in Repeats /\ cursor' = cursor + 1
         \/ k = "gsub" /\ program[l].op = "subr" /\ cursor' = l + 1
  PROVE  Landed(mate)
<1>1. cursor \in 1 .. Len(program) /\ program[cursor].op = k
  BY AtIs, ProgramText DEF Op, CaosTyped, CaosTypeOK
<1>2. Len(frames) \in Nat /\ frames \in Seq(StackFrame)
  BY StackLength
<1>3. PICK r : r = Append(frames, f)
  OBVIOUS
<1>4. Len(r) = Len(frames) + 1 /\ r[Len(frames) + 1] = f /\ \A j \in 1 .. Len(frames) : r[j] = frames[j]
  BY <1>2, <1>3, PushIs
<1>5. Alike(frames, r, Len(frames))
  BY <1>4 DEF Alike
<1>6. /\ program[cursor].op \in Repeats => Fits(program, mate, r, Len(frames) + 1, cursor + 1)
      /\ program[cursor].op = "gsub" /\ program[l].op = "subr"
           => Fits(program, mate, r, Len(frames) + 1, l + 1)
  <2>1. r[Len(frames) + 1].kind = program[cursor].op /\ r[Len(frames) + 1].back = cursor + 1
    BY <1>1, <1>4
  <2>2. NestedBy(program, mate, Len(program)) /\ Fits(program, mate, frames, Len(frames), cursor)
    BY DEF Fitting
  <2> QED  BY <1>1, <1>2, <1>5, <2>1, <2>2, FitsPush
<1> QED  BY <1>1, <1>3, <1>4, <1>6 DEF Landed

LEMMA ClosersBegin ==
  ASSUME CaosTyped, NEW mate, Fitting(mate), NEW op \in {"next", "untl", "ever", "repe"}, At(op)
  PROVE  /\ KindOf[op] \in Repeats
         /\ \E b \in Begins(program) : /\ mate[b] = cursor /\ program[b].op = KindOf[op]
                                       /\ Has(KindOf[op]) /\ Newest.back = b + 1
                                       /\ Fits(program, mate, frames, Len(frames) - 1, cursor + 1)
                                       /\ Fits(program, mate, frames, Len(frames), Newest.back)
<1>1. cursor \in 1 .. Len(program) /\ program[cursor].op = op
  BY AtIs, ProgramText DEF Op, CaosTyped, CaosTypeOK
<1>2. Len(frames) \in Nat /\ frames \in Seq(StackFrame)
  BY StackLength
<1>3. KindOf[op] \in Repeats /\ op \in Endings(KindOf[op]) /\ KindOf[op] \in {"enum", "loop", "reps", "doif"}
  BY ClosersAre, EndingsAre DEF Repeats
<1>4. NestedBy(program, mate, Len(program))
  BY DEF Fitting
<1>5. PICK b \in Begins(program) : mate[b] = cursor /\ program[b].op = KindOf[op]
  BY <1>1, <1>3, <1>4, BeginOf
<1>6. Fits(program, mate, frames, Len(frames), mate[b])
  BY <1>5 DEF Fitting
<1>7. /\ Len(frames) # 0 /\ frames[Len(frames)].kind = program[b].op /\ frames[Len(frames)].back = b + 1
      /\ Fits(program, mate, frames, Len(frames) - 1, mate[b] + 1)
      /\ Fits(program, mate, frames, Len(frames), b + 1)
  BY <1>2, <1>3, <1>4, <1>5, <1>6, FitsEnd
<1>8. frames # <<>>
  BY <1>7
<1>9. Newest = frames[Len(frames)]
  BY <1>2, <1>8, PopIs
<1> QED  BY <1>3, <1>5, <1>7, <1>8, <1>9 DEF Has

LEMMA ReturnBegins ==
  ASSUME CaosTyped, NEW mate, Fitting(mate), At("retn")
  PROVE  Has("gsub") /\ Fits(program, mate, frames, Len(frames) - 1, Newest.back)
<1>1. cursor \in 1 .. Len(program) /\ program[cursor].op = "retn"
  BY AtIs, ProgramText DEF Op, CaosTyped, CaosTypeOK
<1>2. Len(frames) \in Nat /\ frames \in Seq(StackFrame)
  BY StackLength
<1>3. NestedBy(program, mate, Len(program)) /\ Fits(program, mate, frames, Len(frames), cursor)
  BY DEF Fitting
<1>4. /\ Len(frames) # 0 /\ frames[Len(frames)].kind = "gsub"
      /\ Fits(program, mate, frames, Len(frames) - 1, frames[Len(frames)].back)
  BY <1>1, <1>2, <1>3, FitsReturn
<1>5. frames # <<>>
  BY <1>4
<1>6. Newest = frames[Len(frames)]
  BY <1>2, <1>5, PopIs
<1> QED  BY <1>4, <1>5, <1>6 DEF Has

LEMMA FitPop ==
  ASSUME CaosTyped, NEW mate, frames # <<>>, frames' = Front(frames),
         Fits(program, mate, frames, Len(frames) - 1, cursor')
  PROVE  Landed(mate)
<1>1. Len(frames) \in Nat \ {0} /\ Len(Front(frames)) = Len(frames) - 1
      /\ \A j \in 1 .. Len(frames) - 1 : Front(frames)[j] = frames[j]
  BY StackLength, PopIs
<1>2. PICK r : r = Front(frames)
  OBVIOUS
<1>3. PICK m \in Nat : m = Len(frames) - 1
  BY <1>1
<1>4. Alike(frames, r, m)
  BY <1>1, <1>2, <1>3 DEF Alike
<1>5. PICK t : t = cursor'
  OBVIOUS
<1>6. Fits(program, mate, frames, m, t)
  BY <1>3, <1>5
<1>7. Fits(program, mate, r, m, t)
  BY <1>4, <1>6, FitsLike
<1> QED  BY <1>1, <1>2, <1>3, <1>5, <1>7 DEF Landed

LEMMA FitKeep ==
  ASSUME CaosTyped, NEW mate, NEW f, Keeping(f), Fits(program, mate, frames, Len(frames), cursor')
  PROVE  Landed(mate)
<1>1. PICK r : r = frames'
  OBVIOUS
<1>2. /\ frames # <<>> /\ f.kind = Newest.kind /\ f.back = Newest.back
      /\ Len(r) = Len(frames) /\ r[Len(frames)] = f
      /\ \A j \in 1 .. Len(frames) - 1 : r[j] = frames[j]
  BY <1>1 DEF Keeping
<1>3. Newest = frames[Len(frames)] /\ Len(frames) \in Nat \ {0}
  BY <1>2, StackLength, PopIs
<1>4. \A j \in 1 .. Len(frames) : j \in 1 .. Len(frames) - 1 \/ j = Len(frames)
  BY <1>3
<1>5. Alike(frames, r, Len(frames))
  BY <1>2, <1>3, <1>4 DEF Alike
<1>6. PICK t : t = cursor'
  OBVIOUS
<1>7. Fits(program, mate, r, Len(frames), t)
  BY <1>3, <1>5, <1>6, FitsLike
<1> QED  BY <1>1, <1>2, <1>6, <1>7 DEF Landed

-----------------------------------------------------------------------------
(* The scans of the interpreter *)

LEMMA LevelIs ==
  /\ NextAfter = Stops(program, "enum", {"next"}, cursor, Len(program))
  /\ BranchEnds(TRUE) = Stops(program, "doif", {"endi", "else"}, cursor, Len(program))
  /\ BranchEnds(FALSE) = Stops(program, "doif", {"endi"}, cursor, Len(program))
<1>1. \A q : Count("enum", cursor + 1, q - 1) = Cardinality(Words(program, {"enum"}, cursor, q))
  BY DEF Count, Words, Op
<1>2. \A q : Count("next", cursor + 1, q - 1) = Cardinality(Words(program, {"next"}, cursor, q))
  BY DEF Count, Words, Op
<1>3. \A q : Count("doif", cursor + 1, q - 1) = Cardinality(Words(program, {"doif"}, cursor, q))
  BY DEF Count, Words, Op
<1>4. \A q : Count("endi", cursor + 1, q - 1) = Cardinality(Words(program, {"endi"}, cursor, q))
  BY DEF Count, Words, Op
<1>5. Endings("enum") = {"next"} /\ Endings("doif") = {"endi"}
  BY EndingsAre
<1> QED  BY <1>1, <1>2, <1>3, <1>4, <1>5 DEF NextAfter, BranchEnds, Stops, Level, Op

LEMMA FitLand ==
  ASSUME CaosTyped, NEW mate, Fitting(mate), NEW f, Landing(program, mate, cursor, f),
         cursor \in 1 .. Len(program), UNCHANGED frames, cursor' = f + 1
  PROVE  Landed(mate)
<1>1. Len(frames) \in Nat /\ Len(program) \in Nat
  BY StackLength, ProgramText DEF CaosTyped, CaosTypeOK
<1>2. /\ f \in cursor + 1 .. Len(program) /\ NoLabel(program, cursor, f)
      /\ Around(program, mate, f + 1) = Around(program, mate, cursor)
  BY DEF Landing
<1>3. PICK t : t = f + 1
  OBVIOUS
<1>4. cursor \in Nat \ {0} /\ t \in Nat /\ cursor < t /\ t - 1 = f
  BY <1>1, <1>2, <1>3
<1>5. Fits(program, mate, frames, Len(frames), t)
  <2>1. Fits(program, mate, frames, Len(frames), cursor)
    BY DEF Fitting
  <2>2. NoLabel(program, cursor, t - 1) /\ Around(program, mate, t) = Around(program, mate, cursor)
    BY <1>2, <1>3, <1>4
  <2> QED  BY <1>1, <1>4, <2>1, <2>2, FitsMove
<1> QED  BY <1>3, <1>5 DEF Landed

LEMMA BranchFits ==
  ASSUME CaosTyped, NEW mate, Fitting(mate), Branch, UNCHANGED frames
  PROVE  Landed(mate)
<1>1. ASSUME NEW op, At(op)
      PROVE  cursor \in 1 .. Len(program) /\ Now.op = op /\ program[cursor].op = op
  BY <1>1, AtIs, ProgramText DEF Op, CaosTyped, CaosTypeOK
<1>2. CASE (At("doif") \/ At("endi") \/ At("text")) /\ Goto(cursor + 1)
  BY <1>2, FitPlain DEF Goto, Repeats
<1>3. ASSUME NEW s \in BOOLEAN, BranchEnds(s) # {}
      PROVE  First(BranchEnds(s)) \in BranchEnds(s) /\ \A q \in BranchEnds(s) : First(BranchEnds(s)) <= q
  <2>1. BranchEnds(s) \subseteq cursor + 1 .. Len(program)
    BY DEF BranchEnds
  <2> QED  BY <1>3, <2>1, Scanned
<1>4. CASE At("doif") /\ LET ends == BranchEnds(Now.op = "doif")
                         IN  IF ends = {} THEN state' = "ended" /\ UNCHANGED cursor
                             ELSE Goto(First(ends) + 1) /\ GoOn
  <2>1. /\ BranchEnds(TRUE) = {} => state' = "ended"
        /\ BranchEnds(TRUE) # {} => cursor' = First(BranchEnds(TRUE)) + 1
    <3>1. (Now.op = "doif") = TRUE
      BY <1>1, <1>4
    <3> QED  BY <1>4, <3>1 DEF Goto
  <2>2. CASE BranchEnds(TRUE) = {}
    BY <2>1, <2>2 DEF Landed
  <2>3. CASE BranchEnds(TRUE) # {}
    <3>1. PICK f : f = First(BranchEnds(TRUE))
      OBVIOUS
    <3>2. f \in BranchEnds(TRUE) /\ \A q \in BranchEnds(TRUE) : f <= q
      BY <1>3, <2>3, <3>1
    <3>3. Landing(program, mate, cursor, f)
      BY <1>1, <1>4, <3>2, LevelIs, DoifLands DEF Fitting
    <3> QED  BY <1>1, <1>4, <2>1, <2>3, <3>1, <3>3, FitLand
  <2> QED  BY <2>2, <2>3
<1>5. CASE At("else") /\ LET ends == BranchEnds(Now.op = "doif")
                         IN  IF ends = {} THEN state' = "ended" /\ UNCHANGED cursor
                             ELSE Goto(First(ends) + 1) /\ GoOn
  <2>1. /\ BranchEnds(FALSE) = {} => state' = "ended"
        /\ BranchEnds(FALSE) # {} => cursor' = First(BranchEnds(FALSE)) + 1
    <3>1. (Now.op = "doif") = FALSE
      BY <1>1, <1>5
    <3> QED  BY <1>5, <3>1 DEF Goto
  <2>2. CASE BranchEnds(FALSE) = {}
    BY <2>1, <2>2 DEF Landed
  <2>3. CASE BranchEnds(FALSE) # {}
    <3>1. PICK f : f = First(BranchEnds(FALSE))
      OBVIOUS
    <3>2. f \in BranchEnds(FALSE) /\ \A q \in BranchEnds(FALSE) : f <= q
      BY <1>3, <2>3, <3>1
    <3>3. Landing(program, mate, cursor, f)
      BY <1>1, <1>5, <3>2, LevelIs, ElseLands DEF Fitting
    <3> QED  BY <1>1, <1>5, <2>1, <2>3, <3>1, <3>3, FitLand
  <2> QED  BY <2>2, <2>3
<1> QED  BY <1>2, <1>4, <1>5 DEF Branch

LEMMA EnumFits ==
  ASSUME CaosTyped, NEW mate, Fitting(mate), Enum
  PROVE  Landed(mate)
<1> DEFINE S == Begun
<1>1. At("enum") /\ cursor \in 1 .. Len(program) /\ program[cursor].op = "enum"
  BY AtIs, ProgramText DEF Enum, Op, CaosTyped, CaosTypeOK
<1>2. /\ \/ /\ S = {}
            /\ IF NextAfter = {} THEN state' = "ended" /\ UNCHANGED cursor
               ELSE Goto(First(NextAfter) + 1) /\ GoOn
            /\ UNCHANGED frames
         \/ /\ S # {} /\ Goto(cursor + 1)
            /\ Visit([below |-> frames, back |-> cursor + 1, seen |-> <<>>,
                      matches |-> Matching(Now.arg)], First(S))
         \/ state' = "ended"
  BY DEF Enum, Begun
<1>3. CASE /\ IF NextAfter = {} THEN state' = "ended" /\ UNCHANGED cursor
              ELSE Goto(First(NextAfter) + 1) /\ GoOn
           /\ UNCHANGED frames
  <2>1. NestedBy(program, mate, Len(program))
    BY DEF Fitting
  <2>2. NextAfter # {} /\ First(NextAfter) = mate[cursor]
    BY <1>1, <2>1, LevelIs, NextIs
  <2>3. cursor' = mate[cursor] + 1
    BY <1>3, <2>2 DEF Goto
  <2>4. cursor \in Begins(program)
    BY <1>1, <2>1, PairsAre DEF Begins
  <2>5. mate[cursor] \in cursor + 1 .. Len(program)
    BY <1>1, <2>1, <2>4, PairsAre
  <2>6. Landing(program, mate, cursor, mate[cursor])
    BY <2>1, <2>4, <2>5, AroundEnd, NoLabelIn DEF Landing
  <2> QED  BY <1>1, <1>3, <2>3, <2>6, FitLand
<1>4. CASE /\ S # {} /\ Goto(cursor + 1)
           /\ Visit([below |-> frames, back |-> cursor + 1, seen |-> <<>>,
                     matches |-> Matching(Now.arg)], First(S))
  <2> DEFINE f == [kind |-> "enum", back |-> cursor + 1, n |-> First(S) - 1, since |-> serial,
                   matches |-> Matching(Now.arg), seen |-> Append(<<>>, registry[First(S)])]
  <2>1. frames' = Append(frames, f) /\ cursor' = cursor + 1
    BY <1>4 DEF Visit, Goto
  <2>2. First(S) \in 1 .. Len(registry) /\ registry[First(S)] \in Objects
    <3>1. S \subseteq DOMAIN registry
      BY DEF Begun
    <3> QED  BY <1>4, <3>1, FoundIs
  <2>3. Matching(Now.arg) \subseteq Objects
    BY MatchingIs
  <2> HIDE DEF S
  <2>4. f \in StackFrame
    <3>1. First(S) - 1 \in Int /\ serial \in Int /\ cursor + 1 \in Nat
      BY <1>1, <2>2 DEF CaosTyped
    <3>2. Append(<<>>, registry[First(S)]) \in Seq(Objects)
      BY <2>2
    <3> QED  BY <2>3, <3>1, <3>2 DEF StackFrame
  <2>5. f.kind = "enum" /\ f.back = cursor + 1
    OBVIOUS
  <2> HIDE DEF f
  <2> QED  BY <1>1, <2>1, <2>4, <2>5, FitAppend DEF Repeats
<1>5. CASE state' = "ended"
  BY <1>5 DEF Landed
<1> QED  BY <1>2, <1>3, <1>4, <1>5

LEMMA NextFits ==
  ASSUME CaosTyped, NEW mate, Fitting(mate), NextObject
  PROVE  Landed(mate)
<1> DEFINE class == program[Newest.back - 1].arg
           after == IF Newest.since = NoSerial THEN Newest.n ELSE IndexAfter(Newest.n, Newest.since)
           S == FoundFrom(after, class)
<1>1. At("next") /\ Has("enum")
  BY DEF NextObject
<1>2. /\ frames # <<>> /\ Newest.kind = "enum" /\ Newest \in StackFrame
      /\ Newest.back \in 1 .. Len(program) + 1
  BY <1>1, HasIs
<1>3. Fits(program, mate, frames, Len(frames) - 1, cursor + 1) /\ Fits(program, mate, frames, Len(frames), Newest.back)
  BY <1>1, ClosersBegin
<1>4. CASE S = {}
  <2>1. frames' = Front(frames) /\ cursor' = cursor + 1
    BY <1>4 DEF NextObject, Goto, FoundFrom
  <2> QED  BY <1>2, <1>3, <2>1, FitPop
<1>5. CASE S # {}
  <2> DEFINE f == [kind |-> "enum", back |-> Newest.back, n |-> First(S) - 1, since |-> serial,
                   matches |-> Newest.matches, seen |-> Append(Newest.seen, registry[First(S)])]
  <2>1. frames' = Append(Front(frames), f) /\ cursor' = Newest.back
    BY <1>5 DEF NextObject, Visit, Goto, FoundFrom
  <2>2. First(S) \in 1 .. Len(registry) /\ registry[First(S)] \in Objects
    <3>1. S \subseteq DOMAIN registry
      BY DEF FoundFrom
    <3> HIDE DEF S
    <3> QED  BY <1>5, <3>1, FoundIs
  <2> HIDE DEF S
  <2>3. f \in StackFrame /\ f.kind = Newest.kind /\ f.back = Newest.back
    <3>1. Newest.seen \in Seq(Objects) /\ Newest.matches \subseteq Objects /\ Newest.back \in Nat
      BY <1>2 DEF StackFrame
    <3>2. First(S) - 1 \in Int /\ serial \in Int
      BY <2>2 DEF CaosTyped
    <3>3. Append(Newest.seen, registry[First(S)]) \in Seq(Objects)
      BY <2>2, <3>1
    <3> QED  BY <1>2, <3>1, <3>2, <3>3 DEF StackFrame
  <2> HIDE DEF f
  <2>4. Keeping(f)
    BY <1>2, <2>1, <2>3, RenewIs
  <2>5. Fits(program, mate, frames, Len(frames), cursor')
    BY <1>3, <2>1
  <2> QED  BY <2>4, <2>5, FitKeep
<1> QED  BY <1>4, <1>5

LEMMA BeginFits ==
  ASSUME CaosTyped, NEW mate, Fitting(mate), Begin
  PROVE  Landed(mate)
<1>1. ASSUME NEW k \in {"loop", "reps", "gsub"}, At(k), NEW n \in Int,
             Enter(Push(k, n, NoSerial, {}, <<>>)), NEW l \in 1 .. Len(program),
             \/ k \in Repeats /\ cursor' = cursor + 1
             \/ k = "gsub" /\ program[l].op = "subr" /\ cursor' = l + 1
      PROVE  Landed(mate)
  <2> DEFINE f == Push(k, n, NoSerial, {}, <<>>)
  <2>1. f = [kind |-> k, back |-> cursor + 1, n |-> n, since |-> -1, matches |-> {}, seen |-> <<>>]
    BY DEF Push, NoSerial
  <2>2. cursor \in Nat
    BY DEF CaosTyped, CaosTypeOK
  <2> HIDE DEF f
  <2>3. f \in StackFrame /\ f.kind = k /\ f.back = cursor + 1
    <3>1. -1 \in Int /\ {} \in SUBSET Objects /\ <<>> \in Seq(Objects)
      OBVIOUS
    <3>2. PICK c \in Nat : c = cursor + 1
      BY <2>2
    <3>3. k \in {"enum", "reps", "loop", "gsub"}
      OBVIOUS
    <3>4. [kind |-> k, back |-> c, n |-> n, since |-> -1, matches |-> {}, seen |-> <<>>] \in StackFrame
      BY <3>1, <3>3 DEF StackFrame
    <3> QED  BY <2>1, <3>2, <3>4
  <2>4. frames' = Append(frames, f) \/ state' = "ended"
    BY <1>1 DEF Enter, f
  <2> QED  BY <1>1, <2>3, <2>4, FitAppend DEF Landed
<1>2. ASSUME NEW op, At(op) PROVE cursor \in 1 .. Len(program) /\ program[cursor].op = op
  BY <1>2, AtIs, ProgramText DEF Op, CaosTyped, CaosTypeOK
<1>3. CASE At("loop") /\ Enter(Push("loop", 0, NoSerial, {}, <<>>)) /\ Goto(cursor + 1)
  BY <1>1, <1>2, <1>3 DEF Goto, Repeats
<1>4. CASE At("reps") /\ Enter(Push("reps", Now.arg, NoSerial, {}, <<>>)) /\ Goto(cursor + 1)
  <2>1. Now.arg \in Int
    <3>1. program \in Programs /\ cursor \in DOMAIN program /\ program[cursor].op = "reps"
      BY <1>4, AtIs DEF At, CaosTyped, CaosTypeOK
    <3> QED  BY <3>1, CaosScriptAssumption DEF Now
  <2> QED  BY <1>1, <1>2, <1>4, <2>1 DEF Goto, Repeats
<1>5. CASE At("gsub") /\ Labels # {} /\ Enter(Push("gsub", 0, NoSerial, {}, <<>>)) /\ Goto(First(Labels) + 1)
  <2>1. Len(program) \in Nat /\ Labels \subseteq 1 .. Len(program)
    BY ProgramText DEF Labels, CaosTyped, CaosTypeOK
  <2>2. Labels \subseteq Nat
    BY <2>1
  <2>3. First(Labels) \in Labels
    BY <1>5, <2>2, FirstIs
  <2>4. PICK l \in Labels : l = First(Labels)
    BY <2>3
  <2>5. program[l].op = "subr" /\ l \in 1 .. Len(program)
    BY <2>1 DEF Labels
  <2> QED  BY <1>1, <1>5, <2>4, <2>5 DEF Goto
<1>6. CASE Terminate
  BY <1>6 DEF Terminate, Landed
<1> QED  BY <1>3, <1>4, <1>5, <1>6 DEF Begin

LEMMA CloseFits ==
  ASSUME CaosTyped, NEW mate, Fitting(mate), Close
  PROVE  Landed(mate)
<1>1. ASSUME NEW op \in {"next", "untl", "ever", "repe"}, At(op)
      PROVE  /\ Fits(program, mate, frames, Len(frames) - 1, cursor + 1)
             /\ Fits(program, mate, frames, Len(frames), Newest.back)
  BY <1>1, ClosersBegin
<1>2. ASSUME NEW op \in {"next", "untl", "ever", "repe"}, At(op), frames # <<>>,
             frames' = Front(frames), cursor' = cursor + 1
      PROVE  Landed(mate)
  BY <1>1, <1>2, FitPop
<1>3. ASSUME NEW op \in {"next", "untl", "ever", "repe"}, At(op), UNCHANGED frames,
             cursor' = Newest.back
      PROVE  Landed(mate)
  BY <1>1, <1>3 DEF Landed
<1>4. CASE /\ At("untl") /\ Has("loop")
           /\ \/ frames' = Front(frames) /\ Goto(cursor + 1)
              \/ UNCHANGED frames /\ Goto(Newest.back)
  BY <1>2, <1>3, <1>4 DEF Has, Goto
<1>5. CASE At("ever") /\ Has("loop") /\ UNCHANGED frames /\ Goto(Newest.back)
  BY <1>3, <1>5 DEF Goto
<1>6. CASE /\ At("repe") /\ Has("reps")
           /\ IF Newest.n <= 1
              THEN frames' = Front(frames) /\ Goto(cursor + 1)
              ELSE frames' = [frames EXCEPT ![Len(frames)].n = @ - 1] /\ Goto(Newest.back)
  <2>1. frames # <<>>
    BY <1>6 DEF Has
  <2>2. CASE Newest.n <= 1
    BY <1>2, <1>6, <2>1, <2>2 DEF Goto
  <2>3. CASE ~(Newest.n <= 1)
    <3>1. Keeping([Newest EXCEPT !.n = @ - 1])
      BY <1>6, <2>1, <2>3, CountDown
    <3>2. Fits(program, mate, frames, Len(frames), cursor')
      BY <1>1, <1>6, <2>3 DEF Goto
    <3> QED  BY <3>1, <3>2, FitKeep
  <2> QED  BY <2>2, <2>3
<1>7. CASE At("retn") /\ Has("gsub") /\ frames' = Front(frames) /\ Goto(Newest.back)
  BY <1>7, ReturnBegins, FitPop DEF Has, Goto
<1> QED  BY <1>4, <1>5, <1>6, <1>7 DEF Close

MateOf(p) == CHOOSE mate \in [Begins(p) -> Finishes(p)] : Pairs(p, mate)
\* The invariant: the frames are those of the constructs around the cursor.
ConstructsNest ==
  /\ CaosTyped
  /\ program \in Nested /\ state \in {"out", "in"} =>
       Fits(program, MateOf(program), frames, Len(frames), cursor)

LEMMA MateIs ==
  ASSUME program \in Nested
  PROVE  NestedBy(program, MateOf(program), Len(program))
<1>1. \E mate \in [Begins(program) -> Finishes(program)] : Pairs(program, mate)
  BY DEF Nested
<1>2. MateOf(program) \in [Begins(program) -> Finishes(program)] /\ Pairs(program, MateOf(program))
  BY <1>1 DEF MateOf
<1>3. Len(program) \in Nat /\ DOMAIN program = 1 .. Len(program)
  BY ProgramText DEF Nested
<1> QED  BY <1>2, <1>3 DEF NestedBy

LEMMA CommandFits ==
  ASSUME CaosTyped, NEW mate, Fitting(mate), Command
  PROVE  Landed(mate)
<1>1. CASE Enum
  BY <1>1, EnumFits
<1>2. CASE NextObject
  BY <1>2, NextFits
<1>3. CASE Branch /\ UNCHANGED frames
  BY <1>3, BranchFits
<1>4. CASE Begin
  BY <1>4, BeginFits
<1>5. CASE Close
  BY <1>5, CloseFits
<1>6. ASSUME NEW op \in {"wait", "over", "kill", "inst"}, At(op), UNCHANGED frames,
             cursor' = cursor + 1 \/ UNCHANGED cursor
      PROVE  Landed(mate)
  BY <1>6, FitPlain, FitStay DEF Repeats
<1>7. CASE Wait /\ UNCHANGED frames
  BY <1>6, <1>7 DEF Wait, Goto
<1>8. CASE Over /\ UNCHANGED frames
  BY <1>6, <1>8 DEF Over, Goto
<1>9. CASE KillTarget /\ UNCHANGED frames
  BY <1>6, <1>9 DEF KillTarget, Goto
<1>10. CASE Instantiate /\ UNCHANGED frames
  BY <1>6, <1>10 DEF Instantiate, Goto
<1>11. CASE Terminate \/ Crossed
  BY <1>11 DEF Terminate, Crossed, Landed
<1> QED
  <2>1. \/ Enum \/ NextObject \/ (Branch /\ UNCHANGED frames) \/ Begin \/ Close
        \/ (Wait /\ UNCHANGED frames) \/ (Over /\ UNCHANGED frames) \/ (KillTarget /\ UNCHANGED frames)
        \/ (Instantiate /\ UNCHANGED frames) \/ Terminate \/ Crossed
    BY DEF Command
  <2> QED  BY <1>1, <1>2, <1>3, <1>4, <1>5, <1>7, <1>8, <1>9, <1>10, <1>11, <2>1

LEMMA FitsBegun ==
  ASSUME NEW p, NEW mate, NEW n, NestedBy(p, mate, n)
  PROVE  Fits(p, mate, <<>>, 0, 1)
<1>1. Around(p, mate, 1) = {}
  <2>1. \A b \in Begins(p) : ~(b < 1)
    BY PairsAre
  <2> QED  BY <2>1 DEF Around
<1>2. NoLabel(p, 1, 1 - 1)
  BY DEF NoLabel
<1> QED  BY <1>1, <1>2 DEF Fits, FitsAt

LEMMA OutsideFits ==
  ASSUME CaosTyped, NEW mate, NestedBy(program, mate, Len(program)),
         state \in {"out", "in"} => Fits(program, mate, frames, Len(frames), cursor),
         Turn \/ Event \/ Between \/ Reload \/ UNCHANGED caosVars
  PROVE  Landed(mate)
<1>1. CASE UNCHANGED <<frames, cursor>> /\ (state \in {"out", "in"} \/ UNCHANGED state)
  BY <1>1 DEF Landed
<1>2. CASE Event
  <2>1. frames' = <<>> /\ cursor' = 1
    BY <1>2 DEF Event
  <2>2. Len(<<>>) = 0
    OBVIOUS
  <2> QED  BY <2>1, <2>2, FitsBegun DEF Landed
<1>3. CASE Reload
  <2>1. Unserialled(frames, frames') /\ cursor' = cursor /\ state = "out"
    BY <1>3, ReloadStack DEF Reload
  <2>2. PICK r : r = frames'
    OBVIOUS
  <2>3. Len(r) = Len(frames) /\ Alike(frames, r, Len(frames))
    BY <2>1, <2>2 DEF Unserialled, Alike
  <2>4. Fits(program, mate, r, Len(frames), cursor)
    BY <2>1, <2>3, StackLength, FitsLike
  <2> QED  BY <2>1, <2>2, <2>3, <2>4 DEF Landed
<1>4. ASSUME Turn \/ Between \/ UNCHANGED caosVars
      PROVE  UNCHANGED <<frames, cursor>> /\ (state \in {"out", "in"} \/ UNCHANGED state)
  BY <1>4 DEF Turn, Between, script, caosVars
<1> QED  BY <1>1, <1>2, <1>3, <1>4

LEMMA NestStep == ConstructsNest /\ [CaosNext]_caosVars => ConstructsNest'
<1> SUFFICES ASSUME ConstructsNest, [CaosNext]_caosVars PROVE ConstructsNest'
  OBVIOUS
<1>1. CaosTyped /\ CaosTyped'
  BY TypedStep DEF ConstructsNest
<1>2. program' = program
  BY DEF CaosNext, caosVars, Command, Enum, NextObject, Crossed, Turn, Event, Between, Reload, script
<1>3. ASSUME program \in Nested, state' \in {"out", "in"}
      PROVE  Fits(program, MateOf(program), frames', Len(frames'), cursor')
  <2>1. PICK mate : mate = MateOf(program)
    OBVIOUS
  <2>2. NestedBy(program, mate, Len(program))
    BY <1>3, <2>1, MateIs
  <2>3. state \in {"out", "in"} => Fits(program, mate, frames, Len(frames), cursor)
    BY <1>3, <2>1 DEF ConstructsNest
  <2>4. CASE Command
    <3>1. state = "in"
      BY <2>4 DEF Command, Enum, NextObject, Branch, Begin, Close, Wait, Over, KillTarget,
                  Instantiate, Stop, Crossed, At
    <3>2. Landed(mate)
      BY <1>1, <2>2, <2>3, <2>4, <3>1, CommandFits DEF Fitting
    <3> QED  BY <1>3, <2>1, <3>2 DEF Landed
  <2>5. CASE Turn \/ Event \/ Between \/ Reload \/ UNCHANGED caosVars
    <3>1. Landed(mate)
      BY <1>1, <2>2, <2>3, <2>5, OutsideFits
    <3> QED  BY <1>3, <2>1, <3>1 DEF Landed
  <2> QED  BY <2>4, <2>5 DEF CaosNext
<1>4. PICK p : p = program
  OBVIOUS
<1>5. PICK mate : mate = MateOf(p)
  OBVIOUS
<1>6. p \in Nested /\ state' \in {"out", "in"} => Fits(p, mate, frames', Len(frames'), cursor')
  BY <1>3, <1>4, <1>5
<1>7. program' = p
  BY <1>2, <1>4
<1> QED  BY <1>1, <1>5, <1>6, <1>7 DEF ConstructsNest

LEMMA NestInit == CaosInit => ConstructsNest
<1> SUFFICES ASSUME CaosInit PROVE ConstructsNest
  OBVIOUS
<1>1. CaosTyped /\ frames = <<>> /\ cursor = 1
  BY TypedInit DEF CaosInit
<1>2. ASSUME program \in Nested PROVE Fits(program, MateOf(program), <<>>, 0, 1)
  BY <1>2, MateIs, FitsBegun
<1>3. Len(<<>>) = 0
  OBVIOUS
<1> QED  BY <1>1, <1>2, <1>3 DEF ConstructsNest

\* Between the begin and the end of a construct as many begin as end.
LEMMA CountedOut ==
  ASSUME program \in Nested, NEW mate, NestedBy(program, mate, Len(program)),
         NEW b \in Begins(program), mate[b] = cursor, NEW kind \in {"enum", "loop", "reps"},
         program[b].op = kind
  PROVE  CountIn({kind}, b, cursor) = CountIn(Ends(kind), b, cursor)
<1> DEFINE from == b - 1
           to == cursor + 1
<1>1. b \in 1 .. Len(program) /\ cursor \in 1 .. Len(program) /\ b < cursor /\ Len(program) \in Nat
  BY PairsAre
<1>2. Closed(program, mate, kind, from, to)
  BY ClosedIn
<1>3. from \in Nat /\ to \in 0 .. Len(program) + 1 /\ to \in from + 1 .. to /\ kind \in {"enum", "loop", "reps", "doif"}
  BY <1>1
<1>4. from + 1 = b /\ to - 1 = cursor
  BY <1>1
<1> HIDE DEF from, to
<1>5. Level(program, kind, from, to)
  BY <1>2, <1>3, ScanIs
<1>6. Endings(kind) = Ends(kind)
  BY DEF Endings
<1>7. \A ops : CountIn(ops, b, cursor) = Cardinality(Words(program, ops, from, to))
  BY <1>4 DEF CountIn, Words, Op
<1> QED  BY <1>5, <1>6, <1>7 DEF Level

LEMMA NestCrosses == ConstructsNest => NeverCrossed
<1> SUFFICES ASSUME ConstructsNest, program \in Nested, NEW op \in Closers, At(op)
             PROVE  /\ Has(KindOf[op])
                    /\ KindOf[op] # "gsub" => CountIn({KindOf[op]}, Newest.back - 1, cursor)
                                               = CountIn(Ends(KindOf[op]), Newest.back - 1, cursor)
  BY DEF NeverCrossed
<1>1. CaosTyped /\ state = "in"
  BY DEF ConstructsNest, At
<1>2. PICK mate : mate = MateOf(program)
  OBVIOUS
<1>3. Fitting(mate)
  BY <1>1, <1>2, MateIs DEF ConstructsNest, Fitting
<1>4. CASE op = "retn"
  <2>1. Has("gsub")
    BY <1>1, <1>3, <1>4, ReturnBegins
  <2> QED  BY <1>4, <2>1, ClosersAre
<1>5. CASE op # "retn"
  <2>1. op \in {"next", "untl", "ever", "repe"}
    BY <1>5, ClosersAre
  <2>2. PICK b \in Begins(program) : mate[b] = cursor /\ program[b].op = KindOf[op]
                                     /\ Has(KindOf[op]) /\ Newest.back = b + 1
    BY <1>1, <1>3, <2>1, ClosersBegin
  <2>3. KindOf[op] \in {"enum", "loop", "reps"}
    BY <1>1, <1>3, <2>1, ClosersBegin DEF Repeats
  <2>4. NestedBy(program, mate, Len(program))
    BY <1>3 DEF Fitting
  <2>5. Newest.back - 1 = b
    BY <2>2, <2>4, PairsAre
  <2>6. CountIn({KindOf[op]}, b, cursor) = CountIn(Ends(KindOf[op]), b, cursor)
    BY <2>2, <2>3, <2>4, CountedOut
  <2> QED  BY <2>2, <2>5, <2>6
<1> QED  BY <1>4, <1>5

\* In a script whose constructs are nested every next, untl, ever, repe and retn
\* takes from the stack what its own enum, loop, reps or gsub put there, whatever
\* branches and bodies the scans of seek_next_command and scan_branch skip.
THEOREM ConstructsNeverCross == CaosSpec => []NeverCrossed
<1>1. CaosSpec => []ConstructsNest
  BY NestInit, NestStep, PTL DEF CaosSpec
<1> QED  BY <1>1, NestCrosses, PTL
=============================================================================
