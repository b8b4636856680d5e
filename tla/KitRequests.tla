------------------------------ MODULE KitRequests ------------------------------
(***************************************************************************)
(* What the game promises a kit about the commands it writes to the pipe   *)
(* SFC_OLE, without threads, events or messages: a command is run at most  *)
(* once, only while the server is open, and to its end before it is        *)
(* answered "OK"; a refused one is never run; an error says nothing more.  *)
(***************************************************************************)
EXTENDS Naturals

CONSTANT MaxRequests
Request == 1..MaxRequests

VARIABLES sent,      \* the commands written are 1..sent
          progress,  \* how far the game got with each command
          verdict,   \* what the kit was told
          open       \* the server runs commands

vars == <<sent, progress, verdict, open>>

Init == /\ sent = 0
        /\ progress = [n \in Request |-> "new"]
        /\ verdict = [n \in Request |-> "none"]
        /\ open = TRUE

Send == /\ sent < MaxRequests
        /\ sent' = sent + 1
        /\ UNCHANGED <<progress, verdict, open>>

Run(n) == /\ open /\ n <= sent
          /\ progress[n] = "new" /\ verdict[n] # "refused"
          /\ progress' = [progress EXCEPT ![n] = "running"]
          /\ UNCHANGED <<sent, verdict, open>>

End(n) == /\ open /\ progress[n] = "running"
          /\ progress' = [progress EXCEPT ![n] = "done"]
          /\ UNCHANGED <<sent, verdict, open>>

Tell(n, what) == /\ n <= sent /\ verdict[n] = "none"
                 /\ verdict' = [verdict EXCEPT ![n] = what]
                 /\ UNCHANGED <<sent, progress, open>>

Answer(n) == progress[n] = "done" /\ Tell(n, "ok")
Refuse(n) == progress[n] = "new" /\ Tell(n, "refused")
GiveUp(n) == Tell(n, "error")

Close == /\ open /\ \A n \in Request : progress[n] # "running"
         /\ open' = FALSE
         /\ UNCHANGED <<sent, progress, verdict>>

Next == Send \/ Close
        \/ \E n \in Request : Run(n) \/ End(n) \/ Answer(n) \/ Refuse(n)
                              \/ GiveUp(n)
Spec == Init /\ [][Next]_vars
=============================================================================
