------------------------------ MODULE MCCaosScript ------------------------------
EXTENDS CaosScript
CONSTANTS norn, toy, egg

C(op) == [op |-> op, arg |-> ""]
A(op, arg) == [op |-> op, arg |-> arg]

\* enum .. kill targ, next; the last one kills the owner
McKills == <<A("enum", "creatures"), C("kill"), C("next"), A("enum", "any"), C("kill"),
             C("next"), C("kill")>>
\* an enumeration that waits, with another inside that may find nothing
McNested == <<A("enum", "any"), A("wait", 2), A("enum", "creatures"), A("text", "next"),
              C("doif"), A("text", "else"), C("else"), C("over"), C("endi"), C("next"),
              C("next"), C("stop")>>
\* loops, subroutines and a wait
McLoops == <<C("loop"), C("over"), A("gsub", "wag"), C("untl"), A("reps", 2),
             A("wait", 3), C("repe"), C("inst"), A("wait", 2), C("stop"),
             A("subr", "wag"), C("doif"), A("gsub", "bark"), C("endi"), C("retn"),
             A("subr", "bark"), C("retn")>>
\* a subroutine that calls itself until the stack is full
McDeep == <<A("gsub", "deep"), C("stop"), A("subr", "deep"), A("reps", 2),
            A("gsub", "deep"), C("repe"), C("retn")>>
\* a loop for ever
McEver == <<C("loop"), A("wait", 1), C("ever")>>
\* the longest wait
McLongest == <<A("wait", 0), C("stop")>>
\* an end without its beginning
McUnopened == <<C("next")>>
\* a subroutine that is not there
McUnknown == <<A("gsub", "none")>>
McPrograms == {McKills, McNested, McLoops, McDeep, McEver, McLongest, McUnopened, McUnknown}
=============================================================================
