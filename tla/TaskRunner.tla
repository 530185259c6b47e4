----------------------------- MODULE TaskRunner -----------------------------
(***************************************************************************)
(* What the bridge promises to the threads that use it, without its event  *)
(* queue: while it is open it accepts closures and runs them one at a      *)
(* time, in the order of acceptance; when it ends, the closures it still   *)
(* has are refused, all at once.  Each closure gets at most one answer.    *)
(* It is not to be used while it opens: a closure that comes too early is  *)
(* stranded, and the runner never listens to any other.                    *)
(***************************************************************************)
CONSTANT Closures

VARIABLES
    phase,      \* "unopened", "opening", "open", "deaf", "ended" or "dead" (the process died)
    precedes,   \* of the closures accepted and not yet run, which was accepted first
    answer      \* what the future of each closure holds

vars == <<phase, precedes, answer>>

Waiting == {c \in Closures : answer[c] = "pending"}

Init ==
    /\ phase = "unopened"
    /\ precedes = {}
    /\ answer = [c \in Closures |-> "none"]

Open ==
    /\ phase = "unopened"
    /\ phase' = "opening"
    /\ UNCHANGED <<precedes, answer>>

Listen ==
    /\ phase = "opening"
    /\ phase' = "open"
    /\ UNCHANGED <<precedes, answer>>

Accept(c) ==
    /\ phase = "open"
    /\ answer[c] = "none"
    /\ precedes' = precedes \cup (Waiting \X {c})
    /\ answer' = [answer EXCEPT ![c] = "pending"]
    /\ UNCHANGED phase

\* The first one too early strands itself and all that come after it.
Strand(c) ==
    /\ phase \in {"opening", "deaf"}
    /\ answer[c] = "none"
    /\ answer' = [answer EXCEPT ![c] = "stranded"]
    /\ phase' = "deaf"
    /\ UNCHANGED precedes

\* Before and after there is nobody to ask.
Refuse(c) ==
    /\ phase \in {"unopened", "ended"}
    /\ answer[c] = "none"
    /\ answer' = [answer EXCEPT ![c] = "thrown"]
    /\ UNCHANGED <<phase, precedes>>

\* A closure whose caller was let in before the end and is late.
Lose(c) ==
    /\ phase = "ended"
    /\ answer[c] = "none"
    /\ answer' = [answer EXCEPT ![c] = "lost"]
    /\ phase' \in {"ended", "dead"}
    /\ UNCHANGED precedes

\* The oldest one.
Run(c) ==
    /\ phase = "open"
    /\ c \in Waiting
    /\ \A d \in Waiting : <<d, c>> \notin precedes
    /\ \E outcome \in {"value", "exception"} : answer' = [answer EXCEPT ![c] = outcome]
    /\ precedes' = {pair \in precedes : pair[1] # c}
    /\ UNCHANGED phase

End ==
    /\ phase = "open"
    /\ phase' = "ended"
    /\ precedes' = {}
    /\ answer' = [c \in Closures |-> IF answer[c] = "pending" THEN "broken" ELSE answer[c]]

Die ==
    /\ phase \in {"open", "deaf"}
    /\ phase' = "dead"
    /\ UNCHANGED <<precedes, answer>>

Next ==
    \/ \E c \in Closures : Accept(c) \/ Strand(c) \/ Refuse(c) \/ Lose(c) \/ Run(c)
    \/ Open \/ Listen \/ End \/ Die

Spec == Init /\ [][Next]_vars

=============================================================================
