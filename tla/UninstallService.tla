-------------------------- MODULE UninstallService --------------------------
(***************************************************************************)
(* What a confirmed uninstall promises to the dash: a request is decided   *)
(* once, its one answer follows from that decision, and a success makes    *)
(* the dash refresh the scope at most once, before or after the answer.    *)
(* The service may stop (refusing requests) or die at any moment.          *)
(***************************************************************************)
CONSTANTS
    Requests,
    LonelyResults   \* those about the only result of their department

VARIABLES
    alive,
    stage,      \* of a request: "idle", "asked", "answered", "refused"
    outcome,    \* "none", "yes" or "no"
    reply,      \* "none", "search" (show the scope's root) or "dash"
    refreshed   \* the requests that made the dash refresh

vars == <<alive, stage, outcome, reply, refreshed>>

Init ==
    /\ alive = TRUE
    /\ stage = [r \in Requests |-> "idle"]
    /\ outcome = [r \in Requests |-> "none"]
    /\ reply = [r \in Requests |-> "none"]
    /\ refreshed = {}

Ask(r) ==
    /\ alive
    /\ stage[r] = "idle"
    /\ stage' = [stage EXCEPT ![r] = "asked"]
    /\ UNCHANGED <<alive, outcome, reply, refreshed>>

Refuse(r) ==
    /\ alive
    /\ stage[r] = "asked"
    /\ outcome[r] = "none"
    /\ stage' = [stage EXCEPT ![r] = "refused"]
    /\ UNCHANGED <<alive, outcome, reply, refreshed>>

Decide(r, verdict) ==
    /\ alive
    /\ stage[r] = "asked"
    /\ outcome[r] = "none"
    /\ outcome' = [outcome EXCEPT ![r] = verdict]
    /\ UNCHANGED <<alive, stage, reply, refreshed>>

Answer(r) ==
    /\ alive
    /\ stage[r] = "asked"
    /\ outcome[r] # "none"
    /\ stage' = [stage EXCEPT ![r] = "answered"]
    /\ reply' = [reply EXCEPT ![r] =
            IF outcome[r] = "yes" /\ r \in LonelyResults THEN "search" ELSE "dash"]
    /\ UNCHANGED <<alive, outcome, refreshed>>

Refresh(r) ==
    /\ alive
    /\ outcome[r] = "yes"
    /\ r \notin refreshed
    /\ refreshed' = refreshed \cup {r}
    /\ UNCHANGED <<alive, stage, outcome, reply>>

Die ==
    /\ alive
    /\ alive' = FALSE
    /\ UNCHANGED <<stage, outcome, reply, refreshed>>

Next ==
    \/ \E r \in Requests :
        \/ Ask(r) \/ Refuse(r) \/ Answer(r) \/ Refresh(r)
        \/ \E verdict \in {"yes", "no"} : Decide(r, verdict)
    \/ Die

Spec == Init /\ [][Next]_vars

=============================================================================
