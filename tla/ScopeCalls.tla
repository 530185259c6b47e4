----------------------------- MODULE ScopeCalls -----------------------------
(***************************************************************************)
(* The calls of the click scope that cross the Qt bridge, from their first *)
(* line to their return.  The runtime's threads call search(), preview()   *)
(* and perform_action() (scope/clickapps/apps-scope.cpp); a preview of an  *)
(* installed package and a confirmed uninstall hand the Qt thread a        *)
(* closure that starts a child process, and block on a promise that lives  *)
(* in their own stack frame; the slots of the child's signals, run by the  *)
(* Qt thread, set that promise through a reference.                        *)
(*                                                                         *)
(* The bridge is QtBridge, whose actions are conjuncts of those below.     *)
(***************************************************************************)
EXTENDS Naturals, Sequences

CONSTANTS
    Searches, Previews, Activations, Stops, \* calls the runtime may make, each once
    LonelyResults,  \* the activations of a result with "lonely_result" set
    Quit

Calls == Searches \cup Previews \cup Activations
Crossing == Previews \cup Activations

ASSUME CallsAssumption ==
    /\ Searches \cap Crossing = {}
    /\ Previews \cap Activations = {}
    /\ Crossing \cap Stops = {}
    /\ LonelyResults \subseteq Activations
    /\ Quit \notin Crossing \cup Stops

VARIABLES
    world, handler, posted, handled, entering, future,  \* those of the bridge
    unshared,   \* which futures of Scope::run no call has moved out with share()
    holds,      \* the queries that got a valid shared future
    pc,         \* where each call is
    promise,    \* the promise in the frame of each call
    child,      \* the child process each call started
    signalled,  \* the calls whose child's end the loop has begun to deliver
    slots,      \* what the slots being run have still to do, oldest first
    reply,      \* what an activation answered
    invalidated \* the uninstalls that told the dash to refresh the scope

bridgeVars == <<world, handler, posted, handled, entering, future>>
callVars == <<unshared, holds, pc, promise, child, signalled, slots, reply, invalidated>>
vars == <<bridgeVars, callVars>>

Bridge == INSTANCE QtBridge WITH Tasks <- Crossing, Lockers <- Stops

\* "threw": enter_with_task threw through the call.
Stages == {"idle", "made", "running", "entering", "waiting", "done", "threw"}
Promises == {"none", "unset", "yes", "no", "dead"}
Endings == {"ok", "error", "failed", "crashed"}
Steps == {"yes", "no", "invalidate"}

TypeOK ==
    /\ Bridge!TypeOK
    /\ unshared \subseteq {"search", "preview"}
    /\ holds \subseteq Searches \cup Previews
    /\ pc \in [Calls -> Stages]
    /\ promise \in [Crossing -> Promises]
    /\ child \in [Crossing -> {"none", "running"} \cup Endings]
    /\ signalled \subseteq Crossing
    /\ slots \in Seq(Crossing \X Steps)
    /\ reply \in [Activations -> {"none", "search", "dash"}]
    /\ invalidated \subseteq Activations

Init ==
    /\ Bridge!Init
    /\ unshared = {"search", "preview"}
    /\ holds = {}
    /\ pc = [c \in Calls |-> "idle"]
    /\ promise = [c \in Crossing |-> "none"]
    /\ child = [c \in Crossing |-> "none"]
    /\ signalled = {}
    /\ slots = <<>>
    /\ reply = [a \in Activations |-> "none"]
    /\ invalidated = {}

Alive == world # "aborted"

\* Mutant: the callback is called before the handler is moved to the Qt thread.
ReadyWhenConstructed == world # "unbuilt"

\* The callback given to build_and_run() has set both qt_ready promises.
Ready == world \notin {"unbuilt", "constructed", "built"}

-----------------------------------------------------------------------------
(* The runtime creates queries and runs them.                              *)

\* share() leaves the member future invalid: the next query gets an empty one.
Make(c, which) ==
    /\ Alive
    /\ pc[c] = "idle"
    /\ pc' = [pc EXCEPT ![c] = "made"]
    /\ holds' = IF which \in unshared THEN holds \cup {c} ELSE holds
    /\ unshared' = unshared \ {which}
    /\ UNCHANGED <<bridgeVars, promise, child, signalled, slots, reply, invalidated>>

Search(s) == Make(s, "search")

Preview(p) == Make(p, "preview")

\* Mutant: run() does not wait for Qt.
StartRunAtOnce(c) ==
    /\ Alive
    /\ pc[c] = "made"
    /\ pc' = [pc EXCEPT ![c] = "running"]
    /\ UNCHANGED <<bridgeVars, unshared, holds, promise, child, signalled, slots, reply, invalidated>>

\* Query::run and Preview::run wait for Qt only if their future is valid.
StartRun(c) ==
    /\ Alive
    /\ pc[c] = "made"
    /\ c \in holds => Ready
    /\ pc' = [pc EXCEPT ![c] = "running"]
    /\ UNCHANGED <<bridgeVars, unshared, holds, promise, child, signalled, slots, reply, invalidated>>

\* perform_action() with the confirmation, then activate(): no wait for Qt.
Activate(a) ==
    /\ Alive
    /\ pc[a] = "idle"
    /\ pc' = [pc EXCEPT ![a] = "running"]
    /\ UNCHANGED <<bridgeVars, unshared, holds, promise, child, signalled, slots, reply, invalidated>>

\* A search, and a preview of anything but a named installed package, ends
\* without crossing the bridge.
Finish(c) ==
    /\ Alive
    /\ pc[c] = "running"
    /\ pc' = [pc EXCEPT ![c] = "done"]
    /\ UNCHANGED <<bridgeVars, unshared, holds, promise, child, signalled, slots, reply, invalidated>>

-----------------------------------------------------------------------------
(* A call crosses the bridge and blocks.                                   *)

CallEnter(c) ==
    /\ pc[c] = "running"
    /\ Bridge!CheckInstance(c)
    /\ IF Bridge!InstanceExists
       THEN /\ pc' = [pc EXCEPT ![c] = "entering"]
            /\ promise' = [promise EXCEPT ![c] = "unset"]
       ELSE /\ pc' = [pc EXCEPT ![c] = "threw"]
            /\ promise' = [promise EXCEPT ![c] = "dead"]
    /\ UNCHANGED <<unshared, holds, child, signalled, slots, reply, invalidated>>

CallPost(c) ==
    /\ Bridge!PostEvent(c) \/ Bridge!PostToDead(c)
    /\ pc' = [pc EXCEPT ![c] = "waiting"]
    /\ UNCHANGED <<unshared, holds, promise, child, signalled, slots, reply, invalidated>>

\* Mutant: the call waits with a timeout.
ReturnOnTimeout(c) ==
    /\ Alive
    /\ pc[c] = "waiting"
    /\ pc' = [pc EXCEPT ![c] = "done"]
    /\ promise' = [promise EXCEPT ![c] = "dead"]
    /\ reply' = [a \in Activations |->
            IF a # c THEN reply[a]
            ELSE IF promise[a] = "yes" /\ a \in LonelyResults THEN "search" ELSE "dash"]
    /\ UNCHANGED <<bridgeVars, unshared, holds, child, signalled, slots, invalidated>>

\* Mutant: the reply depends on the result alone.
ReturnWhateverCame(c) ==
    /\ Alive
    /\ pc[c] = "waiting"
    /\ promise[c] \in {"yes", "no"}
    /\ pc' = [pc EXCEPT ![c] = "done"]
    /\ promise' = [promise EXCEPT ![c] = "dead"]
    /\ reply' = [a \in Activations |->
            IF a # c THEN reply[a] ELSE IF a \in LonelyResults THEN "search" ELSE "dash"]
    /\ UNCHANGED <<bridgeVars, unshared, holds, child, signalled, slots, invalidated>>

\* get() returns; an activation looks at the outcome and at its result.
Return(c) ==
    /\ Alive
    /\ pc[c] = "waiting"
    /\ promise[c] \in {"yes", "no"}
    /\ pc' = [pc EXCEPT ![c] = "done"]
    /\ promise' = [promise EXCEPT ![c] = "dead"]
    /\ reply' = [a \in Activations |->
            IF a # c THEN reply[a]
            ELSE IF promise[a] = "yes" /\ a \in LonelyResults THEN "search" ELSE "dash"]
    /\ UNCHANGED <<bridgeVars, unshared, holds, child, signalled, slots, invalidated>>

-----------------------------------------------------------------------------
(* The Qt thread.  It is in a slot while `slots' is not empty.             *)

BetweenSlots == slots = <<>>

RunClosure(c) ==
    /\ BetweenSlots
    /\ Bridge!HandleTask(c, "value")
    /\ child' = [child EXCEPT ![c] = "running"]
    /\ UNCHANGED <<unshared, holds, pc, promise, signalled, slots, reply, invalidated>>

\* "failed" is FailedToStart; "error" an exit with another code than 0.
ChildEnds(c, ending) ==
    /\ Alive
    /\ child[c] = "running"
    /\ child' = [child EXCEPT ![c] = ending]
    /\ UNCHANGED <<bridgeVars, unshared, holds, pc, promise, signalled, slots, reply, invalidated>>

\* Mutant: a child with an exit code is reported from error() too.
SlotStepsTwice(c, found) ==
    CASE child[c] \in {"crashed", "error"} -> <<<<c, "no">>, <<c, "no">>>>
      [] child[c] = "failed" -> <<<<c, "no">>>>
      [] child[c] = "ok" /\ c \in Activations -> <<<<c, "yes">>, <<c, "invalidate">>>>
      [] OTHER -> <<<<c, IF found THEN "yes" ELSE "no">>>>

\* Mutant: error() is not connected.
SlotStepsFinishedOnly(c, found) ==
    CASE child[c] \in {"crashed", "error"} -> <<<<c, "no">>>>
      [] child[c] = "failed" -> <<>>
      [] child[c] = "ok" /\ c \in Activations -> <<<<c, "yes">>, <<c, "invalidate">>>>
      [] OTHER -> <<<<c, IF found THEN "yes" ELSE "no">>>>

\* Mutant: success does not refresh the scope.
SlotStepsNoRefresh(c, found) ==
    CASE child[c] = "crashed" -> <<<<c, "no">>, <<c, "no">>>>
      [] child[c] \in {"error", "failed"} -> <<<<c, "no">>>>
      [] OTHER -> <<<<c, IF found THEN "yes" ELSE "no">>>>

\* Mutant: every command that succeeds refreshes the scope.
SlotStepsRefreshAlways(c, found) ==
    CASE child[c] = "crashed" -> <<<<c, "no">>, <<c, "no">>>>
      [] child[c] \in {"error", "failed"} -> <<<<c, "no">>>>
      [] OTHER -> <<<<c, IF found THEN "yes" ELSE "no">>, <<c, "invalidate">>>>

\* What the slots connected to finished() and error() do: both signals come
\* for a crash, only error() for a program that could not be started.
SlotSteps(c, found) ==
    CASE child[c] = "crashed" -> <<<<c, "no">>, <<c, "no">>>>
      [] child[c] \in {"error", "failed"} -> <<<<c, "no">>>>
      [] child[c] = "ok" /\ c \in Activations -> <<<<c, "yes">>, <<c, "invalidate">>>>
      [] OTHER -> <<<<c, IF found THEN "yes" ELSE "no">>>>

\* `found': the output of "click info" can be parsed.
Signal(c, found) ==
    /\ Bridge!InLoop
    /\ BetweenSlots
    /\ child[c] \in Endings
    /\ c \notin signalled
    /\ signalled' = signalled \cup {c}
    /\ slots' = SlotSteps(c, found)
    /\ UNCHANGED <<bridgeVars, unshared, holds, pc, promise, child, reply, invalidated>>

InCallback(c) ==
    /\ Alive
    /\ slots # <<>>
    /\ Head(slots)[1] = c
    /\ Head(slots)[2] # "invalidate"

SetPromise(c) ==
    /\ InCallback(c)
    /\ promise[c] = "unset"
    /\ promise' = [promise EXCEPT ![c] = Head(slots)[2]]
    /\ slots' = Tail(slots)
    /\ UNCHANGED <<bridgeVars, unshared, holds, pc, child, signalled, reply, invalidated>>

\* set_value on a set promise throws out of the slot; on a promise whose frame
\* is gone it is undefined: it may do the same.
CallbackAborts(c) ==
    /\ InCallback(c)
    /\ promise[c] # "unset"
    /\ Bridge!Abort
    /\ UNCHANGED callVars

\* ... or it writes where nobody looks any more.
CallbackDangles(c) ==
    /\ InCallback(c)
    /\ promise[c] = "dead"
    /\ slots' = Tail(slots)
    /\ UNCHANGED <<bridgeVars, unshared, holds, pc, promise, child, signalled, reply, invalidated>>

\* The loop stands still while the refresh command runs.
Invalidate(c) ==
    /\ Alive
    /\ slots # <<>>
    /\ Head(slots) = <<c, "invalidate">>
    /\ invalidated' = invalidated \cup {c}
    /\ slots' = Tail(slots)
    /\ UNCHANGED <<bridgeVars, unshared, holds, pc, promise, child, signalled, reply>>

InSlot(c) == SetPromise(c) \/ CallbackAborts(c) \/ CallbackDangles(c) \/ Invalidate(c)

RunWorld ==
    /\ Bridge!ConstructApplication \/ Bridge!MoveHandler \/ Bridge!CallReady \/ Bridge!EnterLoop
    /\ UNCHANGED callVars

LoopStep ==
    /\ BetweenSlots
    /\ (\E l \in Stops : Bridge!HandleLocker(l)) \/ Bridge!HandleQuit \/ Bridge!LeaveLoop
    /\ UNCHANGED callVars

Teardown == Bridge!DestroyApplication /\ UNCHANGED callVars

Stop(l) == Bridge!Enter(l) /\ UNCHANGED callVars

-----------------------------------------------------------------------------
QtStep ==
    \/ \E c \in Crossing : RunClosure(c) \/ InSlot(c) \/ \E found \in BOOLEAN : Signal(c, found)
    \/ LoopStep

Next ==
    \/ \E s \in Searches : Search(s) \/ StartRun(s) \/ Finish(s)
    \/ \E p \in Previews : Preview(p) \/ StartRun(p) \/ Finish(p)
    \/ \E a \in Activations : Activate(a)
    \/ \E c \in Crossing : CallEnter(c) \/ CallPost(c) \/ Return(c)
    \/ \E c \in Crossing, ending \in Endings : ChildEnds(c, ending)
    \/ QtStep
    \/ RunWorld
    \/ Teardown
    \/ \E l \in Stops : Stop(l)

Spec == Init /\ [][Next]_vars

\* Threads inside a call and the Qt thread keep running, children end.  Nobody
\* has to make a call, or to stop the scope.
Fairness ==
    /\ WF_vars(RunWorld) /\ WF_vars(QtStep) /\ WF_vars(Teardown)
    /\ \A c \in Crossing :
        /\ WF_vars(CallPost(c)) /\ WF_vars(Return(c))
        /\ WF_vars(\E ending \in Endings : ChildEnds(c, ending))
    /\ \A l \in Stops : WF_vars((Bridge!PostEvent(l) \/ Bridge!PostToDead(l)) /\ UNCHANGED callVars)

FairSpec == Spec /\ Fairness

-----------------------------------------------------------------------------
\* A callback of c's child is still to be run, or its closure is.
CallbackDue(c) ==
    \/ future[c] = "pending"
    \/ child[c] # "none" /\ c \notin signalled
    \/ \E i \in 1..Len(slots) : slots[i][1] = c /\ slots[i][2] # "invalidate"

\* The callbacks of a child capture the promise in the frame of activate() or
\* InstalledPreview::run by reference (scope_activation.cpp:75-78,
\* preview.cpp:270-272).  Unless the child crashes, that frame is still there
\* and the promise unset for as long as such a callback can come.
FrameOutlivesCallbacks ==
    \A c \in Crossing :
        (CallbackDue(c) /\ child[c] # "crashed") => pc[c] = "waiting" /\ promise[c] = "unset"

\* The process dies in a callback only when a child crashed, which makes
\* QProcess emit both error() and finished() (index.cpp:63-78,
\* interface.cpp:611-627), or when an event was posted to a dead handler.
DeathHasACause ==
    world = "aborted" => \E c \in Crossing \cup Stops :
                            \/ c \in Crossing /\ child[c] = "crashed"
                            \/ future[c] = "lost"

\* "Return apps scope to root department if current department becomes empty
\* after an uninstall" (debian/changelog:58): an activation sends the dash back
\* to the scope exactly when its command succeeded and its result was the only
\* one of the department, whatever other calls and callbacks came between.
ReplyTellsOutcome ==
    \A a \in Activations :
        reply[a] # "none" => (reply[a] = "search" <=> child[a] = "ok" /\ a \in LonelyResults)

\* A preview that got the one valid future waits for Qt before its strategy
\* calls enter_with_task (preview.cpp:159-162): it can find no application
\* only when Qt has already been torn down.
HolderThrowsOnlyAfterTeardown ==
    \A p \in Previews \cap holds : pc[p] = "threw" => world \in {"gone", "aborted"}

\* A call strands the TaskHandler, and with it every call that waits for the Qt
\* thread, only by crossing the bridge while the application is constructed
\* (qtbridge.cpp:109, 131-140): never a preview that has waited for Qt
\* (preview.cpp:159-162), only one without the future, an activation, which does
\* not wait (scope_activation.cpp:75), or a stop() that early.
OnlyUnreadyCallsStrand ==
    handler = "stranded" => \E c \in (Crossing \ holds) \cup Stops : future[c] = "stranded"

\* What an activation's command has come to: the promise says it until its
\* frame is gone, then the child does.
Outcome(a) ==
    IF promise[a] \in {"yes", "no"} THEN promise[a]
    ELSE IF pc[a] # "done" THEN "none"
    ELSE IF child[a] = "ok" THEN "yes" ELSE "no"

\* How far its call has come.
Stage(a) ==
    CASE pc[a] = "idle" -> "idle"
      [] pc[a] = "done" -> "answered"
      [] pc[a] = "threw" -> "refused"
      [] OTHER -> "asked"

Service == INSTANCE UninstallService WITH
    Requests <- Activations,
    alive <- Alive,
    stage <- [a \in Activations |-> Stage(a)],
    outcome <- [a \in Activations |-> Outcome(a)],
    refreshed <- invalidated

\* The uninstalls, each with its thread, its closure, its child and its slots,
\* keep the promise of UninstallService: each is decided once by its own child,
\* answered from that decision and refreshed for once, in any interleaving.
ImplementsUninstallService == Service!Spec

\* "Wait for the qt main loop to be ready before allowing execution of search
\* or preview methods" (debian/changelog:99-100): no query is past its wait
\* before the Qt world has announced itself.
ReadyBeforeRun ==
    \A c \in Searches \cup Previews : pc[c] \notin {"idle", "made"} => Ready

\* The loop ended before it heard from the child of c, or before it ran c.
LeftBehind(c) == world \in {"left", "gone"} /\ c \notin signalled

\* A blocked call returns: the child ends, its signal reaches the loop and the
\* callback sets the promise the call waits for.  It blocks for ever only if the
\* process died, if the handler is stranded, or if the loop ended without it
\* (scope_activation.cpp:86, preview.cpp:283).
WaitersReleased ==
    \A c \in Crossing :
        pc[c] = "waiting" ~> (pc[c] = "done" \/ ~Alive \/ handler = "stranded" \/ LeftBehind(c))

\* An uninstall whose success has been reported also makes the dash refresh the
\* scope, unless the process dies first (index.cpp:68-71).
SuccessInvalidates ==
    \A a \in Activations : promise[a] = "yes" ~> a \in invalidated \/ world = "aborted"

\* "Destroys the Qt core world and quits its event loop" (qtbridge.h:45): once
\* the closure of a stop() has run, the loop ends whatever other calls do.
StopEndsWorld ==
    \A l \in Stops : future[l] = "value" ~> world \in {"gone", "aborted"}

=============================================================================
