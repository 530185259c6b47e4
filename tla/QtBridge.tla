------------------------------ MODULE QtBridge ------------------------------
(***************************************************************************)
(* The bridge between the threads of the scopes runtime and the one thread *)
(* that runs the Qt event loop (libclickscope/click/qtbridge.cpp).  A      *)
(* thread hands a closure to enter_with_task(), which posts it as an event *)
(* of the QCoreApplication; build_and_run() creates the application, moves *)
(* the TaskHandler to its thread, calls ready() and runs the loop;         *)
(* destroy() posts a closure whose QEventLoopLocker makes Qt post a Quit   *)
(* event when it goes out of scope.                                        *)
(*                                                                         *)
(* The TaskHandler is a static object of task_handler(): whichever thread  *)
(* comes first creates it, and its events are handled in that thread.      *)
(*                                                                         *)
(* Events are kept as an immutable sequence with the number handled so     *)
(* far: the Qt queue is what follows position `handled'.                   *)
(***************************************************************************)
EXTENDS Naturals, Sequences

CONSTANTS
    Tasks,      \* the closures client threads hand to enter_with_task
    Lockers,    \* the closures destroy() hands to it, one per call of destroy
    Quit        \* the QEvent::Quit that releasing the locker posts

ASSUME BridgeAssumption ==
    /\ Tasks \cap Lockers = {}
    /\ Quit \notin Tasks \cup Lockers

VARIABLES
    world,      \* how far build_and_run() has got
    handler,    \* the thread the TaskHandler lives in
    posted,     \* every event posted to the Qt thread so far, oldest first
    handled,    \* how many of them the loop has handled
    entering,   \* closures whose enter_with_task has seen an application but not posted
    future      \* what the future of enter_with_task holds, per closure

bridgeVars == <<world, handler, posted, handled, entering, future>>

Closures == Tasks \cup Lockers

\* "constructed": the constructor of QCoreApplication has set its instance.
Worlds == {"unbuilt", "constructed", "built", "announced", "exec", "quitting",
           "left", "gone", "aborted"}

\* "stranded": a client thread created it, which runs no event loop.
Handlers == {"none", "qt", "stranded"}

\* "thrown": enter_with_task threw; "broken": the event was deleted unhandled;
\* "lost": posted to a TaskHandler that no longer exists (undefined behaviour).
Settled == {"value", "exception", "broken", "thrown", "lost"}
\* "stranded": posted to a stranded handler, so that nobody handles or deletes it.
Futures == {"none", "pending", "stranded"} \cup Settled

TypeOK ==
    /\ world \in Worlds
    /\ handler \in Handlers
    /\ posted \in Seq(Closures \cup {Quit})
    /\ handled \in 0..Len(posted)
    /\ entering \subseteq Closures
    /\ future \in [Closures -> Futures]

Init ==
    /\ world = "unbuilt"
    /\ handler = "none"
    /\ posted = <<>>
    /\ handled = 0
    /\ entering = {}
    /\ future = [t \in Closures |-> "none"]

-----------------------------------------------------------------------------
(* enter_with_task(), run by any thread: the test of the instance and the  *)
(* posting of the event are two steps, for nothing locks the application.  *)

InstanceExists == world \notin {"unbuilt", "gone", "aborted"}

CheckInstance(t) ==
    /\ world # "aborted"
    /\ future[t] = "none"
    /\ t \notin entering
    /\ IF InstanceExists
       THEN entering' = entering \cup {t} /\ UNCHANGED future
       ELSE future' = [future EXCEPT ![t] = "thrown"] /\ UNCHANGED entering
    /\ UNCHANGED <<world, handler, posted, handled>>

\* Mutant: enter_with_task posts in front of what is queued.
PostEventFirst(t) ==
    /\ world \notin {"gone", "aborted"}
    /\ t \in entering
    /\ entering' = entering \ {t}
    /\ IF handler = "qt"
       THEN /\ posted' = SubSeq(posted, 1, handled) \o <<t>> \o SubSeq(posted, handled + 1, Len(posted))
            /\ future' = [future EXCEPT ![t] = "pending"]
            /\ UNCHANGED handler
       ELSE /\ handler' = "stranded"
            /\ future' = [future EXCEPT ![t] = "stranded"]
            /\ UNCHANGED posted
    /\ UNCHANGED <<world, handled>>

\* The event goes to the queue of the handler's thread.  Without a handler this
\* thread creates it and is its thread for good.
PostEvent(t) ==
    /\ world \notin {"gone", "aborted"}
    /\ t \in entering
    /\ entering' = entering \ {t}
    /\ IF handler = "qt"
       THEN /\ posted' = Append(posted, t)
            /\ future' = [future EXCEPT ![t] = "pending"]
            /\ UNCHANGED handler
       ELSE /\ handler' = "stranded"
            /\ future' = [future EXCEPT ![t] = "stranded"]
            /\ UNCHANGED posted
    /\ UNCHANGED <<world, handled>>

\* The application died between the test and the posting: task_handler() is a
\* dangling pointer.  The event is lost, or the process dies on it.
PostToDead(t) ==
    /\ world = "gone"
    /\ t \in entering
    /\ entering' = entering \ {t}
    /\ future' = [future EXCEPT ![t] = "lost"]
    /\ world' \in {"gone", "aborted"}
    /\ UNCHANGED <<handler, posted, handled>>

-----------------------------------------------------------------------------
(* build_and_run(), run by the Qt thread.                                  *)

\* From within its constructor on the application is seen by every thread.
ConstructApplication ==
    /\ world = "unbuilt"
    /\ world' = "constructed"
    /\ UNCHANGED <<handler, posted, handled, entering, future>>

\* task_handler() creates the handler here unless a client was first: a handler
\* of another thread has no parent, and moveToThread refuses to move it.
MoveHandler ==
    /\ world = "constructed"
    /\ world' = "built"
    /\ handler' = IF handler = "none" THEN "qt" ELSE handler
    /\ UNCHANGED <<posted, handled, entering, future>>

CallReady ==
    /\ world = "built"
    /\ world' = "announced"
    /\ UNCHANGED <<handler, posted, handled, entering, future>>

EnterLoop ==
    /\ world = "announced"
    /\ world' = "exec"
    /\ UNCHANGED <<handler, posted, handled, entering, future>>

InLoop == world \in {"exec", "quitting"}

NextEventIs(e) == handled < Len(posted) /\ posted[handled + 1] = e

\* TaskEvent::run() keeps the closure's exception for the future.
HandleTask(t, outcome) ==
    /\ InLoop
    /\ NextEventIs(t)
    /\ outcome \in {"value", "exception"}
    /\ handled' = handled + 1
    /\ future' = [future EXCEPT ![t] = outcome]
    /\ UNCHANGED <<world, handler, posted, entering>>

\* Mutant: destroy() calls quit() instead of relying on the locker.
HandleLockerQuitsAtOnce(l) ==
    /\ InLoop
    /\ NextEventIs(l)
    /\ handled' = handled + 1
    /\ future' = [future EXCEPT ![l] = "value"]
    /\ world' = "quitting"
    /\ UNCHANGED <<handler, posted, entering>>

\* Mutant: another locker is alive, so that releasing this one posts nothing.
HandleLockerWithoutQuit(l) ==
    /\ InLoop
    /\ NextEventIs(l)
    /\ handled' = handled + 1
    /\ future' = [future EXCEPT ![l] = "value"]
    /\ UNCHANGED <<world, handler, posted, entering>>

\* The locker is the last one: releasing it posts the Quit event.
HandleLocker(l) ==
    /\ InLoop
    /\ NextEventIs(l)
    /\ handled' = handled + 1
    /\ future' = [future EXCEPT ![l] = "value"]
    /\ posted' = Append(posted, Quit)
    /\ UNCHANGED <<world, handler, entering>>

HandleQuit ==
    /\ InLoop
    /\ NextEventIs(Quit)
    /\ handled' = handled + 1
    /\ world' = "quitting"
    /\ UNCHANGED <<handler, posted, entering, future>>

\* The pass over the posted events that met Quit ends with the last of them.
LeaveLoop ==
    /\ world = "quitting"
    /\ handled = Len(posted)
    /\ world' = "left"
    /\ UNCHANGED <<handler, posted, handled, entering, future>>

\* Mutant: the teardown forgets the events but not how many were handled.
DestroyApplicationForgetsEvents ==
    /\ world = "left"
    /\ world' = "gone"
    /\ posted' = <<>>
    /\ future' = [t \in Closures |-> IF future[t] = "pending" THEN "broken" ELSE future[t]]
    /\ UNCHANGED <<handler, handled, entering>>

\* Mutant: the teardown breaks every promise.
DestroyApplicationBreaksAll ==
    /\ world = "left"
    /\ world' = "gone"
    /\ future' = [t \in Closures |-> "broken"]
    /\ UNCHANGED <<handler, posted, handled, entering>>

\* Mutant: the teardown leaks the events and the promises in them.
DestroyApplicationLeaksEvents ==
    /\ world = "left"
    /\ world' = "gone"
    /\ UNCHANGED <<handler, posted, handled, entering, future>>

\* Deleting the application deletes the TaskHandler and its unhandled events.
DestroyApplication ==
    /\ world = "left"
    /\ world' = "gone"
    /\ future' = [t \in Closures |-> IF future[t] = "pending" THEN "broken" ELSE future[t]]
    /\ UNCHANGED <<handler, posted, handled, entering>>

\* An exception leaves a slot the loop called: nothing runs after that.
Abort ==
    /\ InLoop
    /\ world' = "aborted"
    /\ UNCHANGED <<handler, posted, handled, entering, future>>

-----------------------------------------------------------------------------
Enter(t) == CheckInstance(t) \/ PostEvent(t) \/ PostToDead(t)

RunTask(t) == \E outcome \in {"value", "exception"} : HandleTask(t, outcome)

Loop ==
    \/ \E t \in Tasks : RunTask(t)
    \/ \E l \in Lockers : HandleLocker(l)
    \/ HandleQuit
    \/ LeaveLoop

Next ==
    \/ \E t \in Closures : Enter(t)
    \/ ConstructApplication \/ MoveHandler \/ CallReady \/ EnterLoop
    \/ Loop
    \/ DestroyApplication
    \/ Abort

Spec == Init /\ [][Next]_bridgeVars

\* The Qt thread keeps running; a thread inside enter_with_task leaves it.
Fairness ==
    /\ WF_bridgeVars(ConstructApplication \/ MoveHandler \/ CallReady \/ EnterLoop)
    /\ WF_bridgeVars(Loop)
    /\ WF_bridgeVars(DestroyApplication)
    /\ \A t \in Closures : WF_bridgeVars(PostEvent(t) \/ PostToDead(t))

FairSpec == Spec /\ Fairness

-----------------------------------------------------------------------------
\* "We make sure that all tasks have completed before quitting the app"
\* (qtbridge.cpp:155): a closure whose event was deleted unhandled had been
\* posted behind the Quit event of some destroy(), never in front of it.
DroppedOnlyBehindQuit ==
    \A i \in 1..Len(posted) :
        (posted[i] \in Closures /\ future[posted[i]] = "broken")
            => \E j \in 1..(i - 1) : posted[j] = Quit

\* enter_with_task's future is settled once: neither a late handling of the
\* event nor the teardown of the application changes what it already holds.
SettledOnce ==
    [][\A t \in Closures : future[t] \in Settled => future'[t] = future[t]]_bridgeVars

Phase ==
    CASE world = "unbuilt" -> "unopened"
      [] world = "gone" -> "ended"
      [] world = "aborted" -> "dead"
      [] OTHER -> IF handler = "none" THEN "opening" ELSE IF handler = "qt" THEN "open" ELSE "deaf"

\* The order of the closures still in the queue, whatever stands between them.
Precedes ==
    {pair \in Closures \X Closures :
        /\ future[pair[1]] = "pending" /\ future[pair[2]] = "pending"
        /\ \E i, j \in (handled + 1)..Len(posted) : i < j /\ pair = <<posted[i], posted[j]>>}

Runner == INSTANCE TaskRunner WITH phase <- Phase, precedes <- Precedes, answer <- future

\* The bridge keeps the promise of TaskRunner: closures run one at a time, in
\* the order in which enter_with_task accepted them, whatever Quit events stand
\* between them, and the teardown refuses all the others together; unless one is
\* accepted before the handler is in the Qt thread (qtbridge.cpp:139), after
\* which none ever runs or is refused.
ImplementsTaskRunner == Runner!Spec

\* A closure that enter_with_task accepted gets an answer: it runs, or its future
\* is broken by the teardown, unless the process itself dies or the handler was
\* created by a client thread while the application was being constructed
\* (qtbridge.cpp:109, 139).
PostedIsAnswered ==
    \A t \in Closures :
        (future[t] \in {"pending", "stranded"})
            ~> (future[t] \in Settled \/ world = "aborted" \/ handler = "stranded")

=============================================================================
