-------------------------- MODULE ScopeCallsProofs --------------------------
(***************************************************************************)
(* Proofs about ScopeCalls for any number of calls: the bridge inside it   *)
(* behaves as QtBridge allows, no callback outlives the frame it writes    *)
(* into unless a child process crashed, and what the dash is told of an    *)
(* uninstall is what became of it.                                         *)
(***************************************************************************)
EXTENDS ScopeCalls, TLAPS

BP == INSTANCE QtBridgeProofs WITH Tasks <- Crossing, Lockers <- Stops

\* The constants of the bridge inside ScopeCalls satisfy its assumption.
LEMMA BridgeConstants == BP!BridgeAssumption
  BY CallsAssumption DEF BP!BridgeAssumption, Crossing

\* Every step of the calls is a step of the bridge, or leaves it alone.
LEMMA StepIsBridgeStep == [Next]_vars => [BP!Next]_(BP!bridgeVars)
<1> SUFFICES ASSUME Next, ~UNCHANGED bridgeVars
             PROVE  BP!Next
  BY DEF vars, bridgeVars, BP!bridgeVars
<1> USE DEF BP!Next, BP!Closures, BP!Enter, BP!RunTask, BP!Loop
<1>1. ASSUME NEW c \in Crossing, CallEnter(c) \/ CallPost(c) \/ RunClosure(c)
      PROVE  BP!Next
  <2>1. CASE CallEnter(c)
    BY <2>1 DEF CallEnter, Bridge!CheckInstance, BP!CheckInstance, Bridge!InstanceExists, BP!InstanceExists
  <2>2. CASE CallPost(c)
    BY <2>2 DEF CallPost, Bridge!PostEvent, BP!PostEvent, Bridge!PostToDead, BP!PostToDead
  <2>3. CASE RunClosure(c)
    BY <2>3 DEF RunClosure, Bridge!HandleTask, BP!HandleTask, Bridge!InLoop, BP!InLoop,
                Bridge!NextEventIs, BP!NextEventIs
  <2> QED BY <1>1, <2>1, <2>2, <2>3
<1>2. ASSUME NEW c \in Crossing, CallbackAborts(c)
      PROVE  BP!Next
  BY <1>2 DEF CallbackAborts, Bridge!Abort, BP!Abort, Bridge!InLoop, BP!InLoop
<1>3. CASE LoopStep
  BY <1>3 DEF LoopStep, Bridge!HandleLocker, BP!HandleLocker, Bridge!HandleQuit, BP!HandleQuit,
              Bridge!LeaveLoop, BP!LeaveLoop, Bridge!InLoop, BP!InLoop, Bridge!NextEventIs, BP!NextEventIs
<1>4. CASE RunWorld \/ Teardown
  BY <1>4 DEF RunWorld, Teardown, Bridge!ConstructApplication, BP!ConstructApplication,
              Bridge!MoveHandler, BP!MoveHandler, Bridge!CallReady,
              BP!CallReady, Bridge!EnterLoop, BP!EnterLoop, Bridge!DestroyApplication,
              BP!DestroyApplication, Bridge!Closures
<1>5. ASSUME NEW l \in Stops, Stop(l)
      PROVE  BP!Next
  BY <1>5 DEF Stop, Bridge!Enter, Bridge!CheckInstance, BP!CheckInstance, Bridge!InstanceExists,
              BP!InstanceExists, Bridge!PostEvent, BP!PostEvent, Bridge!PostToDead, BP!PostToDead
<1> QED
  BY <1>1, <1>2, <1>3, <1>4, <1>5
  DEF Next, QtStep, InSlot, Search, Preview, Make, StartRun, Finish, Activate, Return, ChildEnds,
      Signal, SetPromise, CallbackDangles, Invalidate

\* ScopeCalls implements QtBridge: its calls use the bridge only as the threads
\* of QtBridge may.
THEOREM ImplementsBridge == Spec => BP!Spec
<1>1. Init => BP!Init
  BY DEF Init, Bridge!Init, BP!Init, Bridge!Closures, BP!Closures
<1> QED BY <1>1, StepIsBridgeStep, PTL DEF Spec, BP!Spec

\* What QtBridgeProofs shows of the bridge holds of the one inside ScopeCalls.
LEMMA BridgeInvariance == Spec => []BP!IInv
  BY ImplementsBridge, BridgeConstants, BP!Invariance, PTL

-----------------------------------------------------------------------------
\* The variables of the calls keep their types.
CallTypes ==
    /\ pc \in [Calls -> Stages]
    /\ promise \in [Crossing -> Promises]
    /\ child \in [Crossing -> {"none", "running"} \cup Endings]
    /\ signalled \subseteq Crossing
    /\ slots \in Seq(Crossing \X Steps)

\* A call that has not crossed the bridge has no child and nothing posted.
NotCrossed(c) ==
    pc[c] \in {"idle", "made", "running", "threw"} => child[c] = "none" /\ future[c] \in {"none", "thrown"}

\* A call about to post its event has its promise ready.
AboutToPost(c) ==
    c \in entering => pc[c] = "entering" /\ promise[c] = "unset" /\ child[c] = "none"

\* An event still queued has its caller waiting.
EventHasCaller(c) ==
    future[c] = "pending" => pc[c] = "waiting" /\ promise[c] = "unset" /\ child[c] = "none"

\* So has a child whose end the loop has not looked at.
ChildHasCaller(c) ==
    child[c] # "none" /\ c \notin signalled => pc[c] = "waiting" /\ promise[c] = "unset"

Frames ==
    \A c \in Crossing :
        /\ NotCrossed(c) /\ AboutToPost(c) /\ EventHasCaller(c) /\ ChildHasCaller(c)
        /\ c \in signalled => child[c] \in Endings

\* Of a child that did not crash there is one callback, the first step of its slot.
SlotsInv ==
    \A i \in 1..Len(slots) :
        /\ slots[i][1] \in signalled
        /\ (slots[i][2] # "invalidate" /\ child[slots[i][1]] # "crashed")
            => i = 1 /\ pc[slots[i][1]] = "waiting" /\ promise[slots[i][1]] = "unset"

CallsInv == CallTypes /\ Frames /\ SlotsInv

\* No call has been made: the invariant holds.
LEMMA InitCallsInv == Init => CallsInv
  BY CallsAssumption
  DEF Init, Bridge!Init, Bridge!Closures, CallsInv, CallTypes, Stages, Promises, Endings, Calls,
      Crossing, Frames, NotCrossed, AboutToPost, EventHasCaller, ChildHasCaller, SlotsInv

\* Making and running queries concerns no frame.
LEMMA QueryKeeps ==
  ASSUME CallsInv, NEW c \in Calls, NEW stage \in Stages,
         pc' = [pc EXCEPT ![c] = stage],
         UNCHANGED <<entering, future, promise, child, signalled, slots>>,
         \/ pc[c] \in {"idle", "made"} /\ stage \in {"made", "running"}
         \/ pc[c] = "running" /\ stage = "done"
  PROVE  CallsInv'
<1> USE DEF CallsInv
<1>1. CallTypes'
  BY DEF CallTypes
<1>2. \A d \in Crossing : pc'[d] = pc[d] \/ (d = c /\ pc'[d] = stage)
  BY DEF CallTypes, Calls
<1>3. Frames'
  BY <1>2 DEF Frames, NotCrossed, AboutToPost, EventHasCaller, ChildHasCaller
<1>4. SlotsInv'
  <2>1. \A i \in 1..Len(slots) : slots[i] \in Crossing \X Steps
    BY DEF CallTypes
  <2> QED BY <1>2, <2>1 DEF SlotsInv, Frames, NotCrossed, Endings
<1> QED BY <1>1, <1>3, <1>4

\* Entering the bridge and returning from it.
LEMMA CrossingKeeps ==
  ASSUME CallsInv, BP!IInv, NEW c \in Crossing, CallEnter(c) \/ CallPost(c) \/ Return(c)
  PROVE  CallsInv'
<1> USE DEF CallsInv
<1>a. c \in Calls
  BY DEF Calls, Crossing
<1>b. \A i \in 1..Len(slots) : slots[i] \in Crossing \X Steps
  BY DEF CallTypes
<1>c. UNCHANGED <<child, signalled, slots>>
  BY DEF CallEnter, CallPost, Return
<1>d. future \in [Crossing \cup Stops -> BP!Futures]
  BY DEF BP!IInv, BP!TypeOK, BP!Closures
<1>1. CallTypes'
  BY <1>a, <1>c DEF CallTypes, CallEnter, CallPost, Return, Stages, Promises
<1>2. \A d \in Crossing : d # c => pc'[d] = pc[d] /\ promise'[d] = promise[d]
  BY <1>a DEF CallTypes, CallEnter, CallPost, Return, Calls, Crossing
<1>3. CASE CallEnter(c)
  <2>1. /\ pc[c] = "running" /\ pc'[c] \in {"entering", "threw"}
        /\ child[c] = "none" /\ future[c] \in {"none", "thrown"}
        /\ pc'[c] = "entering" => promise'[c] = "unset" /\ future' = future
                                  /\ entering' = entering \cup {c}
        /\ pc'[c] = "threw" => future' = [future EXCEPT ![c] = "thrown"] /\ entering' = entering
    BY <1>3, <1>a DEF CallEnter, Bridge!CheckInstance, CallTypes, Frames, NotCrossed
  <2>2. \A d \in Crossing : d # c => future'[d] = future[d] /\ (d \in entering' => d \in entering)
    BY <1>d, <2>1
  <2>3. c \notin entering
    BY <2>1 DEF Frames, AboutToPost
  <2>4. future[c] = "none"
    BY <1>3 DEF CallEnter, Bridge!CheckInstance
  <2>5. future'[c] # "pending" /\ (pc'[c] = "threw" => future'[c] \in {"none", "thrown"})
    BY <1>d, <2>1, <2>4
  <2>6. Frames'
    BY <1>2, <1>c, <2>1, <2>2, <2>3, <2>5 DEF Frames, NotCrossed, AboutToPost, EventHasCaller, ChildHasCaller
  <2>7. SlotsInv'
    BY <1>2, <1>b, <1>c, <2>1 DEF SlotsInv, Frames, Endings
  <2> QED BY <1>1, <2>6, <2>7
<1>4. CASE CallPost(c)
  <2>1. /\ c \in entering /\ entering' = entering \ {c}
        /\ pc[c] = "entering" /\ promise[c] = "unset" /\ child[c] = "none"
        /\ pc'[c] = "waiting" /\ promise' = promise
    BY <1>4, <1>a DEF CallPost, Bridge!PostEvent, Bridge!PostToDead, CallTypes, Frames, AboutToPost
  <2>2. \A d \in Crossing : d # c => future'[d] = future[d]
    BY <1>4, <1>d DEF CallPost, Bridge!PostEvent, Bridge!PostToDead
  <2>3. Frames'
    BY <1>2, <1>c, <2>1, <2>2 DEF Frames, NotCrossed, AboutToPost, EventHasCaller, ChildHasCaller
  <2>4. SlotsInv'
    BY <1>2, <1>b, <1>c, <2>1 DEF SlotsInv, Frames, Endings
  <2> QED BY <1>1, <2>3, <2>4
<1>5. CASE Return(c)
  <2>1. /\ pc[c] = "waiting" /\ promise[c] # "unset" /\ pc'[c] = "done"
        /\ UNCHANGED <<entering, future>>
    BY <1>5, <1>a DEF Return, CallTypes, bridgeVars
  <2>2. Frames'
    BY <1>2, <1>c, <2>1 DEF Frames, NotCrossed, AboutToPost, EventHasCaller, ChildHasCaller
  <2>3. SlotsInv'
    BY <1>2, <1>b, <1>c, <2>1 DEF SlotsInv
  <2> QED BY <1>1, <2>2, <2>3
<1> QED BY <1>3, <1>4, <1>5

\* The loop runs the closure of a call: its event was queued.
LEMMA RunClosureKeeps ==
  ASSUME CallsInv, BP!IInv, NEW c \in Crossing, RunClosure(c)
  PROVE  CallsInv'
<1> USE DEF CallsInv
<1>1. future[c] = "pending"
  <2>1. /\ handled + 1 \in (handled + 1)..Len(posted)
        /\ posted[handled + 1] = c
        /\ world \in {"exec", "quitting"}
    BY DEF RunClosure, Bridge!HandleTask, Bridge!NextEventIs, Bridge!InLoop, BP!IInv, BP!TypeOK
  <2>2. future[c] \in {"pending", "broken"}
    BY <2>1 DEF BP!IInv, BP!QueuedHaveNot, BP!Closures
  <2> QED BY <2>1, <2>2 DEF BP!IInv, BP!BrokenAtTheEnd, BP!Closures
<1>2. /\ pc[c] = "waiting" /\ promise[c] = "unset" /\ child[c] = "none" /\ c \notin signalled
      /\ c \notin entering
  BY <1>1 DEF Frames, EventHasCaller, AboutToPost, Endings
<1>3. /\ UNCHANGED <<pc, promise, signalled, slots, entering>> /\ slots = <<>>
      /\ child' = [child EXCEPT ![c] = "running"]
      /\ future' = [future EXCEPT ![c] = "value"]
  BY DEF RunClosure, BetweenSlots, Bridge!HandleTask
<1>4. CallTypes'
  BY <1>3 DEF CallTypes
<1>5. future'[c] = "value"
  BY <1>3 DEF BP!IInv, BP!TypeOK, BP!Closures
<1>6. Frames'
  BY <1>2, <1>3, <1>5 DEF CallTypes, Frames, NotCrossed, AboutToPost, EventHasCaller, ChildHasCaller
<1>7. SlotsInv'
  BY <1>3 DEF SlotsInv
<1> QED BY <1>4, <1>6, <1>7

\* The steps of the children and of the slots.
LEMMA SlotKeeps ==
  ASSUME CallsInv, NEW c \in Crossing,
         \/ \E ending \in Endings : ChildEnds(c, ending)
         \/ \E found \in BOOLEAN : Signal(c, found)
         \/ InSlot(c)
  PROVE  CallsInv'
<1> USE DEF CallsInv
<1>b. \A i \in 1..Len(slots) : slots[i] \in Crossing \X Steps
  BY DEF CallTypes
<1>1. ASSUME NEW ending \in Endings, ChildEnds(c, ending)
      PROVE  CallsInv'
  <2>1. /\ UNCHANGED <<entering, future, pc, promise, signalled, slots>>
        /\ child[c] = "running" /\ child' = [child EXCEPT ![c] = ending]
        /\ c \notin signalled
    BY <1>1 DEF ChildEnds, bridgeVars, Frames, Endings
  <2>2. CallTypes'
    BY <2>1 DEF CallTypes
  <2>3. Frames'
    BY <2>1 DEF CallTypes, Frames, NotCrossed, AboutToPost, EventHasCaller, ChildHasCaller
  <2>4. SlotsInv'
    BY <2>1, <1>b DEF CallTypes, SlotsInv
  <2> QED BY <2>2, <2>3, <2>4
<1>2. ASSUME NEW found \in BOOLEAN, Signal(c, found)
      PROVE  CallsInv'
  <2>1. /\ UNCHANGED <<entering, future, pc, promise, child>>
        /\ child[c] \in Endings /\ c \notin signalled /\ signalled' = signalled \cup {c}
        /\ slots' = SlotSteps(c, found)
        /\ pc[c] = "waiting" /\ promise[c] = "unset"
    BY <1>2 DEF Signal, bridgeVars, Frames, ChildHasCaller, Endings
  <2>2. /\ slots' \in Seq(Crossing \X Steps)
        /\ \A i \in 1..Len(slots') : slots'[i][1] = c
        /\ child[c] # "crashed" => \A i \in 1..Len(slots') : slots'[i][2] # "invalidate" => i = 1
    <3>1. CASE child[c] = "crashed"
      BY <2>1, <3>1 DEF SlotSteps, Steps
    <3>2. CASE child[c] # "crashed"
      <4>1. PICK s1 \in {"yes", "no"} :
              slots' \in {<<<<c, s1>>>>, <<<<c, s1>>, <<c, "invalidate">>>>}
        BY <2>1, <3>2 DEF SlotSteps, Endings
      <4>2. CASE slots' = <<<<c, s1>>>>
        BY <4>2 DEF Steps
      <4>3. CASE slots' = <<<<c, s1>>, <<c, "invalidate">>>>
        <5>1. /\ Len(slots') = 2 /\ slots'[1] = <<c, s1>> /\ slots'[2] = <<c, "invalidate">>
              /\ slots' \in Seq(Crossing \X Steps)
          BY <4>3 DEF Steps
        <5> QED BY <5>1
      <4> QED BY <4>1, <4>2, <4>3
    <3> QED BY <3>1, <3>2
  <2>3. CallTypes'
    BY <2>1, <2>2 DEF CallTypes
  <2>4. Frames'
    BY <2>1 DEF Frames, NotCrossed, AboutToPost, EventHasCaller, ChildHasCaller
  <2>5. SlotsInv'
    BY <2>1, <2>2 DEF SlotsInv
  <2> QED BY <2>3, <2>4, <2>5
<1>3. CASE SetPromise(c) \/ CallbackDangles(c) \/ Invalidate(c)
  <2>1. /\ UNCHANGED <<entering, future, pc, child, signalled>>
        /\ slots # <<>> /\ slots' = Tail(slots) /\ slots[1][1] = c
    BY <1>3 DEF SetPromise, CallbackDangles, Invalidate, InCallback, bridgeVars, CallTypes
  <2>2. \A d \in Crossing : d # c => promise'[d] = promise[d]
    BY <1>3 DEF SetPromise, CallbackDangles, Invalidate, CallTypes
  <2>3. /\ slots' \in Seq(Crossing \X Steps)
        /\ Len(slots') = Len(slots) - 1
        /\ \A i \in 1..Len(slots') : i + 1 \in 1..Len(slots) /\ slots'[i] = slots[i + 1]
    BY <2>1 DEF CallTypes
  <2>4. CallTypes'
    <3>1. promise' \in [Crossing -> Promises]
      BY <1>3, <1>b, <2>1 DEF SetPromise, CallbackDangles, Invalidate, InCallback, CallTypes, Promises, Steps
    <3> QED BY <2>1, <2>3, <3>1 DEF CallTypes
  <2>5. c \in signalled /\ child[c] \in Endings /\ child[c] # "none"
    BY <2>1, <1>b DEF SlotsInv, Frames, Endings, CallTypes
  <2>6. Frames'
    BY <2>1, <2>2, <2>5 DEF Frames, NotCrossed, AboutToPost, EventHasCaller, ChildHasCaller
  <2>7. SlotsInv'
    BY <2>1, <2>3 DEF SlotsInv
  <2> QED BY <2>4, <2>6, <2>7
<1>4. CASE CallbackAborts(c)
  BY <1>4 DEF CallbackAborts, Bridge!Abort, callVars, CallTypes, Frames, NotCrossed, AboutToPost,
              EventHasCaller, ChildHasCaller, SlotsInv
<1> QED BY <1>1, <1>2, <1>3, <1>4 DEF InSlot

\* The rest of the bridge: the world, and the closures of stop().
LEMMA WorldKeeps ==
  ASSUME CallsInv, BP!IInv, LoopStep \/ RunWorld \/ Teardown \/ \E l \in Stops : Stop(l)
  PROVE  CallsInv'
<1> USE DEF CallsInv
<1>1. UNCHANGED callVars
  BY DEF LoopStep, RunWorld, Teardown, Stop
<1>2. \A c \in Crossing : c \in entering' <=> c \in entering
  BY CallsAssumption
  DEF LoopStep, RunWorld, Teardown, Stop, Bridge!HandleLocker, Bridge!HandleQuit, Bridge!LeaveLoop,
      Bridge!ConstructApplication, Bridge!MoveHandler, Bridge!CallReady, Bridge!EnterLoop, Bridge!DestroyApplication,
      Bridge!Enter, Bridge!CheckInstance, Bridge!PostEvent, Bridge!PostToDead
<1>3. \A c \in Crossing : future'[c] = future[c] \/ (future[c] = "pending" /\ future'[c] = "broken")
  <2>1. future \in [Crossing \cup Stops -> BP!Futures]
    BY DEF BP!IInv, BP!TypeOK, BP!Closures
  <2> QED
  BY <2>1, CallsAssumption
  DEF LoopStep, RunWorld, Teardown, Stop, Bridge!HandleLocker, Bridge!HandleQuit, Bridge!LeaveLoop,
      Bridge!ConstructApplication, Bridge!MoveHandler, Bridge!CallReady, Bridge!EnterLoop, Bridge!DestroyApplication,
      Bridge!Enter, Bridge!CheckInstance, Bridge!PostEvent, Bridge!PostToDead, Bridge!Closures
<1>4. CallTypes' /\ SlotsInv'
  BY <1>1 DEF callVars, CallTypes, SlotsInv
<1>5. Frames'
  BY <1>1, <1>2, <1>3 DEF callVars, Frames, NotCrossed, AboutToPost, EventHasCaller, ChildHasCaller
<1> QED BY <1>4, <1>5

\* Every step keeps the invariant of the calls.
LEMMA NextCallsInv == CallsInv /\ BP!IInv /\ [Next]_vars => CallsInv'
<1> SUFFICES ASSUME CallsInv, BP!IInv, [Next]_vars
             PROVE  CallsInv'
  OBVIOUS
<1>1. ASSUME NEW c \in Calls, Search(c) \/ Preview(c) \/ StartRun(c) \/ Activate(c) \/ Finish(c)
      PROVE  CallsInv'
  BY <1>1, QueryKeeps DEF Search, Preview, Make, StartRun, Activate, Finish, bridgeVars, Stages
<1>2. CASE UNCHANGED vars
  BY <1>2 DEF vars, bridgeVars, callVars, CallsInv, CallTypes, Frames, NotCrossed, AboutToPost,
              EventHasCaller, ChildHasCaller, SlotsInv
<1> QED
  BY <1>1, <1>2, CrossingKeeps, RunClosureKeeps, SlotKeeps, WorldKeeps
  DEF Next, QtStep, Calls, Crossing

\* The invariant of the calls holds in every reachable state.
THEOREM CallsInvariance == Spec => []CallsInv
  BY InitCallsInv, NextCallsInv, BridgeInvariance, PTL DEF Spec

\* Unless its child crashed, a callback that captured the promise of activate()
\* or InstalledPreview::run by reference (scope_activation.cpp:75-78,
\* preview.cpp:270-272) finds the frame alive and the promise unset, for any
\* number of previews, uninstalls and stops.
THEOREM FramesOutliveCallbacks == Spec => []FrameOutlivesCallbacks
<1>1. CallsInv => FrameOutlivesCallbacks
  BY DEF CallsInv, CallTypes, Frames, EventHasCaller, ChildHasCaller, SlotsInv,
         FrameOutlivesCallbacks, CallbackDue
<1> QED BY <1>1, CallsInvariance, PTL

-----------------------------------------------------------------------------
\* The types the frames do not depend on; only an uninstall refreshes the scope.
OtherTypes ==
    /\ unshared \subseteq {"search", "preview"}
    /\ holds \subseteq Searches \cup Previews
    /\ reply \in [Activations -> {"none", "search", "dash"}]
    /\ invalidated \subseteq Activations
    /\ \A i \in 1..Len(slots) : slots[i][2] = "invalidate" => slots[i][1] \in Activations

\* Every step keeps the remaining types.
LEMMA NextOtherTypes == CallTypes /\ OtherTypes /\ [Next]_vars => OtherTypes'
<1> SUFFICES ASSUME CallTypes, OtherTypes, [Next]_vars
             PROVE  OtherTypes'
  OBVIOUS
<1> USE DEF OtherTypes
<1>1. ASSUME NEW c \in Crossing, SetPromise(c) \/ CallbackDangles(c) \/ Invalidate(c)
      PROVE  OtherTypes'
  <2>1. /\ UNCHANGED <<unshared, holds, reply>>
        /\ slots # <<>> /\ slots' = Tail(slots)
    BY <1>1 DEF InCallback, SetPromise, CallbackDangles, Invalidate
  <2>2. \A i \in 1..Len(slots') : i + 1 \in 1..Len(slots) /\ slots'[i] = slots[i + 1]
    BY <2>1 DEF CallTypes
  <2>3. invalidated' \subseteq Activations
    BY <1>1 DEF SetPromise, CallbackDangles, Invalidate, CallTypes
  <2> QED BY <2>1, <2>2, <2>3
<1>2. ASSUME NEW c \in Crossing, NEW found \in BOOLEAN, Signal(c, found)
      PROVE  OtherTypes'
  <2>1. \A i \in 1..Len(slots') : slots'[i][2] = "invalidate" => slots'[i][1] \in Activations
    <3>1. CASE child[c] = "ok" /\ c \in Activations
      BY <1>2, <3>1 DEF Signal, SlotSteps
    <3>2. CASE child[c] = "crashed"
      BY <1>2, <3>2 DEF Signal, SlotSteps
    <3>3. CASE child[c] \in {"error", "failed"}
      BY <1>2, <3>3 DEF Signal, SlotSteps
    <3>4. CASE child[c] = "ok" /\ c \notin Activations
      <4>1. slots' = <<<<c, IF found THEN "yes" ELSE "no">>>>
        BY <1>2, <3>4 DEF Signal, SlotSteps
      <4> QED BY <4>1
    <3> QED BY <1>2, <3>1, <3>2, <3>3, <3>4 DEF Signal, Endings
  <2> QED BY <1>2, <2>1 DEF Signal
<1>3. ASSUME NEW c \in Crossing, Return(c)
      PROVE  OtherTypes'
  BY <1>3 DEF Return
<1>4. ASSUME NEW q \in Searches \cup Previews, Search(q) \/ Preview(q)
      PROVE  OtherTypes'
  BY <1>4 DEF Search, Preview, Make
<1>5. ASSUME NEW c \in Calls, StartRun(c) \/ Activate(c) \/ Finish(c)
      PROVE  OtherTypes'
  BY <1>5 DEF StartRun, Activate, Finish
<1>6. ASSUME NEW c \in Crossing, CallEnter(c) \/ CallPost(c) \/ RunClosure(c)
      PROVE  OtherTypes'
  BY <1>6 DEF CallEnter, CallPost, RunClosure
<1>7. ASSUME NEW c \in Crossing, NEW ending \in Endings, ChildEnds(c, ending)
      PROVE  OtherTypes'
  BY <1>7 DEF ChildEnds
<1>8. CASE UNCHANGED callVars
  BY <1>8 DEF callVars
<1> QED
  BY <1>1, <1>2, <1>3, <1>4, <1>5, <1>6, <1>7, <1>8
  DEF Next, QtStep, InSlot, CallbackAborts, LoopStep, RunWorld, Teardown, Stop, vars, Calls, Crossing

\* The variables of ScopeCalls keep their types, for any number of calls.
THEOREM TypeCorrect == Spec => []TypeOK
<1>1. Init => OtherTypes
  BY DEF Init, OtherTypes
<1>2. CallsInv => CallTypes
  BY DEF CallsInv
<1>3. CallTypes /\ OtherTypes /\ BP!IInv => TypeOK
  BY DEF CallTypes, OtherTypes, BP!IInv, BP!TypeOK, TypeOK, Bridge!TypeOK, BP!Closures, Bridge!Closures,
         BP!Worlds, Bridge!Worlds, BP!Handlers, Bridge!Handlers,
          BP!Futures, Bridge!Futures, BP!Settled, Bridge!Settled
<1> QED BY <1>1, <1>2, <1>3, NextOtherTypes, CallsInvariance, BridgeInvariance, PTL DEF Spec

\* In a process that has died nothing happens any more.
LEMMA DeadStaysDead == world = "aborted" /\ [Next]_vars => UNCHANGED vars
  BY DEF Next, vars, QtStep, LoopStep, RunWorld, Teardown, Stop, Search, Preview, Make, StartRun, Finish,
         Activate, CallEnter, CallPost, Return, ChildEnds, RunClosure, Signal, InSlot, SetPromise,
         CallbackAborts, CallbackDangles, Invalidate, InCallback, Alive, Bridge!Abort, Bridge!Enter,
         Bridge!CheckInstance, Bridge!PostEvent, Bridge!PostToDead, Bridge!HandleTask, Bridge!HandleLocker,
         Bridge!HandleQuit, Bridge!LeaveLoop, Bridge!InLoop, Bridge!ConstructApplication, Bridge!MoveHandler, Bridge!CallReady,
         Bridge!EnterLoop, Bridge!DestroyApplication

\* The process dies in a callback only after a crash of a child, for which QProcess
\* emits error() and finished() (index.cpp:63-78, interface.cpp:611-627), or on an
\* event posted to a handler that is gone: no order of other calls kills it.
THEOREM DeathsHaveCauses == Spec => []DeathHasACause
<1>1. Init => DeathHasACause
  BY DEF Init, Bridge!Init, DeathHasACause
<1>2. CallsInv /\ BP!IInv /\ DeathHasACause /\ [Next]_vars => DeathHasACause'
  <2> SUFFICES ASSUME CallsInv, BP!IInv, DeathHasACause, [Next]_vars, world' = "aborted"
               PROVE  \E c \in Crossing \cup Stops :
                          (c \in Crossing /\ child'[c] = "crashed") \/ future'[c] = "lost"
    BY DEF DeathHasACause
  <2>1. CASE world = "aborted"
    BY <2>1, DeadStaysDead DEF DeathHasACause, vars, bridgeVars, callVars
  <2>2. CASE world # "aborted"
    <3>1. \/ \E c \in Crossing : CallbackAborts(c) \/ CallPost(c)
          \/ \E l \in Stops : Stop(l)
      BY <2>2 DEF Next, vars, bridgeVars, QtStep, LoopStep, RunWorld, Teardown, Search, Preview, Make,
         StartRun, Finish, Activate, CallEnter, Return, ChildEnds, RunClosure, Signal, InSlot, SetPromise,
         CallbackDangles, Invalidate, Bridge!CheckInstance, Bridge!HandleTask, Bridge!HandleLocker,
         Bridge!HandleQuit, Bridge!LeaveLoop, Bridge!ConstructApplication, Bridge!MoveHandler, Bridge!CallReady,
         Bridge!EnterLoop, Bridge!DestroyApplication
    <3>2. ASSUME NEW c \in Crossing, CallbackAborts(c)
          PROVE  child'[c] = "crashed"
      BY <3>2 DEF CallbackAborts, InCallback, callVars, CallsInv, CallTypes, SlotsInv
    <3>3. ASSUME NEW t \in Crossing \cup Stops, Bridge!PostEvent(t) \/ Bridge!PostToDead(t)
          PROVE  future'[t] = "lost"
      BY <2>2, <3>3 DEF Bridge!PostEvent, Bridge!PostToDead, BP!IInv, BP!TypeOK, BP!Closures
    <3>4. ASSUME NEW l \in Stops, Stop(l)
          PROVE  future'[l] = "lost"
      BY <2>2, <3>3, <3>4 DEF Stop, Bridge!Enter, Bridge!CheckInstance
    <3> QED BY <3>1, <3>2, <3>3, <3>4 DEF CallPost
  <2> QED BY <2>1, <2>2
<1> QED BY <1>1, <1>2, CallsInvariance, BridgeInvariance, PTL DEF Spec

-----------------------------------------------------------------------------
(* What the dash is told of an uninstall: the answer follows from the      *)
(* command's own end, and the uninstalls together keep the promise of      *)
(* UninstallService.                                                       *)

\* A promise holds a value, or waits for one, only while its frame is in use.
PromiseIsInUse(c) ==
    /\ promise[c] = "unset" => pc[c] \in {"entering", "waiting"}
    /\ promise[c] \in {"yes", "no"} => pc[c] = "waiting"
    /\ pc[c] = "waiting" => promise[c] \in {"unset", "yes", "no"}
    /\ pc[c] = "done" => promise[c] \in {"none", "dead"}
    /\ pc[c] = "entering" => child[c] = "none"

\* What an uninstall's promise was given is how its own child ended.
PromiseTellsChild(a) ==
    /\ promise[a] = "yes" => child[a] = "ok"
    /\ promise[a] = "no" => child[a] \in Endings \ {"ok"}

\* So does what the slots still have to give it.
StepsTellChild ==
    \A i \in 1..Len(slots) :
        /\ slots[i][1] \in Activations /\ slots[i][2] = "yes" => child[slots[i][1]] = "ok"
        /\ slots[i][1] \in Activations /\ slots[i][2] = "no" => child[slots[i][1]] \in Endings \ {"ok"}
        /\ slots[i][2] = "invalidate" => child[slots[i][1]] = "ok"

\* A call that has returned leaves a child that has ended.
DoneHasEnded(a) == pc[a] = "done" => child[a] \in Endings

\* The answer was given on the return, from the child's end.
ReplyIsFinal(a) ==
    reply[a] # "none" =>
        /\ pc[a] = "done"
        /\ reply[a] = "search" <=> child[a] = "ok" /\ a \in LonelyResults

\* The refresh is the last step of the slot; before it is done it has not been
\* done, and it comes after the promise was set.
RefreshIsLast ==
    /\ invalidated \subseteq signalled
    /\ \A i \in 1..Len(slots) : slots[i][2] = "invalidate" =>
        /\ i = Len(slots) /\ slots[i][1] \in Activations \ invalidated
        /\ i = 1 => promise[slots[i][1]] # "unset"
        /\ i # 1 => slots[i - 1] = <<slots[i][1], "yes">>

ServiceInv ==
    /\ \A c \in Crossing : PromiseIsInUse(c)
    /\ \A a \in Activations : PromiseTellsChild(a) /\ DoneHasEnded(a) /\ ReplyIsFinal(a)
    /\ StepsTellChild
    /\ RefreshIsLast

UInv == CallsInv /\ OtherTypes /\ BP!IInv /\ ServiceInv

-----------------------------------------------------------------------------
\* Nothing has been asked yet.
LEMMA InitServiceInv == Init => ServiceInv
  BY CallsAssumption
  DEF Init, ServiceInv, PromiseIsInUse, PromiseTellsChild, StepsTellChild, DoneHasEnded, ReplyIsFinal,
      RefreshIsLast, Calls, Crossing

\* What is left of a slot after its first step.
LEMMA TailOfSlots ==
  ASSUME CallTypes, slots # <<>>, slots' = Tail(slots)
  PROVE  /\ Len(slots') = Len(slots) - 1 /\ Len(slots) \in Nat \ {0}
         /\ slots[1] = Head(slots) /\ slots[1] \in Crossing \X Steps
         /\ \A i \in 1..Len(slots') : i + 1 \in 1..Len(slots) /\ slots'[i] = slots[i + 1]
  BY DEF CallTypes

\* Steps of the queries, and of an activation before it crosses the bridge.
LEMMA QueryServes ==
  ASSUME UInv, NEW c \in Calls, NEW stage \in Stages,
         pc' = [pc EXCEPT ![c] = stage],
         UNCHANGED <<promise, child, signalled, slots, reply, invalidated>>,
         \/ pc[c] \in {"idle", "made"} /\ stage \in {"made", "running"}
         \/ pc[c] = "running" /\ stage = "done" /\ c \notin Activations
  PROVE  ServiceInv'
<1> USE DEF UInv, ServiceInv
<1>1. \A d \in Crossing : IF d = c THEN pc'[d] = stage ELSE pc'[d] = pc[d]
  BY DEF CallsInv, CallTypes, Calls, Crossing
<1>2. \A d \in Crossing : PromiseIsInUse(d)'
  BY <1>1 DEF PromiseIsInUse, CallsInv, CallTypes, Promises
<1>3. \A a \in Activations : a \in Crossing
  BY DEF Crossing
<1>4. \A a \in Activations : PromiseTellsChild(a)' /\ DoneHasEnded(a)' /\ ReplyIsFinal(a)'
  BY <1>1, <1>3 DEF PromiseTellsChild, DoneHasEnded, ReplyIsFinal
<1>5. StepsTellChild' /\ RefreshIsLast'
  BY DEF StepsTellChild, RefreshIsLast
<1> QED BY <1>2, <1>4, <1>5

\* Entering the bridge and returning from it.
LEMMA CrossingServes ==
  ASSUME UInv, NEW c \in Crossing, CallEnter(c) \/ CallPost(c) \/ Return(c)
  PROVE  ServiceInv'
<1> USE DEF UInv, ServiceInv
<1>1. UNCHANGED <<child, signalled, slots, invalidated>>
  BY DEF CallEnter, CallPost, Return
<1>2. c \in Calls /\ Crossing \subseteq Calls
  BY DEF Calls, Crossing
<1>3. \A d \in Crossing : d # c => pc'[d] = pc[d] /\ promise'[d] = promise[d]
  BY <1>2 DEF CallsInv, CallTypes, CallEnter, CallPost, Return
<1>4. \/ /\ pc[c] = "running" /\ child[c] = "none"
         /\ \/ pc'[c] = "entering" /\ promise'[c] = "unset"
            \/ pc'[c] = "threw" /\ promise'[c] = "dead"
      \/ pc[c] = "entering" /\ pc'[c] = "waiting" /\ promise[c] = "unset" /\ promise'[c] = "unset"
      \/ /\ pc[c] = "waiting" /\ promise[c] \in {"yes", "no"}
         /\ pc'[c] = "done" /\ promise'[c] = "dead"
  <2>1. CASE CallEnter(c)
    BY <1>2, <2>1 DEF CallEnter, CallsInv, CallTypes, Frames, NotCrossed
  <2>2. CASE CallPost(c)
    BY <1>2, <2>2 DEF CallPost, CallsInv, CallTypes, Frames, AboutToPost, Bridge!PostEvent, Bridge!PostToDead
  <2>3. CASE Return(c)
    BY <1>2, <2>3 DEF Return, CallsInv, CallTypes
  <2> QED BY <2>1, <2>2, <2>3
<1>5. \A d \in Crossing : PromiseIsInUse(d)'
  BY <1>1, <1>3, <1>4 DEF PromiseIsInUse
<1>6. \A a \in Activations : PromiseTellsChild(a)'
  BY <1>1, <1>3, <1>4 DEF PromiseTellsChild, Crossing
<1>7. \A a \in Activations : DoneHasEnded(a)'
  BY <1>1, <1>3, <1>4 DEF PromiseTellsChild, DoneHasEnded, Crossing, Endings
<1>8. \A a \in Activations : ReplyIsFinal(a)'
  <2>1. CASE Return(c)
    <3> SUFFICES ASSUME NEW a \in Activations PROVE ReplyIsFinal(a)'
      OBVIOUS
    <3>1. CASE a = c
      BY <1>1, <1>4, <2>1, <3>1 DEF Return, PromiseTellsChild, ReplyIsFinal
    <3>2. CASE a # c
      BY <1>1, <1>3, <2>1, <3>2 DEF Return, ReplyIsFinal, Crossing
    <3> QED BY <3>1, <3>2
  <2>2. CASE CallEnter(c) \/ CallPost(c)
    BY <1>1, <1>3, <1>4, <2>2 DEF CallEnter, CallPost, ReplyIsFinal, Crossing
  <2> QED BY <2>1, <2>2
<1>9. StepsTellChild'
  BY <1>1 DEF StepsTellChild
<1>10. RefreshIsLast'
  <2>1. \A i \in 1..Len(slots) : slots[i] \in Crossing \X Steps
    BY DEF CallsInv, CallTypes
  <2>2. \A d \in Crossing : promise'[d] = "unset" => promise[d] = "unset" \/ child[d] = "none"
    BY <1>3, <1>4
  <2>3. \A i \in 1..Len(slots) : child[slots[i][1]] # "none"
    BY <2>1 DEF CallsInv, SlotsInv, Frames, Endings
  <2> QED BY <1>1, <2>1, <2>2, <2>3 DEF RefreshIsLast
<1> QED BY <1>5, <1>6, <1>7, <1>8, <1>9, <1>10

\* A child starts for a caller that waits, whose promise is unset, and so it ends.
LEMMA ChildServes ==
  ASSUME UInv, NEW c \in Crossing,
         pc[c] = "waiting", promise[c] = "unset", c \notin signalled,
         NEW state, child' = [child EXCEPT ![c] = state],
         UNCHANGED <<pc, promise, signalled, slots, reply, invalidated>>
  PROVE  ServiceInv'
<1> USE DEF UInv, ServiceInv
<1>1. \A d \in Crossing : d # c => child'[d] = child[d]
  BY DEF CallsInv, CallTypes
<1>2. \A d \in Crossing : PromiseIsInUse(d)'
  BY <1>1 DEF PromiseIsInUse
<1>3. \A a \in Activations : PromiseTellsChild(a)' /\ DoneHasEnded(a)' /\ ReplyIsFinal(a)'
  BY <1>1 DEF PromiseTellsChild, DoneHasEnded, ReplyIsFinal, Crossing
<1>4. \A i \in 1..Len(slots) : slots[i][1] \in Crossing \ {c}
  BY DEF CallsInv, CallTypes, SlotsInv
<1>5. StepsTellChild' /\ RefreshIsLast'
  BY <1>1, <1>4 DEF StepsTellChild, RefreshIsLast
<1> QED BY <1>2, <1>3, <1>5

\* The loop runs a closure only for a call that waits.
LEMMA ClosureHasCaller ==
  ASSUME UInv, NEW c \in Crossing, RunClosure(c)
  PROVE  pc[c] = "waiting" /\ promise[c] = "unset" /\ child[c] = "none" /\ c \notin signalled
<1> USE DEF UInv, CallsInv
<1>1. /\ handled + 1 \in (handled + 1)..Len(posted)
      /\ posted[handled + 1] = c
      /\ world \in {"exec", "quitting"}
  BY DEF RunClosure, Bridge!HandleTask, Bridge!NextEventIs, Bridge!InLoop, BP!IInv, BP!TypeOK
<1>2. future[c] = "pending"
  BY <1>1 DEF BP!IInv, BP!QueuedHaveNot, BP!BrokenAtTheEnd, BP!Closures
<1> QED BY <1>2 DEF Frames, EventHasCaller, Endings

\* A signal begins a slot whose steps say what became of the child.
LEMMA SignalServes ==
  ASSUME UInv, NEW c \in Crossing, NEW found \in BOOLEAN, Signal(c, found)
  PROVE  ServiceInv'
<1> USE DEF UInv, ServiceInv
<1>1. /\ UNCHANGED <<pc, promise, child, reply, invalidated>>
      /\ child[c] \in Endings /\ c \notin signalled /\ signalled' = signalled \cup {c}
      /\ slots' = SlotSteps(c, found)
  BY DEF Signal
<1>2. \/ child[c] = "crashed" /\ slots' = <<<<c, "no">>, <<c, "no">>>>
      \/ child[c] \in {"error", "failed"} /\ slots' = <<<<c, "no">>>>
      \/ child[c] = "ok" /\ c \in Activations /\ slots' = <<<<c, "yes">>, <<c, "invalidate">>>>
      \/ c \notin Activations /\ \E s \in {"yes", "no"} : slots' = <<<<c, s>>>>
  BY <1>1 DEF SlotSteps, Endings
<1>3. StepsTellChild' /\ RefreshIsLast'
  <2>1. invalidated' \subseteq signalled' /\ c \notin invalidated
    BY <1>1 DEF RefreshIsLast
  <2>2. CASE child[c] = "crashed" /\ slots' = <<<<c, "no">>, <<c, "no">>>>
    BY <1>1, <2>1, <2>2 DEF StepsTellChild, RefreshIsLast, Endings
  <2>3. CASE child[c] \in {"error", "failed"} /\ slots' = <<<<c, "no">>>>
    BY <1>1, <2>1, <2>3 DEF StepsTellChild, RefreshIsLast, Endings
  <2>4. CASE child[c] = "ok" /\ c \in Activations /\ slots' = <<<<c, "yes">>, <<c, "invalidate">>>>
    <3>1. Len(slots') = 2 /\ slots'[1] = <<c, "yes">> /\ slots'[2] = <<c, "invalidate">>
      BY <2>4
    <3>2. \A i \in 1..Len(slots') : i = 1 \/ i = 2
      BY <3>1
    <3>3. StepsTellChild'
      BY <1>1, <2>4, <3>1, <3>2 DEF StepsTellChild
    <3>4. RefreshIsLast'
      BY <1>1, <2>1, <2>4, <3>1, <3>2 DEF RefreshIsLast
    <3> QED BY <3>3, <3>4
  <2>5. ASSUME c \notin Activations, NEW s \in {"yes", "no"}, slots' = <<<<c, s>>>>
        PROVE  StepsTellChild' /\ RefreshIsLast'
    BY <1>1, <2>1, <2>5 DEF StepsTellChild, RefreshIsLast
  <2> QED BY <1>2, <2>2, <2>3, <2>4, <2>5
<1>4. \A d \in Crossing : PromiseIsInUse(d)'
  BY <1>1 DEF PromiseIsInUse
<1>5. \A a \in Activations : PromiseTellsChild(a)' /\ DoneHasEnded(a)' /\ ReplyIsFinal(a)'
  BY <1>1 DEF PromiseTellsChild, DoneHasEnded, ReplyIsFinal
<1> QED BY <1>3, <1>4, <1>5

\* The steps of a slot.
LEMMA SlotServes ==
  ASSUME UInv, NEW c \in Crossing, SetPromise(c) \/ CallbackDangles(c) \/ Invalidate(c)
  PROVE  ServiceInv'
<1> USE DEF UInv, ServiceInv, CallsInv
<1>1. /\ UNCHANGED <<pc, child, signalled, reply>>
      /\ slots # <<>> /\ slots' = Tail(slots) /\ Head(slots)[1] = c
  BY DEF SetPromise, CallbackDangles, Invalidate, InCallback
<1>2. /\ Len(slots') = Len(slots) - 1 /\ Len(slots) \in Nat \ {0}
      /\ slots[1] = Head(slots) /\ slots[1] \in Crossing \X Steps
      /\ \A i \in 1..Len(slots') : i + 1 \in 1..Len(slots) /\ slots'[i] = slots[i + 1]
  BY <1>1, TailOfSlots
<1>3. /\ 1 \in 1..Len(slots) /\ slots[1][1] = c
      /\ c \in signalled /\ child[c] \in Endings
  BY <1>1, <1>2 DEF SlotsInv, Frames
<1>4. StepsTellChild'
  BY <1>1, <1>2 DEF StepsTellChild
<1>5. CASE SetPromise(c)
  <2>1. /\ promise[c] = "unset" /\ promise' = [promise EXCEPT ![c] = slots[1][2]]
        /\ slots[1][2] \in {"yes", "no"} /\ UNCHANGED invalidated
    BY <1>2, <1>5 DEF SetPromise, InCallback, Steps
  <2>2. pc[c] = "waiting"
    BY <1>3, <2>1 DEF PromiseIsInUse, Endings
  <2>3. promise'[c] = slots[1][2] /\ \A d \in Crossing : d # c => promise'[d] = promise[d]
    BY <2>1 DEF CallTypes
  <2>4. \A d \in Crossing : PromiseIsInUse(d)'
    BY <1>1, <2>1, <2>2, <2>3 DEF PromiseIsInUse
  <2>5. \A a \in Activations : PromiseTellsChild(a)'
    BY <1>1, <1>3, <2>1, <2>3 DEF PromiseTellsChild, StepsTellChild, Crossing
  <2>6. \A a \in Activations : DoneHasEnded(a)' /\ ReplyIsFinal(a)'
    BY <1>1 DEF DoneHasEnded, ReplyIsFinal
  <2>7. RefreshIsLast'
    <3> SUFFICES ASSUME NEW i \in 1..Len(slots'), slots'[i][2] = "invalidate"
                 PROVE  /\ i = Len(slots') /\ slots'[i][1] \in Activations \ invalidated
                        /\ i = 1 => promise'[slots'[i][1]] # "unset"
                        /\ i # 1 => slots'[i - 1] = <<slots'[i][1], "yes">>
      BY <1>1, <2>1 DEF RefreshIsLast
    <3>1. /\ i + 1 \in 1..Len(slots) /\ slots'[i] = slots[i + 1] /\ i + 1 = Len(slots)
          /\ slots[i] = <<slots[i + 1][1], "yes">> /\ slots[i + 1][1] \in Activations \ invalidated
      BY <1>2 DEF RefreshIsLast
    <3>2. i = 1 => slots'[i][1] = c
      BY <1>3, <3>1
    <3>3. i # 1 => i - 1 \in 1..Len(slots') /\ slots'[i - 1] = slots[i]
      BY <1>2
    <3> QED BY <1>2, <2>1, <2>3, <3>1, <3>2, <3>3
  <2> QED BY <1>4, <2>4, <2>5, <2>6, <2>7
<1>6. CASE CallbackDangles(c)
  <2>1. promise[c] = "dead" /\ slots[1][2] # "invalidate" /\ UNCHANGED <<promise, invalidated>>
    BY <1>2, <1>6 DEF CallbackDangles, InCallback
  <2>2. child[c] = "crashed"
    BY <1>3, <2>1 DEF SlotsInv
  <2>3. RefreshIsLast'
    <3> SUFFICES ASSUME NEW i \in 1..Len(slots'), slots'[i][2] = "invalidate"
                 PROVE  /\ i = Len(slots') /\ slots'[i][1] \in Activations \ invalidated
                        /\ i # 1 /\ slots'[i - 1] = <<slots'[i][1], "yes">>
      BY <1>1, <2>1 DEF RefreshIsLast
    <3>1. /\ i + 1 \in 1..Len(slots) /\ slots'[i] = slots[i + 1] /\ i + 1 = Len(slots)
          /\ slots[i] = <<slots[i + 1][1], "yes">> /\ slots[i + 1][1] \in Activations \ invalidated
      BY <1>2 DEF RefreshIsLast
    <3>2. i # 1
      BY <1>3, <2>2, <3>1 DEF StepsTellChild
    <3>3. i - 1 \in 1..Len(slots') /\ slots'[i - 1] = slots[i]
      BY <1>2, <3>2
    <3> QED BY <1>2, <3>1, <3>2, <3>3
  <2> QED BY <1>1, <1>4, <2>1, <2>3 DEF PromiseIsInUse, PromiseTellsChild, DoneHasEnded, ReplyIsFinal
<1>7. CASE Invalidate(c)
  <2>1. slots[1] = <<c, "invalidate">> /\ invalidated' = invalidated \cup {c} /\ UNCHANGED promise
    BY <1>2, <1>7 DEF Invalidate
  <2>2. Len(slots') = 0
    BY <1>2, <1>3, <2>1 DEF RefreshIsLast
  <2>3. RefreshIsLast'
    <3>1. invalidated' \subseteq signalled'
      BY <1>1, <1>3, <2>1 DEF RefreshIsLast
    <3>2. 1..Len(slots') = {}
      BY <2>2
    <3> HIDE DEF UInv, ServiceInv, CallsInv
    <3> QED BY <3>1, <3>2 DEF RefreshIsLast
  <2> QED BY <1>1, <1>4, <2>1, <2>3 DEF PromiseIsInUse, PromiseTellsChild, DoneHasEnded, ReplyIsFinal
<1> QED BY <1>5, <1>6, <1>7

\* Every step keeps what is said of promises, children, slots and answers.
LEMMA NextServiceInv == UInv /\ [Next]_vars => ServiceInv'
<1> SUFFICES ASSUME UInv, [Next]_vars
             PROVE  ServiceInv'
  OBVIOUS
<1>1. ASSUME NEW c \in Calls, Search(c) \/ Preview(c) \/ StartRun(c) \/ Activate(c)
      PROVE  ServiceInv'
  BY <1>1, QueryServes DEF Search, Preview, Make, StartRun, Activate, Stages
<1>2. ASSUME NEW c \in Searches \cup Previews, Finish(c)
      PROVE  ServiceInv'
  <2>1. c \in Calls /\ c \notin Activations
    BY CallsAssumption DEF Calls, Crossing
  <2> QED BY <1>2, <2>1, QueryServes DEF Finish, Stages
<1>3. ASSUME NEW c \in Crossing, RunClosure(c)
      PROVE  ServiceInv'
  <2>1. pc[c] = "waiting" /\ promise[c] = "unset" /\ c \notin signalled
    BY <1>3, ClosureHasCaller
  <2> QED BY <1>3, <2>1, ChildServes DEF RunClosure
<1>4. ASSUME NEW c \in Crossing, NEW ending \in Endings, ChildEnds(c, ending)
      PROVE  ServiceInv'
  <2>1. pc[c] = "waiting" /\ promise[c] = "unset" /\ c \notin signalled
    BY <1>4 DEF ChildEnds, UInv, CallsInv, Frames, ChildHasCaller, Endings
  <2> QED BY <1>4, <2>1, ChildServes DEF ChildEnds
<1>5. CASE UNCHANGED callVars
  BY <1>5 DEF callVars, UInv, ServiceInv, PromiseIsInUse, PromiseTellsChild, StepsTellChild, DoneHasEnded,
              ReplyIsFinal, RefreshIsLast
<1>6. Searches \cup Previews \subseteq Calls /\ Activations \subseteq Calls
  BY DEF Calls
<1> QED
  BY <1>1, <1>2, <1>3, <1>4, <1>5, <1>6, CrossingServes, SignalServes, SlotServes
  DEF Next, QtStep, InSlot, CallbackAborts, LoopStep, RunWorld, Teardown, Stop, vars

\* All the invariants together hold in every reachable state.
THEOREM UninstallInvariance == Spec => []UInv
<1>1. Init => OtherTypes
  BY DEF Init, OtherTypes
<1>2. CallsInv => CallTypes
  BY DEF CallsInv
<1>3. Spec => []OtherTypes
  BY <1>1, <1>2, NextOtherTypes, CallsInvariance, PTL DEF Spec
<1>4. CallsInv /\ OtherTypes /\ BP!IInv /\ ServiceInv /\ [Next]_vars => ServiceInv'
  BY NextServiceInv DEF UInv
<1>5. CallsInv /\ OtherTypes /\ BP!IInv /\ ServiceInv => UInv
  BY DEF UInv
<1> QED
  BY <1>3, <1>4, <1>5, InitServiceInv, CallsInvariance, BridgeInvariance, PTL DEF Spec

\* "Return apps scope to root department if current department becomes empty after
\* an uninstall" (debian/changelog:58): the answer follows from the end of the very
\* child the activation started, for any number of calls in any interleaving
\* (PerformUninstallAction::activate, PackageManager::uninstall).
THEOREM RepliesTellOutcomes == Spec => []ReplyTellsOutcome
<1>1. UInv => ReplyTellsOutcome
  BY DEF UInv, ServiceInv, ReplyIsFinal, ReplyTellsOutcome
<1> QED BY <1>1, UninstallInvariance, PTL

-----------------------------------------------------------------------------
(* The wait for Qt.                                                        *)

\* A query that waits for Qt has found it announced.
HoldersWait == \A p \in Previews \cap holds : pc[p] \notin {"idle", "made"} => Ready

HoldersInv == HoldersWait /\ HolderThrowsOnlyAfterTeardown

\* The world only goes on, and what was announced stays so.
LEMMA WorldGoesOn ==
  ASSUME [Next]_vars
  PROVE  /\ Ready => Ready'
         /\ world \in {"gone", "aborted"} => world' \in {"gone", "aborted"}
  BY DEF Next, vars, bridgeVars, QtStep, LoopStep, RunWorld, Teardown, Stop, Search, Preview, Make, StartRun,
         Finish, Activate, CallEnter, CallPost, Return, ChildEnds, RunClosure, Signal, InSlot, SetPromise,
         CallbackAborts, CallbackDangles, Invalidate, InCallback, Ready, Bridge!Abort, Bridge!Enter,
         Bridge!CheckInstance, Bridge!PostEvent, Bridge!PostToDead, Bridge!HandleTask, Bridge!HandleLocker,
         Bridge!HandleQuit, Bridge!LeaveLoop, Bridge!InLoop, Bridge!ConstructApplication, Bridge!MoveHandler, Bridge!CallReady,
         Bridge!EnterLoop, Bridge!DestroyApplication

\* A query becomes one that must wait before it runs, runs after Qt is ready, and
\* finds no application only when Qt is gone.
LEMMA NextHoldersInv == CallsInv /\ HoldersInv /\ [Next]_vars => HoldersInv'
<1> SUFFICES ASSUME CallsInv, HoldersInv, [Next]_vars,
                    NEW p \in Previews, p \in holds'
             PROVE  /\ pc'[p] \notin {"idle", "made"} => Ready'
                    /\ pc'[p] = "threw" => world' \in {"gone", "aborted"}
  BY DEF HoldersInv, HoldersWait, HolderThrowsOnlyAfterTeardown
<1> USE DEF HoldersInv, HoldersWait, HolderThrowsOnlyAfterTeardown, CallsInv
<1> DEFINE Stays == p \in holds /\ pc'[p] = pc[p]
           Starts == p \in holds /\ pc'[p] = "running" /\ Ready
           GoesOn == p \in holds /\ pc[p] \notin {"idle", "made"} /\ pc'[p] # "threw"
           Throws == p \in holds /\ pc[p] = "running" /\ world = "gone"
<1>1. p \in Calls /\ p \in Crossing /\ p \notin Activations
  BY CallsAssumption DEF Calls, Crossing
<1>2. ASSUME NEW c \in Calls, Search(c) \/ Preview(c)
      PROVE  Stays \/ pc'[p] = "made"
  BY <1>1, <1>2 DEF Search, Preview, Make, CallTypes
<1>3. ASSUME NEW c \in Calls, StartRun(c)
      PROVE  Stays \/ Starts
  BY <1>1, <1>3 DEF StartRun, CallTypes
<1>4. ASSUME NEW a \in Activations, Activate(a)
      PROVE  Stays
  BY <1>1, <1>4 DEF Activate, CallTypes
<1>5. ASSUME NEW c \in Calls, Finish(c)
      PROVE  Stays \/ GoesOn
  BY <1>1, <1>5 DEF Finish, CallTypes
<1>6. ASSUME NEW c \in Crossing, CallEnter(c)
      PROVE  Stays \/ GoesOn \/ Throws
  <2>1. p \in holds /\ pc[c] = "running"
    BY <1>6 DEF CallEnter
  <2>2. CASE Bridge!InstanceExists
    BY <1>1, <1>6, <2>1, <2>2 DEF CallEnter, CallTypes
  <2>3. CASE ~Bridge!InstanceExists
    <3>1. CASE c = p
      BY <1>6, <2>1, <2>3, <3>1 DEF CallEnter, Bridge!CheckInstance, Bridge!InstanceExists, Ready
    <3>2. CASE c # p
      BY <1>1, <1>6, <2>1, <3>2 DEF CallEnter, CallTypes
    <3> QED BY <3>1, <3>2
  <2> QED BY <2>2, <2>3
<1>7. ASSUME NEW c \in Crossing, CallPost(c) \/ Return(c)
      PROVE  Stays \/ GoesOn
  <2>1. p \in holds /\ pc[c] \in {"entering", "waiting"}
    BY <1>7 DEF CallPost, Return, Frames, AboutToPost, Bridge!PostEvent, Bridge!PostToDead
  <2> QED BY <1>1, <1>7, <2>1 DEF CallPost, Return, CallTypes
<1>8. \/ Stays \/ pc'[p] = "made" \/ Starts \/ GoesOn \/ Throws
  BY <1>2, <1>3, <1>4, <1>5, <1>6, <1>7
  DEF Next, vars, QtStep, InSlot, SetPromise, CallbackAborts, CallbackDangles, Invalidate, Signal, RunClosure,
      ChildEnds, LoopStep, RunWorld, Teardown, Stop, callVars, Calls, Crossing
<1>9. Throws => Ready
  BY DEF Ready
<1> QED BY <1>8, <1>9, WorldGoesOn

\* A preview that holds the valid future starts after Qt has announced itself
\* (preview.cpp:159-162), so that its enter_with_task() throws after the teardown
\* only, for any number of previews and stops.
THEOREM HoldersFindQt == Spec => []HolderThrowsOnlyAfterTeardown
<1>1. Init => HoldersInv
  BY DEF Init, HoldersInv, HoldersWait, HolderThrowsOnlyAfterTeardown
<1>2. HoldersInv => HolderThrowsOnlyAfterTeardown
  BY DEF HoldersInv
<1> QED BY <1>1, <1>2, NextHoldersInv, CallsInvariance, PTL DEF Spec

\* What QtBridgeProofs shows of the queue and the handler holds inside ScopeCalls.
LEMMA BridgeRInvariance == Spec => []BP!RInv
  BY ImplementsBridge, BridgeConstants, BP!RInvariance, PTL

\* A stranded call stays one, and never becomes one that holds the future.
LEMMA StrandedKept ==
  ASSUME CallsInv, BP!IInv, [Next]_vars,
         NEW c \in (Crossing \ holds) \cup Stops, future[c] = "stranded"
  PROVE  c \in (Crossing \ holds') \cup Stops /\ future'[c] = "stranded"
<1>1. future'[c] = "stranded"
  BY StepIsBridgeStep, BridgeConstants, BP!FinalStays DEF BP!Closures
<1>2. ASSUME c \in Crossing \ holds, c \in holds'
      PROVE  FALSE
  <2>1. PICK q \in Searches \cup Previews : Search(q) \/ Preview(q)
    BY <1>2 DEF Next, vars, QtStep, LoopStep, RunWorld, Teardown, Stop, StartRun, Finish, Activate, CallEnter,
         CallPost, Return, ChildEnds, RunClosure, Signal, InSlot, SetPromise, CallbackAborts,
         CallbackDangles, Invalidate, callVars
  <2>2. q = c /\ pc[c] = "idle"
    BY <1>2, <2>1 DEF Search, Preview, Make
  <2> QED BY <1>2, <2>2 DEF CallsInv, Frames, NotCrossed
<1> QED BY <1>1, <1>2

\* The handler is stranded by a call that crosses the bridge before Qt is ready.
LEMMA NextStranding ==
  CallsInv /\ OtherTypes /\ HoldersInv /\ BP!RInv /\ OnlyUnreadyCallsStrand /\ [Next]_vars
    => OnlyUnreadyCallsStrand'
<1> SUFFICES ASSUME CallsInv, OtherTypes, HoldersInv, BP!RInv, OnlyUnreadyCallsStrand, [Next]_vars,
                    handler' = "stranded"
             PROVE  \E c \in (Crossing \ holds') \cup Stops : future'[c] = "stranded"
  BY DEF OnlyUnreadyCallsStrand
<1> USE DEF BP!RInv, BP!IInv
<1>1. CASE handler = "stranded"
  BY <1>1, StrandedKept DEF OnlyUnreadyCallsStrand
<1>2. CASE handler # "stranded"
  <2>1. \/ \E c \in Crossing : CallPost(c)
        \/ \E l \in Stops : Stop(l)
    BY <1>2 DEF Next, vars, bridgeVars, QtStep, LoopStep, RunWorld, Teardown, Search, Preview, Make,
         StartRun, Finish, Activate, CallEnter, Return, ChildEnds, RunClosure, Signal, InSlot, SetPromise,
         CallbackAborts, CallbackDangles, Invalidate, Bridge!CheckInstance, Bridge!HandleTask,
         Bridge!HandleLocker, Bridge!HandleQuit, Bridge!LeaveLoop, Bridge!ConstructApplication,
         Bridge!MoveHandler, Bridge!CallReady, Bridge!EnterLoop, Bridge!DestroyApplication, Bridge!Abort
  <2>2. ASSUME NEW t \in Crossing \cup Stops, Bridge!PostEvent(t) \/ Bridge!PostToDead(t)
        PROVE  future'[t] = "stranded" /\ handler = "none" /\ t \in entering /\ ~Ready
    <3>1. Bridge!PostEvent(t) /\ handler # "qt"
      BY <1>2, <2>2 DEF Bridge!PostEvent, Bridge!PostToDead
    <3>2. handler = "none"
      BY <1>2, <3>1 DEF BP!TypeOK, BP!Handlers
    <3>3. world \in {"unbuilt", "constructed"}
      BY <3>2 DEF BP!HandlerPlaced
    <3> QED BY <3>1, <3>2, <3>3 DEF Bridge!PostEvent, BP!TypeOK, BP!Closures, Ready
  <2>3. ASSUME NEW c \in Crossing, CallPost(c)
        PROVE  c \notin holds' /\ future'[c] = "stranded"
    <3>1. future'[c] = "stranded" /\ c \in entering /\ ~Ready /\ holds' = holds
      BY <2>2, <2>3 DEF CallPost
    <3>2. pc[c] = "entering"
      BY <3>1 DEF CallsInv, Frames, AboutToPost
    <3>3. c \in holds => c \in Previews
      BY CallsAssumption DEF OtherTypes, Crossing
    <3> QED BY <3>1, <3>2, <3>3 DEF HoldersInv, HoldersWait
  <2>4. ASSUME NEW l \in Stops, Stop(l)
        PROVE  future'[l] = "stranded"
    BY <1>2, <2>2, <2>4 DEF Stop, Bridge!Enter, Bridge!CheckInstance
  <2> QED BY <2>1, <2>3, <2>4
<1> QED BY <1>1, <1>2

\* The TaskHandler, and with it every later call, is stranded only by a call that
\* crosses the bridge unready: one without the future "Qt is ready", an activation
\* or a stop() (qtbridge.cpp:109, 139), never by a query that has waited
\* (preview.cpp:159-162), for any number of calls in any interleaving.
THEOREM UnreadyCallsStrand == Spec => []OnlyUnreadyCallsStrand
<1>1. Init => HoldersInv /\ OnlyUnreadyCallsStrand
  BY DEF Init, Bridge!Init, HoldersInv, HoldersWait, HolderThrowsOnlyAfterTeardown, OnlyUnreadyCallsStrand
<1>2. UInv => CallsInv /\ OtherTypes
  BY DEF UInv
<1> QED
  BY <1>1, <1>2, NextStranding, NextHoldersInv, UninstallInvariance, BridgeRInvariance, PTL DEF Spec

-----------------------------------------------------------------------------
(* The uninstalls implement UninstallService.                              *)

\* Stage and Outcome case by case.
LEMMA StageIs ==
  ASSUME NEW a \in Activations
  PROVE  /\ pc[a] = "idle" => Stage(a) = "idle"
         /\ pc[a] = "done" => Stage(a) = "answered"
         /\ pc[a] = "threw" => Stage(a) = "refused"
         /\ pc[a] \notin {"idle", "done", "threw"} => Stage(a) = "asked"
  BY Zenon DEF Stage

LEMMA OutcomeIs ==
  ASSUME NEW a \in Activations
  PROVE  /\ promise[a] \in {"yes", "no"} => Outcome(a) = promise[a]
         /\ promise[a] \notin {"yes", "no"} /\ pc[a] = "done" =>
                Outcome(a) = IF child[a] = "ok" THEN "yes" ELSE "no"
         /\ promise[a] \notin {"yes", "no"} /\ pc[a] # "done" => Outcome(a) = "none"
  BY DEF Outcome

LEMMA StageIsNext ==
  ASSUME NEW a \in Activations
  PROVE  /\ pc'[a] = "idle" => Stage(a)' = "idle"
         /\ pc'[a] = "done" => Stage(a)' = "answered"
         /\ pc'[a] = "threw" => Stage(a)' = "refused"
         /\ pc'[a] \notin {"idle", "done", "threw"} => Stage(a)' = "asked"
  BY Zenon DEF Stage

LEMMA OutcomeIsNext ==
  ASSUME NEW a \in Activations
  PROVE  /\ promise'[a] \in {"yes", "no"} => Outcome(a)' = promise'[a]
         /\ promise'[a] \notin {"yes", "no"} /\ pc'[a] = "done" =>
                Outcome(a)' = IF child'[a] = "ok" THEN "yes" ELSE "no"
         /\ promise'[a] \notin {"yes", "no"} /\ pc'[a] # "done" => Outcome(a)' = "none"
  BY DEF Outcome

\* The mapping is compared uninstall by uninstall.
StageMap == [a \in Activations |-> Stage(a)]
OutcomeMap == [a \in Activations |-> Outcome(a)]

LEMMA StageMoves ==
  ASSUME NEW a \in Activations, NEW s, Stage(a)' = s,
         \A b \in Activations \ {a} : Stage(b)' = Stage(b)
  PROVE  StageMap' = [StageMap EXCEPT ![a] = s]
  BY DEF StageMap

LEMMA OutcomeMoves ==
  ASSUME NEW a \in Activations, NEW s, Outcome(a)' = s,
         \A b \in Activations \ {a} : Outcome(b)' = Outcome(b)
  PROVE  OutcomeMap' = [OutcomeMap EXCEPT ![a] = s]
  BY DEF OutcomeMap

LEMMA StagesStay == (\A a \in Activations : Stage(a)' = Stage(a)) => StageMap' = StageMap
  BY DEF StageMap

LEMMA OutcomesStay == (\A a \in Activations : Outcome(a)' = Outcome(a)) => OutcomeMap' = OutcomeMap
  BY DEF OutcomeMap

\* Where nothing an uninstall's mapping looks at moves, it does not either.
LEMMA SameUninstall ==
  ASSUME NEW a \in Activations, pc'[a] = pc[a], promise'[a] = promise[a], child'[a] = child[a]
  PROVE  Stage(a)' = Stage(a) /\ Outcome(a)' = Outcome(a)
  BY DEF Stage, Outcome

\* An activation is asked for when it begins.
LEMMA ActivateAsks ==
  ASSUME UInv, NEW a \in Activations, Activate(a)
  PROVE  Service!Ask(a)
<1> USE DEF UInv, CallsInv
<1>1. /\ pc[a] = "idle" /\ pc' = [pc EXCEPT ![a] = "running"]
      /\ UNCHANGED <<bridgeVars, promise, child, reply, invalidated>>
  BY DEF Activate
<1>2. a \in Calls /\ a \in Crossing /\ Activations \subseteq Calls
  BY DEF Calls, Crossing
<1>3. \A b \in Activations : pc'[b] = IF b = a THEN "running" ELSE pc[b]
  BY <1>1, <1>2 DEF CallTypes
<1>4. promise[a] \notin {"yes", "no"}
  BY <1>1, <1>2 DEF ServiceInv, PromiseIsInUse
<1>5. Stage(a) = "idle" /\ Stage(a)' = "asked"
  BY <1>1, <1>3, StageIs, StageIsNext
<1>6. \A b \in Activations : Outcome(b)' = Outcome(b)
  BY <1>1, <1>3, <1>4, OutcomeIs, OutcomeIsNext, SameUninstall
<1>7. StageMap' = [StageMap EXCEPT ![a] = "asked"]
  BY <1>1, <1>3, <1>5, StageMoves, SameUninstall
<1>8. OutcomeMap' = OutcomeMap
  BY <1>6, OutcomesStay
<1>9. Alive /\ Alive'
  BY <1>1 DEF Activate, Alive, bridgeVars
<1> QED BY <1>1, <1>5, <1>7, <1>8, <1>9 DEF Service!Ask, StageMap, OutcomeMap

\* Steps that concern no uninstall, or nothing of one that the dash can tell.
LEMMA NothingTold ==
  ASSUME \A a \in Activations : Stage(a)' = Stage(a) /\ Outcome(a)' = Outcome(a),
         UNCHANGED <<reply, invalidated>>
  PROVE  /\ Alive' = Alive => UNCHANGED Service!vars
         /\ Alive /\ ~Alive' => Service!Die
<1>1. StageMap' = StageMap /\ OutcomeMap' = OutcomeMap
  BY StagesStay, OutcomesStay
<1> QED BY <1>1 DEF Service!vars, Service!Die, StageMap, OutcomeMap, Alive

\* Only a dead bridge, or a callback, changes whether the process lives.
LEMMA BridgeLives ==
  ASSUME NEW c, \/ Bridge!CheckInstance(c) \/ Bridge!PostEvent(c) \/ Bridge!PostToDead(c)
                \/ Bridge!HandleTask(c, "value") \/ Bridge!HandleLocker(c) \/ Bridge!HandleQuit
                \/ Bridge!LeaveLoop \/ Bridge!ConstructApplication \/ Bridge!MoveHandler \/ Bridge!CallReady \/ Bridge!EnterLoop
                \/ Bridge!DestroyApplication
  PROVE  Alive /\ (Alive' \/ Bridge!PostToDead(c))
  BY DEF Alive, Bridge!CheckInstance, Bridge!PostEvent, Bridge!PostToDead, Bridge!HandleTask,
         Bridge!HandleLocker, Bridge!HandleQuit, Bridge!LeaveLoop, Bridge!InLoop, Bridge!ConstructApplication, Bridge!MoveHandler,
         Bridge!CallReady, Bridge!EnterLoop, Bridge!DestroyApplication

\* The queries move no uninstall.
LEMMA QueryTells ==
  ASSUME UInv, NEW c \in Searches \cup Previews, Search(c) \/ Preview(c) \/ StartRun(c) \/ Finish(c)
  PROVE  UNCHANGED Service!vars
<1>1. c \in Calls /\ c \notin Activations /\ Activations \subseteq Calls
  BY CallsAssumption DEF Calls, Crossing
<1>2. \A a \in Activations : pc'[a] = pc[a] /\ promise'[a] = promise[a] /\ child'[a] = child[a]
  BY <1>1 DEF Search, Preview, Make, StartRun, Finish, UInv, CallsInv, CallTypes
<1>3. UNCHANGED <<reply, invalidated>> /\ Alive' = Alive
  BY DEF Search, Preview, Make, StartRun, Finish, bridgeVars, Alive
<1> QED BY <1>2, <1>3, SameUninstall, NothingTold

\* Entering the bridge: an uninstall that finds no application is refused.
LEMMA EnterTells ==
  ASSUME UInv, NEW c \in Crossing, CallEnter(c)
  PROVE  UNCHANGED Service!vars \/ (c \in Activations /\ Service!Refuse(c))
<1> USE DEF UInv, CallsInv
<1>1. c \in Calls /\ Crossing \subseteq Calls /\ Activations \subseteq Crossing
  BY DEF Calls, Crossing
<1>2. /\ pc[c] = "running" /\ promise[c] \notin {"yes", "no"}
      /\ UNCHANGED <<child, reply, invalidated>> /\ Bridge!CheckInstance(c)
  BY DEF CallEnter, ServiceInv, PromiseIsInUse
<1>3. \A a \in Activations \ {c} : Stage(a)' = Stage(a) /\ Outcome(a)' = Outcome(a)
  BY <1>1, <1>2, SameUninstall DEF CallEnter, CallTypes
<1>4. Alive /\ Alive'
  BY <1>2, BridgeLives DEF Bridge!CheckInstance, Bridge!PostToDead, Alive
<1>5. \/ pc'[c] = "entering" /\ promise'[c] = "unset"
      \/ pc'[c] = "threw" /\ promise'[c] = "dead"
  BY <1>1 DEF CallEnter, CallTypes
<1>6. c \in Activations => Outcome(c) = "none" /\ Outcome(c)' = "none" /\ Stage(c) = "asked"
  BY <1>2, <1>5, OutcomeIs, OutcomeIsNext, StageIs
<1>7. CASE pc'[c] = "entering"
  BY <1>2, <1>3, <1>4, <1>6, <1>7, StageIsNext, NothingTold
<1>8. CASE pc'[c] = "threw" /\ c \in Activations
  <2>1. StageMap' = [StageMap EXCEPT ![c] = "refused"]
    BY <1>3, <1>8, StageIsNext, StageMoves
  <2>2. OutcomeMap' = OutcomeMap
    BY <1>3, <1>6, OutcomesStay
  <2> QED BY <1>2, <1>4, <1>6, <1>8, <2>1, <2>2 DEF Service!Refuse, StageMap, OutcomeMap
<1>9. CASE c \notin Activations
  BY <1>2, <1>3, <1>4, <1>9, NothingTold
<1> QED BY <1>5, <1>7, <1>8, <1>9

\* Posting the event says nothing; it kills the process if the bridge is gone.
LEMMA PostTells ==
  ASSUME UInv, NEW c \in Crossing, CallPost(c)
  PROVE  UNCHANGED Service!vars \/ Service!Die
<1> USE DEF UInv, CallsInv
<1>1. c \in Calls /\ Crossing \subseteq Calls /\ Activations \subseteq Crossing
  BY DEF Calls, Crossing
<1>2. /\ pc[c] = "entering" /\ promise[c] = "unset" /\ pc' = [pc EXCEPT ![c] = "waiting"]
      /\ UNCHANGED <<promise, child, reply, invalidated>>
  BY DEF CallPost, Bridge!PostEvent, Bridge!PostToDead, Frames, AboutToPost
<1>3. \A a \in Activations \ {c} : Stage(a)' = Stage(a) /\ Outcome(a)' = Outcome(a)
  BY <1>1, <1>2, SameUninstall DEF CallTypes
<1>4. pc'[c] = "waiting" /\ promise'[c] = "unset"
  BY <1>1, <1>2 DEF CallTypes
<1>5. c \in Activations => Stage(c)' = Stage(c) /\ Outcome(c)' = Outcome(c)
  BY <1>2, <1>4, StageIs, StageIsNext, OutcomeIs, OutcomeIsNext
<1>6. Alive
  BY BridgeLives DEF CallPost
<1> QED BY <1>2, <1>3, <1>5, <1>6, NothingTold DEF Alive

\* The return answers the uninstall from the outcome the promise holds, which the
\* child goes on telling when the frame is gone.
LEMMA ReturnTells ==
  ASSUME UInv, NEW c \in Crossing, Return(c)
  PROVE  UNCHANGED Service!vars \/ (c \in Activations /\ Service!Answer(c))
<1> USE DEF UInv, CallsInv
<1>1. c \in Calls /\ Crossing \subseteq Calls /\ Activations \subseteq Crossing
  BY DEF Calls, Crossing
<1>2. /\ pc[c] = "waiting" /\ promise[c] \in {"yes", "no"}
      /\ pc' = [pc EXCEPT ![c] = "done"] /\ promise' = [promise EXCEPT ![c] = "dead"]
      /\ UNCHANGED <<bridgeVars, child, invalidated>>
  BY DEF Return
<1>3. pc'[c] = "done" /\ promise'[c] = "dead"
  BY <1>1, <1>2 DEF CallTypes
<1>4. \A a \in Activations \ {c} : Stage(a)' = Stage(a) /\ Outcome(a)' = Outcome(a)
  BY <1>1, <1>2, SameUninstall DEF CallTypes
<1>5. Alive /\ Alive'
  BY <1>2 DEF Return, Alive, bridgeVars
<1>6. CASE c \in Activations
  <2>1. Stage(c) = "asked" /\ Outcome(c) = promise[c] /\ Stage(c)' = "answered"
    BY <1>2, <1>3, <1>6, StageIs, StageIsNext, OutcomeIs
  <2>2. Outcome(c)' = Outcome(c)
    BY <1>2, <1>3, <1>6, <2>1, OutcomeIsNext DEF ServiceInv, PromiseTellsChild
  <2>3. StageMap' = [StageMap EXCEPT ![c] = "answered"]
    BY <1>4, <1>6, <2>1, StageMoves
  <2>4. OutcomeMap' = OutcomeMap
    BY <1>4, <2>2, OutcomesStay
  <2>5. reply' = [reply EXCEPT ![c] =
                     IF Outcome(c) = "yes" /\ c \in LonelyResults THEN "search" ELSE "dash"]
    BY <1>6, <2>1 DEF Return, OtherTypes
  <2>6. Outcome(c) # "none"
    BY <1>2, <2>1
  <2> QED BY <1>2, <1>5, <1>6, <2>1, <2>3, <2>4, <2>5, <2>6 DEF Service!Answer, StageMap, OutcomeMap
<1>7. CASE c \notin Activations
  <2>1. reply' = reply
    BY <1>7 DEF Return, OtherTypes
  <2> QED BY <1>2, <1>4, <1>5, <1>7, <2>1, NothingTold
<1> QED BY <1>6, <1>7

\* A child that starts or ends says nothing by itself: its caller waits.
LEMMA ChildTells ==
  ASSUME UInv, NEW c \in Crossing, pc[c] = "waiting", promise[c] = "unset",
         NEW state, child' = [child EXCEPT ![c] = state],
         UNCHANGED <<pc, promise, reply, invalidated>>, Alive' = Alive
  PROVE  UNCHANGED Service!vars
<1>1. \A a \in Activations \ {c} : Stage(a)' = Stage(a) /\ Outcome(a)' = Outcome(a)
  BY SameUninstall DEF UInv, CallsInv, CallTypes, Crossing
<1>2. c \in Activations => Stage(c)' = Stage(c) /\ Outcome(c)' = Outcome(c)
  BY StageIs, StageIsNext, OutcomeIs, OutcomeIsNext
<1> QED BY <1>1, <1>2, NothingTold

\* The callback decides the uninstall.
LEMMA SetPromiseTells ==
  ASSUME UInv, NEW c \in Crossing, SetPromise(c)
  PROVE  UNCHANGED Service!vars \/ \E verdict \in {"yes", "no"} : c \in Activations /\ Service!Decide(c, verdict)
<1> USE DEF UInv, CallsInv
<1>1. Activations \subseteq Crossing
  BY DEF Crossing
<1>2. /\ promise[c] = "unset" /\ promise' = [promise EXCEPT ![c] = Head(slots)[2]]
      /\ Head(slots)[2] \in {"yes", "no"}
      /\ UNCHANGED <<bridgeVars, pc, child, reply, invalidated>>
  BY DEF SetPromise, InCallback, CallTypes, Steps
<1>3. pc[c] \in {"entering", "waiting"}
  BY <1>2 DEF ServiceInv, PromiseIsInUse
<1>4. \A a \in Activations \ {c} : Stage(a)' = Stage(a) /\ Outcome(a)' = Outcome(a)
  BY <1>1, <1>2, SameUninstall DEF CallTypes
<1>5. Alive /\ Alive'
  BY <1>2 DEF SetPromise, InCallback, Alive, bridgeVars
<1>6. CASE c \in Activations
  <2>1. promise'[c] = Head(slots)[2]
    BY <1>2 DEF CallTypes
  <2>2. Stage(c) = "asked" /\ Stage(c)' = "asked" /\ Outcome(c) = "none" /\ Outcome(c)' = Head(slots)[2]
    BY <1>2, <1>3, <1>6, <2>1, StageIs, StageIsNext, OutcomeIs, OutcomeIsNext
  <2>3. StageMap' = StageMap
    BY <1>4, <2>2, StagesStay
  <2>4. OutcomeMap' = [OutcomeMap EXCEPT ![c] = Head(slots)[2]]
    BY <1>4, <1>6, <2>2, OutcomeMoves
  <2> QED BY <1>2, <1>5, <1>6, <2>2, <2>3, <2>4 DEF Service!Decide, StageMap, OutcomeMap
<1>7. CASE c \notin Activations
  BY <1>2, <1>4, <1>5, <1>7, NothingTold
<1> QED BY <1>6, <1>7

\* The refresh follows a success, once.
LEMMA InvalidateTells ==
  ASSUME UInv, NEW c \in Crossing, Invalidate(c)
  PROVE  c \in Activations /\ Service!Refresh(c)
<1> USE DEF UInv, CallsInv, ServiceInv
<1>1. /\ 1 \in 1..Len(slots) /\ slots[1] = <<c, "invalidate">>
      /\ invalidated' = invalidated \cup {c}
      /\ UNCHANGED <<bridgeVars, pc, promise, child, reply>>
  BY DEF Invalidate, CallTypes
<1>2. c \in Activations /\ c \notin invalidated /\ child[c] = "ok" /\ promise[c] # "unset" /\ c \in signalled
  BY <1>1 DEF RefreshIsLast, StepsTellChild, SlotsInv
<1>3. Outcome(c) = "yes"
  <2>1. promise[c] # "no"
    BY <1>2 DEF PromiseTellsChild
  <2>2. promise[c] \in {"yes", "dead", "none"}
    BY <1>2, <2>1 DEF CallTypes, Promises
  <2>3. promise[c] \in {"dead", "none"} => pc[c] = "done"
    <3>1. c \in Calls /\ c \in Crossing
      BY DEF Calls, Crossing
    <3>2. pc[c] \in Stages \ {"idle", "made", "running", "threw", "entering"}
      BY <1>2, <3>1 DEF CallTypes, Frames, NotCrossed, PromiseIsInUse
    <3> QED BY <3>1, <3>2 DEF PromiseIsInUse, Stages
  <2> QED BY <1>2, <2>2, <2>3, OutcomeIs
<1>4. \A a \in Activations : Stage(a)' = Stage(a) /\ Outcome(a)' = Outcome(a)
  BY <1>1, SameUninstall
<1>5. StageMap' = StageMap /\ OutcomeMap' = OutcomeMap
  BY <1>4, StagesStay, OutcomesStay
<1>6. Alive /\ Alive'
  BY <1>1 DEF Invalidate, Alive, bridgeVars
<1> QED BY <1>1, <1>2, <1>3, <1>5, <1>6 DEF Service!Refresh, StageMap, OutcomeMap

\* The other steps of the Qt thread and of stop(): nothing of an uninstall moves,
\* unless the process dies.
LEMMA OtherTells ==
  ASSUME UInv, UNCHANGED <<pc, promise, child, reply, invalidated>>, Alive
  PROVE  UNCHANGED Service!vars \/ Service!Die
<1>1. \A a \in Activations : Stage(a)' = Stage(a) /\ Outcome(a)' = Outcome(a)
  BY SameUninstall
<1> QED BY <1>1, NothingTold DEF Alive

\* Every step of the calls is a step of the service, or the dash cannot tell it.
LEMMA StepIsServiceStep == UInv /\ [Next]_vars => [Service!Next]_(Service!vars)
<1> SUFFICES ASSUME UInv, [Next]_vars
             PROVE  Service!Next \/ UNCHANGED Service!vars
  OBVIOUS
<1> USE DEF Service!Next
<1>1. ASSUME NEW c \in Searches \cup Previews, Search(c) \/ Preview(c) \/ StartRun(c) \/ Finish(c)
      PROVE  UNCHANGED Service!vars
  BY <1>1, QueryTells
<1>2. ASSUME NEW a \in Activations, Activate(a)
      PROVE  Service!Next
  BY <1>2, ActivateAsks
<1>3. ASSUME NEW c \in Crossing, CallEnter(c) \/ CallPost(c) \/ Return(c)
      PROVE  Service!Next \/ UNCHANGED Service!vars
  BY <1>3, EnterTells, PostTells, ReturnTells
<1>4. ASSUME NEW c \in Crossing, NEW ending \in Endings, ChildEnds(c, ending)
      PROVE  UNCHANGED Service!vars
  <2>1. pc[c] = "waiting" /\ promise[c] = "unset"
    BY <1>4 DEF ChildEnds, UInv, CallsInv, Frames, ChildHasCaller, Endings
  <2>2. Alive' = Alive
    BY <1>4 DEF ChildEnds, Alive, bridgeVars
  <2> QED BY <1>4, <2>1, <2>2, ChildTells DEF ChildEnds
<1>5. ASSUME NEW c \in Crossing, RunClosure(c)
      PROVE  UNCHANGED Service!vars
  <2>1. pc[c] = "waiting" /\ promise[c] = "unset"
    BY <1>5, ClosureHasCaller
  <2>2. Alive' = Alive
    BY <1>5 DEF RunClosure, Bridge!HandleTask, Alive
  <2> QED BY <1>5, <2>1, <2>2, ChildTells DEF RunClosure
<1>6. ASSUME NEW c \in Crossing, SetPromise(c) \/ Invalidate(c)
      PROVE  Service!Next \/ UNCHANGED Service!vars
  BY <1>6, SetPromiseTells, InvalidateTells
<1>7. ASSUME \/ \E c \in Crossing : CallbackAborts(c) \/ CallbackDangles(c)
             \/ \E c \in Crossing, found \in BOOLEAN : Signal(c, found)
             \/ LoopStep \/ RunWorld \/ Teardown
             \/ \E l \in Stops : Stop(l)
      PROVE  Service!Next \/ UNCHANGED Service!vars
  <2>1. UNCHANGED <<pc, promise, child, reply, invalidated>>
    BY <1>7 DEF CallbackAborts, CallbackDangles, Signal, LoopStep, RunWorld, Teardown, Stop, callVars
  <2>2. Alive
    BY <1>7 DEF CallbackAborts, CallbackDangles, InCallback, Signal, LoopStep, RunWorld, Teardown, Stop, Alive,
         Bridge!Enter, Bridge!CheckInstance, Bridge!PostEvent, Bridge!PostToDead, Bridge!HandleLocker,
         Bridge!HandleQuit, Bridge!LeaveLoop, Bridge!InLoop, Bridge!ConstructApplication, Bridge!MoveHandler, Bridge!CallReady,
         Bridge!EnterLoop, Bridge!DestroyApplication
  <2> QED BY <2>1, <2>2, OtherTells
<1>8. CASE UNCHANGED vars
  <2>1. UNCHANGED <<pc, promise, child, reply, invalidated>> /\ Alive' = Alive
    BY <1>8 DEF vars, bridgeVars, callVars, Alive
  <2>2. \A a \in Activations : Stage(a)' = Stage(a) /\ Outcome(a)' = Outcome(a)
    BY <2>1, SameUninstall
  <2> QED BY <2>1, <2>2, NothingTold
<1> QED BY <1>1, <1>2, <1>3, <1>4, <1>5, <1>6, <1>7, <1>8 DEF Next, QtStep, InSlot

\* For any number of calls, the uninstalls keep the promise of UninstallService:
\* each is decided once by its own child, answered once from that decision and
\* refreshed for at most once, whatever the threads, closures, children and slots
\* of the others do in between (PerformUninstallAction::activate,
\* PackageManager::uninstall).
THEOREM ImplementsService == Spec => ImplementsUninstallService
<1>1. Init => Service!Init
  <2> SUFFICES ASSUME Init PROVE Service!Init
    OBVIOUS
  <2>1. \A a \in Activations : pc[a] = "idle" /\ promise[a] = "none"
    BY DEF Init, Calls, Crossing
  <2>2. \A a \in Activations : Stage(a) = "idle" /\ Outcome(a) = "none"
    BY <2>1, StageIs, OutcomeIs
  <2>3. Alive = TRUE
    BY DEF Init, Bridge!Init, Alive
  <2> QED BY <2>2, <2>3 DEF Init, Service!Init
<1> QED
  BY <1>1, StepIsServiceStep, UninstallInvariance, PTL DEF Spec, ImplementsUninstallService, Service!Spec

=============================================================================
