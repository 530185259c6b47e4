--------------------------- MODULE QtBridgeProofs ---------------------------
(***************************************************************************)
(* Proofs about QtBridge for any number of threads and of calls of         *)
(* destroy().                                                              *)
(***************************************************************************)
EXTENDS QtBridge, TLAPS

\* A closure that is being entered has no future yet.
EnteringIsNew == \A t \in entering : future[t] = "none"

\* What the loop has handled has run, and what it has not is pending or was
\* deleted: the future tells on which side of `handled' a closure stands.
HandledHaveRun ==
    \A i \in 1..handled : posted[i] \in Closures => future[posted[i]] \in {"value", "exception"}

QueuedHaveNot ==
    \A i \in (handled + 1)..Len(posted) :
        posted[i] \in Closures => future[posted[i]] \in {"pending", "broken"}

\* No closure is posted twice.
PostedOnce ==
    \A i, j \in 1..Len(posted) : (posted[i] \in Closures /\ posted[i] = posted[j]) => i = j

QuitHandled == \E j \in 1..handled : posted[j] = Quit

\* The loop is left, and events are dropped, only after a Quit event.
QuitComesFirst ==
    /\ world \in {"quitting", "left", "gone"} => QuitHandled
    /\ \A t \in Closures : future[t] = "broken" => QuitHandled

\* Only the teardown deletes events.
BrokenAtTheEnd ==
    \A t \in Closures : future[t] = "broken" => world \in {"gone", "aborted"}

IInv ==
    /\ TypeOK
    /\ EnteringIsNew
    /\ HandledHaveRun
    /\ QueuedHaveNot
    /\ PostedOnce
    /\ QuitComesFirst
    /\ BrokenAtTheEnd

\* The application starts with nothing posted, nothing entered: IInv holds.
LEMMA InitIInv == Init => IInv
  BY BridgeAssumption
  DEF Init, IInv, TypeOK, Worlds, Handlers, Futures, Settled, EnteringIsNew, HandledHaveRun,
      QueuedHaveNot, PostedOnce, QuitComesFirst, QuitHandled, BrokenAtTheEnd

\* Posting an event extends the history and changes none of it.
LEMMA AppendKeeps ==
  ASSUME NEW S, NEW s \in Seq(S), NEW e \in S
  PROVE  /\ Append(s, e) \in Seq(S)
         /\ Len(Append(s, e)) = Len(s) + 1
         /\ Append(s, e)[Len(s) + 1] = e
         /\ \A i \in 1..Len(s) : Append(s, e)[i] = s[i]
  OBVIOUS

\* A step of enter_with_task() keeps IInv.
LEMMA EnterIInv ==
  ASSUME IInv, NEW t \in Closures, Enter(t)
  PROVE  IInv'
<1> USE DEF IInv
<1>1. CASE CheckInstance(t)
  <2>1. TypeOK'
    BY <1>1 DEF CheckInstance, TypeOK, Futures, Settled
  <2>2. EnteringIsNew'
    BY <1>1 DEF CheckInstance, TypeOK, EnteringIsNew
  <2>3. \A c \in Closures : future[c] # "none" => future'[c] = future[c]
    BY <1>1 DEF CheckInstance, TypeOK
  <2>4. \A c \in Closures : future'[c] = "broken" => future[c] = "broken"
    BY <1>1 DEF CheckInstance, TypeOK
  <2>5. HandledHaveRun' /\ QueuedHaveNot'
    BY <1>1, <2>3 DEF CheckInstance, TypeOK, HandledHaveRun, QueuedHaveNot
  <2>6. PostedOnce' /\ QuitComesFirst' /\ BrokenAtTheEnd'
    BY <1>1, <2>4 DEF CheckInstance, PostedOnce, QuitComesFirst, QuitHandled, BrokenAtTheEnd
  <2> QED BY <2>1, <2>2, <2>5, <2>6
<1>2. CASE PostEvent(t) /\ handler = "qt"
  <2>1. t \in entering /\ future[t] = "none"
    BY <1>2 DEF PostEvent, EnteringIsNew
  <2>2. /\ Len(posted') = Len(posted) + 1
        /\ posted'[Len(posted) + 1] = t
        /\ \A i \in 1..Len(posted) : posted'[i] = posted[i]
        /\ posted' \in Seq(Closures \cup {Quit})
    BY <1>2, AppendKeeps DEF PostEvent, TypeOK
  <2>3. \A i \in 1..Len(posted) : posted[i] # t
    <3>1. \A i \in 1..Len(posted) : posted[i] = t => future[t] # "none"
      <4> SUFFICES ASSUME NEW i \in 1..Len(posted), posted[i] = t
                   PROVE  future[t] # "none"
        OBVIOUS
      <4>1. CASE i \in 1..handled
        BY <4>1 DEF HandledHaveRun
      <4>2. CASE i \in (handled + 1)..Len(posted)
        BY <4>2 DEF QueuedHaveNot
      <4> QED BY <4>1, <4>2 DEF TypeOK
    <3> QED BY <3>1, <2>1
  <2>4. TypeOK'
    BY <1>2, <2>2 DEF PostEvent, TypeOK, Futures, Settled
  <2>5. EnteringIsNew'
    BY <1>2 DEF PostEvent, TypeOK, EnteringIsNew
  <2>6. HandledHaveRun'
    BY <1>2, <2>2, <2>3 DEF PostEvent, TypeOK, HandledHaveRun
  <2>7. QueuedHaveNot'
    <3> SUFFICES ASSUME NEW i \in (handled + 1)..(Len(posted) + 1), posted'[i] \in Closures
                 PROVE  future'[posted'[i]] \in {"pending", "broken"}
      BY <1>2, <2>2 DEF PostEvent, QueuedHaveNot
    <3>1. CASE i = Len(posted) + 1
      BY <3>1, <1>2, <2>2 DEF PostEvent, TypeOK
    <3>2. CASE i \in (handled + 1)..Len(posted)
      BY <3>2, <1>2, <2>2, <2>3 DEF PostEvent, TypeOK, QueuedHaveNot
    <3> QED BY <3>1, <3>2 DEF TypeOK
  <2>8. PostedOnce'
    <3> SUFFICES ASSUME NEW i \in 1..(Len(posted) + 1), NEW j \in 1..(Len(posted) + 1),
                        posted'[i] \in Closures, posted'[i] = posted'[j]
                 PROVE  i = j
      BY <2>2 DEF PostedOnce
    <3>1. CASE i \in 1..Len(posted) /\ j \in 1..Len(posted)
      BY <3>1, <2>2 DEF PostedOnce
    <3>2. CASE i = Len(posted) + 1 \/ j = Len(posted) + 1
      BY <3>2, <2>2, <2>3 DEF TypeOK
    <3> QED BY <3>1, <3>2 DEF TypeOK
  <2>9. QuitHandled => QuitHandled'
    BY <1>2, <2>2 DEF PostEvent, TypeOK, QuitHandled
  <2>10. QuitComesFirst'
    BY <1>2, <2>9 DEF PostEvent, TypeOK, QuitComesFirst
  <2>11. BrokenAtTheEnd'
    BY <1>2 DEF PostEvent, TypeOK, BrokenAtTheEnd
  <2> QED BY <2>4, <2>5, <2>6, <2>7, <2>8, <2>10, <2>11
<1>3. CASE PostToDead(t)
  <2>1. future[t] = "none"
    BY <1>3 DEF PostToDead, EnteringIsNew
  <2>2. TypeOK' /\ EnteringIsNew'
    BY <1>3 DEF PostToDead, TypeOK, EnteringIsNew, Worlds, Futures, Settled
  <2>3. \A c \in Closures : future[c] # "none" => future'[c] = future[c]
    BY <1>3, <2>1 DEF PostToDead, TypeOK
  <2>4. HandledHaveRun' /\ QueuedHaveNot'
    BY <1>3, <2>3 DEF PostToDead, TypeOK, HandledHaveRun, QueuedHaveNot
  <2>5. PostedOnce'
    BY <1>3 DEF PostToDead, PostedOnce
  <2>6. QuitHandled /\ QuitHandled'
    BY <1>3 DEF PostToDead, QuitComesFirst, QuitHandled
  <2>7. QuitComesFirst' /\ BrokenAtTheEnd'
    BY <1>3, <2>6 DEF PostToDead, QuitComesFirst, BrokenAtTheEnd
  <2> QED BY <2>2, <2>4, <2>5, <2>7
<1>4. CASE PostEvent(t) /\ handler # "qt"
  <2>1. /\ t \in entering /\ future[t] = "none"
        /\ entering' = entering \ {t} /\ handler' = "stranded"
        /\ future' = [future EXCEPT ![t] = "stranded"]
        /\ UNCHANGED <<world, posted, handled>>
    BY <1>4 DEF PostEvent, EnteringIsNew
  <2>2. TypeOK' /\ EnteringIsNew'
    BY <2>1 DEF TypeOK, EnteringIsNew, Handlers, Futures, Settled
  <2>3. \A c \in Closures : future[c] # "none" => future'[c] = future[c]
    BY <2>1 DEF TypeOK
  <2>4. \A c \in Closures : future'[c] = "broken" => future[c] = "broken"
    BY <2>1 DEF TypeOK
  <2>5. HandledHaveRun' /\ QueuedHaveNot' /\ PostedOnce'
    BY <2>1, <2>3 DEF TypeOK, HandledHaveRun, QueuedHaveNot, PostedOnce
  <2>6. QuitComesFirst' /\ BrokenAtTheEnd'
    BY <2>1, <2>4 DEF QuitComesFirst, QuitHandled, BrokenAtTheEnd
  <2> QED BY <2>2, <2>5, <2>6
<1> QED BY <1>1, <1>2, <1>3, <1>4 DEF Enter

\* Handling one event moves it from the queue to the handled ones.
LEMMA HandleIInv ==
  ASSUME IInv, NEW t \in Closures, NextEventIs(t), handled' = handled + 1,
         NEW outcome \in {"value", "exception"}, future' = [future EXCEPT ![t] = outcome],
         UNCHANGED <<world, handler, entering>>,
         \/ UNCHANGED posted
         \/ posted' = Append(posted, Quit)
  PROVE  IInv'
<1> USE DEF IInv
<1>1. /\ handled + 1 \in 1..Len(posted)
      /\ posted[handled + 1] = t
      /\ future[t] \in {"pending", "broken"}
  BY DEF NextEventIs, TypeOK, QueuedHaveNot
<1>2. /\ posted' \in Seq(Closures \cup {Quit})
      /\ Len(posted') \in {Len(posted), Len(posted) + 1}
      /\ \A i \in 1..Len(posted) : posted'[i] = posted[i]
      /\ Len(posted') = Len(posted) + 1 => posted'[Len(posted) + 1] = Quit
  <2>1. posted \in Seq(Closures \cup {Quit}) /\ Len(posted) \in Nat
    BY DEF TypeOK
  <2>2. CASE UNCHANGED posted
    BY <2>1, <2>2
  <2>3. CASE posted' = Append(posted, Quit)
    <3>1. /\ Append(posted, Quit) \in Seq(Closures \cup {Quit})
          /\ Len(Append(posted, Quit)) = Len(posted) + 1
          /\ Append(posted, Quit)[Len(posted) + 1] = Quit
          /\ \A i \in 1..Len(posted) : Append(posted, Quit)[i] = posted[i]
      BY <2>1, AppendKeeps
    <3> QED BY <2>1, <2>3, <3>1
  <2> QED BY <2>2, <2>3
<1>3. \A i \in 1..Len(posted) : posted[i] = t => i = handled + 1
  BY <1>1 DEF PostedOnce
<1>4. TypeOK'
  BY <1>1, <1>2 DEF TypeOK, Futures, Settled
<1>5. EnteringIsNew'
  BY <1>1 DEF TypeOK, EnteringIsNew
<1>6. HandledHaveRun'
  <2> SUFFICES ASSUME NEW i \in 1..(handled + 1), posted'[i] \in Closures
               PROVE  future'[posted'[i]] \in {"value", "exception"}
    BY DEF HandledHaveRun
  <2>1. CASE i = handled + 1
    BY <2>1, <1>1, <1>2 DEF TypeOK
  <2>2. CASE i \in 1..handled
    BY <2>2, <1>1, <1>2, <1>3 DEF TypeOK, HandledHaveRun
  <2> QED BY <2>1, <2>2 DEF TypeOK
<1>7. QueuedHaveNot'
  <2> SUFFICES ASSUME NEW i \in (handled + 2)..Len(posted'), posted'[i] \in Closures
               PROVE  future'[posted'[i]] \in {"pending", "broken"}
    BY DEF QueuedHaveNot, TypeOK
  <2>1. i \in 1..Len(posted)
    BY <1>2, BridgeAssumption DEF TypeOK, Closures
  <2> QED BY <2>1, <1>1, <1>2, <1>3 DEF TypeOK, QueuedHaveNot
<1>8. PostedOnce'
  <2> SUFFICES ASSUME NEW i \in 1..Len(posted'), NEW j \in 1..Len(posted'),
                      posted'[i] \in Closures, posted'[i] = posted'[j]
               PROVE  i = j
    BY DEF PostedOnce
  <2>1. i \in 1..Len(posted) /\ j \in 1..Len(posted)
    BY <1>2, BridgeAssumption DEF TypeOK, Closures
  <2> QED BY <2>1, <1>2 DEF PostedOnce
<1>9. QuitHandled => QuitHandled'
  <2> SUFFICES ASSUME NEW i \in 1..handled, posted[i] = Quit PROVE i \in 1..handled' /\ posted'[i] = Quit
    BY DEF QuitHandled
  <2>1. i \in 1..Len(posted) /\ handled \in Nat
    BY DEF TypeOK
  <2> QED BY <2>1, <1>2
<1>10. QuitComesFirst'
  BY <1>9 DEF TypeOK, QuitComesFirst
<1>11. BrokenAtTheEnd'
  BY DEF TypeOK, BrokenAtTheEnd
<1> QED BY <1>4, <1>5, <1>6, <1>7, <1>8, <1>10, <1>11

\* The steps that change neither the history nor the threads keep IInv.
LEMMA WorldIInv ==
  ASSUME IInv,
         \/ ConstructApplication \/ MoveHandler \/ CallReady \/ EnterLoop \/ HandleQuit
         \/ LeaveLoop \/ DestroyApplication \/ Abort
  PROVE  IInv'
<1> USE DEF IInv
<1>1. CASE ConstructApplication \/ MoveHandler \/ CallReady \/ EnterLoop \/ LeaveLoop \/ Abort
  <2>1. UNCHANGED <<posted, handled, entering, future>> /\ world' \in Worlds /\ handler' \in Handlers
    BY <1>1 DEF ConstructApplication, MoveHandler, CallReady, EnterLoop, LeaveLoop, Abort, Worlds, Handlers, TypeOK
  <2>2. world' \in {"quitting", "left", "gone"} => world \in {"quitting", "left", "gone"}
    BY <1>1 DEF ConstructApplication, MoveHandler, CallReady, EnterLoop, LeaveLoop, Abort
  <2>3. TypeOK'
    BY <2>1 DEF TypeOK
  <2>4. EnteringIsNew' /\ HandledHaveRun' /\ QueuedHaveNot' /\ PostedOnce'
    BY <2>1 DEF EnteringIsNew, HandledHaveRun, QueuedHaveNot, PostedOnce
  <2>5. QuitComesFirst'
    BY <2>1, <2>2 DEF QuitComesFirst, QuitHandled
  <2>6. BrokenAtTheEnd'
    BY <1>1, <2>1 DEF BrokenAtTheEnd, ConstructApplication, MoveHandler, CallReady, EnterLoop, LeaveLoop, Abort
  <2> QED BY <2>3, <2>4, <2>5, <2>6
<1>2. CASE HandleQuit
  <2>1. /\ handled + 1 \in 1..Len(posted) /\ posted[handled + 1] = Quit
        /\ handled' = handled + 1 /\ world' = "quitting"
        /\ UNCHANGED <<handler, posted, entering, future>>
    BY <1>2 DEF HandleQuit, NextEventIs, TypeOK
  <2>2. TypeOK'
    BY <2>1 DEF TypeOK, Worlds
  <2>3. EnteringIsNew' /\ PostedOnce'
    BY <2>1 DEF EnteringIsNew, PostedOnce
  <2>4. HandledHaveRun'
    BY <2>1, BridgeAssumption DEF TypeOK, Closures, HandledHaveRun
  <2>5. QueuedHaveNot'
    BY <2>1 DEF TypeOK, QueuedHaveNot
  <2>6. QuitHandled'
    BY <2>1 DEF TypeOK, QuitHandled
  <2>7. BrokenAtTheEnd'
    BY <1>2, <2>1 DEF HandleQuit, InLoop, BrokenAtTheEnd
  <2> QED BY <2>2, <2>3, <2>4, <2>5, <2>6, <2>7 DEF QuitComesFirst
<1>3. CASE DestroyApplication
  <2>1. /\ world = "left" /\ world' = "gone"
        /\ UNCHANGED <<handler, posted, handled, entering>>
        /\ \A t \in Closures :
              future'[t] = IF future[t] = "pending" THEN "broken" ELSE future[t]
    BY <1>3 DEF DestroyApplication
  <2>2. TypeOK'
    BY <1>3 DEF DestroyApplication, TypeOK, Worlds, Futures, Settled
  <2>3. EnteringIsNew' /\ PostedOnce'
    BY <2>1 DEF TypeOK, EnteringIsNew, PostedOnce
  <2>4. HandledHaveRun' /\ QueuedHaveNot'
    BY <2>1 DEF HandledHaveRun, QueuedHaveNot
  <2>5. QuitHandled /\ QuitHandled'
    BY <2>1 DEF QuitComesFirst, QuitHandled
  <2>6. BrokenAtTheEnd'
    BY <2>1 DEF BrokenAtTheEnd
  <2> QED BY <2>2, <2>3, <2>4, <2>5, <2>6 DEF QuitComesFirst
<1> QED BY <1>1, <1>2, <1>3

\* Every step keeps the inductive invariant.
LEMMA NextIInv == IInv /\ [Next]_bridgeVars => IInv'
<1> SUFFICES ASSUME IInv, [Next]_bridgeVars
             PROVE  IInv'
  OBVIOUS
<1>1. ASSUME NEW t \in Closures, Enter(t)
      PROVE  IInv'
  BY <1>1, EnterIInv
<1>2. ASSUME NEW t \in Tasks, RunTask(t)
      PROVE  IInv'
  BY <1>2, HandleIInv DEF RunTask, HandleTask, Closures
<1>3. ASSUME NEW l \in Lockers, HandleLocker(l)
      PROVE  IInv'
  BY <1>3, HandleIInv DEF HandleLocker, Closures
<1>4. CASE UNCHANGED bridgeVars
  BY <1>4 DEF bridgeVars, IInv, TypeOK, EnteringIsNew, HandledHaveRun, QueuedHaveNot,
              PostedOnce, QuitComesFirst, QuitHandled, BrokenAtTheEnd
<1> QED BY <1>1, <1>2, <1>3, <1>4, WorldIInv DEF Next, Loop

\* IInv holds in every reachable state of the bridge.
THEOREM Invariance == Spec => []IInv
  BY InitIInv, NextIInv, PTL DEF Spec

\* The bridge's variables keep their types, for any number of closures.
THEOREM TypeCorrect == Spec => []TypeOK
<1>1. IInv => TypeOK
  BY DEF IInv
<1> QED BY <1>1, Invariance, PTL

\* "We make sure that all tasks have completed before quitting the app"
\* (qtbridge.cpp:155), however many threads post and however many calls of
\* destroy() there are: only an event posted behind a Quit is ever dropped.
THEOREM DropsAreBehindQuit == Spec => []DroppedOnlyBehindQuit
<1>1. IInv => DroppedOnlyBehindQuit
  <2> SUFFICES ASSUME IInv, NEW i \in 1..Len(posted),
                      posted[i] \in Closures, future[posted[i]] = "broken"
               PROVE  \E j \in 1..(i - 1) : posted[j] = Quit
    BY DEF DroppedOnlyBehindQuit
  <2>1. i \notin 1..handled
    BY DEF IInv, HandledHaveRun
  <2>2. PICK j \in 1..handled : posted[j] = Quit
    BY DEF IInv, QuitComesFirst, QuitHandled
  <2> QED BY <2>1, <2>2 DEF IInv, TypeOK
<1> QED BY <1>1, Invariance, PTL

\* What a closure has come to is final: nobody handles or deletes its event twice,
\* and an event that went to a stranded handler is out of everyone's reach.
LEMMA FinalStays ==
  ASSUME IInv, [Next]_bridgeVars, NEW c \in Closures, future[c] \in Settled \cup {"stranded"}
  PROVE  future'[c] = future[c]
<1> USE DEF Settled
<1>1. ASSUME NEW t \in Closures, Enter(t)
      PROVE  future'[c] = future[c]
  BY <1>1 DEF IInv, TypeOK, EnteringIsNew, Enter, CheckInstance, PostEvent, PostToDead
<1>2. ASSUME NEW t \in Closures, NextEventIs(t), InLoop
      PROVE  t # c
  BY <1>2 DEF IInv, TypeOK, NextEventIs, InLoop, QueuedHaveNot, BrokenAtTheEnd
<1>3. ASSUME NEW t \in Tasks, RunTask(t)
      PROVE  future'[c] = future[c]
  BY <1>2, <1>3 DEF RunTask, HandleTask, Closures, IInv, TypeOK
<1>4. ASSUME NEW l \in Lockers, HandleLocker(l)
      PROVE  future'[c] = future[c]
  BY <1>2, <1>4 DEF HandleLocker, Closures, IInv, TypeOK
<1>5. CASE DestroyApplication
  BY <1>5 DEF DestroyApplication
<1>6. CASE ConstructApplication \/ MoveHandler \/ CallReady \/ EnterLoop \/ HandleQuit \/ LeaveLoop \/ Abort
  BY <1>6 DEF ConstructApplication, MoveHandler, CallReady, EnterLoop, HandleQuit, LeaveLoop, Abort
<1>7. CASE UNCHANGED bridgeVars
  BY <1>7 DEF bridgeVars
<1> QED BY <1>1, <1>3, <1>4, <1>5, <1>6, <1>7 DEF Next, Loop

\* A settled future of enter_with_task() never changes again: no event is handled
\* twice, and the teardown breaks only what was still pending.
THEOREM FuturesSettleOnce == Spec => SettledOnce
<1> DEFINE Kept == \A t \in Closures : future[t] \in Settled => future'[t] = future[t]
<1>1. IInv /\ [Next]_bridgeVars => [Kept]_bridgeVars
  BY FinalStays
<1> QED BY <1>1, Invariance, PTL DEF Spec, SettledOnce

-----------------------------------------------------------------------------
(* The bridge implements TaskRunner.                                       *)

\* Whoever is inside enter_with_task() has seen an application.
EnteringIsLate == entering # {} => world # "unbuilt"

\* What waits for an answer is in the queue.
PendingAreQueued ==
    \A t \in Closures : future[t] = "pending" =>
        \E i \in (handled + 1)..Len(posted) : posted[i] = t

\* There is no handler before there is an application, none is in the Qt thread
\* before build_and_run() has seen to it, and only there are events queued.
HandlerPlaced ==
    /\ world = "unbuilt" => handler = "none"
    /\ handler = "none" => world \in {"unbuilt", "constructed"}
    /\ handler # "qt" => posted = <<>> /\ handled = 0

RInv == IInv /\ EnteringIsLate /\ HandlerPlaced /\ PendingAreQueued

LEMMA InitRInv == Init => RInv
  BY InitIInv DEF Init, RInv, EnteringIsLate, HandlerPlaced, PendingAreQueued

LEMMA NextEnteringIsLate == EnteringIsLate /\ [Next]_bridgeVars => EnteringIsLate'
<1> SUFFICES ASSUME EnteringIsLate, [Next]_bridgeVars PROVE EnteringIsLate'
  OBVIOUS
<1> USE DEF EnteringIsLate
<1>1. ASSUME NEW t \in Closures, Enter(t) PROVE EnteringIsLate'
  BY <1>1 DEF Enter, CheckInstance, PostEvent, PostToDead, InstanceExists
<1>2. CASE Loop
  BY <1>2 DEF Loop, RunTask, HandleTask, HandleLocker, HandleQuit, LeaveLoop
<1>3. CASE ConstructApplication \/ MoveHandler \/ CallReady \/ EnterLoop \/ DestroyApplication \/ Abort
  BY <1>3 DEF ConstructApplication, MoveHandler, CallReady, EnterLoop, DestroyApplication, Abort
<1>4. CASE UNCHANGED bridgeVars
  BY <1>4 DEF bridgeVars
<1> QED BY <1>1, <1>2, <1>3, <1>4 DEF Next

LEMMA NextHandlerPlaced == IInv /\ EnteringIsLate /\ HandlerPlaced /\ [Next]_bridgeVars => HandlerPlaced'
<1> SUFFICES ASSUME IInv, EnteringIsLate, HandlerPlaced, [Next]_bridgeVars PROVE HandlerPlaced'
  OBVIOUS
<1> USE DEF EnteringIsLate, HandlerPlaced
<1>1. ASSUME NEW t \in Closures, Enter(t) PROVE HandlerPlaced'
  BY <1>1 DEF Enter, CheckInstance, PostEvent, PostToDead
<1>2. CASE HandleQuit \/ LeaveLoop
  BY <1>2 DEF HandleQuit, LeaveLoop, InLoop, NextEventIs, IInv, TypeOK
<1>3. ASSUME NEW t, RunTask(t) \/ HandleLocker(t) PROVE HandlerPlaced'
  <2>1. posted # <<>> /\ InLoop
    BY <1>3 DEF RunTask, HandleTask, HandleLocker, NextEventIs, IInv, TypeOK
  <2> QED BY <2>1, <1>3 DEF RunTask, HandleTask, HandleLocker, InLoop
<1>4. CASE ConstructApplication \/ MoveHandler \/ CallReady \/ EnterLoop
  BY <1>4 DEF ConstructApplication, MoveHandler, CallReady, EnterLoop, IInv, TypeOK, Handlers
<1>5. CASE DestroyApplication \/ Abort
  BY <1>5 DEF DestroyApplication, Abort, InLoop
<1>6. CASE UNCHANGED bridgeVars
  BY <1>6 DEF bridgeVars
<1> QED BY <1>1, <1>2, <1>3, <1>4, <1>5, <1>6 DEF Next, Loop

\* What the loop does with the closure t at the head of the queue.
Handled(t) ==
    /\ InLoop /\ NextEventIs(t)
    /\ handled' = handled + 1
    /\ \E outcome \in {"value", "exception"} : future' = [future EXCEPT ![t] = outcome]
    /\ UNCHANGED <<world, handler>>
    /\ UNCHANGED posted \/ posted' = Append(posted, Quit)

LEMMA LoopHandles ==
  ASSUME NEW t, RunTask(t) \/ HandleLocker(t)
  PROVE  Handled(t)
  BY DEF RunTask, HandleTask, HandleLocker, Handled

\* An event posted keeps its place behind those there were.
LEMMA HistoryKept ==
  ASSUME TypeOK, NEW e \in Closures \cup {Quit}, posted' = Append(posted, e)
  PROVE  /\ Len(posted') = Len(posted) + 1 /\ posted'[Len(posted) + 1] = e
         /\ \A i \in 1..Len(posted) : posted'[i] = posted[i]
  BY AppendKeeps DEF TypeOK

LEMMA NextPendingAreQueued == IInv /\ PendingAreQueued /\ [Next]_bridgeVars => PendingAreQueued'
<1> SUFFICES ASSUME IInv, PendingAreQueued, [Next]_bridgeVars,
                    NEW c \in Closures, future'[c] = "pending"
             PROVE  \E i \in (handled' + 1)..Len(posted') : posted'[i] = c
  BY DEF PendingAreQueued
<1> USE DEF IInv
<1>1. CASE future[c] = "pending" /\ UNCHANGED <<posted, handled>>
  BY <1>1 DEF PendingAreQueued
<1>2. ASSUME NEW t \in Closures, CheckInstance(t) \/ PostToDead(t)
      PROVE  future[c] = "pending" /\ UNCHANGED <<posted, handled>>
  BY <1>2 DEF CheckInstance, PostToDead, TypeOK
<1>3. ASSUME NEW t \in Closures, PostEvent(t), handler = "qt"
      PROVE  \E i \in (handled' + 1)..Len(posted') : posted'[i] = c
  <2>1. posted' = Append(posted, t) /\ handled' = handled /\ future' = [future EXCEPT ![t] = "pending"]
    BY <1>3 DEF PostEvent
  <2>2. CASE c = t
    BY <2>1, <2>2, HistoryKept DEF TypeOK
  <2>3. CASE c # t
    BY <2>1, <2>3, HistoryKept DEF TypeOK, PendingAreQueued
  <2> QED BY <2>2, <2>3
<1>4. ASSUME NEW t \in Closures, Handled(t)
      PROVE  \E i \in (handled' + 1)..Len(posted') : posted'[i] = c
  <2>1. c # t /\ future[c] = "pending"
    BY <1>4 DEF Handled, TypeOK
  <2>2. PICK i \in (handled + 1)..Len(posted) : posted[i] = c
    BY <2>1 DEF PendingAreQueued
  <2>3. i \in (handled' + 1)..Len(posted)
    BY <1>4, <2>1, <2>2 DEF Handled, NextEventIs, TypeOK
  <2>4. Len(posted) <= Len(posted') /\ posted'[i] = posted[i]
    BY <1>4, <2>2, HistoryKept DEF Handled, TypeOK
  <2> QED BY <2>2, <2>3, <2>4 DEF TypeOK
<1>9. ASSUME NEW t \in Closures, PostEvent(t), handler # "qt"
      PROVE  future[c] = "pending" /\ UNCHANGED <<posted, handled>>
  BY <1>9 DEF PostEvent, TypeOK
<1>5. CASE HandleQuit
  BY <1>5, BridgeAssumption DEF HandleQuit, NextEventIs, PendingAreQueued, TypeOK, Closures
<1>6. CASE ConstructApplication \/ MoveHandler \/ CallReady \/ EnterLoop \/ LeaveLoop \/ Abort \/ UNCHANGED bridgeVars
  BY <1>1, <1>6 DEF ConstructApplication, MoveHandler, CallReady, EnterLoop, LeaveLoop, Abort, bridgeVars
<1>7. CASE DestroyApplication
  BY <1>7 DEF DestroyApplication
<1>8. Tasks \subseteq Closures /\ Lockers \subseteq Closures
  BY DEF Closures
<1> QED
  BY <1>1, <1>2, <1>3, <1>4, <1>5, <1>6, <1>7, <1>8, <1>9, LoopHandles DEF Next, Loop, Enter

LEMMA NextRInv == RInv /\ [Next]_bridgeVars => RInv'
  BY NextIInv, NextEnteringIsLate, NextHandlerPlaced, NextPendingAreQueued DEF RInv

\* RInv holds in every reachable state of the bridge.
THEOREM RInvariance == Spec => []RInv
  BY InitRInv, NextRInv, PTL DEF Spec

-----------------------------------------------------------------------------
\* The order of two closures depends on their events and futures only.
LEMMA PrecedesIs ==
  ASSUME NEW c \in Closures, NEW d \in Closures
  PROVE  <<c, d>> \in Precedes <=>
            /\ future[c] = "pending" /\ future[d] = "pending"
            /\ \E i, j \in (handled + 1)..Len(posted) : i < j /\ posted[i] = c /\ posted[j] = d
  BY DEF Precedes

LEMMA PrecedesIsNext ==
  ASSUME NEW c \in Closures, NEW d \in Closures
  PROVE  <<c, d>> \in Precedes' <=>
            /\ future'[c] = "pending" /\ future'[d] = "pending"
            /\ \E i, j \in (handled' + 1)..Len(posted') : i < j /\ posted'[i] = c /\ posted'[j] = d
  BY DEF Precedes

\* Orders are compared pair by pair.
LEMMA SameOrder ==
  ASSUME NEW R \in SUBSET (Closures \X Closures),
         \A c, d \in Closures : <<c, d>> \in Precedes' <=> <<c, d>> \in R
  PROVE  Precedes' = R
<1>1. Precedes' \subseteq Closures \X Closures
  BY DEF Precedes
<1>2. ASSUME NEW pair \in Closures \X Closures PROVE pair \in Precedes' <=> pair \in R
  <2>1. PICK c \in Closures, d \in Closures : pair = <<c, d>>
    OBVIOUS
  <2> QED BY <2>1
<1> QED BY <1>1, <1>2

\* A closure accepted comes after every one that waits.
LEMMA PostIsAccept ==
  ASSUME RInv, NEW t \in Closures, PostEvent(t), handler = "qt"
  PROVE  Runner!Accept(t)
<1> USE DEF RInv, IInv
<1>1. /\ t \in entering /\ future[t] = "none"
      /\ future' = [future EXCEPT ![t] = "pending"]
      /\ posted' = Append(posted, t)
      /\ UNCHANGED <<world, handler, handled>>
  BY DEF PostEvent, EnteringIsNew
<1>2. Phase = "open" /\ Phase' = "open"
  BY <1>1 DEF PostEvent, EnteringIsLate, Phase
<1>3. /\ Len(posted') = Len(posted) + 1
      /\ posted'[Len(posted) + 1] = t
      /\ \A i \in 1..Len(posted) : posted'[i] = posted[i]
  BY <1>1, HistoryKept
<1>4. \A i \in (handled + 1)..Len(posted) : posted[i] # t
  BY <1>1 DEF QueuedHaveNot
<1> DEFINE R == Precedes \cup (Runner!Waiting \X {t})
<1>5. R \in SUBSET (Closures \X Closures)
  BY DEF Precedes, Runner!Waiting
<1>6. ASSUME NEW c \in Closures, NEW d \in Closures PROVE <<c, d>> \in Precedes' <=> <<c, d>> \in R
  <2>1. CASE d = t
    <3>1. <<c, d>> \in R <=> future[c] = "pending"
      BY <2>1, <1>1, PrecedesIs DEF Runner!Waiting
    <3>2. <<c, d>> \in Precedes' => future[c] = "pending"
      <4> SUFFICES ASSUME <<c, d>> \in Precedes', c = t PROVE FALSE
        BY <1>1, PrecedesIsNext DEF TypeOK
      <4> QED BY <1>1, <1>3, <1>4, <2>1, PrecedesIsNext DEF TypeOK
    <3>3. ASSUME future[c] = "pending" PROVE <<c, d>> \in Precedes'
      <4>1. PICK i \in (handled + 1)..Len(posted) : posted[i] = c
        BY <3>3 DEF PendingAreQueued
      <4>2. /\ i \in (handled' + 1)..Len(posted') /\ Len(posted) + 1 \in (handled' + 1)..Len(posted')
            /\ i < Len(posted) + 1 /\ posted'[i] = c /\ posted'[Len(posted) + 1] = d
        BY <4>1, <1>1, <1>3, <2>1 DEF TypeOK
      <4>3. future'[c] = "pending" /\ future'[d] = "pending"
        BY <3>3, <1>1, <2>1 DEF TypeOK
      <4> QED BY <4>2, <4>3, PrecedesIsNext
    <3> QED BY <3>1, <3>2, <3>3
  <2>2. CASE d # t
    <3>1. <<c, d>> \in R <=> <<c, d>> \in Precedes
      BY <2>2
    <3>2. ASSUME <<c, d>> \in Precedes PROVE <<c, d>> \in Precedes'
      <4>1. PICK i \in (handled + 1)..Len(posted), j \in (handled + 1)..Len(posted) :
                i < j /\ posted[i] = c /\ posted[j] = d
        BY <3>2, PrecedesIs
      <4>2. /\ i \in (handled' + 1)..Len(posted') /\ j \in (handled' + 1)..Len(posted')
            /\ posted'[i] = c /\ posted'[j] = d
        BY <4>1, <1>1, <1>3 DEF TypeOK
      <4>3. future'[c] = "pending" /\ future'[d] = "pending"
        BY <3>2, <1>1, PrecedesIs DEF TypeOK
      <4> QED BY <4>1, <4>2, <4>3, PrecedesIsNext
    <3>3. ASSUME <<c, d>> \in Precedes' PROVE <<c, d>> \in Precedes
      <4>1. PICK i \in (handled' + 1)..Len(posted'), j \in (handled' + 1)..Len(posted') :
                i < j /\ posted'[i] = c /\ posted'[j] = d
        BY <3>3, PrecedesIsNext
      <4>2. j \in (handled + 1)..Len(posted)
        <5>1. j # Len(posted) + 1
          BY <4>1, <1>3, <2>2
        <5>2. handled' = handled /\ handled \in Nat /\ Len(posted) \in Nat
          BY <1>1 DEF TypeOK
        <5> QED BY <4>1, <1>3, <5>1, <5>2
      <4>3. i \in (handled + 1)..Len(posted) /\ posted[i] = c /\ posted[j] = d
        BY <4>1, <4>2, <1>1, <1>3 DEF TypeOK
      <4>4. future[c] = "pending" /\ future[d] = "pending"
        BY <3>3, <4>3, <1>1, <1>4, <2>2, PrecedesIsNext DEF TypeOK
      <4> QED BY <4>1, <4>2, <4>3, <4>4, PrecedesIs
    <3> QED BY <3>1, <3>2, <3>3
  <2> QED BY <2>1, <2>2
<1>7. Precedes' = R
  BY <1>5, <1>6, SameOrder
<1> QED BY <1>1, <1>2, <1>7 DEF Runner!Accept

\* The closure at the head of the queue is the oldest.
LEMMA HandledIsRun ==
  ASSUME RInv, NEW t \in Closures, Handled(t)
  PROVE  Runner!Run(t)
<1> USE DEF RInv, IInv
<1>1. /\ handled + 1 \in 1..Len(posted) /\ posted[handled + 1] = t /\ future[t] = "pending"
      /\ handled' = handled + 1 /\ UNCHANGED <<world, handler>>
  BY DEF Handled, InLoop, NextEventIs, TypeOK, QueuedHaveNot, BrokenAtTheEnd
<1>2. PICK outcome \in {"value", "exception"} : future' = [future EXCEPT ![t] = outcome]
  BY DEF Handled
<1>3. Phase = "open" /\ Phase' = "open"
  <2>1. handler = "qt"
    BY <1>1 DEF HandlerPlaced, TypeOK
  <2> QED BY <1>1, <2>1 DEF Handled, InLoop, Phase
<1>4. /\ \A i \in 1..Len(posted) : posted'[i] = posted[i]
      /\ Len(posted) <= Len(posted')
      /\ \A i \in 1..Len(posted') : posted'[i] \in Closures => i \in 1..Len(posted)
  <2>1. CASE UNCHANGED posted
    BY <2>1 DEF TypeOK
  <2>2. CASE posted' = Append(posted, Quit)
    BY <2>2, HistoryKept, BridgeAssumption DEF TypeOK, Closures
  <2> QED BY <2>1, <2>2 DEF Handled
<1>5. \A i \in 1..Len(posted) : posted[i] = t => i = handled + 1
  BY <1>1 DEF PostedOnce
<1>6. ASSUME NEW d \in Closures PROVE <<d, t>> \notin Precedes
  BY <1>1, <1>5, PrecedesIs DEF TypeOK
<1> DEFINE R == {pair \in Precedes : pair[1] # t}
<1>7. R \in SUBSET (Closures \X Closures)
  BY DEF Precedes
<1>8. ASSUME NEW c \in Closures, NEW d \in Closures PROVE <<c, d>> \in Precedes' <=> <<c, d>> \in R
  <2>1. ASSUME <<c, d>> \in Precedes, c # t PROVE <<c, d>> \in Precedes'
    <3>1. PICK i \in (handled + 1)..Len(posted), j \in (handled + 1)..Len(posted) :
              i < j /\ posted[i] = c /\ posted[j] = d
      BY <2>1, PrecedesIs
    <3>2. d # t
      BY <2>1, <1>6
    <3>3. /\ i \in (handled' + 1)..Len(posted') /\ j \in (handled' + 1)..Len(posted')
          /\ posted'[i] = c /\ posted'[j] = d
      BY <2>1, <3>1, <1>1, <1>4 DEF TypeOK
    <3>4. future'[c] = "pending" /\ future'[d] = "pending"
      BY <2>1, <3>2, <1>2, PrecedesIs DEF TypeOK
    <3> QED BY <3>1, <3>3, <3>4, PrecedesIsNext
  <2>2. ASSUME <<c, d>> \in Precedes' PROVE <<c, d>> \in Precedes /\ c # t
    <3>1. c # t /\ future[c] = "pending" /\ future[d] = "pending"
      BY <2>2, <1>2, PrecedesIsNext DEF TypeOK
    <3>2. PICK i \in (handled' + 1)..Len(posted'), j \in (handled' + 1)..Len(posted') :
              i < j /\ posted'[i] = c /\ posted'[j] = d
      BY <2>2, PrecedesIsNext
    <3>3. /\ i \in (handled + 1)..Len(posted) /\ j \in (handled + 1)..Len(posted)
          /\ posted[i] = c /\ posted[j] = d
      BY <3>2, <1>1, <1>4 DEF TypeOK
    <3> QED BY <3>1, <3>2, <3>3, PrecedesIs
  <2> QED BY <2>1, <2>2
<1>9. Precedes' = R
  BY <1>7, <1>8, SameOrder
<1> QED BY <1>1, <1>2, <1>3, <1>6, <1>9 DEF Runner!Run, Runner!Waiting

\* Steps that are nobody's business keep the order.
LEMMA OrderKept ==
  ASSUME RInv, UNCHANGED <<posted, future>>,
         \/ UNCHANGED handled
         \/ NextEventIs(Quit) /\ handled' = handled + 1
  PROVE  Precedes' = Precedes
<1> USE DEF RInv, IInv
<1>1. CASE UNCHANGED handled
  BY <1>1 DEF Precedes
<1>2. CASE NextEventIs(Quit) /\ handled' = handled + 1
  <2>1. ASSUME NEW c \in Closures, NEW d \in Closures
        PROVE  <<c, d>> \in Precedes' <=> <<c, d>> \in Precedes
    <3>1. \A i \in (handled + 1)..Len(posted) : posted[i] \in Closures => i \in (handled' + 1)..Len(posted')
      BY <1>2, BridgeAssumption DEF NextEventIs, TypeOK, Closures
    <3>2. (handled' + 1)..Len(posted') \subseteq (handled + 1)..Len(posted)
      BY <1>2 DEF TypeOK
    <3> QED BY <3>1, <3>2, PrecedesIs, PrecedesIsNext
  <2>2. Precedes \in SUBSET (Closures \X Closures)
    BY DEF Precedes
  <2> QED BY <2>1, <2>2, SameOrder
<1> QED BY <1>1, <1>2

\* A closure that is refused or lost was not in the queue.
LEMMA OrderWithout ==
  ASSUME RInv, NEW t \in Closures, future[t] = "none",
         NEW outcome \in {"thrown", "lost", "stranded"}, future' = [future EXCEPT ![t] = outcome],
         UNCHANGED <<posted, handled>>
  PROVE  Precedes' = Precedes
<1>1. \A c \in Closures : future'[c] = "pending" <=> future[c] = "pending"
  BY DEF RInv, IInv, TypeOK
<1>2. ASSUME NEW c \in Closures, NEW d \in Closures
      PROVE  <<c, d>> \in Precedes' <=> <<c, d>> \in Precedes
  BY <1>1, PrecedesIs, PrecedesIsNext
<1>3. Precedes \in SUBSET (Closures \X Closures)
  BY DEF Precedes
<1> QED BY <1>2, <1>3, SameOrder

\* The threads in enter_with_task(): accepted, stranded, refused or lost.
LEMMA EnterRefines ==
  ASSUME RInv, NEW t \in Closures, Enter(t)
  PROVE  [Runner!Next]_(Runner!vars)
<1> USE DEF RInv, IInv
<1>1. CASE CheckInstance(t) /\ InstanceExists
  <2>1. UNCHANGED <<world, posted, handled, future>>
    BY <1>1 DEF CheckInstance
  <2>2. UNCHANGED handler
    BY <1>1 DEF CheckInstance
  <2> QED BY <2>1, <2>2, OrderKept DEF Runner!vars, Phase
<1>2. CASE CheckInstance(t) /\ ~InstanceExists
  <2>1. Precedes' = Precedes
    BY <1>2, OrderWithout DEF CheckInstance
  <2>2. Runner!Refuse(t)
    BY <1>2, <2>1 DEF CheckInstance, Phase, InstanceExists, Runner!Refuse
  <2> QED BY <2>2 DEF Runner!Next
<1>3. CASE PostEvent(t) /\ handler = "qt"
  BY <1>3, PostIsAccept DEF Runner!Next
<1>5. CASE PostEvent(t) /\ handler # "qt"
  <2>1. /\ t \in entering /\ future[t] = "none" /\ handler' = "stranded"
        /\ future' = [future EXCEPT ![t] = "stranded"]
        /\ UNCHANGED <<world, posted, handled>>
    BY <1>5 DEF PostEvent, EnteringIsNew
  <2>2. Precedes' = Precedes
    BY <2>1, OrderWithout
  <2>3. Phase \in {"opening", "deaf"} /\ Phase' = "deaf"
    BY <1>5, <2>1 DEF PostEvent, EnteringIsLate, Phase, TypeOK, Handlers
  <2>4. Runner!Strand(t)
    BY <2>1, <2>2, <2>3 DEF Runner!Strand
  <2> QED BY <2>4 DEF Runner!Next
<1>4. CASE PostToDead(t)
  <2>1. future[t] = "none"
    BY <1>4 DEF PostToDead, EnteringIsNew
  <2>2. Precedes' = Precedes
    BY <1>4, <2>1, OrderWithout DEF PostToDead
  <2>3. Runner!Lose(t)
    BY <1>4, <2>1, <2>2 DEF PostToDead, Phase, InstanceExists, Runner!Lose
  <2> QED BY <2>3 DEF Runner!Next
<1> QED BY <1>1, <1>2, <1>3, <1>4, <1>5 DEF Enter

\* The Qt thread: opening, running, ending, or steps inside.
LEMMA WorldRefines ==
  ASSUME RInv,
         \/ ConstructApplication \/ MoveHandler \/ CallReady \/ EnterLoop \/ HandleQuit
         \/ LeaveLoop \/ DestroyApplication \/ Abort
  PROVE  [Runner!Next]_(Runner!vars)
<1> USE DEF RInv, IInv
<1>1. CASE ConstructApplication
  <2>1. Precedes' = Precedes
    BY <1>1, OrderKept DEF ConstructApplication
  <2>2. Phase = "unopened" /\ Phase' = "opening"
    BY <1>1 DEF ConstructApplication, HandlerPlaced, Phase
  <2>3. Runner!Open
    BY <1>1, <2>1, <2>2 DEF ConstructApplication, Runner!Open
  <2> QED BY <2>3 DEF Runner!Next
<1>2. CASE MoveHandler
  <2>1. Precedes' = Precedes /\ future' = future
    BY <1>2, OrderKept DEF MoveHandler
  <2>2. CASE handler = "none"
    <3>1. Phase = "opening" /\ Phase' = "open"
      BY <1>2, <2>2 DEF MoveHandler, Phase
    <3> QED BY <2>1, <3>1 DEF Runner!Listen, Runner!Next
  <2>3. CASE handler # "none"
    BY <1>2, <2>1, <2>3 DEF MoveHandler, Phase, Runner!vars
  <2> QED BY <2>2, <2>3
<1>3. CASE CallReady \/ EnterLoop \/ HandleQuit \/ LeaveLoop
  <2>1. Precedes' = Precedes
    BY <1>3, OrderKept DEF CallReady, EnterLoop, HandleQuit, LeaveLoop
  <2>2. Phase' = Phase /\ future' = future
    BY <1>3 DEF CallReady, EnterLoop, HandleQuit, LeaveLoop, InLoop, Phase
  <2> QED BY <2>1, <2>2 DEF Runner!vars
<1>4. CASE DestroyApplication
  <2>1. Precedes' = {}
    BY <1>4 DEF DestroyApplication, Precedes
  <2>2. handler = "qt"
    BY <1>4 DEF DestroyApplication, QuitComesFirst, QuitHandled, HandlerPlaced
  <2>3. Phase = "open" /\ Phase' = "ended"
    BY <1>4, <2>2 DEF DestroyApplication, Phase
  <2>4. Runner!End
    BY <1>4, <2>1, <2>3 DEF DestroyApplication, Runner!End
  <2> QED BY <2>4 DEF Runner!Next
<1>5. CASE Abort
  <2>1. Precedes' = Precedes /\ future' = future
    BY <1>5, OrderKept DEF Abort
  <2>2. Phase \in {"open", "deaf"} /\ Phase' = "dead"
    BY <1>5 DEF Abort, InLoop, HandlerPlaced, Phase
  <2> QED BY <2>1, <2>2 DEF Runner!Die, Runner!Next
<1> QED BY <1>1, <1>2, <1>3, <1>4, <1>5

\* The bridge runs every accepted closure in the order of acceptance, one at a
\* time, and refuses the rest together at its end, for any number of threads and
\* of calls of destroy() (build_and_run, enter_with_task, TaskHandler); unless a
\* closure comes while the application is constructed and not yet listening,
\* which strands it and all that follow (qtbridge.cpp:109, 139).
THEOREM BridgeImplementsRunner == Spec => ImplementsTaskRunner
<1>1. Init => Runner!Init
  <2> SUFFICES ASSUME Init PROVE Runner!Init
    OBVIOUS
  <2>1. Precedes = {}
    BY DEF Init, Precedes
  <2> QED BY <2>1 DEF Init, Phase, Runner!Init
<1>2. RInv /\ [Next]_bridgeVars => [Runner!Next]_(Runner!vars)
  <2> SUFFICES ASSUME RInv, [Next]_bridgeVars PROVE [Runner!Next]_(Runner!vars)
    OBVIOUS
  <2>1. ASSUME NEW t \in Tasks, RunTask(t) PROVE Runner!Next
    BY <2>1, LoopHandles, HandledIsRun DEF Closures, Runner!Next
  <2>2. ASSUME NEW l \in Lockers, HandleLocker(l) PROVE Runner!Next
    BY <2>2, LoopHandles, HandledIsRun DEF Closures, Runner!Next
  <2>3. CASE UNCHANGED bridgeVars
    BY <2>3, OrderKept DEF bridgeVars, Runner!vars, Phase
  <2> QED BY <2>1, <2>2, <2>3, EnterRefines, WorldRefines DEF Next, Loop
<1> QED BY <1>1, <1>2, RInvariance, PTL DEF Spec, ImplementsTaskRunner, Runner!Spec

=============================================================================
