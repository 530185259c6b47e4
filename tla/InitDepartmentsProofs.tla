------------------------ MODULE InitDepartmentsProofs ------------------------
(***************************************************************************)
(* Proofs about InitDepartments for any number of locales and packages:    *)
(* the two counters say how many replies are missing, and so the last      *)
(* reply, and no other, opens the next phase or stops the Qt bridge.       *)
(***************************************************************************)
EXTENDS InitDepartments, FiniteSetTheorems, TLAPS

BP == INSTANCE QtBridgeProofs

\* The server has been asked about c and its answer dealt with.
Processed(c) == future[c] = "value" /\ c \notin requests

LocalesLeft == {l \in Locales : ~Processed(l)}
PackagesLeft == {p \in plan \cap Packages : ~Processed(p)}

\* The types of the tool's own variables; only an error of the bootstrap and the
\* last package make a slot call destroy().
ToolTypes ==
    /\ click \in {"none", "running"} \cup ClickEndings
    /\ packages \in {Unset} \cup SUBSET Packages
    /\ bootstrapReady \in BOOLEAN
    /\ plan \subseteq Packages \cup {OnNothing}
    /\ requests \subseteq Locales \cup Packages
    /\ numOfLocales \in 0..Cardinality(Locales)
    /\ numOfPkgs \in 0..Cardinality(Packages)
    /\ returnVal \in Codes
    /\ debt \in Idle \cup {OnError, OnLast}
    /\ stored \subseteq Locales
    /\ mapped \subseteq Packages
    /\ exit \in {Unset} \cup Endings

\* "click list" is started once, by the loop; its list comes after its end.
ClickInv ==
    /\ click # "none" => future[Click] = "value" /\ world \notin {"unbuilt", "constructed", "built", "announced"}
    /\ packages # Unset => click \in ClickEndings
    /\ debt = "callback" => click = "crashed"

\* A slot keeps the loop where it is.
SlotInv == debt # "none" => world \in {"exec", "quitting", "aborted"}

\* A locale that failed stays counted for ever.
LocalesCounted ==
    world # "aborted" =>
        numOfLocales = Cardinality(LocalesLeft) + IF BootstrapFailed THEN 1 ELSE 0

PackagesCounted == plan \cap Packages # {} => numOfPkgs = Cardinality(PackagesLeft)

\* bootstrap_ready is set by the last locale or by an error.
BootstrapInv ==
    /\ bootstrapReady => numOfLocales = 0 \/ BootstrapFailed
    /\ BootstrapFailed => bootstrapReady /\ returnVal # "ok"

\* What details_thread found when it looked.
PlanInv ==
    /\ plan # {} => bootstrapReady /\ packages # Unset /\ plan \in {{OnNothing}, packages}
    /\ OnNothing \in plan => returnVal # "ok" \/ packages = {}
    /\ plan \cap Packages # {} => numOfLocales = 0

\* Only what was planned is entered, and asked for once it has run.
BegunInv ==
    /\ \A c \in Packages \cup {OnNothing} : (future[c] # "none" \/ c \in entering) => c \in plan
    /\ \A c \in requests : future[c] = "value"
    /\ (debt = OnLast \/ future[OnLast] # "none") => plan \cap Packages # {} /\ numOfPkgs = 0

\* The loop is told to quit by a closure of destroy() that has run.
QuitHasLocker ==
    \A i \in 1..Len(posted) : posted[i] = Quit => \E l \in Lockers : future[l] = "value"

\* While nothing has failed, what was processed is in the database.
ResultsInv ==
    /\ returnVal = "ok" => \A l \in Locales : Processed(l) => l \in stored
    /\ returnVal = "ok" => \A p \in Packages : Processed(p) => p \in mapped
    /\ mapped \subseteq plan

\* The exit code is computed after the world is gone, and stays true.
ExitInv ==
    /\ exit # Unset => world \in {"gone", "aborted"}
    /\ SuccessIsComplete

ToolInv ==
    /\ ToolTypes /\ ClickInv /\ SlotInv
    /\ LocalesCounted /\ PackagesCounted
    /\ BootstrapInv /\ PlanInv /\ BegunInv
    /\ QuitHasLocker /\ ResultsInv /\ ExitInv /\ DeathHasACause

IInv == BP!IInv /\ ToolInv

-----------------------------------------------------------------------------
(* The bridge inside the tool.                                             *)

\* The constants of the bridge inside the tool satisfy its assumption.
LEMMA BridgeConstants == BP!BridgeAssumption
  BY ToolAssumption DEF BP!BridgeAssumption

\* Every step of the tool is a step of the bridge, or leaves it alone.
LEMMA StepIsBridgeStep == [Next]_vars => [BP!Next]_(BP!bridgeVars)
<1> SUFFICES ASSUME Next, ~UNCHANGED bridgeVars
             PROVE  BP!Next
  BY DEF vars, bridgeVars, BP!bridgeVars
<1> USE DEF BP!Next, BP!Closures, BP!Loop, BP!RunTask
<1>1. ASSUME NEW c \in Tasks \cup Lockers, Bridge!CheckInstance(c) \/ Bridge!PostEvent(c) \/ Bridge!PostToDead(c)
      PROVE  BP!Next
  BY <1>1 DEF BP!Enter, Bridge!CheckInstance, BP!CheckInstance, Bridge!InstanceExists, BP!InstanceExists,
              Bridge!PostEvent, BP!PostEvent, Bridge!PostToDead, BP!PostToDead
<1>2. ASSUME NEW c \in Tasks, Bridge!HandleTask(c, "value")
      PROVE  BP!Next
  BY <1>2 DEF Bridge!HandleTask, BP!HandleTask, Bridge!InLoop, BP!InLoop, Bridge!NextEventIs, BP!NextEventIs
<1>3. CASE LoopStep
  BY <1>3 DEF LoopStep, Bridge!HandleLocker, BP!HandleLocker, Bridge!HandleQuit, BP!HandleQuit,
              Bridge!LeaveLoop, BP!LeaveLoop, Bridge!InLoop, BP!InLoop, Bridge!NextEventIs, BP!NextEventIs
<1>4. CASE BuildWorld \/ EnterLoop \/ Teardown
  BY <1>4 DEF BuildWorld, EnterLoop, Teardown, Bridge!ConstructApplication, BP!ConstructApplication,
              Bridge!MoveHandler, BP!MoveHandler, Bridge!CallReady, BP!CallReady,
              Bridge!EnterLoop, BP!EnterLoop, Bridge!DestroyApplication,
              BP!DestroyApplication, Bridge!Closures
<1>5. CASE Bridge!Abort
  BY <1>5 DEF Bridge!Abort, BP!Abort, Bridge!InLoop, BP!InLoop
<1>6. CASE EnterClick \/ SlotDestroys \/ \E l \in Locales : NetThread(l)
  BY <1>1, <1>6 DEF EnterClick, SlotDestroys, NetThread, EnterNext, Bridge!Enter, Tasks
<1>7. ASSUME NEW c \in Packages \cup {OnNothing}, DetailsThread(c)
      PROVE  BP!Next
  BY <1>1, <1>7 DEF DetailsThread, EnterNext, Bridge!Enter, Tasks, Lockers
<1>8. CASE StartClick \/ \E c \in Locales \cup Packages : StartRequest(c)
  BY <1>2, <1>8 DEF StartClick, StartRequest, Tasks
<1> QED
  BY <1>3, <1>4, <1>5, <1>6, <1>7, <1>8
  DEF Next, ClickEnds, ClickCallback, ClickCallbackAgain, BootstrapFails, DepartmentsArrive, DetailsArrive,
      DetailsThreadStarts, Finish

\* The tool implements QtBridge: its threads and slots use the bridge only as the
\* threads of QtBridge may.
THEOREM ImplementsBridge == Spec => BP!Spec
<1>1. Init => BP!Init
  BY DEF Init, Bridge!Init, BP!Init, Bridge!Closures, BP!Closures
<1> QED BY <1>1, StepIsBridgeStep, PTL DEF Spec, BP!Spec

\* What QtBridgeProofs shows of the bridge holds of the one inside the tool.
LEMMA BridgeInvariance == Spec => []BP!IInv
  BY ImplementsBridge, BridgeConstants, BP!Invariance, PTL

\* A thread that enters a closure moves its future only, and not to a value; it
\* finds no application, or dies on it, only outside the life of the loop.
LEMMA EnterMoves ==
  ASSUME BP!IInv, NEW t \in Tasks \cup Lockers,
         Bridge!CheckInstance(t) \/ Bridge!PostEvent(t) \/ Bridge!PostToDead(t)
  PROVE  /\ future[t] = "none" /\ future'[t] \in {"none", "pending", "stranded", "thrown", "lost"}
         /\ \A c \in Tasks \cup Lockers : c # t => future'[c] = future[c]
         /\ entering' \subseteq entering \cup {t}
         /\ world' = world \/ (world = "gone" /\ world' = "aborted")
         /\ future'[t] = "thrown" => world \in {"unbuilt", "gone", "aborted"}
         /\ \A i \in 1..Len(posted') : posted'[i] = Quit => i \in 1..Len(posted) /\ posted[i] = Quit
<1> USE DEF BP!IInv, BP!TypeOK, BP!Closures
<1>1. CASE Bridge!CheckInstance(t)
  BY <1>1 DEF Bridge!CheckInstance, Bridge!InstanceExists
<1>2. CASE Bridge!PostEvent(t)
  <2>1. t # Quit
    BY ToolAssumption
  <2>2. future[t] = "none"
    BY <1>2 DEF Bridge!PostEvent, BP!EnteringIsNew
  <2>3. \A i \in 1..Len(posted') : (i \in 1..Len(posted) /\ posted'[i] = posted[i]) \/ posted'[i] = t
    <3>1. posted' = posted \/ posted' = Append(posted, t)
      BY <1>2 DEF Bridge!PostEvent
    <3> QED BY <3>1
  <2> QED BY <1>2, <2>1, <2>2, <2>3 DEF Bridge!PostEvent
<1>3. CASE Bridge!PostToDead(t)
  BY <1>3 DEF Bridge!PostToDead, BP!EnteringIsNew
<1> QED BY <1>1, <1>2, <1>3

\* The loop handles a closure that waits, and gives its future a value.
LEMMA HandleMoves ==
  ASSUME BP!IInv, NEW t \in Tasks \cup Lockers, Bridge!InLoop, Bridge!NextEventIs(t),
         future' = [future EXCEPT ![t] = "value"]
  PROVE  /\ future[t] = "pending" /\ future'[t] = "value"
         /\ \A c \in Tasks \cup Lockers : c # t => future'[c] = future[c]
<1>1. handled + 1 \in (handled + 1)..Len(posted) /\ posted[handled + 1] = t /\ world \in {"exec", "quitting"}
  BY DEF Bridge!InLoop, Bridge!NextEventIs, BP!IInv, BP!TypeOK
<1> QED BY <1>1 DEF BP!IInv, BP!TypeOK, BP!QueuedHaveNot, BP!BrokenAtTheEnd, BP!Closures

-----------------------------------------------------------------------------
(* Counting.                                                               *)

\* What is left to process is finite.
LEMMA LeftIsFinite ==
  /\ IsFiniteSet(LocalesLeft) /\ Cardinality(LocalesLeft) \in Nat
  /\ LocalesLeft # {} => Cardinality(LocalesLeft) # 0
  /\ IsFiniteSet(PackagesLeft) /\ Cardinality(PackagesLeft) \in Nat
  /\ PackagesLeft # {} => Cardinality(PackagesLeft) # 0
<1>1. LocalesLeft \in SUBSET Locales /\ PackagesLeft \in SUBSET Packages
  BY DEF LocalesLeft, PackagesLeft
<1>2. IsFiniteSet(LocalesLeft) /\ IsFiniteSet(PackagesLeft)
  BY <1>1, ToolAssumption, FS_Subset
<1> QED BY <1>2, FS_CardinalityType, FS_EmptySet

\* A reply takes its locale or package out of what is left.
LEMMA ReplyCounts ==
  ASSUME NEW c \in requests, requests' = requests \ {c}, future[c] = "value",
         UNCHANGED <<plan, future>>
  PROVE  /\ c \in Locales => Cardinality(LocalesLeft') = Cardinality(LocalesLeft) - 1
         /\ c \notin Locales => LocalesLeft' = LocalesLeft
         /\ c \in plan \cap Packages => Cardinality(PackagesLeft') = Cardinality(PackagesLeft) - 1
         /\ c \notin Packages => PackagesLeft' = PackagesLeft
<1>1. LocalesLeft' = LocalesLeft \ {c} /\ PackagesLeft' = PackagesLeft \ {c}
  BY DEF LocalesLeft, PackagesLeft, Processed
<1>2. /\ c \in Locales => c \in LocalesLeft
      /\ c \in plan \cap Packages => c \in PackagesLeft
      /\ LocalesLeft \subseteq Locales /\ PackagesLeft \subseteq Packages
  BY DEF LocalesLeft, PackagesLeft, Processed
<1>3. /\ c \in LocalesLeft => Cardinality(LocalesLeft \ {c}) = Cardinality(LocalesLeft) - 1
      /\ c \in PackagesLeft => Cardinality(PackagesLeft \ {c}) = Cardinality(PackagesLeft) - 1
  BY LeftIsFinite, FS_RemoveElement
<1> QED BY <1>1, <1>2, <1>3

\* Nothing else does.
LEMMA CountsKept ==
  ASSUME plan' = plan, \A c \in Locales \cup Packages : Processed(c)' <=> Processed(c)
  PROVE  LocalesLeft' = LocalesLeft /\ PackagesLeft' = PackagesLeft
  BY DEF LocalesLeft, PackagesLeft

\* When the loop has been told to quit and no bootstrap request failed, everything
\* has been answered.
LEMMA StoppedIsDone ==
  ASSUME IInv, Stopping, ~BootstrapFailed
  PROVE  requests = {} /\ \A c \in Locales \cup plan : future[c] = "value"
<1> USE DEF IInv, ToolInv
<1>1. PICK i \in 1..Len(posted) : posted[i] = Quit
  BY DEF Stopping, BP!IInv, BP!TypeOK, BP!QuitComesFirst, BP!QuitHandled
<1>2. PICK l \in Lockers : future[l] = "value"
  BY <1>1 DEF QuitHasLocker
<1>3. l \in {OnNothing, OnLast}
  BY <1>2 DEF Lockers, BootstrapFailed
<1>4. plan # {} /\ (l = OnNothing => OnNothing \in plan) /\ (l = OnLast => plan \cap Packages # {} /\ numOfPkgs = 0)
  BY <1>2, <1>3 DEF BegunInv
<1>5. numOfLocales = 0
  BY <1>4 DEF PlanInv, BootstrapInv
<1>6. LocalesLeft = {}
  BY <1>5, LeftIsFinite DEF LocalesCounted, Stopping
<1>7. \A c \in Locales : Processed(c)
  BY <1>6 DEF LocalesLeft
<1>8. \A p \in plan \cap Packages : Processed(p)
  <2>1. CASE plan \cap Packages = {}
    BY <2>1
  <2>2. CASE plan \cap Packages # {}
    <3>1. OnNothing \notin plan
      BY <1>4, <2>2, ToolAssumption DEF PlanInv, ToolTypes, Tasks, Lockers
    <3>2. numOfPkgs = 0
      BY <1>3, <1>4, <3>1
    <3>3. PackagesLeft = {}
      BY <2>2, <3>2, LeftIsFinite DEF PackagesCounted
    <3> QED BY <3>3 DEF PackagesLeft
  <2> QED BY <2>1, <2>2
<1>9. \A c \in plan : c \in Packages \/ future[c] = "value"
  <2>1. CASE OnNothing \notin plan
    BY <2>1 DEF ToolTypes
  <2>2. CASE OnNothing \in plan
    <3>1. plan \cap Packages = {}
      BY <1>4, <2>2, ToolAssumption DEF PlanInv, ToolTypes, Tasks, Lockers
    <3>2. l = OnNothing
      BY <1>3, <1>4, <3>1
    <3> QED BY <1>2, <3>2 DEF ToolTypes
  <2> QED BY <2>1, <2>2
<1>10. \A c \in requests : c \in Locales \/ c \in plan \cap Packages
  <2>1. \A c \in requests : future[c] # "none"
    BY DEF BegunInv
  <2> QED BY <2>1 DEF BegunInv, ToolTypes
<1> QED BY <1>7, <1>8, <1>9, <1>10 DEF Processed

-----------------------------------------------------------------------------
(* The invariant is inductive: first the steps of the bridge.              *)

\* The world only goes on; a future that holds something goes on holding it.
LEMMA BridgeGoesOn ==
  ASSUME BP!IInv, [Next]_vars
  PROVE  /\ world \notin {"unbuilt", "constructed", "built", "announced"}
               => world' \notin {"unbuilt", "constructed", "built", "announced"}
         /\ world \in {"gone", "aborted"} => world' \in {"gone", "aborted"}
         /\ world = "aborted" => world' = "aborted"
         /\ \A c \in Tasks \cup Lockers : future[c] # "none" => future'[c] # "none"
         /\ \A c \in Tasks \cup Lockers : future[c] = "value" => future'[c] = "value"
<1>1. [BP!Next]_(BP!bridgeVars)
  BY StepIsBridgeStep
<1> USE DEF BP!IInv, BP!TypeOK, BP!Closures, BP!InLoop, BP!NextEventIs
<1>2. CASE UNCHANGED BP!bridgeVars
  BY <1>2 DEF BP!bridgeVars
<1>3. ASSUME NEW t \in Tasks \cup Lockers, BP!Enter(t)
      PROVE  /\ world' = world \/ (world = "gone" /\ world' = "aborted")
             /\ future[t] = "none" /\ \A c \in Tasks \cup Lockers : c # t => future'[c] = future[c]
  BY <1>3 DEF BP!Enter, BP!CheckInstance, BP!PostEvent, BP!PostToDead, BP!EnteringIsNew
<1>4. ASSUME NEW t \in Tasks \cup Lockers, BP!RunTask(t) \/ BP!HandleLocker(t)
      PROVE  /\ world' = world /\ world \in {"exec", "quitting"} /\ future[t] = "pending"
             /\ future'[t] # "none" /\ \A c \in Tasks \cup Lockers : c # t => future'[c] = future[c]
  <2>1. handled + 1 \in (handled + 1)..Len(posted) /\ posted[handled + 1] = t /\ world \in {"exec", "quitting"}
    BY <1>4 DEF BP!RunTask, BP!HandleTask, BP!HandleLocker
  <2>2. future[t] = "pending"
    BY <2>1 DEF BP!QueuedHaveNot, BP!BrokenAtTheEnd
  <2> QED BY <1>4, <2>1, <2>2 DEF BP!RunTask, BP!HandleTask, BP!HandleLocker
<1>5. CASE \/ BP!ConstructApplication \/ BP!MoveHandler \/ BP!CallReady \/ BP!EnterLoop
           \/ BP!HandleQuit \/ BP!LeaveLoop \/ BP!DestroyApplication \/ BP!Abort
  BY <1>5 DEF BP!ConstructApplication, BP!MoveHandler, BP!CallReady, BP!EnterLoop, BP!HandleQuit, BP!LeaveLoop,
              BP!DestroyApplication, BP!Abort
<1> QED BY <1>1, <1>2, <1>3, <1>4, <1>5 DEF BP!Next, BP!Loop

\* Steps that move futures, and start requests, but nothing the tool counts.
Uncounted ==
    /\ UNCHANGED <<promises, plan, counters, returnVal, db, exit>>
    /\ requests' \subseteq Locales \cup Packages
    /\ \A c \in requests' : future'[c] = "value"
    /\ \A c \in Locales \cup Packages : Processed(c)' <=> Processed(c)
    /\ \A c \in Packages \cup {OnNothing} : (future'[c] # "none" \/ c \in entering') =>
           future[c] # "none" \/ c \in entering \/ c \in plan
    /\ debt' = debt \/ (debt' = "none" /\ future'[debt] # "none")
    /\ future'[OnError] # "none" => BootstrapFailed
    /\ future'[OnLast] # "none" => debt = OnLast \/ future[OnLast] # "none"

LEMMA UncountedKeeps ==
  ASSUME IInv, [Next]_vars, Uncounted, click' \in {"none", "running"} \cup ClickEndings
  PROVE  /\ ToolTypes' /\ LocalesCounted' /\ PackagesCounted' /\ BootstrapInv' /\ PlanInv' /\ BegunInv'
         /\ ResultsInv' /\ ExitInv'
<1> USE DEF IInv, ToolInv
<1>1. BootstrapFailed' <=> BootstrapFailed
  <2>1. OnError # "none" /\ OnError \in Tasks \cup Lockers
    BY ToolAssumption DEF Idle, Lockers
  <2> QED BY <2>1, BridgeGoesOn DEF Uncounted, BootstrapFailed
<1>2. LocalesLeft' = LocalesLeft /\ PackagesLeft' = PackagesLeft
  BY CountsKept DEF Uncounted
<1>3. ToolTypes'
  BY DEF Uncounted, ToolTypes, promises, counters, db, Idle
<1>4. LocalesCounted' /\ PackagesCounted'
  BY <1>1, <1>2, BridgeGoesOn DEF Uncounted, LocalesCounted, PackagesCounted, counters
<1>5. BootstrapInv' /\ PlanInv'
  BY <1>1 DEF Uncounted, BootstrapInv, PlanInv, promises, counters
<1>6. BegunInv'
  <2>1. OnLast # "none"
    BY ToolAssumption DEF Idle, Lockers
  <2> QED BY <2>1 DEF Uncounted, BegunInv, counters
<1>7. ResultsInv'
  BY DEF Uncounted, ResultsInv, db
<1>8. ExitInv'
  BY BridgeGoesOn DEF Uncounted, ExitInv, SuccessIsComplete, promises, db
<1> QED BY <1>3, <1>4, <1>5, <1>6, <1>7, <1>8

\* Entering a closure.
LEMMA EnterUncounted ==
  ASSUME IInv, NEW t \in Tasks \cup Lockers,
         Bridge!CheckInstance(t) \/ Bridge!PostEvent(t) \/ Bridge!PostToDead(t),
         UNCHANGED <<click, promises, plan, requests, counters, returnVal, db, exit>>,
         \/ t \in {Click} \cup Locales \cup plan /\ debt' = debt
         \/ t = debt /\ debt \in Lockers /\ (debt' = debt \/ (debt' = "none" /\ Bridge!PostEvent(t)))
  PROVE  Uncounted /\ QuitHasLocker'
<1> USE DEF IInv, ToolInv
<1>1. /\ future[t] = "none" /\ future'[t] \in {"none", "pending", "stranded", "thrown", "lost"}
      /\ \A c \in Tasks \cup Lockers : c # t => future'[c] = future[c]
      /\ entering' \subseteq entering \cup {t}
      /\ \A i \in 1..Len(posted') : posted'[i] = Quit => i \in 1..Len(posted) /\ posted[i] = Quit
  BY EnterMoves
<1>2. \A c \in Locales \cup Packages : c \in Tasks \cup Lockers
  BY DEF Tasks
<1>3. \A c \in requests : future'[c] = "value"
  BY <1>1, <1>2 DEF BegunInv, ToolTypes
<1>4. \A c \in Locales \cup Packages : Processed(c)' <=> Processed(c)
  BY <1>1, <1>2 DEF Processed
<1>5. t \in Packages \cup {OnNothing} => t \in plan
  BY ToolAssumption DEF ToolTypes, Tasks, Lockers, Idle
<1>6. \A c \in Packages \cup {OnNothing} : (future'[c] # "none" \/ c \in entering') =>
           future[c] # "none" \/ c \in entering \/ c \in plan
  BY <1>1, <1>2, <1>5 DEF Lockers
<1>7. t \in {OnError, OnLast} => t = debt
  BY ToolAssumption DEF ToolTypes, Tasks, Lockers
<1>8. /\ future'[OnError] # "none" => BootstrapFailed
      /\ future'[OnLast] # "none" => debt = OnLast \/ future[OnLast] # "none"
  BY <1>1, <1>7 DEF BootstrapFailed, Lockers
<1>9. Bridge!PostEvent(t) => future'[t] # "none"
  BY DEF Bridge!PostEvent, BP!IInv, BP!TypeOK, BP!Closures
<1>10. \A l \in Lockers : future[l] = "value" => future'[l] = "value"
  BY <1>1
<1> QED BY <1>1, <1>3, <1>4, <1>6, <1>8, <1>9, <1>10 DEF Uncounted, ToolTypes, QuitHasLocker

\* The threads, and the slots that call destroy(), keep the invariant; none of them
\* dies before a bootstrap request has failed or "click" has crashed.
LEMMA EnterKeeps ==
  ASSUME IInv, EnterClick \/ SlotDestroys \/ (\E l \in Locales : NetThread(l))
               \/ \E c \in Packages \cup {OnNothing} : DetailsThread(c)
  PROVE  ToolInv'
<1> USE DEF IInv, ToolInv
<1>1. PICK t \in Tasks \cup Lockers :
        /\ Bridge!CheckInstance(t) \/ Bridge!PostEvent(t) \/ Bridge!PostToDead(t)
        /\ UNCHANGED <<click, promises, plan, requests, counters, returnVal, db, exit>>
        /\ \/ t = Click /\ world = "announced" /\ debt' = debt
           \/ t \in Locales \cup plan /\ packages # Unset /\ debt' = debt
           \/ t = debt /\ debt \in Lockers /\ (debt' = debt \/ (debt' = "none" /\ Bridge!PostEvent(t)))
  <2>1. CASE EnterClick
    BY <2>1 DEF EnterClick, toolVars, Tasks
  <2>2. CASE SlotDestroys
    BY <2>2 DEF SlotDestroys
  <2>3. ASSUME NEW l \in Locales, NetThread(l)
        PROVE  l \in Tasks /\ Bridge!Enter(l) /\ packages # Unset /\ UNCHANGED toolVars
    BY <2>3 DEF NetThread, EnterNext, Tasks
  <2>4. ASSUME NEW c \in Packages \cup {OnNothing}, DetailsThread(c)
        PROVE  c \in Tasks \cup Lockers /\ c \in plan /\ Bridge!Enter(c) /\ packages # Unset /\ UNCHANGED toolVars
    BY <2>4 DEF DetailsThread, EnterNext, Tasks, Lockers, PlanInv
  <2> QED BY <2>1, <2>2, <2>3, <2>4 DEF Bridge!Enter, toolVars
<1>2. Next
  BY DEF Next
<1>3. Uncounted /\ QuitHasLocker'
  BY <1>1, EnterUncounted
<1>4. /\ ToolTypes' /\ LocalesCounted' /\ PackagesCounted' /\ BootstrapInv' /\ PlanInv' /\ BegunInv'
      /\ ResultsInv' /\ ExitInv'
  BY <1>1, <1>2, <1>3, UncountedKeeps DEF ToolTypes
<1>5. /\ future[t] = "none"
      /\ \A c \in Tasks \cup Lockers : c # t => future'[c] = future[c]
      /\ world' = world \/ (world = "gone" /\ world' = "aborted")
      /\ future'[t] = "thrown" => world \in {"unbuilt", "gone", "aborted"}
  BY <1>1, EnterMoves
<1>6. ClickInv'
  BY <1>1, <1>2, BridgeGoesOn DEF ClickInv, promises, Tasks
<1>7. debt \in Lockers => debt # "none"
  BY ToolAssumption DEF Idle
<1>8. SlotInv'
  BY <1>1, <1>5 DEF SlotInv
<1>9. DeathHasACause'
  <2> SUFFICES ASSUME ~BootstrapFailed', click # "crashed"
               PROVE  Alive'
    BY <1>1 DEF DeathHasACause
  <2>1. ~BootstrapFailed
    <3>1. OnError # "none" /\ OnError \in Tasks \cup Lockers
      BY ToolAssumption DEF Idle, Lockers
    <3> QED BY <1>2, <1>3, <3>1, BridgeGoesOn DEF BootstrapFailed, Uncounted
  <2>2. Alive
    BY <2>1 DEF DeathHasACause
  <2>3. world # "gone"
    <3> SUFFICES ASSUME world = "gone" PROVE FALSE
      OBVIOUS
    <3>1. \A c \in Locales \cup plan : future[c] = "value"
      BY <2>1, StoppedIsDone DEF Stopping
    <3> QED BY <1>1, <1>5, <1>7, <3>1 DEF SlotInv
  <2>4. world # "unbuilt"
    BY <1>1, <1>7 DEF ClickInv, SlotInv, ClickEndings
  <2> QED BY <1>5, <2>2, <2>3, <2>4 DEF Alive
<1> QED BY <1>3, <1>4, <1>6, <1>8, <1>9

\* The loop that handles a closure.
LEMMA HandleUncounted ==
  ASSUME IInv, NEW t \in Tasks \cup Lockers, Bridge!InLoop, Bridge!NextEventIs(t),
         future' = [future EXCEPT ![t] = "value"], UNCHANGED <<world, entering>>,
         posted' = posted \/ (posted' = Append(posted, Quit) /\ t \in Lockers),
         UNCHANGED <<promises, plan, counters, returnVal, debt, db, exit>>,
         IF t \in Locales \cup Packages THEN requests' = requests \cup {t} ELSE requests' = requests
  PROVE  Uncounted /\ QuitHasLocker' /\ (Alive => Alive')
<1> USE DEF IInv, ToolInv
<1>1. /\ future[t] = "pending" /\ future'[t] = "value"
      /\ \A c \in Tasks \cup Lockers : c # t => future'[c] = future[c]
  BY HandleMoves
<1>2. Locales \cup Packages \subseteq Tasks
  BY DEF Tasks
<1>3. /\ requests' \subseteq Locales \cup Packages
      /\ \A c \in requests' : future'[c] = "value"
      /\ \A c \in Locales \cup Packages : Processed(c)' <=> Processed(c)
  BY <1>1, <1>2 DEF BegunInv, ToolTypes, Processed
<1>4. \A c \in Tasks \cup Lockers : future'[c] # "none" => future[c] # "none"
  BY <1>1
<1>5. OnNothing \in Lockers /\ OnError \in Lockers /\ OnLast \in Lockers
  BY DEF Lockers
<1>6. Uncounted
  BY <1>2, <1>3, <1>4, <1>5 DEF Uncounted, BootstrapFailed
<1>7. QuitHasLocker'
  <2>1. \A i \in 1..Len(posted') : posted'[i] = Quit => t \in Lockers \/ (i \in 1..Len(posted) /\ posted[i] = Quit)
    BY DEF BP!IInv, BP!TypeOK
  <2> QED BY <1>1, <2>1 DEF QuitHasLocker
<1>8. Alive => Alive'
  BY <1>1 DEF Alive
<1> QED BY <1>6, <1>7, <1>8

\* A death keeps its cause.
LEMMA CauseLasts ==
  ASSUME IInv, [Next]_vars, Uncounted, click = "crashed" => click' = "crashed", Alive => Alive'
  PROVE  DeathHasACause'
<1>1. OnError # "none" /\ OnError \in Tasks \cup Lockers
  BY ToolAssumption DEF Idle, Lockers
<1>2. BootstrapFailed => BootstrapFailed'
  BY <1>1, BridgeGoesOn DEF Uncounted, BootstrapFailed, IInv
<1> QED BY <1>2 DEF IInv, ToolInv, DeathHasACause

\* The loop handles the closure that starts "click", one that starts a request, or
\* one of destroy().
LEMMA HandleKeeps ==
  ASSUME IInv, StartClick \/ (\E c \in Locales \cup Packages : StartRequest(c))
               \/ (LoopStep /\ \E l \in Lockers : Bridge!HandleLocker(l))
  PROVE  ToolInv'
<1> USE DEF IInv, ToolInv
<1> DEFINE Handles(t) ==
              /\ Bridge!InLoop /\ Bridge!NextEventIs(t)
              /\ future' = [future EXCEPT ![t] = "value"] /\ UNCHANGED <<world, entering>>
              /\ posted' = posted \/ (posted' = Append(posted, Quit) /\ t \in Lockers)
              /\ UNCHANGED <<promises, plan, counters, returnVal, debt, db, exit>>
              /\ IF t \in Locales \cup Packages THEN requests' = requests \cup {t} ELSE requests' = requests
              /\ IF t = Click THEN click' = "running" ELSE click' = click
<1>1. PICK t \in Tasks \cup Lockers : Handles(t)
  <2>1. ASSUME StartClick PROVE Handles(Click)
    <3>1. Click \notin Locales \cup Packages
      BY ToolAssumption
    <3> QED BY <2>1, <3>1 DEF StartClick, Bridge!HandleTask
  <2>2. ASSUME NEW c \in Locales \cup Packages, StartRequest(c) PROVE Handles(c)
    <3>1. c # Click
      BY ToolAssumption
    <3> QED BY <2>2, <3>1 DEF StartRequest, Bridge!HandleTask
  <2>3. ASSUME NEW l \in Lockers, LoopStep, Bridge!HandleLocker(l) PROVE Handles(l)
    <3>1. l \notin Locales \cup Packages /\ l # Click
      BY ToolAssumption DEF Tasks
    <3> QED BY <2>3, <3>1 DEF LoopStep, Bridge!HandleLocker, toolVars
  <2> HIDE DEF Handles
  <2> QED BY <2>1, <2>2, <2>3 DEF Tasks
<1>2. Next
  BY DEF Next
<1>3. Uncounted /\ QuitHasLocker' /\ (Alive => Alive')
  BY <1>1, HandleUncounted
<1>4. /\ ToolTypes' /\ LocalesCounted' /\ PackagesCounted' /\ BootstrapInv' /\ PlanInv' /\ BegunInv'
      /\ ResultsInv' /\ ExitInv'
  BY <1>1, <1>2, <1>3, UncountedKeeps DEF ToolTypes
<1>5. Click \in Tasks /\ future[t] = "pending" /\ future'[t] = "value" /\ world \in {"exec", "quitting"}
  BY <1>1, HandleMoves DEF Tasks, Bridge!InLoop
<1>6. t = Click => click = "none"
  BY <1>5 DEF ClickInv
<1>7. ClickInv' /\ SlotInv'
  BY <1>1, <1>2, <1>5, <1>6, BridgeGoesOn DEF ClickInv, SlotInv, promises, ClickEndings
<1>8. DeathHasACause'
  BY <1>1, <1>2, <1>3, <1>6, CauseLasts
<1> QED BY <1>3, <1>4, <1>7, <1>8

\* The world goes on; the teardown breaks what is pending; only the second callback
\* of a crashed "click" aborts it here.
LEMMA WorldKeeps ==
  ASSUME IInv, \/ BuildWorld \/ EnterLoop \/ Teardown \/ ClickCallbackAgain
               \/ LoopStep /\ (Bridge!HandleQuit \/ Bridge!LeaveLoop)
  PROVE  ToolInv'
<1> USE DEF IInv, ToolInv
<1>1. Next
  BY DEF Next, LoopStep
<1>2. UNCHANGED toolVars
  BY DEF BuildWorld, EnterLoop, Teardown, ClickCallbackAgain, LoopStep
<1>3. /\ entering' = entering /\ posted' = posted
      /\ \A c \in Tasks \cup Lockers :
            future'[c] = future[c] \/ (future[c] = "pending" /\ future'[c] = "broken")
      /\ world' = "aborted" => ClickCallbackAgain
      /\ world' # "aborted" => debt = "none"
  <2>1. CASE BuildWorld
    BY <2>1 DEF BuildWorld, Bridge!ConstructApplication, Bridge!MoveHandler, Bridge!CallReady, SlotInv
  <2>2. CASE EnterLoop
    BY <2>2 DEF EnterLoop, Bridge!EnterLoop, SlotInv
  <2>3. CASE Teardown
    BY <2>3 DEF Teardown, Bridge!DestroyApplication, Bridge!Closures, SlotInv
  <2>4. CASE ClickCallbackAgain
    BY <2>4 DEF ClickCallbackAgain, Bridge!Abort
  <2>5. CASE LoopStep /\ (Bridge!HandleQuit \/ Bridge!LeaveLoop)
    BY <2>5 DEF LoopStep, BetweenSlots, Bridge!HandleQuit, Bridge!LeaveLoop
  <2> QED BY <2>1, <2>2, <2>3, <2>4, <2>5
<1>4. Locales \cup Packages \subseteq Tasks
  BY DEF Tasks
<1>5. /\ \A c \in Tasks \cup Lockers : future'[c] # "none" => future[c] # "none"
      /\ \A c \in Tasks \cup Lockers : future'[c] = "value" <=> future[c] = "value"
  BY <1>3
<1>6. /\ requests' \subseteq Locales \cup Packages
      /\ \A c \in requests' : future'[c] = "value"
      /\ \A c \in Locales \cup Packages : Processed(c)' <=> Processed(c)
  BY <1>2, <1>4, <1>5 DEF BegunInv, ToolTypes, Processed, toolVars
<1>7. Uncounted
  <2>1. OnNothing \in Lockers /\ OnError \in Lockers /\ OnLast \in Lockers
    BY DEF Lockers
  <2> QED BY <1>2, <1>3, <1>4, <1>5, <1>6, <2>1 DEF Uncounted, BootstrapFailed, toolVars
<1>8. /\ ToolTypes' /\ LocalesCounted' /\ PackagesCounted' /\ BootstrapInv' /\ PlanInv' /\ BegunInv'
      /\ ResultsInv' /\ ExitInv'
  BY <1>1, <1>2, <1>7, UncountedKeeps DEF ToolTypes, toolVars
<1>9. Click \in Tasks
  BY DEF Tasks
<1>10. ClickInv' /\ SlotInv' /\ QuitHasLocker'
  BY <1>1, <1>2, <1>3, <1>5, <1>9, BridgeGoesOn DEF ClickInv, SlotInv, QuitHasLocker, toolVars, promises
<1>11. DeathHasACause'
  <2>1. CASE ClickCallbackAgain
    BY <1>2, <2>1 DEF ClickCallbackAgain, ClickInv, DeathHasACause, toolVars
  <2>2. CASE ~ClickCallbackAgain
    <3>1. Alive => Alive'
      BY <1>3, <2>2 DEF Alive
    <3> QED BY <1>1, <1>2, <1>7, <3>1, CauseLasts DEF toolVars
  <2> QED BY <2>1, <2>2
<1> QED BY <1>8, <1>10, <1>11

-----------------------------------------------------------------------------
(* ... then the slots and the steps of the threads between two closures.   *)

\* What a step that leaves the bridge alone has to keep.
LEMMA BridgeStays ==
  ASSUME IInv, UNCHANGED bridgeVars,
         BootstrapFailed => BootstrapFailed', click = "crashed" => click' = "crashed"
  PROVE  QuitHasLocker' /\ DeathHasACause'
<1>1. Alive' <=> Alive
  BY DEF bridgeVars, Alive
<1> QED BY <1>1 DEF IInv, ToolInv, QuitHasLocker, DeathHasACause, bridgeVars

\* While the loop delivers there is no exit code.
LEMMA NoExitYet ==
  ASSUME IInv, world \in {"exec", "quitting"}, exit' = exit
  PROVE  ExitInv'
  BY ToolAssumption DEF IInv, ToolInv, ExitInv, SuccessIsComplete, Endings, Codes

\* "click list" ends.
LEMMA ClickEndsKeeps ==
  ASSUME IInv, NEW ending \in ClickEndings, ClickEnds(ending)
  PROVE  ToolInv'
<1> USE DEF IInv, ToolInv
<1>1. /\ UNCHANGED <<bridgeVars, promises, plan, requests, counters, returnVal, debt, db, exit>>
      /\ click = "running" /\ click' = ending
  BY DEF ClickEnds
<1>2. BootstrapFailed' <=> BootstrapFailed
  BY <1>1 DEF BootstrapFailed, bridgeVars
<1>3. QuitHasLocker' /\ DeathHasACause'
  BY <1>1, <1>2, BridgeStays
<1>4. LocalesLeft' = LocalesLeft /\ PackagesLeft' = PackagesLeft
  BY <1>1 DEF LocalesLeft, PackagesLeft, Processed, bridgeVars
<1>5. ToolTypes' /\ ClickInv' /\ SlotInv'
  BY <1>1 DEF ToolTypes, ClickInv, SlotInv, bridgeVars, promises, counters, db, ClickEndings
<1>6. LocalesCounted' /\ PackagesCounted' /\ BootstrapInv' /\ PlanInv' /\ BegunInv'
  BY <1>1, <1>2, <1>4 DEF LocalesCounted, PackagesCounted, BootstrapInv, PlanInv, BegunInv,
                          bridgeVars, promises, counters
<1>7. ResultsInv' /\ ExitInv'
  BY <1>1 DEF ResultsInv, ExitInv, SuccessIsComplete, Processed, bridgeVars, promises, db
<1> QED BY <1>3, <1>5, <1>6, <1>7

\* The callback of "click list" sets pkgs_ready, once; nothing was planned before.
LEMMA ClickCallbackKeeps ==
  ASSUME IInv, NEW listed \in SUBSET Packages, ClickCallback(listed)
  PROVE  ToolInv'
<1> USE DEF IInv, ToolInv
<1>1. /\ UNCHANGED <<bridgeVars, click, bootstrapReady, plan, requests, counters, db, exit>>
      /\ world \in {"exec", "quitting"} /\ debt = "none" /\ packages = Unset /\ click \in ClickEndings
      /\ packages' = listed
      /\ returnVal' \in {returnVal, "click"}
      /\ debt' = IF click = "crashed" THEN "callback" ELSE "none"
  BY DEF ClickCallback, Delivers, Bridge!InLoop, BetweenSlots
<1>2. "callback" \notin Lockers /\ "none" \notin Lockers
  BY ToolAssumption DEF Idle
<1>3. BootstrapFailed' <=> BootstrapFailed
  BY <1>1, <1>2 DEF BootstrapFailed, bridgeVars, Lockers
<1>4. QuitHasLocker' /\ DeathHasACause'
  BY <1>1, <1>3, BridgeStays
<1>5. LocalesLeft' = LocalesLeft /\ PackagesLeft' = PackagesLeft
  BY <1>1 DEF LocalesLeft, PackagesLeft, Processed, bridgeVars
<1>6. plan = {}
  BY <1>1 DEF PlanInv
<1>7. ToolTypes' /\ ClickInv' /\ SlotInv'
  BY <1>1 DEF ToolTypes, ClickInv, SlotInv, bridgeVars, counters, db, Idle, Codes
<1>8. LocalesCounted' /\ PackagesCounted' /\ BootstrapInv' /\ PlanInv'
  BY <1>1, <1>3, <1>5, <1>6 DEF LocalesCounted, PackagesCounted, BootstrapInv, PlanInv, bridgeVars, counters
<1>9. BegunInv'
  BY <1>1, <1>2 DEF BegunInv, bridgeVars, counters, Lockers
<1>10. ResultsInv'
  BY <1>1 DEF ResultsInv, Processed, bridgeVars, db
<1>11. ExitInv'
  BY <1>1, NoExitYet
<1> QED BY <1>4, <1>7, <1>8, <1>9, <1>10, <1>11

\* The departments of a locale arrive: the last of them sets bootstrap_ready.
LEMMA DepartmentsKeep ==
  ASSUME IInv, NEW l \in Locales, NEW storedWell \in BOOLEAN, DepartmentsArrive(l, storedWell)
  PROVE  ToolInv'
<1> USE DEF IInv, ToolInv
<1>1. /\ UNCHANGED <<bridgeVars, click, packages, plan, numOfPkgs, debt, mapped, exit>>
      /\ world \in {"exec", "quitting"} /\ debt = "none" /\ l \in requests
      /\ requests' = requests \ {l}
      /\ stored' = IF storedWell THEN stored \cup {l} ELSE stored
      /\ returnVal' = IF storedWell THEN returnVal ELSE "db"
      /\ numOfLocales' = numOfLocales - 1
      /\ bootstrapReady' = (bootstrapReady \/ numOfLocales = 1)
  BY DEF DepartmentsArrive, Delivers, Bridge!InLoop, BetweenSlots, CodeAfter, LastLocaleProcessed
<1>2. BootstrapFailed' <=> BootstrapFailed
  BY <1>1 DEF BootstrapFailed, bridgeVars
<1>3. QuitHasLocker' /\ DeathHasACause'
  BY <1>1, <1>2, BridgeStays
<1>4. future[l] = "value" /\ l \notin Packages
  BY <1>1, ToolAssumption DEF BegunInv
<1>5. /\ Cardinality(LocalesLeft') = Cardinality(LocalesLeft) - 1
      /\ PackagesLeft' = PackagesLeft
  BY <1>1, <1>4, ReplyCounts DEF bridgeVars
<1>6. l \in LocalesLeft
  BY <1>1 DEF LocalesLeft, Processed
<1>7. numOfLocales \in Nat \ {0} /\ numOfLocales' \in 0..Cardinality(Locales)
  BY <1>1, <1>6, LeftIsFinite, ToolAssumption, FS_CardinalityType DEF LocalesCounted, ToolTypes
<1>8. ToolTypes'
  BY <1>1, <1>7 DEF ToolTypes, Codes
<1>9. LocalesCounted' /\ PackagesCounted'
  <2>1. LocalesCounted'
    BY <1>1, <1>2, <1>5, LeftIsFinite DEF LocalesCounted, bridgeVars
  <2>2. PackagesCounted'
    BY <1>1, <1>5 DEF PackagesCounted
  <2> QED BY <2>1, <2>2
<1>10. BootstrapInv' /\ PlanInv'
  <2>1. bootstrapReady' <=> bootstrapReady \/ numOfLocales = 1
    BY <1>1
  <2>2. numOfLocales = 1 => numOfLocales' = 0
    BY <1>1
  <2>3. returnVal # "ok" => returnVal' # "ok"
    BY <1>1
  <2>4. BootstrapInv'
    BY <1>2, <1>7, <2>1, <2>2, <2>3 DEF BootstrapInv
  <2>5. PlanInv'
    BY <1>1, <1>7, <2>1, <2>3 DEF PlanInv
  <2> QED BY <2>4, <2>5
<1>11. ClickInv' /\ SlotInv' /\ BegunInv'
  BY <1>1 DEF ClickInv, SlotInv, BegunInv, bridgeVars
<1>12. ResultsInv'
  BY <1>1, <1>4 DEF ResultsInv, Processed, bridgeVars
<1>13. ExitInv'
  BY <1>1, NoExitYet
<1> QED BY <1>3, <1>8, <1>9, <1>10, <1>11, <1>12, <1>13

\* A bootstrap request fails: the first time the locale stays counted, the second
\* time the process dies of the promise that is set.
LEMMA FailureKeeps ==
  ASSUME IInv, NEW l \in Locales, BootstrapFails(l)
  PROVE  ToolInv'
<1> USE DEF IInv, ToolInv
<1>1. /\ UNCHANGED <<click, packages, plan, counters, db, exit>>
      /\ UNCHANGED <<posted, handled, entering, future>>
      /\ world \in {"exec", "quitting"} /\ debt = "none" /\ l \in requests
      /\ requests' = requests \ {l}
      /\ returnVal' = "network"
      /\ \/ bootstrapReady /\ bootstrapReady' = bootstrapReady /\ debt' = debt /\ world' = "aborted"
         \/ ~bootstrapReady /\ bootstrapReady' = TRUE /\ debt' = OnError /\ world' = world
  BY DEF BootstrapFails, Delivers, Bridge!InLoop, BetweenSlots, Bridge!Abort, bridgeVars
<1>2. future[l] = "value" /\ l \notin Packages
  BY <1>1, ToolAssumption DEF BegunInv
<1>3. /\ Cardinality(LocalesLeft') = Cardinality(LocalesLeft) - 1
      /\ PackagesLeft' = PackagesLeft
  BY <1>1, <1>2, ReplyCounts
<1>4. l \in LocalesLeft
  BY <1>1 DEF LocalesLeft, Processed
<1>5. OnError # OnLast /\ OnError # "callback"
  BY ToolAssumption DEF Idle, Lockers
<1>6. numOfLocales # 0
  BY <1>1, <1>4, LeftIsFinite DEF LocalesCounted
<1>7. BootstrapFailed' /\ (BootstrapFailed <=> bootstrapReady)
  BY <1>1, <1>6 DEF BootstrapFailed, BootstrapInv
<1>8. ToolTypes'
  BY <1>1 DEF ToolTypes, Codes, counters, db
<1>9. LocalesCounted' /\ PackagesCounted'
  <2>1. LocalesCounted'
    BY <1>1, <1>3, <1>7, LeftIsFinite DEF LocalesCounted, counters
  <2>2. PackagesCounted'
    BY <1>1, <1>3 DEF PackagesCounted, counters
  <2> QED BY <2>1, <2>2
<1>10. BootstrapInv' /\ PlanInv'
  BY <1>1, <1>7 DEF BootstrapInv, PlanInv, counters
<1>11. ClickInv' /\ SlotInv' /\ BegunInv'
  BY <1>1, <1>5 DEF ClickInv, SlotInv, BegunInv, counters
<1>12. QuitHasLocker' /\ DeathHasACause'
  BY <1>1, <1>7 DEF QuitHasLocker, DeathHasACause
<1>13. ResultsInv' /\ ExitInv'
  BY <1>1, NoExitYet DEF ResultsInv, db
<1> QED BY <1>8, <1>9, <1>10, <1>11, <1>12, <1>13

\* The details of a package arrive: the last of them calls destroy().
LEMMA DetailsKeep ==
  ASSUME IInv, NEW p \in Packages, NEW verdict \in {"ok", "network", "db"}, DetailsArrive(p, verdict)
  PROVE  ToolInv'
<1> USE DEF IInv, ToolInv
<1>1. /\ UNCHANGED <<bridgeVars, click, promises, plan, numOfLocales, stored, exit>>
      /\ world \in {"exec", "quitting"} /\ debt = "none" /\ p \in requests
      /\ requests' = requests \ {p}
      /\ mapped' = IF verdict = "ok" THEN mapped \cup {p} ELSE mapped
      /\ returnVal' = IF verdict = "ok" THEN returnVal ELSE verdict
      /\ numOfPkgs' = numOfPkgs - 1
      /\ debt' = IF numOfPkgs = 1 THEN OnLast ELSE "none"
  BY DEF DetailsArrive, Delivers, Bridge!InLoop, BetweenSlots, CodeAfter, LastPackageProcessed
<1>2. OnError # OnLast /\ OnError # "none" /\ OnLast # "none" /\ OnLast # "callback"
  BY ToolAssumption DEF Idle, Lockers
<1>3. BootstrapFailed' <=> BootstrapFailed
  BY <1>1, <1>2 DEF BootstrapFailed, bridgeVars
<1>4. QuitHasLocker' /\ DeathHasACause'
  BY <1>1, <1>3, BridgeStays
<1>5. future[p] = "value" /\ p \in plan /\ p \notin Locales
  <2>1. future[p] = "value"
    BY <1>1 DEF BegunInv
  <2>2. future[p] # "none"
    BY <2>1
  <2> QED BY <2>1, <2>2, ToolAssumption DEF BegunInv
<1>6. /\ LocalesLeft' = LocalesLeft
      /\ Cardinality(PackagesLeft') = Cardinality(PackagesLeft) - 1
  BY <1>1, <1>5, ReplyCounts DEF bridgeVars
<1>7. p \in PackagesLeft
  BY <1>1, <1>5 DEF PackagesLeft, Processed
<1>8. numOfPkgs = Cardinality(PackagesLeft) /\ numOfPkgs \in Nat \ {0}
  BY <1>5, <1>7, LeftIsFinite DEF PackagesCounted
<1>9. ToolTypes'
  <2>1. numOfPkgs' \in 0..Cardinality(Packages)
    BY <1>1, <1>8, ToolAssumption, FS_CardinalityType DEF ToolTypes
  <2> QED BY <1>1, <2>1 DEF ToolTypes, Codes, Idle, promises
<1>10. LocalesCounted' /\ PackagesCounted'
  BY <1>1, <1>3, <1>6, <1>8 DEF LocalesCounted, PackagesCounted, bridgeVars
<1>11. BootstrapInv' /\ PlanInv'
  BY <1>1, <1>3 DEF BootstrapInv, PlanInv, promises
<1>12. ClickInv' /\ SlotInv'
  BY <1>1, <1>2 DEF ClickInv, SlotInv, bridgeVars, promises
<1>13. BegunInv'
  BY <1>1, <1>2, <1>5, <1>8 DEF BegunInv, bridgeVars
<1>14. ResultsInv'
  BY <1>1, <1>5 DEF ResultsInv, Processed, bridgeVars
<1>15. ExitInv'
  BY <1>1, NoExitYet
<1> QED BY <1>4, <1>9, <1>10, <1>11, <1>12, <1>13, <1>14, <1>15

\* details_thread looks at what has come: nothing has been planned or entered yet.
LEMMA DetailsThreadKeeps ==
  ASSUME IInv, DetailsThreadStarts
  PROVE  ToolInv'
<1> USE DEF IInv, ToolInv
<1>1. /\ UNCHANGED <<bridgeVars, click, promises, requests, numOfLocales, returnVal, debt, db, exit>>
      /\ bootstrapReady /\ packages # Unset /\ plan = {}
      /\ numOfPkgs' = Cardinality(packages)
      /\ plan' = IF returnVal # "ok" \/ packages = {} THEN {OnNothing} ELSE packages
  BY DEF DetailsThreadStarts, PackagesToProcess
<1>2. BootstrapFailed' <=> BootstrapFailed
  BY <1>1 DEF BootstrapFailed, bridgeVars
<1>3. QuitHasLocker' /\ DeathHasACause'
  BY <1>1, <1>2, BridgeStays
<1>4. packages \subseteq Packages /\ OnNothing \notin Packages
  BY <1>1, ToolAssumption DEF ToolTypes, Tasks, Lockers
<1>5. \A p \in Packages : future[p] = "none" /\ ~Processed(p)
  BY <1>1 DEF BegunInv, Processed
<1>6. LocalesLeft' = LocalesLeft /\ PackagesLeft' = plan' \cap Packages
  BY <1>1, <1>5 DEF LocalesLeft, PackagesLeft, Processed, bridgeVars
<1>7. plan' \cap Packages # {} => plan' = packages /\ plan' \cap Packages = packages /\ returnVal = "ok"
  BY <1>1, <1>4
<1>8. Cardinality(packages) \in 0..Cardinality(Packages)
  BY <1>4, ToolAssumption, FS_Subset, FS_CardinalityType
<1>9. ToolTypes'
  BY <1>1, <1>4, <1>8 DEF ToolTypes, promises, db
<1>10. LocalesCounted' /\ PackagesCounted'
  BY <1>1, <1>2, <1>6, <1>7 DEF LocalesCounted, PackagesCounted, bridgeVars
<1>11. BootstrapInv'
  BY <1>1, <1>2 DEF BootstrapInv, promises
<1>12. PlanInv'
  <2>1. plan' \cap Packages # {} => numOfLocales = 0
    BY <1>1, <1>7 DEF BootstrapInv
  <2>2. OnNothing \in plan' => returnVal # "ok" \/ packages = {}
    BY <1>1, <1>4
  <2> QED BY <1>1, <2>1, <2>2 DEF PlanInv, promises
<1>13. ClickInv' /\ SlotInv' /\ BegunInv'
  <2>1. BegunInv'
    BY <1>1 DEF BegunInv, bridgeVars
  <2> QED BY <1>1, <2>1 DEF ClickInv, SlotInv, bridgeVars, promises
<1>14. ResultsInv' /\ ExitInv'
  BY <1>1 DEF ResultsInv, ExitInv, SuccessIsComplete, Processed, bridgeVars, promises, db
<1> QED BY <1>3, <1>9, <1>10, <1>11, <1>12, <1>13, <1>14

\* The tool ends: an exit code 0 finds everything processed, and stored.
LEMMA FinishKeeps ==
  ASSUME IInv, NEW storedWell \in BOOLEAN, NEW counted \in BOOLEAN, Finish(storedWell, counted)
  PROVE  ToolInv'
<1> USE DEF IInv, ToolInv
<1>1. /\ UNCHANGED <<bridgeVars, click, promises, plan, requests, counters, returnVal, debt, db>>
      /\ world = "gone" /\ plan # {}
      /\ exit' \in {"db", "uncaught", returnVal}
  BY DEF Finish
<1>2. BootstrapFailed' <=> BootstrapFailed
  BY <1>1 DEF BootstrapFailed, bridgeVars
<1>3. QuitHasLocker' /\ DeathHasACause'
  BY <1>1, <1>2, BridgeStays
<1>4. LocalesLeft' = LocalesLeft /\ PackagesLeft' = PackagesLeft
  BY <1>1 DEF LocalesLeft, PackagesLeft, Processed, bridgeVars
<1>5. ToolTypes' /\ ClickInv' /\ SlotInv'
  BY <1>1 DEF ToolTypes, ClickInv, SlotInv, bridgeVars, promises, counters, db, Codes, Endings
<1>6. LocalesCounted' /\ PackagesCounted' /\ BootstrapInv' /\ PlanInv' /\ BegunInv'
  BY <1>1, <1>2, <1>4 DEF LocalesCounted, PackagesCounted, BootstrapInv, PlanInv, BegunInv,
                          bridgeVars, promises, counters
<1>7. ResultsInv'
  BY <1>1 DEF ResultsInv, Processed, bridgeVars, db
<1>8. ASSUME exit' = "ok" PROVE stored = Locales /\ mapped = packages
  <2>1. returnVal = "ok" /\ ~BootstrapFailed
    BY <1>1, <1>8 DEF BootstrapInv
  <2>2. requests = {} /\ \A c \in Locales \cup plan : future[c] = "value"
    BY <1>1, <2>1, StoppedIsDone DEF Stopping
  <2>3. stored = Locales /\ \A p \in plan \cap Packages : p \in mapped
    BY <2>1, <2>2 DEF ResultsInv, Processed, ToolTypes
  <2>4. packages \subseteq Packages /\ OnNothing \notin Packages
    BY <1>1, ToolAssumption DEF PlanInv, ToolTypes, Tasks, Lockers
  <2>5. plan \cap Packages = packages
    BY <1>1, <2>1, <2>4 DEF PlanInv
  <2> QED BY <2>3, <2>5 DEF ResultsInv, ToolTypes
<1>9. ExitInv'
  BY <1>1, <1>8 DEF ExitInv, SuccessIsComplete, bridgeVars, promises, db
<1> QED BY <1>3, <1>5, <1>6, <1>7, <1>9

-----------------------------------------------------------------------------
(* The theorems.                                                           *)

\* Nothing has been asked: all locales are left, nothing is planned.
LEMMA InitToolInv == Init => ToolInv
<1> SUFFICES ASSUME Init PROVE ToolInv
  OBVIOUS
<1> USE DEF Init, Bridge!Init, Bridge!Closures
<1>1. \A c \in Tasks \cup Lockers : future[c] = "none"
  OBVIOUS
<1>2. OnError # "none" /\ OnLast # "none" /\ OnError \in Lockers /\ OnNothing \in Lockers /\ OnLast \in Lockers
  BY ToolAssumption DEF Idle, Lockers
<1>3. Locales \cup Packages \subseteq Tasks
  BY DEF Tasks
<1>4. LocalesLeft = Locales
  BY <1>1, <1>3 DEF LocalesLeft, Processed
<1>5. Cardinality(Locales) \in Nat /\ Cardinality(Packages) \in Nat
  BY ToolAssumption, FS_CardinalityType
<1>6. ~BootstrapFailed
  BY <1>1, <1>2 DEF BootstrapFailed
<1>7. ToolTypes
  <2>1. numOfLocales \in 0..Cardinality(Locales) /\ numOfPkgs \in 0..Cardinality(Packages)
    BY <1>5
  <2> QED BY <2>1 DEF ToolTypes, Idle, Codes
<1>8. LocalesCounted /\ PackagesCounted
  BY <1>4, <1>5, <1>6 DEF LocalesCounted, PackagesCounted
<1>9. ClickInv /\ SlotInv /\ BootstrapInv /\ PlanInv
  BY <1>6 DEF ClickInv, SlotInv, BootstrapInv, PlanInv
<1>10. BegunInv /\ QuitHasLocker
  BY <1>1, <1>2, <1>3 DEF BegunInv, QuitHasLocker
<1>11. ResultsInv
  BY <1>1, <1>3 DEF ResultsInv, Processed
<1>12. ExitInv
  BY ToolAssumption DEF ExitInv, SuccessIsComplete, Endings, Codes
<1>13. DeathHasACause
  BY <1>1 DEF DeathHasACause, Alive
<1> QED BY <1>7, <1>8, <1>9, <1>10, <1>11, <1>12, <1>13 DEF ToolInv

\* Every step keeps the invariant of the tool.
LEMMA NextToolInv == IInv /\ [Next]_vars => ToolInv'
<1> SUFFICES ASSUME IInv, [Next]_vars
             PROVE  ToolInv'
  OBVIOUS
<1>1. ASSUME NEW p \in Packages, NEW reply \in Replies, NEW storedWell \in BOOLEAN,
             DetailsArrive(p, Verdict(reply, storedWell))
      PROVE  ToolInv'
  <2>1. Verdict(reply, storedWell) \in {"ok", "network", "db"}
    BY DEF Verdict
  <2> QED BY <1>1, <2>1, DetailsKeep
<1>2. CASE UNCHANGED vars
  BY <1>2 DEF vars, bridgeVars, toolVars, promises, counters, db, IInv, ToolInv, ToolTypes, ClickInv, SlotInv,
              LocalesCounted, PackagesCounted, LocalesLeft, PackagesLeft, Processed, BootstrapFailed,
              BootstrapInv, PlanInv, BegunInv, QuitHasLocker, ResultsInv, ExitInv, SuccessIsComplete,
              DeathHasACause, Alive
<1>3. CASE LoopStep
  BY <1>3, HandleKeeps, WorldKeeps DEF LoopStep
<1> QED
  BY <1>1, <1>2, <1>3, EnterKeeps, HandleKeeps, WorldKeeps, ClickEndsKeeps, ClickCallbackKeeps,
     DepartmentsKeep, FailureKeeps, DetailsThreadKeeps, FinishKeeps
  DEF Next

\* The invariant holds in every reachable state, for any number of locales and
\* packages.
THEOREM ToolInvariance == Spec => []IInv
<1>1. BP!IInv /\ ToolInv /\ [Next]_vars => ToolInv'
  BY NextToolInv DEF IInv
<1>2. BP!IInv /\ ToolInv => IInv
  BY DEF IInv
<1> QED BY <1>1, <1>2, InitToolInv, BridgeInvariance, PTL DEF Spec

\* The variables of the tool keep their types: in particular neither counter goes
\* below zero (num_of_locales and num_of_pkgs, init-departments.cpp).
THEOREM TypeCorrect == Spec => []TypeOK
<1>1. IInv => TypeOK
  BY DEF IInv, ToolInv, ToolTypes, TypeOK, Lockers, BP!IInv, BP!TypeOK, Bridge!TypeOK, BP!Closures,
         Bridge!Closures, BP!Worlds, Bridge!Worlds, BP!Handlers, Bridge!Handlers,
         BP!Futures, Bridge!Futures, BP!Settled, Bridge!Settled
<1> QED BY <1>1, ToolInvariance, PTL

\* details_thread asks for the first package only when the last locale has been
\* processed (bootstrap_ft.get(), init-departments.cpp), for any number of them.
THEOREM DetailsFollowBootstrap == Spec => []DetailsAfterBootstrap
<1>1. IInv => DetailsAfterBootstrap
  BY DEF IInv, ToolInv, BegunInv, PlanInv, DetailsAfterBootstrap
<1> QED BY <1>1, ToolInvariance, PTL

\* "the last processed package will stop Qt bridge" (init-departments.cpp:188): the
\* loop quits on no unanswered request and no queued closure unless a bootstrap
\* request failed, for any number of locales and packages and any order of replies.
THEOREM StopsFollowReplies == Spec => []StopsAfterLastReply
<1>1. IInv => StopsAfterLastReply
  BY StoppedIsDone DEF StopsAfterLastReply
<1> QED BY <1>1, ToolInvariance, PTL

\* No interleaving of the threads, the slots and the loop kills the tool before a
\* bootstrap request has failed or "click" has crashed.
THEOREM DeathsHaveCauses == Spec => []DeathHasACause
<1>1. IInv => DeathHasACause
  BY DEF IInv, ToolInv
<1> QED BY <1>1, ToolInvariance, PTL

\* Exit code 0 means that every locale is stored and every installed package mapped.
THEOREM SuccessesAreComplete == Spec => []SuccessIsComplete
<1>1. IInv => SuccessIsComplete
  BY DEF IInv, ToolInv, ExitInv
<1> QED BY <1>1, ToolInvariance, PTL

=============================================================================
