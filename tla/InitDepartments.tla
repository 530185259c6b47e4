--------------------------- MODULE InitDepartments ---------------------------
(***************************************************************************)
(* The tool that fills the departments database                            *)
(* (tools/init-departments/init-departments.cpp).  The main thread runs    *)
(* the Qt world and asks "click list" for the installed packages;          *)
(* net_thread asks the server for the departments of each locale;          *)
(* details_thread, when both have come, for the details of each package.   *)
(* Threads and slots meet in three promises, two counters and return_val,  *)
(* and whichever reply comes last calls destroy().                         *)
(*                                                                         *)
(* The bridge is QtBridge.  The server is external: a request it has been  *)
(* given is answered, well or badly.                                       *)
(***************************************************************************)
EXTENDS Naturals, Sequences, FiniteSets

CONSTANTS
    Locales,    \* the locales of the command line
    Packages,   \* the packages that may be installed
    Click,      \* the closure that starts "click list"
    OnError, OnNothing, OnLast,     \* the three calls of destroy()
    Quit,
    Unset       \* a promise without a value

Lockers == {OnError, OnNothing, OnLast}
Tasks == {Click} \cup Locales \cup Packages

Idle == {"none", "callback"}    \* what a slot that calls no destroy() has still to do
ClickEndings == {"ok", "error", "failed", "crashed"}
Codes == {"ok", "click", "network", "db"}

\* "uncaught": no exit code, main() was left by an exception.
Endings == Codes \cup {"uncaught"}

ASSUME ToolAssumption ==
    /\ IsFiniteSet(Locales) /\ Locales # {}
    /\ IsFiniteSet(Packages)
    /\ Locales \cap Packages = {}
    /\ Click \notin Locales \cup Packages
    /\ OnError # OnNothing /\ OnError # OnLast /\ OnNothing # OnLast
    /\ Lockers \cap (Tasks \cup Idle) = {}
    /\ Quit \notin Tasks \cup Lockers
    /\ Unset \notin Endings

VARIABLES
    world, handler, posted, handled, entering, future,  \* those of the bridge
    click,          \* the "click list" process
    packages,       \* what pkgs_ready holds; it is set right after qt_ready
    bootstrapReady, \* bootstrap_ready has a value
    plan,           \* the closures details_thread enters, once it knows them
    requests,       \* what the server has been asked and has not answered
    numOfLocales, numOfPkgs,
    returnVal,
    debt,           \* what the slot being run has still to do
    stored, mapped, \* the locales and packages the database has got
    exit            \* how the process ended: its exit code

bridgeVars == <<world, handler, posted, handled, entering, future>>
promises == <<packages, bootstrapReady>>
counters == <<numOfLocales, numOfPkgs>>
db == <<stored, mapped>>
toolVars == <<click, promises, plan, requests, counters, returnVal, debt, db, exit>>
vars == <<bridgeVars, toolVars>>

Bridge == INSTANCE QtBridge

TypeOK ==
    /\ Bridge!TypeOK
    /\ click \in {"none", "running"} \cup ClickEndings
    /\ packages \in {Unset} \cup SUBSET Packages
    /\ bootstrapReady \in BOOLEAN
    /\ plan \subseteq Packages \cup {OnNothing}
    /\ requests \subseteq Locales \cup Packages
    /\ numOfLocales \in 0..Cardinality(Locales)
    /\ numOfPkgs \in 0..Cardinality(Packages)
    /\ returnVal \in Codes
    /\ debt \in Idle \cup Lockers
    /\ stored \subseteq Locales
    /\ mapped \subseteq Packages
    /\ exit \in {Unset} \cup Endings

Init ==
    /\ Bridge!Init
    /\ click = "none"
    /\ packages = Unset
    /\ bootstrapReady = FALSE
    /\ plan = {}
    /\ requests = {}
    /\ numOfLocales = Cardinality(Locales)
    /\ numOfPkgs = 0
    /\ returnVal = "ok"
    /\ debt = "none"
    /\ stored = {}
    /\ mapped = {}
    /\ exit = Unset

\* An exception out of a std::thread ends the process like one out of a slot.
Alive == world # "aborted" /\ \A c \in Tasks \cup Lockers : future[c] # "thrown"

BetweenSlots == debt = "none"

\* The pass of the loop that met Quit may still deliver signals.
Delivers == Alive /\ Bridge!InLoop /\ BetweenSlots

-----------------------------------------------------------------------------
(* The main thread: build_and_run() and the event loop.                    *)

BuildWorld ==
    /\ Bridge!ConstructApplication \/ Bridge!MoveHandler \/ Bridge!CallReady
    /\ UNCHANGED toolVars

\* The callback of build_and_run() enters the closure, then the loop starts.
EnterClick ==
    /\ world = "announced"
    /\ Bridge!CheckInstance(Click) \/ Bridge!PostEvent(Click)
    /\ UNCHANGED toolVars

EnterLoop ==
    /\ future[Click] # "none"
    /\ Bridge!EnterLoop
    /\ UNCHANGED toolVars

StartClick ==
    /\ Alive
    /\ BetweenSlots
    /\ Bridge!HandleTask(Click, "value")
    /\ click' = "running"
    /\ UNCHANGED <<promises, plan, requests, counters, returnVal, debt, db, exit>>

ClickEnds(ending) ==
    /\ Alive
    /\ click = "running"
    /\ click' = ending
    /\ UNCHANGED <<bridgeVars, promises, plan, requests, counters, returnVal, debt, db, exit>>

\* get_installed_packages(): without an exit code 0 the set is empty, and so it
\* is of a program that could not be started, which reports 0 and no output.
InstalledPackages == IF click = "ok" THEN SUBSET Packages ELSE {{}}

\* A crash is reported twice in a row.
ClickCallback(listed) ==
    /\ Delivers
    /\ click \in ClickEndings
    /\ packages = Unset
    /\ listed \in InstalledPackages
    /\ packages' = listed
    /\ returnVal' = IF click \in {"error", "crashed"} THEN "click" ELSE returnVal
    /\ debt' = IF click = "crashed" THEN "callback" ELSE "none"
    /\ UNCHANGED <<bridgeVars, click, bootstrapReady, plan, requests, counters, db, exit>>

\* qt_ready has its value already: set_value throws out of the slot.
ClickCallbackAgain ==
    /\ debt = "callback"
    /\ Bridge!Abort
    /\ UNCHANGED toolVars

StartRequest(c) ==
    /\ Alive
    /\ BetweenSlots
    /\ Bridge!HandleTask(c, "value")
    /\ requests' = requests \cup {c}
    /\ UNCHANGED <<click, promises, plan, counters, returnVal, debt, db, exit>>

\* Mutant: bootstrap_ready is set by the first locale.
AnyLocaleProcessed == TRUE

\* --num_of_locales == 0
LastLocaleProcessed == numOfLocales = 1

\* Mutant: the counter is compared before it is decremented.
LateLastPackage(verdict) == numOfPkgs = 0

\* Mutant: the counter has one package less.
EarlyLastPackage(verdict) == numOfPkgs = 2

\* Mutant: a network error stops the bridge, like one of the bootstrap.
LastPackageOrError(verdict) == numOfPkgs = 1 \/ verdict = "network"

\* --num_of_pkgs == 0, whatever came of this package.
LastPackageProcessed(verdict) == numOfPkgs = 1

\* Mutant: a network error is only logged.
CodeAfterDbError(verdict) == IF verdict = "db" THEN "db" ELSE returnVal

\* return_val keeps the last error.
CodeAfter(verdict) == IF verdict = "ok" THEN returnVal ELSE verdict

\* store_departments() may throw: the locale counts as processed all the same.
\* One that failed does not, so that the promise cannot have been set before.
DepartmentsArrive(l, storedWell) ==
    /\ Delivers
    /\ l \in requests \cap Locales
    /\ requests' = requests \ {l}
    /\ stored' = IF storedWell THEN stored \cup {l} ELSE stored
    /\ returnVal' = CodeAfter(IF storedWell THEN "ok" ELSE "db")
    /\ numOfLocales' = numOfLocales - 1
    /\ bootstrapReady' = (bootstrapReady \/ LastLocaleProcessed)
    /\ UNCHANGED <<bridgeVars, click, packages, plan, numOfPkgs, debt, mapped, exit>>

\* The first error ends the bootstrap; a second one finds the promise set.
BootstrapFails(l) ==
    /\ Delivers
    /\ l \in requests \cap Locales
    /\ IF bootstrapReady
       THEN Bridge!Abort /\ UNCHANGED <<bootstrapReady, debt>>
       ELSE bootstrapReady' = TRUE /\ debt' = OnError /\ UNCHANGED bridgeVars
    /\ requests' = requests \ {l}
    /\ returnVal' = "network"
    /\ UNCHANGED <<click, packages, plan, counters, db, exit>>

\* What may come of a request for details: no reply, or a text.
Replies == {"network", "unreadable", "odd", "without department", "complete", "odd at the end"}

\* PackageDetails::from_json(): a text that cannot be parsed has no department
\* and, since an exception leaves what was read before it, neither has one that
\* is odd before its departments; the last of the list is taken, if there is one.
HasDepartment(reply) == reply \in {"complete", "odd at the end"}

\* The database refuses a mapping to no department.
Verdict(reply, storedWell) ==
    CASE reply = "network" -> "network"
      [] HasDepartment(reply) /\ storedWell -> "ok"
      [] OTHER -> "db"

DetailsArrive(p, verdict) ==
    /\ Delivers
    /\ p \in requests \cap Packages
    /\ requests' = requests \ {p}
    /\ mapped' = IF verdict = "ok" THEN mapped \cup {p} ELSE mapped
    /\ returnVal' = CodeAfter(verdict)
    /\ numOfPkgs' = numOfPkgs - 1
    /\ debt' = IF LastPackageProcessed(verdict) THEN OnLast ELSE "none"
    /\ UNCHANGED <<bridgeVars, click, promises, plan, numOfLocales, stored, exit>>

\* destroy() called by a slot, that is in the Qt thread.
SlotDestroys ==
    /\ Alive
    /\ debt \in Lockers
    /\ \/ Bridge!CheckInstance(debt) /\ UNCHANGED debt
       \/ Bridge!PostEvent(debt) /\ debt' = "none"
    /\ UNCHANGED <<click, promises, plan, requests, counters, returnVal, db, exit>>

LoopStep ==
    /\ Alive
    /\ BetweenSlots
    /\ (\E l \in Lockers : Bridge!HandleLocker(l)) \/ Bridge!HandleQuit \/ Bridge!LeaveLoop
    /\ UNCHANGED toolVars

Teardown == Alive /\ Bridge!DestroyApplication /\ UNCHANGED toolVars

-----------------------------------------------------------------------------
(* net_thread and details_thread.                                          *)

EnterNext(c, closures) ==
    /\ Alive
    /\ c \in closures
    /\ entering \cap closures \subseteq {c}
    /\ Bridge!Enter(c)
    /\ UNCHANGED toolVars

\* Mutant: num_of_pkgs is never set.
NoPackagesToProcess == 0

PackagesToProcess == Cardinality(packages)

\* qt_ready_ft.get(), then one closure per locale.
NetThread(l) == packages # Unset /\ EnterNext(l, Locales)

\* bootstrap_ft.get(), pkgs_ft.get(), then the look at return_val.
DetailsThreadStarts ==
    /\ Alive
    /\ bootstrapReady
    /\ packages # Unset
    /\ plan = {}
    /\ numOfPkgs' = PackagesToProcess
    /\ plan' = IF returnVal # "ok" \/ packages = {} THEN {OnNothing} ELSE packages
    /\ UNCHANGED <<bridgeVars, click, promises, requests, numOfLocales, returnVal, debt, db, exit>>

DetailsThread(c) == EnterNext(c, plan)

\* The threads are joined, the applications without a package are stored.  The
\* counts that are printed then are queries outside every try block.
Finish(storedWell, counted) ==
    /\ Alive
    /\ world = "gone"
    /\ plan # {}
    /\ \A c \in Locales \cup plan : future[c] # "none"
    /\ exit = Unset
    /\ exit' = IF ~storedWell THEN "db" ELSE IF counted THEN returnVal ELSE "uncaught"
    /\ UNCHANGED <<bridgeVars, click, promises, plan, requests, counters, returnVal, debt, db>>

-----------------------------------------------------------------------------
Next ==
    \/ BuildWorld \/ EnterClick \/ EnterLoop
    \/ StartClick
    \/ \E ending \in ClickEndings : ClickEnds(ending)
    \/ \E listed \in SUBSET Packages : ClickCallback(listed)
    \/ ClickCallbackAgain
    \/ \E c \in Locales \cup Packages : StartRequest(c)
    \/ \E l \in Locales : NetThread(l) \/ BootstrapFails(l)
    \/ \E l \in Locales, storedWell \in BOOLEAN : DepartmentsArrive(l, storedWell)
    \/ \E p \in Packages, reply \in Replies, storedWell \in BOOLEAN :
           DetailsArrive(p, Verdict(reply, storedWell))
    \/ SlotDestroys
    \/ LoopStep
    \/ Teardown
    \/ DetailsThreadStarts
    \/ \E c \in Packages \cup {OnNothing} : DetailsThread(c)
    \/ \E storedWell, counted \in BOOLEAN : Finish(storedWell, counted)

Spec == Init /\ [][Next]_vars

\* Some thread that can run does; click ends and the server answers.
FairSpec == Spec /\ WF_vars(Next)

-----------------------------------------------------------------------------
Stopping == world \in {"quitting", "left", "gone"}

BootstrapFailed == OnError = debt \/ future[OnError] # "none"

\* Exit code 0 means a full database: every locale is stored and every package
\* "click list" named is mapped, whatever the order of the replies was.
SuccessIsComplete ==
    exit = "ok" => stored = Locales /\ mapped = packages

\* "the last processed package will stop Qt bridge" (init-departments.cpp:188):
\* without a bootstrap error the loop is told to quit only when no request is
\* unanswered, nor to be made by a closure still queued.
StopsAfterLastReply ==
    (Alive /\ Stopping /\ ~BootstrapFailed) =>
        /\ requests = {}
        /\ \A c \in Locales \cup (plan \ {OnNothing}) : future[c] = "value"

\* The process dies of its own promises and threads only after the server failed
\* a bootstrap request, or "click" crashed.
DeathHasACause == ~Alive => BootstrapFailed \/ click = "crashed"

\* bootstrap_ready is set once all locales have been processed, or at an error:
\* details_thread never starts on a database still being filled.
DetailsAfterBootstrap ==
    \A p \in Packages :
        (future[p] # "none" \/ p \in entering) => numOfLocales = 0

\* The tool ends: nobody waits for a promise no reply will set, whatever fails.
Terminates == <>(exit # Unset \/ ~Alive)

=============================================================================
