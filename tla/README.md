# Formal model of unity-scope-click

The click scope ("apps scope") lists, previews, opens and uninstalls the installed
applications of an Ubuntu phone. It is a plugin of the scopes runtime: the runtime's
threads call it, it answers through reply objects, and it needs a Qt event loop in a
thread of its own to run child processes (`click`, `pkcon`). This directory holds a TLA+
model of the parts whose correctness depends on the order of steps, TLC configurations
that check them, and TLAPS proofs.

Contents: 1 inventory, 2 modules, 3 runs, 4 fairness, 5 proofs, 6 what the checks found,
7 what is not modelled, 8 plan.

## 1. Inventory

| part | source | state | operations | what is hard |
|---|---|---|---|---|
| Qt bridge | `libclickscope/click/qtbridge.cpp` | the `QCoreApplication`, a static `TaskHandler`, posted `TaskEvent`s with their promises | `build_and_run`, `enter_with_task`, `destroy` | any thread against the Qt thread: test-then-post without a lock, a handler that belongs to whichever thread comes first and dies with the application, events left behind by the loop |
| Scope | `scope/clickapps/apps-scope.cpp` | two promises and futures "Qt is ready", `depts_db` | `run`, `stop`, `search`, `preview`, `perform_action` | `share()` works once; activations do not wait |
| Previews | `libclickscope/click/preview.cpp` | strategy, stack frame with a promise | `run` of each strategy | a callback writes into the frame of a blocked thread |
| Uninstall | `scope_activation.cpp`, `PackageManager` in `index.cpp` | child process, promise in the frame of `activate()` | `activate`, `uninstall`, `invalidate_results` | two signals for one crash, reply and refresh race |
| Process runner | `interface.cpp:512-630` | child process | `run_process`, `get_manifest_for_app`, ... | a callback called inside its own `try`; `FailedToStart` reports exit code 0 |
| App search | `interface.cpp:271-408`, `key_file_locator.cpp` | none | `find_installed_apps` | mapped and default departments treated differently |
| Query | `scope/clickapps/apps-query.cpp` | a lookup of departments, core apps | `run`, `push_*` | lookup changed while iterated; a flag that is acted on later |
| Departments database | `departments-db.cpp` | SQLite tables `pkgmap`, `depts`, `deptnames`; one open transaction | `store_*`, `get_*`, `is_*`, `has_package` | multi-statement stores, exceptions and crashes between them; statements shared by threads |
| Departments and lookup | `departments.cpp`, `department-lookup.cpp` | tree, id map | `from_json`, `rebuild` | recursion over data, malformed parts of it |
| Packages, highlights, configuration, utilities | `package.cpp`, `highlights.cpp`, `configuration.cpp`, `utils.cpp`, `smartconnect.cpp`, `launcher.cpp` | little | parsing, lookup, formatting | little: readers and formatters |
| `init-departments` | `tools/init-departments/init-departments.cpp` | three promises, two counters, an exit code, the database | fill the database from the store | three threads and the slots of many replies, the last of which must stop the loop |
| Database bootstrap | `data/click-scope-departments-db.conf.in`, `data/update_schema.sh`, `DepartmentsDb::open` | the user's database file | copy, upgrade, open | many commits, not waited for by the scope, cut off by the end of a session |

How they interact. The runtime calls `Scope::run` in one thread, which becomes the Qt
thread, and `search`/`preview`/`perform_action` in others. The queries those create run
later, again on other threads. A preview of an installed package and a confirmed
uninstall post a closure through the bridge and block on a promise; the closure starts a
child; the slots of the child's signals, run by the Qt thread, set the promise through a
captured reference. A search reads the desktop files and the departments database, which
the `init-departments` tool (another process) writes.

What makes each correct: the bridge answers every closure once (if none comes while it is being
built) and drops only what came after a quit; a blocked call is released, with the outcome of its own child, and nothing
writes into a frame that is gone; other connections read whole department trees only;
every application found can be browsed to; only a removable package is uninstalled, unless another
program replaces it while the user confirms, and the dash is sent out of a department that this has
emptied; malformed input costs its own part
only; the filling tool ends, and with exit code 0 only when the database is full; upgrades
converge wherever they are interrupted. `PROJECT.json` lists the hazards behind these, line by line.

## 2. Modules

* `QtBridge` - `qtbridge.cpp`. `world` is how far `build_and_run` has got
  (`unbuilt, constructed, built, announced, exec, quitting, left, gone`, or `aborted` when an
  exception left a slot). The application is visible to other threads from within its constructor
  on (`ConstructApplication`), and the handler is moved to its thread only then (`MoveHandler`).
  `handler` says where the static `TaskHandler` lives: the thread that calls `task_handler()` first
  creates it. If that is a client, the move is refused, the handler is `stranded` in a thread
  without a loop, and so is every closure: none runs, none is deleted by the teardown, not even
  that of `destroy()`. The event queue is an immutable sequence `posted` with the number
  `handled`, so that a property can speak of the order of events long after they were
  handled. `enter_with_task` is two actions (`CheckInstance`, then `PostEvent` or
  `PostToDead`), because nothing protects the pointer it tested. `destroy()` posts a
  closure from `Lockers`; running it appends the `Quit` event Qt posts when the last
  `QEventLoopLocker` goes away. Queue and Quit event are Qt's, modelled from how the code
  uses them.
* `ScopeCalls` - `apps-scope.cpp`, `preview.cpp:157-287`, `scope_activation.cpp`,
  `index.cpp:48-86`, `interface.cpp:580-630`, composed with the bridge:
  `Bridge == INSTANCE QtBridge WITH Tasks <- Crossing, Lockers <- Stops`, the bridge's
  actions being conjuncts of the scope's. Each call has a `pc`, a `promise` in its frame
  (`dead` once the frame is gone) and a `child`. The statements of the slots a signal
  runs are a sequence `slots` executed one at a time, because the blocked thread may wake
  up and leave its frame between any two of them. A crash of a child queues two callbacks.
  A second `set_value` throws out of the slot and kills the process; one on a dead frame
  is undefined and either does that or passes unnoticed (that it may hit memory in use again is left
  out). Slots run in any pass of the loop, the one that met Quit included.
* `DepartmentsDb` - the writing half of `departments-db.cpp`. `disk` is what is committed,
  `view` what this connection sees, `work` the statements the recursion of
  `store_departments_()` has still to execute, in its order. Each statement may fail; an
  exception leaves the transaction open, as in the code, and the next operation continues
  or commits it. A crash forgets `view`.
* `TaskRunner` - what the bridge promises, without its queue, events or loop: closures are
  entered, accepted in an order, run one at a time in that order, and refused or dropped only
  around a stop. It is not to be used while it opens: one closure that comes then makes it deaf to
  all. The order is a relation, which the mapping `QtBridge!Runner` reads off the queue;
  `ImplementsTaskRunner` is the property.
* `UninstallService` - what an uninstall promises: asked, decided once by its own child,
  answered from that decision, refreshed for. `ScopeCalls!Service` maps each activation's
  `pc`, promise (while its frame lives) and child to it; `ImplementsUninstallService`.
* `DepartmentsQueries` - the SELECTs as operators on a database value; the recursive
  common table expressions are iterated like SQLite does. `DepartmentsTable` fills the table of
  departments row by row, or with those of a tree the store sent, reads the listings of
  "click list", and states what the queries and readers return.
* `StoreReplies` - the readers of texts: `Department::from_json`, `DepartmentLookup::rebuild`,
  the rows `store_departments` writes, `package_names_from_stdout`. A text is a sequence of
  items or lines with what a reader can tell of each (valid, invalid, refused by JsonCpp; name,
  version, end of line). An item knows the position of the one it is embedded in; where the code
  has a pointer to a department the model has the position of its item, and where it recurses
  into sub-departments a recursive function goes from a position to later ones.
* `AppsQuery` - which desktop files are listed (`is_visible_app`, `load_app_from_desktop`, the
  core and ignored apps of the settings), `find_installed_apps`, `sort_apps`,
  `push_local_departments`, `push_top_results`, `push_local_results`, `Query::run` as
  operators: `Pages` is the set of pages a search may produce (several, since the order of an
  `unordered_set`, and of equal elements under `std::sort`, is open).
* `Previews` - `build_strategy`, `createButtons`, `getApplicationUri`, `manifest_from_json`,
  `get_manifest_for_app` and `perform_action`: which preview follows a result or a button, and
  what it offers. What a manifest says of `_removable` is a parameter, as `click info` may answer
  otherwise the next time.
* `DashSession` - a dash that opens the departments a page offers, searches, previews a
  result, presses buttons down to the uninstall and follows the answer, while other programs
  install, replace and remove packages and the scope may be restarted without its database. Which
  packages are `removable` changes with them, while the buttons of the open `dialog` stay; `replaced`
  is a history variable: another program has changed the package of the dialog since its manifest
  was read.
* `InitDepartments` - the tool on the bridge of `QtBridge` (`Bridge == INSTANCE QtBridge`): the
  main thread's "click list", `net_thread` with one request per locale, `details_thread` with
  one per package, the slots of their replies. `debt` is what the slot being run has still to
  do, as `destroy()` is two steps and a crashed child calls its callback twice. Its end has the two
  ways the last statements may fail: the store in a `try`, the counts of the summary outside of it
  (`uncaught`). What a reply of
  the server contains comes down to whether a department can be read of it
  (`PackageDetails::from_json`); the class that made the requests is not at this commit (the
  tool's directory is commented out in the build), so that part is external.
* `DbBootstrap` - the job that copies or upgrades the user's database, one action per command of
  `sqlite3`, against a scope that opens the file and sessions that end. `causes` is a history
  variable: what may have left a file that is no database.
* `QtBridgeProofs`, `ScopeCallsProofs`, `DepartmentsDbProofs`, `DbBootstrapProofs`,
  `InitDepartmentsProofs`, `QueriesProofs`, `DepartmentsTableProofs`, `DashProofs` - the theorems
  (section 5).
* `MCDepartmentsDb`, `MCDashSession` - the values the runs use.

Definitions commented "Mutant" are deliberate faults next to the definition they would
replace, one for each checked property; nothing uses them in the specifications.

## 3. Runs

| run | instance | shows |
|---|---|---|
| `QtBridge` | 2 closures, 2 destroys | `DroppedOnlyBehindQuit`: a closure the teardown drops was posted behind a Quit event. `SettledOnce`. `PostedIsAnswered`, unless a client was first to use the handler. `ImplementsTaskRunner`. Two of each are needed for a closure between two Quit events and for a second destroy behind the first. |
| `ScopeCalls` | 1 preview, 2 uninstalls (one of a lonely result), 1 stop | `FrameOutlivesCallbacks`, `DeathHasACause`, `ReplyTellsOutcome`, `OnlyUnreadyCallsStrand`: only a call that did not wait for Qt leaves the handler in its own thread; `ImplementsUninstallService`. Two uninstalls interleave their callbacks; the preview adds the other kind of closure. |
| `ScopeCallsLive` | 1 search, 1 preview, 1 uninstall, 1 stop, fair | `WaitersReleased`, `SuccessInvalidates`, `StopEndsWorld`, `HolderThrowsOnlyAfterTeardown`. |
| `ScopeCallsReady` | 1 search, 2 previews | violated, see section 6. |
| `DepartmentsDb` | 3 hierarchies over 3 departments, 2 locales, 1 package | `TreeIsWhole`, `TreeIsNamed`, `ParentsAreKnown`, `OnlyStoresPublishTrees`. The hierarchies are a chain of three, a department with two parents and a nameless leaf; the second locale is what makes names and departments go apart. The locales are symmetric: no action or property tells one from the other. |
| `DepartmentsDbPackage` | same, 1 locale | violated, see section 6. |
| `DepartmentsQueries` | all 4096 tables over 3 departments and the root; all trees of at most 3 items, stored in the table, all listings of at most 3 lines | `QueriesFollowParents`: descendants, packages and emptiness agree with the closure of the parent relation, cycles included. `OnlySubtreesAreLost`, `LookupFollowsDatabase`, `CutListingAddsNothing`: the readers against definitions of what a malformed or cut text should lose. Three items are what it takes for a malformed one with a sibling and a child, and for a slug with two parents. |
| `Dash` | 3 departments, 3 packages, 6 desktop files (two of one package with one title, one with an incomplete id, one for another shell), 5 databases, one with a package in two departments | `MappedAppsReachable`, `EveryPackageShown`, `SingleUninstallLeavesEmptied`, `LeftOnlyWhenEmpty`, `UninstalledWasRemovable`, `OpenOpensResult`. |
| `InitDepartments` | 2 locales, 2 packages | `SuccessIsComplete`, `StopsAfterLastReply`, `DeathHasACause`, `DetailsAfterBootstrap`, `Terminates`. Two of each, so that replies come in either order and one fails before or after the other succeeds. |
| `DbBootstrap` | 2 names, any earlier version | `VersionsAreNamed`, `JobConverges`. Two names, so that an upgrade can be cut off between two inserts. |
| `DashTwoApps`, `DashDefault` | same | violated, see section 6. |

`CHECK_DEADLOCK FALSE` is set for the bridge and the calls, where each closure and call is
made once, so that a finished session stops, and so does a scope nobody stops; for
`InitDepartments`, a program that ends (`Terminates` says that it stops nowhere else); and for
`DepartmentsQueries`, where a text is read once and nothing follows.

Bounds: every call happens at most once, and the sets above bound their number. No
counter is cut off: the event queue, the slots and the work stack are bounded by the
finite number of calls and by the finite hierarchies.

`DepartmentsDb` speaks of "no exception has reached a caller" (`failed`) because the code
gives no guarantee after one: `store_departments` leaves its transaction open and a
following `store_package_mapping` commits the half-stored tree.

## 4. Fairness

`QtBridge`: weak fairness of the steps of the Qt thread (`build_and_run` is one thread the
system schedules) and of a thread inside `enter_with_task`, which takes no lock. Nobody
has to call `enter_with_task` or `destroy`. `ScopeCalls` adds weak fairness of the slots,
of a blocked call whose promise is set, and of a child ending (`click` and `pkcon` do end;
a child that hangs blocks its caller for ever, as the code has no timeout). The properties
allow for the process' death, for a stranded handler, and for a loop that ended before it heard from
the child of a waiting call, or before it ran its closure (`LeftBehind`): such a call is not
released.

`InitDepartments`: weak fairness of the next step as a whole. Every behaviour is finite, so this
says no more than that some thread that can run does, that `click list` ends and that the server
answers or fails a request it was given. A reply is delivered only while the loop runs: a request
still open when the bridge is destroyed stays open, and `Terminates` must hold all the same.

The other modules state no liveness: the dash may stop at any page, and the session at any command.

## 5. Proofs

`QtBridgeProofs` proves for any sets of closures and destroys:

* `Invariance`: `Spec => []IInv`. `IInv` strengthens `TypeOK` with what the events say of the
  futures: no closure is posted twice, a pending one is posted and not yet handled, a handled
  one is settled, one still entering has no future; once the loop has met Quit there is a Quit
  in the handled part; when it is left, everything unhandled came after that.
  `DroppedOnlyBehindQuit` alone is not inductive: the teardown breaks whatever is pending, so
  one has to know where pending events are.
* `TypeCorrect`, `DropsAreBehindQuit`, `FuturesSettleOnce` follow.
* `BridgeImplementsRunner`: `Spec => ImplementsTaskRunner`. The mapping reads the order of the
  waiting closures off the queue, so `RInv` adds to `IInv` that what waits is in the unhandled part
  of it (`PendingAreQueued`), that the application a closure was let in by existed or is gone,
  never unbuilt (`EnteringIsLate`), and that a handler exists once it should have been moved and has
  a queue only in the Qt thread (`HandlerPlaced`). A closure's place in the queue is then its rank in the order.

`ScopeCallsProofs` proves, for any number of calls:

* `ImplementsBridge`: `Spec => BP!Spec`, the refinement of the bridge: every step of the scope
  is a step of `QtBridge` or leaves its variables alone. `BridgeInvariance` transports `IInv`.
* `CallsInvariance`, with `CallsInv` = types, what the frames need (`Frames`: where a call stands
  against its entry in the bridge, its event, its child) and `SlotsInv` (whose the queued slot
  statements are). `FrameOutlivesCallbacks` needs both: that a callback may still come is seen in
  three places (event, child, slots), and each of them has to imply that the caller waits.
* `FramesOutliveCallbacks`, `TypeCorrect`, `DeathsHaveCauses` follow, and `HoldersFindQt` with
  the order in which the world is built.
* `UnreadyCallsStrand`: a call strands the handler only while there is none, which `HandlerPlaced`,
  carried over from the bridge (`BridgeRInvariance`), puts before the world was announced, and a
  preview that waited is entering only after that. What is stranded stays so (`StrandedKept`, from
  the bridge's `FinalStays`).
* `UninstallInvariance`, with `ServiceInv`: what a promise holds, what the slots have still to write
  into it and what was answered all follow from one fact, how the call's own child ended
  (`PromiseTellsChild`, `StepsTellChild`, `ReplyIsFinal`); and the refresh is the last statement of
  its slot, after the promise was set (`RefreshIsLast`). `ReplyTellsOutcome` is not inductive: the
  answer is made from a promise that a slot wrote from an exit code read earlier.
* `RepliesTellOutcomes` and `ImplementsService`: `Spec => ImplementsUninstallService`. The
  decision of the service is the moment the promise is set, so the mapping `Outcome` reads it off
  the promise while the frame lives, and off the child when it is gone.

`DepartmentsDbProofs` proves, for any hierarchies (not only trees: a department may have several
parents, or lie below itself), packages and locales:

* `Invariance`, with `IInv` = types, `IdleInv` (between two calls that returned there is no
  transaction), `StoreInv` and the three invariants of the disk. What other connections read says
  nothing about a store under way, so `StoreInv` speaks of the rows inserted and the statements left
  together: a row inserted or still to come is an edge of the hierarchy and all top-level edges are
  there (`PlansTree`); its department will be visited, or has its name and the rows of its
  sub-departments (`PlansNames`, `PlansKids`); it is visited only if it has a row itself
  (`PlansParents`). With no statement left (`NothingLeft`) that is what a commit publishes.
* `TypeCorrect`, `OnlyWholeTrees`, `TreesAreNamed`, `ParentsStayKnown` and `MappingsPublishNoTree`
  follow.

`DbBootstrapProofs` proves `NamesAreComplete` and `JobsConverge` for any set of departments. Neither
is inductive: the job relies on the version it read some commands ago, so `IInv` says at each of its
steps which version the file then has (`StepOK`), which names are written between two inserts
(`InsertOK`), and what a file that is no database has as its cause (`UnusableOK`).

`InitDepartmentsProofs` proves, for any finite sets of locales and packages:

* `ImplementsBridge`: the tool is a user of `QtBridge`; the bridge's invariant holds of it.
* `ToolInvariance`. The two counters are what stops the loop, so the invariant says what they count:
  `numOfLocales` the locales whose request was not made or not answered, and one more for ever once
  a request failed (`LocalesCounted`); `numOfPkgs` the same of the packages planned
  (`PackagesCounted`). Around that: what `details_thread` found when it looked (`PlanInv`), that only
  what was planned is entered (`BegunInv`), that a Quit has a `destroy()` behind it
  (`QuitHasLocker`), and that what was processed is in the database unless the exit code says
  otherwise (`ResultsInv`).
* `TypeCorrect`, `DetailsFollowBootstrap`, `StopsFollowReplies`, `DeathsHaveCauses` and
  `SuccessesAreComplete` follow.

`QueriesProofs` proves what the recursive SELECT computes, for any database with finitely many rows.
`RecursiveIsClosure`: it is the smallest set with the departments it starts from and, with a
department, its children. The iteration is a recursive function; the induction theorems of the
library take an operator and cannot be instantiated, so natural induction is taken from the least
element of a set of numbers (`LeastNatural`, from the well-foundedness of `<`; `Induction`,
`IteratedFunction`). That as many steps as there are rows are enough is a counting argument: a step
that adds nothing is the last to matter, and one that adds a department adds a row to those used.
`DepartmentsTableProofs` concludes `QueriesFollow` from it.

`DepartmentsTableProofs` proves the rest of what `DepartmentsTable` states, for trees and listings of
any length over any finite set of slugs (`MaxItems` and `MaxLines` are any numbers):

* `RecursiveFunction`: a function defined at a position from its values at later ones exists. Whether
  the recursion of `from_json_node()`, `rebuild()` and `store_departments_()` computes what its
  equation says (`Made`, `Rebuilt`, `RowsAre`) comes down to that, with `Downwards` and `Upwards` for
  inductions from the last position and from the first.
* `MadeIsWhole`: what `from_json_node()` makes is the largest set of valid items that contains, with
  an item, the one it is embedded in. It is such a set (`MadeInside`, downwards), and it has all of
  any other (upwards).
* `Collected`: what a visit of a forest collects is what each department adds to it, which gives the
  rows (`RowsAre`), the ids the lookup knows and those it has parents for (`RebuildIs`). Which of
  several parents of a slug stays depends on the order of the visit; that it is one of them does not.
* `TableInvariant`: the rows next to a tree are those of it (`TextInv`), and rows and packages have
  their types (`TableInv`). `MalformedCostsItsSubtree` and `LookupsFollow` follow; the second needs
  that the root is no slug, as a department below the root would else count as one with a parent.
* `CutsAddNothing`: a line that counts in what is left is not its last, so it stood in the whole.

`DashProofs` proves, for any applications, packages, settings, manifests and databases:

* `UninstallsAreRemovable`, `OpensTheResult`, `TypeCorrect`. The uninstall is two previews away from
  the manifest that allowed it, so `IInv` follows the permission through the buttons: as long as they
  lead to an uninstall, the package is still removable or another program has replaced it since
  (`Justified`); and it follows what Open opens (`Opens`).
* `EmptiedIsLeft` and `OnlyEmptiedIsLeft`. The flag is read off the preview when the package is gone;
  `IInv` keeps it equal to the page's (`OfThePage`), and the page's equal to what was counted when
  the page was made (`FoundBelowRoot`).
* `EveryPackageIsShown`: at the first of the core apps of a package the visit has seen fewer packages
  than there are core apps, so it has not stopped; the last of them visited is kept.
* `MappedAppsAreReachable`: an induction on the visit of the children with `Shows` as its
  invariant: a department is left in the set of those to be justified, or a child was shown for it.
  A department above it comes from `RecursiveIsClosure` (`BelowAChild`, `PackagesOfSubtree`).

The theorems assume what the modules' ASSUMEs say: disjoint sets of calls (`BridgeAssumption`,
`CallsAssumption`), finitely many locales, packages, departments and desktop files
(`ToolAssumption`, `TableAssumption`, `QueryAssumption`), the types of the settings, desktop files,
manifests and databases (`QueryAssumption`, `PreviewAssumption`, `SessionAssumption`,
`DbAssumption`), and that the root is no department.

Model-checked only: liveness (`PostedIsAnswered`, `WaitersReleased`, `SuccessInvalidates`,
`StopEndsWorld`, `Terminates`), which the prover cannot treat. Every other property of a run is the
statement of a theorem.
The four properties that are violated are stated in runs of their own.

## 6. What the checks found

Runs that end in a violation state something a document or a comment of the repository says:

* `ScopeCallsReady`: "Wait for the qt main loop to be ready before allowing execution of search or
  preview methods" (`debian/changelog:99-100`) holds for the first query of each kind only:
  `share()` (`apps-scope.cpp:97,104`) empties the member future.
* `DepartmentsDbPackage`: "delete package mapping first from any departments"
  (`departments-db.cpp:329`): the result of the DELETE is ignored.
* `DashTwoApps`: "Return apps scope to root department if current department becomes empty after an
  uninstall" (`debian/changelog:58`): a package with two desktop files is two results.
* `DashDefault`: "we have app somewhere in the subtree of the current subdepartment, so it needs to
  be shown" (`apps-query.cpp:281-282`): the department is shown, but an application that is there by
  its desktop file only is not found in it (`interface.cpp:345`).

What the models had to allow for, without a document that says otherwise:

* A call that crosses the bridge between the constructor of the application and the move of the
  handler (`qtbridge.cpp:109,131-140`) creates the handler in its own thread: no closure ever runs,
  every caller blocks, and the scope cannot be stopped by `destroy()`. An activation, a preview
  without the future or an early `stop()` may do that (`OnlyUnreadyCallsStrand`), since only the
  first query of each kind waits for Qt. `PostedIsAnswered` and `WaitersReleased` are stated
  around it, and `TaskRunner` forbids its users to come that early.
* The confirmation of an uninstall does not read the manifest again (`preview.cpp:389`): a package
  replaced meanwhile by one that is not removable is uninstalled all the same
  (`UninstalledWasRemovable` says when).
* The counts in the summary of the tool are outside any `try` (`init-departments.cpp:268-273`): a
  failing query there ends it by an exception after all the work, whatever the exit code would have been.
* A scope that could not open its database dereferences the null pointer when a page of a department
  made before is searched again (`interface.cpp:339`, `SearchDies`); the model then leaves the dash
  with the page it had. A page made without a database offers no department.
* A result's uri with a digit is not recognised (`preview.cpp:330`), so that its Open button is made
  from the first application of the package: `OpenOpensResult` says how far that may go.
* `perform_action` answers `open_click` like any button, with a preview and no hint for it
  (`apps-scope.cpp:117-131`), whose strategy is the empty `UninstalledPreview`; that the shell opens
  the button's uri by itself is not in this repository.
* In the tool, two failed bootstrap requests set `bootstrap_ready` twice, and an early `destroy()`
  makes `enter_with_task` throw out of `net_thread` or `details_thread`: both end the process.
  A crash of `click list` calls its callback twice, with the same end. A `click` that cannot be
  started reports exit code 0: the tool then succeeds with nothing mapped.
  `DeathHasACause` and `SuccessIsComplete` are stated around these.
* A database file that is no database is never repaired (`JobConverges`): every later job takes it
  for one to upgrade. A scope that opens the file before the copy leaves such a file, since the
  open creates it, and so does a copy that is cut off.
* The rows the upgrade to version 4 writes map `com.ubuntu.filemanager` and `com.ubuntu.terminal` to
  'accesories', which is no row of `depts`; `SoundDatabase` in `DashSession` is a premise.
* An item JsonCpp refuses to read loses all departments (`departments.cpp:117` catches
  `runtime_error` only): `OnlySubtreesAreLost` states both cases.

## 7. Not modelled

* Formatting, JSON templates, translation, icons and desktop-file syntax; collation and accents are
  data the constants stand for.
* `find_installed_apps` falls back to all applications when the department query fails
  (`interface.cpp:284-292`); a query that fails is left out.
* Searches on several threads share the prepared statements of one connection
  (`departments-db.cpp:197`). Qt promises nothing for a `QSqlQuery` used by two threads, so every
  result would be possible and no property would say anything about this code.
* That `destroy()` waits no longer than a second and then returns: nobody reads its result.
* A package replaced by one with other desktop files or hooks (`Hooks` is a constant).
* A child that never ends (section 4); how SQLite recovers its write-ahead log after a power cut;
  a `cp` whose data are not on disk when it ends.
* A department whose slug is empty: the lookup takes it, the database throws.
* The fields of packages other than the department, package lists and highlights, `utils.cpp`,
  `build_index_query` and `build_headers`: readers and builders of texts for a store this scope no
  longer talks to; only tests call them. `SmartConnect` and the launcher have no caller either.
* The language, architecture and device id of `Configuration`.
* `UninstallingPreview` and `InstalledScopePreview`, which no result or action of this scope leads to.

`PROJECT.json` gives the reason for each component.

## 8. Plan

Done, in this order: `QtBridge`, `ScopeCalls`, `DepartmentsDb` with their proofs;
`DepartmentsQueries`, `AppsQuery`, `DashSession`; `TaskRunner` and `UninstallService` with the
refinements; `InitDepartments`; desktop files and settings in `AppsQuery`, `Previews`;
`StoreReplies`; `DbBootstrap` and its proofs; the proof that `QtBridge` implements `TaskRunner`;
the proofs about uninstalls, `InitDepartments`, the queries and the dash; those about the
texts, for which `StoreReplies` was rewritten with recursive functions.

Next: `DashSession` uninstalls in one step what `ScopeCalls` does in many; a module that runs the
pages of the one beside the calls of the other would say what a search sees while an uninstall is
under way.
