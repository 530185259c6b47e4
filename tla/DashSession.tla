----------------------------- MODULE DashSession -----------------------------
(***************************************************************************)
(* The dash browsing the apps scope: it opens departments and searches in  *)
(* them, shows the preview of a result, presses its buttons, and follows   *)
(* the answers down to the uninstall.  The flag "lonely_result", set when  *)
(* the page was made (ResultPusher::push_local_results), decides where     *)
(* PerformUninstallAction::activate sends the dash when the package is     *)
(* gone.  Other programs may install, replace and remove packages          *)
(* meanwhile.                                                              *)
(***************************************************************************)
EXTENDS Previews

CONSTANTS
    Databases,      \* the databases the scope may have opened
    Queries,        \* whether the user types a query string: a subset of BOOLEAN
    Others          \* the packages other programs install and remove

ASSUME SessionAssumption ==
    /\ \A db \in Databases :
        /\ db.pkgmap \subseteq Pkgs \X Depts
        /\ db.depts \subseteq Depts \X (Depts \cup {Root})
        /\ db.named \subseteq Depts
    /\ Queries \subseteq BOOLEAN
    /\ Others \subseteq Pkgs

VARIABLES
    installed,  \* the installed packages
    removable,  \* those "click info" calls "_removable" at present
    db,         \* the database the scope has open
    page,       \* the page the dash shows
    dialog,     \* the preview over it, if there is one
    replaced    \* history: another program has changed the package of the dialog
                \* since the manifest was read

system == <<installed, removable>>
vars == <<system, db, page, dialog, replaced>>

\* No preview.
None == [app |-> "none"]

Dialogs ==
    [app : Apps, lonely : BOOLEAN, kind : {"installed", "confirm", "uninstalled"},
     open : SUBSET (Apps \cup Scopes),
     buttons : SUBSET {"open_click", "uninstall_click", "show_installed", "confirm_uninstall"}]

TypeOK ==
    /\ installed \subseteq Pkgs /\ removable \subseteq Clicks \cap installed
    /\ db \in Databases \cup {NoDb}
    /\ page.dept \in Depts \cup {Root}
    /\ page.hasQuery \in BOOLEAN /\ page.lonely \in BOOLEAN
    /\ page.subs \subseteq Depts /\ page.up \subseteq Depts \cup {Root}
    /\ page.top \subseteq Apps /\ page.local \subseteq Apps
    /\ dialog = None \/ dialog \in Dialogs
    /\ replaced \in BOOLEAN

Init ==
    /\ installed \in SUBSET Pkgs
    /\ removable \in SUBSET (Clicks \cap installed)
    /\ db \in Databases
    /\ page \in Pages(db, installed, Root, FALSE)
    /\ dialog = None
    /\ replaced = FALSE

\* A search that dies leaves the dash with the page it has.
SearchGives(old, new, database, packages, d, hasQuery) ==
    IF SearchDies(database, packages, d) THEN new = old
    ELSE new \in Pages(database, packages, d, hasQuery)

\* The departments the dash may ask for.
Targets == {Root, page.dept} \cup page.subs \cup page.up

Open(d, hasQuery) ==
    /\ dialog = None
    /\ d \in Targets
    /\ SearchGives(page, page', db, installed, d, hasQuery)
    /\ UNCHANGED <<system, db, dialog, replaced>>

\* push_result(): "lonely_result", which a top result never is.
Flagged(a) == page.lonely /\ a \in page.local

\* Mutant: the result is known by its package.
PreviewPackage(a) ==
    /\ dialog = None
    /\ a \in page.top \cup page.local
    /\ dialog' \in {[p EXCEPT !.app = PackageOf[a]] :
                    p \in InstalledPreviews(installed, removable, a, Flagged(a))}
    /\ UNCHANGED <<system, db, page, replaced>>

\* The preview of a result: every result of this scope is "installed".
Preview(a) ==
    /\ dialog = None
    /\ a \in page.top \cup page.local
    /\ dialog' \in InstalledPreviews(installed, removable, a, Flagged(a))
    /\ UNCHANGED <<system, db, page, replaced>>

\* A button whose action the scope answers with another preview; only that of the
\* installed application reads the manifest.
Press(action) ==
    /\ dialog # None
    /\ action \in dialog.buttons \ {"confirm_uninstall"}
    /\ dialog' \in PreviewsAfter(installed, removable, dialog, action)
    /\ replaced' = (replaced /\ dialog'.kind # "installed")
    /\ UNCHANGED <<system, db, page>>

\* The user goes back to the page.
Close ==
    /\ dialog # None
    /\ dialog' = None
    /\ replaced' = FALSE
    /\ UNCHANGED <<system, db, page>>

PackageGoes(p) == installed' = installed \ {p} /\ removable' = removable \ {p}

\* Mutant: activate() answers ShowDash whatever the flag.
UninstallStays ==
    /\ dialog # None /\ "confirm_uninstall" \in dialog.buttons
    /\ PackageOf[dialog.app] \in installed
    /\ PackageGoes(PackageOf[dialog.app])
    /\ SearchGives(page, page', db, installed', page.dept, page.hasQuery)
    /\ dialog' = None
    /\ replaced' = FALSE
    /\ UNCHANGED db

\* Mutant: activate() answers with the root query whatever the flag.
UninstallLeaves ==
    /\ dialog # None /\ "confirm_uninstall" \in dialog.buttons
    /\ PackageOf[dialog.app] \in installed
    /\ PackageGoes(PackageOf[dialog.app])
    /\ SearchGives(page, page', db, installed', Root, FALSE)
    /\ dialog' = None
    /\ replaced' = FALSE
    /\ UNCHANGED db

\* The package is removed, activate() answers and the scope is refreshed.
Uninstall ==
    /\ dialog # None /\ "confirm_uninstall" \in dialog.buttons
    /\ PackageOf[dialog.app] \in installed
    /\ PackageGoes(PackageOf[dialog.app])
    /\ IF dialog.lonely
       THEN SearchGives(page, page', db, installed', Root, FALSE)
       ELSE SearchGives(page, page', db, installed', page.dept, page.hasQuery)
    /\ dialog' = None
    /\ replaced' = FALSE
    /\ UNCHANGED db

\* The command fails: activate() answers ShowDash.
UninstallFails ==
    /\ dialog # None /\ "confirm_uninstall" \in dialog.buttons
    /\ dialog' = None
    /\ replaced' = FALSE
    /\ UNCHANGED <<system, db, page>>

\* A version installed over another one may be removable where that one was not,
\* and the other way round.
InstallOrRemove(p) ==
    /\ \/ PackageGoes(p)
       \/ /\ installed' = installed \cup {p}
          /\ removable' \in {removable \ {p}, removable \cup ({p} \cap Clicks)}
    /\ replaced' = (replaced \/ (dialog # None /\ PackageOf[dialog.app] = p))
    /\ UNCHANGED <<db, page, dialog>>

\* The scope's process is restarted and does not find its database any more.
LoseDatabase ==
    /\ db' = NoDb
    /\ dialog = None
    /\ UNCHANGED <<system, page, dialog, replaced>>

Next ==
    \/ \E d \in Depts \cup {Root}, hasQuery \in Queries : Open(d, hasQuery)
    \/ \E a \in Apps : Preview(a)
    \/ \E action \in {"open_click", "uninstall_click", "show_installed"} : Press(action)
    \/ Close
    \/ Uninstall
    \/ UninstallFails
    \/ \E p \in Others : InstallOrRemove(p)
    \/ LoseDatabase

Spec == Init /\ [][Next]_vars

-----------------------------------------------------------------------------
IsUninstall == dialog # None /\ dialog' = None /\ installed' # installed

\* The confirmation does not read the manifest again: a package that is not
\* removable is uninstalled only when another program replaced that very package
\* while the dialog was open, after the manifest its buttons came from had been
\* read; "Cancel" reads it anew (InstalledPreview::createButtons,
\* Scope::perform_action, PerformUninstallAction::activate).
UninstalledWasRemovable ==
    [][IsUninstall => PackageOf[dialog.app] \in removable \/ replaced]_vars

\* The Open button opens the result it is shown for; only where its uri is not
\* recognised and its package has several applications it may be another one of
\* that package (InstalledPreview::getApplicationUri, manifest_from_json).
OpenOpensResult ==
    dialog # None => \A target \in dialog.open :
        \/ target = dialog.app
        \/ /\ dialog.app \notin PlainUris
           /\ target \in Apps /\ PackageOf[target] = PackageOf[dialog.app]

\* "Return apps scope to root department if current department becomes empty
\* after an uninstall" (debian/changelog:58): whatever was uninstalled, the dash
\* is not left in a department without results.
EmptyDepartmentLeft ==
    [][(IsUninstall /\ db # NoDb /\ page'.dept # Root) => page'.local # {}]_vars

\* No other program has installed or removed anything since the page was made.
UpToDate == page.local = FoundApps(db, installed, page.dept, page.hasQuery)

\* The package being uninstalled has no second result on the page.
SingleResult == \A a \in page.local : Owner[a] = Owner[dialog.app] => a = dialog.app

\* The same where the flag can be right: on a page still up to date and for a
\* package with one result, with or without a search string
\* (ResultPusher::push_local_results, PerformUninstallAction::activate).
SingleUninstallLeavesEmptied ==
    [][(IsUninstall /\ db # NoDb /\ page'.dept # Root /\ UpToDate /\ SingleResult)
        => page'.local # {}]_vars

\* The converse: without a search string, an uninstall takes the dash out of a
\* department only if no installed application is left in it.
LeftOnlyWhenEmpty ==
    [][(IsUninstall /\ db # NoDb /\ page.dept # Root /\ page'.dept = Root /\ UpToDate /\ ~page.hasQuery)
        => FoundApps(db, installed', page.dept, FALSE) = {}]_vars

\* The departments offered with the results found in d.
Offered(d) ==
    {pushed.subs : pushed \in PushedDepartments(db, FoundApps(db, installed, d, FALSE), d)}

\* Departments have names and parents, which is what DepartmentsDb's TreeIsNamed
\* and ParentsAreKnown say of a database nobody failed to write.
SoundDatabase ==
    /\ db # NoDb
    /\ \A e \in db.depts : e[1] \in db.named /\ (e[2] # Root => Parents(db, e[2]) # {})

\* Browsing down loses nothing: an application whose department is somewhere below
\* the one shown is found again in a department offered next, for all the
\* departments push_local_departments() takes from its lookup on the way.
MappedAppsReachable ==
    SoundDatabase =>
        \A d \in {Root} \cup Depts : \A a \in FoundApps(db, installed, d, FALSE) :
            (HasPackage(db, PackageOf[a]) /\ IsDescendant(db, RealDepartment(db, a), d)) =>
                \A subs \in Offered(d) : \E c \in subs : a \in FoundApps(db, installed, c, FALSE)

\* The top and the local results of the root page leave no package out: what is
\* excluded from one as a core app is found by the same identifier in the other.
EveryPackageShown ==
    \A root \in Pages(db, installed, Root, FALSE) :
        {PackageOf[a] : a \in root.top \cup root.local} = {PackageOf[a] : a \in Candidates(installed)}

\* A department is offered because "we have app somewhere in the subtree of the
\* current subdepartment, so it needs to be shown" (apps-query.cpp:281-282): the
\* page it opens has results.
OfferedHasResults ==
    SoundDatabase =>
        \A d \in {Root} \cup Depts : \A subs \in Offered(d) : \A c \in subs :
            FoundApps(db, installed, c, FALSE) # {}

=============================================================================
