------------------------------ MODULE DashProofs ------------------------------
(***************************************************************************)
(* The properties of DashSession, for every set of applications, packages, *)
(* departments, databases and manifests.                                   *)
(***************************************************************************)
EXTENDS DashSession, QueriesProofs, SequenceTheorems

\* Below the root nothing but the applications found is on the page, and it is
\* lonely when there is one of them.
FoundBelowRoot(p) == p.dept # Root => p.top = {} /\ p.lonely = (Cardinality(p.local) = 1)

PageTypes(p) ==
    /\ p.dept \in Depts \cup {Root}
    /\ p.hasQuery \in BOOLEAN /\ p.lonely \in BOOLEAN
    /\ p.subs \subseteq Depts /\ p.up \subseteq Depts \cup {Root}
    /\ p.top \subseteq Apps /\ p.local \subseteq Apps

PageInv(p) == PageTypes(p) /\ FoundBelowRoot(p)

\* A button that leads to an uninstall was made from a removable manifest, and the
\* package is what it was unless another program has replaced it since.
Dangerous(preview) == preview.buttons \cap {"uninstall_click", "confirm_uninstall"} # {}
Justified == Dangerous(dialog) => PackageOf[dialog.app] \in removable \/ replaced

\* What the Open button opens.
Opens(preview) ==
    \A target \in preview.open :
        \/ target = preview.app
        \/ /\ preview.app \notin PlainUris
           /\ target \in Apps /\ PackageOf[target] = PackageOf[preview.app]

PreviewInv(preview) == preview \in Dialogs /\ Opens(preview)

\* The preview is one of a result of the page, and has its flag.
OfThePage == dialog.app \in page.top \cup page.local /\ dialog.lonely = Flagged(dialog.app)

IInv ==
    /\ installed \subseteq Pkgs /\ removable \subseteq Clicks \cap installed
    /\ db \in Databases \cup {NoDb}
    /\ PageInv(page)
    /\ dialog = None \/ (PreviewInv(dialog) /\ OfThePage /\ Justified)
    /\ replaced \in BOOLEAN

-----------------------------------------------------------------------------
(* The pages.                                                              *)

\* Whatever the order in which they were sorted, the core apps shown at the top
\* are some of those found.
LEMMA TopAppsAreFound ==
    ASSUME NEW found, IsFiniteSet(found), NEW sorted \in Sorts(found)
    PROVE  TopApps(sorted) \subseteq found
<1>1. sorted \in [1..Cardinality(found) -> found]
  BY DEF Sorts, SetToSeqs
<1> QED
  BY <1>1 DEF TopApps

LEMMA FoundAreApps ==
    ASSUME NEW database, NEW packages, NEW d, NEW hasQuery
    PROVE  /\ FoundApps(database, packages, d, hasQuery) \subseteq Apps
           /\ IsFiniteSet(FoundApps(database, packages, d, hasQuery))
<1>1. FoundApps(database, packages, d, hasQuery) \subseteq Apps
  BY DEF FoundApps, Candidates, Listed
<1> QED
  BY <1>1, QueryAssumption, FS_Subset

\* What a search gives, field by field.
HasFields(new, database, packages, d, hasQuery) ==
    LET found == FoundApps(database, packages, d, hasQuery)
        showTop == d = Root /\ ~hasQuery
    IN  /\ new.dept = d /\ new.hasQuery = hasQuery
        /\ new.local = LocalApps(found, showTop)
        /\ new.lonely = (Cardinality(found) = 1)
        /\ IF showTop THEN \E sorted \in Sorts({a \in found : IsCore(a)}) : new.top = TopApps(sorted)
           ELSE new.top = {}

LEMMA PageFields ==
    ASSUME NEW database, NEW packages, NEW d, NEW hasQuery, NEW new \in Pages(database, packages, d, hasQuery)
    PROVE  HasFields(new, database, packages, d, hasQuery)
<1> DEFINE found == FoundApps(database, packages, d, hasQuery)
           showTop == d = Root /\ ~hasQuery
           tops == IF showTop THEN {TopApps(sorted) : sorted \in Sorts({a \in found : IsCore(a)})} ELSE {{}}
<1>1. PICK pushed \in PushedDepartments(database, found, d), top \in tops :
          new = [dept |-> d, hasQuery |-> hasQuery, subs |-> pushed.subs, up |-> pushed.up,
                 top |-> top, local |-> LocalApps(found, showTop), lonely |-> Cardinality(found) = 1]
  BY DEF Pages
<1> HIDE DEF found
<1>2. new.lonely = (Cardinality(found) = 1) /\ new.local = LocalApps(found, showTop)
  BY <1>1, Zenon
<1>3. new.dept = d /\ new.hasQuery = hasQuery
  BY <1>1, Zenon
<1>4. new.top \in tops
  BY <1>1, Zenon
<1>5. IF showTop THEN \E sorted \in Sorts({a \in found : IsCore(a)}) : new.top = TopApps(sorted)
      ELSE new.top = {}
  BY <1>4
<1> QED
  BY <1>2, <1>3, <1>5, Zenon DEF found, HasFields

LEMMA PagesBelowRoot ==
    ASSUME NEW database, NEW packages, NEW d, NEW hasQuery, NEW new \in Pages(database, packages, d, hasQuery),
           d # Root
    PROVE  /\ new.dept = d /\ new.top = {}
           /\ new.local = FoundApps(database, packages, d, hasQuery)
           /\ new.lonely = (Cardinality(new.local) = 1)
<1>1. HasFields(new, database, packages, d, hasQuery)
  BY PageFields
<1>2. new.local = FoundApps(database, packages, d, hasQuery)
  BY <1>1 DEF HasFields, LocalApps
<1> QED
  BY <1>1, <1>2, Zenon DEF HasFields

\* The departments offered and the one above are departments of the database.
LEMMA PushedAreDepartments ==
    ASSUME NEW database \in Databases \cup {NoDb}, NEW d, NEW found,
           NEW pushed \in PushedDepartments(database, found, d)
    PROVE  pushed.subs \subseteq Depts /\ pushed.up \subseteq Depts \cup {Root}
<1>1. CASE DepartmentsFail(database, d)
  BY <1>1 DEF PushedDepartments
<1>2. CASE ~DepartmentsFail(database, d)
  <2>1. database.named \subseteq Depts /\ database.depts \subseteq Depts \X (Depts \cup {Root})
    BY <1>2, SessionAssumption DEF DepartmentsFail
  <2>2. Parents(database, d) \subseteq Depts \cup {Root}
    BY <2>1 DEF Parents
  <2>3. pushed.subs \subseteq database.named /\ pushed.up \subseteq Parents(database, d)
    BY <1>2 DEF PushedDepartments
  <2> QED
    BY <2>1, <2>2, <2>3
<1> QED
  BY <1>1, <1>2

LEMMA PagesAreTyped ==
    ASSUME NEW database \in Databases \cup {NoDb}, NEW packages, NEW d \in Depts \cup {Root},
           NEW hasQuery \in BOOLEAN, NEW new \in Pages(database, packages, d, hasQuery)
    PROVE  PageTypes(new)
<1> DEFINE found == FoundApps(database, packages, d, hasQuery)
<1>1. found \subseteq Apps /\ IsFiniteSet(found)
  BY FoundAreApps
<1>2. PICK pushed \in PushedDepartments(database, found, d) :
          new.subs = pushed.subs /\ new.up = pushed.up
  BY DEF Pages
<1>3. new.subs \subseteq Depts /\ new.up \subseteq Depts \cup {Root}
  BY <1>2, PushedAreDepartments
<1>4. new.top \subseteq Apps
  <2> DEFINE core == {a \in found : IsCore(a)}
  <2>1. new.top = {} \/ \E sorted \in Sorts(core) : new.top = TopApps(sorted)
    BY DEF Pages
  <2>2. IsFiniteSet(core)
    BY <1>1, FS_Subset
  <2> QED
    BY <1>1, <2>1, <2>2, TopAppsAreFound
<1>5. HasFields(new, database, packages, d, hasQuery)
  BY PageFields
<1>6. new.lonely \in BOOLEAN
  BY <1>5, Zenon DEF HasFields
<1>7. new.local \subseteq Apps
  BY <1>1, <1>5 DEF LocalApps, HasFields
<1>8. new.dept = d /\ new.hasQuery = hasQuery
  BY <1>5, Zenon DEF HasFields
<1> QED
  BY <1>3, <1>4, <1>6, <1>7, <1>8 DEF PageTypes

\* Whatever search the dash makes, the page it is left with is such a page.
LEMMA SearchKeepsPageInv ==
    ASSUME NEW database \in Databases \cup {NoDb}, NEW packages, NEW d \in Depts \cup {Root},
           NEW hasQuery \in BOOLEAN, NEW old, PageInv(old), NEW new,
           SearchGives(old, new, database, packages, d, hasQuery)
    PROVE  PageInv(new)
<1>1. CASE new = old
  BY <1>1
<1>2. CASE new \in Pages(database, packages, d, hasQuery)
  <2>1. PageTypes(new)
    BY <1>2, PagesAreTyped
  <2>2. FoundBelowRoot(new)
    <3>1. new.dept = d
      BY <1>2, PageFields DEF HasFields
    <3> QED
      BY <1>2, <3>1, PagesBelowRoot DEF FoundBelowRoot
  <2> QED
    BY <2>1, <2>2 DEF PageInv
<1> QED
  BY <1>1, <1>2 DEF SearchGives

-----------------------------------------------------------------------------
(* The previews.                                                           *)

\* There is a first hook of a kind if there is one at all.
LEMMA FirstHookIsFound ==
    ASSUME NEW hooks \in Seq(Apps \cup Scopes), NEW kind
    PROVE  /\ FirstHook(hooks, kind) \subseteq kind \cap ToSet(hooks)
           /\ ToSet(hooks) \cap kind # {} => FirstHook(hooks, kind) # {}
<1>1. FirstHook(hooks, kind) \subseteq kind \cap ToSet(hooks)
  BY DEF FirstHook, ToSet
<1>2. ASSUME ToSet(hooks) \cap kind # {} PROVE FirstHook(hooks, kind) # {}
  <2> DEFINE places == {j \in DOMAIN hooks : hooks[j] \in kind}
  <2>1. DOMAIN hooks = 1..Len(hooks) /\ Len(hooks) \in Nat
    BY LenProperties
  <2>2. places # {} /\ places \subseteq Nat
    BY <1>2, <2>1 DEF ToSet
  <2>3. PICK i \in places : \A j \in places : i <= j
    BY <2>2, LeastNatural
  <2>4. \A k \in 1..(i - 1) : hooks[k] \notin kind
    BY <2>1, <2>3
  <2> QED
    BY <2>3, <2>4 DEF FirstHook
<1> QED
  BY <1>1, <1>2

\* What createButtons() makes of what get_manifest_for_app() got.
LEMMA InstalledIsGood ==
    ASSUME NEW packages, NEW listed, NEW a \in Apps, NEW lonely \in BOOLEAN,
           NEW preview \in InstalledPreviews(packages, listed, a, lonely)
    PROVE  /\ PreviewInv(preview) /\ preview.app = a /\ preview.lonely = lonely
           /\ Dangerous(preview) => PackageOf[a] \in listed
<1>1. PICK m \in Manifests(packages, listed, PackageOf[a]) :
          preview = [app |-> a, lonely |-> lonely, kind |-> "installed",
                     open |-> ApplicationUri(m, a), buttons |-> Buttons(m, a)]
  BY DEF InstalledPreviews
<1>2. /\ m.removable => PackageOf[a] \in listed
      /\ m.app \subseteq Apps /\ m.scope \subseteq Scopes
      /\ m.app = {} => m.scope = {}
      /\ \A target \in m.app : PackageOf[target] = PackageOf[a]
  <2>1. CASE m = NoManifest
    BY <2>1 DEF NoManifest
  <2>2. CASE PackageOf[a] \in Clicks /\ m = Manifest(PackageOf[a], listed)
    <3> DEFINE hooks == Hooks[PackageOf[a]]
    <3>1. hooks \in Seq(Apps \cup Scopes)
      BY <2>2, PreviewAssumption
    <3>2. \A target \in Apps : PackageOf[target] = PackageOf[a] <=> target \in ToSet(hooks)
      BY <2>2, PreviewAssumption
    <3>3. m.app = FirstHook(hooks, Apps) /\ m.scope = FirstHook(hooks, Scopes)
      BY <2>2 DEF Manifest
    <3>4. m.removable => PackageOf[a] \in listed
      BY <2>2, Zenon DEF Manifest
    <3>5. a \in ToSet(hooks) \cap Apps
      BY <3>2
    <3>6. m.app # {} /\ m.app \subseteq Apps \cap ToSet(hooks) /\ m.scope \subseteq Scopes
      BY <3>1, <3>3, <3>5, FirstHookIsFound
    <3> QED
      BY <3>2, <3>4, <3>6
  <2> QED
    BY <2>1, <2>2 DEF Manifests
<1>3. ApplicationUri(m, a) \subseteq Apps \cup Scopes
  BY <1>2 DEF ApplicationUri
<1>4. Buttons(m, a) \subseteq {"open_click", "uninstall_click"} /\ ("uninstall_click" \in Buttons(m, a) => m.removable)
  BY DEF Buttons
<1>5. preview.app = a /\ preview.lonely = lonely /\ preview.open = ApplicationUri(m, a) /\ preview.buttons = Buttons(m, a)
  BY <1>1, Zenon
<1>6. preview \in Dialogs
  BY <1>1, <1>3, <1>4 DEF Dialogs
<1>7. Dangerous(preview) => PackageOf[a] \in listed
  BY <1>2, <1>4, <1>5 DEF Dangerous
<1>8. Opens(preview)
  BY <1>2, <1>5 DEF Opens, ApplicationUri
<1> QED
  BY <1>5, <1>6, <1>7, <1>8 DEF PreviewInv

\* The confirmation follows the button of the preview before only; what has the
\* uninstall button for another reason was made from a manifest read now.
LEMMA PressIsGood ==
    ASSUME NEW packages, NEW listed, NEW preview, PreviewInv(preview),
           NEW action \in preview.buttons,
           NEW next \in PreviewsAfter(packages, listed, preview, action)
    PROVE  /\ PreviewInv(next) /\ next.app = preview.app /\ next.lonely = preview.lonely
           /\ IF next.kind = "installed" THEN Dangerous(next) => PackageOf[preview.app] \in listed
              ELSE Dangerous(next) => Dangerous(preview)
<1> DEFINE kind == Strategy(PerformAction(action))
<1>1. preview.app \in Apps /\ preview.lonely \in BOOLEAN
  BY DEF PreviewInv, Dialogs
<1>2. CASE kind = "installed"
  <2>1. next \in InstalledPreviews(packages, listed, preview.app, preview.lonely)
    BY <1>2 DEF PreviewsAfter
  <2>2. next.kind = "installed"
    <3>1. PICK m : next = [app |-> preview.app, lonely |-> preview.lonely, kind |-> "installed",
                           open |-> ApplicationUri(m, preview.app), buttons |-> Buttons(m, preview.app)]
      BY <2>1 DEF InstalledPreviews
    <3> QED
      BY <3>1, Zenon
  <2> QED
    BY <1>1, <2>1, <2>2, InstalledIsGood
<1>3. CASE kind = "confirm"
  <2>1. action = "uninstall_click"
    BY <1>3 DEF Strategy, PerformAction
  <2>2. Dangerous(preview)
    BY <2>1 DEF Dangerous
  <2>3. next = ConfirmationPreview(preview.app, preview.lonely)
    BY <1>3 DEF PreviewsAfter
  <2>4. next.app = preview.app /\ next.lonely = preview.lonely /\ next.open = {} /\ next.kind = "confirm"
    BY <2>3, Zenon DEF ConfirmationPreview
  <2>5. next \in Dialogs
    BY <1>1, <2>3 DEF ConfirmationPreview, Dialogs
  <2> QED
    BY <2>2, <2>4, <2>5 DEF PreviewInv, Opens
<1>4. CASE kind \notin {"installed", "confirm"}
  <2>1. next = UninstalledPreview(preview.app, preview.lonely)
    BY <1>4 DEF PreviewsAfter
  <2>2. next.app = preview.app /\ next.lonely = preview.lonely /\ next.open = {} /\ next.buttons = {}
        /\ next.kind = "uninstalled"
    BY <2>1, Zenon DEF UninstalledPreview
  <2>3. next \in Dialogs
    BY <1>1, <2>1 DEF UninstalledPreview, Dialogs
  <2> QED
    BY <2>2, <2>3 DEF PreviewInv, Dangerous, Opens
<1> QED
  BY <1>2, <1>3, <1>4

-----------------------------------------------------------------------------
(* The invariant.                                                          *)

LEMMA InitIInv == Init => IInv
<1> SUFFICES ASSUME Init PROVE IInv
  OBVIOUS
<1>1. PICK p \in Pages(db, installed, Root, FALSE) : page = p
  BY DEF Init
<1>2. PageTypes(page)
  BY <1>1, PagesAreTyped DEF Init
<1>3. page.dept = Root
  <2>1. HasFields(page, db, installed, Root, FALSE)
    BY <1>1, PageFields
  <2> QED
    BY <2>1 DEF HasFields
<1> QED
  BY <1>2, <1>3 DEF IInv, Init, PageInv, FoundBelowRoot

LEMMA NextIInv == IInv /\ [Next]_vars => IInv'
<1> SUFFICES ASSUME IInv, [Next]_vars PROVE IInv'
  OBVIOUS
<1>1. page.dept \in Depts \cup {Root} /\ page.hasQuery \in BOOLEAN /\ page.lonely \in BOOLEAN
  BY DEF IInv, PageInv, PageTypes
<1>2. dialog # None => PreviewInv(dialog) /\ OfThePage /\ Justified
  BY DEF IInv
<1>3. ASSUME NEW d \in Depts \cup {Root}, NEW hasQuery \in Queries, Open(d, hasQuery) PROVE IInv'
  <2>1. hasQuery \in BOOLEAN
    BY SessionAssumption
  <2>2. PageInv(page')
    BY <1>3, <2>1, SearchKeepsPageInv DEF Open, IInv
  <2> QED
    BY <1>3, <2>2 DEF Open, IInv, system
<1>4. ASSUME NEW a \in Apps, Preview(a) PROVE IInv'
  <2>1. Flagged(a) \in BOOLEAN
    BY <1>1 DEF Flagged
  <2>2. /\ PreviewInv(dialog') /\ dialog'.app = a /\ dialog'.lonely = Flagged(a)
        /\ Dangerous(dialog') => PackageOf[a] \in removable
    BY <1>4, <2>1, InstalledIsGood DEF Preview
  <2>3. OfThePage'
    BY <1>4, <2>2, Zenon DEF Preview, OfThePage, Flagged
  <2>4. Justified'
    BY <1>4, <2>2 DEF Preview, Justified, Dangerous, system
  <2> QED
    BY <1>4, <2>2, <2>3, <2>4 DEF Preview, IInv, system
<1>5. ASSUME NEW action, Press(action) PROVE IInv'
  <2>1. /\ PreviewInv(dialog') /\ dialog'.app = dialog.app /\ dialog'.lonely = dialog.lonely
        /\ IF dialog'.kind = "installed" THEN Dangerous(dialog') => PackageOf[dialog.app] \in removable
           ELSE Dangerous(dialog') => Dangerous(dialog)
    BY <1>2, <1>5, PressIsGood DEF Press
  <2>2. OfThePage'
    BY <1>2, <1>5, <2>1, Zenon DEF Press, OfThePage, Flagged
  <2>3. removable' = removable /\ replaced' \in BOOLEAN /\ (replaced /\ dialog'.kind # "installed" => replaced')
    BY <1>5 DEF Press, system
  <2>4. Justified'
    BY <1>2, <1>5, <2>1, <2>3 DEF Press, Justified, Dangerous
  <2> QED
    BY <1>5, <2>1, <2>2, <2>3, <2>4 DEF Press, IInv, system
<1>6. CASE Close
  BY <1>6 DEF Close, IInv, system
<1>7. CASE Uninstall
  <2>1. PageInv(page')
    BY <1>1, <1>7, SearchKeepsPageInv DEF Uninstall, IInv
  <2> QED
    BY <1>7, <2>1 DEF Uninstall, PackageGoes, IInv
<1>8. CASE UninstallFails
  BY <1>8 DEF UninstallFails, IInv, system
<1>9. ASSUME NEW p \in Others, InstallOrRemove(p) PROVE IInv'
  <2>1. UNCHANGED <<db, page, dialog>> /\ replaced' = (replaced \/ (dialog # None /\ PackageOf[dialog.app] = p))
    BY <1>9 DEF InstallOrRemove
  <2>2. installed' \subseteq Pkgs /\ removable' \subseteq Clicks \cap installed' /\ removable \subseteq removable' \cup {p}
    BY <1>9, SessionAssumption DEF InstallOrRemove, PackageGoes, IInv
  <2>3. dialog # None => Justified'
    BY <1>2, <2>1, <2>2 DEF Justified, Dangerous
  <2> QED
    BY <2>1, <2>2, <2>3 DEF IInv, OfThePage, Flagged
<1>10. CASE LoseDatabase
  BY <1>10 DEF LoseDatabase, IInv, system
<1>11. CASE UNCHANGED vars
  BY <1>11 DEF vars, system, IInv, OfThePage, Flagged, Justified, Dangerous
<1> QED
  BY <1>3, <1>4, <1>5, <1>6, <1>7, <1>8, <1>9, <1>10, <1>11 DEF Next

\* What is uninstalled is removable at that moment, or was until another program
\* replaced it under the open dialog, for all manifests and whatever other programs
\* do between the previews: what is stale is never older than the last manifest
\* that was read (Scope::perform_action, PerformUninstallAction::activate).
THEOREM UninstallsAreRemovable == Spec => UninstalledWasRemovable
<1>1. IInv /\ [Next]_vars => [IsUninstall => PackageOf[dialog.app] \in removable \/ replaced]_vars
  <2> SUFFICES ASSUME IInv, Next, IsUninstall PROVE PackageOf[dialog.app] \in removable \/ replaced
    BY DEF IInv
  <2>1. "confirm_uninstall" \in dialog.buttons
    BY DEF Next, IsUninstall, Open, Preview, Press, Close, Uninstall, UninstallFails, InstallOrRemove,
           LoseDatabase, system
  <2> QED
    BY <2>1 DEF IsUninstall, IInv, Justified, Dangerous
<1> QED
  BY <1>1, InitIInv, NextIInv, PTL DEF Spec, UninstalledWasRemovable

\* The types of a page and a preview, whatever is installed and searched for.
THEOREM TypeCorrect == Spec => []TypeOK
<1>1. IInv => TypeOK
  BY DEF IInv, TypeOK, PageInv, PageTypes, PreviewInv
<1> QED
  BY <1>1, InitIInv, NextIInv, PTL DEF Spec

\* The Open button opens its own result or, for a uri that is not recognised, an
\* application of its package, for all manifests (getApplicationUri).
THEOREM OpensTheResult == Spec => []OpenOpensResult
<1>1. IInv => OpenOpensResult
  BY DEF IInv, OpenOpensResult, PreviewInv, Opens
<1> QED
  BY <1>1, InitIInv, NextIInv, PTL DEF Spec

-----------------------------------------------------------------------------
(* Where an uninstall takes the dash.                                      *)

\* What is left of a search when a package is removed.
Without(found, p) == {a \in found : Owner[a] # p}

LEMMA FoundAfterRemoval ==
    ASSUME NEW packages, NEW p, NEW database, NEW d, NEW hasQuery, NEW left, left = packages \ {p}
    PROVE  FoundApps(database, left, d, hasQuery) = Without(FoundApps(database, packages, d, hasQuery), p)
  BY DEF FoundApps, Candidates, Without

\* The preview's package is installed under its own name, which is that of no
\* application whose id has not three parts.
LEMMA UninstallStep ==
    ASSUME IInv, Next, IsUninstall
    PROVE  /\ Uninstall /\ OfThePage
           /\ page.dept # Root => dialog.app \in page.local /\ dialog.lonely = page.lonely
           /\ PackageOf[dialog.app] = Owner[dialog.app]
<1>1. Uninstall
  BY DEF Next, IsUninstall, Open, Preview, Press, Close, UninstallFails, InstallOrRemove, LoseDatabase, system
<1>2. PreviewInv(dialog) /\ OfThePage
  BY DEF IInv, IsUninstall
<1>3. dialog.app \in Apps /\ PackageOf[dialog.app] # Unknown
  BY <1>1, <1>2, QueryAssumption DEF IInv, PreviewInv, Dialogs, Uninstall
<1>4. PackageOf[dialog.app] = Owner[dialog.app]
  BY <1>3 DEF PackageOf
<1>5. page.dept # Root => dialog.app \in page.local /\ dialog.lonely = page.lonely
  <2> SUFFICES ASSUME page.dept # Root PROVE dialog.app \in page.local /\ dialog.lonely = page.lonely
    OBVIOUS
  <2>1. dialog.app \in page.local
    BY <1>2 DEF IInv, PageInv, FoundBelowRoot, OfThePage
  <2>2. page.lonely \in BOOLEAN
    BY DEF IInv, PageInv, PageTypes
  <2>3. dialog.lonely = (page.lonely /\ dialog.app \in page.local)
    BY <1>2, Zenon DEF OfThePage, Flagged
  <2> QED
    BY <2>1, <2>2, <2>3
<1> QED
  BY <1>1, <1>2, <1>4, <1>5

\* An uninstall that empties a department takes the dash out of it, on a page that
\* is up to date and for a package with one result, for every database and every
\* set of applications (ResultPusher::push_local_results,
\* PerformUninstallAction::activate).
THEOREM EmptiedIsLeft == Spec => SingleUninstallLeavesEmptied
<1>1. IInv /\ [Next]_vars => [(IsUninstall /\ db # NoDb /\ page'.dept # Root /\ UpToDate /\ SingleResult)
                                  => page'.local # {}]_vars
  <2> SUFFICES ASSUME IInv, Next, IsUninstall, db # NoDb, page'.dept # Root, UpToDate, SingleResult
               PROVE  page'.local # {}
    OBVIOUS
  <2> DEFINE app == dialog.app
  <2>1. Uninstall /\ PackageOf[app] = Owner[app]
    BY UninstallStep
  <2>2. ~dialog.lonely /\ page' \in Pages(db, installed', page.dept, page.hasQuery)
    <3>1. \A packages, d : ~SearchDies(db, packages, d)
      BY DEF SearchDies
    <3>2. ASSUME dialog.lonely PROVE FALSE
      <4>1. page' \in Pages(db, installed', Root, FALSE)
        BY <2>1, <3>1, <3>2 DEF Uninstall, PackageGoes, SearchGives
      <4>2. HasFields(page', db, installed', Root, FALSE)
        BY <4>1, PageFields
      <4> QED
        BY <4>2 DEF HasFields
    <3> QED
      BY <2>1, <3>1, <3>2 DEF Uninstall, PackageGoes, SearchGives
  <2>3. page.dept # Root
    <3>1. HasFields(page', db, installed', page.dept, page.hasQuery)
      BY <2>2, PageFields
    <3> QED
      BY <3>1 DEF HasFields
  <2>4. app \in page.local /\ ~page.lonely
    BY <2>2, <2>3, UninstallStep
  <2>5. Cardinality(page.local) # 1
    BY <2>3, <2>4 DEF IInv, PageInv, FoundBelowRoot
  <2>6. PICK other \in page.local : other # app
    <3>1. page.local # {app}
      BY <2>5, FS_Singleton
    <3> QED
      BY <2>4, <3>1
  <2>7. Owner[other] # Owner[app]
    BY <2>6 DEF SingleResult
  <2>8. installed' = installed \ {Owner[app]}
    BY <2>1 DEF Uninstall, PackageGoes
  <2>9. other \in FoundApps(db, installed', page.dept, page.hasQuery)
    <3>1. FoundApps(db, installed', page.dept, page.hasQuery)
              = Without(FoundApps(db, installed, page.dept, page.hasQuery), Owner[app])
      BY <2>8, FoundAfterRemoval
    <3> QED
      BY <2>6, <2>7, <3>1 DEF UpToDate, Without
  <2> QED
    BY <2>2, <2>3, <2>9, PagesBelowRoot
<1> QED
  BY <1>1, InitIInv, NextIInv, PTL DEF Spec, SingleUninstallLeavesEmptied

\* The converse: on an up-to-date page made without a search string, an uninstall
\* takes the dash out of a department only if nothing is left in it.
THEOREM OnlyEmptiedIsLeft == Spec => LeftOnlyWhenEmpty
<1>1. IInv /\ [Next]_vars =>
        [(IsUninstall /\ db # NoDb /\ page.dept # Root /\ page'.dept = Root /\ UpToDate /\ ~page.hasQuery)
            => FoundApps(db, installed', page.dept, FALSE) = {}]_vars
  <2> SUFFICES ASSUME IInv, Next, IsUninstall, db # NoDb, page.dept # Root, page'.dept = Root, UpToDate, ~page.hasQuery
               PROVE  FoundApps(db, installed', page.dept, FALSE) = {}
    OBVIOUS
  <2> DEFINE app == dialog.app
  <2>1. Uninstall /\ app \in page.local /\ dialog.lonely = page.lonely /\ PackageOf[app] = Owner[app]
    BY UninstallStep
  <2>2. page.lonely
    <3> SUFFICES ASSUME ~dialog.lonely PROVE FALSE
      BY <2>1
    <3>1. ~SearchDies(db, installed', page.dept)
      BY DEF SearchDies
    <3>2. page' \in Pages(db, installed', page.dept, page.hasQuery)
      BY <2>1, <3>1 DEF Uninstall, PackageGoes, SearchGives
    <3> QED
      BY <3>2, PagesBelowRoot
  <2>3. page.local = {app}
    <3>1. Cardinality(page.local) = 1 /\ page.local \subseteq Apps
      BY <2>2 DEF IInv, PageInv, PageTypes, FoundBelowRoot
    <3>2. IsFiniteSet(page.local)
      BY <3>1, QueryAssumption, FS_Subset
    <3>3. PICK x : page.local = {x}
      BY <3>1, <3>2, FS_Singleton
    <3> QED
      BY <2>1, <3>3
  <2>4. page.hasQuery = FALSE
    BY DEF IInv, PageInv, PageTypes
  <2>5. FoundApps(db, installed, page.dept, page.hasQuery) = {app}
    BY <2>3 DEF UpToDate
  <2>6. installed' = installed \ {Owner[app]}
    BY <2>1 DEF Uninstall, PackageGoes
  <2>7. FoundApps(db, installed', page.dept, page.hasQuery)
            = Without(FoundApps(db, installed, page.dept, page.hasQuery), Owner[app])
    BY <2>6, FoundAfterRemoval
  <2>8. FoundApps(db, installed', page.dept, page.hasQuery) = {}
    BY <2>5, <2>7 DEF Without
  <2> QED
    BY <2>4, <2>8
<1> QED
  BY <1>1, InitIInv, NextIInv, PTL DEF Spec, LeftOnlyWhenEmpty

-----------------------------------------------------------------------------
(* The root page.                                                          *)

LEMMA CoreIsFinite ==
    /\ IsFiniteSet(ToSet(Core)) /\ Len(Core) \in Nat
    /\ Cardinality(ToSet(Core)) \in Nat /\ Cardinality(ToSet(Core)) <= Len(Core)
<1> DEFINE n == Len(CoreApps)
<1>1. n \in Nat /\ DOMAIN CoreApps = 1..n
  BY QueryAssumption DEF CoreApps
<1>2. Core \in [1..n -> ToSet(Core)] /\ Len(Core) = n
  BY <1>1 DEF Core, ToSet
<1>3. Core \in Surjection(1..n, ToSet(Core))
  BY <1>1, <1>2 DEF Surjection, ToSet, Core
<1> HIDE DEF n
<1>4. IsFiniteSet(1..n) /\ Cardinality(1..n) = n
  BY <1>1, FS_Interval
<1> QED
  BY <1>1, <1>2, <1>3, <1>4, FS_Surjection, FS_CardinalityType

\* A sequence of core apps without repetition has, at the first application of a
\* package, seen fewer packages than there are core apps; the visit goes on.
LEMMA TopAppsCover ==
    ASSUME NEW found, IsFiniteSet(found), \A a \in found : IsCore(a),
           NEW sorted \in Sorts(found), NEW a \in found
    PROVE  \E t \in TopApps(sorted) : PackageOf[t] = PackageOf[a]
<1> DEFINE n == Cardinality(found)
           Seen(i) == {PackageOf[sorted[j]] : j \in 1..i}
           visited == {i \in DOMAIN sorted : Cardinality(Seen(i - 1)) # Len(Core)}
           same == {j \in 1..n : PackageOf[sorted[j]] = PackageOf[a]}
<1>1. n \in Nat /\ sorted \in [1..n -> found] /\ DOMAIN sorted = 1..n
  BY FS_CardinalityType DEF Sorts, SetToSeqs
<1>2. sorted \in Injection(1..n, found)
  BY <1>1 DEF Sorts, SetToSeqs, Injection, IsInjective
<1>3. sorted \in Surjection(1..n, found)
  <2>1. IsFiniteSet(1..n) /\ Cardinality(1..n) = n
    BY <1>1, FS_Interval
  <2> QED
    BY <1>2, <2>1, FS_Injection
<1>4. same # {} /\ same \subseteq Nat
  BY <1>3 DEF Surjection
<1>5. PICK first \in same : \A j \in same : first <= j
  BY <1>4, LeastNatural
<1>6. first \in visited
  <2>1. Seen(first - 1) \subseteq ToSet(Core) \ {PackageOf[a]}
    <3> SUFFICES ASSUME NEW j \in 1..(first - 1)
                 PROVE  PackageOf[sorted[j]] \in ToSet(Core) /\ PackageOf[sorted[j]] # PackageOf[a]
      OBVIOUS
    <3>1. j \in 1..n /\ ~(first <= j)
      BY <1>1, <1>5
    <3> QED
      BY <1>1, <1>5, <3>1 DEF IsCore
  <2>2. PackageOf[a] \in ToSet(Core)
    BY DEF IsCore
  <2>3. /\ IsFiniteSet(ToSet(Core) \ {PackageOf[a]})
        /\ Cardinality(ToSet(Core) \ {PackageOf[a]}) = Cardinality(ToSet(Core)) - 1
    BY <2>2, CoreIsFinite, FS_RemoveElement
  <2>4. Cardinality(Seen(first - 1)) <= Cardinality(ToSet(Core)) - 1 /\ IsFiniteSet(Seen(first - 1))
    BY <2>1, <2>3, FS_Subset
  <2>5. Cardinality(Seen(first - 1)) # Len(Core)
    BY <2>4, CoreIsFinite, FS_CardinalityType
  <2> QED
    BY <1>1, <2>5
<1>7. PICK last \in visited \cap same : \A k \in visited \cap same : k <= last
  <2>1. visited \cap same # {} /\ visited \cap same \subseteq same
    BY <1>5, <1>6
  <2>2. same \subseteq Nat /\ \A k \in same : k <= n
    BY <1>1
  <2> HIDE DEF visited, same, n
  <2> QED
    BY <1>1, <2>1, <2>2, GreatestNatural
<1>8. sorted[last] \in TopApps(sorted)
  <2>1. \A k \in visited : PackageOf[sorted[k]] = PackageOf[sorted[last]] => k <= last
    BY <1>1, <1>7
  <2> QED
    BY <1>7, <2>1 DEF TopApps
<1> QED
  BY <1>7, <1>8

\* Neither the sorting nor the end of the visit nor the exclusion of the core apps
\* from the local results loses a package of the root page, for all settings
\* (ResultPusher::push_top_results, push_local_results).
THEOREM EveryPackageIsShown == Spec => []EveryPackageShown
<1>1. EveryPackageShown
  <2> SUFFICES ASSUME NEW root \in Pages(db, installed, Root, FALSE)
               PROVE  {PackageOf[a] : a \in root.top \cup root.local} = {PackageOf[a] : a \in Candidates(installed)}
    BY DEF EveryPackageShown
  <2> DEFINE found == FoundApps(db, installed, Root, FALSE)
             core == {a \in found : IsCore(a)}
  <2>1. found = Candidates(installed) /\ IsFiniteSet(found)
    BY FoundAreApps DEF FoundApps
  <2>2. IsFiniteSet(core)
    BY <2>1, FS_Subset
  <2>3. HasFields(root, db, installed, Root, FALSE)
    BY PageFields
  <2>4. PICK sorted \in Sorts(core) : root.top = TopApps(sorted)
    BY <2>3 DEF HasFields
  <2>5. root.local = {a \in found : ~IsCore(a)}
    BY <2>3 DEF HasFields, LocalApps
  <2>6. root.top \subseteq core
    BY <2>2, <2>4, TopAppsAreFound
  <2>7. ASSUME NEW a \in core PROVE \E t \in root.top : PackageOf[t] = PackageOf[a]
    <3>1. \A b \in core : IsCore(b)
      OBVIOUS
    <3> HIDE DEF core
    <3> QED
      BY <2>2, <2>4, <2>7, <3>1, TopAppsCover
  <2> QED
    BY <2>1, <2>5, <2>6, <2>7
<1> QED
  BY <1>1, PTL

-----------------------------------------------------------------------------
(* The departments offered.                                                *)

VisitStep(database, d, n, states) ==
    IF DeptOrder[n] \in Children(database, d) THEN UNION {ShowChild(database, s, DeptOrder[n]) : s \in states}
    ELSE states

\* The visit of the children, one position of DeptOrder after the other.
IsVisit(f, database, found, d, n) ==
    /\ f[0] = {[left |-> {RealDepartment(database, a) : a \in found}, shown |-> {}]}
    /\ \A k \in 1..n : f[k] = VisitStep(database, d, k, f[k - 1])
    /\ ChildrenToShow(database, found, d) = {s.shown : s \in f[n]}

LEMMA Visits ==
    ASSUME NEW database, NEW found, NEW d, NEW n, n = Len(DeptOrder)
    PROVE  \E f : IsVisit(f, database, found, d, n)
<1> DEFINE Real == {RealDepartment(database, a) : a \in found}
           start == [left |-> Real, shown |-> {}]
           States == [left : SUBSET Real, shown : SUBSET Children(database, d)]
           All == SUBSET States
           step == [x \in Nat \X All |-> VisitStep(database, d, x[1], x[2])]
           visit[m \in 0..Len(DeptOrder)] ==
               IF m = 0 THEN {start}
               ELSE IF DeptOrder[m] \in Children(database, d)
                    THEN UNION {ShowChild(database, s, DeptOrder[m]) : s \in visit[m - 1]}
               ELSE visit[m - 1]
           Is(f) == f = [m \in 0..Len(DeptOrder) |->
               IF m = 0 THEN {start}
               ELSE IF DeptOrder[m] \in Children(database, d)
                    THEN UNION {ShowChild(database, s, DeptOrder[m]) : s \in f[m - 1]}
               ELSE f[m - 1]]
<1>1. n \in Nat
  BY QueryAssumption, LenProperties
<1>2. ASSUME NEW m \in Nat, NEW states \in All PROVE VisitStep(database, d, m, states) \in All
  <2>1. ASSUME NEW s \in states, DeptOrder[m] \in Children(database, d)
        PROVE  ShowChild(database, s, DeptOrder[m]) \subseteq States
    <3>1. s \in States
      OBVIOUS
    <3> HIDE DEF Real
    <3> QED
      BY <2>1, <3>1 DEF ShowChild
  <2> QED
    BY <2>1 DEF VisitStep
<1>3. step \in [Nat \X All -> All]
  <2> HIDE DEF All
  <2> QED
    BY <1>2
<1>4. {start} \in All
  OBVIOUS
<1>5. \A k \in Nat, states \in All : step[<<k, states>>] = VisitStep(database, d, k, states)
  OBVIOUS
<1> HIDE DEF All, step, start
<1>6. PICK f \in [0..n -> All] : Iterates(f, {start}, step, n)
  BY <1>1, <1>3, <1>4, IteratedFunction
<1>7. f[0] = {start} /\ \A k \in 1..n : f[k] = VisitStep(database, d, k, f[k - 1])
  <2>1. \A k \in 1..n : k \in Nat /\ k - 1 \in 0..n
    BY <1>1
  <2> QED
    BY <1>5, <1>6, <2>1 DEF Iterates
<1>8. Is(f)
  <2>1. f = [m \in 0..Len(DeptOrder) |-> f[m]]
    BY <1>6
  <2>2. ASSUME NEW m \in 0..Len(DeptOrder), m # 0
        PROVE  f[m] = IF DeptOrder[m] \in Children(database, d)
                      THEN UNION {ShowChild(database, s, DeptOrder[m]) : s \in f[m - 1]}
                      ELSE f[m - 1]
    <3>1. m \in 1..n
      BY <1>1, <2>2
    <3> QED
      BY <1>7, <3>1 DEF VisitStep
  <2> QED
    BY <1>7, <2>1, <2>2
<1>9. Is(visit)
  BY <1>8
<1> HIDE DEF visit
<1>10. visit[0] = {start}
  BY <1>1, <1>9
<1>11. ASSUME NEW k \in 1..n PROVE visit[k] = VisitStep(database, d, k, visit[k - 1])
  <2>1. k \in 0..n /\ k # 0
    BY <1>1
  <2> QED
    BY <1>9, <2>1 DEF VisitStep
<1>12. ChildrenToShow(database, found, d) = {s.shown : s \in visit[n]}
  BY DEF ChildrenToShow, visit, start
<1>13. IsVisit(visit, database, found, d, n)
  BY <1>10, <1>11, <1>12 DEF start, IsVisit
<1> QED
  BY <1>13

\* A child shown because of x, which is its id or below it.
Shows(database, d, x, shown) ==
    \E c \in shown \cap Children(database, d) : x = c \/ IsDescendant(database, x, c)

\* A department that is left when its child is visited makes the child be shown;
\* one that is not left any more has made another child be shown.
LEMMA EveryDepartmentShows ==
    ASSUME NEW database, NEW found, NEW d, NEW a \in found,
           NEW child \in Children(database, d) \cap Depts,
           RealDepartment(database, a) = child \/ IsDescendant(database, RealDepartment(database, a), child),
           NEW shown \in ChildrenToShow(database, found, d)
    PROVE  Shows(database, d, RealDepartment(database, a), shown)
<1> DEFINE n == Len(DeptOrder)
           x == RealDepartment(database, a)
<1>1. PICK f : IsVisit(f, database, found, d, n)
  BY Visits
<1>2. n \in Nat /\ DOMAIN DeptOrder = 1..n
  BY QueryAssumption, LenProperties
<1>3. PICK place \in 1..n : DeptOrder[place] = child
  BY <1>2, QueryAssumption DEF ToSet
<1> HIDE DEF n, x
<1> DEFINE Kept(s, k) == Shows(database, d, x, s.shown) \/ (x \in s.left /\ k < place)
           Good == {k \in 0..n : \A s \in f[k] : Kept(s, k)}
<1>4. 0 \in Good
  <2>1. \A s \in f[0] : x \in s.left
    BY <1>1 DEF x, IsVisit
  <2> QED
    BY <1>2, <1>3, <2>1
<1>5. ASSUME NEW k \in 0..n, k \in Good, k # n PROVE k + 1 \in Good
  <2>1. k + 1 \in 1..n /\ (k + 1) - 1 = k
    BY <1>2, <1>5
  <2>2. f[k + 1] = VisitStep(database, d, k + 1, f[k])
    BY <1>1, <2>1 DEF IsVisit
  <2> DEFINE c == DeptOrder[k + 1]
  <2>3. CASE c \notin Children(database, d)
    <3>1. k + 1 # place
      BY <1>3, <2>3
    <3>2. f[k + 1] = f[k]
      BY <2>2, <2>3 DEF VisitStep
    <3> QED
      BY <1>2, <1>3, <1>5, <2>1, <3>1, <3>2
  <2>4. CASE c \in Children(database, d)
    <3> SUFFICES ASSUME NEW new \in f[k + 1] PROVE Kept(new, k + 1)
      <4>1. k + 1 \in 0..n
        BY <1>2, <2>1
      <4> HIDE DEF Kept
      <4> QED
        BY <4>1
    <3>1. PICK s \in f[k] : new \in ShowChild(database, s, c)
      BY <2>2, <2>4 DEF VisitStep
    <3>2. s.shown \subseteq new.shown
      BY <3>1 DEF ShowChild
    <3>3. CASE Shows(database, d, x, s.shown)
      BY <3>2, <3>3 DEF Shows
    <3>4. CASE x \in s.left /\ k < place
      <4>1. CASE x \in new.left
        <5>1. k + 1 = place => x \in s.left /\ (x = c \/ IsDescendant(database, x, c))
          BY <1>3, <3>4 DEF x
        <5>2. k + 1 = place => c \in new.shown
          BY <3>1, <5>1 DEF ShowChild
        <5>3. k + 1 = place => Shows(database, d, x, new.shown)
          BY <2>4, <5>1, <5>2 DEF Shows
        <5> QED
          BY <1>3, <3>4, <4>1, <5>3
      <4>2. CASE x \notin new.left
        <5>1. c \in new.shown /\ (x = c \/ IsDescendant(database, x, c))
          BY <3>1, <3>4, <4>2 DEF ShowChild
        <5> QED
          BY <2>4, <5>1 DEF Shows
      <4> QED
        BY <4>1, <4>2
    <3> QED
      BY <1>5, <3>1, <3>3, <3>4
  <2> QED
    BY <2>3, <2>4
<1> HIDE DEF Good
<1>6. 0..n \subseteq Good
  BY <1>2, <1>4, <1>5, Induction
<1>7. PICK s \in f[n] : shown = s.shown
  BY <1>1 DEF IsVisit
<1> QED
  BY <1>2, <1>3, <1>6, <1>7 DEF Good, x

LEMMA DatabaseIsFinite ==
    ASSUME IInv, db # NoDb
    PROVE  /\ IsFiniteSet(db.depts) /\ db.depts \subseteq Depts \X (Depts \cup {Root})
           /\ db.named \subseteq Depts
<1>1. db.depts \subseteq Depts \X (Depts \cup {Root}) /\ db.named \subseteq Depts
  BY SessionAssumption DEF IInv
<1>2. IsFiniteSet(Depts)
  <2>1. DOMAIN DeptOrder = 1..Len(DeptOrder) /\ Len(DeptOrder) \in Nat /\ DeptOrder \in [1..Len(DeptOrder) -> Depts]
    BY QueryAssumption, LenProperties
  <2>2. DeptOrder \in Surjection(1..Len(DeptOrder), Depts)
    BY <2>1, QueryAssumption DEF Surjection, ToSet
  <2>3. IsFiniteSet(1..Len(DeptOrder))
    BY <2>1, FS_Interval
  <2> QED
    BY <2>2, <2>3, FS_Surjection
<1>3. IsFiniteSet(Depts \X (Depts \cup {Root}))
  BY <1>2, FS_AddElement, FS_Product
<1> QED
  BY <1>1, <1>3, FS_Subset

\* Below d the departments pushed are the children shown, as far as they have a
\* name; in a sound database d and the department above have one as well.
LEMMA OfferedIfAnyBelow ==
    ASSUME IInv, SoundDatabase, NEW d \in {Root} \cup Depts, NEW below, below \in Children(db, d),
           NEW subs \in Offered(d)
    PROVE  \E shown \in ChildrenToShow(db, FoundApps(db, installed, d, FALSE), d) : subs = shown \cap db.named
<1> DEFINE found == FoundApps(db, installed, d, FALSE)
<1>1. PICK pushed \in PushedDepartments(db, found, d) : subs = pushed.subs
  BY DEF Offered
<1> HIDE DEF found
<1>2. d # Root => Parents(db, d) # {} /\ d \in db.named
  BY DEF SoundDatabase, Children, Parents
<1>3. ~DepartmentsFail(db, d)
  BY <1>2 DEF DepartmentsFail, SoundDatabase
<1>4. \A p \in Parents(db, d) : p = Root \/ p \in db.named
  BY DEF SoundDatabase, Parents
<1>5. \E shown \in ChildrenToShow(db, found, d) : subs = shown \cap db.named
  <2>1. CASE d = Root
    <3>1. PICK shown \in ChildrenToShow(db, found, d) : pushed = [subs |-> shown \cap db.named, up |-> {}]
      BY <1>1, <1>3, <2>1 DEF PushedDepartments
    <3> QED
      BY <1>1, <3>1
  <2>2. CASE d # Root
    <3>1. PICK p \in Parents(db, d), shown \in ChildrenToShow(db, found, d) :
              pushed = [subs |-> shown \cap db.named, up |-> {p}]
      BY <1>1, <1>3, <1>4, <2>2 DEF PushedDepartments
    <3> QED
      BY <1>1, <3>1
  <2> QED
    BY <2>1, <2>2
<1> QED
  BY <1>5 DEF found

\* Browsing down loses no application whose package the database knows, for every
\* tree of departments, cyclic ones included, every order of the children and
\* every choice of what is taken on the way (Query::push_local_departments).
THEOREM MappedAppsAreReachable == Spec => []MappedAppsReachable
<1>1. IInv => MappedAppsReachable
  <2> SUFFICES ASSUME IInv, SoundDatabase, NEW d \in {Root} \cup Depts, NEW a \in FoundApps(db, installed, d, FALSE),
                      HasPackage(db, PackageOf[a]), IsDescendant(db, RealDepartment(db, a), d),
                      NEW subs \in Offered(d)
               PROVE  \E c \in subs : a \in FoundApps(db, installed, c, FALSE)
    BY DEF MappedAppsReachable
  <2> DEFINE x == RealDepartment(db, a)
             found == FoundApps(db, installed, d, FALSE)
  <2>1. /\ IsFiniteSet(db.depts) /\ db.depts \subseteq Depts \X (Depts \cup {Root})
        /\ db.named \subseteq Depts
    BY DatabaseIsFinite DEF SoundDatabase
  <2>2. PICK child \in Children(db, d) : x = child \/ IsDescendant(db, x, child)
    BY <2>1, BelowAChild
  <2>3. child \in Depts
    BY <2>1 DEF Children
  <2>4. PICK shown \in ChildrenToShow(db, found, d) : subs = shown \cap db.named
    BY OfferedIfAnyBelow
  <2>5. Shows(db, d, x, shown)
    BY <2>2, <2>3, <2>4, EveryDepartmentShows
  <2>6. PICK c \in shown \cap Children(db, d) : x = c \/ IsDescendant(db, x, c)
    BY <2>5 DEF Shows
  <2>7. Parents(db, c) # {} /\ c \in db.named
    BY <2>6 DEF SoundDatabase, Children, Parents
  <2>8. x \in DepartmentsOf(db, PackageOf[a])
    BY DEF RealDepartment, HasPackage
  <2>9. PackageOf[a] \in PackagesFor(db, c)
    BY <2>1, <2>6, <2>7, <2>8, PackagesOfSubtree
  <2>10. a \in FoundApps(db, installed, c, FALSE)
    BY <2>9 DEF FoundApps, InDepartment, SoundDatabase
  <2> QED
    BY <2>4, <2>6, <2>7, <2>10
<1> QED
  BY <1>1, InitIInv, NextIInv, PTL DEF Spec

=============================================================================
