------------------------------ MODULE AppsQuery ------------------------------
(***************************************************************************)
(* One search of the apps scope: which installed applications it finds for *)
(* a department and a query string (Interface::find_installed_apps), which *)
(* departments it offers (Query::push_local_departments) and which results *)
(* it pushes, in which category (ResultPusher).                            *)
(*                                                                         *)
(* An application is a desktop file; its package stands for the click      *)
(* package name or, without one, for the desktop file name, with or        *)
(* without its extension.                                                  *)
(***************************************************************************)
EXTENDS DepartmentsQueries, Sequences, SequencesExt

CONSTANTS
    Apps,           \* every desktop file
    Pkgs, Depts,
    Root,           \* the empty department id
    NoDb,           \* the null depts_db of a scope that could not open it
    Title,          \* its title's rank in the collation order; equal titles collate equally
    NameRank,       \* the rank of a package name
    Owner,          \* the package a file belongs to; without one, its file name
    Says,           \* what a file says, of KeyFileFacts
    IdParts,        \* the parts of its X-Ubuntu-Application-ID
    Unknown,        \* the name of an application whose id has not three parts
    DefaultDept,    \* its X-Ubuntu-Default-Department-ID; Root if it has none
    Matching,       \* the applications that match the query string
    NonClickApps,   \* the files nonClickDesktopFiles() lists
    ShowDesktopApps,    \* CLICK_SCOPE_SHOW_DESKTOP_APPS is set
    CoreSetting,    \* the core-apps setting: <<package>> or <<package, application>> each
    CoreDefault,    \* get_default_core_apps()
    Ignored,        \* the packages of the ignored-apps setting
    DeptOrder       \* the order in which SQLite returns departments

\* "Unity" is one of the names OnlyShowIn lists.
KeyFileFacts == {"Desktop Entry", "NoDisplay", "OnlyShowIn", "Unity", "X-Ubuntu-Touch", "X-Ubuntu-Application-ID"}

ASSUME QueryAssumption ==
    /\ Root \notin Depts
    /\ IsFiniteSet(Apps)
    /\ Title \in [Apps -> Nat]
    /\ NameRank \in [Pkgs \cup {Unknown} -> Nat \ {0}]
    /\ Owner \in [Apps -> Pkgs]
    /\ Says \in [Apps -> SUBSET KeyFileFacts]
    /\ IdParts \in [Apps -> Nat]
    /\ Unknown \notin Pkgs
    /\ DefaultDept \in [Apps -> Depts \cup {Root}]
    /\ Matching \subseteq Apps
    /\ NonClickApps \subseteq Apps
    /\ ShowDesktopApps \in BOOLEAN
    /\ \A core \in {CoreSetting, CoreDefault} :
        /\ Len(core) \in Nat /\ DOMAIN core = 1..Len(core)
        /\ \A i \in DOMAIN core : Len(core[i]) \in 1..2 /\ core[i][1] \in Pkgs
    /\ Ignored \subseteq Pkgs
    /\ DeptOrder \in Seq(Depts) /\ ToSet(DeptOrder) = Depts

-----------------------------------------------------------------------------
(* The configuration                                                       *)

\* The default applies when the setting, its key or its schema is missing.
CoreApps == IF CoreSetting = <<>> THEN CoreDefault ELSE CoreSetting

\* What follows the underscore of an entry is dropped.
Core == [i \in DOMAIN CoreApps |-> CoreApps[i][1]]

-----------------------------------------------------------------------------
(* The desktop files                                                       *)

Visible(a) == "NoDisplay" \notin Says[a] /\ ("OnlyShowIn" \in Says[a] => "Unity" \in Says[a])

Wanted(a) ==
    \/ ShowDesktopApps
    \/ Says[a] \cap {"X-Ubuntu-Touch", "X-Ubuntu-Application-ID"} # {}
    \/ a \in NonClickApps

HasId(a) == "X-Ubuntu-Application-ID" \in Says[a]

\* load_app_from_desktop(): the click package name, the file name of an
\* application without an id.
PackageOf == [a \in Apps |-> IF HasId(a) /\ IdParts[a] # 3 THEN Unknown ELSE Owner[a]]

\* A file without its group, or not readable, is passed over.
Listed == {a \in Apps : "Desktop Entry" \in Says[a] /\ Visible(a) /\ Wanted(a) /\ PackageOf[a] \notin Ignored}

\* Titles that collate equally are told apart by the name, empty without an id.
Before(a, b) ==
    LET rank(c) == IF HasId(c) THEN NameRank[PackageOf[c]] ELSE 0
    IN  Title[a] < Title[b] \/ (Title[a] = Title[b] /\ rank(a) < rank(b))

\* sort_apps(): std::sort leaves the order of equal elements open.
Sorts(apps) == {s \in SetToSeqs(apps) : \A i, j \in DOMAIN s : i < j => ~Before(s[j], s[i])}

\* The files in the system's and the user's directory.
Candidates(installed) == {a \in Listed : Owner[a] \in installed}

-----------------------------------------------------------------------------
(* find_installed_apps()                                                   *)

\* The filter of a department below the root.
InDepartment(db, a, d) ==
    \/ PackageOf[a] \in PackagesFor(db, d)
    \/ DefaultDept[a] = d /\ ~HasPackage(db, PackageOf[a])

\* Without a database no package is in the department, and the test of an
\* application that has a default department dereferences the null pointer.
SearchDies(db, installed, d) ==
    db = NoDb /\ d # Root /\ \E a \in Candidates(installed) : DefaultDept[a] # Root

FoundApps(db, installed, d, hasQuery) ==
    {a \in Candidates(installed) :
        /\ d = Root \/ (db # NoDb /\ InDepartment(db, a, d))
        /\ hasQuery => a \in Matching}

\* SELECT without ORDER BY: some row, the same at every call.
RealDepartment(db, a) ==
    IF HasPackage(db, PackageOf[a]) THEN CHOOSE d \in DepartmentsOf(db, PackageOf[a]) : TRUE
    ELSE DefaultDept[a]

-----------------------------------------------------------------------------
(* push_local_departments()                                                *)

\* Mutant: only the departments of the applications themselves are shown.
ShowChildItself(db, soFar, c) ==
    {IF c \in soFar.left THEN [left |-> soFar.left \ {c}, shown |-> soFar.shown \cup {c}] ELSE soFar}

\* One child: it takes from the departments left the one that justifies it.
ShowChild(db, soFar, c) ==
    LET under == {r \in soFar.left : IsDescendant(db, r, c)}
        use == IF c \in soFar.left THEN {c} ELSE under
    IN  IF use = {} THEN {soFar}
        ELSE {[left |-> soFar.left \ {r}, shown |-> soFar.shown \cup {c}] : r \in use}

\* The sets of children that may be shown: the order of an unordered_set, which
\* decides what is taken, is open.
ChildrenToShow(db, found, d) ==
    LET start == [left |-> {RealDepartment(db, a) : a \in found}, shown |-> {}]
        visit[n \in 0..Len(DeptOrder)] ==
            IF n = 0 THEN {start}
            ELSE IF DeptOrder[n] \in Children(db, d)
                 THEN UNION {ShowChild(db, s, DeptOrder[n]) : s \in visit[n - 1]}
            ELSE visit[n - 1]
    IN  {s.shown : s \in visit[Len(DeptOrder)]}

\* Any exception but that of a child's name loses all the departments.
DepartmentsFail(db, d) ==
    \/ db = NoDb
    \/ d # Root /\ (d \notin db.named \/ Parents(db, d) = {})

\* The departments offered and the one to go up to; a child without a name is
\* left out, and so is everything if the parent has no name.
PushedDepartments(db, found, d) ==
    IF DepartmentsFail(db, d) THEN {[subs |-> {}, up |-> {}]}
    ELSE IF d = Root THEN {[subs |-> s \cap db.named, up |-> {}] : s \in ChildrenToShow(db, found, d)}
    ELSE UNION {IF p # Root /\ p \notin db.named THEN {[subs |-> {}, up |-> {}]}
                ELSE {[subs |-> s \cap db.named, up |-> {p}] : s \in ChildrenToShow(db, found, d)}
                    : p \in Parents(db, d)}

-----------------------------------------------------------------------------
(* ResultPusher                                                            *)

\* Mutant: the visit stops one application too early.
TopAppsTooFew(apps) ==
    LET Seen(i) == {PackageOf[apps[j]] : j \in 1..i}
        visited == {i \in DOMAIN apps : Cardinality(Seen(i)) # Len(Core)}
    IN  {apps[i] : i \in {j \in visited :
            \A k \in visited : PackageOf[apps[k]] = PackageOf[apps[j]] => k <= j}}

\* push_top_results() of the core apps found: of several applications with one
\* identifier the last visited is kept, and the visit stops when every core app
\* has been seen.
TopApps(apps) ==
    LET Seen(i) == {PackageOf[apps[j]] : j \in 1..i}
        visited == {i \in DOMAIN apps : Cardinality(Seen(i - 1)) # Len(Core)}
    IN  {apps[i] : i \in {j \in visited :
            \A k \in visited : PackageOf[apps[k]] = PackageOf[apps[j]] => k <= j}}

\* get_app_identifier() gives the package, or the name of the file without its
\* extension.
IsCore(a) == PackageOf[a] \in ToSet(Core)

\* push_local_results(): the core apps are left out where the top is shown.
LocalApps(found, showTop) == IF showTop THEN {a \in found : ~IsCore(a)} ELSE found

\* Query::run: the pages a search may give the dash.
Pages(db, installed, d, hasQuery) ==
    LET found == FoundApps(db, installed, d, hasQuery)
        showTop == d = Root /\ ~hasQuery
        tops == IF showTop THEN {TopApps(sorted) : sorted \in Sorts({a \in found : IsCore(a)})} ELSE {{}}
    IN  {[dept |-> d, hasQuery |-> hasQuery, subs |-> pushed.subs, up |-> pushed.up,
          top |-> top, local |-> LocalApps(found, showTop), lonely |-> Cardinality(found) = 1]
            : pushed \in PushedDepartments(db, found, d), top \in tops}

=============================================================================
