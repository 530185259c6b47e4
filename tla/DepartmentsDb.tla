---------------------------- MODULE DepartmentsDb ----------------------------
(***************************************************************************)
(* The writing side of the departments database                            *)
(* (libclickscope/click/departments-db.cpp): one connection to an SQLite   *)
(* file, store_departments() and store_package_mapping() with the          *)
(* transactions they open, and what an exception, a failed statement or a  *)
(* crash of the process leaves on disk.                                    *)
(*                                                                         *)
(* store_departments_() recurses over the departments; its statements are  *)
(* kept as a stack of work, so that each of them is one step that may fail.*)
(***************************************************************************)
EXTENDS Naturals, Sequences

CONSTANTS
    Pkgs, Depts, Locales,
    Root,       \* the empty department id, parent of the top-level departments
    Forests,    \* the department lists that may be stored
    None        \* no call in progress

Stores == [forest : Forests, locale : Locales]

\* A list of departments: the sub-departments of each (of Root: the top level)
\* in their order, and the departments whose name is empty.
ASSUME DbAssumption ==
    /\ Root \notin Depts
    /\ \A f \in Forests :
        /\ f.kids \in [Depts \cup {Root} -> Seq(Depts)]
        /\ f.unnamed \subseteq Depts
    /\ None \notin Stores

VARIABLES
    disk,       \* what is committed, and what every other connection reads
    view,       \* what this connection reads: disk and its open transaction
    inTxn,      \* whether a transaction is open
    call,       \* the forest and locale being stored, or None
    work,       \* statements of that call still to be executed
    failed,     \* whether an exception has reached a caller (history)
    stored      \* the last forest stored without one, with its locale (history)

vars == <<disk, view, inTxn, call, work, failed, stored>>

Edges == Depts \X (Depts \cup {Root})

Databases ==
    [pkgmap : SUBSET (Pkgs \X Depts), depts : SUBSET Edges, names : SUBSET (Depts \X Locales)]

Statements == [op : {"map"}, dept : Depts, parent : Depts \cup {Root}] \cup [op : {"visit"}, dept : Depts]

TypeOK ==
    /\ disk \in Databases
    /\ view \in Databases
    /\ inTxn \in BOOLEAN
    /\ call \in Stores \cup {None}
    /\ work \in Seq(Statements)
    /\ failed \in BOOLEAN
    /\ stored \in Stores \cup {None}

\* init_db() on a new file: the tables exist and are empty.
EmptyDb == [pkgmap |-> {}, depts |-> {}, names |-> {}]

Init ==
    /\ disk = EmptyDb
    /\ view = EmptyDb
    /\ inTxn = FALSE
    /\ call = None
    /\ work = <<>>
    /\ failed = FALSE
    /\ stored = None

Idle == call = None

-----------------------------------------------------------------------------
(* store_departments()                                                     *)

\* Mutant: the arguments of store_department_mapping() are swapped.
MapAllSwapped(ds, parent) == [i \in DOMAIN ds |-> [op |-> "map", dept |-> parent, parent |-> ds[i]]]

MapAll(ds, parent) == [i \in DOMAIN ds |-> [op |-> "map", dept |-> ds[i], parent |-> parent]]

VisitAll(ds) == [i \in DOMAIN ds |-> [op |-> "visit", dept |-> ds[i]]]

\* Mutant: the old rows of depts are kept.
StoreDepartmentsKeepsOld(f, l) ==
    /\ Idle
    /\ call' = [forest |-> f, locale |-> l]
    /\ inTxn' = TRUE
    /\ view' = [view EXCEPT !.names = {n \in @ : n[2] # l}]
    /\ work' = MapAll(f.kids[Root], Root) \o VisitAll(f.kids[Root])
    /\ UNCHANGED <<disk, failed, stored>>

\* Mutant: the top-level departments are not mapped to the root.
StoreDepartmentsWithoutTop(f, l) ==
    /\ Idle
    /\ call' = [forest |-> f, locale |-> l]
    /\ inTxn' = TRUE
    /\ view' = [view EXCEPT !.depts = {}, !.names = {n \in @ : n[2] # l}]
    /\ work' = VisitAll(f.kids[Root])
    /\ UNCHANGED <<disk, failed, stored>>

\* A transaction that an exception left open is simply continued: transaction()
\* fails, which is only logged.
StoreDepartments(f, l) ==
    /\ Idle
    /\ call' = [forest |-> f, locale |-> l]
    /\ inTxn' = TRUE
    /\ view' = [view EXCEPT !.depts = {}, !.names = {n \in @ : n[2] # l}]
    /\ work' = MapAll(f.kids[Root], Root) \o VisitAll(f.kids[Root])
    /\ UNCHANGED <<disk, failed, stored>>

\* One of the two DELETE statements fails: the transaction is rolled back.
StoreDepartmentsRefused ==
    /\ Idle
    /\ view' = disk
    /\ inTxn' = FALSE
    /\ failed' = TRUE
    /\ UNCHANGED <<disk, call, work, stored>>

NextStatementIs(op) == work # <<>> /\ Head(work).op = op

\* Mutant: there is no transaction, every statement commits itself.
StoreDepartmentMappingCommits ==
    /\ NextStatementIs("map")
    /\ view' = [view EXCEPT !.depts = @ \cup {<<Head(work).dept, Head(work).parent>>}]
    /\ disk' = view'
    /\ work' = Tail(work)
    /\ UNCHANGED <<inTxn, call, failed, stored>>

StoreDepartmentMapping ==
    /\ NextStatementIs("map")
    /\ view' = [view EXCEPT !.depts = @ \cup {<<Head(work).dept, Head(work).parent>>}]
    /\ work' = Tail(work)
    /\ UNCHANGED <<disk, inTxn, call, failed, stored>>

\* Mutant: the locale is missing from the key of deptnames.
StoreDepartmentNameOnce ==
    /\ NextStatementIs("visit")
    /\ LET d == Head(work).dept
           subs == call.forest.kids[d]
       IN  /\ d \notin call.forest.unnamed
           /\ view' = [view EXCEPT !.names =
                IF \E l \in Locales : <<d, l>> \in @ THEN @ ELSE @ \cup {<<d, call.locale>>}]
           /\ work' = MapAll(subs, d) \o VisitAll(subs) \o Tail(work)
    /\ UNCHANGED <<disk, inTxn, call, failed, stored>>

\* store_departments_() on one department: its name, then the mappings of its
\* sub-departments, then the recursion into them, then its next sibling.
StoreDepartmentName ==
    /\ NextStatementIs("visit")
    /\ LET d == Head(work).dept
           subs == call.forest.kids[d]
       IN  /\ d \notin call.forest.unnamed
           /\ view' = [view EXCEPT !.names = @ \cup {<<d, call.locale>>}]
           /\ work' = MapAll(subs, d) \o VisitAll(subs) \o Tail(work)
    /\ UNCHANGED <<disk, inTxn, call, failed, stored>>

\* A statement fails, or a department has no name: the exception leaves
\* store_departments() and nobody rolls back.
StatementThrows ==
    /\ work # <<>>
    /\ call' = None
    /\ work' = <<>>
    /\ failed' = TRUE
    /\ UNCHANGED <<disk, view, inTxn, stored>>

CommitDepartments ==
    /\ call # None
    /\ work = <<>>
    /\ disk' = view
    /\ inTxn' = FALSE
    /\ stored' = call
    /\ call' = None
    /\ UNCHANGED <<view, work, failed>>

CommitDepartmentsFails ==
    /\ call # None
    /\ work = <<>>
    /\ view' = disk
    /\ inTxn' = FALSE
    /\ failed' = TRUE
    /\ call' = None
    /\ UNCHANGED <<disk, work, stored>>

-----------------------------------------------------------------------------
(* store_package_mapping(): the result of the DELETE is not looked at, a   *)
(* failed INSERT or COMMIT is rolled back.                                 *)

StorePackageMapping(p, d, deleted) ==
    LET kept == IF deleted THEN {m \in view.pkgmap : m[1] # p} ELSE view.pkgmap
    IN  /\ Idle
        /\ view' = [view EXCEPT !.pkgmap = kept \cup {<<p, d>>}]
        /\ disk' = view'
        /\ inTxn' = FALSE
        /\ UNCHANGED <<call, work, failed, stored>>

StorePackageMappingFails ==
    /\ Idle
    /\ view' = disk
    /\ inTxn' = FALSE
    /\ failed' = TRUE
    /\ UNCHANGED <<disk, call, work, stored>>

\* An empty id throws before any statement.
StorePackageMappingRejects ==
    /\ Idle
    /\ failed' = TRUE
    /\ UNCHANGED <<disk, view, inTxn, call, work, stored>>

\* The process ends at any point and another opens the file again.
Crash ==
    /\ view' = disk
    /\ inTxn' = FALSE
    /\ call' = None
    /\ work' = <<>>
    /\ UNCHANGED <<disk, failed, stored>>

-----------------------------------------------------------------------------
Next ==
    \/ \E f \in Forests, l \in Locales : StoreDepartments(f, l)
    \/ StoreDepartmentsRefused
    \/ StoreDepartmentMapping
    \/ StoreDepartmentName
    \/ StatementThrows
    \/ CommitDepartments
    \/ CommitDepartmentsFails
    \/ \E p \in Pkgs, d \in Depts, deleted \in BOOLEAN : StorePackageMapping(p, d, deleted)
    \/ StorePackageMappingFails
    \/ StorePackageMappingRejects
    \/ Crash

Spec == Init /\ [][Next]_vars

-----------------------------------------------------------------------------
Elements(s) == {s[i] : i \in DOMAIN s}

Mapped(depts) == {e[1] : e \in depts}

\* The rows of depts are exactly what walking down from the top level of f gives.
Whole(depts, f) ==
    /\ \A e \in depts : e[1] \in Elements(f.kids[e[2]])
    /\ \A d \in Elements(f.kids[Root]) : <<d, Root>> \in depts
    /\ \A d \in Mapped(depts) : \A k \in Elements(f.kids[d]) : <<k, d>> \in depts

\* As long as no exception has reached a caller, what other connections read is
\* the whole hierarchy of the last store_departments() that returned, and never
\* part of one or a mix of two, wherever the process is stopped.
TreeIsWhole ==
    ~failed => IF stored = None THEN disk.depts = {} ELSE Whole(disk.depts, stored.forest)

\* In the same circumstances every department on disk has a name in the locale
\* last stored, so that get_department_name() finds one (it throws otherwise)
\* for a search in that locale, or in any if it is en_US (apps-query.cpp:250).
TreeIsNamed ==
    ~failed => \A d \in Mapped(disk.depts) : <<d, stored.locale>> \in disk.names

\* In the same circumstances get_parent_department_id() can be followed from
\* every department on disk to the root: it throws for a parent without a row.
ParentsAreKnown ==
    ~failed => \A e \in disk.depts : e[2] # Root => e[2] \in Mapped(disk.depts)

\* store_package_mapping() never publishes part of a hierarchy that was being
\* stored, unless an exception has left that transaction open.
OnlyStoresPublishTrees ==
    [][disk'.depts # disk.depts => failed \/ (call # None /\ stored' = call)]_vars

\* "delete package mapping first from any departments" (departments-db.cpp:329):
\* a package is in one department, as get_department_for_package() assumes.
OneDepartmentPerPackage ==
    \A m, n \in disk.pkgmap : m[1] = n[1] => m = n

=============================================================================
