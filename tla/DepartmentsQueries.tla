------------------------- MODULE DepartmentsQueries -------------------------
(***************************************************************************)
(* What the SELECT statements of libclickscope/click/departments-db.cpp    *)
(* return of a database [pkgmap, depts, ...]: pkgmap holds pairs of a      *)
(* package and its department, depts pairs of a department and its parent. *)
(* The recursive common table expressions are computed row set by row set, *)
(* as SQLite does.                                                         *)
(***************************************************************************)
EXTENDS Naturals, FiniteSets

Children(db, d) == {e[1] : e \in {x \in db.depts : x[2] = d}}

\* get_parent_department_id() returns one of these and throws if there is none.
Parents(db, d) == {e[2] : e \in {x \in db.depts : x[1] = d}}

\* Mutant: the recursive SELECT is evaluated once.
RecursiveOnce(db, start) == start \cup UNION {Children(db, d) : d \in start}

\* "UNION SELECT depts.deptid FROM recdepts,depts WHERE recdepts.deptid =
\* depts.parentid", until no row is added.
Recursive(db, start) ==
    LET rec[n \in 0..Cardinality(db.depts)] ==
            IF n = 0 THEN start
            ELSE rec[n - 1] \cup UNION {Children(db, d) : d \in rec[n - 1]}
    IN  rec[Cardinality(db.depts)]

IsDescendant(db, d, parent) == d \in Recursive(db, Children(db, parent))

\* The department itself counts only if it has a row of its own.
PackagesFor(db, d) ==
    LET own == IF Parents(db, d) = {} THEN {} ELSE {d}
        depts == Recursive(db, own \cup Children(db, d))
    IN  {m[1] : m \in {x \in db.pkgmap : x[2] \in depts}}

IsEmpty(db, d) == PackagesFor(db, d) = {}

DepartmentsOf(db, p) == {m[2] : m \in {x \in db.pkgmap : x[1] = p}}

HasPackage(db, p) == DepartmentsOf(db, p) # {}

=============================================================================
