----------------------------- MODULE DbBootstrap -----------------------------
(***************************************************************************)
(* How the user's departments database comes to be: at every start of the  *)
(* session a job copies the default database or, if there is a file,       *)
(* upgrades its schema (data/click-scope-departments-db.conf.in,           *)
(* data/update_schema.sh), while the scope may already open the file       *)
(* (DepartmentsDb::open, click::Scope) and the power may fail.             *)
(*                                                                         *)
(* The job is not waited for: "start on starting unity8" without "task".   *)
(* Each command of sqlite3 outside a transaction commits on its own, and   *)
(* one that fails does not stop those after it.  The database is in        *)
(* write-ahead mode: the scope, which only reads, locks nobody out.        *)
(***************************************************************************)
EXTENDS Naturals, FiniteSets

CONSTANT Names      \* the departments named by the upgrade to version 2

VARIABLES
    file,       \* the user's database file
    job,        \* what the job does next
    scope,      \* "off", or whether the scope has a database: "open" or "null"
    causes      \* what may have left a file that is no database

vars == <<file, job, scope, causes>>

Absent == [is |-> "absent"]

\* A file without tables, or the beginning of a copy.
Unusable == [is |-> "unusable"]

\* Names stand under the empty locale in version 1, under en_US since.
Database(version, old, named) == [is |-> "database", version |-> version, old |-> old, named |-> named]

Shipped == Database(4, {}, Names)

Off == [at |-> "off"]
At(step) == [at |-> step]

\* Users come from any earlier version.
Init ==
    /\ file \in {Absent} \cup {Database(1, old, named) : old, named \in SUBSET Names}
                \cup {Database(version, {}, Names) : version \in 2..4}
    /\ job = Off
    /\ scope = "off"
    /\ causes = {}

StartSession ==
    /\ job = Off
    /\ job' = At("test")
    /\ UNCHANGED <<file, scope, causes>>

\* Is there a file?
Test ==
    /\ job = At("test")
    /\ job' = IF file = Absent THEN At("copy") ELSE [at |-> "read", block |-> 1]
    /\ UNCHANGED <<file, scope, causes>>

CopyStarts ==
    /\ job = At("copy")
    /\ file' = Unusable
    /\ job' = At("copying")
    /\ UNCHANGED <<scope, causes>>

CopyEnds ==
    /\ job = At("copying")
    /\ file' = Shipped
    /\ job' = At("done")
    /\ causes' = {}
    /\ UNCHANGED scope

\* Mutant: the version is read once, before the first of the blocks.
ReadVersionOnce ==
    /\ job.at = "read"
    /\ job' = CASE job.block > 1 \/ file = Unusable -> At("done")
                [] OTHER -> CASE file.version = 1 -> At("rename")
                              [] file.version = 2 -> At("to3")
                              [] file.version = 3 -> At("to4")
                              [] OTHER -> At("done")
    /\ UNCHANGED <<file, scope, causes>>

\* The version is read before the first and after each of the three blocks, which
\* come in the order of the versions they upgrade; without a table there is none.
ReadVersion ==
    /\ job.at = "read"
    /\ job' = CASE file = Unusable \/ file.version < job.block -> At("done")
                [] OTHER -> CASE file.version = 1 -> At("rename")
                              [] file.version = 2 -> At("to3")
                              [] file.version = 3 -> At("to4")
                              [] OTHER -> At("done")
    /\ UNCHANGED <<file, scope, causes>>

\* UPDATE deptnames, all rows or, if one of them exists already, none.
Rename ==
    /\ job = At("rename")
    /\ IF file.old \cap file.named = {}
       THEN /\ file' = [file EXCEPT !.old = {}, !.named = @ \cup file.old]
            /\ job' = [at |-> "insert", left |-> Names]
       ELSE /\ job' = At("delete")
            /\ UNCHANGED file
    /\ UNCHANGED <<scope, causes>>

\* DELETE FROM deptnames, in its place.
Delete ==
    /\ job = At("delete")
    /\ file' = [file EXCEPT !.old = {}]
    /\ job' = [at |-> "insert", left |-> Names]
    /\ UNCHANGED <<scope, causes>>

\* INSERT INTO deptnames fails for a row that exists, with no harm.
Insert(d) ==
    /\ job.at = "insert"
    /\ d \in job.left
    /\ file' = [file EXCEPT !.named = @ \cup {d}]
    /\ job' = [job EXCEPT !.left = @ \ {d}]
    /\ UNCHANGED <<scope, causes>>

\* Mutant: the version is raised before the names are written.
To2AtOnce ==
    /\ job.at = "insert"
    /\ file' = [file EXCEPT !.version = 2]
    /\ job' = IF job.left = {} THEN [at |-> "read", block |-> 2] ELSE job
    /\ UNCHANGED <<scope, causes>>

\* The transaction with the rows of depts.
To2 ==
    /\ job = [at |-> "insert", left |-> {}]
    /\ file' = [file EXCEPT !.version = 2]
    /\ job' = [at |-> "read", block |-> 2]
    /\ UNCHANGED <<scope, causes>>

\* The transactions that replace every name, of two versions.
To(version) ==
    /\ \/ version = 3 /\ job = At("to3")
       \/ version = 4 /\ job = At("to4")
    /\ file' = Database(version, {}, Names)
    /\ job' = [at |-> "read", block |-> version]
    /\ UNCHANGED <<scope, causes>>

\* The scope opens the file, which SQLite creates if there is none, and throws if
\* it has no table meta; it does not look at the version.
StartScope ==
    /\ job # Off /\ scope = "off"
    /\ scope' = IF file.is = "database" THEN "open" ELSE "null"
    /\ IF file = Absent
       THEN file' = Unusable /\ causes' = causes \cup {"opened"}
       ELSE UNCHANGED <<file, causes>>
    /\ UNCHANGED job

StopScope ==
    /\ scope # "off"
    /\ scope' = "off"
    /\ UNCHANGED <<file, job, causes>>

\* The session ends, between any two commands or within the copy.
PowerOff ==
    /\ job # Off
    /\ job' = Off
    /\ scope' = "off"
    /\ causes' = IF job = At("copying") THEN causes \cup {"cut"} ELSE causes
    /\ UNCHANGED file

Next ==
    \/ StartSession \/ Test \/ CopyStarts \/ CopyEnds
    \/ ReadVersion \/ Rename \/ Delete \/ (\E d \in Names : Insert(d)) \/ To2
    \/ (\E version \in 3..4 : To(version))
    \/ StartScope \/ StopScope \/ PowerOff

Spec == Init /\ [][Next]_vars

-----------------------------------------------------------------------------
\* A database that says it is of version 2 or later has the name of every
\* department under the locale the scope asks for, wherever an upgrade was
\* interrupted: it is the premise under which DashSession finds every department
\* browsable (data/update_schema.sh, DepartmentsDb::get_department_name).
VersionsAreNamed ==
    (file.is = "database" /\ file.version >= 2) => file.old = {} /\ file.named = Names

\* When the job has come to its end the user has the current schema, whatever was
\* interrupted before; the exception is a file that is no database, which every
\* later job takes for one to upgrade: a copy cut off by the end of the session,
\* or the empty file of a scope that came before the copy.
JobConverges ==
    job = At("done") => file = Shipped \/ (file = Unusable /\ causes # {})

=============================================================================
