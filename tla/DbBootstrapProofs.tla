--------------------------- MODULE DbBootstrapProofs ---------------------------
(***************************************************************************)
(* The two invariants of DbBootstrap, for every set of departments.  What  *)
(* makes them inductive is what the job knows of the file at each of its   *)
(* steps: the scope may turn an absent file into an empty one behind its   *)
(* back, and nothing else.                                                 *)
(***************************************************************************)
EXTENDS DbBootstrap, TLAPS

Databases == [is : {"database"}, version : 1..4, old : SUBSET Names, named : SUBSET Names]

FileOK == file \in {Absent, Unusable} \cup Databases

Jobs ==
    [at : {"off", "test", "copy", "copying", "rename", "delete", "to3", "to4", "done"}]
        \cup [at : {"read"}, block : 1..4] \cup [at : {"insert"}, left : SUBSET Names]

JobOK == job \in Jobs

\* A file that is no database has a cause, unless it is being written.
UnusableOK == file = Unusable => causes # {} \/ job = At("copying")

\* The job upgrades a file that was there when it looked.
Upgrading == job.at \in {"read", "rename", "delete", "insert", "to3", "to4", "done"}

\* The version the job relies on is the version the file has.
StepOK ==
    /\ Upgrading => file # Absent
    /\ job.at = "copying" => file = Unusable
    /\ job.at = "copy" => file \notin Databases
    /\ (job.at = "read" /\ file \in Databases) => file.version >= job.block
    /\ job.at \in {"rename", "delete", "insert"} => file \in Databases /\ file.version = 1
    /\ job.at = "to3" => file \in Databases /\ file.version = 2
    /\ job.at = "to4" => file \in Databases /\ file.version = 3

\* Of the names of version 2, those not left have been written.
InsertOK == job.at = "insert" => file.old = {} /\ Names \ job.left \subseteq file.named

IInv == FileOK /\ JobOK /\ UnusableOK /\ StepOK /\ InsertOK /\ VersionsAreNamed /\ JobConverges

-----------------------------------------------------------------------------
LEMMA InitIInv == Init => IInv
  BY DEF Init, IInv, FileOK, JobOK, UnusableOK, StepOK, InsertOK, VersionsAreNamed, JobConverges,
         Upgrading, Jobs, Databases, Database, Absent, Unusable, Off, At, Shipped

USE DEF FileOK, JobOK, UnusableOK, StepOK, InsertOK, VersionsAreNamed, JobConverges,
        Upgrading, Jobs, Databases, Database, Absent, Unusable, Off, At, Shipped

LEMMA NextIInv == IInv /\ [Next]_vars => IInv'
<1> SUFFICES ASSUME IInv, [Next]_vars PROVE IInv'
  OBVIOUS
<1> USE DEF IInv
<1>1. CASE StartSession
  BY <1>1 DEF StartSession
<1>2. CASE Test
  BY <1>2 DEF Test
<1>3. CASE CopyStarts
  BY <1>3 DEF CopyStarts
<1>4. CASE CopyEnds
  BY <1>4 DEF CopyEnds
<1>5. CASE ReadVersion
  BY <1>5 DEF ReadVersion
<1>6. CASE Rename
  <2>1. file \in Databases /\ file.version = 1 /\ UNCHANGED <<scope, causes>>
    BY <1>6 DEF Rename
  <2>2. CASE file.old \cap file.named = {}
    <3>1. file' = [is |-> "database", version |-> 1, old |-> {}, named |-> file.named \cup file.old]
      BY <1>6, <2>1, <2>2 DEF Rename
    <3>2. job' = [at |-> "insert", left |-> Names]
      BY <1>6, <2>2 DEF Rename
    <3> QED
      BY <2>1, <3>1, <3>2
  <2>3. CASE file.old \cap file.named # {}
    BY <1>6, <2>1, <2>3 DEF Rename
  <2> QED
    BY <2>2, <2>3
<1>7. CASE Delete
  BY <1>7 DEF Delete
<1>8. ASSUME NEW d \in Names, Insert(d) PROVE IInv'
  BY <1>8 DEF Insert
<1>9. CASE To2
  <2>1. file \in Databases /\ file.version = 1 /\ file.old = {} /\ Names \subseteq file.named
    BY <1>9 DEF To2
  <2>2. file' = [is |-> "database", version |-> 2, old |-> {}, named |-> Names]
    BY <1>9, <2>1 DEF To2
  <2>3. job' = [at |-> "read", block |-> 2] /\ UNCHANGED <<scope, causes>>
    BY <1>9 DEF To2
  <2> QED
    BY <2>2, <2>3
<1>10. ASSUME NEW version \in 3..4, To(version) PROVE IInv'
  BY <1>10 DEF To
<1>11. CASE StartScope
  BY <1>11 DEF StartScope
<1>12. CASE StopScope
  BY <1>12 DEF StopScope
<1>13. CASE PowerOff
  BY <1>13 DEF PowerOff
<1>14. CASE UNCHANGED vars
  BY <1>14 DEF vars
<1> QED
  BY <1>1, <1>2, <1>3, <1>4, <1>5, <1>6, <1>7, <1>8, <1>9, <1>10, <1>11, <1>12, <1>13, <1>14 DEF Next

\* An upgrade interrupted anywhere leaves no database of version 2 or later with
\* a department unnamed (data/update_schema.sh).
THEOREM NamesAreComplete == Spec => []VersionsAreNamed
<1>1. IInv => VersionsAreNamed
  BY DEF IInv
<1> QED
  BY <1>1, InitIInv, NextIInv, PTL DEF Spec

\* A job that comes to its end leaves the current schema, or a file that an
\* earlier job or the scope made unusable (data/click-scope-departments-db.conf.in).
THEOREM JobsConverge == Spec => []JobConverges
<1>1. IInv => JobConverges
  BY DEF IInv
<1> QED
  BY <1>1, InitIInv, NextIInv, PTL DEF Spec

=============================================================================
