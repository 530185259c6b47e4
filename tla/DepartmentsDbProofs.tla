------------------------- MODULE DepartmentsDbProofs -------------------------
(***************************************************************************)
(* Proofs about DepartmentsDb for any hierarchies, locales and packages.   *)
(* What is stored so far and the statements left make up the hierarchy     *)
(* being stored: the invariants speak of both together.                    *)
(***************************************************************************)
EXTENDS DepartmentsDb, SequenceTheorems, TLAPS

Occurs(x, s) == \E i \in DOMAIN s : s[i] = x

MapOf(d, p) == [op |-> "map", dept |-> d, parent |-> p]
VisitOf(d) == [op |-> "visit", dept |-> d]

\* The row is in depts, or the statement that inserts it is still to come.
Planned(d, p) == <<d, p>> \in view.depts \/ Occurs(MapOf(d, p), work)

\* The department is still to be named and descended into.
ToVisit(d) == Occurs(VisitOf(d), work)

Kids(p) == Elements(call.forest.kids[p])

PlansTree ==
    /\ \A d \in Depts, p \in Depts \cup {Root} : Planned(d, p) => d \in Kids(p)
    /\ \A d \in Kids(Root) : Planned(d, Root)

\* A department that has a row has all its sub-departments, or will be visited.
PlansKids ==
    \A d \in Depts, p \in Depts \cup {Root} :
        Planned(d, p) => ToVisit(d) \/ \A k \in Kids(d) : Planned(k, d)

PlansNames ==
    \A d \in Depts, p \in Depts \cup {Root} :
        Planned(d, p) => ToVisit(d) \/ <<d, call.locale>> \in view.names

\* Only departments with a row are visited, and only they get sub-departments.
PlansParents ==
    /\ \A d \in Depts : ToVisit(d) => \E p \in Depts \cup {Root} : Planned(d, p)
    /\ \A d, e \in Depts : Planned(d, e) => \E p \in Depts \cup {Root} : Planned(e, p)

StoreInv == call # None => PlansTree /\ PlansKids /\ PlansNames /\ PlansParents

\* Between two calls that both returned there is no transaction.
IdleInv ==
    /\ call = None => work = <<>>
    /\ (call = None /\ ~failed) => view = disk

IInv == TypeOK /\ IdleInv /\ StoreInv /\ TreeIsWhole /\ TreeIsNamed /\ ParentsAreKnown

-----------------------------------------------------------------------------
\* The elements of a sequence.
LEMMA OccursConcat ==
    ASSUME NEW S, NEW s \in Seq(S), NEW t \in Seq(S), NEW x
    PROVE  Occurs(x, s \o t) <=> Occurs(x, s) \/ Occurs(x, t)
<1>1. \A i \in DOMAIN s : i \in DOMAIN (s \o t) /\ (s \o t)[i] = s[i]
  OBVIOUS
<1>2. \A i \in DOMAIN t : i + Len(s) \in DOMAIN (s \o t) /\ (s \o t)[i + Len(s)] = t[i]
  OBVIOUS
<1>3. \A i \in DOMAIN (s \o t) :
         \/ i \in DOMAIN s /\ (s \o t)[i] = s[i]
         \/ i - Len(s) \in DOMAIN t /\ (s \o t)[i] = t[i - Len(s)]
  OBVIOUS
<1> QED BY <1>1, <1>2, <1>3 DEF Occurs

LEMMA OccursHeadTail ==
    ASSUME NEW S, NEW s \in Seq(S), s # <<>>, NEW x
    PROVE  Occurs(x, s) <=> x = Head(s) \/ Occurs(x, Tail(s))
<1>1. 1 \in DOMAIN s /\ s[1] = Head(s)
  OBVIOUS
<1>2. \A i \in DOMAIN Tail(s) : i + 1 \in DOMAIN s /\ s[i + 1] = Tail(s)[i]
  OBVIOUS
<1>3. \A i \in DOMAIN s : i = 1 \/ (i - 1 \in DOMAIN Tail(s) /\ Tail(s)[i - 1] = s[i])
  OBVIOUS
<1> QED BY <1>1, <1>2, <1>3 DEF Occurs

\* The statements for a list of sub-departments.
LEMMA ListOfMaps ==
    ASSUME NEW ds \in Seq(Depts), NEW p \in Depts \cup {Root}
    PROVE  /\ MapAll(ds, p) \in Seq(Statements)
           /\ \A d, q : Occurs(MapOf(d, q), MapAll(ds, p)) <=> d \in Elements(ds) /\ q = p
           /\ \A d : ~Occurs(VisitOf(d), MapAll(ds, p))
<1> DEFINE ms == MapAll(ds, p)
<1>1. DOMAIN ms = 1..Len(ds) /\ \A i \in 1..Len(ds) : ms[i] = MapOf(ds[i], p)
  BY DEF MapAll, MapOf
<1>2. \A i \in 1..Len(ds) : ms[i] \in Statements
  BY <1>1 DEF MapOf, Statements
<1>3. ms \in Seq(Statements)
  <2>1. Len(ds) \in Nat /\ ms \in [1..Len(ds) -> Statements]
    BY <1>1, <1>2 DEF MapAll
  <2> HIDE DEF ms
  <2> QED BY ONLY <2>1, SeqDef
<1>4. \A d, q, e : MapOf(d, q) = MapOf(e, p) <=> d = e /\ q = p
  BY DEF MapOf
<1>5. \A d, e : VisitOf(d) # MapOf(e, p)
  BY DEF MapOf, VisitOf
<1> QED BY <1>1, <1>3, <1>4, <1>5 DEF Occurs, Elements

LEMMA ListOfVisits ==
    ASSUME NEW ds \in Seq(Depts)
    PROVE  /\ VisitAll(ds) \in Seq(Statements)
           /\ \A d : Occurs(VisitOf(d), VisitAll(ds)) <=> d \in Elements(ds)
           /\ \A d, q : ~Occurs(MapOf(d, q), VisitAll(ds))
<1> DEFINE vs == VisitAll(ds)
<1>1. DOMAIN vs = 1..Len(ds) /\ \A i \in 1..Len(ds) : vs[i] = VisitOf(ds[i])
  BY DEF VisitAll, VisitOf
<1>2. \A i \in 1..Len(ds) : vs[i] \in Statements
  BY <1>1 DEF VisitOf, Statements
<1>3. vs \in Seq(Statements)
  <2>1. Len(ds) \in Nat /\ vs \in [1..Len(ds) -> Statements]
    BY <1>1, <1>2 DEF VisitAll
  <2> HIDE DEF vs
  <2> QED BY ONLY <2>1, SeqDef
<1>4. \A d, e : VisitOf(d) = VisitOf(e) <=> d = e
  BY DEF VisitOf
<1>5. \A d, q, e : VisitOf(e) # MapOf(d, q)
  BY DEF MapOf, VisitOf
<1> QED BY <1>1, <1>3, <1>4, <1>5 DEF Occurs, Elements

-----------------------------------------------------------------------------
\* The types follow the actions one by one.
LEMMA InitTypes == Init => TypeOK
<1> SUFFICES ASSUME Init PROVE TypeOK
  OBVIOUS
<1>1. EmptyDb \in Databases
  BY DEF EmptyDb, Databases
<1>2. <<>> \in Seq(Statements)
  BY EmptySeq
<1> QED BY <1>1, <1>2 DEF Init, TypeOK

\* The statements of a hierarchy on their way into the stack of work.
LEMMA ForestTypes ==
    ASSUME NEW f \in Forests, NEW p \in Depts \cup {Root}
    PROVE  f.kids[p] \in Seq(Depts) /\ Elements(f.kids[p]) \subseteq Depts
<1>1. f.kids[p] \in Seq(Depts)
  BY DbAssumption
<1>2. \A i \in DOMAIN f.kids[p] : f.kids[p][i] \in Depts
  BY <1>1
<1> QED BY <1>1, <1>2 DEF Elements

\* What StoreDepartmentName finds at the head of the stack, and what it leaves there.
LEMMA VisitedDepartment ==
    ASSUME TypeOK, call # None, NextStatementIs("visit")
    PROVE  /\ work # <<>> /\ work \in Seq(Statements) /\ Tail(work) \in Seq(Statements)
           /\ call.forest \in Forests /\ call.locale \in Locales
           /\ Head(work).dept \in Depts
           /\ Head(work) = VisitOf(Head(work).dept)
           /\ call.forest.kids[Head(work).dept] \in Seq(Depts)
<1>1. work # <<>> /\ work \in Seq(Statements) /\ Tail(work) \in Seq(Statements)
  BY DEF NextStatementIs, TypeOK
<1>2. Head(work) \in Statements
  BY <1>1
<1>3. call.forest \in Forests /\ call.locale \in Locales
  BY DEF TypeOK, Stores
<1>4. Head(work).dept \in Depts /\ Head(work) = VisitOf(Head(work).dept)
  BY <1>2 DEF NextStatementIs, Statements, VisitOf
<1>5. call.forest.kids[Head(work).dept] \in Seq(Depts)
  BY <1>3, <1>4, ForestTypes
<1> QED BY <1>1, <1>3, <1>4, <1>5

LEMMA MappedDepartment ==
    ASSUME TypeOK, NextStatementIs("map")
    PROVE  /\ work # <<>> /\ work \in Seq(Statements) /\ Tail(work) \in Seq(Statements)
           /\ Head(work).dept \in Depts /\ Head(work).parent \in Depts \cup {Root}
           /\ Head(work) = MapOf(Head(work).dept, Head(work).parent)
<1>1. work # <<>> /\ work \in Seq(Statements) /\ Tail(work) \in Seq(Statements)
  BY DEF NextStatementIs, TypeOK
<1>2. Head(work) \in Statements
  BY <1>1
<1> QED BY <1>1, <1>2 DEF NextStatementIs, Statements, MapOf

\* Every step keeps the types.
LEMMA NextTypes == TypeOK /\ IdleInv /\ [Next]_vars => TypeOK'
<1> SUFFICES ASSUME TypeOK, IdleInv, [Next]_vars
             PROVE  TypeOK'
  OBVIOUS
<1>1. ASSUME NEW f \in Forests, NEW l \in Locales, StoreDepartments(f, l)
      PROVE  TypeOK'
  <2>1. work' \in Seq(Statements)
    BY <1>1, ForestTypes, ListOfMaps, ListOfVisits DEF StoreDepartments
  <2>2. call' \in Stores
    BY <1>1 DEF StoreDepartments, Stores
  <2>3. view' \in Databases
    BY <1>1 DEF StoreDepartments, TypeOK, Databases
  <2> QED BY <1>1, <2>1, <2>2, <2>3 DEF StoreDepartments, TypeOK
<1>2. CASE StoreDepartmentMapping
  <2>1. Tail(work) \in Seq(Statements) /\ <<Head(work).dept, Head(work).parent>> \in Edges
    BY <1>2, MappedDepartment DEF StoreDepartmentMapping, Edges
  <2>2. view' \in Databases
    BY <1>2, <2>1 DEF StoreDepartmentMapping, TypeOK, Databases
  <2> QED BY <1>2, <2>1, <2>2 DEF StoreDepartmentMapping, TypeOK
<1>3. CASE StoreDepartmentName
  <2>1. call # None /\ NextStatementIs("visit")
    BY <1>3 DEF StoreDepartmentName, NextStatementIs, IdleInv
  <2> DEFINE d == Head(work).dept
  <2>2. /\ Tail(work) \in Seq(Statements) /\ d \in Depts /\ call.locale \in Locales
        /\ call.forest.kids[d] \in Seq(Depts)
    BY <2>1, VisitedDepartment
  <2>3. MapAll(call.forest.kids[d], d) \in Seq(Statements) /\ VisitAll(call.forest.kids[d]) \in Seq(Statements)
    BY <2>2, ListOfMaps, ListOfVisits
  <2>4. work' \in Seq(Statements)
    <3>1. work' = MapAll(call.forest.kids[d], d) \o VisitAll(call.forest.kids[d]) \o Tail(work)
      BY <1>3 DEF StoreDepartmentName
    <3>2. MapAll(call.forest.kids[d], d) \o VisitAll(call.forest.kids[d]) \in Seq(Statements)
      BY ONLY <2>3, ConcatProperties
    <3> QED BY ONLY <2>2, <3>1, <3>2, ConcatProperties
  <2>5. <<d, call.locale>> \in Depts \X Locales
    BY <2>2
  <2>6. view' = [view EXCEPT !.names = @ \cup {<<d, call.locale>>}]
    BY <1>3 DEF StoreDepartmentName
  <2> HIDE DEF d
  <2>7. view' \in Databases
    BY <2>5, <2>6 DEF TypeOK, Databases
  <2> USE DEF d
  <2> QED BY <1>3, <2>4, <2>7 DEF StoreDepartmentName, TypeOK
<1>4. ASSUME NEW p \in Pkgs, NEW d \in Depts, NEW deleted \in BOOLEAN, StorePackageMapping(p, d, deleted)
      PROVE  TypeOK'
  <2>1. view' \in Databases
    BY <1>4 DEF StorePackageMapping, TypeOK, Databases
  <2> QED BY <1>4, <2>1 DEF StorePackageMapping, TypeOK
<1>5. CASE \/ StoreDepartmentsRefused \/ StatementThrows \/ CommitDepartments \/ CommitDepartmentsFails
           \/ StorePackageMappingFails \/ StorePackageMappingRejects \/ Crash \/ UNCHANGED vars
  BY <1>5, EmptySeq
  DEF StoreDepartmentsRefused, StatementThrows, CommitDepartments, CommitDepartmentsFails,
      StorePackageMappingFails, StorePackageMappingRejects, Crash, vars, TypeOK
<1> QED BY <1>1, <1>2, <1>3, <1>4, <1>5 DEF Next

\* Every step keeps what holds between two calls.
LEMMA NextIdle == IdleInv /\ [Next]_vars => IdleInv'
<1> SUFFICES ASSUME IdleInv, [Next]_vars
             PROVE  IdleInv'
  OBVIOUS
<1>1. ASSUME NEW f \in Forests, NEW l \in Locales, StoreDepartments(f, l)
      PROVE  IdleInv'
  <2>1. call' # None
    BY <1>1, DbAssumption DEF StoreDepartments, Stores
  <2> QED BY <2>1 DEF IdleInv
<1>2. CASE StoreDepartmentMapping \/ StoreDepartmentName
  BY <1>2 DEF StoreDepartmentMapping, StoreDepartmentName, NextStatementIs, IdleInv
<1>3. ASSUME NEW p \in Pkgs, NEW d \in Depts, NEW deleted \in BOOLEAN, StorePackageMapping(p, d, deleted)
      PROVE  IdleInv'
  BY <1>3 DEF StorePackageMapping, Idle, IdleInv
<1>4. CASE \/ StoreDepartmentsRefused \/ StatementThrows \/ CommitDepartments \/ CommitDepartmentsFails
           \/ StorePackageMappingFails \/ StorePackageMappingRejects \/ Crash \/ UNCHANGED vars
  BY <1>4 DEF StoreDepartmentsRefused, StatementThrows, CommitDepartments, CommitDepartmentsFails,
              StorePackageMappingFails, StorePackageMappingRejects, Crash, vars, IdleInv, Idle
<1> QED BY <1>1, <1>2, <1>3, <1>4 DEF Next

-----------------------------------------------------------------------------
\* A row is inserted: it was planned before.
LEMMA MappingKeepsPlan ==
    ASSUME TypeOK, StoreDepartmentMapping, NEW d \in Depts, NEW p \in Depts \cup {Root}
    PROVE  (Planned(d, p)' <=> Planned(d, p)) /\ (ToVisit(d)' <=> ToVisit(d))
<1> DEFINE h == Head(work)
<1>1. /\ work # <<>> /\ work \in Seq(Statements)
      /\ h.dept \in Depts /\ h.parent \in Depts \cup {Root} /\ h = MapOf(h.dept, h.parent)
  BY MappedDepartment DEF StoreDepartmentMapping
<1>2. work' = Tail(work) /\ view'.depts = view.depts \cup {<<h.dept, h.parent>>}
  BY DEF StoreDepartmentMapping, TypeOK, Databases
<1>3. \A x : Occurs(x, work) <=> x = h \/ Occurs(x, work')
  BY <1>1, <1>2, OccursHeadTail
<1>4. MapOf(d, p) = h <=> <<d, p>> = <<h.dept, h.parent>>
  BY <1>1 DEF MapOf
<1>5. VisitOf(d) # h
  BY <1>1 DEF VisitOf, MapOf
<1> HIDE DEF h
<1> QED BY <1>2, <1>3, <1>4, <1>5 DEF Planned, ToVisit

\* A department is visited: its sub-departments are planned, and visits to them.
LEMMA VisitExtendsPlan ==
    ASSUME TypeOK, call # None, StoreDepartmentName
    PROVE  LET h == Head(work).dept
           IN  /\ h \in Depts /\ ToVisit(h)
               /\ Kids(h) \subseteq Depts
               /\ <<h, call.locale>> \in view'.names /\ view.names \subseteq view'.names
               /\ \A d \in Depts, p \in Depts \cup {Root} :
                     Planned(d, p)' <=> Planned(d, p) \/ (d \in Kids(h) /\ p = h)
               /\ \A d \in Depts :
                     /\ ToVisit(d)' => d \in Kids(h) \/ ToVisit(d)
                     /\ (ToVisit(d) /\ d # h) \/ d \in Kids(h) => ToVisit(d)'
<1> DEFINE h == Head(work).dept
           subs == call.forest.kids[h]
<1>1. /\ work # <<>> /\ work \in Seq(Statements) /\ Tail(work) \in Seq(Statements)
      /\ h \in Depts /\ Head(work) = VisitOf(h) /\ call.forest \in Forests
      /\ subs \in Seq(Depts)
  BY VisitedDepartment DEF StoreDepartmentName
<1>2. /\ work' = MapAll(subs, h) \o VisitAll(subs) \o Tail(work)
      /\ view' = [view EXCEPT !.names = @ \cup {<<h, call.locale>>}]
  BY DEF StoreDepartmentName
<1>3. view'.depts = view.depts /\ view'.names = view.names \cup {<<h, call.locale>>}
  BY <1>2 DEF TypeOK, Databases
<1>4. Kids(h) \subseteq Depts /\ Kids(h) = Elements(subs)
  BY <1>1, ForestTypes DEF Kids
<1> HIDE DEF h, subs
<1>5. /\ MapAll(subs, h) \in Seq(Statements) /\ VisitAll(subs) \in Seq(Statements)
      /\ MapAll(subs, h) \o VisitAll(subs) \in Seq(Statements)
  BY <1>1, ListOfMaps, ListOfVisits, ConcatProperties
<1>6. \A x : Occurs(x, work') <=>
                 Occurs(x, MapAll(subs, h)) \/ Occurs(x, VisitAll(subs)) \/ Occurs(x, Tail(work))
  BY <1>1, <1>2, <1>5, OccursConcat
<1>7. \A x : Occurs(x, work) <=> x = VisitOf(h) \/ Occurs(x, Tail(work))
  BY <1>1, OccursHeadTail
<1>8. \A d, p : MapOf(d, p) # VisitOf(h) /\ (VisitOf(d) = VisitOf(h) <=> d = h)
  BY DEF MapOf, VisitOf
<1>9. \A d \in Depts, p \in Depts \cup {Root} :
          Planned(d, p)' <=> Planned(d, p) \/ (d \in Kids(h) /\ p = h)
  BY <1>1, <1>3, <1>4, <1>6, <1>7, <1>8, ListOfMaps, ListOfVisits DEF Planned
<1>10. \A d \in Depts :
          /\ ToVisit(d)' => d \in Kids(h) \/ ToVisit(d)
          /\ (ToVisit(d) /\ d # h) \/ d \in Kids(h) => ToVisit(d)'
  <2>1. \A d : ToVisit(d) <=> d = h \/ Occurs(VisitOf(d), Tail(work))
    BY <1>7, <1>8 DEF ToVisit
  <2>2. \A d : ~Occurs(VisitOf(d), MapAll(subs, h)) /\ (Occurs(VisitOf(d), VisitAll(subs)) <=> d \in Kids(h))
    BY <1>1, <1>4, ListOfMaps, ListOfVisits
  <2>3. \A d : ToVisit(d)' <=> d \in Kids(h) \/ Occurs(VisitOf(d), Tail(work))
    BY <1>6, <2>2 DEF ToVisit
  <2> QED BY <2>1, <2>3
<1>11. ToVisit(h)
  BY <1>7 DEF ToVisit
<1> QED BY <1>1, <1>3, <1>4, <1>9, <1>10, <1>11 DEF h

\* What a call starts with: the top level is planned, and visits to it.
LEMMA FirstPlan ==
    ASSUME TypeOK, NEW f \in Forests, NEW l \in Locales, StoreDepartments(f, l)
    PROVE  /\ call'.forest = f /\ call'.locale = l
           /\ Elements(f.kids[Root]) \subseteq Depts
           /\ \A d \in Depts, p \in Depts \cup {Root} :
                 Planned(d, p)' <=> d \in Elements(f.kids[Root]) /\ p = Root
           /\ \A d \in Depts : ToVisit(d)' <=> d \in Elements(f.kids[Root])
<1> DEFINE top == f.kids[Root]
<1>1. top \in Seq(Depts) /\ Elements(top) \subseteq Depts
  BY ForestTypes
<1>2. call'.forest = f /\ call'.locale = l /\ work' = MapAll(top, Root) \o VisitAll(top)
  BY DEF StoreDepartments
<1>3. view'.depts = {}
  BY DEF StoreDepartments, TypeOK, Databases
<1> HIDE DEF top
<1>4. MapAll(top, Root) \in Seq(Statements) /\ VisitAll(top) \in Seq(Statements)
  BY <1>1, ListOfMaps, ListOfVisits
<1>5. \A x : Occurs(x, work') <=> Occurs(x, MapAll(top, Root)) \/ Occurs(x, VisitAll(top))
  BY <1>2, <1>4, OccursConcat
<1>6. \A d \in Depts, p \in Depts \cup {Root} : Planned(d, p)' <=> d \in Elements(top) /\ p = Root
  BY <1>1, <1>3, <1>5, ListOfMaps, ListOfVisits DEF Planned
<1>7. \A d \in Depts : ToVisit(d)' <=> d \in Elements(top)
  BY <1>1, <1>5, ListOfMaps, ListOfVisits DEF ToVisit
<1> QED BY <1>1, <1>2, <1>6, <1>7 DEF top

\* Every step keeps the plan of the hierarchy being stored.
LEMMA NextStoreInv == TypeOK /\ IdleInv /\ StoreInv /\ [Next]_vars => StoreInv'
<1> SUFFICES ASSUME TypeOK, IdleInv, StoreInv, [Next]_vars
             PROVE  StoreInv'
  OBVIOUS
<1>1. ASSUME NEW f \in Forests, NEW l \in Locales, StoreDepartments(f, l)
      PROVE  StoreInv'
  <2> DEFINE top == Elements(f.kids[Root])
  <2>1. /\ top \subseteq Depts
        /\ \A d \in Depts, p \in Depts \cup {Root} : Planned(d, p)' <=> d \in top /\ p = Root
        /\ \A d \in Depts : ToVisit(d)' <=> d \in top
    BY <1>1, FirstPlan
  <2>2. Kids(Root)' = top
    BY <1>1, FirstPlan DEF Kids
  <2> HIDE DEF top
  <2>3. PlansTree'
    BY <2>1, <2>2 DEF PlansTree
  <2>4. PlansKids' /\ PlansNames'
    BY <2>1 DEF PlansKids, PlansNames
  <2>5. PlansParents'
    BY <2>1, DbAssumption DEF PlansParents
  <2> QED BY <2>3, <2>4, <2>5 DEF StoreInv
<1>2. CASE StoreDepartmentMapping
  <2>1. call' = call /\ view'.names = view.names
    BY <1>2 DEF StoreDepartmentMapping, TypeOK, Databases
  <2>2. call # None => call.forest \in Forests
    BY DEF TypeOK, Stores
  <2>3. \A p \in Depts \cup {Root} : Kids(p)' = Kids(p) /\ (call # None => Kids(p) \subseteq Depts)
    BY <2>1, <2>2, ForestTypes DEF Kids
  <2>4. \A d \in Depts, p \in Depts \cup {Root} : Planned(d, p)' <=> Planned(d, p)
    BY <1>2, MappingKeepsPlan
  <2>5. \A d \in Depts : ToVisit(d)' <=> ToVisit(d)
    BY <1>2, MappingKeepsPlan
  <2> SUFFICES ASSUME call # None PROVE PlansTree' /\ PlansKids' /\ PlansNames' /\ PlansParents'
    BY <2>1 DEF StoreInv
  <2>6. PlansTree'
    BY <2>3, <2>4 DEF StoreInv, PlansTree
  <2>7. PlansKids'
    BY <2>3, <2>4, <2>5 DEF StoreInv, PlansKids
  <2>8. PlansNames'
    BY <2>1, <2>4, <2>5 DEF StoreInv, PlansNames
  <2>9. PlansParents'
    BY <2>4, <2>5 DEF StoreInv, PlansParents
  <2> QED BY <2>6, <2>7, <2>8, <2>9
<1>3. CASE StoreDepartmentName
  <2> DEFINE h == Head(work).dept
  <2>1. call' = call /\ call # None
    BY <1>3 DEF StoreDepartmentName, NextStatementIs, IdleInv
  <2>2. call.forest \in Forests
    BY <2>1 DEF TypeOK, Stores
  <2>3. \A p \in Depts \cup {Root} : Kids(p)' = Kids(p) /\ Kids(p) \subseteq Depts
    BY <2>1, <2>2, ForestTypes DEF Kids
  <2>4. /\ h \in Depts /\ ToVisit(h)
        /\ <<h, call.locale>> \in view'.names /\ view.names \subseteq view'.names
    BY <1>3, <2>1, VisitExtendsPlan
  <2>5. \A d \in Depts, p \in Depts \cup {Root} :
            Planned(d, p)' <=> Planned(d, p) \/ (d \in Kids(h) /\ p = h)
    BY <1>3, <2>1, VisitExtendsPlan
  <2>6. \A d \in Depts :
            /\ ToVisit(d)' => d \in Kids(h) \/ ToVisit(d)
            /\ (ToVisit(d) /\ d # h) \/ d \in Kids(h) => ToVisit(d)'
    BY <1>3, <2>1, VisitExtendsPlan
  <2> HIDE DEF h
  <2>7. PlansTree'
    BY <2>1, <2>3, <2>4, <2>5 DEF StoreInv, PlansTree
  <2>8. PlansKids'
    BY <2>1, <2>3, <2>4, <2>5, <2>6 DEF StoreInv, PlansKids
  <2>9. PlansNames'
    BY <2>1, <2>4, <2>5, <2>6 DEF StoreInv, PlansNames
  <2>10. PlansParents'
    BY <2>1, <2>4, <2>5, <2>6 DEF StoreInv, PlansParents
  <2> QED BY <2>7, <2>8, <2>9, <2>10 DEF StoreInv
<1>4. CASE \/ StoreDepartmentsRefused \/ StatementThrows \/ CommitDepartments \/ CommitDepartmentsFails
           \/ (\E p \in Pkgs, d \in Depts, deleted \in BOOLEAN : StorePackageMapping(p, d, deleted))
           \/ StorePackageMappingFails \/ StorePackageMappingRejects \/ Crash
  <2>1. call' = None
    BY <1>4
    DEF StoreDepartmentsRefused, StatementThrows, CommitDepartments, CommitDepartmentsFails, Idle,
        StorePackageMapping, StorePackageMappingFails, StorePackageMappingRejects, Crash
  <2> QED BY <2>1 DEF StoreInv
<1>5. CASE UNCHANGED vars
  BY <1>5 DEF vars, StoreInv, PlansTree, PlansKids, PlansNames, PlansParents, Planned, ToVisit, Kids
<1> QED BY <1>1, <1>2, <1>3, <1>4, <1>5 DEF Next

-----------------------------------------------------------------------------
\* With no work left, the plan is what is stored.
LEMMA NothingLeft ==
    ASSUME TypeOK, StoreInv, call # None, work = <<>>
    PROVE  /\ Whole(view.depts, call.forest)
           /\ \A d \in Mapped(view.depts) : <<d, call.locale>> \in view.names
           /\ \A e \in view.depts : e[2] # Root => e[2] \in Mapped(view.depts)
<1>1. \A x : ~Occurs(x, work)
  BY DEF Occurs
<1>2. \A d, p : Planned(d, p) <=> <<d, p>> \in view.depts
  BY <1>1 DEF Planned
<1>3. \A d : ~ToVisit(d)
  BY <1>1 DEF ToVisit
<1>4. view.depts \subseteq Depts \X (Depts \cup {Root})
  BY DEF TypeOK, Databases, Edges
<1>5. \A e \in view.depts : e = <<e[1], e[2]>> /\ e[1] \in Depts /\ e[2] \in Depts \cup {Root}
  BY <1>4
<1>6. \A d : d \in Mapped(view.depts) <=> \E e \in view.depts : d = e[1]
  BY DEF Mapped
<1>7. Whole(view.depts, call.forest)
  <2>1. \A e \in view.depts : e[1] \in Kids(e[2])
    BY <1>2, <1>5 DEF StoreInv, PlansTree
  <2>2. \A d \in Kids(Root) : <<d, Root>> \in view.depts
    BY <1>2 DEF StoreInv, PlansTree
  <2>3. \A d \in Mapped(view.depts) : \A k \in Kids(d) : <<k, d>> \in view.depts
    BY <1>2, <1>3, <1>5, <1>6 DEF StoreInv, PlansKids
  <2> QED BY <2>1, <2>2, <2>3 DEF Whole, Kids
<1>8. \A d \in Mapped(view.depts) : <<d, call.locale>> \in view.names
  BY <1>2, <1>3, <1>5, <1>6 DEF StoreInv, PlansNames
<1>9. \A e \in view.depts : e[2] # Root => e[2] \in Mapped(view.depts)
  <2>1. PlansParents
    BY DEF StoreInv
  <2> SUFFICES ASSUME NEW e \in view.depts, e[2] # Root
               PROVE  e[2] \in Mapped(view.depts)
    OBVIOUS
  <2>2. e[1] \in Depts /\ e[2] \in Depts /\ Planned(e[1], e[2])
    BY <1>2, <1>5
  <2>3. PICK p \in Depts \cup {Root} : Planned(e[2], p)
    BY <2>1, <2>2 DEF PlansParents
  <2>4. <<e[2], p>> \in view.depts /\ <<e[2], p>>[1] = e[2]
    BY <1>2, <2>3
  <2> QED BY <1>6, <2>4
<1> QED BY <1>7, <1>8, <1>9

\* What other connections read is changed by a commit of the whole hierarchy.
DiskInv == TreeIsWhole /\ TreeIsNamed /\ ParentsAreKnown

LEMMA NextDisk == IInv /\ [Next]_vars => DiskInv'
<1> SUFFICES ASSUME IInv, [Next]_vars
             PROVE  DiskInv'
  OBVIOUS
<1>1. CASE CommitDepartments
  <2>1. call \in Stores /\ call # None /\ disk' = view /\ stored' = call
    BY <1>1 DEF CommitDepartments, IInv, TypeOK
  <2>2. /\ Whole(disk'.depts, stored'.forest)
        /\ \A d \in Mapped(disk'.depts) : <<d, stored'.locale>> \in disk'.names
        /\ \A e \in disk'.depts : e[2] # Root => e[2] \in Mapped(disk'.depts)
    BY <1>1, <2>1, NothingLeft DEF CommitDepartments, IInv
  <2> QED BY <2>1, <2>2 DEF DiskInv, TreeIsWhole, TreeIsNamed, ParentsAreKnown
<1>2. ASSUME NEW p \in Pkgs, NEW d \in Depts, NEW deleted \in BOOLEAN, StorePackageMapping(p, d, deleted)
      PROVE  DiskInv'
  <2>1. disk'.depts = view.depts /\ disk'.names = view.names /\ UNCHANGED <<failed, stored>>
    BY <1>2 DEF StorePackageMapping, IInv, TypeOK, Databases
  <2>2. ~failed => view = disk
    BY <1>2 DEF StorePackageMapping, Idle, IInv, IdleInv
  <2> QED BY <2>1, <2>2 DEF DiskInv, TreeIsWhole, TreeIsNamed, ParentsAreKnown, IInv
<1>3. ASSUME NEW f \in Forests, NEW l \in Locales, StoreDepartments(f, l)
      PROVE  DiskInv'
  BY <1>3 DEF StoreDepartments, IInv, DiskInv, TreeIsWhole, TreeIsNamed, ParentsAreKnown
<1>4. CASE \/ StoreDepartmentMapping \/ StoreDepartmentName \/ Crash \/ UNCHANGED vars
  BY <1>4 DEF StoreDepartmentMapping, StoreDepartmentName, Crash, vars,
              IInv, DiskInv, TreeIsWhole, TreeIsNamed, ParentsAreKnown
<1>5. CASE \/ StoreDepartmentsRefused \/ StatementThrows \/ CommitDepartmentsFails
           \/ StorePackageMappingFails \/ StorePackageMappingRejects
  <2>1. failed'
    BY <1>5 DEF StoreDepartmentsRefused, StatementThrows, CommitDepartmentsFails,
                StorePackageMappingFails, StorePackageMappingRejects
  <2> QED BY <2>1 DEF DiskInv, TreeIsWhole, TreeIsNamed, ParentsAreKnown
<1> QED BY <1>1, <1>2, <1>3, <1>4, <1>5 DEF Next

\* The new database is empty.
LEMMA InitIInv == Init => IInv
<1> SUFFICES ASSUME Init PROVE IInv
  OBVIOUS
<1>1. disk.depts = {} /\ Mapped({}) = {}
  BY DEF Init, EmptyDb, Mapped
<1>2. TreeIsWhole /\ TreeIsNamed /\ ParentsAreKnown
  BY <1>1 DEF Init, TreeIsWhole, TreeIsNamed, ParentsAreKnown
<1> QED BY <1>2, InitTypes DEF Init, IInv, IdleInv, StoreInv

\* The invariant holds in every reachable state.
THEOREM Invariance == Spec => []IInv
<1>1. IInv /\ [Next]_vars => IInv'
  BY NextTypes, NextIdle, NextStoreInv, NextDisk DEF IInv, DiskInv
<1> QED BY <1>1, InitIInv, PTL DEF Spec

\* The variables of DepartmentsDb keep their types, for any hierarchies.
THEOREM TypeCorrect == Spec => []TypeOK
  BY Invariance, PTL DEF IInv

\* However the process is stopped, other connections read the whole hierarchy
\* last stored, as long as no exception has reached a caller (store_departments).
THEOREM OnlyWholeTrees == Spec => []TreeIsWhole
  BY Invariance, PTL DEF IInv

\* ... every department in it has a name in the locale last stored ...
THEOREM TreesAreNamed == Spec => []TreeIsNamed
  BY Invariance, PTL DEF IInv

\* ... and its parents have rows up to the root (get_parent_department_id).
THEOREM ParentsStayKnown == Spec => []ParentsAreKnown
  BY Invariance, PTL DEF IInv

\* store_package_mapping() publishes no part of a hierarchy being stored.
THEOREM MappingsPublishNoTree == Spec => OnlyStoresPublishTrees
<1>1. IInv /\ [Next]_vars => (disk'.depts # disk.depts => failed \/ (call # None /\ stored' = call))
  <2> SUFFICES ASSUME IInv, [Next]_vars, disk'.depts # disk.depts
               PROVE  failed \/ (call # None /\ stored' = call)
    OBVIOUS
  <2>1. CommitDepartments \/ \E p \in Pkgs, d \in Depts, deleted \in BOOLEAN : StorePackageMapping(p, d, deleted)
    BY DEF Next, vars, StoreDepartments, StoreDepartmentsRefused, StatementThrows, CommitDepartmentsFails,
           StoreDepartmentMapping, StoreDepartmentName, StorePackageMappingFails,
           StorePackageMappingRejects, Crash
  <2>2. ASSUME NEW p \in Pkgs, NEW d \in Depts, NEW deleted \in BOOLEAN, StorePackageMapping(p, d, deleted)
        PROVE  failed
    BY <2>2 DEF StorePackageMapping, Idle, IInv, IdleInv, TypeOK, Databases
  <2> QED BY <2>1, <2>2 DEF CommitDepartments
<1> QED BY <1>1, Invariance, PTL DEF Spec, OnlyStoresPublishTrees

=============================================================================
