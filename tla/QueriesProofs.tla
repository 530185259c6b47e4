---------------------------- MODULE QueriesProofs ----------------------------
(***************************************************************************)
(* The recursive SELECTs of DepartmentsQueries, for every database: what   *)
(* they return is the smallest set with the departments they start from    *)
(* and, with a department, its children.                                   *)
(*                                                                         *)
(* The induction theorems of the library take an operator as a parameter   *)
(* and cannot be used; the least element of a set of naturals serves       *)
(* instead, for the set of the numbers a fact fails for.                   *)
(***************************************************************************)
EXTENDS DepartmentsQueries, Integers, FiniteSetTheorems, WellFoundedInduction, TLAPS

-----------------------------------------------------------------------------
(* Natural numbers.                                                        *)

LEMMA LeastNatural ==
    ASSUME NEW S, S \subseteq Nat, S # {}
    PROVE  \E least \in S : \A n \in S : least <= n
<1> DEFINE R == OpToRel(<, Nat)
<1>1. \A n, m \in Nat : n < m => <<n, m>> \in R
  BY DEF OpToRel
<1>2. IsWellFoundedOn(R, Nat)
  BY NatLessThanWellFounded
<1> HIDE DEF R
<1>3. PICK least \in S : \A n \in S : ~(<<n, least>> \in R)
  BY <1>2, WFMin
<1>4. \A n \in S : ~(n < least)
  BY <1>1, <1>3
<1> QED
  BY <1>4

LEMMA GreatestNatural ==
    ASSUME NEW S, S \subseteq Nat, S # {}, NEW bound \in Nat, \A n \in S : n <= bound
    PROVE  \E greatest \in S : \A n \in S : n <= greatest
<1> DEFINE U == {bound - n : n \in S}
<1>1. \A n \in S : n \in Nat /\ n <= bound /\ bound - n \in Nat
  OBVIOUS
<1>2. U \subseteq Nat /\ U # {}
  BY <1>1
<1>3. PICK least \in U : \A n \in U : least <= n
  BY <1>2, LeastNatural
<1>4. PICK greatest \in S : least = bound - greatest
  OBVIOUS
<1>5. \A n \in S : bound - greatest <= bound - n
  BY <1>3, <1>4
<1> QED
  BY <1>1, <1>5

\* What holds of 0 and is passed on from k to k + 1 up to n holds up to n.
LEMMA Induction ==
    ASSUME NEW n \in Nat, NEW S, 0 \in S, \A k \in 0..n : (k \in S /\ k # n) => k + 1 \in S
    PROVE  0..n \subseteq S
<1> DEFINE Failing == (0..n) \ S
<1> SUFFICES ASSUME Failing # {} PROVE FALSE
  OBVIOUS
<1>1. Failing \subseteq Nat
  OBVIOUS
<1>2. PICK k \in Failing : \A m \in Failing : k <= m
  BY <1>1, LeastNatural
<1>3. k # 0 /\ k - 1 \in 0..n /\ k - 1 \in S
  BY <1>2
<1> QED
  BY <1>2, <1>3

\* f is defined by recursion on the numbers up to n, and such an f exists.
Iterates(f, start, step, n) == f[0] = start /\ \A k \in 1..n : f[k] = step[<<k, f[k - 1]>>]

LEMMA IteratedFunction ==
    ASSUME NEW S, NEW start \in S, NEW step \in [Nat \X S -> S], NEW n \in Nat
    PROVE  \E f \in [0..n -> S] : Iterates(f, start, step, n)
<1> DEFINE Defines(f, m) == Iterates(f, start, step, m)
           Defined == {m \in Nat : \E f \in [0..m -> S] : Defines(f, m)}
<1>1. 0 \in Defined
  <2> DEFINE f == [k \in 0..0 |-> start]
  <2>1. f \in [0..0 -> S] /\ Defines(f, 0)
    BY DEF Iterates
  <2> QED
    BY <2>1
<1>2. ASSUME NEW m \in Nat, m \in Defined PROVE m + 1 \in Defined
  <2>1. PICK f \in [0..m -> S] : Defines(f, m)
    BY <1>2
  <2> DEFINE g == [k \in 0..(m + 1) |-> IF k = m + 1 THEN step[<<m + 1, f[m]>>] ELSE f[k]]
  <2>2. g \in [0..(m + 1) -> S]
    OBVIOUS
  <2>3. g[0] = start
    BY <2>1 DEF Iterates
  <2>4. ASSUME NEW k \in 1..(m + 1) PROVE g[k] = step[<<k, g[k - 1]>>]
    <3>1. CASE k = m + 1
      <4>1. k - 1 = m /\ m \in 0..(m + 1) /\ m # m + 1
        BY <3>1
      <4>2. g[m] = f[m]
        BY <4>1
      <4> QED
        BY <3>1, <4>1, <4>2
    <3>2. CASE k # m + 1
      BY <2>1, <3>2 DEF Iterates
    <3> QED
      BY <3>1, <3>2
  <2>5. Defines(g, m + 1)
    BY <2>3, <2>4 DEF Iterates
  <2> HIDE DEF g, Defines
  <2> QED
    BY <2>2, <2>5
<1> HIDE DEF Defined
<1>3. 0..n \subseteq Defined
  BY <1>1, <1>2, Induction
<1> QED
  BY <1>3 DEF Defined

-----------------------------------------------------------------------------
(* The recursive SELECT.                                                   *)

Step(db, rows) == rows \cup UNION {Children(db, d) : d \in rows}

\* The row sets computed one after the other.
LEMMA RowSets ==
    ASSUME NEW db, NEW start, NEW n \in Nat, n = Cardinality(db.depts)
    PROVE  \E f : /\ f[0] = start
                  /\ \A k \in 1..n : f[k] = Step(db, f[k - 1])
                  /\ Recursive(db, start) = f[n]
<1> DEFINE Ids == {e[1] : e \in db.depts}
           All == SUBSET (start \cup Ids)
           step == [x \in Nat \X All |-> Step(db, x[2])]
           rec[m \in 0..Cardinality(db.depts)] ==
               IF m = 0 THEN start
               ELSE rec[m - 1] \cup UNION {Children(db, d) : d \in rec[m - 1]}
           Is(f) == f = [m \in 0..Cardinality(db.depts) |->
                           IF m = 0 THEN start
                           ELSE f[m - 1] \cup UNION {Children(db, d) : d \in f[m - 1]}]
<1>1. \A rows \in All : Step(db, rows) \in All
  BY DEF Step, Children
<1>2. step \in [Nat \X All -> All]
  BY <1>1
<1>3. start \in All /\ \A k \in 1..n, rows \in All : step[<<k, rows>>] = Step(db, rows)
  OBVIOUS
<1> HIDE DEF All, step
<1>4. PICK f \in [0..n -> All] : Iterates(f, start, step, n)
  BY <1>2, <1>3, IteratedFunction
<1>5. f[0] = start /\ \A k \in 1..n : f[k] = Step(db, f[k - 1])
  <2>1. \A k \in 1..n : k - 1 \in 0..n
    OBVIOUS
  <2> QED
    BY <1>3, <1>4, <2>1 DEF Iterates
<1>6. Is(f)
  BY <1>4, <1>5 DEF Step
<1>7. Is(rec)
  BY <1>6
<1> HIDE DEF rec
<1>8. rec[0] = start /\ \A k \in 1..n : rec[k] = Step(db, rec[k - 1])
  <2>1. rec[0] = start
    BY <1>7
  <2>2. ASSUME NEW k \in 1..n PROVE rec[k] = Step(db, rec[k - 1])
    <3>1. k \in 0..n /\ k # 0
      OBVIOUS
    <3> QED
      BY <1>7, <3>1 DEF Step
  <2> QED
    BY <2>1, <2>2
<1>9. Recursive(db, start) = rec[n]
  BY DEF Recursive, rec
<1> QED
  BY <1>8, <1>9

Closed(db, S) == \A d \in S : Children(db, d) \subseteq S

\* The ids that have a row.
Ids(db) == {e[1] : e \in db.depts}

LEMMA FiniteIds ==
    ASSUME NEW db, IsFiniteSet(db.depts)
    PROVE  IsFiniteSet(Ids(db)) /\ Cardinality(Ids(db)) <= Cardinality(db.depts)
<1> DEFINE id == [e \in db.depts |-> e[1]]
<1>1. id \in Surjection(db.depts, Ids(db))
  BY DEF Surjection, Ids
<1> HIDE DEF id
<1> QED
  BY <1>1, FS_Surjection

\* A row set that is not closed yet has at least as many new ids as steps were
\* made; with as many as there are rows it has them all.
LEMMA RowSetsGrow ==
    ASSUME NEW db, IsFiniteSet(db.depts), NEW start, NEW n \in Nat, n = Cardinality(db.depts), NEW f,
           f[0] = start, \A k \in 1..n : f[k] = Step(db, f[k - 1])
    PROVE  Closed(db, f[n])
<1> DEFINE New(k) == f[k] \ start
           Grown == {k \in 0..n : /\ start \subseteq f[k] /\ New(k) \subseteq Ids(db)
                                  /\ Closed(db, f[k]) \/ Cardinality(New(k)) >= k}
<1>1. IsFiniteSet(Ids(db)) /\ Cardinality(Ids(db)) \in Nat /\ Cardinality(Ids(db)) <= n
  BY FiniteIds, FS_CardinalityType
<1>2. 0 \in Grown
  <2>1. New(0) = {}
    OBVIOUS
  <2> QED
    BY <2>1, FS_EmptySet
<1>3. ASSUME NEW k \in 0..n, k \in Grown, k # n PROVE k + 1 \in Grown
  <2>1. f[k + 1] = Step(db, f[k])
    <3>1. k + 1 \in 1..n /\ (k + 1) - 1 = k
      BY <1>3
    <3> QED
      BY <3>1
  <2>2. \A d : Children(db, d) \subseteq Ids(db)
    BY DEF Children, Ids
  <2>3. start \subseteq f[k + 1] /\ New(k + 1) \subseteq Ids(db)
    BY <1>3, <2>1, <2>2 DEF Step
  <2>4. CASE Closed(db, f[k])
    <3>1. f[k + 1] = f[k]
      BY <2>1, <2>4 DEF Step, Closed
    <3> QED
      BY <1>3, <2>3, <2>4, <3>1
  <2>5. CASE ~Closed(db, f[k])
    <3>1. PICK c : c \notin f[k] /\ \E d \in f[k] : c \in Children(db, d)
      BY <2>5 DEF Closed
    <3>2. c \in New(k + 1) /\ c \notin New(k) /\ New(k) \cup {c} \subseteq New(k + 1)
      BY <1>3, <2>1, <3>1 DEF Step
    <3>3. IsFiniteSet(New(k)) /\ IsFiniteSet(New(k + 1))
      BY <1>1, <1>3, <2>3, FS_Subset
    <3>4. Cardinality(New(k) \cup {c}) = Cardinality(New(k)) + 1
      BY <3>2, <3>3, FS_AddElement
    <3>5. Cardinality(New(k) \cup {c}) <= Cardinality(New(k + 1))
      BY <3>2, <3>3, FS_Subset
    <3>6. Cardinality(New(k)) \in Nat /\ Cardinality(New(k + 1)) \in Nat /\ Cardinality(New(k)) >= k
      BY <1>3, <2>5, <3>3, FS_CardinalityType
    <3>7. Cardinality(New(k + 1)) >= k + 1
      BY <3>4, <3>5, <3>6
    <3> QED
      BY <1>3, <2>3, <3>7
  <2> QED
    BY <2>4, <2>5
<1>4. n \in Grown
  <2> HIDE DEF Grown
  <2>1. 0..n \subseteq Grown
    BY <1>2, <1>3, Induction
  <2> QED
    BY <2>1
<1>5. CASE Cardinality(New(n)) >= n
  <2>1. Cardinality(New(n)) <= Cardinality(Ids(db)) /\ IsFiniteSet(New(n))
    BY <1>1, <1>4, FS_Subset
  <2>2. Cardinality(New(n)) = Cardinality(Ids(db))
    BY <1>1, <1>5, <2>1, FS_CardinalityType
  <2>3. New(n) = Ids(db)
    BY <1>1, <1>4, <2>2, FS_Subset
  <2> QED
    BY <2>3 DEF Closed, Children, Ids
<1> QED
  BY <1>4, <1>5

\* What the recursive SELECT returns holds the departments it starts from and,
\* with a department, its children, and no more than it must: cycles and several
\* parents included (get_packages_for_department, is_descendant_of_department).
THEOREM RecursiveIsClosure ==
    ASSUME NEW db, IsFiniteSet(db.depts), NEW start
    PROVE  /\ start \subseteq Recursive(db, start)
           /\ Closed(db, Recursive(db, start))
           /\ \A S : (start \subseteq S /\ Closed(db, S)) => Recursive(db, start) \subseteq S
<1> DEFINE n == Cardinality(db.depts)
<1>1. n \in Nat
  BY FS_CardinalityType
<1> HIDE DEF n
<1>2. PICK f : /\ f[0] = start
               /\ \A k \in 1..n : f[k] = Step(db, f[k - 1])
               /\ Recursive(db, start) = f[n]
  BY <1>1, RowSets DEF n
<1>3. Closed(db, f[n])
  BY <1>1, <1>2, RowSetsGrow DEF n
<1>4. ASSUME NEW k \in 0..n, k # n PROVE f[k + 1] = Step(db, f[k])
  <2>1. k + 1 \in 1..n /\ (k + 1) - 1 = k
    BY <1>1, <1>4
  <2> QED
    BY <1>2, <2>1
<1>5. ASSUME NEW S, start \subseteq S, Closed(db, S) PROVE f[n] \subseteq S
  <2> DEFINE Below == {k \in 0..n : f[k] \subseteq S}
  <2>1. 0 \in Below
    BY <1>1, <1>2, <1>5
  <2>2. ASSUME NEW k \in 0..n, k \in Below, k # n PROVE k + 1 \in Below
    BY <1>1, <1>4, <1>5, <2>2 DEF Step, Closed
  <2>3. 0..n \subseteq Below
    BY <1>1, <2>1, <2>2, Induction
  <2> QED
    BY <1>1, <2>3
<1>6. start \subseteq f[n]
  <2> DEFINE Above == {k \in 0..n : start \subseteq f[k]}
  <2>1. 0 \in Above
    BY <1>1, <1>2
  <2>2. ASSUME NEW k \in 0..n, k \in Above, k # n PROVE k + 1 \in Above
    BY <1>1, <1>4, <2>2 DEF Step
  <2>3. 0..n \subseteq Above
    BY <1>1, <2>1, <2>2, Induction
  <2> QED
    BY <1>1, <2>3
<1> QED
  BY <1>2, <1>3, <1>5, <1>6

\* A department at any depth is a child or below one.
LEMMA BelowAChild ==
    ASSUME NEW db, IsFiniteSet(db.depts), NEW d, NEW x, IsDescendant(db, x, d)
    PROVE  \E c \in Children(db, d) : x = c \/ IsDescendant(db, x, c)
<1> DEFINE Under(c) == {c} \cup Recursive(db, Children(db, c))
           S == UNION {Under(c) : c \in Children(db, d)}
<1>1. Children(db, d) \subseteq S
  OBVIOUS
<1>2. ASSUME NEW c \in Children(db, d), NEW y \in Under(c) PROVE Children(db, y) \subseteq Under(c)
  <2>1. Children(db, c) \subseteq Recursive(db, Children(db, c)) /\ Closed(db, Recursive(db, Children(db, c)))
    BY RecursiveIsClosure
  <2> QED
    BY <2>1 DEF Closed
<1>3. Closed(db, S)
  BY <1>2 DEF Closed
<1> HIDE DEF S
<1>4. Recursive(db, Children(db, d)) \subseteq S
  BY <1>1, <1>3, RecursiveIsClosure
<1> QED
  BY <1>4 DEF S, IsDescendant

\* A department with a row has the packages mapped to it and to those below it.
LEMMA PackagesOfSubtree ==
    ASSUME NEW db, IsFiniteSet(db.depts), NEW c, Parents(db, c) # {},
           NEW p, NEW x \in DepartmentsOf(db, p), x = c \/ IsDescendant(db, x, c)
    PROVE  p \in PackagesFor(db, c)
<1> DEFINE start == {c} \cup Children(db, c)
<1>1. start \subseteq Recursive(db, start) /\ Closed(db, Recursive(db, start))
  BY RecursiveIsClosure
<1> HIDE DEF start
<1>2. Children(db, c) \subseteq Recursive(db, start)
  BY <1>1 DEF start
<1>3. Recursive(db, Children(db, c)) \subseteq Recursive(db, start)
  BY <1>1, <1>2, RecursiveIsClosure
<1>4. x \in Recursive(db, start)
  BY <1>1, <1>3 DEF start, IsDescendant
<1>5. \E m \in db.pkgmap : m[1] = p /\ m[2] = x
  BY DEF DepartmentsOf
<1> QED
  BY <1>4, <1>5 DEF PackagesFor, start

=============================================================================
