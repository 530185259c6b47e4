------------------------ MODULE DepartmentsTableProofs ------------------------
(***************************************************************************)
(* The queries of DepartmentsQueries follow the parent relation on every   *)
(* table of departments, and the readers of StoreReplies lose no more than *)
(* they must of every text, of any size and shape.                         *)
(***************************************************************************)
EXTENDS DepartmentsTable, QueriesProofs

-----------------------------------------------------------------------------
(* Recursion over the positions of a text, from a position to later ones.  *)

\* What holds of a number when it holds of the greater ones holds of all.
LEMMA Downwards ==
    ASSUME NEW n \in Nat, NEW S, \A i \in 0..n : (i + 1)..n \subseteq S => i \in S
    PROVE  0..n \subseteq S
<1> DEFINE Failing == (0..n) \ S
<1> SUFFICES ASSUME Failing # {} PROVE FALSE
  OBVIOUS
<1>1. Failing \subseteq Nat /\ \A i \in Failing : i <= n
  OBVIOUS
<1>2. PICK i \in Failing : \A k \in Failing : k <= i
  BY <1>1, GreatestNatural
<1>3. (i + 1)..n \subseteq S
  BY <1>2
<1> QED
  BY <1>2, <1>3

\* The same from below.
LEMMA Upwards ==
    ASSUME NEW n \in Nat, NEW S, \A i \in 0..n : 0..(i - 1) \subseteq S => i \in S
    PROVE  0..n \subseteq S
<1> DEFINE Failing == (0..n) \ S
<1> SUFFICES ASSUME Failing # {} PROVE FALSE
  OBVIOUS
<1>1. Failing \subseteq Nat
  OBVIOUS
<1>2. PICK i \in Failing : \A k \in Failing : i <= k
  BY <1>1, LeastNatural
<1>3. 0..(i - 1) \subseteq S
  BY <1>2
<1> QED
  BY <1>2, <1>3

\* A step that looks at later positions only, and the functions it defines.
LooksAhead(step, D, V) ==
    \A i \in D, f \in [D -> V], g \in [D -> V] :
        (\A j \in D : j > i => f[j] = g[j]) => step[<<i, f>>] = step[<<i, g>>]
DefinedFrom(f, step, D, k) == \A i \in D : i >= k => f[i] = step[<<i, f>>]

LEMMA RecursiveFunction ==
    ASSUME NEW n \in Nat, NEW D, D \subseteq 0..n, NEW V, NEW some \in V,
           NEW step \in [D \X [D -> V] -> V], LooksAhead(step, D, V)
    PROVE  \E f \in [D -> V] : DefinedFrom(f, step, D, 0)
<1> DEFINE S == {k \in 0..n : \E f \in [D -> V] : DefinedFrom(f, step, D, k)}
<1>1. ASSUME NEW k \in 0..n, (k + 1)..n \subseteq S PROVE k \in S
  <2>1. PICK f \in [D -> V] : DefinedFrom(f, step, D, k + 1)
    <3>1. CASE k = n
      <4> DEFINE f == [i \in D |-> some]
      <4>1. f \in [D -> V] /\ \A i \in D : ~(i >= k + 1)
        BY <3>1
      <4>2. DefinedFrom(f, step, D, k + 1)
        BY <4>1 DEF DefinedFrom
      <4> QED
        BY <4>1, <4>2
    <3>2. CASE k # n
      BY <1>1, <3>2
    <3> QED
      BY <3>1, <3>2
  <2>2. CASE k \notin D
    <3>1. ASSUME NEW i \in D, i >= k PROVE i >= k + 1
      <4>1. i # k /\ i \in Nat
        BY <2>2
      <4> QED
        BY <3>1, <4>1
    <3>2. DefinedFrom(f, step, D, k)
      BY <2>1, <3>1 DEF DefinedFrom
    <3> QED
      BY <3>2
  <2>3. CASE k \in D
    <3> DEFINE g == [i \in D |-> IF i = k THEN step[<<k, f>>] ELSE f[i]]
    <3>1. step[<<k, f>>] \in V
      BY <2>3
    <3>2. g \in [D -> V]
      BY <3>1
    <3>3. ASSUME NEW i \in D, i >= k PROVE g[i] = step[<<i, g>>]
      <4>1. \A j \in D : j > i => g[j] = f[j]
        BY <2>3, <3>3
      <4>2. step[<<i, g>>] = step[<<i, f>>]
        BY <3>2, <4>1 DEF LooksAhead
      <4>3. i # k => f[i] = step[<<i, f>>]
        BY <2>1, <2>3, <3>3 DEF DefinedFrom
      <4> QED
        BY <4>2, <4>3
    <3>4. DefinedFrom(g, step, D, k)
      BY <3>3 DEF DefinedFrom
    <3> HIDE DEF g
    <3> QED
      BY <3>2, <3>4
  <2> QED
    BY <2>2, <2>3
<1> HIDE DEF S
<1>2. 0..n \subseteq S
  BY <1>1, Downwards
<1> QED
  BY <1>2 DEF S

-----------------------------------------------------------------------------
(* The departments made of a tree.                                         *)

IsTree(items, n) ==
    /\ items \in [1..n -> [parent : 0..n, id : Depts, is : {"valid", "invalid", "odd"}]]
    /\ \A i \in 1..n : items[i].parent < i

\* The departments made, position by position.
MadeOf(made, items) ==
    \A i \in {0} \cup DOMAIN items : made[i] = UNION {{j} \cup made[j] : j \in Subs(items, i)}

LEMMA Made ==
    ASSUME NEW n \in Nat, NEW items, IsTree(items, n)
    PROVE  \E made : MadeOf(made, items) /\ FromJsonNode(items) = made[0]
<1> DEFINE D == {0} \cup DOMAIN items
           V == SUBSET (1..n)
           step == [x \in D \X [D -> V] |-> UNION {{j} \cup x[2][j] : j \in Subs(items, x[1])}]
           made[i \in {0} \cup DOMAIN items] == UNION {{j} \cup made[j] : j \in Subs(items, i)}
           Is(f) == f = [i \in {0} \cup DOMAIN items |-> UNION {{j} \cup f[j] : j \in Subs(items, i)}]
<1>1. DOMAIN items = 1..n /\ D \subseteq 0..n /\ D = {0} \cup DOMAIN items
  BY DEF IsTree
<1>2. \A i \in D : \A j \in Subs(items, i) : j \in D /\ j \in 1..n /\ j > i
  BY <1>1 DEF IsTree, Subs
<1> HIDE DEF D
<1>3. \A i \in D, f \in [D -> V] : UNION {{j} \cup f[j] : j \in Subs(items, i)} \in V
  BY <1>2
<1>4. step \in [D \X [D -> V] -> V]
  BY <1>3
<1>5. ASSUME NEW i \in D, NEW f \in [D -> V]
      PROVE  step[<<i, f>>] = UNION {{j} \cup f[j] : j \in Subs(items, i)}
  OBVIOUS
<1>6. LooksAhead(step, D, V)
  <2> SUFFICES ASSUME NEW i \in D, NEW f \in [D -> V], NEW g \in [D -> V],
                      \A j \in D : j > i => f[j] = g[j]
               PROVE  step[<<i, f>>] = step[<<i, g>>]
    BY DEF LooksAhead
  <2> HIDE DEF step
  <2>1. \A j \in Subs(items, i) : f[j] = g[j]
    BY <1>2
  <2>2. {{j} \cup f[j] : j \in Subs(items, i)} = {{j} \cup g[j] : j \in Subs(items, i)}
    BY <2>1
  <2>3. step[<<i, f>>] = UNION {{j} \cup f[j] : j \in Subs(items, i)}
    BY <1>5
  <2>4. step[<<i, g>>] = UNION {{j} \cup g[j] : j \in Subs(items, i)}
    BY <1>5
  <2> QED
    BY <2>2, <2>3, <2>4
<1>7. {} \in V
  OBVIOUS
<1> HIDE DEF V, step
<1>8. PICK f \in [D -> V] : DefinedFrom(f, step, D, 0)
  BY <1>1, <1>4, <1>6, <1>7, RecursiveFunction
<1>9. \A i \in D : f[i] = UNION {{j} \cup f[j] : j \in Subs(items, i)}
  <2>1. \A i \in D : i >= 0
    BY <1>1
  <2> QED
    BY <1>5, <1>8, <2>1 DEF DefinedFrom
<1>10. Is(f)
  BY <1>1, <1>8, <1>9
<1>11. Is(made)
  BY <1>10
<1> HIDE DEF made
<1>12. MadeOf(made, items)
  BY <1>11 DEF MadeOf
<1>13. FromJsonNode(items) = made[0]
  BY DEF FromJsonNode, made
<1> QED
  BY <1>12, <1>13

\* A position made at i is made of a valid item, itself embedded in i or in one
\* made there; and what is made at it is made at i.
MadeWithin(made, items, i) ==
    \A j \in made[i] : /\ j \in DOMAIN items /\ items[j].is = "valid"
                       /\ items[j].parent \in {i} \cup made[i]
                       /\ made[j] \subseteq made[i]

LEMMA MadeInside ==
    ASSUME NEW n \in Nat, NEW items, IsTree(items, n), NEW made, MadeOf(made, items)
    PROVE  \A i \in 0..n : MadeWithin(made, items, i)
<1> DEFINE S == {i \in 0..n : MadeWithin(made, items, i)}
<1>1. DOMAIN items = 1..n /\ 0..n = {0} \cup DOMAIN items
  BY DEF IsTree
<1>2. \A i \in 0..n : \A j \in Subs(items, i) :
        j \in 1..n /\ j \in (i + 1)..n /\ items[j].parent = i /\ items[j].is = "valid"
  BY <1>1 DEF IsTree, Subs
<1>3. ASSUME NEW i \in 0..n, (i + 1)..n \subseteq S PROVE i \in S
  <2>1. made[i] = UNION {{j} \cup made[j] : j \in Subs(items, i)}
    BY <1>1 DEF MadeOf
  <2>2. \A c \in Subs(items, i) : c \in made[i] /\ made[c] \subseteq made[i]
    BY <2>1
  <2>3. ASSUME NEW j \in made[i]
        PROVE  /\ j \in DOMAIN items /\ items[j].is = "valid"
               /\ items[j].parent \in {i} \cup made[i]
               /\ made[j] \subseteq made[i]
    <3>1. PICK c \in Subs(items, i) : j = c \/ j \in made[c]
      BY <2>1
    <3>2. c \in 1..n /\ c \in (i + 1)..n /\ items[c].parent = i /\ items[c].is = "valid"
      BY <1>2
    <3>3. CASE j = c
      BY <1>1, <2>2, <3>2, <3>3
    <3>4. CASE j \in made[c]
      <4>1. MadeWithin(made, items, c)
        BY <1>3, <3>2
      <4> QED
        BY <2>2, <3>4, <4>1 DEF MadeWithin
    <3> QED
      BY <3>1, <3>3, <3>4
  <2>4. MadeWithin(made, items, i)
    BY <2>3 DEF MadeWithin
  <2> QED
    BY <2>4
<1> HIDE DEF S
<1>4. 0..n \subseteq S
  BY <1>3, Downwards
<1> QED
  BY <1>4 DEF S

\* What is made of a tree is made of its whole items.
LEMMA MadeIsWhole ==
    ASSUME NEW n \in Nat, NEW items, IsTree(items, n)
    PROVE  FromJsonNode(items) = Whole(items)
<1>1. PICK made : MadeOf(made, items) /\ FromJsonNode(items) = made[0]
  BY Made
<1>2. \A i \in 0..n : MadeWithin(made, items, i)
  BY <1>1, MadeInside
<1>3. DOMAIN items = 1..n /\ 0 \in 0..n
  BY DEF IsTree
<1>4. made[0] \subseteq DOMAIN items /\ \A i \in made[0] : items[i].is = "valid" /\ items[i].parent \in {0} \cup made[0]
  BY <1>2, <1>3 DEF MadeWithin
<1>5. made[0] \subseteq Whole(items)
  BY <1>4 DEF Whole
<1>6. ASSUME NEW T \in SUBSET DOMAIN items, \A i \in T : items[i].is = "valid" /\ items[i].parent \in {0} \cup T
      PROVE  T \subseteq made[0]
  <2> DEFINE S == {i \in 0..n : i \in T => i \in made[0]}
  <2>1. ASSUME NEW i \in 0..n, 0..(i - 1) \subseteq S PROVE i \in S
    <3> SUFFICES ASSUME i \in T PROVE i \in made[0]
      OBVIOUS
    <3> DEFINE p == items[i].parent
    <3>1. i \in 1..n /\ items[i].is = "valid" /\ p \in {0} \cup T /\ p < i /\ p \in 0..n
      BY <1>3, <1>6 DEF IsTree
    <3>2. i \in Subs(items, p)
      BY <1>3, <3>1 DEF Subs
    <3> HIDE DEF p
    <3>3. i \in made[p]
      BY <1>1, <1>3, <3>1, <3>2 DEF MadeOf
    <3>4. p = 0 \/ p \in made[0]
      <4>1. p \in 0..(i - 1)
        BY <3>1
      <4> QED
        BY <2>1, <3>1, <4>1
    <3>5. made[p] \subseteq made[0]
      BY <1>2, <1>3, <3>4 DEF MadeWithin
    <3> QED
      BY <3>3, <3>5
  <2> HIDE DEF S
  <2>2. 0..n \subseteq S
    BY <2>1, Upwards
  <2> QED
    BY <1>3, <2>2 DEF S
<1>7. Whole(items) \subseteq made[0]
  BY <1>6 DEF Whole
<1> QED
  BY <1>1, <1>5, <1>7

-----------------------------------------------------------------------------
(* Departments and the positions they are in, 0 for the list returned.     *)

IsForest(depts, up, n) ==
    /\ DOMAIN depts.id \subseteq 1..n
    /\ depts.id \in [DOMAIN depts.id -> Depts]
    /\ \A j \in DOMAIN depts.id : up[j] \in {0} \cup DOMAIN depts.id /\ up[j] < j
    /\ depts.subs = [i \in {0} \cup DOMAIN depts.id |-> {j \in DOMAIN depts.id : up[j] = i}]

LEMMA ForestSubs ==
    ASSUME NEW n \in Nat, NEW depts, NEW up, IsForest(depts, up, n)
    PROVE  /\ DOMAIN depts.subs = {0} \cup DOMAIN depts.id /\ DOMAIN depts.subs \subseteq 0..n
           /\ \A i \in DOMAIN depts.subs : \A j \in depts.subs[i] :
                    j \in DOMAIN depts.id /\ j \in DOMAIN depts.subs /\ j \in (i + 1)..n /\ up[j] = i
           /\ \A j \in DOMAIN depts.id : up[j] \in DOMAIN depts.subs /\ j \in depts.subs[up[j]]
<1>1. DOMAIN depts.subs = {0} \cup DOMAIN depts.id
  BY DEF IsForest
<1>2. \A i \in DOMAIN depts.subs : depts.subs[i] = {j \in DOMAIN depts.id : up[j] = i}
  BY DEF IsForest
<1>3. DOMAIN depts.subs \subseteq 0..n
  BY <1>1 DEF IsForest
<1>4. ASSUME NEW i \in DOMAIN depts.subs, NEW j \in depts.subs[i]
      PROVE  j \in DOMAIN depts.id /\ j \in DOMAIN depts.subs /\ j \in (i + 1)..n /\ up[j] = i
  <2>1. j \in DOMAIN depts.id /\ up[j] = i
    BY <1>2
  <2>2. j \in 1..n /\ i < j /\ i \in 0..n
    BY <1>3, <2>1 DEF IsForest
  <2> QED
    BY <1>1, <2>1, <2>2
<1>5. ASSUME NEW j \in DOMAIN depts.id
      PROVE  up[j] \in DOMAIN depts.subs /\ j \in depts.subs[up[j]]
  BY <1>1, <1>2 DEF IsForest
<1> QED
  BY <1>1, <1>3, <1>4, <1>5

\* What is collected from the top is what each department adds.
CollectedOf(g, h, depts) ==
    \A i \in DOMAIN depts.subs : g[i] = UNION {h[j] \cup g[j] : j \in depts.subs[i]}

LEMMA Collected ==
    ASSUME NEW n \in Nat, NEW depts, NEW up, IsForest(depts, up, n), NEW g, NEW h, CollectedOf(g, h, depts)
    PROVE  g[0] = UNION {h[j] : j \in DOMAIN depts.id}
<1> DEFINE M == DOMAIN depts.id
           D == DOMAIN depts.subs
           all == UNION {h[j] : j \in M}
           Down == {i \in 0..n : i \in D => g[i] \subseteq all}
           Up == {i \in 0..n : i \in D => g[i] \subseteq g[0] /\ (i = 0 \/ h[i] \subseteq g[0])}
<1>1. /\ D = {0} \cup M /\ D \subseteq 0..n
      /\ \A i \in D : \A j \in depts.subs[i] : j \in M /\ j \in D /\ j \in (i + 1)..n /\ up[j] = i
      /\ \A j \in M : up[j] \in D /\ j \in depts.subs[up[j]]
  BY ForestSubs
<1>2. \A i \in D : g[i] = UNION {h[j] \cup g[j] : j \in depts.subs[i]}
  BY DEF CollectedOf
<1> HIDE DEF D, M
<1>3. \A j \in M : h[j] \subseteq all
  OBVIOUS
<1> HIDE DEF all
<1>4. ASSUME NEW i \in 0..n, (i + 1)..n \subseteq Down PROVE i \in Down
  <2> SUFFICES ASSUME i \in D PROVE g[i] \subseteq all
    OBVIOUS
  <2>1. \A j \in depts.subs[i] : h[j] \subseteq all /\ g[j] \subseteq all
    BY <1>1, <1>3, <1>4
  <2> QED
    BY <1>2, <2>1
<1>5. ASSUME NEW i \in 0..n, 0..(i - 1) \subseteq Up PROVE i \in Up
  <2>1. CASE i = 0
    BY <2>1
  <2>2. CASE i \in D /\ i # 0
    <3>1. i \in M /\ up[i] \in D /\ i \in depts.subs[up[i]]
      BY <1>1, <2>2
    <3>2. up[i] \in 0..(i - 1)
      <4>1. up[i] < i
        BY <3>1 DEF IsForest, M
      <4>2. up[i] \in 0..n
        BY <1>1, <3>1
      <4> QED
        BY <4>1, <4>2
    <3>3. g[up[i]] \subseteq g[0]
      BY <1>5, <3>1, <3>2
    <3>4. h[i] \subseteq g[up[i]] /\ g[i] \subseteq g[up[i]]
      BY <1>2, <3>1
    <3> QED
      BY <3>3, <3>4
  <2> QED
    BY <2>1, <2>2
<1> HIDE DEF Down, Up
<1>6. 0..n \subseteq Down
  BY <1>4, Downwards
<1>7. 0..n \subseteq Up
  BY <1>5, Upwards
<1>8. g[0] \subseteq all
  BY <1>1, <1>6 DEF Down
<1>9. ASSUME NEW j \in M PROVE h[j] \subseteq g[0]
  <2>1. j \in D /\ j \in 0..n /\ j # 0
    BY <1>1 DEF IsForest, M
  <2> QED
    BY <1>7, <2>1 DEF Up
<1>10. all \subseteq g[0]
  BY <1>9 DEF all
<1> QED
  BY <1>8, <1>10 DEF all, M

\* The rows stored: one for each department.
ParentId(depts, up, j) == IF up[j] = 0 THEN Root ELSE depts.id[up[j]]

LEMMA RowsAre ==
    ASSUME NEW n \in Nat, NEW depts, NEW up, IsForest(depts, up, n)
    PROVE  Rows(depts, Root) = {<<depts.id[j], ParentId(depts, up, j)>> : j \in DOMAIN depts.id}
<1> DEFINE Id(i) == IF i = 0 THEN Root ELSE depts.id[i]
           D == DOMAIN depts.subs
           V == SUBSET (Depts \X Nodes)
           Body(f, i) == UNION {{<<depts.id[j], Id(i)>>} \cup f[j] : j \in depts.subs[i]}
           step == [x \in D \X [D -> V] |-> Body(x[2], x[1])]
           rows[i \in DOMAIN depts.subs] ==
               UNION {{<<depts.id[j], Id(i)>>} \cup rows[j] : j \in depts.subs[i]}
           Is(f) == f = [i \in DOMAIN depts.subs |->
                           UNION {{<<depts.id[j], Id(i)>>} \cup f[j] : j \in depts.subs[i]}]
           h == [j \in DOMAIN depts.id |-> {<<depts.id[j], ParentId(depts, up, j)>>}]
<1>1. /\ D = {0} \cup DOMAIN depts.id /\ D \subseteq 0..n
      /\ \A i \in D : \A j \in depts.subs[i] : j \in DOMAIN depts.id /\ j \in D /\ j \in (i + 1)..n /\ up[j] = i
  BY ForestSubs
<1>2. D = DOMAIN depts.subs
  OBVIOUS
<1> HIDE DEF D
<1>3. \A i \in D : Id(i) \in Nodes
  BY <1>1 DEF IsForest, Nodes
<1>4. \A i \in D : \A j \in depts.subs[i] : <<depts.id[j], Id(i)>> \in Depts \X Nodes /\ j \in D
  BY <1>1, <1>3 DEF IsForest
<1> HIDE DEF Id
<1>5. \A i \in D, f \in [D -> V] : Body(f, i) \in V
  <2> SUFFICES ASSUME NEW i \in D, NEW f \in [D -> V] PROVE Body(f, i) \in V
    OBVIOUS
  <2>1. \A j \in depts.subs[i] : {<<depts.id[j], Id(i)>>} \cup f[j] \subseteq Depts \X Nodes
    BY <1>4
  <2> QED
    BY <2>1
<1>6. step \in [D \X [D -> V] -> V]
  BY <1>5
<1>7. \A i \in D, f \in [D -> V] : step[<<i, f>>] = Body(f, i)
  OBVIOUS
<1>8. LooksAhead(step, D, V)
  <2> SUFFICES ASSUME NEW i \in D, NEW f \in [D -> V], NEW g \in [D -> V],
                      \A j \in D : j > i => f[j] = g[j]
               PROVE  step[<<i, f>>] = step[<<i, g>>]
    BY DEF LooksAhead
  <2>1. \A j \in depts.subs[i] : f[j] = g[j]
    BY <1>1
  <2>2. {{<<depts.id[j], Id(i)>>} \cup f[j] : j \in depts.subs[i]} = {{<<depts.id[j], Id(i)>>} \cup g[j] : j \in depts.subs[i]}
    BY <2>1
  <2>3. Body(f, i) = Body(g, i)
    BY <2>2
  <2> HIDE DEF step, Body
  <2> QED
    BY <1>7, <2>3
<1>9. {} \in V
  OBVIOUS
<1> HIDE DEF V, step
<1>10. PICK f \in [D -> V] : DefinedFrom(f, step, D, 0)
  BY <1>1, <1>6, <1>8, <1>9, RecursiveFunction
<1>11. \A i \in D : f[i] = Body(f, i)
  <2>1. \A i \in D : i >= 0
    BY <1>1
  <2> HIDE DEF Body
  <2> QED
    BY <1>7, <1>10, <2>1 DEF DefinedFrom
<1>12. Is(f)
  BY <1>2, <1>10, <1>11
<1>13. Is(rows)
  BY <1>12
<1> HIDE DEF rows
<1>14. \A i \in DOMAIN depts.subs : rows[i] = UNION {{<<depts.id[j], Id(i)>>} \cup rows[j] : j \in depts.subs[i]}
  BY <1>13
<1>15. ASSUME NEW i \in DOMAIN depts.subs
       PROVE  rows[i] = UNION {h[j] \cup rows[j] : j \in depts.subs[i]}
  <2>1. \A j \in depts.subs[i] : {<<depts.id[j], Id(i)>>} = h[j]
    BY <1>1, <1>2 DEF Id, ParentId
  <2> HIDE DEF h
  <2>2. {{<<depts.id[j], Id(i)>>} \cup rows[j] : j \in depts.subs[i]} = {h[j] \cup rows[j] : j \in depts.subs[i]}
    BY <2>1
  <2> QED
    BY <1>14, <2>2
<1>16. UNION {h[j] : j \in DOMAIN depts.id} = {<<depts.id[j], ParentId(depts, up, j)>> : j \in DOMAIN depts.id}
  OBVIOUS
<1> HIDE DEF h
<1>17. rows[0] = UNION {h[j] : j \in DOMAIN depts.id}
  BY <1>15, Collected DEF CollectedOf
<1>18. Rows(depts, Root) = rows[0]
  BY DEF Rows, rows, Id
<1> QED
  BY <1>16, <1>17, <1>18

-----------------------------------------------------------------------------
(* The lookup.                                                             *)

\* InOrder for maps at positions: every id of one of the maps, with what one of
\* the maps has for it.
JoinOf(map, maps) ==
    /\ DOMAIN map = UNION {DOMAIN maps[j] : j \in DOMAIN maps}
    /\ \A d \in DOMAIN map : \E j \in DOMAIN maps : d \in DOMAIN maps[j] /\ map[d] = maps[j][d]

LEMMA InOrderJoins ==
    ASSUME NEW n \in Nat, NEW maps, DOMAIN maps \subseteq 0..n
    PROVE  JoinOf(InOrder(maps), maps)
<1> DEFINE Setters(d) == {j \in DOMAIN maps : d \in DOMAIN maps[j]}
           Last(d) == CHOOSE j \in Setters(d) : \A k \in Setters(d) : k <= j
           all == UNION {DOMAIN maps[j] : j \in DOMAIN maps}
           map == [d \in all |-> maps[Last(d)][d]]
<1>1. ASSUME NEW d \in all PROVE Last(d) \in Setters(d)
  <2>1. Setters(d) # {} /\ Setters(d) \subseteq Nat /\ \A k \in Setters(d) : k <= n
    OBVIOUS
  <2> HIDE DEF Setters
  <2>2. \E j \in Setters(d) : \A k \in Setters(d) : k <= j
    BY <2>1, GreatestNatural
  <2> QED
    BY <2>2
<1>2. InOrder(maps) = map
  BY DEF InOrder
<1>3. DOMAIN map = all /\ \A d \in all : map[d] = maps[Last(d)][d]
  OBVIOUS
<1>4. \A d \in all : Last(d) \in DOMAIN maps /\ d \in DOMAIN maps[Last(d)]
  BY <1>1
<1> HIDE DEF map, Last
<1> QED
  BY <1>2, <1>3, <1>4 DEF JoinOf

\* What a department passes to the one it is in: its own entry is set first.
Passed(depts, i, j, map) == IF i = 0 THEN map ELSE SetFirst(depts.id[j], depts.id[i], map)

PassedOn(passed, depts, i, j, map) ==
    /\ DOMAIN passed = DOMAIN map \cup (IF i = 0 THEN {} ELSE {depts.id[j]})
    /\ \A d \in DOMAIN map : passed[d] = map[d]
    /\ \A d \in DOMAIN passed :
            d \notin DOMAIN map => i # 0 /\ d = depts.id[j] /\ passed[d] = depts.id[i]

LEMMA PassedMap ==
    ASSUME NEW depts, NEW i, NEW j, NEW map
    PROVE  PassedOn(Passed(depts, i, j, map), depts, i, j, map)
<1>1. CASE i = 0
  BY <1>1 DEF Passed, PassedOn
<1>2. CASE i # 0
  BY <1>2 DEF Passed, PassedOn, SetFirst
<1> QED
  BY <1>1, <1>2

\* The maps from ids to ids.
IdMaps == UNION {[ids -> Depts] : ids \in SUBSET Depts}

LEMMA IsIdMap ==
    ASSUME NEW map, map = [d \in DOMAIN map |-> map[d]], DOMAIN map \subseteq Depts,
           \A d \in DOMAIN map : map[d] \in Depts
    PROVE  map \in IdMaps
<1>1. map \in [DOMAIN map -> Depts]
  OBVIOUS
<1> QED
  BY <1>1 DEF IdMaps

LEMMA JoinIsIdMap ==
    ASSUME NEW n \in Nat, NEW maps, DOMAIN maps \subseteq 0..n, \A j \in DOMAIN maps : maps[j] \in IdMaps
    PROVE  InOrder(maps) \in IdMaps
<1> DEFINE map == InOrder(maps)
<1>1. JoinOf(map, maps)
  BY InOrderJoins
<1>2. map = [d \in DOMAIN map |-> map[d]]
  BY DEF InOrder
<1> HIDE DEF map
<1>3. \A j \in DOMAIN maps : DOMAIN maps[j] \subseteq Depts /\ \A d \in DOMAIN maps[j] : maps[j][d] \in Depts
  BY DEF IdMaps
<1>4. DOMAIN map \subseteq Depts /\ \A d \in DOMAIN map : map[d] \in Depts
  BY <1>1, <1>3 DEF JoinOf
<1>5. map \in IdMaps
  BY <1>2, <1>4, IsIdMap
<1> QED
  BY <1>5 DEF map

LEMMA PassedIsIdMap ==
    ASSUME NEW depts, NEW i, NEW j, NEW map \in IdMaps,
           i # 0 => depts.id[i] \in Depts /\ depts.id[j] \in Depts
    PROVE  Passed(depts, i, j, map) \in IdMaps
<1> DEFINE passed == Passed(depts, i, j, map)
<1>1. DOMAIN map \subseteq Depts /\ \A d \in DOMAIN map : map[d] \in Depts
  BY DEF IdMaps
<1>2. passed = [d \in DOMAIN passed |-> passed[d]]
  BY DEF Passed, SetFirst, IdMaps
<1>3. PassedOn(passed, depts, i, j, map)
  BY PassedMap
<1> HIDE DEF passed
<1>4. DOMAIN passed \subseteq Depts /\ \A d \in DOMAIN passed : passed[d] \in Depts
  BY <1>1, <1>3 DEF PassedOn
<1>5. passed \in IdMaps
  BY <1>2, <1>4, IsIdMap
<1> QED
  BY <1>5 DEF passed

\* What rebuild() has made when it returns from position i.
Returned(f, depts, i) ==
    [known |-> (IF i = 0 THEN {} ELSE {depts.id[i]}) \cup UNION {f[j].known : j \in depts.subs[i]},
     parents |-> InOrder([j \in depts.subs[i] |-> Passed(depts, i, j, f[j].parents)])]
RebuiltOf(rebuilt, depts) == \A i \in DOMAIN depts.subs : rebuilt[i] = Returned(rebuilt, depts, i)

LEMMA Rebuilt ==
    ASSUME NEW n \in Nat, NEW depts, NEW up, IsForest(depts, up, n)
    PROVE  \E rebuilt : RebuiltOf(rebuilt, depts) /\ Rebuild(depts) = rebuilt[0]
<1> DEFINE D == DOMAIN depts.subs
           V == [known : SUBSET Depts, parents : IdMaps]
           step == [x \in D \X [D -> V] |-> Returned(x[2], depts, x[1])]
           rebuilt[i \in DOMAIN depts.subs] ==
            [known |-> (IF i = 0 THEN {} ELSE {depts.id[i]}) \cup UNION {rebuilt[j].known : j \in depts.subs[i]},
             parents |-> InOrder([j \in depts.subs[i] |->
                IF i = 0 THEN rebuilt[j].parents ELSE SetFirst(depts.id[j], depts.id[i], rebuilt[j].parents)])]
           Is(f) == f = [i \in DOMAIN depts.subs |->
            [known |-> (IF i = 0 THEN {} ELSE {depts.id[i]}) \cup UNION {f[j].known : j \in depts.subs[i]},
             parents |-> InOrder([j \in depts.subs[i] |->
                IF i = 0 THEN f[j].parents ELSE SetFirst(depts.id[j], depts.id[i], f[j].parents)])]]
<1>1. /\ D = {0} \cup DOMAIN depts.id /\ D \subseteq 0..n
      /\ \A i \in D : \A j \in depts.subs[i] : j \in DOMAIN depts.id /\ j \in D /\ j \in (i + 1)..n
  BY ForestSubs
<1>2. D = DOMAIN depts.subs
  OBVIOUS
<1> HIDE DEF D
<1>3. \A i \in DOMAIN depts.id : depts.id[i] \in Depts
  BY DEF IsForest
<1>4. ASSUME NEW i \in D, NEW f \in [D -> V] PROVE Returned(f, depts, i) \in V
  <2> DEFINE known == (IF i = 0 THEN {} ELSE {depts.id[i]}) \cup UNION {f[j].known : j \in depts.subs[i]}
             maps == [j \in depts.subs[i] |-> Passed(depts, i, j, f[j].parents)]
  <2>1. \A j \in depts.subs[i] : f[j].known \subseteq Depts /\ f[j].parents \in IdMaps
    BY <1>1
  <2>2. known \subseteq Depts
    BY <1>1, <1>3, <2>1
  <2>3. ASSUME NEW j \in depts.subs[i] PROVE maps[j] \in IdMaps
    <3>1. i # 0 => depts.id[i] \in Depts /\ depts.id[j] \in Depts
      BY <1>1, <1>3
    <3>2. Passed(depts, i, j, f[j].parents) \in IdMaps
      BY <2>1, <3>1, PassedIsIdMap
    <3> QED
      BY <3>2
  <2>4. DOMAIN maps = depts.subs[i] /\ depts.subs[i] \subseteq 0..n
    BY <1>1
  <2>5. Returned(f, depts, i) = [known |-> known, parents |-> InOrder(maps)]
    BY DEF Returned
  <2> HIDE DEF known, maps
  <2>6. InOrder(maps) \in IdMaps
    BY <2>3, <2>4, JoinIsIdMap
  <2> QED
    BY <2>2, <2>5, <2>6
<1>5. step \in [D \X [D -> V] -> V]
  BY <1>4
<1>6. \A i \in D, f \in [D -> V] : step[<<i, f>>] = Returned(f, depts, i)
  OBVIOUS
<1>7. LooksAhead(step, D, V)
  <2> SUFFICES ASSUME NEW i \in D, NEW f \in [D -> V], NEW g \in [D -> V],
                      \A j \in D : j > i => f[j] = g[j]
               PROVE  step[<<i, f>>] = step[<<i, g>>]
    BY DEF LooksAhead
  <2>1. \A j \in depts.subs[i] : f[j] = g[j]
    BY <1>1
  <2>2. {f[j].known : j \in depts.subs[i]} = {g[j].known : j \in depts.subs[i]}
    BY <2>1
  <2>3. [j \in depts.subs[i] |-> Passed(depts, i, j, f[j].parents)] = [j \in depts.subs[i] |-> Passed(depts, i, j, g[j].parents)]
    BY <2>1
  <2>4. Returned(f, depts, i) = Returned(g, depts, i)
    BY <2>2, <2>3 DEF Returned
  <2> HIDE DEF step
  <2> QED
    BY <1>6, <2>4
<1>8. [known |-> {}, parents |-> [d \in {} |-> d]] \in V
  <2>1. [d \in {} |-> d] \in IdMaps
    BY DEF IdMaps
  <2> QED
    BY <2>1
<1> HIDE DEF V, step
<1>9. PICK f \in [D -> V] : DefinedFrom(f, step, D, 0)
  BY <1>1, <1>5, <1>7, <1>8, RecursiveFunction
<1>10. \A i \in D : f[i] = Returned(f, depts, i)
  <2>1. \A i \in D : i >= 0
    BY <1>1
  <2> QED
    BY <1>6, <1>9, <2>1 DEF DefinedFrom
<1>11. Is(f)
  BY <1>2, <1>9, <1>10 DEF Returned, Passed
<1>12. Is(rebuilt)
  BY <1>11
<1> HIDE DEF rebuilt
<1>13. RebuiltOf(rebuilt, depts)
  BY <1>12 DEF RebuiltOf, Returned, Passed
<1>14. Rebuild(depts) = rebuilt[0]
  BY DEF Rebuild, rebuilt
<1> QED
  BY <1>13, <1>14

\* rebuild() knows every department, and finds parents for those that are in
\* another one: of the departments of an id, the parent of one.
Named(depts, up, d, parent) ==
    \E j \in DOMAIN depts.id : up[j] # 0 /\ depts.id[j] = d /\ depts.id[up[j]] = parent

LEMMA RebuildIs ==
    ASSUME NEW n \in Nat, NEW depts, NEW up, IsForest(depts, up, n), NEW lookup, lookup = Rebuild(depts)
    PROVE  /\ lookup.known = {depts.id[j] : j \in DOMAIN depts.id}
           /\ DOMAIN lookup.parents = {depts.id[j] : j \in {k \in DOMAIN depts.id : up[k] # 0}}
           /\ \A d \in DOMAIN lookup.parents : Named(depts, up, d, lookup.parents[d])
<1> DEFINE D == DOMAIN depts.subs
           M == DOMAIN depts.id
<1>1. /\ D = {0} \cup M /\ D \subseteq 0..n /\ 0 \notin M
      /\ \A i \in D : \A j \in depts.subs[i] : j \in M /\ j \in D /\ j \in (i + 1)..n /\ up[j] = i
  <2>1. 0 \notin M
    BY DEF IsForest
  <2> QED
    BY <2>1, ForestSubs
<1>2. PICK rebuilt : RebuiltOf(rebuilt, depts) /\ Rebuild(depts) = rebuilt[0]
  BY Rebuilt
<1> HIDE DEF D, M
<1>3. ASSUME NEW i \in D
      PROVE  /\ rebuilt[i].known = (IF i = 0 THEN {} ELSE {depts.id[i]}) \cup UNION {rebuilt[j].known : j \in depts.subs[i]}
             /\ rebuilt[i].parents = InOrder([j \in depts.subs[i] |-> Passed(depts, i, j, rebuilt[j].parents)])
  <2>1. rebuilt[i] = Returned(rebuilt, depts, i)
    BY <1>2 DEF RebuiltOf, D
  <2>2. Returned(rebuilt, depts, i).known =
            (IF i = 0 THEN {} ELSE {depts.id[i]}) \cup UNION {rebuilt[j].known : j \in depts.subs[i]}
    BY DEF Returned
  <2>3. Returned(rebuilt, depts, i).parents =
            InOrder([j \in depts.subs[i] |-> Passed(depts, i, j, rebuilt[j].parents)])
    BY DEF Returned
  <2> QED
    BY <2>1, <2>2, <2>3
<1>4. lookup.known = {depts.id[j] : j \in M}
  <2> DEFINE g == [i \in D |-> UNION {rebuilt[j].known : j \in depts.subs[i]}]
             h == [j \in M |-> {depts.id[j]}]
  <2>1. ASSUME NEW i \in D PROVE rebuilt[i].known = (IF i = 0 THEN {} ELSE {depts.id[i]}) \cup g[i]
    BY <1>3
  <2>2. ASSUME NEW i \in D PROVE g[i] = UNION {h[j] \cup g[j] : j \in depts.subs[i]}
    <3>1. ASSUME NEW j \in depts.subs[i] PROVE rebuilt[j].known = h[j] \cup g[j]
      <4>1. j \in M /\ j \in D /\ j # 0
        BY <1>1
      <4>2. h[j] = {depts.id[j]}
        BY <4>1
      <4> HIDE DEF g, h
      <4>3. rebuilt[j].known = {depts.id[j]} \cup g[j]
        BY <2>1, <4>1
      <4> QED
        BY <4>2, <4>3
    <3>2. g[i] = UNION {rebuilt[j].known : j \in depts.subs[i]}
      OBVIOUS
    <3> HIDE DEF g, h
    <3>3. {rebuilt[j].known : j \in depts.subs[i]} = {h[j] \cup g[j] : j \in depts.subs[i]}
      BY <3>1
    <3> QED
      BY <3>2, <3>3
  <2>3. UNION {h[j] : j \in M} = {depts.id[j] : j \in M}
    OBVIOUS
  <2>4. lookup.known = g[0]
    <3>1. lookup.known = rebuilt[0].known /\ 0 \in D
      BY <1>1, <1>2
    <3> HIDE DEF g
    <3>2. rebuilt[0].known = {} \cup g[0]
      BY <2>1, <3>1
    <3> QED
      BY <3>1, <3>2
  <2> HIDE DEF g, h
  <2>5. CollectedOf(g, h, depts)
    BY <2>2 DEF CollectedOf, D
  <2>6. g[0] = UNION {h[j] : j \in M}
    BY <2>5, Collected DEF M
  <2> QED
    BY <2>3, <2>4, <2>6
<1>5. ASSUME NEW i \in D
      PROVE  /\ DOMAIN rebuilt[i].parents =
                    UNION {DOMAIN rebuilt[j].parents \cup (IF i = 0 THEN {} ELSE {depts.id[j]}) : j \in depts.subs[i]}
             /\ \A d \in DOMAIN rebuilt[i].parents : \E j \in depts.subs[i] :
                    \/ d \in DOMAIN rebuilt[j].parents /\ rebuilt[i].parents[d] = rebuilt[j].parents[d]
                    \/ i # 0 /\ d = depts.id[j] /\ rebuilt[i].parents[d] = depts.id[i]
  <2> DEFINE maps == [j \in depts.subs[i] |-> Passed(depts, i, j, rebuilt[j].parents)]
             map == rebuilt[i].parents
  <2>1. map = InOrder(maps)
    BY <1>3
  <2>2. DOMAIN maps \subseteq 0..n
    BY <1>1
  <2>3. DOMAIN maps = depts.subs[i] /\ \A j \in depts.subs[i] : maps[j] = Passed(depts, i, j, rebuilt[j].parents)
    OBVIOUS
  <2> HIDE DEF maps, map
  <2>4. JoinOf(map, maps)
    BY <2>1, <2>2, InOrderJoins
  <2>5. \A j \in depts.subs[i] : DOMAIN maps[j] = DOMAIN rebuilt[j].parents \cup (IF i = 0 THEN {} ELSE {depts.id[j]})
    <3> TAKE j \in depts.subs[i]
    <3>1. PassedOn(maps[j], depts, i, j, rebuilt[j].parents)
      BY <2>3, PassedMap
    <3> QED
      BY <3>1 DEF PassedOn
  <2>6. {DOMAIN maps[j] : j \in depts.subs[i]} =
            {DOMAIN rebuilt[j].parents \cup (IF i = 0 THEN {} ELSE {depts.id[j]}) : j \in depts.subs[i]}
    BY <2>5
  <2>7. DOMAIN map = UNION {DOMAIN maps[j] : j \in depts.subs[i]}
    BY <2>3, <2>4 DEF JoinOf
  <2>8. ASSUME NEW d \in DOMAIN map
        PROVE  \E j \in depts.subs[i] :
                    \/ d \in DOMAIN rebuilt[j].parents /\ map[d] = rebuilt[j].parents[d]
                    \/ i # 0 /\ d = depts.id[j] /\ map[d] = depts.id[i]
    <3>1. PICK j \in depts.subs[i] : d \in DOMAIN maps[j] /\ map[d] = maps[j][d]
      BY <2>3, <2>4 DEF JoinOf
    <3>2. PassedOn(maps[j], depts, i, j, rebuilt[j].parents)
      BY <2>3, PassedMap
    <3>3. CASE d \in DOMAIN rebuilt[j].parents
      <4>1. maps[j][d] = rebuilt[j].parents[d]
        BY <3>2, <3>3 DEF PassedOn
      <4> QED
        BY <3>1, <3>3, <4>1
    <3>4. CASE d \notin DOMAIN rebuilt[j].parents
      <4>1. i # 0 /\ d = depts.id[j] /\ maps[j][d] = depts.id[i]
        BY <3>1, <3>2, <3>4 DEF PassedOn
      <4> QED
        BY <3>1, <4>1
    <3> QED
      BY <3>3, <3>4
  <2> QED
    BY <2>6, <2>7, <2>8 DEF map
<1>6. DOMAIN lookup.parents = {depts.id[j] : j \in {k \in M : up[k] # 0}}
  <2> DEFINE g == [i \in D |-> DOMAIN rebuilt[i].parents]
             h == [j \in M |-> IF up[j] = 0 THEN {} ELSE {depts.id[j]}]
  <2>1. ASSUME NEW i \in D PROVE g[i] = UNION {h[j] \cup g[j] : j \in depts.subs[i]}
    <3>1. \A j \in depts.subs[i] :
            DOMAIN rebuilt[j].parents \cup (IF i = 0 THEN {} ELSE {depts.id[j]}) = h[j] \cup g[j]
      BY <1>1
    <3>2. g[i] = UNION {DOMAIN rebuilt[j].parents \cup (IF i = 0 THEN {} ELSE {depts.id[j]}) : j \in depts.subs[i]}
      BY <1>5
    <3> HIDE DEF g, h
    <3>3. {DOMAIN rebuilt[j].parents \cup (IF i = 0 THEN {} ELSE {depts.id[j]}) : j \in depts.subs[i]} =
            {h[j] \cup g[j] : j \in depts.subs[i]}
      BY <3>1
    <3> QED
      BY <3>2, <3>3
  <2>2. UNION {h[j] : j \in M} = {depts.id[j] : j \in {k \in M : up[k] # 0}}
    OBVIOUS
  <2>3. DOMAIN lookup.parents = g[0]
    BY <1>1, <1>2
  <2> HIDE DEF g, h
  <2>4. CollectedOf(g, h, depts)
    BY <2>1 DEF CollectedOf, D
  <2>5. g[0] = UNION {h[j] : j \in M}
    BY <2>4, Collected DEF M
  <2> QED
    BY <2>2, <2>3, <2>5
<1>7. \A d \in DOMAIN lookup.parents : Named(depts, up, d, lookup.parents[d])
  <2> DEFINE Right(i) == \A d \in DOMAIN rebuilt[i].parents : Named(depts, up, d, rebuilt[i].parents[d])
             S == {i \in 0..n : i \in D => Right(i)}
  <2>1. ASSUME NEW i \in 0..n, (i + 1)..n \subseteq S PROVE i \in S
    <3> SUFFICES ASSUME i \in D, NEW d \in DOMAIN rebuilt[i].parents
                 PROVE  Named(depts, up, d, rebuilt[i].parents[d])
      OBVIOUS
    <3>1. PICK j \in depts.subs[i] :
            \/ d \in DOMAIN rebuilt[j].parents /\ rebuilt[i].parents[d] = rebuilt[j].parents[d]
            \/ i # 0 /\ d = depts.id[j] /\ rebuilt[i].parents[d] = depts.id[i]
      BY <1>5
    <3>2. j \in M /\ j \in D /\ j \in (i + 1)..n /\ up[j] = i
      BY <1>1
    <3>3. CASE d \in DOMAIN rebuilt[j].parents /\ rebuilt[i].parents[d] = rebuilt[j].parents[d]
      <4>1. Right(j)
        BY <2>1, <3>2
      <4> QED
        BY <3>3, <4>1
    <3>4. CASE i # 0 /\ d = depts.id[j] /\ rebuilt[i].parents[d] = depts.id[i]
      BY <3>2, <3>4 DEF Named, M
    <3> QED
      BY <3>1, <3>3, <3>4
  <2> HIDE DEF S
  <2>2. 0..n \subseteq S
    BY <2>1, Downwards
  <2>3. Right(0)
    BY <1>1, <2>2 DEF S
  <2> QED
    BY <1>2, <2>3
<1> QED
  BY <1>4, <1>6, <1>7 DEF M

-----------------------------------------------------------------------------
(* Department::from_json() makes a forest of the items that are kept.      *)

Kept(items, logicError) ==
    IF logicError /\ \E i \in DOMAIN items : items[i].is = "odd" /\ items[i].parent \in {0} \cup Whole(items)
    THEN {} ELSE Whole(items)

Up(items) == [i \in DOMAIN items |-> items[i].parent]

LEMMA FromJsonForest ==
    ASSUME NEW n \in Nat, NEW items, IsTree(items, n), NEW logicError,
           NEW depts, depts = FromJson(items, logicError)
    PROVE  /\ DOMAIN depts.id = Kept(items, logicError)
           /\ \A j \in DOMAIN depts.id : depts.id[j] = items[j].id
           /\ IsForest(depts, Up(items), n)
<1> DEFINE M == Kept(items, logicError)
<1>1. FromJsonNode(items) = Whole(items)
  BY MadeIsWhole
<1>2. M = IF logicError /\ MeetsOdd(items) THEN {} ELSE FromJsonNode(items)
  BY <1>1 DEF MeetsOdd, Kept
<1>3. /\ depts.id = [j \in M |-> items[j].id]
      /\ depts.subs = [i \in {0} \cup M |-> Subs(items, i) \cap M]
  BY <1>2 DEF FromJson
<1>4. DOMAIN items = 1..n /\ M \subseteq Whole(items) /\ Whole(items) \subseteq 1..n
  BY DEF IsTree, Whole, Kept
<1>5. ASSUME NEW j \in Whole(items)
      PROVE  items[j].is = "valid" /\ items[j].parent \in {0} \cup Whole(items)
  <2>1. PICK S \in SUBSET DOMAIN items :
            j \in S /\ \A i \in S : items[i].is = "valid" /\ items[i].parent \in {0} \cup S
    BY DEF Whole
  <2>2. S \subseteq Whole(items)
    BY <2>1 DEF Whole
  <2> QED
    BY <2>1, <2>2
<1>6. \A j \in M : items[j].is = "valid" /\ items[j].parent \in {0} \cup M
  BY <1>5 DEF Kept
<1>7. \A j \in M : items[j].id \in Depts /\ items[j].parent < j /\ Up(items)[j] = items[j].parent
  BY <1>4 DEF IsTree, Up
<1> HIDE DEF M
<1>8. \A i \in {0} \cup M : Subs(items, i) \cap M = {j \in M : Up(items)[j] = i}
  BY <1>4, <1>6, <1>7 DEF Subs
<1>9. depts.subs = [i \in {0} \cup M |-> {j \in M : Up(items)[j] = i}]
  BY <1>3, <1>8
<1>10. DOMAIN depts.id = M /\ depts.id \in [M -> Depts] /\ \A j \in M : depts.id[j] = items[j].id
  BY <1>3, <1>7
<1>11. IsForest(depts, Up(items), n)
  BY <1>4, <1>6, <1>7, <1>9, <1>10 DEF IsForest
<1> QED
  BY <1>10, <1>11 DEF M

\* The rows of a tree, of its items.
LEMMA TreeRows ==
    ASSUME NEW n \in Nat, NEW items, IsTree(items, n), NEW logicError
    PROVE  Rows(FromJson(items, logicError), Root) =
                {<<items[i].id, IF items[i].parent = 0 THEN Root ELSE items[items[i].parent].id>> : i \in Kept(items, logicError)}
<1> DEFINE depts == FromJson(items, logicError)
           M == Kept(items, logicError)
           Parent(i) == IF items[i].parent = 0 THEN Root ELSE items[items[i].parent].id
<1>1. /\ DOMAIN depts.id = M /\ \A j \in M : depts.id[j] = items[j].id
      /\ IsForest(depts, Up(items), n)
  BY FromJsonForest
<1> HIDE DEF depts
<1>2. M \subseteq DOMAIN items
  BY DEF Kept, Whole
<1>3. Rows(depts, Root) = {<<depts.id[j], ParentId(depts, Up(items), j)>> : j \in M}
  BY <1>1, RowsAre
<1>4. ASSUME NEW j \in M PROVE ParentId(depts, Up(items), j) = Parent(j)
  <2>1. Up(items)[j] = items[j].parent
    BY <1>2 DEF Up
  <2>2. Up(items)[j] \in {0} \cup M
    BY <1>1 DEF IsForest
  <2> QED
    BY <1>1, <2>1, <2>2 DEF ParentId
<1> HIDE DEF M, Parent
<1>5. {<<depts.id[j], ParentId(depts, Up(items), j)>> : j \in M} = {<<items[j].id, Parent(j)>> : j \in M}
  BY <1>1, <1>4
<1> QED
  BY <1>3, <1>5 DEF depts, M, Parent

-----------------------------------------------------------------------------
(* The invariant: every row is one of Depts \X Nodes, and the rows next to *)
(* a tree are its own.                                                     *)

TableInv ==
    /\ db = [depts |-> db.depts, pkgmap |-> db.pkgmap]
    /\ db.depts \subseteq Depts \X Nodes
    /\ db.pkgmap = {<<d, d>> : d \in Depts}

TextInv ==
    \/ text = NoText
    \/ text \in Listings
    \/ text \in Trees /\ db.depts = Rows(FromJson(text.items, text.logicError), Root)

LEMMA TreeText ==
    ASSUME NEW tree \in Trees
    PROVE  tree.is = "tree" /\ \E n \in Nat : IsTree(tree.items, n)
  BY TableAssumption DEF Trees, IsTree

LEMMA InitTable == Init => TableInv /\ TextInv
  BY DEF Init, TableInv, TextInv

LEMMA NextTable == TableInv /\ TextInv /\ [Next]_vars => TableInv' /\ TextInv'
<1> SUFFICES ASSUME TableInv, TextInv, [Next]_vars PROVE TableInv' /\ TextInv'
  OBVIOUS
<1>1. ASSUME NEW d \in Depts, NEW parent \in Depts \cup {Root}, StoreDepartmentMapping(d, parent)
      PROVE  TableInv' /\ TextInv'
  <2>1. TableInv'
    BY <1>1 DEF StoreDepartmentMapping, TableInv, Nodes
  <2>2. TextInv'
    BY <1>1 DEF StoreDepartmentMapping, TextInv
  <2> QED
    BY <2>1, <2>2
<1>2. CASE ReadTree
  <2>1. PICK tree \in Trees :
            text' = tree /\ db' = [db EXCEPT !.depts = Rows(FromJson(tree.items, tree.logicError), Root)]
    BY <1>2 DEF ReadTree
  <2>2. PICK n \in Nat : IsTree(tree.items, n)
    BY TreeText
  <2> DEFINE depts == FromJson(tree.items, tree.logicError)
             rows == Rows(depts, Root)
  <2>3. IsForest(depts, Up(tree.items), n)
    BY <2>2, FromJsonForest
  <2> HIDE DEF depts
  <2>4. rows = {<<depts.id[j], ParentId(depts, Up(tree.items), j)>> : j \in DOMAIN depts.id}
    BY <2>3, RowsAre
  <2>5. rows \subseteq Depts \X Nodes
    BY <2>3, <2>4 DEF IsForest, ParentId, Nodes
  <2>6. db' = [depts |-> rows, pkgmap |-> db.pkgmap]
    BY <2>1 DEF TableInv, depts
  <2> HIDE DEF rows
  <2>7. TableInv'
    BY <2>5, <2>6 DEF TableInv, Nodes
  <2>8. TextInv'
    BY <2>1, <2>6 DEF TextInv, rows, depts
  <2> QED
    BY <2>7, <2>8
<1>3. CASE ReadListing
  BY <1>3 DEF ReadListing, TableInv, TextInv, Nodes, Listings
<1>4. CASE UNCHANGED vars
  BY <1>4 DEF vars, TableInv, TextInv, Nodes, Trees, Listings
<1> QED
  BY <1>1, <1>2, <1>3, <1>4 DEF Next

LEMMA TableInvariant == Spec => [](TableInv /\ TextInv)
  BY InitTable, NextTable, PTL DEF Spec

\* There are only so many rows.
LEMMA TableIsFinite ==
    ASSUME TableInv
    PROVE  IsFiniteSet(db.depts)
<1>1. IsFiniteSet(Depts \X Nodes)
  BY TableAssumption, FS_AddElement, FS_Product DEF Nodes
<1> QED
  BY <1>1, FS_Subset DEF TableInv

\* The recursive SELECT from the children of p.
LEMMA DescendantsAreBelow ==
    ASSUME TableInv, NEW p
    PROVE  Recursive(db, Children(db, p)) = Below(p)
<1> DEFINE R == Recursive(db, Children(db, p))
<1>1. IsFiniteSet(db.depts)
  BY TableIsFinite
<1>2. \A d : Children(db, d) \subseteq Depts
  BY DEF TableInv, Children
<1>3. /\ Children(db, p) \subseteq R /\ Closed(db, R)
      /\ \A S : (Children(db, p) \subseteq S /\ Closed(db, S)) => R \subseteq S
  BY <1>1, RecursiveIsClosure
<1>4. R \subseteq Depts
  BY <1>2, <1>3 DEF Closed
<1> HIDE DEF R
<1>5. R \subseteq Below(p)
  BY <1>3, <1>4 DEF Below, Closed
<1>6. Below(p) \subseteq R
  BY <1>3, <1>4 DEF Below, Closed
<1> QED
  BY <1>5, <1>6 DEF R

\* With a row of its own p is one of the departments looked at, and nothing else
\* changes.
LEMMA OwnRow ==
    ASSUME TableInv, NEW p
    PROVE  Recursive(db, {p} \cup Children(db, p)) = {p} \cup Recursive(db, Children(db, p))
<1> DEFINE R == Recursive(db, Children(db, p))
           own == {p} \cup Children(db, p)
<1>1. IsFiniteSet(db.depts)
  BY TableIsFinite
<1>2. Children(db, p) \subseteq R /\ Closed(db, R)
  BY <1>1, RecursiveIsClosure
<1>3. own \subseteq {p} \cup R /\ Closed(db, {p} \cup R)
  BY <1>2 DEF Closed
<1> HIDE DEF own, R
<1>4. own \subseteq Recursive(db, own) /\ Closed(db, Recursive(db, own))
  BY <1>1, RecursiveIsClosure
<1>5. Recursive(db, own) \subseteq {p} \cup R
  BY <1>1, <1>3, RecursiveIsClosure
<1>6. Children(db, p) \subseteq Recursive(db, own) /\ p \in Recursive(db, own)
  BY <1>4 DEF own
<1>7. R \subseteq Recursive(db, own)
  BY <1>1, <1>4, <1>6, RecursiveIsClosure DEF R
<1>8. Recursive(db, own) = {p} \cup R
  BY <1>5, <1>6, <1>7
<1> QED
  BY <1>8 DEF own, R

\* The recursive SELECTs find the departments at every depth and no others, for
\* every table of departments, cycles and several parents included
\* (is_descendant_of_department, get_packages_for_department, is_empty).
THEOREM QueriesFollow == Spec => []QueriesFollowParents
<1>1. TableInv => QueriesFollowParents
  <2> SUFFICES ASSUME TableInv, NEW p \in Nodes
               PROVE  /\ {d \in Depts : IsDescendant(db, d, p)} = Below(p)
                      /\ PackagesFor(db, p) = {d \in Depts : d \in Below(p) \/ (d = p /\ Parents(db, d) # {})}
                      /\ IsEmpty(db, p) <=> (Below(p) = {} /\ \A d \in Depts : d = p => Parents(db, d) = {})
    BY DEF QueriesFollowParents
  <2>1. Recursive(db, Children(db, p)) = Below(p) /\ Below(p) \subseteq Depts
    BY DescendantsAreBelow DEF Below
  <2>2. {d \in Depts : IsDescendant(db, d, p)} = Below(p)
    BY <2>1 DEF IsDescendant
  <2>3. \A rows : {m[1] : m \in {x \in db.pkgmap : x[2] \in rows}} = Depts \cap rows
    <3> TAKE rows
    <3>1. db.pkgmap = {<<d, d>> : d \in Depts}
      BY DEF TableInv
    <3>2. ASSUME NEW m \in {x \in db.pkgmap : x[2] \in rows}
          PROVE  m[1] \in Depts \cap rows
      BY <3>1, <3>2
    <3>3. ASSUME NEW d \in Depts \cap rows
          PROVE  \E m \in {x \in db.pkgmap : x[2] \in rows} : m[1] = d
      <4>1. <<d, d>> \in db.pkgmap
        BY <3>1
      <4>2. <<d, d>>[1] = d /\ <<d, d>>[2] = d
        OBVIOUS
      <4> QED
        BY <4>1, <4>2
    <3> QED
      BY <3>2, <3>3
  <2>4. PackagesFor(db, p) = {d \in Depts : d \in Below(p) \/ (d = p /\ Parents(db, d) # {})}
    <3>1. CASE Parents(db, p) = {}
      <4>1. PackagesFor(db, p) = Depts \cap Recursive(db, {} \cup Children(db, p))
        BY <2>3, <3>1 DEF PackagesFor
      <4>2. {} \cup Children(db, p) = Children(db, p)
        OBVIOUS
      <4> QED
        BY <2>1, <3>1, <4>1, <4>2
    <3>2. CASE Parents(db, p) # {}
      <4>1. PackagesFor(db, p) = Depts \cap Recursive(db, {p} \cup Children(db, p))
        BY <2>3, <3>2 DEF PackagesFor
      <4>2. PackagesFor(db, p) = Depts \cap ({p} \cup Below(p))
        BY <2>1, <4>1, OwnRow
      <4> QED
        BY <2>1, <3>2, <4>2
    <3> QED
      BY <3>1, <3>2
  <2>5. IsEmpty(db, p) <=> (Below(p) = {} /\ \A d \in Depts : d = p => Parents(db, d) = {})
    BY <2>1, <2>4 DEF IsEmpty
  <2> QED
    BY <2>2, <2>4, <2>5
<1> QED
  BY <1>1, TableInvariant, PTL

-----------------------------------------------------------------------------
(* The texts.                                                              *)

\* Whatever tree the store sends, an item that is malformed costs its own subtree
\* and nothing else, or, where JsonCpp refuses to read it, everything
\* (Department::from_json, store_departments).
THEOREM MalformedCostsItsSubtree == Spec => []OnlySubtreesAreLost
<1>1. TextInv => OnlySubtreesAreLost
  <2> SUFFICES ASSUME TextInv, text.is = "tree" PROVE OnlySubtreesAreLost
    BY DEF OnlySubtreesAreLost
  <2>1. text \in Trees /\ db.depts = Rows(FromJson(text.items, text.logicError), Root)
    BY DEF TextInv, NoText, Listings
  <2> DEFINE items == text.items
             kept == Kept(items, text.logicError)
             lost == text.logicError /\ \E i \in DOMAIN items :
                         items[i].is = "odd" /\ items[i].parent \in {0} \cup Whole(items)
             Parent(i) == IF items[i].parent = 0 THEN Root ELSE items[items[i].parent].id
  <2>2. db.depts = {<<items[i].id, Parent(i)>> : i \in kept}
    BY <2>1, TreeText, TreeRows
  <2>3. kept = IF lost THEN {} ELSE Whole(items)
    BY DEF Kept
  <2> HIDE DEF kept, lost, Parent
  <2>4. db.depts = IF lost THEN {} ELSE {<<items[i].id, Parent(i)>> : i \in Whole(items)}
    BY <2>2, <2>3
  <2> QED
    BY <2>4 DEF OnlySubtreesAreLost, lost, Parent
<1> QED
  BY <1>1, TableInvariant, PTL

\* The lookup built from any tree agrees with the rows stored of it, slugs that
\* occur twice included (DepartmentLookup::rebuild, get_parent,
\* store_departments).
THEOREM LookupsFollow == Spec => []LookupFollowsDatabase
<1>1. TextInv => LookupFollowsDatabase
  <2> SUFFICES ASSUME TextInv, text.is = "tree" PROVE LookupFollowsDatabase
    BY DEF LookupFollowsDatabase
  <2>1. text \in Trees /\ db.depts = Rows(FromJson(text.items, text.logicError), Root)
    BY DEF TextInv, NoText, Listings
  <2>2. PICK n \in Nat : IsTree(text.items, n)
    BY <2>1, TreeText
  <2> DEFINE depts == FromJson(text.items, text.logicError)
             up == Up(text.items)
             lookup == Rebuild(depts)
             M == DOMAIN depts.id
             below == {d \in Depts : Parents(db, d) \ {Root} # {}}
  <2>3. IsForest(depts, up, n)
    BY <2>2, FromJsonForest
  <2> HIDE DEF depts, up
  <2>4. db.depts = {<<depts.id[j], ParentId(depts, up, j)>> : j \in M}
    BY <2>1, <2>3, RowsAre DEF depts
  <2>5. /\ lookup.known = {depts.id[j] : j \in M}
        /\ DOMAIN lookup.parents = {depts.id[j] : j \in {k \in M : up[k] # 0}}
        /\ \A d \in DOMAIN lookup.parents : Named(depts, up, d, lookup.parents[d])
    BY <2>3, RebuildIs
  <2> HIDE DEF lookup
  <2>6. \A j \in M : /\ depts.id[j] \in Depts
                     /\ up[j] # 0 => ParentId(depts, up, j) = depts.id[up[j]] /\ depts.id[up[j]] \in Depts
                     /\ up[j] = 0 => ParentId(depts, up, j) = Root
    BY <2>3 DEF IsForest, ParentId
  <2>7. ASSUME NEW d PROVE Parents(db, d) = {ParentId(depts, up, j) : j \in {k \in M : depts.id[k] = d}}
    <3> DEFINE named == {ParentId(depts, up, j) : j \in {k \in M : depts.id[k] = d}}
    <3>1. ASSUME NEW p \in Parents(db, d) PROVE p \in named
      <4>1. PICK row \in db.depts : row[1] = d /\ row[2] = p
        BY DEF Parents
      <4>2. PICK j \in M : row = <<depts.id[j], ParentId(depts, up, j)>>
        BY <2>4
      <4> QED
        BY <4>1, <4>2
    <3>2. ASSUME NEW j \in M, depts.id[j] = d PROVE ParentId(depts, up, j) \in Parents(db, d)
      <4>1. <<d, ParentId(depts, up, j)>> \in db.depts
        BY <2>4, <3>2
      <4>2. <<d, ParentId(depts, up, j)>>[1] = d /\ <<d, ParentId(depts, up, j)>>[2] = ParentId(depts, up, j)
        OBVIOUS
      <4> QED
        BY <4>1, <4>2 DEF Parents
    <3> QED
      BY <3>1, <3>2
  <2>8. below = DOMAIN lookup.parents
    <3>1. ASSUME NEW d \in below PROVE d \in DOMAIN lookup.parents
      <4>1. PICK j \in M : depts.id[j] = d /\ ParentId(depts, up, j) # Root
        BY <2>7
      <4> QED
        BY <2>5, <2>6, <4>1
    <3>2. ASSUME NEW d \in DOMAIN lookup.parents PROVE d \in below
      <4>1. PICK j \in M : depts.id[j] = d /\ up[j] # 0
        BY <2>5
      <4>2. d \in Depts /\ ParentId(depts, up, j) # Root
        BY <2>6, <4>1, TableAssumption
      <4>3. ParentId(depts, up, j) \in Parents(db, d)
        BY <2>7, <4>1
      <4> QED
        BY <4>2, <4>3
    <3> QED
      BY <3>1, <3>2
  <2> HIDE DEF below
  <2>9. Size(lookup) = Cardinality(below)
    BY <2>8 DEF Size
  <2>10. ASSUME NEW d \in Depts
         PROVE  /\ GetInfo(lookup, d) = {} <=> Parents(db, d) = {}
                /\ GetParent(lookup, d) = {} <=> d \notin below
                /\ GetParent(lookup, d) \subseteq Parents(db, d)
    <3>1. GetInfo(lookup, d) = {} <=> Parents(db, d) = {}
      <4>1. GetInfo(lookup, d) = {} <=> d \notin lookup.known
        BY DEF GetInfo
      <4>2. d \in lookup.known <=> \E j \in M : depts.id[j] = d
        BY <2>5
      <4> QED
        BY <2>7, <4>1, <4>2
    <3>2. GetParent(lookup, d) = IF d \in below THEN {lookup.parents[d]} ELSE {}
      BY <2>8 DEF GetParent
    <3>3. ASSUME d \in below PROVE lookup.parents[d] \in Parents(db, d)
      <4>1. Named(depts, up, d, lookup.parents[d])
        BY <2>5, <2>8, <3>3
      <4>2. PICK j \in M : up[j] # 0 /\ depts.id[j] = d /\ depts.id[up[j]] = lookup.parents[d]
        BY <4>1 DEF Named
      <4>3. lookup.parents[d] = ParentId(depts, up, j)
        BY <2>6, <4>2
      <4> QED
        BY <2>7, <4>2, <4>3
    <3> QED
      BY <3>1, <3>2, <3>3
  <2> QED
    BY <2>9, <2>10 DEF LookupFollowsDatabase, depts, lookup, below
<1> QED
  BY <1>1, TableInvariant, PTL

\* However "click list" is cut off, its listing gives no package and no version
\* that the whole of it would not give (package_names_from_stdout).
THEOREM CutsAddNothing == Spec => []CutListingAddsNothing
<1>1. TextInv => CutListingAddsNothing
  <2> SUFFICES ASSUME TextInv, text.is = "listing", NEW cut \in Cuts(text)
               PROVE  PackageNames(cut) \subseteq PackageNames([text EXCEPT !.terminated = TRUE])
    BY DEF CutListingAddsNothing
  <2>1. text \in Listings
    BY DEF TextInv, NoText, Trees
  <2>2. PICK m \in Nat : /\ text \in [is : {"listing"}, terminated : BOOLEAN, lines : [1..m -> Lines]]
    BY <2>1, TableAssumption DEF Listings
  <2> DEFINE whole == [text EXCEPT !.terminated = TRUE]
  <2>3. whole.terminated /\ whole.lines = text.lines /\ DOMAIN text.lines = 1..m
    BY <2>2
  <2>4. PICK n \in DOMAIN text.lines, left \in Lines : cut = CutIn(text, n, left)
    BY DEF Cuts
  <2>5. /\ ~cut.terminated /\ DOMAIN cut.lines = 1..n
        /\ \A i \in 1..n : i # n => cut.lines[i] = text.lines[i]
    BY <2>2, <2>3, <2>4 DEF CutIn
  <2> HIDE DEF whole
  <2> n \in 1..m
    BY <2>3
  <2>6. \A i \in 1..n : Complete(cut, i) <=> (i # n /\ Complete(whole, i))
    <3> TAKE i \in 1..n
    <3>1. CASE i = n
      <4>1. i + 1 \notin DOMAIN cut.lines
        BY <2>5, <3>1
      <4>2. ~Complete(cut, i)
        BY <2>5, <4>1, Zenon DEF Complete
      <4> QED
        BY <3>1, <4>2
    <3>2. CASE i # n
      <4>1. i + 1 \in 1..n /\ cut.lines[i] = whole.lines[i]
        BY <2>3, <2>5, <3>2
      <4> QED
        BY <2>3, <2>5, <3>2, <4>1 DEF Complete
    <3> QED
      BY <3>1, <3>2
  <2>7. ASSUME NEW j \in 1..n, Complete(cut, j),
               \A k \in 1..(j - 1) : Complete(cut, k) => cut.lines[k].name # cut.lines[j].name
        PROVE  cut.lines[j] \in PackageNames(whole)
    <3>1. j # n /\ Complete(whole, j) /\ cut.lines[j] = whole.lines[j] /\ j \in 1..m
      BY <2>3, <2>5, <2>6, <2>7
    <3>2. ASSUME NEW k \in 1..(j - 1), Complete(whole, k)
          PROVE  whole.lines[k].name # whole.lines[j].name
      <4>1. k \in 1..n /\ k # n
        OBVIOUS
      <4>2. Complete(cut, k) /\ cut.lines[k] = whole.lines[k]
        BY <2>3, <2>5, <2>6, <3>2, <4>1
      <4> QED
        BY <2>7, <3>1, <4>2
    <3> QED
      BY <2>3, <3>1, <3>2 DEF PackageNames
  <2> QED
    BY <2>5, <2>7 DEF PackageNames, whole
<1> QED
  BY <1>1, TableInvariant, PTL

=============================================================================
