---------------------------- MODULE StoreReplies ----------------------------
(***************************************************************************)
(* The texts the scope reads: the store's tree of departments              *)
(* (Department::from_json), the lookup built from it (DepartmentLookup)    *)
(* and the rows store_departments() writes of it, and what "click list"    *)
(* prints (package_names_from_stdout).                                     *)
(*                                                                         *)
(* A tree of departments is the sequence of its JSON items, each with the  *)
(* position of the item it is embedded in, 0 for none, and its slug.  It   *)
(* "is" valid, or invalid because a mandatory attribute is missing or of   *)
(* another type, or odd because JsonCpp itself throws when it is read (it  *)
(* is not an object, or its "has_children" no boolean).  A department is   *)
(* known by the position of the item it was made of, as the code knows it  *)
(* by a pointer, and a list of departments is a set of positions, in their *)
(* order.  A listing is the sequence of its lines, whose last one may not  *)
(* be terminated.                                                          *)
(***************************************************************************)
EXTENDS Naturals, FiniteSets

\* Mutant: an invalid item is dropped, what is embedded in it is not.
SubsFlattened(items, i) ==
    {j \in DOMAIN items :
        /\ items[j].is = "valid"
        /\ \/ items[j].parent = i
           \/ items[j].parent # 0 /\ items[items[j].parent].is = "invalid" /\ items[items[j].parent].parent = i}

\* The departments made of the items embedded in i: an item that throws a
\* runtime_error is dropped, with all that is embedded in it.
Subs(items, i) == {j \in DOMAIN items : items[j].parent = i /\ items[j].is = "valid"}

\* from_json_node(): all the departments made of the text.
FromJsonNode(items) ==
    LET made[i \in {0} \cup DOMAIN items] == UNION {{j} \cup made[j] : j \in Subs(items, i)}
    IN  made[0]

\* An odd item is reached.
MeetsOdd(items) ==
    \E j \in DOMAIN items : items[j].is = "odd" /\ items[j].parent \in {0} \cup FromJsonNode(items)

\* from_json(): JsonCpp's own exception is no runtime_error (logicError) or, in
\* its early versions, one; the former takes all the departments with it.  The
\* list returned is that of 0.
FromJson(items, logicError) ==
    LET made == IF logicError /\ MeetsOdd(items) THEN {} ELSE FromJsonNode(items)
    IN  [id |-> [j \in made |-> items[j].id],
         subs |-> [i \in {0} \cup made |-> Subs(items, i) \cap made]]

-----------------------------------------------------------------------------
(* DepartmentLookup: the ids it knows and the parents it found, by id.     *)

\* What maps set one after the other leave: a later entry replaces an earlier one.
InOrder(maps) ==
    LET Setters(d) == {j \in DOMAIN maps : d \in DOMAIN maps[j]}
        Last(d) == CHOOSE j \in Setters(d) : \A k \in Setters(d) : k <= j
    IN  [d \in UNION {DOMAIN maps[j] : j \in DOMAIN maps} |-> maps[Last(d)][d]]

\* map with the parent of d, which an entry of map replaces.
SetFirst(d, parent, map) == [e \in {d} \cup DOMAIN map |-> IF e \in DOMAIN map THEN map[e] ELSE parent]

\* Mutant: only the top-level departments and those in them are visited.
RebuildTwoLevels(depts) ==
    LET tops == depts.subs[0]
        seconds == UNION {depts.subs[i] : i \in tops}
    IN  [known |-> {depts.id[i] : i \in tops \cup seconds},
         parents |-> InOrder([j \in seconds |->
                        [d \in {depts.id[j]} |-> depts.id[CHOOSE i \in tops : j \in depts.subs[i]]]])]

\* rebuild(): each department is known before its sub-departments, and is the
\* parent of each before that is visited in its turn.
Rebuild(depts) ==
    LET rebuilt[i \in DOMAIN depts.subs] ==
            [known |-> (IF i = 0 THEN {} ELSE {depts.id[i]}) \cup UNION {rebuilt[j].known : j \in depts.subs[i]},
             parents |-> InOrder([j \in depts.subs[i] |->
                IF i = 0 THEN rebuilt[j].parents ELSE SetFirst(depts.id[j], depts.id[i], rebuilt[j].parents)])]
    IN  rebuilt[0]

\* size() counts the departments that have a parent.
Size(lookup) == Cardinality(DOMAIN lookup.parents)

\* get_parent() and get_department_info(): a null pointer for an id not found.
GetParent(lookup, d) == {lookup.parents[e] : e \in {d} \cap DOMAIN lookup.parents}
GetInfo(lookup, d) == {d} \cap lookup.known

\* The rows of depts after store_departments().
Rows(depts, root) ==
    LET Id(i) == IF i = 0 THEN root ELSE depts.id[i]
        rows[i \in DOMAIN depts.subs] ==
            UNION {{<<depts.id[j], Id(i)>>} \cup rows[j] : j \in depts.subs[i]}
    IN  rows[0]

-----------------------------------------------------------------------------
(* package_names_from_stdout()                                             *)

\* Mutant: the last line counts even if it was cut off.
CompleteUnterminated(listing, i) == listing.lines[i].name # "" /\ listing.lines[i].version # ""

\* A line counts if it has both parts and its end was read.
Complete(listing, i) ==
    /\ listing.lines[i].name # "" /\ listing.lines[i].version # ""
    /\ i + 1 \in DOMAIN listing.lines \/ listing.terminated

\* A PackageSet compares names only: the first line of a package is kept.
PackageNames(listing) ==
    {listing.lines[i] : i \in {j \in DOMAIN listing.lines :
        /\ Complete(listing, j)
        /\ \A k \in 1..(j - 1) : Complete(listing, k) => listing.lines[k].name # listing.lines[j].name}}

=============================================================================
