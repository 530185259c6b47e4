--------------------------- MODULE DepartmentsTable ---------------------------
(***************************************************************************)
(* The departments table: filled row by row with anything that             *)
(* store_department_mapping() may write, cycles and several parents        *)
(* included, or with the departments of a tree the store sent.  The        *)
(* queries of DepartmentsQueries read it, the readers of StoreReplies fill *)
(* it; the listings of "click list" are read next to it.                   *)
(***************************************************************************)
EXTENDS DepartmentsQueries, StoreReplies

CONSTANTS
    Depts, Root,
    MaxItems, MaxLines,     \* bounds on the length of a text
    Names, Versions         \* the parts of a line of a listing, "" where one is missing

ASSUME TableAssumption ==
    /\ IsFiniteSet(Depts) /\ Root \notin Depts
    /\ MaxItems \in Nat /\ MaxLines \in Nat

VARIABLES
    db,
    text    \* the text that was read, if one was

vars == <<db, text>>

\* An item is embedded in one that comes before it.
Trees ==
    UNION {[is : {"tree"}, logicError : BOOLEAN,
            items : {items \in [1..n -> [parent : 0..n, id : Depts, is : {"valid", "invalid", "odd"}]] :
                        \A i \in 1..n : items[i].parent < i}] : n \in 0..MaxItems}

Lines == [name : Names, version : Versions]

Listings == UNION {[is : {"listing"}, terminated : BOOLEAN, lines : [1..n -> Lines]] : n \in 1..MaxLines}

NoText == [is |-> "none"]

\* A package of its own for every department.
Init ==
    /\ db = [depts |-> {}, pkgmap |-> {<<d, d>> : d \in Depts}]
    /\ text = NoText

StoreDepartmentMapping(d, parent) ==
    /\ text = NoText
    /\ db' = [db EXCEPT !.depts = @ \cup {<<d, parent>>}]
    /\ UNCHANGED text

\* Bound: a text is read first, and once.
ReadTree ==
    /\ text = NoText /\ db.depts = {}
    /\ \E tree \in Trees :
        /\ text' = tree
        /\ db' = [db EXCEPT !.depts = Rows(FromJson(tree.items, tree.logicError), Root)]

ReadListing ==
    /\ text = NoText /\ db.depts = {}
    /\ text' \in Listings
    /\ UNCHANGED db

Next ==
    \/ \E d \in Depts, parent \in Depts \cup {Root} : StoreDepartmentMapping(d, parent)
    \/ ReadTree
    \/ ReadListing

Spec == Init /\ [][Next]_vars

-----------------------------------------------------------------------------
Nodes == Depts \cup {Root}

\* The departments at any depth below p: those in every set that has the children
\* of p and, with a department, its children.
Below(p) ==
    {d \in Depts : \A S \in SUBSET Depts :
        (Children(db, p) \subseteq S /\ \A c \in S : Children(db, c) \subseteq S) => d \in S}

\* is_descendant_of_department(), and the packages and emptiness of a department,
\* follow the parent relation to any depth and stop on a cycle; a department
\* without a row has only the packages of those below it.
QueriesFollowParents ==
    \A p \in Nodes :
        /\ {d \in Depts : IsDescendant(db, d, p)} = Below(p)
        /\ PackagesFor(db, p) = {d \in Depts : d \in Below(p) \/ (d = p /\ Parents(db, d) # {})}
        /\ IsEmpty(db, p) <=> (Below(p) = {} /\ \A d \in Depts : d = p => Parents(db, d) = {})

\* The items that are valid and embedded in valid ones only: they can be collected
\* with all that embeds them.
Whole(items) ==
    UNION {S \in SUBSET DOMAIN items : \A i \in S : items[i].is = "valid" /\ items[i].parent \in {0} \cup S}

\* The rows stored of a tree are those of its whole items: what is malformed costs
\* its own subtree and nothing else, or, where JsonCpp refuses to read it,
\* everything (Department::from_json, store_departments).
OnlySubtreesAreLost ==
    text.is = "tree" =>
        LET items == text.items
            lost == text.logicError /\ \E i \in DOMAIN items :
                        items[i].is = "odd" /\ items[i].parent \in {0} \cup Whole(items)
            Parent(i) == IF items[i].parent = 0 THEN Root ELSE items[items[i].parent].id
        IN  db.depts = IF lost THEN {} ELSE {<<items[i].id, Parent(i)>> : i \in Whole(items)}

\* The lookup made of a tree and the database agree, slugs that occur twice
\* included: the lookup knows the departments that have a row and finds for each
\* a parent its rows name, and none only where they name none but the root
\* (DepartmentLookup::rebuild, get_parent, store_departments).
LookupFollowsDatabase ==
    text.is = "tree" =>
        LET lookup == Rebuild(FromJson(text.items, text.logicError))
            below == {d \in Depts : Parents(db, d) \ {Root} # {}}
        IN  /\ Size(lookup) = Cardinality(below)
            /\ \A d \in Depts :
                /\ GetInfo(lookup, d) = {} <=> Parents(db, d) = {}
                /\ GetParent(lookup, d) = {} <=> d \notin below
                /\ GetParent(lookup, d) \subseteq Parents(db, d)

\* What may be left of a listing when the command ends in or after its n-th line.
CutIn(listing, n, left) ==
    [listing EXCEPT !.terminated = FALSE, !.lines = [i \in 1..n |-> IF i = n THEN left ELSE listing.lines[i]]]
Cuts(listing) == {CutIn(listing, n, left) : n \in DOMAIN listing.lines, left \in Lines}

\* A listing that is cut off gives no package, and no version, that the whole of
\* it would not give (package_names_from_stdout).
CutListingAddsNothing ==
    text.is = "listing" => \A cut \in Cuts(text) : PackageNames(cut) \subseteq PackageNames([text EXCEPT !.terminated = TRUE])

=============================================================================
