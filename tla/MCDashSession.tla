---------------------------- MODULE MCDashSession ----------------------------
(* DashSession on departments games (with a sub-department puzzles) and    *)
(* music, and the applications of two click packages and another one.      *)
EXTENDS DashSession

CONSTANTS games, puzzles, music, p1, p2, p3, a1, a2, a3, extra, broken, hidden, scope

MCDepts == {games, puzzles, music}
MCPkgs == {p1, p2, p3}
MCDeptOrder == <<music, puzzles, games>>

Tree == {<<games, Root>>, <<puzzles, games>>, <<music, Root>>}
Flat == {<<games, Root>>, <<puzzles, Root>>, <<music, Root>>}

\* Some packages have no row and one has two, as a failed DELETE leaves it; in the
\* last database a department has no name.
MCDatabases ==
    [depts : {Tree}, named : {MCDepts},
     pkgmap : {{<<p1, games>>, <<p2, puzzles>>}, {<<p1, puzzles>>, <<p2, puzzles>>, <<p3, music>>},
               {<<p1, music>>, <<p1, puzzles>>, <<p2, games>>}}]
    \cup [depts : {Flat}, named : {MCDepts, {games, music}}, pkgmap : {{<<p1, games>>, <<p2, puzzles>>}}]

\* One application for each package.
OneEach == {a1, a2, a3}

\* A second application in the first package.
TwoInFirst == {a1, a2, a3, extra}

\* A second application in the second package instead, and in the first a file
\* with an incomplete application id and one for another shell.
AllFiles == {a1, a2, a3, extra, broken, hidden}

\* The second and the additional application have one title.
MCTitle == [a \in Apps |-> CASE a \in {a1, broken} -> 1 [] a \in {a2, extra} -> 2 [] OTHER -> 3]
MCNameRank == [p \in Pkgs \cup {Unknown} |-> CASE p = p1 -> 1 [] p = p2 -> 2 [] p = p3 -> 3 [] OTHER -> 4]

InFirst == [a \in Apps |-> CASE a = a2 -> p2 [] a = a3 -> p3 [] OTHER -> p1]
InSecond == [a \in Apps |-> CASE a \in {a2, extra} -> p2 [] a = a3 -> p3 [] OTHER -> p1]

\* The third application belongs to no click package.
MCSays == [a \in Apps |->
    CASE a = a3 -> {"Desktop Entry", "X-Ubuntu-Touch"}
      [] a = hidden -> {"Desktop Entry", "X-Ubuntu-Application-ID", "OnlyShowIn"}
      [] OTHER -> {"Desktop Entry", "X-Ubuntu-Application-ID"}]
MCIdParts == [a \in Apps |-> IF a = broken THEN 2 ELSE 3]

\* Only the third application names a default department: a top-level one,
\* or one below.
TopDefault == [a \in Apps |-> IF a = a3 THEN music ELSE Root]
DeepDefault == [a \in Apps |-> IF a = a3 THEN puzzles ELSE Root]

MCMatching == {a1, a3} \cap Apps
MCCoreSetting == <<<<p3>>, <<p2, extra>>>>
MCCoreDefault == <<<<p1, a1>>>>
NoCoreSetting == <<>>

\* A package's applications in the order of the files; the second has a scope
\* hook before them.
MCHooks == [p \in {p1, p2} |->
    (IF p = p2 THEN <<scope>> ELSE <<>>) \o SelectSeq(<<a1, broken, a2, hidden, a3, extra>>, LAMBDA a : a \in Apps /\ PackageOf[a] = p)]

=============================================================================
