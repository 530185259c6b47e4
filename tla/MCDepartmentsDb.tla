--------------------------- MODULE MCDepartmentsDb ---------------------------
(* DepartmentsDb on three departments and the hierarchies below: a chain,  *)
(* a department with two parents, and one with a nameless department.      *)
EXTENDS DepartmentsDb, TLC

CONSTANTS a, b, c

Forest(top, ofA, ofB, unnamed) ==
    [kids |-> [d \in Depts \cup {Root} |->
                 CASE d = Root -> top [] d = a -> ofA [] d = b -> ofB [] OTHER -> <<>>],
     unnamed |-> unnamed]

MCDepts == {a, b, c}

Chain == Forest(<<a>>, <<b>>, <<c>>, {})
TwoParents == Forest(<<b, a>>, <<c>>, <<c>>, {})
Nameless == Forest(<<a>>, <<b, c>>, <<>>, {c})

MCForests == {Chain, TwoParents, Nameless}

\* Locales are only compared.
LocaleSymmetry == Permutations(Locales)

=============================================================================
