CONSTANTS
    a = a
    b = b
    c = c
    p1 = p1
    en = en
    es = es
    Pkgs = {p1}
    Locales = {en, es}
    Root = Root
    None = None
    Depts <- MCDepts
    Forests <- MCForests
SYMMETRY LocaleSymmetry
SPECIFICATION Spec
INVARIANTS
    TypeOK
    TreeIsWhole
    TreeIsNamed
    ParentsAreKnown
PROPERTY OnlyStoresPublishTrees
