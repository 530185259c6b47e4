CONSTANTS
    a = a
    b = b
    c = c
    p1 = p1
    en = en
    Pkgs = {p1}
    Locales = {en}
    Root = Root
    None = None
    Depts <- MCDepts
    Forests <- MCForests
SPECIFICATION Spec
INVARIANT OneDepartmentPerPackage
