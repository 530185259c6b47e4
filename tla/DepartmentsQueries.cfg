CONSTANTS
    Depts = {d1, d2, d3}
    Root = Root
    MaxItems = 3
    MaxLines = 3
    Names = {"", "p", "q"}
    Versions = {"", "1", "1.0"}
SPECIFICATION Spec
INVARIANTS
    QueriesFollowParents
    OnlySubtreesAreLost
    LookupFollowsDatabase
    CutListingAddsNothing
CHECK_DEADLOCK FALSE
