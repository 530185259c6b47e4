CONSTANTS
    games = games
    puzzles = puzzles
    music = music
    p1 = p1
    p2 = p2
    p3 = p3
    a1 = a1
    a2 = a2
    a3 = a3
    extra = extra
    Root = Root
    NoDb = NoDb
    Depts <- MCDepts
    Pkgs <- MCPkgs
    DeptOrder <- MCDeptOrder
    Databases <- MCDatabases
    Title <- MCTitle
    NameRank <- MCNameRank
    Apps <- AllFiles
    Owner <- InSecond
    DefaultDept <- TopDefault
    Matching <- MCMatching
    broken = broken
    hidden = hidden
    scope = scope
    Unknown = Unknown
    Scopes = {scope}
    Says <- MCSays
    IdParts <- MCIdParts
    NonClickApps = {}
    ShowDesktopApps = FALSE
    CoreSetting <- MCCoreSetting
    CoreDefault <- MCCoreDefault
    Hooks <- MCHooks
    Clicks = {p1, p2}
    PlainUris = {a1, a2, a3, broken}
    Ignored = {}
    Queries = {TRUE, FALSE}
    Others = {p1, p2}
SPECIFICATION Spec
INVARIANTS
    TypeOK
    MappedAppsReachable
    EveryPackageShown
    OpenOpensResult
PROPERTIES
    SingleUninstallLeavesEmptied
    LeftOnlyWhenEmpty
    UninstalledWasRemovable
