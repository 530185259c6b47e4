CONSTANTS
    Searches = {}
    Previews = {p1}
    Activations = {a1, a2}
    Stops = {d1}
    LonelyResults = {a1}
    Quit = Quit
SPECIFICATION Spec
INVARIANTS
    TypeOK
    FrameOutlivesCallbacks
    DeathHasACause
    ReplyTellsOutcome
    OnlyUnreadyCallsStrand
PROPERTIES
    ImplementsUninstallService
CHECK_DEADLOCK FALSE
