CONSTANTS
    Searches = {s1}
    Previews = {p1}
    Activations = {a1}
    Stops = {d1}
    LonelyResults = {a1}
    Quit = Quit
SPECIFICATION FairSpec
INVARIANT HolderThrowsOnlyAfterTeardown
PROPERTIES
    WaitersReleased
    SuccessInvalidates
    StopEndsWorld
CHECK_DEADLOCK FALSE
