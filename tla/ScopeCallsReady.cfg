CONSTANTS
    Searches = {s1}
    Previews = {p1, p2}
    Activations = {}
    Stops = {}
    LonelyResults = {}
    Quit = Quit
SPECIFICATION Spec
INVARIANT ReadyBeforeRun
CHECK_DEADLOCK FALSE
