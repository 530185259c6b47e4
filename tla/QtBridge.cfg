CONSTANTS
    Tasks = {t1, t2}
    Lockers = {d1, d2}
    Quit = Quit
SPECIFICATION FairSpec
INVARIANTS
    TypeOK
    DroppedOnlyBehindQuit
PROPERTIES
    SettledOnce
    PostedIsAnswered
    ImplementsTaskRunner
CHECK_DEADLOCK FALSE
