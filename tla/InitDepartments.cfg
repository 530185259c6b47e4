CONSTANTS
    Locales = {l1, l2}
    Packages = {k1, k2}
    Click = Click
    OnError = OnError
    OnNothing = OnNothing
    OnLast = OnLast
    Quit = Quit
    Unset = Unset
SPECIFICATION FairSpec
INVARIANTS
    TypeOK
    SuccessIsComplete
    StopsAfterLastReply
    DeathHasACause
    DetailsAfterBootstrap
PROPERTY Terminates
CHECK_DEADLOCK FALSE
