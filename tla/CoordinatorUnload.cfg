\* An Elegance bridge with the clock option off, unloaded at any moment.
SPECIFICATION FairSpec
CONSTANTS
    Bulk = TRUE
    ClockSync = FALSE
    PollOn = TRUE
    ScenePush = FALSE
    InitialDelay = 5
    MaxDelay = 12
    PollSlots = {p1}
    MaxTails = 1
    CloseWithData = FALSE
PROPERTIES NotReopened
