\* An Elegance bridge: bulk query, safety poll, clock, commanded scene state.
SPECIFICATION FairSpec
CONSTANTS
    Bulk = TRUE
    ClockSync = TRUE
    PollOn = TRUE
    ScenePush = FALSE
    InitialDelay = 5
    MaxDelay = 12
    PollSlots = {p1, p2}
    MaxTails = 1
    CloseWithData = TRUE
INVARIANTS TypeOK NoStackedReconnects RetryNeverLost SafetyPollNeverLost ShutdownQuiet NothingLeftOpen LiveLinkIsAvailable
PROPERTIES UsesPort Recovers ShutdownCompletes
