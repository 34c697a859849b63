\* An Elegance bridge: one load that reports its changes, one that does not.
SPECIFICATION FairSpec
CONSTANTS
    Loads = {l1, l2}
    Levels = {0, 40, 99}
    Full = 99
    Pushing = {l1}
    MaxLine = 3
    MaxOwed = 2
INVARIANTS OnMatchesLevel ShownAsReported
PROPERTIES PollsRepair
