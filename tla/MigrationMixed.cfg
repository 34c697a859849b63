\* A household with both systems, and a second JetStream bridge.
SPECIFICATION Spec
CONSTANTS
    e1 = e1
    j1 = j1
    j2 = j2
    v1entry = v1entry
    Nobody = Nobody
    Created = Created
    Entries = {e1, j1, j2}
    SystemOf <- Systems
    Wanted <- MixedWanted
    V1Rows <- MixedRows
INVARIANTS OwnSystemOnly OthersUntouched OnlyScenesLost AdoptedNotDuplicated CompletedRunIsComplete
\* Nothing is left to happen once every entry was deleted.
CHECK_DEADLOCK FALSE
