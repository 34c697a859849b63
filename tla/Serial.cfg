\* A line of either kind: on Elegance any reply fulfils a request and commands
\* follow without a pause; on JetStream replies name their device.
SPECIFICATION FairSpec
CONSTANTS
    Callers = {c1, c2, c3}
    Keys = {k1, k2}
    Nobody = Nobody
    MaxDue = 2
INVARIANTS LockDiscipline OneReplyIsOwn RightDevice
PROPERTIES ServedInLine EveryCallReturns
