\* Four slots: named, silent, without a name, named.
SPECIFICATION ScanSpec
CONSTANTS
    s1 = s1
    s2 = s2
    s3 = s3
    s4 = s4
    scan1 = scan1
    Callers = {scan1}
    Scanner = scan1
    Keys = {s1, s2, s3, s4}
    Slots <- SomeSlots
    Configured = {s1, s3, s4}
    Blank = {s3}
    Nobody = Nobody
    MaxDue = 3
INVARIANTS ScanIsWhole
PROPERTIES ScanEnds
