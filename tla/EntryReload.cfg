SPECIFICATION FairSpec
CONSTANTS
    Coords = {c1, c2, c3}
    Options = {o1, o2}
    MaxReloads = 2
INVARIANT HolderLetsGo
INVARIANT OptionsInForce
PROPERTY ReloadSucceeds
