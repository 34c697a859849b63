\* Two dialogs at a time, two ports; files of up to five lines, and of two devices
\* or scenes.
SPECIFICATION SetupSpec
CONSTANTS
    Flows = {f1, f2}
    Ports = {p1, p2}
    PollIntervals = {0, 60}
    Forms <- SomeForms
    Finds <- SomeFinds
    Limits <- SmallLimits
    Headers <- SomeHeaders
    Bodies <- SomeBodies
    Starts <- SomeStarts
    Devices <- SomeDevices
    Scenes <- SomeScenes
    MaxLines <- SmallFiles
INVARIANTS InRange EntryIsLastForm OneEntryPerBridge ElgIsRead ImportFitsFlow
\* Nothing is left to happen at the end of a file.
CHECK_DEADLOCK FALSE
