\* An Elegance and a JetStream entry.
SPECIFICATION Spec
CONSTANTS
    Wall <- SmallWall
    SwitchIds = {1}
    LoadIds = {1}
    ButtonIds <- SomeButtons
    Scenes = {1}
    DeviceIds = {d1, d2}
    NoDevice = NoDevice
    Tasks <- SomeTasks
    MaxLine = 1
INVARIANTS AutomationsRunAsPressed ButtonsAsLeft ScenesAsSwitched
PROPERTIES HeldIsReleased
