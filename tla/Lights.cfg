\* Every brightness, the borders of the bitmaps, and lines that meet.
SPECIFICATION LightSpec
CONSTANTS
    ReadMax = 100
    Lights = {1, 2, 24, 25, 192}
    Relays = {2}
    Days <- SomeDays
    MaxLost = 1
    MaxComing = 2
INVARIANTS LinesWhole BrightnessKept BitmapRight
CHECK_DEADLOCK FALSE
