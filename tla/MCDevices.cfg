SPECIFICATION MCSpec
CONSTANTS
    RomBits = 3
    Codes <- MCCodes
    MaxProbes = 2
    Probes = {b20, s20}
    B20 = {b20}
    AllDevices = all_devices
    ResolutionTime <- MCResolutionTime
    AssertCount = 1
    HoldCount = 3
    Bounce = 1
    Settle = 4
    Turns = 2
    Width = 8
    Height = 16
    Picture <- MCPicture
    Glyph <- MCGlyph
    CharWidth <- MCCharWidth
    LineHeight = 3
    FirstChar = 32
    Shapes <- MCShapes
    Backgrounds <- MCBackgrounds
    Utf8 <- MCUtf8
    MaxLogLines = 2
    LogSize = 3
    MaxWritten = 4
    FrameCount = 4
    Hides = {2, 3}
    DisplaySize = 8
    TicksPerFrame = 2
    TicksPerTransition = 2
    UpdateInterval = 142
INVARIANTS
    WireInv ReadingsHold KnobInv ShapesRight PanelInv LogRight FramesInv
PROPERTIES
    SearchEnds PressReported TransitionsLand
CHECK_DEADLOCK FALSE
