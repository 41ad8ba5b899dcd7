CONSTANTS
    ann = ann
    bob = bob
    new = new
    People = {ann, bob, new}
    NoLogin = {bob}
    Scenes <- MCScenes
    None = None
    Numbers = {1, 2, 12}
    Filters = {"priority", "days"}
    Searches = {"", "one", "word", "half"}
    Passing <- MCPassing
    Matching <- MCMatching
    Bare <- MCBare
    Shifts <- MCShifts
SPECIFICATION ScreensSpec
INVARIANTS
    RosterCurrent
    WristbandKept
    HoverCloses
    PreferenceStaysLocal
    ChoiceShown
    ViewFollows
    PageWalksTable
PROPERTY PinStays
CHECK_DEADLOCK FALSE
