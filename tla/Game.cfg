\* Any button, any outcome, missing maps, lost connections.  Three
\* levels one after the other, each with any setup.  Three pickups that reach
\* half a tile or a whole one.  A bot with three positions, or one that walks at
\* random.  Two people and two pickups to draw; the numbers and places of the HUD.
CONSTANTS
    RoundTimer = 2
    LAST_LVL = 2
    MayGoSilent = TRUE
    MapFound = {TRUE, FALSE}
    Lines = 2
    Bots = 3
    Items = 2
    MaxLevels = 3
    Unit = 4
    Width = 3
    Height = 3
    Spot <- MCSpot
    Radius = {2, 4}
    STEP = 2
    FreshPage <- MCFreshPage
    MaxPickups = 3
    MaxLoads = 2
    NumPositions = 3
    Timeout = 3
    Fov = 45
    Angle = {0, 5, 6, 45, 90}
    Tiles = 2
    NumEnemies = 2
    NumPickups = 2
    Distances = {2, 4, 6}
    Stack = {0, 5}
    Values = {0, 1, 5, 9, 10, 15, 30, 100, 105}
    Places = {1, 2, 3}
SPECIFICATION MCSpec
CHECK_DEADLOCK FALSE
INVARIANTS
    GameTypeOK
    ScreensAgree
    MemoryIsSound
    PickupsAreFound
    ActsOnSight
    FrameShowsAll
PROPERTIES
    ScreensGoOn
    RoundGoesOn
