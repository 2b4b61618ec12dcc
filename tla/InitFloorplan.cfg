\* Two floorplans and the pins, on a manufacturing grid that does not divide the site;
\* a layer has no pitch.
CONSTANTS
    m1 = m1  m2 = m2  m3 = m3
    Site <- MCSite
    Layer = {m1, m2, m3}
    Direction <- MCDirection
    Pitch <- MCPitch
    Offset <- MCOffset
    TermCount = 5
    Grid = 2
    UnitDbu = 3
    Word = 65536
    DesignArea = 9
    Areas <- MCAreas
    Shapes <- MCShapes
    TrackFiles <- MCTrackFiles
    OldGrids <- MCOldGrids
    MaxCommands = 3
SPECIFICATION Spec
CHECK_DEADLOCK FALSE
INVARIANTS RowsFillCore RowsInDie SitesAlign PinsOnCoreEdge PinsSpread DiesOfOldTracks
PROPERTIES TracksFillDie
