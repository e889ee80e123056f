SPECIFICATION ProgramSpec
CONSTANTS
    Devices = {d1, d2} None = None MaxSessions = 2
    MaxChecks = 2
    Writers = {t1, t2} MaxPieces = 2 MaxLines = 3 RingSize = 2
    MaxLaunches = 2 MaxClicks = 2
    MaxRows = 2
    Processes = {p1, p2} MaxArguments = 3
INVARIANTS TypeOK ScreenReleased RowsAlternate ProgramSafe
PROPERTIES  StepsAllowed
CHECK_DEADLOCK FALSE
