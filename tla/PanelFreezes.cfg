SPECIFICATION WindowSpec
CONSTANTS
    Dims = {portrait} NoFrame = NoFrame MaxQueue = 2
    Limited = TRUE Resets = TRUE Failures = TRUE
    Nobody = Nobody
    Workers = {w1, w2} Submits = {s1, s2} Phones = {p1} Lists <- MCLists
    MaxStrokes = 2 MaxJobs = 2
    Sources = {a, b}
    Canvases <- MCCanvases Cameras <- MCCameras MaxShots = 2 MaxSeconds = 1
INVARIANTS NeverJoinsAdb
CHECK_DEADLOCK FALSE
