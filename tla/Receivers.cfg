SPECIFICATION ReceiversSpec
CONSTANTS
    Sizes = {2, 4} MaxFrames = 6 Cushion = 7 BufferLen = 5 Wrap = 256
    Nobody = Nobody
    Layouts = {l1, l2}
    Senders = {s1, s2}
    Cameras = {c1, c2} Tasks = {t1, t2}
INVARIANTS PartsTypeOK BytesMatch MiracastSafe CastSafe ClosedMeansOff
PROPERTIES CushionHeld CrashGuard StopsReturn
CHECK_DEADLOCK FALSE
