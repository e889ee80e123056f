SPECIFICATION FairSpec
CONSTANTS
    a = a b = b a1 = a1 a2 = a2 b1 = b1 s1 = s1 s2 = s2 t1 = t1 ka = ka
    NoIp = NoIp Nobody = Nobody NoHandle = NoHandle
    PeerOf <- MCPeerOf
    Ips = {a} Conns = {a1} AudioThreads = {s1, s2} Kickers = {ka} Handles = {h1, h2}
    MaxNumber = 1
INVARIANT AudioSlotServed
PROPERTY StopDrains
CHECK_DEADLOCK FALSE
