SPECIFICATION FairSpec
CONSTANTS
    a = a b = b a1 = a1 a2 = a2 b1 = b1 s1 = s1 s2 = s2 t1 = t1 ka = ka
    NoIp = NoIp Nobody = Nobody NoHandle = NoHandle
    PeerOf <- MCPeerOf
    Ips = {a} Conns = {a1, a2} AudioThreads = {} Kickers = {} Handles = {h1, h2}
    MaxNumber = 1
PROPERTY StopDrains
CHECK_DEADLOCK FALSE
