SPECIFICATION Spec
CONSTANTS
    a = a b = b a1 = a1 a2 = a2 b1 = b1 s1 = s1 s2 = s2 t1 = t1 ka = ka
    NoIp = NoIp Nobody = Nobody NoHandle = NoHandle
    PeerOf <- MCPeerOf
    Ips = {a, b} Conns = {a1, b1} AudioThreads = {} Kickers = {} Handles = {h1, h2}
    MaxNumber = 2
SYMMETRY HandleSymmetry
INVARIANT RegistryOK
PROPERTY ImplementsPicker
CHECK_DEADLOCK FALSE
