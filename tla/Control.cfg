SPECIFICATION Spec
CONSTANTS
    a = a Nobody = Nobody
    Conns = {c1, c2} Ips = {a} IpOf <- MCIpOf Kickers = {k} Handles = {h1, h2, h3} NoHandle = NoHandle
    Listener = Listener Other = Other
    Clients = {x, y} Pins = {p1, p2} NoPin = NoPin
    Drainers = {d1, d2} MaxAudio = 2 MaxAdds = 2 NameLengths = {3, 65, 66} MaxRequests = 3
INVARIANTS TypeOK RtspSafe PairingSafe ServerSafe MessagesRead
PROPERTY StopsReturn
CHECK_DEADLOCK FALSE
