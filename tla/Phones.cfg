SPECIFICATION PhonesSpec
CONSTANTS
    Phones = {p, q} NoPhone = NoPhone Slots = {s1, s2} Connectors = {c} Clicks = {u} Nobody = Nobody
    MaxConns = 2 MaxPackets = 2
    Calls = {k1, k2}
SYMMETRY PhoneSymmetry
INVARIANTS PartsTypeOK ReceiversJoined ActiveListed AdbSafe StreamSafe
CHECK_DEADLOCK FALSE
