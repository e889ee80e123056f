SPECIFICATION FairSpec
CONSTANTS
    Phones = {p} NoPhone = NoPhone Slots = {s1} Connectors = {c} Clicks = {} Nobody = Nobody
PROPERTIES MutexReleased
CHECK_DEADLOCK FALSE
