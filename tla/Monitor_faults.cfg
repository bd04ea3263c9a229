\* Every kind of failure, twice; scans of two chunks.
SPECIFICATION MonitorFairSpec
CONSTANTS
    BRIDGE = BRIDGE srxToken = srxToken eid = eid
    MODULE_BRIDGE = BRIDGE
    Order <- BridgeOnly
    Targets = {srxToken}
    TargetChoices <- BridgeToken
    DirectAdmin = FALSE
    Retargets = FALSE
    Revocable = {}
    Opaque = {}
    Eids = {eid}
    PAUSE_COOLDOWN = 1
    PAUSE_ALL_COOLDOWN = 1
    MAXIMUM_SUNSET = 2
    Thresholds = {2}
    Windows = {2}
    Amounts = {1}
    MaxTime = 3
    BLOCKS_PER_SCAN = 2
    Faults = {"crash", "getLogs", "record", "disk"}
    MaxFaults = 2
    MaxBlock = 3
INVARIANTS NeverSkips RecountsBounded
PROPERTY FloodTrips
