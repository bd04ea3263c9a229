\* As deployed, without the admin Safe: a trip that does not stop the token.
SPECIFICATION Spec
CONSTANTS
    TOKEN = TOKEN BRIDGE = BRIDGE srxToken = srxToken srxTokenV2 = srxTokenV2 eid = eid
    Order <- TokenThenBridge
    Targets = {srxToken}
    TargetChoices <- SharedTarget
    DirectAdmin = FALSE
    Retargets = FALSE
    Revocable = {}
    Opaque = {}
    Eids = {}
    PAUSE_COOLDOWN = 2
    PAUSE_ALL_COOLDOWN = 1
    MAXIMUM_SUNSET = 5
    Thresholds = {2}
    Windows = {2}
    Amounts = {1, 2}
    MaxTime = 5
PROPERTY TripStopsTarget
