\* TOKEN and BRIDGE both name SRXToken, the admin Safe pauses it too, and
\* BRIDGE may be moved to a new deployment.
SPECIFICATION Spec
CONSTANTS
    TOKEN = TOKEN BRIDGE = BRIDGE srxToken = srxToken srxTokenV2 = srxTokenV2 eid = eid
    Order <- TokenThenBridge
    Targets = {srxToken, srxTokenV2}
    TargetChoices <- Redeployed
    DirectAdmin = TRUE
    Retargets = TRUE
    Revocable = {srxToken, srxTokenV2}
    Opaque = {srxTokenV2}
    Eids = {}
    PAUSE_COOLDOWN = 2
    PAUSE_ALL_COOLDOWN = 1
    MAXIMUM_SUNSET = 4
    Thresholds = {2}
    Windows = {2}
    Amounts = {1, 2}
    MaxTime = 4
PROPERTIES StopReachesAll BatchesReconcile FlagsFollowTargets
