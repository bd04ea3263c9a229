\* The three ways to deploy; two failures.
SPECIFICATION Spec
CONSTANTS
    Modes = {"safe", "rehearsal", "teststack"}
    MaxFaults = 2
INVARIANTS AlwaysAdministered DelayOnlyOnceGated SafeNeverGoverns NoGap HardenedTruthful
PROPERTY HandoverCompletes
\* The hand-over ends: the gate has passed and nothing is left to run.
CHECK_DEADLOCK FALSE
