\* Two spokes, the link of s2 repeats deliveries; an odd supply, so that sends leave dust.
SPECIFICATION Spec
CONSTANTS
    hub = hub s1 = s1 s2 = s2 alice = alice bob = bob
    Hub = hub
    Spokes = {s1, s2}
    Faulty = {s2}
    Accounts = {alice}
    MAX_SUPPLY = 5
    ConversionRate = 2
    PeerChoices <- LinksAndStray
    LimitChoices = {0}
    Exemptable = {}
    MaxMessages = 2
    MaxBurned = 2
INVARIANTS TypeOK HubConservation SpokeBacking GlobalCap Executable
PROPERTY ImplementsLedger
