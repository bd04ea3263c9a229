\* A sound spoke, dust and launch limits that change, under fair execution of messages.
SPECIFICATION FairSpec
CONSTANTS
    hub = hub s1 = s1 s2 = s2 alice = alice bob = bob
    Hub = hub
    Spokes = {s1}
    Faulty = {}
    Accounts = {alice, bob}
    MAX_SUPPLY = 3
    ConversionRate = 2
    PeerChoices <- OneLink
    LimitChoices = {0, 1}
    Exemptable = {bob}
    MaxMessages = 2
    MaxBurned = 1
INVARIANT NeverStranded
PROPERTY DeliveredOnceOpen
