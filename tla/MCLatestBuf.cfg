\* Both handles change hands between two threads; generations wrap at 2.
SPECIFICATION FairSpec
CONSTANTS
    a = a
    b = b
    Producers = {a, b}
    Consumers = {a, b}
    Modulus = 3
    Uninit = Uninit
    MaxPublish = 3
INVARIANTS TypeOK OwnershipDisjoint NoSlotRace HintHolds Conservation
PROPERTIES ImplementsChannel EventuallyTaken
