CONSTANTS
    Insts = {i1, i2}
    Recs = {r1, r2}
    None = None
    MaxRestarts = 1
    MaxFaults = 1
    Actuators = {a1, a2}
    MaxWrites = 3
    NDevices = 2
    NEntities = 2
    Exclusive <- MCExclusive
    Owner = t1
    Owners = {t1, t2}
    CapSets <- MCCapSets
    Requirements <- MCRequirements
SPECIFICATION FairSpec
INVARIANTS NoOrphanSession ActuatorHasOneOwner AddressedAsBound OneDriver
PROPERTIES SiblingsSurvive HealsUnlessStuck
