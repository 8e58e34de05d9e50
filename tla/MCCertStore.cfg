SPECIFICATION CertStoreFairSpec
CHECK_DEADLOCK FALSE
CONSTANTS
    r1 = r1
    r2 = r2
    Nil = Nil
    Bad = Bad
    NoKeys = NoKeys
    Replicas <- MCReplicas
    MaxFaults = 1
    MaxEdits = 1
    MaxRotations = 1
    MaxExpiries = 1
INVARIANTS
    ServedWasStored
PROPERTIES
    UpdatesAreAtomic
    RotationKeepsServing
    ReplicasEndUpServing
