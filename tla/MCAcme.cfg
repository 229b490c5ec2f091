SPECIFICATION FairSpec
CONSTANTS
    MaxIssued = 2
    Faults <- EveryFault
INVARIANTS TypeOK AllOrNothing ServesDeployed MappingIsGone
PROPERTIES PortalIsBack Renewed
