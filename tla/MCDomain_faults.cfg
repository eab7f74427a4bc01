CONSTANTS
    None = None
    Domain <- TwoDomains
    CopyNames <- MCCopyNames
    DeriveNames <- MCDeriveNames
    SameDevice = TRUE
    Faults <- FaultKinds
    MaxFiles = 2
    MaxLayers = 2
SPECIFICATION Spec
INVARIANTS
    NothingDestroyed
    OneSandbox
PROPERTIES
    RefinesOpenDomain
