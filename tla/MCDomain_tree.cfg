CONSTANTS
    None = None
    Domain <- Forks
    CopyNames <- MCCopyNames
    DeriveNames <- MCDeriveNames
    SameDevice = FALSE
    Faults <- NoFaults
    MaxFiles = 1
    MaxLayers = 3
SPECIFICATION Spec
INVARIANTS
    OpenDomainExists
    SandboxMatchesStat
    HomeWhenClosed
