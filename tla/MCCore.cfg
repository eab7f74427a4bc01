CONSTANTS
    home = home
    job = job
    editor = editor
    browser = browser
    None = None
    Domain <- TwoDomains
    Plugin <- Applications
    Setting <- All
    MaxWork = 2
SPECIFICATION Spec
INVARIANTS
    OneSandbox
PROPERTIES
    SessionNeverRegresses
    OpenedIsRestored
    FailedOpenIsUndone
    CloseCloses
    RefinesOpenDomain
