CONSTANTS
    main = main
    hotkey = hotkey
    None = None
    Saver <- Savers
    Fails = TRUE
    MaxFile = 6
SPECIFICATION Spec
CHECK_DEADLOCK FALSE
SYMMETRY Symmetry
INVARIANT
    SettlesOnASession
