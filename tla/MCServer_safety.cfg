CONSTANTS
    camera = camera
    v1 = v1
    s1 = s1
    s2 = s2
    u1 = u1
    u2 = u2
    c1 = c1
    c2 = c2
    None = None
    Silent = Silent
    Name <- OneName
    Version <- MCVersion
    ServiceSig <- TwoSigs
    UsageSig <- TwoUsages
    Tag <- MCTag
    Workers = 2
    MaxJobs = 1
    Conn <- TwoConns
    Requests <- WithPanic
    Reregister = FALSE
    MaxReq = 2
SPECIFICATION ServerSpec
SYMMETRY Symmetry
INVARIANTS
    ServerTypeOK
    RecordsInForce
    UsagesOnRecord
    AnswersMatchRequests
PROPERTIES
    PoisonFreezesTables
