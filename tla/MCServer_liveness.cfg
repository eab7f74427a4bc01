CONSTANTS
    camera = camera
    v1 = v1
    s1 = s1
    s2 = s2
    u1 = u1
    u2 = u2
    c1 = c1
    c2 = c2
    None = None
    Silent = Silent
    Name <- OneName
    Version <- MCVersion
    ServiceSig <- OneSig
    UsageSig <- OneUsage
    Tag <- MCTag
    Workers = 2
    MaxJobs = 1
    Conn <- TwoConns
    Requests <- AllRequests
    Reregister = FALSE
    MaxReq = 1
SPECIFICATION FairServerSpec
PROPERTIES
    CallsAnswered
    StoppedIsFinalized
