CONSTANTS
    camera = camera
    mail = mail
    v1 = v1
    v2 = v2
    s1 = s1
    s2 = s2
    s3 = s3
    u1 = u1
    u2 = u2
    t1 = t1
    None = None
    Name <- MCName
    Version <- MCVersion
    ServiceSig <- MCServiceSig
    UsageSig <- MCUsageSig
    Tag <- MCTag
    Workers = 1
    MaxJobs = 1
SPECIFICATION Spec
INVARIANTS
    MapsAgree
    NoIdleService
PROPERTY
    RefinesRegistry
