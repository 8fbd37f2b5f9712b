CONSTANTS
    s1 = s1
    s2 = s2
    r1 = r1
    r2 = r2
    Sessions <- MCSessions
    Requests <- MCRequests
    ReqTypes <- MCReqTypes
    BadType <- MCBadType
    MaxHandles <- MCMaxHandles
SPECIFICATION Spec
PROPERTY
    ClientSpec
CHECK_DEADLOCK FALSE
