SPECIFICATION Spec
CONSTANTS
    c1 = c1
    c2 = c2
    r1 = r1
    r2 = r2
    NoCall = NoCall
    NoAccount = NoAccount
    Cid <- TwoCalls
    Rid <- OneAccount
    Accounts <- OneAccount
    MaxFifo = 1
    MaxRetry = 1
    Ports = 2
    DeviceFails = {FALSE}
    RegCodes = {"200"}
    FailTypes = {"CALL_REQUESTFAILURE"}
    Bodies = {"sdp"}
    Modes = {FALSE}
    Events = {"network"}
SYMMETRY CallSymmetry
INVARIANT SingleCall
