SPECIFICATION Spec
CONSTANTS
    c1 = c1
    c2 = c2
    r1 = r1
    r2 = r2
    NoCall = NoCall
    NoAccount = NoAccount
    Cid <- OneCall
    Rid <- OneAccount
    Accounts <- OneOrNone
    MaxFifo = 1
    MaxRetry = 1
    Ports = 1
    DeviceFails = {FALSE}
    RegCodes = {"200", "403"}
    FailTypes = {}
    Bodies = {"sdp"}
    Modes = {FALSE}
    Events = {"network", "sleep", "quit", "account", "mode", "menu", "session", "password"}
INVARIANTS QuitRequestHeard RingsForCaller
PROPERTY SleepRequestHeard
