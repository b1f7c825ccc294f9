SPECIFICATION Spec
CONSTANTS
    en0 = en0
    en1 = en1
    Iface <- Both
    AirPorts <- Wireless
    Faults = {"removed"}
INVARIANT RemovalReported
