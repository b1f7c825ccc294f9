SPECIFICATION FairSpec
CONSTANTS
    en0 = en0
    en1 = en1
    Iface <- Both
    AirPorts <- Wireless
    Faults = {"removed", "gap", "nokeys", "nocopy"}
INVARIANTS TypeOK CacheSound ReportPending GainReported LossReported
PROPERTIES ImplementsWatch GainNotified
