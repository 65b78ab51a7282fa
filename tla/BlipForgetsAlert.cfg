\* Flap dampening: one failed check between two cycles.
SPECIFICATION Spec
CONSTANTS
    None = None
    t1 = t1
    t2 = t2
    s1 = s1
    s2 = s2
    f1 = f1
    f2 = f2
    Names = {t1}
    Kinds = {"expired"}
    Fingerprints = {f1}
    RenotifyAfter = None
    Sinks = {s1}
    MinSeverity <- Unfiltered
    OnlyKinds <- AllKinds
    Configured <- OneTarget
    Discoveries <- NothingFound
    FailureThreshold = 2
    StartupReport = FALSE
    PrometheusFile = FALSE
    Retention = 0
    Ticks = {0}
    Horizon = 0
    FaultKinds = {}
    MaxFaults = 0
PROPERTIES
    RecoveriesAnnounced
