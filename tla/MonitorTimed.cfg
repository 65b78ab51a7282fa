\* Time passes: renotification, retention of targets that discovery misses,
\* deliveries that are refused.
SPECIFICATION Spec
CONSTANTS
    None = None
    t1 = t1
    t2 = t2
    s1 = s1
    s2 = s2
    f1 = f1
    f2 = f2
    Names = {t1, t2}
    Kinds = {"expired"}
    Fingerprints = {f1}
    RenotifyAfter = 2
    Sinks = {s1}
    MinSeverity <- Unfiltered
    OnlyKinds <- AllKinds
    Configured <- OneTarget
    Discoveries <- FoundOrNot
    FailureThreshold = 1
    StartupReport = FALSE
    PrometheusFile = FALSE
    Retention = 2
    Ticks = {1, 2}
    Horizon = 5
    FaultKinds = {"refused"}
    MaxFaults = 1
INVARIANTS
    ToldOnce
    RenotifiedOnTime
PROPERTIES
    RememberedWhileAbsent
    ReportShowsLastCycle
