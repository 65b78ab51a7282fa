\* One sink, no startup digest: once from cron, or a daemon with
\* startup_report off.  Deliveries, checks and the export may fail.
SPECIFICATION Spec
CONSTANTS
    None = None
    t1 = t1
    t2 = t2
    s1 = s1
    s2 = s2
    f1 = f1
    f2 = f2
    Names = {t1, t2}
    Kinds = {"expired"}
    Fingerprints = {f1, f2}
    RenotifyAfter = None
    Sinks = {s1}
    MinSeverity <- Unfiltered
    OnlyKinds <- AllKinds
    Configured <- TwoTargets
    Discoveries <- NothingFound
    FailureThreshold = 1
    StartupReport = FALSE
    PrometheusFile = TRUE
    Retention = 0
    Ticks = {0}
    Horizon = 0
    FaultKinds = {"refused", "check", "export"}
    MaxFaults = 2
INVARIANTS
    TypeOK
    InSync
PROPERTIES
    ImplementsPanel
