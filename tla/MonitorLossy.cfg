\* Two sinks, one of them a pager for critical problems: either may refuse a
\* batch, or take it and report a failure; the process may be killed and the
\* save may fail.
SPECIFICATION Spec
CONSTANTS
    None = None
    t1 = t1
    t2 = t2
    s1 = s1
    s2 = s2
    f1 = f1
    f2 = f2
    Names = {t1}
    Kinds = {"expired", "weak_crypto"}
    Fingerprints = {f1, f2}
    RenotifyAfter = None
    Sinks = {s1, s2}
    MinSeverity <- Unfiltered
    OnlyKinds <- PagerAndChat
    Configured <- OneTarget
    Discoveries <- NothingFound
    FailureThreshold = 1
    StartupReport = FALSE
    PrometheusFile = TRUE
    Retention = 0
    Ticks = {0}
    Horizon = 0
    FaultKinds = {"crash", "refused", "ambiguous", "save"}
    MaxFaults = 2
INVARIANTS
    AlertBookkeeping
PROPERTIES
    AlertsAnnounced
    RecoveriesAnnounced
    RotationsAnnounced
