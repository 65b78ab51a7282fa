\* Flap dampening over two cycles, an expected problem, and every fault that
\* leaves the delivery itself intact.
SPECIFICATION Spec
CONSTANTS
    None = None
    t1 = t1
    t2 = t2
    s1 = s1
    s2 = s2
    f1 = f1
    f2 = f2
    Names = {t1}
    Kinds = {"expired", "revoked", "weak_crypto"}
    Fingerprints = {f1}
    RenotifyAfter = None
    Sinks = {s1}
    MinSeverity <- Unfiltered
    OnlyKinds <- AllKinds
    Configured <- ExpectsWeak
    Discoveries <- NothingFound
    FailureThreshold = 2
    StartupReport = FALSE
    PrometheusFile = TRUE
    Retention = 0
    Ticks = {0}
    Horizon = 0
    FaultKinds = {"crash", "check", "save", "export"}
    MaxFaults = 2
INVARIANTS
    AlertBookkeeping
    ActiveIffPersistent
    ExpectedNotTracked
    ExportMirrorsState
