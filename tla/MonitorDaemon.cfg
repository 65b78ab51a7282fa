\* A daemon with startup digest that is killed, restarted, and whose sink (critical kinds only),
\* checks and export may fail, and whose state file may be unreadable.
SPECIFICATION FairSpec
CONSTANTS
    None = None
    t1 = t1
    t2 = t2
    s1 = s1
    s2 = s2
    f1 = f1
    f2 = f2
    Names = {t1}
    Kinds = {"expired", "weak_crypto"}
    Fingerprints = {f1}
    RenotifyAfter = None
    Sinks = {s1}
    MinSeverity <- Unfiltered
    OnlyKinds <- PagerKinds
    Configured <- OneTarget
    Discoveries <- NothingFound
    FailureThreshold = 1
    StartupReport = TRUE
    PrometheusFile = TRUE
    Retention = 0
    Ticks = {0}
    Horizon = 0
    FaultKinds = {"crash", "refused", "check", "export", "unreadable"}
    MaxFaults = 2
INVARIANTS
    KnownToEverySink
PROPERTIES
    EventuallyTold
    DigestPaid
