\* A daemon and `once` on one state file, and an email with two recipients
\* that may be refused, or whose answer may be lost.
SPECIFICATION Spec
CONSTANTS
    None = None
    daemon = daemon
    once = once
    t1 = t1
    mail = mail
    a = a
    b = b
    f1 = f1
    Names = {t1}
    Kinds = {"expired"}
    Fingerprints = {}
    RenotifyAfter = 2
    Sinks = {mail}
    MinSeverity <- Unfiltered
    OnlyKinds <- AllKinds
    Readers = {a, b}
    SinkOf <- AllRead
    Type <- MailOnly
    Procs = {daemon, once}
    Watched <- OneWatched
    Observed = {a}
    Retention = 9
    Horizon = 2
SYMMETRY Symmetric
INVARIANTS
    TypeOK
    FileCoherent
    SilenceBounded
