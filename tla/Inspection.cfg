\* Every accepted pair of settings, sources that fail in every way, endpoints
\* that are slow or hang, a pool smaller than the list.
SPECIFICATION FairSpec
CONSTANTS
    None = None
    h1 = h1
    h2 = h2
    h3 = h3
    wild = wild
    pem = pem
    der = der
    text = text
    f1 = f1
    Names <- AllNames
    Kinds = {"expired", "not_yet_valid", "critical", "expiring",
             "chain_untrusted", "revoked", "hostname_mismatch", "weak_crypto",
             "policy_violation"}
    Fingerprints = {f1}
    Hosts = {h1, h2, h3}
    OtherNames = {wild}
    Records <- SmallRecords
    ConfigFiles <- SmallConfigFiles
    Presents <- SmallPresents
    CheckArgs <- SmallCheckArgs
INVARIANTS
    TypeOK
    RunnableTargets
    NeverKilledEarly
    NothingHidden
    HeadlineIsAFault
    NothingFoundIsMissed
    FoundOnce
PROPERTIES
    CycleEnds
