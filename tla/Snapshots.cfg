\* Two collectors and people who post builds, two requests at a time, one of them
\* failing; verifications and syncs of connectors beside them.
SPECIFICATION MSpec
SYMMETRY Symmetry
CONSTANTS
    h = h  x = x  k1 = k1  k2 = k2  Self = Self  Live = Live
    Component = Component
    NoValue = NoValue
    Signed <- Sent
    Manual <- Posted
    Collector = {k1, k2}
    Asset = {h, x, Component}
    Key = {"containers_read_only", "host_patching", "frontend_dependency_vulns"}
    Request = {q1, q2}
    MaxScans = 4
    MaxManual = 2
    MaxFaults = 1
    Tables <- States
    Installed <- First
    Probes <- Found
    Verifier = {v1, v2}
    Syncer = {s1, s2}
    Account = {Self, Live}
    Mode <- Modes
    Configured = {}
    Budgets <- Bounds
\* A system that nobody sends anything is at rest.
CHECK_DEADLOCK FALSE
INVARIANTS RecommendationsFollow ShownIsCurrent PostureOfOneSync
PROPERTIES LedgerSpec
