SPECIFICATION Spec
CONSTANTS
    boss = boss
    dev = dev
    NoOne = NoOne
    User = {boss, dev}
    Project = {}
    Manager <- MCManager
    Seeded <- MCSeeded
    AccountPatch <- MCAccountPatch
    Conn = {s1, s2}
    Clerk = {k1, k2}
    MaxRequests = 2
SYMMETRY Symmetry
INVARIANTS
    TypeOK
    PresenceIsCurrent
    ConnectionIsCurrent
    TabActsAsShown
PROPERTIES
    SignedOutForCause
CHECK_DEADLOCK FALSE
