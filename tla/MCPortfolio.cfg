SPECIFICATION Spec
CONSTANTS
    boss = boss
    deputy = deputy
    pm = pm
    p1 = p1
    p2 = p2
    NoOne = NoOne
    User = {boss, deputy, pm, guest}
    Project = {p1, p2}
    Manager <- MCManager
    SeedClients <- MCSeedClients
    SeedProjects <- MCSeedProjects
    SeedHistory <- MCSeedHistory
    c1 = c1
    c2 = c2
    NewProject <- MCNewProject
    ProjectPatch <- MCProjectPatch
    Seeded <- MCSeeded
    AccountPatch <- MCAccountPatch
    Client = {c1, c2}
    Clerk = {k1, k2}
    Desk = {d1, d2}
    MaxRequests = 4
SYMMETRY Symmetry
INVARIANTS
    TypeOK
    AdminRemains
    MembershipAudited
    ArchivedClientIsQuiet
CHECK_DEADLOCK FALSE
