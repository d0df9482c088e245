SPECIFICATION Spec
CONSTANTS
    boss = boss
    pm = pm
    d1 = d1
    d2 = d2
    p1 = p1
    t1 = t1
    t2 = t2
    NoOne = NoOne
    NoDue = NoDue
    Today = 1
    User = {boss, pm, d1, d2}
    Project = {p1}
    Task = {t1, t2}
    Manager <- MCManager
    RoleOf <- MCRoleOf
    Author = {pm, d1}
    Draft <- MCDraft
    Patch <- MCPatch
    SeededTasks <- MCSeededTasks
    Writer = {w1, w2}
    MaxRequests = 3
    Tab <- MCTab
    Filters <- MCFilters
    SeededNotes <- MCSeededNotes
SYMMETRY Symmetry
INVARIANTS
    TypeOK
    BoardSettles
    DashboardReproducible
    OfferedIsAllowed
    BadgeSettles
    TrayHonest
PROPERTIES
    NeverBackwards
CHECK_DEADLOCK FALSE
