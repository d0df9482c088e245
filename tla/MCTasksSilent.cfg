SPECIFICATION Spec
CONSTANTS
    pm = pm
    pm2 = pm2
    dev = dev
    gone = gone
    proj = proj
    NoOne = NoOne
    NoDue = NoDue
    Never = Never
    User <- MCUser
    Project = {proj}
    Manager <- MCManager
    RoleOf <- MCRoleOf
    Active <- MCActive
    Draft <- MCDraft
    Patch <- MCPatch
    Task = {t1}
    Slot = {r1, r2}
    Sweeper = {s1, s2}
    DueDates = {0, 1}
    BatchSize = 1
    MaxTime = 1
    MaxRequests = 2
    MaxFaults = 0
SYMMETRY Symmetry
INVARIANT OverdueIsAnnounced
