SPECIFICATION FairSpec
CONSTANTS
    pm = pm
    pm2 = pm2
    dev = dev
    gone = gone
    proj = proj
    NoOne = NoOne
    NoDue = NoDue
    Never = Never
    User <- MCUser
    Project = {proj}
    Manager <- MCManager
    RoleOf <- MCRoleOf
    Active <- MCActive
    Draft <- MCDraft
    Patch <- MCPatch
    Task = {t1, t2}
    Slot = {r1}
    Sweeper = {s1}
    DueDates = {0, 1}
    BatchSize = 1
    MaxTime = 1
    MaxRequests = 3
    MaxFaults = 1
PROPERTIES
    LateTaskIsFlagged
    StaleFlagIsCleared
