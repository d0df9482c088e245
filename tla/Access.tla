------------------------------- MODULE Access -------------------------------
(***************************************************************************)
(* The role rules of server/src/access/rbac.ts, as operators.  A principal *)
(* is the caller as the database describes it when the request is          *)
(* authenticated: an id and a role.  The scopes are written as predicates  *)
(* on one row instead of WHERE clauses; the capabilities as predicates.    *)
(* Nothing here is stateful: the modules that move EXTEND this one.        *)
(***************************************************************************)

CONSTANTS User,     \* user ids
          NoOne,    \* the null user id: no assignee, no human actor
          Project,  \* project ids
          Manager   \* Manager[p]: projects.managerId, never changed after creation

ASSUME NoOneAssumption == NoOne \notin User
ASSUME ManagerAssumption == Manager \in [Project -> User]

Role == {"ADMIN", "PROJECT_MANAGER", "DEVELOPER"}
Status == {"TODO", "IN_PROGRESS", "IN_REVIEW", "DONE"}

\* The statuses the overdue sweep looks at.
OpenStatuses == {"TODO", "IN_PROGRESS", "IN_REVIEW"}

Principal == [id : User, role : Role]

IsAdmin(p) == p.role = "ADMIN"
IsManager(p) == p.role = "PROJECT_MANAGER"
IsDeveloper(p) == p.role = "DEVELOPER"

-----------------------------------------------------------------------------
(* Visibility *)

\* May p read a task of this project held by this assignee?
TaskScope(p, project, assignee) ==
    \/ IsAdmin(p)
    \/ IsManager(p) /\ Manager[project] = p.id
    \/ IsDeveloper(p) /\ assignee = p.id

-----------------------------------------------------------------------------
(* Capabilities *)

CanManageProject(p, project) ==
    \/ IsAdmin(p)
    \/ IsManager(p) /\ Manager[project] = p.id

\* The fields a task patch may carry.  "details" stands for title, description
\* and priority, which are compared, written and logged alike.
Fields == {"status", "assignee", "due", "details"}

WritableFields(p) == IF IsDeveloper(p) THEN {"status"} ELSE Fields

\* Mutant: no review gate.
NoForbiddenStatuses(p) == {}

ForbiddenStatuses(p) == IF IsDeveloper(p) THEN {"DONE"} ELSE {}

CanUpdateTask(p, project, assignee) ==
    \/ IsAdmin(p)
    \/ IsManager(p) /\ Manager[project] = p.id
    \/ IsDeveloper(p) /\ assignee = p.id

\* Identity, then the field allowlist, then the review gate.
MayApplyPatch(p, project, assignee, patch) ==
    /\ CanUpdateTask(p, project, assignee)
    /\ DOMAIN patch \subseteq WritableFields(p)
    /\ "status" \in DOMAIN patch => patch["status"] \notin ForbiddenStatuses(p)

CanDeleteTask(p, project) == CanManageProject(p, project)
=============================================================================
