------------------------------- MODULE MCLive -------------------------------
(* One project with one task that exists and is late, and one that may be     *)
(* created; the tab of an administrator, the manager or a developer on any    *)
(* page.                                                                      *)
EXTENDS Live, TLC

CONSTANTS boss, pm, d1, d2, p1, t1, t2

MCManager == p1 :> pm
MCRoleOf == boss :> "ADMIN" @@ pm :> "PROJECT_MANAGER" @@ d1 :> "DEVELOPER" @@ d2 :> "DEVELOPER"
MCDraft == {[project |-> p1, status |-> "TODO", due |-> 3, assignee |-> d1]}
MCPatch == {[status |-> "IN_REVIEW"], [status |-> "DONE"], [assignee |-> d1], [assignee |-> d2],
            [details |-> "edited"]}
MCSeededTasks == t1 :> [project |-> p1, status |-> "TODO", assignee |-> d1, due |-> 0,
                        overdue |-> FALSE, at |-> 0]
MCFilters == {<< >>, [status |-> {"TODO"}]}
TheTask == [kind |-> "task", task |-> t1]
Shows(who, what, loaded, spent) ==
    [user |-> who, page |-> what, loaded |-> loaded, started |-> spent]
MyTasks == [kind |-> "tasks", query |-> << >>]
TheProject == [kind |-> "project", query |-> [project |-> p1]]
Dashboard == [kind |-> "dashboard"]
MCTab == {Shows(d1, MyTasks, TRUE, 1), Shows(d1, MyTasks, FALSE, 1), Shows(pm, TheProject, TRUE, 1),
          Shows(d1, TheTask, TRUE, 0), Shows(pm, TheTask, TRUE, 1),
          Shows(boss, Dashboard, TRUE, 1), Shows(pm, Dashboard, TRUE, 1),
          Shows(d1, Dashboard, TRUE, 1), Shows(d1, [kind |-> "tray"], TRUE, 0)}
Note(type) == [type |-> type, task |-> t1, at |-> 0]
MCSeededNotes == Note("TASK_ASSIGNED") :> FALSE @@ Note("TASK_COMPLETED") :> TRUE

Symmetry == Permutations(Writer)
=============================================================================
