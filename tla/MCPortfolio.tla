----------------------------- MODULE MCPortfolio -----------------------------
(* Two administrators and a project manager exist, and the manager's project *)
(* of one client; one more person may sign up, one more project be created.  *)
EXTENDS Portfolio, TLC

CONSTANTS boss, deputy, pm, p1, p2, c1, c2

MCManager == p1 :> pm @@ p2 :> boss
MCSeedClients == c1 :> FALSE
MCSeedHistory ==
    << [type |-> "PROJECT_CREATED", project |-> p1, member |-> NoOne],
       [type |-> "PROJECT_MEMBER_ADDED", project |-> p1, member |-> boss] >>
MCSeedProjects == p1 :> [client |-> c1, status |-> "ACTIVE"]
MCSeeded == boss :> "ADMIN" @@ deputy :> "ADMIN" @@ pm :> "PROJECT_MANAGER"

MCNewProject == {[client |-> c1, status |-> "ACTIVE"]}
MCProjectPatch == {[status |-> "ON_HOLD"], [status |-> "COMPLETED"], [client |-> c2]}

\* Ending a rank and giving it back.
MCAccountPatch == {[role |-> "DEVELOPER"], [role |-> "ADMIN"], [active |-> FALSE],
                   [active |-> TRUE]}

Symmetry == Permutations(Desk) \cup Permutations(Clerk)
=============================================================================
