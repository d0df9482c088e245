------------------------------ MODULE MCTasks ------------------------------
(* The task board of one project for TLC: its manager, another manager, a   *)
(* developer and a disabled account.                                        *)
EXTENDS Tasks, Seed, TLC

CONSTANTS pm, pm2, dev, gone, proj

MCUser == {pm, pm2, dev, gone}
MCManager == proj :> pm
MCRoleOf == (pm :> "PROJECT_MANAGER") @@ (pm2 :> "PROJECT_MANAGER")
            @@ (dev :> "DEVELOPER") @@ (gone :> "DEVELOPER")
MCActive == {pm, pm2, dev}

\* Late at once or soon, held or not; and one that is born Done.
MCDraft ==
    {[project |-> proj, status |-> "TODO", due |-> d, assignee |-> dev] : d \in DueDates}
    \cup {[project |-> proj, status |-> "IN_REVIEW", due |-> NoDue, assignee |-> NoOne],
          [project |-> proj, status |-> "DONE", due |-> NoDue, assignee |-> pm]}

\* Moves along the board and back, the assignments, deadlines pulled in and
\* pushed out, an edit, and a body that changes two fields.
MCPatch ==
    {[status |-> s] : s \in {"TODO", "IN_REVIEW", "DONE"}}
    \cup {[assignee |-> a] : a \in {dev, gone, NoOne}}
    \cup {[due |-> d] : d \in DueDates}
    \cup {[details |-> "edited"], [status |-> "IN_PROGRESS", assignee |-> dev]}

\* A deployment starts from the seeded database.  "The seeded audit log cannot
\* contradict the seeded task state", and "the fixture's history is a history the
\* application's own rules would have permitted" (seed.ts): at whatever time of
\* the day the seed runs, the database it leaves satisfies the invariants of the
\* board, each event is permitted where it stands in the log, the order of
\* the log is the order of time, and the teams overlap so that the access rules show.
SeedIsHistory == started = 0 => SeededHistory

\* "No account starts with an empty catch-up", every developer has open work, and
\* four tasks are late and not flagged, at whatever time of the day the seed
\* runs, so that the first sweep has something to do (seed.ts).
EverybodyHasNews == started = 0 => SeededNews

\* "The badge on a project card agrees with the task list they can actually open"
\* (projects.service.ts), "a manager sees '2 projects' for the two they run"
\* (clients.service.ts), "the picker can never offer a choice the API would
\* reject" (users.service.ts): in the seeded agency and in each one a change away
\* from it, each of them a database the schema allows, two reads of one caller
\* never contradict each other.
ReadsAgree == started = 0 => SeededReads

\* "The button that opens it is not rendered" for whom the request would be refused
\* (TaskDialog.tsx), "only ever offered for a client with no projects"
\* (ClientsPage.tsx): in each of these agencies the choices a dialog or a button of
\* the administration offers are ones the API accepts, also when it edits a row
\* that holds a value it would not accept now.  Two are offered and refused: to
\* archive a client whose own link lists a project in flight, and to end one's own
\* role or activity; the guard of the last administrator is never met.
DialogsAreAccepted == started = 0 => SeededDialogs

\* "A deactivation drops the row out of the default filter, which only a re-read
\* can reflect" (TeamPage.tsx), and an archived client likewise (ClientsPage.tsx):
\* after a save the table is what its query would answer now, whichever of the
\* two ways the page took to it; but under a filter by role, for a new role.
SavesAreShown == started = 0 => SeededSaves

Symmetry == Permutations(Task) \cup Permutations(Slot) \cup Permutations(Sweeper)
=============================================================================
