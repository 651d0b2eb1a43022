--------------------------- MODULE ProjectLifecycle ---------------------------
(***************************************************************************)
(* A project until its deletion: the API (projects.service.ts) and the     *)
(* page that changes, archives, restores and deletes it                    *)
(* (project-settings.page.ts).  Its creation is in ProjectCreation.        *)
(*                                                                         *)
(* What archive and restore do to the follow-up schedule is in             *)
(* FollowUpPing.  ProjectCommandPending admits one request of a kind.      *)
(***************************************************************************)
EXTENDS Null, Naturals, FiniteSets

CONSTANTS
  SettingsBasics,  \* names and addresses of a project
  Playbooks,
  MaxIntents,      \* bound: phase changes sent from one visit of the settings
  MaxRequests      \* bound: requests under way

VARIABLES
  project,     \* its row, and what decides over its commands
  settings,    \* the settings page
  inFlight,    \* its request of each kind
  orderly      \* history: nothing but the page changed the phase that it shows

lifecycleVars == <<project, settings, inFlight, orderly>>
settingsVars == <<settings, inFlight, orderly>>

Phases == {"DRAFT", "READY_FOR_PLANNING"}

Lifecycle == {"save-status", "archive", "restore"}
CommandKinds == Lifecycle \cup {"load", "save-basics", "save-playbook", "delete"}
NoRequest == [stage |-> "idle", intent |-> 0, value |-> None, result |-> None]
NoRequests == [kind \in CommandKinds |-> NoRequest]
NotOpen == [open |-> FALSE, view |-> None, basics |-> None, intent |-> 0, applied |-> 0,
           served |-> 0]

DraftProject(basics, playbook) ==
  [basics |-> basics, playbook |-> playbook, status |-> "DRAFT",
   archivedFrom |-> None, round |-> FALSE, history |-> FALSE, revision |-> FALSE,
   deleted |-> FALSE]

LifecycleInit ==
  /\ project \in {DraftProject(basics, playbook) :
                   basics \in SettingsBasics, playbook \in Playbooks}
  /\ settings = NotOpen
  /\ inFlight = NoRequests
  /\ orderly = TRUE

Pending(kind) == inFlight[kind].stage # "idle"
UnderWay == Cardinality({kind \in CommandKinds : Pending(kind)})

-----------------------------------------------------------------------------
(* The API.  Every command locks the project.                              *)

\* updateWorkspace with a status: entering READY_FOR_PLANNING writes a revision.
WithStatus(row, status) ==
  [row EXCEPT !.status = status, !.revision = @ \/ status = "READY_FOR_PLANNING"]

\* What each command makes of a project.
CommandOutcome(kind, row, value) ==
  CASE kind = "save-basics" -> [row EXCEPT !.basics = value]
    [] kind = "save-playbook" -> [row EXCEPT !.playbook = value]
    [] kind = "save-status" -> WithStatus(row, value)
    [] kind = "archive" -> [row EXCEPT !.archivedFrom = row.status, !.status = "ARCHIVED"]
    [] kind = "restore" ->
         [row EXCEPT !.status = IF row.archivedFrom = None THEN "DRAFT" ELSE row.archivedFrom,
                     !.archivedFrom = None]
    [] kind = "delete" -> [row EXCEPT !.deleted = TRUE]
    [] OTHER -> row

\* What it requires; hasExternalProjectHistory keeps a project from deletion.
Accepts(kind, row) ==
  /\ ~row.deleted
  /\ CASE kind \in {"save-basics", "save-status", "archive"} -> row.status # "ARCHIVED"
       [] kind = "save-playbook" -> row.status # "ARCHIVED" /\ ~row.round
       [] kind = "restore" -> row.status = "ARCHIVED"
       [] kind = "delete" -> row.status = "DRAFT" /\ ~row.history
       [] OTHER -> TRUE

\* What an answer tells of a project, with whether its rounds froze the playbook.
Workspace(row) == [basics |-> row.basics, playbook |-> row.playbook,
                   status |-> row.status, round |-> row.round]

-----------------------------------------------------------------------------
(* The settings page.                                                      *)

Shown == settings.view
ShownArchived == Shown.status = "ARCHIVED"

OpenSettings ==
  /\ ~settings.open /\ ~project.deleted
  /\ settings' = [NotOpen EXCEPT !.open = TRUE]
  /\ inFlight' = [NoRequests EXCEPT !["load"].stage = "sent"]
  /\ UNCHANGED <<project, orderly>>

\* Commands still under way may be carried out: by Elsewhere, then.
LeaveSettings ==
  /\ settings.open
  /\ settings' = NotOpen
  /\ inFlight' = NoRequests
  /\ UNCHANGED <<project, orderly>>

SendCommand(kind, intent, value) ==
  /\ UnderWay < MaxRequests \/ kind = "load"
  /\ inFlight' = [inFlight EXCEPT ![kind] = [NoRequest EXCEPT !.stage = "sent",
                                                !.intent = intent, !.value = value]]

EditBasics(basics) ==
  /\ Shown # None /\ ~ShownArchived /\ ~Pending("save-basics")
  /\ settings' = [settings EXCEPT !.basics = basics]
  /\ UNCHANGED <<project, inFlight, orderly>>

SaveProjectBasics ==
  /\ Shown # None /\ ~ShownArchived /\ ~Pending("save-basics")
  /\ SendCommand("save-basics", 0, settings.basics)
  /\ UNCHANGED <<project, settings, orderly>>

\* playbookFrozen is what the page last read of the preparation.
SavePlaybook(playbook) ==
  /\ Shown # None /\ ~ShownArchived /\ ~Shown.round /\ ~Pending("save-playbook")
  /\ SendCommand("save-playbook", 0, playbook)
  /\ UNCHANGED <<project, settings, orderly>>

\* saveProjectStatus, archiveProject and restoreProject number their intents.
Transitioning == Pending("archive") \/ Pending("restore")

SendLifecycle(kind, value) ==
  /\ settings.intent < MaxIntents
  /\ settings' = [settings EXCEPT !.intent = @ + 1]
  /\ SendCommand(kind, settings.intent + 1, value)
  /\ UNCHANGED <<project, orderly>>

SaveProjectStatus(status) ==
  /\ Shown # None /\ ~ShownArchived /\ ~Transitioning /\ ~Pending("save-status")
  /\ SendLifecycle("save-status", status)

ArchiveProject ==
  /\ Shown # None /\ ~ShownArchived /\ ~Pending("archive")
  /\ SendLifecycle("archive", None)

RestoreProject ==
  /\ Shown # None /\ ShownArchived /\ ~Pending("restore")
  /\ SendLifecycle("restore", None)

DeleteProject ==
  /\ Shown # None /\ Shown.status = "DRAFT" /\ ~Pending("delete")
  /\ SendCommand("delete", 0, None)
  /\ UNCHANGED <<project, settings, orderly>>

\* A phase change that overtakes one sent later makes the page misjudge them.
ServeCommand(kind) ==
  LET call == inFlight[kind] IN
  /\ call.stage = "sent"
  /\ IF Accepts(kind, project)
     THEN /\ project' = CommandOutcome(kind, project, call.value)
          /\ inFlight' = [inFlight EXCEPT ![kind].stage = "done",
                                          ![kind].result = Workspace(project')]
     ELSE /\ inFlight' = [inFlight EXCEPT ![kind] = [NoRequest EXCEPT !.stage = "failed"]]
          /\ UNCHANGED project
  /\ settings' = IF call.intent > settings.served
                 THEN [settings EXCEPT !.served = call.intent] ELSE settings
  /\ orderly' = (kind = "load"
                   \/ (orderly /\ (kind \in Lifecycle => call.intent > settings.served)))

LoseCommand(kind) ==
  /\ inFlight[kind].stage \in {"sent", "done"}
  /\ inFlight' = [inFlight EXCEPT ![kind] = [NoRequest EXCEPT !.stage = "failed"]]
  /\ orderly' = (orderly /\ (kind \in Lifecycle => inFlight[kind].stage = "sent"))
  /\ UNCHANGED <<project, settings>>

\* loadSettings and its retry.
ReceiveLoad ==
  /\ inFlight["load"].stage \in {"done", "failed"}
  /\ IF inFlight["load"].stage = "done"
     THEN /\ settings' = [settings EXCEPT !.view = inFlight["load"].result,
                                          !.basics = inFlight["load"].result.basics]
          /\ inFlight' = [inFlight EXCEPT !["load"] = NoRequest]
     ELSE /\ SendCommand("load", 0, None) /\ UNCHANGED settings
  /\ UNCHANGED <<project, orderly>>

\* Variant: an answer is applied whatever was answered before.
AppliesAlways(intent) == TRUE

\* applyProjectStatus ignores the answer to an earlier intent.
Applies(intent) == intent >= settings.applied

\* applyProjectPatch takes from an answer what its command changed.
ReceiveAnswer(kind) ==
  LET answer == inFlight[kind].result intent == inFlight[kind].intent IN
  /\ kind # "load" /\ inFlight[kind].stage = "done"
  /\ settings' =
       CASE kind = "save-basics" ->
              [settings EXCEPT !.view.basics = answer.basics, !.basics = answer.basics]
         [] kind = "save-playbook" -> [settings EXCEPT !.view.playbook = answer.playbook]
         [] kind = "delete" -> NotOpen
         [] kind \in Lifecycle /\ Applies(intent) ->
              [settings EXCEPT !.view.status = answer.status, !.applied = intent]
         [] OTHER -> settings
  /\ inFlight' = IF kind = "delete" THEN NoRequests
                 ELSE [inFlight EXCEPT ![kind] = NoRequest]
  /\ UNCHANGED <<project, orderly>>

\* An error is shown; the forms stay.
ReceiveFailure(kind) ==
  /\ kind # "load" /\ inFlight[kind].stage = "failed"
  /\ inFlight' = [inFlight EXCEPT ![kind] = NoRequest]
  /\ UNCHANGED <<project, settings, orderly>>

-----------------------------------------------------------------------------
\* Another page, or a command of a page that was left.
CommandElsewhere(kind, value) ==
  /\ Accepts(kind, project)
  /\ project' = CommandOutcome(kind, project, value)
  /\ orderly' = (orderly /\ kind \notin Lifecycle)
  /\ UNCHANGED <<settings, inFlight>>

\* The first interview round, and the first mail or Git handoff.
WorkStarts ==
  /\ ~project.deleted /\ project.status # "ARCHIVED"
  /\ \/ project' = [project EXCEPT !.round = TRUE]
     \/ project' = [project EXCEPT !.history = TRUE]
  /\ UNCHANGED settingsVars

Settings ==
  \/ OpenSettings \/ LeaveSettings
  \/ \E basics \in SettingsBasics : EditBasics(basics)
  \/ SaveProjectBasics
  \/ \E playbook \in Playbooks : SavePlaybook(playbook)
  \/ \E status \in Phases : SaveProjectStatus(status)
  \/ ArchiveProject \/ RestoreProject \/ DeleteProject
  \/ \E kind \in CommandKinds :
       \/ ServeCommand(kind) \/ LoseCommand(kind)
       \/ ReceiveAnswer(kind) \/ ReceiveFailure(kind)
  \/ ReceiveLoad

LifecycleNext ==
  \/ Settings \/ WorkStarts
  \/ \E kind \in {"archive", "restore", "delete"} : CommandElsewhere(kind, None)
  \/ \E status \in Phases : CommandElsewhere("save-status", status)
  \/ \E basics \in SettingsBasics : CommandElsewhere("save-basics", basics)

LifecycleSpec == LifecycleInit /\ [][LifecycleNext]_lifecycleVars

-----------------------------------------------------------------------------
(* Properties.                                                             *)

ProjectRows == [basics : SettingsBasics, playbook : Playbooks,
         status : Phases \cup {"ARCHIVED"}, archivedFrom : Phases \cup {None},
         round : BOOLEAN, history : BOOLEAN, revision : BOOLEAN, deleted : BOOLEAN]

\* null is neither a phase nor what an answer tells of a project.
ASSUME LifecycleAssumption ==
  None \notin Phases /\ None \notin {Workspace(row) : row \in ProjectRows}

\* Every variable has its type, and a project that is ready for planning, or was
\* before it was archived, has a specification revision.
LifecycleTypeOK ==
  /\ project \in ProjectRows
  /\ "READY_FOR_PLANNING" \in {project.status, project.archivedFrom} => project.revision
  /\ settings.view \in {Workspace(row) : row \in ProjectRows} \cup {None}
  /\ \A kind \in CommandKinds : inFlight[kind].stage \in {"idle", "sent", "done", "failed"}
  /\ orderly \in BOOLEAN

\* Once its phase changes are answered, in whatever order, the settings page
\* shows the phase that the project is in - as long as they were carried out in
\* the order they were sent and nobody else changed the phase.
QuietPageShowsPhase ==
  (settings.view # None /\ orderly /\ \A kind \in Lifecycle : ~Pending(kind))
    => settings.view.status = project.status
=============================================================================
