---------------------------- MODULE ProjectStatus ----------------------------
(***************************************************************************)
(* What Owners record of a project: its coordination (projects.service.ts, *)
(* updateWorkspace), its status updates and its formal decisions           *)
(* (decision-status.service.ts), from the Project Status page and the      *)
(* Decision Review page of each of them (project-status.page.ts,           *)
(* decision-review.page.ts).                                               *)
(*                                                                         *)
(* Every command locks the project and is a single step.  A page sends a   *)
(* command, which is refused or carried out later, and answered later      *)
(* still, or never.  The lists a page loads are answered in any order.     *)
(* A form is sent with whatever was typed into it last; a page that shows  *)
(* an archived project sends nothing, which would be refused anyway.       *)
(***************************************************************************)
EXTENDS Naturals, FiniteSets, Sequences

CONSTANTS
  Owners,
  Texts,         \* what a status update may say
  Coordinations, \* owner role, next action and due date
  Outcomes,      \* what a decision may be
  None,
  MaxUpdates,    \* bound: status updates
  MaxDecisions,  \* bound: formal decisions
  MaxCalls       \* bound: commands under way

VARIABLES
  archived,      \* the project is ARCHIVED
  coordination,  \* of the project, saved as one
  updates,       \* project_status_updates, by version
  decisions,     \* formal_decisions, by version
  pages          \* the pages of each Owner

vars == <<archived, coordination, updates, decisions, pages>>
serverVars == <<archived, coordination, updates, decisions>>

Kinds == {"coordination", "status", "decision"}
Inputs(kind) == CASE kind = "coordination" -> Coordinations
                  [] kind = "status" -> Texts
                  [] kind = "decision" -> Outcomes
Idle == [stage |-> "idle", update |-> 0, text |-> None]

\* latest is the version of the entry that the list shows first, and update the one
\* that the status form edits.
Page == [latest |-> 0, update |-> 0, call |-> [kind \in Kinds |-> Idle]]

Init ==
  /\ archived = FALSE
  /\ coordination = None
  /\ updates = <<>> /\ decisions = <<>>
  /\ pages = [o \in Owners |-> Page]

-----------------------------------------------------------------------------
(* The API.                                                                *)

\* updateLatestStatus.
Editable(update) == update \in DOMAIN updates /\ update = Len(updates)

Record(kind, update, text) ==
  CASE kind = "coordination" ->
         /\ coordination' = text
         /\ UNCHANGED <<updates, decisions>>
    [] kind = "decision" ->
         /\ Len(decisions) < MaxDecisions
         /\ decisions' = Append(decisions, text)
         /\ UNCHANGED <<coordination, updates>>
    [] kind = "status" /\ update = 0 ->
         /\ Len(updates) < MaxUpdates
         /\ updates' = Append(updates, text)
         /\ UNCHANGED <<coordination, decisions>>
    [] OTHER ->
         /\ Editable(update)
         /\ updates' = [updates EXCEPT ![update] = text]
         /\ UNCHANGED <<coordination, decisions>>

Call(o, kind) == pages[o].call[kind]

CarryOut(o, kind) ==
  /\ Call(o, kind).stage = "sent" /\ ~archived
  /\ Record(kind, Call(o, kind).update, Call(o, kind).text)
  /\ pages' = [pages EXCEPT ![o].call[kind] =
                  IF kind = "status" THEN [@ EXCEPT !.stage = "done"] ELSE Idle]
  /\ UNCHANGED archived

\* Archived, not the latest update any more, or not reached at all.
Refuse(o, kind) ==
  /\ Call(o, kind).stage = "sent"
  /\ pages' = [pages EXCEPT ![o].call[kind] = Idle]
  /\ UNCHANGED serverVars

ArchiveOrRestore ==
  /\ archived' = ~archived
  /\ UNCHANGED <<coordination, updates, decisions, pages>>

-----------------------------------------------------------------------------
(* The pages.                                                              *)

\* ngOnInit of either page: nothing that was typed is kept.
OpenPage(o) ==
  /\ pages' = [pages EXCEPT ![o] = Page]
  /\ UNCHANGED serverVars

\* loadStatusUpdates: whichever answer comes last is shown, however old.
ShowUpdates(o, version) ==
  /\ pages' = [pages EXCEPT ![o].latest = version]
  /\ UNCHANGED serverVars

\* editStatusUpdate: the list marks its first entry as editable.
EditStatusUpdate(o) ==
  /\ pages[o].latest # 0  /\ Call(o, "status") = Idle
  /\ pages' = [pages EXCEPT ![o].update = pages[o].latest]
  /\ UNCHANGED serverVars

\* cancelStatusEdit is offered while a save is under way, too.
CancelStatusEdit(o) ==
  /\ pages[o].update # 0
  /\ pages' = [pages EXCEPT ![o].update = 0]
  /\ UNCHANGED serverVars

\* saveCoordination, saveStatusUpdate and saveDecision.
UnderWay == {<<o, kind>> \in Owners \X Kinds : Call(o, kind) # Idle}

Save(o, kind, text) ==
  /\ Call(o, kind) = Idle
  /\ Cardinality(UnderWay) < MaxCalls
  /\ pages' = [pages EXCEPT ![o].call[kind] =
       [stage |-> "sent", update |-> IF kind = "status" THEN pages[o].update ELSE 0,
        text |-> text]]
  /\ UNCHANGED serverVars

\* The answer of a saved status ends the edit, whichever it is by now; that of the
\* other commands shows what was saved.
Answer(o) ==
  /\ Call(o, "status").stage = "done"
  /\ pages' = [pages EXCEPT ![o].call["status"] = Idle, ![o].update = 0]
  /\ UNCHANGED serverVars

\* The answer is lost: the page reports an error and stays as it is.
LoseAnswer(o) ==
  /\ Call(o, "status").stage = "done"
  /\ pages' = [pages EXCEPT ![o].call["status"] = Idle]
  /\ UNCHANGED serverVars

Next ==
  \/ ArchiveOrRestore
  \/ \E o \in Owners :
       \/ OpenPage(o) \/ EditStatusUpdate(o) \/ CancelStatusEdit(o)
       \/ Answer(o) \/ LoseAnswer(o)
       \/ \E version \in 0..Len(updates) : ShowUpdates(o, version)
       \/ \E kind \in Kinds :
            \/ \E text \in Inputs(kind) : Save(o, kind, text)
            \/ CarryOut(o, kind) \/ Refuse(o, kind)

Spec == Init /\ [][Next]_vars

-----------------------------------------------------------------------------
(* Properties.                                                             *)

\* Every variable has its type.
StatusTypeOK ==
  /\ archived \in BOOLEAN
  /\ coordination \in Coordinations \cup {None}
  /\ updates \in Seq(Texts) /\ Len(updates) <= MaxUpdates
  /\ decisions \in Seq(Outcomes) /\ Len(decisions) <= MaxDecisions
  /\ \A o \in Owners : pages[o].update \in 0..MaxUpdates
=============================================================================
