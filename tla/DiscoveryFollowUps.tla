-------------------------- MODULE DiscoveryFollowUps --------------------------
(***************************************************************************)
(* Discovery follow-ups: the API (discovery-follow-ups.service.ts) and the *)
(* page that lists, edits, links and resolves them                         *)
(* (discovery-follow-ups.component.ts).  Every row has a version that the  *)
(* API compares with the one an edit or a link started from.               *)
(*                                                                         *)
(* ProjectCommandPending admits one request of a kind at a time, so the    *)
(* requests of the page are a function of their kind.                      *)
(***************************************************************************)
EXTENDS Null, ProjectRow, Naturals, Sequences, FiniteSets

CONSTANTS
  Texts,          \* what an edit changes: category, question, owner, date, step
  Resolved,       \* canonical resolved statuses
  Snapshots,      \* question snapshots of Initial Intakes
  MaxFollowUps,   \* bound: follow-ups
  MaxRowVersions, \* bound: versions of a follow-up
  MaxCalls        \* bound: requests under way

ASSUME FollowUpsAssumption == MaxRowVersions \in Nat \ {0}

VARIABLES
  current,     \* snapshots of the current Initial Intake
  followUps,   \* discovery_follow_ups
  page,        \* what the page shows, and its forms
  calls        \* the request of each kind, if one is under way

followUpVars == <<archived, current, followUps, page, calls>>

Kinds == {"list", "refresh", "create", "update", "source-link", "resolve"}
NoCall == [stage |-> "idle", id |-> 0, base |-> None, value |-> None, result |-> None]
ClosedForm ==
  [id |-> 0, base |-> None, value |-> None, conflict |-> FALSE, snapshot |-> None]

FollowUpIds == DOMAIN followUps
Row(text, source) == [text |-> text, status |-> "open", source |-> source, version |-> 1]

FollowUpsInit ==
  /\ archived = FALSE
  /\ current \in SUBSET Snapshots
  /\ followUps = <<>>
  /\ page = [list |-> <<>>, archived |-> FALSE, edit |-> ClosedForm,
             link |-> ClosedForm, resolution |-> 0, removal |-> ClosedForm]
  /\ calls = [kind \in Kinds |-> IF kind = "list" THEN [NoCall EXCEPT !.stage = "sent"]
                                 ELSE NoCall]

-----------------------------------------------------------------------------
(* The API.  Each operation locks the project and then the row.            *)

Changed(f, row) ==
  /\ row.version < MaxRowVersions
  /\ followUps' = [followUps EXCEPT ![f] = [row EXCEPT !.version = @ + 1]]

Create(text, source) ==
  /\ Len(followUps) < MaxFollowUps
  /\ followUps' = Append(followUps, Row(text, source))

\* requireCurrentSourceSnapshot.
Linkable(source) == source \in current \cup {None}

\* Variant: an edit is taken from any version.
EditableAnyVersion(f, version) == ~archived /\ followUps[f].status = "open"

\* What update and setSourceLink ask of the row.
Editable(f, version) ==
  /\ ~archived
  /\ followUps[f].status = "open"
  /\ followUps[f].version = version

Update(f, text) ==
  IF text = followUps[f].text THEN UNCHANGED followUps
  ELSE Changed(f, [followUps[f] EXCEPT !.text = text])

SetSourceLink(f, source) ==
  IF source = followUps[f].source THEN UNCHANGED followUps
  ELSE Changed(f, [followUps[f] EXCEPT !.source = source])

\* resolve compares no version.
Resolvable(f) == ~archived /\ followUps[f].status = "open"

Resolve(f, status) == Changed(f, [followUps[f] EXCEPT !.status = status])

-----------------------------------------------------------------------------
(* The page: its forms.                                                    *)

Listed(f) == f \in DOMAIN page.list
ListedOpen(f) == Listed(f) /\ page.list[f].status = "open"

\* mutationDisabled; another form keeps a row from being opened, a request
\* that removes a source does not.
MutationDisabled == page.archived \/ page.removal.id # 0
ActionDisabled ==
  \/ MutationDisabled
  \/ page.edit.id # 0 \/ page.link.id # 0 \/ page.resolution # 0

Saving(kind) == calls[kind].stage # "idle"

Send(kind, id, base, value) ==
  /\ Cardinality({k \in Kinds : Saving(k)}) < MaxCalls
  /\ calls' = [calls EXCEPT ![kind] = [stage |-> "sent", id |-> id, base |-> base,
                                            value |-> value, result |-> None]]

\* createFollowUp.
CreateFollowUp(text, source) ==
  /\ ~MutationDisabled /\ ~Saving("create")
  /\ Send("create", 0, None, [text |-> text, source |-> source])
  /\ UNCHANGED <<archived, current, followUps, page>>

OpenEdit(f) ==
  /\ ListedOpen(f) /\ ~ActionDisabled
  /\ page' = [page EXCEPT !.edit = [ClosedForm EXCEPT !.id = f, !.base = page.list[f],
                                                  !.value = page.list[f].text]]
  /\ UNCHANGED <<archived, current, followUps, calls>>

\* clearEditState; the refresh of a conflict is forgotten with it.
CancelEdit ==
  /\ page.edit.id # 0 /\ ~Saving("update")
  /\ page' = [page EXCEPT !.edit = ClosedForm]
  /\ calls' = [calls EXCEPT !["refresh"] = NoCall]
  /\ UNCHANGED <<archived, current, followUps>>

\* editControlDisabled.
EditDisabled ==
  \/ MutationDisabled
  \/ Saving("update")
  \/ page.edit.conflict
  \/ ~ListedOpen(page.edit.id)

TypeEdit(text) ==
  /\ page.edit.id # 0 /\ ~EditDisabled
  /\ page' = [page EXCEPT !.edit.value = text]
  /\ UNCHANGED <<archived, current, followUps, calls>>

\* saveEdit.
SaveEdit ==
  LET edit == page.edit IN
  /\ edit.id # 0 /\ ~EditDisabled
  /\ page.list[edit.id].version = edit.base.version
  /\ edit.value # edit.base.text
  /\ Send("update", edit.id, edit.base, edit.value)
  /\ UNCHANGED <<archived, current, followUps, page>>

\* retryEditConflictRefresh, after a refresh that failed.
RetryRefresh ==
  /\ page.edit.conflict /\ ~Saving("refresh")
  /\ Send("refresh", page.edit.id, None, None)
  /\ page' = [page EXCEPT !.edit.snapshot = None]
  /\ UNCHANGED <<archived, current, followUps>>

\* reloadEditFromCurrent: the draft gives way to the row as it is now.
ReloadEdit ==
  /\ page.edit.snapshot # None /\ ~page.archived /\ ~Saving("refresh")
  /\ page.edit.snapshot.status = "open"
  /\ page' = [page EXCEPT !.edit = [ClosedForm EXCEPT !.id = page.edit.id,
                                                  !.base = page.edit.snapshot,
                                                  !.value = page.edit.snapshot.text]]
  /\ UNCHANGED <<archived, current, followUps, calls>>

OpenSourceLink(f) ==
  /\ ListedOpen(f) /\ page.list[f].source = None /\ ~ActionDisabled
  /\ page' = [page EXCEPT !.link = [ClosedForm EXCEPT !.id = f, !.base = page.list[f]]]
  /\ UNCHANGED <<archived, current, followUps, calls>>

SaveSourceLink(source) ==
  /\ page.link.id # 0 /\ ~MutationDisabled /\ ~Saving("source-link")
  /\ Send("source-link", page.link.id, page.link.base, source)
  /\ UNCHANGED <<archived, current, followUps, page>>

CloseSourceLink ==
  /\ page.link.id # 0 /\ ~Saving("source-link")
  /\ page' = [page EXCEPT !.link = ClosedForm]
  /\ UNCHANGED <<archived, current, followUps, calls>>

\* confirmSourceLinkRemoval.
ConfirmRemoval(f) ==
  /\ ListedOpen(f) /\ page.list[f].source # None /\ ~ActionDisabled
  /\ page' = [page EXCEPT !.removal = [ClosedForm EXCEPT !.id = f, !.base = page.list[f]]]
  /\ UNCHANGED <<archived, current, followUps, calls>>

CancelRemoval ==
  /\ page.removal.id # 0
  /\ page' = [page EXCEPT !.removal = ClosedForm]
  /\ UNCHANGED <<archived, current, followUps, calls>>

\* acceptSourceLinkRemoval closes the question before its request is answered.
AcceptRemoval ==
  LET f == page.removal.id IN
  /\ f # 0 /\ ~page.archived /\ ~Saving("source-link")
  /\ ListedOpen(f) /\ page.list[f].source # None
  /\ page' = [page EXCEPT !.removal = ClosedForm]
  /\ Send("source-link", f, page.removal.base, None)
  /\ UNCHANGED <<archived, current, followUps>>

OpenResolution(f) ==
  /\ ListedOpen(f) /\ ~ActionDisabled
  /\ page' = [page EXCEPT !.resolution = f]
  /\ UNCHANGED <<archived, current, followUps, calls>>

CancelResolution ==
  /\ page.resolution # 0 /\ ~Saving("resolve")
  /\ page' = [page EXCEPT !.resolution = 0]
  /\ UNCHANGED <<archived, current, followUps, calls>>

\* resolveFollowUp.
ResolveFollowUp(status) ==
  /\ ListedOpen(page.resolution) /\ ~MutationDisabled /\ ~Saving("resolve")
  /\ Send("resolve", page.resolution, page.list[page.resolution], status)
  /\ UNCHANGED <<archived, current, followUps, page>>

\* The parent page passes on the status it read; an archived project closes
\* every form.
StatusArrives ==
  /\ page.archived # archived
  /\ page' = IF archived
             THEN [page EXCEPT !.archived = TRUE, !.edit = ClosedForm,
                               !.link = ClosedForm, !.removal = ClosedForm,
                               !.resolution = 0]
             ELSE [page EXCEPT !.archived = FALSE]
  /\ calls' = IF archived THEN [calls EXCEPT !["refresh"] = NoCall] ELSE calls
  /\ UNCHANGED <<archived, current, followUps>>

-----------------------------------------------------------------------------
(* Requests and their answers.                                             *)

\* What the API does for a request, and what it requires; a source that is
\* kept is not looked up.
ApiCommand(kind, call) ==
  CASE kind = "create" -> Create(call.value.text, call.value.source)
    [] kind = "update" -> Update(call.id, call.value)
    [] kind = "source-link" -> SetSourceLink(call.id, call.value)
    [] kind = "resolve" -> Resolve(call.id, call.value)
    [] OTHER -> UNCHANGED followUps

Permits(kind, call) ==
  CASE kind = "create" -> ~archived /\ Linkable(call.value.source)
    [] kind = "update" -> Editable(call.id, call.base.version)
    [] kind = "source-link" ->
         /\ Editable(call.id, call.base.version)
         /\ call.value = followUps[call.id].source \/ Linkable(call.value)
    [] kind = "resolve" -> Resolvable(call.id)
    [] OTHER -> TRUE

\* The rows that a request returns: all of them, or the one it changed.
Returned(kind, call) ==
  CASE kind \in {"list", "refresh"} -> followUps
    [] kind = "create" -> [f \in {Len(followUps')} |-> followUps'[f]]
    [] OTHER -> [f \in {call.id} |-> followUps'[f]]

Serve(kind) ==
  /\ calls[kind].stage = "sent"
  /\ IF Permits(kind, calls[kind])
     THEN /\ ApiCommand(kind, calls[kind])
          /\ calls' = [calls EXCEPT ![kind].stage = "done",
                                    ![kind].result = Returned(kind, calls[kind])]
     ELSE /\ calls' = [calls EXCEPT ![kind].stage = "refused"]
          /\ UNCHANGED followUps
  /\ UNCHANGED <<archived, current, page>>

\* A request or its answer is lost.
Lose(kind) ==
  /\ calls[kind].stage \in {"sent", "done"}
  /\ calls' = [calls EXCEPT ![kind].stage = "lost"]
  /\ UNCHANGED <<archived, current, followUps, page>>

\* loadFollowUps: the answer replaces the list; after an error it is retried.
ReceiveList ==
  /\ calls["list"].stage \in {"done", "lost"}
  /\ IF calls["list"].stage = "done"
     THEN /\ page' = [page EXCEPT !.list = calls["list"].result]
          /\ calls' = [calls EXCEPT !["list"] = NoCall]
     ELSE Send("list", 0, None, None) /\ UNCHANGED page
  /\ UNCHANGED <<archived, current, followUps>>

\* The list answered to refreshAfterEditConflict, for the conflict it is about.
ReceiveRefresh ==
  /\ calls["refresh"].stage \in {"done", "lost"}
  /\ calls' = [calls EXCEPT !["refresh"] = NoCall]
  /\ page' = IF calls["refresh"].stage = "done"
             THEN [page EXCEPT !.list = calls["refresh"].result,
                               !.edit.snapshot = calls["refresh"].result[page.edit.id]]
             ELSE page
  /\ UNCHANGED <<archived, current, followUps>>

\* Rows that take the place of those shown, and new ones.
Replaced(list, rows) ==
  [f \in DOMAIN list \cup DOMAIN rows |-> IF f \in DOMAIN rows THEN rows[f] ELSE list[f]]

\* The row that was changed replaces the one shown, and its form is closed.
Closed(kind) ==
  [page EXCEPT !.list = Replaced(@, calls[kind].result),
               !.edit = IF kind = "update" THEN ClosedForm ELSE @,
               !.link = IF kind = "source-link" /\ calls[kind].value # None
                        THEN ClosedForm ELSE @,
               !.resolution = IF kind = "resolve" THEN 0 ELSE @]

ReceiveDone(kind) ==
  /\ kind \notin {"list", "refresh"} /\ calls[kind].stage = "done"
  /\ page' = Closed(kind)
  /\ calls' = [calls EXCEPT ![kind] = NoCall,
                            !["refresh"] = IF kind = "update" THEN NoCall ELSE @]
  /\ UNCHANGED <<archived, current, followUps>>

\* An edit that was refused keeps its draft and fetches the row.
ReceiveConflict ==
  /\ calls["update"].stage = "refused"
  /\ IF page.edit.id = calls["update"].id
     THEN /\ page' = [page EXCEPT !.edit.conflict = TRUE, !.edit.snapshot = None]
          /\ calls' = [calls EXCEPT !["update"] = NoCall,
                                    !["refresh"] = [NoCall EXCEPT !.stage = "sent",
                                                                !.id = page.edit.id]]
     ELSE /\ calls' = [calls EXCEPT !["update"] = NoCall]
          /\ UNCHANGED page
  /\ UNCHANGED <<archived, current, followUps>>

\* Any other error is shown, and the form stays.
ReceiveError(kind) ==
  /\ kind \notin {"list", "refresh"}
  /\ calls[kind].stage = "lost" \/ (calls[kind].stage = "refused" /\ kind # "update")
  /\ calls' = [calls EXCEPT ![kind] = NoCall]
  /\ UNCHANGED <<archived, current, followUps, page>>

-----------------------------------------------------------------------------
\* Another page of the application, which reads the row it changes.
Elsewhere ==
  /\ \/ \E text \in Texts, source \in Snapshots \cup {None} :
          ~archived /\ Linkable(source) /\ Create(text, source)
     \/ \E f \in FollowUpIds :
          /\ Editable(f, followUps[f].version)
          /\ \/ \E text \in Texts : Update(f, text)
             \/ \E source \in Snapshots \cup {None} :
                  Linkable(source) /\ SetSourceLink(f, source)
             \/ \E status \in Resolved : Resolve(f, status)
  /\ UNCHANGED <<archived, current, page, calls>>

\* Another Initial Intake becomes the current one.
IntakeMoves ==
  /\ current' \in SUBSET Snapshots /\ current' # current
  /\ UNCHANGED <<archived, followUps, page, calls>>

ArchiveOrRestoreUnheard ==
  /\ archived' = ~archived
  /\ UNCHANGED <<current, followUps, page, calls>>

\* Nothing is shown while the list is loading.
Forms ==
  /\ ~Saving("list")
  /\ \/ \E text \in Texts, source \in Snapshots \cup {None} : CreateFollowUp(text, source)
     \/ \E text \in Texts : TypeEdit(text)
     \/ \E f \in DOMAIN page.list :
          OpenEdit(f) \/ OpenSourceLink(f) \/ ConfirmRemoval(f) \/ OpenResolution(f)
     \/ CancelEdit \/ SaveEdit \/ RetryRefresh \/ ReloadEdit
     \/ \E source \in Snapshots : SaveSourceLink(source)
     \/ CloseSourceLink \/ CancelRemoval \/ AcceptRemoval \/ CancelResolution
     \/ \E status \in Resolved : ResolveFollowUp(status)
     \/ StatusArrives

Requests ==
  \/ ReceiveList \/ ReceiveRefresh \/ ReceiveConflict
  \/ \E kind \in Kinds : Serve(kind) \/ Lose(kind) \/ ReceiveDone(kind) \/ ReceiveError(kind)

FollowUpsNext ==
  Forms \/ Requests \/ Elsewhere \/ IntakeMoves \/ ArchiveOrRestoreUnheard

FollowUpsSpec == FollowUpsInit /\ [][FollowUpsNext]_followUpVars

-----------------------------------------------------------------------------
(* Properties.                                                             *)

Rows == [text : Texts, status : {"open"} \cup Resolved,
         source : Snapshots \cup {None}, version : 1..MaxRowVersions]

\* Every variable has its type.
FollowUpsTypeOK ==
  /\ archived \in BOOLEAN
  /\ current \subseteq Snapshots
  /\ \A f \in FollowUpIds : followUps[f] \in Rows
  /\ \A f \in DOMAIN page.list : f \in FollowUpIds /\ page.list[f] \in Rows
  /\ page.edit.snapshot \in Rows \cup {None}
  /\ \A kind \in Kinds : calls[kind].stage \in {"idle", "sent", "done", "refused", "lost"}

\* An edit replaces the text that its form was filled with and no later one,
\* whatever else was saved while it was typed.
EditReplacesWhatItShowed ==
  [][Serve("update") /\ followUps' # followUps =>
       LET f == calls["update"].id IN followUps[f] = calls["update"].base]_followUpVars
=============================================================================
