-------------------------- MODULE DiscoveryEvidence --------------------------
(***************************************************************************)
(* What a project knows and from where: its attachments                    *)
(* (attachments.service.ts), the Evidence and the Insights that rest on it *)
(* (insights.service.ts), its contacts (contacts.service.ts), and the      *)
(* Discovery page and the attachment block of an Owner (discovery.page.ts, *)
(* project-attachment-block.component.ts).                                 *)
(*                                                                         *)
(* No command locks the project, nor, but for the Insight that it updates, *)
(* what it reads: each is a transaction that checks first and writes       *)
(* later, and others commit in between.  The foreign keys of migration     *)
(* 0026 are checked when it inserts; since migration 0034, which made the  *)
(* draft of a project deletable, they cascade when it removes.             *)
(***************************************************************************)
EXTENDS ProjectRow, Naturals, FiniteSets, Sequences

CONSTANTS
  Owners,          \* pages, with one command at a time
  MaxAttachments,  \* bound: attachments
  MaxEvidence,     \* bound: Evidence
  MaxInsights,     \* bound: Insights
  MaxVersions,     \* bound: versions of an Insight
  MaxContacts      \* bound: contacts

ASSUME EvidenceAssumption ==
  /\ MaxAttachments \in Nat /\ MaxEvidence \in Nat /\ MaxInsights \in Nat
  /\ MaxVersions \in Nat \ {0} /\ MaxContacts \in Nat

VARIABLES
  sealed,       \* the owner of the attachments, a follow-up or a round, is closed
  attachments,  \* governed_attachments; a removed one is not live
  evidence,     \* evidence: what it cites, retained or removable
  insights,     \* insights and insight_evidence: version and links; and whether
                \* a removal of what they link was checked already (observed)
  contacts,     \* project_contacts that exist
  tasks         \* the transaction of each Owner

tables == <<attachments, evidence, insights, contacts>>
evidenceVars == <<sealed, tables, tasks>>

NoTask == [kind |-> "idle"]

EvidenceInit ==
  /\ archived = FALSE /\ sealed = FALSE
  /\ attachments = <<>> /\ evidence = <<>> /\ insights = <<>> /\ contacts = {}
  /\ tasks = [o \in Owners |-> NoTask]

-----------------------------------------------------------------------------
(* What a command requires.                                                *)

Stored(table) == {id \in DOMAIN table : table[id].live}
LiveAttachments == Stored(attachments)
LiveEvidence == Stored(evidence)

\* Evidence comes of an answer or a link, of a Customer response, or of an attachment.
Sources == [kind : {"answer", "response"}, of : {0}]
           \cup [kind : {"attachment"}, of : LiveAttachments]

LinkedBy(e) == {i \in DOMAIN insights : e \in insights[i].links}
CitedBy(a) == {e \in LiveEvidence : evidence[e].source.of = a}

\* Variant: Evidence is removed without a look at who rests on it.
UnlinkedUnseen(e) == TRUE

\* existsBy({ evidenceId }), existsBy({ attachmentId }).
Unlinked(e) == LinkedBy(e) = {}
Uncited(a) == CitedBy(a) = {}

\* requireProject, and requireMutableOwner for attachments.
Begin(o, task, required) ==
  /\ tasks[o] = NoTask
  /\ ~archived /\ required
  /\ tasks' = [tasks EXCEPT ![o] = task]
  /\ UNCHANGED <<archived, sealed, tables>>

\* create, with Evidence that exists, with new Evidence, or with both.
CreateInsight(o, links, sources) ==
  Begin(o, [kind |-> "create", links |-> links, sources |-> sources],
        links # {} \/ sources # <<>>)

\* update, from a page that shows some version.
UpdateInsight(o, i, version, links) ==
  Begin(o, [kind |-> "update", insight |-> i, version |-> version, links |-> links],
        links # {})

DeleteEvidence(o, e) ==
  Begin(o, [kind |-> "delete-evidence", id |-> e],
        e \in LiveEvidence /\ evidence[e].source.kind # "response" /\ Unlinked(e))

Upload(o) == Begin(o, [kind |-> "upload"], ~sealed)

DeleteAttachment(o, a) ==
  Begin(o, [kind |-> "delete-attachment", id |-> a],
        a \in LiveAttachments /\ ~sealed /\ Uncited(a))

\* The new contact, or one that is changed, whose absence is noticed only here.
SaveContact(o, c) ==
  Begin(o, [kind |-> "save-contact", id |-> c],
        c \in contacts \/ c = Cardinality(contacts) + 1)

DeleteContact(o, c) == Begin(o, [kind |-> "delete-contact", id |-> c], c \in contacts)

-----------------------------------------------------------------------------
(* What it writes.                                                         *)

TaskEnds(o) == tasks' = [tasks EXCEPT ![o] = NoTask]
TaskOf(o) == tasks[o]

\* The keys of insight_evidence and evidence: what is inserted cites what exists.
Exists(links, sources) ==
  links \subseteq LiveEvidence /\ \A n \in DOMAIN sources : sources[n] \in Sources

\* Observed: a removal of any of this is on its way, and was checked before.
RemovalChecked(kind, id) == \E o \in Owners : tasks[o].kind = kind /\ tasks[o].id = id
Raced(links, table) ==
  \E e \in links : \/ RemovalChecked("delete-evidence", e)
                  \/ RemovalChecked("delete-attachment", table[e].source.of)

WriteInsight(o) ==
  LET sources == TaskOf(o).sources
      created == [n \in DOMAIN sources |-> [source |-> sources[n], live |-> TRUE]]
      links == TaskOf(o).links \cup Len(evidence) + 1..Len(evidence) + Len(sources) IN
  /\ TaskOf(o).kind = "create" /\ Exists(TaskOf(o).links, sources)
  /\ Len(insights) < MaxInsights /\ Len(evidence) + Len(sources) <= MaxEvidence
  /\ evidence' = evidence \o created
  /\ insights' = Append(insights, [version |-> 1, links |-> links,
                                   raced |-> Raced(links, evidence')])
  /\ TaskEnds(o)
  /\ UNCHANGED <<archived, sealed, attachments, contacts>>

\* The row of the Insight is locked while its version is compared.
WriteUpdate(o) ==
  LET task == TaskOf(o) IN
  /\ task.kind = "update" /\ Exists(task.links, <<>>)
  /\ insights[task.insight].version = task.version
  /\ task.version < MaxVersions
  /\ insights' = [insights EXCEPT ![task.insight] =
                    [version |-> task.version + 1, links |-> task.links,
                     raced |-> Raced(task.links, evidence)]]
  /\ TaskEnds(o)
  /\ UNCHANGED <<archived, sealed, attachments, evidence, contacts>>

\* ON DELETE CASCADE: with Evidence go its links, whoever has made them since.
RemoveWithLinks(gone) ==
  /\ evidence' = [e \in DOMAIN evidence |->
                    [evidence[e] EXCEPT !.live = @ /\ e \notin gone]]
  /\ insights' = [i \in DOMAIN insights |-> [insights[i] EXCEPT !.links = @ \ gone]]

RemoveEvidence(o) ==
  /\ TaskOf(o).kind = "delete-evidence"
  /\ RemoveWithLinks({TaskOf(o).id})
  /\ TaskEnds(o)
  /\ UNCHANGED <<archived, sealed, attachments, contacts>>

WriteAttachment(o) ==
  /\ TaskOf(o).kind = "upload" /\ Len(attachments) < MaxAttachments
  /\ attachments' = Append(attachments, [live |-> TRUE])
  /\ TaskEnds(o)
  /\ UNCHANGED <<archived, sealed, evidence, insights, contacts>>

RemoveAttachment(o) ==
  /\ TaskOf(o).kind = "delete-attachment"
  /\ attachments' = [attachments EXCEPT ![TaskOf(o).id].live = FALSE]
  /\ RemoveWithLinks(CitedBy(TaskOf(o).id))
  /\ TaskEnds(o)
  /\ UNCHANGED <<archived, sealed, contacts>>

\* A contact that was deleted meanwhile is inserted again.
WriteContact(o) ==
  /\ TaskOf(o).kind \in {"save-contact", "delete-contact"}
  /\ TaskOf(o).id <= MaxContacts
  /\ contacts' = IF TaskOf(o).kind = "save-contact"
                 THEN contacts \cup {TaskOf(o).id} ELSE contacts \ {TaskOf(o).id}
  /\ TaskEnds(o)
  /\ UNCHANGED <<archived, sealed, attachments, evidence, insights>>

\* Refused when it writes, or interrupted: the transaction is rolled back.
RollBack(o) ==
  /\ TaskOf(o) # NoTask
  /\ TaskEnds(o)
  /\ UNCHANGED <<archived, sealed, tables>>

ArchiveOrRestoreMeanwhile ==
  /\ archived' = ~archived
  /\ UNCHANGED <<sealed, tables, tasks>>

\* A follow-up is resolved; the summary of a round is sent, or edited again.
SealOrReopen ==
  /\ sealed' = ~sealed
  /\ UNCHANGED <<archived, tables, tasks>>

OwnerCommand(o) ==
  \/ \E links \in SUBSET LiveEvidence, n \in 0..(MaxEvidence - Len(evidence)) :
       \E sources \in [1..n -> Sources] : CreateInsight(o, links, sources)
  \/ \E i \in DOMAIN insights, links \in SUBSET LiveEvidence :
       \E version \in 1..insights[i].version : UpdateInsight(o, i, version, links)
  \/ \E e \in LiveEvidence : DeleteEvidence(o, e)
  \/ Upload(o)
  \/ \E a \in LiveAttachments : DeleteAttachment(o, a)
  \/ \E c \in 1..MaxContacts : SaveContact(o, c) \/ DeleteContact(o, c)
  \/ WriteInsight(o) \/ WriteUpdate(o) \/ RemoveEvidence(o)
  \/ WriteAttachment(o) \/ RemoveAttachment(o) \/ WriteContact(o) \/ RollBack(o)

EvidenceNext ==
  \/ \E o \in Owners : OwnerCommand(o)
  \/ ArchiveOrRestoreMeanwhile \/ SealOrReopen

EvidenceSpec == EvidenceInit /\ [][EvidenceNext]_<<archived, evidenceVars>>

-----------------------------------------------------------------------------
(* Properties.                                                             *)

\* Every variable has its type.
EvidenceTypeOK ==
  /\ archived \in BOOLEAN /\ sealed \in BOOLEAN
  /\ Len(attachments) <= MaxAttachments /\ Len(evidence) <= MaxEvidence
  /\ \A i \in DOMAIN insights : insights[i].version \in 1..MaxVersions
  /\ contacts \subseteq 1..MaxContacts

\* "An Insight requires at least one Evidence source": neither a creation nor an
\* update is taken without, and what an Insight rests on is not removed.  Between
\* the check of a removal and the removal, however, a link may be committed.
EachInsightHasEvidence == \A i \in DOMAIN insights : insights[i].links # {}

\* Only so is Evidence lost: an Insight that was linked while no removal of what
\* it rests on, or of what that cites, had been checked, keeps Evidence, however
\* the commands interleave, fail and are repeated; and whatever is linked or
\* cited exists, also after a removal that goes on from an attachment to links.
UnracedInsightsKeepEvidence ==
  /\ \A i \in DOMAIN insights :
       /\ insights[i].links = {} => insights[i].raced
       /\ insights[i].links \subseteq LiveEvidence
  /\ \A e \in LiveEvidence : evidence[e].source \in Sources
=============================================================================
