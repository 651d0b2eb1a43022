---------------------- MODULE CorrespondenceProcessing ----------------------
(***************************************************************************)
(* What employees do with the mail of Customers: the correspondences of a  *)
(* Project with their status, unread count and processing version          *)
(* (customer-replies.service.ts), the triage of messages that carry no     *)
(* reply token (customer-mail-triage.service.ts), and the ingestion that   *)
(* adds messages to both (customer-reply-ingestion.service.ts).            *)
(*                                                                         *)
(* A command locks the row it is about and is one action.  What an         *)
(* employee has on the screen was read by two queries outside of any       *)
(* transaction, first the correspondences and then their messages, and may *)
(* be arbitrarily old when a command is sent.                              *)
(***************************************************************************)
EXTENDS Null, ProjectRow, Integers, FiniteSets

CONSTANTS
  Messages,           \* mail that may arrive
  Correspondences,    \* correspondences of the Project
  Employees,
  Classifications,    \* CustomerInboundMessageClassification
  Accepted,           \* 'Elfogadva'
  MaxVersion          \* bound: processing version of a correspondence

ASSUME ConstantsAssumption ==
  /\ IsFiniteSet(Messages)
  /\ None \notin Correspondences
  /\ None \notin Classifications
  /\ Accepted \in Classifications
  /\ MaxVersion \in Nat

VARIABLES
  correspondence,   \* the customer_correspondences rows
  message,          \* customer_inbound_messages, with their customer_mail_triage
  classification,   \* customer_inbound_message_processing
  decisions,        \* customer_mail_triage_actions of each message, counted
  screen,           \* what each employee has read
  reviewed          \* observed: messages that the last review of each covered

vars == <<archived, correspondence, message, classification, decisions, screen,
          reviewed>>

Statuses == {"awaiting", "new", "processing", "closed"}
Blank == [stage |-> "none", version |-> [c \in Correspondences |-> 0], messages |-> {}]
Absent == [state |-> "absent", correspondence |-> None]

Init ==
  /\ archived = FALSE
  /\ correspondence = [c \in Correspondences |->
                         [status |-> "awaiting", unread |-> 0, version |-> 1]]
  /\ message = [m \in Messages |-> Absent]
  /\ classification = [m \in Messages |-> None]
  /\ decisions = [m \in Messages |-> 0]
  /\ screen = [e \in Employees |-> Blank]
  /\ reviewed = [c \in Correspondences |-> {}]

-----------------------------------------------------------------------------
\* Variant: the reply token only, without the join of linked triage rows.
EffectiveByToken(c) ==
  {m \in Messages : message[m].state = "matched" /\ message[m].correspondence = c}

\* The messages of a correspondence, by reply token or by triage.
Effective(c) ==
  {m \in Messages :
     message[m].state \in {"matched", "linked"} /\ message[m].correspondence = c}

EveryInboundMessageClassified(c, classes) ==
  \A m \in Effective(c) : classes[m] # None

\* Variant: new mail leaves a closed correspondence closed.
ReceivedWhileClosed(c) ==
  [correspondence EXCEPT
     ![c].status = IF @ = "closed" THEN @ ELSE "new",
     ![c].unread = @ + 1, ![c].version = @ + 1]

\* One message more: it is unread, and what employees have read is outdated.
Received(c) ==
  [correspondence EXCEPT ![c].status = "new", ![c].unread = @ + 1,
                         ![c].version = @ + 1]

-----------------------------------------------------------------------------
(* Ingestion.                                                              *)

\* retainInboundMessage with a valid reply token.
Match(m, c) ==
  /\ message[m].state = "absent"
  /\ correspondence[c].version < MaxVersion
  /\ message' = [message EXCEPT ![m] = [state |-> "matched", correspondence |-> c]]
  /\ correspondence' = Received(c)
  /\ UNCHANGED <<archived, classification, decisions, screen, reviewed>>

\* Without one, or from an unknown automation: the message waits for triage.
Retain(m) ==
  /\ message[m].state = "absent"
  /\ message' = [message EXCEPT ![m] = [state |-> "open", correspondence |-> None]]
  /\ UNCHANGED <<archived, correspondence, classification, decisions, screen,
                 reviewed>>

-----------------------------------------------------------------------------
(* Triage.  Only OPEN messages are shown, at their first version, so the   *)
(* expected version says no more than the state; a command that repeats    *)
(* the decision changes nothing.                                           *)

\* Variant: whatever was decided before is decided again.
TriageOpenIgnored(m) == message[m].state \in {"open", "linked", "dismissed"}

TriageOpen(m) == message[m].state = "open"

Link(m, c) ==
  /\ TriageOpen(m)
  /\ ~archived
  /\ correspondence[c].version < MaxVersion
  /\ message' = [message EXCEPT ![m] = [state |-> "linked", correspondence |-> c]]
  /\ correspondence' = Received(c)
  /\ decisions' = [decisions EXCEPT ![m] = @ + 1]
  /\ UNCHANGED <<archived, classification, screen, reviewed>>

Dismiss(m) ==
  /\ TriageOpen(m)
  /\ message' = [message EXCEPT ![m] = [state |-> "dismissed", correspondence |-> None]]
  /\ decisions' = [decisions EXCEPT ![m] = @ + 1]
  /\ UNCHANGED <<archived, correspondence, classification, screen, reviewed>>

-----------------------------------------------------------------------------
(* The work of the Project: forProject in its two queries.                 *)

ReadCorrespondences(e) ==
  /\ screen' = [screen EXCEPT
                  ![e] = [stage |-> "rows",
                          version |-> [c \in Correspondences |->
                                         correspondence[c].version],
                          messages |-> {}]]
  /\ UNCHANGED <<archived, correspondence, message, classification, decisions,
                 reviewed>>

ReadMessages(e) ==
  /\ screen[e].stage = "rows"
  /\ screen' = [screen EXCEPT
                  ![e].stage = "complete",
                  ![e].messages = UNION {Effective(c) : c \in Correspondences}]
  /\ UNCHANGED <<archived, correspondence, message, classification, decisions,
                 reviewed>>

-----------------------------------------------------------------------------
(* Commands on a correspondence.                                           *)

\* Variant: the version that the employee has read is not compared.
PermittedUnversioned(e, c) == ~archived /\ screen[e].stage = "complete"

Permitted(e, c) ==
  /\ ~archived
  /\ screen[e].stage = "complete"
  /\ correspondence[c].version = screen[e].version[c]

\* Variant: every command takes one message off the unread count.
UpdatedOneByOne(c, status, unread) ==
  /\ correspondence[c].version < MaxVersion
  /\ correspondence' = [correspondence EXCEPT
                          ![c].status = status, ![c].unread = @ - 1,
                          ![c].version = @ + 1]

\* updateCorrespondence.
Updated(c, status, unread) ==
  /\ correspondence[c].version < MaxVersion
  /\ correspondence' = [correspondence EXCEPT
                          ![c].status = status, ![c].unread = unread,
                          ![c].version = @ + 1]

MarkReviewed(e, c) ==
  /\ correspondence[c].unread # 0
  /\ Permitted(e, c)
  /\ Updated(c, correspondence[c].status, 0)
  /\ reviewed' = [reviewed EXCEPT ![c] = Effective(c)]
  /\ UNCHANGED <<archived, message, classification, decisions, screen>>

StatusTransitions ==
  [awaiting |-> {"closed"}, new |-> {"processing", "closed"},
   processing |-> {"closed"}, closed |-> {"processing"}]

SetStatus(e, c, status) ==
  /\ Permitted(e, c)
  /\ status \in StatusTransitions[correspondence[c].status]
  /\ status = "closed" => EveryInboundMessageClassified(c, classification)
  /\ Updated(c, status, correspondence[c].unread)
  /\ UNCHANGED <<archived, message, classification, decisions, screen, reviewed>>

ClassifyMessage(e, c, m, class, close) ==
  /\ Permitted(e, c)
  /\ m \in Effective(c)
  /\ close => class = Accepted
  /\ classification' = [classification EXCEPT ![m] = class]
  /\ close => EveryInboundMessageClassified(c, classification')
  /\ Updated(c, IF close THEN "closed" ELSE correspondence[c].status,
             correspondence[c].unread)
  /\ UNCHANGED <<archived, message, decisions, screen, reviewed>>

\* ProjectsService.archive and restore.
ArchiveOrRestore ==
  /\ archived' = ~archived
  /\ UNCHANGED <<correspondence, message, classification, decisions, screen,
                 reviewed>>

-----------------------------------------------------------------------------
Mail ==
  \E m \in Messages : Retain(m) \/ \E c \in Correspondences : Match(m, c)

Triage ==
  \E m \in Messages : Dismiss(m) \/ \E c \in Correspondences : Link(m, c)

Processing ==
  \E e \in Employees :
    \/ ReadCorrespondences(e)
    \/ ReadMessages(e)
    \/ \E c \in Correspondences :
         \/ MarkReviewed(e, c)
         \/ \E status \in Statuses : SetStatus(e, c, status)
         \/ \E m \in Messages, class \in Classifications, close \in BOOLEAN :
              ClassifyMessage(e, c, m, class, close)

Next == Mail \/ Triage \/ Processing \/ ArchiveOrRestore

Spec == Init /\ [][Next]_vars

-----------------------------------------------------------------------------
(* Properties.                                                             *)

TypeOK ==
  /\ archived \in BOOLEAN
  /\ correspondence \in [Correspondences ->
                           [status : Statuses, unread : Nat, version : Nat]]
  /\ message \in [Messages ->
                    [state : {"absent", "matched", "open", "linked", "dismissed"},
                     correspondence : Correspondences \cup {None}]]
  /\ classification \in [Messages -> Classifications \cup {None}]
  /\ decisions \in [Messages -> Nat]
  /\ screen \in [Employees -> [stage : {"none", "rows", "complete"},
                               version : [Correspondences -> Nat],
                               messages : SUBSET Messages]]
  /\ reviewed \in [Correspondences -> SUBSET Messages]

\* A closed correspondence holds no unclassified reply: neither a reply that
\* arrives, or is linked by triage, while employees classify and close, nor one
\* that arrives later is closed with the others.
ClosedIsClassified ==
  \A c \in Correspondences :
    correspondence[c].status = "closed" =>
      EveryInboundMessageClassified(c, classification)

\* The unread count is the number of messages since the last review, however
\* mail, triage and reviews interleave.
UnreadIsCounted ==
  \A c \in Correspondences :
    correspondence[c].unread = Cardinality(Effective(c) \ reviewed[c])

\* Each unmatched message is decided on once, although several employees see it:
\* it is linked to one correspondence or dismissed, and the immutable record of
\* triage actions tells exactly that.
OneDecisionPerMessage ==
  \A m \in Messages :
    decisions[m] = IF message[m].state \in {"linked", "dismissed"} THEN 1 ELSE 0

\* Nobody reviews, classifies or closes a correspondence without having read all
\* of its messages: a reply that arrives between reading and command, or even
\* between the two queries of reading, makes the command fail.  (Each of these
\* commands raises the version of the correspondence.)
ProcessedAsRead ==
  [][correspondence' # correspondence =>
       \A e \in Employees, c \in Correspondences :
         (\/ MarkReviewed(e, c)
          \/ \E status \in Statuses : SetStatus(e, c, status)
          \/ \E m \in Messages, class \in Classifications, close \in BOOLEAN :
               ClassifyMessage(e, c, m, class, close))
         => Effective(c) \subseteq screen[e].messages]_vars

=============================================================================
