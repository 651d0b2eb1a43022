---------------------------- MODULE MCProjectWork ----------------------------
(***************************************************************************)
(* Model checking of the work of a Project between its creation and its    *)
(* deletion: the mail of its Customer, clarification requests, discovery   *)
(* follow-ups, evidence, status, the handoff of its package to Git, how    *)
(* far it is prepared for estimation, and its place in the queue.          *)
(* The components share no state but the status of the Project, so each    *)
(* behaviour is about one of them, its focus, while the others stay as     *)
(* they are.                                                               *)
(***************************************************************************)
EXTENDS CorrespondenceProcessing, CustomerResponse, DiscoveryFollowUps,
  DiscoveryEvidence, ProjectCreation, ProjectLifecycle, DeliveryHandoff,
  ActiveProjectQueue, MCProjectPreparation, TLC

CONSTANTS o1, o2, a, b

VARIABLES
  focus,
  coordination, updates, formalDecisions, pages

-----------------------------------------------------------------------------
StatusPages == INSTANCE ProjectStatus WITH
  Owners <- {o1, o2}, Texts <- {a, b}, Coordinations <- {a}, Outcomes <- {a},
  MaxUpdates <- 2, MaxDecisions <- 1, MaxCalls <- 1, decisions <- formalDecisions

\* Contacts share nothing with Evidence but the Project: each for itself.
Contacts == INSTANCE DiscoveryEvidence WITH
  MaxAttachments <- 0, MaxEvidence <- 0, MaxInsights <- 0
Insights == INSTANCE DiscoveryEvidence WITH MaxContacts <- 0

\* A Project of the general playbook until its estimate; one whose playbook is
\* chosen, and chosen again, until its intake has ended.
GeneralPlaybook == INSTANCE ProjectPreparation WITH
  Packaged <- {General}, Schemas <- GeneralSchemas
AnyPlaybook == INSTANCE ProjectPreparation WITH
  RoundAnswers <- {}, Reviews <- {}, MaxTracked <- 0

\* Three Projects; the name of the last one is normalized differently.
ProjectNames == <<1, 3, 5>>
ProjectsFound == (a :> {1, 3}) @@ (None :> Projects)

mailVars == <<correspondence, message, classification, decisions, screen, reviewed>>
discoveryVars == <<current, followUps, page, calls>>
statusVars == <<coordination, updates, formalDecisions, pages>>
statusReadingVars == <<schema, rounds, summary, playbook, owned, followUpCounts,
                       ratings, reading>>
laterVars == <<statusReadingVars, queueVars>>
allVars == <<focus, archived, mailVars, responseVars, discoveryVars, evidenceVars,
             statusVars, creationVars, lifecycleVars, deliveryVars, laterVars>>

Symmetric == Permutations({o1, o2})

-----------------------------------------------------------------------------
AllInit ==
  /\ focus \in {"mail", "response", "discovery", "evidence", "contacts", "status",
                "creation", "lifecycle", "git", "preparation", "playbook", "queue"}
  /\ Init /\ ResponseInit /\ EvidenceInit /\ CreationInit /\ DeliveryInit
  /\ StatusPages!Init /\ LifecycleInit /\ FollowUpsInit
  /\ PreparationInit /\ QueueInit
  /\ focus # "discovery" => current = {}
  /\ focus # "playbook" => playbook = General

MailStep ==
  /\ focus = "mail" /\ Next
  /\ UNCHANGED <<focus, responseVars, discoveryVars, evidenceVars, statusVars,
                 creationVars, lifecycleVars, deliveryVars, laterVars>>

ResponseStep ==
  /\ focus = "response" /\ ResponseNext
  /\ UNCHANGED <<focus, mailVars, discoveryVars, evidenceVars, statusVars,
                 creationVars, lifecycleVars, deliveryVars, laterVars>>

DiscoveryStep ==
  /\ focus = "discovery" /\ FollowUpsNext
  /\ UNCHANGED <<focus, mailVars, responseVars, evidenceVars, statusVars,
                 creationVars, lifecycleVars, deliveryVars, laterVars>>

EvidenceStep ==
  /\ \/ focus = "evidence" /\ Insights!EvidenceNext
     \/ focus = "contacts" /\ Contacts!EvidenceNext
  /\ UNCHANGED <<focus, mailVars, responseVars, discoveryVars, statusVars,
                 creationVars, lifecycleVars, deliveryVars, laterVars>>

StatusStep ==
  /\ focus = "status" /\ StatusPages!Next
  /\ UNCHANGED <<focus, mailVars, responseVars, discoveryVars, evidenceVars,
                 creationVars, lifecycleVars, deliveryVars, laterVars>>

CreationStep ==
  /\ focus = "creation" /\ CreationNext
  /\ UNCHANGED <<focus, archived, mailVars, responseVars, discoveryVars, evidenceVars,
                 statusVars, lifecycleVars, deliveryVars, laterVars>>

LifecycleStep ==
  /\ focus = "lifecycle" /\ LifecycleNext
  /\ UNCHANGED <<focus, archived, mailVars, responseVars, discoveryVars, evidenceVars,
                 statusVars, creationVars, deliveryVars, laterVars>>

DeliveryStep ==
  /\ focus = "git" /\ DeliveryNext
  /\ UNCHANGED <<focus, archived, mailVars, responseVars, discoveryVars, evidenceVars,
                 statusVars, creationVars, lifecycleVars, laterVars>>

OtherVars == <<mailVars, responseVars, discoveryVars, evidenceVars, statusVars,
               creationVars, lifecycleVars, deliveryVars>>

PreparationStep ==
  /\ \/ focus = "preparation" /\ GeneralPlaybook!PreparationNext
     \/ focus = "playbook" /\ AnyPlaybook!PreparationNext
  /\ UNCHANGED <<focus, OtherVars, queueVars>>

QueueStep ==
  /\ focus = "queue" /\ QueueNext
  /\ UNCHANGED <<focus, archived, OtherVars, statusReadingVars>>

AllNext ==
  \/ MailStep \/ ResponseStep \/ DiscoveryStep \/ EvidenceStep
  \/ StatusStep \/ CreationStep \/ LifecycleStep \/ DeliveryStep
  \/ PreparationStep \/ QueueStep

AllSpec == AllInit /\ [][AllNext]_allVars

-----------------------------------------------------------------------------
\* Every variable of every component has its type.
AllTypesOK ==
  CASE focus = "mail" -> TypeOK
    [] focus = "response" -> ResponseTypeOK
    [] focus = "discovery" -> FollowUpsTypeOK
    [] focus \in {"evidence", "contacts"} -> EvidenceTypeOK
    [] focus = "status" -> StatusPages!StatusTypeOK
    [] focus = "creation" -> CreationTypeOK
    [] focus = "lifecycle" -> LifecycleTypeOK
    [] focus = "git" -> DeliveryTypeOK
    [] focus \in {"preparation", "playbook"} -> PreparationTypeOK
    [] OTHER -> QueueTypeOK
=============================================================================
