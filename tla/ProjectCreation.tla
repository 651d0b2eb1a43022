--------------------------- MODULE ProjectCreation ---------------------------
(***************************************************************************)
(* The form that creates a project (project-create.page.ts) and the create *)
(* command of the API (projects.service.ts).  The form has a creation      *)
(* request of its own, so that it may be sent again when no answer comes.  *)
(***************************************************************************)
EXTENDS Null, Naturals, Sequences

CONSTANTS
  Basics,        \* what the form holds: names, addresses, playbook, template
  MaxVisits,     \* bound: how often the form is opened
  MaxPosts       \* bound: how often it is sent

ASSUME CreationAssumption == MaxVisits \in Nat /\ MaxPosts \in Nat

VARIABLES
  projects,       \* the projects table: creation request and basics
  creation,       \* the form
  creationPosts   \* requests sent

creationVars == <<projects, creation, creationPosts>>

BlankCreation == [visit |-> 0, basics |-> None, saving |-> FALSE, created |-> None]

CreationInit ==
  /\ projects = <<>>
  /\ creation = BlankCreation
  /\ creationPosts = <<>>

NewProject(post) == [request |-> post.request, basics |-> post.basics]

\* Variant: the creation request is not looked up.
CreatedUnseen(request) == {}

Created(request) == {p \in DOMAIN projects : projects[p].request = request}

\* Each visit has a creation request of its own.
OpenCreation ==
  /\ creation.visit < MaxVisits /\ ~creation.saving
  /\ creation' = [BlankCreation EXCEPT !.visit = creation.visit + 1]
  /\ UNCHANGED <<projects, creationPosts>>

\* The form can be changed while it is saved, and after an error.
FillIn(basics) ==
  /\ creation.visit # 0 /\ creation.created = None
  /\ creation' = [creation EXCEPT !.basics = basics]
  /\ UNCHANGED <<projects, creationPosts>>

\* createProject.
CreateProject ==
  /\ creation.visit # 0 /\ creation.basics # None
  /\ ~creation.saving /\ creation.created = None
  /\ Len(creationPosts) < MaxPosts
  /\ creationPosts' = Append(creationPosts,
                             [request |-> creation.visit, basics |-> creation.basics,
                              served |-> FALSE, heard |-> TRUE, answer |-> None])
  /\ creation' = [creation EXCEPT !.saving = TRUE]
  /\ UNCHANGED projects

\* create, under the advisory lock of the creation request: a project that was
\* made for it is the answer, whatever the form holds by now.
ServeCreation(i) ==
  /\ ~creationPosts[i].served
  /\ LET request == creationPosts[i].request IN
       /\ projects' = IF Created(request) = {}
                      THEN Append(projects, NewProject(creationPosts[i]))
                      ELSE projects
       /\ creationPosts' = [creationPosts EXCEPT
                              ![i].served = TRUE,
                              ![i].answer =
                                 IF Created(request) = {} THEN creationPosts[i].basics
                                 ELSE projects[CHOOSE p \in Created(request) : TRUE].basics]
  /\ UNCHANGED creation

\* The form gives up; the request may still be on its way.
LoseCreation(i) ==
  /\ creationPosts[i].heard
  /\ creationPosts' = [creationPosts EXCEPT ![i].heard = FALSE]
  /\ creation' = [creation EXCEPT !.saving = FALSE]
  /\ UNCHANGED projects

\* The answer closes the form.
ReceiveCreation(i) ==
  /\ creationPosts[i].served /\ creationPosts[i].heard
  /\ creationPosts' = [creationPosts EXCEPT ![i].heard = FALSE]
  /\ creation' = [creation EXCEPT !.saving = FALSE, !.created = creationPosts[i].answer]
  /\ UNCHANGED projects

CreationNext ==
  \/ OpenCreation \/ CreateProject
  \/ \E basics \in Basics : FillIn(basics)
  \/ \E i \in DOMAIN creationPosts :
       ServeCreation(i) \/ LoseCreation(i) \/ ReceiveCreation(i)

CreationSpec == CreationInit /\ [][CreationNext]_creationVars

-----------------------------------------------------------------------------
(* Properties.                                                             *)

\* Every variable has its type.
CreationTypeOK ==
  /\ \A p \in DOMAIN projects : projects[p] \in [request : 1..MaxVisits, basics : Basics]
  /\ creation \in [visit : 0..MaxVisits, basics : Basics \cup {None},
                    saving : BOOLEAN, created : Basics \cup {None}]
  /\ Len(creationPosts) <= MaxPosts

\* The form makes one project, however often it is sent without hearing an
\* answer, also when the requests arrive late and out of order.
EachCreationOneProject ==
  \A p, q \in DOMAIN projects : projects[p].request = projects[q].request => p = q
=============================================================================
