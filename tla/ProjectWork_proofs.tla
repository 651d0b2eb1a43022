-------------------------- MODULE ProjectWork_proofs --------------------------
(***************************************************************************)
(* Proofs about four components of the work of a Project: its creation     *)
(* (ProjectCreation), clarification requests (CustomerResponse), Evidence  *)
(* and Insights (DiscoveryEvidence), and the handoff of its package to Git *)
(* (DeliveryHandoff).                                                      *)
(***************************************************************************)
EXTENDS ProjectCreation, CustomerResponse, DiscoveryEvidence, DeliveryHandoff,
  SequenceTheorems, FiniteSetTheorems, TLAPS

\* A row of a table is replaced, or one is added.
LEMMA SequenceReplaced ==
  ASSUME NEW S, NEW s \in Seq(S), NEW n \in DOMAIN s, NEW e \in S
  PROVE  /\ [s EXCEPT ![n] = e] \in Seq(S)
         /\ DOMAIN [s EXCEPT ![n] = e] = DOMAIN s
         /\ Len([s EXCEPT ![n] = e]) = Len(s)
         /\ \A m \in DOMAIN s : [s EXCEPT ![n] = e][m] = IF m = n THEN e ELSE s[m]
  BY ExceptSeq, LenProperties

LEMMA SequenceAppended ==
  ASSUME NEW S, NEW s \in Seq(S), NEW e \in S
  PROVE  /\ Append(s, e) \in Seq(S)
         /\ Len(Append(s, e)) = Len(s) + 1
         /\ DOMAIN Append(s, e) = DOMAIN s \cup {Len(s) + 1}
         /\ Len(s) + 1 \notin DOMAIN s
         /\ \A m \in DOMAIN s : Append(s, e)[m] = s[m]
         /\ Append(s, e)[Len(s) + 1] = e
  BY AppendProperties, LenProperties

-----------------------------------------------------------------------------
(* ProjectCreation.                                                        *)

Projects == [request : 1..MaxVisits, basics : Basics]
Posts == [request : 1..MaxVisits, basics : Basics, served : BOOLEAN, heard : BOOLEAN,
          answer : Basics \cup {None}]

\* A request that was served is answered by the project that was made for it.
AnswersNameTheProject ==
  \A i \in DOMAIN creationPosts : creationPosts[i].served =>
    \E p \in Created(creationPosts[i].request) :
      projects[p].basics = creationPosts[i].answer

\* At most one request is waited for, that of the form's own visit.
OneAnswerIsAwaited ==
  \A i \in DOMAIN creationPosts : creationPosts[i].heard =>
    /\ creation.saving
    /\ creationPosts[i].request = creation.visit
    /\ \A j \in DOMAIN creationPosts : creationPosts[j].heard => j = i

\* A form that shows a project as created shows the one made for its request.
FormShowsItsProject ==
  creation.created # None =>
    \E p \in Created(creation.visit) : projects[p].basics = creation.created

CreationInv ==
  /\ CreationTypeOK
  /\ projects \in Seq(Projects)
  /\ creationPosts \in Seq(Posts)
  /\ EachCreationOneProject
  /\ AnswersNameTheProject
  /\ OneAnswerIsAwaited
  /\ FormShowsItsProject

\* Serving a request is the only step that makes a project, and only the first.
LEMMA ServeMakesOneProject ==
  ASSUME CreationInv, NEW i \in DOMAIN creationPosts, ServeCreation(i)
  PROVE  /\ projects' \in Seq(Projects)
         /\ DOMAIN projects \subseteq DOMAIN projects'
         /\ \A p \in DOMAIN projects : projects'[p] = projects[p]
         /\ EachCreationOneProject'
         /\ creationPosts'[i].answer \in Basics
         /\ \E p \in DOMAIN projects' :
              /\ projects'[p].request = creationPosts[i].request
              /\ projects'[p].basics = creationPosts'[i].answer
<1> DEFINE post == creationPosts[i]
<1>1. /\ post \in Posts /\ post \in [request : 1..MaxVisits, basics : Basics,
           served : BOOLEAN, heard : BOOLEAN, answer : Basics \cup {None}]
      /\ projects \in Seq(Projects) /\ creationPosts \in Seq(Posts)
  BY ElementOfSeq, LenProperties DEF CreationInv, Posts
<1>2. creationPosts'[i].answer = IF Created(post.request) = {} THEN post.basics
                        ELSE projects[CHOOSE p \in Created(post.request) : TRUE].basics
  BY <1>1 DEF ServeCreation
<1>3. CASE Created(post.request) = {}
  <2>1. NewProject(post) \in Projects /\ NewProject(post).request = post.request
        /\ NewProject(post).basics = post.basics
    BY <1>1 DEF NewProject, Projects
  <2>2. projects' = Append(projects, NewProject(post))
    BY <1>3 DEF ServeCreation
  <2>3. /\ projects' \in Seq(Projects)
        /\ DOMAIN projects' = DOMAIN projects \cup {Len(projects) + 1}
        /\ \A p \in DOMAIN projects : projects'[p] = projects[p]
        /\ projects'[Len(projects) + 1] = NewProject(post)
    BY <1>1, <2>1, <2>2, SequenceAppended
  <2>4. \A p \in DOMAIN projects : projects[p].request # post.request
    BY <1>3 DEF Created
  <2>5. EachCreationOneProject'
    BY <2>1, <2>3, <2>4 DEF CreationInv, EachCreationOneProject
  <2>6. QED
    BY <1>1, <1>2, <1>3, <2>1, <2>3, <2>5
<1>4. CASE Created(post.request) # {}
  <2>1. PICK p \in DOMAIN projects : /\ p = CHOOSE q \in Created(post.request) : TRUE
                                     /\ projects[p].request = post.request
    BY <1>4 DEF Created
  <2>2. projects' = projects
    BY <1>4 DEF ServeCreation
  <2>3. projects[p].basics \in Basics
    <3>1. p \in 1..Len(projects)
      BY <1>1, <2>1, LenProperties
    <3>2. projects[p] \in Projects
      BY <1>1, <3>1, ElementOfSeq
    <3>3. QED
      BY <3>2 DEF Projects
  <2>4. EachCreationOneProject'
    BY <2>2 DEF CreationInv, EachCreationOneProject
  <2>5. QED
    BY <1>1, <1>2, <1>4, <2>1, <2>2, <2>3, <2>4
<1>5. QED
  BY <1>3, <1>4

LEMMA CreationTypes ==
  ASSUME CreationInv
  PROVE  /\ projects \in Seq(Projects)
         /\ creationPosts \in Seq(Posts)
         /\ \A i \in DOMAIN creationPosts : creationPosts[i] \in Posts
         /\ \A p \in DOMAIN projects : projects[p] \in Projects
         /\ creation \in [visit : 0..MaxVisits, basics : Basics \cup {None},
                          saving : BOOLEAN, created : Basics \cup {None}]
         /\ Len(creationPosts) \in Nat /\ Len(creationPosts) <= MaxPosts
         /\ DOMAIN creationPosts = 1..Len(creationPosts)
<1>1. projects \in Seq(Projects) /\ creationPosts \in Seq(Posts)
  BY DEF CreationInv
<1>2. /\ DOMAIN creationPosts = 1..Len(creationPosts) /\ Len(creationPosts) \in Nat
      /\ DOMAIN projects = 1..Len(projects)
  BY <1>1, LenProperties
<1>3. /\ \A i \in DOMAIN creationPosts : creationPosts[i] \in Posts
      /\ \A p \in DOMAIN projects : projects[p] \in Projects
  BY <1>1, <1>2, ElementOfSeq
<1>4. QED
  BY <1>1, <1>2, <1>3 DEF CreationInv, CreationTypeOK

LEMMA CreationInvInit == CreationInit => CreationInv
  BY CreationAssumption, EmptySeq
  DEF CreationInit, BlankCreation, CreationInv, CreationTypeOK, EachCreationOneProject,
      AnswersNameTheProject, OneAnswerIsAwaited, FormShowsItsProject

\* What a step may do to the table leaves the rest of the invariant to the form.
LEMMA CreationInvStep == CreationInv /\ [CreationNext]_creationVars => CreationInv'
<1> SUFFICES ASSUME CreationInv, [CreationNext]_creationVars
             PROVE  CreationInv'
  OBVIOUS
<1> USE CreationAssumption, CreationTypes
<1>1. CASE OpenCreation
  <2>1. /\ creation' \in [visit : 0..MaxVisits, basics : Basics \cup {None},
                          saving : BOOLEAN, created : Basics \cup {None}]
        /\ creation'.created = None
        /\ ~creation.saving
        /\ UNCHANGED <<projects, creationPosts>>
    <3>1. creation' = [visit |-> creation.visit + 1, basics |-> None, saving |-> FALSE,
                       created |-> None]
      BY <1>1 DEF OpenCreation, BlankCreation
    <3>2. creation.visit + 1 \in 0..MaxVisits
      BY <1>1 DEF OpenCreation
    <3>3. creation' \in [visit : 0..MaxVisits, basics : Basics \cup {None},
                         saving : BOOLEAN, created : Basics \cup {None}]
      BY <3>1, <3>2
    <3>4. creation'.created = None
      BY <3>1
    <3>5. QED
      BY <1>1, <3>3, <3>4 DEF OpenCreation
  <2>2. \A i \in DOMAIN creationPosts : ~creationPosts[i].heard
    BY <2>1 DEF CreationInv, OneAnswerIsAwaited
  <2>3. QED
    BY <2>1, <2>2 DEF CreationInv, CreationTypeOK, EachCreationOneProject,
      AnswersNameTheProject, OneAnswerIsAwaited, FormShowsItsProject, Created
<1>2. ASSUME NEW basics \in Basics, FillIn(basics) PROVE CreationInv'
  <2>1. /\ creation' \in [visit : 0..MaxVisits, basics : Basics \cup {None},
                          saving : BOOLEAN, created : Basics \cup {None}]
        /\ creation'.created = None
        /\ creation'.saving = creation.saving /\ creation'.visit = creation.visit
        /\ UNCHANGED <<projects, creationPosts>>
    BY <1>2 DEF FillIn
  <2>2. QED
    BY <2>1 DEF CreationInv, CreationTypeOK, EachCreationOneProject,
      AnswersNameTheProject, OneAnswerIsAwaited, FormShowsItsProject, Created
<1>3. CASE CreateProject
  <2> DEFINE post == [request |-> creation.visit, basics |-> creation.basics,
                      served |-> FALSE, heard |-> TRUE, answer |-> None]
  <2>1. /\ creation' \in [visit : 0..MaxVisits, basics : Basics \cup {None},
                          saving : BOOLEAN, created : Basics \cup {None}]
        /\ creation'.created = None /\ creation'.saving /\ ~creation.saving
        /\ creation'.visit = creation.visit
        /\ creationPosts' = Append(creationPosts, post)
        /\ Len(creationPosts) < MaxPosts
        /\ UNCHANGED projects
    BY <1>3 DEF CreateProject
  <2>2. post \in Posts /\ post.heard /\ ~post.served /\ post.request = creation.visit
    BY <1>3 DEF CreateProject, Posts
  <2> HIDE DEF post
  <2>3. /\ creationPosts' \in Seq(Posts)
        /\ Len(creationPosts') = Len(creationPosts) + 1
        /\ DOMAIN creationPosts' = DOMAIN creationPosts \cup {Len(creationPosts) + 1}
        /\ \A i \in DOMAIN creationPosts : creationPosts'[i] = creationPosts[i]
        /\ creationPosts'[Len(creationPosts) + 1] = post
    BY <2>1, <2>2, SequenceAppended
  <2>4. \A i \in DOMAIN creationPosts : ~creationPosts[i].heard
    BY <2>1 DEF CreationInv, OneAnswerIsAwaited
  <2>5. CreationTypeOK'
    BY <2>1, <2>3 DEF CreationInv, CreationTypeOK
  <2>6. AnswersNameTheProject'
    <3>1. \A i \in DOMAIN creationPosts' : creationPosts'[i].served =>
            i \in DOMAIN creationPosts /\ creationPosts'[i] = creationPosts[i]
      BY <2>2, <2>3
    <3>2. QED
      BY <2>1, <2>3, <3>1 DEF CreationInv, AnswersNameTheProject, Created
  <2>7. OneAnswerIsAwaited'
    BY <2>1, <2>2, <2>3, <2>4 DEF OneAnswerIsAwaited
  <2>8. QED
    BY <2>1, <2>3, <2>5, <2>6, <2>7
    DEF CreationInv, EachCreationOneProject, FormShowsItsProject
<1>4. ASSUME NEW i \in DOMAIN creationPosts, ServeCreation(i) PROVE CreationInv'
  <2> DEFINE post == [creationPosts[i] EXCEPT !.served = TRUE,
                                              !.answer = creationPosts'[i].answer]
  <2>1. /\ projects' \in Seq(Projects)
        /\ DOMAIN projects \subseteq DOMAIN projects'
        /\ \A p \in DOMAIN projects : projects'[p] = projects[p]
        /\ EachCreationOneProject'
        /\ creationPosts'[i].answer \in Basics
        /\ \E p \in DOMAIN projects' :
             /\ projects'[p].request = creationPosts[i].request
             /\ projects'[p].basics = creationPosts'[i].answer
    BY <1>4, ServeMakesOneProject
  <2>2. creationPosts' = [creationPosts EXCEPT ![i] = post] /\ UNCHANGED creation
    BY <1>4 DEF ServeCreation
  <2>3. /\ post \in Posts /\ post.request = creationPosts[i].request
        /\ post.heard = creationPosts[i].heard
        /\ post.answer = creationPosts'[i].answer
    BY <2>1 DEF Posts
  <2> HIDE DEF post
  <2>4. /\ creationPosts' \in Seq(Posts)
        /\ DOMAIN creationPosts' = DOMAIN creationPosts
        /\ Len(creationPosts') = Len(creationPosts)
        /\ \A j \in DOMAIN creationPosts :
             creationPosts'[j] = IF j = i THEN post ELSE creationPosts[j]
    BY <2>2, <2>3, SequenceReplaced
  <2>5. CreationTypeOK'
    <3>1. \A p \in DOMAIN projects' : projects'[p] \in Projects
      BY <2>1, ElementOfSeq, LenProperties
    <3>2. QED
      BY <2>2, <2>4, <3>1 DEF CreationInv, CreationTypeOK, Projects
  <2>6. AnswersNameTheProject'
    <3>1. ASSUME NEW j \in DOMAIN creationPosts', creationPosts'[j].served
          PROVE  \E p \in DOMAIN projects' :
                   /\ projects'[p].request = creationPosts'[j].request
                   /\ projects'[p].basics = creationPosts'[j].answer
      <4>1. CASE j = i
        BY <2>1, <2>3, <2>4, <4>1
      <4>2. CASE j # i
        <5>1. j \in DOMAIN creationPosts /\ creationPosts'[j] = creationPosts[j]
          BY <2>4, <4>2
        <5>2. PICK p \in DOMAIN projects : /\ projects[p].request = creationPosts[j].request
                                          /\ projects[p].basics = creationPosts[j].answer
          BY <3>1, <5>1 DEF CreationInv, AnswersNameTheProject, Created
        <5>3. p \in DOMAIN projects' /\ projects'[p] = projects[p]
          BY <2>1, <5>2
        <5>4. QED
          BY <5>1, <5>2, <5>3
      <4>3. QED
        BY <4>1, <4>2
    <3>2. QED
      BY <3>1 DEF AnswersNameTheProject, Created
  <2>7. OneAnswerIsAwaited'
    BY <2>2, <2>3, <2>4 DEF CreationInv, OneAnswerIsAwaited
  <2>8. FormShowsItsProject'
    BY <2>1, <2>2 DEF CreationInv, FormShowsItsProject, Created
  <2>9. QED
    BY <2>1, <2>4, <2>5, <2>6, <2>7, <2>8 DEF CreationInv
<1>5. ASSUME NEW i \in DOMAIN creationPosts, LoseCreation(i) \/ ReceiveCreation(i)
      PROVE  CreationInv'
  <2> DEFINE post == [creationPosts[i] EXCEPT !.heard = FALSE]
  <2>1. /\ creationPosts' = [creationPosts EXCEPT ![i] = post]
        /\ creationPosts[i].heard
        /\ UNCHANGED projects
    BY <1>5 DEF LoseCreation, ReceiveCreation
  <2>2. /\ post \in Posts /\ ~post.heard /\ post.request = creationPosts[i].request
        /\ post.served = creationPosts[i].served
        /\ post.answer = creationPosts[i].answer
    BY DEF Posts
  <2> HIDE DEF post
  <2>3. /\ creationPosts' \in Seq(Posts)
        /\ DOMAIN creationPosts' = DOMAIN creationPosts
        /\ Len(creationPosts') = Len(creationPosts)
        /\ \A j \in DOMAIN creationPosts :
             creationPosts'[j] = IF j = i THEN post ELSE creationPosts[j]
    BY <2>1, <2>2, SequenceReplaced
  <2>4. \A j \in DOMAIN creationPosts' : ~creationPosts'[j].heard
    BY <2>1, <2>2, <2>3 DEF CreationInv, OneAnswerIsAwaited
  <2>5. /\ creation' \in [visit : 0..MaxVisits, basics : Basics \cup {None},
                          saving : BOOLEAN, created : Basics \cup {None}]
        /\ creation'.visit = creation.visit
        /\ \/ creation'.created = creation.created
           \/ creationPosts[i].served /\ creation'.created = creationPosts[i].answer
    BY <1>5 DEF LoseCreation, ReceiveCreation, Posts
  <2>6. creationPosts[i].request = creation.visit
    BY <2>1 DEF CreationInv, OneAnswerIsAwaited
  <2>7. CreationTypeOK'
    BY <2>1, <2>3, <2>5 DEF CreationInv, CreationTypeOK
  <2>8. AnswersNameTheProject'
    BY <2>1, <2>2, <2>3 DEF CreationInv, AnswersNameTheProject, Created
  <2>9. FormShowsItsProject'
    BY <2>1, <2>5, <2>6 DEF CreationInv, AnswersNameTheProject, FormShowsItsProject, Created
  <2>10. QED
    BY <2>1, <2>3, <2>4, <2>7, <2>8, <2>9
    DEF CreationInv, OneAnswerIsAwaited, EachCreationOneProject
<1>6. CASE UNCHANGED creationVars
  BY <1>6 DEF creationVars, CreationInv, CreationTypeOK, EachCreationOneProject,
    AnswersNameTheProject, OneAnswerIsAwaited, FormShowsItsProject, Created
<1>7. QED
  BY <1>1, <1>2, <1>3, <1>4, <1>5, <1>6 DEF CreationNext

LEMMA CreationInvHolds == CreationSpec => []CreationInv
  BY CreationInvInit, CreationInvStep, PTL DEF CreationSpec

\* ProjectCreation: a creation request makes one project, however often the form
\* is sent without hearing an answer, also when requests arrive late.
THEOREM EachCreationOneProjectHolds == CreationSpec => []EachCreationOneProject
<1>1. CreationInv => EachCreationOneProject
  BY DEF CreationInv
<1>2. QED
  BY <1>1, CreationInvHolds, PTL

\* ProjectCreation: the project that a form goes to when an answer comes is the
\* one made for this form, with what that project holds, although the form may
\* have changed since it was first sent and earlier answers were given up.
THEOREM FormShowsItsProjectHolds == CreationSpec => []FormShowsItsProject
<1>1. CreationInv => FormShowsItsProject
  BY DEF CreationInv
<1>2. QED
  BY <1>1, CreationInvHolds, PTL

-----------------------------------------------------------------------------
(* CustomerResponse.                                                       *)

FormAnswers == [Prompts -> Answers \cup {None}]
Requests == [preview : Nat \ {0}, prompts : SUBSET Prompts, expires : Nat,
             state : {"OPEN", "SUBMITTED", "REVOKED"},
             delivery : {"SENDING", "SENT", "FAILED", "UNKNOWN"},
             attempts : Nat, running : BOOLEAN, accepted : BOOLEAN,
             submission : Submissions \cup {None}, reviewed : BOOLEAN,
             evidence : SUBSET Prompts]

\* What holds of one request: it says SENT only of a message that the gateway took,
\* what the Customer submitted answers every prompt, and evidence is kept only of
\* what was submitted.
Sound(request) ==
  /\ request.delivery = "SENT" => request.accepted
  /\ request.running => request.delivery = "SENDING"
  /\ request.submission # None => request.state = "SUBMITTED"
  /\ request.submission # None =>
       \A p \in request.prompts : request.submission.answers[p] # None
  /\ request.evidence \subseteq request.prompts
  /\ request.evidence # {} => request.submission # None
SoundRequests == {request \in Requests : Sound(request)}

Previews == [prompts : SUBSET Prompts, expires : Nat, requestExpires : Nat]
Forms == [number : 0..MaxForms, request : Nat, key : 0..MaxForms, answers : FormAnswers,
          submitting : BOOLEAN, submitted : BOOLEAN]
FormPosts == [form : Nat, request : Nat, key : 1..MaxForms, answers : FormAnswers,
              stage : {"sent", "receipt", "error"}]

\* A submission under way answers every prompt of its request.
CompletePosts ==
  {post \in FormPosts :
     /\ post.request \in DOMAIN requests
     /\ \A p \in requests[post.request].prompts : post.answers[p] # None}

PanelTypes ==
  /\ panel \in [listed : SUBSET Prompts, selected : SUBSET Prompts, preview : Nat]
  /\ panel.preview \in 0..Len(previews)
  /\ previews \in Seq(Previews)

FormTypes ==
  /\ form \in Forms
  /\ form.request \in 0..Len(requests)
  /\ form.request # 0 => form.key # 0
  /\ storage \in [Ids -> Submissions \cup {None}]
  /\ edits \in 0..MaxEdits

ResponseTypes ==
  /\ archived \in BOOLEAN
  /\ eligible \subseteq Prompts
  /\ clock \in 0..MaxClock
  /\ PanelTypes
  /\ FormTypes
  /\ requests \in Seq(SoundRequests)
  /\ Len(requests) <= MaxPreviews + 1
  /\ posts \in Seq(CompletePosts)

ResponseInv ==
  /\ ResponseTypes
  /\ EachPreviewOneRequest

\* Of the requests, a step changes one without touching its preview and its prompts,
\* or makes one for a preview that has none.
RequestsMove ==
  /\ requests' \in Seq(SoundRequests)
  /\ Len(requests') <= MaxPreviews + 1
  /\ DOMAIN requests \subseteq DOMAIN requests'
  /\ \A r \in DOMAIN requests : /\ requests'[r].preview = requests[r].preview
                                /\ requests'[r].prompts = requests[r].prompts
  /\ EachPreviewOneRequest'

LEMMA RequestTypes ==
  ASSUME ResponseInv
  PROVE  /\ requests \in Seq(SoundRequests)
         /\ DOMAIN requests = 1..Len(requests)
         /\ Len(requests) \in Nat
         /\ DOMAIN requests \subseteq Ids
         /\ \A r \in DOMAIN requests : requests[r] \in SoundRequests
<1>1. requests \in Seq(SoundRequests) /\ Len(requests) <= MaxPreviews + 1
  BY DEF ResponseInv, ResponseTypes
<1>2. DOMAIN requests = 1..Len(requests) /\ Len(requests) \in Nat
  BY <1>1, LenProperties
<1>3. \A r \in DOMAIN requests : requests[r] \in SoundRequests
  BY <1>1, <1>2, ElementOfSeq
<1>4. QED
  BY <1>1, <1>2, <1>3, ResponseAssumption DEF Ids

LEMMA OneRequestMoves ==
  ASSUME ResponseInv, NEW r \in DOMAIN requests, NEW request \in SoundRequests,
         requests' = [requests EXCEPT ![r] = request],
         request.preview = requests[r].preview, request.prompts = requests[r].prompts
  PROVE  RequestsMove /\ DOMAIN requests' = DOMAIN requests /\ Len(requests') = Len(requests)
<1>1. /\ requests' \in Seq(SoundRequests)
      /\ DOMAIN requests' = DOMAIN requests /\ Len(requests') = Len(requests)
      /\ \A s \in DOMAIN requests : requests'[s] = IF s = r THEN request ELSE requests[s]
  BY RequestTypes, SequenceReplaced
<1>2. QED
  BY <1>1 DEF RequestsMove, ResponseInv, ResponseTypes, EachPreviewOneRequest

LEMMA RequestsStay ==
  ASSUME ResponseInv, UNCHANGED requests
  PROVE  RequestsMove
  BY RequestTypes DEF RequestsMove, ResponseInv, ResponseTypes, EachPreviewOneRequest

\* The commands of the panel and the deliverer on a request that exists.
LEMMA RequestCommands ==
  ASSUME ResponseInv, NEW r \in DOMAIN requests,
         \/ Deliver(r) \/ RetryRequest(r) \/ Revoke(r) \/ Review(r)
         \/ \E p \in Prompts : KeepAsEvidence(r, p)
  PROVE  RequestsMove /\ DOMAIN requests' = DOMAIN requests /\ Len(requests') = Len(requests)
<1> DEFINE request == requests[r]
<1>1. request \in Requests /\ Sound(request)
  BY RequestTypes DEF SoundRequests
<1>2. CASE Deliver(r)
  <2>1. PICK accepted \in BOOLEAN, outcome \in {"SENT", "FAILED", "UNKNOWN", "SENDING"} :
          /\ outcome = "SENT" => accepted
          /\ requests' = [requests EXCEPT ![r].delivery = outcome, ![r].running = FALSE,
                                          ![r].accepted = @ \/ accepted]
    BY <1>2 DEF Deliver
  <2> DEFINE new == [request EXCEPT !.delivery = outcome, !.running = FALSE,
                                    !.accepted = request.accepted \/ accepted]
  <2>2. requests' = [requests EXCEPT ![r] = new]
    BY <2>1, <1>1, RequestTypes
  <2>3. new \in Requests /\ Sound(new)
    BY <2>1, <1>1 DEF Requests, Sound
  <2>4. new.preview = request.preview /\ new.prompts = request.prompts
    BY <1>1 DEF Requests
  <2>5. QED
    BY <2>2, <2>3, <2>4, OneRequestMoves DEF SoundRequests
<1>3. CASE RetryRequest(r)
  <2> DEFINE attempts == request.attempts + 1
             new == [request EXCEPT !.delivery = "SENDING", !.running = TRUE,
                                    !.attempts = attempts]
  <2>1. attempts \in Nat
    BY <1>1 DEF Requests
  <2>2. requests' = [requests EXCEPT ![r] = new]
    BY <1>3, <1>1, RequestTypes DEF RetryRequest
  <2> HIDE DEF attempts
  <2>3. new \in Requests
    BY <1>1, <2>1 DEF Requests
  <2>4. Sound(new)
    BY <1>1 DEF Requests, Sound
  <2>5. new.preview = request.preview /\ new.prompts = request.prompts
    BY <1>1 DEF Requests
  <2>6. QED
    BY <2>2, <2>3, <2>4, <2>5, OneRequestMoves DEF SoundRequests
<1>4. CASE Revoke(r)
  <2> DEFINE new == [request EXCEPT !.state = "REVOKED"]
  <2>2. requests' = [requests EXCEPT ![r] = new] /\ request.state = "OPEN"
    BY <1>4, <1>1, RequestTypes DEF Revoke
  <2>3. new \in Requests /\ Sound(new)
    BY <2>2, <1>1 DEF Requests, Sound
  <2>4. new.preview = request.preview /\ new.prompts = request.prompts
    BY <1>1 DEF Requests
  <2>5. QED
    BY <2>2, <2>3, <2>4, OneRequestMoves DEF SoundRequests
<1>5. CASE Review(r)
  <2> DEFINE new == [request EXCEPT !.reviewed = TRUE]
  <2>2. requests' = [requests EXCEPT ![r] = new]
    BY <1>5, <1>1, RequestTypes DEF Review
  <2>3. new \in Requests /\ Sound(new)
    BY <1>1 DEF Requests, Sound
  <2>4. new.preview = request.preview /\ new.prompts = request.prompts
    BY <1>1 DEF Requests
  <2>5. QED
    BY <2>2, <2>3, <2>4, OneRequestMoves DEF SoundRequests
<1>6. ASSUME NEW p \in Prompts, KeepAsEvidence(r, p)
      PROVE  RequestsMove /\ DOMAIN requests' = DOMAIN requests
             /\ Len(requests') = Len(requests)
  <2> DEFINE new == [request EXCEPT !.evidence = request.evidence \cup {p}]
  <2>2. /\ requests' = [requests EXCEPT ![r] = new]
        /\ request.submission # None /\ p \in request.prompts
    BY <1>6, <1>1, RequestTypes DEF KeepAsEvidence
  <2>3. new \in Requests /\ Sound(new)
    BY <2>2, <1>1 DEF Requests, Sound
  <2>4. new.preview = request.preview /\ new.prompts = request.prompts
    BY <1>1 DEF Requests
  <2>5. QED
    BY <2>2, <2>3, <2>4, OneRequestMoves DEF SoundRequests
<1>7. QED
  BY <1>2, <1>3, <1>4, <1>5, <1>6

\* confirm makes the request of a preview, unless there is one.
LEMMA ConfirmMakesOneRequest ==
  ASSUME ResponseInv, NEW answered \in BOOLEAN, ConfirmPreview(answered)
  PROVE  RequestsMove
<1> DEFINE preview == panel.preview
           request == Request(preview)
<1>1. /\ requests' = Confirmed(preview) /\ Len(requests) < MaxPreviews + 1
      /\ preview # 0 /\ preview \in 0..Len(previews) /\ previews \in Seq(Previews)
  BY DEF ConfirmPreview, ResponseInv, ResponseTypes, PanelTypes
<1>2. CASE Of(preview) # {}
  BY <1>1, <1>2, RequestsStay DEF Confirmed
<1>3. CASE Of(preview) = {}
  <2>1. preview \in 1..Len(previews) /\ previews[preview] \in Previews
    BY <1>1, ElementOfSeq, LenProperties
  <2>2. request \in Requests /\ request.preview = preview
    BY <2>1 DEF Request, Requests, Previews
  <2>3. Sound(request)
    BY DEF Sound, Request
  <2>4. requests' = Append(requests, request)
    BY <1>1, <1>3 DEF Confirmed
  <2> HIDE DEF request, preview
  <2>5. request \in SoundRequests
    BY <2>2, <2>3 DEF SoundRequests
  <2>6. /\ requests' \in Seq(SoundRequests)
        /\ Len(requests') = Len(requests) + 1
        /\ DOMAIN requests' = DOMAIN requests \cup {Len(requests) + 1}
        /\ \A r \in DOMAIN requests : requests'[r] = requests[r]
        /\ requests'[Len(requests) + 1] = request
    BY <2>4, <2>5, RequestTypes, SequenceAppended
  <2>7. \A r \in DOMAIN requests : requests[r].preview # preview
    BY <1>3 DEF Of
  <2>8. EachPreviewOneRequest'
    BY <2>2, <2>6, <2>7 DEF ResponseInv, EachPreviewOneRequest
  <2>9. Len(requests') <= MaxPreviews + 1
    BY <1>1, <2>6, RequestTypes, ResponseAssumption
  <2>10. QED
    BY <2>6, <2>8, <2>9 DEF RequestsMove
<1>4. QED
  BY <1>2, <1>3

LEMMA PostTypes ==
  ASSUME ResponseInv
  PROVE  /\ posts \in Seq(CompletePosts)
         /\ DOMAIN posts = 1..Len(posts)
         /\ Len(posts) \in Nat
         /\ \A i \in DOMAIN posts : posts[i] \in CompletePosts
<1>1. posts \in Seq(CompletePosts)
  BY DEF ResponseInv, ResponseTypes
<1>2. DOMAIN posts = 1..Len(posts) /\ Len(posts) \in Nat
  BY <1>1, LenProperties
<1>3. QED
  BY <1>1, <1>2, ElementOfSeq

\* What was complete stays so: the prompts of a request are those it was made with.
LEMMA PostsStayComplete ==
  ASSUME ResponseInv, RequestsMove
  PROVE  CompletePosts \subseteq CompletePosts'
  BY DEF CompletePosts, RequestsMove

\* The API stores what a submission says, if the request is usable and has none.
LEMMA ServePostMoves ==
  ASSUME ResponseInv, NEW i \in DOMAIN posts, ServePost(i)
  PROVE  RequestsMove /\ Len(requests') = Len(requests)
<1> DEFINE post == posts[i]
           request == requests[post.request]
           new == [request EXCEPT !.state = "SUBMITTED",
                     !.submission = [key |-> post.key, answers |-> post.answers]]
<1>1. /\ post \in FormPosts /\ post.request \in DOMAIN requests
      /\ \A p \in request.prompts : post.answers[p] # None
  BY PostTypes DEF CompletePosts
<1>2. request \in Requests /\ Sound(request)
  BY <1>1, RequestTypes DEF SoundRequests
<1>3. \/ UNCHANGED requests
      \/ requests' = [requests EXCEPT ![post.request] = new] /\ request.submission = None
  BY <1>1, <1>2, RequestTypes DEF ServePost, SubmittedBefore
<1>4. CASE UNCHANGED requests
  BY <1>4, RequestsStay
<1>5. CASE requests' = [requests EXCEPT ![post.request] = new] /\ request.submission = None
  <2>1. [key |-> post.key, answers |-> post.answers] \in Submissions
    BY <1>1 DEF FormPosts, FormAnswers, Submissions
  <2>2. /\ new.submission = [key |-> post.key, answers |-> post.answers]
        /\ new.state = "SUBMITTED" /\ new.preview = request.preview
        /\ new.prompts = request.prompts /\ new.evidence = request.evidence
        /\ new.delivery = request.delivery /\ new.accepted = request.accepted
        /\ new.running = request.running
    BY <1>2 DEF Requests
  <2>3. new \in Requests
    BY <1>2, <2>1 DEF Requests
  <2>4. Sound(new)
    BY <1>1, <1>2, <1>5, <2>2 DEF Sound
  <2>5. QED
    BY <1>1, <1>5, <2>2, <2>3, <2>4, OneRequestMoves DEF SoundRequests
<1>6. QED
  BY <1>3, <1>4, <1>5

LEMMA SettledPosts ==
  ASSUME ResponseInv, NEW i \in DOMAIN posts, NEW stage \in {"sent", "receipt", "error"},
         Settle(i, stage)
  PROVE  posts' \in Seq(CompletePosts)
<1> DEFINE post == [posts[i] EXCEPT !.stage = stage]
<1>1. posts[i] \in CompletePosts
  BY PostTypes
<1>2. post \in CompletePosts
  <2>1. post \in FormPosts /\ post.request = posts[i].request
        /\ post.answers = posts[i].answers
    BY <1>1 DEF CompletePosts, FormPosts
  <2>2. QED
    BY <1>1, <2>1 DEF CompletePosts
<1>3. posts' = [posts EXCEPT ![i] = post]
  BY PostTypes DEF Settle
<1> HIDE DEF post
<1>4. QED
  BY <1>2, <1>3, PostTypes, SequenceReplaced

LEMMA RemovedPosts ==
  ASSUME ResponseInv, NEW i \in DOMAIN posts
  PROVE  RemoveAt(posts, i) \in Seq(CompletePosts)
<1>1. SubSeq(posts, 1, i - 1) \in Seq(CompletePosts)
  BY PostTypes, SubSeqProperties
<1>2. SubSeq(posts, i + 1, Len(posts)) \in Seq(CompletePosts)
  BY PostTypes, SubSeqProperties
<1>3. QED
  BY <1>1, <1>2, ConcatProperties DEF RemoveAt

LEMMA ResponseInvInit == ResponseInit => ResponseInv
<1> SUFFICES ASSUME ResponseInit PROVE ResponseInv
  OBVIOUS
<1> USE ResponseAssumption
<1>1. PanelTypes
  BY EmptySeq DEF ResponseInit, PanelTypes
<1>2. FormTypes
  BY EmptySeq DEF ResponseInit, FormTypes, Forms, NoForm, FormAnswers, NoAnswers
<1>3. requests \in Seq(SoundRequests) /\ Len(requests) = 0 /\ DOMAIN requests = {}
  BY EmptySeq DEF ResponseInit
<1>4. posts \in Seq(CompletePosts)
  BY EmptySeq DEF ResponseInit
<1>5. archived \in BOOLEAN /\ eligible \subseteq Prompts
  BY DEF ResponseInit
<1>6. clock \in 0..MaxClock
  BY DEF ResponseInit
<1>7. EachPreviewOneRequest
  BY <1>3 DEF EachPreviewOneRequest
<1>8. QED
  BY <1>1, <1>2, <1>3, <1>4, <1>5, <1>6, <1>7 DEF ResponseInv, ResponseTypes

\* A step that moves requests and posts as above leaves the panel and the form to
\* be looked at.
LEMMA ResponseInvFrom ==
  ASSUME ResponseInv, RequestsMove, PanelTypes', FormTypes',
         posts' \in Seq(CompletePosts'),
         archived' \in BOOLEAN, eligible' \subseteq Prompts, clock' \in 0..MaxClock
  PROVE  ResponseInv'
  BY DEF RequestsMove, ResponseInv, ResponseTypes

LEMMA PostsKept ==
  ASSUME ResponseInv, RequestsMove, posts' \in Seq(CompletePosts)
  PROVE  posts' \in Seq(CompletePosts')
<1>1. CompletePosts \subseteq CompletePosts'
  BY PostsStayComplete
<1>2. \A S, T : S \subseteq T => Seq(S) \subseteq Seq(T)
  BY SeqDef
<1>3. QED
  BY <1>1, <1>2

LEMMA FormKept ==
  ASSUME ResponseInv, RequestsMove, UNCHANGED <<form, storage, edits>>
  PROVE  FormTypes'
<1>1. Len(requests) \in Nat /\ Len(requests') \in Nat
      /\ DOMAIN requests = 1..Len(requests) /\ DOMAIN requests' = 1..Len(requests')
  BY RequestTypes, LenProperties DEF RequestsMove
<1>2. Len(requests) <= Len(requests')
  BY <1>1 DEF RequestsMove
<1>3. QED
  BY <1>1, <1>2 DEF ResponseInv, ResponseTypes, FormTypes

\* The panel.
LEMMA PanelStep ==
  ASSUME ResponseInv, PanelCommand
  PROVE  ResponseInv'
<1> USE ResponseAssumption
<1>1. PanelTypes /\ clock \in Nat /\ Len(previews) \in Nat
  BY LenProperties DEF ResponseInv, ResponseTypes, PanelTypes
<1>2. CASE LoadPanel \/ CreatePreview \/ \E p \in Prompts : Toggle(p)
  <2>1. UNCHANGED <<archived, eligible, requests, form, storage, posts, edits, clock>>
    BY <1>2 DEF LoadPanel, CreatePreview, Toggle, serverVars, formVars
  <2>2. RequestsMove /\ posts' \in Seq(CompletePosts)
    BY <2>1, RequestsStay, PostTypes
  <2>3. PanelTypes'
    <3>1. CASE LoadPanel
      BY <1>1, <3>1 DEF LoadPanel, serverVars, PanelTypes, ResponseInv, ResponseTypes
    <3>2. ASSUME NEW p \in Prompts, Toggle(p) PROVE PanelTypes'
      <4> DEFINE selected == IF p \in panel.selected THEN panel.selected \ {p}
                             ELSE panel.selected \cup {p}
      <4>1. selected \in SUBSET Prompts
        BY <1>1 DEF PanelTypes
      <4>2. panel' = [panel EXCEPT !.preview = 0, !.selected = selected]
            /\ UNCHANGED previews
        BY <1>1, <3>2 DEF Toggle, serverVars, PanelTypes
      <4>3. panel \in [listed : SUBSET Prompts, selected : SUBSET Prompts, preview : Nat]
        BY <1>1 DEF PanelTypes
      <4> HIDE DEF selected
      <4>4. panel' = [listed |-> panel.listed, selected |-> selected, preview |-> 0]
        BY <4>2, <4>3
      <4>5. QED
        BY <1>1, <4>1, <4>2, <4>3, <4>4 DEF PanelTypes
    <3>3. CASE CreatePreview
      <4> DEFINE preview == [prompts |-> panel.selected \cap panel.listed,
                             expires |-> clock + PreviewLife,
                             requestExpires |-> clock + RequestLife]
      <4>1. clock + PreviewLife \in Nat /\ clock + RequestLife \in Nat
        BY <1>1
      <4>2. preview \in Previews
        BY <1>1, <4>1 DEF PanelTypes, Previews
      <4>3. previews' = Append(previews, preview)
            /\ panel' = [panel EXCEPT !.preview = Len(previews) + 1]
        BY <3>3 DEF CreatePreview
      <4> HIDE DEF preview
      <4>4. previews' \in Seq(Previews) /\ Len(previews') = Len(previews) + 1
        BY <1>1, <4>2, <4>3, SequenceAppended DEF PanelTypes
      <4>5. QED
        BY <1>1, <4>3, <4>4 DEF PanelTypes
    <3>4. QED
      BY <1>2, <3>1, <3>2, <3>3
  <2>4. QED
    BY <2>1, <2>2, <2>3, PostsKept, FormKept, ResponseInvFrom
    DEF ResponseInv, ResponseTypes
<1>3. ASSUME NEW answered \in BOOLEAN, ConfirmPreview(answered) PROVE ResponseInv'
  <2>1. UNCHANGED <<archived, eligible, previews, form, storage, posts, edits, clock>>
    BY <1>3 DEF ConfirmPreview, formVars
  <2>2. RequestsMove /\ posts' \in Seq(CompletePosts)
    BY <1>3, <2>1, ConfirmMakesOneRequest, PostTypes
  <2>3. PanelTypes'
    <3>1. panel' \in {panel, [panel EXCEPT !.preview = 0, !.selected = {}]}
      BY <1>3 DEF ConfirmPreview
    <3>2. CASE panel' = panel
      BY <1>1, <2>1, <3>2 DEF PanelTypes
    <3>3. CASE panel' = [panel EXCEPT !.preview = 0, !.selected = {}]
      <4>1. panel \in [listed : SUBSET Prompts, selected : SUBSET Prompts, preview : Nat]
        BY <1>1 DEF PanelTypes
      <4>2. panel' = [listed |-> panel.listed, selected |-> {}, preview |-> 0]
        BY <3>3, <4>1
      <4>3. QED
        BY <1>1, <2>1, <4>1, <4>2 DEF PanelTypes
    <3>4. QED
      BY <3>1, <3>2, <3>3
  <2>4. QED
    BY <2>1, <2>2, <2>3, PostsKept, FormKept, ResponseInvFrom
    DEF ResponseInv, ResponseTypes
<1>4. ASSUME NEW r \in DOMAIN requests,
             \/ Deliver(r) \/ RetryRequest(r) \/ Revoke(r) \/ Review(r)
             \/ \E p \in Prompts : KeepAsEvidence(r, p)
      PROVE  ResponseInv'
  <2>1. UNCHANGED <<archived, eligible, panel, previews, form, storage, posts, edits, clock>>
    BY <1>4 DEF Deliver, RetryRequest, Revoke, Review, KeepAsEvidence, formVars
  <2>2. RequestsMove
    BY <1>4, RequestCommands
  <2>3. PanelTypes' /\ posts' \in Seq(CompletePosts)
    BY <1>1, <2>1, PostTypes DEF PanelTypes
  <2>4. QED
    BY <2>1, <2>2, <2>3, PostsKept, FormKept, ResponseInvFrom
    DEF ResponseInv, ResponseTypes
<1>5. QED
  BY <1>2, <1>3, <1>4 DEF PanelCommand

LEMMA FormIsTyped ==
  ASSUME ResponseInv
  PROVE  /\ form \in [number : 0..MaxForms, request : Nat, key : 0..MaxForms,
                      answers : FormAnswers, submitting : BOOLEAN, submitted : BOOLEAN]
         /\ form.request \in 0..Len(requests)
         /\ form.request # 0 => form.key # 0
         /\ form.request # 0 => form.request \in DOMAIN requests /\ form.request \in Ids
         /\ storage \in [Ids -> Submissions \cup {None}]
         /\ edits \in 0..MaxEdits
  BY RequestTypes DEF ResponseInv, ResponseTypes, FormTypes, Forms

LEMMA PanelKept ==
  ASSUME ResponseInv, UNCHANGED <<panel, previews>>
  PROVE  PanelTypes'
  BY DEF ResponseInv, ResponseTypes, PanelTypes

\* The Customer's form, while no request changes.
LEMMA FormCommands ==
  ASSUME ResponseInv,
         \/ \E r \in DOMAIN requests : OpenForm(r)
         \/ \E p \in Prompts, value \in Answers \cup {None} : TypeAnswer(p, value)
         \/ SubmitForm
  PROVE  ResponseInv'
<1> USE ResponseAssumption, FormIsTyped
<1>1. UNCHANGED <<archived, eligible, panel, previews, requests, clock>>
  BY DEF OpenForm, TypeAnswer, SubmitForm, serverVars
<1>2. RequestsMove /\ PanelTypes'
  BY <1>1, RequestsStay, PanelKept
<1>3. FormTypes' /\ posts' \in Seq(CompletePosts)
  <2>1. ASSUME NEW r \in DOMAIN requests, OpenForm(r)
        PROVE  FormTypes' /\ posts' \in Seq(CompletePosts)
    <3>1. /\ form.number < MaxForms
          /\ UNCHANGED <<requests, storage, posts, edits>>
      BY <2>1 DEF OpenForm, serverVars
    <3> DEFINE number == form.number + 1
    <3>2. number \in 1..MaxForms
      BY <3>1
    <3>3. r \in Ids /\ r \in 1..Len(requests)
      BY RequestTypes
    <3>4. form'.request = r /\ form'.key # 0 /\ form' \in Forms
      <4>1. CASE storage[r] = None
        <5>1. form' = [number |-> number, request |-> r, key |-> number,
                       answers |-> NoAnswers, submitting |-> FALSE, submitted |-> FALSE]
          BY <2>1, <4>1 DEF OpenForm, NoForm
        <5>2. NoAnswers \in FormAnswers
          BY DEF NoAnswers, FormAnswers
        <5> HIDE DEF number
        <5>3. QED
          BY <3>2, <3>3, <5>1, <5>2 DEF Forms
      <4>2. CASE storage[r] # None
        <5>1. storage[r] \in Submissions
          BY <3>3, <4>2
        <5>2. form' = [number |-> number, request |-> r, key |-> storage[r].key,
                       answers |-> storage[r].answers, submitting |-> FALSE,
                       submitted |-> FALSE]
          BY <2>1, <4>2 DEF OpenForm, NoForm
        <5>3. storage[r].key \in 1..MaxForms /\ storage[r].answers \in FormAnswers
          BY <5>1 DEF Submissions, FormAnswers
        <5> HIDE DEF number
        <5>4. QED
          BY <3>2, <3>3, <5>2, <5>3 DEF Forms
      <4>3. QED
        BY <4>1, <4>2
    <3>5. QED
      BY <3>1, <3>3, <3>4, PostTypes DEF FormTypes
  <2>2. ASSUME NEW p \in Prompts, NEW value \in Answers \cup {None}, TypeAnswer(p, value)
        PROVE  FormTypes' /\ posts' \in Seq(CompletePosts)
    <3> DEFINE answers == [form.answers EXCEPT ![p] = value]
    <3>1. /\ form.request # 0 /\ edits < MaxEdits
          /\ edits' = edits + 1
          /\ UNCHANGED <<requests, posts>>
      BY <2>2 DEF TypeAnswer, serverVars
    <3>2. answers \in FormAnswers
      BY DEF FormAnswers
    <3>3. form' = [form EXCEPT !.answers = answers]
      BY <2>2 DEF TypeAnswer
    <3>4. storage' = [storage EXCEPT ![form.request] =
                        [key |-> form.key, answers |-> form'.answers]]
      BY <2>2 DEF TypeAnswer
    <3> HIDE DEF answers
    <3>5. /\ form' \in Forms /\ form'.request = form.request /\ form'.key = form.key
          /\ form'.answers = answers
      BY <3>2, <3>3 DEF Forms
    <3>6. form.key \in 1..MaxForms
      BY <3>1
    <3>7. [key |-> form.key, answers |-> form'.answers] \in Submissions
      BY <3>2, <3>5, <3>6 DEF Submissions, FormAnswers
    <3>8. storage' \in [Ids -> Submissions \cup {None}]
      BY <3>1, <3>4, <3>7
    <3>9. edits' \in 0..MaxEdits
      BY <3>1
    <3>10. QED
      BY <3>1, <3>5, <3>8, <3>9, PostTypes DEF FormTypes
  <2>3. CASE SubmitForm
    <3> DEFINE post == [form |-> form.number, request |-> form.request, key |-> form.key,
                        answers |-> form.answers, stage |-> "sent"]
    <3>1. /\ form.request # 0 /\ CanSubmit
          /\ form' = [form EXCEPT !.submitting = TRUE]
          /\ posts' = Append(posts, post)
          /\ UNCHANGED <<requests, storage, edits>>
      BY <2>3 DEF SubmitForm, serverVars
    <3>2. /\ form' \in Forms /\ form'.request = form.request /\ form'.key = form.key
      BY <3>1 DEF Forms
    <3>3. post \in FormPosts
      BY <3>1 DEF FormPosts
    <3>4. post \in CompletePosts
      BY <3>1, <3>3 DEF CompletePosts, CanSubmit
    <3> HIDE DEF post
    <3>5. posts' \in Seq(CompletePosts)
      BY <3>1, <3>4, PostTypes, SequenceAppended
    <3>6. QED
      BY <3>1, <3>2, <3>5 DEF FormTypes
  <2>4. QED
    BY <2>1, <2>2, <2>3
<1>4. QED
  BY <1>1, <1>2, <1>3, PostsKept, ResponseInvFrom DEF ResponseInv, ResponseTypes

\* A submission is served, lost, answered or dropped.
LEMMA PostCommands ==
  ASSUME ResponseInv, NEW i \in DOMAIN posts,
         ServePost(i) \/ LosePost(i) \/ ReceivePost(i) \/ DropPost(i)
  PROVE  ResponseInv'
<1> USE FormIsTyped
<1>1. UNCHANGED <<archived, eligible, panel, previews, edits, clock>>
  BY DEF ServePost, LosePost, ReceivePost, DropPost, serverVars
<1>2. PanelTypes'
  BY <1>1, PanelKept
<1>3. RequestsMove
  <2>1. CASE ServePost(i)
    BY <2>1, ServePostMoves
  <2>2. CASE LosePost(i) \/ ReceivePost(i) \/ DropPost(i)
    BY <2>2, RequestsStay DEF LosePost, ReceivePost, DropPost, serverVars
  <2>3. QED
    BY <2>1, <2>2
<1>4. posts' \in Seq(CompletePosts)
  <2>1. CASE ServePost(i) \/ LosePost(i)
    <3>1. \E stage \in {"sent", "receipt", "error"} : Settle(i, stage)
      BY <2>1 DEF ServePost, LosePost
    <3>2. QED
      BY <3>1, SettledPosts
  <2>2. CASE ReceivePost(i) \/ DropPost(i)
    BY <2>2, RemovedPosts DEF ReceivePost, DropPost
  <2>3. QED
    BY <2>1, <2>2
<1>5. FormTypes'
  <2>1. CASE ServePost(i) \/ LosePost(i) \/ DropPost(i)
    <3>1. UNCHANGED <<form, storage, edits>>
      BY <2>1 DEF ServePost, LosePost, DropPost
    <3>2. QED
      BY <1>3, <3>1, FormKept
  <2>2. CASE ReceivePost(i)
    <3>1. /\ form' = [form EXCEPT !.submitting = FALSE,
                                  !.submitted = (posts[i].stage = "receipt")]
          /\ storage' \in {storage, [storage EXCEPT ![form.request] = None]}
          /\ UNCHANGED <<requests, edits>>
      BY <2>2 DEF ReceivePost, serverVars
    <3>2. /\ form' \in Forms /\ form'.request = form.request /\ form'.key = form.key
      BY <3>1 DEF Forms
    <3>3. storage' \in [Ids -> Submissions \cup {None}]
      BY <3>1
    <3>4. QED
      BY <3>1, <3>2, <3>3 DEF FormTypes
  <2>3. QED
    BY <2>1, <2>2
<1>6. QED
  BY <1>1, <1>2, <1>3, <1>4, <1>5, PostsKept, ResponseInvFrom
  DEF ResponseInv, ResponseTypes

LEMMA ResponseInvStep ==
  ResponseInv /\ [ResponseNext]_<<archived, responseVars>> => ResponseInv'
<1> SUFFICES ASSUME ResponseInv, [ResponseNext]_<<archived, responseVars>>
             PROVE  ResponseInv'
  OBVIOUS
<1>1. CASE PanelCommand
  BY <1>1, PanelStep
<1>2. CASE Customer
  BY <1>2, FormCommands, PostCommands DEF Customer
<1>3. CASE PromptsMove \/ ArchiveOrRestoreUnnoticed \/ Tick
           \/ UNCHANGED <<archived, responseVars>>
  <2>1. UNCHANGED <<panel, previews, requests, form, storage, posts, edits>>
    BY <1>3 DEF PromptsMove, ArchiveOrRestoreUnnoticed, Tick, responseVars, serverVars,
      formVars
  <2>2. /\ RequestsMove /\ PanelTypes' /\ FormTypes'
        /\ posts' \in Seq(CompletePosts')
    BY <2>1, RequestsStay, PanelKept, FormKept, PostTypes, PostsKept
  <2>3. archived' \in BOOLEAN
    BY <1>3 DEF PromptsMove, ArchiveOrRestoreUnnoticed, Tick, responseVars, serverVars,
      formVars, ResponseInv, ResponseTypes
  <2>4. eligible' \subseteq Prompts
    BY <1>3 DEF PromptsMove, ArchiveOrRestoreUnnoticed, Tick, responseVars, serverVars,
      formVars, ResponseInv, ResponseTypes
  <2>5. clock' \in 0..MaxClock
    <3>1. clock \in 0..MaxClock
      BY DEF ResponseInv, ResponseTypes
    <3>2. \/ clock' = clock
          \/ clock < MaxClock /\ clock' = clock + 1
      <4>1. CASE Tick
        BY <4>1 DEF Tick
      <4>2. CASE PromptsMove
        BY <4>2 DEF PromptsMove
      <4>3. CASE ArchiveOrRestoreUnnoticed
        BY <4>3 DEF ArchiveOrRestoreUnnoticed
      <4>4. CASE UNCHANGED <<archived, responseVars>>
        BY <4>4 DEF responseVars
      <4>5. QED
        BY <1>3, <4>1, <4>2, <4>3, <4>4
    <3>3. QED
      BY <3>1, <3>2, ResponseAssumption
  <2>6. QED
    BY <2>2, <2>3, <2>4, <2>5, ResponseInvFrom
<1>4. QED
  BY <1>1, <1>2, <1>3 DEF ResponseNext

LEMMA ResponseInvHolds == ResponseSpec => []ResponseInv
  BY ResponseInvInit, ResponseInvStep, PTL DEF ResponseSpec

\* CustomerResponse: previews, requests, the Owner's panel, the Customer's form and
\* the drafts it keeps have their types, with forms that name requests that exist.
THEOREM ResponseTypeCorrect == ResponseSpec => []ResponseTypeOK
<1>1. ResponseInv => ResponseTypeOK
  <2> SUFFICES ASSUME ResponseInv
               PROVE  ResponseTypeOK
    OBVIOUS
  <2>1. \A r \in DOMAIN requests : requests[r] \in Requests /\ Sound(requests[r])
    BY RequestTypes DEF SoundRequests
  <2>2. \A r \in DOMAIN requests :
          /\ requests[r].state \in {"OPEN", "SUBMITTED", "REVOKED"}
          /\ requests[r].delivery \in {"SENDING", "SENT", "FAILED", "UNKNOWN"}
          /\ requests[r].submission \in Submissions \cup {None}
          /\ requests[r].evidence \subseteq requests[r].prompts
    BY <2>1 DEF Requests, Sound
  <2>3. QED
    BY <2>2 DEF ResponseInv, ResponseTypes, PanelTypes, FormTypes, ResponseTypeOK
<1>2. QED
  BY <1>1, ResponseInvHolds, PTL

\* CustomerResponse: a preview makes one request, however often its confirmation
\* is sent, from whatever panel, and is answered or not.
THEOREM EachPreviewOneRequestHolds == ResponseSpec => []EachPreviewOneRequest
<1>1. ResponseInv => EachPreviewOneRequest
  BY DEF ResponseInv
<1>2. QED
  BY <1>1, ResponseInvHolds, PTL

\* A request that is said to be SENT was taken by the gateway in one of its
\* deliveries, what it holds as submitted answers every prompt it was previewed
\* with, and evidence is kept of its prompts and only once they were answered.
RequestsAreSound == \A r \in DOMAIN requests : Sound(requests[r])

\* CustomerResponse: every request is sound, although forms are opened at any time,
\* edited while they are submitted and served late, and deliveries repeated.
THEOREM RequestsAreSoundHolds == ResponseSpec => []RequestsAreSound
<1>1. ResponseInv => RequestsAreSound
  BY RequestTypes DEF RequestsAreSound, SoundRequests
<1>2. QED
  BY <1>1, ResponseInvHolds, PTL

-----------------------------------------------------------------------------
(* DiscoveryEvidence.                                                      *)

SourceRows == [kind : {"answer", "response", "attachment"}, of : Nat]
EvidenceRows == [source : SourceRows, live : BOOLEAN]
InsightRows == [version : 1..MaxVersions, links : SUBSET Nat, raced : BOOLEAN]
AttachmentRows == [live : BOOLEAN]

\* What a transaction has checked already and nobody can undo: rows are never taken
\* from the tables, a removed one is only no longer live.
Checked(task) ==
  /\ task.kind = "create" =>
       task.sources \in Seq(SourceRows) /\ (task.links # {} \/ task.sources # <<>>)
  /\ task.kind = "update" => task.links # {} /\ task.insight \in DOMAIN insights
  /\ task.kind = "delete-evidence" => task.id \in DOMAIN evidence
  /\ task.kind = "delete-attachment" => task.id \in DOMAIN attachments
  /\ task.kind \in {"save-contact", "delete-contact"} => task.id \in 1..MaxContacts

TasksAreChecked ==
  /\ DOMAIN tasks = Owners
  /\ \A o \in Owners : Checked(tasks[o])

TablesAreTyped ==
  /\ attachments \in Seq(AttachmentRows) /\ Len(attachments) <= MaxAttachments
  /\ evidence \in Seq(EvidenceRows) /\ Len(evidence) <= MaxEvidence
  /\ insights \in Seq(InsightRows)
  /\ contacts \subseteq 1..MaxContacts

\* What a removal on its way will take was not linked when the removal was checked,
\* so that it was linked since.
RacesAreSeen ==
  \A i \in DOMAIN insights : Raced(insights[i].links, evidence) => insights[i].raced

EvidenceInv ==
  /\ archived \in BOOLEAN /\ sealed \in BOOLEAN
  /\ TablesAreTyped
  /\ TasksAreChecked
  /\ RacesAreSeen
  /\ UnracedInsightsKeepEvidence

LEMMA TableTypes ==
  ASSUME TablesAreTyped
  PROVE  /\ attachments \in Seq(AttachmentRows) /\ evidence \in Seq(EvidenceRows)
         /\ insights \in Seq(InsightRows)
         /\ DOMAIN attachments = 1..Len(attachments) /\ Len(attachments) \in Nat
         /\ DOMAIN evidence = 1..Len(evidence) /\ Len(evidence) \in Nat
         /\ DOMAIN insights = 1..Len(insights) /\ Len(insights) \in Nat
         /\ \A e \in DOMAIN evidence : evidence[e] \in EvidenceRows
         /\ \A i \in DOMAIN insights : insights[i] \in InsightRows
         /\ \A a \in DOMAIN attachments : attachments[a] \in AttachmentRows
<1>1. /\ attachments \in Seq(AttachmentRows) /\ evidence \in Seq(EvidenceRows)
      /\ insights \in Seq(InsightRows)
  BY DEF TablesAreTyped
<1>2. /\ DOMAIN attachments = 1..Len(attachments) /\ Len(attachments) \in Nat
      /\ DOMAIN evidence = 1..Len(evidence) /\ Len(evidence) \in Nat
      /\ DOMAIN insights = 1..Len(insights) /\ Len(insights) \in Nat
  BY <1>1, LenProperties
<1>3. QED
  BY <1>1, <1>2, ElementOfSeq

LEMMA SourcesAreRows ==
  ASSUME LiveAttachments \subseteq Nat
  PROVE  Sources \subseteq SourceRows
<1>1. [kind : {"answer", "response"}, of : {0}] \subseteq SourceRows
  BY DEF SourceRows
<1>2. [kind : {"attachment"}, of : LiveAttachments] \subseteq SourceRows
  BY DEF SourceRows
<1>3. QED
  BY <1>1, <1>2 DEF Sources

TablesGrow ==
  /\ DOMAIN attachments \subseteq DOMAIN attachments'
  /\ DOMAIN evidence \subseteq DOMAIN evidence'
  /\ DOMAIN insights \subseteq DOMAIN insights'

\* A transaction begins; if it is to remove something, nothing links that now.
LEMMA TaskBegins ==
  ASSUME EvidenceInv, NEW o \in Owners, NEW task, NEW required \in BOOLEAN,
         Begin(o, task, required), required => Checked(task),
         required /\ task.kind = "delete-evidence" =>
           \A i \in DOMAIN insights : task.id \notin insights[i].links,
         required /\ task.kind = "delete-attachment" =>
           \A e \in LiveEvidence : evidence[e].source.of # task.id
  PROVE  EvidenceInv'
<1>1. /\ required
      /\ tasks' = [tasks EXCEPT ![o] = task]
      /\ UNCHANGED <<archived, sealed, attachments, evidence, insights, contacts>>
  BY DEF Begin, tables
<1>2. TasksAreChecked'
  BY <1>1 DEF EvidenceInv, TasksAreChecked, Checked
<1>3. \A q \in Owners : tasks'[q] \in {tasks[q], task}
  BY <1>1 DEF EvidenceInv, TasksAreChecked
<1>4. \A i \in DOMAIN insights : insights[i].links \subseteq LiveEvidence
  BY DEF EvidenceInv, UnracedInsightsKeepEvidence
<1>5. RacesAreSeen'
  <2>1. SUFFICES ASSUME NEW i \in DOMAIN insights, Raced(insights[i].links, evidence)'
                 PROVE  insights[i].raced
    BY <1>1 DEF RacesAreSeen
  <2>2. Raced(insights[i].links, evidence)
    BY <1>1, <1>3, <1>4, <2>1 DEF Raced, RemovalChecked
  <2>3. QED
    BY <2>2 DEF EvidenceInv, RacesAreSeen
<1>6. QED
  BY <1>1, <1>2, <1>5 DEF EvidenceInv, TablesAreTyped, UnracedInsightsKeepEvidence,
    LiveEvidence, Stored, Sources, LiveAttachments

LEMMA TaskDone ==
  ASSUME EvidenceInv, NEW o \in Owners, TaskEnds(o), TablesGrow
  PROVE  TasksAreChecked'
<1>1. DOMAIN tasks' = Owners /\ \A q \in Owners : tasks'[q] \in {tasks[q], NoTask}
  BY DEF TaskEnds, EvidenceInv, TasksAreChecked
<1>2. QED
  BY <1>1 DEF EvidenceInv, TasksAreChecked, Checked, NoTask, TablesGrow

\* The end of a transaction races with nothing, and neither does the loss of links.
LEMMA RacesStaySeen ==
  ASSUME EvidenceInv, NEW o \in Owners, TaskEnds(o),
         \A e \in LiveEvidence : evidence'[e].source = evidence[e].source,
         \A i \in DOMAIN insights' :
           \/ /\ i \in DOMAIN insights
              /\ insights'[i].raced = insights[i].raced
              /\ insights'[i].links \subseteq insights[i].links
           \/ Raced(insights'[i].links, evidence') => insights'[i].raced
  PROVE  RacesAreSeen'
<1>1. \A q \in Owners : tasks'[q] \in {tasks[q], NoTask}
  BY DEF TaskEnds, EvidenceInv, TasksAreChecked
<1>2. SUFFICES ASSUME NEW i \in DOMAIN insights', Raced(insights[i].links, evidence)'
               PROVE  insights'[i].raced
  BY DEF RacesAreSeen
<1>3. Raced(insights'[i].links, evidence')
  BY <1>1, <1>2 DEF Raced, RemovalChecked, NoTask
<1>4. CASE /\ i \in DOMAIN insights
           /\ insights'[i].raced = insights[i].raced
           /\ insights'[i].links \subseteq insights[i].links
  <2>1. insights[i].links \subseteq LiveEvidence
    BY <1>4 DEF EvidenceInv, UnracedInsightsKeepEvidence
  <2>2. Raced(insights[i].links, evidence)
    BY <1>3, <1>4, <2>1 DEF Raced
  <2>3. QED
    BY <1>4, <2>2 DEF EvidenceInv, RacesAreSeen
<1>5. QED
  BY <1>3, <1>4

\* An Insight is added or replaced.
LEMMA InsightWritten ==
  ASSUME TablesAreTyped, NEW row \in InsightRows,
         \/ insights' = Append(insights, row)
         \/ \E n \in DOMAIN insights : insights' = [insights EXCEPT ![n] = row]
  PROVE  /\ insights' \in Seq(InsightRows)
         /\ DOMAIN insights \subseteq DOMAIN insights'
         /\ \A i \in DOMAIN insights' :
              insights'[i] = row \/ (i \in DOMAIN insights /\ insights'[i] = insights[i])
<1>1. insights \in Seq(InsightRows)
  BY DEF TablesAreTyped
<1>2. CASE insights' = Append(insights, row)
  BY <1>1, <1>2, SequenceAppended
<1>3. ASSUME NEW n \in DOMAIN insights, insights' = [insights EXCEPT ![n] = row]
      PROVE  /\ insights' \in Seq(InsightRows)
             /\ DOMAIN insights' = DOMAIN insights
             /\ \A i \in DOMAIN insights : insights'[i] = IF i = n THEN row ELSE insights[i]
  BY <1>1, <1>3, SequenceReplaced
<1>4. QED
  BY <1>2, <1>3

\* It has links, all of them to what is live, and tells whether it was raced.
LEMMA InsightIsLinked ==
  ASSUME EvidenceInv, NEW o \in Owners, TaskEnds(o), NEW row \in InsightRows,
         row.links # {}, row.links \subseteq LiveEvidence',
         row.raced = Raced(row.links, evidence'),
         \A i \in DOMAIN insights' :
           insights'[i] = row \/ (i \in DOMAIN insights /\ insights'[i] = insights[i]),
         LiveEvidence \subseteq LiveEvidence',
         \A e \in LiveEvidence : evidence'[e].source = evidence[e].source,
         \A e \in LiveEvidence' : evidence'[e].source \in Sources'
  PROVE  RacesAreSeen' /\ UnracedInsightsKeepEvidence'
<1>1. RacesAreSeen'
  BY RacesStaySeen
<1>2. \A i \in DOMAIN insights' :
        /\ insights'[i].links = {} => insights'[i].raced
        /\ insights'[i].links \subseteq LiveEvidence'
  BY DEF EvidenceInv, UnracedInsightsKeepEvidence
<1>3. QED
  BY <1>1, <1>2 DEF UnracedInsightsKeepEvidence

\* The new Evidence of an Insight comes after the old.
LEMMA EvidenceAdded ==
  ASSUME TablesAreTyped, NEW sources \in Seq(SourceRows),
         evidence' = evidence \o
           [n \in DOMAIN sources |-> [source |-> sources[n], live |-> TRUE]]
  PROVE  /\ evidence' \in Seq(EvidenceRows)
         /\ Len(evidence') = Len(evidence) + Len(sources)
         /\ DOMAIN evidence \subseteq DOMAIN evidence'
         /\ \A e \in DOMAIN evidence : evidence'[e] = evidence[e]
         /\ LiveEvidence' =
              LiveEvidence \cup (Len(evidence) + 1..Len(evidence) + Len(sources))
         /\ \A n \in DOMAIN sources : evidence'[Len(evidence) + n].source = sources[n]
<1> DEFINE created == [n \in DOMAIN sources |-> [source |-> sources[n], live |-> TRUE]]
<1>1. DOMAIN sources = 1..Len(sources) /\ Len(sources) \in Nat
  BY LenProperties
<1>2. created \in Seq(EvidenceRows) /\ Len(created) = Len(sources)
  <2>1. \A n \in 1..Len(sources) : [source |-> sources[n], live |-> TRUE] \in EvidenceRows
    BY <1>1, ElementOfSeq DEF EvidenceRows
  <2>2. created \in [1..Len(sources) -> EvidenceRows]
    BY <1>1, <2>1
  <2>3. QED
    BY <1>1, <2>2, SeqDef, LenProperties
<1>3. \A n \in 1..Len(sources) : created[n].live /\ created[n].source = sources[n]
  BY <1>1
<1> HIDE DEF created
<1>4. /\ evidence \in Seq(EvidenceRows) /\ DOMAIN evidence = 1..Len(evidence)
      /\ Len(evidence) \in Nat /\ evidence' = evidence \o created
  BY TableTypes DEF created
<1>5. /\ evidence' \in Seq(EvidenceRows)
      /\ Len(evidence') = Len(evidence) + Len(sources)
      /\ \A e \in 1..Len(evidence') :
           evidence'[e] = IF e <= Len(evidence) THEN evidence[e]
                          ELSE created[e - Len(evidence)]
  <2>1. /\ evidence' \in Seq(EvidenceRows)
        /\ Len(evidence') = Len(evidence) + Len(created)
        /\ \A e \in 1..Len(evidence) + Len(created) :
             evidence'[e] = IF e <= Len(evidence) THEN evidence[e]
                            ELSE created[e - Len(evidence)]
    <3> DEFINE all == evidence \o created
    <3>1. /\ all \in Seq(EvidenceRows)
          /\ Len(all) = Len(evidence) + Len(created)
          /\ \A e \in 1..Len(evidence) + Len(created) :
               all[e] = IF e <= Len(evidence) THEN evidence[e]
                        ELSE created[e - Len(evidence)]
      BY <1>2, <1>4, ConcatProperties, Zenon
    <3>2. QED
      BY <1>4, <3>1
  <2>2. QED
    BY <1>2, <2>1
<1>6. DOMAIN evidence' = 1..Len(evidence')
  BY <1>5, LenProperties
<1> DEFINE m == Len(evidence)
           k == Len(sources)
<1>7. /\ \A e \in 1..m : evidence'[e] = evidence[e]
      /\ \A e \in m + 1..m + k : evidence'[e].live
      /\ \A n \in 1..k : evidence'[m + n].source = sources[n]
  <2>1. \A n \in 1..k : evidence'[m + n] = created[n]
    <3>1. ASSUME NEW n \in 1..k
          PROVE  m + n \in 1..Len(evidence') /\ ~(m + n <= m) /\ (m + n) - m = n
      BY <1>1, <1>4, <1>5
    <3>2. QED
      BY <1>5, <3>1
  <2>2. \A e \in m + 1..m + k : e - m \in 1..k /\ m + (e - m) = e
    BY <1>1, <1>4
  <2>3. \A e \in m + 1..m + k : evidence'[e].live
    BY <1>3, <2>1, <2>2
  <2>4. \A e \in 1..m : evidence'[e] = evidence[e]
    BY <1>1, <1>4, <1>5
  <2>5. QED
    BY <1>3, <2>1, <2>3, <2>4
<1>8. LiveEvidence' = LiveEvidence \cup (m + 1..m + k)
  <2>1. DOMAIN evidence' = DOMAIN evidence \cup (m + 1..m + k)
    BY <1>1, <1>4, <1>5, <1>6
  <2>2. QED
    BY <1>4, <1>7, <2>1 DEF LiveEvidence, Stored
<1>9. DOMAIN evidence \subseteq DOMAIN evidence'
  BY <1>1, <1>4, <1>5, <1>6
<1>10. QED
  BY <1>1, <1>4, <1>5, <1>7, <1>8, <1>9

LEMMA WriteInsightStep ==
  ASSUME EvidenceInv, NEW o \in Owners, WriteInsight(o)
  PROVE  EvidenceInv'
<1> DEFINE sources == tasks[o].sources
           fresh == Len(evidence) + 1..Len(evidence) + Len(sources)
           links == tasks[o].links \cup fresh
           raced == Raced(links, evidence')
           row == [version |-> 1, links |-> links, raced |-> raced]
<1> USE EvidenceAssumption
<1>1. /\ tasks[o].kind = "create" /\ tasks[o].links \subseteq LiveEvidence
      /\ \A n \in DOMAIN sources : sources[n] \in Sources
      /\ Len(evidence) + Len(sources) <= MaxEvidence
      /\ evidence' = evidence \o
           [n \in DOMAIN sources |-> [source |-> sources[n], live |-> TRUE]]
      /\ insights' = Append(insights, row)
      /\ TaskEnds(o)
      /\ UNCHANGED <<archived, sealed, attachments, contacts>>
  BY DEF WriteInsight, Exists, TaskOf
<1>2. sources \in Seq(SourceRows) /\ (tasks[o].links # {} \/ sources # <<>>)
  BY <1>1 DEF EvidenceInv, TasksAreChecked, Checked
<1>3. TablesAreTyped /\ LiveEvidence \subseteq DOMAIN evidence
  BY DEF EvidenceInv, LiveEvidence, Stored
<1>4. DOMAIN sources = 1..Len(sources) /\ Len(sources) \in Nat
      /\ (sources # <<>> => Len(sources) > 0)
  BY <1>2, LenProperties, EmptySeq
<1>5. Len(evidence) \in Nat /\ DOMAIN evidence = 1..Len(evidence)
  BY <1>3, TableTypes
<1> HIDE DEF sources
<1>6. /\ evidence' \in Seq(EvidenceRows) /\ Len(evidence') <= MaxEvidence
      /\ DOMAIN evidence \subseteq DOMAIN evidence'
      /\ \A e \in DOMAIN evidence : evidence'[e] = evidence[e]
      /\ LiveEvidence' = LiveEvidence \cup fresh
      /\ \A n \in DOMAIN sources : evidence'[Len(evidence) + n].source = sources[n]
  BY <1>1, <1>2, <1>3, EvidenceAdded
<1>7. Sources' = Sources
  BY <1>1 DEF Sources, LiveAttachments, Stored
<1>8. \A e \in LiveEvidence' : evidence'[e].source \in Sources'
  <2>1. \A e \in fresh : e - Len(evidence) \in 1..Len(sources)
                         /\ Len(evidence) + (e - Len(evidence)) = e
    BY <1>4, <1>5
  <2>2. \A e \in fresh : evidence'[e].source \in Sources
    BY <1>1, <1>4, <1>6, <2>1
  <2>3. \A e \in LiveEvidence : evidence'[e].source \in Sources
    BY <1>3, <1>6 DEF EvidenceInv, UnracedInsightsKeepEvidence
  <2>4. QED
    BY <1>6, <1>7, <2>2, <2>3
<1>9. links # {} /\ links \subseteq LiveEvidence' /\ links \subseteq Nat
  <2>1. sources # <<>> => Len(evidence) + 1 \in fresh
    BY <1>4, <1>5
  <2>2. LiveEvidence \subseteq Nat /\ fresh \subseteq Nat
    BY <1>3, <1>4, <1>5
  <2>3. QED
    BY <1>1, <1>2, <1>6, <2>1, <2>2
<1> HIDE DEF fresh, links
<1>10. row \in InsightRows /\ row.links = links /\ row.raced = Raced(row.links, evidence')
  <2>1. raced \in BOOLEAN
    BY DEF Raced
  <2>2. QED
    BY <1>9, <2>1 DEF InsightRows
<1> HIDE DEF raced, row
<1>11. /\ insights' \in Seq(InsightRows)
       /\ DOMAIN insights \subseteq DOMAIN insights'
       /\ \A i \in DOMAIN insights' :
            insights'[i] = row \/ (i \in DOMAIN insights /\ insights'[i] = insights[i])
  BY <1>1, <1>3, <1>10, InsightWritten
<1>12. RacesAreSeen' /\ UnracedInsightsKeepEvidence'
  <2>1. \A e \in LiveEvidence : evidence'[e].source = evidence[e].source
    BY <1>3, <1>6
  <2>2. LiveEvidence \subseteq LiveEvidence'
    BY <1>6
  <2>3. QED
    BY <1>1, <1>8, <1>9, <1>10, <1>11, <2>1, <2>2, InsightIsLinked
<1>13. TablesAreTyped'
  BY <1>1, <1>3, <1>6, <1>11 DEF TablesAreTyped
<1>14. TasksAreChecked'
  BY <1>1, <1>6, <1>11, TaskDone DEF TablesGrow
<1>15. QED
  BY <1>1, <1>12, <1>13, <1>14 DEF EvidenceInv

LEMMA WriteUpdateStep ==
  ASSUME EvidenceInv, NEW o \in Owners, WriteUpdate(o)
  PROVE  EvidenceInv'
<1> DEFINE task == tasks[o]
           raced == Raced(task.links, evidence)
           row == [version |-> task.version + 1, links |-> task.links, raced |-> raced]
<1> USE EvidenceAssumption
<1>1. /\ task.kind = "update" /\ task.links \subseteq LiveEvidence
      /\ insights[task.insight].version = task.version /\ task.version < MaxVersions
      /\ insights' = [insights EXCEPT ![task.insight] = row]
      /\ TaskEnds(o)
      /\ UNCHANGED <<archived, sealed, attachments, evidence, contacts>>
  BY DEF WriteUpdate, Exists, TaskOf
<1>2. task.links # {} /\ task.insight \in DOMAIN insights
  BY <1>1 DEF EvidenceInv, TasksAreChecked, Checked
<1> HIDE DEF task
<1>3. TablesAreTyped /\ LiveEvidence \subseteq DOMAIN evidence
  BY DEF EvidenceInv, LiveEvidence, Stored
<1>4. task.version + 1 \in 1..MaxVersions
  <2>1. insights[task.insight] \in InsightRows
    BY <1>2, <1>3, TableTypes
  <2>2. QED
    BY <1>1, <2>1 DEF InsightRows
<1>5. Sources' = Sources /\ LiveEvidence' = LiveEvidence /\ LiveEvidence \subseteq Nat
  BY <1>1, <1>3, TableTypes DEF Sources, LiveAttachments, LiveEvidence, Stored
<1>6. /\ row \in InsightRows /\ row.links = task.links
      /\ row.raced = Raced(row.links, evidence')
  <2>1. raced \in BOOLEAN
    BY DEF Raced
  <2>2. QED
    BY <1>1, <1>4, <1>5, <2>1 DEF InsightRows
<1> HIDE DEF raced, row
<1>7. /\ insights' \in Seq(InsightRows)
      /\ DOMAIN insights \subseteq DOMAIN insights'
      /\ \A i \in DOMAIN insights' :
           insights'[i] = row \/ (i \in DOMAIN insights /\ insights'[i] = insights[i])
  BY <1>1, <1>2, <1>3, <1>6, InsightWritten
<1>8. RacesAreSeen' /\ UnracedInsightsKeepEvidence'
  <2>1. \A e \in LiveEvidence' : evidence'[e].source \in Sources'
    BY <1>1, <1>5 DEF EvidenceInv, UnracedInsightsKeepEvidence
  <2>2. \A e \in LiveEvidence : evidence'[e].source = evidence[e].source
    BY <1>1
  <2>3. QED
    BY <1>1, <1>2, <1>5, <1>6, <1>7, <2>1, <2>2, InsightIsLinked
<1>9. TablesAreTyped'
  BY <1>1, <1>3, <1>7 DEF TablesAreTyped
<1>10. TasksAreChecked'
  BY <1>1, <1>7, TaskDone DEF TablesGrow
<1>11. QED
  BY <1>1, <1>8, <1>9, <1>10 DEF EvidenceInv

\* A removal takes the links to what is gone, all of them made since it was checked.
LEMMA LinksCascade ==
  ASSUME EvidenceInv, NEW o \in Owners, TaskEnds(o), NEW gone, RemoveWithLinks(gone),
         archived' = archived, sealed' = sealed, contacts' = contacts,
         attachments' \in Seq(AttachmentRows), Len(attachments') <= MaxAttachments,
         DOMAIN attachments \subseteq DOMAIN attachments',
         \A e \in LiveEvidence \ gone : evidence[e].source \in Sources',
         \A i \in DOMAIN insights : insights[i].links \cap gone # {} => insights[i].raced
  PROVE  EvidenceInv'
<1>1. /\ evidence' = [e \in DOMAIN evidence |->
                        [evidence[e] EXCEPT !.live = @ /\ e \notin gone]]
      /\ insights' = [i \in DOMAIN insights |-> [insights[i] EXCEPT !.links = @ \ gone]]
  BY DEF RemoveWithLinks
<1>2. TablesAreTyped
  BY DEF EvidenceInv
<1>3. \A e \in DOMAIN evidence :
        /\ evidence'[e] \in EvidenceRows
        /\ evidence'[e].source = evidence[e].source
        /\ evidence'[e].live = (evidence[e].live /\ e \notin gone)
  <2>1. SUFFICES ASSUME NEW e \in DOMAIN evidence
                 PROVE  /\ evidence'[e] \in EvidenceRows
                        /\ evidence'[e].source = evidence[e].source
                        /\ evidence'[e].live = (evidence[e].live /\ e \notin gone)
    OBVIOUS
  <2>2. evidence[e] \in EvidenceRows
    BY <1>2, TableTypes
  <2>3. evidence'[e] = [evidence[e] EXCEPT !.live = @ /\ e \notin gone]
    BY <1>1
  <2>4. (evidence[e].live /\ e \notin gone) \in BOOLEAN
    OBVIOUS
  <2>5. QED
    BY <2>2, <2>3, <2>4 DEF EvidenceRows
<1>4. \A i \in DOMAIN insights :
        /\ insights'[i] \in InsightRows
        /\ insights'[i].raced = insights[i].raced
        /\ insights'[i].links = insights[i].links \ gone
  <2>1. SUFFICES ASSUME NEW i \in DOMAIN insights
                 PROVE  /\ insights'[i] \in InsightRows
                        /\ insights'[i].raced = insights[i].raced
                        /\ insights'[i].links = insights[i].links \ gone
    OBVIOUS
  <2>2. insights[i] \in InsightRows
    BY <1>2, TableTypes
  <2>3. insights'[i] = [insights[i] EXCEPT !.links = insights[i].links \ gone]
    BY <1>1
  <2>4. insights[i].links \ gone \in SUBSET Nat
    BY <2>2 DEF InsightRows
  <2>5. QED
    BY <2>2, <2>3, <2>4 DEF InsightRows
<1>5. DOMAIN evidence' = DOMAIN evidence /\ DOMAIN insights' = DOMAIN insights
  BY <1>1
<1>6. evidence' \in Seq(EvidenceRows) /\ Len(evidence') = Len(evidence)
  <2>1. Len(evidence) \in Nat /\ evidence' \in [1..Len(evidence) -> EvidenceRows]
    BY <1>1, <1>2, <1>3, <1>5, TableTypes
  <2>2. QED
    BY <2>1, SeqDef, LenProperties
<1>7. insights' \in Seq(InsightRows)
  <2>1. Len(insights) \in Nat /\ insights' \in [1..Len(insights) -> InsightRows]
    BY <1>1, <1>2, <1>4, <1>5, TableTypes
  <2>2. QED
    BY <2>1, SeqDef
<1>8. LiveEvidence' = LiveEvidence \ gone
  BY <1>3, <1>5 DEF LiveEvidence, Stored
<1>9. RacesAreSeen'
  <2>1. \A e \in LiveEvidence : evidence'[e].source = evidence[e].source
    BY <1>3 DEF LiveEvidence, Stored
  <2>2. \A i \in DOMAIN insights' :
          /\ i \in DOMAIN insights
          /\ insights'[i].raced = insights[i].raced
          /\ insights'[i].links \subseteq insights[i].links
    BY <1>4, <1>5
  <2>3. QED
    BY <2>1, <2>2, RacesStaySeen
<1>10. UnracedInsightsKeepEvidence'
  <2>1. \A i \in DOMAIN insights' :
          /\ insights'[i].links = {} => insights'[i].raced
          /\ insights'[i].links \subseteq LiveEvidence'
    <3>1. SUFFICES ASSUME NEW i \in DOMAIN insights
                   PROVE  /\ insights'[i].links = {} => insights'[i].raced
                          /\ insights'[i].links \subseteq LiveEvidence'
      BY <1>5
    <3>2. /\ insights[i].links = {} => insights[i].raced
          /\ insights[i].links \subseteq LiveEvidence
      BY DEF EvidenceInv, UnracedInsightsKeepEvidence
    <3>3. QED
      BY <1>4, <1>8, <3>2
  <2>2. \A e \in LiveEvidence' : evidence'[e].source \in Sources'
    BY <1>3, <1>8 DEF LiveEvidence, Stored
  <2>3. QED
    BY <2>1, <2>2 DEF UnracedInsightsKeepEvidence
<1>11. TablesAreTyped'
  BY <1>2, <1>6, <1>7 DEF TablesAreTyped
<1>12. TasksAreChecked'
  BY <1>5, TaskDone DEF TablesGrow
<1>13. QED
  BY <1>9, <1>10, <1>11, <1>12 DEF EvidenceInv

LEMMA RemoveEvidenceStep ==
  ASSUME EvidenceInv, NEW o \in Owners, RemoveEvidence(o)
  PROVE  EvidenceInv'
<1> DEFINE id == tasks[o].id
<1>1. /\ tasks[o].kind = "delete-evidence"
      /\ RemoveWithLinks({id}) /\ TaskEnds(o)
      /\ UNCHANGED <<archived, sealed, attachments, contacts>>
  BY DEF RemoveEvidence, TaskOf
<1>2. \A i \in DOMAIN insights : insights[i].links \cap {id} # {} => insights[i].raced
  <2>1. SUFFICES ASSUME NEW i \in DOMAIN insights, id \in insights[i].links
                 PROVE  insights[i].raced
    OBVIOUS
  <2>2. Raced(insights[i].links, evidence)
    BY <1>1, <2>1 DEF Raced, RemovalChecked
  <2>3. QED
    BY <2>2 DEF EvidenceInv, RacesAreSeen
<1>3. Sources' = Sources
  BY <1>1 DEF Sources, LiveAttachments, Stored
<1>4. \A e \in LiveEvidence \ {id} : evidence[e].source \in Sources'
  BY <1>3 DEF EvidenceInv, UnracedInsightsKeepEvidence
<1>5. /\ attachments' \in Seq(AttachmentRows) /\ Len(attachments') <= MaxAttachments
      /\ DOMAIN attachments \subseteq DOMAIN attachments'
  BY <1>1 DEF EvidenceInv, TablesAreTyped
<1> HIDE DEF id
<1>6. QED
  BY <1>1, <1>2, <1>4, <1>5, LinksCascade

LEMMA RemoveAttachmentStep ==
  ASSUME EvidenceInv, NEW o \in Owners, RemoveAttachment(o)
  PROVE  EvidenceInv'
<1> DEFINE id == tasks[o].id
           row == [attachments[id] EXCEPT !.live = FALSE]
           gone == CitedBy(id)
<1>1. /\ tasks[o].kind = "delete-attachment"
      /\ attachments' = [attachments EXCEPT ![id].live = FALSE]
      /\ RemoveWithLinks(gone) /\ TaskEnds(o)
      /\ UNCHANGED <<archived, sealed, contacts>>
  BY DEF RemoveAttachment, TaskOf
<1>2. id \in DOMAIN attachments
  BY <1>1 DEF EvidenceInv, TasksAreChecked, Checked
<1>3. TablesAreTyped
  BY DEF EvidenceInv
<1>4. /\ row \in AttachmentRows /\ ~row.live
      /\ attachments' = [attachments EXCEPT ![id] = row]
  <2>1. attachments[id] \in AttachmentRows
    BY <1>2, <1>3, TableTypes
  <2>2. QED
    BY <1>1, <1>2, <1>3, <2>1, TableTypes DEF AttachmentRows
<1>5. \A e \in LiveEvidence : e \in gone <=> evidence[e].source.of = id
  BY DEF CitedBy
<1>6. \A i \in DOMAIN insights : insights[i].links \cap gone # {} => insights[i].raced
  <2>1. SUFFICES ASSUME NEW i \in DOMAIN insights, NEW e \in insights[i].links, e \in gone
                 PROVE  insights[i].raced
    OBVIOUS
  <2>2. Raced(insights[i].links, evidence)
    BY <1>1, <2>1 DEF Raced, RemovalChecked, CitedBy
  <2>3. QED
    BY <2>2 DEF EvidenceInv, RacesAreSeen
<1> HIDE DEF id, row, gone
<1>7. /\ attachments' \in Seq(AttachmentRows)
      /\ DOMAIN attachments' = DOMAIN attachments
      /\ Len(attachments') = Len(attachments)
      /\ \A a \in DOMAIN attachments :
           attachments'[a] = IF a = id THEN row ELSE attachments[a]
  BY <1>2, <1>3, <1>4, TableTypes, SequenceReplaced
<1>8. LiveAttachments' = LiveAttachments \ {id}
  BY <1>4, <1>7 DEF LiveAttachments, Stored
<1>9. \A source \in Sources : source.of # id => source \in Sources'
  <2>1. ASSUME NEW source \in [kind : {"attachment"}, of : LiveAttachments], source.of # id
        PROVE  source \in [kind : {"attachment"}, of : LiveAttachments']
    BY <1>8, <2>1
  <2>2. QED
    BY <2>1 DEF Sources
<1>10. \A e \in LiveEvidence \ gone : evidence[e].source \in Sources'
  BY <1>5, <1>9 DEF EvidenceInv, UnracedInsightsKeepEvidence
<1>11. Len(attachments') <= MaxAttachments /\ DOMAIN attachments \subseteq DOMAIN attachments'
  BY <1>3, <1>7 DEF TablesAreTyped
<1>12. QED
  BY <1>1, <1>6, <1>7, <1>10, <1>11, LinksCascade

LEMMA WriteAttachmentStep ==
  ASSUME EvidenceInv, NEW o \in Owners, WriteAttachment(o)
  PROVE  EvidenceInv'
<1> DEFINE row == [live |-> TRUE]
<1>1. /\ attachments' = Append(attachments, row) /\ Len(attachments) < MaxAttachments
      /\ TaskEnds(o)
      /\ UNCHANGED <<archived, sealed, evidence, insights, contacts>>
  BY DEF WriteAttachment
<1>2. TablesAreTyped
  BY DEF EvidenceInv
<1>3. row \in AttachmentRows
  BY DEF AttachmentRows
<1> HIDE DEF row
<1>4. /\ attachments' \in Seq(AttachmentRows)
      /\ Len(attachments') = Len(attachments) + 1
      /\ DOMAIN attachments' = DOMAIN attachments \cup {Len(attachments) + 1}
      /\ \A a \in DOMAIN attachments : attachments'[a] = attachments[a]
  BY <1>1, <1>2, <1>3, TableTypes, SequenceAppended
<1>5. LiveAttachments \subseteq LiveAttachments' /\ LiveEvidence' = LiveEvidence
  BY <1>1, <1>4 DEF LiveAttachments, LiveEvidence, Stored
<1>6. Sources \subseteq Sources'
  <2>1. [kind : {"attachment"}, of : LiveAttachments]
          \subseteq [kind : {"attachment"}, of : LiveAttachments']
    BY <1>5
  <2>2. QED
    BY <2>1 DEF Sources
<1>7. UnracedInsightsKeepEvidence' /\ RacesAreSeen'
  <2>1. UnracedInsightsKeepEvidence'
    BY <1>1, <1>5, <1>6 DEF EvidenceInv, UnracedInsightsKeepEvidence
  <2>2. QED
    BY <1>1, <2>1, RacesStaySeen DEF EvidenceInv, RacesAreSeen
<1>8. TablesAreTyped'
  BY <1>1, <1>2, <1>4, TableTypes, EvidenceAssumption DEF TablesAreTyped
<1>9. TasksAreChecked'
  BY <1>1, <1>4, TaskDone DEF TablesGrow
<1>10. QED
  BY <1>1, <1>7, <1>8, <1>9 DEF EvidenceInv

\* Steps that no Insight and no Evidence depends on.
LEMMA OtherWritesStep ==
  ASSUME EvidenceInv, NEW o \in Owners, WriteContact(o) \/ RollBack(o)
  PROVE  EvidenceInv'
<1>1. /\ TaskEnds(o)
      /\ UNCHANGED <<archived, sealed, attachments, evidence, insights>>
  BY DEF WriteContact, RollBack, tables
<1>2. contacts' \subseteq 1..MaxContacts
  <2>1. CASE WriteContact(o)
    <3>1. tasks[o].id \in 1..MaxContacts
      BY <2>1 DEF WriteContact, TaskOf, EvidenceInv, TasksAreChecked, Checked
    <3>2. contacts' \in {contacts \cup {tasks[o].id}, contacts \ {tasks[o].id}}
      BY <2>1 DEF WriteContact, TaskOf
    <3>3. QED
      BY <3>1, <3>2 DEF EvidenceInv, TablesAreTyped
  <2>2. CASE RollBack(o)
    BY <2>2 DEF RollBack, tables, EvidenceInv, TablesAreTyped
  <2>3. QED
    BY <2>1, <2>2
<1>3. TasksAreChecked'
  BY <1>1, TaskDone DEF TablesGrow
<1>4. UnracedInsightsKeepEvidence' /\ RacesAreSeen'
  <2>1. UnracedInsightsKeepEvidence'
    BY <1>1 DEF EvidenceInv, UnracedInsightsKeepEvidence, LiveEvidence, Stored, Sources,
      LiveAttachments
  <2>2. QED
    BY <1>1, <2>1, RacesStaySeen DEF EvidenceInv, RacesAreSeen
<1>5. QED
  BY <1>1, <1>2, <1>3, <1>4 DEF EvidenceInv, TablesAreTyped

LEMMA EvidenceInvInit == EvidenceInit => EvidenceInv
<1> SUFFICES ASSUME EvidenceInit PROVE EvidenceInv
  OBVIOUS
<1> USE EvidenceAssumption
<1>1. /\ attachments = <<>> /\ evidence = <<>> /\ insights = <<>> /\ contacts = {}
      /\ tasks = [o \in Owners |-> NoTask]
  BY DEF EvidenceInit
<1>2. TablesAreTyped
  BY <1>1, EmptySeq DEF TablesAreTyped
<1>3. TasksAreChecked
  BY <1>1 DEF TasksAreChecked, Checked, NoTask
<1>4. UnracedInsightsKeepEvidence /\ RacesAreSeen
  BY <1>1 DEF UnracedInsightsKeepEvidence, RacesAreSeen, LiveEvidence, Stored
<1>5. QED
  BY <1>2, <1>3, <1>4 DEF EvidenceInit, EvidenceInv

\* Every command checks what its transaction writes later.
LEMMA CommandBegins ==
  ASSUME EvidenceInv, NEW o \in Owners,
         \/ \E links \in SUBSET LiveEvidence, n \in 0..(MaxEvidence - Len(evidence)) :
              \E sources \in [1..n -> Sources] : CreateInsight(o, links, sources)
         \/ \E i \in DOMAIN insights, links \in SUBSET LiveEvidence :
              \E version \in 1..insights[i].version : UpdateInsight(o, i, version, links)
         \/ \E e \in LiveEvidence : DeleteEvidence(o, e)
         \/ Upload(o)
         \/ \E a \in LiveAttachments : DeleteAttachment(o, a)
         \/ \E c \in 1..MaxContacts : SaveContact(o, c) \/ DeleteContact(o, c)
  PROVE  EvidenceInv'
<1>1. ASSUME NEW links \in SUBSET LiveEvidence, NEW n \in 0..(MaxEvidence - Len(evidence)),
             NEW sources \in [1..n -> Sources], CreateInsight(o, links, sources)
      PROVE  EvidenceInv'
  <2> DEFINE task == [kind |-> "create", links |-> links, sources |-> sources]
             required == links # {} \/ sources # <<>>
  <2>1. Begin(o, task, required) /\ required \in BOOLEAN
    BY <1>1 DEF CreateInsight
  <2>2. sources \in Seq(SourceRows)
    <3>1. Len(evidence) \in Nat /\ LiveAttachments \subseteq Nat
      BY TableTypes DEF EvidenceInv, LiveAttachments, Stored
    <3>2. n \in Nat /\ sources \in [1..n -> SourceRows]
      BY <3>1, SourcesAreRows, EvidenceAssumption
    <3>3. QED
      BY <3>2, SeqDef
  <2>3. required => Checked(task)
    BY <2>2 DEF Checked
  <2>4. QED
    BY <2>1, <2>3, TaskBegins
<1>2. ASSUME NEW i \in DOMAIN insights, NEW links \in SUBSET LiveEvidence,
             NEW version \in 1..insights[i].version, UpdateInsight(o, i, version, links)
      PROVE  EvidenceInv'
  <2> DEFINE task == [kind |-> "update", insight |-> i, version |-> version,
                      links |-> links]
             required == links # {}
  <2>1. Begin(o, task, required) /\ required \in BOOLEAN
    BY <1>2 DEF UpdateInsight
  <2>2. required => Checked(task)
    BY DEF Checked
  <2>3. QED
    BY <2>1, <2>2, TaskBegins
<1>3. ASSUME NEW e \in LiveEvidence, DeleteEvidence(o, e) PROVE EvidenceInv'
  <2> DEFINE task == [kind |-> "delete-evidence", id |-> e]
             required == e \in LiveEvidence /\ evidence[e].source.kind # "response"
                         /\ Unlinked(e)
  <2>1. Begin(o, task, required) /\ required \in BOOLEAN
    BY <1>3 DEF DeleteEvidence
  <2>2. required => Checked(task)
    BY DEF Checked, LiveEvidence, Stored
  <2>3. required => \A i \in DOMAIN insights : task.id \notin insights[i].links
    BY DEF Unlinked, LinkedBy
  <2>4. QED
    BY <2>1, <2>2, <2>3, TaskBegins
<1>4. CASE Upload(o)
  <2> DEFINE task == [kind |-> "upload"]
  <2>1. Begin(o, task, ~sealed) /\ (~sealed) \in BOOLEAN
    BY <1>4 DEF Upload
  <2>2. Checked(task)
    BY DEF Checked
  <2>3. QED
    BY <2>1, <2>2, TaskBegins
<1>5. ASSUME NEW a \in LiveAttachments, DeleteAttachment(o, a) PROVE EvidenceInv'
  <2> DEFINE task == [kind |-> "delete-attachment", id |-> a]
             required == a \in LiveAttachments /\ ~sealed /\ Uncited(a)
  <2>1. Begin(o, task, required) /\ required \in BOOLEAN
    BY <1>5 DEF DeleteAttachment
  <2>2. required => Checked(task)
    BY DEF Checked, LiveAttachments, Stored
  <2>3. required => \A e \in LiveEvidence : evidence[e].source.of # task.id
    BY DEF Uncited, CitedBy
  <2>4. QED
    BY <2>1, <2>2, <2>3, TaskBegins
<1>6. ASSUME NEW c \in 1..MaxContacts, SaveContact(o, c) PROVE EvidenceInv'
  <2> DEFINE task == [kind |-> "save-contact", id |-> c]
             required == c \in contacts \/ c = Cardinality(contacts) + 1
  <2>1. Begin(o, task, required) /\ required \in BOOLEAN
    BY <1>6 DEF SaveContact
  <2>2. Checked(task)
    BY DEF Checked
  <2>3. QED
    BY <2>1, <2>2, TaskBegins
<1>7. ASSUME NEW c \in 1..MaxContacts, DeleteContact(o, c) PROVE EvidenceInv'
  <2> DEFINE task == [kind |-> "delete-contact", id |-> c]
  <2>1. Begin(o, task, c \in contacts) /\ (c \in contacts) \in BOOLEAN
    BY <1>7 DEF DeleteContact
  <2>2. Checked(task)
    BY DEF Checked
  <2>3. QED
    BY <2>1, <2>2, TaskBegins
<1>8. QED
  BY <1>1, <1>2, <1>3, <1>4, <1>5, <1>6, <1>7

LEMMA EvidenceInvStep ==
  EvidenceInv /\ [EvidenceNext]_<<archived, evidenceVars>> => EvidenceInv'
<1> SUFFICES ASSUME EvidenceInv, [EvidenceNext]_<<archived, evidenceVars>>
             PROVE  EvidenceInv'
  OBVIOUS
<1>1. ASSUME NEW o \in Owners, OwnerCommand(o) PROVE EvidenceInv'
  BY <1>1, CommandBegins, WriteInsightStep, WriteUpdateStep, RemoveEvidenceStep,
    RemoveAttachmentStep, WriteAttachmentStep, OtherWritesStep DEF OwnerCommand
<1>2. CASE ArchiveOrRestoreMeanwhile \/ SealOrReopen \/ UNCHANGED <<archived, evidenceVars>>
  <2>1. UNCHANGED <<attachments, evidence, insights, contacts, tasks>>
    BY <1>2 DEF ArchiveOrRestoreMeanwhile, SealOrReopen, evidenceVars, tables
  <2>2. archived' \in BOOLEAN /\ sealed' \in BOOLEAN
    BY <1>2 DEF ArchiveOrRestoreMeanwhile, SealOrReopen, evidenceVars, tables, EvidenceInv
  <2>3. TablesAreTyped' /\ TasksAreChecked'
    BY <2>1 DEF EvidenceInv, TablesAreTyped, TasksAreChecked, Checked
  <2>4. UnracedInsightsKeepEvidence' /\ RacesAreSeen'
    BY <2>1 DEF EvidenceInv, UnracedInsightsKeepEvidence, LiveEvidence, Stored, Sources,
      LiveAttachments, RacesAreSeen, Raced, RemovalChecked
  <2>5. QED
    BY <2>2, <2>3, <2>4 DEF EvidenceInv
<1>3. QED
  BY <1>1, <1>2 DEF EvidenceNext

LEMMA EvidenceInvHolds == EvidenceSpec => []EvidenceInv
  BY EvidenceInvInit, EvidenceInvStep, PTL DEF EvidenceSpec

\* DiscoveryEvidence: every variable has its type.
THEOREM EvidenceTypeCorrect == EvidenceSpec => []EvidenceTypeOK
<1>1. EvidenceInv => EvidenceTypeOK
  <2>1. SUFFICES ASSUME EvidenceInv PROVE EvidenceTypeOK
    OBVIOUS
  <2>2. \A i \in DOMAIN insights : insights[i] \in InsightRows
    BY <2>1, TableTypes DEF EvidenceInv
  <2>3. QED
    BY <2>1, <2>2 DEF EvidenceInv, TablesAreTyped, EvidenceTypeOK, InsightRows
<1>2. QED
  BY <1>1, EvidenceInvHolds, PTL

\* DiscoveryEvidence: an Insight loses all its Evidence only to a removal that was
\* checked before the Insight was linked (insights.service.ts:98, before the remove
\* of line 101 and its cascade); whatever is linked or cited exists.
THEOREM UnracedInsightsKeepEvidenceHolds ==
  EvidenceSpec => []UnracedInsightsKeepEvidence
<1>1. EvidenceInv => UnracedInsightsKeepEvidence
  BY DEF EvidenceInv
<1>2. QED
  BY <1>1, EvidenceInvHolds, PTL

-----------------------------------------------------------------------------
(* DeliveryHandoff.                                                        *)

Versions == 1..MaxSaves
PackageRows == [version : Versions, items : Items]
Setups == [id : 0..MaxSaves, version : Versions, branch : Branches]
Contents == [version : Versions, items : Items, sent : BOOLEAN]
Commits == [handoff : Nat, position : Nat]
Payloads == [version : Versions, setup : Setups, content : Contents \cup {None}]
HandoffRows == [version : Versions, target : Setups, setup : 0..MaxSaves,
                content : Contents, state : States,
                expected : Commits \cup {None}, commit : Commits \cup {None}]
RemoteCommits == [handoff : Nat, version : Nat, content : Contents \cup {None}]

Executing == {"execute", "lookup", "prepare", "push", "pushing", "verify", "record"}
Outcomes == {"SENT", "FAILED", "CONFLICT"}
DeliveryTasks ==
  [stage : {"idle", "preview", "artifact", "insert"} \cup Executing,
   preview : Payloads \cup {None}, handoff : Nat, row : HandoffRows \cup {None},
   parent : Nat, outcome : Outcomes \cup {None}]

\* What a handoff was confirmed with, which nobody changes afterwards.
SameHandoff(row, other) ==
  /\ row.version = other.version
  /\ row.target = other.target
  /\ row.content = other.content

\* A preview that is being made, shown, and confirmed: the package is read twice, so
\* that the artifact may be newer than the version, until both are compared.
Begun(preview) == preview \in Payloads /\ preview.version <= PackageVersion
Shown(preview) ==
  /\ preview \in Payloads /\ preview.content \in Contents
  /\ preview.version <= preview.content.version
  /\ preview.content.version <= PackageVersion
Agreed(preview) ==
  /\ preview \in Payloads /\ preview.content \in Contents
  /\ preview.content.version = preview.version

\* A command that executes a handoff carries a copy of it, as it was read or
\* inserted, and the commit that it has prepared; what it is about to record as
\* sent is on the branch.
Executes(task) ==
  /\ task.row \in HandoffRows
  /\ task.handoff \in DOMAIN handoffs
  /\ SameHandoff(task.row, handoffs[task.handoff])
  /\ task.row.expected # None => task.row.expected.handoff = task.handoff
  /\ task.stage \in {"push", "pushing", "verify"} =>
       /\ task.row.state = "PUSHING"
       /\ task.row.expected = Commit(task.handoff, task.parent + 1)
  /\ task.stage = "record" =>
       /\ task.outcome \in Outcomes
       /\ task.outcome = "SENT" =>
            Holds(remote[task.row.target.branch], task.row.expected)

GoodTasks ==
  {task \in DeliveryTasks :
     /\ task.handoff <= Len(handoffs)
     /\ task.stage = "preview" => Begun(task.preview)
     /\ task.stage \in {"artifact", "insert"} => Agreed(task.preview)
     /\ task.stage \in Executing => Executes(task)}
GoodPreviews == {preview \in Payloads : Shown(preview)}
GoodPages == [preview : GoodPreviews \cup {None}, task : GoodTasks]

\* Every handoff has the artifact of its version; one that was sent is on its branch.
HandoffsAreKept ==
  \A h \in DOMAIN handoffs :
    /\ handoffs[h].content.version = handoffs[h].version
    /\ handoffs[h].expected # None => handoffs[h].expected.handoff = h
    /\ handoffs[h].state = "SENT" =>
         /\ Holds(remote[handoffs[h].target.branch], handoffs[h].commit)
         /\ handoffs[h].commit.handoff = h

\* A commit of a handoff holds what the handoff was confirmed with.
CommitsAreHandoffs ==
  \A branch \in Branches : \A n \in DOMAIN remote[branch] :
    remote[branch][n].handoff # 0 =>
      /\ remote[branch][n].handoff \in DOMAIN handoffs
      /\ remote[branch][n].content = handoffs[remote[branch][n].handoff].content

TablesAndBranches ==
  /\ package \in PackageRows \cup {None}
  /\ setup \in Setups
  /\ handoffs \in Seq(HandoffRows)
  /\ remote \in [Branches -> Seq(RemoteCommits)]
  /\ \A branch \in Branches : Len(remote[branch]) <= MaxCommits

DeliveryInv ==
  /\ TablesAndBranches
  /\ owners \in [PackageOwners -> GoodPages]
  /\ HandoffsAreKept
  /\ CommitsAreHandoffs

LEMMA DeliveryTypes ==
  ASSUME DeliveryInv
  PROVE  /\ handoffs \in Seq(HandoffRows)
         /\ DOMAIN handoffs = 1..Len(handoffs) /\ Len(handoffs) \in Nat
         /\ \A h \in DOMAIN handoffs : handoffs[h] \in HandoffRows
         /\ \A branch \in Branches :
              /\ remote[branch] \in Seq(RemoteCommits)
              /\ DOMAIN remote[branch] = 1..Len(remote[branch])
              /\ Len(remote[branch]) \in Nat
         /\ PackageVersion \in 0..MaxSaves
         /\ package # None => package \in PackageRows /\ PackageVersion = package.version
<1>1. /\ handoffs \in Seq(HandoffRows)
      /\ remote \in [Branches -> Seq(RemoteCommits)]
      /\ package \in PackageRows \cup {None}
  BY DEF DeliveryInv, TablesAndBranches
<1>2. DOMAIN handoffs = 1..Len(handoffs) /\ Len(handoffs) \in Nat
  BY <1>1, LenProperties
<1>3. \A h \in DOMAIN handoffs : handoffs[h] \in HandoffRows
  BY <1>1, <1>2, ElementOfSeq
<1>4. \A branch \in Branches :
        /\ remote[branch] \in Seq(RemoteCommits)
        /\ DOMAIN remote[branch] = 1..Len(remote[branch])
        /\ Len(remote[branch]) \in Nat
  BY <1>1, LenProperties
<1>5. package # None => package \in PackageRows /\ PackageVersion = package.version
  BY <1>1 DEF PackageVersion
<1>6. PackageVersion \in 0..MaxSaves
  BY <1>5, DeliveryAssumption DEF PackageVersion, PackageRows, Versions
<1>7. QED
  BY <1>1, <1>2, <1>3, <1>4, <1>5, <1>6

\* The package gets newer, handoffs keep what they were confirmed with, and nothing
\* is taken from a branch.
DeliveryGrows ==
  /\ PackageVersion' \in Nat /\ PackageVersion <= PackageVersion'
  /\ Len(handoffs') \in Nat /\ Len(handoffs) <= Len(handoffs')
  /\ DOMAIN handoffs \subseteq DOMAIN handoffs'
  /\ \A h \in DOMAIN handoffs : SameHandoff(handoffs'[h], handoffs[h])
  /\ \A branch \in Branches :
       /\ DOMAIN remote[branch] \subseteq DOMAIN remote'[branch]
       /\ \A n \in DOMAIN remote[branch] : remote'[branch][n] = remote[branch][n]

LEMMA HoldsForever ==
  ASSUME DeliveryGrows, NEW branch \in Branches, NEW commit,
         Holds(remote[branch], commit)
  PROVE  Holds(remote'[branch], commit)
  BY DEF DeliveryGrows, Holds

\* What a page holds stays good.
LEMMA PagesStayGood ==
  ASSUME DeliveryInv, DeliveryGrows
  PROVE  GoodTasks \subseteq GoodTasks' /\ GoodPreviews \subseteq GoodPreviews'
<1>1. GoodPreviews \subseteq GoodPreviews'
  BY DeliveryTypes DEF GoodPreviews, Shown, DeliveryGrows, Contents, Payloads, Versions
<1>2. ASSUME NEW task \in GoodTasks PROVE task \in GoodTasks'
  <2>1. /\ task \in DeliveryTasks /\ task.handoff <= Len(handoffs)
        /\ task.handoff \in Nat
    BY <1>2 DEF GoodTasks, DeliveryTasks
  <2>2. task.handoff <= Len(handoffs')
    BY <2>1, DeliveryTypes DEF DeliveryGrows
  <2>3. task.stage = "preview" => Begun(task.preview)'
    BY <1>2, DeliveryTypes DEF GoodTasks, Begun, DeliveryGrows, Payloads, Versions
  <2>4. task.stage \in {"artifact", "insert"} => Agreed(task.preview)'
    BY <1>2 DEF GoodTasks, Agreed
  <2>5. ASSUME task.stage \in Executing PROVE Executes(task)'
    <3>1. Executes(task)
      BY <1>2, <2>5 DEF GoodTasks
    <3>2. /\ task.row \in HandoffRows /\ task.handoff \in DOMAIN handoffs
          /\ task.row.target.branch \in Branches
      BY <3>1 DEF Executes, HandoffRows, Setups
    <3>3. task.handoff \in DOMAIN handoffs' /\ SameHandoff(task.row, handoffs'[task.handoff])
      BY <3>1, <3>2 DEF Executes, SameHandoff, DeliveryGrows
    <3>4. Holds(remote[task.row.target.branch], task.row.expected) =>
            Holds(remote'[task.row.target.branch], task.row.expected)
      BY <3>2, HoldsForever
    <3>5. QED
      BY <3>1, <3>2, <3>3, <3>4 DEF Executes
  <2>6. QED
    BY <2>1, <2>2, <2>3, <2>4, <2>5 DEF GoodTasks
<1>3. QED
  BY <1>1, <1>2

LEMMA PageTypes ==
  ASSUME DeliveryInv, NEW o \in PackageOwners
  PROVE  /\ owners \in [PackageOwners -> GoodPages]
         /\ owners[o] \in [preview : GoodPreviews \cup {None}, task : GoodTasks]
         /\ Task(o) = owners[o].task
         /\ Task(o) \in GoodTasks
         /\ Task(o) \in [stage : {"idle", "preview", "artifact", "insert"} \cup Executing,
                         preview : Payloads \cup {None}, handoff : Nat,
                         row : HandoffRows \cup {None}, parent : Nat,
                         outcome : Outcomes \cup {None}]
  BY DEF DeliveryInv, GoodPages, Task, GoodTasks, DeliveryTasks

LEMMA PageMoves ==
  ASSUME DeliveryInv, DeliveryGrows, NEW o \in PackageOwners,
         NEW preview \in GoodPreviews' \cup {None}, NEW task \in GoodTasks',
         owners' = [owners EXCEPT ![o] = [preview |-> preview, task |-> task]]
  PROVE  owners' \in [PackageOwners -> GoodPages']
<1>1. GoodPages \subseteq GoodPages'
  BY PagesStayGood DEF GoodPages
<1>2. [preview |-> preview, task |-> task] \in GoodPages'
  BY DEF GoodPages
<1>3. QED
  BY <1>1, <1>2 DEF DeliveryInv

LEMMA TaskMoves ==
  ASSUME DeliveryInv, DeliveryGrows, NEW o \in PackageOwners,
         NEW task \in GoodTasks', Goes(o, task)
  PROVE  owners' \in [PackageOwners -> GoodPages']
<1>1. owners[o].preview \in GoodPreviews' \cup {None}
  BY PageTypes, PagesStayGood
<1>2. owners' = [owners EXCEPT ![o] = [preview |-> owners[o].preview, task |-> task]]
  <2>1. [owners[o] EXCEPT !.task = task] = [preview |-> owners[o].preview, task |-> task]
    BY PageTypes
  <2>2. owners' = [owners EXCEPT ![o] = [owners[o] EXCEPT !.task = task]]
    BY DEF Goes
  <2>3. QED
    BY <2>1, <2>2
<1>3. QED
  BY <1>1, <1>2, PageMoves

LEMMA OwnersKept ==
  ASSUME DeliveryInv, DeliveryGrows, UNCHANGED owners
  PROVE  owners' \in [PackageOwners -> GoodPages']
<1>1. GoodPages \subseteq GoodPages'
  BY PagesStayGood DEF GoodPages
<1>2. QED
  BY <1>1 DEF DeliveryInv

LEMMA IdleIsGood ==
  ASSUME DeliveryInv
  PROVE  Idle \in GoodTasks
<1>1. Idle \in DeliveryTasks
  BY DEF Idle, DeliveryTasks
<1>2. Idle.stage = "idle" /\ Idle.handoff = 0
  BY DEF Idle
<1>3. QED
  BY <1>1, <1>2, DeliveryTypes DEF GoodTasks, Executing

\* Steps that change no table and no branch.
Quiet == UNCHANGED <<package, setup, handoffs, remote>>

LEMMA QuietKeeps ==
  ASSUME DeliveryInv, Quiet
  PROVE  /\ DeliveryGrows
         /\ GoodTasks' = GoodTasks /\ GoodPreviews' = GoodPreviews
<1>1. DeliveryGrows
  BY DeliveryTypes DEF Quiet, DeliveryGrows, PackageVersion, SameHandoff
<1>2. GoodTasks' = GoodTasks
  BY DEF Quiet, GoodTasks, Begun, Agreed, Executes, PackageVersion, Holds, SameHandoff
<1>3. GoodPreviews' = GoodPreviews
  BY DEF Quiet, GoodPreviews, Shown, PackageVersion
<1>4. QED
  BY <1>1, <1>2, <1>3

LEMMA QuietStep ==
  ASSUME DeliveryInv, Quiet, owners' \in [PackageOwners -> GoodPages']
  PROVE  DeliveryInv'
  BY DEF DeliveryInv, Quiet, TablesAndBranches, HandoffsAreKept, CommitsAreHandoffs, Holds

LEMMA QuietTask ==
  ASSUME DeliveryInv, Quiet, NEW o \in PackageOwners, NEW task \in GoodTasks, Goes(o, task)
  PROVE  DeliveryInv'
  BY QuietKeeps, TaskMoves, QuietStep

-----------------------------------------------------------------------------
(* Preview and confirmation.                                               *)

LEMMA PreviewStep ==
  ASSUME DeliveryInv, NEW o \in PackageOwners, StartPreview(o) \/ FinishPreview(o)
  PROVE  DeliveryInv'
<1>1. CASE StartPreview(o)
  <2> DEFINE payload == Payload(package.version, setup, None)
             task == [Idle EXCEPT !.stage = "preview", !.preview = payload]
  <2>1. Goes(o, task) /\ Quiet /\ package # None
    BY <1>1 DEF StartPreview, Quiet
  <2>2. payload \in Payloads /\ payload.version <= PackageVersion
    <3>1. setup \in Setups
      BY DEF DeliveryInv, TablesAndBranches
    <3>2. package.version \in Versions /\ PackageVersion = package.version
      BY <2>1, DeliveryTypes DEF PackageRows
    <3>3. payload \in Payloads
      BY <3>1, <3>2 DEF Payload, Payloads
    <3>4. payload.version = PackageVersion
      BY <3>2 DEF Payload
    <3>5. QED
      BY <3>2, <3>3, <3>4 DEF Versions
  <2> HIDE DEF payload
  <2>3. /\ task \in DeliveryTasks /\ task.stage = "preview"
        /\ task.preview = payload /\ task.handoff = 0
    BY <2>2 DEF Idle, DeliveryTasks
  <2> HIDE DEF task
  <2>4. task \in GoodTasks
    BY <2>2, <2>3, DeliveryTypes DEF GoodTasks, Begun, Executing
  <2>5. QED
    BY <2>1, <2>4, QuietTask
<1>2. CASE FinishPreview(o)
  <2> DEFINE preview == [Task(o).preview EXCEPT !.content = Artifact]
  <2>1. /\ Quiet /\ Task(o).stage = "preview"
        /\ owners' = [owners EXCEPT ![o].task = Idle, ![o].preview = preview]
    BY <1>2 DEF FinishPreview, Quiet
  <2>2. Task(o).preview \in Payloads /\ Task(o).preview.version <= PackageVersion
    BY <2>1, PageTypes DEF GoodTasks, Begun
  <2>3. Artifact \in Contents /\ Artifact.version = PackageVersion
    <3>1. package # None
      BY <2>2 DEF PackageVersion, Payloads, Versions
    <3>2. QED
      BY <3>1, DeliveryTypes DEF Artifact, Contents, PackageRows
  <2>4. /\ preview \in Payloads /\ preview.content = Artifact
        /\ preview.version = Task(o).preview.version
    BY <2>2, <2>3 DEF Payloads
  <2> HIDE DEF preview
  <2>5. preview \in GoodPreviews
    BY <2>2, <2>3, <2>4, DeliveryTypes DEF GoodPreviews, Shown
  <2>6. owners' = [owners EXCEPT ![o] = [preview |-> preview, task |-> Idle]]
    <3>1. [[owners[o] EXCEPT !.task = Idle] EXCEPT !.preview = preview] =
            [preview |-> preview, task |-> Idle]
      <4>1. [owners[o] EXCEPT !.task = Idle] = [preview |-> owners[o].preview, task |-> Idle]
        BY PageTypes
      <4>2. [[preview |-> owners[o].preview, task |-> Idle] EXCEPT !.preview = preview] =
              [preview |-> preview, task |-> Idle]
        OBVIOUS
      <4>3. QED
        BY <4>1, <4>2
    <3>2. owners' = [owners EXCEPT
                       ![o] = [[owners[o] EXCEPT !.task = Idle] EXCEPT !.preview = preview]]
      BY <2>1, PageTypes
    <3>3. QED
      BY <3>1, <3>2
  <2>7. QED
    BY <2>1, <2>5, <2>6, IdleIsGood, QuietKeeps, PageMoves, QuietStep
<1>3. QED
  BY <1>1, <1>2

\* confirm: the version shown is the package's, so it is the artifact's.
LEMMA ConfirmStep ==
  ASSUME DeliveryInv, NEW o \in PackageOwners, Confirm(o)
  PROVE  DeliveryInv'
<1> DEFINE preview == owners[o].preview
<1>1. /\ Quiet /\ preview # None
      /\ Task(o) = Idle
      /\ package.version = preview.version
  BY DEF Confirm, Quiet
<1>2. preview \in GoodPreviews
  BY <1>1, PageTypes
<1>3. Shown(preview) /\ preview \in Payloads
  BY <1>2 DEF GoodPreviews
<1>4. CASE owners' = [owners EXCEPT ![o].preview = None]
  <2>1. owners' = [owners EXCEPT ![o] = [preview |-> None, task |-> Task(o)]]
    <3>1. [owners[o] EXCEPT !.preview = None] = [preview |-> None, task |-> Task(o)]
      BY PageTypes
    <3>2. owners' = [owners EXCEPT ![o] = [owners[o] EXCEPT !.preview = None]]
      BY <1>4
    <3>3. QED
      BY <3>1, <3>2
  <2>2. QED
    BY <1>1, <2>1, PageTypes, QuietKeeps, PageMoves, QuietStep
<1>5. CASE owners' = [owners EXCEPT ![o].task = [Idle EXCEPT !.stage = "artifact",
                                                             !.preview = preview]]
  <2> DEFINE task == [Idle EXCEPT !.stage = "artifact", !.preview = preview]
  <2>1. Agreed(preview)
    <3>1. preview.version \in Versions /\ preview.content.version \in Versions
      BY <1>3 DEF Shown, Payloads, Contents
    <3>2. PackageVersion = preview.version
      BY <1>1, <1>3, <3>1, DeliveryTypes DEF Shown, PackageVersion, Versions
    <3>3. QED
      BY <1>3, <3>1, <3>2 DEF Shown, Agreed, Versions
  <2>2. /\ task \in DeliveryTasks /\ task.stage = "artifact"
        /\ task.preview = preview /\ task.handoff = 0
    BY <1>3 DEF Idle, DeliveryTasks
  <2>3. Goes(o, task)
    BY <1>5 DEF Goes
  <2> HIDE DEF task
  <2>4. task \in GoodTasks
    BY <2>1, <2>2, DeliveryTypes DEF GoodTasks, Executing
  <2>5. QED
    BY <1>1, <2>3, <2>4, QuietTask
<1>6. QED
  BY <1>4, <1>5 DEF Confirm

LEMMA ReadArtifactStep ==
  ASSUME DeliveryInv, NEW o \in PackageOwners, ReadArtifact(o)
  PROVE  DeliveryInv'
<1> DEFINE task == [Task(o) EXCEPT !.stage = "insert", !.preview.content = Artifact]
<1>1. Quiet /\ Task(o).stage = "artifact"
  BY DEF ReadArtifact, Quiet
<1>2. Agreed(Task(o).preview) /\ Task(o) \in DeliveryTasks
  BY <1>1, PageTypes DEF GoodTasks
<1>3. CASE Goes(o, task) /\ Artifact = Task(o).preview.content
  <2>1. Task(o).preview = [Task(o).preview EXCEPT !.content = Artifact]
    BY <1>2, <1>3 DEF Agreed, Payloads
  <2>2. task = [Task(o) EXCEPT !.stage = "insert"]
    BY <2>1, PageTypes
  <2>3. /\ task \in DeliveryTasks /\ task.stage = "insert"
        /\ task.preview = Task(o).preview /\ task.handoff = Task(o).handoff
    BY <1>2, <2>2 DEF DeliveryTasks
  <2> HIDE DEF task
  <2>4. task \in GoodTasks
    BY <1>2, <2>3, PageTypes DEF GoodTasks, Executing
  <2>5. QED
    BY <1>1, <1>3, <2>4, QuietTask
<1>4. CASE Ends(o)
  BY <1>1, <1>4, IdleIsGood, QuietTask DEF Ends
<1>5. QED
  BY <1>3, <1>4 DEF ReadArtifact

-----------------------------------------------------------------------------
(* The package, the setup, the process and others.                         *)

LEMMA HandoffsStay ==
  ASSUME DeliveryInv, DeliveryGrows, UNCHANGED handoffs
  PROVE  HandoffsAreKept'
<1>1. ASSUME NEW h \in DOMAIN handoffs, handoffs[h].state = "SENT"
      PROVE  Holds(remote'[handoffs[h].target.branch], handoffs[h].commit)
  <2>1. handoffs[h].target.branch \in Branches
    BY DeliveryTypes DEF HandoffRows, Setups
  <2>2. Holds(remote[handoffs[h].target.branch], handoffs[h].commit)
    BY <1>1 DEF DeliveryInv, HandoffsAreKept
  <2>3. QED
    BY <2>1, <2>2, HoldsForever
<1>2. QED
  BY <1>1 DEF DeliveryInv, HandoffsAreKept

LEMMA CommitsStay ==
  ASSUME DeliveryInv, DeliveryGrows, UNCHANGED remote
  PROVE  CommitsAreHandoffs'
  BY DEF DeliveryInv, CommitsAreHandoffs, DeliveryGrows, SameHandoff

LEMMA DeliveryInvFrom ==
  ASSUME TablesAndBranches', owners' \in [PackageOwners -> GoodPages'],
         HandoffsAreKept', CommitsAreHandoffs'
  PROVE  DeliveryInv'
  BY DEF DeliveryInv

LEMMA SavePackageStep ==
  ASSUME DeliveryInv, NEW o \in PackageOwners, NEW items \in Items,
         NEW answered \in BOOLEAN, SavePackage(o, items, answered)
  PROVE  DeliveryInv'
<1> DEFINE row == [version |-> PackageVersion + 1, items |-> items]
<1>1. /\ package' = row /\ PackageVersion + setup.version < MaxSaves
      /\ owners' \in {owners, [owners EXCEPT ![o].preview = None]}
      /\ UNCHANGED <<setup, handoffs, remote>>
  BY DEF SavePackage, MaySave
<1>2. setup.version \in Versions
  BY DEF DeliveryInv, TablesAndBranches, Setups
<1>3. PackageVersion + 1 \in Versions /\ PackageVersion \in Nat
  BY <1>1, <1>2, DeliveryTypes, DeliveryAssumption DEF Versions
<1>4. row \in PackageRows /\ row # None /\ row.version = PackageVersion + 1
  <2>1. row \in [version : Nat, items : Items]
    BY <1>3
  <2>2. QED
    BY <1>3, <2>1, DeliveryAssumption DEF PackageRows
<1> HIDE DEF row
<1>5. DeliveryGrows
  BY <1>1, <1>3, <1>4, DeliveryTypes DEF DeliveryGrows, PackageVersion, SameHandoff
<1>6. owners' \in [PackageOwners -> GoodPages']
  <2>1. CASE UNCHANGED owners
    BY <1>5, <2>1, OwnersKept
  <2>2. CASE owners' = [owners EXCEPT ![o].preview = None]
    <3>1. [owners[o] EXCEPT !.preview = None] = [preview |-> None, task |-> Task(o)]
      BY PageTypes
    <3>2. owners' = [owners EXCEPT ![o] = [owners[o] EXCEPT !.preview = None]]
      BY <2>2
    <3>3. Task(o) \in GoodTasks'
      BY <1>5, PageTypes, PagesStayGood
    <3>4. QED
      BY <1>5, <3>1, <3>2, <3>3, PageMoves
  <2>3. QED
    BY <1>1, <2>1, <2>2
<1>7. TablesAndBranches'
  BY <1>1, <1>4 DEF DeliveryInv, TablesAndBranches
<1>8. QED
  BY <1>1, <1>5, <1>6, <1>7, HandoffsStay, CommitsStay, DeliveryInvFrom

LEMMA SetupStep ==
  ASSUME DeliveryInv, NEW branch \in Branches, CreateSetup(branch) \/ UpdateSetup(branch)
  PROVE  DeliveryInv'
<1>1. setup \in [id : 0..MaxSaves, version : Versions, branch : Branches]
  BY DEF DeliveryInv, TablesAndBranches, Setups
<1> DEFINE version == setup.version + 1
<1>2. version \in Versions
  BY <1>1, DeliveryTypes, DeliveryAssumption
  DEF CreateSetup, UpdateSetup, MaySave, Versions
<1> HIDE DEF version
<1>3. /\ setup' \in {[id |-> version, version |-> version, branch |-> branch],
                    [setup EXCEPT !.version = version, !.branch = branch]}
      /\ UNCHANGED <<package, handoffs, remote, owners>>
  BY <1>1 DEF CreateSetup, UpdateSetup, version
<1>4. setup' \in Setups
  <2>1. version \in 0..MaxSaves
    BY <1>2 DEF Versions
  <2>2. [id |-> version, version |-> version, branch |-> branch] \in Setups
    BY <1>2, <2>1 DEF Setups
  <2>3. [setup EXCEPT !.version = version, !.branch = branch] \in Setups
    BY <1>1, <1>2 DEF Setups
  <2>4. QED
    BY <1>3, <2>2, <2>3
<1>5. DeliveryGrows
  BY <1>3, DeliveryTypes DEF DeliveryGrows, PackageVersion, SameHandoff
<1>6. TablesAndBranches'
  BY <1>3, <1>4 DEF DeliveryInv, TablesAndBranches
<1>7. QED
  BY <1>3, <1>5, <1>6, OwnersKept, HandoffsStay, CommitsStay, DeliveryInvFrom

LEMMA RemoveSetupStep ==
  ASSUME DeliveryInv, RemoveSetup
  PROVE  DeliveryInv'
<1>1. /\ setup' = [setup EXCEPT !.id = 0]
      /\ handoffs' = [h \in DOMAIN handoffs |-> [handoffs[h] EXCEPT !.setup = 0]]
      /\ UNCHANGED <<package, remote, owners>>
  BY DEF RemoveSetup
<1>2. setup' \in Setups
  <2>1. setup \in [id : 0..MaxSaves, version : Versions, branch : Branches]
    BY DEF DeliveryInv, TablesAndBranches, Setups
  <2>2. 0 \in 0..MaxSaves
    BY DeliveryAssumption
  <2>3. QED
    BY <1>1, <2>1, <2>2 DEF Setups
<1>3. \A h \in DOMAIN handoffs :
        /\ handoffs'[h] \in HandoffRows
        /\ SameHandoff(handoffs'[h], handoffs[h])
        /\ handoffs'[h].state = handoffs[h].state
        /\ handoffs'[h].expected = handoffs[h].expected
        /\ handoffs'[h].commit = handoffs[h].commit
  <2>1. SUFFICES ASSUME NEW h \in DOMAIN handoffs
                 PROVE  /\ handoffs'[h] \in HandoffRows
                        /\ SameHandoff(handoffs'[h], handoffs[h])
                        /\ handoffs'[h].state = handoffs[h].state
                        /\ handoffs'[h].expected = handoffs[h].expected
                        /\ handoffs'[h].commit = handoffs[h].commit
    OBVIOUS
  <2>2. handoffs[h] \in HandoffRows /\ handoffs'[h] = [handoffs[h] EXCEPT !.setup = 0]
    BY <1>1, DeliveryTypes
  <2>3. 0 \in 0..MaxSaves
    BY DeliveryAssumption
  <2>4. QED
    BY <2>2, <2>3 DEF HandoffRows, SameHandoff
<1>4. /\ DOMAIN handoffs' = DOMAIN handoffs
      /\ handoffs' \in Seq(HandoffRows) /\ Len(handoffs') = Len(handoffs)
  <2>1. DOMAIN handoffs' = 1..Len(handoffs)
    BY <1>1, DeliveryTypes
  <2>2. handoffs' \in [1..Len(handoffs) -> HandoffRows]
    BY <1>1, <1>3, DeliveryTypes
  <2>3. handoffs' \in Seq(HandoffRows)
    BY <2>2, DeliveryTypes, IsASeq
  <2>4. QED
    BY <2>1, <2>3, DeliveryTypes, LenProperties
<1>5. DeliveryGrows
  BY <1>1, <1>3, <1>4, DeliveryTypes DEF DeliveryGrows, PackageVersion
<1>6. HandoffsAreKept'
  BY <1>1, <1>3, <1>4 DEF DeliveryInv, HandoffsAreKept, SameHandoff
<1>7. TablesAndBranches'
  BY <1>1, <1>2, <1>4 DEF DeliveryInv, TablesAndBranches
<1>8. QED
  BY <1>1, <1>5, <1>6, <1>7, OwnersKept, CommitsStay, DeliveryInvFrom

LEMMA CrashStep ==
  ASSUME DeliveryInv, Crash
  PROVE  DeliveryInv'
<1>1. Quiet /\ owners' = [o \in PackageOwners |-> [owners[o] EXCEPT !.task = Idle]]
  BY DEF Crash, Quiet
<1>2. ASSUME NEW o \in PackageOwners
      PROVE  [owners[o] EXCEPT !.task = Idle] \in GoodPages
  <2>1. [owners[o] EXCEPT !.task = Idle] = [preview |-> owners[o].preview, task |-> Idle]
    BY PageTypes
  <2>2. QED
    BY <2>1, PageTypes, IdleIsGood DEF GoodPages
<1>3. GoodPages' = GoodPages
  BY <1>1, QuietKeeps DEF GoodPages
<1>4. owners' \in [PackageOwners -> GoodPages']
  BY <1>1, <1>2, <1>3
<1>5. QED
  BY <1>1, <1>4, QuietStep

\* A branch gets one commit more, that of a handoff with its content or of somebody
\* else.
LEMMA BranchGrows ==
  ASSUME DeliveryInv, NEW branch \in Branches, NEW commit \in RemoteCommits,
         remote' = [remote EXCEPT ![branch] = Append(remote[branch], commit)],
         Len(remote[branch]) < MaxCommits,
         commit.handoff # 0 => /\ commit.handoff \in DOMAIN handoffs
                               /\ commit.content = handoffs[commit.handoff].content,
         UNCHANGED <<package, setup, handoffs>>
  PROVE  /\ DeliveryGrows /\ TablesAndBranches' /\ HandoffsAreKept' /\ CommitsAreHandoffs'
         /\ remote'[branch] = Append(remote[branch], commit)
         /\ Len(remote[branch]) + 1 \in DOMAIN remote'[branch]
         /\ remote'[branch][Len(remote[branch]) + 1] = commit
<1>1. \A b \in Branches : remote[b] \in Seq(RemoteCommits)
  BY DeliveryTypes
<1>2. remote'[branch] = Append(remote[branch], commit)
      /\ \A b \in Branches \ {branch} : remote'[b] = remote[b]
  BY DEF DeliveryInv, TablesAndBranches
<1>3. /\ remote'[branch] \in Seq(RemoteCommits)
      /\ Len(remote'[branch]) = Len(remote[branch]) + 1
      /\ DOMAIN remote'[branch] = DOMAIN remote[branch] \cup {Len(remote[branch]) + 1}
      /\ \A n \in DOMAIN remote[branch] : remote'[branch][n] = remote[branch][n]
      /\ remote'[branch][Len(remote[branch]) + 1] = commit
  BY <1>1, <1>2, SequenceAppended
<1>4. DeliveryGrows
  BY <1>2, <1>3, DeliveryTypes DEF DeliveryGrows, PackageVersion, SameHandoff
<1>5. TablesAndBranches'
  <2>1. remote' \in [Branches -> Seq(RemoteCommits)]
    BY <1>1, <1>2, <1>3 DEF DeliveryInv, TablesAndBranches
  <2>2. \A b \in Branches : Len(remote'[b]) <= MaxCommits
    BY <1>2, <1>3, DeliveryTypes, DeliveryAssumption DEF DeliveryInv, TablesAndBranches
  <2>3. QED
    BY <2>1, <2>2 DEF DeliveryInv, TablesAndBranches
<1>6. CommitsAreHandoffs'
  <2>1. ASSUME NEW b \in Branches, NEW n \in DOMAIN remote'[b],
               remote'[b][n].handoff # 0
        PROVE  /\ remote'[b][n].handoff \in DOMAIN handoffs
               /\ remote'[b][n].content = handoffs[remote'[b][n].handoff].content
    <3>1. CASE b = branch /\ n = Len(remote[branch]) + 1
      BY <1>3, <2>1, <3>1
    <3>2. CASE ~(b = branch /\ n = Len(remote[branch]) + 1)
      <4>1. n \in DOMAIN remote[b] /\ remote'[b][n] = remote[b][n]
        BY <1>2, <1>3, <2>1, <3>2
      <4>2. QED
        BY <2>1, <4>1 DEF DeliveryInv, CommitsAreHandoffs
    <3>3. QED
      BY <3>1, <3>2
  <2>2. QED
    BY <2>1 DEF CommitsAreHandoffs
<1>7. QED
  BY <1>2, <1>3, <1>4, <1>5, <1>6, HandoffsStay

LEMMA ForeignCommitStep ==
  ASSUME DeliveryInv, NEW branch \in Branches, ForeignCommit(branch)
  PROVE  DeliveryInv'
<1> DEFINE commit == [handoff |-> 0, version |-> 0, content |-> None]
<1>1. /\ remote' = [remote EXCEPT ![branch] = Append(remote[branch], commit)]
      /\ Len(remote[branch]) < MaxCommits
      /\ UNCHANGED <<package, setup, handoffs, owners>>
  BY DEF ForeignCommit, DeliveryInv, TablesAndBranches
<1>2. commit \in RemoteCommits /\ commit.handoff = 0
  BY DEF RemoteCommits
<1> HIDE DEF commit
<1>3. DeliveryGrows /\ TablesAndBranches' /\ HandoffsAreKept' /\ CommitsAreHandoffs'
  BY <1>1, <1>2, BranchGrows
<1>4. QED
  BY <1>1, <1>3, OwnersKept, DeliveryInvFrom

-----------------------------------------------------------------------------
(* execute.                                                                *)

\* When the next state is as good for a command that executes a handoff.
LEMMA GoodNext ==
  ASSUME NEW task \in DeliveryTasks, task.stage \in Executing,
         task.handoff <= Len(handoffs'),
         task.row \in HandoffRows, task.handoff \in DOMAIN handoffs',
         SameHandoff(task.row, handoffs'[task.handoff]),
         task.row.expected # None => task.row.expected.handoff = task.handoff,
         task.stage \in {"push", "pushing", "verify"} =>
           /\ task.row.state = "PUSHING"
           /\ task.row.expected = Commit(task.handoff, task.parent + 1),
         task.stage = "record" => task.outcome \in Outcomes,
         task.stage = "record" /\ task.outcome = "SENT" =>
           Holds(remote'[task.row.target.branch], task.row.expected)
  PROVE  task \in GoodTasks'
  BY DEF GoodTasks, Executes, Executing

LEMMA InsertHandoffStep ==
  ASSUME DeliveryInv, NEW o \in PackageOwners, InsertHandoff(o)
  PROVE  DeliveryInv'
<1> DEFINE row == NewHandoff(Task(o).preview)
           last == Len(handoffs) + 1
           task == [Idle EXCEPT !.stage = "execute", !.handoff = last, !.row = row]
<1>1. Task(o).stage = "insert" /\ UNCHANGED <<package, setup, remote>>
  BY DEF InsertHandoff
<1>2. CASE Ends(o) /\ UNCHANGED handoffs
  BY <1>1, <1>2, IdleIsGood, QuietTask DEF Ends, Quiet
<1>3. CASE handoffs' = Append(handoffs, row) /\ Goes(o, task)
  <2>1. Agreed(Task(o).preview)
    BY <1>1, PageTypes DEF GoodTasks
  <2>2. Task(o).preview.setup.id \in 0..MaxSaves
    BY <2>1 DEF Agreed, Payloads, Setups
  <2>3. /\ row \in HandoffRows
        /\ row.content.version = row.version
        /\ row.state = "PENDING" /\ row.expected = None
    BY <2>1, <2>2 DEF Agreed, Payloads, NewHandoff, HandoffRows, States
  <2> HIDE DEF row
  <2>4. /\ handoffs' \in Seq(HandoffRows) /\ Len(handoffs') = last
        /\ DOMAIN handoffs' = DOMAIN handoffs \cup {last}
        /\ \A h \in DOMAIN handoffs : handoffs'[h] = handoffs[h]
        /\ handoffs'[last] = row
    BY <1>3, <2>3, DeliveryTypes, SequenceAppended
  <2>5. DeliveryGrows
    BY <1>1, <2>4, DeliveryTypes DEF DeliveryGrows, PackageVersion, SameHandoff
  <2>6. TablesAndBranches'
    BY <1>1, <2>4 DEF DeliveryInv, TablesAndBranches
  <2>7. HandoffsAreKept'
    BY <1>1, <2>3, <2>4 DEF DeliveryInv, HandoffsAreKept, Holds
  <2>8. task \in GoodTasks'
    <3>1. last \in Nat /\ last \in DOMAIN handoffs' /\ last <= Len(handoffs')
      BY <2>4, DeliveryTypes
    <3>2. /\ task \in DeliveryTasks /\ task.stage = "execute"
          /\ task.handoff = last /\ task.row = row
      BY <2>3, <3>1 DEF Idle, DeliveryTasks, Executing
    <3> HIDE DEF task
    <3>3. SameHandoff(task.row, handoffs'[task.handoff])
      BY <2>4, <3>2 DEF SameHandoff
    <3>4. QED
      BY <2>3, <3>1, <3>2, <3>3, GoodNext DEF Executing
  <2>9. QED
    BY <1>1, <1>3, <2>5, <2>6, <2>7, <2>8, TaskMoves, CommitsStay, DeliveryInvFrom
<1>4. QED
  BY <1>2, <1>3 DEF InsertHandoff

\* retry: the handoff may have been read before others save it.
LEMMA RetryHandoffStep ==
  ASSUME DeliveryInv, NEW o \in PackageOwners, NEW h \in DOMAIN handoffs,
         RetryHandoff(o, h)
  PROVE  DeliveryInv'
<1> DEFINE row == handoffs[h]
           task == [Idle EXCEPT !.stage = "execute", !.handoff = h, !.row = row]
<1>1. Quiet /\ Goes(o, task)
  BY DEF RetryHandoff, Quiet
<1>2. /\ row \in HandoffRows /\ h \in Nat /\ h <= Len(handoffs)
      /\ row.expected # None => row.expected.handoff = h
  BY DeliveryTypes DEF DeliveryInv, HandoffsAreKept
<1>3. /\ task \in DeliveryTasks /\ task.stage = "execute"
      /\ task.handoff = h /\ task.row = row
  BY <1>2 DEF Idle, DeliveryTasks, Executing
<1> HIDE DEF task
<1>4. Executes(task)
  BY <1>2, <1>3 DEF Executes, SameHandoff
<1>5. task \in GoodTasks
  BY <1>2, <1>3, <1>4 DEF GoodTasks
<1>6. QED
  BY <1>1, <1>5, QuietTask

\* What a command that executes a handoff holds.
LEMMA ExecutingTask ==
  ASSUME DeliveryInv, NEW o \in PackageOwners, Task(o).stage \in Executing
  PROVE  /\ Executes(Task(o))
         /\ Task(o).row \in HandoffRows
         /\ Task(o).row.target.branch \in Branches
         /\ Task(o).handoff \in DOMAIN handoffs
         /\ Task(o).handoff \in Nat /\ Task(o).handoff <= Len(handoffs)
<1>1. Executes(Task(o)) /\ Task(o).handoff <= Len(handoffs)
  BY PageTypes DEF GoodTasks
<1>2. QED
  BY <1>1, PageTypes DEF Executes, HandoffRows, Setups

\* Such a command goes on with the row it has, or is about to record its outcome.
LEMMA StageMoves ==
  ASSUME DeliveryInv, NEW o \in PackageOwners, Task(o).stage \in Executing,
         NEW stage \in {"lookup", "prepare"}
  PROVE  [Task(o) EXCEPT !.stage = stage] \in GoodTasks
<1> DEFINE task == [Task(o) EXCEPT !.stage = stage]
<1>1. /\ task \in DeliveryTasks /\ task.stage = stage
      /\ task.row = Task(o).row /\ task.handoff = Task(o).handoff
  BY PageTypes DEF DeliveryTasks, Executing
<1> HIDE DEF task
<1>2. Executes(task)
  BY <1>1, ExecutingTask DEF Executes
<1>3. task \in GoodTasks
  BY <1>1, <1>2, ExecutingTask DEF GoodTasks, Executing
<1>4. QED
  BY <1>3 DEF task

LEMMA OutcomeIsGood ==
  ASSUME DeliveryInv, NEW o \in PackageOwners, Task(o).stage \in Executing,
         DeliveryGrows, NEW state \in Outcomes,
         state = "SENT" => Holds(remote'[Task(o).row.target.branch], Task(o).row.expected)
  PROVE  [Task(o) EXCEPT !.stage = "record", !.outcome = state] \in GoodTasks'
<1> DEFINE task == [Task(o) EXCEPT !.stage = "record", !.outcome = state]
<1>1. /\ task \in DeliveryTasks /\ task.stage = "record" /\ task.outcome = state
      /\ task.row = Task(o).row /\ task.handoff = Task(o).handoff
  BY PageTypes DEF DeliveryTasks, Executing
<1> HIDE DEF task
<1>2. /\ task.handoff \in DOMAIN handoffs' /\ task.handoff <= Len(handoffs')
      /\ SameHandoff(task.row, handoffs'[task.handoff])
  <2>1. SameHandoff(task.row, handoffs[task.handoff])
    BY <1>1, ExecutingTask DEF Executes
  <2>2. QED
    BY <1>1, <2>1, ExecutingTask, DeliveryTypes DEF DeliveryGrows, SameHandoff
<1>3. /\ task.row \in HandoffRows
      /\ task.row.expected # None => task.row.expected.handoff = task.handoff
  BY <1>1, ExecutingTask DEF Executes
<1>4. /\ task.outcome \in Outcomes /\ task.stage \in Executing
      /\ task.outcome = "SENT" =>
           Holds(remote'[task.row.target.branch], task.row.expected)
  BY <1>1 DEF Executing
<1>5. task \in GoodTasks'
  BY <1>1, <1>2, <1>3, <1>4, GoodNext
<1>6. QED
  BY <1>5 DEF task

LEMMA StartExecutionStep ==
  ASSUME DeliveryInv, NEW o \in PackageOwners, StartExecution(o)
  PROVE  DeliveryInv'
<1>1. Quiet /\ Task(o).stage \in Executing
  BY DEF StartExecution, Quiet, Executing
<1>2. CASE Outcome(o, "FAILED")
  BY <1>1, <1>2, OutcomeIsGood, QuietKeeps, QuietTask DEF Outcome, Outcomes
<1>3. ASSUME NEW stage \in {"lookup", "prepare"}, Goes(o, [Task(o) EXCEPT !.stage = stage])
      PROVE  DeliveryInv'
  BY <1>1, <1>3, StageMoves, QuietTask
<1>4. QED
  BY <1>2, <1>3 DEF StartExecution

\* The lookup proves that an earlier push was received.
LEMMA LookUpStep ==
  ASSUME DeliveryInv, NEW o \in PackageOwners, LookUp(o)
  PROVE  DeliveryInv'
<1>1. Quiet /\ Task(o).stage \in Executing
  BY DEF LookUp, Quiet, Executing
<1>2. CASE Pushed(o) /\ Outcome(o, "SENT")
  <2>1. Holds(remote'[Task(o).row.target.branch], Task(o).row.expected)
    BY <1>1, <1>2 DEF Quiet, Pushed, AtHead, Branch
  <2>2. [Task(o) EXCEPT !.stage = "record", !.outcome = "SENT"] \in GoodTasks'
    BY <1>1, <2>1, OutcomeIsGood, QuietKeeps DEF Outcomes
  <2>3. QED
    BY <1>1, <1>2, <2>2, QuietKeeps, QuietTask DEF Outcome
<1>3. CASE Goes(o, [Task(o) EXCEPT !.stage = "prepare"])
  BY <1>1, <1>3, StageMoves, QuietTask
<1>4. QED
  BY <1>2, <1>3 DEF LookUp

LEMMA VerifyStep ==
  ASSUME DeliveryInv, NEW o \in PackageOwners, Verify(o)
  PROVE  DeliveryInv'
<1>1. Quiet /\ Task(o).stage \in Executing
  BY DEF Verify, Quiet, Executing
<1>2. CASE Proven(o) /\ Outcome(o, "SENT")
  <2>1. Holds(remote'[Task(o).row.target.branch], Task(o).row.expected)
    BY <1>1, <1>2 DEF Quiet, Proven, Pushed, AtHead, Branch
  <2>2. [Task(o) EXCEPT !.stage = "record", !.outcome = "SENT"] \in GoodTasks'
    BY <1>1, <2>1, OutcomeIsGood, QuietKeeps DEF Outcomes
  <2>3. QED
    BY <1>1, <1>2, <2>2, QuietKeeps, QuietTask DEF Outcome
<1>3. CASE Outcome(o, "FAILED")
  BY <1>1, <1>3, OutcomeIsGood, QuietKeeps, QuietTask DEF Outcome, Outcomes
<1>4. QED
  BY <1>2, <1>3 DEF Verify

\* preparePush: the commit is the handoff's, on top of the branch as it is read.
LEMMA PreparePushStep ==
  ASSUME DeliveryInv, NEW o \in PackageOwners, PreparePush(o)
  PROVE  DeliveryInv'
<1> DEFINE parent == Len(Branch(o))
           commit == Commit(Task(o).handoff, parent + 1)
           row == [Task(o).row EXCEPT !.state = "PUSHING", !.expected = commit]
           task == [Task(o) EXCEPT !.stage = "push", !.parent = parent, !.row = row]
<1>1. Quiet /\ Task(o).stage \in Executing
  BY DEF PreparePush, Quiet, Executing
<1>2. CASE Outcome(o, "FAILED")
  BY <1>1, <1>2, OutcomeIsGood, QuietKeeps, QuietTask DEF Outcome, Outcomes
<1>3. CASE Goes(o, [Task(o) EXCEPT !.stage = "push", !.parent = parent,
                      !.row.state = "PUSHING", !.row.expected = commit])
  <2>1. Task(o).row \in HandoffRows /\ parent \in Nat
    BY <1>1, ExecutingTask, DeliveryTypes DEF Branch
  <2>2. commit \in Commits /\ commit.handoff = Task(o).handoff
    BY <1>1, <2>1, ExecutingTask DEF Commit, Commits
  <2>3. /\ row \in HandoffRows /\ SameHandoff(row, Task(o).row)
        /\ row.state = "PUSHING" /\ row.expected = commit
        /\ row.target = Task(o).row.target
    <3> HIDE DEF commit
    <3>1. QED
      BY <2>1, <2>2 DEF HandoffRows, SameHandoff, States
  <2>4. Goes(o, task)
    <3> HIDE DEF commit, parent
    <3>1. [Task(o) EXCEPT !.stage = "push", !.parent = parent,
             !.row.state = "PUSHING", !.row.expected = commit] = task
      BY PageTypes
    <3>2. QED
      BY <1>3, <3>1
  <2>5. commit = Commit(Task(o).handoff, parent + 1)
    OBVIOUS
  <2> HIDE DEF commit, parent, row
  <2>6. /\ task \in DeliveryTasks /\ task.stage = "push" /\ task.parent = parent
        /\ task.row = row /\ task.handoff = Task(o).handoff
    BY <2>1, <2>3, PageTypes DEF DeliveryTasks, Executing
  <2> HIDE DEF task
  <2>7. /\ SameHandoff(row, handoffs'[task.handoff])
        /\ task.handoff \in DOMAIN handoffs' /\ task.handoff <= Len(handoffs')
    BY <1>1, <2>3, <2>6, ExecutingTask DEF Executes, SameHandoff, Quiet
  <2>8. task \in GoodTasks'
    BY <2>2, <2>3, <2>5, <2>6, <2>7, GoodNext DEF Executing
  <2>9. QED
    BY <1>1, <2>4, <2>8, QuietKeeps, QuietTask
<1>4. QED
  BY <1>2, <1>3 DEF PreparePush

\* A handoff is saved as it was read, with the outcome.
LEMMA SaveStep ==
  ASSUME DeliveryInv, NEW o \in PackageOwners, Task(o).stage \in Executing,
         NEW row \in HandoffRows, SameHandoff(row, Task(o).row), Save(o, row),
         row.expected # None => row.expected.handoff = Task(o).handoff,
         row.state = "SENT" => /\ Holds(remote[row.target.branch], row.commit)
                               /\ row.commit.handoff = Task(o).handoff,
         UNCHANGED <<package, setup, remote>>
  PROVE  DeliveryGrows /\ TablesAndBranches' /\ HandoffsAreKept' /\ CommitsAreHandoffs'
<1> DEFINE h == Task(o).handoff
<1>1. /\ h \in DOMAIN handoffs /\ SameHandoff(row, handoffs[h])
      /\ handoffs[h].content.version = handoffs[h].version
  BY ExecutingTask DEF Executes, SameHandoff, DeliveryInv, HandoffsAreKept
<1>2. handoffs' = [handoffs EXCEPT ![h] = row]
  BY DEF Save
<1> HIDE DEF h
<1>3. /\ DOMAIN handoffs' = DOMAIN handoffs /\ handoffs'[h] = row
      /\ \A other \in DOMAIN handoffs \ {h} : handoffs'[other] = handoffs[other]
  BY <1>1, <1>2, DeliveryTypes
<1>4. /\ handoffs' \in Seq(HandoffRows) /\ Len(handoffs') = Len(handoffs)
  <2>1. handoffs' \in [1..Len(handoffs) -> HandoffRows]
    BY <1>1, <1>2, DeliveryTypes
  <2>2. handoffs' \in Seq(HandoffRows)
    BY <2>1, DeliveryTypes, IsASeq
  <2>3. QED
    BY <1>3, <2>2, DeliveryTypes, LenProperties
<1>5. DeliveryGrows
  BY <1>1, <1>3, <1>4, DeliveryTypes DEF DeliveryGrows, PackageVersion, SameHandoff
<1>6. TablesAndBranches'
  BY <1>4 DEF DeliveryInv, TablesAndBranches
<1>7. HandoffsAreKept'
  <2>1. ASSUME NEW other \in DOMAIN handoffs'
        PROVE  /\ handoffs'[other].content.version = handoffs'[other].version
               /\ handoffs'[other].expected # None =>
                    handoffs'[other].expected.handoff = other
               /\ handoffs'[other].state = "SENT" =>
                    /\ Holds(remote'[handoffs'[other].target.branch],
                             handoffs'[other].commit)
                    /\ handoffs'[other].commit.handoff = other
    <3>1. CASE other = h
      BY <1>1, <1>3, <3>1 DEF SameHandoff, h
    <3>2. CASE other # h
      BY <1>3, <2>1, <3>2 DEF DeliveryInv, HandoffsAreKept
    <3>3. QED
      BY <3>1, <3>2
  <2>2. QED
    BY <2>1 DEF HandoffsAreKept
<1>8. QED
  BY <1>5, <1>6, <1>7, CommitsStay

LEMMA SavePushingStep ==
  ASSUME DeliveryInv, NEW o \in PackageOwners, SavePushing(o)
  PROVE  DeliveryInv'
<1> DEFINE task == [Task(o) EXCEPT !.stage = "pushing"]
<1>1. Task(o).stage = "push" /\ UNCHANGED <<package, setup, remote>>
  BY DEF SavePushing
<1>2. CASE Ends(o) /\ UNCHANGED handoffs
  BY <1>1, <1>2, IdleIsGood, QuietTask DEF Ends, Quiet
<1>3. CASE Save(o, Task(o).row) /\ Goes(o, task)
  <2>1. Task(o).stage \in Executing
    BY <1>1 DEF Executing
  <2>2. /\ Task(o).row \in HandoffRows /\ SameHandoff(Task(o).row, Task(o).row)
        /\ Task(o).row.expected # None => Task(o).row.expected.handoff = Task(o).handoff
        /\ Task(o).row.state = "PUSHING"
    BY <1>1, <2>1, ExecutingTask DEF Executes, SameHandoff
  <2>3. DeliveryGrows /\ TablesAndBranches' /\ HandoffsAreKept' /\ CommitsAreHandoffs'
    BY <1>1, <1>3, <2>1, <2>2, SaveStep
  <2>4. /\ task \in DeliveryTasks /\ task.stage = "pushing" /\ task.row = Task(o).row
        /\ task.handoff = Task(o).handoff /\ task.parent = Task(o).parent
    BY PageTypes DEF DeliveryTasks, Executing
  <2> HIDE DEF task
  <2>5. task.row.expected = Commit(task.handoff, task.parent + 1)
    BY <1>1, <2>1, <2>4, ExecutingTask DEF Executes
  <2>6. /\ task.handoff \in DOMAIN handoffs' /\ task.handoff <= Len(handoffs')
        /\ SameHandoff(task.row, handoffs'[task.handoff])
    <3>1. SameHandoff(task.row, handoffs[task.handoff])
      BY <2>1, <2>4, ExecutingTask DEF Executes
    <3>2. QED
      BY <2>1, <2>3, <2>4, <3>1, ExecutingTask, DeliveryTypes DEF DeliveryGrows, SameHandoff
  <2>7. task \in GoodTasks'
    BY <2>2, <2>4, <2>5, <2>6, GoodNext DEF Executing
  <2>8. QED
    BY <1>3, <2>3, <2>7, TaskMoves, DeliveryInvFrom
<1>4. QED
  BY <1>2, <1>3 DEF SavePushing

\* sent and fail: what is recorded as sent is on the branch, whatever the handoff
\* has become since it was read.
LEMMA RecordStep ==
  ASSUME DeliveryInv, NEW o \in PackageOwners, Record(o)
  PROVE  DeliveryInv'
<1> DEFINE outcome == Task(o).outcome
           commit == IF outcome = "SENT" THEN Task(o).row.expected ELSE None
           row == [Task(o).row EXCEPT !.state = outcome, !.commit = commit]
<1>1. Task(o).stage = "record" /\ UNCHANGED <<package, setup, remote>>
  BY DEF Record
<1>2. Task(o).stage \in Executing
  BY <1>1 DEF Executing
<1>3. /\ Executes(Task(o)) /\ outcome \in Outcomes
      /\ Task(o).row \in HandoffRows
      /\ outcome = "SENT" => Holds(remote[Task(o).row.target.branch], Task(o).row.expected)
  BY <1>1, <1>2, ExecutingTask DEF Executes
<1>4. /\ commit \in Commits \cup {None}
      /\ outcome = "SENT" => commit = Task(o).row.expected
  BY <1>3 DEF HandoffRows
<1>5. outcome \in States
  BY <1>3 DEF Outcomes, States
<1>6. row = [Task(o).row EXCEPT !.state = outcome, !.commit = commit]
  OBVIOUS
<1> HIDE DEF commit, outcome, row
<1>7. /\ row \in HandoffRows /\ SameHandoff(row, Task(o).row)
      /\ row.target = Task(o).row.target /\ row.expected = Task(o).row.expected
      /\ row.state = outcome /\ row.commit = commit
  BY <1>3, <1>4, <1>5, <1>6 DEF HandoffRows, SameHandoff
<1>8. /\ row.expected # None => row.expected.handoff = Task(o).handoff
      /\ row.state = "SENT" => /\ Holds(remote[row.target.branch], row.commit)
                               /\ row.commit.handoff = Task(o).handoff
  BY <1>3, <1>4, <1>7 DEF Executes, Holds
<1>9. DeliveryGrows /\ TablesAndBranches' /\ HandoffsAreKept' /\ CommitsAreHandoffs'
  <2>1. CASE Save(o, row)
    BY <1>1, <1>2, <1>7, <1>8, <2>1, SaveStep
  <2>2. CASE UNCHANGED handoffs
    <3>1. Quiet
      BY <1>1, <2>2 DEF Quiet
    <3>2. DeliveryGrows
      BY <3>1, QuietKeeps
    <3>3. TablesAndBranches'
      BY <3>1 DEF Quiet, DeliveryInv, TablesAndBranches
    <3>4. QED
      BY <1>1, <2>2, <3>2, <3>3, HandoffsStay, CommitsStay
  <2>3. QED
    BY <2>1, <2>2 DEF Record, row, commit, outcome
<1>10. owners' = [owners EXCEPT ![o] = [preview |-> None, task |-> Idle]]
  <2>1. [[owners[o] EXCEPT !.task = Idle] EXCEPT !.preview = None] =
          [preview |-> None, task |-> Idle]
    <3>1. [owners[o] EXCEPT !.task = Idle] = [preview |-> owners[o].preview, task |-> Idle]
      BY PageTypes
    <3>2. [[preview |-> owners[o].preview, task |-> Idle] EXCEPT !.preview = None] =
            [preview |-> None, task |-> Idle]
      OBVIOUS
    <3>3. QED
      BY <3>1, <3>2
  <2>2. owners' = [owners EXCEPT
                     ![o] = [[owners[o] EXCEPT !.task = Idle] EXCEPT !.preview = None]]
    BY PageTypes DEF Record
  <2>3. QED
    BY <2>1, <2>2
<1>11. owners' \in [PackageOwners -> GoodPages']
  BY <1>9, <1>10, IdleIsGood, PagesStayGood, PageMoves
<1>12. QED
  BY <1>9, <1>11, DeliveryInvFrom

\* The branch receives the commit, whatever git then reports.
Received(o) ==
  /\ FastForward(o)
  /\ Len(Branch(o)) < MaxCommits
  /\ remote' = [remote EXCEPT ![Task(o).row.target.branch] =
       Append(Branch(o), [handoff |-> Task(o).handoff, version |-> Task(o).row.version,
                              content |-> Task(o).row.content])]
  /\ \/ Outcome(o, "SENT")
     \/ Goes(o, [Task(o) EXCEPT !.stage = "verify"])
     \/ Outcome(o, "FAILED")

\* push: a commit that is received is the one expected, since the branch has not
\* moved since it was prepared.
LEMMA PushStep ==
  ASSUME DeliveryInv, NEW o \in PackageOwners, Push(o)
  PROVE  DeliveryInv'
<1> DEFINE task == Task(o)
           name == task.row.target.branch
           commit == [handoff |-> task.handoff, version |-> task.row.version,
                      content |-> task.row.content]
<1>1. /\ task.stage = "pushing" /\ task.stage \in Executing
      /\ UNCHANGED <<package, setup, handoffs>>
  BY DEF Push, Executing
<1>2. /\ name \in Branches /\ Executes(task)
      /\ task.row.expected = Commit(task.handoff, task.parent + 1)
      /\ task.row \in HandoffRows /\ task.handoff \in DOMAIN handoffs /\ task.handoff \in Nat
  BY <1>1, ExecutingTask DEF Executes
<1>3. Branch(o) = remote[name]
  BY DEF Branch
<1> HIDE DEF name
<1>4. ASSUME DeliveryGrows, Goes(o, [task EXCEPT !.stage = "verify"])
      PROVE  owners' \in [PackageOwners -> GoodPages']
  <2> DEFINE next == [task EXCEPT !.stage = "verify"]
  <2>1. /\ next \in DeliveryTasks /\ next.stage = "verify" /\ next.row = task.row
        /\ next.handoff = task.handoff /\ next.parent = task.parent
    BY PageTypes DEF DeliveryTasks, Executing
  <2> HIDE DEF next
  <2>2. task.row.state = "PUSHING"
    BY <1>1, <1>2 DEF Executes
  <2>3. task.row.expected.handoff = task.handoff
    BY <1>2 DEF Commit
  <2>4. /\ next.handoff \in DOMAIN handoffs' /\ next.handoff <= Len(handoffs')
        /\ SameHandoff(next.row, handoffs'[next.handoff])
    BY <1>1, <1>2, <2>1, ExecutingTask DEF Executes
  <2>5. next \in GoodTasks'
    BY <1>2, <2>1, <2>2, <2>3, <2>4, GoodNext DEF Executing
  <2>6. QED
    BY <1>4, <2>5, TaskMoves DEF next
<1>5. ASSUME DeliveryGrows, NEW state \in Outcomes, Outcome(o, state),
             state = "SENT" => Holds(remote'[name], task.row.expected)
      PROVE  owners' \in [PackageOwners -> GoodPages']
  BY <1>1, <1>5, OutcomeIsGood, TaskMoves DEF Outcome, name
<1>6. CASE /\ UNCHANGED remote
           /\ \/ Outcome(o, "SENT") /\ Pushed(o)
              \/ Outcome(o, "CONFLICT") \/ Outcome(o, "FAILED")
              \/ Goes(o, [task EXCEPT !.stage = "verify"])
  <2>1. Quiet /\ DeliveryGrows
    BY <1>1, <1>6, QuietKeeps DEF Quiet
  <2>2. Pushed(o) => Holds(remote'[name], task.row.expected)
    BY <1>3, <1>6 DEF Pushed, AtHead
  <2>3. \/ Outcome(o, "SENT") /\ Pushed(o)
        \/ Outcome(o, "CONFLICT") \/ Outcome(o, "FAILED")
        \/ Goes(o, [task EXCEPT !.stage = "verify"])
    BY <1>6
  <2>4. owners' \in [PackageOwners -> GoodPages']
    BY <2>1, <2>2, <2>3, <1>4, <1>5 DEF Outcomes
  <2>5. QED
    BY <2>1, <2>4, QuietStep
<1>7. CASE Received(o)
  <2>1. /\ remote' = [remote EXCEPT ![name] = Append(remote[name], commit)]
        /\ Len(remote[name]) < MaxCommits /\ Len(remote[name]) = task.parent
    BY <1>3, <1>7 DEF Received, FastForward, name
  <2>2. /\ commit \in RemoteCommits /\ commit.handoff = task.handoff
        /\ commit.content = handoffs[task.handoff].content
    BY <1>2 DEF RemoteCommits, HandoffRows, Executes, SameHandoff, Versions
  <2> HIDE DEF commit
  <2>3. /\ DeliveryGrows /\ TablesAndBranches' /\ HandoffsAreKept' /\ CommitsAreHandoffs'
        /\ task.parent + 1 \in DOMAIN remote'[name]
        /\ remote'[name][task.parent + 1] = commit
    BY <1>1, <1>2, <2>1, <2>2, BranchGrows
  <2>4. Holds(remote'[name], task.row.expected)
    <3>1. task.row.expected # None
      BY <1>2, PageTypes, DeliveryAssumption DEF Commit
    <3>2. QED
      BY <1>2, <2>2, <2>3, <3>1 DEF Holds, Commit
  <2>5. owners' \in [PackageOwners -> GoodPages']
    BY <1>7, <2>3, <2>4, <1>4, <1>5 DEF Received, Outcomes
  <2>6. QED
    BY <2>3, <2>5, DeliveryInvFrom
<1>8. QED
  BY <1>6, <1>7 DEF Push, Received

-----------------------------------------------------------------------------
LEMMA DeliveryInvInit == DeliveryInit => DeliveryInv
<1> SUFFICES ASSUME DeliveryInit PROVE DeliveryInv
  OBVIOUS
<1>1. TablesAndBranches
  <2>1. PICK branch \in Branches : setup = [id |-> 1, version |-> 1, branch |-> branch]
    BY DEF DeliveryInit
  <2>2. 1 \in Versions /\ 1 \in 0..MaxSaves
    BY DeliveryAssumption DEF Versions
  <2>3. setup \in Setups
    BY <2>1, <2>2 DEF Setups
  <2>4. handoffs \in Seq(HandoffRows) /\ remote \in [Branches -> Seq(RemoteCommits)]
    BY DEF DeliveryInit
  <2>5. \A b \in Branches : Len(remote[b]) <= MaxCommits
    BY DeliveryAssumption DEF DeliveryInit
  <2>6. package = None
    BY DEF DeliveryInit
  <2>7. QED
    BY <2>3, <2>4, <2>5, <2>6 DEF TablesAndBranches
<1>2. HandoffsAreKept /\ CommitsAreHandoffs
  BY DEF DeliveryInit, HandoffsAreKept, CommitsAreHandoffs
<1>3. Idle \in GoodTasks
  <2>1. Idle \in DeliveryTasks
    BY DEF Idle, DeliveryTasks
  <2>2. /\ Idle.stage = "idle" /\ Idle.handoff = 0 /\ Len(handoffs) = 0
    BY DEF Idle, DeliveryInit
  <2>3. QED
    BY <2>1, <2>2 DEF GoodTasks, Executing
<1>4. owners \in [PackageOwners -> GoodPages]
  BY <1>3 DEF DeliveryInit, GoodPages, Page
<1>5. QED
  BY <1>1, <1>2, <1>4 DEF DeliveryInv

LEMMA DeliveryInvStep == DeliveryInv /\ [DeliveryNext]_deliveryVars => DeliveryInv'
<1> SUFFICES ASSUME DeliveryInv, [DeliveryNext]_deliveryVars PROVE DeliveryInv'
  OBVIOUS
<1>1. ASSUME NEW o \in PackageOwners, Command(o) PROVE DeliveryInv'
  <2>1. CASE \E items \in Items, answered \in BOOLEAN : SavePackage(o, items, answered)
    BY <2>1, SavePackageStep
  <2>2. CASE StartPreview(o) \/ FinishPreview(o)
    BY <2>2, PreviewStep
  <2>3. CASE Confirm(o) \/ ReadArtifact(o) \/ InsertHandoff(o)
    BY <2>3, ConfirmStep, ReadArtifactStep, InsertHandoffStep
  <2>4. CASE \E h \in DOMAIN handoffs : RetryHandoff(o, h)
    BY <2>4, RetryHandoffStep
  <2>5. CASE StartExecution(o) \/ LookUp(o) \/ PreparePush(o)
    BY <2>5, StartExecutionStep, LookUpStep, PreparePushStep
  <2>6. CASE SavePushing(o) \/ Push(o) \/ Verify(o) \/ Record(o)
    BY <2>6, SavePushingStep, PushStep, VerifyStep, RecordStep
  <2>7. QED
    BY <1>1, <2>1, <2>2, <2>3, <2>4, <2>5, <2>6 DEF Command
<1>2. ASSUME NEW branch \in Branches,
             CreateSetup(branch) \/ UpdateSetup(branch) \/ ForeignCommit(branch)
      PROVE  DeliveryInv'
  BY <1>2, SetupStep, ForeignCommitStep
<1>3. CASE RemoveSetup \/ Crash
  BY <1>3, RemoveSetupStep, CrashStep
<1>4. CASE UNCHANGED deliveryVars
  <2>1. Quiet /\ UNCHANGED owners
    BY <1>4 DEF deliveryVars, Quiet
  <2>2. QED
    BY <2>1, QuietKeeps, OwnersKept, QuietStep
<1>5. QED
  BY <1>1, <1>2, <1>3, <1>4 DEF DeliveryNext

LEMMA DeliveryInvHolds == DeliverySpec => []DeliveryInv
  BY DeliveryInvInit, DeliveryInvStep, PTL DEF DeliverySpec

\* Every variable of the delivery has its type: the numbers of versions, handoffs and
\* commits stay within their tables (delivery-package.service.ts,
\* delivery-handoff.service.ts).
THEOREM DeliveryTypeCorrect == DeliverySpec => []DeliveryTypeOK
<1>1. DeliveryInv => DeliveryTypeOK
  <2> SUFFICES ASSUME DeliveryInv PROVE DeliveryTypeOK
    OBVIOUS
  <2>1. package # None => package.version \in 1..MaxSaves /\ package.items \in Items
    BY DeliveryTypes DEF PackageRows, Versions
  <2>2. setup.id \in 0..MaxSaves /\ setup.version \in 1..MaxSaves
    BY DEF DeliveryInv, TablesAndBranches, Setups, Versions
  <2>3. \A h \in DOMAIN handoffs :
          handoffs[h].state \in States /\ handoffs[h].version \in 1..MaxSaves
    BY DeliveryTypes DEF HandoffRows, Versions
  <2>4. \A branch \in Branches : Len(remote[branch]) <= MaxCommits
    BY DEF DeliveryInv, TablesAndBranches
  <2>5. ASSUME NEW o \in PackageOwners PROVE Task(o).handoff \in 0..Len(handoffs)
    <3>1. Task(o).handoff \in Nat /\ Task(o).handoff <= Len(handoffs)
      BY PageTypes DEF GoodTasks
    <3>2. QED
      BY <3>1, DeliveryTypes
  <2>6. QED
    BY <2>1, <2>2, <2>3, <2>4, <2>5 DEF DeliveryTypeOK
<1>2. QED
  BY <1>1, DeliveryInvHolds, PTL

\* A handoff that is reported as sent is on its branch with the content that was
\* confirmed, which is that of the version it names (delivery-handoff.service.ts,
\* confirm and execute; git-client.ts, push).
THEOREM SentIsOnTheBranchHolds == DeliverySpec => []SentIsOnTheBranch
<1>1. DeliveryInv => SentIsOnTheBranch
  <2> SUFFICES ASSUME DeliveryInv, NEW h \in DOMAIN handoffs, handoffs[h].state = "SENT"
               PROVE  LET branch == remote[handoffs[h].target.branch]
                          commit == handoffs[h].commit IN
                      /\ Holds(branch, commit)
                      /\ branch[commit.position].content = handoffs[h].content
                      /\ handoffs[h].content.version = handoffs[h].version
    BY DEF SentIsOnTheBranch
  <2> DEFINE name == handoffs[h].target.branch
             n == handoffs[h].commit.position
  <2>1. name \in Branches /\ h # 0
    BY DeliveryTypes DEF HandoffRows, Setups
  <2>2. /\ Holds(remote[name], handoffs[h].commit)
        /\ handoffs[h].commit.handoff = h
        /\ handoffs[h].content.version = handoffs[h].version
    BY DEF DeliveryInv, HandoffsAreKept
  <2>3. n \in DOMAIN remote[name] /\ remote[name][n].handoff = h
    BY <2>2 DEF Holds
  <2>4. remote[name][n].content = handoffs[h].content
    BY <2>1, <2>3 DEF DeliveryInv, CommitsAreHandoffs
  <2>5. QED
    BY <2>2, <2>4
<1>2. QED
  BY <1>1, DeliveryInvHolds, PTL
=============================================================================
