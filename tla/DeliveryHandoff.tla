--------------------------- MODULE DeliveryHandoff ---------------------------
(***************************************************************************)
(* The Delivery package of a project (delivery-package.service.ts), shared *)
(* Git setups (git-setup.service.ts), and the handoff of a package to Git: *)
(* preview, confirmation and retry (delivery-handoff.service.ts) over the  *)
(* git command line (git-client.ts), commanded by two or more Owners on    *)
(* the Delivery page (delivery.page.ts).                                   *)
(*                                                                         *)
(* No handoff command takes a lock: each reads the package, the setup and  *)
(* the handoff when it needs them, and saves the handoff as it read it.    *)
(* The commands of an archived project are refused, here as if not sent;   *)
(* one under way is not stopped by archiving.                              *)
(*                                                                         *)
(* A commit is named by its handoff and its position in the branch: the    *)
(* same content, message, date and parent make the same commit.            *)
(***************************************************************************)
EXTENDS Null, Naturals, Sequences

CONSTANTS
  PackageOwners,  \* pages from which one command at a time is sent
  Items,          \* what a package may hold, drawn from a specification
  MaxHandoffs,    \* bound: handoffs
  Branches,       \* target branches
  MaxSaves,       \* bound: times that the package and the setup are saved
  MaxCommits      \* bound: commits on a branch

\* null is no package and no commit.
ASSUME DeliveryAssumption ==
  /\ None \notin [version : Nat, items : Items]
  /\ None \notin [handoff : Nat, position : Nat]
  /\ MaxSaves \in Nat \ {0} /\ MaxHandoffs \in Nat /\ MaxCommits \in Nat

VARIABLES
  package,    \* delivery_packages: version and items
  setup,      \* the Git setup: its identity, version and branch
  handoffs,   \* delivery_handoffs
  remote,     \* the branches, commits in order
  owners      \* the page of each Owner, and its command under way

deliveryVars == <<package, setup, handoffs, remote, owners>>

Idle == [stage |-> "idle", preview |-> None, handoff |-> 0, row |-> None, parent |-> 0,
         outcome |-> None]
Payload(version, target, content) ==
  [version |-> version, setup |-> target, content |-> content]
Page == [preview |-> None, task |-> Idle]

DeliveryInit ==
  /\ package = None
  /\ setup \in {[id |-> 1, version |-> 1, branch |-> branch] : branch \in Branches}
  /\ handoffs = <<>>
  /\ remote = [branch \in Branches |-> <<>>]
  /\ owners = [o \in PackageOwners |-> Page]

-----------------------------------------------------------------------------
(* The package, the artifact made of it, and the setup.                    *)

PackageVersion == IF package = None THEN 0 ELSE package.version
MaySave == PackageVersion + setup.version < MaxSaves

\* artifact: the package with its provenance, which is that of any handoff of
\* this version that was sent.
Artifact ==
  [version |-> package.version, items |-> package.items,
   sent |-> \E h \in DOMAIN handoffs :
              handoffs[h].version = package.version /\ handoffs[h].state = "SENT"]

\* savePackage and save: whatever a page's form holds is the package, whichever
\* version the form was filled from.
SavePackage(o, items, answered) ==
  /\ MaySave
  /\ package' = [version |-> PackageVersion + 1, items |-> items]
  /\ owners' = IF answered THEN [owners EXCEPT ![o].preview = None] ELSE owners
  /\ UNCHANGED <<setup, handoffs, remote>>

\* create, update and remove of the setup; identities and versions are never
\* used again.  Removal takes the link of every handoff with it.
CreateSetup(branch) ==
  /\ setup.id = 0 /\ MaySave
  /\ setup' = [id |-> setup.version + 1, version |-> setup.version + 1, branch |-> branch]
  /\ UNCHANGED <<package, handoffs, remote, owners>>

UpdateSetup(branch) ==
  /\ setup.id # 0 /\ MaySave
  /\ setup' = [setup EXCEPT !.version = @ + 1, !.branch = branch]
  /\ UNCHANGED <<package, handoffs, remote, owners>>

RemoveSetup ==
  /\ setup.id # 0
  /\ setup' = [setup EXCEPT !.id = 0]
  /\ handoffs' = [h \in DOMAIN handoffs |-> [handoffs[h] EXCEPT !.setup = 0]]
  /\ UNCHANGED <<package, remote, owners>>

-----------------------------------------------------------------------------
(* Preview and confirmation.                                               *)

Task(o) == owners[o].task
Goes(o, task) == owners' = [owners EXCEPT ![o].task = task]
Ends(o) == Goes(o, Idle)

\* createHandoffPreview and preview: the version is read first ...
StartPreview(o) ==
  /\ Task(o) = Idle
  /\ package # None /\ setup.id # 0
  /\ Goes(o, [Idle EXCEPT !.stage = "preview",
                          !.preview = Payload(package.version, setup, None)])
  /\ UNCHANGED <<package, setup, handoffs, remote>>

\* ... and then the artifact, of the version saved by now.
FinishPreview(o) ==
  /\ Task(o).stage = "preview"
  /\ owners' = [owners EXCEPT ![o].task = Idle,
                  ![o].preview = [Task(o).preview EXCEPT !.content = Artifact]]
  /\ UNCHANGED <<package, setup, handoffs, remote>>

Same(preview) ==
  {h \in DOMAIN handoffs : /\ handoffs[h].version = preview.version
                           /\ handoffs[h].target = preview.setup}

\* confirm: the package and the setup are those of the preview; a handoff that
\* exists is the answer.
Confirm(o) ==
  LET preview == owners[o].preview IN
  /\ Task(o) = Idle /\ preview # None
  /\ setup = preview.setup /\ package.version = preview.version
  /\ owners' = IF Same(preview) # {} THEN [owners EXCEPT ![o].preview = None]
               ELSE [owners EXCEPT ![o].task = [Idle EXCEPT !.stage = "artifact",
                                                            !.preview = preview]]
  /\ UNCHANGED <<package, setup, handoffs, remote>>

ReadArtifact(o) ==
  /\ Task(o).stage = "artifact"
  /\ IF Artifact = Task(o).preview.content
     THEN Goes(o, [Task(o) EXCEPT !.stage = "insert", !.preview.content = Artifact])
     ELSE Ends(o)
  /\ UNCHANGED <<package, setup, handoffs, remote>>

NewHandoff(preview) ==
  [version |-> preview.version, target |-> preview.setup, setup |-> preview.setup.id,
   content |-> preview.content, state |-> "PENDING",
   expected |-> None, commit |-> None]

\* The unique key on package, version and target admits one; a setup that is gone
\* fails the foreign key.
InsertHandoff(o) ==
  LET row == NewHandoff(Task(o).preview) IN
  /\ Task(o).stage = "insert"
  /\ IF setup.id # row.setup \/ Same(Task(o).preview) # {}
     THEN Ends(o) /\ UNCHANGED handoffs
     ELSE /\ Len(handoffs) < MaxHandoffs
          /\ handoffs' = Append(handoffs, row)
          /\ Goes(o, [Idle EXCEPT !.stage = "execute", !.handoff = Len(handoffs) + 1,
                                  !.row = row])
  /\ UNCHANGED <<package, setup, remote>>

\* retry, of a handoff read without a lock.
RetryHandoff(o, h) ==
  /\ Task(o) = Idle
  /\ handoffs[h].state \in {"FAILED", "CONFLICT"}
  /\ Goes(o, [Idle EXCEPT !.stage = "execute", !.handoff = h, !.row = handoffs[h]])
  /\ UNCHANGED <<package, setup, handoffs, remote>>

-----------------------------------------------------------------------------
(* execute.                                                                *)

Commit(h, position) == [handoff |-> h, position |-> position]
Holds(branch, commit) ==
  /\ commit # None
  /\ commit.position \in DOMAIN branch
  /\ branch[commit.position].handoff = commit.handoff
AtHead(branch, commit) == Holds(branch, commit) /\ commit.position = Len(branch)

\* The branch that the handoff of a task goes to, and the commit it expects there.
Branch(o) == remote[Task(o).row.target.branch]
Pushed(o) == AtHead(Branch(o), Task(o).row.expected)

Outcome(o, state) ==
  Goes(o, [Task(o) EXCEPT !.stage = "record", !.outcome = state])

\* The setup must still name the target of the handoff.
StartExecution(o) ==
  /\ Task(o).stage = "execute"
  /\ IF \/ Task(o).row.setup \notin {setup.id} \ {0}
        \/ setup.branch # Task(o).row.target.branch
     THEN Outcome(o, "FAILED")
     ELSE Goes(o, [Task(o) EXCEPT !.stage = IF Task(o).row.expected = None
                                            THEN "prepare" ELSE "lookup"])
  /\ UNCHANGED <<package, setup, handoffs, remote>>

\* remoteSha, before a push that was tried already; an error is passed over.
LookUp(o) ==
  /\ Task(o).stage = "lookup"
  /\ \/ Pushed(o) /\ Outcome(o, "SENT")
     \/ Goes(o, [Task(o) EXCEPT !.stage = "prepare"])
  /\ UNCHANGED <<package, setup, handoffs, remote>>

\* The artifact at its path, which names the version.
OnBranch(branch, version) ==
  LET commits == {n \in DOMAIN branch : branch[n].version = version} IN
  IF commits = {} THEN None
  ELSE branch[CHOOSE n \in commits : \A m \in commits : m <= n].content

\* preparePush: without a change there is nothing to commit, and git fails.
PreparePush(o) ==
  /\ Task(o).stage = "prepare"
  /\ \/ Outcome(o, "FAILED")
     \/ /\ OnBranch(Branch(o), Task(o).row.version) # Task(o).row.content
        /\ Goes(o, [Task(o) EXCEPT !.stage = "push", !.parent = Len(Branch(o)),
                      !.row.state = "PUSHING",
                      !.row.expected = Commit(Task(o).handoff, Len(Branch(o)) + 1)])
  /\ UNCHANGED <<package, setup, handoffs, remote>>

\* A handoff is saved as it was read; its link to a setup that is gone fails the
\* foreign key.
Save(o, row) == handoffs' = [handoffs EXCEPT ![Task(o).handoff] = row]

Savable(o) == Task(o).row.setup \in {0, setup.id}

SavePushing(o) ==
  /\ Task(o).stage = "push"
  /\ IF Savable(o)
     THEN Save(o, Task(o).row) /\ Goes(o, [Task(o) EXCEPT !.stage = "pushing"])
     ELSE Ends(o) /\ UNCHANGED handoffs
  /\ UNCHANGED <<package, setup, remote>>

\* A branch that has moved on rejects the push.
FastForward(o) == Len(Branch(o)) = Task(o).parent

\* push: git reports success, a conflict, an unknown result, or another error,
\* which a push that was killed after 30 seconds also is.
Push(o) ==
  LET task == Task(o) IN
  /\ task.stage = "pushing"
  /\ \/ /\ FastForward(o)
        /\ Len(Branch(o)) < MaxCommits
        /\ remote' = [remote EXCEPT ![task.row.target.branch] =
             Append(Branch(o), [handoff |-> task.handoff, version |-> task.row.version,
                                    content |-> task.row.content])]
        /\ \/ Outcome(o, "SENT")
           \/ Goes(o, [task EXCEPT !.stage = "verify"])
           \/ Outcome(o, "FAILED")
     \/ /\ Pushed(o) /\ Outcome(o, "SENT")
        /\ UNCHANGED remote
     \/ /\ ~FastForward(o) /\ ~Pushed(o)
        /\ Outcome(o, "CONFLICT")
        /\ UNCHANGED remote
     \/ /\ \/ Goes(o, [task EXCEPT !.stage = "verify"])
           \/ Outcome(o, "FAILED")
        /\ UNCHANGED remote
  /\ UNCHANGED <<package, setup, handoffs>>

\* Variant: an unknown push counts as sent.
ProvenUnseen(o) == TRUE

Proven(o) == Pushed(o)

\* remoteSha, after a push whose result is unknown.
Verify(o) ==
  /\ Task(o).stage = "verify"
  /\ \/ Proven(o) /\ Outcome(o, "SENT")
     \/ Outcome(o, "FAILED")
  /\ UNCHANGED <<package, setup, handoffs, remote>>

\* sent and fail.
Record(o) ==
  LET task == Task(o) IN
  /\ task.stage = "record"
  /\ IF Savable(o)
     THEN Save(o, [task.row EXCEPT !.state = task.outcome,
                                   !.commit = IF task.outcome = "SENT"
                                              THEN task.row.expected ELSE None])
     ELSE UNCHANGED handoffs
  /\ owners' = [owners EXCEPT ![o].task = Idle, ![o].preview = None]
  /\ UNCHANGED <<package, setup, remote>>

-----------------------------------------------------------------------------
\* The process ends, and the commands with it.
Crash ==
  /\ owners' = [o \in PackageOwners |-> [owners[o] EXCEPT !.task = Idle]]
  /\ owners' # owners
  /\ UNCHANGED <<package, setup, handoffs, remote>>

\* Somebody else pushes to the branch.
ForeignCommit(branch) ==
  /\ Len(remote[branch]) < MaxCommits
  /\ remote' = [remote EXCEPT ![branch] =
                  Append(@, [handoff |-> 0, version |-> 0, content |-> None])]
  /\ UNCHANGED <<package, setup, handoffs, owners>>

Command(o) ==
  \/ \E items \in Items, answered \in BOOLEAN : SavePackage(o, items, answered)
  \/ StartPreview(o) \/ FinishPreview(o)
  \/ Confirm(o) \/ ReadArtifact(o) \/ InsertHandoff(o)
  \/ \E h \in DOMAIN handoffs : RetryHandoff(o, h)
  \/ StartExecution(o) \/ LookUp(o) \/ PreparePush(o) \/ SavePushing(o) \/ Push(o)
  \/ Verify(o) \/ Record(o)

DeliveryNext ==
  \/ \E o \in PackageOwners : Command(o)
  \/ \E branch \in Branches :
       CreateSetup(branch) \/ UpdateSetup(branch) \/ ForeignCommit(branch)
  \/ RemoveSetup \/ Crash

DeliverySpec == DeliveryInit /\ [][DeliveryNext]_deliveryVars

-----------------------------------------------------------------------------
(* Properties.                                                             *)

States == {"PENDING", "PUSHING", "SENT", "FAILED", "CONFLICT"}

\* Every variable has its type.
DeliveryTypeOK ==
  /\ package # None => package.version \in 1..MaxSaves /\ package.items \in Items
  /\ setup.id \in 0..MaxSaves /\ setup.version \in 1..MaxSaves
  /\ \A h \in DOMAIN handoffs :
       handoffs[h].state \in States /\ handoffs[h].version \in 1..MaxSaves
  /\ \A branch \in Branches : Len(remote[branch]) <= MaxCommits
  /\ \A o \in PackageOwners : Task(o).handoff \in 0..Len(handoffs)

\* A handoff that is reported as sent is on its branch with the content of the version
\* that it names, although the package is read twice while others save it, and
\* whatever became of other pushes.
SentIsOnTheBranch ==
  \A h \in DOMAIN handoffs : handoffs[h].state = "SENT" =>
    LET branch == remote[handoffs[h].target.branch]
        commit == handoffs[h].commit IN
    /\ Holds(branch, commit)
    /\ branch[commit.position].content = handoffs[h].content
    /\ handoffs[h].content.version = handoffs[h].version

\* "Treat ... confirmed Git handoffs as immutable historical records": a handoff
\* that was sent stays so.
SentStaysSent ==
  [][\A h \in DOMAIN handoffs :
       handoffs[h].state = "SENT" => handoffs'[h].state = "SENT"]_deliveryVars
=============================================================================
