---------------------------- MODULE QuestionBank ----------------------------
(***************************************************************************)
(* The Question Bank, the Question Templates and the question schema of a  *)
(* Project (question-bank.service.ts, question-template.service.ts), with  *)
(* the settings pages that edit them.                                      *)
(*                                                                         *)
(* Every change of the bank publishes a whole new version under an         *)
(* advisory lock, so it is one action.  The publication of a Project       *)
(* schema does not take that lock: it reads the template with the active   *)
(* questions first and the bank afterwards, and a version may be published *)
(* in between.  The settings page sends the identifier of the question as  *)
(* it was when its form was opened.                                        *)
(***************************************************************************)
EXTENDS Naturals, FiniteSets, SequencesExt, Null

CONSTANTS
  Keys,          \* stable keys
  SeedKeys,      \* the questions of the first bank version
  Files,         \* reference files
  Templates,     \* Question Templates
  MaxBankVersions,   \* bound: versions of the bank
  MaxPublished,  \* bound: versions of a template
  MaxSchemas     \* bound: versions of the Project schema

ASSUME BankAssumption ==
  /\ IsFiniteSet(Keys) /\ SeedKeys \subseteq Keys
  /\ MaxBankVersions \in Nat \ {0} /\ MaxPublished \in Nat

VARIABLES
  bank,          \* the versions of the bank: key -> order, active, files
  template,      \* question_templates with their published versions
  schemas,       \* the versions of the Project schema
  publication,   \* what publishProjectSchema has read so far
  form           \* the question form of the settings page

bankVars == <<bank, template, schemas, publication, form>>

-----------------------------------------------------------------------------
Version == Len(bank)
Current == bank[Version]
ActiveIn(version) == {k \in DOMAIN version : version[k].active}

BankInit ==
  /\ bank = LET seed == SetToSeq(SeedKeys) IN
            <<[k \in SeedKeys |-> [order |-> CHOOSE i \in DOMAIN seed : seed[i] = k,
                                  active |-> TRUE, files |-> {}]]>>
  /\ template = [t \in Templates |-> [exists |-> FALSE, draft |-> {}, published |-> <<>>]]
  /\ schemas = <<>>
  /\ publication = None
  /\ form = None

Publish(version) ==
  /\ Version < MaxBankVersions
  /\ bank' = Append(bank, version)
  /\ UNCHANGED <<template, schemas, publication>>

-----------------------------------------------------------------------------
(* The bank and its form.                                                  *)

\* Variant: a new question does not move the others.
InsertedWithoutShift(k, order, active) ==
  [j \in DOMAIN Current \cup {k} |->
     IF j = k THEN [order |-> order, active |-> active, files |-> {}] ELSE Current[j]]

\* createBaseQuestion: the questions from its order on move up by one.
Inserted(k, order, active) ==
  [j \in DOMAIN Current \cup {k} |->
     IF j = k THEN [order |-> order, active |-> active, files |-> {}]
     ELSE [Current[j] EXCEPT !.order = IF @ >= order THEN @ + 1 ELSE @]]

\* editQuestion; openCreateForm and cancelForm leave the form citing nothing.
OpenForm ==
  /\ form' \in {None} \cup {[version |-> Version, key |-> k] : k \in DOMAIN Current}
  /\ UNCHANGED <<bank, template, schemas, publication>>

\* saveQuestion of a new question.
CreateBaseQuestion(k, order, active) ==
  /\ form = None
  /\ k \notin DOMAIN Current
  /\ order \in 1..Cardinality(DOMAIN Current) + 1
  /\ Publish(Inserted(k, order, active))
  /\ UNCHANGED form

\* The place of question j among the others, once k is spliced out.
PlaceWithout(k, j) ==
  Cardinality({i \in DOMAIN Current \ {k} : Current[i].order <= Current[j].order})

\* The two splices of updateBaseQuestion; every order is assigned anew.
Reordered(k, order, j) ==
  IF j = k THEN order
  ELSE IF PlaceWithout(k, j) < order THEN PlaceWithout(k, j)
  ELSE PlaceWithout(k, j) + 1

Updated(k, order, active) ==
  [j \in DOMAIN Current |->
     [Current[j] EXCEPT !.order = Reordered(k, order, j),
                        !.active = IF j = k THEN active ELSE @]]

\* saveQuestion of an existing question: only of the latest version.
UpdateBaseQuestion(order, active) ==
  /\ form # None /\ form.version = Version
  /\ order \in 1..Cardinality(DOMAIN Current)
  /\ Publish(Updated(form.key, order, active))
  /\ form' = None

\* The same with a question of an earlier version: a conflict, the form stays.
UpdateIsRefused ==
  /\ form # None /\ form.version < Version
  /\ UNCHANGED bankVars

\* copyReferenceFiles, with the file that is added or left out.
WithFiles(k, files) == [Current EXCEPT ![k].files = files]

\* addReferenceFile; the page goes on with the bank that is returned.
AddReferenceFile(k, file) ==
  /\ k \in DOMAIN Current
  /\ file \notin UNION {Current[j].files : j \in DOMAIN Current}
  /\ Publish(WithFiles(k, Current[k].files \cup {file}))
  /\ UNCHANGED form

RemoveReferenceFile(k, file) ==
  /\ k \in DOMAIN Current
  /\ file \in Current[k].files
  /\ Publish(WithFiles(k, Current[k].files \ {file}))
  /\ UNCHANGED form

-----------------------------------------------------------------------------
(* Templates.                                                              *)

LatestPublished(t) == Last(template[t].published)

\* create, updateDraft: any selection that is not empty, available or not.
SaveTemplate(t, draft) ==
  /\ draft # {}
  /\ template[t].exists \/ template[t].published = <<>>
  /\ template' = [template EXCEPT ![t].exists = TRUE, ![t].draft = draft]
  /\ UNCHANGED <<bank, schemas, publication, form>>

\* publish: under the lock of the row, with every question available.
PublishTemplate(t) ==
  /\ template[t].exists
  /\ Len(template[t].published) < MaxPublished
  /\ template[t].draft \subseteq ActiveIn(Current)
  /\ template' = [template EXCEPT ![t].published = Append(@, template[t].draft)]
  /\ UNCHANGED <<bank, schemas, publication, form>>

\* delete: a soft delete, which keeps the versions.
DeleteTemplate(t) ==
  /\ template[t].exists
  /\ template' = [template EXCEPT ![t].exists = FALSE]
  /\ UNCHANGED <<bank, schemas, publication, form>>

-----------------------------------------------------------------------------
(* The schema of a Project.                                                *)

\* publishProjectSchema, to the end of requireLatestPublished.
ReadTemplate(t) ==
  /\ publication = None
  /\ Len(schemas) < MaxSchemas
  /\ template[t].exists
  /\ template[t].published # <<>>
  /\ LatestPublished(t) \subseteq ActiveIn(Current)
  /\ publication' = [questions |-> LatestPublished(t), template |-> t,
                     number |-> Len(template[t].published)]
  /\ UNCHANGED <<bank, template, schemas, form>>

\* Variant: the selection is not looked up in the bank that is read last.
SelectableOnceChecked(questions) == questions \subseteq DOMAIN Current

\* Every question must be active in the bank that is read last.
Selectable(questions) == questions \subseteq ActiveIn(Current)

\* publishProjectSchema, from findLatestBankVersion on.
Published(selection) ==
  /\ Len(schemas) < MaxSchemas
  /\ Selectable(selection.questions)
  /\ schemas' = Append(schemas, [bank |-> Version, questions |-> selection.questions,
                                 template |-> selection.template,
                                 number |-> selection.number])
  /\ UNCHANGED <<bank, template, form>>

PublishProjectSchema ==
  /\ publication # None
  /\ Published(publication)
  /\ publication' = None

\* publishProjectSchema of a selection, which reads nothing before the bank.
PublishSelection(questions) ==
  /\ publication = None
  /\ questions # {}
  /\ Published([questions |-> questions, template |-> None, number |-> 0])
  /\ UNCHANGED publication

\* The transaction is rolled back, by a question that is gone or otherwise.
RefuseSchema ==
  /\ publication # None
  /\ publication' = None
  /\ UNCHANGED <<bank, template, schemas, form>>

-----------------------------------------------------------------------------
BankNext ==
  \/ OpenForm
  \/ \E k \in Keys, order \in 1..Cardinality(Keys), active \in BOOLEAN :
       CreateBaseQuestion(k, order, active)
  \/ \E order \in 1..Cardinality(Keys), active \in BOOLEAN : UpdateBaseQuestion(order, active)
  \/ UpdateIsRefused
  \/ \E k \in Keys, file \in Files :
       AddReferenceFile(k, file) \/ RemoveReferenceFile(k, file)
  \/ \E t \in Templates :
       \/ \E draft \in SUBSET Keys : SaveTemplate(t, draft)
       \/ PublishTemplate(t)
       \/ DeleteTemplate(t)
       \/ ReadTemplate(t)
  \/ \E questions \in SUBSET Keys : PublishSelection(questions)
  \/ PublishProjectSchema
  \/ RefuseSchema

BankSpec == BankInit /\ [][BankNext]_bankVars

-----------------------------------------------------------------------------
\* Every variable has its type.
BankTypeOK ==
  /\ Version \in 1..MaxBankVersions
  /\ \A v \in 1..Version :
       bank[v] \in [DOMAIN bank[v] -> [order : 1..Cardinality(Keys), active : BOOLEAN,
                                       files : SUBSET Files]]
  /\ template \in [Templates -> [exists : BOOLEAN, draft : SUBSET Keys,
                                 published : Seq((SUBSET Keys) \ {{}})]]
  /\ schemas \in Seq([bank : 1..MaxBankVersions, questions : SUBSET Keys,
                      template : Templates \cup {None}, number : 0..MaxPublished])

\* However questions are inserted and moved, the orders of every version are
\* exactly 1..n: the next insertion and the next move rely on it.
BankOrdersAreContiguous ==
  \A v \in 1..Version :
    {bank[v][k].order : k \in DOMAIN bank[v]} = 1..Cardinality(DOMAIN bank[v])

\* Whatever is published while a schema is, all its questions were active in
\* the one bank version it cites, and are those of the template it cites.
SchemaCitesWhatItHolds ==
  \A s \in 1..Len(schemas) :
    /\ schemas[s].questions \subseteq ActiveIn(bank[schemas[s].bank])
    /\ schemas[s].template # None =>
         schemas[s].questions = template[schemas[s].template].published[schemas[s].number]
=============================================================================
