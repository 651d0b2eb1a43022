----------------------------- MODULE MCInterview -----------------------------
(***************************************************************************)
(* Model checking of what an interview is made of: the question bank, the  *)
(* interview page with the rounds behind it, the handoff of a round to the *)
(* Customer, the page that follows it up, and the specifications written   *)
(* from it.  The components share no state but the status of the Project,  *)
(* so each behaviour is about one of them, its focus, while the others     *)
(* stay as they are.                                                       *)
(***************************************************************************)
EXTENDS InterviewPage, InterviewHandoff, QuestionBank, FollowUpPage, Specifications, TLC

CONSTANTS q1, adhoc, a, d1, d2, r1, template1, block, x, y

VARIABLE focus

-----------------------------------------------------------------------------
\* Rows that are named by an id: one added, or two exchanged; and a title.
Names == {1, 2}
NameText == [name \in Names |-> <<name>>]
Row(id, value) == Object([id |-> Atom(id), v |-> Atom(value)])
RowLists == {<<Row(1, x)>>, <<Row(1, x), Row(2, y)>>, <<Row(2, y), Row(1, x)>>}
Document(rows) == Object([title |-> Atom(x), rows |-> Array(rows)])
Documents == {NullValue} \cup {Document(rows) : rows \in RowLists}

WithParts(values) == values \cup UNION {Parts(value) : value \in values}
DocumentValues == WithParts(WithParts(WithParts(Documents)))

interviewVars == <<schema, rounds, summary, pageVars>>
documentVars == <<sources, templates, chosen, revisions, specPage>>
allVars ==
  <<focus, archived, interviewVars, handoffVars, bankVars, documentVars, followUpPageVars>>

Symmetric == Permutations({d1, d2})

-----------------------------------------------------------------------------
\* Components out of focus never move; one of their initial states is enough.
AllInit ==
  /\ focus \in {"page", "handoff", "bank", "specification", "follow-up"}
  /\ Init
  /\ HandoffInit
  /\ BankInit
  /\ SpecificationsInit
  /\ FollowUpPageInit
  /\ focus # "follow-up" => pageMode = "work"
  /\ focus # "specification" => sources = NullValue

PageNext ==
  /\ focus = "page" /\ Next
  /\ UNCHANGED <<focus, handoffVars, bankVars, documentVars, followUpPageVars>>

HandoffStep ==
  /\ focus = "handoff" /\ HandoffNext
  /\ UNCHANGED <<focus, vars, bankVars, documentVars, followUpPageVars>>

BankStep ==
  /\ focus = "bank" /\ BankNext
  /\ UNCHANGED <<focus, vars, handoffVars, documentVars, followUpPageVars>>

SpecificationStep ==
  /\ focus = "specification" /\ SpecificationsNext
  /\ UNCHANGED <<focus, interviewVars, handoffVars, bankVars, followUpPageVars>>

FollowUpStep ==
  /\ focus = "follow-up" /\ FollowUpPageNext
  /\ UNCHANGED <<focus, vars, handoffVars, bankVars, documentVars>>

AllNext == PageNext \/ HandoffStep \/ BankStep \/ SpecificationStep \/ FollowUpStep

AllSpec == AllInit /\ [][AllNext]_allVars

-----------------------------------------------------------------------------
\* Every variable of every component has its type.
AllTypesOK ==
  CASE focus = "page" -> PageTypeOK
    [] focus = "handoff" -> HandoffTypeOK
    [] focus = "bank" -> BankTypeOK
    [] focus = "specification" -> SpecificationsTypeOK
    [] OTHER -> FollowUpPageTypeOK
=============================================================================
