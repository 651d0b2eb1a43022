-------------------------- MODULE ProjectPages_proofs --------------------------
(***************************************************************************)
(* Theorems about pages whose requests are answered late, lost or refused: *)
(* that of the discovery follow-ups (DiscoveryFollowUps), the settings of  *)
(* a Project (ProjectLifecycle) and the queue of Projects, which is walked *)
(* through while they move (ActiveProjectQueue).                           *)
(***************************************************************************)
EXTENDS DiscoveryFollowUps, ProjectLifecycle, ActiveProjectQueue, SequenceTheorems,
  FunctionTheorems, FiniteSetTheorems, TLAPS

-----------------------------------------------------------------------------
(* DiscoveryFollowUps: what is known of a row is the row, or an earlier    *)
(* version of it.  Versions tell them apart, since each change of a row    *)
(* raises its version.                                                     *)

Sources == Snapshots \cup {None}
Stages == {"idle", "sent", "done", "refused", "lost"}

Known ==
  {seen \in Nat \X Rows :
     /\ seen[1] \in FollowUpIds
     /\ seen[2].version <= followUps[seen[1]].version
     /\ seen[2].version = followUps[seen[1]].version => seen[2] = followUps[seen[1]]}

\* What a request may bring, and a page show.
Listings ==
  {rows \in UNION {[ids -> Rows] : ids \in SUBSET Nat} :
     \A f \in DOMAIN rows : <<f, rows[f]>> \in Known}

\* A form is about a row that it was filled from, and after a conflict about a
\* newer one.
PageForms ==
  {filled \in [id : Nat, base : Rows \cup {None}, value : Texts \cup {None},
               conflict : BOOLEAN, snapshot : Rows \cup {None}] :
     /\ filled.id # 0 => <<filled.id, filled.base>> \in Known
     /\ filled.snapshot # None => <<filled.id, filled.snapshot>> \in Known
     /\ filled.conflict => filled.id # 0}

EditForms == {filled \in PageForms : filled.id # 0 => filled.value \in Texts}

Pages == [list : Listings, archived : BOOLEAN, edit : EditForms, link : PageForms,
          resolution : Nat, removal : PageForms]

\* What a request of each kind carries.
Values == Texts \cup Resolved \cup Sources \cup [text : Texts, source : Sources]
Carries(kind, call) ==
  /\ kind = "create" => call.value \in [text : Texts, source : Sources]
  /\ kind = "update" => call.value \in Texts /\ <<call.id, call.base>> \in Known
  /\ kind = "source-link" => call.value \in Sources /\ <<call.id, call.base>> \in Known
  /\ kind = "resolve" => call.value \in Resolved /\ <<call.id, call.base>> \in Known
  /\ call.stage = "done" => call.result \in Listings

GoodCalls ==
  [kind \in Kinds |->
     {call \in [stage : Stages, id : Nat, base : Rows \cup {None}, value : Values,
                result : Listings \cup {None}] :
        call.stage # "idle" => Carries(kind, call)}]

\* The rows are fetched again for the edit that was refused, while it is open.
RefreshIsForTheEdit ==
  calls["refresh"].stage # "idle" =>
    /\ page.edit.id # 0
    /\ calls["refresh"].stage = "done" => page.edit.id \in DOMAIN calls["refresh"].result

Tables ==
  /\ archived \in BOOLEAN /\ current \subseteq Snapshots
  /\ followUps \in Seq(Rows)

CallsAreGood ==
  /\ DOMAIN calls = Kinds
  /\ \A kind \in Kinds : calls[kind] \in GoodCalls[kind]

FollowUpsInv ==
  /\ Tables
  /\ page \in Pages
  /\ CallsAreGood
  /\ RefreshIsForTheEdit

LEMMA FollowUpTypes ==
  ASSUME FollowUpsInv
  PROVE  /\ FollowUpIds = 1..Len(followUps) /\ Len(followUps) \in Nat
         /\ \A f \in FollowUpIds :
              /\ followUps[f] \in Rows /\ f \in Nat /\ f # 0
              /\ <<f, followUps[f]>> \in Known
<1>1. FollowUpIds = 1..Len(followUps) /\ Len(followUps) \in Nat
  BY LenProperties DEF FollowUpsInv, Tables, FollowUpIds
<1>2. \A f \in FollowUpIds : followUps[f] \in Rows
  BY <1>1, ElementOfSeq DEF FollowUpsInv, Tables
<1>3. \A f \in FollowUpIds : <<f, followUps[f]>> \in Known
  BY <1>1, <1>2 DEF Known, Rows
<1>4. QED
  BY <1>1, <1>2, <1>3

\* No row is taken away, and one that changes gets a higher version.
RowsGrow ==
  /\ FollowUpIds \subseteq FollowUpIds'
  /\ \A f \in FollowUpIds :
       \/ followUps'[f] = followUps[f]
       \/ followUps'[f].version > followUps[f].version /\ followUps'[f] \in Rows

LEMMA KnownGrows ==
  ASSUME FollowUpsInv, RowsGrow
  PROVE  /\ Known \subseteq Known' /\ Listings \subseteq Listings'
         /\ EditForms \subseteq EditForms' /\ PageForms \subseteq PageForms'
         /\ Pages \subseteq Pages'
         /\ \A kind \in Kinds : GoodCalls[kind] \subseteq GoodCalls'[kind]
<1>1. Known \subseteq Known'
  <2>1. ASSUME NEW seen \in Known PROVE seen \in Known'
    <3>1. /\ seen \in Nat \X Rows /\ seen[1] \in FollowUpIds
          /\ seen[2].version \in Nat /\ followUps[seen[1]].version \in Nat
      <4>1. /\ seen \in Nat \X Rows /\ seen[1] \in FollowUpIds
            /\ seen[2] \in Rows /\ followUps[seen[1]] \in Rows
        BY <2>1, FollowUpTypes DEF Known
      <4>2. QED
        BY <4>1, FollowUpsAssumption DEF Rows
    <3>2. CASE followUps'[seen[1]] = followUps[seen[1]]
      BY <2>1, <3>1, <3>2 DEF Known, RowsGrow
    <3>3. CASE followUps'[seen[1]].version > followUps[seen[1]].version
               /\ followUps'[seen[1]] \in Rows
      <4>1. followUps'[seen[1]].version \in Nat
        BY <3>3, FollowUpsAssumption DEF Rows
      <4>2. seen[2].version < followUps'[seen[1]].version
        BY <2>1, <3>1, <3>3, <4>1 DEF Known
      <4>3. QED
        BY <3>1, <4>1, <4>2 DEF Known, RowsGrow
    <3>4. QED
      BY <3>1, <3>2, <3>3 DEF RowsGrow
  <2>2. QED
    BY <2>1
<1>2. Listings \subseteq Listings'
  BY <1>1 DEF Listings
<1>3. EditForms \subseteq EditForms' /\ PageForms \subseteq PageForms'
  BY <1>1 DEF PageForms, EditForms
<1>4. Pages \subseteq Pages'
  BY <1>2, <1>3 DEF Pages
<1>5. \A kind \in Kinds : GoodCalls[kind] \subseteq GoodCalls'[kind]
  BY <1>1, <1>2 DEF GoodCalls, Carries
<1>6. QED
  BY <1>1, <1>2, <1>3, <1>4, <1>5

LEMMA RowsStay ==
  ASSUME FollowUpsInv, UNCHANGED followUps
  PROVE  RowsGrow
  BY DEF RowsGrow, FollowUpIds

LEMMA CallsKept ==
  ASSUME FollowUpsInv, RowsGrow, UNCHANGED calls
  PROVE  CallsAreGood'
  BY KnownGrows DEF FollowUpsInv, CallsAreGood

LEMMA CallMoves ==
  ASSUME FollowUpsInv, RowsGrow, NEW kind \in Kinds, NEW call \in GoodCalls'[kind],
         calls' = [calls EXCEPT ![kind] = call]
  PROVE  CallsAreGood'
  BY KnownGrows DEF FollowUpsInv, CallsAreGood

LEMMA NoCallIsGood == \A kind \in Kinds : NoCall \in GoodCalls[kind]
<1>1. /\ NoCall.stage = "idle"
      /\ NoCall \in [stage : Stages, id : Nat, base : Rows \cup {None}, value : Values,
                     result : Listings \cup {None}]
  BY DEF NoCall, Stages, Values, Sources
<1>2. QED
  BY <1>1 DEF GoodCalls

LEMMA ClosedFormIsGood == ClosedForm \in EditForms /\ ClosedForm \in PageForms
<1>1. /\ ClosedForm \in [id : Nat, base : Rows \cup {None}, value : Texts \cup {None},
                         conflict : BOOLEAN, snapshot : Rows \cup {None}]
      /\ ClosedForm.id = 0 /\ ClosedForm.snapshot = None
  BY DEF ClosedForm
<1>2. ClosedForm.conflict = FALSE
  BY DEF ClosedForm
<1>3. QED
  BY <1>1, <1>2 DEF EditForms, PageForms

LEMMA PageFields ==
  ASSUME FollowUpsInv
  PROVE  /\ page \in [list : Listings, archived : BOOLEAN, edit : EditForms,
                      link : PageForms, resolution : Nat, removal : PageForms]
         /\ page.edit \in [id : Nat, base : Rows \cup {None}, value : Texts \cup {None},
                           conflict : BOOLEAN, snapshot : Rows \cup {None}]
         /\ \A f \in DOMAIN page.list :
              /\ f \in Nat /\ f # 0 /\ page.list[f] \in Rows
              /\ <<f, page.list[f]>> \in Known
<1>1. page \in [list : Listings, archived : BOOLEAN, edit : EditForms,
                link : PageForms, resolution : Nat, removal : PageForms]
  BY DEF FollowUpsInv, Pages
<1>2. page.edit \in [id : Nat, base : Rows \cup {None}, value : Texts \cup {None},
                     conflict : BOOLEAN, snapshot : Rows \cup {None}]
  BY <1>1 DEF EditForms, PageForms
<1>3. ASSUME NEW f \in DOMAIN page.list
      PROVE  /\ f \in Nat /\ f # 0 /\ page.list[f] \in Rows
             /\ <<f, page.list[f]>> \in Known
  <2>1. <<f, page.list[f]>> \in Known
    BY <1>1 DEF Listings
  <2>2. f \in Nat /\ page.list[f] \in Rows /\ f \in FollowUpIds
    BY <2>1 DEF Known
  <2>3. QED
    BY <2>1, <2>2, FollowUpTypes
<1>4. QED
  BY <1>1, <1>2, <1>3

\* A form that is filled from a row that is known.
LEMMA FormFilled ==
  ASSUME NEW id \in Nat, id # 0, NEW base \in Rows, <<id, base>> \in Known,
         NEW value \in Texts
  PROVE  /\ [ClosedForm EXCEPT !.id = id, !.base = base] \in PageForms
         /\ [ClosedForm EXCEPT !.id = id, !.base = base, !.value = value] \in EditForms
         /\ [ClosedForm EXCEPT !.id = id, !.base = base, !.value = value].id = id
<1> DEFINE opened == [ClosedForm EXCEPT !.id = id, !.base = base]
           filled == [ClosedForm EXCEPT !.id = id, !.base = base, !.value = value]
<1>1. /\ opened \in [id : Nat, base : Rows \cup {None}, value : Texts \cup {None},
                     conflict : BOOLEAN, snapshot : Rows \cup {None}]
      /\ opened.id = id /\ opened.base = base /\ opened.snapshot = None
  BY DEF ClosedForm
<1>2. /\ filled \in [id : Nat, base : Rows \cup {None}, value : Texts \cup {None},
                     conflict : BOOLEAN, snapshot : Rows \cup {None}]
      /\ filled.id = id /\ filled.base = base /\ filled.snapshot = None
      /\ filled.value = value
  BY DEF ClosedForm
<1> HIDE DEF opened, filled
<1>3. opened \in PageForms /\ filled \in EditForms
  BY <1>1, <1>2 DEF PageForms, EditForms
<1>4. QED
  BY <1>2, <1>3 DEF opened, filled

\* It is a row of the list.
LEMMA FilledForm ==
  ASSUME FollowUpsInv, NEW f \in DOMAIN page.list
  PROVE  /\ [ClosedForm EXCEPT !.id = f, !.base = page.list[f]] \in PageForms
         /\ [ClosedForm EXCEPT !.id = f, !.base = page.list[f],
                               !.value = page.list[f].text] \in EditForms
<1>1. /\ f \in Nat /\ f # 0 /\ page.list[f] \in Rows /\ <<f, page.list[f]>> \in Known
      /\ page.list[f].text \in Texts
  BY PageFields DEF Rows
<1>2. QED
  BY <1>1, FormFilled

\* Steps of the page that send nothing.
LEMMA FormStep ==
  ASSUME FollowUpsInv, UNCHANGED <<archived, current, followUps, calls>>,
         page' \in Pages,
         page'.edit.id = page.edit.id \/ ~Saving("refresh")
  PROVE  FollowUpsInv'
<1>1. CallsAreGood' /\ page' \in Pages'
  BY RowsStay, CallsKept, KnownGrows
<1>2. Tables'
  BY DEF FollowUpsInv, Tables
<1>3. RefreshIsForTheEdit'
  BY DEF FollowUpsInv, RefreshIsForTheEdit, Saving
<1>4. QED
  BY <1>1, <1>2, <1>3 DEF FollowUpsInv

LEMMA OpenStep ==
  ASSUME FollowUpsInv, NEW f \in DOMAIN page.list,
         OpenEdit(f) \/ OpenSourceLink(f) \/ ConfirmRemoval(f) \/ OpenResolution(f)
  PROVE  FollowUpsInv'
<1> DEFINE filled == [ClosedForm EXCEPT !.id = f, !.base = page.list[f]]
           edit == [ClosedForm EXCEPT !.id = f, !.base = page.list[f],
                                      !.value = page.list[f].text]
<1>1. /\ UNCHANGED <<archived, current, followUps, calls>>
      /\ filled \in PageForms /\ edit \in EditForms /\ f \in Nat
  BY FilledForm, PageFields
  DEF OpenEdit, OpenSourceLink, ConfirmRemoval, OpenResolution
<1> HIDE DEF filled, edit
<1>2. CASE page' = [page EXCEPT !.edit = edit] /\ ~ActionDisabled
  <2>1. page' \in Pages
    BY <1>1, <1>2, PageFields DEF Pages
  <2>2. ~Saving("refresh")
    BY <1>2 DEF ActionDisabled, FollowUpsInv, RefreshIsForTheEdit, Saving
  <2>3. QED
    BY <1>1, <2>1, <2>2, FormStep
<1>3. CASE page' \in {[page EXCEPT !.link = filled], [page EXCEPT !.removal = filled],
                      [page EXCEPT !.resolution = f]}
  <2>1. page' \in Pages /\ page'.edit.id = page.edit.id
    BY <1>1, <1>3, PageFields DEF Pages
  <2>2. QED
    BY <1>1, <2>1, FormStep
<1>4. QED
  BY <1>2, <1>3
  DEF OpenEdit, OpenSourceLink, ConfirmRemoval, OpenResolution, filled, edit

LEMMA CloseStep ==
  ASSUME FollowUpsInv, CloseSourceLink \/ CancelRemoval \/ CancelResolution
  PROVE  FollowUpsInv'
<1>1. /\ UNCHANGED <<archived, current, followUps, calls>>
      /\ page' \in {[page EXCEPT !.link = ClosedForm], [page EXCEPT !.removal = ClosedForm],
                    [page EXCEPT !.resolution = 0]}
  BY DEF CloseSourceLink, CancelRemoval, CancelResolution
<1>2. page' \in Pages /\ page'.edit.id = page.edit.id
  BY <1>1, PageFields, ClosedFormIsGood DEF Pages
<1>3. QED
  BY <1>1, <1>2, FormStep

LEMMA TypeEditStep ==
  ASSUME FollowUpsInv, NEW text \in Texts, TypeEdit(text)
  PROVE  FollowUpsInv'
<1> DEFINE edit == [page.edit EXCEPT !.value = text]
<1>1. /\ UNCHANGED <<archived, current, followUps, calls>>
      /\ page' = [page EXCEPT !.edit = edit]
  BY PageFields DEF TypeEdit
<1>2. edit \in EditForms /\ edit.id = page.edit.id
  BY PageFields DEF EditForms, PageForms
<1> HIDE DEF edit
<1>3. page' \in Pages /\ page'.edit.id = page.edit.id
  BY <1>1, <1>2, PageFields DEF Pages
<1>4. QED
  BY <1>1, <1>3, FormStep

LEMMA ReloadEditStep ==
  ASSUME FollowUpsInv, ReloadEdit
  PROVE  FollowUpsInv'
<1> DEFINE snapshot == page.edit.snapshot
           edit == [ClosedForm EXCEPT !.id = page.edit.id, !.base = snapshot,
                                      !.value = snapshot.text]
<1>1. /\ UNCHANGED <<archived, current, followUps, calls>>
      /\ page' = [page EXCEPT !.edit = edit] /\ snapshot # None
  BY DEF ReloadEdit
<1>2. /\ page.edit.id \in Nat /\ <<page.edit.id, snapshot>> \in Known
      /\ snapshot \in Rows /\ snapshot.text \in Texts
  BY <1>1, PageFields DEF EditForms, PageForms, Rows
<1>3. page.edit.id # 0
  BY <1>2, FollowUpTypes DEF Known
<1>4. edit \in EditForms /\ edit.id = page.edit.id
  BY <1>2, <1>3, FormFilled
<1> HIDE DEF edit
<1>5. page' \in Pages /\ page'.edit.id = page.edit.id
  BY <1>1, <1>4, PageFields DEF Pages
<1>6. QED
  BY <1>1, <1>5, FormStep

\* An edit is given up, and with it the refresh of a conflict.
LEMMA EditEnds ==
  ASSUME FollowUpsInv, UNCHANGED <<archived, current, followUps>>,
         page' \in Pages, calls' = [calls EXCEPT !["refresh"] = NoCall]
  PROVE  FollowUpsInv'
<1>1. CallsAreGood' /\ page' \in Pages'
  <2>1. NoCall \in GoodCalls'["refresh"] /\ "refresh" \in Kinds
    BY RowsStay, NoCallIsGood, KnownGrows DEF Kinds
  <2>2. QED
    BY <2>1, RowsStay, CallMoves, KnownGrows
<1>2. Tables'
  BY DEF FollowUpsInv, Tables
<1>3. calls'["refresh"].stage = "idle"
  BY DEF FollowUpsInv, CallsAreGood, Kinds, NoCall
<1>4. QED
  BY <1>1, <1>2, <1>3 DEF FollowUpsInv, RefreshIsForTheEdit

LEMMA GiveUpStep ==
  ASSUME FollowUpsInv, CancelEdit \/ StatusArrives
  PROVE  FollowUpsInv'
<1>1. CASE CancelEdit
  <2>1. page' \in Pages
    BY <1>1, PageFields, ClosedFormIsGood DEF CancelEdit, Pages
  <2>2. QED
    BY <1>1, <2>1, EditEnds DEF CancelEdit
<1>2. CASE StatusArrives /\ archived
  <2>1. page' \in Pages
    BY <1>2, PageFields, ClosedFormIsGood DEF StatusArrives, Pages
  <2>2. QED
    BY <1>2, <2>1, EditEnds DEF StatusArrives
<1>3. CASE StatusArrives /\ ~archived
  <2>1. page' \in Pages /\ page'.edit.id = page.edit.id
    BY <1>3, PageFields DEF StatusArrives, Pages
  <2>2. QED
    BY <1>3, <2>1, FormStep DEF StatusArrives
<1>4. QED
  BY <1>1, <1>2, <1>3

-----------------------------------------------------------------------------
(* Requests of the page, and their answers.                                *)

LEMMA CallFields ==
  ASSUME FollowUpsInv, NEW kind \in Kinds
  PROVE  /\ DOMAIN calls = Kinds /\ calls[kind] \in GoodCalls[kind]
         /\ calls[kind] \in [stage : Stages, id : Nat, base : Rows \cup {None},
                             value : Values, result : Listings \cup {None}]
         /\ calls[kind].stage # "idle" => Carries(kind, calls[kind])
  BY DEF FollowUpsInv, CallsAreGood, GoodCalls

\* A request for a row that is known.
LEMMA SentIsGood ==
  ASSUME FollowUpsInv, NEW kind \in Kinds, NEW id \in Nat, NEW base \in Rows \cup {None},
         NEW value \in Values,
         kind = "create" => value \in [text : Texts, source : Sources],
         kind = "update" => value \in Texts /\ <<id, base>> \in Known,
         kind = "source-link" => value \in Sources /\ <<id, base>> \in Known,
         kind = "resolve" => value \in Resolved /\ <<id, base>> \in Known
  PROVE  [stage |-> "sent", id |-> id, base |-> base, value |-> value, result |-> None]
           \in GoodCalls[kind]
<1> DEFINE call == [stage |-> "sent", id |-> id, base |-> base, value |-> value,
                    result |-> None]
<1>1. /\ call \in [stage : Stages, id : Nat, base : Rows \cup {None}, value : Values,
                   result : Listings \cup {None}]
      /\ call.stage = "sent" /\ call.id = id /\ call.base = base /\ call.value = value
  BY DEF Stages
<1> HIDE DEF call
<1>2. Carries(kind, call)
  BY <1>1 DEF Carries
<1>3. call \in GoodCalls[kind]
  BY <1>1, <1>2 DEF GoodCalls
<1>4. QED
  BY <1>3 DEF call

\* A request of the page leaves the tables, and the edit, as they are.
LEMMA SendStep ==
  ASSUME FollowUpsInv, NEW kind \in Kinds, NEW call \in GoodCalls[kind],
         calls' = [calls EXCEPT ![kind] = call],
         UNCHANGED <<archived, current, followUps>>,
         page' \in Pages, page'.edit.id = page.edit.id,
         kind = "refresh" => page.edit.id # 0 /\ call.stage # "done"
  PROVE  FollowUpsInv'
<1>1. CallsAreGood' /\ page' \in Pages'
  BY RowsStay, CallMoves, KnownGrows
<1>2. Tables'
  BY DEF FollowUpsInv, Tables
<1>3. /\ kind = "refresh" => calls'["refresh"] = call
      /\ kind # "refresh" => calls'["refresh"] = calls["refresh"]
  BY CallFields
<1>4. RefreshIsForTheEdit'
  BY <1>3 DEF FollowUpsInv, RefreshIsForTheEdit
<1>5. QED
  BY <1>1, <1>2, <1>4 DEF FollowUpsInv

LEMMA RequestStep ==
  ASSUME FollowUpsInv, NEW kind \in Kinds \ {"list", "refresh"}, NEW id \in Nat,
         NEW base \in Rows \cup {None}, NEW value \in Values,
         kind = "create" => value \in [text : Texts, source : Sources],
         kind = "update" => value \in Texts /\ <<id, base>> \in Known,
         kind = "source-link" => value \in Sources /\ <<id, base>> \in Known,
         kind = "resolve" => value \in Resolved /\ <<id, base>> \in Known,
         Send(kind, id, base, value),
         UNCHANGED <<archived, current, followUps>>,
         page' \in Pages, page'.edit.id = page.edit.id
  PROVE  FollowUpsInv'
  BY SentIsGood, SendStep DEF Send

LEMMA CommandStep ==
  ASSUME FollowUpsInv,
         \/ \E text \in Texts, source \in Sources : CreateFollowUp(text, source)
         \/ SaveEdit
         \/ \E source \in Snapshots : SaveSourceLink(source)
         \/ AcceptRemoval
         \/ \E status \in Resolved : ResolveFollowUp(status)
  PROVE  FollowUpsInv'
<1>1. page \in Pages
  BY DEF FollowUpsInv
<1>2. ASSUME NEW text \in Texts, NEW source \in Sources, CreateFollowUp(text, source)
      PROVE  FollowUpsInv'
  <2>1. [text |-> text, source |-> source] \in Values
    BY DEF Values
  <2>2. QED
    BY <1>1, <1>2, <2>1, RequestStep DEF CreateFollowUp, Kinds
<1>3. CASE SaveEdit
  <2>1. /\ page.edit.id \in Nat /\ <<page.edit.id, page.edit.base>> \in Known
        /\ page.edit.base \in Rows \cup {None} /\ page.edit.value \in Texts
    BY <1>3, PageFields DEF SaveEdit, EditForms, PageForms
  <2>2. page.edit.value \in Values
    BY <2>1 DEF Values
  <2>3. QED
    BY <1>1, <1>3, <2>1, <2>2, RequestStep DEF SaveEdit, Kinds
<1>4. ASSUME NEW source \in Snapshots, SaveSourceLink(source)
      PROVE  FollowUpsInv'
  <2>1. /\ page.link.id \in Nat /\ <<page.link.id, page.link.base>> \in Known
        /\ page.link.base \in Rows \cup {None}
    BY <1>4, PageFields DEF SaveSourceLink, PageForms
  <2>2. source \in Values /\ source \in Sources
    BY DEF Values, Sources
  <2>3. QED
    BY <1>1, <1>4, <2>1, <2>2, RequestStep DEF SaveSourceLink, Kinds
<1>5. CASE AcceptRemoval
  <2>1. /\ page.removal.id \in Nat /\ <<page.removal.id, page.removal.base>> \in Known
        /\ page.removal.base \in Rows \cup {None}
    BY <1>5, PageFields DEF AcceptRemoval, PageForms
  <2>2. None \in Values /\ None \in Sources
    BY DEF Values, Sources
  <2>3. page' \in Pages /\ page'.edit.id = page.edit.id
    BY <1>5, PageFields, ClosedFormIsGood DEF AcceptRemoval, Pages
  <2>4. QED
    BY <1>5, <2>1, <2>2, <2>3, RequestStep DEF AcceptRemoval, Kinds
<1>6. ASSUME NEW status \in Resolved, ResolveFollowUp(status)
      PROVE  FollowUpsInv'
  <2>1. page.resolution \in DOMAIN page.list
    BY <1>6 DEF ResolveFollowUp, ListedOpen, Listed
  <2>2. status \in Values
    BY DEF Values
  <2>3. QED
    BY <1>1, <1>6, <2>1, <2>2, PageFields, RequestStep DEF ResolveFollowUp, Kinds
<1>7. QED
  BY <1>2, <1>3, <1>4, <1>5, <1>6

LEMMA RetryRefreshStep ==
  ASSUME FollowUpsInv, RetryRefresh
  PROVE  FollowUpsInv'
<1> DEFINE edit == [page.edit EXCEPT !.snapshot = None]
           call == [stage |-> "sent", id |-> page.edit.id, base |-> None, value |-> None,
                    result |-> None]
<1>1. /\ page.edit.conflict /\ UNCHANGED <<archived, current, followUps>>
      /\ calls' = [calls EXCEPT !["refresh"] = call]
      /\ page' = [page EXCEPT !.edit = edit]
  BY PageFields DEF RetryRefresh, Send
<1>2. page.edit.id # 0
  BY <1>1, PageFields DEF EditForms, PageForms
<1>3. edit \in EditForms /\ edit.id = page.edit.id
  BY PageFields DEF EditForms, PageForms
<1>4. call \in GoodCalls["refresh"] /\ call.stage = "sent" /\ "refresh" \in Kinds
  BY SentIsGood, PageFields DEF Kinds, Values, Sources
<1> HIDE DEF edit, call
<1>5. page' \in Pages /\ page'.edit.id = page.edit.id
  BY <1>1, <1>3, PageFields DEF Pages
<1>6. QED
  BY <1>1, <1>2, <1>4, <1>5, SendStep

\* A request is lost.
LEMMA LoseStep ==
  ASSUME FollowUpsInv, NEW kind \in Kinds, Lose(kind)
  PROVE  FollowUpsInv'
<1> DEFINE call == [calls[kind] EXCEPT !.stage = "lost"]
<1>1. /\ calls' = [calls EXCEPT ![kind] = call] /\ calls[kind].stage # "idle"
      /\ UNCHANGED <<archived, current, followUps, page>>
  BY DEF Lose
<1>2. /\ call \in [stage : Stages, id : Nat, base : Rows \cup {None}, value : Values,
                   result : Listings \cup {None}]
      /\ call.stage = "lost" /\ call.id = calls[kind].id /\ call.base = calls[kind].base
      /\ call.value = calls[kind].value
  BY CallFields DEF Stages
<1> HIDE DEF call
<1>3. call \in GoodCalls[kind]
  BY <1>1, <1>2, CallFields DEF GoodCalls, Carries
<1>4. kind = "refresh" => page.edit.id # 0
  BY <1>1 DEF FollowUpsInv, RefreshIsForTheEdit
<1>5. page' \in Pages /\ page'.edit.id = page.edit.id
  BY <1>1 DEF FollowUpsInv
<1>6. QED
  BY <1>1, <1>2, <1>3, <1>4, <1>5, SendStep

\* Answers that leave the page as it is.
LEMMA ReceiveErrorStep ==
  ASSUME FollowUpsInv, NEW kind \in Kinds, ReceiveError(kind)
  PROVE  FollowUpsInv'
<1>1. page' \in Pages /\ page'.edit.id = page.edit.id
  BY DEF ReceiveError, FollowUpsInv
<1>2. QED
  BY <1>1, NoCallIsGood, SendStep DEF ReceiveError

LEMMA ReceiveListStep ==
  ASSUME FollowUpsInv, ReceiveList
  PROVE  FollowUpsInv'
<1>1. CASE /\ calls["list"].stage = "done"
           /\ page' = [page EXCEPT !.list = calls["list"].result]
           /\ calls' = [calls EXCEPT !["list"] = NoCall]
  <2>1. calls["list"].result \in Listings
    BY <1>1, CallFields DEF Kinds, Carries
  <2>2. page' \in Pages /\ page'.edit.id = page.edit.id
    BY <1>1, <2>1, PageFields DEF Pages
  <2>3. QED
    BY <1>1, <2>2, NoCallIsGood, SendStep DEF ReceiveList, Kinds
<1>2. CASE Send("list", 0, None, None) /\ UNCHANGED page
  <2>1. page' \in Pages /\ page'.edit.id = page.edit.id
    BY <1>2 DEF FollowUpsInv
  <2>2. None \in Values
    BY DEF Values, Sources
  <2>3. QED
    BY <1>2, <2>1, <2>2, SentIsGood, SendStep DEF ReceiveList, Send, Kinds
<1>3. QED
  BY <1>1, <1>2 DEF ReceiveList

LEMMA ReceiveRefreshStep ==
  ASSUME FollowUpsInv, ReceiveRefresh
  PROVE  FollowUpsInv'
<1> DEFINE result == calls["refresh"].result
           edit == [page.edit EXCEPT !.snapshot = result[page.edit.id]]
<1>1. /\ calls' = [calls EXCEPT !["refresh"] = NoCall]
      /\ UNCHANGED <<archived, current, followUps>>
  BY DEF ReceiveRefresh
<1>2. page' \in Pages
  <2>1. CASE calls["refresh"].stage = "done"
    <3>1. result \in Listings
      BY <2>1, CallFields DEF Kinds, Carries
    <3>2. page.edit.id \in DOMAIN result
      BY <2>1 DEF FollowUpsInv, RefreshIsForTheEdit
    <3>3. <<page.edit.id, result[page.edit.id]>> \in Known
      BY <3>1, <3>2 DEF Listings
    <3>4. result[page.edit.id] \in Rows
      BY <3>3 DEF Known
    <3>5. edit \in EditForms
      BY <3>3, <3>4, PageFields DEF EditForms, PageForms
    <3>6. page' = [page EXCEPT !.list = result, !.edit = edit]
      BY <2>1, PageFields DEF ReceiveRefresh
    <3> HIDE DEF edit, result
    <3>7. QED
      BY <3>1, <3>5, <3>6, PageFields DEF Pages
  <2>2. CASE UNCHANGED page
    BY <2>2 DEF FollowUpsInv
  <2>3. QED
    BY <2>1, <2>2 DEF ReceiveRefresh
<1>3. QED
  BY <1>1, <1>2, EditEnds

\* An edit that was refused keeps its draft and fetches the row.
LEMMA ReceiveConflictStep ==
  ASSUME FollowUpsInv, ReceiveConflict
  PROVE  FollowUpsInv'
<1>1. UNCHANGED <<archived, current, followUps>> /\ calls["update"].stage = "refused"
  BY DEF ReceiveConflict
<1>2. CASE calls' = [calls EXCEPT !["update"] = NoCall] /\ UNCHANGED page
  <2>1. page' \in Pages /\ page'.edit.id = page.edit.id
    BY <1>2 DEF FollowUpsInv
  <2>2. QED
    BY <1>1, <1>2, <2>1, NoCallIsGood, SendStep DEF Kinds
<1>3. CASE /\ page.edit.id = calls["update"].id
           /\ page' = [page EXCEPT !.edit.conflict = TRUE, !.edit.snapshot = None]
           /\ calls' = [calls EXCEPT !["update"] = NoCall,
                                     !["refresh"] = [NoCall EXCEPT !.stage = "sent",
                                                                   !.id = page.edit.id]]
  <2> DEFINE edit == [page.edit EXCEPT !.conflict = TRUE, !.snapshot = None]
             call == [NoCall EXCEPT !.stage = "sent", !.id = page.edit.id]
  <2>1. page.edit.id # 0
    <3>1. <<calls["update"].id, calls["update"].base>> \in Known
      BY <1>1, CallFields DEF Carries, Kinds
    <3>2. QED
      BY <1>3, <3>1, FollowUpTypes DEF Known
  <2>2. page' = [page EXCEPT !.edit = edit]
    BY <1>3, PageFields
  <2>3. edit \in EditForms /\ edit.id = page.edit.id
    BY <2>1, PageFields DEF EditForms, PageForms
  <2> HIDE DEF edit
  <2>4. page' \in Pages /\ page'.edit.id = page.edit.id
    BY <2>2, <2>3, PageFields DEF Pages
  <2>5. call \in GoodCalls["refresh"] /\ call.stage = "sent"
    <3>1. /\ call \in [stage : Stages, id : Nat, base : Rows \cup {None}, value : Values,
                       result : Listings \cup {None}]
          /\ call.stage = "sent"
      BY PageFields DEF NoCall, Stages, Values, Sources
    <3> HIDE DEF call
    <3>2. Carries("refresh", call)
      BY <3>1 DEF Carries
    <3>3. QED
      BY <3>1, <3>2 DEF GoodCalls, Kinds
  <2> HIDE DEF call
  <2>6. /\ DOMAIN calls' = Kinds /\ calls'["update"] = NoCall /\ calls'["refresh"] = call
        /\ \A kind \in Kinds \ {"update", "refresh"} : calls'[kind] = calls[kind]
    BY <1>3, CallFields DEF Kinds, call
  <2>7. CallsAreGood' /\ page' \in Pages'
    <3>1. \A kind \in Kinds : calls'[kind] \in GoodCalls[kind]
      BY <2>5, <2>6, CallFields, NoCallIsGood
    <3>2. QED
      BY <1>1, <2>4, <2>6, <3>1, RowsStay, KnownGrows DEF CallsAreGood
  <2>8. RefreshIsForTheEdit' /\ Tables'
    BY <1>1, <2>1, <2>4, <2>5, <2>6 DEF RefreshIsForTheEdit, FollowUpsInv, Tables
  <2>9. QED
    BY <2>7, <2>8 DEF FollowUpsInv
<1>4. QED
  BY <1>2, <1>3 DEF ReceiveConflict

\* The row that was changed, or added, replaces the one shown.
LEMMA ReceiveDoneStep ==
  ASSUME FollowUpsInv, NEW kind \in Kinds, ReceiveDone(kind)
  PROVE  FollowUpsInv'
<1> DEFINE list == Replaced(page.list, calls[kind].result)
           edit == IF kind = "update" THEN ClosedForm ELSE page.edit
           link == IF kind = "source-link" /\ calls[kind].value # None
                   THEN ClosedForm ELSE page.link
           resolution == IF kind = "resolve" THEN 0 ELSE page.resolution
           refresh == IF kind = "update" THEN NoCall ELSE calls["refresh"]
<1>1. /\ kind \notin {"list", "refresh"} /\ calls[kind].stage = "done"
      /\ UNCHANGED <<archived, current, followUps>>
  BY DEF ReceiveDone
<1>2. list \in Listings
  <2>1. calls[kind].result \in Listings /\ page.list \in Listings
    BY <1>1, CallFields, PageFields DEF Carries
  <2>2. ASSUME NEW known \in Listings, NEW rows \in Listings
        PROVE  Replaced(known, rows) \in Listings
    <3> DEFINE both == Replaced(known, rows)
    <3>1. /\ DOMAIN known \subseteq Nat /\ DOMAIN rows \subseteq Nat
          /\ \A f \in DOMAIN known : <<f, known[f]>> \in Known
          /\ \A f \in DOMAIN rows : <<f, rows[f]>> \in Known
      BY DEF Listings
    <3>2. \A f \in DOMAIN known \cup DOMAIN rows : both[f] \in {known[f], rows[f]} /\
            <<f, both[f]>> \in Known
      BY <3>1 DEF Replaced
    <3>3. \A f \in DOMAIN known \cup DOMAIN rows : both[f] \in Rows
      BY <3>2 DEF Known
    <3>4. both \in [DOMAIN known \cup DOMAIN rows -> Rows]
      BY <3>3 DEF Replaced
    <3> HIDE DEF both
    <3>5. QED
      BY <3>1, <3>2, <3>4 DEF Listings, both
  <2>3. QED
    BY <2>1, <2>2
<1>3. /\ edit \in EditForms /\ link \in PageForms /\ resolution \in Nat
  BY PageFields, ClosedFormIsGood
<1>4. page' = [page EXCEPT !.list = list, !.edit = edit, !.link = link,
                           !.resolution = resolution]
  BY PageFields DEF ReceiveDone, Closed
<1>5. edit.id # 0 => kind # "update" /\ edit = page.edit
  BY DEF ClosedForm
<1>6. /\ DOMAIN calls' = Kinds /\ calls'[kind] = NoCall /\ calls'["refresh"] = refresh
      /\ \A other \in Kinds \ {kind, "refresh"} : calls'[other] = calls[other]
  BY <1>1, CallFields DEF ReceiveDone, Kinds
<1>7. RefreshIsForTheEdit'
  <2>1. CASE kind = "update"
    BY <1>6, <2>1 DEF RefreshIsForTheEdit, NoCall
  <2>2. CASE kind # "update"
    <3>1. page'.edit = page.edit /\ calls'["refresh"] = calls["refresh"]
      BY <1>4, <1>6, <2>2, PageFields
    <3>2. QED
      BY <3>1 DEF FollowUpsInv, RefreshIsForTheEdit
  <2>3. QED
    BY <2>1, <2>2
<1> HIDE DEF list, edit, link, resolution
<1>8. page' \in Pages
  BY <1>2, <1>3, <1>4, PageFields DEF Pages
<1>9. \A other \in Kinds : calls'[other] \in GoodCalls[other]
  BY <1>6, CallFields, NoCallIsGood DEF Kinds
<1>10. CallsAreGood' /\ page' \in Pages' /\ Tables'
  BY <1>1, <1>6, <1>8, <1>9, RowsStay, KnownGrows DEF CallsAreGood, FollowUpsInv, Tables
<1>11. QED
  BY <1>7, <1>10 DEF FollowUpsInv

-----------------------------------------------------------------------------
(* The API.                                                                *)

LEMMA SequenceAppended ==
  ASSUME NEW S, NEW s \in Seq(S), NEW e \in S
  PROVE  /\ Append(s, e) \in Seq(S)
         /\ Len(Append(s, e)) = Len(s) + 1
         /\ DOMAIN Append(s, e) = DOMAIN s \cup {Len(s) + 1}
         /\ \A m \in DOMAIN s : Append(s, e)[m] = s[m]
  BY AppendProperties, LenProperties

LEMMA RowChanges ==
  ASSUME FollowUpsInv, NEW f \in FollowUpIds, NEW row \in Rows,
         row.version = followUps[f].version, Changed(f, row),
         UNCHANGED <<archived, current>>
  PROVE  RowsGrow /\ Tables' /\ FollowUpIds' = FollowUpIds
<1> DEFINE next == [row EXCEPT !.version = row.version + 1]
<1>1. row.version < MaxRowVersions /\ followUps' = [followUps EXCEPT ![f] = next]
  BY DEF Changed
<1>2. row.version \in 1..MaxRowVersions /\ row.version + 1 \in 1..MaxRowVersions
  BY <1>1, FollowUpsAssumption DEF Rows
<1>3. next \in Rows /\ next.version = row.version + 1
  BY <1>2 DEF Rows
<1> HIDE DEF next
<1>4. /\ DOMAIN followUps' = DOMAIN followUps /\ followUps'[f] = next
      /\ \A g \in FollowUpIds \ {f} : followUps'[g] = followUps[g]
  BY <1>1 DEF FollowUpIds
<1>5. followUps' \in Seq(Rows)
  <2>1. followUps' \in [1..Len(followUps) -> Rows]
    BY <1>1, <1>3, <1>4, FollowUpTypes DEF FollowUpIds
  <2>2. QED
    BY <2>1, FollowUpTypes, IsASeq
<1>6. RowsGrow
  BY <1>2, <1>3, <1>4, FollowUpsAssumption DEF RowsGrow, FollowUpIds
<1>7. QED
  BY <1>4, <1>5, <1>6 DEF FollowUpsInv, Tables, FollowUpIds

LEMMA RowAdded ==
  ASSUME FollowUpsInv, NEW text \in Texts, NEW source \in Sources, Create(text, source),
         UNCHANGED <<archived, current>>
  PROVE  RowsGrow /\ Tables' /\ Len(followUps') \in FollowUpIds'
<1>1. Row(text, source) \in Rows
  BY FollowUpsAssumption DEF Row, Rows, Sources
<1>2. followUps' = Append(followUps, Row(text, source)) /\ followUps \in Seq(Rows)
  BY DEF Create, FollowUpsInv, Tables
<1>3. /\ followUps' \in Seq(Rows) /\ Len(followUps') = Len(followUps) + 1
      /\ DOMAIN followUps' = DOMAIN followUps \cup {Len(followUps) + 1}
      /\ \A f \in DOMAIN followUps : followUps'[f] = followUps[f]
  BY <1>1, <1>2, SequenceAppended
<1>4. QED
  BY <1>3 DEF RowsGrow, FollowUpIds, FollowUpsInv, Tables

LEMMA RowsKept ==
  ASSUME FollowUpsInv, UNCHANGED <<archived, current, followUps>>
  PROVE  RowsGrow /\ Tables' /\ FollowUpIds' = FollowUpIds
  BY RowsStay DEF FollowUpsInv, Tables, FollowUpIds

LEMMA UpdateGrows ==
  ASSUME FollowUpsInv, NEW f \in FollowUpIds, UNCHANGED <<archived, current>>,
         \/ \E text \in Texts : Update(f, text)
         \/ \E source \in Sources : SetSourceLink(f, source)
         \/ \E status \in Resolved : Resolve(f, status)
  PROVE  RowsGrow /\ Tables' /\ FollowUpIds' = FollowUpIds
<1>1. followUps[f] \in Rows
  BY FollowUpTypes
<1>2. ASSUME NEW text \in Texts, Update(f, text)
      PROVE  RowsGrow /\ Tables' /\ FollowUpIds' = FollowUpIds
  <2> DEFINE row == [followUps[f] EXCEPT !.text = text]
  <2>1. row \in Rows /\ row.version = followUps[f].version
    BY <1>1 DEF Rows
  <2>2. UNCHANGED followUps \/ Changed(f, row)
    BY <1>2 DEF Update
  <2> HIDE DEF row
  <2>3. QED
    BY <2>1, <2>2, RowsKept, RowChanges
<1>3. ASSUME NEW source \in Sources, SetSourceLink(f, source)
      PROVE  RowsGrow /\ Tables' /\ FollowUpIds' = FollowUpIds
  <2> DEFINE row == [followUps[f] EXCEPT !.source = source]
  <2>1. row \in Rows /\ row.version = followUps[f].version
    BY <1>1 DEF Rows, Sources
  <2>2. UNCHANGED followUps \/ Changed(f, row)
    BY <1>3 DEF SetSourceLink
  <2> HIDE DEF row
  <2>3. QED
    BY <2>1, <2>2, RowsKept, RowChanges
<1>4. ASSUME NEW status \in Resolved, Resolve(f, status)
      PROVE  RowsGrow /\ Tables' /\ FollowUpIds' = FollowUpIds
  <2> DEFINE row == [followUps[f] EXCEPT !.status = status]
  <2>1. row \in Rows /\ row.version = followUps[f].version
    BY <1>1 DEF Rows
  <2>2. Changed(f, row)
    BY <1>4 DEF Resolve
  <2> HIDE DEF row
  <2>3. QED
    BY <2>1, <2>2, RowChanges
<1>5. QED
  BY <1>2, <1>3, <1>4

\* What is returned is what the table holds by then.
LEMMA RowsAreListed ==
  ASSUME Tables', NEW ids \in SUBSET FollowUpIds'
  PROVE  [f \in ids |-> followUps'[f]] \in Listings'
<1> DEFINE rows == [f \in ids |-> followUps'[f]]
<1>1. FollowUpIds' = 1..Len(followUps') /\ \A f \in FollowUpIds' : followUps'[f] \in Rows
  BY LenProperties, ElementOfSeq DEF Tables, FollowUpIds
<1>2. ids \in SUBSET Nat /\ rows \in [ids -> Rows]
  BY <1>1
<1>3. \A f \in ids : <<f, followUps'[f]>> \in Known'
  BY <1>1, FollowUpsAssumption DEF Known, Rows
<1>4. DOMAIN rows = ids /\ \A f \in ids : rows[f] = followUps'[f]
  OBVIOUS
<1> HIDE DEF rows
<1>5. rows \in Listings'
  BY <1>2, <1>3, <1>4 DEF Listings
<1>6. QED
  BY <1>5 DEF rows

\* A request that is carried out.
LEMMA CommandDone ==
  ASSUME FollowUpsInv, NEW kind \in Kinds, calls[kind].stage = "sent",
         ApiCommand(kind, calls[kind]), UNCHANGED <<archived, current>>
  PROVE  /\ RowsGrow /\ Tables'
         /\ Returned(kind, calls[kind]) \in Listings'
         /\ kind = "refresh" => Returned(kind, calls[kind]) = followUps
<1> DEFINE call == calls[kind]
<1>1. Carries(kind, call)
  BY CallFields
<1>2. CASE kind \in {"list", "refresh"}
  <2>1. UNCHANGED followUps
    BY <1>2 DEF ApiCommand
  <2>2. RowsGrow /\ Tables'
    BY <2>1, RowsKept
  <2>3. /\ followUps' = [f \in FollowUpIds' |-> followUps'[f]]
        /\ Returned(kind, call) = followUps
    BY <1>2, <2>1, FollowUpTypes DEF Returned, FollowUpIds, FollowUpsInv, Tables
  <2>4. [f \in FollowUpIds' |-> followUps'[f]] \in Listings'
    BY <2>2, RowsAreListed
  <2>5. Returned(kind, call) \in Listings'
    BY <2>1, <2>3, <2>4
  <2>6. QED
    BY <2>2, <2>3, <2>5
<1>3. CASE kind = "create"
  <2>1. Create(call.value.text, call.value.source)
    BY <1>3 DEF ApiCommand
  <2>2. call.value.text \in Texts /\ call.value.source \in Sources
    BY <1>1, <1>3 DEF Carries
  <2>3. RowsGrow /\ Tables' /\ Len(followUps') \in FollowUpIds'
    BY <2>1, <2>2, RowAdded
  <2>4. [f \in {Len(followUps')} |-> followUps'[f]] \in Listings'
    BY <2>3, RowsAreListed
  <2>5. Returned(kind, call) = [f \in {Len(followUps')} |-> followUps'[f]]
    BY <1>3 DEF Returned
  <2>6. QED
    BY <1>3, <2>3, <2>4, <2>5
<1>4. CASE kind \in {"update", "source-link", "resolve"}
  <2>1. call.id \in FollowUpIds
    BY <1>1, <1>4 DEF Carries, Known
  <2>2. \/ \E text \in Texts : Update(call.id, text)
        \/ \E source \in Sources : SetSourceLink(call.id, source)
        \/ \E status \in Resolved : Resolve(call.id, status)
    BY <1>1, <1>4 DEF ApiCommand, Carries
  <2>3. RowsGrow /\ Tables' /\ FollowUpIds' = FollowUpIds
    BY <2>1, <2>2, UpdateGrows
  <2>4. [f \in {call.id} |-> followUps'[f]] \in Listings'
    BY <2>1, <2>3, RowsAreListed
  <2>5. Returned(kind, call) = [f \in {call.id} |-> followUps'[f]]
    BY <1>4 DEF Returned
  <2>6. QED
    BY <1>4, <2>3, <2>4, <2>5
<1>5. QED
  BY <1>2, <1>3, <1>4 DEF Kinds

LEMMA ServeStep ==
  ASSUME FollowUpsInv, NEW kind \in Kinds, Serve(kind)
  PROVE  FollowUpsInv'
<1>1. calls[kind].stage = "sent" /\ UNCHANGED <<archived, current, page>>
  BY DEF Serve
<1>2. CASE /\ ApiCommand(kind, calls[kind])
           /\ calls' = [calls EXCEPT ![kind].stage = "done",
                                     ![kind].result = Returned(kind, calls[kind])]
  <2> DEFINE result == Returned(kind, calls[kind])
             call == [calls[kind] EXCEPT !.stage = "done", !.result = result]
  <2>1. RowsGrow /\ Tables' /\ result \in Listings' /\ (kind = "refresh" => result = followUps)
    BY <1>1, <1>2, CommandDone
  <2> HIDE DEF result
  <2>2. calls' = [calls EXCEPT ![kind] = call]
    BY <1>2, CallFields DEF result
  <2>3. calls[kind] \in GoodCalls'[kind]
    BY <2>1, CallFields, KnownGrows
  <2>4. /\ calls[kind] \in [stage : Stages, id : Nat, base : Rows \cup {None},
                            value : Values, result : Listings' \cup {None}]
        /\ Carries(kind, calls[kind])
    BY <1>1, <2>1, <2>3, CallFields DEF GoodCalls, Kinds
  <2>5. /\ call \in [stage : Stages, id : Nat, base : Rows \cup {None},
                     value : Values, result : Listings' \cup {None}]
        /\ call.id = calls[kind].id /\ call.base = calls[kind].base
        /\ call.value = calls[kind].value /\ call.result = result /\ call.stage = "done"
    BY <2>1, <2>4 DEF Stages
  <2> HIDE DEF call
  <2>6. call \in GoodCalls'[kind]
    BY <2>1, <2>4, <2>5, KnownGrows DEF GoodCalls, Carries
  <2>7. CallsAreGood' /\ page' \in Pages'
    BY <1>1, <2>1, <2>2, <2>6, CallMoves, KnownGrows DEF FollowUpsInv
  <2>8. RefreshIsForTheEdit'
    <3>1. CASE kind = "refresh"
      <4>1. page.edit.id # 0
        BY <1>1, <3>1 DEF FollowUpsInv, RefreshIsForTheEdit
      <4>2. page.edit.id \in DOMAIN followUps
        BY <4>1, PageFields DEF EditForms, PageForms, Known, FollowUpIds
      <4>3. calls'["refresh"] = call
        BY <2>2, <3>1, CallFields
      <4>4. QED
        BY <1>1, <2>1, <2>5, <3>1, <4>1, <4>2, <4>3 DEF RefreshIsForTheEdit
    <3>2. CASE kind # "refresh"
      <4>1. calls'["refresh"] = calls["refresh"]
        BY <2>2, <3>2, CallFields DEF Kinds
      <4>2. QED
        BY <1>1, <4>1 DEF FollowUpsInv, RefreshIsForTheEdit
    <3>3. QED
      BY <3>1, <3>2
  <2>9. QED
    BY <2>1, <2>7, <2>8 DEF FollowUpsInv
<1>3. CASE calls' = [calls EXCEPT ![kind].stage = "refused"] /\ UNCHANGED followUps
  <2> DEFINE call == [calls[kind] EXCEPT !.stage = "refused"]
  <2>1. calls' = [calls EXCEPT ![kind] = call]
    BY <1>3
  <2>2. /\ call \in [stage : Stages, id : Nat, base : Rows \cup {None}, value : Values,
                     result : Listings \cup {None}]
        /\ call.stage = "refused" /\ call.id = calls[kind].id
        /\ call.base = calls[kind].base /\ call.value = calls[kind].value
    BY CallFields DEF Stages
  <2> HIDE DEF call
  <2>3. call \in GoodCalls[kind]
    BY <1>1, <2>2, CallFields DEF GoodCalls, Carries
  <2>4. kind = "refresh" => page.edit.id # 0
    BY <1>1 DEF FollowUpsInv, RefreshIsForTheEdit
  <2>5. page' \in Pages /\ page'.edit.id = page.edit.id
    BY <1>1 DEF FollowUpsInv
  <2>6. QED
    BY <1>1, <1>3, <2>1, <2>2, <2>3, <2>4, <2>5, SendStep
<1>4. QED
  BY <1>2, <1>3 DEF Serve

-----------------------------------------------------------------------------
(* Steps of others, which the page does not hear of.                       *)

LEMMA UnheardStep ==
  ASSUME FollowUpsInv, RowsGrow, Tables', UNCHANGED <<page, calls>>
  PROVE  FollowUpsInv'
<1>1. CallsAreGood' /\ page' \in Pages'
  BY CallsKept, KnownGrows DEF FollowUpsInv
<1>2. RefreshIsForTheEdit'
  BY DEF FollowUpsInv, RefreshIsForTheEdit
<1>3. QED
  BY <1>1, <1>2 DEF FollowUpsInv

LEMMA OthersStep ==
  ASSUME FollowUpsInv, Elsewhere \/ IntakeMoves \/ ArchiveOrRestoreUnheard
  PROVE  FollowUpsInv'
<1>1. CASE Elsewhere
  <2>1. UNCHANGED <<archived, current, page, calls>>
    BY <1>1 DEF Elsewhere
  <2>2. RowsGrow /\ Tables'
    <3>1. ASSUME NEW text \in Texts, NEW source \in Sources, Create(text, source)
          PROVE  RowsGrow /\ Tables'
      BY <2>1, <3>1, RowAdded
    <3>2. ASSUME NEW f \in FollowUpIds,
                 \/ \E text \in Texts : Update(f, text)
                 \/ \E source \in Sources : SetSourceLink(f, source)
                 \/ \E status \in Resolved : Resolve(f, status)
          PROVE  RowsGrow /\ Tables'
      BY <2>1, <3>2, UpdateGrows
    <3>3. QED
      BY <1>1, <3>1, <3>2 DEF Elsewhere, Sources
  <2>3. QED
    BY <2>1, <2>2, UnheardStep
<1>2. CASE IntakeMoves \/ ArchiveOrRestoreUnheard
  <2>1. RowsGrow /\ UNCHANGED <<page, calls>>
    BY <1>2, RowsStay DEF IntakeMoves, ArchiveOrRestoreUnheard
  <2>2. Tables'
    BY <1>2 DEF IntakeMoves, ArchiveOrRestoreUnheard, FollowUpsInv, Tables
  <2>3. QED
    BY <2>1, <2>2, UnheardStep
<1>3. QED
  BY <1>1, <1>2

-----------------------------------------------------------------------------
(* The theorems.                                                           *)

LEMMA FollowUpsInvInit == FollowUpsInit => FollowUpsInv
<1> SUFFICES ASSUME FollowUpsInit PROVE FollowUpsInv
  OBVIOUS
<1>1. Tables
  <2>1. followUps = <<>> /\ archived \in BOOLEAN /\ current \subseteq Snapshots
    BY DEF FollowUpsInit
  <2>2. followUps \in Seq(Rows)
    BY <2>1
  <2>3. QED
    BY <2>1, <2>2 DEF Tables
<1>2. <<>> \in Listings
  <2>1. <<>> \in [{} -> Rows] /\ DOMAIN <<>> = {}
    OBVIOUS
  <2>2. QED
    BY <2>1 DEF Listings
<1>3. page \in Pages
  BY <1>2, ClosedFormIsGood DEF FollowUpsInit, Pages
<1>4. CallsAreGood
  <2> DEFINE call == [NoCall EXCEPT !.stage = "sent"]
  <2>1. /\ call \in [stage : Stages, id : Nat, base : Rows \cup {None}, value : Values,
                     result : Listings \cup {None}]
        /\ call.stage = "sent"
    BY DEF NoCall, Stages, Values, Sources
  <2> HIDE DEF call
  <2>2. call \in GoodCalls["list"]
    BY <2>1 DEF GoodCalls, Carries, Kinds
  <2>3. calls = [kind \in Kinds |-> IF kind = "list" THEN call ELSE NoCall]
    BY DEF FollowUpsInit, call
  <2>4. QED
    BY <2>2, <2>3, NoCallIsGood DEF CallsAreGood
<1>5. RefreshIsForTheEdit
  BY DEF FollowUpsInit, RefreshIsForTheEdit, NoCall, Kinds
<1>6. QED
  BY <1>1, <1>3, <1>4, <1>5 DEF FollowUpsInv

LEMMA FollowUpsInvStep == FollowUpsInv /\ [FollowUpsNext]_followUpVars => FollowUpsInv'
<1> SUFFICES ASSUME FollowUpsInv, [FollowUpsNext]_followUpVars PROVE FollowUpsInv'
  OBVIOUS
<1>1. CASE Forms
  <2>1. \A text \in Texts : TypeEdit(text) => FollowUpsInv'
    BY TypeEditStep
  <2>2. \A f \in DOMAIN page.list :
          OpenEdit(f) \/ OpenSourceLink(f) \/ ConfirmRemoval(f) \/ OpenResolution(f)
            => FollowUpsInv'
    BY OpenStep
  <2>3. CancelEdit \/ StatusArrives => FollowUpsInv'
    BY GiveUpStep
  <2>4. CloseSourceLink \/ CancelRemoval \/ CancelResolution => FollowUpsInv'
    BY CloseStep
  <2>5. (\/ \E text \in Texts, source \in Sources : CreateFollowUp(text, source)
         \/ SaveEdit
         \/ \E source \in Snapshots : SaveSourceLink(source)
         \/ AcceptRemoval
         \/ \E status \in Resolved : ResolveFollowUp(status))
          => FollowUpsInv'
    BY CommandStep
  <2>6. QED
    BY <1>1, <2>1, <2>2, <2>3, <2>4, <2>5, RetryRefreshStep, ReloadEditStep
    DEF Forms, Sources
<1>2. CASE Requests
  BY <1>2, ReceiveListStep, ReceiveRefreshStep, ReceiveConflictStep, ServeStep, LoseStep,
     ReceiveDoneStep, ReceiveErrorStep
  DEF Requests
<1>3. CASE Elsewhere \/ IntakeMoves \/ ArchiveOrRestoreUnheard
  BY <1>3, OthersStep
<1>4. CASE UNCHANGED followUpVars
  <2>1. UNCHANGED <<archived, current, followUps, page, calls>>
    BY <1>4 DEF followUpVars
  <2>2. QED
    BY <2>1, RowsKept, UnheardStep
<1>5. QED
  BY <1>1, <1>2, <1>3, <1>4 DEF FollowUpsNext

LEMMA FollowUpsInvHolds == FollowUpsSpec => []FollowUpsInv
  BY FollowUpsInvInit, FollowUpsInvStep, PTL DEF FollowUpsSpec

\* Every variable of the follow-ups and their page has its type.
THEOREM FollowUpsTypeCorrect == FollowUpsSpec => []FollowUpsTypeOK
<1>1. FollowUpsInv => FollowUpsTypeOK
  <2> SUFFICES ASSUME FollowUpsInv PROVE FollowUpsTypeOK
    OBVIOUS
  <2>1. archived \in BOOLEAN /\ current \subseteq Snapshots
    BY DEF FollowUpsInv, Tables
  <2>2. \A f \in DOMAIN page.list : f \in FollowUpIds /\ page.list[f] \in Rows
    BY PageFields DEF Known
  <2>3. \A kind \in Kinds : calls[kind].stage \in Stages
    BY CallFields
  <2>4. QED
    BY <2>1, <2>2, <2>3, FollowUpTypes, PageFields DEF FollowUpsTypeOK, Stages
<1>2. QED
  BY <1>1, FollowUpsInvHolds, PTL

\* An edit replaces the text its form was filled with and no later one: the row
\* the API writes is, by its version, the one the page knew.
THEOREM EditReplacesWhatItShowedHolds == FollowUpsSpec => EditReplacesWhatItShowed
<1>1. ASSUME FollowUpsInv, Serve("update"), followUps' # followUps
      PROVE  followUps[calls["update"].id] = calls["update"].base
  <2> DEFINE call == calls["update"]
  <2>1. Editable(call.id, call.base.version)
    BY <1>1 DEF Serve, Permits
  <2>2. <<call.id, call.base>> \in Known
    BY <1>1, CallFields DEF Serve, Carries, Kinds
  <2>3. QED
    BY <2>1, <2>2 DEF Editable, Known
<1>2. FollowUpsInv /\ [FollowUpsNext]_followUpVars =>
        [Serve("update") /\ followUps' # followUps =>
           LET f == calls["update"].id IN followUps[f] = calls["update"].base]_followUpVars
  BY <1>1
<1>3. QED
  BY <1>2, FollowUpsInvHolds, PTL DEF FollowUpsSpec, EditReplacesWhatItShowed

-----------------------------------------------------------------------------
(* ProjectLifecycle: the answers of the phase changes that the settings    *)
(* page has not applied.  The one that was sent last tells the phase.      *)

RequestStages == {"idle", "sent", "done", "failed"}
Workspaces == [basics : SettingsBasics, playbook : Playbooks,
               status : Phases \cup {"ARCHIVED"}, round : BOOLEAN]
RequestValues == SettingsBasics \cup Playbooks \cup Phases \cup {None}

GoodRequests(kind) ==
  {call \in [stage : RequestStages, intent : Nat, value : RequestValues,
             result : Workspaces \cup {None}] :
     /\ call.stage = "sent" =>
          /\ kind = "save-basics" => call.value \in SettingsBasics
          /\ kind = "save-playbook" => call.value \in Playbooks
          /\ kind = "save-status" => call.value \in Phases
     /\ call.stage = "done" => call.result \in Workspaces
     /\ kind \notin Lifecycle => call.intent = 0}

ProjectIsGood ==
  /\ project \in ProjectRows
  /\ "READY_FOR_PLANNING" \in {project.status, project.archivedFrom} => project.revision

SettingsAreGood ==
  /\ settings \in [open : BOOLEAN, view : Workspaces \cup {None},
                   basics : SettingsBasics \cup {None},
                   intent : Nat, applied : Nat, served : Nat]
  /\ settings.view # None => settings.view \in Workspaces /\ settings.basics \in SettingsBasics

RequestsAreGood ==
  /\ DOMAIN inFlight = CommandKinds
  /\ \A kind \in CommandKinds : inFlight[kind] \in GoodRequests(kind)

\* Nothing is sent before the page has loaded.
LoadsFirst ==
  IF settings.view = None THEN \A kind \in CommandKinds \ {"load"} : ~Pending(kind)
  ELSE ~Pending("load")

Live(kind) == inFlight[kind].stage \in {"sent", "done"}
Done(kind) == inFlight[kind].stage = "done"

\* Each phase change has a number of its own, and those answered or applied are
\* among those carried out.
IntentsDiffer ==
  /\ settings.applied <= settings.served /\ settings.applied <= settings.intent
  /\ \A kind \in Lifecycle : Live(kind) =>
       /\ inFlight[kind].intent <= settings.intent
       /\ inFlight[kind].intent # settings.applied
       /\ Done(kind) => inFlight[kind].intent <= settings.served
  /\ \A kind, other \in Lifecycle :
       Live(kind) /\ Live(other) /\ kind # other
         => inFlight[kind].intent # inFlight[other].intent

\* The last phase change that was carried out, if the page is still to hear of it.
LastUnheard(kind) ==
  /\ Done(kind) /\ inFlight[kind].intent > settings.applied
  /\ \A other \in Lifecycle : Done(other) => inFlight[other].intent <= inFlight[kind].intent

AnswersTellThePhase ==
  orderly =>
    /\ Done("load") => inFlight["load"].result.status = project.status
    /\ \A kind \in Lifecycle :
         LastUnheard(kind) => inFlight[kind].result.status = project.status
    /\ (/\ settings.view # None
        /\ \A kind \in Lifecycle : Done(kind) => inFlight[kind].intent <= settings.applied)
         => settings.view.status = project.status

LifecycleInv ==
  /\ ProjectIsGood /\ SettingsAreGood /\ RequestsAreGood /\ orderly \in BOOLEAN
  /\ LoadsFirst /\ IntentsDiffer
  /\ AnswersTellThePhase

LEMMA WorkspacesOfRows == {Workspace(row) : row \in ProjectRows} = Workspaces
<1>1. \A row \in ProjectRows : Workspace(row) \in Workspaces
  BY DEF ProjectRows, Workspace, Workspaces
<1>2. ASSUME NEW shown \in Workspaces PROVE \E row \in ProjectRows : shown = Workspace(row)
  <2> DEFINE row == [basics |-> shown.basics, playbook |-> shown.playbook,
                     status |-> shown.status, archivedFrom |-> None,
                     round |-> shown.round, history |-> FALSE, revision |-> FALSE,
                     deleted |-> FALSE]
  <2>1. row \in ProjectRows
    BY DEF Workspaces, ProjectRows
  <2>2. shown = [basics |-> shown.basics, playbook |-> shown.playbook,
                 status |-> shown.status, round |-> shown.round]
    BY DEF Workspaces
  <2>3. shown = Workspace(row)
    BY <2>2 DEF Workspace
  <2> HIDE DEF row
  <2>4. QED
    BY <2>1, <2>3
<1>3. QED
  BY <1>1, <1>2

LEMMA RequestFields ==
  ASSUME LifecycleInv, NEW kind \in CommandKinds
  PROVE  /\ DOMAIN inFlight = CommandKinds /\ inFlight[kind] \in GoodRequests(kind)
         /\ inFlight[kind] \in [stage : RequestStages, intent : Nat, value : RequestValues,
                                result : Workspaces \cup {None}]
         /\ Done(kind) => inFlight[kind].result \in Workspaces
         /\ kind \notin Lifecycle => inFlight[kind].intent = 0
  BY DEF LifecycleInv, RequestsAreGood, GoodRequests, Done

LEMMA SettingsFields ==
  ASSUME LifecycleInv
  PROVE  /\ settings \in [open : BOOLEAN, view : Workspaces \cup {None},
                          basics : SettingsBasics \cup {None},
                          intent : Nat, applied : Nat, served : Nat]
         /\ settings.view # None =>
              settings.view \in Workspaces /\ settings.basics \in SettingsBasics
  BY DEF LifecycleInv, SettingsAreGood

\* A request that was not sent, or failed.
LEMMA QuietRequest ==
  ASSUME NEW kind \in CommandKinds, NEW stage \in {"idle", "failed"}
  PROVE  /\ [NoRequest EXCEPT !.stage = stage] \in GoodRequests(kind)
         /\ [NoRequest EXCEPT !.stage = stage].stage = stage
         /\ NoRequest \in GoodRequests(kind) /\ NoRequest.stage = "idle"
<1> DEFINE call == [NoRequest EXCEPT !.stage = stage]
<1>1. /\ call \in [stage : RequestStages, intent : Nat, value : RequestValues,
                   result : Workspaces \cup {None}]
      /\ call.stage = stage /\ call.intent = 0
  BY DEF NoRequest, RequestStages, RequestValues
<1>2. /\ NoRequest \in [stage : RequestStages, intent : Nat, value : RequestValues,
                        result : Workspaces \cup {None}]
      /\ NoRequest.stage = "idle" /\ NoRequest.intent = 0
  BY DEF NoRequest, RequestStages, RequestValues
<1> HIDE DEF call
<1>3. call \in GoodRequests(kind) /\ NoRequest \in GoodRequests(kind)
  BY <1>1, <1>2 DEF GoodRequests
<1>4. QED
  BY <1>1, <1>2, <1>3 DEF call

\* One that was.
RequestFor(intent, value) ==
  [NoRequest EXCEPT !.stage = "sent", !.intent = intent, !.value = value]

LEMMA SentRequest ==
  ASSUME NEW kind \in CommandKinds, NEW intent \in Nat, NEW value \in RequestValues,
         kind = "save-basics" => value \in SettingsBasics,
         kind = "save-playbook" => value \in Playbooks,
         kind = "save-status" => value \in Phases,
         kind \notin Lifecycle => intent = 0
  PROVE  /\ RequestFor(intent, value) \in GoodRequests(kind)
         /\ RequestFor(intent, value).stage = "sent"
         /\ RequestFor(intent, value).intent = intent
<1> DEFINE call == RequestFor(intent, value)
<1>1. /\ call \in [stage : RequestStages, intent : Nat, value : RequestValues,
                   result : Workspaces \cup {None}]
      /\ call.stage = "sent" /\ call.intent = intent /\ call.value = value
  BY DEF RequestFor, NoRequest, RequestStages, RequestValues
<1> HIDE DEF call
<1>2. call \in GoodRequests(kind)
  BY <1>1 DEF GoodRequests
<1>3. QED
  BY <1>1, <1>2 DEF call

LEMMA RequestMoves ==
  ASSUME LifecycleInv, NEW kind \in CommandKinds, NEW call \in GoodRequests(kind),
         inFlight' = [inFlight EXCEPT ![kind] = call]
  PROVE  /\ RequestsAreGood' /\ inFlight'[kind] = call
         /\ \A other \in CommandKinds \ {kind} : inFlight'[other] = inFlight[other]
  BY DEF LifecycleInv, RequestsAreGood

\* No phase change is sent.
LEMMA IntentsKept ==
  ASSUME LifecycleInv,
         settings'.applied = settings.applied, settings'.intent = settings.intent,
         settings'.served \in Nat, settings'.served >= settings.served,
         \A kind \in Lifecycle : inFlight'[kind] = inFlight[kind] \/ ~Live(kind)'
  PROVE  IntentsDiffer'
<1>1. /\ settings.applied \in Nat /\ settings.served \in Nat /\ settings.intent \in Nat
      /\ \A kind \in Lifecycle : inFlight[kind].intent \in Nat
  BY SettingsFields, RequestFields DEF CommandKinds
<1>2. \A kind \in Lifecycle : Live(kind)' =>
        inFlight'[kind] = inFlight[kind] /\ Live(kind) /\ (Done(kind)' => Done(kind))
  BY DEF Live, Done
<1>3. IntentsDiffer
  BY DEF LifecycleInv
<1>4. settings'.applied <= settings'.served /\ settings'.applied <= settings'.intent
  BY <1>1, <1>3 DEF IntentsDiffer
<1>5. ASSUME NEW kind \in Lifecycle, Live(kind)'
      PROVE  /\ inFlight'[kind].intent <= settings'.intent
             /\ inFlight'[kind].intent # settings'.applied
             /\ Done(kind)' => inFlight'[kind].intent <= settings'.served
  BY <1>1, <1>2, <1>3, <1>5 DEF IntentsDiffer
<1>6. ASSUME NEW kind \in Lifecycle, NEW other \in Lifecycle, Live(kind)', Live(other)',
             kind # other
      PROVE  inFlight'[kind].intent # inFlight'[other].intent
  BY <1>2, <1>3, <1>6 DEF IntentsDiffer
<1>7. QED
  BY <1>4, <1>5, <1>6 DEF IntentsDiffer

\* None is carried out or heard of, while the phase changes are orderly.
LEMMA AnswersKept ==
  ASSUME LifecycleInv,
         orderly' =>
           /\ orderly /\ project'.status = project.status
           /\ settings'.applied = settings.applied
           /\ settings'.view # None =>
                settings.view # None /\ settings'.view.status = settings.view.status
           /\ Done("load")' => inFlight'["load"] = inFlight["load"]
           /\ \A kind \in Lifecycle :
                inFlight'[kind] = inFlight[kind] \/ (~Done(kind) /\ ~Done(kind)')
  PROVE  AnswersTellThePhase'
<1> SUFFICES ASSUME orderly' PROVE AnswersTellThePhase'
  BY DEF AnswersTellThePhase
<1>1. \A kind \in Lifecycle :
        /\ Done(kind)' = Done(kind)
        /\ Done(kind) => inFlight'[kind] = inFlight[kind]
  BY DEF Done
<1>2. AnswersTellThePhase /\ orderly
  BY DEF LifecycleInv
<1>3. Done("load")' => inFlight'["load"].result.status = project'.status
  BY <1>2 DEF AnswersTellThePhase, Done
<1>4. ASSUME NEW kind \in Lifecycle, LastUnheard(kind)'
      PROVE  inFlight'[kind].result.status = project'.status
  <2>1. LastUnheard(kind)
    BY <1>1, <1>4 DEF LastUnheard
  <2>2. QED
    BY <1>1, <1>2, <2>1 DEF AnswersTellThePhase, LastUnheard
<1>5. ASSUME settings'.view # None,
             \A kind \in Lifecycle :
               Done(kind)' => inFlight'[kind].intent <= settings'.applied
      PROVE  settings'.view.status = project'.status
  <2>1. \A kind \in Lifecycle : Done(kind) => inFlight[kind].intent <= settings.applied
    BY <1>1, <1>5
  <2>2. QED
    BY <1>2, <1>5, <2>1 DEF AnswersTellThePhase
<1>6. QED
  BY <1>3, <1>4, <1>5 DEF AnswersTellThePhase

\* A page that shows nothing yet, which has at most sent for what it will show.
StartsOver ==
  /\ ProjectIsGood /\ orderly \in BOOLEAN
  /\ settings \in {NotOpen, [NotOpen EXCEPT !.open = TRUE]}
  /\ inFlight \in {NoRequests, [NoRequests EXCEPT !["load"] = RequestFor(0, None)]}

LEMMA NothingUnderWay == StartsOver => LifecycleInv
<1> SUFFICES ASSUME StartsOver PROVE LifecycleInv
  OBVIOUS
<1>1. /\ settings \in [open : BOOLEAN, view : Workspaces \cup {None},
                       basics : SettingsBasics \cup {None},
                       intent : Nat, applied : Nat, served : Nat]
      /\ settings.view = None
      /\ settings.intent = 0 /\ settings.applied = 0 /\ settings.served = 0
  <2>1. CASE settings = NotOpen
    BY <2>1 DEF NotOpen
  <2>2. CASE settings = [NotOpen EXCEPT !.open = TRUE]
    BY <2>2 DEF NotOpen
  <2>3. QED
    BY <2>1, <2>2 DEF StartsOver
<1>2. /\ DOMAIN inFlight = CommandKinds
      /\ \A kind \in CommandKinds : inFlight[kind] \in GoodRequests(kind)
      /\ \A kind \in CommandKinds \ {"load"} : inFlight[kind].stage = "idle"
      /\ inFlight["load"].stage # "done"
  <2> DEFINE call == RequestFor(0, None)
  <2>1. call \in GoodRequests("load") /\ call.stage = "sent" /\ "load" \in CommandKinds
    BY SentRequest DEF RequestValues, CommandKinds
  <2>2. inFlight \in {NoRequests, [NoRequests EXCEPT !["load"] = call]}
    BY DEF StartsOver
  <2> HIDE DEF call
  <2>3. \A kind \in CommandKinds : NoRequest \in GoodRequests(kind) /\ NoRequest.stage = "idle"
    BY QuietRequest
  <2>4. QED
    BY <2>1, <2>2, <2>3 DEF NoRequests
<1>3. SettingsAreGood /\ RequestsAreGood
  BY <1>1, <1>2 DEF SettingsAreGood, RequestsAreGood
<1>4. LoadsFirst
  BY <1>1, <1>2 DEF LoadsFirst, Pending
<1>5. \A kind \in Lifecycle : ~Live(kind) /\ ~Done(kind) /\ kind # "load"
  BY <1>2 DEF Live, Done, CommandKinds, Lifecycle
<1>6. IntentsDiffer
  BY <1>1, <1>5 DEF IntentsDiffer
<1>7. AnswersTellThePhase
  BY <1>1, <1>2, <1>5 DEF AnswersTellThePhase, LastUnheard, Done
<1>8. QED
  BY <1>3, <1>4, <1>6, <1>7 DEF StartsOver, LifecycleInv

\* The page is opened, or left; deletion leaves it, too.
LEMMA StartOverStep ==
  ASSUME LifecycleInv, UNCHANGED <<project, orderly>>,
         \/ OpenSettings
         \/ settings' = NotOpen /\ inFlight' = NoRequests
  PROVE  LifecycleInv'
<1>1. settings' \in {NotOpen, [NotOpen EXCEPT !.open = TRUE]}
  BY DEF OpenSettings
<1>2. inFlight' \in {NoRequests, [NoRequests EXCEPT !["load"] = RequestFor(0, None)]}
  <2>1. [NoRequest EXCEPT !.stage = "sent"] = RequestFor(0, None)
    <3> DEFINE sent == [stage |-> "sent", intent |-> 0, value |-> None, result |-> None]
    <3>1. [NoRequest EXCEPT !.stage = "sent"] = sent
      BY DEF NoRequest
    <3>2. [sent EXCEPT !.intent = 0] = sent
      OBVIOUS
    <3>3. [sent EXCEPT !.value = None] = sent
      OBVIOUS
    <3> HIDE DEF sent
    <3>4. QED
      BY <3>1, <3>2, <3>3 DEF RequestFor
  <2>2. "load" \in CommandKinds
    BY DEF CommandKinds
  <2>3. QED
    BY <2>1, <2>2 DEF OpenSettings, NoRequests
<1>3. StartsOver'
  BY <1>1, <1>2 DEF LifecycleInv, ProjectIsGood, StartsOver
<1>4. StartsOver' => LifecycleInv'
  BY NothingUnderWay, PTL
<1>5. QED
  BY <1>3, <1>4

LEMMA EditBasicsStep ==
  ASSUME LifecycleInv, NEW basics \in SettingsBasics, EditBasics(basics)
  PROVE  LifecycleInv'
<1>1. /\ settings' = [settings EXCEPT !.basics = basics] /\ settings.view # None
      /\ UNCHANGED <<project, inFlight, orderly>>
  BY DEF EditBasics, Shown
<1>2. /\ settings' \in [open : BOOLEAN, view : Workspaces \cup {None},
                        basics : SettingsBasics \cup {None},
                        intent : Nat, applied : Nat, served : Nat]
      /\ settings'.view = settings.view /\ settings'.basics = basics
      /\ settings'.intent = settings.intent /\ settings'.applied = settings.applied
      /\ settings'.served = settings.served
  BY <1>1, SettingsFields
<1>3. ProjectIsGood' /\ RequestsAreGood' /\ orderly' \in BOOLEAN
  BY <1>1 DEF LifecycleInv, ProjectIsGood, RequestsAreGood
<1>4. SettingsAreGood'
  BY <1>1, <1>2, SettingsFields DEF SettingsAreGood
<1>5. LoadsFirst'
  BY <1>1, <1>2 DEF LifecycleInv, LoadsFirst, Pending
<1>6. IntentsDiffer'
  BY <1>1, <1>2, SettingsFields, IntentsKept
<1>7. AnswersTellThePhase'
  BY <1>1, <1>2, AnswersKept
<1>8. QED
  BY <1>3, <1>4, <1>5, <1>6, <1>7 DEF LifecycleInv

\* A request that leaves what the page shows as it is, and that no phase change
\* is told by.
LEMMA RequestQuietly ==
  ASSUME LifecycleInv, NEW kind \in CommandKinds, NEW call \in GoodRequests(kind),
         inFlight' = [inFlight EXCEPT ![kind] = call],
         UNCHANGED <<project, settings>>, orderly' \in BOOLEAN,
         call.stage # "done",
         kind \in Lifecycle => call.stage # "sent",
         orderly' => orderly /\ (kind \in Lifecycle => ~Done(kind)),
         call.stage # "idle" => settings.view # None \/ kind = "load",
         kind = "load" => settings.view = None
  PROVE  LifecycleInv'
<1>1. /\ RequestsAreGood' /\ inFlight'[kind] = call
      /\ \A other \in CommandKinds \ {kind} : inFlight'[other] = inFlight[other]
  BY RequestMoves
<1>2. ProjectIsGood' /\ SettingsAreGood'
  BY DEF LifecycleInv, ProjectIsGood, SettingsAreGood
<1>3. LoadsFirst'
  BY <1>1 DEF LifecycleInv, LoadsFirst, Pending, CommandKinds
<1>4. IntentsDiffer'
  <2>1. \A other \in Lifecycle : inFlight'[other] = inFlight[other] \/ ~Live(other)'
    BY <1>1 DEF Live, CommandKinds
  <2>2. QED
    BY <2>1, IntentsKept, SettingsFields
<1>5. AnswersTellThePhase'
  <2>1. \A other \in Lifecycle : orderly' =>
          inFlight'[other] = inFlight[other] \/ (~Done(other) /\ ~Done(other)')
    BY <1>1 DEF Done, CommandKinds
  <2>2. Done("load")' => inFlight'["load"] = inFlight["load"]
    BY <1>1 DEF Done, CommandKinds
  <2>3. QED
    BY <2>1, <2>2, AnswersKept
<1>6. QED
  BY <1>1, <1>2, <1>3, <1>4, <1>5 DEF LifecycleInv

LEMMA SaveStep ==
  ASSUME LifecycleInv,
         SaveProjectBasics \/ DeleteProject \/ \E playbook \in Playbooks : SavePlaybook(playbook)
  PROVE  LifecycleInv'
<1>1. settings.view # None /\ UNCHANGED <<project, settings, orderly>> /\ orderly \in BOOLEAN
  BY DEF SaveProjectBasics, DeleteProject, SavePlaybook, Shown, LifecycleInv
<1>2. \E kind \in {"save-basics", "save-playbook", "delete"}, value \in RequestValues :
        /\ SendCommand(kind, 0, value)
        /\ kind = "save-basics" => value \in SettingsBasics
        /\ kind = "save-playbook" => value \in Playbooks
  <2>1. CASE SaveProjectBasics
    BY <1>1, <2>1, SettingsFields DEF SaveProjectBasics, RequestValues
  <2>2. CASE DeleteProject
    BY <2>2 DEF DeleteProject, RequestValues
  <2>3. CASE \E playbook \in Playbooks : SavePlaybook(playbook)
    BY <2>3 DEF SavePlaybook, RequestValues
  <2>4. QED
    BY <2>1, <2>2, <2>3
<1>3. PICK kind \in {"save-basics", "save-playbook", "delete"}, value \in RequestValues :
        /\ SendCommand(kind, 0, value)
        /\ kind = "save-basics" => value \in SettingsBasics
        /\ kind = "save-playbook" => value \in Playbooks
  BY <1>2
<1> DEFINE call == RequestFor(0, value)
<1>4. kind \in CommandKinds \ {"load"} /\ kind \notin Lifecycle /\ kind # "save-status"
  BY DEF CommandKinds, Lifecycle
<1>5. call \in GoodRequests(kind) /\ call.stage = "sent"
  BY <1>3, <1>4, SentRequest
<1>6. inFlight' = [inFlight EXCEPT ![kind] = call]
  BY <1>3 DEF SendCommand, RequestFor
<1> HIDE DEF call
<1>7. QED
  BY <1>1, <1>4, <1>5, <1>6, RequestQuietly

LEMMA SendLifecycleStep ==
  ASSUME LifecycleInv,
         ArchiveProject \/ RestoreProject \/ \E status \in Phases : SaveProjectStatus(status)
  PROVE  LifecycleInv'
<1>1. \E kind \in Lifecycle, value \in RequestValues :
        /\ SendLifecycle(kind, value) /\ ~Pending(kind) /\ settings.view # None
        /\ kind = "save-status" => value \in Phases
  <2>1. CASE ArchiveProject
    BY <2>1 DEF ArchiveProject, RequestValues, Lifecycle, Shown
  <2>2. CASE RestoreProject
    BY <2>2 DEF RestoreProject, RequestValues, Lifecycle, Shown
  <2>3. CASE \E status \in Phases : SaveProjectStatus(status)
    BY <2>3 DEF SaveProjectStatus, RequestValues, Lifecycle, Shown
  <2>4. QED
    BY <2>1, <2>2, <2>3
<1>2. PICK kind \in Lifecycle, value \in RequestValues :
        /\ SendLifecycle(kind, value) /\ ~Pending(kind) /\ settings.view # None
        /\ kind = "save-status" => value \in Phases
  BY <1>1
<1> DEFINE next == settings.intent + 1
           call == RequestFor(next, value)
<1>3. /\ kind \in CommandKinds \ {"load"} /\ kind \notin {"save-basics", "save-playbook"}
      /\ settings.intent \in Nat /\ next \in Nat
  BY SettingsFields DEF CommandKinds, Lifecycle
<1>4. /\ settings' = [settings EXCEPT !.intent = next]
      /\ inFlight' = [inFlight EXCEPT ![kind] = call]
      /\ UNCHANGED <<project, orderly>>
  BY <1>2 DEF SendLifecycle, SendCommand, RequestFor
<1>5. call \in GoodRequests(kind) /\ call.stage = "sent" /\ call.intent = next
  BY <1>2, <1>3, SentRequest
<1> HIDE DEF call
<1>6. /\ RequestsAreGood' /\ inFlight'[kind] = call
      /\ \A other \in CommandKinds \ {kind} : inFlight'[other] = inFlight[other]
  BY <1>3, <1>4, <1>5, RequestMoves
<1>7. /\ settings' \in [open : BOOLEAN, view : Workspaces \cup {None},
                        basics : SettingsBasics \cup {None},
                        intent : Nat, applied : Nat, served : Nat]
      /\ settings'.view = settings.view /\ settings'.basics = settings.basics
      /\ settings'.intent = next /\ settings'.applied = settings.applied
      /\ settings'.served = settings.served
  BY <1>3, <1>4, SettingsFields
<1>8. ProjectIsGood' /\ orderly' \in BOOLEAN
  BY <1>4 DEF LifecycleInv, ProjectIsGood
<1>9. SettingsAreGood'
  BY <1>7, SettingsFields DEF SettingsAreGood
<1>10. LoadsFirst'
  BY <1>2, <1>3, <1>6, <1>7 DEF LifecycleInv, LoadsFirst, Pending, CommandKinds
<1>11. IntentsDiffer'
  <2>1. /\ settings.applied \in Nat /\ settings.served \in Nat
        /\ \A other \in Lifecycle : inFlight[other].intent \in Nat
        /\ next = settings.intent + 1
    BY SettingsFields, RequestFields DEF CommandKinds
  <2>2. \A other \in Lifecycle \ {kind} : inFlight'[other] = inFlight[other]
    BY <1>6 DEF CommandKinds
  <2>3. IntentsDiffer
    BY DEF LifecycleInv
  <2> HIDE DEF next
  <2>4. settings'.applied <= settings'.served /\ settings'.applied <= settings'.intent
    BY <1>3, <1>7, <2>1, <2>3 DEF IntentsDiffer
  <2>5. ASSUME NEW other \in Lifecycle, Live(other)'
        PROVE  /\ inFlight'[other].intent <= settings'.intent
               /\ inFlight'[other].intent # settings'.applied
               /\ Done(other)' => inFlight'[other].intent <= settings'.served
    <3>1. CASE other = kind
      <4>1. inFlight'[other].intent = next /\ ~Done(other)'
        BY <1>5, <1>6, <3>1 DEF Done
      <4>2. next # settings.applied
        BY <1>3, <2>1, <2>3 DEF IntentsDiffer
      <4>3. QED
        BY <1>3, <1>7, <4>1, <4>2
    <3>2. CASE other # kind
      BY <1>3, <1>7, <2>1, <2>2, <2>3, <2>5, <3>2 DEF IntentsDiffer, Live, Done
    <3>3. QED
      BY <3>1, <3>2
  <2>6. ASSUME NEW first \in Lifecycle, NEW second \in Lifecycle, Live(first)', Live(second)',
               first # second
        PROVE  inFlight'[first].intent # inFlight'[second].intent
    <3>1. \A other \in Lifecycle \ {kind} : Live(other)' => inFlight'[other].intent < next
      BY <1>3, <2>1, <2>2, <2>3 DEF IntentsDiffer, Live
    <3>2. CASE first = kind \/ second = kind
      BY <1>3, <1>5, <1>6, <2>1, <2>2, <2>6, <3>1, <3>2
    <3>3. CASE first # kind /\ second # kind
      BY <2>2, <2>3, <2>6, <3>3 DEF IntentsDiffer, Live
    <3>4. QED
      BY <3>2, <3>3
  <2>7. QED
    BY <2>4, <2>5, <2>6 DEF IntentsDiffer
<1>12. AnswersTellThePhase'
  <2>1. \A other \in Lifecycle :
          inFlight'[other] = inFlight[other] \/ (~Done(other) /\ ~Done(other)')
    BY <1>2, <1>5, <1>6 DEF Done, Pending, CommandKinds
  <2>2. inFlight'["load"] = inFlight["load"]
    BY <1>3, <1>6 DEF CommandKinds
  <2>3. QED
    BY <1>4, <1>7, <2>1, <2>2, AnswersKept
<1>13. QED
  BY <1>6, <1>8, <1>9, <1>10, <1>11, <1>12 DEF LifecycleInv

\* What a command makes of a project.
LEMMA OutcomeIsGood ==
  ASSUME ProjectIsGood, NEW kind \in CommandKinds, NEW value,
         Accepts(kind, project), project' = CommandOutcome(kind, project, value),
         kind = "save-basics" => value \in SettingsBasics,
         kind = "save-playbook" => value \in Playbooks,
         kind = "save-status" => value \in Phases
  PROVE  /\ ProjectIsGood' /\ Workspace(project') \in Workspaces
         /\ Workspace(project').status = project'.status
         /\ kind \notin Lifecycle => project'.status = project.status
<1> USE DEF CommandOutcome, CommandKinds
<1>1. project \in ProjectRows /\ project.status \in Phases \cup {"ARCHIVED"}
  BY DEF ProjectIsGood, ProjectRows
<1>2. ProjectIsGood' /\ (kind \notin Lifecycle => project'.status = project.status)
  <2>1. CASE kind = "save-basics"
    <3>1. project' = [project EXCEPT !.basics = value]
      BY <2>1
    <3>2. project' \in ProjectRows
      BY <1>1, <2>1, <3>1 DEF ProjectRows
    <3>3. QED
      BY <1>1, <3>1, <3>2 DEF ProjectRows, ProjectIsGood
  <2>2. CASE kind = "save-playbook"
    <3>1. project' = [project EXCEPT !.playbook = value]
      BY <2>2
    <3>2. project' \in ProjectRows
      BY <1>1, <2>2, <3>1 DEF ProjectRows
    <3>3. QED
      BY <1>1, <3>1, <3>2 DEF ProjectRows, ProjectIsGood
  <2>3. CASE kind = "save-status"
    <3> DEFINE revision == project.revision \/ value = "READY_FOR_PLANNING"
    <3>1. revision \in BOOLEAN /\ (value = "READY_FOR_PLANNING" => revision)
          /\ (project.revision => revision)
      BY <1>1 DEF ProjectRows
    <3>2. project' = [project EXCEPT !.status = value, !.revision = revision]
      BY <2>3 DEF WithStatus
    <3> HIDE DEF revision
    <3>3. project' \in ProjectRows /\ project'.status = value
          /\ project'.archivedFrom = project.archivedFrom
      BY <1>1, <2>3, <3>1, <3>2 DEF ProjectRows
    <3>4. project'.revision = revision
      BY <1>1, <3>2 DEF ProjectRows
    <3>5. QED
      BY <2>3, <3>1, <3>3, <3>4 DEF ProjectIsGood, Lifecycle
  <2>4. CASE kind = "archive"
    <3>1. project' = [project EXCEPT !.archivedFrom = project.status, !.status = "ARCHIVED"]
          /\ project.status # "ARCHIVED"
      BY <2>4 DEF Accepts
    <3>2. project' \in ProjectRows /\ project'.status = "ARCHIVED"
          /\ project'.archivedFrom = project.status
      BY <1>1, <3>1 DEF ProjectRows
    <3>3. project'.revision = project.revision
      BY <1>1, <3>1 DEF ProjectRows
    <3>4. QED
      BY <2>4, <3>2, <3>3 DEF ProjectIsGood, Lifecycle
  <2>5. CASE kind = "restore"
    <3> DEFINE status == IF project.archivedFrom = None THEN "DRAFT" ELSE project.archivedFrom
    <3>1. status \in Phases
          /\ (status = "READY_FOR_PLANNING" => status = project.archivedFrom)
      BY <1>1 DEF ProjectRows, Phases
    <3>2. project' = [project EXCEPT !.status = status, !.archivedFrom = None]
      BY <2>5
    <3> HIDE DEF status
    <3>3. project' \in ProjectRows /\ project'.status = status /\ project'.archivedFrom = None
      BY <1>1, <3>1, <3>2 DEF ProjectRows
    <3>4. project'.revision = project.revision
      BY <1>1, <3>2 DEF ProjectRows
    <3>5. None # "READY_FOR_PLANNING"
      BY LifecycleAssumption DEF Phases
    <3>6. QED
      BY <2>5, <3>1, <3>3, <3>4, <3>5 DEF ProjectIsGood, Lifecycle
  <2>6. CASE kind = "delete"
    <3>1. project' = [project EXCEPT !.deleted = TRUE]
      BY <2>6
    <3>2. project' \in ProjectRows
      BY <1>1, <3>1 DEF ProjectRows
    <3>3. QED
      BY <1>1, <3>1, <3>2 DEF ProjectRows, ProjectIsGood
  <2>7. CASE kind = "load"
    <3>1. project' = project
      BY <2>7
    <3>2. QED
      BY <3>1 DEF ProjectIsGood
  <2>8. QED
    BY <2>1, <2>2, <2>3, <2>4, <2>5, <2>6, <2>7 DEF Lifecycle
<1>3. Workspace(project') \in Workspaces /\ Workspace(project').status = project'.status
  BY <1>2 DEF ProjectIsGood, ProjectRows, Workspace, Workspaces
<1>4. QED
  BY <1>2, <1>3

LEMMA LoseCommandStep ==
  ASSUME LifecycleInv, NEW kind \in CommandKinds, LoseCommand(kind) \/ ReceiveFailure(kind)
  PROVE  LifecycleInv'
<1>1. Pending(kind) /\ LoadsFirst /\ orderly \in BOOLEAN /\ UNCHANGED <<project, settings>>
  BY DEF LoseCommand, ReceiveFailure, Pending, LifecycleInv
<1>2. (kind = "load" <=> settings.view = None)
  BY <1>1 DEF LoadsFirst
<1>3. CASE LoseCommand(kind)
  <2> DEFINE call == [NoRequest EXCEPT !.stage = "failed"]
  <2>1. call \in GoodRequests(kind) /\ call.stage = "failed"
    BY QuietRequest
  <2>2. inFlight' = [inFlight EXCEPT ![kind] = call]
    BY <1>3 DEF LoseCommand
  <2>3. orderly' \in BOOLEAN /\ (orderly' => orderly /\ (kind \in Lifecycle => ~Done(kind)))
    BY <1>1, <1>3 DEF LoseCommand, Done
  <2> HIDE DEF call
  <2>4. QED
    BY <1>1, <1>2, <2>1, <2>2, <2>3, RequestQuietly
<1>4. CASE ReceiveFailure(kind)
  <2>1. NoRequest \in GoodRequests(kind) /\ NoRequest.stage = "idle"
    BY QuietRequest
  <2>2. inFlight' = [inFlight EXCEPT ![kind] = NoRequest] /\ kind # "load"
        /\ ~Done(kind) /\ orderly' = orderly
    BY <1>4 DEF ReceiveFailure, Done
  <2>3. QED
    BY <1>1, <1>2, <2>1, <2>2, RequestQuietly
<1>5. QED
  BY <1>3, <1>4

\* The page that loaded shows what it was told.
LEMMA ReceiveLoadStep ==
  ASSUME LifecycleInv, ReceiveLoad
  PROVE  LifecycleInv'
<1>1. /\ Pending("load") /\ LoadsFirst /\ orderly \in BOOLEAN /\ "load" \in CommandKinds
      /\ UNCHANGED <<project, orderly>>
  BY DEF ReceiveLoad, Pending, LifecycleInv, CommandKinds
<1>2. settings.view = None /\ \A kind \in CommandKinds \ {"load"} : ~Pending(kind)
  BY <1>1 DEF LoadsFirst
<1>3. CASE ~Done("load")
  <2> DEFINE call == RequestFor(0, None)
  <2>1. inFlight' = [inFlight EXCEPT !["load"] = call] /\ UNCHANGED settings
    BY <1>3 DEF ReceiveLoad, SendCommand, RequestFor, Done
  <2>2. call \in GoodRequests("load") /\ call.stage = "sent"
    BY <1>1, SentRequest DEF RequestValues
  <2> HIDE DEF call
  <2>3. QED
    BY <1>1, <1>2, <2>1, <2>2, RequestQuietly DEF Lifecycle
<1>4. CASE Done("load")
  <2> DEFINE result == inFlight["load"].result
  <2>1. /\ settings' = [settings EXCEPT !.view = result, !.basics = result.basics]
        /\ inFlight' = [inFlight EXCEPT !["load"] = NoRequest]
    BY <1>4 DEF ReceiveLoad, Done
  <2>2. result \in Workspaces /\ result.basics \in SettingsBasics
    BY <1>1, <1>4, RequestFields DEF Workspaces
  <2>3. orderly => result.status = project.status
    BY <1>4 DEF LifecycleInv, AnswersTellThePhase
  <2> HIDE DEF result
  <2>4. NoRequest \in GoodRequests("load") /\ NoRequest.stage = "idle"
    BY <1>1, QuietRequest
  <2>5. /\ RequestsAreGood' /\ inFlight'["load"] = NoRequest
        /\ \A other \in CommandKinds \ {"load"} : inFlight'[other] = inFlight[other]
    BY <1>1, <2>1, <2>4, RequestMoves
  <2>6. \A kind \in CommandKinds : ~Pending(kind)' /\ ~Live(kind)' /\ ~Done(kind)'
    BY <1>2, <2>4, <2>5 DEF Pending, Live, Done
  <2>7. /\ settings' \in [open : BOOLEAN, view : Workspaces \cup {None},
                          basics : SettingsBasics \cup {None},
                          intent : Nat, applied : Nat, served : Nat]
        /\ settings'.view = result /\ settings'.basics = result.basics
        /\ settings'.intent = settings.intent /\ settings'.applied = settings.applied
        /\ settings'.served = settings.served
    BY <2>1, <2>2, SettingsFields
  <2>8. SettingsAreGood' /\ ProjectIsGood' /\ orderly' \in BOOLEAN
    BY <1>1, <2>2, <2>7 DEF SettingsAreGood, LifecycleInv, ProjectIsGood
  <2>9. LoadsFirst'
    BY <1>1, <2>6 DEF LoadsFirst
  <2>10. IntentsDiffer'
    BY <2>6, <2>7, SettingsFields, IntentsKept DEF CommandKinds
  <2>11. AnswersTellThePhase'
    BY <1>1, <2>3, <2>6, <2>7 DEF AnswersTellThePhase, LastUnheard, CommandKinds
  <2>12. QED
    BY <2>5, <2>8, <2>9, <2>10, <2>11 DEF LifecycleInv
<1>5. QED
  BY <1>3, <1>4

\* A request is carried out, or refused.
LEMMA Served ==
  ASSUME LifecycleInv, NEW kind \in CommandKinds, ServeCommand(kind)
  PROVE  /\ ProjectIsGood' /\ RequestsAreGood' /\ SettingsAreGood' /\ orderly' \in BOOLEAN
         /\ LoadsFirst'
         /\ \A other \in CommandKinds \ {kind} : inFlight'[other] = inFlight[other]
         /\ settings'.view = settings.view /\ settings'.applied = settings.applied
         /\ settings'.intent = settings.intent
         /\ settings'.served \in Nat /\ settings'.served >= settings.served
         /\ settings'.served >= inFlight[kind].intent
         /\ kind \notin Lifecycle => project'.status = project.status
         /\ \/ ~Live(kind)' /\ UNCHANGED project
            \/ /\ Done(kind)' /\ inFlight'[kind].intent = inFlight[kind].intent
               /\ inFlight'[kind].result.status = project'.status
<1> DEFINE call == inFlight[kind]
<1>1. /\ call \in [stage : RequestStages, intent : Nat, value : RequestValues,
                   result : Workspaces \cup {None}]
      /\ call.stage = "sent" /\ call \in GoodRequests(kind)
  BY RequestFields DEF ServeCommand
<1>2. ProjectIsGood /\ orderly \in BOOLEAN /\ LoadsFirst
  BY DEF LifecycleInv
<1>3. /\ settings' \in [open : BOOLEAN, view : Workspaces \cup {None},
                        basics : SettingsBasics \cup {None},
                        intent : Nat, applied : Nat, served : Nat]
      /\ settings'.view = settings.view /\ settings'.basics = settings.basics
      /\ settings'.intent = settings.intent /\ settings'.applied = settings.applied
      /\ settings'.served >= settings.served /\ settings'.served >= call.intent
  <2>1. CASE call.intent > settings.served
    <3>1. settings' = [settings EXCEPT !.served = call.intent]
      BY <2>1 DEF ServeCommand
    <3>2. QED
      BY <1>1, <2>1, <3>1, SettingsFields
  <2>2. CASE ~(call.intent > settings.served)
    <3>1. settings' = settings
      BY <2>2 DEF ServeCommand
    <3>2. QED
      BY <1>1, <2>2, <3>1, SettingsFields
  <2>3. QED
    BY <2>1, <2>2
<1>4. SettingsAreGood'
  BY <1>3, SettingsFields DEF SettingsAreGood
<1>5. orderly' \in BOOLEAN
  BY <1>2 DEF ServeCommand
<1>6. \E next \in GoodRequests(kind) :
        /\ inFlight' = [inFlight EXCEPT ![kind] = next]
        /\ ProjectIsGood' /\ (kind \notin Lifecycle => project'.status = project.status)
        /\ \/ next.stage = "failed" /\ UNCHANGED project
           \/ /\ next.stage = "done" /\ next.intent = call.intent
              /\ next.result.status = project'.status
  <2>1. CASE Accepts(kind, project)
    <3> DEFINE result == Workspace(project')
               next == [call EXCEPT !.stage = "done", !.result = result]
    <3>1. /\ project' = CommandOutcome(kind, project, call.value)
          /\ inFlight' = [inFlight EXCEPT ![kind].stage = "done", ![kind].result = result]
      BY <2>1 DEF ServeCommand
    <3>2. /\ kind = "save-basics" => call.value \in SettingsBasics
          /\ kind = "save-playbook" => call.value \in Playbooks
          /\ kind = "save-status" => call.value \in Phases
      BY <1>1 DEF GoodRequests
    <3>3. /\ ProjectIsGood' /\ result \in Workspaces /\ result.status = project'.status
          /\ kind \notin Lifecycle => project'.status = project.status
      BY <1>2, <2>1, <3>1, <3>2, OutcomeIsGood
    <3> HIDE DEF result
    <3>4. inFlight' = [inFlight EXCEPT ![kind] = next]
      BY <3>1, RequestFields
    <3>5. /\ next \in [stage : RequestStages, intent : Nat, value : RequestValues,
                       result : Workspaces \cup {None}]
          /\ next.stage = "done" /\ next.intent = call.intent /\ next.result = result
      BY <1>1, <3>3 DEF RequestStages
    <3> HIDE DEF next
    <3>6. next \in GoodRequests(kind)
      BY <1>1, <3>3, <3>5 DEF GoodRequests
    <3>7. QED
      BY <3>3, <3>4, <3>5, <3>6
  <2>2. CASE ~Accepts(kind, project)
    <3> DEFINE next == [NoRequest EXCEPT !.stage = "failed"]
    <3>1. inFlight' = [inFlight EXCEPT ![kind] = next] /\ UNCHANGED project
      BY <2>2 DEF ServeCommand
    <3>2. next \in GoodRequests(kind) /\ next.stage = "failed"
      BY QuietRequest
    <3> HIDE DEF next
    <3>3. ProjectIsGood'
      BY <1>2, <3>1 DEF ProjectIsGood
    <3>4. QED
      BY <3>1, <3>2, <3>3
  <2>3. QED
    BY <2>1, <2>2
<1>7. PICK next \in GoodRequests(kind) :
        /\ inFlight' = [inFlight EXCEPT ![kind] = next]
        /\ ProjectIsGood' /\ (kind \notin Lifecycle => project'.status = project.status)
        /\ \/ next.stage = "failed" /\ UNCHANGED project
           \/ /\ next.stage = "done" /\ next.intent = call.intent
              /\ next.result.status = project'.status
  BY <1>6
<1>8. /\ RequestsAreGood' /\ inFlight'[kind] = next
      /\ \A other \in CommandKinds \ {kind} : inFlight'[other] = inFlight[other]
  BY <1>7, RequestMoves
<1>9. LoadsFirst'
  BY <1>1, <1>2, <1>3, <1>8 DEF LoadsFirst, Pending, CommandKinds
<1>10. settings'.served \in Nat
  BY <1>3
<1>11. QED
  BY <1>3, <1>4, <1>5, <1>7, <1>8, <1>9, <1>10 DEF Live, Done

LEMMA ServeCommandStep ==
  ASSUME LifecycleInv, NEW kind \in CommandKinds, ServeCommand(kind)
  PROVE  LifecycleInv'
<1>1. /\ inFlight[kind].stage = "sent" /\ inFlight[kind].intent \in Nat
      /\ \A other \in Lifecycle : inFlight[other].intent \in Nat
      /\ settings.applied \in Nat /\ settings.served \in Nat /\ settings.intent \in Nat
  BY RequestFields, SettingsFields DEF ServeCommand, CommandKinds
<1>2. IntentsDiffer /\ LoadsFirst /\ AnswersTellThePhase
  BY DEF LifecycleInv
<1>3. \A other \in Lifecycle \ {kind} : inFlight'[other] = inFlight[other]
  BY Served DEF CommandKinds
<1>4. IntentsDiffer'
  <2>1. \A other \in Lifecycle : Live(other)' =>
          /\ Live(other) /\ inFlight'[other].intent = inFlight[other].intent
          /\ Done(other)' => Done(other) \/ other = kind
    BY <1>1, <1>3, Served DEF Live, Done
  <2>2. settings'.applied <= settings'.served /\ settings'.applied <= settings'.intent
    BY <1>1, <1>2, Served DEF IntentsDiffer
  <2>3. ASSUME NEW other \in Lifecycle, Live(other)'
        PROVE  /\ inFlight'[other].intent <= settings'.intent
               /\ inFlight'[other].intent # settings'.applied
               /\ Done(other)' => inFlight'[other].intent <= settings'.served
    BY <1>1, <1>2, <2>1, <2>3, Served DEF IntentsDiffer
  <2>4. ASSUME NEW first \in Lifecycle, NEW second \in Lifecycle, Live(first)', Live(second)',
               first # second
        PROVE  inFlight'[first].intent # inFlight'[second].intent
    BY <1>2, <2>1, <2>4 DEF IntentsDiffer
  <2>5. QED
    BY <2>2, <2>3, <2>4 DEF IntentsDiffer
<1>5. AnswersTellThePhase'
  <2>1. CASE kind = "load"
    <3>1. settings.view = None /\ \A other \in Lifecycle : ~Done(other)
      BY <1>1, <1>2, <2>1 DEF LoadsFirst, Pending, Done, CommandKinds, Lifecycle
    <3>2. settings'.view = None /\ \A other \in Lifecycle : ~Done(other)'
      BY <1>3, <2>1, <3>1, Served DEF Done, Lifecycle
    <3>3. Done("load")' => inFlight'["load"].result.status = project'.status
      BY <2>1, Served DEF Live, Done
    <3>4. QED
      BY <3>2, <3>3 DEF AnswersTellThePhase, LastUnheard
  <2>2. CASE kind \notin Lifecycle \cup {"load"}
    <3>1. orderly' = orderly
      BY <2>2 DEF ServeCommand, LifecycleInv
    <3>2. /\ \A other \in Lifecycle : inFlight'[other] = inFlight[other]
          /\ inFlight'["load"] = inFlight["load"]
      BY <1>3, <2>2, Served DEF CommandKinds
    <3>3. QED
      BY <2>2, <3>1, <3>2, Served, AnswersKept
  <2>3. CASE kind \in Lifecycle
    <3> SUFFICES ASSUME orderly' PROVE AnswersTellThePhase'
      BY DEF AnswersTellThePhase
    <3>1. orderly /\ inFlight[kind].intent > settings.served /\ kind # "load"
      BY <2>3 DEF ServeCommand, Lifecycle
    <3>2. inFlight'["load"] = inFlight["load"]
      BY <3>1, Served DEF CommandKinds
    <3>3. CASE ~Live(kind)' /\ UNCHANGED project
      <4>1. \A other \in Lifecycle :
              inFlight'[other] = inFlight[other] \/ (~Done(other) /\ ~Done(other)')
        BY <1>1, <1>3, <3>3 DEF Live, Done
      <4>2. QED
        BY <3>1, <3>2, <3>3, <4>1, Served, AnswersKept
    <3>4. CASE /\ Done(kind)' /\ inFlight'[kind].intent = inFlight[kind].intent
               /\ inFlight'[kind].result.status = project'.status
      <4>1. /\ inFlight'[kind].intent > settings'.applied
            /\ \A other \in Lifecycle \ {kind} : Done(other)' =>
                 /\ inFlight'[other].intent < inFlight'[kind].intent
                 /\ inFlight'[other].intent \in Nat
        BY <1>1, <1>2, <1>3, <3>1, <3>4, Served DEF IntentsDiffer, Live, Done
      <4>2. \A other \in Lifecycle : LastUnheard(other)' => other = kind
        BY <1>1, <2>3, <3>4, <4>1 DEF LastUnheard
      <4>3. ~Done("load")'
        <5>1. ~Pending("load")
          BY <1>1, <1>2, <2>3, <3>1 DEF LoadsFirst, Pending, CommandKinds
        <5>2. QED
          BY <3>2, <5>1 DEF Pending, Done
      <4>4. ~(\A other \in Lifecycle : Done(other)' => inFlight'[other].intent <= settings'.applied)
        <5>1. ~(inFlight'[kind].intent <= settings'.applied)
          BY <1>1, <3>4, <4>1, Served
        <5>2. QED
          BY <2>3, <3>4, <5>1
      <4>5. QED
        BY <3>4, <4>2, <4>3, <4>4 DEF AnswersTellThePhase
    <3>5. QED
      BY <3>3, <3>4, Served
  <2>4. QED
    BY <2>1, <2>2, <2>3
<1>6. QED
  BY <1>4, <1>5, Served DEF LifecycleInv

\* An answer that tells nothing of the phase: it changes what else is shown.
LEMMA AnswerAside ==
  ASSUME LifecycleInv, NEW kind \in CommandKinds \ {"load"}, Done(kind),
         inFlight' = [inFlight EXCEPT ![kind] = NoRequest], UNCHANGED <<project, orderly>>,
         settings' \in [open : BOOLEAN, view : Workspaces \cup {None},
                        basics : SettingsBasics \cup {None},
                        intent : Nat, applied : Nat, served : Nat],
         settings'.view \in Workspaces, settings'.view.status = settings.view.status,
         settings'.basics \in SettingsBasics,
         settings'.intent = settings.intent, settings'.applied = settings.applied,
         settings'.served = settings.served, settings'.view # None,
         kind \in Lifecycle => inFlight[kind].intent <= settings.applied
  PROVE  LifecycleInv'
<1>1. NoRequest \in GoodRequests(kind) /\ NoRequest.stage = "idle"
  BY QuietRequest
<1>2. /\ RequestsAreGood' /\ inFlight'[kind] = NoRequest
      /\ \A other \in CommandKinds \ {kind} : inFlight'[other] = inFlight[other]
  BY <1>1, RequestMoves
<1>3. ProjectIsGood' /\ orderly' \in BOOLEAN /\ SettingsAreGood'
  BY DEF LifecycleInv, ProjectIsGood, SettingsAreGood
<1>4. settings.view # None /\ ~Pending("load")
  BY DEF LifecycleInv, LoadsFirst, Pending, Done
<1>5. LoadsFirst' /\ ~Done("load")'
  BY <1>2, <1>4 DEF LoadsFirst, Pending, Done, CommandKinds
<1>6. \A other \in Lifecycle : inFlight'[other] = inFlight[other] \/ ~Live(other)'
  BY <1>1, <1>2 DEF Live, CommandKinds
<1>7. IntentsDiffer'
  BY <1>6, SettingsFields, IntentsKept
<1>8. AnswersTellThePhase'
  <2>1. CASE kind \notin Lifecycle
    <3>1. \A other \in Lifecycle : inFlight'[other] = inFlight[other]
      BY <1>2, <2>1 DEF CommandKinds
    <3>2. QED
      BY <1>4, <1>5, <3>1, AnswersKept
  <2>2. CASE kind \in Lifecycle
    <3> SUFFICES ASSUME orderly PROVE AnswersTellThePhase'
      BY DEF AnswersTellThePhase
    <3>1. AnswersTellThePhase
      BY DEF LifecycleInv
    <3>2. /\ \A other \in Lifecycle \ {kind} : inFlight'[other] = inFlight[other]
          /\ ~Done(kind)'
          /\ \A other \in Lifecycle : inFlight[other].intent \in Nat
          /\ settings.applied \in Nat
      BY <1>1, <1>2, SettingsFields, RequestFields DEF CommandKinds, Done
    <3>3. ASSUME NEW other \in Lifecycle, LastUnheard(other)'
          PROVE  inFlight'[other].result.status = project'.status
      <4>1. other # kind /\ LastUnheard(other)
        BY <2>2, <3>2, <3>3 DEF LastUnheard, Done
      <4>2. QED
        BY <3>1, <3>2, <4>1 DEF AnswersTellThePhase
    <3>4. ASSUME \A other \in Lifecycle :
                   Done(other)' => inFlight'[other].intent <= settings'.applied
          PROVE  settings'.view.status = project'.status
      <4>1. \A other \in Lifecycle : Done(other) => inFlight[other].intent <= settings.applied
        BY <2>2, <3>2, <3>4 DEF Done
      <4>2. QED
        BY <1>4, <3>1, <4>1 DEF AnswersTellThePhase
    <3>5. QED
      BY <1>5, <3>3, <3>4 DEF AnswersTellThePhase
  <2>3. QED
    BY <2>1, <2>2
<1>9. QED
  BY <1>2, <1>3, <1>5, <1>7, <1>8 DEF LifecycleInv

\* The answer to a phase change, sent after those that were applied.
LEMMA PhaseAnswered ==
  ASSUME LifecycleInv, NEW kind \in Lifecycle, Done(kind), Applies(inFlight[kind].intent),
         inFlight' = [inFlight EXCEPT ![kind] = NoRequest], UNCHANGED <<project, orderly>>,
         settings' = [settings EXCEPT !.view.status = inFlight[kind].result.status,
                                      !.applied = inFlight[kind].intent]
  PROVE  LifecycleInv'
<1> DEFINE call == inFlight[kind]
           view == [settings.view EXCEPT !.status = call.result.status]
<1>1. /\ kind \in CommandKinds /\ kind # "load"
      /\ NoRequest \in GoodRequests(kind) /\ NoRequest.stage = "idle"
  BY QuietRequest DEF CommandKinds, Lifecycle
<1>2. /\ RequestsAreGood' /\ inFlight'[kind] = NoRequest
      /\ \A other \in CommandKinds \ {kind} : inFlight'[other] = inFlight[other]
  BY <1>1, RequestMoves
<1>3. settings.view # None /\ ~Pending("load") /\ IntentsDiffer /\ AnswersTellThePhase
  BY <1>1 DEF LifecycleInv, LoadsFirst, Pending, Done
<1>4. /\ settings.applied \in Nat /\ settings.intent \in Nat /\ settings.served \in Nat
      /\ \A other \in Lifecycle : inFlight[other].intent \in Nat
      /\ settings.view \in Workspaces /\ settings.basics \in SettingsBasics
      /\ call.result \in Workspaces
  BY <1>1, <1>3, SettingsFields, RequestFields DEF CommandKinds
<1>5. /\ call.intent > settings.applied /\ call.intent <= settings.served
      /\ call.intent <= settings.intent
      /\ \A other \in Lifecycle \ {kind} : Live(other) => inFlight[other].intent # call.intent
  BY <1>3, <1>4 DEF Applies, IntentsDiffer, Live, Done
<1>6. view \in Workspaces /\ view.status = call.result.status /\ view # None
  <2>1. view \in Workspaces /\ view.status = call.result.status
    BY <1>4 DEF Workspaces
  <2>2. None \notin Workspaces
    BY LifecycleAssumption, WorkspacesOfRows
  <2>3. QED
    BY <2>1, <2>2
<1>7. settings' = [settings EXCEPT !.view = view, !.applied = call.intent]
  BY SettingsFields
<1> HIDE DEF view
<1>8. /\ settings' \in [open : BOOLEAN, view : Workspaces \cup {None},
                        basics : SettingsBasics \cup {None},
                        intent : Nat, applied : Nat, served : Nat]
      /\ settings'.view = view /\ settings'.basics = settings.basics
      /\ settings'.intent = settings.intent /\ settings'.applied = call.intent
      /\ settings'.served = settings.served
  BY <1>4, <1>6, <1>7, SettingsFields
<1>9. ProjectIsGood' /\ orderly' \in BOOLEAN /\ SettingsAreGood'
  BY <1>4, <1>6, <1>8 DEF LifecycleInv, ProjectIsGood, SettingsAreGood
<1>10. LoadsFirst' /\ ~Done("load")'
  BY <1>1, <1>2, <1>3, <1>6, <1>8 DEF LoadsFirst, Pending, Done, CommandKinds
<1>11. /\ ~Live(kind)' /\ ~Done(kind)'
       /\ \A other \in Lifecycle \ {kind} : inFlight'[other] = inFlight[other]
  BY <1>1, <1>2 DEF Live, Done, CommandKinds
<1>12. IntentsDiffer'
  <2>1. settings'.applied <= settings'.served /\ settings'.applied <= settings'.intent
    BY <1>5, <1>8
  <2>2. ASSUME NEW other \in Lifecycle, Live(other)'
        PROVE  /\ inFlight'[other].intent <= settings'.intent
               /\ inFlight'[other].intent # settings'.applied
               /\ Done(other)' => inFlight'[other].intent <= settings'.served
    BY <1>3, <1>5, <1>8, <1>11, <2>2 DEF IntentsDiffer, Live, Done
  <2>3. ASSUME NEW first \in Lifecycle, NEW second \in Lifecycle, Live(first)', Live(second)',
               first # second
        PROVE  inFlight'[first].intent # inFlight'[second].intent
    BY <1>3, <1>11, <2>3 DEF IntentsDiffer, Live
  <2>4. QED
    BY <2>1, <2>2, <2>3 DEF IntentsDiffer
<1>13. AnswersTellThePhase'
  <2> SUFFICES ASSUME orderly PROVE AnswersTellThePhase'
    BY DEF AnswersTellThePhase
  <2>1. ASSUME NEW other \in Lifecycle, LastUnheard(other)'
        PROVE  inFlight'[other].result.status = project'.status
    <3>1. /\ other # kind /\ Done(other) /\ inFlight'[other] = inFlight[other]
          /\ inFlight[other].intent > call.intent
          /\ \A third \in Lifecycle \ {kind} :
               Done(third) => inFlight[third].intent <= inFlight[other].intent
      BY <1>8, <1>11, <2>1 DEF LastUnheard, Done
    <3>2. LastUnheard(other)
      BY <1>4, <1>5, <3>1 DEF LastUnheard
    <3>3. QED
      BY <1>3, <3>1, <3>2 DEF AnswersTellThePhase
  <2>2. ASSUME \A other \in Lifecycle :
                 Done(other)' => inFlight'[other].intent <= settings'.applied
        PROVE  settings'.view.status = project'.status
    <3>1. \A other \in Lifecycle \ {kind} : Done(other) => inFlight[other].intent <= call.intent
      BY <1>8, <1>11, <2>2 DEF Done
    <3>2. LastUnheard(kind)
      BY <1>4, <1>5, <3>1 DEF LastUnheard
    <3>3. QED
      BY <1>3, <1>6, <1>8, <3>2 DEF AnswersTellThePhase
  <2>3. QED
    BY <1>10, <2>1, <2>2 DEF AnswersTellThePhase
<1>14. QED
  BY <1>2, <1>9, <1>10, <1>12, <1>13 DEF LifecycleInv

LEMMA ReceiveAnswerStep ==
  ASSUME LifecycleInv, NEW kind \in CommandKinds, ReceiveAnswer(kind)
  PROVE  LifecycleInv'
<1> DEFINE call == inFlight[kind]
<1>1. kind \in CommandKinds \ {"load"} /\ Done(kind) /\ UNCHANGED <<project, orderly>>
  BY DEF ReceiveAnswer, Done
<1>2. /\ settings.view \in Workspaces /\ settings.view # None
      /\ settings.basics \in SettingsBasics /\ call.result \in Workspaces
  BY <1>1, SettingsFields, RequestFields DEF LifecycleInv, LoadsFirst, Pending, Done
<1>3. None \notin Workspaces
  BY LifecycleAssumption, WorkspacesOfRows
<1>4. CASE kind = "delete"
  <2>1. settings' = NotOpen /\ inFlight' = NoRequests
    BY <1>4 DEF ReceiveAnswer, Lifecycle
  <2>2. QED
    BY <1>1, <2>1, StartOverStep
<1>5. CASE kind = "save-basics"
  <2> DEFINE view == [settings.view EXCEPT !.basics = call.result.basics]
  <2>1. view \in Workspaces /\ view.status = settings.view.status
        /\ call.result.basics \in SettingsBasics
    BY <1>2 DEF Workspaces
  <2>2. /\ settings' = [settings EXCEPT !.view = view, !.basics = call.result.basics]
        /\ inFlight' = [inFlight EXCEPT ![kind] = NoRequest] /\ kind \notin Lifecycle
    BY <1>5, SettingsFields DEF ReceiveAnswer, Lifecycle
  <2> HIDE DEF view
  <2>3. /\ settings' \in [open : BOOLEAN, view : Workspaces \cup {None},
                          basics : SettingsBasics \cup {None},
                          intent : Nat, applied : Nat, served : Nat]
        /\ settings'.view = view /\ settings'.basics = call.result.basics
        /\ settings'.intent = settings.intent /\ settings'.applied = settings.applied
        /\ settings'.served = settings.served
    BY <2>1, <2>2, SettingsFields
  <2>4. QED
    BY <1>1, <1>3, <2>1, <2>2, <2>3, AnswerAside
<1>6. CASE kind = "save-playbook"
  <2> DEFINE view == [settings.view EXCEPT !.playbook = call.result.playbook]
  <2>1. view \in Workspaces /\ view.status = settings.view.status
    BY <1>2 DEF Workspaces
  <2>2. /\ settings' = [settings EXCEPT !.view = view]
        /\ inFlight' = [inFlight EXCEPT ![kind] = NoRequest] /\ kind \notin Lifecycle
    BY <1>6, SettingsFields DEF ReceiveAnswer, Lifecycle
  <2> HIDE DEF view
  <2>3. /\ settings' \in [open : BOOLEAN, view : Workspaces \cup {None},
                          basics : SettingsBasics \cup {None},
                          intent : Nat, applied : Nat, served : Nat]
        /\ settings'.view = view /\ settings'.basics = settings.basics
        /\ settings'.intent = settings.intent /\ settings'.applied = settings.applied
        /\ settings'.served = settings.served
    BY <2>1, <2>2, SettingsFields
  <2>4. QED
    BY <1>1, <1>2, <1>3, <2>1, <2>2, <2>3, AnswerAside
<1>7. CASE kind \in Lifecycle /\ Applies(call.intent)
  <2>1. /\ settings' = [settings EXCEPT !.view.status = call.result.status,
                                        !.applied = call.intent]
        /\ inFlight' = [inFlight EXCEPT ![kind] = NoRequest]
    BY <1>7 DEF ReceiveAnswer, Lifecycle
  <2>2. QED
    BY <1>1, <1>7, <2>1, PhaseAnswered
<1>8. CASE kind \in Lifecycle /\ ~Applies(call.intent)
  <2>1. settings' = settings /\ inFlight' = [inFlight EXCEPT ![kind] = NoRequest]
    BY <1>8 DEF ReceiveAnswer, Lifecycle
  <2>2. call.intent <= settings.applied
    BY <1>1, <1>8, SettingsFields, RequestFields DEF Applies
  <2>3. QED
    BY <1>1, <1>2, <2>1, <2>2, SettingsFields, AnswerAside
<1>9. QED
  BY <1>1, <1>4, <1>5, <1>6, <1>7, <1>8 DEF CommandKinds

\* Another page changes the project, or work on it starts.
LEMMA ProjectMoves ==
  ASSUME LifecycleInv, ProjectIsGood', UNCHANGED <<settings, inFlight>>,
         orderly' \in BOOLEAN,
         orderly' => orderly /\ project'.status = project.status
  PROVE  LifecycleInv'
<1>1. SettingsAreGood' /\ RequestsAreGood' /\ LoadsFirst'
  BY DEF LifecycleInv, SettingsAreGood, RequestsAreGood, LoadsFirst, Pending
<1>2. IntentsDiffer'
  BY DEF LifecycleInv, IntentsDiffer, Live, Done
<1>3. AnswersTellThePhase'
  BY AnswersKept
<1>4. QED
  BY <1>1, <1>2, <1>3 DEF LifecycleInv

LEMMA CommandElsewhereStep ==
  ASSUME LifecycleInv, NEW kind \in CommandKinds, NEW value, CommandElsewhere(kind, value),
         kind = "save-basics" => value \in SettingsBasics,
         kind = "save-playbook" => value \in Playbooks,
         kind = "save-status" => value \in Phases
  PROVE  LifecycleInv'
<1>1. ProjectIsGood /\ orderly \in BOOLEAN
  BY DEF LifecycleInv
<1>2. ProjectIsGood' /\ (kind \notin Lifecycle => project'.status = project.status)
  BY <1>1, OutcomeIsGood DEF CommandElsewhere
<1>3. QED
  BY <1>1, <1>2, ProjectMoves DEF CommandElsewhere

LEMMA WorkStartsStep ==
  ASSUME LifecycleInv, WorkStarts
  PROVE  LifecycleInv'
<1>1. project \in ProjectRows /\ ProjectIsGood /\ orderly \in BOOLEAN
  BY DEF LifecycleInv, ProjectIsGood
<1>2. /\ project' \in {[project EXCEPT !.round = TRUE], [project EXCEPT !.history = TRUE]}
      /\ UNCHANGED <<settings, inFlight, orderly>>
  BY DEF WorkStarts, settingsVars
<1>3. ASSUME NEW row \in {[project EXCEPT !.round = TRUE], [project EXCEPT !.history = TRUE]}
      PROVE  /\ row \in ProjectRows /\ row.status = project.status
             /\ row.archivedFrom = project.archivedFrom /\ row.revision = project.revision
  BY <1>1 DEF ProjectRows
<1>4. ProjectIsGood' /\ project'.status = project.status
  BY <1>1, <1>2, <1>3 DEF ProjectIsGood
<1>5. QED
  BY <1>1, <1>2, <1>4, ProjectMoves

LEMMA LifecycleInvInit == LifecycleInit => LifecycleInv
<1> SUFFICES ASSUME LifecycleInit PROVE LifecycleInv
  OBVIOUS
<1>1. ProjectIsGood
  <2>1. PICK basics \in SettingsBasics, playbook \in Playbooks :
          project = DraftProject(basics, playbook)
    BY DEF LifecycleInit
  <2>2. project \in ProjectRows /\ project.status = "DRAFT" /\ project.archivedFrom = None
    BY <2>1 DEF DraftProject, ProjectRows, Phases
  <2>3. None # "READY_FOR_PLANNING"
    BY LifecycleAssumption DEF Phases
  <2>4. QED
    BY <2>2, <2>3 DEF ProjectIsGood
<1>2. settings = NotOpen /\ inFlight = NoRequests /\ orderly \in BOOLEAN
  BY DEF LifecycleInit
<1>3. QED
  BY <1>1, <1>2, NothingUnderWay DEF StartsOver

LEMMA LifecycleInvStep == LifecycleInv /\ [LifecycleNext]_lifecycleVars => LifecycleInv'
<1> SUFFICES ASSUME LifecycleInv, [LifecycleNext]_lifecycleVars PROVE LifecycleInv'
  OBVIOUS
<1>1. CASE Settings
  <2>1. \A kind \in CommandKinds :
          /\ ServeCommand(kind) => LifecycleInv'
          /\ LoseCommand(kind) \/ ReceiveFailure(kind) => LifecycleInv'
          /\ ReceiveAnswer(kind) => LifecycleInv'
    BY ServeCommandStep, LoseCommandStep, ReceiveAnswerStep
  <2>2. \A basics \in SettingsBasics : EditBasics(basics) => LifecycleInv'
    BY EditBasicsStep
  <2>3. OpenSettings \/ LeaveSettings => LifecycleInv'
    BY StartOverStep DEF OpenSettings, LeaveSettings
  <2>4. QED
    BY <1>1, <2>1, <2>2, <2>3, SaveStep, SendLifecycleStep, ReceiveLoadStep
    DEF Settings
<1>2. CASE WorkStarts
  BY <1>2, WorkStartsStep
<1>3. CASE \/ \E kind \in {"archive", "restore", "delete"} : CommandElsewhere(kind, None)
           \/ \E status \in Phases : CommandElsewhere("save-status", status)
           \/ \E basics \in SettingsBasics : CommandElsewhere("save-basics", basics)
  BY <1>3, CommandElsewhereStep DEF CommandKinds, Lifecycle
<1>4. CASE UNCHANGED lifecycleVars
  <2>1. UNCHANGED <<project, settings, inFlight, orderly>>
    BY <1>4 DEF lifecycleVars
  <2>2. ProjectIsGood' /\ orderly' \in BOOLEAN
    BY <2>1 DEF LifecycleInv, ProjectIsGood
  <2>3. QED
    BY <2>1, <2>2, ProjectMoves
<1>5. QED
  BY <1>1, <1>2, <1>3, <1>4 DEF LifecycleNext

LEMMA LifecycleInvHolds == LifecycleSpec => []LifecycleInv
  BY LifecycleInvInit, LifecycleInvStep, PTL DEF LifecycleSpec

\* Every variable of a project and its settings page has its type, and a project
\* that is ready for planning has a specification revision.
THEOREM LifecycleTypeCorrect == LifecycleSpec => []LifecycleTypeOK
<1>1. LifecycleInv => LifecycleTypeOK
  BY WorkspacesOfRows, SettingsFields, RequestFields
  DEF LifecycleInv, ProjectIsGood, LifecycleTypeOK, RequestStages
<1>2. QED
  BY <1>1, LifecycleInvHolds, PTL

\* A page whose phase changes were all answered, in whatever order, shows the
\* phase of its project: of the answers it has not applied, the one to the
\* change that was sent last tells it.
THEOREM QuietPageShowsPhaseHolds == LifecycleSpec => []QuietPageShowsPhase
<1>1. LifecycleInv => QuietPageShowsPhase
  BY DEF LifecycleInv, AnswersTellThePhase, QuietPageShowsPhase, Pending, Done
<1>2. QED
  BY <1>1, LifecycleInvHolds, PTL

-----------------------------------------------------------------------------
(* ActiveProjectQueue: the place of a Project ends in its id, so that no   *)
(* two share one, and the rows of a query are in a total order.            *)

QueuePlaces == (0..3) \X (0..(MaxNow + Soon + 1)) \X Nat \X Projects
QueueRowsType == [Projects -> [active : BOOLEAN, replies : BOOLEAN, due : Dues \cup {None}]]
PlacesKnown == queueRows \in QueueRowsType /\ now \in 1..MaxNow

\* SQL compares the first parts that differ.
LEMMA AfterByParts ==
  ASSUME NEW x \in QueuePlaces, NEW y \in QueuePlaces
  PROVE  After(x, y) <=> \/ x[1] > y[1]
                         \/ x[1] = y[1] /\ x[2] > y[2]
                         \/ x[1] = y[1] /\ x[2] = y[2] /\ x[3] > y[3]
                         \/ x[1] = y[1] /\ x[2] = y[2] /\ x[3] = y[3] /\ x[4] > y[4]
<1>1. 1..4 = {1, 2, 3, 4} /\ 1..0 = {} /\ 1..1 = {1} /\ 1..2 = {1, 2} /\ 1..3 = {1, 2, 3}
  OBVIOUS
<1>2. QED BY <1>1 DEF After

\* The row comparison is a strict total order.
LEMMA AfterIsAnOrder ==
  ASSUME NEW x \in QueuePlaces, NEW y \in QueuePlaces, NEW z \in QueuePlaces
  PROVE  /\ ~After(x, x)
         /\ After(x, y) => ~After(y, x)
         /\ x # y => After(x, y) \/ After(y, x)
         /\ After(x, y) /\ After(y, z) => After(x, z)
<1>1. /\ x[1] \in Int /\ x[2] \in Int /\ x[3] \in Int /\ x[4] \in Int
      /\ y[1] \in Int /\ y[2] \in Int /\ y[3] \in Int /\ y[4] \in Int
      /\ z[1] \in Int /\ z[2] \in Int /\ z[3] \in Int /\ z[4] \in Int
  <2>1. Projects \subseteq Int /\ MaxNow + Soon + 1 \in Int
    BY QueueAssumption DEF QueueAssumption
  <2>2. ASSUME NEW w \in QueuePlaces
        PROVE  w[1] \in Int /\ w[2] \in Int /\ w[3] \in Int /\ w[4] \in Int
    <3>1. /\ w[1] \in 0..3 /\ w[2] \in 0..(MaxNow + Soon + 1)
          /\ w[3] \in Nat /\ w[4] \in Projects
      BY DEF QueuePlaces
    <3>2. w[1] \in Int /\ w[3] \in Int
      BY <3>1
    <3>3. w[2] \in Int
      BY <3>1
    <3>4. w[4] \in Int
      BY <2>1, <3>1
    <3>5. QED BY <3>2, <3>3, <3>4
  <2>3. QED BY <2>2
<1>2. x[1] = y[1] /\ x[2] = y[2] /\ x[3] = y[3] /\ x[4] = y[4] => x = y
  BY DEF QueuePlaces
<1>3. ~After(x, x) /\ (After(x, y) => ~After(y, x)) /\ (x # y => After(x, y) \/ After(y, x))
  BY <1>1, <1>2, AfterByParts
<1>4. After(x, y) /\ After(y, z) => After(x, z)
  BY <1>1, AfterByParts
<1>5. QED BY <1>3, <1>4

\* A place is one, and the anchor of a cursor names the Project that it is of.
LEMMA PlaceOfItsProject ==
  ASSUME PlacesKnown, NEW p \in Projects
  PROVE  /\ Place(p) \in QueuePlaces /\ Place(p)[4] = p /\ Place(p)[3] = Name[p]
         /\ Anchor(p) \in QueuePlaces /\ Anchor(p)[4] = p
         /\ Anchor(p)[3] = Name[p] => Anchor(p) = Place(p)
<1> DEFINE row == queueRows[p]
<1>1. row \in [active : BOOLEAN, replies : BOOLEAN, due : Dues \cup {None}]
  BY DEF PlacesKnown, QueueRowsType
<1>2. Urgency(row) \in 0..3
  BY <1>1 DEF Urgency
<1>3. OrderedDue(row) \in 0..(MaxNow + Soon + 1)
  <2>1. MaxNow + Soon + 1 \in Nat /\ Dues \subseteq 0..(MaxNow + Soon + 1)
    <3>1. MaxNow \in Nat /\ Soon \in Nat /\ Dues \subseteq 0..(MaxNow + Soon)
      BY QueueAssumption DEF QueueAssumption
    <3>2. QED BY <3>1
  <2>2. row.due = None \/ row.due \in 0..(MaxNow + Soon + 1)
    BY <1>1, <2>1
  <2>3. QED BY <2>1, <2>2 DEF OrderedDue
<1>4. Name[p] \in Nat /\ CursorName(p) \in Nat
  BY QueueAssumption DEF CursorName, QueueAssumption
<1>5. QED BY <1>2, <1>3, <1>4 DEF Place, Anchor, QueuePlaces

LEMMA BeyondTyped ==
  ASSUME NEW query \in Queries
  PROVE  /\ Filtered(query.search) \subseteq Projects
         /\ Beyond(query) \subseteq Filtered(query.search)
         /\ IsFiniteSet(Beyond(query)) /\ Cardinality(Beyond(query)) \in Nat
         /\ IsFiniteSet(Filtered(query.search)) /\ Cardinality(Filtered(query.search)) \in Nat
         /\ query.cursor # None => query.cursor.anchor \in QueuePlaces
<1>1. /\ Filtered(query.search) \subseteq Projects /\ Beyond(query) \subseteq Projects
      /\ Beyond(query) \subseteq Filtered(query.search)
  BY QueueAssumption DEF Filtered, Beyond, Queries, QueueAssumption
<1>2. /\ IsFiniteSet(Beyond(query)) /\ Cardinality(Beyond(query)) \in Nat
      /\ IsFiniteSet(Filtered(query.search)) /\ Cardinality(Filtered(query.search)) \in Nat
  BY <1>1, QueueAssumption, FS_Subset, FS_CardinalityType DEF QueueAssumption
<1>3. QED BY <1>1, <1>2 DEF Queries, Cursors, QueuePlaces

\* The rows of a query are in a strict total order, forwards and backwards.
LEMMA PrecedesIsAnOrder ==
  ASSUME PlacesKnown, NEW query, NEW p \in Projects, NEW q \in Projects, NEW r \in Projects
  PROVE  /\ ~Precedes(query, p, p)
         /\ p # q => Precedes(query, p, q) \/ Precedes(query, q, p)
         /\ Precedes(query, p, q) /\ Precedes(query, q, r) => Precedes(query, p, r)
<1>1. /\ Place(p) \in QueuePlaces /\ Place(q) \in QueuePlaces /\ Place(r) \in QueuePlaces
      /\ p # q => Place(p) # Place(q)
  BY PlaceOfItsProject
<1>2. QED BY <1>1, AfterIsAnOrder DEF Precedes

\* The rows are numbered in their order, without a gap.
LEMMA RowsAreNumbered ==
  ASSUME PlacesKnown, NEW query \in Queries
  PROVE  LET rank(p) == Cardinality(Earlier(query, p))
             count == Cardinality(Beyond(query))
         IN /\ \A p \in Beyond(query) : rank(p) \in 0..(count - 1)
            /\ \A p, q \in Beyond(query) : Precedes(query, p, q) <=> rank(p) < rank(q)
            /\ \A p, q \in Beyond(query) : rank(p) = rank(q) => p = q
            /\ \A i \in 0..(count - 1) : \E p \in Beyond(query) : rank(p) = i
<1> DEFINE S == Beyond(query)
           count == Cardinality(S)
           rank(p) == Cardinality(Earlier(query, p))
           numbering == [p \in S |-> rank(p)]
<1>1. S \subseteq Projects /\ IsFiniteSet(S) /\ count \in Nat
  BY BeyondTyped
<1>2. ASSUME NEW p \in S
      PROVE  /\ Earlier(query, p) \subseteq S \ {p} /\ IsFiniteSet(Earlier(query, p))
             /\ rank(p) \in 0..(count - 1)
  <2>1. Earlier(query, p) \subseteq S \ {p}
    BY <1>1, PrecedesIsAnOrder DEF Earlier
  <2>2. IsFiniteSet(S \ {p}) /\ Cardinality(S \ {p}) = count - 1
    BY <1>1, FS_RemoveElement
  <2>3. /\ IsFiniteSet(Earlier(query, p)) /\ rank(p) \in Nat
        /\ rank(p) <= Cardinality(S \ {p})
    BY <2>1, <2>2, FS_Subset, FS_CardinalityType
  <2>4. QED BY <1>1, <2>1, <2>2, <2>3
<1>3. ASSUME NEW p \in S, NEW q \in S, Precedes(query, p, q)
      PROVE  rank(p) < rank(q)
  <2>1. Earlier(query, p) \subseteq Earlier(query, q) /\ p \in Earlier(query, q)
    BY <1>1, <1>3, PrecedesIsAnOrder DEF Earlier
  <2>2. Earlier(query, p) # Earlier(query, q)
    BY <1>2, <2>1
  <2>3. rank(p) <= rank(q) /\ rank(p) # rank(q)
    BY <1>2, <2>1, <2>2, FS_Subset
  <2>4. QED BY <1>2, <2>3
<1>4. \A p, q \in S : Precedes(query, p, q) <=> rank(p) < rank(q)
  <2> SUFFICES ASSUME NEW p \in S, NEW q \in S, rank(p) < rank(q)
               PROVE  Precedes(query, p, q)
    BY <1>3
  <2>1. p # q /\ ~(rank(q) < rank(p))
    BY <1>2
  <2>2. QED BY <1>1, <1>3, <2>1, PrecedesIsAnOrder
<1>5. \A p, q \in S : rank(p) = rank(q) => p = q
  <2> SUFFICES ASSUME NEW p \in S, NEW q \in S, rank(p) = rank(q), p # q
               PROVE  FALSE
    OBVIOUS
  <2>1. ~(rank(q) < rank(p)) /\ ~(rank(p) < rank(q))
    BY <1>2
  <2>2. QED BY <1>1, <1>3, <2>1, PrecedesIsAnOrder
<1>6. numbering \in Injection(S, 0..(count - 1))
  BY <1>2, <1>5, Fun_IsInj
<1>7. IsFiniteSet(0..(count - 1)) /\ Cardinality(0..(count - 1)) = count
  BY <1>1, FS_Interval
<1>8. numbering \in Surjection(S, 0..(count - 1))
  BY <1>1, <1>6, <1>7, FS_Injection
<1>9. \A i \in 0..(count - 1) : \E p \in S : numbering[p] = i
  BY <1>8 DEF Surjection
<1>10. QED BY <1>2, <1>4, <1>5, <1>9

\* Candidates are the first rows, in order.
LEMMA CandidatesInOrder ==
  ASSUME PlacesKnown, NEW query \in Queries
  PROVE  LET rows == Candidates(query)
             count == Cardinality(Beyond(query))
         IN /\ rows \in Seq(Beyond(query)) /\ Len(rows) <= PageSize + 1
            /\ Len(rows) <= PageSize
                 => \A p \in Beyond(query) : \E i \in 1..Len(rows) : rows[i] = p
            /\ \A i, j \in 1..Len(rows) : i < j <=> Precedes(query, rows[i], rows[j])
            /\ \A i, j \in 1..Len(rows) : rows[i] = rows[j] => i = j
            /\ \A i \in 1..Len(rows), p \in Beyond(query) :
                 Precedes(query, p, rows[i]) => \E j \in 1..(i - 1) : rows[j] = p
<1> DEFINE S == Beyond(query)
           count == Cardinality(S)
           rank(p) == Cardinality(Earlier(query, p))
           len == IF count <= PageSize THEN count ELSE PageSize + 1
           rows == [i \in 1..len |-> CHOOSE p \in S : rank(p) = i - 1]
<1>1. Candidates(query) = rows
  BY DEF Candidates
<1>2. count \in Nat /\ len \in Nat /\ len <= count /\ len <= PageSize + 1 /\ PageSize \in Nat
  BY BeyondTyped, QueueAssumption DEF QueueAssumption
<1>3. /\ \A p \in S : rank(p) \in 0..(count - 1)
      /\ \A p, q \in S : Precedes(query, p, q) <=> rank(p) < rank(q)
      /\ \A p, q \in S : rank(p) = rank(q) => p = q
      /\ \A i \in 0..(count - 1) : \E p \in S : rank(p) = i
  BY RowsAreNumbered
<1> HIDE DEF S, rank
<1>4. ASSUME NEW i \in 1..len
      PROVE  rows[i] \in S /\ rank(rows[i]) = i - 1
  <2>1. i - 1 \in 0..(count - 1)
    BY <1>2
  <2>2. \E p \in S : rank(p) = i - 1
    BY <1>3, <2>1
  <2>3. QED BY <2>2
<1> HIDE DEF count
<1>5. rows \in [1..len -> S]
  BY <1>4
<1> HIDE DEF rows
<1>6. Len(rows) = len /\ rows \in Seq(S) /\ DOMAIN rows = 1..len
  BY <1>2, <1>5
<1>7. ASSUME NEW p \in S, rank(p) < len
      PROVE  rank(p) + 1 \in 1..len /\ rows[rank(p) + 1] = p
  <2>1. rank(p) + 1 \in 1..len
    BY <1>2, <1>3, <1>7
  <2>2. rank(rows[rank(p) + 1]) = rank(p) /\ rows[rank(p) + 1] \in S
    BY <1>3, <1>4, <2>1
  <2>3. QED BY <1>3, <2>1, <2>2
<1>8. len <= PageSize => \A p \in S : \E i \in 1..len : rows[i] = p
  <2> SUFFICES ASSUME len <= PageSize, NEW p \in S
               PROVE  \E i \in 1..len : rows[i] = p
    OBVIOUS
  <2>1. len = count
    BY <1>2
  <2>2. rank(p) < len
    BY <1>2, <1>3, <2>1
  <2>3. QED BY <1>7, <2>2
<1>9. \A i, j \in 1..len : i < j <=> Precedes(query, rows[i], rows[j])
  BY <1>2, <1>3, <1>4
<1>10. \A i, j \in 1..len : rows[i] = rows[j] => i = j
  BY <1>2, <1>4
<1>11. ASSUME NEW i \in 1..len, NEW p \in S, Precedes(query, p, rows[i])
       PROVE  \E j \in 1..(i - 1) : rows[j] = p
  <2>1. rank(p) < i - 1 /\ rank(p) \in Nat
    BY <1>2, <1>3, <1>4, <1>11
  <2>2. rank(p) < len /\ rank(p) + 1 \in 1..(i - 1)
    BY <1>2, <2>1
  <2>3. QED BY <1>7, <2>2
<1>12. QED BY <1>1, <1>2, <1>6, <1>8, <1>9, <1>10, <1>11 DEF S

-----------------------------------------------------------------------------
(* The pages that are cut out of the rows.                                 *)

QueuePages == [query : Queries, items : BoundedSeq(Projects, PageSize), total : Nat,
               previous : Cursors \cup {None}, next : Cursors \cup {None}]

LEMMA CursorTyped ==
  ASSUME PlacesKnown, NEW search \in Searches, NEW p \in Projects,
         NEW direction \in {"NEXT", "PREVIOUS"}
  PROVE  Cursor(direction, search, p) \in Cursors
BY PlaceOfItsProject DEF Cursor, Cursors, QueuePlaces

\* A page is one, and reads on where it ends: without more rows it has all of
\* them, and otherwise those that are not beyond its last one.
LEMMA PageOfTheRows ==
  ASSUME PlacesKnown, NEW query \in Queries
  PROVE  LET answer == PageOf(query)
             shown(p) == \E i \in DOMAIN answer.items : answer.items[i] = p
         IN /\ answer \in QueuePages /\ answer.query = query
            /\ \A i \in DOMAIN answer.items : answer.items[i] \in Beyond(query)
            /\ \A i, j \in DOMAIN answer.items : answer.items[i] = answer.items[j] => i = j
            /\ ~Backward(query) =>
                 \/ answer.next = None /\ \A p \in Beyond(query) : shown(p)
                 \/ \E last \in Beyond(query) :
                      /\ answer.next = Cursor("NEXT", query.search, last)
                      /\ \A p \in Beyond(query) :
                           shown(p) <=> ~After(Place(p), Place(last))
<1> DEFINE S == Beyond(query)
           rows == Candidates(query)
           more == Len(rows) > PageSize
           selected == SubSeq(rows, 1, IF more THEN PageSize ELSE Len(rows))
           direction == IF query.cursor = None THEN "FIRST" ELSE query.cursor.direction
           items == IF direction = "PREVIOUS" THEN Reverse(selected) ELSE selected
           hasPrevious == direction = "NEXT" \/ (direction = "PREVIOUS" /\ more)
           hasNext == direction = "PREVIOUS" \/ more
           previous == IF hasPrevious /\ items # <<>>
                       THEN Cursor("PREVIOUS", query.search, Head(items)) ELSE None
           next == IF hasNext /\ items # <<>>
                   THEN Cursor("NEXT", query.search, Last(items)) ELSE None
           total == Cardinality(Filtered(query.search))
           len == IF more THEN PageSize ELSE Len(rows)
<1>1. PageOf(query) = [query |-> query, items |-> items, total |-> total,
                       previous |-> previous, next |-> next]
  BY DEF PageOf
<1>2. /\ rows \in Seq(S) /\ Len(rows) <= PageSize + 1
      /\ Len(rows) <= PageSize => \A p \in S : \E i \in 1..Len(rows) : rows[i] = p
      /\ \A i, j \in 1..Len(rows) : i < j <=> Precedes(query, rows[i], rows[j])
      /\ \A i, j \in 1..Len(rows) : rows[i] = rows[j] => i = j
      /\ \A i \in 1..Len(rows), p \in S :
           Precedes(query, p, rows[i]) => \E j \in 1..(i - 1) : rows[j] = p
  BY CandidatesInOrder
<1>3. S \subseteq Projects /\ total \in Nat /\ query.search \in Searches
  BY BeyondTyped DEF Queries
<1>4. PageSize \in Nat /\ PageSize >= 1
  BY QueueAssumption DEF QueueAssumption
<1> HIDE DEF rows, S
<1>5. len \in Nat /\ len <= PageSize /\ len <= Len(rows) /\ Len(rows) \in Nat
  BY <1>2, <1>4
<1>6. /\ selected \in Seq(S) /\ Len(selected) = len /\ DOMAIN selected = 1..len
      /\ \A i \in 1..len : selected[i] = rows[i]
  BY <1>2, <1>5, SubSeqProperties
<1> HIDE DEF selected, len
<1>7. /\ items \in Seq(S) /\ Len(items) = len /\ DOMAIN items = 1..len
      /\ \A i, j \in 1..len : items[i] = items[j] => i = j
      /\ direction # "PREVIOUS" => items = selected
  <2>1. CASE direction = "PREVIOUS"
    <3>1. Reverse(selected) = [i \in 1..len |-> selected[len - i + 1]]
      BY <1>6 DEF Reverse
    <3>2. \A i \in 1..len : len - i + 1 \in 1..len /\ selected[len - i + 1] \in S
      BY <1>5, <1>6
    <3>3. Reverse(selected) \in [1..len -> S]
      BY <3>1, <3>2
    <3>4. /\ Reverse(selected) \in Seq(S) /\ Len(Reverse(selected)) = len
          /\ DOMAIN Reverse(selected) = 1..len
      BY <1>5, <3>3
    <3>5. ASSUME NEW i \in 1..len, NEW j \in 1..len,
                 selected[len - i + 1] = selected[len - j + 1]
          PROVE  i = j
      <4>1. len - i + 1 \in 1..len /\ len - j + 1 \in 1..len /\ 1..len \subseteq 1..Len(rows)
        BY <1>5, <3>2
      <4>2. rows[len - i + 1] = rows[len - j + 1]
        BY <1>6, <3>5, <4>1
      <4>3. len - i + 1 = len - j + 1
        BY <1>2, <4>1, <4>2
      <4>4. QED BY <1>5, <4>3
    <3>6. QED BY <2>1, <3>1, <3>4, <3>5
  <2>2. CASE direction # "PREVIOUS"
    <3>1. \A i, j \in 1..len : selected[i] = selected[j] => i = j
      BY <1>2, <1>5, <1>6
    <3>2. QED BY <1>6, <2>2, <3>1
  <2>3. QED BY <2>1, <2>2
<1> HIDE DEF items
<1>8. items \in BoundedSeq(Projects, PageSize)
  BY <1>3, <1>4, <1>5, <1>7 DEF BoundedSeq, SeqOf
<1>9. items # <<>> => /\ Head(items) \in Projects /\ Last(items) \in Projects
                      /\ Last(items) = items[len] /\ len \in 1..len
  BY <1>3, <1>5, <1>7 DEF Last
<1>10. previous \in Cursors \cup {None} /\ next \in Cursors \cup {None}
  BY <1>3, <1>9, CursorTyped
<1>11. ASSUME ~Backward(query)
       PROVE  \/ next = None /\ \A p \in S : \E i \in DOMAIN items : items[i] = p
              \/ \E last \in S :
                   /\ next = Cursor("NEXT", query.search, last)
                   /\ \A p \in S : (\E i \in DOMAIN items : items[i] = p)
                                      <=> ~After(Place(p), Place(last))
  <2>1. direction # "PREVIOUS" /\ (hasNext <=> more) /\ items = selected
    BY <1>7, <1>11 DEF Backward
  <2>2. CASE ~more
    <3>1. len = Len(rows) /\ Len(rows) <= PageSize /\ next = None
      BY <1>4, <1>5, <2>1, <2>2 DEF len
    <3>2. QED BY <1>2, <1>6, <1>7, <2>1, <3>1
  <2>3. CASE more
    <3>1. len = PageSize /\ items # <<>>
      BY <1>4, <1>7, <2>3 DEF len
    <3>2. next = Cursor("NEXT", query.search, rows[len])
      BY <1>6, <1>9, <2>1, <2>3, <3>1
    <3>3. rows[len] \in S /\ len \in 1..Len(rows)
      BY <1>2, <1>4, <1>5, <3>1
    <3>4. ASSUME NEW p \in S
          PROVE  (\E i \in DOMAIN items : items[i] = p) <=> ~After(Place(p), Place(rows[len]))
      <4>1. Precedes(query, rows[len], p) <=> After(Place(p), Place(rows[len]))
        BY <1>11 DEF Precedes
      <4>2. ASSUME NEW i \in 1..len, rows[i] = p
            PROVE  ~Precedes(query, rows[len], p)
        <5>1. i <= len /\ i \in 1..Len(rows) /\ len \in 1..Len(rows) /\ ~(len < i)
          BY <1>5, <3>3, <4>2
        <5>2. QED BY <1>2, <4>2, <5>1
      <4>3. ASSUME ~Precedes(query, rows[len], p)
            PROVE  \E i \in 1..len : rows[i] = p
        <5>1. p = rows[len] \/ Precedes(query, p, rows[len])
          BY <1>3, <3>3, <4>3, PrecedesIsAnOrder
        <5>2. QED BY <1>2, <1>5, <3>3, <5>1
      <4>4. QED BY <1>6, <1>7, <2>1, <4>1, <4>2, <4>3
    <3>5. QED BY <3>2, <3>3, <3>4
  <2>4. QED BY <2>2, <2>3
<1>12. PageOf(query) \in QueuePages
  BY <1>1, <1>3, <1>8, <1>10 DEF QueuePages
<1>13. \A i \in DOMAIN items : items[i] \in S
  BY <1>7
<1>14. QED BY <1>1, <1>7, <1>11, <1>12, <1>13 DEF S

-----------------------------------------------------------------------------
(* The walk: what it has shown is what its next page does not lie beyond,  *)
(* as far as Projects kept their places.  That of the anchor itself may    *)
(* have changed: then the cursor is rejected, and the walk is over.        *)

SearchBoxes == [text : Searches, pending : Searches \cup {Nothing},
                emitted : Searches \cup {Nothing}]
PageRequests == [query : Queries, kind : {"ROUTE", "REFRESH", "RETRY"}]

QueueTypes ==
  /\ PlacesKnown
  /\ url \in Queries
  /\ earlierUrls \in Seq(Queries)
  /\ box \in SearchBoxes
  /\ loads \in Seq(PageRequests) /\ Len(loads) <= MaxLoads
  /\ queuePage \in QueuePages \cup {None}
  /\ failed \in PageRequests \cup {None}
  /\ walk \in [open : BOOLEAN, seen : Seq(Projects), moved : SUBSET Projects]

Shows(seen, p) == \E i \in DOMAIN seen : seen[i] = p
ShowsOnce(seen, p) == \A i, j \in DOMAIN seen : seen[i] = p /\ seen[j] = p => i = j

\* What has been shown before the anchor of the next page.
WalkedTo(answer, walked) ==
  /\ answer.next.direction = "NEXT" /\ answer.next.search = answer.query.search
  /\ answer.next.anchor[3] = Name[answer.next.anchor[4]] =>
       \A p \in Projects \ walked.moved :
         /\ Shows(walked.seen, p) => ~After(Place(p), answer.next.anchor)
         /\ p \in Filtered(answer.query.search) /\ ~After(Place(p), answer.next.anchor)
              => Shows(walked.seen, p)

WalkUpTo(answer, walked) ==
  /\ answer \in QueuePages
  /\ \A p \in Projects \ walked.moved : ShowsOnce(walked.seen, p)
  /\ answer.next = None => \A p \in Filtered(answer.query.search) \ walked.moved :
                           Shows(walked.seen, p)
  /\ answer.next # None => WalkedTo(answer, walked)

QueueIInv == QueueTypes /\ (walk.open => WalkUpTo(queuePage, walk))

\* What two parts show together.
LEMMA ShowsBothParts ==
  ASSUME NEW s \in Seq(Projects), NEW t \in Seq(Projects), NEW p
  PROVE  /\ Shows(s \o t, p) <=> Shows(s, p) \/ Shows(t, p)
         /\ ShowsOnce(s, p) /\ ShowsOnce(t, p) /\ ~(Shows(s, p) /\ Shows(t, p))
              => ShowsOnce(s \o t, p)
<1> DEFINE m == Len(s)
           n == Len(t)
           u == s \o t
<1>1. /\ m \in Nat /\ n \in Nat /\ DOMAIN s = 1..m /\ DOMAIN t = 1..n /\ DOMAIN u = 1..(m + n)
      /\ \A i \in 1..(m + n) : u[i] = IF i <= m THEN s[i] ELSE t[i - m]
  BY ConcatProperties
<1> HIDE DEF m, n, u
<1>2. /\ \A i \in 1..m : i \in 1..(m + n) /\ u[i] = s[i]
      /\ \A i \in 1..n : m + i \in 1..(m + n) /\ u[m + i] = t[i]
  BY <1>1
<1>3. \A i \in 1..(m + n) : i \in 1..m \/ (i - m \in 1..n /\ u[i] = t[i - m])
  BY <1>1
<1>4. Shows(u, p) <=> Shows(s, p) \/ Shows(t, p)
  BY <1>1, <1>2, <1>3 DEF Shows
<1>5. ASSUME ShowsOnce(s, p), ShowsOnce(t, p), ~(Shows(s, p) /\ Shows(t, p)),
             NEW i \in 1..(m + n), NEW j \in 1..(m + n), u[i] = p, u[j] = p
      PROVE  i = j
  <2>1. CASE i \in 1..m /\ j \in 1..m
    BY <1>1, <1>2, <1>5, <2>1 DEF ShowsOnce
  <2>2. CASE i - m \in 1..n /\ u[i] = t[i - m] /\ j - m \in 1..n /\ u[j] = t[j - m]
    <3>1. i - m = j - m
      BY <1>1, <1>5, <2>2 DEF ShowsOnce
    <3>2. QED BY <1>1, <3>1
  <2>3. ~(i \in 1..m /\ j - m \in 1..n /\ u[j] = t[j - m])
    BY <1>1, <1>2, <1>5 DEF Shows
  <2>4. ~(j \in 1..m /\ i - m \in 1..n /\ u[i] = t[i - m])
    BY <1>1, <1>2, <1>5 DEF Shows
  <2>5. QED BY <1>3, <2>1, <2>2, <2>3, <2>4
<1>6. QED BY <1>1, <1>4, <1>5 DEF ShowsOnce, u

\* The first page begins a walk.
LEMMA FirstPageBeginsWalk ==
  ASSUME PlacesKnown, NEW query \in Queries, query.cursor = None
  PROVE  WalkUpTo(PageOf(query),
                  [open |-> TRUE, seen |-> PageOf(query).items, moved |-> {}])
<1> DEFINE answer == PageOf(query)
           S == Beyond(query)
           shown(p) == \E i \in DOMAIN answer.items : answer.items[i] = p
           walked == [open |-> TRUE, seen |-> answer.items, moved |-> {}]
<1>1. /\ answer \in QueuePages /\ answer.query = query
      /\ \A i \in DOMAIN answer.items : answer.items[i] \in S
      /\ \A i, j \in DOMAIN answer.items : answer.items[i] = answer.items[j] => i = j
      /\ ~Backward(query) =>
           \/ answer.next = None /\ \A p \in S : shown(p)
           \/ \E last \in S : /\ answer.next = Cursor("NEXT", query.search, last)
                              /\ \A p \in S : shown(p) <=> ~After(Place(p), Place(last))
  BY PageOfTheRows
<1>2. ~Backward(query) /\ S = Filtered(query.search) /\ S \subseteq Projects
  BY BeyondTyped DEF Backward, Beyond
<1> HIDE DEF answer, S
<1>3. /\ walked.seen = answer.items /\ walked.moved = {}
      /\ \A p : Shows(walked.seen, p) <=> shown(p)
      /\ \A p : ShowsOnce(walked.seen, p)
  BY <1>1 DEF Shows, ShowsOnce
<1> HIDE DEF walked, shown
<1>4. ASSUME answer.next = None, \A p \in S : shown(p)
      PROVE  WalkUpTo(answer, walked)
  BY <1>1, <1>2, <1>3, <1>4 DEF WalkUpTo
<1>5. ASSUME NEW last \in S, answer.next = Cursor("NEXT", query.search, last),
             \A p \in S : shown(p) <=> ~After(Place(p), Place(last))
      PROVE  WalkUpTo(answer, walked)
  <2>1. /\ answer.next # None /\ answer.next.direction = "NEXT"
        /\ answer.next.search = answer.query.search /\ answer.next.anchor = Anchor(last)
    <3>1. query.search \in Searches /\ last \in Projects
      BY <1>2 DEF Queries
    <3>2. answer.next \in Cursors
      BY <1>5, <3>1, CursorTyped
    <3>3. answer.next # None
      BY <3>2, QueueAssumption DEF QueueAssumption
    <3>4. QED BY <1>1, <1>5, <3>3 DEF Cursor
  <2>2. ASSUME answer.next.anchor[3] = Name[answer.next.anchor[4]]
        PROVE  answer.next.anchor = Place(last)
    BY <1>2, <2>1, <2>2, PlaceOfItsProject
  <2>3. \A p : shown(p) => p \in S
    BY <1>1 DEF shown
  <2>4. WalkedTo(answer, walked)
    BY <1>1, <1>2, <1>3, <1>5, <2>1, <2>2, <2>3 DEF WalkedTo
  <2>5. QED BY <1>1, <1>3, <2>1, <2>4 DEF WalkUpTo
<1>6. WalkUpTo(answer, walked)
  BY <1>1, <1>2, <1>4, <1>5
<1>7. QED BY <1>6 DEF answer, walked

\* A next page whose cursor is not rejected goes on with it.
LEMMA NextPageGoesOn ==
  ASSUME PlacesKnown, NEW answer, NEW walked,
         walked \in [open : BOOLEAN, seen : Seq(Projects), moved : SUBSET Projects],
         WalkUpTo(answer, walked), answer.next # None,
         NEW query \in Queries, query.cursor = answer.next, ~Rejected(query)
  PROVE  WalkUpTo(PageOf(query), [walked EXCEPT !.seen = @ \o PageOf(query).items])
<1> DEFINE following == PageOf(query)
           anchor == query.cursor.anchor
           S == Beyond(query)
           shown(p) == \E i \in DOMAIN following.items : following.items[i] = p
           further == [walked EXCEPT !.seen = @ \o following.items]
<1>1. /\ following \in QueuePages /\ following.query = query
      /\ \A i \in DOMAIN following.items : following.items[i] \in S
      /\ \A i, j \in DOMAIN following.items : following.items[i] = following.items[j] => i = j
      /\ ~Backward(query) =>
           \/ following.next = None /\ \A p \in S : shown(p)
           \/ \E last \in S : /\ following.next = Cursor("NEXT", query.search, last)
                              /\ \A p \in S : shown(p) <=> ~After(Place(p), Place(last))
  BY PageOfTheRows
<1>2. PICK z \in Filtered(query.search) : Place(z) = anchor
  BY DEF Rejected
<1>3. query.cursor.search = query.search
  BY DEF Rejected
<1>4. /\ ~Backward(query) /\ answer.query.search = query.search
      /\ \A p \in Projects \ walked.moved :
           /\ ShowsOnce(walked.seen, p)
           /\ Shows(walked.seen, p) => ~After(Place(p), anchor)
           /\ p \in Filtered(query.search) /\ ~After(Place(p), anchor)
                => Shows(walked.seen, p)
  <2>1. z \in Projects
    BY BeyondTyped
  <2>2. anchor \in QueuePlaces /\ anchor[3] = Name[anchor[4]]
    BY <1>2, <2>1, PlaceOfItsProject
  <2>3. QED BY <1>3, <2>2 DEF WalkUpTo, WalkedTo, Backward
<1>5. /\ S \subseteq Projects
      /\ \A p : p \in S <=> p \in Filtered(query.search) /\ After(Place(p), anchor)
  BY <1>4, BeyondTyped DEF Beyond, Backward
<1>6. anchor \in QueuePlaces /\ Filtered(query.search) \subseteq Projects
  BY BeyondTyped
<1>7. following.items \in Seq(Projects) /\ walked.seen \in Seq(Projects)
  BY <1>1 DEF QueuePages, BoundedSeq, SeqOf
<1> HIDE DEF following, S
<1>8. /\ further.moved = walked.moved
      /\ further.seen = walked.seen \o following.items
      /\ \A p : Shows(further.seen, p) <=> Shows(walked.seen, p) \/ shown(p)
  <2>1. further.moved = walked.moved /\ further.seen = walked.seen \o following.items
    OBVIOUS
  <2>2. \A p : Shows(following.items, p) <=> shown(p)
    BY DEF Shows
  <2>3. \A p : Shows(further.seen, p) <=> Shows(walked.seen, p) \/ Shows(following.items, p)
    BY <1>7, <2>1, ShowsBothParts
  <2>4. QED BY <2>1, <2>2, <2>3
<1>9. ASSUME NEW p \in Projects \ walked.moved
      PROVE  ShowsOnce(further.seen, p)
  <2>1. ~(Shows(walked.seen, p) /\ Shows(following.items, p))
    BY <1>1, <1>4, <1>5 DEF Shows
  <2>2. ShowsOnce(walked.seen, p) /\ ShowsOnce(following.items, p)
    BY <1>1, <1>4 DEF ShowsOnce
  <2>3. QED BY <1>7, <1>8, <2>1, <2>2, ShowsBothParts
<1> HIDE DEF further, shown
<1>10. ASSUME following.next = None, \A p \in S : shown(p)
       PROVE  WalkUpTo(following, further)
  <2>1. ASSUME NEW p \in Filtered(query.search) \ walked.moved
        PROVE  Shows(further.seen, p)
    BY <1>4, <1>5, <1>6, <1>8, <1>10
  <2>2. QED BY <1>1, <1>8, <1>9, <1>10, <2>1 DEF WalkUpTo
<1>11. ASSUME NEW last \in S, following.next = Cursor("NEXT", query.search, last),
              \A p \in S : shown(p) <=> ~After(Place(p), Place(last))
       PROVE  WalkUpTo(following, further)
  <2>1. /\ following.next # None /\ following.next.direction = "NEXT"
        /\ following.next.search = following.query.search
        /\ following.next.anchor = Anchor(last)
    <3>1. query.search \in Searches /\ last \in Projects
      BY <1>5 DEF Queries
    <3>2. following.next \in Cursors
      BY <1>11, <3>1, CursorTyped
    <3>3. following.next # None
      BY <3>2, QueueAssumption DEF QueueAssumption
    <3>4. QED BY <1>1, <1>11, <3>3 DEF Cursor
  <2>2. ASSUME following.next.anchor[3] = Name[following.next.anchor[4]]
        PROVE  following.next.anchor = Place(last)
    BY <1>5, <2>1, <2>2, PlaceOfItsProject
  <2>3. \A p : shown(p) => p \in S
    BY <1>1 DEF shown
  <2>4. ASSUME NEW p \in Projects
        PROVE  After(Place(p), Place(last)) => After(Place(p), anchor)
    BY <1>5, <1>6, PlaceOfItsProject, AfterIsAnOrder
  <2>5. ASSUME NEW p \in Projects \ walked.moved
        PROVE  /\ Shows(further.seen, p) => ~After(Place(p), Place(last))
               /\ p \in Filtered(query.search) /\ ~After(Place(p), Place(last))
                    => Shows(further.seen, p)
    BY <1>4, <1>5, <1>8, <1>11, <2>3, <2>4
  <2>6. WalkedTo(following, further)
    BY <1>1, <1>8, <2>1, <2>2, <2>5 DEF WalkedTo
  <2>7. QED BY <1>1, <1>8, <1>9, <2>1, <2>6 DEF WalkUpTo
<1>12. WalkUpTo(following, further)
  BY <1>1, <1>4, <1>10, <1>11
<1>13. QED BY <1>12 DEF following, further

\* Every variable has its type at first, and with every load.
LEMMA QueueTypesAtFirst == QueueInit => QueueIInv
<1> SUFFICES ASSUME QueueInit PROVE QueueIInv
  OBVIOUS
<1>1. PlacesKnown
  BY QueueAssumption DEF QueueInit, PlacesKnown, QueueRowsType, QueueAssumption
<1>2. FirstPage(None) \in Queries
  BY QueueAssumption DEF FirstPage, Queries, QueueAssumption
<1>3. url \in Queries /\ earlierUrls \in Seq(Queries)
  BY <1>2 DEF QueueInit
<1>4. loads \in Seq(PageRequests) /\ Len(loads) <= MaxLoads
  <2>1. PageRequest(FirstPage(None), "ROUTE") \in PageRequests
    BY <1>2 DEF PageRequest, PageRequests
  <2>2. MaxLoads \in Nat /\ MaxLoads >= 1
    BY QueueAssumption DEF QueueAssumption
  <2>3. QED BY <2>1, <2>2 DEF QueueInit
<1>5. box \in SearchBoxes
  BY QueueAssumption DEF QueueInit, SearchBoxes, QueueAssumption
<1>6. /\ walk \in [open : BOOLEAN, seen : Seq(Projects), moved : SUBSET Projects] /\ ~walk.open
  BY DEF QueueInit, NoWalk
<1>7. QED BY <1>1, <1>3, <1>4, <1>5, <1>6 DEF QueueIInv, QueueTypes, QueueInit

LEMMA LoadTyped ==
  ASSUME QueueTypes, NEW query \in Queries, NEW kind \in {"ROUTE", "REFRESH", "RETRY"},
         Load(query, kind)
  PROVE  /\ loads' \in Seq(PageRequests) /\ Len(loads') <= MaxLoads
         /\ failed' \in PageRequests \cup {None}
<1>1. PageRequest(query, kind) \in PageRequests
  BY DEF PageRequest, PageRequests
<1>2. loads \in Seq(PageRequests) /\ Len(loads) < MaxLoads /\ MaxLoads \in Nat
      /\ loads' = Append(loads, PageRequest(query, kind))
  BY QueueAssumption DEF Load, QueueTypes, QueueAssumption
<1>3. loads' \in Seq(PageRequests) /\ Len(loads') <= MaxLoads
  BY <1>1, <1>2
<1>4. failed' \in PageRequests \cup {None}
  BY DEF Load, QueueTypes
<1>5. QED BY <1>3, <1>4

LEMMA NavigateTyped ==
  ASSUME QueueTypes, NEW query \in Queries, NEW text \in Searches, NEW pushed \in BOOLEAN,
         Navigate(query, text, pushed)
  PROVE  /\ url' \in Queries /\ earlierUrls' \in Seq(Queries) /\ box' \in SearchBoxes
         /\ loads' \in Seq(PageRequests) /\ Len(loads') <= MaxLoads
         /\ failed' \in PageRequests \cup {None}
         /\ UNCHANGED <<queueRows, now, queuePage>>
<1>1. url' \in Queries /\ UNCHANGED <<queueRows, now, queuePage>>
  BY DEF Navigate
<1>2. earlierUrls' \in Seq(Queries)
  BY DEF Navigate, QueueTypes
<1>3. box' \in SearchBoxes
  <2>1. query.search \in Searches /\ box \in SearchBoxes
    BY DEF Queries, QueueTypes, SearchBoxes
  <2>2. box' = [box EXCEPT !.text = text] \/ box' = [box EXCEPT !.text = query.search]
    BY DEF Navigate
  <2>3. QED BY <2>1, <2>2 DEF SearchBoxes
<1>4. /\ loads' \in Seq(PageRequests) /\ Len(loads') <= MaxLoads
      /\ failed' \in PageRequests \cup {None}
  <2>1. CASE query = url
    BY <2>1 DEF Navigate, QueueTypes
  <2>2. CASE query # url
    BY <2>2, LoadTyped DEF Navigate
  <2>3. QED BY <2>1, <2>2
<1>5. QED BY <1>1, <1>2, <1>3, <1>4

\* Whatever the Owner does, what is shown stays until it is answered.
LEMMA OwnerTyped ==
  ASSUME QueueTypes, Owner
  PROVE  QueueTypes' /\ UNCHANGED <<queueRows, now, queuePage, walk>>
<1> DEFINE Typed == /\ url' \in Queries /\ earlierUrls' \in Seq(Queries) /\ box' \in SearchBoxes
                    /\ loads' \in Seq(PageRequests) /\ Len(loads') <= MaxLoads
                    /\ failed' \in PageRequests \cup {None}
                    /\ UNCHANGED <<queueRows, now, queuePage, walk>>
<1>1. /\ url \in Queries /\ url.search \in Searches /\ box \in SearchBoxes
      /\ box.text \in Searches /\ earlierUrls \in Seq(Queries)
      /\ loads \in Seq(PageRequests) /\ Len(loads) <= MaxLoads
      /\ failed \in PageRequests \cup {None}
  BY DEF QueueTypes, SearchBoxes, Queries
<1>2. \A search \in Searches : FirstPage(search) \in Queries
  BY DEF FirstPage, Queries
<1> SUFFICES Typed
  BY DEF QueueTypes, PlacesKnown
<1>3. CASE NavigateToCursor
  <2>1. PICK cursor \in {queuePage.next, queuePage.previous} \ {None} :
          Navigate([url EXCEPT !.cursor = cursor], box.text, TRUE)
    BY <1>3 DEF NavigateToCursor
  <2>2. cursor \in Cursors
    BY <1>3 DEF NavigateToCursor, QueueTypes, QueuePages
  <2>3. [url EXCEPT !.cursor = cursor] \in Queries
    BY <1>1, <2>2 DEF Queries
  <2>4. QED
    BY <1>1, <1>3, <2>1, <2>3, NavigateTyped DEF NavigateToCursor
<1>4. CASE Refresh
  <2>1. CASE Navigate(FirstPage(url.search), box.text, FALSE) /\ UNCHANGED walk
    BY <1>1, <1>2, <2>1, NavigateTyped
  <2>2. CASE Load(url, "REFRESH") /\ UNCHANGED <<queueRows, now, url, earlierUrls, box, queuePage, walk>>
    BY <1>1, <2>2, LoadTyped
  <2>3. QED
    BY <1>4, <2>1, <2>2 DEF Refresh
<1>5. CASE Retry
  <2>1. failed.query \in Queries
    BY <1>1, <1>5 DEF Retry, PageRequests
  <2>2. QED
    BY <1>1, <1>5, <2>1, LoadTyped DEF Retry
<1>6. CASE Type
  <2>1. box' \in SearchBoxes
    BY <1>1, <1>6 DEF Type, SearchBoxes
  <2>2. QED BY <1>1, <1>6, <2>1 DEF Type
<1>7. CASE EndDebounce
  <2>1. [box EXCEPT !.pending = Nothing, !.emitted = box.pending] \in SearchBoxes
    BY <1>1 DEF SearchBoxes
  <2>2. CASE box' = [box EXCEPT !.pending = Nothing, !.emitted = box.pending]
             /\ UNCHANGED <<queueRows, now, url, earlierUrls, loads, queuePage, failed, walk>>
    BY <1>1, <2>1, <2>2
  <2>3. CASE /\ url' = FirstPage(box.text) /\ Load(url', "ROUTE")
             /\ box' = [box EXCEPT !.pending = Nothing, !.emitted = box.pending]
             /\ UNCHANGED <<queueRows, now, earlierUrls, queuePage, walk>>
    <3>1. url' \in Queries /\ Load(FirstPage(box.text), "ROUTE")
      BY <1>1, <1>2, <2>3
    <3>2. QED BY <1>1, <1>2, <2>1, <2>3, <3>1, LoadTyped
  <2>4. QED
    BY <1>7, <2>2, <2>3 DEF EndDebounce
<1>8. CASE ClearFilters
  <2>1. None \in Searches
    BY QueueAssumption DEF QueueAssumption
  <2>2. QED
    BY <1>2, <1>8, <2>1, NavigateTyped DEF ClearFilters
<1>9. CASE Back
  <2>1. Front(earlierUrls) \in Seq(Queries) /\ Last(earlierUrls) \in Queries
    <3>1. /\ earlierUrls # <<>> /\ Len(earlierUrls) \in Nat /\ Len(earlierUrls) >= 1
          /\ Front(earlierUrls) = SubSeq(earlierUrls, 1, Len(earlierUrls) - 1)
          /\ Last(earlierUrls) = earlierUrls[Len(earlierUrls)]
      BY <1>1, <1>9 DEF Back, Front, Last
    <3>2. QED BY <1>1, <3>1
  <2>2. Last(earlierUrls).search \in Searches
    BY <2>1 DEF Queries
  <2>3. box' \in SearchBoxes
    BY <1>1, <1>9, <2>2 DEF Back, SearchBoxes
  <2>4. CASE UNCHANGED <<loads, failed>>
    BY <1>1, <1>9, <2>1, <2>3, <2>4 DEF Back
  <2>5. CASE Load(url', "ROUTE")
    <3>1. Load(Last(earlierUrls), "ROUTE")
      BY <1>9, <2>5 DEF Back
    <3>2. QED BY <1>1, <1>9, <2>1, <2>3, <3>1, LoadTyped DEF Back
  <2>6. QED
    BY <1>9, <2>4, <2>5 DEF Back
<1>10. QED BY <1>3, <1>4, <1>5, <1>6, <1>7, <1>8, <1>9 DEF Owner

\* Only the latest request is answered: a page goes on with the walk, begins one
\* or ends it; a rejected cursor asks for the first page.
LEMMA AnswerKeeps ==
  ASSUME QueueIInv, Answer
  PROVE  QueueIInv'
<1>1. PICK l \in Unanswered : AnswerPage(l) \/ AnswerRejection(l) \/ AnswerFailure(l)
  BY DEF Answer
<1> DEFINE query == loads[l].query
           following == PageOf(query)
<1>2. /\ loads[l] \in PageRequests /\ query \in Queries /\ query.search \in Searches
      /\ MaxLoads \in Nat /\ MaxLoads >= 1
  <2>1. l \in DOMAIN loads /\ loads \in Seq(PageRequests)
    BY DEF Unanswered, QueueIInv, QueueTypes
  <2>2. loads[l] \in PageRequests
    BY <2>1
  <2>3. query \in Queries /\ query.search \in Searches
    BY <2>2 DEF PageRequests, Queries
  <2>4. QED BY <2>2, <2>3, QueueAssumption DEF QueueAssumption
<1>3. QueueTypes /\ PlacesKnown
  BY DEF QueueIInv, QueueTypes
<1> HIDE DEF query
<1>4. CASE AnswerPage(l)
  <2>1. /\ ~Rejected(query) /\ queuePage' = following /\ walk' = Walked(query, following)
        /\ loads' = <<>> /\ failed' = None
        /\ UNCHANGED <<queueRows, now, url, earlierUrls, box>>
    BY <1>4 DEF AnswerPage, query
  <2>2. following \in QueuePages
    BY <1>2, <1>3, PageOfTheRows
  <2>3. following.items \in Seq(Projects)
    BY <2>2 DEF QueuePages, BoundedSeq, SeqOf
  <2> HIDE DEF following
  <2>4. walk' \in [open : BOOLEAN, seen : Seq(Projects), moved : SUBSET Projects]
    <3>1. walk \in [open : BOOLEAN, seen : Seq(Projects), moved : SUBSET Projects]
      BY <1>3 DEF QueueTypes
    <3>2. walk.seen \o following.items \in Seq(Projects)
      BY <2>3, <3>1
    <3>3. [walk EXCEPT !.seen = @ \o following.items]
            \in [open : BOOLEAN, seen : Seq(Projects), moved : SUBSET Projects]
      BY <3>1, <3>2
    <3>4. NoWalk \in [open : BOOLEAN, seen : Seq(Projects), moved : SUBSET Projects]
      BY DEF NoWalk
    <3>5. [open |-> TRUE, seen |-> following.items, moved |-> {}]
            \in [open : BOOLEAN, seen : Seq(Projects), moved : SUBSET Projects]
      BY <2>3
    <3>6. QED BY <2>1, <3>3, <3>4, <3>5 DEF Walked
  <2>5. QueueTypes'
    BY <1>2, <1>3, <2>1, <2>2, <2>4 DEF QueueTypes, PlacesKnown
  <2>6. ASSUME walk'.open
        PROVE  WalkUpTo(following, walk')
    <3>1. CASE query.cursor = None
      BY <1>2, <1>3, <2>1, <3>1, FirstPageBeginsWalk DEF Walked, following
    <3>2. CASE query.cursor # None
      <4>1. /\ walk.open /\ NextCursor /\ query.cursor = queuePage.next
            /\ walk' = [walk EXCEPT !.seen = @ \o following.items]
        BY <2>1, <2>6, <3>2 DEF Walked, NoWalk
      <4>2. /\ WalkUpTo(queuePage, walk) /\ queuePage.next # None
            /\ walk \in [open : BOOLEAN, seen : Seq(Projects), moved : SUBSET Projects]
        BY <1>3, <3>2, <4>1 DEF QueueIInv, QueueTypes
      <4>3. WalkUpTo(PageOf(query), [walk EXCEPT !.seen = @ \o PageOf(query).items])
        BY <1>2, <1>3, <2>1, <4>1, <4>2, NextPageGoesOn
      <4>4. QED BY <4>1, <4>3 DEF following
    <3>3. QED BY <3>1, <3>2
  <2>7. walk'.open => WalkUpTo(queuePage, walk)'
    BY <2>1, <2>6
       DEF WalkUpTo, WalkedTo, Filtered, Place, Urgency, OrderedDue
  <2>8. QED BY <2>5, <2>7 DEF QueueIInv
<1>5. CASE ~AnswerPage(l)
  <2>1. UNCHANGED <<queueRows, now, queuePage, walk>>
    BY <1>1, <1>5 DEF AnswerRejection, AnswerFailure
  <2>2. QueueTypes'
    <3>1. CASE AnswerRejection(l)
      <4>1. FirstPage(query.search) \in Queries
        BY <1>2 DEF FirstPage, Queries
      <4>2. PageRequest(FirstPage(query.search), "ROUTE") \in PageRequests
        BY <4>1 DEF PageRequest, PageRequests
      <4>3. loads' = <<PageRequest(FirstPage(query.search), "ROUTE")>>
        BY <3>1 DEF AnswerRejection, query
      <4>4. loads' \in Seq(PageRequests) /\ Len(loads') <= MaxLoads
        BY <1>2, <4>2, <4>3
      <4>5. box' \in SearchBoxes
        BY <1>2, <1>3, <3>1 DEF AnswerRejection, QueueTypes, SearchBoxes, query
      <4>6. url' \in Queries /\ failed' = None /\ UNCHANGED earlierUrls
        BY <3>1, <4>1 DEF AnswerRejection, query
      <4>7. QED BY <1>3, <2>1, <4>4, <4>5, <4>6 DEF QueueTypes, PlacesKnown
    <3>2. CASE AnswerFailure(l)
      BY <1>2, <1>3, <3>2 DEF AnswerFailure, QueueTypes, PlacesKnown
    <3>3. QED BY <1>1, <1>5, <3>1, <3>2
  <2>3. walk'.open => WalkUpTo(queuePage, walk)'
    BY <2>1 DEF QueueIInv, WalkUpTo, WalkedTo, Filtered, Place, Urgency, OrderedDue
  <2>4. QED BY <2>2, <2>3 DEF QueueIInv
<1>6. QED BY <1>4, <1>5

\* Projects that keep their places keep them in the walk.
LEMMA ProjectsMoveKeeps ==
  ASSUME QueueIInv, ProjectsMove
  PROVE  QueueIInv'
<1>1. /\ QueueTypes /\ UNCHANGED <<url, earlierUrls, box, loads, queuePage, failed>>
      /\ walk' = IF walk.open THEN [walk EXCEPT !.moved = @ \cup Moved] ELSE walk
      /\ walk \in [open : BOOLEAN, seen : Seq(Projects), moved : SUBSET Projects]
  BY DEF QueueIInv, QueueTypes, ProjectsMove
<1>2. PlacesKnown'
  <2>1. queueRows \in QueueRowsType /\ now \in 1..MaxNow /\ MaxNow \in Nat
    BY <1>1, QueueAssumption DEF QueueTypes, PlacesKnown, QueueAssumption
  <2>2. CASE QueueCommand
    <3>1. now' = now
      BY <2>2 DEF QueueCommand
    <3>2. PICK p \in Projects :
            \/ queueRows' = [queueRows EXCEPT ![p].active = ~@]
            \/ queueRows' = [queueRows EXCEPT ![p].replies = ~@]
            \/ \E due \in (Dues \cup {None}) \ {queueRows[p].due} :
                 queueRows[p].active /\ queueRows' = [queueRows EXCEPT ![p].due = due]
      BY <2>2 DEF QueueCommand
    <3>3. queueRows' \in QueueRowsType
      <4>1. queueRows[p] \in [active : BOOLEAN, replies : BOOLEAN, due : Dues \cup {None}]
        BY <2>1 DEF QueueRowsType
      <4>2. CASE queueRows' = [queueRows EXCEPT ![p].active = ~@]
        BY <2>1, <4>1, <4>2 DEF QueueRowsType
      <4>3. CASE queueRows' = [queueRows EXCEPT ![p].replies = ~@]
        BY <2>1, <4>1, <4>3 DEF QueueRowsType
      <4>4. ASSUME NEW due \in Dues \cup {None}, queueRows' = [queueRows EXCEPT ![p].due = due]
            PROVE  queueRows' \in QueueRowsType
        BY <2>1, <4>1, <4>4 DEF QueueRowsType
      <4>5. QED BY <3>2, <4>2, <4>3, <4>4
    <3>4. QED BY <2>1, <3>1, <3>3 DEF PlacesKnown
  <2>3. CASE TimePasses
    BY <2>1, <2>3 DEF TimePasses, PlacesKnown
  <2>4. QED BY <2>2, <2>3 DEF ProjectsMove
<1>3. walk' \in [open : BOOLEAN, seen : Seq(Projects), moved : SUBSET Projects]
  <2>1. Moved \subseteq Projects
    BY DEF Moved
  <2>2. QED BY <1>1, <2>1
<1>4. QueueTypes'
  BY <1>1, <1>2, <1>3 DEF QueueTypes
<1>5. ASSUME walk'.open
      PROVE  WalkUpTo(queuePage, walk)'
  <2>1. walk.open /\ walk'.seen = walk.seen /\ walk'.moved = walk.moved \cup Moved
    BY <1>1, <1>5
  <2>2. WalkUpTo(queuePage, walk) /\ queuePage' = queuePage
    BY <1>1, <2>1 DEF QueueIInv
  <2>3. ASSUME NEW p \in Projects \ walk'.moved
        PROVE  /\ p \in Projects \ walk.moved /\ Place(p)' = Place(p)
               /\ queueRows'[p].active = queueRows[p].active
    BY <2>1, <2>3 DEF Moved
  <2>4. /\ Filtered(queuePage.query.search)' \subseteq Projects
        /\ \A p \in Projects \ walk'.moved :
             p \in Filtered(queuePage.query.search)' <=> p \in Filtered(queuePage.query.search)
    <3>1. Found[queuePage.query.search] \subseteq Projects
      BY <2>2, QueueAssumption DEF WalkUpTo, QueuePages, Queries, QueueAssumption
    <3>2. QED BY <2>2, <2>3, <3>1 DEF Filtered
  <2>5. ASSUME queuePage.next # None
        PROVE  WalkedTo(queuePage, walk)'
    <3>1. WalkedTo(queuePage, walk)
      BY <2>2, <2>5 DEF WalkUpTo
    <3>2. QED BY <2>1, <2>2, <2>3, <2>4, <3>1 DEF WalkedTo
  <2>6. \A p \in Projects \ walk'.moved : ShowsOnce(walk'.seen, p)
    BY <2>1, <2>2, <2>3 DEF WalkUpTo
  <2>7. queuePage.next = None
          => \A p \in Filtered(queuePage.query.search)' \ walk'.moved : Shows(walk'.seen, p)
    BY <2>1, <2>2, <2>3, <2>4 DEF WalkUpTo
  <2>8. QED BY <2>2, <2>5, <2>6, <2>7 DEF WalkUpTo
<1>6. QED BY <1>4, <1>5 DEF QueueIInv

LEMMA QueueInvariant == QueueSpec => []QueueIInv
<1>1. QueueInit => QueueIInv
  BY QueueTypesAtFirst
<1>2. QueueIInv /\ [QueueNext]_queueVars => QueueIInv'
  <2> SUFFICES ASSUME QueueIInv, [QueueNext]_queueVars PROVE QueueIInv'
    OBVIOUS
  <2>1. CASE Answer
    BY <2>1, AnswerKeeps
  <2>2. CASE Owner
    <3>1. QueueTypes' /\ UNCHANGED <<queueRows, now, queuePage, walk>>
      BY <2>2, OwnerTyped DEF QueueIInv
    <3>2. QED BY <3>1
      DEF QueueIInv, WalkUpTo, WalkedTo, Filtered, Place, Urgency, OrderedDue
  <2>3. CASE ProjectsMove
    BY <2>3, ProjectsMoveKeeps
  <2>4. CASE UNCHANGED queueVars
    BY <2>4 DEF queueVars, QueueIInv, QueueTypes, PlacesKnown, WalkUpTo, WalkedTo,
      Filtered, Place, Urgency, OrderedDue
  <2>5. QED BY <2>1, <2>2, <2>3, <2>4 DEF QueueNext
<1>3. QED BY <1>1, <1>2, PTL DEF QueueSpec

\* Every variable of the queue and of its page has its type, for any number of
\* Projects, requests and commands.
THEOREM QueueIsTyped == QueueSpec => []QueueTypeOK
<1>1. QueueIInv => QueueTypeOK
  <2> SUFFICES ASSUME QueueIInv PROVE QueueTypeOK
    OBVIOUS
  <2>1. QueueTypes /\ PlacesKnown
    BY DEF QueueIInv, QueueTypes
  <2>2. \A query \in {url} \cup ToSet(earlierUrls) \cup {load.query : load \in ToSet(loads)} :
          query.search \in Searches
    <3>1. \A q \in Queries : q.search \in Searches
      BY DEF Queries
    <3>2. ToSet(earlierUrls) \subseteq Queries
      BY <2>1 DEF QueueTypes, ToSet
    <3>3. \A load \in ToSet(loads) : load.query \in Queries
      <4>1. ToSet(loads) \subseteq PageRequests
        BY <2>1 DEF QueueTypes, ToSet
      <4>2. QED BY <4>1 DEF PageRequests
    <3>4. QED BY <2>1, <3>1, <3>2, <3>3 DEF QueueTypes
  <2>3. box.text \in Searches /\ {box.pending, box.emitted} \subseteq Searches \cup {Nothing}
    BY <2>1 DEF QueueTypes, SearchBoxes
  <2>4. queuePage # None => /\ queuePage.items \in BoundedSeq(Projects, PageSize)
                            /\ {queuePage.previous, queuePage.next} \subseteq Cursors \cup {None}
    BY <2>1 DEF QueueTypes, QueuePages
  <2>5. QED BY <2>1, <2>2, <2>3, <2>4
    DEF QueueTypes, QueueTypeOK, PlacesKnown, QueueRowsType
<1>2. QED BY <1>1, QueueInvariant, PTL

\* Whoever walks from the first page to the last by Next page is shown every
\* matching Project that kept its place, and neither entered nor left the queue,
\* exactly once, and none of them twice on the way, whatever other Projects did
\* meanwhile: for any number of Projects, any size of a page, and also when the API
\* drops marks from a name that the database keeps.
THEOREM WalksSeeEachOnce == QueueSpec => []WalkSeesEachOnce
<1>1. QueueIInv => WalkSeesEachOnce
  <2> SUFFICES ASSUME QueueIInv, walk.open, NEW p \in Projects \ walk.moved
               PROVE  /\ Times(p) <= 1
                      /\ queuePage.next = None /\ p \in Filtered(queuePage.query.search)
                           => Times(p) = 1
    BY DEF WalkSeesEachOnce
  <2> DEFINE times == {i \in DOMAIN walk.seen : walk.seen[i] = p}
  <2>1. ShowsOnce(walk.seen, p) /\ Times(p) = Cardinality(times)
    BY DEF QueueIInv, WalkUpTo, Times
  <2>2. CASE times = {}
    <3>1. ~Shows(walk.seen, p) /\ Times(p) = 0
      BY <2>1, <2>2, FS_EmptySet DEF Shows
    <3>2. QED BY <3>1 DEF QueueIInv, WalkUpTo
  <2>3. CASE times # {}
    <3>1. PICK i \in DOMAIN walk.seen : walk.seen[i] = p
      BY <2>3
    <3>2. times = {i}
      BY <2>1, <3>1 DEF ShowsOnce
    <3>3. QED BY <2>1, <3>2, FS_Singleton
  <2>4. QED BY <2>2, <2>3
<1>2. QED BY <1>1, QueueInvariant, PTL
=============================================================================
