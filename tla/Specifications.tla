---------------------------- MODULE Specifications ----------------------------
(***************************************************************************)
(* Versions of the Project Specification (markdown.service.ts), the        *)
(* templates they are rendered with (markdown-template.service.ts), and    *)
(* the page that lists them (markdown.page.ts).                            *)
(*                                                                         *)
(* A version keeps the snapshot of its sources and a summary of what       *)
(* changed since the version before.  A snapshot is a JSON value; of its   *)
(* rendering only the blocks a template requires are modelled.             *)
(***************************************************************************)
EXTENDS Naturals, Sequences, FiniteSets, Null, ProjectRow

CONSTANTS
  JsonValues,              \* JSON values, with all the values they consist of
  Text,                    \* String() of numbers, and of strings unless they are empty
  Snapshots,               \* values that a section of the snapshot takes
  Blocks,                  \* placeholders that a project may not have a value for
  SpecificationTemplates,  \* specification templates
  Default,                 \* the template with isDefault
  MaxTemplateVersions,     \* bound: versions of a template
  MaxRevisions             \* bound: versions of the specification

VARIABLES
  sources,            \* what buildSourceSnapshot reads
  templates,          \* draft and published versions of each template
  chosen,             \* markdownTemplateId of the project
  revisions,          \* markdown_revisions
  specPage   \* the specification page

specificationVars ==
  <<archived, sources, templates, chosen, revisions, specPage>>

-----------------------------------------------------------------------------
(* JSON values, with one shape so that they can be compared.               *)

Json == [kind |-> "null", atom |-> None, fields |-> <<>>, items |-> <<>>]
Missing == [Json EXCEPT !.kind = "missing"]
NullValue == Json
Atom(value) == [Json EXCEPT !.kind = "atom", !.atom = value]
Object(fields) == [Json EXCEPT !.kind = "object", !.fields = fields]
Array(items) == [Json EXCEPT !.kind = "array", !.items = items]

Parts(value) ==
  {value.fields[key] : key \in DOMAIN value.fields}
    \cup {value.items[i] : i \in DOMAIN value.items}

\* Values are finite, so that no value is a part of a part of itself, and what
\* they consist of is there.
ASSUME SpecificationsAssumption ==
  /\ \A value \in JsonValues :
       /\ value \in {Missing, NullValue, Atom(value.atom), Object(value.fields),
                    Array(value.items)}
       /\ value.fields \in [DOMAIN value.fields -> JsonValues \ {Missing}]
       /\ value.items \in Seq(JsonValues \ {Missing})
  /\ \A some \in SUBSET JsonValues :
       some # {} => \E value \in some : Parts(value) \cap some = {}
  /\ Snapshots \subseteq JsonValues
  /\ Default \in SpecificationTemplates /\ None \notin SpecificationTemplates
  /\ MaxTemplateVersions \in Nat /\ MaxRevisions \in Nat

-----------------------------------------------------------------------------
(* Comparison of two values.                                               *)

\* A change has the path to its place from the values that are compared.
Key(name) == [name |-> name, index |-> 0]
Index(i) == [name |-> "", index |-> i]
Change(kind, path) == {[kind |-> kind, path |-> path]}
Below(step, changes) ==
  {[kind |-> change.kind, path |-> <<step>> \o change.path] : change \in changes}

\* getArrayIdentity, hasUniqueArrayIdentity.
Identified(value, key) ==
  /\ value.kind = "object" /\ key \in DOMAIN value.fields
  /\ value.fields[key].kind = "atom" /\ value.fields[key].atom \in DOMAIN Text
Identity(value, key) == Text[value.fields[key].atom]

UniquelyIdentified(items, key) ==
  /\ items # <<>>
  /\ \A i \in DOMAIN items : Identified(items[i], key)
  /\ \A i, j \in DOMAIN items :
       Identity(items[i], key) = Identity(items[j], key) => i = j

\* identifyArrayKey.
ArrayKeys(previous, current) ==
  {key \in {"stableKey", "id"} :
     UniquelyIdentified(previous, key) /\ UniquelyIdentified(current, key)}
ArrayKey(previous, current) ==
  IF "stableKey" \in ArrayKeys(previous, current) THEN "stableKey" ELSE "id"

\* Variant: a change of the order alone is not one.
OrderIsIgnored(previous, current, key) == FALSE

\* Arrays of one length that name their elements in another order.
OrderChanged(previous, current, key) ==
  /\ Len(previous) = Len(current)
  /\ \E i \in DOMAIN previous :
       Identity(previous[i], key) # Identity(current[i], key)

\* collectRecordChanges; compared has the changes of the parts.
RecordChanges(compared, previous, current) ==
  UNION {
    IF key \notin DOMAIN previous THEN Change("added", <<Key(key)>>)
    ELSE IF key \notin DOMAIN current THEN Change("removed", <<Key(key)>>)
    ELSE Below(Key(key), compared[<<previous[key], current[key]>>])
    : key \in DOMAIN previous \cup DOMAIN current}

\* collectIndexedArrayChanges.
IndexedChanges(compared, previous, current) ==
  UNION {
    IF i > Len(previous) THEN Change("added", <<Index(i)>>)
    ELSE IF i > Len(current) THEN Change("removed", <<Index(i)>>)
    ELSE Below(Index(i), compared[<<previous[i], current[i]>>])
    : i \in DOMAIN previous \cup DOMAIN current}

\* collectArrayChanges with an identity: elements are compared with the ones
\* of the same name, wherever they are.
IdentifiedChanges(compared, previous, current, key) ==
  LET Same(i, j) == Identity(previous[i], key) = Identity(current[j], key)
      Moved == IF OrderChanged(previous, current, key) THEN Change("changed", <<>>) ELSE {}
      Kept(i) == UNION {Below(Index(j), compared[<<previous[i], current[j]>>])
                        : j \in {k \in DOMAIN current : Same(i, k)}}
      Lost == UNION {Change("removed", <<Index(i)>>)
                     : i \in {k \in DOMAIN previous : \A j \in DOMAIN current : ~Same(k, j)}}
      New == UNION {Change("added", <<Index(j)>>)
                    : j \in {k \in DOMAIN current : \A i \in DOMAIN previous : ~Same(i, k)}}
  IN Moved \cup (UNION {Kept(i) : i \in DOMAIN previous}) \cup Lost \cup New

ArrayChanges(compared, previous, current) ==
  IF ArrayKeys(previous, current) = {}
  THEN IndexedChanges(compared, previous, current)
  ELSE IdentifiedChanges(compared, previous, current, ArrayKey(previous, current))

\* collectChanges, of two values whose parts are compared.
Comparison(compared, previous, current) ==
  CASE \/ previous = Missing
       \/ previous = NullValue /\ current \notin {Missing, NullValue} ->
         Change("added", <<>>)
    [] \/ previous # Missing /\ current = Missing
       \/ previous \notin {Missing, NullValue} /\ current = NullValue ->
         Change("removed", <<>>)
    [] previous.kind = "array" /\ current.kind = "array" ->
         ArrayChanges(compared, previous.items, current.items)
    [] previous.kind = "object" /\ current.kind = "object" ->
         RecordChanges(compared, previous.fields, current.fields)
    [] OTHER -> IF previous = current THEN {} ELSE Change("changed", <<>>)

Changes[pair \in JsonValues \X JsonValues] == Comparison(Changes, pair[1], pair[2])

-----------------------------------------------------------------------------
(* Templates.                                                              *)

\* A template's content is the set of blocks it requires: validateTemplateContent
\* leaves no other way for rendering to fail.
Contents == SUBSET Blocks

\* updateDraft, create.
SaveTemplateDraft(t, content) ==
  /\ content # templates[t].draft
  /\ templates' = [templates EXCEPT ![t].draft = content]
  /\ UNCHANGED <<archived, sources, chosen, revisions, specPage>>

\* publish: the draft becomes a version.
PublishTemplateDraft(t) ==
  /\ templates[t].draft # None /\ Len(templates[t].versions) < MaxTemplateVersions
  /\ templates' = [templates EXCEPT ![t].versions = Append(@, templates[t].draft)]
  /\ UNCHANGED <<archived, sources, chosen, revisions, specPage>>

PublishedTemplates == {t \in SpecificationTemplates : templates[t].versions # <<>>}

-----------------------------------------------------------------------------
(* Versions of the specification.                                          *)

LatestRevision == revisions[Len(revisions)]

\* summarizeChanges of one section; describeSectionChanges names the section
\* when it finds no place in it.
Section(previous, current) ==
  LET changes == Changes[<<previous, current>>] IN
  CASE previous = current -> {}
    [] previous # current /\ changes = {} -> Change("changed", <<>>)
    [] OTHER -> changes

Summary == IF revisions = <<>> THEN {} ELSE Section(LatestRevision.source, sources)

\* renderValues has a value for every block of a section that is there.
Available == IF sources = NullValue THEN {} ELSE Blocks

\* createWithinTransaction: refused when the template requires a block that
\* the project has no value for.
CreateRevision(t) ==
  LET versions == templates[t].versions IN
  /\ ~archived /\ t \in PublishedTemplates
  /\ versions[Len(versions)] \subseteq Available
  /\ Len(revisions) < MaxRevisions
  /\ revisions' = Append(revisions,
                    [previous |-> Len(revisions), source |-> sources,
                     summary |-> Summary, template |-> t,
                     version |-> Len(versions), content |-> versions[Len(versions)]])
  /\ chosen' = t
  /\ UNCHANGED <<archived, sources, templates>>

\* configuration: the template that the page proposes.
Proposed == IF chosen = None THEN Default ELSE chosen

-----------------------------------------------------------------------------
(* The page: its list, the version the URL asks for, the one shown, and    *)
(* the details under way.                                                  *)

NothingListed == [listed |-> 0, template |-> None, requested |-> 0, shown |-> 0,
                  loading |-> 0, details |-> {}]

\* selectRevision of a version of the list, or of the newest.
Select(p, requested) ==
  LET candidate == IF requested \in 1..p.listed THEN requested ELSE p.listed IN
  IF candidate = 0 THEN [p EXCEPT !.shown = 0]
  ELSE IF candidate \in {p.shown, p.loading} THEN p
  ELSE [p EXCEPT !.loading = candidate, !.details = @ \cup {candidate}]

\* loadRevisions and loadConfiguration.
LoadSpecifications ==
  /\ specPage' = Select([specPage EXCEPT !.listed = Len(revisions), !.template = Proposed],
                        specPage.requested)
  /\ UNCHANGED <<archived, sources, templates, chosen, revisions>>

\* The query parameter changes.
Navigate(requested) ==
  /\ requested # specPage.requested
  /\ LET asked == [specPage EXCEPT !.requested = requested] IN
     specPage' = IF asked.listed > 0 THEN Select(asked, requested) ELSE asked
  /\ UNCHANGED <<archived, sources, templates, chosen, revisions>>

\* generateRevision with the template of the form, and the lists after it.
Generate ==
  /\ specPage.template # None
  /\ CreateRevision(specPage.template)
  /\ specPage' = Select([specPage EXCEPT !.listed = Len(revisions'),
                                           !.requested = Len(revisions')],
                        Len(revisions'))

\* The answer to loadRevision shows its version, whatever was asked for since;
\* an error shows none.
ReceiveDetail(revision, answered) ==
  /\ revision \in specPage.details
  /\ specPage' = [specPage EXCEPT !.details = @ \ {revision}, !.loading = 0,
                                  !.shown = IF answered THEN revision ELSE 0]
  /\ UNCHANGED <<archived, sources, templates, chosen, revisions>>

-----------------------------------------------------------------------------
SpecificationsInit ==
  /\ archived = FALSE
  /\ sources \in Snapshots
  /\ templates = [t \in SpecificationTemplates |->
                    IF t = Default THEN [draft |-> {}, versions |-> <<{}>>]
                    ELSE [draft |-> None, versions |-> <<>>]]
  /\ chosen = None
  /\ revisions = <<>>
  /\ specPage = NothingListed

\* Everything else the application does to the project's sources.
SourcesMove ==
  /\ ~archived
  /\ sources' \in Snapshots
  /\ UNCHANGED <<archived, templates, chosen, revisions, specPage>>

ArchiveOrRestoreAround ==
  /\ archived' = ~archived
  /\ UNCHANGED <<sources, templates, chosen, revisions, specPage>>

\* changeStatus and other callers of createWithinTransaction name no template.
CreateMilestone == CreateRevision(Proposed) /\ UNCHANGED specPage

SpecificationsNext ==
  \/ \E t \in SpecificationTemplates :
       PublishTemplateDraft(t) \/ \E content \in Contents : SaveTemplateDraft(t, content)
  \/ LoadSpecifications
  \/ \E requested \in DOMAIN revisions : Navigate(requested)
  \/ Generate
  \/ \E revision \in DOMAIN revisions, answered \in BOOLEAN : ReceiveDetail(revision, answered)
  \/ CreateMilestone
  \/ SourcesMove
  \/ ArchiveOrRestoreAround

SpecificationsSpec == SpecificationsInit /\ [][SpecificationsNext]_specificationVars

-----------------------------------------------------------------------------
(* Properties.                                                             *)

\* Every variable has its type.
SpecificationsTypeOK ==
  /\ archived \in BOOLEAN
  /\ sources \in Snapshots
  /\ \A t \in SpecificationTemplates : templates[t].versions \in Seq(Contents)
  /\ chosen \in SpecificationTemplates \cup {None}
  /\ \A v \in DOMAIN revisions : revisions[v].previous = v - 1
  /\ specPage.shown \in 0..Len(revisions)
  /\ specPage.details \subseteq DOMAIN revisions

\* A version names no change exactly if the section is the same.  Of a section
\* that both versions have, it names a field exactly if the field was added,
\* dropped, changed or moved, and never the section as a whole.  (The text that is
\* kept lists the first maxChangePathsPerSection of them and counts the rest.)
SummaryNamesThePlace ==
  \A v \in DOMAIN revisions : v > 1 =>
    LET previous == revisions[v - 1].source
        current == revisions[v].source
        named == {change.path : change \in revisions[v].summary}
        Stayed(key) == /\ key \in DOMAIN previous.fields /\ key \in DOMAIN current.fields
                       /\ previous.fields[key] = current.fields[key]
    IN /\ previous = current <=> named = {}
       /\ previous.kind = "object" /\ current.kind = "object" =>
            /\ <<>> \notin named
            /\ \A key \in DOMAIN previous.fields \cup DOMAIN current.fields :
                 Stayed(key) <=> \A path \in named : path[1] # Key(key)
=============================================================================
