-------------------------- MODULE ActiveProjectQueue --------------------------
(***************************************************************************)
(* The queue of active Projects: the pages that the API cuts out of it     *)
(* (active-project-queue.service.ts over project-work-state-read-model.ts) *)
(* and the page in the browser that walks through them                     *)
(* (active-project-queue.page.ts).  A cursor names the place of the        *)
(* Project at the edge of a page, and Projects change their places while   *)
(* an Owner walks on.                                                      *)
(*                                                                         *)
(* The URL holds what is asked for.  Only the latest request counts        *)
(* (switchMap), so it is served when it is answered.  All filters reach    *)
(* the URL and the API like the search; toggling one is typing without a   *)
(* pause.  A Project enters or leaves the filters by urgency and state     *)
(* while an Owner walks on, the latter without a new place: as it does     *)
(* when it is restored or archived.  Navigation within the page is one     *)
(* step.                                                                   *)
(***************************************************************************)
EXTENDS Naturals, Sequences, FiniteSets, SequencesExt, Null

CONSTANTS
  Projects,       \* their ids, numbers
  Name,           \* the name of each as the database normalizes it, a number
  Foreign,        \* names with a mark that the database keeps and the API drops
  Searches,       \* what may be searched for, None among it
  Found,          \* the Projects whose names match each search
  Dues,           \* bound: due dates
  Soon,           \* until the end of the seventh day
  PageSize,
  MaxNow,         \* bound: time
  MaxChanges,     \* bound: commands on Projects
  MaxSearchEdits, \* bound: edits of the search box
  MaxLoads,       \* bound: requests that no answer has come for
  MaxEarlier      \* bound: browser history

\* What cursors hold, and what is asked for.
Cursors == [direction : {"NEXT", "PREVIOUS"}, search : Searches,
            anchor : (0..3) \X (0..(MaxNow + Soon + 1)) \X Nat \X Projects]
Queries == [search : Searches, cursor : Cursors \cup {None}]

ASSUME QueueAssumption ==
  /\ Projects \subseteq Nat /\ IsFiniteSet(Projects)
  /\ Name \in [Projects -> Nat]
  /\ Foreign \subseteq Nat \ {0}
  /\ None \in Searches
  /\ Found \in [Searches -> SUBSET Projects]
  /\ Soon \in Nat /\ MaxNow \in Nat \ {0}
  /\ Dues \subseteq 0..(MaxNow + Soon)
  /\ PageSize \in Nat \ {0}
  /\ MaxLoads \in Nat \ {0}
  /\ None \notin Cursors

VARIABLES
  queueRows,   \* what a place depends on: active, new replies, due date
  now,
  url,         \* the query of the URL, and of activeQuery
  earlierUrls, \* the history of the browser
  box,         \* the search box: its text, what is being debounced, and what was last
  loads,       \* requests since the last answer, the latest at the end
  queuePage,   \* the loaded page, None before
  failed,      \* failedRequest
  walk,        \* what Next pages have shown since a first page (observed)
  changes      \* commands and edits so far, for the bounds

queueVars ==
  <<queueRows, now, url, earlierUrls, box, loads, queuePage, failed, walk, changes>>

Nothing == "nothing"
FirstPage(search) == [search |-> search, cursor |-> None]
NoWalk == [open |-> FALSE, seen |-> <<>>, moved |-> {}]
PageRequest(query, kind) == [query |-> query, kind |-> kind]

QueueInit ==
  /\ queueRows = [p \in Projects |-> [active |-> TRUE, replies |-> FALSE, due |-> None]]
  /\ now = 1
  /\ url = FirstPage(None)
  /\ earlierUrls = <<>>
  /\ box = [text |-> None, pending |-> Nothing, emitted |-> Nothing]
  /\ loads = <<PageRequest(FirstPage(None), "ROUTE")>>
  /\ queuePage = None
  /\ failed = None
  /\ walk = NoWalk
  /\ changes = [commands |-> 0, edits |-> 0]

-----------------------------------------------------------------------------
(* The order of the queue.                                                 *)

\* urgency_rank: a reply, overdue, due soon, in progress.
Urgency(row) ==
  IF row.replies THEN 0
  ELSE IF row.due = None THEN 3
  ELSE IF row.due < now THEN 1
  ELSE IF row.due <= now + Soon THEN 2
  ELSE 3

\* COALESCE(due_at, 'infinity').
OrderedDue(row) == IF row.due = None THEN MaxNow + Soon + 1 ELSE row.due

\* normalizeProjectName takes every mark off, the SQL translate Hungarian ones.
CursorName(p) == IF Name[p] \in Foreign THEN Name[p] - 1 ELSE Name[p]

Place(p) == <<Urgency(queueRows[p]), OrderedDue(queueRows[p]), Name[p], p>>
Anchor(p) == <<Urgency(queueRows[p]), OrderedDue(queueRows[p]), CursorName(p), p>>

\* The row comparison of SQL.
After(x, y) == \E i \in 1..4 : x[i] > y[i] /\ \A j \in 1..(i - 1) : x[j] = y[j]

-----------------------------------------------------------------------------
(* The API.                                                                *)

Filtered(search) == {p \in Found[search] : queueRows[p].active}

Backward(query) == query.cursor # None /\ query.cursor.direction = "PREVIOUS"

\* Variant: the page begins with its anchor.
FromAnchor(query) ==
  {p \in Filtered(query.search) :
     query.cursor # None =>
       IF Backward(query) THEN ~After(Place(p), query.cursor.anchor)
       ELSE ~After(query.cursor.anchor, Place(p))}

\* What lies beyond the cursor in its direction, and in which order.
Beyond(query) ==
  {p \in Filtered(query.search) :
     query.cursor # None =>
       IF Backward(query) THEN After(query.cursor.anchor, Place(p))
       ELSE After(Place(p), query.cursor.anchor)}

Precedes(query, p, q) ==
  IF Backward(query) THEN After(Place(p), Place(q)) ELSE After(Place(q), Place(p))

Earlier(query, p) == {q \in Beyond(query) : Precedes(query, q, p)}

\* page_candidates, one more than a page.
Candidates(query) ==
  LET count == Cardinality(Beyond(query))
  IN [i \in 1..(IF count <= PageSize THEN count ELSE PageSize + 1) |->
        CHOOSE p \in Beyond(query) : Cardinality(Earlier(query, p)) = i - 1]

\* MISMATCHED_CURSOR, OBSOLETE_CURSOR.
Rejected(query) ==
  /\ query.cursor # None
  /\ \/ query.cursor.search # query.search
     \/ \A p \in Filtered(query.search) : Place(p) # query.cursor.anchor

Cursor(direction, search, p) ==
  [direction |-> direction, search |-> search, anchor |-> Anchor(p)]

\* getPage.
PageOf(query) ==
  LET candidates == Candidates(query)
      more == Len(candidates) > PageSize
      selected == SubSeq(candidates, 1, IF more THEN PageSize ELSE Len(candidates))
      direction == IF query.cursor = None THEN "FIRST" ELSE query.cursor.direction
      items == IF direction = "PREVIOUS" THEN Reverse(selected) ELSE selected
      hasPrevious == direction = "NEXT" \/ (direction = "PREVIOUS" /\ more)
      hasNext == direction = "PREVIOUS" \/ more
  IN [query |-> query, items |-> items,
      total |-> Cardinality(Filtered(query.search)),
      previous |-> IF hasPrevious /\ items # <<>>
                   THEN Cursor("PREVIOUS", query.search, Head(items)) ELSE None,
      next |-> IF hasNext /\ items # <<>>
               THEN Cursor("NEXT", query.search, Last(items)) ELSE None]

-----------------------------------------------------------------------------
(* Loading pages.                                                          *)

\* What every request does first; a retry keeps the failure on display.
Load(query, kind) ==
  /\ Len(loads) < MaxLoads
  /\ loads' = Append(loads, PageRequest(query, kind))
  /\ failed' = IF kind = "RETRY" THEN failed ELSE None

\* A change of the query parameters, which fills the search box without an
\* emission.  A URL that stays the same loads nothing.
Navigate(query, text, pushed) ==
  /\ earlierUrls' = IF pushed THEN Append(earlierUrls, url) ELSE earlierUrls
  /\ url' = query
  /\ IF query = url THEN box' = [box EXCEPT !.text = text] /\ UNCHANGED <<loads, failed>>
     ELSE box' = [box EXCEPT !.text = query.search] /\ Load(query, "ROUTE")
  /\ UNCHANGED <<queueRows, now, queuePage>>

NextCursor == queuePage # None /\ queuePage.next # None

\* The walk that goes on with an answer, or begins with it.
Walked(query, answer) ==
  IF query.cursor = None
  THEN [open |-> TRUE, seen |-> answer.items, moved |-> {}]
  ELSE IF walk.open /\ NextCursor /\ query.cursor = queuePage.next
  THEN [walk EXCEPT !.seen = @ \o answer.items]
  ELSE NoWalk

\* switchMap drops the answers to all requests but the latest.
Unanswered == DOMAIN loads \cap {Len(loads)}

AnswerPage(l) ==
  /\ ~Rejected(loads[l].query)
  /\ queuePage' = PageOf(loads[l].query)
  /\ walk' = Walked(loads[l].query, PageOf(loads[l].query))
  /\ loads' = <<>>
  /\ failed' = None
  /\ UNCHANGED <<queueRows, now, url, earlierUrls, box, changes>>

\* A rejected cursor leads to the first page of its query.
AnswerRejection(l) ==
  /\ Rejected(loads[l].query)
  /\ url' = FirstPage(loads[l].query.search)
  /\ box' = [box EXCEPT !.text = loads[l].query.search]
  /\ loads' = <<PageRequest(url', "ROUTE")>>
  /\ failed' = None
  /\ UNCHANGED <<queueRows, now, earlierUrls, queuePage, walk, changes>>

\* The connection fails: the request is kept for a retry.
AnswerFailure(l) ==
  /\ failed' = loads[l]
  /\ loads' = <<>>
  /\ UNCHANGED <<queueRows, now, url, earlierUrls, box, queuePage, walk, changes>>

Answer == \E l \in Unanswered : AnswerPage(l) \/ AnswerRejection(l) \/ AnswerFailure(l)

-----------------------------------------------------------------------------
(* The Owner.                                                              *)

\* Next page and Previous page, of whatever page is shown.
NavigateToCursor ==
  /\ queuePage # None
  /\ Len(earlierUrls) < MaxEarlier
  /\ \E cursor \in {queuePage.next, queuePage.previous} \ {None} :
       Navigate([url EXCEPT !.cursor = cursor], box.text, TRUE)
  /\ UNCHANGED <<walk, changes>>

\* Refresh goes to the first page, or loads it again.
Refresh ==
  /\ IF url.cursor # None THEN Navigate(FirstPage(url.search), box.text, FALSE)
     ELSE /\ Load(url, "REFRESH")
          /\ UNCHANGED <<queueRows, now, url, earlierUrls, box, queuePage>>
  /\ UNCHANGED <<walk, changes>>

Retry ==
  /\ failed # None
  /\ loads = <<>>
  /\ Load(failed.query, "RETRY")
  /\ UNCHANGED <<queueRows, now, url, earlierUrls, box, queuePage, walk, changes>>

Type ==
  /\ changes.edits < MaxSearchEdits
  /\ \E text \in Searches \ {box.text} :
       box' = [box EXCEPT !.text = text, !.pending = text]
  /\ changes' = [changes EXCEPT !.edits = @ + 1]
  /\ UNCHANGED <<queueRows, now, url, earlierUrls, loads, queuePage, failed, walk>>

\* The debounce ends.  Its value decides whether the URL is updated; what the
\* URL is updated with is in the box by then.
EndDebounce ==
  /\ box.pending # Nothing
  /\ LET rested == [box EXCEPT !.pending = Nothing, !.emitted = box.pending]
     IN IF box.pending \in {box.emitted, url.search} \/ FirstPage(box.text) = url
        THEN box' = rested /\ UNCHANGED <<queueRows, now, url, earlierUrls, loads, queuePage, failed>>
        ELSE /\ url' = FirstPage(box.text)
             /\ box' = rested
             /\ Load(url', "ROUTE")
             /\ UNCHANGED <<queueRows, now, earlierUrls, queuePage>>
  /\ UNCHANGED <<walk, changes>>

\* The button of a list without a match.
ClearFilters ==
  /\ queuePage # None /\ queuePage.total = 0
  /\ url.search # None
  /\ Navigate(FirstPage(None), None, FALSE)
  /\ UNCHANGED <<walk, changes>>

\* Back, in the browser.
Back ==
  /\ earlierUrls # <<>>
  /\ earlierUrls' = Front(earlierUrls)
  /\ url' = Last(earlierUrls)
  /\ IF url' = url THEN UNCHANGED <<box, loads, failed>>
     ELSE box' = [box EXCEPT !.text = url'.search] /\ Load(url', "ROUTE")
  /\ UNCHANGED <<queueRows, now, queuePage, walk, changes>>

Owner ==
  \/ NavigateToCursor \/ Refresh \/ Retry \/ Type \/ EndDebounce \/ ClearFilters \/ Back

-----------------------------------------------------------------------------
(* What moves Projects.                                                    *)

\* The Projects that have another place after this step, or enter or leave the queue.
Moved == {p \in Projects : Place(p)' # Place(p) \/ queueRows'[p].active # queueRows[p].active}

\* Archive and restore, replies that come and are reviewed, a new due date.
QueueCommand ==
  /\ changes.commands < MaxChanges
  /\ \E p \in Projects :
       \/ queueRows' = [queueRows EXCEPT ![p].active = ~@]
       \/ queueRows' = [queueRows EXCEPT ![p].replies = ~@]
       \/ \E due \in (Dues \cup {None}) \ {queueRows[p].due} :
            queueRows[p].active /\ queueRows' = [queueRows EXCEPT ![p].due = due]
  /\ changes' = [changes EXCEPT !.commands = @ + 1]
  /\ UNCHANGED now

TimePasses ==
  /\ now < MaxNow
  /\ now' = now + 1
  /\ UNCHANGED <<queueRows, changes>>

ProjectsMove ==
  /\ QueueCommand \/ TimePasses
  /\ walk' = IF walk.open THEN [walk EXCEPT !.moved = @ \cup Moved] ELSE walk
  /\ UNCHANGED <<url, earlierUrls, box, loads, queuePage, failed>>

QueueNext == Answer \/ Owner \/ ProjectsMove

QueueSpec == QueueInit /\ [][QueueNext]_queueVars

-----------------------------------------------------------------------------
(* Properties.                                                             *)

\* Every variable has its type.
QueueTypeOK ==
  /\ queueRows \in [Projects -> [active : BOOLEAN, replies : BOOLEAN, due : Dues \cup {None}]]
  /\ now \in 1..MaxNow
  /\ \A query \in {url} \cup ToSet(earlierUrls) \cup {load.query : load \in ToSet(loads)} :
       query.search \in Searches
  /\ box.text \in Searches
  /\ {box.pending, box.emitted} \subseteq Searches \cup {Nothing}
  /\ Len(loads) <= MaxLoads
  /\ queuePage # None => /\ queuePage.items \in BoundedSeq(Projects, PageSize)
                         /\ {queuePage.previous, queuePage.next} \subseteq Cursors \cup {None}
  /\ walk.moved \subseteq Projects

Times(p) == Cardinality({i \in DOMAIN walk.seen : walk.seen[i] = p})

\* Whoever walks from the first page to the last by Next page is shown every
\* matching Project that kept its place, and neither entered nor left the queue,
\* exactly once, and on the way none of them twice, whatever others did meanwhile.
WalkSeesEachOnce ==
  walk.open => \A p \in Projects \ walk.moved :
    /\ Times(p) <= 1
    /\ queuePage.next = None /\ p \in Filtered(queuePage.query.search) => Times(p) = 1
=============================================================================
