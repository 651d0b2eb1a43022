# Project Maker: verification of the work of a Project

Project Maker is a NestJS/TypeORM/PostgreSQL application with an Angular client. An employee
prepares a Project: interviews the Customer, hands over the summary of the interview, follows up by
mail, processes the replies, asks for clarification, collects evidence, writes a specification, and
hands a delivery package over to Git. This directory holds TLA+ models of the parts whose
correctness depends on the order of events: mail that leaves the system while processes die and
leases end, mail that arrives while several replicas read one mailbox, pages whose requests are
served and answered in any order, and employees who act on what they read some time ago. TLC checks
the models on small instances; TLAPS proves the most important properties for every value of the
constants.

Paths below are relative to the repository; `api/` stands for `apps/api/src/`, `web/` for
`apps/web/src/app/`.

## 1. Inventory

### Components

| Component | State it keeps | Operations | Modelled by |
|---|---|---|---|
| Customer follow-up ping (`api/follow-ups/follow-up.service.ts`) | one follow-up row per Project (schedule, draft, preview columns), delivery attempts, the outbound attempt history | update schedule, update draft, preview, send, retry, timer poll, two finalizers with fallbacks, lease reconciliation on every read | `FollowUpPing` |
| Page of the follow-up (`web/projects/customer-follow-up/`) | the state that some request brought, two forms, preview, retry confirmation, poll timer, pending commands | load, poll, edit and save the draft, save settings, preview, send, confirm and retry, reload, react to archive and restore | `FollowUpPage` |
| Outbound delivery (`customer-outbound-persistence.ts`, `mail-delivery/`) | append-only outbound attempts of one logical communication | submit to SMTP, classify the answer, record | `OutboundDelivery` (what it promises), the `Submit` actions |
| Correspondence mailbox (`customer-mailbox-sync.service.ts`, `imap-customer-mailbox-changes.ts`) | one mailbox row: checkpoint, baseline flag, last success, lease token and end | claim, read pages, complete or fail, recover from an invalid cursor | `MailboxSync` |
| Customer replies and triage (`customer-replies/`) | correspondences (status, unread count, processing version), inbound messages, triage rows and immutable triage actions, classifications | ingest, link, dismiss, mark reviewed, set status, classify (and close), read the work of a Project | `CorrespondenceProcessing` |
| Interview rounds (`api/interviews/interviews.service.ts`, `round-question-assessment.ts`) | rounds with frozen questions, answers, assessments | publish schema, create, answer, assess, reset, finish | `InterviewRounds` |
| Interview page (`web/interviews/interview.page.ts`) | per question: draft, persisted value, autosave timer, request numbers, assessment | load, start a round, type, choose, assess, retry, finish, leave, receive answers | `InterviewPage` (extends `InterviewRounds`) |
| Interview customer handoff (`interview-customer-handoff.service.ts`, migrations 0014 and 0022) | interview round, handoff versions, preview, outbound attempts | edit and end the round, start draft, update draft, preview, send, retry, finalize, list with reconciliation | `InterviewHandoff` |
| Question Bank, templates, Project schemas (`api/question-bank/`) | bank versions, templates with drafts and published versions, schema versions | insert, reorder, deactivate, reference files; save, publish, delete a template; publish a schema | `QuestionBank` |
| Clarification requests (`api/customer-response/`, the Owner's panel, the Customer's form) | signed previews, requests with delivery state, submission and evidence; a draft in browser storage | preview, confirm and deliver, retry, revoke, open, type, submit, review, keep as evidence | `CustomerResponse` |
| Discovery follow-ups (`api/discovery-follow-ups/` and their page) | versioned rows with a source link; five forms and one request of each kind | create, edit, link, unlink, resolve, list, reload after a conflict | `DiscoveryFollowUps` |
| Specifications (`api/markdown/` and the page) | templates, revisions with the snapshot of their sources and the summary of what changed | save and publish a template, create a revision, select, load | `Specifications` |
| Evidence, attachments, contacts (`api/discovery/`) | attachments, Evidence, Insights and their links, contacts | upload, remove, create, update, delete: each checks first and writes later | `DiscoveryEvidence` |
| Project creation (`project-create.page.ts`, `projects.service.ts`) | creation requests, projects | fill in, send, send again | `ProjectCreation` |
| Project lifecycle (`project-settings.page.ts`, `projects.service.ts`) | basics, playbook, phase, archive | save each, archive, restore, delete, with late answers | `ProjectLifecycle`; its effect on the schedule in `FollowUpPing` |
| Status and decisions (`api/decision-portfolio/decision-status.service.ts`) | coordination, status updates, formal decisions | record, correct the latest update | `ProjectStatus` |
| Delivery packages and Git handoff (`api/delivery/`) | package and setup versions, handoffs; the remote branch | save, preview, confirm, retry, and the steps of one execution | `DeliveryHandoff` |
| Readiness and preparation status (`api/readiness/`, `api/decision-review/`, `api/project-preparation/`) | none; computed from rounds, assessments, follow-ups and the ratings of the Decision Review | read the status query by query; update the review | `ProjectPreparation` (extends `InterviewRounds`) |
| Active Project queue (`active-project-queue.service.ts`, its cursor, the work-state SQL, the page) | none in the API; in the page the URL, search box, requests and loaded page | order, filter, cut pages in both directions, reject cursors; navigate, search, refresh, retry, go back | `ActiveProjectQueue` |

Goals and initiatives, the portfolio list, notifications, authentication, audit and MCP access are
not modelled; section 5 says why.

### How the components interact

* Follow-up and interview handoff deliver through the same pattern. One transaction *claims* a
  delivery (`SENDING`, with the time of the claim), the gateway is called outside any transaction,
  and a second transaction *finalizes*. In between, the claim lives only in the memory of a process.
  A claim older than its lease is turned into `UNKNOWN` by whoever reads it next. `FAILED` is retried
  freely, `UNKNOWN` only when the employee accepts the risk of a duplicate. Clarification requests
  and Git handoffs have no lease: a row whose process died stays as it is.
* A reply to a delivered message, stored by the mailbox synchronization, proves receipt and forbids
  another retry (`customer-receipt-evidence.ts`). In the delivery models it is the action `Reply`.
* Archive locks the Project, pauses the follow-up schedule (its remaining time is set aside), and
  makes all commands fail with a conflict; restore plans the next ping from the time set aside. In
  the other modules it is an action named `ArchiveOrRestore...`, and a command that passed its check
  is not stopped.
* Mail that the synchronization retains is correlated by its reply token; what cannot be correlated
  goes to triage. This is where `MailboxSync` ends and `CorrespondenceProcessing` begins.
* A published Project schema freezes the questions that `InterviewRounds` asks; the summary of a
  round is what `InterviewHandoff` sends, and its state decides whether a completed Initial Intake
  may be edited (`summary` in `InterviewRounds`, the round in `InterviewHandoff`).
* Project pages and the queue both show how far a Project is prepared. The pages ask a service that
  reads query by query and takes the questions from the Project's own playbook; the queue asks one SQL
  query that computes everything again, with those of the general playbook (`ProjectPreparation`).
* A follow-up that a ping refers to is seen by `FollowUpPing` as a context that may be closed or
  change (`DiscoveryFollowUps` has the versions behind it).

### What is hard here

Every hazard is listed in `PROJECT.json` at its line. The recurring ones:

* **Overtaken claims.** Finalizers look at the state `SENDING`, not at the claim they carry, so a
  late answer may resolve a later claim.
* **Crash between claim and finalization**, including a finalizer whose promise is returned without
  `await` inside `try`, so that its failure escapes the fallback; and crashes between the commit,
  the push, its verification and its record in a Git handoff.
* **Stale reads.** A timer poll works with the time at which it began; a reader of handoff versions
  saves what it found without a lock; an employee's screen is read by two queries outside a
  transaction; a Git handoff is read once and saved several times; forms show what was loaded.
* **Answers in another order.** The autosave of an answer has no order that the API could check; the
  answer to a phase change may arrive after the page has archived the Project.
* **Repeated commands.** The answer to a creation or a confirmation is lost, and it is sent again.
* **Lost leases and rebuilt mailboxes.** A refresh that is slower than its lease completes after
  another replica took over; a new UIDVALIDITY presents every message again.
* **Schedules** that must neither stop silently nor fire for an archived Project, after any sequence
  of edits, conflicts, unknown outcomes, expiry, archive and restore.
* **Two calculations of one status**, a moving queue under a cursor, and a page whose only way out of
  a pending delivery is its next poll.
* **Check and write.** Evidence is removed, because nothing links it, while another transaction links
  it to an Insight; the foreign key takes the link along.

## 2. Modules

Components share no variables but what one keeps of another (a schema, a status, a reply), so every
component has a module of its own. What they read of one Project and of the language is declared
once: `ProjectRow` has `archived`, `Null` has `None`. `MC*.tla` modules instantiate them for TLC.
`*_proofs.tla` modules only hold theorems; `InterviewPage_proofs` has those of everything that is
built on `InterviewRounds`, the status of a Project included. Definitions called *variants* in the
modules (for instance `CadenceIgnoringArchive`) are plausible wrong versions of the definition that
follows them. They are not part of any specification; they show that the properties can fail.

### FollowUpPing

State: `schedule` is the follow-up row, `preview` its preview columns, `attempt` the attempt rows,
`results` the outbound history (counted), `flight` what each process carries between its two
transactions, `world` what really happened (claims, accepted risks, messages taken by the mail
system). The last is observed and never read by a guard.

* Commands: `Update` (schedule), `UpdateDraft`, `PreviewManualPing`, `SendManualPing`,
  `RetryManualPing`. All of them take the row lock first, hence one action each.
* Timer: `StopEndedSchedule`, `PauseDueSchedule`, `ClaimDueState` are the three outcomes of one
  candidate in `processDuePings`; `PollTimes` is the time of the poll.
* Delivery: `Submit` chooses what the gateway did and what the caller learned of it, independently:
  an unknown answer is possible whether or not the message was taken. `Finalize`,
  `FinalizeFallsBack` (success that cannot be recorded becomes `UNKNOWN`) and `FinalizeOvertaken`
  (the attempt is no longer `SENDING`) are the second transaction; `Crash` drops a claim.
* `ReconcileExpired` is the reading command, `Archive` and `Restore` those of `projects.service.ts`.
* `context` stands for everything a ping is rendered from except the draft: the recipient and the
  referenced Discovery follow-up with its version. `ClosedReference` is one that may not be used.

Abstractions: manual commands take `new Date()` just before the lock, the model reads one clock at
the lock (only polls lag behind). A `Crash` also stands for a finalizer that was rolled back or whose
rejection nobody awaited. `saveNextDeliveryCadence` reads the Project's status without a lock, which
is safe because archive and restore lock the follow-up row it holds.

### OutboundDelivery

The abstract promise of one logical delivery: claim, hand over, one recorded result per claim, a new
claim only after a recorded failure or with an accepted risk. `FollowUpPing!ImplementsDelivery` is
the refinement, attempt by attempt. The interview handoff does *not* implement it, because its
unlocked reader can record two results of one claim (see section 3).

### MailboxSync

State: `mailbox` is the IMAP folder (UIDVALIDITY and messages in UID order with INTERNALDATE), `row`
the mailbox row, `refresh` what each replica holds while it reads, `inbox`, `inbound` and `events`
what ingestion has stored, `history` the baselines (observed). `Claim`, `ReadPage`, `Succeed`,
`ReadFails`, `CursorIsInvalid`, `Complete` (with `Ingest` in the same transaction), `Fenced` (the lease
token no longer matches) and `Crash` follow `performRefresh` and `readChanges`; `Arrivals`,
`Rebuild` and `Tick` are the environment.

Abstractions: the replica's name stands for its random lease token (one refresh at a time per
replica, `refreshPromise`). Wording of failures and the status view are left out. The day-granular
IMAP `SINCE` filter never excludes what the exact filter keeps. Mail is not expunged. `Skew` is how
far the mail server's clock may be off.

### CorrespondenceProcessing

State: the correspondence rows, `message` (inbound message with its triage state), `classification`,
`decisions` (triage actions, counted), `screen` (what each employee has read) and the observed
`reviewed`. `Match` and `Retain` are ingestion with and without a valid reply token, `Link` and
`Dismiss` triage, `ReadCorrespondences` and `ReadMessages` the two queries of `forProject`, and
`MarkReviewed`, `SetStatus`, `ClassifyMessage` the commands with their expected version.

Abstractions: one Project. Commands lock the correspondence row, so each is one action; the archive
check is not locked, but a command that passed it can be put before the archive. The expected version
of triage commands never differs from the first version of an open row. Commands that change nothing
(`MARK_REVIEWED` without unread messages, `SET_STATUS` to the same status) are stuttering steps.

### InterviewRounds and InterviewPage

`InterviewRounds` is the API: `rounds` with their frozen questions, answers and assessment overrides,
`schema` the questions of the latest Project schema, `summary` what the handoff decides about a
completed Initial Intake. `CreateRound`, `UpdateAnswer`, `SetAssessment`, `ResetAssessment` and
`FinishRound` are the commands; each holds the project or round row, hence one action each.
Clearing an answer clears a partial assessment (`ClearedAnswer`).

`InterviewPage` extends it with one page of the client. `client[q]` is `answerStates` and
`assessmentStates` of a question with its timer and request numbers; `calls` the requests that were
not answered. A handler is one action (`TypeText`, `SetDraft`, `TimerFires`, `SelectAssessment`,
`Finish`, ...); a request is served (`Serve`) in any order, answered in any order (`Receive*`), lost
before or after it is served (`Lose`), and its answer is ignored by a page that has moved on
(`Forget`). `Elsewhere` is everybody else: another page that answers, archive, schemas, the summary.

Abstractions: reference files and the wording of messages; a question's value is a model value;
text questions are those whose draft waits for the timer.

### InterviewHandoff

State: `round` (status and content version of the initial intake), `handoffs` (the versions, in
order), `preview`, `results`, `evidence`, `flight`, `found` (what each reader found and has not saved
yet) and the observed `world`. The reader is split in `FindExpired` and `SaveUnknown` because
`list` runs in a READ COMMITTED transaction that locks no row before it saves; the database trigger
that protects `SENT` rows (migration 0014) makes its save fail (`ReaderFails`), and the partial
unique index allows one active version. The reconciliation inside `startDraft` runs under the lock and
is part of `StartDraft`.

Abstractions: the recipient is not part of the preview. Rounds other than the initial intake have no
handoff. `resumeEditing` serves only rows from before migration 0022 and is left out, which is why the
component is listed as *partly* modelled.

### QuestionBank

State: `bank` (the sequence of published versions: order, activity and files of every key),
`template`, `schemas`, `form` (the question form of the settings page, whose identifier may be of an
older version) and `publication` (what a schema publication has read). Every change of the bank is one
action under the advisory lock (`CreateBaseQuestion`, `UpdateBaseQuestion`, `AddReferenceFile`, ...).
The publication of a schema reads twice without that lock: `ReadTemplate`, then
`PublishProjectSchema` or `RefuseSchema`. `Inserted` and `Reordered` are the order arithmetic: the two
splices of the code put a question among the others, where `PlaceWithout` counts those before it.

### CustomerResponse

State: `previews` (signed and stateless, each with its end of life), `requests` with delivery state,
submission and evidence, the Owner's `panel`, the Customer's `form`, `storage` (the draft of each
request in the browser) and `posts` (submissions under way). Confirmation and delivery are separate
(`ConfirmPreview`, `Deliver`), since the mail is sent after the commit; there is no lease, and `Retry`
needs no acknowledgement. A submission may be lost before or after it is served and is repeated with
its key (`ServePost`, `LosePost`, `ReceivePost`, `DropPost`).

### DiscoveryFollowUps

State: the rows, the page's list and forms (`page`), and `calls`, a function of the kind, because
`ProjectCommandPending` admits one request of a kind. An edit carries the snapshot its form was filled
with (`base`); a conflict keeps the form open until `ReloadEdit`. `Elsewhere` are the commands of
others. Focus handling and sorting are left out.

### Specifications

State: templates, `sources` (what `buildSourceSnapshot` reads), `revisions` with snapshot and summary,
and the page. `Changes` is the comparison of two snapshots, a recursive function over `JsonValues`:
records by key, arrays by index or, when every entry is named uniquely by the same key, by identity,
where a changed order is a change of its own. `Comparison` is one call of `collectChanges`, with the
changes of the parts as a parameter; paths are relative to the values that are compared, and `Below`
puts the step to a part in front. `Text` is what `String()` makes of the atoms that can name an entry.
The model keeps every place that was found; the stored text lists the first 20 of a section
(`maxChangePathsPerSection`) and counts the others. Of the rendering only the blocks a template
requires are modelled.

### DiscoveryEvidence

Each command is a transaction that begins with its checks (`Begin`), and writes later under the
foreign keys (`WriteInsight`, `RemoveEvidence`, ...), or rolls back. Two Owners have one each. The keys
are those of migration 0026 when a row is inserted (`Exists`: what is cited is there) and those of
migration 0034 when one is removed (`RemoveWithLinks`: 0034 made the draft of a Project deletable by
turning them into ON DELETE CASCADE, so a removed attachment takes its Evidence along, and removed
Evidence its links). `raced` observes of each Insight whether, when it was linked, a removal of what it
rests on had been checked. `SealOrReopen` stands for the closing of what owns an attachment. Scanning
and storing a file is one outcome of the upload.

### ProjectCreation, ProjectLifecycle, ProjectStatus

`ProjectCreation`: a visit of the form makes a creation request, which is sent until an answer
comes; the API looks it up before it inserts. `ProjectLifecycle`: the settings page (`settings`)
sends each kind of change at most once at a time (`inFlight`), numbers its phase changes (`intent`),
and ignores overtaken answers (`Applies`); `orderly` observes whether anything but the page's own
commands in their order changed the phase. `ProjectStatus`: pages of two Owners with lists of any
age; only the latest update is editable, checked when the command is carried out.

### DeliveryHandoff

State: the package and setup rows with their versions, `handoffs`, `remote` (the commits of each
branch) and `owners` (the page of each Owner with the command it runs). An execution is a sequence of
steps, as the code awaits each: look up the commit, prepare, save `PUSHING`, push (fast-forward only),
verify, record; `Crash` ends all of them, `ForeignCommit` is somebody else's push. No step locks or
re-reads the handoff. A commit is named by its handoff and position: the same content, message, date
and parent make the same commit.

### ProjectPreparation

Extends `InterviewRounds` by the playbook and the owner of the Project, its Discovery follow-ups and
the six ratings. The packaged playbooks differ in the keys of their questions and in wording only
(`packages/contracts/src/index.ts` derives two of them from `general.v1.json`), so a question is a
pair of playbook and item, and `Keys` those of one. The Question Bank holds the questions of all of
them, a schema any of these (`SomeSchemas` in `MCProjectPreparation`: all questions of one playbook,
or one general question). `UpdatePlaybook` chooses another playbook until the first round begins.
`Canonical` compares a round with the keys of a playbook: the Project's own for the service, always
`General` for the SQL. `Readiness` with `ReviewedStates` is the calculation of the service,
`ReadinessFact` with `PreparationState` that of the SQL; both end in a set of states, because one
adds binary fractions and the other decimals that were cut off, and neither need hit a half exactly:
a half is rounded either way. `reading` is one status on its way: `ReadSources`, `ReadAnswers`,
`ReadOverrides` and `ShowReview` are the reads as the service awaits them, and `seen` collects what
the queue could show from the beginning of the reading on (observed); `reading.intake` is the round
that `ReadSources` chose, which the later reads use whatever begins meanwhile. Commands are those of
the interview, of follow-ups, of the review, of the playbook and of the owner; during a reading at
most `MaxInterruptions` commit. Labels, bands and the order of gaps are left out.

Fractions are counted in parts of a `Whole` that the numbers of questions and follow-ups divide (in
the run 48, for up to three questions and one follow-up), so that both calculations are exact up to the
rounding of the percentage. The questions bound to a factor, those required for an estimate and those
that block it are constants; the weights are the policy's.

### ActiveProjectQueue

State: `queueRows` is what the place of a Project depends on, `url`, `earlierUrls`, `box`, `loads`,
`queuePage` and `failed` are the page in the browser, `walk` observes what Next page has shown since a
first page. A cursor is the place of the Project at the edge of a page (`Anchor`); it is rejected when
no matching Project has that place any more. `Candidates` is the query with its LIMIT: the Projects
`Beyond` the cursor, each at the index of its rank (`Earlier`). `switchMap` drops all answers but the
latest request's, hence the latest is served when it is answered. All filters reach the URL and the API
like the search. They differ in when a Project matches: the urgency changes with the place, but the
preparation state changes without one. A Project that enters or leaves that filter while an Owner walks
on is in the model one that is restored or archived (`active`), and counts, like that one, as `moved`.

Seen while modelling, and stated nowhere as wrong: the API takes every combining mark off a name, the
SQL `translate` only the Hungarian ones, so a cursor at a Project with another mark is always
obsolete; and a page before which, or after which, everything has vanished shows no way on.

### FollowUpPage

State: `component` is the panel, `loads` the GET requests under way with the state each brings back,
`requests` the commands (one of a kind), and `server` the API as far as the page can tell it:
`FollowUpPing` has all of it. `PollTimerFires`, `Applied` and `PollFailed` are the poll of a pending
delivery; `Deliver` and `ConcludedElsewhere` end a claim whose page waits or has stopped waiting, and
`ServeLoad` reconciles an expired lease, which nobody else has to do. `RequestFails` stands for lost
requests, lost answers and refusals without one of the two codes the page reads.

Seen while modelling, and stated nowhere as wrong: after a lost answer to a send the page does not
reload, it shows an error with a Reload button, so the previous outcome stays on display; polls and
saved settings raise the version under a draft form that is being edited, so saving it replaces a
draft the Owner never saw, although the API answers stale saves with a conflict; and the reload after
a send drops what was typed meanwhile.

### Composition for TLC

`MCInterview`, `MCProjectWork`, `MCLiveness` and `MCMailboxSync` check several models, or several
instances of one, in a run. A variable `focus` is chosen in the initial state and never changes; only
the component in focus moves. As the components change none of each other's variables, interleaving
them would multiply states and show nothing: a property of one component holds of an interleaving
exactly if it holds of the component alone.

`MCInterview` EXTENDS `InterviewPage`, `InterviewHandoff`, `QuestionBank`, `FollowUpPage` and
`Specifications`, and `MCProjectWork` EXTENDS `CorrespondenceProcessing`, `CustomerResponse`,
`DiscoveryFollowUps`, `DiscoveryEvidence`, `ProjectCreation`, `ProjectLifecycle`, `DeliveryHandoff`,
`ActiveProjectQueue` and `ProjectPreparation`. What they check are therefore the very definitions that
the theorems of section 4 are about, the assumptions of those modules are evaluated, and the
configuration has the bounds. `ProjectStatus` is an instance with its bounds in the INSTANCE.
`MCLiveness` restates the fairness of `FollowUpPing!FairSpec` and `MailboxSync!FairSpec` on actions
that are in focus.

## 3. Runs

| Run | Instance | Checks | Shows |
|---|---|---|---|
| `ping` | 2 attempts, lease 1, clock to 3, archive and restore; delivery: 2 deliverers, 3 claims each, 1 draft edit; contexts: 1 deliverer, 2 contexts that change or close; drafts: 1 deliverer, expiry dates, 2 draft edits; all with poll lag and previews that expire | `TypeOK`, `SingleFlight`, `OneResultPerClaim`, `NoUnacknowledgedDuplicate`, `ImplementsDelivery`; `CadenceMatchesProject`, `NoSilentStop`, `ManualPingWasReviewed` | claims that overtake each other keep the accounts; no path stops an enabled schedule without a visible reason; what is sent is what was previewed, once |
| `mailbox_sync` | 2 replicas, pages of 1, one rebuild; 2 messages with skew 1, or 2 of two kinds, or 3 on exact clocks | `TypeOK`, `SkippedOnlyBeforeCutoff`, `HistoryIsNotImported`, `EachReplyCountsOnce`, `CheckpointNeverRewinds` | lease take-over and recovery neither lose, import nor count twice, except what the cutoff skips |
| `interview` | page: 1 schema question and 1 ad-hoc, 1 round, 2 openings, 3 edits; handoff: 2 versions, 2 claims, 2 deliverers, 1 reader; bank: 3 keys, 2 versions; specification: 2 revisions, 2 template versions, objects with a title and up to 2 named rows; follow-up page: 1 ping, 1 claim, 2 loads and 1 command at once, 2 draft versions, 1 command elsewhere | `AllTypesOK` and, for the page, `SettledDraftIsPersisted`, `PartialKeepsItsAnswer`, `EndedRoundsStayAsTheyAre`; for the handoff `OnlyTheLatestIsActive`, `InterviewMatchesHandoff`, `NoUnacknowledgedDuplicate`, `EveryClaimIsRecorded`; `BankOrdersAreContiguous`, `SchemaCitesWhatItHolds`; `SummaryNamesThePlace`; `SendingIsWatched` | what was typed is stored or shown as unsaved; late readers cannot revive or forget a version; a schema cites one bank version; what changed is named; a pending ping on display is always polled |
| `project_work` | 2 employees or Owners, 2 messages, 2 correspondences; 1 preview, 1 form; 1 follow-up with 3 versions; 2 Evidence, 1 Insight with 3 versions, 1 attachment, 1 contact; 2 updates; 3 posts of a creation; 2 phase changes; 1 Git handoff, 1 commit; status: 2 playbooks of 3 items, 1 follow-up, 3 reviews, 1 command during a reading; queue: 3 Projects on pages of 1, 1 command, clock to 2, 2 requests, 2 URLs of history, 1 edit of the search box | `AllTypesOK` and, component by component, `ClosedIsClassified`, `UnreadIsCounted`, `OneDecisionPerMessage`, `ProcessedAsRead`; `EachPreviewOneRequest`; `EditReplacesWhatItShowed`; `UnracedInsightsKeepEvidence`; `EachCreationOneProject`; `QuietPageShowsPhase`; `SentIsOnTheBranch`; `StatusAgreesWithQueue`; `WalkSeesEachOnce` | commands that are repeated, late, or based on what was read before do what the employee meant, or nothing; two calculations of one status agree for the general playbook, and a walk through the queue shows each Project that keeps its place once |
| `liveness` | ping: 2 deliverers, 1 attempt, 2 claims; mailbox: 1 replica that crashes and restarts, 2 messages | `EveryPingIsResolved`, `MailIsEventuallyRetained` | nothing stays `SENDING` for ever; mail is retained in the end |
| `ping_stale`, `mailbox_gap`, `autosave`, `response_draft`, `git_retry`, `evidence_cascade`, `preparation_playbook` | minimal | one property each | counterexamples, see below |

**Bounds.** Two processes are enough for one to overtake the other, and a third claim lets an answer
arrive for a claim two generations old. Deliverers that overtake each other, changing contexts and
expiry dates with draft edits come in different behaviours (`ping`), each of which is checked for
all properties; the theorems hold of all at once. The clock ends after the lease of a retry has
ended, so that all of claim, expiry, retry and second expiry happen; a claim is made only if its
lease ends within the horizon, so that no claim is cut off by the bound. Two messages on pages of
one give a page boundary inside a refresh, and a third one can arrive between two pages (it takes
two to have a second page after the last UID was fixed); skew and kinds of mail are checked with two
messages each, since neither interacts with the position of a page. One rebuild gives a cursor that
becomes invalid in any position. Two correspondences give a link to the wrong one; version 3 of a
correspondence lets it be reviewed and changed once after a reply, and the theorems below cover any
version. Three edits of a page give two saves in flight and a change of mind; a second opening gives
answers for a page that was left. Three keys give a question between two others, with an inactive
one in between. One request of each kind is what the pages allow; two Owners are enough for a stale
list, a race of check and write and a retry by both. One Project on a page puts every Project at the
edge of one, so that each of the three is an anchor, and is passed by another, in some behaviour.
Three questions give one per factor, one of them without a factor, and the policy's weights are the
code's. Two playbooks give the general one and another, and three schemas the questions of either
and of neither; a Project of another playbook is followed without answers and ratings, since its
status is compared with the queue's only until its intake ends. `StatusAgreesWithQueue` speaks of
readings during which one command was committed at most, since the reads are not one transaction and
mix what several commands leave; and it exempts a reading during which a command cleared an answer
together with its assessment (`torn`): the two tables are read apart, the status then follows
neither. All bounds are named constants (`Max*`) in the guards. Deadlock is not checked: each model
stops when its bounds are used up, and the program may simply wait for input.

**Fairness.** `FollowUpPing!FairSpec` assumes that time passes and that an attempt with an ended
lease is reconciled by somebody: `docs/operations-handoff.md` (440-441) states that the client polls
until a terminal state or lease expiry releases it. `FollowUpPage!SendingIsWatched` supports that: a
page that shows a pending ping has its timer set or a poll under way, whatever fails or overtakes
what. (`FollowUpPage` itself has no liveness run: its fair state graph is too large.) No fairness is
assumed of deliverers, which may crash. `MailboxSync!FairSpec` assumes that time passes, that the
interval timer claims a free lease, that a living refresh goes on, and that the mailbox does not
refuse the same page for ever (strong fairness, since reading is interrupted by crashes and
failures); crashes are bounded by the clock. The run uses one replica; with two, the same property
holds but takes several minutes. Nothing polls handoffs, correspondences, clarification requests or
Git handoffs, so no liveness is claimed for them.

**Findings.** Each is a run whose property quotes the repository and is violated:

1. `ping_stale`: the late rejection of an overtaken claim marks a ping `FAILED` although its newest
   claim was accepted (`follow-up.service.ts:734`; finalizers do not compare the time of the claim).
   `NoUnacknowledgedDuplicate` survives, because the acknowledged retry already paid for the copy.
2. `mailbox_gap`: mail that arrives after the folder was opened and before the success time is taken
   lies beyond the checkpoint, yet before the cutoff of the next recovery, and is lost if the mailbox
   is rebuilt in between. `SkippedOnlyBeforeCutoff` says that this is the only loss.
3. `autosave`: two saves of one answer are served in the other order, or a draft is typed back to its
   persisted value while its save is under way; the page shows as saved what the API does not hold.
   `SettledDraftIsPersisted` says what does hold: a settled draft is what the page *believes* stored.
4. `response_draft`: what the Customer types while a submission is under way is neither submitted nor
   kept as a draft.
5. `git_retry`: of two Owners who retry one handoff, the slower one's failure is saved over `SENT`.
6. `evidence_cascade`: a link that is committed between the check of a removal (`insights.service.ts`
   98, `attachments.service.ts` 114) and the removal is deleted by the cascade of migration 0034, which
   leaves an Insight without Evidence. `UnracedInsightsKeepEvidence` says that this is the only way.
7. `preparation_playbook`: once the Initial Intake of a Project with the playbook `system-integration`
   or `data-migration` has ended, its pages and the queue show different preparation states, without
   any interleaving: the SQL takes the general playbook for every Project
   (`project-work-state-read-model.ts` 122). `StatusAgreesWithQueue` says where they do agree.

Divergences without a run. A search that is still being debounced when Next page is pressed drops
the newer cursor: navigation fills the box with the search of the URL, and the end of the debounce
then navigates to its first page. `active-project-queue.page.spec.ts:257` says "does not let an
older debounced search intent discard a newer page cursor", but tests only a text that trims to the
same search. Two readers of handoff versions, or a reader and a finalizer, record two results for
one claim (`interview-customer-handoff.service.ts` 638; `FindExpired` and `SaveUnknown` have it, and
`EveryClaimIsRecorded` therefore says at least one), while `interview-customer-handoff.entity.ts`
(42) calls the history of attempts authoritative for individual outcomes. And archive pauses the
schedule and keeps it enabled (`projects.service.ts` 448), `docs/operations-handoff.md` (455) says
that archive disables it.

## 4. Proofs

`tlapm` checks every proof to its leaves. The assumptions are those named in the modules:
`ConstantsAssumption` of `FollowUpPing`, `MailboxSync` and `CorrespondenceProcessing`,
`TextQuestionsAssumption`, `HandoffAssumption`, `BankAssumption`, `FollowUpPageAssumption`,
`ResponseAssumption`, `FollowUpsAssumption`, `EvidenceAssumption`, `CreationAssumption`,
`LifecycleAssumption`, `DeliveryAssumption`, `QueueAssumption`, `PreparationAssumption` and
`SpecificationsAssumption`. They say that bounds are naturals (positive where one of a thing always
exists), that `None` differs from what it is compared with, leases are positive, sets that are counted
are finite, text questions and seeded questions are questions, ids and normalized names of Projects
are numbers; of the readiness policy, that it binds questions to ownership (`general.v1.json` does),
and of the parts of a whole, that they can be divided among any number of questions and follow-ups; of
JSON values, that they consist of JSON values and are finite, so that some value of every set has no
part in it. Nothing is assumed of the number of processes, attempts, messages, versions, questions or
of the horizon. TLC evaluates the assumptions in every run that extends the module.

Each theorem follows from an inductive invariant, or one that is inductive relative to those above it;
those that have parts of their own are named `...Inv`. The proof that a step preserves one has a lemma
or a case for every action.

| Theorem (module) | Argument |
|---|---|
| `TypeCorrect`, `SingleFlightHolds` (`FollowUpPing_proofs`) | `TypeOK` is inductive; `SingleFlight` is inductive relative to it, as each claim is made when nothing is in progress after reconciliation, with a timestamp after all others |
| `CadenceMatchesProjectHolds`, `NoSilentStopHolds` | inductive relative to the two above. `NoSilentStop` needs `SingleFlight`: the finalizer that plans the next ping, and the latest attempt that excuses a missing one, must be the same |
| `OneResultPerClaimHolds`, `NoUnacknowledgedDuplicateHolds`, `FollowUpPingImplementsDelivery` (`FollowUpPing_proofs`) | `DeliveryInv` accounts for every claim of an attempt: it is on its way (the cardinality of the deliverers that carry it), or was taken, or its refusal is recorded, or it was lost. It is needed because an overtaken claim may be answered after the attempt was resolved: neither `results` nor `world` alone shows that an acceptance is still to come |
| `ManualPingWasReviewedHolds` | an action property: among all actions only the two that claim raise the claims of an attempt, and the one that claims a new attempt consumes the preview it compared with draft, recipient and reference |
| `Accounting`, `CopiesBounded` (`OutboundDelivery_proofs`) | `ClaimsAreAccounted` is the inductive reason why copies never outnumber accepted risks by more than one |
| `TypeCorrect`, `CheckpointNeverRewindsHolds` (`MailboxSync_proofs`) | `SyncInv` adds `Positioned` (a refresh that has read everything knows up to where) and `HolderIsAhead` (the holder of the lease has read at least as far as the stored checkpoint of the same generation); a refresh that is not the holder is fenced |
| `EachReplyCountsOnceHolds` | `MailInv`: positions lie inside the mailbox, and what one refresh has read is of one numbering (`OneNumbering`), unless the mailbox was rebuilt, which its next read notices. Without it a refresh could bring UIDs of two generations and the reference would not tell messages apart |
| `HistoryIsNotImportedHolds`, `SkippedOnlyBeforeCutoffHolds` | `ImportInv`, of the replica that holds the lease only (`Holding`): its cursor covers what it left behind. Every message since the first baseline and before a position is stored, on its way in the refresh, or was received before the cutoff of a recovery (`AccountedTo`), which is not always late enough (run `mailbox_gap`). Who lost the lease may hold anything: it is fenced |
| `TypeCorrect`, `UnreadIsCountedHolds` (`CorrespondenceProcessing_proofs`) | `CountInv` adds that reviewed messages belong to the correspondence, without which linking could raise the difference by other than one |
| `ClosedIsClassifiedHolds`, `OneDecisionPerMessageHolds` | inductive relative to `TypeOK` |
| `ProcessedAsReadHolds` | `ScreenIsComplete`: an employee whose screen shows the current version has every message on it. It holds only because rows are read before messages; with the queries swapped it does not |
| `PageTypeCorrect`, `PartialKeepsItsAnswerHolds`, `EndedRoundsStayAsTheyAreHolds` (`InterviewPage_proofs`) | `PageInv` types drafts, requests and rounds, and says what a request of each kind carries (`Fits`): a late request is served against rounds that have changed since, and must still be one of their commands. Every step of the page, of the transport or of other users is then one command of the rounds or none (`RoundsStep`), and both properties are proved of the commands alone |
| `SettledDraftIsPersistedHolds` | of what the page believes persisted (what the API holds may differ, run `autosave`). `DraftInv`: every draft is settled, waits for its timer, or has a save under way (`DraftsSettled`); no timer runs while a round is being completed; the answer to a save returns the value that was sent. Proved for answers that come late, are lost, or reach a page that has moved on |
| `HandoffTypeCorrect`, `OnlyTheLatestIsActiveHolds`, `InterviewMatchesHandoffHolds` (`InterviewWork_proofs`) | `VersionsInv`: what deliverers carry was claimed (`Carried`), what readers found and save later was sent (`Noticed`), a draft was never delivered (`UnsentIsUntouched`), and a version with a successor was sent, or is unknown with evidence of receipt (`Superseded`). `Superseded` is why a late reader or a retry cannot revive one |
| `NoUnacknowledgedDuplicateHolds`, `EveryClaimIsRecordedHolds` | `VersionStep` lists what a step can do to one version, and every action is shown to be such a step for every version. `AccountInv` then accounts for the claims of a version, as for the ping, although here a claim may have several results |
| `FollowUpPageTypeCorrect`, `SendingIsWatchedHolds` | `FollowUpPageInv`: the property itself with what the answer to each command brings (`RequestsAreGood`). Each answer either shows a pending ping and sets the timer, or shows none; the timer fires into a poll, and a poll that fails sets it again |
| `BankTypeCorrect`, `BankOrdersAreContiguousHolds` | `BankInv`: every version is a bank version (`IsBankVersion`: orders are onto 1..n). Since the keys are finite, orders that are onto 1..n are one to one (`OrdersDiffer`); then the place of a question after another is taken out is its order or one less (`PlaceIsKnown`), and insertion and move are onto again |
| `SchemaCitesWhatItHoldsHolds` | `BankInv`: what a publication has read, and every schema, is the selection of the template version it cites (`IsOfTemplate`); nothing published changes (`BankGrows`, `TemplatesGrow`), so that citations stay true (`CitationsStay`) |
| `EachCreationOneProjectHolds`, `FormShowsItsProjectHolds` (`ProjectWork_proofs`) | `CreationInv`: an answer to a creation has the basics of the Project made with its key (`AnswersNameTheProject`), and a form awaits one answer at most |
| `ResponseTypeCorrect`, `EachPreviewOneRequestHolds`, `RequestsAreSoundHolds` | `ResponseInv`: a request exists for a preview that was handed out, and is `Sound`: sent only if accepted, answered for all prompts, kept as evidence only of its prompts |
| `EvidenceTypeCorrect`, `UnracedInsightsKeepEvidenceHolds` | `EvidenceInv`: what a removal has checked stays unused while it is under way, or whoever used it has seen the removal and is marked (`RacesAreSeen`); a cascade takes exactly the links of what is removed (`LinksCascade`), so that links and citations lead to what exists |
| `DeliveryTypeCorrect`, `SentIsOnTheBranchHolds` | `DeliveryInv`: a command carries a copy of its handoff and the commit it prepared (`Executes`); what it is about to record as sent is on the branch; branches only grow. As no step re-reads the handoff, the copy may be old, and the invariant must hold of every copy |
| `FollowUpsTypeCorrect`, `EditReplacesWhatItShowedHolds` (`ProjectPages_proofs`) | `FollowUpsInv`: whatever the page, its forms and the answers under way show of a row is a version it has had (`Known`), and the same version of a row always has the same text; the API compares versions, so it compares texts |
| `LifecycleTypeCorrect`, `QuietPageShowsPhaseHolds` | `LifecycleInv`: the page loads before it sends (`LoadsFirst`), phase changes have different numbers (`IntentsDiffer`), and while they are carried out in order the answer to the newest one served has the phase of the Project (`AnswersTellThePhase`) |
| `QueueIsTyped`, `WalksSeeEachOnce` | `QueueIInv`. Places are compared lexicographically, which is a strict order (`AfterIsAnOrder`); hence `Candidates` lists what lies beyond a cursor in order, each Project once (`CandidatesInOrder`), and a page with a next cursor ends where the rest begins (`PageOfTheRows`). As long as a Project keeps its place, it has been shown exactly if it does not lie beyond the next cursor of the loaded page (`WalkUpTo`). A Project that the page ends with and that moves leaves a cursor that is rejected, and so does one with a mark that the cursor loses, so that no walk goes on from there |
| `SpecificationsTypeCorrect`, `SummaryNamesThePlaceHolds` (`InterviewWork_proofs`) | `SpecificationsInv`: the summary of every version is the comparison with the one before it, and the page is behind the versions. The rest is about `Changes`, by induction over the parts of a value, in the form of a smallest counterexample (`SmallestValue`). A recursive function is its definition only if a solution exists: a comparison looks at its parts alone (`ComparisonIsLocal`), solutions agree where they meet (`SolutionsAgree`), so their union is one and no value is left out (`AllIsSolvable`, `ChangesAreCompared`). Then two values have no changes exactly if they are equal (`ChangesTellApart`): for arrays by name, since names are unique, two of which none is without a counterpart are equally long (`NoLonger`, by the pigeonhole principle), and their order is compared; and of two objects each field that differs is the first step of a path (`FieldsAreNamed`) |
| `PreparationTypeCorrect`, `StatusAgreesWithQueueHolds` (`InterviewPage_proofs`) | `PreparationIInv`. `CalculationsAgree` shows that, for the general playbook, the service and the SQL come to the same states from the same rows, whatever items the policy binds, and for any answers, ratings and follow-ups: six inputs are missing one exactly if fewer than six are there, ownership is excluded exactly if every question bound to it is, and a reason for clarification exists exactly if the SQL says so. Without a command, what was read is still so (`UpToDate`), hence the reading ends like the queue. One command changes one thing a status is made of: read already, the reading ends like the queue did before (`seen`); not read yet, like the queue does now; both at once only if it is torn. `LatestIntake` says that the latest Initial Intake exists, and a new one takes its place. Before an intake has ended neither side looks at the playbook |

The long proofs rest on lemmas about one row of a table or one client of a page, stated before the
actions: for instance `RowReplaced` and `RowAppended`, `OrdersDiffer`, `PageCovers`.

**Model-checked only.** Liveness (`EveryPingIsResolved`, `MailIsEventuallyRetained`): TLAPS does not
reason about fairness and ENABLED. `AllTypesOK` of the two composed modules is a conjunction of the components' type invariants. Those of the components that
they EXTEND are proved one by one (`InterviewPage` as `PageInv`, which leaves out the counter of
edits; `ProjectCreation` as part of `CreationInv`; `ActiveProjectQueue` as `QueueIsTyped`;
`ProjectPreparation` as `PreparationTypeCorrect`), that of `ProjectStatus` is not.

## 5. Not modelled

* SMTP and IMAP dialogues, rendering, address handling, encryption of reply tokens, the CSV and print
  exports: a message is a model value and the dialogue is its possible outcomes.
* Git connection tests, credentials and their encryption: they change nothing of a handoff. (That is
  why Git is *partly* modelled.)
* `resumeEditing` of the interview handoff (rows from before migration 0022).
* Lease take-over without end: the lease of a mailbox is not renewed while pages are read, so
  replicas that are always slower than the lease could take it from each other for ever. The clock
  bound excludes it; it is recorded as an uncovered hazard.
* A manually linked reply as evidence of receipt: `customer-receipt-evidence.ts` looks only at the
  message's own correspondence; the intended rule is nowhere stated.
* Goals, initiatives and the portfolio: single-row commands whose last writer wins, and a list of
  work states that `ProjectPreparation` computes one by one. Notifications: a list computed on request.
* Of readiness and the queue: labels, bands, the order of gaps, the group counts and the wording of
  rows. Filters by urgency and state have no state of their own (see `ActiveProjectQueue` above).
* Authentication, audit and MCP access: sessions and attribution have no order of events that these
  properties depend on; the audit trail is written inside the transactions that are modelled.
* Pages that only show and command at once, navigation, layout and the theme; the one-time conversions
  of migrations.

## 6. Plan

What remains, in order of importance:

1. Proofs: the type invariant of `ProjectStatus`.
2. Composition of `CorrespondenceProcessing` with the deliveries: replies that are linked by triage,
   receipt evidence, and retries, once the intended rule is stated.
3. `DiscoveryFollowUps` as the context of `FollowUpPing`, and `QuestionBank` as the schema of
   `InterviewRounds`, as refinements.
4. `FollowUpPage` over `FollowUpPing` instead of its abstraction, with liveness of the composition;
   with TLC it needs a symmetric or smaller `FollowUpPing`.
5. A mailbox model without a clock bound for the take-over of leases.
