# HH AI responder: specifications and proofs

TLA+ models of the parts of the HH AI responder that change something at hh.ru
or decide whether it may be changed, their TLC configurations, and TLAPS proofs.
Paths are relative to `src/internal/` unless they start with `src/`.

## 1. The system

The responder is a Go program for one job seeker. It searches vacancies, scores
them against the candidate's knowledge, writes letters and replies with a
language model, and talks to hh.ru through an API or a logged-in browser
session. It runs as a long-lived process with recurring tasks, as a local
dashboard, and as one-shot commands. The three may run at the same time on the
same data directory (or PostgreSQL database).

Nothing at hh.ru is idempotent: a second POST is a second message, or a second
response. There is no transaction between the local stores and hh.ru. Whatever
the program knows about a POST is what it stored before it, what the answer said,
if one came, and what a later read of hh.ru shows. The design answers with three
variants of one protocol: **store an attempt, POST, store the outcome,
reconcile the doubtful ones by reading, and let everything doubtful block.**

### Components

| Component | State | Operations | Correct when | Model |
|---|---|---|---|---|
| Application attempts (`applicationattempt`, `adapters/storage/{json,postgres}/application_attempt.go`) | per attempt: vacancy, state, reconciliation evidence | Reserve, RecordOutcome, FindBlocking, RecordReconciliation | one blocking attempt per vacancy; settled stays settled | `ApplicationAttempts` |
| Attempt executor (`usecase/applicationattempt`) | the attempt at hand | reserve, dispatch, record | an unknown outcome never turns into NOT_SENT | `ApplicationAttempts` |
| Submission and fresh preflight (`usecase/applicationsubmission`, `hhwritepreflight`) | none | Submit | nothing is sent that a fresh read forbids | partly, `Preflight` |
| Application reconciliation (`usecase/applicationreconciliation`) | none | Reconcile, ReconcileVacancy, ConfirmManual | confirms only what hh.ru holds | `ApplicationAttempts` |
| Automatic application run (`runtime/application_processing.go`, `application_dispatch_budget.go`) | budget, dispatch block | gate, prepare, submit, account | no more POSTs than the limit | `ApplicationAttempts` |
| Approved chat actions (`usecase/writeapproval`, `usecase/hhwritegateway`, `runtime/hh_write_gateway*.go`) | action file, draft file, their copies in memory | edit, approve, preflight, send, cancel, reconcile | one POST per approval, of the approved text | `WriteActions` |
| Write audit and limits | events, attempts of the run | append, count | no POST without its event; limits hold | `WriteActions` |
| Chat delivery reconciliation (`usecase/hhwritereconcile`) | none | reconcile | confirmed only if delivered | `WriteActions` |
| Auto-chat attempts (`autochatattempt`, its two stores) | per attempt: trigger, action, state, evidence | as for applications | one write per employer message | `AutoChat` |
| Auto-chat orchestration (`usecase/autochatorchestration`) | listing, handled and ignored triggers | list, read, gate, reserve, write, record | as above; a failed reply is not retried in a loop | `AutoChat` |
| Auto-chat reconciliation (`usecase/autochatreconciliation`) | none | Reconcile | confirms by an answer to that very message | `AutoChat` |
| Read scheduler (`HHRequester` in `runtime/runtime.go`, the transport's limiter in `adapters/hh/read`) | queue, slots, interval, cooldown | acquire, grant, release, cancel, 429 | bounded reads; a queued read is served | `ReadScheduler` |
| Controlled API applications (`runtime/hh_api_application.go`, `hh_api_batch.go`) | approval files with a nonce | export, consume, apply, batch | an approval is used once; a batch stops when in doubt | partly, `ControlledApplications` |
| hh.ru read sync and inbox refresh (`usecase/hhreadsync`, `runtime/hh_sync_performance.go`, `hh_incremental_read.go`) | conversations, applications, vacancies: files and memory; calls and leases | coalesce, lease, list, read, merge, commit | a mirror that only grows, fresh after a read | partly, `InboxSync` |
| Inbox drafts (`runtime/dashboard_sync.go`, `usecase/employerreplyworkflow`) | workers, drafts, clarifications, knowledge | schedule, prepare, decide, commit; request, review, answer | a draft for the latest message, and one only | partly, `InboxDrafts` |
| Process lock (`platform/process_lock.go`) | a lock directory | acquire, take over, release | mutual exclusion | partly, the lease of `InboxSync` |
| Daily agent, career-agent command, workflow store (`runtime/daily_career_agent.go`, `career_workflow_compat.go`, `adapters/storage/{json,postgres}/career_workflow.go`) | runs and their items | invoke, replay, recover, claim, stage, store, finish | a day is performed once; its result is complete and final; no run stays open | partly, `CareerRuns` |
| Schedulers (`platform/scheduler`, `runtime/recurring_scheduler.go`, `daily_scheduler.go`) | timers | loop | a task never overlaps itself | partly, the invocations of `CareerRuns` |
| Career monitor, career iteration, follow-ups | workflow records | choose and prepare work | nothing is prepared twice; no write capability | planned |
| Vacancies, candidate knowledge, letters, analysis, LLM, embeddings | texts and facts | generate, review | quality of text and scores | not modelled |
| HTTP adapters, sessions, storage of the other aggregates, dashboard pages, config, CLI | | I/O, parsing, wiring | | not modelled |

`PROJECT.json` lists each of them with its files and the reason when it is left
out.

### How they interact

```
 recurring run ──gate──> application attempts <──record── reconciliation <── operator
      │ preflight              ▲  reserve / outcome            │ reads
      └────> submission ──> executor ──POST──> hh.ru <─────────┘
 auto-chat iteration ──gate, reserve──> auto-chat attempts <── reconciliation <── operator
      └── history read, POST ──> hh.ru <──────────────────────────┘
 operator ──export──> approval file ──nonce──> apply, batch ──> executor (as above)
 dashboard ──> approval ──> action file ──> write gateway ──audit, POST──> hh.ru
                              ▲                    └── reconciliation reads back
                              └── `hh action preflight`, another process
 dashboard, `hh sync` ──lease──> read hh.ru ──commit──> conversations, applications
                                  │ slots, cooldown         │ shown
                                  └── read limiters         └──> draft worker ──> drafts
 daily scheduler, button, `career-agent` ──claim──> workflow store <──items, end── stages
```

Attempt stores are shared by processes and atomic per operation: a file lock and
an atomic rename, or a database transaction. The action file is not: every
process saves its whole copy. Inside a dashboard one mutex serialises write
requests, and each begins by reloading files that changed
(`runtime/dashboard_server.go:291-323`, `runtime/dashboard_performance.go:73-156`).

### What is hard

* **Interleaving.** A gate is read, then comes a letter from the language model
  and a preflight, then the reservation: another process may have come first.
* **Unknown outcomes.** A timeout says nothing: hh.ru may act later.
* **Crashes.** Only the stores survive. A crash after the POST leaves SENDING.
* **Stale reads.** Reconciliation stores conclusions from an older read.
* **Partial failure.** The POST succeeds, the store that should say so fails.
* **Lost updates.** The action file of two processes.
* **Counters.** Budgets are read long before they are charged.
* **Ordering.** Chat messages are ordered by provider times, which may tie. Reads
  of the same conversation end in any order.
* **Work on a copy.** A draft is written for a copy of the inbox that reads,
  answers and other requests overtake.
* **Taking over.** A run is given up because it is old, or because a command
  starts; its owner may be alive and come back.
* **Waiting.** Reads wait for slots, requests for another's read, a conversation
  for its draft: somebody must wake them.

The 40 hazards in `PROJECT.json` are these, each at its line, with the properties
that cover it or the reason why none does.

## 2. The modules

| Module | Content |
|---|---|
| `AtMostOnce` | what an attempt store promises: claims, and effects only under a claim |
| `OneResponse` | what both ways to apply promise HH: one response per vacancy, blocked before and after |
| `ApplicationAttempts` | applications: store, executor, run, reconciliation, hh.ru, crashes |
| `ApplicationAttemptsProofs` | its theorems |
| `AutoChat` | one conversation: messages, auto-chat iterations, attempts, reconciliation |
| `AutoChatProofs` | its theorems |
| `SingleUse` | what an approval promises the employer: delivered once, after its nonce was used |
| `WriteActions` | approved chat actions: files, memories, gateway, audit, reconciliation |
| `WriteActionsProofs` | its theorems |
| `ControlledApplications` | approval files, the commands that apply them, the attempts they reserve |
| `ControlledApplicationsProofs` | its theorems |
| `ReadScheduler` | the two limiters of reads: queue, slots, scheduler goroutine, 429 |
| `ReadSchedulerProofs` | its theorems |
| `InboxSync` | requests, leases, reads and commits of the local mirror |
| `InboxDrafts` | extends `InboxSync` with the draft worker, drafts and the candidate |
| `InboxProofs` | the theorems of both |
| `CareerRuns` | runs of the daily agent and the career-agent command, and their store |
| `CareerRunsProofs` | its theorems |
| `MC...` | instances for TLC: symmetry sets and the shapes that bound a run |

Every module has its own `Spec` with all of its processes; `InboxDrafts` composes
two components, for a draft depends on what a read commits. The write protocols
are not composed: their stores differ, but for the attempts of applications, which
`ControlledApplications` models again in short. `ApplicationAttempts` and
`AutoChat` are each shown to implement `AtMostOnce`, and `WriteActions` with one
dashboard to implement `SingleUse`. The two differ because the stores do: an
attempt blocks a target until it is settled, an approval is a nonce that is used up.
`OneResponse` is coarser than `AtMostOnce`, without attempts; `ApplicationAttempts`
implements it by way of `AtMostOnce`; `ControlledApplications`, whose attempts have
no identity, implements it directly.

Definitions whose comment begins with "Mutant" are single plausible mistakes. No
specification uses them; each makes one property fail when it takes the place of
the definition it imitates, which shows that the property depends on the code.

### ApplicationAttempts

`state`, `target` and `evidence` are the store. `flight` and `manual` are hh.ru:
what became of each POST, and the vacancies the candidate applied to by hand.
`pc`, `run` and `job` are a process: its position, the budget and visited
vacancies of its run, and the vacancy and attempt it works on. `crashes` counts.

* *Run.* `StartRun`, then per vacancy one of `PassOver` (any reason not to
  apply), `GateUnresolved` (a blocking attempt is found and reconciled) or
  `GateClear`, at the end `FinishRun`. `Preflight` goes on or stops. `Account`
  charges the budget and may halt the run.
* *Submit.* `Reserve`, `ReserveBlocked` (another process came first),
  `ReserveFails`; `Dispatch` or `DispatchNotSent`; `Answer`, which may be any
  answer that fits what hh.ru has done by then (`AnswersTo`); `RecordOutcome` or
  `RecordOutcomeFails`, which leaves SENDING.
* *Reconcile.* `ReconcileStart` reads the record, `ReadEvidence` reads hh.ru,
  `RecordReconciliation` stores what was concluded: three steps, between which
  other processes run. `ConfirmManual` is the operator's variant.
* *hh.ru.* `ProviderAccepts` and `ProviderRefuses` act on a POST at any time
  after it was sent, also when its sender is gone. A second response to a vacancy
  is a duplicate. `CandidateApplies` is the candidate. `Crash` keeps the store.

Letters, tests and scores are not modelled: they decide which vacancies are
passed over. `ReconcileBounded` is `Reconcile` repeated.

### WriteActions

`disk` is the action file and the draft file, `mem` what each process holds of
them, `changed` the files written since its last refresh; `audit` is the durable
count of `send_started` events and `attempts` the writes since a process started;
`wire` is hh.ru, per action; `pc`, `job` and `crashes` as above.

`Operate` is what an operator does: `EditDraft`, `ApproveDraft`,
`InvalidateConversationApprovals`, `Cancel`, `ReconcileDelivery`. `Send` is the
gateway: `SendStart` (checks and fresh reads), `Reserve` (the nonce is used
before anything is sent), `AuditSend`, `Dispatch` or `DispatchNotSent`, `Answer`,
`RecordAnswer`, `Project`. `Confirm` is the read after a POST. `PreflightStart`
and `PreflightEnd` also run in the CLI. Any save may fail (`Keep` keeps the old
file), any process may `Restart` between two steps.

Drafts all answer one employer message of one conversation, with one purpose.
A refusal of the preflight for other reasons than the text is one
nondeterministic refusal. There is one UTC day. The nonce test is part of
`Sendable`. Dry runs, the paths of `invoke` (used by the automatic runs), the
rejection of drafts and follow-ups are left out.

### AutoChat

One conversation. `record` is the store; `flight` and `history` are hh.ru;
`ignored` is the memory of suppressed triggers; `run` is the listing and the
triggers it handled; `mine` records what a process has reserved since it
started and is read by a property only; `pc`, `job`, `crashes` as above.

`Iterate` is `ListChat` (pages overlap: a chat may be listed twice), `TakeChat`,
`PassOver`, `ClearToLeave` (a rejection is left on the listing alone),
`ReadHistory`, `ClearToReply`. `Write` is `Reserve`, `Dispatch`, `Answer`,
`RecordOutcome` or `RecordOutcomeFails`, and `Ignore` after a failed reply.
`Reconcile` is `ReconcileStart`, `ReadAndClassify`, `RecordReconciliation` or
`ReconcileFails`. `Speak` is the employer, hh.ru or the candidate.

Messages carry provider times. A gap of zero lets times tie, and classification
compares times only, as in the code. In production only leaves are executed
(`usecase/autochatorchestration/types.go:146-148`); replies are opt-in, hence the
constant `AllowAutomaticReplies`, which the runs set. No code path produces
TARGET_LEAVE_CONFIRMED. Weak evidence kinds are one value. Review and dry-run
modes write nothing.

### ControlledApplications

`file` and `lock` are the approval files and their lock files, `attempt` the
newest attempt of each vacancy, `post` and `posts` hh.ru. A command has `pc`, the
paths of its `batch`, the `item` it works on and what it `sent`.

`Export` writes an artifact into any file, as often as the operator likes.
`Start` validates a batch (a single apply is a batch of one), then each item goes
through `Prepare` (load, validate, fresh preflight), the nonce in four steps
(`LockNonce`, `CheckNonce`, `WriteNonce`, `UnlockNonce`), `Reserve`, `Post` or
`Refuse`, `Answer`, `RecordOutcome` and `Reconcile`. `NextItem` goes on only if
`Settled`. The lock file of a command that died stays. The attempt store is the
one of `ApplicationAttempts`, shortened to one atomic record per vacancy. What an
approval is bound to (letter, hashes, age, dry run) is a choice of `Prepare`.

### ReadScheduler

The two limiters of reads share one shape: a mutex, a queue, a scheduler
goroutine with a wake channel of capacity one. `limiter` says which of them it
is. Every section under the mutex is one action; `Tick` passes time. The queue is
the set of its reads (`queue`) and the order in which they came (`before`), which
is all the code asks of its slice. Whoever of them `GoesFirst` among all others is
`Best`, and `Grant` takes it out; the cancelled ones leave in the same pass (`Keep`).
The requester puts a 429 into a cooldown shared by all (`TooManyRequests`,
`CoolDown`: the slot is free before the cooldown is set), the transport lets the
read wait on its own (`BackOff`). `Abandon` may be chosen although the slot was
granted, as `select` may.

### InboxSync and InboxDrafts

`hh` is hh.ru, `disk` the conversation file and the application file, `mem` what
each process has loaded. `calls` are the reads in progress of a process, `lease`
the lock directories, `caller` the requests.

A request either leads a read (`Lead`, `AcquireLease`, or the takeover in three
steps `SeeStale`, `RemoveStale`, `RemakeLease`), or joins one (`Join`). `Begin`
copies what an inbox read knows; `List` skips an unchanged conversation;
`ReadDetail` reads its history. `SaveConversation` and `SaveApplication` are two
steps of one commit: the files are loaded, merged and saved one after the other,
and only then does the process show them. Any of it may fail or be cancelled.

`ShowInbox` and `ShowOverview` start the `worker` on a copy of the conversation.
`Prepare` looks whether the copy is still current, `Decide` is the language model
without any lock, `CommitDecision` looks again. `RequestDraft` does all of it
under the lock of the dashboard. `ReviewDraft` and `Answer` are the candidate.

One conversation with one matching application; a history is the number of its
messages, so two versions of it compare. Time is abstracted: a detail may be old
enough to be read again or not, and only a dead process leaves a lease to grow
stale, for reads end within the half hour. The JSON stores are modelled, not the
PostgreSQL commit. Drafts are written by the dashboard only: `hh draft`, a
process of its own, saves its whole file and may undo that, and so may the
conversation file a gateway saves after a send (`runtime/hh_write_gateway.go:1225`);
both belong to the lost updates of whole-file saves (section 3). The limit on
asynchronous targets and the mutex of draft workers do not matter for one
conversation.

### CareerRuns

`record` and `items` are the workflow store, `clock` the day and its hour. A worker is a process with a daily agent
(`Services`: the dashboard with its scheduler and its button, or the `daily`
command) or one `career-agent` command. `pc` and `job` are the worker: its run,
the time it was invoked with and what its stages came to.

`Invoke` reads today's run: `Replay` answers with it, `Inspect` goes on when it is
missing or stale. `RecoverInterruptedRuns` gives up what is stale, or everything
that is open: so does every command, and a service that finds its own run stale.
`AcquireRun` claims the run unless it exists (`NotAcquired`). Then `RunStage` for
each stage, `UpsertRunItem` for each of its items, and `Finish`; after `UpsertFails`,
`FailRun`. Both end in `FinishRun`, which leaves a run that was given up alone. `StoreFails` ends
any step that uses the store, also because the request was cancelled; `Crash` ends
a worker anywhere.

A stage is its outcome (fine, errors in the summary, or an error returned) and, apart
from it, the statuses of its items, FAILED or any other: nothing ties the two, as a
vacancy whose details cannot be fetched is a FAILED item and no error of the summary
(section 5). Only an error that a stage of a daily run returns adds an item. The items
are stored one by one, each under its target, which is its place in the stage; that two
items of a run never have one target is taken over from the lists they are made of. The
time of an end and the attention queue are left out, as are preparations, which share
the file. The running flag of a service is its `pc`. An interrupted run is a failed one
with that error code in both stores.

The JSON and the PostgreSQL store make the same changes under the same conditions, with
one exception: PostgreSQL refuses an item whose id another run has used (section 5).
`UpsertFails` may happen at any item, hence also there.

## 3. The runs

| Run | Instance | Properties |
|---|---|---|
| `attempts_safety` | 2 processes with 1 vacancy, or 1 with 2; 2 attempts, 2 negotiations, limit 1, 1 crash | `OneBlockingAttempt`, `ExposedIsBlocking`, `AtMostOneExposed`, `PositiveIsTrue`, `DispatchBudget`, `SettledIsFinal`, `ImplementsAtMostOnce` |
| `attempts_liveness` | 1 process, 1 vacancy, 2 attempts, identities, 1 crash, fair | `DeliveryIsLearnt` |
| `attempts_conversation` | 2 conversations | `ConversationIsFinal` is violated |
| `writes_safety` | 1 dashboard, 2 competing drafts with an edit, 2 approvals, 1 crash | `TypeOK`, `OneDispatch`, `OneActiveApproval`, `ConfirmedIsDelivered`, `SendsCurrentText`, `WithdrawnIsNotSent` |
| `writes_audit` | 1 dashboard and 1 CLI, an edit, 1 crash, daily limit 2 | `EveryPostAudited`, `DailyLimit` |
| `writes_history` | 1 dashboard, an edit | `TransportHistoryKept` is violated |
| `autochat_safety` | 2 attempts, 3 messages, and one of: 2 processes, tied times, a listing of 2, a crash | `TypeOK`, `ConfirmedIsAnswered`, `OneTryPerLife`, `SettledIsFinal`, `ImplementsAtMostOnce` |
| `autochat_evidence` | 2 processes, 1 attempt, tied times | `NoWeakerFallback` is violated |
| `reads` | both limiters, 3 reads (one urgent), 2 slots, a retry, 1 cancellation, fair | `TypeOK`, `SlotsCoverReads`, `NoLostWakeup`, `QueuedReadIsServed` |
| `controlled` | 2 commands, 2 files, 3 artifacts of 2 vacancies, batches of 2, 1 crash | `OnePostPerExport`, `OneExposure`, `SettledBeforeNext` |
| `inbox` | 2 dashboard requests, 1 command, 3 targets, 2 messages, 2 imports, an answer, 1 crash, fair | `OneReader`, `ReadIsFresh`, `ShowsDurable`, `OneDraftPerInput`, `MirrorOnlyGrows`, `StaleIsDiscarded`, `CallerReturns`, `LatestIsDrafted` |
| `career` | 2 services, or 1 and 1 command; 2 days of 2 hours, 2 stages of up to 2 items, any crashes, fair | `OneOwner`, `ResultIsComplete`, `FinishedIsFinal`, `RunsEnd` |

The type invariants of `ApplicationAttempts`, `ControlledApplications`, the inbox
and `CareerRuns` are proved (section 4) and not part of a run.

**Bounds.** `MaxCrashes`, `MaxTexts`, `MaxMessages`, `MaxListed` and the finite
sets of ids bound the state spaces (between two thousand and one and a half
million distinct states; 163 for the fixed history of `writes_history`). They are
enough for what each run asks. A conflict needs two of something: two processes
or a process and its predecessor before a crash, two attempts for one vacancy or
message, two drafts, two identities. Another vacancy, conversation or trigger
shares no record with the first, except for the budget, which has one vacancy
more than its limit, and a batch, which has two. Three messages are an employer message, an answer
and a message after, before or at the same time as either. One crash at every
step is explored; a second meets the same stores, as a restarted process
remembers nothing. In `career`, where nothing counts crashes, any number is
explored; two days are enough for the second to find what the first left, and a
stale window of one hour, the code's six, lets a run be given up on its own day.
The proofs of section 4 remove these bounds where they exist.

**Shapes.** Five `MC` modules cut the product of independent dimensions: a state is
explored if it fits one of a few shapes (`Bounded`). In `MCApplicationAttempts`,
one vacancy with all processes, or all vacancies with one process. In
`MCAutoChat`, several processes, or one process with tied times, with a listing
of two entries, or with a crash. In `MCControlledApplications`, every artifact exported
once, or two of them, one twice, without a crash. In `MCInbox`, requests that meet
and no drafting; drafting beside one inbox request; drafting alone with failed
saves and a crash. In `MCCareerRuns`, the second service or the command, which
starts in the first hour and is fine with a FAILED item or fails without one; a day is
one of three (`ModelDays`): fine with a FAILED item; with errors that belong to no item
and a stage that fails; failed twice. Every verdict is reached, by stages with no item,
one and two. What a shape leaves out is the sum of two dimensions, such as
a tied time in a crash of two processes. The last shape but one has messages,
reads and answers overtake the worker, the first has reads of two processes
overtake each other; that two readers of one target meet after a takeover is
explored for a conversation without messages, where it differs from two readers
of different targets in nothing but the lease.

**Deadlock** is checked, except in three kinds of runs where the bound ends all
work: a conversation of `AutoChat` that has reached `MaxMessages` or in which the
candidate wrote last, `controlled` after `MaxRuns` commands, `inbox` after
`MaxImports` imports.

**Symmetry** is used for safety properties only, never in the liveness run.

**Limits of what the runs say.** `OneDispatch`, `WithdrawnIsNotSent` and
`SendsCurrentText` are promised for one dashboard; with a CLI or a second dashboard
beside it they do not hold: every process saves its whole slice of actions (`runtime/hh_write_gateway.go:199-216`),
so a CLI preflight begun before a send restores the consumed approval, and a POST
may begin when its own approval has vanished from the file.
`src/README.md:957-958` asks operators not to run such a process beside the dashboard;
nothing enforces it. `EveryPostAudited` and `DailyLimit` hold even then, and
the run reaches a second POST of the same approval, so neither is vacuous.
`OneActiveApproval` and `ConfirmedIsDelivered` hold for any processes too, which
the proofs show. Two dashboards may pass the daily limit together, by one POST and
no more: `DayOverrunAlways` bounds it for any number of them. `DispatchBudget`
counts the POSTs of one run, not those of all runs.

### Fairness

Four runs assume some. In `attempts_liveness` (`FairSpec`): weak fairness of a process's
own steps: a goroutine that can go on does, as every remote call and every
language-model call has a timeout. Strong fairness of `StartRun`: the recurring
scheduler starts a run after each interval
(`platform/scheduler/scheduler.go`, `runtime/recurring_scheduler.go`), also after
a restart. The other strong conditions say what the environment must grant and
the code cannot: a run meets the vacancy of the attempt again (`GateUnresolved`)
and its reconciliation is not always overtaken (`ReconcileStart`); hh.ru's
listings show a response they hold sooner or later (`ReadEvidence` with a
positive result); the store is not unavailable each time (`RecordReconciliation`).
There is no fairness for crashes, for hh.ru's acceptance of a POST, for the
candidate or for operators. With more than one vacancy in play the condition on
`GateUnresolved` would have to be stated per vacancy; the run has one.

In `reads`: weak fairness of the scheduler goroutine, of time and of what a read
does once it has begun, since every request has a timeout. Nobody owes a new
request or a cancellation. A lower priority may starve, by design, so
`QueuedReadIsServed` speaks of the highest.

In `inbox` (`Fairness` of `InboxDrafts`): weak fairness of the dashboard's requests, whose
reads have timeouts and whose stores answer or fail; none for a command, which
may be stopped anywhere with its lease. Weak fairness of `ShowInbox`, which the
background refresh repeats, and of the worker's steps. Strong fairness of
`Decide("draft")`: a model that is asked again and again drafts at last; that is
owed by the environment, as a model that always fails leaves the message to the
candidate. The liveness properties of `MCInbox` speak of the behaviours within
its shapes: nothing is claimed of one that would have to leave them.

In `career` (`FairSpec`): time passes; one service, the one with the scheduler, is
invoked again and again (`runtime/daily_scheduler.go`, `platform/scheduler/scheduler.go`),
and its steps are taken, as its stages have timeouts. Strong fairness of `Inspect`,
`RecoverInterruptedRuns` and `AcquireRun`: the store does not fail, and the process
does not die, every time. No fairness for the other service and the command. In
`MCFairSpec` the fair service is the one no shape restrains.

## 4. The proofs

`ApplicationAttemptsProofs` proves, for any sets of processes, vacancies,
attempts and identities, any limit and any number of crashes:

| Theorem | Statement |
|---|---|
| `TypeCorrect` | `Spec => []TypeOK` |
| `OneBlockingAttemptAlways`, `ExposedIsBlockingAlways`, `AtMostOneExposedAlways`, `PositiveIsTrueAlways` | the four safety invariants |
| `SettledIsFinalAlways` | `Spec => SettledIsFinal` |
| `Refinement` | `Spec => ImplementsAtMostOnce` |
| `OneResponsePerVacancy` | `Spec => Promise!Spec`, with `Promise` the module `OneResponse` |
| `DispatchBudgetAlways` | `Spec => []DispatchBudget` |

The assumptions are those `ApplicationAttempts` states for its constants: bounds
are natural numbers and `None` is none of the ids.

**The argument.** None of the invariants is inductive. That a vacancy has one
blocking attempt does not stop a process from recording NOT_SENT for an attempt
that is delivered; one needs to know what the process holds. `IInv` adds, to the
types and to the three store invariants:

* `RecordsAreWhole`: an id without a record was never posted, and a record has a
  vacancy. So a fresh reservation starts with an unexposed attempt.
* `JobIsReal`: a process works on a record that exists, for its vacancy.
* `OneHolder`: two processes never execute one attempt, because `Reserve` takes
  an unused id; so a process's conclusion is not undone by another executor.
* `HeldIsPending`: the attempt being executed is SENDING, or was confirmed by a
  reconciliation that overtook its process; a held attempt not yet dispatched is
  not exposed.
* `AnswerIsTrue`: the outcome a process is about to store is true of hh.ru and
  stays so. This is where "a timeout is not NOT_SENT" matters: a released
  attempt can no longer arrive.
* `SeenIsTrue`: so is positive evidence, read earlier and stored later, because
  responses at hh.ru do not go away.
* `DuplicateIsTrue`: a POST that found a response proves that there is one.

A step changes one process and at most one record. `OthersStaySafe` shows once
that a step which leaves a process alone and only moves the store and hh.ru
forward (`WorldGrows`) keeps what the process relies on; the lemmas
`...AreSafe` then treat each action's own process. `AtMostOneExposed` follows
from `ExposedIsBlocking` and `OneBlockingAttempt`. `SettledIsFinal` needs
`HeldIsPending`: a late outcome meets a record that is SENDING or confirmed.
`Refinement` maps claims to blocking attempts, `used` to records and effects to
deliveries; every action is shown to be a `Claim`, a `Release`, an `Effect` or a
stutter, and `ExposedIsBlocking` is the guard of `Release`. Every step of
`AtMostOnce` is in turn one of `OneResponse`, as a delivered response belongs to an
attempt that claims its vacancy. `DispatchBudget`
needs an invariant that relates the POSTs sent to those charged and the one not
yet charged, since the charge comes last.

`ControlledApplicationsProofs` proves, for any commands, files, artifacts and
batch length:

| Theorem | Statement |
|---|---|
| `TypeCorrect` | `Spec => []TypeOK` |
| `NonceIsSpentOnce` | `Spec => []OnePostPerExport` |
| `NeverExposedTwice` | `Spec => OneExposure` |
| `BatchesSettle` | `Spec => []SettledBeforeNext` |
| `Refinement` | `Spec => Promise!Spec`, with `Promise` the module `OneResponse` |

Beyond the assumptions on bounds and on `None`, `NonceIsSpentOnce` needs
`FiniteAssumption`: there are finitely many commands and files, because it counts
them.

**The arguments.** `OneExposure` is about the step that sends: HH then has no
exposed POST of the vacancy, neither of another artifact nor an earlier one of the
same artifact exported again, which `post` would forget. It rests on `Exposure`: an exposed POST has a
blocking attempt; a command between its reservation and its last record is the
only one for its vacancy (`OneHolder`), its attempt is SENDING or at least blocks
(`HolderIsReserved`), and nothing of its vacancy is exposed but its own POST
(`HolderExposes`). The same facts make every step one of `OneResponse`: a vacancy with
a response has a blocking attempt, before and after each step, and a POST never
overwrites a response. A reservation is possible only when the newest attempt does
not block, hence when nothing is exposed and nobody holds the vacancy.
`SettledBeforeNext` rests on `SettledSoFar`, which follows a command through one
item of its batch, and on `ConfirmedStays`: a confirmed vacancy is no holder's, so
no step withdraws a confirmation. `OnePostPerExport` is a budget: the POSTs of a
nonce, the commands about to spend it and the files that can still be spent never
exceed the exports. The check of a file under its lock moves the file's worth to
the command (`CheckWithin`); if the command dies or fails before it has marked
the file, the worth goes back (`UnmarkedWithin`). Without the lock two commands
would take the worth of one file, which is why `Locked` is part of the invariant.

`AutoChatProofs` proves, for any processes, attempts, messages, listings, times and
crashes:

| Theorem | Statement |
|---|---|
| `TypeCorrect` | `Spec => []TypeOK` |
| `SettledIsFinalAlways` | `Spec => SettledIsFinal` |
| `Refinement` | `Spec => ImplementsAtMostOnce` |
| `ConfirmedIsAnsweredAlways`, `OneTryPerLifeAlways` | `ConfirmedIsAnswered`, `OneTryPerLife` |

The refinement again needs what a process holds: between reservation and record
its attempt is its own (`OwnedApart`, `HeldIsPending`), and only an operator's
reconciliation may touch it meanwhile, which confirms and never releases.
`ConfirmedIsAnswered` rests on messages being sorted by time (`Sorted`): whatever
follows the trigger at a later time really comes after it, and an answer that has
been read stays one when more messages arrive (`AnswersStay`), hence evidence
gathered before a delay is still true when it is recorded. `OneTryPerLife` is not
inductive because a failed reply becomes free again. What keeps it from being
tried twice is that every trigger a process ignores is either handled in the
current iteration or older than everything it has listed (`ListedIsNew`), for a
later listing names the last message and skips the ignored ones.

`InboxProofs` proves, for any requests, targets and bounds:

| Theorem | Statement |
|---|---|
| `TypeCorrect` | `Spec => []TypeOK` |
| `ReadsAreFresh`, `ShownIsDurable`, `OneReaderAlways`, `OneDraftAlways` | `ReadIsFresh`, `ShowsDurable`, `OneReader`, `OneDraftPerInput` |
| `MirrorGrows`, `StaleNeverKept` | `Spec => MirrorOnlyGrows`, `Spec => StaleIsDiscarded` |

`SyncInv` adds, to types and `ShowsDurable`, what a request has in hand at each
step (`RequestOK`): it asked for no more than hh.ru had; what it knows of the
store is in the store; what it is about to commit, or has skipped as unchanged, is
no older than its question. It survives every step of another request because
hh.ru and the store only grow (`Grows`). `LeaseIsOwn` is only claimed while no
process has died, and that is all the code gives: after a takeover the holder of
a lease may lose it to another thief (the hazards of `process_lock.go`).

`WriteActionsProofs` proves, for any dashboards and commands side by side, any
drafts, approvals, texts, limits and any number of crashes:

| Theorem | Statement |
|---|---|
| `TypeCorrect` | `Spec => []TypeOK` |
| `OneActiveApprovalAlways`, `ConfirmedIsDeliveredAlways`, `EveryPostAuditedAlways` | the three invariants |
| `WithinRunAlways` | a dashboard tries at most `MaxWritesPerRun` transports between two starts |
| `DayOverrunAlways` | the POSTs of a day stay below `MaxWritesPerDay` plus the number of dashboards |

`DayOverrunAlways` assumes finitely many dashboards, for it counts them.
`DailyLimitAlways` is its case of one dashboard, beside any commands: `[]DailyLimit`.
For one dashboard and no command (`OneDashboard`):

| Theorem | Statement |
|---|---|
| `OneDispatchAlways`, `WithdrawnIsNotSentAlways`, `SendsCurrentTextAlways` | `[]OneDispatch`, `WithdrawnIsNotSent`, `SendsCurrentText` |
| `DeliveredOnceAlways` | a message arrives once at most, and not before the file says that its nonce was used |
| `Refinement` | `Spec => Promise!Spec`, with `Promise` the module `SingleUse` |

`OneDashboard` is what `src/README.md:957-958` asks for and the second half of
section 3 shows to be necessary. The dashboard may still die and restart between
any two steps, and any of its saves may fail.

**The arguments.** No process knows what another has saved, so an invariant of the
file alone is not inductive. `CopiesSound` says of the file and of every memory,
each by itself: at most one active approval, and nothing called confirmed that is
not at hh.ru. A save replaces one sound copy by another, whoever saves, and every
request starts from a copy and makes at most one step on one action (`Advances`,
`Approves`). A stale copy may bring back an old approval, but never a second
one. `AllAnnounced` counts, per action, the POSTs together with the processes that
have announced one and not sent it yet; they never exceed the events. The daily
limit is read before the preflight and used after it: `WithinDay` counts the
dashboards that passed the check and may still write (`Pending`), and the events
with them stay below the limit plus the number of dashboards; `Allowed` says that
whoever reserved had room.
With one dashboard `SentOnce` adds what relates memory, file and hh.ru: memory is
the file or ahead of it by steps that never bring an action back to life
(`FollowsFile`, `Moves`); between the reservation and the POST the file says
SENDING with the nonce used and the text current (`InTransit`), as the reservation
is saved before anything is sent; what was posted is used in the file
(`SentIsUsed`). A failed save leaves memory ahead, a crash or a reload throws memory
away: neither can unuse a nonce in the file. `Refinement` maps `used` to the nonces
used in the file and `delivered` to what hh.ru holds.

`ReadSchedulerProofs` proves, for any finite or infinite set of reads with any
priorities, up to eight slots, any interval, retries, delays and cancellations:

| Theorem | Statement |
|---|---|
| `TypeCorrect` | `Spec => []TypeOK` |
| `SlotsCoverReadsAlways`, `NoLostWakeupAlways` | `SlotsCoverReads`, `NoLostWakeup` |
| `LostSlotsAlways` | slots without a read are no more than contexts were cancelled |
| `TimerIsDeadlineAlways` | while nobody has woken the scheduler, its timer is what is left of interval and cooldown |
| `OneIsNextAlways` | whenever reads wait, exactly one of them is next |

`Inv` adds to the types where a queued and a granted read may be (`Places`): a read
is granted once, for it has left the queue, and an abandoned waiter is never granted.
Each step of a read takes, returns or loses one slot or none, and so moves `Counted`
and `active` together (`Covered`); only a read whose context is cancelled loses one
(`Accounted`), which bounds the leak of section 5 by the cancellations.
`TimerIsDeadline` needs the token that `CoolDown` leaves when it prolongs the
cooldown. `OneIsNext` is what makes `Grant` a function of the queue; its proof finds
the least element of a finite linear order (`LeastElement`).

`CareerRunsProofs` proves, for any services, commands, number of stages, length of
a day and stale window, and however often workers die:

| Theorem | Statement |
|---|---|
| `TypeCorrect` | `Spec => []TypeOK` |
| `OneOwnerOfRun`, `CompleteResults` | `OneOwner`, `ResultIsComplete` |
| `FinalRecords` | `Spec => FinishedIsFinal` |

`RecordSteps` says once how the record of a run can change: given up, claimed or
finished. A run that is performed has not ended except by being given up
(`OwnedIsOpen`), so it cannot be claimed again beside its owner, and only its owner
finishes it: `OneOwner`. What is stored of it is what its stages came to, but for
the items of the last stage that are due or were refused (`StoredItems`, over
`ItemsSoFar`; `StageMore` and `ItemMore` say what a stage and an item add). `Finish`
comes when none is due (`AllStored`), hence `ResultIsComplete`, whatever the outcomes
and the statuses are; a failed or interrupted run has no result at all (`NoResultYet`).
The three need each other: without `OneOwner` the items of one day could be another
owner's.

**Model-checked only.** `DeliveryIsLearnt`, `CallerReturns`, `LatestIsDrafted`,
`QueuedReadIsServed` and `RunsEnd`: liveness under fairness and ENABLED are beyond
the prover. Every invariant and every action property that a run passes is a theorem.
No module declares a recursive operator.

## 5. Findings

1. *`attempts_conversation`.* `WithReconciliation` refuses a second conversation
   for a confirmed attempt (`applicationattempt/model.go:204`), but evidence that
   replaces the old one inherits only the application and negotiation identities
   (`:206-222`). A confirmation without a conversation forgets the known one, and
   the next may bring another.
2. *`writes_history`.* "Terminal transport states retain their history"
   (`usecase/writeapproval/service.go:169-170`), but `InvalidateDraft` spares SENT
   and CANCELLED only. Editing the draft of an action whose delivery is uncertain
   or confirmed makes the action STALE, and its reconciliation impossible.
3. *`autochat_evidence`.* The R14.5B design says a different message id "does not
   fall back to weaker evidence". The classifier knows only the id it read before
   the history, and `WithReconciliation` (`autochatattempt/model.go:148`) checks
   identities of exact evidence only. A reply answered in between is confirmed by
   another message.

Two suspicions are settled by the models without being findings. A read that is
granted its slot while its context is cancelled may leave without returning it
(`runtime/runtime.go:1441-1452`): `ReadScheduler` has that step, `active` then
counts a slot nobody uses, and as often as there are slots it would stop all
reads. `reads` allows one such loss with two slots and shows that the others are
still served; with two losses TLC finds `QueuedReadIsServed` violated. No document
promises more. A 429 sets the shared cooldown only after its slot was
released (`runtime/hh_read_performance.go:148-162`), so one more read may start;
no property is stated about that either.

A third is left as a hazard: "A failed later commit is reconciled on the next
sync" (`runtime/hh_sync_performance.go:263`) does not hold for the next inbox
refresh, which finds the conversation saved and unchanged and skips its import
until the detail is fifteen minutes old.

A fourth follows from `CareerRuns`. "Stale interrupted runs are recovered only after
the bounded stale window" (`src/docs/OPERATIONAL_CAREER_AGENT.md:30`), but a
`career-agent` command recovers everything that runs when it starts
(`runtime/career_workflow_compat.go:45`), also a daily run at work in another process,
whose result is then refused. What the models show is that nothing worse happens:
nobody performs the day a second time and nothing recorded is replaced.

A fifth and a sixth are about its items. The document calls a run PARTIAL_SUCCESS when
"at least one stage or item failed" (`src/docs/OPERATIONAL_CAREER_AGENT.md:37`). A failed
detail fetch counts in `DetailFailed` only (`runtime/application_processing.go:244-252`)
and its item is stored as FAILED (`runtime/career_workflow_compat.go:98-100`), but only
`Summary.Errors` becomes a failure of the stage (`runtime/daily_career_agent_adapters.go:37`),
so the day ends as completed, SUCCESS (`runtime/daily_career_agent.go:147-149`). `CareerRuns`
has these days, `Verdict` asks no item and the first of `ModelDays` is one of them. No
property forbids it: `ResultIsComplete` says that the result and the stored items agree,
not that a completed day is free of FAILED items, which is false.

In PostgreSQL the id of an item is the primary key
(`runtime/migrations/000015_career_workflow.up.sql:17`), while its upsert expects a
conflict of run and target only (`adapters/storage/postgres/career_workflow.go:182`). The
ids `communication-item-<id>` (`runtime/daily_career_agent_adapters.go:97,117`) and
`daily-stage-<stage>` (`careeragent/daily.go:194`) do not name the run. An item of the same
conversation or work item, or a second failure of a stage, is therefore refused on a
later day, which ends as failed; in the JSON store, which looks for the run and the
target, it is not. The models show what such a day keeps: the items stored before, and no result.

## 6. The plan

In order of what matters most at hh.ru.

1. `AtMostOnce`, `OneResponse`, `ApplicationAttempts`: done and proved.
2. `SingleUse`, `WriteActions`: modelled, checked and proved.
3. `AutoChat`: modelled, checked and proved.
4. `ControlledApplications`: modelled, checked and proved.
5. `ReadScheduler`: modelled, checked and proved.
6. `InboxSync`, `InboxDrafts`: modelled and checked, their safety proved. To model: several conversations, vacancies
   and their analysis outside the locks, the sync state, the PostgreSQL commit.
7. `CareerRuns`: modelled, checked and proved. To model: preparations and the
   approvals bound to them, career iteration and follow-ups as workflows over the
   stores above.
8. Submission: the comparisons of the fresh preflight as guards of `Preflight`.

### Not modelled

Text generation, scoring, candidate knowledge, parsing, sessions and user
interface are not planned. Their results enter the models as nondeterministic
choices. The file locks of the stores are taken as given: each save of a file is
one atomic step, and a live process is assumed not to hold one longer than its
stale threshold. `hh draft`, the rejection of follow-ups, `invoke` of the write
gateway and the PostgreSQL variants of the whole-file stores are left out of
modules that otherwise cover their component.

## 7. Running

```
tlc -workers 2 -config AttemptsSafety.cfg MCApplicationAttempts.tla
tlapm ApplicationAttemptsProofs.tla
tlapm AutoChatProofs.tla
tlapm ControlledApplicationsProofs.tla
tlapm InboxProofs.tla
tlapm CareerRunsProofs.tla
tlapm WriteActionsProofs.tla
tlapm ReadSchedulerProofs.tla
```

Each run names its module and configuration in `PROJECT.json`, which also maps
every definition to the lines it models.
