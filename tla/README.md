# aiinbox: TLA+ models, model checking and proofs

aiinbox is one Python process: a Telegram bot (and an optional HTTP API) that
saves what a user sends as *Items*, extracts and analyses them in background
workers, and answers and reminds through Telegram. All durable state is one
SQLite database; everything else is lost when the process ends. This directory
holds TLA+ models of the parts of it in which order, failure and restart matter,
what TLC checks about them, and what TLAPS proves about them for every size.

Source paths below are relative to the repository root.

## Running it

    tlasany M.tla                                        parse a module
    tlc -workers 2 -config MCOutbox.cfg MCOutbox.tla     one run
    tlapm OutboxProofs.tla                               the proofs of one component

The modules with proofs are `OutboxProofs`, `ItemPipelineProofs`,
`EvidenceProofs`, `RemindersProofs`, `RequestsProofs`, `ExportJobsProofs`,
`CaptureProofs` and `InboundProofs`.

`PROJECT.json` lists components, runs, the mutants that show each property can
fail, the source lines of each definition, findings, hazards and theorems.

## The system

| Part | State it keeps | Operations | Talks to |
|---|---|---|---|
| Ingestion `app/services/ingestion.py` | `users`, `items`, `item_sources`, `contents` | save a message, an external text, a file, with its child sources | bot handlers, HTTP API; the queue is the `items` table itself |
| Processing worker `app/workers/processing.py` | `items.processing_status`, one Item id in memory per worker | claim oldest QUEUED, run with a deadline, mark failed, requeue at startup | the pipeline; the outbox (intent in the same commit) |
| Pipeline `app/services/processing.py`, `analysis.py`, `instagram_posts.py` | `items.processing_stage` and analysis fields, `item_sources.extraction_status`, `contents` checkpoints | extract, analyse, classify, publish, each with its own commit | extractors and LLM (external calls), the outbox |
| Evidence `llm/openai.py`, `instagram_posts.py`, `analysis.py` | segment, part and chunk rows in `contents`; the post's progress record in `metadata_json` | hear a recording segment by segment, read a post element by element, summarise a long text chunk by chunk, each checkpointed | providers; the pipeline |
| Item actions `app/services/actions.py` | `items.user_status`, processing status on Retry | done, archive, snooze, delete, retry, interest | called by bot callbacks and HTTP; cancels notices in the outbox, reminders |
| Telegram outbox `app/services/delivery.py` | `deliveries` | enqueue, claim, send, settle, cancel, requeue at startup | Telegram; reads Items before it sends |
| Reminders `app/services/notifications.py` | `reminders`, attention settings of users | digest, snooze, motivation and proactive claims with leases and generations, daily budget | Telegram, Items, feedback |
| Reminder feedback `reminder_feedback.py` | `events`, receipts | callbacks on a reminder count once | bot callbacks, rankings |
| Feedback `feedback.py` | analysis fields of Items, `events`, receipts | rating, category and type corrections | bot callbacks |
| Profile, Ask, Export `profile.py`, `ask_inbox.py`, `export.py`, `app/workers/*.py` | one job table each, `users.profile_json`, archive files | admit, claim oldest PENDING, work, finish with an outbox intent, requeue at startup, artifact cleanup | LLM, outbox |
| Notification settings `notifications.py` | `users.settings_json` | validate and patch one or several keys | bot prompts and toggles, HTTP, the scheduler |
| Telegram updates `app/main.py`, `app/bot/*` | the poll offset at Telegram, FSM state in memory | deliver, repeat, route a text to a prompt, a command or ingestion | every service |
| HTTP API `app/api/app.py` | none of its own | authorise, read the idempotency key, call a service | extension and other clients |
| Browser extension `clients/browser-extension` | a queue, configuration and recent captures in extension storage; an alarm | capture, send with retries, poll, connect, disconnect | HTTP API |
| Supervision `app/main.py` | the task list | startup recovery, critical-task exit ends the process, bounded drain on shutdown | every worker |
| Rankings `behaviour_ranking.py`, `attention_ranking.py`, `domain/priority.py` | none of their own | scoring formulas | reminders, pipeline |
| Bot presentation, URL safety, media subprocesses | none of their own | rendering, address checks, network I/O | the services above |

What is hard here: several workers share one database with short transactions,
so whatever a coroutine read before an `await` may be stale after it; any
provider call can fail, hang until a deadline, or succeed with its answer lost;
the process may die between any two commits and everything in memory goes with
it; users, Telegram and the extension repeat what they did not hear an answer
to; and the user's own actions run beside the workers. `PROJECT.json` names each
such place by line ("hazards") with the properties that look at it.

Properties that make the parts correct:

- **Queue**: an Item is in the hands of one worker; none is left behind; every
  Item gets an outcome.
- **Pipeline**: a durable checkpoint has its content behind it; what was paid for
  is not paid for again; the published result comes from the sources that were
  extracted and PARTIAL is honest; permanent failures stay permanent.
- **Evidence**: a whole is never put together of pieces of different media or
  texts; a piece that still fits is never bought again; the source keeps what the
  pipeline relies on.
- **Outbox**: at-least-once; bounded attempts; no row stuck; a withdrawn notice
  stays withdrawn, except for an attempt already under way.
- **Together**: a result and a failure reach the user whatever dies in between.
- **Reminders**: one open claim of a kind and one owner of a claim; no digest is
  replayed; gap and daily budget hold; a sleeping Item has its alarm and wakes.
- **Jobs**: every request is answered once, with its notice; a stale read loses
  nobody's edit of another field; no archive stays for ever and, with one process, none
  goes while it is still to be sent.
- **Inbound**: what was accepted becomes one Item, whatever was lost or repeated;
  a repeated press changes nothing; the history tells the state; a text answers
  the prompt the user saw.

## Modules

| Module | Models | Code |
|---|---|---|
| `AtLeastOnce` | what the outbox promises (D-011), with no worker, attempts or crash | abstract |
| `Outbox` | `deliveries`, the `DeliveryWorker`, startup recovery | `services/delivery.py` |
| `OneSource` | what the pipeline may rely on of a source of any kind | abstract |
| `ItemPipeline` | the queue, the workers, the staged pipeline, Retry | `workers/processing.py`, `services/processing.py`, `services/actions.py` |
| `ItemOutbox` | both together, sharing the process, Retry and the crash | the commits that touch both |
| `Transcripts` | one recording: segments, checkpoints, visual fallback | `llm/openai.py`, `services/processing.py`, `extractors/` |
| `Posts` | one Instagram post: its elements, progress record and budget | `services/instagram_posts.py`, `services/processing.py` |
| `Summaries` | one long text: its chunks and their rows | `services/analysis.py` |
| `ItemEvidence` | the pipeline with one recording, one post and one text below it | |
| `Reminders` | the `reminders` rows, the `ReminderWorker`, snoozes | `services/notifications.py`, `services/actions.py` |
| `OneOutcome` | what a durable job promises | abstract |
| `ProfileJobs`, `AskJobs`, `ExportJobs` | the three job tables with their workers and what they write | `services/profile.py`, `ask_inbox.py`, `export.py`, `app/workers/` |
| `Settings` | concurrent edits of the settings document | `services/notifications.py`, `bot/handlers.py`, `api/app.py` |
| `Requests` | the four together in one user's account | `app/main.py` |
| `Capture` | the extension's queue and the server it talks to | `clients/browser-extension`, `api/app.py`, `services/ingestion.py` |
| `TelegramUpdates` | delivery and repetition of updates, one handler per chat | `app/main.py` |
| `Decisions` | buttons: lifecycle, interest, ratings, corrections, reactions | `services/actions.py`, `feedback.py`, `reminder_feedback.py`, `bot/handlers.py` |
| `Messages` | texts: prompts, commands, ingestion | `bot/handlers.py`, `services/ingestion.py` |
| `Inbound` | captures, buttons and messages together | |
| `OutboxProofs`, `RemindersProofs`, `ExportJobsProofs`, `CaptureProofs` | theorems about the module of that name | |
| `ItemPipelineProofs` | theorems about `ItemPipeline` and `ItemOutbox` | |
| `EvidenceProofs` | theorems about `Transcripts`, `Posts`, `Summaries` and `ItemEvidence` | |
| `RequestsProofs` | theorems about `AskJobs`, `ProfileJobs`, `Settings` and `Requests` | |
| `InboundProofs` | theorems about `Decisions`, `Messages` and `Inbound` | |
| `MC*` | small instances for TLC | |

In every module an action is one committed transaction with the in-memory work
before it, or one external call. `CrashRestart` (or `Restart`) is the death of the
process followed by what `main.run` does before any worker starts; a database
error counts as a death, since a worker that meets one ends the process.

`Requests`, `Inbound` and `ItemEvidence` put components side by side that share
no column: their steps commute, so no interleaving of one with the other can reach
a state of a component that it does not reach alone. `focus` picks one of them for a
behaviour, and TLC explores the sum of the state spaces, not the product. Where
components do write the same rows they are modelled in one module (`Reminders` has
the user's snooze, `ItemOutbox` the shared commits).

### Outbox

`row` is the status of a delivery key (an Item or job with a delivery type, which
the table keeps unique), `rowId` its insertion order, which is what `created_at,
id` orders by and what survives a reopen, `attempts` the column. `dw` is what the
one `DeliveryWorker` holds in local variables: the id it claimed, the text it
rendered, whether the error was permanent, the status it is about to write.

| Action | Code |
|---|---|
| `EnqueueItemDelivery`, `MayAsk` | `enqueue_item_delivery(reopen=True)` and its relatives for videos, profile, Ask, Export |
| `CancelFailure` | the last UPDATE of Retry in `_apply_item_action_in_session` |
| `Claim` | `claim_next` |
| `ReadSnapshot` | the load at the top of `_send`, with the suppression of an obsolete failure notice |
| `Transmit` | the Telegram call; accepted or not, answered or not |
| `RereadRow`, `Settle` | `_mark_sent`, `_record_failure`: a read outside the writing transaction, and an UPDATE by id |
| `CrashRestart` | `requeue_sending_deliveries` |

Results of a key are numbered: `wanted` counts the results business transactions
asked to announce, `opened` is the result for which the row last became PENDING
from nothing or a terminal status, `shown` the newest one Telegram accepted.
`opened` and `shown` are observations; no guard reads them.

Delivery kinds differ where the code differs: results and failure notices are
reopened, a video is refused while one is in progress and may fail for good, a
job's answer is enqueued once.

### ItemPipeline

`item` has status, stage, PARTIAL, and `covered`: the sources whose content the stored
analysis was made from. `source` has `extraction_status` (FAILED split by
`failure_permanent` into FAILED and DEAD), whether restorable content is durable, and,
for multi-part Instagram posts, whether parts are missing, may be retried, or could not
be read again (`recheck`). `wk` is a worker's position in `process_one`/`run` with the
content it holds, `tap` is a Retry handler between its SELECT and its conditional
UPDATE.

| Action | Code |
|---|---|
| `Ingest`, `IngestRejectedMedia` | the rows `ingest_message`/`ingest_media` leave |
| `Claim`, `MarkFailed`, `Return`, `Interrupt` | `ProcessingWorker` |
| `ResumeAtPublish`, `ResumeWithContent`, `StartExtraction` | the first half of `ProcessingPipeline.run` |
| `SkipFailedSource`, `SaveSourceContent`, `MarkSourceReady`, `SourceFails`, `Compose` | `_extract_item_sources`, `_extract_source` |
| `Analyze`, `Classify`, `Publish` | the second half of `run` |
| `RetryRead`, `RetryWon`, `RetryLost` | the `retry` branch of `_apply_item_action_in_session` |
| `CrashRestart` | `requeue_stale` |

Content is abstracted to the set of sources it came from; the text of an Item to
whether there are words to fall back on and whose they are. Whether an adapter
succeeds is free in every step. `history` only records what happened, for the
properties: `late` marks the one step in which the deadline strikes a READY commit
that is already durable, `stale` a Retry that reopens sources behind a kept
analysis. The database is taken to be available: a worker that meets a database
error ends the process, which is `CrashRestart`.

### ItemOutbox

Conjoins the two on the commits they share: publish with the READY intent,
mark-failed with the failure intent, Retry with the cancel, one crash for both. The delivery
worker's snapshot depends on the Item: a failure notice is obsolete when the Item
is not FAILED, and a result rendered after a new analysis is the next result.

Retry withdraws the notice of the failure it leaves behind (`RetryWithdrawsNotice`),
but for an attempt under way, which may put the row back: that attempt is counted.
With two Retries not even that holds. If the Item fails again while the first notice
is being sent and a second Retry withdraws the reopened row, the late verdict of the
first attempt makes it PENDING with a count of zero. The property
excepts it by `retries > 1`; the worker then finds the Item not FAILED and drops the
notice, so the user sees nothing of it.

### Transcripts, Posts, Summaries (ItemEvidence)

`ItemPipeline` takes the extraction of a source and an analysis as one step each.
These three go below that grain, for one recording, one post and one text:
pieces that a deadline, a restart or a failed neighbour leaves behind and a later
run finds again. `OneSource` is the border: READY only behind durable content,
durable content not fetched again, a permanent failure for good, and reopened only
by a Retry with something to gain. The sources of `ItemPipeline`, the recording
and the post implement it (`SourcesKeepPromise`).

| Actions | Code |
|---|---|
| `Restore`, `Download`, `DownloadFails` | the checkpoint and the download in `_extract_item_sources`, `_extract_source`, `VideoExtractor`, `AudioExtractor` |
| `Reuse`, `Call`, `Answer`, `Refused`, `Persist` | `transcribe_segment` under its semaphore, with `_transcript_checkpoints` |
| `Gathered`, `SegmentFailed`, `AskWhole`, `SaveTranscript` | `OpenRouterTranscriptionProvider.transcribe`, `OpenAiTranscriptionProvider.transcribe`, `_delete_transcript_checkpoints` |
| `NoSpeech`, `NoTrack`, `Describe`, `NotDescribed`, `MarkReady` | the visual fallback and enrichment of a recording |
| `Read`, `ReadingFails`, `SkipDone`, `Prepare` | `extract_post`: the page, the new record, the elements that are done, the budget |
| `Learn`, `NoSpeech`, `ProviderFails`, `Blind`, `Finished`, `SaveElement`, `Complete` | `_extract_element` and the record after it |
| `Begin`, `Reuse`, `Summarize`, `Stop`, `Finish`, `AnalyzeWhole` | `Analyzer._durable_chunk_summaries`, `prepare_content` |
| `Interrupt`, `Retry` | the deadline or a restart; the reopening in `_apply_item_action_in_session` |

Concurrent segment requests are separate steps, so any of them may be paid and
lost. What a piece was made from (download, provider, element, chunk) is kept,
what it says is not. `bill` and `paid` only record what was bought. YouTube's own
subtitles and a Reel with nothing but a caption are left out: they are one request.

What the models show besides the properties: chunk rows of a video that turns out
silent stay; a text that becomes short enough after a change of configuration
leaves its CHUNK_SUMMARY rows visible to search (`analysis.py:219` speaks of
current ones only); a post's record begins each reading with `processed: 0`, so
two interrupted readings can call a whole post PARTIAL - never the reverse, which
`PartialIsHonest` excludes; media that alternate buy a segment again, because only
the newest row of an index counts.

### Reminders

`row` has status, generation, claim and sending time of each reminder row, `item`
the lifecycle of the Items they are about, `settings` and `since` what the user
chose and when the digest was turned on, `worker` what a `ReminderWorker` holds
between its transactions, `shown` what Telegram accepted. `now` is a clock of a few
ticks a day with quiet hours at its ends.

| Actions | Code |
|---|---|
| `StartCycle`, `ProcessDigest`, `Defer` | `run_forever`, `_process_user`, `_defer_digest`, `_claim_digest` |
| `EnterSnoozes`, `NextSnooze`, `ClaimSnooze` | `_process_snoozes` (one reading of the time for the loop), `_claim_snooze` |
| `Select`, `CancelStale` | `_process_attention_intervention`, `_choose_attention_intervention`, `_cancel_stale_open_claim` |
| `ClaimMotivation`, `Precheck`, `CancelDoomed`, `ClaimProactive` | `_claim_motivation_nudge`, `_process_proactive_attention`, `_claim_proactive_attention` |
| `Prepare`, `Accepted`, `AttemptFails`, `DeadlinePasses` | `_prepare_*_send`, `_send_with_retry` |
| `Finalize`, `MarkFailed` | `_finalize_*_send`, `_mark_*_sent`, `_mark_failed` |
| `SnoozeItem`, `CancelSnooze`, `Resolve`, `Dismiss`, `ChangeSettings` | `_apply_item_action_in_session`, feedback, settings |
| `CrashRestart` | nothing is requeued: leases run out |

`SenderOwnsClaim` and `AttentionIsPaced` are for one worker, which is what `main.run`
starts. With two TLC finds a send cancelled by id under its owner: the cancel in
`_process_proactive_attention` is not fenced by the generation. `docs/DECISIONS.md`
D-031 speaks of competing worker attempts; the other properties that are proved hold for
any number of them.

### ProfileJobs, AskJobs, ExportJobs, Settings (Requests)

Each job module has the row of every request, what a worker holds of it between
transactions, and the outbox rows it owes. Claims are conditional UPDATEs. The commit
that ends a job or a sending is not: the status is read again (`Reread`, `RereadRow`) by
a SELECT that begins no transaction, and the row is then written by its id, together with
the notice (`Complete`, `Fail`, `Finish`, `MarkSent`, `RecordFailure`), so a commit of
another process may come between the two. Two processes that overlap (a new one has
started and requeued what is RUNNING or SENDING, the old one is not gone) are modelled.
Nothing in the code keeps a second one from starting; `docker-compose.yml` starts one. As
long as none was started beside the first (`Alone`), whatever the first dies of and
however often it starts again, the jobs promise one outcome for good
(`OneOutcomeEach`) and that an archive is kept while it is owed
(`ActiveDeliveryHasArtifact`); of processes that overlapped `OneOutcomeEach` says what is
left of that, and the other properties hold of them in full.

| Actions | Code |
|---|---|
| `Enqueue`, `Send`, `EnqueueTelegram`, `ReadHttp`, `InsertHttp` | admission from chat and HTTP, with the lookup under the idempotency key before the insert |
| `Claim` | `claim_oldest_*` |
| `ReadProfile`, `SeedProfile`, `Ask`, `Apply`, `Fail` | `update_profile_from_patch`: a read, an LLM call, a merge into whatever is there then |
| `ReadElsewhere`, `SeedElsewhere` | `get_profile` by other callers |
| `Collect`, `ProviderAnswers`, `ProviderFails`, `ClearExpired` | `AskInboxService.process`, its transient retry and citation check, expiry |
| `Reread`, `Complete`, `Fail` | `_complete`, `fail`; `ExportService.process`, `fail`: the second read of the status, the write by id with its notice |
| `ReadItems` ... `ReadContents`, `SaveItem` | the SELECTs of `build_export_snapshot`, an ingestion between them |
| `WriteTemp`, `Publish`, `Validate`, `Abandon`, `Finish`, `Commit` | `_write_archive` and the row that names the file |
| `StartCleanup`, `RemoveExpired`, `EndCleanup` | `cleanup_export_artifacts` |
| `ClaimDelivery`, `Load`, `Send`, `RereadRow`, `MarkSent`, `RemoveSent`, `RecordFailure` | the two rows of a job on their way through the `DeliveryWorker`: claim, look at the job, send, second read of the row, write by id, removal of the archive |
| `Begin`, `Validate`, `ReadToggle`, `ReadAttention`, `ReadUser`, `Write`, `Drop` | `update_notification_settings` and its callers, `json_patch` of the document |

A profile is, per field, the update that wrote it last, a setting the edit. Evidence
of a question is any set of texts that the budgets of `build_ask_context` admit.
`OneOutcome` is what they promise: accepted once, answered or refused once, with the
notice in the same commit, never left open. Once processes have overlapped an outcome
may be replaced by the other one (`Amend`), announced as well; it is never open again and
no announcement is taken back. Each module has its mapping.

Two statements that do not hold are kept in the modules as documented definitions:
`SeedKeepsEdits` (the lazy seed of a profile overwrites an edit made since its
read) and `ActivationKnown` (an edit that found the digest on, while another turns
it off, leaves it on without an activation time).

### Capture, TelegramUpdates, Decisions, Messages (Inbound)

`Capture` has the extension's stored state, the one drain it runs at a time, the
requests on their way and the Items of each server. A request may be lost, its
answer may be lost, it may arrive late, and Chrome may stop the service worker
between any two awaits.

| Actions | Code |
|---|---|
| `Save`, `Discard`, `SaveConfig`, `Disconnect`, `OpenPopup` | the listeners of `service-worker.js` |
| `StartTest`, `TestAnswers`, `StoreTest`, `EndTest` | `runConnectionTest` |
| `Begin`, `NextCapture`, `StartAttempt`, `Answer`, `TransportFails`, `PersistAccepted`, `RecordHttpFailure`, `RecordTransportFailure`, `CheckConnection`, `StoreConnection`, `Update` | `processDueCaptures`, `attemptCapture` |
| `BeginPoll`, `Poll`, `ApplyStatus` | `pollStatuses`, `pollOneItem` |
| `AlarmFires`, `Start`, `Kill` | alarms and the life of the service worker |
| `Unauthorized`, `Invalid`, `Lookup`, `Insert`, `Unavailable` | `api/app.py`, `ingest_external_text` with its unique index |

`TelegramUpdates` is the transport of `Decisions` and `Messages`: an update is
confirmed by the next poll, handlers of one chat run one after another, and a death
brings back what was not confirmed.

| Actions | Code |
|---|---|
| `ItemAction`, `HttpAction` | lifecycle buttons and their HTTP form: read, compare and set, event |
| `CheckInterest`, `SetInterest`, `RecordFeedback`, `Correct` | `on_item_callback`, `feedback.py` |
| `ApplyCallback`, `CopyOriginal`, `React`, `Decide`, `OpenVideo` | `reminder_feedback.py` with its receipts |
| `FinalizeReminder`, `Wake`, `Requeue`, `Analyse` | what workers do to the same rows |
| `RouteText`, `RouteControl`, `Forget`, `Prompt`, `Arm` | routing and `GuidedInput` |
| `IngestText`, `IngestMedia`, `Ask`, `Instruct`, `ChangeSetting`, `Search`, `Command*` | the handlers of texts |

FSM state is in memory and lost at a restart; a prompt delivered again is a prompt
shown again. A reminder button pressed before the reminder is finalized is rolled
back and leaves no receipt, so the next delivery of it counts.

## Runs

| Run | Instance | Shows |
|---|---|---|
| `outbox` | a result (2), a failure notice (1), a video (2); 2 attempts, 1 crash | 732 604 states; attempts, ownership, delivery, `EveryIntentSettles`, and `Outbox` implements `AtLeastOnce` |
| `pipeline` | 2 workers, a link + a post, a text Item; 2 Retries, 1 crash, symmetric workers; beside it a recording heard 3 times by 3 providers, a post read twice while edited, a text in 3 versions | 3 279 927 states; ownership, checkpoints, payment, coverage, wholes of pieces that fit, durable outcomes, the promise of a source |
| `progress` | 2 workers, 2 one-source Items, 1 Retry, 1 crash, fairness | 380 157 states; every queued Item settles |
| `composition` | one post, 1 worker, 1 Retry, 1 crash, 2 attempts, fairness | 216 025 states; result and failure reach the user, Retry withdraws the notice |
| `reminders` | 1 worker, 1 Item, levels 3 and 5, two days of five ticks, 1 act of the user, 1 crash, fairness | 1 450 964 states; claims, alarms, pace, no replay, sleepers wake |
| `requests` | 2 profile updates by 2 workers and a reader, 2 questions (HTTP, chat) by 2 clients, 1 export with 2 archives, 3 edits of the settings; 2 processes, 1 restart, fairness | 121 948 states; one outcome each while one process runs and what is left of that when two overlap, no edit lost, archives kept and removed |
| `inbound` | 2 captures, 2 servers, a good and a bad token; 2 presses; 3 messages; 1 crash, fairness | 1 191 871 states; one Item per capture, true status, repeats inert, history, prompts |
| `lost_reannouncement`, `uncovered_source`, `refused_retry`, `stale_digest`, `torn_snapshot` | as above | five statements of the repository that do not hold, below |

Bounds are CONSTANTS; each guard names its own.

- `MaxCrashes`, `MaxRestarts` 1 put a death at any point; a second adds no new kind
  of state, since a restart forgets everything volatile (the attempts bound depends
  on the number, and is proved for all). In `requests` the one start is that of the first
  process again or of a second one beside it.
- `MaxResults` 2 gives a reopen of every key; `MaxAttempts` 2 one retry and one
  giving up. `MaxRetries` 2 lets a Retry follow the outcome of a Retry, which is what
  reopening behind a checkpoint needs. Two sources give a success beside a failure;
  two workers a rival.
- `MaxHearings` 3 lets a recording be heard, left half done by a second provider and
  heard again by the first. `MaxReadings` 2 and two listings give an edit of the post
  between runs; two of three elements fit the limit and one fits the download budget.
  `MaxAnalyses` 3 over three versions lets chunks change and change back.
- `MaxTime` 6 is a day and the next morning: the digest of both, a snooze over the
  night, a lease that ran out. `MaxRows` 1 row of a kind, `MaxGeneration` 2 a renewed
  claim, `MaxActs` 1 act of the user (waking and resolving an Item are not counted).
  `MaxLost` 0 keeps lost replies out of the run; the proofs allow any number.
- In `AskJobs` each of two clients sends `MaxSends` 1 request, of two questions (`MaxKeys`)
  or both of one. In `ExportJobs` `MaxFiles` 2 are the archives of a repeated export. In
  `Capture` the queue holds `MaxPending` 1 capture, so the second is refused until the
  first is gone; `MaxLate` 1 are the requests of a dead service worker still under way,
  `MaxOutside` 1 the acts on an Item from elsewhere.

Deadlock is not checked: once the bounded users, Retries and crashes are used up,
the system is rightly idle.

### Fairness

Weak fairness of each worker as a whole, never of a particular outcome. `main.run`
treats the exit of any worker as fatal for the process and every worker loops;
extraction and analysis run under `asyncio.wait_for`, and Telegram calls have
transport timeouts, so a worker that can move eventually does, be it by a failure.
`ProcessingWorker` takes the oldest Item first, so no Item needs
fairness of its own. Crashes, users and Telegram's answers are not fair:
`EveryIntentSettles` has to hold when every send fails, and it does because the
attempts are counted at the claim.

The clock of `Reminders` advances (weakly fair up to its bound). In `AskJobs` and
`ExportJobs` a worker's loop alternates a cleanup and a job: each is weakly fair by
itself, which is enough because the jobs are finitely many, so none disables a cleanup
for ever; answers and archives grow old. In `Capture` the service worker goes on while
it is awake, `fetch` has a timeout, `chrome.alarms` fires and some event starts a
stopped worker; that Chrome stops it is not fair.

### Where the code differs from what the repository says

- **A new result may never be announced** (`lost_reannouncement`). The comment at
  `app/services/processing.py:148` says the delivery key publishes the newly
  synthesized result "instead of suppressing it as a replay". The key is reopened
  only from a terminal status. If the message of the previous result is still
  SENDING when the new one is committed, nothing is reopened, and that attempt
  marks the row SENT.
- **A published result may leave a source out** (`uncovered_source`). D-016 says
  all successful parts pass one Analyzer. Retry of an Item that failed after its
  analysis reopens failed sources and keeps the analysis.
- **A failed Item may refuse its Retry** (`refused_retry`).
  `app/workers/processing.py:172` says a failed Item stays available for Retry. At
  EXTRACTING, one permanently failed source and no retryable one refuse it, though
  another source was never tried or is READY.

- **A digest for yesterday** (`stale_digest`). The test at
  `tests/test_notifications.py:443` wants no digest for a day that was over before the
  digest was turned on, and the deferral checks `daily_digest_enabled_at`. For a
  digest time inside overnight quiet hours nothing checks it: turned on at noon,
  such a digest is sent at once for the day before.
- **A snapshot of several moments** (`torn_snapshot`). The docstring at
  `app/services/export.py:786` says "consistent snapshot". Its session only reads, the
  driver begins a transaction with the first write, and each SELECT sees its own
  moment: an Item saved between two of them makes the export fail with a reference
  to a foreign Item.

Smaller observations are exempted in the properties, each by name: a deadline
that strikes a durable READY (`late`); a second failure that is not announced
because the notice of the first, put back by its failed attempt and judged
obsolete, is SENDING at that moment (`FailureReachesUser` is stated for the first
failure); a second process started beside the first, which may write FAILED and its
notice over a committed answer or export, and put a row whose archive it has not seen
removed back to PENDING (`OneOutcomeEach`, `ActiveDeliveryHasArtifact` are stated while
one runs); the lazy seed of a profile (`DisjointEditsSurvive` excepts it); and a Retry
of a PARTIAL Item, which analyses it again and overwrites a corrected category
though `docs/DECISIONS.md:582` says corrections stay (`HistoryAgrees` starts its chain
anew at RETRIED).

## Proofs

### Outbox (`OutboxProofs`)

For any finite set of keys, any kinds and any bounds (`OutboxAssumption`):
`TypeOK`, `SendingIsOwned`, `AttemptsRespected`, `SentWasShown`, and
`Spec => ImplementsPromise`.

None of these is inductive. That a row is SENT only after Telegram accepted the
right result depends on what the worker remembers while the row may be cancelled,
or cancelled and reopened, under it. The invariant `IInv` adds: the result the
worker holds is at least the one its row was opened for as long as the row is
SENDING; a verdict SENT is in its hands only when that result was shown; a verdict
FAILED only when the attempts are used up or the error was permanent; a row that
is not a failure notice cannot leave SENDING while the worker holds it, since only
failure notices are cancelled and only terminal rows are reopened. `Invariance`
proves it action by action; the theorems follow from it; the refinement theorem
shows that each action is a step of `AtLeastOnce` or a stutter under the mapping
in `Outbox`.

### ItemPipeline (`ItemPipelineProofs`)

For any Items, sources, workers, Retries and deaths (`PipelineAssumption`):
`TypeOK`, `SoleOwner`, `CheckpointsAreHonest`, `ResultCoversSources`,
`OutcomesAreDurable`, and `PaidOnce`: an Item is analysed once, and once more for
each Retry.

A result is judged when it is published, but what it covers is decided when its
content is composed, and what may be restored later rests on stages written by
runs that did not finish. `IInv` follows the content along that way:

- `WorkerAgrees`: what an extracting worker has gathered is exactly the READY
  sources it has passed, and no source behind it is PENDING; at the analysis it
  holds all there is (`Complete`); and the stage in the row is the worker's own.
- `StageCovers`: a row at a stage past the analysis stands for an analysis that
  covers the sources and whose PARTIAL is right.
- `AnalysisBehind`, `ReadyAgrees`: nobody stands past an analysis that was not
  made; READY as a status and as a stage come together.
- `Untouched`, `TapIsCurrent`: nothing refers to an Item before it exists, and
  what the Retry handler read of FAILED sources is still so when it writes, since
  a worker passes failed sources over. `OutcomesAreDurable` needs the second.

The parts speak of one Item and one worker, so `LocalStep` shows once that a
worker's step leaves everybody else's parts alone - this is where ownership is
needed, two workers on one Item would disturb each other - and each action of
the worker is then checked on its own row (`RowStep`, `SourceStep`). Steps of the
user and restarts are proved directly: a Retry finds nobody at work, because it
wins only on a READY or FAILED Item. A `late` Item is outside all of it: there
ownership is really lost.

`PaidOnce` (`AnalysisPaidOnce`) holds of `late` Items too, where ownership is lost
and several runs of one Item may be under way. Its invariant `EachPaid` counts, per
Item, what was bought against the Retries:

- an Item is either in one worker's hands from the claim to the failure (`Alone`), or
  each run that may still analyse it, and the one that is queued, is the run of another
  Retry (`EachRunPaid`);
- before the stages that keep an analysis, the run under way or to come is not paid
  out of an earlier one's (`Owed`);
- a source that is PENDING again, and an Item without any content, was left so by a
  Retry that only the runs past that source, or with content in their hands, can have
  used up (`Opened`, `BarrenPaid`). This is what stops a late run and the run of the
  Retry from both being counted on the same Retry.

`SourcesKept` shows that each source implements `OneSource`. Besides `IInv` it needs
that a failed source has no content (`Unfilled`) and that a post the Retry handler
means to reopen has something left to fetch (`MoreToHave`). A step leaves a row as it
is or saves, marks, fails or reopens it (`Move`), and each of these is a step of
`OneSource`.

### Pipeline and outbox (`ItemPipelineProofs`)

`NoticeWithdrawn` (`RetryWithdrawsNotice`), `NoticeKept` (`NoticeNotSwallowed`), and
`PipelineKept`: in the composition the pipeline is still the pipeline, so every theorem
about it holds there. `JInv` adds to `IInv` and `EachPaid`, for each Item,

- `Withdrawn`: a failure notice that is due, or that a verdict in the worker's hands
  will make due, while the Item has left FAILED, had its attempt counted, and a row that
  is not SENDING any more under the worker was taken from it by a Retry;
- `OneRun`: until the first Retry an Item has one run, also when a deadline strikes a
  durable READY, and a failure ends it;
- `FirstNotice`: so until then there is one failure and one notice of it, the Item is
  FAILED when the notice is rendered, and a SENT row was shown.

TLC checked `RetryWithdrawsNotice` and `NoticeNotSwallowed` with two Retries too; the
`composition` run has one, because its liveness properties take too long with two.

### Evidence (`EvidenceProofs`)

`TranscriptsFit`, `PostsFit`, `SummariesFit`: for each of the three modules its wholes
fit and nothing that is kept is bought twice; `WholeOfPieces` (`PiecesFit`) and
`PiecesBoughtOnce` (`NothingBoughtTwice`) say so of `ItemEvidence`, where
`SourcesImplementOne` (`SourcesKeepPromise`) adds that Items' sources, the recording
and the post all implement `OneSource`.

- A text (`SummaryIInv`): what a run has put together is the text up to its place, and
  the rows are (`RunFollowsText`); the row of a chunk is what was bought last for it
  (`BillTellsRow`).
- A recording (`MediaIInv`): what a run found of a segment is the newest row, what it
  holds is of its own download and provider (`Heard`), and what was bought last is in a
  row or in memory, or was lost (`Billed`). `RowsHaveLast` says that the newest row
  exists, for a table of any length.
- A post (`PostIInv`): an element that the record calls done has a row (`Recorded`); the
  element in hand is asked only for what is missing (`InHand`); what was paid for has a
  row or is known as silence, in the record or in the run's memory (`Settled`).

Purchases are sequences of any length. `Thrifty` says of neighbours that the later one
was not bought while it was the newest, so a step that appends one looks at
the last entry only, and no induction over the data is needed. For the promise of a
source, `MediaSourceInv` and `PostSourceInv` add that a recording is looked at once, that
a failed source has nothing to restore and that a post under way is not complete.
The assumptions (`EvidenceAssumption`) say that a listing names no element twice,
since its keys hold positions, that there are a segment and a provider, and that `Nil`
is no text and no record.

### Reminders (`RemindersProofs`)

For any Items, workers, clock and bounds (`RemindersAssumption`): `TypeOK`,
`SleeperHasAlarm`, `NoReplay`, `OneOpenClaim`; and `SenderOwnsClaim` and
`AttentionIsPaced` for one worker (`OneProcess`). `IInv` adds to the types what a worker
may believe after its awaits: the row in its hands had the generation it remembers, and
the snoozes in its list are due (`WorkersFine`); a claimed snooze is due as well
(`ClaimsAgree`). So what a sender closes is never the alarm of an Item that was put to
sleep again since (`Sleeping`). A kind has one open claim (`Alone`); and a digest,
claimed once, has one sender for good, so `shown` exceeds one only by lost replies
(`DigestsOnce`). `SenderOwnsClaim` needs `Owning` besides: with a single worker nobody
else cancels by id.

`AttentionIsPaced` needs `Pacing`: a worker past its last look has `Room` for its
message - the gap to everything that is out has passed, and the day has budget left -
until the message is booked (`Paced`), and it is booked at the moment Telegram took it,
which is after all that was booked before. A single process sends nothing else
meanwhile; settings may change, which is why gap and cap are the least and the highest
of any level; and at midnight the new day is still empty (`TickPaced`). Of two messages
of one tick, possible only without a gap, each counts for the other, and the day still
stays within its cap (`BookedPaced`). With two processes it does not hold: TLC finds a
digest that its sender books after the lease ran out, when the other process has already
sent a message past it.

### Jobs (`RequestsProofs`, `ExportJobsProofs`)

The safety part of `OneOutcome` for each of the three jobs, and

- profile: `DisjointEditsSurvive`. `Owned` and `Apart` (a RUNNING update has one
  worker) and `NoticesTold` (notice and DONE come together).
- questions: `AcceptedIsStored`, `PublishedStays`. `OrderLists` (each row listed once),
  `AnswersBelong` (an answer only in a decided HTTP question), `NoticesTold` (no
  announcement before an outcome, no outcome without its announcement), `ClientsAgree` (a
  client that was accepted has its row) and `WorkersAgree` hold however processes overlap.
  What makes an outcome final is `Held`: as long as no second process was started, a
  question at work is RUNNING, so what `Reread` saw still holds at the write.
- exports: `ActiveDeliveryHasArtifact`. `Base` holds however processes overlap: the
  archive in a worker's hands is its own, young and in no row (`WorkersFine`, `Apart`);
  no row comes before an outcome and no outcome without its row, and a row names an
  archive of its job (`RowsFine`); a sender has a row (`SendersFine`). `Held` adds, while
  no second process was started, that the job at work is RUNNING, the row being sent
  SENDING and the one whose archive is being removed SENT, that a cleanup removes nothing
  that is still to be sent, and that what is to be sent is on disk. It rests on the
  assumption that making an archive takes less than its retention, stated at `Age`.
- the promise: a commit of `Alone` finds its request open and unannounced, so it is an
  `Answer` or a `Refuse`; one that overlaps is that, an `Amend`, or repeats the outcome and
  the notices that are there.
- settings: `EditsSurvive`. `Signed` (a value names an accepted edit of its field) and
  `Edited` (a field that was edited stays edited).

The theorems about `Requests` carry these over to the four side by side: its steps are
steps of one part and leave the others alone, so what holds of each part holds there.
`ExportJobsProofs` is about `ExportJobs` by itself and is instantiated for it.

### Capture (`CaptureProofs`)

`ExactlyOneItem` and `StatusIsTrue`, for any captures, servers, tokens and bounds.
What makes a retry harmless is that one idempotency key is only ever sent to one
server. `IInv` follows the binding of a capture to its server through the stored
record (`Bindings`), the drain (`DrainAgrees`) and every request on its way, those of
stopped workers included (`FlightsAgree`), so that only that server can have a copy
(`CopiesAgree`) and a capture that left the queue has one (`GoneSaved`).

### Inbound (`InboundProofs`)

`TypeCorrect`, `SavedOnce`, `StatusCorrect` (both from `CaptureProofs`, instantiated),
`History` (`HistoryAgrees`), `Repeats` (`RepeatsAreInert`), `Replies`
(`RepliesMatchPrompts`), for any presses, texts, Items and deaths.

Buttons: `Tells` is stated of any history and any rows. What the history says of an Item is
what its row holds (`Agrees`), a reminder has one reaction of a kind (`Once`), and
what was marked done from a reminder is done (`DoneIn`). The history has
any length; a step appends at most one event, and one lemma for each kind of event
shows that the longer history tells the new rows. `PressesFit` and `AnswersLeaveKeys`
add where a handler can stand and that an answered press has left its key, in a receipt or
in an event. A press with a receipt or an event changes nothing (`Inert`), which gives
`Repeats`.

Texts: updates come in order (`InOrder`), one handler of the chat is under way and those
behind it have not looked at anything (`Turns`), where a handler stands says what it
read (`Routed`), and while a prompt waits, whatever ends its wait is yet to be handled
(`Waits`). So an answer is to the last prompt before it (`Answers`), and to one only
(`OneAnswer`). That nothing is saved and answered at once is stated for a first life
(`FirstLife`), since a restart forgets the prompt and hears the text again.

### Only model-checked

- All liveness: `EveryIntentSettles`, `EveryItemSettles`, `ResultReachesUser`,
  `FailureReachesUser`, `SleepersWake`, `LeftoversVanish`, `CaptureSettles`, the
  liveness half of `OneOutcomeEach`. TLAPS has no ENABLED and no fairness reasoning
  here.

Every safety property of the passing runs is also a theorem.

## Not modelled

- Texts, formatting, rendering, keyboards, pages, popup and options of the extension:
  presentation.
- `domain/`, `behaviour_ranking.py`, `attention_ranking.py`: scoring formulas over floats
  and dates without state. The reminders take whatever they choose as free.
- Motivation texts, attention hooks, weekly review: text generation and read-only
  aggregation.
- URL safety and access to originals: pure address checks and links.
- Extractors and providers beyond their outcomes: subprocesses, formats, HTTP. A call
  answers, fails for now or for good, or hangs until its deadline.
- The read-only listings of the HTTP API and the bot; full-text search, which is the
  set `Hits` of a question.
- Migrations, configuration and the operator's commands. An orderly shutdown cancels
  the workers and leaves the rows a death leaves, so it is no action of its own.
- The pre-multi-source layout of rows and the description of photos attached to a
  message.
- In the extension: the trimming of the recent list, the horizon of polls, and the race
  of two listeners inside `recomputeAlarm`, which is one step here.
