# OpenLoops in TLA+

OpenLoops is a Windows desktop program that reads a user's mail (Microsoft Graph
or Gmail), asks a language model for the open *loops* in it (things somebody
asked for, promised or waits for), lets the user decide on each and, on demand,
creates a reminder task in Microsoft To Do or Google Tasks. It sends private
mail to providers that charge for it and writes tasks into an account the user
shares with other programs, so most of what can go wrong is not a wrong value
but a wrong *order*: a request sent twice, a task nobody remembers, a decision
overwritten by another window, a conversation reported as read that was not.

This directory models the parts of the program where that order is decided.
Paths below are relative to `src/crates/` of the repository.

## 1. The system and its parts

| component | state it keeps | operations | how it interacts |
|---|---|---|---|
| Scan worker pool (`desktop/review_scan.rs`: `ParallelPass`, `run_jobs`, `run_worker`, `ScanProgress`) | job cursor, stop flag, adaptive limiter, per-worker clocks, started and processed counts | claim a job, send, report, widen, narrow, stop, park, restart for the next phase | threads of one scan share it; the caller's cancel flag is read, never signalled |
| Saved decisions (`desktop/loop_state.rs`) | records in memory, the blob last read, a latched error | open, update (prune, limit, stamp, compare-and-set save), restore on failure | one credential shared by every running copy |
| Reminders (`desktop/slint_review.rs`, `review_model.rs`, `app_model.rs`, `graph/live/reminders.rs`, `graph/live/google/tasks.rs`) | an open draft, one background job per window | open, cancel, create, reconcile a draft; complete the linked task; sync task status | provider requests in a job's thread, outcome applied by the UI timer's poll |
| Operation ledger (`application/ledger.rs`, `ports.rs`) | append-only rows per operation | begin or replay, mark attempt, one request, classify, retry, reconcile | storage port and provider adapter; dependent cursors ask it whether they may advance |
| State root, anchor and store (`persistence/state_root.rs`, `anchor.rs`, `store.rs`, `protected_file.rs`, `reservation.rs`) | generation, commitment over all rows, key usage counters, clock mark, rows | reserve nonces, commit a batch, replace the anchor, reconcile at start, freeze | `application/seal.rs` reserves, seals and commits |
| Ingestion (`application/ingestion.rs`) | checkpoint per collection, committed observations | classify a message, plan a page, commit a plan | scheduler and adapters call it; ledger blocks its cursor |
| Job scheduler (`application/scheduler.rs`) | one single-flight lease, the last run, back-off delays | due, run, back off | runs the page transaction of the collection its host names |
| Scan pipeline (`desktop/review_scan.rs`) | plan of conversations, outcomes of the phases, counts, warnings | read, triage, extract, escalate, merge, closures | runs phases on the pool, delivers one `ScanResult` to the review |
| Closure walk (`desktop/closure_walk.rs`, `review_scan.rs`, the merge in `review_model.rs`) | per loop: later messages, stopped, closed, event; hand-off and date questions; the chat model's reach; suggestions and their count | match events, walk rounds, apply a verdict, follow up, expire, ask the chat model, hand over | a pass of its own on the same pool, after extraction; what it suggests is shown by the review |
| Review state (`desktop/review_model.rs`, `link_state.rs`) | sources, items, suggestions, links between loops | merge a scan, retry part of one, apply or dismiss a suggestion, link, unlink | reads decisions; links live in a credential of their own |
| Application jobs (`desktop/app_model.rs`) | one pending job and its channel | start, poll, apply outcome, disconnect | UI timer |
| Sign-in (`graph/transaction.rs`, `callback.rs`, `exchange.rs`, `live.rs`) | one authorization transaction, cached sessions | begin, callback, exchange, cancel, expire, reuse and clear a session | a loopback listener and the token endpoint |
| To Do adapter (`graph/todo*.rs`) | marked tasks found by enumeration | enumerate, classify, confirm a re-creation | ledger's reconciliation |
| Loop domain (`domain/*.rs`) | a loop's facets, version and transitions, a ledger of idempotency keys, deadline evidence | commands, remap, merge, proposals, aging, notes; legality of facet combinations, parsing of dates | pure functions; what they return is committed by their caller, which the contract fixes and no crate is yet |
| Inference (`inference/*.rs`) | none | build a request, validate an answer against the message, classify errors | HTTP to OpenRouter, Ollama, a decision model |
| The rest: settings, UI, names, training data, envelopes, contracts, harness, eval, Outlook add-in | - | text, pixels, bytes | - |

What is hard, by component (each is a line of `hazards` in `PROJECT.json`):

* **Pool**: several threads, one cursor and two flags read without a lock; a stop
  between claim and send; a panic; workers parked above a limit that moves.
  *Correct* if nothing is sent twice, everything is reported exactly once and
  truthfully, an undisturbed pass leaves nothing behind, and it ends.
* **Saved decisions and reminders**: a crash or panic between "attempted" and
  the post; a post whose answer is lost, or which arrives after everybody gave
  up; two windows over one credential; a store with room for a few dozen rows.
  *Correct* if a task that may exist is never forgotten, no loop gets two tasks
  by the program's doing, and no decision is silently lost.
* **Ledger**: crashes and failed appends between rows, replays of an operation
  of unknown fate. *Correct* if the operation takes effect at most once, and
  everything that depends on it waits until its fate is known.
* **State root**: a crash between the database commit and the anchor; counters
  rolled back by a stale copy. *Correct* if a nonce budget is never exceeded and
  rolled back or swapped state is never accepted.
* **Ingestion and scheduler**: plans that are stale when they are committed,
  items that fail for ever, pages that are listed again after a crash, collections
  that share a clock. *Correct* if the cursor passes nothing that has no row, a
  message version is recorded once, nothing of the first window interrupts the
  user, and an item that always fails does not hold up the others.
* **Scan pipeline**: partial failure at every phase. *Correct* if
  what the scan says it did is what it did: every conversation is either
  analysed, known to hold nothing, or on the list to retry.
* **Closure walk**: several questions per loop in rounds, any of which can fail,
  be unsure or be cut, followed by a second model and by a merge with cards the
  user already sees. *Correct* if a loop is closed only by a certain answer and
  then stays closed, no message is judged after one nobody could judge, a chaser
  is not taken for an answer, and the number reported is the number of
  suggestions on the cards (or, after a check for new mail, within known bounds of it).
* **Loop domain**: commands repeated, late or under a used key; automated updates
  between two commands of the user; two loops changed at once. *Correct* if a key
  takes effect once, the automated actor never undoes what the user decided, and a
  two-loop step happens on both loops or on neither.
* **Sign-in**: late, repeated, foreign callbacks. *Correct* if a code is
  exchanged once and only for the transaction the user started.

## 2. Modules

### Written

| module | models | composed with |
|---|---|---|
| `JobOutcomes` | what one request can come back with and what that tells the pool and the merge | used by both pool modules |
| `JobPool` | **abstract**: what `run_jobs` promises, without threads | refined by `ParallelPass` |
| `ParallelPass` | the pool, one action per load, lock region and atomic read-modify-write | implements `JobPool` |
| `ParallelPass_proofs` | theorems about the pool, and that it implements `JobPool` | |
| `LoopRecords` | a decision record, pruning, room and size of a record set, what a card offers | used by `ReminderLifecycle` |
| `ReminderLifecycle` | several windows, their store, drafts and jobs, the provider, the outside world | composes decisions, reminders and job polling |
| `ReminderLifecycle_proofs` | theorems about reminders and decisions | |
| `OperationLedger` | one operation's rows, its callers, the provider | |
| `OperationLedger_proofs` | theorems about the ledger | |
| `ConfirmedStore` | **abstract**: what protected state promises across restarts | refined by `StateRoot` |
| `StateRoot` | the writer sequence over the state-root file and the database, with crashes, losses and the clock | implements `ConfirmedStore` |
| `StateRoot_proofs` | theorems about the protected state, the refinement among them | |
| `ScanPhases` | what a phase of a scan makes of its outcomes: what is skipped, escalated, listed as failed | used by `ReviewCoverage` |
| `ReviewCoverage` | the review: its mail, threads, cards, failures and counts, with loads, scans, rescans, retries, checks and the user's stop | composes the phases, `AppModel`'s jobs and `ReviewState` |
| `MCReview`, `ReviewCoverage_proofs` | its mailboxes; theorems about it | |
| `StepVerdict` | what a decision model's answers about one message mean for one loop | used by `ClosureWalk` |
| `ClosureWalk` | the pass after the scan that looks for what later mail closes or changes | composes the walk, the chat model's part and the merge into the review |
| `MCClosure`, `ClosureWalk_proofs` | its instance; theorems about it | |
| `LoopCommands` | loops of the domain under commands, remaps, merges and automated transitions, with the ledger of keys | |
| `MCLoops`, `LoopCommands_proofs` | its instance; theorems about it | |
| `Ingestion` | page transactions of several collections, their rows and checkpoints, and the scheduler that starts them | composes `ingestion.rs` and `scheduler.rs` |
| `MCIngestion`, `Ingestion_proofs` | its instance; theorems about it | |

**The pool.** `pc[w]` is where worker `w` is in `run_worker`; each action is
one shared access. `cursor`, `stop`, `limiter` are the fields of `ParallelPass`
(the limiter sits behind its mutex, so an update is one step together with the
`notify_all` that follows it), `cancel` is the caller's flag,
`conversation_index`, `active_requests`, `processed` are those of
`ScanProgress`. `done[j]` is the sequence of outcomes pushed for job `j`, kept as
a sequence so that a second push would be seen; `sent` is history.
`FillMissing` and `Restart` are the caller: `run_jobs` after the join, and the
scan when it runs the next phase over the same pool. The abstract `JobPool`
knows only jobs and a "halted" bit: `queued -> sent -> reply`, or
`queued -> NotStarted` once halted. A job maps to "sent" at the worker's last
check of the flags (`AdjacentCheck`), because from there on nothing stops it.

**Decisions and reminders.** A window is a running copy of the program:
`records` and `previous` are what `Decisions` holds in memory, `credential` is
the stored blob. `Update` is the one operation through which the store changes;
it includes the pruning at its start, the limit, the stamp, the compare with
`previous`, the size check of the encoding and the restore of memory when any of
them fails. A reminder job walks through `dispatch -> prepare -> posted -> made
| refused`, with the session replay before the post. `Orphaned` keeps a post
alive after its window died: `LatePost` decides its fate. `made`, `late`,
`patches` and `completed` are the provider; `outside` is the user at the
provider's own screens.

**The ledger.** `phase[c]` is the place of a caller in the durability order of
`ledger.rs`; each append may fail and a caller may leave at any point, which is
a crash as well as an error return, since only `rows` survive either. `Request`
is the adapter (external): its classes mean what `ports.rs` says they mean.

**The protected state.** `file` is the decoded `state-root.dpapi` (counter,
generation, rows under the commitment, clock mark), `db` the committed rows,
`lock` the lock file. `writer[w]` is where a process is in the sequence the
functions of `openloops-persistence` ask for, with the bundle and reservation it
was handed; calls that consume the bundle and fail leave it without one, so it
has to reconcile again. A row is named by the attempt it was sealed under, which
is how "no nonce twice" and "no row lost" become statements about sets of
numbers. The commitment is ideal (equal exactly for equal rows). No code calls
this sequence yet: `seal_batch` counts in a usage record of its own, and the
model takes it to be the durable one, which is the composition its comment
leaves to the state root.

**The review.** `messages`, `key`, `failed`, `analysed` and `summary` are fields
of `ReviewState` (`key[m]` is the conversation of a message, renamed when threads
are merged); `cards[m]` counts the cards a message is the evidence of. `job` is
`AppModel.pending` with what its thread has worked out so far, `cancel` the stop
flag of its `ScanProgress`. A scan is one action per phase: `RulesPhase`,
`DecidePhase` (triage or extraction) and `PrimaryPhase`, each taking any outcomes
the pool may return (`PassOutcomes`: nothing is left unstarted unless a reply or
the user stopped the phase, which is what `JobPool` promises). `set_scan` and
`merge_scan` are `poll` applying the result. `read` is history: the messages whose
text some request of the scan now on show covered. `cut` says what would excuse
a difference: a scan the user stopped, that failed as a whole or whose extraction
lost paragraphs (`short`), or one in which the rule model joined conversations
only in the scan's copy of the mail (`rejoined`); a full scan clears it.

**The closure walk.** `walk[l]` is the walk of one open loop: its `later`
messages in time order, whether it `stopped`, whether it `closed`, whether it
expires with an `event`. A pass is a sequence of actions named after the
requests it makes: `ExpiryChoice` and `ExpiryEnds` match loops to events,
`StartRound` and `RoundAnswered` ask every walk about its next message,
`HandoffRound` and the date round put the follow-up questions, expiry ends what
is still open, and the chat model is asked about what was escalated
(`chat_reach`) or, without a decision model, about everything. Each request
fails or not independently, and a request is cut only once the user has stopped
(`Sent`). A loop whose request failed or whose message is put to the chat model
stops there (`EndInDoubt`); an escalated message stays the next of its walk, as
in the code. The chat model's evidence may be a message of the conversation it
was asked about or one that another loop of the same request stems from. Which
answers a decision model may give for which author, and what they lead to, is
`StepVerdict`: the tables of `closure_walk.rs` as sets of verdicts, so that TLC
chooses among the outcomes of the code and not among arbitrary changes. `item`
is the scan's copy of a card, `card` what the user sees of a loop found by an
earlier scan; the last step merges one into the other.

**Loop commands.** `loop[l]` is a loop's facets and version, `log[l]` the
transitions committed for it, `ledger[k]` what was recorded under an idempotency
key. `ApplyCommand` is `apply_command` in the order of its checks: the key, the
version, the precondition of the command, the transition its builder makes,
`Transition::new` with `legality::validate` and the references. Of the facets no
rule of `validate` reads, the source state is kept (available or not): the
automated actor changes it, every builder copies it, none looks at it. A request
is any combination of key, loop, payload and a version the client may have seen,
so repetition, delay and reuse of a key need no actions of their own. The
automated actor proposes, ages and notes under the restrictions of
`Transition::new`. No crate calls these functions yet; that what they return is
committed in one step is the contract in
`contracts/domain/policy-state-boundary.json`.

**Ingestion.** `PlanPage` is `plan_page_transaction` for the page the host asks
for (reads only), `CommitPage` is `commit_planned_page` (all rows and the
checkpoint), and between them the job may fail, panic or die with the process.
`observations` and `checkpoints` are the durable rows; `at` is the page the host
asks for, which after a `Crash` may be any page up to the durable cursor, because
the source is at-least-once and the checkpoint is private to the module.
`job`, `since` and `age` are the scheduler's lease and clock: one lease and one
last run for all collections. `key` stands for a message version; what the source
says of a message (draft, unread, read, sent) belongs to each listing, and another
listing of the same version may say something else.

### Planned, in this order

1. `SignIn`: transaction, callback, cancel, expiry; the session cache with jobs
   that share it. (Jobs of one window are serialized by its connecting flag, so
   what is left is the mutex-guarded pending transaction.)
2. A refinement for the review: an abstract report (each conversation is
   analysed, known to hold nothing, or listed for retry) implemented by
   `ReviewCoverage`.
3. `LoopLinks` and suggestions: link pairs and their store (shares the shape of
   `LoopRecords`), and the cap of eight loops per request in a larger walk.
4. `TaskReconcile` for the To Do enumeration.
5. `Deadlines`, `AnswerValidation`: pure operators checked against reference
   definitions over bounded inputs.

Every safety property of the passing runs is stated by a theorem. Theorems planned
beyond those: that the abstract report of point 2 is implemented, with its module.

## 3. Runs

| run | module | asks | bounds and why they suffice |
|---|---|---|---|
| `pool_passes` | `ParallelPass` | is anything sent twice, lost or misreported; does the threaded pool implement `JobPool`; does every scan end | 2 workers, 3 jobs, 2 passes, raise after 2: the limiter narrows and widens again while a worker is parked, and a stop in the first pass must not leak into the second; replies cover all three signals and a panic; cancel at any step; fair threads (section 4) |
| `reminder_windows` | `ReminderLifecycle` | is a task forgotten or doubled, a decision lost, a record untrue | 2 loops, 2 windows, 9 moves of users, clocks and crashes: a full create attempt with a crash or lost answer and a reconcile, against another window. The store has room for one record, and is full when it carries ids: both limits are reached |
| `reminder_completes_unsaved`, `reminder_own_completion` | `ReminderLifecycle` | two statements of the documentation that the code does not keep (section 6) | 1 loop, 1 window |
| `ledger_serialized` | `OperationLedger` | effects, attempts, durability, cursor | 2 callers, 2 keys; the state space is finite without a bound because attempts are |
| `review_coverage` | `MCReview` | does the review say what was read, and keep what failed on its list | two Outlook messages whose threads are merged at once, and one from Gmail; or the two alone, with threads only the rule model joins. Three messages give conversations of one and two messages, inside and outside the scope of a retry; the errors are one of each kind (stops the pool and can be retried, slows it and cannot, the user's stop); all three settings of the decision model. Finite without further bounds |
| `review_extraction_stop` | `MCReview` | a statement of the documentation (section 6) | the same mail, extraction by the decision model |
| `state_root_store` | `StateRoot` | is everything published shown again or refused, is an attempt ever spent twice | 2 writers, a hard limit of 5 attempts and rotation from 4, batches of up to 3: several batches, one that reaches the limit and one that would pass it; 3 generations, so one commit finds the last; finite without further bounds |
| `closure_walk` | `MCClosure` | is a closed loop closed for good, is a chaser taken for an answer, does a message change a loop that is in doubt, are the suggestions counted right, does the pass end | 2 loops in 2 conversations, one with an event, one offered again by a check for new mail; 2 later messages by anybody in either conversation, all combinations; a cap of one conversation, which bites, and of two loops per request, so that what one loop stems from can be evidence for the other (the cap on loops is left to the theorems); about 243,000 states, no further bound. Two messages are what it takes to judge one after an unsure one, or to chase an answered request |
| `loop_commands` | `MCLoops` | does a key take effect once, is a two-loop step whole, does the user's decision stand, is a command refused only because the loop is aging (or its source gone) | 2 loops, 2 keys, 1 reference, one deadline on a clock of two instants, every history of at most 2 transitions in all (`FewTransitions`) and every step TLC can take from one, which it checks too: a decision, an automated update and another command, or a merge and a command on either loop; about 41,000 states within the bound. Keys and loops are symmetric: no formula of the model tells two apart |
| `loop_overdue` | `MCLoops` | a statement of the contract (section 6) | the same, 2 transitions |
| `ingestion_pages` | `MCIngestion` | does the cursor skip, repeat or interrupt, and is the mail of a collection read to its end | 2 collections, 3 message versions (one always fails, one is listed as unread and as read), up to 2 pages each, some with an item the other lists too; 2 attempts per item, a cadence between its bounds, 1 crash: about 103,000 states. A page before, on and after the one that closes the first window, and one page replayed behind the cursor |

`MaxActions` bounds the moves of users, crashes and clocks, never the steps of a
job under way; `Offered` and `OfferedDecisions` choose which replies and
decisions occur in an instance; `FewTransitions` cuts histories, `MaxVersion`
lies above it so that the last version is not what stops them. The reminder runs
have `CHECK_DEADLOCK FALSE` because they stop at `MaxActions`, and `closure_walk`
because a pass ends; all others are checked for deadlock (the pool has the
explicit end `Finished`; the scheduler, the review and the ledger never stop).

The sizes in the reminder runs are in "record rows": the real store has 55
records and 2560 bytes, and two ids cost several times what a bare record does.
What matters is the order of the limits (a set can be under the record cap and
still not fit), which the small numbers keep.

Every property of a passing run has a mutant in `PROJECT.json`: a definition of
the model changed the way a slip in the code would change it (the operators
commented "Deviation:"), under which TLC finds the property violated.

## 4. Fairness

Three properties assume any.

* `ScanEnds`: `WF` for each worker thread (the operating system schedules
  threads; every provider request carries a deadline, so `JobReturns` is not
  optional; `PARK_INTERVAL` makes a park end by itself) and for the caller after
  the join. The user is never assumed to cancel, and a cancel notifies nobody,
  so the property also says that a parked worker finds out on its own.
* `PassEnds`: `WF` of the pass as one thread, for the same reason. Nothing is
  assumed about what the models answer.
* `MailIsRead`: time passes, the host goes on calling `run_due`, and a job returns
  (`WF`, none of them for a collection of its own); a page that can be planned or
  committed again and again once is (`SF`): the provider and the store do not
  fail for ever. Which collection the host asks for is left open, so the property
  has two parts. Jobs run again and again, after any failure and any panic; and
  a collection whose jobs are started again and again is read to its end, whatever
  cannot be classified. That every collection gets its turn is not claimed: all
  share one last run, so it is the host's order that decides (section 6). Crashes
  are bounded.

## 5. Proofs

TLC checks the instances above; the theorems hold for every value of the
constants, from the named assumptions in the modules.

`ParallelPass_proofs` (any ceiling, job count, number of passes, set of replies):

* `TypeCorrect`: in particular the limiter stays in `1..Max`. If it could reach
  zero, all workers would park.
* `PoolInvariant`: the inductive invariant `PoolInv`. `NothingResent` alone is not
  inductive (it says nothing of the worker about to send), so `PoolInv` adds the
  owner: a fetched index is held by exactly one worker until it is reported
  (`OneOwner`), its send count follows the owner's program point, every index
  below the cursor is reported or held and every index above is untouched
  (`JobsAccounted`), and nobody leaves or reports `NotStarted` unless the pass is
  over or halted (`UnsentOnlyWhenHalted`). Most actions touch none of this;
  `QuietStep` and `ReportStep` say so once.
* `NeverResent`, `TruthfulReports`, `CompletePass` follow.

`ImplementsPool` (in the same module) is the step simulation of `JobPool`. The
mapping asks for *some* worker that holds a job and chooses one; `ShapeHolds`
shows from `PoolInv` that there is one at most, so a job is its report, or its
holder's `View`, or queued. Then `SameJobs` and `OtherJobs` reduce a step to what
it does to views: most actions change none (`QuietImplements`), `AdjacentCheck` is
`Send`, `JobReturns` is `Answer`, `PostClaimCheck`, `PushOutcome` of an unsent job
and `FillMissing` are `GiveUp`, the stop and the cancel are `Halt`, `Restart` is
`NextPass`.

`OperationLedger_proofs` (any set of callers and keys, callers serialized as the
module's contract asks of them):

* `LastRowIsTruth`: with one caller at a time the last row tells what was asked
  of the provider (`LastRowTells`) and the caller under way holds it
  (`CallerHoldsLast`). The inductive invariant adds `HistoryIsALine` (generations
  are consecutive, so "latest" is the last row: `LatestIsLast`) and
  `AttemptsAreRows`.
* `TypeCorrect`, `OneEffect`, `DurableFirst`, `CursorWaits` follow for the
  properties of the run, and `ThreeRequests` and `OneCurrentRow` for two more
  definitions of the module: the attempt limit, and one row per generation.

`StateRoot_proofs` (any set of writers, any limits, any clock readings):

* The inductive invariant `IInv` is the conjunction of what the run checks.
  `SpentOnce` is not inductive alone: a seal spends the attempts of the batch in
  the writer's hands, so one has to know that these lie below the counter of the
  *file* and are unspent, and that the bundle the next reservation starts from is
  the file's. That is `RootInv`, and it holds only because whoever is past the
  start holds the lock (`LockHeld`): hence `Alone` and `StepOfOne`, which reduce
  every step to the one writer that takes it. `DropKeepsInv` covers all steps
  that give up, `HolderKeepsInv` those that go on, `OutsideKeepsInv` the world.
* `TypeCorrect`, `AttemptsSpentOnce`, `RootAgrees`, `BoundedDamage` follow.
* `ImplementsStore`: initial states map to initial states and each step to a step
  of `ConfirmedStore` or a stutter (`StepImplements`): writing the anchor extends
  its content, a successful reopen publishes, everything else at most turns the
  next start into a refusal or back.

`LoopCommands_proofs` (any set of loops, keys and references, any deadlines):

* `Invariance`: the types (which include `Legal`, the legality rules over the
  facets) and `LedgerIsTheHistory`: a key has a record exactly when the log of
  its loop holds the transition made under it, at the version recorded, and
  nowhere else. A key in two logs, or twice in one, contradicts it; this is why
  looking the key up before the version is compared is enough.
* `LoopsAreTyped`, `KeysApplyOnce`, `UsersDecide` (an action property: what the
  restrictions on the automated actor leave it) and `RefusalsAreAging` follow.
  The latter from `BuiltWhateverTheSource`, which says more: the source state
  makes no difference to any command.
* `TwoLoopStepsStayWhole` is inductive beside the types: an entry appended to one log adds
  one to the half its reason names (`HalvesGrow`) or nothing to it (`HalvesStay`), and a
  two-loop step appends to both logs.

`ReminderLifecycle_proofs` (any set of windows and loops, any limits of the store,
any number of moves):

* The invariant is a budget. A *token* of a loop is a task that exists, a post
  nobody waits for any more, or a window whose job may still post. `Within`: a loop
  holds at most one token and one more for every time the user answered that no
  task was created; and one less while its stored record reads "None", which is
  what lets a window attempt again. `NoDuplicateTask` alone is not inductive: it
  says nothing of a job that has not posted yet, and it does not connect the
  number of tasks with the stored record that keeps the next attempt away. The
  connection holds although each window decides from its own memory, because a
  window's memory is what it last read or wrote (`Synced`) and `save` compares it
  with the store; an attempt pays for its token by leaving "None", a job that puts
  "None" back gives its own token up.
* `TypeCorrect`, `AtMostOneTask`, `AttemptsAreRemembered`, `StoreIsTrue` and
  `DecisionsSurvive` (an action property) follow. The assumptions are that there is a
  loop (`KeysExist`: a job's empty state holds some key) and that loops and windows
  are finite in number.

`ClosureWalk_proofs` (any finite set of loops, any mail, conversations, authors among
the three kinds `closure_walk_role` knows, any caps of the chat model's requests):

* The invariant `IInv` says per loop (`LoopInv`) what its walk, questions, reach and
  card know of each other: resolved exactly if closed (`ClosedWalk`); all that was
  applied lies before all that is left to read (`Past`), without which a round does
  not keep `ClosedIsFinal`; a loop in doubt has stopped, has no question pending
  and, if it was skipped, is not put to the chat model (`DoubtEnds`), so that no
  later round reaches it; what a prior loop gets beyond its old suggestion rests
  on a message the check brought (`PriorLoop`, `News`).
* The rounds are proved by the shape of what they do: `VerdictShape` states what any
  verdict of `StepVerdict` does to a card and its walk, `RoundShape` that a round
  follows one walk per loop, and then each conjunct is one lemma.
* `TheCountIsTrue` has the counting inside it: `suggested_updates` is changed by
  subtracting what was taken back and adding what was set, with a subtraction that
  stops at zero. `CountsMove` and `CountedIsTrue` show that until the merge it never
  has to, so the number is exact there and after a full scan. In the merge of a
  check for new mail it may: there the theorem gives the bounds that are left.
* `DoubtIsTheEnd` is about steps: `QuietSteps`, `RoundDoubt`, `FollowUpDoubt` and
  `EndDoubt` say of each action what it does to a loop in doubt.
* `TypeCorrect`, `ClosuresAreFinal`, `ChasingOutlivesReplies` follow from `IInv`.
  `BoundsAreKnown` (finitely many loops and messages in one scan) is what
  the code's vectors give.

`Ingestion_proofs` (any collections, pages, attempts, failing items, cadence and
number of crashes):

* `Invariance`: what is planned is what the durable rows of this moment lead to.
  The rows and the checkpoint were read when the page was planned; that they are
  still true at the commit follows from the one lease (`planned` belongs to `job`
  and only a job writes), not from anything the commit checks. Generations in the
  checkpoint rows are consecutive, so the checkpoint with the highest generation
  is the last row.
* `RowsAreTyped`, `NothingIsSkipped`, `VersionsAreRecordedOnce`, `HistoryWaits`
  follow.

`ReviewCoverage_proofs` (any finite set of messages, any grouping of them into
conversations, any users, settings and errors):

* `NothingDropped` says one thing of an idle review; a load breaks it (new mail is
  neither read nor listed) and the scan that follows mends it. The invariant
  therefore speaks of all states: `ReadIsUnlisted` says that outside the scope of
  the scan under way a message is read exactly if its conversation is not listed.
  Loads keep it because whatever they add or rename is in the scope of the scan they
  start (`LoadStep`, `ChangedType`).
* A scan gives its scope back through its result: `Told` says that a result that is
  not cut has covered exactly what it does not list, and that its counts are those
  of what it covered. `PrimaryCounts` proves it of the primary pass from what the
  phase before left: a conversation is skipped only if every paragraph of it was
  answered (`SkippedIsAnswered`), which holds because a pass that leaves a
  paragraph out either met an error that stops it, and then skips nothing, or was
  stopped by the user, and then is cut.
* `set_scan` and `merge_scan` turn `Told` into `ReadIsUnlisted` again, for everything
  or for the scope (`MergeReads`); the summary follows by counting (`ListingAndRead`).
* `TypeCorrect`, `NothingIsDropped`, `TheCountsAreTrue`, `CardsAreReplaced` and
  `FailuresStayListed` (an action property) follow. `MailIsFinite` is assumed: the
  providers hold finitely many messages.

Only model-checked: `ScanEnds`, `PassEnds` and `MailIsRead` (liveness is out of
the prover's reach). What recursive definitions
compute for every input is not proved either (no induction over data): the
proofs use folds and sums through what one step does to them.

## 6. Where code and documentation part

The first four are runs that TLC must find violated; the texts are quoted in
`PROJECT.json` under `findings`.

* `CompletesOnlyHandled`: "Handled" completes the linked task even when saving
  the decision failed, though the comment says it is dispatched after the save.
* `CompletedMeansOutside`: Handled, then Reopen, then a status sync: the program
  meets its own completion and records it as made outside OpenLoops.
* `AnalysedMeansRead`: when a provider error stops extraction by the decision
  model, the paragraphs nobody asked about become empty answers, and their
  conversations are counted as analysed.
* `OpenLoopsCanBeEnded`: every builder that ends a loop copies its deadline state,
  and an ended loop may be neither approaching nor overdue; no command changes
  the deadline state, so once a loop has aged all closing commands are refused.

Further divergences, met while modelling and without a run of their own:

* Cancelling a draft reverts a "Mine" the user chose by button while it was open.
* `commit_eligible_retry` looks at the caller's copy only; with overlapping
  callers it retries an operation that is no longer retryable, which its error's
  documentation rules out. The ledger's run and theorems are under `Serialized`.
* `docs/inbox-review.md:239` says what the decision model is unsure of goes to the
  chat model, for at most 40 conversations; `closure_jobs` also drops the loops
  beyond `MAX_LOOP_HANDLES` of one conversation, and both are dropped after they
  were counted as escalated.
* `review_scan.rs:1653` documents `suggested_updates` as the suggestions found;
  in a check for new mail `take_prior_updates` subtracts every suggestion a prior
  card already had and is cut off at zero, so the number can be too small, by at most
  the number of those cards; `CountsAreTrue` gives the bounds. A prior loop whose event has
  passed is not carried over, though `docs/inbox-review.md:48` says checks cover
  what is open already.
* `build_keep_open` and `build_request_evidence` set the closure review without
  looking at the hypothesis they are about; `apply_remap_evidence` and
  `apply_duplicate_merge` take no key and accept a loop as its own counterpart
  (two transitions from one version, of which their caller could commit only
  one); the model remaps and merges two different loops.
* A page that lists an item twice writes two rows for it, in one commit, where
  `contracts/synchronization/mail-sync-boundary.json:109` asks to deduplicate every
  item; the run has such a page, and `RecordedByOneCommit` says what does hold.
  `last_complete_at`, which line 97 ties to the end of a round, is never set.
* All collections share one last run (`scheduler.rs:180`, 209, 239), though the
  leases are one per collection: a host that asks for them in a fixed order starves
  the later ones, and after a collection that has backed off ran, the others are
  not due either. `docs/threat-model/graph-mail-content.md:37` wants each to be a
  job of its own that does not block another. There is no host yet, so no property
  is about it (section 4). The retry of quarantined items, `BackoffPolicy` and
  `run_due` have no callers yet.
* `legality.rs:26` says that `establishment::decide` and `apply_command` require an
  available source before a promotion or a command may pass. Neither reads the
  source state: `decide` looks at the validity of the evidence, and every builder
  copies the facet. `RefusedOnlyWhenAging` therefore speaks of loops whose source
  is available, where the documentation and the code agree, and the theorem
  `BuiltWhateverTheSource` shows what the code does with the others.
* A message version that was recorded while it was not to be looked at, as unread
  mail, and is listed as read under the same version counts as a replay
  (`ingestion.rs:389`) and is never looked at, where
  `contracts/synchronization/mail-sync-boundary.json` asks to analyse it once when
  the later observation establishes the change to read. Whether reading changes
  the version is up to the source, which does not exist yet; `NothingSkipped` names
  the exception.
Three behaviours that no document rules out are in the review's model and excused by
`cut` or by a condition of the property; they are listed as hazards: a check
whose scan fails or is stopped leaves its mail unscanned, and the next check finds
nothing new; conversations that the rule model joins inside a scan no longer match
the names the check or retry was started with; a message that bridges two threads
leaves failures under the old name on the list.

## 7. What is not modelled

Text and bytes: canonicalisation of messages, prompts, redaction of names,
rendering, encodings, the cryptographic primitives. They have no concurrency and
no durable state; a model would be a transcription. HTTP transports: the models
start from the classes of answer the transports return. The evaluation and
harness programs, the contract catalogues and the Outlook add-in are development
tools or separate programs. The progress counters of the pool are carried
(`conversation_index`, `active_requests`, `processed`) because `NotStarted`
exits have to undo them, but no property is about them. Of the closure walk the
quotes, notes, several accounts and shared mailboxes are left out; of the domain
the facets that `legality::validate` and the builders leave alone (review flags but
one, reminder and analysis state, provenance); of ingestion the
envelopes (an append happens or does not; `StateRoot` models how), and
`BackoffPolicy` and `hand_off_to_quarantine`, which keep no state and which
nothing calls. The remaining components without a module are in the plan above;
`PROJECT.json` lists every component with its status.
