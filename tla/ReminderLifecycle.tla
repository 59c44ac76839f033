-------------------------- MODULE ReminderLifecycle --------------------------
(***************************************************************************)
(* From a decision button to a task at Microsoft To Do or Google Tasks and *)
(* back.  Each running copy of the desktop (a window) holds the decision   *)
(* records in memory and saves them with a compare-and-set on one shared   *)
(* credential (loop_state.rs).  A reminder is recorded as attempted before *)
(* its task is posted, at most one background job runs per window, and its *)
(* outcome is applied when the window polls it (slint_review.rs,           *)
(* app_model.rs, live/reminders.rs, live/google/tasks.rs).                 *)
(*                                                                         *)
(* A window may be killed at any step; a posted request may be answered,   *)
(* refused, lost, or arrive after the window stopped waiting for it.       *)
(***************************************************************************)
EXTENDS LoopRecords

CONSTANTS Windows,          \* running copies of the program
          OfferedDecisions, \* the decisions users take in this instance
          MaxActions        \* bound on the moves of users, clocks and crashes

ASSUME WindowsAssumption == IsFiniteSet(Windows)
ASSUME OfferedAssumption == OfferedDecisions \subseteq Decisions
ASSUME ActionsAssumption == MaxActions \in Nat
ASSUME KeysExist == Keys # {}

VARIABLES
  credential, \* [exists, store]: the stored blob
  up,         \* "closed", "opening" (first launch, nothing stored yet), "ready"
  records,    \* the records in a window's memory
  previous,   \* the blob a window last read or wrote
  error,      \* the latched storage error
  draft,      \* the open reminder draft: [open, key, prior]
  job,        \* the window's background job
  made,       \* history: tasks the provider created for a loop
  late,       \* posts nobody waits for any more, still under way
  patches,    \* completion requests under way
  completed,  \* loops whose task reads as completed at the provider
  outside,    \* history: loops whose task the user completed at the provider
  denied,     \* history: how often the user answered "no task was created"
  actions

window == <<up, records, previous, error, draft, job>>
world  == <<made, late, patches, completed, outside, denied>>
vars   == <<credential, window, world, actions>>

AnyKey  == CHOOSE k \in Keys : TRUE
NoDraft == [open |-> FALSE, key |-> AnyKey, prior |-> "Review"]
NoJob   == [kind |-> "none", key |-> AnyKey, phase |-> "none", cached |-> FALSE, found |-> {}]
Job(kind, k, phase, cached) ==
  [kind |-> kind, key |-> k, phase |-> phase, cached |-> cached, found |-> {}]

Init ==
  /\ credential = [exists |-> FALSE, store |-> Empty]
  /\ up = [w \in Windows |-> "closed"]
  /\ records = [w \in Windows |-> Empty]
  /\ previous = [w \in Windows |-> Empty]
  /\ error = [w \in Windows |-> FALSE]
  /\ draft = [w \in Windows |-> NoDraft]
  /\ job = [w \in Windows |-> NoJob]
  /\ made = [k \in Keys |-> 0]
  /\ late = [k \in Keys |-> 0]
  /\ patches = {}
  /\ completed = {}
  /\ outside = {}
  /\ denied = [k \in Keys |-> 0]
  /\ actions = 0

Act == actions < MaxActions /\ actions' = actions + 1

\* The buttons are disabled while a job is pending.
Idle(w) == up[w] = "ready" /\ job[w] = NoJob
In(w, kind, phase) == job[w].kind = kind /\ job[w].phase = phase

------------------------------------------------------------------------------
(* Decisions::update and save. *)

SaveResults == {"ok", "limit", "failed", "refused"}

Unsaved(w) == UNCHANGED <<credential, records, previous>>

\* Deviation: the save overwrites whatever another window stored.
UpdateWithoutCompare(w, k, r, result) ==
  LET next == Put(records[w], k, r)
  IN \/ /\ result = "ok" /\ ~error[w] /\ HasRoom(records[w], k) /\ Fits(next)
        /\ credential' = [exists |-> TRUE, store |-> next]
        /\ records' = [records EXCEPT ![w] = next]
        /\ previous' = [previous EXCEPT ![w] = next]
        /\ UNCHANGED error
     \/ /\ result = "failed" /\ ~error[w] /\ HasRoom(records[w], k)
        /\ error' = [error EXCEPT ![w] = TRUE]
        /\ Unsaved(w)

\* "ok": the credential still holds what this window last knew and the new set
\* fits; "limit": no room, nothing changes; "failed": the writer lock, the
\* compare, the size check or the store itself failed, memory is restored and
\* the error latched; "refused": the latched error.
Update(w, k, r, result) ==
  LET next == Put(records[w], k, r)
  IN \/ /\ result = "ok" /\ ~error[w] /\ HasRoom(records[w], k) /\ Fits(next)
        /\ credential = [exists |-> TRUE, store |-> previous[w]]
        /\ credential' = [exists |-> TRUE, store |-> next]
        /\ records' = [records EXCEPT ![w] = next]
        /\ previous' = [previous EXCEPT ![w] = next]
        /\ UNCHANGED error
     \/ /\ result = "limit" /\ ~error[w] /\ ~HasRoom(records[w], k)
        /\ Unsaved(w) /\ UNCHANGED error
     \/ /\ result = "failed" /\ ~error[w] /\ HasRoom(records[w], k)
        /\ error' = [error EXCEPT ![w] = TRUE]
        /\ Unsaved(w)
     \/ /\ result = "refused" /\ error[w]
        /\ Unsaved(w) /\ UNCHANGED error

\* The record of k as w remembers it, with another reminder state.
Remembered(w, k, reminder) == Record(records[w][k].decision, reminder)

\* apply_decision_change closes the draft of a card that became terminal, but
\* only when the change was saved.
CloseTerminalDraft(w, k, decision, result) ==
  draft' = IF result = "ok" /\ draft[w].open /\ draft[w].key = k /\ decision \in Terminal
             THEN [draft EXCEPT ![w] = NoDraft] ELSE draft

------------------------------------------------------------------------------
(* A window opens the store, or goes away. *)

\* Decisions::open, at launch and whenever the review state is rebuilt.
OpenStore(w) ==
  /\ up[w] = "closed" \/ Idle(w)
  /\ Act
  /\ up' = [up EXCEPT ![w] = IF credential.exists THEN "ready" ELSE "opening"]
  /\ records' = [records EXCEPT ![w] = credential.store]
  /\ previous' = [previous EXCEPT ![w] = credential.store]
  /\ error' = [error EXCEPT ![w] = FALSE]
  /\ draft' = [draft EXCEPT ![w] = NoDraft]
  /\ UNCHANGED <<credential, job, world>>

\* The blob could not be read or decoded.
OpenUnreadable(w) ==
  /\ up[w] = "closed" \/ Idle(w)
  /\ Act
  /\ up' = [up EXCEPT ![w] = "ready"]
  /\ records' = [records EXCEPT ![w] = Empty]
  /\ previous' = [previous EXCEPT ![w] = Empty]
  /\ error' = [error EXCEPT ![w] = TRUE]
  /\ draft' = [draft EXCEPT ![w] = NoDraft]
  /\ UNCHANGED <<credential, job, world>>

\* Nothing was stored yet: save the empty set, unless another window was first.
FirstSave(w) ==
  /\ up[w] = "opening"
  /\ up' = [up EXCEPT ![w] = "ready"]
  /\ \/ /\ ~credential.exists
        /\ credential' = [exists |-> TRUE, store |-> Empty]
        /\ UNCHANGED error
     \/ /\ error' = [error EXCEPT ![w] = TRUE]
        /\ UNCHANGED credential
  /\ UNCHANGED <<records, previous, draft, job, world, actions>>

\* A job that goes away with its post unanswered leaves the post under way.
Orphaned(w) ==
  late' = IF In(w, "create", "posted") THEN [late EXCEPT ![job[w].key] = @ + 1] ELSE late

\* The process is closed or killed.
Exit(w) ==
  /\ up[w] # "closed"
  /\ Act
  /\ up' = [up EXCEPT ![w] = "closed"]
  /\ records' = [records EXCEPT ![w] = Empty]
  /\ previous' = [previous EXCEPT ![w] = Empty]
  /\ error' = [error EXCEPT ![w] = FALSE]
  /\ draft' = [draft EXCEPT ![w] = NoDraft]
  /\ job' = [job EXCEPT ![w] = NoJob]
  /\ Orphaned(w)
  /\ UNCHANGED <<credential, made, patches, completed, outside, denied>>

\* The job's thread panicked: pending_disconnected clears the job only.
WorkerPanics(w) ==
  /\ job[w] # NoJob
  /\ job[w].phase \notin {"dispatch", "apply"}
  /\ Act
  /\ job' = [job EXCEPT ![w] = NoJob]
  /\ Orphaned(w)
  /\ UNCHANGED <<credential, up, records, previous, error, draft, made, patches,
                 completed, outside, denied>>

------------------------------------------------------------------------------
(* Decisions and the reminder draft. *)

\* decide_selected: the linked task is completed whenever Handled was pressed
\* on a card with known ids and the account is configured.
Decide(w, k, decision) ==
  /\ Idle(w)
  /\ Act
  /\ \E resolved \in BOOLEAN, result \in SaveResults, configured \in BOOLEAN :
       /\ decision \in CardDecisions(records[w][k], resolved)
       /\ Update(w, k, Record(decision, records[w][k].reminder), result)
       /\ CloseTerminalDraft(w, k, decision, result)
       /\ job' = IF CompletesTask(decision, records[w][k]) /\ configured
                 THEN [job EXCEPT ![w] = Job("complete", k, "prepare", FALSE)] ELSE job
  /\ UNCHANGED <<up, world>>

\* on_open_reminder: opening a draft implies tracking; a draft open on another
\* card is replaced.
OpenReminder(w, k) ==
  /\ Idle(w)
  /\ Act
  /\ records[w][k].reminder = "None"
  /\ ~(draft[w].open /\ draft[w].key = k)
  /\ \E resolved \in BOOLEAN : ~Closed(records[w][k], resolved)
  /\ \E result \in SaveResults :
       Update(w, k, Record(decision_after_setting_reminder(records[w][k].decision), "None"), result)
  /\ draft' = [draft EXCEPT ![w] = [open |-> TRUE, key |-> k,
                                   prior |-> records[w][k].decision]]
  /\ UNCHANGED <<up, job, world>>

\* revert_draft_decision, from Cancel, a finished rescan or a removed account,
\* and from Escape, which unlike the buttons also works while a job is pending.
CancelReminder(w) ==
  /\ up[w] = "ready"
  /\ Act
  /\ draft[w].open
  /\ LET k == draft[w].key IN
     IF RevertsOnCancel(draft[w].prior, records[w][k].decision)
     THEN \E result \in SaveResults : Update(w, k, Record("Review", records[w][k].reminder), result)
     ELSE Unsaved(w) /\ UNCHANGED error
  /\ draft' = [draft EXCEPT ![w] = NoDraft]
  /\ UNCHANGED <<up, job, world>>

\* on_create_reminder: begin_reminder records the attempt before anything is
\* dispatched; when it is refused the draft stays open.
CreateReminder(w) ==
  /\ Idle(w)
  /\ Act
  /\ draft[w].open
  /\ LET k == draft[w].key IN
     /\ records[w][k].decision \in {"Mine", "Watching"}
     /\ records[w][k].reminder = "None"
     /\ \E result \in SaveResults, cached \in BOOLEAN :
          /\ Update(w, k, Remembered(w, k, "Attempted"), result)
          /\ IF result = "ok"
             THEN /\ draft' = [draft EXCEPT ![w] = NoDraft]
                  /\ job' = [job EXCEPT ![w] = Job("create", k, "dispatch", cached)]
             ELSE UNCHANGED <<draft, job>>
  /\ UNCHANGED <<up, world>>

\* apply_reconcile: the user looked and tells whether the task exists.
Reconcile(w, k, exists) ==
  /\ Idle(w)
  /\ Act
  /\ records[w][k].reminder = "Attempted"
  /\ \E result \in SaveResults :
       /\ Update(w, k, Remembered(w, k, IF exists THEN "CreatedNoIds" ELSE "None"), result)
       /\ CloseTerminalDraft(w, k, records[w][k].decision, result)
       /\ denied' = IF exists \/ result # "ok" THEN denied ELSE [denied EXCEPT ![k] = @ + 1]
  /\ UNCHANGED <<up, job, made, late, patches, completed, outside>>

------------------------------------------------------------------------------
(* Creating the task. *)

\* Applies the job's outcome: one update, and the window is free again.
Conclude(w, reminder) ==
  /\ \E result \in SaveResults : Update(w, job[w].key, Remembered(w, job[w].key, reminder), result)
  /\ job' = [job EXCEPT ![w] = NoJob]

\* dispatch_pending_reminder with no usable account configuration.
DispatchFails(w) ==
  /\ In(w, "create", "dispatch")
  /\ Conclude(w, "None")
  /\ UNCHANGED <<up, draft, world, actions>>

Dispatch(w) ==
  /\ In(w, "create", "dispatch")
  /\ job' = [job EXCEPT ![w].phase = "prepare"]
  /\ UNCHANGED <<credential, up, records, previous, error, draft, world, actions>>

\* Deviation: the replay also covers a post that got no answer.
ReauthorizeAfterPost(w) ==
  /\ job[w].kind = "create" /\ job[w].phase \in {"prepare", "posted"}
  /\ job[w].cached
  /\ job' = [job EXCEPT ![w].cached = FALSE, ![w].phase = "prepare"]
  /\ Orphaned(w)
  /\ UNCHANGED <<credential, up, records, previous, error, draft, made, patches,
                 completed, outside, denied, actions>>

\* run_with_session: a cached token was rejected while the identity or the task
\* list was read; the session is cleared and the work runs once more.
Reauthorize(w) ==
  /\ In(w, "create", "prepare")
  /\ job[w].cached
  /\ job' = [job EXCEPT ![w].cached = FALSE]
  /\ UNCHANGED <<credential, up, records, previous, error, draft, world, actions>>

\* Everything that goes wrong before the post is a definite NotCreated.
NotCreated(w) ==
  /\ In(w, "create", "prepare")
  /\ Conclude(w, "None")
  /\ UNCHANGED <<up, draft, world, actions>>

Post(w) ==
  /\ In(w, "create", "prepare")
  /\ job' = [job EXCEPT ![w].phase = "posted"]
  /\ UNCHANGED <<credential, up, records, previous, error, draft, world, actions>>

\* The provider creates the task; its answer is on the way.
ProviderCreates(w) ==
  /\ In(w, "create", "posted")
  /\ made' = [made EXCEPT ![job[w].key] = @ + 1]
  /\ job' = [job EXCEPT ![w].phase = "made"]
  /\ UNCHANGED <<credential, up, records, previous, error, draft, late, patches,
                 completed, outside, denied, actions>>

\* Any status but the one that confirms the creation.
ProviderRefuses(w) ==
  /\ In(w, "create", "posted")
  /\ job' = [job EXCEPT ![w].phase = "refused"]
  /\ UNCHANGED <<credential, up, records, previous, error, draft, world, actions>>

\* Deviation: any answer to the post counts as created.
CreatedOnAnyAnswer(w) ==
  /\ job[w].kind = "create" /\ job[w].phase \in {"made", "refused"}
  /\ Conclude(w, "Created")
  /\ UNCHANGED <<up, draft, world, actions>>

\* A confirming answer with a usable task id.
Created(w) ==
  /\ In(w, "create", "made")
  /\ Conclude(w, "Created")
  /\ UNCHANGED <<up, draft, world, actions>>

\* Deviation: a post without a confirming answer counts as not created.
UncertainClears(w) ==
  /\ job[w].kind = "create" /\ job[w].phase \in {"posted", "made", "refused"}
  /\ Conclude(w, "None")
  /\ Orphaned(w)
  /\ UNCHANGED <<up, draft, made, patches, completed, outside, denied, actions>>

\* Anything but a confirming answer after the post: the record keeps Attempted.
Uncertain(w) ==
  /\ job[w].kind = "create" /\ job[w].phase \in {"posted", "made", "refused"}
  /\ Conclude(w, records[w][job[w].key].reminder)
  /\ Orphaned(w)
  /\ UNCHANGED <<up, draft, made, patches, completed, outside, denied, actions>>

\* A post nobody waits for reaches the provider after all, or is lost.
LatePost(k) ==
  /\ late[k] > 0
  /\ late' = [late EXCEPT ![k] = @ - 1]
  /\ \/ made' = [made EXCEPT ![k] = @ + 1]
     \/ UNCHANGED made
  /\ UNCHANGED <<credential, window, patches, completed, outside, denied, actions>>

------------------------------------------------------------------------------
(* Completing the task with the loop, and learning that it was completed. *)

\* reminders::complete: sign-in and identity first, then the PATCH.
SendPatch(w) ==
  /\ In(w, "complete", "prepare")
  /\ job' = [job EXCEPT ![w].phase = "sent"]
  /\ patches' = patches \cup {job[w].key}
  /\ UNCHANGED <<credential, up, records, previous, error, draft, made, late,
                 completed, outside, denied, actions>>

\* Completed, NotCompleted or Uncertain: only the status line tells.
CompletionEnds(w) ==
  /\ job[w].kind = "complete"
  /\ job' = [job EXCEPT ![w] = NoJob]
  /\ UNCHANGED <<credential, up, records, previous, error, draft, world, actions>>

PatchArrives(k) ==
  /\ k \in patches
  /\ patches' = patches \ {k}
  /\ \/ completed' = completed \cup {k}
     \/ UNCHANGED completed
  /\ UNCHANGED <<credential, window, made, late, outside, denied, actions>>

\* dispatch_reminder_sync, after a scan or from the toolbar.
StartSync(w) ==
  /\ Idle(w)
  /\ Act
  /\ \E k \in Keys : SyncEligible(records[w][k])
  /\ job' = [job EXCEPT ![w] = Job("sync", AnyKey, "read", FALSE)]
  /\ UNCHANGED <<credential, up, records, previous, error, draft, world>>

\* check_status of every eligible loop; any of them may be Unknown.
ReadStatus(w) ==
  /\ In(w, "sync", "read")
  /\ \E found \in SUBSET {k \in completed : SyncEligible(records[w][k])} :
       job' = [job EXCEPT ![w] = [@ EXCEPT !.phase = "apply", !.found = found]]
  /\ UNCHANGED <<credential, up, records, previous, error, draft, world, actions>>

\* reminder_sync_outcome, one completed loop at a time.
ApplyStatus(w, k) ==
  /\ In(w, "sync", "apply")
  /\ k \in job[w].found
  /\ job' = [job EXCEPT ![w].found = @ \ {k}]
  /\ IF records[w][k].reminder = "Created"
     THEN \E result \in SaveResults : Update(w, k, Record("Done", "Completed"), result)
     ELSE Unsaved(w) /\ UNCHANGED error
  /\ UNCHANGED <<up, draft, world, actions>>

SyncEnds(w) ==
  /\ In(w, "sync", "apply")
  /\ job[w].found = {}
  /\ job' = [job EXCEPT ![w] = NoJob]
  /\ UNCHANGED <<credential, up, records, previous, error, draft, world, actions>>

\* The user completes the task in To Do or Google Tasks.
CompletedOutside(k) ==
  /\ Act
  /\ made[k] > 0
  /\ completed' = completed \cup {k}
  /\ outside' = outside \cup {k}
  /\ UNCHANGED <<credential, window, made, late, patches, denied>>

\* TERMINAL_EXPIRY_SECONDS pass with no job running.
TimePasses ==
  /\ Act
  /\ \A w \in Windows : job[w] = NoJob
  /\ LET Age(store) == [k \in Keys |-> [store[k] EXCEPT !.aged = store[k].saved]]
     IN /\ credential' = [credential EXCEPT !.store = Age(@)]
        /\ records' = [w \in Windows |-> Age(records[w])]
        /\ previous' = [w \in Windows |-> Age(previous[w])]
  /\ UNCHANGED <<up, error, draft, job, world>>

Store(w)  == OpenStore(w) \/ OpenUnreadable(w) \/ FirstSave(w) \/ Exit(w) \/ WorkerPanics(w)
User(w)   == \/ \E k \in Keys, d \in OfferedDecisions : Decide(w, k, d)
             \/ \E k \in Keys : OpenReminder(w, k)
             \/ CancelReminder(w) \/ CreateReminder(w)
             \/ \E k \in Keys, exists \in BOOLEAN : Reconcile(w, k, exists)
Create(w) == \/ DispatchFails(w) \/ Dispatch(w) \/ Reauthorize(w) \/ NotCreated(w)
             \/ Post(w) \/ ProviderCreates(w) \/ ProviderRefuses(w) \/ Created(w) \/ Uncertain(w)
Finish(w) == \/ SendPatch(w) \/ CompletionEnds(w)
             \/ StartSync(w) \/ ReadStatus(w) \/ SyncEnds(w)
             \/ \E k \in Keys : ApplyStatus(w, k)
Elsewhere == \/ \E k \in Keys : LatePost(k) \/ PatchArrives(k) \/ CompletedOutside(k)
             \/ TimePasses

Next == (\E w \in Windows : Store(w) \/ User(w) \/ Create(w) \/ Finish(w)) \/ Elsewhere

Spec == Init /\ [][Next]_vars

------------------------------------------------------------------------------
Jobs == [kind : {"none", "create", "complete", "sync"}, key : Keys, cached : BOOLEAN,
         phase : {"none", "dispatch", "prepare", "posted", "made", "refused",
                  "sent", "read", "apply"},
         found : SUBSET Keys]

\* TypeOK: every variable has its type.
TypeOK ==
  /\ credential \in [exists : BOOLEAN, store : Stores]
  /\ up \in [Windows -> {"closed", "opening", "ready"}]
  /\ records \in [Windows -> Stores]
  /\ previous \in [Windows -> Stores]
  /\ error \in [Windows -> BOOLEAN]
  /\ draft \in [Windows -> [open : BOOLEAN, key : Keys, prior : Decisions]]
  /\ job \in [Windows -> Jobs]
  /\ made \in [Keys -> Nat]
  /\ late \in [Keys -> Nat]
  /\ denied \in [Keys -> Nat]
  /\ patches \subseteq Keys /\ completed \subseteq Keys /\ outside \subseteq Keys
  /\ actions \in 0..MaxActions

Posting(w, k) == job[w].kind = "create" /\ job[w].phase = "posted" /\ job[w].key = k

\* Tasks that exist for k or may still come to exist.
Exposure(k) == made[k] + late[k] + Cardinality({w \in Windows : Posting(w, k)})

\* OL-REM-008, "an attempt is saved before a task write": while a task exists or
\* may still be created for a loop, the stored record blocks another attempt,
\* across windows, crashes, expiry and failed saves (begin_reminder, update),
\* unless the user answered that no task was created.
NeverForgotten ==
  \A k \in Keys : Exposure(k) > 0 /\ denied[k] = 0 => credential.store[k].reminder # "None"

\* No duplicate task: each loop gets at most one task, plus one for every time
\* the user answered "no task was created" (begin_reminder's guard, the
\* compare-and-set of save, run_with_session's single replay before the post).
NoDuplicateTask == \A k \in Keys : Exposure(k) <= 1 + denied[k]

\* What the store claims about the provider is true: Created with ids is only
\* stored for a task that exists, Completed only for one that is completed.
StoreTellsTheTruth ==
  \A k \in Keys :
    /\ credential.store[k].reminder \in {"Created", "Completed"} => made[k] > 0
    /\ credential.store[k].reminder = "Completed" => k \in completed

\* "Your previous decisions have been preserved": a save changes the record it
\* was made for and drops expired ones; no window's stale copy ever overwrites
\* what another window stored for another loop (the compare in save).
Keeps(before, after) ==
  \/ after.decision = before.decision /\ after.reminder = before.reminder
  \/ Expired(before) /\ after = Default
NoLostDecision ==
  [][credential.exists =>
       \E k \in Keys : \A j \in Keys \ {k} :
         Keeps(credential.store[j], credential'.store[j])]_vars

\* Stated by decide_selected ("dispatched after the decision is already saved")
\* and reminders::complete ("never called until a card is marked Handled
\* locally"): a completion request belongs to a loop recorded as Done.
CompletesOnlyHandled ==
  \A w \in Windows :
    job[w].kind = "complete" => records[w][job[w].key].decision = "Done"

\* Stated by dispatch_reminder_sync and Reminder::Completed: a loop is recorded
\* as completed by its task only if the task was completed outside OpenLoops.
CompletedMeansOutside ==
  \A k \in Keys : credential.store[k].reminder = "Completed" => k \in outside
==============================================================================
