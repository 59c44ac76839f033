------------------------------ MODULE Ingestion ------------------------------
(***************************************************************************)
(* Ingestion of mail: a scheduler starts one page transaction at a time    *)
(* and each of them turns one delta page into rows that are appended       *)
(* together, the observations of its messages and the next checkpoint of   *)
(* its collection.                                                         *)
(*                                                                         *)
(* The provider lists pages; a page that was not committed is listed       *)
(* again, and after a restart the host may ask for any page up to the      *)
(* durable cursor once more (`current_checkpoint` is private to the        *)
(* module, and the source is at-least-once).  A key stands for a tested    *)
(* locator with its observed version; what the source says of it is part   *)
(* of each listing, and another listing may say something else.  What      *)
(* encrypts and writes the rows is StateRoot; here an append happens or    *)
(* does not.                                                               *)
(***************************************************************************)
EXTENDS Integers, Sequences, FiniteSets

CONSTANTS Collections, Keys,
          Pages,             \* the pages a provider may list
          Streams,           \* what it may list for the collections, page by page
          MaxItemAttempts,   \* max_item_attempts
          Poison,            \* items whose classification always fails
          Requested, MinCadence, MaxCadence,
          MaxCrashes,
          NoJob, NoPlan

\* An item is a draft, incoming mail seen unread or read for the first time
\* or read after it was seen unread, or a saved sent copy, first seen or not.
Kinds == {"draft", "unread", "read", "sentFirst", "sentAgain"}

Items == [key : Keys, kind : Kinds]

ASSUME IngestionAssumption ==
    /\ Pages \subseteq [items : Seq(Items), backfill : BOOLEAN, closes_round : BOOLEAN]
    /\ Streams \subseteq [Collections -> Seq(Pages)]
    /\ MaxItemAttempts \in Nat
    /\ Poison \subseteq Keys
    /\ MinCadence \in Nat /\ MaxCadence \in Nat /\ Requested \in Nat
    /\ MinCadence <= MaxCadence
    /\ MaxCrashes \in Nat
    /\ NoJob \notin Collections

VARIABLES stream,        \* [Collections -> the pages the provider lists]
          observations,  \* the message_observation rows
          checkpoints,   \* [Collections -> its sync_checkpoint rows, oldest first]
          at,            \* [Collections -> the page the host asks for next]
          job,           \* the collection whose job runs, or NoJob
          planned,       \* the page transaction that is planned, or NoPlan
          since,         \* seconds since the last start, at most the cadence; a
                         \* scheduler that never ran is as due as one that waited
          age,           \* the same for the job that runs
          crashes

vars == <<stream, observations, checkpoints, at, job, planned, since, age, crashes>>

durable == <<observations, checkpoints>>

clamp_poll_cadence_seconds(requested) ==
    IF requested < MinCadence THEN MinCadence
    ELSE IF requested > MaxCadence THEN MaxCadence
    ELSE requested

cadence_seconds == clamp_poll_cadence_seconds(Requested)

Eligibilities == {"NoCandidate", "HistoryReviewBatch", "AnalyzeOnce"}

Outcomes == {"NoCandidate", "NeedsReview", "Quarantined"}

\* A row of the store; `collection`, `generation` and `item` say which page
\* transaction wrote it for which of its items, `kind` how that was listed and
\* `eligibility` what it was then looked at for.
Observation == [key : Keys, outcome : Outcomes,
                kind : Kinds, eligibility : Eligibilities,
                collection : Collections, generation : Nat, item : Nat]

Checkpoint == [generation : Nat, cursor : Nat \ {0}, baseline_committed : BOOLEAN]

PlannedPage == [rows : SUBSET Observation, checkpoint : Checkpoint]

ASSUME NoPlanAssumption == NoPlan \notin PlannedPage

TypeOK ==
    /\ stream \in Streams
    /\ observations \subseteq Observation
    /\ checkpoints \in [Collections -> Seq(Checkpoint)]
    /\ at \in [Collections -> Nat \ {0}]
    /\ job \in Collections \cup {NoJob}
    /\ planned \in PlannedPage \cup {NoPlan}
    /\ planned # NoPlan => job # NoJob
    /\ since \in 0 .. cadence_seconds
    /\ age \in 0 .. cadence_seconds
    /\ crashes \in 0 .. MaxCrashes

-----------------------------------------------------------------------------
\* The checkpoint of a collection: of the rows with the highest generation
\* the last, as `max_by_key` picks it.  A collection without one starts at
\* its first page.
NoCheckpoint == [generation |-> -1, cursor |-> 1, baseline_committed |-> FALSE]

current_checkpoint(c) ==
    LET rows == checkpoints[c]
        highest == {i \in DOMAIN rows :
                      \A j \in DOMAIN rows : rows[j].generation <= rows[i].generation}
    IN
    IF rows = <<>> THEN NoCheckpoint
    ELSE rows[CHOOSE i \in highest : \A j \in highest : j <= i]

\* Mutant: what is in quarantine is looked at again.
RecordedForGood(key) == \E r \in observations : r.key = key /\ r.outcome # "Quarantined"

\* `existing_observation`: what is durably recorded, whatever collection or
\* page it came with.
Recorded(key) == \E r \in observations : r.key = key

classify_eligibility(kind, in_backfill_batch) ==
    CASE kind \in {"draft", "unread"} -> "NoCandidate"
      [] kind \notin {"draft", "unread"} /\ in_backfill_batch -> "HistoryReviewBatch"
      [] kind \in {"read", "sentFirst"} /\ ~in_backfill_batch -> "AnalyzeOnce"
      [] OTHER -> "NoCandidate"

\* Mutant: the page that closes the round is already behind the baseline.
InBackfillOnceClosed(page, checkpoint) ==
    page.backfill \/ ~(checkpoint.baseline_committed \/ page.closes_round)

\* An item in a page counts as history as long as no baseline is committed.
InBackfillBatch(page, checkpoint) ==
    page.backfill \/ ~checkpoint.baseline_committed

\* At least one attempt is made.
Attempts == IF MaxItemAttempts = 0 THEN 1 ELSE MaxItemAttempts

\* Mutant: a page is only planned once all its items can be classified.
FailuresWithinAttempts(page) ==
    {f \in [DOMAIN page.items -> 0 .. Attempts - 1] :
        \A i \in DOMAIN page.items : page.items[i].key \notin Poison}

\* How often the classification of the items of a page fails, at most.
Failures(page) ==
    {f \in [DOMAIN page.items -> 0 .. Attempts] :
        \A i \in DOMAIN page.items : page.items[i].key \in Poison => f[i] = Attempts}

\* Mutant: what cannot be classified is discarded.
OutcomeOrNothing(eligibility, failures) ==
    IF eligibility = "NoCandidate" \/ failures >= Attempts THEN "NoCandidate"
    ELSE "NeedsReview"

\* The outcome after so many failures: one more attempt, or quarantine.
OutcomeOf(eligibility, failures) ==
    IF failures >= Attempts THEN "Quarantined"
    ELSE IF eligibility = "NoCandidate" THEN "NoCandidate"
    ELSE "NeedsReview"

\* The rows a page adds: one for each item that is not recorded.
RowsFor(c, page, checkpoint, failures) ==
    {LET listed == page.items[i]
         eligibility == classify_eligibility(listed.kind, InBackfillBatch(page, checkpoint))
     IN [key |-> listed.key,
         outcome |-> OutcomeOf(eligibility, failures[i]),
         kind |-> listed.kind,
         eligibility |-> eligibility,
         collection |-> c,
         generation |-> checkpoint.generation + 1,
         item |-> i] : i \in {i \in DOMAIN page.items : ~Recorded(page.items[i].key)}}

NextCheckpoint(page, checkpoint, next_cursor) ==
    [generation |-> checkpoint.generation + 1,
     cursor |-> next_cursor,
     baseline_committed |-> checkpoint.baseline_committed \/ page.closes_round]

-----------------------------------------------------------------------------
is_due == since >= cadence_seconds

\* `run_due` takes the lease and starts the job of one collection.
StartJob(c) ==
    /\ is_due
    /\ job = NoJob
    /\ job' = c
    /\ age' = 0
    /\ UNCHANGED <<stream, durable, at, planned, since, crashes>>

\* Mutant: what was planned outlives its job.
JobReturnsPlanned ==
    /\ job' = NoJob
    /\ planned' = planned
    /\ since' = age
    /\ age' = 0

\* The job returns and the lease is dropped; `last_run` is its start.
JobReturns ==
    /\ job' = NoJob
    /\ planned' = NoPlan
    /\ since' = age
    /\ age' = 0

\* `plan_page_transaction` for the page the host asked for: the current
\* checkpoint and the recorded items are read, nothing is written.
PlanPage(c) ==
    /\ job = c /\ planned = NoPlan
    /\ at[c] <= Len(stream[c])
    /\ LET page == stream[c][at[c]]
           checkpoint == current_checkpoint(c)
       IN \E failures \in Failures(page) :
              planned' = [rows |-> RowsFor(c, page, checkpoint, failures),
                          checkpoint |-> NextCheckpoint(page, checkpoint, at[c] + 1)]
    /\ UNCHANGED <<stream, durable, at, job, since, age, crashes>>

\* `commit_planned_page`: all rows and the checkpoint, or nothing.
CommitPage(c) ==
    /\ job = c /\ planned # NoPlan
    /\ observations' = observations \cup planned.rows
    /\ checkpoints' = [checkpoints EXCEPT ![c] = Append(@, planned.checkpoint)]
    /\ at' = [at EXCEPT ![c] = planned.checkpoint.cursor]
    /\ JobReturns
    /\ UNCHANGED <<stream, crashes>>

\* The fetch, the sealing or the write fails: the transaction returns an
\* error and nothing of the page is kept.
PageFails(c) ==
    /\ job = c
    /\ JobReturns
    /\ UNCHANGED <<stream, durable, at, crashes>>

\* The job panics: `ReleaseOnDrop` drops the lease, `last_run` stays.
JobPanics(c) ==
    /\ job = c
    /\ job' = NoJob
    /\ planned' = NoPlan
    /\ age' = 0
    /\ UNCHANGED <<stream, durable, at, since, crashes>>

\* Where a host may start again: with any page up to a durable cursor.
Restarts == UNION {1 .. current_checkpoint(c).cursor : c \in Collections}

\* The process dies, at any point, and comes back with what is durable.
Crash ==
    /\ crashes < MaxCrashes
    /\ crashes' = crashes + 1
    /\ job' = NoJob
    /\ planned' = NoPlan
    /\ since' = cadence_seconds
    /\ age' = 0
    /\ at' \in [Collections -> Restarts]
    /\ \A c \in Collections : at'[c] <= current_checkpoint(c).cursor
    /\ UNCHANGED <<stream, durable>>

Capped(seconds) == IF seconds < cadence_seconds THEN seconds + 1 ELSE seconds

Tick ==
    /\ since' = Capped(since)
    /\ age' = IF job = NoJob THEN 0 ELSE Capped(age)
    /\ <<since, age>>' # <<since, age>>
    /\ UNCHANGED <<stream, durable, at, job, planned, crashes>>

Init ==
    /\ stream \in Streams
    /\ observations = {}
    /\ checkpoints = [c \in Collections |-> <<>>]
    /\ at = [c \in Collections |-> 1]
    /\ job = NoJob
    /\ planned = NoPlan
    /\ since = cadence_seconds
    /\ age = 0
    /\ crashes = 0

Next ==
    \/ \E c \in Collections :
           StartJob(c) \/ PlanPage(c) \/ CommitPage(c) \/ PageFails(c) \/ JobPanics(c)
    \/ Crash
    \/ Tick

Spec == Init /\ [][Next]_vars

\* The host goes on calling `run_due`, for whatever collection it likes; a job
\* returns; the provider and the store do not fail for ever.
FairSpec ==
    /\ Spec
    /\ WF_vars(Tick)
    /\ WF_vars(\E c \in Collections : StartJob(c))
    /\ WF_vars(\E c \in Collections : CommitPage(c) \/ PageFails(c))
    /\ \A c \in Collections : SF_vars(PlanPage(c)) /\ SF_vars(CommitPage(c))

-----------------------------------------------------------------------------
(***************************************************************************)
(* The cursor passes no item that is not durable and safe, through         *)
(* failures, crashes and pages that are listed again: it has a row, and if *)
(* it is to be looked at, a row that says so or keeps it in quarantine     *)
(* (`page_transaction.cursor_advance_rule`).  The one exception: its       *)
(* version was recorded from a listing that was not to be looked at, and   *)
(* then plan_page_transaction takes it for a replay.                       *)
(***************************************************************************)
Activating == {"read", "sentFirst"}

NothingSkipped ==
    \A c \in Collections : \A p \in 1 .. current_checkpoint(c).cursor - 1 :
        \A i \in DOMAIN stream[c][p].items :
            LET listed == stream[c][p].items[i] IN
            \E r \in observations :
                /\ r.key = listed.key
                /\ listed.kind \in Activating =>
                      r.outcome # "NoCandidate" \/ r.kind \notin Activating

(***************************************************************************)
(* A page that is replayed, or lists what another collection or an earlier *)
(* page listed, never records a message version again: all its rows come   *)
(* from one page transaction (`crash_rule`, `eligibility_policy`).         *)
(***************************************************************************)
RecordedByOneCommit ==
    \A r, s \in observations :
        r.key = s.key => r.collection = s.collection /\ r.generation = s.generation

(***************************************************************************)
(* Nothing of the first window of a collection interrupts the user: an     *)
(* item is analysed at once only if an earlier transaction of its          *)
(* collection committed the baseline, never the one that closes the round. *)
(***************************************************************************)
HistoryNeverInterrupts ==
    \A r \in observations : r.eligibility = "AnalyzeOnce" =>
        \E i \in DOMAIN checkpoints[r.collection] :
            LET cp == checkpoints[r.collection][i] IN
            cp.baseline_committed /\ cp.generation < r.generation

(***************************************************************************)
(* Jobs run again and again, whatever fails or panics, and an item that    *)
(* can never be classified does not block the mail behind it: the cursor   *)
(* of every collection the host keeps starting jobs for reaches the end    *)
(* and stays there.                                                        *)
(***************************************************************************)
MailIsRead ==
    /\ []<>(job # NoJob)
    /\ \A c \in Collections :
          []<>(job = c) => <>[](current_checkpoint(c).cursor > Len(stream[c]))
=============================================================================
