----------------------------- MODULE LoopRecords -----------------------------
(***************************************************************************)
(* The saved decisions of the native review (loop_state.rs): what one      *)
(* record holds, which records a save drops, when a record set still fits  *)
(* the one credential it is stored in, and what the review's buttons offer *)
(* for a record (slint_review.rs, review_model.rs).                        *)
(***************************************************************************)
EXTENDS Integers, FiniteSets

CONSTANTS Keys,      \* loop fingerprints
          Cap,       \* CAP: records in one store
          BlobLimit, \* the credential's size limit, in record rows
          IdRows     \* what a stored list id and task id cost, in record rows

ASSUME KeysAssumption == IsFiniteSet(Keys)
ASSUME SizeAssumption == Cap \in Nat /\ BlobLimit \in Nat /\ IdRows \in Nat

Decisions == {"Review", "Mine", "Done", "Dismissed", "Watching", "Moot"}
Terminal  == {"Done", "Dismissed", "Moot"}

\* "CreatedNoIds" is Created with two empty ids: the user confirmed the task by
\* hand, so there is nothing to address it with.
Reminders == {"None", "Attempted", "Created", "CreatedNoIds", "Completed"}

\* aged: updated at least TERMINAL_EXPIRY_SECONDS ago.  A key without a stored
\* record reads as the default record.
Default == [saved |-> FALSE, decision |-> "Review", reminder |-> "None", aged |-> FALSE]
Records == [saved : {TRUE}, decision : Decisions, reminder : Reminders, aged : BOOLEAN]
             \cup {Default}
Stores  == [Keys -> Records]
Empty   == [k \in Keys |-> Default]

Saved(store) == {k \in Keys : store[k].saved}

Expired(r) == r.saved /\ r.reminder = "None" /\ r.decision \in Terminal /\ r.aged

\* Deviation: an expired record loses its row but keeps its decision.
PrunedKeepsDecision(store) ==
  [k \in Keys |-> IF Expired(store[k]) THEN [store[k] EXCEPT !.saved = FALSE] ELSE store[k]]

\* The retain at the start of every update.
Pruned(store) == [k \in Keys |-> IF Expired(store[k]) THEN Default ELSE store[k]]

\* Every update stamps the record with the current time.
Record(decision, reminder) ==
  [saved |-> TRUE, decision |-> decision, reminder |-> reminder, aged |-> FALSE]
Put(store, k, r) == [Pruned(store) EXCEPT ![k] = r]

\* Room for k after pruning; otherwise the update is refused with the limit
\* message and nothing changes.
HasRoom(store, k) ==
  Pruned(store)[k].saved \/ Cardinality(Saved(Pruned(store))) < Cap

\* encode succeeds: a row per record, and the two ids where they are known.
Fits(store) ==
  LET withIds == {k \in Saved(store) : store[k].reminder \in {"Created", "Completed"}}
  IN Cardinality(Saved(store)) + IdRows * Cardinality(withIds) <= BlobLimit

------------------------------------------------------------------------------
(* What the card of a record offers. *)

\* closed: a terminal decision, or closing evidence the user has not overridden.
Closed(r, resolved) == r.decision \in Terminal \/ (resolved /\ r.decision \notin {"Mine", "Watching"})

\* Watching is offered on cards somebody else owns; the owner is left open here.
CardDecisions(r, resolved) ==
  IF Closed(r, resolved) THEN {"Review", "Mine"}
  ELSE {"Mine", "Watching", "Done", "Dismissed", "Moot"} \ ({r.decision} \cap {"Mine", "Watching"})

decision_after_setting_reminder(current) == IF current = "Watching" THEN "Watching" ELSE "Mine"

\* The implied Mine is undone on cancel, any later decision stands.
RevertsOnCancel(prior, current) == prior = "Review" /\ current = "Mine"

\* completion_target: Handled completes the linked task when its ids are known.
CompletesTask(decision, r) == decision = "Done" /\ r.reminder = "Created"

\* reminder_sync_checks: open decisions whose task can be looked up.
SyncEligible(r) == r.decision \in {"Mine", "Watching", "Review"} /\ r.reminder = "Created"
==============================================================================
