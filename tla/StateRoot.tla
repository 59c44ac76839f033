------------------------------ MODULE StateRoot ------------------------------
(***************************************************************************)
(* The protected state of one account: the database of sealed rows and the *)
(* state-root.dpapi bundle with the usage counter of the encryption key    *)
(* and the rollback anchor (openloops-persistence: state_root.rs,          *)
(* reservation.rs, anchor.rs, store.rs, protected_file.rs; seal.rs).       *)
(* A writer takes the lock file, reconciles, and then repeats: reserve     *)
(* attempts durably, seal with fresh nonces, commit, replace the anchor,   *)
(* reopen, publish.  This sequence is the one the functions ask of their   *)
(* callers, of which there are none yet; seal_batch counts its attempts in *)
(* the KeyUsageState it is given, taken here to be the durable one.        *)
(*                                                                         *)
(* Any file or database operation can fail and a writer can die between    *)
(* two steps.  The commitment is an ideal one: it matches exactly the rows *)
(* it was computed over.  An envelope row is named by its attempt.         *)
(***************************************************************************)
EXTENDS Integers

CONSTANTS Writers,        \* processes that may open the account
          RotationLimit,  \* APPLICATION_ROTATION_LIMIT
          HardLimit,      \* PER_KEY_INVOCATION_HARD_LIMIT
          MaxCount,       \* the largest batch
          LastGeneration, \* the last u64 generation
          Times           \* wall clock readings

ASSUME LimitsAssumption ==
  /\ RotationLimit \in Nat /\ HardLimit \in Nat /\ MaxCount \in Nat
  /\ LastGeneration \in Nat \ {0}
ASSUME TimesAssumption == 0 \in Times /\ Times \subseteq Nat
ASSUME WritersAssumption == {"nobody", "dead"} \cap Writers = {}

VARIABLES
  file,      \* the decoded bundle in state-root.dpapi
  lost,      \* the file is gone
  db,        \* the committed rows
  lock,      \* writer.lock: a writer, "nobody", or left behind by one that is "dead"
  now,       \* the wall clock
  writer,    \* where a writer is, the bundle and the reservation it holds
  spent,     \* history: how many nonces were generated for an attempt
  published  \* history: rows of batches that advance_after_commit confirmed

disk  == <<file, lost, db>>
vars  == <<disk, lock, now, writer, spent, published>>

Attempts == 0..(HardLimit - 1)
Counts   == 1..MaxCount

\* StateRootBundle: the counter, the anchor (generation and the rows it
\* commits to) and last_observed_unix_seconds.
Bundle(used, generation, rows, mark) ==
  [used |-> used, generation |-> generation, rows |-> rows, mark |-> mark]
Fresh   == Bundle(0, 1, {}, 0)
Bundles == [used : 0..HardLimit, generation : 1..LastGeneration,
            rows : SUBSET Attempts, mark : Times]

\* ReservationBatch, and the rows it is sealed into: one attempt each.
Batch(first, count) == [first |-> first, count |-> count]
NoBatch   == Batch(0, 0)
Batches   == [first : 0..HardLimit, count : 0..MaxCount]
RowsOf(b) == {a \in Attempts : b.first <= a /\ a < b.first + b.count}

Process(at, bundle, batch) == [at |-> at, bundle |-> bundle, batch |-> batch]

Init ==
  /\ file = Fresh
  /\ lost = FALSE
  /\ db = {}
  /\ lock = "nobody"
  /\ now \in Times
  /\ writer = [w \in Writers |-> Process("idle", Fresh, NoBatch)]
  /\ spent = [a \in Attempts |-> 0]
  /\ published = {}

At(w, here) == writer[w].at = here
Bundled(w)  == writer[w].bundle
Reserved(w) == writer[w].batch

\* The writer goes on with a bundle and a reservation, or without either.
Proceed(w, at, bundle, batch) == writer' = [writer EXCEPT ![w] = Process(at, bundle, batch)]
Drop(w, at) == Proceed(w, at, Fresh, NoBatch)

------------------------------------------------------------------------------
(* The lock file. *)

\* create_new fails while the file exists.
Acquire(w) ==
  /\ At(w, "idle")
  /\ lock = "nobody"
  /\ lock' = w
  /\ Drop(w, "locked")
  /\ UNCHANGED <<disk, now, spent, published>>

\* The guard is dropped at some point of the sequence; or the process dies there
\* and nothing removes the file.
Leave(w, left) ==
  /\ ~At(w, "idle")
  /\ lock' = left
  /\ Drop(w, "idle")
  /\ UNCHANGED <<disk, now, spent, published>>
Release(w) == Leave(w, "nobody")
Crash(w)   == Leave(w, "dead")

\* External: somebody deletes the lock file a dead process left.
RemoveLeftLock ==
  /\ lock = "dead"
  /\ lock' = "nobody"
  /\ UNCHANGED <<disk, now, writer, spent, published>>

------------------------------------------------------------------------------
(* startup_reconcile *)

\* Deviation: rows missing from the database are not noticed.
AcceptsSubset == ~lost /\ now >= file.mark /\ db \subseteq file.rows

Accepts == ~lost /\ now >= file.mark /\ db = file.rows

\* Missing, ClockReversed and Anchor(..) all freeze; nothing is written.
Startup(w) ==
  /\ At(w, "locked")
  /\ IF Accepts THEN Proceed(w, "ready", file, NoBatch) ELSE Drop(w, "frozen")
  /\ UNCHANGED <<disk, lock, now, spent, published>>

------------------------------------------------------------------------------
(* reserve_aead_batch *)

\* Deviation: no hard limit.
mayReserveBeyond(used, count) == used < RotationLimit

\* reserve_batch: the rotation gate, then checked_reserve.
mayReserve(used, count) == used < RotationLimit /\ used + count <= HardLimit

\* Refused, or not written: the bundle went with the call.
ReservationFails(w) ==
  /\ At(w, "ready")
  /\ Drop(w, "locked")
  /\ UNCHANGED <<disk, lock, now, spent, published>>

\* The bundle with count more attempts used, and the batch that got them.
Counted(b, count) == Bundle(b.used + count, b.generation, b.rows, b.mark)

\* Deviation: the new total is kept in memory only.
ReserveInMemory(w, count) ==
  /\ At(w, "ready")
  /\ mayReserve(Bundled(w).used, count)
  /\ Proceed(w, "reserved", Counted(Bundled(w), count), Batch(Bundled(w).used, count))
  /\ UNCHANGED <<disk, lock, now, spent, published>>

\* The bundle with the new total replaces the file before the batch is handed out.
Reserve(w, count) ==
  /\ At(w, "ready")
  /\ mayReserve(Bundled(w).used, count)
  /\ file' = Counted(Bundled(w), count)
  /\ Proceed(w, "reserved", Counted(Bundled(w), count), Batch(Bundled(w).used, count))
  /\ UNCHANGED <<lost, db, lock, now, spent, published>>

------------------------------------------------------------------------------
(* seal_batch and write_transaction *)

\* A nonce for each attempt of the batch up to one that fails, if any does; the
\* envelopes are returned only when all were sealed.
Seal(w, sealed) ==
  /\ At(w, "reserved")
  /\ sealed <= Reserved(w).count
  /\ spent' = [a \in Attempts |->
                 IF a \in RowsOf(Batch(Reserved(w).first, sealed)) THEN spent[a] + 1 ELSE spent[a]]
  /\ IF sealed = Reserved(w).count
     THEN Proceed(w, "sealed", Bundled(w), Reserved(w))
     ELSE Proceed(w, "ready", Bundled(w), NoBatch)
  /\ UNCHANGED <<disk, lock, now, published>>

\* One transaction: every envelope, or none and WriteFailed.
Commit(w) ==
  /\ At(w, "sealed")
  /\ \/ db' = db \cup RowsOf(Reserved(w)) /\ Proceed(w, "committed", Bundled(w), Reserved(w))
     \/ Proceed(w, "ready", Bundled(w), NoBatch) /\ UNCHANGED db
  /\ UNCHANGED <<file, lost, lock, now, spent, published>>

------------------------------------------------------------------------------
(* advance_after_commit *)

\* Deviation: after a failed write the writer goes on with the bundle it has.
AdvanceFailureIgnored(w) ==
  /\ At(w, "committed")
  /\ Proceed(w, "ready", Bundled(w), NoBatch)
  /\ UNCHANGED <<disk, lock, now, spent, published>>

\* GenerationExhausted, or not written: the bundle went with the call.
AdvanceFails(w) ==
  /\ At(w, "committed")
  /\ Drop(w, "locked")
  /\ UNCHANGED <<disk, lock, now, spent, published>>

\* Generation n+1 over the rows read back, with the time of this commit.
Advanced(b) == Bundle(b.used, b.generation + 1, db, now)

AdvanceWrite(w) ==
  /\ At(w, "committed")
  /\ Bundled(w).generation < LastGeneration
  /\ file' = Advanced(Bundled(w))
  /\ Proceed(w, "written", Advanced(Bundled(w)), NoBatch)
  /\ UNCHANGED <<lost, db, lock, now, spent, published>>

\* The file is reopened and compared; only now may the caller publish.
\* Reopening can fail, and a file that differs is a ReopenMismatch.
AdvanceReopen(w) ==
  /\ At(w, "written")
  /\ \/ /\ file.generation = Bundled(w).generation /\ file.rows = Bundled(w).rows
        /\ Proceed(w, "ready", file, NoBatch)
        /\ published' = file.rows
     \/ Drop(w, "locked") /\ UNCHANGED published
  /\ UNCHANGED <<disk, lock, now, spent>>

------------------------------------------------------------------------------
(* External: what happens to the account's files and the clock. *)

Closed == \A w \in Writers : At(w, "idle")

LoseRows(rows) ==
  /\ Closed
  /\ db' = db \ rows
  /\ UNCHANGED <<file, lost, lock, now, writer, spent, published>>

LoseFile ==
  /\ Closed
  /\ lost' = TRUE
  /\ UNCHANGED <<file, db, lock, now, writer, spent, published>>

SetClock(t) ==
  /\ now' = t
  /\ UNCHANGED <<disk, lock, writer, spent, published>>

Next ==
  \/ \E w \in Writers :
       \/ Acquire(w) \/ Release(w) \/ Crash(w) \/ Startup(w)
       \/ ReservationFails(w) \/ \E count \in Counts : Reserve(w, count)
       \/ \E sealed \in 0..MaxCount : Seal(w, sealed)
       \/ Commit(w) \/ AdvanceFails(w) \/ AdvanceWrite(w) \/ AdvanceReopen(w)
  \/ RemoveLeftLock
  \/ \E rows \in SUBSET db : LoseRows(rows)
  \/ LoseFile
  \/ \E t \in Times : SetClock(t)

Spec == Init /\ [][Next]_vars

------------------------------------------------------------------------------
Points == {"idle", "locked", "frozen", "ready", "reserved", "sealed", "committed", "written"}

\* TypeOK: every variable has its type; no total passes the hard limit.
TypeOK ==
  /\ file \in Bundles
  /\ lost \in BOOLEAN
  /\ db \subseteq Attempts
  /\ lock \in Writers \cup {"nobody", "dead"}
  /\ now \in Times
  /\ writer \in [Writers -> [at : Points, bundle : Bundles, batch : Batches]]
  /\ spent \in [Attempts -> Nat]
  /\ published \subseteq Attempts

\* "Every reserved slot is burned on any later failure": across crashes, failed
\* seals and failed writes no attempt is spent twice, and none is spent that the
\* file does not count (reserve_aead_batch, advance_after_commit).
SpentOnce == \A a \in Attempts : spent[a] <= 1 /\ (spent[a] = 1 => a < file.used)

\* The frozen start bounds the damage of a crash: the database is never further
\* ahead of the anchor than by one batch (startup_reconcile, the writer lock).
OneBatchAhead ==
  \E first \in 0..HardLimit : db \ file.rows \subseteq RowsOf(Batch(first, MaxCount))

\* RootInv: whoever is under way holds the lock and works on what the disk holds;
\* what was published stays under the anchor.
LockHeld == \A w \in Writers : ~At(w, "idle") => lock = w
HoldsDisk(w) ==
  /\ writer[w].at \in {"ready", "reserved", "sealed", "committed", "written"} =>
       ~lost /\ Bundled(w) = file
  /\ writer[w].at \in {"ready", "reserved", "sealed", "written"} => db = file.rows
  /\ At(w, "committed") => db = file.rows \cup RowsOf(Reserved(w))
  /\ At(w, "reserved") =>
       /\ Reserved(w).first + Reserved(w).count = file.used
       /\ \A a \in RowsOf(Reserved(w)) : spent[a] = 0
RootInv == LockHeld /\ (\A w \in Writers : HoldsDisk(w)) /\ published \subseteq file.rows

\* What a start would be given.
Shown == IF Accepts THEN [given |-> TRUE, rows |-> db] ELSE [given |-> FALSE, rows |-> {}]

Confirmed == INSTANCE ConfirmedStore
  WITH Rows <- Attempts, content <- file.rows, published <- published, shown <- Shown

\* "The caller must not publish any result until this function returns Ok": what
\* was published survives every crash, failure and loss, or the start refuses.
ImplementsConfirmedStore == Confirmed!Spec
==============================================================================
