-------------------------- MODULE Ingestion_proofs --------------------------
(***************************************************************************)
(* Proofs about Ingestion, for every set of collections, every page and    *)
(* every order of failures, crashes and replayed pages.                    *)
(*                                                                         *)
(* The checkpoints of a collection are a line, so the current one is the   *)
(* last.  A plan is made from it, and nothing is committed between a plan  *)
(* and its own commit: its rows are still new, its cursor is one page      *)
(* behind the page the host asked for, and that page is not further than   *)
(* the current cursor.                                                     *)
(***************************************************************************)
EXTENDS Ingestion, TLAPS

CheckpointsAreALine ==
    \A c \in Collections : \A i \in DOMAIN checkpoints[c] :
        checkpoints[c][i].generation = i - 1

RowsAreCommitted ==
    \A r \in observations : r.generation < Len(checkpoints[r.collection])

SafeRow(r) == r.kind \in Activating => r.outcome # "NoCandidate"

RowsAreSafe == \A r \in observations : SafeRow(r)

HostIsBehind == \A c \in Collections : at[c] <= current_checkpoint(c).cursor

\* What a row of the plan of collection c is.
FreshRow(c, r) ==
    /\ r.collection = c
    /\ r.generation = Len(checkpoints[c])
    /\ ~Recorded(r.key)
    /\ SafeRow(r)
    /\ r.eligibility = "AnalyzeOnce" => current_checkpoint(c).baseline_committed

PlanIsCurrent ==
    planned # NoPlan =>
        /\ planned.checkpoint.generation = Len(checkpoints[job])
        /\ planned.checkpoint.cursor = at[job] + 1
        /\ \A r \in planned.rows : FreshRow(job, r)
        /\ \A i \in DOMAIN stream[job][at[job]].items :
               LET key == stream[job][at[job]].items[i].key IN
               Recorded(key) \/ \E r \in planned.rows : r.key = key

IInv ==
    /\ TypeOK
    /\ CheckpointsAreALine
    /\ RowsAreCommitted
    /\ RowsAreSafe
    /\ HostIsBehind
    /\ PlanIsCurrent
    /\ NothingSkipped
    /\ RecordedByOneCommit
    /\ HistoryNeverInterrupts

-----------------------------------------------------------------------------
\* The clamped cadence is a number of seconds.
LEMMA CadenceType == cadence_seconds \in Nat
    BY IngestionAssumption DEF cadence_seconds, clamp_poll_cadence_seconds

\* The row `max_by_key` picks is the last that was appended.
LEMMA CurrentIsLast ==
    ASSUME TypeOK, CheckpointsAreALine, NEW c \in Collections
    PROVE  /\ checkpoints[c] = <<>> => current_checkpoint(c) = NoCheckpoint
           /\ checkpoints[c] # <<>> =>
                  /\ Len(checkpoints[c]) \in DOMAIN checkpoints[c]
                  /\ current_checkpoint(c) = checkpoints[c][Len(checkpoints[c])]
<1>1. checkpoints[c] = <<>> => current_checkpoint(c) = NoCheckpoint
    BY DEF current_checkpoint
<1>2. ASSUME checkpoints[c] # <<>>
      PROVE  /\ Len(checkpoints[c]) \in DOMAIN checkpoints[c]
             /\ current_checkpoint(c) = checkpoints[c][Len(checkpoints[c])]
    <2> DEFINE rows == checkpoints[c]
               n == Len(rows)
               highest == {i \in DOMAIN rows :
                             \A j \in DOMAIN rows : rows[j].generation <= rows[i].generation}
    <2>1. rows \in Seq(Checkpoint) /\ n \in Nat \ {0} /\ DOMAIN rows = 1 .. n
        BY <1>2 DEF TypeOK
    <2>2. \A i \in DOMAIN rows : rows[i].generation = i - 1
        BY DEF CheckpointsAreALine
    <2>3. highest = {n}
        BY <2>1, <2>2
    <2>4. (CHOOSE i \in highest : \A j \in highest : j <= i) = n
        <3>1. \E i \in highest : \A j \in highest : j <= i
            BY <2>1, <2>3
        <3> HIDE DEF highest
        <3>2. (CHOOSE i \in highest : \A j \in highest : j <= i) \in highest
            BY <3>1
        <3> QED BY <3>2, <2>3
    <2>5. current_checkpoint(c) = rows[CHOOSE i \in highest : \A j \in highest : j <= i]
        BY <1>2 DEF current_checkpoint
    <2> HIDE DEF highest
    <2>6. current_checkpoint(c) = rows[n]
        BY <2>4, <2>5
    <2> QED BY <2>1, <2>6
<1> QED BY <1>1, <1>2

\* The current checkpoint has the generation before the next row's.
LEMMA CurrentType ==
    ASSUME TypeOK, CheckpointsAreALine, NEW c \in Collections
    PROVE  /\ current_checkpoint(c).generation = Len(checkpoints[c]) - 1
           /\ current_checkpoint(c).cursor \in Nat \ {0}
           /\ current_checkpoint(c).baseline_committed \in BOOLEAN
           /\ Len(checkpoints[c]) \in Nat
<1>1. checkpoints[c] \in Seq(Checkpoint)
    BY DEF TypeOK
<1>2. CASE checkpoints[c] = <<>>
    <2>1. Len(checkpoints[c]) = 0
        BY <1>2
    <2>2. current_checkpoint(c) = NoCheckpoint
        BY <1>2, CurrentIsLast
    <2> QED BY <2>1, <2>2 DEF NoCheckpoint
<1>3. CASE checkpoints[c] # <<>>
    <2>1. checkpoints[c][Len(checkpoints[c])] \in Checkpoint
        BY <1>1, <1>3, CurrentIsLast
    <2> QED BY <1>1, <1>3, <2>1, CurrentIsLast DEF Checkpoint, CheckpointsAreALine
<1> QED BY <1>2, <1>3

\* The committed checkpoint becomes the current one; those of the other
\* collections stay.
LEMMA CurrentAfterCommit ==
    ASSUME IInv, NEW c \in Collections, CommitPage(c)
    PROVE  /\ TypeOK' /\ CheckpointsAreALine'
           /\ current_checkpoint(c)' = planned.checkpoint
           /\ Len(checkpoints'[c]) = Len(checkpoints[c]) + 1
           /\ \A i \in DOMAIN checkpoints[c] :
                  i \in DOMAIN checkpoints'[c] /\ checkpoints'[c][i] = checkpoints[c][i]
           /\ \A d \in Collections \ {c} :
                  checkpoints'[d] = checkpoints[d]
                  /\ current_checkpoint(d)' = current_checkpoint(d)
<1>1. /\ checkpoints \in [Collections -> Seq(Checkpoint)]
      /\ planned \in PlannedPage /\ job = c
      /\ planned.checkpoint \in Checkpoint /\ planned.rows \subseteq Observation
    BY DEF IInv, TypeOK, CommitPage, PlannedPage
<1>2. /\ checkpoints' = [checkpoints EXCEPT ![c] = Append(checkpoints[c], planned.checkpoint)]
      /\ planned.checkpoint.generation = Len(checkpoints[c])
    BY <1>1 DEF IInv, PlanIsCurrent, CommitPage
<1>3. checkpoints' \in [Collections -> Seq(Checkpoint)]
    BY <1>1, <1>2
<1>4. TypeOK'
    BY <1>1, <1>3, CadenceType
       DEF IInv, TypeOK, CommitPage, JobReturns, Checkpoint
<1>5. CheckpointsAreALine'
    <2> SUFFICES ASSUME NEW d \in Collections, NEW i \in DOMAIN checkpoints'[d]
                 PROVE  checkpoints'[d][i].generation = i - 1
        BY DEF CheckpointsAreALine
    <2>1. CASE d = c
        BY <1>1, <1>2, <2>1 DEF IInv, CheckpointsAreALine
    <2>2. CASE d # c
        BY <1>1, <1>2, <2>2 DEF IInv, CheckpointsAreALine
    <2> QED BY <2>1, <2>2
<1>6. /\ Len(checkpoints'[c]) = Len(checkpoints[c]) + 1
      /\ checkpoints'[c] # <<>>
      /\ checkpoints'[c][Len(checkpoints'[c])] = planned.checkpoint
    BY <1>1, <1>2
<1>7. current_checkpoint(c)' = planned.checkpoint
    <2>1. (TypeOK /\ CheckpointsAreALine)' => (checkpoints[c] # <<>> =>
              current_checkpoint(c) = checkpoints[c][Len(checkpoints[c])])'
        BY CurrentIsLast, PTL
    <2> QED BY <1>4, <1>5, <1>6, <2>1
<1>8. \A i \in DOMAIN checkpoints[c] :
          i \in DOMAIN checkpoints'[c] /\ checkpoints'[c][i] = checkpoints[c][i]
    BY <1>1, <1>2
<1>9. \A d \in Collections \ {c} :
          checkpoints'[d] = checkpoints[d] /\ current_checkpoint(d)' = current_checkpoint(d)
    BY <1>1, <1>2 DEF current_checkpoint
<1> QED BY <1>4, <1>5, <1>6, <1>7, <1>8, <1>9

-----------------------------------------------------------------------------
\* A step that appends nothing keeps what is said of the rows.
LEMMA DurableStays ==
    ASSUME IInv, UNCHANGED <<stream, durable>>
    PROVE  /\ CheckpointsAreALine' /\ RowsAreCommitted' /\ RowsAreSafe'
           /\ NothingSkipped' /\ RecordedByOneCommit' /\ HistoryNeverInterrupts'
           /\ \A c \in Collections : current_checkpoint(c)' = current_checkpoint(c)
<1>1. \A c \in Collections : current_checkpoint(c)' = current_checkpoint(c)
    BY DEF durable, current_checkpoint
<1>2. CheckpointsAreALine' /\ RowsAreCommitted' /\ RowsAreSafe'
    BY DEF IInv, durable, CheckpointsAreALine, RowsAreCommitted, RowsAreSafe, SafeRow
<1>3. RecordedByOneCommit' /\ HistoryNeverInterrupts'
    BY DEF IInv, durable, RecordedByOneCommit, HistoryNeverInterrupts
<1>4. NothingSkipped'
    BY <1>1 DEF IInv, durable, NothingSkipped
<1> QED BY <1>1, <1>2, <1>3, <1>4

\* A plan stays current as long as its collection, its page and the rows do.
LEMMA PlanStays ==
    ASSUME IInv, UNCHANGED <<stream, durable>>,
           (planned' = planned /\ job' = job /\ at' = at) \/ planned' = NoPlan
    PROVE  PlanIsCurrent'
    BY DurableStays
       DEF IInv, TypeOK, PlanIsCurrent, FreshRow, SafeRow, Recorded, durable

\* The rows planned for a page are new and safe, and with those that are recorded
\* they cover the page.
LEMMA RowsForFits ==
    ASSUME TypeOK, CheckpointsAreALine, NEW c \in Collections,
           at[c] <= Len(stream[c]),
           NEW failures \in Failures(stream[c][at[c]])
    PROVE  LET rows == RowsFor(c, stream[c][at[c]], current_checkpoint(c), failures) IN
           /\ rows \subseteq Observation
           /\ \A r \in rows : FreshRow(c, r)
           /\ \A i \in DOMAIN stream[c][at[c]].items :
                  LET key == stream[c][at[c]].items[i].key IN
                  Recorded(key) \/ \E r \in rows : r.key = key
<1> DEFINE page == stream[c][at[c]]
           checkpoint == current_checkpoint(c)
           rows == RowsFor(c, page, checkpoint, failures)
           why(i) == classify_eligibility(page.items[i].kind,
                                          InBackfillBatch(page, checkpoint))
           row(i) == [key |-> page.items[i].key,
                      outcome |-> OutcomeOf(why(i), failures[i]),
                      kind |-> page.items[i].kind,
                      eligibility |-> why(i),
                      collection |-> c,
                      generation |-> checkpoint.generation + 1,
                      item |-> i]
           new == {i \in DOMAIN page.items : ~Recorded(page.items[i].key)}
<1>1. rows = {row(i) : i \in new}
    BY DEF RowsFor
<1>2. page \in Pages
    BY IngestionAssumption DEF TypeOK
<1>3. page.items \in Seq(Items) /\ DOMAIN page.items \subseteq Nat
    BY <1>2, IngestionAssumption
<1>4. checkpoint.generation + 1 = Len(checkpoints[c]) /\ Len(checkpoints[c]) \in Nat
    BY CurrentType
<1> HIDE DEF rows, page, checkpoint
<1>5. ASSUME NEW i \in new
      PROVE  row(i) \in Observation /\ FreshRow(c, row(i))
    <2>1. page.items[i] \in Items /\ i \in Nat /\ ~Recorded(page.items[i].key)
        BY <1>3
    <2>2. page.items[i].key \in Keys /\ page.items[i].kind \in Kinds
        BY <2>1 DEF Items
    <2>3. /\ why(i) \in Eligibilities
          /\ page.items[i].kind \in Activating => why(i) # "NoCandidate"
          /\ why(i) = "AnalyzeOnce" => ~InBackfillBatch(page, checkpoint)
        BY <2>2 DEF classify_eligibility, Kinds, Eligibilities, Activating
    <2> HIDE DEF why
    <2>4. /\ OutcomeOf(why(i), failures[i]) \in Outcomes
          /\ why(i) # "NoCandidate" => OutcomeOf(why(i), failures[i]) # "NoCandidate"
        BY DEF OutcomeOf, Outcomes
    <2>5. row(i) \in Observation
        BY <1>4, <2>1, <2>2, <2>3, <2>4 DEF Observation
    <2>6. why(i) = "AnalyzeOnce" => current_checkpoint(c).baseline_committed
        BY <2>3 DEF InBackfillBatch, checkpoint
    <2>7. FreshRow(c, row(i))
        BY <1>4, <2>1, <2>3, <2>4, <2>6 DEF FreshRow, SafeRow
    <2> QED BY <2>5, <2>7
<1>6. \A i \in new : row(i).key = page.items[i].key
    OBVIOUS
<1>7. rows \subseteq Observation /\ \A r \in rows : FreshRow(c, r)
    BY <1>1, <1>5
<1>8. \A i \in DOMAIN page.items :
          Recorded(page.items[i].key) \/ \E r \in rows : r.key = page.items[i].key
    BY <1>1, <1>6
<1> QED BY <1>7, <1>8 DEF rows, page, checkpoint

-----------------------------------------------------------------------------
\* The rows of a plan are new and those of one transaction.
LEMMA CommitKeeps ==
    ASSUME IInv, NEW c \in Collections, CommitPage(c)
    PROVE  IInv'
<1>1. /\ TypeOK' /\ CheckpointsAreALine'
      /\ current_checkpoint(c)' = planned.checkpoint
      /\ Len(checkpoints'[c]) = Len(checkpoints[c]) + 1
      /\ \A i \in DOMAIN checkpoints[c] :
             i \in DOMAIN checkpoints'[c] /\ checkpoints'[c][i] = checkpoints[c][i]
      /\ \A d \in Collections \ {c} :
             checkpoints'[d] = checkpoints[d]
             /\ current_checkpoint(d)' = current_checkpoint(d)
    BY CurrentAfterCommit
<1>2. /\ planned \in PlannedPage /\ job = c /\ planned # NoPlan
      /\ planned.checkpoint \in Checkpoint /\ planned.rows \subseteq Observation
      /\ observations \subseteq Observation
      /\ observations' = observations \cup planned.rows
      /\ at' = [at EXCEPT ![c] = planned.checkpoint.cursor]
      /\ planned' = NoPlan /\ stream' = stream
      /\ at \in [Collections -> Nat \ {0}]
    BY DEF IInv, TypeOK, CommitPage, JobReturns, PlannedPage
<1>3. /\ planned.checkpoint.generation = Len(checkpoints[c])
      /\ planned.checkpoint.cursor = at[c] + 1
      /\ \A r \in planned.rows : FreshRow(c, r)
      /\ \A i \in DOMAIN stream[c][at[c]].items :
             LET key == stream[c][at[c]].items[i].key IN
             Recorded(key) \/ \E r \in planned.rows : r.key = key
    BY <1>2 DEF IInv, PlanIsCurrent
<1>4. \A r \in observations' :
          r \in Observation /\ r.collection \in Collections /\ r.generation \in Nat
    BY <1>2 DEF Observation
<1>5. \A d \in Collections : Len(checkpoints[d]) \in Nat
    BY CurrentType DEF IInv
<1>6. RowsAreCommitted'
    <2> SUFFICES ASSUME NEW r \in observations'
                 PROVE  r.generation < Len(checkpoints'[r.collection])
        BY DEF RowsAreCommitted
    <2>1. CASE r \in observations
        <3>1. r.generation < Len(checkpoints[r.collection])
            BY <2>1 DEF IInv, RowsAreCommitted
        <3>2. CASE r.collection = c
            BY <1>1, <1>4, <1>5, <3>1, <3>2
        <3>3. CASE r.collection # c
            BY <1>1, <1>4, <3>1, <3>3
        <3> QED BY <3>2, <3>3
    <2>2. CASE r \in planned.rows
        BY <1>1, <1>3, <1>5, <2>2 DEF FreshRow
    <2> QED BY <1>2, <2>1, <2>2
<1>7. RowsAreSafe'
    BY <1>2, <1>3 DEF IInv, RowsAreSafe, FreshRow, SafeRow
<1>8. HostIsBehind'
    <2> SUFFICES ASSUME NEW d \in Collections
                 PROVE  at'[d] <= current_checkpoint(d)'.cursor
        BY DEF HostIsBehind
    <2>1. CASE d = c
        BY <1>1, <1>2, <2>1 DEF Checkpoint
    <2>2. CASE d # c
        BY <1>1, <1>2, <2>2 DEF IInv, HostIsBehind
    <2> QED BY <2>1, <2>2
<1>9. PlanIsCurrent'
    BY <1>2 DEF PlanIsCurrent
<1>10. NothingSkipped'
    <2> SUFFICES ASSUME NEW d \in Collections,
                        NEW p \in 1 .. current_checkpoint(d)'.cursor - 1,
                        NEW i \in DOMAIN stream[d][p].items
                 PROVE  \E r \in observations' :
                            /\ r.key = stream[d][p].items[i].key
                            /\ stream[d][p].items[i].kind \in Activating =>
                                   r.outcome # "NoCandidate" \/ r.kind \notin Activating
        BY <1>2 DEF NothingSkipped
    <2> DEFINE key == stream[d][p].items[i].key
    <2>1. \A r \in observations' : SafeRow(r)
        BY <1>7 DEF RowsAreSafe, SafeRow
    <2>2. \E r \in observations' : r.key = key
        <3>1. CASE p \in 1 .. current_checkpoint(d).cursor - 1
            BY <1>2, <3>1 DEF IInv, NothingSkipped
        <3>2. CASE d = c /\ p = at[c]
            BY <1>2, <1>3, <3>2 DEF Recorded
        <3>3. d # c => p \in 1 .. current_checkpoint(d).cursor - 1
            BY <1>1
        <3>4. d = c /\ p # at[c] => p \in 1 .. current_checkpoint(d).cursor - 1
            <4>1. /\ at[c] \in Nat /\ at[c] <= current_checkpoint(c).cursor
                  /\ current_checkpoint(c).cursor \in Nat
                BY <1>2, CurrentType DEF IInv, HostIsBehind
            <4>2. d = c => p \in 1 .. at[c]
                BY <1>1, <1>3, <4>1
            <4> QED BY <4>1, <4>2
        <3> QED BY <3>1, <3>2, <3>3, <3>4
    <2> QED BY <2>1, <2>2 DEF SafeRow
<1>11. RecordedByOneCommit'
    <2> SUFFICES ASSUME NEW r \in observations', NEW s \in observations', r.key = s.key
                 PROVE  r.collection = s.collection /\ r.generation = s.generation
        BY DEF RecordedByOneCommit
    <2>1. CASE r \in observations /\ s \in observations
        BY <2>1 DEF IInv, RecordedByOneCommit
    <2>2. CASE r \in planned.rows /\ s \in planned.rows
        BY <1>3, <2>2 DEF FreshRow
    <2>3. ~(r \in observations /\ s \in planned.rows)
        BY <1>3 DEF FreshRow, Recorded
    <2>4. ~(r \in planned.rows /\ s \in observations)
        BY <1>3 DEF FreshRow, Recorded
    <2> QED BY <1>2, <2>1, <2>2, <2>3, <2>4
<1>12. HistoryNeverInterrupts'
    <2> SUFFICES ASSUME NEW r \in observations', r.eligibility = "AnalyzeOnce"
                 PROVE  \E i \in DOMAIN checkpoints'[r.collection] :
                            /\ checkpoints'[r.collection][i].baseline_committed
                            /\ checkpoints'[r.collection][i].generation < r.generation
        BY DEF HistoryNeverInterrupts
    <2>1. \E i \in DOMAIN checkpoints[r.collection] :
              /\ checkpoints[r.collection][i].baseline_committed
              /\ checkpoints[r.collection][i].generation < r.generation
        <3>1. CASE r \in observations
            BY <3>1 DEF IInv, HistoryNeverInterrupts
        <3>2. CASE r \in planned.rows
            <4>1. /\ r.collection = c /\ r.generation = Len(checkpoints[c])
                  /\ current_checkpoint(c).baseline_committed
                BY <1>3, <3>2 DEF FreshRow
            <4>2. checkpoints[c] # <<>>
                BY <4>1, CurrentIsLast DEF IInv, NoCheckpoint
            <4>3. /\ Len(checkpoints[c]) \in DOMAIN checkpoints[c]
                  /\ current_checkpoint(c) = checkpoints[c][Len(checkpoints[c])]
                BY <4>2, CurrentIsLast DEF IInv
            <4>4. current_checkpoint(c).generation < Len(checkpoints[c])
                BY CurrentType DEF IInv
            <4> QED BY <4>1, <4>3, <4>4
        <3> QED BY <1>2, <3>1, <3>2
    <2>2. \A i \in DOMAIN checkpoints[r.collection] :
              /\ i \in DOMAIN checkpoints'[r.collection]
              /\ checkpoints'[r.collection][i] = checkpoints[r.collection][i]
        BY <1>1, <1>4
    <2> QED BY <2>1, <2>2
<1> QED BY <1>1, <1>6, <1>7, <1>8, <1>9, <1>10, <1>11, <1>12 DEF IInv

\* A plan changes no row and starts out current.
LEMMA PlanKeeps ==
    ASSUME IInv, NEW c \in Collections, PlanPage(c)
    PROVE  IInv'
<1> DEFINE page == stream[c][at[c]]
           checkpoint == current_checkpoint(c)
<1>1. /\ UNCHANGED <<stream, durable>> /\ at' = at /\ job' = job /\ job = c
      /\ observations' = observations /\ checkpoints' = checkpoints
      /\ UNCHANGED <<since, age, crashes>>
      /\ at[c] <= Len(stream[c]) /\ at[c] \in Nat \ {0}
    BY DEF IInv, TypeOK, PlanPage, durable
<1>2. PICK failures \in Failures(page) :
          planned' = [rows |-> RowsFor(c, page, checkpoint, failures),
                      checkpoint |-> NextCheckpoint(page, checkpoint, at[c] + 1)]
    BY DEF PlanPage
<1>3. /\ planned'.rows \subseteq Observation
      /\ \A r \in planned'.rows : FreshRow(c, r)
      /\ \A i \in DOMAIN stream[c][at[c]].items :
             LET key == stream[c][at[c]].items[i].key IN
             Recorded(key) \/ \E r \in planned'.rows : r.key = key
    BY <1>1, <1>2, RowsForFits DEF IInv
<1>4. /\ planned'.checkpoint \in Checkpoint
      /\ planned'.checkpoint.generation = Len(checkpoints[c])
      /\ planned'.checkpoint.cursor = at[c] + 1
    <2>1. page.closes_round \in BOOLEAN
        BY <1>1, IngestionAssumption DEF IInv, TypeOK
    <2>2. /\ checkpoint.generation + 1 = Len(checkpoints[c])
          /\ Len(checkpoints[c]) \in Nat
          /\ checkpoint.baseline_committed \in BOOLEAN
        BY CurrentType DEF IInv
    <2> HIDE DEF page, checkpoint
    <2> QED BY <1>1, <1>2, <2>1, <2>2 DEF NextCheckpoint, Checkpoint
<1>5. planned' \in PlannedPage
    BY <1>2, <1>3, <1>4 DEF PlannedPage
<1>6. TypeOK'
    BY <1>1, <1>5, IngestionAssumption DEF IInv, TypeOK, durable
<1>7. PlanIsCurrent'
    BY <1>1, <1>3, <1>4, DurableStays
       DEF PlanIsCurrent, FreshRow, SafeRow, Recorded
<1>8. HostIsBehind'
    BY <1>1, DurableStays DEF IInv, HostIsBehind
<1> QED BY <1>1, <1>6, <1>7, <1>8, DurableStays DEF IInv

\* An empty store satisfies the invariant.
LEMMA InitEstablishes == Init => IInv
<1> SUFFICES ASSUME Init PROVE IInv
    OBVIOUS
<1>1. TypeOK
    BY CadenceType, IngestionAssumption, NoPlanAssumption DEF Init, TypeOK
<1>2. CheckpointsAreALine
    BY DEF Init, CheckpointsAreALine
<1>3. RowsAreCommitted /\ RowsAreSafe /\ RecordedByOneCommit /\ HistoryNeverInterrupts
    BY DEF Init, RowsAreCommitted, RowsAreSafe, RecordedByOneCommit, HistoryNeverInterrupts
<1>4. \A c \in Collections : current_checkpoint(c) = NoCheckpoint
    BY <1>1, <1>2, CurrentIsLast DEF Init
<1>5. HostIsBehind
    BY <1>4 DEF Init, HostIsBehind, NoCheckpoint
<1>6. NothingSkipped
    <2>1. \A c \in Collections : 1 .. current_checkpoint(c).cursor - 1 = {}
        BY <1>4 DEF NoCheckpoint
    <2> QED BY <2>1 DEF NothingSkipped
<1>7. PlanIsCurrent
    BY DEF Init, PlanIsCurrent
<1> QED BY <1>1, <1>2, <1>3, <1>5, <1>6, <1>7 DEF IInv

\* Every step of the scheduler, a page transaction, a crash or the clock keeps it.
LEMMA NextPreserves == IInv /\ [Next]_vars => IInv'
<1> SUFFICES ASSUME IInv, [Next]_vars PROVE IInv'
    OBVIOUS
<1> USE CadenceType
<1>1. ASSUME NEW c \in Collections, StartJob(c) PROVE IInv'
    <2>1. TypeOK'
        BY <1>1 DEF IInv, TypeOK, StartJob, durable
    <2>2. PlanIsCurrent'
        BY <1>1 DEF IInv, TypeOK, StartJob, durable, PlanIsCurrent
    <2>3. HostIsBehind'
        BY <1>1, DurableStays DEF IInv, StartJob, HostIsBehind
    <2> QED BY <1>1, <2>1, <2>2, <2>3, DurableStays DEF IInv, StartJob
<1>2. ASSUME NEW c \in Collections, PlanPage(c) PROVE IInv'
    BY <1>2, PlanKeeps
<1>3. ASSUME NEW c \in Collections, CommitPage(c) PROVE IInv'
    BY <1>3, CommitKeeps
<1>4. ASSUME NEW c \in Collections, PageFails(c) PROVE IInv'
    <2>1. TypeOK'
        BY <1>4 DEF IInv, TypeOK, PageFails, JobReturns, durable
    <2>2. PlanIsCurrent' /\ HostIsBehind'
        BY <1>4, DurableStays DEF IInv, PageFails, JobReturns, PlanIsCurrent, HostIsBehind
    <2> QED BY <1>4, <2>1, <2>2, DurableStays DEF IInv, PageFails
<1>5. ASSUME NEW c \in Collections, JobPanics(c) PROVE IInv'
    <2>1. TypeOK'
        BY <1>5 DEF IInv, TypeOK, JobPanics, durable
    <2>2. PlanIsCurrent' /\ HostIsBehind'
        BY <1>5, DurableStays DEF IInv, JobPanics, PlanIsCurrent, HostIsBehind
    <2> QED BY <1>5, <2>1, <2>2, DurableStays DEF IInv, JobPanics
<1>6. ASSUME Crash PROVE IInv'
    <2>1. Restarts \subseteq Nat \ {0}
        BY CurrentType DEF IInv, Restarts
    <2>2. at' \in [Collections -> Nat \ {0}]
        BY <1>6, <2>1 DEF Crash
    <2>3. crashes' \in 0 .. MaxCrashes
        BY <1>6, IngestionAssumption DEF IInv, TypeOK, Crash
    <2>4. TypeOK'
        BY <1>6, <2>2, <2>3 DEF IInv, TypeOK, Crash, durable
    <2>5. PlanIsCurrent' /\ HostIsBehind'
        BY <1>6, DurableStays DEF IInv, Crash, PlanIsCurrent, HostIsBehind
    <2> QED BY <1>6, <2>4, <2>5, DurableStays DEF IInv, Crash
<1>7. ASSUME Tick PROVE IInv'
    <2>1. TypeOK'
        BY <1>7 DEF IInv, TypeOK, Tick, Capped, durable
    <2>2. PlanIsCurrent'
        BY <1>7, PlanStays DEF Tick
    <2>3. HostIsBehind'
        BY <1>7, DurableStays DEF IInv, Tick, HostIsBehind
    <2> QED BY <1>7, <2>1, <2>2, <2>3, DurableStays DEF IInv, Tick
<1>8. ASSUME UNCHANGED vars PROVE IInv'
    <2>1. UNCHANGED <<stream, durable>> /\ at' = at /\ job' = job /\ planned' = planned
        BY <1>8 DEF vars, durable
    <2>2. TypeOK'
        BY <1>8 DEF IInv, TypeOK, vars
    <2>3. HostIsBehind' /\ PlanIsCurrent'
        BY <2>1, DurableStays, PlanStays DEF IInv, HostIsBehind
    <2> QED BY <2>1, <2>2, <2>3, DurableStays DEF IInv
<1> QED BY <1>1, <1>2, <1>3, <1>4, <1>5, <1>6, <1>7, <1>8 DEF Next

\* All invariants of Ingestion, in the form that is inductive.
THEOREM Invariance == Spec => []IInv
    BY InitEstablishes, NextPreserves, PTL DEF Spec

\* Types, for every set of collections and every stream of pages
\* (`plan_page_transaction`, `run_due`).
THEOREM RowsAreTyped == Spec => []TypeOK
<1>1. IInv => TypeOK
    BY DEF IInv
<1> QED BY <1>1, Invariance, PTL

\* No failure, crash or replay moves the cursor past an item that has no
\* durable and safe row of its version (`commit_planned_page`).
THEOREM NothingIsSkipped == Spec => []NothingSkipped
<1>1. IInv => NothingSkipped
    BY DEF IInv
<1> QED BY <1>1, Invariance, PTL

\* No replay records a message version a second time (`existing_observation`).
THEOREM VersionsAreRecordedOnce == Spec => []RecordedByOneCommit
<1>1. IInv => RecordedByOneCommit
    BY DEF IInv
<1> QED BY <1>1, Invariance, PTL

\* Nothing of the window that establishes a baseline is analysed at once
\* (`classify_eligibility`, against the baseline before the page).
THEOREM HistoryWaits == Spec => []HistoryNeverInterrupts
<1>1. IInv => HistoryNeverInterrupts
    BY DEF IInv
<1> QED BY <1>1, Invariance, PTL
=============================================================================
