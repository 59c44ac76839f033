--------------------------- MODULE StateRoot_proofs ---------------------------
(***************************************************************************)
(* Theorems about the protected state, for any number of writers, any      *)
(* limits and any clock, through crashes, failures and losses.             *)
(***************************************************************************)
EXTENDS StateRoot, TLAPS

USE LimitsAssumption, TimesAssumption

Processes == [at : Points, bundle : Bundles, batch : Batches]

\* Values of the right types make a bundle.
LEMMA BundleType ==
  ASSUME NEW u \in 0..HardLimit, NEW g \in 1..LastGeneration,
         NEW r \in SUBSET Attempts, NEW m \in Times
  PROVE  /\ Bundle(u, g, r, m) \in Bundles
         /\ Bundle(u, g, r, m).used = u /\ Bundle(u, g, r, m).generation = g
         /\ Bundle(u, g, r, m).rows = r /\ Bundle(u, g, r, m).mark = m
  BY DEF Bundle, Bundles

\* The fields of a bundle have their types.
LEMMA BundleFields ==
  ASSUME NEW b \in Bundles
  PROVE  /\ b.used \in 0..HardLimit /\ b.generation \in 1..LastGeneration
         /\ b.rows \in SUBSET Attempts /\ b.mark \in Times
  BY DEF Bundles

\* Values of the right types make a reserved batch.
LEMMA BatchType ==
  ASSUME NEW f \in 0..HardLimit, NEW c \in 0..MaxCount
  PROVE  Batch(f, c) \in Batches /\ Batch(f, c).first = f /\ Batch(f, c).count = c
  BY DEF Batch, Batches

\* The fields of a batch have their types.
LEMMA BatchFields ==
  ASSUME NEW b \in Batches PROVE b.first \in 0..HardLimit /\ b.count \in 0..MaxCount
  BY DEF Batches

\* The first bundle and the empty batch have their types.
LEMMA EmptyHands == Fresh \in Bundles /\ NoBatch \in Batches
<1>1. 0 \in 0..HardLimit /\ 1 \in 1..LastGeneration /\ 0 \in 0..MaxCount
  OBVIOUS
<1> QED BY <1>1, BundleType, BatchType DEF Fresh, NoBatch

\* A reservation within the limits gives a bundle (reserve).
LEMMA CountedType ==
  ASSUME NEW b \in Bundles, NEW count \in Counts, mayReserve(b.used, count)
  PROVE  /\ Counted(b, count) \in Bundles /\ Counted(b, count).used = b.used + count
         /\ Counted(b, count).rows = b.rows
<1>0. \A u \in 0..HardLimit : mayReserve(u, count) => u + count \in 0..HardLimit
  BY DEF Counts, mayReserve
<1>1. b.used + count \in 0..HardLimit
  BY <1>0, BundleFields, Zenon
<1>2. b.generation \in 1..LastGeneration /\ b.rows \in SUBSET Attempts /\ b.mark \in Times
  BY BundleFields
<1> DEFINE total == b.used + count
<1>3. total \in 0..HardLimit /\ Counted(b, count) = Bundle(total, b.generation, b.rows, b.mark)
  BY <1>1 DEF Counted
<1> HIDE DEF total
<1>4. /\ Bundle(total, b.generation, b.rows, b.mark) \in Bundles
      /\ Bundle(total, b.generation, b.rows, b.mark).used = total
      /\ Bundle(total, b.generation, b.rows, b.mark).rows = b.rows
  BY <1>2, <1>3 DEF Bundle, Bundles
<1> QED BY <1>3, <1>4, Zenon DEF total

\* A committed batch gives the bundle of the next generation (advance).
LEMMA AdvancedType ==
  ASSUME TypeOK, NEW b \in Bundles, b.generation < LastGeneration
  PROVE  /\ Advanced(b) \in Bundles /\ Advanced(b).rows = db /\ Advanced(b).used = b.used
         /\ Advanced(b).generation = b.generation + 1
<1>1. b.generation + 1 \in 1..LastGeneration
  BY BundleFields
<1>2. db \in SUBSET Attempts /\ now \in Times
  BY DEF TypeOK
<1> QED BY <1>1, <1>2, BundleFields, BundleType DEF Advanced

\* A point, a bundle and a batch make a writer.
LEMMA ProcessType ==
  ASSUME NEW at \in Points, NEW b \in Bundles, NEW r \in Batches
  PROVE  /\ Process(at, b, r) \in Processes /\ Process(at, b, r).at = at
         /\ Process(at, b, r).bundle = b /\ Process(at, b, r).batch = r
  BY DEF Process, Processes

\* What a writer holds has its type.
LEMMA WriterFields ==
  ASSUME TypeOK, NEW w \in Writers
  PROVE  writer[w].at \in Points /\ Bundled(w) \in Bundles /\ Reserved(w) \in Batches
  BY DEF TypeOK, Bundled, Reserved

\* What one step does to the writers.
LEMMA ProceedEffect ==
  ASSUME TypeOK, NEW w \in Writers, NEW at \in Points, NEW b \in Bundles, NEW r \in Batches,
         Proceed(w, at, b, r)
  PROVE  /\ writer' \in [Writers -> Processes]
         /\ writer'[w].at = at /\ writer'[w].bundle = b /\ writer'[w].batch = r
         /\ \A v \in Writers \ {w} : writer'[v] = writer[v]
<1>1. writer \in [Writers -> Processes]
  BY DEF TypeOK, Processes
<1>2. writer' = [writer EXCEPT ![w] = Process(at, b, r)]
  BY DEF Proceed
<1> QED BY <1>1, <1>2, ProcessType

\* The rows of a batch are attempts.
LEMMA RowsOfType == ASSUME NEW b PROVE RowsOf(b) \in SUBSET Attempts
  BY DEF RowsOf

------------------------------------------------------------------------------
\* The inductive invariant.
IInv == TypeOK /\ RootInv /\ SpentOnce /\ OneBatchAhead

\* A writer under way is alone.
LEMMA Alone ==
  ASSUME TypeOK, LockHeld, NEW w \in Writers, ~At(w, "idle") \/ lock \notin Writers
  PROVE  /\ ~At(w, "idle") => lock = w
         /\ \A v \in Writers \ {w} : At(v, "idle")
         /\ lock \notin Writers => \A v \in Writers : At(v, "idle")
  BY DEF LockHeld

\* The other writers stay idle and know nothing, so the invariant of a step is
\* that of the writer that takes it.
LEMMA StepOfOne ==
  ASSUME NEW w \in Writers, \A v \in Writers \ {w} : At(v, "idle"),
         \A v \in Writers \ {w} : writer'[v] = writer[v],
         writer'[w].at # "idle" => lock' = w, HoldsDisk(w)'
  PROVE  LockHeld' /\ (\A v \in Writers : HoldsDisk(v)')
<1>1. ASSUME NEW v \in Writers \ {w}
      PROVE  writer'[v].at = "idle" /\ HoldsDisk(v)'
  <2>1. writer'[v].at = "idle"
    BY DEF At
  <2> QED BY <2>1 DEF HoldsDisk, At
<1>2. LockHeld'
  BY <1>1 DEF LockHeld, At
<1> QED BY <1>1, <1>2

\* A new store satisfies the invariant.
LEMMA InitInv == Init => IInv
<1> SUFFICES ASSUME Init PROVE IInv
  OBVIOUS
<1>1. Fresh.rows = {} /\ Fresh.used = 0
  BY DEF Fresh, Bundle
<1>2. TypeOK
  <2>1. writer \in [Writers -> Processes]
    BY EmptyHands, ProcessType DEF Init, Points
  <2>2. spent \in [Attempts -> Nat]
    BY DEF Init
  <2> QED BY <2>1, <2>2, EmptyHands DEF Init, TypeOK, Processes
<1>3. \A w \in Writers : writer[w].at = "idle"
  BY DEF Init, Process
<1>4. RootInv
  BY <1>1, <1>3 DEF Init, RootInv, LockHeld, HoldsDisk, At
<1>5. SpentOnce
  BY DEF Init, SpentOnce
<1>6. OneBatchAhead
  <2>1. 0 \in 0..HardLimit
    OBVIOUS
  <2> QED BY <2>1, <1>1 DEF Init, OneBatchAhead
<1> QED BY <1>2, <1>4, <1>5, <1>6 DEF IInv

------------------------------------------------------------------------------
(* Steps that give up: the writer drops what it held, the disk stays. *)

\* Whoever gives up, in whatever way, preserves the invariant.
LEMMA DropKeepsInv ==
  ASSUME IInv, NEW w \in Writers, NEW at \in {"idle", "locked", "frozen"}, Drop(w, at),
         \A v \in Writers \ {w} : At(v, "idle"),
         at = "idle" => lock' \in Writers \cup {"nobody", "dead"},
         at # "idle" => lock' = w,
         UNCHANGED <<disk, now, spent, published>>
  PROVE  IInv'
<1> USE DEF IInv, RootInv
<1>1. at \in Points
  BY DEF Points
<1>2. Proceed(w, at, Fresh, NoBatch)
  BY DEF Drop
<1>3. /\ writer' \in [Writers -> Processes] /\ writer'[w].at = at
      /\ \A v \in Writers \ {w} : writer'[v] = writer[v]
  BY <1>1, <1>2, EmptyHands, ProceedEffect
<1>4. TypeOK'
  BY <1>3 DEF TypeOK, disk, Processes
<1>5. HoldsDisk(w)'
  BY <1>3 DEF HoldsDisk, At
<1>6. LockHeld' /\ (\A v \in Writers : HoldsDisk(v)')
  BY <1>3, <1>5, StepOfOne
<1>7. published' \subseteq file'.rows /\ SpentOnce' /\ OneBatchAhead'
  BY DEF disk, SpentOnce, OneBatchAhead
<1> QED BY <1>4, <1>6, <1>7

\* A step of a writer under way that changes the disk, the counts or what it holds.
LEMMA HolderKeepsInv ==
  ASSUME IInv, NEW w \in Writers, ~At(w, "idle"),
         NEW at \in Points, NEW b \in Bundles, NEW r \in Batches, Proceed(w, at, b, r),
         UNCHANGED <<lock, now>>, lost' \in BOOLEAN,
         file' \in Bundles, db' \subseteq Attempts, spent' \in [Attempts -> Nat],
         published' \subseteq file'.rows, HoldsDisk(w)', SpentOnce', OneBatchAhead'
  PROVE  IInv'
<1> USE DEF IInv, RootInv
<1>1. /\ writer' \in [Writers -> Processes] /\ writer'[w].at = at
      /\ \A v \in Writers \ {w} : writer'[v] = writer[v]
  BY ProceedEffect
<1>2. lock' = w /\ \A v \in Writers \ {w} : At(v, "idle")
  BY Alone
<1>3. TypeOK'
  <2>1. published' \subseteq Attempts
    BY BundleFields
  <2> QED BY <1>1, <2>1 DEF TypeOK, Processes
<1>4. LockHeld' /\ (\A v \in Writers : HoldsDisk(v)')
  BY <1>1, <1>2, StepOfOne
<1> QED BY <1>3, <1>4

------------------------------------------------------------------------------
(* Each step of a writer that goes on. *)

\* Reconciliation at the start preserves the invariant.
LEMMA StartupKeepsInv ==
  ASSUME IInv, NEW w \in Writers, Startup(w) PROVE IInv'
<1> USE DEF IInv, RootInv
<1>0. ~At(w, "idle") /\ lock = w /\ \A v \in Writers \ {w} : At(v, "idle")
  BY Alone DEF Startup, At
<1>1. CASE Accepts
  <2>1. Proceed(w, "ready", file, NoBatch) /\ UNCHANGED <<disk, lock, now, spent, published>>
    BY <1>1 DEF Startup
  <2>2. "ready" \in Points /\ file \in Bundles
    BY DEF Points, TypeOK
  <2>3. writer'[w].at = "ready" /\ writer'[w].bundle = file
    BY <2>1, <2>2, EmptyHands, ProceedEffect
  <2>4. HoldsDisk(w)'
    BY <1>1, <2>1, <2>3 DEF HoldsDisk, At, Bundled, Accepts, disk
  <2>5. SpentOnce' /\ OneBatchAhead' /\ published' \subseteq file'.rows
    BY <2>1 DEF SpentOnce, OneBatchAhead, disk
  <2>6. lost' \in BOOLEAN /\ file' \in Bundles /\ db' \subseteq Attempts /\ spent' \in [Attempts -> Nat]
    BY <2>1 DEF TypeOK, disk
  <2> QED BY <1>0, <2>1, <2>2, <2>4, <2>5, <2>6, EmptyHands, HolderKeepsInv
<1>2. CASE ~Accepts
  <2>1. Drop(w, "frozen") /\ UNCHANGED <<disk, lock, now, spent, published>>
    BY <1>2 DEF Startup
  <2> QED BY <1>0, <2>1, DropKeepsInv
<1> QED BY <1>1, <1>2

\* Reserving attempts preserves the invariant: they are counted before they are used.
LEMMA ReserveKeepsInv ==
  ASSUME IInv, NEW w \in Writers, NEW count \in Counts, Reserve(w, count) PROVE IInv'
<1> USE DEF IInv, RootInv
<1> DEFINE b == Bundled(w)
           r == Batch(b.used, count)
<1>1. /\ At(w, "ready") /\ mayReserve(b.used, count) /\ file' = Counted(b, count)
      /\ Proceed(w, "reserved", Counted(b, count), r)
      /\ UNCHANGED <<lost, db, lock, now, spent, published>>
  BY DEF Reserve
<1>2. ~lost /\ b = file /\ db = file.rows
  BY <1>1 DEF HoldsDisk, At
<1>3. b \in Bundles /\ "reserved" \in Points
  BY WriterFields DEF Points
<1>4. /\ Counted(b, count) \in Bundles /\ Counted(b, count).used = b.used + count
      /\ Counted(b, count).rows = b.rows
  BY <1>1, <1>3, CountedType
<1>5. b.used \in 0..HardLimit /\ count \in 0..MaxCount /\ count \in Nat
  BY <1>3, BundleFields DEF Counts
<1>6. r \in Batches /\ r.first = b.used /\ r.count = count
  BY <1>5, BatchType
<1> HIDE DEF b, r
<1>7. writer'[w].at = "reserved" /\ writer'[w].bundle = Counted(b, count) /\ writer'[w].batch = r
  BY <1>1, <1>3, <1>4, <1>6, ProceedEffect
<1>8. \A a \in RowsOf(r) : a \in Attempts /\ ~(a < b.used)
  BY <1>5, <1>6 DEF RowsOf, Attempts
<1>9. \A a \in RowsOf(r) : spent[a] = 0
  <2> SUFFICES ASSUME NEW a \in RowsOf(r) PROVE spent[a] = 0
    OBVIOUS
  <2>1. a \in Attempts /\ ~(a < b.used) /\ spent[a] \in Nat
    BY <1>8 DEF TypeOK
  <2>2. spent[a] <= 1 /\ spent[a] # 1
    BY <1>2, <2>1 DEF SpentOnce
  <2> QED BY <2>1, <2>2
<1>10. HoldsDisk(w)'
  BY <1>1, <1>2, <1>4, <1>6, <1>7, <1>9 DEF HoldsDisk, At, Bundled, Reserved
<1>11. SpentOnce'
  <2> SUFFICES ASSUME NEW a \in Attempts
               PROVE  spent[a] <= 1 /\ (spent[a] = 1 => a < b.used + count)
    BY <1>1, <1>4 DEF SpentOnce
  <2>1. spent[a] <= 1 /\ (spent[a] = 1 => a < b.used) /\ a \in Nat
    BY <1>2 DEF SpentOnce, Attempts
  <2> QED BY <2>1, <1>5
<1>12. OneBatchAhead'
  BY <1>1, <1>2, <1>4 DEF OneBatchAhead
<1>13. published' \subseteq file'.rows
  BY <1>1, <1>2, <1>4
<1>14. lost' \in BOOLEAN /\ db' \subseteq Attempts /\ spent' \in [Attempts -> Nat]
  BY <1>1 DEF TypeOK
<1>15. ~At(w, "idle") /\ file' \in Bundles
  BY <1>1, <1>4 DEF At
<1> QED BY <1>1, <1>3, <1>4, <1>6, <1>10, <1>11, <1>12, <1>13, <1>14, <1>15, HolderKeepsInv

\* Sealing preserves the invariant: what it spends was reserved and is unspent.
LEMMA SealKeepsInv ==
  ASSUME IInv, NEW w \in Writers, NEW sealed \in 0..MaxCount, Seal(w, sealed) PROVE IInv'
<1> USE DEF IInv, RootInv
<1> DEFINE b == Bundled(w)
           r == Reserved(w)
           rows == RowsOf(Batch(r.first, sealed))
<1>1. /\ At(w, "reserved") /\ sealed <= r.count
      /\ spent' = [a \in Attempts |-> IF a \in rows THEN spent[a] + 1 ELSE spent[a]]
      /\ UNCHANGED <<disk, lock, now, published>>
  BY DEF Seal
<1>2. /\ ~lost /\ b = file /\ db = file.rows /\ r.first + r.count = file.used
      /\ \A a \in RowsOf(r) : spent[a] = 0
  BY <1>1 DEF HoldsDisk, At
<1>3. b \in Bundles /\ r \in Batches /\ "sealed" \in Points /\ "ready" \in Points
  BY WriterFields DEF Points
<1>4. r.first \in 0..HardLimit /\ r.count \in 0..MaxCount
  BY <1>3, BatchFields
<1>5. rows \subseteq RowsOf(r) /\ \A a \in rows : a < file.used
  <2>1. Batch(r.first, sealed).first = r.first /\ Batch(r.first, sealed).count = sealed
    BY <1>4, BatchType
  <2> QED BY <1>1, <1>2, <1>4, <2>1 DEF RowsOf, Attempts
<1>6. spent' \in [Attempts -> Nat]
  BY <1>1 DEF TypeOK
<1>7. SpentOnce'
  <2> SUFFICES ASSUME NEW a \in Attempts
               PROVE  spent'[a] <= 1 /\ (spent'[a] = 1 => a < file.used)
    BY <1>1 DEF SpentOnce, disk
  <2>1. CASE a \in rows
    BY <1>1, <1>2, <1>5, <2>1
  <2>2. CASE a \notin rows
    BY <1>1, <2>2 DEF SpentOnce
  <2> QED BY <2>1, <2>2
<1>8. OneBatchAhead' /\ published' \subseteq file'.rows
  BY <1>1 DEF OneBatchAhead, disk
<1>9. /\ ~At(w, "idle") /\ lost' \in BOOLEAN /\ file' \in Bundles /\ db' \subseteq Attempts
      /\ UNCHANGED <<lock, now>>
  BY <1>1 DEF At, TypeOK, disk
<1> HIDE DEF b, r, rows
<1>10. CASE sealed = r.count
  <2>1. Proceed(w, "sealed", b, r)
    BY <1>10 DEF Seal, b, r
  <2>2. writer'[w].at = "sealed" /\ writer'[w].bundle = b
    BY <1>3, <2>1, ProceedEffect
  <2>3. HoldsDisk(w)'
    BY <1>1, <1>2, <2>2 DEF HoldsDisk, At, Bundled, disk
  <2> QED BY <1>3, <1>6, <1>7, <1>8, <1>9, <2>1, <2>3, HolderKeepsInv
<1>11. CASE sealed # r.count
  <2>1. Proceed(w, "ready", b, NoBatch)
    BY <1>11 DEF Seal, b, r
  <2>2. writer'[w].at = "ready" /\ writer'[w].bundle = b
    BY <1>3, <2>1, EmptyHands, ProceedEffect
  <2>3. HoldsDisk(w)'
    BY <1>1, <1>2, <2>2 DEF HoldsDisk, At, Bundled, disk
  <2> QED BY <1>3, <1>6, <1>7, <1>8, <1>9, <2>1, <2>3, EmptyHands, HolderKeepsInv
<1> QED BY <1>10, <1>11

\* The commit of the database preserves the invariant.
LEMMA CommitKeepsInv ==
  ASSUME IInv, NEW w \in Writers, Commit(w) PROVE IInv'
<1> USE DEF IInv, RootInv
<1> DEFINE b == Bundled(w)
           r == Reserved(w)
<1>1. At(w, "sealed") /\ UNCHANGED <<file, lost, lock, now, spent, published>>
  BY DEF Commit
<1>2. ~lost /\ b = file /\ db = file.rows
  BY <1>1 DEF HoldsDisk, At
<1>3. b \in Bundles /\ r \in Batches /\ "committed" \in Points /\ "ready" \in Points
  BY WriterFields DEF Points
<1>4. /\ ~At(w, "idle") /\ lost' \in BOOLEAN /\ file' \in Bundles
      /\ spent' \in [Attempts -> Nat] /\ published' \subseteq file'.rows /\ SpentOnce'
  BY <1>1 DEF At, TypeOK, SpentOnce
<1>5. CASE db' = db \cup RowsOf(r) /\ Proceed(w, "committed", b, r)
  <2>1. writer'[w].at = "committed" /\ writer'[w].bundle = b /\ writer'[w].batch = r
    BY <1>3, <1>5, ProceedEffect
  <2>2. HoldsDisk(w)'
    BY <1>1, <1>2, <1>5, <2>1 DEF HoldsDisk, At, Bundled, Reserved
  <2>3. db' \subseteq Attempts
    BY <1>5, RowsOfType DEF TypeOK
  <2>4. OneBatchAhead'
    <3>1. r.first \in 0..HardLimit /\ r.count \in 0..MaxCount
      BY <1>3, BatchFields
    <3>2. Batch(r.first, MaxCount).first = r.first /\ Batch(r.first, MaxCount).count = MaxCount
      BY <3>1, BatchType
    <3>3. RowsOf(r) \subseteq RowsOf(Batch(r.first, MaxCount))
      BY <3>1, <3>2 DEF RowsOf, Attempts
    <3> QED BY <1>1, <1>2, <1>5, <3>1, <3>3 DEF OneBatchAhead
  <2> QED BY <1>1, <1>3, <1>4, <1>5, <2>2, <2>3, <2>4, HolderKeepsInv
<1>6. CASE Proceed(w, "ready", b, NoBatch) /\ UNCHANGED db
  <2>1. writer'[w].at = "ready" /\ writer'[w].bundle = b
    BY <1>3, <1>6, EmptyHands, ProceedEffect
  <2>2. HoldsDisk(w)'
    BY <1>1, <1>2, <1>6, <2>1 DEF HoldsDisk, At, Bundled
  <2>3. db' \subseteq Attempts /\ OneBatchAhead'
    BY <1>1, <1>6 DEF TypeOK, OneBatchAhead
  <2> QED BY <1>1, <1>3, <1>4, <1>6, <2>2, <2>3, EmptyHands, HolderKeepsInv
<1> QED BY <1>5, <1>6 DEF Commit

\* The replacement of the anchor preserves the invariant.
LEMMA AdvanceWriteKeepsInv ==
  ASSUME IInv, NEW w \in Writers, AdvanceWrite(w) PROVE IInv'
<1> USE DEF IInv, RootInv
<1> DEFINE b == Bundled(w)
<1>1. /\ At(w, "committed") /\ b.generation < LastGeneration /\ file' = Advanced(b)
      /\ Proceed(w, "written", Advanced(b), NoBatch)
      /\ UNCHANGED <<lost, db, lock, now, spent, published>>
  BY DEF AdvanceWrite
<1>2. ~lost /\ b = file /\ db = file.rows \cup RowsOf(Reserved(w))
  BY <1>1 DEF HoldsDisk, At
<1>3. b \in Bundles /\ "written" \in Points
  BY WriterFields DEF Points
<1>4. Advanced(b) \in Bundles /\ Advanced(b).rows = db /\ Advanced(b).used = b.used
  BY <1>1, <1>3, AdvancedType
<1> HIDE DEF b
<1>5. writer'[w].at = "written" /\ writer'[w].bundle = Advanced(b)
  BY <1>1, <1>3, <1>4, EmptyHands, ProceedEffect
<1>6. HoldsDisk(w)'
  BY <1>1, <1>2, <1>4, <1>5 DEF HoldsDisk, At, Bundled
<1>7. SpentOnce' /\ published' \subseteq file'.rows
  BY <1>1, <1>2, <1>4 DEF SpentOnce
<1>8. OneBatchAhead'
  <2>1. db' \ file'.rows = {} /\ 0 \in 0..HardLimit
    BY <1>1, <1>4
  <2> QED BY <2>1 DEF OneBatchAhead
<1>9. /\ ~At(w, "idle") /\ lost' \in BOOLEAN /\ file' \in Bundles
      /\ db' \subseteq Attempts /\ spent' \in [Attempts -> Nat]
  BY <1>1, <1>4 DEF At, TypeOK
<1> QED BY <1>1, <1>3, <1>4, <1>6, <1>7, <1>8, <1>9, EmptyHands, HolderKeepsInv

\* The check of the written anchor preserves the invariant.
LEMMA AdvanceReopenKeepsInv ==
  ASSUME IInv, NEW w \in Writers, AdvanceReopen(w) PROVE IInv'
<1> USE DEF IInv, RootInv
<1>1. At(w, "written") /\ UNCHANGED <<disk, lock, now, spent>>
  BY DEF AdvanceReopen
<1>2. ~lost /\ Bundled(w) = file /\ db = file.rows
  BY <1>1 DEF HoldsDisk, At
<1>3. ~At(w, "idle") /\ lock = w /\ \A v \in Writers \ {w} : At(v, "idle")
  BY <1>1, Alone DEF At
<1>4. CASE Proceed(w, "ready", file, NoBatch) /\ published' = file.rows
  <2>1. "ready" \in Points /\ file \in Bundles
    BY DEF Points, TypeOK
  <2>2. writer'[w].at = "ready" /\ writer'[w].bundle = file
    BY <1>4, <2>1, EmptyHands, ProceedEffect
  <2>3. HoldsDisk(w)'
    BY <1>1, <1>2, <2>2 DEF HoldsDisk, At, Bundled, disk
  <2>4. SpentOnce' /\ OneBatchAhead' /\ published' \subseteq file'.rows
    BY <1>1, <1>4 DEF SpentOnce, OneBatchAhead, disk
  <2>5. /\ lost' \in BOOLEAN /\ file' \in Bundles /\ db' \subseteq Attempts
        /\ spent' \in [Attempts -> Nat] /\ UNCHANGED <<lock, now>>
    BY <1>1 DEF TypeOK, disk
  <2> QED BY <1>3, <1>4, <2>1, <2>3, <2>4, <2>5, EmptyHands, HolderKeepsInv
<1>5. CASE Drop(w, "locked") /\ UNCHANGED published
  BY <1>1, <1>3, <1>5, DropKeepsInv
<1> QED BY <1>4, <1>5 DEF AdvanceReopen

------------------------------------------------------------------------------
\* The writers stay where they are.
LEMMA OutsideKeepsInv ==
  ASSUME IInv, UNCHANGED <<file, writer, spent, published>>, db' \subseteq db,
         lock' = lock \/ (lock = "dead" /\ lock' = "nobody"),
         (lost' = lost /\ db' = db) \/ Closed, lost' \in BOOLEAN, now' \in Times
  PROVE  IInv'
<1> USE DEF IInv, RootInv
<1>1. TypeOK'
  BY DEF TypeOK
<1>2. LockHeld'
  <2>1. lock = "dead" => lock \notin Writers
    BY WritersAssumption
  <2> QED BY <2>1 DEF LockHeld, At
<1>3. ASSUME NEW w \in Writers PROVE HoldsDisk(w)'
  <2>1. CASE Closed
    BY <2>1 DEF Closed, HoldsDisk, At
  <2>2. CASE lost' = lost /\ db' = db
    BY <2>2 DEF HoldsDisk, At, Bundled, Reserved
  <2> QED BY <2>1, <2>2
<1>4. SpentOnce' /\ OneBatchAhead' /\ published' \subseteq file'.rows
  BY DEF SpentOnce, OneBatchAhead
<1> QED BY <1>1, <1>2, <1>3, <1>4

\* Every step of the writers and of the world preserves the invariant.
LEMMA NextInv == IInv /\ [Next]_vars => IInv'
<1> SUFFICES ASSUME IInv, [Next]_vars PROVE IInv'
  OBVIOUS
<1> USE DEF IInv, RootInv
<1>1. ASSUME NEW w \in Writers, Acquire(w) PROVE IInv'
  <2>1. lock \notin Writers
    BY <1>1, WritersAssumption DEF Acquire
  <2> QED BY <1>1, <2>1, Alone, DropKeepsInv DEF Acquire
<1>2. ASSUME NEW w \in Writers, Release(w) \/ Crash(w) PROVE IInv'
  <2>1. \E left \in {"nobody", "dead"} : Leave(w, left)
    BY <1>2 DEF Release, Crash
  <2> QED BY <2>1, Alone, DropKeepsInv DEF Leave
<1>3. ASSUME NEW w \in Writers, ReservationFails(w) \/ AdvanceFails(w) PROVE IInv'
  <2>1. /\ ~At(w, "idle") /\ Drop(w, "locked")
        /\ UNCHANGED <<disk, lock, now, spent, published>>
    BY <1>3 DEF ReservationFails, AdvanceFails, At
  <2> QED BY <2>1, Alone, DropKeepsInv
<1>4. CASE RemoveLeftLock
  BY <1>4, OutsideKeepsInv DEF RemoveLeftLock, disk, TypeOK
<1>5. ASSUME NEW rows \in SUBSET db, LoseRows(rows) PROVE IInv'
  BY <1>5, OutsideKeepsInv DEF LoseRows, TypeOK
<1>6. CASE LoseFile
  BY <1>6, OutsideKeepsInv DEF LoseFile, TypeOK
<1>7. ASSUME NEW t \in Times, SetClock(t) PROVE IInv'
  BY <1>7, OutsideKeepsInv DEF SetClock, disk, TypeOK
<1>8. CASE UNCHANGED vars
  BY <1>8, OutsideKeepsInv DEF vars, disk, TypeOK
<1> QED
  BY <1>1, <1>2, <1>3, <1>4, <1>5, <1>6, <1>7, <1>8, StartupKeepsInv, ReserveKeepsInv,
     SealKeepsInv, CommitKeepsInv, AdvanceWriteKeepsInv, AdvanceReopenKeepsInv DEF Next

\* The inductive invariant holds throughout (the whole writer sequence of
\* reserve_aead_batch, write_transaction and advance_after_commit).
THEOREM Invariant == Spec => []IInv
  BY InitInv, NextInv, PTL DEF Spec

\* Every variable has its type: no total of attempts passes the hard limit, and
\* the generation never passes the last one (checked_reserve, next_generation).
THEOREM TypeCorrect == Spec => []TypeOK
  BY Invariant, PTL DEF IInv

\* "Every reserved slot is burned": across crashes and failures no attempt is
\* spent twice, and none that the file does not count (reserve_aead_batch).
THEOREM AttemptsSpentOnce == Spec => []SpentOnce
  BY Invariant, PTL DEF IInv

\* The writer lock, the bundle a writer holds and the disk agree at every step
\* of the sequence (WriterLock::acquire, startup_reconcile, advance_after_commit).
THEOREM RootAgrees == Spec => []RootInv
  BY Invariant, PTL DEF IInv

\* A crash leaves the database at most one batch ahead of its anchor
\* (advance_after_commit, startup_reconcile).
THEOREM BoundedDamage == Spec => []OneBatchAhead
  BY Invariant, PTL DEF IInv

------------------------------------------------------------------------------
(* The sequence of a writer implements the abstract store. *)

\* A start is given the rows of the anchor or it is refused.
LEMMA ShownNext ==
  ASSUME file'.rows = file.rows, UNCHANGED published
  PROVE  Confirmed!Change
<1>1. Shown' \in {Confirmed!Given(file'.rows), Confirmed!Refused}
  BY DEF Shown, Accepts, Confirmed!Given, Confirmed!Refused
<1> QED BY <1>1 DEF Confirmed!Change, Confirmed!Given

\* Every step is one of the abstract store, or changes nothing of what it shows.
LEMMA StepImplements ==
  IInv /\ [Next]_vars => [Confirmed!Next]_<<file.rows, published, Shown>>
<1> SUFFICES ASSUME IInv, [Next]_vars
             PROVE  Confirmed!Next \/ UNCHANGED <<file.rows, published, Shown>>
  OBVIOUS
<1> USE DEF IInv, RootInv
<1>1. ASSUME NEW w \in Writers, NEW count \in Counts, Reserve(w, count)
      PROVE  Confirmed!Next
  <2>1. /\ At(w, "ready") /\ mayReserve(Bundled(w).used, count)
        /\ file' = Counted(Bundled(w), count) /\ UNCHANGED published
    BY <1>1 DEF Reserve
  <2>2. Bundled(w) = file /\ Bundled(w) \in Bundles
    BY <2>1, WriterFields DEF HoldsDisk, At
  <2>3. file'.rows = file.rows
    BY <2>1, <2>2, CountedType
  <2> QED BY <2>1, <2>3, ShownNext DEF Confirmed!Next
<1>2. ASSUME NEW w \in Writers, AdvanceWrite(w)
      PROVE  Confirmed!Next
  <2>1. /\ At(w, "committed") /\ Bundled(w).generation < LastGeneration
        /\ file' = Advanced(Bundled(w)) /\ UNCHANGED <<published, db, lost>>
    BY <1>2 DEF AdvanceWrite
  <2>2. db = file.rows \cup RowsOf(Reserved(w)) /\ Bundled(w) \in Bundles
    BY <2>1, WriterFields DEF HoldsDisk, At
  <2>3. file'.rows = file.rows \cup RowsOf(Reserved(w)) /\ RowsOf(Reserved(w)) \in SUBSET Attempts
    BY <2>1, <2>2, AdvancedType, RowsOfType
  <2>4. Shown' \in {Confirmed!Given(file'.rows), Confirmed!Refused}
    BY DEF Shown, Accepts, Confirmed!Given, Confirmed!Refused
  <2>5. Confirmed!Extend
    BY <2>1, <2>3, <2>4 DEF Confirmed!Extend
  <2> QED BY <2>5 DEF Confirmed!Next
<1>3. ASSUME NEW w \in Writers, AdvanceReopen(w)
      PROVE  Confirmed!Next
  <2>1. UNCHANGED <<file, lost, db, now>>
    BY <1>3 DEF AdvanceReopen, disk
  <2>2. Shown' = Shown
    BY <2>1 DEF Shown, Accepts
  <2>3. CASE published' = file.rows
    BY <2>1, <2>2, <2>3 DEF Confirmed!Next, Confirmed!Publish
  <2>4. CASE UNCHANGED published
    BY <2>1, <2>4, ShownNext DEF Confirmed!Next
  <2> QED BY <1>3, <2>3, <2>4 DEF AdvanceReopen
<1>4. ASSUME UNCHANGED <<file, published>> PROVE Confirmed!Next
  BY <1>4, ShownNext DEF Confirmed!Next
<1>5. ASSUME NEW w \in Writers,
             \/ Acquire(w) \/ Release(w) \/ Crash(w) \/ Startup(w) \/ ReservationFails(w)
             \/ (\E sealed \in 0..MaxCount : Seal(w, sealed)) \/ Commit(w) \/ AdvanceFails(w)
      PROVE  UNCHANGED <<file, published>>
  BY <1>5 DEF Acquire, Release, Crash, Leave, Startup, ReservationFails, Seal, Commit,
              AdvanceFails, disk
<1>6. ASSUME RemoveLeftLock \/ (\E rows \in SUBSET db : LoseRows(rows)) \/ LoseFile
             \/ (\E t \in Times : SetClock(t)) \/ UNCHANGED vars
      PROVE  UNCHANGED <<file, published>>
  BY <1>6 DEF RemoveLeftLock, LoseRows, LoseFile, SetClock, disk, vars
<1> QED BY <1>1, <1>2, <1>3, <1>4, <1>5, <1>6 DEF Next

\* A new store is an abstract store with nothing published.
LEMMA InitImplements == Init => Confirmed!Init
<1> SUFFICES ASSUME Init PROVE Confirmed!Init
  OBVIOUS
<1>1. file.rows = {} /\ published = {} /\ db = {}
  BY DEF Init, Fresh, Bundle
<1>2. Shown \in {Confirmed!Given({}), Confirmed!Refused}
  BY <1>1 DEF Shown, Confirmed!Given, Confirmed!Refused
<1> QED BY <1>1, <1>2 DEF Confirmed!Init

\* "The caller must not publish any result until this function returns Ok"
\* (advance_after_commit): in every run each start gets all that was published,
\* or it is refused.
THEOREM ImplementsStore == Spec => ImplementsConfirmedStore
<1>1. Init /\ [][Next]_vars /\ []IInv
      => Confirmed!Init /\ [][Confirmed!Next]_<<file.rows, published, Shown>>
  BY InitImplements, StepImplements, PTL
<1> QED BY <1>1, Invariant, PTL DEF Spec, ImplementsConfirmedStore, Confirmed!Spec, Confirmed!vars
==============================================================================
