------------------------ MODULE ReviewCoverage_proofs ------------------------
(***************************************************************************)
(* Theorems about the review, for every finite set of messages, every      *)
(* grouping of them into conversations and every outcome of the phases.    *)
(*                                                                         *)
(* What is read and what is listed as failed complement each other, except *)
(* for the conversations a scan under way works on.  A scan keeps this     *)
(* because its result does: of what it selected it has covered exactly     *)
(* what it does not list, unless its result is cut.                        *)
(***************************************************************************)
EXTENDS ReviewCoverage, FiniteSetTheorems, WellFoundedInduction, TLAPS

(* The types of the jobs; a job works on the messages `ms`. *)

Kinds == {"full", "retry", "check"}
Listings == SUBSET [conv : Threads, reason : Reasons]
RetryLoads == [kind : {"retryMail"}, sources : SUBSET enabled, scope : SUBSET Threads]
Loads == [kind : {"none", "mail", "checkMail"}] \cup RetryLoads

Runs(ms) ==
  [kind : Kinds, scope : SUBSET Threads, backend : Backends,
   stage : {"rules", "decide", "primary"}, key : [ms -> Threads], total : Nat,
   rejoined : BOOLEAN, halted : BOOLEAN, skipped : SUBSET Threads, chat : SUBSET Threads,
   unanswered : SUBSET ms, cancelled : BOOLEAN]

Results(ms) ==
  [kind : Kinds, scope : SUBSET Threads, stage : {"closures"}, rejoined : BOOLEAN,
   total : Nat, failed : Listings, covered : SUBSET ms, carded : SUBSET ms,
   analysed : Nat, answered : Nat, convs : Nat, transport : BOOLEAN, cancelled : BOOLEAN]

(* The inductive invariant. *)

JobTyped == job \in Loads \cup Runs(messages) \cup Results(messages)

OneEntryEach(entries) == \A f, g \in entries : f.conv = g.conv => f = g

ReviewTyped ==
  /\ user \in Users /\ enabled \subseteq user.providers /\ enabled # {}
  /\ failedSources \subseteq enabled
  /\ messages \subseteq Messages /\ key \in [messages -> Threads]
  /\ analysed \in BOOLEAN /\ cancel \in BOOLEAN
  /\ cards \in [Messages -> Nat] /\ {m \in Messages : cards[m] > 0} \subseteq messages
  /\ failed \in Listings /\ OneEntryEach(failed)
  /\ read \subseteq messages
  /\ cut \subseteq {"short", "rejoined"}

Running == Scanning /\ job.stage # "closures"
Closing == Scanning /\ job.stage = "closures"

\* A full load starts from nothing, a full scan is about everything, and neither
\* leaves cards on show meanwhile.
NoCards == \A m \in Messages : cards[m] = 0
FullJobs ==
  /\ job.kind = "mail" => messages = {}
  /\ job.kind \in {"mail", "full"} => NoCards
  /\ job.kind = "full" => job.scope = Threads /\ job.total = Cardinality(messages)

\* A scan that has joined no conversations knows them under the review's names.
\* What it skips had an answer for every paragraph, unless the user stops it.
RunKnows ==
  Running =>
    /\ ~job.rejoined => job.key = key
    /\ job.stage = "rules" => ~job.rejoined
    /\ job.skipped \subseteq Conversations(job.key, Selected)
    /\ job.stage # "primary" => job.skipped = {}
    /\ ~cancel => \A m \in job.unanswered : job.key[m] \notin job.skipped

\* What a result that is not cut says of the messages it is about.
Whole == ~job.rejoined /\ ~job.cancelled /\ job.carded \subseteq job.covered
Told ==
  /\ job.covered = {m \in Rescanned : key[m] \notin ConversationsOf(job.failed)}
  /\ job.analysed = Cardinality(job.covered)
  /\ job.convs = Cardinality({key[m] : m \in Rescanned})
  /\ job.answered + Cardinality(job.failed) = job.convs

ResultKnows ==
  Closing =>
    /\ OneEntryEach(job.failed) /\ ConversationsOf(job.failed) \subseteq job.scope
    /\ ~job.rejoined => job.carded \subseteq Rescanned
    /\ Whole => Told

JobInv == JobTyped /\ FullJobs /\ RunKnows /\ ResultKnows

\* The conversations a scan under way will report on.
Scope == IF Scanning THEN job.scope ELSE {}

\* Outside of them, to be read is not to be listed.
ReadIsUnlisted ==
  cut = {} => \A m \in messages : key[m] \notin Scope => (m \in read <=> key[m] \notin Listed)

\* What the summary on show says.
SummaryKnows ==
  ~Scanning /\ summary.shown /\ cut = {} =>
    /\ summary.analysed = Cardinality(read) /\ summary.total = Cardinality(messages)
    /\ summary.convs = Cardinality(Live)
    /\ Listed \subseteq Live => summary.analysedConvs + Cardinality(failed) = summary.convs
    /\ summary.failed + summary.notStarted = Cardinality(failed)
    /\ summary.analysedConvs \in Nat /\ summary.failed \in Nat /\ summary.notStarted \in Nat

IInv ==
  /\ ReviewTyped
  /\ JobInv
  /\ ReadIsUnlisted
  /\ SummaryKnows
  /\ NoCardTwice

-----------------------------------------------------------------------------
(* Numbers and finite sets. *)

\* A nonempty set of naturals has a least element, which is what Min picks.
LEMMA MinOfNats ==
  ASSUME NEW S \in SUBSET Nat, S # {}
  PROVE  Min(S) \in S
<1>1. PICK x \in S : \A y \in S : ~ (<<y, x>> \in OpToRel(<, Nat))
  BY NatLessThanWellFounded, WFMin
<1>2. ASSUME NEW y \in S
      PROVE  x <= y
  <2>1. <<y, x>> \in Nat \X Nat /\ <<y, x>>[1] = y /\ <<y, x>>[2] = x
    OBVIOUS
  <2>2. <<y, x>> \notin {ss \in Nat \X Nat : ss[1] < ss[2]}
    BY <1>1 DEF OpToRel
  <2> QED BY <2>1, <2>2
<1> QED BY <1>2 DEF Min

\* What a function takes on finitely many arguments is finitely many values.
LEMMA ImageIsFinite ==
  ASSUME NEW S, IsFiniteSet(S), NEW f
  PROVE  /\ IsFiniteSet({f[x] : x \in S})
         /\ Cardinality({f[x] : x \in S}) <= Cardinality(S)
<1> DEFINE g == [x \in S |-> f[x]]
<1>1. g \in Surjection(S, {f[x] : x \in S})
  BY DEF Surjection
<1> QED BY <1>1, FS_Surjection

\* Conversations are named by numbers, and there are finitely many.
LEMMA ThreadsFinite == Threads \subseteq Nat /\ IsFiniteSet(Threads)
<1>1. Threads \subseteq Nat
  BY ThreadsAreNumbers DEF Threads
<1>2. IsFiniteSet(Threads)
  BY MailIsFinite, ImageIsFinite DEF Threads
<1> QED BY <1>1, <1>2

\* Reasons of a listing are finitely many, and so is a listing.
LEMMA ListingFinite ==
  ASSUME NEW entries \in Listings, OneEntryEach(entries)
  PROVE  /\ IsFiniteSet(entries) /\ IsFiniteSet(ConversationsOf(entries))
         /\ ConversationsOf(entries) \subseteq Threads
         /\ Cardinality(entries) = Cardinality(ConversationsOf(entries))
         /\ Cardinality(entries) \in Nat
<1> DEFINE convs == ConversationsOf(entries)
           g == [f \in entries |-> f.conv]
<1>1. convs \subseteq Threads
  BY DEF ConversationsOf, Listings
<1>2. IsFiniteSet(convs)
  BY <1>1, ThreadsFinite, FS_Subset
<1>3. g \in Injection(entries, convs)
  BY DEF Injection, IsInjective, OneEntryEach, ConversationsOf
<1>4. g \in Surjection(entries, convs)
  BY DEF Surjection, ConversationsOf
<1>5. IsFiniteSet(entries) /\ Cardinality(entries) = Cardinality(convs)
  BY <1>2, <1>3, <1>4, FS_Injection
<1> QED BY <1>1, <1>2, <1>5, FS_CardinalityType

\* The two counts of a listing that a summary shows add up to its size.
LEMMA ReasonsSplit ==
  ASSUME NEW entries, IsFiniteSet(entries)
  PROVE  Cardinality({f \in entries : f.reason = "NotStarted"})
           + Cardinality({f \in entries : f.reason # "NotStarted"}) = Cardinality(entries)
<1> DEFINE s == {f \in entries : f.reason = "NotStarted"}
           t == {f \in entries : f.reason # "NotStarted"}
<1>1. IsFiniteSet(s) /\ IsFiniteSet(t)
  BY FS_Subset
<1>2. s \cup t = entries /\ s \cap t = {}
  OBVIOUS
<1>3. Cardinality(entries) = Cardinality(s) + Cardinality(t) - 0
  BY <1>1, <1>2, FS_Union, FS_EmptySet
<1>4. Cardinality(s) \in Nat /\ Cardinality(t) \in Nat
  BY <1>1, FS_CardinalityType
<1> QED BY <1>3, <1>4

\* The parts of a set that is split in two have its size together.
LEMMA PartsAddUp ==
  ASSUME NEW S, IsFiniteSet(S), NEW T \in SUBSET S
  PROVE  /\ Cardinality(S \ T) + Cardinality(T) = Cardinality(S)
         /\ Cardinality(S) \in Nat /\ Cardinality(T) \in Nat /\ Cardinality(S \ T) \in Nat
         /\ IsFiniteSet(T) /\ Cardinality(T) <= Cardinality(S)
<1>1. IsFiniteSet(T) /\ IsFiniteSet(S \ T) /\ S \cap T = T
  BY FS_Subset, FS_Difference
<1>2. Cardinality(S \ T) = Cardinality(S) - Cardinality(T)
  BY <1>1, FS_Difference
<1> QED BY <1>1, <1>2, FS_CardinalityType, FS_Subset

-----------------------------------------------------------------------------
(* Conversations. *)

\* Threads that grow together are threads (Merged).
LEMMA MergedType ==
  ASSUME NEW ms, NEW k \in [ms -> Threads], NEW together
  PROVE  Merged(k, together) \in [ms -> Threads]
<1> DEFINE live == {k[m] : m \in DOMAIN k} \cap together
<1>1. live \subseteq Threads
  OBVIOUS
<1>2. live # {} => Min(live) \in live
  BY <1>1, ThreadsFinite, MinOfNats
<1>3. \A m \in ms : (IF k[m] \in live THEN Min(live) ELSE k[m]) \in Threads
  BY <1>1, <1>2
<1>4. Merged(k, together) = [m \in ms |-> IF k[m] \in live THEN Min(live) ELSE k[m]]
  BY DEF Merged
<1> HIDE DEF live
<1> QED BY <1>3, <1>4

-----------------------------------------------------------------------------
(* Jobs that start and end. *)

\* A job is a load, a run or a result, and its kind and stage tell which.
LEMMA JobShapes ==
  ASSUME JobTyped
  PROVE  /\ ~Scanning => job \in Loads
         /\ Running => job \in Runs(messages)
         /\ Closing => job \in Results(messages)
         /\ Idle => ~Scanning
<1>1. CASE job \in Loads
  BY <1>1 DEF Loads, RetryLoads, Scanning, Running, Closing, Idle, NoJob
<1>2. CASE job \in Runs(messages)
  BY <1>2 DEF Runs, Kinds, Scanning, Running, Closing, Idle, NoJob
<1>3. CASE job \in Results(messages)
  BY <1>3 DEF Results, Kinds, Scanning, Running, Closing, Idle, NoJob
<1> QED BY <1>1, <1>2, <1>3 DEF JobTyped

\* A job that has ended leaves nothing behind (poll).
LEMMA JobEnds ==
  ASSUME GiveUp
  PROVE  JobInv' /\ ~Scanning' /\ Scope' = {} /\ cancel' = FALSE
<1>1. job' = [kind |-> "none"] /\ cancel' = FALSE
  BY DEF GiveUp, NoJob
<1>2. job'.kind = "none"
  BY <1>1
<1>3. job' \in Loads'
  BY <1>1 DEF Loads
<1>4. ~Scanning'
  BY <1>2 DEF Scanning
<1> QED BY <1>1, <1>2, <1>3, <1>4
     DEF JobInv, JobTyped, FullJobs, RunKnows, ResultKnows, Running, Closing, Scope

\* Loads know nothing yet.
LEMMA LoadStarts ==
  ASSUME job' \in Loads', job'.kind = "mail" => messages' = {} /\ NoCards'
  PROVE  JobInv' /\ ~Scanning' /\ Scope' = {}
<1>1. job'.kind \in {"none", "mail", "checkMail", "retryMail"}
  BY DEF Loads, RetryLoads
<1>2. ~Scanning'
  BY <1>1 DEF Scanning
<1> QED BY <1>1, <1>2
     DEF JobInv, JobTyped, FullJobs, RunKnows, ResultKnows, Running, Closing, Scope

\* The record of a scan of `ms` that has not run a phase yet.
Begins(j, ms, kind, scope, k) ==
  /\ j \in Runs(ms)
  /\ j.kind = kind /\ j.scope = scope /\ j.key = k /\ j.skipped = {}
  /\ j.unanswered = {} /\ ~j.rejoined
  /\ j.total = Cardinality({m \in ms : k[m] \in scope})

\* A scan begins with what it was given (start_scan and its kin).
LEMMA ScanShape ==
  ASSUME NEW kind \in Kinds, NEW scope \in SUBSET Threads, NEW b \in Backends,
         NEW ms \in SUBSET Messages, NEW k \in [ms -> Threads],
         NEW j, j = Scan(kind, scope, k, b)
  PROVE  Begins(j, ms, kind, scope, k)
<1> DEFINE sel == {m \in ms : k[m] \in scope}
<1>1. Cardinality(sel) \in Nat
  BY MailIsFinite, FS_Subset, FS_CardinalityType
<1>2. j.total = Cardinality(sel)
  BY DEF Scan
<1> HIDE DEF sel
<1>3. j.stage \in {"rules", "decide", "primary"}
  BY DEF Scan
<1>4. /\ j.kind = kind /\ j.scope = scope /\ j.key = k /\ j.skipped = {} /\ j.unanswered = {}
      /\ j.backend = b /\ j.rejoined = FALSE /\ j.halted = FALSE /\ j.chat = {}
      /\ j.cancelled = FALSE
  BY DEF Scan
<1>5. j = [kind |-> j.kind, scope |-> j.scope, backend |-> j.backend, stage |-> j.stage,
           key |-> j.key, total |-> j.total, rejoined |-> j.rejoined, halted |-> j.halted,
           skipped |-> j.skipped, chat |-> j.chat, unanswered |-> j.unanswered,
           cancelled |-> j.cancelled]
  BY DEF Scan
<1>6. j \in Runs(ms)
  BY <1>1, <1>2, <1>3, <1>4, <1>5 DEF Runs
<1> QED BY <1>2, <1>4, <1>6 DEF sel, Begins

\* It is a run that has not learned anything, about the messages of now.
LEMMA ScanStarts ==
  ASSUME NEW kind \in Kinds, NEW scope \in SUBSET Threads, NEW k,
         messages' \subseteq Messages, key' \in [messages' -> Threads],
         k = key', StartScan(kind, scope, k), kind = "full" => scope = Threads /\ NoCards'
  PROVE  JobInv' /\ Scanning' /\ Scope' = scope /\ cancel' = FALSE
<1>1. PICK b \in Backends : job' = Scan(kind, scope, k, b)
  BY DEF StartScan
<1>2. PICK ms \in SUBSET Messages : ms = messages'
  OBVIOUS
<1>3. k \in [ms -> Threads]
  BY <1>2
<1>4. PICK j : j = job'
  OBVIOUS
<1>5. /\ j \in Runs(ms)
      /\ j.kind = kind /\ j.scope = scope /\ j.key = k /\ j.skipped = {} /\ j.unanswered = {}
      /\ ~j.rejoined
      /\ j.total = Cardinality({m \in ms : k[m] \in scope})
  <2>1. j = Scan(kind, scope, k, b)
    BY <1>1, <1>4
  <2>2. Begins(j, ms, kind, scope, k)
    BY <1>3, <2>1, ScanShape
  <2> QED BY <2>2 DEF Begins
<1>6. kind = "full" => j.total = Cardinality(ms)
  <2> SUFFICES ASSUME kind = "full" PROVE {m \in ms : k[m] \in scope} = ms
    BY <1>5
  <2> QED BY <1>3
<1>7. /\ j.stage \in {"rules", "decide", "primary"}
  BY <1>5 DEF Runs
<1>8. job' \in Runs(messages)'
  BY <1>2, <1>4, <1>5 DEF Runs
<1>9. Scanning' /\ Running' /\ ~Closing'
  BY <1>4, <1>5, <1>7 DEF Scanning, Running, Closing, Kinds
<1>10. FullJobs'
  BY <1>2, <1>4, <1>5, <1>6, <1>9 DEF FullJobs, Kinds
<1>11. RunKnows'
  BY <1>4, <1>5 DEF RunKnows
<1>12. Scope' = scope
  BY <1>4, <1>5, <1>9 DEF Scope
<1> QED BY <1>8, <1>9, <1>10, <1>11, <1>12 DEF JobInv, JobTyped, ResultKnows, StartScan

-----------------------------------------------------------------------------
(* Steps that leave the review alone, and those that clear it. *)

\* A step that only moves the job, and does not end a scan, keeps the review.
LEMMA Untouched ==
  ASSUME IInv, UNCHANGED <<user, review>>, JobInv',
         enabled' \subseteq user.providers, enabled' # {}, failedSources \subseteq enabled',
         Scope \subseteq Scope', Scanning => Scanning', cancel' \in BOOLEAN
  PROVE  IInv'
<1>1. /\ user' = user /\ messages' = messages /\ key' = key
      /\ failedSources' = failedSources /\ analysed' = analysed /\ cards' = cards
      /\ failed' = failed /\ summary' = summary /\ read' = read /\ cut' = cut
  BY DEF review
<1>2. ReviewTyped'
  BY <1>1 DEF IInv, ReviewTyped, Listings
<1>3. ReadIsUnlisted'
  BY <1>1 DEF IInv, ReadIsUnlisted, Listed
<1>4. SummaryKnows'
  BY <1>1 DEF IInv, SummaryKnows, Listed, Live
<1>5. NoCardTwice'
  BY <1>1 DEF IInv, NoCardTwice
<1> QED BY <1>2, <1>3, <1>4, <1>5 DEF IInv

\* A review that was cleared has nothing to be wrong about (ReviewState::default).
LEMMA Emptied ==
  ASSUME IInv, EmptyReview, user' = user, enabled' = enabled, JobInv', ~Scanning',
         cancel' \in BOOLEAN
  PROVE  IInv'
<1>1. /\ messages' = {} /\ key' = [m \in {} |-> 0] /\ failedSources' = {}
      /\ analysed' = FALSE /\ cards' = [m \in Messages |-> 0]
      /\ failed' = {} /\ summary' = NoSummary /\ read' = {} /\ cut' = {}
  BY DEF EmptyReview
<1>2. key' \in [messages' -> Threads]
  BY <1>1
<1>3. cards' \in [Messages -> Nat] /\ \A m \in Messages : cards'[m] = 0
  BY <1>1
<1>4. ReviewTyped'
  <2>1. {m \in Messages : cards'[m] > 0} = {}
    BY <1>3
  <2>2. user \in Users /\ enabled \subseteq user.providers /\ enabled # {}
    BY DEF IInv, ReviewTyped
  <2> QED BY <1>1, <1>2, <1>3, <2>1, <2>2 DEF ReviewTyped, Listings, OneEntryEach
<1>5. ReadIsUnlisted'
  BY <1>1 DEF ReadIsUnlisted
<1>6. SummaryKnows'
  BY <1>1 DEF SummaryKnows, NoSummary
<1>7. NoCardTwice'
  BY <1>3 DEF NoCardTwice
<1> QED BY <1>4, <1>5, <1>6, <1>7 DEF IInv

\* Nothing is known before anything is loaded.
LEMMA InitIInv == Init => IInv
<1> SUFFICES ASSUME Init PROVE IInv
  OBVIOUS
<1>1. job = [kind |-> "none"] /\ ~Scanning
  BY DEF Init, NoJob, Scanning
<1>2. JobInv
  BY <1>1 DEF JobInv, JobTyped, Loads, FullJobs, RunKnows, ResultKnows, Running, Closing
<1>3. user \in Users /\ user.providers # {} /\ enabled = user.providers
  BY UserRecords DEF Init
<1>4. key \in [messages -> Threads] /\ cards \in [Messages -> Nat]
      /\ \A m \in Messages : cards[m] = 0
  BY DEF Init
<1>5. ReviewTyped
  <2>1. {m \in Messages : cards[m] > 0} = {}
    BY <1>4
  <2>2. /\ messages = {} /\ failedSources = {} /\ analysed = FALSE /\ failed = {}
        /\ cancel = FALSE /\ read = {} /\ cut = {} /\ user \in Users
    BY DEF Init
  <2> QED BY <1>3, <1>4, <2>1, <2>2 DEF ReviewTyped, Listings, OneEntryEach
<1>6. ReadIsUnlisted /\ SummaryKnows /\ NoCardTwice
  BY <1>4 DEF Init, ReadIsUnlisted, SummaryKnows, NoCardTwice, NoSummary
<1> QED BY <1>2, <1>5, <1>6 DEF IInv

-----------------------------------------------------------------------------
(* What the user does. *)

\* "Scan inboxes" loads for a review that is kept or for a cleared one.
LEMMA ScanInboxesStep == IInv /\ ScanInboxes /\ user' = user => IInv'
<1> SUFFICES ASSUME IInv, ScanInboxes, user' = user PROVE IInv'
  OBVIOUS
<1>1. /\ enabled' = enabled /\ cancel' = cancel /\ cancel \in BOOLEAN /\ ~Scanning
      /\ enabled \subseteq user.providers /\ enabled # {} /\ failedSources \subseteq enabled
  BY JobShapes DEF ScanInboxes, IInv, ReviewTyped, JobInv
<1>2. CASE analysed /\ messages # {}
  <2>1. job' = [kind |-> "checkMail"] /\ UNCHANGED review
    BY <1>2 DEF ScanInboxes
  <2>2. job' \in Loads' /\ job'.kind # "mail"
    BY <2>1 DEF Loads
  <2>3. JobInv' /\ ~Scanning' /\ Scope' = {}
    BY <2>2, LoadStarts
  <2> QED BY <1>1, <2>1, <2>3, Untouched DEF Scope
<1>3. CASE ~(analysed /\ messages # {})
  <2>1. job' = [kind |-> "mail"] /\ EmptyReview
    BY <1>3 DEF ScanInboxes
  <2>2. job' \in Loads' /\ messages' = {} /\ NoCards'
    BY <2>1 DEF Loads, EmptyReview, NoCards
  <2>3. JobInv' /\ ~Scanning'
    BY <2>2, LoadStarts
  <2> QED BY <1>1, <2>1, <2>3, Emptied
<1> QED BY <1>2, <1>3

\* "Rescan loaded mail" puts every conversation in the hands of a scan.
LEMMA RescanStep == IInv /\ Rescan /\ user' = user => IInv'
<1> SUFFICES ASSUME IInv, Rescan, user' = user PROVE IInv'
  OBVIOUS
<1>1. /\ user' = user /\ enabled' = enabled /\ messages' = messages /\ key' = key
      /\ failedSources' = failedSources /\ failed' = failed /\ cut' = cut
      /\ analysed' = FALSE /\ cards' = [m \in Messages |-> 0] /\ read' = {}
      /\ summary' = NoSummary
      /\ StartScan("full", Threads, key)
  BY DEF Rescan, DropAnalysis
<1>2. PICK k : k = key
  OBVIOUS
<1>3. messages \subseteq Messages /\ key \in [messages -> Threads]
  BY DEF IInv, ReviewTyped
<1>4. JobInv' /\ Scanning' /\ Scope' = Threads /\ cancel' = FALSE
  <2>1. StartScan("full", Threads, k) /\ k = key'
    BY <1>1, <1>2
  <2>2. "full" \in Kinds /\ Threads \in SUBSET Threads
    BY DEF Kinds
  <2>3. messages' \subseteq Messages /\ key' \in [messages' -> Threads]
    BY <1>1, <1>3
  <2>4. NoCards'
    BY <1>1 DEF NoCards
  <2> QED BY <2>1, <2>2, <2>3, <2>4, ScanStarts
<1>5. cards' \in [Messages -> Nat] /\ \A m \in Messages : cards'[m] = 0
  BY <1>1
<1>6. ReviewTyped'
  <2>1. {m \in Messages : cards'[m] > 0} = {}
    BY <1>5
  <2> QED BY <1>1, <1>4, <1>5, <2>1 DEF IInv, ReviewTyped, Listings
<1>7. ReadIsUnlisted'
  BY <1>1, <1>3, <1>4 DEF ReadIsUnlisted
<1>8. SummaryKnows' /\ NoCardTwice'
  BY <1>4, <1>5 DEF SummaryKnows, NoCardTwice
<1> QED BY <1>4, <1>6, <1>7, <1>8 DEF IInv

\* "Retry failed" asks for the lost sources or rescans what is listed.
LEMMA RetryFailedStep == IInv /\ RetryFailed /\ user' = user => IInv'
<1> SUFFICES ASSUME IInv, RetryFailed, user' = user PROVE IInv'
  OBVIOUS
<1>1. /\ enabled' = enabled /\ UNCHANGED review /\ cancel \in BOOLEAN /\ ~Scanning
      /\ enabled \subseteq user.providers /\ enabled # {} /\ failedSources \subseteq enabled
  BY JobShapes DEF RetryFailed, IInv, ReviewTyped, JobInv
<1>2. ConversationsOf(Retryable(failed)) \in SUBSET Threads
  BY DEF IInv, ReviewTyped, Listings, ConversationsOf, Retryable
<1>3. Scope = {}
  BY <1>1 DEF Scope
<1>4. CASE failedSources = {}
  <2>1. PICK k, scope : k = key /\ scope = ConversationsOf(Retryable(failed))
    OBVIOUS
  <2>2. StartScan("retry", scope, k)
    BY <1>4, <2>1 DEF RetryFailed
  <2>3. /\ messages' \subseteq Messages /\ key' \in [messages' -> Threads]
        /\ k = key' /\ scope \in SUBSET Threads
    BY <1>1, <1>2, <2>1 DEF IInv, ReviewTyped, review
  <2>4. JobInv' /\ Scanning' /\ Scope' = scope /\ cancel' = FALSE
    <3>1. "retry" \in Kinds /\ "retry" # "full"
      BY DEF Kinds
    <3> QED BY <2>2, <2>3, <3>1, ScanStarts
  <2> QED BY <1>1, <1>3, <2>4, Untouched
<1>5. CASE failedSources # {}
  <2>1. /\ job' = [kind |-> "retryMail", sources |-> failedSources,
                   scope |-> ConversationsOf(Retryable(failed))]
        /\ cancel' = cancel
    BY <1>5 DEF RetryFailed
  <2>2. job' \in Loads' /\ job'.kind # "mail"
    BY <1>1, <1>2, <2>1 DEF Loads, RetryLoads
  <2>3. JobInv' /\ ~Scanning' /\ Scope' = {}
    BY <2>2, LoadStarts
  <2> QED BY <1>1, <1>3, <2>1, <2>3, Untouched
<1> QED BY <1>4, <1>5

\* The stop flag tells the run nothing, and excuses it.
LEMMA UserStopsStep == IInv /\ UserStops /\ user' = user => IInv'
<1> SUFFICES ASSUME IInv, UserStops, user' = user PROVE IInv'
  OBVIOUS
<1>1. /\ cancel' = TRUE /\ enabled' = enabled /\ job' = job /\ UNCHANGED review
      /\ enabled \subseteq user.providers /\ enabled # {} /\ failedSources \subseteq enabled
  BY DEF UserStops, IInv, ReviewTyped
<1>2. messages' = messages /\ key' = key /\ cards' = cards
  BY <1>1 DEF review
<1>3. JobTyped' /\ FullJobs'
  BY <1>1, <1>2 DEF NoCards, IInv, JobInv, JobTyped, Loads, RetryLoads, Runs, Results, FullJobs
<1>4. RunKnows'
  BY <1>1, <1>2 DEF IInv, JobInv, RunKnows, Running, Scanning, Selected
<1>5. ResultKnows'
  BY <1>1, <1>2 DEF IInv, JobInv, ResultKnows, Closing, Scanning, Whole, Told, Rescanned
<1>6. Scope' = Scope /\ Scanning' = Scanning
  BY <1>1 DEF Scope, Scanning
<1> QED BY <1>1, <1>3, <1>4, <1>5, <1>6, Untouched DEF JobInv

\* "Clear results and mail" at any time.
LEMMA ClearResultsStep == IInv /\ ClearResults /\ user' = user => IInv'
<1> SUFFICES ASSUME IInv, ClearResults, user' = user PROVE IInv'
  OBVIOUS
<1>1. GiveUp /\ EmptyReview /\ enabled' = enabled
  BY DEF ClearResults, GiveUp
<1> QED BY <1>1, JobEnds, Emptied

\* Without a job the job invariant holds of any review.
LEMMA NoJobKnows ==
  ASSUME Idle, job' = job
  PROVE  JobInv' /\ ~Scanning' /\ ~Scanning /\ Scope = {} /\ Scope' = {}
<1>1. job' = [kind |-> "none"] /\ job = [kind |-> "none"]
  BY DEF Idle, NoJob
<1>2. job'.kind = "none" /\ job.kind = "none"
  BY <1>1
<1>3. job' \in Loads'
  BY <1>1 DEF Loads
<1>4. ~Scanning
  BY <1>2 DEF Scanning
<1> QED BY <1>2, <1>3, <1>4, LoadStarts DEF Scope

\* A provider that is left out takes its mail, cards and failures with it.
LEMMA DisableStep ==
  ASSUME IInv, NEW p \in Providers, DisableProvider(p), user' = user
  PROVE  IInv'
<1> DEFINE kept == {m \in messages : ProviderOf[m] # p}
<1>1. /\ Idle /\ p \in enabled /\ enabled # {p} /\ enabled' = enabled \ {p}
      /\ messages' = kept /\ key' = [m \in kept |-> key[m]]
      /\ failedSources' = failedSources \ {p}
      /\ cards' = [m \in Messages |-> IF m \in kept THEN cards[m] ELSE 0]
      /\ failed' = {f \in failed : f.conv \in {key[m] : m \in kept}}
      /\ summary' = NoSummary /\ read' = read \cap kept
      /\ analysed' = analysed /\ job' = job /\ cancel' = cancel /\ cut' = cut
  BY DEF DisableProvider
<1>2. kept \subseteq messages
  OBVIOUS
<1> HIDE DEF kept
<1>3. JobInv' /\ ~Scanning' /\ ~Scanning /\ Scope = {} /\ Scope' = {}
  BY <1>1, NoJobKnows
<1>4. /\ user \in Users /\ enabled \subseteq user.providers
      /\ failedSources \subseteq enabled
      /\ messages \subseteq Messages /\ key \in [messages -> Threads]
      /\ analysed \in BOOLEAN /\ cancel \in BOOLEAN
      /\ cards \in [Messages -> Nat] /\ {m \in Messages : cards[m] > 0} \subseteq messages
      /\ failed \in Listings /\ OneEntryEach(failed)
      /\ read \subseteq messages /\ cut \subseteq {"short", "rejoined"}
  BY DEF IInv, ReviewTyped
<1>5. ReviewTyped'
  <2>1. key' \in [messages' -> Threads]
    BY <1>1, <1>2, <1>4
  <2>2. cards' \in [Messages -> Nat] /\ {m \in Messages : cards'[m] > 0} \subseteq messages'
    BY <1>1, <1>4
  <2>3. failed' \in Listings /\ OneEntryEach(failed')
    BY <1>1, <1>4 DEF Listings, OneEntryEach
  <2> QED BY <1>1, <1>2, <1>4, <2>1, <2>2, <2>3 DEF ReviewTyped, Listings
<1>6. ReadIsUnlisted'
  <2> SUFFICES ASSUME cut = {}, NEW m \in kept
               PROVE  m \in read' <=> key'[m] \notin Listed'
    BY <1>1 DEF ReadIsUnlisted
  <2>1. m \in read <=> key[m] \notin Listed
    BY <1>2, <1>3 DEF IInv, ReadIsUnlisted
  <2>2. key'[m] = key[m] /\ (m \in read' <=> m \in read)
    BY <1>1
  <2>3. key[m] \in Listed' <=> key[m] \in Listed
    BY <1>1 DEF Listed, ConversationsOf
  <2> QED BY <2>1, <2>2, <2>3
<1>7. SummaryKnows'
  BY <1>1 DEF SummaryKnows, NoSummary
<1>8. NoCardTwice'
  BY <1>1, <1>4 DEF IInv, NoCardTwice
<1> QED BY <1>3, <1>5, <1>6, <1>7, <1>8 DEF IInv

\* Switching a provider on loads nothing yet.
LEMMA EnableStep ==
  ASSUME IInv, NEW p \in Providers, EnableProvider(p), user' = user
  PROVE  IInv'
<1>1. /\ Idle /\ p \in user.providers /\ enabled' = enabled \cup {p}
      /\ UNCHANGED review /\ job' = job /\ cancel' = cancel /\ cancel \in BOOLEAN
      /\ enabled \subseteq user.providers /\ failedSources \subseteq enabled
  BY DEF EnableProvider, IInv, ReviewTyped
<1> QED BY <1>1, NoJobKnows, Untouched

-----------------------------------------------------------------------------
(* Loads. *)

\* The mail that arrives is put into known conversations (append_sources).
LEMMA AppendedType ==
  ASSUME ReviewTyped, NEW got \in SUBSET Messages
  PROVE  Appended(got) \in [messages \cup got -> Threads]
<1> DEFINE all == messages \cup got
           k == [m \in all |-> IF m \in messages THEN key[m] ELSE Thread[m]]
<1>1. k \in [all -> Threads]
  BY DEF ReviewTyped, Threads
<1>2. Merged(k, Bonded) \in [all -> Threads]
  <2> HIDE DEF k
  <2> QED BY <1>1, MergedType
<1>3. Appended(got) = IF user.bond = "strong" THEN Merged(k, Bonded) ELSE k
  BY DEF Appended
<1> QED BY <1>1, <1>2, <1>3

\* What has not changed was there before, under its name.
LEMMA ChangedType ==
  ASSUME NEW ms, NEW k \in [ms -> Threads]
  PROVE  /\ Changed(k) \in SUBSET Threads
         /\ \A m \in ms : k[m] \notin Changed(k) => m \in messages /\ k[m] = key[m]
  BY DEF Changed

\* A load leaves what was read and listed alone; what it touches is scanned.
LEMMA LoadStep ==
  ASSUME IInv, ~Scanning, JobInv', cancel' \in BOOLEAN,
         UNCHANGED <<user, enabled, analysed, cards, failed, summary, read, cut>>,
         messages \subseteq messages', messages' \subseteq Messages,
         key' \in [messages' -> Threads], failedSources' \subseteq enabled,
         \A m \in messages' : key'[m] \notin Scope' => m \in messages /\ key'[m] = key[m],
         ~Scanning' => messages' = messages /\ key' = key
  PROVE  IInv'
<1>1. Scope = {}
  BY DEF Scope
<1>2. ReviewTyped'
  BY DEF IInv, ReviewTyped, Listings
<1>3. ReadIsUnlisted'
  BY <1>1 DEF IInv, ReadIsUnlisted, Listed
<1>4. SummaryKnows'
  BY DEF IInv, SummaryKnows, Listed, Live
<1>5. NoCardTwice'
  BY DEF IInv, NoCardTwice
<1> QED BY <1>2, <1>3, <1>4, <1>5 DEF IInv

\* What no load touches.
Kept == UNCHANGED <<user, enabled, analysed, cards, failed, summary, read, cut>>

\* A load that fails or is stopped changes nothing.
LEMMA LoadGivesUp ==
  ASSUME IInv, ~Scanning, GiveUp, Kept, UNCHANGED <<messages, key, failedSources>>
  PROVE  IInv'
<1>1. JobInv' /\ ~Scanning' /\ Scope' = {} /\ cancel' = FALSE
  BY JobEnds
<1>2. /\ messages \subseteq Messages /\ key \in [messages -> Threads]
      /\ failedSources \subseteq enabled
  BY DEF IInv, ReviewTyped
<1> QED BY <1>1, <1>2, LoadStep DEF Kept

\* The mail and sources after a load that delivered something.
LEMMA SourcesAppended ==
  ASSUME IInv, NEW ps \in SUBSET enabled, NEW v \in [ps -> Verdicts],
         NEW got \in SUBSET MailOf(Delivering(v)), AppendSources(got, v), Kept
  PROVE  /\ messages' = messages \cup got /\ messages' \subseteq Messages
         /\ key' \in [messages' -> Threads] /\ failedSources' \subseteq enabled
         /\ Changed(key') \in SUBSET Threads
         /\ \A m \in messages' :
              key'[m] \notin Changed(key') => m \in messages /\ key'[m] = key[m]
<1>1. /\ messages' = messages \cup got /\ key' = Appended(got)
      /\ failedSources' = (failedSources \ Delivering(v)) \cup Failing(v)
  BY DEF AppendSources
<1>2. got \in SUBSET Messages
  BY DEF MailOf
<1>3. messages \subseteq Messages /\ failedSources \subseteq enabled
  BY DEF IInv, ReviewTyped
<1>4. key' \in [messages' -> Threads]
  BY <1>1, <1>2, AppendedType DEF IInv
<1>5. failedSources' \subseteq enabled
  BY <1>1, <1>3 DEF Failing
<1>6. PICK k : k = key'
  OBVIOUS
<1>7. /\ Changed(k) \in SUBSET Threads
      /\ \A m \in messages' : k[m] \notin Changed(k) => m \in messages /\ k[m] = key[m]
  BY <1>4, <1>6, ChangedType
<1>8. Changed(key') = Changed(k)
  BY <1>6
<1> QED BY <1>1, <1>2, <1>3, <1>4, <1>5, <1>6, <1>7, <1>8

\* Nothing that changed means the same mail.
LEMMA NothingChanged ==
  ASSUME IInv, key' \in [messages' -> Threads], messages \subseteq messages',
         \A m \in messages' : m \in messages /\ key'[m] = key[m]
  PROVE  messages' = messages /\ key' = key
<1>1. messages' = messages
  OBVIOUS
<1>2. key \in [messages -> Threads]
  BY DEF IInv, ReviewTyped
<1> QED BY <1>1, <1>2

\* A full load is scanned whole, or found nothing.
LEMMA MailArrivesStep == IInv /\ MailArrives /\ user' = user => IInv'
<1> SUFFICES ASSUME IInv, MailArrives, user' = user PROVE IInv'
  OBVIOUS
<1>1. job.kind = "mail" /\ ~Scanning /\ Kept /\ messages = {} /\ NoCards'
  BY DEF MailArrives, Scanning, Kept, IInv, JobInv, FullJobs, NoCards
<1>0. PICK v \in [enabled -> Verdicts] :
        \E got \in SUBSET MailOf(Delivering(v)) :
        IF split_loads(v) = "Loaded"
          THEN /\ AppendSources(got, v)
               /\ IF got = {} THEN GiveUp ELSE StartScan("full", Threads, key')
          ELSE GiveUp /\ UNCHANGED <<messages, key, failedSources>>
  BY DEF MailArrives
<1>2. PICK got \in SUBSET MailOf(Delivering(v)) :
        IF split_loads(v) = "Loaded"
          THEN /\ AppendSources(got, v)
               /\ IF got = {} THEN GiveUp ELSE StartScan("full", Threads, key')
          ELSE GiveUp /\ UNCHANGED <<messages, key, failedSources>>
  BY <1>0
<1>3. CASE split_loads(v) # "Loaded"
  BY <1>1, <1>2, <1>3, LoadGivesUp
<1>4. CASE split_loads(v) = "Loaded"
  <2>1. /\ messages' = messages \cup got /\ messages' \subseteq Messages
        /\ key' \in [messages' -> Threads] /\ failedSources' \subseteq enabled
    BY <1>1, <1>2, <1>4, SourcesAppended
  <2>2. CASE got = {}
    <3>1. JobInv' /\ ~Scanning' /\ Scope' = {} /\ cancel' = FALSE
      BY <1>2, <1>4, <2>2, JobEnds
    <3>2. messages' = messages /\ key' = key
      BY <1>1, <2>1, <2>2, NothingChanged
    <3> QED BY <1>1, <2>1, <3>1, <3>2, LoadStep DEF Kept
  <2>3. CASE got # {}
    <3>1. PICK k : k = key'
      OBVIOUS
    <3>2. StartScan("full", Threads, k)
      BY <1>2, <1>4, <2>3, <3>1
    <3>3. JobInv' /\ Scanning' /\ Scope' = Threads /\ cancel' = FALSE
      <4>1. "full" \in Kinds /\ Threads \in SUBSET Threads
        BY DEF Kinds
      <4> QED BY <1>1, <2>1, <3>1, <3>2, <4>1, ScanStarts
    <3>4. \A m \in messages' : key'[m] \in Scope'
      BY <2>1, <3>3
    <3> QED BY <1>1, <2>1, <3>3, <3>4, LoadStep DEF Kept
  <2> QED BY <2>2, <2>3
<1> QED BY <1>3, <1>4

\* A check scans the conversations with something new, if there are any.
LEMMA CheckMailArrivesStep == IInv /\ CheckMailArrives /\ user' = user => IInv'
<1> SUFFICES ASSUME IInv, CheckMailArrives, user' = user PROVE IInv'
  OBVIOUS
<1>1. job.kind = "checkMail" /\ ~Scanning /\ Kept
  BY DEF CheckMailArrives, Scanning, Kept
<1>0. PICK v \in [enabled -> Verdicts] :
        \E got \in SUBSET MailOf(Delivering(v)) :
        IF split_loads(v) = "Loaded"
          THEN /\ AppendSources(got, v)
               /\ IF Changed(key') = {} THEN GiveUp
                                        ELSE StartScan("check", Changed(key'), key')
          ELSE GiveUp /\ UNCHANGED <<messages, key, failedSources>>
  BY DEF CheckMailArrives
<1>2. PICK got \in SUBSET MailOf(Delivering(v)) :
        IF split_loads(v) = "Loaded"
          THEN /\ AppendSources(got, v)
               /\ IF Changed(key') = {} THEN GiveUp
                                        ELSE StartScan("check", Changed(key'), key')
          ELSE GiveUp /\ UNCHANGED <<messages, key, failedSources>>
  BY <1>0
<1>3. CASE split_loads(v) # "Loaded"
  BY <1>1, <1>2, <1>3, LoadGivesUp
<1>4. CASE split_loads(v) = "Loaded"
  <2>1. /\ messages' = messages \cup got /\ messages' \subseteq Messages
        /\ key' \in [messages' -> Threads] /\ failedSources' \subseteq enabled
        /\ Changed(key') \in SUBSET Threads
        /\ \A m \in messages' :
             key'[m] \notin Changed(key') => m \in messages /\ key'[m] = key[m]
    BY <1>1, <1>2, <1>4, SourcesAppended
  <2>2. CASE Changed(key') = {}
    <3>1. JobInv' /\ ~Scanning' /\ Scope' = {} /\ cancel' = FALSE
      BY <1>2, <1>4, <2>2, JobEnds
    <3>2. messages' = messages /\ key' = key
      BY <2>1, <2>2, NothingChanged
    <3> QED BY <1>1, <2>1, <3>1, <3>2, LoadStep DEF Kept
  <2>3. CASE Changed(key') # {}
    <3>1. PICK k, scope : k = key' /\ scope = Changed(key')
      OBVIOUS
    <3>2. StartScan("check", scope, k)
      BY <1>2, <1>4, <2>3, <3>1
    <3>3. JobInv' /\ Scanning' /\ Scope' = scope /\ cancel' = FALSE
      <4>1. "check" \in Kinds /\ "check" # "full" /\ scope \in SUBSET Threads
        BY <2>1, <3>1 DEF Kinds
      <4> QED BY <2>1, <3>1, <3>2, <4>1, ScanStarts
    <3> QED BY <1>1, <2>1, <3>1, <3>3, LoadStep DEF Kept
  <2> QED BY <2>2, <2>3
<1> QED BY <1>3, <1>4

\* A retry's scan covers what changed and what the retry was started for.
LEMMA RetryScanStep ==
  ASSUME IInv, ~Scanning, Kept, NEW scope \in SUBSET Threads, RetryScan(scope),
         messages \subseteq messages', messages' \subseteq Messages,
         key' \in [messages' -> Threads], failedSources' \subseteq enabled,
         \A m \in messages' : key'[m] \notin scope => m \in messages /\ key'[m] = key[m]
  PROVE  IInv'
<1>1. CASE scope = {}
  <2>1. JobInv' /\ ~Scanning' /\ Scope' = {} /\ cancel' = FALSE
    BY <1>1, JobEnds DEF RetryScan
  <2>2. messages' = messages /\ key' = key
    BY <1>1, NothingChanged
  <2> QED BY <2>1, <2>2, <1>1, LoadStep DEF Kept
<1>2. CASE scope # {}
  <2>1. PICK k : k = key'
    OBVIOUS
  <2>2. StartScan("retry", scope, k)
    BY <1>2, <2>1 DEF RetryScan
  <2>3. JobInv' /\ Scanning' /\ Scope' = scope /\ cancel' = FALSE
    <3>1. "retry" \in Kinds /\ "retry" # "full"
      BY DEF Kinds
    <3> QED BY <2>1, <2>2, <3>1, ScanStarts
  <2> QED BY <2>3, LoadStep DEF Kept
<1> QED BY <1>1, <1>2

\* Lost sources that are asked for again, whatever they deliver.
LEMMA RetryMailArrivesStep == IInv /\ RetryMailArrives /\ user' = user => IInv'
<1> SUFFICES ASSUME IInv, RetryMailArrives, user' = user PROVE IInv'
  OBVIOUS
<1>1. job.kind = "retryMail" /\ ~Scanning /\ Kept
  BY DEF RetryMailArrives, Scanning, Kept
<1>2. job \in RetryLoads
  BY <1>1, JobShapes DEF IInv, JobInv, Loads
<1>3. job.sources \in SUBSET enabled /\ job.scope \in SUBSET Threads
  BY <1>2 DEF RetryLoads
<1>0. PICK v \in [job.sources -> Verdicts] :
        \E got \in SUBSET MailOf(Delivering(v)) :
        CASE split_loads(v) = "Loaded" ->
               AppendSources(got, v) /\ RetryScan(job.scope \cup Changed(key'))
          [] split_loads(v) = "Failed" ->
               UNCHANGED <<messages, key, failedSources>> /\ RetryScan(job.scope)
          [] split_loads(v) = "Cancelled" ->
               UNCHANGED <<messages, key, failedSources>> /\ GiveUp
  BY DEF RetryMailArrives
<1>4. PICK got \in SUBSET MailOf(Delivering(v)) :
        CASE split_loads(v) = "Loaded" ->
               AppendSources(got, v) /\ RetryScan(job.scope \cup Changed(key'))
          [] split_loads(v) = "Failed" ->
               UNCHANGED <<messages, key, failedSources>> /\ RetryScan(job.scope)
          [] split_loads(v) = "Cancelled" ->
               UNCHANGED <<messages, key, failedSources>> /\ GiveUp
  BY <1>0
<1>5. split_loads(v) \in {"Loaded", "Failed", "Cancelled"}
  BY DEF split_loads
<1>6. CASE split_loads(v) = "Cancelled"
  BY <1>1, <1>4, <1>6, LoadGivesUp
<1>7. CASE split_loads(v) = "Failed"
  <2>1. UNCHANGED <<messages, key, failedSources>> /\ RetryScan(job.scope)
    BY <1>4, <1>7
  <2>2. /\ messages \subseteq Messages /\ key \in [messages -> Threads]
        /\ failedSources \subseteq enabled
    BY DEF IInv, ReviewTyped
  <2>3. PICK scope : scope = job.scope
    OBVIOUS
  <2>4. scope \in SUBSET Threads /\ RetryScan(scope)
    BY <1>3, <2>1, <2>3
  <2> QED BY <1>1, <2>1, <2>2, <2>4, RetryScanStep
<1>8. CASE split_loads(v) = "Loaded"
  <2>1. AppendSources(got, v) /\ RetryScan(job.scope \cup Changed(key'))
    BY <1>4, <1>8
  <2>2. /\ messages' = messages \cup got /\ messages' \subseteq Messages
        /\ key' \in [messages' -> Threads] /\ failedSources' \subseteq enabled
        /\ Changed(key') \in SUBSET Threads
        /\ \A m \in messages' :
             key'[m] \notin Changed(key') => m \in messages /\ key'[m] = key[m]
    <3>1. PICK ps \in SUBSET enabled : ps = job.sources
      BY <1>3
    <3> QED BY <1>1, <2>1, <3>1, SourcesAppended
  <2>3. PICK scope : scope = job.scope \cup Changed(key')
    OBVIOUS
  <2>4. scope \in SUBSET Threads /\ RetryScan(scope) /\ messages \subseteq messages'
    BY <1>3, <2>1, <2>2, <2>3
  <2>5. \A m \in messages' : key'[m] \notin scope => m \in messages /\ key'[m] = key[m]
    BY <2>2, <2>3
  <2> QED BY <1>1, <2>2, <2>4, <2>5, RetryScanStep
<1> QED BY <1>5, <1>6, <1>7, <1>8

-----------------------------------------------------------------------------
(* The phases of a scan. *)

\* A phase moves the job and nothing else.
LEMMA PhaseStep ==
  ASSUME IInv, UNCHANGED <<user, enabled, review, cancel>>, JobInv', Scanning',
         Scope' = Scope
  PROVE  IInv'
<1>1. /\ enabled \subseteq user.providers /\ enabled # {} /\ failedSources \subseteq enabled
      /\ cancel \in BOOLEAN
  BY DEF IInv, ReviewTyped
<1> QED BY <1>1, Untouched

\* A run that goes on is a run about the same conversations.
LEMMA RunGoesOn ==
  ASSUME IInv, Running, UNCHANGED <<user, enabled, review, cancel>>,
         job' \in Runs(messages), job'.kind = job.kind, job'.scope = job.scope,
         job'.total = job.total, RunKnows'
  PROVE  IInv'
<1>1. messages' = messages /\ key' = key /\ cards' = cards
  BY DEF review
<1>2. job'.kind \in Kinds /\ job'.stage \in {"rules", "decide", "primary"}
  BY DEF Runs
<1>3. Scanning' /\ Scanning /\ Scope' = Scope /\ ~Closing'
  BY <1>2 DEF Scanning, Scope, Kinds, Closing, Running
<1>4. job' \in Runs(messages)'
  BY <1>1 DEF Runs
<1>5. FullJobs'
  BY <1>1, <1>2 DEF IInv, JobInv, FullJobs, NoCards, Kinds
<1>6. JobInv'
  BY <1>3, <1>4, <1>5 DEF JobInv, JobTyped, ResultKnows
<1> QED BY <1>3, <1>6, PhaseStep

\* The rule model renames in the scan's copy, and the scan knows that it did.
LEMMA RulesPhaseStep == IInv /\ RulesPhase /\ user' = user => IInv'
<1> SUFFICES ASSUME IInv, RulesPhase, user' = user PROVE IInv'
  OBVIOUS
<1>1. Scanning /\ job.stage = "rules" /\ UNCHANGED <<user, enabled, review, cancel>>
  BY DEF RulesPhase
<1>2. Running /\ job \in Runs(messages)
  BY <1>1, JobShapes DEF Running, IInv, JobInv
<1>3. PICK together, k : /\ k = Merged(job.key, together)
                         /\ Enter("decide", [job EXCEPT !.key = k, !.rejoined = k # job.key])
  BY DEF RulesPhase
<1>4. k \in [messages -> Threads]
  <2>1. job.key \in [messages -> Threads]
    BY <1>2 DEF Runs
  <2> QED BY <1>3, <2>1, MergedType
<1>5. job' = [[job EXCEPT !.key = k, !.rejoined = k # job.key]
                EXCEPT !.stage = "decide", !.halted = cancel]
  BY <1>3 DEF Enter
<1>6. cancel \in BOOLEAN /\ (k # job.key) \in BOOLEAN
  BY DEF IInv, ReviewTyped
<1>7. job' \in Runs(messages)
  BY <1>2, <1>4, <1>5, <1>6 DEF Runs
<1>8. /\ job'.kind = job.kind /\ job'.scope = job.scope /\ job'.total = job.total
      /\ job'.key = k /\ job'.rejoined = (k # job.key) /\ job'.stage = "decide"
      /\ job'.skipped = job.skipped
  BY <1>2, <1>5 DEF Runs
<1>9. ~job.rejoined /\ job.key = key /\ job.skipped = {}
  BY <1>1, <1>2 DEF IInv, JobInv, RunKnows
<1>10. RunKnows'
  BY <1>1, <1>8, <1>9 DEF RunKnows, review
<1> QED BY <1>1, <1>2, <1>7, <1>8, <1>10, RunGoesOn

\* A conversation is skipped on the answers of a whole pass only: if none of
\* them stops the pool and the user did not, every paragraph had one.
LEMMA SkippedIsAnswered ==
  ASSUME NEW ms, NEW answers \in SUBSET Answers, NEW halted \in BOOLEAN, NEW k,
         NEW o \in PassOutcomes(ms, answers \cup Offered, cancel, halted),
         cancel = FALSE, Skipped(k, ms, o) # {}
  PROVE  DOMAIN o \ Classified(o) = {}
<1>1. /\ o \in [ms -> answers \cup Offered \cup {NotStarted}]
      /\ \A j \in ms : o[j] # "Cancelled"
      /\ (\A j \in ms : o[j] # NotStarted) \/ \E j \in ms : job_signal(o[j]) = "Stop"
  BY DEF PassOutcomes
<1>2. ~StopClass(o)
  BY DEF Skipped
<1>3. \A j \in ms : job_signal(o[j]) # "Stop"
  BY <1>1, <1>2 DEF StopClass, job_signal, is_stop_error, is_transport_error
<1>4. \A j \in ms : o[j] \in Answers \cup Failures
  <2> SUFFICES ASSUME NEW j \in ms PROVE o[j] \in Answers \cup Failures
    OBVIOUS
  <2>1. o[j] \in answers \cup Offered /\ o[j] # "Cancelled"
    BY <1>1, <1>3
  <2> QED BY <2>1, OfferedErrors DEF Failures
<1> QED BY <1>1, <1>4 DEF Classified

\* Triage and the extraction's half of it.
LEMMA DecidePhaseStep == IInv /\ DecidePhase /\ user' = user => IInv'
<1> SUFFICES ASSUME IInv, DecidePhase, user' = user PROVE IInv'
  OBVIOUS
<1>1. Scanning /\ job.stage = "decide" /\ UNCHANGED <<user, enabled, review, cancel>>
  BY DEF DecidePhase
<1>2. Running /\ job \in Runs(messages)
  BY <1>1, JobShapes DEF Running, IInv, JobInv
<1>3. PICK answers \in SUBSET Answers :
        \E o \in PassOutcomes(Selected, answers \cup Offered, cancel, job.halted) :
          Enter("primary",
            [job EXCEPT !.skipped = Skipped(job.key, Selected, o),
                        !.chat = NeedsChat(job.key, Selected, o),
                        !.unanswered = DOMAIN o \ Classified(o),
                        !.cancelled = SawCancel(o)])
  BY DEF DecidePhase
<1>4. PICK o \in PassOutcomes(Selected, answers \cup Offered, cancel, job.halted) :
        Enter("primary",
          [job EXCEPT !.skipped = Skipped(job.key, Selected, o),
                      !.chat = NeedsChat(job.key, Selected, o),
                      !.unanswered = DOMAIN o \ Classified(o),
                      !.cancelled = SawCancel(o)])
  BY <1>3
<1>5. PICK sk, ch, un, ca : /\ sk = Skipped(job.key, Selected, o)
                            /\ ch = NeedsChat(job.key, Selected, o)
                            /\ un = DOMAIN o \ Classified(o) /\ ca = SawCancel(o)
  OBVIOUS
<1>6. job' = [[job EXCEPT !.skipped = sk, !.chat = ch, !.unanswered = un, !.cancelled = ca]
                EXCEPT !.stage = "primary", !.halted = cancel]
  BY <1>4, <1>5 DEF Enter
<1>7. /\ job.key \in [messages -> Threads] /\ job.scope \in SUBSET Threads
      /\ job.halted \in BOOLEAN /\ cancel \in BOOLEAN
  BY <1>2 DEF Runs, IInv, ReviewTyped
<1>8. Selected \subseteq messages /\ Conversations(job.key, Selected) \subseteq Threads
  BY <1>7 DEF Selected, Conversations
<1>9. /\ sk \subseteq Conversations(job.key, Selected)
      /\ ch \subseteq Conversations(job.key, Selected)
  BY <1>5 DEF Skipped, NeedsChat
<1>10. un \subseteq messages
  BY <1>5, <1>8 DEF PassOutcomes
<1>11. ca \in BOOLEAN
  BY <1>5 DEF SawCancel
<1>12. job' \in Runs(messages)
  BY <1>2, <1>6, <1>7, <1>8, <1>9, <1>10, <1>11 DEF Runs
<1>13. /\ job'.kind = job.kind /\ job'.scope = job.scope /\ job'.total = job.total
       /\ job'.key = job.key /\ job'.rejoined = job.rejoined /\ job'.stage = "primary"
       /\ job'.skipped = sk /\ job'.unanswered = un
  BY <1>2, <1>6 DEF Runs
<1>14. cancel = FALSE /\ sk # {} => un = {}
  BY <1>5, <1>7, SkippedIsAnswered
<1>15. Selected' = Selected
  BY <1>13 DEF Selected
<1>16. ~job'.rejoined => job'.key = key'
  BY <1>1, <1>2, <1>13 DEF IInv, JobInv, RunKnows, review
<1>17. RunKnows'
  BY <1>1, <1>7, <1>9, <1>13, <1>14, <1>15, <1>16 DEF RunKnows
<1> QED BY <1>1, <1>2, <1>12, <1>13, <1>17, RunGoesOn

-----------------------------------------------------------------------------
(* The primary pass. *)

\* The conversations of a pass that are listed.
Unanswered(o) == {d \in DOMAIN o : o[d] \notin {"Ok", "Cancelled"}}

\* Each of them is listed once (failed_conversations_detail).
LEMMA EntriesShape ==
  ASSUME NEW convs \in SUBSET Threads, NEW range, NEW o \in [convs -> range]
  PROVE  /\ Entries(o) \in Listings /\ OneEntryEach(Entries(o))
         /\ ConversationsOf(Entries(o)) = Unanswered(o)
<1>1. Entries(o) = {[conv |-> c, reason |-> Reason(o[c])] : c \in Unanswered(o)}
  BY DEF Entries, Entry, Unanswered
<1>2. Unanswered(o) \subseteq Threads
  BY DEF Unanswered
<1>3. \A c \in Unanswered(o) : Reason(o[c]) \in Reasons
  BY DEF Reason, Reasons
<1>4. Entries(o) \in Listings
  BY <1>1, <1>2, <1>3 DEF Listings
<1>5. OneEntryEach(Entries(o))
  BY <1>1 DEF OneEntryEach
<1>6. ConversationsOf(Entries(o)) = Unanswered(o)
  <2>1. \A f \in Entries(o) : f.conv \in Unanswered(o)
    BY <1>1
  <2>2. ASSUME NEW c \in Unanswered(o)
        PROVE  \E f \in Entries(o) : f.conv = c
    <3>1. [conv |-> c, reason |-> Reason(o[c])] \in Entries(o)
      BY <1>1
    <3> QED BY <3>1
  <2> QED BY <2>1, <2>2 DEF ConversationsOf
<1> QED BY <1>4, <1>5, <1>6

\* The parts of a primary pass over the paragraphs `sel` under the names `k`.
Sought(k, sel, skipped) == Conversations(k, sel) \ skipped
Ok(o) == {c \in DOMAIN o : o[c] = "Ok"}
In(k, sel, convs) == {m \in sel : k[m] \in convs}

\* What was answered and what is listed make up what was selected.
AddsUp(k, sel, skipped, o) ==
  /\ Ok(o) \cup skipped = Conversations(k, sel) \ Unanswered(o)
  /\ Sought(k, sel, skipped) \cup skipped = Conversations(k, sel)
  /\ In(k, sel, Ok(o) \cup skipped) = {m \in sel : k[m] \notin Unanswered(o)}
  /\ Cardinality(Ok(o) \cup skipped) + Cardinality(Entries(o))
       = Cardinality(Conversations(k, sel))

\* They do unless an answer is that the user stopped.
LEMMA PrimaryCounts ==
  ASSUME NEW ms \in SUBSET Messages, NEW k \in [ms -> Threads], NEW sel \in SUBSET ms,
         NEW skipped \in SUBSET Conversations(k, sel),
         NEW range, NEW o \in [Sought(k, sel, skipped) -> range], ~SawCancel(o)
  PROVE  AddsUp(k, sel, skipped, o)
<1> DEFINE all == Conversations(k, sel)
<1>1. all \subseteq Threads /\ IsFiniteSet(all)
  BY ThreadsFinite, FS_Subset DEF Conversations
<1>2. \A c \in DOMAIN o : o[c] # "Cancelled"
  BY DEF SawCancel
<1>3. DOMAIN o = all \ skipped
  BY DEF Sought
<1>4. Ok(o) \cup skipped = all \ Unanswered(o)
  BY <1>2, <1>3 DEF Ok, Unanswered
<1>5. Sought(k, sel, skipped) \cup skipped = all
  BY DEF Sought
<1>6. \A m \in sel : k[m] \in all
  BY DEF Conversations
<1>7. In(k, sel, Ok(o) \cup skipped) = {m \in sel : k[m] \notin Unanswered(o)}
  BY <1>4, <1>6 DEF In
<1>8. Cardinality(Entries(o)) = Cardinality(Unanswered(o))
  <2>1. Sought(k, sel, skipped) \in SUBSET Threads
    BY <1>1 DEF Sought
  <2> QED BY <2>1, EntriesShape, ListingFinite
<1>9. Unanswered(o) \in SUBSET all
  BY <1>3 DEF Unanswered
<1>10. Cardinality(all \ Unanswered(o)) + Cardinality(Unanswered(o)) = Cardinality(all)
  BY <1>1, <1>9, PartsAddUp
<1> QED BY <1>4, <1>5, <1>7, <1>8, <1>10 DEF AddsUp

\* The result a primary pass hands on, in the words of those parts.
PrimaryResult(o, assembled) ==
  LET sk    == job.skipped
      given == In(job.key, Selected, Ok(o) \cup sk)
      convs == Sought(job.key, Selected, sk)
  IN  [kind |-> job.kind, scope |-> job.scope, stage |-> "closures",
       rejoined |-> job.rejoined, total |-> job.total, failed |-> Entries(o),
       covered |-> In(job.key, Selected, Ok(o) \ assembled) \cup (given \ job.unanswered),
       carded |-> In(job.key, Selected, Ok(o)),
       analysed |-> Cardinality(given), answered |-> Cardinality(Ok(o) \cup sk),
       convs |-> Cardinality(convs \cup sk),
       transport |-> \E c \in convs : is_stop_error(o[c]),
       cancelled |-> job.cancelled \/ SawCancel(o) \/ cancel]

\* PrimaryPhase yields one of those results.
LEMMA PrimaryShape ==
  ASSUME PrimaryPhase
  PROVE  \E range, assembled :
           \E o \in [Sought(job.key, Selected, job.skipped) -> range] :
             job' = PrimaryResult(o, assembled)
<1> DEFINE convs == Conversations(job.key, Selected) \ job.skipped
           assembled == Assembled(convs)
           replies == {"Ok"} \cup Offered
<1>1. PICK o \in PassOutcomes(convs, replies, cancel, job.halted) :
        LET ok    == {c \in convs : o[c] = "Ok"}
            asked == {m \in Selected : job.key[m] \in ok \ assembled}
            given == {m \in Selected : job.key[m] \in ok \cup job.skipped}
        IN  job' =
              [kind |-> job.kind, scope |-> job.scope, stage |-> "closures",
               rejoined |-> job.rejoined, total |-> job.total,
               failed |-> Entries(o),
               covered |-> asked \cup (given \ job.unanswered),
               carded |-> {m \in Selected : job.key[m] \in ok},
               analysed |-> Cardinality(given),
               answered |-> Cardinality(ok \cup job.skipped),
               convs |-> Cardinality(convs \cup job.skipped),
               transport |-> \E c \in convs : is_stop_error(o[c]),
               cancelled |-> job.cancelled \/ SawCancel(o) \/ cancel]
  BY Zenon DEF PrimaryPhase
<1>2. o \in [convs -> replies \cup {NotStarted}] /\ DOMAIN o = convs
  BY DEF PassOutcomes
<1>3. convs = Sought(job.key, Selected, job.skipped)
  BY DEF Sought
<1>4. {c \in convs : o[c] = "Ok"} = Ok(o)
  BY <1>2 DEF Ok
<1>5. job' = PrimaryResult(o, assembled)
  <2> HIDE DEF convs, assembled
  <2>1. \A S : In(job.key, Selected, S) = {m \in Selected : job.key[m] \in S}
    BY DEF In
  <2> QED BY <1>1, <1>3, <1>4, <2>1 DEF PrimaryResult
<1> HIDE DEF convs, assembled, replies
<1>6. o \in [Sought(job.key, Selected, job.skipped) -> replies \cup {NotStarted}]
  BY <1>2, <1>3
<1> QED BY <1>5, <1>6

\* A result is typed, and a whole one tells what it covered.
LEMMA PrimaryPhaseStep == IInv /\ PrimaryPhase /\ user' = user => IInv'
<1> SUFFICES ASSUME IInv, PrimaryPhase, user' = user PROVE IInv'
  OBVIOUS
<1>1. Scanning /\ job.stage = "primary" /\ UNCHANGED <<user, enabled, review, cancel>>
  BY DEF PrimaryPhase
<1>2. Running /\ job \in Runs(messages)
  BY <1>1, JobShapes DEF Running, IInv, JobInv
<1>3. PICK range, assembled :
        \E o \in [Sought(job.key, Selected, job.skipped) -> range] :
          job' = PrimaryResult(o, assembled)
  BY PrimaryShape
<1>4. PICK k, sel, sk : k = job.key /\ sel = Selected /\ sk = job.skipped
  OBVIOUS
<1>5. PICK o \in [Sought(k, sel, sk) -> range] : job' = PrimaryResult(o, assembled)
  BY <1>3, <1>4
<1>6. /\ k \in [messages -> Threads] /\ messages \in SUBSET Messages
      /\ job.scope \in SUBSET Threads /\ job.kind \in Kinds /\ job.total \in Nat
      /\ job.rejoined \in BOOLEAN /\ job.cancelled \in BOOLEAN /\ cancel \in BOOLEAN
      /\ job.unanswered \subseteq messages
  BY <1>2, <1>4 DEF Runs, IInv, ReviewTyped
<1>7. sel = {m \in messages : k[m] \in job.scope}
  BY <1>4, <1>6 DEF Selected
<1>8. sk \in SUBSET Conversations(k, sel)
  BY <1>2, <1>4 DEF IInv, JobInv, RunKnows
<1>9. Conversations(k, sel) \subseteq Threads \cap job.scope
  BY <1>6, <1>7 DEF Conversations
<1>10. DEFINE given == In(k, sel, Ok(o) \cup sk)
              covered == In(k, sel, Ok(o) \ assembled) \cup (given \ job.unanswered)
              carded == In(k, sel, Ok(o))
              answered == Ok(o) \cup sk
              convs == Sought(k, sel, sk) \cup sk
<1>11. /\ job'.kind = job.kind /\ job'.scope = job.scope /\ job'.stage = "closures"
       /\ job'.rejoined = job.rejoined /\ job'.total = job.total
       /\ job'.failed = Entries(o) /\ job'.covered = covered /\ job'.carded = carded
       /\ job'.analysed = Cardinality(given) /\ job'.answered = Cardinality(answered)
       /\ job'.convs = Cardinality(convs)
       /\ job'.transport \in BOOLEAN
       /\ job'.cancelled = (job.cancelled \/ SawCancel(o) \/ cancel)
  BY <1>4, <1>5 DEF PrimaryResult
<1>12. job' = [kind |-> job'.kind, scope |-> job'.scope, stage |-> job'.stage,
               rejoined |-> job'.rejoined, total |-> job'.total, failed |-> job'.failed,
               covered |-> job'.covered, carded |-> job'.carded,
               analysed |-> job'.analysed, answered |-> job'.answered,
               convs |-> job'.convs, transport |-> job'.transport,
               cancelled |-> job'.cancelled]
  BY <1>5 DEF PrimaryResult
<1>13. given \subseteq sel /\ covered \subseteq sel /\ carded \subseteq sel /\ sel \subseteq messages
  BY <1>7 DEF In
<1>14. /\ Entries(o) \in Listings /\ OneEntryEach(Entries(o))
       /\ ConversationsOf(Entries(o)) = Unanswered(o)
       /\ Unanswered(o) \subseteq job.scope
  <2>1. Sought(k, sel, sk) \in SUBSET Threads /\ Sought(k, sel, sk) \subseteq job.scope
    BY <1>9 DEF Sought
  <2> QED BY <2>1, EntriesShape DEF Unanswered
<1>15. answered \subseteq Threads /\ convs \subseteq Threads
  BY <1>8, <1>9 DEF Ok, Sought
<1>16. /\ Cardinality(given) \in Nat /\ Cardinality(answered) \in Nat
       /\ Cardinality(convs) \in Nat
  <2>1. given \in SUBSET Messages
    BY <1>6, <1>13
  <2>2. IsFiniteSet(given) /\ IsFiniteSet(answered) /\ IsFiniteSet(convs)
    BY <1>15, <2>1, ThreadsFinite, MailIsFinite, FS_Subset
  <2> QED BY <2>2, FS_CardinalityType
<1>17. messages' = messages /\ key' = key /\ cards' = cards
  BY <1>1 DEF review
<1> HIDE DEF given, covered, carded, answered, convs
<1>18. job' \in Results(messages)
  <2>1. covered \subseteq messages /\ carded \subseteq messages
    BY <1>13
  <2>2. job'.cancelled \in BOOLEAN
    BY <1>6, <1>11 DEF SawCancel
  <2> QED BY <1>6, <1>11, <1>12, <1>14, <1>16, <2>1, <2>2 DEF Results
<1>19. Scanning' /\ Closing' /\ ~Running' /\ Scope' = Scope
  BY <1>1, <1>6, <1>11 DEF Scanning, Closing, Running, Scope, Kinds
<1>20. FullJobs'
  BY <1>6, <1>11, <1>17 DEF IInv, JobInv, FullJobs, NoCards, Kinds
<1>21. ASSUME ~job'.rejoined
       PROVE  sel = Rescanned' /\ k = key
  BY <1>2, <1>4, <1>7, <1>11, <1>17, <1>21 DEF IInv, JobInv, RunKnows, Rescanned
<1>22. ASSUME Whole'
       PROVE  Told'
  <2>1. /\ ~job'.rejoined /\ cancel = FALSE /\ ~SawCancel(o) /\ carded \subseteq covered
        /\ sel = Rescanned' /\ k = key
    BY <1>6, <1>11, <1>21, <1>22 DEF Whole
  <2>2. /\ answered = Conversations(k, sel) \ Unanswered(o)
        /\ convs = Conversations(k, sel)
        /\ given = {m \in sel : k[m] \notin Unanswered(o)}
        /\ Cardinality(answered) + Cardinality(Entries(o)) = Cardinality(Conversations(k, sel))
    <3>1. AddsUp(k, sel, sk, o)
      BY <1>6, <1>8, <1>13, <2>1, PrimaryCounts
    <3> QED BY <3>1 DEF AddsUp, answered, convs, given
  <2>3. \A m \in job.unanswered : k[m] \notin sk
    BY <1>2, <1>4, <2>1 DEF IInv, JobInv, RunKnows
  <2>4. covered = given
    <3>1. covered \subseteq given
      BY DEF covered, given, In
    <3>2. given \subseteq carded \cup covered
      BY <2>3 DEF covered, given, carded, In
    <3> QED BY <2>1, <3>1, <3>2
  <2>5. job'.covered = {m \in Rescanned' : key'[m] \notin ConversationsOf(job'.failed)}
    BY <1>11, <1>14, <1>17, <2>1, <2>2, <2>4
  <2>6. job'.convs = Cardinality({key'[m] : m \in Rescanned'})
    BY <1>11, <1>17, <2>1, <2>2 DEF Conversations
  <2>7. job'.analysed = Cardinality(job'.covered)
    BY <1>11, <2>4
  <2>8. job'.answered + Cardinality(job'.failed) = job'.convs
    BY <1>11, <2>2
  <2> QED BY <2>5, <2>6, <2>7, <2>8 DEF Told
<1>23. ~job'.rejoined => job'.carded \subseteq Rescanned'
  BY <1>11, <1>13, <1>21
<1>24. ResultKnows'
  BY <1>11, <1>14, <1>22, <1>23 DEF ResultKnows
<1>25. JobInv'
  BY <1>17, <1>18, <1>19, <1>20, <1>24 DEF JobInv, JobTyped, RunKnows, Results
<1> QED BY <1>1, <1>19, <1>25, PhaseStep

-----------------------------------------------------------------------------
(* Applying results. *)

\* What a result that leaves no cut behind has in it.
LEMMA NoCuts ==
  ASSUME IInv, Closing
  PROVE  /\ Cuts \subseteq {"short", "rejoined"}
         /\ "rejoined" \notin Cuts => ~job.rejoined
         /\ Cuts = {} => Whole /\ Told
<1>1. job \in Results(messages)
  BY JobShapes DEF IInv, JobInv
<1>2. job.rejoined \in BOOLEAN /\ job.cancelled \in BOOLEAN
  BY <1>1 DEF Results
<1>3. "rejoined" \notin Cuts => ~job.rejoined
  BY DEF Cuts
<1>4. "short" \notin Cuts => ~job.cancelled /\ job.carded \subseteq job.covered
  BY DEF Cuts, Stopped
<1>5. Cuts = {} => Whole
  BY <1>3, <1>4 DEF Whole
<1>6. Whole => Told
  BY DEF IInv, JobInv, ResultKnows
<1> QED BY <1>3, <1>5, <1>6 DEF Cuts

\* What both kinds of result bring along.
LEMMA ResultParts ==
  ASSUME IInv, Closing
  PROVE  /\ job.kind \in Kinds /\ job.scope \in SUBSET Threads
         /\ job.failed \in Listings /\ OneEntryEach(job.failed)
         /\ ConversationsOf(job.failed) \subseteq job.scope
         /\ job.covered \subseteq messages /\ job.carded \subseteq messages
         /\ ~job.rejoined => job.carded \subseteq Rescanned
         /\ Scope = job.scope
<1>1. job \in Results(messages)
  BY JobShapes DEF IInv, JobInv
<1> QED BY <1>1 DEF Results, IInv, JobInv, ResultKnows, Scope, Closing

\* What an entry list says of the conversations of a review: those on it are
\* the ones not read, so they make up all conversations with those that are.
LEMMA ListingAndRead ==
  ASSUME NEW entries \in Listings, OneEntryEach(entries),
         NEW live \in SUBSET Threads, ConversationsOf(entries) \subseteq live
  PROVE  /\ Cardinality(live \ ConversationsOf(entries)) + Cardinality(entries)
              = Cardinality(live)
         /\ Cardinality(entries) <= Cardinality(live)
         /\ Cardinality(live) \in Nat /\ Cardinality(entries) \in Nat
<1>1. IsFiniteSet(live)
  BY ThreadsFinite, FS_Subset
<1>2. Cardinality(entries) = Cardinality(ConversationsOf(entries))
  BY ListingFinite
<1> QED BY <1>1, <1>2, PartsAddUp

\* A full scan's result replaces what was known (set_scan).
LEMMA SetScanStep == IInv /\ set_scan /\ user' = user => IInv'
<1> SUFFICES ASSUME IInv, set_scan, user' = user PROVE IInv'
  OBVIOUS
<1>1. /\ job.kind = "full" /\ job.stage = "closures"
      /\ analysed' = TRUE
      /\ cards' = [m \in Messages |-> IF m \in job.carded THEN 1 ELSE 0]
      /\ failed' = job.failed
      /\ summary' = Summary(job.analysed, job.total, job.convs, job.answered, job.failed)
      /\ read' = job.covered /\ cut' = Cuts
      /\ GiveUp
      /\ UNCHANGED <<enabled, messages, key, failedSources>>
  BY DEF set_scan
<1>2. Closing
  BY <1>1 DEF Closing, Scanning
<1>3. /\ Cuts \subseteq {"short", "rejoined"}
      /\ Cuts = {} => Whole /\ Told
  BY <1>2, NoCuts
<1>4. /\ job.failed \in Listings /\ OneEntryEach(job.failed)
      /\ job.covered \subseteq messages /\ job.carded \subseteq messages
  BY <1>2, ResultParts
<1>5. job.scope = Threads /\ job.total = Cardinality(messages)
  BY <1>1 DEF IInv, JobInv, FullJobs
<1>6. messages \subseteq Messages /\ key \in [messages -> Threads]
  BY DEF IInv, ReviewTyped
<1>7. Rescanned = messages
  BY <1>5, <1>6 DEF Rescanned
<1>8. JobInv' /\ ~Scanning' /\ Scope' = {} /\ cancel' = FALSE
  BY <1>1, JobEnds
<1>9. /\ cards' \in [Messages -> Nat] /\ \A m \in Messages : cards'[m] <= 1
      /\ {m \in Messages : cards'[m] > 0} \subseteq messages
  BY <1>1, <1>4
<1>10. ReviewTyped'
  BY <1>1, <1>3, <1>4, <1>8, <1>9 DEF IInv, ReviewTyped, Listings
<1>11. ReadIsUnlisted'
  BY <1>1, <1>3, <1>7 DEF ReadIsUnlisted, Listed, Told
<1>12. SummaryKnows'
  <2> SUFFICES ASSUME Cuts = {}
               PROVE  /\ summary'.analysed = Cardinality(read')
                      /\ summary'.total = Cardinality(messages')
                      /\ summary'.convs = Cardinality(Live')
                      /\ summary'.analysedConvs + Cardinality(failed') = summary'.convs
                      /\ summary'.failed + summary'.notStarted = Cardinality(failed')
                      /\ summary'.analysedConvs \in Nat /\ summary'.failed \in Nat
                      /\ summary'.notStarted \in Nat
    BY <1>1 DEF SummaryKnows
  <2>1. Told
    BY <1>3
  <2>2. /\ summary'.analysed = job.analysed /\ summary'.total = job.total
        /\ summary'.convs = job.convs /\ summary'.analysedConvs = job.answered
        /\ summary'.notStarted = Cardinality({f \in job.failed : f.reason = "NotStarted"})
        /\ summary'.failed = Cardinality({f \in job.failed : f.reason # "NotStarted"})
    BY <1>1 DEF Summary
  <2>3. IsFiniteSet(job.failed)
    BY <1>4, ListingFinite
  <2>4. summary'.notStarted + summary'.failed = Cardinality(job.failed)
    BY <2>2, <2>3, ReasonsSplit
  <2>5. summary'.notStarted \in Nat /\ summary'.failed \in Nat
    BY <2>2, <2>3, FS_Subset, FS_CardinalityType
  <2>6. Live' = {key[m] : m \in messages}
    BY <1>1 DEF Live
  <2>7. job.convs = Cardinality({key[m] : m \in messages})
    BY <1>7, <2>1 DEF Told
  <2>8. /\ job.analysed = Cardinality(job.covered)
        /\ job.answered + Cardinality(job.failed) = job.convs
    BY <2>1 DEF Told
  <2>9. job.answered \in Nat
    BY <1>2, JobShapes DEF IInv, JobInv, Results
  <2> QED BY <1>1, <1>5, <2>2, <2>4, <2>5, <2>6, <2>7, <2>8, <2>9
<1>13. NoCardTwice'
  BY <1>9 DEF NoCardTwice
<1> QED BY <1>8, <1>10, <1>11, <1>12, <1>13 DEF IInv

\* The entries after a merge: the old ones of other conversations, the new ones.
LEMMA MergedListing ==
  ASSUME IInv, Closing
  PROVE  /\ MergedEntries \in Listings /\ OneEntryEach(MergedEntries)
         /\ \A c : c \in ConversationsOf(MergedEntries) <=>
                     \/ c \in Listed /\ c \notin job.scope
                     \/ c \in ConversationsOf(job.failed)
<1>1. /\ job.failed \in Listings /\ OneEntryEach(job.failed)
      /\ ConversationsOf(job.failed) \subseteq job.scope
  BY ResultParts
<1>2. failed \in Listings /\ OneEntryEach(failed)
  BY DEF IInv, ReviewTyped
<1>3. MergedEntries \in Listings
  BY <1>1, <1>2 DEF MergedEntries, Listings
<1>4. \A f \in job.failed : f.conv \in job.scope
  BY <1>1 DEF ConversationsOf
<1>5. OneEntryEach(MergedEntries)
  BY <1>1, <1>2, <1>4 DEF MergedEntries, OneEntryEach
<1>6. \A c : c \in ConversationsOf(MergedEntries) <=>
               \/ c \in Listed /\ c \notin job.scope
               \/ c \in ConversationsOf(job.failed)
  BY DEF MergedEntries, Listed, ConversationsOf
<1> QED BY <1>3, <1>5, <1>6

\* A merge replaces what was known of the conversations of its result, and
\* keeps the rest (merge_scan).
LEMMA MergeReads ==
  ASSUME IInv, Closing, cut = {}, Cuts = {},
         NEW m \in messages
  PROVE  m \in (read \ Rescanned) \cup job.covered
           <=> key[m] \notin ConversationsOf(MergedEntries)
<1>1. Told
  BY NoCuts
<1>2. /\ ConversationsOf(job.failed) \subseteq job.scope
      /\ Scope = job.scope
  BY ResultParts
<1>3. key[m] \in ConversationsOf(MergedEntries) <=>
        \/ key[m] \in Listed /\ key[m] \notin job.scope
        \/ key[m] \in ConversationsOf(job.failed)
  BY MergedListing
<1>4. m \in job.covered <=> key[m] \in job.scope /\ key[m] \notin ConversationsOf(job.failed)
  BY <1>1 DEF Told, Rescanned
<1>5. m \in Rescanned <=> key[m] \in job.scope
  BY DEF Rescanned
<1>6. key[m] \notin job.scope => (m \in read <=> key[m] \notin Listed)
  BY <1>2 DEF IInv, ReadIsUnlisted
<1> QED BY <1>2, <1>3, <1>4, <1>5, <1>6

\* So does the summary it makes (refresh of the counts in merge_scan).
LEMMA MergeScanStep == IInv /\ merge_scan /\ user' = user => IInv'
<1> SUFFICES ASSUME IInv, merge_scan, user' = user PROVE IInv'
  OBVIOUS
<1> DEFINE unlisted == {m \in messages : key[m] \notin ConversationsOf(MergedEntries)}
           live == Cardinality(Conversations(key, messages))
<1>1. /\ job.kind \in {"retry", "check"} /\ job.stage = "closures"
      /\ analysed' = TRUE
      /\ cards' = MergedCards /\ failed' = MergedEntries
      /\ summary' = Summary(Cardinality(unlisted), Cardinality(messages), live,
                            conversation_coverage(live, MergedEntries), MergedEntries)
      /\ read' = (read \ Rescanned) \cup job.covered
      /\ cut' = cut \cup Cuts
      /\ GiveUp
      /\ UNCHANGED <<enabled, messages, key, failedSources>>
  BY DEF merge_scan
<1>2. Closing
  BY <1>1 DEF Closing, Scanning
<1>3. /\ Cuts \subseteq {"short", "rejoined"}
      /\ "rejoined" \notin Cuts => ~job.rejoined
  BY <1>2, NoCuts
<1>4. /\ job.covered \subseteq messages /\ job.carded \subseteq messages
      /\ ~job.rejoined => job.carded \subseteq Rescanned
  BY <1>2, ResultParts
<1>5. MergedEntries \in Listings /\ OneEntryEach(MergedEntries)
  BY <1>2, MergedListing
<1>6. /\ messages \subseteq Messages /\ key \in [messages -> Threads]
      /\ cards \in [Messages -> Nat] /\ {m \in Messages : cards[m] > 0} \subseteq messages
      /\ read \subseteq messages /\ cut \subseteq {"short", "rejoined"}
  BY DEF IInv, ReviewTyped
<1>7. JobInv' /\ ~Scanning' /\ Scope' = {} /\ cancel' = FALSE
  BY <1>1, JobEnds
<1>8. \A m \in Messages :
        MergedCards[m] = (IF m \in Rescanned THEN 0 ELSE cards[m])
                           + (IF m \in job.carded THEN 1 ELSE 0)
  BY DEF MergedCards
<1>9. /\ cards' \in [Messages -> Nat]
      /\ {m \in Messages : cards'[m] > 0} \subseteq messages
  <2>1. \A m \in Messages : MergedCards[m] \in Nat
    BY <1>6, <1>8
  <2>2. \A m \in Messages : MergedCards[m] > 0 => m \in messages
    BY <1>4, <1>6, <1>8
  <2>3. MergedCards = [m \in Messages |-> MergedCards[m]]
    BY DEF MergedCards
  <2> QED BY <1>1, <2>1, <2>2, <2>3
<1>10. ReviewTyped'
  BY <1>1, <1>3, <1>4, <1>5, <1>6, <1>7, <1>9 DEF IInv, ReviewTyped, Listings
<1>11. cut' = {} => \A m \in messages : m \in read' <=> key[m] \notin ConversationsOf(MergedEntries)
  BY <1>1, <1>2, MergeReads
<1>12. ReadIsUnlisted'
  BY <1>1, <1>11 DEF ReadIsUnlisted, Listed
<1>13. SummaryKnows'
  <2> SUFFICES ASSUME cut' = {}
               PROVE  /\ summary'.analysed = Cardinality(read')
                      /\ summary'.total = Cardinality(messages')
                      /\ summary'.convs = Cardinality(Live')
                      /\ Listed' \subseteq Live' =>
                           summary'.analysedConvs + Cardinality(failed') = summary'.convs
                      /\ summary'.failed + summary'.notStarted = Cardinality(failed')
                      /\ summary'.analysedConvs \in Nat /\ summary'.failed \in Nat
                      /\ summary'.notStarted \in Nat
    BY DEF SummaryKnows
  <2>1. read' = unlisted
    BY <1>1, <1>4, <1>6, <1>11
  <2>2. Live' = Conversations(key, messages) /\ Live' \subseteq Threads
    BY <1>1, <1>6 DEF Live, Conversations
  <2>3. /\ summary'.analysed = Cardinality(unlisted) /\ summary'.total = Cardinality(messages)
        /\ summary'.convs = live
        /\ summary'.analysedConvs = conversation_coverage(live, MergedEntries)
        /\ summary'.notStarted = Cardinality({f \in MergedEntries : f.reason = "NotStarted"})
        /\ summary'.failed = Cardinality({f \in MergedEntries : f.reason # "NotStarted"})
    BY <1>1 DEF Summary
  <2>4. IsFiniteSet(MergedEntries)
    BY <1>5, ListingFinite
  <2>5. summary'.notStarted + summary'.failed = Cardinality(MergedEntries)
    BY <2>3, <2>4, ReasonsSplit
  <2>6. summary'.notStarted \in Nat /\ summary'.failed \in Nat
    BY <2>3, <2>4, FS_Subset, FS_CardinalityType
  <2>7. ASSUME Listed' \subseteq Live'
        PROVE  summary'.analysedConvs + Cardinality(failed') = summary'.convs
    <3>1. ConversationsOf(MergedEntries) \subseteq Conversations(key, messages)
      BY <1>1, <2>2, <2>7 DEF Listed
    <3>2. Conversations(key, messages) \in SUBSET Threads
      BY <2>2
    <3>3. /\ Cardinality(MergedEntries) <= live
          /\ live \in Nat /\ Cardinality(MergedEntries) \in Nat
      BY <1>5, <3>1, <3>2, ListingAndRead
    <3>4. conversation_coverage(live, MergedEntries) = live - Cardinality(MergedEntries)
      BY <3>3 DEF conversation_coverage
    <3> HIDE DEF live
    <3> QED BY <1>1, <2>3, <3>3, <3>4
  <2>8. Cardinality(Live') = live
    BY <2>2
  <2>9. summary'.failed + summary'.notStarted = Cardinality(failed')
    BY <1>1, <2>5, <2>6
  <2>10. messages' = messages
    BY <1>1
  <2> HIDE DEF live, unlisted
  <2>11. /\ summary'.analysed = Cardinality(read') /\ summary'.total = Cardinality(messages')
         /\ summary'.convs = Cardinality(Live')
    BY <2>1, <2>3, <2>8, <2>10
  <2>12. summary'.analysedConvs \in Nat
    <3>1. /\ live \in Nat /\ Cardinality(MergedEntries) \in Nat
      <4>1. IsFiniteSet(Conversations(key, messages))
        BY <2>2, ThreadsFinite, FS_Subset
      <4> QED BY <1>5, <4>1, ListingFinite, FS_CardinalityType DEF live
    <3> QED BY <2>3, <3>1 DEF conversation_coverage
  <2> QED BY <2>6, <2>7, <2>9, <2>11, <2>12
<1>14. NoCardTwice'
  <2> SUFFICES ASSUME "rejoined" \notin cut', NEW m \in Messages
               PROVE  MergedCards[m] <= 1
    BY <1>1 DEF NoCardTwice
  <2>1. "rejoined" \notin cut /\ "rejoined" \notin Cuts
    BY <1>1
  <2>2. cards[m] <= 1 /\ job.carded \subseteq Rescanned
    BY <1>3, <1>4, <2>1 DEF IInv, NoCardTwice
  <2> QED BY <1>6, <1>8, <2>2
<1> QED BY <1>7, <1>10, <1>12, <1>13, <1>14 DEF IInv

\* A scan that fails as a whole leaves a cut behind.
LEMMA ScanFailsStep == IInv /\ ScanFails /\ user' = user => IInv'
<1> SUFFICES ASSUME IInv, ScanFails, user' = user PROVE IInv'
  OBVIOUS
<1>1. /\ cut' = (IF job.kind = "full" THEN {} ELSE cut) \cup {"short"}
      /\ GiveUp
      /\ UNCHANGED <<enabled, messages, key, failedSources, analysed, cards, failed,
                     summary, read>>
  BY DEF ScanFails
<1>2. JobInv' /\ ~Scanning' /\ Scope' = {} /\ cancel' = FALSE
  BY <1>1, JobEnds
<1>3. cut' # {}
  BY <1>1
<1>4. ReviewTyped'
  BY <1>1, <1>2 DEF IInv, ReviewTyped, Listings
<1>5. ReadIsUnlisted' /\ SummaryKnows'
  BY <1>3 DEF ReadIsUnlisted, SummaryKnows
<1>6. NoCardTwice'
  <2>1. CASE job.kind = "full"
    BY <1>1, <2>1 DEF IInv, JobInv, FullJobs, NoCards, NoCardTwice
  <2>2. CASE job.kind # "full"
    BY <1>1, <2>2 DEF IInv, NoCardTwice
  <2> QED BY <2>1, <2>2
<1> QED BY <1>1, <1>2, <1>4, <1>5, <1>6 DEF IInv

-----------------------------------------------------------------------------
(* The theorems. *)

\* A step in which nothing happens.
LEMMA StutterStep == IInv /\ UNCHANGED vars => IInv'
<1> SUFFICES ASSUME IInv, UNCHANGED vars PROVE IInv'
  OBVIOUS
<1>1. /\ user' = user /\ enabled' = enabled /\ cancel' = cancel /\ job' = job
      /\ UNCHANGED review /\ messages' = messages /\ key' = key /\ cards' = cards
  BY DEF vars, review
<1>2. /\ enabled \subseteq user.providers /\ enabled # {} /\ failedSources \subseteq enabled
      /\ cancel \in BOOLEAN
  BY DEF IInv, ReviewTyped
<1>3. JobTyped' /\ FullJobs'
  BY <1>1 DEF NoCards, IInv, JobInv, JobTyped, Loads, RetryLoads, Runs, Results, FullJobs
<1>4. RunKnows'
  BY <1>1 DEF IInv, JobInv, RunKnows, Running, Scanning, Selected
<1>5. ResultKnows'
  BY <1>1 DEF IInv, JobInv, ResultKnows, Closing, Scanning, Whole, Told, Rescanned
<1>6. Scope' = Scope /\ Scanning' = Scanning
  BY <1>1 DEF Scope, Scanning
<1> QED BY <1>1, <1>2, <1>3, <1>4, <1>5, <1>6, Untouched DEF JobInv

\* Every action of the user and of a job keeps the invariant.
LEMMA NextIInv == IInv /\ [Next]_vars => IInv'
<1> SUFFICES ASSUME IInv, [Next]_vars PROVE IInv'
  OBVIOUS
<1>1. CASE UserActs /\ user' = user
  <2>1. CASE ScanInboxes
    BY <1>1, <2>1, ScanInboxesStep
  <2>2. CASE Rescan
    BY <1>1, <2>2, RescanStep
  <2>3. CASE RetryFailed
    BY <1>1, <2>3, RetryFailedStep
  <2>4. CASE UserStops
    BY <1>1, <2>4, UserStopsStep
  <2>5. CASE ClearResults
    BY <1>1, <2>5, ClearResultsStep
  <2>6. ASSUME NEW p \in Providers, DisableProvider(p)
        PROVE  IInv'
    BY <1>1, <2>6, DisableStep
  <2>7. ASSUME NEW p \in Providers, EnableProvider(p)
        PROVE  IInv'
    BY <1>1, <2>7, EnableStep
  <2> QED BY <1>1, <2>1, <2>2, <2>3, <2>4, <2>5, <2>6, <2>7 DEF UserActs
<1>2. CASE JobActs /\ user' = user
  <2>1. CASE MailArrives
    BY <1>2, <2>1, MailArrivesStep
  <2>2. CASE CheckMailArrives
    BY <1>2, <2>2, CheckMailArrivesStep
  <2>3. CASE RetryMailArrives
    BY <1>2, <2>3, RetryMailArrivesStep
  <2>4. CASE RulesPhase
    BY <1>2, <2>4, RulesPhaseStep
  <2>5. CASE DecidePhase
    BY <1>2, <2>5, DecidePhaseStep
  <2>6. CASE PrimaryPhase
    BY <1>2, <2>6, PrimaryPhaseStep
  <2>7. CASE set_scan
    BY <1>2, <2>7, SetScanStep
  <2>8. CASE merge_scan
    BY <1>2, <2>8, MergeScanStep
  <2>9. CASE ScanFails
    BY <1>2, <2>9, ScanFailsStep
  <2> QED BY <1>2, <2>1, <2>2, <2>3, <2>4, <2>5, <2>6, <2>7, <2>8, <2>9 DEF JobActs
<1>3. CASE UNCHANGED vars
  BY <1>3, StutterStep
<1> QED BY <1>1, <1>2, <1>3 DEF Next

\* What is read and what is listed complement each other outside the scan under
\* way, and a result tells exactly what it covered (set_scan, merge_scan).
THEOREM Invariance == Spec => []IInv
  BY InitIInv, NextIInv, PTL DEF Spec

\* A card's evidence is loaded mail, and no conversation is listed twice.
THEOREM TypeCorrect == Spec => []TypeOK
<1>1. ASSUME IInv PROVE TypeOK
  <2>1. Cardinality(failed) = Cardinality(Listed)
    BY <1>1, ListingFinite DEF IInv, ReviewTyped, Listed
  <2> QED BY <1>1, <2>1 DEF IInv, ReviewTyped, TypeOK, Listings
<1> QED BY <1>1, Invariance, PTL

\* Nobody scans without a job.
LEMMA IdleScope ==
  ASSUME IInv, Idle
  PROVE  ~Scanning /\ Scope = {}
  BY JobShapes DEF IInv, JobInv, Scope

\* Every message on show was read or its conversation is listed as failed,
\* unless a scan was cut short (merge_conversation and the merges of poll).
THEOREM NothingIsDropped == Spec => []NothingDropped
<1>1. ASSUME IInv PROVE NothingDropped
  <2> SUFFICES ASSUME Idle, cut = {}, NEW m \in messages \ read PROVE key[m] \in Listed
    BY DEF NothingDropped
  <2>1. Scope = {}
    BY <1>1, IdleScope
  <2> QED BY <1>1, <2>1 DEF IInv, ReadIsUnlisted
<1> QED BY <1>1, Invariance, PTL

\* The counts of the summary are those of what was read and listed (set_scan,
\* merge_scan, conversation_coverage).
THEOREM TheCountsAreTrue == Spec => []CountsAreTrue
<1>1. ASSUME IInv PROVE CountsAreTrue
  <2> SUFFICES ASSUME Idle, summary.shown, cut = {}, Listed \subseteq Live
               PROVE  /\ summary.analysed = Cardinality(read)
                      /\ summary.total = Cardinality(messages)
                      /\ summary.analysedConvs =
                           Cardinality({c \in Live : Of(key, messages, c) \subseteq read})
                      /\ summary.analysedConvs + summary.failed + summary.notStarted
                           = summary.convs
    BY DEF CountsAreTrue
  <2>1. ~Scanning /\ Scope = {}
    BY <1>1, IdleScope
  <2>2. /\ summary.analysed = Cardinality(read) /\ summary.total = Cardinality(messages)
        /\ summary.convs = Cardinality(Live)
        /\ summary.analysedConvs + Cardinality(failed) = summary.convs
        /\ summary.failed + summary.notStarted = Cardinality(failed)
        /\ summary.analysedConvs \in Nat /\ summary.failed \in Nat
        /\ summary.notStarted \in Nat
    BY <1>1, <2>1 DEF IInv, SummaryKnows
  <2>3. \A m \in messages : m \in read <=> key[m] \notin Listed
    BY <1>1, <2>1 DEF IInv, ReadIsUnlisted
  <2>4. {c \in Live : Of(key, messages, c) \subseteq read} = Live \ Listed
    <3>1. ASSUME NEW c \in Live
          PROVE  Of(key, messages, c) \subseteq read <=> c \notin Listed
      <4>1. PICK m \in messages : key[m] = c
        BY DEF Live
      <4> QED BY <2>3, <4>1 DEF Of
    <3> QED BY <3>1
  <2>5. Cardinality(Live \ Listed) + Cardinality(failed) = Cardinality(Live)
        /\ Cardinality(Live) \in Nat /\ Cardinality(failed) \in Nat
    <3>1. Live \in SUBSET Threads
      BY <1>1 DEF IInv, ReviewTyped, Live
    <3>2. failed \in Listings /\ OneEntryEach(failed)
      BY <1>1 DEF IInv, ReviewTyped
    <3> QED BY <3>1, <3>2, ListingAndRead DEF Listed
  <2>6. Cardinality(Live \ Listed) \in Nat
    <3>1. IsFiniteSet(Live)
      BY <1>1, ThreadsFinite, FS_Subset DEF IInv, ReviewTyped, Live
    <3> QED BY <3>1, FS_Difference, FS_CardinalityType
  <2>7. summary.analysedConvs = Cardinality(Live \ Listed)
    BY <2>2, <2>5, <2>6
  <2>8. summary.analysedConvs + summary.failed + summary.notStarted = summary.convs
    BY <2>2
  <2> QED BY <2>2, <2>4, <2>7, <2>8
<1> QED BY <1>1, Invariance, PTL

\* No message is the evidence of the same card twice, as long as review and
\* scan agree on what a conversation is (MergedCards).
THEOREM CardsAreReplaced == Spec => []NoCardTwice
<1>1. IInv => NoCardTwice
  BY DEF IInv
<1> QED BY <1>1, Invariance, PTL

\* What one step may take off the list of failures.
MayUnlist ==
  \A c \in Listed \ ConversationsOf(failed') :
     \/ c \notin {key'[m] : m \in messages'}
     \/ {m \in messages' : key'[m] = c} \subseteq read'
     \/ Cuts # {}

\* A result takes conversations off the list that it has covered.
LEMMA ResultUnlists ==
  ASSUME IInv, Closing, messages' = messages, key' = key,
         job.covered \subseteq read',
         NEW c \in job.scope, c \notin ConversationsOf(job.failed)
  PROVE  {m \in messages' : key'[m] = c} \subseteq read' \/ Cuts # {}
<1> SUFFICES ASSUME Cuts = {}, NEW m \in messages, key[m] = c PROVE m \in job.covered
  OBVIOUS
<1>1. Told
  BY NoCuts
<1>2. m \in Rescanned
  BY DEF Rescanned
<1> QED BY <1>1, <1>2 DEF Told

\* A conversation leaves the list only if it has been read, is gone, or the
\* scan was cut short (set_scan, merge_scan, remove_provider).
LEMMA StepUnlists == IInv /\ [Next]_vars => MayUnlist
<1> SUFFICES ASSUME IInv, [Next]_vars PROVE MayUnlist
  OBVIOUS
<1>1. CASE failed' = failed
  BY <1>1 DEF MayUnlist, Listed
<1>2. CASE EmptyReview
  BY <1>2 DEF MayUnlist, EmptyReview
<1>3. ASSUME NEW p \in Providers, DisableProvider(p)
      PROVE  MayUnlist
  <2> DEFINE kept == {m \in messages : ProviderOf[m] # p}
  <2>1. /\ messages' = kept /\ key' = [m \in kept |-> key[m]]
        /\ failed' = {f \in failed : f.conv \in {key[m] : m \in kept}}
    BY <1>3 DEF DisableProvider
  <2> HIDE DEF kept
  <2> SUFFICES ASSUME NEW c \in Listed \ ConversationsOf(failed')
               PROVE  c \notin {key'[m] : m \in messages'}
    BY DEF MayUnlist
  <2>2. PICK f \in failed : f.conv = c
    BY DEF Listed, ConversationsOf
  <2>3. f \notin failed'
    BY <2>2 DEF ConversationsOf
  <2>4. c \notin {key[m] : m \in kept}
    BY <2>1, <2>2, <2>3
  <2>5. \A m \in kept : key'[m] = key[m]
    BY <2>1
  <2> QED BY <2>1, <2>4, <2>5
<1>4. CASE set_scan
  <2>1. /\ Closing /\ messages' = messages /\ key' = key
        /\ job.kind = "full" /\ failed' = job.failed /\ read' = job.covered
    BY <1>4 DEF set_scan, Closing, Scanning
  <2>2. job.scope = Threads
    BY <2>1 DEF IInv, JobInv, FullJobs
  <2>3. Listed \subseteq Threads
    BY DEF IInv, ReviewTyped, Listings, Listed, ConversationsOf
  <2> QED BY <2>1, <2>2, <2>3, ResultUnlists DEF MayUnlist
<1>5. CASE merge_scan
  <2>1. /\ Closing /\ messages' = messages /\ key' = key
        /\ failed' = MergedEntries /\ job.covered \subseteq read'
    BY <1>5 DEF merge_scan, Closing, Scanning
  <2>2. \A c \in Listed \ ConversationsOf(failed') :
          c \in job.scope /\ c \notin ConversationsOf(job.failed)
    BY <2>1, MergedListing
  <2> QED BY <2>1, <2>2, ResultUnlists DEF MayUnlist
<1>6. ASSUME Next
      PROVE  \/ failed' = failed \/ EmptyReview
             \/ \E p \in Providers : DisableProvider(p)
             \/ set_scan \/ merge_scan
  <2>1. UserActs => \/ failed' = failed \/ EmptyReview
                    \/ \E p \in Providers : DisableProvider(p)
    BY DEF UserActs, ScanInboxes, Rescan, RetryFailed, UserStops, ClearResults,
           EnableProvider, review
  <2>2. JobActs => failed' = failed \/ set_scan \/ merge_scan
    BY DEF JobActs, MailArrives, CheckMailArrives, RetryMailArrives, RulesPhase,
           DecidePhase, PrimaryPhase, ScanFails, review
  <2> QED BY <1>6, <2>1, <2>2 DEF Next
<1>7. CASE UNCHANGED vars
  BY <1>1, <1>7 DEF vars
<1> QED BY <1>1, <1>2, <1>3, <1>4, <1>5, <1>6, <1>7

\* "Retry failed" and checks take a conversation off the list only if it has
\* been read, is gone, or the scan was cut short.
THEOREM FailuresStayListed == Spec => ListedUntilRead
<1>1. IInv /\ [Next]_vars =>
        [\A c \in Listed \ ConversationsOf(failed') :
            \/ c \notin {key'[m] : m \in messages'}
            \/ {m \in messages' : key'[m] = c} \subseteq read'
            \/ Cuts # {}]_vars
  BY StepUnlists DEF MayUnlist
<1> QED BY <1>1, Invariance, PTL DEF Spec, ListedUntilRead
=============================================================================
