---------------------------- MODULE ParallelPass -----------------------------
(***************************************************************************)
(* The worker pool every scan phase of the desktop runs its provider       *)
(* requests on (review_scan.rs: ParallelPass, run_jobs, run_worker,        *)
(* ScanProgress): scoped threads draw job indices from one atomic cursor,  *)
(* park while they are above an adaptive concurrency limit, re-check the   *)
(* stop and cancel flags before anything is sent, and report one outcome   *)
(* per claimed job.  The caller fills in the jobs nobody reached.          *)
(*                                                                         *)
(* Every load of a shared flag, every critical section and every atomic    *)
(* read-modify-write of run_worker is a step of its own.                   *)
(***************************************************************************)
EXTENDS Integers, FiniteSets, Sequences, JobOutcomes

CONSTANTS RequestedMax,   \* the ceiling handed to ParallelPass::new
          MaxParallelRequests,   \* MAX_PARALLEL_REQUESTS
          RaiseAfter,     \* RAISE_AFTER_SUCCESSES
          NumJobs,        \* jobs in one pass
          Rounds,         \* passes run over the same pool (primary, closure, ...)
          Offered         \* the replies the provider can give in this instance

ASSUME MaxAssumption    == RequestedMax \in Nat /\ MaxParallelRequests \in Nat \ {0}
ASSUME RaiseAssumption  == RaiseAfter \in Nat \ {0}
ASSUME JobsAssumption   == NumJobs \in Nat
ASSUME RoundsAssumption == Rounds \in Nat \ {0}
ASSUME OfferedAssumption == Offered \subseteq Replies

VARIABLES
  cursor,              \* next job index to hand out
  limiter,             \* [allowed, consecutive_successes]
  stop, cancel,        \* the pass's stop flag, the caller's cancel flag
  pc,                  \* where each worker thread is
  claimed,             \* the job index a worker holds
  outcome,             \* the outcome a worker is about to report
  conversation_index,  \* ScanProgress: requests started
  active_requests,     \* ScanProgress: workers with a running clock
  processed,           \* ScanProgress: conversations answered, over all passes
  done,                \* done[j]: outcomes reported for job j, in push order
  sent,                \* history: how often job j's content left in this pass
  round                \* 1 .. Rounds

progress == <<conversation_index, active_requests, processed>>
thread   == <<pc, claimed, outcome>>
vars     == <<cursor, limiter, stop, cancel, thread, progress, done, sent, round>>

Jobs == 0..(NumJobs - 1)

\* ParallelPass::new clamps the requested ceiling.
Max == IF RequestedMax < 1 THEN 1
       ELSE IF RequestedMax > MaxParallelRequests THEN MaxParallelRequests
       ELSE RequestedMax

\* run_jobs spawns no more threads than there are jobs.
Workers == 0..((IF Max < NumJobs THEN Max ELSE NumJobs) - 1)

------------------------------------------------------------------------------
(* The adaptive limiter. *)

\* Deviation: widening forgets the ceiling.
on_success_uncapped(l) ==
  IF l.consecutive_successes + 1 < RaiseAfter
  THEN [l EXCEPT !.consecutive_successes = @ + 1]
  ELSE [allowed |-> l.allowed + 1, consecutive_successes |-> 0]

on_success(l) ==
  LET raised == l.allowed + (IF l.allowed \div 4 > 1 THEN l.allowed \div 4 ELSE 1)
  IN IF l.consecutive_successes + 1 < RaiseAfter
     THEN [l EXCEPT !.consecutive_successes = @ + 1]
     ELSE [allowed |-> IF raised < Max THEN raised ELSE Max,
           consecutive_successes |-> 0]

\* Deviation: halving without the floor of one.
on_backoff_no_floor(l) == [allowed |-> l.allowed \div 2, consecutive_successes |-> 0]

on_backoff(l) ==
  [allowed |-> IF l.allowed \div 2 > 1 THEN l.allowed \div 2 ELSE 1,
   consecutive_successes |-> 0]

Halted == stop \/ cancel

------------------------------------------------------------------------------
Init ==
  /\ cursor = 0
  /\ limiter = [allowed |-> Max, consecutive_successes |-> 0]
  /\ stop = FALSE
  /\ cancel = FALSE
  /\ pc = [w \in Workers |-> "slot"]
  /\ claimed = [w \in Workers |-> 0]
  /\ outcome = [w \in Workers |-> NotStarted]
  /\ conversation_index = 0
  /\ active_requests = {}
  /\ processed = 0
  /\ done = [j \in Jobs |-> <<>>]
  /\ sent = [j \in Jobs |-> 0]
  /\ round = 1

At(w, here) == pc[w] = here
Goto(w, there) == pc' = [pc EXCEPT ![w] = there]
\* wake.notify_all: every thread parked on the condition variable re-checks;
\* the calling thread continues.
WakeWorkersAndGoto(w, there) ==
  pc' = [v \in Workers |-> IF v = w THEN there
                           ELSE IF pc[v] = "parked" THEN "slot" ELSE pc[v]]

\* Pushes one outcome of job j to the shared results.
Report(j, o) == done' = [done EXCEPT ![j] = Append(@, o)]

\* wait_for_slot: leave when the pass is over, enter when inside the allowed
\* concurrency, otherwise park on the condition variable.
LeaveAtSlot(w) ==
  /\ At(w, "slot")
  /\ Halted \/ cursor >= NumJobs
  /\ Goto(w, "exited")
  /\ UNCHANGED <<cursor, limiter, stop, cancel, claimed, outcome, progress, done, sent, round>>

EnterSlot(w) ==
  /\ At(w, "slot")
  /\ ~(Halted \/ cursor >= NumJobs)
  /\ Goto(w, IF w < limiter.allowed THEN "next" ELSE "parked")
  /\ UNCHANGED <<cursor, limiter, stop, cancel, claimed, outcome, progress, done, sent, round>>

\* wait_timeout expires after PARK_INTERVAL.
ParkTimeout(w) ==
  /\ At(w, "parked")
  /\ Goto(w, "slot")
  /\ UNCHANGED <<cursor, limiter, stop, cancel, claimed, outcome, progress, done, sent, round>>

\* next_job: the flags first, the fetch_add on the cursor afterwards.
NextJobCheck(w) ==
  /\ At(w, "next")
  /\ Goto(w, IF Halted THEN "exited" ELSE "fetch")
  /\ UNCHANGED <<cursor, limiter, stop, cancel, claimed, outcome, progress, done, sent, round>>

\* Deviation: the bound check drops the last index.
FetchAddOffByOne(w) ==
  /\ At(w, "fetch")
  /\ cursor' = cursor + 1
  /\ IF cursor + 1 < NumJobs
     THEN claimed' = [claimed EXCEPT ![w] = cursor] /\ Goto(w, "claimed")
     ELSE claimed' = claimed /\ Goto(w, "exited")
  /\ UNCHANGED <<limiter, stop, cancel, outcome, progress, done, sent, round>>

FetchAdd(w) ==
  /\ At(w, "fetch")
  /\ cursor' = cursor + 1
  /\ IF cursor < NumJobs
     THEN claimed' = [claimed EXCEPT ![w] = cursor] /\ Goto(w, "claimed")
     ELSE claimed' = claimed /\ Goto(w, "exited")
  /\ UNCHANGED <<limiter, stop, cancel, outcome, progress, done, sent, round>>

\* Deviation: reports NotStarted but carries on with the job.
PostClaimCheckFallsThrough(w) ==
  /\ At(w, "claimed")
  /\ IF Halted THEN Report(claimed[w], NotStarted) ELSE done' = done
  /\ Goto(w, "start")
  /\ UNCHANGED <<cursor, limiter, stop, cancel, claimed, outcome, progress, sent, round>>

\* The check right after the claim: report NotStarted and leave.
PostClaimCheck(w) ==
  /\ At(w, "claimed")
  /\ IF Halted
     THEN Report(claimed[w], NotStarted) /\ Goto(w, "exited")
     ELSE done' = done /\ Goto(w, "start")
  /\ UNCHANGED <<cursor, limiter, stop, cancel, claimed, outcome, progress, sent, round>>

\* progress.start_request, under the progress lock.
StartRequest(w) ==
  /\ At(w, "start")
  /\ conversation_index' = conversation_index + 1
  /\ active_requests' = active_requests \cup {w}
  /\ Goto(w, "check")
  /\ UNCHANGED <<cursor, limiter, stop, cancel, claimed, outcome, processed, done, sent, round>>

\* Deviation: no second look at the flags before the request leaves.
AdjacentCheckOmitted(w) ==
  /\ At(w, "check")
  /\ outcome' = [outcome EXCEPT ![w] = NotStarted]
  /\ Goto(w, "send")
  /\ UNCHANGED <<cursor, limiter, stop, cancel, claimed, progress, done, sent, round>>

\* The loads "deliberately adjacent to the invocation".
AdjacentCheck(w) ==
  /\ At(w, "check")
  /\ outcome' = [outcome EXCEPT ![w] = NotStarted]
  /\ Goto(w, IF Halted THEN "drop" ELSE "send")
  /\ UNCHANGED <<cursor, limiter, stop, cancel, claimed, progress, done, sent, round>>

\* job(index) is invoked: the content leaves.
SendRequest(w) ==
  /\ At(w, "send")
  /\ sent' = [sent EXCEPT ![claimed[w]] = @ + 1]
  /\ Goto(w, "running")
  /\ UNCHANGED <<cursor, limiter, stop, cancel, claimed, outcome, progress, done, round>>

\* The job returns an answer or an error, or panics and is caught.
JobReturns(w, r) ==
  /\ At(w, "running")
  /\ outcome' = [outcome EXCEPT ![w] = r]
  /\ Goto(w, IF r = "Panicked" THEN "drop" ELSE "signal")
  /\ UNCHANGED <<cursor, limiter, stop, cancel, claimed, progress, done, sent, round>>

SignalSuccess(w) ==
  /\ At(w, "signal")
  /\ job_signal(outcome[w]) = "Ok"
  /\ limiter' = on_success(limiter)
  /\ IF limiter.allowed < Max /\ limiter'.consecutive_successes = 0
     THEN WakeWorkersAndGoto(w, "drop")
     ELSE Goto(w, "drop")
  /\ UNCHANGED <<cursor, stop, cancel, claimed, outcome, progress, done, sent, round>>

SignalBackoff(w) ==
  /\ At(w, "signal")
  /\ job_signal(outcome[w]) = "Backoff"
  /\ limiter' = on_backoff(limiter)
  /\ WakeWorkersAndGoto(w, "drop")
  /\ UNCHANGED <<cursor, stop, cancel, claimed, outcome, progress, done, sent, round>>

SignalStop(w) ==
  /\ At(w, "signal")
  /\ job_signal(outcome[w]) = "Stop"
  /\ stop' = TRUE
  /\ WakeWorkersAndGoto(w, "drop")
  /\ UNCHANGED <<cursor, limiter, cancel, claimed, outcome, progress, done, sent, round>>

\* InFlightGuard::drop: finish_request under the progress lock, then a wake.
DropGuard(w) ==
  /\ At(w, "drop")
  /\ active_requests' = active_requests \ {w}
  /\ IF outcome[w] = NotStarted
     THEN /\ conversation_index' = IF conversation_index > 0 THEN conversation_index - 1 ELSE 0
          /\ UNCHANGED processed
     ELSE /\ processed' = processed + 1
          /\ UNCHANGED conversation_index
  /\ WakeWorkersAndGoto(w, "push")
  /\ UNCHANGED <<cursor, limiter, stop, cancel, claimed, outcome, done, sent, round>>

\* Deviation: a rate-limited job is handed out again.
PushOutcomeRequeues(w) ==
  /\ At(w, "push")
  /\ Report(claimed[w], outcome[w])
  /\ cursor' = IF outcome[w] = "RateLimited" THEN claimed[w] ELSE cursor
  /\ Goto(w, "slot")
  /\ UNCHANGED <<limiter, stop, cancel, claimed, outcome, progress, sent, round>>

PushOutcome(w) ==
  /\ At(w, "push")
  /\ Report(claimed[w], outcome[w])
  /\ Goto(w, "slot")
  /\ UNCHANGED <<cursor, limiter, stop, cancel, claimed, outcome, progress, sent, round>>

\* The user stops the scan; the flag is set without notifying the pool.
UserCancel ==
  /\ cancel = FALSE
  /\ cancel' = TRUE
  /\ UNCHANGED <<cursor, limiter, stop, thread, progress, done, sent, round>>

Joined == \A w \in Workers : At(w, "exited")
Missing == {j \in Jobs : done[j] = <<>>}

\* After the join the caller adds NotStarted for every index without an outcome.
FillMissing ==
  /\ Joined
  /\ Missing # {}
  /\ done' = [j \in Jobs |-> IF j \in Missing THEN <<NotStarted>> ELSE done[j]]
  /\ UNCHANGED <<cursor, limiter, stop, cancel, thread, progress, sent, round>>

\* The caller merged the outcomes, reset the started count and restarts the
\* pool for the next pass: the limiter keeps what it learned.
Restart ==
  /\ Joined
  /\ Missing = {}
  /\ round < Rounds
  /\ round' = round + 1
  /\ cursor' = 0
  /\ stop' = FALSE
  /\ conversation_index' = 0
  /\ pc' = [w \in Workers |-> "slot"]
  /\ claimed' = [w \in Workers |-> 0]
  /\ outcome' = [w \in Workers |-> NotStarted]
  /\ done' = [j \in Jobs |-> <<>>]
  /\ sent' = [j \in Jobs |-> 0]
  /\ UNCHANGED <<limiter, cancel, active_requests, processed>>

\* The last pass was merged.
Finished == Joined /\ Missing = {} /\ round = Rounds /\ UNCHANGED vars

Worker(w) ==
  \/ LeaveAtSlot(w) \/ EnterSlot(w) \/ ParkTimeout(w)
  \/ NextJobCheck(w) \/ FetchAdd(w) \/ PostClaimCheck(w)
  \/ StartRequest(w) \/ AdjacentCheck(w) \/ SendRequest(w)
  \/ \E r \in Offered : JobReturns(w, r)
  \/ SignalSuccess(w) \/ SignalBackoff(w) \/ SignalStop(w)
  \/ DropGuard(w) \/ PushOutcome(w)

Next == (\E w \in Workers : Worker(w)) \/ UserCancel \/ FillMissing \/ Restart \/ Finished

Spec == Init /\ [][Next]_vars

\* Threads are scheduled and every request has a deadline, so each worker and
\* the caller after the join make progress; the user need never cancel.
FairSpec == Spec /\ (\A w \in Workers : WF_vars(Worker(w))) /\ WF_vars(FillMissing \/ Restart)

------------------------------------------------------------------------------
Points == {"slot", "parked", "next", "fetch", "claimed", "start", "check", "send",
           "running", "signal", "drop", "push", "exited"}

\* Where a worker owns the job index it fetched.
Holding == {"claimed", "start", "check", "send", "running", "signal", "drop", "push"}
Holds(w, j) == pc[w] \in Holding /\ claimed[w] = j

\* The request of worker w has left (or is the one about to report).
HasSent(w) == \/ pc[w] \in {"running", "signal"}
              \/ (pc[w] \in {"drop", "push"} /\ outcome[w] # NotStarted)

\* TypeOK: every variable has its type; in particular the limiter never falls
\* to zero and never exceeds the pass's ceiling (LimiterState).
TypeOK ==
  /\ cursor \in Nat
  /\ limiter \in [allowed : 1..Max, consecutive_successes : 0..(RaiseAfter - 1)]
  /\ stop \in BOOLEAN
  /\ cancel \in BOOLEAN
  /\ pc \in [Workers -> Points]
  /\ claimed \in [Workers -> Nat]
  /\ outcome \in [Workers -> Outcomes]
  /\ conversation_index \in Nat
  /\ active_requests \subseteq Workers
  /\ processed \in Nat
  /\ done \in [Jobs -> Seq(Outcomes)]
  /\ sent \in [Jobs -> Nat]
  /\ round \in 1..Rounds

\* A request that carried content is never sent again (network_policy.retries):
\* whatever the interleaving of cursor, flags and limiter, no job's content
\* leaves twice in one pass.
NothingResent == \A j \in Jobs : sent[j] <= 1

\* Every job is reported at most once, and it is reported as answered exactly
\* when its content left: no answer is lost and no unsent job looks answered
\* (run_worker's two NotStarted exits against its single push).
ReportedIffSent ==
  \A j \in Jobs :
    /\ Len(done[j]) <= 1
    /\ done[j] # <<>> => ((sent[j] = 1) <=> (done[j][1] # NotStarted))
    /\ Joined /\ sent[j] = 1 => done[j] # <<>>

\* A pass that nobody stopped leaves no conversation behind: when every worker
\* has gone and neither flag is up, each job was sent (wait_for_slot's exits,
\* also those of workers narrowed out of their slot).
NothingLeftBehind == Joined /\ ~Halted => \A j \in Jobs : sent[j] = 1

\* PoolInv: the inductive form of the three properties above.  A fetched index
\* has exactly one owner until it is reported (fetch_add hands it out once);
\* its send count follows the owner's program point; NotStarted is only ever
\* reported, and a worker only ever leaves, once the pass is over.
OneOwner ==
  \A w \in Workers : pc[w] \in Holding =>
    /\ claimed[w] \in Jobs
    /\ claimed[w] < cursor
    /\ done[claimed[w]] = <<>>
    /\ sent[claimed[w]] = (IF HasSent(w) THEN 1 ELSE 0)
    /\ \A v \in Workers \ {w} : ~Holds(v, claimed[w])
JobsAccounted ==
  \A j \in Jobs :
    /\ done[j] = <<>> /\ j < cursor => \E w \in Workers : Holds(w, j)
    /\ j >= cursor => sent[j] = 0
    /\ j >= cursor => done[j] = <<>> \/ Joined
    /\ done[j] # <<>> =>
         \E o \in Outcomes : /\ done[j] = <<o>>
                             /\ sent[j] = (IF o = NotStarted THEN 0 ELSE 1)
                             /\ o = NotStarted => Halted
UnsentOnlyWhenHalted ==
  \A w \in Workers :
    /\ pc[w] = "exited" => Halted \/ cursor >= NumJobs
    /\ pc[w] = "signal" => outcome[w] \in Completions
    /\ pc[w] \in {"drop", "push"} /\ outcome[w] = NotStarted => Halted
PoolInv == OneOwner /\ JobsAccounted /\ UnsentOnlyWhenHalted

\* Every scan ends: under fair threads and answered requests all passes are
\* merged, even when a parked worker is never notified (user cancel).
ScanEnds == <>(Joined /\ Missing = {} /\ round = Rounds)

\* What the caller sees is the abstract pool of JobPool.
PoolJob(j) ==
  IF Len(done[j]) > 1 THEN "reported twice"
  ELSE IF done[j] # <<>> THEN done[j][1]
  ELSE IF \E w \in Workers : Holds(w, j) /\ pc[w] \in {"send", "running"} THEN "sent"
  ELSE IF \E w \in Workers : Holds(w, j) /\ HasSent(w)
       THEN outcome[CHOOSE w \in Workers : Holds(w, j) /\ HasSent(w)]
  ELSE "queued"

Pool == INSTANCE JobPool WITH job <- [j \in Jobs |-> PoolJob(j)], halted <- Halted

\* run_jobs and its caller implement the pool: nothing is committed to leave
\* once the pass is stopped or cancelled, jobs are given up only then, and an
\* outcome, once reported, is final.
ImplementsJobPool == Pool!Spec
==============================================================================
