------------------------- MODULE ParallelPass_proofs -------------------------
(***************************************************************************)
(* Theorems about the worker pool, for every ceiling, number of jobs,      *)
(* number of passes and set of replies, and that it implements JobPool.    *)
(***************************************************************************)
EXTENDS ParallelPass, TLAPS

USE MaxAssumption, RaiseAssumption, JobsAssumption, RoundsAssumption, OfferedAssumption

\* The ceiling of a pass is at least one.
LEMMA MaxType == Max \in Nat /\ Max >= 1
  BY DEF Max

\* The limiter's two transitions keep it between one and the ceiling.
LEMMA LimiterType ==
  ASSUME NEW l \in [allowed : 1..Max, consecutive_successes : 0..(RaiseAfter - 1)]
  PROVE  /\ on_success(l) \in [allowed : 1..Max, consecutive_successes : 0..(RaiseAfter - 1)]
         /\ on_backoff(l) \in [allowed : 1..Max, consecutive_successes : 0..(RaiseAfter - 1)]
<1>1. l.allowed \in 1..Max /\ l.consecutive_successes \in 0..(RaiseAfter - 1)
  OBVIOUS
<1>2. Max \in Nat /\ Max >= 1
  BY MaxType
<1>3. on_success(l) \in [allowed : 1..Max, consecutive_successes : 0..(RaiseAfter - 1)]
  <2>1. CASE l.consecutive_successes + 1 < RaiseAfter
    BY <1>1, <1>2, <2>1 DEF on_success
  <2>2. CASE ~(l.consecutive_successes + 1 < RaiseAfter)
    BY <1>1, <1>2, <2>2 DEF on_success
  <2> QED BY <2>1, <2>2
<1>4. on_backoff(l) \in [allowed : 1..Max, consecutive_successes : 0..(RaiseAfter - 1)]
  BY <1>1, <1>2 DEF on_backoff
<1> QED BY <1>3, <1>4

\* A function changed at one point keeps its type.
LEMMA UpdateType ==
  ASSUME NEW S, NEW T, NEW f \in [S -> T], NEW x \in S, NEW y \in T
  PROVE  [f EXCEPT ![x] = y] \in [S -> T]
  OBVIOUS

\* A pass starts with no reports.
LEMMA NoReports == [j \in Jobs |-> <<>>] \in [Jobs -> Seq(Outcomes)]
<1>1. <<>> \in Seq(Outcomes)
  OBVIOUS
<1> QED BY <1>1

\* A pushed outcome keeps the type of the reports.
LEMMA ReportType ==
  ASSUME NEW f \in [Jobs -> Seq(Outcomes)], NEW j, NEW o \in Outcomes
  PROVE  [f EXCEPT ![j] = Append(@, o)] \in [Jobs -> Seq(Outcomes)]
<1>1. ASSUME NEW s \in Seq(Outcomes) PROVE Append(s, o) \in Seq(Outcomes)
  OBVIOUS
<1> QED BY <1>1

\* A counted send keeps the type of the counts.
LEMMA CountType ==
  ASSUME NEW f \in [Jobs -> Nat], NEW j
  PROVE  [f EXCEPT ![j] = @ + 1] \in [Jobs -> Nat]
<1>1. CASE j \in Jobs
  BY <1>1
<1>2. CASE j \notin Jobs
  BY <1>2
<1> QED BY <1>1, <1>2

\* Spec => []TypeOK: in particular the adaptive limiter always allows at least
\* one request and never more than the ceiling the pass was created with.
THEOREM TypeCorrect == Spec => []TypeOK
<1>1. Init => TypeOK
  <2> SUFFICES ASSUME Init PROVE TypeOK
    OBVIOUS
  <2>1. limiter \in [allowed : 1..Max, consecutive_successes : 0..(RaiseAfter - 1)]
    BY MaxType DEF Init
  <2>2. pc \in [Workers -> Points] /\ outcome \in [Workers -> Outcomes]
    BY DEF Init, Points, Outcomes
  <2>3. claimed \in [Workers -> Nat] /\ sent \in [Jobs -> Nat] /\ round \in 1..Rounds
    BY DEF Init
  <2> QED BY <2>1, <2>2, <2>3, NoReports DEF Init, TypeOK
<1>2. TypeOK /\ [Next]_vars => TypeOK'
  <2> SUFFICES ASSUME TypeOK, [Next]_vars PROVE TypeOK'
    OBVIOUS
  <2> USE DEF TypeOK, Points, At, Goto, progress, thread
  <2>1. ASSUME NEW w \in Workers, LeaveAtSlot(w) PROVE TypeOK'
    BY <2>1 DEF LeaveAtSlot
  <2>2. ASSUME NEW w \in Workers, EnterSlot(w) PROVE TypeOK'
    BY <2>2 DEF EnterSlot
  <2>3. ASSUME NEW w \in Workers, ParkTimeout(w) PROVE TypeOK'
    BY <2>3 DEF ParkTimeout
  <2>4. ASSUME NEW w \in Workers, NextJobCheck(w) PROVE TypeOK'
    BY <2>4 DEF NextJobCheck
  <2>5. ASSUME NEW w \in Workers, FetchAdd(w) PROVE TypeOK'
    <3>1. pc' \in [Workers -> Points]
      <4>1. CASE cursor < NumJobs
        BY <2>5, <4>1 DEF FetchAdd
      <4>2. CASE ~(cursor < NumJobs)
        BY <2>5, <4>2 DEF FetchAdd
      <4> QED BY <4>1, <4>2
    <3>2. claimed' \in [Workers -> Nat] /\ cursor' \in Nat
      <4>1. CASE cursor < NumJobs
        <5>1. claimed' = [claimed EXCEPT ![w] = cursor]
          BY <2>5, <4>1 DEF FetchAdd
        <5>2. cursor' \in Nat
          BY <2>5 DEF FetchAdd
        <5> QED BY <5>1, <5>2, UpdateType
      <4>2. CASE ~(cursor < NumJobs)
        BY <2>5, <4>2 DEF FetchAdd
      <4> QED BY <4>1, <4>2
    <3> HIDE DEF Points
    <3> QED BY <2>5, <3>1, <3>2 DEF FetchAdd
  <2>6. ASSUME NEW w \in Workers, PostClaimCheck(w) PROVE TypeOK'
    <3>1. done' \in [Jobs -> Seq(Outcomes)]
      <4>1. NotStarted \in Outcomes
        BY DEF Outcomes
      <4>2. CASE Halted
        <5>1. done' = [done EXCEPT ![claimed[w]] = Append(@, NotStarted)]
          BY <2>6, <4>2 DEF PostClaimCheck, Report
        <5> QED BY <4>1, <5>1, ReportType
      <4>3. CASE ~Halted
        BY <2>6, <4>3 DEF PostClaimCheck
      <4> QED BY <4>2, <4>3
    <3> QED BY <2>6, <3>1 DEF PostClaimCheck
  <2>7. ASSUME NEW w \in Workers, StartRequest(w) PROVE TypeOK'
    BY <2>7 DEF StartRequest
  <2>8. ASSUME NEW w \in Workers, AdjacentCheck(w) PROVE TypeOK'
    BY <2>8 DEF AdjacentCheck, Outcomes
  <2>9. ASSUME NEW w \in Workers, SendRequest(w) PROVE TypeOK'
    BY <2>9, CountType DEF SendRequest
  <2>10. ASSUME NEW w \in Workers, NEW r \in Offered, JobReturns(w, r) PROVE TypeOK'
    BY <2>10 DEF JobReturns, Outcomes
  <2>11. ASSUME NEW w \in Workers, SignalSuccess(w) PROVE TypeOK'
    <3>1. limiter' \in [allowed : 1..Max, consecutive_successes : 0..(RaiseAfter - 1)]
      BY <2>11, LimiterType DEF SignalSuccess
    <3> QED BY <2>11, <3>1 DEF SignalSuccess, WakeWorkersAndGoto
  <2>12. ASSUME NEW w \in Workers, SignalBackoff(w) PROVE TypeOK'
    <3>1. limiter' \in [allowed : 1..Max, consecutive_successes : 0..(RaiseAfter - 1)]
      BY <2>12, LimiterType DEF SignalBackoff
    <3> QED BY <2>12, <3>1 DEF SignalBackoff, WakeWorkersAndGoto
  <2>13. ASSUME NEW w \in Workers, SignalStop(w) PROVE TypeOK'
    BY <2>13 DEF SignalStop, WakeWorkersAndGoto
  <2>14. ASSUME NEW w \in Workers, DropGuard(w) PROVE TypeOK'
    BY <2>14 DEF DropGuard, WakeWorkersAndGoto
  <2>15. ASSUME NEW w \in Workers, PushOutcome(w) PROVE TypeOK'
    <3>1. done' \in [Jobs -> Seq(Outcomes)]
      BY <2>15, ReportType DEF PushOutcome, Report
    <3> QED BY <2>15, <3>1 DEF PushOutcome
  <2>16. CASE UserCancel
    BY <2>16 DEF UserCancel
  <2>17. CASE FillMissing
    <3>1. <<NotStarted>> \in Seq(Outcomes)
      BY DEF Outcomes
    <3> QED BY <2>17, <3>1 DEF FillMissing
  <2>18. CASE Restart
    <3>1. outcome' \in [Workers -> Outcomes]
      BY <2>18 DEF Restart, Outcomes
    <3>2. /\ cursor' \in Nat
          /\ pc' \in [Workers -> Points]
          /\ claimed' \in [Workers -> Nat]
          /\ sent' \in [Jobs -> Nat]
          /\ round' \in 1..Rounds
      BY <2>18 DEF Restart
    <3>3. done' \in [Jobs -> Seq(Outcomes)]
      BY <2>18, NoReports DEF Restart
    <3> QED BY <2>18, <3>1, <3>2, <3>3 DEF Restart
  <2>19. CASE UNCHANGED vars
    BY <2>19 DEF vars
  <2> QED
    BY <2>1, <2>2, <2>3, <2>4, <2>5, <2>6, <2>7, <2>8, <2>9, <2>10, <2>11, <2>12,
       <2>13, <2>14, <2>15, <2>16, <2>17, <2>18, <2>19
    DEF Next, Worker, Finished
<1> QED BY <1>1, <1>2, PTL DEF Spec

------------------------------------------------------------------------------
(* The inductive invariant.  Most steps only move one worker between two     *)
(* points that agree on who owns which job and on what has left.             *)

\* A job that was not started is told apart from every reply.
LEMMA UnsentIsNoReply == NotStarted \notin Replies /\ Completions \subseteq Replies
  BY DEF NotStarted, Replies, Completions, ProviderErrors

QuietFor(v) ==
  /\ pc'[v] \in Holding <=> pc[v] \in Holding
  /\ pc[v] \in Holding => (HasSent(v)' <=> HasSent(v))
  /\ pc[v] = "exited" => pc'[v] = "exited"
  /\ pc'[v] = "exited" => Halted' \/ cursor >= NumJobs
  /\ pc'[v] = "signal" => outcome'[v] \in Completions
  /\ pc'[v] \in {"drop", "push"} /\ outcome'[v] = NotStarted => Halted'

\* A step that claims, sends and reports nothing preserves the pool invariant.
LEMMA QuietStep ==
  ASSUME TypeOK, TypeOK', PoolInv,
         UNCHANGED <<cursor, claimed, done, sent>>,
         Halted => Halted',
         \A v \in Workers : QuietFor(v)
  PROVE  PoolInv'
<1>1. OneOwner'
  <2> SUFFICES ASSUME NEW w \in Workers, pc'[w] \in Holding
               PROVE  /\ claimed[w] \in Jobs
                      /\ claimed[w] < cursor
                      /\ done[claimed[w]] = <<>>
                      /\ sent[claimed[w]] = (IF HasSent(w)' THEN 1 ELSE 0)
                      /\ \A v \in Workers \ {w} : ~Holds(v, claimed[w])'
    BY DEF OneOwner
  <2>1. pc[w] \in Holding /\ (HasSent(w)' <=> HasSent(w))
    BY DEF QuietFor
  <2>2. \A v \in Workers \ {w} : ~Holds(v, claimed[w])'
    BY <2>1 DEF QuietFor, Holds, PoolInv, OneOwner
  <2> QED BY <2>1, <2>2 DEF PoolInv, OneOwner
<1>2. JobsAccounted'
  <2> SUFFICES ASSUME NEW j \in Jobs
               PROVE  /\ done[j] = <<>> /\ j < cursor => \E w \in Workers : Holds(w, j)'
                      /\ j >= cursor => sent[j] = 0
                      /\ j >= cursor => done[j] = <<>> \/ Joined'
                      /\ done[j] # <<>> =>
                           \E o \in Outcomes : /\ done[j] = <<o>>
                                               /\ sent[j] = (IF o = NotStarted THEN 0 ELSE 1)
                                               /\ o = NotStarted => Halted'
    BY DEF JobsAccounted
  <2>1. done[j] = <<>> /\ j < cursor => \E w \in Workers : Holds(w, j)'
    BY DEF PoolInv, JobsAccounted, QuietFor, Holds
  <2>2. Joined => Joined'
    BY DEF Joined, At, QuietFor
  <2> QED BY <2>1, <2>2 DEF PoolInv, JobsAccounted
<1>3. UnsentOnlyWhenHalted'
  BY DEF QuietFor, UnsentOnlyWhenHalted
<1> QED BY <1>1, <1>2, <1>3 DEF PoolInv

\* A worker that gives up its job with one outcome.
LEMMA ReportStep ==
  ASSUME TypeOK, PoolInv,
         NEW w \in Workers, pc[w] \in Holding,
         NEW o \in Outcomes, o # NotStarted <=> HasSent(w), o = NotStarted => Halted,
         NEW there \in {"slot", "exited"}, there = "exited" => Halted,
         pc' = [pc EXCEPT ![w] = there],
         done' = [done EXCEPT ![claimed[w]] = Append(@, o)],
         UNCHANGED <<cursor, stop, cancel, claimed, outcome, sent>>
  PROVE  PoolInv'
<1> DEFINE c == claimed[w]
<1>1. c \in Jobs /\ c < cursor /\ done[c] = <<>>
      /\ sent[c] = (IF o = NotStarted THEN 0 ELSE 1)
      /\ \A v \in Workers \ {w} : ~Holds(v, c)
  BY DEF PoolInv, OneOwner
<1>2. done'[c] = <<o>> /\ \A j \in Jobs \ {c} : done'[j] = done[j]
  <2>1. Append(<<>>, o) = <<o>>
    OBVIOUS
  <2> QED BY <1>1, <2>1 DEF TypeOK
<1>3. pc'[w] = there /\ pc'[w] \notin Holding /\ \A v \in Workers \ {w} : pc'[v] = pc[v]
  BY DEF TypeOK, Holding
<1>4. Halted' = Halted
  BY DEF Halted
<1>5. OneOwner'
  <2> SUFFICES ASSUME NEW v \in Workers, pc'[v] \in Holding
               PROVE  /\ claimed[v] \in Jobs
                      /\ claimed[v] < cursor
                      /\ done'[claimed[v]] = <<>>
                      /\ sent[claimed[v]] = (IF HasSent(v)' THEN 1 ELSE 0)
                      /\ \A u \in Workers \ {v} : ~Holds(u, claimed[v])'
    BY DEF OneOwner
  <2>1. v # w /\ pc[v] \in Holding
    BY <1>3
  <2>2. HasSent(v)' <=> HasSent(v)
    BY <1>3, <2>1 DEF HasSent
  <2>3. claimed[v] # c
    BY <1>1, <2>1 DEF Holds
  <2>4. \A u \in Workers \ {v} : ~Holds(u, claimed[v])'
    BY <1>3, <2>1 DEF Holds, PoolInv, OneOwner
  <2> QED BY <1>2, <2>1, <2>2, <2>3, <2>4 DEF PoolInv, OneOwner
<1>6. JobsAccounted'
  <2> SUFFICES ASSUME NEW j \in Jobs
               PROVE  /\ done'[j] = <<>> /\ j < cursor => \E v \in Workers : Holds(v, j)'
                      /\ j >= cursor => sent[j] = 0
                      /\ j >= cursor => done'[j] = <<>> \/ Joined'
                      /\ done'[j] # <<>> =>
                           \E q \in Outcomes : /\ done'[j] = <<q>>
                                               /\ sent[j] = (IF q = NotStarted THEN 0 ELSE 1)
                                               /\ q = NotStarted => Halted'
    BY DEF JobsAccounted
  <2>1. CASE j = c
    <3>1. done'[j] # <<>>
      BY <1>2, <2>1
    <3>2. ~(j >= cursor)
      BY <1>1, <2>1 DEF TypeOK, Jobs
    <3> QED BY <1>1, <1>2, <1>4, <2>1, <3>1, <3>2
  <2>2. CASE j # c
    <3>1. done'[j] = done[j]
      BY <1>2, <2>2
    <3>2. \A v \in Workers : Holds(v, j) => Holds(v, j)'
      BY <1>1, <1>3, <2>2 DEF Holds
    <3>3. ~Joined
      BY DEF Joined, At, Holding
    <3> QED BY <1>4, <3>1, <3>2, <3>3 DEF PoolInv, JobsAccounted
  <2> QED BY <2>1, <2>2
<1>7. UnsentOnlyWhenHalted'
  BY <1>3, <1>4 DEF UnsentOnlyWhenHalted, PoolInv
<1> QED BY <1>5, <1>6, <1>7 DEF PoolInv

\* Spec => []PoolInv, the inductive invariant behind the two theorems below.
THEOREM PoolInvariant == Spec => []PoolInv
<1>1. Init => PoolInv
  <2> SUFFICES ASSUME Init PROVE PoolInv
    OBVIOUS
  <2>1. \A w \in Workers : pc[w] = "slot"
    BY DEF Init
  <2>2. OneOwner
    BY <2>1 DEF OneOwner, Holding
  <2>3. JobsAccounted
    BY DEF Init, JobsAccounted, Jobs
  <2>4. UnsentOnlyWhenHalted
    BY <2>1 DEF UnsentOnlyWhenHalted
  <2> QED BY <2>2, <2>3, <2>4 DEF PoolInv
<1>2. TypeOK /\ TypeOK' /\ PoolInv /\ [Next]_vars => PoolInv'
  <2> SUFFICES ASSUME TypeOK, TypeOK', PoolInv, [Next]_vars PROVE PoolInv'
    OBVIOUS
  <2>1. ASSUME NEW w \in Workers, LeaveAtSlot(w) PROVE PoolInv'
    <3>1. UNCHANGED <<cursor, claimed, done, sent>> /\ (Halted => Halted')
      BY <2>1 DEF LeaveAtSlot, Halted, progress
    <3>2. \A v \in Workers : QuietFor(v)
      BY <2>1 DEF LeaveAtSlot, At, Goto, TypeOK, QuietFor, Holding, HasSent, Halted, progress,
                PoolInv, UnsentOnlyWhenHalted
    <3> QED BY <3>1, <3>2, QuietStep
  <2>2. ASSUME NEW w \in Workers, EnterSlot(w) PROVE PoolInv'
    <3>1. UNCHANGED <<cursor, claimed, done, sent>> /\ (Halted => Halted')
      BY <2>2 DEF EnterSlot, Halted, progress
    <3>2. \A v \in Workers : QuietFor(v)
      BY <2>2 DEF EnterSlot, At, Goto, TypeOK, QuietFor, Holding, HasSent, Halted, progress,
                PoolInv, UnsentOnlyWhenHalted
    <3> QED BY <3>1, <3>2, QuietStep
  <2>3. ASSUME NEW w \in Workers, ParkTimeout(w) PROVE PoolInv'
    <3>1. UNCHANGED <<cursor, claimed, done, sent>> /\ (Halted => Halted')
      BY <2>3 DEF ParkTimeout, Halted, progress
    <3>2. \A v \in Workers : QuietFor(v)
      BY <2>3 DEF ParkTimeout, At, Goto, TypeOK, QuietFor, Holding, HasSent, Halted, progress,
                PoolInv, UnsentOnlyWhenHalted
    <3> QED BY <3>1, <3>2, QuietStep
  <2>4. ASSUME NEW w \in Workers, NextJobCheck(w) PROVE PoolInv'
    <3>1. UNCHANGED <<cursor, claimed, done, sent>> /\ (Halted => Halted')
      BY <2>4 DEF NextJobCheck, Halted, progress
    <3>2. \A v \in Workers : QuietFor(v)
      BY <2>4 DEF NextJobCheck, At, Goto, TypeOK, QuietFor, Holding, HasSent, Halted, progress,
                PoolInv, UnsentOnlyWhenHalted
    <3> QED BY <3>1, <3>2, QuietStep
  <2>5. ASSUME NEW w \in Workers, StartRequest(w) PROVE PoolInv'
    <3>1. UNCHANGED <<cursor, claimed, done, sent>> /\ (Halted => Halted')
      BY <2>5 DEF StartRequest, Halted, progress
    <3>2. \A v \in Workers : QuietFor(v)
      BY <2>5 DEF StartRequest, At, Goto, TypeOK, QuietFor, Holding, HasSent, Halted, progress,
                PoolInv, UnsentOnlyWhenHalted
    <3> QED BY <3>1, <3>2, QuietStep
  <2>6. ASSUME NEW w \in Workers, AdjacentCheck(w) PROVE PoolInv'
    <3>1. UNCHANGED <<cursor, claimed, done, sent>> /\ (Halted => Halted')
      BY <2>6 DEF AdjacentCheck, Halted, progress
    <3>2. \A v \in Workers : QuietFor(v)
      BY <2>6 DEF AdjacentCheck, At, Goto, TypeOK, QuietFor, Holding, HasSent, Halted, progress,
                PoolInv, UnsentOnlyWhenHalted
    <3> QED BY <3>1, <3>2, QuietStep
  <2>7. ASSUME NEW w \in Workers, SignalSuccess(w) PROVE PoolInv'
    <3>1. UNCHANGED <<cursor, claimed, done, sent>> /\ (Halted => Halted')
      BY <2>7 DEF SignalSuccess, Halted, progress
    <3>2. \A v \in Workers : QuietFor(v)
      <4> SUFFICES ASSUME NEW v \in Workers PROVE QuietFor(v)
        OBVIOUS
      <4>1. CASE v = w
        BY <2>7, <4>1 DEF SignalSuccess, WakeWorkersAndGoto, At, Goto, TypeOK, QuietFor, Holding, HasSent,
                    PoolInv, UnsentOnlyWhenHalted, NotStarted, Completions, ProviderErrors
      <4>2. CASE v # w
        <5>1. pc'[v] = pc[v] \/ (pc[v] = "parked" /\ pc'[v] = "slot")
          BY <2>7, <4>2 DEF SignalSuccess, WakeWorkersAndGoto, Goto, TypeOK
        <5> QED BY <2>7, <3>1, <4>2, <5>1 DEF SignalSuccess, QuietFor, Holding, HasSent,
                    PoolInv, UnsentOnlyWhenHalted
      <4> QED BY <4>1, <4>2
    <3> QED BY <3>1, <3>2, QuietStep
  <2>8. ASSUME NEW w \in Workers, SignalBackoff(w) PROVE PoolInv'
    <3>1. UNCHANGED <<cursor, claimed, done, sent>> /\ (Halted => Halted')
      BY <2>8 DEF SignalBackoff, Halted, progress
    <3>2. \A v \in Workers : QuietFor(v)
      <4> SUFFICES ASSUME NEW v \in Workers PROVE QuietFor(v)
        OBVIOUS
      <4>1. CASE v = w
        BY <2>8, <4>1 DEF SignalBackoff, WakeWorkersAndGoto, At, Goto, TypeOK, QuietFor, Holding, HasSent,
                    PoolInv, UnsentOnlyWhenHalted, NotStarted, Completions, ProviderErrors
      <4>2. CASE v # w
        <5>1. pc'[v] = pc[v] \/ (pc[v] = "parked" /\ pc'[v] = "slot")
          BY <2>8, <4>2 DEF SignalBackoff, WakeWorkersAndGoto, Goto, TypeOK
        <5> QED BY <2>8, <3>1, <4>2, <5>1 DEF SignalBackoff, QuietFor, Holding, HasSent,
                    PoolInv, UnsentOnlyWhenHalted
      <4> QED BY <4>1, <4>2
    <3> QED BY <3>1, <3>2, QuietStep
  <2>9. ASSUME NEW w \in Workers, SignalStop(w) PROVE PoolInv'
    <3>1. UNCHANGED <<cursor, claimed, done, sent>> /\ (Halted => Halted')
      BY <2>9 DEF SignalStop, Halted, progress
    <3>2. \A v \in Workers : QuietFor(v)
      <4> SUFFICES ASSUME NEW v \in Workers PROVE QuietFor(v)
        OBVIOUS
      <4>1. CASE v = w
        BY <2>9, <4>1 DEF SignalStop, WakeWorkersAndGoto, At, Goto, TypeOK, QuietFor, Holding, HasSent,
                    PoolInv, UnsentOnlyWhenHalted, NotStarted, Completions, ProviderErrors
      <4>2. CASE v # w
        <5>1. pc'[v] = pc[v] \/ (pc[v] = "parked" /\ pc'[v] = "slot")
          BY <2>9, <4>2 DEF SignalStop, WakeWorkersAndGoto, Goto, TypeOK
        <5> QED BY <2>9, <3>1, <4>2, <5>1 DEF SignalStop, QuietFor, Holding, HasSent,
                    PoolInv, UnsentOnlyWhenHalted
      <4> QED BY <4>1, <4>2
    <3> QED BY <3>1, <3>2, QuietStep
  <2>10. ASSUME NEW w \in Workers, DropGuard(w) PROVE PoolInv'
    <3>1. UNCHANGED <<cursor, claimed, done, sent>> /\ (Halted => Halted')
      BY <2>10 DEF DropGuard, Halted, progress
    <3>2. \A v \in Workers : QuietFor(v)
      BY <2>10 DEF DropGuard, WakeWorkersAndGoto, At, Goto, TypeOK, QuietFor, Holding, HasSent, Halted, progress,
                PoolInv, UnsentOnlyWhenHalted
    <3> QED BY <3>1, <3>2, QuietStep
  <2>11. ASSUME NEW w \in Workers, NEW r \in Offered, JobReturns(w, r) PROVE PoolInv'
    <3>1. UNCHANGED <<cursor, claimed, done, sent>> /\ (Halted => Halted')
      BY <2>11 DEF JobReturns, Halted, progress
    <3>2. r # NotStarted /\ (r # "Panicked" => r \in Completions)
      BY UnsentIsNoReply DEF Replies
    <3>3. \A v \in Workers : QuietFor(v)
      BY <2>11, <3>2 DEF JobReturns, At, Goto, TypeOK, QuietFor, Holding, HasSent, Halted, progress,
                PoolInv, UnsentOnlyWhenHalted
    <3> QED BY <3>1, <3>3, QuietStep
  <2>12. CASE UserCancel
    <3>1. UNCHANGED <<cursor, claimed, done, sent>> /\ (Halted => Halted')
      BY <2>12 DEF UserCancel, Halted, thread
    <3>2. \A v \in Workers : QuietFor(v)
      BY <2>12 DEF UserCancel, TypeOK, QuietFor, HasSent, Halted, thread,
                PoolInv, UnsentOnlyWhenHalted
    <3> QED BY <3>1, <3>2, QuietStep
  <2>13. CASE UNCHANGED vars
    <3>1. UNCHANGED <<cursor, claimed, done, sent>> /\ (Halted => Halted')
      BY <2>13 DEF vars, Halted, thread
    <3>2. \A v \in Workers : QuietFor(v)
      BY <2>13 DEF vars, QuietFor, HasSent, Halted, thread, PoolInv, UnsentOnlyWhenHalted
    <3> QED BY <3>1, <3>2, QuietStep
  <2>14. ASSUME NEW w \in Workers, FetchAdd(w) PROVE PoolInv'
    <3>1. pc[w] = "fetch" /\ cursor \in Nat /\ ~Joined /\ Halted' = Halted
      BY <2>14 DEF FetchAdd, At, TypeOK, Joined, Halted
    <3>2. CASE cursor < NumJobs
      <4>1. /\ claimed' = [claimed EXCEPT ![w] = cursor]
            /\ pc' = [pc EXCEPT ![w] = "claimed"]
            /\ cursor' = cursor + 1
            /\ UNCHANGED <<outcome, done, sent>>
        BY <2>14, <3>2 DEF FetchAdd, Goto
      <4>2. cursor \in Jobs /\ sent[cursor] = 0 /\ done[cursor] = <<>>
        BY <3>1, <3>2 DEF Jobs, PoolInv, JobsAccounted
      <4>3. pc'[w] = "claimed" /\ claimed'[w] = cursor
            /\ \A v \in Workers \ {w} : pc'[v] = pc[v] /\ claimed'[v] = claimed[v]
        BY <4>1 DEF TypeOK
      <4>4. OneOwner'
        <5>1. \A v \in Workers \ {w} : Holds(v, claimed[v]) => claimed[v] < cursor
          BY DEF Holds, PoolInv, OneOwner
        <5>2. ASSUME NEW v \in Workers, v # w, pc'[v] \in Holding
              PROVE  /\ claimed'[v] \in Jobs
                     /\ claimed'[v] < cursor'
                     /\ done'[claimed'[v]] = <<>>
                     /\ sent'[claimed'[v]] = (IF HasSent(v)' THEN 1 ELSE 0)
                     /\ \A u \in Workers \ {v} : ~Holds(u, claimed[v])'
          <6>1. claimed'[v] = claimed[v] /\ pc[v] \in Holding /\ claimed[v] < cursor
            BY <4>3, <5>1, <5>2 DEF Holds
          <6>2. HasSent(v)' <=> HasSent(v)
            BY <4>1, <4>3, <5>2 DEF HasSent
          <6>3. claimed[v] \in Jobs /\ claimed[v] < cursor + 1 /\ claimed[v] # cursor
            BY <3>1, <6>1 DEF PoolInv, OneOwner, Jobs
          <6>4. \A u \in Workers \ {v} : ~Holds(u, claimed[v])'
            BY <4>3, <6>1, <6>3 DEF Holds, PoolInv, OneOwner
          <6> QED BY <4>1, <6>1, <6>2, <6>3, <6>4 DEF PoolInv, OneOwner
        <5>3. /\ claimed'[w] \in Jobs
              /\ claimed'[w] < cursor'
              /\ done'[claimed'[w]] = <<>>
              /\ sent'[claimed'[w]] = (IF HasSent(w)' THEN 1 ELSE 0)
              /\ \A u \in Workers \ {w} : ~Holds(u, claimed[w])'
          <6>1. ~HasSent(w)'
            BY <4>3 DEF HasSent
          <6>2. \A u \in Workers \ {w} : ~(pc'[u] \in Holding /\ claimed'[u] = cursor)
            BY <3>1, <4>3, <5>1 DEF Holds
          <6>3. \A u \in Workers \ {w} : ~Holds(u, claimed[w])'
            BY <4>3, <6>2 DEF Holds
          <6> QED BY <3>1, <4>1, <4>2, <4>3, <6>1, <6>3
        <5> QED BY <5>2, <5>3 DEF OneOwner
      <4>5. JobsAccounted'
        <5> SUFFICES ASSUME NEW j \in Jobs
                     PROVE  /\ done'[j] = <<>> /\ j < cursor' => \E v \in Workers : Holds(v, j)'
                            /\ j >= cursor' => sent'[j] = 0
                            /\ j >= cursor' => done'[j] = <<>> \/ Joined'
                            /\ done'[j] # <<>> =>
                                 \E q \in Outcomes : /\ done'[j] = <<q>>
                                                     /\ sent'[j] = (IF q = NotStarted THEN 0 ELSE 1)
                                                     /\ q = NotStarted => Halted'
          BY DEF JobsAccounted
        <5>1. j < cursor + 1 => j < cursor \/ j = cursor
          BY <3>1 DEF Jobs
        <5>2. \A v \in Workers : Holds(v, j) => Holds(v, j)'
          BY <3>1, <4>3 DEF Holds, Holding
        <5>3. j = cursor => Holds(w, j)'
          BY <4>3 DEF Holds, Holding
        <5>4. j >= cursor + 1 => j >= cursor
          BY <3>1 DEF Jobs
        <5> QED BY <3>1, <4>1, <5>1, <5>2, <5>3, <5>4 DEF PoolInv, JobsAccounted
      <4>6. UnsentOnlyWhenHalted'
        BY <3>1, <4>1, <4>3, <3>2 DEF PoolInv, UnsentOnlyWhenHalted
      <4> QED BY <4>4, <4>5, <4>6 DEF PoolInv
    <3>3. CASE ~(cursor < NumJobs)
      <4>1. /\ pc' = [pc EXCEPT ![w] = "exited"]
            /\ cursor' = cursor + 1
            /\ UNCHANGED <<claimed, outcome, done, sent>>
        BY <2>14, <3>3 DEF FetchAdd, Goto
      <4>2. pc'[w] = "exited" /\ \A v \in Workers \ {w} : pc'[v] = pc[v]
        BY <4>1 DEF TypeOK
      <4>3. \A v \in Workers : /\ pc'[v] \in Holding <=> pc[v] \in Holding
                               /\ pc[v] \in Holding => (HasSent(v)' <=> HasSent(v))
        BY <3>1, <4>1, <4>2 DEF Holding, HasSent
      <4>4. \A j \in Jobs : j < cursor /\ j < cursor'
        BY <3>1, <3>3, <4>1 DEF Jobs
      <4>5. OneOwner'
        BY <4>1, <4>3, <4>4 DEF PoolInv, OneOwner, Holds
      <4>6. JobsAccounted'
        <5>1. \A j \in Jobs : ~(j >= cursor')
          BY <3>1, <4>1, <4>4 DEF Jobs
        <5> QED BY <3>1, <4>1, <4>3, <4>4, <5>1 DEF PoolInv, JobsAccounted, Holds
      <4>7. UnsentOnlyWhenHalted'
        BY <3>1, <3>3, <4>1, <4>2 DEF PoolInv, UnsentOnlyWhenHalted
      <4> QED BY <4>5, <4>6, <4>7 DEF PoolInv
    <3> QED BY <3>2, <3>3
  <2>15. ASSUME NEW w \in Workers, PostClaimCheck(w) PROVE PoolInv'
    <3>1. pc[w] = "claimed" /\ pc[w] \in Holding /\ ~HasSent(w) /\ NotStarted \in Outcomes
      BY <2>15 DEF PostClaimCheck, At, Holding, HasSent, Outcomes
    <3>2. CASE Halted
      BY <2>15, <3>1, <3>2, ReportStep DEF PostClaimCheck, Report, Goto
    <3>3. CASE ~Halted
      <4>1. UNCHANGED <<cursor, claimed, done, sent>> /\ (Halted => Halted')
        BY <2>15, <3>3 DEF PostClaimCheck
      <4>2. \A v \in Workers : QuietFor(v)
        BY <2>15, <3>3 DEF PostClaimCheck, At, Goto, TypeOK, QuietFor, Holding, HasSent, Halted, progress,
                    PoolInv, UnsentOnlyWhenHalted
      <4> QED BY <4>1, <4>2, QuietStep
    <3> QED BY <3>2, <3>3
  <2>16. ASSUME NEW w \in Workers, SendRequest(w) PROVE PoolInv'
    <3> DEFINE c == claimed[w]
    <3>1. pc[w] = "send" /\ pc[w] \in Holding /\ ~HasSent(w)
      BY <2>16 DEF SendRequest, At, Holding, HasSent
    <3>2. /\ pc' = [pc EXCEPT ![w] = "running"]
          /\ sent' = [sent EXCEPT ![c] = @ + 1]
          /\ UNCHANGED <<cursor, stop, cancel, claimed, outcome, done>>
      BY <2>16 DEF SendRequest, Goto
    <3>3. c \in Jobs /\ c < cursor /\ done[c] = <<>> /\ sent[c] = 0
          /\ \A v \in Workers \ {w} : ~Holds(v, c)
      BY <3>1 DEF PoolInv, OneOwner
    <3>4. sent'[c] = 1 /\ \A j \in Jobs \ {c} : sent'[j] = sent[j]
      BY <3>2, <3>3 DEF TypeOK
    <3>5. pc'[w] = "running" /\ \A v \in Workers \ {w} : pc'[v] = pc[v]
      BY <3>2 DEF TypeOK
    <3>6. /\ HasSent(w)'
          /\ \A v \in Workers \ {w} : HasSent(v)' <=> HasSent(v)
          /\ \A v \in Workers : pc'[v] \in Holding <=> pc[v] \in Holding
          /\ Halted' = Halted
      BY <3>1, <3>2, <3>5 DEF HasSent, Holding, Halted
    <3>7. OneOwner'
      <4> SUFFICES ASSUME NEW v \in Workers, pc[v] \in Holding
                   PROVE  /\ claimed[v] \in Jobs
                          /\ claimed[v] < cursor
                          /\ done[claimed[v]] = <<>>
                          /\ sent'[claimed[v]] = (IF HasSent(v)' THEN 1 ELSE 0)
                          /\ \A u \in Workers \ {v} : ~Holds(u, claimed[v])'
        BY <3>2, <3>6 DEF OneOwner
      <4>1. \A u \in Workers \ {v} : ~Holds(u, claimed[v])'
        BY <3>2, <3>6 DEF Holds, PoolInv, OneOwner
      <4>2. sent'[claimed[v]] = (IF HasSent(v)' THEN 1 ELSE 0)
        <5>1. CASE v = w
          BY <3>4, <3>6, <5>1
        <5>2. CASE v # w
          BY <3>3, <3>4, <3>6, <5>2 DEF Holds, PoolInv, OneOwner
        <5> QED BY <5>1, <5>2
      <4> QED BY <4>1, <4>2 DEF PoolInv, OneOwner
    <3>8. JobsAccounted'
      <4>1. ~(c >= cursor)
        BY <3>3 DEF TypeOK, Jobs
      <4>2. ~Joined
        BY <3>1 DEF Joined, At
      <4> QED BY <3>2, <3>3, <3>4, <3>6, <4>1, <4>2 DEF PoolInv, JobsAccounted, Holds
    <3>9. UnsentOnlyWhenHalted'
      BY <3>2, <3>5, <3>6 DEF PoolInv, UnsentOnlyWhenHalted
    <3> QED BY <3>7, <3>8, <3>9 DEF PoolInv
  <2>17. ASSUME NEW w \in Workers, PushOutcome(w) PROVE PoolInv'
    <3>1. pc[w] = "push" /\ pc[w] \in Holding
      BY <2>17 DEF PushOutcome, At, Holding
    <3>2. outcome[w] \in Outcomes /\ (outcome[w] # NotStarted <=> HasSent(w))
          /\ (outcome[w] = NotStarted => Halted)
      BY <3>1 DEF TypeOK, HasSent, PoolInv, UnsentOnlyWhenHalted
    <3> QED BY <2>17, <3>1, <3>2, ReportStep DEF PushOutcome, Report, Goto
  <2>18. CASE FillMissing
    <3>1. /\ Joined
          /\ done' = [j \in Jobs |-> IF j \in Missing THEN <<NotStarted>> ELSE done[j]]
          /\ UNCHANGED <<cursor, stop, cancel, pc, claimed, outcome, sent>>
      BY <2>18 DEF FillMissing, thread
    <3>2. \A w \in Workers : pc[w] = "exited" /\ pc[w] \notin Holding
      BY <3>1 DEF Joined, At, Holding
    <3>3. PICK k \in Jobs : done[k] = <<>>
      BY <2>18 DEF FillMissing, Missing
    <3>4. k >= cursor
      BY <3>2, <3>3 DEF PoolInv, JobsAccounted, Holds, TypeOK, Jobs
    <3>5. Halted
      <4>1. 0 \in Workers
        BY <3>3, MaxType DEF Workers, Jobs
      <4>2. ~(cursor >= NumJobs)
        BY <3>3, <3>4 DEF TypeOK, Jobs
      <4> QED BY <3>2, <4>1, <4>2 DEF PoolInv, UnsentOnlyWhenHalted
    <3>6. \A j \in Jobs : done[j] = <<>> => sent[j] = 0
      <4>1. \A j \in Jobs : done[j] = <<>> => ~(j < cursor)
        BY <3>2 DEF PoolInv, JobsAccounted, Holds
      <4> QED BY <4>1 DEF PoolInv, JobsAccounted, TypeOK, Jobs
    <3>7. OneOwner'
      BY <3>1, <3>2 DEF OneOwner
    <3>8. JobsAccounted'
      <4> SUFFICES ASSUME NEW j \in Jobs
                   PROVE  /\ done'[j] = <<>> /\ j < cursor => \E v \in Workers : Holds(v, j)'
                          /\ j >= cursor => sent[j] = 0
                          /\ done'[j] # <<>> =>
                               \E q \in Outcomes : /\ done'[j] = <<q>>
                                                   /\ sent[j] = (IF q = NotStarted THEN 0 ELSE 1)
                                                   /\ q = NotStarted => Halted'
        <5>1. Joined'
          BY <3>1 DEF Joined, At
        <5> QED BY <3>1, <5>1 DEF JobsAccounted
      <4>1. NotStarted \in Outcomes /\ Halted'
        BY <3>1, <3>5 DEF Outcomes, Halted
      <4>2. CASE done[j] = <<>>
        <5>1. done'[j] = <<NotStarted>>
          BY <3>1, <4>2 DEF Missing
        <5> QED BY <3>6, <4>1, <4>2, <5>1
      <4>3. CASE done[j] # <<>>
        <5>1. done'[j] = done[j]
          BY <3>1, <4>3 DEF Missing
        <5> QED BY <3>1, <4>1, <4>3, <5>1 DEF PoolInv, JobsAccounted
      <4> QED BY <4>2, <4>3
    <3>9. UnsentOnlyWhenHalted'
      BY <3>1 DEF PoolInv, UnsentOnlyWhenHalted, Halted
    <3> QED BY <3>7, <3>8, <3>9 DEF PoolInv
  <2>19. CASE Restart
    <3>1. \A w \in Workers : pc'[w] = "slot"
      BY <2>19 DEF Restart
    <3>2. \A j \in Jobs : done'[j] = <<>> /\ sent'[j] = 0 /\ ~(j < cursor')
      BY <2>19 DEF Restart, Jobs
    <3>3. OneOwner' /\ UnsentOnlyWhenHalted'
      BY <3>1 DEF OneOwner, UnsentOnlyWhenHalted, Holding
    <3>4. JobsAccounted'
      BY <3>2 DEF JobsAccounted
    <3> QED BY <3>3, <3>4 DEF PoolInv
  <2> QED
    BY <2>1, <2>2, <2>3, <2>4, <2>5, <2>6, <2>7, <2>8, <2>9, <2>10, <2>11, <2>12, <2>13, <2>14, <2>15, <2>16, <2>17, <2>18, <2>19
    DEF Next, Worker, Finished
<1> QED BY <1>1, <1>2, TypeCorrect, PTL DEF Spec

------------------------------------------------------------------------------
\* No job has been sent more than once.
LEMMA SentZeroOrOne == TypeOK /\ PoolInv => \A j \in Jobs : sent[j] \in {0, 1}
<1> SUFFICES ASSUME TypeOK, PoolInv, NEW j \in Jobs PROVE sent[j] \in {0, 1}
  OBVIOUS
<1>1. CASE done[j] # <<>>
  BY <1>1 DEF PoolInv, JobsAccounted
<1>2. CASE done[j] = <<>> /\ j < cursor
  BY <1>2 DEF PoolInv, JobsAccounted, OneOwner, Holds
<1>3. CASE ~(j < cursor)
  BY <1>3 DEF PoolInv, JobsAccounted, TypeOK, Jobs
<1> QED BY <1>1, <1>2, <1>3

\* Spec => []NothingResent: whatever the number of threads and jobs and however
\* the limiter and the flags move, no job's content leaves twice in one pass.
THEOREM NeverResent == Spec => []NothingResent
<1>1. TypeOK /\ PoolInv => NothingResent
  BY SentZeroOrOne DEF NothingResent
<1> QED BY <1>1, TypeCorrect, PoolInvariant, PTL

\* Spec => []ReportedIffSent: every job is reported at most once, truthfully,
\* and no answer is lost at the join.
THEOREM TruthfulReports == Spec => []ReportedIffSent
<1>1. TypeOK /\ PoolInv => ReportedIffSent
  <2> SUFFICES ASSUME TypeOK, PoolInv, NEW j \in Jobs
               PROVE  /\ Len(done[j]) <= 1
                      /\ done[j] # <<>> => ((sent[j] = 1) <=> (done[j][1] # NotStarted))
                      /\ Joined /\ sent[j] = 1 => done[j] # <<>>
    BY DEF ReportedIffSent
  <2>1. CASE done[j] = <<>>
    <3>1. Joined => ~(j < cursor)
      BY <2>1 DEF PoolInv, JobsAccounted, Joined, At, Holds, Holding
    <3>2. Joined => sent[j] = 0
      BY <3>1 DEF PoolInv, JobsAccounted, TypeOK, Jobs
    <3> QED BY <2>1, <3>2
  <2>2. CASE done[j] # <<>>
    <3>1. PICK o \in Outcomes : /\ done[j] = <<o>>
                                /\ sent[j] = (IF o = NotStarted THEN 0 ELSE 1)
      BY <2>2 DEF PoolInv, JobsAccounted
    <3>2. Len(<<o>>) = 1 /\ <<o>>[1] = o
      OBVIOUS
    <3> QED BY <2>2, <3>1, <3>2
  <2> QED BY <2>1, <2>2
<1> QED BY <1>1, TypeCorrect, PoolInvariant, PTL

\* Spec => []NothingLeftBehind: a pass that was neither stopped nor cancelled
\* has sent every job by the time its last worker leaves.
THEOREM CompletePass == Spec => []NothingLeftBehind
<1>1. TypeOK /\ PoolInv => NothingLeftBehind
  <2> SUFFICES ASSUME TypeOK, PoolInv, Joined, ~Halted, NEW j \in Jobs PROVE sent[j] = 1
    BY DEF NothingLeftBehind
  <2>1. 0 \in Workers
    BY MaxType DEF Workers, Jobs
  <2>2. cursor >= NumJobs
    BY <2>1 DEF Joined, At, PoolInv, UnsentOnlyWhenHalted
  <2>3. j < cursor
    BY <2>2 DEF Jobs, TypeOK
  <2>4. done[j] # <<>>
    BY <2>3 DEF PoolInv, JobsAccounted, Joined, At, Holds, Holding
  <2> QED BY <2>4 DEF PoolInv, JobsAccounted
<1> QED BY <1>1, TypeCorrect, PoolInvariant, PTL

------------------------------------------------------------------------------
(* The worker pool implements JobPool: run_jobs looks to its caller like a *)
(* pool without threads.                                                   *)

\* What the abstract pool sees of the job a worker holds.
View(w) == IF pc[w] \in {"send", "running"} THEN "sent"
           ELSE IF HasSent(w) THEN outcome[w] ELSE "queued"

\* The abstract state of a job is its report, or the view of its one holder.
Shape ==
  \A j \in Jobs :
    /\ \A o \in Outcomes : done[j] = <<o>> => PoolJob(j) = o
    /\ done[j] = <<>> => \A w \in Workers : Holds(w, j) => PoolJob(j) = View(w)
    /\ done[j] = <<>> /\ (\A w \in Workers : ~Holds(w, j)) => PoolJob(j) = "queued"

\* The mapping of jobs is the one Shape describes (run_worker's points).
LEMMA ShapeHolds == TypeOK /\ PoolInv => Shape
<1> SUFFICES ASSUME TypeOK, PoolInv, NEW j \in Jobs
             PROVE  /\ \A o \in Outcomes : done[j] = <<o>> => PoolJob(j) = o
                    /\ done[j] = <<>> =>
                         \A w \in Workers : Holds(w, j) => PoolJob(j) = View(w)
                    /\ done[j] = <<>> /\ (\A w \in Workers : ~Holds(w, j)) =>
                         PoolJob(j) = "queued"
  BY DEF Shape
<1>1. ASSUME NEW o \in Outcomes, done[j] = <<o>> PROVE PoolJob(j) = o
  <2>1. Len(<<o>>) = 1 /\ <<o>>[1] = o /\ <<o>> # <<>>
    OBVIOUS
  <2> QED BY <1>1, <2>1 DEF PoolJob
<1>2. ASSUME done[j] = <<>>, NEW w \in Workers, Holds(w, j) PROVE PoolJob(j) = View(w)
  <2>1. Len(done[j]) = 0
    BY <1>2
  <2>2. \A v \in Workers : Holds(v, j) => v = w
    BY <1>2 DEF PoolInv, OneOwner, Holds
  <2>3. HasSent(w) => w = CHOOSE v \in Workers : Holds(v, j) /\ HasSent(v)
    BY <1>2, <2>2
  <2>4. (\E v \in Workers : Holds(v, j) /\ pc[v] \in {"send", "running"})
          <=> pc[w] \in {"send", "running"}
    BY <1>2, <2>2
  <2>5. (\E v \in Workers : Holds(v, j) /\ HasSent(v)) <=> HasSent(w)
    BY <1>2, <2>2
  <2>6. CASE pc[w] \in {"send", "running"}
    BY <1>2, <2>1, <2>4, <2>6 DEF PoolJob, View
  <2>7. CASE pc[w] \notin {"send", "running"} /\ ~HasSent(w)
    BY <1>2, <2>1, <2>4, <2>5, <2>7 DEF PoolJob, View
  <2>8. CASE pc[w] \notin {"send", "running"} /\ HasSent(w)
    <3>1. ~(Len(done[j]) > 1)
      BY <2>1
    <3>2. PoolJob(j) = outcome[CHOOSE v \in Workers : Holds(v, j) /\ HasSent(v)]
      BY <1>2, <2>4, <2>5, <2>8, <3>1, Zenon DEF PoolJob
    <3>3. View(w) = outcome[w]
      BY <2>8 DEF View
    <3> QED BY <2>3, <2>8, <3>2, <3>3, Zenon
  <2> QED BY <2>6, <2>7, <2>8
<1>3. ASSUME done[j] = <<>>, \A w \in Workers : ~Holds(w, j) PROVE PoolJob(j) = "queued"
  <2>1. Len(done[j]) = 0
    BY <1>3
  <2> QED BY <1>3, <2>1 DEF PoolJob
<1> QED BY <1>1, <1>2, <1>3

\* The same of the next state.
LEMMA ShapeStays == TypeOK' /\ PoolInv' => Shape'
  BY ShapeHolds, PTL

\* A step that reports nothing and changes no worker's view changes no job.
LEMMA SameJobs ==
  ASSUME TypeOK, PoolInv, TypeOK', PoolInv', UNCHANGED <<claimed, done>>,
         \A v \in Workers : (pc'[v] \in Holding <=> pc[v] \in Holding) /\ View(v)' = View(v)
  PROVE  \A j \in Jobs : PoolJob(j)' = PoolJob(j)
<1> SUFFICES ASSUME NEW j \in Jobs PROVE PoolJob(j)' = PoolJob(j)
  OBVIOUS
<1>1. Shape /\ Shape'
  BY ShapeHolds, ShapeStays
<1>2. \A v \in Workers : Holds(v, j)' <=> Holds(v, j)
  BY DEF Holds
<1>3. CASE done[j] # <<>>
  <2>1. PICK o \in Outcomes : done[j] = <<o>>
    BY <1>3 DEF PoolInv, JobsAccounted
  <2> QED BY <1>1, <2>1 DEF Shape
<1>4. CASE done[j] = <<>>
  <2>1. CASE \E v \in Workers : Holds(v, j)
    BY <1>1, <1>2, <1>4, <2>1 DEF Shape
  <2>2. CASE ~\E v \in Workers : Holds(v, j)
    BY <1>1, <1>2, <1>4, <2>2 DEF Shape
  <2> QED BY <2>1, <2>2
<1> QED BY <1>3, <1>4

\* A step of the worker that holds job c, which leaves every other job alone.
LEMMA OtherJobs ==
  ASSUME TypeOK, PoolInv, TypeOK', PoolInv', NEW w \in Workers, pc[w] \in Holding,
         claimed' = claimed,
         \A j \in Jobs \ {claimed[w]} : done'[j] = done[j],
         \A v \in Workers \ {w} : (pc'[v] \in Holding <=> pc[v] \in Holding) /\ View(v)' = View(v)
  PROVE  \A j \in Jobs \ {claimed[w]} : PoolJob(j)' = PoolJob(j)
<1> SUFFICES ASSUME NEW j \in Jobs, j # claimed[w] PROVE PoolJob(j)' = PoolJob(j)
  OBVIOUS
<1>1. Shape /\ Shape' /\ done'[j] = done[j]
  BY ShapeHolds, ShapeStays
<1>2. \A v \in Workers : /\ Holds(v, j)' <=> Holds(v, j)
                         /\ Holds(v, j) => View(v)' = View(v)
  BY DEF Holds
<1>3. CASE done[j] # <<>>
  <2>1. PICK o \in Outcomes : done[j] = <<o>>
    BY <1>3 DEF PoolInv, JobsAccounted
  <2> QED BY <1>1, <2>1 DEF Shape
<1>4. CASE done[j] = <<>>
  <2>1. CASE \E v \in Workers : Holds(v, j)
    BY <1>1, <1>2, <1>4, <2>1 DEF Shape
  <2>2. CASE ~\E v \in Workers : Holds(v, j)
    BY <1>1, <1>2, <1>4, <2>2 DEF Shape
  <2> QED BY <2>1, <2>2
<1> QED BY <1>3, <1>4

------------------------------------------------------------------------------
(* Every step of the worker pool is a step of JobPool or a stutter.          *)

\* A step that keeps every job, the flags and the round is a stutter.
LEMMA Stutters ==
  ASSUME \A j \in Jobs : PoolJob(j)' = PoolJob(j), Halted' = Halted, round' = round
  PROVE  [Pool!Next]_(Pool!vars)
<1>1. ([j \in Jobs |-> PoolJob(j)])' = [j \in Jobs |-> PoolJob(j)]
  OBVIOUS
<1> QED BY <1>1 DEF Pool!vars

\* The holder of a job that changes only that job, seen from the pool.
LEMMA OneJob ==
  ASSUME NEW c \in Jobs, NEW x, PoolJob(c)' = x,
         \A j \in Jobs \ {c} : PoolJob(j)' = PoolJob(j)
  PROVE  ([j \in Jobs |-> PoolJob(j)])' = [[j \in Jobs |-> PoolJob(j)] EXCEPT ![c] = x]
  OBVIOUS

\* A worker that leaves a job unstarted (run_worker's two NotStarted exits).
LEMMA LeavesOneUnsent ==
  ASSUME NEW c \in Jobs, Halted, Halted' = Halted, round' = round,
         PoolJob(c) = "queued", PoolJob(c)' = NotStarted,
         \A j \in Jobs \ {c} : PoolJob(j)' = PoolJob(j)
  PROVE  Pool!Next
<1>1. ([j \in Jobs |-> PoolJob(j)])' =
        [j \in Jobs |-> IF j \in {c} THEN NotStarted ELSE PoolJob(j)]
  OBVIOUS
<1>2. {c} \in SUBSET Pool!Queued
  BY DEF Pool!Queued
<1>3. Pool!GiveUp({c})
  BY <1>1 DEF Pool!GiveUp, NotStarted, Pool!NotStarted
<1> QED BY <1>2, <1>3 DEF Pool!Next

\* A pass starts with every job queued (ParallelPass::new).
LEMMA InitImplements == Init => Pool!Init
<1> SUFFICES ASSUME Init PROVE Pool!Init
  OBVIOUS
<1>1. \A j \in Jobs : PoolJob(j) = "queued"
  BY DEF Init, PoolJob, Holds, Holding
<1>2. [j \in Jobs |-> PoolJob(j)] = [j \in Jobs |-> "queued"]
  BY <1>1
<1>3. Halted \in BOOLEAN
  BY DEF Init, Halted
<1> QED BY <1>2, <1>3 DEF Init, Pool!Init

\* A step of the workers' own business: no claim, no report, no flag moves and
\* the pool's view of every worker stays.
LEMMA QuietImplements ==
  ASSUME TypeOK, PoolInv, TypeOK', PoolInv',
         UNCHANGED <<claimed, done, stop, cancel, round>>,
         \A v \in Workers : (pc'[v] \in Holding <=> pc[v] \in Holding)
                            /\ (pc[v] \in Holding => View(v)' = View(v))
  PROVE  [Pool!Next]_(Pool!vars)
<1>1. \A v \in Workers : View(v)' = View(v)
  BY DEF View, HasSent, Holding
<1>2. \A j \in Jobs : PoolJob(j)' = PoolJob(j)
  BY <1>1, SameJobs
<1>3. Halted' = Halted
  BY DEF Halted
<1> QED BY <1>2, <1>3, Stutters

\* The pool's view of a held job, before and after a step of its holder.
LEMMA Holder ==
  ASSUME TypeOK, PoolInv, NEW w \in Workers, pc[w] \in Holding
  PROVE  /\ claimed[w] \in Jobs
         /\ done[claimed[w]] = <<>>
         /\ PoolJob(claimed[w]) = View(w)
<1>1. claimed[w] \in Jobs /\ done[claimed[w]] = <<>> /\ Holds(w, claimed[w])
  BY DEF PoolInv, OneOwner, Holds
<1> QED BY <1>1, ShapeHolds DEF Shape

\* The same of the next state.
LEMMA HolderNext ==
  ASSUME TypeOK', PoolInv', NEW w \in Workers, pc'[w] \in Holding,
         NEW c \in Jobs, claimed'[w] = c
  PROVE  PoolJob(c)' = View(w)'
<1>1. done'[c] = <<>> /\ Holds(w, c)'
  BY DEF PoolInv, OneOwner, Holds
<1> QED BY <1>1, ShapeStays DEF Shape

\* A job whose holder pushes an outcome has that outcome.
LEMMA ReportedJob ==
  ASSUME TypeOK, PoolInv, TypeOK', PoolInv', NEW w \in Workers, pc[w] \in Holding,
         NEW c \in Jobs, claimed[w] = c,
         NEW o \in Outcomes, done' = [done EXCEPT ![c] = Append(@, o)]
  PROVE  PoolJob(c)' = o
<1>1. done[c] = <<>>
  BY Holder
<1>2. done'[c] = Append(<<>>, o)
  BY <1>1 DEF TypeOK
<1>3. Append(<<>>, o) = <<o>>
  OBVIOUS
<1>4. \A j \in Jobs : done'[j] = <<o>> => PoolJob(j)' = o
  BY ShapeStays DEF Shape
<1> QED BY <1>1, <1>2, <1>3, <1>4

\* A raised flag with every job as it was.
LEMMA Halts ==
  ASSUME \A j \in Jobs : PoolJob(j)' = PoolJob(j), Halted' = TRUE, round' = round
  PROVE  Pool!Next
<1>1. ([j \in Jobs |-> PoolJob(j)])' = [j \in Jobs |-> PoolJob(j)]
  OBVIOUS
<1> QED BY <1>1 DEF Pool!Halt, Pool!Next

\* Whatever a step of the workers or of run_jobs does, its caller sees a step
\* of the pool or nothing.
LEMMA StepImplements ==
  TypeOK /\ PoolInv /\ TypeOK' /\ PoolInv' /\ [Next]_vars => [Pool!Next]_(Pool!vars)
<1> SUFFICES ASSUME TypeOK, PoolInv, TypeOK', PoolInv', [Next]_vars
             PROVE  [Pool!Next]_(Pool!vars)
  OBVIOUS
<1> DEFINE Implements == [Pool!Next]_(Pool!vars)
<1>q. \A v \in Workers : pc[v] \in {"signal"} => outcome[v] \in Completions
  BY DEF PoolInv, UnsentOnlyWhenHalted
<1>1. ASSUME NEW w \in Workers, LeaveAtSlot(w) PROVE Implements
  <2>1. UNCHANGED <<claimed, done, stop, cancel, round>>
    BY <1>1 DEF LeaveAtSlot
  <2>2. \A v \in Workers : (pc'[v] \in Holding <=> pc[v] \in Holding)
                           /\ (pc[v] \in Holding => View(v)' = View(v))
    BY <1>1 DEF LeaveAtSlot, At, Goto, TypeOK, Holding, View, HasSent
  <2> QED BY <2>1, <2>2, QuietImplements
<1>2. ASSUME NEW w \in Workers, EnterSlot(w) PROVE Implements
  <2>1. UNCHANGED <<claimed, done, stop, cancel, round>>
    BY <1>2 DEF EnterSlot
  <2>2. \A v \in Workers : (pc'[v] \in Holding <=> pc[v] \in Holding)
                           /\ (pc[v] \in Holding => View(v)' = View(v))
    BY <1>2 DEF EnterSlot, At, Goto, TypeOK, Holding, View, HasSent
  <2> QED BY <2>1, <2>2, QuietImplements
<1>3. ASSUME NEW w \in Workers, ParkTimeout(w) PROVE Implements
  <2>1. UNCHANGED <<claimed, done, stop, cancel, round>>
    BY <1>3 DEF ParkTimeout
  <2>2. \A v \in Workers : (pc'[v] \in Holding <=> pc[v] \in Holding)
                           /\ (pc[v] \in Holding => View(v)' = View(v))
    BY <1>3 DEF ParkTimeout, At, Goto, TypeOK, Holding, View, HasSent
  <2> QED BY <2>1, <2>2, QuietImplements
<1>4. ASSUME NEW w \in Workers, NextJobCheck(w) PROVE Implements
  <2>1. UNCHANGED <<claimed, done, stop, cancel, round>>
    BY <1>4 DEF NextJobCheck
  <2>2. \A v \in Workers : (pc'[v] \in Holding <=> pc[v] \in Holding)
                           /\ (pc[v] \in Holding => View(v)' = View(v))
    BY <1>4 DEF NextJobCheck, At, Goto, TypeOK, Holding, View, HasSent
  <2> QED BY <2>1, <2>2, QuietImplements
<1>5. ASSUME NEW w \in Workers, StartRequest(w) PROVE Implements
  <2>1. UNCHANGED <<claimed, done, stop, cancel, round>>
    BY <1>5 DEF StartRequest
  <2>2. \A v \in Workers : (pc'[v] \in Holding <=> pc[v] \in Holding)
                           /\ (pc[v] \in Holding => View(v)' = View(v))
    BY <1>5 DEF StartRequest, At, Goto, TypeOK, Holding, View, HasSent
  <2> QED BY <2>1, <2>2, QuietImplements
<1>6. ASSUME NEW w \in Workers, SendRequest(w) PROVE Implements
  <2>1. UNCHANGED <<claimed, done, stop, cancel, round>>
    BY <1>6 DEF SendRequest
  <2>2. \A v \in Workers : (pc'[v] \in Holding <=> pc[v] \in Holding)
                           /\ (pc[v] \in Holding => View(v)' = View(v))
    BY <1>6 DEF SendRequest, At, Goto, TypeOK, Holding, View, HasSent
  <2> QED BY <2>1, <2>2, QuietImplements
<1>7. ASSUME NEW w \in Workers, SignalSuccess(w) PROVE Implements
  <2>1. UNCHANGED <<claimed, done, stop, cancel, round>>
    BY <1>7 DEF SignalSuccess
  <2>2. outcome[w] # NotStarted
    BY <1>7, <1>q, UnsentIsNoReply DEF SignalSuccess, At
  <2>3. \A v \in Workers : (pc'[v] \in Holding <=> pc[v] \in Holding)
                           /\ (pc[v] \in Holding => View(v)' = View(v))
    BY <1>7, <2>2 DEF SignalSuccess, At, Goto, WakeWorkersAndGoto, TypeOK, Holding, View, HasSent
  <2> QED BY <2>1, <2>3, QuietImplements
<1>8. ASSUME NEW w \in Workers, SignalBackoff(w) PROVE Implements
  <2>1. UNCHANGED <<claimed, done, stop, cancel, round>>
    BY <1>8 DEF SignalBackoff
  <2>2. outcome[w] # NotStarted
    BY <1>8, <1>q, UnsentIsNoReply DEF SignalBackoff, At
  <2>3. \A v \in Workers : (pc'[v] \in Holding <=> pc[v] \in Holding)
                           /\ (pc[v] \in Holding => View(v)' = View(v))
    BY <1>8, <2>2 DEF SignalBackoff, At, Goto, WakeWorkersAndGoto, TypeOK, Holding, View, HasSent
  <2> QED BY <2>1, <2>3, QuietImplements
<1>9. ASSUME NEW w \in Workers, DropGuard(w) PROVE Implements
  <2>1. UNCHANGED <<claimed, done, stop, cancel, round>>
    BY <1>9 DEF DropGuard
  <2>2. \A v \in Workers : (pc'[v] \in Holding <=> pc[v] \in Holding)
                           /\ (pc[v] \in Holding => View(v)' = View(v))
    BY <1>9 DEF DropGuard, At, WakeWorkersAndGoto, TypeOK, Holding, View, HasSent
  <2> QED BY <2>1, <2>2, QuietImplements
<1>10. CASE UNCHANGED vars
  <2>1. UNCHANGED <<claimed, done, stop, cancel, round, pc, outcome>>
    BY <1>10 DEF vars, thread
  <2> QED BY <2>1, QuietImplements DEF View, HasSent
<1>11. ASSUME NEW w \in Workers, FetchAdd(w) PROVE Implements
  <2>1. /\ UNCHANGED <<outcome, done, stop, cancel, round>> /\ pc[w] = "fetch"
        /\ Halted' = Halted
    BY <1>11 DEF FetchAdd, At, Halted
  <2>2. CASE ~(cursor < NumJobs)
    <3>1. UNCHANGED <<claimed, done, stop, cancel, round>>
      BY <1>11, <2>2 DEF FetchAdd
    <3>2. \A v \in Workers : (pc'[v] \in Holding <=> pc[v] \in Holding)
                             /\ (pc[v] \in Holding => View(v)' = View(v))
      BY <1>11, <2>2 DEF FetchAdd, At, Goto, TypeOK, Holding, View, HasSent
    <3> QED BY <3>1, <3>2, QuietImplements
  <2>3. CASE cursor < NumJobs
    <3>1. /\ claimed' = [claimed EXCEPT ![w] = cursor]
          /\ pc' = [pc EXCEPT ![w] = "claimed"]
      BY <1>11, <2>3 DEF FetchAdd, Goto
    <3>2. /\ pc'[w] = "claimed" /\ claimed'[w] = cursor
          /\ \A v \in Workers \ {w} : pc'[v] = pc[v] /\ claimed'[v] = claimed[v]
      BY <3>1 DEF TypeOK
    <3>3. \A v \in Workers \ {w} : \A j \in Jobs : Holds(v, j)' <=> Holds(v, j)
      BY <3>2 DEF Holds
    <3>4. \A v \in Workers \ {w} : View(v)' = View(v)
      BY <2>1, <3>2 DEF View, HasSent
    <3>5. View(w)' = "queued"
      BY <3>2 DEF View, HasSent
    <3>6. \A j \in Jobs : ~Holds(w, j) /\ (Holds(w, j)' <=> j = cursor)
      BY <2>1, <3>2 DEF Holds, Holding
    <3>7. \A v \in Workers : ~Holds(v, cursor)
      BY DEF PoolInv, OneOwner, Holds, TypeOK
    <3>8. Shape /\ Shape'
      BY ShapeHolds, ShapeStays
    <3>9. ASSUME NEW j \in Jobs PROVE PoolJob(j)' = PoolJob(j)
      <4>1. CASE done[j] # <<>>
        <5>1. PICK o \in Outcomes : done[j] = <<o>>
          BY <4>1 DEF PoolInv, JobsAccounted
        <5> QED BY <2>1, <3>8, <5>1 DEF Shape
      <4>2. CASE done[j] = <<>> /\ j = cursor
        <5>1. PoolJob(j) = "queued"
          BY <3>7, <3>8, <4>2 DEF Shape
        <5>2. done'[j] = <<>> /\ Holds(w, j)'
          BY <2>1, <3>6, <4>2
        <5>3. PoolJob(j)' = View(w)'
          BY <3>8, <5>2 DEF Shape
        <5> QED BY <3>5, <5>1, <5>3
      <4>3. CASE done[j] = <<>> /\ j # cursor
        <5>1. done'[j] = <<>> /\ ~Holds(w, j)' /\ ~Holds(w, j)
          BY <2>1, <3>6, <4>3
        <5>2. CASE \E v \in Workers \ {w} : Holds(v, j)
          BY <3>3, <3>4, <3>8, <4>3, <5>1, <5>2 DEF Shape
        <5>3. CASE ~\E v \in Workers \ {w} : Holds(v, j)
          <6>1. \A v \in Workers : ~Holds(v, j) /\ ~Holds(v, j)'
            BY <3>3, <5>1, <5>3
          <6> QED BY <3>8, <4>3, <5>1, <6>1 DEF Shape
        <5> QED BY <5>2, <5>3
      <4> QED BY <4>1, <4>2, <4>3
    <3> QED BY <2>1, <3>9, Stutters
  <2> QED BY <2>2, <2>3
<1>12. ASSUME NEW w \in Workers, AdjacentCheck(w) PROVE Implements
  <2>0. PICK c \in Jobs : claimed[w] = c
    BY <1>12, Holder DEF AdjacentCheck, At, Holding
  <2>1. /\ pc[w] = "check" /\ pc[w] \in Holding
        /\ UNCHANGED <<claimed, done, stop, cancel, round>> /\ Halted' = Halted
    BY <1>12 DEF AdjacentCheck, At, Holding, Halted
  <2>2. \A v \in Workers \ {w} : /\ pc'[v] \in Holding <=> pc[v] \in Holding
                                 /\ View(v)' = View(v)
    BY <1>12 DEF AdjacentCheck, Goto, TypeOK, View, HasSent
  <2>3. pc'[w] = (IF Halted THEN "drop" ELSE "send") /\ outcome'[w] = NotStarted
    BY <1>12 DEF AdjacentCheck, Goto, TypeOK
  <2>4. CASE Halted
    <3>1. View(w)' = View(w) /\ (pc'[w] \in Holding <=> pc[w] \in Holding)
      BY <2>0, <2>1, <2>3, <2>4 DEF View, HasSent, Holding
    <3> QED BY <2>0, <2>1, <2>2, <3>1, QuietImplements
  <2>5. CASE ~Halted
    <3>1. c \in Jobs /\ PoolJob(c) = "queued"
      BY <2>0, <2>1, Holder DEF View, HasSent
    <3>2. pc'[w] = "send" /\ pc'[w] \in Holding /\ claimed'[w] = c
      BY <2>0, <2>1, <2>3, <2>5, Holder DEF Holding
    <3>3. PoolJob(c)' = "sent"
      BY <2>0, <2>1, <3>2, HolderNext DEF View
    <3>4. \A j \in Jobs \ {c} : PoolJob(j)' = PoolJob(j)
      BY <2>0, <2>1, <2>2, OtherJobs
    <3>5. ([j \in Jobs |-> PoolJob(j)])' = [[j \in Jobs |-> PoolJob(j)] EXCEPT ![c] = "sent"]
      BY <3>1, <3>3, <3>4, OneJob
    <3>6. Pool!Send(c)
      BY <2>0, <2>1, <2>5, <3>1, <3>5 DEF Pool!Send
    <3> QED BY <3>1, <3>6 DEF Pool!Next
  <2> QED BY <2>4, <2>5
<1>13. ASSUME NEW w \in Workers, NEW r \in Offered, JobReturns(w, r) PROVE Implements
  <2>0. PICK c \in Jobs : claimed[w] = c
    BY <1>13, Holder DEF JobReturns, At, Holding
  <2>1. /\ pc[w] = "running" /\ pc[w] \in Holding
        /\ UNCHANGED <<claimed, done, stop, cancel, round>> /\ Halted' = Halted
    BY <1>13 DEF JobReturns, At, Holding, Halted
  <2>2. \A v \in Workers \ {w} : /\ pc'[v] \in Holding <=> pc[v] \in Holding
                                 /\ View(v)' = View(v)
    BY <1>13 DEF JobReturns, Goto, TypeOK, View, HasSent
  <2>3. /\ pc'[w] \in {"drop", "signal"} /\ outcome'[w] = r
        /\ r # NotStarted /\ r \in Pool!Replies
    <3>1. r # NotStarted
      BY UnsentIsNoReply
    <3>2. Pool!Replies = Replies
      BY DEF Replies, Pool!Replies, Completions, Pool!Completions, ProviderErrors,
             Pool!ProviderErrors
    <3> QED BY <1>13, <3>1, <3>2 DEF JobReturns, Goto, TypeOK
  <2>4. c \in Jobs /\ PoolJob(c) = "sent"
    BY <2>0, <2>1, Holder DEF View
  <2>5. pc'[w] \in Holding /\ View(w)' = r
    BY <2>3 DEF View, HasSent, Holding
  <2>6. PoolJob(c)' = r
    BY <2>0, <2>1, <2>5, HolderNext
  <2>7. \A j \in Jobs \ {c} : PoolJob(j)' = PoolJob(j)
    BY <2>0, <2>1, <2>2, OtherJobs
  <2>8. ([j \in Jobs |-> PoolJob(j)])' = [[j \in Jobs |-> PoolJob(j)] EXCEPT ![c] = r]
    BY <2>4, <2>6, <2>7, OneJob
  <2>9. Pool!Answer(c, r)
    BY <2>0, <2>1, <2>4, <2>8 DEF Pool!Answer
  <2> QED BY <2>3, <2>4, <2>9 DEF Pool!Next
<1>14. ASSUME NEW w \in Workers, PostClaimCheck(w) PROVE Implements
  <2>0. PICK c \in Jobs : claimed[w] = c
    BY <1>14, Holder DEF PostClaimCheck, At, Holding
  <2>1. /\ pc[w] = "claimed" /\ pc[w] \in Holding
        /\ UNCHANGED <<claimed, outcome, stop, cancel, round>> /\ Halted' = Halted
    BY <1>14 DEF PostClaimCheck, At, Holding, Halted
  <2>2. \A v \in Workers \ {w} : pc'[v] = pc[v]
    BY <1>14 DEF PostClaimCheck, Goto, TypeOK
  <2>3. CASE ~Halted
    <3>1. done' = done /\ pc'[w] = "start"
      BY <1>14, <2>3 DEF PostClaimCheck, Goto, TypeOK
    <3>2. \A v \in Workers : (pc'[v] \in Holding <=> pc[v] \in Holding)
                             /\ (pc[v] \in Holding => View(v)' = View(v))
      BY <2>0, <2>1, <2>2, <3>1 DEF View, HasSent, Holding
    <3> QED BY <2>0, <2>1, <3>1, <3>2, QuietImplements
  <2>4. CASE Halted
    <3>1. done' = [done EXCEPT ![c] = Append(@, NotStarted)]
      BY <1>14, <2>0, <2>4 DEF PostClaimCheck, Report
    <3>2. c \in Jobs /\ PoolJob(c) = "queued" /\ done[c] = <<>>
      BY <2>0, <2>1, Holder DEF View, HasSent
    <3>3. PoolJob(c)' = NotStarted
      BY <2>0, <2>1, <3>1, ReportedJob DEF Outcomes
    <3>4. \A j \in Jobs \ {c} : done'[j] = done[j]
      BY <2>0, <3>1, <3>2 DEF TypeOK
    <3>5. \A v \in Workers \ {w} : (pc'[v] \in Holding <=> pc[v] \in Holding) /\ View(v)' = View(v)
      BY <2>0, <2>1, <2>2 DEF View, HasSent
    <3>6. \A j \in Jobs \ {c} : PoolJob(j)' = PoolJob(j)
      BY <2>0, <2>1, <3>4, <3>5, OtherJobs
    <3> QED BY <2>0, <2>1, <2>4, <3>2, <3>3, <3>6, LeavesOneUnsent
  <2> QED BY <2>3, <2>4
<1>15. ASSUME NEW w \in Workers, PushOutcome(w) PROVE Implements
  <2>0. PICK c \in Jobs, o \in Outcomes : claimed[w] = c /\ outcome[w] = o
    BY <1>15, Holder DEF PushOutcome, At, Holding, TypeOK
  <2>1. /\ pc[w] = "push" /\ pc[w] \in Holding /\ o \in Outcomes
        /\ UNCHANGED <<claimed, outcome, stop, cancel, round>> /\ Halted' = Halted
        /\ done' = [done EXCEPT ![c] = Append(@, o)]
    BY <1>15, <2>0 DEF PushOutcome, Report, At, Holding, Halted, TypeOK
  <2>2. \A v \in Workers \ {w} : pc'[v] = pc[v]
    BY <1>15 DEF PushOutcome, Goto, TypeOK
  <2>3. /\ c \in Jobs /\ done[c] = <<>>
        /\ PoolJob(c) = IF o = NotStarted THEN "queued" ELSE o
    BY <2>0, <2>1, Holder DEF View, HasSent
  <2>4. PoolJob(c)' = o
    BY <2>0, <2>1, ReportedJob
  <2>5. \A j \in Jobs \ {c} : done'[j] = done[j]
    BY <2>0, <2>1, <2>3 DEF TypeOK
  <2>6. \A v \in Workers \ {w} : (pc'[v] \in Holding <=> pc[v] \in Holding) /\ View(v)' = View(v)
    BY <2>0, <2>1, <2>2 DEF View, HasSent
  <2>7. \A j \in Jobs \ {c} : PoolJob(j)' = PoolJob(j)
    BY <2>0, <2>1, <2>5, <2>6, OtherJobs
  <2>8. CASE o = NotStarted
    <3>1. Halted
      BY <2>0, <2>1, <2>8 DEF PoolInv, UnsentOnlyWhenHalted
    <3> QED BY <2>0, <2>1, <2>3, <2>4, <2>7, <2>8, <3>1, LeavesOneUnsent
  <2>9. CASE o # NotStarted
    BY <2>0, <2>1, <2>3, <2>4, <2>7, <2>9, Stutters
  <2> QED BY <2>8, <2>9
<1>16. ASSUME NEW w \in Workers, SignalStop(w) PROVE Implements
  <2>1. UNCHANGED <<claimed, done, round>> /\ Halted' = TRUE
    BY <1>16 DEF SignalStop, Halted
  <2>2. outcome[w] # NotStarted
    BY <1>16, <1>q, UnsentIsNoReply DEF SignalStop, At
  <2>3. \A v \in Workers : (pc'[v] \in Holding <=> pc[v] \in Holding) /\ View(v)' = View(v)
    BY <1>16, <2>2 DEF SignalStop, At, WakeWorkersAndGoto, TypeOK, Holding, View, HasSent
  <2>4. \A j \in Jobs : PoolJob(j)' = PoolJob(j)
    BY <2>1, <2>3, SameJobs
  <2> QED BY <2>1, <2>4, Halts
<1>17. CASE UserCancel
  <2>1. UNCHANGED <<claimed, done, round, pc, outcome>> /\ Halted' = TRUE
    BY <1>17 DEF UserCancel, Halted, thread
  <2>2. \A j \in Jobs : PoolJob(j)' = PoolJob(j)
    BY <2>1, SameJobs DEF View, HasSent
  <2> QED BY <2>1, <2>2, Halts
<1>18. CASE FillMissing
  <2>1. /\ Joined /\ Missing # {} /\ round' = round /\ Halted' = Halted
        /\ done' = [j \in Jobs |-> IF j \in Missing THEN <<NotStarted>> ELSE done[j]]
    BY <1>18 DEF FillMissing, Halted
  <2>2. \A w \in Workers, j \in Jobs : pc[w] = "exited" /\ ~Holds(w, j)
    BY <2>1 DEF Joined, At, Holds, Holding
  <2>3. PICK k \in Jobs : done[k] = <<>>
    BY <2>1 DEF Missing
  <2>4. Halted
    <3>1. 0 \in Workers
      BY <2>3, MaxType DEF Workers, Jobs
    <3>2. ~(cursor >= NumJobs)
      BY <2>2, <2>3 DEF PoolInv, JobsAccounted, TypeOK, Jobs
    <3> QED BY <2>2, <3>1, <3>2 DEF PoolInv, UnsentOnlyWhenHalted
  <2>5. Shape /\ Shape' /\ NotStarted \in Outcomes
    BY ShapeHolds, ShapeStays DEF Outcomes
  <2>6. ASSUME NEW j \in Jobs
        PROVE  /\ j \in Missing => PoolJob(j) = "queued" /\ PoolJob(j)' = NotStarted
               /\ j \notin Missing => PoolJob(j)' = PoolJob(j)
    <3>1. CASE j \in Missing
      <4>1. done[j] = <<>> /\ done'[j] = <<NotStarted>>
        BY <2>1, <3>1 DEF Missing
      <4> QED BY <2>2, <2>5, <3>1, <4>1 DEF Shape
    <3>2. CASE j \notin Missing
      <4>1. done[j] # <<>> /\ done'[j] = done[j]
        BY <2>1, <3>2 DEF Missing
      <4>2. PICK o \in Outcomes : done[j] = <<o>>
        BY <4>1 DEF PoolInv, JobsAccounted
      <4> QED BY <2>5, <3>2, <4>1, <4>2 DEF Shape
    <3> QED BY <3>1, <3>2
  <2>7. ([j \in Jobs |-> PoolJob(j)])' =
          [j \in Jobs |-> IF j \in Missing THEN NotStarted ELSE PoolJob(j)]
    BY <2>6
  <2>8. Missing \in SUBSET Pool!Queued
    BY <2>6 DEF Missing, Pool!Queued
  <2>9. Pool!GiveUp(Missing)
    BY <2>1, <2>4, <2>7 DEF Pool!GiveUp, NotStarted, Pool!NotStarted
  <2> QED BY <2>8, <2>9 DEF Pool!Next
<1>19. CASE Restart
  <2>1. /\ Missing = {} /\ round < Rounds /\ round' = round + 1
        /\ Halted' \in {FALSE, Halted}
    BY <1>19 DEF Restart, Halted, TypeOK
  <2>2. Shape /\ Shape'
    BY ShapeHolds, ShapeStays
  <2>3. \A j \in Jobs : PoolJob(j) \in Pool!Outcomes
    <3>1. Pool!Outcomes = Outcomes
      BY DEF Outcomes, Pool!Outcomes, Replies, Pool!Replies, Completions, Pool!Completions,
             ProviderErrors, Pool!ProviderErrors, NotStarted, Pool!NotStarted
    <3>2. \A j \in Jobs : \E o \in Outcomes : done[j] = <<o>>
      BY <2>1 DEF Missing, PoolInv, JobsAccounted
    <3> QED BY <2>2, <3>1, <3>2 DEF Shape
  <2>4. \A j \in Jobs : PoolJob(j)' = "queued"
    <3>1. \A j \in Jobs : done'[j] = <<>>
      BY <1>19 DEF Restart
    <3>2. \A w \in Workers, j \in Jobs : ~Holds(w, j)'
      BY <1>19 DEF Restart, Holds, Holding
    <3> QED BY <2>2, <3>1, <3>2 DEF Shape
  <2>5. ([j \in Jobs |-> PoolJob(j)])' = [j \in Jobs |-> "queued"]
    BY <2>4
  <2>6. Pool!Resolved
    BY <2>3 DEF Pool!Resolved
  <2>7. Pool!NextPass
    BY <2>1, <2>5, <2>6 DEF Pool!NextPass
  <2> QED BY <2>7 DEF Pool!Next
<1> QED
  <2>1. Implements
    BY <1>1, <1>2, <1>3, <1>4, <1>5, <1>6, <1>7, <1>8, <1>9, <1>10, <1>11, <1>12,
       <1>13, <1>14, <1>15, <1>16, <1>17, <1>18, <1>19
    DEF Next, Worker, Finished
  <2> QED BY <2>1

\* Spec => ImplementsJobPool: whatever the threads, flags and limiter do, the
\* caller of run_jobs sees jobs that leave at most once, are given up only after
\* the pass was stopped, and keep the outcome they were reported with.
THEOREM ImplementsPool == Spec => ImplementsJobPool
<1>1. Init => Pool!Init
  BY InitImplements
<1>2. TypeOK /\ PoolInv /\ TypeOK' /\ PoolInv' /\ [Next]_vars => [Pool!Next]_(Pool!vars)
  BY StepImplements
<1> QED BY <1>1, <1>2, TypeCorrect, PoolInvariant, PTL DEF Spec, ImplementsJobPool, Pool!Spec
==============================================================================
