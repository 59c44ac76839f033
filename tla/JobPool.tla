------------------------------- MODULE JobPool -------------------------------
(***************************************************************************)
(* What run_jobs promises its caller, whatever the number of threads: each *)
(* job's content leaves at most once, a job is given up only after the     *)
(* pass stopped or was cancelled, nothing new is committed to leave after  *)
(* that, and in the end every job has exactly one outcome.                 *)
(***************************************************************************)
EXTENDS Integers, JobOutcomes

CONSTANTS Jobs,      \* the job indices of one pass
          Rounds     \* how many passes one scan runs over the same pool

VARIABLES job,       \* job[j]: "queued", "sent", or its outcome
          halted,    \* the pass stopped or the caller cancelled
          round

vars == <<job, halted, round>>

Queued == {j \in Jobs : job[j] = "queued"}
Resolved == \A j \in Jobs : job[j] \in Outcomes

Init == /\ job = [j \in Jobs |-> "queued"]
        /\ halted \in BOOLEAN
        /\ round = 1

Halt == /\ halted' = TRUE
        /\ UNCHANGED <<job, round>>

Send(j) == /\ ~halted
           /\ job[j] = "queued"
           /\ job' = [job EXCEPT ![j] = "sent"]
           /\ UNCHANGED <<halted, round>>

Answer(j, r) == /\ job[j] = "sent"
                /\ job' = [job EXCEPT ![j] = r]
                /\ UNCHANGED <<halted, round>>

\* Giving up any non-empty set of jobs that never left.
GiveUp(S) == /\ halted
             /\ S # {}
             /\ job' = [j \in Jobs |-> IF j \in S THEN NotStarted ELSE job[j]]
             /\ UNCHANGED <<halted, round>>

\* The pool is restarted for the next pass; a user's cancellation persists,
\* a provider stop does not.
NextPass == /\ Resolved
            /\ round < Rounds
            /\ round' = round + 1
            /\ job' = [j \in Jobs |-> "queued"]
            /\ halted' \in {FALSE, halted}

Next == \/ Halt
        \/ \E j \in Jobs : Send(j) \/ \E r \in Replies : Answer(j, r)
        \/ \E S \in SUBSET Queued : GiveUp(S)
        \/ NextPass

Spec == Init /\ [][Next]_vars
==============================================================================
