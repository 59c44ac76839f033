--------------------------- MODULE OperationLedger ---------------------------
(***************************************************************************)
(* The append-only operation ledger (openloops-application/src/ledger.rs)  *)
(* for one operation id.  A caller begins or replays the operation, marks  *)
(* the attempt as started in a durable row, makes one request, and appends *)
(* the classified outcome; a retry is a separate entry that works on the   *)
(* record the caller holds.  The adapter that makes the request            *)
(* (ports.rs) is external.                                                 *)
(*                                                                         *)
(* Any append can fail and any caller can go away between two steps.       *)
(***************************************************************************)
EXTENDS Integers, Sequences, FiniteSets

CONSTANTS Callers,      \* invocations of the operation that overlap
          OperationKeys, \* operation_key_hmac values
          Serialized    \* one caller at a time, as the contract asks of retries

ASSUME SerializedAssumption == Serialized \in BOOLEAN
ASSUME KeysAssumption == OperationKeys # {}

VARIABLES
  rows,     \* the committed rows, in the order they were appended
  holds,    \* the record a caller holds
  phase,    \* where a caller is in the durability order
  requests, \* history: requests made
  effects   \* history: requests the provider carried out

vars == <<rows, holds, phase, requests, effects>>

Reserved == {"Reconciling", "UserAssisted", "Abandoned"}  \* catalogued, never written
States   == {"Pending", "AttemptStarted", "KnownNoSendRetryable", "Ambiguous",
             "Succeeded", "DefinitiveFailed"} \cup Reserved
Outcomes == {"Succeeded", "KnownNoSend", "Ambiguous", "DefinitiveFailure"}

LedgerRecord == [key : OperationKeys, state : States, attempts : 0..3, generation : Nat]

\* Deviation: a started attempt does not hold the cursor back.
blocks_only_open_outcomes(state) ==
  state \in {"Pending", "Ambiguous", "Reconciling", "UserAssisted"}

blocks_dependent_cursor(state) ==
  state \in {"Pending", "AttemptStarted", "Ambiguous", "Reconciling", "UserAssisted"}

AnyKey   == CHOOSE k \in OperationKeys : TRUE
NoRecord == [key |-> AnyKey, state |-> "Pending", attempts |-> 0, generation |-> 0]

Init ==
  /\ rows = <<>>
  /\ holds = [c \in Callers |-> NoRecord]
  /\ phase = [c \in Callers |-> "idle"]
  /\ requests = 0
  /\ effects = 0

\* latest_for_operation: a row of the highest generation.  The rows come back
\* in no particular order, so with a tie any of them may be the one.
Latest == {r \in {rows[i] : i \in 1..Len(rows)} :
             \A i \in 1..Len(rows) : rows[i].generation <= r.generation}

MayEnter(c) == phase[c] = "idle" /\ (Serialized => \A d \in Callers : phase[d] = "idle")

Hold(c, r, at) ==
  /\ holds' = [holds EXCEPT ![c] = r]
  /\ phase' = [phase EXCEPT ![c] = at]

\* Deviation: the caller goes on although the append failed.
AppendIgnoringFailure(c, r, at) ==
  \/ rows' = Append(rows, r) /\ Hold(c, r, at)
  \/ Hold(c, r, at) /\ UNCHANGED rows

\* append, and hand the new record to the caller; or the seal or the store
\* fails, and the caller is left with an error.
AppendAndHold(c, r, at) ==
  \/ rows' = Append(rows, r) /\ Hold(c, r, at)
  \/ phase' = [phase EXCEPT ![c] = "idle"] /\ UNCHANGED <<rows, holds>>

BeginFresh(c, key) ==
  /\ MayEnter(c)
  /\ Latest = {}
  /\ AppendAndHold(c, [key |-> key, state |-> "Pending", attempts |-> 0, generation |-> 0], "fresh")
  /\ UNCHANGED <<requests, effects>>

\* The same key replays the recorded state and writes nothing; another key is a
\* Collision and hands out nothing.
Replay(c, key) ==
  /\ MayEnter(c)
  /\ \E latest \in Latest : latest.key = key /\ Hold(c, latest, "classified")
  /\ UNCHANGED <<rows, requests, effects>>

Started(r) == [key |-> r.key, state |-> "AttemptStarted",
               attempts |-> r.attempts + 1, generation |-> r.generation + 1]

mark_attempt_started(c) ==
  /\ phase[c] = "fresh"
  /\ AppendAndHold(c, Started(holds[c]), "started")
  /\ UNCHANGED <<requests, effects>>

\* Deviation: the retry of an ambiguous outcome.
retries_ambiguous(c) ==
  /\ phase[c] = "classified"
  /\ holds[c].state \in {"KnownNoSendRetryable", "Ambiguous"}
  /\ holds[c].attempts < 3
  /\ AppendAndHold(c, Started(holds[c]), "started")
  /\ UNCHANGED <<requests, effects>>

\* NotEligibleForRetry and AttemptsExhausted change nothing.
commit_eligible_retry(c) ==
  /\ phase[c] = "classified"
  /\ holds[c].state = "KnownNoSendRetryable"
  /\ holds[c].attempts < 3
  /\ AppendAndHold(c, Started(holds[c]), "started")
  /\ UNCHANGED <<requests, effects>>

\* The one bounded request.  What the adapter reports is true: Succeeded was
\* carried out, KnownNoSend and DefinitiveFailure were not, Ambiguous may be.
Request(c, outcome) ==
  /\ phase[c] = "started"
  /\ phase' = [phase EXCEPT ![c] = outcome]
  /\ requests' = requests + 1
  /\ \/ outcome \in {"Succeeded", "Ambiguous"} /\ effects' = effects + 1
     \/ outcome # "Succeeded" /\ UNCHANGED effects
  /\ UNCHANGED <<rows, holds>>

\* Deviation: the attempt limit is not consulted.
classified_without_limit(r, outcome) ==
  CASE outcome = "Succeeded"         -> "Succeeded"
    [] outcome = "KnownNoSend"       -> "KnownNoSendRetryable"
    [] outcome = "Ambiguous"         -> "Ambiguous"
    [] outcome = "DefinitiveFailure" -> "DefinitiveFailed"

classified(r, outcome) ==
  CASE outcome = "Succeeded"         -> "Succeeded"
    [] outcome = "KnownNoSend"       -> IF r.attempts < 3 THEN "KnownNoSendRetryable"
                                        ELSE "DefinitiveFailed"
    [] outcome = "Ambiguous"         -> "Ambiguous"
    [] outcome = "DefinitiveFailure" -> "DefinitiveFailed"

Answered(r, outcome) == [key |-> r.key, state |-> classified(r, outcome),
                         attempts |-> r.attempts, generation |-> r.generation + 1]

classify_outcome(c) ==
  /\ phase[c] \in Outcomes
  /\ AppendAndHold(c, Answered(holds[c], phase[c]), "classified")
  /\ UNCHANGED <<requests, effects>>

\* The caller is done with the record, or the process stops: only rows survive.
Leave(c) ==
  /\ phase[c] # "idle"
  /\ phase' = [phase EXCEPT ![c] = "idle"]
  /\ UNCHANGED <<rows, holds, requests, effects>>

Next ==
  \E c \in Callers :
    \/ \E key \in OperationKeys : BeginFresh(c, key) \/ Replay(c, key)
    \/ mark_attempt_started(c) \/ commit_eligible_retry(c)
    \/ \E outcome \in Outcomes : Request(c, outcome)
    \/ classify_outcome(c)
    \/ Leave(c)

Spec == Init /\ [][Next]_vars

------------------------------------------------------------------------------
\* TypeOK: every variable has its type, and a retryable row has an attempt left.
TypeOK ==
  /\ rows \in Seq(LedgerRecord)
  /\ \A i \in 1..Len(rows) : rows[i].state = "KnownNoSendRetryable" => rows[i].attempts < 3
  /\ holds \in [Callers -> LedgerRecord]
  /\ phase \in [Callers -> {"idle", "fresh", "started", "classified"} \cup Outcomes]
  /\ requests \in Nat
  /\ effects \in Nat

\* "Replay never issues a request", and a retry needs proof that nothing was
\* sent: however often callers come back, crash or lose the answer, the provider
\* carries out the operation at most once (begin_or_replay, commit_eligible_retry).
AtMostOneEffect == effects <= 1

\* "At most three attempts total" (commit_eligible_retry, classify_outcome).
AtMostThreeRequests == requests <= 3

\* "Mark attempt_started atomically" comes before the request: each request has
\* a durable row of its own, whatever append failed before it.
DurableBeforeRequest ==
  \A n \in 1..requests : \E i \in 1..Len(rows) :
    rows[i].state = "AttemptStarted" /\ rows[i].attempts = n

\* The cursor rule: as long as the ledger does not record the success of an
\* operation the provider carried out, it holds the dependent cursor back.
UnknownFateBlocksCursor ==
  effects > 0 => \A r \in Latest : r.state = "Succeeded" \/ blocks_dependent_cursor(r.state)

\* The history is a line: one row per generation, so exactly one row is current,
\* and a row that ends the operation is the last one (append, classify_outcome).
Final == {"Succeeded", "Ambiguous", "DefinitiveFailed"}
HistoryIsALine ==
  \A i \in 1..Len(rows) :
    /\ rows[i].generation = i - 1
    /\ rows[i].state \in Final => i = Len(rows)

\* What the other invariants rest on: a single caller is under way and holds the
\* current row, which tells how often and with what effect a request was made.
Last == rows[Len(rows)]
LastRowTells ==
  IF rows = <<>> THEN requests = 0 /\ effects = 0
  ELSE /\ requests <= Last.attempts
       /\ effects <= 1
       /\ Last.state \notin Reserved
       /\ Last.state = "Pending" <=> Last.attempts = 0
       /\ Last.state \in {"Pending", "KnownNoSendRetryable", "DefinitiveFailed"} => effects = 0
       /\ Last.state = "Succeeded" => effects = 1
CallerHoldsLast ==
  \A c \in Callers : phase[c] # "idle" =>
    /\ rows # <<>> /\ holds[c] = Last
    /\ phase[c] = "fresh" => Last.state = "Pending"
    /\ phase[c] = "started" =>
         Last.state = "AttemptStarted" /\ requests < Last.attempts /\ effects = 0
    /\ phase[c] \in Outcomes => Last.state = "AttemptStarted"
    /\ phase[c] = "Succeeded" => effects = 1
    /\ phase[c] \in {"KnownNoSend", "DefinitiveFailure"} => effects = 0
    /\ \A d \in Callers : phase[d] # "idle" => d = c
LedgerInv == LastRowTells /\ CallerHoldsLast
==============================================================================
