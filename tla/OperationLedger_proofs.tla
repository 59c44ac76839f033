------------------------ MODULE OperationLedger_proofs ------------------------
(***************************************************************************)
(* Theorems about the operation ledger when its callers are serialized,    *)
(* for every set of callers and keys and any number of replays, crashes    *)
(* and failed appends.                                                     *)
(***************************************************************************)
EXTENDS OperationLedger, TLAPS

USE KeysAssumption

Phases == {"idle", "fresh", "started", "classified"} \cup Outcomes

\* The attempts counted by the last row.
Counted == IF rows = <<>> THEN 0 ELSE Last.attempts

\* Every counted attempt has a row that marks it as started.
AttemptsAreRows ==
  \A n \in 1..Counted : \E i \in 1..Len(rows) :
    rows[i].state = "AttemptStarted" /\ rows[i].attempts = n

\* The inductive invariant.
Inv == TypeOK /\ HistoryIsALine /\ AttemptsAreRows /\ LedgerInv

\* The fields of a row have their types.
LEMMA RecordFields ==
  ASSUME NEW r \in LedgerRecord
  PROVE  /\ r.key \in OperationKeys /\ r.state \in States
         /\ r.attempts \in 0..3 /\ r.generation \in Nat
  BY DEF LedgerRecord

\* The row of a new attempt counts it and has the next generation.
LEMMA StartedRecord ==
  ASSUME NEW r \in LedgerRecord, r.attempts < 3
  PROVE  /\ Started(r) \in LedgerRecord /\ Started(r).state = "AttemptStarted"
         /\ Started(r).attempts = r.attempts + 1 /\ Started(r).generation = r.generation + 1
<1>1. Started(r) = [key |-> r.key, state |-> "AttemptStarted",
                    attempts |-> r.attempts + 1, generation |-> r.generation + 1]
  BY DEF Started
<1>2. r.key \in OperationKeys /\ r.attempts + 1 \in 0..3 /\ r.generation + 1 \in Nat
  BY RecordFields
<1> QED BY <1>1, <1>2 DEF LedgerRecord, States

\* The row of a classified answer keeps the attempts and has the next generation.
LEMMA AnsweredRecord ==
  ASSUME NEW r \in LedgerRecord, NEW o, classified(r, o) \in States
  PROVE  /\ Answered(r, o) \in LedgerRecord /\ Answered(r, o).state = classified(r, o)
         /\ Answered(r, o).attempts = r.attempts /\ Answered(r, o).generation = r.generation + 1
<1>1. Answered(r, o) = [key |-> r.key, state |-> classified(r, o),
                        attempts |-> r.attempts, generation |-> r.generation + 1]
  BY DEF Answered
<1>2. r.key \in OperationKeys /\ r.attempts \in 0..3 /\ r.generation + 1 \in Nat
  BY RecordFields
<1> QED BY <1>1, <1>2 DEF LedgerRecord

\* A ledger with rows has a last one.
LEMMA LastIsRow ==
  ASSUME TypeOK, rows # <<>>
  PROVE  Len(rows) \in Nat /\ Len(rows) >= 1 /\ Last \in LedgerRecord
  BY DEF TypeOK, Last

\* With one row per generation the current row is the last one.
LEMMA LatestIsLast ==
  ASSUME TypeOK, HistoryIsALine
  PROVE  Latest = IF rows = <<>> THEN {} ELSE {Last}
<1>1. Len(rows) \in Nat
  BY DEF TypeOK
<1>2. CASE rows = <<>>
  BY <1>2 DEF Latest
<1>3. CASE rows # <<>>
  <2>1. Len(rows) \in 1..Len(rows)
    BY <1>3, LastIsRow
  <2>2. \A i \in 1..Len(rows) : rows[i].generation = i - 1
    BY DEF HistoryIsALine
  <2>3. Last \in Latest
    BY <2>1, <2>2 DEF Latest, Last
  <2>4. ASSUME NEW r \in Latest PROVE r = Last
    <3>1. PICK i \in 1..Len(rows) : r = rows[i]
      BY DEF Latest
    <3>2. rows[Len(rows)].generation <= r.generation
      BY <2>1 DEF Latest
    <3>3. i = Len(rows)
      BY <1>1, <2>1, <2>2, <3>1, <3>2
    <3> QED BY <3>1, <3>3 DEF Last
  <2> QED BY <1>3, <2>3, <2>4
<1> QED BY <1>2, <1>3

\* A row appended to rows gives rows, and a last one that is the new row.
LEMMA AppendedRows ==
  ASSUME TypeOK, NEW r \in LedgerRecord, rows' = Append(rows, r)
  PROVE  /\ Len(rows) \in Nat
         /\ rows' \in Seq(LedgerRecord) /\ rows' # <<>>
         /\ Len(rows') = Len(rows) + 1 /\ rows'[Len(rows) + 1] = r
         /\ \A i \in 1..Len(rows) : rows'[i] = rows[i]
         /\ Last' = r
  BY DEF TypeOK, Last

\* An append by the only caller under way, of a row that follows the last one.
LEMMA AppendKeepsInv ==
  ASSUME Inv, NEW c \in Callers, NEW r \in LedgerRecord,
         NEW at \in {"fresh", "started", "classified"},
         rows' = Append(rows, r), Hold(c, r, at), UNCHANGED <<requests, effects>>,
         \A d \in Callers : phase[d] # "idle" => d = c,
         r.generation = Len(rows),
         rows # <<>> => Last.state \notin Final,
         \/ r.attempts = Counted
         \/ r.state = "AttemptStarted" /\ r.attempts = Counted + 1,
         requests <= r.attempts,
         r.state \notin Reserved,
         r.state = "Pending" <=> r.attempts = 0,
         r.state \in {"Pending", "KnownNoSendRetryable", "DefinitiveFailed"} => effects = 0,
         r.state = "Succeeded" => effects = 1,
         r.state = "KnownNoSendRetryable" => r.attempts < 3,
         at = "fresh" => r.state = "Pending",
         at = "started" => r.state = "AttemptStarted" /\ requests < r.attempts /\ effects = 0
  PROVE  Inv'
<1>1. /\ Len(rows) \in Nat
      /\ rows' \in Seq(LedgerRecord) /\ rows' # <<>>
      /\ Len(rows') = Len(rows) + 1 /\ rows'[Len(rows) + 1] = r
      /\ \A i \in 1..Len(rows) : rows'[i] = rows[i]
      /\ Last' = r
  BY AppendedRows DEF Inv
<1>2. requests \in Nat /\ effects \in Nat /\ phase \in [Callers -> Phases]
      /\ holds \in [Callers -> LedgerRecord]
  BY DEF Inv, TypeOK, Phases
<1>3. /\ phase' = [phase EXCEPT ![c] = at] /\ holds' = [holds EXCEPT ![c] = r]
      /\ requests' = requests /\ effects' = effects
  BY DEF Hold
<1>4. TypeOK'
  <2>1. holds' \in [Callers -> LedgerRecord] /\ phase' \in [Callers -> Phases]
    BY <1>2, <1>3 DEF Phases
  <2>2. ASSUME NEW i \in 1..Len(rows'), rows'[i].state = "KnownNoSendRetryable"
        PROVE  rows'[i].attempts < 3
    <3>1. CASE i = Len(rows) + 1
      BY <1>1, <2>2, <3>1
    <3>2. CASE i \in 1..Len(rows)
      BY <1>1, <2>2, <3>2 DEF Inv, TypeOK
    <3> QED BY <1>1, <3>1, <3>2
  <2> QED BY <1>1, <1>2, <1>3, <2>1, <2>2 DEF TypeOK, Phases
<1>5. HistoryIsALine'
  <2>1. ASSUME NEW i \in 1..Len(rows')
        PROVE  rows'[i].generation = i - 1 /\ (rows'[i].state \in Final => i = Len(rows'))
    <3>1. CASE i = Len(rows) + 1
      BY <1>1, <3>1
    <3>2. CASE i \in 1..Len(rows)
      <4>1. rows # <<>>
        BY <3>2
      <4>2. rows[i].generation = i - 1 /\ (rows[i].state \in Final => i = Len(rows))
        BY <3>2 DEF Inv, HistoryIsALine
      <4>3. rows[i].state \notin Final
        BY <4>1, <4>2 DEF Last
      <4> QED BY <1>1, <3>2, <4>2, <4>3
    <3> QED BY <1>1, <3>1, <3>2
  <2> QED BY <2>1 DEF HistoryIsALine
<1>6. AttemptsAreRows'
  <2>1. Counted' = r.attempts
    BY <1>1 DEF Counted
  <2>2. Counted \in Nat /\ r.attempts \in Nat
    BY LastIsRow, RecordFields DEF Inv, Counted
  <2>3. ASSUME NEW n \in 1..r.attempts
        PROVE  \E i \in 1..Len(rows') :
                 rows'[i].state = "AttemptStarted" /\ rows'[i].attempts = n
    <3>1. CASE n \in 1..Counted
      <4>1. PICK i \in 1..Len(rows) : rows[i].state = "AttemptStarted" /\ rows[i].attempts = n
        BY <3>1 DEF Inv, AttemptsAreRows
      <4> QED BY <1>1, <4>1
    <3>2. CASE n \notin 1..Counted
      <4>1. r.state = "AttemptStarted" /\ n = r.attempts
        BY <2>2, <3>2
      <4>2. Len(rows) + 1 \in 1..Len(rows')
        BY <1>1
      <4> QED BY <1>1, <4>1, <4>2
    <3> QED BY <3>1, <3>2
  <2> QED BY <2>1, <2>3 DEF AttemptsAreRows
<1>7. LedgerInv'
  <2>1. LastRowTells'
    <3>1. effects <= 1
      BY DEF Inv, LedgerInv, LastRowTells
    <3> QED BY <1>1, <1>3, <3>1 DEF LastRowTells
  <2>2. CallerHoldsLast'
    <3>1. \A d \in Callers : d # c => phase'[d] = "idle"
      BY <1>2, <1>3
    <3>2. phase'[c] = at /\ holds'[c] = r
      BY <1>2, <1>3
    <3> QED BY <1>1, <1>3, <3>1, <3>2 DEF CallerHoldsLast, Outcomes
  <2> QED BY <2>1, <2>2 DEF LedgerInv
<1> QED BY <1>4, <1>5, <1>6, <1>7 DEF Inv

\* A caller that goes away, or is left with an error, changes no row.
LEMMA LeaveKeepsInv ==
  ASSUME Inv, NEW c \in Callers,
         phase' = [phase EXCEPT ![c] = "idle"], UNCHANGED <<rows, holds, requests, effects>>
  PROVE  Inv'
<1>1. phase \in [Callers -> Phases]
  BY DEF Inv, TypeOK, Phases
<1>2. /\ phase' \in [Callers -> Phases]
      /\ \A d \in Callers : phase'[d] # "idle" => phase'[d] = phase[d] /\ d # c
  BY <1>1 DEF Phases
<1>3. TypeOK'
  BY <1>2 DEF Inv, TypeOK, Phases
<1>4. HistoryIsALine' /\ AttemptsAreRows' /\ LastRowTells'
  BY DEF Inv, HistoryIsALine, AttemptsAreRows, Counted, LedgerInv, LastRowTells, Last
<1>5. CallerHoldsLast'
  BY <1>2 DEF Inv, LedgerInv, CallerHoldsLast, Last
<1> QED BY <1>3, <1>4, <1>5 DEF Inv, LedgerInv

\* The empty ledger satisfies the invariant.
LEMMA InitInv == Init => Inv
<1> SUFFICES ASSUME Init PROVE Inv
  OBVIOUS
<1>1. NoRecord \in LedgerRecord
  BY DEF NoRecord, AnyKey, LedgerRecord, States
<1>2. TypeOK
  BY <1>1 DEF Init, TypeOK
<1>3. HistoryIsALine /\ AttemptsAreRows /\ LedgerInv
  BY DEF Init, HistoryIsALine, AttemptsAreRows, Counted, LedgerInv, LastRowTells, CallerHoldsLast
<1> QED BY <1>2, <1>3 DEF Inv

\* Each call of a serialized caller preserves the invariant.
LEMMA NextInv ==
  ASSUME Serialized, Inv, [Next]_vars
  PROVE  Inv'
<1>1. CASE UNCHANGED vars
  BY <1>1 DEF vars, Inv, TypeOK, HistoryIsALine, AttemptsAreRows, Counted, LedgerInv,
              LastRowTells, CallerHoldsLast, Last, Final
<1> SUFFICES ASSUME NEW c \in Callers,
               \/ \E key \in OperationKeys : BeginFresh(c, key) \/ Replay(c, key)
               \/ mark_attempt_started(c) \/ commit_eligible_retry(c)
               \/ \E outcome \in Outcomes : Request(c, outcome)
               \/ classify_outcome(c)
               \/ Leave(c)
             PROVE Inv'
  BY <1>1 DEF Next
<1> USE DEF Inv
<1>t. /\ phase \in [Callers -> Phases] /\ holds \in [Callers -> LedgerRecord]
      /\ requests \in Nat /\ effects \in Nat
  BY DEF TypeOK, Phases
\* What the caller under way knows of the last row.
<1>h. ASSUME phase[c] # "idle"
      PROVE  /\ rows # <<>> /\ holds[c] = Last /\ Last \in LedgerRecord
             /\ Last.attempts \in 0..3 /\ Last.state \in States
             /\ Len(rows) \in Nat /\ Last.generation = Len(rows) - 1
             /\ Counted = Last.attempts
             /\ \A d \in Callers : phase[d] # "idle" => d = c
             /\ requests <= Last.attempts /\ effects <= 1
             /\ Last.state \notin Reserved /\ (Last.state = "Pending" <=> Last.attempts = 0)
             /\ Last.state \in {"Pending", "KnownNoSendRetryable", "DefinitiveFailed"} => effects = 0
             /\ Last.state = "KnownNoSendRetryable" => Last.attempts < 3
  <2>1. rows # <<>> /\ holds[c] = Last /\ \A d \in Callers : phase[d] # "idle" => d = c
    BY <1>h DEF LedgerInv, CallerHoldsLast
  <2>2. Len(rows) \in Nat /\ Len(rows) >= 1 /\ Last \in LedgerRecord
    BY <2>1, LastIsRow
  <2>3. Last.generation = Len(rows) - 1 /\ (Last.state = "KnownNoSendRetryable" => Last.attempts < 3)
    BY <2>2 DEF HistoryIsALine, TypeOK, Last
  <2>4. Last.attempts \in 0..3 /\ Last.state \in States
    BY <2>2, RecordFields
  <2> QED BY <2>1, <2>2, <2>3, <2>4 DEF LedgerInv, LastRowTells, Counted
<1>2. ASSUME NEW key \in OperationKeys, BeginFresh(c, key) PROVE Inv'
  <2> DEFINE r == [key |-> key, state |-> "Pending", attempts |-> 0, generation |-> 0]
  <2>1. rows = <<>> /\ \A d \in Callers : phase[d] = "idle"
    BY <1>2, LatestIsLast DEF BeginFresh, MayEnter
  <2>2. r \in LedgerRecord
    BY DEF LedgerRecord, States
  <2>3. requests = 0 /\ effects = 0 /\ Counted = 0
    BY <2>1 DEF LedgerInv, LastRowTells, Counted
  <2>4. CASE rows' = Append(rows, r) /\ Hold(c, r, "fresh") /\ UNCHANGED <<requests, effects>>
    BY <2>1, <2>2, <2>3, <2>4, AppendKeepsInv DEF Reserved
  <2>5. CASE phase' = [phase EXCEPT ![c] = "idle"] /\ UNCHANGED <<rows, holds, requests, effects>>
    BY <2>5, LeaveKeepsInv
  <2> QED BY <1>2, <2>4, <2>5 DEF BeginFresh, AppendAndHold
<1>3. ASSUME NEW key \in OperationKeys, Replay(c, key) PROVE Inv'
  <2>1. \A d \in Callers : phase[d] = "idle"
    BY <1>3 DEF Replay, MayEnter
  <2>2. rows # <<>> /\ Hold(c, Last, "classified") /\ UNCHANGED <<rows, requests, effects>>
    BY <1>3, LatestIsLast DEF Replay
  <2>3. Last \in LedgerRecord
    BY <2>2, LastIsRow
  <2>4. /\ phase' = [phase EXCEPT ![c] = "classified"] /\ holds' = [holds EXCEPT ![c] = Last]
    BY <2>2 DEF Hold
  <2>5. TypeOK'
    BY <2>2, <2>3, <2>4, <1>t DEF TypeOK
  <2>6. HistoryIsALine' /\ AttemptsAreRows' /\ LastRowTells'
    BY <2>2 DEF HistoryIsALine, AttemptsAreRows, Counted, LedgerInv, LastRowTells, Last
  <2>7. CallerHoldsLast'
    <3>1. \A d \in Callers : phase'[d] # "idle" => d = c
      BY <2>1, <2>4, <1>t
    <3>2. phase'[c] = "classified" /\ holds'[c] = Last
      BY <2>4, <1>t
    <3>3. Last' = Last
      BY <2>2 DEF Last
    <3> QED BY <2>2, <3>1, <3>2, <3>3 DEF CallerHoldsLast, Outcomes
  <2> QED BY <2>5, <2>6, <2>7 DEF LedgerInv
<1>4. ASSUME mark_attempt_started(c) PROVE Inv'
  <2> DEFINE r == Started(holds[c])
  <2>1. phase[c] = "fresh" /\ Last.state = "Pending"
    BY <1>4 DEF mark_attempt_started, LedgerInv, CallerHoldsLast
  <2>2. r \in LedgerRecord /\ r.state = "AttemptStarted" /\ r.attempts = 1
        /\ r.generation = Len(rows) /\ Last.attempts = 0 /\ effects = 0 /\ requests = 0
    <3>1. holds[c] = Last /\ Last \in LedgerRecord /\ Last.attempts = 0 /\ effects = 0 /\ requests = 0
          /\ Last.generation = Len(rows) - 1 /\ Len(rows) \in Nat
      BY <2>1, <1>h, <1>t
    <3> QED BY <3>1, StartedRecord
  <2>3. CASE rows' = Append(rows, r) /\ Hold(c, r, "started") /\ UNCHANGED <<requests, effects>>
    BY <2>1, <2>2, <2>3, <1>h, AppendKeepsInv DEF Reserved, Final
  <2>4. CASE phase' = [phase EXCEPT ![c] = "idle"] /\ UNCHANGED <<rows, holds, requests, effects>>
    BY <2>4, LeaveKeepsInv
  <2> QED BY <1>4, <2>3, <2>4 DEF mark_attempt_started, AppendAndHold
<1>5. ASSUME commit_eligible_retry(c) PROVE Inv'
  <2> DEFINE r == Started(holds[c])
  <2>1. phase[c] = "classified" /\ holds[c].state = "KnownNoSendRetryable" /\ holds[c].attempts < 3
    BY <1>5 DEF commit_eligible_retry
  <2>2. r \in LedgerRecord /\ r.state = "AttemptStarted" /\ r.attempts = Last.attempts + 1
        /\ r.generation = Len(rows) /\ effects = 0 /\ requests <= Last.attempts
        /\ Last.state = "KnownNoSendRetryable"
    <3>1. holds[c] = Last /\ Last \in LedgerRecord /\ Last.attempts < 3 /\ effects = 0
          /\ requests <= Last.attempts /\ Last.state = "KnownNoSendRetryable"
          /\ Last.generation = Len(rows) - 1 /\ Len(rows) \in Nat
      BY <2>1, <1>h
    <3> QED BY <3>1, StartedRecord
  <2>3. CASE rows' = Append(rows, r) /\ Hold(c, r, "started") /\ UNCHANGED <<requests, effects>>
    BY <2>1, <2>2, <2>3, <1>h, <1>t, AppendKeepsInv DEF Reserved, Final
  <2>4. CASE phase' = [phase EXCEPT ![c] = "idle"] /\ UNCHANGED <<rows, holds, requests, effects>>
    BY <2>4, LeaveKeepsInv
  <2> QED BY <1>5, <2>3, <2>4 DEF commit_eligible_retry, AppendAndHold
<1>6. ASSUME NEW outcome \in Outcomes, Request(c, outcome) PROVE Inv'
  <2>1. /\ phase[c] = "started" /\ phase' = [phase EXCEPT ![c] = outcome]
        /\ requests' = requests + 1 /\ rows' = rows /\ holds' = holds
        /\ \/ outcome \in {"Succeeded", "Ambiguous"} /\ effects' = effects + 1
           \/ outcome # "Succeeded" /\ effects' = effects
    BY <1>6 DEF Request
  <2>2. Last.state = "AttemptStarted" /\ requests < Last.attempts /\ effects = 0
    BY <2>1 DEF LedgerInv, CallerHoldsLast
  <2>3. effects' \in {0, 1} /\ (outcome = "Succeeded" => effects' = 1)
        /\ (outcome \in {"KnownNoSend", "DefinitiveFailure"} => effects' = 0)
    BY <2>1, <2>2
  <2>4. TypeOK'
    BY <2>1, <2>3, <1>t DEF TypeOK, Outcomes
  <2>5. HistoryIsALine' /\ AttemptsAreRows'
    BY <2>1 DEF HistoryIsALine, AttemptsAreRows, Counted, Last
  <2>6. LastRowTells'
    BY <2>1, <2>2, <2>3, <1>h, <1>t DEF LastRowTells, Last, Reserved
  <2>7. CallerHoldsLast'
    <3>1. \A d \in Callers : phase'[d] # "idle" => d = c
      BY <2>1, <1>h, <1>t
    <3>2. phase'[c] = outcome /\ Last' = Last
      BY <2>1, <1>t DEF Last
    <3> QED BY <2>1, <2>2, <2>3, <1>h, <3>1, <3>2 DEF CallerHoldsLast, Outcomes
  <2> QED BY <2>4, <2>5, <2>6, <2>7 DEF LedgerInv
<1>7. ASSUME classify_outcome(c) PROVE Inv'
  <2> DEFINE r == Answered(holds[c], phase[c])
  <2>1. /\ phase[c] \in Outcomes /\ phase[c] # "idle" /\ Last.state = "AttemptStarted"
        /\ phase[c] = "Succeeded" => effects = 1
        /\ phase[c] \in {"KnownNoSend", "DefinitiveFailure"} => effects = 0
    BY <1>7 DEF classify_outcome, LedgerInv, CallerHoldsLast, Outcomes
  <2>2. /\ classified(holds[c], phase[c]) \in Final \cup {"KnownNoSendRetryable"}
        /\ classified(holds[c], phase[c]) = "KnownNoSendRetryable" => holds[c].attempts < 3
        /\ classified(holds[c], phase[c]) \in {"KnownNoSendRetryable", "DefinitiveFailed"} => effects = 0
        /\ classified(holds[c], phase[c]) = "Succeeded" => effects = 1
    BY <2>1 DEF classified, Final, Outcomes
  <2>3. r \in LedgerRecord /\ r.state = classified(holds[c], phase[c]) /\ r.attempts = Last.attempts
        /\ r.generation = Len(rows) /\ Last.attempts # 0
    <3>1. holds[c] = Last /\ Last \in LedgerRecord /\ Last.attempts # 0
          /\ Last.generation = Len(rows) - 1 /\ Len(rows) \in Nat
      BY <2>1, <1>h
    <3>2. classified(holds[c], phase[c]) \in States
      BY <2>2 DEF Final, States
    <3> QED BY <3>1, <3>2, AnsweredRecord
  <2>4. CASE rows' = Append(rows, r) /\ Hold(c, r, "classified") /\ UNCHANGED <<requests, effects>>
    BY <2>1, <2>2, <2>3, <2>4, <1>h, AppendKeepsInv DEF Reserved, Final
  <2>5. CASE phase' = [phase EXCEPT ![c] = "idle"] /\ UNCHANGED <<rows, holds, requests, effects>>
    BY <2>5, LeaveKeepsInv
  <2> QED BY <1>7, <2>4, <2>5 DEF classify_outcome, AppendAndHold
<1>8. ASSUME Leave(c) PROVE Inv'
  BY <1>8, LeaveKeepsInv DEF Leave
<1> QED BY <1>2, <1>3, <1>4, <1>5, <1>6, <1>7, <1>8

\* The inductive invariant of a ledger whose callers take turns (ledger.rs).
LEMMA Invariance == ASSUME Serialized PROVE Spec => []Inv
<1>1. Init => Inv
  BY InitInv
<1>2. Inv /\ [Next]_vars => Inv'
  BY NextInv
<1> QED BY <1>1, <1>2, PTL DEF Spec

\* Spec => []TypeOK: every row that is ever appended is a well-formed operation.
THEOREM TypeCorrect == ASSUME Serialized PROVE Spec => []TypeOK
<1>1. Inv => TypeOK
  BY DEF Inv
<1> QED BY <1>1, Invariance, PTL

\* Spec => []LedgerInv: with one caller at a time the last row always tells how
\* often, and with what effect, the provider was asked.
THEOREM LastRowIsTruth == ASSUME Serialized PROVE Spec => []LedgerInv
<1>1. Inv => LedgerInv
  BY DEF Inv
<1> QED BY <1>1, Invariance, PTL

\* Spec => []AtMostOneEffect: the provider carries out the operation at most
\* once, however often it is replayed, retried or interrupted.
THEOREM OneEffect == ASSUME Serialized PROVE Spec => []AtMostOneEffect
<1>1. Inv => AtMostOneEffect
  BY DEF Inv, LedgerInv, LastRowTells, AtMostOneEffect
<1> QED BY <1>1, Invariance, PTL

\* Spec => []AtMostThreeRequests: the attempt limit holds across callers.
THEOREM ThreeRequests == ASSUME Serialized PROVE Spec => []AtMostThreeRequests
<1>1. Inv => AtMostThreeRequests
  <2> SUFFICES ASSUME Inv PROVE requests <= 3
    BY DEF AtMostThreeRequests
  <2>1. CASE rows = <<>>
    BY <2>1 DEF Inv, LedgerInv, LastRowTells
  <2>2. CASE rows # <<>>
    <3>1. Last.attempts \in 0..3 /\ requests \in Nat
      BY <2>2, LastIsRow, RecordFields DEF Inv, TypeOK
    <3> QED BY <2>2, <3>1 DEF Inv, LedgerInv, LastRowTells
  <2> QED BY <2>1, <2>2
<1> QED BY <1>1, Invariance, PTL

\* Spec => []DurableBeforeRequest: each request follows a durable row of its own.
THEOREM DurableFirst == ASSUME Serialized PROVE Spec => []DurableBeforeRequest
<1>1. Inv => DurableBeforeRequest
  <2> SUFFICES ASSUME Inv PROVE DurableBeforeRequest
    OBVIOUS
  <2>1. requests <= Counted /\ requests \in Nat /\ Counted \in Nat
    BY LastIsRow, RecordFields DEF Inv, TypeOK, LedgerInv, LastRowTells, Counted
  <2> QED BY <2>1 DEF Inv, AttemptsAreRows, DurableBeforeRequest
<1> QED BY <1>1, Invariance, PTL

\* Spec => []UnknownFateBlocksCursor: while a carried out operation is not
\* recorded as succeeded, the dependent cursor is held back.
THEOREM CursorWaits == ASSUME Serialized PROVE Spec => []UnknownFateBlocksCursor
<1>1. Inv => UnknownFateBlocksCursor
  <2> SUFFICES ASSUME Inv, effects > 0, NEW r \in Latest
               PROVE  r.state = "Succeeded" \/ blocks_dependent_cursor(r.state)
    BY DEF UnknownFateBlocksCursor
  <2>1. rows # <<>> /\ r = Last
    BY LatestIsLast DEF Inv
  <2>2. r.state \in States
    BY <2>1, LastIsRow, RecordFields DEF Inv
  <2>3. r.state \notin {"Pending", "KnownNoSendRetryable", "DefinitiveFailed"} /\ r.state \notin Reserved
    BY <2>1 DEF Inv, LedgerInv, LastRowTells
  <2> QED BY <2>2, <2>3 DEF blocks_dependent_cursor, States
<1> QED BY <1>1, Invariance, PTL

\* Spec => []HistoryIsALine: exactly one row is current.
THEOREM OneCurrentRow == ASSUME Serialized PROVE Spec => []HistoryIsALine
<1>1. Inv => HistoryIsALine
  BY DEF Inv
<1> QED BY <1>1, Invariance, PTL
==============================================================================
