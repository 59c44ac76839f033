------------------------ MODULE LoopCommands_proofs ------------------------
(***************************************************************************)
(* Theorems about the commands of a loop, for every set of loops, keys and *)
(* references, every clock and any number of transitions.                  *)
(***************************************************************************)
EXTENDS LoopCommands, SequenceTheorems, FiniteSetTheorems, TLAPS

\* The inductive invariant: the ledger names exactly the keyed transitions.
Inv == TypeOK /\ LedgerIsTheHistory

Unmoved(m) == loop'[m] = loop[m] /\ log'[m] = log[m]

Grown(m, f, e) ==
    /\ HasNext(m)
    /\ loop'[m] = [facets |-> f, version |-> loop[m].version + 1]
    /\ log'[m] = Append(log[m], e)

\* A transition that carries no key.
Keyless(m) == Unmoved(m) \/ \E f \in LegalFacets, e \in Entry : Grown(m, f, e) /\ e.key = NoKey

\* What every step does to the loops: some stay, the others grow by one.
Stepped ==
    /\ loop' = [m \in Loops |-> loop'[m]]
    /\ log' = [m \in Loops |-> log'[m]]
    /\ \A m \in Loops : Unmoved(m) \/ \E f \in LegalFacets, e \in Entry : Grown(m, f, e)

\* A grown loop has one entry more, which is the latest; the others stay.
LEMMA LogGrows ==
  ASSUME TypeOK, NEW m \in Loops, NEW f \in LegalFacets, NEW e \in Entry, Grown(m, f, e)
  PROVE  /\ log'[m] \in Seq(Entry)
         /\ Len(log'[m]) = Len(log[m]) + 1
         /\ Len(log[m]) \in Nat
         /\ \A i \in 1 .. Len(log[m]) : log'[m][i] = log[m][i]
         /\ log'[m][Len(log[m]) + 1] = e
         /\ Latest(log'[m]) = e
<1>1. log[m] \in Seq(Entry)
  BY DEF TypeOK
<1>2. log'[m] = Append(log[m], e)
  BY DEF Grown
<1> QED BY <1>1, <1>2, AppendProperties, LenProperties DEF Latest

\* Steps that grow loops by legal facets keep their types, and a version counts
\* the transitions (record.rs, Loop).
LEMMA StepTypes ==
  ASSUME TypeOK, Stepped
  PROVE  /\ loop' \in [Loops -> [facets : LegalFacets, version : 1 .. MaxVersion]]
         /\ log' \in [Loops -> Seq(Entry)]
         /\ \A l \in Loops : loop'[l].version = Len(log'[l]) + 1
<1>1. ASSUME NEW m \in Loops
      PROVE  /\ loop'[m] \in [facets : LegalFacets, version : 1 .. MaxVersion]
             /\ log'[m] \in Seq(Entry)
             /\ loop'[m].version = Len(log'[m]) + 1
  <2>1. /\ loop[m] \in [facets : LegalFacets, version : 1 .. MaxVersion]
        /\ log[m] \in Seq(Entry)
        /\ loop[m].version = Len(log[m]) + 1
        /\ Len(log[m]) \in Nat
    BY LenProperties DEF TypeOK
  <2>2. CASE Unmoved(m)
    BY <2>1, <2>2 DEF Unmoved
  <2>3. CASE \E f \in LegalFacets, e \in Entry : Grown(m, f, e)
    <3>1. PICK f \in LegalFacets, e \in Entry : Grown(m, f, e)
      BY <2>3
    <3>2. loop[m].version < MaxVersion /\ loop'[m] = [facets |-> f, version |-> loop[m].version + 1]
      BY <3>1 DEF Grown, HasNext
    <3>3. loop[m].version + 1 \in 1 .. MaxVersion
      BY <2>1, <3>2, LoopAssumption
    <3>4. /\ loop'[m] \in [facets : LegalFacets, version : 1 .. MaxVersion]
          /\ loop'[m].version = loop[m].version + 1
      BY <3>2, <3>3
    <3>5. log'[m] \in Seq(Entry) /\ Len(log'[m]) = Len(log[m]) + 1
      BY <3>1, LogGrows
    <3> QED BY <2>1, <3>4, <3>5
  <2> QED BY <2>2, <2>3 DEF Stepped
<1>2. /\ loop' = [m \in Loops |-> loop'[m]]
      /\ log' = [m \in Loops |-> log'[m]]
  BY DEF Stepped
<1>3. loop' \in [Loops -> [facets : LegalFacets, version : 1 .. MaxVersion]]
  BY <1>1, <1>2
<1>4. log' \in [Loops -> Seq(Entry)]
  BY <1>1, <1>2
<1> QED BY <1>1, <1>3, <1>4

\* A step that carries no key leaves the ledger true.
LEMMA KeylessStep ==
  ASSUME Inv, Stepped, ledger' = ledger,
         \A m \in Loops : Keyless(m)
  PROVE  LedgerIsTheHistory'
<1> USE DEF Inv
<1>1. ASSUME NEW m \in Loops
      PROVE  /\ \A i \in DOMAIN log[m] : i \in DOMAIN log'[m] /\ log'[m][i] = log[m][i]
             /\ \A i \in DOMAIN log'[m] : i \in DOMAIN log[m] \/ log'[m][i].key = NoKey
  <2>1. log[m] \in Seq(Entry) /\ DOMAIN log[m] = 1 .. Len(log[m])
    BY LenProperties DEF TypeOK
  <2>2. CASE Unmoved(m)
    BY <2>2 DEF Unmoved
  <2>3. CASE \E f \in LegalFacets, e \in Entry : Grown(m, f, e) /\ e.key = NoKey
    <3>1. PICK f \in LegalFacets, e \in Entry : Grown(m, f, e) /\ e.key = NoKey
      BY <2>3
    <3>2. /\ DOMAIN log'[m] = 1 .. Len(log[m]) + 1
          /\ Len(log[m]) \in Nat
          /\ \A i \in 1 .. Len(log[m]) : log'[m][i] = log[m][i]
          /\ log'[m][Len(log[m]) + 1] = e
      BY <3>1, LogGrows, LenProperties
    <3> QED BY <2>1, <3>1, <3>2
  <2> QED BY <2>2, <2>3 DEF Keyless
<1>2. ASSUME NEW k \in Keys, ledger[k] # NoEntry
      PROVE  /\ ledger[k].version - 1 \in DOMAIN log'[ledger[k].loop]
             /\ log'[ledger[k].loop][ledger[k].version - 1].key = k
  <2>1. ledger[k].loop \in Loops
    BY <1>2 DEF TypeOK, Record
  <2> QED BY <1>1, <1>2, <2>1 DEF LedgerIsTheHistory
<1>3. ASSUME NEW l \in Loops, NEW i \in DOMAIN log'[l], log'[l][i].key # NoKey
      PROVE  /\ ledger[log'[l][i].key] # NoEntry
             /\ ledger[log'[l][i].key].loop = l
             /\ ledger[log'[l][i].key].version = i + 1
  <2>1. i \in DOMAIN log[l] /\ log'[l][i] = log[l][i]
    BY <1>1, <1>3
  <2> QED BY <1>3, <2>1 DEF LedgerIsTheHistory
<1> QED BY <1>2, <1>3 DEF LedgerIsTheHistory

\* Ending a loop leads to facets (the six builders of command.rs that end one).
LEMMA EndedFacets ==
  ASSUME NEW f \in Facets, NEW r \in Resolutions
  PROVE  Ended(f, r) \in Facets
BY DEF Ended, Facets, Obligations, ClosureReviews

\* A command that is built leads to facets, legal because the transition was
\* accepted.
LEMMA BuiltLegal ==
  ASSUME TypeOK, NEW l \in Loops, NEW p \in Payloads, Buildable(l, p)
  PROVE  Built(p, loop[l].facets) \in LegalFacets
<1> DEFINE f == loop[l].facets
<1>1. f \in Facets
  BY DEF TypeOK, LegalFacets
<1>2. p.cmd = "DismissClassify" => p.to \in Resolutions
  BY DEF Payloads, Payload, CorrectionOutcomes, Resolutions
<1>3. /\ [f EXCEPT !.obligation = "Open"] \in Facets
      /\ [f EXCEPT !.closure = "KeptOpen"] \in Facets
      /\ [f EXCEPT !.closure = "EvidenceRequested"] \in Facets
      /\ [f EXCEPT !.obligation = "Open", !.resolution = "None",
                   !.closure = "None", !.needsReview = TRUE] \in Facets
  BY <1>1 DEF Facets, Obligations, Resolutions, ClosureReviews
<1>4. \A r \in Resolutions : Ended(f, r) \in Facets
  BY <1>1, EndedFacets
<1>5. {"Closed", "Declined", "Moot", "CompletedOutsideEmail", "Delegated"} \subseteq Resolutions
  BY DEF Resolutions
<1>6. Built(p, f) \in Facets
  BY <1>1, <1>2, <1>3, <1>4, <1>5 DEF Built
<1>7. Legal(Built(p, f))
  BY DEF Buildable, Accepted
<1> QED BY <1>6, <1>7 DEF LegalFacets

\* What an analysis proposes are facets (hypothesis.rs, project).
LEMMA ProposalsAreFacets ==
  ASSUME NEW f \in Facets, NEW new \in Proposals(f)
  PROVE  new \in Facets
<1>1. \A u, r, s \in BOOLEAN : Projection(u, r, s) \in ClosureReviews
  BY DEF Projection, ClosureReviews
<1>2. \A c \in ClosureReviews : [f EXCEPT !.closure = c] \in Facets
  BY DEF Facets
<1>3. \A r \in Resolutions \ {"None"} : Ended(f, r) \in Facets
  BY EndedFacets
<1>4. /\ [f EXCEPT !.obligation = "Open"] \in Facets
      /\ [f EXCEPT !.obligation = "Open", !.resolution = "None"] \in Facets
      /\ \A s \in SourceStates : [f EXCEPT !.source = s] \in Facets
  BY DEF Facets, Obligations, Resolutions
<1> QED BY <1>1, <1>2, <1>3, <1>4 DEF Proposals

\* A transition of the automated actor is a step of one loop, without a key,
\* that leaves the resolution alone.
LEMMA SystemSteps ==
  ASSUME TypeOK, NEW l \in Loops, NEW new \in Facets, NEW refs, NEW reason \in Reasons,
         SystemTransition(l, new, refs, reason)
  PROVE  /\ Stepped
         /\ \A m \in Loops : Keyless(m)
         /\ \A m \in Loops : loop'[m].facets.resolution = loop[m].facets.resolution
         /\ ledger' = ledger /\ due' = due /\ now' = now
<1> DEFINE e == [actor |-> "system", key |-> NoKey, reason |-> reason, with |-> Unaddressed]
<1>1. /\ new \in LegalFacets
      /\ new.resolution = loop[l].facets.resolution
  BY DEF SystemTransition, Accepted, LegalFacets
<1>2. e \in Entry /\ e.key = NoKey
  BY DEF Entry, Reasons
<1>3. Grown(l, new, e)
  BY DEF SystemTransition, Committed, Logged, Grown, TypeOK
<1>4. \A m \in Loops \ {l} : Unmoved(m)
  BY DEF SystemTransition, Unmoved, TypeOK
<1>5. /\ loop' = [m \in Loops |-> loop'[m]]
      /\ log' = [m \in Loops |-> log'[m]]
  BY DEF SystemTransition, TypeOK
<1>6. \A m \in Loops : Keyless(m)
  BY <1>1, <1>2, <1>3, <1>4 DEF Keyless
<1>7. \A m \in Loops : loop'[m].facets.resolution = loop[m].facets.resolution
  BY <1>1, <1>3, <1>4 DEF Grown, Unmoved
<1> QED BY <1>5, <1>6, <1>7 DEF Stepped, Keyless, SystemTransition

\* The three automated steps are such transitions.
LEMMA AutomatedSteps ==
  ASSUME TypeOK, NEW l \in Loops,
         \/ \E new \in Proposals(loop[l].facets) : Propose(l, new)
         \/ Age(l)
         \/ \E ref \in Evidence : TerminalReviewNote(l, ref)
  PROVE  /\ Stepped
         /\ \A m \in Loops : Keyless(m)
         /\ \A m \in Loops : loop'[m].facets.resolution = loop[m].facets.resolution
         /\ ledger' = ledger /\ due' = due /\ now' = now
<1> "Proposed" \in Reasons /\ "Aged" \in Reasons /\ "Noted" \in Reasons
  BY DEF Reasons
<1>1. loop[l].facets \in Facets
  BY DEF TypeOK, LegalFacets
<1>2. CASE \E new \in Proposals(loop[l].facets) : Propose(l, new)
  <2>1. PICK new \in Proposals(loop[l].facets) : Propose(l, new)
    BY <1>2
  <2>2. new \in Facets
    BY <1>1, ProposalsAreFacets
  <2>3. SystemTransition(l, new, <<>>, "Proposed")
    BY <2>1 DEF Propose
  <2> QED BY <2>2, <2>3, SystemSteps
<1>3. CASE Age(l)
  <2>1. ProjectAging(due[l], now) \in DeadlineStates
    BY DEF ProjectAging, DeadlineStates
  <2>2. [loop[l].facets EXCEPT !.deadline = ProjectAging(due[l], now)] \in Facets
    BY <1>1, <2>1 DEF Facets
  <2>3. SystemTransition(l, [loop[l].facets EXCEPT !.deadline = ProjectAging(due[l], now)],
                         <<>>, "Aged")
    BY <1>3 DEF Age
  <2> QED BY <2>2, <2>3, SystemSteps
<1>4. CASE \E ref \in Evidence : TerminalReviewNote(l, ref)
  <2>1. [loop[l].facets EXCEPT !.needsReview = TRUE] \in Facets
    BY <1>1 DEF Facets
  <2>2. PICK ref \in Evidence : TerminalReviewNote(l, ref)
    BY <1>4
  <2>3. SystemTransition(l, [loop[l].facets EXCEPT !.needsReview = TRUE], <<ref>>, "Noted")
    BY <2>2 DEF TerminalReviewNote
  <2> QED BY <2>1, <2>3, SystemSteps
<1> QED BY <1>2, <1>3, <1>4

\* A remap and a merge are steps of two loops, without a key.
LEMMA RemapSteps ==
  ASSUME TypeOK, NEW source \in Loops, NEW target \in Loops, NEW v, NEW w,
         NEW ref \in Evidence, RemapEvidence(source, target, v, w, ref)
  PROVE  /\ Stepped
         /\ \A m \in Loops : Keyless(m)
         /\ \A m \in Loops : loop'[m].facets.resolution = loop[m].facets.resolution
         /\ ledger' = ledger /\ due' = due /\ now' = now
<1> DEFINE d == [actor |-> "user", key |-> NoKey, reason |-> "RemappedFrom", with |-> target]
           a == [actor |-> "user", key |-> NoKey, reason |-> "RemappedTo", with |-> source]
<1>1. loop[source].facets \in LegalFacets /\ loop[target].facets \in LegalFacets
  BY DEF TypeOK
<1>2. d \in Entry /\ a \in Entry /\ d.key = NoKey /\ a.key = NoKey
  BY DEF Entry, Reasons
<1>3. Grown(source, loop[source].facets, d) /\ Grown(target, loop[target].facets, a)
  BY DEF RemapEvidence, Committed, Logged, Grown, TypeOK
<1>4. \A m \in Loops \ {source, target} : Unmoved(m)
  BY DEF RemapEvidence, Unmoved, TypeOK
<1>5. /\ loop' = [m \in Loops |-> loop'[m]]
      /\ log' = [m \in Loops |-> log'[m]]
  BY DEF RemapEvidence, TypeOK
<1>6. \A m \in Loops : Keyless(m)
  BY <1>1, <1>2, <1>3, <1>4 DEF Keyless
<1>7. \A m \in Loops : loop'[m].facets.resolution = loop[m].facets.resolution
  BY <1>3, <1>4 DEF Grown, Unmoved
<1> QED BY <1>5, <1>6, <1>7 DEF Stepped, Keyless, RemapEvidence

\* A merge is a step of two loops, without a key (apply_duplicate_merge).
LEMMA MergeSteps ==
  ASSUME TypeOK, NEW survivor \in Loops, NEW loser \in Loops, NEW v, NEW w, NEW refs,
         DuplicateMerge(survivor, loser, v, w, refs)
  PROVE  /\ Stepped
         /\ \A m \in Loops : Keyless(m)
         /\ \A m \in Loops \ {loser} :
                loop'[m].facets.resolution = loop[m].facets.resolution
         /\ loop[loser].facets.resolution = "None"
         /\ Latest(log'[loser]).actor = "user"
         /\ ledger' = ledger /\ due' = due /\ now' = now
<1> DEFINE s == [actor |-> "user", key |-> NoKey, reason |-> "MergeSurvivor", with |-> loser]
           e == [actor |-> "user", key |-> NoKey, reason |-> "MergeLoser", with |-> survivor]
           f == loop[loser].facets
<1>1. loop[survivor].facets \in LegalFacets /\ f \in LegalFacets
  BY DEF TypeOK
<1>2. Ended(f, "Dismissed") \in LegalFacets
  <2>1. Ended(f, "Dismissed") \in Facets
    BY <1>1, EndedFacets DEF LegalFacets, Resolutions
  <2> QED BY <2>1 DEF DuplicateMerge, LoserAccepted, Accepted, LegalFacets
<1>3. s \in Entry /\ e \in Entry /\ s.key = NoKey /\ e.key = NoKey
  BY DEF Entry, Reasons
<1>4. Grown(survivor, loop[survivor].facets, s)
  BY DEF DuplicateMerge, Committed, Logged, Grown, TypeOK
<1>5. Grown(loser, Ended(f, "Dismissed"), e)
  BY DEF DuplicateMerge, Committed, Logged, Grown, TypeOK
<1>6. \A m \in Loops \ {survivor, loser} : Unmoved(m)
  BY DEF DuplicateMerge, Unmoved, TypeOK
<1>7. /\ loop' = [m \in Loops |-> loop'[m]]
      /\ log' = [m \in Loops |-> log'[m]]
  BY DEF DuplicateMerge, TypeOK
<1>8. \A m \in Loops : Keyless(m)
  BY <1>1, <1>2, <1>3, <1>4, <1>5, <1>6 DEF Keyless
<1>9. \A m \in Loops \ {loser} : loop'[m].facets.resolution = loop[m].facets.resolution
  BY <1>4, <1>6 DEF Grown, Unmoved
<1>10. f.resolution = "None"
  BY <1>1 DEF DuplicateMerge, LegalFacets, Legal
<1>11. Latest(log'[loser]).actor = "user"
  <2>1. Latest(log'[loser]) = e
    BY <1>2, <1>3, <1>5, LogGrows
  <2> QED BY <2>1
<1> QED BY <1>7, <1>8, <1>9, <1>10, <1>11 DEF Stepped, Keyless, DuplicateMerge

\* An applied command is a step of one loop under a key that was free.
LEMMA CommandSteps ==
  ASSUME Inv, NEW k \in Keys, NEW l \in Loops, NEW p \in Payloads, NEW v,
         ApplyCommand(k, l, p, v)
  PROVE  /\ Stepped
         /\ ledger' \in [Keys -> Record \cup {NoEntry}]
         /\ LedgerIsTheHistory'
         /\ \A m \in Loops \ {l} : loop'[m].facets.resolution = loop[m].facets.resolution
         /\ Latest(log'[l]).actor = "user" /\ Latest(log'[l]).reason = p.cmd
         /\ loop'[l].facets = Built(p, loop[l].facets)
         /\ Precondition(p, loop[l].facets)
         /\ due' = due /\ now' = now
<1> DEFINE f == Built(p, loop[l].facets)
           e == [actor |-> "user", key |-> k, reason |-> p.cmd, with |-> Unaddressed]
           r == [payload |-> p, loop |-> l, version |-> loop[l].version + 1]
           n == Len(log[l])
<1> USE DEF Inv
<1>1. ledger[k] = NoEntry /\ Buildable(l, p)
  BY DEF ApplyCommand, Answer
<1>2. f \in LegalFacets
  BY <1>1, BuiltLegal
<1>3. p.cmd \in Commands
  BY DEF Payloads, Payload, Commands
<1>4. e \in Entry /\ e.key = k /\ e.actor = "user" /\ e.reason = p.cmd
  BY <1>3 DEF Entry, Reasons
<1>5. Grown(l, f, e)
  BY <1>1 DEF ApplyCommand, Buildable, Committed, Logged, Grown, TypeOK
<1>6. \A m \in Loops \ {l} : Unmoved(m)
  BY DEF ApplyCommand, Unmoved, TypeOK
<1>7. /\ loop' = [m \in Loops |-> loop'[m]]
      /\ log' = [m \in Loops |-> log'[m]]
  BY DEF ApplyCommand, TypeOK
<1>8. Stepped
  BY <1>2, <1>4, <1>5, <1>6, <1>7 DEF Stepped
<1>9. /\ log'[l] \in Seq(Entry) /\ Len(log'[l]) = n + 1 /\ n \in Nat
      /\ \A i \in 1 .. n : log'[l][i] = log[l][i]
      /\ log'[l][n + 1] = e
      /\ Latest(log'[l]) = e
  BY <1>2, <1>4, <1>5, LogGrows
<1>10. loop[l].version = n + 1 /\ loop[l].version \in 1 .. MaxVersion
  BY DEF TypeOK
<1>11. r \in Record /\ r.loop = l /\ r.version = n + 2
  <2>1. loop[l].version + 1 \in 1 .. MaxVersion
    BY <1>5, <1>10, LoopAssumption DEF Grown, HasNext
  <2> QED BY <1>9, <1>10, <2>1 DEF Record
<1>12. ledger' = [ledger EXCEPT ![k] = r]
  BY DEF ApplyCommand
<1>13. ledger' \in [Keys -> Record \cup {NoEntry}]
  BY <1>11, <1>12 DEF TypeOK
<1>14. DOMAIN log'[l] = 1 .. n + 1 /\ DOMAIN log[l] = 1 .. n
  BY <1>9, LenProperties DEF TypeOK
<1>15. \A j \in Keys \ {k} : ledger'[j] = ledger[j]
  BY <1>12 DEF TypeOK
<1>16. ledger'[k] = r
  BY <1>12 DEF TypeOK
<1>17. ASSUME NEW j \in Keys, ledger'[j] # NoEntry
       PROVE  /\ ledger'[j].version - 1 \in DOMAIN log'[ledger'[j].loop]
              /\ log'[ledger'[j].loop][ledger'[j].version - 1].key = j
  <2>1. CASE j = k
    BY <2>1, <1>4, <1>9, <1>11, <1>14, <1>16
  <2>2. CASE j # k
    <3>1. ledger'[j] = ledger[j] /\ ledger[j] # NoEntry /\ ledger[j].loop \in Loops
      BY <2>2, <1>15, <1>17 DEF TypeOK, Record
    <3>2. /\ ledger[j].version - 1 \in DOMAIN log[ledger[j].loop]
          /\ log[ledger[j].loop][ledger[j].version - 1].key = j
      BY <3>1 DEF LedgerIsTheHistory
    <3>3. CASE ledger[j].loop = l
      BY <3>1, <3>2, <3>3, <1>9, <1>14
    <3>4. CASE ledger[j].loop # l
      BY <3>1, <3>2, <3>4, <1>6 DEF Unmoved
    <3> QED BY <3>3, <3>4
  <2> QED BY <2>1, <2>2
<1>18. ASSUME NEW m \in Loops, NEW i \in DOMAIN log'[m], log'[m][i].key # NoKey
       PROVE  /\ ledger'[log'[m][i].key] # NoEntry
              /\ ledger'[log'[m][i].key].loop = m
              /\ ledger'[log'[m][i].key].version = i + 1
  <2>1. CASE m = l /\ i = n + 1
    <3>1. log'[m][i].key = k
      BY <2>1, <1>4, <1>9
    <3>2. r # NoEntry
      BY <1>11, NoEntryAssumption
    <3> QED BY <2>1, <3>1, <3>2, <1>9, <1>11, <1>16
  <2>2. CASE ~(m = l /\ i = n + 1)
    <3>1. i \in DOMAIN log[m] /\ log'[m][i] = log[m][i]
      BY <2>2, <1>6, <1>9, <1>14 DEF Unmoved
    <3>2. /\ ledger[log[m][i].key] # NoEntry
          /\ ledger[log[m][i].key].loop = m
          /\ ledger[log[m][i].key].version = i + 1
      BY <3>1, <1>18 DEF LedgerIsTheHistory
    <3>3. log[m][i].key \in Keys
      <4>1. log[m] \in Seq(Entry)
        BY DEF TypeOK
      <4>2. log[m][i] \in Entry
        BY <3>1, <4>1
      <4> QED BY <3>1, <4>2, <1>18 DEF Entry
    <3>4. log[m][i].key \in Keys \ {k}
      BY <3>2, <3>3, <1>1
    <3>5. ledger'[log[m][i].key] = ledger[log[m][i].key]
      BY <3>4, <1>15
    <3>6. log'[m][i].key = log[m][i].key
      BY <3>1
    <3> QED BY <3>2, <3>5, <3>6
  <2> QED BY <2>1, <2>2
<1>19. LedgerIsTheHistory'
  BY <1>17, <1>18 DEF LedgerIsTheHistory
<1>20. \A m \in Loops \ {l} : loop'[m].facets.resolution = loop[m].facets.resolution
  BY <1>6 DEF Unmoved
<1>21. loop'[l].facets = f
  BY <1>5 DEF Grown
<1>22. Precondition(p, loop[l].facets)
  BY <1>1 DEF Buildable
<1> QED BY <1>4, <1>8, <1>9, <1>13, <1>19, <1>20, <1>21, <1>22 DEF ApplyCommand

-----------------------------------------------------------------------------
\* Every loop is established with legal facets and an empty ledger
\* (establishment.rs, decide).
LEMMA InitInv == Init => Inv
<1> SUFFICES ASSUME Init PROVE Inv
  OBVIOUS
<1>1. \A d \in Dues : Established(d) \subseteq LegalFacets
  <2> SUFFICES ASSUME NEW d \in Dues, NEW f \in Established(d)
               PROVE  f \in Facets /\ Legal(f)
    BY DEF LegalFacets
  <2> DEFINE dl == CASE d = NoDate -> "Unresolved"
                     [] d = Undated -> "UndatedConfirmed"
                     [] OTHER -> "Scheduled"
  <2>1. dl \in DeadlineStates /\ dl # "Approaching" /\ dl # "Overdue"
    BY DEF DeadlineStates
  <2>2. PICK o \in {"Candidate", "Open"} :
            f = [obligation |-> o, resolution |-> "None", closure |-> "None",
                 deadline |-> dl, source |-> "Available",
                 needsReview |-> o = "Candidate"]
    BY DEF Established
  <2> HIDE DEF dl
  <2>3. (o = "Candidate") \in BOOLEAN
    OBVIOUS
  <2>4. f \in Facets
    BY <2>1, <2>2, <2>3 DEF Facets, Obligations, Resolutions, ClosureReviews, SourceStates
  <2>5. Legal(f)
    BY <2>1, <2>2 DEF Legal
  <2> QED BY <2>4, <2>5
<1>2. loop \in [Loops -> [facets : LegalFacets, version : 1 .. MaxVersion]]
  <2>1. PICK first \in [Loops -> UNION {Established(d) : d \in Dues}] :
            /\ \A l \in Loops : first[l] \in Established(due[l])
            /\ loop = [l \in Loops |-> [facets |-> first[l], version |-> 1]]
    BY DEF Init
  <2>2. \A l \in Loops : first[l] \in LegalFacets
    BY <1>1, <2>1 DEF Init
  <2>3. 1 \in 1 .. MaxVersion
    BY LoopAssumption
  <2> QED BY <2>1, <2>2, <2>3
<1>3. \A l \in Loops : log[l] = <<>> /\ loop[l].version = 1
  BY DEF Init
<1>4. TypeOK
  BY <1>2, <1>3, LoopAssumption DEF Init, TypeOK
<1>5. LedgerIsTheHistory
  BY <1>3 DEF Init, LedgerIsTheHistory
<1> QED BY <1>4, <1>5 DEF Inv

\* Each command, remap, merge and automated step preserves the invariant.
LEMMA NextInv == Inv /\ [Next]_vars => Inv'
<1> SUFFICES ASSUME Inv, [Next]_vars PROVE Inv'
  OBVIOUS
<1> USE DEF Inv
<1>1. ASSUME Stepped, \A m \in Loops : Keyless(m),
             ledger' = ledger, due' = due, now' = now
      PROVE  Inv'
  <2>1. TypeOK'
    BY <1>1, StepTypes DEF TypeOK
  <2>2. LedgerIsTheHistory'
    BY <1>1, KeylessStep
  <2> QED BY <2>1, <2>2
<1>2. ASSUME UNCHANGED <<loop, ledger, log, due>>, now' \in 0 .. MaxTime
      PROVE  Inv'
  BY <1>2 DEF TypeOK, LedgerIsTheHistory
<1>3. ASSUME NEW k \in Keys, NEW l \in Loops, NEW p \in Payloads, NEW v,
             ApplyCommand(k, l, p, v)
      PROVE  Inv'
  <2>1. /\ Stepped /\ LedgerIsTheHistory'
        /\ ledger' \in [Keys -> Record \cup {NoEntry}]
        /\ due' = due /\ now' = now
    BY <1>3, CommandSteps
  <2> QED BY <2>1, StepTypes DEF TypeOK
<1>4. ASSUME NEW a \in Loops, NEW b \in Loops, NEW v, NEW w, NEW ref \in Evidence,
             RemapEvidence(a, b, v, w, ref)
      PROVE  Inv'
  BY <1>1, <1>4, RemapSteps
<1>5. ASSUME NEW a \in Loops, NEW b \in Loops, NEW v, NEW w, NEW refs,
             DuplicateMerge(a, b, v, w, refs)
      PROVE  Inv'
  BY <1>1, <1>5, MergeSteps
<1>6. ASSUME NEW l \in Loops,
             \/ \E new \in Proposals(loop[l].facets) : Propose(l, new)
             \/ Age(l)
             \/ \E ref \in Evidence : TerminalReviewNote(l, ref)
      PROVE  Inv'
  BY <1>1, <1>6, AutomatedSteps
<1>7. CASE Tick
  <2>1. now' \in 0 .. MaxTime
    BY <1>7, LoopAssumption DEF Tick, TypeOK
  <2> QED BY <1>2, <1>7, <2>1 DEF Tick
<1>8. CASE AnswerOnly \/ UNCHANGED vars
  <2>1. UNCHANGED vars
    BY <1>8 DEF AnswerOnly
  <2>2. now' \in 0 .. MaxTime
    BY <2>1 DEF vars, TypeOK
  <2> QED BY <1>2, <2>1, <2>2 DEF vars
<1> QED BY <1>3, <1>4, <1>5, <1>6, <1>7, <1>8 DEF Next

\* The inductive invariant: types, and the ledger and the history of the loops
\* tell the same (command.rs, Ledger).
THEOREM Invariance == Spec => []Inv
BY InitInv, NextInv, PTL DEF Spec

(***************************************************************************)
(* Every loop keeps facets that are legal together, and a version that     *)
(* counts its transitions: `legality::validate` and "exactly one           *)
(* transition and one version per command".                                *)
(***************************************************************************)
THEOREM LoopsAreTyped == Spec => []TypeOK
<1>1. Inv => TypeOK
  BY DEF Inv
<1> QED BY Invariance, <1>1, PTL

(***************************************************************************)
(* A key of a user command changes the loops at most once, over every      *)
(* sequence of commands, merges, reopenings and automated updates.         *)
(***************************************************************************)
THEOREM KeysApplyOnce == Spec => []AppliedOnce
<1>1. Inv => AppliedOnce
  <2> SUFFICES ASSUME Inv, NEW l \in Loops, NEW m \in Loops,
                      NEW i \in DOMAIN log[l], NEW j \in DOMAIN log[m],
                      log[l][i].key = log[m][j].key, log[l][i].key # NoKey
               PROVE  l = m /\ i = j
    BY DEF AppliedOnce
  <2>1. /\ ledger[log[l][i].key].loop = l /\ ledger[log[l][i].key].version = i + 1
        /\ ledger[log[m][j].key].loop = m /\ ledger[log[m][j].key].version = j + 1
    BY DEF Inv, LedgerIsTheHistory
  <2>2. i \in Nat /\ j \in Nat
    <3>1. log[l] \in Seq(Entry) /\ log[m] \in Seq(Entry)
      BY DEF Inv, TypeOK
    <3> QED BY <3>1, LenProperties
  <2> QED BY <2>1, <2>2
<1> QED BY Invariance, <1>1, PTL

(***************************************************************************)
(* A resolution changes only by a user's transition, and one that is given *)
(* only by a reopening (legality rules 2 and 10).                          *)
(***************************************************************************)
StandsIn(l) ==
    loop'[l].facets.resolution # loop[l].facets.resolution =>
        /\ Latest(log'[l]).actor = "user"
        /\ loop[l].facets.resolution # "None" => Latest(log'[l]).reason = "Reopen"

\* An applied command changes a resolution as its user, and one that is given
\* only by Reopen.
LEMMA CommandStands ==
  ASSUME Inv, NEW k \in Keys, NEW l \in Loops, NEW p \in Payloads, NEW v,
         ApplyCommand(k, l, p, v)
  PROVE  \A m \in Loops : StandsIn(m)
<1> DEFINE f == loop[l].facets
<1>1. /\ \A m \in Loops \ {l} : loop'[m].facets.resolution = loop[m].facets.resolution
      /\ Latest(log'[l]).actor = "user" /\ Latest(log'[l]).reason = p.cmd
      /\ loop'[l].facets = Built(p, f)
      /\ Precondition(p, f)
  BY CommandSteps
<1>2. f \in Facets /\ Legal(f)
  BY DEF Inv, TypeOK, LegalFacets
<1>3. Built(p, f).resolution # f.resolution /\ f.resolution # "None" => p.cmd = "Reopen"
  <2>1. SUFFICES ASSUME f.obligation = "Terminal", p.cmd # "Reopen"
                 PROVE  Built(p, f) = f
    BY <1>2 DEF Legal
  <2>2. p.cmd = "SelectDifferent"
    BY <1>1, <2>1 DEF Precondition, AllowedFrom
  <2> QED BY <2>2 DEF Built
<1> QED BY <1>1, <1>3 DEF StandsIn

\* Nothing but a transition of the user changes a resolution, and one that is
\* given is only taken back by reopening the loop (transition.rs, Transition::new).
THEOREM UsersDecide == Spec => DecisionsStand
<1>1. Inv /\ [Next]_vars => [\A l \in Loops : StandsIn(l)]_vars
  <2> SUFFICES ASSUME Inv, Next PROVE \A l \in Loops : StandsIn(l)
    OBVIOUS
  <2> USE DEF Inv
  <2>1. ASSUME NEW k \in Keys, NEW l \in Loops, NEW p \in Payloads, NEW v,
               ApplyCommand(k, l, p, v)
        PROVE  \A m \in Loops : StandsIn(m)
    BY <2>1, CommandStands
  <2>2. ASSUME NEW a \in Loops, NEW b \in Loops, NEW v, NEW w, NEW ref \in Evidence,
               RemapEvidence(a, b, v, w, ref)
        PROVE  \A m \in Loops : StandsIn(m)
    BY <2>2, RemapSteps DEF StandsIn
  <2>3. ASSUME NEW a \in Loops, NEW b \in Loops, NEW v, NEW w, NEW refs,
               DuplicateMerge(a, b, v, w, refs)
        PROVE  \A m \in Loops : StandsIn(m)
    BY <2>3, MergeSteps DEF StandsIn
  <2>4. ASSUME NEW l \in Loops,
               \/ \E new \in Proposals(loop[l].facets) : Propose(l, new)
               \/ Age(l)
               \/ \E ref \in Evidence : TerminalReviewNote(l, ref)
        PROVE  \A m \in Loops : StandsIn(m)
    BY <2>4, AutomatedSteps DEF StandsIn
  <2>5. CASE Tick \/ AnswerOnly
    BY <2>5 DEF Tick, AnswerOnly, StandsIn, vars
  <2> QED BY <2>1, <2>2, <2>3, <2>4, <2>5 DEF Next
<1>2. [\A l \in Loops : StandsIn(l)]_vars =>
          [\A l \in Loops : loop'[l].facets.resolution # loop[l].facets.resolution =>
             /\ Latest(log'[l]).actor = "user"
             /\ loop[l].facets.resolution # "None" => Latest(log'[l]).reason = "Reopen"]_vars
  BY DEF StandsIn
<1> QED BY Invariance, <1>1, <1>2, PTL DEF Spec, DecisionsStand

-----------------------------------------------------------------------------
\* The facets of an ended loop are legal unless its deadline is aging.
LEMMA EndedLegal ==
  ASSUME NEW f \in Facets, f.deadline \notin {"Approaching", "Overdue"},
         NEW r \in Resolutions \ {"None"}
  PROVE  Legal(Ended(f, r))
BY DEF Ended, Legal, Facets

\* Every builder leads to legal facets unless the deadline is aging
\* (command.rs, the build functions).
LEMMA BuildersStayLegal ==
  ASSUME NEW f \in Facets, Legal(f), f.deadline \notin {"Approaching", "Overdue"},
         NEW p \in Payloads, Precondition(p, f)
  PROVE  Legal(Built(p, f))
<1>1. p.cmd \in Commands
  BY DEF Payloads, Payload, Commands
<1>2. p.cmd = "DismissClassify" => p.to \in Resolutions \ {"None"}
  BY DEF Payloads, Payload, CorrectionOutcomes, Resolutions
<1>3. \A r \in Resolutions \ {"None"} : Legal(Ended(f, r))
  BY EndedLegal
<1>4. {"Closed", "Declined", "Moot", "CompletedOutsideEmail", "Delegated"}
          \subseteq Resolutions \ {"None"}
  BY DEF Resolutions
<1>5. CASE p.cmd \in {"ConfirmFulfilled", "ConfirmDeclined", "ConfirmMoot",
                      "CompletedOutside", "DismissClassify"}
  BY <1>2, <1>3, <1>4, <1>5 DEF Built
<1>6. CASE p.cmd = "ConfirmTransfer"
  BY <1>3, <1>4, <1>6 DEF Built
<1>7. CASE p.cmd = "SelectDifferent"
  BY <1>7 DEF Built
<1>8. CASE p.cmd = "ConfirmMine"
  BY <1>8 DEF Built, Precondition, AllowedFrom, Legal, Facets
<1>9. CASE p.cmd \in {"KeepOpen", "RequestEvidence"}
  BY <1>9 DEF Built, Precondition, AllowedFrom, Legal, Facets
<1>10. CASE p.cmd = "Reopen"
  BY <1>10 DEF Built, Legal, Facets
<1> QED BY <1>1, <1>5, <1>6, <1>7, <1>8, <1>9, <1>10 DEF Commands

(***************************************************************************)
(* Aging is the only reason of the loop's own: a command that may be given *)
(* and cites what it must is built unless the deadline is near or past,    *)
(* also when the source has changed or is gone, which no builder of        *)
(* command.rs and no check of Transition::new looks at.                    *)
(***************************************************************************)
THEOREM BuiltWhateverTheSource ==
  Spec => [](\A l \in Loops :
               HasNext(l) /\ loop[l].facets.deadline \notin {"Approaching", "Overdue"} =>
                 \A p \in Payloads :
                   Precondition(p, loop[l].facets) /\ RefsFit(p.refs) => Buildable(l, p))
<1>1. Inv => \A l \in Loops :
               HasNext(l) /\ loop[l].facets.deadline \notin {"Approaching", "Overdue"} =>
                 \A p \in Payloads :
                   Precondition(p, loop[l].facets) /\ RefsFit(p.refs) => Buildable(l, p)
  <2> SUFFICES ASSUME Inv, NEW l \in Loops, HasNext(l),
                      loop[l].facets.deadline \notin {"Approaching", "Overdue"},
                      NEW p \in Payloads, Precondition(p, loop[l].facets), RefsFit(p.refs)
               PROVE  Buildable(l, p)
    OBVIOUS
  <2>1. loop[l].facets \in Facets /\ Legal(loop[l].facets)
    BY DEF Inv, TypeOK, LegalFacets
  <2>2. Legal(Built(p, loop[l].facets))
    BY <2>1, BuildersStayLegal
  <2> QED BY <2>2 DEF Buildable, Accepted
<1> QED BY Invariance, <1>1, PTL

(***************************************************************************)
(* A command that may be given is built unless its loop is near or past    *)
(* its deadline or its source is not available: the builders leave no      *)
(* facet behind that is illegal.                                           *)
(***************************************************************************)
THEOREM RefusalsAreAging == Spec => []RefusedOnlyWhenAging
<1>1. (\A l \in Loops :
         HasNext(l) /\ loop[l].facets.deadline \notin {"Approaching", "Overdue"} =>
           \A p \in Payloads :
             Precondition(p, loop[l].facets) /\ RefsFit(p.refs) => Buildable(l, p))
      => RefusedOnlyWhenAging
  BY DEF RefusedOnlyWhenAging
<1> QED BY BuiltWhateverTheSource, <1>1, PTL

-----------------------------------------------------------------------------
(* Steps of two loops, counted in the logs of both. *)

HalfReasons == {"MergeSurvivor", "MergeLoser", "RemappedFrom", "RemappedTo"}

\* The halves a log holds are counted.
LEMMA HalvesFinite ==
  ASSUME TypeOK, NEW m \in Loops, NEW other, NEW reason
  PROVE  /\ IsFiniteSet(Halves(m, other, reason))
         /\ Cardinality(Halves(m, other, reason)) \in Nat
<1>1. Len(log[m]) \in Nat /\ DOMAIN log[m] = 1 .. Len(log[m])
  BY LenProperties DEF TypeOK
<1>2. Halves(m, other, reason) \in SUBSET (1 .. Len(log[m]))
  BY <1>1 DEF Halves
<1>3. IsFiniteSet(1 .. Len(log[m]))
  BY <1>1, FS_Interval
<1>4. IsFiniteSet(Halves(m, other, reason))
  BY <1>2, <1>3, FS_Subset
<1> QED BY <1>4, FS_CardinalityType

\* A loop that stays keeps its halves.
LEMMA HalvesStay ==
  ASSUME NEW m \in Loops, Unmoved(m), NEW other, NEW reason
  PROVE  Cardinality(Halves(m, other, reason)') = Cardinality(Halves(m, other, reason))
<1>1. Halves(m, other, reason)' = Halves(m, other, reason)
  BY DEF Unmoved, Halves
<1> QED BY <1>1

\* A loop that grows has one half more if its new entry is one.
LEMMA HalvesGrow ==
  ASSUME TypeOK, NEW m \in Loops, NEW f \in LegalFacets, NEW e \in Entry, Grown(m, f, e),
         NEW other, NEW reason
  PROVE  Cardinality(Halves(m, other, reason)') =
             IF e.reason = reason /\ e.with = other
             THEN Cardinality(Halves(m, other, reason)) + 1
             ELSE Cardinality(Halves(m, other, reason))
<1> DEFINE n == Len(log[m])
           before == Halves(m, other, reason)
<1>1. /\ DOMAIN log[m] = 1 .. n /\ DOMAIN log'[m] = 1 .. n + 1
      /\ n \in Nat
      /\ \A i \in 1 .. n : log'[m][i] = log[m][i]
      /\ log'[m][n + 1] = e
  BY LogGrows, LenProperties DEF TypeOK
<1>2. IsFiniteSet(before) /\ n + 1 \notin before
  <2>1. n + 1 \notin DOMAIN log[m]
    BY <1>1
  <2>2. n + 1 \notin before
    BY <2>1 DEF Halves
  <2> QED BY <2>2, HalvesFinite
<1>3. CASE e.reason = reason /\ e.with = other
  <2>1. Halves(m, other, reason)' = before \cup {n + 1}
    BY <1>1, <1>3 DEF Halves
  <2>2. Cardinality(before \cup {n + 1}) = Cardinality(before) + 1
    BY <1>2, FS_AddElement
  <2> QED BY <1>3, <2>1, <2>2
<1>4. CASE ~(e.reason = reason /\ e.with = other)
  <2>1. Halves(m, other, reason)' = before
    BY <1>1, <1>4 DEF Halves
  <2> QED BY <1>4, <2>1
<1> QED BY <1>3, <1>4

\* A step that is no merge and no remap adds no half.
LEMMA NoHalves ==
  ASSUME TypeOK, TwoLoopStepsAreWhole, Stepped,
         \A m \in Loops : Unmoved(m) \/ Latest(log'[m]).reason \notin HalfReasons
  PROVE  TwoLoopStepsAreWhole'
<1>1. ASSUME NEW m \in Loops, NEW other, NEW reason \in HalfReasons
      PROVE  Cardinality(Halves(m, other, reason)') = Cardinality(Halves(m, other, reason))
  <2>1. CASE Unmoved(m)
    BY <2>1, HalvesStay
  <2>2. CASE ~Unmoved(m)
    <3>1. PICK f \in LegalFacets, e \in Entry : Grown(m, f, e)
      BY <2>2 DEF Stepped
    <3>2. e.reason \notin HalfReasons
      BY <2>2, <3>1, LogGrows
    <3> QED BY <3>1, <3>2, HalvesGrow
  <2> QED BY <2>1, <2>2
<1> QED BY <1>1 DEF TwoLoopStepsAreWhole, HalfReasons

\* A step of loops a and b that logs one half each, naming the other.
LEMMA TwoHalves ==
  ASSUME TypeOK, TwoLoopStepsAreWhole, NEW a \in Loops, NEW b \in Loops, a # b,
         NEW f \in LegalFacets, NEW g \in LegalFacets, NEW d \in Entry, NEW e \in Entry,
         Grown(a, f, d), Grown(b, g, e), d.with = b, e.with = a,
         \/ d.reason = "MergeSurvivor" /\ e.reason = "MergeLoser"
         \/ d.reason = "RemappedFrom" /\ e.reason = "RemappedTo",
         \A m \in Loops \ {a, b} : Unmoved(m)
  PROVE  TwoLoopStepsAreWhole'
<1> DEFINE One(x, entry, m, other, reason) ==
               IF m = x /\ entry.reason = reason /\ entry.with = other THEN 1 ELSE 0
<1>1. ASSUME NEW m \in Loops, NEW other, NEW reason
      PROVE  Cardinality(Halves(m, other, reason)') =
                 Cardinality(Halves(m, other, reason))
                     + One(a, d, m, other, reason) + One(b, e, m, other, reason)
  <2>1. Cardinality(Halves(m, other, reason)) \in Nat
    BY HalvesFinite
  <2>2. CASE m \notin {a, b}
    BY <2>1, <2>2, HalvesStay
  <2>3. CASE m = a
    BY <2>1, <2>3, HalvesGrow
  <2>4. CASE m = b
    BY <2>1, <2>4, HalvesGrow
  <2> QED BY <2>2, <2>3, <2>4
<1>2. ASSUME NEW l \in Loops, NEW m \in Loops
      PROVE  /\ Cardinality(Halves(l, m, "MergeSurvivor")') = Cardinality(Halves(m, l, "MergeLoser")')
             /\ Cardinality(Halves(l, m, "RemappedFrom")') = Cardinality(Halves(m, l, "RemappedTo")')
  <2>1. /\ Cardinality(Halves(l, m, "MergeSurvivor")) = Cardinality(Halves(m, l, "MergeLoser"))
        /\ Cardinality(Halves(l, m, "RemappedFrom")) = Cardinality(Halves(m, l, "RemappedTo"))
    BY DEF TwoLoopStepsAreWhole
  <2>2. /\ One(a, d, l, m, "MergeSurvivor") = One(b, e, m, l, "MergeLoser")
        /\ One(b, e, l, m, "MergeSurvivor") = 0 /\ One(a, d, m, l, "MergeLoser") = 0
        /\ One(a, d, l, m, "RemappedFrom") = One(b, e, m, l, "RemappedTo")
        /\ One(b, e, l, m, "RemappedFrom") = 0 /\ One(a, d, m, l, "RemappedTo") = 0
    OBVIOUS
  <2> HIDE DEF One
  <2>3. /\ Cardinality(Halves(l, m, "MergeSurvivor")') =
             Cardinality(Halves(l, m, "MergeSurvivor"))
                 + One(a, d, l, m, "MergeSurvivor") + One(b, e, l, m, "MergeSurvivor")
        /\ Cardinality(Halves(m, l, "MergeLoser")') =
             Cardinality(Halves(m, l, "MergeLoser"))
                 + One(a, d, m, l, "MergeLoser") + One(b, e, m, l, "MergeLoser")
        /\ Cardinality(Halves(l, m, "RemappedFrom")') =
             Cardinality(Halves(l, m, "RemappedFrom"))
                 + One(a, d, l, m, "RemappedFrom") + One(b, e, l, m, "RemappedFrom")
        /\ Cardinality(Halves(m, l, "RemappedTo")') =
             Cardinality(Halves(m, l, "RemappedTo"))
                 + One(a, d, m, l, "RemappedTo") + One(b, e, m, l, "RemappedTo")
    BY <1>1
  <2>4. /\ One(a, d, l, m, "MergeSurvivor") \in Nat /\ One(a, d, l, m, "RemappedFrom") \in Nat
        /\ Cardinality(Halves(l, m, "MergeSurvivor")) \in Nat
        /\ Cardinality(Halves(l, m, "RemappedFrom")) \in Nat
    BY HalvesFinite DEF One
  <2> QED BY <2>1, <2>2, <2>3, <2>4
<1> QED BY <1>2 DEF TwoLoopStepsAreWhole

\* A transition of the automated actor logs its own reason.
LEMMA SystemReason ==
  ASSUME TypeOK, NEW l \in Loops, NEW new, NEW refs, NEW reason,
         SystemTransition(l, new, refs, reason)
  PROVE  /\ \A m \in Loops \ {l} : Unmoved(m)
         /\ Latest(log'[l]).reason = reason
<1> DEFINE e == [actor |-> "system", key |-> NoKey, reason |-> reason, with |-> Unaddressed]
<1>1. \A m \in Loops \ {l} : Unmoved(m)
  BY DEF SystemTransition, Unmoved, TypeOK
<1>2. log'[l] = Append(log[l], e) /\ log[l] \in Seq(Entry)
  BY DEF SystemTransition, Logged, TypeOK
<1>3. Latest(log'[l]) = e
  <2>1. log[l] \in Seq(Entry \cup {e})
    BY <1>2, LenProperties
  <2> QED BY <1>2, <2>1, AppendProperties, LenProperties DEF Latest
<1> QED BY <1>1, <1>3

\* TwoLoopStepsAreWhole for every set of loops and any number of steps: for each
\* half of a merge or a remap in one log there is one in the other
\* (apply_duplicate_merge, apply_remap_evidence).
THEOREM TwoLoopStepsStayWhole == Spec => []TwoLoopStepsAreWhole
<1>1. Init => TwoLoopStepsAreWhole
  <2> SUFFICES ASSUME Init PROVE TwoLoopStepsAreWhole
    OBVIOUS
  <2>1. \A l \in Loops : log[l] = <<>>
    BY DEF Init
  <2>2. \A l \in Loops : DOMAIN log[l] = {}
    BY <2>1
  <2>3. \A l, m \in Loops, reason \in HalfReasons : Halves(l, m, reason) = {}
    BY <2>2 DEF Halves
  <2> QED BY <2>3 DEF TwoLoopStepsAreWhole, HalfReasons
<1>2. Inv /\ TwoLoopStepsAreWhole /\ [Next]_vars => TwoLoopStepsAreWhole'
  <2> SUFFICES ASSUME Inv, TwoLoopStepsAreWhole, [Next]_vars PROVE TwoLoopStepsAreWhole'
    OBVIOUS
  <2> USE DEF Inv
  <2>1. ASSUME NEW k \in Keys, NEW l \in Loops, NEW p \in Payloads, NEW v,
               ApplyCommand(k, l, p, v)
        PROVE  TwoLoopStepsAreWhole'
    <3>1. Stepped /\ Latest(log'[l]).reason = p.cmd
      BY <2>1, CommandSteps
    <3>2. p.cmd \in Commands
      BY DEF Payloads, Payload, Commands
    <3>3. p.cmd \notin HalfReasons
      BY <3>2 DEF Commands, HalfReasons
    <3>4. \A m \in Loops \ {l} : Unmoved(m)
      BY <2>1 DEF ApplyCommand, Unmoved, TypeOK
    <3> QED BY <3>1, <3>3, <3>4, NoHalves
  <2>2. ASSUME NEW a \in Loops, NEW b \in Loops, NEW v, NEW w, NEW ref \in Evidence,
               RemapEvidence(a, b, v, w, ref)
        PROVE  TwoLoopStepsAreWhole'
    <3> DEFINE d == [actor |-> "user", key |-> NoKey, reason |-> "RemappedFrom", with |-> b]
               e == [actor |-> "user", key |-> NoKey, reason |-> "RemappedTo", with |-> a]
    <3>1. loop[a].facets \in LegalFacets /\ loop[b].facets \in LegalFacets
      BY DEF TypeOK
    <3>2. d \in Entry /\ e \in Entry
      BY DEF Entry, Reasons
    <3>3. Grown(a, loop[a].facets, d) /\ Grown(b, loop[b].facets, e) /\ a # b
      BY <2>2 DEF RemapEvidence, Committed, Logged, Grown, TypeOK
    <3>4. \A m \in Loops \ {a, b} : Unmoved(m)
      BY <2>2 DEF RemapEvidence, Unmoved, TypeOK
    <3> QED BY <3>1, <3>2, <3>3, <3>4, TwoHalves
  <2>3. ASSUME NEW a \in Loops, NEW b \in Loops, NEW v, NEW w, NEW refs,
               DuplicateMerge(a, b, v, w, refs)
        PROVE  TwoLoopStepsAreWhole'
    <3> DEFINE d == [actor |-> "user", key |-> NoKey, reason |-> "MergeSurvivor", with |-> b]
               e == [actor |-> "user", key |-> NoKey, reason |-> "MergeLoser", with |-> a]
               f == Ended(loop[b].facets, "Dismissed")
    <3>1. loop[a].facets \in LegalFacets /\ f \in LegalFacets
      <4>1. loop[b].facets \in Facets
        BY DEF TypeOK, LegalFacets
      <4>2. f \in Facets
        BY <4>1, EndedFacets DEF Resolutions
      <4> QED BY <2>3, <4>2 DEF DuplicateMerge, LoserAccepted, Accepted, LegalFacets, TypeOK
    <3>2. d \in Entry /\ e \in Entry
      BY DEF Entry, Reasons
    <3>3. Grown(a, loop[a].facets, d) /\ Grown(b, f, e) /\ a # b
      BY <2>3 DEF DuplicateMerge, Committed, Logged, Grown, TypeOK
    <3>4. \A m \in Loops \ {a, b} : Unmoved(m)
      BY <2>3 DEF DuplicateMerge, Unmoved, TypeOK
    <3> QED BY <3>1, <3>2, <3>3, <3>4, TwoHalves
  <2>4. ASSUME NEW l \in Loops,
               \/ \E new \in Proposals(loop[l].facets) : Propose(l, new)
               \/ Age(l)
               \/ \E ref \in Evidence : TerminalReviewNote(l, ref)
        PROVE  TwoLoopStepsAreWhole'
    <3>1. Stepped
      BY <2>4, AutomatedSteps
    <3>2. \E new, refs : \E reason \in {"Proposed", "Aged", "Noted"} :
              SystemTransition(l, new, refs, reason)
      BY <2>4 DEF Propose, Age, TerminalReviewNote
    <3>3. \A m \in Loops : Unmoved(m) \/ Latest(log'[m]).reason \notin HalfReasons
      BY <3>2, SystemReason DEF HalfReasons
    <3> QED BY <3>1, <3>3, NoHalves
  <2>5. CASE Tick \/ AnswerOnly \/ UNCHANGED vars
    <3>1. log' = log
      BY <2>5 DEF Tick, AnswerOnly, vars
    <3>2. \A l, m \in Loops : \A reason : Halves(l, m, reason)' = Halves(l, m, reason)
      BY <3>1 DEF Halves
    <3> QED BY <3>2 DEF TwoLoopStepsAreWhole
  <2> QED BY <2>1, <2>2, <2>3, <2>4, <2>5 DEF Next
<1> QED BY Invariance, <1>1, <1>2, PTL DEF Spec
=============================================================================
