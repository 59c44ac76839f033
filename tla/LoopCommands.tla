---------------------------- MODULE LoopCommands ----------------------------
(***************************************************************************)
(* The loops of openloops-domain: what a user command, a merge, a remap    *)
(* or an automated update may do to the state of a loop.                   *)
(*                                                                         *)
(* A client sends a command with a key of its own and the version of the   *)
(* loop it looked at.  It may send a command again, late, with the version *)
(* brought up to date, or with another payload under the same key, so      *)
(* every combination of key, loop, payload and past version is a request.  *)
(* `apply_command` looks the key up first, compares the version next and   *)
(* builds the transition last; what it returns as applied is committed in  *)
(* the same step, as the contract of the ledger asks of its caller.        *)
(***************************************************************************)
EXTENDS Integers, Sequences, FiniteSets

CONSTANTS Loops, Keys, Evidence,
          EvidenceLists,   \* the lists of references a command may carry
          Boundaries,      \* instants a deadline may fall on
          Lead,            \* how long before its deadline a loop approaches it
          MaxRefs,         \* SOURCE_REF_BOUND
          MaxVersion,      \* the last version there is
          MaxTime,         \* the clock stops here
          NoKey, NoEntry, Unaddressed,
          NoDate, Undated, Soft

ASSUME LoopAssumption ==
    /\ EvidenceLists \subseteq Seq(Evidence)
    /\ Boundaries \subseteq Int
    /\ Lead \in Nat
    /\ MaxRefs \in Nat
    /\ MaxVersion \in Nat \ {0}
    /\ MaxTime \in Nat
    /\ NoKey \notin Keys
    /\ Unaddressed \notin Loops
    /\ {NoDate, Undated, Soft} \cap Boundaries = {}

Obligations == {"Candidate", "Open", "Terminal"}
Resolutions == {"None", "Closed", "Declined", "Delegated", "Moot",
                "Dismissed", "CompletedOutsideEmail"}
ClosureReviews == {"None", "Possible", "KeptOpen", "EvidenceRequested"}
DeadlineStates == {"Unresolved", "UndatedConfirmed", "Scheduled",
                   "Approaching", "Overdue"}

\* "Changed" stands for every source that is not, or not wholly, available.
SourceStates == {"Available", "Changed"}

Facets == [obligation : Obligations, resolution : Resolutions,
           closure : ClosureReviews, deadline : DeadlineStates,
           source : SourceStates, needsReview : BOOLEAN]

\* `legality::validate`.
Legal(f) ==
    /\ f.obligation = "Terminal" <=> f.resolution # "None"
    /\ f.closure # "None" => f.obligation = "Open"
    /\ f.deadline \in {"Approaching", "Overdue"} => f.obligation = "Open"

LegalFacets == {f \in Facets : Legal(f)}

Dues == Boundaries \cup {NoDate, Undated, Soft}

CorrectionOutcomes == {"Delegated", "Moot", "Dismissed"}

\* A command names what it wants and the evidence it cites; `to` is the
\* resolution a dismissal's reason leads to.
Payload(cmd, refs, to) == [cmd |-> cmd, refs |-> refs, to |-> to]
OneRef == {<<e>> : e \in Evidence}
UpToOneRef == {<<>>} \cup OneRef
Payloads ==
    {Payload(c, <<>>, "None") : c \in {"ConfirmMine", "KeepOpen", "RequestEvidence",
                                       "CompletedOutside", "Reopen"}}
        \cup {Payload("ConfirmFulfilled", r, "None") : r \in EvidenceLists}
        \cup {Payload(c, r, "None") : c \in {"ConfirmDeclined", "ConfirmMoot"},
                                      r \in UpToOneRef}
        \cup {Payload("ConfirmTransfer", r, t) : r \in UpToOneRef,
                                                 t \in {"Delegated", "None"}}
        \cup {Payload("SelectDifferent", r, "None") : r \in OneRef}
        \cup {Payload("DismissClassify", <<>>, t) : t \in CorrectionOutcomes}

VARIABLES loop,    \* [Loops -> the facets of the loop and its version]
          ledger,  \* [Keys -> NoEntry or the payload and the transition recorded]
          log,     \* [Loops -> the transitions committed, oldest first]
          due,     \* [Loops -> the deadline evidence of the loop]
          now

vars == <<loop, ledger, log, due, now>>

Commands == {"ConfirmMine", "ConfirmFulfilled", "ConfirmDeclined", "ConfirmMoot",
             "ConfirmTransfer", "KeepOpen", "RequestEvidence", "SelectDifferent",
             "CompletedOutside", "DismissClassify", "Reopen"}

Reasons == Commands \cup {"RemappedFrom", "RemappedTo", "MergeSurvivor", "MergeLoser",
                          "Proposed", "Aged", "Noted"}

Entry == [actor : {"user", "system"}, key : Keys \cup {NoKey}, reason : Reasons,
          with : Loops \cup {Unaddressed}]

Record == [payload : Payloads, loop : Loops, version : 1 .. MaxVersion]

ASSUME NoEntryAssumption == NoEntry \notin Record

TypeOK ==
    /\ loop \in [Loops -> [facets : LegalFacets, version : 1 .. MaxVersion]]
    /\ ledger \in [Keys -> Record \cup {NoEntry}]
    /\ log \in [Loops -> Seq(Entry)]
    /\ \A l \in Loops : loop[l].version = Len(log[l]) + 1
    /\ due \in [Loops -> Dues]
    /\ now \in 0 .. MaxTime

-----------------------------------------------------------------------------
\* The references of a transition: not too many, none twice.
RefsFit(refs) ==
    /\ Len(refs) <= MaxRefs
    /\ \A i, j \in DOMAIN refs : refs[i] = refs[j] => i = j

\* Mutants: a transition whose facets are not checked, and one that does not
\* ask who makes it.
AcceptedUnchecked(actor, prior, new, refs) ==
    /\ actor = "system" => /\ new.obligation = "Terminal" => prior.obligation = "Terminal"
                           /\ new.resolution = prior.resolution
    /\ RefsFit(refs)
AcceptedFromAll(actor, prior, new, refs) ==
    /\ actor = actor /\ prior = prior
    /\ RefsFit(refs)
    /\ Legal(new)

\* `Transition::new`: the checks every change of a loop goes through.
Accepted(actor, prior, new, refs) ==
    /\ actor = "system" => /\ new.obligation = "Terminal" => prior.obligation = "Terminal"
                           /\ new.resolution = prior.resolution
    /\ RefsFit(refs)
    /\ Legal(new)

HasNext(l) == loop[l].version < MaxVersion

\* Commits a transition of one loop: its facets, the next version, its entry.
Committed(l, new) == [facets |-> new, version |-> loop[l].version + 1]
Logged(l, actor, key, reason, with) ==
    Append(log[l], [actor |-> actor, key |-> key, reason |-> reason, with |-> with])

-----------------------------------------------------------------------------
\* Mutant: an ending that keeps the closure review of the loop.
EndedInReview(f, resolution) ==
    [f EXCEPT !.obligation = "Terminal", !.resolution = resolution]

\* The builders of command.rs.
Ended(f, resolution) ==
    [f EXCEPT !.obligation = "Terminal", !.resolution = resolution, !.closure = "None"]

AllowedFrom(cmd) ==
    CASE cmd = "ConfirmMine" -> {"Candidate"}
      [] cmd \in {"ConfirmFulfilled", "KeepOpen", "RequestEvidence"} -> {"Open"}
      [] cmd = "Reopen" -> {"Terminal"}
      [] cmd = "SelectDifferent" -> Obligations
      [] OTHER -> {"Candidate", "Open"}

Precondition(p, f) ==
    /\ f.obligation \in AllowedFrom(p.cmd)
    /\ p.cmd = "ConfirmFulfilled" => p.refs # <<>>
    /\ p.cmd = "KeepOpen" => f.closure = "Possible"

Built(p, f) ==
    CASE p.cmd = "ConfirmMine" -> [f EXCEPT !.obligation = "Open"]
      [] p.cmd = "ConfirmFulfilled" -> Ended(f, "Closed")
      [] p.cmd = "ConfirmDeclined" -> Ended(f, "Declined")
      [] p.cmd = "ConfirmMoot" -> Ended(f, "Moot")
      [] p.cmd = "CompletedOutside" -> Ended(f, "CompletedOutsideEmail")
      [] p.cmd = "DismissClassify" -> Ended(f, p.to)
      [] p.cmd = "ConfirmTransfer" /\ p.to = "Delegated" -> Ended(f, "Delegated")
      [] p.cmd = "KeepOpen" -> [f EXCEPT !.closure = "KeptOpen"]
      [] p.cmd = "RequestEvidence" -> [f EXCEPT !.closure = "EvidenceRequested"]
      [] p.cmd = "Reopen" -> [f EXCEPT !.obligation = "Open", !.resolution = "None",
                                       !.closure = "None", !.needsReview = TRUE]
      [] OTHER -> f

\* `build_transition` returns a transition of loop l and no rejection.
Buildable(l, p) ==
    LET f == loop[l].facets IN
    /\ Precondition(p, f)
    /\ HasNext(l)
    /\ Accepted("user", f, Built(p, f), p.refs)

\* The versions of a loop a client may have looked at: this one or an older.
Seen(l) == 1 .. loop[l].version

\* Mutant: the version is compared and the key is not looked up.
AnswerByVersion(k, l, p, expected) ==
    IF expected # loop[l].version THEN "RefreshConflict"
    ELSE IF Buildable(l, p) THEN "Applied" ELSE "Rejected"

\* `apply_command`: what the caller is told.
Answer(k, l, p, expected) ==
    IF ledger[k] # NoEntry
    THEN IF ledger[k].payload = p THEN "Replayed" ELSE "KeyCollision"
    ELSE IF expected # loop[l].version THEN "RefreshConflict"
    ELSE IF Buildable(l, p) THEN "Applied" ELSE "Rejected"

ApplyCommand(k, l, p, expected) ==
    /\ Answer(k, l, p, expected) = "Applied"
    /\ loop' = [loop EXCEPT ![l] = Committed(l, Built(p, loop[l].facets))]
    /\ ledger' = [ledger EXCEPT ![k] =
         [payload |-> p, loop |-> l, version |-> loop[l].version + 1]]
    /\ log' = [log EXCEPT ![l] = Logged(l, "user", k, p.cmd, Unaddressed)]
    /\ UNCHANGED <<due, now>>

\* Every other answer leaves the loops and the ledger as they are.
AnswerOnly ==
    IF \E k \in Keys, l \in Loops, p \in Payloads :
          \E expected \in Seen(l) : Answer(k, l, p, expected) # "Applied"
    THEN UNCHANGED vars
    ELSE FALSE

-----------------------------------------------------------------------------
\* `apply_remap_evidence`: detach from one loop, attach to another.  The
\* function is given two states and does not compare their loops; its caller
\* names two, here and in a merge.
RemapEvidence(source, target, sourceExpected, targetExpected, ref) ==
    LET s == loop[source].facets
        t == loop[target].facets
    IN
    /\ source # target
    /\ sourceExpected = loop[source].version
    /\ targetExpected = loop[target].version
    /\ HasNext(source) /\ HasNext(target)
    /\ Accepted("user", s, s, <<ref>>)
    /\ Accepted("user", t, t, <<ref>>)
    /\ loop' = [loop EXCEPT ![source] = Committed(source, s),
                            ![target] = Committed(target, t)]
    /\ log' = [log EXCEPT
                 ![source] = Logged(source, "user", NoKey, "RemappedFrom", target),
                 ![target] = Logged(target, "user", NoKey, "RemappedTo", source)]
    /\ UNCHANGED <<ledger, due, now>>

\* The survivor's half and the loser's half of a merge, each as its transition
\* is built: the survivor keeps its facets, the loser is dismissed.
SurvivorAccepted(survivor, refs) ==
    LET s == loop[survivor].facets IN Accepted("user", s, s, refs)
LoserAccepted(loser) ==
    LET f == loop[loser].facets IN Accepted("user", f, Ended(f, "Dismissed"), <<>>)

\* Mutant: the survivor's half is committed before the loser's is built.
MergeByHalves(survivor, loser, survivorExpected, loserExpected, refs) ==
    LET f == loop[loser].facets
        whole == HasNext(loser) /\ LoserAccepted(loser)
    IN
    /\ survivor # loser
    /\ survivorExpected = loop[survivor].version
    /\ loserExpected = loop[loser].version
    /\ f.obligation # "Terminal"
    /\ refs # <<>>
    /\ HasNext(survivor)
    /\ SurvivorAccepted(survivor, refs)
    /\ loop' = [loop EXCEPT ![survivor] = Committed(survivor, loop[survivor].facets),
                            ![loser] = IF whole THEN Committed(loser, Ended(f, "Dismissed"))
                                       ELSE @]
    /\ log' = [log EXCEPT
                 ![survivor] = Logged(survivor, "user", NoKey, "MergeSurvivor", loser),
                 ![loser] = IF whole THEN Logged(loser, "user", NoKey, "MergeLoser", survivor)
                            ELSE @]
    /\ UNCHANGED <<ledger, due, now>>

\* `apply_duplicate_merge`: both transitions or neither.
DuplicateMerge(survivor, loser, survivorExpected, loserExpected, refs) ==
    LET s == loop[survivor].facets
        f == loop[loser].facets
    IN
    /\ survivor # loser
    /\ survivorExpected = loop[survivor].version
    /\ loserExpected = loop[loser].version
    /\ f.obligation # "Terminal"
    /\ refs # <<>>
    /\ HasNext(survivor) /\ HasNext(loser)
    /\ SurvivorAccepted(survivor, refs)
    /\ LoserAccepted(loser)
    /\ loop' = [loop EXCEPT ![survivor] = Committed(survivor, s),
                            ![loser] = Committed(loser, Ended(f, "Dismissed"))]
    /\ log' = [log EXCEPT
                 ![survivor] = Logged(survivor, "user", NoKey, "MergeSurvivor", loser),
                 ![loser] = Logged(loser, "user", NoKey, "MergeLoser", survivor)]
    /\ UNCHANGED <<ledger, due, now>>

-----------------------------------------------------------------------------
\* `hypothesis::project`.
Projection(unsuppressed, requested, suppressed) ==
    CASE unsuppressed -> "Possible"
      [] ~unsuppressed /\ requested -> "EvidenceRequested"
      [] ~unsuppressed /\ ~requested /\ suppressed -> "KeptOpen"
      [] OTHER -> "None"

\* `project_aging` for a loop that is open.
ProjectAging(d, time) ==
    CASE d = NoDate -> "Unresolved"
      [] d = Undated -> "UndatedConfirmed"
      [] d = Soft -> "Scheduled"
      [] OTHER -> IF time >= d THEN "Overdue"
                  ELSE IF time >= d - Lead THEN "Approaching"
                  ELSE "Scheduled"

\* What an analysis may offer for a loop: a closure review, a promotion, what
\* became of its source, and, because a hypothesis is not trusted, an ending or
\* a reopening.
Proposals(f) ==
    {[f EXCEPT !.closure = Projection(u, r, s)] : u, r, s \in BOOLEAN}
        \cup {[f EXCEPT !.obligation = "Open"]}
        \cup {[f EXCEPT !.source = s] : s \in SourceStates}
        \cup {Ended(f, r) : r \in Resolutions \ {"None"}}
        \cup {[f EXCEPT !.obligation = "Open", !.resolution = "None"]}

\* A transition of the automated actor.
SystemTransition(l, new, refs, reason) ==
    /\ HasNext(l)
    /\ Accepted("system", loop[l].facets, new, refs)
    /\ loop' = [loop EXCEPT ![l] = Committed(l, new)]
    /\ log' = [log EXCEPT ![l] = Logged(l, "system", NoKey, reason, Unaddressed)]
    /\ UNCHANGED <<ledger, due, now>>

Propose(l, new) ==
    /\ new # loop[l].facets
    /\ SystemTransition(l, new, <<>>, "Proposed")

Age(l) ==
    LET f == loop[l].facets
        aged == ProjectAging(due[l], now)
    IN
    /\ f.obligation = "Open"
    /\ aged # f.deadline
    /\ SystemTransition(l, [f EXCEPT !.deadline = aged], <<>>, "Aged")

\* `apply_terminal_review_note`.
TerminalReviewNote(l, ref) ==
    LET f == loop[l].facets IN
    /\ f.obligation = "Terminal"
    /\ SystemTransition(l, [f EXCEPT !.needsReview = TRUE], <<ref>>, "Noted")

Tick ==
    /\ now < MaxTime
    /\ now' = now + 1
    /\ UNCHANGED <<loop, ledger, log, due>>

-----------------------------------------------------------------------------
\* `establishment::decide`: a detection becomes an open loop, or a candidate
\* that needs review.  `Loop::new` starts it at the first version.
Established(d) ==
    {[obligation |-> o, resolution |-> "None", closure |-> "None",
      deadline |-> CASE d = NoDate -> "Unresolved"
                     [] d = Undated -> "UndatedConfirmed"
                     [] OTHER -> "Scheduled",
      source |-> "Available",
      needsReview |-> o = "Candidate"] : o \in {"Candidate", "Open"}}

Init ==
    /\ due \in [Loops -> Dues]
    /\ \E first \in [Loops -> UNION {Established(d) : d \in Dues}] :
           /\ \A l \in Loops : first[l] \in Established(due[l])
           /\ loop = [l \in Loops |-> [facets |-> first[l], version |-> 1]]
    /\ ledger = [k \in Keys |-> NoEntry]
    /\ log = [l \in Loops |-> <<>>]
    /\ now = 0

Next ==
    \/ \E k \in Keys, l \in Loops, p \in Payloads :
           \E expected \in Seen(l) : ApplyCommand(k, l, p, expected)
    \/ AnswerOnly
    \/ \E source, target \in Loops, ref \in Evidence :
           \E s \in Seen(source), t \in Seen(target) :
               RemapEvidence(source, target, s, t, ref)
    \/ \E survivor, loser \in Loops, refs \in EvidenceLists :
           \E s \in Seen(survivor), t \in Seen(loser) :
               DuplicateMerge(survivor, loser, s, t, refs)
    \/ \E l \in Loops : \E new \in Proposals(loop[l].facets) : Propose(l, new)
    \/ \E l \in Loops : Age(l)
    \/ \E l \in Loops, ref \in Evidence : TerminalReviewNote(l, ref)
    \/ Tick

Spec == Init /\ [][Next]_vars

-----------------------------------------------------------------------------
(***************************************************************************)
(* A key changes the loops at most once, whatever a client sends under it: *)
(* a command that is sent again with the version brought up to date, after *)
(* the loop was reopened or moved on, is answered with the old transition  *)
(* (`transition_policy.reopen_generation`).                                *)
(***************************************************************************)
AppliedOnce ==
    \A l, m \in Loops : \A i \in DOMAIN log[l], j \in DOMAIN log[m] :
        log[l][i].key = log[m][j].key /\ log[l][i].key # NoKey => l = m /\ i = j

\* What the ledger holds is the history of the loops, and every command of
\* the history is in the ledger: what makes the lookup enough.
LedgerIsTheHistory ==
    /\ \A k \in Keys : ledger[k] # NoEntry =>
           LET r == ledger[k] IN
           r.version - 1 \in DOMAIN log[r.loop] /\ log[r.loop][r.version - 1].key = k
    /\ \A l \in Loops : \A i \in DOMAIN log[l] :
           LET k == log[l][i].key IN
           k # NoKey => /\ ledger[k] # NoEntry
                        /\ ledger[k].loop = l
                        /\ ledger[k].version = i + 1

(***************************************************************************)
(* No analysis and no deadline decides how a loop ends or brings it back:  *)
(* a resolution changes only in a transition of the user, and one that is  *)
(* given is taken away only by a reopening, never replaced.                *)
(***************************************************************************)
Latest(s) == s[Len(s)]

DecisionsStand ==
    [][\A l \in Loops : loop'[l].facets.resolution # loop[l].facets.resolution =>
          /\ Latest(log'[l]).actor = "user"
          /\ loop[l].facets.resolution # "None" => Latest(log'[l]).reason = "Reopen"]_vars

(***************************************************************************)
(* A merge and a remap change both loops or neither, also when the second  *)
(* transition is one that `Transition::new` refuses.                       *)
(***************************************************************************)
Halves(l, other, reason) ==
    {i \in DOMAIN log[l] : log[l][i].reason = reason /\ log[l][i].with = other}

TwoLoopStepsAreWhole ==
    \A l, m \in Loops :
        /\ Cardinality(Halves(l, m, "MergeSurvivor")) = Cardinality(Halves(m, l, "MergeLoser"))
        /\ Cardinality(Halves(l, m, "RemappedFrom")) = Cardinality(Halves(m, l, "RemappedTo"))

(***************************************************************************)
(* A command that may be given and cites what it must is built, whatever   *)
(* came before it, unless its loop approaches or is past its deadline or   *)
(* its source is no longer available: no builder leaves a facet behind     *)
(* that the others forbid.  (For a source that is gone legality.rs, rule   *)
(* 8, says that a command is refused; no builder looks at it.)             *)
(***************************************************************************)
RefusedOnlyWhenAging ==
    \A l \in Loops :
        /\ HasNext(l)
        /\ loop[l].facets.deadline \notin {"Approaching", "Overdue"}
        /\ loop[l].facets.source = "Available"
        => \A p \in Payloads :
             Precondition(p, loop[l].facets) /\ RefsFit(p.refs) => Buildable(l, p)

(***************************************************************************)
(* The contract allows five commands to end a loop that is open.  There    *)
(* should be one that does.                                                *)
(***************************************************************************)
OpenLoopsCanBeEnded ==
    \A l \in Loops : loop[l].facets.obligation = "Open" /\ HasNext(l) =>
        \E p \in Payloads :
            Buildable(l, p) /\ Built(p, loop[l].facets).obligation = "Terminal"
=============================================================================
