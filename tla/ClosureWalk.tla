------------------------------ MODULE ClosureWalk ------------------------------
(***************************************************************************)
(* The end of a scan: does later mail close or change the open loops?      *)
(* (review_scan.rs, closure_walk.rs, and the merge in review_model.rs.)    *)
(*                                                                         *)
(* With a decision model every open loop is walked through its later       *)
(* messages in time order, all loops in step: one round asks about the     *)
(* next message of each walk, a follow-up round about the person or the    *)
(* date a message names.  What the decision model is unsure of is put to   *)
(* the chat model at the end; without a decision model that is the whole   *)
(* pass.  A check for new mail offers the loops of untouched conversations *)
(* too and carries over only what it suggests for them.  Any request may   *)
(* fail, and the user may stop the scan at any point.                      *)
(*                                                                         *)
(* Messages are numbered in time order.  Left out: empty messages, the     *)
(* quotes, several accounts, shared mailboxes, the eight newest candidates *)
(* of the reach, progress counters and notes.                              *)
(***************************************************************************)
EXTENDS StepVerdict, FiniteSetsExt

CONSTANTS
  Loops,             \* open loops the user owes, all with one waiting party
  LoopThread,        \* the conversation of each loop's source
  LoopAt,            \* the message it stems from, 0 if older than all of them:
                     \* messages after it are later
  WithEvent,         \* loops with candidate events to expire with
  Threads,
  NumMessages,
  Authors,           \* "user" writes to the waiting party, "party", "other"
  PriorLoops,        \* those a check for new mail finds open already
  Confidences,       \* of a suggestion of the decision model, numbers
  ChatConfidences,   \* and of the chat model
  MAX_CLOSURE_CONVERSATIONS,
  MAX_LOOP_HANDLES

ASSUME LoopsAreKnown ==
  /\ \A l \in Loops : LoopThread[l] \in Threads /\ LoopAt[l] \in Nat
  /\ WithEvent \subseteq Loops /\ PriorLoops \subseteq Loops
ASSUME BoundsAreKnown ==
  /\ IsFiniteSet(Loops) /\ NumMessages \in Nat
  /\ Authors \subseteq {"user", "party", "other"}
  /\ Confidences \cup ChatConfidences \subseteq Nat
ASSUME CapsArePositive ==
  /\ MAX_CLOSURE_CONVERSATIONS \in Nat \ {0} /\ MAX_LOOP_HANDLES \in Nat \ {0}

Messages == 1..NumMessages

VARIABLES
  mail,        \* each message's author and conversation
  incremental, \* a check for new mail: PriorLoops are offered from the review
  fresh,       \* the messages that check appended
  decisive,    \* there is a decision client
  phase,       \* what the pass does next
  cancel,      \* ScanProgress.cancel
  cancelled,   \* ScanResult.cancelled
  walk,        \* per loop: ClosureWalkLoop
  skipped, escalated,
  chat_reach,  \* per conversation: the loops to ask the chat model about
  handoffs,    \* pending_handoffs, per loop
  dates,       \* date_jobs, per loop
  item,        \* per loop: the scan's copy of its card
  suggested_updates,
  card         \* per prior loop: the suggestion on the card the user sees

vars == <<mail, incremental, fresh, decisive, phase, cancel, cancelled, walk, skipped,
          escalated, chat_reach, handoffs, dates, item, suggested_updates, card>>
setting == <<mail, incremental, fresh, decisive>>

NoUpdate == [kind |-> "None", message |-> 0, confidence |-> 0]
Update(kind, m, c) == [kind |-> kind, message |-> m, confidence |-> c]
ChatKinds == {"Closure", "Change"}  \* a change of the date or of the terms
WalkKinds == {"Closure", "Declined", "Delegated", "Change"}
ChatUpdates == {Update(k, m, c) : k \in ChatKinds, m \in Messages, c \in ChatConfidences}
Updates == ChatUpdates \cup
  {Update(k, m, c) : k \in WalkKinds, m \in Messages, c \in Confidences}

NoJob == [message |-> 0]
NewItem == [resolution |-> 0, resolution_kind |-> "None", suggested_update |-> NoUpdate,
            deadline |-> 0, restated |-> {}, amended |-> {}, passed |-> FALSE]
\* `event`: it is matched to an event and, once asked, ends with it.
NewWalk(later) == [later |-> later, stopped |-> FALSE, closed |-> FALSE, event |-> FALSE]

prior == IF incremental THEN PriorLoops ELSE {}

-------------------------------------------------------------------------------
(* The loops offered, and the messages that may bear on them. *)

admits(l, m) == l \in prior => m \in fresh

FromUser(l) == {m \in Messages : m > LoopAt[l] /\ mail[m].author = "user"}

\* The conversations a loop is reachable from.
ReachOf(l) ==
  {t \in {mail[m].thread : m \in FromUser(l)} :
     l \in prior => \E m \in fresh : mail[m].thread = t}
loops_by_conversation == [t \in Threads |-> {l \in Loops : t \in ReachOf(l)}]

closure_walk_later_messages(l) ==
  {m \in Messages : m > LoopAt[l] /\ admits(l, m)
                    /\ \/ mail[m].thread = LoopThread[l]
                       \/ m \in FromUser(l) /\ mail[m].thread \in ReachOf(l)}

closure_walk_role(m) ==
  CASE mail[m].author = "user" -> "User"
    [] mail[m].author = "party" -> "WaitingParty"
    [] mail[m].author = "other" -> "ThirdParty"

-------------------------------------------------------------------------------
(* Changes to the scan's copies. *)

Has(i, l) == i[l].suggested_update # NoUpdate

monus(a, b) == IF a > b THEN a - b ELSE 0

\* Counts every suggestion, also one that replaces another.
CountedAgain(before, after) ==
  suggested_updates + Cardinality({l \in Loops : Has(after, l) /\ after[l] # before[l]})

\* Never counts back.
CountedUp(before, after) ==
  suggested_updates + Cardinality({l \in Loops : ~Has(before, l) /\ Has(after, l)})

\* The counter after the step from `before` to `after`.
Counted(before, after) ==
  monus(suggested_updates + Cardinality({l \in Loops : ~Has(before, l) /\ Has(after, l)}),
        Cardinality({l \in Loops : Has(before, l) /\ ~Has(after, l)}))

outranks(u, v) ==
  \/ u.confidence > v.confidence
  \/ u.confidence = v.confidence /\ u.kind = "Closure" /\ v.kind # "Closure"

Stopped(w, ls) == [l \in Loops |-> IF l \in ls THEN [w[l] EXCEPT !.stopped = TRUE] ELSE w[l]]

\* The reach of the chat model once each loop of `ls` is escalated at its
\* message of `at`.
record_walk_escalation(ls, at) ==
  [t \in Threads |-> chat_reach[t] \cup {l \in ls : mail[at[l]].thread = t}]

\* Putting a loop to the chat model does not end its walk.
SkippedOnly(failed, unsure) == failed

\* The loops whose walk ends in doubt: a request about them failed, or their
\* message is put to the chat model.
EndInDoubt(failed, unsure) == failed \cup unsure

\* A request of each loop in `of` is sent: some fail, and once the user has
\* stopped the scan some are cut short, all of them if an earlier one was.  A
\* loop's two requests may do both.
Sent(of, failed, cut) ==
  /\ failed \subseteq of
  /\ cut \subseteq of
  /\ cut # {} => cancel
  /\ cancelled => cut = of /\ failed = {}

-------------------------------------------------------------------------------
(* Scan and check for new mail *)

\* A check offers a prior loop only if its own conversation gained no mail
\* (prior_open_items); it may carry a suggestion already.
Init ==
  /\ mail \in [Messages -> [author : Authors, thread : Threads]]
  /\ \A l \in Loops : LoopAt[l] \in Messages => mail[LoopAt[l]].thread = LoopThread[l]
  /\ incremental \in BOOLEAN
  /\ decisive \in BOOLEAN
  /\ fresh \in SUBSET Messages
  /\ IF incremental THEN \A l \in PriorLoops, m \in fresh : mail[m].thread # LoopThread[l]
                    ELSE fresh = {}
  /\ card \in {c \in [Loops -> {NoUpdate} \cup ChatUpdates] :
                 \A l \in Loops : c[l] # NoUpdate =>
                   l \in prior /\ c[l].message \in Messages \ fresh
                   /\ c[l].message > LoopAt[l]}
  /\ item = [l \in Loops |-> [NewItem EXCEPT !.suggested_update = card[l]]]
  /\ walk = [l \in Loops |-> NewWalk(IF decisive THEN closure_walk_later_messages(l) ELSE {})]
  /\ chat_reach = IF decisive THEN [t \in Threads |-> {}] ELSE loops_by_conversation
  /\ phase = IF decisive THEN "choice" ELSE "chat"
  /\ cancel = FALSE /\ cancelled = FALSE
  /\ skipped = {} /\ escalated = {}
  /\ handoffs = [l \in Loops |-> NoJob] /\ dates = [l \in Loops |-> NoJob]
  /\ suggested_updates = 0

UserStops ==
  /\ phase # "done" /\ ~cancel
  /\ cancel' = TRUE
  /\ UNCHANGED <<setting, phase, cancelled, walk, skipped, escalated, chat_reach,
                 handoffs, dates, item, suggested_updates, card>>

\* A loop is matched to an event if both orders of the options agree on it.
ExpiryChoice ==
  /\ phase = "choice"
  /\ \E failed \in SUBSET WithEvent, cut \in SUBSET WithEvent, agreed \in SUBSET WithEvent :
       /\ Sent(WithEvent, failed, cut)
       /\ agreed \cap (failed \cup cut) = {}
       /\ walk' = [l \in Loops |-> [Stopped(walk, failed)[l] EXCEPT !.event = l \in agreed]]
       /\ skipped' = skipped \cup failed
       /\ cancelled' = (cancelled \/ cut # {})
  /\ phase' = "ends"
  /\ UNCHANGED <<setting, cancel, escalated, chat_reach, handoffs, dates, item,
                 suggested_updates, card>>

Matched == {l \in Loops : walk[l].event /\ ~walk[l].stopped}

\* Does the request end with its event?
ExpiryEnds ==
  /\ phase = "ends"
  /\ \E failed \in SUBSET Matched, cut \in SUBSET Matched, yes \in SUBSET Matched :
       /\ Sent(Matched, failed, cut)
       /\ failed \cap cut = {} /\ yes \cap (failed \cup cut) = {}
       /\ walk' = [l \in Loops |-> [Stopped(walk, failed)[l] EXCEPT !.event = l \in yes]]
       /\ skipped' = skipped \cup failed
       /\ cancelled' = (cancelled \/ cut # {})
  /\ phase' = "walk"
  /\ UNCHANGED <<setting, cancel, escalated, chat_reach, handoffs, dates, item,
                 suggested_updates, card>>

\* The next message of a walk.
Current(l) == Min(walk[l].later)
InRound == {l \in Loops : ~walk[l].stopped /\ walk[l].later # {}}

\* Walks that have ended are waited for.
StartRoundSpins ==
  /\ phase = "walk"
  /\ phase' = IF cancelled \/ cancel THEN "expire" ELSE IF InRound = {} THEN "walk" ELSE "answers"
  /\ UNCHANGED <<setting, walk, cancel, cancelled, skipped, escalated, chat_reach, handoffs,
                 dates, item, suggested_updates, card>>

\* A round begins, unless the scan was stopped or every walk has ended.
StartRound ==
  /\ phase = "walk"
  /\ IF cancelled \/ cancel
       THEN phase' = "expire" /\ walk' = walk
       ELSE /\ phase' = IF InRound = {} THEN "expire" ELSE "answers"
            /\ walk' = Stopped(walk, {l \in Loops : walk[l].later = {}})
  /\ UNCHANGED <<setting, cancel, cancelled, skipped, escalated, chat_reach, handoffs,
                 dates, item, suggested_updates, card>>

\* The user stopped the scan during the round: no verdict of it is applied.
RoundCut ==
  /\ phase = "answers" /\ cancel
  /\ \E failed \in SUBSET InRound, cut \in SUBSET InRound :
       /\ walk' = Stopped(walk, failed)
       /\ skipped' = skipped \cup failed
       /\ cancelled' = (cut # {})
  /\ phase' = "expire"
  /\ UNCHANGED <<setting, cancel, escalated, chat_reach, handoffs, dates, item,
                 suggested_updates, card>>

\* A chased card keeps the suggestion of the user's own reply.
AffectedChased(i, effects, m, c, named) ==
  LET others == {e \in effects : is_terminal(e)}
  IN  CASE Close("Completed") \in others \/ Close("Withdrawn") \in others ->
             [i EXCEPT !.resolution = m, !.suggested_update = NoUpdate,
                       !.resolution_kind = (CHOOSE e \in others : TRUE).kind]
        [] \E e \in others : e.effect = "Suggest" -> IF named THEN i ELSE
             [i EXCEPT !.suggested_update = Update((CHOOSE e \in others : TRUE).kind, m, c)]
        [] others = {} -> IF AskedAgain \in effects
                            THEN [i EXCEPT !.restated = @ \cup {m}] ELSE i

\* The card after the effects of message m; a hand-off to somebody named in
\* the message, and a date, wait for their follow-up question.
Affected(i, effects, m, c, named) ==
  LET closes   == {e \in effects : e.effect = "Close"}
      suggests == {e \in effects : e.effect = "Suggest"}
      i1 == IF AskedAgain \notin effects THEN i
            ELSE [i EXCEPT !.restated = @ \cup {m},
                           !.suggested_update =
                              IF @.kind = "Closure" /\ mail[@.message].author = "user"
                                THEN NoUpdate ELSE @]
      i2 == IF Amended \notin effects THEN i1 ELSE [i1 EXCEPT !.amended = @ \cup {m}]
  IN  IF closes # {}
        THEN [i EXCEPT !.resolution = m, !.suggested_update = NoUpdate,
                       !.resolution_kind = (CHOOSE e \in closes : TRUE).kind]
      ELSE IF suggests # {} /\ ~named
        THEN [i EXCEPT !.suggested_update =
                Update((CHOOSE e \in suggests : TRUE).kind, m, c)]
      ELSE i2

EffectsOf(verdict) == IF verdict.verdict = "Apply" THEN verdict.effects ELSE {}

\* Verdicts on one message with the confidence a suggestion would have.
Steps ==
  [role \in AuthorRoles |->
     {s \in [verdict : Verdicts[role], confidence : Confidences] :
        \/ \E e \in EffectsOf(s.verdict) : e.effect \in {"Suggest", "NewDate"}
        \/ s.confidence = Min(Confidences)}]
AllSteps == UNION {Steps[role] : role \in AuthorRoles}

\* Every request of the round was answered or failed; no verdict of one walk
\* depends on another's.  `vague` are the loops whose message names nobody to
\* hand the work to, or no date that can be read.
RoundAnswered ==
  /\ phase = "answers" /\ ~cancel
  /\ \E failed \in SUBSET InRound : \E step \in [InRound \ failed -> AllSteps] :
       LET read       == DOMAIN step
           at         == [l \in read |-> Current(l)]
           role(l)    == closure_walk_role(at[l])
           effects(l) == EffectsOf(step[l].verdict)
           handed     == {l \in read : Suggest("Delegated") \in effects(l)}
           dated      == {l \in read : NewDate \in effects(l)}
           job(l)     == [message |-> at[l], source |-> role(l),
                          confidence |-> step[l].confidence]
       IN  /\ \A l \in read : step[l] \in Steps[role(l)]
           /\ \E vague \in SUBSET (handed \cup dated) :
                LET unsure == {l \in read : step[l].verdict = Escalate}
                              \cup {l \in dated \cap vague : role(l) = "WaitingParty"}
                    item2  == [l \in Loops |->
                                 IF l \notin read THEN item[l]
                                 ELSE Affected(item[l], effects(l), at[l],
                                               step[l].confidence, l \in handed \ vague)]
                    closes == {l \in read : \E e \in effects(l) : e.effect = "Close"}
                IN  /\ item' = item2
                    /\ suggested_updates' = Counted(item, item2)
                    /\ walk' = [l \in Loops |->
                         [Stopped(walk, EndInDoubt(failed, unsure) \cup closes)[l] EXCEPT
                            !.later = IF l \in read /\ step[l].verdict # Escalate
                                        THEN @ \ {at[l]} ELSE @,
                            !.closed = @ \/ l \in closes]]
                    /\ escalated' = escalated \cup unsure
                    /\ chat_reach' = record_walk_escalation(unsure, at)
                    /\ handoffs' = [l \in Loops |->
                                      IF l \in handed \ vague THEN job(l) ELSE NoJob]
                    /\ dates' = [l \in Loops |->
                                   IF l \in dated \ vague THEN job(l) ELSE NoJob]
                    /\ phase' = IF handed \ vague # {} THEN "handoff"
                                ELSE IF dated \ vague # {} THEN "dates" ELSE "walk"
           /\ skipped' = skipped \cup failed
  /\ UNCHANGED <<setting, cancel, cancelled, card>>

Pending(jobs) == {l \in Loops : jobs[l] # NoJob}

\* Who took over: the hand-off is suggested even if nobody is picked.  Once the
\* scan was stopped, the requests never claimed are the last ones, and those
\* before them still count unless one of them was cut short itself.
HandoffRound ==
  /\ phase = "handoff"
  /\ \E cut \in SUBSET Pending(handoffs), given \in SUBSET Pending(handoffs) :
       LET item2 == [l \in Loops |->
                       IF l \in given
                         THEN [item[l] EXCEPT !.suggested_update =
                                 Update("Delegated", handoffs[l].message,
                                        handoffs[l].confidence)]
                         ELSE item[l]]
       IN  /\ Sent(Pending(handoffs), {}, cut)
           /\ given = Pending(handoffs) \ cut \/ (given = {} /\ cut # {})
           /\ item' = item2 /\ suggested_updates' = Counted(item, item2)
           /\ cancelled' = (cut # {})
  /\ handoffs' = [l \in Loops |-> NoJob]
  /\ phase' = IF Pending(dates) # {} THEN "dates" ELSE "walk"
  /\ UNCHANGED <<setting, cancel, walk, skipped, escalated, chat_reach, dates, card>>

\* Which date: the waiting party's replaces the card's, the user's is
\* suggested; one nobody can pick is escalated.
DateRound ==
  /\ phase = "dates"
  /\ \E failed \in SUBSET Pending(dates), cut \in SUBSET Pending(dates), picked \in SUBSET Pending(dates) :
       LET at     == [l \in Pending(dates) |-> dates[l].message]
           unsure == Pending(dates) \ (failed \cup cut \cup picked)
           item2  == [l \in Loops |->
                        IF l \notin picked THEN item[l]
                        ELSE IF dates[l].source = "WaitingParty"
                          THEN [item[l] EXCEPT !.deadline = at[l]]
                        ELSE [item[l] EXCEPT !.suggested_update =
                                Update("Change", at[l], dates[l].confidence)]]
       IN  /\ Sent(Pending(dates), failed, cut)
           /\ failed \cap cut = {} /\ picked \cap (failed \cup cut) = {}
           /\ item' = item2 /\ suggested_updates' = Counted(item, item2)
           /\ walk' = Stopped(walk, EndInDoubt(failed, unsure))
           /\ skipped' = skipped \cup failed
           /\ escalated' = escalated \cup unsure
           /\ chat_reach' = record_walk_escalation(unsure, at)
           /\ cancelled' = (cancelled \/ cut # {})
  /\ dates' = [l \in Loops |-> NoJob]
  /\ phase' = "walk"
  /\ UNCHANGED <<setting, cancel, handoffs, card>>

\* Also those the waiting party closed.
ExpireAny ==
  /\ phase = "expire"
  /\ \E over \in SUBSET {l \in Loops : walk[l].event} :
       item' = [l \in Loops |-> IF l \in over THEN [item[l] EXCEPT !.passed = TRUE]
                                              ELSE item[l]]
  /\ phase' = IF cancelled \/ cancel THEN "merge" ELSE "chat"
  /\ cancelled' = (cancelled \/ cancel)
  /\ UNCHANGED <<setting, cancel, walk, skipped, escalated, chat_reach, handoffs, dates,
                 suggested_updates, card>>

\* Loops whose event is over expire, however their walk ended.
Expire ==
  /\ phase = "expire"
  /\ \E over \in SUBSET {l \in Loops : ~walk[l].closed /\ walk[l].event} :
       item' = [l \in Loops |-> IF l \in over THEN [item[l] EXCEPT !.passed = TRUE]
                                              ELSE item[l]]
  /\ phase' = IF cancelled \/ cancel THEN "merge" ELSE "chat"
  /\ cancelled' = (cancelled \/ cancel)
  /\ UNCHANGED <<setting, cancel, walk, skipped, escalated, chat_reach, handoffs, dates,
                 suggested_updates, card>>

\* The conversations and loops the chat model is asked about, within the caps:
\* busiest conversations first (closure_jobs).
ClosureJobs ==
  LET reached == {t \in Threads : chat_reach[t] # {}}
      size(t) == Cardinality(chat_reach[t])
  IN  {job \in [reached -> SUBSET Loops] :
         /\ \A t \in reached :
              /\ job[t] \subseteq chat_reach[t]
              /\ job[t] # {} => Cardinality(job[t]) = Min({size(t), MAX_LOOP_HANDLES})
              /\ \A u \in reached : job[u] # {} /\ job[t] = {} => size(u) >= size(t)
         /\ Cardinality({t \in reached : job[t] # {}}) =
              Min({Cardinality(reached), MAX_CLOSURE_CONVERSATIONS})}

\* An answer suggests at most one update of a loop it was asked about, on
\* the evidence of a later message: of the conversation, or one that another
\* loop of the request stems from.  It replaces only what it outranks.
ChatRound ==
  /\ phase = "chat"
  /\ \E jobs \in ClosureJobs : \E answered \in SUBSET DOMAIN jobs :
       LET claims(l) == {NoUpdate} \cup
             {u \in ChatUpdates :
                /\ u.message > LoopAt[l] /\ admits(l, u.message)
                /\ \E t \in answered :
                     /\ l \in jobs[t]
                     /\ \/ mail[u.message].thread = t
                        \/ \E o \in jobs[t] : u.message = LoopAt[o]}
       IN  \E best \in [Loops -> UNION {claims(l) : l \in Loops}] :
             LET item2 == [l \in Loops |->
                             IF best[l] # NoUpdate
                                /\ (Has(item, l) => outranks(best[l], item[l].suggested_update))
                               THEN [item[l] EXCEPT !.suggested_update = best[l]]
                               ELSE item[l]]
             IN  /\ \A l \in Loops : best[l] \in claims(l)
                 /\ item' = item2 /\ suggested_updates' = Counted(item, item2)
  /\ phase' = "merge"
  /\ cancelled' = (cancelled \/ cancel)
  /\ UNCHANGED <<setting, cancel, walk, skipped, escalated, chat_reach, handoffs, dates, card>>

\* The cards get what was found.  Of the prior loops only suggestions are
\* kept (take_prior_updates), and only if they outrank the card's own.
MergeScan ==
  /\ phase = "merge"
  /\ LET moved    == {l \in prior : Has(item, l)}
         attached == {l \in moved : \/ card[l] = NoUpdate
                                    \/ outranks(item[l].suggested_update, card[l])}
     IN  /\ card' = [l \in Loops |-> IF l \in attached \/ l \notin prior
                                       THEN item[l].suggested_update ELSE card[l]]
         /\ suggested_updates' =
              monus(suggested_updates, Cardinality(moved)) + Cardinality(attached)
  /\ phase' = "done"
  /\ UNCHANGED <<setting, cancel, cancelled, walk, skipped, escalated, chat_reach,
                 handoffs, dates, item>>

Step == \/ ExpiryChoice \/ ExpiryEnds
        \/ StartRound \/ RoundCut \/ RoundAnswered \/ HandoffRound \/ DateRound
        \/ Expire \/ ChatRound \/ MergeScan
Next == Step \/ UserStops

\* The scan runs on a thread of its own and every request has a deadline.
Spec == Init /\ [][Next]_vars /\ WF_vars(Step)

-------------------------------------------------------------------------------
(* Properties *)

\* Type invariant of the pass (scan_decision_closures, merge_scan).
TypeOK ==
  /\ phase \in {"choice", "ends", "walk", "answers", "handoff", "dates", "expire",
                "chat", "merge", "done"}
  /\ cancel \in BOOLEAN /\ cancelled \in BOOLEAN
  /\ \A l \in Loops :
       /\ walk[l].later \subseteq Messages
       /\ {walk[l].stopped, walk[l].closed, walk[l].event} \subseteq BOOLEAN
       /\ item[l].suggested_update \in {NoUpdate} \cup Updates
       /\ card[l] \in {NoUpdate} \cup Updates
       /\ {item[l].resolution, item[l].deadline} \subseteq {0} \cup Messages
       /\ item[l].restated \cup item[l].amended \subseteq Messages
       /\ item[l].resolution_kind \in {"None", "Completed", "Withdrawn"}
  /\ skipped \cup escalated \subseteq Loops
  /\ \A t \in Threads : chat_reach[t] \subseteq Loops
  /\ suggested_updates \in 0..Cardinality(Loops)

\* A loop the waiting party closed stays as it was closed: no suggestion is
\* left on it or made for it, no later message changes it, it does not also
\* expire and the chat model is not asked about it.
ClosedIsFinal ==
  \A l \in Loops : item[l].resolution # 0 =>
    /\ ~Has(item, l) /\ ~item[l].passed
    /\ \A t \in Threads : decisive => l \notin chat_reach[t]
    /\ \A m \in {item[l].deadline} \cup item[l].restated \cup item[l].amended :
         m < item[l].resolution

\* Until the chat model is asked, a card does not suggest that the user's own
\* reply settled what the waiting party has asked for again since.
ChasedIsNotDone ==
  decisive /\ phase \notin {"merge", "done"} =>
    \A l \in Loops, m \in Messages :
      item[l].suggested_update.kind = "Closure" /\ m \in item[l].restated
      /\ item[l].suggested_update.message # 0
      /\ mail[item[l].suggested_update.message].author = "user"
        => item[l].suggested_update.message > m

\* `passed` aside, the event's end, which is looked at however a walk ended.
Unmoved(l) == item'[l] = [item[l] EXCEPT !.passed = item'[l].passed]

\* What a message in doubt leaves: notes and a suggestion taken back, at most.
Undecided(l) ==
  /\ item'[l].resolution = item[l].resolution /\ item'[l].deadline = item[l].deadline
  /\ item'[l].suggested_update \in {NoUpdate, item[l].suggested_update}

\* Past a doubt nothing is applied: the message that makes the scan skip a loop
\* or put it to the chat model decides nothing, no later message changes the
\* card of a skipped loop, only the chat model's answer that of an escalated one,
\* and after a cut no card changes at all.
NothingPastDoubt ==
  [][\A l \in Loops :
       /\ l \in skipped \/ cancelled => Unmoved(l)
       /\ l \in escalated /\ phase # "chat" => Unmoved(l)
       /\ l \in (skipped' \cup escalated') \ (skipped \cup escalated) => Undecided(l)
    ]_vars

Suggested == {l \in Loops : Has(item, l)}
Carried == {l \in prior : card[l] # NoUpdate}

\* The number of suggestions reported is the number of cards that got one.
\* A check for new mail takes the prior cards' own off again, never below
\* zero: at its end the number is at least what the prior cards got, at most
\* what all cards got, and too small by no more than what the prior cards had.
CountsAreTrue ==
  IF ~(incremental /\ phase = "done")
    THEN suggested_updates + Cardinality(Carried) = Cardinality(Suggested)
    ELSE LET given == {l \in prior : card[l].message \in fresh}
             added == Suggested \ prior
         IN  /\ Cardinality(given) <= suggested_updates
             /\ suggested_updates <= Cardinality(given) + Cardinality(added)
             /\ Cardinality(given) + Cardinality(added)
                  <= suggested_updates + Cardinality(Carried)

\* The pass ends, whatever is answered, and whoever fails.
PassEnds == <>(phase = "done")
===============================================================================
