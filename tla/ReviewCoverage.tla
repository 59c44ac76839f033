---------------------------- MODULE ReviewCoverage ----------------------------
(***************************************************************************)
(* What a review says it has read, and what was read (review_model.rs,     *)
(* review_scan.rs, app_model.rs and the review callbacks of                *)
(* slint_review.rs).                                                       *)
(*                                                                         *)
(* One background job at a time loads mail or scans it.  A scan runs       *)
(* through its phases (rules, decide, primary, closures) and its result    *)
(* replaces the review's analysis (set_scan) or is merged into it          *)
(* (merge_scan) for the conversations of a retry or of a check for new     *)
(* mail.  The user may raise the stop flag between any two steps; the      *)
(* outcomes of a phase that meets the raised flag include those in which   *)
(* it was raised half-way.                                                 *)
(*                                                                         *)
(* Left out: the text of notes and failure lines, rejected claims, the     *)
(* updates the closure phase suggests, saved decisions, links and drafts.  *)
(***************************************************************************)
EXTENDS ScanPhases, FiniteSetsExt

CONSTANTS
  Messages,       \* the mail the providers hold; each message is one paragraph
  Thread,         \* the conversation its provider puts it in, a number
  Providers,
  ProviderOf,
  Bonded,         \* conversations of one account about the same thing
  Users,          \* whose mail: which providers they connected, what the bond is
  Backends,       \* "Chat", "Triage", "Extract": the settings a scan may run under
  Offered         \* the errors that occur in this instance

ASSUME MailIsFinite == IsFiniteSet(Messages)
ASSUME ThreadsAreNumbers == \A m \in Messages : Thread[m] \in Nat
ASSUME OneProviderEach == \A m \in Messages : ProviderOf[m] \in Providers
ASSUME UserRecords ==
  Users \subseteq [providers : (SUBSET Providers) \ {{}}, bond : {"strong", "weak"}]
ASSUME OfferedErrors == Offered \subseteq Replies \ {"Ok"}

Threads == {Thread[m] : m \in Messages}

VARIABLES
  user,           \* a "strong" bond is one for merge_threads, a "weak" for the rules only
  enabled,        \* the providers included in scans
  messages, key,  \* ReviewState.messages, each with its conversation
  failedSources,  \* providers with a source whose listing failed
  analysed,       \* ReviewState.analysis is Some
  cards,          \* per message: the cards it is the evidence of
  failed,         \* failed_conversations_detail
  summary,        \* the counts behind scan_summary
  job,            \* the pending job, a load or a scan
  cancel,         \* ScanProgress.cancel of the pending scan
  read,           \* history: messages an analysis now shown took into account
  cut             \* history: what kept scans short since the last full one

vars == <<user, enabled, messages, key, failedSources, analysed, cards, failed,
          summary, job, cancel, read, cut>>
review == <<messages, key, failedSources, analysed, cards, failed, summary, read, cut>>

NoJob == [kind |-> "none"]
NoSummary == [shown |-> FALSE]
Idle == job = NoJob
Scanning == job.kind \in {"full", "retry", "check"}

Init ==
  /\ user \in Users /\ enabled = user.providers
  /\ messages = {} /\ key = [m \in {} |-> 0] /\ failedSources = {}
  /\ analysed = FALSE /\ cards = [m \in Messages |-> 0]
  /\ failed = {} /\ summary = NoSummary
  /\ job = NoJob /\ cancel = FALSE
  /\ read = {} /\ cut = {}

\* ReviewState::default.
EmptyReview ==
  /\ messages' = {} /\ key' = [m \in {} |-> 0] /\ failedSources' = {}
  /\ analysed' = FALSE /\ cards' = [m \in Messages |-> 0]
  /\ failed' = {} /\ summary' = NoSummary
  /\ read' = {} /\ cut' = {}

-------------------------------------------------------------------------------
(* Threads *)

\* The conversations of `together` become one under the least of their names.
Merged(k, together) ==
  LET live == {k[m] : m \in DOMAIN k} \cap together
  IN  [m \in DOMAIN k |-> IF k[m] \in live THEN Min(live) ELSE k[m]]

\* append_sources: what is new is added, then threads are merged.
Appended(got) ==
  LET all == messages \cup got
      k   == [m \in all |-> IF m \in messages THEN key[m] ELSE Thread[m]]
  IN  IF user.bond = "strong" THEN Merged(k, Bonded) ELSE k

\* The conversations with a new message or under a new name.
Changed(k) == {k[m] : m \in {n \in DOMAIN k : n \notin messages \/ k[n] # key[n]}}

-------------------------------------------------------------------------------
(* Starting jobs *)

Scan(kind, scope, k, backend) ==
  [kind |-> kind, scope |-> scope, backend |-> backend,
   stage |-> IF backend = "Chat" THEN "primary" ELSE "rules",
   key |-> k, total |-> Cardinality({m \in DOMAIN k : k[m] \in scope}), rejoined |-> FALSE,
   halted |-> FALSE, skipped |-> {}, chat |-> {}, unanswered |-> {}, cancelled |-> FALSE]

\* start_scan, start_retry_scan, start_check_scan: a fresh ScanProgress.
StartScan(kind, scope, k) ==
  /\ \E b \in Backends : job' = Scan(kind, scope, k, b)
  /\ cancel' = FALSE

\* "Scan inboxes": a full load, or a check for new mail if there is a review.
ScanInboxes ==
  /\ Idle
  /\ IF analysed /\ messages # {}
       THEN job' = [kind |-> "checkMail"] /\ UNCHANGED review
       ELSE job' = [kind |-> "mail"] /\ EmptyReview
  /\ UNCHANGED <<enabled, cancel>>

\* "Rescan loaded mail" (start_scan): the old analysis is dropped at once, the
\* list of failures stays until the new result is there.
DropAnalysis ==
  /\ analysed' = FALSE /\ cards' = [m \in Messages |-> 0] /\ read' = {}
  /\ summary' = NoSummary

Rescan ==
  /\ Idle /\ messages # {}
  /\ StartScan("full", Threads, key)
  /\ DropAnalysis
  /\ UNCHANGED <<enabled, messages, key, failedSources, failed, cut>>

\* "Retry failed": sources first, if any failed.
RetryFailed ==
  /\ Idle
  /\ failedSources # {} \/ Retryable(failed) # {}
  /\ IF failedSources = {}
       THEN StartScan("retry", ConversationsOf(Retryable(failed)), key)
       ELSE /\ job' = [kind |-> "retryMail", sources |-> failedSources,
                       scope |-> ConversationsOf(Retryable(failed))]
            /\ UNCHANGED cancel
  /\ UNCHANGED <<enabled, review>>

\* "Stop scan" during a scan.  Stopping a load is one of its outcomes.
UserStops ==
  /\ Scanning /\ ~cancel
  /\ cancel' = TRUE
  /\ UNCHANGED <<enabled, review, job>>

\* "Clear results and mail": a pending job's answer finds no receiver.
ClearResults ==
  /\ EmptyReview
  /\ job' = NoJob /\ cancel' = FALSE
  /\ UNCHANGED enabled

\* "Include in scans" switched off (set_provider_enabled, remove_provider) ...
DisableProvider(p) ==
  LET kept == {m \in messages : ProviderOf[m] # p}
  IN  /\ Idle /\ p \in enabled /\ enabled # {p}
      /\ enabled' = enabled \ {p}
      /\ messages' = kept /\ key' = [m \in kept |-> key[m]]
      /\ failedSources' = failedSources \ {p}
      /\ cards' = [m \in Messages |-> IF m \in kept THEN cards[m] ELSE 0]
      /\ failed' = {f \in failed : f.conv \in {key[m] : m \in kept}}
      /\ summary' = NoSummary
      /\ read' = read \cap kept
      /\ UNCHANGED <<analysed, job, cancel, cut>>

\* ... and on.
EnableProvider(p) ==
  /\ Idle /\ p \in user.providers \ enabled
  /\ enabled' = enabled \cup {p}
  /\ UNCHANGED <<review, job, cancel>>

-------------------------------------------------------------------------------
(* Loads *)

\* Per provider a load fails, is stopped, or delivers any part of its mail (a
\* message that cannot be fetched is left out), perhaps with a source missing.
Verdicts == {"Ok", "Failing", "Err", "Cancelled"}
Delivering(v) == {p \in DOMAIN v : v[p] \in {"Ok", "Failing"}}
Failing(v)    == {p \in DOMAIN v : v[p] = "Failing"}
MailOf(ps)    == {m \in Messages : ProviderOf[m] \in ps}

\* One stopped load stops the whole job; some deliveries suffice (split_loads).
split_loads(v) ==
  IF \E p \in DOMAIN v : v[p] = "Cancelled" THEN "Cancelled"
  ELSE IF Delivering(v) = {} THEN "Failed"
  ELSE "Loaded"

\* The sources that delivered this time are replaced, their mail is appended.
AppendSources(got, v) ==
  /\ messages' = messages \cup got
  /\ key' = Appended(got)
  /\ failedSources' = (failedSources \ Delivering(v)) \cup Failing(v)

GiveUp == job' = NoJob /\ cancel' = FALSE

MailArrives ==
  /\ job.kind = "mail"
  /\ \E v \in [enabled -> Verdicts] : \E got \in SUBSET MailOf(Delivering(v)) :
       IF split_loads(v) = "Loaded"
         THEN /\ AppendSources(got, v)
              /\ IF got = {} THEN GiveUp ELSE StartScan("full", Threads, key')
         ELSE GiveUp /\ UNCHANGED <<messages, key, failedSources>>
  /\ UNCHANGED <<enabled, analysed, cards, failed, summary, read, cut>>

CheckMailArrives ==
  /\ job.kind = "checkMail"
  /\ \E v \in [enabled -> Verdicts] : \E got \in SUBSET MailOf(Delivering(v)) :
       IF split_loads(v) = "Loaded"
         THEN /\ AppendSources(got, v)
              /\ IF Changed(key') = {} THEN GiveUp
                                       ELSE StartScan("check", Changed(key'), key')
         ELSE GiveUp /\ UNCHANGED <<messages, key, failedSources>>
  /\ UNCHANGED <<enabled, analysed, cards, failed, summary, read, cut>>

RetryScan(scope) == IF scope = {} THEN GiveUp ELSE StartScan("retry", scope, key')

RetryMailArrives ==
  /\ job.kind = "retryMail"
  /\ \E v \in [job.sources -> Verdicts] : \E got \in SUBSET MailOf(Delivering(v)) :
       CASE split_loads(v) = "Loaded" ->
              AppendSources(got, v) /\ RetryScan(job.scope \cup Changed(key'))
         [] split_loads(v) = "Failed" ->
              UNCHANGED <<messages, key, failedSources>> /\ RetryScan(job.scope)
         [] split_loads(v) = "Cancelled" ->
              UNCHANGED <<messages, key, failedSources>> /\ GiveUp
  /\ UNCHANGED <<enabled, analysed, cards, failed, summary, read, cut>>

-------------------------------------------------------------------------------
(* The phases of a scan (scan, scan_with_clients, run_primary_pass) *)

Selected == {m \in DOMAIN job.key : job.key[m] \in job.scope}

\* The next phase finds the flag as this one left it.
Enter(stage, next) == job' = [next EXCEPT !.stage = stage, !.halted = cancel]

\* The rule model may find that conversations are one thread.  Only the scan's
\* copy of the mail is renamed; its scope keeps the old names.
RulesPhase ==
  /\ Scanning /\ job.stage = "rules"
  /\ \E together \in IF job.halted THEN {{}} ELSE {{}, Bonded} :
       LET k == Merged(job.key, together)
       IN  Enter("decide", [job EXCEPT !.key = k, !.rejoined = k # job.key])
  /\ UNCHANGED <<enabled, review, cancel>>

\* triage_pass or extraction_pass.
DecidePhase ==
  /\ Scanning /\ job.stage = "decide"
  /\ LET answers == IF job.backend = "Extract" THEN Answers ELSE Answers \ {"Gray"}
     IN  \E o \in PassOutcomes(Selected, answers \cup Offered, cancel, job.halted) :
           Enter("primary",
             [job EXCEPT !.skipped = Skipped(job.key, Selected, o),
                         !.chat = NeedsChat(job.key, Selected, o),
                         !.unanswered = DOMAIN o \ Classified(o),
                         !.cancelled = SawCancel(o)])
  /\ UNCHANGED <<enabled, review, cancel>>

\* Extraction answers for a conversation itself unless it needs the chat model.
Assembled(convs) == IF job.backend = "Extract" THEN convs \ job.chat ELSE {}

\* scan_conversations_filtered, merge_conversation, apply_triage_coverage.
PrimaryPhase ==
  LET convs     == Conversations(job.key, Selected) \ job.skipped
      assembled == Assembled(convs)
  IN  /\ Scanning /\ job.stage = "primary"
      /\ \E o \in PassOutcomes(convs, {"Ok"} \cup Offered, cancel, job.halted) :
           LET ok    == {c \in convs : o[c] = "Ok"}
               asked == {m \in Selected : job.key[m] \in ok \ assembled}
               given == {m \in Selected : job.key[m] \in ok \cup job.skipped}
           IN  /\ \A c \in assembled : o[c] \in AssemblyReplies \cup {NotStarted}
               /\ job' =
                    [kind |-> job.kind, scope |-> job.scope, stage |-> "closures",
                     rejoined |-> job.rejoined, total |-> job.total,
                     failed |-> Entries(o),
                     covered |-> asked \cup (given \ job.unanswered),
                     carded |-> {m \in Selected : job.key[m] \in ok},
                     analysed |-> Cardinality(given),
                     answered |-> Cardinality(ok \cup job.skipped),
                     convs |-> Cardinality(convs \cup job.skipped),
                     transport |-> \E c \in convs : is_stop_error(o[c]),
                     cancelled |-> job.cancelled \/ SawCancel(o) \/ cancel]
      /\ UNCHANGED <<enabled, review, cancel>>

-------------------------------------------------------------------------------
(* Applying results (poll) *)

\* The closure phase only reports a stop; it does not run after a stop error.
Stopped == job.cancelled \/ (cancel /\ ~job.transport)

\* What a result says it did not do, or could not know: "short" of a scan the
\* user stopped or whose extraction lost paragraphs, "rejoined" of one that
\* worked under other conversation names than the review does.
Cuts ==
  {c \in {"short", "rejoined"} :
     \/ c = "short" /\ (Stopped \/ ~(job.carded \subseteq job.covered))
     \/ c = "rejoined" /\ job.rejoined}

\* The counts of set_scan.
Summary(analysedMessages, total, convs, analysedConvs, entries) ==
  [shown |-> TRUE, analysed |-> analysedMessages, total |-> total,
   convs |-> convs, analysedConvs |-> analysedConvs,
   notStarted |-> Cardinality({f \in entries : f.reason = "NotStarted"}),
   failed |-> Cardinality({f \in entries : f.reason # "NotStarted"})]

set_scan ==
  /\ job.kind = "full" /\ job.stage = "closures"
  /\ analysed' = TRUE
  /\ cards' = [m \in Messages |-> IF m \in job.carded THEN 1 ELSE 0]
  /\ failed' = job.failed
  /\ summary' = Summary(job.analysed, job.total, job.convs, job.answered, job.failed)
  /\ read' = job.covered /\ cut' = Cuts
  /\ GiveUp
  /\ UNCHANGED <<enabled, messages, key, failedSources>>

\* A result for some conversations replaces what was known of them.  The
\* variants with Added or Replaced in their names forget one half of that.
Rescanned == {m \in messages : key[m] \in job.scope}
CardsAdded == [m \in Messages |-> cards[m] + (IF m \in job.carded THEN 1 ELSE 0)]
MergedCards ==
  [m \in Messages |-> (IF m \in Rescanned THEN 0 ELSE cards[m])
                    + (IF m \in job.carded THEN 1 ELSE 0)]
EntriesAdded == failed \cup job.failed
EntriesReplaced == job.failed
MergedEntries == {f \in failed : f.conv \notin job.scope} \cup job.failed

\* What is not listed as failed counts as analysed (conversation_coverage).
coverage_without_failed(convs, entries) ==
  convs - Cardinality({f \in entries : f.reason # "NotStarted"})
conversation_coverage(convs, entries) ==
  IF Cardinality(entries) > convs THEN 0 ELSE convs - Cardinality(entries)

merge_scan ==
  /\ job.kind \in {"retry", "check"} /\ job.stage = "closures"
  /\ analysed' = TRUE
  /\ cards' = MergedCards
  /\ failed' = MergedEntries
  /\ LET unlisted == {m \in messages : key[m] \notin ConversationsOf(MergedEntries)}
         convs    == Cardinality(Conversations(key, messages))
     IN  summary' = Summary(Cardinality(unlisted), Cardinality(messages), convs,
                            conversation_coverage(convs, MergedEntries), MergedEntries)
  /\ read' = (read \ Rescanned) \cup job.covered
  /\ cut' = cut \cup Cuts
  /\ GiveUp
  /\ UNCHANGED <<enabled, messages, key, failedSources>>

\* The provider or its model cannot be reached, or the worker panics: nothing
\* is applied.
ScanFails ==
  /\ Scanning
  /\ cut' = (IF job.kind = "full" THEN {} ELSE cut) \cup {"short"}
  /\ GiveUp
  /\ UNCHANGED <<enabled, messages, key, failedSources, analysed, cards, failed, summary, read>>

UserActs ==
  \/ ScanInboxes \/ Rescan \/ RetryFailed
  \/ UserStops \/ ClearResults
  \/ \E p \in Providers : DisableProvider(p) \/ EnableProvider(p)

JobActs ==
  \/ MailArrives \/ CheckMailArrives \/ RetryMailArrives
  \/ RulesPhase \/ DecidePhase \/ PrimaryPhase
  \/ set_scan \/ merge_scan \/ ScanFails

Next == (UserActs \/ JobActs) /\ UNCHANGED user

Spec == Init /\ [][Next]_vars

-------------------------------------------------------------------------------
(* Properties *)

Live   == {key[m] : m \in messages}
Listed == ConversationsOf(failed)

\* Types.  A card's evidence is loaded mail, and no conversation is listed twice.
TypeOK ==
  /\ user \in Users /\ enabled \subseteq user.providers /\ enabled # {}
  /\ failedSources \subseteq enabled
  /\ messages \subseteq Messages /\ key \in [messages -> Threads]
  /\ analysed \in BOOLEAN /\ cancel \in BOOLEAN
  /\ cards \in [Messages -> Nat] /\ {m \in Messages : cards[m] > 0} \subseteq messages
  /\ failed \subseteq [conv : Threads, reason : Reasons]
  /\ Cardinality(failed) = Cardinality(Listed)
  /\ read \subseteq messages
  /\ cut \subseteq {"short", "rejoined"}

\* "Those conversations must still be accounted for as not started, not silently
\* dropped": unless a scan was cut short, every message on show was read or its
\* conversation is listed, across rescans, retries, checks, lost sources, threads
\* that grow together and every error of a provider.
NothingDropped ==
  Idle /\ analysed /\ cut = {} => \A m \in messages \ read : key[m] \in Listed

\* The summary counts every affected conversation (docs/inbox-review.md, coverage):
\* the conversations and messages it calls analysed are those that were read.
CountsAreTrue ==
  Idle /\ summary.shown /\ cut = {} /\ Listed \subseteq Live =>
    /\ summary.analysed = Cardinality(read) /\ summary.total = Cardinality(messages)
    /\ summary.analysedConvs =
         Cardinality({c \in Live : Of(key, messages, c) \subseteq read})
    /\ summary.analysedConvs + summary.failed + summary.notStarted = summary.convs

\* A retry or a check replaces the cards of what it scanned: no message is the
\* evidence of the same card twice.
NoCardTwice == "rejoined" \notin cut => \A m \in Messages : cards[m] <= 1

\* "Retry failed" and checks take a conversation off the list only if it has been
\* read, is gone, or the scan was cut short.
ListedUntilRead ==
  [][\A c \in Listed \ ConversationsOf(failed') :
       \/ c \notin {key'[m] : m \in messages'}
       \/ {m \in messages' : key'[m] = c} \subseteq read'
       \/ Cuts # {}]_vars

\* "Count every affected conversation -- analyzed, failed, or never dispatched"
\* (docs/inbox-review.md): what the summary calls analysed has been read, also
\* when a provider's error stops a phase early.
AnalysedMeansRead ==
  Idle /\ summary.shown /\ "rejoined" \notin cut => summary.analysed <= Cardinality(read)
===============================================================================
