------------------------------ MODULE ScanPhases ------------------------------
(***************************************************************************)
(* What one phase of a scan makes of the outcomes its requests had         *)
(* (review_scan.rs).  A phase is a pass of the worker pool, so its         *)
(* outcomes are any that JobPool allows; everything here is a function of  *)
(* them.                                                                   *)
(*                                                                         *)
(* `key` maps the messages a scan works on to conversations, `sel` are the *)
(* messages its filter selects.  A message stands for its one paragraph:   *)
(* triage and extraction decide on it, the primary pass on conversations.  *)
(***************************************************************************)
EXTENDS Naturals, FiniteSets, JobOutcomes

\* What the decision model may say of a paragraph.  "Gray" is a signal whose
\* claim it is unsure of, "Notification" marks automated mail.
Answers == {"Signal", "Gray", "Negative", "Notification"}

\* Errors and panics of one request; they do not end the scan by themselves.
Failures == (Replies \ {"Ok", "Cancelled"})

\* The outcomes of one pass over `jobs`.  Something is not started only after
\* a stop: a reply that stops the pool, or the user's flag.  `cancel` is that
\* flag, `halted` says that it was up before the pass began.
PassOutcomes(jobs, replies, cancel, halted) ==
  {o \in [jobs -> replies \cup {NotStarted}] :
     /\ halted => \A j \in jobs : o[j] = NotStarted
     /\ \A j \in jobs : o[j] = "Cancelled" => cancel
     /\ \/ cancel
        \/ \A j \in jobs : o[j] # NotStarted
        \/ \E j \in jobs : job_signal(o[j]) = "Stop"}

Conversations(key, sel) == {key[m] : m \in sel}
Of(key, sel, c) == {m \in sel : key[m] = c}

-------------------------------------------------------------------------------
(* Triage, and the triage half of extraction (collect_triage_results). *)

StopClass(o)  == \E j \in DOMAIN o : is_stop_error(o[j])
SawCancel(o)  == \E j \in DOMAIN o : o[j] = "Cancelled"
Classified(o) == {j \in DOMAIN o : o[j] \in Answers \cup Failures}

\* A request that failed counts as a signal, one that was not answered as nothing.
HasSignal(ms, o) == \E m \in ms : o[m] \in (Answers \cup Failures) \ {"Negative"}

NotificationOnly(ms, o) == \A m \in ms : o[m] = "Notification"

\* Skips on the answers of a stopped pass, too.
SkippedDespiteStop(key, sel, o) ==
  {c \in Conversations(key, sel) :
     LET ms == Of(key, sel, c) IN ~HasSignal(ms, o) \/ NotificationOnly(ms, o)}

\* The conversations the chat model is not asked about.
Skipped(key, sel, o) ==
  IF StopClass(o) \/ SawCancel(o) THEN {}
  ELSE {c \in Conversations(key, sel) :
          LET ms == Of(key, sel, c) IN ~HasSignal(ms, o) \/ NotificationOnly(ms, o)}

\* Extraction sends a conversation on to the chat model when it is unsure of a
\* paragraph or a request failed (partition_extraction_outcomes).
NeedsChat(key, sel, o) ==
  {c \in Conversations(key, sel) \ Skipped(key, sel, o) :
     \E m \in Of(key, sel, c) : o[m] \in {"Gray"} \cup Failures}

-------------------------------------------------------------------------------
(* The primary pass (merge_conversation). *)

\* The entry a conversation without an answer gets.  What is limited is not
\* offered for a retry.
Reason(r) ==
  IF r = NotStarted THEN "NotStarted"
  ELSE IF r \in {"RateLimited", "CreditsInFlight", "Quota"} THEN "Limited"
  ELSE "Failed"
Reasons == {"NotStarted", "Limited", "Failed"}

Entry(c, r) == [conv |-> c, reason |-> r]
Retryable(entries) == {f \in entries : f.reason # "Limited"}
ConversationsOf(entries) == {f.conv : f \in entries}

\* Replies a conversation can have: an assembled one asks nobody.
AssemblyReplies == {"Ok", "Other", "Panicked"}

\* failed_conversations_detail of one primary pass.
Entries(o) == {Entry(c, Reason(o[c])) : c \in {d \in DOMAIN o : o[d] \notin {"Ok", "Cancelled"}}}

\* ... without the jobs no worker reached.
EntriesOfStarted(o) ==
  {Entry(c, Reason(o[c])) : c \in {d \in DOMAIN o : o[d] \notin {"Ok", "Cancelled", NotStarted}}}
===============================================================================
