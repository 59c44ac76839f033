----------------------------- MODULE JobOutcomes -----------------------------
(***************************************************************************)
(* What one dispatched request may come back with, and what that tells the *)
(* worker pool and the merge (review_scan.rs: JobOutcome, job_signal,      *)
(* is_transport_error, is_stop_error).  "Other" stands for every provider  *)
(* error that concerns one request only (malformed answer, content filter, *)
(* context too long, ...): the code never distinguishes them.              *)
(***************************************************************************)

ProviderErrors == {"Unauthorized", "RateLimited", "CreditsInFlight", "Network",
                   "ServerError", "Cancelled", "Timeout", "Quota", "Other"}

\* A request that was sent ends in one of these; a job that was not sent has
\* the outcome NotStarted.
Completions == {"Ok"} \cup ProviderErrors
Replies     == Completions \cup {"Panicked"}
NotStarted  == "NotStarted"
Outcomes    == Replies \cup {NotStarted}

TransportErrors == {"Unauthorized", "RateLimited", "Network", "ServerError"}

is_transport_error(e) == e \in TransportErrors

\* Errors that set primary_scan_transport_error (rate limiting narrows only).
is_stop_error(e) == is_transport_error(e) /\ e # "RateLimited"

\* What one completed request tells the limiter.
job_signal(r) ==
  IF r \in {"RateLimited", "CreditsInFlight"} THEN "Backoff"
  ELSE IF r = "Cancelled" \/ is_transport_error(r) THEN "Stop"
  ELSE "Ok"
==============================================================================
