------------------------------- MODULE MCReview -------------------------------
(* The instance of ReviewCoverage that TLC checks: two Outlook conversations    *)
(* that may turn out to be one, and a Gmail conversation.                       *)
EXTENDS ReviewCoverage, TLC

CONSTANTS m1, m2, m3, Outlook, Gmail

MCThread == m1 :> 2 @@ m2 :> 1 @@ m3 :> 3
MCProviderOf == m1 :> Outlook @@ m2 :> Outlook @@ m3 :> Gmail

\* Conversations only the rules can join are explored with one provider.
MCUsers == {[providers |-> {Outlook, Gmail}, bond |-> "strong"],
            [providers |-> {Outlook}, bond |-> "weak"]}
===============================================================================
