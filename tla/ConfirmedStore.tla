---------------------------- MODULE ConfirmedStore ----------------------------
(***************************************************************************)
(* What the protected state promises across restarts: a start is shown     *)
(* everything that was ever published, or it is shown nothing at all.      *)
(***************************************************************************)
EXTENDS Integers

CONSTANT Rows

VARIABLES content,   \* the rows the protected anchor vouches for
          published, \* the rows writers were told are durable
          shown      \* what a start would be given now

Given(rows) == [given |-> TRUE, rows |-> rows]
Refused     == [given |-> FALSE, rows |-> {}]

vars == <<content, published, shown>>

Init == content = {} /\ published = {} /\ shown \in {Given({}), Refused}

\* The anchor takes up committed rows; nobody was told yet.
Extend == /\ \E more \in SUBSET Rows : content' = content \cup more
          /\ shown' \in {Given(content'), Refused}
          /\ UNCHANGED published

Publish == published' = content /\ UNCHANGED <<content, shown>>

\* Crashes, lost rows and clocks turn a start into a refusal, and perhaps back.
Change == shown' \in {Given(content), Refused} /\ UNCHANGED <<content, published>>

Next == Extend \/ Publish \/ Change

Spec == Init /\ [][Next]_vars
==============================================================================
