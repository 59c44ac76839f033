------------------------------ MODULE StepVerdict ------------------------------
(***************************************************************************)
(* What the closure walk makes of one later message (closure_walk.rs).     *)
(*                                                                         *)
(* The decision model answers every unit of the message (a paragraph, or   *)
(* the whole text) with a gate, "is this about the request?", and the      *)
(* questions of its author's role.  A probability is the band it falls     *)
(* in.  An effect does not name its paragraph: which of two agreeing       *)
(* paragraphs is quoted is left out.                                       *)
(***************************************************************************)
EXTENDS Integers, FiniteSets

Bands == {"Accept", "Gray", "Reject"}

Questions ==
  [WaitingParty |-> {"received", "no_longer_needed", "asks_again",
                     "changes_terms", "still_owed", "changes_due"},
   User         |-> {"delivers", "promises", "declines", "hands_off"},
   ThirdParty   |-> {"done"}]
AuthorRoles == DOMAIN Questions

\* still_owed only matters when the terms change.
Checked(role) == Questions[role] \ {"still_owed"}

Close(kind)   == [effect |-> "Close", kind |-> kind]
Suggest(kind) == [effect |-> "Suggest", kind |-> kind]
AskedAgain    == [effect |-> "AskedAgain"]
Amended       == [effect |-> "Amended"]
NewDate       == [effect |-> "NewDate"]

is_terminal(e) == e.effect \in {"Close", "Suggest"}

Doubt == {[effect |-> "Doubt"]}  \* unit_effects returned None

\* The effects of a unit that responds; `band` maps each question to its band.
unit_effects(role, band) ==
  LET yes(id) == band[id] = "Accept"
      if(c, e) == IF c THEN {e} ELSE {}
  IN  IF \/ \E id \in Checked(role) : band[id] = "Gray"
         \/ role = "WaitingParty" /\ yes("changes_terms") /\ band["still_owed"] = "Gray"
        THEN Doubt
      ELSE CASE role = "WaitingParty" ->
                  if(yes("received"), Close("Completed"))
                  \cup if(yes("no_longer_needed"), Close("Withdrawn"))
                  \cup if(yes("changes_terms"),
                          IF yes("still_owed") THEN Amended ELSE Close("Withdrawn"))
                  \cup if(yes("asks_again"), AskedAgain)
                  \cup if(yes("changes_due"), NewDate)
             [] role = "User" ->
                  if(yes("delivers"), Suggest("Closure"))
                  \cup if(yes("declines"), Suggest("Declined"))
                  \cup if(yes("hands_off"), Suggest("Delegated"))
                  \cup if(yes("promises"), NewDate)
             [] role = "ThirdParty" -> if(yes("done"), Suggest("Closure"))

\* What one unit can say: nothing, perhaps something, or these effects.
Silent == [gate |-> "Reject", effects |-> {}]
Perhaps == [gate |-> "Gray", effects |-> {}]
Responds(effects) == [gate |-> "Accept", effects |-> effects]

Readings ==
  [role \in AuthorRoles |->
     {Silent, Perhaps}
     \cup {Responds(unit_effects(role, band)) : band \in [Questions[role] -> Bands]}]

NoResponse == [verdict |-> "NoResponse"]
Escalate   == [verdict |-> "Escalate"]
Apply(effects) == [verdict |-> "Apply", effects |-> effects]

\* Terminal effects leave no room for others and must agree.
step_verdict(units) ==
  LET responding == {u \in units : u.gate = "Accept"}
      effects    == UNION {u.effects : u \in responding}
      terminal   == {e \in effects : is_terminal(e)}
  IN  CASE responding = {} -> IF Perhaps \in units THEN Escalate ELSE NoResponse
        [] responding # {} /\ Doubt \subseteq effects -> Escalate
        [] responding # {} /\ ~(Doubt \subseteq effects) ->
             IF Cardinality(terminal) > 1 THEN Escalate
             ELSE IF terminal # {} THEN Apply(terminal)
             ELSE IF effects = {} THEN NoResponse
             ELSE Apply(effects)

\* Every verdict on a message of one or two units.
Verdicts ==
  [role \in AuthorRoles |->
     {step_verdict({u, w}) : u \in Readings[role], w \in Readings[role]}]
===============================================================================
