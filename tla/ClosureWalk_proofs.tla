--------------------------- MODULE ClosureWalk_proofs ---------------------------
(***************************************************************************)
(* Theorems about the closure pass, for every set of loops, conversations  *)
(* and messages, every author and every answer of the models.              *)
(***************************************************************************)
EXTENDS ClosureWalk, FiniteSetTheorems, WellFoundedInduction, TLAPS

(* The types of the variables. *)

Phases == {"choice", "ends", "walk", "answers", "handoff", "dates", "expire",
           "chat", "merge", "done"}
Walks == [later : SUBSET Messages, stopped : BOOLEAN, closed : BOOLEAN, event : BOOLEAN]
Items == [resolution : {0} \cup Messages,
          resolution_kind : {"None", "Completed", "Withdrawn"},
          suggested_update : {NoUpdate} \cup Updates,
          deadline : {0} \cup Messages,
          restated : SUBSET Messages, amended : SUBSET Messages, passed : BOOLEAN]
Jobs == [message : Messages, source : AuthorRoles, confidence : Confidences]

Settings ==
  /\ mail \in [Messages -> [author : Authors, thread : Threads]]
  /\ incremental \in BOOLEAN /\ decisive \in BOOLEAN
  /\ fresh \subseteq Messages

Typed ==
  /\ Settings
  /\ phase \in Phases
  /\ cancel \in BOOLEAN /\ cancelled \in BOOLEAN
  /\ walk \in [Loops -> Walks]
  /\ item \in [Loops -> Items]
  /\ card \in [Loops -> {NoUpdate} \cup Updates]
  /\ handoffs \in [Loops -> {NoJob} \cup Jobs]
  /\ dates \in [Loops -> {NoJob} \cup Jobs]
  /\ chat_reach \in [Threads -> SUBSET Loops]
  /\ skipped \subseteq Loops /\ escalated \subseteq Loops
  /\ suggested_updates \in 0 .. Cardinality(Loops)

(* The inductive invariant, loop by loop. *)

\* Follow-up questions are pending only in the rounds that ask them.
JobsHaveRounds ==
  /\ phase # "handoff" => \A l \in Loops : handoffs[l] = NoJob
  /\ phase \notin {"handoff", "dates"} => \A l \in Loops : dates[l] = NoJob

\* A card is resolved exactly when its walk closed it, which ended the walk; of
\* a walk that ended nothing is asked any more.
ClosedWalk(l) ==
  /\ item[l].resolution # 0 <=> walk[l].closed
  /\ walk[l].closed => walk[l].stopped
  /\ walk[l].stopped => handoffs[l] = NoJob /\ dates[l] = NoJob

\* A walk that ended in doubt has ended, and the chat model is not asked about
\* a skipped one.
DoubtEnds(l) ==
  /\ l \in skipped \cup escalated => walk[l].stopped
  /\ l \in skipped => decisive /\ \A t \in Threads : l \notin chat_reach[t]

\* Everything applied to a card comes from before the messages left to read,
\* and so does the date that is being asked about.
Marks(l) == {item[l].deadline, item[l].resolution} \cup item[l].restated \cup item[l].amended
Past(l) ==
  \A n \in walk[l].later :
    /\ \A m \in Marks(l) : m < n
    /\ dates[l] # NoJob => dates[l].message < n

\* Of its own conversation a prior loop gets nothing to read: only the user's
\* messages elsewhere, which never take a suggestion back.
PriorLoop(l) ==
  l \in prior => \A m \in walk[l].later : mail[m].author = "user" /\ m \in fresh

\* What a prior loop is given stems from the new messages, what it brought along
\* does not.
News(l) ==
  l \in prior /\ phase # "done" =>
    /\ card[l].message \notin fresh
    /\ \/ item[l].suggested_update \in {NoUpdate, card[l]}
       \/ item[l].suggested_update.message \in fresh
    /\ handoffs[l] # NoJob => handoffs[l].message \in fresh
    /\ dates[l] # NoJob => dates[l].message \in fresh

\* Until the merge, a card of a prior loop is what its copy began with.
CardKept(l) ==
  phase # "done" /\ card[l] # NoUpdate => l \in prior /\ Has(item, l)

\* Who is put to the chat model after a walk has left it.
ReachStops(l) ==
  decisive => \A t \in Threads : l \in chat_reach[t] => walk[l].stopped

\* What a closed card keeps.
Final(l) ==
  item[l].resolution # 0 =>
    /\ ~Has(item, l) /\ ~item[l].passed
    /\ decisive => \A t \in Threads : l \notin chat_reach[t]
    /\ \A m \in {item[l].deadline} \cup item[l].restated \cup item[l].amended :
         m < item[l].resolution

\* What a chased card does not suggest.
FromUserReply(u) == u.kind = "Closure" /\ mail[u.message].author = "user"
Chased(l) ==
  decisive /\ phase \notin {"merge", "done"} =>
    \A m \in item[l].restated :
      FromUserReply(item[l].suggested_update) => item[l].suggested_update.message > m

\* Cards expire after the walk.
Unexpired(l) == phase \notin {"chat", "merge", "done"} => ~item[l].passed

LoopInv(l) ==
  /\ ClosedWalk(l)
  /\ Unexpired(l)
  /\ Past(l)
  /\ PriorLoop(l)
  /\ News(l)
  /\ DoubtEnds(l)
  /\ CardKept(l)
  /\ ReachStops(l)
  /\ Final(l)
  /\ Chased(l)

\* Without a decision model nothing is walked.
NothingWalked ==
  ~decisive => phase \in {"chat", "merge", "done"} /\ \A l \in Loops : ~walk[l].closed

\* Only the user's stop cuts requests short; before the first question no walk
\* has ended.
CutsHaveCause ==
  /\ cancelled => cancel
  /\ phase = "chat" => ~cancelled
  /\ phase = "choice" => \A l \in Loops : ~walk[l].stopped

IInv ==
  /\ Typed
  /\ JobsHaveRounds
  /\ CutsHaveCause
  /\ NothingWalked
  /\ \A l \in Loops : LoopInv(l)
  /\ CountsAreTrue

-------------------------------------------------------------------------------
(* Lemmas about the operators. *)

\* A nonempty set of naturals has a least element, which is what Min picks.
LEMMA MinOfNats ==
  ASSUME NEW S \in SUBSET Nat, S # {}
  PROVE  Min(S) \in S /\ \A y \in S : Min(S) <= y
<1>1. PICK x \in S : \A y \in S : ~ (<<y, x>> \in OpToRel(<, Nat))
  BY NatLessThanWellFounded, WFMin
<1>2. ASSUME NEW y \in S
      PROVE  x <= y
  <2>1. <<y, x>> \in Nat \X Nat /\ <<y, x>>[1] = y /\ <<y, x>>[2] = x
    OBVIOUS
  <2>2. <<y, x>> \notin {ss \in Nat \X Nat : ss[1] < ss[2]}
    BY <1>1 DEF OpToRel
  <2> QED BY <2>1, <2>2
<1> QED BY <1>2 DEF Min

\* The next message of a walk is its earliest one left.
LEMMA CurrentIsLeast ==
  ASSUME Typed, NEW l \in Loops, walk[l].later # {}
  PROVE  /\ Current(l) \in walk[l].later /\ Current(l) \in Messages
         /\ \A n \in walk[l].later \ {Current(l)} : Current(l) < n
<1>1. walk[l].later \in SUBSET Messages
  BY DEF Typed, Walks
<1>2. /\ Messages \subseteq Nat
      /\ walk[l].later \in SUBSET Nat
  BY <1>1 DEF Messages
<1>3. Current(l) \in walk[l].later /\ \A n \in walk[l].later : Current(l) <= n
  BY <1>2, MinOfNats DEF Current
<1> QED BY <1>1, <1>2, <1>3

\* The effects a message can have, by its author's role.
RoleEffects(role) ==
  CASE role = "WaitingParty" ->
         {Close("Completed"), Close("Withdrawn"), AskedAgain, Amended, NewDate}
    [] role = "User" ->
         {Suggest("Closure"), Suggest("Declined"), Suggest("Delegated"), NewDate}
    [] role = "ThirdParty" -> {Suggest("Closure")}

\* A unit is in doubt or has effects of its author's role (unit_effects).
LEMMA UnitEffects ==
  ASSUME NEW role \in AuthorRoles, NEW band
  PROVE  \/ unit_effects(role, band) = Doubt
         \/ unit_effects(role, band) \subseteq RoleEffects(role)
<1>1. role \in {"WaitingParty", "User", "ThirdParty"}
  BY DEF AuthorRoles, Questions
<1>2. CASE role = "WaitingParty"
  BY <1>2 DEF unit_effects, RoleEffects
<1>3. CASE role = "User"
  BY <1>3 DEF unit_effects, RoleEffects
<1>4. CASE role = "ThirdParty"
  BY <1>4 DEF unit_effects, RoleEffects
<1> QED BY <1>1, <1>2, <1>3, <1>4

\* They are finitely many.
LEMMA RoleEffectsFinite ==
  ASSUME NEW role \in AuthorRoles
  PROVE  IsFiniteSet(RoleEffects(role))
<1> DEFINE Five(e1, e2, e3, e4, e5) == (((({} \cup {e1}) \cup {e2}) \cup {e3}) \cup {e4}) \cup {e5}
<1>1. ASSUME NEW e1, NEW e2, NEW e3, NEW e4, NEW e5
      PROVE  IsFiniteSet(Five(e1, e2, e3, e4, e5))
  <2>1. IsFiniteSet({} \cup {e1})
    BY FS_EmptySet, FS_AddElement
  <2>2. IsFiniteSet(({} \cup {e1}) \cup {e2})
    BY <2>1, FS_AddElement
  <2>3. IsFiniteSet((({} \cup {e1}) \cup {e2}) \cup {e3})
    BY <2>2, FS_AddElement
  <2>4. IsFiniteSet(((({} \cup {e1}) \cup {e2}) \cup {e3}) \cup {e4})
    BY <2>3, FS_AddElement
  <2> QED BY <2>4, FS_AddElement
<1>2. role \in {"WaitingParty", "User", "ThirdParty"}
  BY DEF AuthorRoles, Questions
<1>3. \/ RoleEffects(role) = Five(Close("Completed"), Close("Withdrawn"), AskedAgain,
                                  Amended, NewDate)
      \/ RoleEffects(role) = Five(Suggest("Closure"), Suggest("Declined"),
                                  Suggest("Delegated"), NewDate, NewDate)
      \/ RoleEffects(role) = Five(Suggest("Closure"), Suggest("Closure"),
                                  Suggest("Closure"), Suggest("Closure"), Suggest("Closure"))
  BY <1>2 DEF RoleEffects
<1> HIDE DEF Five
<1> QED BY <1>1, <1>3

\* What the messages of one role can say: terminal effects agree and are alone
\* (step_verdict).
Lawful(role, effects) ==
  \/ role = "WaitingParty" /\ \E k \in {"Completed", "Withdrawn"} : effects = {Close(k)}
  \/ role # "WaitingParty" /\ \E k \in {"Closure", "Declined", "Delegated"} :
                                 effects = {Suggest(k)}
  \/ role = "WaitingParty" /\ effects \subseteq {AskedAgain, Amended, NewDate}
  \/ role # "WaitingParty" /\ effects \subseteq {NewDate}

\* The effects of a role that agree are lawful.
LEMMA AgreeingEffects ==
  ASSUME NEW role \in AuthorRoles, NEW effects \in SUBSET RoleEffects(role)
  PROVE  LET terminal == {e \in effects : is_terminal(e)}
         IN  /\ terminal = {} => Lawful(role, effects)
             /\ terminal # {} /\ ~(Cardinality(terminal) > 1) => Lawful(role, terminal)
<1> DEFINE terminal == {e \in effects : is_terminal(e)}
<1>1. role \in {"WaitingParty", "User", "ThirdParty"}
  BY DEF AuthorRoles, Questions
<1>2. ASSUME terminal = {}
      PROVE  Lawful(role, effects)
  <2>1. \A e \in effects : e \in RoleEffects(role) /\ ~is_terminal(e)
    BY <1>2
  <2>2. CASE role = "WaitingParty"
    <3>1. effects \subseteq {AskedAgain, Amended, NewDate}
      BY <2>1, <2>2 DEF RoleEffects, is_terminal, Close
    <3> QED BY <2>2, <3>1 DEF Lawful
  <2>3. CASE role # "WaitingParty"
    <3>1. effects \subseteq {NewDate}
      BY <1>1, <2>1, <2>3 DEF RoleEffects, is_terminal, Suggest
    <3> QED BY <2>3, <3>1 DEF Lawful
  <2> QED BY <2>2, <2>3
<1>3. ASSUME terminal # {}, ~(Cardinality(terminal) > 1)
      PROVE  Lawful(role, terminal)
  <2>1. IsFiniteSet(RoleEffects(role))
    BY RoleEffectsFinite
  <2>2. IsFiniteSet(terminal)
    BY <2>1, FS_Subset
  <2>3. Cardinality(terminal) \in Nat /\ Cardinality(terminal) # 0
    BY <2>2, <1>3, FS_CardinalityType, FS_EmptySet
  <2>4. PICK e : terminal = {e}
    BY <2>2, <2>3, <1>3, FS_Singleton
  <2>5. e \in RoleEffects(role) /\ is_terminal(e)
    BY <2>4
  <2>6. CASE role = "WaitingParty"
    <3>1. \E k \in {"Completed", "Withdrawn"} : e = Close(k)
      BY <2>5, <2>6 DEF RoleEffects, is_terminal, AskedAgain, Amended, NewDate
    <3> QED BY <2>4, <2>6, <3>1 DEF Lawful
  <2>7. CASE role # "WaitingParty"
    <3>1. \E k \in {"Closure", "Declined", "Delegated"} : e = Suggest(k)
      BY <1>1, <2>5, <2>7 DEF RoleEffects, is_terminal, NewDate
    <3> QED BY <2>4, <2>7, <3>1 DEF Lawful
  <2> QED BY <2>6, <2>7
<1> QED BY <1>2, <1>3

VerdictOn(u, w) == step_verdict({u, w})

\* A verdict escalates, says nothing, or applies lawful effects.
LEMMA VerdictShape ==
  ASSUME NEW role \in AuthorRoles, NEW v \in Verdicts[role]
  PROVE  Lawful(role, EffectsOf(v)) /\ (v = Escalate => EffectsOf(v) = {})
<1>1. PICK u \in Readings[role], w \in Readings[role] : v = step_verdict({u, w})
  <2>1. v \in {VerdictOn(u, w) : u \in Readings[role], w \in Readings[role]}
    <3>1. Verdicts[role] = {VerdictOn(u, w) : u \in Readings[role], w \in Readings[role]}
      BY DEF Verdicts, VerdictOn
    <3> QED BY <3>1
  <2>2. PICK u \in Readings[role], w \in Readings[role] : v = VerdictOn(u, w)
    BY <2>1
  <2> QED BY <2>2 DEF VerdictOn
<1> DEFINE units      == {u, w}
           responding == {x \in units : x.gate = "Accept"}
           effects    == UNION {x.effects : x \in responding}
           terminal   == {e \in effects : is_terminal(e)}
<1>2. ASSUME NEW x \in units
      PROVE  x.effects = Doubt \/ x.effects \subseteq RoleEffects(role)
  <2>1. x \in {Silent, Perhaps}
          \cup {Responds(unit_effects(role, band)) : band \in [Questions[role] -> Bands]}
    BY DEF Readings
  <2>2. CASE x \in {Silent, Perhaps}
    BY <2>2 DEF Silent, Perhaps
  <2>3. CASE \E band : x = Responds(unit_effects(role, band))
    BY <2>3, UnitEffects DEF Responds
  <2> QED BY <2>1, <2>2, <2>3
<1>3. ~(Doubt \subseteq effects) => effects \in SUBSET RoleEffects(role)
  <2>1. ASSUME ~(Doubt \subseteq effects), NEW e \in effects
        PROVE  e \in RoleEffects(role)
    <3>1. PICK x \in responding : e \in x.effects
      OBVIOUS
    <3>2. x.effects # Doubt
      BY <2>1, <3>1
    <3> QED BY <1>2, <3>1, <3>2
  <2> QED BY <2>1
<1>5. Lawful(role, {})
  BY DEF Lawful, AuthorRoles, Questions
<1>6. EffectsOf(Escalate) = {} /\ EffectsOf(NoResponse) = {}
  BY DEF EffectsOf, Escalate, NoResponse
<1>7. \A x : EffectsOf(Apply(x)) = x /\ Apply(x) # Escalate
  BY DEF EffectsOf, Apply, Escalate
<1>8. \/ v = Escalate
      \/ v = NoResponse
      \/ ~(Doubt \subseteq effects) /\ terminal # {} /\ ~(Cardinality(terminal) > 1)
         /\ v = Apply(terminal)
      \/ ~(Doubt \subseteq effects) /\ terminal = {} /\ v = Apply(effects)
  BY <1>1 DEF step_verdict
<1> QED BY <1>3, <1>5, <1>6, <1>7, <1>8, AgreeingEffects

-------------------------------------------------------------------------------
(* What a message does to a card. *)

\* The card r is card i closed by message m, with a suggestion from message m,
\* or as it was but for the notes message m leaves on it.
ClosedBy(i, r, m) ==
  /\ r.resolution = m /\ r.suggested_update = NoUpdate
  /\ r.restated = i.restated /\ r.amended = i.amended
SuggestedBy(i, r, m) ==
  /\ r.resolution = i.resolution
  /\ r.suggested_update # NoUpdate /\ r.suggested_update.message = m
  /\ r.restated = i.restated /\ r.amended = i.amended
NotedBy(i, r, m, role) ==
  /\ r.resolution = i.resolution
  /\ r.restated \subseteq i.restated \cup {m} /\ r.amended \subseteq i.amended \cup {m}
  /\ r.suggested_update \in {NoUpdate, i.suggested_update}
  /\ role # "WaitingParty" => r.suggested_update = i.suggested_update
  /\ r.restated = i.restated \/ ~FromUserReply(r.suggested_update)

Closing(effects) == \E e \in effects : e.effect = "Close"

\* A suggestion has a message, so it is one.
LEMMA UpdateShape ==
  ASSUME NEW k \in WalkKinds, NEW m \in Messages, NEW c \in Confidences
  PROVE  /\ Update(k, m, c) \in Updates /\ Update(k, m, c) # NoUpdate
         /\ Update(k, m, c).message = m /\ Update(k, m, c).kind = k
<1>1. k # "None"
  BY DEF WalkKinds
<1>2. Update(k, m, c).kind = k /\ Update(k, m, c).message = m /\ NoUpdate.kind = "None"
  BY DEF Update, NoUpdate
<1>3. Update(k, m, c) \in {Update(kk, mm, cc) : kk \in WalkKinds, mm \in Messages, cc \in Confidences}
  OBVIOUS
<1> QED BY <1>1, <1>2, <1>3 DEF Updates

\* The parts of a card.
LEMMA ItemParts ==
  ASSUME NEW i \in Items
  PROVE  /\ i.resolution \in {0} \cup Messages
         /\ i.suggested_update \in {NoUpdate} \cup Updates
         /\ i.deadline \in {0} \cup Messages
         /\ i.restated \in SUBSET Messages /\ i.amended \in SUBSET Messages
         /\ i.resolution_kind \in {"None", "Completed", "Withdrawn"}
BY DEF Items

\* What a suggestion leaves of a card.
LEMMA ItemSuggests ==
  ASSUME NEW i \in Items,
         NEW u \in {NoUpdate} \cup Updates
  PROVE  LET r == [i EXCEPT !.suggested_update = u]
         IN  /\ r \in Items
             /\ r.suggested_update = u
             /\ r.resolution = i.resolution
             /\ r.deadline = i.deadline
             /\ r.restated = i.restated
             /\ r.amended = i.amended
             /\ r.passed = i.passed
BY DEF Items

\* What a new deadline leaves of a card.
LEMMA ItemMovesDate ==
  ASSUME NEW i \in Items,
         NEW m \in Messages
  PROVE  LET r == [i EXCEPT !.deadline = m]
         IN  /\ r \in Items
             /\ r.suggested_update = i.suggested_update
             /\ r.resolution = i.resolution
             /\ r.deadline = m
             /\ r.restated = i.restated
             /\ r.amended = i.amended
             /\ r.passed = i.passed
BY DEF Items

\* What the end of its event leaves of a card.
LEMMA ItemPasses ==
  ASSUME NEW i \in Items
  PROVE  LET r == [i EXCEPT !.passed = TRUE]
         IN  /\ r \in Items
             /\ r.suggested_update = i.suggested_update
             /\ r.resolution = i.resolution
             /\ r.deadline = i.deadline
             /\ r.restated = i.restated
             /\ r.amended = i.amended
BY DEF Items

\* Every effect a message may have is one of the three (apply_step_effects).
LEMMA AffectedShape ==
  ASSUME NEW i \in Items, NEW role, NEW effects, Lawful(role, effects),
         NEW m \in Messages, NEW c \in Confidences, NEW named \in BOOLEAN
  PROVE  LET r == Affected(i, effects, m, c, named)
         IN  /\ r \in Items
             /\ r.deadline = i.deadline /\ r.passed = i.passed
             /\ \/ /\ Closing(effects) /\ NewDate \notin effects
                   /\ Suggest("Delegated") \notin effects
                   /\ role = "WaitingParty" /\ ClosedBy(i, r, m)
                \/ ~Closing(effects) /\ (SuggestedBy(i, r, m) \/ NotedBy(i, r, m, role))
             /\ effects \subseteq {AskedAgain, Amended, NewDate} => NotedBy(i, r, m, role)
<1> DEFINE r == Affected(i, effects, m, c, named)
           closes   == {e \in effects : e.effect = "Close"}
           suggests == {e \in effects : e.effect = "Suggest"}
           u1 == IF i.suggested_update.kind = "Closure"
                    /\ mail[i.suggested_update.message].author = "user"
                   THEN NoUpdate ELSE i.suggested_update
           i1 == IF AskedAgain \notin effects THEN i
                 ELSE [i EXCEPT !.restated = @ \cup {m}, !.suggested_update = u1]
           i2 == IF Amended \notin effects THEN i1 ELSE [i1 EXCEPT !.amended = @ \cup {m}]
<1>1. r = IF closes # {}
            THEN [i EXCEPT !.resolution = m, !.suggested_update = NoUpdate,
                           !.resolution_kind = (CHOOSE e \in closes : TRUE).kind]
          ELSE IF suggests # {} /\ ~named
            THEN [i EXCEPT !.suggested_update =
                    Update((CHOOSE e \in suggests : TRUE).kind, m, c)]
          ELSE i2
  BY DEF Affected
<1>0. Affected(i, effects, m, c, named) = r
  OBVIOUS
<1> HIDE DEF r
<1>2. CASE \E k \in {"Completed", "Withdrawn"} : effects = {Close(k)} /\ role = "WaitingParty"
  <2>1. PICK k \in {"Completed", "Withdrawn"} : effects = {Close(k)}
    BY <1>2
  <2>2. closes = {Close(k)} /\ Close(k).kind = k /\ Close(k).effect = "Close"
    BY <2>1 DEF Close
  <2>3. (CHOOSE e \in closes : TRUE) = Close(k)
    BY <2>2
  <2>4. r = [i EXCEPT !.resolution = m, !.suggested_update = NoUpdate, !.resolution_kind = k]
    BY <1>1, <2>2, <2>3
  <2>5. NewDate \notin effects /\ Suggest("Delegated") \notin effects /\ Closing(effects)
        /\ ~(effects \subseteq {AskedAgain, Amended, NewDate})
    BY <2>1 DEF Close, NewDate, Suggest, Closing, AskedAgain, Amended
  <2>6. r \in Items /\ r.deadline = i.deadline /\ r.passed = i.passed /\ ClosedBy(i, r, m)
    <3> DEFINE q == [i EXCEPT !.resolution = m, !.suggested_update = NoUpdate,
                              !.resolution_kind = k]
    <3>1. /\ q \in Items /\ q.suggested_update = NoUpdate /\ q.resolution = m
          /\ q.deadline = i.deadline /\ q.restated = i.restated
          /\ q.amended = i.amended /\ q.passed = i.passed
      BY DEF Items
    <3> HIDE DEF q
    <3>2. r = q
      BY <2>4 DEF q
    <3> QED BY <3>1, <3>2 DEF ClosedBy
  <2> QED BY <1>0, <1>2, <2>5, <2>6
<1>3. CASE \E k \in {"Closure", "Declined", "Delegated"} : effects = {Suggest(k)}
  <2>1. PICK k \in {"Closure", "Declined", "Delegated"} : effects = {Suggest(k)}
    BY <1>3
  <2>2. suggests = {Suggest(k)} /\ Suggest(k).kind = k /\ closes = {} /\ ~Closing(effects)
    BY <2>1 DEF Suggest, Closing
  <2>3. (CHOOSE e \in suggests : TRUE) = Suggest(k)
    BY <2>2
  <2>4. AskedAgain \notin effects /\ Amended \notin effects
    BY <2>1 DEF Suggest, AskedAgain, Amended
  <2>5. i2 = i
    BY <2>4
  <2>6. CASE named
    <3>1. r = i
      BY <1>1, <2>2, <2>5, <2>6
    <3> QED BY <1>0, <2>2, <3>1 DEF NotedBy
  <2>7. CASE ~named
    <3>1. r = [i EXCEPT !.suggested_update = Update(k, m, c)]
      BY <1>1, <2>2, <2>3, <2>7
    <3>2. k \in WalkKinds
      BY DEF WalkKinds
    <3>3. r \in Items /\ r.deadline = i.deadline /\ r.passed = i.passed /\ SuggestedBy(i, r, m)
      BY <3>1, <3>2, UpdateShape, ItemSuggests DEF SuggestedBy
    <3>4. ~(effects \subseteq {AskedAgain, Amended, NewDate})
      BY <2>1 DEF Suggest, AskedAgain, Amended, NewDate
    <3> QED BY <1>0, <2>2, <3>3, <3>4
  <2> QED BY <2>6, <2>7
<1>4. CASE /\ effects \subseteq {AskedAgain, Amended, NewDate}
           /\ role # "WaitingParty" => effects \subseteq {NewDate}
  <2>1. closes = {} /\ suggests = {} /\ ~Closing(effects)
    BY <1>4 DEF Closing, AskedAgain, Amended, NewDate
  <2>2. r = i2
    BY <1>1, <2>1
  <2>3. /\ u1 \in {NoUpdate, i.suggested_update} /\ ~FromUserReply(u1)
        /\ u1 \in {NoUpdate} \cup Updates
    BY ItemParts DEF FromUserReply, NoUpdate
  <2> HIDE DEF u1
  <2>4. /\ i1 \in Items /\ i1.deadline = i.deadline /\ i1.passed = i.passed
        /\ i1.resolution = i.resolution /\ i1.amended = i.amended
        /\ \/ AskedAgain \notin effects /\ i1 = i
           \/ /\ AskedAgain \in effects /\ i1.restated = i.restated \cup {m}
              /\ i1.suggested_update = u1
    BY <2>3 DEF Items
  <2> HIDE DEF i1
  <2>5. /\ i2 \in Items /\ i2.deadline = i1.deadline /\ i2.passed = i1.passed
        /\ i2.resolution = i1.resolution /\ i2.restated = i1.restated
        /\ i2.suggested_update = i1.suggested_update
        /\ i2.amended \subseteq i1.amended \cup {m}
    BY <2>4 DEF Items
  <2>6. role # "WaitingParty" => AskedAgain \notin effects
    BY <1>4 DEF AskedAgain, NewDate
  <2>7. NotedBy(i, i2, m, role)
    BY <2>3, <2>4, <2>5, <2>6 DEF NotedBy
  <2> QED BY <1>0, <2>1, <2>2, <2>4, <2>5, <2>7
<1>5. effects \subseteq {NewDate} => effects \subseteq {AskedAgain, Amended, NewDate}
  OBVIOUS
<1> QED BY <1>2, <1>3, <1>4, <1>5 DEF Lawful

-------------------------------------------------------------------------------
(* Counting. *)

\* A set that gains and loses members counts what is left; nothing is clipped
\* where it keeps those that were not counted.
Moved(U, H, G, P, n, k) ==
  /\ IsFiniteSet(U) /\ H \subseteq U /\ G \subseteq U /\ P \subseteq G
  /\ n \in Nat /\ n + Cardinality(P) = Cardinality(H)
  /\ k = monus(n + Cardinality(G \ H), Cardinality(H \ G))
LEMMA CountsMove ==
  ASSUME NEW U, NEW H, NEW G, NEW P, NEW n, NEW k, Moved(U, H, G, P, n, k)
  PROVE  k \in Nat /\ k + Cardinality(P) = Cardinality(G)
<1>0. /\ IsFiniteSet(U) /\ H \in SUBSET U /\ G \in SUBSET U /\ P \in SUBSET U
      /\ P \in SUBSET G
      /\ n \in Nat /\ n + Cardinality(P) = Cardinality(H)
      /\ k = monus(n + Cardinality(G \ H), Cardinality(H \ G))
  BY DEF Moved
<1>1. IsFiniteSet(H) /\ IsFiniteSet(G) /\ IsFiniteSet(P)
  BY <1>0, FS_Subset
<1>2. /\ IsFiniteSet(G \ H) /\ Cardinality(G \ H) = Cardinality(G) - Cardinality(G \cap H)
      /\ IsFiniteSet(H \ G) /\ Cardinality(H \ G) = Cardinality(H) - Cardinality(H \cap G)
  BY <1>1, FS_Difference
<1>3. /\ Cardinality(H) \in Nat /\ Cardinality(G) \in Nat /\ Cardinality(P) \in Nat
      /\ Cardinality(G \ H) \in Nat /\ Cardinality(H \ G) \in Nat
      /\ Cardinality(P) <= Cardinality(G)
  BY <1>1, <1>2, <1>0, FS_CardinalityType, FS_Subset
<1>4. G \cap H = H \cap G
  OBVIOUS
<1>5. IsFiniteSet(G \cap H) /\ Cardinality(G \cap H) \in Nat
  BY <1>1, FS_Intersection, FS_CardinalityType
<1>6. n + Cardinality(G \ H) - Cardinality(H \ G) = Cardinality(G) - Cardinality(P)
  <2>1. PICK x \in Nat : x = Cardinality(G \cap H) /\ x = Cardinality(H \cap G)
    BY <1>4, <1>5
  <2>2. /\ Cardinality(G \ H) = Cardinality(G) - x
        /\ Cardinality(H \ G) = Cardinality(H) - x
    BY <1>2, <2>1
  <2> QED BY <1>0, <1>3, <2>2
<1>7. n + Cardinality(G \ H) >= Cardinality(H \ G)
  BY <1>0, <1>3, <1>6
<1> QED BY <1>0, <1>3, <1>6, <1>7 DEF monus

Suggesting(i) == {l \in Loops : Has(i, l)}

\* The counter follows the cards (the counting of a round and of a chat answer).
LEMMA CountedIsTrue ==
  ASSUME suggested_updates \in Nat,
         suggested_updates + Cardinality(Carried) = Cardinality(Suggesting(item)),
         NEW after, Carried \subseteq Suggesting(after)
  PROVE  /\ Counted(item, after) \in 0 .. Cardinality(Loops)
         /\ Counted(item, after) + Cardinality(Carried) = Cardinality(Suggesting(after))
<1>0. PICK H, G, P, n, k :
        /\ H = Suggesting(item) /\ G = Suggesting(after) /\ P = Carried
        /\ n = suggested_updates /\ k = Counted(item, after)
  OBVIOUS
<1>1. IsFiniteSet(Loops) /\ H \in SUBSET Loops /\ G \in SUBSET Loops /\ P \in SUBSET Loops
  BY <1>0, BoundsAreKnown, LoopsAreKnown DEF Suggesting, Carried, prior
<1>2. /\ {l \in Loops : ~Has(item, l) /\ Has(after, l)} = G \ H
      /\ {l \in Loops : Has(item, l) /\ ~Has(after, l)} = H \ G
  BY <1>0 DEF Suggesting
<1>3. k = monus(n + Cardinality(G \ H), Cardinality(H \ G))
  BY <1>0, <1>2 DEF Counted
<1>4. P \subseteq G /\ n \in Nat /\ n + Cardinality(P) = Cardinality(H)
  BY <1>0
<1>5. k \in Nat /\ k + Cardinality(P) = Cardinality(G)
  <2>1. Moved(Loops, H, G, P, n, k)
    BY <1>1, <1>3, <1>4 DEF Moved
  <2> QED BY <2>1, CountsMove
<1>6. Cardinality(G) <= Cardinality(Loops) /\ Cardinality(Loops) \in Nat
      /\ Cardinality(P) \in Nat /\ Cardinality(G) \in Nat
  BY <1>1, FS_Subset, FS_CardinalityType
<1> QED BY <1>0, <1>5, <1>6

\* What it takes to keep the count, before the merge.
LEMMA CountKept ==
  ASSUME IInv, UNCHANGED <<setting, card>>, phase # "done",
         suggested_updates' = Counted(item, item'),
         \A l \in Loops : CardKept(l)',
         phase' # "done"
  PROVE  /\ suggested_updates' \in 0 .. Cardinality(Loops)
         /\ CountsAreTrue'
<1>1. PICK after : after = item'
  OBVIOUS
<1>2. Carried' = Carried /\ prior' = prior
  BY DEF Carried, prior, setting
<1>3. Carried \subseteq Suggesting(after)
  BY <1>1, LoopsAreKnown DEF Carried, prior, Suggesting, CardKept, Has
<1>4. /\ suggested_updates \in Nat
      /\ suggested_updates + Cardinality(Carried) = Cardinality(Suggesting(item))
  <2>1. suggested_updates \in 0 .. Cardinality(Loops)
    BY DEF IInv, Typed
  <2> QED BY <2>1 DEF IInv, CountsAreTrue, Suggested, Suggesting
<1>5. /\ Counted(item, after) \in 0 .. Cardinality(Loops)
      /\ Counted(item, after) + Cardinality(Carried) = Cardinality(Suggesting(after))
  BY <1>3, <1>4, CountedIsTrue
<1>6. suggested_updates' = Counted(item, after)
  BY <1>1
<1>7. Carried' = Carried /\ Suggested' = Suggesting(after)
  BY <1>1, <1>2 DEF Suggested, Suggesting, Has
<1> QED BY <1>5, <1>6, <1>7 DEF CountsAreTrue

-------------------------------------------------------------------------------
(* The scan begins in the invariant. *)

\* What a walk and a card are when the pass begins.
LEMMA Beginning ==
  /\ \A s \in SUBSET Messages : NewWalk(s) \in Walks /\ NewWalk(s).later = s
                                /\ ~NewWalk(s).stopped /\ ~NewWalk(s).closed
  /\ NewItem \in Items
  /\ NewItem.resolution = 0 /\ NewItem.deadline = 0
  /\ NewItem.restated = {} /\ NewItem.amended = {} /\ ~NewItem.passed
BY DEF NewWalk, Walks, NewItem, Items

\* Everything begins unread, uncounted and undecided (scan_decision_closures,
\* prior_open_items).
LEMMA InitIInv == Init => IInv
<1> SUFFICES ASSUME Init PROVE IInv
  OBVIOUS
<1>1. Settings
  BY DEF Init, Settings
<1>2. card \in [Loops -> {NoUpdate} \cup Updates]
      /\ \A l \in Loops : /\ card[l] # NoUpdate => l \in prior
                          /\ card[l].message \notin fresh
  <2>1. card \in {c \in [Loops -> {NoUpdate} \cup ChatUpdates] :
                    \A l \in Loops : c[l] # NoUpdate =>
                      l \in prior /\ c[l].message \in Messages \ fresh
                      /\ c[l].message > LoopAt[l]}
    BY DEF Init
  <2>2. card \in [Loops -> {NoUpdate} \cup ChatUpdates]
        /\ \A l \in Loops : card[l] # NoUpdate => l \in prior /\ card[l].message \notin fresh
    BY <2>1
  <2>3. ChatUpdates \subseteq Updates
    BY DEF Updates
  <2>4. NoUpdate.message \notin fresh
    BY <1>1 DEF NoUpdate, Settings, Messages
  <2> QED BY <2>2, <2>3, <2>4
<1>3. ASSUME NEW l \in Loops
      PROVE  LET later == IF decisive THEN closure_walk_later_messages(l) ELSE {}
             IN  /\ later \in SUBSET Messages /\ walk[l] = NewWalk(later)
                 /\ l \in prior => \A m \in later : mail[m].author = "user" /\ m \in fresh
  <2>1. walk[l] = NewWalk(IF decisive THEN closure_walk_later_messages(l) ELSE {})
    BY DEF Init
  <2>2. closure_walk_later_messages(l) \in SUBSET Messages
    BY DEF closure_walk_later_messages
  <2>3. ASSUME l \in prior, NEW m \in closure_walk_later_messages(l)
        PROVE  mail[m].author = "user" /\ m \in fresh
    <3>1. incremental /\ l \in PriorLoops
      BY <2>3 DEF prior
    <3>2. m \in fresh
      BY <2>3 DEF closure_walk_later_messages, admits
    <3>3. mail[m].thread # LoopThread[l]
      BY <3>1, <3>2 DEF Init
    <3>4. m \in FromUser(l)
      BY <2>3, <3>3 DEF closure_walk_later_messages
    <3> QED BY <3>2, <3>4 DEF FromUser
  <2> QED BY <2>1, <2>2, <2>3
<1>4. ASSUME NEW l \in Loops
      PROVE  /\ walk[l] \in Walks /\ ~walk[l].stopped /\ ~walk[l].closed
             /\ l \in prior => \A m \in walk[l].later : mail[m].author = "user" /\ m \in fresh
             /\ walk[l].later \in SUBSET Messages
  <2>1. PICK later : later = IF decisive THEN closure_walk_later_messages(l) ELSE {}
    OBVIOUS
  <2> QED BY <1>3, <2>1, Beginning
<1>5. ASSUME NEW l \in Loops
      PROVE  /\ item[l] \in Items /\ item[l].suggested_update = card[l]
             /\ item[l].resolution = 0 /\ item[l].deadline = 0
             /\ item[l].restated = {} /\ item[l].amended = {} /\ ~item[l].passed
  <2>1. item[l] = [NewItem EXCEPT !.suggested_update = card[l]]
    BY DEF Init
  <2>2. card[l] \in {NoUpdate} \cup Updates
    BY <1>2
  <2> QED BY <2>1, <2>2, Beginning, ItemSuggests
<1>6. Typed
  <2>1. walk \in [Loops -> Walks]
    BY <1>4 DEF Init
  <2>2. item \in [Loops -> Items]
    BY <1>5 DEF Init
  <2>3. /\ handoffs \in [Loops -> {NoJob} \cup Jobs]
        /\ dates \in [Loops -> {NoJob} \cup Jobs]
        /\ skipped \subseteq Loops /\ escalated \subseteq Loops
        /\ cancel \in BOOLEAN /\ cancelled \in BOOLEAN
        /\ phase \in Phases
    BY DEF Init, Phases
  <2>4. chat_reach \in [Threads -> SUBSET Loops]
    <3>1. CASE decisive
      BY <3>1 DEF Init
    <3>2. CASE ~decisive
      BY <3>2 DEF Init, loops_by_conversation
    <3> QED BY <3>1, <3>2
  <2>5. suggested_updates \in 0 .. Cardinality(Loops)
    BY BoundsAreKnown, FS_CardinalityType DEF Init
  <2> QED BY <1>1, <1>2, <2>1, <2>2, <2>3, <2>4, <2>5 DEF Typed
<1>7. JobsHaveRounds /\ CutsHaveCause
  BY <1>4 DEF Init, JobsHaveRounds, CutsHaveCause
<1>8. NothingWalked
  BY <1>4 DEF Init, NothingWalked
<1>9. ASSUME NEW l \in Loops
      PROVE  LoopInv(l)
  <2>1. ClosedWalk(l)
    BY <1>4, <1>5 DEF ClosedWalk
  <2>2. Past(l)
    <3>1. Marks(l) = {0} /\ dates[l] = NoJob
      BY <1>5 DEF Marks, Init
    <3>2. \A n \in walk[l].later : 0 < n
      BY <1>4 DEF Messages
    <3> QED BY <3>1, <3>2 DEF Past
  <2>3. PriorLoop(l)
    BY <1>4 DEF PriorLoop
  <2>4. CardKept(l)
    BY <1>2, <1>5 DEF CardKept, Has
  <2>5. ReachStops(l)
    BY DEF ReachStops, Init
  <2>6. Final(l) /\ Chased(l) /\ Unexpired(l)
    BY <1>5 DEF Final, Chased, Unexpired
  <2>7. News(l) /\ DoubtEnds(l)
    BY <1>2, <1>5 DEF News, DoubtEnds, Init
  <2> QED BY <2>1, <2>2, <2>3, <2>4, <2>5, <2>6, <2>7 DEF LoopInv
<1>10. CountsAreTrue
  <2>1. Carried = Suggested
    BY <1>2, <1>5, LoopsAreKnown DEF prior, Has, Carried, Suggested
  <2>2. IsFiniteSet(Suggested)
    BY BoundsAreKnown, FS_Subset DEF Suggested
  <2>3. suggested_updates = 0 /\ Cardinality(Suggested) \in Nat /\ phase # "done"
    BY <2>2, FS_CardinalityType DEF Init
  <2> QED BY <2>1, <2>3 DEF CountsAreTrue
<1> QED BY <1>6, <1>7, <1>8, <1>9, <1>10 DEF IInv

-------------------------------------------------------------------------------
(* Steps that end walks and leave the cards alone. *)

\* Stopping walks keeps everything else of them.
LEMMA StoppedWalks ==
  ASSUME NEW w \in [Loops -> Walks], NEW ls
  PROVE  /\ Stopped(w, ls) \in [Loops -> Walks]
         /\ \A l \in Loops :
              /\ Stopped(w, ls)[l].later = w[l].later
              /\ Stopped(w, ls)[l].closed = w[l].closed
              /\ Stopped(w, ls)[l].event = w[l].event
              /\ Stopped(w, ls)[l].stopped <=> w[l].stopped \/ l \in ls
<1>1. ASSUME NEW l \in Loops
      PROVE  /\ Stopped(w, ls)[l] \in Walks
             /\ Stopped(w, ls)[l].later = w[l].later
             /\ Stopped(w, ls)[l].closed = w[l].closed
             /\ Stopped(w, ls)[l].event = w[l].event
             /\ Stopped(w, ls)[l].stopped <=> w[l].stopped \/ l \in ls
  <2>1. Stopped(w, ls)[l] = IF l \in ls THEN [w[l] EXCEPT !.stopped = TRUE] ELSE w[l]
    BY DEF Stopped
  <2>2. w[l] \in Walks
    OBVIOUS
  <2> QED BY <2>1, <2>2 DEF Walks
<1>2. Stopped(w, ls) = [l \in Loops |-> Stopped(w, ls)[l]]
  BY DEF Stopped
<1> QED BY <1>1, <1>2

\* Matching a walk to an event leaves the rest of it.
Evented(w, ls) == [l \in Loops |-> [w[l] EXCEPT !.event = l \in ls]]
LEMMA EventWalks ==
  ASSUME NEW w \in [Loops -> Walks], NEW ls
  PROVE  /\ Evented(w, ls) \in [Loops -> Walks]
         /\ \A l \in Loops : /\ Evented(w, ls)[l].later = w[l].later
                             /\ Evented(w, ls)[l].closed = w[l].closed
                             /\ Evented(w, ls)[l].stopped = w[l].stopped
<1>1. ASSUME NEW l \in Loops
      PROVE  /\ Evented(w, ls)[l] \in Walks
             /\ Evented(w, ls)[l].later = w[l].later
             /\ Evented(w, ls)[l].closed = w[l].closed
             /\ Evented(w, ls)[l].stopped = w[l].stopped
  <2>1. w[l] \in Walks /\ (l \in ls) \in BOOLEAN
    OBVIOUS
  <2>2. Evented(w, ls)[l] = [w[l] EXCEPT !.event = l \in ls]
    BY DEF Evented
  <2> QED BY <2>1, <2>2 DEF Walks
<1>2. Evented(w, ls) = [l \in Loops |-> Evented(w, ls)[l]]
  BY DEF Evented
<1> QED BY <1>1, <1>2

\* A step that only ends walks, or that leaves them alone, between the rounds.
Halting ==
  /\ UNCHANGED <<setting, escalated, chat_reach, handoffs, dates, item,
                 suggested_updates, card>>
  /\ cancel' \in BOOLEAN /\ cancelled' \in BOOLEAN /\ skipped' \subseteq Loops
  /\ walk' \in [Loops -> Walks]
  /\ \A l \in Loops : /\ walk'[l].later = walk[l].later
                      /\ walk'[l].closed = walk[l].closed
                      /\ walk[l].stopped => walk'[l].stopped
                      /\ l \in skipped' \ skipped => ~walk[l].stopped /\ walk'[l].stopped
  /\ skipped \subseteq skipped'
  /\ phase # "done" /\ phase' \in Phases
  /\ cancelled' => cancel'
  /\ \/ phase' = phase /\ walk' = walk /\ cancelled' = cancelled
     \/ /\ phase \in {"choice", "ends", "walk", "answers"}
        /\ phase' \in {"ends", "walk", "answers", "expire"}

\* Ending walks disturbs nothing.
LEMMA HaltingStep ==
  ASSUME IInv, Halting
  PROVE  IInv'
<1>1. Typed'
  <2>1. Settings'
    BY DEF IInv, Typed, Settings, Halting, setting
  <2>2. UNCHANGED <<card, item, handoffs, dates, chat_reach, escalated, suggested_updates>>
    BY DEF Halting
  <2> QED BY <2>1, <2>2 DEF IInv, Typed, Halting
<1>2. JobsHaveRounds' /\ CutsHaveCause'
  BY DEF IInv, JobsHaveRounds, CutsHaveCause, Halting
<1>3. NothingWalked'
  BY DEF IInv, NothingWalked, Halting, setting
<1>4. prior' = prior /\ mail' = mail /\ decisive' = decisive
  BY DEF Halting, setting, prior
<1>5. ASSUME NEW l \in Loops
      PROVE  LoopInv(l)'
  <2>1. LoopInv(l) /\ item' = item /\ card' = card /\ dates' = dates
        /\ handoffs' = handoffs /\ chat_reach' = chat_reach
    BY DEF IInv, Halting
  <2>2. /\ walk'[l].later = walk[l].later /\ walk'[l].closed = walk[l].closed
        /\ walk[l].stopped => walk'[l].stopped
    BY DEF Halting
  <2>3. ClosedWalk(l)'
    <3>1. walk'[l] = walk[l] \/ (handoffs[l] = NoJob /\ dates[l] = NoJob)
      BY DEF IInv, JobsHaveRounds, Halting
    <3> QED BY <2>1, <2>2, <3>1 DEF LoopInv, ClosedWalk
  <2>11. News(l)'
    BY <1>4, <2>1 DEF LoopInv, News, Halting, setting
  <2>12. DoubtEnds(l)'
    <3>1. l \in skipped' \ skipped => ~walk[l].stopped /\ walk'[l].stopped /\ decisive
      <4>1. ~decisive => walk' = walk
        BY DEF IInv, NothingWalked, Halting
      <4> QED BY <4>1 DEF Halting
    <3>2. escalated' = escalated
      BY DEF Halting
    <3> QED BY <1>4, <2>1, <2>2, <3>1, <3>2 DEF LoopInv, DoubtEnds, ReachStops
  <2>4. Past(l)'
    BY <2>1, <2>2 DEF LoopInv, Past, Marks
  <2>5. PriorLoop(l)'
    BY <1>4, <2>1, <2>2 DEF LoopInv, PriorLoop, Halting, setting
  <2>6. CardKept(l)'
    BY <1>4, <2>1 DEF LoopInv, CardKept, Halting, Has
  <2>7. ReachStops(l)'
    BY <1>4, <2>1, <2>2 DEF LoopInv, ReachStops
  <2>8. Final(l)'
    BY <1>4, <2>1 DEF LoopInv, Final, Has
  <2>9. Chased(l)'
    BY <1>4, <2>1 DEF LoopInv, Chased, FromUserReply, Halting
  <2>10. Unexpired(l)'
    BY <2>1 DEF LoopInv, Unexpired, Halting
  <2> QED BY <2>10, <2>11, <2>12, <2>3, <2>4, <2>5, <2>6, <2>7, <2>8, <2>9 DEF LoopInv
<1>6. CountsAreTrue'
  <2>1. suggested_updates' = suggested_updates /\ card' = card /\ item' = item
        /\ phase # "done" /\ phase' # "done"
    BY DEF Halting
  <2> QED BY <1>4, <2>1 DEF IInv, CountsAreTrue, Suggested, Carried, Has
<1> QED BY <1>1, <1>2, <1>3, <1>5, <1>6 DEF IInv

\* The user's stop, the expiry questions, the start of a round and a round cut
\* short only end walks.
LEMMA HaltingSteps ==
  ASSUME IInv, UserStops \/ ExpiryChoice \/ ExpiryEnds \/ StartRound \/ RoundCut
  PROVE  Halting
<1>1. /\ walk \in [Loops -> Walks] /\ phase \in Phases /\ skipped \subseteq Loops
      /\ cancel \in BOOLEAN /\ cancelled \in BOOLEAN
      /\ cancelled => cancel
      /\ phase = "choice" => \A l \in Loops : ~walk[l].stopped
  BY DEF IInv, Typed, CutsHaveCause
<1>2. CASE UserStops
  BY <1>1, <1>2 DEF UserStops, Halting, setting
<1>3. CASE ExpiryChoice
  <2>1. PICK failed \in SUBSET WithEvent, cut \in SUBSET WithEvent, agreed \in SUBSET WithEvent :
          /\ walk' = [l \in Loops |-> [Stopped(walk, failed)[l] EXCEPT !.event = l \in agreed]]
          /\ skipped' = skipped \cup failed
          /\ cancelled' = (cancelled \/ cut # {})
          /\ cut # {} => cancel
    BY <1>3 DEF ExpiryChoice, Sent
  <2>2. PICK w : w = Stopped(walk, failed)
    OBVIOUS
  <2>6. walk' = Evented(w, agreed)
    BY <2>1, <2>2 DEF Evented
  <2>3. /\ w \in [Loops -> Walks]
        /\ \A l \in Loops : /\ w[l].later = walk[l].later /\ w[l].closed = walk[l].closed
                            /\ walk[l].stopped => w[l].stopped
                            /\ l \in failed => w[l].stopped
    BY <1>1, <2>2, StoppedWalks
  <2>4. /\ walk' \in [Loops -> Walks]
        /\ \A l \in Loops : /\ walk'[l].later = walk[l].later
                            /\ walk'[l].closed = walk[l].closed
                            /\ walk[l].stopped => walk'[l].stopped
                            /\ l \in failed => walk'[l].stopped
    BY <2>3, <2>6, EventWalks
  <2>5. failed \subseteq Loops /\ \A l \in failed : ~walk[l].stopped
    BY <1>1, <1>3, LoopsAreKnown DEF ExpiryChoice
  <2> QED BY <1>1, <1>3, <2>1, <2>4, <2>5 DEF ExpiryChoice, Halting, Phases
<1>4. CASE ExpiryEnds
  <2>1. PICK failed \in SUBSET Matched, cut \in SUBSET Matched, yes \in SUBSET Matched :
          /\ walk' = [l \in Loops |-> [Stopped(walk, failed)[l] EXCEPT !.event = l \in yes]]
          /\ skipped' = skipped \cup failed
          /\ cancelled' = (cancelled \/ cut # {})
          /\ cut # {} => cancel
    BY <1>4 DEF ExpiryEnds, Sent
  <2>2. PICK w : w = Stopped(walk, failed)
    OBVIOUS
  <2>6. walk' = Evented(w, yes)
    BY <2>1, <2>2 DEF Evented
  <2>3. /\ w \in [Loops -> Walks]
        /\ \A l \in Loops : /\ w[l].later = walk[l].later /\ w[l].closed = walk[l].closed
                            /\ walk[l].stopped => w[l].stopped
                            /\ l \in failed => w[l].stopped
    BY <1>1, <2>2, StoppedWalks
  <2>4. /\ walk' \in [Loops -> Walks]
        /\ \A l \in Loops : /\ walk'[l].later = walk[l].later
                            /\ walk'[l].closed = walk[l].closed
                            /\ walk[l].stopped => walk'[l].stopped
                            /\ l \in failed => walk'[l].stopped
    BY <2>3, <2>6, EventWalks
  <2>5. failed \subseteq Loops /\ \A l \in failed : ~walk[l].stopped
    BY DEF Matched
  <2> QED BY <1>1, <1>4, <2>1, <2>4, <2>5 DEF ExpiryEnds, Halting, Phases
<1>5. CASE StartRound
  <2>1. \/ walk' = walk
        \/ walk' = Stopped(walk, {l \in Loops : walk[l].later = {}})
    BY <1>5 DEF StartRound
  <2>2. /\ walk' \in [Loops -> Walks]
        /\ \A l \in Loops : /\ walk'[l].later = walk[l].later
                            /\ walk'[l].closed = walk[l].closed
                            /\ walk[l].stopped => walk'[l].stopped
    BY <1>1, <2>1, StoppedWalks
  <2> QED BY <1>1, <1>5, <2>2 DEF StartRound, Halting, Phases
<1>6. CASE RoundCut
  <2>1. PICK failed \in SUBSET InRound, cut \in SUBSET InRound :
          /\ walk' = Stopped(walk, failed)
          /\ skipped' = skipped \cup failed
          /\ cancelled' = (cut # {})
    BY <1>6 DEF RoundCut
  <2>2. /\ walk' \in [Loops -> Walks]
        /\ \A l \in Loops : /\ walk'[l].later = walk[l].later
                            /\ walk'[l].closed = walk[l].closed
                            /\ walk[l].stopped => walk'[l].stopped
                            /\ l \in failed => walk'[l].stopped
    BY <1>1, <2>1, StoppedWalks
  <2>3. failed \subseteq Loops /\ \A l \in failed : ~walk[l].stopped
    BY DEF InRound
  <2> QED BY <1>1, <1>6, <2>1, <2>2, <2>3 DEF RoundCut, Halting, Phases
<1> QED BY <1>2, <1>3, <1>4, <1>5, <1>6

-------------------------------------------------------------------------------
(* A round of answers, loop by loop. *)

\* No answer came for the loop, or one that puts it to the chat model.
LeftAlone(l) ==
  /\ item'[l] = item[l]
  /\ walk'[l].later = walk[l].later /\ walk'[l].closed = walk[l].closed
  /\ walk[l].stopped => walk'[l].stopped
  /\ handoffs'[l] = NoJob /\ dates'[l] = NoJob
  /\ \A t \in Threads : l \in chat_reach'[t] =>
       l \in chat_reach[t] \/ (~walk[l].stopped /\ walk'[l].stopped)
  /\ l \in skipped' \cup escalated' =>
       l \in skipped \cup escalated \/ (~walk[l].stopped /\ walk'[l].stopped)
  /\ l \in skipped' =>
       l \in skipped \/ (~walk[l].stopped /\ \A t \in Threads : l \in chat_reach'[t] =>
                                                               l \in chat_reach[t])

\* The next message of the loop was read, and had these effects; it is put to
\* the chat model only for a date.
ReadBy(l, m, role, effects, c, named) ==
  /\ ~walk[l].stopped /\ walk[l].later # {} /\ m = Current(l)
  /\ role = closure_walk_role(m) /\ Lawful(role, effects)
  /\ item'[l] = Affected(item[l], effects, m, c, named)
  /\ walk'[l].later = walk[l].later \ {m}
  /\ walk'[l].closed <=> walk[l].closed \/ Closing(effects)
  /\ Closing(effects) => walk'[l].stopped
  /\ walk'[l].stopped => handoffs'[l] = NoJob /\ dates'[l] = NoJob
  /\ l \notin skipped'
  /\ l \in escalated' => walk'[l].stopped /\ effects \subseteq {AskedAgain, Amended, NewDate}
  /\ handoffs'[l] # NoJob => handoffs'[l].message = m
  /\ handoffs'[l] # NoJob => Suggest("Delegated") \in effects
  /\ dates'[l] # NoJob => NewDate \in effects /\ dates'[l].message = m
  /\ \A t \in Threads : l \in chat_reach'[t] =>
       l \in chat_reach[t] \/ (walk'[l].stopped /\ ~Closing(effects))

Answering ==
  /\ phase = "answers" /\ phase' \in {"handoff", "dates", "walk"}
  /\ ~cancelled
  /\ UNCHANGED <<setting, card>>

\* A loop nothing was read of keeps its invariant.
LEMMA LeftLoop ==
  ASSUME IInv, Answering, NEW l \in Loops, LeftAlone(l)
  PROVE  LoopInv(l)'
<1>1. /\ LoopInv(l) /\ phase = "answers" /\ phase' \in {"handoff", "dates", "walk"}
      /\ card' = card /\ mail' = mail /\ decisive' = decisive /\ prior' = prior
      /\ fresh' = fresh /\ decisive
  BY DEF IInv, Answering, setting, prior, NothingWalked
<1>2. PICK i : i = item[l] /\ i = item'[l]
  BY DEF LeftAlone
<1>3. ClosedWalk(l)'
  BY <1>1, <1>2 DEF LoopInv, ClosedWalk, LeftAlone
<1>4. Past(l)'
  BY <1>1, <1>2 DEF LoopInv, Past, Marks, LeftAlone
<1>5. PriorLoop(l)'
  BY <1>1 DEF LoopInv, PriorLoop, LeftAlone
<1>6. CardKept(l)'
  BY <1>1, <1>2 DEF LoopInv, CardKept, Has
<1>7. ReachStops(l)'
  BY <1>1 DEF LoopInv, ReachStops, LeftAlone
<1>8. Final(l)'
  BY <1>1, <1>2 DEF LoopInv, Final, Has, LeftAlone, ClosedWalk
<1>9. Chased(l)' /\ Unexpired(l)'
  BY <1>1, <1>2 DEF LoopInv, Chased, Unexpired, FromUserReply
<1>10. News(l)'
  BY <1>1, <1>2 DEF LoopInv, News, LeftAlone
<1>11. DoubtEnds(l)'
  BY <1>1 DEF LoopInv, DoubtEnds, ReachStops, LeftAlone
<1> QED BY <1>10, <1>11, <1>3, <1>4, <1>5, <1>6, <1>7, <1>8, <1>9 DEF LoopInv

\* A loop that was read keeps its invariant: what is applied is later than all
\* before it and earlier than all that is left.
LEMMA ReadLoop ==
  ASSUME IInv, Answering, NEW l \in Loops,
         NEW m, NEW role, NEW effects, NEW c \in Confidences, NEW named \in BOOLEAN,
         ReadBy(l, m, role, effects, c, named)
  PROVE  LoopInv(l)' /\ item'[l] \in Items
<1>1. /\ LoopInv(l) /\ phase = "answers" /\ phase' \in {"handoff", "dates", "walk"}
      /\ card' = card /\ mail' = mail /\ decisive' = decisive /\ prior' = prior
      /\ decisive /\ fresh' = fresh
  BY DEF IInv, Answering, setting, prior, NothingWalked
<1>2. Typed /\ walk[l] \in Walks /\ item[l] \in Items /\ ~walk[l].stopped
  BY DEF IInv, Typed, ReadBy
<1>3. /\ m \in walk[l].later /\ m \in Messages
      /\ \A n \in walk'[l].later : n \in walk[l].later /\ m < n
  BY <1>2, CurrentIsLeast DEF ReadBy
<1>4. m \in Nat /\ m # 0
  BY <1>3 DEF Messages
<1>5. /\ ~walk[l].closed /\ item[l].resolution = 0 /\ ~item[l].passed
      /\ decisive => \A t \in Threads : l \notin chat_reach[t]
  BY <1>1, <1>2 DEF LoopInv, ClosedWalk, ReachStops, Unexpired
<1>6. \A x \in Marks(l) : x < m
  BY <1>1, <1>3 DEF LoopInv, Past
<1>7. PICK i, r : i = item[l] /\ r = item'[l]
  OBVIOUS
<1>8. /\ r \in Items
      /\ r.deadline = i.deadline /\ r.passed = i.passed
      /\ \/ /\ Closing(effects) /\ NewDate \notin effects
            /\ Suggest("Delegated") \notin effects
            /\ role = "WaitingParty" /\ ClosedBy(i, r, m)
         \/ ~Closing(effects) /\ (SuggestedBy(i, r, m) \/ NotedBy(i, r, m, role))
  <2>1. i \in Items /\ r = Affected(i, effects, m, c, named) /\ Lawful(role, effects)
    BY <1>2, <1>7 DEF ReadBy
  <2> QED BY <1>3, <2>1, AffectedShape
<1>9. ClosedWalk(l)'
  BY <1>4, <1>5, <1>7, <1>8 DEF ClosedWalk, ReadBy, ClosedBy, SuggestedBy, NotedBy
<1>10. Past(l)'
  <2>1. \A x \in Marks(l)' : x \in Marks(l) \/ x = m
    BY <1>7, <1>8 DEF Marks, ClosedBy, SuggestedBy, NotedBy
  <2>2. \A x \in Marks(l) : x \in Nat
    BY <1>2, ItemParts DEF Marks, Messages
  <2>3. \A n \in walk[l].later : n \in Nat
    BY <1>2 DEF Walks, Messages
  <2>4. ASSUME NEW n \in walk'[l].later
        PROVE  /\ \A x \in Marks(l)' : x < n
               /\ dates'[l] # NoJob => dates'[l].message < n
    <3>1. n \in walk[l].later /\ m < n /\ n \in Nat
      BY <1>3, <2>3
    <3>2. \A x \in Marks(l) : x < n
      BY <1>1, <3>1 DEF LoopInv, Past
    <3>3. dates'[l] # NoJob => dates'[l].message = m
      BY DEF ReadBy
    <3> QED BY <2>1, <3>1, <3>2, <3>3
  <2> QED BY <2>4 DEF Past
<1>11. PriorLoop(l)'
  BY <1>1, <1>3 DEF LoopInv, PriorLoop
<1>12. CardKept(l)'
  <2>1. ASSUME card[l] # NoUpdate
        PROVE  l \in prior /\ r.suggested_update # NoUpdate
    <3>1. l \in prior /\ i.suggested_update # NoUpdate
      BY <1>1, <1>7, <2>1 DEF LoopInv, CardKept, Has
    <3>2. mail[m].author = "user"
      BY <1>1, <1>3, <3>1 DEF LoopInv, PriorLoop
    <3>3. role # "WaitingParty"
      BY <3>2 DEF ReadBy, closure_walk_role
    <3> QED BY <1>8, <3>1, <3>3 DEF SuggestedBy, NotedBy
  <2> QED BY <1>1, <1>7, <2>1 DEF CardKept, Has
<1>13. ReachStops(l)'
  BY <1>1, <1>5 DEF ReachStops, ReadBy
<1>14. Final(l)'
  <2>1. CASE Closing(effects)
    <3>1. r.resolution = m /\ r.suggested_update = NoUpdate /\ ~r.passed
      BY <1>5, <1>7, <1>8, <2>1 DEF ClosedBy
    <3>2. \A x \in {r.deadline} \cup r.restated \cup r.amended : x < m
      BY <1>6, <1>7, <1>8, <2>1 DEF Marks, ClosedBy
    <3>3. \A t \in Threads : l \notin chat_reach'[t]
      BY <1>1, <1>5, <2>1 DEF ReadBy
    <3> QED BY <1>7, <3>1, <3>2, <3>3 DEF Final, Has
  <2>2. CASE ~Closing(effects)
    <3>1. r.resolution = 0
      BY <1>5, <1>7, <1>8, <2>2 DEF SuggestedBy, NotedBy
    <3> QED BY <1>7, <3>1 DEF Final
  <2> QED BY <2>1, <2>2
<1>15. Chased(l)'
  <2>1. ASSUME NEW x \in r.restated, FromUserReply(r.suggested_update)
        PROVE  r.suggested_update.message > x
    <3>1. r.suggested_update # NoUpdate
      BY <2>1 DEF FromUserReply, NoUpdate
    <3>2. CASE SuggestedBy(i, r, m)
      <4>1. x \in Marks(l) /\ r.suggested_update.message = m
        BY <1>7, <2>1, <3>2 DEF SuggestedBy, Marks
      <4>2. x \in Nat
        BY <1>2, <1>7, <2>1, <3>2, ItemParts DEF SuggestedBy, Messages
      <4> QED BY <1>4, <1>6, <4>1, <4>2
    <3>3. CASE NotedBy(i, r, m, role)
      <4>1. r.restated = i.restated /\ r.suggested_update = i.suggested_update
        BY <2>1, <3>1, <3>3 DEF NotedBy
      <4> QED BY <1>1, <1>7, <2>1, <4>1 DEF LoopInv, Chased
    <3> QED BY <1>8, <3>1, <3>2, <3>3 DEF ClosedBy
  <2> QED BY <1>1, <1>7, <2>1 DEF Chased, FromUserReply
<1>16. Unexpired(l)'
  BY <1>5, <1>7, <1>8 DEF Unexpired
<1>17. News(l)'
  <2>1. ASSUME l \in prior
        PROVE  /\ card[l].message \notin fresh
               /\ \/ r.suggested_update \in {NoUpdate, card[l]}
                  \/ r.suggested_update.message \in fresh
               /\ handoffs'[l] # NoJob => handoffs'[l].message \in fresh
               /\ dates'[l] # NoJob => dates'[l].message \in fresh
    <3>1. m \in fresh /\ News(l)
      BY <1>1, <1>3, <2>1 DEF LoopInv, PriorLoop
    <3>2. r.suggested_update = NoUpdate \/ r.suggested_update = i.suggested_update
          \/ r.suggested_update.message = m
      BY <1>8 DEF ClosedBy, SuggestedBy, NotedBy
    <3> QED BY <1>1, <1>7, <2>1, <3>1, <3>2 DEF News, ReadBy
  <2> QED BY <1>1, <1>7, <2>1 DEF News
<1>18. DoubtEnds(l)'
  BY DEF DoubtEnds, ReadBy
<1> QED BY <1>17, <1>18, <1>7, <1>8, <1>9, <1>10, <1>11, <1>12, <1>13, <1>14, <1>15, <1>16 DEF LoopInv

\* Asking the chat model about more loops (record_walk_escalation).
LEMMA Escalating ==
  ASSUME Typed, NEW ls \in SUBSET Loops, NEW at
  PROVE  /\ record_walk_escalation(ls, at) \in [Threads -> SUBSET Loops]
         /\ \A l \in Loops, t \in Threads :
              l \in record_walk_escalation(ls, at)[t] => l \in chat_reach[t] \/ l \in ls
<1>1. chat_reach \in [Threads -> SUBSET Loops]
  BY DEF Typed
<1> QED BY <1>1 DEF record_walk_escalation

\* A verdict on a message is lawful for its author.
LEMMA StepShape ==
  ASSUME NEW role \in AuthorRoles, NEW s \in Steps[role]
  PROVE  /\ s.confidence \in Confidences
         /\ Lawful(role, EffectsOf(s.verdict))
         /\ s.verdict = Escalate => EffectsOf(s.verdict) = {}
<1>1. s \in [verdict : Verdicts[role], confidence : Confidences]
  BY DEF Steps
<1>2. s.verdict \in Verdicts[role] /\ s.confidence \in Confidences
  BY <1>1
<1> QED BY <1>2, VerdictShape

\* Every message has an author the walk knows (closure_walk_role).
LEMMA RoleKnown ==
  ASSUME Typed, NEW m \in Messages
  PROVE  closure_walk_role(m) \in AuthorRoles
<1>1. mail[m].author \in {"user", "party", "other"}
  BY BoundsAreKnown DEF Typed, Settings
<1> QED BY <1>1 DEF closure_walk_role, AuthorRoles, Questions

(* The parts of a round in which each loop in the domain of `step` is read. *)
At(step)         == [l \in DOMAIN step |-> Current(l)]
Role(step, l)    == closure_walk_role(At(step)[l])
Effects(step, l) == EffectsOf(step[l].verdict)
Handed(step)     == {l \in DOMAIN step : Suggest("Delegated") \in Effects(step, l)}
Dated(step)      == {l \in DOMAIN step : NewDate \in Effects(step, l)}
Closers(step)    == {l \in DOMAIN step : Closing(Effects(step, l))}
Unsure(step, vague) ==
  {l \in DOMAIN step : step[l].verdict = Escalate}
  \cup {l \in Dated(step) \cap vague : Role(step, l) = "WaitingParty"}
Job(step, l) ==
  [message |-> At(step)[l], source |-> Role(step, l), confidence |-> step[l].confidence]

Reading(step, vague) ==
  [l \in Loops |->
     IF l \notin DOMAIN step THEN item[l]
     ELSE Affected(item[l], Effects(step, l), At(step)[l],
                   step[l].confidence, l \in Handed(step) \ vague)]

Round(failed, step, vague) ==
  /\ item' = Reading(step, vague)
  /\ suggested_updates' = Counted(item, Reading(step, vague))
  /\ walk' = [l \in Loops |->
       [Stopped(walk, EndInDoubt(failed, Unsure(step, vague)) \cup Closers(step))[l] EXCEPT
          !.later = IF l \in DOMAIN step /\ step[l].verdict # Escalate
                      THEN @ \ {At(step)[l]} ELSE @,
          !.closed = @ \/ l \in Closers(step)]]
  /\ escalated' = escalated \cup Unsure(step, vague)
  /\ chat_reach' = record_walk_escalation(Unsure(step, vague), At(step))
  /\ handoffs' = [l \in Loops |->
                    IF l \in Handed(step) \ vague THEN Job(step, l) ELSE NoJob]
  /\ dates' = [l \in Loops |->
                 IF l \in Dated(step) \ vague THEN Job(step, l) ELSE NoJob]
  /\ phase' = IF Handed(step) \ vague # {} THEN "handoff"
              ELSE IF Dated(step) \ vague # {} THEN "dates" ELSE "walk"

\* A round of answers is such a round.
LEMMA RoundParts ==
  ASSUME RoundAnswered
  PROVE  /\ phase = "answers" /\ ~cancel /\ UNCHANGED <<setting, cancel, cancelled, card>>
         /\ \E failed \in SUBSET InRound : \E step \in [InRound \ failed -> AllSteps] :
              /\ \A l \in DOMAIN step : step[l] \in Steps[Role(step, l)]
              /\ \E vague \in SUBSET (Handed(step) \cup Dated(step)) :
                   Round(failed, step, vague)
              /\ skipped' = skipped \cup failed
<1>1. phase = "answers" /\ ~cancel /\ UNCHANGED <<setting, cancel, cancelled, card>>
  BY DEF RoundAnswered
<1>2. \E failed \in SUBSET InRound : \E step \in [InRound \ failed -> AllSteps] :
        /\ \A l \in DOMAIN step : step[l] \in Steps[Role(step, l)]
        /\ \E vague \in SUBSET (Handed(step) \cup Dated(step)) :
             Round(failed, step, vague)
        /\ skipped' = skipped \cup failed
  BY Zenon DEF RoundAnswered, Round, At, Role, Effects, Handed, Dated, Closers, Unsure,
               Job, Closing, Reading
<1> QED BY <1>1, <1>2

\* The walks of a round: some stop, those read lose a message, some close.
AfterRound(w, ls, of, at, cs) ==
  [l \in Loops |->
     [Stopped(w, ls)[l] EXCEPT !.later = IF l \in of THEN @ \ {at[l]} ELSE @,
                               !.closed = @ \/ l \in cs]]
RoundLeaves(q, w, ls, of, at, cs) ==
  /\ q \in [Loops -> Walks]
  /\ \A l \in Loops :
       /\ q[l].later = IF l \in of THEN w[l].later \ {at[l]} ELSE w[l].later
       /\ q[l].closed <=> w[l].closed \/ l \in cs
       /\ q[l].stopped <=> w[l].stopped \/ l \in ls
LEMMA ReadWalks ==
  ASSUME NEW w \in [Loops -> Walks], NEW ls, NEW of, NEW at, NEW cs,
         NEW q, q = AfterRound(w, ls, of, at, cs)
  PROVE  RoundLeaves(q, w, ls, of, at, cs)
<1>1. PICK s : s = Stopped(w, ls)
  OBVIOUS
<1>2. /\ s \in [Loops -> Walks]
      /\ \A l \in Loops : /\ s[l].later = w[l].later
                          /\ s[l].closed = w[l].closed
                          /\ s[l].stopped <=> w[l].stopped \/ l \in ls
  BY <1>1, StoppedWalks
<1>3. ASSUME NEW l \in Loops
      PROVE  /\ q[l] \in Walks
             /\ q[l].later = IF l \in of THEN s[l].later \ {at[l]} ELSE s[l].later
             /\ q[l].closed <=> s[l].closed \/ l \in cs
             /\ q[l].stopped = s[l].stopped
  <2>1. PICK d, c : /\ d = IF l \in of THEN s[l].later \ {at[l]} ELSE s[l].later
                    /\ c = (s[l].closed \/ l \in cs)
    OBVIOUS
  <2>2. q[l] = [s[l] EXCEPT !.later = d, !.closed = c]
    BY <1>1, <2>1 DEF AfterRound
  <2>3. s[l] \in Walks
    BY <1>2
  <2>4. d \in SUBSET Messages /\ c \in BOOLEAN
    BY <2>1, <2>3 DEF Walks
  <2>5. /\ q[l] \in Walks /\ q[l].later = d /\ q[l].closed = c /\ q[l].stopped = s[l].stopped
    BY <2>2, <2>3, <2>4 DEF Walks
  <2> QED BY <2>1, <2>5
<1>4. q = [l \in Loops |-> q[l]]
  BY DEF AfterRound
<1> QED BY <1>2, <1>3, <1>4 DEF RoundLeaves

\* What a round of answers does: some loops are left alone, one message of
\* each of the others is read.
LEMMA RoundShape ==
  ASSUME IInv, RoundAnswered
  PROVE  /\ Answering /\ UNCHANGED <<cancel, cancelled>>
         /\ walk' \in [Loops -> Walks]
         /\ handoffs' \in [Loops -> {NoJob} \cup Jobs]
         /\ dates' \in [Loops -> {NoJob} \cup Jobs]
         /\ chat_reach' \in [Threads -> SUBSET Loops]
         /\ skipped' \subseteq Loops /\ escalated' \subseteq Loops
         /\ item' = [l \in Loops |-> item'[l]]
         /\ suggested_updates' = Counted(item, item')
         /\ JobsHaveRounds'
         /\ \A l \in Loops :
              \/ LeftAlone(l)
              \/ \E m, role, effects : \E c \in Confidences, named \in BOOLEAN :
                   ReadBy(l, m, role, effects, c, named)
<1>0. Typed
  BY DEF IInv
<1>1. PICK failed, step, vague :
        /\ failed \subseteq InRound /\ DOMAIN step = InRound \ failed
        /\ \A l \in DOMAIN step : step[l] \in Steps[Role(step, l)]
        /\ Round(failed, step, vague)
        /\ skipped' = skipped \cup failed
  <2>1. PICK failed \in SUBSET InRound : \E step \in [InRound \ failed -> AllSteps] :
              /\ \A l \in DOMAIN step : step[l] \in Steps[Role(step, l)]
              /\ \E vague \in SUBSET (Handed(step) \cup Dated(step)) :
                   Round(failed, step, vague)
              /\ skipped' = skipped \cup failed
    BY RoundParts
  <2>2. PICK step \in [InRound \ failed -> AllSteps] :
              /\ \A l \in DOMAIN step : step[l] \in Steps[Role(step, l)]
              /\ \E vague \in SUBSET (Handed(step) \cup Dated(step)) :
                   Round(failed, step, vague)
              /\ skipped' = skipped \cup failed
    BY <2>1
  <2> QED BY <2>2
<1>2. phase = "answers" /\ ~cancelled /\ UNCHANGED <<setting, cancel, cancelled, card>>
  BY RoundParts DEF IInv, CutsHaveCause
<1> DEFINE of == DOMAIN step
           rd == {l \in DOMAIN step : step[l].verdict # Escalate}
           ls == failed \cup Unsure(step, vague) \cup Closers(step)
<1>3. of \subseteq Loops /\ of \cap failed = {}
      /\ \A l \in of : ~walk[l].stopped /\ walk[l].later # {}
  BY <1>1 DEF InRound
<1>4. ASSUME NEW l \in of
      PROVE  /\ At(step)[l] = Current(l)
             /\ Current(l) \in walk[l].later /\ Current(l) \in Messages
             /\ Role(step, l) = closure_walk_role(Current(l)) /\ Role(step, l) \in AuthorRoles
             /\ step[l].confidence \in Confidences
             /\ Lawful(Role(step, l), Effects(step, l))
             /\ step[l].verdict = Escalate => Effects(step, l) = {}
             /\ Job(step, l) \in Jobs /\ Job(step, l).message = Current(l)
  <2>1. At(step)[l] = Current(l) /\ Role(step, l) = closure_walk_role(Current(l))
    BY DEF At, Role
  <2>2. Current(l) \in walk[l].later /\ Current(l) \in Messages
    BY <1>0, <1>3, CurrentIsLeast
  <2>3. Role(step, l) \in AuthorRoles
    BY <1>0, <2>1, <2>2, RoleKnown
  <2>4. /\ step[l].confidence \in Confidences
        /\ Lawful(Role(step, l), Effects(step, l))
        /\ step[l].verdict = Escalate => Effects(step, l) = {}
    BY <1>1, <2>3, StepShape DEF Effects
  <2>5. Job(step, l) \in Jobs /\ Job(step, l).message = Current(l)
    BY <2>1, <2>2, <2>3, <2>4 DEF Job, Jobs
  <2> QED BY <2>1, <2>2, <2>3, <2>4, <2>5
<1>5. /\ Handed(step) \subseteq of /\ Dated(step) \subseteq of
      /\ Closers(step) \subseteq of /\ Unsure(step, vague) \subseteq of
  BY DEF Handed, Dated, Closers, Unsure
<1>6. /\ walk' \in [Loops -> Walks]
      /\ \A l \in Loops :
           /\ walk'[l].later = IF l \in rd THEN walk[l].later \ {At(step)[l]} ELSE walk[l].later
           /\ walk'[l].closed <=> walk[l].closed \/ l \in Closers(step)
           /\ walk'[l].stopped <=> walk[l].stopped \/ l \in ls
  <2>1. walk \in [Loops -> Walks]
    BY <1>0 DEF Typed
  <2>2. PICK w, at, cs, q : w = walk /\ at = At(step) /\ cs = Closers(step) /\ q = walk'
    OBVIOUS
  <2>3. q = AfterRound(w, ls, rd, at, cs)
    BY <1>1, <2>2 DEF Round, AfterRound, EndInDoubt
  <2>4. RoundLeaves(q, w, ls, rd, at, cs)
    <3>1. w \in [Loops -> Walks]
      BY <2>1, <2>2
    <3> HIDE DEF of, ls, rd
    <3> QED BY <2>3, <3>1, ReadWalks
  <2> QED BY <2>2, <2>4 DEF RoundLeaves
<1>7. /\ handoffs' \in [Loops -> {NoJob} \cup Jobs]
      /\ \A l \in Loops : handoffs'[l] = IF l \in Handed(step) \ vague THEN Job(step, l)
                                         ELSE NoJob
  BY <1>1, <1>4, <1>5 DEF Round
<1>8. /\ dates' \in [Loops -> {NoJob} \cup Jobs]
      /\ \A l \in Loops : dates'[l] = IF l \in Dated(step) \ vague THEN Job(step, l)
                                      ELSE NoJob
  BY <1>1, <1>4, <1>5 DEF Round
<1>9. /\ chat_reach' \in [Threads -> SUBSET Loops]
      /\ \A l \in Loops, t \in Threads :
           l \in chat_reach'[t] => l \in chat_reach[t] \/ l \in Unsure(step, vague)
  <2>1. chat_reach' = record_walk_escalation(Unsure(step, vague), At(step))
    BY <1>1 DEF Round
  <2>2. Unsure(step, vague) \in SUBSET Loops
    BY <1>3, <1>5
  <2> QED BY <1>0, <2>1, <2>2, Escalating
<1>10. skipped' \subseteq Loops /\ escalated' \subseteq Loops
  BY <1>0, <1>1, <1>3, <1>5 DEF Round, InRound, Typed
<1>11. /\ item' = Reading(step, vague)
       /\ item' = [l \in Loops |-> item'[l]]
       /\ suggested_updates' = Counted(item, item')
  BY <1>1 DEF Round, Reading
<1>12. JobsHaveRounds' /\ phase' \in {"handoff", "dates", "walk"}
  <2>1. phase' = IF Handed(step) \ vague # {} THEN "handoff"
                 ELSE IF Dated(step) \ vague # {} THEN "dates" ELSE "walk"
    BY <1>1 DEF Round
  <2> QED BY <1>7, <1>8, <2>1 DEF JobsHaveRounds
<1>13. ASSUME NEW l \in Loops
       PROVE  \/ LeftAlone(l)
              \/ \E m, role, effects : \E c \in Confidences, named \in BOOLEAN :
                   ReadBy(l, m, role, effects, c, named)
  <2>3. CASE l \in of \ rd
    <3>1. Effects(step, l) = {} /\ l \in Unsure(step, vague) /\ ~walk[l].stopped
          /\ l \notin failed
      BY <1>3, <1>4, <2>3 DEF Unsure
    <3>2. item'[l] = item[l]
      <4>1. item'[l] = Affected(item[l], Effects(step, l), At(step)[l],
                                step[l].confidence, l \in Handed(step) \ vague)
        BY <1>11, <2>3 DEF Reading
      <4> QED BY <3>1, <4>1 DEF Affected
    <3>3. l \notin Handed(step) /\ l \notin Dated(step) /\ l \notin Closers(step)
      BY <3>1 DEF Handed, Dated, Closers, Closing
    <3>4. handoffs'[l] = NoJob /\ dates'[l] = NoJob
      BY <1>7, <1>8, <3>3
    <3>5. /\ walk'[l].later = walk[l].later /\ walk'[l].closed = walk[l].closed
          /\ walk'[l].stopped
      <4>1. walk[l] \in Walks /\ walk'[l] \in Walks
        BY <1>0, <1>6 DEF Typed
      <4> QED BY <1>6, <2>3, <3>1, <3>3, <4>1 DEF Walks
    <3>6. l \in skipped' => l \in skipped
      BY <1>1, <3>1
    <3> QED BY <3>1, <3>2, <3>4, <3>5, <3>6 DEF LeftAlone
  <2>1. CASE l \notin of
    <3>1. item'[l] = item[l]
      BY <1>11, <2>1 DEF Reading
    <3>2. handoffs'[l] = NoJob /\ dates'[l] = NoJob
      BY <1>5, <1>7, <1>8, <2>1
    <3>5. l \in skipped' => l \in skipped \/ (~walk[l].stopped /\ walk'[l].stopped)
      BY <1>1, <1>6 DEF InRound
    <3>6. l \in escalated' => l \in escalated
      BY <1>1, <1>5, <2>1 DEF Round
    <3>3. /\ walk'[l].later = walk[l].later /\ walk'[l].closed = walk[l].closed
          /\ walk[l].stopped => walk'[l].stopped
      <4>1. l \notin Closers(step) /\ walk[l] \in Walks /\ walk'[l] \in Walks
        BY <1>0, <1>5, <1>6, <2>1 DEF Typed
      <4> QED BY <1>6, <2>1, <4>1 DEF Walks
    <3>4. \A t \in Threads : l \in chat_reach'[t] => l \in chat_reach[t]
      BY <1>5, <1>9, <2>1
    <3> QED BY <3>1, <3>2, <3>3, <3>4, <3>5, <3>6 DEF LeftAlone
  <2>2. CASE l \in rd
    <3>1. PICK m, role, effects, c, named :
            /\ m = Current(l) /\ role = Role(step, l) /\ effects = Effects(step, l)
            /\ c = step[l].confidence /\ named = (l \in Handed(step) \ vague)
      OBVIOUS
    <3>2. c \in Confidences /\ named \in BOOLEAN /\ At(step)[l] = m
          /\ role = closure_walk_role(m) /\ Lawful(role, effects)
      BY <1>4, <2>2, <3>1
    <3>3. item'[l] = Affected(item[l], effects, m, c, named)
      BY <1>11, <2>2, <3>1, <3>2 DEF Reading
    <3>4. Closing(effects) <=> l \in Closers(step)
      BY <2>2, <3>1 DEF Closers
    <3>5. /\ walk'[l].later = walk[l].later \ {m}
          /\ walk'[l].closed <=> walk[l].closed \/ Closing(effects)
          /\ Closing(effects) => walk'[l].stopped
      BY <1>6, <2>2, <3>2, <3>4
    <3>6. /\ handoffs'[l] # NoJob => Suggest("Delegated") \in effects
          /\ dates'[l] # NoJob => NewDate \in effects /\ dates'[l].message = m
      BY <1>4, <1>7, <1>8, <2>2, <3>1 DEF Handed, Dated
    <3>7. l \in Unsure(step, vague) => walk'[l].stopped /\ ~Closing(effects)
      <4>1. l \in Unsure(step, vague) => effects = {} \/ NewDate \in effects
        BY <1>4, <2>2, <3>1 DEF Unsure, Dated
      <4>2. effects = {} \/ NewDate \in effects => ~Closing(effects)
        BY <3>2 DEF Lawful, Closing, Close, Suggest, AskedAgain, Amended, NewDate
      <4> QED BY <1>6, <4>1, <4>2
    <3>8. \A t \in Threads : l \in chat_reach'[t] =>
            l \in chat_reach[t] \/ (walk'[l].stopped /\ ~Closing(effects))
      BY <1>9, <3>7
    <3>10. l \notin skipped' /\ l \notin escalated
      <4>1. l \notin skipped \cup escalated
        BY <1>3, <2>2 DEF IInv, LoopInv, DoubtEnds
      <4> QED BY <1>1, <1>3, <2>2, <4>1
    <3>11. l \in escalated' => l \in Unsure(step, vague)
      BY <1>1, <3>10 DEF Round
    <3>12. l \in Unsure(step, vague) => effects \subseteq {AskedAgain, Amended, NewDate}
      <4>1. l \in Unsure(step, vague) =>
              role = "WaitingParty" /\ NewDate \in effects
        BY <2>2, <3>1 DEF Unsure, Dated
      <4>2. NewDate \in effects => ~\E k : effects = {Close(k)}
        BY DEF Close, NewDate
      <4> QED BY <3>2, <4>1, <4>2 DEF Lawful
    <3>13. walk'[l].stopped => handoffs'[l] = NoJob /\ dates'[l] = NoJob
      <4>1. walk'[l].stopped => l \in Unsure(step, vague) \/ Closing(effects)
        BY <1>3, <1>6, <2>2, <3>4
      <4>2. Closing(effects) => Suggest("Delegated") \notin effects /\ NewDate \notin effects
        BY <3>2 DEF Lawful, Closing, Close, Suggest, AskedAgain, Amended, NewDate
      <4>3. l \in Unsure(step, vague) => Suggest("Delegated") \notin effects /\ l \in vague
        BY <2>2, <3>12 DEF Unsure, Suggest, AskedAgain, Amended, NewDate
      <4>4. /\ handoffs'[l] # NoJob => l \in Handed(step) \ vague
            /\ dates'[l] # NoJob => l \in Dated(step) \ vague
        BY <1>7, <1>8
      <4> QED BY <3>6, <4>1, <4>2, <4>3, <4>4
    <3>14. handoffs'[l] # NoJob => handoffs'[l].message = m
      BY <1>4, <1>7, <2>2, <3>1
    <3>9. ReadBy(l, m, role, effects, c, named)
      BY <1>3, <2>2, <3>1, <3>2, <3>3, <3>5, <3>6, <3>7, <3>8, <3>10, <3>11, <3>12, <3>13,
         <3>14 DEF ReadBy
    <3> QED BY <3>2, <3>9
  <2> QED BY <2>1, <2>2, <2>3
<1> QED BY <1>2, <1>6, <1>7, <1>8, <1>9, <1>10, <1>11, <1>12, <1>13 DEF Answering

\* A round of answers keeps the invariant.
LEMMA RoundStep ==
  ASSUME IInv, RoundAnswered
  PROVE  IInv'
<1>1. ASSUME NEW l \in Loops
      PROVE  LoopInv(l)' /\ item'[l] \in Items
  <2>1. Answering
    BY RoundShape
  <2>2. CASE LeftAlone(l)
    <3>1. item[l] \in Items
      BY DEF IInv, Typed
    <3>2. LoopInv(l)'
      BY <2>1, <2>2, LeftLoop
    <3> QED BY <2>2, <3>1, <3>2 DEF LeftAlone
  <2>3. ASSUME NEW m, NEW role, NEW effects, NEW c \in Confidences, NEW named \in BOOLEAN,
               ReadBy(l, m, role, effects, c, named)
        PROVE  LoopInv(l)' /\ item'[l] \in Items
    BY <2>1, <2>3, ReadLoop
  <2>4. \/ LeftAlone(l)
        \/ \E m, role, effects : \E c \in Confidences, named \in BOOLEAN :
             ReadBy(l, m, role, effects, c, named)
    BY RoundShape
  <2> QED BY <2>2, <2>3, <2>4
<1>2. /\ phase = "answers" /\ phase' \in {"handoff", "dates", "walk"}
      /\ UNCHANGED <<setting, card>> /\ UNCHANGED <<cancel, cancelled>>
  BY RoundShape DEF Answering
<1>3. suggested_updates' \in 0 .. Cardinality(Loops) /\ CountsAreTrue'
  <2>1. \A l \in Loops : CardKept(l)'
    BY <1>1 DEF LoopInv
  <2>2. suggested_updates' = Counted(item, item')
    BY RoundShape
  <2> QED BY <1>2, <2>1, <2>2, CountKept
<1>4. Typed'
  <2>1. item' \in [Loops -> Items]
    <3>1. item' = [l \in Loops |-> item'[l]]
      BY RoundShape
    <3> QED BY <1>1, <3>1
  <2>2. Settings'
    BY <1>2 DEF IInv, Typed, Settings, setting
  <2>3. /\ walk' \in [Loops -> Walks]
        /\ handoffs' \in [Loops -> {NoJob} \cup Jobs]
        /\ dates' \in [Loops -> {NoJob} \cup Jobs]
        /\ chat_reach' \in [Threads -> SUBSET Loops]
        /\ skipped' \subseteq Loops /\ escalated' \subseteq Loops
    BY RoundShape
  <2>4. phase' \in Phases /\ cancel' \in BOOLEAN /\ cancelled' \in BOOLEAN
        /\ card' \in [Loops -> {NoUpdate} \cup Updates]
    BY <1>2 DEF IInv, Typed, Phases
  <2> QED BY <1>3, <2>1, <2>2, <2>3, <2>4 DEF Typed
<1>5. JobsHaveRounds' /\ CutsHaveCause'
  BY <1>2, RoundShape DEF IInv, CutsHaveCause
<1>6. NothingWalked'
  BY <1>2 DEF IInv, NothingWalked, setting
<1> QED BY <1>1, <1>3, <1>4, <1>5, <1>6 DEF IInv

-------------------------------------------------------------------------------
(* The follow-up rounds, loop by loop. *)

\* A suggestion that is no closure.
NoClosure == {Update(k, m, c) : k \in {"Delegated", "Change"}, m \in Messages, c \in Confidences}

FollowingUp ==
  /\ phase \in {"handoff", "dates"} /\ phase' \in {"dates", "walk"}
  /\ UNCHANGED <<setting, card>>

\* The loop's card is as it was, or the answer of a pending question is on it.
FollowedUp(l) ==
  /\ walk'[l].later = walk[l].later /\ walk'[l].closed = walk[l].closed
  /\ walk[l].stopped => walk'[l].stopped
  /\ walk'[l].stopped => handoffs'[l] = NoJob /\ dates'[l] = NoJob
  /\ handoffs'[l] \in {NoJob, handoffs[l]} /\ dates'[l] \in {NoJob, dates[l]}
  /\ \A t \in Threads : l \in chat_reach'[t] =>
       l \in chat_reach[t] \/ (~walk[l].stopped /\ walk'[l].stopped)
  /\ l \in skipped' \cup escalated' =>
       \/ l \in skipped \cup escalated
       \/ ~walk[l].stopped /\ walk'[l].stopped /\ item'[l] = item[l]
  /\ l \in skipped' =>
       l \in skipped \/ (~walk[l].stopped /\ \A t \in Threads : l \in chat_reach'[t] =>
                                                               l \in chat_reach[t])
  /\ cancelled => item'[l] = item[l]
  /\ \/ item'[l] = item[l]
     \/ /\ ~walk[l].stopped
        /\ \E u \in NoClosure : /\ item'[l] = [item[l] EXCEPT !.suggested_update = u]
                                /\ \/ handoffs[l] # NoJob /\ u.message = handoffs[l].message
                                   \/ dates[l] # NoJob /\ u.message = dates[l].message
     \/ /\ ~walk[l].stopped /\ dates[l] # NoJob
        /\ item'[l] = [item[l] EXCEPT !.deadline = dates[l].message]

\* Such a suggestion is one, and no user's reply.
LEMMA NoClosureShape ==
  ASSUME NEW u \in NoClosure
  PROVE  u \in Updates /\ u # NoUpdate /\ ~FromUserReply(u)
<1>1. PICK k \in {"Delegated", "Change"}, m \in Messages, c \in Confidences : u = Update(k, m, c)
  BY DEF NoClosure
<1>2. k \in WalkKinds
  BY DEF WalkKinds
<1> QED BY <1>1, <1>2, UpdateShape DEF FromUserReply

\* The answer of a follow-up question keeps the invariant: the message asked
\* about is earlier than all that is left to read.
LEMMA FollowedLoop ==
  ASSUME IInv, FollowingUp, NEW l \in Loops, FollowedUp(l)
  PROVE  LoopInv(l)' /\ item'[l] \in Items
<1>1. /\ LoopInv(l) /\ phase \in {"handoff", "dates"} /\ phase' \in {"dates", "walk"}
      /\ card' = card /\ mail' = mail /\ decisive' = decisive /\ prior' = prior
      /\ decisive /\ fresh' = fresh
      /\ ~walk[l].stopped => ~walk[l].closed
  BY DEF IInv, FollowingUp, setting, prior, NothingWalked, LoopInv, ClosedWalk
<1>2. /\ walk[l] \in Walks /\ item[l] \in Items /\ dates[l] \in {NoJob} \cup Jobs
  BY DEF IInv, Typed
<1>3. PICK i, r : i = item[l] /\ r = item'[l]
  OBVIOUS
<1>4. /\ r \in Items /\ r.resolution = i.resolution /\ r.passed = i.passed
      /\ r.restated = i.restated /\ r.amended = i.amended
      /\ \/ r = i
         \/ /\ ~walk[l].closed
            /\ \/ /\ r.suggested_update # NoUpdate /\ ~FromUserReply(r.suggested_update)
                  /\ r.deadline = i.deadline
                  /\ \/ handoffs[l] # NoJob /\ r.suggested_update.message = handoffs[l].message
                     \/ dates[l] # NoJob /\ r.suggested_update.message = dates[l].message
               \/ /\ r.suggested_update = i.suggested_update /\ dates[l] # NoJob
                  /\ r.deadline = dates[l].message
  <2>1. CASE r = i
    BY <1>2, <1>3, <2>1
  <2>2. ASSUME ~walk[l].closed, NEW u \in NoClosure, r = [i EXCEPT !.suggested_update = u],
               \/ handoffs[l] # NoJob /\ u.message = handoffs[l].message
               \/ dates[l] # NoJob /\ u.message = dates[l].message
        PROVE  /\ r \in Items /\ r.resolution = i.resolution /\ r.passed = i.passed
               /\ r.restated = i.restated /\ r.amended = i.amended
               /\ r.suggested_update # NoUpdate /\ ~FromUserReply(r.suggested_update)
               /\ r.deadline = i.deadline
               /\ \/ handoffs[l] # NoJob /\ r.suggested_update.message = handoffs[l].message
                  \/ dates[l] # NoJob /\ r.suggested_update.message = dates[l].message
    <3>1. u \in {NoUpdate} \cup Updates /\ u # NoUpdate /\ ~FromUserReply(u)
      BY NoClosureShape
    <3> QED BY <1>2, <1>3, <2>2, <3>1, ItemSuggests
  <2>3. CASE /\ ~walk[l].closed /\ dates[l] # NoJob
             /\ r = [i EXCEPT !.deadline = dates[l].message]
    <3>1. dates[l].message \in Messages
      BY <1>2, <2>3 DEF Jobs
    <3> QED BY <1>2, <1>3, <2>3, <3>1, ItemMovesDate
  <2> QED BY <1>1, <1>3, <2>1, <2>2, <2>3 DEF FollowedUp
<1>5. ClosedWalk(l)'
  BY <1>1, <1>3, <1>4 DEF LoopInv, ClosedWalk, FollowedUp
<1>6. Past(l)'
  <2>1. ASSUME NEW n \in walk'[l].later
        PROVE  /\ \A x \in Marks(l)' : x < n
               /\ dates'[l] # NoJob => dates'[l].message < n
    <3>1. /\ n \in walk[l].later
          /\ \A x \in Marks(l) : x < n
          /\ dates[l] # NoJob => dates[l].message < n
      BY <1>1, <2>1 DEF LoopInv, Past, FollowedUp
    <3>2. \A x \in Marks(l)' : x \in Marks(l) \/ (dates[l] # NoJob /\ x = dates[l].message)
      BY <1>3, <1>4 DEF Marks
    <3> QED BY <3>1, <3>2 DEF FollowedUp
  <2> QED BY <2>1 DEF Past
<1>7. PriorLoop(l)'
  BY <1>1 DEF LoopInv, PriorLoop, FollowedUp
<1>8. CardKept(l)'
  BY <1>1, <1>3, <1>4 DEF LoopInv, CardKept, Has
<1>9. ReachStops(l)'
  BY <1>1 DEF LoopInv, ReachStops, FollowedUp
<1>10. Final(l)'
  <2>1. CASE walk[l].closed
    <3>1. r = i /\ \A t \in Threads : l \in chat_reach'[t] => l \in chat_reach[t]
      BY <1>1, <1>4, <2>1 DEF FollowedUp, LoopInv, ClosedWalk
    <3> QED BY <1>1, <1>3, <3>1 DEF LoopInv, Final, Has
  <2>2. CASE ~walk[l].closed
    <3>1. r.resolution = 0
      BY <1>1, <1>3, <1>4, <2>2 DEF LoopInv, ClosedWalk
    <3> QED BY <1>3, <3>1 DEF Final
  <2> QED BY <2>1, <2>2
<1>11. Chased(l)'
  <2>1. ASSUME NEW x \in r.restated, FromUserReply(r.suggested_update)
        PROVE  r.suggested_update.message > x
    <3>1. r.suggested_update = i.suggested_update /\ r.restated = i.restated
      BY <1>4, <2>1
    <3> QED BY <1>1, <1>3, <2>1, <3>1 DEF LoopInv, Chased
  <2> QED BY <1>1, <1>3, <2>1 DEF Chased, FromUserReply
<1>12. Unexpired(l)'
  BY <1>1, <1>3, <1>4 DEF LoopInv, Unexpired
<1>13. News(l)'
  BY <1>1, <1>3, <1>4 DEF LoopInv, News, FollowedUp
<1>14. DoubtEnds(l)'
  BY <1>1 DEF LoopInv, DoubtEnds, ReachStops, FollowedUp
<1> QED BY <1>13, <1>14, <1>3, <1>4, <1>5, <1>6, <1>7, <1>8, <1>9, <1>10, <1>11, <1>12 DEF LoopInv

\* What a follow-up round needs to keep, beside its loops.
LEMMA FollowUp ==
  ASSUME IInv, FollowingUp, \A l \in Loops : FollowedUp(l),
         walk' \in [Loops -> Walks], item' = [l \in Loops |-> item'[l]],
         handoffs' = [l \in Loops |-> NoJob],
         dates' \in [Loops -> {NoJob} \cup Jobs],
         phase' = "walk" => dates' = [l \in Loops |-> NoJob],
         chat_reach' \in [Threads -> SUBSET Loops],
         skipped' \subseteq Loops, escalated' \subseteq Loops,
         cancel' \in BOOLEAN, cancelled' \in BOOLEAN, cancelled' => cancel',
         suggested_updates' = Counted(item, item')
  PROVE  IInv'
<1>1. \A l \in Loops : LoopInv(l)' /\ item'[l] \in Items
  BY FollowedLoop
<1>2. phase \in {"handoff", "dates"} /\ phase' \in {"dates", "walk"}
      /\ UNCHANGED <<setting, card>>
  BY DEF FollowingUp
<1>3. suggested_updates' \in 0 .. Cardinality(Loops) /\ CountsAreTrue'
  <2>1. \A l \in Loops : CardKept(l)'
    BY <1>1 DEF LoopInv
  <2> QED BY <1>2, <2>1, CountKept
<1>4. Typed'
  <2>1. item' \in [Loops -> Items]
    BY <1>1
  <2>2. Settings'
    BY <1>2 DEF IInv, Typed, Settings, setting
  <2>3. phase' \in Phases /\ card' \in [Loops -> {NoUpdate} \cup Updates]
        /\ handoffs' \in [Loops -> {NoJob} \cup Jobs]
    BY <1>2 DEF IInv, Typed, Phases
  <2> QED BY <1>3, <2>1, <2>2, <2>3 DEF Typed
<1>5. JobsHaveRounds' /\ CutsHaveCause'
  BY <1>2 DEF JobsHaveRounds, CutsHaveCause
<1>6. NothingWalked'
  BY <1>2 DEF IInv, NothingWalked, setting
<1> QED BY <1>1, <1>3, <1>4, <1>5, <1>6 DEF IInv

\* A pending question is about a message and has a confidence.
LEMMA PendingJobs ==
  ASSUME NEW jobs \in [Loops -> {NoJob} \cup Jobs], NEW l \in Pending(jobs)
  PROVE  /\ l \in Loops /\ jobs[l] # NoJob /\ jobs[l].message \in Messages
         /\ \A k \in {"Delegated", "Change"} :
              LET u == Update(k, jobs[l].message, jobs[l].confidence)
              IN  u \in NoClosure /\ u.message = jobs[l].message
<1>1. l \in Loops /\ jobs[l] # NoJob /\ jobs[l] \in Jobs
  BY DEF Pending
<1>2. jobs[l].message \in Messages /\ jobs[l].confidence \in Confidences
  BY <1>1 DEF Jobs
<1> QED BY <1>1, <1>2 DEF NoClosure, Update

\* The question who took over keeps the invariant.
LEMMA HandoffStep ==
  ASSUME IInv, HandoffRound
  PROVE  IInv' /\ FollowingUp /\ \A l \in Loops : FollowedUp(l)
<1>1. /\ phase = "handoff" /\ handoffs' = [l \in Loops |-> NoJob]
      /\ phase' = IF Pending(dates) # {} THEN "dates" ELSE "walk"
      /\ UNCHANGED <<setting, cancel, walk, skipped, escalated, chat_reach, dates, card>>
  BY DEF HandoffRound
<1>2. PICK cut \in SUBSET Pending(handoffs), given \in SUBSET Pending(handoffs) :
        /\ item' = [l \in Loops |->
                      IF l \in given
                        THEN [item[l] EXCEPT !.suggested_update =
                                Update("Delegated", handoffs[l].message,
                                       handoffs[l].confidence)]
                        ELSE item[l]]
        /\ suggested_updates' = Counted(item, item')
        /\ cancelled' = (cut # {})
        /\ cut # {} => cancel
        /\ cancelled => given = {}
  BY DEF HandoffRound, Sent
<1>3. /\ handoffs \in [Loops -> {NoJob} \cup Jobs] /\ dates \in [Loops -> {NoJob} \cup Jobs]
      /\ walk \in [Loops -> Walks] /\ chat_reach \in [Threads -> SUBSET Loops]
      /\ skipped \subseteq Loops /\ escalated \subseteq Loops /\ cancel \in BOOLEAN
  BY DEF IInv, Typed
<1>4. FollowingUp
  BY <1>1 DEF FollowingUp
<1>5. ASSUME NEW l \in Loops
      PROVE  FollowedUp(l)
  <2>1. /\ walk' = walk /\ dates' = dates /\ chat_reach' = chat_reach
        /\ handoffs'[l] = NoJob /\ skipped' = skipped /\ escalated' = escalated
    BY <1>1
  <2>2. \/ item'[l] = item[l]
        \/ /\ ~walk[l].stopped
           /\ \E u \in NoClosure : /\ item'[l] = [item[l] EXCEPT !.suggested_update = u]
                                   /\ handoffs[l] # NoJob /\ u.message = handoffs[l].message
    <3>1. CASE l \in given
      <4> DEFINE u == Update("Delegated", handoffs[l].message, handoffs[l].confidence)
      <4>1. handoffs[l] # NoJob /\ u \in NoClosure /\ u.message = handoffs[l].message
        BY <1>3, <3>1, PendingJobs
      <4>2. ~walk[l].stopped
        BY <4>1 DEF IInv, LoopInv, ClosedWalk
      <4>3. item'[l] = [item[l] EXCEPT !.suggested_update = u]
        BY <1>2, <3>1
      <4> HIDE DEF u
      <4> QED BY <4>1, <4>2, <4>3
    <3>2. CASE l \notin given
      BY <1>2, <3>2
    <3> QED BY <3>1, <3>2
  <2>3. cancelled => item'[l] = item[l]
    BY <1>2
  <2>4. walk[l].stopped => dates[l] = NoJob
    BY DEF IInv, LoopInv, ClosedWalk
  <2> QED BY <2>1, <2>2, <2>3, <2>4 DEF FollowedUp
<1>6. item' = [l \in Loops |-> item'[l]]
  BY <1>2
<1>7. phase' = "walk" => dates' = [l \in Loops |-> NoJob]
  <2>1. Pending(dates) = {} => \A l \in Loops : dates[l] = NoJob
    BY DEF Pending
  <2> QED BY <1>1, <1>3, <2>1
<1>8. /\ dates' \in [Loops -> {NoJob} \cup Jobs] /\ walk' \in [Loops -> Walks]
      /\ chat_reach' \in [Threads -> SUBSET Loops]
      /\ skipped' \subseteq Loops /\ escalated' \subseteq Loops
      /\ cancel' \in BOOLEAN /\ cancelled' \in BOOLEAN /\ (cancelled' => cancel')
  BY <1>1, <1>2, <1>3
<1> QED BY <1>1, <1>2, <1>4, <1>5, <1>6, <1>7, <1>8, FollowUp

\* The question which date keeps the invariant.
LEMMA DateStep ==
  ASSUME IInv, DateRound
  PROVE  IInv' /\ FollowingUp /\ \A l \in Loops : FollowedUp(l)
<1>1. /\ phase = "dates" /\ dates' = [l \in Loops |-> NoJob] /\ phase' = "walk"
      /\ UNCHANGED <<setting, cancel, handoffs, card>>
  BY DEF DateRound
<1> DEFINE at == [l \in Pending(dates) |-> dates[l].message]
<1>2. PICK failed \in SUBSET Pending(dates), cut \in SUBSET Pending(dates),
           picked \in SUBSET Pending(dates) :
        LET unsure == Pending(dates) \ (failed \cup cut \cup picked)
            item2  == [l \in Loops |->
                         IF l \notin picked THEN item[l]
                         ELSE IF dates[l].source = "WaitingParty"
                           THEN [item[l] EXCEPT !.deadline = at[l]]
                         ELSE [item[l] EXCEPT !.suggested_update =
                                 Update("Change", at[l], dates[l].confidence)]]
        IN  /\ Sent(Pending(dates), failed, cut)
            /\ failed \cap cut = {} /\ picked \cap (failed \cup cut) = {}
            /\ item' = item2 /\ suggested_updates' = Counted(item, item2)
            /\ walk' = Stopped(walk, EndInDoubt(failed, unsure))
            /\ skipped' = skipped \cup failed
            /\ escalated' = escalated \cup unsure
            /\ chat_reach' = record_walk_escalation(unsure, at)
            /\ cancelled' = (cancelled \/ cut # {})
  BY Zenon DEF DateRound
<1> DEFINE unsure == Pending(dates) \ (failed \cup cut \cup picked)
<1>3. /\ handoffs \in [Loops -> {NoJob} \cup Jobs] /\ dates \in [Loops -> {NoJob} \cup Jobs]
      /\ walk \in [Loops -> Walks] /\ skipped \subseteq Loops /\ escalated \subseteq Loops
      /\ cancel \in BOOLEAN /\ cancelled \in BOOLEAN /\ Typed
  BY DEF IInv, Typed
<1>4. unsure \in SUBSET Loops /\ failed \subseteq Loops /\ unsure \subseteq Pending(dates)
  BY DEF Pending
<1>5. FollowingUp
  BY <1>1 DEF FollowingUp
<1>6. /\ walk' \in [Loops -> Walks]
      /\ \A l \in Loops : /\ walk'[l].later = walk[l].later
                          /\ walk'[l].closed = walk[l].closed
                          /\ walk'[l].stopped <=> walk[l].stopped \/ l \in failed \cup unsure
  <2>1. walk' = Stopped(walk, failed \cup unsure)
    BY <1>2 DEF EndInDoubt
  <2> QED BY <1>3, <2>1, StoppedWalks
<1>7. /\ chat_reach' \in [Threads -> SUBSET Loops]
      /\ \A l \in Loops, t \in Threads :
           l \in chat_reach'[t] => l \in chat_reach[t] \/ l \in unsure
  <2>1. chat_reach' = record_walk_escalation(unsure, at)
    BY <1>2
  <2> HIDE DEF unsure, at
  <2> QED BY <1>3, <1>4, <2>1, Escalating
<1>8. handoffs' = [l \in Loops |-> NoJob]
  <2>1. \A l \in Loops : handoffs[l] = NoJob
    BY <1>1 DEF IInv, JobsHaveRounds
  <2> QED BY <1>1, <1>3, <2>1
<1>9. ASSUME NEW l \in Loops
      PROVE  FollowedUp(l)
  <2>1. ASSUME l \in Pending(dates)
        PROVE  ~walk[l].stopped /\ dates[l] # NoJob /\ at[l] = dates[l].message
               /\ Update("Change", at[l], dates[l].confidence) \in NoClosure
               /\ Update("Change", at[l], dates[l].confidence).message = dates[l].message
    <3>1. dates[l] # NoJob /\ at[l] = dates[l].message
          /\ Update("Change", at[l], dates[l].confidence) \in NoClosure
          /\ Update("Change", at[l], dates[l].confidence).message = dates[l].message
      BY <1>3, <2>1, PendingJobs
    <3>2. ~walk[l].stopped
      BY <3>1 DEF IInv, LoopInv, ClosedWalk
    <3> QED BY <3>1, <3>2
  <2>2. \/ item'[l] = item[l]
        \/ /\ ~walk[l].stopped
           /\ \E u \in NoClosure : /\ item'[l] = [item[l] EXCEPT !.suggested_update = u]
                                   /\ dates[l] # NoJob /\ u.message = dates[l].message
        \/ /\ ~walk[l].stopped /\ dates[l] # NoJob
           /\ item'[l] = [item[l] EXCEPT !.deadline = dates[l].message]
    <3>1. CASE l \notin picked
      BY <1>2, <3>1
    <3>2. CASE l \in picked /\ dates[l].source = "WaitingParty"
      BY <1>2, <2>1, <3>2
    <3>3. CASE l \in picked /\ dates[l].source # "WaitingParty"
      <4>1. item'[l] = [item[l] EXCEPT !.suggested_update =
                          Update("Change", at[l], dates[l].confidence)]
        BY <1>2, <3>3
      <4> QED BY <2>1, <3>3, <4>1
    <3> QED BY <3>1, <3>2, <3>3
  <2>3. handoffs'[l] = NoJob /\ dates'[l] = NoJob
    BY <1>1, <1>8
  <2>4. \A t \in Threads : l \in chat_reach'[t] =>
          l \in chat_reach[t] \/ (~walk[l].stopped /\ walk'[l].stopped)
    BY <1>4, <1>6, <1>7, <2>1
  <2>5. /\ walk'[l].later = walk[l].later /\ walk'[l].closed = walk[l].closed
        /\ walk[l].stopped => walk'[l].stopped
    BY <1>6
  <2>6. l \in failed \cup unsure => /\ ~walk[l].stopped /\ walk'[l].stopped
                                   /\ item'[l] = item[l]
    <3>1. ASSUME l \in failed \cup unsure
          PROVE  l \in Pending(dates) /\ l \notin picked
      BY <1>2, <3>1
    <3> QED BY <1>2, <1>6, <2>1, <3>1
  <2>7. l \in skipped' \cup escalated' =>
          \/ l \in skipped \cup escalated
          \/ ~walk[l].stopped /\ walk'[l].stopped /\ item'[l] = item[l]
    BY <1>2, <2>6
  <2>8. l \in skipped' =>
          l \in skipped \/ (~walk[l].stopped /\ \A t \in Threads : l \in chat_reach'[t] =>
                                                                 l \in chat_reach[t])
    BY <1>2, <1>7, <2>6
  <2>9. cancelled => item'[l] = item[l]
    <3>1. cancelled => picked = {}
      BY <1>2 DEF Sent
    <3> QED BY <1>2, <3>1
  <2> QED BY <2>2, <2>3, <2>4, <2>5, <2>7, <2>8, <2>9 DEF FollowedUp
<1>10. item' = [l \in Loops |-> item'[l]] /\ suggested_updates' = Counted(item, item')
  BY <1>2
<1>11. /\ dates' \in [Loops -> {NoJob} \cup Jobs]
       /\ skipped' \subseteq Loops /\ escalated' \subseteq Loops
       /\ cancel' \in BOOLEAN /\ cancelled' \in BOOLEAN /\ (cancelled' => cancel')
  BY <1>1, <1>2, <1>3, <1>4 DEF Sent, IInv, CutsHaveCause
<1> QED BY <1>1, <1>5, <1>6, <1>7, <1>8, <1>9, <1>10, <1>11, FollowUp

-------------------------------------------------------------------------------
(* The end of the pass. *)

\* A loop whose event is over has a card as before that has expired, and is
\* not closed: the invariant is kept.
LEMMA ExpireStep ==
  ASSUME IInv, Expire
  PROVE  IInv'
<1>1. /\ phase = "expire" /\ phase' \in {"merge", "chat"}
      /\ phase' = "chat" => ~cancelled'
      /\ cancelled' = (cancelled \/ cancel)
      /\ UNCHANGED <<setting, cancel, walk, skipped, escalated, chat_reach, handoffs, dates,
                     suggested_updates, card>>
  BY DEF Expire
<1>2. PICK over \in SUBSET {l \in Loops : ~walk[l].closed /\ walk[l].event} :
        item' = [l \in Loops |-> IF l \in over THEN [item[l] EXCEPT !.passed = TRUE]
                                               ELSE item[l]]
  BY DEF Expire
<1>3. Typed /\ prior' = prior /\ mail' = mail /\ decisive' = decisive /\ card' = card
      /\ incremental' = incremental /\ fresh' = fresh
  BY <1>1 DEF IInv, prior, setting
<1>4. ASSUME NEW l \in Loops
      PROVE  /\ item'[l] \in Items
             /\ item'[l].suggested_update = item[l].suggested_update
             /\ item'[l].resolution = item[l].resolution
             /\ item'[l].deadline = item[l].deadline
             /\ item'[l].restated = item[l].restated
             /\ item'[l].amended = item[l].amended
             /\ item'[l].passed => item[l].passed \/ ~walk[l].closed
  <2>1. item[l] \in Items
    BY <1>3 DEF Typed
  <2>2. CASE l \in over
    <3>1. item'[l] = [item[l] EXCEPT !.passed = TRUE] /\ ~walk[l].closed
      BY <1>2, <2>2
    <3> QED BY <2>1, <3>1, ItemPasses
  <2>3. CASE l \notin over
    <3>1. item'[l] = item[l]
      BY <1>2, <2>3
    <3> QED BY <2>1, <3>1
  <2> QED BY <2>2, <2>3
<1>5. Typed'
  <2>1. item' = [l \in Loops |-> item'[l]]
    BY <1>2
  <2>2. item' \in [Loops -> Items]
    BY <1>4, <2>1
  <2>3. Settings'
    BY <1>1, <1>3 DEF Typed, Settings, setting
  <2>4. UNCHANGED <<card, walk, handoffs, dates, chat_reach, escalated, skipped,
                    suggested_updates, cancel>>
    BY <1>1
  <2>5. phase' \in Phases /\ cancelled' \in BOOLEAN
    BY <1>1, <1>3 DEF Typed, Phases
  <2> QED BY <1>3, <2>2, <2>3, <2>4, <2>5 DEF Typed
<1>6. JobsHaveRounds' /\ NothingWalked' /\ CutsHaveCause'
  BY <1>1, <1>3 DEF IInv, JobsHaveRounds, NothingWalked, CutsHaveCause
<1>7. ASSUME NEW l \in Loops
      PROVE  LoopInv(l)'
  <2>1. /\ LoopInv(l) /\ walk' = walk /\ dates' = dates /\ handoffs' = handoffs
        /\ chat_reach' = chat_reach
    BY <1>1 DEF IInv
  <2>2. ClosedWalk(l)'
    BY <1>4, <2>1 DEF LoopInv, ClosedWalk
  <2>3. Past(l)'
    <3>1. Marks(l)' = Marks(l)
      BY <1>4 DEF Marks
    <3> QED BY <2>1, <3>1 DEF LoopInv, Past
  <2>4. PriorLoop(l)'
    BY <1>3, <2>1 DEF LoopInv, PriorLoop
  <2>5. CardKept(l)'
    BY <1>1, <1>3, <1>4, <2>1 DEF LoopInv, CardKept, Has
  <2>6. ReachStops(l)'
    BY <1>3, <2>1 DEF LoopInv, ReachStops
  <2>7. Final(l)'
    BY <1>3, <1>4, <2>1 DEF LoopInv, Final, ClosedWalk, Has
  <2>8. Chased(l)'
    <3>1. PICK i, r : i = item[l] /\ r = item'[l]
      OBVIOUS
    <3>2. r.suggested_update = i.suggested_update /\ r.restated = i.restated
      BY <1>4, <3>1
    <3> QED BY <1>1, <1>3, <2>1, <3>1, <3>2 DEF LoopInv, Chased, FromUserReply
  <2>9. Unexpired(l)'
    BY <1>1 DEF Unexpired
  <2>10. News(l)'
    <3>1. PICK u : u = item[l].suggested_update /\ u = item'[l].suggested_update
      BY <1>4
    <3> QED BY <1>1, <1>3, <2>1, <3>1 DEF LoopInv, News
  <2>11. DoubtEnds(l)'
    BY <1>1, <1>3, <2>1 DEF LoopInv, DoubtEnds
  <2> QED BY <2>10, <2>11, <2>2, <2>3, <2>4, <2>5, <2>6, <2>7, <2>8, <2>9 DEF LoopInv
<1>8. CountsAreTrue'
  <2>1. Suggested' = Suggested
    <3>1. \A l \in Loops : Has(item, l)' <=> Has(item, l)
      BY <1>4 DEF Has
    <3> QED BY <3>1 DEF Suggested
  <2>2. Carried' = Carried
    BY <1>3 DEF Carried
  <2>3. suggested_updates' = suggested_updates /\ phase # "done" /\ phase' # "done"
    BY <1>1
  <2> QED BY <1>1, <1>3, <2>1, <2>2, <2>3 DEF IInv, CountsAreTrue
<1> QED BY <1>5, <1>6, <1>7, <1>8 DEF IInv

\* The chat model is asked about loops within its reach only, so its answers
\* leave closed loops alone.
LEMMA ChatStep ==
  ASSUME IInv, ChatRound
  PROVE  IInv' /\ \A l \in skipped : item'[l] = item[l]
<1>1. /\ phase = "chat" /\ phase' = "merge" /\ cancelled' = (cancelled \/ cancel)
      /\ UNCHANGED <<setting, cancel, walk, skipped, escalated, chat_reach, handoffs, dates,
                     card>>
  BY DEF ChatRound
<1>2. Typed /\ prior' = prior /\ mail' = mail /\ decisive' = decisive /\ card' = card
      /\ fresh' = fresh
  BY <1>1 DEF IInv, prior, setting
<1> DEFINE Claims(jobs, answered, l) ==
             {NoUpdate} \cup
             {u \in ChatUpdates :
                /\ u.message > LoopAt[l] /\ admits(l, u.message)
                /\ \E t \in answered :
                     /\ l \in jobs[t]
                     /\ \/ mail[u.message].thread = t
                        \/ \E o \in jobs[t] : u.message = LoopAt[o]}
           Given(best) ==
             [l \in Loops |->
                IF best[l] # NoUpdate
                   /\ (Has(item, l) => outranks(best[l], item[l].suggested_update))
                  THEN [item[l] EXCEPT !.suggested_update = best[l]]
                  ELSE item[l]]
<1>3. PICK jobs \in ClosureJobs : \E answered \in SUBSET DOMAIN jobs :
        \E best \in [Loops -> UNION {Claims(jobs, answered, l) : l \in Loops}] :
          /\ \A l \in Loops : best[l] \in Claims(jobs, answered, l)
          /\ item' = Given(best) /\ suggested_updates' = Counted(item, Given(best))
  BY Zenon DEF ChatRound
<1>4. PICK answered \in SUBSET DOMAIN jobs :
        \E best \in [Loops -> UNION {Claims(jobs, answered, l) : l \in Loops}] :
          /\ \A l \in Loops : best[l] \in Claims(jobs, answered, l)
          /\ item' = Given(best) /\ suggested_updates' = Counted(item, Given(best))
  BY <1>3
<1>5. PICK best :
          /\ \A l \in Loops : best[l] \in Claims(jobs, answered, l)
          /\ item' = Given(best) /\ suggested_updates' = Counted(item, Given(best))
  BY <1>4
<1>6. suggested_updates' = Counted(item, item') /\ item' = [l \in Loops |-> item'[l]]
  BY <1>5
<1>7. ASSUME NEW l \in Loops
      PROVE  /\ best[l] \in {NoUpdate} \cup Updates
             /\ best[l] # NoUpdate => /\ ~walk[l].closed /\ l \notin skipped
                                     /\ (l \in prior => best[l].message \in fresh)
  <2>1. best[l] \in Claims(jobs, answered, l)
    BY <1>5
  <2>2. best[l] \in {NoUpdate} \cup Updates
    BY <2>1 DEF Updates
  <2>3. ASSUME best[l] # NoUpdate
        PROVE  /\ ~walk[l].closed /\ l \notin skipped
               /\ l \in prior => best[l].message \in fresh
    <3>1. PICK t : t \in answered /\ l \in jobs[t]
      BY <2>1, <2>3
    <3>2. t \in Threads /\ jobs[t] \subseteq chat_reach[t]
      BY <3>1 DEF ClosureJobs
    <3>3. l \in chat_reach[t]
      BY <3>1, <3>2
    <3>4. ~decisive => ~walk[l].closed
      BY DEF IInv, NothingWalked
    <3>5. decisive => ~walk[l].closed
      BY <3>2, <3>3 DEF IInv, LoopInv, Final, ClosedWalk
    <3>6. l \notin skipped
      BY <3>2, <3>3 DEF IInv, LoopInv, DoubtEnds
    <3>7. l \in prior => best[l].message \in fresh
      BY <2>1, <2>3 DEF admits
    <3> QED BY <3>4, <3>5, <3>6, <3>7
  <2> QED BY <2>2, <2>3
<1>8. ASSUME NEW l \in Loops
      PROVE  /\ item'[l] \in Items
             /\ item'[l].resolution = item[l].resolution
             /\ item'[l].deadline = item[l].deadline
             /\ item'[l].restated = item[l].restated
             /\ item'[l].amended = item[l].amended
             /\ item'[l].passed = item[l].passed
             /\ l \in skipped => item'[l] = item[l]
             /\ \/ item'[l].suggested_update = item[l].suggested_update
                \/ /\ item'[l].suggested_update # NoUpdate /\ ~walk[l].closed
                   /\ l \in prior => item'[l].suggested_update.message \in fresh
  <2>1. item[l] \in Items
    BY <1>2 DEF Typed
  <2>2. item'[l] = Given(best)[l]
    BY <1>5
  <2>3. CASE item'[l] = item[l]
    BY <2>1, <2>3
  <2>4. CASE best[l] # NoUpdate /\ item'[l] = [item[l] EXCEPT !.suggested_update = best[l]]
    BY <1>7, <2>1, <2>4, ItemSuggests
  <2> QED BY <2>2, <2>3, <2>4
<1> HIDE DEF Claims, Given
<1>9. ASSUME NEW l \in Loops
      PROVE  LoopInv(l)'
  <2>1. /\ LoopInv(l) /\ walk' = walk /\ dates' = dates /\ handoffs' = handoffs
        /\ chat_reach' = chat_reach
    BY <1>1 DEF IInv
  <2>2. ClosedWalk(l)'
    BY <1>8, <2>1 DEF LoopInv, ClosedWalk
  <2>3. Past(l)'
    <3>1. Marks(l)' = Marks(l)
      BY <1>8 DEF Marks
    <3> QED BY <2>1, <3>1 DEF LoopInv, Past
  <2>4. PriorLoop(l)'
    BY <1>2, <2>1 DEF LoopInv, PriorLoop
  <2>5. CardKept(l)'
    BY <1>1, <1>2, <1>8, <2>1 DEF LoopInv, CardKept, Has
  <2>6. ReachStops(l)'
    BY <1>2, <2>1 DEF LoopInv, ReachStops
  <2>7. Final(l)'
    BY <1>2, <1>8, <2>1 DEF LoopInv, Final, ClosedWalk, Has
  <2>8. Chased(l)' /\ Unexpired(l)'
    BY <1>1 DEF Chased, Unexpired
  <2>9. News(l)'
    <3>1. PICK u, v : u = item[l].suggested_update /\ v = item'[l].suggested_update
      OBVIOUS
    <3>2. v = u \/ (l \in prior => v.message \in fresh)
      BY <1>8, <3>1
    <3> QED BY <1>1, <1>2, <2>1, <3>1, <3>2 DEF LoopInv, News
  <2>10. DoubtEnds(l)'
    BY <1>1, <1>2, <2>1 DEF LoopInv, DoubtEnds
  <2> QED BY <2>10, <2>2, <2>3, <2>4, <2>5, <2>6, <2>7, <2>8, <2>9 DEF LoopInv
<1>10. suggested_updates' \in 0 .. Cardinality(Loops) /\ CountsAreTrue'
  <2>1. \A l \in Loops : CardKept(l)'
    BY <1>9 DEF LoopInv
  <2> QED BY <1>1, <1>6, <2>1, CountKept
<1>11. Typed'
  <2>1. item' \in [Loops -> Items]
    BY <1>6, <1>8
  <2>2. Settings'
    BY <1>1, <1>2 DEF Typed, Settings, setting
  <2>3. UNCHANGED <<card, walk, handoffs, dates, chat_reach, escalated, skipped, cancel>>
    BY <1>1
  <2>4. phase' \in Phases /\ cancelled' \in BOOLEAN
    BY <1>1, <1>2 DEF Typed, Phases
  <2> QED BY <1>2, <1>10, <2>1, <2>2, <2>3, <2>4 DEF Typed
<1>12. JobsHaveRounds' /\ NothingWalked' /\ CutsHaveCause'
  BY <1>1, <1>2 DEF IInv, JobsHaveRounds, NothingWalked, CutsHaveCause
<1>13. \A l \in skipped : item'[l] = item[l]
  BY <1>2, <1>8 DEF Typed
<1> QED BY <1>9, <1>10, <1>11, <1>12, <1>13 DEF IInv

\* The merge takes what was found to the cards; the count stays within the
\* loops (take_prior_updates, merge_scan).
LEMMA MergeStep ==
  ASSUME IInv, MergeScan
  PROVE  IInv'
<1> DEFINE moved    == {l \in prior : Has(item, l)}
           attached == {l \in moved : \/ card[l] = NoUpdate
                                      \/ outranks(item[l].suggested_update, card[l])}
<1>1. /\ phase = "merge" /\ phase' = "done"
      /\ card' = [l \in Loops |-> IF l \in attached \/ l \notin prior
                                    THEN item[l].suggested_update ELSE card[l]]
      /\ suggested_updates' =
           monus(suggested_updates, Cardinality(moved)) + Cardinality(attached)
      /\ UNCHANGED <<setting, cancel, cancelled, walk, skipped, escalated, chat_reach,
                     handoffs, dates, item>>
  BY DEF MergeScan
<1>2. Typed /\ prior' = prior /\ mail' = mail /\ decisive' = decisive
      /\ incremental' = incremental /\ fresh' = fresh
  BY <1>1 DEF IInv, prior, setting
<1>3. /\ moved \in SUBSET Loops /\ attached \in SUBSET moved
      /\ IsFiniteSet(moved) /\ IsFiniteSet(attached)
  <2>1. moved \in SUBSET Loops /\ attached \in SUBSET moved
    BY LoopsAreKnown DEF prior
  <2>2. IsFiniteSet(moved)
    BY <2>1, BoundsAreKnown, FS_Subset
  <2>3. IsFiniteSet(attached)
    BY <2>1, <2>2, FS_Subset
  <2> QED BY <2>1, <2>2, <2>3
<1> HIDE DEF moved, attached
<1>4. suggested_updates' \in 0 .. Cardinality(Loops)
  <2>1. Cardinality(attached) <= Cardinality(moved)
    BY <1>3, FS_Subset
  <2>2. Cardinality(moved) <= Cardinality(Loops)
    BY <1>3, BoundsAreKnown, FS_Subset
  <2>3. /\ Cardinality(moved) \in Nat /\ Cardinality(attached) \in Nat
        /\ Cardinality(Loops) \in Nat
    BY <1>3, BoundsAreKnown, FS_CardinalityType
  <2>4. suggested_updates \in 0 .. Cardinality(Loops)
    BY <1>2 DEF Typed
  <2> QED BY <1>1, <2>1, <2>2, <2>3, <2>4 DEF monus
<1>5. Typed'
  <2>1. card' \in [Loops -> {NoUpdate} \cup Updates]
    <3>1. \A l \in Loops : /\ item[l].suggested_update \in {NoUpdate} \cup Updates
                           /\ card[l] \in {NoUpdate} \cup Updates
      BY <1>2, ItemParts DEF Typed
    <3> QED BY <1>1, <3>1
  <2>2. Settings'
    BY <1>1, <1>2 DEF Typed, Settings, setting
  <2>3. UNCHANGED <<item, walk, handoffs, dates, chat_reach, escalated, skipped, cancel,
                    cancelled>>
    BY <1>1
  <2> QED BY <1>1, <1>2, <1>4, <2>1, <2>2, <2>3 DEF Typed, Phases
<1>6. JobsHaveRounds' /\ NothingWalked' /\ CutsHaveCause'
  BY <1>1, <1>2 DEF IInv, JobsHaveRounds, NothingWalked, CutsHaveCause
<1>7. ASSUME NEW l \in Loops
      PROVE  LoopInv(l)'
  <2>1. /\ LoopInv(l) /\ walk' = walk /\ dates' = dates /\ handoffs' = handoffs
        /\ chat_reach' = chat_reach /\ item' = item
    BY <1>1 DEF IInv
  <2>2. ClosedWalk(l)' /\ Past(l)'
    BY <2>1 DEF LoopInv, ClosedWalk, Past, Marks
  <2>3. PriorLoop(l)' /\ ReachStops(l)'
    BY <1>2, <2>1 DEF LoopInv, PriorLoop, ReachStops
  <2>4. Final(l)'
    BY <1>2, <2>1 DEF LoopInv, Final, Has
  <2>5. CardKept(l)' /\ Chased(l)' /\ Unexpired(l)'
    BY <1>1 DEF CardKept, Chased, Unexpired
  <2>6. News(l)' /\ DoubtEnds(l)'
    BY <1>1, <1>2, <2>1 DEF LoopInv, News, DoubtEnds
  <2> QED BY <2>2, <2>3, <2>4, <2>5, <2>6 DEF LoopInv
<1>8. CountsAreTrue'
  <2>1. Suggested' = Suggested
    BY <1>1 DEF Suggested, Has
  <2>2. suggested_updates + Cardinality(Carried) = Cardinality(Suggested)
    BY <1>1 DEF IInv, CountsAreTrue
  <2>3. CASE ~incremental
    <3>1. prior = {} /\ prior' = {}
      BY <1>2, <2>3 DEF prior
    <3>2. moved = {} /\ attached = {}
      BY <3>1 DEF moved, attached
    <3>3. Cardinality(moved) = 0 /\ Cardinality(attached) = 0
      BY <3>2, FS_EmptySet
    <3>4. suggested_updates \in Nat
      BY <1>2 DEF Typed
    <3>5. suggested_updates' = suggested_updates
      BY <1>1, <3>3, <3>4 DEF monus
    <3>6. Carried' = Carried
      BY <3>1 DEF Carried
    <3> QED BY <1>2, <2>1, <2>2, <2>3, <3>5, <3>6 DEF CountsAreTrue
  <2>4. CASE incremental
    <3>1. {l \in prior : card[l].message \in fresh}' = attached
      <4>1. ASSUME NEW l \in prior
            PROVE  card'[l].message \in fresh <=> l \in attached
        <5>1. l \in Loops /\ News(l)
          BY <4>1, LoopsAreKnown DEF prior, IInv, LoopInv
        <5>2. CASE l \in attached
          <6>1. card'[l] = item[l].suggested_update /\ item[l].suggested_update # NoUpdate
                /\ (card[l] = NoUpdate \/ outranks(item[l].suggested_update, card[l]))
            BY <1>1, <5>1, <5>2 DEF attached, moved, Has
          <6>2. item[l].suggested_update # card[l]
            <7>1. card[l] # NoUpdate => ~outranks(card[l], card[l])
              <8>1. card[l] \in {NoUpdate} \cup Updates
                BY <1>2, <5>1 DEF Typed
              <8>2. card[l] # NoUpdate => card[l].confidence \in Nat
                BY <8>1, BoundsAreKnown DEF Updates, ChatUpdates, Update
              <8> QED BY <8>2 DEF outranks
            <7> QED BY <6>1, <7>1
          <6> QED BY <1>1, <4>1, <5>1, <5>2, <6>1, <6>2 DEF News
        <5>3. CASE l \notin attached
          <6>1. card'[l] = card[l]
            BY <1>1, <4>1, <5>1, <5>3
          <6> QED BY <1>1, <4>1, <5>1, <5>3, <6>1 DEF News
        <5> QED BY <5>2, <5>3
      <4>2. attached \subseteq prior
        BY DEF attached, moved
      <4> QED BY <1>2, <4>1, <4>2
    <3>2. /\ Carried \subseteq moved /\ moved \subseteq Suggested
          /\ Carried \subseteq Carried'
      <4>1. ASSUME NEW l \in Carried
            PROVE  l \in moved /\ card'[l] # NoUpdate
        <5>1. l \in Loops /\ l \in prior /\ card[l] # NoUpdate /\ Has(item, l)
          BY <1>1, <4>1, LoopsAreKnown DEF Carried, prior, IInv, LoopInv, CardKept
        <5> QED BY <1>1, <5>1 DEF moved, Has
      <4>2. moved \subseteq Suggested
        BY LoopsAreKnown DEF moved, Suggested, prior
      <4> QED BY <1>2, <4>1, <4>2 DEF Carried
    <3>3. Suggested \ prior = Suggested \ moved
      BY DEF moved, Suggested
    <3>4. /\ IsFiniteSet(Suggested) /\ IsFiniteSet(Carried) /\ IsFiniteSet(Carried')
          /\ IsFiniteSet(Suggested \ moved)
          /\ Cardinality(Suggested \ moved) = Cardinality(Suggested) - Cardinality(moved)
      <4>1. /\ Suggested \in SUBSET Loops /\ Carried \in SUBSET Loops
            /\ Carried' \in SUBSET Loops
        BY LoopsAreKnown DEF Suggested, Carried, prior
      <4>2. IsFiniteSet(Suggested) /\ IsFiniteSet(Carried) /\ IsFiniteSet(Carried')
        BY <4>1, BoundsAreKnown, FS_Subset
      <4>3. Suggested \cap moved = moved
        BY <3>2
      <4> QED BY <1>3, <4>2, <4>3, FS_Difference
    <3>5. /\ Cardinality(Carried) <= Cardinality(Carried')
          /\ Cardinality(Carried) \in Nat /\ Cardinality(Carried') \in Nat
          /\ Cardinality(attached) \in Nat /\ Cardinality(moved) \in Nat
          /\ Cardinality(Suggested) \in Nat /\ Cardinality(Suggested \ moved) \in Nat
      BY <1>3, <3>2, <3>4, FS_Subset, FS_CardinalityType
    <3>6. suggested_updates \in Nat
      BY <1>2 DEF Typed
    <3>7. PICK n, a, mo, su, ca, cb, ad :
            /\ n = suggested_updates /\ a = Cardinality(attached) /\ mo = Cardinality(moved)
            /\ su = Cardinality(Suggested) /\ ca = Cardinality(Carried)
            /\ cb = Cardinality(Carried') /\ ad = Cardinality(Suggested \ moved)
      OBVIOUS
    <3>8. /\ n \in Nat /\ a \in Nat /\ mo \in Nat /\ su \in Nat /\ ca \in Nat /\ cb \in Nat
          /\ ad \in Nat /\ ad = su - mo /\ ca <= cb /\ n + ca = su
      BY <2>2, <3>4, <3>5, <3>6, <3>7
    <3>9. suggested_updates' = monus(n, mo) + a
      BY <1>1, <3>7
    <3>10. /\ a <= suggested_updates' /\ suggested_updates' <= a + ad
           /\ a + ad <= suggested_updates' + cb
      BY <3>8, <3>9 DEF monus
    <3>11. /\ Cardinality({l \in prior : card[l].message \in fresh})' = a
           /\ Cardinality(Suggested \ prior)' = ad
      BY <1>2, <2>1, <3>1, <3>3, <3>7
    <3>12. incremental' /\ phase' = "done"
      BY <1>1, <1>2, <2>4
    <3> QED BY <3>7, <3>10, <3>11, <3>12 DEF CountsAreTrue
  <2> QED BY <1>2, <2>3, <2>4 DEF Typed, Settings
<1> QED BY <1>5, <1>6, <1>7, <1>8 DEF IInv

-------------------------------------------------------------------------------
(* The theorems. *)

\* A step in which nothing moves.
LEMMA StutterStep ==
  ASSUME IInv, UNCHANGED vars
  PROVE  IInv'
<1>1. UNCHANGED <<mail, incremental, fresh, decisive, phase, cancel, cancelled, walk,
                  skipped, escalated, chat_reach, handoffs, dates, item,
                  suggested_updates, card>>
  BY DEF vars
<1>2. Typed'
  BY <1>1 DEF IInv, Typed, Settings
<1>3. JobsHaveRounds' /\ NothingWalked' /\ CutsHaveCause' /\ prior' = prior
  BY <1>1 DEF IInv, JobsHaveRounds, NothingWalked, CutsHaveCause, prior
<1>4. ASSUME NEW l \in Loops
      PROVE  LoopInv(l)'
  BY <1>1, <1>3 DEF IInv, LoopInv, ClosedWalk, Past, Marks, PriorLoop, CardKept, ReachStops,
                    Final, Chased, Unexpired, FromUserReply, Has, News, DoubtEnds
<1>5. CountsAreTrue'
  BY <1>1, <1>3 DEF IInv, CountsAreTrue, Suggested, Carried, Has
<1> QED BY <1>2, <1>3, <1>4, <1>5 DEF IInv

\* The inductive invariant of the pass: closed walks are final, what is applied
\* is earlier than what is left, a prior card keeps its suggestion and the
\* counter follows (scan_decision_closures, closure_jobs, merge_scan).
THEOREM Invariance == Spec => []IInv
<1>1. Init => IInv
  BY InitIInv
<1>2. IInv /\ [Next]_vars => IInv'
  <2> SUFFICES ASSUME IInv, [Next]_vars PROVE IInv'
    OBVIOUS
  <2>1. CASE UserStops \/ ExpiryChoice \/ ExpiryEnds \/ StartRound \/ RoundCut
    BY <2>1, HaltingSteps, HaltingStep
  <2>2. CASE RoundAnswered
    BY <2>2, RoundStep
  <2>3. CASE HandoffRound
    BY <2>3, HandoffStep
  <2>4. CASE DateRound
    BY <2>4, DateStep
  <2>5. CASE Expire
    BY <2>5, ExpireStep
  <2>6. CASE ChatRound
    BY <2>6, ChatStep
  <2>7. CASE MergeScan
    BY <2>7, MergeStep
  <2>8. CASE UNCHANGED vars
    BY <2>8, StutterStep
  <2> QED BY <2>1, <2>2, <2>3, <2>4, <2>5, <2>6, <2>7, <2>8 DEF Next, Step
<1> QED BY <1>1, <1>2, PTL DEF Spec

\* Every variable of the pass has its type in every reachable state; the count
\* in particular never exceeds the number of loops.
THEOREM TypeCorrect == Spec => []TypeOK
<1>1. IInv => TypeOK
  <2> SUFFICES ASSUME IInv PROVE TypeOK
    OBVIOUS
  <2>1. Typed
    BY DEF IInv
  <2>2. ASSUME NEW l \in Loops
        PROVE  /\ walk[l].later \subseteq Messages
               /\ {walk[l].stopped, walk[l].closed, walk[l].event} \subseteq BOOLEAN
               /\ item[l].suggested_update \in {NoUpdate} \cup Updates
               /\ card[l] \in {NoUpdate} \cup Updates
               /\ {item[l].resolution, item[l].deadline} \subseteq {0} \cup Messages
               /\ item[l].restated \cup item[l].amended \subseteq Messages
               /\ item[l].resolution_kind \in {"None", "Completed", "Withdrawn"}
    <3>1. walk[l] \in Walks /\ item[l] \in Items /\ card[l] \in {NoUpdate} \cup Updates
      BY <2>1 DEF Typed
    <3>2. /\ walk[l].later \in SUBSET Messages
          /\ walk[l].stopped \in BOOLEAN /\ walk[l].closed \in BOOLEAN
          /\ walk[l].event \in BOOLEAN
      BY <3>1 DEF Walks
    <3> QED BY <3>1, <3>2, ItemParts
  <2>3. /\ phase \in Phases /\ cancel \in BOOLEAN /\ cancelled \in BOOLEAN
        /\ skipped \cup escalated \subseteq Loops
        /\ \A t \in Threads : chat_reach[t] \subseteq Loops
        /\ suggested_updates \in 0 .. Cardinality(Loops)
    BY <2>1 DEF Typed
  <2> QED BY <2>2, <2>3 DEF TypeOK, Phases
<1> QED BY <1>1, Invariance, PTL

\* A loop the waiting party closed stays as it was closed: no later message,
\* follow-up, expiry or chat answer touches it (the stopped and closed flags of
\* ClosureWalkLoop).
THEOREM ClosuresAreFinal == Spec => []ClosedIsFinal
<1>1. IInv => ClosedIsFinal
  <2> SUFFICES ASSUME IInv, NEW l \in Loops, item[l].resolution # 0
               PROVE  /\ ~Has(item, l) /\ ~item[l].passed
                      /\ \A t \in Threads : decisive => l \notin chat_reach[t]
                      /\ \A m \in {item[l].deadline} \cup item[l].restated \cup item[l].amended :
                           m < item[l].resolution
    BY DEF ClosedIsFinal
  <2> QED BY DEF IInv, LoopInv, Final
<1> QED BY <1>1, Invariance, PTL

\* What a step does to a loop in doubt.
DoubtStep(l) ==
  /\ l \in skipped \/ cancelled => Unmoved(l)
  /\ l \in escalated /\ phase # "chat" => Unmoved(l)
  /\ l \in (skipped' \cup escalated') \ (skipped \cup escalated) => Undecided(l)

\* An untouched card is unmoved and undecided.
LEMMA UntouchedCard ==
  ASSUME Typed, NEW l \in Loops, item'[l] = item[l]
  PROVE  Unmoved(l) /\ Undecided(l)
<1>1. item[l] \in Items
  BY DEF Typed
<1> QED BY <1>1 DEF Unmoved, Undecided, Items

\* The steps before the rounds, the merge and the user's stop touch no card.
LEMMA QuietSteps ==
  ASSUME IInv, Halting \/ MergeScan \/ UNCHANGED vars, NEW l \in Loops
  PROVE  DoubtStep(l)
<1>1. item'[l] = item[l] /\ Typed
  BY DEF IInv, Halting, MergeScan, vars
<1> QED BY <1>1, UntouchedCard DEF DoubtStep

\* A round reads no loop in doubt, and what puts one there decides nothing.
LEMMA RoundDoubt ==
  ASSUME IInv, RoundAnswered, NEW l \in Loops
  PROVE  DoubtStep(l)
<1>1. Answering /\ Typed /\ LoopInv(l)
  BY RoundShape DEF IInv
<1>2. CASE LeftAlone(l)
  <2>1. item'[l] = item[l]
    BY <1>2 DEF LeftAlone
  <2> QED BY <1>1, <2>1, UntouchedCard DEF DoubtStep
<1>3. ASSUME NEW m, NEW role, NEW effects, NEW c \in Confidences, NEW named \in BOOLEAN,
             ReadBy(l, m, role, effects, c, named)
      PROVE  DoubtStep(l)
  <2>1. ~cancelled /\ l \notin skipped \cup escalated
    BY <1>1, <1>3 DEF Answering, ReadBy, LoopInv, DoubtEnds
  <2>2. ASSUME l \in skipped' \cup escalated'
        PROVE  Undecided(l)
    <3>1. effects \subseteq {AskedAgain, Amended, NewDate}
      BY <1>3, <2>2 DEF ReadBy
    <3>2. PICK i, r : i = item[l] /\ r = item'[l]
      OBVIOUS
    <3>3. i \in Items /\ r = Affected(i, effects, m, c, named) /\ Lawful(role, effects)
      BY <1>1, <1>3, <3>2 DEF ReadBy, Typed
    <3>4. m \in Messages
      BY <1>1, <1>3, CurrentIsLeast DEF ReadBy
    <3>5. NotedBy(i, r, m, role) /\ r.deadline = i.deadline
      BY <3>1, <3>3, <3>4, AffectedShape
    <3> QED BY <3>2, <3>5 DEF NotedBy, Undecided
  <2> QED BY <2>1, <2>2 DEF DoubtStep
<1>4. \/ LeftAlone(l)
      \/ \E m, role, effects : \E c \in Confidences, named \in BOOLEAN :
           ReadBy(l, m, role, effects, c, named)
  BY RoundShape
<1> QED BY <1>2, <1>3, <1>4

\* Nor does a follow-up round.
LEMMA FollowUpDoubt ==
  ASSUME IInv, NEW l \in Loops, FollowedUp(l)
  PROVE  DoubtStep(l)
<1>1. Typed /\ LoopInv(l)
  BY DEF IInv
<1>2. l \in skipped \cup escalated \/ cancelled => item'[l] = item[l]
  BY <1>1 DEF FollowedUp, LoopInv, DoubtEnds
<1>3. l \in (skipped' \cup escalated') \ (skipped \cup escalated) => item'[l] = item[l]
  BY DEF FollowedUp
<1> QED BY <1>1, <1>2, <1>3, UntouchedCard DEF DoubtStep

\* Of a loop in doubt an expired event is noted, and the chat model's answer if
\* it was asked.
LEMMA EndDoubt ==
  ASSUME IInv, Expire \/ ChatRound, NEW l \in Loops
  PROVE  DoubtStep(l)
<1>1. Typed /\ skipped' = skipped /\ escalated' = escalated
  BY DEF IInv, Expire, ChatRound
<1>2. CASE Expire
  <2>1. item'[l] = item[l] \/ item'[l] = [item[l] EXCEPT !.passed = TRUE]
    BY <1>2 DEF Expire
  <2>2. item[l] \in Items
    BY <1>1 DEF Typed
  <2>3. Unmoved(l)
    BY <2>1, <2>2 DEF Unmoved, Items
  <2> QED BY <1>1, <2>3 DEF DoubtStep
<1>3. CASE ChatRound
  <2>1. ~cancelled /\ phase = "chat"
    BY <1>3 DEF IInv, CutsHaveCause, ChatRound
  <2>2. l \in skipped => item'[l] = item[l]
    BY <1>3, ChatStep
  <2> QED BY <1>1, <2>1, <2>2, UntouchedCard DEF DoubtStep
<1> QED BY <1>2, <1>3

\* Past a doubt nothing is applied: no later message changes the card of a loop
\* the walk skipped or put to the chat model, no answer counts after a cut, and
\* the message in doubt decides nothing (stop_walk_as_skipped,
\* record_walk_escalation and the breaks of scan_decision_closures).
THEOREM DoubtIsTheEnd == Spec => NothingPastDoubt
<1>1. IInv /\ [Next]_vars =>
        [\A l \in Loops :
             /\ l \in skipped \/ cancelled => Unmoved(l)
             /\ l \in escalated /\ phase # "chat" => Unmoved(l)
             /\ l \in (skipped' \cup escalated') \ (skipped \cup escalated) => Undecided(l)
        ]_vars
  <2> SUFFICES ASSUME IInv, [Next]_vars, NEW l \in Loops
               PROVE  DoubtStep(l)
    BY DEF DoubtStep
  <2>1. CASE UserStops \/ ExpiryChoice \/ ExpiryEnds \/ StartRound \/ RoundCut
    BY <2>1, HaltingSteps, QuietSteps
  <2>2. CASE RoundAnswered
    BY <2>2, RoundDoubt
  <2>3. CASE HandoffRound \/ DateRound
    <3>1. FollowedUp(l)
      BY <2>3, HandoffStep, DateStep
    <3> QED BY <3>1, FollowUpDoubt
  <2>4. CASE Expire \/ ChatRound
    BY <2>4, EndDoubt
  <2>5. CASE MergeScan \/ UNCHANGED vars
    BY <2>5, QuietSteps
  <2> QED BY <2>1, <2>2, <2>3, <2>4, <2>5 DEF Next, Step
<1> QED BY <1>1, Invariance, PTL DEF Spec, NothingPastDoubt

\* A card never suggests that the user's reply settled what the waiting party
\* has asked for again after it (the follow-up branch of apply_step_effects).
THEOREM ChasingOutlivesReplies == Spec => []ChasedIsNotDone
<1>1. IInv => ChasedIsNotDone
  <2> SUFFICES ASSUME IInv, decisive, phase \notin {"merge", "done"}, NEW l \in Loops,
                      NEW m \in Messages,
                      item[l].suggested_update.kind = "Closure", m \in item[l].restated,
                      mail[item[l].suggested_update.message].author = "user"
               PROVE  item[l].suggested_update.message > m
    BY DEF ChasedIsNotDone
  <2> QED BY DEF IInv, LoopInv, Chased, FromUserReply
<1> QED BY <1>1, Invariance, PTL

\* The number of suggestions reported is the number of cards with one, beside
\* those a check for new mail brought along.  At the end of such a check, where
\* the subtraction is cut off at zero, it is never too large, and too small by
\* no more than the prior cards had suggestions (take_prior_updates).
THEOREM TheCountIsTrue == Spec => []CountsAreTrue
<1>1. IInv => CountsAreTrue
  BY DEF IInv
<1> QED BY <1>1, Invariance, PTL
===============================================================================
