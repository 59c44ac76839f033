---------------------- MODULE ReminderLifecycle_proofs ----------------------
(***************************************************************************)
(* Proofs about ReminderLifecycle, for every set of windows and loops,     *)
(* every limit of the store and every number of moves.                     *)
(*                                                                         *)
(* The argument is a budget.  A token of loop k is a task that exists, a   *)
(* post nobody waits for any more, or a window whose job may still post.   *)
(* A loop never holds more than one token, plus one for every time the     *)
(* user answered that no task was created; and while its stored record     *)
(* reads "None", which is what lets a window attempt again, it holds one   *)
(* less.  An attempt pays for its token by leaving "None"; a job that puts *)
(* "None" back gives its own token up.                                     *)
(***************************************************************************)
EXTENDS ReminderLifecycle, FiniteSetTheorems, TLAPS

\* A window's memory is what it last read or wrote.
Synced == records = previous

NothingStored == ~credential.exists => credential.store = Empty

\* The job of window w may still post a task for k.
Pledged(w, k) ==
    /\ job[w].kind = "create"
    /\ job[w].key = k
    /\ job[w].phase \in {"dispatch", "prepare", "posted"}

Pledges(k) == {w \in Windows : Pledged(w, k)}

Tokens(k) == made[k] + late[k] + Cardinality(Pledges(k))

Stored(k) == credential.store[k].reminder

Within(k) ==
    /\ Tokens(k) <= 1 + denied[k]
    /\ Stored(k) = "None" => Tokens(k) <= denied[k]

Budget == \A k \in Keys : Within(k)

MadeExists == \A w \in Windows : In(w, "create", "made") => made[job[w].key] > 0

FoundIsCompleted == \A w \in Windows : job[w].found \subseteq completed

IInv ==
    /\ TypeOK
    /\ Synced
    /\ NothingStored
    /\ Budget
    /\ MadeExists
    /\ FoundIsCompleted
    /\ StoreTellsTheTruth

-----------------------------------------------------------------------------
(* Typing. *)

\* The placeholder key of an empty draft or job is a key.
LEMMA AnyKeyType == AnyKey \in Keys
    BY KeysExist DEF AnyKey

\* The placeholders have their types.
LEMMA NoneTypes ==
    /\ NoDraft \in [open : BOOLEAN, key : Keys, prior : Decisions]
    /\ NoJob \in Jobs
    /\ Empty \in Stores
    BY AnyKeyType DEF NoDraft, NoJob, Jobs, Empty, Stores, Records, Default, Decisions

\* What an update stores is a record.
LEMMA RecordType ==
    ASSUME NEW decision \in Decisions, NEW reminder \in Reminders
    PROVE  Record(decision, reminder) \in Records
    BY DEF Record, Records

\* The fields of a record have their types, the default's too.
LEMMA RecordFields ==
    ASSUME NEW r \in Records
    PROVE  r.saved \in BOOLEAN /\ r.decision \in Decisions /\ r.reminder \in Reminders
           /\ r.aged \in BOOLEAN
<1>1. CASE r = Default
    BY <1>1 DEF Default, Decisions, Reminders
<1>2. CASE r \in [saved : {TRUE}, decision : Decisions, reminder : Reminders, aged : BOOLEAN]
    BY <1>2
<1> QED BY <1>1, <1>2 DEF Records

\* Dropping expired records and putting one in gives a store again.
LEMMA PutType ==
    ASSUME NEW store \in Stores, NEW k \in Keys, NEW r \in Records
    PROVE  Put(store, k, r) \in Stores
    BY DEF Put, Pruned, Stores, Records, Default

\* A credential is typed when its store is.
LEMMA CredentialType ==
    ASSUME NEW exists \in BOOLEAN, NEW store \in Stores
    PROVE  [exists |-> exists, store |-> store] \in [exists : BOOLEAN, store : Stores]
    OBVIOUS

\* An update keeps the types, whatever its result.
LEMMA UpdateTypes ==
    ASSUME TypeOK, NEW w \in Windows, NEW k \in Keys, NEW r \in Records,
           NEW result \in SaveResults, Update(w, k, r, result)
    PROVE  /\ credential' \in [exists : BOOLEAN, store : Stores]
           /\ records' \in [Windows -> Stores]
           /\ previous' \in [Windows -> Stores]
           /\ error' \in [Windows -> BOOLEAN]
<1>1. Put(records[w], k, r) \in Stores
    BY PutType DEF TypeOK
<1>2. [exists |-> TRUE, store |-> Put(records[w], k, r)] \in [exists : BOOLEAN, store : Stores]
    BY <1>1, CredentialType
<1>3. credential' \in [exists : BOOLEAN, store : Stores]
    BY <1>2 DEF Update, Unsaved, TypeOK
<1>4. records' = [records EXCEPT ![w] = Put(records[w], k, r)] \/ UNCHANGED records
    BY DEF Update, Unsaved
<1>5. previous' = [previous EXCEPT ![w] = Put(records[w], k, r)] \/ UNCHANGED previous
    BY DEF Update, Unsaved
<1>6. error' = [error EXCEPT ![w] = TRUE] \/ UNCHANGED error
    BY DEF Update
<1>7. records \in [Windows -> Stores] /\ previous \in [Windows -> Stores] /\ error \in [Windows -> BOOLEAN]
    BY DEF TypeOK
<1>8. records' \in [Windows -> Stores] /\ previous' \in [Windows -> Stores]
    BY <1>1, <1>4, <1>5, <1>7
<1>9. error' \in [Windows -> BOOLEAN]
    BY <1>6, <1>7
<1> QED BY <1>3, <1>8, <1>9

\* What a window remembers of a loop, with another reminder state, is a record.
LEMMA RememberedType ==
    ASSUME TypeOK, NEW w \in Windows, NEW k \in Keys, NEW reminder \in Reminders
    PROVE  Remembered(w, k, reminder) \in Records
<1>1. records[w][k] \in Records
    BY DEF TypeOK, Stores
<1>2. records[w][k].decision \in Decisions
    BY <1>1, RecordFields
<1> QED BY <1>2, RecordType DEF Remembered

\* Any job's fields are typed.
LEMMA JobFields ==
    ASSUME TypeOK, NEW w \in Windows
    PROVE  /\ job[w].key \in Keys /\ job[w].found \subseteq Keys
           /\ job[w].cached \in BOOLEAN /\ job[w] \in Jobs
           /\ draft[w].key \in Keys /\ draft[w].open \in BOOLEAN
           /\ draft[w].prior \in Decisions
    BY DEF TypeOK, Jobs

Phases == {"none", "dispatch", "prepare", "posted", "made", "refused", "sent", "read", "apply"}

\* A job stays typed when one of its fields moves.
LEMMA JobMoves ==
    ASSUME job \in [Windows -> Jobs], NEW w \in Windows
    PROVE  /\ \A phase \in Phases : [job EXCEPT ![w].phase = phase] \in [Windows -> Jobs]
           /\ [job EXCEPT ![w].cached = FALSE] \in [Windows -> Jobs]
           /\ \A found \in SUBSET Keys : [job EXCEPT ![w].found = found] \in [Windows -> Jobs]
           /\ \A next \in Jobs : [job EXCEPT ![w] = next] \in [Windows -> Jobs]
<1>1. \A phase \in Phases : [job EXCEPT ![w].phase = phase] \in [Windows -> Jobs]
    BY DEF Jobs, Phases
<1>2. [job EXCEPT ![w].cached = FALSE] \in [Windows -> Jobs]
    BY DEF Jobs
<1>3. \A found \in SUBSET Keys : [job EXCEPT ![w].found = found] \in [Windows -> Jobs]
    BY DEF Jobs
<1>4. \A next \in Jobs : [job EXCEPT ![w] = next] \in [Windows -> Jobs]
    OBVIOUS
<1> QED BY <1>1, <1>2, <1>3, <1>4

\* Conclude keeps the types.
LEMMA ConcludeTypes ==
    ASSUME TypeOK, NEW w \in Windows, NEW reminder \in Reminders, Conclude(w, reminder)
    PROVE  /\ credential' \in [exists : BOOLEAN, store : Stores]
           /\ records' \in [Windows -> Stores]
           /\ previous' \in [Windows -> Stores]
           /\ error' \in [Windows -> BOOLEAN]
           /\ job' \in [Windows -> Jobs]
<1>1. job[w].key \in Keys
    BY JobFields
<1>2. Remembered(w, job[w].key, reminder) \in Records
    BY <1>1, RememberedType
<1>3. PICK result \in SaveResults : Update(w, job[w].key, Remembered(w, job[w].key, reminder), result)
    BY DEF Conclude
<1>4. job' \in [Windows -> Jobs]
    BY NoneTypes DEF Conclude, TypeOK
<1> QED BY <1>1, <1>2, <1>3, <1>4, UpdateTypes

\* Orphaned counts one more post under way, or none.
LEMMA OrphanedType ==
    ASSUME TypeOK, NEW w \in Windows, Orphaned(w)
    PROVE  late' \in [Keys -> Nat]
    BY JobFields DEF Orphaned, TypeOK

\* A loop without a stored record has none to age.
LEMMA DefaultStays == [Default EXCEPT !.aged = Default.saved] = Default
<1> DEFINE Only == [saved : {FALSE}, decision : {"Review"}, reminder : {"None"}, aged : {FALSE}]
<1>1. Default \in Only
    BY DEF Default
<1>2. [Default EXCEPT !.aged = Default.saved] \in Only
    BY <1>1
<1>3. ASSUME NEW r \in Only
      PROVE  r = [saved |-> FALSE, decision |-> "Review", reminder |-> "None", aged |-> FALSE]
    OBVIOUS
<1>4. Default = [saved |-> FALSE, decision |-> "Review", reminder |-> "None", aged |-> FALSE]
    BY DEF Default
<1> QED BY <1>2, <1>3, <1>4

\* Ageing a store keeps its records.
LEMMA AgeType ==
    ASSUME NEW store \in Stores
    PROVE  [k \in Keys |-> [store[k] EXCEPT !.aged = store[k].saved]] \in Stores
<1>1. SUFFICES ASSUME NEW k \in Keys
               PROVE  [store[k] EXCEPT !.aged = store[k].saved] \in Records
    BY DEF Stores
<1>2. CASE store[k] = Default
    BY <1>2, DefaultStays DEF Records
<1>3. CASE store[k] \in [saved : {TRUE}, decision : Decisions, reminder : Reminders, aged : BOOLEAN]
    BY <1>3 DEF Records
<1>4. store[k] = Default \/ store[k] \in [saved : {TRUE}, decision : Decisions, reminder : Reminders, aged : BOOLEAN]
    BY DEF Stores, Records
<1> QED BY <1>2, <1>3, <1>4

\* The initial state is typed.
LEMMA InitTypes == Init => TypeOK
    BY NoneTypes, ActionsAssumption DEF Init, TypeOK

\* Opening, closing and losing a window keep the types.
LEMMA StoreTypes ==
    ASSUME TypeOK, NEW w \in Windows, Store(w)
    PROVE  TypeOK'
<1> USE NoneTypes, ActionsAssumption DEF Act, world, window
<1>1. CASE OpenStore(w) BY <1>1 DEF OpenStore, TypeOK
<1>2. CASE OpenUnreadable(w) BY <1>2 DEF OpenUnreadable, TypeOK
<1>3. CASE FirstSave(w)
    <2>1. [exists |-> TRUE, store |-> Empty] \in [exists : BOOLEAN, store : Stores]
        BY NoneTypes, CredentialType
    <2>2. credential' \in [exists : BOOLEAN, store : Stores]
        BY <1>3, <2>1 DEF FirstSave, TypeOK
    <2> QED BY <1>3, <2>2 DEF FirstSave, TypeOK
<1>4. CASE Exit(w) BY <1>4, OrphanedType DEF Exit, TypeOK
<1>5. CASE WorkerPanics(w) BY <1>5, OrphanedType DEF WorkerPanics, TypeOK
<1> QED BY <1>1, <1>2, <1>3, <1>4, <1>5 DEF Store

\* The record a window remembers has typed fields.
LEMMA MemoryFields ==
    ASSUME TypeOK, NEW w \in Windows, NEW k \in Keys
    PROVE  /\ records[w][k] \in Records
           /\ records[w][k].decision \in Decisions
           /\ records[w][k].reminder \in Reminders
    BY RecordFields DEF TypeOK, Stores

\* A decision and every move of the draft keep the types.
LEMMA UserTypes ==
    ASSUME TypeOK, NEW w \in Windows, User(w)
    PROVE  TypeOK'
<1> USE NoneTypes, ActionsAssumption DEF Act, world
<1>1. ASSUME NEW k \in Keys, NEW d \in OfferedDecisions, Decide(w, k, d)
      PROVE  TypeOK'
    <2>1. PICK result \in SaveResults :
              /\ Update(w, k, Record(d, records[w][k].reminder), result)
              /\ CloseTerminalDraft(w, k, d, result)
        BY <1>1 DEF Decide
    <2>2. Record(d, records[w][k].reminder) \in Records
        BY MemoryFields, RecordType, OfferedAssumption
    <2>3. draft' \in [Windows -> [open : BOOLEAN, key : Keys, prior : Decisions]]
        BY <2>1 DEF CloseTerminalDraft, TypeOK
    <2>4. Job("complete", k, "prepare", FALSE) \in Jobs
        BY DEF Job, Jobs
    <2>5. job' \in [Windows -> Jobs]
        BY <1>1, <2>4 DEF Decide, TypeOK
    <2>6. /\ credential' \in [exists : BOOLEAN, store : Stores]
          /\ records' \in [Windows -> Stores]
          /\ previous' \in [Windows -> Stores]
          /\ error' \in [Windows -> BOOLEAN]
        BY <2>1, <2>2, UpdateTypes
    <2>7. UNCHANGED <<up, world>> /\ actions' \in 0..MaxActions
        BY <1>1 DEF Decide, TypeOK
    <2> QED BY <2>3, <2>5, <2>6, <2>7 DEF TypeOK
<1>2. ASSUME NEW k \in Keys, OpenReminder(w, k)
      PROVE  TypeOK'
    <2> DEFINE kept == decision_after_setting_reminder(records[w][k].decision)
    <2>1. PICK result \in SaveResults : Update(w, k, Record(kept, "None"), result)
        BY <1>2 DEF OpenReminder
    <2>2. Record(kept, "None") \in Records
        BY RecordType DEF decision_after_setting_reminder, Decisions, Reminders
    <2>3. [open |-> TRUE, key |-> k, prior |-> records[w][k].decision]
              \in [open : BOOLEAN, key : Keys, prior : Decisions]
        BY MemoryFields
    <2> QED BY <1>2, <2>1, <2>2, <2>3, UpdateTypes DEF OpenReminder, TypeOK
<1>3. CASE CancelReminder(w)
    <2>1. draft[w].key \in Keys
        BY JobFields
    <2>2. Record("Review", records[w][draft[w].key].reminder) \in Records
        BY <2>1, MemoryFields, RecordType DEF Decisions
    <2>3. \/ \E result \in SaveResults :
                Update(w, draft[w].key, Record("Review", records[w][draft[w].key].reminder), result)
          \/ Unsaved(w) /\ UNCHANGED error
        BY <1>3 DEF CancelReminder
    <2>4. /\ credential' \in [exists : BOOLEAN, store : Stores]
          /\ records' \in [Windows -> Stores]
          /\ previous' \in [Windows -> Stores]
          /\ error' \in [Windows -> BOOLEAN]
        BY <2>1, <2>2, <2>3, UpdateTypes DEF Unsaved, TypeOK
    <2>5. draft' \in [Windows -> [open : BOOLEAN, key : Keys, prior : Decisions]]
        BY <1>3 DEF CancelReminder, TypeOK
    <2>6. UNCHANGED <<up, job, world>> /\ actions' \in 0..MaxActions
        BY <1>3 DEF CancelReminder, TypeOK
    <2> QED BY <2>4, <2>5, <2>6 DEF TypeOK
<1>4. CASE CreateReminder(w)
    <2>1. draft[w].key \in Keys
        BY JobFields
    <2>2. Remembered(w, draft[w].key, "Attempted") \in Records
        BY <2>1, RememberedType DEF Reminders
    <2>3. PICK result \in SaveResults, cached \in BOOLEAN :
              /\ Update(w, draft[w].key, Remembered(w, draft[w].key, "Attempted"), result)
              /\ IF result = "ok"
                 THEN /\ draft' = [draft EXCEPT ![w] = NoDraft]
                      /\ job' = [job EXCEPT ![w] = Job("create", draft[w].key, "dispatch", cached)]
                 ELSE UNCHANGED <<draft, job>>
        BY <1>4 DEF CreateReminder
    <2>4. Job("create", draft[w].key, "dispatch", cached) \in Jobs
        BY <2>1 DEF Job, Jobs
    <2>5. job' \in [Windows -> Jobs]
        BY <2>3, <2>4, JobMoves DEF TypeOK
    <2>6. draft' \in [Windows -> [open : BOOLEAN, key : Keys, prior : Decisions]]
        BY <2>3 DEF TypeOK
    <2> QED BY <1>4, <2>1, <2>2, <2>5, <2>6, UpdateTypes DEF CreateReminder, TypeOK
<1>5. ASSUME NEW k \in Keys, NEW exists \in BOOLEAN, Reconcile(w, k, exists)
      PROVE  TypeOK'
    <2> DEFINE reminder == IF exists THEN "CreatedNoIds" ELSE "None"
    <2>1. PICK result \in SaveResults :
              /\ Update(w, k, Remembered(w, k, reminder), result)
              /\ CloseTerminalDraft(w, k, records[w][k].decision, result)
              /\ denied' = IF exists \/ result # "ok" THEN denied ELSE [denied EXCEPT ![k] = @ + 1]
        BY <1>5 DEF Reconcile
    <2>2. Remembered(w, k, reminder) \in Records
        BY RememberedType DEF Reminders
    <2>3. draft' \in [Windows -> [open : BOOLEAN, key : Keys, prior : Decisions]]
        BY <2>1 DEF CloseTerminalDraft, TypeOK
    <2>4. denied' \in [Keys -> Nat]
        BY <2>1 DEF TypeOK
    <2> QED BY <1>5, <2>1, <2>2, <2>3, <2>4, UpdateTypes DEF Reconcile, TypeOK
<1> QED BY <1>1, <1>2, <1>3, <1>4, <1>5 DEF User

\* The steps of a creating job keep the types.
LEMMA CreateTypes ==
    ASSUME TypeOK, NEW w \in Windows, Create(w)
    PROVE  TypeOK'
<1> USE DEF world
<1>1. CASE DispatchFails(w) \/ NotCreated(w) \/ Created(w)
    <2>1. \E reminder \in Reminders : Conclude(w, reminder)
        BY <1>1 DEF DispatchFails, NotCreated, Created, Reminders
    <2> QED BY <1>1, <2>1, ConcludeTypes DEF DispatchFails, NotCreated, Created, TypeOK
<1>2. CASE Dispatch(w)
    <2>1. job' \in [Windows -> Jobs]
        BY <1>2, JobMoves DEF Dispatch, TypeOK, Phases
    <2> QED BY <1>2, <2>1, JobFields DEF Dispatch, TypeOK
<1>3. CASE Reauthorize(w)
    <2>1. job' \in [Windows -> Jobs]
        BY <1>3, JobMoves DEF Reauthorize, TypeOK, Phases
    <2> QED BY <1>3, <2>1, JobFields DEF Reauthorize, TypeOK
<1>4. CASE Post(w)
    <2>1. job' \in [Windows -> Jobs]
        BY <1>4, JobMoves DEF Post, TypeOK, Phases
    <2> QED BY <1>4, <2>1, JobFields DEF Post, TypeOK
<1>5. CASE ProviderCreates(w)
    <2>1. job' \in [Windows -> Jobs]
        BY <1>5, JobMoves DEF ProviderCreates, TypeOK, Phases
    <2> QED BY <1>5, <2>1, JobFields DEF ProviderCreates, TypeOK
<1>6. CASE ProviderRefuses(w)
    <2>1. job' \in [Windows -> Jobs]
        BY <1>6, JobMoves DEF ProviderRefuses, TypeOK, Phases
    <2> QED BY <1>6, <2>1, JobFields DEF ProviderRefuses, TypeOK
<1>7. CASE Uncertain(w)
    <2>1. records[w][job[w].key].reminder \in Reminders
        BY JobFields, MemoryFields
    <2> QED BY <1>7, <2>1, ConcludeTypes, OrphanedType DEF Uncertain, TypeOK
<1> QED BY <1>1, <1>2, <1>3, <1>4, <1>5, <1>6, <1>7 DEF Create

\* Completing a task and reading its status keep the types.
LEMMA FinishTypes ==
    ASSUME TypeOK, NEW w \in Windows, Finish(w)
    PROVE  TypeOK'
<1> USE NoneTypes, ActionsAssumption DEF Act, world
<1>1. CASE SendPatch(w)
    <2>1. job' \in [Windows -> Jobs]
        BY <1>1, JobMoves DEF SendPatch, TypeOK, Phases
    <2> QED BY <1>1, <2>1, JobFields DEF SendPatch, TypeOK
<1>2. CASE CompletionEnds(w) BY <1>2 DEF CompletionEnds, TypeOK
<1>3. CASE StartSync(w)
    <2>1. Job("sync", AnyKey, "read", FALSE) \in Jobs
        BY AnyKeyType DEF Job, Jobs
    <2>2. job' \in [Windows -> Jobs]
        BY <1>3, <2>1, JobMoves DEF StartSync, TypeOK
    <2>3. UNCHANGED <<credential, up, records, previous, error, draft, world>>
          /\ actions' \in 0..MaxActions
        BY <1>3 DEF StartSync, TypeOK
    <2> QED BY <2>2, <2>3 DEF TypeOK
<1>4. CASE ReadStatus(w)
    <2>1. PICK found \in SUBSET {k \in completed : SyncEligible(records[w][k])} :
              job' = [job EXCEPT ![w] = [@ EXCEPT !.phase = "apply", !.found = found]]
        BY <1>4 DEF ReadStatus
    <2>2. found \subseteq Keys
        BY DEF TypeOK
    <2>3. [job[w] EXCEPT !.phase = "apply", !.found = found] \in Jobs
        BY <2>2, JobFields DEF Jobs
    <2> QED BY <1>4, <2>1, <2>3 DEF ReadStatus, TypeOK
<1>5. CASE SyncEnds(w) BY <1>5 DEF SyncEnds, TypeOK
<1>6. ASSUME NEW k \in Keys, ApplyStatus(w, k)
      PROVE  TypeOK'
    <2>1. \/ \E result \in SaveResults : Update(w, k, Record("Done", "Completed"), result)
          \/ Unsaved(w) /\ UNCHANGED error
        BY <1>6 DEF ApplyStatus
    <2>2. Record("Done", "Completed") \in Records
        BY RecordType DEF Decisions, Reminders
    <2>3. /\ credential' \in [exists : BOOLEAN, store : Stores]
          /\ records' \in [Windows -> Stores]
          /\ previous' \in [Windows -> Stores]
          /\ error' \in [Windows -> BOOLEAN]
        BY <2>1, <2>2, UpdateTypes DEF Unsaved, TypeOK
    <2>4. job' \in [Windows -> Jobs]
        BY <1>6 DEF ApplyStatus, TypeOK, Jobs
    <2> QED BY <1>6, <2>3, <2>4 DEF ApplyStatus, TypeOK
<1> QED BY <1>1, <1>2, <1>3, <1>4, <1>5, <1>6 DEF Finish

\* What happens at the provider, and the clock, keep the types.
LEMMA ElsewhereTypes ==
    ASSUME TypeOK, Elsewhere
    PROVE  TypeOK'
<1> USE ActionsAssumption DEF Act, world, window
<1>1. ASSUME NEW k \in Keys, LatePost(k)
      PROVE  TypeOK'
    BY <1>1 DEF LatePost, TypeOK
<1>2. ASSUME NEW k \in Keys, PatchArrives(k)
      PROVE  TypeOK'
    BY <1>2 DEF PatchArrives, TypeOK
<1>3. ASSUME NEW k \in Keys, CompletedOutside(k)
      PROVE  TypeOK'
    BY <1>3 DEF CompletedOutside, TypeOK
<1>4. CASE TimePasses
    <2> DEFINE Age(store) == [k \in Keys |-> [store[k] EXCEPT !.aged = store[k].saved]]
    <2>1. /\ credential' = [credential EXCEPT !.store = Age(@)]
          /\ records' = [w \in Windows |-> Age(records[w])]
          /\ previous' = [w \in Windows |-> Age(previous[w])]
        BY <1>4 DEF TimePasses
    <2>2. \A store \in Stores : Age(store) \in Stores
        BY AgeType
    <2> HIDE DEF Age
    <2>3. credential' \in [exists : BOOLEAN, store : Stores]
        BY <2>1, <2>2 DEF TypeOK
    <2>4. records' \in [Windows -> Stores] /\ previous' \in [Windows -> Stores]
        BY <2>1, <2>2 DEF TypeOK
    <2> QED BY <1>4, <2>3, <2>4 DEF TimePasses, TypeOK
<1> QED BY <1>1, <1>2, <1>3, <1>4 DEF Elsewhere

\* Every step keeps the types.
LEMMA StepTypes == TypeOK /\ [Next]_vars => TypeOK'
<1> SUFFICES ASSUME TypeOK, [Next]_vars PROVE TypeOK'
    OBVIOUS
<1>1. CASE UNCHANGED vars
    BY <1>1 DEF vars, window, world, TypeOK
<1> QED BY <1>1, StoreTypes, UserTypes, CreateTypes, FinishTypes, ElsewhereTypes DEF Next

\* TypeOK, for every number of windows and loops: every variable keeps its type.
THEOREM TypeCorrect == Spec => []TypeOK
<1>1. Init => TypeOK
    BY InitTypes
<1>2. TypeOK /\ [Next]_vars => TypeOK'
    BY StepTypes
<1> QED BY <1>1, <1>2, PTL DEF Spec

-----------------------------------------------------------------------------
(* The store: what a save changes. *)

\* A save left the credential alone, or put r in for k.
SavesAs(k, r) ==
    \/ UNCHANGED credential
    \/ /\ credential.exists /\ credential'.exists
       /\ credential'.store = Put(credential.store, k, r)

\* The compare in `save`: what a window overwrites is what it remembers.
LEMMA UpdateStores ==
    ASSUME TypeOK, Synced, NEW w \in Windows, NEW k \in Keys, NEW r,
           NEW result \in SaveResults, Update(w, k, r, result)
    PROVE  /\ SavesAs(k, r)
           /\ records' = previous'
           /\ result = "ok" => /\ credential.store = records[w]
                               /\ credential'.store = Put(credential.store, k, r)
           /\ result # "ok" => UNCHANGED credential
<1>1. CASE result = "ok"
    <2>1. /\ credential = [exists |-> TRUE, store |-> previous[w]]
          /\ credential' = [exists |-> TRUE, store |-> Put(records[w], k, r)]
          /\ records' = [records EXCEPT ![w] = Put(records[w], k, r)]
          /\ previous' = [previous EXCEPT ![w] = Put(records[w], k, r)]
        BY <1>1 DEF Update
    <2>2. credential.exists /\ credential'.exists
        BY <2>1
    <2>3. credential.store = records[w] /\ credential'.store = Put(credential.store, k, r)
        BY <2>1 DEF Synced
    <2>4. records' = previous'
        BY <2>1 DEF Synced
    <2> QED BY <1>1, <2>2, <2>3, <2>4 DEF SavesAs
<1>2. CASE result # "ok"
    BY <1>2 DEF Update, Unsaved, SavesAs, Synced
<1> QED BY <1>1, <1>2

\* Putting a record in for k keeps what the store says about every other loop.
LEMMA PutKeeps ==
    ASSUME NEW store \in Stores, NEW k \in Keys, NEW r, NEW j \in Keys
    PROVE  /\ Put(store, k, r)[k] = r
           /\ j # k => /\ Put(store, k, r)[j].reminder = store[j].reminder
                       /\ Keeps(store[j], Put(store, k, r)[j])
<1>1. Put(store, k, r)[k] = r
    BY DEF Put, Pruned
<1>2. j # k => Put(store, k, r)[j] = IF Expired(store[j]) THEN Default ELSE store[j]
    BY DEF Put, Pruned
<1>3. Expired(store[j]) => store[j].reminder = Default.reminder
    BY DEF Expired, Default
<1> QED BY <1>1, <1>2, <1>3 DEF Keeps

\* A save moves one loop's reminder, and keeps the rest.
LEMMA SaveKeeps ==
    ASSUME TypeOK, NEW k \in Keys, NEW r, SavesAs(k, r), NEW j \in Keys
    PROVE  /\ j # k => Stored(j)' = Stored(j) /\ Keeps(credential.store[j], credential'.store[j])
           /\ Stored(k)' = Stored(k) \/ Stored(k)' = r.reminder
<1>1. CASE UNCHANGED credential
    BY <1>1 DEF Stored, Keeps
<1>2. CASE credential'.store = Put(credential.store, k, r)
    <2>1. credential.store \in Stores
        BY DEF TypeOK
    <2> QED BY <1>2, <2>1, PutKeeps DEF Stored
<1> QED BY <1>1, <1>2 DEF SavesAs

\* Every step that is not a save leaves every reminder as it was.
NoSave == \A j \in Keys : Stored(j)' = Stored(j) /\ Keeps(credential.store[j], credential'.store[j])

\* The steps that do not go through Update save nothing.
LEMMA OtherStores ==
    ASSUME TypeOK, NothingStored, UNCHANGED credential
    PROVE  NoSave
    BY DEF NoSave, Stored, Keeps

\* The first save only finds an empty store.
LEMMA FirstSaveStores ==
    ASSUME TypeOK, NothingStored, NEW w \in Windows, FirstSave(w)
    PROVE  NoSave
<1>1. credential'.store = credential.store
    BY DEF FirstSave, NothingStored
<1> QED BY <1>1 DEF NoSave, Stored, Keeps

\* The clock ages records and keeps what they say.
LEMMA TimeStores ==
    ASSUME TypeOK, TimePasses
    PROVE  NoSave
<1>1. credential'.store = [k \in Keys |-> [credential.store[k] EXCEPT !.aged = credential.store[k].saved]]
    BY DEF TimePasses, TypeOK
<1>2. ASSUME NEW j \in Keys
      PROVE  Stored(j)' = Stored(j) /\ Keeps(credential.store[j], credential'.store[j])
    <2>1. credential.store[j] \in Records
        BY DEF TypeOK, Stores
    <2>2. CASE credential.store[j] = Default
        <3>1. credential'.store[j] = credential.store[j]
            BY <1>1, <2>2, DefaultStays
        <3> QED BY <3>1 DEF Stored, Keeps
    <2>3. CASE credential.store[j] # Default
        <3>1. credential.store[j] \in [saved : {TRUE}, decision : Decisions, reminder : Reminders, aged : BOOLEAN]
            BY <2>1, <2>3 DEF Records
        <3>2. /\ credential'.store[j].reminder = credential.store[j].reminder
              /\ credential'.store[j].decision = credential.store[j].decision
            <4>1. credential'.store[j] = [credential.store[j] EXCEPT !.aged = credential.store[j].saved]
                BY <1>1
            <4>2. \A r \in [saved : {TRUE}, decision : Decisions, reminder : Reminders, aged : BOOLEAN] :
                      /\ [r EXCEPT !.aged = r.saved].reminder = r.reminder
                      /\ [r EXCEPT !.aged = r.saved].decision = r.decision
                OBVIOUS
            <4> QED BY <3>1, <4>1, <4>2
        <3> QED BY <3>2 DEF Stored, Keeps
    <2> QED BY <2>2, <2>3 DEF Stored, Keeps
<1> QED BY <1>2 DEF NoSave

\* The moves of the store and of the windows' memory are one.
LEMMA StoreStep ==
    ASSUME TypeOK, Synced, NothingStored, Next
    PROVE  /\ Synced' /\ NothingStored'
           /\ NoSave \/ \E k \in Keys : \E r \in Records : SavesAs(k, r)
<1> USE DEF world, window
<1>1. ASSUME NEW w \in Windows, NEW k \in Keys, NEW r \in Records, NEW result \in SaveResults,
             Update(w, k, r, result)
      PROVE  /\ Synced' /\ NothingStored'
             /\ \E j \in Keys : \E q \in Records : SavesAs(j, q)
    <2>1. SavesAs(k, r) /\ records' = previous'
        BY <1>1, UpdateStores
    <2> QED BY <2>1 DEF SavesAs, Synced, NothingStored
<1>2. ASSUME records' = previous', UNCHANGED credential
      PROVE  Synced' /\ NothingStored' /\ NoSave
    BY <1>2, OtherStores DEF Synced, NothingStored
<1>3. ASSUME NEW w \in Windows, Store(w)
      PROVE  Synced' /\ NothingStored' /\ NoSave
    <2>1. CASE FirstSave(w)
        <3>1. Synced'
            BY <2>1 DEF FirstSave, Synced
        <3>2. UNCHANGED credential \/ credential' = [exists |-> TRUE, store |-> Empty]
            BY <2>1 DEF FirstSave
        <3> QED BY <2>1, <3>1, <3>2, FirstSaveStores DEF NothingStored
    <2>2. CASE OpenStore(w) \/ OpenUnreadable(w) \/ Exit(w) \/ WorkerPanics(w)
        BY <1>2, <2>2 DEF OpenStore, OpenUnreadable, Exit, WorkerPanics, Synced
    <2> QED BY <1>3, <2>1, <2>2 DEF Store
<1>4. ASSUME NEW w \in Windows, User(w)
      PROVE  \/ UNCHANGED <<credential, records, previous>>
             \/ \E k \in Keys : \E r \in Records : \E result \in SaveResults : Update(w, k, r, result)
    <2>1. ASSUME NEW k \in Keys, NEW d \in OfferedDecisions, Decide(w, k, d)
          PROVE  \E r \in Records : \E result \in SaveResults : Update(w, k, r, result)
        <3>1. Record(d, records[w][k].reminder) \in Records
            BY MemoryFields, RecordType, OfferedAssumption
        <3> QED BY <2>1, <3>1 DEF Decide
    <2>2. ASSUME NEW k \in Keys, OpenReminder(w, k)
          PROVE  \E r \in Records : \E result \in SaveResults : Update(w, k, r, result)
        <3>1. Record(decision_after_setting_reminder(records[w][k].decision), "None") \in Records
            BY RecordType DEF decision_after_setting_reminder, Decisions, Reminders
        <3> QED BY <2>2, <3>1 DEF OpenReminder
    <2>3. ASSUME CancelReminder(w)
          PROVE  \/ UNCHANGED <<credential, records, previous>>
                 \/ \E r \in Records : \E result \in SaveResults : Update(w, draft[w].key, r, result)
        <3>1. Record("Review", records[w][draft[w].key].reminder) \in Records
            BY JobFields, MemoryFields, RecordType DEF Decisions
        <3> QED BY <2>3, <3>1 DEF CancelReminder, Unsaved
    <2>4. ASSUME CreateReminder(w)
          PROVE  \E r \in Records : \E result \in SaveResults : Update(w, draft[w].key, r, result)
        <3>1. Remembered(w, draft[w].key, "Attempted") \in Records
            BY JobFields, RememberedType DEF Reminders
        <3> QED BY <2>4, <3>1 DEF CreateReminder
    <2>5. ASSUME NEW k \in Keys, NEW exists \in BOOLEAN, Reconcile(w, k, exists)
          PROVE  \E r \in Records : \E result \in SaveResults : Update(w, k, r, result)
        <3>1. Remembered(w, k, IF exists THEN "CreatedNoIds" ELSE "None") \in Records
            BY RememberedType DEF Reminders
        <3> QED BY <2>5, <3>1 DEF Reconcile
    <2>6. draft[w].key \in Keys
        BY JobFields
    <2> QED BY <1>4, <2>1, <2>2, <2>3, <2>4, <2>5, <2>6 DEF User
<1>5. ASSUME NEW w \in Windows, Create(w)
      PROVE  \/ UNCHANGED <<credential, records, previous>>
             \/ \E k \in Keys : \E r \in Records : \E result \in SaveResults : Update(w, k, r, result)
    <2>1. ASSUME NEW reminder \in Reminders, Conclude(w, reminder)
          PROVE  \E k \in Keys : \E r \in Records : \E result \in SaveResults : Update(w, k, r, result)
        <3>1. job[w].key \in Keys /\ Remembered(w, job[w].key, reminder) \in Records
            BY JobFields, RememberedType
        <3> QED BY <2>1, <3>1 DEF Conclude
    <2>2. CASE DispatchFails(w) \/ NotCreated(w) \/ Created(w)
        BY <2>1, <2>2 DEF DispatchFails, NotCreated, Created, Reminders
    <2>3. CASE Uncertain(w)
        <3>1. records[w][job[w].key].reminder \in Reminders
            BY JobFields, MemoryFields
        <3> QED BY <2>1, <2>3, <3>1 DEF Uncertain
    <2>4. CASE Dispatch(w) \/ Reauthorize(w) \/ Post(w) \/ ProviderCreates(w) \/ ProviderRefuses(w)
        BY <2>4 DEF Dispatch, Reauthorize, Post, ProviderCreates, ProviderRefuses
    <2> QED BY <1>5, <2>2, <2>3, <2>4 DEF Create
<1>6. ASSUME NEW w \in Windows, Finish(w)
      PROVE  \/ UNCHANGED <<credential, records, previous>>
             \/ \E k \in Keys : \E r \in Records : \E result \in SaveResults : Update(w, k, r, result)
    <2>1. Record("Done", "Completed") \in Records
        BY RecordType DEF Decisions, Reminders
    <2>2. ASSUME NEW k \in Keys, ApplyStatus(w, k)
          PROVE  \/ UNCHANGED <<credential, records, previous>>
                 \/ \E r \in Records : \E result \in SaveResults : Update(w, k, r, result)
        BY <2>1, <2>2 DEF ApplyStatus, Unsaved
    <2>3. CASE SendPatch(w) \/ CompletionEnds(w) \/ StartSync(w) \/ ReadStatus(w) \/ SyncEnds(w)
        BY <2>3 DEF SendPatch, CompletionEnds, StartSync, ReadStatus, SyncEnds
    <2> QED BY <1>6, <2>2, <2>3 DEF Finish
<1>7. ASSUME Elsewhere
      PROVE  Synced' /\ NothingStored' /\ NoSave
    <2>1. CASE TimePasses
        <3>1. Synced'
            BY <2>1 DEF TimePasses, Synced
        <3>2. ~credential.exists => credential'.store = Empty
            <4>1. SUFFICES ASSUME ~credential.exists PROVE credential'.store = Empty
                OBVIOUS
            <4>2. credential.store = Empty
                BY <4>1 DEF NothingStored
            <4>3. credential'.store = [k \in Keys |-> [credential.store[k] EXCEPT !.aged = credential.store[k].saved]]
                BY <2>1 DEF TimePasses, TypeOK
            <4>4. [Default EXCEPT !.aged = Default.saved] = Default
                BY DefaultStays
            <4> QED BY <4>2, <4>3, <4>4 DEF Empty
        <3>3. credential'.exists = credential.exists
            BY <2>1 DEF TimePasses, TypeOK
        <3> QED BY <2>1, <3>1, <3>2, <3>3, TimeStores DEF NothingStored
    <2>2. CASE \E k \in Keys : LatePost(k) \/ PatchArrives(k) \/ CompletedOutside(k)
        BY <1>2, <2>2 DEF LatePost, PatchArrives, CompletedOutside, Synced
    <2> QED BY <1>7, <2>1, <2>2 DEF Elsewhere
<1>8. ASSUME UNCHANGED <<credential, records, previous>>
      PROVE  Synced' /\ NothingStored' /\ NoSave
    BY <1>8, <1>2 DEF Synced
<1> QED BY <1>1, <1>3, <1>4, <1>5, <1>6, <1>7, <1>8 DEF Next

-----------------------------------------------------------------------------
(* The budget: how many tasks may exist for one loop. *)

\* The windows whose jobs may post for k are counted.
LEMMA PledgesFinite ==
    ASSUME NEW k
    PROVE  Cardinality(Pledges(k)) \in Nat /\ Cardinality(Pledges(k)') \in Nat
<1>1. Pledges(k) \in SUBSET Windows /\ Pledges(k)' \in SUBSET Windows
    BY DEF Pledges
<1>2. IsFiniteSet(Pledges(k)) /\ IsFiniteSet(Pledges(k)')
    BY <1>1, FS_Subset, WindowsAssumption
<1> QED BY <1>2, FS_CardinalityType

\* A step of one window moves the count by at most that window.
LEMMA PledgesStep ==
    ASSUME NEW w \in Windows, NEW k,
           \A v \in Windows \ {w} : job'[v] = job[v]
    PROVE  /\ Pledged(w, k) /\ ~Pledged(w, k)' =>
                  Cardinality(Pledges(k)') = Cardinality(Pledges(k)) - 1
           /\ ~Pledged(w, k) /\ Pledged(w, k)' =>
                  Cardinality(Pledges(k)') = Cardinality(Pledges(k)) + 1
           /\ (Pledged(w, k) <=> Pledged(w, k)') =>
                  Cardinality(Pledges(k)') = Cardinality(Pledges(k))
<1>1. \A v \in Windows \ {w} : v \in Pledges(k)' <=> v \in Pledges(k)
    BY DEF Pledges, Pledged
<1>2. IsFiniteSet(Pledges(k)) /\ Cardinality(Pledges(k)) \in Nat
    <2>1. Pledges(k) \in SUBSET Windows
        BY DEF Pledges
    <2> QED BY <2>1, FS_Subset, FS_CardinalityType, WindowsAssumption
<1>3. w \in Pledges(k) <=> Pledged(w, k)
    BY DEF Pledges
<1>4. w \in Pledges(k)' <=> Pledged(w, k)'
    BY DEF Pledges
<1>5. Pledges(k) \subseteq Windows /\ Pledges(k)' \subseteq Windows
    BY DEF Pledges
<1>6. ASSUME Pledged(w, k), ~Pledged(w, k)'
      PROVE  Cardinality(Pledges(k)') = Cardinality(Pledges(k)) - 1
    <2>1. Pledges(k)' = Pledges(k) \ {w}
        BY <1>1, <1>3, <1>4, <1>5, <1>6
    <2> QED BY <1>2, <1>3, <1>6, <2>1, FS_RemoveElement
<1>7. ASSUME ~Pledged(w, k), Pledged(w, k)'
      PROVE  Cardinality(Pledges(k)') = Cardinality(Pledges(k)) + 1
    <2>1. Pledges(k)' = Pledges(k) \cup {w}
        BY <1>1, <1>3, <1>4, <1>5, <1>7
    <2> QED BY <1>2, <1>3, <1>7, <2>1, FS_AddElement
<1>8. ASSUME Pledged(w, k) <=> Pledged(w, k)'
      PROVE  Cardinality(Pledges(k)') = Cardinality(Pledges(k))
    <2>1. Pledges(k)' = Pledges(k)
        BY <1>1, <1>3, <1>4, <1>5, <1>8
    <2> QED BY <2>1
<1> QED BY <1>6, <1>7, <1>8

\* The steps a budget survives: it is not overdrawn, and "None" comes back only
\* with a token given up or the user's word; or one attempt is paid for.
Affordable(k) ==
    \/ /\ Tokens(k)' <= Tokens(k) /\ denied'[k] >= denied[k]
       /\ Stored(k)' = "None" =>
            \/ Stored(k) = "None"
            \/ denied'[k] > denied[k]
            \/ Tokens(k)' < Tokens(k)
    \/ /\ Stored(k) = "None" /\ Stored(k)' # "None"
       /\ Tokens(k)' <= Tokens(k) + 1
       /\ denied'[k] = denied[k]

\* An affordable step keeps the loop within its budget.
LEMMA AffordableKeeps ==
    ASSUME TypeOK, TypeOK', NEW k \in Keys, Within(k), Affordable(k)
    PROVE  Within(k)'
<1>1. Tokens(k) \in Nat /\ Tokens(k)' \in Nat /\ denied[k] \in Nat /\ denied'[k] \in Nat
    BY PledgesFinite DEF Tokens, TypeOK
<1> QED BY <1>1 DEF Within, Affordable

\* A step that creates nothing and takes up no job is affordable.
LEMMA QuietStep ==
    ASSUME TypeOK, TypeOK', NEW k \in Keys, NEW w \in Windows,
           \A v \in Windows \ {w} : job'[v] = job[v],
           UNCHANGED <<made, late, denied>>,
           Pledged(w, k)' => Pledged(w, k),
           Stored(k)' = "None" => Stored(k) = "None" \/ (Pledged(w, k) /\ ~Pledged(w, k)')
    PROVE  Affordable(k)
<1>1. Cardinality(Pledges(k)) \in Nat /\ Cardinality(Pledges(k)') \in Nat
    BY PledgesFinite
<1>2. made[k] \in Nat /\ late[k] \in Nat /\ denied[k] \in Nat
    BY DEF TypeOK
<1>3. CASE Pledged(w, k) /\ ~Pledged(w, k)'
    <2>1. Tokens(k)' < Tokens(k)
        BY <1>1, <1>2, <1>3, PledgesStep DEF Tokens
    <2> QED BY <1>1, <1>2, <2>1 DEF Affordable, Tokens
<1>4. CASE Pledged(w, k) <=> Pledged(w, k)'
    <2>1. Tokens(k)' = Tokens(k)
        BY <1>1, <1>2, <1>4, PledgesStep DEF Tokens
    <2> QED BY <1>1, <1>2, <1>4, <2>1 DEF Affordable, Tokens
<1> QED BY <1>3, <1>4

\* A job that goes away hands its unanswered post over to late.
LEMMA OrphanStep ==
    ASSUME TypeOK, TypeOK', NEW k \in Keys, NEW w \in Windows,
           \A v \in Windows \ {w} : job'[v] = job[v],
           Orphaned(w), UNCHANGED <<made, denied>>, ~Pledged(w, k)',
           Stored(k)' = "None" => Stored(k) = "None"
    PROVE  Affordable(k)
<1>1. CASE In(w, "create", "posted") /\ job[w].key = k
    <2>1. Cardinality(Pledges(k)) \in Nat /\ Cardinality(Pledges(k)') \in Nat
        BY PledgesFinite
    <2>2. made[k] \in Nat /\ late[k] \in Nat /\ denied[k] \in Nat
        BY DEF TypeOK
    <2>3. Pledged(w, k)
        BY <1>1 DEF In, Pledged
    <2>4. late'[k] = late[k] + 1
        BY <1>1 DEF Orphaned, TypeOK
    <2>5. Tokens(k)' = Tokens(k)
        BY <2>1, <2>2, <2>3, <2>4, PledgesStep DEF Tokens
    <2> QED BY <2>1, <2>2, <2>4, <2>5 DEF Affordable, Tokens
<1>2. CASE ~(In(w, "create", "posted") /\ job[w].key = k)
    <2>1. Cardinality(Pledges(k)) \in Nat /\ Cardinality(Pledges(k)') \in Nat
        BY PledgesFinite
    <2>2. made[k] \in Nat /\ late[k] \in Nat /\ denied[k] \in Nat
        BY DEF TypeOK
    <2>3. late'[k] = late[k]
        BY <1>2 DEF Orphaned, TypeOK
    <2>4. CASE Pledged(w, k)
        <3>1. Tokens(k)' <= Tokens(k)
            BY <2>1, <2>2, <2>3, <2>4, PledgesStep DEF Tokens
        <3> QED BY <2>2, <3>1 DEF Affordable
    <2>5. CASE ~Pledged(w, k)
        <3>1. Tokens(k)' <= Tokens(k)
            BY <2>1, <2>2, <2>3, <2>5, PledgesStep DEF Tokens
        <3> QED BY <2>2, <3>1 DEF Affordable
    <2> QED BY <2>4, <2>5
<1> QED BY <1>1, <1>2

\* Only the loop a save is for can come back to "None".
LEMMA SaveBudget ==
    ASSUME TypeOK, Synced, NEW w \in Windows, NEW k \in Keys, NEW r, NEW result \in SaveResults,
           Update(w, k, r, result), NEW j \in Keys
    PROVE  /\ j # k => Stored(j)' = Stored(j)
           /\ Stored(k)' = Stored(k) \/ Stored(k)' = r.reminder
           /\ result = "ok" => Stored(k) = records[w][k].reminder /\ Stored(k)' = r.reminder
           /\ result # "ok" => Stored(k)' = Stored(k)
<1>1. /\ SavesAs(k, r)
      /\ result = "ok" => /\ credential.store = records[w]
                          /\ credential'.store = Put(credential.store, k, r)
      /\ result # "ok" => UNCHANGED credential
    BY UpdateStores
<1>2. credential.store \in Stores
    BY DEF TypeOK
<1> QED BY <1>1, <1>2, SaveKeeps, PutKeeps DEF Stored

\* Windows open, close and fall over: nothing new may be posted.
LEMMA StoreBudget ==
    ASSUME TypeOK, TypeOK', Synced, NothingStored, NEW w \in Windows, Store(w), NEW k \in Keys
    PROVE  Affordable(k)
<1>1. Stored(k)' = Stored(k)
    BY FirstSaveStores, OtherStores DEF Store, OpenStore, OpenUnreadable, Exit, WorkerPanics, NoSave
<1>2. CASE OpenStore(w) \/ OpenUnreadable(w) \/ FirstSave(w)
    <2>1. UNCHANGED <<job, made, late, denied>>
        BY <1>2 DEF OpenStore, OpenUnreadable, FirstSave, world
    <2> QED BY <1>1, <2>1, QuietStep DEF Pledged
<1>3. CASE Exit(w) \/ WorkerPanics(w)
    <2>1. job' = [job EXCEPT ![w] = NoJob] /\ Orphaned(w) /\ UNCHANGED <<made, denied>>
        BY <1>3 DEF Exit, WorkerPanics
    <2>2. ~Pledged(w, k)'
        BY <2>1 DEF Pledged, NoJob, TypeOK
    <2>3. \A v \in Windows \ {w} : job'[v] = job[v]
        BY <2>1 DEF TypeOK
    <2> QED BY <1>1, <2>1, <2>2, <2>3, OrphanStep
<1> QED BY <1>2, <1>3 DEF Store

\* An attempt is paid for, an answer "no task was created" is counted, and
\* every other move of the user leaves reminders alone.
LEMMA UserBudget ==
    ASSUME TypeOK, TypeOK', Synced, NEW w \in Windows, User(w), NEW k \in Keys
    PROVE  Affordable(k)
<1>1. ASSUME NEW c \in Keys, NEW d \in OfferedDecisions, Decide(w, c, d)
      PROVE  Affordable(k)
    <2>1. PICK result \in SaveResults : Update(w, c, Record(d, records[w][c].reminder), result)
        BY <1>1 DEF Decide
    <2>2. Stored(k)' = Stored(k)
        BY <2>1, SaveBudget DEF Record
    <2>3. /\ \A v \in Windows \ {w} : job'[v] = job[v]
          /\ job'[w] = job[w] \/ job'[w].kind = "complete"
        BY <1>1 DEF Decide, Job, TypeOK
    <2> QED BY <1>1, <2>2, <2>3, QuietStep DEF Decide, Pledged, world
<1>2. ASSUME NEW c \in Keys, OpenReminder(w, c)
      PROVE  Affordable(k)
    <2>1. PICK result \in SaveResults :
              Update(w, c, Record(decision_after_setting_reminder(records[w][c].decision), "None"), result)
        BY <1>2 DEF OpenReminder
    <2>2. records[w][c].reminder = "None"
        BY <1>2 DEF OpenReminder
    <2>3. Stored(k)' = Stored(k)
        BY <2>1, <2>2, SaveBudget DEF Record
    <2> QED BY <1>2, <2>3, QuietStep DEF OpenReminder, Pledged, world
<1>3. CASE CancelReminder(w)
    <2>1. \/ UNCHANGED credential
          \/ \E result \in SaveResults :
                Update(w, draft[w].key, Record("Review", records[w][draft[w].key].reminder), result)
        BY <1>3 DEF CancelReminder, Unsaved
    <2>2. draft[w].key \in Keys
        BY JobFields
    <2>3. Stored(k)' = Stored(k)
        BY <2>1, <2>2, SaveBudget DEF Record, Stored
    <2> QED BY <1>3, <2>3, QuietStep DEF CancelReminder, Pledged, world
<1>4. CASE CreateReminder(w)
    <2>1. PICK c \in Keys, result \in SaveResults, cached \in BOOLEAN :
              /\ c = draft[w].key
              /\ records[w][c].reminder = "None"
              /\ Update(w, c, Remembered(w, c, "Attempted"), result)
              /\ IF result = "ok" THEN job' = [job EXCEPT ![w] = Job("create", c, "dispatch", cached)]
                 ELSE UNCHANGED job
        BY <1>4, JobFields DEF CreateReminder
    <2>2. UNCHANGED <<made, late, denied>>
        BY <1>4 DEF CreateReminder, world
    <2>3. CASE result # "ok"
        <3>1. Stored(k)' = Stored(k) /\ UNCHANGED job
            BY <2>1, <2>3, SaveBudget
        <3> QED BY <2>2, <3>1, QuietStep DEF Pledged
    <2>4. CASE result = "ok"
        <3>1. /\ job' = [job EXCEPT ![w] = Job("create", c, "dispatch", cached)]
              /\ \A v \in Windows \ {w} : job'[v] = job[v]
              /\ job'[w] = Job("create", c, "dispatch", cached)
            BY <2>1, <2>4 DEF TypeOK
        <3>2. Stored(c) = "None" /\ Stored(c)' = "Attempted" /\ (k # c => Stored(k)' = Stored(k))
            BY <2>1, <2>4, SaveBudget DEF Remembered, Record
        <3>3. ~Pledged(w, k)
            BY <1>4 DEF CreateReminder, Idle, NoJob, Pledged
        <3>4. CASE k # c
            <4>1. ~Pledged(w, k)'
                BY <3>1, <3>4 DEF Job, Pledged
            <4> QED BY <2>2, <3>1, <3>2, <3>4, <4>1, QuietStep
        <3>5. CASE k = c
            <4>1. Cardinality(Pledges(k)') <= Cardinality(Pledges(k)) + 1
                BY <3>1, <3>3, PledgesStep, PledgesFinite
            <4>2. Tokens(k)' <= Tokens(k) + 1
                BY <2>2, <4>1, PledgesFinite DEF Tokens, TypeOK
            <4> QED BY <2>2, <3>2, <3>5, <4>2 DEF Affordable
        <3> QED BY <3>4, <3>5
    <2> QED BY <2>3, <2>4
<1>5. ASSUME NEW c \in Keys, NEW exists \in BOOLEAN, Reconcile(w, c, exists)
      PROVE  Affordable(k)
    <2> DEFINE reminder == IF exists THEN "CreatedNoIds" ELSE "None"
    <2>1. PICK result \in SaveResults :
              /\ Update(w, c, Remembered(w, c, reminder), result)
              /\ denied' = IF exists \/ result # "ok" THEN denied ELSE [denied EXCEPT ![c] = @ + 1]
        BY <1>5 DEF Reconcile
    <2>2. UNCHANGED <<job, made, late>>
        BY <1>5 DEF Reconcile
    <2>3. Tokens(k)' = Tokens(k)
        BY <2>2 DEF Tokens, Pledges, Pledged
    <2>4. Tokens(k) \in Nat
        BY PledgesFinite DEF Tokens, TypeOK
    <2>5. /\ k # c => Stored(k)' = Stored(k) /\ denied'[k] = denied[k]
          /\ result # "ok" => Stored(k)' = Stored(k) /\ denied'[k] = denied[k]
          /\ k = c /\ result = "ok" /\ exists => Stored(k)' = "CreatedNoIds" /\ denied'[k] = denied[k]
          /\ k = c /\ result = "ok" /\ ~exists => denied'[k] = denied[k] + 1
        BY <2>1, SaveBudget DEF Remembered, Record, TypeOK
    <2>6. denied[k] \in Nat
        BY DEF TypeOK
    <2> QED BY <2>3, <2>4, <2>5, <2>6 DEF Affordable
<1> QED BY <1>1, <1>2, <1>3, <1>4, <1>5 DEF User

\* A job that puts "None" back can no longer post; a created task replaces its
\* pledge; a post without an answer stays under way.
LEMMA CreateBudget ==
    ASSUME TypeOK, TypeOK', Synced, NEW w \in Windows, Create(w), NEW k \in Keys
    PROVE  Affordable(k)
<1>1. PICK c \in Keys : c = job[w].key
    BY JobFields
<1>2. ASSUME NEW reminder, Conclude(w, reminder)
      PROVE  /\ k # c => Stored(k)' = Stored(k)
             /\ Stored(c)' = Stored(c) \/ Stored(c)' = reminder
             /\ reminder = records[w][c].reminder => Stored(c)' = Stored(c)
             /\ ~Pledged(w, k)'
             /\ \A v \in Windows \ {w} : job'[v] = job[v]
    <2>1. PICK result \in SaveResults : Update(w, c, Remembered(w, c, reminder), result)
        BY <1>1, <1>2 DEF Conclude
    <2>2. /\ k # c => Stored(k)' = Stored(k)
          /\ Stored(c)' = Stored(c) \/ Stored(c)' = reminder
          /\ reminder = records[w][c].reminder => Stored(c)' = Stored(c)
        BY <1>1, <2>1, SaveBudget DEF Remembered, Record
    <2>3. job' = [job EXCEPT ![w] = NoJob]
        BY <1>2 DEF Conclude
    <2> QED BY <2>2, <2>3 DEF Pledged, NoJob, TypeOK
<1>3. CASE DispatchFails(w) \/ NotCreated(w)
    <2>1. Conclude(w, "None") /\ Pledged(w, c) /\ UNCHANGED <<made, late, denied>>
        BY <1>1, <1>3 DEF DispatchFails, NotCreated, In, Pledged, world
    <2> QED BY <1>2, <2>1, QuietStep
<1>4. CASE Created(w)
    <2>1. Conclude(w, "Created") /\ UNCHANGED <<made, late, denied>>
        BY <1>4 DEF Created, world
    <2> QED BY <1>2, <2>1, QuietStep
<1>5. CASE Uncertain(w)
    <2>1. Conclude(w, records[w][c].reminder) /\ Orphaned(w) /\ UNCHANGED <<made, denied>>
        BY <1>1, <1>5 DEF Uncertain
    <2> QED BY <1>2, <2>1, OrphanStep
<1>6. CASE Dispatch(w) \/ Reauthorize(w) \/ Post(w) \/ ProviderRefuses(w)
    <2>1. UNCHANGED <<credential, made, late, denied>>
        BY <1>6 DEF Dispatch, Reauthorize, Post, ProviderRefuses, world
    <2>2. /\ \A v \in Windows \ {w} : job'[v] = job[v]
          /\ Pledged(w, k)' => Pledged(w, k)
        BY <1>6 DEF Dispatch, Reauthorize, Post, ProviderRefuses, Pledged, In, TypeOK, Jobs
    <2> QED BY <2>1, <2>2, QuietStep DEF Stored
<1>7. CASE ProviderCreates(w)
    <2>1. /\ UNCHANGED <<credential, late, denied>>
          /\ made' = [made EXCEPT ![c] = @ + 1]
          /\ job' = [job EXCEPT ![w].phase = "made"]
        BY <1>1, <1>7 DEF ProviderCreates
    <2>2. /\ \A v \in Windows \ {w} : job'[v] = job[v]
          /\ ~Pledged(w, k)'
        BY <2>1 DEF Pledged, TypeOK, Jobs
    <2>3. Pledged(w, k) <=> k = c
        BY <1>1, <1>7 DEF ProviderCreates, In, Pledged
    <2>4. made'[k] = IF k = c THEN made[k] + 1 ELSE made[k]
        BY <2>1 DEF TypeOK
    <2>5. Tokens(k)' <= Tokens(k)
        BY <2>1, <2>2, <2>3, <2>4, PledgesStep, PledgesFinite DEF Tokens, TypeOK
    <2> QED BY <2>1, <2>5 DEF Affordable, Stored, TypeOK
<1> QED BY <1>3, <1>4, <1>5, <1>6, <1>7 DEF Create

\* Completing and looking up a task never creates one.
LEMMA FinishBudget ==
    ASSUME TypeOK, TypeOK', Synced, NEW w \in Windows, Finish(w), NEW k \in Keys
    PROVE  Affordable(k)
<1>1. CASE SendPatch(w) \/ CompletionEnds(w) \/ StartSync(w) \/ ReadStatus(w) \/ SyncEnds(w)
    <2>1. UNCHANGED <<credential, made, late, denied>>
        BY <1>1 DEF SendPatch, CompletionEnds, StartSync, ReadStatus, SyncEnds, world
    <2>2. \A v \in Windows \ {w} : job'[v] = job[v]
        BY <1>1 DEF SendPatch, CompletionEnds, StartSync, ReadStatus, SyncEnds, TypeOK
    <2>3. ~Pledged(w, k)'
        <3>1. CASE SendPatch(w) \/ ReadStatus(w)
            <4>1. job'[w].kind = job[w].kind
                <5>1. CASE SendPatch(w)
                    BY <5>1 DEF SendPatch, TypeOK, Jobs
                <5>2. CASE ReadStatus(w)
                    <6>1. PICK found : job' = [job EXCEPT ![w] = [@ EXCEPT !.phase = "apply", !.found = found]]
                        BY <5>2 DEF ReadStatus
                    <6> QED BY <6>1 DEF TypeOK, Jobs
                <5> QED BY <3>1, <5>1, <5>2
            <4>2. job[w].kind # "create"
                BY <3>1 DEF SendPatch, ReadStatus, In
            <4> QED BY <4>1, <4>2 DEF Pledged
        <3>2. CASE CompletionEnds(w) \/ StartSync(w) \/ SyncEnds(w)
            BY <3>2 DEF CompletionEnds, StartSync, SyncEnds, Pledged, NoJob, Job, TypeOK
        <3> QED BY <1>1, <3>1, <3>2
    <2> QED BY <2>1, <2>2, <2>3, QuietStep DEF Stored
<1>2. ASSUME NEW c \in Keys, ApplyStatus(w, c)
      PROVE  Affordable(k)
    <2>1. \/ UNCHANGED credential
          \/ \E result \in SaveResults : Update(w, c, Record("Done", "Completed"), result)
        BY <1>2 DEF ApplyStatus, Unsaved
    <2>2. Stored(k)' = "None" => Stored(k) = "None"
        BY <2>1, SaveBudget DEF Record, Stored
    <2>3. /\ \A v \in Windows \ {w} : job'[v] = job[v]
          /\ ~Pledged(w, k)'
        BY <1>2 DEF ApplyStatus, Pledged, In, TypeOK, Jobs
    <2> QED BY <1>2, <2>2, <2>3, QuietStep DEF ApplyStatus, world
<1> QED BY <1>1, <1>2 DEF Finish

\* A late post arrives or is lost: one token either way.
LEMMA ElsewhereBudget ==
    ASSUME TypeOK, TypeOK', NothingStored, Elsewhere, NEW k \in Keys
    PROVE  Affordable(k)
<1>1. ASSUME NEW c \in Keys, LatePost(c)
      PROVE  Affordable(k)
    <2>1. /\ UNCHANGED <<credential, job, denied>>
          /\ late' = [late EXCEPT ![c] = @ - 1]
          /\ made' = [made EXCEPT ![c] = @ + 1] \/ UNCHANGED made
        BY <1>1 DEF LatePost, window
    <2>2. Pledges(k)' = Pledges(k)
        BY <2>1 DEF Pledges, Pledged
    <2>3. Tokens(k)' <= Tokens(k)
        BY <2>1, <2>2, PledgesFinite DEF Tokens, TypeOK
    <2> QED BY <2>1, <2>3 DEF Affordable, Stored, TypeOK
<1>2. CASE TimePasses \/ \E c \in Keys : PatchArrives(c) \/ CompletedOutside(c)
    <2>1. UNCHANGED <<job, made, late, denied>>
        BY <1>2 DEF TimePasses, PatchArrives, CompletedOutside, world, window
    <2>2. Stored(k)' = Stored(k)
        BY <1>2, TimeStores, OtherStores DEF PatchArrives, CompletedOutside, NoSave
    <2>3. Tokens(k)' = Tokens(k)
        BY <2>1 DEF Tokens, Pledges, Pledged
    <2> QED BY <2>1, <2>2, <2>3, PledgesFinite DEF Affordable, Tokens, TypeOK
<1> QED BY <1>1, <1>2 DEF Elsewhere

\* Every step stays within the budget of every loop.
LEMMA BudgetStep ==
    ASSUME IInv, TypeOK', Next
    PROVE  Budget'
<1>1. ASSUME NEW k \in Keys
      PROVE  Affordable(k)
    BY StoreBudget, UserBudget, CreateBudget, FinishBudget, ElsewhereBudget DEF Next, IInv
<1>2. \A k \in Keys : Within(k)'
    BY <1>1, AffordableKeeps DEF IInv, Budget
<1> QED BY <1>2 DEF Budget

-----------------------------------------------------------------------------
(* The jobs: what a window waits for is true at the provider. *)

\* Tasks and completions are never taken back.
Grows == /\ \A k \in Keys : made'[k] >= made[k]
         /\ completed \subseteq completed'

\* Nothing in the program or at the provider removes a task.
LEMMA WorldGrows ==
    ASSUME TypeOK, Next
    PROVE  Grows
<1> USE DEF world, window
<1>1. ASSUME UNCHANGED <<made, completed>>
      PROVE  Grows
    BY <1>1 DEF Grows, TypeOK
<1>2. ASSUME NEW w \in Windows, Store(w) PROVE UNCHANGED <<made, completed>>
    BY <1>2 DEF Store, OpenStore, OpenUnreadable, FirstSave, Exit, WorkerPanics
<1>3. ASSUME NEW w \in Windows, User(w) PROVE UNCHANGED <<made, completed>>
    BY <1>3 DEF User, Decide, OpenReminder, CancelReminder, CreateReminder, Reconcile
<1>4. ASSUME NEW w \in Windows, Create(w), ~ProviderCreates(w) PROVE UNCHANGED <<made, completed>>
    BY <1>4 DEF Create, DispatchFails, Dispatch, Reauthorize, NotCreated, Post, ProviderRefuses,
                Created, Uncertain
<1>5. ASSUME NEW w \in Windows, ProviderCreates(w) PROVE Grows
    BY <1>5, JobFields DEF ProviderCreates, Grows, TypeOK
<1>6. ASSUME NEW w \in Windows, Finish(w) PROVE UNCHANGED <<made, completed>>
    BY <1>6 DEF Finish, SendPatch, CompletionEnds, StartSync, ReadStatus, SyncEnds, ApplyStatus
<1>7. ASSUME Elsewhere PROVE Grows
    <2>1. CASE TimePasses
        BY <2>1, <1>1 DEF TimePasses
    <2>2. ASSUME NEW k \in Keys, LatePost(k) PROVE Grows
        BY <2>2 DEF LatePost, Grows, TypeOK
    <2>3. ASSUME NEW k \in Keys, PatchArrives(k) \/ CompletedOutside(k) PROVE Grows
        BY <2>3 DEF PatchArrives, CompletedOutside, Grows, TypeOK
    <2> QED BY <1>7, <2>1, <2>2, <2>3 DEF Elsewhere
<1> QED BY <1>1, <1>2, <1>3, <1>4, <1>5, <1>6, <1>7 DEF Next

\* What is true of one job: a task reported made exists, and the loops it found
\* completed are.
TrueJob(w) ==
    /\ In(w, "create", "made") => made[job[w].key] > 0
    /\ job[w].found \subseteq completed

\* A step that gives window w no new "made" and no new findings.
LEMMA TrueJobKept ==
    ASSUME TypeOK, TypeOK', Grows, NEW w \in Windows, TrueJob(w),
           In(w, "create", "made")' => In(w, "create", "made") /\ job'[w].key = job[w].key,
           job'[w].found \subseteq job[w].found
    PROVE  TrueJob(w)'
<1>1. PICK k \in Keys : k = job[w].key
    BY JobFields
<1>2. made'[k] >= made[k] /\ made[k] \in Nat /\ made'[k] \in Nat
    BY DEF Grows, TypeOK
<1> QED BY <1>1, <1>2 DEF TrueJob, Grows

\* The job of a window stays true of the provider.
LEMMA JobStep ==
    ASSUME TypeOK, TypeOK', Next, NEW w \in Windows, TrueJob(w)
    PROVE  TrueJob(w)'
<1>1. Grows
    BY WorldGrows
<1>2. ASSUME job'[w] = job[w] PROVE TrueJob(w)'
    BY <1>1, <1>2, TrueJobKept DEF In
<1>3. ASSUME NEW next, job'[w] = next, next.kind # "create" \/ next.phase # "made",
             next.found \subseteq job[w].found
      PROVE  TrueJob(w)'
    BY <1>1, <1>3, TrueJobKept DEF In
<1>4. ASSUME job'[w] = NoJob PROVE TrueJob(w)'
    BY <1>3, <1>4 DEF NoJob
<1>5. ASSUME NEW kind, NEW k, NEW phase, NEW cached, job'[w] = Job(kind, k, phase, cached), phase # "made"
      PROVE  TrueJob(w)'
    BY <1>3, <1>5 DEF Job
<1>6. ASSUME NEW v \in Windows, Store(v) PROVE TrueJob(w)'
    BY <1>2, <1>4, <1>6 DEF Store, OpenStore, OpenUnreadable, FirstSave, Exit, WorkerPanics, TypeOK
<1>7. ASSUME NEW v \in Windows, User(v) PROVE TrueJob(w)'
    <2>1. CASE UNCHANGED job
        BY <1>2, <2>1
    <2>2. ASSUME NEW k, job' = [job EXCEPT ![v] = Job("complete", k, "prepare", FALSE)]
          PROVE  TrueJob(w)'
        BY <1>2, <1>5, <2>2 DEF TypeOK
    <2>3. ASSUME NEW k, NEW cached, job' = [job EXCEPT ![v] = Job("create", k, "dispatch", cached)]
          PROVE  TrueJob(w)'
        BY <1>2, <1>5, <2>3 DEF TypeOK
    <2> QED BY <1>7, <2>1, <2>2, <2>3 DEF User, Decide, OpenReminder, CancelReminder, CreateReminder, Reconcile
<1>8. ASSUME NEW v \in Windows, Create(v) PROVE TrueJob(w)'
    <2>1. CASE DispatchFails(v) \/ NotCreated(v) \/ Created(v) \/ Uncertain(v)
        BY <1>2, <1>4, <2>1 DEF DispatchFails, NotCreated, Created, Uncertain, Conclude, TypeOK
    <2>2. CASE w # v
        BY <1>2, <1>4, <1>8, <2>1, <2>2 DEF Create, Dispatch, Reauthorize, Post, ProviderCreates,
                                           ProviderRefuses, TypeOK
    <2>3. CASE w = v /\ (Dispatch(v) \/ Post(v) \/ ProviderRefuses(v))
        <3>1. /\ job'[w].phase # "made" /\ job'[w].found = job[w].found
            BY <2>3 DEF Dispatch, Post, ProviderRefuses, TypeOK, Jobs
        <3> QED BY <1>1, <3>1, TrueJobKept DEF In
    <2>4. CASE w = v /\ Reauthorize(v)
        <3>1. /\ job'[w].phase # "made" /\ job'[w].found = job[w].found
            BY <2>4 DEF Reauthorize, In, TypeOK, Jobs
        <3> QED BY <1>1, <3>1, TrueJobKept DEF In
    <2>5. CASE w = v /\ ProviderCreates(v)
        <3>1. PICK k \in Keys : k = job[w].key
            BY JobFields
        <3>2. made'[k] = made[k] + 1 /\ made[k] \in Nat
            BY <2>5, <3>1 DEF ProviderCreates, TypeOK
        <3>3. job'[w].key = k /\ job'[w].found = job[w].found
            BY <2>5, <3>1 DEF ProviderCreates, TypeOK, Jobs
        <3> QED BY <1>1, <3>2, <3>3 DEF TrueJob, Grows
    <2> QED BY <1>8, <2>1, <2>2, <2>3, <2>4, <2>5 DEF Create
<1>9. ASSUME NEW v \in Windows, Finish(v) PROVE TrueJob(w)'
    <2>1. CASE CompletionEnds(v) \/ SyncEnds(v)
        BY <1>2, <1>4, <2>1 DEF CompletionEnds, SyncEnds, TypeOK
    <2>2. CASE StartSync(v)
        BY <1>2, <1>5, <2>2 DEF StartSync, TypeOK
    <2>3. CASE SendPatch(v)
        <3>1. CASE w # v
            BY <1>2, <2>3, <3>1 DEF SendPatch, TypeOK
        <3>2. CASE w = v
            <4>1. job'[w].phase # "made" /\ job'[w].found = job[w].found
                BY <2>3, <3>2 DEF SendPatch, TypeOK, Jobs
            <4> QED BY <1>1, <4>1, TrueJobKept DEF In
        <3> QED BY <3>1, <3>2
    <2>4. CASE ReadStatus(v)
        <3>1. CASE w # v
            BY <1>2, <2>4, <3>1 DEF ReadStatus, TypeOK
        <3>2. CASE w = v
            <4>1. PICK found \in SUBSET completed :
                      job' = [job EXCEPT ![w] = [@ EXCEPT !.phase = "apply", !.found = found]]
                BY <2>4, <3>2 DEF ReadStatus
            <4>2. job'[w].phase # "made" /\ job'[w].found = found
                BY <4>1 DEF TypeOK, Jobs
            <4> QED BY <1>1, <4>2 DEF TrueJob, In, Grows
        <3> QED BY <3>1, <3>2
    <2>5. ASSUME NEW k \in Keys, ApplyStatus(v, k) PROVE TrueJob(w)'
        <3>1. CASE w # v
            BY <1>2, <2>5, <3>1 DEF ApplyStatus, TypeOK
        <3>2. CASE w = v
            <4>1. job'[w].phase = job[w].phase /\ job'[w].found \subseteq job[w].found
                BY <2>5, <3>2 DEF ApplyStatus, TypeOK, Jobs
            <4>2. job[w].phase # "made"
                BY <2>5, <3>2 DEF ApplyStatus, In
            <4> QED BY <1>1, <4>1, <4>2, TrueJobKept DEF In
        <3> QED BY <3>1, <3>2
    <2> QED BY <1>9, <2>1, <2>2, <2>3, <2>4, <2>5 DEF Finish
<1>10. ASSUME Elsewhere PROVE TrueJob(w)'
    BY <1>2, <1>10 DEF Elsewhere, TimePasses, LatePost, PatchArrives, CompletedOutside, window
<1> QED BY <1>6, <1>7, <1>8, <1>9, <1>10 DEF Next

-----------------------------------------------------------------------------
(* The theorems. *)

\* What the store claims about the provider stays true.
LEMMA TruthStep ==
    ASSUME IInv, TypeOK', Next
    PROVE  StoreTellsTheTruth'
<1>1. Grows
    BY WorldGrows DEF IInv
<1> DEFINE True(reminder, k) ==
               /\ reminder \in {"Created", "Completed"} => made'[k] > 0
               /\ reminder = "Completed" => k \in completed'
<1>2. \A k \in Keys : True(Stored(k), k)
    BY <1>1 DEF IInv, StoreTellsTheTruth, Stored, Grows, TypeOK
<1>3. SUFFICES \A k \in Keys : True(Stored(k)', k)
    BY DEF StoreTellsTheTruth, Stored
<1>4. ASSUME \A k \in Keys : Stored(k)' = Stored(k)
      PROVE  \A k \in Keys : True(Stored(k)', k)
    BY <1>2, <1>4
<1>5. ASSUME NEW w \in Windows, NEW c \in Keys, NEW r, NEW result \in SaveResults,
             Update(w, c, r, result),
             result = "ok" => r.reminder = Stored(c) \/ True(r.reminder, c)
      PROVE  \A k \in Keys : True(Stored(k)', k)
    <2>1. /\ \A k \in Keys : k # c => Stored(k)' = Stored(k)
          /\ result = "ok" => Stored(c)' = r.reminder
          /\ result # "ok" => Stored(c)' = Stored(c)
        BY <1>5, SaveBudget DEF IInv
    <2> QED BY <1>2, <1>5, <2>1
<1>6. ASSUME NEW w \in Windows, NEW c \in Keys, NEW r, NEW result \in SaveResults,
             Update(w, c, r, result), r.reminder = records[w][c].reminder
      PROVE  \A k \in Keys : True(Stored(k)', k)
    <2>1. result = "ok" => Stored(c) = records[w][c].reminder
        BY <1>6, SaveBudget DEF IInv
    <2> QED BY <1>5, <1>6, <2>1
<1>7. ASSUME NEW w \in Windows, NEW c \in Keys, NEW r, NEW result \in SaveResults,
             Update(w, c, r, result), r.reminder \in {"None", "Attempted", "CreatedNoIds"}
      PROVE  \A k \in Keys : True(Stored(k)', k)
    BY <1>5, <1>7
<1>8. ASSUME NEW w \in Windows, Store(w)
      PROVE  \A k \in Keys : Stored(k)' = Stored(k)
    BY <1>8, FirstSaveStores, OtherStores DEF Store, OpenStore, OpenUnreadable, Exit, WorkerPanics,
                                              NoSave, IInv
<1>9. ASSUME NEW w \in Windows, User(w)
      PROVE  \A k \in Keys : True(Stored(k)', k)
    <2>1. ASSUME NEW c \in Keys, NEW d \in OfferedDecisions, Decide(w, c, d)
          PROVE  \A k \in Keys : True(Stored(k)', k)
        <3>1. PICK result \in SaveResults : Update(w, c, Record(d, records[w][c].reminder), result)
            BY <2>1 DEF Decide
        <3> QED BY <3>1, <1>6 DEF Record
    <2>2. ASSUME NEW c \in Keys, OpenReminder(w, c)
          PROVE  \A k \in Keys : True(Stored(k)', k)
        <3>1. PICK result \in SaveResults :
                  Update(w, c, Record(decision_after_setting_reminder(records[w][c].decision), "None"), result)
            BY <2>2 DEF OpenReminder
        <3> QED BY <3>1, <1>7 DEF Record
    <2>3. CASE CancelReminder(w)
        <3>1. PICK c \in Keys : c = draft[w].key
            BY JobFields DEF IInv
        <3>2. \/ UNCHANGED credential
              \/ \E result \in SaveResults : Update(w, c, Record("Review", records[w][c].reminder), result)
            BY <2>3, <3>1 DEF CancelReminder, Unsaved
        <3>3. CASE UNCHANGED credential
            BY <1>4, <3>3 DEF Stored
        <3> QED BY <3>2, <3>3, <1>6 DEF Record
    <2>4. CASE CreateReminder(w)
        <3>1. PICK c \in Keys : c = draft[w].key
            BY JobFields DEF IInv
        <3>2. PICK result \in SaveResults : Update(w, c, Remembered(w, c, "Attempted"), result)
            BY <2>4, <3>1 DEF CreateReminder
        <3> QED BY <3>2, <1>7 DEF Remembered, Record
    <2>5. ASSUME NEW c \in Keys, NEW exists \in BOOLEAN, Reconcile(w, c, exists)
          PROVE  \A k \in Keys : True(Stored(k)', k)
        <3>1. PICK result \in SaveResults :
                  Update(w, c, Remembered(w, c, IF exists THEN "CreatedNoIds" ELSE "None"), result)
            BY <2>5 DEF Reconcile
        <3> QED BY <3>1, <1>7 DEF Remembered, Record
    <2> QED BY <1>9, <2>1, <2>2, <2>3, <2>4, <2>5 DEF User
<1>10. ASSUME NEW w \in Windows, Create(w)
       PROVE  \A k \in Keys : True(Stored(k)', k)
    <2>1. PICK c \in Keys : c = job[w].key
        BY JobFields DEF IInv
    <2>2. CASE DispatchFails(w) \/ NotCreated(w)
        <3>1. PICK result \in SaveResults : Update(w, c, Remembered(w, c, "None"), result)
            BY <2>1, <2>2 DEF DispatchFails, NotCreated, Conclude
        <3> QED BY <3>1, <1>7 DEF Remembered, Record
    <2>3. CASE Created(w)
        <3>1. PICK result \in SaveResults : Update(w, c, Remembered(w, c, "Created"), result)
            BY <2>1, <2>3 DEF Created, Conclude
        <3>2. made[c] > 0
            BY <2>1, <2>3 DEF Created, IInv, MadeExists
        <3>3. made'[c] > 0
            BY <1>1, <3>2 DEF Grows, IInv, TypeOK
        <3> QED BY <3>1, <3>3, <1>5 DEF Remembered, Record
    <2>4. CASE Uncertain(w)
        <3>1. PICK result \in SaveResults :
                  Update(w, c, Remembered(w, c, records[w][c].reminder), result)
            BY <2>1, <2>4 DEF Uncertain, Conclude
        <3> QED BY <3>1, <1>6 DEF Remembered, Record
    <2>5. CASE Dispatch(w) \/ Reauthorize(w) \/ Post(w) \/ ProviderCreates(w) \/ ProviderRefuses(w)
        <3>1. UNCHANGED credential
            BY <2>5 DEF Dispatch, Reauthorize, Post, ProviderCreates, ProviderRefuses
        <3> QED BY <1>4, <3>1 DEF Stored
    <2> QED BY <1>10, <2>2, <2>3, <2>4, <2>5 DEF Create
<1>11. ASSUME NEW w \in Windows, Finish(w)
       PROVE  \A k \in Keys : True(Stored(k)', k)
    <2>1. ASSUME NEW c \in Keys, ApplyStatus(w, c)
          PROVE  \A k \in Keys : True(Stored(k)', k)
        <3>1. \/ UNCHANGED credential
              \/ /\ records[w][c].reminder = "Created"
                 /\ \E result \in SaveResults : Update(w, c, Record("Done", "Completed"), result)
            BY <2>1 DEF ApplyStatus, Unsaved
        <3>2. CASE UNCHANGED credential
            BY <1>4, <3>2 DEF Stored
        <3>3. ASSUME NEW result \in SaveResults, records[w][c].reminder = "Created",
                     Update(w, c, Record("Done", "Completed"), result)
              PROVE  \A k \in Keys : True(Stored(k)', k)
            <4>1. result = "ok" => Stored(c) = "Created"
                BY <3>3, SaveBudget DEF IInv
            <4>2. c \in completed'
                BY <1>1, <2>1 DEF ApplyStatus, Grows, IInv, FoundIsCompleted
            <4>3. result = "ok" => made'[c] > 0
                BY <1>2, <4>1
            <4> QED BY <1>5, <3>3, <4>2, <4>3 DEF Record
        <3> QED BY <3>1, <3>2, <3>3
    <2>2. CASE SendPatch(w) \/ CompletionEnds(w) \/ StartSync(w) \/ ReadStatus(w) \/ SyncEnds(w)
        <3>1. UNCHANGED credential
            BY <2>2 DEF SendPatch, CompletionEnds, StartSync, ReadStatus, SyncEnds
        <3> QED BY <1>4, <3>1 DEF Stored
    <2> QED BY <1>11, <2>1, <2>2 DEF Finish
<1>12. ASSUME Elsewhere
       PROVE  \A k \in Keys : Stored(k)' = Stored(k)
    BY <1>12, TimeStores, OtherStores DEF Elsewhere, LatePost, PatchArrives, CompletedOutside, NoSave,
                                          IInv
<1> QED BY <1>4, <1>8, <1>9, <1>10, <1>11, <1>12 DEF Next

\* Nothing is stored, promised or posted when the program starts.
LEMMA InitIInv == Init => IInv
<1> SUFFICES ASSUME Init PROVE IInv
    OBVIOUS
<1>1. TypeOK
    BY InitTypes
<1>2. Synced /\ NothingStored
    BY DEF Init, Synced, NothingStored
<1>3. \A w \in Windows : job[w] = NoJob
    BY DEF Init
<1>4. MadeExists /\ FoundIsCompleted
    BY <1>3 DEF NoJob, In, MadeExists, FoundIsCompleted
<1>5. Budget
    <2>1. ASSUME NEW k \in Keys
          PROVE  Within(k)
        <3>1. Pledges(k) = {}
            BY <1>3 DEF Pledges, Pledged, NoJob
        <3>2. Cardinality(Pledges(k)) = 0
            BY <3>1, FS_EmptySet
        <3>3. made[k] = 0 /\ late[k] = 0 /\ denied[k] = 0
            BY DEF Init
        <3> QED BY <3>2, <3>3 DEF Within, Tokens
    <2> QED BY <2>1 DEF Budget
<1>6. StoreTellsTheTruth
    BY DEF Init, StoreTellsTheTruth, Empty, Default
<1> QED BY <1>1, <1>2, <1>4, <1>5, <1>6 DEF IInv

\* The inductive step.
LEMMA IInvStep == IInv /\ [Next]_vars => IInv'
<1> SUFFICES ASSUME IInv, [Next]_vars PROVE IInv'
    OBVIOUS
<1>1. CASE UNCHANGED vars
    BY <1>1 DEF vars, window, world, IInv, TypeOK, Synced, NothingStored, Budget, Within, Tokens,
               Pledges, Pledged, Stored, MadeExists, FoundIsCompleted, In, StoreTellsTheTruth
<1>2. CASE Next
    <2>1. TypeOK'
        BY StepTypes DEF IInv
    <2>2. Synced' /\ NothingStored'
        BY <1>2, StoreStep DEF IInv
    <2>3. Budget'
        BY <1>2, <2>1, BudgetStep
    <2>4. \A w \in Windows : TrueJob(w)'
        BY <1>2, <2>1, JobStep DEF IInv, MadeExists, FoundIsCompleted, TrueJob
    <2>5. MadeExists' /\ FoundIsCompleted'
        BY <2>4 DEF TrueJob, MadeExists, FoundIsCompleted, In
    <2>6. StoreTellsTheTruth'
        BY <1>2, <2>1, TruthStep
    <2> QED BY <2>1, <2>2, <2>3, <2>5, <2>6 DEF IInv
<1> QED BY <1>1, <1>2

\* The inductive invariant of the reminder lifecycle.
THEOREM Invariance == Spec => []IInv
<1> QED BY InitIInv, IInvStep, PTL DEF Spec

\* A window whose post is on its way holds a token.
LEMMA ExposureWithinTokens ==
    ASSUME TypeOK, NEW k \in Keys
    PROVE  Exposure(k) \in Nat /\ Tokens(k) \in Nat /\ Exposure(k) <= Tokens(k)
<1> DEFINE posting == {w \in Windows : Posting(w, k)}
<1>1. Pledges(k) \in SUBSET Windows /\ posting \in SUBSET Pledges(k)
    BY DEF Pledges, Pledged, Posting
<1>2. IsFiniteSet(Pledges(k))
    BY <1>1, FS_Subset, WindowsAssumption
<1>3. IsFiniteSet(posting) /\ Cardinality(posting) <= Cardinality(Pledges(k))
    BY <1>1, <1>2, FS_Subset
<1>4. Cardinality(posting) \in Nat /\ Cardinality(Pledges(k)) \in Nat
    BY <1>2, <1>3, FS_CardinalityType
<1> QED BY <1>3, <1>4 DEF Exposure, Tokens, TypeOK

\* NoDuplicateTask, for every number of windows: a loop gets at most one task,
\* plus one for every time the user answered that none was created
\* (begin_reminder's guard, save's compare, one replay before the post).
THEOREM AtMostOneTask == Spec => []NoDuplicateTask
<1>1. IInv => NoDuplicateTask
    BY ExposureWithinTokens DEF IInv, Budget, Within, NoDuplicateTask, TypeOK
<1> QED BY <1>1, Invariance, PTL

\* NeverForgotten, for every number of windows and every interleaving of their
\* saves, crashes and restarts: a loop whose task exists or may still be created
\* never reads "None" in the store unless the user said so (begin_reminder).
THEOREM AttemptsAreRemembered == Spec => []NeverForgotten
<1>1. IInv => NeverForgotten
    BY ExposureWithinTokens DEF IInv, Budget, Within, NeverForgotten, Stored, TypeOK
<1> QED BY <1>1, Invariance, PTL

\* StoreTellsTheTruth, for every number of windows: "Created" is stored only for
\* a task that exists, "Completed" only for one that is completed.
THEOREM StoreIsTrue == Spec => []StoreTellsTheTruth
<1> QED BY Invariance, PTL DEF IInv

\* NoLostDecision, for every number of windows: a save changes one loop's
\* decision and keeps what the store says about the others (the compare in save).
THEOREM DecisionsSurvive == Spec => NoLostDecision
<1>1. IInv /\ [Next]_vars =>
          [credential.exists =>
             \E k \in Keys : \A j \in Keys \ {k} :
               Keeps(credential.store[j], credential'.store[j])]_vars
    <2> SUFFICES ASSUME IInv, Next
                 PROVE  \E k \in Keys : \A j \in Keys \ {k} :
                          Keeps(credential.store[j], credential'.store[j])
        OBVIOUS
    <2>1. NoSave \/ \E k \in Keys : \E r \in Records : SavesAs(k, r)
        BY StoreStep DEF IInv
    <2>2. CASE NoSave
        BY <2>2, KeysExist DEF NoSave
    <2>3. ASSUME NEW k \in Keys, NEW r \in Records, SavesAs(k, r)
          PROVE  \A j \in Keys \ {k} : Keeps(credential.store[j], credential'.store[j])
        BY <2>3, SaveKeeps DEF IInv
    <2> QED BY <2>1, <2>2, <2>3
<1> QED BY <1>1, Invariance, PTL DEF Spec, NoLostDecision
=============================================================================
