----------------------------- MODULE StoreProofs -----------------------------
(* Machine-checked proofs about what is kept in files: JsonFileStore, for    *)
(* any clients and any number of attempts, and Scheduler with Profiles, for  *)
(* any number of profiles, tasks and calls.                                  *)
EXTENDS JsonFileStore, Scheduler, TLAPS

-----------------------------------------------------------------------------
(* THE FILE STORE. *)

\* What settling the operation at the head does to the queue and its caller.
LEMMA SettlesType ==
  ASSUME JsonFileStoreAssumption, StoreTypeOK, operations # <<>>, Settles
  PROVE  /\ operations' \in Seq(Clients) /\ Head(operations) \in Clients
         /\ call' \in [Clients -> {"idle", "read", "update"}]
         /\ phase' = "idle" /\ writing' = "update" /\ attempts' = 0
         /\ attempts' \in 0..MaxAttempts
  <1>1. Head(operations) \in Clients /\ Tail(operations) \in Seq(Clients)
    BY DEF StoreTypeOK
  <1> QED
    BY <1>1 DEF Settles, StoreTypeOK, JsonFileStoreAssumption

LEMMA SettlesOrder ==
  ASSUME StoreTypeOK, QueueOrder, operations # <<>>, Settles
  PROVE  QueueOrder'
  <1>1. /\ operations' = Tail(operations) /\ operations \in Seq(Clients)
        /\ Len(operations') = Len(operations) - 1 /\ Len(operations) \in Nat
        /\ \A i \in 1..Len(operations') : operations'[i] = operations[i + 1]
    BY DEF Settles, StoreTypeOK
  <1>2. \A i \in 1..Len(operations') : i + 1 \in 1..Len(operations) /\ i + 1 # 1
    BY <1>1
  <1>3. Head(operations) = operations[1] /\ 1 \in 1..Len(operations)
    BY <1>1
  <1>4. \A i \in 1..Len(operations') :
          operations'[i] # Head(operations) /\ operations'[i] \in Clients
    BY <1>1, <1>2, <1>3 DEF QueueOrder
  <1>5. \A c \in Clients : c # Head(operations) => call'[c] = call[c]
    BY DEF Settles, StoreTypeOK
  <1> QED
    BY <1>1, <1>2, <1>4, <1>5 DEF QueueOrder

\* A rejected operation keeps the invariant: it leaves copy and file as they are.
LEMMA RejectsKeeps ==
  ASSUME JsonFileStoreAssumption, Inductive, operations # <<>>, Rejects
  PROVE  Inductive'
  BY SettlesType, SettlesOrder
  DEF Rejects, Inductive, StoreTypeOK, OperationOrder, AcknowledgedSurvives,
      AcknowledgedIsServed, CopyIsAhead, Phases

\* A finished write keeps it: the file gets the value of the copy.
LEMMA WrittenKeeps ==
  ASSUME JsonFileStoreAssumption, Inductive, phase \in {"rename", "copying"}, Written
  PROVE  Inductive'
  <1> USE DEF Inductive, StoreTypeOK, OperationOrder, AcknowledgedSurvives,
              AcknowledgedIsServed, CopyIsAhead, Phases
  <1>1. CASE writing = "defaults"
    <2>1. /\ phase' = "ready" /\ writing' = "update" /\ attempts' = 0
          /\ operations' = operations /\ call' = call /\ acked' = acked
          /\ cached' = cached /\ cache' = cache /\ file' = "whole" /\ disk' = cache
      BY <1>1 DEF Written
    <2>2. cached /\ acked \subseteq cache
      OBVIOUS
    <2>3. operations # <<>> /\ 0 \in 0..MaxAttempts
      BY DEF JsonFileStoreAssumption
    <2>4. StoreTypeOK'
      BY <2>1, <2>3
    <2>5. OperationOrder' /\ AcknowledgedSurvives'
      BY <2>1, <2>2, <2>3
    <2>6. AcknowledgedIsServed' /\ CopyIsAhead'
      BY <2>1, <2>2
    <2>7. QueueOrder'
      BY <2>1 DEF QueueOrder
    <2> QED
      BY <2>4, <2>5, <2>6, <2>7
  <1>2. CASE writing = "update"
    BY <1>2, SettlesType, SettlesOrder DEF Written
  <1> QED
    BY <1>1, <1>2

-----------------------------------------------------------------------------
LEMMA InitInductive == ASSUME JsonFileStoreAssumption, StoreInit PROVE Inductive
  <1>1. call \in [Clients -> {"idle", "read", "update"}] /\ 0 \in 0..MaxAttempts
    BY DEF StoreInit, JsonFileStoreAssumption
  <1>2. StoreTypeOK
    <2>1. operations \in Seq(Clients)
      BY DEF StoreInit
    <2>2. cached \in BOOLEAN
      BY Zenon DEF StoreInit
    <2> QED
      BY <1>1, <2>1, <2>2 DEF StoreInit, StoreTypeOK, Phases
  <1>3. OperationOrder /\ AcknowledgedSurvives
    BY DEF StoreInit, OperationOrder, AcknowledgedSurvives
  <1>4. AcknowledgedIsServed /\ CopyIsAhead
    BY DEF StoreInit, AcknowledgedIsServed, CopyIsAhead
  <1>5. QueueOrder
    BY DEF StoreInit, QueueOrder
  <1> QED
    BY <1>2, <1>3, <1>4, <1>5 DEF Inductive

LEMMA NextKeeps ==
  ASSUME JsonFileStoreAssumption, Inductive, [StoreNext]_storeVars
  PROVE  Inductive'
  <1> USE DEF Inductive, StoreTypeOK, OperationOrder, AcknowledgedSurvives,
              AcknowledgedIsServed, CopyIsAhead, Phases
  <1>0. ASSUME operations' = operations, call' = call PROVE QueueOrder'
    BY <1>0 DEF QueueOrder
  <1>1. CASE UNCHANGED storeVars
    BY <1>0, <1>1 DEF storeVars
  <1>2. ASSUME NEW c \in Clients, CallsStore(c) PROVE Inductive'
    <2>1. /\ operations' \in Seq(Clients)
          /\ phase # "idle" => operations' # <<>> /\ Head(operations') = Head(operations)
      <3>1. operations' = Append(operations, c)
        BY <1>2 DEF CallsStore
      <3> QED
        BY <3>1
    <2>2. call' \in [Clients -> {"idle", "read", "update"}]
      BY <1>2 DEF CallsStore
    <2>3. QueueOrder'
      <3>1. /\ operations' = Append(operations, c) /\ call[c] = "idle" /\ call'[c] # "idle"
            /\ \A d \in Clients : d # c => call'[d] = call[d]
        BY <1>2 DEF CallsStore
      <3>2. /\ Len(operations') = Len(operations) + 1 /\ Len(operations) \in Nat
            /\ operations'[Len(operations) + 1] = c
            /\ \A i \in 1..Len(operations) :
                 operations'[i] = operations[i] /\ operations[i] \in Clients
        BY <3>1
      <3>3. \A i \in 1..Len(operations) : operations[i] # c
        BY <3>1, <3>2 DEF QueueOrder
      <3>4. \A i \in 1..Len(operations') :
              i \in 1..Len(operations) \/ i = Len(operations) + 1
        BY <3>2
      <3> QED
        BY <3>1, <3>2, <3>3, <3>4 DEF QueueOrder
    <2> QED
      BY <1>2, <2>1, <2>2, <2>3 DEF CallsStore
  <1>3. CASE StoreRestarts
    <2>1. call' \in [Clients -> {"idle", "read", "update"}] /\ 0 \in 0..MaxAttempts
      BY <1>3 DEF StoreRestarts, JsonFileStoreAssumption
    <2>2. StoreTypeOK'
      <3>1. operations' \in Seq(Clients)
        BY <1>3 DEF StoreRestarts
      <3>2. cached' \in BOOLEAN
        BY <1>3, Zenon DEF StoreRestarts
      <3> QED
        BY <1>3, <2>1, <3>1, <3>2 DEF StoreRestarts
    <2>3. OperationOrder' /\ AcknowledgedSurvives'
      BY <1>3 DEF StoreRestarts
    <2>4. AcknowledgedIsServed' /\ CopyIsAhead'
      BY <1>3 DEF StoreRestarts
    <2>5. QueueOrder'
      BY <1>3 DEF StoreRestarts, QueueOrder
    <2> QED
      BY <2>2, <2>3, <2>4, <2>5
  <1>4. CASE Begins
    BY <1>0, <1>4, RejectsKeeps DEF Begins
  <1>5. CASE LoadsFile
    BY <1>0, <1>5 DEF LoadsFile
  <1>6. CASE LoadsDefaults
    BY <1>0, <1>6 DEF LoadsDefaults
  <1>7. CASE LoadFails \/ MutatorThrows \/ WriteFails
    BY <1>7, RejectsKeeps DEF LoadFails, MutatorThrows, WriteFails
  <1>8. CASE AnswersRead
    BY <1>8, SettlesType, SettlesOrder DEF AnswersRead
  <1>9. CASE Applies
    <2>1. Head(operations) \in Clients
      BY <1>9 DEF Applies
    <2> QED
      BY <1>0, <1>9, <2>1 DEF Applies
  <1>10. CASE WritesTemporary
    BY <1>0, <1>10 DEF WritesTemporary
  <1>11. CASE Renames \/ Copies
    BY <1>11, WrittenKeeps DEF Renames, Copies
  <1>12. CASE RenameRefused
    BY <1>0, <1>12 DEF RenameRefused, JsonFileStoreAssumption
  <1>13. CASE StartsCopy \/ CopyRefused
    BY <1>0, <1>13 DEF StartsCopy, CopyRefused, JsonFileStoreAssumption
  <1> QED
    BY <1>1, <1>2, <1>3, <1>4, <1>5, <1>6, <1>7, <1>8, <1>9, <1>10, <1>11, <1>12, <1>13
    DEF StoreNext, Operates

\* Whatever fails and whenever the process is restarted: an acknowledged update
\* is in the file, unless that is being replaced in place.
THEOREM AcknowledgedAlwaysSurvives == StoreSpec => []AcknowledgedSurvives
  <1>1. StoreInit => Inductive
    BY InitInductive, JsonFileStoreAssumption
  <1>2. Inductive /\ [StoreNext]_storeVars => Inductive'
    BY NextKeeps, JsonFileStoreAssumption
  <1>3. Inductive => AcknowledgedSurvives
    BY DEF Inductive
  <1> QED
    BY <1>1, <1>2, <1>3, PTL DEF StoreSpec

\* Where no rename is refused on every attempt, the file is never replaced in
\* place: every acknowledged update survives every restart.
THEOREM ReplacedByRenameOnly ==
  ~RenameMayStick => (StoreSpec => []NeverExposed)
  <1> SUFFICES ASSUME ~RenameMayStick PROVE StoreSpec => []NeverExposed
    OBVIOUS
  <1>1. StoreInit => NeverExposed
    BY DEF StoreInit, NeverExposed
  <1>2. NeverExposed /\ [StoreNext]_storeVars => NeverExposed'
    <2> SUFFICES ASSUME NeverExposed, [StoreNext]_storeVars PROVE NeverExposed'
      OBVIOUS
    <2> USE DEF NeverExposed, Rejects, Settles, Written
    <2>1. CASE UNCHANGED storeVars
      BY <2>1 DEF storeVars
    <2>2. ASSUME NEW c \in Clients, CallsStore(c) PROVE NeverExposed'
      BY <2>2 DEF CallsStore
    <2>3. CASE StoreRestarts
      BY <2>3 DEF StoreRestarts
    <2>4. CASE Begins \/ LoadsFile \/ LoadsDefaults \/ LoadFails \/ AnswersRead
      BY <2>4 DEF Begins, LoadsFile, LoadsDefaults, LoadFails, AnswersRead
    <2>5. CASE Applies \/ MutatorThrows \/ WritesTemporary \/ WriteFails
      BY <2>5 DEF Applies, MutatorThrows, WritesTemporary, WriteFails
    <2>6. CASE Renames \/ RenameRefused
      <3>1. ~(attempts + 1 < MaxAttempts /\ attempts + 1 = MaxAttempts)
        <4>1. ~(MaxAttempts < MaxAttempts)
          BY JsonFileStoreAssumption DEF JsonFileStoreAssumption
        <4> QED
          BY <4>1, Zenon
      <3> QED
        BY <2>6, <3>1 DEF Renames, RenameRefused
    <2>7. CASE StartsCopy \/ CopyRefused \/ Copies
      BY <2>7 DEF StartsCopy, CopyRefused, Copies
    <2> QED
      BY <2>1, <2>2, <2>3, <2>4, <2>5, <2>6, <2>7 DEF StoreNext, Operates
  <1> QED
    BY <1>1, <1>2, PTL DEF StoreSpec

-----------------------------------------------------------------------------
(* The refinement of AtomicStore. *)

\* Every step of the store is a step of the abstract one or a stutter.
LEMMA StepRefines ==
  ASSUME JsonFileStoreAssumption, Inductive, [StoreNext]_storeVars
  PROVE  [Abstract!Next]_<<Value, acked, call, Safety>>
  <1> DEFINE h == Head(operations)
             same == /\ Value' = Value /\ acked' = acked
                     /\ call' = call /\ Safety' = Safety
  <1>1. operations # <<>> => h \in Clients /\ call[h] # "idle"
    <2>1. ASSUME operations # <<>> PROVE h = operations[1] /\ 1 \in 1..Len(operations)
      BY <2>1 DEF Inductive, StoreTypeOK
    <2> QED
      BY <2>1 DEF Inductive, StoreTypeOK, QueueOrder
  <1>2. ASSUME Rejects, operations # <<>> PROVE Abstract!Answers(h)
    BY <1>1, <1>2 DEF Rejects, Settles, Abstract!Answers, Value, Safety
  <1>3. CASE UNCHANGED storeVars
    BY <1>3 DEF storeVars, Value, Safety
  <1>4. ASSUME NEW c \in Clients, CallsStore(c) PROVE Abstract!Calls(c)
    BY <1>4 DEF CallsStore, Abstract!Calls, Value, Safety
  <1>5. CASE StoreRestarts
    <2>1. CASE file # "torn"
      <3>1. acked \subseteq disk /\ disk \subseteq Value
        BY <2>1
        DEF Inductive, StoreTypeOK, OperationOrder, AcknowledgedSurvives, CopyIsAhead, Value
      <3>2. Value' = disk /\ Safety = "sound" /\ Safety' = "sound"
        BY <1>5, <2>1 DEF StoreRestarts, Value, Safety
      <3> QED
        BY <1>5, <3>1, <3>2 DEF StoreRestarts, Abstract!Restarts, Abstract!Next
    <2>2. CASE file = "torn"
      <3>1. Value' = {} /\ Safety # "sound" /\ Safety' = "broken"
        BY <1>5, <2>2 DEF StoreRestarts, Value, Safety
      <3> QED
        BY <1>5, <3>1 DEF StoreRestarts, Abstract!Restarts, Abstract!Next
    <2> QED
      BY <2>1, <2>2
  <1>6. CASE Begins
    BY <1>1, <1>2, <1>6 DEF Begins, Value, Safety, Abstract!Next
  <1>7. CASE LoadsFile \/ LoadsDefaults \/ WritesTemporary \/ RenameRefused \/ CopyRefused
    <2>1. same
      BY <1>7
      DEF LoadsFile, LoadsDefaults, WritesTemporary, RenameRefused, CopyRefused, Value,
          Safety, Inductive, OperationOrder
    <2> QED
      BY <2>1
  <1>8. CASE LoadFails \/ MutatorThrows \/ WriteFails
    <2>1. Rejects /\ operations # <<>>
      BY <1>8 DEF LoadFails, MutatorThrows, WriteFails, Inductive, OperationOrder
    <2> QED
      BY <1>1, <1>2, <2>1 DEF Abstract!Next
  <1>9. CASE AnswersRead
    <2>1. operations # <<>>
      BY <1>9 DEF AnswersRead, Inductive, OperationOrder
    <2>2. Abstract!Answers(h)
      BY <1>1, <1>9, <2>1 DEF AnswersRead, Settles, Abstract!Answers, Value, Safety
    <2> QED
      BY <1>1, <2>1, <2>2 DEF Abstract!Next
  <1>10. CASE Applies
    <2>1. operations # <<>> /\ cached
      BY <1>10 DEF Applies, Inductive, OperationOrder
    <2>2. Abstract!Applies(h)
      BY <1>10, <2>1 DEF Applies, Abstract!Applies, Value, Safety
    <2> QED
      BY <1>1, <2>1, <2>2 DEF Abstract!Next
  <1>11. CASE Renames \/ Copies
    <2>1. /\ operations # <<>> /\ cached /\ Safety # "broken" /\ Written
          /\ writing = "update" => h \in cache /\ call[h] = "update"
      BY <1>11 DEF Renames, Copies, Inductive, OperationOrder, Safety
    <2>2. CASE writing = "defaults"
      <3>1. Abstract!Exposes
        BY <1>1, <2>1, <2>2 DEF Written, Value, Safety, Abstract!Exposes
      <3> QED
        BY <3>1 DEF Abstract!Next
    <2>3. ASSUME writing = "update" PROVE Abstract!Acknowledges(h)
      BY <2>1, <2>3 DEF Written, Settles, Abstract!Acknowledges, Value, Safety
    <2> QED
      BY <1>1, <2>1, <2>2, <2>3 DEF Written, Abstract!Next
  <1>12. CASE StartsCopy
    <2>1. operations # <<>> /\ cached
      BY <1>12 DEF StartsCopy, Inductive, OperationOrder
    <2>2. Abstract!Exposes
      BY <1>1, <1>12, <2>1 DEF StartsCopy, Value, Safety, Abstract!Exposes
    <2> QED
      BY <2>2 DEF Abstract!Next
  <1> QED
    BY <1>3, <1>4, <1>5, <1>6, <1>7, <1>8, <1>9, <1>10, <1>11, <1>12
    DEF StoreNext, Operates, Abstract!Next

\* The file store is an atomic store whose acknowledged updates survive every
\* restart that does not meet it while it is exposed.
THEOREM AtomicStoreImplemented == StoreSpec => ImplementsAtomicStore
  <1>1. StoreInit => Inductive
    BY InitInductive, JsonFileStoreAssumption
  <1>2. Inductive /\ [StoreNext]_storeVars => Inductive'
    BY NextKeeps, JsonFileStoreAssumption
  <1>3. StoreInit => Abstract!Init
    BY DEF StoreInit, Abstract!Init, Value, Safety
  <1>4. Inductive /\ [StoreNext]_storeVars => [Abstract!Next]_<<Value, acked, call, Safety>>
    BY StepRefines, JsonFileStoreAssumption
  <1> QED
    BY <1>1, <1>2, <1>3, <1>4, PTL
    DEF StoreSpec, ImplementsAtomicStore, Abstract!Spec, Abstract!atomicVars

-----------------------------------------------------------------------------
(* PROFILES AND SCHEDULED TASKS. *)

ProfileRecords == [isActive : BOOLEAN] \cup {NoProfile}

\* What MarkFollowsPointer says, of the profiles `ps` and the pointer `a`.
PointerHolds(ps, a) ==
  /\ a \in ProfileIds /\ ps[a] # NoProfile
  /\ \A p \in ProfileIds : ps[p] # NoProfile /\ ps[p].isActive => p = a

ProfilesHold(ps, a) == ps \in [ProfileIds -> ProfileRecords] /\ PointerHolds(ps, a)

\* What OnceIsOver says of the task `task`.
Over(task) ==
  task # NoTask /\ task.cadence = "once" /\ task.lastRun = "success" /\ ~task.again
    => ~task.enabled /\ task.nextRunAt = "never"

TasksHold(ts) ==
  /\ ts \in [TaskIds -> Tasks \cup {NoTask}]
  /\ \A t \in TaskIds : Over(ts[t])

CallsHold ==
  /\ calls \in [Calls -> [pc : {"idle", "ran", "failed"}, task : TaskIds \cup {NoTask}]]
  /\ \A c \in Calls : calls[c].pc # "idle" => calls[c].task \in TaskIds

\* A start goes back to the files, so they are as sound as what is in memory.
Inv ==
  /\ ProfilesHold(profiles, activeProfileId)
  /\ ProfilesHold(profilesFile[1], profilesFile[2])
  /\ TasksHold(tasks) /\ TasksHold(tasksFile)
  /\ created \subseteq TaskIds
  /\ CallsHold

LEMMA InvIsSound == Inv => StoresSound
  BY DEF Inv, StoresSound, TypeOK, MarkFollowsPointer, OnceIsOver, ProfilesHold, PointerHolds,
         TasksHold, CallsHold, Over, Known, Exists, ProfileRecords

-----------------------------------------------------------------------------
(* The profiles. *)

LEMMA MarkRecord ==
  ASSUME NEW r \in [isActive : BOOLEAN], NEW b \in BOOLEAN
  PROVE  [r EXCEPT !.isActive = b] = [isActive |-> b]
  OBVIOUS

LEMMA MarkedProfile ==
  ASSUME NEW b \in BOOLEAN
  PROVE  LET marked == [isActive |-> b]
         IN  marked \in ProfileRecords /\ marked # NoProfile /\ marked.isActive = b
  <1>1. [isActive |-> b] \in [isActive : BOOLEAN]
    OBVIOUS
  <1>2. [isActive |-> b].isActive = b
    OBVIOUS
  <1> QED
    BY <1>1, <1>2, ProfilesAssumption, Zenon DEF ProfileRecords

LEMMA PutHolds ==
  ASSUME ProfilesHold(profiles, activeProfileId), NEW p \in ProfileIds, NEW activate \in BOOLEAN,
         Put(p, activate)
  PROVE  ProfilesHold(profiles', activeProfileId')
  <1>1. \A q \in ProfileIds :
          profiles'[q] = IF q = p THEN [isActive |-> activate]
                         ELSE IF Known(q) /\ activate THEN [isActive |-> FALSE]
                         ELSE profiles[q]
    <2>1. \A q \in ProfileIds : Known(q) => profiles[q] \in [isActive : BOOLEAN]
      BY DEF ProfilesHold, ProfileRecords, Known
    <2>2. \A q \in ProfileIds : Known(q) => [profiles[q] EXCEPT !.isActive = FALSE] = [isActive |-> FALSE]
      BY <2>1, MarkRecord
    <2>3. profiles' = [q \in ProfileIds |->
                         IF q = p THEN [isActive |-> activate]
                         ELSE IF Known(q) /\ activate THEN [profiles[q] EXCEPT !.isActive = FALSE]
                         ELSE profiles[q]]
      BY DEF Put
    <2> QED
      BY <2>2, <2>3, Zenon
  <1>3. profiles' \in [ProfileIds -> ProfileRecords]
    <2>1. \A q \in ProfileIds : profiles'[q] \in ProfileRecords
      <3>1. \A q \in ProfileIds : profiles[q] \in ProfileRecords
        BY DEF ProfilesHold
      <3>2. [isActive |-> activate] \in ProfileRecords /\ [isActive |-> FALSE] \in ProfileRecords
        BY MarkedProfile
      <3> QED
        BY <1>1, <3>1, <3>2, Zenon
    <2> QED
      BY <2>1 DEF Put
  <1>4. CASE activate
    <2>1. activeProfileId' = p /\ profiles'[p] = [isActive |-> TRUE]
      BY <1>1, <1>4 DEF Put
    <2>2. ASSUME NEW q \in ProfileIds, profiles'[q] # NoProfile, profiles'[q].isActive
          PROVE  q = p
      BY <1>1, <1>4, <2>2 DEF Known
    <2>3. profiles'[p] # NoProfile
      BY <2>1, MarkedProfile
    <2> QED
      BY <1>3, <2>1, <2>2, <2>3 DEF ProfilesHold, PointerHolds
  <1>5. CASE ~activate
    <2>1. activeProfileId' = activeProfileId
      BY <1>5 DEF Put
    <2>2. profiles'[activeProfileId] # NoProfile
      BY <1>1, <1>5, ProfilesAssumption DEF ProfilesHold, PointerHolds
    <2>3. ASSUME NEW q \in ProfileIds, profiles'[q] # NoProfile, profiles'[q].isActive
          PROVE  q = activeProfileId
      BY <1>1, <1>5, <2>3 DEF ProfilesHold, PointerHolds
    <2> QED
      BY <1>3, <2>1, <2>2, <2>3 DEF ProfilesHold, PointerHolds
  <1> QED
    BY <1>4, <1>5

LEMMA ActivateHolds ==
  ASSUME ProfilesHold(profiles, activeProfileId), NEW p \in ProfileIds, activateProfile(p)
  PROVE  ProfilesHold(profiles', activeProfileId')
  <1>1. \A q \in ProfileIds : Known(q) => profiles[q] \in [isActive : BOOLEAN]
    BY DEF ProfilesHold, ProfileRecords, Known
  <1>2. \A q \in ProfileIds :
          /\ Known(q) => profiles'[q] = [isActive |-> q = p]
          /\ ~Known(q) => profiles'[q] = NoProfile
    <2>1. ASSUME NEW q \in ProfileIds, Known(q)
          PROVE  profiles'[q] = [isActive |-> q = p]
      <3>1. profiles'[q] = [profiles[q] EXCEPT !.isActive = q = p]
        BY <2>1 DEF activateProfile
      <3> DEFINE b == q = p
      <3>2. profiles[q] \in [isActive : BOOLEAN] /\ b \in BOOLEAN
        BY <1>1, <2>1
      <3> HIDE DEF b
      <3>3. [profiles[q] EXCEPT !.isActive = b] = [isActive |-> b]
        BY <3>2, MarkRecord
      <3> QED
        BY <3>1, <3>3 DEF b
    <2> QED
      BY <2>1 DEF activateProfile
  <1>3. profiles' \in [ProfileIds -> ProfileRecords]
    <2>1. \A q \in ProfileIds : [isActive |-> q = p] \in ProfileRecords
      BY MarkedProfile
    <2>2. \A q \in ProfileIds : profiles'[q] \in ProfileRecords
      BY <1>2, <2>1, Zenon DEF ProfileRecords
    <2> QED
      BY <2>2 DEF activateProfile
  <1>4. PointerHolds(profiles', p)
    <2>1. profiles'[p] # NoProfile
      <3>1. profiles'[p] \in [isActive : BOOLEAN]
        BY <1>2 DEF activateProfile
      <3> QED
        BY <3>1, ProfilesAssumption
    <2>2. ASSUME NEW q \in ProfileIds, profiles'[q] # NoProfile, profiles'[q].isActive
          PROVE  q = p
      <3>1. [isActive |-> q = p].isActive = (q = p)
        OBVIOUS
      <3> QED
        BY <1>2, <2>2, <3>1, Zenon
    <2> QED
      BY <2>1, <2>2 DEF PointerHolds
  <1> QED
    BY <1>3, <1>4 DEF activateProfile, ProfilesHold

LEMMA ProfilesNextHolds ==
  ASSUME Inv, ProfilesNext
  PROVE  /\ ProfilesHold(profiles', activeProfileId')
         /\ ProfilesHold(profilesFile'[1], profilesFile'[2])
  <1>1. ProfilesHold(profiles, activeProfileId)
    BY DEF Inv
  <1>2. PICK p \in ProfileIds : createProfile(p) \/ importProfile(p) \/ activateProfile(p)
    BY DEF ProfilesNext
  <1>3. ProfilesHold(profiles', activeProfileId')
    <2>1. CASE activateProfile(p)
      BY <1>1, <2>1, ActivateHolds
    <2>2. CASE createProfile(p) \/ importProfile(p)
      <3>1. PICK activate \in BOOLEAN : Put(p, activate)
        BY <2>2 DEF createProfile, importProfile
      <3> QED
        BY <1>1, <3>1, PutHolds
    <2> QED
      BY <1>2, <2>1, <2>2
  <1> QED
    BY <1>3 DEF ProfilesNext, Inv

-----------------------------------------------------------------------------
(* The tasks. *)

\* A task whose record is replaced by a sound one.
LEMMA OneTaskHolds ==
  ASSUME TasksHold(tasks), NEW t \in TaskIds, NEW task \in Tasks \cup {NoTask}, Over(task),
         tasks' = [tasks EXCEPT ![t] = task]
  PROVE  TasksHold(tasks')
  BY DEF TasksHold

LEMMA TasksNextHolds ==
  ASSUME TasksHold(tasks), TasksHold(tasksFile), created \subseteq TaskIds, TasksNext
  PROVE  TasksHold(tasks') /\ TasksHold(tasksFile') /\ created' \subseteq TaskIds
  <1>1. PICK t \in TaskIds :
          \/ \E cadence \in Cadences, scheduleAt \in {"never", "given"}, enabled \in BOOLEAN :
               createTask(t, cadence, scheduleAt, enabled)
          \/ \E enabled \in BOOLEAN : setTaskEnabled(t, enabled)
          \/ deleteTask(t)
    BY DEF TasksNext
  <1>2. TasksHold(tasks') /\ created' \subseteq TaskIds
    <2>1. ASSUME NEW cadence \in Cadences, NEW scheduleAt \in {"never", "given"},
                 NEW enabled \in BOOLEAN, createTask(t, cadence, scheduleAt, enabled)
          PROVE  TasksHold(tasks') /\ created' \subseteq TaskIds
      <3> DEFINE task == [cadence |-> cadence, scheduleAt |-> scheduleAt, enabled |-> enabled,
                          nextRunAt |-> scheduleAt, lastRun |-> "never", again |-> FALSE]
      <3>1. task \in Tasks /\ Over(task)
        BY DEF Tasks, Over
      <3>2. tasks' = [tasks EXCEPT ![t] = task] /\ created' \subseteq TaskIds
        BY <2>1 DEF createTask
      <3> QED
        BY <3>1, <3>2, OneTaskHolds
    <2>2. ASSUME NEW enabled \in BOOLEAN, setTaskEnabled(t, enabled)
          PROVE  TasksHold(tasks') /\ created' \subseteq TaskIds
      <3> DEFINE old == tasks[t]
                 task == [old EXCEPT !.enabled = enabled, !.again = old.again \/ enabled,
                            !.nextRunAt = IF enabled THEN computeNextRun(old) ELSE "never"]
      <3>1. old \in Tasks /\ Over(old)
        BY <2>2 DEF setTaskEnabled, Exists, TasksHold
      <3>2. computeNextRun(old) \in {"never", "given", "tomorrow"}
        BY <3>1 DEF computeNextRun, Tasks
      <3>3. task \in Tasks /\ Over(task)
        BY <3>1, <3>2 DEF Tasks, Over
      <3>4. tasks' = [tasks EXCEPT ![t] = task] /\ created' = created
        BY <2>2 DEF setTaskEnabled
      <3> QED
        BY <3>3, <3>4, OneTaskHolds
    <2>3. CASE deleteTask(t)
      <3>1. Over(NoTask)
        BY DEF Over
      <3> QED
        BY <2>3, <3>1, OneTaskHolds DEF deleteTask
    <2> QED
      BY <1>1, <2>1, <2>2, <2>3
  <1> QED
    BY <1>2 DEF TasksNext

LEMMA RanHolds ==
  ASSUME NEW task \in Tasks
  PROVE  Ran(task) \in Tasks /\ Over(Ran(task))
  <1>1. computeNextRun(task) \in {"never", "given", "tomorrow"}
    BY DEF computeNextRun, Tasks
  <1> QED
    BY <1>1 DEF Ran, Tasks, Over

LEMMA RunStepHolds ==
  ASSUME Inv, NEW c \in Calls, RunStep(c)
  PROVE  TasksHold(tasks') /\ TasksHold(tasksFile') /\ CallsHold'
  <1> DEFINE t == calls[c].task
  <1>0. TasksHold(tasks) /\ TasksHold(tasksFile) /\ CallsHold
    BY DEF Inv
  <1>1. calls[c].pc # "idle" => t \in TaskIds
    BY <1>0 DEF CallsHold
  <1>2. ASSUME calls[c].pc # "idle", NEW task, Recorded(c, task),
               Exists(t) => task \in Tasks /\ Over(task)
        PROVE  TasksHold(tasks')
    BY <1>0, <1>1, <1>2, OneTaskHolds DEF Recorded
  <1>3. calls[c].pc # "idle" /\ Exists(t) => tasks[t] \in Tasks /\ Over(tasks[t])
    BY <1>0, <1>1 DEF TasksHold, Exists
  <1>4. CASE RecordsSuccess(c)
    <2>1. TasksHold(tasks')
      BY <1>2, <1>3, <1>4, RanHolds DEF RecordsSuccess
    <2>2. CallsHold'
      BY <1>0, <1>4 DEF RecordsSuccess, CallsHold, Idle
    <2> QED
      BY <1>4, <2>1, <2>2 DEF RecordsSuccess
  <1>5. CASE RecordRefused(c)
    <2>1. TasksHold(tasks')
      BY <1>2, <1>3, <1>5, RanHolds DEF RecordRefused
    <2>2. CallsHold'
      BY <1>0, <1>1, <1>5 DEF RecordRefused, CallsHold
    <2> QED
      BY <1>0, <1>5, <2>1, <2>2 DEF RecordRefused
  <1>6. CASE RecordsError(c)
    <2> DEFINE task == [tasks[t] EXCEPT !.lastRun = "error"]
    <2>1. Exists(t) => task \in Tasks /\ Over(task)
      BY <1>3, <1>6 DEF RecordsError, Tasks, Over
    <2>2. TasksHold(tasks')
      <3>1. Recorded(c, task) /\ calls[c].pc # "idle"
        BY <1>6 DEF RecordsError
      <3> HIDE DEF task
      <3> QED
        BY <1>2, <2>1, <3>1
    <2>3. CallsHold'
      BY <1>0, <1>6 DEF RecordsError, CallsHold, Idle
    <2> QED
      BY <1>0, <1>6, <2>2, <2>3 DEF RecordsError
  <1>7. ASSUME NEW u \in TaskIds, RunReads(c, u)
        PROVE  TasksHold(tasks') /\ TasksHold(tasksFile') /\ CallsHold'
    BY <1>0, <1>7 DEF RunReads, CallsHold
  <1> QED
    BY <1>4, <1>5, <1>6, <1>7 DEF RunStep

-----------------------------------------------------------------------------

LEMMA InitHolds == Init => Inv
  <1> SUFFICES ASSUME Init PROVE Inv
    OBVIOUS
  <1>1. PICK p \in ProfileIds :
          /\ activeProfileId = p
          /\ profiles = [q \in ProfileIds |->
                           IF q = p THEN [isActive |-> TRUE] ELSE NoProfile]
          /\ profilesFile = <<profiles, activeProfileId>>
    BY DEF Init, ProfilesInit
  <1>2. ProfilesHold(profiles, activeProfileId)
    <2>1. profiles \in [ProfileIds -> ProfileRecords]
      BY <1>1 DEF ProfileRecords
    <2>2. profiles[p] = [isActive |-> TRUE]
          /\ \A q \in ProfileIds : profiles[q] # NoProfile => q = p
      BY <1>1
    <2>3. profiles[p] # NoProfile
      BY <2>2, MarkedProfile
    <2> QED
      BY <1>1, <2>1, <2>2, <2>3 DEF ProfilesHold, PointerHolds
  <1>3. TasksHold(tasks) /\ CallsHold
    BY DEF Init, TasksHold, CallsHold, Over, Idle
  <1> QED
    BY <1>1, <1>2, <1>3 DEF Init, Inv

LEMMA NextHolds == Inv /\ [Next]_vars => Inv'
  <1> SUFFICES ASSUME Inv, [Next]_vars PROVE Inv'
    OBVIOUS
  <1>1. CASE ProfilesNext /\ UNCHANGED <<tasks, tasksFile, created, calls>>
    BY <1>1, ProfilesNextHolds DEF Inv, CallsHold
  <1>2. CASE TasksNext /\ UNCHANGED <<profileVars, calls>>
    BY <1>2, TasksNextHolds DEF Inv, CallsHold, profileVars
  <1>3. ASSUME NEW c \in Calls, RunStep(c), UNCHANGED <<profileVars, created>>
        PROVE  Inv'
    BY <1>3, RunStepHolds DEF Inv, profileVars
  <1>4. CASE Restarts
    BY <1>4 DEF Restarts, ProfilesRead, Inv, CallsHold, Idle
  <1>5. CASE UNCHANGED vars
    BY <1>5 DEF vars, profileVars, Inv, CallsHold
  <1> QED
    BY <1>1, <1>2, <1>3, <1>4, <1>5 DEF Next

\* Whatever calls overlap, whichever writes the disk refuses and whenever the agent
\* starts again: the pointer of BasicProfileMemory names the one marked profile, and a
\* task that was to run once is over after its run.
THEOREM StoresAlwaysSound == Spec => []StoresSound
  BY InitHolds, NextHolds, InvIsSound, PTL DEF Spec

\* A step of runTask brings no deleted task back, switches none on and plans none that
\* is off.
THEOREM RunsAlwaysOnlyRecord == Spec => RunsOnlyRecord
  <1>1. ASSUME Inv, [Next]_vars, calls' # calls, ~Restarts, NEW u \in TaskIds, Exists(u)'
        PROVE  /\ Exists(u)
               /\ tasks'[u].enabled => tasks[u].enabled
               /\ tasks'[u].nextRunAt \in {tasks[u].nextRunAt, "never"} \/ tasks'[u].enabled
    <2>0. TasksHold(tasks) /\ CallsHold
      BY <1>1 DEF Inv
    <2>1. PICK c \in Calls : RunStep(c)
      BY <1>1 DEF Next, vars
    <2> DEFINE t == calls[c].task
    <2>2. tasks' = tasks \/ \E task : Recorded(c, task)
      BY <2>1 DEF RunStep, RecordsSuccess, RecordRefused, RecordsError, RunReads
    <2>3. Exists(u) /\ (u # t => tasks'[u] = tasks[u])
      BY <1>1, <2>0, <2>2 DEF Recorded, Exists, TasksHold
    <2>4. tasks[u] \in Tasks
      BY <2>0, <2>3 DEF TasksHold, Exists
    <2>5. CASE u = t
      <3>1. tasks'[u] \in {tasks[u], Ran(tasks[u]), [tasks[u] EXCEPT !.lastRun = "error"]}
        BY <2>0, <2>1, <2>3, <2>5
        DEF RunStep, RecordsSuccess, RecordRefused, RecordsError, RunReads, Recorded, TasksHold
      <3> QED
        BY <2>3, <2>4, <3>1 DEF Ran, computeNextRun, Tasks
    <2> QED
      BY <2>3, <2>5
  <1>2. Inv /\ [Next]_vars =>
          [calls' # calls /\ ~Restarts =>
             \A t \in TaskIds :
               Exists(t)' => /\ Exists(t)
                             /\ tasks'[t].enabled => tasks[t].enabled
                             /\ tasks'[t].nextRunAt \in {tasks[t].nextRunAt, "never"}
                                \/ tasks'[t].enabled]_vars
    BY <1>1
  <1>3. Spec => []Inv
    BY InitHolds, NextHolds, PTL DEF Spec
  <1> QED
    BY <1>2, <1>3, PTL DEF Spec, RunsOnlyRecord
=============================================================================
