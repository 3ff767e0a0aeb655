---------------------------- MODULE JsonFileStore ----------------------------
(***************************************************************************)
(* JsonFileStore of packages/persistence, under every store of the agent:  *)
(* one JSON file, a copy of it in memory, and a queue that runs one        *)
(* operation at a time.  A write updates the copy, writes a temporary file *)
(* and renames it over the file; when the rename keeps being refused, the  *)
(* temporary file is copied over it instead.                               *)
(*                                                                         *)
(* The value of the store is the set of clients whose update is in it; the *)
(* defaults are the empty set.  Directories and the clean-up of temporary  *)
(* files that are fifteen minutes old are left out, except that they fail. *)
(***************************************************************************)
EXTENDS Naturals, Sequences

CONSTANTS
  Clients,         \* who calls read and update
  MaxAttempts,     \* length of FILE_REPLACE_RETRY_DELAYS_MS plus one
  RenameMayStick   \* the rename may be refused on every attempt

ASSUME JsonFileStoreAssumption == MaxAttempts \in Nat \ {0} /\ RenameMayStick \in BOOLEAN

VARIABLES
  operations, \* operationQueue: the clients whose call is running or waiting
  call,       \* the call each client is waiting for
  phase,      \* how far the operation at the head has come
  writing,    \* what the current write is for: the defaults or the update
  attempts,   \* refused attempts to replace the file
  cached,     \* the store holds a copy of the file,
  cache,      \* and this is its value
  file,       \* the state of the file: "absent", "whole" or "torn",
  disk,       \* and its value, when it is whole
  acked       \* the clients whose update was acknowledged

storeVars == <<operations, call, phase, writing, attempts, cached, cache, file, disk, acked>>

Phases == {"idle", "load", "ready", "temporary", "rename", "copy", "copying"}

StoreTypeOK ==
  /\ operations \in Seq(Clients)
  /\ call \in [Clients -> {"idle", "read", "update"}]
  /\ phase \in Phases
  /\ writing \in {"defaults", "update"}
  /\ attempts \in 0..MaxAttempts
  /\ cached \in BOOLEAN /\ cache \in SUBSET Clients
  /\ file \in {"absent", "whole", "torn"} /\ disk \in SUBSET Clients
  /\ acked \in SUBSET Clients

StoreInit ==
  /\ operations = <<>>
  /\ call = [c \in Clients |-> "idle"]
  /\ phase = "idle" /\ writing = "update" /\ attempts = 0
  /\ cached = FALSE /\ cache = {}
  /\ file = "absent" /\ disk = {}
  /\ acked = {}

-----------------------------------------------------------------------------
CallsStore(c) ==
  /\ call[c] = "idle"
  /\ \E kind \in {"read", "update"} : call' = [call EXCEPT ![c] = kind]
  /\ operations' = Append(operations, c)
  /\ UNCHANGED <<phase, writing, attempts, cached, cache, file, disk, acked>>

\* The operation at the head is settled and the next one may begin.
Settles ==
  /\ call' = [call EXCEPT ![Head(operations)] = "idle"]
  /\ operations' = Tail(operations)
  /\ phase' = "idle" /\ writing' = "update" /\ attempts' = 0

\* Mutant: the queue stays behind the operation that failed.
Rejects_Blocks ==
  /\ call' = [call EXCEPT ![Head(operations)] = "idle"]
  /\ phase' = "idle"
  /\ UNCHANGED <<operations, writing, attempts, cached, cache, file, disk, acked>>

\* It is rejected; the copy in memory stays as it is.
Rejects == Settles /\ UNCHANGED <<cached, cache, file, disk, acked>>

\* readInternal: clean up, then use the copy or load the file.
Begins ==
  /\ phase = "idle" /\ operations # <<>>
  /\ \/ /\ phase' = IF cached THEN "ready" ELSE "load"
        /\ UNCHANGED <<operations, call, writing, attempts, cached, cache, file, disk, acked>>
     \/ Rejects

LoadsFile ==
  /\ phase = "load" /\ file = "whole"
  /\ cached' = TRUE /\ cache' = disk
  /\ phase' = "ready"
  /\ UNCHANGED <<operations, call, writing, attempts, file, disk, acked>>

\* A missing file: the defaults become the copy and are written.
LoadsDefaults ==
  /\ phase = "load" /\ file = "absent"
  /\ cached' = TRUE /\ cache' = {}
  /\ phase' = "temporary" /\ writing' = "defaults"
  /\ UNCHANGED <<operations, call, attempts, file, disk, acked>>

\* Mutant: a file that cannot be read counts as missing.
LoadFails_Defaults ==
  /\ phase = "load" /\ file # "absent"
  /\ cached' = TRUE /\ cache' = {}
  /\ phase' = "temporary" /\ writing' = "defaults"
  /\ UNCHANGED <<operations, call, attempts, file, disk, acked>>

\* A file that cannot be read or parsed.
LoadFails == phase = "load" /\ file # "absent" /\ Rejects

AnswersRead ==
  /\ phase = "ready" /\ call[Head(operations)] = "read"
  /\ Settles
  /\ UNCHANGED <<cached, cache, file, disk, acked>>

\* Mutant: the update is acknowledged when the copy has it.
Applies_AcknowledgesEarly ==
  /\ phase = "ready" /\ call[Head(operations)] = "update"
  /\ cache' = cache \cup {Head(operations)} /\ acked' = acked \cup {Head(operations)}
  /\ phase' = "temporary" /\ writing' = "update"
  /\ UNCHANGED <<operations, call, attempts, cached, file, disk>>

\* The mutator runs on a clone; the copy is replaced before the file is.
Applies ==
  /\ phase = "ready" /\ call[Head(operations)] = "update"
  /\ cache' = cache \cup {Head(operations)}
  /\ phase' = "temporary" /\ writing' = "update"
  /\ UNCHANGED <<operations, call, attempts, cached, file, disk, acked>>

MutatorThrows == phase = "ready" /\ call[Head(operations)] = "update" /\ Rejects

-----------------------------------------------------------------------------
(* writeInternal and replaceFileWithRetries. *)

WritesTemporary ==
  /\ phase = "temporary"
  /\ phase' = "rename"
  /\ UNCHANGED <<operations, call, writing, attempts, cached, cache, file, disk, acked>>

\* Creating the directory, the clean-up, the temporary file, or a rename or a
\* copy fails for a reason that is not retried.
WriteFails == phase \in {"temporary", "rename", "copy", "copying"} /\ Rejects

\* The write is done: the update is acknowledged, or the defaults are in place
\* and the operation goes on.
Written ==
  /\ file' = "whole" /\ disk' = cache
  /\ \/ /\ writing = "update"
        /\ acked' = acked \cup {Head(operations)}
        /\ Settles
     \/ /\ writing = "defaults"
        /\ phase' = "ready" /\ writing' = "update" /\ attempts' = 0
        /\ UNCHANGED <<operations, call, acked>>
  /\ UNCHANGED <<cached, cache>>

Renames == phase = "rename" /\ Written

RenameRefused ==
  /\ phase = "rename"
  /\ RenameMayStick \/ attempts + 1 < MaxAttempts
  /\ \/ attempts + 1 < MaxAttempts /\ attempts' = attempts + 1 /\ UNCHANGED phase
     \/ attempts + 1 = MaxAttempts /\ attempts' = 0 /\ phase' = "copy"
  /\ UNCHANGED <<operations, call, writing, cached, cache, file, disk, acked>>

\* copyFile truncates the file before it fills it.
StartsCopy ==
  /\ phase = "copy"
  /\ phase' = "copying" /\ file' = "torn"
  /\ UNCHANGED <<operations, call, writing, attempts, cached, cache, disk, acked>>

CopyRefused ==
  /\ phase \in {"copy", "copying"}
  /\ attempts + 1 < MaxAttempts
  /\ attempts' = attempts + 1 /\ phase' = "copy"
  /\ UNCHANGED <<operations, call, writing, cached, cache, file, disk, acked>>

Copies == phase = "copying" /\ Written

-----------------------------------------------------------------------------
\* The process stops at any moment and is started again.
StoreRestarts ==
  /\ operations' = <<>>
  /\ call' = [c \in Clients |-> "idle"]
  /\ phase' = "idle" /\ writing' = "update" /\ attempts' = 0
  /\ cached' = FALSE /\ cache' = {}
  /\ UNCHANGED <<file, disk, acked>>

Operates ==
  \/ Begins \/ LoadsFile \/ LoadsDefaults \/ LoadFails
  \/ AnswersRead \/ Applies \/ MutatorThrows
  \/ WritesTemporary \/ WriteFails \/ Renames \/ RenameRefused
  \/ StartsCopy \/ CopyRefused \/ Copies

StoreNext == Operates \/ (\E c \in Clients : CallsStore(c)) \/ StoreRestarts

StoreSpec == StoreInit /\ [][StoreNext]_storeVars

\* The file system answers every request, with whatever result.
FairStoreSpec == StoreSpec /\ WF_storeVars(Operates)

-----------------------------------------------------------------------------
(* Properties. *)

\* An acknowledged update is on the disk, in a file that can be read, from its
\* acknowledgement on: at every moment of a later write, failed or not, and
\* after a restart.  The one exception is a file that is being replaced in
\* place after its rename was refused for good.
AcknowledgedSurvives ==
  acked # {} => file = "torn" \/ (file = "whole" /\ acked \subseteq disk)

\* "serializes concurrent updates without losing writes"
\* (persistence.test.ts:32): the copy every later call works on has all the
\* acknowledged updates, also after a write that failed half-way.
AcknowledgedIsServed == cached => acked \subseteq cache

\* The copy never falls behind the file: what is on the disk is in the copy, and
\* more only while an operation writes or after one whose write failed.
CopyIsAhead == cached /\ file = "whole" => disk \subseteq cache

\* The order the operation at the head follows.
OperationOrder ==
  /\ phase # "idle" => operations # <<>>
  /\ phase \notin {"idle", "load"} => cached
  /\ phase \notin {"idle", "load", "ready"} /\ writing = "update" =>
       Head(operations) \in cache /\ call[Head(operations)] = "update"
  /\ phase = "load" => ~cached
  /\ file = "absent" => disk = {}

\* The queue holds every client once that is waiting for a call, and no other.
QueueOrder ==
  /\ \A i \in 1..Len(operations) : call[operations[i]] # "idle"
  /\ \A i, j \in 1..Len(operations) : operations[i] = operations[j] => i = j

\* The inductive invariant behind AcknowledgedSurvives and the refinement.
Inductive ==
  /\ StoreTypeOK /\ OperationOrder /\ QueueOrder
  /\ AcknowledgedSurvives /\ AcknowledgedIsServed /\ CopyIsAhead

\* A file that is torn was torn by the copy that follows a rename refused on
\* every attempt: where renames succeed in the end, the file is never exposed.
NeverExposed == phase \notin {"copy", "copying"} /\ file # "torn"

\* Every call is answered: an operation that fails lets the next one run.
CallsAreAnswered == \A c \in Clients : call[c] # "idle" ~> call[c] = "idle"

\* The store implements the abstract one: the value is the copy, or what a
\* process without a copy would load.
Value == IF cached THEN cache ELSE IF file = "torn" THEN {} ELSE disk

Safety == IF file # "torn" THEN "sound" ELSE IF cached THEN "exposed" ELSE "broken"

Abstract == INSTANCE AtomicStore WITH value <- Value, safety <- Safety

ImplementsAtomicStore == Abstract!Spec
=============================================================================
