------------------------------ MODULE Profiles ------------------------------
(***************************************************************************)
(* The profile memory of packages/memory: FileProfileMemoryBackend.  Every *)
(* operation is one update of the store, which JsonFileStore serves one    *)
(* after the other; one that throws changes nothing and is not a step, but one   *)
(* whose write the disk refuses has changed the copy in memory already,    *)
(* which holds until the agent starts again.                               *)
(*                                                                         *)
(* Of a profile it is kept whether it is there and whether it is marked as *)
(* active; resetProfile, which empties one, changes neither.               *)
(***************************************************************************)
CONSTANTS
  ProfileIds,
  NoProfile

ASSUME ProfilesAssumption ==
  NoProfile \notin ProfileIds \cup [isActive : BOOLEAN] /\ ProfileIds # {}

VARIABLES
  profiles,         \* by id; NoProfile where there is none
  activeProfileId,
  profilesFile      \* the two as they are on the disk

profileVars == <<profiles, activeProfileId, profilesFile>>

Known(p) == profiles[p] # NoProfile

\* createProfile and importProfile: the profile `p` is put in, whatever was there
\* under its id, and the marks of the others go if it is to be the active one.
Put(p, activate) ==
  /\ profiles' = [q \in ProfileIds |->
       IF q = p THEN [isActive |-> activate]
       ELSE IF Known(q) /\ activate THEN [profiles[q] EXCEPT !.isActive = FALSE]
       ELSE profiles[q]]
  /\ activeProfileId' = IF activate THEN p ELSE activeProfileId

\* The first profile is the active one.
createProfile(p) == ~Known(p) /\ Put(p, activeProfileId = NoProfile)

\* Mutant: the profile that was active keeps its mark.
activateProfile_Marks(p) ==
  /\ Known(p)
  /\ profiles' = [profiles EXCEPT ![p] = [@ EXCEPT !.isActive = TRUE]]
  /\ activeProfileId' = p

activateProfile(p) ==
  /\ Known(p)
  /\ profiles' = [q \in ProfileIds |->
       IF Known(q) THEN [profiles[q] EXCEPT !.isActive = q = p] ELSE NoProfile]
  /\ activeProfileId' = p

\* The caller says whether the profile becomes the active one, or leaves it open.
importProfile(p) ==
  \/ \E activate \in BOOLEAN : Put(p, activate)
  \/ Put(p, activeProfileId = NoProfile)

\* The agent has created the default profile when it has started.
ProfilesInit ==
  \E p \in ProfileIds :
    /\ activeProfileId = p
    /\ profiles = [q \in ProfileIds |->
                     IF q = p THEN [isActive |-> TRUE] ELSE NoProfile]
    /\ profilesFile = <<profiles, activeProfileId>>

ProfilesNext ==
  /\ \E p \in ProfileIds : createProfile(p) \/ importProfile(p) \/ activateProfile(p)
  /\ profilesFile' \in {profilesFile, <<profiles', activeProfileId'>>}

\* The agent starts again, and reads the file.
ProfilesRead ==
  /\ profiles' = profilesFile[1] /\ activeProfileId' = profilesFile[2]
  /\ UNCHANGED profilesFile

-----------------------------------------------------------------------------
(* Properties. *)

\* At most one profile is marked as active, and it is the one the pointer names,
\* which exists: the pointer and the marks are kept apart and written by three
\* operations, and a start may go back to an older file.  (The
\* active one may have lost its mark, when it was imported again.)
MarkFollowsPointer ==
  /\ activeProfileId \in ProfileIds /\ Known(activeProfileId)
  /\ \A p \in ProfileIds : Known(p) /\ profiles[p].isActive => p = activeProfileId
=============================================================================
