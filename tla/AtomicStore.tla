----------------------------- MODULE AtomicStore -----------------------------
(***************************************************************************)
(* What the users of a JSON file store rely on: an update takes effect at  *)
(* one moment between its call and its answer; an update that was          *)
(* acknowledged stays, also across restarts of the process; one that was   *)
(* rejected or cut off by a restart may have taken effect or not.  Only a  *)
(* stop of the process while the store is exposed destroys what it holds,  *)
(* and then the store refuses every call instead of starting afresh.       *)
(*                                                                         *)
(* Every client makes updates of its own; the value of the store is the    *)
(* set of clients whose update is in it.                                   *)
(***************************************************************************)
CONSTANT Clients

VARIABLES
  value,  \* the clients whose update has taken effect
  acked,  \* the clients whose update was acknowledged
  call,   \* what a client is waiting for: "idle", "read" or "update"
  safety  \* "sound", "exposed" to a stop of the process, or "broken" by one

atomicVars == <<value, acked, call, safety>>

Init ==
  /\ value = {}
  /\ acked = {}
  /\ call = [c \in Clients |-> "idle"]
  /\ safety = "sound"

Calls(c) ==
  /\ call[c] = "idle"
  /\ \E kind \in {"read", "update"} : call' = [call EXCEPT ![c] = kind]
  /\ UNCHANGED <<value, acked, safety>>

Applies(c) ==
  /\ safety # "broken"
  /\ call[c] = "update"
  /\ value' = value \cup {c}
  /\ UNCHANGED <<acked, call, safety>>

\* An acknowledged update is safe.
Acknowledges(c) ==
  /\ safety # "broken"
  /\ call[c] = "update" /\ c \in value
  /\ acked' = acked \cup {c}
  /\ call' = [call EXCEPT ![c] = "idle"]
  /\ safety' = "sound"
  /\ UNCHANGED value

\* A read is answered with the present value, or any call is rejected.
Answers(c) ==
  /\ call[c] # "idle"
  /\ call' = [call EXCEPT ![c] = "idle"]
  /\ UNCHANGED <<value, acked, safety>>

\* While it serves a call the store may have to replace its file in place.
Exposes ==
  /\ \E c \in Clients : call[c] # "idle"
  /\ safety # "broken"
  /\ safety' \in {"sound", "exposed"}
  /\ UNCHANGED <<value, acked, call>>

Restarts ==
  /\ \/ /\ safety = "sound" /\ safety' = "sound"
        /\ \E kept \in SUBSET value : acked \subseteq kept /\ value' = kept
     \/ safety # "sound" /\ safety' = "broken" /\ value' = {}
  /\ call' = [c \in Clients |-> "idle"]
  /\ UNCHANGED acked

Next ==
  \/ \E c \in Clients : Calls(c) \/ Applies(c) \/ Acknowledges(c) \/ Answers(c)
  \/ Exposes \/ Restarts

Spec == Init /\ [][Next]_atomicVars
=============================================================================
