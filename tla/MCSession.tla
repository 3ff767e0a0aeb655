----------------------------- MODULE MCSession -----------------------------
EXTENDS Session, TLC
CONSTANTS r1, r2, r3, n1, n2

Chat(is, name) == [kind |-> "chat", is |-> is, name |-> name, mode |-> <<>>,
  override |-> [permits |-> {"write_safe"}, for |-> NeedsConfirmation],
  instruction |-> [privacy |-> "local_only"]]

Cloud == [privacy |-> "cloud_allowed", runtime |-> "live"]
Resolution(approved) == [kind |-> "resolve", approved |-> approved]

\* What a client of the session sends.
SomeBodies ==
  {Chat({w}, n1) : w \in {"approve", "reject", "mode", "create", "event"}}
  \cup {Chat({"rename"}, n2), Chat({"override", "create"}, n2),
        [Chat({}, n1) EXCEPT !.mode = Cloud]}
  \cup {[kind |-> "listOverrides"], [kind |-> "recordRun"],
        [kind |-> "updateMode", mode |-> [privacy |-> "local_only"]],
        [kind |-> "createOverride",
         override |-> [permits |-> Permissions, for |-> {"create-event"}]],
        [kind |-> "cancelOverride", id |-> Earlier]}
  \cup {Chat({"empty"}, n1)}

\* Two requests of any kind, and a third that approves by the button.
TwoAndOne == [r \in Requests |-> IF r = r3 THEN {Resolution(TRUE)} ELSE SomeBodies]

Live == Cloud
Symmetry == Permutations({r1, r2})
=============================================================================
