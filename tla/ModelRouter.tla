---------------------------- MODULE ModelRouter ----------------------------
(***************************************************************************)
(* The model router (packages/model-router): which providers a request may *)
(* be sent to, in which order, and what it learns of their health.         *)
(*                                                                         *)
(* Requests run at the same time and share the health cache.  A call of a  *)
(* provider that is given up after its time goes on at the provider; its   *)
(* late answer changes nothing here.                                       *)
(***************************************************************************)
EXTENDS Integers, FiniteSets, Sequences

CONSTANTS
  Requests,        \* the calls of respond and of healthCheck
  Providers,       \* the registered providers, in the order of registration
  Kind,            \* "ollama", "demo-local", "local" or "cloud", by provider
  ModesOf,         \* supportsPrivacyModes, by provider
  Abilities,       \* the sets of providers that may be able: see able
  NoProvider

ProviderSet == {Providers[i] : i \in DOMAIN Providers}
PrivacyModes == {"local_only", "prefer_local", "balanced", "cloud_allowed"}
Kinds == {"ollama", "demo-local", "local", "cloud"}

ASSUME ProvidersAssumption ==
  /\ Providers \in Seq(ProviderSet)
  /\ Kind \in [ProviderSet -> Kinds] /\ ModesOf \in [ProviderSet -> SUBSET PrivacyModes]
  /\ NoProvider \notin ProviderSet /\ Abilities \subseteq SUBSET ProviderSet

VARIABLES
  able,       \* the providers that are configured and have the capabilities
  preferred,  \* the session's preferred provider, or the default one
  cache,      \* healthCache: what it says of a provider while it is valid
  req         \* the calls: their place and the candidates that are left

vars == <<able, preferred, cache, req>>

\* An entry that is too old is not read: it is "unknown", as one that is missing.
Statuses == {"ok", "not ok"}
IsLocal(p) == Kind[p] # "cloud"

-----------------------------------------------------------------------------
(* The candidates. *)

SupportsMode(p, mode) == mode \in ModesOf[p] /\ (mode = "local_only" => IsLocal(p))

Liking(p) == (IF p = preferred THEN 100 ELSE 0) + (IF IsLocal(p) THEN 20 ELSE 0)

\* Mutant: every mode ranks as cloud_allowed does.
Rank_SameForAll(kind, mode) ==
  CASE kind = "ollama" -> 180 [] kind = "demo-local" -> 120 [] kind = "local" -> 100
    [] kind = "cloud" -> 220

Rank(kind, mode) ==
  IF mode \in {"local_only", "prefer_local"}
  THEN CASE kind = "ollama" -> 300 [] kind = "demo-local" -> 200 [] kind = "local" -> 100
         [] kind = "cloud" -> 0
  ELSE IF mode = "balanced"
  THEN CASE kind = "ollama" -> 260 [] kind = "demo-local" -> 160 [] kind = "local" -> 120
         [] kind = "cloud" -> 90
  ELSE CASE kind = "ollama" -> 180 [] kind = "demo-local" -> 120 [] kind = "local" -> 100
         [] kind = "cloud" -> 220

Score(p, mode) == Rank(Kind[p], mode) + Liking(p)

\* The sort is stable: providers of one score keep their order.
Position(p) == CHOOSE i \in DOMAIN Providers : Providers[i] = p
Before(p, q, mode) ==
  \/ Score(p, mode) > Score(q, mode)
  \/ Score(p, mode) = Score(q, mode) /\ Position(p) < Position(q)

Ranked(S, mode) ==
  [i \in 1..Cardinality(S) |->
     CHOOSE p \in S : Cardinality({q \in S : Before(q, p, mode)}) = i - 1]

Eligible(mode) == {p \in able : SupportsMode(p, mode)}

\* When no able provider supports the mode, all of them are tried, but for
\* local_only, which then has none.
SelectCandidates(mode) ==
  IF Eligible(mode) # {} THEN Ranked(Eligible(mode), mode)
  ELSE IF mode = "local_only" THEN <<>> ELSE Ranked(able, mode)

-----------------------------------------------------------------------------
NoCall == [pc |-> "new", mode |-> "balanced", left |-> <<>>, fallbackUsed |-> FALSE, of |-> NoProvider]

Init ==
  /\ able \in Abilities
  /\ preferred \in ProviderSet
  /\ cache = [p \in ProviderSet |-> "unknown"]
  /\ req = [r \in Requests |-> NoCall]

Learns(p, status) == cache' = [cache EXCEPT ![p] = status]

\* healthCheck refreshes every provider, each on its own.
Refreshes(r, p) ==
  /\ req[r].pc = "new"
  /\ req' = [req EXCEPT ![r].pc = "refreshing", ![r].of = p]
  /\ UNCHANGED <<able, preferred, cache>>

Refreshed(r, status) ==
  /\ req[r].pc = "refreshing"
  /\ Learns(req[r].of, status)
  /\ req' = [req EXCEPT ![r] = [NoCall EXCEPT !.pc = "refreshed"]]
  /\ UNCHANGED <<able, preferred>>

Responds(r, mode) ==
  /\ req[r].pc = "new"
  /\ req' = [req EXCEPT ![r].pc = "next", ![r].mode = mode, ![r].left = SelectCandidates(mode)]
  /\ UNCHANGED <<able, preferred, cache>>

\* The head of the loop over the candidates: a valid entry of the cache decides,
\* else the provider is asked for its health.
Skipped(r) ==
  [req EXCEPT ![r].pc = "next", ![r].left = Tail(@), ![r].fallbackUsed = TRUE]

\* Mutant: a provider that is skipped unasked is not told.
UsesCache_Silent(r) ==
  /\ req[r].pc = "next" /\ req[r].left # <<>>
  /\ cache[Head(req[r].left)] # "unknown"
  /\ req' = IF cache[Head(req[r].left)] = "ok"
            THEN [req EXCEPT ![r].pc = "running"]
            ELSE [req EXCEPT ![r].left = Tail(@)]
  /\ UNCHANGED <<able, preferred, cache>>

UsesCache(r) ==
  /\ req[r].pc = "next" /\ req[r].left # <<>>
  /\ cache[Head(req[r].left)] # "unknown"
  /\ req' = IF cache[Head(req[r].left)] = "ok"
            THEN [req EXCEPT ![r].pc = "running"] ELSE Skipped(r)
  /\ UNCHANGED <<able, preferred, cache>>

ChecksHealth(r) ==
  /\ req[r].pc = "next" /\ req[r].left # <<>>
  /\ cache[Head(req[r].left)] = "unknown"
  /\ req' = [req EXCEPT ![r].pc = "checking"]
  /\ UNCHANGED <<able, preferred, cache>>

HealthKnown(r, status) ==
  /\ req[r].pc = "checking"
  /\ Learns(Head(req[r].left), status)
  /\ req' = IF status = "ok" THEN [req EXCEPT ![r].pc = "running"] ELSE Skipped(r)
  /\ UNCHANGED <<able, preferred>>

\* run() answers: the health is asked for once more before the answer is given.
Runs(r) ==
  /\ req[r].pc = "running"
  /\ req' = [req EXCEPT ![r].pc = "confirming"]
  /\ UNCHANGED <<able, preferred, cache>>

Confirmed(r, status) ==
  /\ req[r].pc = "confirming"
  /\ Learns(Head(req[r].left), status)
  /\ req' = [req EXCEPT ![r] = [NoCall EXCEPT !.pc = "answered", !.mode = req[r].mode,
       !.of = Head(req[r].left), !.fallbackUsed = req[r].fallbackUsed]]
  /\ UNCHANGED <<able, preferred>>

\* run() fails.
RunFails(r) ==
  /\ req[r].pc = "running"
  /\ Learns(Head(req[r].left), "not ok")
  /\ req' = Skipped(r)
  /\ UNCHANGED <<able, preferred>>

\* No candidate is left, or there was none.
Throws(r) ==
  /\ req[r].pc = "next" /\ req[r].left = <<>>
  /\ req' = [req EXCEPT ![r] = [NoCall EXCEPT !.pc = "failed"]]
  /\ UNCHANGED <<able, preferred, cache>>

\* healthTtlMs passes.
Outdates(p) ==
  /\ cache[p] # "unknown"
  /\ cache' = [cache EXCEPT ![p] = "unknown"]
  /\ UNCHANGED <<able, preferred, req>>

\* Mutant: a call of a provider may take for ever.
TimesOut_Never(r) == FALSE /\ UNCHANGED vars

\* withTimeout: a call that takes too long counts as one that failed.
TimesOut(r) ==
  \/ RunFails(r)
  \/ Refreshed(r, "not ok") \/ HealthKnown(r, "not ok") \/ Confirmed(r, "not ok")

Answers(r) ==
  \/ Runs(r)
  \/ \E status \in Statuses : Refreshed(r, status) \/ HealthKnown(r, status) \/ Confirmed(r, status)

\* What the router does by itself, without an answer.
GoesOn(r) == UsesCache(r) \/ ChecksHealth(r) \/ Throws(r) \/ TimesOut(r)

Next ==
  \/ \E r \in Requests :
       \/ \E p \in ProviderSet : Refreshes(r, p)
       \/ \E mode \in PrivacyModes : Responds(r, mode)
       \/ Answers(r) \/ GoesOn(r)
  \/ \E p \in ProviderSet : Outdates(p)

Spec == Init /\ [][Next]_vars

\* The router's own steps happen, and its timers fire; no provider has to
\* answer.
FairSpec == Spec /\ \A r \in Requests : WF_vars(GoesOn(r))

-----------------------------------------------------------------------------
(* Properties. *)

Pcs == {"new", "next", "checking", "running", "confirming", "refreshing", "refreshed",
        "answered", "failed"}

IsCall(q) ==
  /\ q.pc \in Pcs /\ q.mode \in PrivacyModes /\ q.fallbackUsed \in BOOLEAN
  /\ q.left \in Seq(able)
  /\ q.of \in ProviderSet \cup {NoProvider}

\* Only providers that are configured and have the capabilities are waited for,
\* tried or passed over; what is waited for is not yet tried.
TypeOK ==
  /\ cache \in [ProviderSet -> Statuses \cup {"unknown"}]
  /\ \A r \in Requests :
       /\ IsCall(req[r])
       /\ req[r].pc \in {"checking", "running", "confirming"} => req[r].left # <<>>

\* No request in mode local_only is run by a provider of the cloud, whatever is
\* preferred and whichever fails.  In prefer_local and balanced the cloud runs a
\* request only after every local candidate was tried or found not to be well;
\* in balanced there is the exception of the cloud provider that is preferred.
StillLeft(q) == {q.left[i] : i \in DOMAIN q.left}

LocalFirst ==
  \A r \in Requests : req[r].pc \in {"running", "confirming"} =>
    LET p == Head(req[r].left)
        mode == req[r].mode
    IN  ~IsLocal(p) =>
          /\ mode # "local_only"
          /\ mode = "prefer_local" \/ (mode = "balanced" /\ p # preferred) =>
               {l \in Eligible(mode) : IsLocal(l)} \cap StillLeft(req[r]) = {}

\* Requests wait only for providers that can serve them, the local ones first.
RoutingSound == TypeOK /\ LocalFirst

\* An answer says that a fallback was used exactly when it is not the first
\* candidate that gives it.
FallbackTold ==
  \A r \in Requests : req[r].pc = "answered" =>
    (req[r].fallbackUsed <=> req[r].of # SelectCandidates(req[r].mode)[1])

\* Every call ends, though no provider answers.
CallsEnd ==
  \A r \in Requests :
    req[r].pc # "new" ~> req[r].pc \in {"answered", "failed", "refreshed"}
=============================================================================
