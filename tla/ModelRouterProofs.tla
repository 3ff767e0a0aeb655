------------------------- MODULE ModelRouterProofs -------------------------
(* Machine-checked proofs about the router, for any providers and any calls  *)
(* at the same time: the order of the candidates is the one of their scores, *)
(* no call leaves that order, and an answer says whether it is the first.    *)
EXTENDS ModelRouter, TLAPS, FiniteSetTheorems

-----------------------------------------------------------------------------
(* The order of the providers. *)

LEMMA ProvidersFinite ==
  ASSUME ProvidersAssumption
  PROVE  IsFiniteSet(ProviderSet)
  <1> DEFINE f == [i \in 1..Len(Providers) |-> Providers[i]]
  <1>1. Len(Providers) \in Nat /\ DOMAIN Providers = 1..Len(Providers)
    BY DEF ProvidersAssumption
  <1>2. f \in Surjection(1..Len(Providers), ProviderSet)
    BY <1>1 DEF Surjection, ProviderSet
  <1>3. IsFiniteSet(1..Len(Providers))
    BY <1>1, FS_Interval
  <1> QED
    BY <1>2, <1>3, FS_Surjection

LEMMA PositionType ==
  ASSUME ProvidersAssumption, NEW p \in ProviderSet
  PROVE  Position(p) \in Nat /\ Providers[Position(p)] = p
  <1>1. DOMAIN Providers = 1..Len(Providers) /\ Len(Providers) \in Nat
    BY DEF ProvidersAssumption
  <1>2. \E i \in DOMAIN Providers : Providers[i] = p
    BY DEF ProviderSet
  <1>3. Position(p) \in DOMAIN Providers /\ Providers[Position(p)] = p
    BY <1>2 DEF Position
  <1> QED
    BY <1>1, <1>3

LEMMA ScoreType ==
  ASSUME ProvidersAssumption, NEW p \in ProviderSet, NEW mode
  PROVE  Score(p, mode) \in Nat
  <1>1. Kind[p] \in Kinds
    BY DEF ProvidersAssumption
  <1>2. Rank(Kind[p], mode) \in Nat
    BY <1>1 DEF Rank, Kinds
  <1>3. Liking(p) \in Nat
    BY DEF Liking
  <1> QED
    BY <1>2, <1>3 DEF Score

\* Of two providers one is before the other, and what is before that is before both.
LEMMA BeforeIsOrder ==
  ASSUME ProvidersAssumption, NEW mode,
         NEW p \in ProviderSet, NEW q \in ProviderSet, NEW s \in ProviderSet
  PROVE  /\ ~Before(p, p, mode)
         /\ p # q => Before(p, q, mode) \/ Before(q, p, mode)
         /\ Before(p, q, mode) /\ Before(q, s, mode) => Before(p, s, mode)
  <1>1. Score(p, mode) \in Nat /\ Score(q, mode) \in Nat /\ Score(s, mode) \in Nat
    BY ScoreType
  <1>2. Position(p) \in Nat /\ Position(q) \in Nat /\ Position(s) \in Nat
    BY PositionType
  <1>3. p # q => Position(p) # Position(q)
    BY PositionType
  <1> QED
    BY <1>1, <1>2, <1>3 DEF Before

Ahead(S, p, mode) == {q \in S : Before(q, p, mode)}

\* The place of a provider among those of S is the number of those ahead of it.
LEMMA PlaceType ==
  ASSUME ProvidersAssumption, NEW S \in SUBSET ProviderSet, NEW p \in S, NEW mode
  PROVE  /\ IsFiniteSet(S) /\ IsFiniteSet(Ahead(S, p, mode))
         /\ Cardinality(S) \in Nat
         /\ Cardinality(Ahead(S, p, mode)) \in 0..Cardinality(S) - 1
  <1>1. IsFiniteSet(S)
    BY ProvidersFinite, FS_Subset
  <1>2. IsFiniteSet(S \ {p}) /\ Cardinality(S \ {p}) = Cardinality(S) - 1
    BY <1>1, FS_RemoveElement
  <1>3. Ahead(S, p, mode) \subseteq S \ {p}
    BY BeforeIsOrder DEF Ahead
  <1>4. IsFiniteSet(Ahead(S, p, mode)) /\ Cardinality(Ahead(S, p, mode)) <= Cardinality(S) - 1
    BY <1>2, <1>3, FS_Subset
  <1>5. Cardinality(S) \in Nat /\ Cardinality(Ahead(S, p, mode)) \in Nat
    BY <1>1, <1>4, FS_CardinalityType
  <1> QED
    BY <1>1, <1>4, <1>5

LEMMA PlacesFollow ==
  ASSUME ProvidersAssumption, NEW S \in SUBSET ProviderSet, NEW p \in S, NEW q \in S, NEW mode,
         Before(p, q, mode)
  PROVE  Cardinality(Ahead(S, p, mode)) < Cardinality(Ahead(S, q, mode))
  <1>1. IsFiniteSet(Ahead(S, p, mode)) /\ IsFiniteSet(Ahead(S, q, mode))
    BY PlaceType
  <1>2. p \notin Ahead(S, p, mode)
    BY BeforeIsOrder DEF Ahead
  <1>3. Ahead(S, p, mode) \cup {p} \subseteq Ahead(S, q, mode)
    BY BeforeIsOrder DEF Ahead
  <1>4. /\ IsFiniteSet(Ahead(S, p, mode) \cup {p})
        /\ Cardinality(Ahead(S, p, mode) \cup {p}) = Cardinality(Ahead(S, p, mode)) + 1
    BY <1>1, <1>2, FS_AddElement
  <1>5. Cardinality(Ahead(S, p, mode) \cup {p}) <= Cardinality(Ahead(S, q, mode))
    BY <1>1, <1>3, FS_Subset
  <1>6. Cardinality(Ahead(S, p, mode)) \in Nat /\ Cardinality(Ahead(S, q, mode)) \in Nat
    BY <1>1, FS_CardinalityType
  <1> QED
    BY <1>4, <1>5, <1>6

LEMMA PlacesDiffer ==
  ASSUME ProvidersAssumption, NEW S \in SUBSET ProviderSet, NEW p \in S, NEW q \in S, NEW mode,
         Cardinality(Ahead(S, p, mode)) = Cardinality(Ahead(S, q, mode))
  PROVE  p = q
  <1>1. Cardinality(Ahead(S, p, mode)) \in Nat /\ Cardinality(Ahead(S, q, mode)) \in Nat
    BY PlaceType, FS_CardinalityType
  <1> SUFFICES ASSUME p # q PROVE FALSE
    OBVIOUS
  <1>2. CASE Before(p, q, mode)
    BY <1>1, <1>2, PlacesFollow
  <1>3. CASE Before(q, p, mode)
    BY <1>1, <1>3, PlacesFollow
  <1> QED
    BY <1>2, <1>3, BeforeIsOrder

\* Every place is taken: there are as many as there are providers in S.
LEMMA PlacesTaken ==
  ASSUME ProvidersAssumption, NEW S \in SUBSET ProviderSet, NEW mode,
         NEW k \in 0..Cardinality(S) - 1
  PROVE  \E p \in S : Cardinality(Ahead(S, p, mode)) = k
  <1> DEFINE n == Cardinality(S)
             place == [p \in S |-> Cardinality(Ahead(S, p, mode))]
  <1>1. IsFiniteSet(S) /\ n \in Nat
    BY ProvidersFinite, FS_Subset, FS_CardinalityType
  <1>2. IsFiniteSet(0..n - 1) /\ Cardinality(0..n - 1) = n
    BY <1>1, FS_Interval
  <1>3. place \in Injection(S, 0..n - 1)
    BY PlaceType, PlacesDiffer DEF Injection, IsInjective
  <1>4. place \in Surjection(S, 0..n - 1)
    BY <1>1, <1>2, <1>3, FS_Injection
  <1> QED
    BY <1>4 DEF Surjection

\* The candidates of S in their order.
LEMMA RankedOrder ==
  ASSUME ProvidersAssumption, NEW S \in SUBSET ProviderSet, NEW mode
  PROVE  /\ Ranked(S, mode) \in Seq(S) /\ Len(Ranked(S, mode)) = Cardinality(S)
         /\ \A i, j \in 1..Cardinality(S) :
              i < j => Before(Ranked(S, mode)[i], Ranked(S, mode)[j], mode)
  <1> DEFINE n == Cardinality(S)
             c == Ranked(S, mode)
  <1>1. n \in Nat
    BY ProvidersFinite, FS_Subset, FS_CardinalityType
  <1>2. ASSUME NEW i \in 1..n
        PROVE  c[i] \in S /\ Cardinality(Ahead(S, c[i], mode)) = i - 1
    <2>1. i - 1 \in 0..Cardinality(S) - 1
      BY <1>1
    <2>2. \E p \in S : Cardinality(Ahead(S, p, mode)) = i - 1
      BY <2>1, PlacesTaken
    <2>3. c[i] = CHOOSE p \in S : Cardinality(Ahead(S, p, mode)) = i - 1
      BY DEF Ranked, Ahead
    <2> QED
      BY <2>2, <2>3
  <1>3. c \in [1..n -> S]
    BY <1>2 DEF Ranked
  <1>4. ASSUME NEW i \in 1..n, NEW j \in 1..n, i < j
        PROVE  Before(c[i], c[j], mode)
    <2>1. c[i] # c[j]
      BY <1>1, <1>2, <1>4
    <2>2. CASE Before(c[j], c[i], mode)
      BY <1>1, <1>2, <1>4, <2>2, PlacesFollow
    <2> QED
      BY <1>2, <2>1, <2>2, BeforeIsOrder
  <1> QED
    BY <1>1, <1>3, <1>4

-----------------------------------------------------------------------------
(* The candidates of a call. *)

\* All are able, each stands before those that follow, and under local_only there
\* is none of the cloud.
LEMMA CandidatesOrder ==
  ASSUME ProvidersAssumption, able \in SUBSET ProviderSet, NEW mode \in PrivacyModes
  PROVE  /\ SelectCandidates(mode) \in Seq(able)
         /\ \A i, j \in DOMAIN SelectCandidates(mode) :
              i < j => Before(SelectCandidates(mode)[i], SelectCandidates(mode)[j], mode)
         /\ Eligible(mode) # {} \/ mode = "local_only" =>
              SelectCandidates(mode) \in Seq(Eligible(mode))
  <1>1. Eligible(mode) \subseteq able
    BY DEF Eligible
  <1>2. CASE Eligible(mode) # {}
    <2>1. SelectCandidates(mode) = Ranked(Eligible(mode), mode)
      BY <1>2 DEF SelectCandidates
    <2>2. /\ SelectCandidates(mode) \in Seq(Eligible(mode))
          /\ \A i, j \in 1..Len(SelectCandidates(mode)) :
               i < j => Before(SelectCandidates(mode)[i], SelectCandidates(mode)[j], mode)
      BY <1>1, <2>1, RankedOrder
    <2> QED
      BY <1>1, <2>2
  <1>3. CASE Eligible(mode) = {} /\ mode = "local_only"
    BY <1>3 DEF SelectCandidates
  <1>4. CASE Eligible(mode) = {} /\ mode # "local_only"
    <2>1. SelectCandidates(mode) = Ranked(able, mode)
      BY <1>4 DEF SelectCandidates
    <2>2. /\ SelectCandidates(mode) \in Seq(able)
          /\ \A i, j \in 1..Len(SelectCandidates(mode)) :
               i < j => Before(SelectCandidates(mode)[i], SelectCandidates(mode)[j], mode)
      BY <2>1, RankedOrder
    <2> QED
      BY <1>4, <2>2
  <1> QED
    BY <1>2, <1>3, <1>4

\* What makes the router prefer a local provider.
LEMMA LocalScores ==
  ASSUME ProvidersAssumption, NEW p \in ProviderSet, NEW q \in ProviderSet, NEW mode,
         IsLocal(p), ~IsLocal(q), mode = "prefer_local" \/ (mode = "balanced" /\ q # preferred)
  PROVE  ~Before(q, p, mode)
  <1>1. Kind[p] \in {"ollama", "demo-local", "local"} /\ Kind[q] = "cloud"
    BY DEF ProvidersAssumption, Kinds, IsLocal
  <1>2. Liking(p) >= 20 /\ Liking(q) <= 100 /\ (q # preferred => Liking(q) = 0)
        /\ Liking(p) \in Nat /\ Liking(q) \in Nat
    BY DEF Liking, IsLocal
  <1>3. CASE mode = "prefer_local"
    <2>1. Rank(Kind[p], mode) \in {100, 200, 300} /\ Rank(Kind[q], mode) = 0
      BY <1>1, <1>3 DEF Rank
    <2> QED
      BY <1>2, <2>1 DEF Before, Score
  <1>4. CASE mode = "balanced" /\ q # preferred
    <2>1. Rank(Kind[p], mode) \in {120, 160, 260} /\ Rank(Kind[q], mode) = 90
      BY <1>1, <1>4 DEF Rank
    <2> QED
      BY <1>2, <1>4, <2>1 DEF Before, Score
  <1> QED
    BY <1>3, <1>4

-----------------------------------------------------------------------------
(* The calls. *)

AtWork == {"next", "checking", "running", "confirming"}

\* What is left of the candidates c after the first k - 1 have been skipped.
IsRest(left, c, k) ==
  /\ k \in 1..Len(c) + 1 /\ Len(left) = Len(c) - k + 1
  /\ \A i \in 1..Len(left) : left[i] = c[i + k - 1]

\* A call works its candidates off in their order, and says whether it has skipped
\* the first one.
Follows(q, c) ==
  /\ q.pc \in AtWork => \E k \in Nat : IsRest(q.left, c, k) /\ (q.fallbackUsed <=> k > 1)
  /\ q.pc = "answered" =>
       \E k \in 1..Len(c) : q.of = c[k] /\ (q.fallbackUsed <=> k > 1)

Calls ==
  [pc : Pcs, mode : PrivacyModes, left : Seq(able), fallbackUsed : BOOLEAN,
   of : ProviderSet \cup {NoProvider}]

CallOK(q) ==
  /\ q \in Calls
  /\ q.pc \in AtWork \ {"next"} => q.left # <<>>
  /\ q.pc = "new" => ~q.fallbackUsed
  /\ q.pc = "refreshing" => q.of \in ProviderSet
  /\ Follows(q, SelectCandidates(q.mode))

RouterInv ==
  /\ able \in SUBSET ProviderSet /\ preferred \in ProviderSet
  /\ cache \in [ProviderSet -> Statuses \cup {"unknown"}]
  /\ req \in [Requests -> Calls]
  /\ \A r \in Requests : CallOK(req[r])

\* Whoever is next is the candidate the call has come to.
LEMMA HeadOfRest ==
  ASSUME NEW S, NEW left \in Seq(S), left # <<>>, NEW c \in Seq(S), NEW k \in Nat,
         IsRest(left, c, k)
  PROVE  k \in 1..Len(c) /\ Head(left) = c[k]
  <1>1. Len(c) \in Nat /\ Len(left) \in Nat \ {0} /\ Head(left) = left[1]
    OBVIOUS
  <1>2. k \in 1..Len(c)
    BY <1>1 DEF IsRest
  <1>3. left[1] = c[1 + k - 1] /\ 1 + k - 1 = k
    BY <1>1 DEF IsRest
  <1> QED
    BY <1>1, <1>2, <1>3

\* What stands between a call and the cloud.
LEMMA InvGivesProperties ==
  ASSUME ProvidersAssumption, RouterInv
  PROVE  RoutingSound /\ FallbackTold
  <1>0. able \in SUBSET ProviderSet
    BY DEF RouterInv
  <1>1. ASSUME NEW r \in Requests, req[r].pc \in {"running", "confirming"},
               ~IsLocal(Head(req[r].left))
        PROVE  /\ req[r].mode # "local_only"
               /\ req[r].mode = "prefer_local"
                    \/ (req[r].mode = "balanced" /\ Head(req[r].left) # preferred) =>
                    {l \in Eligible(req[r].mode) : IsLocal(l)} \cap StillLeft(req[r]) = {}
    <2> DEFINE mode == req[r].mode
               c == SelectCandidates(mode)
               left == req[r].left
               p == Head(left)
    <2>1. mode \in PrivacyModes /\ left \in Seq(able) /\ left # <<>>
      BY <1>1 DEF RouterInv, CallOK, Calls, AtWork
    <2>2. PICK k \in Nat : IsRest(left, c, k)
      BY <1>1 DEF RouterInv, CallOK, Follows, AtWork
    <2> HIDE DEF c
    <2>3. /\ c \in Seq(able) /\ \A i, j \in DOMAIN c : i < j => Before(c[i], c[j], mode)
          /\ Eligible(mode) # {} \/ mode = "local_only" => c \in Seq(Eligible(mode))
      BY <1>0, <2>1, CandidatesOrder DEF c
    <2>4. p = c[k] /\ k \in DOMAIN c
      BY <2>1, <2>2, <2>3, HeadOfRest
    <2>5. mode # "local_only"
      <3> SUFFICES ASSUME mode = "local_only" PROVE FALSE
        OBVIOUS
      <3>1. p \in Eligible(mode)
        BY <2>3, <2>4
      <3> QED
        BY <1>1, <3>1 DEF Eligible, SupportsMode
    <2>6. ASSUME mode = "prefer_local" \/ (mode = "balanced" /\ p # preferred),
                 NEW l \in Eligible(mode), IsLocal(l), l \in StillLeft(req[r])
          PROVE  FALSE
      <3>1. PICK i \in 1..Len(left) : l = left[i]
        BY <2>1, <2>6 DEF StillLeft
      <3>2. l = c[i + k - 1] /\ i + k - 1 \in DOMAIN c
        BY <2>1, <2>2, <2>3, <3>1 DEF IsRest
      <3>3. l # p
        BY <1>1, <2>6
      <3>4. i + k - 1 # k
        BY <2>4, <3>2, <3>3
      <3>5. Before(p, l, mode)
        BY <2>2, <2>3, <2>4, <3>2, <3>4
      <3>6. p \in ProviderSet /\ l \in ProviderSet
        BY <1>0, <2>3, <2>4 DEF Eligible
      <3> QED
        BY <1>1, <2>6, <3>5, <3>6, LocalScores
    <2> QED
      BY <2>5, <2>6
  <1>2. ASSUME NEW r \in Requests, req[r].pc = "answered"
        PROVE  req[r].fallbackUsed <=> req[r].of # SelectCandidates(req[r].mode)[1]
    <2> DEFINE mode == req[r].mode
               c == SelectCandidates(mode)
    <2>1. mode \in PrivacyModes
      BY DEF RouterInv, CallOK, Calls
    <2>2. PICK k \in 1..Len(c) : req[r].of = c[k] /\ (req[r].fallbackUsed <=> k > 1)
      BY <1>2 DEF RouterInv, CallOK, Follows
    <2> HIDE DEF c
    <2>3. c \in Seq(able) /\ \A i, j \in DOMAIN c : i < j => Before(c[i], c[j], mode)
      BY <1>0, <2>1, CandidatesOrder DEF c
    <2>4. ASSUME k > 1 PROVE c[k] # c[1]
      <3>1. 1 \in DOMAIN c /\ k \in DOMAIN c /\ c[1] \in ProviderSet /\ Before(c[1], c[k], mode)
        BY <1>0, <2>2, <2>3, <2>4
      <3> QED
        BY <3>1, BeforeIsOrder
    <2>5. k = 1 \/ k > 1
      BY <2>2, <2>3
    <2>6. req[r].fallbackUsed <=> req[r].of # c[1]
      BY <2>2, <2>4, <2>5
    <2> QED
      BY <2>6 DEF c
  <1>3. TypeOK
    BY DEF RouterInv, CallOK, Calls, TypeOK, IsCall, AtWork
  <1> QED
    BY <1>1, <1>2, <1>3 DEF RoutingSound, LocalFirst, FallbackTold

\* The candidates of a mode are the same during the whole run.
LEMMA SameCandidates ==
  ASSUME UNCHANGED <<able, preferred>>, NEW mode
  PROVE  SelectCandidates(mode)' = SelectCandidates(mode)
  BY DEF SelectCandidates, Ranked, Eligible, SupportsMode, Before, Score, Liking, Position

LEMMA StaysOK ==
  ASSUME UNCHANGED <<able, preferred>>, NEW q, CallOK(q)
  PROVE  (CallOK(q))'
  BY SameCandidates DEF CallOK, Calls

\* What a step makes of a call.
LEMMA MovesOn ==
  ASSUME ProvidersAssumption, NEW q, CallOK(q), q.pc \in AtWork, q.left # <<>>,
         NEW pc \in AtWork
  PROVE  CallOK([q EXCEPT !.pc = pc])
  BY DEF CallOK, Calls, Follows, AtWork, Pcs

LEMMA SkipsOne ==
  ASSUME ProvidersAssumption, able \in SUBSET ProviderSet, NEW q, CallOK(q), q.pc \in AtWork,
         q.left # <<>>
  PROVE  CallOK([q EXCEPT !.pc = "next", !.left = Tail(@), !.fallbackUsed = TRUE])
  <1> DEFINE c == SelectCandidates(q.mode)
             new == [q EXCEPT !.pc = "next", !.left = Tail(@), !.fallbackUsed = TRUE]
  <1>0. q \in Calls /\ q.left \in Seq(able) /\ Tail(q.left) \in Seq(able) /\ q.mode \in PrivacyModes
    BY DEF CallOK, Calls
  <1>1. /\ new \in Calls /\ new.pc = "next" /\ new.left = Tail(q.left) /\ new.fallbackUsed = TRUE
        /\ new.mode = q.mode
    BY <1>0 DEF Calls, Pcs
  <1>2. PICK k \in Nat : IsRest(q.left, c, k)
    BY DEF CallOK, Follows
  <1>3. c \in Seq(able)
    BY <1>0, CandidatesOrder
  <1> HIDE DEF c
  <1>4. IsRest(Tail(q.left), c, k + 1) /\ k + 1 > 1
    <2>0. Len(q.left) \in Nat /\ Len(c) \in Nat
      BY <1>0, <1>3
    <2>1. k >= 1 /\ k <= Len(c) /\ Len(q.left) = Len(c) - k + 1
      <3>1. q.left # <<>> => Len(q.left) >= 1
        BY <1>0
      <3> QED
        BY <1>2, <2>0, <3>1 DEF IsRest
    <2>2. /\ Len(Tail(q.left)) = Len(q.left) - 1
          /\ \A i \in 1..Len(q.left) - 1 : Tail(q.left)[i] = q.left[i + 1]
      BY <1>0
    <2>3. k + 1 \in 1..Len(c) + 1 /\ Len(Tail(q.left)) = Len(c) - (k + 1) + 1
      BY <2>0, <2>1, <2>2
    <2>4. ASSUME NEW i \in 1..Len(Tail(q.left))
          PROVE  Tail(q.left)[i] = c[i + (k + 1) - 1]
      <3>1. i \in 1..Len(q.left) - 1 /\ i + 1 \in 1..Len(q.left)
        BY <2>2, <2>0
      <3>2. q.left[i + 1] = c[(i + 1) + k - 1]
        BY <1>2, <3>1 DEF IsRest
      <3>3. (i + 1) + k - 1 = i + (k + 1) - 1
        BY <3>1
      <3> QED
        BY <2>2, <3>1, <3>2, <3>3
    <2>5. k + 1 > 1
      BY <2>1
    <2> QED
      BY <2>3, <2>4, <2>5 DEF IsRest
  <1>5. Follows(new, c)
    BY <1>1, <1>2, <1>4 DEF Follows
  <1> QED
    BY <1>0, <1>1, <1>5 DEF CallOK, AtWork, c

LEMMA NoCallOK ==
  ASSUME NEW pc \in {"refreshed", "failed"}
  PROVE  CallOK(NoCall) /\ CallOK([NoCall EXCEPT !.pc = pc])
  <1> DEFINE new == [NoCall EXCEPT !.pc = pc]
  <1>1. <<>> \in Seq(able)
    OBVIOUS
  <1>2. new \in Calls /\ new.pc = pc /\ new.fallbackUsed = FALSE
    BY <1>1 DEF Calls, NoCall, Pcs, PrivacyModes
  <1> HIDE DEF new
  <1>3. CallOK(new)
    BY <1>2 DEF CallOK, Follows, AtWork
  <1>4. NoCall \in Calls /\ NoCall.pc = "new" /\ NoCall.fallbackUsed = FALSE
    BY <1>1 DEF Calls, NoCall, Pcs, PrivacyModes
  <1>5. CallOK(NoCall)
    BY <1>4 DEF CallOK, Follows, AtWork
  <1> QED
    BY <1>3, <1>5 DEF new

LEMMA AnswersWithCandidate ==
  ASSUME ProvidersAssumption, able \in SUBSET ProviderSet, NEW q, CallOK(q), q.pc = "confirming"
  PROVE  CallOK([NoCall EXCEPT !.pc = "answered", !.mode = q.mode, !.of = Head(q.left),
                               !.fallbackUsed = q.fallbackUsed])
  <1> DEFINE c == SelectCandidates(q.mode)
             new == [NoCall EXCEPT !.pc = "answered", !.mode = q.mode, !.of = Head(q.left),
                                   !.fallbackUsed = q.fallbackUsed]
  <1>1. q \in Calls /\ q.left \in Seq(able) /\ q.left # <<>> /\ q.mode \in PrivacyModes
    BY DEF CallOK, Calls, AtWork
  <1>2. PICK k \in Nat : IsRest(q.left, c, k) /\ (q.fallbackUsed <=> k > 1)
    BY DEF CallOK, Follows, AtWork
  <1>3. c \in Seq(able)
    BY <1>1, CandidatesOrder
  <1>4. /\ new \in Calls /\ new.pc = "answered" /\ new.mode = q.mode /\ new.of = Head(q.left)
        /\ new.fallbackUsed = q.fallbackUsed
    <2>1. <<>> \in Seq(able) /\ Head(q.left) \in ProviderSet /\ q.fallbackUsed \in BOOLEAN
      BY <1>1 DEF Calls
    <2> QED
      BY <1>1, <2>1 DEF Calls, NoCall, Pcs
  <1> HIDE DEF c, new
  <1>5. k \in 1..Len(c) /\ Head(q.left) = c[k]
    BY <1>1, <1>2, <1>3, HeadOfRest
  <1>6. Follows(new, c)
    BY <1>2, <1>4, <1>5 DEF Follows, AtWork
  <1>7. CallOK(new)
    BY <1>4, <1>6 DEF CallOK, AtWork, c
  <1> QED
    BY <1>7 DEF new

LEMMA Begins ==
  ASSUME ProvidersAssumption, able \in SUBSET ProviderSet, NEW q, CallOK(q), q.pc = "new",
         NEW mode \in PrivacyModes
  PROVE  CallOK([q EXCEPT !.pc = "next", !.mode = mode, !.left = SelectCandidates(mode)])
  <1> DEFINE c == SelectCandidates(mode)
             new == [q EXCEPT !.pc = "next", !.mode = mode, !.left = c]
  <1>1. c \in Seq(able)
    BY CandidatesOrder
  <1> HIDE DEF c
  <1>2. new \in Calls /\ new.pc = "next" /\ new.mode = mode /\ new.left = c /\ ~new.fallbackUsed
    BY <1>1 DEF CallOK, Calls, Pcs
  <1>3. IsRest(c, c, 1)
    BY <1>1 DEF IsRest
  <1>4. Follows(new, c)
    BY <1>2, <1>3 DEF Follows
  <1> QED
    BY <1>2, <1>4 DEF CallOK, AtWork, c

LEMMA CallMoves ==
  ASSUME ProvidersAssumption, RouterInv, NEW r \in Requests, NEW new, CallOK(new),
         req' = [req EXCEPT ![r] = new], UNCHANGED <<able, preferred>>,
         cache' \in [ProviderSet -> Statuses \cup {"unknown"}]
  PROVE  RouterInv'
  <1>1. req' \in [Requests -> Calls] /\ \A x \in Requests : CallOK(req'[x])
    BY DEF RouterInv, CallOK
  <1>2. (\A x \in Requests : CallOK(req[x]))'
    BY <1>1, StaysOK
  <1>3. (req \in [Requests -> Calls])'
    BY <1>1 DEF Calls
  <1> QED
    BY <1>2, <1>3 DEF RouterInv

LEMMA LearnsType ==
  ASSUME RouterInv, NEW p, NEW status \in Statuses, Learns(p, status)
  PROVE  cache' \in [ProviderSet -> Statuses \cup {"unknown"}]
  BY DEF RouterInv, Learns

LEMMA StepKeepsRouterInv ==
  ASSUME ProvidersAssumption, RouterInv, Next
  PROVE  RouterInv'
  <1>0. /\ able \in SUBSET ProviderSet /\ req \in [Requests -> Calls]
        /\ cache \in [ProviderSet -> Statuses \cup {"unknown"}]
        /\ \A r \in Requests : CallOK(req[r])
    BY DEF RouterInv
  <1>1. ASSUME NEW p \in ProviderSet, Outdates(p)
        PROVE  RouterInv'
    <2>1. cache' \in [ProviderSet -> Statuses \cup {"unknown"}]
      BY <1>0, <1>1 DEF Outdates
    <2>2. (\A x \in Requests : CallOK(req[x]))'
      BY <1>0, <1>1, StaysOK DEF Outdates
    <2>3. (req \in [Requests -> Calls])'
      BY <1>0, <1>1 DEF Outdates, Calls
    <2> QED
      BY <1>0, <1>1, <2>1, <2>2, <2>3 DEF Outdates, RouterInv
  <1>2. ASSUME NEW r \in Requests, NEW p \in ProviderSet, Refreshes(r, p)
        PROVE  RouterInv'
    <2> DEFINE new == [req[r] EXCEPT !.pc = "refreshing", !.of = p]
    <2>1. req' = [req EXCEPT ![r] = new]
      BY <1>0, <1>2 DEF Refreshes
    <2>2. new \in Calls /\ new.pc = "refreshing" /\ new.of = p
      <3>1. req[r] \in Calls /\ "refreshing" \in Pcs /\ p \in ProviderSet \cup {NoProvider}
        BY <1>0 DEF Pcs
      <3> HIDE DEF Pcs, ProviderSet
      <3> QED
        BY <3>1 DEF Calls
    <2>3. CallOK(new)
      BY <2>2 DEF CallOK, Follows, AtWork
    <2> HIDE DEF new
    <2> QED
      BY <1>0, <1>2, <2>1, <2>3, CallMoves DEF Refreshes
  <1>3. ASSUME NEW r \in Requests, NEW mode \in PrivacyModes, Responds(r, mode)
        PROVE  RouterInv'
    <2> DEFINE new == [req[r] EXCEPT !.pc = "next", !.mode = mode, !.left = SelectCandidates(mode)]
    <2>1. req' = [req EXCEPT ![r] = new]
      BY <1>0, <1>3 DEF Responds
    <2>2. CallOK(new)
      BY <1>0, <1>3, Begins DEF Responds
    <2> HIDE DEF new
    <2> QED
      BY <1>0, <1>3, <2>1, <2>2, CallMoves DEF Responds
  <1>4. ASSUME NEW r \in Requests, NEW status \in Statuses, Refreshed(r, status)
        PROVE  RouterInv'
    <2>1. CallOK([NoCall EXCEPT !.pc = "refreshed"])
      BY NoCallOK
    <2>2. cache' \in [ProviderSet -> Statuses \cup {"unknown"}]
      BY <1>4, LearnsType DEF Refreshed
    <2> QED
      BY <1>4, <2>1, <2>2, CallMoves DEF Refreshed
  <1>5. ASSUME NEW r \in Requests, Throws(r)
        PROVE  RouterInv'
    <2>1. CallOK([NoCall EXCEPT !.pc = "failed"])
      BY NoCallOK
    <2> QED
      BY <1>0, <1>5, <2>1, CallMoves DEF Throws
  <1>6. ASSUME NEW r \in Requests, NEW status \in Statuses, Confirmed(r, status)
        PROVE  RouterInv'
    <2> DEFINE new == [NoCall EXCEPT !.pc = "answered", !.mode = req[r].mode,
                                     !.of = Head(req[r].left),
                                     !.fallbackUsed = req[r].fallbackUsed]
    <2>1. CallOK(new)
      BY <1>0, <1>6, AnswersWithCandidate DEF Confirmed
    <2>2. cache' \in [ProviderSet -> Statuses \cup {"unknown"}]
      BY <1>6, LearnsType DEF Confirmed
    <2>3. req' = [req EXCEPT ![r] = new]
      BY <1>6 DEF Confirmed
    <2> HIDE DEF new
    <2> QED
      BY <1>6, <2>1, <2>2, <2>3, CallMoves DEF Confirmed
  <1>7. ASSUME NEW r \in Requests, req[r].pc \in AtWork, req[r].left # <<>>,
               req' = Skipped(r) \/ \E pc \in AtWork : req' = [req EXCEPT ![r].pc = pc],
               UNCHANGED <<able, preferred>>,
               cache' \in [ProviderSet -> Statuses \cup {"unknown"}]
        PROVE  RouterInv'
    <2>1. CASE req' = Skipped(r)
      <3>1. req' = [req EXCEPT ![r] = [req[r] EXCEPT !.pc = "next", !.left = Tail(@),
                                                     !.fallbackUsed = TRUE]]
        BY <1>0, <2>1 DEF Skipped
      <3> QED
        BY <1>0, <1>7, <3>1, SkipsOne, CallMoves
    <2>2. CASE \E pc \in AtWork : req' = [req EXCEPT ![r].pc = pc]
      <3>1. PICK pc \in AtWork : req' = [req EXCEPT ![r] = [req[r] EXCEPT !.pc = pc]]
        BY <2>2
      <3> QED
        BY <1>0, <1>7, <3>1, MovesOn, CallMoves
    <2> QED
      BY <1>7, <2>1, <2>2
  <1>8. ASSUME NEW r \in Requests, UsesCache(r) \/ ChecksHealth(r) \/ Runs(r)
        PROVE  RouterInv'
    <2>1. req[r].pc \in AtWork /\ req[r].left # <<>>
      BY <1>0, <1>8 DEF UsesCache, ChecksHealth, Runs, AtWork, CallOK
    <2> QED
      BY <1>0, <1>7, <1>8, <2>1 DEF UsesCache, ChecksHealth, Runs, AtWork
  <1>9. ASSUME NEW r \in Requests, NEW status \in Statuses, HealthKnown(r, status) \/ RunFails(r)
        PROVE  RouterInv'
    <2>1. req[r].pc \in AtWork /\ req[r].left # <<>>
      BY <1>0, <1>9 DEF HealthKnown, RunFails, AtWork, CallOK
    <2>2. cache' \in [ProviderSet -> Statuses \cup {"unknown"}]
      <3>1. "not ok" \in Statuses
        BY DEF Statuses
      <3>2. Learns(Head(req[r].left), status) \/ Learns(Head(req[r].left), "not ok")
        BY <1>9 DEF HealthKnown, RunFails
      <3> QED
        BY <3>1, <3>2, LearnsType
    <2> QED
      BY <1>0, <1>7, <1>9, <2>1, <2>2 DEF HealthKnown, RunFails, AtWork
  <1>10. ASSUME NEW r \in Requests, Answers(r) \/ GoesOn(r)
         PROVE  RouterInv'
    <2>1. "not ok" \in Statuses
      BY DEF Statuses
    <2> QED
      BY <1>4, <1>5, <1>6, <1>8, <1>9, <1>10, <2>1 DEF Answers, GoesOn, TimesOut
  <1> QED
    BY <1>1, <1>2, <1>3, <1>10 DEF Next

LEMMA RouterAlwaysInv == Spec => []RouterInv
  <1>1. Init => RouterInv
    <2> SUFFICES ASSUME Init PROVE RouterInv
      OBVIOUS
    <2>1. CallOK(NoCall)
      BY NoCallOK
    <2>2. NoCall \in Calls
      BY <2>1 DEF CallOK
    <2> QED
      BY <2>1, <2>2, ProvidersAssumption DEF Init, RouterInv, ProvidersAssumption
  <1>2. RouterInv /\ [Next]_vars => RouterInv'
    <2> SUFFICES ASSUME RouterInv, [Next]_vars PROVE RouterInv'
      OBVIOUS
    <2>1. CASE UNCHANGED vars
      <3>1. (\A x \in Requests : CallOK(req[x]))'
        BY <2>1, StaysOK DEF vars, RouterInv
      <3>2. (req \in [Requests -> Calls])'
        BY <2>1 DEF vars, Calls, RouterInv
      <3> QED
        BY <2>1, <3>1, <3>2 DEF vars, RouterInv
    <2> QED
      BY <2>1, StepKeepsRouterInv, ProvidersAssumption
  <1> QED
    BY <1>1, <1>2, PTL DEF Spec

\* No request in mode local_only is run by a provider of the cloud, and in the modes
\* that prefer the local ones the cloud runs a request only when no local candidate is
\* left, whichever providers there are, whatever is preferred, cached and failing.
THEOREM RoutingAlwaysSound == Spec => []RoutingSound
  <1>1. RouterInv => RoutingSound
    BY InvGivesProperties, ProvidersAssumption
  <1> QED
    BY <1>1, RouterAlwaysInv, PTL

\* An answer says that a fallback was used exactly when another candidate than the
\* first one gives it.
THEOREM FallbackAlwaysTold == Spec => []FallbackTold
  <1>1. RouterInv => FallbackTold
    BY InvGivesProperties, ProvidersAssumption
  <1> QED
    BY <1>1, RouterAlwaysInv, PTL
=============================================================================
