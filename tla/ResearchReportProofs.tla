------------------------- MODULE ResearchReportProofs -------------------------
(* Machine-checked proofs about a research task, for any search, any web, any *)
(* messages of the user and any limits: its sources and its evidence are      *)
(* sound, what its steps have made stands when it is paused, restarted and    *)
(* refined, a report has a basis, and its grades are earned.                  *)
EXTENDS ResearchReport, TLAPS, FiniteSetTheorems, WellFoundedInduction, SequenceTheorems

-----------------------------------------------------------------------------
(* Positions. *)

\* A set of naturals has a smallest element.
LEMMA NatMin ==
  ASSUME NEW S \in SUBSET Nat, S # {}
  PROVE  \E i \in S : \A j \in S : i <= j
  <1> DEFINE R == {ss \in Nat \X Nat : ss[1] < ss[2]}
  <1>1. IsWellFoundedOn(R, Nat)
    BY NatLessThanWellFounded DEF OpToRel
  <1>2. \A i, j \in Nat : <<j, i>> \in R <=> j < i
    OBVIOUS
  <1> HIDE DEF R
  <1>3. PICK i \in S : \A j \in S : ~(<<j, i>> \in R)
    BY <1>1, WFMin
  <1>4. ASSUME NEW j \in S PROVE i <= j
    <2>1. i \in Nat /\ j \in Nat /\ ~(<<j, i>> \in R)
      BY <1>3
    <2>2. ~(j < i)
      BY <1>2, <2>1
    <2> QED
      BY <2>1, <2>2
  <1> QED
    BY <1>4

Before(S, i) == {j \in S : j < i}

\* The number of positions before one of them, in a set of positions.
LEMMA BeforeType ==
  ASSUME NEW n \in Nat, NEW S \in SUBSET (1..n), NEW i \in S
  PROVE  /\ IsFiniteSet(S) /\ Cardinality(S) \in Nat /\ IsFiniteSet(Before(S, i))
         /\ Cardinality(Before(S, i)) \in 0..Cardinality(S) - 1
  <1>1. IsFiniteSet(1..n)
    BY FS_Interval
  <1>2. IsFiniteSet(S) /\ Cardinality(S) \in Nat
    BY <1>1, FS_Subset, FS_CardinalityType
  <1>3. IsFiniteSet(S \ {i}) /\ Cardinality(S \ {i}) = Cardinality(S) - 1
    BY <1>2, FS_RemoveElement
  <1>4. Before(S, i) \subseteq S \ {i}
    BY DEF Before
  <1>5. IsFiniteSet(Before(S, i)) /\ Cardinality(Before(S, i)) <= Cardinality(S) - 1
    BY <1>3, <1>4, FS_Subset
  <1>6. Cardinality(Before(S, i)) \in Nat
    BY <1>5, FS_CardinalityType
  <1> QED
    BY <1>2, <1>5, <1>6

LEMMA BeforeGrows ==
  ASSUME NEW n \in Nat, NEW S \in SUBSET (1..n), NEW i \in S, NEW k \in S, i < k
  PROVE  Cardinality(Before(S, i)) < Cardinality(Before(S, k))
  <1>1. IsFiniteSet(Before(S, i)) /\ IsFiniteSet(Before(S, k))
    BY BeforeType
  <1>2. i \notin Before(S, i) /\ Before(S, i) \cup {i} \subseteq Before(S, k)
    <2>1. ~(i < i) /\ i < k /\ \A j \in S : j < i => j < k
      <3>1. S \subseteq Int /\ i \in Int /\ k \in Int
        OBVIOUS
      <3> QED
        BY <3>1
    <2> QED
      BY <2>1, Zenon DEF Before
  <1>3. /\ IsFiniteSet(Before(S, i) \cup {i})
        /\ Cardinality(Before(S, i) \cup {i}) = Cardinality(Before(S, i)) + 1
    BY <1>1, <1>2, FS_AddElement
  <1>4. Cardinality(Before(S, i) \cup {i}) <= Cardinality(Before(S, k))
    BY <1>1, <1>2, FS_Subset
  <1>5. Cardinality(Before(S, i)) \in Nat /\ Cardinality(Before(S, k)) \in Nat
    BY <1>1, FS_CardinalityType
  <1> QED
    BY <1>3, <1>4, <1>5

LEMMA BeforeDiffers ==
  ASSUME NEW n \in Nat, NEW S \in SUBSET (1..n), NEW i \in S, NEW k \in S,
         Cardinality(Before(S, i)) = Cardinality(Before(S, k))
  PROVE  i = k
  <1>1. Cardinality(Before(S, i)) \in Nat /\ Cardinality(Before(S, k)) \in Nat
    BY BeforeType, FS_CardinalityType
  <1>2. ~(i < k)
    <2> SUFFICES ASSUME i < k PROVE FALSE
      OBVIOUS
    <2>1. Cardinality(Before(S, i)) < Cardinality(Before(S, k))
      BY BeforeGrows
    <2> QED
      BY <1>1, <2>1
  <1>3. ~(k < i)
    <2> SUFFICES ASSUME k < i PROVE FALSE
      OBVIOUS
    <2>1. Cardinality(Before(S, k)) < Cardinality(Before(S, i))
      BY BeforeGrows
    <2> QED
      BY <1>1, <2>1
  <1>4. S \subseteq Int
    OBVIOUS
  <1> QED
    BY <1>2, <1>3, <1>4

\* The first k of a set of positions are k at most.
LEMMA FirstOfSize ==
  ASSUME NEW n \in Nat, NEW S \in SUBSET (1..n), NEW k \in Nat
  PROVE  /\ FirstOf(S, k) \subseteq S /\ IsFiniteSet(FirstOf(S, k))
         /\ Cardinality(FirstOf(S, k)) \in Nat /\ Cardinality(FirstOf(S, k)) <= k
  <1> DEFINE F == FirstOf(S, k)
             place == [i \in F |-> Cardinality(Before(S, i))]
  <1>1. F \subseteq S
    BY DEF FirstOf
  <1>2. IsFiniteSet(F) /\ Cardinality(F) \in Nat
    <2>1. IsFiniteSet(1..n)
      BY FS_Interval
    <2> QED
      BY <1>1, <2>1, FS_Subset, FS_CardinalityType
  <1>3. IsFiniteSet(0..k - 1) /\ Cardinality(0..k - 1) = k
    <2>1. 0 \in Int /\ k - 1 \in Int /\ (0 > k - 1 <=> k = 0)
      OBVIOUS
    <2> QED
      BY <2>1, FS_Interval
  <1>4. place \in [F -> 0..k - 1]
    <2>1. ASSUME NEW i \in F PROVE Cardinality(Before(S, i)) \in 0..k - 1
      <3>1. Cardinality(Before(S, i)) < k
        BY DEF FirstOf, Before
      <3>2. i \in S
        BY <1>1
      <3>3. Cardinality(Before(S, i)) \in Nat
        BY <3>2, BeforeType, FS_CardinalityType
      <3> QED
        BY <3>1, <3>3
    <2> QED
      BY <2>1
  <1>5. ASSUME NEW i \in F, NEW j \in F, place[i] = place[j] PROVE i = j
    BY <1>1, <1>5, BeforeDiffers
  <1> HIDE DEF F, place
  <1>6. place \in Injection(F, 0..k - 1)
    BY <1>4, <1>5 DEF Injection, IsInjective
  <1>7. Cardinality(F) <= k
    BY <1>2, <1>3, <1>6, FS_Injection
  <1> QED
    BY <1>1, <1>2, <1>7 DEF F

\* The values of a function are as many as its arguments at most.
LEMMA ImageSize ==
  ASSUME NEW S, IsFiniteSet(S), NEW f, DOMAIN f \subseteq S, S \subseteq DOMAIN f
  PROVE  /\ IsFiniteSet({f[x] : x \in S})
         /\ Cardinality({f[x] : x \in S}) <= Cardinality(S)
  <1> DEFINE T == {f[x] : x \in S}
             g == [x \in S |-> f[x]]
  <1>1. g \in Surjection(S, T)
    BY DEF Surjection
  <1> HIDE DEF T, g
  <1>2. IsFiniteSet(T) /\ Cardinality(T) <= Cardinality(S)
    BY <1>1, FS_Surjection
  <1> QED
    BY <1>2 DEF T

\* No more pages are read than the task allows.
LEMMA PagesToReadSize ==
  ASSUME NEW n \in Nat, NEW selected, DOMAIN selected = 1..n, NEW k \in Nat
  PROVE  /\ PagesToRead(selected, k) \subseteq 1..n /\ IsFiniteSet(PagesToRead(selected, k))
         /\ Cardinality(PagesToRead(selected, k)) <= k
  <1> DEFINE wanted == {i \in DOMAIN selected : selected[i].usedAs = "page_read"}
             meant == FirstOf(wanted, k)
             others == FirstOf(DOMAIN selected \ meant, k - Cardinality(meant))
  <1>1. wanted \in SUBSET (1..n)
    OBVIOUS
  <1> HIDE DEF wanted
  <1>2. /\ meant \subseteq wanted /\ IsFiniteSet(meant)
        /\ Cardinality(meant) \in Nat /\ Cardinality(meant) <= k
    BY <1>1, FirstOfSize
  <1> HIDE DEF meant
  <1>3. k - Cardinality(meant) \in Nat /\ DOMAIN selected \ meant \in SUBSET (1..n)
    BY <1>2
  <1>4. /\ others \subseteq DOMAIN selected \ meant /\ IsFiniteSet(others)
        /\ Cardinality(others) \in Nat /\ Cardinality(others) <= k - Cardinality(meant)
    BY <1>3, FirstOfSize
  <1> HIDE DEF others
  <1>5. /\ IsFiniteSet(meant \cup others)
        /\ Cardinality(meant \cup others)
             = Cardinality(meant) + Cardinality(others) - Cardinality(meant \cap others)
    BY <1>2, <1>4, FS_Union
  <1>6. Cardinality(meant \cap others) = 0
    <2>1. meant \cap others = {}
      BY <1>4
    <2> QED
      BY <2>1, FS_EmptySet
  <1>7. Cardinality(meant \cup others) <= k
    BY <1>2, <1>4, <1>5, <1>6
  <1>8. PagesToRead(selected, k) = meant \cup others
    BY DEF PagesToRead, meant, others, wanted
  <1> QED
    BY <1>1, <1>2, <1>4, <1>5, <1>7, <1>8

-----------------------------------------------------------------------------
(* The selection of the sources. *)

LEMMA ScoreType ==
  ASSUME NEW result \in Results, NEW asked
  PROVE  Score(result, asked) \in 0..1000
  <1>2. \A condition : \A n \in Int : Points(condition, n) \in Int
    BY DEF Points
  <1>3. \A signal : \A m, n \in Int : Asked(result, signal, m, n) \in Int
    BY DEF Asked
  <1>4. Collateral(result) \in Int
    BY DEF Collateral
  <1>5. (580 * result.overlap) \div 100 \in Int
    BY DEF Results
  <1>6. Total(result, asked) \in Int
    <2>1. (IF Output.official \in asked THEN 140 ELSE 80) \in Int
      OBVIOUS
    <2> QED
      BY <1>2, <1>3, <1>4, <1>5, <2>1 DEF Total
  <1> QED
    BY <1>6 DEF Score

Chosen(results, asked) == {k \in DOMAIN results : Verdict(results, k, asked) = "selected"}

LEMMA CandidateType ==
  ASSUME NEW results \in Seq(Results), NEW asked, NEW i \in DOMAIN results
  PROVE  /\ Candidate(results, i, asked) \in Sources(Len(results))
         /\ Candidate(results, i, asked).result = i
         /\ Candidate(results, i, asked).level = "snippet_only"
         /\ Candidate(results, i, asked).fetched = "no"
  <1>1. results[i] \in Results /\ i \in 1..Len(results)
    OBVIOUS
  <1>2. Score(results[i], asked) \in 0..1000
    BY <1>1, ScoreType
  <1>3. Relevance(Score(results[i], asked)) \in Relevances
    BY DEF Relevance, Relevances
  <1>4. InitialStrength(Relevance(Score(results[i], asked))) \in Strengths
    BY DEF InitialStrength, Strengths
  <1>5. results[i].snippet \in BOOLEAN
    BY <1>1 DEF Results
  <1> QED
    BY <1>1, <1>2, <1>3, <1>4, <1>5 DEF Candidate, Sources, Qualities, Usages

\* Two results that are chosen have different URLs.
LEMMA ChosenDiffer ==
  ASSUME NEW results \in Seq(Results), NEW asked, NEW i \in Chosen(results, asked),
         NEW j \in Chosen(results, asked), results[i].url = results[j].url
  PROVE  i = j
  <1>1. ASSUME NEW k \in Chosen(results, asked), NEW h \in Chosen(results, asked),
               h < k, results[h].url = results[k].url
        PROVE  FALSE
    <2>1. k \in 1..Len(results) /\ h \in 1..k - 1
      BY <1>1 DEF Chosen
    <2>2. Verdict(results, k, asked) = "selected"
      BY DEF Chosen
    <2> QED
      BY <1>1, <2>1, <2>2 DEF Verdict
  <1>2. i \in Int /\ j \in Int
    BY DEF Chosen
  <1> QED
    BY <1>1, <1>2

\* The candidates are ranked by a strict total order.
LEMMA RanksAreOrder ==
  ASSUME NEW results \in Seq(Results), NEW asked,
         NEW r \in Candidates(results, asked), NEW s \in Candidates(results, asked),
         NEW t \in Candidates(results, asked)
  PROVE  /\ ~RanksBefore(results, s, s)
         /\ RanksBefore(results, r, s) /\ RanksBefore(results, s, t) => RanksBefore(results, r, t)
         /\ s # t => RanksBefore(results, s, t) \/ RanksBefore(results, t, s)
  <1>1. \A u \in Candidates(results, asked) :
          /\ u.score \in Int /\ u.result \in Int
          /\ results[u.result].official \in BOOLEAN
          /\ u = Candidate(results, u.result, asked)
    <2>1. ASSUME NEW i \in DOMAIN results PROVE
            LET u == Candidate(results, i, asked)
            IN  /\ u.score \in Int /\ u.result \in Int
                /\ results[u.result].official \in BOOLEAN /\ u.result = i
      <3>1. Candidate(results, i, asked) \in Sources(Len(results))
        BY CandidateType
      <3>2. Candidate(results, i, asked).result = i
        BY CandidateType
      <3>3. results[i].official \in BOOLEAN
        <4>1. results[i] \in Results
          OBVIOUS
        <4> QED
          BY <4>1 DEF Results
      <3>4. Candidate(results, i, asked).score \in Int
        <4>1. Candidate(results, i, asked).score \in 0..1000
          BY <3>1, Zenon DEF Sources
        <4>2. \A n \in 0..1000 : n \in Int
          OBVIOUS
        <4> QED
          BY <4>1, <4>2, Zenon
      <3> QED
        BY <3>2, <3>3, <3>4
    <2> QED
      BY <2>1 DEF Candidates
  <1>2. s # t => s.result # t.result
    BY <1>1
  <1>3. /\ r.score \in Int /\ r.result \in Int /\ results[r.result].official \in BOOLEAN
        /\ s.score \in Int /\ s.result \in Int /\ results[s.result].official \in BOOLEAN
        /\ t.score \in Int /\ t.result \in Int /\ results[t.result].official \in BOOLEAN
    BY <1>1
  <1>4. ~RanksBefore(results, s, s)
    BY <1>3 DEF RanksBefore
  <1>5. RanksBefore(results, r, s) /\ RanksBefore(results, s, t) => RanksBefore(results, r, t)
    BY <1>3 DEF RanksBefore
  <1>6. s # t => RanksBefore(results, s, t) \/ RanksBefore(results, t, s)
    BY <1>2, <1>3 DEF RanksBefore
  <1> QED
    BY <1>4, <1>5, <1>6

LEMMA CandidatesFinite ==
  ASSUME NEW results \in Seq(Results), NEW asked
  PROVE  /\ IsFiniteSet(Candidates(results, asked))
         /\ Cardinality(Candidates(results, asked)) \in Nat
  <1>1. IsFiniteSet(Chosen(results, asked))
    <2>1. Chosen(results, asked) \subseteq 1..Len(results)
      BY DEF Chosen
    <2>2. Len(results) \in Nat
      OBVIOUS
    <2>3. IsFiniteSet(1..Len(results))
      BY <2>2, FS_Interval
    <2> QED
      BY <2>1, <2>3, FS_Subset
  <1>2. Candidates(results, asked) = {Candidate(results, i, asked) : i \in Chosen(results, asked)}
    BY DEF Candidates, Chosen
  <1>3. IsFiniteSet({Candidate(results, i, asked) : i \in Chosen(results, asked)})
    <2> DEFINE made == [i \in Chosen(results, asked) |-> Candidate(results, i, asked)]
    <2>1. {made[i] : i \in Chosen(results, asked)}
            = {Candidate(results, i, asked) : i \in Chosen(results, asked)}
      OBVIOUS
    <2>2. DOMAIN made = Chosen(results, asked)
      OBVIOUS
    <2> HIDE DEF made
    <2>3. IsFiniteSet({made[i] : i \in Chosen(results, asked)})
      BY <1>1, <2>2, ImageSize
    <2> QED
      BY <2>1, <2>3
  <1> QED
    BY <1>2, <1>3, FS_CardinalityType

Ahead(results, S, s) == {t \in S : RanksBefore(results, t, s)}

\* The place of a candidate is the number of those ahead of it.
LEMMA PlaceType ==
  ASSUME NEW results \in Seq(Results), NEW asked, NEW s \in Candidates(results, asked)
  PROVE  LET S == Candidates(results, asked)
         IN  /\ IsFiniteSet(Ahead(results, S, s)) /\ s \notin Ahead(results, S, s)
             /\ Cardinality(Ahead(results, S, s)) \in 0..Cardinality(S) - 1
  <1> DEFINE S == Candidates(results, asked)
             A == Ahead(results, S, s)
  <1>1. IsFiniteSet(S) /\ Cardinality(S) \in Nat
    BY CandidatesFinite
  <1>2. s \notin A
    BY RanksAreOrder DEF Ahead
  <1>3. A \subseteq S \ {s}
    BY <1>2 DEF Ahead
  <1> HIDE DEF A, S
  <1>4. IsFiniteSet(S \ {s}) /\ Cardinality(S \ {s}) = Cardinality(S) - 1
    BY <1>1, FS_RemoveElement DEF S
  <1>5. IsFiniteSet(A) /\ Cardinality(A) <= Cardinality(S) - 1
    BY <1>3, <1>4, FS_Subset
  <1>6. Cardinality(A) \in Nat
    BY <1>5, FS_CardinalityType
  <1> QED
    BY <1>1, <1>2, <1>5, <1>6 DEF A, S

LEMMA PlacesFollow ==
  ASSUME NEW results \in Seq(Results), NEW asked, NEW s \in Candidates(results, asked),
         NEW t \in Candidates(results, asked), RanksBefore(results, s, t)
  PROVE  LET S == Candidates(results, asked)
         IN  Cardinality(Ahead(results, S, s)) < Cardinality(Ahead(results, S, t))
  <1> DEFINE S == Candidates(results, asked)
             A == Ahead(results, S, s)
             B == Ahead(results, S, t)
  <1>1. IsFiniteSet(A) /\ IsFiniteSet(B) /\ s \notin A
    BY PlaceType
  <1>2. A \cup {s} \subseteq B
    BY RanksAreOrder DEF Ahead
  <1> HIDE DEF A, B, S
  <1>3. IsFiniteSet(A \cup {s}) /\ Cardinality(A \cup {s}) = Cardinality(A) + 1
    BY <1>1, FS_AddElement
  <1>4. Cardinality(A \cup {s}) <= Cardinality(B)
    BY <1>1, <1>2, FS_Subset
  <1>5. Cardinality(A) \in Nat /\ Cardinality(B) \in Nat
    BY <1>1, FS_CardinalityType
  <1>6. Cardinality(A) < Cardinality(B)
    BY <1>3, <1>4, <1>5
  <1> QED
    BY <1>6 DEF A, B, S

\* Every place is taken, by one candidate.
LEMMA RankedType ==
  ASSUME NEW results \in Seq(Results), NEW asked
  PROVE  LET S == Candidates(results, asked)
             n == Cardinality(S)
         IN  /\ n \in Nat /\ DOMAIN Ranked(results, S) = 1..n
             /\ \A k \in 1..n : Ranked(results, S)[k] \in S
             /\ \A j, k \in 1..n : Ranked(results, S)[j] = Ranked(results, S)[k] => j = k
  <1> DEFINE S == Candidates(results, asked)
             n == Cardinality(S)
             At(s) == Cardinality(Ahead(results, S, s))
             place == [s \in S |-> At(s)]
             c == Ranked(results, S)
  <1>1. IsFiniteSet(S) /\ n \in Nat
    BY CandidatesFinite
  <1>2. \A s \in S : At(s) \in 0..n - 1
    BY PlaceType
  <1>3. ASSUME NEW s \in S, NEW t \in S, At(s) = At(t) PROVE s = t
    <2>1. At(s) \in Int /\ At(t) \in Int
      BY <1>1, <1>2
    <2>2. ~RanksBefore(results, s, t)
      <3> SUFFICES ASSUME RanksBefore(results, s, t) PROVE FALSE
        OBVIOUS
      <3>1. At(s) < At(t)
        BY PlacesFollow
      <3> HIDE DEF At
      <3> QED
        BY <1>3, <2>1, <3>1
    <2>3. ~RanksBefore(results, t, s)
      <3> SUFFICES ASSUME RanksBefore(results, t, s) PROVE FALSE
        OBVIOUS
      <3>1. At(t) < At(s)
        BY PlacesFollow
      <3> HIDE DEF At
      <3> QED
        BY <1>3, <2>1, <3>1
    <2> QED
      BY <2>2, <2>3, RanksAreOrder
  <1>4. \A k \in 1..n : c[k] = CHOOSE s \in S : At(s) = k - 1
    BY DEF Ranked, Ahead
  <1>5. DOMAIN c = 1..n
    BY DEF Ranked
  <1> HIDE DEF S, n, At, c
  <1>6. IsFiniteSet(0..n - 1) /\ Cardinality(0..n - 1) = n
    <2>1. 0 \in Int /\ n - 1 \in Int /\ (0 > n - 1 <=> n = 0)
      BY <1>1
    <2> QED
      BY <1>1, <2>1, FS_Interval
  <1>7. place \in Injection(S, 0..n - 1)
    <2>1. place \in [S -> 0..n - 1]
      BY <1>2
    <2>2. \A s, t \in S : place[s] = place[t] => s = t
      BY <1>3
    <2> QED
      BY <2>1, <2>2 DEF Injection, IsInjective
  <1>8. place \in Surjection(S, 0..n - 1)
    BY <1>1, <1>6, <1>7, FS_Injection DEF n
  <1>9. ASSUME NEW k \in 1..n PROVE c[k] \in S /\ At(c[k]) = k - 1
    <2>1. k - 1 \in 0..n - 1
      BY <1>1
    <2>2. \E s \in S : At(s) = k - 1
      BY <1>8, <2>1 DEF Surjection
    <2> QED
      BY <1>4, <2>2
  <1>10. ASSUME NEW j \in 1..n, NEW k \in 1..n, c[j] = c[k] PROVE j = k
    <2>1. j - 1 = k - 1
      BY <1>9, <1>10
    <2> QED
      BY <1>1, <2>1
  <1> QED
    BY <1>1, <1>5, <1>9, <1>10 DEF S, n, c

\* The sources of a task: no URL is there twice, and what counts as read has a text.
SourcesTell(selected, results) ==
  /\ selected \in Seq(Sources(Len(results)))
  /\ \A j, k \in DOMAIN selected :
       results[selected[j].result].url = results[selected[k].result].url => j = k
  /\ \A k \in DOMAIN selected :
       selected[k].level = "page_read" \/ selected[k].fetched = "ok" => selected[k].excerpt

LEMMA UsedType ==
  ASSUME NEW n, NEW source \in Sources(n), NEW used \in {"page_read", "snippet_only"}
  PROVE  [source EXCEPT !.usedAs = used] \in Sources(n)
  BY DEF Sources

LEMMA SelectTells ==
  ASSUME NEW results \in Seq(Results), NEW asked, NEW limit
  PROVE  SourcesTell(Select(results, asked, limit), results)
  <1> DEFINE S == Candidates(results, asked)
             n == Cardinality(S)
             ranked == Ranked(results, S)
             selected == Select(results, asked, limit)
  <1>1. /\ n \in Nat /\ DOMAIN ranked = 1..n
        /\ \A k \in 1..n : ranked[k] \in S
        /\ \A j, k \in 1..n : ranked[j] = ranked[k] => j = k
    BY RankedType
  <1>2. \A s \in S :
          /\ s \in Sources(Len(results)) /\ s.level = "snippet_only" /\ s.fetched = "no"
          /\ s.result \in Chosen(results, asked)
          /\ s = Candidate(results, s.result, asked)
    <2>1. ASSUME NEW i \in Chosen(results, asked) PROVE
            LET s == Candidate(results, i, asked)
            IN  /\ s \in Sources(Len(results)) /\ s.level = "snippet_only" /\ s.fetched = "no"
                /\ s.result = i
      <3>1. i \in DOMAIN results
        BY DEF Chosen
      <3> QED
        BY <3>1, CandidateType
    <2>2. S = {Candidate(results, i, asked) : i \in Chosen(results, asked)}
      BY DEF Candidates, Chosen
    <2> QED
      BY <2>1, <2>2
  <1>3. /\ DOMAIN selected = DOMAIN ranked
        /\ selected = [k \in DOMAIN ranked |-> selected[k]]
        /\ \A k \in DOMAIN ranked : \E used \in {"page_read", "snippet_only"} :
             selected[k] = [ranked[k] EXCEPT !.usedAs = used]
    BY DEF Select
  <1> HIDE DEF S, n, ranked, selected
  <1>4. ASSUME NEW k \in 1..n
        PROVE  /\ selected[k] \in Sources(Len(results)) /\ selected[k].level = "snippet_only"
               /\ selected[k].fetched = "no" /\ selected[k].result = ranked[k].result
    <2>1. ranked[k] \in Sources(Len(results))
      BY <1>1, <1>2
    <2>2. PICK used \in {"page_read", "snippet_only"} :
            selected[k] = [ranked[k] EXCEPT !.usedAs = used]
      BY <1>1, <1>3
    <2>3. ranked[k].level = "snippet_only" /\ ranked[k].fetched = "no"
      BY <1>1, <1>2
    <2>4. selected[k] \in Sources(Len(results))
      <3>1. [ranked[k] EXCEPT !.usedAs = used] \in Sources(Len(results))
        BY <2>1, UsedType
      <3> QED
        BY <2>2, <3>1, Zenon
    <2>5. /\ selected[k].level = ranked[k].level /\ selected[k].fetched = ranked[k].fetched
          /\ selected[k].result = ranked[k].result
      BY <2>1, <2>2 DEF Sources
    <2> QED
      BY <2>3, <2>4, <2>5
  <1>5. selected \in Seq(Sources(Len(results)))
    <2>1. selected \in [1..n -> Sources(Len(results))]
      BY <1>1, <1>3, <1>4
    <2> QED
      BY <1>1, <2>1
  <1>6. ASSUME NEW j \in 1..n, NEW k \in 1..n,
               results[selected[j].result].url = results[selected[k].result].url
        PROVE  j = k
    <2>1. selected[j].result = ranked[j].result /\ selected[k].result = ranked[k].result
      BY <1>4
    <2>2. /\ ranked[j].result \in Chosen(results, asked)
          /\ ranked[k].result \in Chosen(results, asked)
      BY <1>1, <1>2
    <2>3. ranked[j].result = ranked[k].result
      BY <1>6, <2>1, <2>2, ChosenDiffer
    <2>4. ranked[j] = ranked[k]
      BY <1>1, <1>2, <2>3
    <2> QED
      BY <1>1, <2>4
  <1>7. \A k \in 1..n : selected[k].level # "page_read" /\ selected[k].fetched # "ok"
    BY <1>4
  <1>8. DOMAIN selected = 1..n
    BY <1>1, <1>3
  <1> QED
    BY <1>5, <1>6, <1>7, <1>8 DEF SourcesTell, selected

-----------------------------------------------------------------------------
(* The pages that are read. *)

\* A page that could be read has a quality.
PageTells(page) ==
  page.noise \in BOOLEAN /\ (page.status = "ok" => page.quality \in {"high", "medium", "low"})

LEMMA FetchPageTells ==
  ASSUME NEW web, NEW url, NEW localOnly
  PROVE  PageTells(FetchPage(web, url, localOnly))
  <1>1. \A text : ClassifyReadQuality(text) \in {"high", "medium", "low"}
    BY DEF ClassifyReadQuality
  <1>2. ASSUME NEW response
        PROVE  /\ Readable(response).noise \in BOOLEAN
               /\ Readable(response).quality \in {"high", "medium", "low"}
    <2> DEFINE text == response.texts[BestCandidate(response.texts)]
    <2>1. CASE response.type = "plain"
      BY <2>1 DEF Readable
    <2>2. CASE response.type # "plain" /\ response.texts = <<>>
      BY <2>2 DEF Readable
    <2>3. CASE response.type # "plain" /\ response.texts # <<>>
      <3>1. /\ Readable(response).quality = ClassifyReadQuality(text)
            /\ Readable(response).noise = (\/ text.technical > 220 \/ text.links > MaxLinkDensity
                                           \/ ClassifyReadQuality(text) = "low")
        BY <2>3 DEF Readable
      <3> QED
        BY <1>1, <3>1
    <2> QED
      BY <2>1, <2>2, <2>3
  <1>3. /\ PageTells([NothingRead EXCEPT !.status = "timeout"])
        /\ PageTells([NothingRead EXCEPT !.status = "blocked"])
        /\ PageTells([NothingRead EXCEPT !.status = "forbidden"])
    BY DEF PageTells, NothingRead
  <1>4. PageTells(NothingRead)
    BY DEF PageTells, NothingRead
  <1>5. PageTells(FetchPageContent(web, url))
    <2> DEFINE response == FetchWithLimitedRedirects(web, url).response
               outcome == Outcome(response)
               page == FetchPageContent(web, url)
    <2>1. CASE ~Allowed(url)
      BY <1>3, <2>1 DEF FetchPageContent
    <2>2. CASE Allowed(url)
      <3>1. \/ page = [NothingRead EXCEPT !.status = "timeout"]
            \/ page = [NothingRead EXCEPT !.status = "blocked"]
            \/ page = NothingRead
            \/ page = [status |-> "unreadable", quality |-> "none",
                       noise |-> Readable(response).noise]
            \/ page = [status |-> "ok", quality |-> Readable(response).quality,
                       noise |-> Readable(response).noise]
        <4>1. CASE outcome = "timeout"
          BY <2>2, <4>1 DEF FetchPageContent
        <4>2. CASE outcome \in {"blocked", "type"}
          BY <2>2, <4>2 DEF FetchPageContent
        <4>3. CASE outcome = "read"
          BY <2>2, <4>3 DEF FetchPageContent
        <4>4. CASE outcome \notin {"timeout", "blocked", "type", "read"}
          BY <2>2, <4>4 DEF FetchPageContent
        <4> QED
          BY <4>1, <4>2, <4>3, <4>4
      <3>2. PageTells([status |-> "unreadable", quality |-> "none",
                       noise |-> Readable(response).noise])
        BY <1>2 DEF PageTells
      <3>3. PageTells([status |-> "ok", quality |-> Readable(response).quality,
                       noise |-> Readable(response).noise])
        BY <1>2 DEF PageTells
      <3> QED
        BY <1>3, <1>4, <3>1, <3>2, <3>3, Zenon
    <2> QED
      BY <2>1, <2>2
  <1> QED
    BY <1>3, <1>5 DEF FetchPage

\* One thing more is known of a source.
LEMMA SourceFieldType ==
  ASSUME NEW n, NEW source \in Sources(n)
  PROVE  /\ \A x \in {"page_read", "snippet_only", "discarded"} :
              [source EXCEPT !.usedAs = x] \in Sources(n)
         /\ \A x \in {"page_read", "snippet_only", "none"} :
              [source EXCEPT !.level = x] \in Sources(n)
         /\ \A x \in Strengths : [source EXCEPT !.strength = x] \in Sources(n)
         /\ \A x \in Usages : [source EXCEPT !.use = x] \in Sources(n)
         /\ \A x \in {"no", "ok", "failed"} : [source EXCEPT !.fetched = x] \in Sources(n)
         /\ \A x \in Qualities : [source EXCEPT !.quality = x] \in Sources(n)
         /\ \A x \in BOOLEAN : [source EXCEPT !.noise = x] \in Sources(n)
         /\ \A x \in BOOLEAN : [source EXCEPT !.excerpt = x] \in Sources(n)
  BY DEF Sources

LEMMA ReadOkType ==
  ASSUME NEW n, NEW source \in Sources(n), NEW quality \in Qualities,
         NEW noise \in BOOLEAN, NEW strength \in Strengths, NEW use \in Usages
  PROVE  [source EXCEPT !.fetched = "ok", !.excerpt = TRUE, !.quality = quality,
                        !.noise = noise, !.level = "page_read",
                        !.strength = strength, !.usedAs = "page_read", !.use = use]
           \in Sources(n)
<1> DEFINE s1 == [source EXCEPT !.fetched = "ok"]
           s2 == [s1 EXCEPT !.excerpt = TRUE]
           s3 == [s2 EXCEPT !.quality = quality]
           s4 == [s3 EXCEPT !.noise = noise]
           s5 == [s4 EXCEPT !.level = "page_read"]
           s6 == [s5 EXCEPT !.strength = strength]
           s7 == [s6 EXCEPT !.usedAs = "page_read"]
           s8 == [s7 EXCEPT !.use = use]
<1>1. s8 = [source EXCEPT !.fetched = "ok", !.excerpt = TRUE, !.quality = quality,
                           !.noise = noise, !.level = "page_read",
                           !.strength = strength, !.usedAs = "page_read", !.use = use]
  OBVIOUS
<1>2. s1 \in Sources(n)
  BY SourceFieldType
<1> HIDE DEF s1
<1>3. s2 \in Sources(n)
  BY <1>2, SourceFieldType
<1> HIDE DEF s2
<1>4. s3 \in Sources(n)
  BY <1>3, SourceFieldType
<1> HIDE DEF s3
<1>5. s4 \in Sources(n)
  BY <1>4, SourceFieldType
<1> HIDE DEF s4
<1>6. s5 \in Sources(n)
  BY <1>5, SourceFieldType
<1> HIDE DEF s5
<1>7. s6 \in Sources(n)
  BY <1>6, SourceFieldType
<1> HIDE DEF s6
<1>8. s7 \in Sources(n)
  BY <1>7, SourceFieldType
<1> HIDE DEF s7
<1>9. s8 \in Sources(n)
  BY <1>8, SourceFieldType
<1> QED
  BY <1>1, <1>9

LEMMA ReadFailedType ==
  ASSUME NEW n, NEW source \in Sources(n), NEW noise \in BOOLEAN,
         NEW level \in {"snippet_only", "none"}, NEW strength \in Strengths,
         NEW usedAs \in {"snippet_only", "discarded"}, NEW use \in Usages
  PROVE  [source EXCEPT !.fetched = "failed", !.noise = noise, !.level = level,
                        !.strength = strength, !.usedAs = usedAs, !.use = use]
           \in Sources(n)
<1> DEFINE s1 == [source EXCEPT !.fetched = "failed"]
           s2 == [s1 EXCEPT !.noise = noise]
           s3 == [s2 EXCEPT !.level = level]
           s4 == [s3 EXCEPT !.strength = strength]
           s5 == [s4 EXCEPT !.usedAs = usedAs]
           s6 == [s5 EXCEPT !.use = use]
<1>1. s6 = [source EXCEPT !.fetched = "failed", !.noise = noise, !.level = level,
                           !.strength = strength, !.usedAs = usedAs, !.use = use]
  OBVIOUS
<1>2. s1 \in Sources(n)
  BY SourceFieldType
<1> HIDE DEF s1
<1>3. s2 \in Sources(n)
  BY <1>2, SourceFieldType
<1> HIDE DEF s2
<1>4. s3 \in Sources(n)
  BY <1>3, SourceFieldType
<1> HIDE DEF s3
<1>5. s4 \in Sources(n)
  BY <1>4, SourceFieldType
<1> HIDE DEF s4
<1>6. s5 \in Sources(n)
  BY <1>5, SourceFieldType
<1> HIDE DEF s5
<1>7. s6 \in Sources(n)
  BY <1>6, SourceFieldType
<1> QED
  BY <1>1, <1>7

LEMMA SnippetFieldsType ==
  ASSUME NEW n, NEW source \in Sources(n), NEW level \in {"snippet_only", "none"},
         NEW strength \in Strengths, NEW usedAs \in {"snippet_only", "discarded"}
  PROVE  [source EXCEPT !.fetched = "no", !.level = level, !.strength = strength,
                        !.usedAs = usedAs] \in Sources(n)
<1> DEFINE s1 == [source EXCEPT !.fetched = "no"]
           s2 == [s1 EXCEPT !.level = level]
           s3 == [s2 EXCEPT !.strength = strength]
           s4 == [s3 EXCEPT !.usedAs = usedAs]
<1>1. s4 = [source EXCEPT !.fetched = "no", !.level = level, !.strength = strength,
                           !.usedAs = usedAs]
  OBVIOUS
<1>2. s1 \in Sources(n)
  BY SourceFieldType
<1> HIDE DEF s1
<1>3. s2 \in Sources(n)
  BY <1>2, SourceFieldType
<1> HIDE DEF s2
<1>4. s3 \in Sources(n)
  BY <1>3, SourceFieldType
<1> HIDE DEF s3
<1>5. s4 \in Sources(n)
  BY <1>4, SourceFieldType
<1> QED
  BY <1>1, <1>5

\* What is read of a source changes neither the result it comes from nor what it is about.
LEMMA ReadType ==
  ASSUME NEW n, NEW source \in Sources(n), NEW page, PageTells(page)
  PROVE  /\ Read(source, page) \in Sources(n)
         /\ Read(source, page).result = source.result
         /\ Read(source, page).relevance = source.relevance
         /\ Read(source, page).level = "page_read" \/ Read(source, page).fetched = "ok"
              => Read(source, page).excerpt
  <1>1. source.snippet \in BOOLEAN /\ source.noise \in BOOLEAN
    BY DEF Sources
  <1>2. \A relevance, quality : StrengthOfRead(relevance, quality) \in Strengths
    BY DEF StrengthOfRead, Strengths
  <1>3. SnippetLevel(source) \in {"snippet_only", "none"}
    BY DEF SnippetLevel
  <1>4. CASE page.status = "ok"
    <2> DEFINE strength == StrengthOfRead(source.relevance, page.quality)
               use == IF strength = "weak" THEN "secondary" ELSE "primary"
    <2>1. Read(source, page) =
            [source EXCEPT !.fetched = "ok", !.excerpt = TRUE, !.quality = page.quality,
                           !.noise = page.noise, !.level = "page_read",
                           !.strength = strength, !.usedAs = "page_read", !.use = use]
      BY <1>4 DEF Read
    <2>2. /\ page.quality \in Qualities /\ page.noise \in BOOLEAN
          /\ strength \in Strengths /\ use \in Usages
      BY <1>2, <1>4 DEF PageTells, Qualities, Usages
    <2> HIDE DEF strength, use
    <2>3. Read(source, page) \in Sources(n)
      <3>1. [source EXCEPT !.fetched = "ok", !.excerpt = TRUE, !.quality = page.quality,
                           !.noise = page.noise, !.level = "page_read",
                           !.strength = strength, !.usedAs = "page_read", !.use = use]
              \in Sources(n)
        BY <2>2, ReadOkType
      <3> QED
        BY <2>1, <3>1, Zenon
    <2>4. /\ Read(source, page).result = source.result
          /\ Read(source, page).relevance = source.relevance /\ Read(source, page).excerpt
      BY <2>1 DEF Sources
    <2> QED
      BY <2>3, <2>4
  <1>5. CASE page.status # "ok"
    <2> DEFINE noise == IF page.status = "forbidden" THEN source.noise ELSE page.noise
               strength == IF source.snippet THEN "weak" ELSE "insufficient"
               usedAs == IF source.snippet THEN "snippet_only" ELSE "discarded"
               use == IF source.snippet THEN "secondary" ELSE "discarded"
    <2>1. Read(source, page) =
            [source EXCEPT !.fetched = "failed", !.noise = noise,
                           !.level = SnippetLevel(source), !.strength = strength,
                           !.usedAs = usedAs, !.use = use]
      BY <1>5 DEF Read
    <2>2. /\ noise \in BOOLEAN /\ strength \in Strengths
          /\ usedAs \in {"snippet_only", "discarded"} /\ use \in Usages
      BY <1>1 DEF PageTells, Strengths, Usages
    <2> HIDE DEF noise, strength, usedAs, use
    <2>3. Read(source, page) \in Sources(n)
      <3>1. [source EXCEPT !.fetched = "failed", !.noise = noise,
                           !.level = SnippetLevel(source), !.strength = strength,
                           !.usedAs = usedAs, !.use = use] \in Sources(n)
        BY <1>3, <2>2, ReadFailedType
      <3> QED
        BY <2>1, <3>1, Zenon
    <2>4. /\ Read(source, page).result = source.result
          /\ Read(source, page).relevance = source.relevance
          /\ Read(source, page).level = SnippetLevel(source)
          /\ Read(source, page).fetched = "failed"
      BY <2>1 DEF Sources
    <2> QED
      BY <1>3, <2>3, <2>4
  <1> QED
    BY <1>4, <1>5

LEMMA NotReadType ==
  ASSUME NEW n, NEW source \in Sources(n), source.fetched = "ok" => source.excerpt
  PROVE  /\ NotRead(source) \in Sources(n)
         /\ NotRead(source).result = source.result
         /\ NotRead(source).relevance = source.relevance
         /\ NotRead(source).level = "page_read" \/ NotRead(source).fetched = "ok"
              => NotRead(source).excerpt
  <1>1. SnippetLevel(source) \in {"snippet_only", "none"}
    BY DEF SnippetLevel
  <1>2. NotRead(source) = [[source EXCEPT !.usedAs = "snippet_only"]
                             EXCEPT !.level = SnippetLevel(source)]
    BY DEF NotRead
  <1>3. NotRead(source) \in Sources(n)
    <2>1. [source EXCEPT !.usedAs = "snippet_only"] \in Sources(n)
      BY SourceFieldType
    <2> QED
      <3>1. [[source EXCEPT !.usedAs = "snippet_only"] EXCEPT !.level = SnippetLevel(source)]
              \in Sources(n)
        BY <1>1, <2>1, SourceFieldType
      <3> QED
        BY <1>2, <3>1, Zenon
  <1>4. /\ NotRead(source).result = source.result
        /\ NotRead(source).relevance = source.relevance
        /\ NotRead(source).level = SnippetLevel(source)
        /\ NotRead(source).fetched = source.fetched /\ NotRead(source).excerpt = source.excerpt
    BY <1>2 DEF Sources
  <1> QED
    BY <1>1, <1>3, <1>4

LEMMA SnippetOnlyType ==
  ASSUME NEW n, NEW source \in Sources(n)
  PROVE  /\ SnippetOnly(source) \in Sources(n)
         /\ SnippetOnly(source).result = source.result
         /\ SnippetOnly(source).relevance = source.relevance
         /\ SnippetOnly(source).level = "page_read" \/ SnippetOnly(source).fetched = "ok"
              => SnippetOnly(source).excerpt
  <1> DEFINE strength == IF source.snippet THEN "weak" ELSE "insufficient"
             usedAs == IF source.snippet THEN "snippet_only" ELSE "discarded"
  <1>1. SnippetLevel(source) \in {"snippet_only", "none"}
    BY DEF SnippetLevel
  <1>2. strength \in Strengths /\ usedAs \in {"snippet_only", "discarded"}
    BY DEF Strengths
  <1>3. SnippetOnly(source) =
          [source EXCEPT !.fetched = "no", !.level = SnippetLevel(source),
                         !.strength = strength, !.usedAs = usedAs]
    BY DEF SnippetOnly
  <1> HIDE DEF strength, usedAs
  <1>4. SnippetOnly(source) \in Sources(n)
    <2>1. [source EXCEPT !.fetched = "no", !.level = SnippetLevel(source),
                         !.strength = strength, !.usedAs = usedAs] \in Sources(n)
      BY <1>1, <1>2, SnippetFieldsType
    <2> QED
      BY <1>3, <2>1, Zenon
  <1>5. /\ SnippetOnly(source).result = source.result
        /\ SnippetOnly(source).relevance = source.relevance
        /\ SnippetOnly(source).level = SnippetLevel(source) /\ SnippetOnly(source).fetched = "no"
    BY <1>3 DEF Sources
  <1> QED
    BY <1>1, <1>4, <1>5

\* Sources that are rewritten, each in its place, stay the sources of the task.
LEMMA RewrittenTells ==
  ASSUME NEW results, NEW selected, SourcesTell(selected, results),
         NEW rewritten, rewritten = [k \in DOMAIN selected |-> rewritten[k]],
         \A k \in DOMAIN selected :
           /\ rewritten[k] \in Sources(Len(results))
           /\ rewritten[k].result = selected[k].result
           /\ rewritten[k].level = "page_read" \/ rewritten[k].fetched = "ok"
                => rewritten[k].excerpt
  PROVE  SourcesTell(rewritten, results) /\ DOMAIN rewritten = DOMAIN selected
  <1>1. selected \in Seq(Sources(Len(results)))
    BY DEF SourcesTell
  <1> DEFINE n == Len(selected)
  <1>2. n \in Nat /\ DOMAIN selected = 1..n
    BY <1>1
  <1>3. DOMAIN rewritten = DOMAIN selected
    OBVIOUS
  <1>4. rewritten \in Seq(Sources(Len(results)))
    <2>1. rewritten \in [1..n -> Sources(Len(results))]
      BY <1>2
    <2> HIDE DEF n
    <2> QED
      BY <1>2, <2>1
  <1>5. ASSUME NEW j \in DOMAIN rewritten, NEW k \in DOMAIN rewritten,
               results[rewritten[j].result].url = results[rewritten[k].result].url
        PROVE  j = k
    <2>1. /\ rewritten[j].result = selected[j].result
          /\ rewritten[k].result = selected[k].result
      BY <1>3
    <2>2. results[selected[j].result].url = results[selected[k].result].url
      BY <1>5, <2>1
    <2> QED
      BY <1>3, <2>2 DEF SourcesTell
  <1> QED
    BY <1>3, <1>4, <1>5 DEF SourcesTell

-----------------------------------------------------------------------------
(* The evidence. *)

\* What the evidence of a source is called.
LEMMA StrengthIs ==
  ASSUME NEW n, NEW source \in Sources(n)
  PROVE  LET strength == EvidenceStrength(source) IN
         /\ strength \in Strengths /\ UseOf(strength) \in Usages
         /\ source.relevance = "tangential" => UseOf(strength) = "discarded"
         /\ Basis(source) = "none" => strength = "insufficient"
         /\ Basis(source) = "snippet" => strength \notin {"strong", "medium"}
         /\ strength = "strong" => source.quality = "high" /\ source.relevance = "direct"
         /\ strength \in {"strong", "medium"} =>
              /\ source.excerpt /\ source.quality \in {"high", "medium"}
              /\ source.relevance \in {"direct", "supporting"}
         /\ strength = "weak" =>
              /\ source.relevance \in {"direct", "supporting"} /\ Basis(source) # "none"
  <1> DEFINE strength == EvidenceStrength(source)
             grade == IF Basis(source) = "snippet" THEN "weak"
                      ELSE CASE source.quality = "high" /\ source.relevance = "direct" -> "strong"
                             [] source.quality = "high" /\ source.relevance = "supporting" -> "medium"
                             [] source.quality = "medium" /\ source.relevance = "direct" -> "medium"
                             [] OTHER -> "weak"
  <1>1. /\ Basis(source) \in {"page_content", "snippet", "none"}
        /\ Basis(source) = "page_content" <=> source.excerpt
    BY DEF Basis, Sources
  <1>2. source.relevance \in {"direct", "supporting", "tangential", "insufficient"}
    BY DEF Sources, Relevances
  <1>3. /\ grade \in {"strong", "medium", "weak"}
        /\ Basis(source) = "snippet" => grade = "weak"
        /\ grade = "strong" => source.quality = "high" /\ source.relevance = "direct"
        /\ grade = "medium" => /\ source.quality \in {"high", "medium"}
                               /\ source.relevance \in {"direct", "supporting"}
    OBVIOUS
  <1>4. CASE Basis(source) = "none" \/ source.relevance = "insufficient"
    <2>1. strength = "insufficient"
      BY <1>4 DEF EvidenceStrength
    <2> QED
      BY <2>1 DEF Strengths, UseOf, Usages
  <1>5. CASE Basis(source) # "none" /\ source.relevance = "tangential"
    <2>1. strength = "tangential"
      BY <1>5 DEF EvidenceStrength
    <2> QED
      BY <1>5, <2>1 DEF Strengths, UseOf, Usages
  <1>6. CASE Basis(source) # "none" /\ source.relevance \in {"direct", "supporting"}
    <2>1. strength = IF source.noise THEN Downgraded(grade) ELSE grade
      BY <1>6 DEF EvidenceStrength
    <2> HIDE DEF grade
    <2>2. /\ Downgraded("strong") = "medium" /\ Downgraded("medium") = "weak"
          /\ Downgraded("weak") = "tangential"
      BY DEF Downgraded
    <2>3. /\ strength \in {"strong", "medium", "weak", "tangential"}
          /\ Basis(source) = "snippet" => strength \in {"weak", "tangential"}
          /\ strength = "strong" => source.quality = "high" /\ source.relevance = "direct"
          /\ strength = "medium" => source.quality \in {"high", "medium"}
      BY <1>3, <2>1, <2>2
    <2> HIDE DEF strength
    <2>4. UseOf(strength) \in Usages
      BY DEF UseOf, Usages
    <2> QED
      BY <1>1, <1>6, <2>3, <2>4 DEF Strengths, strength
  <1> QED
    BY <1>2, <1>4, <1>5, <1>6

\* What the evidence tells, record by record.
EvidenceTells(evidence, selected) ==
  \A k \in DOMAIN evidence :
    /\ k \in DOMAIN selected
    /\ selected[k].relevance = "tangential" => evidence[k].use = "discarded"
    /\ evidence[k].basis = "snippet" => evidence[k].strength \notin {"strong", "medium"}

LEMMA EvidenceIs ==
  ASSUME NEW n, NEW selected \in Seq(Sources(n))
  PROVE  /\ Evidence(selected) \in Seq(EvidenceRecords(n))
         /\ DOMAIN Evidence(selected) = DOMAIN selected
         /\ EvidenceTells(Evidence(selected), selected)
         /\ \A k \in DOMAIN selected :
              /\ Evidence(selected)[k].result = selected[k].result
              /\ Evidence(selected)[k].basis = Basis(selected[k])
              /\ Evidence(selected)[k].strength = EvidenceStrength(selected[k])
              /\ Evidence(selected)[k].use = UseOf(EvidenceStrength(selected[k]))
  <1> DEFINE m == Len(selected)
             e == Evidence(selected)
  <1>1. m \in Nat /\ DOMAIN selected = 1..m /\ \A k \in 1..m : selected[k] \in Sources(n)
    OBVIOUS
  <1>2. /\ DOMAIN e = DOMAIN selected /\ e = [k \in DOMAIN selected |-> e[k]]
        /\ \A k \in DOMAIN selected :
             /\ e[k] = [result |-> selected[k].result, basis |-> Basis(selected[k]),
                        strength |-> EvidenceStrength(selected[k]),
                        use |-> UseOf(EvidenceStrength(selected[k]))]
    BY DEF Evidence
  <1> HIDE DEF m, e
  <1>3. ASSUME NEW k \in 1..m
        PROVE  /\ e[k] \in EvidenceRecords(n)
               /\ selected[k].relevance = "tangential" => e[k].use = "discarded"
               /\ e[k].basis = "snippet" => e[k].strength \notin {"strong", "medium"}
    <2>1. selected[k] \in Sources(n)
      BY <1>1
    <2>2. Basis(selected[k]) \in {"page_content", "snippet", "none"}
      BY DEF Basis
    <2>3. selected[k].result \in 1..n
      BY <2>1 DEF Sources
    <2>4. /\ EvidenceStrength(selected[k]) \in Strengths
          /\ UseOf(EvidenceStrength(selected[k])) \in Usages
          /\ selected[k].relevance = "tangential"
               => UseOf(EvidenceStrength(selected[k])) = "discarded"
          /\ Basis(selected[k]) = "snippet"
               => EvidenceStrength(selected[k]) \notin {"strong", "medium"}
      BY <2>1, StrengthIs
    <2>5. e[k] = [result |-> selected[k].result, basis |-> Basis(selected[k]),
                  strength |-> EvidenceStrength(selected[k]),
                  use |-> UseOf(EvidenceStrength(selected[k]))]
      BY <1>1, <1>2
    <2>6. e[k] \in EvidenceRecords(n)
      BY <2>2, <2>3, <2>4, <2>5 DEF EvidenceRecords
    <2> QED
      BY <2>4, <2>5, <2>6
  <1>4. e \in Seq(EvidenceRecords(n))
    <2>1. e \in [1..m -> EvidenceRecords(n)]
      BY <1>1, <1>2, <1>3
    <2> QED
      BY <1>1, <2>1
  <1>5. EvidenceTells(e, selected)
    BY <1>1, <1>2, <1>3 DEF EvidenceTells
  <1>6. \A k \in DOMAIN selected :
          /\ e[k].result = selected[k].result /\ e[k].basis = Basis(selected[k])
          /\ e[k].strength = EvidenceStrength(selected[k])
          /\ e[k].use = UseOf(EvidenceStrength(selected[k]))
    BY <1>2
  <1> QED
    BY <1>2, <1>4, <1>5, <1>6 DEF e

LEMMA GradedFieldsType ==
  ASSUME NEW n, NEW source \in Sources(n), NEW level \in {"page_read", "snippet_only"},
         NEW strength \in Strengths, NEW use \in Usages
  PROVE  [source EXCEPT !.level = level, !.strength = strength, !.use = use] \in Sources(n)
<1> DEFINE s1 == [source EXCEPT !.level = level]
           s2 == [s1 EXCEPT !.strength = strength]
           s3 == [s2 EXCEPT !.use = use]
<1>1. s3 = [source EXCEPT !.level = level, !.strength = strength, !.use = use]
  OBVIOUS
<1>2. s1 \in Sources(n)
  BY SourceFieldType
<1> HIDE DEF s1
<1>3. s2 \in Sources(n)
  BY <1>2, SourceFieldType
<1> HIDE DEF s2
<1>4. s3 \in Sources(n)
  BY <1>3, SourceFieldType
<1> QED
  BY <1>1, <1>4

\* What a source has taken over of its evidence is not evidence of its own.
LEMMA GradedSource ==
  ASSUME NEW n, NEW selected \in Seq(Sources(n)), NEW k \in DOMAIN selected
  PROVE  LET source == selected[k]
             graded == Graded(selected, Evidence(selected))[k]
         IN  /\ graded \in Sources(n)
             /\ graded.result = source.result /\ graded.relevance = source.relevance
             /\ graded.quality = source.quality /\ graded.noise = source.noise
             /\ graded.excerpt = source.excerpt /\ graded.snippet = source.snippet
             /\ graded.fetched = source.fetched
             /\ Basis(source) = "none" => graded = source
             /\ Basis(source) = "snippet" => graded.level = "snippet_only"
             /\ Basis(source) = "page_content" => graded.level = "page_read"
             /\ Basis(source) # "none" => graded.use = UseOf(EvidenceStrength(source))
  <1> DEFINE source == selected[k]
             graded == Graded(selected, Evidence(selected))[k]
             level == IF Basis(source) = "page_content" THEN "page_read" ELSE "snippet_only"
             strength == EvidenceStrength(source)
             use == UseOf(EvidenceStrength(source))
  <1>1. source \in Sources(n)
    OBVIOUS
  <1>2. /\ Evidence(selected)[k].basis = Basis(source)
        /\ Evidence(selected)[k].strength = strength /\ Evidence(selected)[k].use = use
    BY EvidenceIs
  <1>3. strength \in Strengths /\ use \in Usages /\ level \in {"page_read", "snippet_only"}
    BY <1>1, StrengthIs
  <1>4. Basis(source) \in {"page_content", "snippet", "none"}
    BY DEF Basis
  <1>5. graded = IF Basis(source) = "none" THEN source
                 ELSE [source EXCEPT !.level = level, !.strength = strength, !.use = use]
    BY <1>2 DEF Graded
  <1> HIDE DEF graded, source, strength, use
  <1>6. CASE Basis(source) = "none"
    <2>1. graded = source
      BY <1>5, <1>6
    <2> QED
      BY <1>1, <1>6, <2>1 DEF graded, source
  <1>7. CASE Basis(source) # "none"
    <2>1. level = IF Basis(source) = "page_content" THEN "page_read" ELSE "snippet_only"
      OBVIOUS
    <2> HIDE DEF level
    <2>2. graded = [source EXCEPT !.level = level, !.strength = strength, !.use = use]
      BY <1>5, <1>7
    <2>3. graded \in Sources(n)
      <3>1. [source EXCEPT !.level = level, !.strength = strength, !.use = use] \in Sources(n)
        BY <1>1, <1>3, GradedFieldsType
      <3> QED
        BY <2>2, <3>1, Zenon
    <2>4. /\ graded.result = source.result /\ graded.relevance = source.relevance
          /\ graded.quality = source.quality /\ graded.noise = source.noise
          /\ graded.excerpt = source.excerpt /\ graded.snippet = source.snippet
          /\ graded.fetched = source.fetched /\ graded.level = level /\ graded.use = use
      BY <1>1, <2>2 DEF Sources
    <2>5. /\ Basis(source) = "snippet" => graded.level = "snippet_only"
          /\ Basis(source) = "page_content" => graded.level = "page_read"
      BY <2>1, <2>4
    <2> QED
      BY <1>7, <2>3, <2>4, <2>5 DEF graded, source, use
  <1> QED
    BY <1>6, <1>7

\* The grading keeps the sources, their evidence and what the readiness looks at.
LEMMA GradedTells ==
  ASSUME NEW results, NEW selected, SourcesTell(selected, results)
  PROVE  LET evidence == Evidence(selected)
             graded == Graded(selected, evidence)
         IN  /\ SourcesTell(graded, results) /\ DOMAIN graded = DOMAIN selected
             /\ Evidence(graded) = evidence
             /\ \A k \in DOMAIN selected :
                  /\ graded[k].relevance = selected[k].relevance
                  /\ graded[k].quality = selected[k].quality
                  /\ evidence[k].basis = "snippet" => graded[k].level = "snippet_only"
                  /\ graded[k].relevance = "tangential" /\ evidence[k].basis # "none"
                       => graded[k].use = "discarded"
  <1> DEFINE n == Len(results)
             evidence == Evidence(selected)
             graded == Graded(selected, evidence)
  <1>1. selected \in Seq(Sources(n)) /\ \A k \in DOMAIN selected : selected[k] \in Sources(n)
    BY DEF SourcesTell
  <1>2. DOMAIN graded = DOMAIN selected /\ graded = [k \in DOMAIN selected |-> graded[k]]
    BY DEF Graded
  <1>3. ASSUME NEW k \in DOMAIN selected
        PROVE  /\ graded[k] \in Sources(n)
               /\ graded[k].result = selected[k].result
               /\ graded[k].relevance = selected[k].relevance
               /\ graded[k].quality = selected[k].quality
               /\ graded[k].level = "page_read" \/ graded[k].fetched = "ok" => graded[k].excerpt
               /\ evidence[k].basis = "snippet" => graded[k].level = "snippet_only"
               /\ graded[k].relevance = "tangential" /\ evidence[k].basis # "none"
                    => graded[k].use = "discarded"
               /\ Basis(graded[k]) = Basis(selected[k])
               /\ EvidenceStrength(graded[k]) = EvidenceStrength(selected[k])
    <2>1. /\ graded[k] \in Sources(n)
          /\ graded[k].result = selected[k].result
          /\ graded[k].relevance = selected[k].relevance
          /\ graded[k].quality = selected[k].quality /\ graded[k].noise = selected[k].noise
          /\ graded[k].excerpt = selected[k].excerpt /\ graded[k].snippet = selected[k].snippet
          /\ graded[k].fetched = selected[k].fetched
          /\ Basis(selected[k]) = "none" => graded[k] = selected[k]
          /\ Basis(selected[k]) = "snippet" => graded[k].level = "snippet_only"
          /\ Basis(selected[k]) = "page_content" => graded[k].level = "page_read"
          /\ Basis(selected[k]) # "none" => graded[k].use = UseOf(EvidenceStrength(selected[k]))
      BY <1>1, GradedSource
    <2>2. evidence[k].basis = Basis(selected[k])
      BY <1>1, EvidenceIs
    <2>3. selected[k].relevance = "tangential"
            => UseOf(EvidenceStrength(selected[k])) = "discarded"
      BY <1>1, StrengthIs
    <2>4. selected[k].level = "page_read" \/ selected[k].fetched = "ok" => selected[k].excerpt
      BY DEF SourcesTell
    <2> HIDE DEF graded, evidence
    <2>5. Basis(graded[k]) = Basis(selected[k])
      BY <2>1 DEF Basis
    <2>6. EvidenceStrength(graded[k]) = EvidenceStrength(selected[k])
      BY <2>1, <2>5 DEF EvidenceStrength
    <2>7. graded[k].level = "page_read" \/ graded[k].fetched = "ok" => graded[k].excerpt
      <3>1. CASE Basis(selected[k]) = "none"
        BY <2>1, <2>4, <3>1
      <3>2. CASE Basis(selected[k]) = "snippet"
        BY <2>1, <2>4, <3>2
      <3>3. CASE Basis(selected[k]) = "page_content"
        BY <2>1, <3>3 DEF Basis
      <3> QED
        BY <3>1, <3>2, <3>3 DEF Basis
    <2> QED
      BY <2>1, <2>2, <2>3, <2>5, <2>6, <2>7
  <1> HIDE DEF graded, evidence
  <1>4. SourcesTell(graded, results)
    BY <1>2, <1>3, RewrittenTells DEF n
  <1>5. Evidence(graded) = evidence
    BY <1>2, <1>3 DEF Evidence, evidence
  <1> QED
    BY <1>2, <1>3, <1>4, <1>5 DEF graded, evidence

-----------------------------------------------------------------------------
(* The readiness. *)

\* The readiness looks at the quality of the sources only.
LEMMA ReadinessKept ==
  ASSUME NEW n, NEW selected \in Seq(Sources(n)), NEW graded \in Seq(Sources(n)), NEW evidence,
         DOMAIN graded = DOMAIN selected,
         \A k \in DOMAIN selected : graded[k].quality = selected[k].quality
  PROVE  Readiness(graded, evidence) = Readiness(selected, evidence)
  <1>1. Len(graded) = Len(selected)
    OBVIOUS
  <1>2. graded = <<>> <=> selected = <<>>
    BY <1>1
  <1>3. ReadWell(graded) = ReadWell(selected)
    <2>1. {k \in DOMAIN graded : graded[k].quality = "high"}
            = {k \in DOMAIN selected : selected[k].quality = "high"}
      OBVIOUS
    <2> QED
      BY <2>1 DEF ReadWell
  <1> QED
    BY <1>1, <1>2, <1>3, Zenon DEF Readiness

LEMMA HavingType ==
  ASSUME NEW n, NEW selected \in Seq(Sources(n)), NEW strength
  PROVE  /\ IsFiniteSet(DOMAIN selected)
         /\ Having(Evidence(selected), strength) \in Nat
         /\ Having(Evidence(selected), strength) >= 1 <=>
              \E k \in DOMAIN selected : EvidenceStrength(selected[k]) = strength
         /\ Having(Evidence(selected), strength)
              = Cardinality({k \in DOMAIN selected : EvidenceStrength(selected[k]) = strength})
  <1> DEFINE H == {k \in DOMAIN selected : EvidenceStrength(selected[k]) = strength}
             c == Cardinality(H)
  <1>1. Having(Evidence(selected), strength) = c
    <2>1. {k \in DOMAIN Evidence(selected) : Evidence(selected)[k].strength = strength} = H
      BY EvidenceIs
    <2> QED
      BY <2>1 DEF Having
  <1>2. IsFiniteSet(DOMAIN selected)
    <2>1. Len(selected) \in Nat /\ DOMAIN selected = 1..Len(selected)
      OBVIOUS
    <2> QED
      BY <2>1, FS_Interval
  <1>3. IsFiniteSet(H)
    <2>1. H \subseteq DOMAIN selected
      OBVIOUS
    <2> HIDE DEF H
    <2> QED
      BY <1>2, <2>1, FS_Subset
  <1>4. c \in Nat /\ (c = 0 <=> H = {})
    BY <1>3, FS_CardinalityType, FS_EmptySet
  <1>5. c >= 1 <=> H # {}
    <2> HIDE DEF c, H
    <2> QED
      BY <1>4
  <1>6. H # {} <=> \E k \in DOMAIN selected : EvidenceStrength(selected[k]) = strength
    OBVIOUS
  <1> QED
    BY <1>1, <1>2, <1>4, <1>5, <1>6

\* Without any basis there is no readiness.
LEMMA NoBasisNotReady ==
  ASSUME NEW n, NEW selected \in Seq(Sources(n)),
         \A k \in DOMAIN selected : Evidence(selected)[k].basis = "none"
  PROVE  Readiness(selected, Evidence(selected)) = "insufficient"
  <1>1. ASSUME NEW k \in DOMAIN selected PROVE EvidenceStrength(selected[k]) = "insufficient"
    <2>1. Basis(selected[k]) = "none" /\ selected[k] \in Sources(n)
      BY EvidenceIs
    <2> QED
      BY <2>1, StrengthIs
  <1>2. /\ ~(Having(Evidence(selected), "strong") >= 1)
        /\ ~(Having(Evidence(selected), "medium") >= 1)
        /\ ~(Having(Evidence(selected), "weak") >= 1)
    <2>1. ASSUME NEW strength, strength # "insufficient"
          PROVE  ~(Having(Evidence(selected), strength) >= 1)
      <3>1. ~ \E k \in DOMAIN selected : EvidenceStrength(selected[k]) = strength
        BY <1>1, <2>1
      <3> QED
        BY <3>1, HavingType
    <2> QED
      BY <2>1
  <1>3. Having(Evidence(selected), "weak") \in Nat
    BY HavingType
  <1>4. ~(Having(Evidence(selected), "weak") >= 2)
    BY <1>2, <1>3
  <1> QED
    BY <1>2, <1>4 DEF Readiness

\* What readiness rests on.
LEMMA ReadyHasBasis ==
  ASSUME NEW n, NEW selected \in Seq(Sources(n)),
         Readiness(selected, Evidence(selected)) # "insufficient"
  PROVE  LET about == {k \in DOMAIN selected :
                         /\ selected[k].relevance \in {"direct", "supporting"}
                         /\ Basis(selected[k]) # "none"}
         IN  \/ \E k \in about : selected[k].excerpt /\ selected[k].quality \in {"high", "medium"}
             \/ Cardinality(about) >= 2
  <1> DEFINE about == {k \in DOMAIN selected :
                         /\ selected[k].relevance \in {"direct", "supporting"}
                         /\ Basis(selected[k]) # "none"}
             weak == {k \in DOMAIN selected : EvidenceStrength(selected[k]) = "weak"}
  <1>1. \/ Having(Evidence(selected), "strong") >= 1
        \/ Having(Evidence(selected), "medium") >= 1
        \/ Having(Evidence(selected), "weak") >= 2
    BY DEF Readiness
  <1>2. CASE \/ Having(Evidence(selected), "strong") >= 1
             \/ Having(Evidence(selected), "medium") >= 1
    <2>1. PICK k \in DOMAIN selected : EvidenceStrength(selected[k]) \in {"strong", "medium"}
      BY <1>2, HavingType
    <2>2. selected[k] \in Sources(n)
      OBVIOUS
    <2>3. /\ selected[k].excerpt /\ selected[k].quality \in {"high", "medium"}
          /\ selected[k].relevance \in {"direct", "supporting"}
      BY <2>1, <2>2, StrengthIs
    <2>4. Basis(selected[k]) # "none"
      BY <2>3 DEF Basis
    <2> QED
      BY <2>3, <2>4
  <1>3. CASE Having(Evidence(selected), "weak") >= 2
    <2>1. Cardinality(weak) >= 2
      BY <1>3, HavingType
    <2>2. ASSUME NEW k \in weak PROVE k \in about
      <3>1. selected[k] \in Sources(n) /\ EvidenceStrength(selected[k]) = "weak"
        OBVIOUS
      <3> QED
        BY <3>1, StrengthIs
    <2>3. IsFiniteSet(about)
      <3>1. about \subseteq DOMAIN selected
        OBVIOUS
      <3> HIDE DEF about
      <3> QED
        BY <3>1, HavingType, FS_Subset
    <2> HIDE DEF about, weak
    <2>4. weak \subseteq about
      BY <2>2
    <2>5. Cardinality(weak) \in Nat /\ Cardinality(about) \in Nat
          /\ Cardinality(weak) <= Cardinality(about)
      BY <2>3, <2>4, FS_Subset, FS_CardinalityType
    <2>6. Cardinality(about) >= 2
      BY <2>1, <2>5
    <2> QED
      BY <2>6 DEF about
  <1> QED
    BY <1>1, <1>2, <1>3

\* What a report rests on that need not admit limits.
LEMMA UnlimitedIsEarned ==
  ASSUME NEW n, NEW selected \in Seq(Sources(n)),
         \A k \in DOMAIN selected :
           /\ selected[k].level = "page_read" \/ selected[k].fetched = "ok"
                => selected[k].excerpt
           /\ Basis(selected[k]) = "snippet" => selected[k].level = "snippet_only",
         ~LimitationsRequired(selected, Evidence(selected))
  PROVE  LET read == {k \in DOMAIN selected :
                        selected[k].fetched = "ok" \/ selected[k].excerpt}
             used == {k \in DOMAIN selected : Basis(selected[k]) # "none"}
         IN  /\ 2 * Cardinality(read) > Cardinality(used)
             /\ \E k \in read : /\ selected[k].relevance = "direct"
                                /\ selected[k].quality = "high"
  <1> DEFINE D == DOMAIN selected
             read == {k \in D : selected[k].fetched = "ok" \/ selected[k].excerpt}
             used == {k \in D : Basis(selected[k]) # "none"}
             leveled == {k \in D : selected[k].level = "page_read" \/ selected[k].fetched = "ok"}
             quoted == {k \in D : \/ selected[k].level = "snippet_only"
                                  \/ selected[k].usedAs = "snippet_only"}
             only == {k \in D : Basis(selected[k]) = "snippet"}
  <1>1. /\ Readiness(selected, Evidence(selected)) = "solid"
        /\ ~(Cardinality(quoted) > 0 /\ Cardinality(quoted) >= Cardinality(leveled))
    BY DEF LimitationsRequired
  <1>2. Having(Evidence(selected), "strong") >= 1
    BY <1>1 DEF Readiness
  <1>3. PICK k \in D : EvidenceStrength(selected[k]) = "strong"
    BY <1>2, HavingType
  <1>4. /\ selected[k].excerpt /\ selected[k].relevance = "direct"
        /\ selected[k].quality = "high"
    <2>1. selected[k] \in Sources(n)
      OBVIOUS
    <2> QED
      BY <1>3, <2>1, StrengthIs
  <1>5. k \in read
    BY <1>4
  <1>6. leveled \subseteq read /\ only \subseteq quoted /\ used \subseteq read \cup only
    <2>1. \A i \in D : Basis(selected[i]) # "none" => selected[i].excerpt \/ Basis(selected[i]) = "snippet"
      BY DEF Basis
    <2> QED
      BY <2>1
  <1>7. IsFiniteSet(D)
    BY HavingType
  <1>8. /\ IsFiniteSet(read) /\ IsFiniteSet(used) /\ IsFiniteSet(leveled)
        /\ IsFiniteSet(quoted) /\ IsFiniteSet(only)
    <2>1. /\ read \subseteq D /\ used \subseteq D /\ leveled \subseteq D
          /\ quoted \subseteq D /\ only \subseteq D
      OBVIOUS
    <2> HIDE DEF read, used, leveled, quoted, only, D
    <2> QED
      BY <1>7, <2>1, FS_Subset
  <1> HIDE DEF read, used, leveled, quoted, only, D
  <1>9. /\ Cardinality(read) \in Nat /\ Cardinality(used) \in Nat /\ Cardinality(leveled) \in Nat
        /\ Cardinality(quoted) \in Nat /\ Cardinality(only) \in Nat
    BY <1>8, FS_CardinalityType
  <1>10. Cardinality(leveled) <= Cardinality(read) /\ Cardinality(only) <= Cardinality(quoted)
    BY <1>6, <1>8, FS_Subset
  <1>11. Cardinality(used) <= Cardinality(read) + Cardinality(only)
    <2>1. /\ IsFiniteSet(read \cup only)
          /\ Cardinality(read \cup only)
               = Cardinality(read) + Cardinality(only) - Cardinality(read \cap only)
      BY <1>8, FS_Union
    <2>2. Cardinality(read \cap only) \in Nat
      <3>1. read \cap only \subseteq read
        OBVIOUS
      <3> QED
        BY <1>8, <3>1, FS_Subset, FS_CardinalityType
    <2>3. Cardinality(used) <= Cardinality(read \cup only)
      BY <1>6, <2>1, FS_Subset
    <2> QED
      BY <1>9, <2>1, <2>2, <2>3
  <1>12. Cardinality(read) > 0
    BY <1>5, <1>8, <1>9, FS_EmptySet
  <1>13. 2 * Cardinality(read) > Cardinality(used)
    BY <1>1, <1>9, <1>10, <1>11, <1>12
  <1> QED
    BY <1>4, <1>5, <1>13 DEF read, used, D

-----------------------------------------------------------------------------
(* What the user asks for. *)

\* A message asks for one thing at most.
LEMMA RefinementFinite ==
  ASSUME NEW m \in Messages
  PROVE  IsFiniteSet(Refinement[m])
  <1> DEFINE c == Classify(m, BrowserTask)
  <1>1. /\ \A kind : Only(kind).refinement = {}
        /\ \A kind, x : Understood(kind, x).refinement = {x}
    BY DEF Only, Understood
  <1>2. \E x : ClassifyBrowserRefinement(m) \in
          {Only("none"), Understood("task_goal_refinement", x)}
    BY DEF ClassifyBrowserRefinement
  <1>3. \E x : ClassifyGoalRefinement(m) \in
          {Only("task_clarification_needed"), Only("independent_query"),
           Understood("task_goal_refinement", x)}
    BY DEF ClassifyGoalRefinement
  <1>4. c \in {Only("task_status_query"), Only("task_pause"), Only("task_resume"),
               Only("task_cancel"), ClassifyBrowserRefinement(m),
               Understood("task_output_refinement", Output[m.says]),
               ClassifyGoalRefinement(m)}
    BY DEF Classify
  <1> HIDE DEF c
  <1>5. c.refinement = {} \/ \E x : c.refinement = {x}
    BY <1>1, <1>2, <1>3, <1>4
  <1>6. Refinement[m] \subseteq c.refinement
    BY DEF Refinement, c
  <1>7. IsFiniteSet(c.refinement)
    <2>1. CASE c.refinement = {}
      BY <2>1, FS_EmptySet
    <2>2. CASE \E x : c.refinement = {x}
      BY <2>2, FS_Singleton
    <2> QED
      BY <1>5, <2>1, <2>2
  <1> QED
    BY <1>6, <1>7, FS_Subset

LEMMA ListedType ==
  ASSUME NEW m \in Messages
  PROVE  SetToSeq(Refinement[m]) \in Seq(Refinements)
  <1> DEFINE S == Refinement[m]
             n == Cardinality(S)
  <1>1. n \in Nat /\ ExistsBijection(1..n, S)
    BY RefinementFinite, FS_CardinalityType
  <1> HIDE DEF n
  <1>2. PICK f \in [1..n -> S] : IsInjective(f)
    BY <1>1 DEF ExistsBijection, Bijection, Injection
  <1>3. SetToSeq(S) \in [1..n -> S]
    BY <1>2 DEF SetToSeq, n
  <1>4. S \subseteq Refinements
    BY DEF Refinements
  <1> HIDE DEF S
  <1> QED
    BY <1>1, <1>3, <1>4 DEF S

\* The chat puts what was asked for behind what was asked before.
LEMMA AskedType ==
  ASSUME NEW asked \in Seq(Refinements), NEW m \in Messages
  PROVE  asked \o SetToSeq(Refinement[m]) \in Seq(Refinements)
  BY ListedType, ConcatProperties


-----------------------------------------------------------------------------
(* The order of the steps. *)

\* The files wait for the whole preparation, and not for each other.
Earlier(x) ==
  IF x \in Writes THEN ToSet(Preparation)
  ELSE {y \in Steps : \E i, j \in DOMAIN Preparation :
                        i < j /\ Preparation[i] = y /\ Preparation[j] = x}

LEMMA PreparationIs ==
  /\ DOMAIN Preparation = 1..6 /\ Len(Preparation) = 6
  /\ Preparation[1] = "prepare-workspace" /\ Preparation[2] = "search-web"
  /\ Preparation[3] = "select-sources" /\ Preparation[4] = "fetch-pages"
  /\ Preparation[5] = "extract-evidence" /\ Preparation[6] = "synthesize-findings"
  /\ ToSet(Preparation) = {"prepare-workspace", "search-web", "select-sources",
                           "fetch-pages", "extract-evidence", "synthesize-findings"}
  <1>1. /\ DOMAIN Preparation = 1..6 /\ Len(Preparation) = 6
        /\ Preparation[1] = "prepare-workspace" /\ Preparation[2] = "search-web"
        /\ Preparation[3] = "select-sources" /\ Preparation[4] = "fetch-pages"
        /\ Preparation[5] = "extract-evidence" /\ Preparation[6] = "synthesize-findings"
    BY DEF Preparation
  <1>2. \A i \in 1..6 : i = 1 \/ i = 2 \/ i = 3 \/ i = 4 \/ i = 5 \/ i = 6
    OBVIOUS
  <1> QED
    BY <1>1, <1>2 DEF ToSet

LEMMA OrdersAre ==
  /\ DOMAIN ReportFirst = 1..10 /\ DOMAIN SummaryFirst = 1..10
  /\ \A i \in 1..6 : ReportFirst[i] = Preparation[i] /\ SummaryFirst[i] = Preparation[i]
  /\ ReportFirst[7] = "write-report" /\ ReportFirst[8] = "write-summary"
  /\ ReportFirst[9] = "write-sources" /\ ReportFirst[10] = "write-evidence"
  /\ SummaryFirst[7] = "write-summary" /\ SummaryFirst[8] = "write-report"
  /\ SummaryFirst[9] = "write-sources" /\ SummaryFirst[10] = "write-evidence"
  <1> DEFINE one == <<"write-report", "write-summary", "write-sources", "write-evidence">>
             two == <<"write-summary", "write-report", "write-sources", "write-evidence">>
             S == {"prepare-workspace", "search-web", "select-sources", "fetch-pages",
                   "extract-evidence", "synthesize-findings", "write-report",
                   "write-summary", "write-sources", "write-evidence"}
  <1>1. /\ Preparation \in Seq(S) /\ Len(Preparation) = 6
        /\ one \in Seq(S) /\ Len(one) = 4 /\ two \in Seq(S) /\ Len(two) = 4
    BY DEF Preparation
  <1>2. /\ one[1] = "write-report" /\ one[2] = "write-summary"
        /\ one[3] = "write-sources" /\ one[4] = "write-evidence"
        /\ two[1] = "write-summary" /\ two[2] = "write-report"
        /\ two[3] = "write-sources" /\ two[4] = "write-evidence"
    OBVIOUS
  <1> HIDE DEF one, two, S
  <1>3. ReportFirst = Preparation \o one /\ SummaryFirst = Preparation \o two
    BY DEF ReportFirst, SummaryFirst, one, two
  <1>4. /\ DOMAIN ReportFirst = 1..10
        /\ \A i \in 1..10 : ReportFirst[i] = IF i <= 6 THEN Preparation[i] ELSE one[i - 6]
    <2>1. /\ ReportFirst \in Seq(S)
          /\ Len(ReportFirst) = Len(Preparation) + Len(one)
          /\ \A i \in 1..Len(Preparation) + Len(one) :
               ReportFirst[i]
                 = IF i <= Len(Preparation) THEN Preparation[i] ELSE one[i - Len(Preparation)]
      BY <1>1, <1>3, ConcatProperties, Zenon
    <2>2. Len(Preparation) + Len(one) = 10
      BY <1>1
    <2>3. DOMAIN ReportFirst = 1..Len(ReportFirst)
      BY <2>1
    <2> QED
      BY <1>1, <2>1, <2>2, <2>3, Zenon
  <1>5. /\ DOMAIN SummaryFirst = 1..10
        /\ \A i \in 1..10 : SummaryFirst[i] = IF i <= 6 THEN Preparation[i] ELSE two[i - 6]
    <2>1. /\ SummaryFirst \in Seq(S)
          /\ Len(SummaryFirst) = Len(Preparation) + Len(two)
          /\ \A i \in 1..Len(Preparation) + Len(two) :
               SummaryFirst[i]
                 = IF i <= Len(Preparation) THEN Preparation[i] ELSE two[i - Len(Preparation)]
      BY <1>1, <1>3, ConcatProperties, Zenon
    <2>2. Len(Preparation) + Len(two) = 10
      BY <1>1
    <2>3. DOMAIN SummaryFirst = 1..Len(SummaryFirst)
      BY <2>1
    <2> QED
      BY <1>1, <2>1, <2>2, <2>3, Zenon
  <1> QED
    BY <1>2, <1>4, <1>5

LEMMA StepsAre ==
  /\ Steps = ToSet(Preparation) \cup Writes
  /\ NoStep \notin Steps /\ Writes \subseteq Steps
  <1>1. Steps = {ReportFirst[i] : i \in 1..10}
    BY OrdersAre DEF Steps, ToSet
  <1>2. \A i \in 1..10 : i \in 1..6 \/ i = 7 \/ i = 8 \/ i = 9 \/ i = 10
    OBVIOUS
  <1>3. ToSet(Preparation) = {Preparation[i] : i \in 1..6}
    BY PreparationIs DEF ToSet
  <1>4. Steps = ToSet(Preparation) \cup Writes
    BY <1>1, <1>2, <1>3, OrdersAre DEF Writes
  <1> QED
    BY <1>4, PreparationIs DEF Writes, NoStep

LEMMA EarlierAre ==
  /\ Earlier("prepare-workspace") = {}
  /\ Earlier("search-web") = {"prepare-workspace"}
  /\ Earlier("select-sources") = {"prepare-workspace", "search-web"}
  /\ Earlier("fetch-pages") = {"prepare-workspace", "search-web", "select-sources"}
  /\ Earlier("extract-evidence") =
       {"prepare-workspace", "search-web", "select-sources", "fetch-pages"}
  /\ Earlier("synthesize-findings") =
       {"prepare-workspace", "search-web", "select-sources", "fetch-pages", "extract-evidence"}
  /\ \A x \in Writes : Earlier(x) = ToSet(Preparation)
  <1>1. ASSUME NEW j \in 1..6
        PROVE  Earlier(Preparation[j]) = {Preparation[i] : i \in 1..j - 1}
    <2>1. Preparation[j] \notin Writes
      <3>1. j = 1 \/ j = 2 \/ j = 3 \/ j = 4 \/ j = 5 \/ j = 6
        OBVIOUS
      <3> QED
        BY <3>1, PreparationIs DEF Writes
    <2>2. ASSUME NEW k \in 1..6, Preparation[k] = Preparation[j] PROVE k = j
      <3>1. \A i \in 1..6 : i = 1 \/ i = 2 \/ i = 3 \/ i = 4 \/ i = 5 \/ i = 6
        OBVIOUS
      <3> QED
        BY <2>2, <3>1, PreparationIs
    <2>3. \A i \in 1..6 : Preparation[i] \in Steps
      BY PreparationIs, StepsAre DEF ToSet
    <2>4. Earlier(Preparation[j])
            = {y \in Steps : \E i \in 1..6 : i < j /\ Preparation[i] = y}
      BY <2>1, <2>2, PreparationIs DEF Earlier
    <2>5. \A i \in 1..6 : i < j <=> i \in 1..j - 1
      OBVIOUS
    <2>6. \A i \in 1..j - 1 : i \in 1..6
      OBVIOUS
    <2> QED
      BY <2>3, <2>4, <2>5, <2>6
  <1>2. /\ 1..(1 - 1) = {} /\ 1..(2 - 1) = {1} /\ 1..(3 - 1) = {1, 2}
        /\ 1..(4 - 1) = {1, 2, 3} /\ 1..(5 - 1) = {1, 2, 3, 4}
        /\ 1..(6 - 1) = {1, 2, 3, 4, 5}
    OBVIOUS
  <1>3. Earlier(Preparation[1]) = {}
    BY <1>1, <1>2
  <1>4. Earlier(Preparation[2]) = {Preparation[1]}
    BY <1>1, <1>2
  <1>5. Earlier(Preparation[3]) = {Preparation[1], Preparation[2]}
    BY <1>1, <1>2
  <1>6. Earlier(Preparation[4]) = {Preparation[1], Preparation[2], Preparation[3]}
    BY <1>1, <1>2
  <1>7. Earlier(Preparation[5])
          = {Preparation[1], Preparation[2], Preparation[3], Preparation[4]}
    BY <1>1, <1>2
  <1>8. Earlier(Preparation[6])
          = {Preparation[1], Preparation[2], Preparation[3], Preparation[4], Preparation[5]}
    BY <1>1, <1>2
  <1>9. \A x \in Writes : Earlier(x) = ToSet(Preparation)
    BY DEF Earlier
  <1> QED
    BY <1>3, <1>4, <1>5, <1>6, <1>7, <1>8, <1>9, PreparationIs

\* What has to be completed before a step has itself something before it.
LEMMA EarlierIsOrder ==
  ASSUME NEW x \in Steps
  PROVE  /\ x \notin Earlier(x) /\ Earlier(x) \subseteq Steps \ Writes
         /\ \A y \in Earlier(x) : Earlier(y) \subseteq Earlier(x)
  <1>1. x \in ToSet(Preparation) \/ x \in Writes
    BY StepsAre
  <1>2. ToSet(Preparation) \subseteq Steps \ Writes
    BY PreparationIs, StepsAre DEF Writes
  <1>3. CASE x \in Writes
    BY <1>2, <1>3, EarlierAre, PreparationIs
  <1>4. CASE x \in ToSet(Preparation)
    BY <1>2, <1>4, EarlierAre, PreparationIs
  <1> QED
    BY <1>1, <1>3, <1>4

\* The first step of an order that is left, if any is.
LEMMA FirstLeftIs ==
  ASSUME NEW n \in Nat, NEW order, DOMAIN order = 1..n
  PROVE  \/ FirstLeft(order) = NoStep /\ \A i \in 1..n : order[i] \in Completed
         \/ \E i \in 1..n : /\ FirstLeft(order) = order[i] /\ order[i] \notin Completed
                            /\ \A k \in 1..n : k < i => order[k] \in Completed
  <1> DEFINE left == {i \in DOMAIN order : order[i] \notin Completed}
  <1>1. CASE left = {}
    BY <1>1 DEF FirstLeft
  <1>2. CASE left # {}
    <2>1. left \in SUBSET Nat
      OBVIOUS
    <2>2. \E i \in left : \A j \in left : i <= j
      BY <1>2, <2>1, NatMin
    <2>3. PICK i \in left : FirstLeft(order) = order[i] /\ \A j \in left : i <= j
      BY <1>2, <2>2 DEF FirstLeft
    <2>4. ASSUME NEW k \in 1..n, k < i PROVE order[k] \in Completed
      <3>1. ~(i <= k)
        BY <2>4
      <3>2. k \notin left
        BY <2>3, <3>1
      <3> QED
        BY <3>2
    <2> QED
      BY <2>3, <2>4
  <1> QED
    BY <1>1, <1>2

\* A step that is first among those left comes after what it needs, and the report
\* after the summary in the order that has the summary first.
LEMMA FirstOfOrder ==
  ASSUME NEW order \in {ReportFirst, SummaryFirst}
  PROVE  /\ FirstLeft(order) = NoStep => Steps \subseteq Completed
         /\ FirstLeft(order) # NoStep =>
              FirstLeft(order) \in Steps \ Completed /\ Earlier(FirstLeft(order)) \subseteq Completed
         /\ FirstLeft(order) = "write-report" /\ order = SummaryFirst
              => "write-summary" \in Completed
  <1>1. /\ DOMAIN order = 1..10 /\ \A i \in 1..6 : order[i] = Preparation[i]
        /\ Writes = {order[7], order[8], order[9], order[10]}
    BY OrdersAre DEF Writes
  <1>2. Steps = {order[i] : i \in 1..10}
    <2>1. \A i \in 1..10 : i \in 1..6 \/ i = 7 \/ i = 8 \/ i = 9 \/ i = 10
      OBVIOUS
    <2>2. ToSet(Preparation) = {Preparation[i] : i \in 1..6}
      BY PreparationIs DEF ToSet
    <2> QED
      BY <1>1, <2>1, <2>2, StepsAre
  <1>3. CASE FirstLeft(order) = NoStep
    <2>1. \A i \in 1..10 : order[i] # NoStep
      BY <1>2, StepsAre
    <2>2. \A i \in 1..10 : order[i] \in Completed
      <3>1. \/ \A i \in 1..10 : order[i] \in Completed
            \/ \E i \in 1..10 : FirstLeft(order) = order[i]
        BY <1>1, FirstLeftIs
      <3> QED
        BY <1>3, <2>1, <3>1
    <2> QED
      BY <1>2, <1>3, <2>2 DEF NoStep
  <1>4. CASE FirstLeft(order) # NoStep
    <2>1. PICK i \in 1..10 : /\ FirstLeft(order) = order[i] /\ order[i] \notin Completed
                             /\ \A k \in 1..10 : k < i => order[k] \in Completed
      BY <1>1, <1>4, FirstLeftIs
    <2>2. i = 1 \/ i = 2 \/ i = 3 \/ i = 4 \/ i = 5 \/ i = 6 \/ i \in 7..10
      OBVIOUS
    <2>3. CASE i \in 7..10
      <3>1. \A k \in 1..6 : Preparation[k] \in Completed
        BY <1>1, <2>1, <2>3
      <3>2. order[i] \in Writes
        BY <1>1, <2>3
      <3>3. Earlier(order[i]) \subseteq Completed
        BY <3>1, <3>2, EarlierAre, PreparationIs DEF ToSet
      <3>4. ASSUME order[i] = "write-report", order = SummaryFirst
            PROVE  "write-summary" \in Completed
        <4>1. i = 7 \/ i = 8 \/ i = 9 \/ i = 10
          BY <2>3
        <4>2. i = 8
          BY <3>4, <4>1, OrdersAre
        <4>3. order[7] \in Completed
          BY <2>1, <4>2
        <4> QED
          BY <3>4, <4>3, OrdersAre
      <3> QED
        BY <1>2, <1>4, <2>1, <3>3, <3>4
    <2>4. CASE i \in 1..6
      <3>1. order[i] = Preparation[i] /\ order[i] # "write-report"
        BY <1>1, <2>2, <2>4, PreparationIs
      <3>2. \A k \in 1..6 : k < i => Preparation[k] \in Completed
        BY <1>1, <2>1
      <3>3. Earlier(Preparation[i]) \subseteq Completed
        <4>1. i = 1 => Earlier(Preparation[i]) = {}
          BY EarlierAre, PreparationIs
        <4>2. i = 2 => Earlier(Preparation[i]) = {Preparation[1]}
          BY EarlierAre, PreparationIs
        <4>3. i = 3 => Earlier(Preparation[i]) = {Preparation[1], Preparation[2]}
          BY EarlierAre, PreparationIs
        <4>4. i = 4 => Earlier(Preparation[i])
                         = {Preparation[1], Preparation[2], Preparation[3]}
          BY EarlierAre, PreparationIs
        <4>5. i = 5 => Earlier(Preparation[i])
                         = {Preparation[1], Preparation[2], Preparation[3], Preparation[4]}
          BY EarlierAre, PreparationIs
        <4>6. i = 6 => Earlier(Preparation[i])
                         = {Preparation[1], Preparation[2], Preparation[3], Preparation[4],
                            Preparation[5]}
          BY EarlierAre, PreparationIs
        <4>7. i = 1 \/ i = 2 \/ i = 3 \/ i = 4 \/ i = 5 \/ i = 6
          BY <2>4
        <4> QED
          BY <3>2, <4>1, <4>2, <4>3, <4>4, <4>5, <4>6, <4>7
      <3> QED
        BY <1>2, <1>4, <2>1, <3>1, <3>3
    <2> QED
      BY <2>2, <2>3, <2>4
  <1> QED
    BY <1>3, <1>4

\* The step the loop takes up is left, and what it needs is completed; the report
\* not before the summary that was asked for first, unless one of the two is there.
LEMMA NextStepIs ==
  ASSUME plan \in {"none", "reportFirst", "summaryFirst"}
  PROVE  /\ NextStep = NoStep => Steps \subseteq Completed
         /\ NextStep # NoStep => NextStep \in Steps \ Completed
         /\ NextStep # NoStep /\ (\A x \in Completed : Earlier(x) \subseteq Completed)
              => Earlier(NextStep) \subseteq Completed
         /\ /\ NextStep = "write-report" /\ Output.summaryFirst \in ToSet(refinements)
            /\ plan = "reportFirst" => Told \cap Completed # {}
            => "write-summary" \in Completed
  <1> DEFINE early == /\ Output.summaryFirst \in ToSet(refinements)
                      /\ "synthesize-findings" \in Completed
                      /\ {"write-summary", "write-report"} \cap Completed = {}
  <1>1. CASE plan = "summaryFirst"
    <2>1. NextStep = FirstLeft(SummaryFirst)
      BY <1>1 DEF NextStep
    <2> QED
      BY <2>1, FirstOfOrder
  <1>2. CASE plan = "reportFirst" \/ (plan = "none" /\ ~early)
    <2>1. NextStep = FirstLeft(ReportFirst)
      BY <1>2 DEF NextStep, SelectNextStep
    <2>2. /\ NextStep = NoStep => Steps \subseteq Completed
          /\ NextStep # NoStep => NextStep \in Steps \ Completed
                                  /\ Earlier(NextStep) \subseteq Completed
      BY <2>1, FirstOfOrder
    <2>3. ASSUME NextStep = "write-report", Output.summaryFirst \in ToSet(refinements),
                 plan = "reportFirst" => Told \cap Completed # {}
          PROVE  "write-summary" \in Completed
      <3>1. "write-report" \notin Completed /\ NextStep # NoStep
        BY <2>2, <2>3, StepsAre DEF Writes, NoStep
      <3>2. Earlier("write-report") = ToSet(Preparation)
        BY EarlierAre DEF Writes
      <3>3. "synthesize-findings" \in Completed
        BY <2>2, <2>3, <3>1, <3>2, PreparationIs
      <3>4. CASE plan = "reportFirst"
        BY <2>3, <3>1, <3>4 DEF Told
      <3>5. CASE plan = "none" /\ ~early
        BY <2>3, <3>1, <3>3, <3>5
      <3> QED
        BY <1>2, <3>4, <3>5
    <2> QED
      BY <2>2, <2>3
  <1>3. CASE plan = "none" /\ early
    <2>1. NextStep = "write-summary"
      BY <1>3 DEF NextStep, SelectNextStep
    <2>2. "write-summary" \in Steps \ Completed /\ "write-summary" # NoStep
      BY <1>3, StepsAre DEF Writes, NoStep
    <2>3. Earlier("write-summary") = ToSet(Preparation)
      BY EarlierAre DEF Writes
    <2>4. ToSet(Preparation) = Earlier("synthesize-findings") \cup {"synthesize-findings"}
      BY EarlierAre, PreparationIs
    <2> QED
      BY <1>3, <2>1, <2>2, <2>3, <2>4
  <1> QED
    BY <1>1, <1>2, <1>3

-----------------------------------------------------------------------------
(* The task and its loop. *)

RunSound == RunTypeOK(Steps, Seq(Refinements))
PlanTyped == plan \in {"none", "reportFirst", "summaryFirst"}

\* The moves of the loop and of the user, who leave what the steps have made.
Moves ==
  \/ Chooses(NextStep) \/ Advances \/ StepBegins \/ Completes
  \/ Finishes(NextStep) \/ Fails
  \/ Pauses \/ Resumes \/ Restarts
  \/ \E m \in Messages : Refines(m, Told) \/ Persists(m)

\* The end of a step, whatever it has done.
Ends ==
  /\ loop.pc = "working"
  /\ Goes("saved") \/ Goes("failing")
  /\ UNCHANGED steps \/ Saves
  /\ UNCHANGED <<status, current, refinements, chat, restarts, displaced>>

LEMMA StepWorksEnds ==
  ASSUME StepWorks
  PROVE  Ends
  <1> USE DEF Saved, Refused, Gives, Returns, Throws, Ends
  <1>1. CASE PreparesWorkspace
    BY <1>1 DEF PreparesWorkspace, Working
  <1>2. CASE SearchesWeb
    BY <1>2 DEF SearchesWeb, Working
  <1>3. CASE SelectsSources
    BY <1>3 DEF SelectsSources, Working
  <1>4. CASE FetchesPages
    BY <1>4 DEF FetchesPages, Sourced, ReadsPages, Working
  <1>5. CASE ExtractsEvidence
    BY <1>5 DEF ExtractsEvidence, Sourced, GradesSources, Working
  <1>6. CASE Synthesizes
    BY <1>6 DEF Synthesizes, Sourced, MakesReport, Working
  <1>7. CASE WritesFile
    BY <1>7 DEF WritesFile, Sourced, Writing
  <1> QED
    BY <1>1, <1>2, <1>3, <1>4, <1>5, <1>6, <1>7 DEF StepWorks

\* The statuses of the steps stay statuses of the steps.
LEMMA StepsType ==
  ASSUME RunSound, NEW step
  PROVE  LET F == [Steps -> {"pending", "active", "paused", "completed", "blocked"}]
         IN  /\ Displacing(step) \in F /\ Held \in F /\ Rewritten(step) \in F
             /\ Saves => steps' \in F
  BY DEF RunSound, RunTypeOK, Displacing, Held, Rewritten, Saves

LEMMA EndsType ==
  ASSUME RunSound, Ends
  PROVE  RunSound'
  <1>1. steps' \in [Steps -> {"pending", "active", "paused", "completed", "blocked"}]
    BY StepsType DEF Ends, RunSound, RunTypeOK
  <1>2. loop' \in [pc : {"off", "head", "chosen", "begun", "working", "saved", "failing"},
                   step : Steps \cup {NoStep}, read : SUBSET Seq(Refinements)]
    BY DEF Ends, Goes, RunSound, RunTypeOK
  <1> QED
    BY <1>1, <1>2 DEF Ends, RunSound, RunTypeOK

LEMMA MovesType ==
  ASSUME RunSound, PlanTyped, Moves
  PROVE  RunSound'
  <1> USE DEF RunSound, RunTypeOK
  <1>1. CASE Chooses(NextStep)
    BY <1>1, NextStepIs DEF PlanTyped, Chooses, NoLoop, taskVars
  <1>2. CASE Advances
    BY <1>2, StepsType DEF Advances, Goes
  <1>3. CASE StepBegins
    <2>1. PICK copy \in {refinements, <<>>} : Begins(copy)
      BY <1>3 DEF StepBegins
    <2>2. copy \in Seq(Refinements)
      <3>1. <<>> \in Seq(Refinements) /\ refinements \in Seq(Refinements)
        OBVIOUS
      <3> QED
        BY <3>1
    <2> QED
      BY <2>1, <2>2 DEF Begins, taskVars
  <1>4. CASE Completes
    BY <1>4 DEF Completes, NoLoop
  <1>5. CASE Finishes(NextStep)
    BY <1>5 DEF Finishes, NoLoop
  <1>6. CASE Fails
    BY <1>6 DEF Fails, NoLoop
  <1>7. CASE Pauses
    BY <1>7, StepsType DEF Pauses
  <1>8. CASE Resumes
    BY <1>8 DEF Resumes, NoLoop
  <1>9. CASE Restarts
    <2>1. chat' \in [Messages -> [pc : {"idle", "planned", "answered"},
                                 refinements : Seq(Refinements), done : SUBSET Steps,
                                 current : Steps \cup {NoStep}]]
      <3>1. <<>> \in Seq(Refinements)
        OBVIOUS
      <3> QED
        BY <1>9, <3>1 DEF Restarts, NoChat, Answered
    <2>2. restarts' \in 0..MaxRestarts
      BY <1>9, ResearchAssumption DEF Restarts
    <2>3. steps' \in [Steps -> {"pending", "active", "paused", "completed", "blocked"}]
      BY <1>9, StepsType DEF Restarts
    <2> QED
      BY <1>9, <2>1, <2>2, <2>3 DEF Restarts, NoLoop
  <1>10. ASSUME NEW m \in Messages, Refines(m, Told) PROVE RunSound'
    <2>1. refinements \o SetToSeq(Refinement[m]) \in Seq(Refinements)
      BY AskedType
    <2> DEFINE planned == [pc |-> "planned",
                           refinements |-> refinements \o SetToSeq(Refinement[m]),
                           done |-> Completed \cap Told, current |-> current]
    <2>2. planned \in [pc : {"idle", "planned", "answered"}, refinements : Seq(Refinements),
                       done : SUBSET Steps, current : Steps \cup {NoStep}]
      <3>1. Completed \cap Told \subseteq Steps
        BY DEF Completed
      <3> QED
        BY <2>1, <3>1
    <2>3. chat' = [chat EXCEPT ![m] = planned]
      BY <1>10 DEF Refines
    <2> HIDE DEF planned
    <2> QED
      BY <1>10, <2>2, <2>3 DEF Refines, taskVars
  <1>11. ASSUME NEW m \in Messages, Persists(m) PROVE RunSound'
    <2>1. <<>> \in Seq(Refinements)
      OBVIOUS
    <2>2. Answered \in [pc : {"idle", "planned", "answered"}, refinements : Seq(Refinements),
                        done : SUBSET Steps, current : Steps \cup {NoStep}]
      BY <2>1 DEF Answered, NoChat
    <2>3. chat' = [chat EXCEPT ![m] = Answered]
      BY <1>11 DEF Persists
    <2>4. chat[m] \in [pc : {"idle", "planned", "answered"}, refinements : Seq(Refinements),
                       done : SUBSET Steps, current : Steps \cup {NoStep}]
      OBVIOUS
    <2>5. Rewritten(chat[m].current) \in
            [Steps -> {"pending", "active", "paused", "completed", "blocked"}]
      BY StepsType
    <2>6. displaced' \in BOOLEAN /\ current' \in Steps \cup {NoStep}
      BY <1>11, <2>4 DEF Persists
    <2> QED
      BY <1>11, <2>2, <2>3, <2>4, <2>5, <2>6 DEF Persists
  <1> QED
    BY <1>1, <1>2, <1>3, <1>4, <1>5, <1>6, <1>7, <1>8, <1>9, <1>10, <1>11 DEF Moves

\* A task that is over has no loop, and the current step is not completed.
LoopSound ==
  /\ Finished => loop.pc = "off"
  /\ loop.pc \in {"off", "head"} => loop.step = NoStep
  /\ loop.pc \notin {"off", "head"} => loop.step \in Steps
  /\ current # NoStep => steps[current] # "completed"

\* As long as no step is counted as completed in passing, no step is completed before
\* those it needs, and the one that the loop is at is the current one.
InOrder ==
  /\ \A x \in Completed : Earlier(x) \subseteq Completed
  /\ loop.pc \notin {"off", "head"} =>
       loop.step \notin Completed /\ Earlier(loop.step) \subseteq Completed
  /\ loop.pc \in {"begun", "working", "saved", "failing"} => current = loop.step
  /\ status = "completed" => Completed = Steps

Done(step) == step \in Completed \/ (loop.step = step /\ loop.pc = "saved")

LEMMA EndsLoop ==
  ASSUME RunSound, LoopSound, Ends
  PROVE  LoopSound' /\ Completed' = Completed
  <1>1. loop'.step = loop.step /\ loop'.pc \in {"saved", "failing"}
    BY DEF Ends, Goes, RunSound, RunTypeOK
  <1>2. status' = status /\ current' = current /\ loop.pc = "working"
    BY DEF Ends
  <1>3. /\ DOMAIN steps' = DOMAIN steps
        /\ \A x \in DOMAIN steps : steps'[x] = "completed" <=> steps[x] = "completed"
    <2>1. CASE UNCHANGED steps
      BY <2>1
    <2>2. CASE Saves
      BY <2>2, StepsAre DEF Saves, RunSound, RunTypeOK, LoopSound
    <2> QED
      BY <2>1, <2>2 DEF Ends
  <1>4. Completed' = Completed
    BY <1>3 DEF Completed
  <1>5. current # NoStep => steps'[current] # "completed"
    BY <1>3 DEF LoopSound, RunSound, RunTypeOK
  <1> QED
    BY <1>1, <1>2, <1>4, <1>5 DEF LoopSound, Finished

LEMMA EndsOrder ==
  ASSUME RunSound, LoopSound, InOrder, Ends
  PROVE  InOrder'
  <1>1. Completed' = Completed
    BY EndsLoop
  <1>2. loop'.step = loop.step /\ loop'.pc \in {"saved", "failing"}
    BY DEF Ends, Goes, RunSound, RunTypeOK
  <1>3. status' = status /\ current' = current /\ loop.pc = "working"
    BY DEF Ends
  <1> QED
    BY <1>1, <1>2, <1>3 DEF InOrder

LEMMA MovesLoop ==
  ASSUME RunSound, PlanTyped, LoopSound, Moves
  PROVE  LoopSound'
  <1> USE DEF RunSound, RunTypeOK, LoopSound
  <1>1. CASE Chooses(NextStep)
    BY <1>1, NextStepIs DEF PlanTyped, Chooses, NoLoop, taskVars, Finished
  <1>2. CASE Advances
    BY <1>2 DEF Advances, Goes, Displacing, Finished
  <1>3. CASE StepBegins
    BY <1>3 DEF StepBegins, Begins, taskVars, Finished
  <1>4. CASE Completes
    BY <1>4 DEF Completes, NoLoop, Finished
  <1>5. CASE Finishes(NextStep)
    BY <1>5 DEF Finishes, NoLoop
  <1>6. CASE Fails
    BY <1>6 DEF Fails, NoLoop
  <1>7. CASE Pauses
    BY <1>7 DEF Pauses, Held, Finished
  <1>8. CASE Resumes
    BY <1>8 DEF Resumes, NoLoop, Finished
  <1>9. CASE Restarts
    BY <1>9 DEF Restarts, NoLoop, Held
  <1>10. ASSUME NEW m \in Messages, Refines(m, Told) PROVE LoopSound'
    BY <1>10 DEF Refines, taskVars, Finished
  <1>11. ASSUME NEW m \in Messages, Persists(m) PROVE LoopSound'
    BY <1>11 DEF Persists, Rewritten, Finished
  <1> QED
    BY <1>1, <1>2, <1>3, <1>4, <1>5, <1>6, <1>7, <1>8, <1>9, <1>10, <1>11 DEF Moves

\* A step is not counted as completed before the loop completes it.
LEMMA MovesCompleted ==
  ASSUME RunSound, LoopSound, InOrder, Moves, ~displaced'
  PROVE  /\ ~displaced
         /\ ~Completes => Completed' = Completed
         /\ Completes => Completed' = Completed \cup {loop.step}
  <1> USE DEF RunSound, RunTypeOK, LoopSound
  <1>1. CASE Chooses(NextStep)
    BY <1>1 DEF Chooses, Completes, taskVars, Completed
  <1>2. CASE Advances
    <2>1. loop.step \in Steps \ Completed
      BY <1>2 DEF Advances, InOrder
    <2>2. steps[loop.step] # "completed"
      BY <2>1 DEF Completed
    <2>3. current \in {NoStep, loop.step}
      BY <1>2 DEF Advances, Completed
    <2> QED
      BY <1>2, <2>2, <2>3, StepsAre DEF Advances, Displacing, Completes, Completed
  <1>3. CASE StepBegins
    BY <1>3 DEF StepBegins, Begins, taskVars, Completes, Completed
  <1>4. CASE Completes
    <2>1. current = loop.step /\ loop.step \in Steps
      BY <1>4 DEF Completes, InOrder
    <2> QED
      BY <1>4, <2>1 DEF Completes, Completed
  <1>5. CASE Finishes(NextStep)
    BY <1>5 DEF Finishes, Completes, Completed
  <1>6. CASE Fails
    BY <1>6 DEF Fails, Completes, Completed
  <1>7. CASE Pauses
    BY <1>7 DEF Pauses, Held, Completes, Completed
  <1>8. CASE Resumes
    BY <1>8 DEF Resumes, Completes, Completed
  <1>9. CASE Restarts
    BY <1>9 DEF Restarts, Held, Completes, Completed
  <1>10. ASSUME NEW m \in Messages, Refines(m, Told)
         PROVE  ~displaced /\ ~Completes /\ Completed' = Completed
    <2>1. UNCHANGED <<steps, displaced>>
      BY <1>10 DEF Refines, taskVars
    <2> QED
      BY <1>10, <2>1 DEF Refines, Completes, Completed, taskVars, NoLoop
  <1>11. ASSUME NEW m \in Messages, Persists(m)
         PROVE  ~displaced /\ ~Completes /\ Completed' = Completed
    <2>1. ~Completes
      BY <1>11 DEF Persists, Completes, NoLoop
    <2>2. CASE Finished
      BY <1>11, <2>1, <2>2 DEF Persists, Completed
    <2>3. CASE ~Finished
      <3>1. ~displaced /\ steps' = Rewritten(chat[m].current)
        BY <1>11, <2>3 DEF Persists
      <3>2. chat[m].current \in {NoStep, current}
        BY <1>11, <2>3 DEF Persists
      <3>3. \A x \in Steps : Rewritten(chat[m].current)[x] = "completed" <=> steps[x] = "completed"
        BY <3>2 DEF Rewritten
      <3>4. DOMAIN steps = Steps /\ DOMAIN Rewritten(chat[m].current) = Steps
        BY DEF Rewritten
      <3> QED
        BY <2>1, <3>1, <3>3, <3>4 DEF Completed
    <2> QED
      BY <2>2, <2>3
  <1> QED
    BY <1>1, <1>2, <1>3, <1>4, <1>5, <1>6, <1>7, <1>8, <1>9, <1>10, <1>11 DEF Moves

LEMMA MovesOrder ==
  ASSUME RunSound, PlanTyped, LoopSound, InOrder, Moves, ~displaced'
  PROVE  InOrder'
  <1> USE DEF RunSound, RunTypeOK
  <1>1. Completed \subseteq Steps /\ \A x \in Completed : Earlier(x) \subseteq Completed
    BY DEF Completed, InOrder
  <1>2. CASE Completes
    <2>1. Completed' = Completed \cup {loop.step}
      BY <1>2, MovesCompleted
    <2>2. Earlier(loop.step) \subseteq Completed /\ status # "completed"
      BY <1>2 DEF Completes, InOrder, LoopSound, Finished
    <2>3. loop'.pc = "head" /\ status' = status
      BY <1>2 DEF Completes, NoLoop
    <2> QED
      BY <1>1, <2>1, <2>2, <2>3 DEF InOrder
  <1>3. ASSUME ~Completes PROVE InOrder'
    <2>1. Completed' = Completed
      BY <1>3, MovesCompleted
    <2>2. CASE Chooses(NextStep)
      <3>1. loop' = [pc |-> "chosen", step |-> NextStep, read |-> {}] /\ status' # "completed"
        BY <2>2 DEF Chooses, NoLoop, taskVars, Finished
      <3>2. NextStep \in Steps \ Completed /\ Earlier(NextStep) \subseteq Completed
        BY <1>1, <2>2, NextStepIs DEF PlanTyped, Chooses
      <3> QED
        BY <1>1, <2>1, <3>1, <3>2 DEF InOrder
    <2>3. CASE Advances
      <3>1. /\ loop.pc = "chosen" /\ loop'.pc = "begun" /\ loop'.step = loop.step
            /\ current' = loop.step /\ status' = "active"
        BY <2>3 DEF Advances, Goes
      <3> QED
        BY <2>1, <3>1 DEF InOrder
    <2>4. CASE StepBegins
      <3>1. /\ loop.pc = "begun" /\ loop'.pc = "working" /\ loop'.step = loop.step
            /\ current' = current /\ status' = status
        BY <2>4 DEF StepBegins, Begins, taskVars
      <3> QED
        BY <2>1, <3>1 DEF InOrder
    <2>5. CASE Finishes(NextStep)
      <3>1. Completed = Steps
        BY <1>1, <2>5, NextStepIs DEF PlanTyped, Finishes
      <3>2. loop'.pc = "off"
        BY <2>5 DEF Finishes, NoLoop
      <3> QED
        BY <1>1, <2>1, <3>1, <3>2 DEF InOrder
    <2>6. CASE Fails \/ Restarts
      <3>1. loop'.pc = "off" /\ status' # "completed"
        BY <2>6 DEF Fails, Restarts, NoLoop
      <3> QED
        BY <1>1, <2>1, <3>1 DEF InOrder
    <2>7. CASE Pauses
      <3>1. loop' = loop /\ current' = current /\ status' # "completed"
        BY <2>7 DEF Pauses
      <3> QED
        BY <2>1, <3>1 DEF InOrder
    <2>8. CASE Resumes
      <3>1. loop' = loop \/ (loop.pc = "off" /\ loop'.pc = "head")
        BY <2>8 DEF Resumes, NoLoop
      <3>2. current' = current /\ status' # "completed"
        BY <2>8 DEF Resumes
      <3> QED
        BY <1>1, <2>1, <3>1, <3>2 DEF InOrder
    <2>9. ASSUME NEW m \in Messages, Refines(m, Told) PROVE InOrder'
      <3>1. loop' = loop /\ current' = current /\ status' = status
        BY <2>9 DEF Refines, taskVars
      <3> QED
        BY <2>1, <3>1 DEF InOrder
    <2>10. ASSUME NEW m \in Messages, Persists(m) PROVE InOrder'
      <3>1. loop' = loop /\ current' = current /\ status' = status
        BY <2>10 DEF Persists
      <3> QED
        BY <2>1, <3>1 DEF InOrder
    <2> QED
      BY <1>3, <2>2, <2>3, <2>4, <2>5, <2>6, <2>7, <2>8, <2>9, <2>10 DEF Moves
  <1> QED
    BY <1>2, <1>3

\* Nothing is done by the moves that was not done before.
LEMMA MovesDone ==
  ASSUME RunSound, LoopSound, InOrder, Moves, ~displaced', NEW x \in Steps, Done(x)'
  PROVE  Done(x)
  <1> USE DEF RunSound, RunTypeOK
  <1>1. CASE Completes
    <2>1. Completed' = Completed \cup {loop.step} /\ loop.pc = "saved" /\ loop'.pc = "head"
      BY <1>1, MovesCompleted DEF Completes, NoLoop
    <2> QED
      BY <2>1 DEF Done
  <1>2. CASE ~Completes
    <2>1. Completed' = Completed
      BY <1>2, MovesCompleted
    <2>2. loop'.pc = "saved" => loop' = loop
      <3>1. Chooses(NextStep) => loop'.pc = "chosen"
        BY DEF Chooses, NoLoop
      <3>2. Advances => loop'.pc = "begun"
        BY DEF Advances, Goes
      <3>3. StepBegins => loop'.pc = "working"
        BY DEF StepBegins, Begins
      <3>4. Finishes(NextStep) \/ Fails \/ Restarts => loop'.pc = "off"
        BY DEF Finishes, Fails, Restarts, NoLoop
      <3>5. Pauses => loop' = loop
        BY DEF Pauses
      <3>6. Resumes => loop' = loop \/ loop'.pc = "head"
        BY DEF Resumes, NoLoop
      <3>7. \A m \in Messages : Refines(m, Told) \/ Persists(m) => loop' = loop
        BY DEF Refines, Persists
      <3> QED
        BY <1>2, <3>1, <3>2, <3>3, <3>4, <3>5, <3>6, <3>7 DEF Moves
    <2> QED
      BY <2>1, <2>2 DEF Done
  <1> QED
    BY <1>1, <1>2

\* A step that has ended is done at most, and was not completed before.
LEMMA EndsDone ==
  ASSUME RunSound, LoopSound, InOrder, Ends, NEW x \in Steps
  PROVE  /\ Done(x)' => x \in Completed \/ x = loop.step
         /\ loop'.pc = "failing" /\ Done(x)' => x \in Completed
  <1>1. Completed' = Completed
    BY EndsLoop
  <1>2. loop'.step = loop.step
    BY DEF Ends, Goes, RunSound, RunTypeOK
  <1>3. loop.pc = "working"
    BY DEF Ends
  <1> QED
    BY <1>1, <1>2, <1>3 DEF Done, InOrder, LoopSound

-----------------------------------------------------------------------------
(* What the steps do to what was found. *)

Researches(results) ==
  [error : BOOLEAN, selected : Seq(Sources(Len(results))), pages : SUBSET DOMAIN results,
   evidence : Seq(EvidenceRecords(Len(results))),
   readiness : {"solid", "limited", "insufficient"}]

WorkTyped ==
  /\ PlanTyped /\ maxPages \in PageLimits
  /\ raw \in {<<>>} \cup Searches
  /\ research \in Researches(raw)
  /\ draft.written \in BOOLEAN /\ draft.language \in Languages
  /\ \E found \in Searches \cup {<<>>} : draft.evidence \in Seq(EvidenceRecords(Len(found)))
  /\ artifacts \in Seq(Writes \cup {"workspace"})

LEMMA TypeOKIs == TypeOK <=> RunSound /\ WorkTyped
  BY DEF TypeOK, RunSound, WorkTyped, PlanTyped, Researches

\* The sources tell what they are, and so does their evidence; the limit is kept.
FoundTells ==
  /\ SourcesTell(research.selected, raw)
  /\ PagesWithinLimit
  /\ EvidenceTells(research.evidence, research.selected)

LEMMA LimitsType ==
  ASSUME WorkTyped
  PROVE  /\ raw \in Seq(Results) /\ DOMAIN raw = 1..Len(raw) /\ Len(raw) \in Nat
         /\ maxPages \in Nat
  <1>1. raw \in Seq(Results)
    <2>1. <<>> \in Seq(Results)
      OBVIOUS
    <2> QED
      BY <2>1, ResearchAssumption DEF WorkTyped
  <1>2. maxPages \in Nat
    BY ResearchAssumption DEF WorkTyped
  <1> QED
    BY <1>1, <1>2

LEMMA ReadinessType ==
  ASSUME NEW selected, NEW evidence
  PROVE  Readiness(selected, evidence) \in {"solid", "limited", "insufficient"}
  <1> DEFINE solid == /\ Having(evidence, "strong") >= 1
                      /\ ReadWell(selected) >= 1 \/ Having(evidence, "medium") >= 2
                      /\ Having(evidence, "tangential")
                           <= Having(evidence, "strong") + Having(evidence, "medium")
             limited == \/ Having(evidence, "medium") >= 1
                        \/ /\ Having(evidence, "weak") >= 2
                           /\ Having(evidence, "tangential") < Len(selected)
  <1>1. Readiness(selected, evidence) =
          IF selected = <<>> THEN "insufficient"
          ELSE IF solid THEN "solid"
          ELSE IF limited THEN "limited" ELSE "insufficient"
    BY DEF Readiness
  <1> HIDE DEF solid, limited
  <1> QED
    BY <1>1

\* One thing more is known of the research.
LEMMA ResearchFieldType ==
  ASSUME NEW results, NEW research0 \in Researches(results)
  PROVE  /\ \A x \in BOOLEAN : [research0 EXCEPT !.error = x] \in Researches(results)
         /\ \A x \in Seq(Sources(Len(results))) :
              [research0 EXCEPT !.selected = x] \in Researches(results)
         /\ \A x \in SUBSET DOMAIN results :
              [research0 EXCEPT !.pages = x] \in Researches(results)
         /\ \A x \in Seq(EvidenceRecords(Len(results))) :
              [research0 EXCEPT !.evidence = x] \in Researches(results)
         /\ \A x \in {"solid", "limited", "insufficient"} :
              [research0 EXCEPT !.readiness = x] \in Researches(results)
  BY DEF Researches

LEMMA NoResearchType ==
  ASSUME NEW results
  PROVE  /\ NoResearch \in Researches(results)
         /\ NoResearch.error = FALSE /\ NoResearch.selected = <<>> /\ NoResearch.pages = {}
         /\ NoResearch.evidence = <<>> /\ NoResearch.readiness = "insufficient"
  <1>1. <<>> \in Seq(Sources(Len(results))) /\ <<>> \in Seq(EvidenceRecords(Len(results)))
    OBVIOUS
  <1> QED
    BY <1>1 DEF NoResearch, Researches

LEMMA SelectedType ==
  ASSUME NEW results, NEW research0 \in Researches(results),
         NEW selected \in Seq(Sources(Len(results))),
         NEW error \in BOOLEAN
  PROVE  [research0 EXCEPT !.selected = selected, !.error = error]
           \in Researches(results)
  <1> DEFINE s1 == [research0 EXCEPT !.selected = selected]
             s2 == [s1 EXCEPT !.error = error]
  <1>1. s2 = [research0 EXCEPT !.selected = selected, !.error = error]
    OBVIOUS
  <1>2. s1 \in Researches(results)
    BY ResearchFieldType
  <1> HIDE DEF s1
  <1>3. s2 \in Researches(results)
    BY <1>2, ResearchFieldType
  <1> QED
    BY <1>1, <1>3

LEMMA PagesType ==
  ASSUME NEW results, NEW research0 \in Researches(results),
         NEW selected \in Seq(Sources(Len(results))),
         NEW pages \in SUBSET DOMAIN results,
         NEW readiness \in {"solid", "limited", "insufficient"}
  PROVE  [research0 EXCEPT !.selected = selected, !.pages = pages, !.readiness = readiness]
           \in Researches(results)
  <1> DEFINE s1 == [research0 EXCEPT !.selected = selected]
             s2 == [s1 EXCEPT !.pages = pages]
             s3 == [s2 EXCEPT !.readiness = readiness]
  <1>1. s3 = [research0 EXCEPT !.selected = selected, !.pages = pages, !.readiness = readiness]
    OBVIOUS
  <1>2. s1 \in Researches(results)
    BY ResearchFieldType
  <1> HIDE DEF s1
  <1>3. s2 \in Researches(results)
    BY <1>2, ResearchFieldType
  <1> HIDE DEF s2
  <1>4. s3 \in Researches(results)
    BY <1>3, ResearchFieldType
  <1> QED
    BY <1>1, <1>4

LEMMA NoEvidenceType ==
  ASSUME NEW results, NEW research0 \in Researches(results),
         NEW evidence \in Seq(EvidenceRecords(Len(results))),
         NEW error \in BOOLEAN
  PROVE  [research0 EXCEPT !.evidence = evidence, !.error = error]
           \in Researches(results)
  <1> DEFINE s1 == [research0 EXCEPT !.evidence = evidence]
             s2 == [s1 EXCEPT !.error = error]
  <1>1. s2 = [research0 EXCEPT !.evidence = evidence, !.error = error]
    OBVIOUS
  <1>2. s1 \in Researches(results)
    BY ResearchFieldType
  <1> HIDE DEF s1
  <1>3. s2 \in Researches(results)
    BY <1>2, ResearchFieldType
  <1> QED
    BY <1>1, <1>3

LEMMA GradedType ==
  ASSUME NEW results, NEW research0 \in Researches(results),
         NEW selected \in Seq(Sources(Len(results))),
         NEW evidence \in Seq(EvidenceRecords(Len(results))),
         NEW readiness \in {"solid", "limited", "insufficient"},
         NEW error \in BOOLEAN
  PROVE  [research0 EXCEPT !.selected = selected, !.evidence = evidence,
            !.readiness = readiness, !.error = error]
           \in Researches(results)
  <1> DEFINE s1 == [research0 EXCEPT !.selected = selected]
             s2 == [s1 EXCEPT !.evidence = evidence]
             s3 == [s2 EXCEPT !.readiness = readiness]
             s4 == [s3 EXCEPT !.error = error]
  <1>1. s4 = [research0 EXCEPT !.selected = selected, !.evidence = evidence,
                           !.readiness = readiness, !.error = error]
    OBVIOUS
  <1>2. s1 \in Researches(results)
    BY ResearchFieldType
  <1> HIDE DEF s1
  <1>3. s2 \in Researches(results)
    BY <1>2, ResearchFieldType
  <1> HIDE DEF s2
  <1>4. s3 \in Researches(results)
    BY <1>3, ResearchFieldType
  <1> HIDE DEF s3
  <1>5. s4 \in Researches(results)
    BY <1>4, ResearchFieldType
  <1> QED
    BY <1>1, <1>5

\* What is found anew is sound when its parts are.
LEMMA FoundSound ==
  ASSUME WorkTyped, raw' \in {<<>>} \cup Searches, UNCHANGED <<plan, maxPages, draft, artifacts>>,
         research' \in Researches(raw'), SourcesTell(research'.selected, raw'),
         Cardinality(research'.pages) <= maxPages,
         EvidenceTells(research'.evidence, research'.selected)
  PROVE  WorkTyped' /\ FoundTells'
  <1>1. WorkTyped'
    BY DEF WorkTyped, PlanTyped
  <1>2. FoundTells'
    BY DEF FoundTells, PagesWithinLimit
  <1> QED
    BY <1>1, <1>2

\* Nothing is found yet.
LEMMA NothingFound ==
  ASSUME NEW results
  PROVE  /\ SourcesTell(<<>>, results) /\ EvidenceTells(<<>>, <<>>)
         /\ Cardinality({}) = 0
  <1>1. DOMAIN <<>> = {} /\ <<>> \in Seq(Sources(Len(results)))
    OBVIOUS
  <1>2. Cardinality({}) = 0
    BY FS_EmptySet
  <1> QED
    BY <1>1, <1>2 DEF SourcesTell, EvidenceTells

LEMMA SearchesWebIs ==
  ASSUME WorkTyped, SearchesWeb
  PROVE  /\ loop.step = "search-web" /\ raw' \in {<<>>} \cup Searches
         /\ research' \in Researches(raw') /\ research'.selected = <<>>
         /\ research'.pages = {} /\ research'.evidence = <<>>
         /\ UNCHANGED <<draft, artifacts>>
  <1>1. loop.step = "search-web" /\ UNCHANGED <<draft, artifacts>>
    BY DEF SearchesWeb, Working
  <1>2. raw' \in {<<>>} \cup Searches
    BY DEF SearchesWeb, WorkTyped
  <1>3. CASE research' = NoResearch
    BY <1>1, <1>2, <1>3, NoResearchType
  <1>4. CASE research' = [NoResearch EXCEPT !.error = TRUE]
    <2>1. NoResearch \in Researches(raw')
      BY NoResearchType
    <2>2. [NoResearch EXCEPT !.error = TRUE] \in Researches(raw')
      BY <2>1, ResearchFieldType
    <2>3. /\ research'.selected = <<>> /\ research'.pages = {} /\ research'.evidence = <<>>
      BY <1>4 DEF NoResearch
    <2> QED
      BY <1>1, <1>2, <1>4, <2>2, <2>3
  <1> QED
    BY <1>3, <1>4 DEF SearchesWeb

LEMMA SearchesWebSound ==
  ASSUME WorkTyped, FoundTells, SearchesWeb, UNCHANGED <<plan, maxPages>>
  PROVE  WorkTyped' /\ FoundTells'
  <1>1. Cardinality({}) <= maxPages
    BY LimitsType, NothingFound
  <1> QED
    BY <1>1, SearchesWebIs, NothingFound, FoundSound

LEMMA SelectsSourcesIs ==
  ASSUME RunSound, WorkTyped, SelectsSources
  PROVE  /\ loop.step = "select-sources" /\ UNCHANGED <<raw, draft, artifacts>>
         /\ \/ research' = research /\ loop'.pc = "failing"
            \/ /\ research' \in Researches(raw) /\ SourcesTell(research'.selected, raw)
               /\ research'.pages = {} /\ research'.evidence = <<>>
               /\ research'.selected = <<>> => loop'.pc = "failing"
               /\ research'.selected # <<>> => ~research'.error
  <1>1. PICK asked \in loop.read : \E selected \in {Select(raw, ToSet(asked), maxPages)} :
          IF research.error THEN Gives /\ UNCHANGED research
          ELSE /\ research' = [NoResearch EXCEPT !.selected = selected, !.error = selected = <<>>]
               /\ IF selected = <<>> THEN Refused ELSE Saved
    BY DEF SelectsSources
  <1> DEFINE selected == Select(raw, ToSet(asked), maxPages)
             error == selected = <<>>
  <1>2. SourcesTell(selected, raw)
    BY LimitsType, SelectTells
  <1>3. IF research.error THEN Gives /\ UNCHANGED research
        ELSE /\ research' = [NoResearch EXCEPT !.selected = selected, !.error = error]
             /\ IF selected = <<>> THEN Refused ELSE Saved
    BY <1>1
  <1>4. Gives \/ Refused => loop'.pc = "failing"
    BY DEF Gives, Refused, Throws, Goes, RunSound, RunTypeOK
  <1>5. loop.step = "select-sources" /\ UNCHANGED <<raw, draft, artifacts>>
    BY DEF SelectsSources, Working
  <1>6. error \in BOOLEAN /\ (error <=> selected = <<>>)
    OBVIOUS
  <1> HIDE DEF selected, error
  <1>7. CASE research.error
    BY <1>3, <1>4, <1>5, <1>7
  <1>8. CASE ~research.error
    <2>1. research' = [NoResearch EXCEPT !.selected = selected, !.error = error]
      BY <1>3, <1>8
    <2>2. NoResearch \in Researches(raw) /\ selected \in Seq(Sources(Len(raw)))
      BY <1>2, NoResearchType DEF SourcesTell
    <2>3. [NoResearch EXCEPT !.selected = selected, !.error = error] \in Researches(raw)
      BY <1>6, <2>2, SelectedType
    <2>4. research' \in Researches(raw)
      BY <2>1, <2>3, Zenon
    <2>5. /\ research'.selected = selected /\ research'.pages = {} /\ research'.evidence = <<>>
      BY <2>1 DEF NoResearch
    <2>6. research'.error = error
      BY <2>1 DEF NoResearch
    <2> QED
      BY <1>2, <1>3, <1>4, <1>5, <1>6, <1>8, <2>4, <2>5, <2>6
  <1> QED
    BY <1>7, <1>8

LEMMA SelectsSourcesSound ==
  ASSUME RunSound, WorkTyped, FoundTells, SelectsSources, UNCHANGED <<plan, maxPages>>
  PROVE  WorkTyped' /\ FoundTells'
  <1>1. raw' = raw /\ raw \in {<<>>} \cup Searches
    BY SelectsSourcesIs DEF WorkTyped
  <1>2. CASE research' = research
    BY <1>1, <1>2, SelectsSourcesIs, FoundSound DEF FoundTells, WorkTyped, PagesWithinLimit
  <1>3. CASE research' # research
    <2>1. /\ research' \in Researches(raw) /\ SourcesTell(research'.selected, raw)
          /\ research'.pages = {} /\ research'.evidence = <<>>
      BY <1>3, SelectsSourcesIs
    <2>2. Cardinality({}) <= maxPages
      BY LimitsType, NothingFound
    <2>3. EvidenceTells(<<>>, research'.selected)
      BY DEF EvidenceTells
    <2> QED
      BY <1>1, <2>1, <2>2, <2>3, SelectsSourcesIs, FoundSound
  <1> QED
    BY <1>2, <1>3

\* What the pages add: sources in the same places, about the same, and pages within
\* the limit.
PagesTell(selected, pages) ==
  /\ selected = [k \in DOMAIN research.selected |-> selected[k]]
  /\ \A k \in DOMAIN research.selected :
       /\ selected[k] \in Sources(Len(raw))
       /\ selected[k].result = research.selected[k].result
       /\ selected[k].relevance = research.selected[k].relevance
       /\ selected[k].level = "page_read" \/ selected[k].fetched = "ok" => selected[k].excerpt
  /\ pages \in SUBSET DOMAIN raw /\ Cardinality(pages) <= maxPages

LEMMA ReadsPagesIs ==
  ASSUME WorkTyped, FoundTells, ReadsPages
  PROVE  \E selected, pages : PagesTell(selected, pages) /\ PagesSaved(selected, pages)
  <1> DEFINE n == Len(raw)
  <1>1. /\ research.selected \in Seq(Sources(n))
        /\ \A k \in DOMAIN research.selected :
             /\ research.selected[k] \in Sources(n)
             /\ research.selected[k].fetched = "ok" => research.selected[k].excerpt
    BY DEF FoundTells, SourcesTell
  <1>2. maxPages \in Nat /\ DOMAIN raw = 1..n
    BY LimitsType
  <1>3. CASE maxPages = 0
    <2> DEFINE selected == [k \in DOMAIN research.selected |-> SnippetOnly(research.selected[k])]
    <2>1. PagesSaved(selected, {})
      BY <1>3 DEF ReadsPages
    <2>2. PagesTell(selected, {})
      <3>1. Cardinality({}) = 0
        BY FS_EmptySet
      <3> QED
        BY <1>1, <1>3, <3>1, SnippetOnlyType DEF PagesTell
    <2> QED
      BY <2>1, <2>2
  <1>4. CASE maxPages # 0
    <2> DEFINE chosen == PagesToRead(research.selected, maxPages)
               pages == {research.selected[k].result : k \in chosen}
    <2>1. PICK web \in Webs, localOnly \in BOOLEAN :
            PagesSaved([k \in DOMAIN research.selected |->
                          LET source == research.selected[k]
                              url == raw[source.result].url
                          IN  IF k \in chosen THEN Read(source, FetchPage(web, url, localOnly))
                              ELSE NotRead(source)], pages)
      BY <1>4 DEF ReadsPages
    <2> DEFINE selected ==
          [k \in DOMAIN research.selected |->
             LET source == research.selected[k]
                 url == raw[source.result].url
             IN  IF k \in chosen THEN Read(source, FetchPage(web, url, localOnly))
                 ELSE NotRead(source)]
    <2>2. /\ chosen \subseteq DOMAIN research.selected /\ IsFiniteSet(chosen)
          /\ Cardinality(chosen) \in Nat /\ Cardinality(chosen) <= maxPages
      <3>1. Len(research.selected) \in Nat
            /\ DOMAIN research.selected = 1..Len(research.selected)
        BY <1>1
      <3> QED
        BY <1>2, <3>1, PagesToReadSize, FS_CardinalityType
    <2> HIDE DEF chosen
    <2>3. ASSUME NEW k \in DOMAIN research.selected
          PROVE  /\ selected[k] \in Sources(n)
                 /\ selected[k].result = research.selected[k].result
                 /\ selected[k].relevance = research.selected[k].relevance
                 /\ selected[k].level = "page_read" \/ selected[k].fetched = "ok"
                      => selected[k].excerpt
      <3> DEFINE source == research.selected[k]
                 page == FetchPage(web, raw[source.result].url, localOnly)
      <3>1. source \in Sources(n) /\ (source.fetched = "ok" => source.excerpt)
        BY <1>1
      <3>2. PageTells(page)
        BY FetchPageTells
      <3>3. selected[k] = IF k \in chosen THEN Read(source, page) ELSE NotRead(source)
        OBVIOUS
      <3> HIDE DEF selected, page
      <3>4. CASE k \in chosen
        BY <3>1, <3>2, <3>3, <3>4, ReadType
      <3>5. CASE k \notin chosen
        BY <3>1, <3>3, <3>5, NotReadType
      <3> QED
        BY <3>4, <3>5
    <2>4. pages \subseteq DOMAIN raw
      <3>1. \A k \in DOMAIN research.selected : research.selected[k].result \in 1..n
        BY <1>1 DEF Sources
      <3> QED
        BY <1>2, <2>2, <3>1
    <2>5. Cardinality(pages) <= maxPages
      <3> DEFINE result == [k \in chosen |-> research.selected[k].result]
      <3>1. pages = {result[k] : k \in chosen} /\ DOMAIN result = chosen
        OBVIOUS
      <3> HIDE DEF result, pages
      <3>2. IsFiniteSet(pages) /\ Cardinality(pages) <= Cardinality(chosen)
        BY <2>2, <3>1, ImageSize
      <3>3. Cardinality(pages) \in Nat
        BY <3>2, FS_CardinalityType
      <3> QED
        BY <1>2, <2>2, <3>2, <3>3
    <2>6. selected = [k \in DOMAIN research.selected |-> selected[k]]
      OBVIOUS
    <2>7. PagesSaved(selected, pages)
      BY <2>1
    <2> HIDE DEF selected, pages
    <2>8. PagesTell(selected, pages)
      BY <2>3, <2>4, <2>5, <2>6 DEF PagesTell
    <2> QED
      BY <2>7, <2>8
  <1> QED
    BY <1>3, <1>4

LEMMA FetchesPagesIs ==
  ASSUME RunSound, WorkTyped, FoundTells, FetchesPages
  PROVE  /\ loop.step = "fetch-pages" /\ UNCHANGED <<raw, draft, artifacts>>
         /\ \/ research' = research /\ loop'.pc = "failing"
            \/ /\ research.selected # <<>> /\ research'.selected # <<>>
               /\ research' \in Researches(raw) /\ SourcesTell(research'.selected, raw)
               /\ Cardinality(research'.pages) <= maxPages
               /\ research'.evidence = research.evidence /\ research'.error = research.error
               /\ EvidenceTells(research'.evidence, research'.selected)
  <1>1. loop.step = "fetch-pages"
    BY DEF FetchesPages, Working
  <1>2. CASE research.selected = <<>>
    BY <1>1, <1>2 DEF FetchesPages, Sourced, Gives, Throws, Goes, workVars, RunSound, RunTypeOK
  <1>3. CASE research.selected # <<>>
    <2>1. ReadsPages
      BY <1>3 DEF FetchesPages, Sourced
    <2>2. UNCHANGED <<raw, draft, artifacts>>
      BY <2>1 DEF ReadsPages
    <2>3. PICK selected, pages : PagesTell(selected, pages) /\ PagesSaved(selected, pages)
      BY <2>1, ReadsPagesIs
    <2> DEFINE readiness == Readiness(selected, research.evidence)
    <2>4. SourcesTell(selected, raw) /\ DOMAIN selected = DOMAIN research.selected
      BY <2>3, RewrittenTells DEF PagesTell, FoundTells
    <2>5. readiness \in {"solid", "limited", "insufficient"}
      BY ReadinessType
    <2>6. research' = [research EXCEPT !.selected = selected, !.pages = pages,
                                       !.readiness = readiness]
      BY <2>3 DEF PagesSaved
    <2> HIDE DEF readiness
    <2>7. research \in Researches(raw) /\ selected \in Seq(Sources(Len(raw)))
      BY <2>4 DEF WorkTyped, SourcesTell
    <2>8. [research EXCEPT !.selected = selected, !.pages = pages, !.readiness = readiness]
            \in Researches(raw)
      BY <2>3, <2>5, <2>7, PagesType DEF PagesTell
    <2>9. research' \in Researches(raw)
      BY <2>6, <2>8, Zenon
    <2>10. /\ research'.selected = selected /\ research'.pages = pages
           /\ research'.evidence = research.evidence /\ research'.error = research.error
      BY <2>6, <2>7 DEF Researches
    <2>11. EvidenceTells(research.evidence, selected)
      BY <2>3, <2>4 DEF FoundTells, EvidenceTells, PagesTell
    <2>12. selected # <<>>
      BY <1>3, <2>4, <2>7 DEF Researches
    <2> QED
      BY <1>1, <1>3, <2>2, <2>3, <2>4, <2>9, <2>10, <2>11, <2>12 DEF PagesTell
  <1> QED
    BY <1>2, <1>3

LEMMA FetchesPagesSound ==
  ASSUME RunSound, WorkTyped, FoundTells, FetchesPages, UNCHANGED <<plan, maxPages>>
  PROVE  WorkTyped' /\ FoundTells'
  <1>1. raw' = raw /\ raw \in {<<>>} \cup Searches
    BY FetchesPagesIs DEF WorkTyped
  <1>2. CASE research' = research
    BY <1>1, <1>2, FetchesPagesIs, FoundSound DEF FoundTells, WorkTyped, PagesWithinLimit
  <1>3. CASE research' # research
    BY <1>1, <1>3, FetchesPagesIs, FoundSound
  <1> QED
    BY <1>2, <1>3

LEMMA ExtractsEvidenceIs ==
  ASSUME RunSound, WorkTyped, FoundTells, ExtractsEvidence
  PROVE  LET evidence == Evidence(research.selected)
             graded == Graded(research.selected, evidence)
         IN  /\ loop.step = "extract-evidence" /\ UNCHANGED <<raw, draft, artifacts>>
             /\ \/ research' = research /\ loop'.pc = "failing"
                \/ /\ research' \in Researches(raw) /\ research'.pages = research.pages
                   /\ research'.evidence = evidence /\ research.selected # <<>>
                   /\ \/ /\ \A k \in DOMAIN research.selected : evidence[k].basis = "none"
                         /\ research'.selected = research.selected /\ loop'.pc = "failing"
                      \/ /\ research'.selected = graded
                         /\ research'.readiness = Readiness(graded, evidence)
                         /\ research'.error <=>
                              research.error \/ research'.readiness = "insufficient"
                         /\ research'.readiness = "insufficient" => loop'.pc = "failing"
  <1> DEFINE selected == research.selected
             evidence == Evidence(research.selected)
             graded == Graded(research.selected, evidence)
             readiness == Readiness(graded, evidence)
             error == research.error \/ readiness = "insufficient"
  <1>1. loop.step = "extract-evidence"
    BY DEF ExtractsEvidence, Working
  <1>2. Gives \/ Refused => loop'.pc = "failing"
    BY DEF Gives, Refused, Throws, Goes, RunSound, RunTypeOK
  <1>3. CASE research.selected = <<>>
    BY <1>1, <1>2, <1>3 DEF ExtractsEvidence, Sourced, workVars
  <1>4. CASE research.selected # <<>>
    <2>1. /\ UNCHANGED <<raw, draft, artifacts>>
          /\ IF \A k \in DOMAIN evidence : evidence[k].basis = "none"
             THEN research' = [research EXCEPT !.evidence = evidence, !.error = TRUE] /\ Refused
             ELSE /\ research' = [research EXCEPT !.selected = graded, !.evidence = evidence,
                                                  !.readiness = readiness, !.error = error]
                  /\ IF readiness = "insufficient" THEN Refused ELSE Saved
      <3>1. GradesSources
        BY <1>4 DEF ExtractsEvidence, Sourced
      <3> QED
        BY <3>1 DEF GradesSources
    <2>2. selected \in Seq(Sources(Len(raw))) /\ SourcesTell(selected, raw)
      BY DEF FoundTells, SourcesTell
    <2>3. evidence \in Seq(EvidenceRecords(Len(raw))) /\ DOMAIN evidence = DOMAIN selected
      BY <2>2, EvidenceIs
    <2>4. graded \in Seq(Sources(Len(raw)))
      BY <2>2, GradedTells DEF SourcesTell
    <2>5. readiness \in {"solid", "limited", "insufficient"}
      BY ReadinessType
    <2>6. error \in BOOLEAN /\ (error <=> research.error \/ readiness = "insufficient")
      OBVIOUS
    <2>7. research \in Researches(raw)
      BY DEF WorkTyped
    <2> HIDE DEF evidence, graded, readiness, error
    <2>8. CASE \A k \in DOMAIN evidence : evidence[k].basis = "none"
      <3>1. research' = [research EXCEPT !.evidence = evidence, !.error = TRUE]
        BY <2>1, <2>8
      <3>2. [research EXCEPT !.evidence = evidence, !.error = TRUE] \in Researches(raw)
        BY <2>3, <2>7, NoEvidenceType
      <3>3. research' \in Researches(raw)
        BY <3>1, <3>2, Zenon
      <3>4. /\ research'.pages = research.pages /\ research'.evidence = evidence
            /\ research'.selected = research.selected
        BY <2>7, <3>1 DEF Researches
      <3>5. loop'.pc = "failing"
        BY <1>2, <2>1, <2>8
      <3> QED
        BY <1>1, <1>4, <2>1, <2>3, <2>8, <3>3, <3>4, <3>5 DEF evidence
    <2>9. CASE ~ \A k \in DOMAIN evidence : evidence[k].basis = "none"
      <3>1. research' = [research EXCEPT !.selected = graded, !.evidence = evidence,
                                         !.readiness = readiness, !.error = error]
        BY <2>1, <2>9
      <3>2. [research EXCEPT !.selected = graded, !.evidence = evidence,
                             !.readiness = readiness, !.error = error] \in Researches(raw)
        BY <2>3, <2>4, <2>5, <2>6, <2>7, GradedType
      <3>3. research' \in Researches(raw)
        BY <3>1, <3>2, Zenon
      <3>4. /\ research'.pages = research.pages /\ research'.evidence = evidence
            /\ research'.selected = graded /\ research'.readiness = readiness
        BY <2>7, <3>1 DEF Researches
      <3>5. research'.error = error
        BY <2>7, <3>1 DEF Researches
      <3>6. readiness = "insufficient" => loop'.pc = "failing"
        BY <1>2, <2>1, <2>9
      <3> QED
        BY <1>1, <1>4, <2>1, <2>6, <3>3, <3>4, <3>5, <3>6 DEF evidence, graded, readiness
    <2> QED
      BY <2>8, <2>9
  <1> QED
    BY <1>3, <1>4

LEMMA ExtractsEvidenceSound ==
  ASSUME RunSound, WorkTyped, FoundTells, ExtractsEvidence, UNCHANGED <<plan, maxPages>>
  PROVE  WorkTyped' /\ FoundTells'
  <1> DEFINE evidence == Evidence(research.selected)
             graded == Graded(research.selected, evidence)
  <1>1. /\ raw' = raw /\ UNCHANGED <<draft, artifacts>>
        /\ \/ research' = research
           \/ /\ research' \in Researches(raw) /\ research'.pages = research.pages
              /\ research'.evidence = evidence
              /\ research'.selected \in {research.selected, graded}
    BY ExtractsEvidenceIs
  <1>2. raw \in {<<>>} \cup Searches
    BY DEF WorkTyped
  <1>3. SourcesTell(research.selected, raw) /\ SourcesTell(graded, raw)
    BY GradedTells DEF FoundTells
  <1>4. EvidenceTells(evidence, research.selected) /\ EvidenceTells(evidence, graded)
    <2>1. SourcesTell(research.selected, raw) /\ research.selected \in Seq(Sources(Len(raw)))
      BY <1>3 DEF SourcesTell
    <2>2. EvidenceTells(evidence, research.selected) /\ DOMAIN evidence = DOMAIN research.selected
      BY <2>1, EvidenceIs
    <2>3. DOMAIN graded = DOMAIN research.selected
      BY <2>1, GradedTells, Zenon
    <2>4. ASSUME NEW k \in DOMAIN research.selected
          PROVE  graded[k].relevance = research.selected[k].relevance
      BY <2>1, GradedSource, Zenon
    <2> HIDE DEF evidence, graded
    <2> QED
      BY <2>2, <2>3, <2>4 DEF EvidenceTells
  <1>5. Cardinality(research.pages) <= maxPages
    BY DEF FoundTells, PagesWithinLimit
  <1> HIDE DEF evidence, graded
  <1>6. CASE research' = research
    BY <1>1, <1>2, <1>6, FoundSound DEF FoundTells, WorkTyped, PagesWithinLimit
  <1>7. CASE research' # research
    <2>1. /\ research' \in Researches(raw') /\ SourcesTell(research'.selected, raw')
          /\ Cardinality(research'.pages) <= maxPages
          /\ EvidenceTells(research'.evidence, research'.selected)
      BY <1>1, <1>3, <1>4, <1>5, <1>7
    <2> QED
      BY <1>1, <1>2, <2>1, FoundSound
  <1> QED
    BY <1>6, <1>7

\* What is appended to a sequence is added to its elements.
LEMMA AppendedSet ==
  ASSUME NEW S, NEW s \in Seq(S), NEW x \in S
  PROVE  Append(s, x) \in Seq(S) /\ ToSet(Append(s, x)) = ToSet(s) \cup {x}
  <1> DEFINE t == Append(s, x)
             n == Len(s)
  <1>1. /\ n \in Nat /\ DOMAIN s = 1..n /\ t \in Seq(S) /\ DOMAIN t = 1..(n + 1)
        /\ t[n + 1] = x /\ \A i \in 1..n : t[i] = s[i]
    OBVIOUS
  <1> HIDE DEF t, n
  <1>2. 1..(n + 1) = 1..n \cup {n + 1}
    BY <1>1
  <1> QED
    BY <1>1, <1>2 DEF ToSet, t

LEMMA AttachedSet ==
  ASSUME WorkTyped, NEW label \in Writes \cup {"workspace"}
  PROVE  /\ Attached(label) \in Seq(Writes \cup {"workspace"})
         /\ ToSet(Attached(label)) = ToSet(artifacts) \cup {label}
  <1>1. artifacts \in Seq(Writes \cup {"workspace"})
    BY DEF WorkTyped
  <1>2. CASE label \in ToSet(artifacts)
    BY <1>1, <1>2 DEF Attached
  <1>3. CASE label \notin ToSet(artifacts)
    <2>1. Attached(label) = Append(artifacts, label)
      BY <1>3 DEF Attached
    <2> QED
      BY <1>1, <2>1, AppendedSet
  <1> QED
    BY <1>2, <1>3

\* The steps that leave what was found.
LEMMA OthersAre ==
  ASSUME RunSound, WorkTyped
  PROVE  /\ PreparesWorkspace =>
              /\ loop.step = "prepare-workspace" /\ UNCHANGED <<raw, research, draft>>
              /\ artifacts' = Attached("workspace")
         /\ Synthesizes =>
              /\ loop.step = "synthesize-findings" /\ UNCHANGED <<raw, research, artifacts>>
              /\ \/ draft' = draft /\ loop'.pc = "failing"
                 \/ \E language \in Languages :
                      draft' = [written |-> TRUE, language |-> language,
                                evidence |-> research.evidence]
         /\ WritesFile =>
              /\ loop.step \in Writes /\ UNCHANGED <<raw, research, draft>>
              /\ \/ artifacts' = artifacts /\ loop'.pc = "failing"
                 \/ artifacts' = Attached(loop.step)
  <1>1. Gives => loop'.pc = "failing"
    BY DEF Gives, Throws, Goes, RunSound, RunTypeOK
  <1>2. \A asked : Language(asked) \in Languages
    BY DEF Language, Languages
  <1>3. PreparesWorkspace =>
          /\ loop.step = "prepare-workspace" /\ UNCHANGED <<raw, research, draft>>
          /\ artifacts' = Attached("workspace")
    BY DEF PreparesWorkspace, Working
  <1>4. ASSUME Synthesizes
        PROVE  /\ loop.step = "synthesize-findings" /\ UNCHANGED <<raw, research, artifacts>>
               /\ \/ draft' = draft /\ loop'.pc = "failing"
                  \/ \E language \in Languages :
                       draft' = [written |-> TRUE, language |-> language,
                                 evidence |-> research.evidence]
    BY <1>1, <1>2, <1>4 DEF Synthesizes, Working, Sourced, MakesReport, workVars
  <1>5. ASSUME WritesFile
        PROVE  /\ loop.step \in Writes /\ UNCHANGED <<raw, research, draft>>
               /\ \/ artifacts' = artifacts /\ loop'.pc = "failing"
                  \/ artifacts' = Attached(loop.step)
    BY <1>1, <1>5 DEF WritesFile, Sourced, Writing, workVars
  <1> QED
    BY <1>3, <1>4, <1>5

LEMMA OthersSound ==
  ASSUME RunSound, WorkTyped, FoundTells, PreparesWorkspace \/ Synthesizes \/ WritesFile,
         UNCHANGED <<plan, maxPages>>
  PROVE  WorkTyped' /\ FoundTells'
  <1>1. raw' = raw /\ research' = research
    BY OthersAre
  <1>2. artifacts' \in Seq(Writes \cup {"workspace"})
    BY OthersAre, AttachedSet DEF WorkTyped
  <1>3. /\ draft'.written \in BOOLEAN /\ draft'.language \in Languages
        /\ \E found \in Searches \cup {<<>>} :
             draft'.evidence \in Seq(EvidenceRecords(Len(found)))
    <2>1. CASE draft' = draft
      BY <2>1 DEF WorkTyped
    <2>2. CASE draft' # draft
      <3>1. PICK language \in Languages :
              draft' = [written |-> TRUE, language |-> language, evidence |-> research.evidence]
        BY <2>2, OthersAre
      <3>2. research.evidence \in Seq(EvidenceRecords(Len(raw))) /\ raw \in Searches \cup {<<>>}
        BY DEF WorkTyped, Researches
      <3> QED
        BY <3>1, <3>2
    <2> QED
      BY <2>1, <2>2
  <1> QED
    BY <1>1, <1>2, <1>3 DEF WorkTyped, FoundTells, PlanTyped, PagesWithinLimit

LEMMA StepWorksSound ==
  ASSUME RunSound, WorkTyped, FoundTells, StepWorks
  PROVE  WorkTyped' /\ FoundTells'
  BY OthersSound, SearchesWebSound, SelectsSourcesSound, FetchesPagesSound,
     ExtractsEvidenceSound DEF StepWorks

-----------------------------------------------------------------------------
(* What the steps have done. *)

\* There are sources; what is known to be too little stays so.
SourcesDone ==
  Done("select-sources") =>
    /\ research.selected # <<>>
    /\ research.error =>
         /\ "fetch-pages" \in Completed
         /\ Readiness(research.selected, Evidence(research.selected)) = "insufficient"

\* The evidence comes after the pages, and once its step is done it is enough and the
\* sources say of themselves what it says.
EvidenceDone ==
  /\ research.evidence # <<>> =>
       /\ "fetch-pages" \in Completed
       /\ \A k \in DOMAIN research.evidence :
            research.selected[k].relevance = "tangential" /\ research.evidence[k].basis # "none"
              => research.selected[k].use = "discarded"
  /\ Done("extract-evidence") =>
       /\ ~research.error
       /\ research.evidence = Evidence(research.selected)
       /\ research.readiness # "insufficient"
       /\ research.readiness = Readiness(research.selected, research.evidence)
       /\ \A k \in DOMAIN research.evidence :
            research.evidence[k].basis = "snippet" => research.selected[k].level = "snippet_only"

DraftDone ==
  /\ Done("synthesize-findings") => draft.written
  /\ draft.written => "extract-evidence" \in Completed /\ draft.evidence = research.evidence

FilesDone == \A x \in Writes : Done(x) => x \in ToSet(artifacts)

WorkDone == SourcesDone /\ EvidenceDone /\ DraftDone /\ FilesDone

LEMMA NamedSteps ==
  /\ {"select-sources", "extract-evidence", "synthesize-findings"} \cup Writes \subseteq Steps
  BY StepsAre, PreparationIs

\* What was there and is kept stays done, if no more steps are.
LEMMA WorkKept ==
  ASSUME WorkDone, UNCHANGED <<research, draft, artifacts>>, Completed \subseteq Completed',
         \A x \in Steps : Done(x)' => Done(x)
  PROVE  WorkDone'
  <1>1. /\ Done("select-sources")' => Done("select-sources")
        /\ Done("extract-evidence")' => Done("extract-evidence")
        /\ Done("synthesize-findings")' => Done("synthesize-findings")
        /\ \A x \in Writes : Done(x)' => Done(x)
    BY NamedSteps
  <1>2. SourcesDone'
    BY <1>1 DEF WorkDone, SourcesDone
  <1>3. EvidenceDone'
    BY <1>1 DEF WorkDone, EvidenceDone
  <1>4. DraftDone'
    BY <1>1 DEF WorkDone, DraftDone
  <1>5. FilesDone'
    BY <1>1 DEF WorkDone, FilesDone
  <1> QED
    BY <1>2, <1>3, <1>4, <1>5 DEF WorkDone

LEMMA MovesWork ==
  ASSUME RunSound, LoopSound, InOrder, WorkDone, Moves, ~displaced', UNCHANGED workVars
  PROVE  WorkDone'
  <1>1. Completed \subseteq Completed'
    BY MovesCompleted
  <1>2. \A x \in Steps : Done(x)' => Done(x)
    BY MovesDone
  <1> QED
    BY <1>1, <1>2, WorkKept DEF workVars

\* The end of a step adds nothing that was done but this step.
LEMMA StepEnded ==
  ASSUME RunSound, LoopSound, InOrder, Ends
  PROVE  /\ Completed' = Completed
         /\ loop.step \in Steps \ Completed /\ Earlier(loop.step) \subseteq Completed
         /\ \A x \in Completed : loop.step \notin Earlier(x)
         /\ \A x \in Steps : Done(x)' =>
              x \in Completed \/ (x = loop.step /\ loop'.pc # "failing")
         /\ \A x \in Steps : x \in Completed => Done(x)
  <1>1. Completed' = Completed
    BY EndsLoop
  <1>2. loop.pc = "working"
    BY DEF Ends
  <1>3. loop.step \in Steps \ Completed /\ Earlier(loop.step) \subseteq Completed
    BY <1>2 DEF InOrder, LoopSound
  <1>4. \A x \in Completed : loop.step \notin Earlier(x)
    BY <1>3 DEF InOrder
  <1>5. \A x \in Steps : Done(x)' => x \in Completed \/ (x = loop.step /\ loop'.pc # "failing")
    BY EndsDone
  <1> QED
    BY <1>1, <1>3, <1>4, <1>5 DEF Done

\* A step that fails and saves nothing.
LEMMA FailedWork ==
  ASSUME RunSound, LoopSound, InOrder, WorkDone, Ends,
         UNCHANGED <<research, draft, artifacts>>, loop'.pc = "failing"
  PROVE  WorkDone'
  <1>1. Completed \subseteq Completed'
    BY StepEnded
  <1>2. \A x \in Steps : Done(x)' => Done(x)
    BY StepEnded
  <1> QED
    BY <1>1, <1>2, WorkKept

\* Before a step of the preparation has ended, what waits for it is not done.
LEMMA NotYetDone ==
  ASSUME RunSound, LoopSound, InOrder, WorkDone, Ends, loop.step \in ToSet(Preparation)
  PROVE  /\ \A x \in Writes : ~Done(x)'
         /\ loop.step # "synthesize-findings" => ~Done("synthesize-findings")'
         /\ loop.step \in {"search-web", "select-sources", "fetch-pages"}
              => ~Done("extract-evidence")'
         /\ loop.step \in {"search-web", "select-sources", "fetch-pages", "extract-evidence"}
              => ~draft.written
         /\ loop.step \in {"search-web", "select-sources", "fetch-pages"}
              => research.evidence = <<>>
  <1>1. \A x \in Writes : ~Done(x)'
    <2>1. \A x \in Writes : loop.step \in Earlier(x)
      BY EarlierAre
    <2>2. \A x \in Writes : x \notin Completed
      BY <2>1, StepEnded
    <2>3. \A x \in Writes : x \notin ToSet(Preparation) /\ x \in Steps
      BY PreparationIs, StepsAre DEF Writes
    <2> QED
      BY <2>2, <2>3, StepEnded
  <1>2. ASSUME loop.step # "synthesize-findings"
        PROVE  ~Done("synthesize-findings")'
    <2>1. loop.step # "prepare-workspace" => loop.step \in Earlier("synthesize-findings")
      BY <1>2, EarlierAre, PreparationIs
    <2>2. loop.step \in Earlier("synthesize-findings")
      BY <1>2, <2>1, EarlierAre
    <2> QED
      BY <1>2, <2>2, StepEnded, NamedSteps
  <1>3. ASSUME loop.step \in {"search-web", "select-sources", "fetch-pages"}
        PROVE  "extract-evidence" \notin Completed /\ ~Done("extract-evidence")'
    <2>1. loop.step \in Earlier("extract-evidence")
      BY <1>3, EarlierAre
    <2> QED
      BY <1>3, <2>1, StepEnded, NamedSteps
  <1>4. loop.step = "extract-evidence" => "extract-evidence" \notin Completed
    BY StepEnded
  <1>5. ASSUME loop.step \in {"search-web", "select-sources", "fetch-pages"}
        PROVE  "fetch-pages" \notin Completed
    <2>1. loop.step \in Earlier("fetch-pages") \cup {"fetch-pages"}
      BY <1>5, EarlierAre
    <2> QED
      BY <2>1, StepEnded
  <1> QED
    BY <1>1, <1>2, <1>3, <1>4, <1>5 DEF WorkDone, DraftDone, EvidenceDone

LEMMA SearchesWebWork ==
  ASSUME RunSound, LoopSound, InOrder, WorkTyped, WorkDone, Ends, SearchesWeb
  PROVE  WorkDone'
  <1>1. /\ loop.step = "search-web" /\ research'.evidence = <<>>
        /\ UNCHANGED <<draft, artifacts>>
    BY SearchesWebIs
  <1>2. loop.step \in ToSet(Preparation)
    BY <1>1, PreparationIs
  <1>3. ~Done("select-sources")'
    <2>1. loop.step \in Earlier("select-sources")
      BY <1>1, EarlierAre
    <2> QED
      BY <1>1, <2>1, StepEnded, NamedSteps
  <1>4. /\ ~Done("extract-evidence")' /\ ~Done("synthesize-findings")' /\ ~draft.written
        /\ \A x \in Writes : ~Done(x)'
    BY <1>1, <1>2, NotYetDone
  <1> QED
    BY <1>1, <1>3, <1>4 DEF WorkDone, SourcesDone, EvidenceDone, DraftDone, FilesDone

LEMMA SelectsSourcesWork ==
  ASSUME RunSound, LoopSound, InOrder, WorkTyped, WorkDone, Ends, SelectsSources
  PROVE  WorkDone'
  <1>1. loop.step = "select-sources" /\ UNCHANGED <<draft, artifacts>>
    BY SelectsSourcesIs
  <1>2. loop.step \in ToSet(Preparation)
    BY <1>1, PreparationIs
  <1>3. CASE research' = research /\ loop'.pc = "failing"
    BY <1>1, <1>3, FailedWork
  <1>4. CASE ~(research' = research /\ loop'.pc = "failing")
    <2>1. /\ research'.evidence = <<>>
          /\ research'.selected = <<>> => loop'.pc = "failing"
          /\ research'.selected # <<>> => ~research'.error
      BY <1>4, SelectsSourcesIs
    <2>2. Done("select-sources")' => loop'.pc # "failing"
      BY <1>1, StepEnded, NamedSteps
    <2>3. /\ ~Done("extract-evidence")' /\ ~Done("synthesize-findings")' /\ ~draft.written
          /\ \A x \in Writes : ~Done(x)'
      BY <1>1, <1>2, NotYetDone
    <2> QED
      BY <1>1, <2>1, <2>2, <2>3 DEF WorkDone, SourcesDone, EvidenceDone, DraftDone, FilesDone
  <1> QED
    BY <1>3, <1>4

LEMMA FetchesPagesWork ==
  ASSUME RunSound, LoopSound, InOrder, WorkTyped, FoundTells, WorkDone, Ends, FetchesPages
  PROVE  WorkDone'
  <1>1. loop.step = "fetch-pages" /\ UNCHANGED <<draft, artifacts>>
    BY FetchesPagesIs
  <1>2. loop.step \in ToSet(Preparation)
    BY <1>1, PreparationIs
  <1>3. CASE research' = research /\ loop'.pc = "failing"
    BY <1>1, <1>3, FailedWork
  <1>4. CASE ~(research' = research /\ loop'.pc = "failing")
    <2>1. /\ research'.selected # <<>> /\ research'.evidence = research.evidence
          /\ research'.error = research.error
      BY <1>4, FetchesPagesIs
    <2>2. /\ ~Done("extract-evidence")' /\ ~Done("synthesize-findings")' /\ ~draft.written
          /\ research.evidence = <<>> /\ \A x \in Writes : ~Done(x)'
      BY <1>1, <1>2, NotYetDone
    <2>3. ~research.error
      <3>1. "select-sources" \in Completed /\ "fetch-pages" \notin Completed
        BY <1>1, StepEnded, EarlierAre
      <3>2. Done("select-sources")
        BY <3>1 DEF Done
      <3> QED
        BY <3>1, <3>2 DEF WorkDone, SourcesDone
    <2> QED
      BY <1>1, <2>1, <2>2, <2>3 DEF WorkDone, SourcesDone, EvidenceDone, DraftDone, FilesDone
  <1> QED
    BY <1>3, <1>4

\* Evidence that is enough has sources that were never known to be too few.
LEMMA ExtractsEvidenceWork ==
  ASSUME RunSound, LoopSound, InOrder, WorkTyped, FoundTells, WorkDone, Ends, ExtractsEvidence
  PROVE  WorkDone'
  <1> DEFINE s == research.selected
             e == Evidence(s)
             graded == Graded(s, e)
  <1>1. loop.step = "extract-evidence" /\ UNCHANGED <<draft, artifacts>>
    BY ExtractsEvidenceIs
  <1>2. loop.step \in ToSet(Preparation)
    BY <1>1, PreparationIs
  <1>3. CASE research' = research /\ loop'.pc = "failing"
    BY <1>1, <1>3, FailedWork
  <1>4. CASE ~(research' = research /\ loop'.pc = "failing")
    <2>1. /\ research'.evidence = e /\ s # <<>>
          /\ \/ /\ \A k \in DOMAIN s : e[k].basis = "none"
                /\ research'.selected = s /\ loop'.pc = "failing"
             \/ /\ research'.selected = graded
                /\ research'.readiness = Readiness(graded, e)
                /\ research'.error <=> research.error \/ research'.readiness = "insufficient"
                /\ research'.readiness = "insufficient" => loop'.pc = "failing"
      BY <1>4, ExtractsEvidenceIs
    <2>2. ~Done("synthesize-findings")' /\ ~draft.written /\ \A x \in Writes : ~Done(x)'
      BY <1>1, <1>2, NotYetDone
    <2>3. Completed' = Completed /\ "fetch-pages" \in Completed /\ "select-sources" \in Completed
      BY <1>1, StepEnded, EarlierAre
    <2>4. Done("extract-evidence")' => loop'.pc # "failing"
      BY <1>1, StepEnded, NamedSteps
    <2>5. research.error => Readiness(s, e) = "insufficient"
      BY <2>3 DEF Done, WorkDone, SourcesDone
    <2>6. SourcesTell(s, raw) /\ s \in Seq(Sources(Len(raw)))
      BY DEF FoundTells, SourcesTell
    <2>7. DOMAIN e = DOMAIN s
      BY <2>6, EvidenceIs
    <2>8. DraftDone' /\ FilesDone'
      BY <1>1, <2>2 DEF DraftDone, FilesDone
    <2>9. CASE /\ \A k \in DOMAIN s : e[k].basis = "none"
               /\ research'.selected = s /\ loop'.pc = "failing"
      <3>1. Readiness(s, e) = "insufficient"
        BY <2>6, <2>9, NoBasisNotReady
      <3> HIDE DEF e, s
      <3>2. SourcesDone'
        <4>1. Readiness(research'.selected, Evidence(research'.selected)) = "insufficient"
          BY <2>9, <3>1 DEF e
        <4> QED
          BY <2>1, <2>3, <2>9, <4>1 DEF SourcesDone
      <3>3. EvidenceDone'
        BY <2>1, <2>3, <2>4, <2>7, <2>9 DEF EvidenceDone
      <3> QED
        BY <2>8, <3>2, <3>3 DEF WorkDone
    <2>10. CASE /\ research'.selected = graded
                /\ research'.readiness = Readiness(graded, e)
                /\ research'.error <=> research.error \/ research'.readiness = "insufficient"
                /\ research'.readiness = "insufficient" => loop'.pc = "failing"
      <3>1. SourcesTell(graded, raw) /\ DOMAIN graded = DOMAIN s /\ Evidence(graded) = e
        BY <2>6, GradedTells
      <3>2. \A k \in DOMAIN s :
              /\ graded[k].relevance = s[k].relevance
              /\ graded[k].quality = s[k].quality
              /\ e[k].basis = "snippet" => graded[k].level = "snippet_only"
              /\ graded[k].relevance = "tangential" /\ e[k].basis # "none"
                   => graded[k].use = "discarded"
        BY <2>6, GradedTells, Zenon
      <3>3. graded \in Seq(Sources(Len(raw)))
        BY <3>1 DEF SourcesTell
      <3>4. Readiness(graded, e) = Readiness(s, e)
        BY <2>6, <3>1, <3>2, <3>3, ReadinessKept
      <3>5. graded # <<>>
        BY <2>1, <2>6, <3>1, <3>3
      <3> HIDE DEF e, s, graded
      <3>6. SourcesDone'
        <4>1. research'.error =>
                Readiness(research'.selected, Evidence(research'.selected)) = "insufficient"
          BY <2>5, <2>10, <3>1, <3>4
        <4> QED
          BY <2>3, <2>10, <3>5, <4>1 DEF SourcesDone
      <3>7. EvidenceDone'
        <4>1. \A k \in DOMAIN research'.evidence :
                /\ research'.selected[k].relevance = "tangential" /\ research'.evidence[k].basis # "none"
                     => research'.selected[k].use = "discarded"
                /\ research'.evidence[k].basis = "snippet"
                     => research'.selected[k].level = "snippet_only"
          BY <2>1, <2>7, <2>10, <3>2
        <4>2. Done("extract-evidence")' =>
                /\ research'.readiness # "insufficient" /\ ~research'.error
                /\ research'.readiness = Readiness(research'.selected, research'.evidence)
          BY <2>1, <2>4, <2>5, <2>10, <3>4
        <4>3. research'.evidence = Evidence(research'.selected)
          BY <2>1, <2>10, <3>1
        <4> QED
          BY <2>3, <4>1, <4>2, <4>3 DEF EvidenceDone
      <3> QED
        BY <2>8, <3>6, <3>7 DEF WorkDone
    <2> QED
      BY <2>1, <2>9, <2>10
  <1> QED
    BY <1>3, <1>4

LEMMA OthersWork ==
  ASSUME RunSound, LoopSound, InOrder, WorkTyped, WorkDone, Ends,
         PreparesWorkspace \/ Synthesizes \/ WritesFile
  PROVE  WorkDone'
  <1>1. CASE PreparesWorkspace
    <2>1. /\ loop.step = "prepare-workspace" /\ UNCHANGED <<raw, research, draft>>
          /\ ToSet(artifacts) \subseteq ToSet(artifacts')
      BY <1>1, OthersAre, AttachedSet
    <2>2. /\ Done("select-sources")' => Done("select-sources")
          /\ Done("extract-evidence")' => Done("extract-evidence")
          /\ Done("synthesize-findings")' => Done("synthesize-findings")
          /\ \A x \in Writes : Done(x)' => Done(x)
      BY <2>1, StepEnded, NamedSteps DEF Writes
    <2>3. Completed' = Completed
      BY StepEnded
    <2> QED
      BY <2>1, <2>2, <2>3 DEF WorkDone, SourcesDone, EvidenceDone, DraftDone, FilesDone
  <1>2. CASE Synthesizes
    <2>1. loop.step = "synthesize-findings" /\ UNCHANGED <<raw, research, artifacts>>
      BY <1>2, OthersAre
    <2>2. CASE draft' = draft /\ loop'.pc = "failing"
      BY <2>1, <2>2, FailedWork
    <2>3. CASE ~(draft' = draft /\ loop'.pc = "failing")
      <3>1. draft'.written /\ draft'.evidence = research.evidence
        BY <1>2, <2>3, OthersAre
      <3>2. Completed' = Completed /\ "extract-evidence" \in Completed
        BY <2>1, StepEnded, EarlierAre
      <3>3. \A x \in Writes : ~Done(x)'
        BY <2>1, NotYetDone, PreparationIs
      <3>4. /\ Done("select-sources")' => Done("select-sources")
            /\ Done("extract-evidence")' => Done("extract-evidence")
        BY <2>1, StepEnded, NamedSteps
      <3> QED
        BY <2>1, <3>1, <3>2, <3>3, <3>4
           DEF WorkDone, SourcesDone, EvidenceDone, DraftDone, FilesDone
    <2> QED
      BY <2>2, <2>3
  <1>3. CASE WritesFile
    <2>1. loop.step \in Writes /\ UNCHANGED <<raw, research, draft>>
      BY <1>3, OthersAre
    <2>2. CASE artifacts' = artifacts /\ loop'.pc = "failing"
      BY <2>1, <2>2, FailedWork
    <2>3. CASE ~(artifacts' = artifacts /\ loop'.pc = "failing")
      <3>1. ToSet(artifacts') = ToSet(artifacts) \cup {loop.step}
        <4>1. artifacts' = Attached(loop.step)
          BY <1>3, <2>3, OthersAre
        <4> QED
          BY <2>1, <4>1, AttachedSet
      <3>2. Completed' = Completed
        BY StepEnded
      <3>3. \A x \in Writes : Done(x)' => Done(x) \/ x = loop.step
        BY StepEnded, NamedSteps
      <3>4. /\ Done("select-sources")' => Done("select-sources")
            /\ Done("extract-evidence")' => Done("extract-evidence")
            /\ Done("synthesize-findings")' => Done("synthesize-findings")
        BY <2>1, StepEnded, NamedSteps DEF Writes
      <3> QED
        BY <2>1, <3>1, <3>2, <3>3, <3>4
           DEF WorkDone, SourcesDone, EvidenceDone, DraftDone, FilesDone
    <2> QED
      BY <2>2, <2>3
  <1> QED
    BY <1>1, <1>2, <1>3

LEMMA StepWorksDone ==
  ASSUME RunSound, LoopSound, InOrder, WorkTyped, FoundTells, WorkDone, StepWorks
  PROVE  WorkDone'
  BY StepWorksEnds, OthersWork, SearchesWebWork, SelectsSourcesWork, FetchesPagesWork,
     ExtractsEvidenceWork DEF StepWorks

-----------------------------------------------------------------------------
(* What the user has asked for. *)

\* A copy of the task knows only of steps that are completed, and a plan that puts
\* the report first was made without being asked for the summary, or too late.
PlanHolds ==
  /\ \A m \in Messages : chat[m].done \subseteq Completed
  /\ plan = "reportFirst" /\ Output.summaryFirst \in ToSet(refinements)
       => Told \cap Completed # {}

LEMMA EndsPlan ==
  ASSUME RunSound, LoopSound, PlanHolds, Ends, plan' = plan
  PROVE  PlanHolds'
  BY EndsLoop DEF PlanHolds, Ends

\* The moves that leave the plan and the refinements as they are.
Leaves ==
  \/ Chooses(NextStep) \/ Advances \/ StepBegins \/ Completes
  \/ Finishes(NextStep) \/ Fails
  \/ Pauses \/ Resumes \/ Restarts
  \/ \E m \in Messages : Refines(m, Told)

LEMMA LeavesPlan ==
  ASSUME RunSound, LoopSound, InOrder, PlanHolds, Leaves, ~displaced', plan' = plan
  PROVE  PlanHolds'
  <1>1. Completed \subseteq Completed'
    BY MovesCompleted DEF Moves, Leaves
  <1>2. refinements' = refinements
    BY DEF Leaves, Chooses, Advances, StepBegins, Begins, Completes, Finishes, Fails, Pauses,
           Resumes, Restarts, Refines, taskVars
  <1>3. ASSUME NEW m \in Messages
        PROVE  chat'[m].done \subseteq Completed
    <2>1. CASE chat' = chat
      BY <1>3, <2>1 DEF PlanHolds
    <2>2. CASE Restarts
      <3>1. chat'[m] = NoChat \/ chat'[m] = Answered
        BY <1>3, <2>2 DEF Restarts
      <3> QED
        BY <3>1 DEF NoChat, Answered
    <2>3. ASSUME NEW n \in Messages, Refines(n, Told)
          PROVE  chat'[m].done \subseteq Completed
      <3>1. CASE m = n
        <4>1. chat'[m].done = Completed \cap Told
          BY <1>3, <2>3, <3>1 DEF Refines, RunSound, RunTypeOK
        <4> QED
          BY <4>1
      <3>2. CASE m # n
        <4>1. chat'[m] = chat[m]
          BY <1>3, <2>3, <3>2 DEF Refines, RunSound, RunTypeOK
        <4> QED
          BY <1>3, <4>1 DEF PlanHolds
      <3> QED
        BY <3>1, <3>2
    <2> QED
      BY <2>1, <2>2, <2>3 DEF Leaves, Chooses, Advances, StepBegins, Begins, Completes,
         Finishes, Fails, Pauses, Resumes
  <1> QED
    BY <1>1, <1>2, <1>3 DEF PlanHolds

\* The plan that is saved is made from the very list that is saved with it.
LEMMA PersistsPlanHolds ==
  ASSUME RunSound, LoopSound, InOrder, PlanHolds, NEW m \in Messages, PersistsPlan(m), ~displaced'
  PROVE  PlanHolds'
  <1>1. Persists(m)
    BY DEF PersistsPlan
  <1>2. Completed \subseteq Completed'
    BY <1>1, MovesCompleted DEF Moves
  <1>3. \A n \in Messages : chat'[n].done \subseteq Completed
    <2>1. \A n \in Messages : chat'[n] = IF n = m THEN Answered ELSE chat[n]
      BY <1>1 DEF Persists, RunSound, RunTypeOK
    <2> QED
      BY <2>1 DEF PlanHolds, Answered, NoChat
  <1>4. CASE Finished
    BY <1>1, <1>2, <1>3, <1>4 DEF PlanHolds, PersistsPlan, Persists
  <1>5. CASE ~Finished
    <2>1. /\ refinements' = chat[m].refinements
          /\ plan' = PlanOf(chat[m].refinements, chat[m].done)
      BY <1>1, <1>5 DEF PersistsPlan, Persists
    <2>2. plan' = "reportFirst" /\ Output.summaryFirst \in ToSet(refinements')
            => Told \cap chat[m].done # {}
      BY <2>1 DEF PlanOf, Told
    <2>3. chat[m].done \subseteq Completed
      BY DEF PlanHolds
    <2> QED
      BY <1>2, <1>3, <2>2, <2>3 DEF PlanHolds
  <1> QED
    BY <1>4, <1>5

-----------------------------------------------------------------------------
(* The invariant. *)

IInv ==
  /\ RunSound /\ WorkTyped /\ FoundTells /\ LoopSound
  /\ ~displaced => InOrder /\ WorkDone /\ PlanHolds

LEMMA InitInvariant ==
  ASSUME Init
  PROVE  IInv
  <1>1. /\ ReportFirst[1] = "prepare-workspace" /\ "prepare-workspace" \in Steps
        /\ ToSet(ReportFirst) = Steps
    BY OrdersAre, PreparationIs, StepsAre DEF Steps
  <1>2. /\ status = "active" /\ refinements = <<>> /\ current = "prepare-workspace"
        /\ steps = [x \in Steps |-> IF x = current THEN "active" ELSE "pending"]
        /\ loop = [NoLoop EXCEPT !.pc = "head"] /\ chat = [m \in Messages |-> NoChat]
        /\ restarts = 0 /\ displaced = FALSE
    BY <1>1 DEF Init, RunInit
  <1>3. loop = [pc |-> "head", step |-> NoStep, read |-> {}]
    BY <1>2 DEF NoLoop
  <1>4. Completed = {}
    BY <1>2 DEF Completed
  <1>5. RunSound
    <2>1. chat \in [Messages -> [pc : {"idle", "planned", "answered"},
                                 refinements : Seq(Refinements), done : SUBSET Steps,
                                 current : Steps \cup {NoStep}]]
      BY <1>2 DEF NoChat
    <2>2. restarts \in 0..MaxRestarts
      BY <1>2, ResearchAssumption
    <2>3. loop \in [pc : {"off", "head", "chosen", "begun", "working", "saved", "failing"},
                    step : Steps \cup {NoStep}, read : SUBSET Seq(Refinements)]
      BY <1>3
    <2>4. steps \in [Steps -> {"pending", "active", "paused", "completed", "blocked"}]
      BY <1>2
    <2>5. /\ status \in {"active", "paused", "completed", "failed"} /\ displaced \in BOOLEAN
          /\ current \in Steps \cup {NoStep}
      BY <1>1, <1>2, Zenon
    <2>6. refinements \in Seq(Refinements)
      BY <1>2
    <2> QED
      BY <2>1, <2>2, <2>3, <2>4, <2>5, <2>6 DEF RunSound, RunTypeOK
  <1>6. /\ plan \in Plans /\ maxPages \in PageLimits /\ raw = <<>> /\ research = NoResearch
        /\ draft = NoDraft /\ artifacts = <<>>
    BY DEF Init
  <1>7. WorkTyped
    <2>1. research \in Researches(raw)
      BY <1>6, NoResearchType
    <2>2. PlanTyped
      BY <1>6, ResearchAssumption DEF PlanTyped
    <2> QED
      BY <1>6, <2>1, <2>2 DEF WorkTyped, NoDraft, Languages
  <1>8. FoundTells
    <2>1. research.selected = <<>> /\ research.evidence = <<>> /\ research.pages = {}
      BY <1>6, NoResearchType
    <2>2. maxPages \in Nat
      BY <1>6, ResearchAssumption
    <2> QED
      BY <2>1, <2>2, NothingFound DEF FoundTells, PagesWithinLimit
  <1>9. LoopSound
    BY <1>1, <1>2, <1>3 DEF LoopSound, Finished
  <1>10. InOrder
    BY <1>2, <1>3, <1>4 DEF InOrder
  <1>11. WorkDone
    <2>1. \A x \in Steps : ~Done(x)
      BY <1>3, <1>4 DEF Done
    <2>2. research.evidence = <<>> /\ ~draft.written
      BY <1>6, NoResearchType DEF NoDraft
    <2> QED
      BY <2>1, <2>2, NamedSteps DEF WorkDone, SourcesDone, EvidenceDone, DraftDone, FilesDone
  <1>12. PlanHolds
    <2>1. ToSet(refinements) = {}
      BY <1>2 DEF ToSet
    <2> QED
      BY <1>2, <2>1 DEF PlanHolds, NoChat
  <1> QED
    BY <1>5, <1>7, <1>8, <1>9, <1>10, <1>11, <1>12 DEF IInv

\* A step is the end of a step of the research, or a move of the loop or of the user.
LEMMA NextIs ==
  ASSUME PlanTyped, Next
  PROVE  \/ StepWorks
         \/ /\ Moves /\ UNCHANGED <<maxPages, workVars>> /\ PlanTyped'
            /\ \/ Leaves /\ plan' = plan
               \/ \E m \in Messages : PersistsPlan(m)
  <1>1. CASE StepWorks
    BY <1>1
  <1>2. CASE /\ UNCHANGED <<plan, maxPages, workVars>>
             /\ \/ Chooses(NextStep) \/ Advances \/ StepBegins \/ Completes
                \/ Finishes(NextStep) \/ Fails
                \/ Pauses \/ Resumes \/ Restarts
                \/ \E m \in Messages : RefinesTask(m)
    <2>1. \A m \in Messages : RefinesTask(m) => Refines(m, Told)
      BY DEF RefinesTask
    <2>2. Leaves
      BY <1>2, <2>1 DEF Leaves
    <2>3. Moves
      BY <2>2 DEF Leaves, Moves
    <2>4. PlanTyped'
      BY <1>2 DEF PlanTyped
    <2> QED
      BY <1>2, <2>2, <2>3, <2>4
  <1>3. CASE /\ UNCHANGED <<maxPages, workVars>>
             /\ \E m \in Messages : PersistsPlan(m)
    <2>1. PICK m \in Messages : PersistsPlan(m)
      BY <1>3
    <2>2. Moves
      BY <2>1 DEF PersistsPlan, Moves
    <2>3. PlanTyped'
      BY <2>1 DEF PersistsPlan, PlanTyped, PlanOf
    <2> QED
      BY <1>3, <2>2, <2>3
  <1> QED
    BY <1>1, <1>2, <1>3 DEF Next

LEMMA MovesDisplaced ==
  ASSUME Moves, displaced \in BOOLEAN, displaced
  PROVE  displaced'
  BY DEF Moves, Chooses, Advances, StepBegins, Begins, Completes, Finishes, Fails, Pauses,
         Resumes, Restarts, Refines, Persists

LEMMA StepInvariant ==
  ASSUME IInv, StepWorks
  PROVE  IInv'
  <1>1. Ends /\ plan' = plan
    BY StepWorksEnds DEF StepWorks
  <1>2. RunSound' /\ WorkTyped' /\ FoundTells' /\ LoopSound'
    BY <1>1, EndsType, StepWorksSound, EndsLoop DEF IInv
  <1>3. displaced' = displaced
    BY <1>1 DEF Ends
  <1>4. ASSUME ~displaced
        PROVE  InOrder' /\ WorkDone' /\ PlanHolds'
    BY <1>1, <1>4, EndsOrder, StepWorksDone, EndsPlan DEF IInv
  <1> QED
    BY <1>2, <1>3, <1>4 DEF IInv

LEMMA MoveInvariant ==
  ASSUME IInv, Moves, UNCHANGED <<maxPages, workVars>>, PlanTyped',
         \/ Leaves /\ plan' = plan
         \/ \E m \in Messages : PersistsPlan(m)
  PROVE  IInv'
  <1>1. RunSound' /\ LoopSound'
    BY MovesType, MovesLoop DEF IInv, WorkTyped
  <1>2. WorkTyped' /\ FoundTells'
    BY DEF IInv, WorkTyped, FoundTells, PagesWithinLimit, workVars
  <1>3. ASSUME ~displaced'
        PROVE  InOrder' /\ WorkDone' /\ PlanHolds'
    <2>1. ~displaced /\ PlanTyped
      BY <1>3, MovesDisplaced DEF IInv, RunSound, RunTypeOK, WorkTyped
    <2>2. InOrder /\ WorkDone /\ PlanHolds /\ RunSound /\ LoopSound
      BY <2>1 DEF IInv
    <2>3. InOrder' /\ WorkDone'
      BY <1>3, <2>1, <2>2, MovesOrder, MovesWork
    <2>4. PlanHolds'
      BY <1>3, <2>2, LeavesPlan, PersistsPlanHolds
    <2> QED
      BY <2>3, <2>4
  <1> QED
    BY <1>1, <1>2, <1>3 DEF IInv

LEMMA StutterInvariant ==
  ASSUME IInv, UNCHANGED vars
  PROVE  IInv'
  <1>1. /\ RunSound' /\ LoopSound' /\ WorkTyped' /\ FoundTells' /\ displaced' = displaced
    BY DEF IInv, vars, runVars, taskVars, workVars, RunSound, RunTypeOK, LoopSound,
           Finished, WorkTyped, PlanTyped, FoundTells, PagesWithinLimit
  <1>2. Completed' = Completed
    BY DEF vars, runVars, taskVars, Completed
  <1>3. \A x \in Steps : Done(x)' => Done(x)
    BY <1>2 DEF vars, runVars, Done
  <1>4. InOrder => InOrder'
    BY <1>2 DEF vars, runVars, taskVars, InOrder
  <1>5. PlanHolds => PlanHolds'
    BY <1>2 DEF vars, runVars, taskVars, PlanHolds
  <1>6. WorkDone => WorkDone'
    BY <1>2, <1>3, WorkKept DEF vars, workVars
  <1> QED
    BY <1>1, <1>4, <1>5, <1>6 DEF IInv

\* What the loop, the steps and the user keep, whatever is found and asked for.
THEOREM ResearchInvariant == Spec => []IInv
  <1>1. Init => IInv
    BY InitInvariant
  <1>2. IInv /\ [Next]_vars => IInv'
    <2>1. ASSUME IInv, Next PROVE IInv'
      BY <2>1, NextIs, StepInvariant, MoveInvariant DEF IInv, WorkTyped
    <2> QED
      BY <2>1, StutterInvariant
  <1> QED
    BY <1>1, <1>2, PTL DEF Spec

-----------------------------------------------------------------------------
(* The theorems. *)

\* The record of the research is well formed at every moment: the selected sources
\* come from the results that the search has answered, no page is a source twice, and
\* no more pages are read than the task allows (selectResearchSources and the reading
\* of the pages, packages/task-runtime).
THEOREM SourcesAreSound == Spec => []SourcesSound
  <1>1. IInv => SourcesSound
    <2>1. IInv => TypeOK
      BY TypeOKIs DEF IInv
    <2>2. IInv => SourcesCountOnce
      BY DEF IInv, FoundTells, SourcesTell, SourcesCountOnce
    <2>3. IInv => PagesWithinLimit
      BY DEF IInv, FoundTells
    <2> QED
      BY <2>1, <2>2, <2>3 DEF SourcesSound
  <1> QED
    BY <1>1, ResearchInvariant, PTL

\* What the completed steps have made is there, whatever pauses, refinements and
\* restarts made the loop repeat, as long as no step was counted as completed in
\* passing (the steps of the research runner, and its loop).
THEOREM StandingWork == Spec => []WorkStands
  <1>1. ASSUME IInv, ~displaced
        PROVE  Work
    <2>1. /\ "select-sources" \in Completed => Done("select-sources")
          /\ "extract-evidence" \in Completed => Done("extract-evidence")
          /\ "synthesize-findings" \in Completed => Done("synthesize-findings")
          /\ \A x \in Completed \cap Writes : Done(x)
      BY DEF Done
    <2>2. SourcesDone /\ EvidenceDone /\ DraftDone /\ FilesDone
      BY <1>1 DEF IInv, WorkDone
    <2>3. "select-sources" \in Completed => research.selected # <<>>
      BY <2>1, <2>2 DEF SourcesDone
    <2>4. "extract-evidence" \in Completed =>
            /\ ~research.error
            /\ research.evidence = Evidence(research.selected)
            /\ research.readiness # "insufficient"
      BY <2>1, <2>2 DEF EvidenceDone
    <2>5. /\ "synthesize-findings" \in Completed => draft.written
          /\ draft.written => draft.evidence = research.evidence
      BY <2>1, <2>2 DEF DraftDone
    <2>6. Completed \cap Writes \subseteq ToSet(artifacts)
      BY <2>1, <2>2 DEF FilesDone
    <2> QED
      BY <2>3, <2>4, <2>5, <2>6 DEF Work
  <1>2. IInv => WorkStands
    BY <1>1 DEF WorkStands
  <1> QED
    BY <1>2, ResearchInvariant, PTL

\* A report that was written rests on evidence that was found enough.
LEMMA WrittenIsReady ==
  ASSUME IInv, ~displaced, draft.written
  PROVE  /\ research.selected \in Seq(Sources(Len(raw)))
         /\ research.evidence = Evidence(research.selected)
         /\ Readiness(research.selected, Evidence(research.selected)) # "insufficient"
         /\ \A k \in DOMAIN research.selected :
              /\ research.selected[k].level = "page_read" \/ research.selected[k].fetched = "ok"
                   => research.selected[k].excerpt
              /\ Basis(research.selected[k]) = "snippet"
                   => research.selected[k].level = "snippet_only"
  <1>1. SourcesTell(research.selected, raw)
    BY DEF IInv, FoundTells
  <1>2. Done("extract-evidence")
    BY DEF IInv, WorkDone, DraftDone, Done
  <1>3. /\ research.evidence = Evidence(research.selected)
        /\ research.readiness # "insufficient"
        /\ research.readiness = Readiness(research.selected, research.evidence)
        /\ \A k \in DOMAIN research.evidence :
             research.evidence[k].basis = "snippet" => research.selected[k].level = "snippet_only"
    BY <1>2 DEF IInv, WorkDone, EvidenceDone
  <1>4. research.selected \in Seq(Sources(Len(raw)))
    BY <1>1 DEF SourcesTell
  <1>5. /\ DOMAIN Evidence(research.selected) = DOMAIN research.selected
        /\ \A k \in DOMAIN research.selected :
             Evidence(research.selected)[k].basis = Basis(research.selected[k])
    BY <1>4, EvidenceIs
  <1>6. \A k \in DOMAIN research.selected :
          Basis(research.selected[k]) = "snippet" => research.selected[k].level = "snippet_only"
    BY <1>3, <1>5, Zenon
  <1>7. \A k \in DOMAIN research.selected :
          research.selected[k].level = "page_read" \/ research.selected[k].fetched = "ok"
            => research.selected[k].excerpt
    BY <1>1 DEF SourcesTell
  <1>8. Readiness(research.selected, Evidence(research.selected)) # "insufficient"
    BY <1>3, Zenon
  <1> QED
    BY <1>3, <1>4, <1>6, <1>7, <1>8

\* A report is only made when a page about the question was read in usable quality, or
\* two sources about it have some text (determineReportReadiness, and the step that
\* fails the task when it says `insufficient`).
THEOREM BasisOfReport == Spec => []ReportHasBasis
  <1>1. IInv => ReportHasBasis
    BY WrittenIsReady, ReadyHasBasis DEF ReportHasBasis
  <1> QED
    BY <1>1, ResearchInvariant, PTL

\* What the evidence is called is what it is worth: a tangential source is never
\* support, a snippet never strong or medium, and a report that need not admit limits
\* has a directly relevant page that was read well and more read than only quoted
\* (deriveEvidenceStrength, summarizeResearchQuality).
THEOREM GradesEarned == Spec => []GradesAreEarned
  <1>1. IInv => WeakStaysWeak
    <2>1. SUFFICES ASSUME IInv, NEW k \in DOMAIN research.evidence
          PROVE  /\ research.selected[k].relevance = "tangential" =>
                      /\ research.evidence[k].use = "discarded"
                      /\ ~displaced /\ research.evidence[k].basis # "none" =>
                           research.selected[k].use = "discarded"
                 /\ research.evidence[k].basis = "snippet" =>
                      research.evidence[k].strength \notin {"strong", "medium"}
      BY DEF WeakStaysWeak
    <2>2. /\ research.selected[k].relevance = "tangential" => research.evidence[k].use = "discarded"
          /\ research.evidence[k].basis = "snippet" =>
               research.evidence[k].strength \notin {"strong", "medium"}
      BY <2>1 DEF IInv, FoundTells, EvidenceTells
    <2>3. ASSUME ~displaced, research.selected[k].relevance = "tangential",
                 research.evidence[k].basis # "none"
          PROVE  research.selected[k].use = "discarded"
      <3>1. EvidenceDone
        BY <2>1, <2>3 DEF IInv, WorkDone
      <3>2. research.evidence # <<>>
        BY <2>1
      <3> QED
        BY <2>1, <2>3, <3>1, <3>2 DEF EvidenceDone
    <2> QED
      BY <2>2, <2>3
  <1>2. IInv => ConfidenceIsEarned
    <2>1. SUFFICES ASSUME IInv, ~displaced, draft.written,
                          ~LimitationsRequired(research.selected, research.evidence)
          PROVE  LET read == {k \in DOMAIN research.selected :
                                research.selected[k].fetched = "ok" \/ research.selected[k].excerpt}
                     used == {k \in DOMAIN research.selected : Basis(research.selected[k]) # "none"}
                 IN  /\ 2 * Cardinality(read) > Cardinality(used)
                     /\ \E k \in read : /\ research.selected[k].relevance = "direct"
                                        /\ research.selected[k].quality = "high"
      BY DEF ConfidenceIsEarned
    <2>2. ~LimitationsRequired(research.selected, Evidence(research.selected))
      BY <2>1, WrittenIsReady, Zenon
    <2> QED
      BY <2>1, <2>2, WrittenIsReady, UnlimitedIsEarned
  <1> QED
    BY <1>1, <1>2, ResearchInvariant, PTL DEF GradesAreEarned

\* Once the summary was asked for first, the loop does not pick the report before the
\* summary is there: a plan that puts the report first was saved before that, or when
\* one of the two was written (reorderResearchSteps and selectNextResearchStep).
THEOREM SummaryIsFirst == Spec => SummaryFirstHeld
  <1>1. ASSUME IInv, Next, ~displaced, loop.pc = "head", loop'.step = "write-report",
               Output.summaryFirst \in ToSet(refinements)
        PROVE  "write-summary" \in Completed
    <2>1. /\ PlanTyped /\ LoopSound /\ PlanHolds /\ RunSound
      BY <1>1 DEF IInv, WorkTyped
    <2>2. loop.step = NoStep /\ NoStep # "write-report"
      BY <1>1, <2>1 DEF LoopSound, NoStep
    <2>3. ~StepWorks
      BY <1>1, StepWorksEnds DEF Ends
    <2>4. Moves
      BY <1>1, <2>1, <2>3, NextIs
    <2>5. Chooses(NextStep)
      BY <1>1, <2>2, <2>4 DEF Moves, Advances, StepBegins, Begins, Completes, Finishes, Fails,
         Pauses, Resumes, Restarts, Refines, Persists, NoLoop
    <2>6. NextStep = "write-report"
      BY <1>1, <2>5 DEF Chooses, NoLoop
    <2> QED
      BY <1>1, <2>1, <2>6, NextStepIs DEF PlanTyped, PlanHolds
  <1>2. IInv /\ [Next]_vars =>
          [/\ ~displaced /\ loop.pc = "head" /\ loop'.step = "write-report"
           /\ Output.summaryFirst \in ToSet(refinements)
           => "write-summary" \in Completed]_vars
    BY <1>1
  <1> QED
    BY <1>2, ResearchInvariant, PTL DEF Spec, SummaryFirstHeld

\* A completed task has its report, its summary and both audits, as long as no step
\* was counted as completed in passing (completeTask at the end of the loop).
THEOREM CompletedWork == Spec => [](~displaced => CompletedIsWritten)
  <1>1. ASSUME IInv, ~displaced, status = "completed"
        PROVE  draft.written /\ Writes \subseteq ToSet(artifacts)
    <2>1. Completed = Steps /\ WorkDone
      BY <1>1 DEF IInv, InOrder
    <2>2. Done("synthesize-findings") /\ \A x \in Writes : Done(x)
      BY <2>1, NamedSteps DEF Done
    <2> QED
      BY <2>1, <2>2 DEF WorkDone, DraftDone, FilesDone
  <1>2. IInv => (~displaced => CompletedIsWritten)
    BY <1>1 DEF CompletedIsWritten
  <1> QED
    BY <1>2, ResearchInvariant, PTL

=============================================================================
