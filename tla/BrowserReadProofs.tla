-------------------------- MODULE BrowserReadProofs --------------------------
(* Machine-checked proofs about a browser reading task, for any web, any     *)
(* messages of the user and any limits: its record is of one page, its log   *)
(* is complete, safe and bounded, and a completed task has read its page.    *)
EXTENDS BrowserRead, TLAPS, FiniteSetTheorems, WellFoundedInduction, SequenceTheorems

-----------------------------------------------------------------------------
(* Positions. *)

\* A set of naturals has a smallest element.
LEMMA NatMin ==
  ASSUME NEW S \in SUBSET Nat, S # {}
  PROVE  \E i \in S : \A j \in S : i <= j
  <1> DEFINE R == {ss \in Nat \X Nat : ss[1] < ss[2]}
  <1>1. IsWellFoundedOn(R, Nat)
    BY NatLessThanWellFounded DEF OpToRel
  <1>2. \A i, j \in Nat : <<j, i>> \in R <=> j < i
    OBVIOUS
  <1> HIDE DEF R
  <1>3. PICK i \in S : \A j \in S : ~(<<j, i>> \in R)
    BY <1>1, WFMin
  <1>4. ASSUME NEW j \in S PROVE i <= j
    <2>1. i \in Nat /\ j \in Nat /\ ~(<<j, i>> \in R)
      BY <1>3
    <2>2. ~(j < i)
      BY <1>2, <2>1
    <2> QED
      BY <2>1, <2>2
  <1> QED
    BY <1>4

\* A set of positions has a last one.
LEMMA LastPosition ==
  ASSUME NEW n \in Nat, NEW S \in SUBSET (1..n), S # {}
  PROVE  \E i \in S : \A j \in S : j <= i
  <1> DEFINE T == {n - i : i \in S}
  <1>1. T \in SUBSET Nat /\ T # {}
    <2>1. \A i \in S : n - i \in Nat
      OBVIOUS
    <2> QED
      BY <2>1
  <1>2. PICK t \in T : \A u \in T : t <= u
    BY <1>1, NatMin
  <1>3. PICK i \in S : t = n - i
    OBVIOUS
  <1>4. ASSUME NEW j \in S PROVE j <= i
    <2>1. n - j \in T
      OBVIOUS
    <2>2. n - i <= n - j
      BY <1>2, <1>3, <2>1
    <2> QED
      BY <2>2
  <1> QED
    BY <1>4

Before(S, i) == {j \in S : j < i}

\* The number of positions before one of them, in a set of positions.
LEMMA BeforeType ==
  ASSUME NEW n \in Nat, NEW S \in SUBSET (1..n), NEW i \in S
  PROVE  /\ IsFiniteSet(S) /\ Cardinality(S) \in Nat /\ IsFiniteSet(Before(S, i))
         /\ Cardinality(Before(S, i)) \in 0..Cardinality(S) - 1
  <1>1. IsFiniteSet(1..n)
    BY FS_Interval
  <1>2. IsFiniteSet(S) /\ Cardinality(S) \in Nat
    BY <1>1, FS_Subset, FS_CardinalityType
  <1>3. IsFiniteSet(S \ {i}) /\ Cardinality(S \ {i}) = Cardinality(S) - 1
    BY <1>2, FS_RemoveElement
  <1>4. Before(S, i) \subseteq S \ {i}
    BY DEF Before
  <1>5. IsFiniteSet(Before(S, i)) /\ Cardinality(Before(S, i)) <= Cardinality(S) - 1
    BY <1>3, <1>4, FS_Subset
  <1>6. Cardinality(Before(S, i)) \in Nat
    BY <1>5, FS_CardinalityType
  <1> QED
    BY <1>2, <1>5, <1>6

LEMMA BeforeGrows ==
  ASSUME NEW n \in Nat, NEW S \in SUBSET (1..n), NEW i \in S, NEW k \in S, i < k
  PROVE  Cardinality(Before(S, i)) < Cardinality(Before(S, k))
  <1>1. IsFiniteSet(Before(S, i)) /\ IsFiniteSet(Before(S, k))
    BY BeforeType
  <1>2. i \notin Before(S, i) /\ Before(S, i) \cup {i} \subseteq Before(S, k)
    <2>1. ~(i < i) /\ i < k /\ \A j \in S : j < i => j < k
      <3>1. S \subseteq Int /\ i \in Int /\ k \in Int
        OBVIOUS
      <3> QED
        BY <3>1
    <2> QED
      BY <2>1, Zenon DEF Before
  <1>3. /\ IsFiniteSet(Before(S, i) \cup {i})
        /\ Cardinality(Before(S, i) \cup {i}) = Cardinality(Before(S, i)) + 1
    BY <1>1, <1>2, FS_AddElement
  <1>4. Cardinality(Before(S, i) \cup {i}) <= Cardinality(Before(S, k))
    BY <1>1, <1>2, FS_Subset
  <1>5. Cardinality(Before(S, i)) \in Nat /\ Cardinality(Before(S, k)) \in Nat
    BY <1>1, FS_CardinalityType
  <1> QED
    BY <1>3, <1>4, <1>5

\* A set of positions has an n-th element for every n up to its size.
LEMMA NthType ==
  ASSUME NEW n \in Nat, NEW S \in SUBSET (1..n), NEW k \in 1..Cardinality(S)
  PROVE  Nth(S, k) \in S
  <1> DEFINE size == Cardinality(S)
             place == [i \in S |-> Cardinality(Before(S, i))]
  <1>1. IsFiniteSet(S) /\ size \in Nat
    <2>1. IsFiniteSet(1..n)
      BY FS_Interval
    <2> QED
      BY <2>1, FS_Subset, FS_CardinalityType
  <1> HIDE DEF size
  <1>2. IsFiniteSet(0..size - 1) /\ Cardinality(0..size - 1) = size
    <2>1. 0 \in Int /\ size - 1 \in Int /\ (0 > size - 1 <=> size = 0)
      BY <1>1
    <2> QED
      BY <1>1, <2>1, FS_Interval
  <1>3. place \in [S -> 0..size - 1]
    BY BeforeType DEF size
  <1>4. ASSUME NEW i \in S, NEW j \in S, place[i] = place[j] PROVE i = j
    <2> HIDE DEF place
    <2>1. Cardinality(Before(S, i)) \in Nat /\ Cardinality(Before(S, j)) \in Nat
      BY BeforeType, FS_CardinalityType
    <2>2. Cardinality(Before(S, i)) = Cardinality(Before(S, j))
      BY <1>4 DEF place
    <2>3. ~(i < j)
      <3> SUFFICES ASSUME i < j PROVE FALSE
        OBVIOUS
      <3>1. Cardinality(Before(S, i)) < Cardinality(Before(S, j))
        BY BeforeGrows
      <3> QED
        BY <2>1, <2>2, <3>1
    <2>4. ~(j < i)
      <3> SUFFICES ASSUME j < i PROVE FALSE
        OBVIOUS
      <3>1. Cardinality(Before(S, j)) < Cardinality(Before(S, i))
        BY BeforeGrows
      <3> QED
        BY <2>1, <2>2, <3>1
    <2>5. S \subseteq Int
      OBVIOUS
    <2> QED
      BY <2>3, <2>4, <2>5
  <1>5. place \in Injection(S, 0..size - 1)
    BY <1>3, <1>4 DEF Injection, IsInjective
  <1>6. place \in Surjection(S, 0..size - 1)
    BY <1>1, <1>2, <1>5, FS_Injection DEF size
  <1>7. k - 1 \in 0..size - 1
    BY <1>1 DEF size
  <1>8. \E i \in S : place[i] = k - 1
    BY <1>6, <1>7 DEF Surjection
  <1>9. \E i \in S : Cardinality({j \in S : j < i}) = k - 1
    BY <1>8 DEF Before
  <1> QED
    BY <1>9 DEF Nth

-----------------------------------------------------------------------------
(* The reader. *)

\* A redirect that is followed leads to a URL that may be fetched.
LEMMA HopType ==
  ASSUME NEW web \in Webs, NEW url \in Urls, Allowed(url)
  PROVE  Hop(web, url) \in Urls /\ Allowed(Hop(web, url))
  <1>1. web[url] \in Responses
    BY BrowserAssumption DEF IsWeb
  <1>2. Redirects(web, url) => web[url].to \in Urls
    BY <1>1 DEF Responses, Redirects
  <1> QED
    BY <1>2 DEF Hop

\* What is fetched was asked of a URL, and only of one that may be fetched.
LEMMA FetchType ==
  ASSUME NEW web \in Webs, NEW url \in Urls
  PROVE  LET fetched == FetchWithLimitedRedirects(web, url)
         IN  /\ fetched.url \in Urls
             /\ Outcome(fetched.response) = "read" =>
                  /\ Allowed(fetched.url)
                  /\ fetched.response.words \in SUBSET STRING
                  /\ fetched.response.links \in Seq(Links)
  <1> DEFINE one == Hop(web, url)
             two == Hop(web, one)
             last == Hop(web, two)
             fetched == FetchWithLimitedRedirects(web, url)
  <1>1. CASE ~Allowed(url)
    <2>1. fetched = [url |-> url, response |-> [kind |-> "thrown", error |-> "blocked"]]
      BY <1>1 DEF FetchWithLimitedRedirects, Thrown
    <2> QED
      BY <2>1 DEF Outcome
  <1>2. CASE Allowed(url)
    <2>1. one \in Urls /\ Allowed(one)
      BY <1>2, HopType
    <2>2. two \in Urls /\ Allowed(two)
      BY <2>1, HopType
    <2>3. last \in Urls /\ Allowed(last)
      BY <2>2, HopType
    <2>4. web[last] \in Responses
      BY <2>3, BrowserAssumption DEF IsWeb
    <2> HIDE DEF one, two, last
    <2>5. CASE Redirects(web, last)
      <3>1. PICK error \in {"redirect", "blocked"} :
              fetched = [url |-> url, response |-> [kind |-> "thrown", error |-> error]]
        BY <1>2, <2>5 DEF FetchWithLimitedRedirects, Thrown, one, two, last
      <3> QED
        BY <3>1 DEF Outcome
    <2>6. CASE ~Redirects(web, last)
      <3>1. fetched = [url |-> IF web[last].kind = "answer" THEN last ELSE url,
                       response |-> web[last]]
        BY <1>2, <2>6 DEF FetchWithLimitedRedirects, one, two, last
      <3>2. web[last].kind \in {"thrown", "answer"}
        BY <2>4, <2>6 DEF Responses, Redirects
      <3>3. web[last].kind = "thrown" => Outcome(web[last]) # "read"
        BY <2>4 DEF Outcome, Responses
      <3>4. web[last].kind = "answer" =>
              web[last].words \in SUBSET STRING /\ web[last].links \in Seq(Links)
        BY <2>4 DEF Responses
      <3> QED
        BY <2>3, <3>1, <3>2, <3>3, <3>4
    <2> QED
      BY <2>5, <2>6
  <1> QED
    BY <1>1, <1>2

\* The links that are shown are links of the page.
LEMMA VisibleLinksType ==
  ASSUME NEW response, response.links \in Seq(Links)
  PROVE  VisibleLinks(response, MaxLinks) \in Seq(Links)
  <1> DEFINE links == response.links
             first == FirstOfUrl(links)
             most == AtMost(Cardinality(first), MaxLinks)
  <1>1. Len(links) \in Nat /\ DOMAIN links = 1..Len(links)
    BY LenProperties
  <1>2. first \in SUBSET (1..Len(links))
    BY <1>1 DEF FirstOfUrl
  <1>3. Cardinality(first) \in Nat
    <2>1. IsFiniteSet(1..Len(links))
      BY <1>1, FS_Interval
    <2> QED
      BY <1>2, <2>1, FS_Subset, FS_CardinalityType
  <1>4. most \in Nat /\ most <= Cardinality(first)
    BY <1>3, BrowserAssumption DEF AtMost
  <1>5. ASSUME NEW n \in 1..most PROVE links[Nth(first, n)] \in Links
    <2>1. n \in 1..Cardinality(first)
      BY <1>3, <1>4
    <2>2. Nth(first, n) \in 1..Len(links)
      BY <1>1, <1>2, <2>1, NthType
    <2> QED
      BY <2>2, ElementOfSeq
  <1>6. VisibleLinks(response, MaxLinks) = [n \in 1..most |-> links[Nth(first, n)]]
    BY DEF VisibleLinks
  <1> HIDE DEF links, first, most
  <1>7. [n \in 1..most |-> links[Nth(first, n)]] \in Seq(Links)
    BY <1>4, <1>5, IsASeq
  <1> QED
    BY <1>6, <1>7

\* A page that was read may be fetched.
LEMMA PageSessionType ==
  ASSUME NEW web \in Webs, NEW url \in Urls
  PROVE  /\ PageSession(web, url) \in Sessions
         /\ ~PageSession(web, url).failed => Allowed(PageSession(web, url).url)
  <1> DEFINE fetched == FetchWithLimitedRedirects(web, url)
  <1>1. fetched.url \in Urls
    BY FetchType
  <1>2. CASE Outcome(fetched.response) = "read"
    <2>1. /\ Allowed(fetched.url)
          /\ fetched.response.words \in SUBSET STRING
          /\ fetched.response.links \in Seq(Links)
      BY <1>2, FetchType
    <2>2. VisibleLinks(fetched.response, MaxLinks) \in Seq(Links)
      BY <2>1, VisibleLinksType
    <2>3. PageSession(web, url) = ReadPage(fetched.url, fetched.response)
      BY <1>2 DEF PageSession
    <2> HIDE DEF fetched
    <2> QED
      BY <1>1, <2>1, <2>2, <2>3 DEF ReadPage, Sessions
  <1>3. CASE Outcome(fetched.response) # "read"
    <2>1. PageSession(web, url) = Unread(fetched.url)
      BY <1>3 DEF PageSession
    <2>2. <<>> \in Seq(Links)
      OBVIOUS
    <2> HIDE DEF fetched
    <2> QED
      BY <1>1, <2>1, <2>2 DEF Unread, Sessions
  <1> QED
    BY <1>2, <1>3

-----------------------------------------------------------------------------
(* What the user asks for. *)

\* A message asks for one thing at most.
LEMMA RefinementFinite ==
  ASSUME NEW m \in Messages
  PROVE  IsFiniteSet(Refinement[m])
  <1> DEFINE c == Classify(m, BrowserTask)
  <1>1. /\ \A kind : Only(kind).refinement = {}
        /\ \A kind, x : Understood(kind, x).refinement = {x}
    BY DEF Only, Understood
  <1>2. \E x : ClassifyBrowserRefinement(m) \in
          {Only("none"), Understood("task_goal_refinement", x)}
    BY DEF ClassifyBrowserRefinement
  <1>3. \E x : ClassifyGoalRefinement(m) \in
          {Only("task_clarification_needed"), Only("independent_query"),
           Understood("task_goal_refinement", x)}
    BY DEF ClassifyGoalRefinement
  <1>4. c \in {Only("task_status_query"), Only("task_pause"), Only("task_resume"),
               Only("task_cancel"), ClassifyBrowserRefinement(m),
               Understood("task_output_refinement", Output[m.says]),
               ClassifyGoalRefinement(m)}
    BY DEF Classify
  <1> HIDE DEF c
  <1>5. c.refinement = {} \/ \E x : c.refinement = {x}
    BY <1>1, <1>2, <1>3, <1>4
  <1>6. Refinement[m] \subseteq c.refinement
    BY DEF Refinement, c
  <1>7. IsFiniteSet(c.refinement)
    <2>1. CASE c.refinement = {}
      BY <2>1, FS_EmptySet
    <2>2. CASE \E x : c.refinement = {x}
      BY <2>2, FS_Singleton
    <2> QED
      BY <1>5, <2>1, <2>2
  <1> QED
    BY <1>6, <1>7, FS_Subset

LEMMA ListedType ==
  ASSUME NEW m \in Messages
  PROVE  SetToSeq(Refinement[m]) \in Seq(Refinements)
  <1> DEFINE S == Refinement[m]
             n == Cardinality(S)
  <1>1. n \in Nat /\ ExistsBijection(1..n, S)
    BY RefinementFinite, FS_CardinalityType
  <1> HIDE DEF n
  <1>2. PICK f \in [1..n -> S] : IsInjective(f)
    BY <1>1 DEF ExistsBijection, Bijection, Injection
  <1>3. SetToSeq(S) \in [1..n -> S]
    BY <1>2 DEF SetToSeq, n
  <1>4. S \subseteq Refinements
    BY DEF Refinements
  <1> HIDE DEF S
  <1> QED
    BY <1>1, <1>3, <1>4 DEF S

\* What was asked for last was asked for, if anything was.
LEMMA LatestType ==
  ASSUME NEW asked \in Seq(Refinements), NEW type
  PROVE  Latest(asked, type) \in {NoWord} \cup {r.value : r \in Refinements}
  <1> DEFINE found == {i \in DOMAIN asked : asked[i].type = type}
  <1>1. CASE found = {}
    BY <1>1 DEF Latest
  <1>2. CASE found # {}
    <2>1. Len(asked) \in Nat /\ DOMAIN asked = 1..Len(asked)
      OBVIOUS
    <2>2. \E i \in found : \A j \in found : j <= i
      BY <1>2, <2>1, LastPosition
    <2>3. PICK i \in found : Latest(asked, type) = asked[i].value
      BY <1>2, <2>2 DEF Latest
    <2>4. asked[i] \in Refinements
      BY <2>1, <2>3
    <2> QED
      BY <2>3, <2>4
  <1> QED
    BY <1>1, <1>2

LEMMA FindQueryType ==
  ASSUME NEW asked \in Seq(Refinements)
  PROVE  FindQuery(asked) \in Queries
  BY LatestType DEF FindQuery, Queries

\* The chat puts what was asked for behind what was asked before.
LEMMA AskedType ==
  ASSUME NEW asked \in Seq(Refinements), NEW m \in Messages
  PROVE  asked \o SetToSeq(Refinement[m]) \in Seq(Refinements)
  BY ListedType, ConcatProperties

-----------------------------------------------------------------------------
(* The links. *)

\* A link that is followed does not read like an action.
LEMMA BestLinkSafe ==
  ASSUME NEW links, NEW asked, links.list \in Seq(Links), NEW link \in BestLink(links, asked)
  PROVE  link \in Links /\ "login" \notin link.words
  <1> DEFINE list == links.list
             score == [i \in DOMAIN list |-> ScoreLink(list[i], links.of, asked)]
  <1>1. PICK k \in DOMAIN list : link = list[k] /\ score[k] > 0
    BY DEF BestLink
  <1>2. link \in Links
    BY <1>1
  <1>3. ScoreLink(link, links.of, asked) > 0
    BY <1>1
  <1>4. ClassifyLinkSafety(link) = "safe"
    <2> SUFFICES ASSUME ClassifyLinkSafety(link) # "safe" PROVE FALSE
      OBVIOUS
    <2>1. ScoreLink(link, links.of, asked) = -100
      BY DEF ScoreLink
    <2> QED
      BY <1>3, <2>1
  <1> QED
    BY <1>2, <1>4 DEF ClassifyLinkSafety

-----------------------------------------------------------------------------
(* The order of the steps. *)

Earlier(x) ==
  {y \in Steps : \E i, j \in DOMAIN StepOrder : i < j /\ StepOrder[i] = y /\ StepOrder[j] = x}

LEMMA StepOrderIs ==
  /\ DOMAIN StepOrder = 1..8
  /\ StepOrder[1] = "prepare-workspace" /\ StepOrder[2] = "open-page"
  /\ StepOrder[3] = "extract-page" /\ StepOrder[4] = "follow-links"
  /\ StepOrder[5] = "extract-findings" /\ StepOrder[6] = "write-browser-notes"
  /\ StepOrder[7] = "write-browser-snapshot" /\ StepOrder[8] = "write-navigation-log"
  BY DEF StepOrder

LEMMA StepsAre ==
  /\ Steps = {"prepare-workspace", "open-page", "extract-page", "follow-links",
              "extract-findings"} \cup Writes
  /\ NoStep \notin Steps /\ Writes \subseteq Steps
  <1>1. Steps = {StepOrder[i] : i \in 1..8}
    BY StepOrderIs DEF Steps, ToSet
  <1>2. \A i \in 1..8 : i = 1 \/ i = 2 \/ i = 3 \/ i = 4 \/ i = 5 \/ i = 6 \/ i = 7 \/ i = 8
    OBVIOUS
  <1> QED
    BY <1>1, <1>2, StepOrderIs DEF Writes, NoStep

LEMMA EarlierIsOrder ==
  ASSUME NEW x \in Steps, NEW y \in Steps
  PROVE  /\ x \notin Earlier(x)
         /\ x # y => x \in Earlier(y) \/ y \in Earlier(x)
         /\ ~(x \in Earlier(y) /\ y \in Earlier(x))
         /\ x \in Earlier(y) => Earlier(x) \subseteq Earlier(y)
  <1>1. \A i, j \in 1..8 : StepOrder[i] = StepOrder[j] => i = j
    <2>1. \A i \in 1..8 : i = 1 \/ i = 2 \/ i = 3 \/ i = 4 \/ i = 5 \/ i = 6 \/ i = 7 \/ i = 8
      OBVIOUS
    <2> QED
      BY <2>1, StepOrderIs
  <1>2. \A z \in Steps : \E i \in 1..8 : StepOrder[i] = z
    BY StepOrderIs DEF Steps, ToSet
  <1>3. PICK i, j \in 1..8 : StepOrder[i] = x /\ StepOrder[j] = y
    BY <1>2
  <1>4. /\ Earlier(x) = {z \in Steps : \E k \in 1..8 : k < i /\ StepOrder[k] = z}
        /\ Earlier(y) = {z \in Steps : \E k \in 1..8 : k < j /\ StepOrder[k] = z}
    BY <1>1, <1>3, StepOrderIs DEF Earlier
  <1>5. (x \in Earlier(x) <=> i < i) /\ (x \in Earlier(y) <=> i < j) /\ (y \in Earlier(x) <=> j < i)
    BY <1>1, <1>3, <1>4
  <1>6. x = y <=> i = j
    BY <1>1, <1>3
  <1>7. i < j => Earlier(x) \subseteq Earlier(y)
    <2>1. \A k \in 1..8 : k < i /\ i < j => k < j
      OBVIOUS
    <2> QED
      BY <1>4, <2>1
  <1> QED
    BY <1>5, <1>6, <1>7

LEMMA EarlierAre ==
  /\ "open-page" \in Earlier("extract-page")
  /\ "extract-page" \in Earlier("follow-links")
  /\ "follow-links" \in Earlier("extract-findings")
  /\ \A x \in Writes : "extract-findings" \in Earlier(x)
  <1>1. 2 < 3 /\ 3 < 4 /\ 4 < 5 /\ 5 < 6 /\ 5 < 7 /\ 5 < 8
    OBVIOUS
  <1>2. {2, 3, 4, 5, 6, 7, 8} \subseteq DOMAIN StepOrder
    BY StepOrderIs
  <1> QED
    BY <1>1, <1>2, StepOrderIs, StepsAre DEF Earlier, Writes

\* The loop takes up the first of the steps that are left, if any is.
LEMMA NextStepIs ==
  /\ NextStep = NoStep => Steps \subseteq Completed
  /\ NextStep # NoStep => /\ NextStep \in Steps \ Completed
                          /\ Earlier(NextStep) \subseteq Completed
  <1> DEFINE left == {i \in DOMAIN StepOrder : StepOrder[i] \notin Completed}
  <1>1. DOMAIN StepOrder = 1..8
    BY StepOrderIs
  <1>2. CASE left = {}
    <2>1. NextStep = NoStep
      BY <1>2 DEF NextStep, FirstLeft
    <2> QED
      BY <1>2, <2>1 DEF Steps, ToSet
  <1>3. CASE left # {}
    <2>1. left \in SUBSET Nat
      BY <1>1
    <2>2. \E i \in left : \A j \in left : i <= j
      BY <1>3, <2>1, NatMin
    <2>3. PICK i \in left : NextStep = StepOrder[i] /\ \A j \in left : i <= j
      BY <1>3, <2>2 DEF NextStep, FirstLeft
    <2>4. NextStep \in Steps \ Completed
      BY <2>3 DEF Steps, ToSet
    <2>5. ASSUME NEW y \in Earlier(NextStep) PROVE y \in Completed
      <3>1. PICK k \in 1..8 : k < i /\ StepOrder[k] = y
        <4>1. PICK k, j \in 1..8 : k < j /\ StepOrder[k] = y /\ StepOrder[j] = StepOrder[i]
          BY <1>1, <2>3 DEF Earlier
        <4>2. j = i
          <5>1. \A n \in 1..8 : n = 1 \/ n = 2 \/ n = 3 \/ n = 4 \/ n = 5 \/ n = 6 \/ n = 7 \/ n = 8
            OBVIOUS
          <5>2. i \in 1..8
            BY <1>1
          <5> QED
            BY <4>1, <5>1, <5>2, StepOrderIs
        <4> QED
          BY <4>1, <4>2
      <3>2. i \in 1..8 /\ ~(i <= k)
        BY <1>1, <3>1
      <3>3. k \notin left
        BY <2>3, <3>2
      <3> QED
        BY <1>1, <3>1, <3>3
    <2> QED
      BY <2>4, <2>5, StepsAre
  <1> QED
    BY <1>2, <1>3

-----------------------------------------------------------------------------
(* The task and its loop. *)

Copies == [browser : Browsers, refinements : Seq(Refinements)]
RunSound == RunTypeOK(Steps, Copies)

\* The moves of the loop and of the user, who leave what the steps have made.
Moves ==
  \/ Chooses(NextStep) \/ Advances \/ StepBegins \/ Completes
  \/ Finishes(NextStep) \/ Fails
  \/ Pauses \/ Resumes \/ Restarts
  \/ \E m \in Messages : Refines(m, {}) \/ Persists(m)

\* The end of a step, whatever it has done.
Ends ==
  /\ loop.pc = "working"
  /\ Goes("saved") \/ Goes("failing")
  /\ UNCHANGED steps \/ Saves
  /\ UNCHANGED <<status, current, chat, restarts, displaced>>

LEMMA StepWorksEnds ==
  ASSUME RunSound, StepWorks
  PROVE  /\ Ends
         /\ UNCHANGED refinements \/ \E copy \in loop.read : refinements' = copy.refinements
  <1>1. CASE PreparesWorkspace
    BY <1>1 DEF PreparesWorkspace, Working, Returns, Leaves, Ends
  <1>2. CASE OpensPage
    BY <1>2 DEF OpensPage, Working, Returns, Throws, Leaves, Merges, EndsOpen, Ends
  <1>3. CASE ExtractsPage
    BY <1>3 DEF ExtractsPage, Working, Returns, Throws, Leaves, Merges, Ends
  <1>4. CASE FollowsLinks
    BY <1>4 DEF FollowsLinks, Follows, Working, Returns, Throws, Leaves, Merges, Ends
  <1>5. CASE ExtractsFindings
    BY <1>5 DEF ExtractsFindings, Working, Returns, Merges, Ends
  <1>6. CASE WritesFile
    BY <1>6 DEF WritesFile, Returns, Throws, Leaves, Ends
  <1> QED
    BY <1>1, <1>2, <1>3, <1>4, <1>5, <1>6, StepWorks DEF StepWorks

\* The statuses of the steps stay statuses of the steps.
LEMMA StepsType ==
  ASSUME RunSound, NEW step
  PROVE  LET F == [Steps -> {"pending", "active", "paused", "completed", "blocked"}]
         IN  /\ Displacing(step) \in F /\ Held \in F /\ Rewritten(step) \in F
             /\ Saves => steps' \in F
  BY DEF RunSound, RunTypeOK, Displacing, Held, Rewritten, Saves

LEMMA EndsType ==
  ASSUME RunSound, Ends,
         UNCHANGED refinements \/ \E copy \in loop.read : refinements' = copy.refinements
  PROVE  RunSound'
  <1>1. steps' \in [Steps -> {"pending", "active", "paused", "completed", "blocked"}]
    BY StepsType DEF Ends, RunSound, RunTypeOK
  <1>2. refinements' \in Seq(Refinements)
    BY DEF RunSound, RunTypeOK, Copies
  <1>3. loop' \in [pc : {"off", "head", "chosen", "begun", "working", "saved", "failing"},
                   step : Steps \cup {NoStep}, read : SUBSET Copies]
    BY DEF Ends, Goes, RunSound, RunTypeOK
  <1> QED
    BY <1>1, <1>2, <1>3 DEF Ends, RunSound, RunTypeOK

LEMMA MovesType ==
  ASSUME RunSound, browser \in Browsers, Moves
  PROVE  RunSound'
  <1> USE DEF RunSound, RunTypeOK
  <1>1. CASE Chooses(NextStep)
    BY <1>1, NextStepIs DEF Chooses, NoLoop, taskVars
  <1>2. CASE Advances
    BY <1>2, StepsType DEF Advances, Goes
  <1>3. CASE StepBegins
    <2>1. [browser |-> browser, refinements |-> refinements] \in Copies
      BY DEF Copies
    <2> QED
      BY <1>3, <2>1 DEF StepBegins, Begins, taskVars
  <1>4. CASE Completes
    BY <1>4 DEF Completes, NoLoop
  <1>5. CASE Finishes(NextStep)
    BY <1>5 DEF Finishes, NoLoop
  <1>6. CASE Fails
    BY <1>6 DEF Fails, NoLoop
  <1>7. CASE Pauses
    BY <1>7, StepsType DEF Pauses
  <1>8. CASE Resumes
    BY <1>8 DEF Resumes, NoLoop
  <1>9. CASE Restarts
    <2>1. chat' \in [Messages -> [pc : {"idle", "planned", "answered"},
                                 refinements : Seq(Refinements), done : SUBSET Steps,
                                 current : Steps \cup {NoStep}]]
      <3>1. <<>> \in Seq(Refinements)
        OBVIOUS
      <3> QED
        BY <1>9, <3>1 DEF Restarts, NoChat, Answered
    <2>2. restarts' \in 0..MaxRestarts
      BY <1>9, BrowserAssumption DEF Restarts
    <2>3. steps' \in [Steps -> {"pending", "active", "paused", "completed", "blocked"}]
      BY <1>9, StepsType DEF Restarts
    <2> QED
      BY <1>9, <2>1, <2>2, <2>3 DEF Restarts, NoLoop
  <1>10. ASSUME NEW m \in Messages, Refines(m, {}) PROVE RunSound'
    <2>1. refinements \o SetToSeq(Refinement[m]) \in Seq(Refinements)
      BY AskedType
    <2> DEFINE planned == [pc |-> "planned",
                           refinements |-> refinements \o SetToSeq(Refinement[m]),
                           done |-> Completed \cap {}, current |-> current]
    <2>2. planned \in [pc : {"idle", "planned", "answered"}, refinements : Seq(Refinements),
                       done : SUBSET Steps, current : Steps \cup {NoStep}]
      BY <2>1
    <2>3. chat' = [chat EXCEPT ![m] = planned]
      BY <1>10 DEF Refines
    <2> HIDE DEF planned
    <2> QED
      BY <1>10, <2>2, <2>3 DEF Refines, taskVars
  <1>11. ASSUME NEW m \in Messages, Persists(m) PROVE RunSound'
    <2>1. <<>> \in Seq(Refinements)
      OBVIOUS
    <2>2. Answered \in [pc : {"idle", "planned", "answered"}, refinements : Seq(Refinements),
                        done : SUBSET Steps, current : Steps \cup {NoStep}]
      BY <2>1 DEF Answered, NoChat
    <2>3. chat' = [chat EXCEPT ![m] = Answered]
      BY <1>11 DEF Persists
    <2>4. chat[m] \in [pc : {"idle", "planned", "answered"}, refinements : Seq(Refinements),
                       done : SUBSET Steps, current : Steps \cup {NoStep}]
      OBVIOUS
    <2>5. Rewritten(chat[m].current) \in
            [Steps -> {"pending", "active", "paused", "completed", "blocked"}]
      BY StepsType
    <2>6. displaced' \in BOOLEAN /\ current' \in Steps \cup {NoStep}
      BY <1>11, <2>4 DEF Persists
    <2> QED
      BY <1>11, <2>2, <2>3, <2>4, <2>5, <2>6 DEF Persists
  <1> QED
    BY <1>1, <1>2, <1>3, <1>4, <1>5, <1>6, <1>7, <1>8, <1>9, <1>10, <1>11 DEF Moves

\* A task that is over has no loop, and the current step is not completed.
LoopSound ==
  /\ Finished => loop.pc = "off"
  /\ loop.pc \notin {"off", "head"} => loop.step \in Steps
  /\ current # NoStep => steps[current] # "completed"

\* As long as no step is counted as completed in passing, the steps are completed
\* in their order, and the one that the loop is at is the current one.
InOrder ==
  /\ loop.pc \in {"off", "head"} => \A x \in Completed : Earlier(x) \subseteq Completed
  /\ loop.pc \notin {"off", "head"} => Completed = Earlier(loop.step)
  /\ loop.pc \in {"begun", "working", "saved", "failing"} => current = loop.step
  /\ status = "completed" => Completed = Steps

Done(step) == step \in Completed \/ (loop.step = step /\ loop.pc = "saved")

LEMMA EndsLoop ==
  ASSUME RunSound, LoopSound, Ends
  PROVE  LoopSound' /\ Completed' = Completed
  <1>1. loop'.step = loop.step /\ loop'.pc \in {"saved", "failing"}
    BY DEF Ends, Goes, RunSound, RunTypeOK
  <1>2. status' = status /\ current' = current /\ loop.pc = "working"
    BY DEF Ends
  <1>3. /\ DOMAIN steps' = DOMAIN steps
        /\ \A x \in DOMAIN steps : steps'[x] = "completed" <=> steps[x] = "completed"
    <2>1. CASE UNCHANGED steps
      BY <2>1
    <2>2. CASE Saves
      BY <2>2, StepsAre DEF Saves, RunSound, RunTypeOK, LoopSound
    <2> QED
      BY <2>1, <2>2 DEF Ends
  <1>4. Completed' = Completed
    BY <1>3 DEF Completed
  <1>5. current # NoStep => steps'[current] # "completed"
    BY <1>3 DEF LoopSound, RunSound, RunTypeOK
  <1> QED
    BY <1>1, <1>2, <1>4, <1>5 DEF LoopSound, Finished

LEMMA EndsOrder ==
  ASSUME RunSound, LoopSound, InOrder, Ends
  PROVE  InOrder'
  <1>1. Completed' = Completed
    BY EndsLoop
  <1>2. loop'.step = loop.step /\ loop'.pc \in {"saved", "failing"}
    BY DEF Ends, Goes, RunSound, RunTypeOK
  <1>3. status' = status /\ current' = current /\ loop.pc = "working"
    BY DEF Ends
  <1> QED
    BY <1>1, <1>2, <1>3 DEF InOrder

LEMMA MovesLoop ==
  ASSUME RunSound, LoopSound, Moves
  PROVE  LoopSound'
  <1> USE DEF RunSound, RunTypeOK, LoopSound
  <1>1. CASE Chooses(NextStep)
    BY <1>1, NextStepIs DEF Chooses, NoLoop, taskVars, Finished
  <1>2. CASE Advances
    BY <1>2 DEF Advances, Goes, Displacing, Finished
  <1>3. CASE StepBegins
    BY <1>3 DEF StepBegins, Begins, taskVars, Finished
  <1>4. CASE Completes
    BY <1>4 DEF Completes, NoLoop, Finished
  <1>5. CASE Finishes(NextStep)
    BY <1>5 DEF Finishes, NoLoop
  <1>6. CASE Fails
    BY <1>6 DEF Fails, NoLoop
  <1>7. CASE Pauses
    BY <1>7 DEF Pauses, Held, Finished
  <1>8. CASE Resumes
    BY <1>8 DEF Resumes, NoLoop, Finished
  <1>9. CASE Restarts
    BY <1>9 DEF Restarts, NoLoop, Held
  <1>10. ASSUME NEW m \in Messages, Refines(m, {}) PROVE LoopSound'
    BY <1>10 DEF Refines, taskVars, Finished
  <1>11. ASSUME NEW m \in Messages, Persists(m) PROVE LoopSound'
    BY <1>11 DEF Persists, Rewritten, Finished
  <1> QED
    BY <1>1, <1>2, <1>3, <1>4, <1>5, <1>6, <1>7, <1>8, <1>9, <1>10, <1>11 DEF Moves

\* A step is not counted as completed before the loop completes it.
LEMMA MovesCompleted ==
  ASSUME RunSound, LoopSound, InOrder, Moves, ~displaced'
  PROVE  /\ ~displaced
         /\ ~Completes => Completed' = Completed
         /\ Completes => Completed' = Completed \cup {loop.step}
  <1> USE DEF RunSound, RunTypeOK, LoopSound
  <1>1. CASE Chooses(NextStep)
    BY <1>1 DEF Chooses, Completes, taskVars, Completed
  <1>2. CASE Advances
    <2>1. loop.step \in Steps /\ Completed = Earlier(loop.step)
      BY <1>2 DEF Advances, InOrder
    <2>2. steps[loop.step] # "completed"
      BY <2>1, EarlierIsOrder DEF Completed
    <2>3. current \in {NoStep, loop.step}
      BY <1>2 DEF Advances, Completed
    <2> QED
      BY <1>2, <2>2, <2>3, StepsAre DEF Advances, Displacing, Completes, Completed
  <1>3. CASE StepBegins
    BY <1>3 DEF StepBegins, Begins, taskVars, Completes, Completed
  <1>4. CASE Completes
    <2>1. current = loop.step /\ loop.step \in Steps
      BY <1>4 DEF Completes, InOrder
    <2> QED
      BY <1>4, <2>1 DEF Completes, Completed
  <1>5. CASE Finishes(NextStep)
    BY <1>5 DEF Finishes, Completes, Completed
  <1>6. CASE Fails
    BY <1>6 DEF Fails, Completes, Completed
  <1>7. CASE Pauses
    BY <1>7 DEF Pauses, Held, Completes, Completed
  <1>8. CASE Resumes
    BY <1>8 DEF Resumes, Completes, Completed
  <1>9. CASE Restarts
    BY <1>9 DEF Restarts, Held, Completes, Completed
  <1>10. ASSUME NEW m \in Messages, Refines(m, {})
         PROVE  ~displaced /\ ~Completes /\ Completed' = Completed
    <2>1. UNCHANGED <<steps, displaced>>
      BY <1>10 DEF Refines, taskVars
    <2> QED
      BY <1>10, <2>1 DEF Refines, Completes, Completed, taskVars, NoLoop
  <1>11. ASSUME NEW m \in Messages, Persists(m)
         PROVE  ~displaced /\ ~Completes /\ Completed' = Completed
    <2>1. ~Completes
      BY <1>11 DEF Persists, Completes, NoLoop
    <2>2. CASE Finished
      BY <1>11, <2>1, <2>2 DEF Persists, Completed
    <2>3. CASE ~Finished
      <3>1. ~displaced /\ steps' = Rewritten(chat[m].current)
        BY <1>11, <2>3 DEF Persists
      <3>2. chat[m].current \in {NoStep, current}
        BY <1>11, <2>3 DEF Persists
      <3>3. \A x \in Steps : Rewritten(chat[m].current)[x] = "completed" <=> steps[x] = "completed"
        BY <3>2 DEF Rewritten
      <3>4. DOMAIN steps = Steps /\ DOMAIN Rewritten(chat[m].current) = Steps
        BY DEF Rewritten
      <3> QED
        BY <2>1, <3>1, <3>3, <3>4 DEF Completed
    <2> QED
      BY <2>2, <2>3
  <1> QED
    BY <1>1, <1>2, <1>3, <1>4, <1>5, <1>6, <1>7, <1>8, <1>9, <1>10, <1>11 DEF Moves

LEMMA CompletedIsPrefix ==
  ASSUME RunSound, LoopSound, InOrder
  PROVE  Completed \subseteq Steps /\ \A x \in Completed : Earlier(x) \subseteq Completed
  <1>1. Completed \subseteq Steps
    BY DEF Completed, RunSound, RunTypeOK
  <1>2. CASE loop.pc \in {"off", "head"}
    BY <1>1, <1>2 DEF InOrder
  <1>3. CASE loop.pc \notin {"off", "head"}
    BY <1>1, <1>3, EarlierIsOrder DEF InOrder, LoopSound
  <1> QED
    BY <1>1, <1>2, <1>3

LEMMA MovesOrder ==
  ASSUME RunSound, LoopSound, InOrder, Moves, ~displaced'
  PROVE  InOrder'
  <1> USE DEF RunSound, RunTypeOK
  <1>1. Completed \subseteq Steps /\ \A x \in Completed : Earlier(x) \subseteq Completed
    BY CompletedIsPrefix
  <1>2. CASE Completes
    <2>1. Completed' = Completed \cup {loop.step}
      BY <1>2, MovesCompleted
    <2>2. Completed = Earlier(loop.step) /\ status # "completed"
      BY <1>2 DEF Completes, InOrder, LoopSound, Finished
    <2>3. loop'.pc = "head" /\ status' = status
      BY <1>2 DEF Completes, NoLoop
    <2> QED
      BY <1>1, <2>1, <2>2, <2>3 DEF InOrder
  <1>3. ASSUME ~Completes PROVE InOrder'
    <2>1. Completed' = Completed
      BY <1>3, MovesCompleted
    <2>2. CASE Chooses(NextStep)
      <3>1. loop' = [pc |-> "chosen", step |-> NextStep, read |-> {}] /\ status' # "completed"
        BY <2>2 DEF Chooses, NoLoop, taskVars, Finished
      <3>2. NextStep \in Steps \ Completed /\ Earlier(NextStep) \subseteq Completed
        BY <2>2, NextStepIs DEF Chooses
      <3>3. ASSUME NEW x \in Completed PROVE x \in Earlier(NextStep)
        BY <1>1, <3>2, EarlierIsOrder
      <3> QED
        BY <2>1, <3>1, <3>2, <3>3 DEF InOrder
    <2>3. CASE Advances
      <3>1. /\ loop.pc = "chosen" /\ loop'.pc = "begun" /\ loop'.step = loop.step
            /\ current' = loop.step /\ status' = "active"
        BY <2>3 DEF Advances, Goes
      <3> QED
        BY <2>1, <3>1 DEF InOrder
    <2>4. CASE StepBegins
      <3>1. /\ loop.pc = "begun" /\ loop'.pc = "working" /\ loop'.step = loop.step
            /\ current' = current /\ status' = status
        BY <2>4 DEF StepBegins, Begins, taskVars
      <3> QED
        BY <2>1, <3>1 DEF InOrder
    <2>5. CASE Finishes(NextStep)
      <3>1. Completed = Steps
        BY <1>1, <2>5, NextStepIs DEF Finishes
      <3>2. loop'.pc = "off"
        BY <2>5 DEF Finishes, NoLoop
      <3> QED
        BY <1>1, <2>1, <3>1, <3>2 DEF InOrder
    <2>6. CASE Fails \/ Restarts
      <3>1. loop'.pc = "off" /\ status' # "completed"
        BY <2>6 DEF Fails, Restarts, NoLoop
      <3> QED
        BY <1>1, <2>1, <3>1 DEF InOrder
    <2>7. CASE Pauses
      <3>1. loop' = loop /\ current' = current /\ status' # "completed"
        BY <2>7 DEF Pauses
      <3> QED
        BY <2>1, <3>1 DEF InOrder
    <2>8. CASE Resumes
      <3>1. loop' = loop \/ (loop.pc = "off" /\ loop'.pc = "head")
        BY <2>8 DEF Resumes, NoLoop
      <3>2. current' = current /\ status' # "completed"
        BY <2>8 DEF Resumes
      <3> QED
        BY <1>1, <2>1, <3>1, <3>2 DEF InOrder
    <2>9. ASSUME NEW m \in Messages, Refines(m, {}) PROVE InOrder'
      <3>1. loop' = loop /\ current' = current /\ status' = status
        BY <2>9 DEF Refines, taskVars
      <3> QED
        BY <2>1, <3>1 DEF InOrder
    <2>10. ASSUME NEW m \in Messages, Persists(m) PROVE InOrder'
      <3>1. loop' = loop /\ current' = current /\ status' = status
        BY <2>10 DEF Persists
      <3> QED
        BY <2>1, <3>1 DEF InOrder
    <2> QED
      BY <1>3, <2>2, <2>3, <2>4, <2>5, <2>6, <2>7, <2>8, <2>9, <2>10 DEF Moves
  <1> QED
    BY <1>2, <1>3

\* Nothing is done by the moves that was not done before.
LEMMA MovesDone ==
  ASSUME RunSound, LoopSound, InOrder, Moves, ~displaced', NEW x \in Steps, Done(x)'
  PROVE  Done(x)
  <1> USE DEF RunSound, RunTypeOK
  <1>1. CASE Completes
    <2>1. Completed' = Completed \cup {loop.step} /\ loop.pc = "saved" /\ loop'.pc = "head"
      BY <1>1, MovesCompleted DEF Completes, NoLoop
    <2> QED
      BY <2>1 DEF Done
  <1>2. CASE ~Completes
    <2>1. Completed' = Completed
      BY <1>2, MovesCompleted
    <2>2. loop'.pc = "saved" => loop' = loop
      <3>1. Chooses(NextStep) => loop'.pc = "chosen"
        BY DEF Chooses, NoLoop
      <3>2. Advances => loop'.pc = "begun"
        BY DEF Advances, Goes
      <3>3. StepBegins => loop'.pc = "working"
        BY DEF StepBegins, Begins
      <3>4. Finishes(NextStep) \/ Fails \/ Restarts => loop'.pc = "off"
        BY DEF Finishes, Fails, Restarts, NoLoop
      <3>5. Pauses => loop' = loop
        BY DEF Pauses
      <3>6. Resumes => loop' = loop \/ loop'.pc = "head"
        BY DEF Resumes, NoLoop
      <3>7. \A m \in Messages : Refines(m, {}) \/ Persists(m) => loop' = loop
        BY DEF Refines, Persists
      <3> QED
        BY <1>2, <3>1, <3>2, <3>3, <3>4, <3>5, <3>6, <3>7 DEF Moves
    <2> QED
      BY <2>1, <2>2 DEF Done
  <1> QED
    BY <1>1, <1>2

\* A step that has ended is done at most, and was not completed before.
LEMMA EndsDone ==
  ASSUME RunSound, LoopSound, InOrder, Ends, NEW x \in Steps
  PROVE  /\ Done(x)' => x \in Completed \/ x = loop.step
         /\ loop'.pc = "failing" /\ Done(x)' => x \in Completed
  <1>1. Completed' = Completed
    BY EndsLoop
  <1>2. loop'.step = loop.step
    BY DEF Ends, Goes, RunSound, RunTypeOK
  <1>3. loop.pc = "working"
    BY DEF Ends
  <1> QED
    BY <1>1, <1>2, <1>3 DEF Done, InOrder, LoopSound

-----------------------------------------------------------------------------
(* What the steps do to the record of the task. *)

RecordTyped ==
  /\ browser \in Browsers
  /\ opened \in Nat /\ DOMAIN pages \subseteq 1..opened /\ browser.page \in 0..opened
  /\ \A p \in DOMAIN pages : pages[p] \in Sessions

\* What a step has read of the task is still so when it saves.
CopyIsFresh == loop.pc = "working" => \A copy \in loop.read : copy.browser = browser

LEMMA FindingsType ==
  ASSUME NEW b \in Browsers
  PROVE  BuildFindings(b) \in SUBSET Findings
  BY DEF Browsers, BuildFindings, Findings

LEMMA ShownType ==
  ASSUME NEW b \in Browsers, NEW session \in Sessions
  PROVE  /\ Shown(b, session) \in Browsers
         /\ Shown(b, session).page = b.page
         /\ Shown(b, session).url = session.url
         /\ Shown(b, session).text = IF session.failed THEN NoUrl ELSE session.url
         /\ Shown(b, session).links = [of |-> session.url, list |-> session.links]
         /\ Shown(b, session).found = b.found
         /\ Shown(b, session).visited = b.visited
         /\ Shown(b, session).log = b.log
         /\ Shown(b, session).failure = session.failed
         /\ Shown(b, session).findings = b.findings
  BY DEF Shown, Browsers, Sessions, Pages

LEMMA ToldType ==
  ASSUME NEW b \in Browsers, NEW entry \in Entries
  PROVE  /\ Told(b, entry) \in Browsers
         /\ Told(b, entry).page = b.page
         /\ Told(b, entry).url = b.url
         /\ Told(b, entry).text = b.text
         /\ Told(b, entry).links = b.links
         /\ Told(b, entry).found = b.found
         /\ Told(b, entry).visited = Append(b.visited, [url |-> entry.url, ok |-> entry.ok])
         /\ Told(b, entry).log = Append(b.log, entry)
         /\ Told(b, entry).failure = b.failure
         /\ Told(b, entry).findings = b.findings
  <1>1. [url |-> entry.url, ok |-> entry.ok] \in Visits
    BY DEF Entries, Visits
  <1>2. b.visited \in Seq(Visits) /\ b.log \in Seq(Entries)
    BY DEF Browsers
  <1>3. /\ Append(b.visited, [url |-> entry.url, ok |-> entry.ok]) \in Seq(Visits)
        /\ Append(b.log, entry) \in Seq(Entries)
    BY <1>1, <1>2, AppendProperties
  <1> QED
    BY <1>3 DEF Told, Browsers

LEMMA EntryType ==
  ASSUME NEW action \in {"open", "navigate"}, NEW words \in SUBSET STRING,
         NEW session \in Sessions
  PROVE  Entry(action, words, session) \in Entries
  BY DEF Entry, Entries, Sessions

\* The page is opened, as `session`.
Opens(session) ==
  LET b == Told(Shown(browser, session), Entry("open", {}, session))
  IN  /\ ~session.failed => Allowed(session.url)
      /\ opened' = opened + 1
      /\ pages' = [p \in DOMAIN pages \cup {opened + 1} |->
                     IF p = opened + 1 THEN session ELSE pages[p]]
      /\ browser' = [b EXCEPT !.page = opened + 1]
      /\ loop'.pc = IF session.failed THEN "failing" ELSE "saved"

\* The record is made of the page that is open.
Extracts ==
  /\ Open(browser.page)
  /\ \E found \in SUBSET Finds :
     \E b \in {[Shown(browser, pages[browser.page]) EXCEPT !.found = found]} :
       browser' = [b EXCEPT !.findings = BuildFindings(b)]
  /\ UNCHANGED <<pages, opened>> /\ loop'.pc = "saved"

\* A link of the page leads to `session`.
Leads(link, session) ==
  /\ ~session.failed => Allowed(session.url)
  /\ "login" \notin link.words /\ MayFollow(browser) /\ Open(browser.page)
  /\ pages' = Clicked(browser.page, session)
  /\ browser' = Followed(browser, Entry("navigate", link.words, session), session)
  /\ UNCHANGED opened /\ loop'.pc = "saved"

Keeps == UNCHANGED <<browser, pages, opened>>

LEMMA EndsPc ==
  ASSUME RunSound
  PROVE  (Returns => loop'.pc = "saved") /\ (Throws => loop'.pc = "failing")
  BY DEF Returns, Throws, Goes, RunSound, RunTypeOK

LEMMA OpensPageIs ==
  ASSUME RunSound, RecordTyped, CopyIsFresh, OpensPage
  PROVE  \/ Keeps /\ loop'.pc = "failing"
         \/ \E session \in Sessions : Opens(session)
  <1>1. CASE Throws /\ Leaves /\ UNCHANGED <<pages, opened>>
    BY <1>1, EndsPc DEF Leaves, Keeps
  <1>2. CASE ~(Throws /\ Leaves /\ UNCHANGED <<pages, opened>>)
    <2>1. PICK copy \in loop.read, web \in Webs :
            \E session \in {PageSession(web, InitialUrl)} :
              /\ opened' = opened + 1
              /\ pages' = [p \in DOMAIN pages \cup {opened'} |->
                             IF p = opened' THEN session ELSE pages[p]]
              /\ Merges(copy, [Told(Shown(copy.browser, session), Entry("open", {}, session))
                                 EXCEPT !.page = opened'])
              /\ EndsOpen(session)
      BY <1>2 DEF OpensPage
    <2>2. copy.browser = browser
      BY DEF CopyIsFresh, OpensPage, Working
    <2> DEFINE session == PageSession(web, InitialUrl)
    <2>3. session \in Sessions /\ (~session.failed => Allowed(session.url))
      BY PageSessionType, BrowserAssumption
    <2> HIDE DEF session
    <2>4. /\ opened' = opened + 1
          /\ pages' = [p \in DOMAIN pages \cup {opened + 1} |->
                         IF p = opened + 1 THEN session ELSE pages[p]]
          /\ browser' = [Told(Shown(browser, session), Entry("open", {}, session))
                           EXCEPT !.page = opened + 1]
          /\ EndsOpen(session)
      BY <2>1, <2>2 DEF Merges, session
    <2>5. loop'.pc = IF session.failed THEN "failing" ELSE "saved"
      BY <2>3, <2>4, EndsPc DEF EndsOpen, Sessions
    <2>6. Opens(session)
      BY <2>3, <2>4, <2>5 DEF Opens
    <2> QED
      BY <2>3, <2>6
  <1> QED
    BY <1>1, <1>2

LEMMA ExtractsPageIs ==
  ASSUME RunSound, RecordTyped, CopyIsFresh, ExtractsPage
  PROVE  (Keeps /\ loop'.pc = "failing") \/ Extracts
  <1>1. PICK copy \in loop.read :
          IF ~Open(copy.browser.page) THEN Throws /\ Leaves
          ELSE \E session \in {pages[copy.browser.page]}, query \in {FindQuery(copy.refinements)} :
               \E b \in {[Shown(copy.browser, session) EXCEPT
                            !.found = IF query = NoWord THEN {}
                                      ELSE {[of |-> session.url, query |-> query,
                                             yes |-> query \in session.words]}]} :
                 Merges(copy, [b EXCEPT !.findings = BuildFindings(b)]) /\ Returns
    BY DEF ExtractsPage
  <1>2. copy.browser = browser /\ copy.refinements \in Seq(Refinements)
    BY DEF CopyIsFresh, ExtractsPage, Working, RunSound, RunTypeOK, Copies
  <1>3. UNCHANGED <<pages, opened>>
    BY DEF ExtractsPage
  <1>4. CASE ~Open(browser.page)
    BY <1>1, <1>2, <1>3, <1>4, EndsPc DEF Leaves, Keeps
  <1>5. CASE Open(browser.page)
    <2> DEFINE session == pages[browser.page]
               query == FindQuery(copy.refinements)
               found == IF query = NoWord THEN {}
                        ELSE {[of |-> session.url, query |-> query,
                               yes |-> query \in session.words]}
               b == [Shown(browser, session) EXCEPT !.found = found]
    <2>1. browser' = [b EXCEPT !.findings = BuildFindings(b)] /\ loop'.pc = "saved"
      BY <1>1, <1>2, <1>5, EndsPc DEF Merges
    <2>2. session \in Sessions /\ query \in Queries
      BY <1>2, <1>5, FindQueryType DEF RecordTyped, Open
    <2>3. found \in SUBSET Finds
      <3> HIDE DEF session, query
      <3> QED
        BY <2>2 DEF Sessions, Finds
    <2> HIDE DEF found
    <2> QED
      BY <1>3, <1>5, <2>1, <2>3 DEF Extracts
  <1> QED
    BY <1>4, <1>5

LEMMA FollowsLinksIs ==
  ASSUME RunSound, RecordTyped, CopyIsFresh, FollowsLinks
  PROVE  \/ Keeps
         \/ \E link \in Links, session \in Sessions : Leads(link, session)
  <1>1. PICK copy \in loop.read :
          \E best \in {IF MayFollow(copy.browser)
                       THEN BestLink(copy.browser.links, copy.refinements) ELSE {}} :
            IF best = {} THEN Returns /\ Leaves /\ UNCHANGED pages
            ELSE \E link \in best : Follows(copy, link)
    BY DEF FollowsLinks
  <1>2. copy.browser = browser
    BY DEF CopyIsFresh, FollowsLinks, Working
  <1>3. UNCHANGED opened
    BY DEF FollowsLinks
  <1> DEFINE best == IF MayFollow(browser) THEN BestLink(browser.links, copy.refinements) ELSE {}
  <1>4. CASE best = {}
    BY <1>1, <1>2, <1>3, <1>4 DEF Leaves, Keeps
  <1>5. CASE best # {}
    <2>1. PICK link \in best : Follows(copy, link)
      BY <1>1, <1>2, <1>5
    <2>2. MayFollow(browser) /\ link \in BestLink(browser.links, copy.refinements)
      BY <2>1
    <2>3. browser.links.list \in Seq(Links)
      BY DEF RecordTyped, Browsers
    <2>4. link \in Links /\ "login" \notin link.words
      BY <2>2, <2>3, BestLinkSafe
    <2>5. CASE Throws /\ Leaves /\ UNCHANGED pages
      BY <1>3, <2>5 DEF Leaves, Keeps
    <2>6. CASE ~(Throws /\ Leaves /\ UNCHANGED pages)
      <3>1. Open(browser.page)
        BY <1>2, <2>1, <2>6 DEF Follows
      <3>2. PICK web \in Webs : \E session \in {PageSession(web, link.url)} :
              /\ pages' = Clicked(browser.page, session)
              /\ Merges(copy, Followed(browser, Entry("navigate", link.words, session), session))
              /\ Returns
        BY <1>2, <2>1, <2>6 DEF Follows
      <3> DEFINE session == PageSession(web, link.url)
      <3>3. session \in Sessions /\ (~session.failed => Allowed(session.url))
        BY <2>4, PageSessionType DEF Links
      <3> HIDE DEF session
      <3>4. /\ pages' = Clicked(browser.page, session)
            /\ browser' = Followed(browser, Entry("navigate", link.words, session), session)
            /\ loop'.pc = "saved"
        BY <3>2, EndsPc DEF Merges, session
      <3>5. Leads(link, session)
        BY <1>3, <2>2, <2>4, <3>1, <3>3, <3>4 DEF Leads
      <3> QED
        BY <2>4, <3>3, <3>5
    <2> QED
      BY <2>5, <2>6
  <1> QED
    BY <1>4, <1>5

\* The findings are made anew.
FindsNow ==
  /\ browser' = [browser EXCEPT !.findings = BuildFindings(browser)]
  /\ UNCHANGED <<pages, opened>> /\ loop'.pc = "saved"

LEMMA ExtractsFindingsIs ==
  ASSUME RunSound, CopyIsFresh, ExtractsFindings
  PROVE  FindsNow
  BY EndsPc DEF ExtractsFindings, Working, CopyIsFresh, Merges, FindsNow

LEMMA OpensFields ==
  ASSUME RecordTyped, NEW session \in Sessions, Opens(session)
  PROVE  /\ browser' \in Browsers
         /\ browser'.page = opened + 1
         /\ browser'.url = session.url
         /\ browser'.text = IF session.failed THEN NoUrl ELSE session.url
         /\ browser'.links = [of |-> session.url, list |-> session.links]
         /\ browser'.visited =
              Append(browser.visited, [url |-> session.url, ok |-> ~session.failed])
         /\ browser'.log = Append(browser.log, Entry("open", {}, session))
         /\ browser'.failure = session.failed
         /\ browser'.findings = browser.findings
  <1> DEFINE shown == Shown(browser, session)
             entry == Entry("open", {}, session)
             b == Told(shown, entry)
  <1>1. browser \in Browsers /\ opened + 1 \in Nat
    BY DEF RecordTyped
  <1>2. shown \in Browsers
    BY <1>1, ShownType
  <1>3. entry \in Entries /\ entry.url = session.url /\ entry.ok = ~session.failed
    BY EntryType DEF Entry
  <1>4. browser' = [b EXCEPT !.page = opened + 1]
    BY DEF Opens
  <1> HIDE DEF b, shown, entry
  <1>5. b \in Browsers
    BY <1>2, <1>3, ToldType DEF b
  <1>6. /\ browser' \in Browsers /\ browser'.page = opened + 1
        /\ browser'.url = b.url /\ browser'.text = b.text /\ browser'.links = b.links
        /\ browser'.visited = b.visited /\ browser'.log = b.log
        /\ browser'.failure = b.failure /\ browser'.findings = b.findings
    BY <1>1, <1>4, <1>5 DEF Browsers
  <1>7. /\ b.url = shown.url /\ b.text = shown.text /\ b.links = shown.links
        /\ b.visited = Append(shown.visited, [url |-> entry.url, ok |-> entry.ok])
        /\ b.log = Append(shown.log, entry)
        /\ b.failure = shown.failure /\ b.findings = shown.findings
    BY <1>2, <1>3, ToldType DEF b
  <1>8. /\ shown.url = session.url
        /\ shown.text = IF session.failed THEN NoUrl ELSE session.url
        /\ shown.links = [of |-> session.url, list |-> session.links]
        /\ shown.visited = browser.visited /\ shown.log = browser.log
        /\ shown.failure = session.failed /\ shown.findings = browser.findings
    BY <1>1, ShownType DEF shown
  <1> QED
    BY <1>3, <1>6, <1>7, <1>8 DEF entry

LEMMA ExtractsFields ==
  ASSUME RecordTyped, Extracts
  PROVE  LET session == pages[browser.page]
         IN  /\ session \in Sessions
             /\ browser' \in Browsers
             /\ browser'.page = browser.page
             /\ browser'.url = session.url
             /\ browser'.text = IF session.failed THEN NoUrl ELSE session.url
             /\ browser'.links = [of |-> session.url, list |-> session.links]
             /\ browser'.visited = browser.visited
             /\ browser'.log = browser.log
             /\ browser'.failure = session.failed
  <1> DEFINE session == pages[browser.page]
             shown == Shown(browser, session)
  <1>1. session \in Sessions /\ browser \in Browsers
    BY DEF Extracts, Open, RecordTyped
  <1>2. PICK found \in SUBSET Finds :
          \E b \in {[shown EXCEPT !.found = found]} :
            browser' = [b EXCEPT !.findings = BuildFindings(b)]
    BY DEF Extracts
  <1> DEFINE b == [shown EXCEPT !.found = found]
  <1>3. browser' = [b EXCEPT !.findings = BuildFindings(b)]
    BY <1>2
  <1> HIDE DEF b, shown, session
  <1>4. shown \in Browsers
    BY <1>1, ShownType DEF shown
  <1>5. /\ b \in Browsers
        /\ b.page = shown.page /\ b.url = shown.url /\ b.text = shown.text
        /\ b.links = shown.links /\ b.visited = shown.visited /\ b.log = shown.log
        /\ b.failure = shown.failure
    BY <1>4 DEF b, Browsers
  <1>6. BuildFindings(b) \in SUBSET Findings
    BY <1>5, FindingsType
  <1>7. /\ browser' \in Browsers
        /\ browser'.page = b.page /\ browser'.url = b.url /\ browser'.text = b.text
        /\ browser'.links = b.links /\ browser'.visited = b.visited /\ browser'.log = b.log
        /\ browser'.failure = b.failure
    BY <1>3, <1>5, <1>6 DEF Browsers
  <1>8. /\ shown.page = browser.page /\ shown.url = session.url
        /\ shown.text = IF session.failed THEN NoUrl ELSE session.url
        /\ shown.links = [of |-> session.url, list |-> session.links]
        /\ shown.visited = browser.visited /\ shown.log = browser.log
        /\ shown.failure = session.failed
    BY <1>1, ShownType DEF shown
  <1> QED
    BY <1>1, <1>5, <1>7, <1>8 DEF session

LEMMA LeadsFields ==
  ASSUME RecordTyped, NEW link \in Links, NEW session \in Sessions, Leads(link, session)
  PROVE  /\ browser' \in Browsers
         /\ browser'.page = browser.page
         /\ browser'.url = IF session.failed THEN browser.url ELSE session.url
         /\ browser'.text = IF session.failed THEN browser.text ELSE session.url
         /\ browser'.links = IF session.failed THEN browser.links
                             ELSE [of |-> session.url, list |-> session.links]
         /\ browser'.visited =
              Append(browser.visited, [url |-> session.url, ok |-> ~session.failed])
         /\ browser'.log = Append(browser.log, Entry("navigate", link.words, session))
         /\ browser'.failure = session.failed
  <1> DEFINE entry == Entry("navigate", link.words, session)
             failed == [browser EXCEPT !.failure = TRUE]
             b == IF session.failed THEN [failed EXCEPT !.findings = BuildFindings(failed)]
                  ELSE Shown(browser, session)
  <1>1. browser \in Browsers /\ link.words \in SUBSET STRING
    BY DEF RecordTyped, Links
  <1>2. entry \in Entries /\ entry.url = session.url /\ entry.ok = ~session.failed
    BY <1>1, EntryType DEF Entry
  <1>3. browser' = Told(b, entry)
    BY DEF Leads, Followed
  <1> HIDE DEF entry
  <1>4. /\ b \in Browsers
        /\ b.page = browser.page
        /\ b.url = IF session.failed THEN browser.url ELSE session.url
        /\ b.text = IF session.failed THEN browser.text ELSE session.url
        /\ b.links = IF session.failed THEN browser.links
                     ELSE [of |-> session.url, list |-> session.links]
        /\ b.visited = browser.visited /\ b.log = browser.log
        /\ b.failure = session.failed
    <2>1. CASE session.failed
      <3>1. failed \in Browsers
        BY <1>1 DEF Browsers
      <3>2. BuildFindings(failed) \in SUBSET Findings
        BY <3>1, FindingsType
      <3>3. b = [failed EXCEPT !.findings = BuildFindings(failed)]
        BY <2>1
      <3>4. /\ failed.page = browser.page /\ failed.url = browser.url
            /\ failed.text = browser.text /\ failed.links = browser.links
            /\ failed.visited = browser.visited /\ failed.log = browser.log
            /\ failed.failure = TRUE
        BY <1>1 DEF Browsers
      <3> HIDE DEF b, failed
      <3>5. /\ b \in Browsers
            /\ b.page = failed.page /\ b.url = failed.url /\ b.text = failed.text
            /\ b.links = failed.links /\ b.visited = failed.visited /\ b.log = failed.log
            /\ b.failure = failed.failure
        BY <3>1, <3>2, <3>3 DEF Browsers
      <3> QED
        BY <2>1, <3>4, <3>5 DEF Sessions
    <2>2. CASE ~session.failed
      <3>1. b = Shown(browser, session)
        BY <2>2
      <3> HIDE DEF b
      <3> QED
        BY <1>1, <2>2, <3>1, ShownType
    <2> QED
      BY <2>1, <2>2
  <1> HIDE DEF b
  <1>5. /\ Told(b, entry) \in Browsers
        /\ Told(b, entry).page = b.page /\ Told(b, entry).url = b.url
        /\ Told(b, entry).text = b.text /\ Told(b, entry).links = b.links
        /\ Told(b, entry).visited = Append(b.visited, [url |-> entry.url, ok |-> entry.ok])
        /\ Told(b, entry).log = Append(b.log, entry)
        /\ Told(b, entry).failure = b.failure
    BY <1>2, <1>4, ToldType
  <1> QED
    BY <1>2, <1>3, <1>4, <1>5 DEF entry

LEMMA FindsNowFields ==
  ASSUME RecordTyped, FindsNow
  PROVE  /\ browser' \in Browsers
         /\ browser'.page = browser.page /\ browser'.url = browser.url
         /\ browser'.text = browser.text /\ browser'.links = browser.links
         /\ browser'.visited = browser.visited /\ browser'.log = browser.log
         /\ browser'.failure = browser.failure /\ browser'.findings = BuildFindings(browser)
  <1>1. browser \in Browsers /\ BuildFindings(browser) \in SUBSET Findings
    BY FindingsType DEF RecordTyped
  <1> QED
    BY <1>1 DEF FindsNow, Browsers

\* A step opens the page, extracts it, follows a link, makes the findings, or
\* leaves the record.
Effect ==
  \/ Keeps /\ (loop.step \in {"open-page", "extract-findings"} => loop'.pc = "failing")
  \/ \E session \in Sessions : loop.step = "open-page" /\ Opens(session)
  \/ loop.step = "extract-page" /\ Extracts
  \/ \E link \in Links, session \in Sessions : loop.step = "follow-links" /\ Leads(link, session)
  \/ loop.step = "extract-findings" /\ FindsNow

LEMMA StepWorksIs ==
  ASSUME RunSound, RecordTyped, CopyIsFresh, StepWorks
  PROVE  Effect
  <1>1. CASE PreparesWorkspace \/ WritesFile
    BY <1>1 DEF PreparesWorkspace, WritesFile, Leaves, Working, Writes, Effect, Keeps
  <1>2. CASE OpensPage
    BY <1>2, OpensPageIs DEF Effect, OpensPage, Working
  <1>3. CASE ExtractsPage
    BY <1>3, ExtractsPageIs DEF Effect, ExtractsPage, Working
  <1>4. CASE FollowsLinks
    BY <1>4, FollowsLinksIs DEF Effect, FollowsLinks, Working
  <1>5. CASE ExtractsFindings
    BY <1>5, ExtractsFindingsIs DEF Effect, ExtractsFindings, Working
  <1> QED
    BY <1>1, <1>2, <1>3, <1>4, <1>5 DEF StepWorks

LEMMA EffectTyped ==
  ASSUME RecordTyped, Effect
  PROVE  RecordTyped'
  <1>1. CASE Keeps
    BY <1>1 DEF Keeps, RecordTyped
  <1>2. ASSUME NEW session \in Sessions, Opens(session) PROVE RecordTyped'
    <2>1. browser' \in Browsers /\ browser'.page = opened + 1
      BY <1>2, OpensFields
    <2> QED
      BY <1>2, <2>1 DEF Opens, RecordTyped
  <1>3. CASE Extracts
    <2>1. browser' \in Browsers /\ browser'.page = browser.page
      BY <1>3, ExtractsFields
    <2> QED
      BY <1>3, <2>1 DEF Extracts, RecordTyped
  <1>4. ASSUME NEW link \in Links, NEW session \in Sessions, Leads(link, session)
        PROVE  RecordTyped'
    <2>1. browser' \in Browsers /\ browser'.page = browser.page
      BY <1>4, LeadsFields
    <2>2. DOMAIN pages' = DOMAIN pages /\ \A p \in DOMAIN pages : pages'[p] \in Sessions
      BY <1>4 DEF Leads, Clicked, RecordTyped
    <2> QED
      BY <1>4, <2>1, <2>2 DEF Leads, RecordTyped
  <1>5. CASE FindsNow
    <2>1. browser' \in Browsers /\ browser'.page = browser.page
      BY <1>5, FindsNowFields
    <2> QED
      BY <1>5, <2>1 DEF FindsNow, RecordTyped
  <1> QED
    BY <1>1, <1>2, <1>3, <1>4, <1>5 DEF Effect

LEMMA AppendSet ==
  ASSUME NEW S, NEW seq \in Seq(S), NEW e \in S
  PROVE  ToSet(Append(seq, e)) = ToSet(seq) \cup {e}
  <1>1. /\ DOMAIN seq = 1..Len(seq) /\ Len(seq) \in Nat
        /\ DOMAIN Append(seq, e) = 1..Len(seq) + 1
        /\ \A i \in 1..Len(seq) : Append(seq, e)[i] = seq[i]
        /\ Append(seq, e)[Len(seq) + 1] = e
    BY AppendProperties, LenProperties
  <1>2. \A i \in 1..Len(seq) + 1 : i \in 1..Len(seq) \/ i = Len(seq) + 1
    BY <1>1
  <1>3. \A i \in 1..Len(seq) : i \in 1..Len(seq) + 1
    BY <1>1
  <1>4. Len(seq) + 1 \in 1..Len(seq) + 1
    BY <1>1
  <1> QED
    BY <1>1, <1>2, <1>3, <1>4 DEF ToSet

\* Of the page that is open: a failed one fails the task, one that was read was
\* visited, and the record of a failure is the page's until it is extracted.
PageKept ==
  Open(browser.page) =>
    /\ pages[browser.page].failed => loop.pc = "failing" \/ status = "failed"
    /\ ~pages[browser.page].failed =>
         [url |-> browser.url, ok |-> TRUE] \in ToSet(browser.visited)
    /\ ~displaced /\ "extract-page" \notin Completed =>
         pages[browser.page].failed = browser.failure

LEMMA PageIsRead ==
  ASSUME LoopSound, PageKept, loop.pc = "working", Open(browser.page)
  PROVE  ~pages[browser.page].failed
  BY DEF LoopSound, PageKept, Finished

LEMMA EffectShown ==
  ASSUME RunSound, RecordTyped, LoopSound, ~displaced => InOrder, Ends, Effect,
         ShownIsOnePage, PageKept
  PROVE  ShownIsOnePage' /\ PageKept'
  <1>1. loop.pc = "working" /\ status' = status /\ displaced' = displaced
    BY DEF Ends
  <1>2. Completed' = Completed
    BY EndsLoop
  <1>3. Open(browser.page) => ~pages[browser.page].failed
    BY <1>1, PageIsRead
  <1>4. browser.visited \in Seq(Visits) /\ browser.url \in Pages
    BY DEF RecordTyped, Browsers
  <1>5. CASE Keeps
    BY <1>1, <1>2, <1>3, <1>5 DEF Keeps, ShownIsOnePage, PageKept, Open
  <1>6. ASSUME NEW session \in Sessions, Opens(session) PROVE ShownIsOnePage' /\ PageKept'
    <2> DEFINE visit == [url |-> session.url, ok |-> ~session.failed]
    <2>1. visit \in Visits
      BY DEF Sessions, Visits
    <2>2. visit \in ToSet(browser'.visited)
      <3>1. browser'.visited = Append(browser.visited, visit)
        BY <1>6, OpensFields
      <3> HIDE DEF visit
      <3>2. ToSet(Append(browser.visited, visit)) = ToSet(browser.visited) \cup {visit}
        BY <1>4, <2>1, AppendSet
      <3> QED
        BY <3>1, <3>2
    <2>3. ~session.failed => visit = [url |-> session.url, ok |-> TRUE]
      OBVIOUS
    <2>4. browser'.page = opened + 1 /\ pages'[opened + 1] = session
      BY <1>6, OpensFields DEF Opens
    <2>5. loop'.pc = IF session.failed THEN "failing" ELSE "saved"
      BY <1>6 DEF Opens
    <2>6. ShownIsOnePage'
      <3>1. /\ browser'.url = session.url
            /\ browser'.text = IF session.failed THEN NoUrl ELSE session.url
            /\ browser'.links = [of |-> session.url, list |-> session.links]
        BY <1>6, OpensFields
      <3>2. browser'.text # NoUrl => [url |-> browser'.text, ok |-> TRUE] \in ToSet(browser'.visited)
        BY <2>2, <2>3, <3>1
      <3> QED
        BY <2>4, <3>1, <3>2 DEF ShownIsOnePage
    <2>7. PageKept'
      BY <1>6, <2>2, <2>3, <2>4, <2>5, OpensFields DEF PageKept, Sessions
    <2> QED
      BY <2>6, <2>7
  <1>7. CASE Extracts
    <2> DEFINE session == pages[browser.page]
    <2>1. ~session.failed /\ session.url = browser.url /\ session.links = browser.links.list
      BY <1>3, <1>7 DEF Extracts, ShownIsOnePage
    <2>2. [url |-> session.url, ok |-> TRUE] \in ToSet(browser.visited)
      BY <1>7, <2>1 DEF Extracts, PageKept
    <2>3. pages' = pages /\ browser'.page = browser.page
      BY <1>7, ExtractsFields DEF Extracts
    <2> HIDE DEF session
    <2>4. /\ browser'.url = session.url /\ browser'.text = session.url
          /\ browser'.links = [of |-> session.url, list |-> session.links]
          /\ browser'.visited = browser.visited /\ browser'.failure = session.failed
      BY <1>7, <2>1, ExtractsFields DEF session
    <2>5. ShownIsOnePage'
      BY <2>2, <2>3, <2>4 DEF ShownIsOnePage, session
    <2>6. PageKept'
      BY <2>1, <2>2, <2>3, <2>4 DEF PageKept, session
    <2> QED
      BY <2>5, <2>6
  <1>8. ASSUME NEW link \in Links, NEW session \in Sessions, loop.step = "follow-links",
               Leads(link, session)
        PROVE  ShownIsOnePage' /\ PageKept'
    <2> DEFINE visit == [url |-> session.url, ok |-> ~session.failed]
    <2>1. visit \in Visits
      BY DEF Sessions, Visits
    <2>2. ToSet(browser'.visited) = ToSet(browser.visited) \cup {visit}
      <3>1. browser'.visited = Append(browser.visited, visit)
        BY <1>8, LeadsFields
      <3> HIDE DEF visit
      <3>2. ToSet(Append(browser.visited, visit)) = ToSet(browser.visited) \cup {visit}
        BY <1>4, <2>1, AppendSet
      <3> QED
        BY <3>1, <3>2
    <2>3. Open(browser.page) /\ browser'.page = browser.page
      BY <1>8, LeadsFields DEF Leads
    <2>4. ~displaced => "extract-page" \in Completed
      BY <1>1, <1>8, EarlierAre DEF InOrder
    <2>5. CASE session.failed
      <3>1. pages' = pages
        BY <1>8, <2>5 DEF Leads, Clicked
      <3>2. browser'.url = browser.url /\ browser'.text = browser.text /\ browser'.links = browser.links
        BY <1>8, <2>5, LeadsFields
      <3>3. ShownIsOnePage'
        BY <2>2, <2>3, <3>1, <3>2 DEF ShownIsOnePage, Open
      <3>4. PageKept'
        BY <1>1, <1>2, <1>3, <2>2, <2>3, <2>4, <3>1, <3>2 DEF PageKept, Open
      <3> QED
        BY <3>3, <3>4
    <2>6. CASE ~session.failed
      <3>1. pages'[browser.page] = session /\ ~session.failed
        BY <1>8, <2>3, <2>6 DEF Leads, Clicked, Open
      <3>2. /\ browser'.url = session.url /\ browser'.text = session.url
            /\ browser'.links = [of |-> session.url, list |-> session.links]
            /\ browser'.failure = session.failed
        BY <1>8, <2>6, LeadsFields
      <3>3. [url |-> session.url, ok |-> TRUE] \in ToSet(browser'.visited)
        BY <2>2, <2>6
      <3>4. ShownIsOnePage'
        BY <2>3, <3>1, <3>2, <3>3 DEF ShownIsOnePage
      <3>5. PageKept'
        BY <2>3, <3>1, <3>2, <3>3 DEF PageKept
      <3> QED
        BY <3>4, <3>5
    <2> QED
      BY <2>5, <2>6 DEF Sessions
  <1>9. CASE FindsNow
    <2>1. /\ browser'.page = browser.page /\ browser'.url = browser.url
          /\ browser'.text = browser.text /\ browser'.links = browser.links
          /\ browser'.visited = browser.visited /\ browser'.failure = browser.failure
      BY <1>9, FindsNowFields
    <2>2. pages' = pages
      BY <1>9 DEF FindsNow
    <2>3. ShownIsOnePage'
      BY <2>1, <2>2 DEF ShownIsOnePage, Open
    <2>4. PageKept'
      BY <1>1, <1>2, <1>3, <2>1, <2>2 DEF PageKept, Open
    <2> QED
      BY <2>3, <2>4
  <1> QED
    BY <1>5, <1>6, <1>7, <1>8, <1>9 DEF Effect

-----------------------------------------------------------------------------
(* The log. *)

\* A page was opened before anything else was done.
LogOpens ==
  /\ browser.log # <<>> => browser.log[1].action = "open"
  /\ browser.page # 0 => browser.log # <<>>

Navigations(log) == {i \in DOMAIN log : log[i].action = "navigate"}

\* The log and the list of pages get one entry more, which tells the same.
LEMMA LogAppended ==
  ASSUME RecordTyped, LogTellsAll, SafeOnly, NEW entry \in Entries,
         "login" \notin entry.words, entry.ok => Allowed(entry.url),
         browser'.log = Append(browser.log, entry),
         browser'.visited = Append(browser.visited, [url |-> entry.url, ok |-> entry.ok]),
         browser'.failure = ~entry.ok
  PROVE  LogTellsAll' /\ SafeOnly'
  <1> DEFINE log == browser.log
             n == Len(log)
             visit == [url |-> entry.url, ok |-> entry.ok]
  <1>1. log \in Seq(Entries) /\ browser.visited \in Seq(Visits) /\ visit \in Visits
    BY DEF RecordTyped, Browsers, Entries, Visits
  <1>2. n \in Nat /\ Len(browser.visited) = n /\ DOMAIN log = 1..n
    BY <1>1, LenProperties DEF LogTellsAll
  <1> HIDE DEF log, n, visit
  <1>3. /\ Len(browser'.log) = n + 1 /\ DOMAIN browser'.log = 1..n + 1
        /\ browser'.log[n + 1] = entry
        /\ \A i \in 1..n : browser'.log[i] = log[i]
    BY <1>1, <1>2, AppendProperties, LenProperties DEF log, n
  <1>4. /\ Len(browser'.visited) = n + 1 /\ browser'.visited[n + 1] = visit
        /\ \A i \in 1..n : browser'.visited[i] = browser.visited[i]
    BY <1>1, <1>2, AppendProperties DEF visit
  <1>5. \A i \in 1..n + 1 : i \in 1..n \/ i = n + 1
    BY <1>2
  <1>6. \A i \in DOMAIN browser'.log :
          [url |-> browser'.log[i].url, ok |-> browser'.log[i].ok] = browser'.visited[i]
    <2>1. \A i \in 1..n : [url |-> log[i].url, ok |-> log[i].ok] = browser.visited[i]
      BY <1>2 DEF LogTellsAll, log
    <2> QED
      BY <1>3, <1>4, <1>5, <2>1 DEF visit
  <1>7. Last(browser'.log) = entry
    BY <1>3 DEF Last
  <1>8. LogTellsAll'
    BY <1>3, <1>4, <1>6, <1>7 DEF LogTellsAll
  <1>9. SafeOnly'
    BY <1>2, <1>3, <1>5 DEF SafeOnly, log
  <1> QED
    BY <1>8, <1>9

\* Only an entry about a link is one navigation more, and the first entry is not.
LEMMA NavigationsAppended ==
  ASSUME NEW log \in Seq(Entries), NEW entry \in Entries,
         Cardinality(Navigations(log)) < MaxPages,
         entry.action = "navigate" => /\ log # <<>> /\ log[1].action = "open"
                                      /\ Len(log) < MaxPages
  PROVE  Cardinality(Navigations(Append(log, entry))) < MaxPages
  <1> DEFINE n == Len(log)
             after == Append(log, entry)
  <1>1. n \in Nat /\ DOMAIN log = 1..n
    BY LenProperties
  <1>2. /\ DOMAIN after = 1..n + 1 /\ after[n + 1] = entry
        /\ \A i \in 1..n : after[i] = log[i]
    BY AppendProperties, LenProperties
  <1>3. \A i \in 1..n + 1 : i \in 1..n \/ i = n + 1
    BY <1>1
  <1>4. \A i \in 1..n : i \in 1..n + 1
    BY <1>1
  <1> HIDE DEF n, after
  <1>5. CASE entry.action # "navigate"
    <2>1. Navigations(after) = Navigations(log)
      BY <1>1, <1>2, <1>3, <1>4, <1>5 DEF Navigations
    <2> QED
      BY <2>1 DEF after
  <1>6. CASE entry.action = "navigate"
    <2>1. n # 0
      BY <1>1, <1>6, EmptySeq DEF n
    <2>2. after[1].action = "open"
      BY <1>1, <1>2, <1>6, <2>1
    <2>3. Navigations(after) \subseteq 2..n + 1
      <3>1. \A i \in 1..n + 1 : i # 1 => i \in 2..n + 1
        BY <1>1
      <3> QED
        BY <1>2, <2>2, <3>1 DEF Navigations
    <2>4. IsFiniteSet(2..n + 1) /\ Cardinality(2..n + 1) = n
      <3>1. PICK m \in Int : m = n + 1
        BY <1>1
      <3>2. ~(2 > m) /\ m - 2 + 1 = n
        BY <1>1, <2>1, <3>1
      <3>3. IsFiniteSet(2..m) /\ Cardinality(2..m) = IF 2 > m THEN 0 ELSE m - 2 + 1
        BY FS_Interval
      <3> QED
        BY <3>1, <3>2, <3>3
    <2>5. Cardinality(Navigations(after)) <= n /\ Cardinality(Navigations(after)) \in Nat
      BY <2>3, <2>4, FS_Subset, FS_CardinalityType
    <2>6. MaxPages \in Nat /\ n < MaxPages
      BY <1>6, BrowserAssumption DEF n
    <2> QED
      BY <1>1, <2>5, <2>6 DEF after
  <1> QED
    BY <1>5, <1>6 DEF Entries

LEMMA EffectLog ==
  ASSUME RunSound, RecordTyped, LoopSound, ~displaced => InOrder, Ends, Effect,
         PageKept, LogOpens, LogSound
  PROVE  LogOpens' /\ LogSound'
  <1>1. loop.pc = "working" /\ displaced' = displaced
    BY DEF Ends
  <1>2. browser.log \in Seq(Entries) /\ Len(browser.log) \in Nat
    BY LenProperties DEF RecordTyped, Browsers
  <1>3. ASSUME browser'.log = browser.log, browser'.visited = browser.visited,
               browser'.page = browser.page, ~displaced => browser'.failure = browser.failure
        PROVE  LogOpens' /\ LogSound'
    BY <1>1, <1>3 DEF LogOpens, LogSound, LogTellsAll, SafeOnly, NavigationsBounded
  <1>4. ASSUME NEW entry \in Entries, browser'.log = Append(browser.log, entry),
               browser.log = <<>> => entry.action = "open"
        PROVE  LogOpens'
    <2>1. Append(browser.log, entry)[1].action = "open"
      <3>1. CASE browser.log = <<>>
        BY <1>2, <1>4, <3>1, EmptySeq, AppendProperties
      <3>2. CASE browser.log # <<>>
        <4>1. 1 \in 1..Len(browser.log)
          BY <1>2, <3>2, EmptySeq
        <4> QED
          BY <1>2, <1>4, <3>2, <4>1, AppendProperties DEF LogOpens
      <3> QED
        BY <3>1, <3>2
    <2>2. Append(browser.log, entry) # <<>>
      BY <1>2, AppendProperties
    <2> QED
      BY <1>4, <2>1, <2>2 DEF LogOpens
  <1>5. CASE Keeps
    BY <1>3, <1>5 DEF Keeps
  <1>6. ASSUME NEW session \in Sessions, Opens(session) PROVE LogOpens' /\ LogSound'
    <2> DEFINE entry == Entry("open", {}, session)
    <2>1. /\ entry \in Entries /\ entry.action = "open" /\ entry.words = {}
          /\ entry.url = session.url /\ entry.ok = ~session.failed
      BY EntryType DEF Entry
    <2>2. /\ browser'.log = Append(browser.log, entry)
          /\ browser'.visited = Append(browser.visited, [url |-> entry.url, ok |-> entry.ok])
          /\ browser'.failure = ~entry.ok
      BY <1>6, <2>1, OpensFields DEF Sessions
    <2>3. ~session.failed => Allowed(session.url)
      BY <1>6 DEF Opens
    <2> HIDE DEF entry
    <2>4. LogTellsAll' /\ SafeOnly'
      BY <2>1, <2>2, <2>3, LogAppended DEF LogSound
    <2>5. NavigationsBounded'
      <3>1. Cardinality(Navigations(Append(browser.log, entry))) < MaxPages
        BY <1>2, <2>1, NavigationsAppended DEF LogSound, NavigationsBounded, Navigations
      <3> QED
        BY <2>2, <3>1 DEF NavigationsBounded, Navigations
    <2> QED
      BY <1>4, <2>1, <2>2, <2>4, <2>5 DEF LogSound
  <1>7. CASE loop.step = "extract-page" /\ Extracts
    <2>1. /\ browser'.log = browser.log /\ browser'.visited = browser.visited
          /\ browser'.page = browser.page /\ browser'.failure = pages[browser.page].failed
      BY <1>7, ExtractsFields
    <2>2. ~displaced => "extract-page" \notin Completed
      BY <1>1, <1>7, StepsAre, EarlierIsOrder DEF InOrder
    <2>3. ~displaced => browser'.failure = browser.failure
      BY <1>7, <2>1, <2>2 DEF PageKept, Extracts
    <2> QED
      BY <1>3, <2>1, <2>3
  <1>8. ASSUME NEW link \in Links, NEW session \in Sessions, Leads(link, session)
        PROVE  LogOpens' /\ LogSound'
    <2> DEFINE entry == Entry("navigate", link.words, session)
    <2>1. /\ entry \in Entries /\ entry.action = "navigate" /\ entry.words = link.words
          /\ entry.url = session.url /\ entry.ok = ~session.failed
      <3>1. link.words \in SUBSET STRING
        BY DEF Links
      <3> QED
        BY <3>1, EntryType DEF Entry
    <2>2. /\ browser'.log = Append(browser.log, entry)
          /\ browser'.visited = Append(browser.visited, [url |-> entry.url, ok |-> entry.ok])
          /\ browser'.failure = ~entry.ok
      BY <1>8, <2>1, LeadsFields DEF Sessions
    <2>3. /\ ~session.failed => Allowed(session.url)
          /\ "login" \notin link.words /\ MayFollow(browser)
      BY <1>8 DEF Leads
    <2> HIDE DEF entry
    <2>4. LogTellsAll' /\ SafeOnly'
      BY <2>1, <2>2, <2>3, LogAppended DEF LogSound
    <2>5. browser.log # <<>> /\ browser.log[1].action = "open" /\ Len(browser.log) < MaxPages
      BY <2>3 DEF MayFollow, LogOpens, LogSound, LogTellsAll
    <2>6. NavigationsBounded'
      <3>1. Cardinality(Navigations(Append(browser.log, entry))) < MaxPages
        BY <1>2, <2>1, <2>5, NavigationsAppended DEF LogSound, NavigationsBounded, Navigations
      <3> QED
        BY <2>2, <3>1 DEF NavigationsBounded, Navigations
    <2> QED
      BY <1>4, <2>1, <2>2, <2>4, <2>5, <2>6 DEF LogSound
  <1>9. CASE FindsNow
    BY <1>3, <1>9, FindsNowFields
  <1> QED
    BY <1>5, <1>6, <1>7, <1>8, <1>9 DEF Effect

-----------------------------------------------------------------------------
(* The work. *)

FindingsTell ==
  \E f \in browser.findings : f.text = browser.text /\ f.failure = browser.failure

\* What the steps that are done have left.
WorkDone ==
  /\ Done("open-page") => browser.text # NoUrl
  /\ Done("extract-findings") => FindingsTell
  /\ \A x \in Writes : Done(x) => x \in ToSet(artifacts)

Labels == Writes \cup {"workspace"}

LEMMA AttachedSet ==
  ASSUME artifacts \in Seq(Labels), NEW label \in Labels
  PROVE  Attached(label) \in Seq(Labels) /\ ToSet(Attached(label)) = ToSet(artifacts) \cup {label}
  <1>1. Append(artifacts, label) \in Seq(Labels)
    BY AppendProperties
  <1> QED
    BY <1>1, AppendSet DEF Attached

\* Only a file is attached, and only by the step that writes it.
LEMMA StepWorksArtifacts ==
  ASSUME RunSound, artifacts \in Seq(Labels), StepWorks
  PROVE  /\ artifacts' \in Seq(Labels) /\ ToSet(artifacts) \subseteq ToSet(artifacts')
         /\ loop.step \in Writes /\ loop'.pc = "saved" => loop.step \in ToSet(artifacts')
  <1>1. CASE PreparesWorkspace
    <2>1. artifacts' = Attached("workspace") /\ "workspace" \in Labels
      BY <1>1 DEF PreparesWorkspace, Labels
    <2>2. loop.step \notin Writes
      BY <1>1 DEF PreparesWorkspace, Working, Writes
    <2> QED
      BY <2>1, <2>2, AttachedSet
  <1>2. CASE WritesFile
    <2>1. loop.step \in Labels
      BY <1>2 DEF WritesFile, Labels
    <2>2. CASE artifacts' = Attached(loop.step)
      BY <2>1, <2>2, AttachedSet
    <2>3. CASE Throws /\ UNCHANGED artifacts
      BY <2>3, EndsPc
    <2> QED
      BY <1>2, <2>2, <2>3 DEF WritesFile
  <1>3. CASE OpensPage \/ ExtractsPage \/ FollowsLinks \/ ExtractsFindings
    <2>1. UNCHANGED artifacts /\ loop.step \notin Writes
      BY <1>3 DEF OpensPage, ExtractsPage, FollowsLinks, ExtractsFindings, Working, Writes
    <2> QED
      BY <2>1
  <1> QED
    BY <1>1, <1>2, <1>3 DEF StepWorks

LEMMA EffectWork ==
  ASSUME RunSound, RecordTyped, LoopSound, InOrder, CopyIsFresh, artifacts \in Seq(Labels),
         StepWorks, Ends, Effect, ShownIsOnePage, PageKept, WorkDone
  PROVE  WorkDone'
  <1>1. loop.pc = "working" /\ loop'.step = loop.step
    BY DEF Ends, Goes, RunSound, RunTypeOK
  <1>2. ASSUME NEW x \in Steps
        PROVE  /\ Done(x)' => x \in Completed \/ x = loop.step
               /\ Done(x)' /\ loop'.pc = "failing" => x \in Completed
    BY EndsDone
  <1>3. Completed = Earlier(loop.step) /\ loop.step \in Steps
    BY <1>1 DEF InOrder, LoopSound
  <1>4. loop'.pc \in {"saved", "failing"}
    BY DEF Ends, Goes, RunSound, RunTypeOK
  <1>5. \A x \in Writes : Done(x)' => x \in ToSet(artifacts')
    <2> SUFFICES ASSUME NEW x \in Writes, Done(x)' PROVE x \in ToSet(artifacts')
      OBVIOUS
    <2>1. CASE x \in Completed
      BY <2>1, StepWorksArtifacts DEF WorkDone, Done
    <2>2. CASE x \notin Completed
      BY <1>2, <1>4, <2>2, StepsAre, StepWorksArtifacts
    <2> QED
      BY <2>1, <2>2
  <1>6. {"open-page", "extract-page", "follow-links", "extract-findings"} \subseteq Steps
    BY StepsAre
  <1>7. CASE Keeps /\ (loop.step \in {"open-page", "extract-findings"} => loop'.pc = "failing")
    <2>1. ASSUME NEW x \in {"open-page", "extract-findings"}, Done(x)' PROVE x \in Completed
      BY <1>2, <1>6, <1>7, <2>1
    <2> QED
      BY <1>5, <1>7, <2>1 DEF WorkDone, Done, Keeps, FindingsTell
  <1>8. ASSUME NEW session \in Sessions, loop.step = "open-page", Opens(session)
        PROVE  WorkDone'
    <2>1. "open-page" \notin Completed /\ "extract-findings" \notin Completed
      BY <1>3, <1>6, <1>8, EarlierIsOrder, EarlierAre
    <2>2. ~Done("extract-findings")'
      BY <1>2, <1>6, <1>8, <2>1
    <2>3. Done("open-page")' => browser'.text # NoUrl
      <3> SUFFICES ASSUME Done("open-page")' PROVE browser'.text # NoUrl
        OBVIOUS
      <3>1. loop'.pc # "failing"
        BY <1>2, <1>6, <2>1
      <3>2. ~session.failed
        BY <1>8, <3>1 DEF Opens
      <3> QED
        BY <1>8, <3>2, OpensFields, BrowserAssumption DEF Sessions
    <2> QED
      BY <1>5, <2>2, <2>3 DEF WorkDone
  <1>9. CASE loop.step = "extract-page" /\ Extracts
    <2>1. "extract-findings" \notin Completed
      BY <1>3, <1>6, <1>9, EarlierIsOrder, EarlierAre
    <2>2. ~Done("extract-findings")'
      BY <1>2, <1>6, <1>9, <2>1
    <2>3. ~pages[browser.page].failed
      BY <1>1, <1>9, PageIsRead DEF Extracts
    <2>4. browser'.text # NoUrl
      BY <1>9, <2>3, ExtractsFields, BrowserAssumption DEF Sessions
    <2> QED
      BY <1>5, <2>2, <2>4 DEF WorkDone
  <1>10. ASSUME NEW link \in Links, NEW session \in Sessions, loop.step = "follow-links",
                Leads(link, session)
         PROVE  WorkDone'
    <2>1. "extract-findings" \notin Completed
      BY <1>3, <1>6, <1>10, EarlierIsOrder, EarlierAre
    <2>2. ~Done("extract-findings")'
      BY <1>2, <1>6, <1>10, <2>1
    <2>3. Done("open-page")' => Done("open-page")
      BY <1>2, <1>6, <1>10 DEF Done
    <2>4. browser'.text \in {browser.text, session.url} /\ session.url # NoUrl
      BY <1>10, LeadsFields, BrowserAssumption DEF Sessions
    <2> QED
      BY <1>5, <2>2, <2>3, <2>4 DEF WorkDone
  <1>11. CASE loop.step = "extract-findings" /\ FindsNow
    <2>1. Done("open-page")' => Done("open-page")
      BY <1>2, <1>6, <1>11 DEF Done
    <2>2. FindingsTell'
      <3> DEFINE f == [url |-> browser.url, text |-> browser.text, failure |-> browser.failure,
                       found |-> IF browser.failure THEN {} ELSE browser.found]
      <3>1. f \in browser'.findings
        BY <1>11, FindsNowFields DEF BuildFindings
      <3>2. f.text = browser'.text /\ f.failure = browser'.failure
        BY <1>11, FindsNowFields
      <3> QED
        BY <3>1, <3>2 DEF FindingsTell
    <2> QED
      BY <1>5, <1>11, <2>1, <2>2, FindsNowFields DEF WorkDone
  <1> QED
    BY <1>7, <1>8, <1>9, <1>10, <1>11 DEF Effect

-----------------------------------------------------------------------------
(* The inductive invariant. *)

\* Beside what the properties say: how the loop stands to the steps, that the copy
\* a step works on is not stale, and what the page in memory says of the record.
IInv ==
  /\ TypeOK /\ LoopSound /\ CopyIsFresh
  /\ ShownIsOnePage /\ PageKept
  /\ LogOpens /\ LogSound
  /\ ~displaced => InOrder /\ WorkDone

LEMMA TypeOKIs == TypeOK <=> RunSound /\ RecordTyped /\ artifacts \in Seq(Labels)
  BY DEF TypeOK, RunSound, RecordTyped, Copies, Labels

LEMMA NoBrowserType == NoBrowser \in Browsers
  <1>1. /\ <<>> \in Seq(Links) /\ <<>> \in Seq(Visits) /\ <<>> \in Seq(Entries)
        /\ {} \in SUBSET Finds /\ {} \in SUBSET Findings /\ NoUrl \in Pages
    BY DEF Pages
  <1> QED
    BY <1>1 DEF NoBrowser, Browsers

LEMMA InitSound == Init => IInv
  <1> SUFFICES ASSUME Init PROVE IInv
    OBVIOUS
  <1> USE DEF Init
  <1>1. ToSet(StepOrder) = Steps /\ StepOrder[1] = "prepare-workspace" /\ "prepare-workspace" \in Steps
    BY StepOrderIs, StepsAre DEF Steps
  <1>2. /\ status = "active" /\ refinements = <<>> /\ current = "prepare-workspace"
        /\ steps = [x \in Steps |-> IF x = "prepare-workspace" THEN "active" ELSE "pending"]
        /\ loop = [pc |-> "head", step |-> NoStep, read |-> {}]
        /\ chat = [m \in Messages |-> NoChat]
        /\ restarts = 0 /\ displaced = FALSE
    BY <1>1 DEF RunInit, NoLoop
  <1>3. Completed = {}
    BY <1>2 DEF Completed
  <1>4. RunSound
    <2>1. <<>> \in Seq(Refinements) /\ 0 \in 0..MaxRestarts
      BY BrowserAssumption
    <2> QED
      BY <1>1, <1>2, <2>1 DEF RunSound, RunTypeOK, NoChat
  <1>5. RecordTyped /\ ~Open(browser.page)
    BY NoBrowserType DEF RecordTyped, NoBrowser, Open
  <1>6. artifacts \in Seq(Labels)
    OBVIOUS
  <1>7. LoopSound /\ CopyIsFresh /\ InOrder
    BY <1>1, <1>2, <1>3 DEF LoopSound, CopyIsFresh, InOrder, Finished
  <1>8. WorkDone
    BY <1>2, <1>3 DEF WorkDone, Done
  <1>9. ShownIsOnePage /\ PageKept
    BY <1>5 DEF ShownIsOnePage, PageKept, NoBrowser
  <1>10. LogOpens /\ LogTellsAll /\ SafeOnly
    BY DEF LogOpens, LogTellsAll, SafeOnly, NoBrowser
  <1>11. NavigationsBounded
    <2>1. {i \in DOMAIN browser.log : browser.log[i].action = "navigate"} = {}
      BY DEF NoBrowser
    <2> QED
      BY <2>1, FS_EmptySet, BrowserAssumption DEF NavigationsBounded
  <1> QED
    BY <1>4, <1>5, <1>6, <1>7, <1>8, <1>9, <1>10, <1>11, TypeOKIs DEF IInv, LogSound

LEMMA StepWorksSound ==
  ASSUME IInv, StepWorks
  PROVE  IInv'
  <1>1. RunSound /\ RecordTyped /\ artifacts \in Seq(Labels)
    BY TypeOKIs DEF IInv
  <1>2. /\ Ends
        /\ UNCHANGED refinements \/ \E copy \in loop.read : refinements' = copy.refinements
    BY <1>1, StepWorksEnds
  <1>3. Effect
    BY <1>1, StepWorksIs DEF IInv
  <1>4. RunSound' /\ RecordTyped' /\ artifacts' \in Seq(Labels)
    BY <1>1, <1>2, <1>3, EndsType, EffectTyped, StepWorksArtifacts
  <1>5. LoopSound'
    BY <1>1, <1>2, EndsLoop DEF IInv
  <1>6. CopyIsFresh'
    BY <1>1, <1>2 DEF Ends, Goes, CopyIsFresh, RunSound, RunTypeOK
  <1>7. ShownIsOnePage' /\ PageKept'
    BY <1>1, <1>2, <1>3, EffectShown DEF IInv
  <1>8. LogOpens' /\ LogSound'
    BY <1>1, <1>2, <1>3, EffectLog DEF IInv
  <1>9. ~displaced' => InOrder' /\ WorkDone'
    <2> SUFFICES ASSUME ~displaced' PROVE InOrder' /\ WorkDone'
      OBVIOUS
    <2>1. InOrder /\ WorkDone
      BY <1>2 DEF Ends, IInv
    <2> QED
      BY <1>1, <1>2, <1>3, <2>1, EndsOrder, EffectWork DEF IInv
  <1>10. TypeOK'
    BY <1>4 DEF TypeOK, RunSound, RecordTyped, Copies, Labels
  <1> QED
    BY <1>5, <1>6, <1>7, <1>8, <1>9, <1>10 DEF IInv

\* The moves leave the record; a restart leaves no page.
LEMMA MovesSound ==
  ASSUME IInv, Moves, UNCHANGED <<browser, opened, artifacts>>,
         IF Restarts THEN pages' = <<>> ELSE UNCHANGED pages
  PROVE  IInv'
  <1>1. RunSound /\ RecordTyped /\ artifacts \in Seq(Labels) /\ LoopSound
    BY TypeOKIs DEF IInv
  <1>2. RunSound' /\ LoopSound'
    BY <1>1, MovesType, MovesLoop DEF RecordTyped
  <1>3. RecordTyped' /\ artifacts' \in Seq(Labels)
    BY <1>1 DEF RecordTyped
  <1>4. TypeOK'
    BY <1>2, <1>3 DEF TypeOK, RunSound, RecordTyped, Copies, Labels
  <1>5. CopyIsFresh'
    <2>1. loop'.pc = "working" => loop' = loop \/ StepBegins
      <3>1. Chooses(NextStep) => loop'.pc = "chosen"
        BY DEF Chooses, NoLoop
      <3>2. Advances => loop'.pc = "begun"
        BY <1>1 DEF Advances, Goes, RunSound, RunTypeOK
      <3>3. Completes => loop'.pc = "head"
        BY DEF Completes, NoLoop
      <3>4. Finishes(NextStep) \/ Fails \/ Restarts => loop'.pc = "off"
        BY DEF Finishes, Fails, Restarts, NoLoop
      <3>5. Pauses => loop' = loop
        BY DEF Pauses
      <3>6. Resumes => loop' = loop \/ loop'.pc = "head"
        BY DEF Resumes, NoLoop
      <3>7. \A m \in Messages : Refines(m, {}) \/ Persists(m) => loop' = loop
        BY DEF Refines, Persists
      <3> QED
        BY <3>1, <3>2, <3>3, <3>4, <3>5, <3>6, <3>7 DEF Moves
    <2>2. StepBegins => \A copy \in loop'.read : copy.browser = browser
      BY <1>1 DEF StepBegins, Begins, RunSound, RunTypeOK
    <2> QED
      BY <2>1, <2>2 DEF CopyIsFresh, IInv
  <1>6. ShownIsOnePage'
    BY DEF IInv, ShownIsOnePage, Open
  <1>7. ~displaced' => ~displaced
    BY <1>1 DEF Moves, Chooses, Advances, StepBegins, Begins, Completes, Finishes, Fails,
                Pauses, Resumes, Restarts, Refines, Persists, RunSound, RunTypeOK
  <1>8. ~displaced' => InOrder' /\ Completed \subseteq Completed'
    <2> SUFFICES ASSUME ~displaced' PROVE InOrder' /\ Completed \subseteq Completed'
      OBVIOUS
    <2>1. InOrder
      BY <1>7 DEF IInv
    <2> QED
      BY <1>1, <2>1, MovesOrder, MovesCompleted
  <1>9. LogOpens' /\ LogSound'
    BY <1>7 DEF IInv, LogOpens, LogSound, LogTellsAll, SafeOnly, NavigationsBounded
  <1>10. ~displaced' => WorkDone'
    <2> SUFFICES ASSUME ~displaced' PROVE WorkDone'
      OBVIOUS
    <2>1. InOrder /\ WorkDone
      BY <1>7 DEF IInv
    <2>2. ASSUME NEW x \in Steps PROVE Done(x)' => Done(x)
      BY <1>1, <2>1, MovesDone
    <2>3. Done("open-page")' => Done("open-page")
      BY <2>2, StepsAre
    <2>4. Done("extract-findings")' => Done("extract-findings")
      BY <2>2, StepsAre
    <2>5. \A x \in Writes : Done(x)' => Done(x)
      BY <2>2, StepsAre
    <2> QED
      BY <2>1, <2>3, <2>4, <2>5 DEF WorkDone, FindingsTell
  <1>11. PageKept'
    <2>1. loop.pc = "failing" =>
            loop'.pc = "failing" \/ status' = "failed" \/ Restarts
      BY DEF Moves, Chooses, Advances, StepBegins, Begins, Completes, Finishes, Fails,
             Pauses, Resumes, Refines, Persists
    <2>2. status = "failed" => status' = "failed"
      BY <1>1 DEF Moves, Chooses, Advances, StepBegins, Begins, Completes, Finishes, Fails,
                  Pauses, Resumes, Restarts, Refines, Persists, taskVars, LoopSound, Finished
    <2>3. Restarts => pages' = <<>>
      OBVIOUS
    <2> QED
      BY <1>7, <1>8, <2>1, <2>2, <2>3 DEF IInv, PageKept, Open
  <1> QED
    BY <1>2, <1>4, <1>5, <1>6, <1>7, <1>8, <1>9, <1>10, <1>11 DEF IInv

LEMMA NextSound ==
  ASSUME IInv, [Next]_vars
  PROVE  IInv'
  <1> DEFINE Other == \/ Chooses(NextStep) \/ Advances \/ StepBegins \/ Completes
                      \/ Finishes(NextStep) \/ Fails \/ Pauses \/ Resumes
                      \/ \E m \in Messages : Refines(m, {}) \/ Persists(m)
  <1>1. CASE StepWorks
    BY <1>1, StepWorksSound
  <1>2. CASE RestartsAgent
    BY <1>2, MovesSound DEF RestartsAgent, Moves
  <1>3. CASE Other /\ UNCHANGED workVars
    <2>1. UNCHANGED restarts
      BY <1>3 DEF Chooses, Advances, StepBegins, Begins, Completes, Finishes, Fails,
                  Pauses, Resumes, Refines, Persists
    <2>2. restarts \in Int
      BY BrowserAssumption DEF IInv, TypeOK, RunTypeOK
    <2>3. ~Restarts
      BY <2>1, <2>2 DEF Restarts
    <2> QED
      BY <1>3, <2>3, MovesSound DEF Moves, workVars
  <1>4. CASE UNCHANGED vars
    <2> USE <1>4 DEF vars, runVars, taskVars, workVars
    <2>1. TypeOK' /\ LoopSound' /\ CopyIsFresh' /\ InOrder' = InOrder
      BY DEF IInv, TypeOK, RunTypeOK, LoopSound, CopyIsFresh, InOrder, Completed, Finished
    <2>2. ShownIsOnePage' /\ PageKept' /\ LogOpens' /\ LogSound'
      BY DEF IInv, ShownIsOnePage, PageKept, Open, LogOpens, LogSound, LogTellsAll, SafeOnly,
             NavigationsBounded, Completed
    <2>3. WorkDone' = WorkDone
      BY DEF WorkDone, Done, FindingsTell, Completed
    <2> QED
      BY <2>1, <2>2, <2>3 DEF IInv
  <1> QED
    BY <1>1, <1>2, <1>3, <1>4 DEF Next

-----------------------------------------------------------------------------
(* The theorems. *)

\* The inductive invariant holds throughout.
THEOREM BrowserInvariant == Spec => []IInv
  <1>1. Init => IInv
    BY InitSound
  <1>2. IInv /\ [Next]_vars => IInv'
    BY NextSound
  <1> QED
    BY <1>1, <1>2, PTL DEF Spec

\* Whatever is tried, repeated or interrupted by a restart, the record of the task
\* is well formed and shows one page, which was read.
THEOREM RecordIsSound == Spec => []RecordSound
  <1>1. IInv => RecordSound
    BY DEF IInv, RecordSound
  <1> QED
    BY <1>1, BrowserInvariant, PTL

\* A task is not completed before it has read a page, told what it found there and
\* written its files.
THEOREM CompletedHasRead == Spec => []CompletedWasRead
  <1>1. IInv => CompletedWasRead
    <2> SUFFICES ASSUME IInv, status = "completed", ~displaced
                 PROVE  /\ browser.text # NoUrl
                        /\ FindingsTell /\ Writes \subseteq ToSet(artifacts)
      BY DEF CompletedWasRead, FindingsTell
    <2>1. Completed = Steps /\ WorkDone
      BY DEF IInv, InOrder
    <2> QED
      BY <2>1, StepsAre DEF WorkDone, Done
  <1> QED
    BY <1>1, BrowserInvariant, PTL

\* What the task has done on the web is all told, and was safe and within its limit.
THEOREM LogIsSound == Spec => []LogSound
  <1>1. IInv => LogSound
    BY DEF IInv
  <1> QED
    BY <1>1, BrowserInvariant, PTL
=============================================================================
