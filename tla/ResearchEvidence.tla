--------------------------- MODULE ResearchEvidence ---------------------------
(***************************************************************************)
(* How a research report grades what it has found: the pure functions of   *)
(* packages/task-runtime that score and select search results, choose the  *)
(* pages to read, grade the evidence of every source and decide whether    *)
(* there is basis enough for a report.                                     *)
(*                                                                         *)
(* A search result keeps what the functions look at: its normalised URL,   *)
(* the share of the words of the question it contains, the signals its     *)
(* text gives, and whether it has a snippet.  Scores are in thousandths.   *)
(* Texts, reasons, notes and time stamps are left out.                     *)
(***************************************************************************)
EXTENDS WebPageReader, TaskInterrupt

CONSTANTS
  NoUrl,    \* a URL that cannot be parsed or is not http(s)
  Intent    \* the signals the objective asks for

Signals == {"statistical", "consumption", "audience"}

ASSUME EvidenceAssumption == NoUrl \notin Urls /\ Intent \subseteq Signals

Results ==
  [url : Urls \cup {NoUrl}, overlap : 0..100, exact : BOOLEAN, official : BOOLEAN,
   recent : BOOLEAN, blog : BOOLEAN, offTopic : BOOLEAN, signals : SUBSET Signals,
   snippet : BOOLEAN]

Relevances == {"direct", "supporting", "tangential", "insufficient"}
Strengths == {"strong", "medium", "weak", "tangential", "insufficient"}
Qualities == {"none", "high", "medium", "low"}
Usages == {"primary", "secondary", "discarded"}

-----------------------------------------------------------------------------
(* scoreResearchSource. *)

Points(condition, points) == IF condition THEN points ELSE 0

Asked(result, signal, found, missing) ==
  IF signal \notin Intent THEN 0
  ELSE IF signal \in result.signals THEN found ELSE missing

\* What being about something else costs: less when there is something to use.
Collateral(result) ==
  IF ~result.offTopic THEN 0
  ELSE IF result.overlap < 45 /\ result.signals = {} THEN -220 ELSE -80

\* Of the refinements in force three matter here.
Total(result, refinements) ==
  LET statistical == "statistical" \in result.signals
  IN  200 + (580 * result.overlap) \div 100
      + Points(result.exact, 140)
      + Points(result.official, IF Output.official \in refinements THEN 140 ELSE 80)
      + Points(result.recent /\ Output.recent \in refinements, 80)
      + Points(statistical, 80) + Asked(result, "statistical", 80, 0)
      + Asked(result, "consumption", 120, -140)
      + Asked(result, "audience", 120, -160)
      + Points(result.blog, -180)
      + Collateral(result)
      + Points(result.overlap = 0, -280)
      + Points(result.official /\ statistical /\ result.overlap >= 30, 50)

Score(result, refinements) ==
  LET points == Total(result, refinements)
  IN  IF points < 0 THEN 0 ELSE IF points > 1000 THEN 1000 ELSE points

Relevance(score) ==
  CASE score >= 720 -> "direct"
    [] score >= 480 /\ score < 720 -> "supporting"
    [] score >= 240 /\ score < 480 -> "tangential"
    [] OTHER -> "insufficient"

-----------------------------------------------------------------------------
(* selectResearchSources. *)

\* Mutant: only a result that was kept makes a later one a duplicate by its text.
Verdict_Repeats(results, i, refinements) ==
  LET result == results[i]
  IN  CASE result.url = NoUrl -> "invalid_url"
        [] result.url # NoUrl /\ Output.noBlogs \in refinements /\ result.blog -> "blog_excluded"
        [] OTHER -> IF Relevance(Score(result, refinements)) = "insufficient"
                    THEN "low_relevance" ELSE "selected"

\* What becomes of the i-th result; every earlier valid URL has been seen.
Verdict(results, i, refinements) ==
  LET result == results[i]
      seen == \E j \in 1..i - 1 : results[j].url = result.url
  IN  CASE result.url = NoUrl -> "invalid_url"
        [] result.url # NoUrl /\ seen -> "duplicate_url"
        [] result.url # NoUrl /\ ~seen /\ Output.noBlogs \in refinements /\ result.blog ->
             "blog_excluded"
        [] OTHER -> IF Relevance(Score(result, refinements)) = "insufficient"
                    THEN "low_relevance" ELSE "selected"

\* A source: the result it comes from, how it was rated, and what has been
\* read of it.
Sources(n) ==
  [result : 1..n, relevance : Relevances, score : 0..1000, snippet : BOOLEAN,
   usedAs : {"page_read", "snippet_only", "discarded"},
   level : {"page_read", "snippet_only", "none"}, strength : Strengths, use : Usages,
   fetched : {"no", "ok", "failed"}, quality : Qualities, noise : BOOLEAN,
   excerpt : BOOLEAN]

InitialStrength(relevance) ==
  CASE relevance = "direct" -> "medium"
    [] relevance = "supporting" -> "weak"
    [] relevance = "tangential" -> "tangential"
    [] OTHER -> "insufficient"

Candidate(results, i, refinements) ==
  LET score == Score(results[i], refinements)
      relevance == Relevance(score)
  IN  [result |-> i, relevance |-> relevance, score |-> score,
       snippet |-> results[i].snippet, usedAs |-> "snippet_only",
       level |-> "snippet_only", strength |-> InitialStrength(relevance),
       use |-> IF relevance = "direct" THEN "primary" ELSE "secondary",
       fetched |-> "no", quality |-> "none", noise |-> FALSE, excerpt |-> FALSE]

\* By score, then official domains first, then by title (here: as found).
RanksBefore(results, s, t) ==
  \/ s.score > t.score
  \/ s.score = t.score /\ results[s.result].official /\ ~results[t.result].official
  \/ /\ s.score = t.score /\ results[s.result].official = results[t.result].official
     /\ s.result < t.result

Candidates(results, refinements) ==
  {Candidate(results, i, refinements) :
     i \in {k \in DOMAIN results : Verdict(results, k, refinements) = "selected"}}

Ranked(results, S) ==
  [k \in 1..Cardinality(S) |->
     CHOOSE s \in S : Cardinality({t \in S : RanksBefore(results, t, s)}) = k - 1]

Select(results, refinements, maxPages) ==
  LET ranked == Ranked(results, Candidates(results, refinements))
      ToBeRead(k) ==
        /\ ranked[k].relevance # "tangential"
        /\ Cardinality({j \in 1..k - 1 : ranked[j].relevance # "tangential"}) < maxPages
  IN  [k \in DOMAIN ranked |->
         [ranked[k] EXCEPT !.usedAs = IF ToBeRead(k) THEN "page_read" ELSE "snippet_only"]]

-----------------------------------------------------------------------------
(* The step fetch-pages. *)

\* The first `n` members of a set of positions.
FirstOf(S, n) == {k \in S : Cardinality({j \in S : j < k}) < n}

\* Those meant to be read, then, while there is room, the others in order.
PagesToRead(selected, maxPages) ==
  LET meant == FirstOf({k \in DOMAIN selected : selected[k].usedAs = "page_read"}, maxPages)
  IN  meant \cup FirstOf(DOMAIN selected \ meant, maxPages - Cardinality(meant))

\* The tool web-page-reader.fetch-page: it throws in a session that is local only.
FetchPage(web, url, localOnly) ==
  IF localOnly THEN [NothingRead EXCEPT !.status = "forbidden"] ELSE FetchPageContent(web, url)

StrengthOfRead(relevance, quality) ==
  CASE quality = "high" -> IF relevance = "direct" THEN "strong" ELSE "medium"
    [] quality = "medium" -> IF relevance = "direct" THEN "medium" ELSE "weak"
    [] OTHER -> "weak"

UseOf(strength) ==
  CASE strength \in {"strong", "medium"} -> "primary"
    [] strength = "weak" -> "secondary"
    [] OTHER -> "discarded"

SnippetLevel(source) == IF source.snippet THEN "snippet_only" ELSE "none"

\* A source whose page was to be read; its earlier text and quality stay when a
\* later attempt brings nothing, and so does the noise when the tool throws.
Read(source, page) ==
  IF page.status = "ok"
  THEN LET strength == StrengthOfRead(source.relevance, page.quality)
       IN  [source EXCEPT !.fetched = "ok", !.excerpt = TRUE, !.quality = page.quality,
                          !.noise = page.noise, !.level = "page_read",
                          !.strength = strength, !.usedAs = "page_read",
                          !.use = IF strength = "weak" THEN "secondary" ELSE "primary"]
  ELSE [source EXCEPT !.fetched = "failed",
                      !.noise = IF page.status = "forbidden" THEN @ ELSE page.noise,
                      !.level = SnippetLevel(source),
                      !.strength = IF source.snippet THEN "weak" ELSE "insufficient",
                      !.usedAs = IF source.snippet THEN "snippet_only" ELSE "discarded",
                      !.use = IF source.snippet THEN "secondary" ELSE "discarded"]

NotRead(source) ==
  [source EXCEPT !.usedAs = "snippet_only", !.level = SnippetLevel(source)]

\* Reading is switched off.
SnippetOnly(source) ==
  [source EXCEPT !.fetched = "no", !.level = SnippetLevel(source),
                 !.strength = IF source.snippet THEN "weak" ELSE "insufficient",
                 !.usedAs = IF source.snippet THEN "snippet_only" ELSE "discarded"]

-----------------------------------------------------------------------------
(* The step extract-evidence. *)

Basis(source) ==
  IF source.excerpt THEN "page_content" ELSE IF source.snippet THEN "snippet" ELSE "none"

Downgraded(strength) ==
  CASE strength = "strong" -> "medium"
    [] strength = "medium" -> "weak"
    [] strength = "weak" -> "tangential"
    [] OTHER -> "insufficient"

\* Mutant: a page read well counts whatever it is about.
EvidenceStrength_ByQuality(source) ==
  IF Basis(source) = "none" THEN "insufficient"
  ELSE IF Basis(source) = "snippet" THEN "weak"
  ELSE StrengthOfRead("direct", source.quality)

\* deriveEvidenceStrength.
EvidenceStrength(source) ==
  LET basis == Basis(source)
      grade ==
        IF basis = "snippet" THEN "weak"
        ELSE CASE source.quality = "high" /\ source.relevance = "direct" -> "strong"
               [] source.quality = "high" /\ source.relevance = "supporting" -> "medium"
               [] source.quality = "medium" /\ source.relevance = "direct" -> "medium"
               [] OTHER -> "weak"
  IN  CASE basis = "none" \/ source.relevance = "insufficient" -> "insufficient"
        [] basis # "none" /\ source.relevance = "tangential" -> "tangential"
        [] OTHER -> IF source.noise THEN Downgraded(grade) ELSE grade

\* buildEvidenceFromResearch: one record for every selected source.
Evidence(selected) ==
  [k \in DOMAIN selected |->
     [result |-> selected[k].result, basis |-> Basis(selected[k]),
      strength |-> EvidenceStrength(selected[k]),
      use |-> UseOf(EvidenceStrength(selected[k]))]]

EvidenceRecords(n) ==
  [result : 1..n, basis : {"page_content", "snippet", "none"}, strength : Strengths,
   use : Usages]

\* The sources take over what the evidence says of them, if it says anything.
Graded(selected, evidence) ==
  [k \in DOMAIN selected |->
     IF evidence[k].basis = "none" THEN selected[k]
     ELSE [selected[k] EXCEPT !.level = IF evidence[k].basis = "page_content"
                                        THEN "page_read" ELSE "snippet_only",
                              !.strength = evidence[k].strength,
                              !.use = evidence[k].use]]

-----------------------------------------------------------------------------
(* determineReportReadiness and summarizeResearchQuality. *)

Having(evidence, strength) ==
  Cardinality({k \in DOMAIN evidence : evidence[k].strength = strength})

ReadWell(selected) == Cardinality({k \in DOMAIN selected : selected[k].quality = "high"})

Readiness(selected, evidence) ==
  LET strong == Having(evidence, "strong")
      medium == Having(evidence, "medium")
      weak == Having(evidence, "weak")
      tangential == Having(evidence, "tangential")
      solid == /\ strong >= 1
               /\ ReadWell(selected) >= 1 \/ medium >= 2
               /\ tangential <= strong + medium
      limited == medium >= 1 \/ (weak >= 2 /\ tangential < Len(selected))
  IN  IF selected = <<>> THEN "insufficient"
      ELSE IF solid THEN "solid"
      ELSE IF limited THEN "limited" ELSE "insufficient"

\* limitationsRequired: whether the report must say what it lacks.
LimitationsRequired(selected, evidence) ==
  LET read == Cardinality({k \in DOMAIN selected :
                             selected[k].level = "page_read" \/ selected[k].fetched = "ok"})
      snippets == Cardinality({k \in DOMAIN selected :
                                 \/ selected[k].level = "snippet_only"
                                 \/ selected[k].usedAs = "snippet_only"})
      snippetDominant == snippets > 0 /\ snippets >= read
  IN  \/ Readiness(selected, evidence) # "solid"
      \/ snippetDominant
      \/ \E k \in DOMAIN selected : \/ selected[k].relevance = "tangential"
                                    \/ selected[k].strength = "tangential"
                                    \/ selected[k].quality = "low"
=============================================================================
