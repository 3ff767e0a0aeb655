---------------------------- MODULE WebPageReader ----------------------------
(***************************************************************************)
(* integrations/web-page-reader: how a page of the web is fetched, how its *)
(* text is chosen and rated, and which of its links may be followed.       *)
(*                                                                         *)
(* A web says what every URL answers.  Of a text its measures are kept,    *)
(* shares in thousandths; of a page or a link the words it has that        *)
(* somebody looks for.  HTML, excerpts and messages are left out; a        *)
(* response gives its own URL, a failure the one that was asked for first. *)
(***************************************************************************)
EXTENDS Integers, SequencesExt

CONSTANTS
  Urls,      \* normalised URLs
  Address    \* what is in each of them

ASSUME AddressAssumption ==
  Address \in [Urls -> [web : BOOLEAN, credentials : BOOLEAN,
                        host : {"public", "local", "private"}, domain : STRING]]

\* What an address may answer.
Links == [url : Urls, words : SUBSET STRING]
Responses ==
  [kind : {"redirect"}, to : Urls] \cup [kind : {"thrown"}, error : {"timeout", "error"}]
  \cup [kind : {"answer"}, status : Nat, type : {"html", "plain", "other"},
        texts : Seq([chars : Nat, density : Nat, links : Nat, technical : Nat,
                     boilerplate : Nat, editorial : Nat, hinted : BOOLEAN]),
        words : SUBSET STRING, links : Seq(Links)]
IsWeb(web) == \A url \in Urls : web[url] \in Responses

-----------------------------------------------------------------------------
(* Fetching. *)

\* validateFetchUrl: a public host of the web, without credentials.
Allowed(url) ==
  Address[url].web /\ ~Address[url].credentials /\ Address[url].host = "public"

Thrown(error) == [kind |-> "thrown", error |-> error]

Redirects(web, url) == web[url].kind = "redirect"

\* The URL to ask after this one.
Hop(web, url) ==
  IF Redirects(web, url) /\ Allowed(web[url].to) THEN web[url].to ELSE url

\* fetchWithLimitedRedirects, with three of them: what the web answers and the URL
\* that is reported, the one that answered or, when nothing did, the one that was given.
FetchWithLimitedRedirects(web, url) ==
  LET last == Hop(web, Hop(web, Hop(web, url)))
  IN  CASE ~Allowed(url) -> [url |-> url, response |-> Thrown("blocked")]
        [] Allowed(url) /\ ~Redirects(web, last) ->
             [url |-> IF web[last].kind = "answer" THEN last ELSE url, response |-> web[last]]
        [] OTHER -> [url |-> url,
                     response |-> Thrown(IF Allowed(web[last].to) THEN "redirect" ELSE "blocked")]

\* What the fetch comes to before any text is looked at.
Outcome(response) ==
  CASE response.kind = "thrown" -> response.error
    [] response.kind = "answer" ->
         IF response.status \in {401, 403} THEN "blocked"
         ELSE IF response.status # 200 THEN "http"
         ELSE IF response.type = "other" THEN "type" ELSE "read"

-----------------------------------------------------------------------------
(* The text of a page. *)

MinChars == 220
MinDensity == 180
MaxLinkDensity == 550

AtLeast0(n) == IF n < 0 THEN 0 ELSE n
AtMost(n, m) == IF n < m THEN n ELSE m

\* A common multiple of what the scores are divided by.
Whole == 693000

\* The quality score of a text, in hundredths of Whole.
QualityScore(text) ==
  AtMost(100 * Whole,
    28 * AtMost(Whole, text.chars * 630)
    + 22 * AtMost(Whole, text.density * 1750)
    + 14 * AtLeast0(Whole - text.links * 900)
    + 16 * AtLeast0(Whole - text.technical * 1540)
    + 10 * AtLeast0(Whole - text.boilerplate * 2310)
    + 10 * text.editorial * 693
    + (IF text.hinted THEN 6 * Whole ELSE 0))

ClassifyReadQuality(text) ==
  IF /\ QualityScore(text) >= 74 * Whole
     /\ text.chars >= 330 /\ text.density >= MinDensity
     /\ text.links <= MaxLinkDensity /\ text.technical <= 180
     /\ text.boilerplate <= 100 /\ text.editorial >= 320
  THEN "high"
  ELSE IF /\ QualityScore(text) >= 50 * Whole
          /\ text.chars >= MinChars /\ 10 * text.density >= 8 * MinDensity
          /\ text.technical <= 320 /\ text.editorial >= 160
  THEN "medium" ELSE "low"

\* The best score, then the longest; of equals the one that comes first.
BestCandidate(texts) ==
  LET Beats(i, j) == \/ QualityScore(texts[i]) > QualityScore(texts[j])
                     \/ /\ QualityScore(texts[i]) = QualityScore(texts[j])
                        /\ texts[i].chars > texts[j].chars
  IN  CHOOSE i \in DOMAIN texts :
        /\ \A j \in DOMAIN texts : ~Beats(j, i)
        /\ \A j \in 1..i - 1 : Beats(i, j)

\* extractReadableText: how much there is, how dense, how good, and whether a note
\* says that it is noisy.
Readable(response) ==
  IF response.type = "plain"
  THEN LET chars == response.texts[1].chars
       IN  [chars |-> chars, density |-> 1000, noise |-> FALSE,
            quality |-> IF chars >= 2 * MinChars THEN "high"
                        ELSE IF chars >= MinChars THEN "medium" ELSE "low"]
  ELSE IF response.texts = <<>>
  THEN [chars |-> 0, density |-> 0, noise |-> FALSE, quality |-> "low"]
  ELSE LET text == response.texts[BestCandidate(response.texts)]
           quality == ClassifyReadQuality(text)
       IN  [chars |-> text.chars, density |-> text.density, quality |-> quality,
            noise |-> \/ text.technical > 220 \/ text.links > MaxLinkDensity
                      \/ quality = "low"]

NothingRead == [status |-> "error", quality |-> "none", noise |-> FALSE]

\* fetchPageContent of the reader.
FetchPageContent(web, url) ==
  IF ~Allowed(url) THEN [NothingRead EXCEPT !.status = "blocked"]
  ELSE LET response == FetchWithLimitedRedirects(web, url).response
           outcome == Outcome(response)
       IN  CASE outcome = "timeout" -> [NothingRead EXCEPT !.status = "timeout"]
          [] outcome \in {"blocked", "type"} -> [NothingRead EXCEPT !.status = "blocked"]
          [] outcome = "read" ->
               LET text == Readable(response)
               IN  IF text.chars < MinChars \/ text.density < (45 * MinDensity) \div 100
                   THEN [status |-> "unreadable", quality |-> "none", noise |-> text.noise]
                   ELSE [status |-> "ok", quality |-> text.quality, noise |-> text.noise]
          [] OTHER -> NothingRead

PageContents ==
  [status : {"ok", "unreadable", "blocked", "timeout", "error"},
   quality : {"none", "high", "medium", "low"}, noise : BOOLEAN]

-----------------------------------------------------------------------------
(* The links of a page. *)

\* A link that reads like an action is left to the user.
ClassifyLinkSafety(link) ==
  IF ~Allowed(link.url) THEN "blocked"
  ELSE IF "login" \in link.words THEN "confirm" ELSE "safe"

\* The n-th of a set of positions; the positions where a URL is for the first time.
Nth(S, n) == CHOOSE i \in S : Cardinality({j \in S : j < i}) = n - 1
FirstOfUrl(links) ==
  {i \in DOMAIN links : \A j \in 1..i - 1 : links[j].url # links[i].url}

\* extractVisibleLinksFromHtml: every URL once, in the order of the page.
VisibleLinks(response, maxLinks) ==
  LET first == FirstOfUrl(response.links)
  IN  [n \in 1..AtMost(Cardinality(first), maxLinks) |-> response.links[Nth(first, n)]]
=============================================================================
