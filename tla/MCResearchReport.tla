--------------------------- MODULE MCResearchReport ---------------------------
(* Model values for TLC. *)
EXTENDS ResearchReport

MCUrls == {"u1", "u2", "u3", "u4"}
MCNoUrl == "invalid"
MCIntent == {"statistical"}

Plain(url, overlap) ==
  [url |-> url, overlap |-> overlap, exact |-> FALSE, official |-> FALSE, recent |-> FALSE,
   blog |-> FALSE, offTopic |-> FALSE, signals |-> {}, snippet |-> TRUE]

Direct(url) ==
  [Plain(url, 100) EXCEPT !.exact = TRUE, !.official = TRUE, !.signals = {"statistical"}]
Supporting(url) == Plain(url, 60)
Tangential(url) == Plain(url, 10)
Blog(url) == [Supporting(url) EXCEPT !.blog = TRUE, !.signals = {"statistical"}]
Bare(url) == [Direct(url) EXCEPT !.snippet = FALSE]

MCMessages == {[says |-> says, about |-> NoWord] : says \in {"summaryFirst", "noBlogs"}}

\* A source without a snippet and one beside the question; and a search with
\* every kind of result the selection tells apart.
MCSearches ==
  {<<Bare("u1"), Tangential("u2")>>,
   <<Supporting("u2"), Bare("u1"), Supporting("u1"), Blog("u3"), Supporting("invalid")>>}

MCAddress ==
  [u \in MCUrls |-> [web |-> TRUE, credentials |-> FALSE, host |-> "public", domain |-> u]]

\* An article, one behind a banner of links, mere scripts.
Article ==
  [chars |-> 1600, density |-> 600, links |-> 50, technical |-> 0, boilerplate |-> 10,
   editorial |-> 900, hinted |-> TRUE]
Noisy == [Article EXCEPT !.links = 600, !.technical = 250, !.editorial = 300]
Scripts == [Article EXCEPT !.technical = 700, !.density = 100, !.editorial = 50]
Answer(texts) ==
  [kind |-> "answer", status |-> 200, type |-> "html", texts |-> texts, words |-> {},
   links |-> <<>>]

\* The first page has moved to where the fourth one is; without the network all
\* are refused.
MCWebs ==
  {[u1 |-> [kind |-> "redirect", to |-> "u4"], u2 |-> Answer(<<Noisy>>),
    u3 |-> Answer(<<Scripts>>), u4 |-> Answer(<<[Scripts EXCEPT !.chars = 3000], Article>>)]}
=============================================================================
