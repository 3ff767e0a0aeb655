---------------------------- MODULE MCBrowserRead ----------------------------
(* Model values for TLC. *)
EXTENDS BrowserRead

MCUrls == {"home", "report", "blog", "login", "local"}

MCAddress ==
  [u \in MCUrls |->
     [web |-> TRUE, credentials |-> FALSE,
      host |-> IF u = "local" THEN "local" ELSE "public",
      domain |-> IF u \in {"home", "login"} THEN "a.org" ELSE u]]

\* A refinement, and a correction that must be asked back.
MCMessages ==
  {[says |-> "follow the link", about |-> "blog"], [says |-> "change the focus", about |-> NoWord]}

MCTargetQuery == "prices"
MCInitialUrl == "home"
MCOfficial == {"report"}
MCBlogs == {"blog"}

Link(url, words) == [url |-> url, words |-> words]

\* The first page has a link of every kind, and one of them twice.
HomeLinks ==
  <<Link("login", {"login", "report"}), Link("report", {"report", "prices"}),
    Link("local", {}), Link("blog", {"blog"}), Link("report", {"blog"})>>

Document(links, words) ==
  [kind |-> "answer", status |-> 200, type |-> "html", texts |-> <<>>, words |-> words,
   links |-> links]

RefusedWith(code) == [Document(<<>>, {}) EXCEPT !.status = code]
TimesOut == [kind |-> "thrown", error |-> "timeout"]
To(url) == [kind |-> "redirect", to |-> url]

\* A report that has moved, one that has moved to a local host, and a web that is down.
MCWebs ==
  {[home |-> Document(HomeLinks, {"prices"}), report |-> To("blog"),
    blog |-> Document(<<Link("home", {"prices"})>>, {"blog"}), login |-> Document(<<>>, {}),
    local |-> Document(<<>>, {})],
   [home |-> Document(HomeLinks, {}), report |-> To("local"), blog |-> RefusedWith(404),
    login |-> Document(<<>>, {}), local |-> Document(<<>>, {})],
   [u \in MCUrls |-> TimesOut]}
=============================================================================
