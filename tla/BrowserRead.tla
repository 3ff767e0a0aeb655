----------------------------- MODULE BrowserRead -----------------------------
(***************************************************************************)
(* A browser reading task of packages/task-runtime: the runner of          *)
(* browser-read-basic.ts in the loop of TaskRun, and the provider of       *)
(* integrations/web-page-reader that holds its pages in memory.            *)
(*                                                                         *)
(* The runner reads the whole metadata of the task when a step begins and  *)
(* saves all of it when the step is done: the browser record that only it  *)
(* changes, and the list of refinements that the chat changes too.         *)
(***************************************************************************)
EXTENDS WebPageReader, TaskRun

CONSTANTS
  InitialUrl,    \* the page the task is about
  TargetQuery,   \* the word its objective asks for, or NoWord
  Webs,          \* what the web may answer
  Official,      \* URLs of official domains
  Blogs,         \* URLs of blogs
  MaxPages,      \* maxPagesPerTask
  MaxLinks       \* maxLinksPerPage

VARIABLES
  browser,     \* metadata.browser
  pages,       \* the sessions of the provider by page id; ids are counted
  opened,      \* how many ids it has given
  artifacts    \* the files of the task, in the order in which they were attached

workVars == <<browser, pages, opened, artifacts>>
vars == <<runVars, workVars>>

NoUrl == "no url"

StepOrder ==
  <<"prepare-workspace", "open-page", "extract-page", "follow-links", "extract-findings",
    "write-browser-notes", "write-browser-snapshot", "write-navigation-log">>

Steps == ToSet(StepOrder)
Writes == {"write-browser-notes", "write-browser-snapshot", "write-navigation-log"}

ASSUME BrowserAssumption ==
  /\ InitialUrl \in Urls /\ NoUrl \notin Urls
  /\ \A web \in Webs : IsWeb(web)
  /\ BrowserTask
  /\ Official \cup Blogs \subseteq Urls
  /\ MaxPages \in Nat \ {0} /\ MaxLinks \in Nat /\ MaxRestarts \in Nat

\* `text` and `links` say whose they are; `found` is the last search on a page.
NoBrowser ==
  [page |-> 0, url |-> NoUrl, text |-> NoUrl, links |-> [of |-> NoUrl, list |-> <<>>],
   found |-> {}, visited |-> <<>>, log |-> <<>>, failure |-> FALSE, findings |-> {}]

-----------------------------------------------------------------------------
(* The provider. *)

\* A page that could not be read has neither text nor links.
Unread(url) == [url |-> url, failed |-> TRUE, words |-> {}, links |-> <<>>]

ReadPage(url, response) ==
  [url |-> url, failed |-> FALSE, words |-> response.words,
   links |-> VisibleLinks(response, MaxLinks)]

\* fetchBrowserPageSession.
PageSession(web, url) ==
  LET fetched == FetchWithLimitedRedirects(web, url)
  IN  IF Outcome(fetched.response) = "read" THEN ReadPage(fetched.url, fetched.response)
      ELSE Unread(fetched.url)

\* A restart leaves the provider without pages.
Open(page) == page \in DOMAIN pages

-----------------------------------------------------------------------------
(* What the runner makes of the metadata. *)

FindQuery(asked) ==
  IF Latest(asked, "browser_find_text") = NoWord THEN TargetQuery
  ELSE Latest(asked, "browser_find_text")

Points(condition, points) == IF condition THEN points ELSE 0

SameDomain(url, from) == Address[url].domain = Address[from].domain

\* scoreBrowserLink, for a link of the page `from`.
ScoreLink(link, from, asked) ==
  IF ClassifyLinkSafety(link) # "safe" THEN -100
  ELSE Points(SameDomain(link.url, from), 7)
       + Points(FindQuery(asked) \in link.words, 6)
       + Points(Latest(asked, "browser_follow_link") \in link.words, 8)
       + Points(Latest(asked, "source_preference") = "official" /\ link.url \in Official, 7)
       + Points(Latest(asked, "source_exclusion") = "blogs" /\ link.url \in Blogs, -12)
       + Points("report" \in link.words, 3)

\* selectBestLink: {} or the first of the links with the highest score above zero.
BestLink(links, asked) ==
  LET score == [i \in DOMAIN links.list |-> ScoreLink(links.list[i], links.of, asked)]
  IN  {links.list[i] : i \in {k \in DOMAIN score :
         /\ score[k] > 0
         /\ \A j \in DOMAIN score : score[j] < score[k] \/ (score[j] = score[k] /\ j >= k)}}

\* buildFindings: what is said of the current page, and of the last failure.
BuildFindings(b) ==
  {[url |-> b.url, text |-> b.text, failure |-> b.failure,
    found |-> IF b.failure THEN {} ELSE b.found]}

Entry(action, words, session) ==
  [action |-> action, words |-> words, url |-> session.url, ok |-> ~session.failed]

Shown(b, session) ==
  [b EXCEPT !.url = session.url, !.text = IF session.failed THEN NoUrl ELSE session.url,
            !.links = [of |-> session.url, list |-> session.links],
            !.failure = session.failed]

Told(b, entry) ==
  [b EXCEPT !.visited = Append(@, [url |-> entry.url, ok |-> entry.ok]), !.log = Append(@, entry)]

-----------------------------------------------------------------------------
(* The steps. *)

Attached(label) == IF label \in ToSet(artifacts) THEN artifacts ELSE Append(artifacts, label)

\* mergeMetadata with all that the step has read, the refinements included.
Merges(copy, b) == browser' = b /\ refinements' = copy.refinements /\ Saves

\* The step ends without having saved anything.
Leaves == UNCHANGED <<steps, refinements, browser>>

PreparesWorkspace ==
  /\ Working("prepare-workspace")
  /\ artifacts' = Attached("workspace")
  /\ Returns /\ Leaves /\ UNCHANGED <<pages, opened>>

\* Mutant: the failure is saved and that is all.
EndsOpen_Returns(session) == Returns

EndsOpen(session) == IF session.failed THEN Throws ELSE Returns

\* openPage keeps the session of a failed page too; the failure is saved, then the
\* step throws.  In a session that is local only the tool throws at once.
OpensPage ==
  /\ Working("open-page")
  /\ \/ \E copy \in loop.read, web \in Webs : \E session \in {PageSession(web, InitialUrl)} :
          /\ opened' = opened + 1
          /\ pages' = [p \in DOMAIN pages \cup {opened'} |->
                         IF p = opened' THEN session ELSE pages[p]]
          /\ Merges(copy, [Told(Shown(copy.browser, session), Entry("open", {}, session))
                             EXCEPT !.page = opened'])
          /\ EndsOpen(session)
     \/ Throws /\ Leaves /\ UNCHANGED <<pages, opened>>
  /\ UNCHANGED artifacts

\* The tools throw when they do not know the page any more.
ExtractsPage ==
  /\ Working("extract-page")
  /\ \E copy \in loop.read :
       IF ~Open(copy.browser.page) THEN Throws /\ Leaves
       ELSE \E session \in {pages[copy.browser.page]}, query \in {FindQuery(copy.refinements)} :
            \E b \in {[Shown(copy.browser, session) EXCEPT
                         !.found = IF query = NoWord THEN {}
                                   ELSE {[of |-> session.url, query |-> query,
                                          yes |-> query \in session.words]}]} :
              Merges(copy, [b EXCEPT !.findings = BuildFindings(b)]) /\ Returns
  /\ UNCHANGED <<pages, opened, artifacts>>

\* Mutant: what was tried is shown whether or not it could be read.
Followed_Failed(b, entry, session) == Told(Shown(b, session), entry)

\* Mutant: the failure is logged and forgotten.
Followed_Quiet(b, entry, session) ==
  IF session.failed THEN Told(b, entry) ELSE Told(Shown(b, session), entry)

\* A page that could not be read leaves the record at the one before it.
Followed(b, entry, session) ==
  IF session.failed
  THEN LET failed == [b EXCEPT !.failure = TRUE]
       IN  Told([failed EXCEPT !.findings = BuildFindings(failed)], entry)
  ELSE Told(Shown(b, session), entry)

\* clickLink: only a page that could be read takes the place of the one before it.
Clicked(page, session) == IF session.failed THEN pages ELSE [pages EXCEPT ![page] = session]

MayFollow(b) == b.page # 0 /\ b.links.list # <<>> /\ Len(b.visited) < MaxPages

\* The page is asked for the link and then for text and links of what it has become.
Follows(copy, link) ==
  \/ /\ Open(copy.browser.page)
     /\ link \in ToSet(pages[copy.browser.page].links)
     /\ \E web \in Webs : \E session \in {PageSession(web, link.url)} :
          /\ pages' = Clicked(copy.browser.page, session)
          /\ Merges(copy, Followed(copy.browser, Entry("navigate", link.words, session), session))
          /\ Returns
  \/ Throws /\ Leaves /\ UNCHANGED pages

\* With no room left or no link worth it, nothing is done.
FollowsLinks ==
  /\ Working("follow-links")
  /\ \E copy \in loop.read :
     \E best \in {IF MayFollow(copy.browser)
                  THEN BestLink(copy.browser.links, copy.refinements) ELSE {}} :
       IF best = {} THEN Returns /\ Leaves /\ UNCHANGED pages
       ELSE \E link \in best : Follows(copy, link)
  /\ UNCHANGED <<opened, artifacts>>

ExtractsFindings ==
  /\ Working("extract-findings")
  /\ \E copy \in loop.read :
       Merges(copy, [copy.browser EXCEPT !.findings = BuildFindings(copy.browser)])
  /\ Returns /\ UNCHANGED <<pages, opened, artifacts>>

\* Notes, snapshot and navigation log; the disk may refuse.
WritesFile ==
  /\ loop.pc = "working" /\ loop.step \in Writes
  /\ \/ artifacts' = Attached(loop.step) /\ Returns
     \/ Throws /\ UNCHANGED artifacts
  /\ Leaves /\ UNCHANGED <<pages, opened>>

StepWorks ==
  \/ PreparesWorkspace \/ OpensPage \/ ExtractsPage \/ FollowsLinks \/ ExtractsFindings
  \/ WritesFile

\* The runner does not ask whether the task is paused.
StepBegins == Begins([browser |-> browser, refinements |-> refinements])

-----------------------------------------------------------------------------

NextStep == FirstLeft(StepOrder)

\* The pages are in the memory of the agent.
RestartsAgent == Restarts /\ pages' = <<>> /\ UNCHANGED <<browser, opened, artifacts>>

Init ==
  /\ RunInit(StepOrder)
  /\ browser = NoBrowser /\ pages = <<>> /\ opened = 0 /\ artifacts = <<>>

Next ==
  \/ StepWorks
  \/ RestartsAgent
  \/ /\ UNCHANGED workVars
     /\ \/ Chooses(NextStep) \/ Advances \/ StepBegins \/ Completes
        \/ Finishes(NextStep) \/ Fails
        \/ Pauses \/ Resumes
        \/ \E m \in Messages : Refines(m, {}) \/ Persists(m)

Spec == Init /\ [][Next]_vars

-----------------------------------------------------------------------------
(* Properties. *)

Pages == Urls \cup {NoUrl}
Queries == {TargetQuery} \cup {r.value : r \in Refinements}
Finds == [of : Urls, query : Queries, yes : BOOLEAN]

Visits == [url : Urls, ok : BOOLEAN]
Entries == [action : {"open", "navigate"}, words : SUBSET STRING, url : Urls, ok : BOOLEAN]
Findings == [url : Pages, text : Pages, failure : BOOLEAN, found : SUBSET Finds]

Browsers ==
  [page : Nat, url : Pages, text : Pages, links : [of : Pages, list : Seq(Links)],
   found : SUBSET Finds, visited : Seq(Visits), log : Seq(Entries), failure : BOOLEAN,
   findings : SUBSET Findings]

Sessions == [url : Urls, failed : BOOLEAN, words : SUBSET STRING, links : Seq(Links)]

TypeOK ==
  /\ RunTypeOK(Steps, [browser : Browsers, refinements : Seq(Refinements)])
  /\ browser \in Browsers
  /\ opened \in Nat /\ DOMAIN pages \subseteq 1..opened /\ browser.page \in 0..opened
  /\ \A p \in DOMAIN pages : pages[p] \in Sessions
  /\ artifacts \in Seq(Writes \cup {"workspace"})

\* What the task shows, its address, text and links, is of one page, which was
\* read; and it is the page the provider has under its id, whatever was tried to
\* reach since.
ShownIsOnePage ==
  /\ browser.text \in {NoUrl, browser.url} /\ browser.links.of = browser.url
  /\ browser.text # NoUrl => [url |-> browser.text, ok |-> TRUE] \in ToSet(browser.visited)
  /\ Open(browser.page) => /\ pages[browser.page].url = browser.url
                           /\ pages[browser.page].links = browser.links.list

\* The record of the task is well formed and of one page.
RecordSound == TypeOK /\ ShownIsOnePage

\* A completed task has read a page, its findings are about that page and say
\* whether the last one could be reached, and its three files are there.  A page was
\* read when it answered with 200 and a type of text, even if the extraction then found
\* no readable text in it: the code does not tell the two apart.
CompletedWasRead ==
  status = "completed" /\ ~displaced =>
    /\ browser.text # NoUrl
    /\ \E f \in browser.findings : f.text = browser.text /\ f.failure = browser.failure
    /\ Writes \subseteq ToSet(artifacts)

\* The log and the list of pages tell the same visits, and the record of a failure
\* is of the last of them: a page that was reached later clears it, a page that was
\* not leaves it.
LogTellsAll ==
  /\ Len(browser.log) = Len(browser.visited)
  /\ \A i \in DOMAIN browser.log :
       [url |-> browser.log[i].url, ok |-> browser.log[i].ok] = browser.visited[i]
  /\ browser.log # <<>> /\ ~displaced => browser.failure = ~Last(browser.log).ok

\* No link that reads like an action is ever followed, and nothing but public
\* addresses is reached.
SafeOnly ==
  \A i \in DOMAIN browser.log :
    /\ "login" \notin browser.log[i].words
    /\ browser.log[i].ok => Allowed(browser.log[i].url)

\* However often the step is repeated, the task navigates fewer times than it may
\* visit pages.
NavigationsBounded ==
  Cardinality({i \in DOMAIN browser.log : browser.log[i].action = "navigate"}) < MaxPages

\* What the task has done on the web is told, was safe and was not too much.
LogSound == LogTellsAll /\ SafeOnly /\ NavigationsBounded

\* What a search found is told of the page that was searched.
FoundIsOfThePage ==
  \A f \in browser.findings : \A r \in f.found : r.of = f.text

\* A refinement that was persisted in the task stays there.
RefinementsStay == [][ToSet(refinements) \subseteq ToSet(refinements')]_vars
=============================================================================
