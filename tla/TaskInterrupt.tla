---------------------------- MODULE TaskInterrupt ----------------------------
(***************************************************************************)
(* What packages/interrupt-handler makes of a message while the session    *)
(* has a task, and what packages/planner lets a task be refined by.        *)
(*                                                                         *)
(* The patterns are anchored, so that a message is one of the phrases they *)
(* list or none of them; phrases in two languages and several wordings of  *)
(* one are one here.  `about` is the word that follows the phrase.         *)
(***************************************************************************)
NoWord == "none"

BrowserQuestions ==
  {"browser_page", "browser_url", "browser_links", "browser_findings", "browser_navigation"}

TaskQuestions ==
  {"status", "remaining", "progress", "step", "completion", "report_location",
   "workspace_location", "artifacts", "failure", "plan", "sources", "read_sources",
   "strong_sources", "weak_sources", "best_source", "snippet_sources", "snippet_dependency",
   "discarded_sources", "evidence", "report_limitations", "evidence_sufficiency"}

\* What a phrase about the output or the sources asks for.
Output ==
  [shorter |-> [type |-> "length", value |-> "shorter"],
   english |-> [type |-> "language", value |-> "en"],
   spanish |-> [type |-> "language", value |-> "es"],
   summaryFirst |-> [type |-> "summary_priority", value |-> "first"],
   table |-> [type |-> "format", value |-> "table"],
   official |-> [type |-> "source_preference", value |-> "official"],
   noBlogs |-> [type |-> "source_exclusion", value |-> "blogs"],
   recent |-> [type |-> "recency", value |-> "recent"]]

Understood(kind, refinement) == [kind |-> kind, refinement |-> {refinement}]
Only(kind) == [kind |-> kind, refinement |-> {}]

\* A link or a text on the page; "sigue" without a link resumes the task.
ClassifyBrowserRefinement(m) ==
  CASE m.says = "follow the most relevant link" ->
         Understood("task_goal_refinement",
                    [type |-> "browser_follow_link", value |-> "most_relevant"])
    [] m.says = "follow the link" /\ m.about # NoWord ->
         Understood("task_goal_refinement", [type |-> "browser_follow_link", value |-> m.about])
    [] m.says = "find" /\ m.about # NoWord ->
         Understood("task_goal_refinement", [type |-> "browser_find_text", value |-> m.about])
    [] OTHER -> Only("none")

\* Another goal, which must say what it is.
ClassifyGoalRefinement(m) ==
  CASE \/ m.says = "that is not it"
       \/ m.says = "I meant" /\ m.about = "something else"
       \/ m.says = "change the focus" /\ m.about = NoWord -> Only("task_clarification_needed")
    [] /\ m.says \in {"change the focus", "make it about", "I meant"}
       /\ m.about \notin {NoWord, "something else"} ->
         Understood("task_goal_refinement", [type |-> "focus", value |-> m.about])
    [] OTHER -> Only("independent_query")

\* The first that recognises the message; two of them look at browser tasks only.
Classify(m, browserTask) ==
  CASE m.says \in TaskQuestions \cup (IF browserTask THEN BrowserQuestions ELSE {}) ->
         Only("task_status_query")
    [] m.says = "pause" -> Only("task_pause")
    [] m.says = "resume" -> Only("task_resume")
    [] m.says = "cancel" -> Only("task_cancel")
    [] browserTask /\ ClassifyBrowserRefinement(m).kind # "none" -> ClassifyBrowserRefinement(m)
    [] m.says \in DOMAIN Output -> Understood("task_output_refinement", Output[m.says])
    [] OTHER -> ClassifyGoalRefinement(m)

\* refinePlan refuses the others.
AllowedRefinements(browserTask) ==
  IF browserTask
  THEN {"length", "focus", "source_preference", "source_exclusion", "browser_follow_link",
        "browser_find_text"}
  ELSE {"length", "language", "summary_priority", "format", "focus", "source_preference",
        "source_exclusion", "recency"}
=============================================================================
