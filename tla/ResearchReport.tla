---------------------------- MODULE ResearchReport ----------------------------
(***************************************************************************)
(* A research task of packages/task-runtime: the runner that searches,     *)
(* selects sources, reads pages, extracts evidence, synthesises and writes *)
(* the report, in the loop of TaskRun and with what ResearchEvidence says  *)
(* of sources, evidence and readiness.                                     *)
(***************************************************************************)
EXTENDS ResearchEvidence, TaskRun

CONSTANTS
  Searches,       \* what the search provider may answer: sequences of results
  Plans,          \* how a task may be planned when it is created
  PageLimits,     \* pageFetchMaxSources of the task; 0: reading is switched off
  Webs            \* what the web may answer to the page reader

VARIABLES
  plan,        \* the order of the planned steps; "none": the task has no plan
  maxPages,    \* pageFetchMaxSources
  raw,         \* rawWebSearchResults
  research,    \* metadata.research
  draft,       \* the generated report and summary
  artifacts    \* the files of the task, in the order in which they were attached

workVars == <<raw, research, draft, artifacts>>
vars == <<runVars, plan, maxPages, workVars>>

Preparation ==
  <<"prepare-workspace", "search-web", "select-sources", "fetch-pages",
    "extract-evidence", "synthesize-findings">>
ReportFirst == Preparation \o <<"write-report", "write-summary", "write-sources", "write-evidence">>
SummaryFirst == Preparation \o <<"write-summary", "write-report", "write-sources", "write-evidence">>

Steps == ToSet(ReportFirst)
Writes == {"write-report", "write-summary", "write-sources", "write-evidence"}

Languages == {"es", "en"}

ASSUME ResearchAssumption ==
  /\ Searches \subseteq Seq(Results)
  /\ Plans \subseteq {"none", "reportFirst"}
  /\ PageLimits \subseteq Nat
  /\ \A web \in Webs : IsWeb(web)
  /\ ~BrowserTask /\ Unclear = {}
  /\ MaxRestarts \in Nat

NoResearch ==
  [error |-> FALSE, selected |-> <<>>, pages |-> {}, evidence |-> <<>>,
   readiness |-> "insufficient"]
NoDraft == [written |-> FALSE, language |-> "es", evidence |-> <<>>]

-----------------------------------------------------------------------------
(* Which step is next. *)

\* resolveEffectiveReportLanguage: the last language asked for, or the task's.
Language(asked) ==
  IF Latest(asked, "language") \in Languages THEN Latest(asked, "language") ELSE "es"

\* The runner's own order, for a task without a plan.
SelectNextStep ==
  IF /\ Output.summaryFirst \in ToSet(refinements) /\ "synthesize-findings" \in Completed
     /\ {"write-summary", "write-report"} \cap Completed = {}
  THEN "write-summary"
  ELSE FirstLeft(ReportFirst)

\* selectPlannedNextStep, then the runner's.
NextStep ==
  CASE plan = "reportFirst" -> FirstLeft(ReportFirst)
    [] plan = "summaryFirst" -> FirstLeft(SummaryFirst)
    [] OTHER -> SelectNextStep

-----------------------------------------------------------------------------
(* The steps: what each saves when what it waited for is there. *)

Saved == Saves /\ Returns /\ UNCHANGED refinements
Refused == Saves /\ Throws /\ UNCHANGED refinements

\* The step throws before it has saved anything.
Gives == Throws /\ UNCHANGED <<steps, refinements>>

Attached(label) == IF label \in ToSet(artifacts) THEN artifacts ELSE Append(artifacts, label)

PreparesWorkspace ==
  /\ Working("prepare-workspace")
  /\ artifacts' = Attached("workspace")
  /\ Returns /\ UNCHANGED <<steps, refinements, raw, research, draft>>

\* The old results stay when the search fails.
SearchesWeb ==
  /\ Working("search-web")
  /\ \/ /\ raw' \in Searches /\ research' = NoResearch
        /\ Saved
     \/ /\ research' = [NoResearch EXCEPT !.error = TRUE] /\ UNCHANGED raw
        /\ Refused
  /\ UNCHANGED <<draft, artifacts>>

\* With the refinements that the step has read.
SelectsSources ==
  /\ Working("select-sources")
  /\ \E asked \in loop.read :
     \E selected \in {Select(raw, ToSet(asked), maxPages)} :
       IF research.error THEN Gives /\ UNCHANGED research
       ELSE /\ research' = [NoResearch EXCEPT !.selected = selected,
                                              !.error = selected = <<>>]
            /\ IF selected = <<>> THEN Refused ELSE Saved
  /\ UNCHANGED <<raw, draft, artifacts>>

\* assertSelectedSources: without sources a step throws before it does anything.
Sourced(work) ==
  IF research.selected = <<>> THEN Gives /\ UNCHANGED workVars ELSE work

\* What is saved of the sources and the pages that were read.
PagesSaved(selected, pages) ==
  research' = [research EXCEPT !.selected = selected, !.pages = pages,
                               !.readiness = Readiness(selected, research.evidence)]

ReadsPages ==
  /\ IF maxPages = 0
     THEN PagesSaved([k \in DOMAIN research.selected |-> SnippetOnly(research.selected[k])], {})
     ELSE \E chosen \in {PagesToRead(research.selected, maxPages)},
             web \in Webs, localOnly \in BOOLEAN :
            PagesSaved([k \in DOMAIN research.selected |->
                          LET source == research.selected[k]
                              url == raw[source.result].url
                          IN  IF k \in chosen THEN Read(source, FetchPage(web, url, localOnly))
                              ELSE NotRead(source)],
                       {research.selected[k].result : k \in chosen})
  /\ Saved /\ UNCHANGED <<raw, draft, artifacts>>

FetchesPages == Working("fetch-pages") /\ Sourced(ReadsPages)

\* Mutant: what was found is saved without asking whether it is enough.
GradesSources_Unchecked ==
  /\ \E evidence \in {Evidence(research.selected)} :
     \E graded \in {Graded(research.selected, evidence)} :
       research' = [research EXCEPT !.selected = graded, !.evidence = evidence,
                                    !.readiness = Readiness(graded, evidence)]
  /\ Saved /\ UNCHANGED <<raw, draft, artifacts>>

GradesSources ==
  /\ \E evidence \in {Evidence(research.selected)} :
     \E graded \in {Graded(research.selected, evidence)} :
     \E readiness \in {Readiness(graded, evidence)} :
       IF \A k \in DOMAIN evidence : evidence[k].basis = "none"
       THEN research' = [research EXCEPT !.evidence = evidence, !.error = TRUE] /\ Refused
       ELSE /\ research' = [research EXCEPT !.selected = graded, !.evidence = evidence,
                                            !.readiness = readiness,
                                            !.error = @ \/ readiness = "insufficient"]
            /\ IF readiness = "insufficient" THEN Refused ELSE Saved
  /\ UNCHANGED <<raw, draft, artifacts>>

ExtractsEvidence == Working("extract-evidence") /\ Sourced(GradesSources)

\* The model answers (with nothing: the report is made from the sources), or no
\* provider does and the step throws.
MakesReport ==
  /\ \/ /\ research.evidence # <<>>
        /\ \E asked \in loop.read :
             draft' = [written |-> TRUE, language |-> Language(asked),
                       evidence |-> research.evidence]
        /\ Saved
     \/ Gives /\ UNCHANGED draft
  /\ UNCHANGED <<raw, research, artifacts>>

Synthesizes == Working("synthesize-findings") /\ Sourced(MakesReport)

\* The report, the summary and the two audits; the disk may refuse.  The summary
\* is saved in the task too.
Writing ==
  /\ \/ /\ loop.step \in {"write-report", "write-summary"} => draft.written
        /\ artifacts' = Attached(loop.step)
        /\ IF loop.step = "write-summary" THEN Saves ELSE UNCHANGED steps
        /\ Returns /\ UNCHANGED refinements
     \/ Gives /\ UNCHANGED artifacts
  /\ UNCHANGED <<raw, research, draft>>

WritesFile == loop.pc = "working" /\ loop.step \in Writes /\ Sourced(Writing)

StepWorks ==
  /\ \/ PreparesWorkspace \/ SearchesWeb \/ SelectsSources
     \/ FetchesPages \/ ExtractsEvidence \/ Synthesizes \/ WritesFile
  /\ UNCHANGED <<plan, maxPages>>

\* The runner looks whether the task is paused before it reads it; the steps that
\* use the refinements later on do so with what was read first.
StepBegins ==
  /\ status = "active"
  /\ Begins(IF loop.step \in {"select-sources", "synthesize-findings"} THEN refinements ELSE <<>>)

-----------------------------------------------------------------------------
(* The user. *)

\* The steps the planner asks about.
Told == {"write-report", "write-summary"}

\* Not while the task is known to have found nothing.
RefinesTask(m) == ~research.error /\ Refines(m, Told)

\* Mutant: the summary is put first only when it is asked for last.
PlanOf_LastOnly(asked, completed) ==
  IF asked # <<>> /\ Last(asked) = Output.summaryFirst /\ {"write-report", "write-summary"} \cap completed = {}
  THEN "summaryFirst" ELSE "reportFirst"

\* reorderResearchSteps: the summary first, unless one of the two is written.
PlanOf(asked, completed) ==
  IF Output.summaryFirst \in ToSet(asked) /\ {"write-report", "write-summary"} \cap completed = {}
  THEN "summaryFirst" ELSE "reportFirst"

\* The plan made from the copy is saved with it.
PersistsPlan(m) ==
  /\ Persists(m)
  /\ plan' = IF Finished THEN plan ELSE PlanOf(chat[m].refinements, chat[m].done)

-----------------------------------------------------------------------------

\* createTaskInput: with or without a plan.
Init ==
  /\ RunInit(ReportFirst)
  /\ plan \in Plans /\ maxPages \in PageLimits
  /\ raw = <<>> /\ research = NoResearch /\ draft = NoDraft /\ artifacts = <<>>

Next ==
  \/ StepWorks
  \/ /\ UNCHANGED <<plan, maxPages, workVars>>
     /\ \/ Chooses(NextStep) \/ Advances \/ StepBegins \/ Completes
        \/ Finishes(NextStep) \/ Fails
        \/ Pauses \/ Resumes \/ Restarts
        \/ \E m \in Messages : RefinesTask(m)
  \/ /\ UNCHANGED <<maxPages, workVars>>
     /\ \E m \in Messages : PersistsPlan(m)

Spec == Init /\ [][Next]_vars

-----------------------------------------------------------------------------
(* Properties. *)

TypeOK ==
  /\ RunTypeOK(Steps, Seq(Refinements))
  /\ plan \in {"none", "reportFirst", "summaryFirst"}
  /\ maxPages \in PageLimits
  /\ raw \in {<<>>} \cup Searches
  /\ research \in [error : BOOLEAN, selected : Seq(Sources(Len(raw))),
                  pages : SUBSET DOMAIN raw, evidence : Seq(EvidenceRecords(Len(raw))),
                  readiness : {"solid", "limited", "insufficient"}]
  /\ draft.written \in BOOLEAN /\ draft.language \in Languages
  /\ \E found \in Searches \cup {<<>>} : draft.evidence \in Seq(EvidenceRecords(Len(found)))
  /\ artifacts \in Seq(Writes \cup {"workspace"})

\* What the completed steps have made: sources, evidence enough, a report made of
\* that very evidence, files.
Work ==
  /\ "select-sources" \in Completed => research.selected # <<>>
  /\ "extract-evidence" \in Completed =>
       /\ ~research.error
       /\ research.evidence = Evidence(research.selected)
       /\ research.readiness # "insufficient"
  /\ "synthesize-findings" \in Completed => draft.written
  /\ draft.written => draft.evidence = research.evidence
  /\ Completed \cap Writes \subseteq ToSet(artifacts)

\* It is there whatever pauses and restarts made the loop repeat, as long as no
\* step was counted as completed in passing.
WorkStands == ~displaced => Work

\* A report is only made when a page about the question was read in usable
\* quality, or two sources about it have some text: insufficient readiness fails
\* the task instead.
ReportHasBasis ==
  LET about == {k \in DOMAIN research.selected :
                  /\ research.selected[k].relevance \in {"direct", "supporting"}
                  /\ Basis(research.selected[k]) # "none"}
  IN  ~displaced /\ draft.written =>
        \/ \E k \in about : /\ research.selected[k].excerpt
                            /\ research.selected[k].quality \in {"high", "medium"}
        \/ Cardinality(about) >= 2

\* A tangential source is never support for a report, however well it was read,
\* and a snippet never strong or medium evidence.
WeakStaysWeak ==
  \A k \in DOMAIN research.evidence :
    /\ research.selected[k].relevance = "tangential" =>
         /\ research.evidence[k].use = "discarded"
         /\ ~displaced /\ research.evidence[k].basis # "none" =>
              research.selected[k].use = "discarded"
    /\ research.evidence[k].basis = "snippet" =>
         research.evidence[k].strength \notin {"strong", "medium"}

\* A report that need not admit limits has one directly relevant page that was
\* read well, and of the sources it rests on more were read than only quoted.
ConfidenceIsEarned ==
  LET read == {k \in DOMAIN research.selected :
                 research.selected[k].fetched = "ok" \/ research.selected[k].excerpt}
      used == {k \in DOMAIN research.selected : Basis(research.selected[k]) # "none"}
  IN  ~displaced /\ draft.written /\ ~LimitationsRequired(research.selected, research.evidence) =>
        /\ 2 * Cardinality(read) > Cardinality(used)
        /\ \E k \in read : /\ research.selected[k].relevance = "direct"
                           /\ research.selected[k].quality = "high"

\* What the evidence is called is what it is worth.
GradesAreEarned == WeakStaysWeak /\ ConfidenceIsEarned

\* No page is a source twice, and no more pages are read than the task allows.
SourcesCountOnce ==
  \A j, k \in DOMAIN research.selected :
    raw[research.selected[j].result].url = raw[research.selected[k].result].url => j = k

PagesWithinLimit == Cardinality(research.pages) <= maxPages

\* The record of the research is well formed, without doublets and within its limit.
SourcesSound == TypeOK /\ SourcesCountOnce /\ PagesWithinLimit

\* Once the user has asked for the summary first, the loop does not pick the
\* report before the summary is there, whatever other refinements were saved from
\* older copies of the task.
SummaryFirstHeld ==
  [][/\ ~displaced /\ loop.pc = "head" /\ loop'.step = "write-report"
     /\ Output.summaryFirst \in ToSet(refinements)
     => "write-summary" \in Completed]_vars

\* A completed task has its report, its summary and both audits.
CompletedIsWritten ==
  status = "completed" => draft.written /\ Writes \subseteq ToSet(artifacts)
=============================================================================
