------------------------------ MODULE Session ------------------------------
(***************************************************************************)
(* The orchestrator's handlers of one session (packages/orchestrator), the *)
(* session store they read and save (packages/memory), the policy engine   *)
(* they ask (packages/policy-engine) and the scheduler's entry in the      *)
(* session (apps/local-agent).                                             *)
(*                                                                         *)
(* Every request reads a copy of the session, works on it over several     *)
(* awaits and saves the whole of it.  FileSessionStore reads and replaces  *)
(* the record in the order of its queue (JsonFileStore); between the two   *)
(* any other request may do the same.                                      *)
(***************************************************************************)
EXTENDS Integers, FiniteSets, Sequences

CONSTANTS
  Requests,       \* the HTTP requests and voice turns about the session
  Bodies,         \* what each of them may ask for
  Names,          \* the names of sandbox entries
  LeftName,       \* the entry whose creation an earlier run left pending
  Earlier,        \* stands for a request of an earlier run of the agent
  FirstMode,      \* the mode of the session when the agent starts
  NoAction,       \* no pending action
  SavesFail,      \* whether the store may refuse a save
  MaxAtWork       \* a bound: the requests at work at the same time

VARIABLES
  store,    \* the session as the store has it in memory
  disk,     \* the session as it is in the store's file
  req,      \* a request: what it asks, how far it is, its copies, the action
            \* it decides on and the pending action it put another in place of
  files,    \* the entries of the sandbox
  expired,  \* overrides whose expiresAt has passed
  behind,   \* requests whose copy is older than the session that is saved
  settled   \* requests that were answered while no other was at work

vars == <<store, disk, req, files, expired, behind, settled>>

Askers == Requests \cup {Earlier}
Tools == {"create-entry", "create-event", "clock", "list"}
NeedsConfirmation == {"create-entry", "create-event"}
Permission == [t \in NeedsConfirmation |->
  IF t = "create-entry" THEN "write_safe" ELSE "write_sensitive"]
Permissions == {"write_safe", "write_sensitive"}

\* The id of a pending action or of an override is new with every request
\* that makes one: the request stands for it.
Actions == [by : Askers, tool : Tools, name : Names]
Overrides == [by : Askers, permits : SUBSET Permissions, for : SUBSET NeedsConfirmation]

Fields == {"privacy", "runtime"}
Kinds == {"chat", "resolve", "updateMode", "createOverride", "cancelOverride", "listOverrides",
          "recordRun"}

ASSUME SessionAssumption ==
  /\ LeftName \in Names /\ Earlier \notin Requests /\ NoAction \notin Actions
  /\ FirstMode = [f \in Fields |-> FirstMode[f]]
  /\ \A r \in Requests : \A body \in Bodies[r] :
       /\ body.kind \in Kinds
       /\ body.kind = "chat" => body.name \in Names
       /\ body.kind \in {"chat", "createOverride"} =>
            /\ body.override.permits \subseteq Permissions
            /\ body.override.for \subseteq NeedsConfirmation

With(mode, update) ==
  [f \in Fields |-> IF f \in DOMAIN update THEN update[f] ELSE mode[f]]

MadeBy(r, asked) == [by |-> r, permits |-> asked.permits, for |-> asked.for]

\* A new session; agents that ran before may have left a pending action and
\* an override.
Fresh == [mode |-> FirstMode, overrides |-> {}, pending |-> NoAction, intent |-> "none",
          said |-> {}, events |-> {}, runs |-> {}]
Left(tool, name) == [by |-> Earlier, tool |-> tool, name |-> name]
Granted == [by |-> Earlier, permits |-> Permissions, for |-> NeedsConfirmation]

Unasked == [pc |-> "new", body |-> [kind |-> "none"], copy |-> Fresh, outer |-> Fresh,
            act |-> NoAction, replaced |-> NoAction]

Init ==
  /\ store \in
       {Fresh, [Fresh EXCEPT !.overrides = {Granted}],
        [Fresh EXCEPT !.pending = Left("create-entry", LeftName), !.intent = "create-entry"]}
  /\ req = [r \in Requests |-> Unasked]
  /\ disk = store
  /\ files = {} /\ expired = {} /\ behind = {} /\ settled = {}

Idle == {"new", "answered", "over"}
AtWork(r) == req[r].pc \notin Idle

-----------------------------------------------------------------------------
(* The policy engine. *)

\* Mutant: overrides are granted for ever.
PruneExpired_Nothing(s) == s

PruneExpired(s) ==
  [s EXCEPT !.overrides = {o \in @ : o.by \notin expired}]

Grants(o, tool) == tool \in o.for /\ Permission[tool] \in o.permits

\* evaluate, after it has pruned: read-only tools and what an override covers
\* run at once.
RunsAtOnce(s, tool) ==
  \/ tool \notin NeedsConfirmation
  \/ \E o \in PruneExpired(s).overrides : Grants(o, tool)

-----------------------------------------------------------------------------
(* What handleChat does with a text: the first handler that takes it. A    *)
(* body's "is" are the recognisers that match its text.                    *)

HandlerOrder == <<"empty", "resolve", "replace", "stillPending", "nothing", "override", "mode",
  "talk", "time", "event", "list", "create", "ask">>
Handlers == {HandlerOrder[i] : i \in DOMAIN HandlerOrder}

Pending(s) == s.pending # NoAction

\* resolveLocalCreateIntent: a wish to create, or another name for the entry
\* that was wanted last.
WantsEntry(s, is) ==
  "create" \in is \/ ("rename" \in is /\ s.intent = "create-entry")

Takes(h, s, is) ==
  CASE h = "empty" -> "empty" \in is
    [] h = "resolve" -> Pending(s) /\ is \cap {"approve", "reject"} # {}
    [] h = "replace" -> Pending(s) /\ s.pending.tool = "create-entry"
                        /\ "rename" \in is /\ "create" \notin is
    [] h = "stillPending" -> Pending(s)
    [] h = "nothing" -> is \cap {"approve", "reject"} # {}
    [] h = "create" -> WantsEntry(s, is)
    [] h = "ask" -> TRUE
    [] OTHER -> h \in is

FirstToTake(h, s, is) ==
  \E i \in DOMAIN HandlerOrder :
    /\ h = HandlerOrder[i] /\ Takes(h, s, is)
    /\ \A j \in 1..(i - 1) : ~Takes(HandlerOrder[j], s, is)

ToolOf == [h \in {"time", "event", "list", "create", "replace"} |->
  CASE h = "time" -> "clock" [] h = "event" -> "create-event"
    [] h = "list" -> "list" [] OTHER -> "create-entry"]

-----------------------------------------------------------------------------
(* The steps all handlers share. *)

\* rememberWriteIntent keeps the last write that was wanted, whatever its fate.
Remember(s, tool) ==
  IF tool \in NeedsConfirmation THEN [s EXCEPT !.intent = tool] ELSE s

At(r, pc, s) == req' = [req EXCEPT ![r].pc = pc, ![r].copy = s]
Ends(r, pc) ==
  req' = [req EXCEPT ![r].pc = pc, ![r].copy = Fresh, ![r].outer = Fresh]
OnlyRequest == UNCHANGED <<store, disk, files, expired, settled>>

\* A request reads the session: its copy is the one that is saved.
Reads(r, body, pc, s) ==
  /\ req' = [req EXCEPT ![r] = [@ EXCEPT !.pc = pc, !.body = body, !.copy = s]]
  /\ UNCHANGED behind /\ OnlyRequest

ReadsFor(r, body, pc, s, action, replaced) ==
  /\ req' = [req EXCEPT ![r] =
       [@ EXCEPT !.pc = pc, !.body = body, !.copy = s, !.act = action, !.replaced = replaced]]
  /\ UNCHANGED behind /\ OnlyRequest

-----------------------------------------------------------------------------
(* handleChat, up to its first await. *)

\* Mutant: the action that is replaced stays pending unless the new one waits too.
WithoutReplaced_KeepsPending(s) == [s EXCEPT !.intent = "create-entry"]

\* handlePendingLocalCreateReplacement cancels the pending creation before it
\* wants the other.
WithoutReplaced(s) == [s EXCEPT !.pending = NoAction, !.intent = "create-entry"]

Wanted(r, h, body) == [by |-> r, tool |-> ToolOf[h], name |-> body.name]

HandleChat(r, body) ==
  LET s == [store EXCEPT !.mode = With(@, body.mode)]
      heard == [s EXCEPT !.said = @ \cup {r}]
  IN  \E h \in Handlers :
      /\ FirstToTake(h, s, body.is)
      /\ \/ /\ h = "empty"
            /\ Reads(r, body, "saving", s)
         \/ /\ h \in {"stillPending", "nothing", "talk"}
            /\ Reads(r, body, "saving", heard)
         \/ /\ h = "override"
            /\ Reads(r, body, "saving",
                 [heard EXCEPT !.overrides = @ \cup {MadeBy(r, body.override)}])
         \/ /\ h = "mode"
            /\ Reads(r, body, "saving", [heard EXCEPT !.mode = With(@, body.instruction)])
         \/ /\ h = "resolve"
            /\ req' = [req EXCEPT ![r] =
                 [@ EXCEPT !.pc = "rereading", !.body = body, !.outer = heard]]
            /\ UNCHANGED behind /\ OnlyRequest
         \/ /\ h = "replace"
            /\ ReadsFor(r, body, "deciding", WithoutReplaced(heard), Wanted(r, h, body),
                 heard.pending)
         \/ /\ h \in {"time", "event", "list", "create"}
            /\ ReadsFor(r, body, "deciding", heard, Wanted(r, h, body), NoAction)
         \/ /\ h = "ask"
            /\ Reads(r, body, "asking", heard)

\* respond fails when no provider answers; an answer with a placeholder for the
\* time is replaced by a run of the clock.
ModelAnswers(r) ==
  /\ req[r].pc = "asking"
  /\ \/ \E pc \in {"saving", "reporting"} : At(r, pc, req[r].copy)
     \/ req' = [req EXCEPT ![r].pc = "deciding",
          ![r].act = [by |-> r, tool |-> "clock", name |-> req[r].body.name]]
  /\ UNCHANGED behind /\ OnlyRequest

\* executeOrQueue: an entry that exists is refused; what the policy lets run
\* runs; the rest waits for a confirmation.
ExecuteOrQueue(r) ==
  LET a == req[r].act
      s == PruneExpired(req[r].copy)
  IN  /\ req[r].pc = "deciding"
      /\ \/ /\ a.tool = "create-entry" /\ a.name \in files
            /\ At(r, "saving", Remember(req[r].copy, a.tool))
         \/ /\ ~(a.tool = "create-entry" /\ a.name \in files)
            /\ IF RunsAtOnce(req[r].copy, a.tool)
               THEN At(r, "executing", s)
               ELSE req' = [req EXCEPT ![r].pc = "saving", ![r].act = NoAction,
                      ![r].copy = Remember([s EXCEPT !.pending = a], a.tool)]
      /\ UNCHANGED behind /\ OnlyRequest

\* runTool, once the active profile is read: the tool begins.  A calendar event
\* is kept in the session, and only in live mode; the tool that creates an
\* entry looks whether it is there and then writes it.
ExecuteTool(r) ==
  LET a == req[r].act
      s == req[r].copy
      done == Remember(s, a.tool)
  IN  /\ req[r].pc = "executing"
      /\ \/ /\ a.tool = "create-entry"
            /\ IF a.name \in files THEN At(r, "reporting", done) ELSE At(r, "writing", s)
         \/ /\ a.tool = "create-event"
            /\ At(r, "saving", IF s.mode.runtime = "sandbox" THEN done
                               ELSE [done EXCEPT !.events = @ \cup {<<r, a>>}])
         \/ /\ a.tool \in {"clock", "list"} /\ At(r, "saving", s)
         \/ /\ a.tool # "clock" /\ At(r, "reporting", done)
      /\ UNCHANGED behind /\ OnlyRequest

WritesEntry(r) ==
  LET a == req[r].act IN
  /\ req[r].pc = "writing"
  /\ files' = files \cup {a.name}
  /\ At(r, "saving", Remember(req[r].copy, a.tool))
  /\ UNCHANGED <<store, disk, expired, behind, settled>>

\* resolvePendingAction, on the session as it is now: the approval names no
\* action.
Resolved(request, approved) ==
  LET a == store.pending IN
  IF a = NoAction
  THEN [request EXCEPT !.pc = "saving", !.copy = store]
  ELSE [request EXCEPT !.pc = IF approved THEN "executing" ELSE "saving",
          !.copy = [Remember(store, a.tool) EXCEPT !.pending = NoAction], !.act = a]

ResolvePendingAction(r, body) ==
  /\ req' = [req EXCEPT ![r] = Resolved([@ EXCEPT !.body = body], body.approved)]
  /\ UNCHANGED behind /\ OnlyRequest

\* The approval or refusal that was typed in the chat reads the session again.
ResolveTyped(r) ==
  /\ req[r].pc = "rereading"
  /\ req' = [req EXCEPT ![r] = Resolved(@, "approve" \in @.body.is)]
  /\ behind' = behind \ {<<r, "copy">>}
  /\ OnlyRequest

-----------------------------------------------------------------------------
(* The handlers that read, change and save at once. *)

UpdateMode(r, body) ==
  Reads(r, body, "saving", [store EXCEPT !.mode = With(@, body.mode)])

\* Mutant: the new override takes the place of those in force.
CreateOverride_Replaces(r, body) ==
  Reads(r, body, "saving", [store EXCEPT !.overrides = {MadeBy(r, body.override)}])

CreateOverride(r, body) ==
  Reads(r, body, "saving",
    [PruneExpired(store) EXCEPT !.overrides = @ \cup {MadeBy(r, body.override)}])

\* Nothing is saved when the session has no such override.
CancelOverride(r, body) ==
  LET s == [store EXCEPT !.overrides = {o \in @ : o.by # body.id}]
  IN  IF s = store THEN Reads(r, body, "over", Fresh) ELSE Reads(r, body, "saving", s)

ListOverrides(r, body) == Reads(r, body, "saving", PruneExpired(store))

\* recordSchedulerRunInSession.
RecordRun(r, body) == Reads(r, body, "saving", [store EXCEPT !.runs = @ \cup {r}])

-----------------------------------------------------------------------------
(* saveSession replaces the record. *)

\* The requests at work now hold a copy that is older than the session.
Supersedes(r) ==
  {b \in (Requests \ {r}) \X {"copy", "outer"} : AtWork(b[1])}

Saves(r, s, pc) ==
  /\ store' = s /\ disk' = s
  /\ Ends(r, pc)
  /\ behind' = {b \in behind : b[1] # r} \cup Supersedes(r)
  /\ settled' = settled \cup {q \in {r} : pc = "answered" /\ \A p \in Requests \ {r} : ~AtWork(p)}
  /\ UNCHANGED <<files, expired>>

Replies(r) == req[r].pc = "saving" /\ Saves(r, req[r].copy, "answered")

Talks(r) == req[r].body.kind \in {"chat", "resolve"}

\* A save that is refused may have replaced the copy in memory before.
Kept(r) ==
  \/ UNCHANGED <<store, behind>>
  \/ /\ store' = req[r].copy
     /\ behind' = (behind \ {<<r, "copy">>}) \cup Supersedes(r) \cup {<<r, "outer">>}

\* The chat reports the error of a save by a second save; the others fail.
ReplyFails(r) ==
  /\ SavesFail /\ req[r].pc = "saving"
  /\ IF Talks(r) THEN At(r, "reporting", req[r].copy) ELSE Ends(r, "over")
  /\ Kept(r) /\ UNCHANGED <<disk, files, expired, settled>>

\* replyError.
Reports(r) == req[r].pc = "reporting" /\ Saves(r, req[r].copy, "over")

\* resolvePendingAction's own report failed: when it was called by handleChat,
\* that reports with the copy it has kept.
ReportFails(r) ==
  /\ SavesFail /\ req[r].pc = "reporting"
  /\ IF req[r].outer # Fresh THEN At(r, "reportingOuter", req[r].copy) ELSE Ends(r, "over")
  /\ Kept(r) /\ UNCHANGED <<disk, files, expired, settled>>

ReportsOuter(r) == req[r].pc = "reportingOuter" /\ Saves(r, req[r].outer, "over")

-----------------------------------------------------------------------------
Handles(r, body) ==
  /\ req[r].pc = "new" /\ Cardinality({q \in Requests : AtWork(q)}) < MaxAtWork
  /\ \/ body.kind = "chat" /\ HandleChat(r, body)
     \/ body.kind = "resolve" /\ ResolvePendingAction(r, body)
     \/ body.kind = "updateMode" /\ UpdateMode(r, body)
     \/ body.kind = "createOverride" /\ CreateOverride(r, body)
     \/ body.kind = "cancelOverride" /\ CancelOverride(r, body)
     \/ body.kind = "listOverrides" /\ ListOverrides(r, body)
     \/ body.kind = "recordRun" /\ RecordRun(r, body)

GoesOn(r) ==
  \/ ModelAnswers(r) \/ ExecuteOrQueue(r) \/ ExecuteTool(r) \/ WritesEntry(r) \/ ResolveTyped(r)
  \/ Replies(r) \/ ReplyFails(r) \/ Reports(r) \/ ReportFails(r) \/ ReportsOuter(r)

\* expiresAt passes.
Known == UNION {s.overrides : s \in {store} \cup {req[r].copy : r \in Requests}}
Expires(o) ==
  /\ o \in {x.by : x \in Known} \ expired
  /\ expired' = expired \cup {o}
  /\ UNCHANGED <<store, disk, req, files, behind, settled>>

\* The agent stops and is started again: what was at work is lost, and what only
\* the memory had.
Restarts ==
  /\ (\E r \in Requests : AtWork(r)) \/ disk # store
  /\ store' = disk /\ behind' = {}
  /\ req' = [r \in Requests |->
       IF AtWork(r) THEN [req[r] EXCEPT !.pc = "over", !.copy = Fresh, !.outer = Fresh]
       ELSE req[r]]
  /\ UNCHANGED <<disk, files, expired, settled>>

Next ==
  \/ \E r \in Requests : (\E body \in Bodies[r] : Handles(r, body)) \/ GoesOn(r)
  \/ \E o \in Askers : Expires(o)
  \/ Restarts

Spec == Init /\ [][Next]_vars

-----------------------------------------------------------------------------
(* Properties. *)

Pcs == Idle \cup {"rereading", "deciding", "asking", "executing", "writing", "saving",
                  "reporting", "reportingOuter"}

\* What is saved, and the copy of every request, is a session; a pending action
\* is one that needs a confirmation.
IsSession(s) ==
  /\ s.overrides \subseteq Overrides /\ s.intent \in NeedsConfirmation \cup {"none"}
  /\ s.pending = NoAction \/ (s.pending \in Actions /\ s.pending.tool \in NeedsConfirmation)
  /\ s.said \subseteq Requests /\ s.runs \subseteq Requests
  /\ s.events \subseteq Requests \X Actions

TypeOK ==
  /\ IsSession(store) /\ IsSession(disk)
  /\ \A r \in Requests :
       /\ req[r].pc \in Pcs /\ IsSession(req[r].copy) /\ IsSession(req[r].outer)
       /\ {req[r].act, req[r].replaced} \subseteq Actions \cup {NoAction}

\* A request whose copy is not older than the session loses nothing with its
\* save: messages, events, runs and the overrides that are neither expired nor
\* cancelled stay; the mode and the pending action change only when that is
\* what the request was about.  Only a save that overtook it makes a request
\* undo the work of another.
MaySetMode(body) ==
  \/ body.kind = "updateMode"
  \/ body.kind = "chat" /\ (body.mode # <<>> \/ "mode" \in body.is)

MayEndAction(body) ==
  \/ body.kind = "resolve"
  \/ body.kind = "chat" /\ body.is \cap {"approve", "reject", "rename"} # {}

Cancels(body, id) == body.kind = "cancelOverride" /\ body.id = id

\* The session s has what the stored one has, up to what body asks for.
Carries(body, s) ==
  /\ store.said \subseteq s.said
  /\ store.events \subseteq s.events
  /\ store.runs \subseteq s.runs
  /\ \A o \in store.overrides \ s.overrides : o.by \in expired \/ Cancels(body, o.by)
  /\ s.mode # store.mode => MaySetMode(body)
  /\ s.pending # store.pending /\ store.pending # NoAction => MayEndAction(body)

SavesCopy(r) == Replies(r) \/ Reports(r)

FreshSavesLoseNothing ==
  [][\A r \in Requests :
       /\ <<r, "copy">> \notin behind /\ SavesCopy(r) => Carries(req[r].body, store')
       /\ <<r, "outer">> \notin behind /\ ReportsOuter(r) => Carries(req[r].body, store')]_vars

\* A tool that needs a confirmation begins to run for an action that was saved
\* as pending, in a request that approves it, or in the request that wants it,
\* under an override that has not expired at that moment.
Approves(r) ==
  \/ req'[r].body.kind = "resolve" /\ req'[r].body.approved
  \/ req'[r].body.kind = "chat" /\ "approve" \in req'[r].body.is

RunsConfirmed ==
  [][\A r \in Requests :
       (req[r].pc # "executing" /\ req'[r].pc = "executing"
        /\ req'[r].act.tool \in NeedsConfirmation) =>
         \/ Approves(r) /\ req'[r].act = store.pending
         \/ /\ req'[r].act.by = r
            /\ \E o \in req'[r].copy.overrides :
                 Grants(o, req'[r].act.tool) /\ o.by \notin expired]_vars

\* What a request was told to be finished, while no other was at work, stays
\* finished: the action it ran, refused or put another in place of is not pending
\* again and not run again, and the override it cancelled is in no copy.  A new
\* action that is left pending is not finished.
Finished ==
  ({req[r].act : r \in settled} \cup {req[r].replaced : r \in settled}) \ {NoAction}
Withdrawn == {req[r].body.id : r \in {q \in settled : req[q].body.kind = "cancelOverride"}}

Held(s) == s.pending \notin Finished /\ \A o \in s.overrides : o.by \notin Withdrawn

DecisionsHold ==
  /\ Held(store) /\ Held(disk)
  /\ \A r \in Requests :
       AtWork(r) => /\ Held(req[r].copy) /\ Held(req[r].outer)
                    /\ req[r].act \notin Finished

\* Stored session and copies are well formed, and what was decided stays decided.
SessionSound == TypeOK /\ DecisionsHold

\* "Overrides are visible in the UI, recorded in action history and can be
\* cancelled manually" (README.md:575): an override whose cancellation was
\* answered is no longer in the session.
CancelledGrantsNothing ==
  \A r \in Requests :
    req[r].pc = "answered" /\ req[r].body.kind = "cancelOverride" =>
      \A o \in store.overrides : o.by # req[r].body.id
=============================================================================
