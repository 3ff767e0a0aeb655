---------------------------- MODULE SessionProofs ----------------------------
(* Machine-checked proofs about Session, for any number of requests at      *)
(* work at the same time, with refused saves, restarts and overrides that   *)
(* expire at any moment.                                                    *)
EXTENDS Session, TLAPS

Pendable == {a \in Actions : a.tool \in NeedsConfirmation}

\* A session record; the values in its mode may be anything.
ModeOK(m) == m = [f \in Fields |-> m[f]]

SessionOK(s) ==
  /\ ModeOK(s.mode)
  /\ s \in [mode : {s.mode}, overrides : SUBSET Overrides, pending : Pendable \cup {NoAction},
            intent : NeedsConfirmation \cup {"none"}, said : SUBSET Requests,
            events : SUBSET (Requests \X Actions), runs : SUBSET Requests]

\* The record q of request r: what it asks is one of its bodies, and an action that is
\* decided on is its own.
RequestOK(r, q) ==
  /\ q \in [pc : Pcs, body : {q.body}, copy : {q.copy}, outer : {q.outer},
            act : Actions \cup {NoAction}, replaced : Actions \cup {NoAction}]
  /\ SessionOK(q.copy) /\ SessionOK(q.outer)
  /\ q.pc # "new" => q.body \in Bodies[r]
  /\ q.pc \in {"rereading", "asking"} => q.body.kind = "chat"
  /\ q.pc = "deciding" => q.act \in Actions /\ q.act.by = r
  /\ q.pc \in {"executing", "writing"} => q.act \in Actions

RequestsOK ==
  /\ req \in [Requests -> {req[r] : r \in Requests}]
  /\ \A r \in Requests : RequestOK(r, req[r])

Inv == SessionOK(store) /\ SessionOK(disk) /\ RequestsOK

-----------------------------------------------------------------------------
(* What the helpers make of a session.                                      *)

LEMMA SessionUpdates ==
  ASSUME NEW s, SessionOK(s)
  PROVE  /\ \A x : ModeOK(x) => SessionOK([s EXCEPT !.mode = x])
         /\ \A x \in SUBSET Overrides : SessionOK([s EXCEPT !.overrides = x])
         /\ \A x \in Pendable \cup {NoAction} : SessionOK([s EXCEPT !.pending = x])
         /\ \A x \in NeedsConfirmation : SessionOK([s EXCEPT !.intent = x])
         /\ \A x \in SUBSET Requests : SessionOK([s EXCEPT !.said = x])
         /\ \A x \in SUBSET (Requests \X Actions) : SessionOK([s EXCEPT !.events = x])
         /\ \A x \in SUBSET Requests : SessionOK([s EXCEPT !.runs = x])
  BY DEF SessionOK

LEMMA SessionFields ==
  ASSUME NEW s, SessionOK(s)
  PROVE  /\ s.overrides \in SUBSET Overrides /\ s.pending \in Pendable \cup {NoAction}
         /\ s.said \in SUBSET Requests /\ s.runs \in SUBSET Requests
         /\ s.events \in SUBSET (Requests \X Actions)
         /\ s.intent \in NeedsConfirmation \cup {"none"}
  BY DEF SessionOK

LEMMA PruneOK ==
  ASSUME NEW s, SessionOK(s)
  PROVE  /\ SessionOK(PruneExpired(s))
         /\ PruneExpired(s).overrides = {o \in s.overrides : o.by \notin expired}
  <1>1. {o \in s.overrides : o.by \notin expired} \in SUBSET Overrides
    BY SessionFields
  <1>2. PruneExpired(s).overrides = {o \in s.overrides : o.by \notin expired}
    BY DEF SessionOK, PruneExpired
  <1> QED
    BY <1>1, <1>2, SessionUpdates DEF PruneExpired

LEMMA RememberOK ==
  ASSUME NEW s, SessionOK(s), NEW tool
  PROVE  SessionOK(Remember(s, tool))
  BY SessionUpdates DEF Remember

LEMMA FreshOK == SessionOK(Fresh)
  BY SessionAssumption DEF SessionAssumption, SessionOK, ModeOK, Fresh

LEMMA WithOK ==
  ASSUME NEW m, NEW update
  PROVE  ModeOK(With(m, update))
  BY DEF ModeOK, With

-----------------------------------------------------------------------------
(* What the helpers make of a request.                                      *)

\* A step of request r that gives it the record x.
Becomes(r, x) == req' = [req EXCEPT ![r] = x]

LEMMA OneRequest ==
  ASSUME RequestsOK, NEW r \in Requests, NEW x, Becomes(r, x), RequestOK(r, x)
  PROVE  RequestsOK'
  <1>1. /\ req' \in [Requests -> {req'[q] : q \in Requests}]
        /\ \A q \in Requests : req'[q] = IF q = r THEN x ELSE req[q]
    BY DEF RequestsOK, Becomes
  <1> QED
    BY <1>1 DEF RequestsOK

LEMMA AtBecomes ==
  ASSUME RequestsOK, NEW r \in Requests, NEW pc, NEW s, At(r, pc, s)
  PROVE  Becomes(r, [req[r] EXCEPT !.pc = pc, !.copy = s])
  BY DEF At, Becomes, RequestsOK

LEMMA EndsBecomes ==
  ASSUME RequestsOK, NEW r \in Requests, NEW pc, Ends(r, pc)
  PROVE  Becomes(r, [req[r] EXCEPT !.pc = pc, !.copy = Fresh, !.outer = Fresh])
  BY DEF Ends, Becomes, RequestsOK

\* What the states of a request in which little is known of it need.
LEMMA Settling ==
  ASSUME NEW r \in Requests, NEW q, RequestOK(r, q), NEW s, SessionOK(s),
         NEW pc \in Pcs \ {"rereading", "asking", "deciding", "executing", "writing"}
  PROVE  /\ q.pc # "new" \/ q.body \in Bodies[r] => RequestOK(r, [q EXCEPT !.pc = pc, !.copy = s])
         /\ q.pc # "new" =>
              RequestOK(r, [q EXCEPT !.pc = pc, !.copy = Fresh, !.outer = Fresh])
         /\ q.pc # "new" => RequestOK(r, [q EXCEPT !.pc = pc, !.act = NoAction, !.copy = s])
         /\ \A body \in Bodies[r] :
              RequestOK(r, [q EXCEPT !.pc = pc, !.body = body, !.copy = s])
  BY FreshOK DEF RequestOK

LEMMA Wanting ==
  ASSUME NEW r \in Requests, NEW q, RequestOK(r, q), NEW s, SessionOK(s), NEW body \in Bodies[r],
         body.kind = "chat"
  PROVE  /\ RequestOK(r, [q EXCEPT !.pc = "rereading", !.body = body, !.outer = s])
         /\ RequestOK(r, [q EXCEPT !.pc = "asking", !.body = body, !.copy = s])
         /\ \A a \in Actions, b \in Actions \cup {NoAction} : a.by = r =>
              RequestOK(r, [q EXCEPT !.pc = "deciding", !.body = body, !.copy = s, !.act = a,
                                     !.replaced = b])
  <1>1. /\ RequestOK(r, [q EXCEPT !.pc = "rereading", !.body = body, !.outer = s])
        /\ RequestOK(r, [q EXCEPT !.pc = "asking", !.body = body, !.copy = s])
    BY DEF RequestOK, Pcs
  <1>2. ASSUME NEW a \in Actions, NEW b \in Actions \cup {NoAction}, a.by = r
        PROVE  RequestOK(r, [q EXCEPT !.pc = "deciding", !.body = body, !.copy = s, !.act = a,
                                      !.replaced = b])
    BY <1>2 DEF RequestOK, Pcs
  <1> QED
    BY <1>1, <1>2

LEMMA Working ==
  ASSUME NEW r \in Requests, NEW q, RequestOK(r, q), NEW s, SessionOK(s),
         q.pc # "new" \/ q.body \in Bodies[r]
  PROVE  /\ \A a \in Actions : a.by = r => RequestOK(r, [q EXCEPT !.pc = "deciding", !.act = a])
         /\ \A pc \in {"executing", "writing"} :
              q.act \in Actions => RequestOK(r, [q EXCEPT !.pc = pc, !.copy = s])
         /\ \A a \in Actions, pc \in {"executing", "saving"} :
              RequestOK(r, [q EXCEPT !.pc = pc, !.copy = s, !.act = a])
  <1>1. ASSUME NEW a \in Actions, a.by = r
        PROVE  RequestOK(r, [q EXCEPT !.pc = "deciding", !.act = a])
    BY <1>1 DEF RequestOK, Pcs
  <1>2. ASSUME NEW pc \in {"executing", "writing"}, q.act \in Actions
        PROVE  RequestOK(r, [q EXCEPT !.pc = pc, !.copy = s])
    BY <1>2 DEF RequestOK, Pcs
  <1>3. ASSUME NEW a \in Actions, NEW pc \in {"executing", "saving"}
        PROVE  RequestOK(r, [q EXCEPT !.pc = pc, !.copy = s, !.act = a])
    BY <1>3 DEF RequestOK, Pcs
  <1> QED
    BY <1>1, <1>2, <1>3

LEMMA OwnActions ==
  ASSUME SessionAssumption, NEW r \in Requests, NEW h, NEW body \in Bodies[r], body.kind = "chat",
         h \in {"time", "event", "list", "create", "replace"}
  PROVE  Wanted(r, h, body) \in Actions /\ Wanted(r, h, body).by = r
  BY DEF SessionAssumption, Wanted, Actions, Askers, ToolOf, Tools

-----------------------------------------------------------------------------
(* Steps that keep the shape of the requests. *)

LEMMA ReadsOK ==
  ASSUME RequestsOK, NEW r \in Requests, NEW body \in Bodies[r], NEW s, SessionOK(s),
         NEW pc \in {"saving", "over", "asking"}, pc = "asking" => body.kind = "chat",
         Reads(r, body, pc, s)
  PROVE  RequestsOK'
  <1>1. Becomes(r, [req[r] EXCEPT !.pc = pc, !.body = body, !.copy = s])
    BY DEF Reads, Becomes
  <1>2. RequestOK(r, [req[r] EXCEPT !.pc = pc, !.body = body, !.copy = s])
    BY Settling, Wanting DEF RequestsOK, Pcs, Idle
  <1> QED
    BY <1>1, <1>2, OneRequest

LEMMA ReadsForOK ==
  ASSUME RequestsOK, NEW r \in Requests, NEW body \in Bodies[r], body.kind = "chat", NEW s,
         SessionOK(s), NEW a \in Actions, a.by = r, NEW b \in Actions \cup {NoAction},
         ReadsFor(r, body, "deciding", s, a, b)
  PROVE  RequestsOK'
  <1>1. Becomes(r, [req[r] EXCEPT !.pc = "deciding", !.body = body, !.copy = s, !.act = a,
                                  !.replaced = b])
    BY DEF ReadsFor, Becomes
  <1>2. RequestOK(r, [req[r] EXCEPT !.pc = "deciding", !.body = body, !.copy = s, !.act = a,
                                    !.replaced = b])
    BY Wanting DEF RequestsOK
  <1> QED
    BY <1>1, <1>2, OneRequest

LEMMA AtOK ==
  ASSUME RequestsOK, NEW r \in Requests, req[r].pc # "new", NEW s, SessionOK(s),
         NEW pc \in {"saving", "reporting", "reportingOuter"}, At(r, pc, s)
  PROVE  RequestsOK'
  <1>1. RequestOK(r, [req[r] EXCEPT !.pc = pc, !.copy = s])
    BY Settling DEF RequestsOK, Pcs
  <1> QED
    BY <1>1, AtBecomes, OneRequest

LEMMA EndsOK ==
  ASSUME RequestsOK, NEW r \in Requests, req[r].pc # "new", NEW pc \in {"answered", "over"},
         Ends(r, pc)
  PROVE  RequestsOK'
  <1>1. RequestOK(r, [req[r] EXCEPT !.pc = pc, !.copy = Fresh, !.outer = Fresh])
    BY Settling, FreshOK DEF RequestsOK, Pcs, Idle
  <1> QED
    BY <1>1, EndsBecomes, OneRequest

\* handleChat works on what it reads and hears.
LEMMA HandleChatOK ==
  ASSUME SessionAssumption, Inv, NEW r \in Requests, NEW body \in Bodies[r], body.kind = "chat",
         HandleChat(r, body)
  PROVE  RequestsOK'
  <1> DEFINE s == [store EXCEPT !.mode = With(@, body.mode)]
             heard == [s EXCEPT !.said = @ \cup {r}]
  <1>1. SessionOK(s)
    BY SessionUpdates, WithOK DEF Inv
  <1>2. SessionOK(heard)
    BY <1>1, SessionFields, SessionUpdates
  <1>3. SessionOK([heard EXCEPT !.overrides = @ \cup {MadeBy(r, body.override)}])
    <2>1. MadeBy(r, body.override) \in Overrides
      BY DEF SessionAssumption, MadeBy, Overrides, Askers
    <2> QED
      BY <1>2, <2>1, SessionFields, SessionUpdates
  <1>4. SessionOK([heard EXCEPT !.mode = With(@, body.instruction)])
    BY <1>2, SessionUpdates, WithOK
  <1>5. SessionOK(WithoutReplaced(heard)) /\ heard.pending \in Actions \cup {NoAction}
    <2>1. SessionOK([heard EXCEPT !.pending = NoAction])
      BY <1>2, SessionUpdates
    <2>2. SessionOK([[heard EXCEPT !.pending = NoAction] EXCEPT !.intent = "create-entry"])
      BY <2>1, SessionUpdates DEF NeedsConfirmation
    <2>3. SessionOK(WithoutReplaced(heard))
      BY <2>2 DEF WithoutReplaced
    <2> QED
      BY <1>2, <2>3, SessionFields DEF Pendable
  <1> HIDE DEF s, heard
  <1>6. PICK h :
          \/ /\ h = "empty"
             /\ Reads(r, body, "saving", s)
          \/ /\ h \in {"stillPending", "nothing", "talk"}
             /\ Reads(r, body, "saving", heard)
          \/ /\ h = "override"
             /\ Reads(r, body, "saving",
                  [heard EXCEPT !.overrides = @ \cup {MadeBy(r, body.override)}])
          \/ /\ h = "mode"
             /\ Reads(r, body, "saving", [heard EXCEPT !.mode = With(@, body.instruction)])
          \/ /\ h = "resolve"
             /\ req' = [req EXCEPT ![r] =
                  [@ EXCEPT !.pc = "rereading", !.body = body, !.outer = heard]]
             /\ UNCHANGED behind /\ OnlyRequest
          \/ /\ h = "replace"
             /\ ReadsFor(r, body, "deciding", WithoutReplaced(heard), Wanted(r, h, body),
                  heard.pending)
          \/ /\ h \in {"time", "event", "list", "create"}
             /\ ReadsFor(r, body, "deciding", heard, Wanted(r, h, body), NoAction)
          \/ /\ h = "ask"
             /\ Reads(r, body, "asking", heard)
    BY Zenon DEF HandleChat, s, heard
  <1>7. CASE h \in {"replace", "time", "event", "list", "create"}
    BY <1>2, <1>5, <1>6, <1>7, OwnActions, ReadsForOK DEF Inv
  <1>8. CASE h = "resolve"
    <2>1. Becomes(r, [req[r] EXCEPT !.pc = "rereading", !.body = body, !.outer = heard])
      BY <1>6, <1>8 DEF Becomes
    <2>2. RequestOK(r, [req[r] EXCEPT !.pc = "rereading", !.body = body, !.outer = heard])
      BY <1>2, Wanting DEF Inv, RequestsOK
    <2> QED
      BY <2>1, <2>2, OneRequest DEF Inv
  <1>9. CASE h \in {"empty", "stillPending", "nothing", "talk", "override", "mode", "ask"}
    BY <1>1, <1>2, <1>3, <1>4, <1>6, <1>9, ReadsOK DEF Inv
  <1> QED
    BY <1>6, <1>7, <1>8, <1>9

\* resolvePendingAction takes the action that is pending in the session as it is.
LEMMA ResolvedOK ==
  ASSUME SessionAssumption, SessionOK(store), NEW r \in Requests, NEW q, RequestOK(r, q),
         q.pc # "new" \/ q.body \in Bodies[r], NEW approved
  PROVE  RequestOK(r, Resolved(q, approved))
  <1>1. CASE store.pending = NoAction
    <2>1. RequestOK(r, [q EXCEPT !.pc = "saving", !.copy = store])
      BY Settling DEF Pcs
    <2> QED
      BY <1>1, <2>1 DEF Resolved
  <1>2. CASE store.pending # NoAction
    <2> DEFINE a == store.pending
               s == [Remember(store, a.tool) EXCEPT !.pending = NoAction]
    <2>1. a \in Actions
      BY <1>2, SessionFields DEF Pendable
    <2>2. SessionOK(s)
      BY RememberOK, SessionUpdates
    <2> HIDE DEF s
    <2>3. RequestOK(r, [q EXCEPT !.pc = "executing", !.copy = s, !.act = a])
          /\ RequestOK(r, [q EXCEPT !.pc = "saving", !.copy = s, !.act = a])
      BY <2>1, <2>2, Working
    <2> QED
      BY <1>2, <2>3 DEF Resolved, s
  <1> QED
    BY <1>1, <1>2

LEMMA ResolvesOK ==
  ASSUME SessionAssumption, Inv, NEW r \in Requests
  PROVE  /\ ResolveTyped(r) => RequestsOK'
         /\ \A body \in Bodies[r] :
              req[r].pc = "new" /\ ResolvePendingAction(r, body) => RequestsOK'
  <1>1. ASSUME ResolveTyped(r) PROVE RequestsOK'
    <2>1. req[r].pc # "new" /\ RequestOK(r, req[r])
      BY <1>1 DEF ResolveTyped, Inv, RequestsOK
    <2>2. PICK approved : Becomes(r, Resolved(req[r], approved))
      BY <1>1 DEF ResolveTyped, Becomes
    <2> QED
      BY <2>1, <2>2, ResolvedOK, OneRequest DEF Inv
  <1>2. ASSUME NEW body \in Bodies[r], req[r].pc = "new", ResolvePendingAction(r, body)
        PROVE  RequestsOK'
    <2> DEFINE q == [req[r] EXCEPT !.body = body]
    <2>1. Becomes(r, Resolved(q, body.approved))
      BY <1>2 DEF ResolvePendingAction, Becomes
    <2>2. RequestOK(r, q) /\ q.body = body
      BY <1>2 DEF Inv, RequestsOK, RequestOK
    <2> HIDE DEF q
    <2> QED
      BY <2>1, <2>2, ResolvedOK, OneRequest DEF Inv
  <1> QED
    BY <1>1, <1>2

LEMMA ExecuteOrQueueOK ==
  ASSUME SessionAssumption, Inv, NEW r \in Requests, ExecuteOrQueue(r)
  PROVE  RequestsOK'
  <1> DEFINE a == req[r].act
             s == PruneExpired(req[r].copy)
  <1>1. /\ RequestOK(r, req[r]) /\ req[r].pc # "new" /\ a \in Actions
        /\ SessionOK(req[r].copy) /\ SessionOK(s)
    BY PruneOK DEF ExecuteOrQueue, Inv, RequestsOK, RequestOK
  <1>2. CASE At(r, "saving", Remember(req[r].copy, a.tool))
    BY <1>1, <1>2, RememberOK, AtOK DEF Inv
  <1>3. CASE At(r, "executing", s)
    <2>1. RequestOK(r, [req[r] EXCEPT !.pc = "executing", !.copy = s])
      BY <1>1, Working
    <2> QED
      BY <1>3, <2>1, AtBecomes, OneRequest DEF Inv
  <1>4. CASE /\ ~RunsAtOnce(req[r].copy, a.tool)
             /\ req' = [req EXCEPT ![r].pc = "saving", ![r].act = NoAction,
                      ![r].copy = Remember([s EXCEPT !.pending = a], a.tool)]
    <2> DEFINE x == Remember([s EXCEPT !.pending = a], a.tool)
    <2>1. a \in Pendable
      BY <1>1, <1>4 DEF RunsAtOnce, Pendable
    <2>2. SessionOK(x)
      BY <1>1, <2>1, SessionUpdates, RememberOK
    <2>3. Becomes(r, [req[r] EXCEPT !.pc = "saving", !.act = NoAction, !.copy = x])
      BY <1>4 DEF Becomes, Inv, RequestsOK
    <2> HIDE DEF x
    <2>4. RequestOK(r, [req[r] EXCEPT !.pc = "saving", !.act = NoAction, !.copy = x])
      BY <1>1, <2>2, Settling DEF Pcs
    <2> QED
      BY <2>3, <2>4, OneRequest DEF Inv
  <1> QED
    BY <1>2, <1>3, <1>4 DEF ExecuteOrQueue

LEMMA ExecuteToolOK ==
  ASSUME SessionAssumption, Inv, NEW r \in Requests, ExecuteTool(r) \/ WritesEntry(r)
  PROVE  RequestsOK'
  <1> DEFINE a == req[r].act
             s == req[r].copy
             done == Remember(s, a.tool)
  <1>1. /\ RequestOK(r, req[r]) /\ req[r].pc # "new" /\ a \in Actions
        /\ SessionOK(s) /\ SessionOK(done)
    <2>1. RequestOK(r, req[r])
      BY DEF Inv, RequestsOK
    <2>2. req[r].pc \in {"executing", "writing"}
      BY DEF ExecuteTool, WritesEntry
    <2>3. a \in Actions /\ SessionOK(s)
      BY <2>1, <2>2 DEF RequestOK
    <2> QED
      BY <2>1, <2>2, <2>3, RememberOK
  <1>2. SessionOK([done EXCEPT !.events = @ \cup {<<r, a>>}])
    BY <1>1, SessionFields, SessionUpdates
  <1> HIDE DEF done
  <1>3. CASE At(r, "writing", s)
    <2>1. RequestOK(r, [req[r] EXCEPT !.pc = "writing", !.copy = s])
      BY <1>1, Working
    <2> QED
      BY <1>3, <2>1, AtBecomes, OneRequest DEF Inv
  <1>4. CASE \/ At(r, "saving", done) \/ At(r, "reporting", done) \/ At(r, "saving", s)
             \/ At(r, "saving", [done EXCEPT !.events = @ \cup {<<r, a>>}])
    BY <1>1, <1>2, <1>4, AtOK DEF Inv
  <1>5. \/ At(r, "writing", s) \/ At(r, "saving", done) \/ At(r, "reporting", done)
        \/ At(r, "saving", s) \/ At(r, "saving", [done EXCEPT !.events = @ \cup {<<r, a>>}])
    BY DEF ExecuteTool, WritesEntry, done
  <1> QED
    BY <1>3, <1>4, <1>5

LEMMA ModelAnswersOK ==
  ASSUME SessionAssumption, Inv, NEW r \in Requests, ModelAnswers(r)
  PROVE  RequestsOK'
  <1>1. /\ RequestOK(r, req[r]) /\ req[r].pc # "new" /\ SessionOK(req[r].copy)
        /\ req[r].body \in Bodies[r] /\ req[r].body.kind = "chat"
    BY DEF ModelAnswers, Inv, RequestsOK, RequestOK
  <1>2. CASE \E pc \in {"saving", "reporting"} : At(r, pc, req[r].copy)
    BY <1>1, <1>2, AtOK DEF Inv
  <1>3. CASE req' = [req EXCEPT ![r].pc = "deciding",
               ![r].act = [by |-> r, tool |-> "clock", name |-> req[r].body.name]]
    <2> DEFINE a == [by |-> r, tool |-> "clock", name |-> req[r].body.name]
    <2>1. a \in Actions /\ a.by = r
      BY <1>1 DEF SessionAssumption, Actions, Askers, Tools
    <2>2. Becomes(r, [req[r] EXCEPT !.pc = "deciding", !.act = a])
      BY <1>3 DEF Becomes, Inv, RequestsOK
    <2> HIDE DEF a
    <2>3. RequestOK(r, [req[r] EXCEPT !.pc = "deciding", !.act = a])
      BY <1>1, <2>1, Working
    <2> QED
      BY <2>2, <2>3, OneRequest DEF Inv
  <1> QED
    BY <1>2, <1>3 DEF ModelAnswers

-----------------------------------------------------------------------------
(* Steps that save. *)

LEMMA SavesOK ==
  ASSUME Inv, NEW r \in Requests, req[r].pc # "new", NEW s, SessionOK(s),
         NEW pc \in {"answered", "over"}, Saves(r, s, pc)
  PROVE  Inv'
  <1>1. RequestsOK'
    BY EndsOK DEF Saves, Inv
  <1>2. SessionOK(store)' /\ SessionOK(disk)'
    BY DEF Saves, SessionOK
  <1> QED
    BY <1>1, <1>2 DEF Inv

LEMMA KeptOK ==
  ASSUME Inv, NEW r \in Requests, Kept(r)
  PROVE  SessionOK(store)'
  <1>1. SessionOK(req[r].copy)
    BY DEF Inv, RequestsOK, RequestOK
  <1>2. store' = store \/ store' = req[r].copy
    BY DEF Kept
  <1> QED
    BY <1>1, <1>2 DEF SessionOK, Inv

LEMMA RefusedOK ==
  ASSUME Inv, NEW r \in Requests, ReplyFails(r) \/ ReportFails(r)
  PROVE  Inv'
  <1>1. req[r].pc # "new" /\ SessionOK(req[r].copy)
    BY DEF ReplyFails, ReportFails, Inv, RequestsOK, RequestOK
  <1>2. SessionOK(store)' /\ SessionOK(disk)'
    <2>1. Kept(r) /\ disk' = disk
      BY DEF ReplyFails, ReportFails
    <2> QED
      BY <2>1, KeptOK DEF Inv, SessionOK
  <1>3. \/ At(r, "reporting", req[r].copy) \/ At(r, "reportingOuter", req[r].copy)
        \/ Ends(r, "over")
    BY DEF ReplyFails, ReportFails
  <1>4. RequestsOK'
    BY <1>1, <1>3, AtOK, EndsOK DEF Inv
  <1> QED
    BY <1>2, <1>4 DEF Inv

\* Every step keeps the shape of the sessions and of the requests.
LEMMA StepKeepsInv ==
  ASSUME SessionAssumption, Inv, [Next]_vars
  PROVE  Inv'
  <1>0. ASSUME UNCHANGED <<store, disk>>, RequestsOK' PROVE Inv'
    BY <1>0 DEF Inv, SessionOK
  <1>1. ASSUME NEW r \in Requests, NEW body \in Bodies[r], Handles(r, body) PROVE Inv'
    <2>1. CASE body.kind = "chat" /\ HandleChat(r, body)
      <3>1. UNCHANGED <<store, disk>>
        BY <2>1 DEF HandleChat, Reads, ReadsFor, OnlyRequest
      <3> QED
        BY <1>0, <2>1, <3>1, HandleChatOK
    <2>2. CASE ResolvePendingAction(r, body)
      BY <1>0, <1>1, <2>2, ResolvesOK DEF ResolvePendingAction, OnlyRequest, Handles
    <2>3. CASE UpdateMode(r, body)
      <3>1. SessionOK([store EXCEPT !.mode = With(@, body.mode)])
        BY SessionUpdates, WithOK DEF Inv
      <3> QED
        BY <1>0, <2>3, <3>1, ReadsOK DEF UpdateMode, Reads, OnlyRequest, Inv
    <2>4. CASE body.kind = "createOverride" /\ CreateOverride(r, body)
      <3>1. MadeBy(r, body.override) \in Overrides
        BY <2>4 DEF SessionAssumption, MadeBy, Overrides, Askers
      <3>2. SessionOK([PruneExpired(store) EXCEPT !.overrides = @ \cup {MadeBy(r, body.override)}])
        BY <3>1, PruneOK, SessionFields, SessionUpdates DEF Inv
      <3> QED
        BY <1>0, <2>4, <3>2, ReadsOK DEF CreateOverride, Reads, OnlyRequest, Inv
    <2>5. CASE CancelOverride(r, body)
      <3>1. SessionOK([store EXCEPT !.overrides = {o \in @ : o.by # body.id}])
        BY SessionFields, SessionUpdates DEF Inv
      <3> DEFINE s == [store EXCEPT !.overrides = {o \in @ : o.by # body.id}]
      <3>2. CASE Reads(r, body, "over", Fresh)
        BY <1>0, <3>2, ReadsOK, FreshOK DEF Reads, OnlyRequest, Inv
      <3>3. CASE Reads(r, body, "saving", s)
        BY <1>0, <3>1, <3>3, ReadsOK DEF Reads, OnlyRequest, Inv
      <3> QED
        BY <2>5, <3>2, <3>3 DEF CancelOverride
    <2>6. CASE ListOverrides(r, body)
      BY <1>0, <2>6, PruneOK, ReadsOK DEF ListOverrides, Reads, OnlyRequest, Inv
    <2>7. CASE RecordRun(r, body)
      <3>1. SessionOK([store EXCEPT !.runs = @ \cup {r}])
        BY SessionFields, SessionUpdates DEF Inv
      <3> QED
        BY <1>0, <2>7, <3>1, ReadsOK DEF RecordRun, Reads, OnlyRequest, Inv
    <2> QED
      BY <1>1, <2>1, <2>2, <2>3, <2>4, <2>5, <2>6, <2>7 DEF Handles
  <1>2. ASSUME NEW r \in Requests, GoesOn(r) PROVE Inv'
    <2>1. CASE ModelAnswers(r)
      BY <1>0, <2>1, ModelAnswersOK DEF ModelAnswers, OnlyRequest
    <2>2. CASE ExecuteOrQueue(r)
      BY <1>0, <2>2, ExecuteOrQueueOK DEF ExecuteOrQueue, OnlyRequest
    <2>3. CASE ExecuteTool(r) \/ WritesEntry(r)
      BY <1>0, <2>3, ExecuteToolOK DEF ExecuteTool, WritesEntry, OnlyRequest
    <2>4. CASE ResolveTyped(r)
      BY <1>0, <2>4, ResolvesOK DEF ResolveTyped, OnlyRequest
    <2>5. CASE Replies(r) \/ Reports(r) \/ ReportsOuter(r)
      <3>1. SessionOK(req[r].copy) /\ SessionOK(req[r].outer)
        BY DEF Inv, RequestsOK, RequestOK
      <3> QED
        BY <2>5, <3>1, SavesOK DEF Replies, Reports, ReportsOuter
    <2>6. CASE ReplyFails(r) \/ ReportFails(r)
      BY <2>6, RefusedOK
    <2> QED
      BY <1>2, <2>1, <2>2, <2>3, <2>4, <2>5, <2>6 DEF GoesOn
  <1>3. CASE \E o \in Askers : Expires(o)
    BY <1>3 DEF Expires, Inv, SessionOK, RequestsOK, RequestOK
  <1>4. CASE Restarts
    <2>1. \A r \in Requests : RequestOK(r, req'[r])
      <3> SUFFICES ASSUME NEW r \in Requests PROVE RequestOK(r, req'[r])
        OBVIOUS
      <3>1. RequestOK(r, req[r])
        BY DEF Inv, RequestsOK
      <3>2. AtWork(r) =>
              RequestOK(r, [req[r] EXCEPT !.pc = "over", !.copy = Fresh, !.outer = Fresh])
        BY <3>1, Settling, FreshOK DEF AtWork, Pcs, Idle
      <3> QED
        BY <1>4, <3>1, <3>2 DEF Restarts
    <2>2. req' \in [Requests -> {req'[r] : r \in Requests}]
      BY <1>4 DEF Restarts
    <2>3. RequestsOK'
      BY <2>1, <2>2 DEF RequestsOK
    <2> QED
      BY <1>4, <2>3 DEF Restarts, Inv, SessionOK
  <1>5. CASE UNCHANGED vars
    BY <1>5 DEF vars, Inv, SessionOK, RequestsOK, RequestOK
  <1> QED
    BY <1>1, <1>2, <1>3, <1>4, <1>5 DEF Next

\* Inv holds initially, whatever an earlier run of the agent has left.
THEOREM SpecKeepsInv == Spec => []Inv
  <1>1. ASSUME Init PROVE Inv
    <2>1. Granted \in Overrides
      BY DEF Granted, Overrides, Askers
    <2>2. Left("create-entry", LeftName) \in Pendable
      BY SessionAssumption
         DEF SessionAssumption, Left, Pendable, Actions, Askers, Tools, NeedsConfirmation
    <2>3. SessionOK([Fresh EXCEPT !.overrides = {Granted}])
      BY <2>1, FreshOK, SessionUpdates
    <2>4. SessionOK([Fresh EXCEPT !.pending = Left("create-entry", LeftName),
                                  !.intent = "create-entry"])
      <3>1. SessionOK([Fresh EXCEPT !.pending = Left("create-entry", LeftName)])
        BY <2>2, FreshOK, SessionUpdates
      <3>2. SessionOK([[Fresh EXCEPT !.pending = Left("create-entry", LeftName)]
                         EXCEPT !.intent = "create-entry"])
        BY <3>1, SessionUpdates DEF NeedsConfirmation
      <3> QED
        BY <3>2
    <2>5. \A r \in Requests : RequestOK(r, Unasked)
      BY FreshOK DEF RequestOK, Unasked, Pcs, Idle
    <2> QED
      BY <1>1, <2>3, <2>4, <2>5, FreshOK DEF Init, Inv, RequestsOK
  <1>2. Inv /\ [Next]_vars => Inv'
    BY SessionAssumption, StepKeepsInv
  <1> QED
    BY <1>1, <1>2, PTL DEF Spec

\* What the store and every request hold is a session, and what is pending needs a
\* confirmation.
THEOREM SessionAlwaysTyped == Spec => []TypeOK
  <1>1. ASSUME NEW s, SessionOK(s) PROVE IsSession(s)
    BY <1>1 DEF SessionOK, IsSession, Pendable
  <1>2. Inv => TypeOK
    BY <1>1 DEF Inv, RequestsOK, RequestOK, TypeOK
  <1> QED
    BY <1>2, SpecKeepsInv, PTL

-----------------------------------------------------------------------------
(* Tools that need a confirmation run with one. *)

Begins(r) == req[r].pc # "executing" /\ req'[r].pc = "executing"
             /\ req'[r].act.tool \in NeedsConfirmation

Confirmed(r) ==
  \/ Approves(r) /\ req'[r].act = store.pending
  \/ /\ req'[r].act.by = r
     /\ \E o \in req'[r].copy.overrides : Grants(o, req'[r].act.tool) /\ o.by \notin expired

LEMMA ResolvedConfirmed ==
  ASSUME Inv, NEW r \in Requests, NEW q, RequestOK(r, q), NEW approved,
         q.pc # "new" \/ q.body \in Bodies[r],
         Becomes(r, Resolved(q, approved)), req'[r].pc = "executing"
  PROVE  approved /\ req'[r].act = store.pending /\ req'[r].body = q.body
  <1>1. req'[r] = Resolved(q, approved)
    BY DEF Becomes, Inv, RequestsOK
  <1>2. q \in [pc : Pcs, body : {q.body}, copy : {q.copy}, outer : {q.outer},
               act : Actions \cup {NoAction}, replaced : Actions \cup {NoAction}]
    BY DEF RequestOK
  <1> QED
    BY <1>1, <1>2 DEF Resolved

LEMMA AskedConfirmed ==
  ASSUME Inv, NEW r \in Requests, ExecuteOrQueue(r), Begins(r)
  PROVE  Confirmed(r)
  <1> DEFINE a == req[r].act
             s == PruneExpired(req[r].copy)
  <1>1. /\ RequestOK(r, req[r]) /\ a \in Actions /\ a.by = r
        /\ SessionOK(req[r].copy)
        /\ req[r] \in [pc : Pcs, body : {req[r].body}, copy : {req[r].copy},
                       outer : {req[r].outer}, act : Actions \cup {NoAction},
                       replaced : Actions \cup {NoAction}]
    BY DEF ExecuteOrQueue, Inv, RequestsOK, RequestOK
  <1>2. RunsAtOnce(req[r].copy, a.tool) /\ At(r, "executing", s)
    <2>1. \/ At(r, "saving", Remember(req[r].copy, a.tool))
          \/ RunsAtOnce(req[r].copy, a.tool) /\ At(r, "executing", s)
          \/ req' = [req EXCEPT ![r].pc = "saving", ![r].act = NoAction,
                      ![r].copy = Remember([s EXCEPT !.pending = a], a.tool)]
      BY DEF ExecuteOrQueue
    <2>2. req \in [Requests -> {req[q] : q \in Requests}]
      BY DEF Inv, RequestsOK
    <2> QED
      BY <1>1, <2>1, <2>2 DEF At, Begins
  <1>3. req'[r].act = a /\ req'[r].copy = s
    BY <1>1, <1>2 DEF At, Inv, RequestsOK
  <1>4. a.tool \in NeedsConfirmation
    BY <1>3 DEF Begins
  <1>5. PICK o \in s.overrides : Grants(o, a.tool)
    BY <1>2, <1>4 DEF RunsAtOnce
  <1>6. o.by \notin expired
    BY <1>1, <1>5, PruneOK
  <1> QED
    BY <1>1, <1>3, <1>5, <1>6 DEF Confirmed

\* Where a request that works on may get besides "executing".
LEMMA Elsewhere ==
  ASSUME Inv, NEW r \in Requests, GoesOn(r), ~ExecuteOrQueue(r), ~ResolveTyped(r)
  PROVE  req'[r].pc # "executing"
  <1>1. /\ req \in [Requests -> {req[q] : q \in Requests}]
        /\ req[r] \in [pc : Pcs, body : {req[r].body}, copy : {req[r].copy},
                       outer : {req[r].outer}, act : Actions \cup {NoAction},
                       replaced : Actions \cup {NoAction}]
    BY DEF Inv, RequestsOK, RequestOK
  <1>2. \A pc, s : At(r, pc, s) => req'[r].pc = pc
    BY <1>1 DEF At
  <1>3. \A pc : Ends(r, pc) => req'[r].pc = pc
    BY <1>1 DEF Ends
  <1>4. CASE ModelAnswers(r)
    BY <1>1, <1>2, <1>4 DEF ModelAnswers
  <1>5. CASE ExecuteTool(r) \/ WritesEntry(r)
    BY <1>2, <1>5 DEF ExecuteTool, WritesEntry
  <1>6. CASE Replies(r) \/ Reports(r) \/ ReportsOuter(r)
    BY <1>3, <1>6 DEF Replies, Reports, ReportsOuter, Saves
  <1>7. CASE ReplyFails(r) \/ ReportFails(r)
    BY <1>2, <1>3, <1>7 DEF ReplyFails, ReportFails
  <1> QED
    BY <1>4, <1>5, <1>6, <1>7 DEF GoesOn

LEMMA HandledElsewhere ==
  ASSUME Inv, NEW r \in Requests, NEW body \in Bodies[r], Handles(r, body),
         ~(body.kind = "resolve" /\ ResolvePendingAction(r, body))
  PROVE  req'[r].pc # "executing"
  <1>1. /\ req \in [Requests -> {req[q] : q \in Requests}]
        /\ req[r] \in [pc : Pcs, body : {req[r].body}, copy : {req[r].copy},
                       outer : {req[r].outer}, act : Actions \cup {NoAction},
                       replaced : Actions \cup {NoAction}]
    BY DEF Inv, RequestsOK, RequestOK
  <1>2. \A pc, s : Reads(r, body, pc, s) => req'[r].pc = pc
    BY <1>1 DEF Reads
  <1>3. \A s, a, b : ReadsFor(r, body, "deciding", s, a, b) => req'[r].pc = "deciding"
    BY <1>1 DEF ReadsFor
  <1>4. CASE HandleChat(r, body)
    BY <1>1, <1>2, <1>3, <1>4 DEF HandleChat
  <1>5. CASE UpdateMode(r, body) \/ CreateOverride(r, body) \/ CancelOverride(r, body)
             \/ ListOverrides(r, body) \/ RecordRun(r, body)
    BY <1>2, <1>5 DEF UpdateMode, CreateOverride, CancelOverride, ListOverrides, RecordRun
  <1> QED
    BY <1>4, <1>5 DEF Handles

\* A request's record is its own.
LEMMA OthersStay ==
  ASSUME Inv, NEW p \in Requests, NEW r \in Requests, p # r,
         GoesOn(p) \/ \E body \in Bodies[p] : Handles(p, body)
  PROVE  req'[r] = req[r]
  <1>1. req \in [Requests -> {req[q] : q \in Requests}]
    BY DEF Inv, RequestsOK
  <1>2. CASE GoesOn(p)
    <2>1. \A pc, s : At(p, pc, s) \/ Ends(p, pc) => req'[r] = req[r]
      BY <1>1 DEF At, Ends
    <2>2. CASE ModelAnswers(p) \/ ExecuteOrQueue(p) \/ ResolveTyped(p)
      BY <1>1, <2>1, <2>2 DEF ModelAnswers, ExecuteOrQueue, ResolveTyped
    <2>3. CASE ExecuteTool(p) \/ WritesEntry(p)
      BY <2>1, <2>3 DEF ExecuteTool, WritesEntry
    <2>4. CASE Replies(p) \/ Reports(p) \/ ReportsOuter(p)
      BY <2>1, <2>4 DEF Replies, Reports, ReportsOuter, Saves
    <2>5. CASE ReplyFails(p) \/ ReportFails(p)
      BY <2>1, <2>5 DEF ReplyFails, ReportFails
    <2> QED
      BY <1>2, <2>2, <2>3, <2>4, <2>5 DEF GoesOn
  <1>3. ASSUME NEW body \in Bodies[p], Handles(p, body) PROVE req'[r] = req[r]
    <2>1. \A pc, s, a, b :
            Reads(p, body, pc, s) \/ ReadsFor(p, body, pc, s, a, b) => req'[r] = req[r]
      BY <1>1 DEF Reads, ReadsFor
    <2>2. CASE HandleChat(p, body)
      BY <1>1, <2>1, <2>2 DEF HandleChat
    <2>3. CASE ResolvePendingAction(p, body)
      BY <1>1, <2>3 DEF ResolvePendingAction
    <2> QED
      BY <1>3, <2>1, <2>2, <2>3 DEF Handles, UpdateMode, CreateOverride, CancelOverride,
         ListOverrides, RecordRun
  <1> QED
    BY <1>2, <1>3

LEMMA StepConfirmed ==
  ASSUME Inv, [Next]_vars, NEW r \in Requests, Begins(r)
  PROVE  Confirmed(r)
  <1>1. CASE ExecuteOrQueue(r)
    BY <1>1, AskedConfirmed
  <1>2. CASE ResolveTyped(r)
    <2>1. RequestOK(r, req[r]) /\ req[r].pc # "new" /\ req[r].body.kind = "chat"
      BY <1>2 DEF ResolveTyped, Inv, RequestsOK, RequestOK
    <2>2. Becomes(r, Resolved(req[r], "approve" \in req[r].body.is))
      BY <1>2 DEF ResolveTyped, Becomes
    <2>3. /\ "approve" \in req[r].body.is /\ req'[r].act = store.pending
          /\ req'[r].body = req[r].body
      BY <2>1, <2>2, ResolvedConfirmed DEF Begins
    <2> QED
      BY <2>1, <2>3 DEF Confirmed, Approves
  <1>3. ASSUME NEW body \in Bodies[r], Handles(r, body), body.kind = "resolve",
               ResolvePendingAction(r, body)
        PROVE  Confirmed(r)
    <2> DEFINE q == [req[r] EXCEPT !.body = body]
    <2>1. Becomes(r, Resolved(q, body.approved))
      BY <1>3 DEF ResolvePendingAction, Becomes
    <2>2. RequestOK(r, q) /\ q.body = body
      BY <1>3 DEF Handles, Inv, RequestsOK, RequestOK
    <2> HIDE DEF q
    <2> QED
      BY <1>3, <2>1, <2>2, ResolvedConfirmed DEF Begins, Confirmed, Approves
  <1>4. CASE UNCHANGED req[r] \/ Restarts \/ \E o \in Askers : Expires(o)
    <2>1. req'[r] = req[r] \/ req'[r].pc # "executing"
      <3>1. req[r] \in [pc : Pcs, body : {req[r].body}, copy : {req[r].copy},
                       outer : {req[r].outer}, act : Actions \cup {NoAction},
                       replaced : Actions \cup {NoAction}]
        BY DEF Inv, RequestsOK, RequestOK
      <3> QED
        BY <1>4, <3>1 DEF Restarts, Expires
    <2> QED
      BY <2>1 DEF Begins
  <1>5. CASE UNCHANGED vars
    BY <1>5 DEF vars, Begins
  <1> QED
    <2>1. ASSUME NEW body \in Bodies[r], Handles(r, body) PROVE Confirmed(r)
      BY <1>3, <2>1, HandledElsewhere DEF Begins
    <2>2. CASE GoesOn(r)
      BY <1>1, <1>2, <2>2, Elsewhere DEF Begins
    <2>3. ASSUME NEW p \in Requests, p # r,
                 GoesOn(p) \/ \E body \in Bodies[p] : Handles(p, body)
          PROVE  Confirmed(r)
      BY <1>4, <2>3, OthersStay
    <2> QED
      BY <1>4, <1>5, <2>1, <2>2, <2>3 DEF Next

\* A tool that needs a confirmation begins to run only for the action that is pending
\* in the session, in a request that approves it, or in the request that wants it,
\* under an override in force (executeOrQueue, resolvePendingAction).
THEOREM RunsAlwaysConfirmed == Spec => RunsConfirmed
  <1>1. Inv /\ [Next]_vars => [\A r \in Requests : Begins(r) => Confirmed(r)]_vars
    BY StepConfirmed
  <1>2. (\A r \in Requests : Begins(r) => Confirmed(r)) <=>
        (\A r \in Requests :
          (req[r].pc # "executing" /\ req'[r].pc = "executing"
           /\ req'[r].act.tool \in NeedsConfirmation) =>
            \/ Approves(r) /\ req'[r].act = store.pending
            \/ /\ req'[r].act.by = r
               /\ \E o \in req'[r].copy.overrides :
                    Grants(o, req'[r].act.tool) /\ o.by \notin expired)
    BY DEF Begins, Confirmed
  <1> QED
    BY <1>1, <1>2, SpecKeepsInv, PTL DEF RunsConfirmed, Spec

-----------------------------------------------------------------------------
(* A save loses what another request has saved only when that one overtook *)
(* it.  The invariant: every copy that no save has overtaken still has what *)
(* the store has, up to what its request was asked for.                     *)

Copying == {"deciding", "asking", "executing", "writing", "saving", "reporting"}

\* The record q of request r, when b are the copies that were overtaken.
RequestFresh(r, q, b) ==
  /\ q.pc \in Copying /\ <<r, "copy">> \notin b => Carries(q.body, q.copy)
  /\ q.outer # Fresh /\ <<r, "outer">> \notin b => Carries(q.body, q.outer)
  /\ q.pc \in Idle => q.outer = Fresh
  /\ q.pc \in {"asking", "deciding"} => q.copy.pending = NoAction
  /\ q.pc = "reportingOuter" => q.outer # Fresh
  /\ q.pc = "rereading" => MayEndAction(q.body)

CopiesFresh == \A r \in Requests : RequestFresh(r, req[r], behind)

LEMMA OneCopy ==
  ASSUME Inv, CopiesFresh, UNCHANGED <<store, expired>>, NEW r \in Requests, NEW x,
         Becomes(r, x), \A q \in Requests \ {r}, c \in {"copy", "outer"} :
                          <<q, c>> \in behind => <<q, c>> \in behind',
         RequestFresh(r, x, behind')
  PROVE  CopiesFresh'
  <1>1. \A q \in Requests : req'[q] = IF q = r THEN x ELSE req[q]
    BY DEF Becomes, Inv, RequestsOK
  <1>2. SUFFICES ASSUME NEW q \in Requests PROVE RequestFresh(q, req[q], behind)'
    BY DEF CopiesFresh
  <1>3. CASE q = r
    BY <1>1, <1>3 DEF RequestFresh, Carries
  <1>4. CASE q # r
    BY <1>1, <1>4 DEF CopiesFresh, RequestFresh, Carries
  <1> QED
    BY <1>3, <1>4

\* What may be done to a copy that carries what the store has.
LEMMA CarriesOn ==
  ASSUME SessionOK(store), NEW body, NEW s, SessionOK(s), Carries(body, s)
  PROVE  /\ Carries(body, PruneExpired(s))
         /\ \A tool : Carries(body, Remember(s, tool))
         /\ \A x : s.said \subseteq x => Carries(body, [s EXCEPT !.said = x])
         /\ \A x : s.events \subseteq x => Carries(body, [s EXCEPT !.events = x])
         /\ \A x : s.runs \subseteq x => Carries(body, [s EXCEPT !.runs = x])
         /\ \A x : s.overrides \subseteq x => Carries(body, [s EXCEPT !.overrides = x])
         /\ \A x : MaySetMode(body) => Carries(body, [s EXCEPT !.mode = x])
         /\ \A x : MayEndAction(body) \/ store.pending = NoAction =>
                Carries(body, [s EXCEPT !.pending = x])
  <1>1. s \in [mode : {s.mode}, overrides : SUBSET Overrides, pending : Pendable \cup {NoAction},
              intent : NeedsConfirmation \cup {"none"}, said : SUBSET Requests,
              events : SUBSET (Requests \X Actions), runs : SUBSET Requests]
    BY DEF SessionOK
  <1>2. Carries(body, PruneExpired(s))
    BY <1>1 DEF Carries, PruneExpired
  <1>3. ASSUME NEW tool PROVE Carries(body, Remember(s, tool))
    BY <1>1 DEF Carries, Remember
  <1>4. /\ \A x : s.said \subseteq x => Carries(body, [s EXCEPT !.said = x])
        /\ \A x : s.events \subseteq x => Carries(body, [s EXCEPT !.events = x])
        /\ \A x : s.runs \subseteq x => Carries(body, [s EXCEPT !.runs = x])
    BY <1>1 DEF Carries
  <1>5. ASSUME NEW x, s.overrides \subseteq x PROVE Carries(body, [s EXCEPT !.overrides = x])
    BY <1>1, <1>5 DEF Carries
  <1>6. ASSUME NEW x, MaySetMode(body) PROVE Carries(body, [s EXCEPT !.mode = x])
    BY <1>1, <1>6 DEF Carries
  <1>7. ASSUME NEW x, MayEndAction(body) \/ store.pending = NoAction
        PROVE  Carries(body, [s EXCEPT !.pending = x])
    BY <1>1, <1>7 DEF Carries
  <1> QED
    BY <1>2, <1>3, <1>4, <1>5, <1>6, <1>7

LEMMA StoreCarries ==
  ASSUME NEW body
  PROVE  Carries(body, store)
  BY DEF Carries

LEMMA NoUpdate ==
  ASSUME NEW m, ModeOK(m)
  PROVE  With(m, <<>>) = m
  <1>1. \A f \in Fields : f \notin DOMAIN <<>>
    BY DEF Fields
  <1> QED
    BY <1>1 DEF ModeOK, With

\* The handlers that begin an action of their own come after those of the pending one.
LEMMA BeginsWithoutPending ==
  ASSUME NEW s, NEW is, NEW h \in {"time", "event", "list", "create", "ask"},
         FirstToTake(h, s, is)
  PROVE  ~Pending(s)
  <1>1. PICK i \in 1..13 :
          h = HandlerOrder[i] /\ \A j \in 1..(i - 1) : ~Takes(HandlerOrder[j], s, is)
    BY DEF FirstToTake, HandlerOrder
  <1>2. i > 4
    BY <1>1 DEF HandlerOrder
  <1>3. ~Takes(HandlerOrder[4], s, is) /\ HandlerOrder[4] = "stillPending"
    BY <1>1, <1>2 DEF HandlerOrder
  <1> QED
    BY <1>3 DEF Takes

LEMMA TakesWhat ==
  ASSUME NEW s, NEW is, NEW h, FirstToTake(h, s, is)
  PROVE  /\ h = "resolve" => is \cap {"approve", "reject"} # {}
         /\ h = "replace" => "rename" \in is
         /\ h = "mode" => "mode" \in is
  <1>1. Takes(h, s, is)
    BY DEF FirstToTake
  <1> QED
    BY <1>1 DEF Takes

LEMMA ReadsFresh ==
  ASSUME Inv, CopiesFresh, NEW r \in Requests, req[r].pc = "new", NEW body, NEW s,
         NEW pc \in {"saving", "over", "asking"}, pc # "over" => Carries(body, s),
         pc = "asking" => s.pending = NoAction, Reads(r, body, pc, s)
  PROVE  CopiesFresh'
  <1> DEFINE x == [req[r] EXCEPT !.pc = pc, !.body = body, !.copy = s]
  <1>1. Becomes(r, x) /\ UNCHANGED <<store, expired, behind>>
    BY DEF Reads, OnlyRequest, Becomes
  <1>2. x.pc = pc /\ x.body = body /\ x.copy = s /\ x.outer = Fresh
    <2>1. RequestOK(r, req[r])
      BY DEF Inv, RequestsOK
    <2>2. req[r].outer = Fresh
      BY DEF CopiesFresh, RequestFresh, Idle
    <2> QED
      BY <2>1, <2>2 DEF RequestOK
  <1> HIDE DEF x
  <1>3. RequestFresh(r, x, behind')
    BY <1>2 DEF RequestFresh, Copying, Idle
  <1> QED
    BY <1>1, <1>3, OneCopy

LEMMA ReadsForFresh ==
  ASSUME Inv, CopiesFresh, NEW r \in Requests, req[r].pc = "new", NEW body, NEW s, NEW a,
         Carries(body, s), s.pending = NoAction, NEW b,
         ReadsFor(r, body, "deciding", s, a, b)
  PROVE  CopiesFresh'
  <1> DEFINE x == [req[r] EXCEPT !.pc = "deciding", !.body = body, !.copy = s, !.act = a,
                                 !.replaced = b]
  <1>1. Becomes(r, x) /\ UNCHANGED <<store, expired, behind>>
    BY DEF ReadsFor, OnlyRequest, Becomes
  <1>2. x.pc = "deciding" /\ x.body = body /\ x.copy = s /\ x.outer = Fresh
    <2>1. RequestOK(r, req[r])
      BY DEF Inv, RequestsOK
    <2>2. req[r].outer = Fresh
      BY DEF CopiesFresh, RequestFresh, Idle
    <2> QED
      BY <2>1, <2>2 DEF RequestOK
  <1> HIDE DEF x
  <1>3. RequestFresh(r, x, behind')
    BY <1>2 DEF RequestFresh, Copying, Idle
  <1> QED
    BY <1>1, <1>3, OneCopy

LEMMA HandleChatFresh ==
  ASSUME SessionAssumption, Inv, CopiesFresh, NEW r \in Requests, req[r].pc = "new",
         NEW body \in Bodies[r], body.kind = "chat", HandleChat(r, body)
  PROVE  CopiesFresh'
  <1> DEFINE s == [store EXCEPT !.mode = With(@, body.mode)]
             heard == [s EXCEPT !.said = @ \cup {r}]
  <1>1. SessionOK(s) /\ s.pending = store.pending
    BY SessionUpdates, WithOK DEF Inv, SessionOK
  <1>2. Carries(body, s)
    <2>1. CASE body.mode # <<>>
      BY <2>1, StoreCarries, CarriesOn DEF MaySetMode, Inv
    <2>2. CASE body.mode = <<>>
      <3>1. With(store.mode, body.mode) = store.mode
        BY <2>2, NoUpdate DEF Inv, SessionOK
      <3>2. s = store
        BY <3>1 DEF Inv, SessionOK
      <3> QED
        BY <3>2, StoreCarries
    <2> QED
      BY <2>1, <2>2
  <1>3. SessionOK(heard) /\ heard.pending = store.pending
    <2>1. SessionOK(heard)
      BY <1>1, SessionFields, SessionUpdates
    <2> QED
      BY <1>1, <2>1 DEF SessionOK
  <1> HIDE DEF s
  <1>4. Carries(body, heard)
    BY <1>1, <1>2, CarriesOn DEF Inv
  <1> HIDE DEF heard
  <1>5. PICK h :
          /\ FirstToTake(h, s, body.is)
          /\ \/ /\ h = "empty"
                /\ Reads(r, body, "saving", s)
             \/ /\ h \in {"stillPending", "nothing", "talk"}
                /\ Reads(r, body, "saving", heard)
             \/ /\ h = "override"
                /\ Reads(r, body, "saving",
                     [heard EXCEPT !.overrides = @ \cup {MadeBy(r, body.override)}])
             \/ /\ h = "mode"
                /\ Reads(r, body, "saving", [heard EXCEPT !.mode = With(@, body.instruction)])
             \/ /\ h = "resolve"
                /\ req' = [req EXCEPT ![r] =
                     [@ EXCEPT !.pc = "rereading", !.body = body, !.outer = heard]]
                /\ UNCHANGED behind /\ OnlyRequest
             \/ /\ h = "replace"
                /\ ReadsFor(r, body, "deciding", WithoutReplaced(heard), Wanted(r, h, body),
                     heard.pending)
             \/ /\ h \in {"time", "event", "list", "create"}
                /\ ReadsFor(r, body, "deciding", heard, Wanted(r, h, body), NoAction)
             \/ /\ h = "ask"
                /\ Reads(r, body, "asking", heard)
    BY Zenon DEF HandleChat, s, heard
  <1>6. CASE h = "empty" /\ Reads(r, body, "saving", s)
    BY <1>2, <1>6, ReadsFresh
  <1>7. CASE Reads(r, body, "saving", heard)
    BY <1>4, <1>7, ReadsFresh
  <1>8. CASE Reads(r, body, "saving",
               [heard EXCEPT !.overrides = @ \cup {MadeBy(r, body.override)}])
    BY <1>3, <1>4, <1>8, CarriesOn, ReadsFresh DEF Inv
  <1>9. CASE h = "mode"
             /\ Reads(r, body, "saving", [heard EXCEPT !.mode = With(@, body.instruction)])
    <2>1. MaySetMode(body)
      BY <1>5, <1>9, TakesWhat DEF MaySetMode
    <2>2. Carries(body, [heard EXCEPT !.mode = With(@, body.instruction)])
      BY <1>3, <1>4, <2>1, CarriesOn DEF Inv
    <2> QED
      BY <1>9, <2>2, ReadsFresh
  <1>10. CASE h = "resolve"
    <2> DEFINE x == [req[r] EXCEPT !.pc = "rereading", !.body = body, !.outer = heard]
    <2>1. Becomes(r, x) /\ UNCHANGED <<store, expired, behind>>
      BY <1>5, <1>10 DEF OnlyRequest, Becomes
    <2>2. x.pc = "rereading" /\ x.body = body /\ x.outer = heard
      BY DEF Inv, RequestsOK, RequestOK
    <2> HIDE DEF x
    <2>3. MayEndAction(body)
      BY <1>5, <1>10, TakesWhat DEF MayEndAction
    <2>4. RequestFresh(r, x, behind')
      BY <1>4, <2>2, <2>3 DEF RequestFresh, Copying, Idle
    <2> QED
      BY <2>1, <2>4, OneCopy
  <1>11. CASE h = "replace"
    <2> DEFINE w == [heard EXCEPT !.pending = NoAction]
               c == WithoutReplaced(heard)
    <2>1. MayEndAction(body)
      BY <1>5, <1>11, TakesWhat DEF MayEndAction
    <2>2. Carries(body, w)
      BY <1>3, <1>4, <2>1, CarriesOn DEF Inv
    <2>3. Carries(body, c) /\ c.pending = NoAction
      BY <1>3, <2>2 DEF SessionOK, Carries, WithoutReplaced
    <2> HIDE DEF w, c
    <2>4. ReadsFor(r, body, "deciding", c, Wanted(r, h, body), heard.pending)
      BY <1>5, <1>11 DEF c
    <2> QED
      BY <2>3, <2>4, ReadsForFresh
  <1>12. CASE h \in {"time", "event", "list", "create", "ask"}
    <2>1. heard.pending = NoAction
      BY <1>1, <1>3, <1>5, <1>12, BeginsWithoutPending DEF Pending
    <2> QED
      BY <1>4, <1>5, <1>12, <2>1, ReadsFresh, ReadsForFresh
  <1> QED
    BY <1>5, <1>6, <1>7, <1>8, <1>9, <1>10, <1>11, <1>12

\* resolvePendingAction begins with the session as it is.
LEMMA ResolvedFresh ==
  ASSUME SessionOK(store), NEW r \in Requests, NEW q, RequestOK(r, q), NEW approved, NEW b,
         MayEndAction(q.body),
         q.outer # Fresh /\ <<r, "outer">> \notin b => Carries(q.body, q.outer)
  PROVE  RequestFresh(r, Resolved(q, approved), b)
  <1>1. q \in [pc : Pcs, body : {q.body}, copy : {q.copy}, outer : {q.outer},
               act : Actions \cup {NoAction}, replaced : Actions \cup {NoAction}]
    BY DEF RequestOK
  <1>2. Carries(q.body, store)
    BY StoreCarries
  <1>3. CASE store.pending = NoAction
    <2>1. Resolved(q, approved) = [q EXCEPT !.pc = "saving", !.copy = store]
      BY <1>3 DEF Resolved
    <2> QED
      BY <1>1, <1>2, <2>1 DEF RequestFresh, Copying, Idle
  <1>4. CASE store.pending # NoAction
    <2> DEFINE a == store.pending
               s == [Remember(store, a.tool) EXCEPT !.pending = NoAction]
               pc == IF approved THEN "executing" ELSE "saving"
    <2>1. Carries(q.body, Remember(store, a.tool)) /\ SessionOK(Remember(store, a.tool))
      BY <1>2, CarriesOn, RememberOK
    <2>2. Carries(q.body, s)
      BY <2>1, CarriesOn
    <2>3. Resolved(q, approved) = [q EXCEPT !.pc = pc, !.copy = s, !.act = a]
      BY <1>4 DEF Resolved
    <2>4. pc \in {"executing", "saving"}
      OBVIOUS
    <2> HIDE DEF pc, s, a
    <2> QED
      BY <1>1, <2>2, <2>3, <2>4 DEF RequestFresh, Copying, Idle
  <1> QED
    BY <1>3, <1>4

LEMMA HandlesFresh ==
  ASSUME SessionAssumption, Inv, CopiesFresh, NEW r \in Requests, NEW body \in Bodies[r],
         Handles(r, body)
  PROVE  CopiesFresh'
  <1>1. req[r].pc = "new" /\ req[r].outer = Fresh /\ SessionOK(store)
    BY DEF Handles, CopiesFresh, RequestFresh, Idle, Inv
  <1>2. CASE body.kind = "chat" /\ HandleChat(r, body)
    BY <1>1, <1>2, HandleChatFresh
  <1>3. CASE body.kind = "resolve" /\ ResolvePendingAction(r, body)
    <2> DEFINE q == [req[r] EXCEPT !.body = body]
               x == Resolved(q, body.approved)
    <2>1. RequestOK(r, q) /\ q.body = body /\ q.outer = Fresh
      BY <1>1 DEF Inv, RequestsOK, RequestOK
    <2>2. Becomes(r, x) /\ UNCHANGED <<store, expired, behind>>
      BY <1>3 DEF ResolvePendingAction, OnlyRequest, Becomes
    <2> HIDE DEF q
    <2>3. RequestFresh(r, x, behind')
      BY <1>1, <1>3, <2>1, ResolvedFresh DEF MayEndAction
    <2> HIDE DEF x
    <2> QED
      BY <2>2, <2>3, OneCopy
  <1>4. CASE body.kind = "updateMode" /\ UpdateMode(r, body)
    <2>1. Carries(body, [store EXCEPT !.mode = With(@, body.mode)])
      BY <1>1, <1>4, StoreCarries, CarriesOn DEF MaySetMode
    <2> QED
      BY <1>1, <1>4, <2>1, ReadsFresh DEF UpdateMode
  <1>5. CASE CreateOverride(r, body)
    <2> DEFINE s == PruneExpired(store)
    <2>1. SessionOK(s) /\ Carries(body, s)
      BY <1>1, StoreCarries, CarriesOn, PruneOK
    <2>2. Carries(body, [s EXCEPT !.overrides = @ \cup {MadeBy(r, body.override)}])
      BY <1>1, <2>1, CarriesOn
    <2> QED
      BY <1>1, <1>5, <2>2, ReadsFresh DEF CreateOverride
  <1>6. CASE body.kind = "cancelOverride" /\ CancelOverride(r, body)
    <2> DEFINE s == [store EXCEPT !.overrides = {o \in @ : o.by # body.id}]
    <2>1. Carries(body, s)
      BY <1>1, <1>6 DEF SessionOK, Carries, Cancels
    <2> QED
      BY <1>1, <1>6, <2>1, ReadsFresh DEF CancelOverride
  <1>7. CASE ListOverrides(r, body)
    <2>1. Carries(body, PruneExpired(store))
      BY <1>1, StoreCarries, CarriesOn
    <2> QED
      BY <1>1, <1>7, <2>1, ReadsFresh DEF ListOverrides
  <1>8. CASE RecordRun(r, body)
    <2>1. Carries(body, [store EXCEPT !.runs = @ \cup {r}])
      BY <1>1, StoreCarries, CarriesOn
    <2> QED
      BY <1>1, <1>8, <2>1, ReadsFresh DEF RecordRun
  <1> QED
    BY <1>2, <1>3, <1>4, <1>5, <1>6, <1>7, <1>8 DEF Handles

\* A request works on: its copy s still carries what it must.
LEMMA AtFresh ==
  ASSUME Inv, CopiesFresh, NEW r \in Requests, NEW s,
         <<r, "copy">> \notin behind => Carries(req[r].body, s),
         NEW pc \in {"executing", "writing", "saving", "reporting"}, At(r, pc, s),
         UNCHANGED <<store, expired, behind>>
  PROVE  CopiesFresh'
  <1> DEFINE x == [req[r] EXCEPT !.pc = pc, !.copy = s]
  <1>1. Becomes(r, x)
    BY AtBecomes DEF Inv
  <1>2. x.pc = pc /\ x.body = req[r].body /\ x.copy = s /\ x.outer = req[r].outer
    BY DEF Inv, RequestsOK, RequestOK
  <1> HIDE DEF x
  <1>3. RequestFresh(r, x, behind')
    BY <1>2 DEF CopiesFresh, RequestFresh, Copying, Idle
  <1> QED
    BY <1>1, <1>3, OneCopy

LEMMA WorksFresh ==
  ASSUME SessionAssumption, Inv, CopiesFresh, NEW r \in Requests,
         \/ ModelAnswers(r) \/ ExecuteOrQueue(r) \/ ExecuteTool(r) \/ WritesEntry(r)
         \/ ResolveTyped(r)
  PROVE  CopiesFresh'
  <1> DEFINE a == req[r].act
             s == req[r].copy
             body == req[r].body
  <1>1. /\ RequestOK(r, req[r]) /\ RequestFresh(r, req[r], behind)
        /\ SessionOK(store) /\ SessionOK(s)
        /\ req[r] \in [pc : Pcs, body : {req[r].body}, copy : {req[r].copy},
                       outer : {req[r].outer}, act : Actions \cup {NoAction},
                       replaced : Actions \cup {NoAction}]
    BY DEF Inv, RequestsOK, RequestOK, CopiesFresh
  <1>2. CASE ModelAnswers(r)
    <2>1. UNCHANGED <<store, expired, behind>>
      BY <1>2 DEF ModelAnswers, OnlyRequest
    <2>2. s.pending = NoAction /\ (<<r, "copy">> \notin behind => Carries(body, s))
      BY <1>1, <1>2 DEF ModelAnswers, RequestFresh, Copying
    <2>3. CASE \E pc \in {"saving", "reporting"} : At(r, pc, s)
      BY <2>1, <2>2, <2>3, AtFresh
    <2>4. ASSUME NEW b, req' = [req EXCEPT ![r].pc = "deciding", ![r].act = b]
          PROVE  CopiesFresh'
      <3> DEFINE x == [req[r] EXCEPT !.pc = "deciding", !.act = b]
      <3>1. Becomes(r, x)
        BY <2>4 DEF Becomes, Inv, RequestsOK
      <3>2. x.pc = "deciding" /\ x.body = body /\ x.copy = s /\ x.outer = req[r].outer
        BY <1>1
      <3> HIDE DEF x
      <3>3. RequestFresh(r, x, behind')
        BY <1>1, <2>1, <2>2, <3>2 DEF RequestFresh, Copying, Idle
      <3> QED
        BY <2>1, <3>1, <3>3, OneCopy
    <2> QED
      BY <1>2, <2>3, <2>4 DEF ModelAnswers
  <1>3. CASE ExecuteOrQueue(r)
    <2> DEFINE p == PruneExpired(s)
               c == Remember([p EXCEPT !.pending = a], a.tool)
    <2>1. UNCHANGED <<store, expired, behind>>
      BY <1>3 DEF ExecuteOrQueue, OnlyRequest
    <2>2. s.pending = NoAction /\ (<<r, "copy">> \notin behind => Carries(body, s))
      BY <1>1, <1>3 DEF ExecuteOrQueue, RequestFresh, Copying
    <2>3. SessionOK(p)
      BY <1>1, PruneOK
    <2>4. <<r, "copy">> \notin behind =>
            Carries(body, Remember(s, a.tool)) /\ Carries(body, p)
      BY <1>1, <2>2, CarriesOn
    <2>5. CASE At(r, "saving", Remember(s, a.tool)) \/ At(r, "executing", p)
      BY <2>1, <2>4, <2>5, AtFresh
    <2>6. CASE /\ ~RunsAtOnce(s, a.tool)
               /\ req' = [req EXCEPT ![r].pc = "saving", ![r].act = NoAction, ![r].copy = c]
      <3>1. a \in Pendable
        BY <1>1, <1>3, <2>6 DEF ExecuteOrQueue, RequestOK, RunsAtOnce, Pendable
      <3>2. <<r, "copy">> \notin behind => MayEndAction(body) \/ store.pending = NoAction
        BY <2>2 DEF Carries
      <3>3. SessionOK([p EXCEPT !.pending = a])
        BY <2>3, <3>1, SessionUpdates
      <3>4. <<r, "copy">> \notin behind => Carries(body, [p EXCEPT !.pending = a])
        BY <1>1, <2>3, <2>4, <3>2, CarriesOn
      <3>5. <<r, "copy">> \notin behind => Carries(body, c)
        BY <1>1, <3>3, <3>4, CarriesOn
      <3> HIDE DEF c
      <3> DEFINE x == [req[r] EXCEPT !.pc = "saving", !.act = NoAction, !.copy = c]
      <3>6. Becomes(r, x)
        BY <2>6 DEF Becomes, Inv, RequestsOK
      <3>7. x.pc = "saving" /\ x.body = body /\ x.copy = c /\ x.outer = req[r].outer
        BY <1>1
      <3> HIDE DEF x
      <3>8. RequestFresh(r, x, behind')
        BY <1>1, <2>1, <3>5, <3>7 DEF RequestFresh, Copying, Idle
      <3> QED
        BY <2>1, <3>6, <3>8, OneCopy
    <2> QED
      BY <1>3, <2>5, <2>6 DEF ExecuteOrQueue
  <1>4. CASE ExecuteTool(r) \/ WritesEntry(r)
    <2> DEFINE done == Remember(s, a.tool)
               kept == [done EXCEPT !.events = @ \cup {<<r, a>>}]
    <2>1. UNCHANGED <<store, expired, behind>>
      BY <1>4 DEF ExecuteTool, WritesEntry, OnlyRequest
    <2>2. <<r, "copy">> \notin behind => Carries(body, s) /\ Carries(body, done)
      BY <1>1, <1>4, CarriesOn DEF ExecuteTool, WritesEntry, RequestFresh, Copying
    <2>3. SessionOK(done)
      BY <1>1, RememberOK
    <2>4. <<r, "copy">> \notin behind => Carries(body, kept)
      BY <1>1, <2>2, <2>3, CarriesOn
    <2>5. \/ At(r, "writing", s) \/ At(r, "saving", done) \/ At(r, "reporting", done)
          \/ At(r, "saving", s) \/ At(r, "saving", kept)
      BY <1>4 DEF ExecuteTool, WritesEntry
    <2> HIDE DEF done, kept
    <2> QED
      BY <2>1, <2>2, <2>4, <2>5, AtFresh
  <1>5. CASE ResolveTyped(r)
    <2> DEFINE approved == "approve" \in body.is
               x == Resolved(req[r], approved)
    <2>1. /\ Becomes(r, x) /\ UNCHANGED <<store, expired>>
          /\ behind' = behind \ {<<r, "copy">>}
      BY <1>5 DEF ResolveTyped, OnlyRequest, Becomes
    <2>2. MayEndAction(body)
      BY <1>1, <1>5 DEF ResolveTyped, RequestFresh
    <2>3. RequestFresh(r, x, behind')
      BY <1>1, <2>1, <2>2, ResolvedFresh DEF RequestFresh
    <2> HIDE DEF x
    <2> QED
      BY <2>1, <2>3, OneCopy
  <1> QED
    BY <1>2, <1>3, <1>4, <1>5

\* A save overtakes every other request at work.
LEMMA Overtakes ==
  ASSUME Inv, CopiesFresh, NEW r \in Requests,
         \A q \in Requests \ {r} : req'[q] = req[q],
         \A q \in Requests \ {r} : AtWork(q) =>
           <<q, "copy">> \in behind' /\ <<q, "outer">> \in behind',
         RequestFresh(r, req[r], behind)'
  PROVE  CopiesFresh'
  <1>1. ASSUME NEW q \in Requests \ {r} PROVE RequestFresh(q, req[q], behind)'
    <2>1. req'[q] = req[q] /\ RequestFresh(q, req[q], behind)
      BY DEF CopiesFresh
    <2>2. CASE AtWork(q)
      BY <2>1, <2>2 DEF RequestFresh, AtWork, Idle
    <2>3. CASE ~AtWork(q)
      BY <2>1, <2>3 DEF RequestFresh, AtWork, Idle, Copying
    <2> QED
      BY <2>2, <2>3
  <1> QED
    BY <1>1 DEF CopiesFresh

LEMMA OthersSuperseded ==
  ASSUME NEW r \in Requests, NEW q \in Requests \ {r}, AtWork(q)
  PROVE  <<q, "copy">> \in Supersedes(r) /\ <<q, "outer">> \in Supersedes(r)
  BY DEF Supersedes

LEMMA SavesFresh ==
  ASSUME Inv, CopiesFresh, NEW r \in Requests, NEW s, NEW pc \in {"answered", "over"},
         Saves(r, s, pc)
  PROVE  CopiesFresh'
  <1> DEFINE x == [req[r] EXCEPT !.pc = pc, !.copy = Fresh, !.outer = Fresh]
  <1>1. Becomes(r, x)
    BY EndsBecomes DEF Saves, Inv
  <1>2. x.pc = pc /\ x.outer = Fresh
    BY DEF Inv, RequestsOK, RequestOK
  <1> HIDE DEF x
  <1>3. /\ \A q \in Requests \ {r} : req'[q] = req[q]
        /\ req'[r] = x
    BY <1>1 DEF Inv, Becomes, RequestsOK
  <1>4. RequestFresh(r, req[r], behind)'
    BY <1>2, <1>3 DEF RequestFresh, Idle, Copying
  <1>5. \A q \in Requests \ {r} : AtWork(q) =>
          <<q, "copy">> \in behind' /\ <<q, "outer">> \in behind'
    BY OthersSuperseded DEF Saves
  <1> QED
    BY <1>3, <1>4, <1>5, Overtakes

LEMMA RefusedFresh ==
  ASSUME Inv, CopiesFresh, NEW r \in Requests, ReplyFails(r) \/ ReportFails(r)
  PROVE  CopiesFresh'
  <1>1. /\ RequestFresh(r, req[r], behind) /\ req[r].pc \in {"saving", "reporting"}
        /\ expired' = expired
        /\ req[r] \in [pc : Pcs, body : {req[r].body}, copy : {req[r].copy},
                       outer : {req[r].outer}, act : Actions \cup {NoAction},
                       replaced : Actions \cup {NoAction}]
    BY DEF ReplyFails, ReportFails, CopiesFresh, Inv, RequestsOK, RequestOK
  <1>2. \/ At(r, "reporting", req[r].copy)
        \/ At(r, "reportingOuter", req[r].copy) /\ req[r].outer # Fresh
        \/ Ends(r, "over")
    BY DEF ReplyFails, ReportFails
  <1>3. PICK x :
          /\ Becomes(r, x) /\ x.body = req[r].body
          /\ \/ /\ x.copy = req[r].copy /\ x.outer = req[r].outer
                /\ x.pc = "reporting" \/ (x.pc = "reportingOuter" /\ x.outer # Fresh)
             \/ x.pc = "over" /\ x.outer = Fresh
    <2>1. CASE At(r, "reporting", req[r].copy)
      <3> DEFINE x == [req[r] EXCEPT !.pc = "reporting", !.copy = req[r].copy]
      <3>1. Becomes(r, x)
        BY <2>1, AtBecomes DEF Inv
      <3>2. /\ x.pc = "reporting" /\ x.body = req[r].body
            /\ x.copy = req[r].copy /\ x.outer = req[r].outer
        BY <1>1
      <3> HIDE DEF x
      <3> QED
        BY <2>1, <3>1, <3>2
    <2>2. CASE At(r, "reportingOuter", req[r].copy) /\ req[r].outer # Fresh
      <3> DEFINE x == [req[r] EXCEPT !.pc = "reportingOuter", !.copy = req[r].copy]
      <3>1. Becomes(r, x)
        BY <2>2, AtBecomes DEF Inv
      <3>2. /\ x.pc = "reportingOuter" /\ x.body = req[r].body
            /\ x.copy = req[r].copy /\ x.outer = req[r].outer
        BY <1>1
      <3> HIDE DEF x
      <3> QED
        BY <2>2, <3>1, <3>2
    <2>3. CASE Ends(r, "over")
      <3> DEFINE x == [req[r] EXCEPT !.pc = "over", !.copy = Fresh, !.outer = Fresh]
      <3>1. Becomes(r, x)
        BY <2>3, EndsBecomes DEF Inv
      <3>2. /\ x.pc = "over" /\ x.body = req[r].body
            /\ x.outer = Fresh
        BY <1>1
      <3> HIDE DEF x
      <3> QED
        BY <2>3, <3>1, <3>2
    <2> QED
      BY <1>2, <2>1, <2>2, <2>3
  <1>4. CASE UNCHANGED <<store, behind>>
    <2>1. RequestFresh(r, x, behind')
      BY <1>1, <1>3, <1>4 DEF RequestFresh, Idle, Copying
    <2> QED
      BY <1>1, <1>3, <1>4, <2>1, OneCopy
  <1>5. CASE /\ store' = req[r].copy
             /\ behind' = (behind \ {<<r, "copy">>}) \cup Supersedes(r) \cup {<<r, "outer">>}
    <2>1. (\A q \in Requests \ {r} : req'[q] = req[q]) /\ req'[r] = x
      BY <1>3 DEF Becomes, Inv, RequestsOK
    <2>2. RequestFresh(r, req[r], behind)'
      BY <1>3, <1>5, <2>1 DEF RequestFresh, Idle, Copying, Carries
    <2>3. \A q \in Requests \ {r} : AtWork(q) =>
            <<q, "copy">> \in behind' /\ <<q, "outer">> \in behind'
      BY <1>5, OthersSuperseded
    <2> QED
      BY <2>1, <2>2, <2>3, Overtakes
  <1> QED
    BY <1>4, <1>5 DEF ReplyFails, ReportFails, Kept

LEMMA StepKeepsCopiesFresh ==
  ASSUME SessionAssumption, Inv, CopiesFresh, [Next]_vars
  PROVE  CopiesFresh'
  <1>1. ASSUME NEW r \in Requests, NEW body \in Bodies[r], Handles(r, body)
        PROVE  CopiesFresh'
    BY <1>1, HandlesFresh
  <1>2. ASSUME NEW r \in Requests, GoesOn(r) PROVE CopiesFresh'
    <2>1. CASE Replies(r) \/ Reports(r) \/ ReportsOuter(r)
      BY <2>1, SavesFresh DEF Replies, Reports, ReportsOuter
    <2> QED
      BY <1>2, <2>1, WorksFresh, RefusedFresh DEF GoesOn
  <1>3. CASE \E o \in Askers : Expires(o)
    <2>1. UNCHANGED <<store, req, behind>> /\ expired \subseteq expired'
      BY <1>3 DEF Expires
    <2> QED
      BY <2>1 DEF CopiesFresh, RequestFresh, Carries
  <1>4. CASE Restarts
    <2> SUFFICES ASSUME NEW r \in Requests PROVE RequestFresh(r, req[r], behind)'
      BY DEF CopiesFresh
    <2>1. req'[r].pc \in Idle /\ req'[r].outer = Fresh
      <3>1. req'[r] = IF AtWork(r)
                      THEN [req[r] EXCEPT !.pc = "over", !.copy = Fresh, !.outer = Fresh]
                      ELSE req[r]
        BY <1>4 DEF Restarts
      <3>2. RequestOK(r, req[r]) /\ (req[r].pc \in Idle => req[r].outer = Fresh)
        BY DEF CopiesFresh, RequestFresh, Inv, RequestsOK
      <3>3. CASE AtWork(r)
        BY <3>1, <3>2, <3>3 DEF RequestOK, Idle
      <3>4. CASE ~AtWork(r)
        BY <3>1, <3>2, <3>4 DEF AtWork
      <3> QED
        BY <3>3, <3>4
    <2> QED
      BY <2>1 DEF RequestFresh, Idle, Copying
  <1>5. CASE UNCHANGED vars
    BY <1>5 DEF vars, CopiesFresh, RequestFresh, Carries
  <1> QED
    BY <1>1, <1>2, <1>3, <1>4, <1>5 DEF Next

\* A save loses what the session has only when another save overtook the request: a
\* copy that was not overtaken carries every message, event, run and override that is
\* neither expired nor cancelled, and the mode and the pending action unless the
\* request was about them (reply, replyError, saveSession).
THEOREM FreshSavesAlwaysLoseNothing == Spec => FreshSavesLoseNothing
  <1>1. Init => CopiesFresh
    BY DEF Init, CopiesFresh, RequestFresh, Unasked, Copying
  <1>2. Inv /\ CopiesFresh /\ [Next]_vars => CopiesFresh'
    BY SessionAssumption, StepKeepsCopiesFresh
  <1>3. Inv /\ CopiesFresh /\ [Next]_vars =>
          [\A r \in Requests :
             /\ <<r, "copy">> \notin behind /\ SavesCopy(r) => Carries(req[r].body, store')
             /\ <<r, "outer">> \notin behind /\ ReportsOuter(r) =>
                  Carries(req[r].body, store')]_vars
    <2> SUFFICES ASSUME CopiesFresh, NEW r \in Requests
                 PROVE  /\ <<r, "copy">> \notin behind /\ SavesCopy(r) =>
                             Carries(req[r].body, store')
                        /\ <<r, "outer">> \notin behind /\ ReportsOuter(r) =>
                             Carries(req[r].body, store')
      OBVIOUS
    <2>1. RequestFresh(r, req[r], behind)
      BY DEF CopiesFresh
    <2>2. ASSUME <<r, "copy">> \notin behind, SavesCopy(r) PROVE Carries(req[r].body, store')
      BY <2>1, <2>2 DEF SavesCopy, Replies, Reports, Saves, RequestFresh, Copying
    <2>3. ASSUME <<r, "outer">> \notin behind, ReportsOuter(r)
          PROVE  Carries(req[r].body, store')
      BY <2>1, <2>3 DEF ReportsOuter, Saves, RequestFresh
    <2> QED
      BY <2>2, <2>3
  <1> QED
    BY <1>1, <1>2, <1>3, SpecKeepsInv, PTL DEF Spec, FreshSavesLoseNothing
-----------------------------------------------------------------------------
(* What has been decided stays decided: an action that was run, refused or  *)
(* replaced, and an override that was cancelled, in a request that was      *)
(* answered while no other was at work, is in no session, in no copy and in *)
(* no request again.                                                        *)

\* Who may have made what there is, and whose work is over.
Begun == {Earlier} \cup {x \in Requests : req[x].pc # "new"}
Done == {Earlier} \cup {x \in Requests : req[x].pc \in {"answered", "over"}}

\* The session s holds only what the requests M have made, no action of F, and no
\* override of W.
Standing(s, M, F, W) ==
  /\ s.pending # NoAction => s.pending.by \in M /\ s.pending \notin F
  /\ \A o \in s.overrides : o.by \in M /\ o.by \notin W

RequestStands(q, M, F, W) ==
  /\ q.pc \in {"new", "rereading"} => q.act = NoAction
  /\ q.pc \in Idle => q.copy = Fresh
  /\ q.act # NoAction => q.act.by \in M
  /\ q.pc \in {"new", "rereading", "asking"} => q.replaced = NoAction
  /\ q.replaced # NoAction => q.replaced.by \in M
  /\ q.pc = "deciding" => q.act # q.replaced
  /\ q.pc \notin {"new", "over"} /\ q.body.kind = "cancelOverride" => q.body.id \in M
  /\ Standing(q.copy, M, F, W) /\ Standing(q.outer, M, F, W)
  /\ q.pc \notin Idle =>
       /\ q.act \notin F
       /\ q.act # NoAction => q.copy.pending = NoAction
       /\ q.replaced # NoAction => q.copy.pending # q.replaced
       /\ q.body.kind = "cancelOverride" => \A o \in q.copy.overrides : o.by # q.body.id

\* What settled requests have decided was wanted by requests that are over.
Decided ==
  /\ Standing(store, Begun, Finished, Withdrawn) /\ Standing(disk, Begun, Finished, Withdrawn)
  /\ \A r \in Requests : RequestStands(req[r], Begun, Finished, Withdrawn)
  /\ settled \subseteq Requests
  /\ \A r \in settled :
       req[r].pc = "answered" /\ \A a \in {req[r].act, req[r].replaced} \ {NoAction} : a.by \in Done

LEMMA DecisionsStand ==
  ASSUME Decided
  PROVE  DecisionsHold
  <1>1. NoAction \notin Finished
    BY DEF Finished
  <1> QED
    BY <1>1 DEF Decided, RequestStands, Standing, DecisionsHold, Held, AtWork

LEMMA StandingMore ==
  ASSUME NEW M, NEW MM, M \subseteq MM, NEW F, NEW W
  PROVE  /\ \A s : Standing(s, M, F, W) => Standing(s, MM, F, W)
         /\ \A q : RequestStands(q, M, F, W) => RequestStands(q, MM, F, W)
  <1>1. \A s : Standing(s, M, F, W) => Standing(s, MM, F, W)
    BY DEF Standing
  <1> QED
    BY <1>1 DEF RequestStands

LEMMA FreshStands ==
  ASSUME NEW M, NEW F, NEW W
  PROVE  Standing(Fresh, M, F, W)
  BY DEF Standing, Fresh

\* What the helpers make of a session that stands.
LEMMA StandsOn ==
  ASSUME NEW s, SessionOK(s), NEW M, NEW F, NEW W, Standing(s, M, F, W)
  PROVE  /\ Standing(PruneExpired(s), M, F, W)
         /\ \A tool : Standing(Remember(s, tool), M, F, W)
         /\ \A x : Standing([s EXCEPT !.said = x], M, F, W)
         /\ \A x : Standing([s EXCEPT !.events = x], M, F, W)
         /\ \A x : Standing([s EXCEPT !.runs = x], M, F, W)
         /\ \A x : Standing([s EXCEPT !.mode = x], M, F, W)
         /\ \A x : (\A o \in x : o \in s.overrides \/ (o.by \in M /\ o.by \notin W)) =>
                   Standing([s EXCEPT !.overrides = x], M, F, W)
         /\ Standing([s EXCEPT !.pending = NoAction], M, F, W)
         /\ \A x : x.by \in M /\ x \notin F => Standing([s EXCEPT !.pending = x], M, F, W)
  <1>1. s \in [mode : {s.mode}, overrides : SUBSET Overrides, pending : Pendable \cup {NoAction},
              intent : NeedsConfirmation \cup {"none"}, said : SUBSET Requests,
              events : SUBSET (Requests \X Actions), runs : SUBSET Requests]
    BY DEF SessionOK
  <1>2. Standing(PruneExpired(s), M, F, W)
    BY <1>1 DEF Standing, PruneExpired
  <1>3. ASSUME NEW tool PROVE Standing(Remember(s, tool), M, F, W)
    BY <1>1 DEF Standing, Remember
  <1>4. /\ \A x : Standing([s EXCEPT !.said = x], M, F, W)
        /\ \A x : Standing([s EXCEPT !.events = x], M, F, W)
        /\ \A x : Standing([s EXCEPT !.runs = x], M, F, W)
        /\ \A x : Standing([s EXCEPT !.mode = x], M, F, W)
    BY <1>1 DEF Standing
  <1>5. ASSUME NEW x, \A o \in x : o \in s.overrides \/ (o.by \in M /\ o.by \notin W)
        PROVE  Standing([s EXCEPT !.overrides = x], M, F, W)
    BY <1>1, <1>5 DEF Standing
  <1>6. Standing([s EXCEPT !.pending = NoAction], M, F, W)
    BY <1>1 DEF Standing
  <1>7. ASSUME NEW x, x.by \in M, x \notin F PROVE Standing([s EXCEPT !.pending = x], M, F, W)
    BY <1>1, <1>7 DEF Standing
  <1> QED
    BY <1>2, <1>3, <1>4, <1>5, <1>6, <1>7

-----------------------------------------------------------------------------
(* Steps that settle nothing. *)

\* What is finished does not depend on a request that is not settled.
LEMMA OneDecides ==
  ASSUME Inv, Decided, settled' = settled, NEW r \in Requests, NEW x, Becomes(r, x),
         req[r].pc \notin {"answered", "over"}, x.pc # "new",
         Standing(store', Begun \cup {r}, Finished, Withdrawn),
         Standing(disk', Begun \cup {r}, Finished, Withdrawn),
         RequestStands(x, Begun \cup {r}, Finished, Withdrawn)
  PROVE  Decided'
  <1>1. \A q \in Requests : req'[q] = IF q = r THEN x ELSE req[q]
    BY DEF Becomes, Inv, RequestsOK
  <1>2. r \notin settled /\ settled \subseteq Requests
    BY DEF Decided
  <1>3. Finished' = Finished /\ Withdrawn' = Withdrawn
    BY <1>1, <1>2 DEF Finished, Withdrawn
  <1>4. Begun' = Begun \cup {r}
    BY <1>1 DEF Begun
  <1>5. Done \subseteq Done'
    BY <1>1 DEF Done
  <1>6. \A q \in Requests : RequestStands(req'[q], Begun', Finished', Withdrawn')
    <2>1. \A q \in Requests : RequestStands(req[q], Begun \cup {r}, Finished, Withdrawn)
      BY StandingMore DEF Decided
    <2> QED
      BY <1>1, <1>3, <1>4, <2>1
  <1>7. \A q \in settled' :
          /\ req'[q].pc = "answered"
          /\ \A a \in {req'[q].act, req'[q].replaced} \ {NoAction} : a.by \in Done'
    BY <1>1, <1>2, <1>5 DEF Decided
  <1>8. Standing(store', Begun', Finished', Withdrawn')
        /\ Standing(disk', Begun', Finished', Withdrawn')
    BY <1>3, <1>4
  <1>9. settled' \subseteq Requests
    BY <1>2
  <1> QED
    BY <1>6, <1>7, <1>8, <1>9 DEF Decided

\* A request that is at work, or only begins, has decided nothing yet.
LEMMA Undecided ==
  ASSUME SessionAssumption, Decided, NEW r \in Requests, req[r].pc \notin {"answered", "over"}
  PROVE  /\ NoAction \notin Finished
         /\ \A a : a.by = r => a \notin Finished
         /\ req[r].pc = "new" => r \notin Withdrawn
  <1>1. r \notin Done
    BY DEF Done, SessionAssumption
  <1>2. \A a \in Finished : a # NoAction /\ a.by \in Done
    BY DEF Finished, Decided
  <1>3. ASSUME req[r].pc = "new" PROVE r \notin Withdrawn
    <2>1. r \notin Begun
      BY <1>3 DEF Begun, SessionAssumption
    <2>2. Withdrawn \subseteq Begun
      BY DEF Withdrawn, Decided, RequestStands
    <2> QED
      BY <2>1, <2>2
  <1> QED
    BY <1>1, <1>2, <1>3

\* A request goes on to x and nothing is saved.
LEMMA OneGoesOn ==
  ASSUME Inv, Decided, UNCHANGED <<store, disk, settled>>, NEW r \in Requests, NEW x,
         Becomes(r, x), req[r].pc \notin {"answered", "over"}, x.pc # "new",
         RequestStands(x, Begun \cup {r}, Finished, Withdrawn)
  PROVE  Decided'
  <1>1. /\ Standing(store, Begun \cup {r}, Finished, Withdrawn)
        /\ Standing(disk, Begun \cup {r}, Finished, Withdrawn)
    BY StandingMore DEF Decided
  <1>2. /\ Standing(store', Begun \cup {r}, Finished, Withdrawn)
        /\ Standing(disk', Begun \cup {r}, Finished, Withdrawn)
    BY <1>1
  <1> QED
    BY <1>2, OneDecides

-----------------------------------------------------------------------------
(* A request begins. *)

LEMMA ReadsStands ==
  ASSUME SessionAssumption, Inv, CopiesFresh, Decided, NEW r \in Requests, req[r].pc = "new",
         NEW body, NEW s, Standing(s, Begun \cup {r}, Finished, Withdrawn),
         NEW pc \in {"saving", "over", "asking"}, pc = "over" => s = Fresh,
         pc # "over" /\ body.kind = "cancelOverride" =>
           body.id \in Begun /\ \A o \in s.overrides : o.by # body.id,
         Reads(r, body, pc, s)
  PROVE  Decided'
  <1> DEFINE x == [req[r] EXCEPT !.pc = pc, !.body = body, !.copy = s]
  <1>1. Becomes(r, x) /\ UNCHANGED <<store, disk, settled>>
    BY DEF Reads, OnlyRequest, Becomes
  <1>2. /\ x.pc = pc /\ x.body = body /\ x.copy = s /\ x.outer = Fresh /\ x.act = NoAction
        /\ x.replaced = NoAction
    <2>1. RequestOK(r, req[r])
      BY DEF Inv, RequestsOK
    <2>2. req[r].outer = Fresh /\ req[r].act = NoAction /\ req[r].replaced = NoAction
      BY DEF CopiesFresh, RequestFresh, Idle, Decided, RequestStands
    <2> QED
      BY <2>1, <2>2 DEF RequestOK
  <1> HIDE DEF x
  <1>3. RequestStands(x, Begun \cup {r}, Finished, Withdrawn)
    BY <1>2, Undecided, FreshStands DEF RequestStands, Idle
  <1> QED
    BY <1>1, <1>2, <1>3, OneGoesOn

LEMMA ReadsForStands ==
  ASSUME SessionAssumption, Inv, CopiesFresh, Decided, NEW r \in Requests, req[r].pc = "new",
         NEW body, body.kind = "chat", NEW s, NEW a, a.by = r, s.pending = NoAction,
         Standing(s, Begun \cup {r}, Finished, Withdrawn),
         NEW b, b # NoAction => b.by \in Begun, a # NoAction,
         ReadsFor(r, body, "deciding", s, a, b)
  PROVE  Decided'
  <1> DEFINE x == [req[r] EXCEPT !.pc = "deciding", !.body = body, !.copy = s, !.act = a,
                                 !.replaced = b]
  <1>1. Becomes(r, x) /\ UNCHANGED <<store, disk, settled>>
    BY DEF ReadsFor, OnlyRequest, Becomes
  <1>2. /\ x.pc = "deciding" /\ x.body = body /\ x.copy = s /\ x.outer = Fresh /\ x.act = a
        /\ x.replaced = b
    <2>1. RequestOK(r, req[r])
      BY DEF Inv, RequestsOK
    <2>2. req[r].outer = Fresh
      BY DEF CopiesFresh, RequestFresh, Idle
    <2> QED
      BY <2>1, <2>2 DEF RequestOK
  <1> HIDE DEF x
  <1>3. a # b
    BY SessionAssumption DEF Begun, SessionAssumption
  <1>4. RequestStands(x, Begun \cup {r}, Finished, Withdrawn)
    BY <1>2, <1>3, Undecided, FreshStands DEF RequestStands, Idle
  <1> QED
    BY <1>1, <1>2, <1>4, OneGoesOn

\* resolvePendingAction takes the pending action, which is not finished.
LEMMA ResolvedStands ==
  ASSUME Inv, Decided, NEW r \in Requests, NEW q, RequestOK(r, q), NEW approved,
         NoAction \notin Finished, q.act = NoAction, q.replaced = NoAction,
         q.body.kind # "cancelOverride",
         Standing(q.outer, Begun \cup {r}, Finished, Withdrawn)
  PROVE  /\ RequestStands(Resolved(q, approved), Begun \cup {r}, Finished, Withdrawn)
         /\ Resolved(q, approved).pc \in {"saving", "executing"}
  <1>1. q \in [pc : Pcs, body : {q.body}, copy : {q.copy}, outer : {q.outer},
               act : Actions \cup {NoAction}, replaced : Actions \cup {NoAction}]
    BY DEF RequestOK
  <1>2. SessionOK(store) /\ Standing(store, Begun \cup {r}, Finished, Withdrawn)
    BY StandingMore DEF Decided, Inv
  <1>3. CASE store.pending = NoAction
    <2>1. Resolved(q, approved) = [q EXCEPT !.pc = "saving", !.copy = store]
      BY <1>3 DEF Resolved
    <2> QED
      BY <1>1, <1>2, <2>1 DEF RequestStands, Idle
  <1>4. CASE store.pending # NoAction
    <2> DEFINE a == store.pending
               w == Remember(store, a.tool)
               s == [w EXCEPT !.pending = NoAction]
               pc == IF approved THEN "executing" ELSE "saving"
    <2>1. SessionOK(w) /\ Standing(w, Begun \cup {r}, Finished, Withdrawn)
      BY <1>2, RememberOK, StandsOn
    <2>2. Standing(s, Begun \cup {r}, Finished, Withdrawn) /\ s.pending = NoAction
      BY <2>1, StandsOn DEF SessionOK
    <2>3. Resolved(q, approved) = [q EXCEPT !.pc = pc, !.copy = s, !.act = a]
      BY <1>4 DEF Resolved
    <2>4. pc \in {"executing", "saving"}
      OBVIOUS
    <2>5. a # NoAction /\ a.by \in Begun \cup {r} /\ a \notin Finished
      BY <1>2, <1>4 DEF Standing
    <2> HIDE DEF pc, s, a
    <2> QED
      BY <1>1, <2>2, <2>3, <2>4, <2>5 DEF RequestStands, Idle
  <1> QED
    BY <1>3, <1>4

LEMMA HandleChatStands ==
  ASSUME SessionAssumption, Inv, CopiesFresh, Decided, NEW r \in Requests, req[r].pc = "new",
         NEW body \in Bodies[r], body.kind = "chat", HandleChat(r, body)
  PROVE  Decided'
  <1> DEFINE s == [store EXCEPT !.mode = With(@, body.mode)]
             heard == [s EXCEPT !.said = @ \cup {r}]
             M == Begun \cup {r}
  <1>1. SessionOK(s) /\ s.pending = store.pending /\ Standing(s, M, Finished, Withdrawn)
    <2>1. SessionOK(store) /\ Standing(store, M, Finished, Withdrawn)
      BY StandingMore DEF Inv, Decided
    <2>2. SessionOK(s) /\ s.pending = store.pending
      BY <2>1, SessionUpdates, WithOK DEF SessionOK
    <2> QED
      BY <2>1, <2>2, StandsOn
  <1> HIDE DEF s
  <1>2. /\ SessionOK(heard) /\ heard.pending = store.pending
        /\ Standing(heard, M, Finished, Withdrawn)
    <2>1. SessionOK(heard)
      BY <1>1, SessionFields, SessionUpdates
    <2> QED
      BY <1>1, <2>1, StandsOn DEF SessionOK
  <1> HIDE DEF heard, M
  <1>3. PICK h :
          /\ FirstToTake(h, s, body.is)
          /\ \/ /\ h = "empty"
                /\ Reads(r, body, "saving", s)
             \/ /\ h \in {"stillPending", "nothing", "talk"}
                /\ Reads(r, body, "saving", heard)
             \/ /\ h = "override"
                /\ Reads(r, body, "saving",
                     [heard EXCEPT !.overrides = @ \cup {MadeBy(r, body.override)}])
             \/ /\ h = "mode"
                /\ Reads(r, body, "saving", [heard EXCEPT !.mode = With(@, body.instruction)])
             \/ /\ h = "resolve"
                /\ req' = [req EXCEPT ![r] =
                     [@ EXCEPT !.pc = "rereading", !.body = body, !.outer = heard]]
                /\ UNCHANGED behind /\ OnlyRequest
             \/ /\ h = "replace"
                /\ ReadsFor(r, body, "deciding", WithoutReplaced(heard), Wanted(r, h, body),
                     heard.pending)
             \/ /\ h \in {"time", "event", "list", "create"}
                /\ ReadsFor(r, body, "deciding", heard, Wanted(r, h, body), NoAction)
             \/ /\ h = "ask"
                /\ Reads(r, body, "asking", heard)
    BY Zenon DEF HandleChat, s, heard
  <1>4. \A w : Standing(w, M, Finished, Withdrawn) /\ Reads(r, body, "saving", w) => Decided'
    BY ReadsStands DEF M
  <1>5. CASE Reads(r, body, "saving", s) \/ Reads(r, body, "saving", heard)
    BY <1>1, <1>2, <1>4, <1>5
  <1>6. CASE Reads(r, body, "saving",
               [heard EXCEPT !.overrides = @ \cup {MadeBy(r, body.override)}])
    <2> DEFINE more == heard.overrides \cup {MadeBy(r, body.override)}
    <2>1. r \in M /\ r \notin Withdrawn
      BY Undecided DEF M
    <2>2. \A o \in more : o \in heard.overrides \/ (o.by \in M /\ o.by \notin Withdrawn)
      BY <2>1 DEF MadeBy
    <2>3. Standing([heard EXCEPT !.overrides = more], M, Finished, Withdrawn)
      BY <1>2, <2>2, StandsOn
    <2> QED
      BY <1>4, <1>6, <2>3
  <1>7. CASE Reads(r, body, "saving", [heard EXCEPT !.mode = With(@, body.instruction)])
    <2> DEFINE c == [heard EXCEPT !.mode = With(@, body.instruction)]
    <2>1. Standing(c, M, Finished, Withdrawn)
      BY <1>2, StandsOn
    <2> HIDE DEF c
    <2>2. Reads(r, body, "saving", c)
      BY <1>7 DEF c
    <2> QED
      BY <1>4, <2>1, <2>2
  <1>8. CASE h = "resolve"
    <2> DEFINE x == [req[r] EXCEPT !.pc = "rereading", !.body = body, !.outer = heard]
    <2>1. Becomes(r, x) /\ UNCHANGED <<store, disk, settled>>
      BY <1>3, <1>8 DEF OnlyRequest, Becomes
    <2>2. req[r].copy = Fresh /\ req[r].act = NoAction /\ req[r].replaced = NoAction
      BY DEF Decided, RequestStands, Idle
    <2>3. /\ x.pc = "rereading" /\ x.body = body /\ x.outer = heard
          /\ x.copy = Fresh /\ x.act = NoAction /\ x.replaced = NoAction
      BY <2>2 DEF Inv, RequestsOK, RequestOK
    <2> HIDE DEF x
    <2>4. RequestStands(x, M, Finished, Withdrawn)
      BY <1>2, <2>3, Undecided, FreshStands DEF RequestStands, Idle
    <2> QED
      BY <2>1, <2>3, <2>4, OneGoesOn DEF M
  <1>9. CASE h = "replace"
    <2> DEFINE w == [heard EXCEPT !.pending = NoAction]
               c == WithoutReplaced(heard)
    <2>1. Standing(w, M, Finished, Withdrawn)
      BY <1>2, StandsOn
    <2>2. Standing(c, M, Finished, Withdrawn) /\ c.pending = NoAction
      BY <1>2, <2>1 DEF SessionOK, Standing, WithoutReplaced
    <2> HIDE DEF w, c
    <2>3. /\ ReadsFor(r, body, "deciding", c, Wanted(r, h, body), heard.pending)
          /\ heard.pending # NoAction => heard.pending.by \in Begun
      BY <1>2, <1>3, <1>9 DEF c, Decided, Standing
    <2>4. Wanted(r, h, body).by = r /\ Wanted(r, h, body) # NoAction
      BY <1>9, OwnActions, SessionAssumption DEF SessionAssumption
    <2> QED
      BY <2>2, <2>3, <2>4, ReadsForStands DEF M
  <1>10. CASE h \in {"time", "event", "list", "create"}
    <2>1. heard.pending = NoAction
      BY <1>1, <1>2, <1>3, <1>10, BeginsWithoutPending DEF Pending
    <2>2. Wanted(r, h, body).by = r /\ Wanted(r, h, body) # NoAction
      BY <1>10, OwnActions, SessionAssumption DEF SessionAssumption
    <2> QED
      BY <1>2, <1>3, <1>10, <2>1, <2>2, ReadsForStands DEF M
  <1>11. CASE Reads(r, body, "asking", heard)
    BY <1>2, <1>11, ReadsStands DEF M
  <1> QED
    BY <1>3, <1>5, <1>6, <1>7, <1>8, <1>9, <1>10, <1>11

LEMMA HandlesStand ==
  ASSUME SessionAssumption, Inv, CopiesFresh, Decided, NEW r \in Requests,
         NEW body \in Bodies[r], Handles(r, body)
  PROVE  Decided'
  <1> DEFINE M == Begun \cup {r}
  <1>1. /\ req[r].pc = "new" /\ SessionOK(store)
        /\ Standing(store, Begun, Finished, Withdrawn) /\ Standing(store, M, Finished, Withdrawn)
    BY StandingMore DEF Handles, Inv, Decided
  <1>2. /\ r \in M /\ r \notin Withdrawn /\ NoAction \notin Finished
    BY <1>1, Undecided
  <1> HIDE DEF M
  <1>3. ASSUME NEW w, Standing(w, M, Finished, Withdrawn), Reads(r, body, "saving", w),
               body.kind # "cancelOverride"
        PROVE  Decided'
    BY <1>1, <1>3, ReadsStands DEF M
  <1>4. CASE body.kind = "chat" /\ HandleChat(r, body)
    BY <1>1, <1>4, HandleChatStands
  <1>5. CASE body.kind = "resolve" /\ ResolvePendingAction(r, body)
    <2> DEFINE q == [req[r] EXCEPT !.body = body]
               x == Resolved(q, body.approved)
    <2>1. req[r].outer = Fresh /\ req[r].act = NoAction /\ req[r].replaced = NoAction
      BY <1>1 DEF CopiesFresh, RequestFresh, Idle, Decided, RequestStands
    <2>2. /\ RequestOK(r, q) /\ q.body = body /\ q.outer = Fresh /\ q.act = NoAction
          /\ q.replaced = NoAction
      BY <1>1, <2>1 DEF Inv, RequestsOK, RequestOK
    <2>3. Becomes(r, x) /\ UNCHANGED <<store, disk, settled>>
      BY <1>5 DEF ResolvePendingAction, OnlyRequest, Becomes
    <2> HIDE DEF q
    <2>4. RequestStands(x, M, Finished, Withdrawn) /\ x.pc # "new"
      BY <1>2, <1>5, <2>2, FreshStands, ResolvedStands DEF M
    <2> HIDE DEF x
    <2> QED
      BY <1>1, <2>3, <2>4, OneGoesOn DEF M
  <1>6. CASE body.kind = "updateMode" /\ UpdateMode(r, body)
    <2> DEFINE c == [store EXCEPT !.mode = With(@, body.mode)]
    <2>1. Standing(c, M, Finished, Withdrawn)
      BY <1>1, StandsOn
    <2> HIDE DEF c
    <2>2. Reads(r, body, "saving", c)
      BY <1>6 DEF UpdateMode, c
    <2> QED
      BY <1>3, <1>6, <2>1, <2>2
  <1>7. CASE body.kind = "createOverride" /\ CreateOverride(r, body)
    <2> DEFINE s == PruneExpired(store)
               more == s.overrides \cup {MadeBy(r, body.override)}
               c == [s EXCEPT !.overrides = more]
    <2>1. SessionOK(s) /\ Standing(s, M, Finished, Withdrawn)
      BY <1>1, PruneOK, StandsOn
    <2> HIDE DEF s
    <2>2. \A o \in more : o \in s.overrides \/ (o.by \in M /\ o.by \notin Withdrawn)
      BY <1>2 DEF MadeBy
    <2>3. Standing(c, M, Finished, Withdrawn)
      BY <2>1, <2>2, StandsOn
    <2> HIDE DEF c
    <2>4. Reads(r, body, "saving", c)
      BY <1>7 DEF CreateOverride, c, s
    <2> QED
      BY <1>3, <1>7, <2>3, <2>4
  <1>8. CASE body.kind = "cancelOverride" /\ CancelOverride(r, body)
    <2> DEFINE left == {o \in store.overrides : o.by # body.id}
               s == [store EXCEPT !.overrides = left]
    <2>1. Standing(s, M, Finished, Withdrawn) /\ s.overrides = left
      BY <1>1, StandsOn DEF SessionOK
    <2>2. s # store => body.id \in Begun
      <3>1. SUFFICES ASSUME s # store PROVE body.id \in Begun
        OBVIOUS
      <3>2. PICK o \in store.overrides : o.by = body.id
        BY <1>1, <3>1 DEF SessionOK
      <3> QED
        BY <1>1, <3>2 DEF Standing
    <2>3. IF s = store THEN Reads(r, body, "over", Fresh) ELSE Reads(r, body, "saving", s)
      BY <1>8 DEF CancelOverride
    <2> HIDE DEF s
    <2>4. CASE Reads(r, body, "over", Fresh)
      BY <1>1, <2>4, FreshStands, ReadsStands DEF M
    <2>5. CASE Reads(r, body, "saving", s) /\ s # store
      BY <1>1, <2>1, <2>2, <2>5, ReadsStands DEF M
    <2> QED
      BY <2>3, <2>4, <2>5
  <1>9. CASE body.kind = "listOverrides" /\ ListOverrides(r, body)
    BY <1>1, <1>3, <1>9, StandsOn DEF ListOverrides
  <1>10. CASE body.kind = "recordRun" /\ RecordRun(r, body)
    <2>1. Standing([store EXCEPT !.runs = @ \cup {r}], M, Finished, Withdrawn)
      BY <1>1, StandsOn
    <2> QED
      BY <1>3, <1>10, <2>1 DEF RecordRun
  <1> QED
    BY <1>4, <1>5, <1>6, <1>7, <1>8, <1>9, <1>10 DEF Handles

-----------------------------------------------------------------------------
(* A request works on. *)

\* A copy whose overrides are some of those it had stands as it did.
LEMMA AtStands ==
  ASSUME SessionAssumption, Inv, Decided, NEW r \in Requests, AtWork(r), NEW s,
         Standing(s, Begun \cup {r}, Finished, Withdrawn),
         s.overrides \subseteq req[r].copy.overrides,
         s.pending = NoAction,
         NEW pc \in {"executing", "writing", "saving", "reporting"}, At(r, pc, s),
         UNCHANGED <<store, disk, settled>>
  PROVE  Decided'
  <1> DEFINE x == [req[r] EXCEPT !.pc = pc, !.copy = s]
  <1>1. Becomes(r, x)
    BY AtBecomes DEF Inv
  <1>2. /\ x.pc = pc /\ x.body = req[r].body /\ x.copy = s /\ x.outer = req[r].outer
        /\ x.act = req[r].act /\ x.replaced = req[r].replaced
    BY DEF Inv, RequestsOK, RequestOK
  <1> HIDE DEF x
  <1>3. RequestStands(req[r], Begun \cup {r}, Finished, Withdrawn)
    BY StandingMore DEF Decided
  <1>4. RequestStands(x, Begun \cup {r}, Finished, Withdrawn)
    BY <1>2, <1>3 DEF RequestStands, AtWork, Idle
  <1> QED
    BY <1>1, <1>2, <1>4, OneGoesOn DEF AtWork, Idle

LEMMA WorksStand ==
  ASSUME SessionAssumption, Inv, CopiesFresh, Decided, NEW r \in Requests,
         \/ ModelAnswers(r) \/ ExecuteOrQueue(r) \/ ExecuteTool(r) \/ WritesEntry(r)
         \/ ResolveTyped(r)
  PROVE  Decided'
  <1> DEFINE a == req[r].act
             s == req[r].copy
             body == req[r].body
             M == Begun \cup {r}
  <1>1. /\ RequestOK(r, req[r]) /\ RequestFresh(r, req[r], behind)
        /\ RequestStands(req[r], M, Finished, Withdrawn)
        /\ SessionOK(store) /\ SessionOK(s) /\ Standing(s, M, Finished, Withdrawn)
        /\ req[r] \in [pc : Pcs, body : {req[r].body}, copy : {req[r].copy},
                       outer : {req[r].outer}, act : Actions \cup {NoAction},
                       replaced : Actions \cup {NoAction}]
    <2>1. RequestOK(r, req[r]) /\ RequestFresh(r, req[r], behind) /\ SessionOK(store)
      BY DEF Inv, RequestsOK, CopiesFresh
    <2>2. RequestStands(req[r], M, Finished, Withdrawn)
      BY StandingMore DEF Decided
    <2> QED
      BY <2>1, <2>2 DEF RequestOK, RequestStands
  <1>2. AtWork(r) /\ UNCHANGED <<store, disk, settled>>
    BY DEF ModelAnswers, ExecuteOrQueue, ExecuteTool, WritesEntry, ResolveTyped, OnlyRequest,
           AtWork, Idle
  <1>3. ASSUME NEW w, Standing(w, M, Finished, Withdrawn), w.overrides \subseteq s.overrides,
               w.pending = NoAction,
               NEW pc \in {"executing", "writing", "saving", "reporting"}, At(r, pc, w)
        PROVE  Decided'
    BY <1>2, <1>3, AtStands
  <1>4. NoAction \notin Finished /\ \A b : b.by = r => b \notin Finished
    BY <1>2, Undecided DEF AtWork, Idle
  <1>5. CASE ModelAnswers(r)
    <2>1. s.pending = NoAction
      BY <1>1, <1>5 DEF ModelAnswers, RequestFresh
    <2>2. CASE \E pc \in {"saving", "reporting"} : At(r, pc, s)
      BY <1>1, <1>3, <2>1, <2>2
    <2>3. ASSUME NEW b, b.by = r, b # NoAction,
                 req' = [req EXCEPT ![r].pc = "deciding", ![r].act = b]
          PROVE  Decided'
      <3> DEFINE x == [req[r] EXCEPT !.pc = "deciding", !.act = b]
      <3>1. Becomes(r, x)
        BY <2>3 DEF Becomes, Inv, RequestsOK
      <3>2. /\ x.pc = "deciding" /\ x.body = body /\ x.copy = s /\ x.outer = req[r].outer
            /\ x.act = b /\ x.replaced = NoAction
        BY <1>1, <1>5 DEF ModelAnswers, RequestStands
      <3> HIDE DEF x
      <3>3. RequestStands(x, M, Finished, Withdrawn)
        BY <1>1, <1>2, <1>4, <2>1, <2>3, <3>2 DEF RequestStands, AtWork, Idle
      <3> QED
        BY <1>2, <3>1, <3>2, <3>3, OneGoesOn DEF AtWork, Idle
    <2>4. \/ \E pc \in {"saving", "reporting"} : At(r, pc, s)
          \/ \E b : /\ b.by = r /\ b # NoAction
                    /\ req' = [req EXCEPT ![r].pc = "deciding", ![r].act = b]
      <3> DEFINE clock == [by |-> r, tool |-> "clock", name |-> body.name]
      <3>1. clock.by = r /\ clock # NoAction
        <4>1. body \in Bodies[r] /\ body.kind = "chat"
          BY <1>1, <1>5 DEF ModelAnswers, RequestOK
        <4>2. clock \in Actions
          BY <4>1, SessionAssumption DEF SessionAssumption, Actions, Askers, Tools
        <4> QED
          BY <4>2, SessionAssumption DEF SessionAssumption
      <3>2. \/ \E pc \in {"saving", "reporting"} : At(r, pc, s)
            \/ req' = [req EXCEPT ![r].pc = "deciding", ![r].act = clock]
        BY <1>5 DEF ModelAnswers
      <3> HIDE DEF clock
      <3> QED
        BY <3>1, <3>2
    <2> QED
      BY <2>2, <2>3, <2>4
  <1>6. CASE ExecuteOrQueue(r)
    <2> DEFINE p == PruneExpired(s)
               c == Remember([p EXCEPT !.pending = a], a.tool)
    <2>1. s.pending = NoAction /\ a \in Actions
      BY <1>1, <1>6 DEF ExecuteOrQueue, RequestFresh, RequestOK
    <2>2. /\ SessionOK(p) /\ Standing(p, M, Finished, Withdrawn)
          /\ p.overrides \subseteq s.overrides /\ p.pending = NoAction
      <3>1. SessionOK(p) /\ Standing(p, M, Finished, Withdrawn)
        BY <1>1, PruneOK, StandsOn
      <3>2. p.overrides \subseteq s.overrides /\ p.pending = NoAction
        BY <1>1, <2>1 DEF SessionOK, PruneExpired
      <3> QED
        BY <3>1, <3>2
    <2>3. /\ Standing(Remember(s, a.tool), M, Finished, Withdrawn)
          /\ Remember(s, a.tool).overrides \subseteq s.overrides
          /\ Remember(s, a.tool).pending = NoAction
      <3>1. Standing(Remember(s, a.tool), M, Finished, Withdrawn)
        BY <1>1, StandsOn
      <3> QED
        BY <1>1, <2>1, <3>1 DEF SessionOK, Remember
    <2> HIDE DEF p
    <2>4. CASE At(r, "saving", Remember(s, a.tool)) \/ At(r, "executing", p)
      BY <1>3, <2>2, <2>3, <2>4
    <2>5. CASE /\ ~RunsAtOnce(s, a.tool)
               /\ req' = [req EXCEPT ![r].pc = "saving", ![r].act = NoAction, ![r].copy = c]
      <3>1. a \in Pendable /\ a # NoAction
        BY <2>1, <2>5, SessionAssumption DEF RunsAtOnce, Pendable, SessionAssumption
      <3>2. a.by \in M /\ a \notin Finished
        BY <1>1, <1>2, <3>1 DEF RequestStands, AtWork
      <3> DEFINE w == [p EXCEPT !.pending = a]
      <3>3. /\ SessionOK(w) /\ Standing(w, M, Finished, Withdrawn)
            /\ w.overrides \subseteq s.overrides /\ w.pending = a
        <4>1. SessionOK(w) /\ Standing(w, M, Finished, Withdrawn)
          BY <2>2, <3>1, <3>2, SessionUpdates, StandsOn
        <4> QED
          BY <2>2, <4>1 DEF SessionOK
      <3> HIDE DEF w
      <3>4. /\ Standing(c, M, Finished, Withdrawn)
            /\ c.overrides \subseteq s.overrides /\ c.pending = a
        <4>1. c = Remember(w, a.tool)
          BY DEF w
        <4> HIDE DEF c
        <4>2. Standing(c, M, Finished, Withdrawn)
          BY <3>3, <4>1, StandsOn
        <4> QED
          BY <3>3, <4>1, <4>2 DEF SessionOK, Remember
      <3> HIDE DEF c
      <3> DEFINE x == [req[r] EXCEPT !.pc = "saving", !.act = NoAction, !.copy = c]
      <3>5. Becomes(r, x)
        BY <2>5 DEF Becomes, Inv, RequestsOK
      <3>6. /\ x.pc = "saving" /\ x.body = body /\ x.copy = c /\ x.outer = req[r].outer
            /\ x.act = NoAction /\ x.replaced = req[r].replaced
        BY <1>1
      <3> HIDE DEF x
      <3>7. RequestStands(x, M, Finished, Withdrawn)
        <4>1. req[r].replaced # a
          BY <1>1, <1>6 DEF ExecuteOrQueue, RequestStands
        <4> QED
          BY <1>1, <1>2, <1>4, <3>4, <3>6, <4>1 DEF RequestStands, AtWork, Idle
      <3> QED
        BY <1>2, <3>5, <3>6, <3>7, OneGoesOn DEF AtWork, Idle
    <2> QED
      BY <1>6, <2>4, <2>5 DEF ExecuteOrQueue, p
  <1>7. CASE ExecuteTool(r) \/ WritesEntry(r)
    <2> DEFINE done == Remember(s, a.tool)
               kept == [done EXCEPT !.events = @ \cup {<<r, a>>}]
    <2>1. a # NoAction /\ s.pending = NoAction
      BY <1>1, <1>2, <1>7
         DEF ExecuteTool, WritesEntry, RequestStands, RequestOK, SessionAssumption, AtWork
    <2>2. /\ SessionOK(done) /\ Standing(done, M, Finished, Withdrawn)
          /\ done.overrides = s.overrides /\ done.pending = NoAction
      <3>1. SessionOK(done) /\ Standing(done, M, Finished, Withdrawn)
        BY <1>1, RememberOK, StandsOn
      <3> QED
        BY <1>1, <2>1, <3>1 DEF SessionOK, Remember
    <2> HIDE DEF done
    <2>3. /\ Standing(kept, M, Finished, Withdrawn)
          /\ kept.overrides = s.overrides /\ kept.pending = NoAction
      <3>1. Standing(kept, M, Finished, Withdrawn)
        BY <2>2, StandsOn
      <3> QED
        BY <2>2, <3>1 DEF SessionOK
    <2>4. \/ At(r, "writing", s) \/ At(r, "saving", done) \/ At(r, "reporting", done)
          \/ At(r, "saving", s) \/ At(r, "saving", kept)
      BY <1>7 DEF ExecuteTool, WritesEntry, done
    <2> HIDE DEF kept
    <2> QED
      BY <1>1, <1>3, <2>1, <2>2, <2>3, <2>4
  <1>8. CASE ResolveTyped(r)
    <2> DEFINE approved == "approve" \in body.is
               x == Resolved(req[r], approved)
    <2>1. Becomes(r, x)
      BY <1>8 DEF ResolveTyped, Becomes
    <2>2. body.kind = "chat" /\ a = NoAction /\ req[r].replaced = NoAction
      BY <1>1, <1>8 DEF ResolveTyped, RequestOK, RequestStands
    <2>3. body.kind # "cancelOverride" /\ Standing(req[r].outer, M, Finished, Withdrawn)
      BY <1>1, <2>2 DEF RequestStands
    <2>4. RequestStands(x, M, Finished, Withdrawn) /\ x.pc \in {"saving", "executing"}
      BY <1>1, <1>4, <2>2, <2>3, ResolvedStands
    <2> HIDE DEF x
    <2>5. req[r].pc = "rereading" /\ x.pc # "new"
      BY <1>8, <2>4 DEF ResolveTyped
    <2> QED
      BY <1>2, <2>1, <2>4, <2>5, OneGoesOn
  <1> QED
    BY <1>5, <1>6, <1>7, <1>8

-----------------------------------------------------------------------------
(* A request saves, and may have settled what it decided. *)

\* A save that settles nothing.
LEMMA SavesUnsettled ==
  ASSUME Inv, Decided, NEW r \in Requests, AtWork(r), NEW s,
         Standing(s, Begun, Finished, Withdrawn), NEW pc \in {"answered", "over"},
         Saves(r, s, pc), settled' = settled
  PROVE  Decided'
  <1> DEFINE x == [req[r] EXCEPT !.pc = pc, !.copy = Fresh, !.outer = Fresh]
             M == Begun \cup {r}
  <1>1. Becomes(r, x)
    BY EndsBecomes DEF Saves, Inv
  <1>2. /\ x.pc = pc /\ x.copy = Fresh /\ x.outer = Fresh /\ x.act = req[r].act
        /\ x.body = req[r].body /\ x.replaced = req[r].replaced
    BY DEF Inv, RequestsOK, RequestOK
  <1> HIDE DEF x
  <1>3. RequestStands(req[r], M, Finished, Withdrawn) /\ Standing(s, M, Finished, Withdrawn)
    BY StandingMore DEF Decided
  <1>4. RequestStands(x, M, Finished, Withdrawn)
    BY <1>2, <1>3, FreshStands DEF RequestStands, AtWork, Idle
  <1>5. Standing(store', M, Finished, Withdrawn) /\ Standing(disk', M, Finished, Withdrawn)
    <2>1. store' = s /\ disk' = s
      BY DEF Saves
    <2> QED
      BY <1>3, <2>1
  <1> QED
    BY <1>1, <1>2, <1>4, <1>5, OneDecides DEF AtWork, Idle

\* A request that is answered while no other is at work settles what it decided: no
\* other has a copy that could bring it back, and its own is without it.
LEMMA SettlesAlone ==
  ASSUME Inv, CopiesFresh, Decided, NEW r \in Requests, Replies(r),
         \A p \in Requests \ {r} : ~AtWork(p)
  PROVE  Decided'
  <1> DEFINE x == [req[r] EXCEPT !.pc = "answered", !.copy = Fresh, !.outer = Fresh]
             s == req[r].copy
  <1>1. Becomes(r, x)
    BY EndsBecomes DEF Replies, Saves, Inv
  <1>2. /\ x.pc = "answered" /\ x.copy = Fresh /\ x.outer = Fresh /\ x.act = req[r].act
        /\ x.body = req[r].body /\ x.replaced = req[r].replaced
    BY DEF Inv, RequestsOK, RequestOK
  <1> HIDE DEF x
  <1>3. \A q \in Requests : req'[q] = IF q = r THEN x ELSE req[q]
    BY <1>1 DEF Becomes, Inv, RequestsOK
  <1>4. /\ req[r].pc = "saving" /\ RequestStands(req[r], Begun, Finished, Withdrawn)
        /\ r \notin settled /\ settled \subseteq Requests
    BY DEF Replies, Decided
  <1>5. store' = s /\ disk' = s /\ settled' = settled \cup {r}
    BY DEF Replies, Saves
  <1>6. \A f \in Finished' : f \in Finished \/ f \in {x.act, x.replaced} \ {NoAction}
    BY <1>3, <1>4, <1>5 DEF Finished
  <1>7. \A w \in Withdrawn' :
          w \in Withdrawn \/ (w = x.body.id /\ x.body.kind = "cancelOverride")
    BY <1>3, <1>4, <1>5 DEF Withdrawn
  <1>8. Begun' = Begun
    BY <1>2, <1>3, <1>4 DEF Begun
  <1>9. Begun \subseteq Done'
    <2> SUFFICES ASSUME NEW q \in Requests, req[q].pc # "new"
                 PROVE  req'[q].pc \in {"answered", "over"}
      BY DEF Begun, Done
    <2> QED
      BY <1>2, <1>3 DEF AtWork, Idle
  <1>10. Standing(s, Begun, Finished', Withdrawn')
    BY <1>2, <1>4, <1>6, <1>7 DEF RequestStands, Standing, Idle
  <1>11. ASSUME NEW q \in Requests
         PROVE  RequestStands(req'[q], Begun, Finished', Withdrawn')
    <2>1. CASE q = r
      BY <1>2, <1>3, <1>4, <2>1, FreshStands DEF RequestStands, Idle
    <2>2. CASE q # r
      <3>1. /\ req'[q] = req[q] /\ req[q].pc \in Idle
            /\ RequestStands(req[q], Begun, Finished, Withdrawn) /\ req[q].outer = Fresh
        BY <1>3, <2>2 DEF AtWork, Decided, CopiesFresh, RequestFresh
      <3> QED
        BY <3>1, FreshStands DEF RequestStands
    <2> QED
      BY <2>1, <2>2
  <1>12. ASSUME NEW q \in settled'
         PROVE  /\ req'[q].pc = "answered"
                /\ \A a \in {req'[q].act, req'[q].replaced} \ {NoAction} : a.by \in Done'
    <2>1. CASE q = r
      BY <1>2, <1>3, <1>4, <1>9, <2>1 DEF RequestStands
    <2>2. CASE q # r
      <3>1. q \in settled /\ req'[q] = req[q]
        BY <1>3, <1>4, <1>5, <2>2
      <3>2. Done \subseteq Begun
        BY DEF Done, Begun
      <3> QED
        BY <1>9, <3>1, <3>2 DEF Decided
    <2> QED
      BY <2>1, <2>2
  <1>13. /\ Standing(store', Begun', Finished', Withdrawn')
         /\ Standing(disk', Begun', Finished', Withdrawn')
    BY <1>5, <1>8, <1>10
  <1>14. \A q \in Requests : RequestStands(req'[q], Begun', Finished', Withdrawn')
    BY <1>8, <1>11
  <1>15. settled' \subseteq Requests
    BY <1>4, <1>5
  <1> QED
    BY <1>12, <1>13, <1>14, <1>15 DEF Decided

LEMMA SavesStand ==
  ASSUME Inv, CopiesFresh, Decided, NEW r \in Requests,
         Replies(r) \/ Reports(r) \/ ReportsOuter(r)
  PROVE  Decided'
  <1>1. /\ AtWork(r) /\ Standing(req[r].copy, Begun, Finished, Withdrawn)
        /\ Standing(req[r].outer, Begun, Finished, Withdrawn)
    BY DEF Replies, Reports, ReportsOuter, AtWork, Idle, Decided, RequestStands
  <1>2. CASE Replies(r)
    <2>1. CASE \A p \in Requests \ {r} : ~AtWork(p)
      BY <1>2, <2>1, SettlesAlone
    <2>2. CASE ~ \A p \in Requests \ {r} : ~AtWork(p)
      <3>1. settled' = settled
        BY <1>2, <2>2 DEF Replies, Saves
      <3> QED
        BY <1>1, <1>2, <3>1, SavesUnsettled DEF Replies
    <2> QED
      BY <2>1, <2>2
  <1>3. CASE Reports(r) \/ ReportsOuter(r)
    <2>1. settled' = settled
      BY <1>3 DEF Reports, ReportsOuter, Saves
    <2> QED
      BY <1>1, <1>3, <2>1, SavesUnsettled DEF Reports, ReportsOuter
  <1> QED
    BY <1>2, <1>3

\* A save that is refused, and has replaced the copy in memory or not.
LEMMA RefusedStands ==
  ASSUME Inv, CopiesFresh, Decided, NEW r \in Requests, ReplyFails(r) \/ ReportFails(r)
  PROVE  Decided'
  <1> DEFINE M == Begun \cup {r}
  <1>1. /\ AtWork(r) /\ RequestStands(req[r], M, Finished, Withdrawn)
        /\ Standing(store, M, Finished, Withdrawn) /\ Standing(disk, M, Finished, Withdrawn)
        /\ disk' = disk /\ settled' = settled
    BY StandingMore DEF ReplyFails, ReportFails, AtWork, Idle, Decided
  <1>2. Standing(store', M, Finished, Withdrawn) /\ Standing(disk', M, Finished, Withdrawn)
    <2>1. store' = store \/ store' = req[r].copy
      BY DEF ReplyFails, ReportFails, Kept
    <2>2. Standing(req[r].copy, M, Finished, Withdrawn)
      BY <1>1 DEF RequestStands
    <2> QED
      BY <1>1, <2>1, <2>2
  <1>3. ASSUME NEW pc \in {"reporting", "reportingOuter"}, At(r, pc, req[r].copy)
        PROVE  Decided'
    <2> DEFINE x == [req[r] EXCEPT !.pc = pc, !.copy = req[r].copy]
    <2>1. Becomes(r, x)
      BY <1>3, AtBecomes DEF Inv
    <2>2. /\ x.pc = pc /\ x.body = req[r].body /\ x.copy = req[r].copy
          /\ x.outer = req[r].outer /\ x.act = req[r].act /\ x.replaced = req[r].replaced
      BY DEF Inv, RequestsOK, RequestOK
    <2> HIDE DEF x
    <2>3. RequestStands(x, M, Finished, Withdrawn)
      BY <1>1, <2>2 DEF RequestStands, AtWork, Idle
    <2> QED
      BY <1>1, <1>2, <2>1, <2>2, <2>3, OneDecides DEF AtWork, Idle
  <1>4. CASE Ends(r, "over")
    <2> DEFINE x == [req[r] EXCEPT !.pc = "over", !.copy = Fresh, !.outer = Fresh]
    <2>1. Becomes(r, x)
      BY <1>4, EndsBecomes DEF Inv
    <2>2. /\ x.pc = "over" /\ x.copy = Fresh /\ x.outer = Fresh /\ x.act = req[r].act
          /\ x.replaced = req[r].replaced
      BY DEF Inv, RequestsOK, RequestOK
    <2> HIDE DEF x
    <2>3. RequestStands(x, M, Finished, Withdrawn)
      BY <1>1, <2>2, FreshStands DEF RequestStands, AtWork, Idle
    <2> QED
      BY <1>1, <1>2, <2>1, <2>2, <2>3, OneDecides DEF AtWork, Idle
  <1>5. \/ At(r, "reporting", req[r].copy) \/ At(r, "reportingOuter", req[r].copy)
        \/ Ends(r, "over")
    BY DEF ReplyFails, ReportFails
  <1> QED
    BY <1>3, <1>4, <1>5

\* The agent is started again with what its file has.
LEMMA RestartStands ==
  ASSUME Inv, CopiesFresh, Decided, Restarts
  PROVE  Decided'
  <1>1. ASSUME NEW q \in Requests
        PROVE  /\ AtWork(q) => /\ req'[q].pc = "over" /\ req'[q].copy = Fresh
                               /\ req'[q].outer = Fresh /\ req'[q].act = req[q].act
                               /\ req'[q].body = req[q].body
                               /\ req'[q].replaced = req[q].replaced
               /\ ~AtWork(q) => req'[q] = req[q]
    <2>1. /\ AtWork(q) => req'[q] = [req[q] EXCEPT !.pc = "over", !.copy = Fresh, !.outer = Fresh]
          /\ ~AtWork(q) => req'[q] = req[q]
      BY DEF Restarts
    <2>2. RequestOK(q, req[q])
      BY DEF Inv, RequestsOK
    <2> QED
      BY <2>1, <2>2 DEF RequestOK
  <1>2. settled' = settled /\ settled \subseteq Requests /\ store' = disk /\ disk' = disk
    BY DEF Restarts, Decided
  <1>3. \A q \in settled : req'[q] = req[q]
    BY <1>1 DEF Decided, AtWork, Idle
  <1>4. Finished' = Finished /\ Withdrawn' = Withdrawn
    BY <1>2, <1>3 DEF Finished, Withdrawn
  <1>5. Begun' = Begun /\ Done \subseteq Done'
    BY <1>1 DEF Begun, Done, AtWork, Idle
  <1>6. ASSUME NEW q \in Requests
        PROVE  RequestStands(req'[q], Begun, Finished, Withdrawn)
    <2>1. RequestStands(req[q], Begun, Finished, Withdrawn)
      BY DEF Decided
    <2>2. CASE AtWork(q)
      BY <1>1, <2>1, <2>2, FreshStands DEF RequestStands, Idle
    <2>3. CASE ~AtWork(q)
      BY <1>1, <2>1, <2>3
    <2> QED
      BY <2>2, <2>3
  <1>7. \A q \in settled :
          /\ req'[q].pc = "answered"
          /\ \A a \in {req'[q].act, req'[q].replaced} \ {NoAction} : a.by \in Done'
    BY <1>3, <1>5 DEF Decided
  <1>8. Standing(store', Begun, Finished, Withdrawn) /\ Standing(disk', Begun, Finished, Withdrawn)
    BY <1>2 DEF Decided
  <1>9. /\ Standing(store', Begun', Finished', Withdrawn')
        /\ Standing(disk', Begun', Finished', Withdrawn')
        /\ \A q \in Requests : RequestStands(req'[q], Begun', Finished', Withdrawn')
    BY <1>4, <1>5, <1>6, <1>8
  <1> QED
    BY <1>2, <1>7, <1>9 DEF Decided

LEMMA StepKeepsDecided ==
  ASSUME SessionAssumption, Inv, CopiesFresh, Decided, [Next]_vars
  PROVE  Decided'
  <1>1. ASSUME NEW r \in Requests, NEW body \in Bodies[r], Handles(r, body)
        PROVE  Decided'
    BY <1>1, HandlesStand
  <1>2. ASSUME NEW r \in Requests, GoesOn(r) PROVE Decided'
    BY <1>2, WorksStand, SavesStand, RefusedStands DEF GoesOn
  <1>3. ASSUME UNCHANGED <<store, disk, req, settled>> PROVE Decided'
    <2>1. /\ Begun' = Begun /\ Done' = Done
          /\ Finished' = Finished /\ Withdrawn' = Withdrawn
      BY <1>3 DEF Begun, Done, Finished, Withdrawn
    <2>2. /\ Standing(store', Begun', Finished', Withdrawn')
          /\ Standing(disk', Begun', Finished', Withdrawn')
          /\ \A r \in Requests : RequestStands(req'[r], Begun', Finished', Withdrawn')
      BY <1>3, <2>1 DEF Decided
    <2>3. \A q \in settled' :
            /\ req'[q].pc = "answered"
            /\ \A a \in {req'[q].act, req'[q].replaced} \ {NoAction} : a.by \in Done'
      BY <1>3, <2>1 DEF Decided
    <2>4. settled' \subseteq Requests
      BY <1>3 DEF Decided
    <2> QED
      BY <2>2, <2>3, <2>4 DEF Decided
  <1>4. CASE \E o \in Askers : Expires(o)
    BY <1>3, <1>4 DEF Expires
  <1>5. CASE Restarts
    BY <1>5, RestartStands
  <1>6. CASE UNCHANGED vars
    BY <1>3, <1>6 DEF vars
  <1> QED
    BY <1>1, <1>2, <1>4, <1>5, <1>6 DEF Next

LEMMA InitDecided ==
  ASSUME SessionAssumption, Init
  PROVE  Decided
  <1>1. settled = {} /\ disk = store /\ \A r \in Requests : req[r] = Unasked
    BY DEF Init
  <1>2. Finished = {} /\ Withdrawn = {} /\ Earlier \in Begun
    BY <1>1 DEF Finished, Withdrawn, Begun
  <1>3. Standing(store, Begun, Finished, Withdrawn)
    <2>1. /\ store.pending # NoAction => store.pending.by = Earlier
          /\ \A o \in store.overrides : o.by = Earlier
      <3>1. CASE store = Fresh
        BY <3>1 DEF Fresh
      <3>2. CASE store = [Fresh EXCEPT !.overrides = {Granted}]
        BY <3>2 DEF Fresh, Granted
      <3>3. CASE store = [Fresh EXCEPT !.pending = Left("create-entry", LeftName),
                                       !.intent = "create-entry"]
        BY <3>3 DEF Fresh, Left
      <3> QED
        BY <3>1, <3>2, <3>3 DEF Init
    <2> QED
      BY <1>2, <2>1 DEF Standing
  <1>4. RequestStands(Unasked, Begun, Finished, Withdrawn)
    BY FreshStands DEF RequestStands, Unasked, Idle
  <1>5. \A r \in Requests : RequestStands(req[r], Begun, Finished, Withdrawn)
    BY <1>1, <1>4
  <1> QED
    BY <1>1, <1>3, <1>5 DEF Decided

\* Stored session and copies are well formed, and what was decided stays decided: what
\* a request that was answered while no other was at work has run, refused, put another
\* action in place of or cancelled is in no session and in no request again
\* (resolvePendingAction, handlePendingLocalCreateReplacement, cancelOverride), whatever
\* saves overtake each other later, are refused or are lost.
THEOREM SessionAlwaysSound == Spec => []SessionSound
  <1>1. Init => CopiesFresh
    BY DEF Init, CopiesFresh, RequestFresh, Unasked, Copying
  <1>2. Inv /\ CopiesFresh /\ [Next]_vars => CopiesFresh'
    BY SessionAssumption, StepKeepsCopiesFresh
  <1>3. Init => Decided
    BY SessionAssumption, InitDecided
  <1>4. Inv /\ CopiesFresh /\ Decided /\ [Next]_vars => Decided'
    BY SessionAssumption, StepKeepsDecided
  <1>5. TypeOK /\ Decided => SessionSound
    BY DecisionsStand DEF SessionSound
  <1> QED
    BY <1>1, <1>2, <1>3, <1>4, <1>5, SpecKeepsInv, SessionAlwaysTyped, PTL DEF Spec
=============================================================================
