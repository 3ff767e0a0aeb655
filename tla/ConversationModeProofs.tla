----------------------- MODULE ConversationModeProofs -----------------------
(* Machine-checked proofs about ConversationMode, for any number of loops.  *)
EXTENDS ConversationMode, TLAPS

\* A loop is stopped by the call of its stop(), and by nothing else.
StopNoted(r) == r.stopped <=> r.stop # "no"

\* The helpers return loop records, and only StopCalled changes whether a loop is
\* stopped.
LEMMA IdleRecord == Idle \in LoopStates /\ StopNoted(Idle) /\ Idle.stopped
  BY DEF Idle, LoopStates, Over, StopNoted

LEMMA DisposedRecord ==
  ASSUME NEW r \in LoopStates
  PROVE  /\ Disposed(r) \in LoopStates
         /\ Disposed(r).stopped = r.stopped /\ Disposed(r).stop = r.stop
  BY DEF Disposed, LoopStates

LEMMA TurnOverRecord ==
  ASSUME NEW r \in LoopStates
  PROVE  /\ TurnOver(r) \in LoopStates
         /\ TurnOver(r).stopped = r.stopped /\ TurnOver(r).stop = r.stop
  BY DEF TurnOver, AfterTurn, LoopStates

LEMMA EndingRecord ==
  ASSUME NEW d \in LoopStates, NEW e \in {"no", "starting", "closing", "answering", "over"}
  PROVE  LET s == [d EXCEPT !.ending = e]
         IN /\ s \in LoopStates /\ s.stopped = d.stopped /\ s.stop = d.stop
            /\ s.at = d.at /\ s.mic = d.mic
  BY SMTT(30) DEF LoopStates

\* The course of fail().
LEMMA FailedRecord ==
  ASSUME NEW d \in LoopStates, NEW e \in {"closing", "over"}
  PROVE  LET s == [d EXCEPT !.reason = "failed", !.ending = e]
         IN /\ s \in LoopStates /\ s.stopped = d.stopped /\ s.stop = d.stop
            /\ s.at = d.at /\ s.mic = d.mic
  <1> DEFINE f == [d EXCEPT !.reason = "failed"]
  <1>1. /\ f \in LoopStates /\ f.stopped = d.stopped /\ f.stop = d.stop
        /\ f.at = d.at /\ f.mic = d.mic
    BY DEF LoopStates
  <1>2. [d EXCEPT !.reason = "failed", !.ending = e] = [f EXCEPT !.ending = e]
    OBVIOUS
  <1> HIDE DEF f
  <1>3. LET s == [f EXCEPT !.ending = e]
        IN /\ s \in LoopStates /\ s.stopped = f.stopped /\ s.stop = f.stop
           /\ s.at = f.at /\ s.mic = f.mic
    BY <1>1, EndingRecord
  <1> QED
    BY <1>1, <1>2, <1>3, SMTT(30)

LEMMA StopCalledRecord ==
  ASSUME NEW r \in LoopStates, NEW next \in {Over, "off"} \cup Settings
  PROVE  /\ StopCalled(r, next) \in LoopStates
         /\ StopNoted(StopCalled(r, next)) /\ StopCalled(r, next).stopped
  <1> DEFINE d == Disposed(r)
             n == [d EXCEPT !.stopped = TRUE, !.next = next]
             s == [n EXCEPT !.stop = "joining"]
  <1>1. d \in LoopStates
    BY DisposedRecord
  <1>2. StopCalled(r, next) = TurnOver(s)
    BY DEF StopCalled
  <1> HIDE DEF d
  <1>3. n \in LoopStates /\ n.stopped
    BY <1>1 DEF LoopStates
  <1> HIDE DEF n
  <1>4. s \in LoopStates /\ s.stopped /\ s.stop = "joining"
    BY <1>3 DEF LoopStates
  <1> HIDE DEF s
  <1> QED
    BY <1>2, <1>4, TurnOverRecord DEF StopNoted

LEMMA FinishTurnRecord ==
  ASSUME NEW r \in LoopStates
  PROVE  /\ FinishTurn(r) \in LoopStates
         /\ FinishTurn(r).stopped = r.stopped /\ FinishTurn(r).stop = r.stop
  <1> DEFINE d == Disposed(r)
  <1>1. d \in LoopStates /\ d.stopped = r.stopped /\ d.stop = r.stop
    BY DisposedRecord
  <1>2. FinishTurn(r) = IF r.listening THEN [d EXCEPT !.ending = "closing"]
                        ELSE [d EXCEPT !.reason = "no_speech", !.ending = "answering"]
    BY DEF FinishTurn, Disposed, LoopStates
  <1> HIDE DEF d
  <1>3. LET s == [d EXCEPT !.ending = "closing"]
        IN s \in LoopStates /\ s.stopped = d.stopped /\ s.stop = d.stop
    BY <1>1 DEF LoopStates
  <1>4. LET s == [d EXCEPT !.reason = "no_speech", !.ending = "answering"]
        IN s \in LoopStates /\ s.stopped = d.stopped /\ s.stop = d.stop
    <2>1. \A e \in LoopStates :
            LET s == [e EXCEPT !.ending = "answering"]
            IN s \in LoopStates /\ s.stopped = e.stopped /\ s.stop = e.stop
      BY DEF LoopStates
    <2>2. LET s == [d EXCEPT !.reason = "no_speech"]
          IN s \in LoopStates /\ s.stopped = d.stopped /\ s.stop = d.stop
      BY <1>1 DEF LoopStates
    <2> QED
      BY <2>1, <2>2
  <1> QED
    BY <1>1, <1>2, <1>3, <1>4

LEMMA FinishRecord ==
  ASSUME NEW r \in LoopStates, NEW reason \in {"no_speech", "speech"}
  PROVE  /\ Finish(r, reason) \in LoopStates
         /\ Finish(r, reason).stopped = r.stopped /\ Finish(r, reason).stop = r.stop
  <1> DEFINE s == [r EXCEPT !.reason = reason]
  <1>1. s \in LoopStates /\ s.stopped = r.stopped /\ s.stop = r.stop
    BY DEF LoopStates
  <1>2. Finish(r, reason) \in {r, FinishTurn(s), [s EXCEPT !.ending = "starting"]}
    BY DEF Finish
  <1> HIDE DEF s
  <1>3. LET e == [s EXCEPT !.ending = "starting"]
        IN e \in LoopStates /\ e.stopped = s.stopped /\ e.stop = s.stop
    BY <1>1 DEF LoopStates
  <1> QED
    BY <1>1, <1>2, <1>3, FinishTurnRecord

LEMMA CollectedRecord ==
  ASSUME NEW r \in LoopStates, StopNoted(r)
  PROVE  /\ Collected(r) \in LoopStates /\ StopNoted(Collected(r))
         /\ Collected(r).stopped = r.stopped
  <1> DEFINE s == [r EXCEPT !.mic = "none", !.start = "none", !.reporting = FALSE,
                            !.reason = "none", !.ending = "no"]
  <1>1. s \in LoopStates /\ s.stopped = r.stopped /\ s.stop = r.stop
    <2> DEFINE m == [r EXCEPT !.mic = "none", !.start = "none", !.reporting = FALSE]
               n == [m EXCEPT !.reason = "none"]
    <2>1. m \in LoopStates /\ m.stopped = r.stopped /\ m.stop = r.stop
      BY DEF LoopStates
    <2>2. s = [n EXCEPT !.ending = "no"]
      OBVIOUS
    <2> HIDE DEF m
    <2>3. n \in LoopStates /\ n.stopped = m.stopped /\ n.stop = m.stop
      BY <2>1 DEF LoopStates
    <2> HIDE DEF n, s
    <2> QED
      BY <2>1, <2>2, <2>3, EndingRecord
  <1>2. r.stop = "returned" => r.stopped
    BY DEF StopNoted
  <1> HIDE DEF s
  <1>3. Collected(r) \in {r, s} \/ (Collected(r) = Idle /\ r.stop = "returned")
    BY DEF Collected, s
  <1> QED
    BY <1>1, <1>2, <1>3, IdleRecord DEF StopNoted

-----------------------------------------------------------------------------
(* One loop: type correctness and OneLoop. *)

\* The loops of the application when `cur` is the current one: the invariant but
\* for the other variables.
Held(loops, cur) ==
  /\ loops \in [Loops -> LoopStates]
  /\ \A l \in Loops : StopNoted(loops[l]) /\ (loops[l].stopped <=> cur # l)

Application == TypeOK /\ Held(loop, current)

LEMMA MovesKeeps ==
  ASSUME Application, NEW l \in Loops, NEW r \in LoopStates, StopNoted(r),
         r.stopped = loop[l].stopped, Moves(l, r)
  PROVE  Application'
  <1>1. /\ Collected(r) \in LoopStates /\ StopNoted(Collected(r))
        /\ Collected(r).stopped = loop[l].stopped
    BY CollectedRecord
  <1>2. loop' = [loop EXCEPT ![l] = Collected(r)] /\ UNCHANGED <<current, key, on, rendered, asking>>
    BY DEF Moves
  <1> QED
    BY <1>1, <1>2 DEF Application, TypeOK, Held

LEMMA StopLoopKeeps ==
  ASSUME ConversationModeAssumption, NEW loops, Held(loops, current), current \in Loops \cup {NoLoop},
         NEW next \in {Over, "off"} \cup Settings, StopLoop(loops, next)
  PROVE  Held(loop', current') /\ current' = NoLoop /\ key' = NoLoop
  <1>1. \A r \in LoopStates :
          /\ StopCalled(r, next) \in LoopStates
          /\ StopNoted(StopCalled(r, next)) /\ StopCalled(r, next).stopped
    BY StopCalledRecord
  <1>2. current' = NoLoop /\ key' = NoLoop /\ \A l \in Loops : current' # l
    BY DEF StopLoop, ConversationModeAssumption
  <1>3. CASE current = NoLoop
    BY <1>2, <1>3 DEF StopLoop, Held
  <1>4. CASE current \in Loops
    <2>1. loop' = [loops EXCEPT ![current] = StopCalled(loops[current], next)]
      BY <1>4 DEF StopLoop, ConversationModeAssumption
    <2> QED
      BY <1>1, <1>2, <1>4, <2>1 DEF Held
  <1> QED
    BY <1>3, <1>4

LEMMA MakeLoopKeeps ==
  ASSUME ConversationModeAssumption, NEW loops, Held(loops, current), current = NoLoop,
         NEW made \in Settings, MakeLoop(loops, made)
  PROVE  Held(loop', current') /\ current' \in Loops /\ key' = made
  <1>1. PICK l \in Loops, at \in Passes([Idle EXCEPT !.stopped = FALSE], rendered') :
          /\ loop' = [loops EXCEPT ![l] = [Idle EXCEPT !.at = at, !.stopped = FALSE, !.stop = "no"]]
          /\ current' = l /\ key' = made
    BY DEF MakeLoop
  <1>2. at \in {"done", "delay", "media"}
    BY DEF Passes
  <1>3. LET r == [Idle EXCEPT !.at = at, !.stopped = FALSE, !.stop = "no"]
        IN r \in LoopStates /\ StopNoted(r) /\ ~r.stopped
    BY <1>2 DEF Idle, Over, LoopStates, StopNoted
  <1> QED
    BY <1>1, <1>3 DEF Held, ConversationModeAssumption

LEMMA StartLoopKeeps ==
  ASSUME ConversationModeAssumption, NEW loops, Held(loops, current),
         current \in Loops \cup {NoLoop}, key \in Settings \cup {NoLoop},
         current = NoLoop <=> key = NoLoop,
         NEW made \in Settings, StartLoop(loops, made)
  PROVE  /\ Held(loop', current')
         /\ current' \in Loops \cup {NoLoop} /\ key' \in Settings \cup {NoLoop}
         /\ current' = NoLoop <=> key' = NoLoop
  <1>1. CASE loop' = loops /\ UNCHANGED <<current, key>>
    BY <1>1
  <1>2. CASE StopLoop(loops, made)
    BY <1>2, StopLoopKeeps
  <1>3. CASE current = NoLoop /\ MakeLoop(loops, made)
    BY <1>3, MakeLoopKeeps DEF ConversationModeAssumption
  <1> QED
    BY <1>1, <1>2, <1>3 DEF StartLoop

LEMMA OnErrorKeeps ==
  ASSUME ConversationModeAssumption, Application, NEW l \in Loops,
         NEW r \in LoopStates, StopNoted(r), r.stopped = loop[l].stopped, OnError(l, r)
  PROVE  Application'
  <1> DEFINE s == IF current = l THEN r ELSE Collected(TurnOver(r))
             loops == [loop EXCEPT ![l] = s]
  <1>1. TurnOver(r) \in LoopStates /\ StopNoted(TurnOver(r)) /\ TurnOver(r).stopped = r.stopped
    BY TurnOverRecord DEF StopNoted
  <1>2. s \in LoopStates /\ StopNoted(s) /\ s.stopped = r.stopped
    BY <1>1, CollectedRecord
  <1>3. StopLoop(loops, Over) /\ asking' = asking \cup {"off"} /\ UNCHANGED <<on, rendered>>
    BY DEF OnError
  <1> HIDE DEF s
  <1>4. Held(loops, current) /\ current \in Loops \cup {NoLoop}
    BY <1>2 DEF Application, TypeOK, Held
  <1> HIDE DEF loops
  <1>5. Held(loop', current') /\ current' = NoLoop /\ key' = NoLoop
    BY <1>3, <1>4, StopLoopKeeps
  <1> QED
    BY <1>3, <1>5 DEF Application, TypeOK, Held

LEMMA FailsKeeps ==
  ASSUME ConversationModeAssumption, Application, NEW l \in Loops,
         NEW r \in LoopStates, StopNoted(r), r.stopped = loop[l].stopped, Fails(l, r)
  PROVE  Application'
  <1>1. CASE Moves(l, r)
    BY <1>1, MovesKeeps
  <1>2. CASE Moves(l, [Disposed(r) EXCEPT !.reason = "failed", !.ending = "closing"])
    <2> DEFINE s == [Disposed(r) EXCEPT !.reason = "failed", !.ending = "closing"]
    <2>1. s \in LoopStates /\ s.stopped = r.stopped /\ s.stop = r.stop
      BY DisposedRecord, FailedRecord
    <2>2. Moves(l, s)
      BY <1>2
    <2> HIDE DEF s
    <2> QED
      BY <2>1, <2>2, MovesKeeps DEF StopNoted
  <1>3. CASE OnError(l, [r EXCEPT !.reason = "failed", !.ending = "over"])
    <2> DEFINE s == [r EXCEPT !.reason = "failed", !.ending = "over"]
    <2>1. s \in LoopStates /\ s.stopped = r.stopped /\ s.stop = r.stop
      BY FailedRecord
    <2>2. OnError(l, s)
      BY <1>3
    <2> HIDE DEF s
    <2> QED
      BY <2>1, <2>2, OnErrorKeeps DEF StopNoted
  <1> QED
    BY <1>1, <1>2, <1>3 DEF Fails

LEMMA TurnStepKeeps ==
  ASSUME ConversationModeAssumption, Application, NEW l \in Loops, Settles(l) \/ Speech(l) \/ SpeechEnds(l),
         ~StopReturned(l)
  PROVE  Application'
  <1> DEFINE r == loop[l]
  <1>1. r \in LoopStates /\ StopNoted(r)
    BY DEF Application, Held
  <1>2. CASE DelayEnds(l)
    <2>1. PICK at \in Passes(r, rendered) : Moves(l, [r EXCEPT !.at = at])
      BY <1>2 DEF DelayEnds
    <2>2. at \in {"done", "delay", "media"}
      BY DEF Passes
    <2>3. LET s == [r EXCEPT !.at = at] IN s \in LoopStates /\ StopNoted(s) /\ s.stopped = r.stopped
      BY <1>1, <2>2 DEF LoopStates, StopNoted
    <2> QED
      BY <2>1, <2>3, MovesKeeps
  <1>3. CASE MediaOpens(l)
    <2>1. LET s == [r EXCEPT !.at = "resume", !.mic = "open"]
          IN s \in LoopStates /\ StopNoted(s) /\ s.stopped = r.stopped
      BY <1>1 DEF LoopStates, StopNoted
    <2> QED
      BY <1>3, <2>1, MovesKeeps DEF MediaOpens
  <1>4. CASE Resumed(l)
    <2>1. LET s == [r EXCEPT !.at = "waiting", !.listening = TRUE]
          IN s \in LoopStates /\ StopNoted(s) /\ s.stopped = r.stopped
      BY <1>1 DEF LoopStates, StopNoted
    <2> QED
      BY <1>4, <2>1, MovesKeeps DEF Resumed
  <1>5. \A at \in {"turn", "done"} :
          LET s == [r EXCEPT !.at = at] IN s \in LoopStates /\ StopNoted(s) /\ s.stopped = r.stopped
    BY <1>1 DEF LoopStates, StopNoted
  <1>6. CASE Waited(l)
    BY <1>5, <1>6, MovesKeeps DEF Waited
  <1>7. CASE TurnThrows(l)
    BY <1>5, <1>7, MovesKeeps, OnErrorKeeps DEF TurnThrows
  <1>8. CASE FrameAfterStop(l)
    BY <1>1, <1>8, FinishRecord, MovesKeeps DEF FrameAfterStop, StopNoted
  <1>9. CASE Speech(l)
    <2>1. LET s == [r EXCEPT !.reporting = TRUE, !.start = IF @ = "none" THEN "asked" ELSE @]
          IN s \in LoopStates /\ StopNoted(s) /\ s.stopped = r.stopped
      BY <1>1 DEF LoopStates, StopNoted
    <2> QED
      BY <1>9, <2>1, MovesKeeps DEF Speech
  <1>10. CASE SpeechEnds(l)
    BY <1>1, <1>10, FinishRecord, MovesKeeps DEF SpeechEnds, StopNoted
  <1>11. CASE StartSettles(l)
    <2> DEFINE started == [r EXCEPT !.start = "started"]
               refused == [r EXCEPT !.start = "refused", !.reporting = FALSE]
    <2>1. started \in LoopStates /\ StopNoted(started) /\ started.stopped = r.stopped
      BY <1>1 DEF LoopStates, StopNoted
    <2>2. refused \in LoopStates /\ StopNoted(refused) /\ refused.stopped = r.stopped
      BY <1>1 DEF LoopStates, StopNoted
    <2>3. \/ Moves(l, started) \/ Moves(l, FinishTurn(started))
          \/ Fails(l, refused) \/ OnError(l, [refused EXCEPT !.ending = "over"])
      BY <1>11 DEF StartSettles
    <2> HIDE DEF started, refused
    <2>4. LET s == [refused EXCEPT !.ending = "over"]
          IN s \in LoopStates /\ StopNoted(s) /\ s.stopped = r.stopped
      BY <2>2 DEF LoopStates, StopNoted
    <2>5. FinishTurn(started) \in LoopStates /\ StopNoted(FinishTurn(started))
          /\ FinishTurn(started).stopped = r.stopped
      BY <2>1, FinishTurnRecord DEF StopNoted
    <2> QED
      BY <2>1, <2>2, <2>3, <2>4, <2>5, MovesKeeps, FailsKeeps, OnErrorKeeps
  <1>12. CASE ReportsSettle(l)
    <2>1. LET s == [r EXCEPT !.reporting = FALSE]
          IN s \in LoopStates /\ StopNoted(s) /\ s.stopped = r.stopped
      BY <1>1 DEF LoopStates, StopNoted
    <2> QED
      BY <1>12, <2>1, MovesKeeps, FailsKeeps DEF ReportsSettle
  <1>13. \A ending \in {"answering", "over"} :
           LET s == [r EXCEPT !.ending = ending]
           IN s \in LoopStates /\ StopNoted(s) /\ s.stopped = r.stopped
    BY <1>1 DEF LoopStates, StopNoted
  <1>14. CASE TurnDisposed(l)
    BY <1>13, <1>14, MovesKeeps, OnErrorKeeps DEF TurnDisposed
  <1>15. CASE Answered(l)
    <2>1. \A s \in LoopStates :
            StopNoted(s) => /\ TurnOver(s) \in LoopStates /\ StopNoted(TurnOver(s))
                            /\ TurnOver(s).stopped = s.stopped
      BY TurnOverRecord DEF StopNoted
    <2> QED
      BY <1>13, <1>15, <2>1, MovesKeeps, OnErrorKeeps DEF Answered
  <1> QED
    BY <1>2, <1>3, <1>4, <1>6, <1>7, <1>8, <1>9, <1>10, <1>11, <1>12, <1>14, <1>15 DEF Settles

LEMMA StopReturnedKeeps ==
  ASSUME ConversationModeAssumption, Application, NEW l \in Loops, StopReturned(l)
  PROVE  Application'
  <1> DEFINE r == [loop[l] EXCEPT !.stop = "returned", !.next = Over]
             loops == [loop EXCEPT ![l] = Collected(r)]
             next == loop[l].next
  <1>1. loop[l] \in LoopStates /\ StopNoted(loop[l]) /\ loop[l].stop = "joining"
    BY DEF Application, Held, StopReturned
  <1>2. r \in LoopStates /\ StopNoted(r) /\ r.stopped = loop[l].stopped
    BY <1>1 DEF LoopStates, StopNoted
  <1>3. \/ loop' = loops /\ UNCHANGED <<current, key, asking>>
        \/ loop' = loops /\ asking' = asking \cup {"off"} /\ UNCHANGED <<current, key>>
        \/ next \in Settings /\ StartLoop(loops, next) /\ UNCHANGED asking
    BY DEF StopReturned
  <1>4. UNCHANGED <<on, rendered>>
    BY DEF StopReturned
  <1> HIDE DEF r
  <1>5. /\ Collected(r) \in LoopStates /\ StopNoted(Collected(r))
        /\ Collected(r).stopped = loop[l].stopped
    BY <1>2, CollectedRecord
  <1>6. Held(loops, current)
    BY <1>5 DEF Application, Held
  <1> HIDE DEF loops, next
  <1>7. CASE loop' = loops /\ UNCHANGED <<current, key>> /\ asking' \subseteq {"on", "off"}
    BY <1>4, <1>6, <1>7 DEF Application, TypeOK, Held
  <1>8. CASE next \in Settings /\ StartLoop(loops, next) /\ UNCHANGED asking
    <2>1. /\ Held(loop', current')
          /\ current' \in Loops \cup {NoLoop} /\ key' \in Settings \cup {NoLoop}
          /\ current' = NoLoop <=> key' = NoLoop
      BY <1>6, <1>8, StartLoopKeeps DEF Application, TypeOK
    <2> QED
      BY <1>4, <1>8, <2>1 DEF Application, TypeOK, Held
  <1> QED
    BY <1>3, <1>7, <1>8 DEF Application, TypeOK

LEMMA SwitchKeeps ==
  ASSUME ConversationModeAssumption, Application,
         SwitchOff \/ SwitchOn \/ ModeUpdated \/ Renders \/ SettingsUpdated
  PROVE  Application'
  <1> USE DEF Application, TypeOK
  <1>1. CASE SwitchOff
    BY <1>1, StopLoopKeeps DEF SwitchOff, Held
  <1>2. CASE SwitchOn
    BY <1>2 DEF SwitchOn, Held
  <1>3. CASE ModeUpdated
    <2>1. PICK mode \in asking :
            /\ asking' = asking \ {mode} /\ UNCHANGED rendered
            /\ \/ on' = (mode = "on") /\ StartLoop(loop, "latest")
               \/ on' = (mode = "on") /\ UNCHANGED <<loop, current, key>>
               \/ UNCHANGED <<on, loop, current, key>>
      BY <1>3 DEF ModeUpdated
    <2>2. on' \in BOOLEAN /\ rendered' \in BOOLEAN /\ asking' \subseteq {"on", "off"}
      BY <2>1
    <2>3. CASE StartLoop(loop, "latest")
      BY <2>2, <2>3, StartLoopKeeps DEF Settings, Held
    <2>4. CASE UNCHANGED <<loop, current, key>>
      BY <2>2, <2>4 DEF Held
    <2> QED
      BY <2>1, <2>3, <2>4
  <1>4. CASE Renders
    <2>1. CASE StartLoop(loop, "latest")
      BY <1>4, <2>1, StartLoopKeeps DEF Renders, Settings, Held
    <2>2. CASE StopLoop(loop, Over)
      BY <1>4, <2>2, StopLoopKeeps DEF Renders, Held
    <2> QED
      BY <1>4, <2>1, <2>2 DEF Renders
  <1>5. CASE SettingsUpdated
    <2> DEFINE aged(r) == [r EXCEPT !.next = IF @ \in Settings THEN "earlier" ELSE @]
               loops == [l \in Loops |-> aged(loop[l])]
    <2>1. \A r \in LoopStates : /\ aged(r) \in LoopStates
                                /\ aged(r).stopped = r.stopped /\ aged(r).stop = r.stop
      BY DEF LoopStates, Settings
    <2>2. \/ /\ loop' = loops /\ UNCHANGED current
             /\ key' = IF current = NoLoop THEN NoLoop ELSE "earlier"
          \/ StopLoop(loops, "latest")
          \/ current = NoLoop /\ MakeLoop(loops, "latest")
      BY <1>5 DEF SettingsUpdated
    <2> HIDE DEF aged
    <2>3. Held(loops, current)
      BY <2>1 DEF Held, StopNoted
    <2> HIDE DEF loops
    <2>4. UNCHANGED <<on, rendered, asking>> /\ "latest" \in Settings /\ "earlier" \in Settings
      BY <1>5 DEF SettingsUpdated, Settings
    <2>5. CASE /\ loop' = loops /\ UNCHANGED current
               /\ key' = IF current = NoLoop THEN NoLoop ELSE "earlier"
      BY <2>3, <2>4, <2>5 DEF Held, ConversationModeAssumption
    <2>6. CASE StopLoop(loops, "latest")
      BY <2>3, <2>4, <2>6, StopLoopKeeps DEF Held
    <2>7. CASE current = NoLoop /\ MakeLoop(loops, "latest")
      BY <2>3, <2>4, <2>7, MakeLoopKeeps DEF Held, ConversationModeAssumption
    <2> QED
      BY <2>2, <2>5, <2>6, <2>7
  <1> QED
    BY <1>1, <1>2, <1>3, <1>4, <1>5

LEMMA ApplicationInductive ==
  ASSUME ConversationModeAssumption
  PROVE  /\ Init => Application
         /\ Application /\ [Next]_vars => Application'
  <1>1. Init => Application
    BY IdleRecord DEF Init, Application, TypeOK, Held, ConversationModeAssumption
  <1>2. ASSUME Application, Next PROVE Application'
    <2>1. CASE SwitchOff \/ SwitchOn \/ SettingsUpdated \/ Updates
      BY <1>2, <2>1, SwitchKeeps DEF Updates
    <2>2. CASE \E l \in Loops : Settles(l) \/ Speech(l) \/ SpeechEnds(l)
      BY <1>2, <2>2, TurnStepKeeps, StopReturnedKeeps
    <2> QED
      BY <1>2, <2>1, <2>2 DEF Next
  <1>3. ASSUME Application, UNCHANGED vars PROVE Application'
    BY <1>3 DEF vars, Application, TypeOK, Held
  <1> QED
    BY <1>1, <1>2, <1>3

\* The records of the loops, the reference to the current one and the mode have
\* their types, whichever calls fail.
THEOREM TypeCorrect == Spec => []TypeOK
  <1>1. Init => Application
    BY ApplicationInductive, ConversationModeAssumption
  <1>2. Application /\ [Next]_vars => Application'
    BY ApplicationInductive, ConversationModeAssumption
  <1>3. Application => TypeOK
    BY DEF Application
  <1> QED
    BY <1>1, <1>2, <1>3, PTL DEF Spec

\* startConversationModeLoop and stopConversationModeLoop, in any order and from
\* any of their callers, leave one loop that is not stopped: the current one.
THEOREM OneLoopRuns == Spec => []OneLoop
  <1>1. Init => Application
    BY ApplicationInductive, ConversationModeAssumption
  <1>2. Application /\ [Next]_vars => Application'
    BY ApplicationInductive, ConversationModeAssumption
  <1>3. Application => OneLoop
    BY DEF Application, Held, OneLoop
  <1> QED
    BY <1>1, <1>2, <1>3, PTL DEF Spec

-----------------------------------------------------------------------------
(* The course of a turn: LoopsAreSound. *)

LEMMA IdleSound == Sound(Idle)
  BY DEF Idle, Sound

LEMMA CollectedSound ==
  ASSUME NEW r \in LoopStates, Sound(r)
  PROVE  Sound(Collected(r))
  <1> DEFINE s == [r EXCEPT !.mic = "none", !.start = "none", !.reporting = FALSE,
                            !.reason = "none", !.ending = "no"]
  <1>1. r.at \in {"delay", "done"} => Sound(s)
    BY DEF Sound, LoopStates
  <1> HIDE DEF s
  <1>2. Collected(r) \in {r, Idle} \/ (Collected(r) = s /\ r.at \in {"delay", "done"})
    BY DEF Collected, s
  <1> QED
    BY <1>1, <1>2, IdleSound

LEMMA StopCalledSound ==
  ASSUME NEW r \in LoopStates, Sound(r), NEW next
  PROVE  Sound(StopCalled(r, next))
  BY DEF Sound, StopCalled, TurnOver, AfterTurn, Disposed, LoopStates

LEMMA TurnOverSound ==
  ASSUME NEW r \in LoopStates, Sound(r), r.stopped, r.at = "turn" => r.mic # "open"
  PROVE  Sound(TurnOver(r))
  BY DEF Sound, TurnOver, AfterTurn, LoopStates

\* A turn that is answered leaves nothing to the next one.
LEMMA AnsweredSound ==
  ASSUME NEW r \in LoopStates, Sound(r), r.ending = "answering"
  PROVE  Sound(Collected(TurnOver([r EXCEPT !.ending = "over"])))
  BY DEF Sound, Collected, Lingers, TurnOver, AfterTurn, Idle, LoopStates

LEMMA FinishSound ==
  ASSUME NEW r \in LoopStates, Sound(r), r.at = "turn", r.reason = "none",
         NEW reason \in {"no_speech", "speech"}, reason = "speech" => r.start # "none"
  PROVE  Sound(Finish(r, reason))
  BY DEF Sound, Finish, FinishTurn, Disposed, LoopStates

LEMMA StartedSound ==
  ASSUME NEW r \in LoopStates, Sound(r), r.start = "asked", r.ending = "starting"
  PROVE  Sound(FinishTurn([r EXCEPT !.start = "started"]))
  BY DEF Sound, FinishTurn, Disposed, LoopStates

\* The same for the loops of the application.
AllSound(loops) == loops \in [Loops -> LoopStates] /\ \A l \in Loops : Sound(loops[l])

LEMMA MovesSound ==
  ASSUME AllSound(loop), NEW l \in Loops, NEW r \in LoopStates, Sound(r), Moves(l, r)
  PROVE  LoopsAreSound'
  BY CollectedSound DEF AllSound, Moves, LoopsAreSound

LEMMA StopLoopSound ==
  ASSUME NEW loops, AllSound(loops), NEW next, StopLoop(loops, next)
  PROVE  LoopsAreSound'
  <1>1. CASE current = NoLoop
    BY <1>1 DEF StopLoop, AllSound, LoopsAreSound
  <1>2. CASE loop' = [loops EXCEPT ![current] = StopCalled(loops[current], next)]
    BY <1>2, StopCalledSound DEF AllSound, LoopsAreSound
  <1> QED
    BY <1>1, <1>2 DEF StopLoop

LEMMA MakeLoopSound ==
  ASSUME NEW loops, AllSound(loops), NEW made, MakeLoop(loops, made)
  PROVE  LoopsAreSound'
  <1>1. PICK l \in Loops, at \in Passes([Idle EXCEPT !.stopped = FALSE], rendered') :
          loop' = [loops EXCEPT ![l] = [Idle EXCEPT !.at = at, !.stopped = FALSE, !.stop = "no"]]
    BY DEF MakeLoop
  <1>2. at \in {"done", "delay", "media"}
    BY DEF Passes
  <1>3. Sound([Idle EXCEPT !.at = at, !.stopped = FALSE, !.stop = "no"])
    BY <1>2 DEF Idle, Sound
  <1> QED
    BY <1>1, <1>3 DEF AllSound, LoopsAreSound

LEMMA StartLoopSound ==
  ASSUME NEW loops, AllSound(loops), NEW made, StartLoop(loops, made)
  PROVE  LoopsAreSound'
  <1>1. CASE loop' = loops
    BY <1>1 DEF AllSound, LoopsAreSound
  <1> QED
    BY <1>1, StopLoopSound, MakeLoopSound DEF StartLoop

LEMMA OnErrorSound ==
  ASSUME AllSound(loop), NEW l \in Loops, NEW r \in LoopStates, StopNoted(r), Sound(r),
         current # l => r.stopped, r.at = "turn" => r.mic # "open", OnError(l, r)
  PROVE  LoopsAreSound'
  <1> DEFINE s == IF current = l THEN r ELSE Collected(TurnOver(r))
             loops == [loop EXCEPT ![l] = s]
  <1>1. current # l => Sound(TurnOver(r)) /\ TurnOver(r) \in LoopStates /\ StopNoted(TurnOver(r))
    BY TurnOverSound, TurnOverRecord DEF StopNoted
  <1>2. s \in LoopStates /\ Sound(s)
    BY <1>1, CollectedSound, CollectedRecord
  <1> HIDE DEF s
  <1>3. AllSound(loops)
    BY <1>2 DEF AllSound
  <1>4. StopLoop(loops, Over)
    BY DEF OnError, s
  <1> HIDE DEF loops
  <1> QED
    BY <1>3, <1>4, StopLoopSound

\* A refused start is sound once its turn has noted the failure.
LEMMA FailsSound ==
  ASSUME AllSound(loop), NEW l \in Loops, NEW r \in LoopStates, StopNoted(r),
         Sound(r) \/ (r.reason = "none" /\ Sound([r EXCEPT !.start = "started"])),
         current # l => r.stopped, r.start # "none", r.start # "asked", Fails(l, r)
  PROVE  LoopsAreSound'
  <1> DEFINE closing == [Disposed(r) EXCEPT !.reason = "failed", !.ending = "closing"]
             over == [r EXCEPT !.reason = "failed", !.ending = "over"]
  <1>1. CASE r.reason # "none" /\ Moves(l, r)
    BY <1>1, MovesSound
  <1>2. CASE r.reason = "none" /\ r.listening /\ Moves(l, closing)
    <2>1. closing \in LoopStates
      BY DisposedRecord, FailedRecord
    <2>2. Sound(closing)
      BY <1>2 DEF Sound, Disposed, LoopStates
    <2> QED
      BY <1>2, <2>1, <2>2, MovesSound
  <1>3. CASE r.reason = "none" /\ ~r.listening /\ OnError(l, over)
    <2>1. over \in LoopStates /\ StopNoted(over) /\ over.stopped = r.stopped /\ over.at = r.at /\ over.mic = r.mic
      BY FailedRecord DEF StopNoted
    <2>2. Sound(over) /\ (r.at = "turn" => r.mic # "open")
      BY <1>3 DEF Sound, LoopStates
    <2> HIDE DEF over
    <2> QED
      BY <1>3, <2>1, <2>2, OnErrorSound
  <1> QED
    BY <1>1, <1>2, <1>3 DEF Fails

LEMMA TurnStepSound ==
  ASSUME ConversationModeAssumption, Application, LoopsAreSound, MayReject \cap {"resume", "waiting"} = {},
         NEW l \in Loops, Settles(l) \/ Speech(l) \/ SpeechEnds(l), ~StopReturned(l)
  PROVE  LoopsAreSound'
  <1> DEFINE r == loop[l]
  <1>1. /\ r \in LoopStates /\ StopNoted(r) /\ Sound(r) /\ AllSound(loop)
        /\ current # l => r.stopped
    BY DEF Application, Held, LoopsAreSound, AllSound
  <1>2. CASE DelayEnds(l)
    <2>1. PICK at \in Passes(r, rendered) : r.at = "delay" /\ Moves(l, [r EXCEPT !.at = at])
      BY <1>2 DEF DelayEnds
    <2>2. at \in {"done", "delay", "media"}
      BY DEF Passes
    <2>3. LET s == [r EXCEPT !.at = at] IN s \in LoopStates /\ Sound(s)
      BY <1>1, <2>1, <2>2 DEF LoopStates, Sound
    <2> QED
      BY <1>1, <2>1, <2>3, MovesSound
  <1>3. CASE MediaOpens(l)
    <2>1. LET s == [r EXCEPT !.at = "resume", !.mic = "open"] IN s \in LoopStates /\ Sound(s)
      BY <1>1, <1>3 DEF MediaOpens, LoopStates, Sound
    <2> QED
      BY <1>1, <1>3, <2>1, MovesSound DEF MediaOpens
  <1>4. CASE Resumed(l)
    <2>1. LET s == [r EXCEPT !.at = "waiting", !.listening = TRUE] IN s \in LoopStates /\ Sound(s)
      BY <1>1, <1>4 DEF Resumed, LoopStates, Sound
    <2> QED
      BY <1>1, <1>4, <2>1, MovesSound DEF Resumed
  <1>5. CASE Waited(l)
    <2>1. LET s == [r EXCEPT !.at = "turn"] IN s \in LoopStates /\ Sound(s)
      BY <1>1, <1>5 DEF Waited, LoopStates, Sound
    <2>2. r.mic = "closed" => LET s == [r EXCEPT !.at = "done"] IN s \in LoopStates /\ Sound(s)
      BY <1>1, <1>5 DEF Waited, LoopStates, Sound
    <2> QED
      BY <1>1, <1>5, <2>1, <2>2, MovesSound DEF Waited
  <1>6. CASE TurnThrows(l)
    <2>1. r.at = "media"
      BY <1>6 DEF TurnThrows
    <2>2. LET s == [r EXCEPT !.at = "done"]
          IN s \in LoopStates /\ StopNoted(s) /\ s.stopped = r.stopped /\ s.at = "done" /\ Sound(s)
      BY <1>1, <2>1 DEF LoopStates, StopNoted, Sound
    <2> QED
      BY <1>1, <1>6, <2>2, MovesSound, OnErrorSound DEF TurnThrows
  <1>7. CASE FrameAfterStop(l)
    BY <1>1, <1>7, FinishRecord, FinishSound, MovesSound DEF FrameAfterStop, Hearing
  <1>8. CASE Speech(l)
    <2>1. LET s == [r EXCEPT !.reporting = TRUE, !.start = IF @ = "none" THEN "asked" ELSE @]
          IN s \in LoopStates /\ Sound(s)
      BY <1>1, <1>8 DEF Speech, Hearing, LoopStates, Sound
    <2> QED
      BY <1>1, <1>8, <2>1, MovesSound DEF Speech
  <1>9. CASE SpeechEnds(l)
    BY <1>1, <1>9, FinishRecord, FinishSound, MovesSound DEF SpeechEnds, Hearing
  <1>10. CASE StartSettles(l)
    <2> DEFINE started == [r EXCEPT !.start = "started"]
               refused == [r EXCEPT !.start = "refused", !.reporting = FALSE]
               over == [refused EXCEPT !.ending = "over"]
    <2>1. started \in LoopStates /\ refused \in LoopStates
      BY <1>1 DEF LoopStates
    <2>2. /\ StopNoted(refused) /\ refused.stopped = r.stopped /\ refused.start = "refused"
          /\ refused.mic = r.mic /\ refused.reason = r.reason
      BY <1>1 DEF LoopStates, StopNoted
    <2>3. CASE r.ending # "starting" /\ Moves(l, started)
      <3>1. Sound(started)
        BY <1>1, <1>10, <2>3 DEF StartSettles, LoopStates, Sound
      <3> QED
        BY <1>1, <2>1, <2>3, <3>1, MovesSound
    <2>4. CASE r.ending = "starting" /\ Moves(l, FinishTurn(started))
      <3>1. Sound(FinishTurn(started))
        BY <1>1, <1>10, <2>4, StartedSound DEF StartSettles
      <3> QED
        BY <1>1, <2>1, <2>4, <3>1, FinishTurnRecord, MovesSound
    <2>5. CASE r.ending # "starting" /\ Fails(l, refused)
      <3>1. r.reason = "none" /\ Sound([refused EXCEPT !.start = "started"])
        BY <1>1, <1>10, <2>5 DEF StartSettles, LoopStates, Sound
      <3> QED
        BY <1>1, <2>1, <2>2, <2>5, <3>1, FailsSound
    <2>6. CASE r.ending = "starting" /\ OnError(l, over)
      <3>1. /\ over \in LoopStates /\ StopNoted(over)
            /\ over.stopped = r.stopped /\ over.mic = r.mic
        <4>1. \A d \in LoopStates :
                LET s == [d EXCEPT !.ending = "over"]
                IN /\ s \in LoopStates /\ s.stopped = d.stopped /\ s.stop = d.stop
                   /\ s.mic = d.mic
          BY DEF LoopStates
        <4> HIDE DEF refused
        <4> QED
          BY <2>1, <2>2, <4>1 DEF StopNoted
      <3>2. CASE r.mic # "open"
        <4>1. Sound(over)
          BY <1>1, <1>10, <2>6, <3>2 DEF StartSettles, LoopStates, Sound
        <4> QED
          BY <1>1, <2>6, <3>1, <3>2, <4>1, OnErrorSound
      \* onError stops the loop, which disposes the turn.
      <3>3. CASE r.mic = "open"
        <4>1. r.start = "asked" /\ ~r.stopped /\ current = l
          BY <1>1, <1>10, <3>3 DEF StartSettles, Sound
        <4>2. Sound(StopCalled(over, Over))
          BY <1>1, <2>6, <3>3, <4>1
          DEF StopCalled, TurnOver, AfterTurn, Disposed, LoopStates, Sound
        <4>3. loop' = [loop EXCEPT ![l] = StopCalled(over, Over)]
          <5> HIDE DEF over
          <5> QED
            BY <2>6, <4>1 DEF OnError, StopLoop, AllSound, ConversationModeAssumption
        <4> HIDE DEF over
        <4> QED
          BY <1>1, <4>2, <4>3 DEF AllSound, LoopsAreSound
      <3> QED
        BY <3>2, <3>3
    <2> QED
      BY <1>10, <2>3, <2>4, <2>5, <2>6 DEF StartSettles
  <1>11. CASE ReportsSettle(l)
    <2>1. LET s == [r EXCEPT !.reporting = FALSE]
          IN /\ s \in LoopStates /\ StopNoted(s) /\ s.stopped = r.stopped
             /\ s.start = r.start
      BY <1>1 DEF LoopStates, StopNoted
    <2>2. Sound([r EXCEPT !.reporting = FALSE])
      BY <1>1 DEF LoopStates, Sound
    <2> QED
      BY <1>1, <1>11, <2>1, <2>2, MovesSound, FailsSound DEF ReportsSettle
  <1>12. CASE TurnDisposed(l)
    <2>1. LET s == [r EXCEPT !.ending = "answering"] IN s \in LoopStates /\ Sound(s)
      BY <1>1, <1>12 DEF TurnDisposed, LoopStates, Sound
    <2>2. LET s == [r EXCEPT !.ending = "over"]
          IN /\ s \in LoopStates /\ StopNoted(s) /\ s.stopped = r.stopped
             /\ s.mic # "open" /\ Sound(s)
      BY <1>1, <1>12 DEF TurnDisposed, LoopStates, StopNoted, Sound
    <2> QED
      BY <1>1, <1>12, <2>1, <2>2, MovesSound, OnErrorSound DEF TurnDisposed
  <1>13. CASE Answered(l)
    <2> DEFINE over == [r EXCEPT !.ending = "over"]
    <2>1. /\ over \in LoopStates /\ StopNoted(over) /\ over.stopped = r.stopped
          /\ over.mic = r.mic
      BY <1>1 DEF LoopStates, StopNoted
    <2>2. Sound(over) /\ r.mic # "open"
      BY <1>1, <1>13 DEF Answered, LoopStates, Sound
    <2>3. CASE Moves(l, TurnOver(over))
      BY <1>1, <1>13, <2>3, AnsweredSound DEF Answered, Moves, AllSound, LoopsAreSound
    <2>4. CASE OnError(l, over)
      BY <1>1, <2>1, <2>2, <2>4, OnErrorSound
    <2> QED
      BY <1>13, <2>3, <2>4 DEF Answered
  <1> QED
    BY <1>2, <1>3, <1>4, <1>5, <1>6, <1>7, <1>8, <1>9, <1>10, <1>11, <1>12, <1>13 DEF Settles

LEMMA ApplicationStepSound ==
  ASSUME Application, LoopsAreSound,
         SwitchOff \/ SwitchOn \/ SettingsUpdated \/ Updates \/ \E l \in Loops : StopReturned(l)
  PROVE  LoopsAreSound'
  <1>1. AllSound(loop)
    BY DEF Application, Held, LoopsAreSound, AllSound
  <1>2. CASE SwitchOff \/ SwitchOn \/ Updates
    <2>1. CASE UNCHANGED loop
      BY <2>1 DEF LoopsAreSound
    <2>2. \/ UNCHANGED loop \/ StartLoop(loop, "latest")
          \/ StopLoop(loop, "off") \/ StopLoop(loop, Over)
      BY <1>2 DEF SwitchOff, SwitchOn, Updates, ModeUpdated, Renders
    <2> QED
      BY <1>1, <2>1, <2>2, StopLoopSound, StartLoopSound
  <1>3. CASE SettingsUpdated
    <2> DEFINE aged(r) == [r EXCEPT !.next = IF @ \in Settings THEN "earlier" ELSE @]
               loops == [l \in Loops |-> aged(loop[l])]
    <2>1. \A r \in LoopStates : aged(r) \in LoopStates /\ (Sound(r) => Sound(aged(r)))
      BY DEF LoopStates, Settings, Sound
    <2>2. loop' = loops \/ StopLoop(loops, "latest") \/ MakeLoop(loops, "latest")
      BY <1>3 DEF SettingsUpdated
    <2> HIDE DEF aged
    <2>3. AllSound(loops)
      BY <1>1, <2>1 DEF AllSound
    <2> HIDE DEF loops
    <2> QED
      BY <2>2, <2>3, StopLoopSound, MakeLoopSound DEF AllSound, LoopsAreSound
  <1>4. ASSUME NEW l \in Loops, StopReturned(l) PROVE LoopsAreSound'
    <2> DEFINE r == [loop[l] EXCEPT !.stop = "returned", !.next = Over]
               loops == [loop EXCEPT ![l] = Collected(r)]
    <2>1. loop[l] \in LoopStates /\ StopNoted(loop[l]) /\ loop[l].stop = "joining"
      BY <1>4 DEF Application, Held, StopReturned
    <2>2. r \in LoopStates /\ StopNoted(r)
      BY <2>1 DEF LoopStates, StopNoted
    <2>3. Sound(r)
      BY <2>1 DEF LoopsAreSound, LoopStates, Sound
    <2>4. loop' = loops \/ StartLoop(loops, loop[l].next)
      BY <1>4 DEF StopReturned
    <2> HIDE DEF r
    <2>5. AllSound(loops)
      BY <1>1, <2>2, <2>3, CollectedRecord, CollectedSound DEF AllSound
    <2> HIDE DEF loops
    <2> QED
      BY <2>4, <2>5, StartLoopSound DEF AllSound, LoopsAreSound
  <1> QED
    BY <1>2, <1>3, <1>4

\* Nothing of a turn survives it, whatever stops, reports, starts and ends meet,
\* while the two calls whose failures leave a turn with a microphone succeed.
THEOREM LoopsAlwaysSound ==
  ASSUME MayReject \cap {"resume", "waiting"} = {}
  PROVE  Spec => []LoopsAreSound
  <1>1. Init => Application /\ LoopsAreSound
    <2>1. Init => LoopsAreSound
      BY IdleSound DEF Init, LoopsAreSound
    <2> QED
      BY <2>1, ApplicationInductive, ConversationModeAssumption
  <1>2. Application /\ LoopsAreSound /\ [Next]_vars => (Application /\ LoopsAreSound)'
    <2> SUFFICES ASSUME Application, LoopsAreSound, [Next]_vars PROVE LoopsAreSound'
      BY ApplicationInductive, ConversationModeAssumption
    <2>1. CASE UNCHANGED vars
      BY <2>1 DEF vars, LoopsAreSound
    <2>2. CASE SwitchOff \/ SwitchOn \/ SettingsUpdated \/ Updates
      BY <2>2, ApplicationStepSound
    <2>3. CASE \E l \in Loops : Settles(l) \/ Speech(l) \/ SpeechEnds(l)
      BY <2>3, TurnStepSound, ApplicationStepSound, ConversationModeAssumption
    <2> QED
      BY <2>1, <2>2, <2>3 DEF Next
  <1> QED
    BY <1>1, <1>2, PTL DEF Spec

\* Under the same assumption a microphone is open only while its turn lasts:
\* disposeActiveListening is reached on every way out of captureConversationTurn.
THEOREM MicrophoneAlwaysOfTurn ==
  ASSUME MayReject \cap {"resume", "waiting"} = {}
  PROVE  Spec => []MicrophoneIsOfTurn
  <1>1. LoopsAreSound => MicrophoneIsOfTurn
    BY DEF LoopsAreSound, Sound, MicrophoneIsOfTurn
  <1> QED
    BY <1>1, LoopsAlwaysSound, PTL

\* finish() sends the audio of a turn only after the agent has started to listen.
THEOREM AudioAlwaysFollowsStart ==
  ASSUME MayReject \cap {"resume", "waiting"} = {}
  PROVE  Spec => []AudioFollowsStart
  <1>1. LoopsAreSound => AudioFollowsStart
    BY DEF LoopsAreSound, Sound, AudioFollowsStart
  <1> QED
    BY <1>1, LoopsAlwaysSound, PTL
=============================================================================
