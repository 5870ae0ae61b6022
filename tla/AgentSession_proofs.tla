------------------------- MODULE AgentSession_proofs -------------------------
(***************************************************************************)
(* What holds of the agent session for any number of prompts, retries and  *)
(* turns and any outcomes of the runs: the types, that nobody waits for a  *)
(* retry that is over, that what was prompted is written, that no retry    *)
(* outlives its prompt, and that memory and file agree.  The second part   *)
(* is about the tree of entries that a session keeps (SessionTree).        *)
(***************************************************************************)
EXTENDS AgentSession, SessionTree, SequenceTheorems, FiniteSetTheorems,
        WellFoundedInduction, TLAPS

-----------------------------------------------------------------------------
(* The invariant.                                                          *)

\* The handler that waits is processing the end of a run.
HandlerBusy == handler # "free" => events # <<>> /\ Head(events).kind = "end"

Active(p) == st[p] # "new" /\ ~Returned(p)
InFlight(p) == st[p] \in {"running", "ended", "retrying", "draining"}

\* The message of a prompt is in the file, or among the events, and then the
\* call waits for its processing.
Awaited ==
  \A p \in Prompts : (InFlight(p) \/ st[p] = "done") /\ p \notin unheard =>
    \/ Contains(file, p)
    \/ /\ st[p] # "done"
       /\ \E i \in DOMAIN events : events[i] = UserEvent(p) /\ (st[p] = "draining" => i <= owed[p])

\* What may be left of the events of a run that ended with o.
RunEvents(o) ==
  {<<>>, <<EndEvent(o)>>, <<ReplyEvent(o), EndEvent(o)>>}
    \cup {<<UserEvent(p), ReplyEvent(o), EndEvent(o)>> : p \in Prompts}

FirstEvents == {<<>>} \cup {<<UserEvent(p)>> : p \in Prompts}

\* Of a session that is undisturbed: one prompt at a time, ...
OneCall ==
  /\ \A p, q \in Prompts : Active(p) /\ Active(q) => p = q
  /\ \A p \in Prompts : st[p] # "recovering"
  /\ (\A p \in Prompts : ~InFlight(p)) => events = <<>>
  /\ \A p \in Prompts : st[p] = "draining" => ~retrying /\ owed[p] >= Len(events)

\* ... no more events than those of one run, and a run only for a prompt in
\* flight: the first for it, further ones while the retry is in progress, ...
OneRun ==
  /\ streaming => /\ events \in FirstEvents
                  /\ timers["retry"] = 0 /\ handler = "free"
                  /\ \E p \in Prompts : st[p] = "running" \/ (retrying /\ st[p] \in {"ended", "retrying"})
  /\ (\E p \in Prompts : st[p] = "running") => streaming
  /\ ~streaming /\ events # <<>> => \E o \in Outcomes : /\ events \in RunEvents(o)
                                                        /\ o = "transient" => retrying
                                                        /\ handler = "sleeping" => o = "transient"
  /\ handler # "free" => Len(events) = 1
  /\ timers["retry"] # 0 => timers["retry"] = 1 /\ events = <<>> /\ retrying
  /\ retrying => \E p \in Prompts : st[p] \in {"running", "ended", "retrying"}

\* ... no abort, no manual compaction and no recovery.
NoRecovery ==
  /\ compaction = "none" /\ ~signal
  /\ tail # "overflow" /\ fileTail # "overflow" /\ handler # "recovering" /\ timers["recover"] = 0

Calm == OneCall /\ OneRun /\ NoRecovery

IInv ==
  /\ TypeOK /\ HandlerBusy /\ WaitersHeld /\ Awaited
  /\ Undisturbed => Calm
  /\ TranscriptKept

-----------------------------------------------------------------------------
(* Events and sequences of them.                                           *)

LEMMA EventShape ==
  ASSUME NEW e \in Events
  PROVE  /\ e.kind \in {"user", "reply", "end"}
         /\ e.kind = "user" => e.by \in Prompts /\ e = UserEvent(e.by)
         /\ e.kind = "reply" => e.outcome \in Ends \cup {"turn"} /\ e = ReplyEvent(e.outcome)
         /\ e.kind = "end" => e.outcome \in Ends /\ e = EndEvent(e.outcome)
<1>1. CASE \E p \in Prompts : e = UserEvent(p)
  BY <1>1 DEF UserEvent
<1>2. CASE \E o \in Ends \cup {"turn"} : e = ReplyEvent(o)
  BY <1>2 DEF ReplyEvent
<1>3. CASE \E o \in Ends : e = EndEvent(o)
  BY <1>3 DEF EndEvent
<1>. QED BY <1>1, <1>2, <1>3 DEF Events

LEMMA EventIs ==
  /\ \A p \in Prompts : UserEvent(p) \in Events /\ UserEvent(p).kind = "user" /\ UserEvent(p).by = p
  /\ \A o \in Ends \cup {"turn"} : /\ ReplyEvent(o) \in Events /\ ReplyEvent(o).kind = "reply"
                                   /\ ReplyEvent(o).outcome = o
  /\ \A o \in Ends : EndEvent(o) \in Events /\ EndEvent(o).kind = "end" /\ EndEvent(o).outcome = o
<1>1. \A p \in Prompts : UserEvent(p) \in Events /\ UserEvent(p).kind = "user" /\ UserEvent(p).by = p
  BY DEF UserEvent, Events
<1>2. \A o \in Ends \cup {"turn"} : /\ ReplyEvent(o) \in Events /\ ReplyEvent(o).kind = "reply"
                                    /\ ReplyEvent(o).outcome = o
  BY DEF ReplyEvent, Events
<1>3. \A o \in Ends : EndEvent(o) \in Events /\ EndEvent(o).kind = "end" /\ EndEvent(o).outcome = o
  BY DEF EndEvent, Events
<1>. QED BY <1>1, <1>2, <1>3

LEMMA OutcomesAreEnds == Outcomes \subseteq Ends
  BY ConstantsOK DEF Outcomes

\* The first element goes, the others move up.
LEMMA TailIs ==
  ASSUME NEW S, NEW q \in Seq(S), q # <<>>
  PROVE  /\ Head(q) \in S /\ Head(q) = q[1] /\ Tail(q) \in Seq(S)
         /\ Len(q) \in Nat \ {0} /\ Len(Tail(q)) = Len(q) - 1
         /\ DOMAIN q = 1..Len(q) /\ DOMAIN Tail(q) = 1..(Len(q) - 1)
         /\ \A i \in DOMAIN q : i # 1 => i - 1 \in DOMAIN Tail(q) /\ Tail(q)[i - 1] = q[i]
         /\ \A i \in DOMAIN Tail(q) : i + 1 \in DOMAIN q /\ Tail(q)[i] = q[i + 1]
<1>1. /\ Head(q) \in S /\ Tail(q) \in Seq(S) /\ Len(Tail(q)) = Len(q) - 1
      /\ \A i \in 1..Len(Tail(q)) : Tail(q)[i] = q[i + 1]
      /\ Len(q) \in Nat \ {0} /\ Head(q) = q[1]
  BY HeadTailProperties, EmptySeq
<1>2. DOMAIN q = 1..Len(q) /\ DOMAIN Tail(q) = 1..Len(Tail(q))
  BY <1>1, LenProperties
<1>. QED BY <1>1, <1>2

\* The elements of a concatenation.
LEMMA Joined ==
  ASSUME NEW S, NEW s \in Seq(S), NEW t \in Seq(S)
  PROVE  /\ s \o t \in Seq(S)
         /\ DOMAIN s = 1..Len(s) /\ DOMAIN t = 1..Len(t)
         /\ Len(s) \in Nat /\ Len(t) \in Nat /\ Len(s \o t) = Len(s) + Len(t)
         /\ DOMAIN (s \o t) = 1..(Len(s) + Len(t))
         /\ \A i \in DOMAIN s : (s \o t)[i] = s[i] /\ i \in DOMAIN (s \o t)
         /\ \A i \in DOMAIN t : (s \o t)[Len(s) + i] = t[i] /\ Len(s) + i \in DOMAIN (s \o t)
         /\ \A i \in DOMAIN (s \o t) : i \in DOMAIN s \/ \E j \in DOMAIN t : i = Len(s) + j
<1>1. /\ s \o t \in Seq(S) /\ DOMAIN s = 1..Len(s) /\ DOMAIN t = 1..Len(t)
      /\ Len(s) \in Nat /\ Len(t) \in Nat /\ Len(s \o t) = Len(s) + Len(t)
      /\ DOMAIN (s \o t) = 1..(Len(s) + Len(t))
  BY ConcatProperties, LenProperties
<1>2. \A i \in 1..(Len(s) + Len(t)) : (s \o t)[i] = IF i <= Len(s) THEN s[i] ELSE t[i - Len(s)]
  BY ConcatProperties
<1>3. \A i \in DOMAIN s : (s \o t)[i] = s[i] /\ i \in DOMAIN (s \o t)
  BY <1>1, <1>2
<1>4. ASSUME NEW i \in DOMAIN t
      PROVE  (s \o t)[Len(s) + i] = t[i] /\ Len(s) + i \in DOMAIN (s \o t)
  <2>1. Len(s) + i \in 1..(Len(s) + Len(t)) /\ ~(Len(s) + i <= Len(s)) /\ (Len(s) + i) - Len(s) = i
    BY <1>1
  <2>. QED BY <1>1, <1>2, <2>1
<1>5. ASSUME NEW i \in DOMAIN (s \o t), i \notin DOMAIN s
      PROVE  \E j \in DOMAIN t : i = Len(s) + j
  <2>1. i - Len(s) \in DOMAIN t /\ i = Len(s) + (i - Len(s))
    BY <1>1, <1>5
  <2>. QED BY <2>1
<1>. QED BY <1>1, <1>3, <1>4, <1>5

-----------------------------------------------------------------------------
(* Types.                                                                  *)

Stages == {"new", "checking", "compacting", "recovering", "ready",
           "running", "ended", "retrying", "draining", "done", "failed"}

LEMMA InitType == Init => TypeOK
<1> SUFFICES ASSUME Init PROVE TypeOK
  OBVIOUS
<1>1. serial \in BOOLEAN /\ streaming \in BOOLEAN /\ signal \in BOOLEAN /\ retrying \in BOOLEAN /\ recovered \in BOOLEAN
  BY Zenon DEF Init
<1>2. MaxTurns \in Nat /\ MaxRetries \in Nat
  BY ConstantsOK
<1>3. turns \in 0..MaxTurns /\ attempt \in 0..MaxRetries
  BY <1>2 DEF Init
<1>4. \A S : <<>> \in Seq(S)
  OBVIOUS
<1>5. did \subseteq Extras
  BY DEF Init
<1>6. st \in [Prompts -> Stages] /\ owed \in [Prompts -> Nat] /\ timers \in [Timers -> Nat]
  BY DEF Init, Stages
<1>. QED BY <1>1, <1>3, <1>4, <1>5, <1>6 DEF Init, TypeOK, Stages

\* What the parts of the steps do.
LEMMA EmitTyped ==
  ASSUME TypeOK, NEW es \in Seq(Events), Emit(es)
  PROVE  events' \in Seq(Events)
<1>1. events \o es \in Seq(Events)
  BY Joined DEF TypeOK
<1>. QED BY <1>1 DEF Emit, TypeOK

LEMMA RecordTyped ==
  ASSUME TypeOK, NEW rs \in Seq({"bash"}), Record(rs)
  PROVE  /\ memory' \in Seq(Prompts \cup {"bash"}) /\ file' \in Seq(Prompts \cup {"bash"})
         /\ tail' \in {"none", "input"} \cup Ends /\ fileTail' \in {"none", "input"} \cup Ends
<1>1. rs \in Seq(Prompts \cup {"bash"})
  <2>1. {"bash"} \subseteq Prompts \cup {"bash"}
    OBVIOUS
  <2>. QED BY <2>1, SeqMonotonic
<1>2. memory \o rs \in Seq(Prompts \cup {"bash"}) /\ file \o rs \in Seq(Prompts \cup {"bash"})
  BY <1>1, Joined DEF TypeOK
<1>. QED BY <1>2 DEF Record, TypeOK

LEMMA DroppedTyped == TypeOK => Dropped(tail) \in {"none", "input"} \cup Ends
  BY DEF TypeOK, Dropped

LEMMA DebtsTyped ==
  ASSUME TypeOK
  PROVE  /\ OneLess(owed) \in [Prompts -> Nat] /\ ResumedOwing \in [Prompts -> Nat]
         /\ OneLess(ResumedOwing) \in [Prompts -> Nat] /\ Resumed \in [Prompts -> Stages]
         /\ Len(events) \in Nat
<1>1. Len(events) \in Nat
  BY LenProperties DEF TypeOK
<1>2. ASSUME NEW d \in [Prompts -> Nat] PROVE OneLess(d) \in [Prompts -> Nat]
  BY DEF OneLess
<1>3. ResumedOwing \in [Prompts -> Nat]
  BY <1>1 DEF ResumedOwing, TypeOK
<1>4. Resumed \in [Prompts -> Stages]
  BY DEF Resumed, TypeOK, Stages
<1>5. owed \in [Prompts -> Nat]
  BY DEF TypeOK
<1>. QED BY <1>1, <1>2, <1>3, <1>4, <1>5

LEMMA TakenTyped ==
  ASSUME TypeOK, events # <<>>, Taken
  PROVE  events' \in Seq(Events) /\ handler' \in {"free", "sleeping", "compacting", "recovering"}
<1>1. Tail(events) \in Seq(Events)
  BY TailIs DEF TypeOK
<1>. QED BY <1>1 DEF Taken

LEMMA CompactionTyped ==
  ASSUME TypeOK, NEW b, CompactionEnds(b)
  PROVE  /\ memory' \in Seq(Prompts \cup {"bash"}) /\ tail' \in {"none", "input"} \cup Ends
         /\ timers' \in [Timers -> Nat]
<1>1. CASE UNCHANGED <<memory, tail, timers>>
  BY <1>1 DEF TypeOK
<1>2. CASE /\ memory' = file
           /\ tail' = IF b /\ fileTail \in Errors THEN "input" ELSE fileTail
           /\ timers' = IF b THEN [timers EXCEPT !["recover"] = @ + 1] ELSE timers
  <2>1. [timers EXCEPT !["recover"] = @ + 1] \in [Timers -> Nat]
    BY DEF TypeOK, Timers
  <2>. QED BY <1>2, <2>1 DEF TypeOK
<1>. QED BY <1>1, <1>2 DEF CompactionEnds

LEMMA StopTyped ==
  ASSUME TypeOK, HandlerBusy, StopRetry
  PROVE  /\ retrying' \in BOOLEAN /\ st' \in [Prompts -> Stages] /\ owed' \in [Prompts -> Nat]
         /\ attempt' \in 0..MaxRetries /\ events' \in Seq(Events)
         /\ handler' \in {"free", "sleeping", "compacting", "recovering"}
<1>1. retrying' \in BOOLEAN
  BY DEF StopRetry
<1>2. st' \in [Prompts -> Stages] /\ owed' \in [Prompts -> Nat]
  BY DebtsTyped DEF StopRetry
<1>3. attempt' \in 0..MaxRetries
  BY ConstantsOK DEF StopRetry, TypeOK
<1>4. CASE handler = "sleeping"
  <2>1. Taken /\ events # <<>>
    BY <1>4 DEF StopRetry, HandlerBusy
  <2>. QED BY <1>1, <1>2, <1>3, <2>1, TakenTyped
<1>5. CASE handler # "sleeping"
  <2>1. UNCHANGED <<events, handler>>
    BY <1>5 DEF StopRetry, queueVars
  <2>. QED BY <1>1, <1>2, <1>3, <2>1 DEF TypeOK
<1>. QED BY <1>4, <1>5

LEMMA CallTypes ==
  ASSUME TypeOK, NEW p \in Prompts, PromptBegins(p) \/ Caller(p)
  PROVE  TypeOK'
<1>. USE DEF TypeOK, Stages, callVars, runVars, fileVars, queueVars, retryVars, restVars
<1>1. CASE PromptBegins(p)
  <2>1. pending \in Seq({"bash"}) /\ <<>> \in Seq({"bash"})
    OBVIOUS
  <2>2. st' \in [Prompts -> Stages] /\ pending' \in Seq({"bash"})
    BY <1>1, <2>1 DEF PromptBegins
  <2>3. CASE streaming
    BY <1>1, <2>2, <2>3 DEF PromptBegins
  <2>4. CASE ~streaming
    <3>1. Record(pending)
      BY <1>1, <2>4 DEF PromptBegins
    <3>2. /\ memory' \in Seq(Prompts \cup {"bash"}) /\ file' \in Seq(Prompts \cup {"bash"})
          /\ tail' \in {"none", "input"} \cup Ends /\ fileTail' \in {"none", "input"} \cup Ends
      BY <2>1, <3>1, RecordTyped
    <3>. QED BY <1>1, <2>2, <3>2 DEF PromptBegins
  <2>. QED BY <2>3, <2>4
<1>2. CASE PromptStops(p)
  BY <1>2 DEF PromptStops
<1>3. CASE PromptChecks(p)
  BY <1>3 DEF PromptChecks
<1>4. CASE PromptRecovers(p)
  BY <1>4, DroppedTyped DEF PromptRecovers
<1>5. CASE PromptCompacts(p)
  <2>1. PICK b \in {st[p] = "recovering"} : CompactionEnds(b)
    BY <1>5 DEF PromptCompacts
  <2>2. /\ memory' \in Seq(Prompts \cup {"bash"}) /\ tail' \in {"none", "input"} \cup Ends
        /\ timers' \in [Timers -> Nat]
    BY <2>1, CompactionTyped
  <2>. QED BY <1>5, <2>2 DEF PromptCompacts
<1>6. CASE PromptRuns(p)
  <2>1. CASE streaming
    BY <1>6, <2>1 DEF PromptRuns
  <2>2. CASE ~streaming
    <3>1. memory' \in Seq(Prompts \cup {"bash"})
      <4>1. p \in Prompts \cup {"bash"} /\ memory \in Seq(Prompts \cup {"bash"})
        OBVIOUS
      <4>2. memory' = Append(memory, p)
        BY <1>6, <2>2 DEF PromptRuns
      <4>. QED BY <4>1, <4>2, AppendProperties
    <3>2. events' \in Seq(Events)
      <4>1. <<UserEvent(p)>> \in Seq(Events)
        BY EventIs
      <4>2. Emit(<<UserEvent(p)>>)
        BY <1>6, <2>2 DEF PromptRuns
      <4>. QED BY <4>1, <4>2, EmitTyped
    <3>3. streaming' \in BOOLEAN /\ signal' \in BOOLEAN
      BY <1>6, <2>2 DEF PromptRuns, StartRun
    <3>4. unheard' \subseteq Prompts
      BY <1>6, <2>2 DEF PromptRuns
    <3>. QED BY <1>6, <2>2, <3>1, <3>2, <3>3, <3>4 DEF PromptRuns
  <2>. QED BY <2>1, <2>2
<1>7. CASE PromptAwaits(p)
  BY <1>7, LenProperties DEF PromptAwaits
<1>8. CASE PromptReturns(p)
  BY <1>8 DEF PromptReturns
<1>. QED BY <1>1, <1>2, <1>3, <1>4, <1>5, <1>6, <1>7, <1>8 DEF Caller

LEMMA HandlerTypes ==
  ASSUME TypeOK, HandlerBusy, Handler
  PROVE  TypeOK'
<1>. USE DEF TypeOK, Stages, callVars, runVars, fileVars, queueVars, retryVars, restVars
<1>0. /\ OneLess(owed) \in [Prompts -> Nat] /\ ResumedOwing \in [Prompts -> Nat]
      /\ OneLess(ResumedOwing) \in [Prompts -> Nat] /\ Resumed \in [Prompts -> Stages]
  BY DebtsTyped
<1>1. \A k : Processing(k) => events # <<>> /\ Head(events) \in Events /\ Head(events).kind = k
  BY TailIs DEF Processing
<1>2. \A b \in BOOLEAN : CompactionEnds(b) =>
        /\ memory' \in Seq(Prompts \cup {"bash"}) /\ tail' \in {"none", "input"} \cup Ends
        /\ timers' \in [Timers -> Nat]
  BY CompactionTyped
<1>3. events # <<>> /\ Taken =>
        events' \in Seq(Events) /\ handler' \in {"free", "sleeping", "compacting", "recovering"}
  BY TakenTyped
<1>4. handler # "free" => events # <<>>
  BY DEF HandlerBusy
<1>5. 0 \in 0..MaxRetries
  BY ConstantsOK
<1>6. CASE UserProcessed
  <2>1. Head(events).by \in Prompts \cup {"bash"}
    BY <1>1, <1>6, EventShape DEF UserProcessed
  <2>2. file' \in Seq(Prompts \cup {"bash"})
    <3>1. file \in Seq(Prompts \cup {"bash"}) /\ file' = Append(file, Head(events).by)
      BY <1>6 DEF UserProcessed
    <3>. QED BY <2>1, <3>1, AppendProperties
  <2>. QED BY <1>0, <1>1, <1>3, <1>6, <2>2 DEF UserProcessed
<1>7. CASE ReplyProcessed
  <2>. DEFINE o == Head(events).outcome
              over == o \notin Errors /\ attempt > 0
  <2>1. o \in Ends \cup {"turn"}
    BY <1>1, <1>7, EventShape DEF ReplyProcessed
  <2>2. /\ fileTail' = IF o = "turn" THEN "input" ELSE o
        /\ recovered' = (recovered /\ o \in Errors)
        /\ attempt' = IF over THEN 0 ELSE attempt
        /\ retrying' = (retrying /\ ~over)
        /\ st' = IF over THEN Resumed ELSE st
        /\ owed' = OneLess(IF over THEN ResumedOwing ELSE owed)
    BY <1>7 DEF ReplyProcessed
  <2>. HIDE DEF o, over
  <2>3. recovered' \in BOOLEAN /\ retrying' \in BOOLEAN
    BY <2>2
  <2>4. fileTail' \in {"none", "input"} \cup Ends
    BY <2>1, <2>2
  <2>5. attempt' \in 0..MaxRetries /\ st' \in [Prompts -> Stages] /\ owed' \in [Prompts -> Nat]
    BY <1>0, <1>5, <2>2
  <2>. QED BY <1>1, <1>3, <1>7, <2>3, <2>4, <2>5 DEF ReplyProcessed
<1>8. CASE EndRetries
  <2>1. attempt' \in 0..MaxRetries
    BY <1>8, ConstantsOK DEF EndRetries
  <2>. QED BY <1>8, <2>1, DroppedTyped DEF EndRetries
<1>9. CASE SleepEnds
  <2>1. timers' \in [Timers -> Nat]
    BY <1>9 DEF SleepEnds, Timers
  <2>. QED BY <1>0, <1>3, <1>4, <1>9, <2>1 DEF SleepEnds
<1>10. CASE EndGivesUp
  BY <1>0, <1>1, <1>3, <1>5, <1>10 DEF EndGivesUp
<1>11. CASE EndRecovers
  BY <1>11, DroppedTyped DEF EndRecovers
<1>12. CASE EndCompacts
  BY <1>12 DEF EndCompacts
<1>13. CASE HandlerCompacts
  <2>1. PICK b \in {handler = "recovering"} : CompactionEnds(b)
    BY <1>13 DEF HandlerCompacts
  <2>2. b \in BOOLEAN
    BY <2>1
  <2>. QED BY <1>0, <1>2, <1>3, <1>4, <1>13, <2>1, <2>2 DEF HandlerCompacts
<1>14. CASE EndIgnored
  BY <1>0, <1>1, <1>3, <1>14 DEF EndIgnored
<1>. QED BY <1>6, <1>7, <1>8, <1>9, <1>10, <1>11, <1>12, <1>13, <1>14 DEF Handler

LEMMA OtherTypes ==
  ASSUME TypeOK, HandlerBusy, Run \/ Abort \/ BashEnds \/ Compacting
  PROVE  TypeOK'
<1>. USE DEF TypeOK, Stages, callVars, runVars, fileVars, queueVars, retryVars, restVars
<1>1. CASE RunTurns
  <2>1. <<ReplyEvent("turn")>> \in Seq(Events) /\ Emit(<<ReplyEvent("turn")>>)
    BY <1>1, EventIs DEF RunTurns
  <2>2. events' \in Seq(Events)
    BY <2>1, EmitTyped
  <2>3. turns' \in 0..MaxTurns
    BY <1>1, ConstantsOK DEF RunTurns
  <2>. QED BY <1>1, <2>2, <2>3 DEF RunTurns
<1>2. CASE \E o \in Outcomes : RunEnds(o)
  <2>1. PICK o \in Outcomes : RunEnds(o)
    BY <1>2
  <2>2. o \in Ends
    BY OutcomesAreEnds
  <2>3. <<ReplyEvent(o), EndEvent(o)>> \in Seq(Events) /\ Emit(<<ReplyEvent(o), EndEvent(o)>>)
    <3>1. ReplyEvent(o) \in Events /\ EndEvent(o) \in Events
      BY <2>2, EventIs
    <3>. QED BY <2>1, <3>1 DEF RunEnds
  <2>4. events' \in Seq(Events)
    BY <2>3, EmitTyped
  <2>5. st' \in [Prompts -> Stages]
    BY <2>1 DEF RunEnds
  <2>6. streaming' \in BOOLEAN /\ signal' \in BOOLEAN /\ retrying' \in BOOLEAN
    BY <2>1 DEF RunEnds
  <2>. QED BY <2>1, <2>2, <2>4, <2>5, <2>6 DEF RunEnds
<1>3. CASE \E t \in Timers : TimerFires(t)
  <2>1. PICK t \in Timers : TimerFires(t)
    BY <1>3
  <2>2. timers' \in [Timers -> Nat]
    BY <2>1 DEF TimerFires
  <2>3. streaming' \in BOOLEAN /\ signal' \in BOOLEAN
    BY <2>1 DEF TimerFires, StartRun
  <2>. QED BY <2>1, <2>2, <2>3 DEF TimerFires
<1>4. ASSUME StopRetry
      PROVE  /\ retrying' \in BOOLEAN /\ st' \in [Prompts -> Stages] /\ owed' \in [Prompts -> Nat]
             /\ attempt' \in 0..MaxRetries /\ events' \in Seq(Events)
             /\ handler' \in {"free", "sleeping", "compacting", "recovering"}
  BY <1>4, StopTyped
<1>5. CASE Abort
  <2>1. signal' \in BOOLEAN
    BY <1>5 DEF Abort
  <2>2. did' \subseteq Extras
    BY <1>5 DEF Abort, Extras
  <2>. QED BY <1>4, <1>5, <2>1, <2>2 DEF Abort
<1>6. CASE BashEnds
  <2>1. <<"bash">> \in Seq({"bash"}) /\ "bash" \in {"bash"}
    OBVIOUS
  <2>2. did' \subseteq Extras
    BY <1>6 DEF BashEnds, Extras
  <2>3. CASE streaming
    <3>1. pending \in Seq({"bash"}) /\ pending' = Append(pending, "bash")
      BY <1>6, <2>3 DEF BashEnds
    <3>2. pending' \in Seq({"bash"})
      BY <2>1, <3>1, AppendProperties
    <3>. QED BY <1>6, <2>2, <2>3, <3>2 DEF BashEnds
  <2>4. CASE ~streaming
    <3>1. Record(<<"bash">>)
      BY <1>6, <2>4 DEF BashEnds
    <3>2. /\ memory' \in Seq(Prompts \cup {"bash"}) /\ file' \in Seq(Prompts \cup {"bash"})
          /\ tail' \in {"none", "input"} \cup Ends /\ fileTail' \in {"none", "input"} \cup Ends
      BY <2>1, <3>1, RecordTyped
    <3>. QED BY <1>6, <2>2, <2>4, <3>2 DEF BashEnds
  <2>. QED BY <2>3, <2>4
<1>7. CASE CompactBegins
  <2>1. signal' \in BOOLEAN
    BY <1>7 DEF CompactBegins
  <2>2. did' \subseteq Extras
    BY <1>7 DEF CompactBegins, Extras
  <2>. QED BY <1>4, <1>7, <2>1, <2>2 DEF CompactBegins
<1>8. CASE CompactStopped
  BY <1>8 DEF CompactStopped
<1>9. CASE CompactEnds
  BY <1>9 DEF CompactEnds
<1>. QED BY <1>1, <1>2, <1>3, <1>5, <1>6, <1>7, <1>8, <1>9 DEF Run, Compacting

LEMMA TypeStep ==
  ASSUME IInv, [Next]_vars
  PROVE  TypeOK'
<1>1. CASE UNCHANGED vars
  BY <1>1 DEF IInv, TypeOK, vars, callVars, runVars, fileVars, queueVars, retryVars, restVars
<1>2. CASE Next
  BY <1>2, CallTypes, HandlerTypes, OtherTypes DEF IInv, Next
<1>. QED BY <1>1, <1>2

-----------------------------------------------------------------------------
(* The handler that waits, and those who wait for a retry.                 *)

\* Events are only added behind those that are there.
LEMMA EmitKeeps ==
  ASSUME TypeOK, NEW es \in Seq(Events), Emit(es)
  PROVE  /\ \A i \in DOMAIN events : i \in DOMAIN events' /\ events'[i] = events[i]
         /\ events # <<>> => events' # <<>> /\ Head(events') = Head(events)
         /\ Len(events') >= Len(events)
<1>0. events \in Seq(Events)
  BY DEF TypeOK
<1>1. CASE ~Heard
  <2>1. events' = events /\ Len(events) \in Nat
    BY <1>0, <1>1, LenProperties DEF Emit
  <2>. QED BY <2>1
<1>2. CASE Heard
  <2>1. events' = events \o es
    BY <1>2 DEF Emit
  <2>2. /\ \A i \in DOMAIN events : i \in DOMAIN events' /\ events'[i] = events[i]
        /\ Len(events') >= Len(events) /\ events' \in Seq(Events)
    BY <1>0, <2>1, Joined
  <2>3. ASSUME events # <<>> PROVE events' # <<>> /\ Head(events') = Head(events)
    <3>1. Head(events) = events[1] /\ 1 \in DOMAIN events
      BY <1>0, <2>3, TailIs
    <3>2. 1 \in DOMAIN events' /\ events'[1] = events[1]
      BY <2>2, <3>1
    <3>3. events' # <<>>
      BY <3>2
    <3>. QED BY <2>2, <3>1, <3>2, <3>3, TailIs
  <2>. QED BY <2>2, <2>3
<1>. QED BY <1>1, <1>2

\* What StopRetry does to the queue.
LEMMA StopQueue ==
  ASSUME StopRetry
  PROVE  \/ UNCHANGED <<events, handler>>
         \/ handler = "sleeping" /\ Taken
  BY DEF StopRetry, queueVars

LEMMA BusyStep ==
  ASSUME IInv, [Next]_vars
  PROVE  HandlerBusy'
<1>0. TypeOK /\ HandlerBusy
  BY DEF IInv
<1>1. ASSUME handler' = "free" PROVE HandlerBusy'
  BY <1>1 DEF HandlerBusy
<1>2. ASSUME UNCHANGED <<events, handler>> PROVE HandlerBusy'
  BY <1>0, <1>2 DEF HandlerBusy
<1>3. ASSUME NEW es \in Seq(Events), Emit(es), UNCHANGED handler PROVE HandlerBusy'
  BY <1>0, <1>3, EmitKeeps DEF HandlerBusy
<1>4. ASSUME StopRetry PROVE HandlerBusy'
  BY <1>1, <1>2, <1>4, StopQueue DEF Taken
<1>5. ASSUME NEW p \in Prompts, PromptBegins(p) \/ Caller(p) PROVE HandlerBusy'
  <2>1. CASE PromptRuns(p)
    <3>1. UNCHANGED handler
      BY <2>1 DEF PromptRuns
    <3>2. CASE streaming
      BY <1>2, <2>1, <3>1, <3>2 DEF PromptRuns
    <3>3. CASE ~streaming
      <4>1. Emit(<<UserEvent(p)>>) /\ <<UserEvent(p)>> \in Seq(Events)
        BY <2>1, <3>3, EventIs DEF PromptRuns
      <4>. QED BY <1>3, <3>1, <4>1
    <3>. QED BY <3>2, <3>3
  <2>2. CASE ~PromptRuns(p)
    BY <1>2, <1>5, <2>2 DEF Caller, PromptBegins, PromptStops, PromptChecks, PromptRecovers,
         PromptCompacts, PromptAwaits, PromptReturns, queueVars
  <2>. QED BY <2>1, <2>2
<1>6. ASSUME Handler PROVE HandlerBusy'
  <2>1. CASE EndRetries \/ EndRecovers \/ EndCompacts
    BY <2>1 DEF EndRetries, EndRecovers, EndCompacts, Processing, HandlerBusy
  <2>2. CASE ~(EndRetries \/ EndRecovers \/ EndCompacts)
    BY <1>1, <1>6, <2>2 DEF Handler, UserProcessed, ReplyProcessed, SleepEnds, EndGivesUp,
         HandlerCompacts, EndIgnored, Taken
  <2>. QED BY <2>1, <2>2
<1>7. ASSUME Run PROVE HandlerBusy'
  <2>1. CASE RunTurns
    <3>1. Emit(<<ReplyEvent("turn")>>) /\ <<ReplyEvent("turn")>> \in Seq(Events) /\ UNCHANGED handler
      BY <2>1, EventIs DEF RunTurns
    <3>. QED BY <1>3, <3>1
  <2>2. ASSUME NEW o \in Outcomes, RunEnds(o) PROVE HandlerBusy'
    <3>1. Emit(<<ReplyEvent(o), EndEvent(o)>>) /\ UNCHANGED handler
      BY <2>2 DEF RunEnds
    <3>2. <<ReplyEvent(o), EndEvent(o)>> \in Seq(Events)
      <4>1. ReplyEvent(o) \in Events /\ EndEvent(o) \in Events
        BY OutcomesAreEnds, EventIs
      <4>. QED BY <4>1
    <3>. QED BY <1>3, <3>1, <3>2
  <2>3. ASSUME NEW t \in Timers, TimerFires(t) PROVE HandlerBusy'
    BY <1>2, <2>3 DEF TimerFires, queueVars
  <2>. QED BY <1>7, <2>1, <2>2, <2>3 DEF Run
<1>8. ASSUME Abort \/ CompactBegins PROVE HandlerBusy'
  BY <1>4, <1>8 DEF Abort, CompactBegins
<1>9. ASSUME BashEnds \/ CompactStopped \/ CompactEnds \/ UNCHANGED vars PROVE HandlerBusy'
  BY <1>2, <1>9 DEF BashEnds, CompactStopped, CompactEnds, vars, queueVars
<1>. QED BY <1>5, <1>6, <1>7, <1>8, <1>9 DEF Next, Compacting

\* Nobody is left waiting once the retry is resolved, ...
LEMMA ResumedLeaves ==
  ASSUME st' = Resumed, NEW p \in Prompts
  PROVE  st'[p] # "retrying"
  BY DEF Resumed

\* ... and only a pending retry is waited for.
LEMMA WaitersStep ==
  ASSUME IInv, [Next]_vars
  PROVE  WaitersHeld'
<1>0. TypeOK /\ WaitersHeld
  BY DEF IInv
<1>1. ASSUME st' = Resumed PROVE WaitersHeld'
  BY <1>1, ResumedLeaves DEF WaitersHeld
<1>2. ASSUME retrying => retrying', \A p \in Prompts : st'[p] = "retrying" => st[p] = "retrying"
      PROVE  WaitersHeld'
  BY <1>0, <1>2 DEF WaitersHeld
<1>3. ASSUME NEW p \in Prompts, PromptBegins(p) \/ Caller(p) PROVE WaitersHeld'
  <2>1. CASE PromptAwaits(p)
    BY <1>0, <2>1 DEF PromptAwaits, WaitersHeld, TypeOK, retryVars
  <2>2. CASE ~PromptAwaits(p)
    <3>1. UNCHANGED retrying
      BY <1>3, <2>2 DEF Caller, PromptBegins, PromptStops, PromptChecks, PromptRecovers,
           PromptCompacts, PromptRuns, PromptReturns, retryVars
    <3>2. \E s : s # "retrying" /\ st' = [st EXCEPT ![p] = s]
      BY <1>3, <2>2 DEF Caller, PromptBegins, PromptStops, PromptChecks, PromptRecovers,
           PromptCompacts, PromptRuns, PromptReturns
    <3>3. \A q \in Prompts : st'[q] = "retrying" => st[q] = "retrying"
      BY <1>0, <3>2 DEF TypeOK
    <3>. QED BY <1>2, <3>1, <3>3
  <2>. QED BY <2>1, <2>2
<1>4. ASSUME Handler PROVE WaitersHeld'
  <2>1. CASE EndGivesUp
    BY <1>1, <2>1 DEF EndGivesUp
  <2>2. CASE ReplyProcessed
    <3>1. st' = Resumed \/ (st' = st /\ retrying' = retrying)
      BY <1>0, <2>2 DEF ReplyProcessed, TypeOK
    <3>. QED BY <1>1, <1>2, <3>1
  <2>3. CASE ~(EndGivesUp \/ ReplyProcessed)
    <3>1. st' = st /\ (retrying => retrying')
      BY <1>4, <2>3 DEF Handler, UserProcessed, EndRetries, SleepEnds, EndRecovers, EndCompacts,
           HandlerCompacts, EndIgnored, callVars, retryVars
    <3>. QED BY <1>2, <3>1
  <2>. QED BY <2>1, <2>2, <2>3
<1>5. ASSUME Run PROVE WaitersHeld'
  <2>1. retrying => retrying'
    BY <1>5 DEF Run, RunTurns, RunEnds, TimerFires, retryVars
  <2>2. \A p \in Prompts : st'[p] = "retrying" => st[p] = "retrying"
    BY <1>5 DEF Run, RunTurns, RunEnds, TimerFires, callVars
  <2>. QED BY <1>2, <2>1, <2>2
<1>6. ASSUME Abort \/ CompactBegins PROVE WaitersHeld'
  BY <1>1, <1>6 DEF Abort, CompactBegins, StopRetry
<1>7. ASSUME BashEnds \/ CompactStopped \/ CompactEnds \/ UNCHANGED vars PROVE WaitersHeld'
  BY <1>2, <1>7 DEF BashEnds, CompactStopped, CompactEnds, vars, callVars, retryVars
<1>. QED BY <1>3, <1>4, <1>5, <1>6, <1>7 DEF Next, Compacting

-----------------------------------------------------------------------------
(* What was prompted is written.                                           *)

LEMMA ContainsAppend ==
  ASSUME NEW S, NEW s \in Seq(S), NEW x \in S, NEW y
  PROVE  Contains(Append(s, x), y) <=> Contains(s, y) \/ y = x
<1>1. /\ Len(s) \in Nat /\ Len(Append(s, x)) = Len(s) + 1
      /\ \A i \in 1..Len(s) : Append(s, x)[i] = s[i]
      /\ Append(s, x)[Len(s) + 1] = x
  BY AppendProperties, LenProperties
<1>2. ASSUME Contains(s, y) PROVE Contains(Append(s, x), y)
  <2>1. PICK i \in 1..Len(s) : s[i] = y
    BY <1>2 DEF Contains
  <2>2. i \in 1..Len(Append(s, x)) /\ Append(s, x)[i] = y
    BY <1>1, <2>1
  <2>. QED BY <2>2 DEF Contains
<1>3. Contains(Append(s, x), x)
  <2>1. Len(s) + 1 \in 1..Len(Append(s, x))
    BY <1>1
  <2>. QED BY <1>1, <2>1 DEF Contains
<1>4. ASSUME Contains(Append(s, x), y), y # x PROVE Contains(s, y)
  <2>1. PICK i \in 1..Len(Append(s, x)) : Append(s, x)[i] = y
    BY <1>4 DEF Contains
  <2>2. i \in 1..Len(s) /\ s[i] = y
    BY <1>1, <1>4, <2>1
  <2>. QED BY <2>2 DEF Contains
<1>. QED BY <1>2, <1>3, <1>4

LEMMA ContainsJoined ==
  ASSUME NEW S, NEW s \in Seq(S), NEW t \in Seq(S), NEW y
  PROVE  Contains(s \o t, y) <=> Contains(s, y) \/ Contains(t, y)
<1>. USE Joined DEF Contains
<1>1. ASSUME Contains(s, y) PROVE Contains(s \o t, y)
  <2>1. PICK i \in DOMAIN s : s[i] = y
    BY <1>1
  <2>2. i \in DOMAIN (s \o t) /\ (s \o t)[i] = y
    BY <2>1
  <2>. QED BY <2>2
<1>2. ASSUME Contains(t, y) PROVE Contains(s \o t, y)
  <2>1. PICK i \in DOMAIN t : t[i] = y
    BY <1>2
  <2>2. Len(s) + i \in DOMAIN (s \o t) /\ (s \o t)[Len(s) + i] = y
    BY <2>1
  <2>. QED BY <2>2
<1>3. ASSUME Contains(s \o t, y) PROVE Contains(s, y) \/ Contains(t, y)
  <2>1. PICK i \in DOMAIN (s \o t) : (s \o t)[i] = y
    BY <1>3
  <2>2. CASE i \in DOMAIN s
    BY <2>1, <2>2
  <2>3. CASE \E j \in DOMAIN t : i = Len(s) + j
    <3>1. PICK j \in DOMAIN t : i = Len(s) + j
      BY <2>3
    <3>2. t[j] = y
      BY <2>1, <3>1
    <3>. QED BY <3>1, <3>2
  <2>. QED BY <2>1, <2>2, <2>3
<1>. QED BY <1>1, <1>2, <1>3

\* The file is only written at its end.
LEMMA FileGrows ==
  ASSUME TypeOK, HandlerBusy, [Next]_vars, NEW p \in Prompts, Contains(file, p)
  PROVE  Contains(file', p)
<1>0. file \in Seq(Prompts \cup {"bash"})
  BY DEF TypeOK
<1>1. ASSUME NEW rs \in Seq({"bash"}), Record(rs) PROVE Contains(file', p)
  <2>1. rs \in Seq(Prompts \cup {"bash"})
    <3>1. {"bash"} \subseteq Prompts \cup {"bash"}
      OBVIOUS
    <3>. QED BY <3>1, SeqMonotonic
  <2>. QED BY <1>0, <1>1, <2>1, ContainsJoined DEF Record
<1>2. CASE UserProcessed
  <2>1. Head(events).by \in Prompts \cup {"bash"} /\ file' = Append(file, Head(events).by)
    BY <1>2, TailIs, EventShape DEF UserProcessed, Processing, TypeOK
  <2>. QED BY <1>0, <2>1, ContainsAppend
<1>3. ASSUME NEW q \in Prompts, PromptBegins(q) PROVE Contains(file', p)
  <2>1. UNCHANGED file \/ Record(pending)
    BY <1>3 DEF PromptBegins, fileVars
  <2>. QED BY <1>1, <2>1 DEF TypeOK
<1>4. CASE BashEnds
  <2>1. UNCHANGED file \/ Record(<<"bash">>)
    BY <1>4 DEF BashEnds, fileVars
  <2>2. <<"bash">> \in Seq({"bash"})
    OBVIOUS
  <2>. QED BY <1>1, <2>1, <2>2
<1>5. ASSUME NEW q \in Prompts, Caller(q) PROVE UNCHANGED file
  BY <1>5 DEF Caller, PromptStops, PromptChecks, PromptRecovers, PromptCompacts, PromptRuns,
       PromptAwaits, PromptReturns, fileVars
<1>6. Handler /\ ~UserProcessed => UNCHANGED file
  BY DEF Handler, ReplyProcessed, EndRetries, SleepEnds, EndGivesUp, EndRecovers, EndCompacts,
       HandlerCompacts, EndIgnored, fileVars
<1>7. Run \/ Abort \/ Compacting \/ UNCHANGED vars => UNCHANGED file
  BY DEF Run, RunTurns, RunEnds, TimerFires, Abort, Compacting, CompactBegins, CompactStopped,
       CompactEnds, vars, fileVars
<1>. QED BY <1>2, <1>3, <1>4, <1>5, <1>6, <1>7 DEF Next

\* The clause of Awaited for one prompt.
Due(p) ==
  \/ Contains(file, p)
  \/ /\ st[p] # "done"
     /\ \E i \in DOMAIN events : events[i] = UserEvent(p) /\ (st[p] = "draining" => i <= owed[p])

LEMMA AwaitedIsDue ==
  Awaited <=> \A p \in Prompts : (InFlight(p) \/ st[p] = "done") /\ p \notin unheard => Due(p)
  BY DEF Awaited, Due

\* Events stay where they are and calls wait for as many of them.
LEMMA DueKept ==
  ASSUME TypeOK, NEW p \in Prompts, Due(p), st'[p] # "done",
         Contains(file, p) => Contains(file', p),
         \A i \in DOMAIN events : i \in DOMAIN events' /\ events'[i] = events[i],
         st'[p] = "draining" =>
           (st[p] = "draining" /\ owed'[p] = owed[p]) \/ owed'[p] = Len(events)
  PROVE  Due(p)'
<1>1. CASE Contains(file, p)
  BY <1>1 DEF Due
<1>2. CASE ~Contains(file, p)
  <2>1. PICK i \in DOMAIN events : events[i] = UserEvent(p) /\ (st[p] = "draining" => i <= owed[p])
    BY <1>2 DEF Due
  <2>2. i \in DOMAIN events' /\ events'[i] = UserEvent(p) /\ i <= Len(events)
    BY <2>1, LenProperties DEF TypeOK
  <2>3. st'[p] = "draining" => i <= owed'[p]
    BY <2>1, <2>2
  <2>. QED BY <2>2, <2>3 DEF Due
<1>. QED BY <1>1, <1>2

\* The first event is no prompt's; the others move up, and so do the debts.
LEMMA DueMoves ==
  ASSUME TypeOK, NEW p \in Prompts, Due(p), st'[p] # "done",
         Contains(file, p) => Contains(file', p),
         events # <<>>, Head(events) # UserEvent(p), events' = Tail(events),
         NEW d \in [Prompts -> Nat], owed' = OneLess(d),
         st'[p] = "draining" => (st[p] = "draining" /\ d[p] = owed[p]) \/ d[p] = Len(events)
  PROVE  Due(p)'
<1>0. events \in Seq(Events)
  BY DEF TypeOK
<1>1. CASE Contains(file, p)
  BY <1>1 DEF Due
<1>2. CASE ~Contains(file, p)
  <2>1. PICK i \in DOMAIN events : events[i] = UserEvent(p) /\ (st[p] = "draining" => i <= owed[p])
    BY <1>2 DEF Due
  <2>2. i # 1
    BY <1>0, <2>1, TailIs
  <2>3. /\ i - 1 \in DOMAIN events' /\ events'[i - 1] = UserEvent(p)
        /\ i \in 1..Len(events) /\ Len(events) \in Nat
    BY <1>0, <2>1, <2>2, TailIs
  <2>4. st'[p] = "draining" => i - 1 <= owed'[p]
    <3>1. owed'[p] = IF d[p] = 0 THEN 0 ELSE d[p] - 1
      BY DEF OneLess
    <3>2. d[p] \in Nat
      OBVIOUS
    <3>3. st'[p] = "draining" => i <= d[p]
      BY <2>1, <2>3
    <3>. QED BY <2>2, <2>3, <3>1, <3>2, <3>3
  <2>. QED BY <2>3, <2>4 DEF Due
<1>. QED BY <1>1, <1>2

\* StopRetry and the handlers that take the event of a reply or of an end.
LEMMA DueResumed ==
  ASSUME TypeOK, NEW p \in Prompts, Due(p), st'[p] # "done",
         Contains(file, p) => Contains(file', p),
         events # <<>>, Head(events).kind # "user", Taken,
         \/ st' = st /\ owed' = OneLess(owed)
         \/ st' = Resumed /\ owed' = OneLess(ResumedOwing)
  PROVE  Due(p)'
<1>1. Head(events) # UserEvent(p) /\ events' = Tail(events)
  BY EventIs DEF Taken
<1>2. owed \in [Prompts -> Nat] /\ ResumedOwing \in [Prompts -> Nat]
  BY DebtsTyped DEF TypeOK
<1>3. CASE st' = st /\ owed' = OneLess(owed)
  <2>1. st'[p] = "draining" => (st[p] = "draining" /\ owed[p] = owed[p])
    BY <1>3
  <2>. QED BY <1>1, <1>2, <1>3, <2>1, DueMoves
<1>4. CASE st' = Resumed /\ owed' = OneLess(ResumedOwing)
  <2>. DEFINE d == ResumedOwing
  <2>1. st'[p] = "draining" => (st[p] = "draining" /\ d[p] = owed[p]) \/ d[p] = Len(events)
    BY <1>4 DEF Resumed, ResumedOwing
  <2>2. d \in [Prompts -> Nat] /\ owed' = OneLess(d)
    BY <1>2, <1>4
  <2>. HIDE DEF d
  <2>. QED BY <1>1, <2>1, <2>2, DueMoves
<1>. QED BY <1>3, <1>4

\* The steps of one call concern it alone.
LEMMA DueOfCall ==
  ASSUME IInv, NEW q \in Prompts, PromptBegins(q) \/ Caller(q), NEW p \in Prompts,
         (InFlight(p) \/ st[p] = "done") /\ p \notin unheard => Due(p),
         Contains(file, p) => Contains(file', p),
         InFlight(p)' \/ st'[p] = "done", p \notin unheard'
  PROVE  Due(p)'
<1>. USE DEF fileVars, queueVars, runVars, restVars, retryVars, callVars
<1>0. TypeOK
  BY DEF IInv
<1>1. CASE PromptRuns(q) /\ ~streaming
  <2>1. Emit(<<UserEvent(q)>>) /\ <<UserEvent(q)>> \in Seq(Events) /\ UNCHANGED <<owed, file>>
        /\ st' = [st EXCEPT ![q] = "running"]
        /\ unheard' = IF Heard THEN unheard ELSE unheard \cup {q}
    BY <1>1, EventIs DEF PromptRuns
  <2>2. CASE p = q
    <3>1. Heard /\ st'[p] = "running"
      BY <1>0, <2>1, <2>2 DEF TypeOK
    <3>2. events' = events \o <<UserEvent(p)>>
      BY <2>1, <2>2, <3>1 DEF Emit
    <3>3. Len(events) + 1 \in DOMAIN events' /\ events'[Len(events) + 1] = UserEvent(p)
      <4>. DEFINE e == UserEvent(p)
      <4>1. e \in Events /\ events \in Seq(Events) /\ events' = events \o <<e>>
        BY <1>0, <3>2, EventIs DEF TypeOK
      <4>. HIDE DEF e
      <4>2. <<e>> \in Seq(Events) /\ 1 \in DOMAIN <<e>> /\ <<e>>[1] = e
        BY <4>1
      <4>3. Len(events) + 1 \in DOMAIN events' /\ events'[Len(events) + 1] = e
        BY <4>1, <4>2, Joined
      <4>. QED BY <4>3 DEF e
    <3>. QED BY <3>1, <3>3 DEF Due
  <2>3. CASE p # q
    <3>1. st'[p] = st[p] /\ p \notin unheard
      BY <1>0, <2>1, <2>3 DEF TypeOK
    <3>2. Due(p)
      BY <3>1 DEF InFlight
    <3>3. CASE st[p] # "done"
      <4>1. \A i \in DOMAIN events : i \in DOMAIN events' /\ events'[i] = events[i]
        BY <1>0, <2>1, EmitKeeps
      <4>. QED BY <1>0, <2>1, <3>1, <3>2, <3>3, <4>1, DueKept
    <3>4. CASE st[p] = "done"
      BY <3>2, <3>4 DEF Due
    <3>. QED BY <3>3, <3>4
  <2>. QED BY <2>2, <2>3
<1>2. CASE ~(PromptRuns(q) /\ ~streaming)
  <2>1. UNCHANGED <<events, unheard>>
    BY <1>2 DEF Caller, PromptBegins, PromptStops, PromptChecks, PromptRecovers,
       PromptCompacts, PromptRuns, PromptAwaits, PromptReturns
  <2>2. CASE PromptAwaits(q)
    <3>0. /\ st' = [st EXCEPT ![q] = IF retrying THEN "retrying" ELSE "draining"]
          /\ owed' = [owed EXCEPT ![q] = IF retrying THEN 0 ELSE Len(events)]
          /\ UNCHANGED file /\ st[q] = "ended"
      BY <2>2 DEF PromptAwaits
    <3>1. InFlight(p) \/ st[p] = "done"
      BY <1>0, <3>0 DEF InFlight, TypeOK
    <3>2. Due(p)
      BY <2>1, <3>1
    <3>3. CASE st'[p] = "done"
      BY <1>0, <3>0, <3>2, <3>3 DEF Due, TypeOK
    <3>4. CASE st'[p] # "done"
      <4>1. st'[p] = "draining" => (st[p] = "draining" /\ owed'[p] = owed[p]) \/ owed'[p] = Len(events)
        BY <1>0, <3>0 DEF TypeOK
      <4>. QED BY <1>0, <2>1, <3>2, <3>4, <4>1, DueKept
    <3>. QED BY <3>3, <3>4
  <2>3. CASE PromptReturns(q)
    <3>0. st[q] = "draining" /\ owed[q] = 0 /\ UNCHANGED <<owed, file>>
          /\ \E s \in {"done", "failed"} : st' = [st EXCEPT ![q] = s]
      BY <2>3 DEF PromptReturns
    <3>1. InFlight(p) \/ st[p] = "done"
      BY <1>0, <3>0 DEF InFlight, TypeOK
    <3>2. Due(p)
      BY <2>1, <3>1
    <3>3. CASE p = q
      <4>1. \A i \in DOMAIN events : ~(i <= 0)
        BY <1>0, LenProperties DEF TypeOK
      <4>2. Contains(file, p)
        BY <3>0, <3>2, <3>3, <4>1 DEF Due
      <4>. QED BY <3>0, <4>2 DEF Due
    <3>4. CASE p # q
      <4>1. st'[p] = st[p]
        BY <1>0, <3>0, <3>4 DEF TypeOK
      <4>. QED BY <2>1, <3>0, <3>2, <4>1 DEF Due
    <3>. QED BY <3>3, <3>4
  <2>4. CASE ~(PromptAwaits(q) \/ PromptReturns(q))
    <3>0. /\ UNCHANGED owed
          /\ \E s : st' = [st EXCEPT ![q] = s] /\ s \in {"failed", "checking", "ready", "compacting", "recovering"}
      BY <1>2, <2>4 DEF Caller, PromptBegins, PromptStops, PromptChecks, PromptRecovers,
           PromptCompacts, PromptRuns
    <3>1. p # q /\ st'[p] = st[p]
      BY <1>0, <3>0 DEF InFlight, TypeOK
    <3>2. Due(p)
      BY <2>1, <3>1 DEF InFlight
    <3>3. CASE st[p] = "done"
      BY <3>2, <3>3 DEF Due
    <3>4. CASE st[p] # "done"
      BY <1>0, <2>1, <3>0, <3>1, <3>2, <3>4, DueKept
    <3>. QED BY <3>3, <3>4
  <2>. QED BY <2>2, <2>3, <2>4
<1>. QED BY <1>1, <1>2

LEMMA DueOfHandler ==
  ASSUME IInv, Handler, NEW p \in Prompts,
         (InFlight(p) \/ st[p] = "done") /\ p \notin unheard => Due(p),
         Contains(file, p) => Contains(file', p),
         InFlight(p)' \/ st'[p] = "done", p \notin unheard'
  PROVE  Due(p)'
<1>. USE DEF fileVars, queueVars, runVars, restVars, retryVars, callVars
<1>0. TypeOK /\ HandlerBusy
  BY DEF IInv
<1>1. unheard' = unheard /\ (st' = st \/ st' = Resumed)
  BY <1>0 DEF Handler, UserProcessed, ReplyProcessed, EndRetries, SleepEnds, EndGivesUp, EndRecovers,
       EndCompacts, HandlerCompacts, EndIgnored
<1>2. (st'[p] = "done" <=> st[p] = "done") /\ (InFlight(p) \/ st[p] = "done")
  BY <1>1 DEF Resumed, InFlight
<1>3. Due(p)
  BY <1>1, <1>2
<1>4. CASE st'[p] = "done"
  BY <1>2, <1>3, <1>4 DEF Due
<1>5. CASE st'[p] # "done"
  <2>1. CASE EndRetries \/ EndRecovers \/ EndCompacts
    <3>1. UNCHANGED <<st, owed, events>>
      BY <2>1 DEF EndRetries, EndRecovers, EndCompacts
    <3>. QED BY <1>0, <1>3, <1>5, <3>1, DueKept
  <2>2. CASE UserProcessed
    <3>1. /\ events # <<>> /\ Head(events).kind = "user" /\ events' = Tail(events)
          /\ file' = Append(file, Head(events).by) /\ owed' = OneLess(owed) /\ st' = st
      BY <2>2 DEF UserProcessed, Processing, Taken
    <3>2. CASE Head(events) = UserEvent(p)
      <4>1. file \in Seq(Prompts \cup {"bash"}) /\ p \in Prompts \cup {"bash"} /\ file' = Append(file, p)
        BY <1>0, <3>1, <3>2, EventIs DEF TypeOK
      <4>2. Contains(file', p)
        BY <4>1, ContainsAppend
      <4>. QED BY <4>2 DEF Due
    <3>3. CASE Head(events) # UserEvent(p)
      <4>1. owed \in [Prompts -> Nat]
        BY <1>0 DEF TypeOK
      <4>. QED BY <1>0, <1>3, <1>5, <3>1, <3>3, <4>1, DueMoves
    <3>. QED BY <3>2, <3>3
  <2>3. CASE ~(EndRetries \/ EndRecovers \/ EndCompacts \/ UserProcessed)
    <3>1. /\ events # <<>> /\ Head(events).kind # "user" /\ Taken
          /\ \/ st' = st /\ owed' = OneLess(owed)
             \/ st' = Resumed /\ owed' = OneLess(ResumedOwing)
      <4>1. CASE ReplyProcessed
        <5>1. \/ st' = st /\ owed' = OneLess(owed)
              \/ st' = Resumed /\ owed' = OneLess(ResumedOwing)
          BY <4>1 DEF ReplyProcessed
        <5>2. events # <<>> /\ Head(events).kind # "user" /\ Taken
          BY <4>1 DEF ReplyProcessed, Processing
        <5>. QED BY <5>1, <5>2
      <4>2. CASE EndGivesUp \/ EndIgnored
        BY <4>2 DEF EndGivesUp, EndIgnored, Processing
      <4>3. CASE SleepEnds \/ HandlerCompacts
        BY <1>0, <4>3 DEF SleepEnds, HandlerCompacts, HandlerBusy
      <4>. QED BY <2>3, <4>1, <4>2, <4>3 DEF Handler
    <3>. QED BY <1>0, <1>3, <1>5, <3>1, DueResumed
  <2>. QED BY <2>1, <2>2, <2>3
<1>. QED BY <1>4, <1>5

LEMMA DueOfOthers ==
  ASSUME IInv, Run \/ Abort \/ BashEnds \/ Compacting \/ UNCHANGED vars, NEW p \in Prompts,
         (InFlight(p) \/ st[p] = "done") /\ p \notin unheard => Due(p),
         Contains(file, p) => Contains(file', p),
         InFlight(p)' \/ st'[p] = "done", p \notin unheard'
  PROVE  Due(p)'
<1>. USE DEF fileVars, queueVars, runVars, restVars, retryVars, callVars
<1>0. TypeOK /\ HandlerBusy
  BY DEF IInv
<1>1. ASSUME st'[p] = st[p] \/ (st[p] = "running" /\ st'[p] = "ended"), owed' = owed, unheard' = unheard,
             \A i \in DOMAIN events : i \in DOMAIN events' /\ events'[i] = events[i]
      PROVE  Due(p)'
  <2>1. Due(p)
    BY <1>1 DEF InFlight
  <2>2. CASE st[p] = "done"
    BY <1>1, <2>1, <2>2 DEF Due
  <2>3. CASE st[p] # "done"
    BY <1>0, <1>1, <2>1, <2>3, DueKept
  <2>. QED BY <2>2, <2>3
<1>2. ASSUME StopRetry, unheard' = unheard PROVE Due(p)'
  <2>0. st' = Resumed
    BY <1>2 DEF StopRetry
  <2>1. (st'[p] = "done" <=> st[p] = "done") /\ (InFlight(p) \/ st[p] = "done")
    BY <2>0 DEF Resumed, InFlight
  <2>2. Due(p)
    BY <1>2, <2>1
  <2>3. CASE st[p] = "done"
    BY <2>1, <2>2, <2>3 DEF Due
  <2>4. CASE st[p] # "done" /\ handler = "sleeping"
    <3>1. Taken /\ events # <<>> /\ Head(events).kind # "user" /\ owed' = OneLess(ResumedOwing)
      BY <1>0, <1>2, <2>4 DEF StopRetry, HandlerBusy
    <3>. QED BY <1>0, <2>0, <2>1, <2>2, <2>4, <3>1, DueResumed
  <2>5. CASE st[p] # "done" /\ handler # "sleeping"
    <3>1. owed' = ResumedOwing /\ events' = events
      BY <1>2, <2>5 DEF StopRetry
    <3>2. st'[p] = "draining" => (st[p] = "draining" /\ owed'[p] = owed[p]) \/ owed'[p] = Len(events)
      BY <2>0, <3>1 DEF Resumed, ResumedOwing
    <3>. QED BY <1>0, <2>1, <2>2, <2>5, <3>1, <3>2, DueKept
  <2>. QED BY <2>3, <2>4, <2>5
<1>3. CASE RunTurns
  <2>1. Emit(<<ReplyEvent("turn")>>) /\ <<ReplyEvent("turn")>> \in Seq(Events)
    BY <1>3, EventIs DEF RunTurns
  <2>2. \A i \in DOMAIN events : i \in DOMAIN events' /\ events'[i] = events[i]
    BY <1>0, <2>1, EmitKeeps
  <2>. QED BY <1>1, <1>3, <2>2 DEF RunTurns
<1>4. ASSUME NEW o \in Outcomes, RunEnds(o) PROVE Due(p)'
  <2>1. Emit(<<ReplyEvent(o), EndEvent(o)>>) /\ unheard' = unheard /\ owed' = owed
        /\ (st'[p] = st[p] \/ (st[p] = "running" /\ st'[p] = "ended"))
    BY <1>4 DEF RunEnds
  <2>2. <<ReplyEvent(o), EndEvent(o)>> \in Seq(Events)
    <3>1. ReplyEvent(o) \in Events /\ EndEvent(o) \in Events
      BY OutcomesAreEnds, EventIs
    <3>. QED BY <3>1
  <2>3. \A i \in DOMAIN events : i \in DOMAIN events' /\ events'[i] = events[i]
    BY <1>0, <2>1, <2>2, EmitKeeps
  <2>. QED BY <1>1, <2>1, <2>3
<1>5. ASSUME NEW t \in Timers, TimerFires(t) PROVE Due(p)'
  BY <1>1, <1>5 DEF TimerFires
<1>6. ASSUME Abort \/ CompactBegins PROVE Due(p)'
  BY <1>2, <1>6 DEF Abort, CompactBegins
<1>7. ASSUME BashEnds \/ CompactStopped \/ CompactEnds \/ UNCHANGED vars PROVE Due(p)'
  BY <1>1, <1>7 DEF BashEnds, CompactStopped, CompactEnds, vars
<1>. QED BY <1>3, <1>4, <1>5, <1>6, <1>7 DEF Run, Compacting

LEMMA AwaitedStep ==
  ASSUME IInv, [Next]_vars
  PROVE  Awaited'
<1>0. TypeOK /\ HandlerBusy
  BY DEF IInv
<1>1. ASSUME NEW p \in Prompts, InFlight(p)' \/ st'[p] = "done", p \notin unheard'
      PROVE  Due(p)'
  <2>1. Contains(file, p) => Contains(file', p)
    BY <1>0, FileGrows
  <2>2. (InFlight(p) \/ st[p] = "done") /\ p \notin unheard => Due(p)
    BY AwaitedIsDue DEF IInv
  <2>3. CASE \E q \in Prompts : PromptBegins(q) \/ Caller(q)
    BY <1>1, <2>1, <2>2, <2>3, DueOfCall
  <2>4. CASE Handler
    BY <1>1, <2>1, <2>2, <2>4, DueOfHandler
  <2>5. CASE Run \/ Abort \/ BashEnds \/ Compacting \/ UNCHANGED vars
    BY <1>1, <2>1, <2>2, <2>5, DueOfOthers
  <2>. QED BY <2>3, <2>4, <2>5 DEF Next
<1>. QED BY <1>1 DEF Awaited, Due, InFlight

-----------------------------------------------------------------------------
(* A session that is undisturbed: the events of a run.                     *)

\* No message of a prompt is among these events.
NoUser(q) == \A i \in 1..Len(q) : q[i].kind # "user"

LEMMA FirstTaken ==
  ASSUME NEW q \in FirstEvents, q # <<>>
  PROVE  Head(q).kind = "user" /\ Tail(q) = <<>>
<1>1. PICK p \in Prompts : q = <<UserEvent(p)>>
  BY DEF FirstEvents
<1>. DEFINE e == UserEvent(p)
<1>2. e.kind = "user" /\ q = <<e>>
  BY <1>1, EventIs
<1>. HIDE DEF e
<1>3. Head(<<e>>) = e /\ Tail(<<e>>) = <<>>
  OBVIOUS
<1>. QED BY <1>2, <1>3

LEMMA RunTaken ==
  ASSUME NEW o \in Ends, NEW q \in RunEvents(o), q # <<>>
  PROVE  /\ Tail(q) \in RunEvents(o)
         /\ Head(q).kind \in {"user", "reply", "end"}
         /\ Head(q).kind \in {"reply", "end"} => Head(q).outcome = o
         /\ Head(q).kind = "end" => Len(q) = 1 /\ Tail(q) = <<>>
         /\ NoUser(Tail(q))
<1>. DEFINE r == ReplyEvent(o)
            e == EndEvent(o)
<1>0. r.kind = "reply" /\ r.outcome = o /\ e.kind = "end" /\ e.outcome = o
  BY EventIs
<1>1. CASE q = <<EndEvent(o)>>
  <2>1. q = <<e>> /\ <<>> \in RunEvents(o)
    BY <1>1 DEF RunEvents
  <2>. HIDE DEF e
  <2>2. Head(<<e>>) = e /\ Tail(<<e>>) = <<>> /\ Len(<<e>>) = 1
    OBVIOUS
  <2>3. NoUser(Tail(q))
    BY <2>1, <2>2 DEF NoUser
  <2>. QED BY <1>0, <2>1, <2>2, <2>3
<1>2. CASE q = <<ReplyEvent(o), EndEvent(o)>>
  <2>1. q = <<r, e>> /\ <<e>> \in RunEvents(o)
    BY <1>2 DEF RunEvents
  <2>. HIDE DEF e, r
  <2>2. Head(<<r, e>>) = r /\ Tail(<<r, e>>) = <<e>> /\ Len(<<e>>) = 1 /\ <<e>>[1] = e
    OBVIOUS
  <2>3. NoUser(Tail(q))
    BY <1>0, <2>1, <2>2 DEF NoUser
  <2>. QED BY <1>0, <2>1, <2>2, <2>3
<1>3. CASE \E p \in Prompts : q = <<UserEvent(p), ReplyEvent(o), EndEvent(o)>>
  <2>. PICK p \in Prompts : q = <<UserEvent(p), ReplyEvent(o), EndEvent(o)>>
    BY <1>3
  <2>. DEFINE u == UserEvent(p)
  <2>1. q = <<u, r, e>> /\ <<r, e>> \in RunEvents(o) /\ u.kind = "user"
    BY EventIs DEF RunEvents
  <2>. HIDE DEF e, r, u
  <2>2. /\ Head(<<u, r, e>>) = u /\ Tail(<<u, r, e>>) = <<r, e>>
        /\ Len(<<r, e>>) = 2 /\ <<r, e>>[1] = r /\ <<r, e>>[2] = e
    OBVIOUS
  <2>3. NoUser(Tail(q))
    BY <1>0, <2>1, <2>2 DEF NoUser
  <2>. QED BY <2>1, <2>2, <2>3
<1>. QED BY <1>1, <1>2, <1>3 DEF RunEvents

LEMMA RunFollows ==
  ASSUME NEW q \in FirstEvents, NEW o \in Ends
  PROVE  q \o <<ReplyEvent(o), EndEvent(o)>> \in RunEvents(o)
<1>. DEFINE r == ReplyEvent(o)
            e == EndEvent(o)
<1>1. CASE q = <<>>
  <2>1. <<r, e>> \in RunEvents(o)
    BY DEF RunEvents
  <2>. HIDE DEF e, r
  <2>2. <<>> \o <<r, e>> = <<r, e>>
    OBVIOUS
  <2>3. q \o <<r, e>> \in RunEvents(o)
    BY <1>1, <2>1, <2>2
  <2>. QED BY <2>3 DEF r, e
<1>2. CASE \E p \in Prompts : q = <<UserEvent(p)>>
  <2>. PICK p \in Prompts : q = <<UserEvent(p)>>
    BY <1>2
  <2>. DEFINE u == UserEvent(p)
  <2>1. <<u, r, e>> \in RunEvents(o) /\ q = <<u>>
    BY DEF RunEvents
  <2>. HIDE DEF e, r, u
  <2>2. <<u>> \o <<r, e>> = <<u, r, e>>
    <3>. DEFINE c == <<u>> \o <<r, e>>
                d == <<u, r, e>>
                S == {u, r, e}
    <3>1. <<u>> \in Seq(S) /\ <<r, e>> \in Seq(S) /\ d \in Seq(S) /\ Len(d) = 3
      OBVIOUS
    <3>2. c \in Seq(S) /\ Len(c) = 3
      BY <3>1, ConcatProperties
    <3>3. c[1] = u /\ c[2] = r /\ c[3] = e
      BY <3>1, ConcatProperties
    <3>4. \A i \in 1..3 : c[i] = d[i]
      BY <3>3
    <3>. HIDE DEF c, d, S
    <3>5. c = d
      BY <3>1, <3>2, <3>4, SeqEqual
    <3>. QED BY <3>5 DEF c, d
  <2>3. q \o <<r, e>> \in RunEvents(o)
    BY <2>1, <2>2
  <2>. QED BY <2>3 DEF r, e
<1>. QED BY <1>1, <1>2 DEF FirstEvents

LEMMA FirstFollows ==
  ASSUME NEW p \in Prompts
  PROVE  <<>> \o <<UserEvent(p)>> \in FirstEvents
<1>. DEFINE u == UserEvent(p)
<1>1. <<u>> \in FirstEvents
  BY DEF FirstEvents
<1>. HIDE DEF u
<1>2. <<>> \o <<u>> = <<u>>
  OBVIOUS
<1>3. <<>> \o <<u>> \in FirstEvents
  BY <1>1, <1>2
<1>. QED BY <1>3 DEF u

\* What the invariant says of the steps that remain.
LEMMA StaysUndisturbed ==
  ASSUME TypeOK, [Next]_vars, Undisturbed'
  PROVE  Undisturbed /\ Outcomes' = Outcomes
<1>1. /\ serial' = serial /\ did \subseteq did' /\ (turns' = turns \/ turns' = turns + 1)
  BY DEF Next, PromptBegins, Caller, PromptStops, PromptChecks, PromptRecovers, PromptCompacts, PromptRuns,
     PromptAwaits, PromptReturns, Handler, UserProcessed, ReplyProcessed, EndRetries, SleepEnds,
     EndGivesUp, EndRecovers, EndCompacts, HandlerCompacts, EndIgnored, Run, RunTurns, RunEnds,
     TimerFires, Abort, BashEnds, Compacting, CompactBegins, CompactStopped, CompactEnds, vars,
     fileVars, queueVars, runVars, restVars, retryVars, callVars
<1>2. turns' = 0 => turns = 0
  BY <1>1 DEF TypeOK
<1>3. Outcomes' = Outcomes
  BY <1>1 DEF Outcomes
<1>. QED BY <1>1, <1>2, <1>3 DEF Undisturbed

\* Nobody aborts, compacts by hand or asks for tools.
LEMMA CalmSteps ==
  ASSUME TypeOK, NoRecovery, [Next]_vars, Undisturbed'
  PROVE  \/ \E p \in Prompts : PromptBegins(p) \/ Caller(p)
         \/ Handler
         \/ \E o \in Outcomes : RunEnds(o)
         \/ \E t \in Timers : TimerFires(t)
         \/ BashEnds \/ UNCHANGED vars
<1>0. did' \subseteq {"bash"}
  BY DEF Undisturbed
<1>1. ~Abort /\ ~CompactBegins
  <2>1. ASSUME Abort PROVE FALSE
    BY <1>0, <2>1 DEF Abort
  <2>2. ASSUME CompactBegins PROVE FALSE
    BY <1>0, <2>2 DEF CompactBegins
  <2>. QED BY <2>1, <2>2
<1>2. ~CompactStopped /\ ~CompactEnds
  BY DEF CompactStopped, CompactEnds, NoRecovery
<1>3. ~RunTurns
  BY DEF RunTurns, Undisturbed, TypeOK
<1>. QED BY <1>1, <1>2, <1>3 DEF Next, Run, Compacting

-----------------------------------------------------------------------------
(* A session that is undisturbed: the calls.                               *)

LEMMA InFlightIsActive ==
  ASSUME NEW p \in Prompts, InFlight(p)
  PROVE  Active(p)
  BY DEF InFlight, Active, Returned

\* A call that is not in flight moves on and starts nothing.
LEMMA QuietCall ==
  ASSUME TypeOK, Calm, NEW p \in Prompts, ~InFlight(p),
         Active(p) \/ \A q \in Prompts : ~Active(q),
         NEW s \in {"checking", "compacting", "ready", "failed"}, st' = [st EXCEPT ![p] = s],
         UNCHANGED <<events, handler, streaming, retrying, timers, owed, compaction, signal>>,
         tail' # "overflow", fileTail' # "overflow", Outcomes' = Outcomes
  PROVE  Calm'
<1>1. st'[p] = s /\ \A q \in Prompts : q # p => st'[q] = st[q]
  BY DEF TypeOK
<1>2. \A q \in Prompts : InFlight(q)' <=> InFlight(q)
  BY <1>1 DEF InFlight
<1>3. \A q \in Prompts : Active(q)' => Active(q) \/ q = p
  BY <1>1 DEF Active, Returned
<1>4. \A q, r \in Prompts : Active(q)' /\ Active(r)' => q = r
  BY <1>3 DEF Calm, OneCall
<1>5. \A q \in Prompts : \A x \in {"running", "ended", "retrying", "draining"} : st'[q] = x <=> st[q] = x
  BY <1>1 DEF InFlight
<1>6. OneCall'
  <2>1. \A q \in Prompts : st'[q] # "recovering"
    BY <1>1 DEF Calm, OneCall
  <2>2. (\A q \in Prompts : ~InFlight(q)') => events' = <<>>
    BY <1>2 DEF Calm, OneCall
  <2>3. \A q \in Prompts : st'[q] = "draining" => ~retrying' /\ owed'[q] >= Len(events')
    BY <1>5 DEF Calm, OneCall
  <2>. QED BY <1>4, <2>1, <2>2, <2>3 DEF OneCall
<1>7. OneRun'
  BY <1>5 DEF Calm, OneRun, FirstEvents, RunEvents
<1>8. NoRecovery'
  BY DEF Calm, NoRecovery
<1>. QED BY <1>6, <1>7, <1>8 DEF Calm

\* Nothing changes but what does not matter.
LEMMA QuietStep ==
  ASSUME Calm, UNCHANGED <<st, owed, events, handler, streaming, retrying, timers, compaction, signal>>,
         tail' # "overflow", fileTail' # "overflow", Outcomes' = Outcomes
  PROVE  Calm'
<1>1. OneCall'
  BY DEF Calm, OneCall, Active, InFlight, Returned
<1>2. OneRun'
  BY DEF Calm, OneRun, FirstEvents, RunEvents
<1>3. NoRecovery'
  BY DEF Calm, NoRecovery
<1>. QED BY <1>1, <1>2, <1>3 DEF Calm

\* No prompt begins while another is in flight.
LEMMA IdleIsQuiet ==
  ASSUME TypeOK, Calm, \A q \in Prompts : ~InFlight(q)
  PROVE  events = <<>> /\ ~streaming /\ ~retrying /\ timers["retry"] = 0 /\ handler = "free"
<1>1. events = <<>> /\ Len(events) # 1
  BY DEF Calm, OneCall
<1>2. ~retrying /\ ~streaming
  BY DEF Calm, OneRun, InFlight
<1>. QED BY <1>1, <1>2 DEF Calm, OneRun

\* The transcript of the last run has no overflow either.
LEMMA CalmTails ==
  ASSUME TypeOK, Calm
  PROVE  /\ \A rs : Record(rs) => tail' # "overflow" /\ fileTail' # "overflow"
         /\ CompactionEnds(FALSE) => tail' # "overflow" /\ UNCHANGED timers
<1>1. tail # "overflow" /\ fileTail # "overflow"
  BY DEF Calm, NoRecovery
<1>2. \A rs : Record(rs) => tail' # "overflow" /\ fileTail' # "overflow"
  BY <1>1 DEF Record
<1>3. CompactionEnds(FALSE) => tail' # "overflow" /\ UNCHANGED timers
  BY <1>1 DEF CompactionEnds
<1>. QED BY <1>2, <1>3

LEMMA CalmBegins ==
  ASSUME TypeOK, Calm, Undisturbed, NEW p \in Prompts, PromptBegins(p), Outcomes' = Outcomes
  PROVE  Calm'
<1>. USE DEF fileVars, queueVars, retryVars
<1>1. \A q \in Prompts : ~Active(q)
  BY DEF PromptBegins, Undisturbed, Active
<1>2. \A q \in Prompts : ~InFlight(q)
  BY <1>1, InFlightIsActive
<1>3. ~streaming
  BY <1>2, IdleIsQuiet
<1>4. st' = [st EXCEPT ![p] = "checking"] /\ Record(pending)
  BY <1>3 DEF PromptBegins
<1>5. tail' # "overflow" /\ fileTail' # "overflow"
  BY <1>4, CalmTails
<1>6. UNCHANGED <<events, handler, streaming, retrying, timers, owed, compaction, signal>>
  BY DEF PromptBegins
<1>. QED BY <1>1, <1>2, <1>4, <1>5, <1>6, QuietCall

LEMMA CalmPrepares ==
  ASSUME TypeOK, Calm, Undisturbed, NEW p \in Prompts, Outcomes' = Outcomes,
         PromptStops(p) \/ PromptChecks(p) \/ PromptRecovers(p) \/ PromptCompacts(p)
  PROVE  Calm'
<1>. USE DEF fileVars, queueVars, retryVars, runVars, restVars
<1>0. tail # "overflow" /\ fileTail # "overflow"
  BY DEF Calm, NoRecovery
<1>1. CASE PromptStops(p) \/ PromptChecks(p)
  <2>1. ~InFlight(p) /\ Active(p)
    BY <1>1 DEF PromptStops, PromptChecks, InFlight, Active, Returned
  <2>2. \E s \in {"checking", "compacting", "ready", "failed"} : st' = [st EXCEPT ![p] = s]
    BY <1>1 DEF PromptStops, PromptChecks
  <2>3. UNCHANGED <<events, handler, streaming, retrying, timers, owed, compaction, signal>> /\ UNCHANGED <<tail, fileTail>>
    BY <1>1 DEF PromptStops, PromptChecks
  <2>. QED BY <1>0, <2>1, <2>2, <2>3, QuietCall
<1>2. ~PromptRecovers(p)
  BY <1>0 DEF PromptRecovers, LastReplies, Undisturbed
<1>3. CASE PromptCompacts(p)
  <2>1. st[p] = "compacting" /\ st' = [st EXCEPT ![p] = "ready"] /\ CompactionEnds(FALSE)
    BY <1>3 DEF PromptCompacts, Calm, OneCall
  <2>2. ~InFlight(p) /\ Active(p)
    BY <2>1 DEF InFlight, Active, Returned
  <2>3. tail' # "overflow" /\ UNCHANGED timers
    BY <2>1, CalmTails
  <2>4. UNCHANGED <<events, handler, streaming, retrying, owed, compaction, signal, fileTail>>
    BY <1>3 DEF PromptCompacts
  <2>. QED BY <1>0, <2>1, <2>2, <2>3, <2>4, QuietCall
<1>. QED BY <1>1, <1>2, <1>3

LEMMA CalmRuns ==
  ASSUME TypeOK, Calm, NEW p \in Prompts, PromptRuns(p), Outcomes' = Outcomes
  PROVE  Calm'
<1>. USE DEF fileVars, queueVars, retryVars, runVars, restVars
<1>1. Active(p) /\ ~InFlight(p) /\ st[p] = "ready"
  BY DEF PromptRuns, Active, InFlight, Returned
<1>2. \A q \in Prompts : q # p => ~Active(q)
  BY <1>1 DEF Calm, OneCall
<1>3. \A q \in Prompts : ~InFlight(q)
  BY <1>1, <1>2, InFlightIsActive
<1>4. events = <<>> /\ ~streaming /\ ~retrying /\ timers["retry"] = 0 /\ handler = "free"
  BY <1>3, IdleIsQuiet
<1>5. /\ st' = [st EXCEPT ![p] = "running"] /\ streaming' = TRUE /\ signal' = FALSE /\ tail' = "input"
      /\ Emit(<<UserEvent(p)>>)
      /\ UNCHANGED <<owed, fileTail, handler, retrying, timers, compaction>>
  BY <1>4 DEF PromptRuns, StartRun
<1>6. events' = <<>> \o <<UserEvent(p)>>
  BY <1>4, <1>5 DEF Emit, Heard, Calm, NoRecovery
<1>7. events' \in FirstEvents
  BY <1>6, FirstFollows
<1>8. st'[p] = "running" /\ \A q \in Prompts : q # p => st'[q] = st[q]
  BY <1>5 DEF TypeOK
<1>9. OneCall'
  <2>1. \A q, r \in Prompts : Active(q)' /\ Active(r)' => q = r
    BY <1>2, <1>8 DEF Active, Returned
  <2>2. \A q \in Prompts : st'[q] \notin {"recovering", "draining"}
    BY <1>3, <1>8 DEF Calm, OneCall, InFlight
  <2>3. InFlight(p)'
    BY <1>8 DEF InFlight
  <2>. QED BY <2>1, <2>2, <2>3 DEF OneCall
<1>10. OneRun'
  <2>1. events' \in FirstEvents'
    BY <1>7 DEF FirstEvents
  <2>. QED BY <1>4, <1>5, <1>8, <2>1 DEF OneRun
<1>11. NoRecovery'
  BY <1>5 DEF Calm, NoRecovery
<1>. QED BY <1>9, <1>10, <1>11 DEF Calm

LEMMA CalmAwaits ==
  ASSUME TypeOK, Calm, NEW p \in Prompts, PromptAwaits(p), Outcomes' = Outcomes
  PROVE  Calm'
<1>. USE DEF fileVars, queueVars, retryVars, runVars, restVars
<1>1. /\ st[p] = "ended" /\ st' = [st EXCEPT ![p] = IF retrying THEN "retrying" ELSE "draining"]
      /\ owed' = [owed EXCEPT ![p] = IF retrying THEN 0 ELSE Len(events)]
      /\ UNCHANGED <<events, handler, streaming, signal, tail, fileTail, retrying, timers, compaction>>
  BY DEF PromptAwaits
<1>2. /\ st'[p] = (IF retrying THEN "retrying" ELSE "draining")
      /\ \A q \in Prompts : q # p => st'[q] = st[q] /\ owed'[q] = owed[q]
      /\ owed'[p] = (IF retrying THEN 0 ELSE Len(events))
  BY <1>1 DEF TypeOK
<1>3. \A q \in Prompts : (Active(q)' <=> Active(q)) /\ (InFlight(q)' <=> InFlight(q))
  BY <1>1, <1>2 DEF Active, InFlight, Returned
<1>4. OneCall'
  <2>1. \A q, r \in Prompts : Active(q)' /\ Active(r)' => q = r
    BY <1>3 DEF Calm, OneCall
  <2>2. \A q \in Prompts : st'[q] # "recovering"
    BY <1>2 DEF Calm, OneCall
  <2>3. (\A q \in Prompts : ~InFlight(q)') => events' = <<>>
    BY <1>1, <1>3 DEF Calm, OneCall
  <2>4. ASSUME NEW q \in Prompts, st'[q] = "draining" PROVE ~retrying' /\ owed'[q] >= Len(events')
    <3>1. Len(events) \in Nat
      BY LenProperties DEF TypeOK
    <3>2. CASE q = p
      BY <1>1, <1>2, <2>4, <3>1, <3>2
    <3>3. CASE q # p
      BY <1>1, <1>2, <2>4, <3>3 DEF Calm, OneCall
    <3>. QED BY <3>2, <3>3
  <2>. QED BY <2>1, <2>2, <2>3, <2>4 DEF OneCall
<1>5. OneRun'
  <2>1. streaming' => /\ events' \in FirstEvents' /\ timers'["retry"] = 0 /\ handler' = "free"
                      /\ \E q \in Prompts : st'[q] = "running" \/ (retrying' /\ st'[q] \in {"ended", "retrying"})
    <3>1. streaming => \E q \in Prompts : st[q] = "running" \/ (retrying /\ st[q] \in {"ended", "retrying"})
      BY DEF Calm, OneRun
    <3>2. \A q \in Prompts : st[q] = "running" \/ (retrying /\ st[q] \in {"ended", "retrying"})
                               => st'[q] = "running" \/ (retrying /\ st'[q] \in {"ended", "retrying"})
      BY <1>1, <1>2
    <3>. QED BY <1>1, <3>1, <3>2 DEF Calm, OneRun, FirstEvents
  <2>2. (\E q \in Prompts : st'[q] = "running") => streaming'
    <3>1. \A q \in Prompts : st'[q] = "running" => st[q] = "running"
      BY <1>2
    <3>. QED BY <1>1, <3>1 DEF Calm, OneRun
  <2>3. retrying' => \E q \in Prompts : st'[q] \in {"running", "ended", "retrying"}
    BY <1>1, <1>2
  <2>. QED BY <1>1, <2>1, <2>2, <2>3 DEF Calm, OneRun, RunEvents
<1>6. NoRecovery'
  BY <1>1 DEF Calm, NoRecovery
<1>. QED BY <1>4, <1>5, <1>6 DEF Calm

LEMMA CalmReturns ==
  ASSUME TypeOK, Calm, NEW p \in Prompts, PromptReturns(p), Outcomes' = Outcomes
  PROVE  Calm'
<1>. USE DEF fileVars, queueVars, retryVars, runVars, restVars
<1>1. /\ st[p] = "draining" /\ owed[p] = 0
      /\ \E s \in {"done", "failed"} : st' = [st EXCEPT ![p] = s]
      /\ UNCHANGED <<owed, events, handler, streaming, signal, tail, fileTail, retrying, timers, compaction>>
  BY DEF PromptReturns
<1>2. st'[p] \in {"done", "failed"} /\ \A q \in Prompts : q # p => st'[q] = st[q]
  BY <1>1 DEF TypeOK
<1>3. ~retrying /\ Len(events) = 0 /\ events = <<>>
  <2>1. ~retrying /\ 0 >= Len(events)
    BY <1>1 DEF Calm, OneCall
  <2>2. events \in Seq(Events) /\ Len(events) \in Nat
    BY LenProperties DEF TypeOK
  <2>3. Len(events) = 0
    BY <2>1, <2>2
  <2>. QED BY <2>1, <2>2, <2>3, EmptySeq
<1>4. \A q \in Prompts : q # p => ~Active(q)
  BY <1>1 DEF Calm, OneCall, Active, Returned
<1>5. \A q \in Prompts : ~Active(q)'
  BY <1>2, <1>4 DEF Active, Returned
<1>6. \A q \in Prompts : st'[q] \notin {"recovering", "running", "ended", "retrying", "draining"}
  BY <1>5 DEF Active, Returned
<1>7. ~streaming
  BY <1>1, <1>3, <1>4 DEF Calm, OneRun, Active, Returned
<1>8. OneCall'
  BY <1>1, <1>3, <1>5, <1>6 DEF OneCall
<1>9. OneRun'
  BY <1>1, <1>3, <1>6, <1>7 DEF Calm, OneRun, RunEvents
<1>10. NoRecovery'
  BY <1>1 DEF Calm, NoRecovery
<1>. QED BY <1>8, <1>9, <1>10 DEF Calm

-----------------------------------------------------------------------------
(* A session that is undisturbed: the handlers and the runs.               *)

\* While the agent streams only the prompt's message is queued; afterwards
\* what is left of one run, and a transient error keeps its retry pending.
LEMMA CalmHead ==
  ASSUME TypeOK, Calm, events # <<>>
  PROVE  /\ timers["retry"] = 0
         /\ Len(events) \in Nat \ {0} /\ Len(Tail(events)) = Len(events) - 1
         /\ NoUser(Tail(events))
         /\ streaming => Head(events).kind = "user" /\ Tail(events) = <<>>
         /\ ~streaming =>
              \E o \in Outcomes : /\ events \in RunEvents(o) /\ Tail(events) \in RunEvents(o)
                                  /\ o = "transient" => retrying
                                  /\ handler = "sleeping" => o = "transient"
                                  /\ Head(events).kind \in {"reply", "end"} => Head(events).outcome = o
                                  /\ Head(events).kind = "end" => Len(events) = 1 /\ Tail(events) = <<>>
<1>1. timers["retry"] = 0
  BY DEF Calm, OneRun
<1>2. Len(events) \in Nat \ {0} /\ Len(Tail(events)) = Len(events) - 1
  BY TailIs DEF TypeOK
<1>3. streaming => Head(events).kind = "user" /\ Tail(events) = <<>> /\ NoUser(Tail(events))
  <2>1. ASSUME streaming PROVE Head(events).kind = "user" /\ Tail(events) = <<>>
    BY <2>1, FirstTaken DEF Calm, OneRun
  <2>2. NoUser(<<>>)
    BY DEF NoUser
  <2>. QED BY <2>1, <2>2
<1>4. ASSUME ~streaming
      PROVE  /\ NoUser(Tail(events))
             /\ \E o \in Outcomes : /\ events \in RunEvents(o) /\ Tail(events) \in RunEvents(o)
                                    /\ o = "transient" => retrying
                                    /\ handler = "sleeping" => o = "transient"
                                    /\ Head(events).kind \in {"reply", "end"} => Head(events).outcome = o
                                    /\ Head(events).kind = "end" => Len(events) = 1 /\ Tail(events) = <<>>
  <2>1. PICK o \in Outcomes : /\ events \in RunEvents(o)
                              /\ o = "transient" => retrying
                              /\ handler = "sleeping" => o = "transient"
    BY <1>4 DEF Calm, OneRun
  <2>2. o \in Ends
    BY OutcomesAreEnds
  <2>. QED BY <2>1, <2>2, RunTaken
<1>. QED BY <1>1, <1>2, <1>3, <1>4

\* Whoever waits for events has one less to wait for.
LEMMA DebtsCover ==
  ASSUME TypeOK, Calm, events # <<>>, NEW p \in Prompts, st'[p] = "draining",
         \/ st' = st /\ owed' = OneLess(owed)
         \/ st' = Resumed /\ owed' = OneLess(ResumedOwing)
  PROVE  owed'[p] >= Len(Tail(events))
<1>1. Len(events) \in Nat \ {0} /\ Len(Tail(events)) = Len(events) - 1
  BY CalmHead
<1>2. st[p] = "draining" => owed[p] >= Len(events)
  BY DEF Calm, OneCall
<1>3. owed[p] \in Nat /\ ResumedOwing[p] \in Nat
  BY DebtsTyped DEF TypeOK
<1>4. CASE st' = st /\ owed' = OneLess(owed)
  <2>1. owed'[p] = IF owed[p] = 0 THEN 0 ELSE owed[p] - 1
    BY <1>4 DEF OneLess
  <2>. QED BY <1>1, <1>2, <1>3, <1>4, <2>1
<1>5. CASE st' = Resumed /\ owed' = OneLess(ResumedOwing)
  <2>1. owed'[p] = IF ResumedOwing[p] = 0 THEN 0 ELSE ResumedOwing[p] - 1
    BY <1>5 DEF OneLess
  <2>2. ResumedOwing[p] >= Len(events)
    BY <1>1, <1>2, <1>5 DEF Resumed, ResumedOwing
  <2>. QED BY <1>1, <1>3, <2>1, <2>2
<1>. QED BY <1>4, <1>5

\* An event is taken off the queue, and a retry may be over with it.
LEMMA CalmTaken ==
  ASSUME TypeOK, Calm, events # <<>>, Taken,
         \/ st' = st /\ owed' = OneLess(owed) /\ retrying' = retrying
         \/ /\ st' = Resumed /\ owed' = OneLess(ResumedOwing) /\ ~retrying'
            /\ Head(events).kind = "reply" => Head(events).outcome # "transient"
            /\ Head(events).kind # "user",
         UNCHANGED <<streaming, timers, signal, compaction>>,
         tail' # "overflow", fileTail' # "overflow", Outcomes' = Outcomes
  PROVE  Calm'
<1>0. events' = Tail(events) /\ handler' = "free"
  BY DEF Taken
<1>1. \A p \in Prompts : (Active(p)' <=> Active(p)) /\ (InFlight(p)' <=> InFlight(p))
  BY DEF Active, InFlight, Returned, Resumed
<1>2. \A p \in Prompts : (st'[p] = "running" <=> st[p] = "running") /\ (st'[p] = "recovering" <=> st[p] = "recovering")
  BY DEF Resumed
<1>3. OneCall'
  <2>1. \A p, q \in Prompts : Active(p)' /\ Active(q)' => p = q
    BY <1>1 DEF Calm, OneCall
  <2>2. \A p \in Prompts : st'[p] # "recovering"
    BY <1>2 DEF Calm, OneCall
  <2>3. \E p \in Prompts : InFlight(p)'
    BY <1>1 DEF Calm, OneCall
  <2>4. ASSUME NEW p \in Prompts, st'[p] = "draining" PROVE ~retrying' /\ owed'[p] >= Len(events')
    <3>1. owed'[p] >= Len(events')
      BY <1>0, <2>4, DebtsCover
    <3>2. ~retrying'
      BY <2>4 DEF Calm, OneCall
    <3>. QED BY <3>1, <3>2
  <2>. QED BY <2>1, <2>2, <2>3, <2>4 DEF OneCall
<1>4. OneRun'
  <2>1. streaming' => /\ events' \in FirstEvents' /\ timers'["retry"] = 0 /\ handler' = "free"
                      /\ \E p \in Prompts : st'[p] = "running" \/ (retrying' /\ st'[p] \in {"ended", "retrying"})
    <3>1. ASSUME streaming PROVE events' = <<>> /\ st' = st /\ retrying' = retrying
      BY <1>0, <3>1, CalmHead
    <3>. QED BY <1>0, <3>1, CalmHead DEF Calm, OneRun, FirstEvents
  <2>2. (\E p \in Prompts : st'[p] = "running") => streaming'
    BY <1>2 DEF Calm, OneRun
  <2>3. ASSUME ~streaming', events' # <<>>
        PROVE  \E o \in Outcomes' : /\ events' \in RunEvents(o)' /\ (o = "transient" => retrying')
                                    /\ (handler' = "sleeping" => o = "transient")
    <3>1. PICK o \in Outcomes : /\ events \in RunEvents(o) /\ Tail(events) \in RunEvents(o)
                                /\ o = "transient" => retrying
                                /\ Head(events).kind \in {"reply", "end"} => Head(events).outcome = o
                                /\ Head(events).kind = "end" => Len(events) = 1 /\ Tail(events) = <<>>
      BY <2>3, CalmHead
    <3>2. events' \in RunEvents(o)'
      BY <1>0, <3>1 DEF RunEvents
    <3>3. o = "transient" => retrying'
      <4>1. Head(events).kind \in {"user", "reply", "end"}
        BY TailIs, EventShape DEF TypeOK
      <4>. QED BY <1>0, <2>3, <3>1, <4>1
    <3>. QED BY <1>0, <3>2, <3>3
  <2>4. retrying' => \E p \in Prompts : st'[p] \in {"running", "ended", "retrying"}
    BY DEF Calm, OneRun
  <2>5. timers'["retry"] = 0
    BY CalmHead
  <2>. QED BY <1>0, <2>1, <2>2, <2>3, <2>4, <2>5 DEF OneRun
<1>5. NoRecovery'
  BY <1>0 DEF Calm, NoRecovery
<1>. QED BY <1>3, <1>4, <1>5 DEF Calm

LEMMA CalmHandlers ==
  ASSUME TypeOK, HandlerBusy, Calm, Undisturbed, Outcomes' = Outcomes,
         UserProcessed \/ ReplyProcessed \/ EndGivesUp \/ EndIgnored \/ HandlerCompacts \/ EndRecovers
  PROVE  Calm'
<1>. USE DEF fileVars, queueVars, retryVars, runVars, restVars, callVars
<1>0. tail # "overflow" /\ fileTail # "overflow"
  BY DEF Calm, NoRecovery
<1>1. CASE UserProcessed
  <2>1. /\ events # <<>> /\ Taken /\ st' = st /\ owed' = OneLess(owed) /\ retrying' = retrying
        /\ UNCHANGED <<streaming, timers, signal, compaction>> /\ tail' = tail /\ fileTail' = "input"
    BY <1>1 DEF UserProcessed, Processing
  <2>. QED BY <1>0, <2>1, CalmTaken
<1>2. CASE EndGivesUp
  <2>1. /\ events # <<>> /\ Taken /\ st' = Resumed /\ owed' = OneLess(ResumedOwing) /\ ~retrying'
        /\ Head(events).kind = "end"
        /\ UNCHANGED <<streaming, timers, signal, compaction>> /\ tail' = tail /\ fileTail' = fileTail
    BY <1>2 DEF EndGivesUp, Processing
  <2>. QED BY <1>0, <2>1, CalmTaken
<1>3. CASE EndIgnored
  <2>1. /\ events # <<>> /\ Taken /\ st' = st /\ owed' = OneLess(owed) /\ retrying' = retrying
        /\ UNCHANGED <<streaming, timers, signal, compaction>> /\ tail' = tail /\ fileTail' = fileTail
    BY <1>3 DEF EndIgnored, Processing
  <2>. QED BY <1>0, <2>1, CalmTaken
<1>4. CASE HandlerCompacts
  <2>1. handler # "recovering" /\ handler # "free"
    BY <1>4 DEF HandlerCompacts, Calm, NoRecovery
  <2>2. CompactionEnds(FALSE) /\ events # <<>>
    BY <1>4, <2>1 DEF HandlerCompacts, HandlerBusy
  <2>3. /\ Taken /\ st' = st /\ owed' = OneLess(owed) /\ retrying' = retrying
        /\ UNCHANGED <<streaming, signal, compaction>> /\ fileTail' = fileTail
    BY <1>4 DEF HandlerCompacts
  <2>4. tail' # "overflow" /\ UNCHANGED timers
    BY <2>2, CalmTails
  <2>. QED BY <1>0, <2>2, <2>3, <2>4, CalmTaken
<1>5. CASE EndRecovers
  <2>1. events # <<>> /\ Head(events).kind = "end" /\ Head(events).outcome = "overflow"
    BY <1>5 DEF EndRecovers, Processing
  <2>2. "overflow" \in Outcomes
    BY <2>1, CalmHead
  <2>. QED BY <2>2 DEF Undisturbed
<1>6. CASE ReplyProcessed
  <2>. DEFINE o == Head(events).outcome
              over == o \notin Errors /\ attempt > 0
  <2>1. /\ events # <<>> /\ Head(events).kind = "reply" /\ Taken
        /\ fileTail' = (IF o = "turn" THEN "input" ELSE o)
        /\ retrying' = (retrying /\ ~over)
        /\ st' = (IF over THEN Resumed ELSE st)
        /\ owed' = OneLess(IF over THEN ResumedOwing ELSE owed)
        /\ UNCHANGED <<streaming, timers, signal, compaction, tail>>
    BY <1>6 DEF ReplyProcessed, Processing
  <2>2. o \in Outcomes
    BY <2>1, CalmHead
  <2>3. fileTail' # "overflow"
    BY <2>1, <2>2 DEF Undisturbed
  <2>4. over => o # "transient"
    BY DEF Errors
  <2>5. \/ st' = st /\ owed' = OneLess(owed) /\ retrying' = retrying
        \/ /\ st' = Resumed /\ owed' = OneLess(ResumedOwing) /\ ~retrying'
           /\ o # "transient"
    <3>1. CASE over
      BY <2>1, <2>4, <3>1
    <3>2. CASE ~over
      <4>1. retrying \in BOOLEAN
        BY DEF TypeOK
      <4>2. retrying' = retrying
        BY <2>1, <3>2, <4>1
      <4>. QED BY <2>1, <3>2, <4>2
    <3>. QED BY <3>1, <3>2
  <2>. QED BY <1>0, <2>1, <2>3, <2>5, CalmTaken
<1>. QED BY <1>1, <1>2, <1>3, <1>4, <1>5, <1>6

\* A transient error keeps the retry pending while the handler sleeps ...
LEMMA CalmRetries ==
  ASSUME TypeOK, Calm, Outcomes' = Outcomes, EndRetries \/ EndCompacts
  PROVE  Calm'
<1>. USE DEF fileVars, queueVars, retryVars, runVars, restVars, callVars
<1>1. /\ events # <<>> /\ Head(events).kind = "end" /\ handler' \in {"sleeping", "compacting"}
      /\ handler' = "sleeping" => Head(events).outcome = "transient"
      /\ UNCHANGED <<st, owed, events, streaming, signal, timers, compaction, fileTail>>
  BY DEF EndRetries, EndCompacts, Processing
<1>2. ~streaming
  BY <1>1, CalmHead
<1>3. PICK o \in Outcomes : /\ events \in RunEvents(o) /\ Len(events) = 1
                            /\ o = "transient" => retrying
                            /\ Head(events).outcome = o
  BY <1>1, <1>2, CalmHead
<1>4. retrying' = retrying
  <2>1. CASE EndRetries
    <3>1. retrying' = TRUE /\ o = "transient"
      BY <1>3, <2>1 DEF EndRetries
    <3>2. retrying = TRUE
      BY <1>3, <3>1 DEF TypeOK
    <3>. QED BY <3>1, <3>2
  <2>2. CASE EndCompacts
    BY <2>2 DEF EndCompacts
  <2>. QED BY <2>1, <2>2
<1>5. tail' # "overflow"
  BY DEF EndRetries, EndCompacts, Dropped, Calm, NoRecovery
<1>6. OneCall'
  BY <1>1, <1>4 DEF Calm, OneCall, Active, InFlight, Returned
<1>7. OneRun'
  <2>1. \E u \in Outcomes' : /\ events' \in RunEvents(u)' /\ (u = "transient" => retrying')
                             /\ (handler' = "sleeping" => u = "transient")
    BY <1>1, <1>3, <1>4 DEF RunEvents
  <2>2. timers'["retry"] = 0 /\ ~streaming' /\ Len(events') = 1
    BY <1>1, <1>2, <1>3, CalmHead
  <2>3. (\A p \in Prompts : st'[p] # "running") /\ (retrying' => \E p \in Prompts : st'[p] \in {"running", "ended", "retrying"})
    BY <1>1, <1>2, <1>4 DEF Calm, OneRun
  <2>. QED BY <2>1, <2>2, <2>3 DEF OneRun
<1>8. NoRecovery'
  BY <1>1, <1>5 DEF Calm, NoRecovery
<1>. QED BY <1>6, <1>7, <1>8 DEF Calm

\* ... until it sets the timer, with nothing else queued.
LEMMA CalmSleeps ==
  ASSUME TypeOK, HandlerBusy, Calm, Outcomes' = Outcomes, SleepEnds
  PROVE  Calm'
<1>. USE DEF fileVars, queueVars, retryVars, runVars, restVars, callVars
<1>1. /\ handler = "sleeping" /\ Taken /\ timers' = [timers EXCEPT !["retry"] = @ + 1]
      /\ UNCHANGED <<st, retrying, streaming, signal, tail, fileTail, compaction>>
  BY DEF SleepEnds
<1>2. events # <<>> /\ Head(events).kind = "end" /\ ~streaming
  BY <1>1 DEF HandlerBusy, Calm, OneRun
<1>3. retrying /\ Tail(events) = <<>>
  BY <1>1, <1>2, CalmHead
<1>4. events' = <<>> /\ handler' = "free" /\ retrying'
  BY <1>1, <1>3 DEF Taken
<1>5. timers'["retry"] = 1 /\ timers'["recover"] = 0
  <2>1. timers["retry"] = 0 /\ timers["recover"] = 0
    BY <1>2, CalmHead DEF Calm, NoRecovery
  <2>. QED BY <1>1, <2>1 DEF TypeOK, Timers
<1>6. OneCall'
  BY <1>1, <1>3, <1>4 DEF Calm, OneCall, Active, InFlight, Returned
<1>7. OneRun'
  <2>. QED BY <1>1, <1>2, <1>3, <1>4, <1>5 DEF Calm, OneRun
<1>8. NoRecovery'
  BY <1>1, <1>4, <1>5 DEF Calm, NoRecovery
<1>. QED BY <1>6, <1>7, <1>8 DEF Calm

\* The timer starts the run again, for the prompt that still waits.
LEMMA CalmTimers ==
  ASSUME TypeOK, Calm, Outcomes' = Outcomes, NEW t \in Timers, TimerFires(t)
  PROVE  Calm'
<1>. USE DEF fileVars, queueVars, retryVars, runVars, restVars, callVars
<1>1. t = "retry"
  BY DEF TimerFires, Calm, NoRecovery, Timers
<1>2. timers["retry"] = 1 /\ events = <<>> /\ retrying /\ timers["recover"] = 0
  BY <1>1 DEF TimerFires, Calm, OneRun, NoRecovery, TypeOK
<1>3. ~streaming /\ handler = "free"
  <2>1. Len(events) # 1
    BY <1>2
  <2>. QED BY <1>2, <2>1 DEF Calm, OneRun
<1>4. /\ timers'["retry"] = 0 /\ timers'["recover"] = 0
      /\ UNCHANGED <<st, owed, events, handler, retrying, tail, fileTail, compaction>>
      /\ signal' = signal \/ signal' = FALSE
  BY <1>1, <1>2 DEF TimerFires, StartRun, TypeOK, Timers
<1>5. OneCall'
  BY <1>4 DEF Calm, OneCall, Active, InFlight, Returned
<1>6. OneRun'
  <2>1. \E p \in Prompts : st'[p] \in {"ended", "retrying"}
    BY <1>2, <1>3, <1>4 DEF Calm, OneRun
  <2>2. \A p \in Prompts : st'[p] # "running"
    BY <1>3, <1>4 DEF Calm, OneRun
  <2>3. events' \in FirstEvents'
    BY <1>2, <1>4 DEF FirstEvents
  <2>. QED BY <1>2, <1>3, <1>4, <2>1, <2>2, <2>3 DEF OneRun
<1>7. NoRecovery'
  BY <1>4 DEF Calm, NoRecovery
<1>. QED BY <1>5, <1>6, <1>7 DEF Calm

LEMMA CalmEnds ==
  ASSUME TypeOK, Calm, Undisturbed, Outcomes' = Outcomes, NEW o \in Outcomes, RunEnds(o)
  PROVE  Calm'
<1>. USE DEF fileVars, queueVars, retryVars, runVars, restVars, callVars
<1>1. /\ streaming /\ ~streaming' /\ ~signal' /\ tail' = o
      /\ Emit(<<ReplyEvent(o), EndEvent(o)>>)
      /\ retrying' = (retrying \/ (Heard /\ o = "transient"))
      /\ st' = [p \in Prompts |-> IF st[p] = "running" THEN "ended" ELSE st[p]]
      /\ UNCHANGED <<owed, fileTail, handler, timers, compaction>>
  BY DEF RunEnds
<1>2. o \in Ends /\ o # "overflow"
  BY OutcomesAreEnds DEF Undisturbed
<1>3. events \in FirstEvents /\ timers["retry"] = 0 /\ handler = "free"
  BY <1>1 DEF Calm, OneRun
<1>4. PICK p \in Prompts : st[p] = "running" \/ (retrying /\ st[p] \in {"ended", "retrying"})
  BY <1>1 DEF Calm, OneRun
<1>5. events' \in RunEvents(o)
  <2>1. events' = events \o <<ReplyEvent(o), EndEvent(o)>>
    BY <1>1 DEF Emit, Heard, Calm, NoRecovery
  <2>. QED BY <1>2, <1>3, <2>1, RunFollows
<1>6. st'[p] \in {"ended", "retrying"}
  BY <1>1, <1>4
<1>7. \A q \in Prompts : (Active(q)' <=> Active(q)) /\ st'[q] # "running"
                         /\ (st'[q] = "draining" => st[q] = "draining")
                         /\ (st'[q] = "recovering" => st[q] = "recovering")
  BY <1>1 DEF Active, Returned
<1>8. \A q \in Prompts : st[q] # "draining"
  <2>1. Active(p) /\ st[p] # "draining"
    BY <1>4 DEF Active, Returned
  <2>2. \A q \in Prompts : st[q] = "draining" => Active(q)
    BY DEF Active, Returned
  <2>. QED BY <2>1, <2>2 DEF Calm, OneCall
<1>9. OneCall'
  <2>1. InFlight(p)'
    BY <1>6 DEF InFlight
  <2>. QED BY <1>7, <1>8, <2>1 DEF Calm, OneCall
<1>10. OneRun'
  <2>1. \E u \in Outcomes' : /\ events' \in RunEvents(u)' /\ (u = "transient" => retrying')
                             /\ (handler' = "sleeping" => u = "transient")
    <3>1. Heard
      BY DEF Heard, Calm, NoRecovery
    <3>2. o = "transient" => retrying'
      BY <1>1, <3>1
    <3>. QED BY <1>1, <1>3, <1>5, <3>2 DEF RunEvents
  <2>. QED BY <1>1, <1>3, <1>6, <1>7, <2>1 DEF OneRun
<1>11. NoRecovery'
  BY <1>1, <1>2 DEF Calm, NoRecovery
<1>. QED BY <1>9, <1>10, <1>11 DEF Calm

LEMMA CalmStep ==
  ASSUME IInv, [Next]_vars, Undisturbed'
  PROVE  Calm'
<1>. USE DEF fileVars, queueVars, retryVars, runVars, restVars, callVars
<1>1. TypeOK /\ HandlerBusy /\ Undisturbed /\ Outcomes' = Outcomes
  BY StaysUndisturbed DEF IInv
<1>2. Calm /\ NoRecovery
  BY <1>1 DEF IInv, Calm
<1>3. ASSUME NEW p \in Prompts, PromptBegins(p) \/ Caller(p) PROVE Calm'
  BY <1>1, <1>2, <1>3, CalmBegins, CalmPrepares, CalmRuns, CalmAwaits, CalmReturns DEF Caller
<1>4. CASE Handler
  BY <1>1, <1>2, <1>4, CalmHandlers, CalmRetries, CalmSleeps DEF Handler
<1>5. CASE BashEnds
  <2>1. UNCHANGED <<st, owed, events, handler, streaming, retrying, timers, compaction, signal>>
    BY <1>5 DEF BashEnds
  <2>2. tail' # "overflow" /\ fileTail' # "overflow"
    <3>1. UNCHANGED <<tail, fileTail>> \/ Record(<<"bash">>)
      BY <1>5 DEF BashEnds
    <3>. QED BY <1>1, <1>2, <3>1, CalmTails DEF NoRecovery
  <2>. QED BY <1>1, <1>2, <2>1, <2>2, QuietStep
<1>6. CASE UNCHANGED vars
  <2>1. UNCHANGED <<st, owed, events, handler, streaming, retrying, timers, compaction, signal, tail, fileTail>>
    BY <1>6 DEF vars
  <2>. QED BY <1>1, <1>2, <2>1, QuietStep DEF NoRecovery
<1>. QED BY <1>1, <1>2, <1>3, <1>4, <1>5, <1>6, CalmSteps, CalmEnds, CalmTimers

-----------------------------------------------------------------------------
(* A session that is undisturbed: memory and file.                         *)

Kept(m, f, u) ==
  /\ ToSet(m) = ToSet(f) \cup u
  /\ \A p, q \in Prompts : Before(m, p, q) <=> Before(f, p, q) \/ (Contains(f, p) /\ q \in u)

Writing(es) == {p \in Prompts : Contains(es, UserEvent(p))}

LEMMA TranscriptIsKept == TranscriptKept <=> (Undisturbed => Kept(memory, file, Writing(events)))
  BY DEF TranscriptKept, Kept, Writing

LEMMA ToSetContains ==
  ASSUME NEW S, NEW s \in Seq(S), NEW x
  PROVE  x \in ToSet(s) <=> Contains(s, x)
<1>1. DOMAIN s = 1..Len(s)
  BY LenProperties
<1>. QED BY <1>1 DEF ToSet, Contains

LEMMA BeforeContains ==
  ASSUME NEW S, NEW s \in Seq(S), NEW p, NEW q, Before(s, p, q)
  PROVE  Contains(s, p) /\ Contains(s, q)
<1>1. DOMAIN s = 1..Len(s)
  BY LenProperties
<1>. QED BY <1>1 DEF Before, Contains

LEMMA BeforeAppend ==
  ASSUME NEW S, NEW s \in Seq(S), NEW x \in S, NEW p, NEW q
  PROVE  Before(Append(s, x), p, q) <=> Before(s, p, q) \/ (Contains(s, p) /\ q = x)
<1>. DEFINE a == Append(s, x)
<1>1. /\ Len(s) \in Nat /\ DOMAIN s = 1..Len(s) /\ DOMAIN a = 1..(Len(s) + 1)
      /\ \A i \in 1..Len(s) : a[i] = s[i]
      /\ a[Len(s) + 1] = x
  BY AppendProperties, LenProperties
<1>. HIDE DEF a
<1>2. ASSUME Before(s, p, q) PROVE Before(a, p, q)
  <2>1. PICK i, j \in 1..Len(s) : i < j /\ s[i] = p /\ s[j] = q
    BY <1>1, <1>2 DEF Before
  <2>2. i \in DOMAIN a /\ j \in DOMAIN a /\ a[i] = p /\ a[j] = q
    BY <1>1, <2>1
  <2>. QED BY <2>1, <2>2 DEF Before
<1>3. ASSUME Contains(s, p), q = x PROVE Before(a, p, q)
  <2>1. PICK i \in 1..Len(s) : s[i] = p
    BY <1>3 DEF Contains
  <2>2. i \in DOMAIN a /\ Len(s) + 1 \in DOMAIN a /\ i < Len(s) + 1 /\ a[i] = p /\ a[Len(s) + 1] = q
    BY <1>1, <1>3, <2>1
  <2>. QED BY <2>2 DEF Before
<1>4. ASSUME Before(a, p, q) PROVE Before(s, p, q) \/ (Contains(s, p) /\ q = x)
  <2>1. PICK i, j \in 1..(Len(s) + 1) : i < j /\ a[i] = p /\ a[j] = q
    BY <1>1, <1>4 DEF Before
  <2>2. i \in 1..Len(s) /\ s[i] = p
    BY <1>1, <2>1
  <2>3. CASE j = Len(s) + 1
    BY <1>1, <2>1, <2>2, <2>3 DEF Contains
  <2>4. CASE j # Len(s) + 1
    <3>1. j \in 1..Len(s) /\ s[j] = q
      BY <1>1, <2>1, <2>4
    <3>. QED BY <1>1, <2>1, <2>2, <3>1 DEF Before
  <2>. QED BY <2>3, <2>4
<1>5. Before(a, p, q) <=> Before(s, p, q) \/ (Contains(s, p) /\ q = x)
  BY <1>2, <1>3, <1>4
<1>. QED BY <1>5 DEF a

\* What is appended and is neither of the two does not matter.
LEMMA BeforeJoined ==
  ASSUME NEW S, NEW s \in Seq(S), NEW t \in Seq(S), NEW p, NEW q, ~Contains(t, p), ~Contains(t, q)
  PROVE  Before(s \o t, p, q) <=> Before(s, p, q)
<1>. DEFINE c == s \o t
<1>1. /\ DOMAIN t = 1..Len(t) /\ DOMAIN s = 1..Len(s)
      /\ \A i \in DOMAIN s : c[i] = s[i] /\ i \in DOMAIN c
      /\ \A i \in DOMAIN t : c[Len(s) + i] = t[i]
      /\ \A i \in DOMAIN c : i \in DOMAIN s \/ \E j \in DOMAIN t : i = Len(s) + j
  BY Joined
<1>. HIDE DEF c
<1>2. \A i \in DOMAIN t : t[i] # p /\ t[i] # q
  BY <1>1 DEF Contains
<1>3. \A i \in DOMAIN c : c[i] \in {p, q} => i \in DOMAIN s /\ s[i] = c[i]
  BY <1>1, <1>2
<1>4. Before(c, p, q) => Before(s, p, q)
  BY <1>3 DEF Before
<1>5. Before(s, p, q) => Before(c, p, q)
  BY <1>1 DEF Before
<1>6. Before(c, p, q) <=> Before(s, p, q)
  BY <1>4, <1>5
<1>. QED BY <1>6 DEF c

\* A shell result goes to both, ...
LEMMA KeptRecorded ==
  ASSUME NEW m \in Seq(Prompts \cup {"bash"}), NEW f \in Seq(Prompts \cup {"bash"}),
         NEW u \in SUBSET Prompts, NEW rs \in Seq({"bash"}), Kept(m, f, u)
  PROVE  Kept(m \o rs, f \o rs, u)
<1>0. rs \in Seq(Prompts \cup {"bash"})
  <2>1. {"bash"} \subseteq Prompts \cup {"bash"}
    OBVIOUS
  <2>. QED BY <2>1, SeqMonotonic
<1>1. \A p \in Prompts : ~Contains(rs, p)
  <2>1. \A i \in 1..Len(rs) : rs[i] = "bash"
    BY LenProperties
  <2>. QED BY <2>1, ConstantsOK DEF Contains
<1>2. m \o rs \in Seq(Prompts \cup {"bash"}) /\ f \o rs \in Seq(Prompts \cup {"bash"})
  BY <1>0, Joined
<1>3. ToSet(m \o rs) = ToSet(f \o rs) \cup u
  <2>1. \A x : x \in ToSet(m) <=> x \in ToSet(f) \/ x \in u
    BY DEF Kept
  <2>2. \A x : x \in ToSet(m \o rs) <=> Contains(m, x) \/ Contains(rs, x)
    BY <1>0, <1>2, ToSetContains, ContainsJoined
  <2>3. \A x : x \in ToSet(f \o rs) <=> Contains(f, x) \/ Contains(rs, x)
    BY <1>0, <1>2, ToSetContains, ContainsJoined
  <2>4. \A x : (x \in ToSet(m) <=> Contains(m, x)) /\ (x \in ToSet(f) <=> Contains(f, x))
    BY ToSetContains
  <2>5. \A x : x \in ToSet(m \o rs) <=> x \in ToSet(f \o rs) \/ x \in u
    BY <2>1, <2>2, <2>3, <2>4
  <2>. QED BY <2>5
<1>4. ASSUME NEW p \in Prompts, NEW q \in Prompts
      PROVE  Before(m \o rs, p, q) <=> Before(f \o rs, p, q) \/ (Contains(f \o rs, p) /\ q \in u)
  <2>1. (Before(m \o rs, p, q) <=> Before(m, p, q)) /\ (Before(f \o rs, p, q) <=> Before(f, p, q))
    BY <1>0, <1>1, BeforeJoined
  <2>2. Contains(f \o rs, p) <=> Contains(f, p)
    BY <1>0, <1>1, ContainsJoined
  <2>. QED BY <2>1, <2>2 DEF Kept
<1>. QED BY <1>3, <1>4 DEF Kept

\* ... a prompt that runs goes to memory first, ...
LEMMA KeptPrompted ==
  ASSUME NEW m \in Seq(Prompts \cup {"bash"}), NEW f \in Seq(Prompts \cup {"bash"}),
         NEW p \in Prompts, Kept(m, f, {})
  PROVE  Kept(Append(m, p), f, {p})
<1>0. p \in Prompts \cup {"bash"} /\ Append(m, p) \in Seq(Prompts \cup {"bash"})
  BY AppendProperties
<1>1. \A x : Contains(m, x) <=> Contains(f, x)
  BY ToSetContains DEF Kept
<1>2. \A x : x \in ToSet(Append(m, p)) <=> x \in ToSet(f) \/ x = p
  <2>1. \A x : x \in ToSet(Append(m, p)) <=> Contains(Append(m, p), x)
    BY <1>0, ToSetContains
  <2>2. \A x : Contains(Append(m, p), x) <=> Contains(m, x) \/ x = p
    BY <1>0, ContainsAppend
  <2>3. \A x : x \in ToSet(f) <=> Contains(f, x)
    BY ToSetContains
  <2>. QED BY <1>1, <2>1, <2>2, <2>3
<1>3. ASSUME NEW a \in Prompts, NEW b \in Prompts
      PROVE  Before(Append(m, p), a, b) <=> Before(f, a, b) \/ (Contains(f, a) /\ b \in {p})
  <2>1. Before(Append(m, p), a, b) <=> Before(m, a, b) \/ (Contains(m, a) /\ b = p)
    BY <1>0, BeforeAppend
  <2>. QED BY <1>1, <2>1 DEF Kept
<1>. QED BY <1>2, <1>3 DEF Kept

\* ... and to the file when its message is processed.
LEMMA KeptProcessed ==
  ASSUME NEW m \in Seq(Prompts \cup {"bash"}), NEW f \in Seq(Prompts \cup {"bash"}),
         NEW p \in Prompts, Kept(m, f, {p})
  PROVE  Kept(m, Append(f, p), {})
<1>0. p \in Prompts \cup {"bash"} /\ Append(f, p) \in Seq(Prompts \cup {"bash"})
  BY AppendProperties
<1>1. \A x : x \in ToSet(m) <=> x \in ToSet(Append(f, p))
  <2>1. \A x : x \in ToSet(Append(f, p)) <=> Contains(Append(f, p), x)
    BY <1>0, ToSetContains
  <2>2. \A x : Contains(Append(f, p), x) <=> Contains(f, x) \/ x = p
    BY <1>0, ContainsAppend
  <2>3. \A x : x \in ToSet(f) <=> Contains(f, x)
    BY ToSetContains
  <2>. QED BY <2>1, <2>2, <2>3 DEF Kept
<1>2. ASSUME NEW a \in Prompts, NEW b \in Prompts
      PROVE  Before(m, a, b) <=> Before(Append(f, p), a, b)
  <2>1. Before(Append(f, p), a, b) <=> Before(f, a, b) \/ (Contains(f, a) /\ b = p)
    BY <1>0, BeforeAppend
  <2>. QED BY <2>1 DEF Kept
<1>. QED BY <1>1, <1>2 DEF Kept

LEMMA KeptReloaded ==
  ASSUME NEW f
  PROVE  Kept(f, f, {})
  BY DEF Kept

LEMMA NothingWriting ==
  ASSUME NEW es, NoUser(es)
  PROVE  Writing(es) = {}
<1>1. \A p \in Prompts : \A i \in 1..Len(es) : es[i] # UserEvent(p)
  BY EventIs DEF NoUser
<1>. QED BY <1>1 DEF Writing, Contains

\* The one prompt whose message is queued is at its head.
LEMMA WritingHead ==
  ASSUME TypeOK, Calm, events # <<>>
  PROVE  /\ Writing(Tail(events)) = {}
         /\ Head(events).kind # "user" => Writing(events) = {}
         /\ Head(events).kind = "user" => Head(events).by \in Prompts /\ Writing(events) = {Head(events).by}
<1>1. events \in Seq(Events) /\ NoUser(Tail(events))
  BY CalmHead DEF TypeOK
<1>2. /\ Head(events) \in Events /\ Head(events) = events[1] /\ DOMAIN events = 1..Len(events)
      /\ 1 \in DOMAIN events /\ DOMAIN Tail(events) = 1..Len(Tail(events))
      /\ \A i \in DOMAIN events : i # 1 => i - 1 \in DOMAIN Tail(events) /\ Tail(events)[i - 1] = events[i]
  BY <1>1, TailIs
<1>3. \A i \in 1..Len(events) : i # 1 => events[i].kind # "user"
  BY <1>1, <1>2 DEF NoUser
<1>4. \A p \in Prompts : Contains(events, UserEvent(p)) <=> Head(events) = UserEvent(p)
  <2>1. ASSUME NEW p \in Prompts, NEW i \in 1..Len(events), events[i] = UserEvent(p) PROVE i = 1
    BY <1>3, <2>1, EventIs
  <2>. QED BY <1>2, <2>1 DEF Contains
<1>5. Head(events).kind # "user" => Writing(events) = {}
  BY <1>4, EventIs DEF Writing
<1>6. ASSUME Head(events).kind = "user"
      PROVE  Head(events).by \in Prompts /\ Writing(events) = {Head(events).by}
  <2>1. Head(events).by \in Prompts /\ Head(events) = UserEvent(Head(events).by)
    BY <1>2, <1>6, EventShape
  <2>2. \A p \in Prompts : Head(events) = UserEvent(p) <=> p = Head(events).by
    BY <2>1, EventIs
  <2>. QED BY <1>4, <2>1, <2>2 DEF Writing
<1>. QED BY <1>1, <1>5, <1>6, NothingWriting

LEMMA KeptCalls ==
  ASSUME TypeOK, Calm, Kept(memory, file, Writing(events)), NEW p \in Prompts, PromptBegins(p) \/ Caller(p)
  PROVE  Kept(memory', file', Writing(events'))
<1>. USE DEF fileVars, queueVars, retryVars, runVars, restVars, callVars
<1>0. /\ memory \in Seq(Prompts \cup {"bash"}) /\ file \in Seq(Prompts \cup {"bash"})
      /\ pending \in Seq({"bash"}) /\ Writing(events) \in SUBSET Prompts
  BY DEF TypeOK, Writing
<1>1. CASE PromptBegins(p)
  <2>1. UNCHANGED events /\ (UNCHANGED <<memory, file>> \/ Record(pending))
    BY <1>1 DEF PromptBegins
  <2>2. CASE Record(pending)
    <3>1. Kept(memory \o pending, file \o pending, Writing(events))
      BY <1>0, KeptRecorded
    <3>. QED BY <2>1, <2>2, <3>1 DEF Record
  <2>. QED BY <2>1, <2>2
<1>2. ASSUME st[p] \in {"compacting", "recovering", "ready"} PROVE events = <<>> /\ Writing(events) = {}
  <2>1. Active(p) /\ ~InFlight(p)
    BY <1>2 DEF Active, InFlight, Returned
  <2>2. \A q \in Prompts : ~InFlight(q)
    BY <2>1, InFlightIsActive DEF Calm, OneCall
  <2>3. events = <<>> /\ NoUser(<<>>)
    BY <2>2, IdleIsQuiet DEF NoUser
  <2>. QED BY <2>3, NothingWriting
<1>3. CASE PromptCompacts(p)
  <2>1. memory' \in {memory, file} /\ UNCHANGED <<file, events>> /\ Writing(events) = {}
    BY <1>2, <1>3 DEF PromptCompacts, CompactionEnds
  <2>. QED BY <2>1, KeptReloaded
<1>4. CASE PromptRuns(p)
  <2>1. CASE streaming
    <3>1. UNCHANGED <<memory, file, events>>
      BY <1>4, <2>1 DEF PromptRuns
    <3>. QED BY <3>1
  <2>2. CASE ~streaming
    <3>1. /\ memory' = Append(memory, p) /\ file' = file /\ Emit(<<UserEvent(p)>>)
          /\ events = <<>> /\ Writing(events) = {}
      BY <1>2, <1>4, <2>2 DEF PromptRuns
    <3>2. events' = <<>> \o <<UserEvent(p)>>
      BY <3>1 DEF Emit, Heard, Calm, NoRecovery
    <3>3. Writing(events') = {p}
      <4>. DEFINE u == UserEvent(p)
      <4>1. events' = <<u>> /\ Len(<<u>>) = 1 /\ <<u>>[1] = u
        <5>1. events' = <<>> \o <<u>>
          BY <3>2
        <5>. HIDE DEF u
        <5>. QED BY <5>1
      <4>2. \A q \in Prompts : UserEvent(q) = u <=> q = p
        BY EventIs
      <4>. HIDE DEF u
      <4>. QED BY <4>1, <4>2 DEF Writing, Contains
    <3>. QED BY <1>0, <3>1, <3>3, KeptPrompted
  <2>. QED BY <2>1, <2>2
<1>5. CASE PromptStops(p) \/ PromptChecks(p) \/ PromptRecovers(p) \/ PromptAwaits(p) \/ PromptReturns(p)
  <2>1. UNCHANGED <<memory, file, events>>
    BY <1>5 DEF PromptStops, PromptChecks, PromptRecovers, PromptAwaits, PromptReturns
  <2>. QED BY <2>1
<1>. QED BY <1>1, <1>3, <1>4, <1>5 DEF Caller

LEMMA KeptHandler ==
  ASSUME TypeOK, HandlerBusy, Calm, Kept(memory, file, Writing(events)), Handler
  PROVE  Kept(memory', file', Writing(events'))
<1>. USE DEF fileVars, queueVars, retryVars, runVars, restVars, callVars
<1>0. memory \in Seq(Prompts \cup {"bash"}) /\ file \in Seq(Prompts \cup {"bash"})
  BY DEF TypeOK
<1>1. CASE UserProcessed
  <2>1. /\ events # <<>> /\ Head(events).kind = "user" /\ events' = Tail(events)
        /\ file' = Append(file, Head(events).by) /\ memory' = memory
    BY <1>1 DEF UserProcessed, Processing, Taken
  <2>. DEFINE p == Head(events).by
  <2>2. p \in Prompts /\ Writing(events) = {p} /\ Writing(events') = {}
    BY <2>1, WritingHead
  <2>3. Kept(memory, file, {p}) /\ file' = Append(file, p)
    BY <2>1, <2>2
  <2>. HIDE DEF p
  <2>. QED BY <1>0, <2>1, <2>2, <2>3, KeptProcessed
<1>2. CASE EndRetries \/ EndRecovers \/ EndCompacts
  <2>1. UNCHANGED <<memory, file, events>>
    BY <1>2 DEF EndRetries, EndRecovers, EndCompacts
  <2>. QED BY <2>1
<1>3. CASE ReplyProcessed \/ SleepEnds \/ EndGivesUp \/ HandlerCompacts \/ EndIgnored
  <2>1. events # <<>> /\ Head(events).kind # "user" /\ events' = Tail(events)
    BY <1>3 DEF ReplyProcessed, SleepEnds, EndGivesUp, HandlerCompacts, EndIgnored, Processing, HandlerBusy, Taken
  <2>2. memory' \in {memory, file} /\ file' = file
    BY <1>3 DEF ReplyProcessed, SleepEnds, EndGivesUp, HandlerCompacts, EndIgnored, CompactionEnds
  <2>3. Writing(events) = {} /\ Writing(events') = {}
    BY <2>1, WritingHead
  <2>. QED BY <2>2, <2>3, KeptReloaded
<1>. QED BY <1>1, <1>2, <1>3 DEF Handler

LEMMA KeptOthers ==
  ASSUME TypeOK, Calm, Kept(memory, file, Writing(events)),
         \/ \E o \in Outcomes : RunEnds(o)
         \/ \E t \in Timers : TimerFires(t)
         \/ BashEnds \/ UNCHANGED vars
  PROVE  Kept(memory', file', Writing(events'))
<1>. USE DEF fileVars, queueVars, retryVars, runVars, restVars, callVars
<1>1. ASSUME NEW o \in Outcomes, RunEnds(o) PROVE Kept(memory', file', Writing(events'))
  <2>. DEFINE es == <<ReplyEvent(o), EndEvent(o)>>
              r == ReplyEvent(o)
              e == EndEvent(o)
  <2>1. UNCHANGED <<memory, file>> /\ events' = events \o es
    BY <1>1 DEF RunEnds, Emit, Heard, Calm, NoRecovery
  <2>2. r \in Events /\ e \in Events /\ r.kind = "reply" /\ e.kind = "end" /\ es = <<r, e>>
    BY OutcomesAreEnds, EventIs
  <2>3. es \in Seq(Events) /\ NoUser(es)
    <3>. HIDE DEF r, e, es
    <3>1. <<r, e>> \in Seq(Events) /\ Len(<<r, e>>) = 2 /\ <<r, e>>[1] = r /\ <<r, e>>[2] = e
      BY <2>2
    <3>2. \A i \in 1..2 : i = 1 \/ i = 2
      OBVIOUS
    <3>. QED BY <2>2, <3>1, <3>2 DEF NoUser
  <2>4. Writing(es) = {}
    BY <2>3, NothingWriting
  <2>. HIDE DEF es
  <2>5. \A p \in Prompts : Contains(events \o es, UserEvent(p)) <=> Contains(events, UserEvent(p)) \/ Contains(es, UserEvent(p))
    BY <2>3, ContainsJoined DEF TypeOK
  <2>6. Writing(events') = Writing(events)
    BY <2>1, <2>4, <2>5 DEF Writing
  <2>. QED BY <2>1, <2>6
<1>2. CASE (\E t \in Timers : TimerFires(t)) \/ UNCHANGED vars
  <2>1. UNCHANGED <<memory, file, events>>
    BY <1>2 DEF TimerFires, vars
  <2>. QED BY <2>1
<1>3. CASE BashEnds
  <2>1. UNCHANGED events /\ (UNCHANGED <<memory, file>> \/ Record(<<"bash">>))
    BY <1>3 DEF BashEnds
  <2>2. CASE Record(<<"bash">>)
    <3>1. <<"bash">> \in Seq({"bash"}) /\ Writing(events) \in SUBSET Prompts
      BY DEF Writing
    <3>2. Kept(memory \o <<"bash">>, file \o <<"bash">>, Writing(events))
      BY <3>1, KeptRecorded DEF TypeOK
    <3>. QED BY <2>1, <2>2, <3>2 DEF Record
  <2>. QED BY <2>1, <2>2
<1>. QED BY <1>1, <1>2, <1>3

LEMMA TranscriptStep ==
  ASSUME IInv, [Next]_vars
  PROVE  TranscriptKept'
<1>1. ASSUME Undisturbed' PROVE Kept(memory', file', Writing(events'))
  <2>1. TypeOK /\ HandlerBusy /\ Undisturbed
    BY <1>1, StaysUndisturbed DEF IInv
  <2>2. Calm /\ NoRecovery /\ Kept(memory, file, Writing(events))
    BY <2>1, TranscriptIsKept DEF IInv, Calm
  <2>. QED BY <1>1, <2>1, <2>2, CalmSteps, KeptCalls, KeptHandler, KeptOthers
<1>. QED BY <1>1 DEF TranscriptKept, Kept, Writing

-----------------------------------------------------------------------------
(* The invariant holds.                                                    *)

LEMMA InitIInv == Init => IInv
<1> SUFFICES ASSUME Init PROVE IInv
  OBVIOUS
<1>1. TypeOK
  BY InitType
<1>2. /\ st = [p \in Prompts |-> "new"] /\ events = <<>> /\ handler = "free" /\ memory = <<>> /\ file = <<>>
      /\ ~streaming /\ ~signal /\ ~retrying /\ tail = "none" /\ fileTail = "none" /\ compaction = "none"
      /\ timers = [t \in Timers |-> 0]
  BY DEF Init
<1>3. \A p \in Prompts : st[p] = "new"
  BY <1>2
<1>4. HandlerBusy /\ WaitersHeld /\ Awaited
  BY <1>2, <1>3 DEF HandlerBusy, WaitersHeld, Awaited, InFlight
<1>5. ASSUME Undisturbed PROVE Calm
  <2>1. OneCall
    BY <1>2, <1>3 DEF OneCall, Active
  <2>2. OneRun
    <3>1. timers["retry"] = 0
      BY <1>2 DEF Timers
    <3>. QED BY <1>2, <1>3, <3>1 DEF OneRun
  <2>3. NoRecovery
    BY <1>2 DEF NoRecovery, Timers
  <2>. QED BY <2>1, <2>2, <2>3 DEF Calm
<1>6. Kept(memory, file, Writing(events))
  <2>1. NoUser(<<>>)
    BY DEF NoUser
  <2>. QED BY <1>2, <2>1, NothingWriting, KeptReloaded
<1>. QED BY <1>1, <1>4, <1>5, <1>6, TranscriptIsKept DEF IInv

LEMMA IInvStep == IInv /\ [Next]_vars => IInv'
<1> SUFFICES ASSUME IInv, [Next]_vars PROVE IInv'
  OBVIOUS
<1>1. Undisturbed' => Calm'
  BY CalmStep
<1>. QED BY <1>1, TypeStep, BusyStep, WaitersStep, AwaitedStep, TranscriptStep DEF IInv

LEMMA Invariance == Spec => []IInv
  BY InitIInv, IInvStep, PTL DEF Spec

\* The variables of the session keep their types: the calls, the queue, the
\* retries and the timers.
THEOREM TypeCorrect == Spec => []TypeOK
<1>1. IInv => TypeOK
  BY DEF IInv
<1>. QED BY <1>1, Invariance, PTL

\* Nobody waits for a retry that is over: whatever ends a retry (a reply that
\* succeeds, the attempts used up, an abort, a compaction by hand) resolves the
\* promise its prompts wait for.
THEOREM NobodyWaitsInVain == Spec => []WaitersHeld
<1>1. IInv => WaitersHeld
  BY DEF IInv
<1>. QED BY <1>1, Invariance, PTL

\* A prompt that has returned is in the session file, for any callers, aborts,
\* retries and compactions, unless it ran while a manual compaction had the
\* session unsubscribed.
THEOREM WhatIsDoneIsWritten == Spec => []DoneIsWritten
<1>1. IInv => DoneIsWritten
  BY DEF IInv, Awaited, DoneIsWritten
<1>. QED BY <1>1, Invariance, PTL

\* A caller that waits for its prompts learns the outcome of the last retry:
\* while one is in progress, its prompt has not returned.
THEOREM NoRetryIsMissed == Spec => []RetryNotMissed
<1>1. ASSUME IInv, Undisturbed, retrying
      PROVE  \E p \in Prompts : st[p] # "new" /\ ~Returned(p)
  <2>1. \E p \in Prompts : st[p] \in {"running", "ended", "retrying"}
    BY <1>1 DEF IInv, Calm, OneRun
  <2>. QED BY <2>1 DEF Returned
<1>2. IInv => RetryNotMissed
  BY <1>1 DEF RetryNotMissed, UnderWay
<1>. QED BY <1>2, Invariance, PTL

\* While nothing disturbs the session, memory and file hold the same messages
\* in the same order, but for a prompt whose message is still queued.
THEOREM MemoryIsTheFile == Spec => []TranscriptKept
<1>1. IInv => TranscriptKept
  BY DEF IInv
<1>. QED BY <1>1, Invariance, PTL

-----------------------------------------------------------------------------
(***************************************************************************)
(* The session tree.  What holds for any number of entries, forks, kills   *)
(* and any budget: the file and the memory agree, no tool result is sent   *)
(* without its call, and a first compaction forgets nothing.  First the    *)
(* operators (positions that are picked, paths, cuts, contexts, labels,    *)
(* lines), then the invariant TreeIInv, one lemma per action, and the      *)
(* theorems.                                                               *)
(***************************************************************************)

-----------------------------------------------------------------------------
(* Least and greatest numbers.                                             *)

LEMMA LeastOfNats ==
  ASSUME NEW T, T \subseteq Nat, T # {}
  PROVE  \E x \in T : \A y \in T : x <= y
<1>1. \E x \in T : \A y \in T : <<y, x>> \notin OpToRel(<, Nat)
  BY NatLessThanWellFounded, WFMin
<1>2. \A x, y \in Nat : <<y, x>> \in OpToRel(<, Nat) <=> y < x
  BY DEF OpToRel
<1>3. \E x \in T : \A y \in T : ~ (y < x)
  BY <1>1, <1>2, Zenon
<1>. QED BY <1>3

LEMMA GreatestOfNats ==
  ASSUME NEW n \in Nat, NEW T, T \subseteq 0..n, T # {}
  PROVE  \E x \in T : \A y \in T : x >= y
<1> DEFINE U == {n - x : x \in T}
<1>1. U \subseteq Nat
  <2>1. \A x \in T : n - x \in Nat
    OBVIOUS
  <2>. QED BY <2>1
<1>2. U # {}
  OBVIOUS
<1>3. PICK m \in U : \A y \in U : m <= y
  BY <1>1, <1>2, LeastOfNats
<1>4. PICK x \in T : m = n - x
  BY <1>3
<1>5. \A y \in T : n - x <= n - y
  BY <1>3, <1>4
<1>6. \A y \in T : x >= y
  BY <1>5
<1>. QED BY <1>6

LEMMA MinOf ==
  ASSUME NEW T, T \subseteq Nat, T # {}
  PROVE  Min(T) \in T /\ \A y \in T : Min(T) <= y
<1>1. \E x \in T : \A y \in T : x <= y
  BY LeastOfNats
<1>. QED BY <1>1 DEF Min

LEMMA MaxOf ==
  ASSUME NEW n \in Nat, NEW T, T \subseteq 0..n, T # {}
  PROVE  Max(T) \in T /\ \A y \in T : Max(T) >= y
<1>1. \E x \in T : \A y \in T : x >= y
  BY GreatestOfNats
<1>. QED BY <1>1 DEF Max

-----------------------------------------------------------------------------
(* Picked: the k-th element is at the k-th position.                       *)

Size(at) == Cardinality(at)
Count(at, i) == Cardinality({j \in at : j <= i})
Nth(at, k) == CHOOSE i \in at : Count(at, i) = k

LEMMA PositionsFinite ==
  ASSUME NEW n \in Nat, NEW at, at \subseteq 1..n
  PROVE  IsFiniteSet(at) /\ Size(at) \in Nat /\ Size(at) <= n
<1>1. IsFiniteSet(1..n) /\ Cardinality(1..n) = n
  BY FS_Interval
<1>2. at \in SUBSET (1..n)
  OBVIOUS
<1>3. IsFiniteSet(at) /\ Cardinality(at) <= n
  BY <1>1, <1>2, FS_Subset
<1>. QED BY <1>3, FS_CardinalityType DEF Size

LEMMA CountTyped ==
  ASSUME NEW n \in Nat, NEW at, at \subseteq 1..n, NEW i \in at
  PROVE  Count(at, i) \in 1..Size(at)
<1> DEFINE upto == {j \in at : j <= i}
<1>1. IsFiniteSet(at) /\ upto \in SUBSET at
  BY PositionsFinite
<1>2. IsFiniteSet(upto) /\ Cardinality(upto) <= Cardinality(at)
  BY <1>1, FS_Subset
<1>3. upto # {}
  OBVIOUS
<1>4. Cardinality(upto) # 0 /\ Cardinality(upto) \in Nat /\ Cardinality(at) \in Nat
  BY <1>1, <1>2, <1>3, FS_EmptySet, FS_CardinalityType
<1>. QED BY <1>2, <1>4 DEF Count, Size

LEMMA CountGrows ==
  ASSUME NEW n \in Nat, NEW at, at \subseteq 1..n, NEW i \in at, NEW j \in at, i < j
  PROVE  Count(at, i) < Count(at, j)
<1> DEFINE small == {k \in at : k <= i}
           large == {k \in at : k <= j}
<1>1. IsFiniteSet(large)
  <2>1. large \subseteq 1..n
    OBVIOUS
  <2>. QED BY <2>1, PositionsFinite
<1>2. small \in SUBSET large /\ j \in large /\ j \notin small
  <2>1. \A k \in at : k \in Int
    OBVIOUS
  <2>2. \A k \in at : k <= i => k <= j
    BY <2>1
  <2>3. j \notin small
    BY <2>1
  <2>4. j \in large
    BY <2>1
  <2>. QED BY <2>2, <2>3, <2>4
<1>3. Cardinality(small) <= Cardinality(large) /\ Cardinality(small) # Cardinality(large)
  BY <1>1, <1>2, FS_Subset, Zenon
<1>4. Cardinality(small) \in Nat /\ Cardinality(large) \in Nat
  BY <1>1, <1>2, FS_Subset, FS_CardinalityType
<1>. QED BY <1>3, <1>4 DEF Count

LEMMA CountInjective ==
  ASSUME NEW n \in Nat, NEW at, at \subseteq 1..n, NEW i \in at, NEW j \in at,
         Count(at, i) = Count(at, j)
  PROVE  i = j
<1>1. Count(at, i) \in Int /\ i \in Int /\ j \in Int
  <2>1. Size(at) \in Nat
    BY PositionsFinite
  <2>2. Count(at, i) \in 1..Size(at)
    BY CountTyped
  <2>. QED BY <2>1, <2>2
<1>2. CASE i < j
  <2>1. Count(at, i) < Count(at, j)
    BY <1>2, CountGrows
  <2>. QED BY <1>1, <2>1
<1>3. CASE j < i
  <2>1. Count(at, j) < Count(at, i)
    BY <1>3, CountGrows
  <2>. QED BY <1>1, <2>1
<1>. QED BY <1>1, <1>2, <1>3

LEMMA CountOnto ==
  ASSUME NEW n \in Nat, NEW at, at \subseteq 1..n, NEW k \in 1..Size(at)
  PROVE  \E i \in at : Count(at, i) = k
<1> DEFINE f == [i \in at |-> Count(at, i)]
           m == Size(at)
<1>1. IsFiniteSet(at) /\ m \in Nat
  BY PositionsFinite
<1>2. f \in [at -> 1..m]
  BY CountTyped
<1>3. \A i, j \in at : f[i] = f[j] => i = j
  BY CountInjective
<1>4. f \in Injection(at, 1..m)
  BY <1>2, <1>3 DEF Injection, IsInjective
<1>5. IsFiniteSet(1..m) /\ Cardinality(1..m) = m
  BY <1>1, FS_Interval
<1>6. f \in Surjection(at, 1..m)
  BY <1>4, <1>5, FS_Injection DEF Size
<1>7. \A t \in 1..m : \E i \in at : f[i] = t
  BY <1>6 DEF Surjection
<1>. QED BY <1>7

LEMMA NthFacts ==
  ASSUME NEW n \in Nat, NEW at, at \subseteq 1..n
  PROVE  /\ \A k \in 1..Size(at) : Nth(at, k) \in at /\ Count(at, Nth(at, k)) = k
         /\ \A i \in at : Count(at, i) \in 1..Size(at) /\ Nth(at, Count(at, i)) = i
         /\ \A k, l \in 1..Size(at) : k < l => Nth(at, k) < Nth(at, l)
<1>1. \A k \in 1..Size(at) : Nth(at, k) \in at /\ Count(at, Nth(at, k)) = k
  BY CountOnto DEF Nth
<1>2. \A i, j \in at : Count(at, i) = Count(at, j) => i = j
  BY CountInjective
<1>3. \A i \in at : Count(at, i) \in 1..Size(at) /\ Nth(at, Count(at, i)) = i
  BY <1>1, <1>2, CountTyped
<1>4. ASSUME NEW k \in 1..Size(at), NEW l \in 1..Size(at), k < l
      PROVE  Nth(at, k) < Nth(at, l)
  <2> DEFINE i == Nth(at, k)
             j == Nth(at, l)
  <2>1. i \in at /\ j \in at /\ Count(at, i) = k /\ Count(at, j) = l
    BY <1>1
  <2>2. i \in Int /\ j \in Int
    <3>1. \A x \in at : x \in Int
      OBVIOUS
    <3>. QED BY <2>1, <3>1
  <2>0. k \in Int /\ l \in Int
    BY PositionsFinite
  <2> SUFFICES i < j
    OBVIOUS
  <2> HIDE DEF i, j
  <2>3. CASE j < i
    <3>1. Count(at, j) < Count(at, i)
      BY <2>1, <2>3, CountGrows
    <3>. QED BY <1>4, <2>0, <2>1, <3>1
  <2>4. CASE i = j
    BY <1>4, <2>0, <2>1, <2>4
  <2>. QED BY <2>2, <2>3, <2>4
<1>. QED BY <1>1, <1>3, <1>4

LEMMA PickedAt ==
  ASSUME NEW s, NEW at
  PROVE  \A k \in 1..Size(at) : Picked(s, at)[k] = s[Nth(at, k)]
BY DEF Picked, Nth, Count, Size

LEMMA PickedFacts ==
  ASSUME NEW S, NEW s, NEW n \in Nat, NEW at, at \subseteq 1..n, \A i \in at : s[i] \in S
  PROVE  /\ Picked(s, at) \in Seq(S)
         /\ Len(Picked(s, at)) = Size(at)
         /\ \A k \in 1..Size(at) : Picked(s, at)[k] = s[Nth(at, k)]
<1> DEFINE m == Size(at)
           t == [k \in 1..m |-> s[Nth(at, k)]]
<1>1. m \in Nat
  BY PositionsFinite
<1>2. Picked(s, at) = t
  BY DEF Picked, Nth, Count, Size
<1>3. \A k \in 1..m : s[Nth(at, k)] \in S
  BY NthFacts
<1>4. t \in [1..m -> S]
  BY <1>3
<1>5. t \in Seq(S) /\ DOMAIN t = 1..m
  BY <1>1, <1>4, SeqDef
<1>6. Len(t) = m
  BY <1>1, <1>5, LenProperties
<1>. QED BY <1>2, <1>5, <1>6

\* The elements of Picked(s, at) are those of s at the positions in at.
TakenFrom(t, s, at) ==
  /\ \A k \in 1..Len(t) : \E i \in at : t[k] = s[i]
  /\ \A i \in at : \E k \in 1..Len(t) : t[k] = s[i]

LEMMA PickedElements ==
  ASSUME NEW s, NEW n \in Nat, NEW at, at \subseteq 1..n
  PROVE  TakenFrom(Picked(s, at), s, at)
<1> DEFINE t == Picked(s, at)
<1>b. Len(t) = Size(at)
  <2> DEFINE S == {s[i] : i \in at}
  <2>1. \A i \in at : s[i] \in S
    OBVIOUS
  <2> HIDE DEF S
  <2>. QED BY <2>1, PickedFacts
<1>1. \A k \in 1..Size(at) : t[k] = s[Nth(at, k)]
  BY PickedAt
<1>2. /\ \A k \in 1..Size(at) : Nth(at, k) \in at
      /\ \A i \in at : Count(at, i) \in 1..Size(at) /\ Nth(at, Count(at, i)) = i
  BY NthFacts
<1> HIDE DEF t
<1>3. \A k \in 1..Len(t) : \E i \in at : t[k] = s[i]
  BY <1>b, <1>1, <1>2
<1>4. \A i \in at : \E k \in 1..Len(t) : t[k] = s[i]
  BY <1>b, <1>1, <1>2
<1>. QED BY <1>3, <1>4 DEF t, TakenFrom

\* All of them.
LEMMA PickedAll ==
  ASSUME NEW S, NEW s \in Seq(S)
  PROVE  Picked(s, 1..Len(s)) = s
<1> DEFINE n == Len(s)
<1>1. n \in Nat /\ \A i \in 1..n : s[i] \in S
  BY LenProperties, ElementOfSeq
<1>2. \A i \in 1..n : {j \in 1..n : j <= i} = 1..i
  BY <1>1
<1>3. \A i \in 1..n : Count(1..n, i) = i
  <2> SUFFICES ASSUME NEW i \in 1..n PROVE Cardinality({j \in 1..n : j <= i}) = i
    BY DEF Count
  <2>1. Cardinality(1..i) = i
    BY <1>1, FS_Interval
  <2>. QED BY <1>2, <2>1, Zenon
<1>4. Size(1..n) = n
  <2> HIDE DEF n
  <2>. QED BY <1>1, FS_Interval DEF Size
<1>5. \A i \in 1..n : Nth(1..n, i) = i
  <2>1. \A i \in 1..n : Nth(1..n, Count(1..n, i)) = i
    BY <1>1, NthFacts
  <2>. QED BY <1>3, <2>1
<1> DEFINE t == Picked(s, 1..n)
<1>6. t \in Seq(S) /\ Len(t) = n /\ \A i \in 1..n : t[i] = s[Nth(1..n, i)]
  BY <1>1, <1>4, PickedFacts
<1>. QED BY <1>5, <1>6, SeqEqual

-----------------------------------------------------------------------------
(* The tree: entries are older than their children, an id names one entry, *)
(* and a chain leads from a root down to an entry.                         *)

Lines(es) == {es[i] : i \in 1..Len(es)}

\* An entry is newer than its parent and than what it refers to.
WellMade(e) ==
  /\ e.parent # None => e.parent < e.id
  /\ e.kind = "label" => e.ref # None
  /\ e.kind = "compaction" => e.ref # None /\ e.ref < e.id

Tree(es) ==
  /\ es \in Seq(Entry)
  /\ \A e \in Lines(es) : WellMade(e)
  /\ \A e, f \in Lines(es) : e.id = f.id => e = f

\* Each entry of p is the parent of the next.
Linked(es, p) ==
  /\ p \in Seq(Entry) /\ p # <<>>
  /\ \A i \in 1..Len(p) : p[i] \in Lines(es)
  /\ \A i \in 1..(Len(p) - 1) : p[i + 1].parent = p[i].id

Chains(es) == {p \in Seq(Entry) : Linked(es, p) /\ p[1].parent = None}

LEMMA EntryTyped ==
  ASSUME NEW e \in Entry
  PROVE  /\ e.id \in Id /\ e.id \in Nat /\ e.id >= 1 /\ e.id <= MaxEntries /\ e.id # None
         /\ e.parent \in Id \cup {None} /\ e.kind \in Kinds /\ e.ref \in Id \cup {None}
         /\ e.on \in BOOLEAN /\ e.covers \subseteq Id
BY TreeConstantsOK DEF Entry, Id

LEMMA LinesTyped ==
  ASSUME NEW es \in Seq(Entry)
  PROVE  /\ \A e \in Lines(es) : e \in Entry
         /\ \A i \in 1..Len(es) : es[i] \in Lines(es)
         /\ \A x : Has(es, x) <=> \E e \in Lines(es) : e.id = x
BY ElementOfSeq DEF Lines, Has

LEMMA ByIdFound ==
  ASSUME NEW es \in Seq(Entry), NEW x, Has(es, x)
  PROVE  ById(es, x) \in Lines(es) /\ ById(es, x).id = x
<1> DEFINE at == {i \in 1..Len(es) : es[i].id = x}
<1>1. Len(es) \in Nat
  BY LenProperties
<1>2. at \subseteq 0..Len(es) /\ at # {}
  BY <1>1 DEF Has
<1>3. Max(at) \in at
  BY <1>1, <1>2, MaxOf
<1>. QED BY <1>3 DEF ById, Lines

LEMMA ById1 ==
  ASSUME NEW es, Tree(es), NEW e \in Lines(es)
  PROVE  ById(es, e.id) = e /\ Has(es, e.id)
BY ByIdFound, LinesTyped DEF Tree

\* From the root on the ids grow.
LEMMA ChainGrows ==
  ASSUME NEW es, Tree(es), NEW p, Linked(es, p), NEW i \in 1..Len(p), NEW j \in 1..Len(p), i < j
  PROVE  p[i].id < p[j].id
<1> DEFINE T == {k \in (i + 1)..Len(p) : ~ (p[i].id < p[k].id)}
<1>0. Len(p) \in Nat /\ p \in Seq(Entry) /\ i \in Nat /\ j \in Nat
  BY LenProperties DEF Linked
<1>1. \A k \in 1..Len(p) : p[k] \in Entry /\ WellMade(p[k]) /\ p[k].id \in Nat /\ p[k].id # None
  BY LinesTyped, EntryTyped DEF Tree, Linked
<1>2. \A k \in 1..(Len(p) - 1) : p[k].id < p[k + 1].id
  <2> SUFFICES ASSUME NEW k \in 1..(Len(p) - 1) PROVE p[k].id < p[k + 1].id
    OBVIOUS
  <2>1. k + 1 \in 1..Len(p) /\ k \in 1..Len(p)
    BY <1>0
  <2>2. p[k + 1].parent = p[k].id
    BY DEF Linked
  <2>. QED BY <1>1, <2>1, <2>2 DEF WellMade
<1>3. SUFFICES ASSUME T # {} PROVE FALSE
  <2>1. j \in (i + 1)..Len(p)
    BY <1>0
  <2>. QED BY <1>3, <2>1
<1>4. T \subseteq Nat
  BY <1>0
<1>5. PICK k \in T : \A l \in T : k <= l
  BY <1>3, <1>4, LeastOfNats
<1>6. k \in 2..Len(p) /\ k - 1 \in 1..(Len(p) - 1) /\ (k - 1) + 1 = k /\ k - 1 \in Nat
  BY <1>0, <1>5
<1>7. p[k - 1].id < p[k].id
  BY <1>2, <1>6
<1>8. k - 1 # i
  BY <1>5, <1>7
<1>9. k - 1 \in (i + 1)..Len(p)
  BY <1>0, <1>5, <1>8
<1>10. p[i].id < p[k - 1].id
  BY <1>0, <1>5, <1>9
<1>11. p[i].id \in Nat /\ p[k].id \in Nat /\ p[k - 1].id \in Nat
  BY <1>0, <1>1, <1>6
<1>. QED BY <1>5, <1>7, <1>10, <1>11

-----------------------------------------------------------------------------
(* PathOf: the recursive function that climbs the parents.                 *)

Climb(es, x, n, up) ==
  IF n = 0 THEN IF Has(es, x) THEN <<ById(es, x)>> ELSE <<>>
  ELSE IF up # <<>> /\ Has(es, up[1].parent)
       THEN <<ById(es, up[1].parent)>> \o up
       ELSE up

Walks(es, x, m, P) == P = [n \in 0..m |-> Climb(es, x, n, P[n - 1])]

LEMMA WalkExists ==
  ASSUME NEW es, NEW x, NEW m \in Nat
  PROVE  \E P : Walks(es, x, m, P)
<1> DEFINE T == {k \in Nat : ~ \E P : Walks(es, x, k, P)}
<1>1. SUFFICES ASSUME T # {} PROVE FALSE
  OBVIOUS
<1>2. PICK k \in T : \A l \in T : k <= l
  BY <1>1, LeastOfNats
<1>3. CASE k = 0
  <2> DEFINE P == [n \in 0..0 |-> Climb(es, x, 0, <<>>)]
  <2>1. P = [n \in 0..0 |-> Climb(es, x, n, P[n - 1])]
    BY DEF Climb
  <2>2. Walks(es, x, k, P)
    BY <1>3, <2>1 DEF Walks
  <2>. QED BY <1>2, <2>2
<1>4. CASE k # 0
  <2>1. k - 1 \in Nat /\ k - 1 \notin T
    BY <1>2, <1>4
  <2>2. PICK f : Walks(es, x, k - 1, f)
    BY <2>1
  <2> DEFINE g == [n \in 0..k |-> IF n = k THEN Climb(es, x, k, f[k - 1]) ELSE f[n]]
  <2>3. \A n \in 0..(k - 1) : f[n] = Climb(es, x, n, f[n - 1])
    BY <2>1, <2>2 DEF Walks
  <2>4. ASSUME NEW n \in 0..k PROVE g[n] = Climb(es, x, n, g[n - 1])
    <3>1. CASE n = k
      <4>1. k - 1 \in 0..k /\ k - 1 # k
        BY <2>1
      <4>2. g[n - 1] = f[k - 1]
        BY <3>1, <4>1
      <4>. QED BY <3>1, <4>2
    <3>2. CASE n # k /\ n # 0
      <4>1. n \in 0..(k - 1) /\ n - 1 \in 0..k /\ n - 1 # k
        BY <2>1, <3>2
      <4>2. g[n] = f[n] /\ g[n - 1] = f[n - 1]
        BY <3>2, <4>1
      <4>. QED BY <2>3, <4>1, <4>2
    <3>3. CASE n # k /\ n = 0
      <4>1. g[n] = f[n] /\ n \in 0..(k - 1)
        BY <2>1, <3>3
      <4>. QED BY <2>3, <3>3, <4>1 DEF Climb
    <3>. QED BY <3>1, <3>2, <3>3
  <2>5. g = [n \in 0..k |-> Climb(es, x, n, g[n - 1])]
    BY <2>4
  <2>6. Walks(es, x, k, g)
    BY <2>5 DEF Walks
  <2>. QED BY <1>2, <2>6
<1>. QED BY <1>3, <1>4

LEMMA PathWalks ==
  ASSUME NEW es, NEW x
  PROVE  \E P : Walks(es, x, MaxEntries, P) /\ PathOf(es, x) = P[MaxEntries]
<1> DEFINE W == CHOOSE P : Walks(es, x, MaxEntries, P)
<1>1. MaxEntries \in Nat
  BY TreeConstantsOK
<1>2. Walks(es, x, MaxEntries, W)
  BY <1>1, WalkExists
<1>3. PathOf(es, x) = W[MaxEntries]
  BY DEF PathOf, Walks, Climb
<1>. QED BY <1>2, <1>3

\* What was climbed after n steps: it is linked down to x, and either its
\* first entry is at least n ids below the bound or no parent is left.
Climbed(es, x, n, p) ==
  /\ Linked(es, p)
  /\ p[Len(p)].id = x
  /\ p[1].id + n <= MaxEntries \/ ~ Has(es, p[1].parent)

LEMMA ClimbOne ==
  ASSUME NEW es, Tree(es), NEW x, NEW n \in Nat, NEW up, Climbed(es, x, n, up)
  PROVE  Climbed(es, x, n + 1, Climb(es, x, n + 1, up))
<1> DEFINE top == ById(es, up[1].parent)
<1>0. /\ up \in Seq(Entry) /\ up # <<>> /\ Len(up) \in Nat \ {0} /\ n + 1 # 0 /\ n + 1 \in Nat
      /\ up[1] \in Lines(es) /\ up[1] \in Entry /\ WellMade(up[1])
  BY LenProperties, EmptySeq, LinesTyped DEF Climbed, Linked, Tree
<1>1. CASE ~ Has(es, up[1].parent)
  BY <1>0, <1>1 DEF Climb, Climbed
<1>2. CASE Has(es, up[1].parent)
  <2>1. top \in Lines(es) /\ top.id = up[1].parent /\ top \in Entry
    BY <1>2, ByIdFound, LinesTyped DEF Tree
  <2>2. top.id < up[1].id /\ top.id \in Nat /\ up[1].id \in Nat
    BY <1>0, <2>1, EntryTyped DEF WellMade
  <2>3. Climb(es, x, n + 1, up) = <<top>> \o up
    BY <1>0, <1>2 DEF Climb
  <2> HIDE DEF top
  <2> DEFINE p == <<top>> \o up
  <2>4. <<top>> \in Seq(Entry) /\ Len(<<top>>) = 1 /\ <<top>>[1] = top
    BY <2>1
  <2>5. /\ p \in Seq(Entry) /\ Len(p) = Len(up) + 1
        /\ \A i \in 1..(1 + Len(up)) : p[i] = IF i <= 1 THEN <<top>>[i] ELSE up[i - 1]
    BY <1>0, <2>4, ConcatProperties
  <2>6. /\ p[1] = top
        /\ \A i \in 2..Len(p) : p[i] = up[i - 1] /\ i - 1 \in 1..Len(up)
    BY <1>0, <2>4, <2>5
  <2> HIDE DEF p
  <2>7. p # <<>> /\ p[Len(p)] = up[Len(up)]
    BY <1>0, <2>5, <2>6, EmptySeq
  <2>8. \A i \in 1..Len(p) : p[i] \in Lines(es)
    <3>1. \A i \in 1..Len(up) : up[i] \in Lines(es)
      BY DEF Climbed, Linked
    <3>2. \A i \in 1..Len(p) : i = 1 \/ i \in 2..Len(p)
      BY <1>0, <2>5
    <3>. QED BY <2>1, <2>6, <3>1, <3>2
  <2>9. ASSUME NEW i \in 1..(Len(p) - 1) PROVE p[i + 1].parent = p[i].id
    <3>1. CASE i = 1
      BY <1>0, <2>1, <2>5, <2>6, <3>1
    <3>2. CASE i # 1
      <4>1. i \in 2..Len(p) /\ i + 1 \in 2..Len(p) /\ i - 1 \in 1..(Len(up) - 1) /\ (i + 1) - 1 = i
        BY <1>0, <2>5, <3>2
      <4>2. (i - 1) + 1 = i
        BY <1>0, <2>5
      <4>3. up[(i - 1) + 1].parent = up[i - 1].id
        BY <4>1 DEF Climbed, Linked
      <4>. QED BY <2>6, <4>1, <4>2, <4>3
    <3>. QED BY <3>1, <3>2
  <2>10. p[1].id + (n + 1) <= MaxEntries
    <3>1. up[1].id + n <= MaxEntries
      BY <1>2 DEF Climbed
    <3>. QED BY <2>2, <2>6, <3>1, TreeConstantsOK
  <2>11. p[Len(p)].id = x
    BY <2>7 DEF Climbed
  <2>. QED BY <2>3, <2>5, <2>7, <2>8, <2>9, <2>10, <2>11 DEF Climbed, Linked, p
<1>. QED BY <1>1, <1>2

LEMMA ClimbFirst ==
  ASSUME NEW es, Tree(es), NEW x, Has(es, x), NEW up
  PROVE  Climbed(es, x, 0, Climb(es, x, 0, up))
<1> DEFINE e == ById(es, x)
<1>1. e \in Lines(es) /\ e.id = x /\ e \in Entry
  BY ByIdFound, LinesTyped DEF Tree
<1>2. Climb(es, x, 0, up) = <<e>>
  BY DEF Climb
<1> HIDE DEF e
<1>3. <<e>> \in Seq(Entry) /\ Len(<<e>>) = 1 /\ <<e>>[1] = e /\ <<e>> # <<>>
  BY <1>1
<1>4. e.id + 0 <= MaxEntries
  BY <1>1, EntryTyped
<1>. QED BY <1>1, <1>2, <1>3, <1>4 DEF Climbed, Linked

\* getBranch finds the links from an entry up until no parent is found.
LEMMA PathFound ==
  ASSUME NEW es, Tree(es), NEW x, Has(es, x)
  PROVE  /\ Linked(es, PathOf(es, x))
         /\ PathOf(es, x)[Len(PathOf(es, x))].id = x
         /\ ~ Has(es, PathOf(es, x)[1].parent)
<1>1. PICK P : Walks(es, x, MaxEntries, P) /\ PathOf(es, x) = P[MaxEntries]
  BY PathWalks
<1>2. \A n \in 0..MaxEntries : P[n] = Climb(es, x, n, P[n - 1])
  BY <1>1 DEF Walks
<1>3. MaxEntries \in Nat
  BY TreeConstantsOK
<1> DEFINE T == {n \in 0..MaxEntries : ~ Climbed(es, x, n, P[n])}
<1>4. ASSUME T # {} PROVE FALSE
  <2>1. T \subseteq Nat
    OBVIOUS
  <2>2. PICK n \in T : \A l \in T : n <= l
    BY <1>4, <2>1, LeastOfNats
  <2>3. CASE n = 0
    <3>1. P[0] = Climb(es, x, 0, P[0 - 1])
      BY <1>2, <1>3
    <3>. QED BY <2>2, <2>3, <3>1, ClimbFirst
  <2>4. CASE n # 0
    <3>1. n - 1 \in 0..MaxEntries /\ n - 1 \in Nat /\ (n - 1) + 1 = n
      BY <1>3, <2>2, <2>4
    <3>2. Climbed(es, x, n - 1, P[n - 1])
      BY <2>2, <3>1
    <3>3. P[n] = Climb(es, x, n, P[n - 1])
      BY <1>2, <2>2
    <3>4. Climbed(es, x, (n - 1) + 1, Climb(es, x, (n - 1) + 1, P[n - 1]))
      BY <3>1, <3>2, ClimbOne
    <3>. QED BY <2>2, <3>1, <3>3, <3>4
  <2>. QED BY <2>3, <2>4
<1>5. Climbed(es, x, MaxEntries, P[MaxEntries])
  BY <1>3, <1>4
<1> DEFINE p == PathOf(es, x)
<1>6. Climbed(es, x, MaxEntries, p)
  BY <1>1, <1>5
<1> HIDE DEF p
<1>7. p[1] \in Entry
  BY <1>6, LenProperties, EmptySeq, ElementOfSeq DEF Climbed, Linked
<1>8. ~ (p[1].id + MaxEntries <= MaxEntries)
  BY <1>3, <1>7, EntryTyped
<1>9. Linked(es, p) /\ p[Len(p)].id = x /\ ~ Has(es, p[1].parent)
  BY <1>6, <1>8 DEF Climbed
<1>. QED BY <1>9 DEF p

LEMMA NoPath ==
  ASSUME NEW es, NEW x, ~ Has(es, x)
  PROVE  PathOf(es, x) = <<>>
<1>1. PICK P : Walks(es, x, MaxEntries, P) /\ PathOf(es, x) = P[MaxEntries]
  BY PathWalks
<1>2. \A n \in 0..MaxEntries : P[n] = Climb(es, x, n, P[n - 1])
  BY <1>1 DEF Walks
<1>3. MaxEntries \in Nat
  BY TreeConstantsOK
<1> DEFINE T == {n \in 0..MaxEntries : P[n] # <<>>}
<1>4. ASSUME T # {} PROVE FALSE
  <2>1. T \subseteq Nat
    OBVIOUS
  <2>2. PICK n \in T : \A l \in T : n <= l
    BY <1>4, <2>1, LeastOfNats
  <2>3. CASE n = 0
    BY <1>2, <2>2, <2>3 DEF Climb
  <2>4. CASE n # 0
    <3>1. n - 1 \in 0..MaxEntries /\ n - 1 < n
      BY <1>3, <2>2, <2>4
    <3>2. P[n - 1] = <<>>
      BY <2>2, <3>1
    <3>. QED BY <1>2, <2>2, <2>4, <3>2 DEF Climb
  <2>. QED BY <2>3, <2>4
<1>. QED BY <1>1, <1>3, <1>4

\* Two ways up from the same entry agree as far as both go.
LEMMA SameWayUp ==
  ASSUME NEW es, Tree(es), NEW p, Linked(es, p), NEW q, Linked(es, q),
         p[Len(p)].id = q[Len(q)].id,
         NEW k \in Nat, k < Len(p), k < Len(q)
  PROVE  p[Len(p) - k] = q[Len(q) - k]
<1> DEFINE T == {l \in Nat : l < Len(p) /\ l < Len(q) /\ p[Len(p) - l] # q[Len(q) - l]}
<1>0. Len(p) \in Nat \ {0} /\ Len(q) \in Nat \ {0}
  BY LenProperties, EmptySeq DEF Linked
<1>1. ASSUME T # {} PROVE FALSE
  <2>1. T \subseteq Nat
    OBVIOUS
  <2>2. PICK l \in T : \A m \in T : l <= m
    BY <1>1, <2>1, LeastOfNats
  <2>3. CASE l = 0
    <3>1. Len(p) - l = Len(p) /\ Len(q) - l = Len(q) /\ Len(p) \in 1..Len(p) /\ Len(q) \in 1..Len(q)
      BY <1>0, <2>3
    <3>. QED BY <2>2, <3>1 DEF Linked, Tree
  <2>4. CASE l # 0
    <3> DEFINE i == Len(p) - l
               j == Len(q) - l
    <3>1. /\ l - 1 \in Nat /\ l - 1 < Len(p) /\ l - 1 < Len(q) /\ l - 1 < l
          /\ Len(p) - (l - 1) = i + 1 /\ Len(q) - (l - 1) = j + 1
          /\ i \in 1..(Len(p) - 1) /\ j \in 1..(Len(q) - 1)
      BY <1>0, <2>2, <2>4
    <3>2. p[i + 1] = q[j + 1]
      BY <2>2, <3>1
    <3>3. p[i + 1].parent = p[i].id /\ q[j + 1].parent = q[j].id
      BY <3>1 DEF Linked
    <3>4. p[i] \in Lines(es) /\ q[j] \in Lines(es)
      BY <1>0, <3>1 DEF Linked
    <3>5. p[i] = q[j]
      BY <3>2, <3>3, <3>4 DEF Tree
    <3>. QED BY <2>2, <3>5
  <2>. QED BY <2>3, <2>4
<1>. QED BY <1>1

\* There is one path to an entry.
LEMMA OnePath ==
  ASSUME NEW es, Tree(es), NEW q \in Chains(es)
  PROVE  Has(es, q[Len(q)].id) /\ PathOf(es, q[Len(q)].id) = q
<1> DEFINE x == q[Len(q)].id
           p == PathOf(es, x)
<1>0. Linked(es, q) /\ q[1].parent = None /\ Len(q) \in Nat \ {0} /\ q \in Seq(Entry)
  BY LenProperties, EmptySeq DEF Chains, Linked
<1>1. q[Len(q)] \in Lines(es)
  BY <1>0 DEF Linked
<1>2. Has(es, x)
  BY <1>1, ById1
<1>3. Linked(es, p) /\ p[Len(p)].id = x /\ ~ Has(es, p[1].parent)
  BY <1>2, PathFound
<1> HIDE DEF p
<1>4. Len(p) \in Nat \ {0} /\ p \in Seq(Entry)
  BY <1>3, LenProperties, EmptySeq DEF Linked
<1>5. \A k \in Nat : k < Len(p) /\ k < Len(q) => p[Len(p) - k] = q[Len(q) - k]
  BY <1>0, <1>3, SameWayUp
<1>6. ASSUME Len(p) < Len(q) PROVE FALSE
  <2> DEFINE j == Len(q) - Len(p)
  <2>1. Len(p) - 1 \in Nat /\ Len(p) - (Len(p) - 1) = 1 /\ Len(q) - (Len(p) - 1) = j + 1
        /\ j \in 1..(Len(q) - 1) /\ Len(p) - 1 < Len(p) /\ Len(p) - 1 < Len(q)
    BY <1>0, <1>4, <1>6
  <2>2. p[1] = q[j + 1]
    BY <1>5, <2>1
  <2>3. q[j + 1].parent = q[j].id /\ q[j] \in Lines(es)
    BY <1>0, <2>1 DEF Linked
  <2>4. Has(es, q[j].id)
    BY <2>3, ById1
  <2>. QED BY <1>3, <2>2, <2>3, <2>4
<1>7. ASSUME Len(q) < Len(p) PROVE FALSE
  <2> DEFINE j == Len(p) - Len(q)
  <2>1. Len(q) - 1 \in Nat /\ Len(q) - (Len(q) - 1) = 1 /\ Len(p) - (Len(q) - 1) = j + 1
        /\ j \in 1..(Len(p) - 1) /\ Len(q) - 1 < Len(p) /\ Len(q) - 1 < Len(q)
    BY <1>0, <1>4, <1>7
  <2>2. q[1] = p[j + 1]
    BY <1>5, <2>1
  <2>3. p[j + 1].parent = p[j].id /\ p[j] \in Entry
    BY <1>3, <1>4, <2>1, ElementOfSeq DEF Linked
  <2>. QED BY <1>0, <2>2, <2>3, EntryTyped
<1>8. Len(p) = Len(q)
  BY <1>0, <1>4, <1>6, <1>7
<1>9. ASSUME NEW i \in 1..Len(p) PROVE p[i] = q[i]
  <2>1. Len(p) - i \in Nat /\ Len(p) - i < Len(p) /\ Len(p) - (Len(p) - i) = i
    BY <1>4
  <2>. QED BY <1>5, <1>8, <2>1
<1>10. p = q
  BY <1>0, <1>4, <1>8, <1>9, SeqEqual
<1>. QED BY <1>2, <1>10 DEF p

LEMMA PathTyped ==
  ASSUME NEW es, Tree(es), NEW x
  PROVE  /\ PathOf(es, x) \in Seq(Entry) /\ Len(PathOf(es, x)) \in Nat
         /\ \A i \in 1..Len(PathOf(es, x)) : PathOf(es, x)[i] \in Lines(es)
         /\ PathOf(es, x) # <<>> => Linked(es, PathOf(es, x)) /\ Len(PathOf(es, x)) # 0
<1>1. CASE Has(es, x)
  <2> DEFINE p == PathOf(es, x)
  <2>1. Linked(es, p)
    BY <1>1, PathFound
  <2> HIDE DEF p
  <2>2. /\ p \in Seq(Entry) /\ p # <<>>
        /\ \A i \in 1..Len(p) : p[i] \in Lines(es)
    BY <2>1 DEF Linked
  <2>3. Len(p) \in Nat \ {0}
    BY <2>2, EmptySeq
  <2>. QED BY <2>1, <2>2, <2>3 DEF p
<1>2. CASE ~ Has(es, x)
  <2>1. PathOf(es, x) = <<>>
    BY <1>2, NoPath
  <2>2. <<>> \in Seq(Entry) /\ Len(<<>>) = 0
    BY EmptySeq
  <2>3. \A i \in 1..Len(<<>>) : <<>>[i] \in Lines(es)
    BY <2>2
  <2>. QED BY <2>1, <2>2, <2>3
<1>. QED BY <1>1, <1>2

LEMMA WholePath ==
  ASSUME NEW es, Tree(es), NEW x, PathOf(es, x) # <<>>, PathOf(es, x)[1].parent = None
  PROVE  PathOf(es, x) \in Chains(es) /\ PathOf(es, x)[Len(PathOf(es, x))].id = x
<1>1. Has(es, x)
  BY NoPath
<1>. QED BY <1>1, PathFound DEF Chains, Linked

-----------------------------------------------------------------------------
(* What holds of every chain.                                              *)

\* The last entry before position i that is no label is a reply or a result.
Answers(p, i) ==
  \E j \in 1..(i - 1) : /\ p[j].kind \in {"assistant", "result"}
                        /\ \A k \in (j + 1)..(i - 1) : p[k].kind = "label"

\* The first entry from m on that is no label, if before c, is no result.
CleanCut(p, m, c) ==
  \A r \in m..(c - 1) :
    p[r].kind = "result" => \E k \in m..(r - 1) : p[k].kind # "label"

GoodAt(p, i) ==
  /\ p[i].kind = "result" => Answers(p, i)
  /\ p[i].kind = "compaction" =>
       \A m \in 1..(i - 1) : p[m].id = p[i].ref =>
         /\ CleanCut(p, m, i)
         /\ (\A k \in 1..(i - 1) : p[k].kind # "compaction")
              => p[i].covers = Ids(p, 1, m - 1)

Good(p) == \A i \in 1..Len(p) : GoodAt(p, i)
GoodChains(es) == \A p \in Chains(es) : Good(p)

\* They are facts about the entries up to i.
LEMMA AnswersAgree ==
  ASSUME NEW p, NEW q, NEW i \in Nat, \A k \in 1..(i - 1) : p[k] = q[k], Answers(p, i)
  PROVE  Answers(q, i)
<1>1. PICK j \in 1..(i - 1) : /\ p[j].kind \in {"assistant", "result"}
                              /\ \A k \in (j + 1)..(i - 1) : p[k].kind = "label"
  BY DEF Answers
<1>2. \A k \in (j + 1)..(i - 1) : k \in 1..(i - 1)
  OBVIOUS
<1>3. \A k \in (j + 1)..(i - 1) : q[k].kind = "label"
  BY <1>1, <1>2
<1>4. q[j].kind \in {"assistant", "result"}
  BY <1>1
<1>. QED BY <1>3, <1>4 DEF Answers

LEMMA IdsAgree ==
  ASSUME NEW p, NEW q, NEW n \in Int, \A k \in 1..n : p[k] = q[k]
  PROVE  Ids(p, 1, n) = Ids(q, 1, n)
<1>1. {k \in 1..n : p[k].kind \in InContext} = {k \in 1..n : q[k].kind \in InContext}
  OBVIOUS
<1>2. \A k \in {k \in 1..n : q[k].kind \in InContext} : p[k].id = q[k].id
  OBVIOUS
<1> DEFINE at == {k \in 1..n : q[k].kind \in InContext}
<1>3. Ids(p, 1, n) = {p[k].id : k \in at} /\ Ids(q, 1, n) = {q[k].id : k \in at}
  BY <1>1 DEF Ids
<1>4. \A k \in at : p[k].id = q[k].id
  BY <1>2
<1> HIDE DEF at
<1>. QED BY <1>3, <1>4

LEMMA GoodAgrees ==
  ASSUME NEW p, NEW q, NEW i \in Nat \ {0}, \A k \in 1..i : p[k] = q[k], GoodAt(p, i)
  PROVE  GoodAt(q, i)
<1>0. p[i] = q[i] /\ \A k \in 1..(i - 1) : p[k] = q[k]
  OBVIOUS
<1>1. q[i].kind = "result" => Answers(q, i)
  BY <1>0, AnswersAgree DEF GoodAt
<1>2. ASSUME q[i].kind = "compaction", NEW m \in 1..(i - 1), q[m].id = q[i].ref
      PROVE  /\ CleanCut(q, m, i)
             /\ (\A k \in 1..(i - 1) : q[k].kind # "compaction")
                  => q[i].covers = Ids(q, 1, m - 1)
  <2>1. /\ CleanCut(p, m, i)
        /\ (\A k \in 1..(i - 1) : p[k].kind # "compaction")
             => p[i].covers = Ids(p, 1, m - 1)
    BY <1>0, <1>2 DEF GoodAt
  <2>2. CleanCut(q, m, i)
    <3>1. \A r \in m..(i - 1) : p[r] = q[r] /\ \A k \in m..(r - 1) : p[k] = q[k]
      OBVIOUS
    <3>. QED BY <2>1, <3>1 DEF CleanCut
  <2>3. Ids(p, 1, m - 1) = Ids(q, 1, m - 1)
    <3>1. m - 1 \in Int /\ \A k \in 1..(m - 1) : p[k] = q[k]
      OBVIOUS
    <3>. QED BY <3>1, IdsAgree
  <2>4. (\A k \in 1..(i - 1) : q[k].kind # "compaction")
          => (\A k \in 1..(i - 1) : p[k].kind # "compaction")
    BY <1>0
  <2>. QED BY <1>0, <2>1, <2>2, <2>3, <2>4
<1>. QED BY <1>1, <1>2 DEF GoodAt

-----------------------------------------------------------------------------
(* How the tree changes.                                                   *)

\* The head of a chain of ds whose entries are all in es is a chain of es.
LEMMA ChainHead ==
  ASSUME NEW es, NEW ds, NEW p \in Chains(ds), NEW i \in 1..Len(p),
         \A k \in 1..i : p[k] \in Lines(es)
  PROVE  /\ SubSeq(p, 1, i) \in Chains(es) /\ Len(SubSeq(p, 1, i)) = i
         /\ \A k \in 1..i : SubSeq(p, 1, i)[k] = p[k]
<1> DEFINE q == SubSeq(p, 1, i)
<1>0. Linked(ds, p) /\ p[1].parent = None /\ Len(p) \in Nat /\ p \in Seq(Entry)
  BY LenProperties DEF Chains
<1>1. \A k \in 1..i : p[k] \in Entry
  BY <1>0, ElementOfSeq
<1>2. /\ q \in Seq(Entry) /\ Len(q) = (IF 1 <= i THEN i - 1 + 1 ELSE 0)
      /\ \A k \in 1..(i - 1 + 1) : q[k] = p[1 + k - 1]
  BY <1>0, <1>1, SubSeqProperties
<1> HIDE DEF q
<1>3. Len(q) = i /\ \A k \in 1..i : q[k] = p[k]
  BY <1>0, <1>2
<1>4. q # <<>> /\ q[1].parent = None
  BY <1>0, <1>3, EmptySeq
<1>5. \A k \in 1..Len(q) : q[k] \in Lines(es)
  BY <1>3
<1>6. ASSUME NEW k \in 1..(Len(q) - 1) PROVE q[k + 1].parent = q[k].id
  <2>1. k \in 1..i /\ k + 1 \in 1..i /\ k \in 1..(Len(p) - 1)
    BY <1>0, <1>3
  <2>. QED BY <1>0, <1>3, <2>1 DEF Linked
<1>. QED BY <1>2, <1>3, <1>4, <1>5, <1>6 DEF Chains, Linked, q

LEMMA TreeShrinks ==
  ASSUME NEW es, Tree(es), NEW ds \in Seq(Entry), Lines(ds) \subseteq Lines(es)
  PROVE  Tree(ds) /\ Chains(ds) \subseteq Chains(es)
BY DEF Tree, Chains, Linked

LEMMA LinesAppended ==
  ASSUME NEW es \in Seq(Entry), NEW e \in Entry
  PROVE  Append(es, e) \in Seq(Entry) /\ Lines(Append(es, e)) = Lines(es) \cup {e}
<1>1. /\ Append(es, e) \in Seq(Entry) /\ Len(Append(es, e)) = Len(es) + 1
      /\ \A i \in 1..Len(es) : Append(es, e)[i] = es[i]
      /\ Append(es, e)[Len(es) + 1] = e
      /\ Len(es) \in Nat
  BY AppendProperties, LenProperties
<1>2. \A x \in Lines(Append(es, e)) : x \in Lines(es) \cup {e}
  BY <1>1 DEF Lines
<1>3. \A x \in Lines(es) : x \in Lines(Append(es, e))
  BY <1>1 DEF Lines
<1>4. e \in Lines(Append(es, e))
  BY <1>1 DEF Lines
<1>. QED BY <1>1, <1>2, <1>3, <1>4

LEMMA TreeGrows ==
  ASSUME NEW es, Tree(es), NEW e \in Entry, WellMade(e), \A f \in Lines(es) : f.id < e.id
  PROVE  Tree(Append(es, e))
<1>1. \A f \in Lines(es) : f.id # e.id
  BY LinesTyped, EntryTyped DEF Tree
<1>. QED BY <1>1, LinesAppended DEF Tree

\* Where the new entry is on a chain, the chain above it is an old one.
LEMMA ChainAbove ==
  ASSUME NEW es, Tree(es), NEW e \in Entry, WellMade(e), \A f \in Lines(es) : f.id < e.id,
         NEW p \in Chains(Append(es, e)), NEW i \in 1..Len(p), p[i] = e
  PROVE  \/ i = 1 /\ e.parent = None
         \/ /\ i - 1 \in 1..Len(p) /\ p[i - 1].id = e.parent
            /\ \A k \in 1..(i - 1) : p[k] \in Lines(es)
<1> DEFINE ds == Append(es, e)
<1>0. /\ Tree(ds) /\ Lines(ds) = Lines(es) \cup {e}
      /\ Linked(ds, p) /\ p[1].parent = None /\ Len(p) \in Nat /\ p \in Seq(Entry)
  BY TreeGrows, LinesAppended, LenProperties DEF Chains, Tree
<1> HIDE DEF ds
<1>1. CASE i = 1
  BY <1>0, <1>1
<1>2. CASE i # 1
  <2>1. i - 1 \in 1..(Len(p) - 1) /\ (i - 1) + 1 = i /\ i - 1 \in 1..Len(p)
    BY <1>0, <1>2
  <2>2. p[i - 1].id = e.parent
    BY <1>0, <2>1 DEF Linked
  <2>3. ASSUME NEW k \in 1..(i - 1) PROVE p[k] \in Lines(es)
    <3>1. k \in 1..Len(p) /\ k < i
      BY <1>0
    <3>2. p[k].id < e.id
      BY <1>0, <3>1, ChainGrows
    <3>3. p[k] # e
      BY <3>2, EntryTyped
    <3>. QED BY <1>0, <3>1, <3>3 DEF Linked
  <2>. QED BY <2>1, <2>2, <2>3
<1>. QED BY <1>1, <1>2

\* One more entry: it is enough to look at it where it is added.
LEMMA GoodGrows ==
  ASSUME NEW es, Tree(es), GoodChains(es),
         NEW e \in Entry, WellMade(e), \A f \in Lines(es) : f.id < e.id,
         e.parent = None => \A p \in Seq(Entry) : p[1] = e => GoodAt(p, 1),
         \A q \in Chains(es) : q[Len(q)].id = e.parent =>
           \A p \in Seq(Entry) : (p[Len(q) + 1] = e /\ \A k \in 1..Len(q) : p[k] = q[k])
             => GoodAt(p, Len(q) + 1)
  PROVE  Tree(Append(es, e)) /\ GoodChains(Append(es, e))
<1> DEFINE ds == Append(es, e)
<1>0. Tree(ds) /\ Lines(ds) = Lines(es) \cup {e}
  BY TreeGrows, LinesAppended DEF Tree
<1>1. SUFFICES ASSUME NEW p \in Chains(ds), NEW i \in 1..Len(p) PROVE GoodAt(p, i)
  BY <1>0 DEF GoodChains, Good
<1>2. /\ Linked(ds, p) /\ Len(p) \in Nat /\ p \in Seq(Entry) /\ i \in Nat \ {0}
      /\ p[1].parent = None
  BY <1>1, LenProperties DEF Chains
<1>3. CASE p[i] = e
  <2>1. CASE i = 1 /\ e.parent = None
    BY <1>2, <1>3, <2>1
  <2>2. CASE /\ i - 1 \in 1..Len(p) /\ p[i - 1].id = e.parent
             /\ \A k \in 1..(i - 1) : p[k] \in Lines(es)
    <3> DEFINE q == SubSeq(p, 1, i - 1)
    <3>1. q \in Chains(es) /\ Len(q) = i - 1 /\ \A k \in 1..(i - 1) : q[k] = p[k]
      BY <1>1, <2>2, ChainHead
    <3> HIDE DEF q
    <3>2. i - 1 \in 1..(i - 1) /\ Len(q) + 1 = i
      BY <1>2, <2>2, <3>1
    <3>3. q[Len(q)].id = e.parent
      BY <2>2, <3>1, <3>2
    <3>. QED BY <1>2, <1>3, <3>1, <3>2, <3>3
  <2>. QED BY <1>1, <1>3, <2>1, <2>2, ChainAbove
<1>4. CASE p[i] # e
  <2>1. ASSUME NEW k \in 1..i PROVE p[k] \in Lines(es)
    <3>1. k \in 1..Len(p) /\ (k = i \/ k < i) /\ p[i] \in Lines(ds) /\ p[k] \in Lines(ds)
      BY <1>1, <1>2 DEF Linked
    <3>2. p[i] \in Lines(es) /\ p[i].id < e.id
      BY <1>0, <1>4, <3>1
    <3>3. k < i => p[k].id < p[i].id
      BY <1>0, <1>1, <1>2, <3>1, ChainGrows
    <3>4. p[k] \in Entry /\ p[i] \in Entry
      BY <1>0, <3>1, LinesTyped DEF Tree
    <3>5. p[k].id \in Nat /\ p[i].id \in Nat /\ e.id \in Nat
      BY <3>4, EntryTyped
    <3>6. p[k] # e
      BY <1>4, <3>1, <3>2, <3>3, <3>5
    <3>. QED BY <1>0, <3>1, <3>6
  <2> DEFINE q == SubSeq(p, 1, i)
  <2>2. q \in Chains(es) /\ Len(q) = i /\ \A k \in 1..i : q[k] = p[k]
    BY <1>1, <2>1, ChainHead
  <2> HIDE DEF q
  <2>3. GoodAt(q, i)
    BY <1>2, <2>2 DEF GoodChains, Good
  <2>. QED BY <1>2, <2>2, <2>3, GoodAgrees
<1>. QED BY <1>3, <1>4

-----------------------------------------------------------------------------
(* Compaction: where it cuts and what its summary covers.                  *)

LEMMA LastCompactionFacts ==
  ASSUME NEW p \in Seq(Entry)
  PROVE  /\ LastCompaction(p) \in 0..Len(p) /\ Len(p) \in Nat
         /\ LastCompaction(p) # 0 => p[LastCompaction(p)].kind = "compaction"
         /\ \A k \in 1..Len(p) : p[k].kind = "compaction" => k <= LastCompaction(p)
<1> DEFINE at == {i \in 1..Len(p) : p[i].kind = "compaction"}
<1>0. Len(p) \in Nat
  BY LenProperties
<1>1. at \subseteq 0..Len(p)
  BY <1>0
<1>2. CASE at = {}
  <2>1. LastCompaction(p) = 0
    BY <1>2 DEF LastCompaction
  <2>. QED BY <1>0, <1>2, <2>1
<1>3. CASE at # {}
  <2>1. LastCompaction(p) = Max(at)
    BY <1>3 DEF LastCompaction
  <2>2. Max(at) \in at /\ \A y \in at : Max(at) >= y
    BY <1>0, <1>1, <1>3, MaxOf
  <2>3. \A y \in at : y <= LastCompaction(p)
    BY <1>0, <2>1, <2>2
  <2>. QED BY <1>0, <2>1, <2>2, <2>3
<1>. QED BY <1>2, <1>3

LEMMA BudgetCutFacts ==
  ASSUME NEW p \in Seq(Entry), NEW start \in 1..Len(p), NEW keep
  PROVE  /\ BudgetCut(p, start, keep) \in start..Len(p)
         /\ \/ p[BudgetCut(p, start, keep)].kind \in CutKinds
            \/ /\ BudgetCut(p, start, keep) = start
               /\ \A i \in start..Len(p) : p[i].kind \notin CutKinds
<1> DEFINE weight(i) == Cardinality({k \in i..Len(p) : p[k].kind \in Messages})
           cuts == {i \in start..Len(p) : p[i].kind \in CutKinds}
           full == {i \in start..Len(p) : p[i].kind \in Messages /\ weight(i) >= keep}
           near == IF full = {} THEN {} ELSE {c \in cuts : c >= Max(full)}
           b == BudgetCut(p, start, keep)
<1>0. Len(p) \in Nat
  BY LenProperties
<1>1. b = IF cuts = {} THEN start ELSE IF near = {} THEN Min(cuts) ELSE Min(near)
  BY DEF BudgetCut
<1>2. near \subseteq cuts /\ cuts \subseteq Nat
  BY <1>0
<1> HIDE DEF near
<1>3. CASE cuts = {}
  BY <1>0, <1>1, <1>3
<1>4. CASE cuts # {}
  <2>1. \E t \in SUBSET cuts : t # {} /\ b = Min(t)
    BY <1>1, <1>2, <1>4
  <2>2. b \in cuts
    BY <1>2, <2>1, MinOf
  <2>. QED BY <2>2
<1>. QED BY <1>3, <1>4

LEMMA FindCutFacts ==
  ASSUME NEW p \in Seq(Entry), NEW start \in 1..Len(p), NEW keep
  PROVE  /\ FindCut(p, start, keep) \in start..BudgetCut(p, start, keep)
         /\ \A k \in FindCut(p, start, keep)..(BudgetCut(p, start, keep) - 1) :
              p[k].kind \notin Messages \cup {"compaction"}
<1> DEFINE b == BudgetCut(p, start, keep)
           at == {j \in start..b : \A k \in j..(b - 1) :
                    p[k].kind \notin Messages \cup {"compaction"}}
<1>0. b \in start..Len(p) /\ Len(p) \in Nat
  BY BudgetCutFacts, LenProperties
<1>1. FindCut(p, start, keep) = Min(at)
  BY DEF FindCut
<1> HIDE DEF b
<1>2. b \in at
  BY <1>0
<1>3. at \subseteq Nat
  BY <1>0
<1>4. Min(at) \in at
  BY <1>2, <1>3, MinOf
<1>. QED BY <1>1, <1>4 DEF b

\* Nothing that is kept starts with a result: on a good chain a result that is
\* not before the last compaction has its reply after it as well.
LEMMA CutIsClean ==
  ASSUME NEW p \in Seq(Entry), Good(p), NEW start, start = LastCompaction(p) + 1,
         start \in 1..Len(p), NEW keep,
         NEW r \in FindCut(p, start, keep)..Len(p), p[r].kind = "result"
  PROVE  \E k \in FindCut(p, start, keep)..(r - 1) : p[k].kind # "label"
<1> DEFINE b == BudgetCut(p, start, keep)
           c == FindCut(p, start, keep)
           comp == LastCompaction(p)
<1>0. /\ Len(p) \in Nat /\ b \in start..Len(p) /\ c \in start..b
      /\ \A k \in c..(b - 1) : p[k].kind \notin Messages \cup {"compaction"}
      /\ comp \in 0..Len(p)
      /\ comp # 0 => p[comp].kind = "compaction"
  BY LenProperties, BudgetCutFacts, FindCutFacts, LastCompactionFacts
<1>1. p[b].kind \in CutKinds \/ (b = start /\ \A i \in start..Len(p) : p[i].kind \notin CutKinds)
  BY BudgetCutFacts
<1>2. start = comp + 1 /\ r \in c..Len(p)
  OBVIOUS
<1> HIDE DEF b, c, comp
<1>3. CASE p[b].kind \in CutKinds
  <2>1. r # b
    BY <1>3 DEF CutKinds
  <2>2. ~ (r < b)
    BY <1>0, <1>2 DEF Messages
  <2>3. b \in c..(r - 1) /\ p[b].kind # "label"
    BY <1>0, <1>2, <1>3, <2>1, <2>2 DEF CutKinds
  <2>. QED BY <2>3 DEF c
<1>4. CASE b = start /\ \A i \in start..Len(p) : p[i].kind \notin CutKinds
  <2> DEFINE T == {i \in start..Len(p) : p[i].kind = "result"}
  <2>1. r \in T /\ T \subseteq Nat
    BY <1>0, <1>2
  <2>2. PICK i \in T : \A l \in T : i <= l
    BY <2>1, LeastOfNats
  <2>3. i \in 1..Len(p) /\ i \in start..Len(p) /\ p[i].kind = "result"
    BY <1>0, <1>2, <2>2
  <2>4. Answers(p, i)
    BY <2>3 DEF Good, GoodAt
  <2>5. PICK j \in 1..(i - 1) : /\ p[j].kind \in {"assistant", "result"}
                                /\ \A k \in (j + 1)..(i - 1) : p[k].kind = "label"
    BY <2>4 DEF Answers
  <2>6. ~ (j >= start)
    <3>1. SUFFICES ASSUME j >= start PROVE FALSE
      OBVIOUS
    <3>2. j \in start..Len(p) /\ j < i
      BY <1>0, <2>3, <2>5, <3>1
    <3>3. p[j].kind # "result"
      BY <2>2, <2>3, <3>2
    <3>4. p[j].kind = "assistant"
      BY <2>5, <3>3
    <3>. QED BY <1>4, <3>2, <3>4 DEF CutKinds
  <2>7. j < comp \/ j = comp
    BY <1>0, <1>2, <2>3, <2>5, <2>6
  <2>8. comp # 0
    BY <2>5, <2>7
  <2>9. j # comp
    BY <1>0, <2>5, <2>8
  <2>10. comp \in (j + 1)..(i - 1)
    <3>1. comp < i
      BY <1>0, <1>2, <2>3
    <3>. QED BY <1>0, <2>3, <2>5, <2>7, <2>9, <3>1
  <2>. QED BY <1>0, <2>5, <2>8, <2>10
<1>. QED BY <1>1, <1>3, <1>4

LEMMA IdsTyped ==
  ASSUME NEW p \in Seq(Entry), NEW m \in Nat \ {0}, NEW n \in Int, n <= Len(p)
  PROVE  Ids(p, m, n) \subseteq Id
<1>1. Len(p) \in Nat
  BY LenProperties
<1>2. \A i \in m..n : p[i] \in Entry
  BY <1>1, ElementOfSeq
<1>3. \A i \in m..n : p[i].id \in Id
  BY <1>2, EntryTyped
<1>. QED BY <1>3 DEF Ids

LEMMA IdsSplit ==
  ASSUME NEW p, NEW m \in Nat, NEW t \in Int, NEW n \in Int, m <= t, t <= n + 1
  PROVE  Ids(p, m, t - 1) \cup Ids(p, t, n) = Ids(p, m, n)
<1>1. \A i \in m..n : i \in m..(t - 1) \/ i \in t..n
  OBVIOUS
<1>2. \A i \in m..(t - 1) : i \in m..n
  OBVIOUS
<1>3. \A i \in t..n : i \in m..n
  OBVIOUS
<1>4. \A x \in Ids(p, m, n) : x \in Ids(p, m, t - 1) \cup Ids(p, t, n)
  BY <1>1 DEF Ids
<1>5. \A x \in Ids(p, m, t - 1) \cup Ids(p, t, n) : x \in Ids(p, m, n)
  BY <1>2, <1>3 DEF Ids
<1>. QED BY <1>4, <1>5

LEMMA TurnStartFacts ==
  ASSUME NEW p, NEW start \in Nat \ {0}, NEW c \in Nat
  PROVE  TurnStart(p, c, start) = 0 \/ TurnStart(p, c, start) \in start..c
<1> DEFINE at == {i \in start..c : p[i].kind \in {"user", "branchSummary"}}
<1>1. TurnStart(p, c, start) = IF at = {} THEN 0 ELSE Max(at)
  BY DEF TurnStart
<1>2. at \subseteq 0..c
  OBVIOUS
<1>3. at # {} => Max(at) \in at
  BY <1>2, MaxOf
<1>. QED BY <1>1, <1>3

\* What is kept starts at an entry of the path after the last compaction; the
\* first summary covers the messages before it.
LEMMA PrepareFacts ==
  ASSUME NEW p \in Seq(Entry), CanCompact(p), NEW keep
  PROVE  LET c == FindCut(p, LastCompaction(p) + 1, keep)
             r == Prepare(p, keep)
         IN  /\ LastCompaction(p) + 1 \in 1..Len(p) /\ c \in 1..Len(p)
             /\ r.firstKept = p[c].id /\ r.covers \subseteq Id
             /\ LastCompaction(p) = 0 => r.covers = Ids(p, 1, c - 1)
<1> DEFINE prev == LastCompaction(p)
           start == prev + 1
           c == FindCut(p, start, keep)
           turn == IF p[c].kind = "user" THEN 0 ELSE TurnStart(p, c, start)
           split == turn # 0
           history == Ids(p, start, (IF split THEN turn ELSE c) - 1)
           prefix == IF split THEN Ids(p, turn, c - 1) ELSE {}
           previous == IF prev = 0 THEN {} ELSE p[prev].covers
           r == Prepare(p, keep)
<1>1. /\ r.firstKept = p[c].id
      /\ r.covers = IF prefix # {} /\ history = {} THEN prefix
                    ELSE history \cup prefix \cup previous
  BY DEF Prepare
<1>2. Len(p) \in Nat \ {0} /\ p[Len(p)].kind # "compaction"
  BY EmptySeq DEF CanCompact
<1>3. /\ prev \in 0..Len(p)
      /\ prev # 0 => p[prev].kind = "compaction"
  BY LastCompactionFacts
<1> HIDE DEF r, prev
<1>4. prev < Len(p)
  BY <1>2, <1>3
<1>5. start \in 1..Len(p)
  BY <1>2, <1>3, <1>4
<1> HIDE DEF start
<1>6. BudgetCut(p, start, keep) \in start..Len(p) /\ c \in start..BudgetCut(p, start, keep)
  BY <1>5, BudgetCutFacts, FindCutFacts
<1> HIDE DEF c
<1>7. c \in 1..Len(p) /\ c \in start..Len(p)
  BY <1>2, <1>5, <1>6
<1>8. turn = 0 \/ turn \in start..c
  BY <1>2, <1>5, <1>7, TurnStartFacts
<1> HIDE DEF turn
<1>9. history \cup prefix = Ids(p, start, c - 1)
  <2>1. CASE split
    <3>1. start \in Nat /\ turn \in Int /\ c - 1 \in Int /\ start <= turn /\ turn <= (c - 1) + 1
      BY <1>2, <1>5, <1>7, <1>8, <2>1
    <3>2. Ids(p, start, turn - 1) \cup Ids(p, turn, c - 1) = Ids(p, start, c - 1)
      <4> DEFINE n == c - 1
      <4>1. n \in Int /\ turn <= n + 1
        BY <3>1
      <4> HIDE DEF n
      <4>2. Ids(p, start, turn - 1) \cup Ids(p, turn, n) = Ids(p, start, n)
        BY <3>1, <4>1, IdsSplit
      <4>. QED BY <4>2 DEF n
    <3>. QED BY <2>1, <3>2
  <2>2. CASE ~ split
    BY <2>2
  <2>. QED BY <2>1, <2>2
<1>10. r.covers \subseteq history \cup prefix \cup previous
  BY <1>1
<1>11. Ids(p, start, c - 1) \subseteq Id
  <2>1. start \in Nat \ {0} /\ c - 1 \in Int /\ c - 1 <= Len(p)
    BY <1>2, <1>5, <1>7
  <2>. QED BY <2>1, IdsTyped
<1>12. previous \subseteq Id
  <2>1. CASE prev # 0
    <3>1. p[prev] \in Entry
      BY <1>2, <1>3, <2>1, ElementOfSeq
    <3>. QED BY <2>1, <3>1, EntryTyped
  <2>. QED BY <2>1
<1>13. r.covers \subseteq Id
  BY <1>9, <1>10, <1>11, <1>12
<1>14. ASSUME prev = 0 PROVE r.covers = Ids(p, 1, c - 1)
  <2>1. previous = {} /\ start = 1
    BY <1>14 DEF start
  <2>2. r.covers = history \cup prefix
    BY <1>1, <2>1
  <2>. QED BY <1>9, <2>1, <2>2
<1>. QED BY <1>1, <1>5, <1>7, <1>13, <1>14 DEF r, c, start, prev

\* An id is at one position of a path.
LEMMA OnePosition ==
  ASSUME NEW es, Tree(es), NEW p, Linked(es, p), NEW i \in 1..Len(p), NEW j \in 1..Len(p),
         p[i].id = p[j].id
  PROVE  i = j
<1>1. Len(p) \in Nat /\ p[i] \in Entry /\ p[j] \in Entry
  BY LenProperties, ElementOfSeq DEF Linked
<1>2. p[i].id \in Nat /\ p[j].id \in Nat
  BY <1>1, EntryTyped
<1>3. CASE i < j
  <2>1. p[i].id < p[j].id
    BY <1>3, ChainGrows
  <2>. QED BY <1>2, <2>1
<1>4. CASE j < i
  <2>1. p[j].id < p[i].id
    BY <1>4, ChainGrows
  <2>. QED BY <1>2, <2>1
<1>. QED BY <1>1, <1>3, <1>4

\* The entry that compact() adds to a good chain.
LEMMA CompactionIsGood ==
  ASSUME NEW es, Tree(es), NEW q \in Chains(es), Good(q), CanCompact(q), NEW keep,
         NEW p \in Seq(Entry), \A k \in 1..Len(q) : p[k] = q[k],
         p[Len(q) + 1].kind = "compaction",
         p[Len(q) + 1].ref = Prepare(q, keep).firstKept,
         p[Len(q) + 1].covers = Prepare(q, keep).covers
  PROVE  GoodAt(p, Len(q) + 1)
<1> DEFINE n == Len(q)
           c == FindCut(q, LastCompaction(q) + 1, keep)
           r == Prepare(q, keep)
<1>0. Linked(es, q) /\ q \in Seq(Entry) /\ n \in Nat
  BY LenProperties DEF Chains
<1>1. /\ LastCompaction(q) + 1 \in 1..n /\ c \in 1..n
      /\ r.firstKept = q[c].id
      /\ LastCompaction(q) = 0 => r.covers = Ids(q, 1, c - 1)
  BY <1>0, PrepareFacts
<1>2. \A s \in c..n : q[s].kind = "result" => \E k \in c..(s - 1) : q[k].kind # "label"
  BY <1>0, <1>1, CutIsClean
<1>3. /\ LastCompaction(q) \in 0..n
      /\ LastCompaction(q) # 0 => q[LastCompaction(q)].kind = "compaction"
  BY <1>0, LastCompactionFacts
<1> HIDE DEF c, r, n
<1>4. /\ \A k \in 1..n : p[k] = q[k]
      /\ p[n + 1].kind = "compaction" /\ p[n + 1].ref = r.firstKept /\ p[n + 1].covers = r.covers
  BY DEF n, r
<1>5. ASSUME NEW m \in 1..n, p[m].id = p[n + 1].ref
      PROVE  /\ CleanCut(p, m, n + 1)
             /\ (\A k \in 1..n : p[k].kind # "compaction")
                  => p[n + 1].covers = Ids(p, 1, m - 1)
  <2>1. q[m].id = q[c].id
    BY <1>1, <1>4, <1>5
  <2>2. m = c
    BY <1>0, <1>1, <2>1, OnePosition DEF n
  <2>3. CleanCut(p, m, n + 1)
    <3>1. SUFFICES ASSUME NEW s \in m..((n + 1) - 1), p[s].kind = "result"
                   PROVE  \E k \in m..(s - 1) : p[k].kind # "label"
      BY DEF CleanCut
    <3>2. s \in c..n /\ s \in 1..n /\ \A k \in c..(s - 1) : k \in 1..n
      BY <1>0, <1>1, <2>2
    <3>3. q[s].kind = "result"
      BY <1>4, <3>1, <3>2
    <3>4. PICK k \in c..(s - 1) : q[k].kind # "label"
      BY <1>2, <3>2, <3>3
    <3>. QED BY <1>4, <2>2, <3>2, <3>4
  <2>4. ASSUME \A k \in 1..n : p[k].kind # "compaction"
        PROVE  p[n + 1].covers = Ids(p, 1, m - 1)
    <3>1. LastCompaction(q) = 0
      BY <1>0, <1>3, <1>4, <2>4
    <3>2. Ids(p, 1, m - 1) = Ids(q, 1, m - 1)
      <4>1. m - 1 \in Int /\ \A k \in 1..(m - 1) : p[k] = q[k]
        BY <1>0, <1>4
      <4>. QED BY <4>1, IdsAgree
    <3>. QED BY <1>1, <1>4, <2>2, <3>1, <3>2
  <2>. QED BY <2>3, <2>4
<1>6. (n + 1) - 1 = n
  BY <1>0
<1>7. GoodAt(p, n + 1)
  BY <1>4, <1>5, <1>6 DEF GoodAt
<1>. QED BY <1>7 DEF n

-----------------------------------------------------------------------------
(* What the model is sent from a good chain.                               *)

LEMMA FirstSentFacts ==
  ASSUME NEW p \in Seq(Entry)
  PROVE  LET comp == LastCompaction(p)
             m == FirstSent(p)
         IN  \/ comp = 0 /\ m = 1
             \/ comp # 0 /\ m = comp + 1 /\ \A i \in 1..(comp - 1) : p[i].id # p[comp].ref
             \/ comp # 0 /\ m \in 1..(comp - 1) /\ p[m].id = p[comp].ref
<1> DEFINE comp == LastCompaction(p)
           first == {i \in 1..(comp - 1) : p[i].id = p[comp].ref}
<1>1. comp \in 0..Len(p) /\ Len(p) \in Nat
  BY LastCompactionFacts
<1>2. FirstSent(p) = IF first = {} THEN comp + 1 ELSE Min(first)
  BY DEF FirstSent
<1> HIDE DEF comp
<1>3. CASE first = {}
  <2>1. comp = 0 \/ comp # 0
    OBVIOUS
  <2>2. \A i \in 1..(comp - 1) : p[i].id # p[comp].ref
    BY <1>3
  <2>3. FirstSent(p) = comp + 1
    BY <1>2, <1>3
  <2>. QED BY <1>1, <2>1, <2>2, <2>3 DEF comp
<1>4. CASE first # {}
  <2>1. first \subseteq Nat
    BY <1>1
  <2>2. Min(first) \in first
    BY <1>4, <2>1, MinOf
  <2>3. comp # 0
    BY <1>1, <1>4
  <2>4. FirstSent(p) \in 1..(comp - 1) /\ p[FirstSent(p)].id = p[comp].ref
    BY <1>2, <1>4, <2>2
  <2>. QED BY <2>3, <2>4 DEF comp
<1>. QED BY <1>3, <1>4

LEMMA SentTyped ==
  ASSUME NEW p \in Seq(Entry)
  PROVE  /\ FirstSent(p) \in Nat \ {0} /\ Sent(p) \subseteq 1..Len(p) /\ Len(p) \in Nat
         /\ \A i \in Sent(p) : p[i] \in Entry /\ p[i].kind \in InContext
<1>1. FirstSent(p) \in Nat \ {0} /\ Len(p) \in Nat
  BY FirstSentFacts, LastCompactionFacts
<1>2. \A i \in FirstSent(p)..Len(p) : i \in 1..Len(p)
  BY <1>1
<1>. QED BY <1>1, <1>2, ElementOfSeq DEF Sent

\* A result is sent only together with what it answers.
LEMMA AnswerSent ==
  ASSUME NEW p \in Seq(Entry), Good(p), NEW i \in Sent(p), p[i].kind = "result"
  PROVE  \E j \in Sent(p) : /\ j < i /\ p[j].kind \in {"assistant", "result"}
                            /\ \A k \in Sent(p) : ~ (j < k /\ k < i)
<1> DEFINE comp == LastCompaction(p)
           m == FirstSent(p)
<1>0. /\ Len(p) \in Nat /\ m \in Nat \ {0} /\ i \in m..Len(p) /\ i \in 1..Len(p)
      /\ comp \in 0..Len(p)
      /\ comp # 0 => p[comp].kind = "compaction"
  BY SentTyped, LastCompactionFacts DEF Sent
<1>1. \/ comp = 0 /\ m = 1
      \/ comp # 0 /\ m = comp + 1 /\ \A k \in 1..(comp - 1) : p[k].id # p[comp].ref
      \/ comp # 0 /\ m \in 1..(comp - 1) /\ p[m].id = p[comp].ref
  BY FirstSentFacts
<1> HIDE DEF comp, m
<1>2. Answers(p, i)
  BY <1>0 DEF Good, GoodAt
<1>3. PICK j \in 1..(i - 1) : /\ p[j].kind \in {"assistant", "result"}
                              /\ \A k \in (j + 1)..(i - 1) : p[k].kind = "label"
  BY <1>2 DEF Answers
<1>4. comp # 0 => comp \notin (j + 1)..(i - 1) /\ comp # j /\ comp # i
  BY <1>0, <1>3
<1>5. j >= m
  <2>1. CASE comp = 0 /\ m = 1
    BY <1>3, <2>1
  <2>2. CASE comp # 0 /\ m = comp + 1
    BY <1>0, <1>3, <1>4, <2>2
  <2>3. CASE comp # 0 /\ m \in 1..(comp - 1) /\ p[m].id = p[comp].ref
    <3>1. SUFFICES ASSUME j < m PROVE FALSE
      BY <1>0, <1>3
    <3>2. i < comp
      BY <1>0, <1>3, <1>4, <2>3, <3>1
    <3>3. CleanCut(p, m, comp)
      BY <1>0, <2>3 DEF Good, GoodAt
    <3>4. i \in m..(comp - 1)
      BY <1>0, <3>2
    <3>5. PICK k \in m..(i - 1) : p[k].kind # "label"
      BY <3>3, <3>4 DEF CleanCut
    <3>6. k \in (j + 1)..(i - 1)
      BY <1>0, <1>3, <3>1, <3>5
    <3>. QED BY <1>3, <3>5, <3>6
  <2>. QED BY <1>1, <2>1, <2>2, <2>3
<1>6. j \in Sent(p)
  <2>1. j \in m..Len(p)
    BY <1>0, <1>3, <1>5
  <2>2. p[j].kind \in InContext
    BY <1>3 DEF InContext, Messages
  <2>. QED BY <2>1, <2>2 DEF Sent, m
<1>7. ASSUME NEW k \in Sent(p), j < k, k < i PROVE FALSE
  <2>1. k \in (j + 1)..(i - 1)
    BY <1>0, <1>3, <1>7, SentTyped
  <2>2. p[k].kind = "label"
    BY <1>3, <2>1
  <2>. QED BY <2>2, SentTyped DEF InContext, Messages
<1>. QED BY <1>0, <1>3, <1>6, <1>7

LEMMA NoOrphanOn ==
  ASSUME NEW p \in Seq(Entry), Good(p),
         NEW i \in 1..Len(Context(p)), Context(p)[i].kind = "result"
  PROVE  i > 1 /\ Context(p)[i - 1].kind \in {"assistant", "result"}
<1> DEFINE at == Sent(p)
           c == Context(p)
<1>0. Len(p) \in Nat /\ at \subseteq 1..Len(p) /\ \A k \in at : p[k] \in Entry
  BY SentTyped
<1>1. Len(c) = Size(at)
  BY <1>0, PickedFacts DEF Context
<1>2. \A k \in 1..Size(at) : c[k] = p[Nth(at, k)]
  BY PickedAt DEF Context
<1>3. /\ \A k \in 1..Size(at) : Nth(at, k) \in at /\ Count(at, Nth(at, k)) = k
      /\ \A j \in at : Count(at, j) \in 1..Size(at) /\ Nth(at, Count(at, j)) = j
      /\ \A k, l \in 1..Size(at) : k < l => Nth(at, k) < Nth(at, l)
  BY <1>0, NthFacts
<1>4. Size(at) \in Nat
  BY <1>0, PositionsFinite
<1> HIDE DEF c
<1> DEFINE h == Nth(at, i)
<1>5. i \in 1..Size(at) /\ h \in at /\ p[h].kind = "result"
  BY <1>1, <1>2, <1>3 DEF c
<1>6. PICK j \in at : /\ j < h /\ p[j].kind \in {"assistant", "result"}
                      /\ \A k \in at : ~ (j < k /\ k < h)
  BY <1>5, AnswerSent
<1> HIDE DEF at
<1> DEFINE l == Count(at, j)
<1>7. l \in 1..Size(at) /\ Nth(at, l) = j
  BY <1>3
<1> HIDE DEF l
<1>8. j \in Int /\ h \in Int
  <2>1. \A k \in at : k \in Int
    BY <1>0
  <2>. QED BY <1>5, <2>1
<1>9. l < i
  <2>1. CASE i < l
    <3>1. h < j
      BY <1>3, <1>5, <1>7, <2>1
    <3>. QED BY <1>6, <1>8, <3>1
  <2>2. CASE i = l
    BY <1>6, <1>7, <1>8, <2>2
  <2>. QED BY <1>4, <1>5, <1>7, <2>1, <2>2
<1>10. l = i - 1
  <2>1. SUFFICES ASSUME l # i - 1 PROVE FALSE
    OBVIOUS
  <2>2. l + 1 \in 1..Size(at) /\ l < l + 1 /\ l + 1 < i
    BY <1>4, <1>5, <1>7, <1>9, <2>1
  <2>3. Nth(at, l + 1) \in at /\ j < Nth(at, l + 1) /\ Nth(at, l + 1) < h
    BY <1>3, <1>5, <1>7, <2>2
  <2>. QED BY <1>6, <2>3
<1>11. i > 1 /\ c[i - 1] = p[j]
  BY <1>2, <1>4, <1>5, <1>7, <1>10
<1>. QED BY <1>6, <1>11 DEF c

\* One compaction on the path: its summary and what is sent make up the path.
LEMMA CompleteOn ==
  ASSUME NEW es, Tree(es), NEW p \in Chains(es), Good(p), NEW c \in 1..Len(p),
         p[c].kind = "compaction", \A k \in 1..Len(p) : p[k].kind = "compaction" => k = c,
         Has(p, p[c].ref)
  PROVE  LET sent == {Context(p)[i].id : i \in 1..Len(Context(p))}
         IN  /\ Ids(p, 1, Len(p)) = sent \cup Summarized(p)
             /\ sent \cap Summarized(p) = {}
<1> DEFINE m == FirstSent(p)
           n == Len(p)
           sent == {Context(p)[i].id : i \in 1..Len(Context(p))}
<1>0. /\ Linked(es, p) /\ p \in Seq(Entry) /\ n \in Nat
      /\ \A k \in 1..n : p[k] \in Entry /\ p[k] \in Lines(es)
  BY LenProperties, ElementOfSeq DEF Chains, Linked
<1>1. LastCompaction(p) = c
  <2>1. LastCompaction(p) \in 0..n /\ c <= LastCompaction(p)
    BY <1>0, LastCompactionFacts
  <2>2. LastCompaction(p) # 0
    BY <1>0, <2>1
  <2>. QED BY <1>0, <2>1, <2>2, LastCompactionFacts
<1>2. PICK a \in 1..n : p[a].id = p[c].ref
  BY DEF Has
<1>3. a < c
  <2>1. p[c].ref < p[c].id
    BY <1>0 DEF Tree, WellMade
  <2>2. p[a].id < p[c].id
    BY <1>2, <2>1
  <2>3. p[a].id \in Nat /\ p[c].id \in Nat
    BY <1>0, EntryTyped
  <2>4. ~ (c < a)
    <3>1. c < a => p[c].id < p[a].id
      BY <1>0, ChainGrows
    <3>. QED BY <2>2, <2>3, <3>1
  <2>5. a # c
    BY <2>2, <2>3
  <2>. QED BY <1>0, <2>4, <2>5
<1>4. m \in 1..(c - 1) /\ p[m].id = p[c].ref
  <2>1. c # 0 /\ a \in 1..(c - 1)
    BY <1>0, <1>3
  <2>. QED BY <1>0, <1>1, <1>2, <2>1, FirstSentFacts
<1>5. GoodAt(p, c)
  BY DEF Good
<1>6. \A k \in 1..(c - 1) : p[k].kind # "compaction"
  BY <1>0
<1>7. p[c].covers = Ids(p, 1, m - 1)
  BY <1>4, <1>5, <1>6 DEF GoodAt
<1>8. Summarized(p) = Ids(p, 1, m - 1)
  BY <1>0, <1>1, <1>7 DEF Summarized
<1>9. sent = Ids(p, m, n)
  <2>1. /\ \A k \in 1..Len(Context(p)) : \E i \in Sent(p) : Context(p)[k] = p[i]
        /\ \A i \in Sent(p) : \E k \in 1..Len(Context(p)) : Context(p)[k] = p[i]
    <3>1. TakenFrom(Context(p), p, Sent(p))
      BY <1>0, SentTyped, PickedElements DEF Context
    <3>. QED BY <3>1 DEF TakenFrom
  <2>2. Ids(p, m, n) = {p[i].id : i \in Sent(p)}
    BY DEF Ids, Sent
  <2>3. \A x \in sent : x \in Ids(p, m, n)
    BY <2>1, <2>2
  <2>4. \A x \in Ids(p, m, n) : x \in sent
    BY <2>1, <2>2
  <2>. QED BY <2>3, <2>4
<1>a. c \in 1..n
  OBVIOUS
<1> HIDE DEF m, n, sent
<1>10. Ids(p, 1, n) = sent \cup Summarized(p)
  <2>1. m \in Int /\ 1 <= m /\ m <= n + 1
    BY <1>a, <1>0, <1>4
  <2>2. Ids(p, 1, m - 1) \cup Ids(p, m, n) = Ids(p, 1, n)
    BY <1>0, <2>1, IdsSplit
  <2>. QED BY <1>8, <1>9, <2>2
<1>11. ASSUME NEW x \in sent, x \in Summarized(p) PROVE FALSE
  <2>1. PICK i \in m..n : x = p[i].id
    BY <1>9, <1>11 DEF Ids
  <2>2. PICK j \in 1..(m - 1) : x = p[j].id
    BY <1>8, <1>11 DEF Ids
  <2>3. i \in 1..n /\ j \in 1..n /\ i # j
    BY <1>0, <1>4
  <2>. QED BY <1>0, <2>1, <2>2, <2>3, OnePosition DEF n
<1>. QED BY <1>10, <1>11 DEF n, sent

-----------------------------------------------------------------------------
(* Labels.                                                                 *)

MarksOf(es, x) == {i \in 1..Len(es) : es[i].kind = "label" /\ es[i].ref = x}

LEMMA LabelledBy ==
  ASSUME NEW es, NEW x
  PROVE  x \in LabelsOf(es) <=> MarksOf(es, x) # {} /\ es[Max(MarksOf(es, x))].on
<1>1. x \in {es[i].ref : i \in {k \in 1..Len(es) : es[k].kind = "label"}} <=> MarksOf(es, x) # {}
  BY DEF MarksOf
<1>. QED BY <1>1 DEF LabelsOf, MarksOf

LEMMA LabelsTyped ==
  ASSUME NEW es, Tree(es)
  PROVE  LabelsOf(es) \subseteq Id
<1>1. ASSUME NEW x \in LabelsOf(es) PROVE x \in Id
  <2>1. PICK i \in 1..Len(es) : es[i].kind = "label" /\ es[i].ref = x
    <3>1. MarksOf(es, x) # {}
      BY <1>1, LabelledBy
    <3>. QED BY <3>1 DEF MarksOf
  <2>2. es[i] \in Entry /\ WellMade(es[i])
    BY LinesTyped DEF Tree
  <2>. QED BY <2>1, <2>2, EntryTyped DEF WellMade
<1>. QED BY <1>1

\* A new entry changes the label it is about, if it is about one.
LEMMA LabelAppended ==
  ASSUME NEW es \in Seq(Entry), NEW e \in Entry
  PROVE  LabelsOf(Append(es, e))
           = IF e.kind # "label" THEN LabelsOf(es)
             ELSE IF e.on THEN LabelsOf(es) \cup {e.ref}
             ELSE LabelsOf(es) \ {e.ref}
<1> DEFINE ds == Append(es, e)
           n == Len(es)
<1>0. /\ Len(ds) = n + 1 /\ n \in Nat /\ ds[n + 1] = e
      /\ \A i \in 1..n : ds[i] = es[i]
  BY AppendProperties, LenProperties
<1> HIDE DEF ds
<1>1. ASSUME NEW x, ~ (e.kind = "label" /\ e.ref = x)
      PROVE  x \in LabelsOf(ds) <=> x \in LabelsOf(es)
  <2>1. \A i : i \in MarksOf(ds, x) <=> i \in MarksOf(es, x)
    BY <1>0, <1>1 DEF MarksOf
  <2>2. MarksOf(ds, x) = MarksOf(es, x)
    BY <2>1
  <2>3. ASSUME MarksOf(es, x) # {}
        PROVE  ds[Max(MarksOf(es, x))] = es[Max(MarksOf(es, x))]
    <3>1. MarksOf(es, x) \subseteq 0..n
      BY <1>0 DEF MarksOf
    <3>2. Max(MarksOf(es, x)) \in MarksOf(es, x)
      BY <1>0, <2>3, <3>1, MaxOf
    <3>3. Max(MarksOf(es, x)) \in 1..n
      BY <3>2 DEF MarksOf
    <3>. QED BY <1>0, <3>3
  <2>. QED BY <2>2, <2>3, LabelledBy
<1>2. ASSUME e.kind = "label" PROVE e.ref \in LabelsOf(ds) <=> e.on
  <2> DEFINE at == MarksOf(ds, e.ref)
  <2>1. n + 1 \in at /\ at \subseteq 0..(n + 1) /\ \A i \in at : i <= n + 1
    BY <1>0, <1>2 DEF MarksOf
  <2>2. Max(at) \in at /\ \A y \in at : Max(at) >= y
    BY <1>0, <2>1, MaxOf
  <2>3. Max(at) = n + 1
    BY <1>0, <2>1, <2>2
  <2>. QED BY <1>0, <2>1, <2>3, LabelledBy
<1>3. CASE e.kind # "label"
  BY <1>1, <1>3 DEF ds
<1>4. CASE e.kind = "label"
  <2>1. \A x : x # e.ref => (x \in LabelsOf(ds) <=> x \in LabelsOf(es))
    BY <1>1
  <2>. QED BY <1>2, <1>4, <2>1 DEF ds
<1>. QED BY <1>3, <1>4

-----------------------------------------------------------------------------
(* The file.                                                               *)

\* The entries that can be read from it.
Held(d) == IF d = NoFile THEN {} ELSE {d[i] : i \in 1..Len(d)} \cap Entry

LEMMA LineOrFile ==
  /\ \A d \in Seq(Line) : d # NoFile
  /\ \A d \in Seq(Entry) : d \in Seq(Line) /\ d # NoFile
  /\ Entry \subseteq Line /\ Torn \in Line /\ Garbage \in Line
<1>1. Entry \subseteq Line /\ Torn \in Line /\ Garbage \in Line
  BY DEF Line
<1>2. \A d \in Seq(Entry) : d \in Seq(Line)
  BY <1>1, SeqMonotonic
<1>. QED BY <1>1, <1>2, TreeConstantsOK

LEMMA ReadableFacts ==
  ASSUME NEW d \in Seq(Line) \cup {NoFile}
  PROVE  Readable(d) \in Seq(Entry) /\ Lines(Readable(d)) = Held(d)
<1>1. CASE d = NoFile
  <2>1. Readable(d) = <<>>
    BY <1>1 DEF Readable
  <2>2. <<>> \in Seq(Entry) /\ Lines(<<>>) = {}
    BY EmptySeq DEF Lines
  <2>. QED BY <1>1, <2>1, <2>2 DEF Held
<1>2. CASE d # NoFile
  <2> DEFINE at == {i \in 1..Len(d) : d[i] \notin {Torn, Garbage}}
             r == Picked(d, at)
  <2>1. d \in Seq(Line) /\ Len(d) \in Nat /\ \A i \in 1..Len(d) : d[i] \in Line
    BY <1>2, LenProperties, ElementOfSeq
  <2>2. at \subseteq 1..Len(d) /\ \A i \in at : d[i] \in Entry
    BY <2>1 DEF Line
  <2>3. Readable(d) = r
    BY <1>2 DEF Readable
  <2>4. r \in Seq(Entry)
    BY <2>1, <2>2, PickedFacts
  <2>5. /\ \A k \in 1..Len(r) : \E i \in at : r[k] = d[i]
        /\ \A i \in at : \E k \in 1..Len(r) : r[k] = d[i]
    <3>1. Len(d) \in Nat /\ at \subseteq 1..Len(d)
      BY <2>1, <2>2
    <3> HIDE DEF at, r
    <3>2. TakenFrom(Picked(d, at), d, at)
      BY <3>1, PickedElements
    <3>. QED BY <3>2 DEF r, TakenFrom
  <2>6. \A x : x \in Held(d) <=> \E i \in at : x = d[i]
    <3>1. \A i \in 1..Len(d) : d[i] \in Entry <=> i \in at
      BY <2>1, TreeConstantsOK DEF Line
    <3>. QED BY <1>2, <3>1 DEF Held
  <2> HIDE DEF r, at
  <2>7. \A x : x \in Lines(r) <=> \E i \in at : x = d[i]
    BY <2>5 DEF Lines
  <2>8. Lines(r) = Held(d)
    BY <2>6, <2>7
  <2>. QED BY <2>3, <2>4, <2>8
<1>. QED BY <1>1, <1>2

\* A file of whole entries is read as it is.
LEMMA ReadableWhole ==
  ASSUME NEW d \in Seq(Entry)
  PROVE  Readable(d) = d
<1>1. d # NoFile
  BY LineOrFile
<1>2. \A i \in 1..Len(d) : d[i] \notin {Torn, Garbage}
  BY ElementOfSeq, TreeConstantsOK
<1>3. {i \in 1..Len(d) : d[i] \notin {Torn, Garbage}} = 1..Len(d)
  BY <1>2
<1>. QED BY <1>1, <1>3, PickedAll DEF Readable

LEMMA LinesJoined ==
  ASSUME NEW S, NEW s \in Seq(S), NEW t \in Seq(S)
  PROVE  s \o t \in Seq(S) /\ Lines(s \o t) = Lines(s) \cup Lines(t)
<1>1. /\ s \o t \in Seq(S) /\ Len(s \o t) = Len(s) + Len(t) /\ Len(s) \in Nat /\ Len(t) \in Nat
      /\ \A i \in 1..(Len(s) + Len(t)) :
           (s \o t)[i] = IF i <= Len(s) THEN s[i] ELSE t[i - Len(s)]
  BY ConcatProperties, LenProperties
<1> DEFINE u == s \o t
<1> HIDE DEF u
<1>2. /\ Len(u) = Len(s) + Len(t)
      /\ \A i \in 1..Len(u) : u[i] = IF i <= Len(s) THEN s[i] ELSE t[i - Len(s)]
  BY <1>1 DEF u
<1>3. ASSUME NEW i \in 1..Len(u) PROVE u[i] \in Lines(s) \cup Lines(t)
  <2>1. CASE i <= Len(s)
    <3>1. i \in 1..Len(s) /\ u[i] = s[i]
      BY <1>1, <1>2, <2>1
    <3>. QED BY <3>1 DEF Lines
  <2>2. CASE ~ (i <= Len(s))
    <3>1. i - Len(s) \in 1..Len(t) /\ u[i] = t[i - Len(s)]
      BY <1>1, <1>2, <2>2
    <3>. QED BY <3>1 DEF Lines
  <2>. QED BY <2>1, <2>2
<1>4. \A i \in 1..Len(s) : i \in 1..Len(u) /\ u[i] = s[i]
  BY <1>1, <1>2
<1>5. ASSUME NEW i \in 1..Len(t)
      PROVE  i + Len(s) \in 1..Len(u) /\ u[i + Len(s)] = t[i]
  <2>1. i + Len(s) \in 1..Len(u) /\ ~ (i + Len(s) <= Len(s)) /\ (i + Len(s)) - Len(s) = i
    BY <1>1, <1>2
  <2>. QED BY <1>2, <2>1
<1>6. Lines(u) \subseteq Lines(s) \cup Lines(t)
  BY <1>3 DEF Lines
<1>7. Lines(s) \subseteq Lines(u)
  BY <1>4 DEF Lines
<1>8. Lines(t) \subseteq Lines(u)
  <2>1. \A x \in Lines(t) : \E i \in 1..Len(t) : x = t[i]
    BY DEF Lines
  <2>2. \A x \in Lines(t) : \E j \in 1..Len(u) : x = u[j]
    BY <1>5, <2>1
  <2>. QED BY <2>2 DEF Lines
<1>9. Lines(u) = Lines(s) \cup Lines(t)
  BY <1>6, <1>7, <1>8
<1>. QED BY <1>1, <1>9 DEF u

LEMMA HeldLines ==
  ASSUME NEW d \in Seq(Line)
  PROVE  Held(d) = Lines(d) \cap Entry
BY LineOrFile DEF Held, Lines

LEMMA FrontAndTail ==
  ASSUME NEW S, NEW s \in Seq(S), s # <<>>
  PROVE  /\ Front(s) \in Seq(S) /\ Lines(Front(s)) \subseteq Lines(s)
         /\ Tail(s) \in Seq(S) /\ Lines(Tail(s)) \subseteq Lines(s)
<1>1. Len(s) \in Nat \ {0} /\ \A i \in 1..Len(s) : s[i] \in S
  BY EmptySeq, ElementOfSeq
<1> DEFINE f == SubSeq(s, 1, Len(s) - 1)
<1>2. /\ f \in Seq(S)
      /\ Len(f) = (IF 1 <= Len(s) - 1 THEN (Len(s) - 1) - 1 + 1 ELSE 0)
      /\ \A i \in 1..((Len(s) - 1) - 1 + 1) : f[i] = s[1 + i - 1]
  <2>1. \A i \in 1..(Len(s) - 1) : s[i] \in S
    BY <1>1
  <2>. QED BY <1>1, <2>1, SubSeqProperties
<1>3. Front(s) = f
  BY DEF Front
<1> HIDE DEF f
<1>4. \A i \in 1..Len(f) : i \in 1..Len(s) /\ f[i] = s[i]
  BY <1>1, <1>2
<1>5. Lines(f) \subseteq Lines(s)
  BY <1>4 DEF Lines
<1>6. /\ Tail(s) \in Seq(S)
      /\ \A i \in 1..Len(Tail(s)) : i + 1 \in 1..Len(s) /\ Tail(s)[i] = s[i + 1]
  BY <1>1, HeadTailProperties
<1>7. Lines(Tail(s)) \subseteq Lines(s)
  <2>1. \A x \in Lines(Tail(s)) : \E j \in 1..Len(s) : x = s[j]
    BY <1>6 DEF Lines
  <2>. QED BY <2>1 DEF Lines
<1>. QED BY <1>2, <1>3, <1>5, <1>6, <1>7

\* No entry is in the file after a write that was not there or written.
LEMMA WriteFacts ==
  ASSUME NEW d \in Seq(Line) \cup {NoFile}, NEW ls \in Seq(Line), d = NoFile \/ ls # <<>>
  PROVE  Write(d, ls) \in Seq(Line) /\ Held(Write(d, ls)) \subseteq Held(d) \cup Lines(ls)
<1>1. CASE d = NoFile
  BY <1>1, HeldLines DEF Write
<1>2. CASE d # NoFile /\ (d = <<>> \/ Last(d) # Torn)
  <2>1. Write(d, ls) = d \o ls /\ d \in Seq(Line)
    BY <1>2 DEF Write
  <2>2. d \o ls \in Seq(Line) /\ Lines(d \o ls) = Lines(d) \cup Lines(ls)
    BY <2>1, LinesJoined
  <2> DEFINE w == d \o ls
  <2> HIDE DEF w
  <2>3. w \in Seq(Line) /\ Lines(w) = Lines(d) \cup Lines(ls) /\ Write(d, ls) = w
    BY <2>1, <2>2 DEF w
  <2>4. Held(w) = Lines(w) \cap Entry /\ Held(d) = Lines(d) \cap Entry
    BY <2>1, <2>3, HeldLines
  <2>. QED BY <2>3, <2>4
<1>3. CASE d # NoFile /\ ~ (d = <<>> \/ Last(d) # Torn) /\ Head(ls) = Torn
  BY <1>3 DEF Write
<1>4. CASE d # NoFile /\ ~ (d = <<>> \/ Last(d) # Torn) /\ Head(ls) # Torn
  <2> DEFINE f == Front(d)
             g == <<Garbage>>
             t == Tail(ls)
             v == f \o g
             w == v \o t
  <2>1. Write(d, ls) = w /\ d \in Seq(Line) /\ d # <<>> /\ ls # <<>>
    BY <1>4 DEF Write
  <2>2. /\ f \in Seq(Line) /\ Lines(f) \subseteq Lines(d)
        /\ t \in Seq(Line) /\ Lines(t) \subseteq Lines(ls)
    BY <2>1, FrontAndTail
  <2>3. g \in Seq(Line) /\ Lines(g) = {Garbage}
    <3>1. g \in Seq(Line) /\ Len(g) = 1 /\ g[1] = Garbage
      BY LineOrFile
    <3>. QED BY <3>1 DEF Lines
  <2> HIDE DEF f, g, t, v, w
  <2>4. v \in Seq(Line) /\ Lines(v) = Lines(f) \cup {Garbage}
    BY <2>2, <2>3, LinesJoined DEF v
  <2>5. w \in Seq(Line) /\ Lines(w) = Lines(v) \cup Lines(t)
    BY <2>2, <2>4, LinesJoined DEF w
  <2>6. Held(w) = Lines(w) \cap Entry /\ Held(d) = Lines(d) \cap Entry
    BY <2>1, <2>5, HeldLines
  <2>. QED BY <2>1, <2>2, <2>4, <2>5, <2>6, TreeConstantsOK
<1>. QED BY <1>1, <1>2, <1>3, <1>4

LEMMA WriteAppends ==
  ASSUME NEW d \in Seq(Entry), NEW e \in Entry
  PROVE  Write(d, <<e>>) = Append(d, e)
<1>1. d # NoFile
  BY LineOrFile
<1>2. d = <<>> \/ Last(d) # Torn
  <2> SUFFICES ASSUME d # <<>> PROVE Last(d) # Torn
    OBVIOUS
  <2>1. Len(d) \in Nat \ {0}
    BY EmptySeq
  <2>2. d[Len(d)] \in Entry
    BY <2>1, ElementOfSeq
  <2>. QED BY <2>2, TreeConstantsOK DEF Last
<1>3. Write(d, <<e>>) = d \o <<e>>
  BY <1>1, <1>2 DEF Write
<1>. QED BY <1>3, AppendIsConcat

-----------------------------------------------------------------------------
(* A fork: some entries of the tree, and new labels below them.            *)

LEMMA ForkIsGood ==
  ASSUME NEW es, Tree(es), GoodChains(es), NEW n \in Nat, \A e \in Lines(es) : e.id < n,
         NEW kept \in Seq(Entry), Lines(kept) \subseteq Lines(es), NEW marks \in Seq(Entry),
         \A i \in 1..Len(marks) : /\ WellMade(marks[i]) /\ marks[i].kind = "label"
                                  /\ marks[i].parent # None /\ marks[i].id = n + i - 1
  PROVE  /\ Tree(kept \o marks) /\ GoodChains(kept \o marks)
         /\ \A e \in Lines(kept \o marks) : e.id < n + Len(marks)
<1> DEFINE ds == kept \o marks
<1>1. ds \in Seq(Entry) /\ Lines(ds) = Lines(kept) \cup Lines(marks)
  BY LinesJoined
<1> HIDE DEF ds
<1>2. \A e \in Lines(ds) : e \in Entry /\ e.id \in Nat
  BY <1>1, LinesTyped, EntryTyped
<1>3. \A e \in Lines(kept) : e \in Lines(es) /\ e.id < n
  OBVIOUS
<1>4. Len(marks) \in Nat
  BY LenProperties
<1>5. ASSUME NEW e \in Lines(marks)
      PROVE  /\ WellMade(e) /\ e.kind = "label" /\ e.parent # None
             /\ ~ (e.id < n) /\ e.id < n + Len(marks)
             /\ \A f \in Lines(marks) : e.id = f.id => e = f
  <2>1. PICK i \in 1..Len(marks) : e = marks[i]
    BY DEF Lines
  <2>2. ASSUME NEW f \in Lines(marks), e.id = f.id PROVE e = f
    <3>1. PICK j \in 1..Len(marks) : f = marks[j]
      BY DEF Lines
    <3>2. n + i - 1 = n + j - 1
      BY <2>1, <2>2, <3>1
    <3>3. i = j
      BY <1>4, <3>2
    <3>. QED BY <2>1, <3>1, <3>3
  <2>. QED BY <1>4, <2>1, <2>2
<1>6. Tree(ds)
  <2>1. \A e \in Lines(ds) : WellMade(e)
    BY <1>1, <1>3, <1>5 DEF Tree
  <2>2. \A e, f \in Lines(ds) : e.id = f.id => e = f
    BY <1>1, <1>3, <1>5 DEF Tree
  <2>. QED BY <1>1, <2>1, <2>2 DEF Tree
<1>7. ASSUME NEW e \in Lines(ds) PROVE e.id < n + Len(marks)
  BY <1>1, <1>2, <1>3, <1>4, <1>5
<1>8. ASSUME NEW p \in Chains(ds), NEW i \in 1..Len(p) PROVE GoodAt(p, i)
  <2>0. /\ Linked(ds, p) /\ Len(p) \in Nat /\ p \in Seq(Entry) /\ i \in Nat \ {0}
        /\ p[1].parent = None /\ p[i] \in Lines(ds)
    BY LenProperties DEF Chains, Linked
  <2>1. CASE p[i] \in Lines(marks)
    <3>1. p[i].kind = "label"
      BY <1>5, <2>1
    <3>. QED BY <3>1 DEF GoodAt
  <2>2. CASE p[i] \in Lines(kept)
    <3>1. ASSUME NEW k \in 1..i PROVE p[k] \in Lines(es)
      <4>1. k \in 1..Len(p) /\ (k = i \/ k < i) /\ p[k] \in Lines(ds)
        BY <2>0 DEF Linked
      <4>2. k < i => p[k].id < p[i].id
        BY <1>6, <2>0, <4>1, ChainGrows
      <4>3. p[k].id < n
        BY <1>2, <1>3, <2>0, <2>2, <4>1, <4>2
      <4>. QED BY <1>1, <1>3, <1>5, <4>1, <4>3
    <3> DEFINE q == SubSeq(p, 1, i)
    <3>2. q \in Chains(es) /\ Len(q) = i /\ \A k \in 1..i : q[k] = p[k]
      BY <1>8, <3>1, ChainHead
    <3> HIDE DEF q
    <3>3. GoodAt(q, i)
      BY <2>0, <3>2 DEF GoodChains, Good
    <3>. QED BY <2>0, <3>2, <3>3, GoodAgrees
  <2>. QED BY <1>1, <2>0, <2>1, <2>2
<1>9. GoodChains(ds)
  BY <1>8 DEF GoodChains, Good
<1>. QED BY <1>6, <1>7, <1>9 DEF ds

-----------------------------------------------------------------------------
(* What holds of every state of a session.                                 *)

TreeOK ==
  /\ Tree(entries) /\ GoodChains(entries)
  /\ nextId \in 1..(MaxEntries + 1)
  /\ \A e \in Lines(entries) : e.id < nextId
  /\ leaf \in Id \cup {None}
  /\ leaf # None => leaf < nextId

\* The file holds nothing that is not in memory, and everything of it unless
\* a write was cut short.
FileOK ==
  /\ disk \in Seq(Line) \cup {NoFile} /\ flushed \in BOOLEAN /\ cut \in BOOLEAN
  /\ Held(disk) \subseteq Lines(entries)
  /\ ~cut => IF HasAssistant(entries)
             THEN flushed /\ disk = entries
             ELSE disk = NoFile /\ ~flushed

\* A result is only taken where it follows the reply that asked for it.
OpenOK ==
  /\ open \in BOOLEAN
  /\ open => /\ leaf # None
             /\ \A p \in Chains(entries) : p[Len(p)].id = leaf => Answers(p, Len(p) + 1)

TreeIInv ==
  /\ TreeOK /\ FileOK /\ OpenOK
  /\ labels = LabelsOf(entries)
  /\ moves \in 0..MaxMoves /\ kills \in 0..MaxKills

-----------------------------------------------------------------------------
(* An entry is appended.                                                   *)

LEMMA AssistantIn ==
  ASSUME NEW es
  PROVE  HasAssistant(es) <=> \E e \in Lines(es) : e.kind = "assistant"
BY DEF HasAssistant, Lines

\* Where e is added below its parent, the chain stays good.
Fits(es, e) ==
  /\ e.parent = None => \A p \in Seq(Entry) : p[1] = e => GoodAt(p, 1)
  /\ \A q \in Chains(es) : q[Len(q)].id = e.parent =>
       \A p \in Seq(Entry) : (p[Len(q) + 1] = e /\ \A k \in 1..Len(q) : p[k] = q[k])
         => GoodAt(p, Len(q) + 1)

LEMMA PlainFits ==
  ASSUME NEW es, NEW e, e.kind \notin {"result", "compaction"}
  PROVE  Fits(es, e)
BY DEF Fits, GoodAt

LEMMA ResultFits ==
  ASSUME NEW es, NEW e, e.kind = "result", e.parent # None,
         \A q \in Chains(es) : q[Len(q)].id = e.parent => Answers(q, Len(q) + 1)
  PROVE  Fits(es, e)
<1>1. SUFFICES ASSUME NEW q \in Chains(es), q[Len(q)].id = e.parent, NEW p \in Seq(Entry),
                      p[Len(q) + 1] = e, \A k \in 1..Len(q) : p[k] = q[k]
               PROVE  GoodAt(p, Len(q) + 1)
  BY DEF Fits
<1>2. Len(q) + 1 \in Nat /\ (Len(q) + 1) - 1 = Len(q)
  BY LenProperties DEF Chains
<1>3. Answers(p, Len(q) + 1)
  BY <1>1, <1>2, AnswersAgree
<1>. QED BY <1>1, <1>3 DEF GoodAt

LEMMA CompactionFits ==
  ASSUME NEW es, Tree(es), GoodChains(es), NEW x, CanCompact(PathOf(es, x)), NEW keep,
         NEW e, e.parent = x, e.kind = "compaction",
         e.ref = Prepare(PathOf(es, x), keep).firstKept,
         e.covers = Prepare(PathOf(es, x), keep).covers
  PROVE  Fits(es, e)
<1>1. \A p \in Seq(Entry) : p[1] = e => GoodAt(p, 1)
  BY DEF GoodAt
<1>2. ASSUME NEW q \in Chains(es), q[Len(q)].id = x, NEW p \in Seq(Entry),
             p[Len(q) + 1] = e, \A k \in 1..Len(q) : p[k] = q[k]
      PROVE  GoodAt(p, Len(q) + 1)
  <2>1. PathOf(es, x) = q /\ Good(q)
    BY <1>2, OnePath DEF GoodChains
  <2>. QED BY <1>2, <2>1, CompactionIsGood
<1>. QED BY <1>1, <1>2 DEF Fits

LEMMA EntryAppended ==
  ASSUME TreeOK, FileOK, NEW e \in Entry, e.id = nextId, WellMade(e), Fits(entries, e),
         AppendEntry(e)
  PROVE  /\ TreeOK' /\ FileOK'
         /\ entries' = Append(entries, e) /\ leaf' = e.id /\ leaf' # None
<1>0. /\ entries' = Append(entries, e) /\ leaf' = e.id /\ nextId' = nextId + 1
      /\ nextId <= MaxEntries /\ cut' = cut /\ Persist(entries', e)
  BY DEF AppendEntry
<1>1. entries \in Seq(Entry) /\ Tree(entries) /\ GoodChains(entries)
  BY DEF TreeOK, Tree
<1>2. \A f \in Lines(entries) : f.id < e.id
  BY DEF TreeOK
<1>3. entries' \in Seq(Entry) /\ Lines(entries') = Lines(entries) \cup {e}
  BY <1>0, <1>1, LinesAppended
<1>4. Tree(entries') /\ GoodChains(entries')
  BY <1>0, <1>1, <1>2, GoodGrows DEF Fits
<1>5. nextId \in Nat /\ MaxEntries \in Nat /\ e.id \in Id /\ e.id # None
  BY EntryTyped, TreeConstantsOK DEF TreeOK
<1>6. \A f \in Lines(entries') : f.id < nextId + 1
  <2>1. \A f \in Lines(entries) : f.id \in Nat
    BY <1>1, LinesTyped, EntryTyped
  <2>. QED BY <1>2, <1>3, <1>5, <2>1
<1>7. TreeOK'
  BY <1>0, <1>4, <1>5, <1>6 DEF TreeOK
<1>8. FileOK'
  <2>1. CASE ~ HasAssistant(entries')
    <3>1. flushed' = FALSE /\ disk' = disk
      BY <1>0, <2>1 DEF Persist
    <3>2. ~ HasAssistant(entries)
      BY <1>3, <2>1, AssistantIn
    <3>. QED BY <1>0, <1>3, <2>1, <3>1, <3>2 DEF FileOK
  <2>2. CASE HasAssistant(entries')
    <3> DEFINE ls == IF flushed THEN <<e>> ELSE entries'
    <3>1. flushed' = TRUE /\ disk' = Write(disk, ls)
      BY <1>0, <2>2 DEF Persist
    <3>2. <<e>> \in Seq(Entry) /\ Lines(<<e>>) = {e} /\ <<e>> # <<>>
      <4>1. <<e>> \in Seq(Entry) /\ Len(<<e>>) = 1 /\ <<e>>[1] = e
        OBVIOUS
      <4>. QED BY <4>1 DEF Lines
    <3>3. entries' # <<>>
      BY <2>2 DEF HasAssistant
    <3>4. ls \in Seq(Line) /\ ls # <<>> /\ Lines(ls) \subseteq Lines(entries')
      BY <1>3, <3>2, <3>3, LineOrFile
    <3>5. disk \in Seq(Line) \cup {NoFile} /\ Held(disk) \subseteq Lines(entries)
      BY DEF FileOK
    <3> HIDE DEF ls
    <3>6. disk' \in Seq(Line) /\ Held(disk') \subseteq Held(disk) \cup Lines(ls)
      BY <3>1, <3>4, <3>5, WriteFacts
    <3>7. ASSUME ~ cut PROVE disk' = entries'
      <4>1. CASE HasAssistant(entries)
        <5>1. flushed /\ disk = entries
          BY <3>7, <4>1 DEF FileOK
        <5>. QED BY <1>0, <1>1, <3>1, <5>1, WriteAppends DEF ls
      <4>2. CASE ~ HasAssistant(entries)
        <5>1. ~ flushed /\ disk = NoFile
          BY <3>7, <4>2 DEF FileOK
        <5>. QED BY <3>1, <5>1 DEF ls, Write
      <4>. QED BY <4>1, <4>2
    <3>. QED BY <1>0, <1>3, <2>2, <3>1, <3>4, <3>5, <3>6, <3>7 DEF FileOK
  <2>. QED BY <2>1, <2>2
<1>. QED BY <1>0, <1>5, <1>7, <1>8

\* The fields that a label and a compaction set.
LEMMA LabelSet ==
  ASSUME NEW id, NEW up, NEW k, NEW ref, NEW on, NEW covers, NEW x, NEW y, NEW n, NEW e,
         n = [id |-> id, parent |-> up, kind |-> k, ref |-> ref, on |-> on, covers |-> covers],
         e = [n EXCEPT !.ref = x, !.on = y]
  PROVE  e = [id |-> id, parent |-> up, kind |-> k, ref |-> x, on |-> y, covers |-> covers]
<1> DEFINE m == [n EXCEPT !.ref = x]
<1>1. m = [id |-> id, parent |-> up, kind |-> k, ref |-> x, on |-> on, covers |-> covers]
  OBVIOUS
<1>2. e = [m EXCEPT !.on = y]
  OBVIOUS
<1> HIDE DEF m
<1>. QED BY <1>1, <1>2

LEMMA CompactionSet ==
  ASSUME NEW id, NEW up, NEW k, NEW ref, NEW on, NEW covers, NEW x, NEW y, NEW n, NEW e,
         n = [id |-> id, parent |-> up, kind |-> k, ref |-> ref, on |-> on, covers |-> covers],
         e = [n EXCEPT !.ref = x, !.covers = y]
  PROVE  e = [id |-> id, parent |-> up, kind |-> k, ref |-> x, on |-> on, covers |-> y]
<1> DEFINE m == [n EXCEPT !.ref = x]
<1>1. m = [id |-> id, parent |-> up, kind |-> k, ref |-> x, on |-> on, covers |-> covers]
  OBVIOUS
<1>2. e = [m EXCEPT !.covers = y]
  OBVIOUS
<1> HIDE DEF m
<1>. QED BY <1>1, <1>2

LEMMA ParentSet ==
  ASSUME NEW id, NEW up, NEW k, NEW ref, NEW on, NEW covers, NEW x, NEW n, NEW e,
         n = [id |-> id, parent |-> up, kind |-> k, ref |-> ref, on |-> on, covers |-> covers],
         e = [n EXCEPT !.parent = x]
  PROVE  e = [id |-> id, parent |-> x, kind |-> k, ref |-> ref, on |-> on, covers |-> covers]
OBVIOUS

LEMMA EntryMade ==
  ASSUME TreeOK, nextId <= MaxEntries, NEW k \in Kinds, NEW up \in Id \cup {None},
         NEW ref \in Id \cup {None}, NEW on \in BOOLEAN, NEW covers \in SUBSET Id, NEW e,
         e = [id |-> nextId, parent |-> up, kind |-> k, ref |-> ref, on |-> on, covers |-> covers],
         up # None => up < nextId,
         k = "label" => ref # None,
         k = "compaction" => ref # None /\ ref < nextId
  PROVE  e \in Entry /\ e.id = nextId /\ WellMade(e)
<1>1. nextId \in Id
  BY TreeConstantsOK DEF TreeOK, Id
<1>2. e \in Entry
  BY <1>1 DEF Entry
<1>. QED BY <1>2 DEF WellMade

LEMMA NewMade ==
  ASSUME TreeOK, nextId <= MaxEntries, NEW k \in Kinds \ {"label", "compaction"}
  PROVE  LET e == New(nextId, k)
         IN  /\ e \in Entry /\ e.id = nextId /\ e.kind = k /\ e.parent = leaf /\ WellMade(e)
BY EntryMade DEF New, TreeOK

\* Below a reply or a result that was appended a result may follow.
LEMMA AnswerAdded ==
  ASSUME NEW es, Tree(es), NEW e \in Entry, WellMade(e), \A f \in Lines(es) : f.id < e.id,
         e.kind \in {"assistant", "result"},
         NEW p \in Chains(Append(es, e)), p[Len(p)].id = e.id
  PROVE  Answers(p, Len(p) + 1)
<1> DEFINE ds == Append(es, e)
<1>1. /\ Tree(ds) /\ Lines(ds) = Lines(es) \cup {e}
      /\ Linked(ds, p) /\ Len(p) \in Nat \ {0} /\ p \in Seq(Entry)
  BY TreeGrows, LinesAppended, EmptySeq DEF Chains, Linked, Tree
<1> HIDE DEF ds
<1>2. p[Len(p)] = e
  BY <1>1 DEF Linked, Tree
<1>3. Len(p) \in 1..((Len(p) + 1) - 1) /\ \A k \in (Len(p) + 1)..((Len(p) + 1) - 1) : FALSE
  BY <1>1
<1>. QED BY <1>2, <1>3 DEF Answers

LEMMA AnswerOpen ==
  ASSUME TreeIInv, NEW e \in Entry, e.id = nextId, WellMade(e),
         e.kind \in {"assistant", "result"},
         entries' = Append(entries, e), leaf' = e.id, leaf' # None, open' \in BOOLEAN
  PROVE  OpenOK'
<1>1. Tree(entries) /\ \A f \in Lines(entries) : f.id < e.id
  BY DEF TreeIInv, TreeOK
<1>2. \A p \in Chains(entries') : p[Len(p)].id = leaf' => Answers(p, Len(p) + 1)
  BY <1>1, AnswerAdded
<1>. QED BY <1>2 DEF OpenOK

LEMMA UserAppended ==
  ASSUME TreeIInv, AppendUser
  PROVE  TreeIInv'
<1> DEFINE e == New(nextId, "user")
<1>1. AppendEntry(e) /\ open' = FALSE /\ UNCHANGED <<labels, moves>>
  BY DEF AppendUser
<1>2. nextId <= MaxEntries /\ kills' = kills
  BY <1>1 DEF AppendEntry
<1>3. e \in Entry /\ e.id = nextId /\ e.kind = "user" /\ WellMade(e)
  BY <1>2, NewMade DEF TreeIInv, Kinds, InContext, Messages
<1> HIDE DEF e
<1>4. TreeOK' /\ FileOK' /\ entries' = Append(entries, e)
  BY <1>1, <1>3, PlainFits, EntryAppended DEF TreeIInv
<1>5. LabelsOf(entries') = LabelsOf(entries)
  BY <1>3, <1>4, LabelAppended DEF TreeIInv, TreeOK, Tree
<1>. QED BY <1>1, <1>2, <1>4, <1>5 DEF TreeIInv, OpenOK

LEMMA AssistantAppended ==
  ASSUME TreeIInv, AppendAssistant
  PROVE  TreeIInv'
<1> DEFINE e == New(nextId, "assistant")
<1>1. AppendEntry(e) /\ open' \in BOOLEAN /\ UNCHANGED <<labels, moves>>
  BY DEF AppendAssistant
<1>2. nextId <= MaxEntries /\ kills' = kills
  BY <1>1 DEF AppendEntry
<1>3. e \in Entry /\ e.id = nextId /\ e.kind = "assistant" /\ WellMade(e)
  BY <1>2, NewMade DEF TreeIInv, Kinds, InContext, Messages
<1> HIDE DEF e
<1>4. TreeOK' /\ FileOK' /\ entries' = Append(entries, e) /\ leaf' = e.id /\ leaf' # None
  BY <1>1, <1>3, PlainFits, EntryAppended DEF TreeIInv
<1>5. LabelsOf(entries') = LabelsOf(entries)
  BY <1>3, <1>4, LabelAppended DEF TreeIInv, TreeOK, Tree
<1>6. OpenOK'
  BY <1>1, <1>3, <1>4, AnswerOpen
<1>. QED BY <1>1, <1>2, <1>4, <1>5, <1>6 DEF TreeIInv

LEMMA ResultAppended ==
  ASSUME TreeIInv, AppendResult
  PROVE  TreeIInv'
<1> DEFINE e == New(nextId, "result")
<1>1. open /\ AppendEntry(e) /\ UNCHANGED <<labels, open, moves>>
  BY DEF AppendResult
<1>2. nextId <= MaxEntries /\ kills' = kills
  BY <1>1 DEF AppendEntry
<1>3. e \in Entry /\ e.id = nextId /\ e.kind = "result" /\ e.parent = leaf /\ WellMade(e)
  BY <1>2, NewMade DEF TreeIInv, Kinds, InContext, Messages
<1> HIDE DEF e
<1>4. Fits(entries, e)
  BY <1>1, <1>3, ResultFits DEF TreeIInv, OpenOK
<1>5. TreeOK' /\ FileOK' /\ entries' = Append(entries, e) /\ leaf' = e.id /\ leaf' # None
  BY <1>1, <1>3, <1>4, EntryAppended DEF TreeIInv
<1>6. LabelsOf(entries') = LabelsOf(entries)
  BY <1>3, <1>5, LabelAppended DEF TreeIInv, TreeOK, Tree
<1>7. OpenOK'
  BY <1>1, <1>3, <1>5, AnswerOpen DEF TreeIInv, OpenOK
<1>. QED BY <1>1, <1>2, <1>5, <1>6, <1>7 DEF TreeIInv

\* A label moves the leaf to an entry below the reply: results still follow it.
LEMMA LabelAppendedTo ==
  ASSUME TreeIInv, NEW x \in Id, NEW on \in BOOLEAN, AppendLabel(x, on)
  PROVE  TreeIInv'
<1> DEFINE e == [New(nextId, "label") EXCEPT !.ref = x, !.on = on]
<1>1. /\ AppendEntry(e) /\ UNCHANGED <<open, moves>>
      /\ labels' = IF on THEN labels \cup {x} ELSE labels \ {x}
  BY DEF AppendLabel
<1>2. nextId <= MaxEntries /\ kills' = kills
  BY <1>1 DEF AppendEntry
<1>3. e = [id |-> nextId, parent |-> leaf, kind |-> "label", ref |-> x, on |-> on, covers |-> {}]
  <2> DEFINE n == New(nextId, "label")
  <2>1. n = [id |-> nextId, parent |-> leaf, kind |-> "label", ref |-> None, on |-> FALSE,
             covers |-> {}]
    BY DEF New
  <2>2. e = [n EXCEPT !.ref = x, !.on = on]
    BY DEF e
  <2> HIDE DEF n, e
  <2>. QED BY <2>1, <2>2, LabelSet
<1> HIDE DEF e
<1>4. /\ e.kind = "label" /\ e.parent = leaf /\ e.ref = x /\ e.on = on
  BY <1>3
<1>5. x # None /\ "label" \in Kinds
  BY TreeConstantsOK DEF Id, Kinds
<1>6. e \in Entry /\ e.id = nextId /\ WellMade(e)
  BY <1>2, <1>3, <1>5, EntryMade DEF TreeIInv, TreeOK
<1>7. TreeOK' /\ FileOK' /\ entries' = Append(entries, e) /\ leaf' = e.id /\ leaf' # None
  BY <1>1, <1>4, <1>6, PlainFits, EntryAppended DEF TreeIInv
<1>8. LabelsOf(entries') = labels'
  BY <1>1, <1>4, <1>6, <1>7, LabelAppended DEF TreeIInv, TreeOK, Tree
<1>9. OpenOK'
  <2>1. SUFFICES ASSUME open, NEW p \in Chains(entries'), p[Len(p)].id = leaf'
                 PROVE  Answers(p, Len(p) + 1)
    BY <1>1, <1>7 DEF TreeIInv, OpenOK
  <2>2. leaf # None /\ \A q \in Chains(entries) : q[Len(q)].id = leaf => Answers(q, Len(q) + 1)
    BY <2>1 DEF TreeIInv, OpenOK
  <2>3. Tree(entries) /\ \A f \in Lines(entries) : f.id < e.id
    BY <1>6 DEF TreeIInv, TreeOK
  <2>4. Tree(entries') /\ p \in Chains(entries') /\ Linked(entries', p) /\ p \in Seq(Entry)
        /\ Len(p) \in Nat \ {0} /\ e \in Lines(entries')
    BY <1>6, <1>7, <2>1, <2>3, TreeGrows, LinesAppended, EmptySeq DEF Chains, Linked, Tree
  <2>5. p[Len(p)] = e
    BY <1>7, <2>1, <2>4 DEF Linked, Tree
  <2>6. /\ Len(p) - 1 \in 1..Len(p) /\ p[Len(p) - 1].id = leaf
        /\ \A k \in 1..(Len(p) - 1) : p[k] \in Lines(entries)
    BY <1>4, <1>6, <1>7, <2>1, <2>2, <2>3, <2>4, <2>5, ChainAbove
  <2> DEFINE q == SubSeq(p, 1, Len(p) - 1)
  <2>7. /\ q \in Chains(entries) /\ Len(q) = Len(p) - 1
        /\ \A k \in 1..(Len(p) - 1) : q[k] = p[k]
    BY <2>1, <2>6, ChainHead
  <2> HIDE DEF q
  <2>8. Answers(q, Len(q) + 1)
    BY <2>2, <2>4, <2>6, <2>7
  <2>9. PICK j \in 1..((Len(q) + 1) - 1) :
          /\ q[j].kind \in {"assistant", "result"}
          /\ \A k \in (j + 1)..((Len(q) + 1) - 1) : q[k].kind = "label"
    BY <2>8 DEF Answers
  <2>10. j \in 1..(Len(p) - 1) /\ j \in 1..((Len(p) + 1) - 1)
         /\ p[j].kind \in {"assistant", "result"}
    BY <2>4, <2>7, <2>9
  <2>11. ASSUME NEW k \in (j + 1)..((Len(p) + 1) - 1) PROVE p[k].kind = "label"
    <3>1. CASE k = Len(p)
      BY <1>4, <2>5, <3>1
    <3>2. CASE k # Len(p)
      <4>1. k \in (j + 1)..((Len(q) + 1) - 1) /\ k \in 1..(Len(p) - 1)
        BY <2>4, <2>7, <2>10, <3>2
      <4>. QED BY <2>7, <2>9, <4>1
    <3>. QED BY <3>1, <3>2
  <2>. QED BY <2>10, <2>11 DEF Answers
<1>. QED BY <1>1, <1>2, <1>7, <1>8, <1>9 DEF TreeIInv

LEMMA Compacted ==
  ASSUME TreeIInv, Compact
  PROVE  TreeIInv'
<1> DEFINE r == Prepare(Path, Keep)
           e == [New(nextId, "compaction") EXCEPT !.ref = r.firstKept, !.covers = r.covers]
<1>1. CanCompact(Path) /\ AppendEntry(e) /\ open' = FALSE /\ UNCHANGED <<labels, moves>>
  BY DEF Compact
<1>2. nextId <= MaxEntries /\ kills' = kills
  BY <1>1 DEF AppendEntry
<1>3. Tree(entries) /\ GoodChains(entries) /\ Path = PathOf(entries, leaf) /\ TreeOK
  BY DEF TreeIInv, TreeOK, Path
<1>4. Path \in Seq(Entry) /\ \A i \in 1..Len(Path) : Path[i] \in Lines(entries)
  BY <1>3, PathTyped
<1>5. r.covers \subseteq Id /\ \E c \in 1..Len(Path) : r.firstKept = Path[c].id
  BY <1>1, <1>4, PrepareFacts
<1>6. r.firstKept \in Id /\ r.firstKept # None /\ r.firstKept < nextId
  BY <1>3, <1>4, <1>5, LinesTyped, EntryTyped DEF TreeOK, Tree
<1>7. e = [id |-> nextId, parent |-> leaf, kind |-> "compaction", ref |-> r.firstKept,
           on |-> FALSE, covers |-> r.covers]
  <2> DEFINE n == New(nextId, "compaction")
             kept == r.firstKept
             covers == r.covers
  <2>1. n = [id |-> nextId, parent |-> leaf, kind |-> "compaction", ref |-> None, on |-> FALSE,
             covers |-> {}]
    BY DEF New
  <2>2. e = [n EXCEPT !.ref = kept, !.covers = covers]
    BY DEF e
  <2> HIDE DEF n, e, kept, covers
  <2>3. e = [id |-> nextId, parent |-> leaf, kind |-> "compaction", ref |-> kept, on |-> FALSE,
             covers |-> covers]
    BY <2>1, <2>2, CompactionSet
  <2>. QED BY <2>3 DEF kept, covers
<1> HIDE DEF e
<1>8. e.kind = "compaction" /\ e.parent = leaf /\ e.ref = r.firstKept /\ e.covers = r.covers
  BY <1>7
<1>9. e \in Entry /\ e.id = nextId /\ WellMade(e)
  <2> DEFINE kept == r.firstKept
             covers == r.covers
  <2>1. "compaction" \in Kinds /\ "compaction" # "label" /\ FALSE \in BOOLEAN
    BY DEF Kinds
  <2>2. covers \in SUBSET Id /\ kept \in Id \cup {None} /\ kept # None /\ kept < nextId
    BY <1>5, <1>6
  <2>3. leaf \in Id \cup {None} /\ (leaf # None => leaf < nextId)
    BY <1>3 DEF TreeOK
  <2> HIDE DEF kept, covers
  <2>4. e = [id |-> nextId, parent |-> leaf, kind |-> "compaction", ref |-> kept, on |-> FALSE,
             covers |-> covers]
    BY <1>7 DEF kept, covers
  <2>. QED BY <1>2, <1>3, <2>1, <2>2, <2>3, <2>4, EntryMade
<1>10. Fits(entries, e)
  BY <1>1, <1>3, <1>8, CompactionFits
<1>11. TreeOK' /\ FileOK' /\ entries' = Append(entries, e)
  BY <1>1, <1>9, <1>10, EntryAppended DEF TreeIInv
<1>12. LabelsOf(entries') = LabelsOf(entries)
  BY <1>3, <1>8, <1>9, <1>11, LabelAppended DEF Tree
<1>. QED BY <1>1, <1>2, <1>11, <1>12 DEF TreeIInv, OpenOK

-----------------------------------------------------------------------------
(* Moving in the tree.                                                     *)

LEMMA TargetTyped ==
  ASSUME TreeOK, NEW x \in Id, Has(entries, x)
  PROVE  TargetLeaf(x) \in Id \cup {None} /\ (TargetLeaf(x) # None => TargetLeaf(x) < nextId)
<1> DEFINE e == ById(entries, x)
<1>1. entries \in Seq(Entry) /\ nextId \in Nat
  BY TreeConstantsOK DEF TreeOK, Tree
<1>2. e \in Lines(entries) /\ e.id = x
  BY <1>1, ByIdFound
<1>3. e \in Entry /\ e.id < nextId /\ WellMade(e)
  BY <1>1, <1>2, LinesTyped DEF TreeOK, Tree
<1>4. /\ e.id \in Nat /\ e.parent \in Id \cup {None} /\ (e.parent \in Id => e.parent \in Nat)
      /\ None \notin Id
  BY <1>3, EntryTyped, TreeConstantsOK DEF Id
<1>5. TargetLeaf(x) = IF e.kind = "user" THEN e.parent ELSE x
  BY DEF TargetLeaf
<1> HIDE DEF e
<1>6. CASE e.kind = "user"
  BY <1>1, <1>3, <1>4, <1>5, <1>6 DEF WellMade
<1>7. CASE e.kind # "user"
  BY <1>2, <1>3, <1>5, <1>7
<1>. QED BY <1>6, <1>7

LEMMA Navigated ==
  ASSUME TreeIInv, NEW x \in Id, Navigate(x)
  PROVE  TreeIInv'
<1>1. /\ moves < MaxMoves /\ moves' = moves + 1 /\ Has(entries, x) /\ leaf' = TargetLeaf(x)
      /\ open' = FALSE /\ UNCHANGED <<entries, labels, flushed, disk, nextId, kills, cut>>
  BY DEF Navigate
<1>2. TreeOK'
  BY <1>1, TargetTyped DEF TreeIInv, TreeOK
<1>3. FileOK'
  BY <1>1 DEF TreeIInv, FileOK
<1>4. moves' \in 0..MaxMoves
  BY <1>1, TreeConstantsOK DEF TreeIInv
<1>. QED BY <1>1, <1>2, <1>3, <1>4 DEF TreeIInv, OpenOK

LEMMA Summarised ==
  ASSUME TreeIInv, NEW x \in Id, NavigateWithSummary(x)
  PROVE  TreeIInv'
<1> DEFINE up == TargetLeaf(x)
           e == [New(nextId, "branchSummary") EXCEPT !.parent = up]
<1>1. /\ moves < MaxMoves /\ moves' = moves + 1 /\ Has(entries, x)
      /\ AppendEntry(e) /\ open' = FALSE /\ labels' = labels
  BY DEF NavigateWithSummary
<1>2. nextId <= MaxEntries /\ kills' = kills
  BY <1>1 DEF AppendEntry
<1>3. up \in Id \cup {None} /\ (up # None => up < nextId)
  BY <1>1, TargetTyped DEF TreeIInv
<1> HIDE DEF up
<1>4. e = [id |-> nextId, parent |-> up, kind |-> "branchSummary", ref |-> None, on |-> FALSE,
           covers |-> {}]
  <2> DEFINE n == New(nextId, "branchSummary")
  <2>1. n = [id |-> nextId, parent |-> leaf, kind |-> "branchSummary", ref |-> None,
             on |-> FALSE, covers |-> {}]
    BY DEF New
  <2>2. e = [n EXCEPT !.parent = up]
    OBVIOUS
  <2> HIDE DEF n, e
  <2>. QED BY <2>1, <2>2, ParentSet
<1> HIDE DEF e
<1>5. "branchSummary" \in Kinds /\ e.kind = "branchSummary"
  BY <1>4 DEF Kinds, InContext
<1>6. e \in Entry /\ e.id = nextId /\ WellMade(e)
  BY <1>2, <1>3, <1>4, <1>5, EntryMade DEF TreeIInv
<1>7. TreeOK' /\ FileOK' /\ entries' = Append(entries, e)
  BY <1>1, <1>5, <1>6, PlainFits, EntryAppended DEF TreeIInv
<1>8. LabelsOf(entries') = LabelsOf(entries)
  BY <1>5, <1>6, <1>7, LabelAppended DEF TreeIInv, TreeOK, Tree
<1>9. moves' \in 0..MaxMoves
  BY <1>1, TreeConstantsOK DEF TreeIInv
<1>. QED BY <1>1, <1>2, <1>7, <1>8, <1>9 DEF TreeIInv, OpenOK

-----------------------------------------------------------------------------
(* The session is killed and loaded again.                                 *)

LEMMA LastOf ==
  ASSUME NEW es \in Seq(Entry), es # <<>>
  PROVE  Last(es) \in Lines(es) /\ Last(es) \in Entry
<1>1. Len(es) \in 1..Len(es)
  BY EmptySeq
<1>. QED BY <1>1, LinesTyped DEF Last

LEMMA Loaded ==
  ASSUME TreeIInv, NEW d \in Seq(Line) \cup {NoFile}, Held(d) \subseteq Lines(entries),
         kills < MaxKills, Load(d)
  PROVE  /\ TreeOK' /\ OpenOK' /\ labels' = LabelsOf(entries')
         /\ disk' = d /\ flushed' \in BOOLEAN /\ Held(d) = Lines(entries')
         /\ moves' \in 0..MaxMoves /\ kills' \in 0..MaxKills
<1>1. /\ entries' = Readable(d) /\ leaf' = (IF entries' = <<>> THEN None ELSE Last(entries').id)
      /\ labels' = LabelsOf(entries') /\ flushed' = (d # NoFile) /\ disk' = d
      /\ open' = FALSE /\ kills' = kills + 1 /\ nextId' = nextId /\ moves' = moves
  BY DEF Load
<1>2. entries' \in Seq(Entry) /\ Lines(entries') = Held(d)
  BY <1>1, ReadableFacts
<1>3. Tree(entries') /\ GoodChains(entries')
  BY <1>2, TreeShrinks DEF TreeIInv, TreeOK, GoodChains
<1>4. leaf' \in Id \cup {None} /\ (leaf' # None => leaf' < nextId)
  BY <1>1, <1>2, LastOf, EntryTyped DEF TreeIInv, TreeOK
<1>5. TreeOK'
  BY <1>1, <1>2, <1>3, <1>4 DEF TreeIInv, TreeOK
<1>6. kills' \in 0..MaxKills /\ moves' \in 0..MaxMoves
  BY <1>1, TreeConstantsOK DEF TreeIInv
<1>. QED BY <1>1, <1>2, <1>5, <1>6 DEF OpenOK

LEMMA Restarted ==
  ASSUME TreeIInv, Restart
  PROVE  TreeIInv'
<1>1. kills < MaxKills /\ Load(disk) /\ cut' = cut
  BY DEF Restart
<1>2. disk \in Seq(Line) \cup {NoFile} /\ Held(disk) \subseteq Lines(entries)
  BY DEF TreeIInv, FileOK
<1>3. /\ TreeOK' /\ OpenOK' /\ labels' = LabelsOf(entries')
      /\ disk' = disk /\ flushed' \in BOOLEAN /\ Held(disk) = Lines(entries')
      /\ moves' \in 0..MaxMoves /\ kills' \in 0..MaxKills
  BY <1>1, <1>2, Loaded
<1>4. ASSUME ~ cut
      PROVE  IF HasAssistant(entries') THEN flushed' /\ disk' = entries'
             ELSE disk' = NoFile /\ ~ flushed'
  <2>1. flushed' = (disk # NoFile) /\ entries' = Readable(disk)
    BY <1>1 DEF Load
  <2>2. CASE HasAssistant(entries)
    <3>1. disk = entries /\ entries \in Seq(Entry)
      BY <1>4, <2>2 DEF TreeIInv, FileOK, TreeOK, Tree
    <3>2. entries' = entries /\ disk # NoFile
      BY <2>1, <3>1, ReadableWhole, LineOrFile
    <3>. QED BY <1>3, <2>1, <2>2, <3>1, <3>2
  <2>3. CASE ~ HasAssistant(entries)
    <3>1. disk = NoFile
      BY <1>4, <2>3 DEF TreeIInv, FileOK
    <3>2. entries' = <<>>
      BY <2>1, <3>1 DEF Readable
    <3>3. ~ HasAssistant(entries')
      BY <3>2 DEF HasAssistant
    <3>. QED BY <1>3, <2>1, <3>1, <3>3
  <2>. QED BY <2>2, <2>3
<1>5. FileOK'
  BY <1>1, <1>2, <1>3, <1>4 DEF TreeIInv, FileOK
<1>. QED BY <1>3, <1>5 DEF TreeIInv

LEMMA KilledInWrite ==
  ASSUME TreeIInv, NEW k \in Messages, KillInWrite(k)
  PROVE  TreeIInv'
<1> DEFINE e == New(nextId, k)
           es == Append(entries, e)
           lines == IF flushed THEN <<Last(es)>> ELSE es
<1>1. nextId <= MaxEntries /\ kills < MaxKills /\ cut' = TRUE
  BY DEF KillInWrite
<1>2. PICK n \in 0..(Len(lines) - 1), torn \in BOOLEAN :
        LET written == SubSeq(lines, 1, n) \o (IF torn THEN <<Torn>> ELSE <<>>)
        IN Load(IF written = <<>> /\ disk # NoFile THEN disk ELSE Write(disk, written))
  BY DEF KillInWrite
<1> DEFINE head == SubSeq(lines, 1, n)
           end == IF torn THEN <<Torn>> ELSE <<>>
           written == head \o end
           d == IF written = <<>> /\ disk # NoFile THEN disk ELSE Write(disk, written)
<1>3. Load(d)
  BY <1>2
<1>4. e \in Entry /\ entries \in Seq(Entry)
  BY <1>1, NewMade DEF TreeIInv, TreeOK, Tree, Kinds, InContext, Messages
<1>5. head \in Seq(Entry) /\ Lines(head) \subseteq Lines(entries)
  <2> HIDE DEF e
  <2>1. /\ es \in Seq(Entry) /\ Len(es) = Len(entries) + 1 /\ Len(entries) \in Nat
        /\ \A i \in 1..Len(entries) : es[i] = entries[i]
        /\ es[Len(entries) + 1] = e
    BY <1>4, AppendProperties, LenProperties
  <2> HIDE DEF es
  <2>2. es # <<>> /\ Last(es) = e
    BY <2>1, EmptySeq DEF Last
  <2>3. CASE flushed
    <3>1. lines = <<e>> /\ Len(lines) = 1
      BY <2>2, <2>3
    <3> HIDE DEF lines
    <3>2. n = 0
      BY <3>1
    <3>3. head = <<>>
      BY <3>1, <3>2, <1>4
    <3>4. Lines(<<>>) = {} /\ <<>> \in Seq(Entry)
      BY DEF Lines
    <3>. QED BY <3>3, <3>4
  <2>4. CASE ~ flushed
    <3>1. lines = es /\ n \in 0..Len(entries)
      BY <2>1, <2>4
    <3> DEFINE h == SubSeq(es, 1, n)
    <3>2. h \in Seq(Entry) /\ Len(h) = n /\ \A i \in 1..n : h[i] = es[i]
      <4>1. \A i \in 1..n : es[i] \in Entry
        BY <2>1, <3>1, ElementOfSeq
      <4>. QED BY <2>1, <3>1, <4>1, SubSeqProperties
    <3> HIDE DEF h
    <3>3. \A i \in 1..Len(h) : i \in 1..Len(entries) /\ h[i] = entries[i]
      BY <2>1, <3>1, <3>2
    <3>4. Lines(h) \subseteq Lines(entries)
      BY <3>3 DEF Lines
    <3>. QED BY <3>1, <3>2, <3>4 DEF h
  <2>. QED BY <2>3, <2>4
<1>6. end \in Seq(Line) /\ Lines(end) \subseteq {Torn}
  <2>1. /\ <<Torn>> \in Seq(Line) /\ Len(<<Torn>>) = 1 /\ <<Torn>>[1] = Torn
        /\ <<>> \in Seq(Line) /\ Len(<<>>) = 0
    BY LineOrFile
  <2>2. Lines(<<Torn>>) = {Torn} /\ Lines(<<>>) = {}
    BY <2>1 DEF Lines
  <2>. QED BY <2>1, <2>2
<1> HIDE DEF head, end
<1>7. written \in Seq(Line) /\ Lines(written) \subseteq Lines(entries) \cup {Torn}
  <2>1. head \in Seq(Line)
    BY <1>5, LineOrFile
  <2>. QED BY <1>5, <1>6, <2>1, LinesJoined
<1> HIDE DEF written
<1>8. disk \in Seq(Line) \cup {NoFile} /\ Held(disk) \subseteq Lines(entries)
  BY DEF TreeIInv, FileOK
<1>9. d \in Seq(Line) \cup {NoFile} /\ Held(d) \subseteq Lines(entries)
  <2>1. CASE written = <<>> /\ disk # NoFile
    BY <1>8, <2>1
  <2>2. CASE written # <<>> \/ disk = NoFile
    <3>1. /\ Write(disk, written) \in Seq(Line)
          /\ Held(Write(disk, written)) \subseteq Held(disk) \cup Lines(written)
      BY <1>7, <1>8, <2>2, WriteFacts
    <3>2. Held(Write(disk, written)) \subseteq Entry
      BY <3>1 DEF Held
    <3>. QED BY <1>7, <1>8, <2>2, <3>1, <3>2, TreeConstantsOK
  <2>. QED BY <2>1, <2>2
<1> HIDE DEF d
<1>10. /\ TreeOK' /\ OpenOK' /\ labels' = LabelsOf(entries')
       /\ disk' = d /\ flushed' \in BOOLEAN /\ Held(d) = Lines(entries')
       /\ moves' \in 0..MaxMoves /\ kills' \in 0..MaxKills
  BY <1>1, <1>3, <1>9, Loaded
<1>11. FileOK'
  BY <1>1, <1>9, <1>10 DEF FileOK
<1>. QED BY <1>10, <1>11 DEF TreeIInv

-----------------------------------------------------------------------------
(* A fork keeps a part of the tree and makes its labels anew.              *)

LEMMA KeptTyped ==
  ASSUME NEW es, Tree(es), NEW x
  PROVE  /\ Unlabelled(PathOf(es, x)) \in Seq(Entry)
         /\ Lines(Unlabelled(PathOf(es, x))) \subseteq Lines(es)
<1> DEFINE p == PathOf(es, x)
           at == {i \in 1..Len(p) : p[i].kind # "label"}
           k == Picked(p, at)
<1>1. p \in Seq(Entry) /\ Len(p) \in Nat /\ \A i \in 1..Len(p) : p[i] \in Lines(es)
  BY PathTyped
<1>2. k = Unlabelled(p)
  BY DEF Unlabelled
<1> HIDE DEF p
<1>3. at \subseteq 1..Len(p) /\ \A i \in at : p[i] \in Entry /\ p[i] \in Lines(es)
  BY <1>1, ElementOfSeq
<1> HIDE DEF at
<1>4. k \in Seq(Entry)
  BY <1>1, <1>3, PickedFacts
<1>5. TakenFrom(k, p, at)
  BY <1>1, <1>3, PickedElements
<1> HIDE DEF k
<1>6. \A j \in 1..Len(k) : k[j] \in Lines(es)
  BY <1>3, <1>5 DEF TakenFrom
<1>7. Lines(k) \subseteq Lines(es)
  BY <1>6 DEF Lines
<1>. QED BY <1>2, <1>4, <1>7 DEF p

LEMMA SetInOrder ==
  ASSUME NEW S, IsFiniteSet(S)
  PROVE  /\ SetToSeq(S) \in Seq(S) /\ Len(SetToSeq(S)) \in Nat
         /\ \A i \in 1..Len(SetToSeq(S)) : SetToSeq(S)[i] \in S
<1>1. Size(S) \in Nat /\ ExistsBijection(1..Size(S), S)
  BY FS_CardinalityType DEF Size
<1>2. PICK f \in [1..Size(S) -> S] : IsInjective(f)
  BY <1>1 DEF ExistsBijection, Bijection, Injection, IsInjective
<1> DEFINE t == SetToSeq(S)
<1>3. t \in [1..Size(S) -> S]
  BY <1>2 DEF SetToSeq, Size
<1> HIDE DEF t
<1>4. t \in Seq(S) /\ Len(t) = Size(S)
  BY <1>1, <1>3
<1>. QED BY <1>1, <1>3, <1>4 DEF t

LEMMA MarksTyped ==
  ASSUME TreeIInv, NEW kept \in Seq(Entry), Lines(kept) \subseteq Lines(entries),
         nextId + Len(Relabel(kept)) <= MaxEntries + 1
  PROVE  LET marks == Relabel(kept)
         IN  /\ marks \in Seq(Entry) /\ Len(marks) \in Nat
             /\ \A i \in 1..Len(marks) :
                  /\ WellMade(marks[i]) /\ marks[i].kind = "label"
                  /\ marks[i].parent # None /\ marks[i].id = nextId + i - 1
<1> DEFINE T == {x \in labels : Has(kept, x)}
           marked == SetToSeq(T)
           marks == Relabel(kept)
           n == Len(marked)
           under(i) == IF i > 1 THEN nextId + (i - 1) - 1
                       ELSE IF kept = <<>> THEN None ELSE Last(kept).id
           made(i) == [id |-> nextId + i - 1, kind |-> "label", ref |-> marked[i], on |-> TRUE,
                       covers |-> {}, parent |-> under(i)]
<1>0. /\ nextId \in Nat \ {0} /\ MaxEntries \in Nat /\ Id = 1..MaxEntries /\ None \notin Nat
      /\ "label" \in Kinds
  BY TreeConstantsOK DEF TreeIInv, TreeOK, Id, Kinds
<1>1. T \subseteq Id
  BY LabelsTyped DEF TreeIInv, TreeOK
<1>2. IsFiniteSet(T)
  <2> HIDE DEF T
  <2>. QED BY <1>0, <1>1, PositionsFinite
<1>3. n \in Nat /\ \A i \in 1..n : marked[i] \in T
  BY <1>2, SetInOrder
<1>4. marks = [i \in 1..n |-> made(i)]
  BY DEF Relabel
<1> HIDE DEF marked
<1>5. Len(marks) = n /\ DOMAIN marks = 1..n /\ \A i \in 1..n : marks[i] = made(i)
  <2> HIDE DEF made, marks
  <2>. QED BY <1>3, <1>4
<1>6. nextId + n <= MaxEntries + 1
  BY <1>5
<1>7. ASSUME NEW i \in 1..n
      PROVE  /\ marks[i] \in Entry /\ WellMade(marks[i]) /\ marks[i].kind = "label"
             /\ marks[i].parent # None /\ marks[i].id = nextId + i - 1
  <2>1. marked[i] \in Id /\ marked[i] # None /\ Has(kept, marked[i])
    BY <1>0, <1>1, <1>3
  <2>2. kept # <<>>
    BY <2>1 DEF Has
  <2>3. Last(kept).id \in Id /\ Last(kept).id < nextId
    BY <2>2, LastOf, EntryTyped DEF TreeIInv, TreeOK
  <2>4. nextId + i - 1 \in Id /\ nextId + i - 1 >= nextId
    BY <1>0, <1>3, <1>6
  <2>5. under(i) \in Id /\ under(i) < nextId + i - 1
    <3>1. CASE i > 1
      <4>1. under(i) = nextId + (i - 1) - 1
        BY <3>1
      <4>. QED BY <1>0, <1>3, <1>6, <3>1, <4>1
    <3>2. CASE ~ (i > 1)
      <4>1. under(i) = Last(kept).id /\ i = 1
        BY <1>3, <2>2, <3>2
      <4>. QED BY <1>0, <2>3, <4>1
    <3>. QED BY <3>1, <3>2
  <2>6. marks[i] = made(i)
    BY <1>5
  <2> HIDE DEF under, marks
  <2>7. made(i) \in Entry
    BY <1>0, <2>1, <2>4, <2>5 DEF Entry
  <2>8. made(i).parent # None
    BY <1>0, <2>5
  <2>9. WellMade(made(i))
    BY <2>1, <2>5 DEF WellMade
  <2>. QED BY <2>6, <2>7, <2>8, <2>9
<1>8. marks \in Seq(Entry)
  <2> HIDE DEF marks, made
  <2>1. marks \in [1..n -> Entry]
    BY <1>4, <1>5, <1>7
  <2>. QED BY <1>3, <2>1
<1>. QED BY <1>3, <1>5, <1>7, <1>8

LEMMA Forked ==
  ASSUME TreeIInv, NEW x \in Id, Fork(x)
  PROVE  TreeIInv'
<1> DEFINE up == ById(entries, x).parent
           kept == IF up = None THEN <<>> ELSE Unlabelled(PathOf(entries, up))
           marks == Relabel(kept)
           es == kept \o marks
<1>1. /\ moves < MaxMoves /\ moves' = moves + 1
      /\ nextId + Len(marks) <= MaxEntries + 1 /\ nextId' = nextId + Len(marks)
      /\ entries' = es /\ leaf' = (IF es = <<>> THEN None ELSE Last(es).id)
      /\ labels' = LabelsOf(es) /\ flushed' = HasAssistant(es)
      /\ disk' = (IF HasAssistant(es) THEN es ELSE NoFile)
      /\ open' = FALSE /\ kills' = kills /\ cut' = cut
  BY DEF Fork
<1>2. kept \in Seq(Entry) /\ Lines(kept) \subseteq Lines(entries)
  <2>1. <<>> \in Seq(Entry) /\ Lines(<<>>) = {}
    BY DEF Lines
  <2>. QED BY <2>1, KeptTyped DEF TreeIInv, TreeOK
<1> HIDE DEF kept
<1>3. /\ marks \in Seq(Entry) /\ Len(marks) \in Nat
      /\ \A i \in 1..Len(marks) : /\ WellMade(marks[i]) /\ marks[i].kind = "label"
                                  /\ marks[i].parent # None /\ marks[i].id = nextId + i - 1
  BY <1>1, <1>2, MarksTyped
<1> HIDE DEF marks
<1>4. nextId \in Nat \ {0} /\ MaxEntries \in Nat
  BY TreeConstantsOK DEF TreeIInv, TreeOK
<1>5. /\ Tree(es) /\ GoodChains(es)
      /\ \A e \in Lines(es) : e.id < nextId + Len(marks)
  BY <1>2, <1>3, <1>4, ForkIsGood DEF TreeIInv, TreeOK
<1> HIDE DEF es
<1>6. es \in Seq(Entry) /\ es \in Seq(Line) /\ es # NoFile
  BY <1>5, LineOrFile DEF Tree
<1>7. leaf' \in Id \cup {None} /\ (leaf' # None => leaf' < nextId')
  BY <1>1, <1>5, <1>6, LastOf, EntryTyped
<1>8. TreeOK'
  BY <1>1, <1>3, <1>4, <1>5, <1>7 DEF TreeOK
<1>9. FileOK'
  <2>1. Held(es) \subseteq Lines(es) /\ Held(NoFile) = {}
    BY <1>6, HeldLines DEF Held
  <2>2. flushed' \in BOOLEAN /\ cut' \in BOOLEAN
    BY <1>1 DEF HasAssistant, TreeIInv, FileOK
  <2>3. CASE HasAssistant(es)
    BY <1>1, <1>6, <2>1, <2>2, <2>3 DEF FileOK
  <2>4. CASE ~ HasAssistant(es)
    BY <1>1, <1>6, <2>1, <2>2, <2>4 DEF FileOK
  <2>. QED BY <2>3, <2>4
<1>10. moves' \in 0..MaxMoves
  BY <1>1, TreeConstantsOK DEF TreeIInv
<1>. QED BY <1>1, <1>8, <1>9, <1>10 DEF TreeIInv, OpenOK

-----------------------------------------------------------------------------
(* The theorems of the session tree.                                       *)

LEMMA TreeStarts ==
  ASSUME TreeInit
  PROVE  TreeIInv
<1>1. /\ entries = <<>> /\ leaf = None /\ labels = {} /\ flushed = FALSE /\ disk = NoFile
      /\ open = FALSE /\ nextId = 1 /\ moves = 0 /\ kills = 0 /\ cut = FALSE
  BY DEF TreeInit
<1>2. Lines(<<>>) = {} /\ ~ HasAssistant(<<>>) /\ LabelsOf(<<>>) = {}
  BY DEF Lines, HasAssistant, LabelsOf
<1>3. Tree(<<>>) /\ GoodChains(<<>>)
  <2>1. \A p \in Chains(<<>>) : FALSE
    <3>1. SUFFICES ASSUME NEW p \in Chains(<<>>) PROVE FALSE
      OBVIOUS
    <3>2. 1 \in 1..Len(p)
      BY <3>1, EmptySeq DEF Chains, Linked
    <3>. QED BY <1>2, <3>1, <3>2 DEF Chains, Linked
  <2>. QED BY <1>2, <2>1 DEF Tree, GoodChains
<1>4. TreeOK
  BY <1>1, <1>2, <1>3, TreeConstantsOK DEF TreeOK
<1>5. FileOK
  BY <1>1, <1>2 DEF FileOK, Held
<1>6. OpenOK /\ labels = LabelsOf(entries)
  BY <1>1, <1>2 DEF OpenOK
<1>7. moves \in 0..MaxMoves /\ kills \in 0..MaxKills
  BY <1>1, TreeConstantsOK
<1>. QED BY <1>4, <1>5, <1>6, <1>7 DEF TreeIInv

LEMMA TreeStep ==
  ASSUME TreeIInv, [TreeNext]_treeVars
  PROVE  TreeIInv'
<1>1. CASE AppendUser
  BY <1>1, UserAppended
<1>2. CASE AppendAssistant
  BY <1>2, AssistantAppended
<1>3. CASE AppendResult
  BY <1>3, ResultAppended
<1>4. CASE Compact
  BY <1>4, Compacted
<1>5. ASSUME NEW x \in Id, NEW on \in BOOLEAN, AppendLabel(x, on) PROVE TreeIInv'
  BY <1>5, LabelAppendedTo
<1>6. ASSUME NEW x \in Id, Navigate(x) PROVE TreeIInv'
  BY <1>6, Navigated
<1>7. ASSUME NEW x \in Id, NavigateWithSummary(x) PROVE TreeIInv'
  BY <1>7, Summarised
<1>8. ASSUME NEW x \in Id, Fork(x) PROVE TreeIInv'
  BY <1>8, Forked
<1>9. CASE Restart
  BY <1>9, Restarted
<1>10. ASSUME NEW k \in Messages, KillInWrite(k) PROVE TreeIInv'
  BY <1>10, KilledInWrite
<1>11. CASE UNCHANGED treeVars
  BY <1>11 DEF treeVars, TreeIInv, TreeOK, FileOK, OpenOK
<1>. QED
  BY <1>1, <1>2, <1>3, <1>4, <1>5, <1>6, <1>7, <1>8, <1>9, <1>10, <1>11 DEF TreeNext

LEMMA TreeInvariant == TreeSpec => []TreeIInv
BY TreeStarts, TreeStep, PTL DEF TreeSpec

\* The tree of entries, the leaf, the labels and the file of a SessionManager keep
\* their types.
THEOREM TreeTypeCorrect == TreeSpec => []TreeTypeOK
<1>1. TreeIInv => TreeTypeOK
  <2>1. SUFFICES ASSUME TreeIInv PROVE TreeTypeOK
    OBVIOUS
  <2>2. labels \subseteq Id
    BY <2>1, LabelsTyped DEF TreeIInv, TreeOK
  <2>. QED BY <2>1, <2>2 DEF TreeIInv, TreeOK, FileOK, OpenOK, Tree, TreeTypeOK
<1>. QED BY <1>1, TreeInvariant, PTL

\* However often the session was forked, compacted, navigated and loaded again:
\* unless a write was cut short, the session file and the memory agree as soon as
\* an assistant has answered, and there is no file before (_persist,
\* createBranchedSession and setSessionFile).
THEOREM FileAgrees == TreeSpec => []ReloadAgrees
<1>1. TreeIInv => ReloadAgrees
  BY DEF TreeIInv, FileOK, ReloadAgrees
<1>. QED BY <1>1, TreeInvariant, PTL

\* The model is never sent a tool result without the reply that asked for it:
\* for every budget that decides where a compaction cuts, and also on the
\* branches of a session file that was damaged (findCutPoint and
\* buildSessionContext).
THEOREM NoOrphan == TreeSpec => []NoOrphanResult
<1>1. TreeIInv => NoOrphanResult
  <2>1. SUFFICES ASSUME TreeIInv, Whole, NEW i \in 1..Len(Context(Path)),
                        Context(Path)[i].kind = "result"
                 PROVE  i > 1 /\ Context(Path)[i - 1].kind \in {"assistant", "result"}
    BY DEF NoOrphanResult
  <2>2. Path # <<>>
    <3> SUFFICES ASSUME Path = <<>> PROVE FALSE
      OBVIOUS
    <3>1. Path \in Seq(Entry) /\ Len(Path) = 0
      OBVIOUS
    <3> HIDE DEF Path
    <3>2. Sent(Path) \subseteq 1..0
      BY <3>1, SentTyped
    <3>3. Sent(Path) = {}
      BY <3>2
    <3>4. Context(Path) = [k \in 1..0 |-> Path[CHOOSE n \in {} : Cardinality({j \in {} : j <= n}) = k]]
      BY <3>3, FS_EmptySet DEF Context, Picked
    <3>5. Len(Context(Path)) = 0
      BY <3>4
    <3>. QED BY <2>1, <3>5
  <2>3. Tree(entries) /\ GoodChains(entries)
    BY <2>1 DEF TreeIInv, TreeOK
  <2>4. Path \in Chains(entries)
    BY <2>1, <2>2, <2>3, WholePath DEF Whole, Path
  <2>5. Good(Path) /\ Path \in Seq(Entry)
    BY <2>3, <2>4 DEF GoodChains, Chains
  <2>. QED BY <2>1, <2>5, NoOrphanOn
<1>. QED BY <1>1, TreeInvariant, PTL

\* The first compaction of a branch forgets no message and sends none twice: each
\* is either covered by the summary or sent as it was (prepareCompaction, compact
\* and buildSessionContext).
THEOREM FirstCompaction == TreeSpec => []FirstCompactionComplete
<1>1. TreeIInv => FirstCompactionComplete
  <2> DEFINE comps == {i \in 1..Len(Path) : Path[i].kind = "compaction"}
             sent == {Context(Path)[i].id : i \in 1..Len(Context(Path))}
  <2>1. SUFFICES ASSUME TreeIInv, Whole, Cardinality(comps) = 1,
                        Has(Path, Path[Max(comps)].ref)
                 PROVE  /\ Ids(Path, 1, Len(Path)) = sent \cup Summarized(Path)
                        /\ sent \cap Summarized(Path) = {}
    BY DEF FirstCompactionComplete
  <2>2. Tree(entries) /\ GoodChains(entries)
    BY <2>1 DEF TreeIInv, TreeOK
  <2>3. Path \in Seq(Entry) /\ Len(Path) \in Nat
    BY <2>2, PathTyped DEF Path
  <2>4. comps \subseteq 1..Len(Path) /\ comps \subseteq 0..Len(Path)
    BY <2>3
  <2>5. IsFiniteSet(comps)
    <3> HIDE DEF comps
    <3>. QED BY <2>3, <2>4, PositionsFinite
  <2>6. PICK c : comps = {c}
    <3> HIDE DEF comps
    <3>. QED BY <2>1, <2>5, FS_Singleton
  <2>7. Max(comps) = c
    <3>1. comps # {}
      BY <2>6
    <3> HIDE DEF comps
    <3>2. Max(comps) \in comps
      BY <2>3, <2>4, <3>1, MaxOf
    <3>. QED BY <2>6, <3>2
  <2>8. /\ c \in 1..Len(Path) /\ Path[c].kind = "compaction"
        /\ \A k \in 1..Len(Path) : Path[k].kind = "compaction" => k = c
    BY <2>6
  <2>9. Path \in Chains(entries)
    <3>1. Path # <<>>
      BY <2>8
    <3>. QED BY <2>1, <2>2, <3>1, WholePath DEF Whole, Path
  <2>10. Good(Path)
    BY <2>2, <2>9 DEF GoodChains
  <2>11. Has(Path, Path[c].ref)
    BY <2>1, <2>7
  <2>. QED BY <2>2, <2>8, <2>9, <2>10, <2>11, CompleteOn
<1>. QED BY <1>1, TreeInvariant, PTL

==============================================================================
