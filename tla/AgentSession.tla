---------------------------- MODULE AgentSession ----------------------------
(***************************************************************************)
(* What AgentSession (packages/coding-agent/src/core/agent-session.ts)     *)
(* adds to an Agent: prompts that may come from several callers, a queue   *)
(* of agent events that are processed one after the other, the automatic   *)
(* retry of transient errors, the compaction after a run or before a       *)
(* prompt, and the runs it starts by itself with a timer.                  *)
(*                                                                         *)
(* A run of the agent is one step that begins it and one that ends it with *)
(* an outcome; module AgentLoop opens it up.  Of a conversation only the   *)
(* user messages, the result of a shell command of the user and the last   *)
(* entry are kept.  Steering and follow-up queues and the switch to        *)
(* another session are left out.                                           *)
(***************************************************************************)
EXTENDS Integers, SequencesExt

CONSTANTS Prompts,     \* calls of prompt()
          Shared,      \* how a run may end: a subset of Ends, for callers that
          Waiting,     \* do not wait for each other and for callers that do
          MaxRetries,  \* settings.retry.maxRetries
          MaxTurns,    \* bound on the replies that ask for tools
          Aborts       \* may abort() or abortRetry() be called?

\* Replies with stopReason "error"; an overflow says that the context is too
\* long.
Errors == {"transient", "overflow", "fatal"}
Ends == {"ok", "aborted"} \cup Errors

ASSUME ConstantsOK ==
  /\ Shared \subseteq Ends /\ Waiting \subseteq Ends
  /\ MaxRetries \in Nat /\ MaxTurns \in Nat
  /\ Aborts \in BOOLEAN
  /\ "bash" \notin Prompts

\* What users do beside prompting; a shell command and a manual compaction
\* once each, and only when callers wait for each other (a bound).
Extras == {"bash", "compact", "abort"}

VARIABLES
  serial,     \* a caller waits for the earlier prompt to return
  did,        \* the extras done so far, or not to be done
  st,         \* where each call of prompt() is suspended
  owed,       \* events whose processing a call still waits for
  turns,      \* replies so far that asked for tools (none when callers do not
              \* wait for each other: a bound)
  streaming,  \* agent.state.isStreaming
  signal,     \* the run in progress was told to abort
  memory,     \* user messages and "bash" in agent.state.messages
  tail,       \* its last entry: "input" (a user message or a tool result) or
              \* the outcome of a reply
  file,       \* user messages and "bash" in the session file
  fileTail,   \* its last entry
  events,     \* agent events not yet processed (_agentEventQueue)
  handler,    \* what the processing of the first of them waits for
  retrying,   \* _retryPromise is pending
  attempt,    \* _retryAttempt
  recovered,  \* _overflowRecoveryAttempted
  timers,     \* continuations scheduled with setTimeout
  pending,    \* _pendingBashMessages
  compaction, \* compact(): "none", "stopping" (awaits abort()) or "summing";
              \* the session hears no agent events meanwhile
  unheard     \* history: prompts that ran unheard

callVars == <<st, owed>>
runVars == <<turns, streaming, signal, memory, tail>>
fileVars == <<file, fileTail>>
queueVars == <<events, handler>>
retryVars == <<retrying, attempt>>
restVars == <<serial, did, pending, compaction, unheard>>
vars == <<callVars, runVars, fileVars, queueVars, retryVars, recovered, timers, restVars>>

UserEvent(p) == [kind |-> "user", by |-> p]
ReplyEvent(o) == [kind |-> "reply", outcome |-> o]
EndEvent(o) == [kind |-> "end", outcome |-> o]
Events == {UserEvent(p) : p \in Prompts}
            \cup {ReplyEvent(o) : o \in Ends \cup {"turn"}} \cup {EndEvent(o) : o \in Ends}

Timers == {"retry", "recover"}

TypeOK ==
  /\ st \in [Prompts -> {"new", "checking", "compacting", "recovering", "ready",
                         "running", "ended", "retrying", "draining", "done", "failed"}]
  /\ owed \in [Prompts -> Nat]
  /\ turns \in 0..MaxTurns /\ streaming \in BOOLEAN /\ signal \in BOOLEAN
  /\ memory \in Seq(Prompts \cup {"bash"}) /\ tail \in {"none", "input"} \cup Ends
  /\ file \in Seq(Prompts \cup {"bash"}) /\ fileTail \in {"none", "input"} \cup Ends
  /\ events \in Seq(Events)
  /\ handler \in {"free", "sleeping", "compacting", "recovering"}
  /\ retrying \in BOOLEAN
  /\ attempt \in 0..MaxRetries
  /\ recovered \in BOOLEAN
  /\ timers \in [Timers -> Nat]
  /\ serial \in BOOLEAN /\ did \subseteq Extras /\ pending \in Seq({"bash"})
  /\ compaction \in {"none", "stopping", "summing"}
  /\ unheard \subseteq Prompts

Init ==
  /\ serial \in BOOLEAN /\ did = IF serial THEN {} ELSE Extras
  /\ st = [p \in Prompts |-> "new"] /\ owed = [p \in Prompts |-> 0]
  /\ turns = (IF serial THEN 0 ELSE MaxTurns) /\ streaming = FALSE /\ signal = FALSE
  /\ memory = <<>> /\ tail = "none"
  /\ file = <<>> /\ fileTail = "none"
  /\ events = <<>> /\ handler = "free"
  /\ retrying = FALSE /\ attempt = 0 /\ recovered = FALSE
  /\ timers = [t \in Timers |-> 0]
  /\ pending = <<>> /\ compaction = "none"
  /\ unheard = {}

\* A failed reply is taken off the transcript before the run is repeated.
Dropped(entry) == IF entry \in Ends THEN "input" ELSE entry

-----------------------------------------------------------------------------
(* Runs of the agent.                                                      *)

Outcomes == IF serial THEN Waiting ELSE Shared

\* The session is subscribed to the agent: _handleAgentEvent queues the event.
Heard == compaction = "none"
Emit(es) == events' = IF Heard THEN events \o es ELSE events

StartRun ==
  /\ streaming' = TRUE /\ signal' = FALSE

\* Mutant of RunEnds: the retry promise is left to the queued processing.
RunEndsLate(o) ==
  /\ streaming
  /\ o = "aborted" => signal
  /\ streaming' = FALSE /\ signal' = FALSE
  /\ tail' = o
  /\ Emit(<<ReplyEvent(o), EndEvent(o)>>)
  /\ st' = [p \in Prompts |-> IF st[p] = "running" THEN "ended" ELSE st[p]]
  /\ UNCHANGED <<owed, turns, memory, fileVars, handler, retryVars, recovered, timers, restVars>>

\* The reply is in the transcript and its events are queued.  The retry
\* promise is made at once, so that a prompt that returns now can see it.
RunEnds(o) ==
  /\ streaming
  /\ o = "aborted" => signal
  /\ streaming' = FALSE /\ signal' = FALSE
  /\ tail' = o
  /\ Emit(<<ReplyEvent(o), EndEvent(o)>>)
  /\ retrying' = (retrying \/ (Heard /\ o = "transient"))
  /\ st' = [p \in Prompts |-> IF st[p] = "running" THEN "ended" ELSE st[p]]
  /\ UNCHANGED <<owed, turns, memory, fileVars, handler, attempt, recovered, timers,
                 restVars>>

\* A turn in the middle of a run: a reply that asks for tools, their results.
RunTurns ==
  /\ streaming /\ turns < MaxTurns
  /\ turns' = turns + 1
  /\ tail' = "input"
  /\ Emit(<<ReplyEvent("turn")>>)
  /\ UNCHANGED <<callVars, streaming, signal, memory, fileVars, handler, retryVars,
                 recovered, timers, restVars>>

\* A timer calls agent.continue(), which throws when the agent is streaming
\* or when there is nothing to go on from; what it throws is ignored.
TimerFires(t) ==
  /\ timers[t] > 0
  /\ timers' = [timers EXCEPT ![t] = @ - 1]
  /\ IF ~streaming /\ tail = "input" THEN StartRun ELSE UNCHANGED <<streaming, signal>>
  /\ UNCHANGED <<callVars, turns, memory, tail, fileVars, queueVars, retryVars, recovered,
                 restVars>>

-----------------------------------------------------------------------------
(* prompt().                                                               *)

Returned(p) == st[p] \in {"done", "failed"}

\* Mutant of Record: the results are not written to the file.
RecordUnsaved(results) ==
  /\ memory' = memory \o results
  /\ tail' = IF results = <<>> THEN tail ELSE "input"
  /\ UNCHANGED fileVars

\* Results of shell commands go to the transcript and the file at once.
Record(results) ==
  /\ memory' = memory \o results /\ file' = file \o results
  /\ tail' = IF results = <<>> THEN tail ELSE "input"
  /\ fileTail' = IF results = <<>> THEN fileTail ELSE "input"

\* The synchronous head: a streaming agent refuses the prompt, an idle one
\* takes the shell results kept aside first.
PromptBegins(p) ==
  /\ st[p] = "new"
  /\ serial => \A q \in Prompts : st[q] = "new" \/ Returned(q)
  /\ IF streaming
     THEN st' = [st EXCEPT ![p] = "failed"] /\ UNCHANGED <<memory, tail, fileVars, pending>>
     ELSE st' = [st EXCEPT ![p] = "checking"] /\ Record(pending) /\ pending' = <<>>
  /\ UNCHANGED <<owed, turns, streaming, signal, queueVars, retryVars, recovered, timers,
                 serial, did, compaction, unheard>>

\* There is no key, or an extension consumed the text.
PromptStops(p) ==
  /\ st[p] = "checking"
  /\ st' = [st EXCEPT ![p] = "failed"]
  /\ UNCHANGED <<owed, runVars, fileVars, queueVars, retryVars, recovered, timers, restVars>>

\* The last reply in the transcript: the last entry or, when that was taken
\* off, an earlier reply of any kind.
LastReplies ==
  IF tail \in Ends THEN {tail} ELSE IF Len(memory) > 1 THEN Outcomes ELSE {}

\* _checkCompaction before the prompt: the context is small enough (or its
\* overflow is that of another model, or was dealt with), or it is compacted
\* because of its size, aborted replies included ...
PromptChecks(p) ==
  /\ st[p] = "checking"
  /\ \E s \in {"ready"} \cup (IF LastReplies \cap {"ok", "aborted"} # {} THEN {"compacting"} ELSE {}) :
       st' = [st EXCEPT ![p] = s]
  /\ UNCHANGED <<owed, runVars, fileVars, queueVars, retryVars, recovered, timers, restVars>>

\* ... or because the last reply was an overflow.
PromptRecovers(p) ==
  /\ st[p] = "checking" /\ "overflow" \in LastReplies /\ ~recovered
  /\ st' = [st EXCEPT ![p] = "recovering"]
  /\ recovered' = TRUE
  /\ tail' = Dropped(tail)
  /\ UNCHANGED <<owed, turns, streaming, signal, memory, fileVars, queueVars, retryVars, timers, restVars>>

\* _runAutoCompaction ends: it fails, is cancelled or finds nothing to do,
\* or the transcript becomes that of the session file.  A recovery then
\* repeats the run that overflowed, from a timer.
CompactionEnds(recovery) ==
  \/ UNCHANGED <<memory, tail, timers>>
  \/ /\ memory' = file
     /\ tail' = IF recovery /\ fileTail \in Errors THEN "input" ELSE fileTail
     /\ timers' = IF recovery THEN [timers EXCEPT !["recover"] = @ + 1] ELSE timers

PromptCompacts(p) ==
  /\ st[p] \in {"compacting", "recovering"}
  /\ st' = [st EXCEPT ![p] = "ready"]
  /\ CompactionEnds(st[p] = "recovering")
  /\ UNCHANGED <<owed, turns, streaming, signal, fileVars, queueVars, retryVars, recovered,
                 restVars>>

\* agent.prompt() throws if another run began since isStreaming was tested.
PromptRuns(p) ==
  /\ st[p] = "ready"
  /\ IF streaming
     THEN /\ st' = [st EXCEPT ![p] = "failed"]
          /\ UNCHANGED <<runVars, events, unheard>>
     ELSE /\ st' = [st EXCEPT ![p] = "running"]
          /\ StartRun
          /\ memory' = Append(memory, p) /\ tail' = "input" /\ UNCHANGED turns
          /\ Emit(<<UserEvent(p)>>)
          /\ unheard' = IF Heard THEN unheard ELSE unheard \cup {p}
  /\ UNCHANGED <<owed, fileVars, handler, retryVars, recovered, timers, serial, did, pending, compaction>>

\* Mutant of PromptAwaits: the queued events are not waited for.
PromptAwaitsRetry(p) ==
  /\ st[p] = "ended"
  /\ st' = [st EXCEPT ![p] = IF retrying THEN "retrying" ELSE "draining"]
  /\ UNCHANGED <<owed, runVars, fileVars, queueVars, retryVars, recovered, timers, restVars>>

\* waitForRetry returns at once when no retry promise is pending.
PromptAwaits(p) ==
  /\ st[p] = "ended"
  /\ st' = [st EXCEPT ![p] = IF retrying THEN "retrying" ELSE "draining"]
  /\ owed' = [owed EXCEPT ![p] = IF retrying THEN 0 ELSE Len(events)]
  /\ UNCHANGED <<runVars, fileVars, queueVars, retryVars, recovered, timers, restVars>>

\* _awaitAgentEventProcessing, which may throw what a handler threw.
PromptReturns(p) ==
  /\ st[p] = "draining" /\ owed[p] = 0
  /\ \E s \in {"done", "failed"} : st' = [st EXCEPT ![p] = s]
  /\ UNCHANGED <<owed, runVars, fileVars, queueVars, retryVars, recovered, timers, restVars>>

-----------------------------------------------------------------------------
(* _processAgentEvent, one event after the other.                          *)

Taken == events' = Tail(events) /\ handler' = "free"

\* Who waits for the events queued so far has one less to wait for.
OneLess(debts) == [p \in Prompts |-> IF debts[p] = 0 THEN 0 ELSE debts[p] - 1]

\* _resolveRetry: who waits for the retry goes on to wait for the events.
Resumed == [p \in Prompts |-> IF st[p] = "retrying" THEN "draining" ELSE st[p]]
ResumedOwing == [p \in Prompts |-> IF st[p] = "retrying" THEN Len(events) ELSE owed[p]]

Processing(kind) == handler = "free" /\ events # <<>> /\ Head(events).kind = kind

UserProcessed ==
  /\ Processing("user")
  /\ file' = Append(file, Head(events).by) /\ fileTail' = "input"
  /\ recovered' = FALSE
  /\ Taken /\ owed' = OneLess(owed)
  /\ UNCHANGED <<st, runVars, retryVars, timers, restVars>>

\* A reply without error ends a retry that was in progress.
ReplyProcessed ==
  /\ Processing("reply")
  /\ LET o == Head(events).outcome
         done == o \notin Errors /\ attempt > 0
     IN /\ fileTail' = IF o = "turn" THEN "input" ELSE o
        /\ recovered' = (recovered /\ o \in Errors)
        /\ attempt' = IF done THEN 0 ELSE attempt
        /\ retrying' = (retrying /\ ~done)
        /\ st' = IF done THEN Resumed ELSE st
        /\ owed' = OneLess(IF done THEN ResumedOwing ELSE owed)
  /\ Taken
  /\ UNCHANGED <<runVars, file, timers, restVars>>

\* A transient error: drop the reply and sleep ...
EndRetries ==
  /\ Processing("end") /\ Head(events).outcome = "transient"
  /\ attempt < MaxRetries
  /\ attempt' = attempt + 1
  /\ retrying' = TRUE
  /\ tail' = Dropped(tail)
  /\ handler' = "sleeping"
  /\ UNCHANGED <<callVars, turns, streaming, signal, memory, fileVars, events, recovered, timers, restVars>>

\* ... then continue the agent from a timer ...
SleepEnds ==
  /\ handler = "sleeping"
  /\ timers' = [timers EXCEPT !["retry"] = @ + 1]
  /\ Taken /\ owed' = OneLess(owed)
  /\ UNCHANGED <<st, runVars, fileVars, retryVars, recovered, restVars>>

\* Mutant of EndGivesUp: the retry promise is forgotten.
EndGivesUpSilently ==
  /\ Processing("end") /\ Head(events).outcome = "transient"
  /\ attempt >= MaxRetries
  /\ attempt' = 0
  /\ Taken /\ owed' = OneLess(owed)
  /\ UNCHANGED <<st, runVars, fileVars, retrying, recovered, timers, restVars>>

\* ... until the attempts are used up.
EndGivesUp ==
  /\ Processing("end") /\ Head(events).outcome = "transient"
  /\ attempt >= MaxRetries
  /\ attempt' = 0 /\ retrying' = FALSE
  /\ st' = Resumed /\ owed' = OneLess(ResumedOwing)
  /\ Taken
  /\ UNCHANGED <<runVars, fileVars, recovered, timers, restVars>>

\* Mutant of EndRecovers: every overflow is recovered from.
EndRecoversAlways ==
  /\ Processing("end") /\ Head(events).outcome = "overflow"
  /\ recovered' = TRUE
  /\ tail' = Dropped(tail)
  /\ handler' = "recovering"
  /\ UNCHANGED <<callVars, turns, streaming, signal, memory, fileVars, events, retryVars, timers, restVars>>

\* An overflow: drop the reply and compact, once.
EndRecovers ==
  /\ Processing("end") /\ Head(events).outcome = "overflow"
  /\ ~recovered
  /\ recovered' = TRUE
  /\ tail' = Dropped(tail)
  /\ handler' = "recovering"
  /\ UNCHANGED <<callVars, turns, streaming, signal, memory, fileVars, events, retryVars, timers, restVars>>

\* A reply that made the context too long: compact.
EndCompacts ==
  /\ Processing("end") /\ Head(events).outcome = "ok"
  /\ handler' = "compacting"
  /\ UNCHANGED <<callVars, runVars, fileVars, events, retryVars, recovered, timers, restVars>>

HandlerCompacts ==
  /\ handler \in {"compacting", "recovering"}
  /\ CompactionEnds(handler = "recovering")
  /\ Taken /\ owed' = OneLess(owed)
  /\ UNCHANGED <<st, turns, streaming, signal, fileVars, retryVars, recovered, restVars>>

\* Anything else needs nothing.
EndIgnored ==
  /\ Processing("end")
  /\ Head(events).outcome # "transient"
  /\ Head(events).outcome = "overflow" => recovered
  /\ Taken /\ owed' = OneLess(owed)
  /\ UNCHANGED <<st, runVars, fileVars, retryVars, recovered, timers, restVars>>

-----------------------------------------------------------------------------
(* Interruptions.                                                          *)

\* Mutant of StopRetry: the promise is forgotten and never resolved.
StopRetryForgets ==
  /\ retrying' = FALSE
  /\ IF handler = "sleeping"
     THEN attempt' = 0 /\ Taken /\ owed' = OneLess(owed)
     ELSE UNCHANGED <<owed, attempt, queueVars>>
  /\ UNCHANGED st

\* abortRetry() resolves the promise and ends the sleep, if there is one.
StopRetry ==
  /\ retrying' = FALSE
  /\ st' = Resumed
  /\ IF handler = "sleeping"
     THEN attempt' = 0 /\ Taken /\ owed' = OneLess(ResumedOwing)
     ELSE owed' = ResumedOwing /\ UNCHANGED <<attempt, queueVars>>

\* abort() also signals the run.
Abort ==
  /\ Aborts
  /\ did' = did \cup {"abort"}
  /\ signal' \in {signal, streaming}
  /\ StopRetry
  /\ UNCHANGED <<turns, streaming, memory, tail, fileVars, recovered, timers, serial,
                 pending, compaction, unheard>>

\* recordBashResult: what arrives during a run is kept aside.
BashEnds ==
  /\ "bash" \notin did /\ did' = did \cup {"bash"}
  /\ IF streaming
     THEN pending' = Append(pending, "bash") /\ UNCHANGED <<memory, tail, fileVars>>
     ELSE Record(<<"bash">>) /\ UNCHANGED pending
  /\ UNCHANGED <<callVars, turns, streaming, signal, queueVars, retryVars, recovered,
                 timers, serial, compaction, unheard>>

\* compact() unsubscribes from the agent, aborts it and waits for its end ...
CompactBegins ==
  /\ "compact" \notin did /\ did' = did \cup {"compact"}
  /\ compaction' = "stopping"
  /\ signal' = (signal \/ streaming)
  /\ StopRetry
  /\ UNCHANGED <<turns, streaming, memory, tail, fileVars, recovered, timers, serial,
                 pending, unheard>>

\* ... makes the summary, while prompts and timers may start runs ...
CompactStopped ==
  /\ compaction = "stopping" /\ ~streaming
  /\ compaction' = "summing"
  /\ UNCHANGED <<callVars, runVars, fileVars, queueVars, retryVars, recovered, timers,
                 serial, did, pending, unheard>>

\* ... and, unless it fails, makes the transcript that of the file.
CompactEnds ==
  /\ compaction = "summing"
  /\ compaction' = "none"
  /\ \/ UNCHANGED <<memory, tail>>
     \/ file # <<>> /\ memory' = file /\ tail' = fileTail
  /\ UNCHANGED <<callVars, turns, streaming, signal, fileVars, queueVars, retryVars,
                 recovered, timers, serial, did, pending, unheard>>

Caller(p) ==
  \/ PromptStops(p) \/ PromptChecks(p) \/ PromptRecovers(p) \/ PromptCompacts(p)
  \/ PromptRuns(p) \/ PromptAwaits(p) \/ PromptReturns(p)

Handler ==
  \/ UserProcessed \/ ReplyProcessed
  \/ EndRetries \/ SleepEnds \/ EndGivesUp
  \/ EndRecovers \/ EndCompacts \/ HandlerCompacts \/ EndIgnored

Compacting == CompactBegins \/ CompactStopped \/ CompactEnds

Run == RunTurns \/ (\E o \in Outcomes : RunEnds(o)) \/ (\E t \in Timers : TimerFires(t))

Next ==
  \/ \E p \in Prompts : PromptBegins(p) \/ Caller(p)
  \/ Handler \/ Run
  \/ Abort \/ BashEnds \/ Compacting

Spec == Init /\ [][Next]_vars

\* Calls, handlers and timers are resumed and the model ends its replies;
\* nobody is obliged to prompt or to abort.
Fairness ==
  /\ \A p \in Prompts : WF_vars(Caller(p))
  /\ WF_vars(Handler)
  /\ WF_vars(CompactStopped \/ CompactEnds)
  /\ WF_vars(\E o \in Outcomes : RunEnds(o))
  /\ \A t \in Timers : WF_vars(TimerFires(t))

FairSpec == Spec /\ Fairness

-----------------------------------------------------------------------------
(* Properties.                                                             *)

\* Nobody waits for a retry that is over.
WaitersHeld == (\E p \in Prompts : st[p] = "retrying") => retrying

\* Callers wait for each other, nothing was aborted or compacted by hand, no
\* reply asked for tools, which a retry takes for its success (line 516), and no
\* context is too long, which a timer answers after the prompt has returned: in
\* all these cases prompt() may return while its run or its events go on.
Undisturbed == serial /\ did \subseteq {"bash"} /\ turns = 0 /\ "overflow" \notin Outcomes

UnderWay == \E p \in Prompts : st[p] # "new" /\ ~Returned(p)

\* A caller that waits for its prompts learns the outcome of the last retry:
\* none is in progress when the prompt has returned.
RetryNotMissed ==
  Undisturbed /\ retrying => UnderWay

Before(messages, p, q) ==
  \E i, j \in DOMAIN messages : i < j /\ messages[i] = p /\ messages[j] = q

\* The transcript is that of the session file: a prompt that ran is in both,
\* in the order of the runs, the last of them perhaps still in the queue of
\* events; a shell result is in both or kept aside.  (Otherwise a compaction may
\* overtake the message of a prompt that runs while the queue is not empty.)
TranscriptKept ==
  LET unwritten == {p \in Prompts : Contains(events, UserEvent(p))}
  IN Undisturbed =>
       /\ ToSet(memory) = ToSet(file) \cup unwritten
       /\ \A p, q \in Prompts :
            Before(memory, p, q) <=> Before(file, p, q) \/ (Contains(file, p) /\ q \in unwritten)

\* A prompt that has returned is in the session file, whatever was retried,
\* aborted or compacted, unless it ran while a manual compaction had the
\* session unsubscribed.
DoneIsWritten ==
  \A p \in Prompts : st[p] = "done" /\ p \notin unheard => Contains(file, p)

\* The run of a retry failed with an error that is not retried: neither
\* _processAgentEvent nor _handleRetryableError resolves the retry promise.
RetryStranded ==
  retrying /\ attempt > 0 /\ Processing("end") /\ Head(events).outcome \in Errors \ {"transient"}

\* With callers that wait for each other every call of prompt() returns,
\* whatever the outcomes of its runs and whoever aborts them, but in two cases:
\* the run of a retry fails with an error that is not retried, or a manual
\* compaction was begun, perhaps between a transient error and its processing,
\* and the retry is left without the run that would end it.  (Callers that do
\* not wait for each other share the retry promise, and its fate.)
EveryPromptReturns ==
  serial /\ (\E p \in Prompts : st[p] = "checking")
    ~> ~UnderWay \/ RetryStranded \/ "compact" \in did

\* Errors that repeat are not answered for ever: the session comes to rest,
\* whatever the model replies.
ComesToRest == <>[](~streaming /\ events = <<>>)

\* docs/rpc.md: "Auto-retry completes (success or final failure)".
RetryCompletes == Undisturbed /\ retrying ~> ~retrying \/ ~Undisturbed
=============================================================================
