--------------------------- MODULE GatewaySession ---------------------------
(***************************************************************************)
(* One managed session of the gateway (GatewayRuntime in                   *)
(* packages/coding-agent/src/core/gateway/runtime.ts): the bounded queue   *)
(* of requests in front of one AgentSession, the processing flag that is   *)
(* meant to keep one prompt in flight, and the calls that interfere with   *)
(* it: abort, clear, reset and delete.  A request that has left the queue  *)
(* and has not been answered is a FRAME: one suspended activation of       *)
(* processNext.  Everything between two awaits of the code is one step.    *)
(***************************************************************************)
EXTENDS Integers, Sequences, FiniteSets

CONSTANTS Requests,    \* messages handed to queueManagedMessage
          Durable,     \* those that carry a durableRun
          Callers,     \* concurrent calls of resetSession / handleDeleteSession
          Resetters,   \* bound: those of them that may reset the primary session
          MaxQueue,    \* config.session.maxQueuePerSession
          MaxRetries,  \* bound on the agent runs one prompt retries
          None,        \* no request
          Unasked      \* a run of the agent that no request started

ASSUME ConstantsOK ==
  /\ Durable \subseteq Requests
  /\ Resetters \subseteq Callers
  /\ MaxQueue \in Nat
  /\ MaxRetries \in Nat
  /\ None \notin Requests
  /\ Unasked \notin Requests
  /\ None # Unasked

VARIABLES
  st,          \* where each request is
  answer,      \* what its promise was resolved with
  tries,       \* agent runs a request's prompt has retried
  queue,       \* managedSession.queue
  processing,  \* managedSession.processing
  reporter,    \* managedSession.activeDurableRun (the request it reports on)
  attached,    \* the object is still in the sessions map
  primary,     \* this is config.sessionKey's session, which is never deleted
  running,     \* whose _runLoop activations are suspended in the agent
  streaming,   \* agent.state.isStreaming
  owner,       \* whose run set abortController and runningPrompt last
  aborted,     \* requests whose run was told to abort
  call,        \* progress of each reset or delete
  waits        \* the waitForIdle promise each call is suspended on

frameVars == <<st, answer, tries>>
agentVars == <<running, streaming, owner, aborted>>
callVars  == <<call, waits>>
mapVars   == <<attached, primary>>
vars == <<frameVars, queue, processing, reporter, mapVars, agentVars, callVars>>

Stages == {"new", "arriving", "queued", "prompting", "running", "ended",
           "finalizing", "settled", "dropped"}
InFlight == {"prompting", "running", "ended", "finalizing"}
Answers == {"none", "ok", "error", "full", "rejected"}
Runs == Requests \cup {Unasked}

TypeOK ==
  /\ st \in [Requests -> Stages]
  /\ answer \in [Requests -> Answers]
  /\ tries \in [Requests -> 0..MaxRetries]
  /\ queue \in Seq(Requests) /\ Len(queue) <= MaxQueue
  /\ processing \in BOOLEAN
  /\ reporter \in Durable \cup {None}
  /\ attached \in BOOLEAN
  /\ primary \in BOOLEAN
  /\ running \subseteq Runs
  /\ streaming \in BOOLEAN
  /\ owner \in Runs \cup {None}
  /\ aborted \subseteq Requests
  /\ call \in [Callers -> {"idle", "aborting", "switching", "clearing",
                           "switched", "done"}]
  /\ waits \in [Callers -> {"no", "current", "lost"}]

Init ==
  /\ st = [r \in Requests |-> "new"]
  /\ answer = [r \in Requests |-> "none"]
  /\ tries = [r \in Requests |-> 0]
  /\ queue = <<>>
  /\ processing = FALSE
  /\ reporter = None
  /\ attached = TRUE
  /\ primary \in BOOLEAN
  /\ running = {}
  /\ streaming = FALSE
  /\ owner = None
  /\ aborted = {}
  /\ call = [c \in Callers |-> "idle"]
  /\ waits = [c \in Callers |-> "no"]

Frames == {r \in Requests : st[r] \in InFlight}
Queued == {queue[i] : i \in 1..Len(queue)}

-----------------------------------------------------------------------------
(* The queue.                                                              *)

\* Mutant of TakeNext: the entry stays queued.
TakeNextPeeks(q, stages, active) ==
  /\ queue' = q
  /\ st' = [stages EXCEPT ![Head(q)] = "prompting"]
  /\ processing' = TRUE
  /\ reporter' = IF Head(q) \in Durable THEN Head(q) ELSE active

\* The synchronous head of processNext: take the oldest entry of q, set
\* processing and install the durable reporter of the request, if it has one.
TakeNext(q, stages, active) ==
  /\ queue' = Tail(q)
  /\ st' = [stages EXCEPT ![Head(q)] = "prompting"]
  /\ processing' = TRUE
  /\ reporter' = IF Head(q) \in Durable THEN Head(q) ELSE active

\* ensureSession found this object; the caller resumes a microtask later.
Arrive(r) ==
  /\ st[r] = "new" /\ attached
  /\ st' = [st EXCEPT ![r] = "arriving"]
  /\ UNCHANGED <<answer, tries, queue, processing, reporter, mapVars, agentVars, callVars>>

\* queueManagedMessage after its await: refuse at the limit ...
QueueFull(r) ==
  /\ st[r] = "arriving"
  /\ Len(queue) >= MaxQueue
  /\ st' = [st EXCEPT ![r] = "settled"]
  /\ answer' = [answer EXCEPT ![r] = "full"]
  /\ UNCHANGED <<tries, queue, processing, reporter, mapVars, agentVars, callVars>>

\* ... else push and call processNext, which returns at once when busy.
Push(r) ==
  /\ st[r] = "arriving"
  /\ Len(queue) < MaxQueue
  /\ LET q == Append(queue, r)
         s == [st EXCEPT ![r] = "queued"]
     IN IF processing
        THEN /\ queue' = q
             /\ st' = s
             /\ UNCHANGED <<processing, reporter>>
        ELSE TakeNext(q, s, reporter)
  /\ UNCHANGED <<answer, tries, mapVars, agentVars, callVars>>

-----------------------------------------------------------------------------
(* The agent underneath: Agent._runLoop, isStreaming, abortController and   *)
(* runningPrompt.                                                           *)

\* _runLoop sets a fresh abortController and runningPrompt.  A promise that
\* it overwrites is never resolved: who waits on it waits for ever.
StartRun(x) ==
  /\ running' = running \cup {x}
  /\ streaming' = TRUE
  /\ owner' = x
  /\ aborted' = aborted \ {x}
  /\ waits' = [c \in Callers |-> IF waits[c] = "current" /\ owner # None
                                 THEN "lost" ELSE waits[c]]

\* Mutant of EndRun: runningPrompt is dropped without being resolved.
EndRunUnresolved(x) ==
  /\ x \in running
  /\ running' = running \ {x}
  /\ streaming' = FALSE
  /\ owner' = None
  /\ UNCHANGED waits

\* agent_end and the finally block of _runLoop.
EndRun(x) ==
  /\ x \in running
  /\ running' = running \ {x}
  /\ streaming' = FALSE
  /\ owner' = None
  /\ waits' = [c \in Callers |-> IF waits[c] = "current" /\ owner # None
                                 THEN "no" ELSE waits[c]]

\* agent.abort(): only the run that owns the abortController hears it.
AbortRun == aborted' = aborted \cup (Requests \cap {owner})

\* A continuation that auto-compaction schedules with a timer, which no
\* request of the gateway is waiting for; continue() throws when streaming.
AutoContinue ==
  /\ ~streaming
  /\ StartRun(Unasked)
  /\ UNCHANGED <<frameVars, queue, processing, reporter, mapVars, call>>

AutoEnd ==
  /\ EndRun(Unasked)
  /\ UNCHANGED <<frameVars, queue, processing, reporter, mapVars, aborted, call>>

-----------------------------------------------------------------------------
(* processNext after its first await: the frame of request r.              *)

\* AgentSession.prompt reaches agent.prompt.
PromptRuns(r) ==
  /\ st[r] = "prompting" /\ ~streaming
  /\ st' = [st EXCEPT ![r] = "running"]
  /\ StartRun(r)
  /\ UNCHANGED <<answer, tries, queue, processing, reporter, mapVars, call>>

\* An extension command or an input handler consumed the text: no run.
PromptHandled(r) ==
  /\ st[r] = "prompting"
  /\ st' = [st EXCEPT ![r] = "finalizing"]
  /\ answer' = [answer EXCEPT ![r] = "ok"]
  /\ UNCHANGED <<tries, queue, processing, reporter, mapVars, agentVars, callVars>>

\* No model, no key, a failing extension, or "Agent is already processing".
PromptThrows(r) ==
  /\ st[r] = "prompting"
  /\ st' = [st EXCEPT ![r] = "finalizing"]
  /\ answer' = [answer EXCEPT ![r] = "error"]
  /\ UNCHANGED <<tries, queue, processing, reporter, mapVars, agentVars, callVars>>

RunEnds(r) ==
  /\ st[r] = "running" /\ EndRun(r)
  /\ st' = [st EXCEPT ![r] = "ended"]
  /\ UNCHANGED <<answer, tries, queue, processing, reporter, mapVars, aborted, call>>

\* waitForRetry: the session continues the agent after a transient error.
RunRetries(r) ==
  /\ st[r] = "ended" /\ ~streaming
  /\ r \notin aborted
  /\ tries[r] < MaxRetries
  /\ tries' = [tries EXCEPT ![r] = @ + 1]
  /\ st' = [st EXCEPT ![r] = "running"]
  /\ StartRun(r)
  /\ UNCHANGED <<answer, queue, processing, reporter, mapVars, call>>

\* prompt() returns, also after an abort, or its event queue had failed.
PromptReturns(r) ==
  /\ st[r] = "ended"
  /\ st' = [st EXCEPT ![r] = "finalizing"]
  /\ \E a \in {"ok", "error"} : answer' = [answer EXCEPT ![r] = a]
  /\ UNCHANGED <<tries, queue, processing, reporter, mapVars, agentVars, callVars>>

\* After a retry, prompt() returns with the first reply that is no error.  It
\* may ask for tools: the run goes on, and no request waits for it any more.
PromptReturnsEarly(r) ==
  /\ st[r] = "running" /\ tries[r] > 0
  /\ r \in running /\ Unasked \notin running
  /\ st' = [st EXCEPT ![r] = "finalizing"]
  /\ answer' = [answer EXCEPT ![r] = "ok"]
  /\ running' = (running \ {r}) \cup {Unasked}
  /\ owner' = IF owner = r THEN Unasked ELSE owner
  /\ UNCHANGED <<tries, queue, processing, reporter, mapVars, streaming, aborted, callVars>>

\* Mutant of Settle: the finally block does not call processNext.
SettleStops(r) ==
  /\ st[r] = "finalizing"
  /\ st' = [st EXCEPT ![r] = "settled"]
  /\ processing' = FALSE
  /\ reporter' = None
  /\ UNCHANGED <<answer, tries, queue, mapVars, agentVars, callVars>>

\* The finally block: finalize the durable run (its failure turns the answer
\* into an error), resolve the promise, clear the flags whoever set them,
\* and take the next entry of the queue.
Settle(r) ==
  /\ st[r] = "finalizing"
  /\ \E a \in {answer[r]} \cup (IF r \in Durable THEN {"error"} ELSE {}) :
       answer' = [answer EXCEPT ![r] = a]
  /\ LET s == [st EXCEPT ![r] = "settled"]
     IN IF queue = <<>>
        THEN /\ st' = s
             /\ processing' = FALSE
             /\ reporter' = None
             /\ UNCHANGED queue
        ELSE TakeNext(queue, s, None)
  /\ UNCHANGED <<tries, mapVars, agentVars, callVars>>

-----------------------------------------------------------------------------
(* The calls that interfere.                                               *)

\* Mutant of RejectQueued: resolves the entries and leaves them queued.
RejectWithoutSplice ==
  /\ UNCHANGED queue
  /\ st' = [r \in Requests |-> IF r \in Queued THEN "settled" ELSE st[r]]
  /\ answer' = [r \in Requests |-> IF r \in Queued THEN "rejected" ELSE answer[r]]

\* rejectQueuedMessages: splice the queue and resolve every entry.
RejectQueued ==
  /\ queue' = <<>>
  /\ st' = [r \in Requests |-> IF r \in Queued THEN "settled" ELSE st[r]]
  /\ answer' = [r \in Requests |-> IF r \in Queued THEN "rejected" ELSE answer[r]]

\* abortSession is synchronous: reject the queue, abort the run, not awaited.
AbortSession ==
  /\ attached
  /\ queue # <<>> \/ processing
  /\ RejectQueued
  /\ IF processing THEN AbortRun ELSE UNCHANGED aborted
  /\ UNCHANGED <<tries, processing, reporter, mapVars, running, streaming, owner, callVars>>

\* clearQueue empties the queue and resolves nothing.
ClearQueue ==
  /\ attached /\ queue # <<>>
  /\ queue' = <<>>
  /\ st' = [r \in Requests |-> IF r \in Queued THEN "dropped" ELSE st[r]]
  /\ UNCHANGED <<answer, tries, processing, reporter, mapVars, agentVars, callVars>>

\* session.abort(): signal the run and wait on its promise, if there is one.
AwaitAbort(c) ==
  /\ AbortRun
  /\ waits' = [waits EXCEPT ![c] = IF owner = None THEN "no" ELSE "current"]

\* resetSession and handleDeleteSession up to their first await.
CallBegins(c) ==
  /\ call[c] = "idle" /\ attached
  /\ primary => c \in Resetters
  /\ call' = [call EXCEPT ![c] = "aborting"]
  /\ IF processing THEN AwaitAbort(c) ELSE UNCHANGED <<aborted, waits>>
  /\ UNCHANGED <<frameVars, queue, processing, reporter, mapVars, running, streaming, owner>>

\* Mutant of Discard: clears the flag as the reset of the primary does.
DiscardClearsFlag(c) ==
  /\ ~primary /\ call[c] = "aborting" /\ waits[c] = "no"
  /\ RejectQueued
  /\ attached' = FALSE
  /\ processing' = FALSE
  /\ call' = [call EXCEPT ![c] = "done"]
  /\ UNCHANGED <<tries, reporter, primary, agentVars, waits>>

\* Any other session: reject the queue, unsubscribe, dispose, forget it.
Discard(c) ==
  /\ ~primary /\ call[c] = "aborting" /\ waits[c] = "no"
  /\ RejectQueued
  /\ attached' = FALSE
  /\ call' = [call EXCEPT ![c] = "done"]
  /\ UNCHANGED <<tries, processing, reporter, primary, agentVars, waits>>

\* The primary session is renewed in place: newSession first asks the
\* extensions, which may cancel it ...
ResetRejects(c) ==
  /\ primary /\ call[c] = "aborting" /\ waits[c] = "no"
  /\ RejectQueued
  /\ \E s \in {"switching", "switched"} : call' = [call EXCEPT ![c] = s]
  /\ UNCHANGED <<tries, processing, reporter, mapVars, agentVars, waits>>

\* ... then aborts the agent again and waits for it ...
ResetAborts(c) ==
  /\ call[c] = "switching"
  /\ call' = [call EXCEPT ![c] = "clearing"]
  /\ AwaitAbort(c)
  /\ UNCHANGED <<frameVars, queue, processing, reporter, mapVars, running, streaming, owner>>

\* ... then calls agent.reset(), which clears isStreaming whatever runs ...
ResetClears(c) ==
  /\ call[c] = "clearing" /\ waits[c] = "no"
  /\ call' = [call EXCEPT ![c] = "switched"]
  /\ streaming' = FALSE
  /\ UNCHANGED <<frameVars, queue, processing, reporter, mapVars, running, owner, aborted, waits>>

\* ... and resetSession clears the processing flag whatever is in flight.
ResetEnds(c) ==
  /\ call[c] = "switched"
  /\ call' = [call EXCEPT ![c] = "done"]
  /\ processing' = FALSE
  /\ UNCHANGED <<frameVars, queue, reporter, mapVars, agentVars, waits>>

-----------------------------------------------------------------------------
Frame(r) ==
  \/ PromptRuns(r) \/ PromptHandled(r) \/ PromptThrows(r)
  \/ RunEnds(r) \/ RunRetries(r)
  \/ PromptReturns(r) \/ PromptReturnsEarly(r) \/ Settle(r)

Reset(c) ==
  \/ CallBegins(c) \/ Discard(c)
  \/ ResetRejects(c) \/ ResetAborts(c) \/ ResetClears(c) \/ ResetEnds(c)

Next ==
  \/ \E r \in Requests : Arrive(r) \/ QueueFull(r) \/ Push(r) \/ Frame(r)
  \/ \E c \in Callers : Reset(c)
  \/ AbortSession \/ ClearQueue \/ AutoContinue \/ AutoEnd

Spec == Init /\ [][Next]_vars

\* A suspended activation is resumed once its promise settles, prompts fail
\* or run, and runs and retries come to their end.  When they do not is the
\* matter of AgentLoop's RunCompletes and AgentSession's RetryCompletes.
Fairness ==
  /\ \A r \in Requests :
       /\ WF_vars(QueueFull(r) \/ Push(r))
       /\ WF_vars(PromptRuns(r) \/ PromptHandled(r) \/ PromptThrows(r))
       /\ WF_vars(RunEnds(r))
       /\ WF_vars(PromptReturns(r))
       /\ WF_vars(Settle(r))
  /\ WF_vars(AutoEnd)
  /\ \A c \in Callers :
       WF_vars(Discard(c) \/ ResetRejects(c) \/ ResetAborts(c)
                 \/ ResetClears(c) \/ ResetEnds(c))

FairSpec == Spec /\ Fairness

-----------------------------------------------------------------------------
(* Properties.                                                             *)

\* q holds exactly the requests that s says are queued, each of them once.
Places(q, s) ==
  /\ \A i \in 1..Len(q) : s[q[i]] = "queued"
  /\ \A i, j \in 1..Len(q) : q[i] = q[j] => i = j
  /\ \A r \in Requests : s[r] = "queued" => \E i \in 1..Len(q) : q[i] = r

\* The queue and the promises agree: an entry of the queue is a request
\* whose promise is pending, it is there once, no other request is waiting
\* for a turn, and a promise is settled with an answer.
OnePlace ==
  /\ Places(queue, st)
  /\ \A r \in Requests : st[r] \in {"finalizing", "settled"} => answer[r] # "none"

\* No request is left in the queue with nobody to take it: while an entry
\* waits, some activation of processNext is in flight and will come back.
NoStrandedRequest == queue # <<>> => Frames # {}

\* The strengthening that makes it inductive: the flag, which keeps a pushed
\* request from starting at once, is only set while a frame is in flight.
QueueDriven == queue # <<>> \/ processing => Frames # {}

IInv == TypeOK /\ OnePlace /\ QueueDriven

\* On a session that is not the primary one the processing flag, which
\* handleSteer, abortSession and the eviction of idle sessions act on, says
\* exactly whether a prompt is in flight; there is one at most; and a durable
\* run in flight is the one whose reporter gets the events.
FlagTells == processing <=> Frames # {}
Alone == \A r, s \in Frames : r = s
ReporterOwned == \A r \in Durable : st[r] \in InFlight <=> reporter = r

SingleFlight == ~primary => FlagTells /\ Alone /\ ReporterOwned

\* A promise is resolved once: no step changes the place or the answer of a
\* request that was settled, and none revives a dropped one.
SettledKept ==
  \A r \in Requests : st[r] \in {"settled", "dropped"} =>
    st'[r] = st[r] /\ answer'[r] = answer[r]

SettledOnce == [][SettledKept]_vars

\* Every accepted request is answered, unless clearQueue dropped it.
EveryRequestAnswered ==
  \A r \in Requests :
    st[r] = "queued" ~> st[r] = "settled" \/ (st[r] = "dropped" /\ answer[r] = "none")

\* A reset or a delete of a session other than the primary one completes.
DiscardCompletes ==
  \A c \in Callers : ~primary /\ call[c] = "aborting" ~> call[c] = "done"
=============================================================================
