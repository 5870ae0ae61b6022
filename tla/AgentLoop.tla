------------------------------ MODULE AgentLoop ------------------------------
(***************************************************************************)
(* One Agent (packages/agent/src/agent.ts) and the loop it runs            *)
(* (packages/agent/src/agent-loop.ts).  They are two activities joined by  *)
(* an EventStream: the LOOP asks the model, executes the tools and polls   *)
(* the queues of steering and follow-up messages; the AGENT takes the      *)
(* events the loop pushed, later, and appends the messages to its          *)
(* transcript.  Users call prompt, continue, steer, followUp and abort at  *)
(* any moment.  Everything between two awaits is one step.                 *)
(*                                                                         *)
(* A tool call that throws gives a result like one that returns; deltas of *)
(* a streamed reply, pendingToolCalls and the texts are left out.          *)
(***************************************************************************)
EXTENDS Integers, SequencesExt

CONSTANTS MaxCalls,      \* bound on the tool calls of one reply
          MaxRounds,     \* bound on the replies that ask for tools
          MaxPrompts,    \* bound on the prompts
          MaxSteers,     \* bound on the steering messages
          MaxFollowUps   \* bound on the follow-up messages

ASSUME ConstantsOK ==
  /\ MaxCalls \in Nat /\ MaxRounds \in Nat
  /\ MaxPrompts \in Nat /\ MaxSteers \in Nat /\ MaxFollowUps \in Nat

VARIABLES
  messages,   \* agent.state.messages
  streaming,  \* agent.state.isStreaming
  signal,     \* abortController.signal.aborted of the run
  steering,   \* agent.steeringQueue
  followUp,   \* agent.followUpQueue
  returned,   \* history: what clearQueue() handed back to the user
  pc,         \* where the loop is suspended; "idle" when _runLoop has returned
  context,    \* currentContext.messages of the loop
  pending,    \* pendingMessages of the loop
  calls,      \* tool calls of the reply being executed
  next,       \* the one that runs
  events,     \* the EventStream: pushed and not yet taken
  rounds,     \* replies so far that asked for tools
  sent        \* messages of each kind the users have handed over

agentVars == <<messages, streaming, signal>>
queueVars == <<steering, followUp>>
loopVars == <<pc, context, pending, calls, next>>
vars == <<agentVars, queueVars, returned, loopVars, events, rounds, sent>>

User(kind, i) == [role |-> "user", from |-> kind, id |-> i]
Assistant(n, s) == [role |-> "assistant", calls |-> n, stop |-> s]
Result(i, how) == [role |-> "result", call |-> i, how |-> how]
AgentEnd == [role |-> "agent_end"]

\* steeringMode and followUpMode may be set at any moment, so a poll finds
\* either of them.
Modes == {"one-at-a-time", "all"}

Kinds == {"prompt", "steer", "follow"}
Users == {User(k, i) : k \in Kinds, i \in 1..(MaxPrompts + MaxSteers + MaxFollowUps)}
Failures == {"error", "aborted"}
Assistants == {Assistant(n, s) : n \in 0..MaxCalls, s \in {"done"} \cup Failures}
Results == {Result(i, how) : i \in 1..MaxCalls, how \in {"ran", "skipped"}}
Messages == Users \cup Assistants \cup Results

TypeOK ==
  /\ messages \in Seq(Messages)
  /\ streaming \in BOOLEAN
  /\ signal \in BOOLEAN
  /\ steering \in Seq(Users)
  /\ followUp \in Seq(Users)
  /\ pc \in {"idle", "turn", "request", "tool", "turnEnd", "follow", "ended",
             "stuck", "closing"}
  /\ context \in Seq(Messages)
  /\ pending \in Seq(Users)
  /\ calls \in 0..MaxCalls /\ next \in 0..MaxCalls
  /\ events \in Seq(Messages \cup {AgentEnd})
  /\ rounds \in 0..MaxRounds
  /\ sent \in [Kinds -> Nat]
  /\ returned \subseteq Users

Init ==
  /\ messages = <<>> /\ streaming = FALSE /\ signal = FALSE
  /\ steering = <<>> /\ followUp = <<>> /\ returned = {}
  /\ pc = "idle" /\ context = <<>> /\ pending = <<>> /\ calls = 0 /\ next = 0
  /\ events = <<>> /\ rounds = 0
  /\ sent = [k \in Kinds |-> 0]

-----------------------------------------------------------------------------
(* The queues.                                                             *)

\* Mutant of Left: the message stays in the queue.
LeftBehind(mode, q) ==
  IF mode = "all" THEN <<>> ELSE q

\* dequeueSteeringMessages, dequeueFollowUpMessages: what a poll takes of a
\* queue and what it leaves.
Taken(mode, q) ==
  IF mode = "all" \/ q = <<>> THEN q ELSE <<Head(q)>>

Left(mode, q) ==
  IF mode = "all" \/ q = <<>> THEN <<>> ELSE Tail(q)

Steer ==
  /\ sent["steer"] < MaxSteers
  /\ sent' = [sent EXCEPT !["steer"] = @ + 1]
  /\ steering' = Append(steering, User("steer", sent'["steer"]))
  /\ UNCHANGED <<agentVars, followUp, returned, loopVars, events, rounds>>

FollowUp ==
  /\ sent["follow"] < MaxFollowUps
  /\ sent' = [sent EXCEPT !["follow"] = @ + 1]
  /\ followUp' = Append(followUp, User("follow", sent'["follow"]))
  /\ UNCHANGED <<agentVars, steering, returned, loopVars, events, rounds>>

\* _steeringMessages, _followUpMessages: what the session lists as queued, also
\* what the loop has taken and the agent has not announced yet.
Listed ==
  {e \in ToSet(steering \o followUp \o pending \o events) :
     e.role = "user" /\ e.from \in {"steer", "follow"}}

\* clearQueue(), once (a bound): both queues are emptied, and what the session
\* lists goes back to the user.
ClearQueue ==
  /\ steering \o followUp # <<>> /\ returned = {}
  /\ steering' = <<>> /\ followUp' = <<>>
  /\ returned' = Listed
  /\ UNCHANGED <<agentVars, loopVars, events, rounds, sent>>

-----------------------------------------------------------------------------
(* prompt and continue: _runLoop up to the first await of the loop, which  *)
(* is the initial steering poll.                                           *)

\* Mutant of Begin: the loop works on the transcript without the new messages.
BeginBare(ms) ==
  /\ streaming' = TRUE /\ signal' = FALSE
  /\ context' = messages
  /\ events' = ms
  /\ pc' = "turn" /\ calls' = 0 /\ next' = 0

\* The loop works on a copy of the transcript that ends with the new
\* messages, and announces these.
Begin(ms) ==
  /\ streaming' = TRUE /\ signal' = FALSE
  /\ context' = messages \o ms
  /\ events' = ms
  /\ pc' = "turn" /\ calls' = 0 /\ next' = 0

PollSteering ==
  \E mode \in Modes :
    /\ pending' = Taken(mode, steering)
    /\ steering' = Left(mode, steering)

\* prompt() throws while isStreaming.
Prompt ==
  /\ pc = "idle" /\ ~streaming
  /\ sent["prompt"] < MaxPrompts
  /\ sent' = [sent EXCEPT !["prompt"] = @ + 1]
  /\ Begin(<<User("prompt", sent'["prompt"])>>)
  /\ PollSteering
  /\ UNCHANGED <<messages, followUp, returned, rounds>>

\* continue() after the model has spoken: resume with a queued message, the
\* steering ones first; the initial poll is then skipped.
ContinueQueued ==
  /\ pc = "idle" /\ ~streaming
  /\ messages # <<>> /\ Last(messages).role = "assistant"
  /\ \E mode \in Modes :
       \/ /\ steering # <<>>
          /\ Begin(Taken(mode, steering))
          /\ steering' = Left(mode, steering)
          /\ pending' = <<>>
          /\ UNCHANGED followUp
       \/ /\ steering = <<>> /\ followUp # <<>>
          /\ Begin(Taken(mode, followUp))
          /\ followUp' = Left(mode, followUp)
          /\ PollSteering
  /\ UNCHANGED <<messages, returned, rounds, sent>>

\* continue() from a user message or a tool result: nothing is added.
ContinueTurn ==
  /\ pc = "idle" /\ ~streaming
  /\ messages # <<>> /\ Last(messages).role # "assistant"
  /\ Begin(<<>>)
  /\ PollSteering
  /\ UNCHANGED <<messages, followUp, returned, rounds, sent>>

\* A retry of the session removes the failed reply before it continues.
DropFailure ==
  /\ pc = "idle" /\ messages # <<>>
  /\ Last(messages).role = "assistant" /\ Last(messages).stop = "error"
  /\ messages' = Front(messages)
  /\ UNCHANGED <<streaming, signal, queueVars, loopVars, events, returned, rounds, sent>>

Abort ==
  /\ pc # "idle" /\ ~signal
  /\ signal' = TRUE
  /\ UNCHANGED <<messages, streaming, queueVars, loopVars, events, returned, rounds, sent>>

-----------------------------------------------------------------------------
(* The loop.                                                               *)

\* A turn begins: pending messages enter the context before the request.
Turn ==
  /\ pc = "turn"
  /\ context' = context \o pending
  /\ events' = events \o pending
  /\ pending' = <<>>
  /\ pc' = "request"
  /\ UNCHANGED <<agentVars, queueVars, calls, next, returned, rounds, sent>>

\* getApiKey throws.  Nobody awaits the loop: its promise is rejected, no
\* agent_end is pushed, and the agent waits for the next event.
LookupThrows ==
  /\ pc = "request"
  /\ pc' = "stuck"
  /\ UNCHANGED <<agentVars, queueVars, context, pending, calls, next, events, returned, rounds, sent>>

\* The reply failed or was aborted: the loop ends, whether it holds calls or not.
ReplyFails ==
  /\ pc = "request"
  /\ \E n \in {0, MaxCalls}, s \in {"error"} \cup (IF signal THEN {"aborted"} ELSE {}) :
       /\ context' = Append(context, Assistant(n, s))
       /\ events' = events \o <<Assistant(n, s), AgentEnd>>
  /\ pc' = "ended"
  /\ UNCHANGED <<agentVars, queueVars, pending, calls, next, returned, rounds, sent>>

\* The reply asks for tools: the first one starts.
ReplyCalls ==
  /\ pc = "request" /\ rounds < MaxRounds
  /\ rounds' = rounds + 1
  /\ \E n \in 1..MaxCalls :
       /\ context' = Append(context, Assistant(n, "done"))
       /\ events' = Append(events, Assistant(n, "done"))
       /\ calls' = n
  /\ next' = 1
  /\ pc' = "tool"
  /\ UNCHANGED <<agentVars, queueVars, returned, pending, sent>>

\* The reply asks for nothing: the steering queue is polled at once.
ReplyAnswers ==
  /\ pc = "request"
  /\ context' = Append(context, Assistant(0, "done"))
  /\ events' = Append(events, Assistant(0, "done"))
  /\ PollSteering
  /\ pc' = IF pending' = <<>> THEN "follow" ELSE "turn"
  /\ UNCHANGED <<agentVars, followUp, calls, next, returned, rounds, sent>>

\* Mutant of Skipped: the calls that are skipped get no result.
SkippedSilently(i) == <<>>

\* skipToolCall for the calls after the i-th.
Skipped(i) == [k \in 1..(calls - i) |-> Result(i + k, "skipped")]

\* A tool returns or throws.  The steering queue is polled: what it holds
\* skips the calls that remain.  The results are put in the context at the
\* end of the turn; nothing reads it before.
ToolReturns ==
  /\ pc = "tool"
  /\ PollSteering
  /\ LET results == <<Result(next, "ran")>>
                      \o (IF pending' = <<>> THEN <<>> ELSE Skipped(next))
     IN /\ context' = context \o results
        /\ events' = events \o results
  /\ IF pending' # <<>> THEN pc' = "turn" /\ UNCHANGED next
     ELSE IF next < calls THEN pc' = "tool" /\ next' = next + 1
     ELSE pc' = "turnEnd" /\ UNCHANGED next
  /\ UNCHANGED <<agentVars, followUp, calls, returned, rounds, sent>>

\* Mutant of TurnEnds: the loop stops after the tools.
TurnEndsRun ==
  /\ pc = "turnEnd"
  /\ PollSteering
  /\ pc' = IF pending' = <<>> THEN "follow" ELSE "turn"
  /\ UNCHANGED <<agentVars, followUp, context, calls, next, events, returned, rounds, sent>>

\* After the last tool: one more poll, then the next turn in any case.
TurnEnds ==
  /\ pc = "turnEnd"
  /\ PollSteering
  /\ pc' = "turn"
  /\ UNCHANGED <<agentVars, followUp, context, calls, next, events, returned, rounds, sent>>

\* Mutant of PollFollowUps: the end of the run is not announced.
PollFollowUpsSilently ==
  /\ pc = "follow"
  /\ \E mode \in Modes :
       pending' = Taken(mode, followUp) /\ followUp' = Left(mode, followUp)
  /\ pc' = IF followUp # <<>> THEN "turn" ELSE "ended"
  /\ UNCHANGED <<agentVars, steering, context, calls, next, events, returned, rounds, sent>>

\* The loop would stop: it polls the follow-up queue, and ends when it is empty.
PollFollowUps ==
  /\ pc = "follow"
  /\ \E mode \in Modes :
       pending' = Taken(mode, followUp) /\ followUp' = Left(mode, followUp)
  /\ IF followUp # <<>>
     THEN pc' = "turn" /\ UNCHANGED events
     ELSE pc' = "ended" /\ events' = Append(events, AgentEnd)
  /\ UNCHANGED <<agentVars, steering, context, calls, next, returned, rounds, sent>>

-----------------------------------------------------------------------------
(* The agent takes the events.                                             *)

TakeMessage ==
  /\ events # <<>> /\ Head(events) # AgentEnd
  /\ messages' = Append(messages, Head(events))
  /\ events' = Tail(events)
  /\ UNCHANGED <<streaming, signal, queueVars, loopVars, returned, rounds, sent>>

\* agent_end: isStreaming is cleared before the listeners hear of it.
TakeEnd ==
  /\ events # <<>> /\ Head(events) = AgentEnd
  /\ streaming' = FALSE
  /\ events' = Tail(events)
  /\ pc' = "closing"
  /\ UNCHANGED <<messages, signal, queueVars, context, pending, calls, next,
                 returned, rounds, sent>>

\* The finally block of _runLoop; the promise of the run is resolved.
Finally ==
  /\ pc = "closing"
  /\ pc' = "idle" /\ streaming' = FALSE /\ signal' = FALSE
  /\ context' = <<>> /\ calls' = 0 /\ next' = 0
  /\ UNCHANGED <<messages, queueVars, pending, events, returned, rounds, sent>>

-----------------------------------------------------------------------------
UserStep == Prompt \/ ContinueQueued \/ ContinueTurn \/ DropFailure \/ Abort
            \/ Steer \/ FollowUp \/ ClearQueue

Reply == ReplyFails \/ ReplyCalls \/ ReplyAnswers

Loop == Turn \/ LookupThrows \/ Reply \/ ToolReturns \/ TurnEnds \/ PollFollowUps

Agent == TakeMessage \/ TakeEnd \/ Finally

Next == UserStep \/ Loop \/ Agent

Spec == Init /\ [][Next]_vars

\* The runtime resumes what it suspended, the model ends its replies and the
\* tools return; nothing obliges a user to call again.
Fairness == WF_vars(Loop) /\ WF_vars(Agent)

FairSpec == Spec /\ Fairness

-----------------------------------------------------------------------------
(* Properties.                                                             *)

\* What the conversation holds or is about to hold: the context of the loop
\* and its pending messages, or the transcript when no loop is running.
Held == IF pc = "idle" THEN messages ELSE context \o pending

OfKind(kind, e) == e.role = "user" /\ e.from = kind

Issued(kind) == {User(kind, i) : i \in 1..sent[kind]}

InOrder(kind, q) ==
  \A i, j \in DOMAIN q :
    OfKind(kind, q[i]) /\ OfKind(kind, q[j]) /\ i < j => q[i].id < q[j].id

Kept(kind, queue) ==
  LET there == {e \in ToSet(Held \o queue) : OfKind(kind, e)}
  IN InOrder(kind, Held \o queue) /\ there \subseteq Issued(kind) /\ Issued(kind) \subseteq there \cup returned

\* Messages of a kind are delivered in the order they were given, each of them
\* at most once, and none is lost: it is in the conversation, in its queue, or
\* clearQueue() handed it back.  An aborted, failed or retried run keeps it.
QueuesConserved ==
  Kept("steer", steering) /\ Kept("follow", followUp) /\ Kept("prompt", <<>>)

\* The events that announce messages: agent_end is the last one, if it is there.
Announced ==
  IF events # <<>> /\ Last(events) = AgentEnd THEN Front(events) ELSE events

\* The transcript of the agent and the events it has not taken yet are the
\* context the loop works on, so the two agree when the run is over.
TranscriptsAgree == pc # "idle" => messages \o Announced = context

\* The reply at i got its results: one per call, in order, right after it.
Answered(c, i) ==
  \A k \in 1..c[i].calls :
    i + k \in DOMAIN c /\ c[i + k].role = "result" /\ c[i + k].call = k

\* A model is never asked to go on from a conversation in which a tool call
\* of an earlier reply lacks its result, has two, or has them out of order,
\* whatever was steered, skipped, aborted or retried in between.
CallsAnswered ==
  pc = "request" =>
    \A i \in DOMAIN context :
      /\ context[i].role = "assistant" /\ context[i].stop = "done" => Answered(context, i)
      /\ context[i].role = "result" =>
           LET j == i - context[i].call
           IN j \in DOMAIN context /\ context[j].role = "assistant"
                /\ context[i].call <= context[j].calls

\* Agent.followUp: "Delivered only when agent has no more tool calls": a
\* running agent takes a follow-up message when no call is left open.
FollowUpsWait ==
  [][pc # "idle" /\ returned' = returned /\ Len(followUp') < Len(followUp) =>
       Last(context).role = "assistant" /\ Last(context).calls = 0]_vars

\* Every run comes to its end, aborted or not, so that prompt() and continue()
\* return: only the lookup of a key that throws holds it for ever.
RunCompletes == pc # "idle" ~> pc \in {"idle", "stuck"}
=============================================================================
