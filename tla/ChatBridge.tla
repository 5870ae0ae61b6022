----------------------------- MODULE ChatBridge -----------------------------
(***************************************************************************)
(* The chat bridge (packages/clanker-channels/src/bridge/bridge.ts): a     *)
(* FIFO queue for each sender of each adapter, and maxConcurrent slots in  *)
(* which prompts are handed to the gateway.  A prompt that has a slot is a *)
(* FRAME, a suspended activation of processNext; it ends when the gateway  *)
(* answers.  A frame keeps the session object it began with, which /new    *)
(* and stop() may take out of the map meanwhile.                           *)
(*                                                                         *)
(* The gateway is there as long as the bridge is used: the daemon unsets   *)
(* it only when it shuts down.  Commands that change no state of the       *)
(* bridge (/abort, /status, /help) and messages refused at once (empty,    *)
(* rejected by the adapter, queue full) are no steps.                      *)
(***************************************************************************)
EXTENDS Integers, SequencesExt

CONSTANTS Adapters, Users,
          MaxConcurrent,  \* config.maxConcurrent
          MaxQueue,       \* config.maxQueuePerSender
          MaxMessages,    \* bound on the messages of one sender
          MaxNews,        \* bound on the /new commands
          MaxStops        \* bound on the times the bridge is stopped

\* A user's id is only unique for its adapter: senderKey.
Keys == Adapters \X Users

ASSUME ConstantsOK ==
  /\ MaxConcurrent \in Nat \ {0} /\ MaxQueue \in Nat \ {0}
  /\ MaxMessages \in Nat \ {0}
  /\ MaxNews \in Nat /\ MaxStops \in Nat
  /\ IsFiniteSet(Keys)

VARIABLES
  running,   \* this.running
  sessions,  \* keys of this.sessions
  older,     \* the order of that map: <<j, k>> when j was put in before k
  queue,     \* session.queue of each key that has a session
  busy,      \* keys whose session has processing = true
  active,    \* this.activeCount
  frames,    \* activations of processNext that wait for the gateway
  received,  \* number of the last message accepted from each key
  done,      \* messages whose answer was sent
  lost,      \* messages that were dropped from a queue
  news, stops

sessionVars == <<sessions, older, queue, busy>>
bounds == <<news, stops>>
vars == <<running, sessionVars, active, frames, received, done, lost, bounds>>

Numbers == 1..MaxMessages
Messages == Keys \X Numbers

\* live: the frame's session object is the one in the map; left: it was taken
\* out of the map with messages in its queue.
Frames == [key : Keys, number : Numbers, live : BOOLEAN, left : BOOLEAN]

TypeOK ==
  /\ running \in BOOLEAN
  /\ sessions \subseteq Keys /\ older \subseteq sessions \X sessions
  /\ queue \in [Keys -> Seq(Numbers)]
  /\ \A k \in Keys : Len(queue[k]) <= MaxQueue
  /\ busy \subseteq Keys
  /\ active \in Int
  /\ frames \subseteq Frames
  /\ received \in [Keys -> 0..MaxMessages]
  /\ done \subseteq Messages /\ lost \subseteq Messages
  /\ news \in 0..MaxNews /\ stops \in 0..MaxStops

Init ==
  /\ running = FALSE
  /\ sessions = {} /\ older = {} /\ queue = [k \in Keys |-> <<>>] /\ busy = {}
  /\ active = 0 /\ frames = {}
  /\ received = [k \in Keys |-> 0]
  /\ done = {} /\ lost = {}
  /\ news = 0 /\ stops = 0

Queued(ks) == {m \in ks \X Numbers : m[2] \in ToSet(queue[m[1]])}

-----------------------------------------------------------------------------
(* processNext and drainWaiting.                                           *)

\* Mutants of Begin: the newest message goes first; the message stays in the
\* queue; the slot is not counted.
BeginNewest(ks, q, b, a, fs) ==
  /\ queue' = [k \in Keys |-> IF k \in ks THEN Front(q[k]) ELSE q[k]]
  /\ busy' = b \cup ks
  /\ active' = a + Cardinality(ks)
  /\ frames' = fs \cup {[key |-> k, number |-> Last(q[k]), live |-> TRUE, left |-> FALSE] : k \in ks}

BeginPeeking(ks, q, b, a, fs) ==
  /\ queue' = q
  /\ busy' = b \cup ks
  /\ active' = a + Cardinality(ks)
  /\ frames' = fs \cup {[key |-> k, number |-> Head(q[k]), live |-> TRUE, left |-> FALSE] : k \in ks}

BeginUncounted(ks, q, b, a, fs) ==
  /\ queue' = [k \in Keys |-> IF k \in ks THEN Tail(q[k]) ELSE q[k]]
  /\ busy' = b \cup ks
  /\ active' = a
  /\ frames' = fs \cup {[key |-> k, number |-> Head(q[k]), live |-> TRUE, left |-> FALSE] : k \in ks}

\* The synchronous head of processNext, for each key of ks: take its oldest
\* message, mark the session and occupy a slot.
Begin(ks, q, b, a, fs) ==
  /\ queue' = [k \in Keys |-> IF k \in ks THEN Tail(q[k]) ELSE q[k]]
  /\ busy' = b \cup ks
  /\ active' = a + Cardinality(ks)
  /\ frames' = fs \cup {[key |-> k, number |-> Head(q[k]), live |-> TRUE, left |-> FALSE] : k \in ks}

\* Keys that have messages and no prompt in flight.
Waiting(b) == {k \in sessions \ b : queue[k] # <<>>}

\* drainWaiting: the first of them in the order of the map, as many as slots
\* are free.
Drained(b, a) ==
  {k \in Waiting(b) : Cardinality({j \in Waiting(b) : <<j, k>> \in older}) < MaxConcurrent - a}

\* The session is looked up, or made: a new key comes last in the map.
Enter(k) ==
  /\ sessions' = sessions \cup {k}
  /\ older' = IF k \in sessions THEN older ELSE older \cup (sessions \X {k})

\* Mutant of Receive: the session's processing flag is not looked at.
ReceiveAnyway(k) ==
  /\ running
  /\ Len(queue[k]) < MaxQueue
  /\ received[k] < MaxMessages
  /\ LET n == received[k] + 1
         q == [queue EXCEPT ![k] = Append(@, n)]
     IN /\ received' = [received EXCEPT ![k] = n]
        /\ IF active < MaxConcurrent
           THEN Begin({k}, q, busy, active, frames)
           ELSE queue' = q /\ UNCHANGED <<busy, active, frames>>
  /\ Enter(k)
  /\ UNCHANGED <<running, done, lost, bounds>>

\* handleMessage: make the session, queue the message, call processNext.
Receive(k) ==
  /\ running
  /\ Len(queue[k]) < MaxQueue
  /\ received[k] < MaxMessages
  /\ LET n == received[k] + 1
         q == [queue EXCEPT ![k] = Append(@, n)]
     IN /\ received' = [received EXCEPT ![k] = n]
        /\ IF k \notin busy /\ active < MaxConcurrent
           THEN Begin({k}, q, busy, active, frames)
           ELSE queue' = q /\ UNCHANGED <<busy, active, frames>>
  /\ Enter(k)
  /\ UNCHANGED <<running, done, lost, bounds>>

\* Mutant of FrameEnds: the other senders are not looked at.
FrameEndsAlone(f) ==
  /\ LET b == IF f.live THEN busy \ {f.key} ELSE busy
         own == IF /\ f.live \/ f.left
                   /\ f.key \notin b /\ queue[f.key] # <<>>
                   /\ active - 1 < MaxConcurrent
                THEN {f.key} ELSE {}
     IN Begin(own, queue, b, active - 1, frames \ {f})
  /\ done' = done \cup {<<f.key, f.number>>}
  /\ UNCHANGED <<running, sessions, older, received, lost, bounds>>

\* The gateway answers: the reply is sent, the slot is free, and the finally
\* block fills it, with the sender's own next message first.
FrameEnds(f) ==
  /\ LET b == IF f.live THEN busy \ {f.key} ELSE busy
         own == IF /\ f.live \/ f.left
                   /\ f.key \notin b /\ queue[f.key] # <<>>
                   /\ active - 1 < MaxConcurrent
                THEN {f.key} ELSE {}
         others == Drained(b \cup own, active - 1 + Cardinality(own))
     IN Begin(own \cup others, queue, b, active - 1, frames \ {f})
  /\ done' = done \cup {<<f.key, f.number>>}
  /\ UNCHANGED <<running, sessions, older, received, lost, bounds>>

-----------------------------------------------------------------------------
(* Commands and the life cycle.                                            *)

\* /new: the queue is emptied and the session forgotten, of every key with
\* this user's id.  A prompt in flight goes on, its session out of the map.
NewCommand(k) ==
  /\ running /\ news < MaxNews
  /\ news' = news + 1
  /\ LET same == {j \in Keys : j[2] = k[2]}
     IN /\ sessions' = sessions \ same
        /\ older' = {p \in older : p[1] \notin same /\ p[2] \notin same}
        /\ queue' = [j \in Keys |-> IF j \in same THEN <<>> ELSE queue[j]]
        /\ busy' = busy \ same
        /\ frames' = {[f EXCEPT !.live = f.live /\ f.key \notin same] : f \in frames}
        /\ lost' = lost \cup Queued(same)
  /\ UNCHANGED <<running, active, received, done, stops>>

\* stop(): the sessions are forgotten with what they hold, and the slots are
\* all counted as free.  Nothing listens to the abortControllers it signals.
Stop ==
  /\ running /\ stops < MaxStops
  /\ stops' = stops + 1
  /\ running' = FALSE
  /\ sessions' = {} /\ older' = {} /\ queue' = [k \in Keys |-> <<>>] /\ busy' = {}
  /\ active' = 0
  /\ frames' = {[f EXCEPT !.live = FALSE,
                          !.left = f.left \/ (f.live /\ queue[f.key] # <<>>)] : f \in frames}
  /\ lost' = lost \cup Queued(Keys)
  /\ UNCHANGED <<received, done, news>>

Start ==
  /\ ~running
  /\ running' = TRUE
  /\ UNCHANGED <<sessionVars, active, frames, received, done, lost, bounds>>

Next ==
  \/ \E k \in Keys : Receive(k) \/ NewCommand(k)
  \/ \E f \in frames : FrameEnds(f)
  \/ Start \/ Stop

Spec == Init /\ [][Next]_vars

\* The gateway answers every prompt (GatewaySession's EveryRequestAnswered;
\* the bridge has one request at a time in the gateway's queue of its key).
Fairness ==
  \A k \in Keys, n \in Numbers :
    WF_vars(\E f \in frames : f.key = k /\ f.number = n /\ FrameEnds(f))

FairSpec == Spec /\ Fairness

-----------------------------------------------------------------------------
(* Properties.                                                             *)

InFlight == {<<f.key, f.number>> : f \in frames}

\* A message that was accepted is in one place: in its sender's queue, in
\* flight, answered, or dropped by a command.  None vanishes or is run twice.
OnePlace ==
  /\ \A k \in Keys : IsInjective(queue[k])
  /\ \A f, g \in frames : f.key = g.key /\ f.number = g.number => f = g
  /\ Queued(Keys) \cap InFlight = {}
  /\ (Queued(Keys) \cup InFlight) \cap (done \cup lost) = {}
  /\ done \cap lost = {}
  /\ Queued(Keys) \cup InFlight \cup done \cup lost
       = {m \in Messages : m[2] <= received[m[1]]}

\* "Multiple senders run concurrently up to maxConcurrent": no more prompts
\* than slots are in flight, unless the bridge was stopped under them.
SlotsKept == stops = 0 => Cardinality(frames) <= MaxConcurrent

\* A session that is in the map has one prompt in flight when it is marked as
\* processing, and else none.
SerialPerSession ==
  \A k \in Keys :
    Cardinality({f \in frames : f.key = k /\ f.live}) = IF k \in busy THEN 1 ELSE 0

\* "Each sender gets their own FIFO queue": the answers come in the order of
\* the messages, unless a prompt in flight was forgotten by /new or stop().
AnsweredInOrder ==
  [][news = 0 /\ stops = 0 =>
       \A m \in done' \ done : \A n \in 1..(m[2] - 1) : <<m[1], n>> \in done]_vars

\* Every message that was accepted is answered or dropped by a command.
EveryMessageLeaves ==
  \A m \in Messages : m \in Queued(Keys) ~> m \in done \cup lost
=============================================================================
