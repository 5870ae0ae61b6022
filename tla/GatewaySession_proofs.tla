------------------------ MODULE GatewaySession_proofs ------------------------
(***************************************************************************)
(* Proofs about GatewaySession, for every set of requests and callers,     *)
(* every queue limit and both kinds of session.                            *)
(***************************************************************************)
EXTENDS GatewaySession, SequenceTheorems, TLAPS

\* What the head of processNext does to the queue and the stages, typed.
LEMMA TailOfQueue ==
  ASSUME NEW q \in Seq(Requests), q # <<>>
  PROVE  /\ Tail(q) \in Seq(Requests)
         /\ Len(Tail(q)) = Len(q) - 1
         /\ Head(q) = q[1] /\ Head(q) \in Requests
         /\ \A i \in 1..Len(Tail(q)) : Tail(q)[i] = q[i + 1]
  BY HeadTailProperties, ElementOfSeq

LEMMA AppendToQueue ==
  ASSUME NEW q \in Seq(Requests), NEW r \in Requests
  PROVE  /\ Append(q, r) \in Seq(Requests)
         /\ Append(q, r) # <<>>
         /\ Len(Append(q, r)) = Len(q) + 1
         /\ \A i \in 1..Len(q) : Append(q, r)[i] = q[i]
         /\ Append(q, r)[Len(q) + 1] = r
  BY AppendProperties

LEMMA TakeNextTyped ==
  ASSUME NEW q \in Seq(Requests), q # <<>>,
         NEW s \in [Requests -> Stages],
         NEW a \in Durable \cup {None},
         TakeNext(q, s, a)
  PROVE  /\ queue' \in Seq(Requests) /\ Len(queue') = Len(q) - 1
         /\ st' \in [Requests -> Stages]
         /\ processing' \in BOOLEAN
         /\ reporter' \in Durable \cup {None}
  BY TailOfQueue DEF TakeNext, Stages

-----------------------------------------------------------------------------
\* Type correctness; the queue never exceeds its limit.
LEMMA TypeStep == TypeOK /\ [Next]_vars => TypeOK'
<1> SUFFICES ASSUME TypeOK, [Next]_vars PROVE TypeOK'
  OBVIOUS
<1> USE ConstantsOK DEF TypeOK, Runs, Stages, Answers, mapVars, frameVars, agentVars, callVars
<1>1. ASSUME NEW r \in Requests, Arrive(r) PROVE TypeOK'
  BY <1>1 DEF Arrive
<1>2. ASSUME NEW r \in Requests, QueueFull(r) PROVE TypeOK'
  BY <1>2 DEF QueueFull
<1>3. ASSUME NEW r \in Requests, Push(r) PROVE TypeOK'
  <2>1. CASE processing
    <3>1. /\ queue' = Append(queue, r) /\ Len(queue) < MaxQueue
          /\ st' = [st EXCEPT ![r] = "queued"]
          /\ UNCHANGED <<processing, reporter>>
      BY <1>3, <2>1 DEF Push
    <3>2. Len(queue) \in Nat
      BY LenProperties
    <3>3. queue' \in Seq(Requests) /\ Len(queue') <= MaxQueue
      BY <3>1, <3>2, AppendToQueue
    <3>. QED BY <1>3, <3>1, <3>3 DEF Push
  <2>2. CASE ~processing
    <3> DEFINE q == Append(queue, r)
               s == [st EXCEPT ![r] = "queued"]
    <3>1. q \in Seq(Requests) /\ q # <<>> /\ Len(q) = Len(queue) + 1
      BY AppendToQueue
    <3>2. s \in [Requests -> Stages]
      OBVIOUS
    <3>3. TakeNext(q, s, reporter)
      BY <1>3, <2>2 DEF Push
    <3>4. /\ queue' \in Seq(Requests) /\ Len(queue') = Len(q) - 1
          /\ st' \in [Requests -> Stages] /\ processing' \in BOOLEAN
          /\ reporter' \in Durable \cup {None}
      BY <3>1, <3>2, <3>3, TakeNextTyped
    <3>5. Len(queue) \in Nat
      BY LenProperties
    <3>. QED BY <1>3, <3>1, <3>4, <3>5 DEF Push
  <2>. QED BY <2>1, <2>2
<1>4. ASSUME NEW r \in Requests, Frame(r) PROVE TypeOK'
  <2>1. CASE PromptRuns(r)    BY <2>1 DEF PromptRuns, StartRun
  <2>2. CASE PromptHandled(r) BY <2>2 DEF PromptHandled
  <2>3. CASE PromptThrows(r)  BY <2>3 DEF PromptThrows
  <2>4. CASE RunEnds(r)       BY <2>4 DEF RunEnds, EndRun
  <2>5. CASE RunRetries(r)    BY <2>5 DEF RunRetries, StartRun
  <2>6. CASE PromptReturns(r) BY <2>6 DEF PromptReturns
  <2>8. CASE PromptReturnsEarly(r)
    <3>1. running' \subseteq Runs
      BY <2>8 DEF PromptReturnsEarly, Runs
    <3>2. owner' \in Runs \cup {None}
      BY <2>8 DEF PromptReturnsEarly, Runs
    <3>. QED BY <2>8, <3>1, <3>2 DEF PromptReturnsEarly
  <2>7. CASE Settle(r)
    <3> DEFINE s == [st EXCEPT ![r] = "settled"]
    <3>1. answer' \in [Requests -> Answers]
      BY <2>7 DEF Settle
    <3>2. CASE queue = <<>>
      BY <2>7, <3>1, <3>2 DEF Settle
    <3>3. CASE queue # <<>>
      <4>1. s \in [Requests -> Stages] /\ None \in Durable \cup {None}
        OBVIOUS
      <4>2. TakeNext(queue, s, None)
        BY <2>7, <3>3 DEF Settle
      <4>3. /\ queue' \in Seq(Requests) /\ Len(queue') = Len(queue) - 1
            /\ st' \in [Requests -> Stages] /\ processing' \in BOOLEAN
            /\ reporter' \in Durable \cup {None}
        BY <3>3, <4>1, <4>2, TakeNextTyped
      <4>4. Len(queue) \in Nat
        BY LenProperties
      <4>. QED BY <2>7, <3>1, <4>3, <4>4 DEF Settle
    <3>. QED BY <3>2, <3>3
  <2>. QED BY <1>4, <2>1, <2>2, <2>3, <2>4, <2>5, <2>6, <2>7, <2>8 DEF Frame
<1>5. ASSUME NEW c \in Callers, Reset(c) PROVE TypeOK'
  <2>0. <<>> \in Seq(Requests) /\ Len(<<>>) = 0
    OBVIOUS
  <2>1. CASE CallBegins(c)   BY <2>1 DEF CallBegins, AwaitAbort, AbortRun
  <2>2. CASE Discard(c)
    <3>1. queue' \in Seq(Requests) /\ Len(queue') <= MaxQueue
      BY <2>0, <2>2 DEF Discard, RejectQueued
    <3>. QED BY <2>2, <3>1 DEF Discard, RejectQueued
  <2>3. CASE ResetRejects(c)
    <3>1. queue' \in Seq(Requests) /\ Len(queue') <= MaxQueue
      BY <2>0, <2>3 DEF ResetRejects, RejectQueued
    <3>. QED BY <2>3, <3>1 DEF ResetRejects, RejectQueued
  <2>4. CASE ResetAborts(c)  BY <2>4 DEF ResetAborts, AwaitAbort, AbortRun
  <2>5. CASE ResetClears(c)  BY <2>5 DEF ResetClears
  <2>6. CASE ResetEnds(c)    BY <2>6 DEF ResetEnds
  <2>. QED BY <1>5, <2>1, <2>2, <2>3, <2>4, <2>5, <2>6 DEF Reset
<1>6. CASE AbortSession
  BY <1>6 DEF AbortSession, RejectQueued, AbortRun
<1>7. CASE ClearQueue
  BY <1>7 DEF ClearQueue
<1>8. CASE AutoContinue
  BY <1>8 DEF AutoContinue, StartRun
<1>9. CASE AutoEnd
  BY <1>9 DEF AutoEnd, EndRun
<1>10. CASE UNCHANGED vars
  BY <1>10 DEF vars
<1>. QED
  BY <1>1, <1>2, <1>3, <1>4, <1>5, <1>6, <1>7, <1>8, <1>9, <1>10 DEF Next

\* Every variable keeps its type and the queue its limit, in every behaviour.
THEOREM TypeCorrect == Spec => []TypeOK
<1>1. ASSUME Init PROVE TypeOK
  <2>1. queue \in Seq(Requests) /\ Len(queue) <= MaxQueue
    BY <1>1, ConstantsOK DEF Init
  <2>2. tries \in [Requests -> 0..MaxRetries]
    BY <1>1, ConstantsOK DEF Init
  <2>3. /\ processing \in BOOLEAN /\ attached \in BOOLEAN /\ streaming \in BOOLEAN
        /\ primary \in BOOLEAN
    BY <1>1 DEF Init
  <2>4. /\ st \in [Requests -> Stages] /\ answer \in [Requests -> Answers]
        /\ call \in [Callers -> {"idle", "aborting", "switching", "clearing",
                                "switched", "done"}]
        /\ waits \in [Callers -> {"no", "current", "lost"}]
    BY <1>1 DEF Init, Stages, Answers
  <2>5. /\ reporter \in Durable \cup {None} /\ running \subseteq Runs
        /\ owner \in Runs \cup {None} /\ aborted \subseteq Requests
    BY <1>1 DEF Init
  <2>. QED BY <2>1, <2>2, <2>3, <2>4, <2>5 DEF TypeOK
<1>2. QED
  BY <1>1, TypeStep, PTL DEF Spec

-----------------------------------------------------------------------------
\* The queue and the stages of the requests stay in agreement.

LEMMA TakeNextPlaces ==
  ASSUME NEW q \in Seq(Requests), q # <<>>,
         NEW s \in [Requests -> Stages], Places(q, s),
         NEW a, TakeNext(q, s, a)
  PROVE  /\ Places(queue', st')
         /\ Head(q) \in Requests /\ s[Head(q)] = "queued"
         /\ st' = [s EXCEPT ![Head(q)] = "prompting"]
<1>1. /\ queue' = Tail(q) /\ st' = [s EXCEPT ![Head(q)] = "prompting"]
      /\ Len(q) \in Nat /\ Len(q) # 0
  BY LenProperties, EmptySeq DEF TakeNext
<1>2. /\ Len(queue') = Len(q) - 1 /\ Head(q) = q[1] /\ Head(q) \in Requests
      /\ \A i \in 1..Len(queue') : queue'[i] = q[i + 1]
  BY <1>1, TailOfQueue
<1>3. s[Head(q)] = "queued"
  BY <1>1, <1>2 DEF Places
<1>4. ASSUME NEW i \in 1..Len(queue') PROVE st'[queue'[i]] = "queued"
  <2>1. /\ i + 1 \in 1..Len(q) /\ 1 \in 1..Len(q) /\ i + 1 # 1
        /\ queue'[i] = q[i + 1] /\ q[i + 1] \in Requests
    BY <1>1, <1>2, ElementOfSeq
  <2>2. s[q[i + 1]] = "queued" /\ q[i + 1] # q[1]
    BY <2>1 DEF Places
  <2>. QED BY <1>1, <1>2, <2>1, <2>2
<1>5. ASSUME NEW i \in 1..Len(queue'), NEW j \in 1..Len(queue'), queue'[i] = queue'[j]
      PROVE i = j
  <2>1. i + 1 \in 1..Len(q) /\ j + 1 \in 1..Len(q) /\ q[i + 1] = q[j + 1]
    BY <1>1, <1>2, <1>5
  <2>2. i + 1 = j + 1
    BY <2>1 DEF Places
  <2>. QED BY <1>1, <1>2, <2>2
<1>6. ASSUME NEW r \in Requests, st'[r] = "queued"
      PROVE \E i \in 1..Len(queue') : queue'[i] = r
  <2>1. s[r] = "queued" /\ r # q[1]
    BY <1>1, <1>2, <1>6
  <2>2. PICK i \in 1..Len(q) : q[i] = r
    BY <2>1 DEF Places
  <2>3. i - 1 \in 1..Len(queue') /\ queue'[i - 1] = q[(i - 1) + 1]
    BY <1>1, <1>2, <2>1, <2>2
  <2>. QED BY <2>2, <2>3
<1>. QED
  BY <1>1, <1>2, <1>3, <1>4, <1>5, <1>6 DEF Places

LEMMA AppendPlaces ==
  ASSUME NEW q \in Seq(Requests), NEW s \in [Requests -> Stages],
         NEW r \in Requests, s[r] = "arriving", Places(q, s)
  PROVE  Places(Append(q, r), [s EXCEPT ![r] = "queued"])
<1> DEFINE q1 == Append(q, r)
           s1 == [s EXCEPT ![r] = "queued"]
<1>1. /\ Len(q) \in Nat /\ Len(q1) = Len(q) + 1 /\ q1[Len(q) + 1] = r
      /\ \A i \in 1..Len(q) : q1[i] = q[i] /\ q[i] \in Requests
  BY AppendToQueue, LenProperties, ElementOfSeq
<1>2. \A i \in 1..Len(q) : s[q[i]] = "queued" /\ q[i] # r
  BY DEF Places
<1> HIDE DEF q1
<1>3. \A i \in 1..Len(q1) : s1[q1[i]] = "queued"
  BY <1>1, <1>2
<1>4. \A i, j \in 1..Len(q1) : q1[i] = q1[j] => i = j
  BY <1>1, <1>2 DEF Places
<1>5. \A t \in Requests : s1[t] = "queued" => \E i \in 1..Len(q1) : q1[i] = t
  <2> SUFFICES ASSUME NEW t \in Requests, s1[t] = "queued"
               PROVE \E i \in 1..Len(q1) : q1[i] = t
    OBVIOUS
  <2>1. CASE t = r
    BY <1>1, <2>1
  <2>2. CASE t # r
    <3>1. PICK i \in 1..Len(q) : q[i] = t
      BY <2>2 DEF Places
    <3>. QED BY <1>1, <3>1
  <2>. QED BY <2>1, <2>2
<1>. QED
  BY <1>3, <1>4, <1>5 DEF Places, q1

\* A step that touches neither the queue nor who is queued.
LEMMA SamePlaces ==
  ASSUME NEW q, NEW s, NEW s1, Places(q, s), q \in Seq(Requests),
         \A r \in Requests : s1[r] = "queued" <=> s[r] = "queued"
  PROVE  Places(q, s1)
  BY ElementOfSeq DEF Places

LEMMA EmptyPlaces ==
  ASSUME NEW s, \A r \in Requests : s[r] # "queued"
  PROVE  Places(<<>>, s)
  BY DEF Places

Answered == \A r \in Requests : st[r] \in {"finalizing", "settled"} => answer[r] # "none"

\* What the entries become when the queue is emptied, rejected or dropped.
LEMMA Emptied ==
  ASSUME OnePlace, TypeOK, queue' = <<>>, NEW x \in Stages, x # "queued",
         st' = [r \in Requests |-> IF r \in Queued THEN x ELSE st[r]]
  PROVE  Places(queue', st')
<1>1. \A r \in Requests : st[r] = "queued" => r \in Queued
  BY DEF OnePlace, Places, Queued
<1>2. \A r \in Requests : st'[r] # "queued"
  BY <1>1
<1>. QED
  BY <1>2, EmptyPlaces

\* Entries of the queue are not frames: emptying it keeps the frames.
LEMMA QueuedNotInFlight ==
  ASSUME OnePlace, TypeOK
  PROVE  \A r \in Queued : r \in Requests /\ st[r] = "queued"
  BY ElementOfSeq DEF OnePlace, Places, Queued, TypeOK

LEMMA RejectKeeps ==
  ASSUME IInv, RejectQueued
  PROVE  /\ OnePlace'
         /\ queue' = <<>>
         /\ Frames' = Frames
<1>1. Places(queue', st')
  <2>1. "settled" \in Stages
    BY DEF Stages
  <2>. QED BY <2>1, Emptied DEF IInv, RejectQueued
<1>2. Answered'
  BY DEF IInv, OnePlace, RejectQueued, Answered
<1>3. Frames' = Frames
  BY QueuedNotInFlight DEF IInv, RejectQueued, Frames, InFlight
<1>. QED
  BY <1>1, <1>2, <1>3 DEF OnePlace, Answered, RejectQueued

\* A move of one request between two places other than the queue.
LEMMA MoveKeepsPlaces ==
  ASSUME IInv, NEW r \in Requests, NEW x,
         st[r] # "queued", x # "queued"
  PROVE  Places(queue, [st EXCEPT ![r] = x])
<1>1. Places(queue, st) /\ queue \in Seq(Requests) /\ st \in [Requests -> Stages]
  BY DEF IInv, OnePlace, TypeOK
<1>2. \A t \in Requests : [st EXCEPT ![r] = x][t] = "queued" <=> st[t] = "queued"
  BY <1>1
<1>. QED
  BY <1>1, <1>2, SamePlaces

\* processNext called from Push or from Settle.
LEMMA TakeNextKeeps ==
  ASSUME NEW q \in Seq(Requests), q # <<>>,
         NEW s \in [Requests -> Stages], Places(q, s),
         \A r \in Requests : s[r] \in {"finalizing", "settled"} => answer'[r] # "none",
         NEW a, TakeNext(q, s, a)
  PROVE  OnePlace' /\ Frames' # {} /\ processing'
<1>1. /\ Places(queue', st') /\ Head(q) \in Requests
      /\ st' = [s EXCEPT ![Head(q)] = "prompting"]
  BY TakeNextPlaces
<1>2. Head(q) \in Frames'
  BY <1>1 DEF Frames, InFlight
<1>3. Answered'
  BY <1>1 DEF Answered
<1>. QED
  BY <1>1, <1>2, <1>3 DEF OnePlace, Answered, TakeNext

LEMMA PushKeeps ==
  ASSUME IInv, NEW r \in Requests, Push(r)
  PROVE  OnePlace' /\ QueueDriven'
<1> DEFINE q == Append(queue, r)
           s == [st EXCEPT ![r] = "queued"]
<1> USE DEF IInv, TypeOK
<1>1. /\ q \in Seq(Requests) /\ q # <<>> /\ s \in [Requests -> Stages]
      /\ answer' = answer /\ st[r] = "arriving"
  BY AppendToQueue DEF Push, Stages
<1>2. Places(q, s)
  BY <1>1, AppendPlaces DEF OnePlace
<1>3. \A t \in Requests : s[t] \in {"finalizing", "settled"} => answer'[t] # "none"
  BY <1>1 DEF OnePlace
<1>4. CASE processing
  <2>1. queue' = q /\ st' = s /\ processing' = processing
    BY <1>4 DEF Push
  <2>2. Frames # {} /\ Frames' = Frames
    BY <1>1, <1>4, <2>1 DEF QueueDriven, Frames, InFlight
  <2>. QED BY <1>2, <1>3, <2>1, <2>2 DEF OnePlace, QueueDriven
<1>5. CASE ~processing
  <2>1. TakeNext(q, s, reporter)
    BY <1>5 DEF Push
  <2>. QED BY <1>1, <1>2, <1>3, <2>1, TakeNextKeeps DEF QueueDriven
<1>. QED
  BY <1>4, <1>5

LEMMA SettleKeeps ==
  ASSUME IInv, NEW r \in Requests, Settle(r)
  PROVE  OnePlace' /\ QueueDriven'
<1> DEFINE s == [st EXCEPT ![r] = "settled"]
<1> USE DEF IInv, TypeOK
<1>1. /\ s \in [Requests -> Stages] /\ st[r] = "finalizing"
      /\ queue \in Seq(Requests)
  BY DEF Settle, Stages
<1>2. Places(queue, s)
  BY <1>1, MoveKeepsPlaces
<1>3. \A t \in Requests : s[t] \in {"finalizing", "settled"} => answer'[t] # "none"
  <2>1. PICK a \in {answer[r]} \cup (IF r \in Durable THEN {"error"} ELSE {}) :
          answer' = [answer EXCEPT ![r] = a]
    BY DEF Settle
  <2>2. a # "none"
    BY <1>1, <2>1 DEF OnePlace
  <2>. QED BY <2>1, <2>2 DEF OnePlace
<1>4. CASE queue = <<>>
  <2>1. st' = s /\ processing' = FALSE /\ queue' = queue
    BY <1>4 DEF Settle
  <2>. QED BY <1>2, <1>3, <1>4, <2>1 DEF OnePlace, QueueDriven
<1>5. CASE queue # <<>>
  <2>1. TakeNext(queue, s, None)
    BY <1>5 DEF Settle
  <2>. QED BY <1>1, <1>2, <1>3, <1>5, <2>1, TakeNextKeeps DEF QueueDriven
<1>. QED
  BY <1>4, <1>5

\* The queue and the promises agree after every step, and while an entry
\* waits somebody is on the way to take it.
LEMMA PlacesStep == IInv /\ [Next]_vars => OnePlace' /\ QueueDriven'
<1> SUFFICES ASSUME IInv, [Next]_vars PROVE OnePlace' /\ QueueDriven'
  OBVIOUS
<1> USE DEF mapVars, frameVars, agentVars, callVars
<1>1. ASSUME NEW r \in Requests, NEW x \in Stages \ {"queued"},
             st[r] # "queued", st' = [st EXCEPT ![r] = x], queue' = queue,
             processing' = processing, Answered',
             st[r] \in InFlight <=> x \in InFlight
      PROVE OnePlace' /\ QueueDriven'
  <2>1. Places(queue', st')
    BY <1>1, MoveKeepsPlaces
  <2>2. Frames' = Frames
    BY <1>1 DEF Frames, IInv, TypeOK
  <2>. QED BY <1>1, <2>1, <2>2 DEF OnePlace, Answered, QueueDriven, IInv
<1>2. ASSUME UNCHANGED <<st, answer, queue>>, processing' => processing
      PROVE OnePlace' /\ QueueDriven'
  BY <1>2 DEF OnePlace, Places, QueueDriven, Frames, IInv
<1>3. ASSUME RejectQueued, processing' => processing
      PROVE OnePlace' /\ QueueDriven'
  BY <1>3, RejectKeeps DEF QueueDriven, IInv
<1>4. ASSUME NEW r \in Requests, Arrive(r) PROVE OnePlace' /\ QueueDriven'
  <2>1. Answered'
    BY <1>4 DEF Arrive, Answered, IInv, OnePlace, TypeOK
  <2>. QED BY <1>1, <1>4, <2>1 DEF Arrive, Stages, InFlight
<1>5. ASSUME NEW r \in Requests, QueueFull(r) PROVE OnePlace' /\ QueueDriven'
  <2>1. Answered'
    BY <1>5 DEF QueueFull, Answered, IInv, OnePlace, TypeOK
  <2>. QED BY <1>1, <1>5, <2>1 DEF QueueFull, Stages, InFlight
<1>6. ASSUME NEW r \in Requests, Frame(r) PROVE OnePlace' /\ QueueDriven'
  <2> USE DEF Stages, InFlight
  <2>1. CASE PromptRuns(r)
    <3>1. Answered'
      BY <2>1 DEF PromptRuns, Answered, IInv, OnePlace, TypeOK
    <3>. QED BY <1>1, <2>1, <3>1 DEF PromptRuns
  <2>2. CASE PromptHandled(r)
    <3>1. Answered'
      BY <2>2 DEF PromptHandled, Answered, IInv, OnePlace, TypeOK
    <3>. QED BY <1>1, <2>2, <3>1 DEF PromptHandled
  <2>3. CASE PromptThrows(r)
    <3>1. Answered'
      BY <2>3 DEF PromptThrows, Answered, IInv, OnePlace, TypeOK
    <3>. QED BY <1>1, <2>3, <3>1 DEF PromptThrows
  <2>4. CASE RunEnds(r)
    <3>1. Answered'
      BY <2>4 DEF RunEnds, Answered, IInv, OnePlace, TypeOK
    <3>. QED BY <1>1, <2>4, <3>1 DEF RunEnds, EndRun
  <2>5. CASE RunRetries(r)
    <3>1. Answered'
      BY <2>5 DEF RunRetries, Answered, IInv, OnePlace, TypeOK
    <3>. QED BY <1>1, <2>5, <3>1 DEF RunRetries
  <2>6. CASE PromptReturns(r)
    <3>1. Answered'
      BY <2>6 DEF PromptReturns, Answered, IInv, OnePlace, TypeOK
    <3>. QED BY <1>1, <2>6, <3>1 DEF PromptReturns
  <2>8. CASE PromptReturnsEarly(r)
    <3>1. Answered'
      BY <2>8 DEF PromptReturnsEarly, Answered, IInv, OnePlace, TypeOK
    <3>. QED BY <1>1, <2>8, <3>1 DEF PromptReturnsEarly
  <2>7. CASE Settle(r)
    BY <2>7, SettleKeeps
  <2>. QED BY <1>6, <2>1, <2>2, <2>3, <2>4, <2>5, <2>6, <2>7, <2>8 DEF Frame
<1>7. ASSUME NEW c \in Callers, Reset(c) PROVE OnePlace' /\ QueueDriven'
  <2>1. CASE CallBegins(c)   BY <1>2, <2>1 DEF CallBegins
  <2>2. CASE Discard(c)      BY <1>3, <2>2 DEF Discard
  <2>3. CASE ResetRejects(c) BY <1>3, <2>3 DEF ResetRejects
  <2>4. CASE ResetAborts(c)  BY <1>2, <2>4 DEF ResetAborts
  <2>5. CASE ResetClears(c)  BY <1>2, <2>5 DEF ResetClears
  <2>6. CASE ResetEnds(c)    BY <1>2, <2>6 DEF ResetEnds
  <2>. QED BY <1>7, <2>1, <2>2, <2>3, <2>4, <2>5, <2>6 DEF Reset
<1>8. CASE AbortSession
  BY <1>3, <1>8 DEF AbortSession
<1>9. CASE ClearQueue
  <2>1. Places(queue', st')
    <3>1. "dropped" \in Stages /\ OnePlace /\ TypeOK
      BY DEF Stages, IInv
    <3>. QED BY <1>9, <3>1, Emptied DEF ClearQueue
  <2>2. Answered'
    BY <1>9 DEF ClearQueue, Answered, IInv, OnePlace, TypeOK
  <2>3. Frames' = Frames
    BY <1>9, QueuedNotInFlight DEF ClearQueue, Frames, InFlight, IInv
  <2>. QED BY <1>9, <2>1, <2>2, <2>3 DEF OnePlace, Answered, QueueDriven, ClearQueue, IInv
<1>10. CASE AutoContinue
  BY <1>2, <1>10 DEF AutoContinue
<1>11. CASE AutoEnd
  BY <1>2, <1>11 DEF AutoEnd, EndRun
<1>12. CASE UNCHANGED vars
  BY <1>2, <1>12 DEF vars
<1>13. ASSUME NEW r \in Requests, Push(r) PROVE OnePlace' /\ QueueDriven'
  BY <1>13, PushKeeps
<1>. QED
  BY <1>4, <1>5, <1>6, <1>7, <1>8, <1>9, <1>10, <1>11, <1>12, <1>13 DEF Next

LEMMA Invariance == Spec => []IInv
<1>1. ASSUME Init PROVE OnePlace /\ QueueDriven
  <2>1. Places(queue, st)
    BY <1>1, EmptyPlaces DEF Init
  <2>. QED BY <1>1, <2>1 DEF Init, OnePlace, QueueDriven
<1>2. IInv /\ [Next]_vars => OnePlace' /\ QueueDriven'
  BY PlacesStep
<1>3. Init => OnePlace /\ QueueDriven
  BY <1>1
<1>. QED
  BY <1>2, <1>3, TypeCorrect, PTL DEF Spec, IInv

\* A request is queued in one place only, and a settled promise has an answer.
THEOREM OnePlaceAlways == Spec => []OnePlace
  BY Invariance, PTL DEF IInv

\* However aborts, clears, resets and deletes fall between the steps of
\* processNext, a queued request always has a frame that will take it.
THEOREM NoneStranded == Spec => []NoStrandedRequest
<1>1. IInv => NoStrandedRequest
  BY DEF IInv, QueueDriven, NoStrandedRequest
<1>. QED
  BY <1>1, Invariance, PTL

-----------------------------------------------------------------------------
\* A session other than the primary one has at most one prompt in flight.

\* Only a reset of the primary session goes past its first await.
Serial ==
  /\ FlagTells
  /\ Alone
  /\ ReporterOwned
  /\ \A c \in Callers : call[c] \in {"idle", "aborting", "done"}

\* Of the stages, the frames and the reporter, only who is in flight counts.
LEMMA SameFlight ==
  ASSUME Serial, Frames' = Frames, processing' = processing, reporter' = reporter,
         \A c \in Callers : call'[c] \in {"idle", "aborting", "done"}
  PROVE  Serial'
<1>1. \A r \in Durable : st[r] \in InFlight <=> r \in Frames
  BY ConstantsOK DEF Frames
<1>2. \A r \in Durable : st'[r] \in InFlight <=> r \in Frames'
  BY ConstantsOK DEF Frames
<1>. QED
  BY <1>1, <1>2 DEF Serial, FlagTells, Alone, ReporterOwned

\* processNext is only entered when nothing else is in flight.
LEMMA TakeNextSerial ==
  ASSUME NEW q \in Seq(Requests), q # <<>>,
         NEW s \in [Requests -> Stages], Places(q, s),
         \A r \in Requests : s[r] \notin InFlight,
         NEW a, a \notin Durable, TakeNext(q, s, a)
  PROVE  FlagTells' /\ Alone' /\ ReporterOwned'
<1>1. /\ Head(q) \in Requests
      /\ st' = [s EXCEPT ![Head(q)] = "prompting"]
  BY TakeNextPlaces
<1>2. Frames' = {Head(q)}
  BY <1>1 DEF Frames, InFlight
<1>3. processing' /\ reporter' = IF Head(q) \in Durable THEN Head(q) ELSE a
  BY DEF TakeNext
<1>4. \A r \in Durable : st'[r] \in InFlight <=> r = Head(q)
  BY <1>1, <1>2, ConstantsOK DEF Frames
<1>5. ReporterOwned'
  BY <1>3, <1>4 DEF ReporterOwned
<1>. QED
  BY <1>2, <1>3, <1>5 DEF FlagTells, Alone

LEMMA SerialStep == ~primary /\ IInv /\ Serial /\ [Next]_vars => Serial'
<1> SUFFICES ASSUME ~primary, IInv, Serial, [Next]_vars PROVE Serial'
  OBVIOUS
<1> USE DEF mapVars, frameVars, agentVars, callVars, IInv
<1>1. ASSUME NEW r \in Requests, NEW x, st' = [st EXCEPT ![r] = x],
             st[r] \in InFlight <=> x \in InFlight,
             UNCHANGED <<processing, reporter, call>>
      PROVE Serial'
  <2>1. Frames' = Frames
    BY <1>1 DEF Frames, TypeOK
  <2>. QED BY <1>1, <2>1, SameFlight DEF Serial
<1>2. ASSUME UNCHANGED <<st, processing, reporter>>,
             \A c \in Callers : call'[c] \in {"idle", "aborting", "done"}
      PROVE Serial'
  BY <1>2, SameFlight DEF Frames
<1>3. ASSUME RejectQueued, UNCHANGED <<processing, reporter>>,
             \A c \in Callers : call'[c] \in {"idle", "aborting", "done"}
      PROVE Serial'
  BY <1>3, RejectKeeps, SameFlight
<1>4. ASSUME NEW r \in Requests, Arrive(r) PROVE Serial'
  BY <1>1, <1>4 DEF Arrive, InFlight
<1>5. ASSUME NEW r \in Requests, QueueFull(r) PROVE Serial'
  BY <1>1, <1>5 DEF QueueFull, InFlight
<1>6. ASSUME NEW r \in Requests, Push(r) PROVE Serial'
  <2> DEFINE q == Append(queue, r)
             s == [st EXCEPT ![r] = "queued"]
  <2>1. st[r] = "arriving" /\ call' = call
    BY <1>6 DEF Push
  <2>2. CASE processing
    BY <1>1, <1>6, <2>1, <2>2 DEF Push, InFlight
  <2>3. CASE ~processing
    <3>1. TakeNext(q, s, reporter)
      BY <1>6, <2>3 DEF Push
    <3>2. Frames = {} /\ reporter \notin Durable
      <4>1. Frames = {}
        BY <2>3 DEF Serial, FlagTells, Alone
      <4>2. \A t \in Durable : st[t] \notin InFlight
        BY <4>1, ConstantsOK DEF Frames
      <4>. QED BY <4>1, <4>2 DEF Serial, ReporterOwned
    <3>3. q \in Seq(Requests) /\ q # <<>>
      BY AppendToQueue DEF TypeOK
    <3>6. s \in [Requests -> Stages]
      BY DEF TypeOK, Stages
    <3>7. \A t \in Requests : s[t] \notin InFlight
      BY <3>2 DEF TypeOK, Frames, InFlight
    <3>4. Places(q, s)
      BY <2>1, AppendPlaces DEF OnePlace, TypeOK
    <3>5. FlagTells' /\ Alone' /\ ReporterOwned'
      BY <3>1, <3>2, <3>3, <3>4, <3>6, <3>7, TakeNextSerial
    <3>. QED BY <2>1, <3>5 DEF Serial
  <2>. QED BY <2>2, <2>3
<1>7. ASSUME NEW r \in Requests, Frame(r) PROVE Serial'
  <2> USE DEF InFlight
  <2>1. CASE PromptRuns(r)    BY <1>1, <2>1 DEF PromptRuns
  <2>2. CASE PromptHandled(r) BY <1>1, <2>2 DEF PromptHandled
  <2>3. CASE PromptThrows(r)  BY <1>1, <2>3 DEF PromptThrows
  <2>4. CASE RunEnds(r)       BY <1>1, <2>4 DEF RunEnds
  <2>5. CASE RunRetries(r)    BY <1>1, <2>5 DEF RunRetries
  <2>6. CASE PromptReturns(r) BY <1>1, <2>6 DEF PromptReturns
  <2>8. CASE PromptReturnsEarly(r) BY <1>1, <2>8 DEF PromptReturnsEarly
  <2>7. CASE Settle(r)
    <3> DEFINE s == [st EXCEPT ![r] = "settled"]
    <3>1. /\ r \in Frames /\ call' = call
          /\ \A t \in Requests : st[t] \in InFlight => t = r
      BY <2>7 DEF Settle, Serial, FlagTells, Alone, Frames
    <3>2. s \in [Requests -> Stages] /\ \A t \in Requests : s[t] \notin InFlight
      BY <3>1 DEF TypeOK, Stages, Frames
    <3>3. CASE queue = <<>>
      <4>1. st' = s /\ processing' = FALSE /\ reporter' = None
        BY <2>7, <3>3 DEF Settle
      <4>2. Frames' = {}
        BY <3>2, <4>1 DEF Frames
      <4>. QED BY <3>1, <3>2, <4>1, <4>2, ConstantsOK DEF Serial, FlagTells, Alone, ReporterOwned
    <3>4. CASE queue # <<>>
      <4>1. TakeNext(queue, s, None)
        BY <2>7, <3>4 DEF Settle
      <4>2. Places(queue, s)
        BY <2>7, MoveKeepsPlaces DEF Settle
      <4>3. None \notin Durable /\ queue \in Seq(Requests)
        BY ConstantsOK DEF TypeOK
      <4>4. FlagTells' /\ Alone' /\ ReporterOwned'
        BY <3>2, <3>4, <4>1, <4>2, <4>3, TakeNextSerial
      <4>. QED BY <3>1, <4>4 DEF Serial
    <3>. QED BY <3>3, <3>4
  <2>. QED BY <1>7, <2>1, <2>2, <2>3, <2>4, <2>5, <2>6, <2>7, <2>8 DEF Frame
<1>8. ASSUME NEW c \in Callers, Reset(c) PROVE Serial'
  <2>1. CASE CallBegins(c)   BY <1>2, <2>1 DEF CallBegins, Serial, TypeOK
  <2>2. CASE Discard(c)      BY <1>3, <2>2 DEF Discard, Serial, TypeOK
  <2>3. CASE ResetRejects(c) BY <2>3 DEF ResetRejects
  <2>4. CASE ResetAborts(c)  BY <2>4 DEF ResetAborts, Serial
  <2>5. CASE ResetClears(c)  BY <2>5 DEF ResetClears, Serial
  <2>6. CASE ResetEnds(c)    BY <2>6 DEF ResetEnds, Serial
  <2>. QED BY <1>8, <2>1, <2>2, <2>3, <2>4, <2>5, <2>6 DEF Reset
<1>9. CASE AbortSession
  BY <1>3, <1>9 DEF AbortSession, Serial
<1>10. CASE ClearQueue
  <2>1. Frames' = Frames
    BY <1>10, QueuedNotInFlight DEF ClearQueue, Frames, InFlight
  <2>. QED BY <1>10, <2>1, SameFlight DEF ClearQueue, Serial
<1>11. CASE AutoContinue
  BY <1>2, <1>11 DEF AutoContinue, Serial
<1>12. CASE AutoEnd
  BY <1>2, <1>12 DEF AutoEnd, Serial
<1>13. CASE UNCHANGED vars
  BY <1>2, <1>13 DEF vars, Serial
<1>. QED
  BY <1>4, <1>5, <1>6, <1>7, <1>8, <1>9, <1>10, <1>11, <1>12, <1>13 DEF Next

LEMMA PrimaryKept == [Next]_vars => primary' = primary
<1> USE DEF mapVars, vars
<1>1. ASSUME NEW r \in Requests, Frame(r) PROVE primary' = primary
  BY <1>1 DEF Frame, PromptRuns, PromptHandled, PromptThrows, RunEnds, RunRetries,
              PromptReturns, PromptReturnsEarly, Settle
<1>2. ASSUME NEW c \in Callers, Reset(c) PROVE primary' = primary
  BY <1>2 DEF Reset, CallBegins, Discard, ResetRejects, ResetAborts, ResetClears, ResetEnds
<1>. QED
  BY <1>1, <1>2 DEF Next, Arrive, QueueFull, Push, AbortSession, ClearQueue,
                    AutoContinue, AutoEnd

\* Every session but the primary one runs one prompt at a time, its flag says
\* so, and the events of a durable run reach the reporter of that run.
THEOREM OneAtATime == Spec => []SingleFlight
<1> DEFINE Inv == ~primary => Serial
<1>1. ASSUME Init PROVE Serial
  BY <1>1, ConstantsOK DEF Init, Serial, FlagTells, Alone, ReporterOwned, Frames, InFlight
<1>2. Init => Inv
  BY <1>1
<1>3. IInv /\ Inv /\ [Next]_vars => Inv'
  BY SerialStep, PrimaryKept
<1>4. Inv => SingleFlight
  BY DEF Serial, SingleFlight
<1>. QED
  BY <1>2, <1>3, <1>4, Invariance, PTL DEF Spec

-----------------------------------------------------------------------------
\* A request whose promise was resolved, or that clearQueue dropped, is in no
\* queue and in no frame: nothing can resolve it again.
LEMMA SettledStep == IInv /\ [Next]_vars => [SettledKept]_vars
<1> SUFFICES ASSUME IInv, Next, NEW r \in Requests, st[r] \in {"settled", "dropped"}
             PROVE st'[r] = st[r] /\ answer'[r] = answer[r]
  BY DEF SettledKept
<1> USE DEF mapVars, frameVars, agentVars, callVars, IInv, TypeOK
<1>1. r \notin Queued
  BY QueuedNotInFlight
<1>2. ASSUME NEW q \in Seq(Requests), q # <<>>, NEW s \in [Requests -> Stages],
             NEW a, Places(q, s), s[r] = st[r], TakeNext(q, s, a)
      PROVE st'[r] = st[r]
  <2>1. Head(q) \in Requests /\ s[Head(q)] = "queued" /\ st' = [s EXCEPT ![Head(q)] = "prompting"]
    BY <1>2, TakeNextPlaces
  <2>2. r # Head(q)
    BY <1>2, <2>1
  <2>. QED BY <1>2, <2>1, <2>2
<1>3. ASSUME NEW t \in Requests, Push(t) PROVE st'[r] = st[r] /\ answer' = answer
  <2> DEFINE q == Append(queue, t)
             s == [st EXCEPT ![t] = "queued"]
  <2>1. s[r] = st[r] /\ answer' = answer /\ st[t] = "arriving"
    BY <1>3 DEF Push
  <2>2. CASE processing
    BY <1>3, <2>1, <2>2 DEF Push
  <2>3. CASE ~processing
    <3>1. q \in Seq(Requests) /\ q # <<>> /\ s \in [Requests -> Stages]
      BY AppendToQueue DEF Stages
    <3>2. Places(q, s) /\ TakeNext(q, s, reporter)
      BY <1>3, <2>1, <2>3, AppendPlaces DEF Push, OnePlace
    <3>. QED BY <1>2, <2>1, <3>1, <3>2
  <2>. QED BY <2>1, <2>2, <2>3
<1>4. ASSUME NEW t \in Requests, Settle(t)
      PROVE st'[r] = st[r] /\ answer'[r] = answer[r]
  <2> DEFINE s == [st EXCEPT ![t] = "settled"]
  <2>1. t # r /\ st[t] = "finalizing" /\ s \in [Requests -> Stages]
    BY <1>4 DEF Settle, Stages
  <2>2. answer'[r] = answer[r]
    BY <1>4, <2>1 DEF Settle
  <2>3. CASE queue = <<>>
    BY <1>4, <2>1, <2>2, <2>3 DEF Settle
  <2>4. CASE queue # <<>>
    <3>1. Places(queue, s)
      BY <2>1, MoveKeepsPlaces
    <3>2. TakeNext(queue, s, None)
      BY <1>4, <2>4 DEF Settle
    <3>. QED BY <1>2, <2>1, <2>2, <2>4, <3>1, <3>2
  <2>. QED BY <2>3, <2>4
<1>5. ASSUME NEW t \in Requests, Arrive(t) \/ QueueFull(t)
      PROVE st'[r] = st[r] /\ answer'[r] = answer[r]
  BY <1>5 DEF Arrive, QueueFull
<1>6. ASSUME NEW t \in Requests, Frame(t)
      PROVE st'[r] = st[r] /\ answer'[r] = answer[r]
  BY <1>4, <1>6 DEF Frame, PromptRuns, PromptHandled, PromptThrows, RunEnds,
                    RunRetries, PromptReturns,
                    PromptReturnsEarly
<1>7. ASSUME NEW c \in Callers, Reset(c)
      PROVE st'[r] = st[r] /\ answer'[r] = answer[r]
  BY <1>1, <1>7 DEF Reset, CallBegins, Discard, RejectQueued, ResetRejects,
                    ResetAborts, ResetClears, ResetEnds
<1>8. CASE AbortSession \/ ClearQueue
  BY <1>1, <1>8 DEF AbortSession, ClearQueue, RejectQueued
<1>9. CASE AutoContinue \/ AutoEnd
  BY <1>9 DEF AutoContinue, AutoEnd
<1>. QED
  BY <1>3, <1>5, <1>6, <1>7, <1>8, <1>9 DEF Next

\* No promise of the queue is resolved twice, whatever the calls that race.
THEOREM AnsweredOnce == Spec => SettledOnce
  BY SettledStep, Invariance, PTL DEF Spec, SettledOnce
==============================================================================
