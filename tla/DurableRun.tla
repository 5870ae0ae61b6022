----------------------------- MODULE DurableRun -----------------------------
(***************************************************************************)
(* DurableChatRunReporter (packages/coding-agent/src/core/gateway/         *)
(* durable-chat-run.ts): reports a run to a relay over HTTP.  Session      *)
(* events arm one timer; when it fires, a snapshot of the assistant        *)
(* message joins a chain of posts that are sent one after the other; the   *)
(* first failure is sticky; finalize() flushes, drains the chain and posts *)
(* the status of the run.  A snapshot is abstracted to its freshness, the  *)
(* number of events the run had when it was taken.  What it contains (the  *)
(* latest assistant message alone, and the tool results) is left out.      *)
(***************************************************************************)
EXTENDS Integers, SequencesExt

CONSTANT MaxEvents   \* bound on the session events of the run

ASSUME ConstantsOK == MaxEvents \in Nat

VARIABLES
  seen,     \* output known to the reporter (latestAssistantMessage, tool results)
  timer,    \* flushTimer is armed
  chain,    \* posts on flushChain: the snapshot and who awaits it
  failure,  \* flushFailure is set
  phase,    \* progress of finalize()
  left,     \* posts finalize() still waits for after its own
  verdict,  \* the status finalize() is going to post
  late,     \* an event has arrived while finalize() was waiting
  relay     \* what reached the relay, in order

vars == <<seen, timer, chain, failure, phase, left, verdict, late, relay>>

Verdicts == {"completed", "interrupted", "failed"}
Item(v) == [kind |-> "items", upto |-> v]
Final(s) == [kind |-> "final", status |-> s]

TypeOK ==
  /\ seen \in 0..MaxEvents
  /\ timer \in BOOLEAN
  /\ chain \in Seq([upto : 1..MaxEvents, by : {"timer", "finalize"}])
  /\ failure \in BOOLEAN
  /\ phase \in {"idle", "flush", "drain", "post", "returned", "threw"}
  /\ left \in Nat
  /\ verdict \in Verdicts \cup {"none"}
  /\ late \in BOOLEAN
  /\ relay \in Seq({Item(v) : v \in 1..MaxEvents} \cup {Final(s) : s \in Verdicts})

Init ==
  /\ seen = 0
  /\ timer = FALSE
  /\ chain = <<>>
  /\ failure = FALSE
  /\ phase = "idle"
  /\ left = 0
  /\ verdict = "none"
  /\ late = FALSE
  /\ relay = <<>>

-----------------------------------------------------------------------------
\* An event of the session.  message_start records the message and arms no
\* timer; the others arm it unless it is armed.  The gateway forwards events
\* until finalize() has returned or thrown: those of a run that goes on after
\* prompt() has returned arrive late.
HandleSessionEvent ==
  /\ phase \in {"idle", "flush", "drain", "post"}
  /\ seen < MaxEvents
  /\ seen' = seen + 1
  /\ timer' \in {timer, TRUE}
  /\ late' = (late \/ phase # "idle")
  /\ UNCHANGED <<chain, failure, phase, left, verdict, relay>>

\* flush() from the timer: nothing after a failure, nothing to say before
\* the first event, else the snapshot joins the chain.
TimerFires ==
  /\ timer
  /\ timer' = FALSE
  /\ chain' = IF failure \/ seen = 0 THEN chain
              ELSE Append(chain, [upto |-> seen, by |-> "timer"])
  /\ UNCHANGED <<seen, late, failure, phase, left, verdict, relay>>

\* Mutant of FinalFlush: the final flush is left to the timer.
FinalFlushSkipped(v) ==
  /\ phase' = "post"
  /\ verdict' = IF failure THEN "failed" ELSE v
  /\ UNCHANGED <<timer, chain, left>>

\* finalFlush(): throws at once after a failure and leaves the timer armed;
\* else disarms the timer and flushes.
FinalFlush(v) ==
  IF failure
  THEN /\ phase' = "post"
       /\ verdict' = "failed"
       /\ UNCHANGED <<timer, chain, left>>
  ELSE /\ timer' = FALSE
       /\ verdict' = v
       /\ IF seen = 0
          THEN /\ phase' = "post"
               /\ UNCHANGED <<chain, left>>
          ELSE /\ chain' = Append(chain, [upto |-> seen, by |-> "finalize"])
               /\ phase' = "flush"
               /\ UNCHANGED left

\* finalize(result), called once by processNext.
Finalize ==
  /\ phase = "idle"
  /\ \E v \in Verdicts : FinalFlush(v)
  /\ UNCHANGED <<seen, late, failure, relay>>

\* Where finalize() goes when the head post of the chain ends well: from its
\* own post it goes on to await the rest of the chain as it then is.
Advance ==
  LET rest == Len(chain) - 1 IN
  CASE phase = "flush" /\ Head(chain).by = "finalize" ->
         /\ left' = rest
         /\ phase' = IF rest = 0 THEN "post" ELSE "drain"
    [] phase = "drain" ->
         /\ left' = left - 1
         /\ phase' = IF left = 1 THEN "post" ELSE "drain"
    [] OTHER -> UNCHANGED <<left, phase>>

\* Mutant of Falter: the error of its own post does not reach finalize().
FalterUnheard ==
  IF phase = "flush" THEN UNCHANGED <<left, phase, verdict>>
  ELSE /\ left' = IF phase = "drain" THEN left - 1 ELSE left
       /\ phase' = IF phase = "drain" /\ left = 1 THEN "post" ELSE phase
       /\ verdict' = IF phase = "drain" THEN "failed" ELSE verdict

\* ... and when it ends in an error: its own flush() throws the failure; in
\* the drain the failure is found when the chain has run out.
Falter ==
  CASE phase = "flush" /\ Head(chain).by = "finalize" ->
         /\ phase' = "post"
         /\ verdict' = "failed"
         /\ UNCHANGED left
    [] phase = "drain" ->
         /\ left' = left - 1
         /\ phase' = IF left = 1 THEN "post" ELSE "drain"
         /\ verdict' = "failed"
    [] OTHER -> UNCHANGED <<left, phase, verdict>>

\* The head post of the chain is accepted.
PostAccepted ==
  /\ chain # <<>> /\ ~failure
  /\ relay' = Append(relay, Item(Head(chain).upto))
  /\ chain' = Tail(chain)
  /\ Advance
  /\ UNCHANGED <<seen, late, timer, failure, verdict>>

\* It fails: refused, or accepted with the response lost.  The failure sticks.
PostFails ==
  /\ chain # <<>> /\ ~failure
  /\ relay' \in {relay, Append(relay, Item(Head(chain).upto))}
  /\ chain' = Tail(chain)
  /\ failure' = TRUE
  /\ Falter
  /\ UNCHANGED <<seen, late, timer>>

\* Mutant of PostSkipped: the chain goes on posting after a failure.
PostRegardless ==
  /\ chain # <<>> /\ failure
  /\ relay' = Append(relay, Item(Head(chain).upto))
  /\ chain' = Tail(chain)
  /\ Falter
  /\ UNCHANGED <<seen, late, timer, failure>>

\* After a failure the rest of the chain is skipped.
PostSkipped ==
  /\ chain # <<>> /\ failure
  /\ chain' = Tail(chain)
  /\ Falter
  /\ UNCHANGED <<seen, late, timer, failure, relay>>

\* The status is posted once, without retry: a failure makes finalize() throw.
PostFinal ==
  /\ phase = "post"
  /\ \/ relay' = Append(relay, Final(verdict)) /\ phase' = "returned"
     \/ relay' \in {relay, Append(relay, Final(verdict))} /\ phase' = "threw"
  /\ UNCHANGED <<seen, late, timer, chain, failure, left, verdict>>

Next ==
  \/ HandleSessionEvent \/ TimerFires \/ Finalize
  \/ PostAccepted \/ PostFails \/ PostSkipped \/ PostFinal

\* Every fetch settles.
Fairness == WF_vars(PostAccepted \/ PostFails) /\ WF_vars(PostSkipped) /\ WF_vars(PostFinal)

Spec == Init /\ [][Next]_vars /\ Fairness

-----------------------------------------------------------------------------
(* Properties.                                                             *)

Posted(kind, log) == {i \in DOMAIN log : log[i].kind = kind}

\* What the relay's record holds after these posts, and the status that closed
\* the run.
Stored(log) ==
  IF Posted("items", log) = {} THEN 0 ELSE log[Max(Posted("items", log))].upto
Closed(log) ==
  IF Posted("final", log) = {} THEN "open" ELSE log[Min(Posted("final", log))].status

\* Seen from the relay the run is RunRelay: its record never moves backwards
\* and it is closed once; unless events were late, nothing comes after and
\* "completed" means whole.
Relay == INSTANCE RunRelay WITH
           produced <- seen, stored <- Stored(relay), status <- Closed(relay)
ReportsToRelay == Relay!Spec

\* Once a post has failed no further snapshot reaches the relay.
StopsAfterFailure == [][failure => Stored(relay') = Stored(relay)]_vars

\* finalize() always comes back, whatever the relay answers: processNext
\* awaits it before it takes the next message.
FinalizeReturns == phase # "idle" ~> phase \in {"returned", "threw"}
=============================================================================
