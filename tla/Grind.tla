------------------------------- MODULE Grind -------------------------------
(***************************************************************************)
(* The grind extension (packages/clanker-grind/src/index.ts): a run keeps  *)
(* an agent at work on a goal.  A heartbeat prompts the agent whenever it  *)
(* is idle; the trailer of every reply says whether to go on; commands,    *)
(* manual input and a deadline end the run.  Its record is kept in memory  *)
(* and as custom entries of the session, the latest of which is read back  *)
(* by a process that opens the session.  A process goes from session to    *)
(* session and takes the run in memory along; what becomes of it is        *)
(* recorded where the process is by then.                                  *)
(*                                                                         *)
(* The agent is what the extension sees of it: prompts on their way        *)
(* (getting a key, compacting) while it still counts as idle, a run of     *)
(* several turns, follow-ups queued meanwhile, and turn_end events that    *)
(* are processed some time after the turn, even after the run.  Modules    *)
(* AgentSession and AgentLoop open it up.  Whether the process counts as a *)
(* daemon never changes; here it does.  The texts of prompts, among them   *)
(* the repair prompt after a reply without trailer, are left out.  A       *)
(* session that the gateway makes is never told of its start: it has no    *)
(* heartbeat and reads the record later, like one that is opened while the *)
(* extension is disabled.                                                  *)
(***************************************************************************)
EXTENDS Integers, Sequences

CONSTANTS MaxRuns,      \* bound on the runs started
          MaxPrompts,   \* bound on the prompts on their way to the agent
          MaxQueue,     \* bound on the queued follow-ups
          MaxLate,      \* bound on turn_end events not yet processed
          MaxRestarts,  \* bound on restarts
          MaxSessions,  \* bound on the sessions made
          MaxFailures   \* MAX_PARSE_FAILURES

ASSUME GrindConstantsOK ==
  /\ {MaxRuns, MaxPrompts, MaxQueue, MaxLate, MaxSessions, MaxFailures} \subseteq Nat \ {0}
  /\ MaxRestarts \in Nat

VARIABLES
  mem,       \* the variable state of the extension
  files,     \* the latest state entry in the file of each session
  pastDue,   \* runs whose deadlineAt has passed; it never does for the others
  enabled,   \* the setting clanker-grind.enabled, read again by every handler
  beat,      \* the heartbeat interval is installed
  started,   \* runs started so far
  restarts,  \* restarts so far
  session,   \* the session the process is in
  made,      \* sessions made so far
  starting,  \* prompts on their way to the agent
  busy,      \* isStreaming
  queue,     \* queued follow-ups
  events,    \* trailers of turns whose turn_end is not yet processed
  over       \* history: the ends and pauses of runs, with the session they
             \* are recorded in, of runs not resumed or read as active since

runVars == <<mem, files, pastDue, started, over>>
hostVars == <<enabled, beat, restarts, session, made>>
agentVars == <<starting, busy, queue, events>>
grindVars == <<runVars, hostVars, agentVars>>

Runs == 1..MaxRuns
Sessions == 1..MaxSessions

\* A run that is paused, done, blocked, expired or stopped is not active, and no
\* handler tells these apart.
Statuses == {"active", "ended"}
Trailers == {"none", "continue", "end"}
NoRun == [id |-> 0, status |-> "none", failures |-> 0]
RunStates == {NoRun} \cup [id : Runs, status : Statuses, failures : 0..MaxFailures]

GrindTypeOK ==
  /\ mem \in RunStates /\ files \in [Sessions -> RunStates]
  /\ pastDue \subseteq Runs
  /\ {enabled, beat, busy} \subseteq BOOLEAN
  /\ started \in 0..MaxRuns /\ restarts \in 0..MaxRestarts
  /\ session \in Sessions /\ made \in Sessions
  /\ starting \in 0..MaxPrompts /\ queue \in 0..MaxQueue
  /\ events \in Seq(Trailers) /\ Len(events) <= MaxLate
  /\ over \subseteq Sessions \X Runs

GrindInit ==
  /\ mem = NoRun /\ files = [s \in Sessions |-> NoRun]
  /\ pastDue = {}
  /\ enabled \in BOOLEAN /\ beat = enabled
  /\ started = 0 /\ restarts = 0 /\ session = 1 /\ made = 1
  /\ starting = 0 /\ busy = FALSE /\ queue = 0 /\ events = <<>>
  /\ over = {}

-----------------------------------------------------------------------------
\* The record of the run.

\* state ?? readState(ctx)
Current == IF mem = NoRun THEN files[session] ELSE mem

Overdue(run) == run.status = "active" /\ run.id \in pastDue

\* What is over when a record that says active is read: wherever else its end
\* is recorded, the run goes on.
ReadBack(run) == IF run.status = "active" THEN {e \in over : e[2] # run.id} ELSE over

\* What is over for a handler that looks the current run up.
Over == IF mem = NoRun THEN ReadBack(files[session]) ELSE over

\* persistState: the new record goes to memory and into the session.
Persist(run) ==
  /\ mem' = run /\ files' = [files EXCEPT ![session] = run]
  /\ over' = IF run.status = "active" THEN Over ELSE Over \cup {<<session, run.id>>}

\* Mutant of Expire: the caller keeps the state it had.
ExpireUnnoticed(run) ==
  /\ files' = [files EXCEPT ![session] = [run EXCEPT !.status = "ended"]]
  /\ over' = over \cup {<<session, run.id>>}
  /\ UNCHANGED mem

End(run) == Persist([run EXCEPT !.status = "ended"])

Expire(run) == End(run)

Remember(run) == mem' = run /\ UNCHANGED files

LookUp == Remember(Current) /\ over' = Over

\* sendUserMessage with deliverAs "followUp".
Send ==
  /\ UNCHANGED <<busy, events>>
  /\ IF busy
       THEN queue < MaxQueue /\ queue' = queue + 1 /\ UNCHANGED starting
       ELSE starting < MaxPrompts /\ starting' = starting + 1 /\ UNCHANGED queue

-----------------------------------------------------------------------------
\* Mutant of Beat: a run whose last reply had no trailer is left alone.
BeatWithoutRepair ==
  /\ beat /\ mem.status = "active" /\ ~busy /\ queue = 0
  /\ IF Overdue(mem)
       THEN Expire(mem) /\ UNCHANGED agentVars
       ELSE mem.failures = 0 /\ Send /\ UNCHANGED <<mem, files, over>>
  /\ UNCHANGED <<pastDue, started, hostVars>>

\* The heartbeat: it does not look at the setting.
Beat ==
  /\ beat /\ mem.status = "active" /\ ~busy /\ queue = 0
  /\ IF Overdue(mem)
       THEN Expire(mem) /\ UNCHANGED agentVars
       ELSE Send /\ UNCHANGED <<mem, files, over>>
  /\ UNCHANGED <<pastDue, started, hostVars>>

\* startRun: nothing is started, and the run in memory is forgotten, when
\* grind mode is disabled.
StartRun ==
  IF enabled
    THEN /\ started < MaxRuns /\ started' = started + 1
         /\ Persist([id |-> started', status |-> "active", failures |-> 0])
    ELSE Remember(NoRun) /\ UNCHANGED <<started, over>>

\* /grind start: the goal is the first prompt of the run.
Start ==
  /\ StartRun
  /\ IF enabled THEN Send ELSE UNCHANGED agentVars
  /\ UNCHANGED <<pastDue, hostVars>>

\* /grind pause and /grind stop, whatever the run's status.
Halt ==
  /\ Current # NoRun
  /\ End(Current)
  /\ UNCHANGED <<pastDue, started, hostVars, agentVars>>

\* /grind resume, whatever the run's status; failures and deadline stay.
Resume ==
  /\ Current # NoRun
  /\ LET run == [Current EXCEPT !.status = "active"]
     IN  /\ mem' = run /\ files' = [files EXCEPT ![session] = run]
         /\ over' = {e \in over : e[2] # run.id}
  /\ Send
  /\ UNCHANGED <<pastDue, started, hostVars>>

\* A prompt of a user reaches the agent: while it is streaming the prompt is
\* queued, or refused when the caller did not say how.
Prompted == Send \/ (busy /\ UNCHANGED agentVars)

\* Input typed by a user: one of the cues starts a run, any other text pauses
\* the active one.
Types ==
  /\ Prompted
  /\ \/ enabled /\ StartRun
     \/ /\ enabled /\ Current.status = "active"
        /\ End(Current) /\ UNCHANGED started
     \/ ~(enabled /\ Current.status = "active") /\ UNCHANGED <<mem, files, started, over>>
  /\ UNCHANGED <<pastDue, hostVars>>

\* A message from a chat: its source is "extension", which the input handler
\* leaves alone.
Chats == Prompted /\ UNCHANGED <<runVars, hostVars>>

-----------------------------------------------------------------------------
\* The agent.

\* A prompt gets to before_agent_start and to the agent, which refuses it when
\* another prompt was faster.
PromptBegins ==
  /\ starting > 0 /\ starting' = starting - 1
  /\ IF Overdue(Current) THEN Expire(Current) ELSE LookUp
  /\ busy' = TRUE
  /\ UNCHANGED <<pastDue, started, hostVars, queue, events>>

\* A turn that is not the last of its run: the agent asked for tools.
TurnEnds ==
  /\ busy /\ Len(events) < MaxLate
  /\ \E trailer \in Trailers : events' = Append(events, trailer)
  /\ UNCHANGED <<runVars, hostVars, starting, busy, queue>>

\* The last turn of a run: follow-ups are taken one at a time.  An error or an
\* abort ends the run at once, with a reply that has no trailer.
RunEnds ==
  /\ busy /\ Len(events) < MaxLate
  /\ \/ /\ \E trailer \in Trailers : events' = Append(events, trailer)
        /\ IF queue > 0 THEN queue' = queue - 1 /\ UNCHANGED busy
                        ELSE busy' = FALSE /\ UNCHANGED queue
     \/ events' = Append(events, "none") /\ busy' = FALSE /\ UNCHANGED queue
  /\ UNCHANGED <<runVars, hostVars, starting>>

\* withLoopStatus, or the count of replies without a trailer, which saturates
\* here where only being at least MaxFailures matters.
Judged(run, trailer) ==
  IF trailer = "none"
    THEN IF run.failures + 1 >= MaxFailures
           THEN [run EXCEPT !.status = "ended", !.failures = MaxFailures]
           ELSE [run EXCEPT !.failures = @ + 1]
    ELSE [run EXCEPT !.status = IF trailer = "continue" THEN "active" ELSE "ended",
                     !.failures = 0]

\* Mutant of TurnProcessed: it judges the run without looking at its status first.
TurnProcessedBlindly ==
  /\ events # <<>> /\ events' = Tail(events)
  /\ IF Current = NoRun THEN LookUp
     ELSE IF Overdue(Current) THEN Expire(Current)
     ELSE Persist(Judged(Current, Head(events)))
  /\ UNCHANGED <<pastDue, started, hostVars, starting, busy, queue>>

\* The turn_end handler.  The turn need not be one of the run it judges.
TurnProcessed ==
  /\ events # <<>> /\ events' = Tail(events)
  /\ IF Current.status # "active" THEN LookUp
     ELSE IF Overdue(Current) THEN Expire(Current)
     ELSE Persist(Judged(Current, Head(events)))
  /\ UNCHANGED <<pastDue, started, hostVars, starting, busy, queue>>

-----------------------------------------------------------------------------
\* The surroundings.

TimePasses ==
  /\ \E run \in 1..started : pastDue' = pastDue \cup {run}
  /\ UNCHANGED <<mem, files, started, over, hostVars, agentVars>>

Configure ==
  /\ enabled' = ~enabled
  /\ UNCHANGED <<runVars, beat, restarts, session, made, agentVars>>

Enter(s) == session' = s /\ made' = IF s > made THEN s ELSE made

\* The process ends, and another one opens one of the sessions, or a new one:
\* session_start.  A session file that was never flushed is left out; see
\* SessionTree.
Restart ==
  /\ restarts < MaxRestarts /\ restarts' = restarts + 1
  /\ \E s \in Sessions :
       /\ s <= made + 1 /\ Enter(s)
       /\ Remember(files[s]) /\ over' = ReadBack(files[s])
  /\ beat' = enabled
  /\ starting' = 0 /\ busy' = FALSE /\ queue' = 0 /\ events' = <<>>
  /\ UNCHANGED <<pastDue, started, enabled>>

\* newSession and switchSession: the run of the agent is aborted unheard, and the
\* extension, which does not listen to session_switch, keeps what it has in
\* memory.  Follow-ups that switchSession leaves in the queue of the agent, no
\* longer counted, are turns of its next run.
ChangeSession ==
  /\ \E s \in Sessions : s <= made + 1 /\ Enter(s)
  /\ busy' = FALSE /\ queue' = 0
  /\ UNCHANGED <<runVars, enabled, beat, restarts, starting, events>>

\* fork: the new session has the records before a message of the user: none, all,
\* or those up to when the latest run was last made active.  The agent goes on.
Fork ==
  /\ made < MaxSessions /\ Enter(made + 1)
  /\ \E run \in {NoRun, files[session], [files[session] EXCEPT !.status = "active"]} :
       /\ run \in RunStates
       /\ files' = [files EXCEPT ![made + 1] = run]
  /\ UNCHANGED <<mem, pastDue, started, over, enabled, beat, restarts, agentVars>>

GrindNext ==
  \/ Beat \/ Start \/ Halt \/ Resume \/ Types \/ Chats
  \/ PromptBegins \/ TurnEnds \/ RunEnds \/ TurnProcessed
  \/ TimePasses \/ Configure \/ Restart \/ ChangeSession \/ Fork

\* The interval fires again and again, prompts on their way arrive, a run of
\* the agent ends, and the event queue is worked off.  Users, settings and
\* the process owe nothing.
GrindFairness ==
  /\ WF_grindVars(Beat) /\ WF_grindVars(PromptBegins)
  /\ WF_grindVars(RunEnds) /\ WF_grindVars(TurnProcessed)

GrindSpec == GrindInit /\ [][GrindNext]_grindVars /\ GrindFairness

-----------------------------------------------------------------------------
(* A run that is done, blocked, expired, stopped or paused, by a command or
   by the manual input that interrupts it, is not active again in memory, nor on
   record in the session where its end is recorded, until a user resumes it or
   the extension reads the record of another session that the run was active in:
   whatever turns of the agent were still under way, prompts on their way,
   processes restarted and sessions changed. *)
EndedStaysEnded ==
  /\ mem.status = "active" => \A s \in Sessions : <<s, mem.id>> \notin over
  /\ \A s \in Sessions : files[s].status = "active" => <<s, files[s].id>> \notin over

(* The extension's README.md:9, "Continues work on a heartbeat": as long as the heartbeat is
   installed an active run has the agent at work sooner or later, unless
   follow-ups that an aborted or failed run left in the queue hold the
   heartbeat off. *)
ActiveIsDriven ==
  (beat /\ mem.status = "active") ~> (busy \/ mem.status # "active" \/ queue > 0 \/ ~beat)

(* A run past its deadline ends, in whatever session it is by then, with the
   same exception. *)
DeadlineIsKept ==
  (beat /\ Overdue(mem)) ~> (~Overdue(mem) \/ ~beat \/ (~busy /\ queue > 0))

=============================================================================
