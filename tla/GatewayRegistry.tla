--------------------------- MODULE GatewayRegistry --------------------------
(***************************************************************************)
(* The sessions map of the gateway for one key other than the primary one: *)
(* ensureSession, which tests the map, awaits createSession and then sets  *)
(* the map; the calls that look a session up and act on it after an await  *)
(* (messages, steering, SSE subscribers, delete, reset); the eviction of   *)
(* idle sessions; and stop().  GatewaySession is the inside of one of the  *)
(* managed sessions: here its queue and its flag are where[c] of the calls *)
(* that use it.  One key stands for each: keys whose directories have      *)
(* different names share nothing.                                          *)
(***************************************************************************)
EXTENDS Naturals, FiniteSets

CONSTANTS NumCalls,     \* bound on the calls of clients on the key
          NumSessions,  \* bound on the sessions created
          None,         \* no session, no session file
          OldFile       \* the session file an earlier daemon left

ASSUME ConstantsOK ==
  /\ NumCalls \in Nat
  /\ NumSessions \in Nat
  /\ None # OldFile
  /\ {None, OldFile} \cap (1..NumSessions) = {}

Calls == 1..NumCalls
Sessions == 1..NumSessions   \* managed sessions, in the order of creation
Files == Sessions \cup {OldFile}
Roles == {"send", "steer", "view", "delete", "reset"}
RoleOrder == [send |-> 1, steer |-> 2, view |-> 3, delete |-> 4, reset |-> 5]

VARIABLES
  role,      \* what each call is for
  where,     \* how far it is
  got,       \* the managed session it holds
  awaits,    \* the prompt whose end a delete or a reset is waiting for
  left,      \* calls without a connection (any more)
  current,   \* sessions.get(key)
  life,      \* what became of each session
  file,      \* the session file each session appends to
  listeners, \* managedSession.listeners
  disk,      \* the most recent session file in the key's directory
  dir,       \* the directory exists
  stopping,  \* progress of stop()
  overlap    \* history: two calls overlapped, one of which creates or removes

callVars == <<role, where, got, awaits, left>>
sessVars == <<current, life, file, listeners>>
diskVars == <<disk, dir>>
vars == <<callVars, sessVars, diskVars, stopping, overlap>>

\* A message is "prompting" until the agent's run begins, "running" until that
\* ends, and "ended" until processNext is done with it.
Places == {"new", "opening", "opened", "found", "queued", "prompting", "running",
           "ended", "listening", "leaked", "aborting", "removing", "done"}

TypeOK ==
  /\ role \in [Calls -> Roles]
  /\ where \in [Calls -> Places]
  /\ got \in [Calls -> Sessions \cup {None}]
  /\ awaits \in [Calls -> Calls \cup {None}]
  /\ left \subseteq Calls
  /\ current \in Sessions \cup {None}
  /\ life \in [Sessions -> {"unborn", "live", "evicted", "removed", "stopped"}]
  /\ file \in [Sessions -> Files \cup {None}]
  /\ listeners \in [Sessions -> SUBSET Calls]
  /\ disk \in Files \cup {None}
  /\ dir \in BOOLEAN
  /\ stopping \in {"no", "closing", "stopped"}
  /\ overlap \in BOOLEAN

\* Calls are numbered by their role; they may come in any order.
Init ==
  /\ role \in {r \in [Calls -> Roles] :
                 \A c, d \in Calls : c < d => RoleOrder[r[c]] <= RoleOrder[r[d]]}
  /\ where = [c \in Calls |-> "new"]
  /\ got = [c \in Calls |-> None]
  /\ awaits = [c \in Calls |-> None]
  /\ left = {}
  /\ current = None
  /\ life = [s \in Sessions |-> "unborn"]
  /\ file = [s \in Sessions |-> None]
  /\ listeners = [s \in Sessions |-> {}]
  /\ disk \in {None, OldFile}
  /\ dir = (disk # None)
  /\ stopping = "no"
  /\ overlap = FALSE

\* A call between its lookup and the end of what it does with the result.
Between == {"opening", "opened", "found", "aborting", "removing"}

Overlapping(w) ==
  \E c, d \in Calls :
    /\ c # d /\ {w[c], w[d]} \subseteq Between
    /\ w[c] \in {"opening", "opened"} \/ role[c] \in {"delete", "reset"}

\* Call c goes to place p, and the history takes note of it.
Go(c, p) ==
  /\ where' = [where EXCEPT ![c] = p]
  /\ overlap' = (overlap \/ Overlapping(where'))

Waiting(s) == {c \in Calls : where[c] = "queued" /\ got[c] = s}
InFlight(s) == {c \in Calls : where[c] \in {"prompting", "running", "ended"} /\ got[c] = s}

\* A request was accepted before stop() closed the server, if it did, and its
\* body read since; a call within the process may come at any time.
MayBegin(c) == where[c] = "new" /\ (stopping # "stopped" \/ c \in left)

-----------------------------------------------------------------------------
(* ensureSession.                                                          *)

\* The key is in the map: the caller resumes a microtask later.
LookupFinds(c) ==
  /\ MayBegin(c)
  /\ current # None
  /\ got' = [got EXCEPT ![c] = current]
  /\ Go(c, "found")
  /\ UNCHANGED <<role, awaits, left, sessVars, diskVars, stopping>>

\* It is not: messages and subscribers have the session created, steering,
\* deleting and resetting only if there is a session file, else they answer 404.
LookupMisses(c) ==
  /\ MayBegin(c)
  /\ current = None
  /\ Go(c, IF role[c] \in {"steer", "delete", "reset"} /\ disk = None
           THEN "done" ELSE "opening")
  /\ UNCHANGED <<role, got, awaits, left, sessVars, diskVars, stopping>>

\* createSession after its first await: the SessionManager makes the directory
\* and continues the most recent file, or starts a file of its own.
Open(c) ==
  /\ where[c] = "opening"
  /\ \E s \in Sessions :
       /\ life[s] = "unborn"
       /\ \A t \in Sessions : life[t] = "unborn" => s <= t
       /\ life' = [life EXCEPT ![s] = "live"]
       /\ file' = [file EXCEPT ![s] = IF disk = None THEN s ELSE disk]
       /\ got' = [got EXCEPT ![c] = s]
  /\ dir' = TRUE
  /\ Go(c, "opened")
  /\ UNCHANGED <<role, awaits, left, current, listeners, disk, stopping>>

\* createSession rejects: the caller's promise does too.
OpenFails(c) ==
  /\ where[c] = "opening"
  /\ Go(c, "done")
  /\ UNCHANGED <<role, got, awaits, left, sessVars, diskVars, stopping>>

\* sessions.set, whatever is in the map by now.
Install(c) ==
  /\ where[c] = "opened"
  /\ current' = got[c]
  /\ Go(c, "found")
  /\ UNCHANGED <<role, got, awaits, left, life, file, listeners, diskVars, stopping>>

-----------------------------------------------------------------------------
(* Messages and steering.                                                  *)

\* queueManagedMessage resumes: the entry starts at once or waits for its turn.
Push(c) ==
  /\ where[c] = "found" /\ role[c] = "send"
  /\ Go(c, IF InFlight(got[c]) = {} THEN "prompting" ELSE "queued")
  /\ UNCHANGED <<role, got, awaits, left, sessVars, diskVars, stopping>>

\* handleSteer resumes: it steers the prompt in flight and is done, or it
\* becomes a message, which looks the key up again at once.
Steer(c) ==
  /\ where[c] = "found" /\ role[c] = "steer"
  /\ IF InFlight(got[c]) # {}
     THEN Go(c, "done") /\ UNCHANGED <<role, got>>
     ELSE /\ role' = [role EXCEPT ![c] = "send"]
          /\ IF current = None
             THEN Go(c, "opening") /\ UNCHANGED got
             ELSE Go(c, "found") /\ got' = [got EXCEPT ![c] = current]
  /\ UNCHANGED <<awaits, left, sessVars, diskVars, stopping>>

\* prompt() comes to the agent's run, or fails before.
RunBegins(c) ==
  /\ where[c] = "prompting"
  /\ Go(c, "running") \/ Go(c, "ended")
  /\ UNCHANGED <<role, got, awaits, left, sessVars, diskVars, stopping>>

\* The run ends.  Its messages were appended to the session's file, unless
\* dispose() disconnected the session or the directory is gone.
RunEnds(c) ==
  /\ where[c] = "running"
  /\ Go(c, "ended")
  /\ disk' = IF life[got[c]] = "live" /\ dir THEN file[got[c]] ELSE disk
  /\ UNCHANGED <<role, got, awaits, left, sessVars, dir, stopping>>

\* The finally block of processNext, which takes the next entry.
Finish(c) ==
  /\ where[c] = "ended"
  /\ LET done == [where EXCEPT ![c] = "done"]
     IN \/ /\ Waiting(got[c]) = {}
           /\ where' = done
        \/ \E d \in Waiting(got[c]) : where' = [done EXCEPT ![d] = "prompting"]
  /\ UNCHANGED <<role, got, awaits, left, sessVars, diskVars, stopping, overlap>>

-----------------------------------------------------------------------------
(* Connections and subscribers.                                            *)

\* addSubscriber resumes.  handleSse then waits for the close of the request:
\* if that was before, the listener is leaked, nobody ever removes it.
Register(c) ==
  /\ where[c] = "found" /\ role[c] = "view"
  /\ listeners' = [listeners EXCEPT ![got[c]] = @ \cup {c}]
  /\ Go(c, IF c \in left THEN "leaked" ELSE "listening")
  /\ UNCHANGED <<role, got, awaits, left, current, life, file, diskVars, stopping>>

\* The client of a call disconnects, a message is answered with 202 when it is
\* queued, and calls within the process (the chat bridge's messages and /new)
\* never have a connection.  Only subscribers notice at once; for the others it
\* is a step when it matters: while stop() waits, and for /new, which makes no
\* lookup of its own.
CanLose(c) ==
  /\ c \notin left /\ where[c] # "done"
  /\ \/ role[c] = "view" /\ where[c] # "new"
     \/ role[c] = "reset" /\ where[c] = "new"
     \/ stopping = "closing" /\ (where[c] = "new" => role[c] = "send")

\* Mutant of Close: the close handler does not unsubscribe.
CloseKeepsListener(c) ==
  /\ CanLose(c)
  /\ left' = left \cup {c}
  /\ UNCHANGED listeners
  /\ IF where[c] = "listening" THEN Go(c, "done") ELSE UNCHANGED <<where, overlap>>
  /\ UNCHANGED <<role, got, awaits, current, life, file, diskVars, stopping>>

\* The call loses its connection, during the creation perhaps.
Close(c) ==
  /\ CanLose(c)
  /\ left' = left \cup {c}
  /\ IF where[c] = "listening"
     THEN /\ listeners' = [listeners EXCEPT ![got[c]] = @ \ {c}]
          /\ Go(c, "done")
     ELSE UNCHANGED <<listeners, where, overlap>>
  /\ UNCHANGED <<role, got, awaits, current, life, file, diskVars, stopping>>

-----------------------------------------------------------------------------
(* Delete and reset.                                                       *)

\* Mutant of Discard: the entry of the map is forgotten to be deleted.
DiscardKeepsEntry(c, s) ==
  /\ life' = [life EXCEPT ![s] = "removed"]
  /\ UNCHANGED current
  /\ where' = [d \in Calls |-> CASE d = c -> IF role[c] = "delete" THEN "removing" ELSE "done"
                                 [] d \in Waiting(s) -> "done"
                                 [] OTHER -> where[d]]
  /\ overlap' = (overlap \/ Overlapping(where'))

\* Call c rejects the queue of session s, disposes s, and deletes the key,
\* whatever it maps to; a delete goes on to remove the directory.
Discard(c, s) ==
  /\ life' = [life EXCEPT ![s] = "removed"]
  /\ current' = None
  /\ where' = [d \in Calls |-> CASE d = c -> IF role[c] = "delete" THEN "removing" ELSE "done"
                                 [] d \in Waiting(s) -> "done"
                                 [] OTHER -> where[d]]
  /\ overlap' = (overlap \/ Overlapping(where'))

\* The call holds session s: abort the prompt in flight and wait for the run
\* that is active, if one is, or go on.
AbortOrDiscard(c, s) ==
  IF InFlight(s) = {}
  THEN Discard(c, s) /\ UNCHANGED awaits
  ELSE /\ \E d \in InFlight(s) :
            awaits' = [awaits EXCEPT ![c] = IF where[d] = "running" THEN d ELSE None]
       /\ Go(c, "aborting")
       /\ UNCHANGED <<current, life>>

DeleteBegins(c) ==
  /\ where[c] = "found" /\ role[c] = "delete"
  /\ AbortOrDiscard(c, got[c])
  /\ UNCHANGED <<role, got, left, file, listeners, diskVars, stopping>>

\* resetSession looks the key up itself: requireExistingSession before it only
\* makes sure, for a request, that there is a session.
ResetBegins(c) ==
  /\ role[c] = "reset"
  /\ where[c] = "found" \/ (MayBegin(c) /\ c \in left)
  /\ got' = [got EXCEPT ![c] = current]
  /\ IF current = None
     THEN Go(c, "done") /\ UNCHANGED <<awaits, current, life>>
     ELSE AbortOrDiscard(c, current)
  /\ UNCHANGED <<role, left, file, listeners, diskVars, stopping>>

\* The run the abort waited for is over, or there was none: the prompt may be
\* before its run or after it, processNext may not have returned.
Aborted(c) == awaits[c] # None => where[awaits[c]] # "running"

AbortReturns(c) ==
  /\ where[c] = "aborting" /\ Aborted(c)
  /\ Discard(c, got[c])
  /\ UNCHANGED <<role, got, awaits, left, file, listeners, diskVars, stopping>>

\* rm -r of the key's directory.
RemoveDirectory(c) ==
  /\ where[c] = "removing"
  /\ dir' = FALSE
  /\ disk' = None
  /\ Go(c, "done")
  /\ UNCHANGED <<role, got, awaits, left, sessVars, stopping>>

-----------------------------------------------------------------------------
(* The timer and stop().                                                   *)

\* A call that the next microtask resumes: no timer runs before it.
Resuming(c) ==
  \/ where[c] = "found"
  \/ where[c] = "aborting" /\ Aborted(c)

Idle(s) == Waiting(s) \cup InFlight(s) = {} /\ listeners[s] = {}

\* Mutants of Evict: subscribers do not count; the session is not disposed.
EvictUnwatched ==
  /\ stopping = "no" /\ current # None
  /\ Waiting(current) \cup InFlight(current) = {}
  /\ \A c \in Calls : ~Resuming(c)
  /\ life' = [life EXCEPT ![current] = "evicted"]
  /\ current' = None
  /\ UNCHANGED <<callVars, file, listeners, diskVars, stopping, overlap>>

EvictUndisposed ==
  /\ stopping = "no" /\ current # None
  /\ Idle(current)
  /\ \A c \in Calls : ~Resuming(c)
  /\ current' = None
  /\ UNCHANGED <<callVars, life, file, listeners, diskVars, stopping, overlap>>

\* The sweep finds the session idle for idleMinutes.
Evict ==
  /\ stopping = "no" /\ current # None
  /\ Idle(current)
  /\ \A c \in Calls : ~Resuming(c)
  /\ life' = [life EXCEPT ![current] = "evicted"]
  /\ current' = None
  /\ UNCHANGED <<callVars, file, listeners, diskVars, stopping, overlap>>

\* No more sweeps, no more connections ...
StopBegins ==
  /\ stopping = "no"
  /\ stopping' = "closing"
  /\ UNCHANGED <<callVars, sessVars, diskVars, overlap>>

\* ... and once the last connection is closed the session of the map is
\* disposed, whatever the calls without a connection are doing.
StopEnds ==
  /\ stopping = "closing"
  /\ \A c \in Calls : where[c] \in {"new", "done"} \/ c \in left
  /\ stopping' = "stopped"
  /\ current' = None
  /\ life' = [s \in Sessions |-> IF s = current THEN "stopped" ELSE life[s]]
  /\ UNCHANGED <<callVars, file, listeners, diskVars, overlap>>

-----------------------------------------------------------------------------
Step(c) ==
  \/ Open(c) \/ OpenFails(c) \/ Install(c)
  \/ Push(c) \/ Steer(c) \/ RunBegins(c) \/ RunEnds(c) \/ Finish(c) \/ Register(c)
  \/ DeleteBegins(c) \/ (where[c] = "found" /\ ResetBegins(c))
  \/ AbortReturns(c) \/ RemoveDirectory(c)

Next ==
  \/ \E c \in Calls : LookupFinds(c) \/ LookupMisses(c) \/ ResetBegins(c)
                        \/ Step(c) \/ Close(c)
  \/ Evict \/ StopBegins \/ StopEnds

Spec == Init /\ [][Next]_vars

\* Promises settle, runs end, and the sweep comes round again; a client need
\* not call, and need not close.
Fairness ==
  /\ \A c \in Calls : WF_vars(Step(c))
  /\ WF_vars(Evict)
  /\ WF_vars(StopEnds)

FairSpec == Spec /\ Fairness

-----------------------------------------------------------------------------
(* Properties.                                                             *)

\* Whatever overlaps, the map never holds a session that was disposed; the
\* sweep never takes a session from under a call that uses it (a message
\* waiting or in flight, a subscriber, a call that is about to act on it);
\* stop() does so only to calls without a connection: a message answered with
\* 202, one of a client that has left, one of the chat bridge.
NeverDead ==
  /\ current # None => life[current] = "live"
  /\ \A c \in Calls :
       where[c] \in {"found", "queued", "prompting", "running", "ended", "listening", "aborting"} =>
         /\ life[got[c]] # "evicted"
         /\ life[got[c]] = "stopped" => c \in left

\* A session that runs outside the map, where no abort, reset, eviction or
\* subscriber reaches it, a session whose directory is gone, and a message or
\* a subscriber on a session that is not the key's are the work of calls that
\* overlapped, or of stop(), which leaves a message without a connection on
\* the session it disposed: else the key has one session, with its directory.
LossNeedsOverlap ==
  ~overlap =>
    /\ \A s \in Sessions : life[s] = "live" =>
         s = current \/ \E c \in Calls : where[c] = "opened" /\ got[c] = s
    /\ current # None => dir
    /\ \A c \in Calls :
         where[c] \in {"queued", "prompting", "running", "listening"} =>
           \/ got[c] = current
           \/ life[got[c]] = "removed"
           \/ life[got[c]] = "stopped" /\ stopping = "stopped" /\ where[c] # "listening"

\* A session that no client uses any more leaves memory in the end, unless a
\* subscriber stays connected or its listener was leaked, or a call without a
\* connection came to the map after stop() had cleared it, which nobody sweeps.
UnusedIsReleased ==
  <>[](\/ current = None
       \/ \E c \in Calls : where[c] \in {"listening", "leaked"}
       \/ stopping = "stopped" /\ \E c \in left : got[c] = current)
=============================================================================
