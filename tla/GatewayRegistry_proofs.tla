----------------------- MODULE GatewayRegistry_proofs -----------------------
(***************************************************************************)
(* What holds of the gateway's sessions map for any number of calls and    *)
(* sessions: the types, that the map never holds a session that was        *)
(* disposed, and that without overlapping calls nothing is lost.           *)
(***************************************************************************)
EXTENDS GatewayRegistry, TLAPS

\* Where a call holds a managed session.
Holding == {"opened", "found", "queued", "prompting", "running", "ended", "listening", "leaked",
            "aborting"}

\* A session that a call holds was created.
Held == \A c \in Calls :
  where[c] \in Holding => got[c] \in Sessions /\ life[got[c]] # "unborn"

\* A session that was created and is not yet in the map is live and known to
\* its creator alone: nobody can dispose it.
CreatorsOwn == \A c \in Calls :
  where[c] = "opened" =>
    /\ life[got[c]] = "live" /\ got[c] # current
    /\ \A d \in Calls \ {c} : where[d] \in Holding => got[d] # got[c]

\* An abort that waits waits for a prompt of its own session, whose run may
\* have ended since.
AbortsWait == \A c \in Calls :
  where[c] = "aborting" /\ awaits[c] # None =>
    /\ awaits[c] \in Calls /\ got[awaits[c]] = got[c]
    /\ where[awaits[c]] \in {"running", "ended", "done"}

\* Only deletes and resets abort, only deletes remove the directory.
Removers == \A c \in Calls :
  where[c] \in {"aborting", "removing"} => role[c] \in {"delete", "reset"}

\* A subscriber is on the list of its session, and has its connection.
Listens == \A c \in Calls :
  where[c] = "listening" => c \in listeners[got[c]] /\ c \notin left

\* Only the end of stop() stops a session.
StopStops == \A s \in Sessions : life[s] = "stopped" => stopping = "stopped"

\* Until two calls overlap, a call that creates finds the map empty, a call
\* that removes leaves it empty, and one that holds a session holds the key's.
Alone ==
  ~overlap =>
    /\ ~Overlapping(where)
    /\ \A c \in Calls :
         /\ where[c] \in {"opening", "opened", "removing"} => current = None
         /\ where[c] = "opened" => dir
         /\ where[c] \in {"found", "aborting"} =>
              got[c] = current \/ (current = None /\ life[got[c]] \in {"removed", "stopped"})

IInv ==
  /\ TypeOK /\ Held /\ CreatorsOwn /\ AbortsWait /\ Removers /\ Listens /\ StopStops
  /\ NeverDead /\ Alone /\ LossNeedsOverlap

-----------------------------------------------------------------------------
(* The steps, by what they do.                                             *)

Creates(c) == LookupFinds(c) \/ LookupMisses(c) \/ Open(c) \/ OpenFails(c) \/ Install(c)
Prompts(c) == Push(c) \/ Steer(c) \/ RunBegins(c) \/ RunEnds(c) \/ Finish(c)
Watches(c) == Register(c) \/ Close(c)
Removes(c) == DeleteBegins(c) \/ ResetBegins(c) \/ AbortReturns(c) \/ RemoveDirectory(c)
Sweeps == Evict \/ StopBegins \/ StopEnds

LEMMA Kinds ==
  ASSUME [Next]_vars
  PROVE  \/ \E c \in Calls : Creates(c) \/ Prompts(c) \/ Watches(c) \/ Removes(c)
         \/ Sweeps \/ UNCHANGED vars
  BY DEF Next, Step, Creates, Prompts, Watches, Removes, Sweeps

-----------------------------------------------------------------------------
(* Types.                                                                  *)

LEMMA Numbering ==
  /\ None \notin Sessions /\ Sessions \subseteq Files
  /\ \A s \in Sessions : s \in Nat
  BY ConstantsOK DEF Sessions, Files

LEMMA GoTyped ==
  ASSUME TypeOK, NEW c \in Calls, NEW p \in Places, Go(c, p)
  PROVE  where' \in [Calls -> Places] /\ overlap' \in BOOLEAN
<1>1. where' = [where EXCEPT ![c] = p] /\ overlap' = (overlap \/ Overlapping(where'))
  BY DEF Go
<1>2. Overlapping(where') \in BOOLEAN
  BY Zenon DEF Overlapping
<1>3. where \in [Calls -> Places] /\ overlap \in BOOLEAN
  BY DEF TypeOK
<1>4. (overlap \/ Overlapping(where')) \in BOOLEAN
  BY <1>2, <1>3, Zenon
<1>. QED BY <1>1, <1>3, <1>4

LEMMA DiscardTyped ==
  ASSUME TypeOK, NEW c \in Calls, NEW s \in Sessions, Discard(c, s)
  PROVE  /\ where' \in [Calls -> Places] /\ overlap' \in BOOLEAN
         /\ life' \in [Sessions -> {"unborn", "live", "evicted", "removed", "stopped"}]
         /\ current' = None
<1>1. where' = [d \in Calls |-> CASE d = c -> IF role[c] = "delete" THEN "removing" ELSE "done"
                                  [] d \in Waiting(s) -> "done"
                                  [] OTHER -> where[d]]
  BY DEF Discard
<1>2. where' \in [Calls -> Places]
  BY <1>1 DEF TypeOK, Places
<1>3. overlap' = (overlap \/ Overlapping(where')) /\ overlap \in BOOLEAN
  BY DEF Discard, TypeOK
<1>4. Overlapping(where') \in BOOLEAN
  BY Zenon DEF Overlapping
<1>5. (overlap \/ Overlapping(where')) \in BOOLEAN
  BY <1>3, <1>4, Zenon
<1>. QED BY <1>2, <1>3, <1>5 DEF Discard, TypeOK

LEMMA AbortOrDiscardTyped ==
  ASSUME TypeOK, NEW c \in Calls, NEW s \in Sessions, AbortOrDiscard(c, s)
  PROVE  /\ where' \in [Calls -> Places] /\ overlap' \in BOOLEAN
         /\ life' \in [Sessions -> {"unborn", "live", "evicted", "removed", "stopped"}]
         /\ current' \in Sessions \cup {None}
         /\ awaits' \in [Calls -> Calls \cup {None}]
<1>1. CASE InFlight(s) = {}
  BY <1>1, DiscardTyped DEF AbortOrDiscard, TypeOK
<1>2. CASE InFlight(s) # {}
  <2>1. PICK d \in InFlight(s) :
          awaits' = [awaits EXCEPT ![c] = IF where[d] = "running" THEN d ELSE None]
    BY <1>2 DEF AbortOrDiscard
  <2>2. (IF where[d] = "running" THEN d ELSE None) \in Calls \cup {None} /\ "aborting" \in Places
    BY DEF InFlight, Places
  <2>3. awaits' \in [Calls -> Calls \cup {None}]
    BY <2>1, <2>2 DEF TypeOK
  <2>. QED BY <1>2, <2>2, <2>3, GoTyped DEF AbortOrDiscard, TypeOK
<1>. QED BY <1>1, <1>2

LEMMA TypeStep == IInv /\ [Next]_vars => TypeOK'
<1> SUFFICES ASSUME IInv, [Next]_vars PROVE TypeOK'
  OBVIOUS
<1>0. TypeOK /\ Held /\ CreatorsOwn
  BY DEF IInv
<1>1. ASSUME NEW c \in Calls, Creates(c) PROVE TypeOK'
  <2>1. CASE Open(c)
    <3>1. PICK s \in Sessions :
            /\ life' = [life EXCEPT ![s] = "live"]
            /\ file' = [file EXCEPT ![s] = IF disk = None THEN s ELSE disk]
            /\ got' = [got EXCEPT ![c] = s]
      BY <2>1 DEF Open
    <3>2. where' \in [Calls -> Places] /\ overlap' \in BOOLEAN
      BY <1>0, <2>1, GoTyped DEF Open, Places
    <3>. QED BY <1>0, <2>1, <3>1, <3>2, Numbering DEF Open, TypeOK
  <2>2. CASE LookupFinds(c) \/ LookupMisses(c) \/ OpenFails(c) \/ Install(c)
    <3>1. where' \in [Calls -> Places] /\ overlap' \in BOOLEAN
      BY <1>0, <2>2, GoTyped DEF LookupFinds, LookupMisses, MayBegin, OpenFails, Install, Places
    <3>2. current' \in Sessions \cup {None} /\ got' \in [Calls -> Sessions \cup {None}]
      BY <1>0, <2>2 DEF TypeOK, LookupFinds, LookupMisses, MayBegin, OpenFails, Install, sessVars
    <3>. QED BY <1>0, <2>2, <3>1, <3>2
             DEF TypeOK, LookupFinds, LookupMisses, MayBegin, OpenFails, Install, sessVars, diskVars
  <2>. QED BY <1>1, <2>1, <2>2 DEF Creates
<1>2. ASSUME NEW c \in Calls, Prompts(c) PROVE TypeOK'
  <2>1. CASE Push(c) \/ Steer(c) \/ RunBegins(c)
    <3>1. where' \in [Calls -> Places] /\ overlap' \in BOOLEAN
      BY <1>0, <2>1, GoTyped DEF Push, Steer, RunBegins, Places
    <3>2. role' \in [Calls -> Roles] /\ got' \in [Calls -> Sessions \cup {None}]
      BY <1>0, <2>1 DEF Push, Steer, RunBegins, TypeOK, Roles
    <3>. QED BY <1>0, <2>1, <3>1, <3>2 DEF Push, Steer, RunBegins, TypeOK, sessVars, diskVars
  <2>2. CASE RunEnds(c)
    <3>1. where' \in [Calls -> Places] /\ overlap' \in BOOLEAN
      BY <1>0, <2>2, GoTyped DEF RunEnds, Places
    <3>2. got[c] \in Sessions
      BY <1>0, <2>2 DEF RunEnds, Held, Holding
    <3>3. disk' \in Files \cup {None}
      BY <1>0, <2>2, <3>2 DEF RunEnds, TypeOK
    <3>. QED BY <1>0, <2>2, <3>1, <3>3 DEF RunEnds, TypeOK, sessVars
  <2>3. CASE Finish(c)
    <3>1. where' \in [Calls -> Places]
      BY <1>0, <2>3 DEF Finish, TypeOK, Places
    <3>. QED BY <1>0, <2>3, <3>1 DEF Finish, TypeOK, sessVars, diskVars
  <2>. QED BY <1>2, <2>1, <2>2, <2>3 DEF Prompts
<1>3. ASSUME NEW c \in Calls, Watches(c) PROVE TypeOK'
  <2>1. where' \in [Calls -> Places] /\ overlap' \in BOOLEAN
    BY <1>0, <1>3, GoTyped DEF Watches, Register, Close, CanLose, Places, TypeOK
  <2>2. CASE UNCHANGED listeners
    BY <1>0, <1>3, <2>1, <2>2 DEF Watches, Register, Close, CanLose, TypeOK, diskVars
  <2>3. CASE listeners' # listeners
    <3>1. got[c] \in Sessions
      BY <1>0, <1>3, <2>3 DEF Watches, Register, Close, CanLose, Held, Holding
    <3>2. \/ listeners' = [listeners EXCEPT ![got[c]] = @ \cup {c}]
          \/ listeners' = [listeners EXCEPT ![got[c]] = @ \ {c}]
      BY <1>3, <2>3 DEF Watches, Register, Close, CanLose
    <3>3. listeners' \in [Sessions -> SUBSET Calls]
      BY <1>0, <3>1, <3>2 DEF TypeOK
    <3>. QED BY <1>0, <1>3, <2>1, <3>3 DEF Watches, Register, Close, CanLose, TypeOK, diskVars
  <2>. QED BY <2>2, <2>3
<1>4. ASSUME NEW c \in Calls, Removes(c) PROVE TypeOK'
  <2>1. CASE DeleteBegins(c)
    <3>1. got[c] \in Sessions
      BY <1>0, <2>1 DEF DeleteBegins, Held, Holding
    <3>. QED BY <1>0, <2>1, <3>1, AbortOrDiscardTyped DEF DeleteBegins, TypeOK, diskVars
  <2>2. CASE ResetBegins(c)
    <3>1. got' \in [Calls -> Sessions \cup {None}]
      BY <1>0, <2>2 DEF ResetBegins, TypeOK
    <3>2. CASE current = None
      <4>1. where' \in [Calls -> Places] /\ overlap' \in BOOLEAN
        BY <1>0, <2>2, <3>2, GoTyped DEF ResetBegins, Places
      <4>. QED BY <1>0, <2>2, <3>1, <3>2, <4>1 DEF ResetBegins, TypeOK, diskVars
    <3>3. CASE current # None
      <4>1. current \in Sessions
        BY <1>0, <3>3 DEF TypeOK
      <4>. QED BY <1>0, <2>2, <3>1, <3>3, <4>1, AbortOrDiscardTyped
               DEF ResetBegins, TypeOK, diskVars
    <3>. QED BY <3>2, <3>3
  <2>3. CASE AbortReturns(c)
    <3>1. got[c] \in Sessions
      BY <1>0, <2>3 DEF AbortReturns, Held, Holding
    <3>. QED BY <1>0, <2>3, <3>1, DiscardTyped DEF AbortReturns, TypeOK, diskVars
  <2>4. CASE RemoveDirectory(c)
    <3>1. where' \in [Calls -> Places] /\ overlap' \in BOOLEAN
      BY <1>0, <2>4, GoTyped DEF RemoveDirectory, Places
    <3>. QED BY <1>0, <2>4, <3>1 DEF RemoveDirectory, TypeOK, sessVars
  <2>. QED BY <1>4, <2>1, <2>2, <2>3, <2>4 DEF Removes
<1>5. CASE Sweeps
  BY <1>0, <1>5 DEF Sweeps, Evict, StopBegins, StopEnds, TypeOK, callVars, sessVars, diskVars
<1>6. CASE UNCHANGED vars
  BY <1>0, <1>6 DEF vars, callVars, sessVars, diskVars, TypeOK
<1>. QED BY <1>1, <1>2, <1>3, <1>4, <1>5, <1>6, Kinds

-----------------------------------------------------------------------------
(* What a call holds.                                                      *)

LEMMA HeldStep == IInv /\ [Next]_vars => Held'
<1> SUFFICES ASSUME IInv, [Next]_vars PROVE Held'
  OBVIOUS
<1>0. TypeOK /\ Held /\ CreatorsOwn /\ NeverDead
  BY DEF IInv
<1>1. ASSUME NEW c \in Calls, Creates(c) PROVE Held'
  BY <1>0, <1>1 DEF Creates, LookupFinds, LookupMisses, MayBegin, Open, OpenFails, Install, Go,
     TypeOK, Held, CreatorsOwn, NeverDead, Holding, sessVars
<1>2. ASSUME NEW c \in Calls, Prompts(c) PROVE Held'
  <2>1. CASE Steer(c)
    BY <1>0, <2>1 DEF Steer, Go, TypeOK, Held, NeverDead, Holding, sessVars
  <2>2. CASE Push(c) \/ RunBegins(c) \/ RunEnds(c) \/ Finish(c)
    BY <1>0, <2>2 DEF Push, RunBegins, RunEnds, Finish, Go, Waiting, TypeOK, Held, Holding, sessVars
  <2>. QED BY <1>2, <2>1, <2>2 DEF Prompts
<1>3. ASSUME NEW c \in Calls, Watches(c) PROVE Held'
  BY <1>0, <1>3 DEF Watches, Register, Close, CanLose, Go, TypeOK, Held, Holding
<1>4. ASSUME NEW c \in Calls, Removes(c) PROVE Held'
  BY <1>0, <1>4 DEF Removes, DeleteBegins, ResetBegins, AbortReturns, RemoveDirectory,
     AbortOrDiscard, Discard, Go, TypeOK, Held, NeverDead, Holding, sessVars
<1>5. CASE Sweeps
  BY <1>0, <1>5 DEF Sweeps, Evict, StopBegins, StopEnds, TypeOK, Held, NeverDead, callVars, sessVars
<1>6. CASE UNCHANGED vars
  BY <1>0, <1>6 DEF vars, callVars, sessVars, Held
<1>. QED BY <1>1, <1>2, <1>3, <1>4, <1>5, <1>6, Kinds

LEMMA CreatorsOwnStep == IInv /\ [Next]_vars => CreatorsOwn'
<1> SUFFICES ASSUME IInv, [Next]_vars PROVE CreatorsOwn'
  OBVIOUS
<1>0. TypeOK /\ Held /\ CreatorsOwn /\ NeverDead
  BY DEF IInv
<1>1. ASSUME NEW c \in Calls, Creates(c) PROVE CreatorsOwn'
  <2>1. CASE Open(c)
    <3>1. PICK s \in Sessions :
            /\ life[s] = "unborn" /\ life' = [life EXCEPT ![s] = "live"]
            /\ got' = [got EXCEPT ![c] = s]
      BY <2>1 DEF Open
    <3>2. where' = [where EXCEPT ![c] = "opened"] /\ current' = current /\ where[c] = "opening"
      BY <2>1 DEF Open, Go
    <3>3. s # current /\ \A d \in Calls : where[d] \in Holding => got[d] # s
      BY <1>0, <3>1, Numbering DEF NeverDead, Held
    <3>. QED BY <1>0, <3>1, <3>2, <3>3 DEF TypeOK, CreatorsOwn, Held, Holding
  <2>2. CASE LookupFinds(c) \/ LookupMisses(c) \/ OpenFails(c)
    BY <1>0, <2>2 DEF LookupFinds, LookupMisses, MayBegin, OpenFails, Go, TypeOK, CreatorsOwn, Holding,
       sessVars
  <2>3. CASE Install(c)
    BY <1>0, <2>3 DEF Install, Go, TypeOK, CreatorsOwn, Holding
  <2>. QED BY <1>1, <2>1, <2>2, <2>3 DEF Creates
<1>2. ASSUME NEW c \in Calls, Prompts(c) PROVE CreatorsOwn'
  BY <1>0, <1>2 DEF Prompts, Push, Steer, RunBegins, RunEnds, Finish, Go, Waiting, TypeOK, CreatorsOwn,
     Holding, sessVars
<1>3. ASSUME NEW c \in Calls, Watches(c) PROVE CreatorsOwn'
  BY <1>0, <1>3 DEF Watches, Register, Close, CanLose, Go, TypeOK, CreatorsOwn, Holding
<1>4. ASSUME NEW c \in Calls, Removes(c) PROVE CreatorsOwn'
  <2>1. CASE DeleteBegins(c)
    BY <1>0, <2>1, Numbering DEF DeleteBegins, AbortOrDiscard, Discard, Go, TypeOK, Held, CreatorsOwn, Holding
  <2>2. CASE ResetBegins(c)
    BY <1>0, <2>2, Numbering DEF ResetBegins, AbortOrDiscard, Discard, Go, TypeOK, Held, CreatorsOwn, Holding
  <2>3. CASE AbortReturns(c) \/ RemoveDirectory(c)
    BY <1>0, <2>3, Numbering DEF AbortReturns, RemoveDirectory, Discard, Go, TypeOK, Held, CreatorsOwn, Holding,
       sessVars
  <2>. QED BY <1>4, <2>1, <2>2, <2>3 DEF Removes
<1>5. CASE Sweeps
  BY <1>0, <1>5, Numbering DEF Sweeps, Evict, StopBegins, StopEnds, TypeOK, Held, CreatorsOwn, Holding, callVars,
     sessVars
<1>6. CASE UNCHANGED vars
  BY <1>0, <1>6 DEF vars, callVars, sessVars, CreatorsOwn
<1>. QED BY <1>1, <1>2, <1>3, <1>4, <1>5, <1>6, Kinds

LEMMA AbortsWaitStep == IInv /\ [Next]_vars => AbortsWait'
<1> SUFFICES ASSUME IInv, [Next]_vars PROVE AbortsWait'
  OBVIOUS
<1>0. TypeOK /\ AbortsWait
  BY DEF IInv
<1>1. ASSUME NEW c \in Calls, Creates(c) PROVE AbortsWait'
  <2>1. CASE LookupFinds(c) \/ LookupMisses(c)
    BY <1>0, <2>1 DEF LookupFinds, LookupMisses, MayBegin, Go, TypeOK, AbortsWait
  <2>2. CASE Open(c) \/ OpenFails(c) \/ Install(c)
    BY <1>0, <2>2 DEF Open, OpenFails, Install, Go, TypeOK, AbortsWait
  <2>. QED BY <1>1, <2>1, <2>2 DEF Creates
<1>2. ASSUME NEW c \in Calls, Prompts(c) PROVE AbortsWait'
  <2>1. CASE Finish(c)
    <3>1. \A d \in Calls : \/ where'[d] = where[d]
                           \/ d = c /\ where'[d] = "done"
                           \/ where[d] = "queued" /\ where'[d] = "prompting"
      BY <1>0, <2>1 DEF Finish, Waiting, TypeOK
    <3>. QED BY <1>0, <2>1, <3>1 DEF Finish, AbortsWait
  <2>2. CASE Push(c) \/ Steer(c) \/ RunBegins(c) \/ RunEnds(c)
    BY <1>0, <2>2 DEF Push, Steer, RunBegins, RunEnds, Go, TypeOK, AbortsWait
  <2>. QED BY <1>2, <2>1, <2>2 DEF Prompts
<1>3. ASSUME NEW c \in Calls, Watches(c) PROVE AbortsWait'
  BY <1>0, <1>3 DEF Watches, Register, Close, CanLose, Go, TypeOK, AbortsWait
<1>4. ASSUME NEW c \in Calls, Removes(c) PROVE AbortsWait'
  <2>1. CASE DeleteBegins(c)
    BY <1>0, <2>1 DEF DeleteBegins, AbortOrDiscard, Discard, Waiting, InFlight, Go, TypeOK, AbortsWait
  <2>2. CASE ResetBegins(c)
    <3>0. where[c] \in {"found", "new"} /\ got' = [got EXCEPT ![c] = current]
      BY <2>2 DEF ResetBegins, MayBegin
    <3>1. CASE current = None
      BY <1>0, <2>2, <3>0, <3>1 DEF ResetBegins, Go, TypeOK, AbortsWait
    <3>2. CASE current # None /\ InFlight(current) = {}
      <4>1. /\ where'[c] \in {"removing", "done"} /\ awaits' = awaits
            /\ \A d \in Calls \ {c} : where'[d] = where[d] \/ (where[d] = "queued" /\ where'[d] = "done")
        BY <1>0, <2>2, <3>2 DEF ResetBegins, AbortOrDiscard, Discard, Waiting, TypeOK
      <4>. QED BY <1>0, <3>0, <4>1 DEF TypeOK, AbortsWait
    <3>3. CASE current # None /\ InFlight(current) # {}
      <4>1. PICK d \in InFlight(current) :
              awaits' = [awaits EXCEPT ![c] = IF where[d] = "running" THEN d ELSE None]
        BY <2>2, <3>3 DEF ResetBegins, AbortOrDiscard
      <4>2. where' = [where EXCEPT ![c] = "aborting"] /\ d \in Calls /\ d # c /\ got[d] = current
        BY <2>2, <3>0, <3>3 DEF ResetBegins, AbortOrDiscard, Go, InFlight
      <4>. QED BY <1>0, <3>0, <4>1, <4>2 DEF TypeOK, AbortsWait
    <3>. QED BY <3>1, <3>2, <3>3
  <2>3. CASE AbortReturns(c)
    BY <1>0, <2>3 DEF AbortReturns, Discard, Waiting, TypeOK, AbortsWait
  <2>4. CASE RemoveDirectory(c)
    BY <1>0, <2>4 DEF RemoveDirectory, Go, TypeOK, AbortsWait
  <2>. QED BY <1>4, <2>1, <2>2, <2>3, <2>4 DEF Removes
<1>5. CASE Sweeps
  BY <1>0, <1>5 DEF Sweeps, Evict, StopBegins, StopEnds, callVars, AbortsWait
<1>6. CASE UNCHANGED vars
  BY <1>0, <1>6 DEF vars, callVars, AbortsWait
<1>. QED BY <1>1, <1>2, <1>3, <1>4, <1>5, <1>6, Kinds

LEMMA RemoversStep == IInv /\ [Next]_vars => Removers'
<1> SUFFICES ASSUME IInv, [Next]_vars PROVE Removers'
  OBVIOUS
<1>0. TypeOK /\ Removers
  BY DEF IInv
<1>1. ASSUME NEW c \in Calls, Creates(c) PROVE Removers'
  BY <1>0, <1>1 DEF Creates, LookupFinds, LookupMisses, MayBegin, Open, OpenFails, Install, Go, TypeOK, Removers
<1>2. ASSUME NEW c \in Calls, Prompts(c) PROVE Removers'
  <2>1. CASE Steer(c)
    <3>1. \A d \in Calls : where'[d] \in {"aborting", "removing"} =>
                             where'[d] = where[d] /\ role'[d] = role[d]
      BY <1>0, <2>1 DEF Steer, Go, TypeOK
    <3>. QED BY <1>0, <3>1 DEF Removers
  <2>2. CASE Push(c) \/ RunBegins(c) \/ RunEnds(c) \/ Finish(c)
    BY <1>0, <2>2 DEF Push, RunBegins, RunEnds, Finish, Go, Waiting, TypeOK, Removers
  <2>. QED BY <1>2, <2>1, <2>2 DEF Prompts
<1>3. ASSUME NEW c \in Calls, Watches(c) PROVE Removers'
  BY <1>0, <1>3 DEF Watches, Register, Close, CanLose, Go, TypeOK, Removers
<1>4. ASSUME NEW c \in Calls, Removes(c) PROVE Removers'
  BY <1>0, <1>4 DEF Removes, DeleteBegins, ResetBegins, AbortReturns, RemoveDirectory,
     AbortOrDiscard, Discard, Go, TypeOK, Removers
<1>5. CASE Sweeps
  BY <1>0, <1>5 DEF Sweeps, Evict, StopBegins, StopEnds, callVars, Removers
<1>6. CASE UNCHANGED vars
  BY <1>0, <1>6 DEF vars, callVars, Removers
<1>. QED BY <1>1, <1>2, <1>3, <1>4, <1>5, <1>6, Kinds

LEMMA ListensStep == IInv /\ [Next]_vars => Listens'
<1> SUFFICES ASSUME IInv, [Next]_vars PROVE Listens'
  OBVIOUS
<1>0. TypeOK /\ Held /\ Listens
  BY DEF IInv
<1>1. ASSUME NEW c \in Calls, Creates(c) PROVE Listens'
  BY <1>0, <1>1 DEF Creates, LookupFinds, LookupMisses, MayBegin, Open, OpenFails, Install, Go, TypeOK,
     Listens, sessVars
<1>2. ASSUME NEW c \in Calls, Prompts(c) PROVE Listens'
  <2>1. CASE Finish(c)
    <3>1. \A d \in Calls : where'[d] = "listening" => where[d] = "listening"
      BY <1>0, <2>1 DEF Finish, Waiting, TypeOK
    <3>. QED BY <1>0, <2>1, <3>1 DEF Finish, Listens, sessVars
  <2>2. CASE Push(c) \/ Steer(c) \/ RunBegins(c) \/ RunEnds(c)
    BY <1>0, <2>2 DEF Push, Steer, RunBegins, RunEnds, Go, TypeOK, Listens, sessVars
  <2>. QED BY <1>2, <2>1, <2>2 DEF Prompts
<1>3. ASSUME NEW c \in Calls, Watches(c) PROVE Listens'
  <2>1. CASE where[c] = "found" /\ Register(c)
    BY <1>0, <2>1 DEF Register, Go, TypeOK, Held, Holding, Listens
  <2>2. CASE where[c] = "listening" /\ Close(c)
    <3>1. /\ where' = [where EXCEPT ![c] = "done"] /\ got' = got /\ got[c] \in Sessions
          /\ listeners' = [listeners EXCEPT ![got[c]] = @ \ {c}] /\ left' = left \cup {c}
      BY <1>0, <2>2 DEF Close, Go, Held, Holding
    <3>. QED BY <1>0, <3>1 DEF TypeOK, Listens
  <2>3. CASE where[c] # "listening" /\ Close(c)
    BY <1>0, <2>3 DEF Close, Listens
  <2>. QED BY <1>3, <2>1, <2>2, <2>3 DEF Watches, Register
<1>4. ASSUME NEW c \in Calls, Removes(c) PROVE Listens'
  <2>1. \A d \in Calls : where'[d] = "listening" => where[d] = "listening"
    BY <1>0, <1>4 DEF Removes, DeleteBegins, ResetBegins, AbortReturns, RemoveDirectory,
       AbortOrDiscard, Discard, Go, TypeOK
  <2>2. \A d \in Calls : where[d] = "listening" => got'[d] = got[d]
    BY <1>0, <1>4 DEF Removes, DeleteBegins, ResetBegins, MayBegin, AbortReturns, RemoveDirectory, TypeOK
  <2>3. listeners' = listeners /\ left' = left
    BY <1>4 DEF Removes, DeleteBegins, ResetBegins, AbortReturns, RemoveDirectory, sessVars
  <2>. QED BY <1>0, <2>1, <2>2, <2>3 DEF Listens
<1>5. CASE Sweeps
  BY <1>0, <1>5 DEF Sweeps, Evict, StopBegins, StopEnds, callVars, sessVars, Listens
<1>6. CASE UNCHANGED vars
  BY <1>0, <1>6 DEF vars, callVars, sessVars, Listens
<1>. QED BY <1>1, <1>2, <1>3, <1>4, <1>5, <1>6, Kinds

LEMMA StopStopsStep == IInv /\ [Next]_vars => StopStops'
<1> SUFFICES ASSUME IInv, [Next]_vars PROVE StopStops'
  OBVIOUS
<1>0. TypeOK /\ Held /\ StopStops
  BY DEF IInv
<1>1. ASSUME \A s \in Sessions : life'[s] = "stopped" => life[s] = "stopped", UNCHANGED stopping
      PROVE  StopStops'
  BY <1>0, <1>1 DEF StopStops
<1>2. ASSUME NEW c \in Calls, Creates(c) \/ Prompts(c) \/ Watches(c) PROVE StopStops'
  BY <1>0, <1>1, <1>2 DEF Creates, LookupFinds, LookupMisses, Open, OpenFails, Install, Prompts,
     Push, Steer, RunBegins, RunEnds, Finish, Watches, Register, Close, TypeOK, sessVars
<1>3. ASSUME NEW c \in Calls, Removes(c) PROVE StopStops'
  BY <1>0, <1>1, <1>3 DEF Removes, DeleteBegins, ResetBegins, AbortReturns, RemoveDirectory,
     AbortOrDiscard, Discard, TypeOK, sessVars
<1>4. CASE Sweeps
  BY <1>0, <1>1, <1>4 DEF Sweeps, Evict, StopBegins, StopEnds, TypeOK, StopStops, sessVars
<1>5. CASE UNCHANGED vars
  BY <1>0, <1>5 DEF vars, sessVars, StopStops
<1>. QED BY <1>2, <1>3, <1>4, <1>5, Kinds

-----------------------------------------------------------------------------
(* Nothing that was disposed is in the map or in use.                      *)

LEMMA NeverDeadStep == IInv /\ [Next]_vars => NeverDead'
<1> SUFFICES ASSUME IInv, [Next]_vars PROVE NeverDead'
  OBVIOUS
<1>0. TypeOK /\ Held /\ CreatorsOwn /\ AbortsWait /\ Listens /\ NeverDead
  BY DEF IInv
<1>1. ASSUME NEW c \in Calls, Creates(c) PROVE NeverDead'
  <2>1. CASE LookupFinds(c) \/ LookupMisses(c) \/ OpenFails(c)
    BY <1>0, <2>1 DEF LookupFinds, LookupMisses, MayBegin, OpenFails, Go, TypeOK, NeverDead, sessVars
  <2>2. CASE Open(c) \/ Install(c)
    BY <1>0, <2>2 DEF Open, Install, Go, TypeOK, Held, CreatorsOwn, NeverDead, Holding
  <2>. QED BY <1>1, <2>1, <2>2 DEF Creates
<1>2. ASSUME NEW c \in Calls, Prompts(c) PROVE NeverDead'
  <2>1. CASE Finish(c)
    BY <1>0, <2>1 DEF Finish, Waiting, TypeOK, NeverDead, sessVars
  <2>2. CASE Push(c) \/ Steer(c) \/ RunBegins(c) \/ RunEnds(c)
    BY <1>0, <2>2 DEF Push, Steer, RunBegins, RunEnds, Go, TypeOK, NeverDead, sessVars
  <2>. QED BY <1>2, <2>1, <2>2 DEF Prompts
<1>3. ASSUME NEW c \in Calls, Watches(c) PROVE NeverDead'
  BY <1>0, <1>3 DEF Watches, Register, Close, CanLose, Go, TypeOK, NeverDead
<1>4. ASSUME NEW c \in Calls, Removes(c) PROVE NeverDead'
  <2>1. CASE DeleteBegins(c)
    BY <1>0, <2>1 DEF DeleteBegins, AbortOrDiscard, Discard, Go, TypeOK, Held, Holding, NeverDead
  <2>2. CASE ResetBegins(c)
    BY <1>0, <2>2 DEF ResetBegins, AbortOrDiscard, Discard, Go, TypeOK, Held, Holding, NeverDead
  <2>3. CASE AbortReturns(c) \/ RemoveDirectory(c)
    BY <1>0, <2>3 DEF AbortReturns, RemoveDirectory, Discard, Go, TypeOK, Held, Holding, NeverDead,
       sessVars
  <2>. QED BY <1>4, <2>1, <2>2, <2>3 DEF Removes
<1>5. CASE Sweeps
  <2>1. CASE Evict
    <3>1. ASSUME NEW c \in Calls,
                 where[c] \in {"found", "queued", "prompting", "running", "ended", "listening", "aborting"}
          PROVE  got[c] # current
      <4>1. CASE where[c] = "found"
        BY <2>1, <4>1 DEF Evict, Resuming, Aborted
      <4>2. CASE where[c] \in {"queued", "prompting", "running", "ended"}
        BY <2>1, <4>2 DEF Evict, Idle, Waiting, InFlight
      <4>3. CASE where[c] = "listening"
        BY <1>0, <2>1, <4>3 DEF Evict, Idle, Listens
      <4>4. CASE where[c] = "aborting"
        BY <1>0, <2>1, <4>4 DEF Evict, Idle, Resuming, Aborted, InFlight, AbortsWait
      <4>. QED BY <3>1, <4>1, <4>2, <4>3, <4>4
    <3>. QED BY <1>0, <2>1, <3>1 DEF Evict, TypeOK, Held, Holding, NeverDead, callVars
  <2>2. CASE StopBegins
    BY <1>0, <2>2 DEF StopBegins, NeverDead, callVars, sessVars
  <2>3. CASE StopEnds
    BY <1>0, <2>3, Numbering DEF StopEnds, TypeOK, Held, Holding, NeverDead, callVars
  <2>. QED BY <1>5, <2>1, <2>2, <2>3 DEF Sweeps
<1>6. CASE UNCHANGED vars
  BY <1>0, <1>6 DEF vars, callVars, sessVars, NeverDead
<1>. QED BY <1>1, <1>2, <1>3, <1>4, <1>5, <1>6, Kinds

-----------------------------------------------------------------------------
(* Without overlapping calls.                                              *)

\* What it means for two calls under way that they did not overlap.
LEMMA Apart ==
  ASSUME Alone, ~overlap, NEW c \in Calls, NEW d \in Calls, c # d,
         where[c] \in Between, where[d] \in Between
  PROVE  where[c] \notin {"opening", "opened"} /\ role[c] \notin {"delete", "reset"}
<1>1. ~Overlapping(where)
  BY DEF Alone
<1>. QED BY <1>1 DEF Overlapping

\* The history takes note of every overlap.
LEMMA OverlapNoted ==
  ASSUME IInv, [Next]_vars
  PROVE  (overlap => overlap') /\ (~overlap' => ~Overlapping(where)')
<1>0. TypeOK /\ Alone
  BY DEF IInv
<1>1. ASSUME overlap' = (overlap \/ Overlapping(where')), role' = role
      PROVE  (overlap => overlap') /\ (~overlap' => ~Overlapping(where)')
  <2>1. Overlapping(where)' <=> Overlapping(where')
    BY <1>1 DEF Overlapping
  <2>. QED BY <1>1, <2>1
<1>2. ASSUME UNCHANGED overlap,
             \A c \in Calls : where'[c] \in Between => where'[c] = where[c] /\ role'[c] = role[c]
      PROVE  (overlap => overlap') /\ (~overlap' => ~Overlapping(where)')
  BY <1>0, <1>2 DEF Alone, Overlapping, Between
<1>3. ASSUME NEW c \in Calls, Creates(c)
      PROVE  (overlap => overlap') /\ (~overlap' => ~Overlapping(where)')
  BY <1>1, <1>3 DEF Creates, LookupFinds, LookupMisses, MayBegin, Open, OpenFails, Install, Go
<1>4. ASSUME NEW c \in Calls, Prompts(c)
      PROVE  (overlap => overlap') /\ (~overlap' => ~Overlapping(where)')
  <2>1. CASE Finish(c)
    BY <1>0, <1>2, <2>1 DEF Finish, Waiting, Between, TypeOK
  <2>2. CASE Steer(c) /\ role' # role
    <3>1. /\ role[c] = "steer" /\ role' = [role EXCEPT ![c] = "send"]
          /\ overlap' = (overlap \/ Overlapping(where'))
      BY <2>2 DEF Steer, Go
    <3>2. \A d \in Calls : role'[d] \in {"delete", "reset"} => role[d] \in {"delete", "reset"}
      BY <1>0, <3>1 DEF TypeOK
    <3>3. Overlapping(where)' => Overlapping(where')
      BY <3>2 DEF Overlapping
    <3>. QED BY <3>1, <3>3
  <2>3. CASE Push(c) \/ RunBegins(c) \/ RunEnds(c) \/ (Steer(c) /\ role' = role)
    BY <1>1, <2>3 DEF Push, RunBegins, RunEnds, Steer, Go
  <2>. QED BY <1>4, <2>1, <2>2, <2>3 DEF Prompts
<1>5. ASSUME NEW c \in Calls, Watches(c)
      PROVE  (overlap => overlap') /\ (~overlap' => ~Overlapping(where)')
  BY <1>1, <1>2, <1>5 DEF Watches, Register, Close, CanLose, Go
<1>6. ASSUME NEW c \in Calls, Removes(c)
      PROVE  (overlap => overlap') /\ (~overlap' => ~Overlapping(where)')
  BY <1>1, <1>6 DEF Removes, DeleteBegins, ResetBegins, AbortReturns, RemoveDirectory,
     AbortOrDiscard, Discard, Go
<1>7. CASE Sweeps \/ UNCHANGED vars
  BY <1>2, <1>7 DEF Sweeps, Evict, StopBegins, StopEnds, vars, callVars
<1>. QED BY <1>3, <1>4, <1>5, <1>6, <1>7, Kinds

\* What Alone says of one call.
AloneAt(c) ==
  /\ where[c] \in {"opening", "opened", "removing"} => current = None
  /\ where[c] = "opened" => dir
  /\ where[c] \in {"found", "aborting"} =>
       got[c] = current \/ (current = None /\ life[got[c]] \in {"removed", "stopped"})

\* A session that is discarded without an overlap is the one in the map, or
\* the map is empty already.
LEMMA DiscardsCurrent ==
  ASSUME IInv, ~overlap, NEW c \in Calls, where[c] \in {"found", "aborting"}
  PROVE  current # None => got[c] = current
  BY DEF IInv, Alone

LEMMA AloneStep == IInv /\ [Next]_vars => Alone'
<1> SUFFICES ASSUME IInv, [Next]_vars, ~overlap', NEW e \in Calls PROVE AloneAt(e)'
  BY OverlapNoted DEF Alone, AloneAt
<1>0. /\ TypeOK /\ Held /\ CreatorsOwn /\ AbortsWait /\ Removers /\ NeverDead /\ Alone
      /\ ~overlap /\ AloneAt(e)
  BY OverlapNoted DEF IInv, Alone, AloneAt
<1>1. ASSUME NEW c \in Calls, Creates(c) PROVE AloneAt(e)'
  <2>1. CASE LookupFinds(c)
    BY <1>0, <2>1 DEF LookupFinds, Go, TypeOK, AloneAt, sessVars, diskVars
  <2>2. CASE LookupMisses(c) \/ OpenFails(c)
    BY <1>0, <2>2 DEF LookupMisses, OpenFails, Go, TypeOK, AloneAt, sessVars, diskVars
  <2>3. CASE Open(c)
    BY <1>0, <2>3 DEF Open, Go, TypeOK, Held, Holding, AloneAt
  <2>4. CASE Install(c)
    <3>1. e # c => where[e] \notin Between
      BY <1>0, <2>4, Apart DEF Install, Between
    <3>. QED BY <1>0, <2>4, <3>1 DEF Install, Go, Between, TypeOK, AloneAt, diskVars
  <2>. QED BY <1>1, <2>1, <2>2, <2>3, <2>4 DEF Creates
<1>2. ASSUME NEW c \in Calls, Prompts(c) PROVE AloneAt(e)'
  <2>1. CASE Finish(c)
    BY <1>0, <2>1 DEF Finish, Waiting, TypeOK, AloneAt, sessVars, diskVars
  <2>2. CASE Push(c) \/ Steer(c) \/ RunBegins(c) \/ RunEnds(c)
    BY <1>0, <2>2 DEF Push, Steer, RunBegins, RunEnds, Go, TypeOK, AloneAt, sessVars, diskVars
  <2>. QED BY <1>2, <2>1, <2>2 DEF Prompts
<1>3. ASSUME NEW c \in Calls, Watches(c) PROVE AloneAt(e)'
  BY <1>0, <1>3 DEF Watches, Register, Close, CanLose, Go, TypeOK, AloneAt, diskVars
<1>4. ASSUME NEW c \in Calls, Removes(c) PROVE AloneAt(e)'
  <2>1. ASSUME NEW s \in Sessions, Discard(c, s), UNCHANGED dir,
               e # c /\ where[e] \in {"found", "aborting"} /\ current # None => s = current,
               e # c => got'[e] = got[e], got[e] \in Sessions \/ where[e] \notin Holding
        PROVE  AloneAt(e)'
    <3>1. /\ current' = None /\ life' = [life EXCEPT ![s] = "removed"]
          /\ where'[c] \in {"removing", "done"}
          /\ e # c => where'[e] \in {where[e], "done"}
      BY <1>0, <2>1 DEF Discard, TypeOK
    <3>. QED BY <1>0, <2>1, <3>1 DEF AloneAt, TypeOK, Holding
  <2>2. got[e] \in Sessions \/ where[e] \notin Holding
    BY <1>0 DEF Held
  <2>3. CASE DeleteBegins(c)
    <3>1. e # c => where[e] \notin Between
      BY <1>0, <2>3, Apart DEF DeleteBegins, Between
    <3>2. got[c] \in Sessions /\ UNCHANGED <<got, dir>>
      BY <1>0, <2>3 DEF DeleteBegins, Held, Holding, diskVars
    <3>3. CASE InFlight(got[c]) = {}
      BY <2>1, <2>2, <2>3, <3>1, <3>2, <3>3 DEF DeleteBegins, AbortOrDiscard, Between
    <3>4. CASE InFlight(got[c]) # {}
      BY <1>0, <2>3, <3>2, <3>4 DEF DeleteBegins, AbortOrDiscard, Go, TypeOK, AloneAt
    <3>. QED BY <3>3, <3>4
  <2>4. CASE ResetBegins(c)
    <3>1. where[c] \in {"found", "new"} /\ got' = [got EXCEPT ![c] = current] /\ UNCHANGED dir
      BY <2>4 DEF ResetBegins, MayBegin, diskVars
    <3>2. CASE current = None
      BY <1>0, <2>4, <3>1, <3>2 DEF ResetBegins, Go, TypeOK, AloneAt
    <3>3. CASE current # None /\ InFlight(current) = {}
      <4>1. current \in Sessions /\ Discard(c, current) /\ (e # c => got'[e] = got[e])
        BY <1>0, <2>4, <3>1, <3>3 DEF ResetBegins, AbortOrDiscard, TypeOK
      <4>. QED BY <2>1, <2>2, <3>1, <4>1
    <3>4. CASE current # None /\ InFlight(current) # {}
      BY <1>0, <2>4, <3>1, <3>4 DEF ResetBegins, AbortOrDiscard, Go, TypeOK, AloneAt
    <3>. QED BY <3>2, <3>3, <3>4
  <2>5. CASE AbortReturns(c)
    <3>1. e # c => where[e] \notin Between
      BY <1>0, <2>5, Apart DEF AbortReturns, Removers, Between
    <3>2. got[c] \in Sessions /\ UNCHANGED <<got, dir>> /\ Discard(c, got[c])
      BY <1>0, <2>5 DEF AbortReturns, Held, Holding, diskVars
    <3>. QED BY <2>1, <2>2, <3>1, <3>2 DEF Between
  <2>6. CASE RemoveDirectory(c)
    <3>1. e # c => where[e] \notin Between
      BY <1>0, <2>6, Apart DEF RemoveDirectory, Removers, Between
    <3>. QED BY <1>0, <2>6, <3>1 DEF RemoveDirectory, Go, Between, TypeOK, AloneAt, sessVars
  <2>. QED BY <1>4, <2>3, <2>4, <2>5, <2>6 DEF Removes
<1>5. CASE Sweeps
  <2>1. CASE Evict
    <3>1. where[e] # "found"
      BY <2>1 DEF Evict, Resuming, Aborted
    <3>2. where[e] = "aborting" => got[e] # current
      BY <1>0, <2>1 DEF Evict, Idle, Resuming, Aborted, InFlight, AbortsWait
    <3>. QED BY <1>0, <2>1, <3>1, <3>2 DEF Evict, TypeOK, AloneAt, Held, Holding, callVars, diskVars
  <2>2. CASE StopBegins
    BY <1>0, <2>2 DEF StopBegins, AloneAt, callVars, sessVars, diskVars
  <2>3. CASE StopEnds
    BY <1>0, <2>3, Numbering DEF StopEnds, TypeOK, AloneAt, Held, Holding, callVars, diskVars
  <2>. QED BY <1>5, <2>1, <2>2, <2>3 DEF Sweeps
<1>6. CASE UNCHANGED vars
  BY <1>0, <1>6 DEF vars, callVars, sessVars, diskVars, AloneAt
<1>. QED BY <1>1, <1>2, <1>3, <1>4, <1>5, <1>6, Kinds

\* The session of a call was disposed by a delete, a reset or stop().
GoneAt(c) ==
  \/ life[got[c]] = "removed"
  \/ life[got[c]] = "stopped" /\ stopping = "stopped" /\ where[c] # "listening"

\* A step that leaves the sessions alone, and by which nobody comes to use a
\* session other than the key's or a disposed one.
LEMMA LossKept ==
  ASSUME LossNeedsOverlap, ~overlap, UNCHANGED <<current, life, stopping>>, current # None => dir',
         \A c \in Calls : where[c] = "opened" => where'[c] = "opened" /\ got'[c] = got[c],
         \A c \in Calls : where'[c] \in {"queued", "prompting", "running", "listening"} =>
           /\ got'[c] = got[c]
           /\ \/ where[c] \in {"queued", "prompting", "running", "listening"}
              \/ got[c] = current
              \/ GoneAt(c)
           /\ where'[c] = "listening" => where[c] = "listening" \/ life[got[c]] # "stopped"
  PROVE  LossNeedsOverlap'
<1>1. ASSUME NEW s \in Sessions, life'[s] = "live"
      PROVE  s = current' \/ \E c \in Calls : where'[c] = "opened" /\ got'[c] = s
  BY <1>1 DEF LossNeedsOverlap
<1>2. ASSUME NEW c \in Calls, where'[c] \in {"queued", "prompting", "running", "listening"}
      PROVE  \/ got'[c] = current'
             \/ life'[got'[c]] = "removed"
             \/ life'[got'[c]] = "stopped" /\ stopping' = "stopped" /\ where'[c] # "listening"
  <2>1. got[c] = current \/ GoneAt(c)
    BY <1>2 DEF LossNeedsOverlap, GoneAt
  <2>. QED BY <1>2, <2>1 DEF GoneAt
<1>. QED BY <1>1, <1>2 DEF LossNeedsOverlap

LEMMA LossStep == IInv /\ [Next]_vars => LossNeedsOverlap'
<1> SUFFICES ASSUME IInv, [Next]_vars, ~overlap' PROVE LossNeedsOverlap'
  BY DEF LossNeedsOverlap
<1>0. /\ TypeOK /\ Held /\ CreatorsOwn /\ AbortsWait /\ Removers /\ Listens /\ NeverDead /\ Alone
      /\ LossNeedsOverlap /\ ~overlap /\ StopStops
  BY OverlapNoted DEF IInv
<1>1. ASSUME NEW c \in Calls, Creates(c) PROVE LossNeedsOverlap'
  <2>1. CASE LookupFinds(c) \/ LookupMisses(c) \/ OpenFails(c)
    BY <1>0, <2>1 DEF LookupFinds, LookupMisses, MayBegin, OpenFails, Go, TypeOK, LossNeedsOverlap,
       sessVars, diskVars
  <2>2. CASE Open(c)
    BY <1>0, <2>2 DEF Open, Go, TypeOK, Held, Holding, LossNeedsOverlap
  <2>3. CASE Install(c)
    <3>1. current = None /\ dir /\ current' = got[c] /\ UNCHANGED <<got, life, dir, stopping>>
          /\ where' = [where EXCEPT ![c] = "found"]
      BY <1>0, <2>3 DEF Install, Alone, Go, diskVars
    <3>2. \A d \in Calls : where[d] \in Holding => got[d] \in Sessions
      BY <1>0 DEF Held
    <3>3. \A d \in Calls : where'[d] \in {"queued", "prompting", "running", "listening"} => GoneAt(d)
      BY <1>0, <3>1, <3>2, Numbering DEF TypeOK, LossNeedsOverlap, Holding, GoneAt
    <3>4. \A s \in Sessions : life'[s] = "live" =>
            s = current' \/ \E d \in Calls : where'[d] = "opened" /\ got'[d] = s
      BY <1>0, <3>1, Numbering DEF TypeOK, LossNeedsOverlap
    <3>5. \A d \in Calls : where'[d] = "listening" => where[d] = "listening"
      BY <1>0, <3>1 DEF TypeOK
    <3>. QED BY <3>1, <3>3, <3>4, <3>5 DEF LossNeedsOverlap, GoneAt
  <2>. QED BY <1>1, <2>1, <2>2, <2>3 DEF Creates
<1>2. ASSUME NEW c \in Calls, Prompts(c) PROVE LossNeedsOverlap'
  <2>1. CASE Finish(c)
    <3>1. \A d \in Calls : \/ where'[d] = where[d]
                           \/ where[d] = "ended" /\ where'[d] = "done"
                           \/ where[d] = "queued" /\ where'[d] = "prompting"
      BY <1>0, <2>1 DEF Finish, Waiting, TypeOK
    <3>2. UNCHANGED <<got, current, life, dir, stopping>> /\ (current # None => dir)
      BY <1>0, <2>1 DEF Finish, LossNeedsOverlap, sessVars, diskVars
    <3>. QED BY <1>0, <3>1, <3>2, LossKept
  <2>2. CASE Push(c) \/ Steer(c) \/ RunBegins(c) \/ RunEnds(c)
    <3>1. UNCHANGED <<current, life, dir, stopping>> /\ (current # None => dir)
      BY <1>0, <2>2 DEF Push, Steer, RunBegins, RunEnds, LossNeedsOverlap, sessVars, diskVars
    <3>2. \A d \in Calls : d # c => where'[d] = where[d] /\ got'[d] = got[d]
      BY <1>0, <2>2 DEF Push, Steer, RunBegins, RunEnds, Go, TypeOK
    <3>3. \/ where[c] = "found" /\ where'[c] \in {"queued", "prompting"} /\ got' = got
          \/ where[c] = "found" /\ where'[c] \in {"done", "opening", "found"}
          \/ where[c] \in {"prompting", "running"} /\ where'[c] \in {"running", "ended"} /\ got' = got
      BY <1>0, <2>2 DEF Push, Steer, RunBegins, RunEnds, Go, TypeOK
    <3>4. where[c] = "found" => got[c] = current \/ GoneAt(c)
      BY <1>0 DEF Alone, StopStops, Held, Holding, GoneAt
    <3>. QED BY <1>0, <3>1, <3>2, <3>3, <3>4, LossKept
  <2>. QED BY <1>2, <2>1, <2>2 DEF Prompts
<1>3. ASSUME NEW c \in Calls, Watches(c) PROVE LossNeedsOverlap'
  <2>1. UNCHANGED <<got, current, life, dir, stopping>> /\ (current # None => dir)
    BY <1>0, <1>3 DEF Watches, Register, Close, LossNeedsOverlap, diskVars
  <2>2. \A d \in Calls : \/ where'[d] = where[d]
                         \/ where[d] = "found" /\ d = c /\ where'[d] = "leaked"
                         \/ where[d] = "found" /\ d = c /\ where'[d] = "listening" /\ c \notin left
                         \/ where[d] = "listening" /\ where'[d] = "done"
    BY <1>0, <1>3 DEF Watches, Register, Close, Go, TypeOK
  <2>3. where[c] = "found" => got[c] = current \/ GoneAt(c)
    BY <1>0 DEF Alone, StopStops, Held, Holding, GoneAt
  <2>4. where[c] = "found" /\ c \notin left => life[got[c]] # "stopped"
    BY <1>0 DEF NeverDead
  <2>. QED BY <1>0, <2>1, <2>2, <2>3, <2>4, LossKept
<1>4. ASSUME NEW c \in Calls, Removes(c) PROVE LossNeedsOverlap'
  <2>1. ASSUME NEW s \in Sessions, Discard(c, s), current # None => s = current, where[c] # "opened",
               \A d \in Calls \ {c} : got'[d] = got[d], UNCHANGED stopping
        PROVE  LossNeedsOverlap'
    <3>1. /\ current' = None /\ life' = [life EXCEPT ![s] = "removed"]
          /\ where'[c] \in {"removing", "done"}
          /\ \A d \in Calls \ {c} : where'[d] = where[d] \/ (where[d] = "queued" /\ where'[d] = "done")
      BY <1>0, <2>1 DEF Discard, TypeOK, Waiting
    <3>2. ASSUME NEW t \in Sessions, life'[t] = "live"
          PROVE  \E d \in Calls : where'[d] = "opened" /\ got'[d] = t
      <4>1. t # s /\ life[t] = "live"
        BY <1>0, <3>1, <3>2 DEF TypeOK
      <4>2. t # current
        BY <2>1, <4>1, Numbering
      <4>3. PICK d \in Calls : where[d] = "opened" /\ got[d] = t
        BY <1>0, <4>1, <4>2 DEF LossNeedsOverlap
      <4>. QED BY <2>1, <3>1, <4>3
    <3>3. ASSUME NEW d \in Calls, where'[d] \in {"queued", "prompting", "running", "listening"}
          PROVE  GoneAt(d)'
      <4>1. d # c /\ where[d] = where'[d] /\ got'[d] = got[d]
        BY <2>1, <3>1, <3>3
      <4>2. got[d] \in Sessions /\ (got[d] = current \/ GoneAt(d))
        BY <1>0, <3>3, <4>1 DEF Held, Holding, LossNeedsOverlap, GoneAt
      <4>3. got[d] = s \/ GoneAt(d)
        BY <2>1, <4>2, Numbering
      <4>. QED BY <1>0, <2>1, <3>1, <4>1, <4>2, <4>3 DEF TypeOK, GoneAt
    <3>. QED BY <3>1, <3>2, <3>3 DEF LossNeedsOverlap, GoneAt
  <2>2. CASE DeleteBegins(c)
    <3>1. got[c] \in Sessions /\ UNCHANGED got /\ (current # None => got[c] = current)
      BY <1>0, <2>2, DiscardsCurrent DEF DeleteBegins, Held, Holding
    <3>2. CASE InFlight(got[c]) = {}
      BY <2>1, <2>2, <3>1, <3>2 DEF DeleteBegins, AbortOrDiscard
    <3>3. CASE InFlight(got[c]) # {}
      BY <1>0, <2>2, <3>3 DEF DeleteBegins, AbortOrDiscard, Go, TypeOK, LossNeedsOverlap, diskVars
    <3>. QED BY <3>2, <3>3
  <2>3. CASE ResetBegins(c)
    <3>1. where[c] \in {"found", "new"} /\ got' = [got EXCEPT ![c] = current] /\ UNCHANGED dir
      BY <2>3 DEF ResetBegins, MayBegin, diskVars
    <3>2. CASE current = None
      BY <1>0, <2>3, <3>1, <3>2 DEF ResetBegins, Go, TypeOK, LossNeedsOverlap
    <3>3. CASE current # None /\ InFlight(current) = {}
      <4>1. current \in Sessions /\ Discard(c, current) /\ UNCHANGED stopping
            /\ \A d \in Calls \ {c} : got'[d] = got[d]
        BY <1>0, <2>3, <3>1, <3>3 DEF ResetBegins, AbortOrDiscard, TypeOK
      <4>. QED BY <2>1, <3>1, <4>1
    <3>4. CASE current # None /\ InFlight(current) # {}
      BY <1>0, <2>3, <3>1, <3>4 DEF ResetBegins, AbortOrDiscard, Go, TypeOK, LossNeedsOverlap
    <3>. QED BY <3>2, <3>3, <3>4
  <2>4. CASE AbortReturns(c)
    <3>1. got[c] \in Sessions /\ UNCHANGED got /\ (current # None => got[c] = current)
          /\ where[c] # "opened" /\ Discard(c, got[c]) /\ UNCHANGED stopping
      BY <1>0, <2>4, DiscardsCurrent DEF AbortReturns, Held, Holding
    <3>. QED BY <2>1, <3>1
  <2>5. CASE RemoveDirectory(c)
    <3>1. UNCHANGED <<got, current, life, stopping>> /\ current = None
      BY <1>0, <2>5 DEF RemoveDirectory, Alone, sessVars
    <3>2. \A d \in Calls : where'[d] = where[d] \/ (where[d] = "removing" /\ where'[d] = "done")
      BY <1>0, <2>5 DEF RemoveDirectory, Go, TypeOK
    <3>. QED BY <1>0, <3>1, <3>2, LossKept
  <2>. QED BY <1>4, <2>2, <2>3, <2>4, <2>5 DEF Removes
<1>5. CASE Sweeps
  <2>1. CASE Evict
    <3>1. \A c \in Calls : where[c] \in {"queued", "prompting", "running", "listening"} => got[c] # current
      BY <1>0, <2>1 DEF Evict, Idle, Waiting, InFlight, Listens
    <3>. QED BY <1>0, <2>1, <3>1 DEF Evict, TypeOK, Held, Holding, LossNeedsOverlap, callVars, diskVars
  <2>2. CASE StopBegins
    BY <1>0, <2>2 DEF StopBegins, LossNeedsOverlap, callVars, sessVars, diskVars
  <2>3. CASE StopEnds
    <3>1. \A c \in Calls : where[c] # "listening"
      BY <1>0, <2>3 DEF StopEnds, Listens
    <3>. QED BY <1>0, <2>3, <3>1, Numbering
             DEF StopEnds, TypeOK, Held, Holding, LossNeedsOverlap, callVars, diskVars
  <2>. QED BY <1>5, <2>1, <2>2, <2>3 DEF Sweeps
<1>6. CASE UNCHANGED vars
  BY <1>0, <1>6 DEF vars, callVars, sessVars, diskVars, LossNeedsOverlap
<1>. QED BY <1>1, <1>2, <1>3, <1>4, <1>5, <1>6, Kinds

-----------------------------------------------------------------------------
(* What the gateway promises.                                              *)

LEMMA Invariance == Spec => []IInv
<1>1. Init => IInv
  <2> SUFFICES ASSUME Init PROVE IInv
    OBVIOUS
  <2>1. \A c \in Calls : where[c] = "new"
    BY DEF Init
  <2>2. TypeOK
    BY DEF Init, TypeOK, Places, Files
  <2>3. Held /\ CreatorsOwn /\ AbortsWait /\ Removers /\ Listens /\ StopStops /\ NeverDead
    BY <2>1 DEF Init, Held, CreatorsOwn, AbortsWait, Removers, Listens, StopStops, NeverDead, Holding
  <2>4. Alone
    BY <2>1 DEF Alone, Overlapping, Between
  <2>5. LossNeedsOverlap
    BY <2>1 DEF Init, LossNeedsOverlap
  <2>. QED BY <2>2, <2>3, <2>4, <2>5 DEF IInv
<1>2. IInv /\ [Next]_vars => IInv'
  BY TypeStep, HeldStep, CreatorsOwnStep, AbortsWaitStep, RemoversStep, ListensStep, StopStopsStep,
     NeverDeadStep, AloneStep, LossStep DEF IInv
<1>. QED BY <1>1, <1>2, PTL DEF Spec

\* Every variable keeps its type, in every behaviour.
THEOREM TypeCorrect == Spec => []TypeOK
  BY Invariance, PTL DEF IInv

\* Whatever overlaps, the map never holds a disposed session, the sweep takes
\* none from under a call that uses it, and stop() only from under calls that
\* have no connection (ensureSession, evictIdleSessions, handleDeleteSession,
\* resetSession, stop).
THEOREM MapHoldsTheLiving == Spec => []NeverDead
  BY Invariance, PTL DEF IInv

\* Without overlapping calls the key has one session, in the map and with its
\* directory, and a call uses that one, or one that a delete or a reset removed
\* or stop() disposed.
THEOREM NothingLostAlone == Spec => []LossNeedsOverlap
  BY Invariance, PTL DEF IInv

=============================================================================
