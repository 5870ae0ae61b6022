--------------------------- MODULE TeamTasks_proofs ---------------------------
(***************************************************************************)
(* Proofs about TeamTasks, for every set of processes and owners and every *)
(* number of tasks and calls: the two kinds of lock keep writers apart,    *)
(* and the files are a TaskBoard; of a task whose lock was removed under a *)
(* process nothing is said.                                                *)
(***************************************************************************)
EXTENDS TeamTasks, WellFoundedInduction, TLAPS

-----------------------------------------------------------------------------
(* What getTaskId relies on: the largest of the ids there are.             *)

LEMMA LeastOfNats ==
  ASSUME NEW T, T \subseteq Nat, T # {}
  PROVE  \E x \in T : \A y \in T : x <= y
<1>1. \E x \in T : \A y \in T : <<y, x>> \notin OpToRel(<, Nat)
  BY NatLessThanWellFounded, WFMin
<1>2. \A x, y \in Nat : <<y, x>> \in OpToRel(<, Nat) <=> y < x
  BY DEF OpToRel
<1>3. \E x \in T : \A y \in T : ~ (y < x)
  BY <1>1, <1>2, Zenon
<1>. QED BY <1>3

LEMMA MaxOfIds ==
  ASSUME NEW S, S \subseteq Ids, S # {}
  PROVE  Max(S) \in S /\ \A y \in S : y <= Max(S)
<1> DEFINE T == {MaxId - x : x \in S}
<1>0. MaxId \in Nat /\ S \subseteq 1..MaxId
  BY ConstantsOK DEF Ids
<1>1. T \subseteq Nat
  <2>1. \A x \in S : MaxId - x \in Nat
    BY <1>0
  <2>. QED BY <2>1
<1>2. T # {}
  OBVIOUS
<1>3. PICK m \in T : \A y \in T : m <= y
  BY <1>1, <1>2, LeastOfNats
<1>4. PICK x \in S : m = MaxId - x
  BY <1>3
<1>5. \A y \in S : m <= MaxId - y
  BY <1>3
<1>6. \A y \in S : x >= y
  BY <1>0, <1>4, <1>5
<1>. QED BY <1>0, <1>6 DEF Max

\* The id of a new task has no file, nor one that is being written.
LEMMA NextIdIsFree == NextId \in Ids => NextId \notin Present
<1>1. Present \subseteq Ids
  BY DEF Present
<1>2. CASE Present = {}
  BY <1>2
<1>3. CASE Present # {}
  <2>1. Max(Present) \in Int /\ \A y \in Present : y <= Max(Present)
    <3>1. Ids \subseteq Int
      BY ConstantsOK DEF Ids
    <3>. QED BY <1>1, <1>3, <3>1, MaxOfIds
  <2>. QED BY <1>3, <2>1 DEF NextId
<1>. QED BY <1>2, <1>3

-----------------------------------------------------------------------------
(* Calls and tasks.                                                        *)

Ops == {"create", "list", "delete", "submit", "approve", "reject", "read", "update"}

LEMMA CallTyped ==
  ASSUME NEW c \in Calls
  PROVE  /\ c.op \in Ops
         /\ c.op \in {"create", "list"} => c.lock = Dir
         /\ c.op \notin {"create", "list"} => c.lock \in Ids
         /\ c.op = "update" => c.status \in Statuses \cup {None} /\ c.owner \in Owners \cup {None}
         /\ LockOf(c) \in Ids \cup {Dir}
  BY DEF Calls, Ops, LockOf

LEMMA ChangedTyped ==
  ASSUME NEW c \in Calls, NEW t \in Tasks
  PROVE  Changed(c, t) \in Tasks
<1>1. c.op = "update" => c.status \in AnyStatus /\ c.owner \in Owners \cup {None}
  BY CallTyped, ConstantsOK DEF AnyStatus
<1>. QED BY <1>1 DEF Changed, Tasks, AnyStatus

LEMMA FreshTyped == Fresh \in Tasks
  BY DEF Fresh, Tasks, AnyStatus

\* 0 is no id: the directory's lock is not a task's.
LEMMA DirIsNoId == Dir \notin Ids
  BY DEF Dir, Ids

-----------------------------------------------------------------------------
(* The inductive invariant.                                                *)

Holding == {"work", "scan", "open", "write", "hook", "release"}

\* Who is past GetLock has the lock of its call, unless it was taken away.
LocksHeld ==
  \A p \in Processes :
    pc[p] \in Holding /\ LockOf(call[p]) \notin lost => holder[LockOf(call[p])] = p

\* Who has a lock is past GetLock with a call that asked for it; who is about to
\* remove one waits for the lock of a task.
HoldersWork ==
  /\ \A l \in Ids \cup {Dir} :
       holder[l] # None => pc[holder[l]] \in Holding /\ LockOf(call[holder[l]]) = l
  /\ \A p \in Processes : pc[p] = "stale" => LockOf(call[p]) \in Ids

\* What a process works on, and for which calls it gets where.
Places ==
  \A p \in Processes :
    /\ pc[p] = "work" => at[p] = call[p].lock
    /\ pc[p] \in Writing =>
         /\ at[p] \in Ids /\ copy[p] \in Tasks
         /\ call[p].op \notin {"list", "read"}
         /\ call[p].op # "create" => at[p] = call[p].lock
    /\ pc[p] = "hook" => call[p].op = "update"

\* The task a process is about to write is new and has no file, or has a file
\* that is still as the process read it.  Here and below: but for the tasks that
\* lost their lock.
ReadStands ==
  \A p \in Processes :
    pc[p] = "open" /\ at[p] \notin lost =>
      IF call[p].op = "create"
      THEN at[p] \notin Present /\ copy[p] = Fresh
      ELSE /\ file[at[p]] # None /\ Allowed(call[p], file[at[p]])
           /\ copy[p] = Changed(call[p], file[at[p]])

\* A truncated file is being written by a process, and every other writer's
\* file is truncated.
TornIsWritten ==
  /\ \A i \in torn \ lost :
       file[i] = None /\ \E p \in Processes : pc[p] = "write" /\ at[p] = i
  /\ \A p \in Processes : pc[p] = "write" /\ at[p] \notin lost => at[p] \in torn

IInv ==
  TypeOK /\ LocksHeld /\ HoldersWork /\ Places /\ ReadStands /\ TornIsWritten /\ OneWriter /\ HookSeesStored

\* Type correctness.
LEMMA TypeStep == TypeOK /\ HoldersWork /\ Places /\ [Next]_vars => TypeOK'
<1> SUFFICES ASSUME TypeOK, HoldersWork, Places, [Next]_vars PROVE TypeOK'
  OBVIOUS
<1> USE DEF TypeOK, Goto, fileVars, workVars
<1>1. ASSUME NEW p \in Processes, Begin(p) PROVE TypeOK'
  BY <1>1, ConstantsOK DEF Begin
<1>2. ASSUME NEW p \in Processes, GetLock(p) PROVE TypeOK'
  <2>1. call[p].lock \in Ids \cup {Dir} /\ LockOf(call[p]) \in Ids \cup {Dir}
    BY CallTyped
  <2>. QED BY <1>2, <2>1 DEF GetLock
<1>3. ASSUME NEW p \in Processes, GiveUp(p) PROVE TypeOK'
  BY <1>3 DEF GiveUp
<1>4. ASSUME NEW p \in Processes, Release(p) PROVE TypeOK'
  BY <1>4 DEF Release
<1>5. ASSUME NEW p \in Processes, Create(p) PROVE TypeOK'
  BY <1>5, FreshTyped DEF Create
<1>6. ASSUME NEW p \in Processes, List(p) PROVE TypeOK'
  BY <1>6 DEF List, Present
<1>7. ASSUME NEW p \in Processes, Scan(p) PROVE TypeOK'
  BY <1>7 DEF Scan
<1>8. ASSUME NEW p \in Processes, Parse(p) PROVE TypeOK'
  <2>1. at[p] \in Ids
    BY <1>8, CallTyped DEF Parse, Places
  <2>. QED BY <1>8, <2>1, ChangedTyped DEF Parse
<1>9. ASSUME NEW p \in Processes, Open(p) PROVE TypeOK'
  BY <1>9 DEF Open, Places, Writing
<1>10. ASSUME NEW p \in Processes, Write(p) PROVE TypeOK'
  BY <1>10 DEF Write, WriteFile, Places, Writing
<1>11. ASSUME NEW p \in Processes, Hook(p) \/ FindStale(p) PROVE TypeOK'
  BY <1>11 DEF Hook, FindStale
<1>12. ASSUME NEW p \in Processes, RemoveStale(p) PROVE TypeOK'
  <2>1. LockOf(call[p]) \in Ids
    BY <1>12 DEF RemoveStale, HoldersWork
  <2>. QED BY <1>12, <2>1 DEF RemoveStale
<1>13. CASE UNCHANGED vars
  BY <1>13 DEF vars
<1>. QED
  BY <1>1, <1>2, <1>3, <1>4, <1>5, <1>6, <1>7, <1>8, <1>9, <1>10, <1>11, <1>12, <1>13
     DEF Next, Step

-----------------------------------------------------------------------------
(* The locks, and what is worked on under them.                            *)

LEMMA LocksStep ==
  TypeOK /\ LocksHeld /\ HoldersWork /\ Places /\ [Next]_vars => LocksHeld' /\ HoldersWork'
<1> SUFFICES ASSUME TypeOK, LocksHeld, HoldersWork, Places, [Next]_vars
             PROVE  LocksHeld' /\ HoldersWork'
  OBVIOUS
<1> USE DEF LocksHeld, HoldersWork, Holding, TypeOK, Goto
<1>0. \A p \in Processes : LockOf(call[p]) \in Ids \cup {Dir} /\ p # None
  BY CallTyped, ConstantsOK
<1>1. ASSUME NEW p \in Processes, Begin(p) PROVE LocksHeld' /\ HoldersWork'
  <2>1. /\ pc[p] = "idle" /\ UNCHANGED <<holder, lost>>
        /\ pc' = [pc EXCEPT ![p] = "lock"]
        /\ \A q \in Processes \ {p} : call'[q] = call[q]
    BY <1>1 DEF Begin
  <2>2. \A l \in Ids \cup {Dir} : holder[l] # p
    BY <1>0, <2>1
  <2>. QED BY <2>1, <2>2 DEF LockOf
<1>2. ASSUME NEW p \in Processes, GetLock(p) PROVE LocksHeld' /\ HoldersWork'
  <2>1. /\ pc[p] = "lock" /\ holder[LockOf(call[p])] = None /\ UNCHANGED <<call, lost>>
        /\ holder' = [holder EXCEPT ![LockOf(call[p])] = p]
        /\ pc' = [pc EXCEPT ![p] = "work"]
    BY <1>2 DEF GetLock
  <2>2. \A l \in Ids \cup {Dir} : holder[l] # p
    BY <1>0, <2>1
  <2>3. LocksHeld'
    BY <1>0, <2>1 DEF LockOf
  <2>4. HoldersWork'
    BY <1>0, <2>1, <2>2 DEF LockOf
  <2>. QED BY <2>3, <2>4
<1>3. ASSUME NEW p \in Processes, GiveUp(p) PROVE LocksHeld' /\ HoldersWork'
  BY <1>0, <1>3 DEF GiveUp, LockOf
<1>4. ASSUME NEW p \in Processes, Release(p) PROVE LocksHeld' /\ HoldersWork'
  <2>1. /\ pc[p] = "release" /\ UNCHANGED <<call, lost>>
        /\ holder' = [holder EXCEPT ![LockOf(call[p])] = None]
        /\ pc' = [pc EXCEPT ![p] = "idle"]
    BY <1>4 DEF Release
  <2>2. LocksHeld'
    BY <1>0, <2>1 DEF LockOf
  <2>3. HoldersWork'
    BY <1>0, <2>1 DEF LockOf
  <2>. QED BY <2>2, <2>3
<1>5. ASSUME NEW p \in Processes, FindStale(p) PROVE LocksHeld' /\ HoldersWork'
  <2>1. /\ pc[p] = "lock" /\ UNCHANGED <<holder, call, lost>>
        /\ holder[LockOf(call[p])] \in {q \in Processes : pc[q] = "hook"}
        /\ pc' = [pc EXCEPT ![p] = "stale"]
    BY <1>5 DEF FindStale
  <2>2. LocksHeld'
    BY <2>1 DEF LockOf
  <2>3. \A l \in Ids \cup {Dir} : holder[l] # p
    BY <1>0, <2>1
  <2>4. LockOf(call[p]) \in Ids
    <3>1. PICK q \in Processes : q = holder[LockOf(call[p])] /\ pc[q] = "hook"
      BY <2>1
    <3>2. LockOf(call[q]) = LockOf(call[p])
      BY <1>0, <3>1
    <3>3. call[q].op = "update"
      BY <3>1 DEF Places
    <3>. QED BY <3>2, <3>3, CallTyped DEF LockOf
  <2>. QED BY <2>1, <2>2, <2>3, <2>4 DEF LockOf
<1>6. ASSUME NEW p \in Processes, RemoveStale(p) PROVE LocksHeld' /\ HoldersWork'
  <2>1. /\ pc[p] = "stale" /\ UNCHANGED call
        /\ holder' = [holder EXCEPT ![LockOf(call[p])] = None]
        /\ lost' = IF holder[LockOf(call[p])] = None THEN lost ELSE lost \cup {LockOf(call[p])}
        /\ pc' = [pc EXCEPT ![p] = "lock"]
    BY <1>6 DEF RemoveStale
  <2>2. LocksHeld'
    BY <1>0, <2>1 DEF LockOf
  <2>3. HoldersWork'
    BY <1>0, <2>1 DEF LockOf
  <2>. QED BY <2>2, <2>3
<1>7. ASSUME NEW p \in Processes,
             Create(p) \/ List(p) \/ Scan(p) \/ Parse(p) \/ Open(p) \/ Write(p) \/ Hook(p)
      PROVE  LocksHeld' /\ HoldersWork'
  <2>1. /\ UNCHANGED <<holder, call, lost>> /\ pc[p] \in Holding
        /\ pc' = [pc EXCEPT ![p] = pc'[p]] /\ pc'[p] \in Holding
    BY <1>7 DEF Create, List, Scan, Parse, Open, Write, Hook
  <2>2. LocksHeld'
    BY <2>1 DEF LockOf
  <2>3. HoldersWork'
    BY <2>1 DEF LockOf
  <2>. QED BY <2>2, <2>3
<1>8. CASE UNCHANGED vars
  BY <1>8 DEF vars, LockOf
<1>. QED
  BY <1>1, <1>2, <1>3, <1>4, <1>5, <1>6, <1>7, <1>8 DEF Next, Step

LEMMA PlacesStep == TypeOK /\ Places /\ [Next]_vars => Places'
<1> SUFFICES ASSUME TypeOK, Places, [Next]_vars PROVE Places'
  OBVIOUS
<1> USE DEF Places, Writing, TypeOK, Goto, workVars, fileVars
<1>1. ASSUME NEW p \in Processes,
             Begin(p) \/ GetLock(p) \/ GiveUp(p) \/ Release(p) \/ FindStale(p) \/ RemoveStale(p)
      PROVE  Places'
  BY <1>1 DEF Begin, GetLock, GiveUp, Release, FindStale, RemoveStale
<1>2. ASSUME NEW p \in Processes, Create(p) PROVE Places'
  BY <1>2, FreshTyped DEF Create
<1>3. ASSUME NEW p \in Processes, List(p) \/ Scan(p) PROVE Places'
  BY <1>3 DEF List, Scan
<1>4. ASSUME NEW p \in Processes, Parse(p) PROVE Places'
  <2>1. at[p] = call[p].lock /\ at[p] \in Ids /\ call[p].op \notin {"create", "list"}
    BY <1>4, CallTyped DEF Parse
  <2>2. CASE pc' = [pc EXCEPT ![p] = "release"] /\ UNCHANGED copy
    BY <1>4, <2>2 DEF Parse
  <2>3. CASE /\ file[at[p]] # None /\ Allowed(call[p], file[at[p]])
             /\ pc' = [pc EXCEPT ![p] = "open"]
             /\ copy' = [copy EXCEPT ![p] = Changed(call[p], file[at[p]])]
    <3>1. Changed(call[p], file[at[p]]) \in Tasks
      BY <2>1, <2>3, ChangedTyped
    <3>2. call[p].op # "read"
      BY <2>3 DEF Allowed
    <3>. QED BY <1>4, <2>1, <2>3, <3>1, <3>2 DEF Parse
  <2>. QED BY <1>4, <2>2, <2>3 DEF Parse
<1>5. ASSUME NEW p \in Processes, Open(p) \/ Write(p) \/ Hook(p) PROVE Places'
  BY <1>5 DEF Open, Write, Hook
<1>6. CASE UNCHANGED vars
  BY <1>6 DEF vars
<1>. QED
  BY <1>1, <1>2, <1>3, <1>4, <1>5, <1>6 DEF Next, Step

-----------------------------------------------------------------------------
(* Writers and files.                                                      *)

\* Only the file of a task that is being created is not there.
LEMMA WriterPresent ==
  ASSUME IInv, NEW p \in Processes, pc[p] \in Writing,
         at[p] \notin lost, pc[p] = "open" => call[p].op # "create"
  PROVE  at[p] \in Present
  BY NoneIsNoTask DEF IInv, Places, Writing, ReadStands, TornIsWritten, HookSeesStored, Present

Files == ReadStands /\ TornIsWritten /\ OneWriter /\ HookSeesStored

\* A step that touches no file and neither begins nor ends a writer.
LEMMA FilesKept ==
  ASSUME IInv, NEW p \in Processes, UNCHANGED fileVars, lost \subseteq lost',
         pc[p] \notin {"open", "write"}, pc'[p] \notin Writing,
         \A q \in Processes \ {p} :
           pc'[q] = pc[q] /\ call'[q] = call[q] /\ at'[q] = at[q] /\ copy'[q] = copy[q]
  PROVE  Files'
<1> USE DEF IInv, Files, Writing, fileVars
<1>1. ReadStands'
  BY DEF ReadStands, Present
<1>2. TornIsWritten'
  BY DEF TornIsWritten
<1>3. OneWriter'
  BY DEF OneWriter
<1>4. HookSeesStored'
  BY DEF HookSeesStored
<1>. QED BY <1>1, <1>2, <1>3, <1>4

\* Without another writer the file becomes what was to be written; with one, only
\* the file of a task that lost its lock is touched.
WriteIsExact(p) ==
  /\ torn' \subseteq Ids
  /\ \A i \in Ids \ {at[p]} : file'[i] = file[i] /\ (i \in torn' <=> i \in torn)
  /\ at[p] \notin lost => file'[at[p]] = copy[p] /\ at[p] \notin torn'

LEMMA WriteExact ==
  ASSUME IInv, NEW p \in Processes, Write(p)
  PROVE  WriteIsExact(p)
<1>1. pc[p] = "write" /\ at[p] \in Ids /\ torn \subseteq Ids /\ file \in [Ids -> Tasks \cup {None}]
  BY DEF Write, IInv, Places, Writing, TypeOK
<1>2. at[p] \notin lost => ~Raced(p)
  BY <1>1 DEF Raced, IInv, TornIsWritten, OneWriter, Writing
<1>. QED BY <1>1, <1>2 DEF Write, WriteFile, WriteIsExact, fileVars

LEMMA FilesStep == IInv /\ [Next]_vars => Files'
<1> SUFFICES ASSUME IInv, [Next]_vars PROVE Files'
  OBVIOUS
<1>0. TypeOK /\ LocksHeld /\ Places /\ Files
  BY DEF IInv, Files
<1>1. ASSUME NEW p \in Processes,
             \/ Begin(p) \/ GetLock(p) \/ GiveUp(p) \/ FindStale(p) \/ RemoveStale(p) \/ Release(p)
             \/ List(p) \/ Scan(p) \/ Hook(p)
      PROVE  Files'
  <2>1. /\ UNCHANGED fileVars /\ lost \subseteq lost' /\ pc[p] \notin {"open", "write"} /\ pc'[p] \notin Writing
        /\ \A q \in Processes \ {p} :
             pc'[q] = pc[q] /\ call'[q] = call[q] /\ at'[q] = at[q] /\ copy'[q] = copy[q]
    BY <1>0, <1>1 DEF TypeOK, Begin, GetLock, GiveUp, FindStale, RemoveStale, Release, List,
                      Scan, Hook, Goto, Writing, workVars
  <2>. QED BY <2>1, FilesKept
<1>2. ASSUME NEW p \in Processes, Create(p), NextId \in Ids PROVE Files'
  <2>1. /\ UNCHANGED <<file, torn, call, lost>> /\ pc[p] = "work" /\ call[p].op = "create"
        /\ pc' = [pc EXCEPT ![p] = "open"]
        /\ at' = [at EXCEPT ![p] = NextId]
        /\ copy' = [copy EXCEPT ![p] = Fresh]
    BY <1>2 DEF Create, Goto, fileVars
  <2>2. NextId \notin Present
    BY <1>2, NextIdIsFree
  <2>3. ASSUME NEW q \in Processes, pc[q] \in Writing
        PROVE  q # p /\ (at[q] \notin lost => at[q] # NextId)
    <3>1. q # p
      BY <2>1, <2>3 DEF Writing
    <3>2. CASE pc[q] = "open" /\ call[q].op = "create"
      <4>1. LockOf(call[p]) = Dir /\ LockOf(call[q]) = Dir
        BY <1>0, <2>1, <3>2, CallTyped DEF TypeOK, LockOf
      <4>2. Dir \notin lost
        BY <1>0, DirIsNoId DEF TypeOK
      <4>. QED BY <1>0, <2>1, <3>1, <3>2, <4>1, <4>2 DEF LocksHeld, Holding
    <3>3. CASE ~(pc[q] = "open" /\ call[q].op = "create")
      BY <2>2, <2>3, <3>1, <3>3, WriterPresent
    <3>. QED BY <3>2, <3>3
  <2> USE <1>0 DEF TypeOK, Files
  <2>4. ReadStands'
    BY <2>1, <2>2, <2>3 DEF ReadStands, Present
  <2>5. TornIsWritten'
    BY <2>1 DEF TornIsWritten
  <2>6. OneWriter'
    BY <2>1, <2>3 DEF OneWriter, Writing
  <2>7. HookSeesStored'
    BY <2>1 DEF HookSeesStored
  <2>. QED BY <2>4, <2>5, <2>6, <2>7
<1>3. ASSUME NEW p \in Processes, Create(p), NextId \notin Ids PROVE Files'
  <2>1. /\ UNCHANGED fileVars /\ lost \subseteq lost' /\ pc[p] \notin {"open", "write"} /\ pc'[p] \notin Writing
        /\ \A q \in Processes \ {p} :
             pc'[q] = pc[q] /\ call'[q] = call[q] /\ at'[q] = at[q] /\ copy'[q] = copy[q]
    BY <1>0, <1>3 DEF TypeOK, Create, Goto, Writing
  <2>. QED BY <2>1, FilesKept
<1>4. ASSUME NEW p \in Processes, Parse(p) PROVE Files'
  <2>1. CASE pc' = [pc EXCEPT ![p] = "release"] /\ UNCHANGED copy
    <3>1. /\ UNCHANGED fileVars /\ lost \subseteq lost' /\ pc[p] \notin {"open", "write"} /\ pc'[p] \notin Writing
          /\ \A q \in Processes \ {p} :
               pc'[q] = pc[q] /\ call'[q] = call[q] /\ at'[q] = at[q] /\ copy'[q] = copy[q]
      BY <1>0, <1>4, <2>1 DEF TypeOK, Parse, Writing
    <3>. QED BY <3>1, FilesKept
  <2>2. CASE /\ file[at[p]] # None /\ Allowed(call[p], file[at[p]])
             /\ pc' = [pc EXCEPT ![p] = "open"]
             /\ copy' = [copy EXCEPT ![p] = Changed(call[p], file[at[p]])]
    <3>1. /\ UNCHANGED <<file, torn, call, at, lost>>
          /\ pc[p] = "work" /\ call[p].op \notin {"create", "list"} /\ at[p] = call[p].lock
      BY <1>0, <1>4 DEF Parse, Places, fileVars
    <3>2. ASSUME NEW q \in Processes, pc[q] \in Writing
          PROVE  q # p /\ (at[p] \notin lost => at[q] # at[p])
      <4>1. q # p
        BY <3>1, <3>2 DEF Writing
      <4>2. CASE call[q].op = "create"
        BY <1>0, <2>2, <3>2, <4>1, <4>2
           DEF Files, ReadStands, TornIsWritten, Places, Writing, Present
      <4>3. CASE call[q].op # "create"
        BY <1>0, <3>1, <3>2, <4>1, <4>3 DEF LocksHeld, Holding, Places, Writing, LockOf
      <4>. QED BY <4>1, <4>2, <4>3
    <3> USE <1>0 DEF TypeOK, Files
    <3>3. ReadStands'
      BY <2>2, <3>1 DEF ReadStands, Present
    <3>4. TornIsWritten'
      BY <2>2, <3>1 DEF TornIsWritten
    <3>5. OneWriter'
      BY <2>2, <3>1, <3>2 DEF OneWriter, Writing
    <3>6. HookSeesStored'
      BY <2>2, <3>1 DEF HookSeesStored
    <3>. QED BY <3>3, <3>4, <3>5, <3>6
  <2>. QED BY <1>4, <2>1, <2>2 DEF Parse, Goto
<1>5. ASSUME NEW p \in Processes, Open(p) PROVE Files'
  <2>1. /\ pc[p] = "open" /\ UNCHANGED <<call, at, copy, lost>>
        /\ file' = [file EXCEPT ![at[p]] = None]
        /\ \/ pc' = [pc EXCEPT ![p] = "release"] /\ torn' = torn \ {at[p]}
           \/ pc' = [pc EXCEPT ![p] = "write"] /\ torn' = torn \cup {at[p]}
    BY <1>5 DEF Open, Goto, workVars
  <2>2. at[p] \in Ids /\ (at[p] \in torn => at[p] \in lost)
    BY <1>0, <2>1 DEF Files, ReadStands, TornIsWritten, Places, Writing, Present
  <2>3. \A q \in Processes \ {p} : pc[q] \in Writing /\ at[q] \notin lost => at[q] # at[p]
    BY <1>0, <2>1 DEF Files, OneWriter, Writing
  <2> USE <1>0 DEF TypeOK, Files
  <2>4. ReadStands'
    BY <2>1, <2>2, <2>3 DEF ReadStands, Present, Writing, Places
  <2>5. TornIsWritten'
    <3>1. ASSUME NEW i \in torn', i \notin lost
          PROVE  file'[i] = None /\ \E q \in Processes : pc'[q] = "write" /\ at'[q] = i
      BY <2>1, <2>2, <3>1 DEF TornIsWritten
    <3>2. ASSUME NEW q \in Processes, pc'[q] = "write", at[q] \notin lost
          PROVE  at[q] \in torn'
      BY <2>1, <2>3, <3>2 DEF TornIsWritten, Writing
    <3>3. /\ \A i \in torn' \ lost' :
               file'[i] = None /\ \E q \in Processes : pc'[q] = "write" /\ at'[q] = i
          /\ \A q \in Processes : pc'[q] = "write" /\ at'[q] \notin lost' => at'[q] \in torn'
      BY <2>1, <3>1, <3>2
    <3>. QED BY <3>3 DEF TornIsWritten
  <2>6. OneWriter'
    BY <2>1 DEF OneWriter, Writing
  <2>7. HookSeesStored'
    BY <2>1, <2>3 DEF HookSeesStored, Writing, Places
  <2>. QED BY <2>4, <2>5, <2>6, <2>7
<1>6. ASSUME NEW p \in Processes, Write(p) PROVE Files'
  <2>1. /\ pc[p] = "write" /\ UNCHANGED <<call, at, copy, lost>>
        /\ WriteIsExact(p)
        /\ pc'[p] \in {"hook", "release"}
        /\ \A q \in Processes \ {p} : pc'[q] = pc[q]
    BY <1>0, <1>6, WriteExact DEF Write, Goto, workVars, TypeOK
  <2>2. at[p] \in Ids
    BY <1>0, <2>1 DEF Places, Writing
  <2>3. \A q \in Processes \ {p} : pc[q] \in Writing /\ at[q] \notin lost => at[q] # at[p]
    BY <1>0, <2>1 DEF Files, OneWriter, Writing
  <2> USE <1>0 DEF TypeOK, Files
  <2>4. ReadStands'
    BY <2>1, <2>2, <2>3 DEF ReadStands, Present, Writing, Places, WriteIsExact
  <2>5. TornIsWritten'
    BY <2>1, <2>2, <2>3 DEF TornIsWritten, Writing, WriteIsExact
  <2>6. OneWriter'
    BY <2>1 DEF OneWriter, Writing
  <2>7. HookSeesStored'
    BY <2>1, <2>2, <2>3 DEF HookSeesStored, Writing, Places, WriteIsExact
  <2>. QED BY <2>4, <2>5, <2>6, <2>7
<1>7. CASE UNCHANGED vars
  BY <1>0, <1>7 DEF vars, fileVars, workVars, Files, ReadStands, TornIsWritten, OneWriter,
                    HookSeesStored, Present
<1>. QED
  BY <1>1, <1>2, <1>3, <1>4, <1>5, <1>6, <1>7 DEF Next, Step

LEMMA Invariance == Spec => []IInv
<1>1. Init => IInv
  <2> SUFFICES ASSUME Init PROVE IInv
    OBVIOUS
  <2>1. [op |-> "list", lock |-> Dir] \in Calls
    BY DEF Calls
  <2>2. TypeOK
    BY <2>1, ConstantsOK DEF Init, TypeOK
  <2>. QED BY <2>2 DEF Init, IInv, LocksHeld, HoldersWork, Places, ReadStands, TornIsWritten, OneWriter,
                       HookSeesStored, Holding, Writing
<1>2. IInv /\ [Next]_vars => IInv'
  BY TypeStep, LocksStep, PlacesStep, FilesStep DEF IInv, Files
<1>. QED BY <1>1, <1>2, PTL DEF Spec

-----------------------------------------------------------------------------
(* What the locks are for.                                                 *)

\* Every variable keeps its type, in every behaviour.
THEOREM TypeCorrect == Spec => []TypeOK
  BY Invariance, PTL DEF IInv

\* The lock of the directory and those of the tasks together leave at most one
\* process that writes a task, creations included, unless the task's lock was
\* removed while a script ran under it for too long.
THEOREM WritersExclude == Spec => []OneWriter
  BY Invariance, PTL DEF IInv

\* While the script task_completed runs, however long, the task is as it was
\* told, until a waiter removes the lock.
THEOREM HookIsTrue == Spec => []HookSeesStored
  BY Invariance, PTL DEF IInv

-----------------------------------------------------------------------------
(* The files are a TaskBoard.                                              *)

\* The one who writes a truncated file is the one Stored chooses.
LEMMA ChosenWriter ==
  ASSUME NEW l, NEW a, NEW i, NEW p \in Processes, l[p] = "write", a[p] = i,
         \A q \in Processes : l[q] = "write" /\ a[q] = i => q = p
  PROVE  (CHOOSE q \in Processes : l[q] = "write" /\ a[q] = i) = p
  OBVIOUS

\* What counts as stored does not change unless a writer opens its file.
LEMMA StoredKept ==
  ASSUME IInv, UNCHANGED <<fileVars, lost>>,
         \A q \in Processes :
           /\ pc'[q] = "write" <=> pc[q] = "write"
           /\ pc[q] = "write" => at'[q] = at[q] /\ copy'[q] = copy[q]
  PROVE  Stored' = Stored
<1>1. ASSUME NEW i \in Ids, i \in torn, i \notin lost
      PROVE  copy'[CHOOSE q \in Processes : pc'[q] = "write" /\ at'[q] = i]
               = copy[CHOOSE q \in Processes : pc[q] = "write" /\ at[q] = i]
  <2>1. PICK p \in Processes : pc[p] = "write" /\ at[p] = i
    BY <1>1 DEF IInv, TornIsWritten
  <2>2. \A q \in Processes : pc[q] = "write" /\ at[q] = i => q = p
    BY <1>1, <2>1 DEF IInv, OneWriter, Writing
  <2>3. (CHOOSE q \in Processes : pc[q] = "write" /\ at[q] = i) = p
    BY <2>1, <2>2, ChosenWriter
  <2>4. (CHOOSE q \in Processes : pc'[q] = "write" /\ at'[q] = i) = p
    BY <2>1, <2>2, ChosenWriter
  <2>. QED BY <2>1, <2>3, <2>4
<1>. QED BY <1>1 DEF Stored, fileVars

\* A process that works on one file changes what is stored in no other, and
\* nothing at all when the task is lost.
LEMMA StoredElsewhere ==
  ASSUME IInv, NEW p \in Processes, UNCHANGED <<at, copy, lost>>,
         \A q \in Processes \ {p} : pc'[q] = pc[q],
         NEW i \in Ids, i = at[p] => i \in lost,
         i # at[p] => file'[i] = file[i] /\ (i \in torn' <=> i \in torn)
  PROVE  Stored'[i] = Stored[i]
<1>1. CASE i \in lost
  BY <1>1 DEF Stored
<1>2. CASE i \notin lost /\ i \in torn
  <2>1. PICK r \in Processes : pc[r] = "write" /\ at[r] = i
    BY <1>2 DEF IInv, TornIsWritten
  <2>2. r # p /\ pc'[r] = "write" /\ \A q \in Processes : pc[q] = "write" /\ at[q] = i => q = r
    BY <1>2, <2>1 DEF IInv, OneWriter, Writing
  <2>3. \A q \in Processes : pc'[q] = "write" /\ at'[q] = i => q = r
    BY <1>2, <2>2
  <2>4. (CHOOSE q \in Processes : pc[q] = "write" /\ at[q] = i) = r
    BY <2>1, <2>2, ChosenWriter
  <2>5. (CHOOSE q \in Processes : pc'[q] = "write" /\ at'[q] = i) = r
    BY <2>1, <2>2, <2>3, ChosenWriter
  <2>6. Stored[i] = copy[r]
    BY <1>2, <2>4 DEF Stored
  <2>7. i \in torn' /\ i \notin lost' /\ Stored'[i] = copy'[r]
    BY <1>2, <2>5 DEF Stored
  <2>. QED BY <2>6, <2>7
<1>3. CASE i \notin lost /\ i \notin torn
  BY <1>3 DEF Stored
<1>. QED BY <1>1, <1>2, <1>3

\* The file of a task that is opened is not truncated and becomes what the
\* process is about to write; the others stay as they are.
LEMMA StoredOpened ==
  ASSUME IInv, NEW p \in Processes, Open(p), at[p] \notin lost
  PROVE  /\ at[p] \in Ids /\ Stored[at[p]] = file[at[p]]
         /\ Stored' = [Stored EXCEPT ![at[p]] = IF call[p].op = "delete" THEN None ELSE copy[p]]
<1>1. /\ pc[p] = "open" /\ UNCHANGED <<call, at, copy, lost>>
      /\ file' = [file EXCEPT ![at[p]] = None]
      /\ IF call[p].op = "delete"
         THEN pc' = [pc EXCEPT ![p] = "release"] /\ torn' = torn \ {at[p]}
         ELSE pc' = [pc EXCEPT ![p] = "write"] /\ torn' = torn \cup {at[p]}
  BY DEF Open, Goto, workVars
<1>2. at[p] \in Ids /\ at[p] \notin torn
  BY <1>1 DEF IInv, ReadStands, TornIsWritten, Places, Writing, Present
<1>3. \A q \in Processes \ {p} : pc[q] \in Writing => at[q] # at[p]
  BY <1>1 DEF IInv, OneWriter, Writing
<1>4. Stored[at[p]] = file[at[p]]
  BY <1>2 DEF Stored
<1>5. ASSUME NEW i \in Ids \ {at[p]} PROVE Stored'[i] = Stored[i]
  <2>1. /\ file'[i] = file[i] /\ (i \in torn' <=> i \in torn)
        /\ \A q \in Processes \ {p} : pc'[q] = pc[q]
    BY <1>1, <1>5 DEF IInv, TypeOK
  <2>. QED BY <1>1, <1>5, <2>1, StoredElsewhere
<1>6. Stored'[at[p]] = IF call[p].op = "delete" THEN None ELSE copy[p]
  <2>1. CASE call[p].op = "delete"
    BY <1>1, <1>2, <2>1 DEF Stored, IInv, TypeOK
  <2>2. CASE call[p].op # "delete"
    <3>1. pc'[p] = "write" /\ at[p] \in torn'
      BY <1>1, <2>2 DEF IInv, TypeOK
    <3>2. \A q \in Processes : pc'[q] = "write" /\ at'[q] = at[p] => q = p
      BY <1>1, <1>3, <2>2 DEF IInv, TypeOK, Writing
    <3>3. (CHOOSE q \in Processes : pc'[q] = "write" /\ at'[q] = at[p]) = p
      BY <1>1, <3>1, <3>2, ChosenWriter
    <3>. QED BY <1>1, <1>2, <2>2, <3>1, <3>3 DEF Stored
  <2>. QED BY <2>1, <2>2
<1>7. /\ Stored = [i \in Ids |-> Stored[i]]
      /\ Stored' = [i \in Ids |-> Stored'[i]]
  BY DEF Stored
<1>. QED BY <1>2, <1>4, <1>5, <1>6, <1>7

\* Of a lost task nothing is stored, whatever becomes of its file.
LEMMA StoredLost ==
  ASSUME IInv, NEW p \in Processes, Open(p), at[p] \in lost
  PROVE  Stored' = Stored
<1>1. /\ UNCHANGED <<at, copy, lost>>
      /\ \A q \in Processes \ {p} : pc'[q] = pc[q]
      /\ \A i \in Ids \ {at[p]} : file'[i] = file[i] /\ (i \in torn' <=> i \in torn)
  BY DEF Open, Goto, workVars, IInv, TypeOK
<1>2. \A i \in Ids : Stored'[i] = Stored[i]
  BY <1>1, StoredElsewhere
<1>. QED BY <1>2 DEF Stored

\* A writer that has written stores what counted as stored.
LEMMA StoredWritten ==
  ASSUME IInv, NEW p \in Processes, Write(p)
  PROVE  Stored' = Stored
<1>1. /\ pc[p] = "write" /\ UNCHANGED <<call, at, copy, lost>>
      /\ WriteIsExact(p)
      /\ \A q \in Processes \ {p} : pc'[q] = pc[q]
  BY WriteExact DEF IInv, Write, Goto, workVars, TypeOK
<1>2. at[p] \in Ids /\ (at[p] \notin lost => at[p] \in torn)
  BY <1>1 DEF IInv, TornIsWritten, Places, Writing
<1>3. ASSUME at[p] \notin lost PROVE Stored[at[p]] = copy[p] /\ Stored'[at[p]] = copy[p]
  <2>1. \A q \in Processes : pc[q] = "write" /\ at[q] = at[p] => q = p
    BY <1>1, <1>3 DEF IInv, OneWriter, Writing
  <2>2. (CHOOSE q \in Processes : pc[q] = "write" /\ at[q] = at[p]) = p
    BY <1>1, <2>1, ChosenWriter
  <2>. QED BY <1>1, <1>2, <1>3, <2>2 DEF Stored, WriteIsExact
<1>4. ASSUME NEW i \in Ids, i = at[p] => i \in lost PROVE Stored'[i] = Stored[i]
  <2>1. i # at[p] => file'[i] = file[i] /\ (i \in torn' <=> i \in torn)
    BY <1>1 DEF WriteIsExact
  <2>. QED BY <1>1, <1>4, <2>1, StoredElsewhere
<1>5. \A i \in Ids : Stored'[i] = Stored[i]
  BY <1>3, <1>4
<1>. QED BY <1>5 DEF Stored

\* A removed lock loses its task.
LEMMA StoredRemoved ==
  ASSUME IInv, NEW p \in Processes, RemoveStale(p)
  PROVE  Board!Next \/ UNCHANGED <<Stored, lost>>
<1> DEFINE l == LockOf(call[p])
<1>1. /\ UNCHANGED <<fileVars, at, copy>> /\ l \in Ids
      /\ lost' = IF holder[l] = None THEN lost ELSE lost \cup {l}
      /\ \A q \in Processes : pc'[q] = "write" <=> pc[q] = "write"
  BY DEF RemoveStale, Goto, workVars, IInv, TypeOK, HoldersWork
<1> HIDE DEF l
<1>2. CASE holder[l] = None
  <2>1. Stored' = Stored
    BY <1>1, <1>2, StoredKept
  <2>. QED BY <1>1, <1>2, <2>1
<1>3. CASE holder[l] # None
  <2>1. ASSUME NEW i \in Ids \ {l}, i \in torn, i \notin lost
        PROVE  copy'[CHOOSE q \in Processes : pc'[q] = "write" /\ at'[q] = i]
                 = copy[CHOOSE q \in Processes : pc[q] = "write" /\ at[q] = i]
    <3>1. PICK r \in Processes : pc[r] = "write" /\ at[r] = i
      BY <2>1 DEF IInv, TornIsWritten
    <3>2. \A q \in Processes : pc[q] = "write" /\ at[q] = i => q = r
      BY <2>1, <3>1 DEF IInv, OneWriter, Writing
    <3>3. (CHOOSE q \in Processes : pc[q] = "write" /\ at[q] = i) = r
      BY <3>1, <3>2, ChosenWriter
    <3>4. (CHOOSE q \in Processes : pc'[q] = "write" /\ at'[q] = i) = r
      BY <1>1, <3>1, <3>2, ChosenWriter
    <3>. QED BY <1>1, <3>3, <3>4
  <2>2. Stored' = [Stored EXCEPT ![l] = None] /\ lost' = lost \cup {l}
    <3>1. lost' = lost \cup {l} /\ Stored'[l] = None
      BY <1>1, <1>3 DEF Stored
    <3>2. ASSUME NEW i \in Ids \ {l} PROVE Stored'[i] = Stored[i]
      <4>1. (i \in torn' <=> i \in torn) /\ (i \in lost' <=> i \in lost) /\ file'[i] = file[i]
        BY <1>1, <3>1, <3>2 DEF fileVars
      <4>. QED BY <2>1, <3>2, <4>1 DEF Stored
    <3>3. /\ Stored = [i \in Ids |-> Stored[i]]
          /\ Stored' = [i \in Ids |-> Stored'[i]]
      BY DEF Stored
    <3>. QED BY <1>1, <3>1, <3>2, <3>3
  <2>. QED BY <1>1, <2>2 DEF Board!Next, Board!Lose
<1>. QED BY <1>2, <1>3

\* Opening a file is the step of the board that the call stands for.
LEMMA OpenIsBoardStep ==
  ASSUME IInv, NEW p \in Processes, Open(p), at[p] \notin lost
  PROVE  Board!Operation(at[p])
<1> DEFINE i == at[p]
           c == call[p]
<1>1. /\ i \in Ids /\ Stored[i] = file[i]
      /\ Stored' = [Stored EXCEPT ![i] = IF c.op = "delete" THEN None ELSE copy[p]]
  BY StoredOpened
<1>2. pc[p] = "open" /\ copy[p] # None /\ c \in Calls /\ c.op \notin {"list", "read"}
  BY NoneIsNoTask DEF Open, IInv, Places, Writing, TypeOK
<1>3. c.op = "create" => file[i] = None /\ copy[p] = Fresh
  BY <1>1, <1>2 DEF IInv, ReadStands, Present
<1>4. c.op # "create" => /\ file[i] # None /\ Allowed(c, file[i])
                         /\ copy[p] = Changed(c, file[i])
  BY <1>2 DEF IInv, ReadStands
<1>11. i = at[p] /\ i \notin lost
  OBVIOUS
<1> HIDE DEF i, c
<1>5. CASE c.op = "create"
  BY <1>1, <1>3, <1>5, <1>11 DEF Board!Operation, Board!Create, Board!Fresh, Fresh
<1>6. CASE c.op = "delete"
  BY <1>1, <1>4, <1>6, <1>11 DEF Board!Operation, Board!Delete
<1>7. CASE c.op = "update"
  <2>1. c.status \in Statuses \cup {None} /\ c.owner \in Owners \cup {None}
    BY <1>2, <1>7, CallTyped
  <2>2. copy[p] = [Stored[i] EXCEPT !.status = c.status, !.owner = c.owner]
    BY <1>1, <1>4, <1>7 DEF Changed
  <2>3. Stored' = [Stored EXCEPT ![i].status = c.status, ![i].owner = c.owner]
    <3>1. [Stored EXCEPT ![i].status = c.status, ![i].owner = c.owner]
            = [Stored EXCEPT ![i] = [Stored[i] EXCEPT !.status = c.status, !.owner = c.owner]]
      BY Zenon
    <3>. QED BY <1>1, <1>7, <2>2, <3>1
  <2>4. Board!Update(i)
    BY <1>1, <1>4, <1>7, <2>1, <2>3 DEF Board!Update
  <2>. QED BY <1>11, <2>4 DEF Board!Operation
<1>8. CASE c.op = "submit"
  <2>1. copy[p] = [Stored[i] EXCEPT !.status = "planning", !.plan = TRUE]
    BY <1>1, <1>4, <1>8 DEF Changed
  <2>2. Stored' = [Stored EXCEPT ![i].status = "planning", ![i].plan = TRUE]
    <3>1. [Stored EXCEPT ![i].status = "planning", ![i].plan = TRUE]
            = [Stored EXCEPT ![i] = [Stored[i] EXCEPT !.status = "planning", !.plan = TRUE]]
      BY Zenon
    <3>. QED BY <1>1, <1>8, <2>1, <3>1
  <2>. QED BY <1>1, <1>4, <1>8, <1>11, <2>2 DEF Board!Operation, Board!Submit
<1>9. CASE c.op = "approve"
  <2>1. copy[p] = [Stored[i] EXCEPT !.status = "in_progress", !.feedback = FALSE]
    BY <1>1, <1>4, <1>9 DEF Changed
  <2>2. Stored' = [Stored EXCEPT ![i].status = "in_progress", ![i].feedback = FALSE]
    <3>1. [Stored EXCEPT ![i].status = "in_progress", ![i].feedback = FALSE]
            = [Stored EXCEPT ![i] = [Stored[i] EXCEPT !.status = "in_progress", !.feedback = FALSE]]
      BY Zenon
    <3>. QED BY <1>1, <1>9, <2>1, <3>1
  <2>3. Board!Judged(i)
    BY <1>1, <1>4, <1>9 DEF Allowed, Judged, Board!Judged
  <2>. QED BY <1>1, <1>11, <2>2, <2>3 DEF Board!Operation, Board!Approve
<1>10. CASE c.op = "reject"
  <2>1. copy[p] = [Stored[i] EXCEPT !.status = "planning", !.feedback = TRUE]
    BY <1>1, <1>4, <1>10 DEF Changed
  <2>2. Stored' = [Stored EXCEPT ![i].status = "planning", ![i].feedback = TRUE]
    <3>1. [Stored EXCEPT ![i].status = "planning", ![i].feedback = TRUE]
            = [Stored EXCEPT ![i] = [Stored[i] EXCEPT !.status = "planning", !.feedback = TRUE]]
      BY Zenon
    <3>. QED BY <1>1, <1>10, <2>1, <3>1
  <2>3. Board!Judged(i)
    BY <1>1, <1>4, <1>10 DEF Allowed, Judged, Board!Judged
  <2>. QED BY <1>1, <1>11, <2>2, <2>3 DEF Board!Operation, Board!Reject
<1>. QED
  BY <1>2, <1>5, <1>6, <1>7, <1>8, <1>9, <1>10, CallTyped DEF Ops

LEMMA BoardStep == IInv /\ [Next]_vars => [Board!Next]_<<Stored, lost>>
<1> SUFFICES ASSUME IInv, [Next]_vars PROVE Board!Next \/ UNCHANGED <<Stored, lost>>
  OBVIOUS
<1>0. TypeOK
  BY DEF IInv
<1>1. ASSUME NEW p \in Processes,
             \/ Begin(p) \/ GetLock(p) \/ GiveUp(p) \/ FindStale(p) \/ Release(p)
             \/ Create(p) \/ List(p) \/ Scan(p) \/ Parse(p) \/ Hook(p)
      PROVE  UNCHANGED <<Stored, lost>>
  <2>1. /\ UNCHANGED <<fileVars, lost>>
        /\ pc[p] # "write" /\ pc'[p] # "write"
        /\ \A q \in Processes \ {p} :
             pc'[q] = pc[q] /\ at'[q] = at[q] /\ copy'[q] = copy[q]
    BY <1>0, <1>1 DEF TypeOK, Begin, GetLock, GiveUp, FindStale, Release, Create, List, Scan,
                      Parse, Hook, Goto, workVars
  <2>2. Stored' = Stored
    BY <2>1, StoredKept
  <2>. QED BY <2>1, <2>2
<1>2. ASSUME NEW p \in Processes, Open(p) PROVE Board!Next \/ UNCHANGED <<Stored, lost>>
  <2>1. UNCHANGED lost /\ at[p] \in Ids
    BY <1>2 DEF Open, IInv, Places, Writing
  <2>. QED BY <1>2, <2>1, StoredLost, OpenIsBoardStep DEF Board!Next
<1>3. ASSUME NEW p \in Processes, Write(p) PROVE UNCHANGED <<Stored, lost>>
  <2>1. Stored' = Stored
    BY <1>3, StoredWritten
  <2>. QED BY <1>3, <2>1 DEF Write
<1>4. ASSUME NEW p \in Processes, RemoveStale(p)
      PROVE  Board!Next \/ UNCHANGED <<Stored, lost>>
  BY <1>4, StoredRemoved
<1>5. CASE UNCHANGED vars
  BY <1>5 DEF vars, fileVars, workVars, Stored
<1>. QED
  BY <1>1, <1>2, <1>3, <1>4, <1>5 DEF Next, Step

\* Whatever the interleaving of the processes, the files behave as a board on
\* which each operation is one step, but for the tasks whose lock was taken away
\* from a process while its script ran.
THEOREM FilesAreABoard == Spec => IsTaskBoard
<1>1. Init => Board!Init
  BY DEF Init, Stored, Board!Init
<1>. QED
  BY <1>1, BoardStep, Invariance, PTL DEF Spec, IsTaskBoard, Board!Spec
===============================================================================
