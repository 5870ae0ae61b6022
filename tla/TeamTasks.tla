------------------------------ MODULE TeamTasks ------------------------------
(***************************************************************************)
(* The tasks of a team (packages/clanker-teams/src/utils/tasks.ts): one    *)
(* JSON file per task, which the processes of the team create, rewrite,    *)
(* delete and read.  An operation on one task holds the lock of its file;  *)
(* creating a task and listing all of them hold the lock of the directory, *)
(* so that they run beside the operations on single tasks.  A file is      *)
(* rewritten in two steps, between which it is no JSON.                    *)
(*                                                                         *)
(* A free lock is taken in one step here: module TeamInbox opens withLock  *)
(* up.  A lock older than 30 seconds is removed by who waits for it.  Only *)
(* the script that runs under the lock of a completed task takes that      *)
(* long: nothing bounds it, and it is meant for test suites.               *)
(* Of a task the status, the owner and whether it has a plan and feedback  *)
(* are kept.  A field that is set to undefined is left out of the file:    *)
(* None.                                                                   *)
(***************************************************************************)
EXTENDS Integers, FiniteSetsExt

CONSTANTS Processes,
          Owners,    \* names a task may be given to
          Statuses,  \* statuses that callers of task_update name
          MaxId,     \* bound on the ids
          MaxCalls,  \* bound on the calls
          None

Ids == 1..MaxId
Dir == 0  \* the directory's place among the locks

ASSUME ConstantsOK ==
  /\ MaxId \in Nat \ {0} /\ MaxCalls \in Nat
  /\ Statuses \subseteq {"pending", "planning", "in_progress", "completed"}
  /\ None \notin Owners \cup Processes

VARIABLES
  file,    \* the task in the file of each id, None when there is none
  torn,    \* ids whose file is truncated
  holder,  \* who has the lock of each id and of the directory
  pc, call,
  at,      \* the id a process works on
  copy,    \* the task it is about to write, or wrote
  todo,    \* ids its list has still to read
  calls,   \* calls so far
  lost     \* history: tasks whose lock was removed while a process had it

fileVars == <<file, torn>>
workVars == <<at, copy, todo>>
vars == <<fileVars, holder, pc, call, workVars, calls, lost>>

AnyStatus == {"pending", "planning", "in_progress", "completed", None}
Tasks == [status : AnyStatus, owner : Owners \cup {None}, plan : BOOLEAN, feedback : BOOLEAN]

ASSUME NoneIsNoTask == None \notin Tasks

\* task_update names a status, an owner, both or neither.
Calls ==
  [op : {"create", "list"}, lock : {Dir}]
    \cup [op : {"delete", "submit", "approve", "reject", "read"}, lock : Ids]
    \cup [op : {"update"}, lock : Ids, status : Statuses \cup {None}, owner : Owners \cup {None}]

TypeOK ==
  /\ file \in [Ids -> Tasks \cup {None}] /\ torn \subseteq Ids
  /\ holder \in [Ids \cup {Dir} -> Processes \cup {None}]
  /\ pc \in [Processes -> {"idle", "lock", "stale", "work", "scan", "open", "write", "hook", "release"}]
  /\ call \in [Processes -> Calls]
  /\ at \in [Processes -> Ids \cup {Dir}]
  /\ copy \in [Processes -> Tasks \cup {None}]
  /\ todo \in [Processes -> SUBSET Ids]
  /\ calls \in 0..MaxCalls
  /\ lost \subseteq Ids

Init ==
  /\ file = [i \in Ids |-> None] /\ torn = {}
  /\ holder = [i \in Ids \cup {Dir} |-> None]
  /\ pc = [p \in Processes |-> "idle"]
  /\ call = [p \in Processes |-> [op |-> "list", lock |-> Dir]]
  /\ at = [p \in Processes |-> Dir]
  /\ copy = [p \in Processes |-> None]
  /\ todo = [p \in Processes |-> {}]
  /\ calls = 0
  /\ lost = {}

Present == {i \in Ids : file[i] # None \/ i \in torn}
Goto(p, l) == pc' = [pc EXCEPT ![p] = l]

-----------------------------------------------------------------------------
(* Calls and locks.                                                        *)

\* readTask looks for the file before it asks for the lock.
Begin(p) ==
  /\ pc[p] = "idle" /\ calls < MaxCalls
  /\ calls' = calls + 1
  /\ \E c \in Calls :
       /\ c.op = "read" => c.lock \in Present
       /\ call' = [call EXCEPT ![p] = c]
  /\ Goto(p, "lock")
  /\ UNCHANGED <<fileVars, holder, workVars, lost>>

\* Mutant of LockOf: judging a plan takes the directory's lock.
LockOfJudge(c) == IF c.op \in {"approve", "reject"} THEN Dir ELSE c.lock

LockOf(c) == c.lock

GetLock(p) ==
  /\ pc[p] = "lock" /\ holder[LockOf(call[p])] = None
  /\ holder' = [holder EXCEPT ![LockOf(call[p])] = p]
  /\ at' = [at EXCEPT ![p] = call[p].lock]
  /\ Goto(p, "work")
  /\ UNCHANGED <<fileVars, call, copy, todo, calls, lost>>

\* withLock tries a number of times.
GiveUp(p) ==
  /\ pc[p] = "lock" /\ holder[LockOf(call[p])] # None
  /\ Goto(p, "idle")
  /\ UNCHANGED <<fileVars, holder, call, workVars, calls, lost>>

\* The lock is older than 30 seconds: its process is still waiting for the script.
FindStale(p) ==
  /\ pc[p] = "lock"
  /\ holder[LockOf(call[p])] \in {q \in Processes : pc[q] = "hook"}
  /\ Goto(p, "stale")
  /\ UNCHANGED <<fileVars, holder, call, workVars, calls, lost>>

\* It is removed, or the one that took its place since; then withLock tries to
\* make its own.
RemoveStale(p) ==
  /\ pc[p] = "stale"
  /\ LET l == LockOf(call[p])
     IN /\ holder' = [holder EXCEPT ![l] = None]
        /\ lost' = IF holder[l] = None THEN lost ELSE lost \cup {l}
  /\ Goto(p, "lock")
  /\ UNCHANGED <<fileVars, call, workVars, calls>>

\* The lock file is removed, whoever made it.
Release(p) ==
  /\ pc[p] = "release"
  /\ holder' = [holder EXCEPT ![LockOf(call[p])] = None]
  /\ at' = [at EXCEPT ![p] = Dir]
  /\ copy' = [copy EXCEPT ![p] = None]
  /\ todo' = [todo EXCEPT ![p] = {}]
  /\ Goto(p, "idle")
  /\ UNCHANGED <<fileVars, call, calls, lost>>

-----------------------------------------------------------------------------
(* Under the lock of the directory.                                        *)

Fresh == [status |-> "pending", owner |-> None, plan |-> FALSE, feedback |-> FALSE]

\* Mutant of NextId: the number of files plus one.
CountedId == Cardinality(Present) + 1

\* getTaskId: the largest id there is plus one.
NextId == IF Present = {} THEN 1 ELSE Max(Present) + 1

Create(p) ==
  /\ pc[p] = "work" /\ call[p].op = "create"
  /\ IF NextId \in Ids  \* bound
     THEN /\ Goto(p, "open")
          /\ at' = [at EXCEPT ![p] = NextId]
          /\ copy' = [copy EXCEPT ![p] = Fresh]
     ELSE Goto(p, "release") /\ UNCHANGED <<at, copy>>
  /\ UNCHANGED <<fileVars, holder, call, todo, calls, lost>>

\* listTasks: the names first ...
List(p) ==
  /\ pc[p] = "work" /\ call[p].op = "list"
  /\ todo' = [todo EXCEPT ![p] = Present]
  /\ Goto(p, "scan")
  /\ UNCHANGED <<fileVars, holder, call, at, copy, calls, lost>>

\* ... then the files, which may be gone or torn by now: the call throws.
Scan(p) ==
  /\ pc[p] = "scan"
  /\ IF todo[p] = {} THEN Goto(p, "release") /\ UNCHANGED todo
     ELSE \E i \in todo[p] :
            /\ todo' = [todo EXCEPT ![p] = @ \ {i}]
            /\ Goto(p, IF file[i] = None THEN "release" ELSE "scan")
  /\ UNCHANGED <<fileVars, holder, call, at, copy, calls, lost>>

-----------------------------------------------------------------------------
(* Under the lock of a task.                                               *)

Judged(t) == t.status = "planning" /\ t.plan

\* evaluatePlan refuses a task that is not in planning or has no plan.
Allowed(c, t) ==
  CASE c.op = "read" -> FALSE
    [] c.op \in {"approve", "reject"} -> Judged(t)
    [] OTHER -> TRUE

\* { ...task, ...updates }: task_update always has both fields in its updates.
Changed(c, t) ==
  CASE c.op = "update"  -> [t EXCEPT !.status = c.status, !.owner = c.owner]
    [] c.op = "submit"  -> [t EXCEPT !.status = "planning", !.plan = TRUE]
    [] c.op = "approve" -> [t EXCEPT !.status = "in_progress", !.feedback = FALSE]
    [] c.op = "reject"  -> [t EXCEPT !.status = "planning", !.feedback = TRUE]
    [] OTHER -> t

\* Read and parse the file: the call throws when it is missing, torn or not in
\* the right state, and it is over when it only reads.
Parse(p) ==
  /\ pc[p] = "work" /\ call[p].op \notin {"create", "list"}
  /\ IF file[at[p]] = None \/ ~Allowed(call[p], file[at[p]])
     THEN Goto(p, "release") /\ UNCHANGED copy
     ELSE /\ Goto(p, "open")
          /\ copy' = [copy EXCEPT ![p] = Changed(call[p], file[at[p]])]
  /\ UNCHANGED <<fileVars, holder, call, at, todo, calls, lost>>

\* unlinkSync for a deleted task; writeFileSync opens the file with truncation ...
Open(p) ==
  /\ pc[p] = "open"
  /\ file' = [file EXCEPT ![at[p]] = None]
  /\ IF call[p].op = "delete"
     THEN Goto(p, "release") /\ torn' = torn \ {at[p]}
     ELSE Goto(p, "write") /\ torn' = torn \cup {at[p]}
  /\ UNCHANGED <<holder, call, workVars, calls, lost>>

\* Another process wrote or removed the file since this one truncated it, or
\* truncated it too.
Raced(p) ==
  at[p] \notin torn \/ \E q \in Processes \ {p} : pc[q] = "write" /\ at[q] = at[p]

\* The text of the task, or what a race of two writers makes of it: the end of
\* a longer text remains, or the file was unlinked meanwhile.
WriteFile(p) ==
  \/ file' = [file EXCEPT ![at[p]] = copy[p]] /\ torn' = torn \ {at[p]}
  \/ Raced(p) /\ file' = [file EXCEPT ![at[p]] = None] /\ torn' = torn \cup {at[p]}
  \/ Raced(p) /\ UNCHANGED fileVars

\* Mutant of Write: the hook runs after the lock was released.
WriteUnlocks(p) ==
  /\ pc[p] = "write"
  /\ WriteFile(p)
  /\ IF call[p].op = "update" /\ copy[p].status = "completed"
     THEN Goto(p, "hook") /\ holder' = [holder EXCEPT ![LockOf(call[p])] = None]
     ELSE Goto(p, "release") /\ UNCHANGED holder
  /\ UNCHANGED <<call, workVars, calls, lost>>

\* ... and writes.  A completed task is handed to the hook, under the lock.
Write(p) ==
  /\ pc[p] = "write"
  /\ WriteFile(p)
  /\ Goto(p, IF call[p].op = "update" /\ copy[p].status = "completed" THEN "hook" ELSE "release")
  /\ UNCHANGED <<holder, call, workVars, calls, lost>>

\* The script ends, whenever it likes.
Hook(p) ==
  /\ pc[p] = "hook"
  /\ Goto(p, "release")
  /\ UNCHANGED <<fileVars, holder, call, workVars, calls, lost>>

-----------------------------------------------------------------------------
Step(p) ==
  \/ GetLock(p) \/ GiveUp(p) \/ FindStale(p) \/ RemoveStale(p) \/ Release(p)
  \/ Create(p) \/ List(p) \/ Scan(p)
  \/ Parse(p) \/ Open(p) \/ Write(p) \/ Hook(p)

Next == \E p \in Processes : Begin(p) \/ Step(p)

Spec == Init /\ [][Next]_vars

\* Every process goes on with its call, and the hook ends.
Fairness == \A p \in Processes : WF_vars(Step(p))

FairSpec == Spec /\ Fairness

-----------------------------------------------------------------------------
(* Properties.                                                             *)

Writing == {"open", "write", "hook"}

\* No two processes are about to write the same task, or wrote it and still
\* have it in hand, although two different locks protect the same files: as
\* long as its lock was never removed under a script that ran too long.
OneWriter ==
  \A p, q \in Processes :
    pc[p] \in Writing /\ pc[q] \in Writing /\ at[p] = at[q] /\ at[p] \notin lost => p = q

\* While the script task_completed runs the task is as it was told, however
\* long it runs and whoever waits: until a waiter takes the lock away, which
\* only 30 seconds of the script allow, nobody changes or deletes the task.
HookSeesStored ==
  \A p \in Processes : pc[p] = "hook" /\ at[p] \notin lost => file[at[p]] = copy[p]

\* The files are a TaskBoard: what a process has begun to write counts, and a
\* task whose lock was removed under its process is lost to the board.  The
\* board and the code keep a rejected plan in planning and remove a deleted
\* task, where docs/reference.md says otherwise (lines 434 and 531).
Stored ==
  [i \in Ids |->
     IF i \in lost THEN None
     ELSE IF i \in torn THEN copy[CHOOSE p \in Processes : pc[p] = "write" /\ at[p] = i]
     ELSE file[i]]
Board == INSTANCE TaskBoard WITH board <- Stored
IsTaskBoard == Board!Spec
=============================================================================
