------------------------------ MODULE TeamInbox ------------------------------
(***************************************************************************)
(* A teammate's inbox (packages/clanker-teams/src/utils/messaging.ts), a   *)
(* JSON file that several processes read and rewrite under a lock file     *)
(* (lock.ts).  Every system call is a step: what one process does in a     *)
(* single synchronous function is interleaved with the other processes.    *)
(* A process may be killed between any two steps.                          *)
(*                                                                         *)
(* A sender sends one message.  A reader peeks (the poll of an idle        *)
(* teammate, check_teammate) and fetches (the tool read_inbox), again and  *)
(* again.  The empty inbox stands for a file that is missing, too.         *)
(***************************************************************************)
EXTENDS Integers, SequencesExt

CONSTANTS Senders, Readers,
          Attempts,    \* retries of withLock
          MaxCrashes,  \* bound on the processes that are killed
          None         \* no process

Processes == Senders \cup Readers

ASSUME ConstantsOK ==
  /\ Senders \cap Readers = {} /\ None \notin Processes
  /\ Attempts \in Nat \ {0} /\ MaxCrashes \in Nat

VARIABLES
  lock,    \* the lock file: who wrote it, None when there is no file
  aged,    \* its age is above STALE_LOCK_TIMEOUT
  inbox,   \* the messages in the file
  torn,    \* the file is truncated: a writer is between open and write
  pc, op, tries,
  copy,    \* what a process has read
  crashes

fileVars == <<inbox, torn>>
lockVars == <<lock, aged>>
vars == <<lockVars, fileVars, pc, op, tries, copy, crashes>>

Entry(s, r) == [from |-> s, read |-> r]
Entries == [from : Senders, read : BOOLEAN]

Trying == {"exists", "stat", "unlink", "create"}
Inside == {"parse", "truncate", "write", "release"}

TypeOK ==
  /\ lock \in Processes \cup {None} /\ aged \in BOOLEAN
  /\ inbox \in Seq(Entries) /\ torn \in BOOLEAN
  /\ pc \in [Processes -> {"idle", "done", "failed", "dead"} \cup Trying \cup Inside]
  /\ op \in [Processes -> {"send", "peek", "fetch"}]
  /\ tries \in [Processes -> 0..Attempts]
  /\ copy \in [Processes -> Seq(Entries)]
  /\ crashes \in 0..MaxCrashes

Init ==
  /\ lock = None /\ aged = FALSE
  /\ inbox = <<>> /\ torn = FALSE
  /\ pc = [p \in Processes |-> "idle"]
  /\ op = [p \in Processes |-> "send"]
  /\ tries = [p \in Processes |-> 0]
  /\ copy = [p \in Processes |-> <<>>]
  /\ crashes = 0

Goto(p, l) == pc' = [pc EXCEPT ![p] = l]

-----------------------------------------------------------------------------
(* withLock: how a process gets in.                                        *)

\* A call begins.  readInbox returns at once when there is no file.
Begin(p) ==
  /\ pc[p] \in {"idle"} \cup (IF p \in Readers THEN {"done", "failed"} ELSE {})
  /\ p \in Readers => inbox # <<>> \/ torn
  /\ \E o \in IF p \in Senders THEN {"send"} ELSE {"peek", "fetch"} : op' = [op EXCEPT ![p] = o]
  /\ tries' = [tries EXCEPT ![p] = Attempts]
  /\ Goto(p, "exists")
  /\ UNCHANGED <<lockVars, fileVars, copy, crashes>>

\* The attempt failed: sleep and try again, or give up.
Again(p) ==
  /\ tries' = [tries EXCEPT ![p] = @ - 1]
  /\ Goto(p, IF tries[p] = 1 THEN "failed" ELSE "exists")

\* existsSync(lockFile)
Exists(p) ==
  /\ pc[p] = "exists"
  /\ Goto(p, IF lock = None THEN "create" ELSE "stat")
  /\ UNCHANGED <<lockVars, fileVars, op, tries, copy, crashes>>

\* Mutant of Stat: no lock is ever stale.
StatFresh(p) ==
  /\ pc[p] = "stat"
  /\ IF lock = None THEN Again(p)
     ELSE Goto(p, "create") /\ UNCHANGED tries
  /\ UNCHANGED <<lockVars, fileVars, op, copy, crashes>>

\* statSync(lockFile) throws when the file is gone by now.
Stat(p) ==
  /\ pc[p] = "stat"
  /\ IF lock = None THEN Again(p)
     ELSE Goto(p, IF aged THEN "unlink" ELSE "create") /\ UNCHANGED tries
  /\ UNCHANGED <<lockVars, fileVars, op, copy, crashes>>

\* unlinkSync(lockFile), whoever wrote the file that is there now.
Unlink(p) ==
  /\ pc[p] = "unlink"
  /\ lock' = None /\ aged' = FALSE
  /\ Goto(p, "create")
  /\ UNCHANGED <<fileVars, op, tries, copy, crashes>>

\* Mutant of Create: the file is written whether it is there or not.
CreateOver(p) ==
  /\ pc[p] = "create"
  /\ lock' = p /\ aged' = FALSE /\ Goto(p, "parse")
  /\ UNCHANGED <<tries, fileVars, op, copy, crashes>>

\* writeFileSync(lockFile, pid, { flag: "wx" }) fails when the file exists.
Create(p) ==
  /\ pc[p] = "create"
  /\ IF lock = None
     THEN lock' = p /\ aged' = FALSE /\ Goto(p, "parse") /\ UNCHANGED tries
     ELSE Again(p) /\ UNCHANGED lockVars
  /\ UNCHANGED <<fileVars, op, copy, crashes>>

-----------------------------------------------------------------------------
(* What it does inside.                                                    *)

Unread(entries) == {i \in DOMAIN entries : ~entries[i].read}

\* There is nothing to write for a peek, nor for a fetch that finds nothing, of
\* the unread messages or of all of them.
NothingToWrite(p, unreadOnly) ==
  \/ op[p] = "peek"
  \/ op[p] = "fetch" /\ IF unreadOnly THEN Unread(inbox) = {} ELSE inbox = <<>>

\* Read and parse the file.  A torn file is no JSON: the call throws.
Parse(p) ==
  /\ pc[p] = "parse"
  /\ copy' = [copy EXCEPT ![p] = IF torn THEN <<>> ELSE inbox]
  /\ \E unreadOnly \in BOOLEAN :
       Goto(p, IF torn \/ NothingToWrite(p, unreadOnly) THEN "release" ELSE "truncate")
  /\ UNCHANGED <<lockVars, fileVars, op, tries, crashes>>

\* writeFileSync opens the file with truncation, then writes.
Truncate(p) ==
  /\ pc[p] = "truncate"
  /\ inbox' = <<>> /\ torn' = TRUE
  /\ Goto(p, "write")
  /\ UNCHANGED <<lockVars, op, tries, copy, crashes>>

\* Mutant of Written: the newest message comes first.
WrittenFirst(p) ==
  IF op[p] = "send" THEN <<Entry(p, FALSE)>> \o copy[p]
  ELSE [i \in DOMAIN copy[p] |-> Entry(copy[p][i].from, TRUE)]

\* What a process writes back: its message appended, or all marked as read.
Written(p) ==
  IF op[p] = "send" THEN Append(copy[p], Entry(p, FALSE))
  ELSE [i \in DOMAIN copy[p] |-> Entry(copy[p][i].from, TRUE)]

Write(p) ==
  /\ pc[p] = "write"
  /\ inbox' = Written(p) /\ torn' = FALSE
  /\ Goto(p, "release")
  /\ UNCHANGED <<lockVars, op, tries, copy, crashes>>

\* The finally block removes the lock file, whoever wrote it.
Release(p) ==
  /\ pc[p] = "release"
  /\ lock' = None /\ aged' = FALSE
  /\ copy' = [copy EXCEPT ![p] = <<>>]
  /\ Goto(p, "done")
  /\ UNCHANGED <<fileVars, op, tries, crashes>>

-----------------------------------------------------------------------------
Crash(p) ==
  /\ crashes < MaxCrashes
  /\ pc[p] \in Trying \cup Inside
  /\ crashes' = crashes + 1
  /\ Goto(p, "dead")
  /\ UNCHANGED <<lockVars, fileVars, op, tries, copy>>

\* STALE_LOCK_TIMEOUT passes.  What is done inside is short, so only the lock
\* of a process that was killed gets this old.
Age ==
  /\ lock # None /\ ~aged
  /\ pc[lock] = "dead"
  /\ aged' = TRUE
  /\ UNCHANGED <<lock, fileVars, pc, op, tries, copy, crashes>>

Step(p) ==
  \/ Exists(p) \/ Stat(p) \/ Unlink(p) \/ Create(p)
  \/ Parse(p) \/ Truncate(p) \/ Write(p) \/ Release(p)

Next ==
  \/ \E p \in Processes : Begin(p) \/ Step(p) \/ Crash(p)
  \/ Age

Spec == Init /\ [][Next]_vars

\* Processes that live are scheduled, time passes, and readers poll.
Fairness ==
  /\ \A p \in Processes : WF_vars(Step(p))
  /\ \A p \in Readers : WF_vars(Begin(p))
  /\ WF_vars(Age)

FairSpec == Spec /\ Fairness

-----------------------------------------------------------------------------
(* Properties.                                                             *)

\* docs/reference.md: "clanker-teams uses lock files to prevent concurrent
\* modifications".
OneInside == \A p, q \in Processes : pc[p] \in Inside /\ pc[q] \in Inside => p = q

\* The part of it that holds: the lock keeps the processes apart, system call
\* by system call, until one of them is killed.
OneInsideUntilKilled == crashes = 0 => OneInside

\* The file as it is, or as the writer that truncated it has read it.
Stored == IF torn /\ crashes = 0 THEN copy[CHOOSE p \in Processes : pc[p] = "write"] ELSE inbox
From(entries) == [i \in DOMAIN entries |-> entries[i].from]

\* The inbox is a Mailbox: a write of the file sends or fetches messages.
Box == INSTANCE Mailbox WITH
         mail <- From(Stored),
         read <- DOMAIN Stored \ Unread(Stored),
         intact <- crashes = 0
IsMailbox == Box!Spec

\* The lock of a process that was killed is removed, once a reader comes that
\* lives and finds a file to read.
LockRecovered ==
  \A p \in Processes, r \in Readers :
    lock = p /\ pc[p] = "dead" /\ (inbox # <<>> \/ torn) ~> lock # p \/ pc[r] = "dead"
=============================================================================
