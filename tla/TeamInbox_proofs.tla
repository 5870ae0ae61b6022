-------------------------- MODULE TeamInbox_proofs --------------------------
(***************************************************************************)
(* What holds of an inbox for any number of senders, readers and attempts: *)
(* the types, that the lock keeps the processes apart until one of them is *)
(* killed, and that until then the file is a Mailbox.                      *)
(***************************************************************************)
EXTENDS TeamInbox, SequenceTheorems, TLAPS

\* A process that tries has attempts left.
TriesLeft == \A p \in Processes : pc[p] \in Trying => tries[p] # 0

\* Until a process is killed no lock is old, and the lock file is there
\* exactly while its writer is inside.
LockedInside ==
  crashes = 0 =>
    /\ ~aged
    /\ \A p \in Processes : /\ pc[p] \notin {"unlink", "dead"}
                            /\ pc[p] \in Inside <=> lock = p

\* Readers send nothing, senders read nothing, and only those that have read
\* something they mean to change write.
Intentions == \A p \in Processes :
  /\ pc[p] # "idle" => (op[p] = "send" <=> p \in Senders)
  /\ pc[p] \in {"truncate", "write"} => op[p] # "peek"

\* Until a process is killed: a file is torn while its writer writes, who has
\* read what the file held.
CopyIsFile ==
  crashes = 0 =>
    /\ torn <=> \E p \in Processes : pc[p] = "write"
    /\ \A p \in Processes : pc[p] = "truncate" => copy[p] = inbox

\* A sender that has not written its message is not in the file.
SendsOnce ==
  crashes = 0 => \A s \in Senders :
    pc[s] \notin {"release", "done", "failed"} => \A i \in DOMAIN Stored : Stored[i].from # s

IInv ==
  TypeOK /\ TriesLeft /\ LockedInside /\ Intentions /\ CopyIsFile /\ SendsOnce

-----------------------------------------------------------------------------
(* The steps, by what they change.                                         *)

LEMMA Kinds ==
  ASSUME [Next]_vars
  PROVE  (\E p \in Processes : Begin(p) \/ Step(p) \/ Crash(p)) \/ Age \/ UNCHANGED vars
  BY DEF Next

LEMMA EntryAppended ==
  ASSUME NEW q \in Seq(Entries), NEW e \in Entries
  PROVE  /\ Append(q, e) \in Seq(Entries) /\ Len(Append(q, e)) = Len(q) + 1
         /\ Append(q, e)[Len(q) + 1] = e
         /\ \A i \in 1..Len(q) : Append(q, e)[i] = q[i]
  BY AppendProperties

\* What a process writes back is an inbox.
LEMMA WrittenTyped ==
  ASSUME NEW p \in Processes, op[p] = "send" <=> p \in Senders, copy[p] \in Seq(Entries)
  PROVE  /\ Written(p) \in Seq(Entries)
         /\ op[p] = "send" =>
              /\ Len(Written(p)) = Len(copy[p]) + 1
              /\ Written(p)[Len(copy[p]) + 1] = Entry(p, FALSE)
              /\ \A i \in 1..Len(copy[p]) : Written(p)[i] = copy[p][i]
         /\ op[p] # "send" =>
              /\ Len(Written(p)) = Len(copy[p])
              /\ \A i \in 1..Len(copy[p]) : Written(p)[i] = Entry(copy[p][i].from, TRUE)
<1>1. CASE op[p] = "send"
  <2>1. Entry(p, FALSE) \in Entries
    BY <1>1 DEF Entry, Entries
  <2>2. Written(p) = Append(copy[p], Entry(p, FALSE))
    BY <1>1 DEF Written
  <2>3. /\ Append(copy[p], Entry(p, FALSE)) \in Seq(Entries)
        /\ Len(Append(copy[p], Entry(p, FALSE))) = Len(copy[p]) + 1
        /\ Append(copy[p], Entry(p, FALSE))[Len(copy[p]) + 1] = Entry(p, FALSE)
        /\ \A i \in 1..Len(copy[p]) : Append(copy[p], Entry(p, FALSE))[i] = copy[p][i]
    BY <2>1, EntryAppended
  <2>. QED BY <1>1, <2>2, <2>3
<1>2. CASE op[p] # "send"
  <2>1. Len(copy[p]) \in Nat /\ DOMAIN copy[p] = 1..Len(copy[p])
    BY LenProperties
  <2>2. \A i \in 1..Len(copy[p]) : Entry(copy[p][i].from, TRUE) \in Entries
    <3>1. \A i \in 1..Len(copy[p]) : copy[p][i] \in Entries
      BY <2>1, ElementOfSeq
    <3>. QED BY <3>1 DEF Entry, Entries
  <2>3. Written(p) = [i \in 1..Len(copy[p]) |-> Entry(copy[p][i].from, TRUE)]
    BY <1>2, <2>1 DEF Written
  <2>4. Written(p) \in [1..Len(copy[p]) -> Entries]
    BY <2>2, <2>3
  <2>5. Written(p) \in Seq(Entries) /\ Len(Written(p)) = Len(copy[p])
    <3>1. Written(p) \in Seq(Entries)
      BY <2>1, <2>4, SeqDef
    <3>2. DOMAIN Written(p) = 1..Len(Written(p)) /\ Len(Written(p)) \in Nat
      BY <3>1, LenProperties
    <3>3. DOMAIN Written(p) = 1..Len(copy[p])
      BY <2>3
    <3>. QED BY <2>1, <3>1, <3>2, <3>3
  <2>. QED BY <1>2, <2>3, <2>5
<1>. QED BY <1>1, <1>2

LEMMA GotoTyped ==
  ASSUME TypeOK, NEW p \in Processes, NEW l, Goto(p, l),
         l \in {"idle", "done", "failed", "dead"} \cup Trying \cup Inside
  PROVE  pc' \in [Processes -> {"idle", "done", "failed", "dead"} \cup Trying \cup Inside]
  BY DEF TypeOK, Goto

\* An attempt that failed.
LEMMA AgainTyped ==
  ASSUME TypeOK, TriesLeft, NEW p \in Processes, pc[p] \in Trying, Again(p)
  PROVE  /\ tries' \in [Processes -> 0..Attempts]
         /\ pc' \in [Processes -> {"idle", "done", "failed", "dead"} \cup Trying \cup Inside]
<1>1. tries[p] \in 0..Attempts /\ tries[p] # 0 /\ Attempts \in Nat
  BY ConstantsOK DEF TypeOK, TriesLeft
<1>2. tries[p] - 1 \in 0..Attempts
  BY <1>1
<1>. QED BY <1>2, GotoTyped DEF Again, TypeOK, Trying

LEMMA TypeStep == IInv /\ [Next]_vars => TypeOK'
<1> SUFFICES ASSUME IInv, [Next]_vars PROVE TypeOK'
  OBVIOUS
<1>0. TypeOK /\ TriesLeft /\ Intentions
  BY DEF IInv
<1>1. ASSUME NEW p \in Processes, Begin(p) PROVE TypeOK'
  <2>1. PICK o \in {"send", "peek", "fetch"} : op' = [op EXCEPT ![p] = o]
    BY <1>1 DEF Begin
  <2>2. tries' \in [Processes -> 0..Attempts]
    BY <1>0, <1>1, ConstantsOK DEF Begin, TypeOK
  <2>3. pc' \in [Processes -> {"idle", "done", "failed", "dead"} \cup Trying \cup Inside]
    BY <1>0, <1>1, GotoTyped DEF Begin, Trying
  <2>. QED BY <1>0, <1>1, <2>1, <2>2, <2>3 DEF Begin, TypeOK, lockVars, fileVars
<1>2. ASSUME NEW p \in Processes, Step(p) PROVE TypeOK'
  <2>1. CASE Exists(p)
    <3>1. pc' \in [Processes -> {"idle", "done", "failed", "dead"} \cup Trying \cup Inside]
      BY <1>0, <2>1, GotoTyped DEF Exists, Trying
    <3>. QED BY <1>0, <2>1, <3>1 DEF Exists, TypeOK, lockVars, fileVars
  <2>2. CASE Stat(p)
    <3>1. /\ tries' \in [Processes -> 0..Attempts]
          /\ pc' \in [Processes -> {"idle", "done", "failed", "dead"} \cup Trying \cup Inside]
      BY <1>0, <2>2, GotoTyped, AgainTyped DEF Stat, Trying, TypeOK
    <3>. QED BY <1>0, <2>2, <3>1 DEF Stat, TypeOK, lockVars, fileVars
  <2>3. CASE Unlink(p)
    <3>1. pc' \in [Processes -> {"idle", "done", "failed", "dead"} \cup Trying \cup Inside]
      BY <1>0, <2>3, GotoTyped DEF Unlink, Trying
    <3>. QED BY <1>0, <2>3, <3>1 DEF Unlink, TypeOK, fileVars
  <2>4. CASE Create(p)
    <3>1. /\ tries' \in [Processes -> 0..Attempts]
          /\ pc' \in [Processes -> {"idle", "done", "failed", "dead"} \cup Trying \cup Inside]
      BY <1>0, <2>4, GotoTyped, AgainTyped DEF Create, Trying, Inside, TypeOK
    <3>. QED BY <1>0, <2>4, <3>1 DEF Create, TypeOK, lockVars, fileVars
  <2>5. CASE Parse(p)
    <3>1. pc' \in [Processes -> {"idle", "done", "failed", "dead"} \cup Trying \cup Inside]
      BY <1>0, <2>5, GotoTyped DEF Parse, Inside
    <3>2. <<>> \in Seq(Entries)
      BY EmptySeq
    <3>. QED BY <1>0, <2>5, <3>1, <3>2 DEF Parse, TypeOK, lockVars, fileVars
  <2>6. CASE Truncate(p)
    <3>1. pc' \in [Processes -> {"idle", "done", "failed", "dead"} \cup Trying \cup Inside]
      BY <1>0, <2>6, GotoTyped DEF Truncate, Inside
    <3>2. <<>> \in Seq(Entries)
      BY EmptySeq
    <3>. QED BY <1>0, <2>6, <3>1, <3>2 DEF Truncate, TypeOK, lockVars
  <2>7. CASE Write(p)
    <3>1. pc' \in [Processes -> {"idle", "done", "failed", "dead"} \cup Trying \cup Inside]
      BY <1>0, <2>7, GotoTyped DEF Write, Inside
    <3>2. (op[p] = "send" <=> p \in Senders) /\ copy[p] \in Seq(Entries)
      BY <1>0, <2>7 DEF Write, TypeOK, Intentions
    <3>3. Written(p) \in Seq(Entries)
      BY <3>2, WrittenTyped
    <3>. QED BY <1>0, <2>7, <3>1, <3>3 DEF Write, TypeOK, lockVars
  <2>8. CASE Release(p)
    <3>1. pc' \in [Processes -> {"idle", "done", "failed", "dead"} \cup Trying \cup Inside]
      BY <1>0, <2>8, GotoTyped DEF Release
    <3>2. <<>> \in Seq(Entries)
      BY EmptySeq
    <3>. QED BY <1>0, <2>8, <3>1, <3>2 DEF Release, TypeOK, fileVars
  <2>. QED BY <1>2, <2>1, <2>2, <2>3, <2>4, <2>5, <2>6, <2>7, <2>8 DEF Step
<1>3. ASSUME NEW p \in Processes, Crash(p) PROVE TypeOK'
  <2>1. pc' \in [Processes -> {"idle", "done", "failed", "dead"} \cup Trying \cup Inside]
    BY <1>0, <1>3, GotoTyped DEF Crash
  <2>2. crashes' \in 0..MaxCrashes
    BY <1>0, <1>3, ConstantsOK DEF Crash, TypeOK
  <2>. QED BY <1>0, <1>3, <2>1, <2>2 DEF Crash, TypeOK, lockVars, fileVars
<1>4. CASE Age \/ UNCHANGED vars
  BY <1>0, <1>4 DEF Age, vars, lockVars, fileVars, TypeOK
<1>. QED BY <1>1, <1>2, <1>3, <1>4, Kinds

-----------------------------------------------------------------------------
(* The lock.                                                               *)

LEMMA TriesStep == IInv /\ [Next]_vars => TriesLeft'
<1> SUFFICES ASSUME IInv, [Next]_vars PROVE TriesLeft'
  OBVIOUS
<1>0. TypeOK /\ TriesLeft
  BY DEF IInv
<1>1. ASSUME NEW p \in Processes, Begin(p) PROVE TriesLeft'
  BY <1>0, <1>1, ConstantsOK DEF Begin, Goto, TypeOK, TriesLeft
<1>2. ASSUME NEW p \in Processes, Step(p) PROVE TriesLeft'
  <2>1. CASE Again(p)
    <3>1. tries' = [tries EXCEPT ![p] = tries[p] - 1]
          /\ pc' = [pc EXCEPT ![p] = IF tries[p] = 1 THEN "failed" ELSE "exists"]
      BY <2>1 DEF Again, Goto
    <3>2. tries[p] \in Int
      BY <1>0 DEF TypeOK
    <3>. QED BY <1>0, <3>1, <3>2 DEF TypeOK, TriesLeft, Trying
  <2>2. CASE UNCHANGED tries /\ (pc[p] \in Trying \/ pc'[p] \notin Trying)
             /\ \E l : pc' = [pc EXCEPT ![p] = l]
    BY <1>0, <2>2 DEF TypeOK, TriesLeft
  <2>. QED
    BY <1>0, <1>2, <2>1, <2>2 DEF Step, Exists, Stat, Unlink, Create, Parse, Truncate, Write, Release,
       Goto, TypeOK, Trying
<1>3. ASSUME NEW p \in Processes, Crash(p) PROVE TriesLeft'
  BY <1>0, <1>3 DEF Crash, Goto, TypeOK, TriesLeft, Trying
<1>4. CASE Age \/ UNCHANGED vars
  BY <1>0, <1>4 DEF Age, vars, TriesLeft
<1>. QED BY <1>1, <1>2, <1>3, <1>4, Kinds

LEMMA LockedStep == IInv /\ [Next]_vars => LockedInside'
<1> SUFFICES ASSUME IInv, [Next]_vars, crashes' = 0 PROVE LockedInside'
  BY DEF LockedInside
<1>0. /\ TypeOK /\ crashes = 0 /\ ~aged
      /\ \A q \in Processes : pc[q] \notin {"unlink", "dead"} /\ (pc[q] \in Inside <=> lock = q)
      /\ None \notin Processes
  <2>1. TypeOK /\ LockedInside /\ None \notin Processes /\ crashes \in Nat
    BY ConstantsOK DEF IInv, TypeOK
  <2>2. crashes = 0
    BY <2>1 DEF Next, Begin, Step, Crash, Age, Exists, Stat, Unlink, Create, Parse, Truncate, Write,
       Release, vars
  <2>. QED BY <2>1, <2>2 DEF LockedInside
<1>1. ASSUME NEW p \in Processes, Begin(p) PROVE LockedInside'
  BY <1>0, <1>1 DEF Begin, Goto, TypeOK, LockedInside, Inside, lockVars
<1>2. ASSUME NEW p \in Processes, Step(p) PROVE LockedInside'
  <2>1. CASE Exists(p) \/ Stat(p) \/ Unlink(p)
    BY <1>0, <2>1 DEF Exists, Stat, Unlink, Again, Goto, TypeOK, LockedInside, Inside, lockVars
  <2>2. CASE Create(p)
    BY <1>0, <2>2 DEF Create, Again, Goto, TypeOK, LockedInside, Inside, lockVars
  <2>3. CASE Parse(p) \/ Truncate(p) \/ Write(p)
    BY <1>0, <2>3 DEF Parse, Truncate, Write, Goto, TypeOK, LockedInside, Inside, lockVars
  <2>4. CASE Release(p)
    BY <1>0, <2>4 DEF Release, Goto, TypeOK, LockedInside, Inside
  <2>. QED BY <1>2, <2>1, <2>2, <2>3, <2>4 DEF Step
<1>3. ASSUME NEW p \in Processes, Crash(p) PROVE LockedInside'
  BY <1>0, <1>3 DEF Crash
<1>4. CASE Age
  BY <1>0, <1>4 DEF Age, TypeOK
<1>5. CASE UNCHANGED vars
  BY <1>0, <1>5 DEF vars, lockVars, LockedInside
<1>. QED BY <1>1, <1>2, <1>3, <1>4, <1>5, Kinds

LEMMA IntentionsStep == IInv /\ [Next]_vars => Intentions'
<1> SUFFICES ASSUME IInv, [Next]_vars PROVE Intentions'
  OBVIOUS
<1>0. TypeOK /\ Intentions
  BY DEF IInv
<1>1. ASSUME NEW p \in Processes, Begin(p) PROVE Intentions'
  <2>1. PICK o \in IF p \in Senders THEN {"send"} ELSE {"peek", "fetch"} : op' = [op EXCEPT ![p] = o]
    BY <1>1 DEF Begin
  <2>2. pc' = [pc EXCEPT ![p] = "exists"] /\ (o = "send" <=> p \in Senders)
    BY <1>1, <2>1 DEF Begin, Goto
  <2>. QED BY <1>0, <2>1, <2>2 DEF TypeOK, Intentions
<1>2. ASSUME NEW p \in Processes, Step(p) PROVE Intentions'
  BY <1>0, <1>2 DEF Step, Exists, Stat, Unlink, Create, Parse, NothingToWrite, Truncate, Write,
     Release, Again, Goto, TypeOK, Intentions
<1>3. ASSUME NEW p \in Processes, Crash(p) PROVE Intentions'
  BY <1>0, <1>3 DEF Crash, Goto, TypeOK, Intentions, Trying, Inside
<1>4. CASE Age \/ UNCHANGED vars
  BY <1>0, <1>4 DEF Age, vars, Intentions
<1>. QED BY <1>1, <1>2, <1>3, <1>4, Kinds

-----------------------------------------------------------------------------
(* The file, until a process is killed.                                    *)

\* Two processes are never both inside.
LEMMA Exclusive ==
  LockedInside /\ crashes = 0 =>
    \A p, q \in Processes : pc[p] \in Inside /\ pc[q] \in Inside => p = q
  BY DEF LockedInside

LEMMA CopyStep == IInv /\ [Next]_vars => CopyIsFile'
<1> SUFFICES ASSUME IInv, [Next]_vars, crashes' = 0 PROVE CopyIsFile'
  BY DEF CopyIsFile
<1>0. /\ TypeOK /\ Intentions /\ crashes = 0
      /\ torn <=> \E q \in Processes : pc[q] = "write"
      /\ \A q \in Processes : pc[q] = "truncate" => copy[q] = inbox
      /\ \A q, r \in Processes : pc[q] \in Inside /\ pc[r] \in Inside => q = r
  <2>1. TypeOK /\ Intentions /\ LockedInside /\ CopyIsFile /\ crashes \in Nat
    BY ConstantsOK DEF IInv, TypeOK
  <2>2. crashes = 0
    BY <2>1 DEF Next, Begin, Step, Crash, Age, Exists, Stat, Unlink, Create, Parse, Truncate, Write,
       Release, vars
  <2>. QED BY <2>1, <2>2, Exclusive DEF CopyIsFile
<1>1. ASSUME NEW p \in Processes, NEW l \in {"done", "failed", "release", "parse"} \cup Trying, Goto(p, l),
             pc[p] # "write", UNCHANGED <<fileVars, crashes>>,
             \A q \in Processes \ {p} : copy'[q] = copy[q] /\ op'[q] = op[q]
      PROVE  CopyIsFile'
  BY <1>0, <1>1 DEF Goto, CopyIsFile, Trying, TypeOK, fileVars
<1>2. ASSUME NEW p \in Processes, Begin(p) PROVE CopyIsFile'
  <2>1. pc[p] # "write" /\ Goto(p, "exists") /\ "exists" \in Trying
    BY <1>2 DEF Begin, Trying
  <2>2. \A q \in Processes \ {p} : copy'[q] = copy[q] /\ op'[q] = op[q]
    BY <1>0, <1>2 DEF Begin, TypeOK
  <2>. QED BY <1>1, <1>2, <2>1, <2>2 DEF Begin
<1>3. ASSUME NEW p \in Processes, Step(p) PROVE CopyIsFile'
  <2>1. CASE Exists(p) \/ Stat(p) \/ Unlink(p) \/ Create(p)
    <3>1. PICK l \in {"parse", "failed"} \cup Trying : Goto(p, l)
      BY <2>1 DEF Exists, Stat, Unlink, Create, Again, Trying
    <3>2. pc[p] # "write" /\ UNCHANGED <<fileVars, crashes, copy, op>>
      BY <2>1 DEF Exists, Stat, Unlink, Create
    <3>. QED BY <1>1, <3>1, <3>2
  <2>2. CASE Parse(p) /\ Goto(p, "release")
    <3>1. pc[p] # "write" /\ UNCHANGED <<fileVars, crashes, op>>
      BY <2>2 DEF Parse
    <3>2. \A q \in Processes \ {p} : copy'[q] = copy[q]
      BY <1>0, <2>2 DEF Parse, TypeOK
    <3>. QED BY <1>1, <2>2, <3>1, <3>2
  <2>3. CASE Parse(p) /\ ~Goto(p, "release")
    <3>1. /\ pc[p] = "parse" /\ pc' = [pc EXCEPT ![p] = "truncate"] /\ ~torn
          /\ copy' = [copy EXCEPT ![p] = inbox] /\ UNCHANGED <<fileVars, op>>
      BY <2>3 DEF Parse, Goto
    <3>. QED BY <1>0, <3>1 DEF CopyIsFile, TypeOK, fileVars
  <2>4. CASE Truncate(p)
    <3>1. /\ pc[p] = "truncate" /\ pc' = [pc EXCEPT ![p] = "write"] /\ torn' = TRUE
          /\ UNCHANGED <<copy, op>>
      BY <2>4 DEF Truncate, Goto
    <3>2. \A q \in Processes : q # p => pc[q] \notin Inside
      BY <1>0, <3>1 DEF Inside
    <3>. QED BY <1>0, <3>1, <3>2 DEF CopyIsFile, TypeOK, Inside
  <2>5. CASE Write(p)
    <3>1. /\ pc[p] = "write" /\ pc' = [pc EXCEPT ![p] = "release"] /\ torn' = FALSE
          /\ UNCHANGED <<copy, op>>
      BY <2>5 DEF Write, Goto
    <3>2. \A q \in Processes : q # p => pc[q] \notin Inside
      BY <1>0, <3>1 DEF Inside
    <3>. QED BY <1>0, <3>1, <3>2 DEF CopyIsFile, TypeOK, Inside
  <2>6. CASE Release(p)
    <3>1. pc[p] # "write" /\ UNCHANGED <<fileVars, crashes, op>> /\ Goto(p, "done")
      BY <2>6 DEF Release
    <3>2. \A q \in Processes \ {p} : copy'[q] = copy[q]
      BY <1>0, <2>6 DEF Release, TypeOK
    <3>. QED BY <1>1, <3>1, <3>2
  <2>. QED BY <1>3, <2>1, <2>2, <2>3, <2>4, <2>5, <2>6 DEF Step
<1>4. ASSUME NEW p \in Processes, Crash(p) PROVE CopyIsFile'
  BY <1>0, <1>4 DEF Crash
<1>5. CASE Age \/ UNCHANGED vars
  BY <1>0, <1>5 DEF Age, vars, fileVars, CopyIsFile
<1>. QED BY <1>2, <1>3, <1>4, <1>5, Kinds

\* CHOOSE finds the one process that writes.
LEMMA ChosenWriter ==
  ASSUME NEW f, NEW p \in Processes, f[p] = "write",
         \A q \in Processes : f[q] = "write" => q = p
  PROVE  (CHOOSE q \in Processes : f[q] = "write") = p
  OBVIOUS

StoredOK ==
  /\ \A p \in Processes : pc[p] = "write" => Stored = copy[p]
  /\ (\A p \in Processes : pc[p] # "write") => Stored = inbox

LEMMA StoredIs == LockedInside /\ CopyIsFile /\ crashes = 0 => StoredOK
<1> SUFFICES ASSUME LockedInside, CopyIsFile, crashes = 0 PROVE StoredOK
  OBVIOUS
<1>1. ASSUME NEW p \in Processes, pc[p] = "write" PROVE Stored = copy[p]
  <2>1. \A q \in Processes : pc[q] = "write" => q = p
    BY <1>1, Exclusive DEF Inside
  <2>2. (CHOOSE q \in Processes : pc[q] = "write") = p
    BY <1>1, <2>1, ChosenWriter
  <2>. QED BY <1>1, <2>2 DEF Stored, CopyIsFile
<1>2. (\A p \in Processes : pc[p] # "write") => Stored = inbox
  BY DEF Stored, CopyIsFile
<1>. QED BY <1>1, <1>2 DEF StoredOK

\* What the file holds changes when a process writes, and then by what it
\* writes.
LEMMA StoredStep ==
  ASSUME IInv, [Next]_vars, crashes' = 0
  PROVE  \/ Stored' = Stored
         \/ \E p \in Processes : Write(p) /\ Stored = copy[p] /\ Stored' = Written(p)
<1>0. /\ TypeOK /\ LockedInside /\ CopyIsFile /\ LockedInside' /\ CopyIsFile' /\ crashes \in Nat
      /\ \A q, r \in Processes : pc[q] \in Inside /\ pc[r] \in Inside => q = r
  <2>1. crashes = 0
    BY ConstantsOK DEF IInv, TypeOK, Next, Begin, Step, Crash, Age, Exists, Stat, Unlink, Create, Parse,
       Truncate, Write, Release, vars
  <2>. QED BY <2>1, LockedStep, CopyStep, Exclusive DEF IInv
<1>a. crashes = 0
  BY <1>0 DEF Next, Begin, Step, Crash, Age, Exists, Stat, Unlink, Create, Parse,
     Truncate, Write, Release, vars
<1>b. StoredOK /\ StoredOK'
  <2>1. LockedInside' /\ CopyIsFile' /\ (crashes = 0)' => StoredOK'
    BY StoredIs, PTL
  <2>. QED BY <1>0, <1>a, <2>1, StoredIs
<1>1. ASSUME NEW p \in Processes, Truncate(p) PROVE Stored' = Stored
  <2>1. /\ pc[p] = "truncate" /\ pc'[p] = "write" /\ copy' = copy /\ copy[p] = inbox
    BY <1>0, <1>1, <1>a DEF Truncate, Goto, TypeOK, CopyIsFile
  <2>2. \A q \in Processes : pc[q] # "write"
    BY <1>0, <2>1 DEF Inside
  <2>. QED BY <1>b, <2>1, <2>2 DEF StoredOK
<1>2. ASSUME NEW p \in Processes, Write(p) PROVE Stored = copy[p] /\ Stored' = Written(p)
  <2>1. pc[p] = "write" /\ pc' = [pc EXCEPT ![p] = "release"] /\ inbox' = Written(p)
    BY <1>2 DEF Write, Goto
  <2>2. \A q \in Processes : pc'[q] # "write"
    BY <1>0, <2>1 DEF Inside, TypeOK
  <2>. QED BY <1>b, <2>1, <2>2 DEF StoredOK
<1>3. ASSUME UNCHANGED inbox,
             \A q \in Processes : (pc'[q] = "write" <=> pc[q] = "write")
                                  /\ (pc[q] = "write" => copy'[q] = copy[q])
      PROVE  Stored' = Stored
  <2>1. CASE \E q \in Processes : pc[q] = "write"
    BY <1>3, <1>b, <2>1 DEF StoredOK
  <2>2. CASE \A q \in Processes : pc[q] # "write"
    BY <1>3, <1>b, <2>2 DEF StoredOK
  <2>. QED BY <2>1, <2>2
<1>4. ASSUME NEW p \in Processes, Begin(p) \/ (Step(p) /\ ~Truncate(p) /\ ~Write(p))
      PROVE  Stored' = Stored
  <2>1. pc[p] # "write" /\ UNCHANGED inbox /\ \E l : pc' = [pc EXCEPT ![p] = l] /\ l # "write"
    BY <1>4 DEF Begin, Step, Exists, Stat, Unlink, Create, Parse, Release, Again, Goto, fileVars
  <2>2. \A q \in Processes \ {p} : copy'[q] = copy[q]
    BY <1>0, <1>4 DEF Begin, Step, Exists, Stat, Unlink, Create, Parse, Release, TypeOK
  <2>. QED BY <1>0, <1>3, <2>1, <2>2 DEF TypeOK
<1>5. CASE Age \/ UNCHANGED vars
  BY <1>3, <1>5 DEF Age, vars, fileVars
<1>6. ASSUME NEW p \in Processes, Crash(p) PROVE FALSE
  BY <1>0, <1>6 DEF Crash
<1>. QED BY <1>1, <1>2, <1>4, <1>5, <1>6, Kinds

LEMMA SendsOnceStep == IInv /\ [Next]_vars => SendsOnce'
<1> SUFFICES ASSUME IInv, [Next]_vars, crashes' = 0, NEW s \in Senders,
                    pc'[s] \notin {"release", "done", "failed"}, NEW i \in DOMAIN Stored'
             PROVE  Stored'[i].from # s
  BY DEF SendsOnce
<1>0. TypeOK /\ SendsOnce /\ Intentions /\ s \in Processes /\ s \notin Readers /\ crashes \in Nat
  BY ConstantsOK DEF IInv, TypeOK, Processes
<1>a. crashes = 0
  BY <1>0 DEF Next, Begin, Step, Crash, Age, Exists, Stat, Unlink, Create, Parse,
     Truncate, Write, Release, vars
<1>1. pc[s] \notin {"release", "done", "failed"}
  BY <1>0 DEF Next, Begin, Step, Crash, Age, Exists, Stat, Unlink, Create, Parse,
     Truncate, Write, Release, Again, Goto, TypeOK, vars, Trying, Inside
<1>2. \A j \in DOMAIN Stored : Stored[j].from # s
  BY <1>0, <1>1, <1>a DEF SendsOnce
<1>3. CASE Stored' = Stored
  BY <1>2, <1>3
<1>4. ASSUME NEW p \in Processes, Write(p), Stored = copy[p], Stored' = Written(p)
      PROVE  Stored'[i].from # s
  <2>1. s # p
    BY <1>0, <1>4 DEF Write, Goto, TypeOK
  <2>2. (op[p] = "send" <=> p \in Senders) /\ copy[p] \in Seq(Entries) /\ Written(p) \in Seq(Entries)
    BY <1>0, <1>4, WrittenTyped DEF Write, TypeOK, Intentions
  <2>3. /\ DOMAIN copy[p] = 1..Len(copy[p]) /\ DOMAIN Written(p) = 1..Len(Written(p))
        /\ Len(copy[p]) \in Nat
    BY <2>2, LenProperties
  <2>4. CASE op[p] = "send"
    <3>1. CASE i = Len(copy[p]) + 1
      <4>1. Written(p)[Len(copy[p]) + 1] = Entry(p, FALSE)
        BY <2>2, <2>4, WrittenTyped
      <4>2. Entry(p, FALSE).from = p
        BY DEF Entry
      <4>. QED BY <1>4, <2>1, <3>1, <4>1, <4>2
    <3>2. CASE i \in 1..Len(copy[p])
      BY <1>2, <1>4, <2>2, <2>3, <2>4, <3>2, WrittenTyped
    <3>3. i \in 1..(Len(copy[p]) + 1)
      BY <1>4, <2>2, <2>3, <2>4, WrittenTyped
    <3>. QED BY <2>3, <3>1, <3>2, <3>3
  <2>5. CASE op[p] # "send"
    <3>1. i \in 1..Len(copy[p]) /\ Written(p)[i] = Entry(copy[p][i].from, TRUE)
      BY <1>4, <2>2, <2>3, <2>5, WrittenTyped
    <3>. QED BY <1>2, <1>4, <2>3, <3>1 DEF Entry
  <2>. QED BY <2>4, <2>5
<1>. QED BY <1>3, <1>4, StoredStep

-----------------------------------------------------------------------------
(* What the lock and the file promise.                                     *)

LEMMA Invariance == Spec => []IInv
<1>1. Init => IInv
  <2> SUFFICES ASSUME Init PROVE IInv
    OBVIOUS
  <2>1. \A p \in Processes : pc[p] = "idle" /\ p # None
    BY ConstantsOK DEF Init
  <2>2. TypeOK
    <3>1. <<>> \in Seq(Entries) /\ 0 \in 0..Attempts /\ 0 \in 0..MaxCrashes
      BY EmptySeq, ConstantsOK
    <3>. QED BY <3>1 DEF Init, TypeOK
  <2>3. TriesLeft /\ LockedInside /\ Intentions /\ CopyIsFile
    BY <2>1 DEF Init, TriesLeft, LockedInside, Intentions, CopyIsFile, Trying, Inside
  <2>4. SendsOnce
    BY DEF Init, SendsOnce, Stored
  <2>. QED BY <2>2, <2>3, <2>4 DEF IInv
<1>2. IInv /\ [Next]_vars => IInv'
  BY TypeStep, TriesStep, LockedStep, IntentionsStep, CopyStep, SendsOnceStep DEF IInv
<1>. QED BY <1>1, <1>2, PTL DEF Spec

\* Every variable keeps its type, in every behaviour.
THEOREM TypeCorrect == Spec => []TypeOK
  BY Invariance, PTL DEF IInv

\* Until a process is killed, at most one is between the creation of the lock
\* file and its removal (withLock).
THEOREM LockExcludes == Spec => []OneInsideUntilKilled
<1>1. IInv => OneInsideUntilKilled
  BY Exclusive DEF IInv, OneInsideUntilKilled, OneInside
<1>. QED BY <1>1, Invariance, PTL

LEMMA FromTyped ==
  ASSUME NEW q \in Seq(Entries)
  PROVE  /\ DOMAIN q = 1..Len(q) /\ Len(q) \in Nat
         /\ From(q) \in Seq(Senders) /\ Len(From(q)) = Len(q) /\ DOMAIN From(q) = DOMAIN q
         /\ \A i \in 1..Len(q) : From(q)[i] = q[i].from
<1>1. DOMAIN q = 1..Len(q) /\ Len(q) \in Nat /\ \A i \in 1..Len(q) : q[i] \in Entries
  BY LenProperties, ElementOfSeq
<1>2. From(q) = [i \in 1..Len(q) |-> q[i].from] /\ From(q) \in [1..Len(q) -> Senders]
  BY <1>1 DEF From, Entries
<1>3. From(q) \in Seq(Senders)
  BY <1>1, <1>2, SeqDef
<1>4. DOMAIN From(q) = 1..Len(From(q)) /\ Len(From(q)) \in Nat
  BY <1>3, LenProperties
<1>5. Len(From(q)) = Len(q)
  BY <1>1, <1>2, <1>4
<1>. QED BY <1>1, <1>2, <1>3, <1>5

LEMMA SenderAppended ==
  ASSUME NEW q \in Seq(Senders), NEW s \in Senders
  PROVE  /\ Append(q, s) \in Seq(Senders) /\ Len(Append(q, s)) = Len(q) + 1
         /\ Append(q, s)[Len(q) + 1] = s
         /\ \A i \in 1..Len(q) : Append(q, s)[i] = q[i]
  BY AppendProperties

\* A message that is written is the last one in the mail, and unread.
LEMMA MailSent ==
  ASSUME NEW q \in Seq(Entries), NEW w \in Seq(Entries), NEW s \in Senders,
         Len(w) = Len(q) + 1, w[Len(q) + 1] = Entry(s, FALSE),
         \A i \in 1..Len(q) : w[i] = q[i]
  PROVE  /\ From(w) = Append(From(q), s)
         /\ DOMAIN w \ Unread(w) = DOMAIN q \ Unread(q)
<1>1. /\ From(q) \in Seq(Senders) /\ From(w) \in Seq(Senders) /\ Len(q) \in Nat
      /\ Len(From(q)) = Len(q) /\ Len(From(w)) = Len(w)
      /\ DOMAIN q = 1..Len(q) /\ DOMAIN w = 1..Len(w)
      /\ \A i \in 1..Len(q) : From(q)[i] = q[i].from
      /\ \A i \in 1..Len(w) : From(w)[i] = w[i].from
  BY FromTyped
<1>2. /\ Append(From(q), s) \in Seq(Senders) /\ Len(Append(From(q), s)) = Len(q) + 1
      /\ Append(From(q), s)[Len(q) + 1] = s
      /\ \A i \in 1..Len(q) : Append(From(q), s)[i] = q[i].from
  BY <1>1, SenderAppended
<1>3. \A i \in 1..Len(w) : i \in 1..Len(q) \/ i = Len(q) + 1
  BY <1>1
<1>4. \A i \in 1..Len(w) : From(w)[i] = Append(From(q), s)[i]
  BY <1>1, <1>2, <1>3 DEF Entry
<1>5. From(w) = Append(From(q), s)
  BY <1>1, <1>2, <1>4, SeqEqual
<1>6. DOMAIN w \ Unread(w) = DOMAIN q \ Unread(q)
  BY <1>1, <1>3 DEF Unread, Entry
<1>. QED BY <1>5, <1>6

\* A fetch leaves the mail as it is, and everything is read.
LEMMA MailFetched ==
  ASSUME NEW q \in Seq(Entries), NEW w \in Seq(Entries), Len(w) = Len(q),
         \A i \in 1..Len(q) : w[i] = Entry(q[i].from, TRUE)
  PROVE  /\ From(w) = From(q)
         /\ DOMAIN w \ Unread(w) = DOMAIN From(q)
<1>1. /\ From(q) \in Seq(Senders) /\ From(w) \in Seq(Senders) /\ Len(q) \in Nat
      /\ Len(From(q)) = Len(q) /\ Len(From(w)) = Len(w) /\ DOMAIN From(q) = DOMAIN q
      /\ DOMAIN q = 1..Len(q) /\ DOMAIN w = 1..Len(w)
      /\ \A i \in 1..Len(q) : From(q)[i] = q[i].from
      /\ \A i \in 1..Len(w) : From(w)[i] = w[i].from
  BY FromTyped
<1>2. \A i \in 1..Len(w) : From(w)[i] = From(q)[i]
  BY <1>1 DEF Entry
<1>3. From(w) = From(q)
  BY <1>1, <1>2, SeqEqual
<1>4. DOMAIN w \ Unread(w) = DOMAIN q
  BY <1>1 DEF Unread, Entry
<1>. QED BY <1>1, <1>3, <1>4

LEMMA BoxStep ==
  IInv /\ [Next]_vars =>
    [Box!Next]_<<From(Stored), DOMAIN Stored \ Unread(Stored), crashes = 0>>
<1> SUFFICES ASSUME IInv, [Next]_vars
             PROVE  \/ Box!Next
                    \/ UNCHANGED <<From(Stored), DOMAIN Stored \ Unread(Stored), crashes = 0>>
  OBVIOUS
<1>0. TypeOK /\ Intentions /\ CopyIsFile /\ SendsOnce /\ crashes \in Nat
  BY ConstantsOK DEF IInv, TypeOK
<1>1. crashes # 0 => crashes' # 0
  BY <1>0 DEF Next, Begin, Step, Crash, Age, Exists, Stat, Unlink, Create, Parse, Truncate, Write,
     Release, vars
<1>2. CASE crashes # 0
  BY <1>1, <1>2 DEF Box!Next
<1>3. CASE crashes = 0 /\ crashes' # 0
  BY <1>3 DEF Box!Next, Box!Break
<1>4. CASE crashes = 0 /\ crashes' = 0
  <2>1. CASE Stored' = Stored
    BY <1>4, <2>1 DEF Unread, From
  <2>2. ASSUME NEW p \in Processes, Write(p), Stored = copy[p], Stored' = Written(p)
        PROVE  Box!Next \/ UNCHANGED <<From(Stored), DOMAIN Stored \ Unread(Stored)>>
    <3>1. /\ pc[p] = "write" /\ copy[p] \in Seq(Entries)
          /\ (op[p] = "send" <=> p \in Senders) /\ op[p] # "peek"
          /\ op[p] \in {"send", "peek", "fetch"}
      BY <1>0, <2>2 DEF Write, TypeOK, Intentions
    <3>2. Written(p) \in Seq(Entries)
      BY <3>1, WrittenTyped
    <3>3. CASE op[p] = "send"
      <4>1. /\ From(Written(p)) = Append(From(copy[p]), p)
            /\ DOMAIN Written(p) \ Unread(Written(p)) = DOMAIN copy[p] \ Unread(copy[p])
        BY <3>1, <3>2, <3>3, WrittenTyped, MailSent
      <4>2. \A i \in DOMAIN From(Stored) : From(Stored)[i] # p
        BY <1>0, <1>4, <2>2, <3>1, <3>3 DEF SendsOnce, From
      <4>3. Box!Send(p)
        <5>1. From(Stored)' = Append(From(Stored), p)
          BY <2>2, <4>1 DEF From
        <5>2. (DOMAIN Stored \ Unread(Stored))' = DOMAIN Stored \ Unread(Stored)
          BY <2>2, <4>1 DEF Unread
        <5>. QED BY <1>4, <4>2, <5>1, <5>2 DEF Box!Send
      <4>. QED BY <1>4, <3>1, <3>3, <4>3 DEF Box!Next
    <3>4. CASE op[p] = "fetch"
      <4>1. /\ From(Written(p)) = From(copy[p])
            /\ DOMAIN Written(p) \ Unread(Written(p)) = DOMAIN From(copy[p])
        BY <3>1, <3>2, <3>4, WrittenTyped, MailFetched
      <4>2. From(Stored)' = From(Stored)
        BY <2>2, <4>1 DEF From
      <4>3. (DOMAIN Stored \ Unread(Stored))' = DOMAIN From(Stored)
        BY <2>2, <4>1 DEF Unread
      <4>. QED BY <1>4, <4>2, <4>3 DEF Box!Next, Box!Fetch
    <3>. QED BY <3>1, <3>3, <3>4
  <2>. QED BY <1>4, <2>1, <2>2, StoredStep
<1>. QED BY <1>2, <1>3, <1>4

\* The inbox implements Mailbox: until a process is killed every message that
\* is sent stays in its place and is read once (appendMessage, readInbox).
THEOREM InboxIsMailbox == Spec => IsMailbox
<1>1. Init => Box!Init
  BY DEF Init, Box!Init, Stored, From, Unread
<1>2. IInv /\ [Next]_vars =>
        [Box!Next]_<<From(Stored), DOMAIN Stored \ Unread(Stored), crashes = 0>>
  BY BoxStep
<1>. QED BY <1>1, <1>2, Invariance, PTL DEF Spec, IsMailbox, Box!Spec

=============================================================================
