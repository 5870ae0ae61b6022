-------------------------- MODULE AgentLoop_proofs --------------------------
(***************************************************************************)
(* What holds of the agent and its loop for any number of calls, rounds,   *)
(* prompts and queued messages: the types, that no queued message is lost, *)
(* doubled or overtaken, that the transcript and the loop's context agree, *)
(* that every call has its result when the model is asked to go on, and    *)
(* that a follow-up message waits for the end of the tool calls.           *)
(***************************************************************************)
EXTENDS AgentLoop, SequenceTheorems, TLAPS

-----------------------------------------------------------------------------
(* The invariant.                                                          *)

SentBounded ==
  /\ sent["prompt"] <= MaxPrompts /\ sent["steer"] <= MaxSteers
  /\ sent["follow"] <= MaxFollowUps

\* What a poll took is handed to the model before anything else is polled.
PendingAtTurn == pc # "turn" => pending = <<>>

\* agent_end is the last event of a run.
EndIsLast ==
  /\ pc \in {"idle", "closing"} => events = <<>>
  /\ pc = "ended" <=> events # <<>> /\ Last(events) = AgentEnd
  /\ Announced \in Seq(Messages)

\* The numbers of the messages of a kind in a sequence, and the sequence in
\* which n messages of the kind were handed over and r given back.
Ids(kind, q) == {q[i].id : i \in {j \in DOMAIN q : OfKind(kind, q[j])}}

KeptBy(kind, line, n, r) ==
  /\ InOrder(kind, line)
  /\ Ids(kind, line) \subseteq 1..n
  /\ \A i \in 1..n : i \in Ids(kind, line) \/ User(kind, i) \in r

Conserved ==
  /\ KeptBy("steer", Held \o steering, sent["steer"], returned)
  /\ KeptBy("follow", Held \o followUp, sent["follow"], returned)
  /\ KeptBy("prompt", Held \o <<>>, sent["prompt"], returned)

QueueKinds ==
  /\ \A k \in {"prompt", "follow"} : Ids(k, steering) = {}
  /\ \A k \in {"prompt", "steer"} : Ids(k, followUp) = {}

\* The loop polls the follow-up messages after a reply without calls.
AnswersFirst == pc = "follow" => context # <<>> /\ Last(context) = Assistant(0, "done")

\* Every reply of c has its results, except the one at open, and every result
\* belongs to a call.
Sound(c, open) ==
  \A i \in DOMAIN c :
    /\ i # open /\ c[i].role = "assistant" /\ c[i].stop = "done" => Answered(c, i)
    /\ c[i].role = "result" => /\ i - c[i].call \in DOMAIN c
                               /\ c[i - c[i].call].role = "assistant"
                               /\ c[i].call <= c[i - c[i].call].calls

\* The reply at p asked for n calls, and m of them have their results, the
\* last elements of c.
Open(c, p, n, m) ==
  /\ p \in DOMAIN c /\ Len(c) = p + m
  /\ c[p].role = "assistant" /\ c[p].calls = n
  /\ \A k \in 1..m : c[p + k].role = "result" /\ c[p + k].call = k

Working == Len(context) - next + 1

CallsSound ==
  /\ pc = "idle" => Sound(messages, 0)
  /\ pc \notin {"idle", "tool"} => Sound(context, 0)
  /\ pc = "tool" => /\ 1 <= next /\ next <= calls
                    /\ Sound(context, Working) /\ Open(context, Working, calls, next - 1)

IInv ==
  /\ TypeOK /\ SentBounded /\ PendingAtTurn /\ EndIsLast /\ TranscriptsAgree
  /\ Conserved /\ QueueKinds /\ AnswersFirst /\ CallsSound

-----------------------------------------------------------------------------
(* Messages and sequences of them.                                         *)

Bound == MaxPrompts + MaxSteers + MaxFollowUps

LEMMA UserShape ==
  ASSUME NEW e \in Users
  PROVE  /\ e \in Messages /\ e.role = "user" /\ e.from \in Kinds /\ e.id \in 1..Bound /\ e.id \in Int
         /\ e = User(e.from, e.id)
<1>1. PICK k \in Kinds, i \in 1..Bound : e = User(k, i)
  BY DEF Users, Bound
<1>2. e.role = "user" /\ e.from = k /\ e.id = i
  BY <1>1 DEF User
<1>3. Bound \in Int /\ i \in Int
  BY ConstantsOK DEF Bound
<1>4. e = User(e.from, e.id)
  BY <1>1, <1>2
<1>. QED BY <1>1, <1>2, <1>3, <1>4 DEF Messages

LEMMA UserIs ==
  ASSUME NEW k \in Kinds, NEW i \in 1..Bound
  PROVE  /\ User(k, i) \in Users /\ User(k, i) \in Messages
         /\ User(k, i).role = "user" /\ User(k, i).from = k /\ User(k, i).id = i
  BY DEF User, Users, Messages, Bound

LEMMA AssistantIs ==
  ASSUME NEW n \in 0..MaxCalls, NEW s \in {"done"} \cup Failures
  PROVE  /\ Assistant(n, s) \in Messages /\ Assistant(n, s).role = "assistant"
         /\ Assistant(n, s).calls = n /\ Assistant(n, s).stop = s
<1>1. Assistant(n, s) \in Assistants
  BY DEF Assistants
<1>. QED BY <1>1 DEF Messages, Assistant

LEMMA ResultIs ==
  ASSUME NEW i \in 1..MaxCalls, NEW how \in {"ran", "skipped"}
  PROVE  /\ Result(i, how) \in Messages /\ Result(i, how).role = "result" /\ Result(i, how).call = i
<1>1. Result(i, how) \in Results
  BY DEF Results
<1>. QED BY <1>1 DEF Messages, Result

LEMMA MessageShape ==
  ASSUME NEW e \in Messages
  PROVE  /\ e.role = "user" => e \in Users
         /\ e.role = "assistant" => e.calls \in 0..MaxCalls /\ e.calls \in Nat /\ e.stop \in {"done"} \cup Failures
         /\ e.role = "result" => e.call \in 1..MaxCalls /\ e.call \in Nat \ {0}
         /\ e # AgentEnd /\ e.role # "agent_end"
<1>0. \A i \in 0..MaxCalls : i \in Nat
  BY ConstantsOK
<1>1. CASE e \in Users
  BY <1>1, UserShape DEF AgentEnd
<1>2. CASE e \in Assistants
  <2>1. PICK n \in 0..MaxCalls, s \in {"done"} \cup Failures : e = Assistant(n, s)
    BY <1>2 DEF Assistants
  <2>2. e.role = "assistant" /\ e.calls = n /\ e.stop = s
    BY <2>1, AssistantIs
  <2>. QED BY <1>0, <2>1, <2>2 DEF AgentEnd
<1>3. CASE e \in Results
  <2>1. PICK i \in 1..MaxCalls, how \in {"ran", "skipped"} : e = Result(i, how)
    BY <1>3 DEF Results
  <2>2. e.role = "result" /\ e.call = i
    BY <2>1, ResultIs
  <2>3. i \in Nat \ {0}
    BY ConstantsOK
  <2>. QED BY <2>1, <2>2, <2>3 DEF AgentEnd
<1>. QED BY <1>1, <1>2, <1>3 DEF Messages

LEMMA EndIs == AgentEnd.role = "agent_end" /\ AgentEnd \notin Messages
<1>1. AgentEnd.role = "agent_end"
  BY DEF AgentEnd
<1>. QED BY <1>1, MessageShape

\* The elements of a concatenation.
LEMMA Joined ==
  ASSUME NEW S, NEW s \in Seq(S), NEW t \in Seq(S)
  PROVE  /\ s \o t \in Seq(S)
         /\ DOMAIN s = 1..Len(s) /\ DOMAIN t = 1..Len(t)
         /\ Len(s) \in Nat /\ Len(t) \in Nat /\ Len(s \o t) = Len(s) + Len(t)
         /\ DOMAIN (s \o t) = 1..(Len(s) + Len(t))
         /\ \A i \in DOMAIN s : (s \o t)[i] = s[i] /\ i \in DOMAIN (s \o t)
         /\ \A i \in DOMAIN t : (s \o t)[Len(s) + i] = t[i] /\ Len(s) + i \in DOMAIN (s \o t)
         /\ \A i \in DOMAIN (s \o t) : i \in DOMAIN s \/ \E j \in DOMAIN t : i = Len(s) + j
<1>1. /\ s \o t \in Seq(S) /\ DOMAIN s = 1..Len(s) /\ DOMAIN t = 1..Len(t)
      /\ Len(s) \in Nat /\ Len(t) \in Nat /\ Len(s \o t) = Len(s) + Len(t)
      /\ DOMAIN (s \o t) = 1..(Len(s) + Len(t))
  BY ConcatProperties, LenProperties
<1>2. \A i \in 1..(Len(s) + Len(t)) : (s \o t)[i] = IF i <= Len(s) THEN s[i] ELSE t[i - Len(s)]
  BY ConcatProperties
<1>3. \A i \in DOMAIN s : (s \o t)[i] = s[i] /\ i \in DOMAIN (s \o t)
  BY <1>1, <1>2
<1>4. ASSUME NEW i \in DOMAIN t
      PROVE  (s \o t)[Len(s) + i] = t[i] /\ Len(s) + i \in DOMAIN (s \o t)
  <2>1. Len(s) + i \in 1..(Len(s) + Len(t)) /\ ~(Len(s) + i <= Len(s)) /\ (Len(s) + i) - Len(s) = i
    BY <1>1
  <2>. QED BY <1>1, <1>2, <2>1
<1>5. ASSUME NEW i \in DOMAIN (s \o t), i \notin DOMAIN s
      PROVE  \E j \in DOMAIN t : i = Len(s) + j
  <2>1. i - Len(s) \in DOMAIN t /\ i = Len(s) + (i - Len(s))
    BY <1>1, <1>5
  <2>. QED BY <2>1
<1>. QED BY <1>1, <1>3, <1>4, <1>5

LEMMA One ==
  ASSUME NEW S, NEW e \in S
  PROVE  <<e>> \in Seq(S) /\ Len(<<e>>) = 1 /\ <<e>>[1] = e /\ DOMAIN <<e>> = {1}
  OBVIOUS

LEMMA Regrouped ==
  ASSUME NEW s \in Seq(Messages), NEW t \in Seq(Messages), NEW u \in Seq(Messages)
  PROVE  (s \o t) \o u = s \o (t \o u)
  BY ConcatAssociative

LEMMA PairJoined ==
  ASSUME NEW a, NEW b
  PROVE  <<a>> \o <<b>> = <<a, b>>
<1>. DEFINE s == <<a>>
            t == <<b>>
            S == {a, b}
<1>1. s \in Seq(S) /\ t \in Seq(S) /\ Len(s) = 1 /\ Len(t) = 1 /\ s[1] = a /\ t[1] = b
  OBVIOUS
<1>2. <<a, b>> \in Seq(S) /\ Len(<<a, b>>) = 2 /\ <<a, b>>[1] = a /\ <<a, b>>[2] = b
  OBVIOUS
<1>. HIDE DEF s, t, S
<1>3. /\ s \o t \in Seq(S) /\ Len(s \o t) = Len(s) + Len(t)
      /\ \A i \in 1..(Len(s) + Len(t)) : (s \o t)[i] = IF i <= Len(s) THEN s[i] ELSE t[i - Len(s)]
  BY <1>1, ConcatProperties
<1>4. Len(s \o t) = 2 /\ (s \o t)[1] = a /\ (s \o t)[2] = b
  BY <1>1, <1>3
<1>5. \A i \in 1..2 : (s \o t)[i] = <<a, b>>[i]
  BY <1>2, <1>4
<1>6. s \o t = <<a, b>>
  BY <1>2, <1>3, <1>4, <1>5, SeqEqual
<1>. QED BY <1>6 DEF s, t

LEMMA Empty == ASSUME NEW S PROVE <<>> \in Seq(S) /\ Len(<<>>) = 0 /\ DOMAIN <<>> = {}
  OBVIOUS

\* What a poll takes and leaves is the queue.
LEMMA Polled ==
  ASSUME NEW S, NEW q \in Seq(S), NEW mode
  PROVE  /\ Taken(mode, q) \in Seq(S) /\ Left(mode, q) \in Seq(S)
         /\ Taken(mode, q) \o Left(mode, q) = q
         /\ q = <<>> => Taken(mode, q) = <<>> /\ Left(mode, q) = <<>>
         /\ q # <<>> => Taken(mode, q) # <<>>
<1>1. CASE mode = "all" \/ q = <<>>
  BY <1>1, ConcatEmptySeq, Empty DEF Taken, Left
<1>2. CASE ~(mode = "all" \/ q = <<>>)
  <2>1. /\ Head(q) \in S /\ Tail(q) \in Seq(S) /\ Len(Tail(q)) = Len(q) - 1
        /\ \A i \in 1..Len(Tail(q)) : Tail(q)[i] = q[i + 1]
        /\ Len(q) \in Nat \ {0} /\ Head(q) = q[1]
    BY <1>2, HeadTailProperties, EmptySeq
  <2>2. <<Head(q)>> \in Seq(S) /\ Len(<<Head(q)>>) = 1 /\ <<Head(q)>>[1] = Head(q)
    BY <2>1
  <2>3. <<Head(q)>> \o Tail(q) = q
    <3>1. <<Head(q)>> \o Tail(q) \in Seq(S) /\ Len(<<Head(q)>> \o Tail(q)) = Len(q)
      BY <2>1, <2>2, ConcatProperties
    <3>2. ASSUME NEW i \in 1..Len(q) PROVE (<<Head(q)>> \o Tail(q))[i] = q[i]
      <4>1. i \in 1..(1 + Len(Tail(q))) /\ (i <= 1 => i = 1)
        BY <2>1
      <4>2. (<<Head(q)>> \o Tail(q))[i] = IF i <= 1 THEN <<Head(q)>>[i] ELSE Tail(q)[i - 1]
        BY <2>1, <2>2, <4>1, ConcatProperties
      <4>3. ~(i <= 1) => i - 1 \in 1..Len(Tail(q)) /\ (i - 1) + 1 = i
        BY <2>1
      <4>. QED BY <2>1, <2>2, <4>1, <4>2, <4>3
    <3>. QED BY <3>1, <3>2, SeqEqual
  <2>4. Taken(mode, q) = <<Head(q)>> /\ Left(mode, q) = Tail(q)
    BY <1>2 DEF Taken, Left
  <2>5. <<Head(q)>> # <<>>
    BY <2>2, Empty
  <2>. QED BY <1>2, <2>1, <2>2, <2>3, <2>4, <2>5
<1>. QED BY <1>1, <1>2

-----------------------------------------------------------------------------
(* The messages of a kind.                                                 *)

\* A message of a kind has a number.
LEMMA OfKindHasId ==
  ASSUME NEW kind, NEW e \in Messages, OfKind(kind, e)
  PROVE  e.id \in Int /\ e.id \in 1..Bound /\ e = User(kind, e.id)
  BY MessageShape, UserShape DEF OfKind

LEMMA IdsAre ==
  ASSUME NEW kind, NEW q \in Seq(Messages)
  PROVE  /\ \A n : n \in Ids(kind, q) <=> \E i \in DOMAIN q : OfKind(kind, q[i]) /\ q[i].id = n
         /\ \A i \in DOMAIN q : OfKind(kind, q[i]) => q[i].id \in Ids(kind, q)
         /\ Ids(kind, q) \subseteq Int
<1>1. \A n : n \in Ids(kind, q) <=> \E i \in DOMAIN q : OfKind(kind, q[i]) /\ q[i].id = n
  BY DEF Ids
<1>2. \A i \in DOMAIN q : q[i] \in Messages
  BY LenProperties
<1>. QED BY <1>1, <1>2, OfKindHasId

LEMMA IdsJoined ==
  ASSUME NEW kind, NEW s \in Seq(Messages), NEW t \in Seq(Messages)
  PROVE  Ids(kind, s \o t) = Ids(kind, s) \cup Ids(kind, t)
<1>1. /\ s \o t \in Seq(Messages)
      /\ \A i \in DOMAIN s : (s \o t)[i] = s[i] /\ i \in DOMAIN (s \o t)
      /\ \A i \in DOMAIN t : (s \o t)[Len(s) + i] = t[i] /\ Len(s) + i \in DOMAIN (s \o t)
      /\ \A i \in DOMAIN (s \o t) : i \in DOMAIN s \/ \E j \in DOMAIN t : i = Len(s) + j
  BY Joined
<1>2. ASSUME NEW n \in Ids(kind, s \o t) PROVE n \in Ids(kind, s) \cup Ids(kind, t)
  <2>1. PICK i \in DOMAIN (s \o t) : OfKind(kind, (s \o t)[i]) /\ (s \o t)[i].id = n
    BY DEF Ids
  <2>2. CASE i \in DOMAIN s
    BY <1>1, <2>1, <2>2, IdsAre
  <2>3. CASE \E j \in DOMAIN t : i = Len(s) + j
    <3>1. PICK j \in DOMAIN t : i = Len(s) + j
      BY <2>3
    <3>2. OfKind(kind, t[j]) /\ t[j].id = n
      BY <1>1, <2>1, <3>1
    <3>. QED BY <3>2, IdsAre
  <2>. QED BY <1>1, <2>2, <2>3
<1>3. ASSUME NEW n \in Ids(kind, s) PROVE n \in Ids(kind, s \o t)
  <2>1. PICK i \in DOMAIN s : OfKind(kind, s[i]) /\ s[i].id = n
    BY IdsAre
  <2>2. i \in DOMAIN (s \o t) /\ OfKind(kind, (s \o t)[i]) /\ (s \o t)[i].id = n
    BY <1>1, <2>1
  <2>. QED BY <1>1, <2>2, IdsAre
<1>4. ASSUME NEW n \in Ids(kind, t) PROVE n \in Ids(kind, s \o t)
  <2>1. PICK i \in DOMAIN t : OfKind(kind, t[i]) /\ t[i].id = n
    BY IdsAre
  <2>. DEFINE j == Len(s) + i
  <2>2. j \in DOMAIN (s \o t) /\ OfKind(kind, (s \o t)[j]) /\ (s \o t)[j].id = n
    BY <1>1, <2>1
  <2>. QED BY <1>1, <2>2, IdsAre
<1>. QED BY <1>2, <1>3, <1>4

\* A concatenation is in order when its parts are and the first goes before.
LEMMA OrderJoined ==
  ASSUME NEW kind, NEW s \in Seq(Messages), NEW t \in Seq(Messages)
  PROVE  InOrder(kind, s \o t) <=> /\ InOrder(kind, s) /\ InOrder(kind, t)
                                   /\ \A a \in Ids(kind, s), b \in Ids(kind, t) : a < b
<1>1. /\ s \o t \in Seq(Messages) /\ Len(s) \in Nat
      /\ DOMAIN s = 1..Len(s) /\ DOMAIN t = 1..Len(t) /\ Len(t) \in Nat
      /\ \A i \in DOMAIN s : (s \o t)[i] = s[i] /\ i \in DOMAIN (s \o t)
      /\ \A i \in DOMAIN t : (s \o t)[Len(s) + i] = t[i] /\ Len(s) + i \in DOMAIN (s \o t)
      /\ \A i \in DOMAIN (s \o t) : i \in DOMAIN s \/ \E j \in DOMAIN t : i = Len(s) + j
  BY Joined
<1>2. ASSUME InOrder(kind, s \o t)
      PROVE  /\ InOrder(kind, s) /\ InOrder(kind, t)
             /\ \A a \in Ids(kind, s), b \in Ids(kind, t) : a < b
  <2>1. InOrder(kind, s)
    BY <1>1, <1>2 DEF InOrder
  <2>2. InOrder(kind, t)
    <3> SUFFICES ASSUME NEW i \in DOMAIN t, NEW j \in DOMAIN t,
                        OfKind(kind, t[i]), OfKind(kind, t[j]), i < j
                 PROVE  t[i].id < t[j].id
      BY DEF InOrder
    <3>1. Len(s) + i < Len(s) + j
      BY <1>1
    <3>2. (s \o t)[Len(s) + i] = t[i] /\ (s \o t)[Len(s) + j] = t[j]
      BY <1>1
    <3>3. Len(s) + i \in DOMAIN (s \o t) /\ Len(s) + j \in DOMAIN (s \o t)
      BY <1>1
    <3>. QED BY <1>2, <3>1, <3>2, <3>3 DEF InOrder
  <2>3. ASSUME NEW a \in Ids(kind, s), NEW b \in Ids(kind, t) PROVE a < b
    <3>1. PICK i \in DOMAIN s : OfKind(kind, s[i]) /\ s[i].id = a
      BY IdsAre
    <3>2. PICK j \in DOMAIN t : OfKind(kind, t[j]) /\ t[j].id = b
      BY IdsAre
    <3>3. i < Len(s) + j
      BY <1>1
    <3>4. (s \o t)[i] = s[i] /\ (s \o t)[Len(s) + j] = t[j]
      BY <1>1
    <3>5. i \in DOMAIN (s \o t) /\ Len(s) + j \in DOMAIN (s \o t)
      BY <1>1
    <3>. QED BY <1>2, <3>1, <3>2, <3>3, <3>4, <3>5 DEF InOrder
  <2>. QED BY <2>1, <2>2, <2>3
<1>3. ASSUME InOrder(kind, s), InOrder(kind, t), \A a \in Ids(kind, s), b \in Ids(kind, t) : a < b
      PROVE  InOrder(kind, s \o t)
  <2> SUFFICES ASSUME NEW i \in DOMAIN (s \o t), NEW j \in DOMAIN (s \o t),
                      OfKind(kind, (s \o t)[i]), OfKind(kind, (s \o t)[j]), i < j
               PROVE  (s \o t)[i].id < (s \o t)[j].id
    BY DEF InOrder
  <2>1. CASE i \in DOMAIN s /\ j \in DOMAIN s
    BY <1>1, <1>3, <2>1 DEF InOrder
  <2>2. CASE i \in DOMAIN s /\ j \notin DOMAIN s
    <3>1. PICK h \in DOMAIN t : j = Len(s) + h
      BY <1>1, <2>2
    <3>2. (s \o t)[i] = s[i] /\ (s \o t)[j] = t[h]
      BY <1>1, <2>2, <3>1
    <3>3. s[i].id \in Ids(kind, s) /\ t[h].id \in Ids(kind, t)
      BY <2>2, <3>2, IdsAre
    <3>. QED BY <1>3, <3>2, <3>3
  <2>3. CASE i \notin DOMAIN s
    <3>1. PICK g \in DOMAIN t : i = Len(s) + g
      BY <1>1, <2>3
    <3>2. j \notin DOMAIN s
      BY <1>1, <3>1
    <3>3. PICK h \in DOMAIN t : j = Len(s) + h
      BY <1>1, <3>2
    <3>4. g < h
      BY <1>1, <3>1, <3>3
    <3>5. (s \o t)[i] = t[g] /\ (s \o t)[j] = t[h]
      BY <1>1, <3>1, <3>3
    <3>. QED BY <1>3, <3>4, <3>5 DEF InOrder
  <2>. QED BY <2>1, <2>2, <2>3
<1>. QED BY <1>2, <1>3

LEMMA NoneInOrder ==
  ASSUME NEW kind, NEW q \in Seq(Messages), Ids(kind, q) = {}
  PROVE  InOrder(kind, q)
<1>1. \A i \in DOMAIN q : ~OfKind(kind, q[i])
  BY IdsAre
<1>. QED BY <1>1 DEF InOrder

\* The messages of a kind in a sequence of one.
LEMMA IdsOfOne ==
  ASSUME NEW kind, NEW e \in Messages
  PROVE  /\ Ids(kind, <<e>>) = IF OfKind(kind, e) THEN {e.id} ELSE {}
         /\ InOrder(kind, <<e>>)
<1>1. DOMAIN <<e>> = {1} /\ <<e>>[1] = e
  OBVIOUS
<1>2. Ids(kind, <<e>>) = IF OfKind(kind, e) THEN {e.id} ELSE {}
  BY <1>1 DEF Ids
<1>3. InOrder(kind, <<e>>)
  BY <1>1 DEF InOrder
<1>. QED BY <1>2, <1>3

LEMMA IdsOfNone == ASSUME NEW kind PROVE Ids(kind, <<>>) = {} /\ InOrder(kind, <<>>)
<1>1. DOMAIN <<>> = {}
  OBVIOUS
<1>. QED BY <1>1 DEF Ids, InOrder

-----------------------------------------------------------------------------
(* What keeps the messages of a kind.                                      *)

\* Other messages come in between, or leave.
LEMMA KeptBetween ==
  ASSUME NEW kind, NEW n, NEW r,
         NEW h \in Seq(Messages), NEW x \in Seq(Messages), NEW q \in Seq(Messages), Ids(kind, x) = {}
  PROVE  KeptBy(kind, (h \o x) \o q, n, r) <=> KeptBy(kind, h \o q, n, r)
<1>1. h \o x \in Seq(Messages)
  BY Joined
<1>2. Ids(kind, h \o x) = Ids(kind, h)
  <2>1. Ids(kind, h \o x) = Ids(kind, h) \cup Ids(kind, x)
    BY IdsJoined
  <2>. QED BY <2>1
<1>3. InOrder(kind, h \o x) <=> InOrder(kind, h)
  BY OrderJoined, NoneInOrder
<1>4. Ids(kind, (h \o x) \o q) = Ids(kind, h \o q)
  <2>1. Ids(kind, (h \o x) \o q) = Ids(kind, h \o x) \cup Ids(kind, q)
    BY <1>1, IdsJoined
  <2>2. Ids(kind, h \o q) = Ids(kind, h) \cup Ids(kind, q)
    BY IdsJoined
  <2>. QED BY <1>2, <2>1, <2>2
<1>5. InOrder(kind, (h \o x) \o q) <=> InOrder(kind, h \o q)
  BY <1>1, <1>2, <1>3, OrderJoined
<1>. QED BY <1>4, <1>5 DEF KeptBy

\* A poll moves messages from the queue to the conversation.
LEMMA KeptMoved ==
  ASSUME NEW kind, NEW n, NEW r,
         NEW h \in Seq(Messages), NEW p \in Seq(Messages), NEW q \in Seq(Messages)
  PROVE  KeptBy(kind, (h \o p) \o q, n, r) <=> KeptBy(kind, h \o (p \o q), n, r)
<1>1. (h \o p) \o q = h \o (p \o q)
  BY ConcatAssociative
<1>. QED BY <1>1

\* One more message is handed over.
LEMMA KeptGiven ==
  ASSUME NEW kind \in Kinds, NEW n \in Nat, NEW r, n + 1 \in 1..Bound,
         NEW q \in Seq(Messages), KeptBy(kind, q, n, r)
  PROVE  KeptBy(kind, q \o <<User(kind, n + 1)>>, n + 1, r)
<1>. DEFINE u == User(kind, n + 1)
<1>1. u \in Messages /\ OfKind(kind, u) /\ u.id = n + 1
  BY UserIs DEF OfKind
<1>2. <<u>> \in Seq(Messages) /\ Ids(kind, <<u>>) = {n + 1} /\ InOrder(kind, <<u>>)
  <2>1. <<u>> \in Seq(Messages)
    BY <1>1
  <2>. HIDE DEF u
  <2>. QED BY <1>1, <2>1, IdsOfOne
<1>. HIDE DEF u
<1>3. \A a \in Ids(kind, q), b \in Ids(kind, <<u>>) : a < b
  BY <1>2 DEF KeptBy
<1>4. InOrder(kind, q \o <<u>>)
  BY <1>2, <1>3, OrderJoined DEF KeptBy
<1>5. Ids(kind, q \o <<u>>) = Ids(kind, q) \cup {n + 1}
  <2>1. Ids(kind, q \o <<u>>) = Ids(kind, q) \cup Ids(kind, <<u>>)
    BY <1>2, IdsJoined
  <2>. QED BY <1>2, <2>1
<1>6. \A i \in 1..(n + 1) : i \in 1..n \/ i = n + 1
  OBVIOUS
<1>7. 1..n \subseteq 1..(n + 1) /\ n + 1 \in 1..(n + 1)
  OBVIOUS
<1>. QED BY <1>4, <1>5, <1>6, <1>7 DEF KeptBy, u

\* The queue is cleared and given back.
LEMMA KeptCleared ==
  ASSUME NEW kind, NEW n, NEW r,
         NEW h \in Seq(Messages), NEW q \in Seq(Messages), KeptBy(kind, h \o q, n, {}),
         \A i \in Ids(kind, q) : User(kind, i) \in r
  PROVE  KeptBy(kind, h \o <<>>, n, r)
<1>1. h \o <<>> = h
  BY ConcatEmptySeq
<1>2. InOrder(kind, h) /\ Ids(kind, h \o q) = Ids(kind, h) \cup Ids(kind, q)
  BY OrderJoined, IdsJoined DEF KeptBy
<1>. QED BY <1>1, <1>2 DEF KeptBy

-----------------------------------------------------------------------------
(* First and last elements.                                                *)

LEMMA FrontLast ==
  ASSUME NEW S, NEW q \in Seq(S), q # <<>>
  PROVE  /\ Front(q) \in Seq(S) /\ Last(q) \in S /\ Front(q) \o <<Last(q)>> = q
         /\ Len(q) \in Nat \ {0} /\ Len(Front(q)) = Len(q) - 1
<1>1. Len(q) \in Nat \ {0} /\ \A i \in 1..Len(q) : q[i] \in S
  BY EmptySeq, ElementOfSeq
<1>2. 1 \in 1..Len(q) /\ Len(q) \in 1..Len(q) /\ Len(q) - 1 \in Int /\ 1 \in Int
  BY <1>1
<1>3. \A i \in 1..(Len(q) - 1) : i \in 1..Len(q)
  BY <1>1
<1>4. /\ SubSeq(q, 1, Len(q) - 1) \in Seq(S)
      /\ Len(SubSeq(q, 1, Len(q) - 1)) = IF 1 <= Len(q) - 1 THEN (Len(q) - 1) - 1 + 1 ELSE 0
  BY <1>1, <1>2, <1>3, SubSeqProperties
<1>5. SubSeq(q, 1, Len(q)) = SubSeq(q, 1, Len(q) - 1) \o <<q[Len(q)]>>
  BY <1>2, SubSeqRecursiveSecond
<1>6. SubSeq(q, 1, Len(q)) = q
  BY SubSeqFull
<1>7. Front(q) \in Seq(S) /\ Len(Front(q)) = Len(q) - 1
  <2>. DEFINE f == SubSeq(q, 1, Len(q) - 1)
  <2>1. f \in Seq(S) /\ Len(f) = IF 1 <= Len(q) - 1 THEN (Len(q) - 1) - 1 + 1 ELSE 0
    BY <1>4
  <2>2. Front(q) = f
    BY DEF Front
  <2>. HIDE DEF f
  <2>3. Len(f) = Len(q) - 1
    <3>. DEFINE n == Len(q)
    <3>1. n \in Nat \ {0} /\ Len(f) = IF 1 <= n - 1 THEN (n - 1) - 1 + 1 ELSE 0
      BY <1>1, <2>1
    <3>. HIDE DEF n
    <3>2. CASE 1 <= n - 1
      BY <3>1, <3>2 DEF n
    <3>3. CASE ~(1 <= n - 1)
      BY <3>1, <3>3 DEF n
    <3>. QED BY <3>2, <3>3
  <2>. QED BY <2>1, <2>2, <2>3
<1>8. Last(q) \in S
  BY <1>1, <1>2 DEF Last
<1>9. Front(q) \o <<Last(q)>> = q
  BY <1>5, <1>6, Zenon DEF Front, Last
<1>. QED BY <1>1, <1>7, <1>8, <1>9

LEMMA LastOfJoined ==
  ASSUME NEW S, NEW q \in Seq(S), NEW e \in S
  PROVE  /\ q \o <<e>> \in Seq(S) /\ q \o <<e>> # <<>> /\ Append(q, e) = q \o <<e>>
         /\ Last(q \o <<e>>) = e /\ Front(q \o <<e>>) = q
<1>. DEFINE x == q \o <<e>>
<1>1. Append(q, e) = x
  BY AppendIsConcat
<1>2. x \in Seq(S) /\ x # <<>> /\ Len(x) = Len(q) + 1 /\ x[Len(q) + 1] = e
  BY <1>1, AppendProperties
<1>3. Last(x) = e
  BY <1>2 DEF Last
<1>. HIDE DEF x
<1>4. Front(x) \in Seq(S) /\ Front(x) \o <<e>> = x
  BY <1>2, <1>3, FrontLast
<1>5. Append(Front(x), e) = Append(q, e)
  <2>1. Append(Front(x), e) = Front(x) \o <<e>>
    BY <1>4, AppendIsConcat
  <2>. QED BY <1>1, <1>4, <2>1
<1>6. Front(x) = q
  BY <1>4, <1>5, AppendInjective
<1>. QED BY <1>1, <1>2, <1>3, <1>6 DEF x

LEMMA HeadTail ==
  ASSUME NEW S, NEW q \in Seq(S), q # <<>>
  PROVE  Head(q) \in S /\ Tail(q) \in Seq(S) /\ <<Head(q)>> \o Tail(q) = q
<1>1. Taken("one-at-a-time", q) = <<Head(q)>> /\ Left("one-at-a-time", q) = Tail(q)
  BY DEF Taken, Left
<1>2. Head(q) \in S /\ Tail(q) \in Seq(S)
  BY HeadTailProperties
<1>. QED BY <1>1, <1>2, Polled

-----------------------------------------------------------------------------
(* Replies and results.                                                    *)

Plain(e) == e.role # "result" /\ (e.role = "assistant" /\ e.stop = "done" => e.calls = 0)

LEMMA AnsweredExtended ==
  ASSUME NEW c \in Seq(Messages), NEW t \in Seq(Messages), NEW i \in DOMAIN c, Answered(c, i)
  PROVE  Answered(c \o t, i)
<1>1. \A j \in DOMAIN c : (c \o t)[j] = c[j] /\ j \in DOMAIN (c \o t)
  BY Joined
<1>. QED BY <1>1 DEF Answered

\* A message that asks for nothing and is no result does no harm.
LEMMA SoundExtended ==
  ASSUME NEW c \in Seq(Messages), NEW t \in Seq(Messages), NEW open, Sound(c, open),
         \A i \in DOMAIN t : Plain(t[i])
  PROVE  Sound(c \o t, open)
<1>1. /\ c \o t \in Seq(Messages) /\ Len(c) \in Nat
      /\ \A i \in DOMAIN c : (c \o t)[i] = c[i] /\ i \in DOMAIN (c \o t)
      /\ \A i \in DOMAIN t : (c \o t)[Len(c) + i] = t[i]
      /\ \A i \in DOMAIN (c \o t) : i \in DOMAIN c \/ \E j \in DOMAIN t : i = Len(c) + j
  BY Joined
<1>2. ASSUME NEW i \in DOMAIN c
      PROVE  /\ i # open /\ (c \o t)[i].role = "assistant" /\ (c \o t)[i].stop = "done" => Answered(c \o t, i)
             /\ (c \o t)[i].role = "result" =>
                  /\ i - (c \o t)[i].call \in DOMAIN (c \o t)
                  /\ (c \o t)[i - (c \o t)[i].call].role = "assistant"
                  /\ (c \o t)[i].call <= (c \o t)[i - (c \o t)[i].call].calls
  BY <1>1, AnsweredExtended DEF Sound
<1>3. ASSUME NEW i \in DOMAIN (c \o t), i \notin DOMAIN c
      PROVE  /\ (c \o t)[i].role = "assistant" /\ (c \o t)[i].stop = "done" => Answered(c \o t, i)
             /\ (c \o t)[i].role # "result"
  <2>1. PICK j \in DOMAIN t : (c \o t)[i] = t[j]
    BY <1>1, <1>3
  <2>2. Plain((c \o t)[i])
    BY <2>1
  <2>. QED BY <2>2 DEF Plain, Answered
<1>. QED BY <1>2, <1>3 DEF Sound

\* A reply that asks for tools is left open.
LEMMA SoundOpened ==
  ASSUME NEW c \in Seq(Messages), NEW e \in Messages, e.role = "assistant", Sound(c, 0)
  PROVE  /\ Sound(c \o <<e>>, Len(c) + 1) /\ Open(c \o <<e>>, Len(c) + 1, e.calls, 0)
         /\ Len(c \o <<e>>) = Len(c) + 1
<1>. DEFINE d == c \o <<e>>
<1>1. <<e>> \in Seq(Messages) /\ Len(<<e>>) = 1 /\ DOMAIN <<e>> = {1} /\ <<e>>[1] = e
  BY One
<1>2. /\ d \in Seq(Messages) /\ Len(c) \in Nat /\ Len(d) = Len(c) + 1 /\ DOMAIN c = 1..Len(c)
      /\ \A i \in DOMAIN c : d[i] = c[i] /\ i \in DOMAIN d
      /\ d[Len(c) + 1] = e /\ Len(c) + 1 \in DOMAIN d
      /\ \A i \in DOMAIN d : i \in DOMAIN c \/ i = Len(c) + 1
  BY <1>1, Joined
<1>3. \A i \in DOMAIN c : i # 0
  BY <1>2
<1>4. \A i \in DOMAIN c : Answered(c, i) => Answered(d, i)
  BY <1>1, AnsweredExtended
<1>. HIDE DEF d
<1>5. Sound(d, Len(c) + 1)
  BY <1>2, <1>3, <1>4 DEF Sound
<1>6. Open(d, Len(c) + 1, e.calls, 0)
  BY <1>2 DEF Open
<1>. QED BY <1>2, <1>5, <1>6 DEF d

\* Results of the open reply come after those it has, and the last one
\* closes it.
LEMMA ResultsAdded ==
  ASSUME NEW c \in Seq(Messages), NEW t \in Seq(Messages), NEW p, NEW n \in Nat, NEW m \in Nat,
         Sound(c, p), Open(c, p, n, m), m + Len(t) <= n,
         \A k \in DOMAIN t : t[k].role = "result" /\ t[k].call = m + k
  PROVE  /\ Sound(c \o t, p) /\ Open(c \o t, p, n, m + Len(t))
         /\ m + Len(t) = n => Sound(c \o t, 0)
<1>. DEFINE d == c \o t
<1>1. /\ d \in Seq(Messages) /\ Len(c) \in Nat /\ Len(t) \in Nat /\ Len(d) = Len(c) + Len(t)
      /\ DOMAIN c = 1..Len(c) /\ DOMAIN t = 1..Len(t)
      /\ \A i \in DOMAIN c : d[i] = c[i] /\ i \in DOMAIN d
      /\ \A i \in DOMAIN t : d[Len(c) + i] = t[i] /\ Len(c) + i \in DOMAIN d
      /\ \A i \in DOMAIN d : i \in DOMAIN c \/ \E j \in DOMAIN t : i = Len(c) + j
  BY Joined
<1>2. /\ p \in Nat /\ p \in DOMAIN c /\ Len(c) = p + m /\ c[p].role = "assistant" /\ c[p].calls = n
      /\ \A k \in 1..m : c[p + k].role = "result" /\ c[p + k].call = k
  BY <1>1 DEF Open
<1>3. \A i \in DOMAIN c : Answered(c, i) => Answered(d, i)
  BY AnsweredExtended
<1>. HIDE DEF d
<1>4. ASSUME NEW i \in DOMAIN t
      PROVE  /\ d[Len(c) + i].role = "result" /\ d[Len(c) + i].call = m + i
             /\ (Len(c) + i) - (m + i) = p /\ m + i <= n
  BY <1>1, <1>2
<1>5. d[p] = c[p] /\ p \in DOMAIN d
  BY <1>1, <1>2
<1>6. Open(d, p, n, m + Len(t))
  <2>1. ASSUME NEW k \in 1..(m + Len(t)) PROVE d[p + k].role = "result" /\ d[p + k].call = k
    <3>1. CASE k \in 1..m
      <4>1. p + k \in DOMAIN c
        BY <1>1, <1>2, <3>1
      <4>. QED BY <1>1, <1>2, <3>1, <4>1
    <3>2. CASE k \notin 1..m
      <4>1. k - m \in DOMAIN t /\ Len(c) + (k - m) = p + k /\ m + (k - m) = k
        BY <1>1, <1>2, <3>2
      <4>. QED BY <1>4, <4>1
    <3>. QED BY <3>1, <3>2
  <2>. QED BY <1>1, <1>2, <1>5, <2>1 DEF Open
<1>7. Sound(d, p)
  <2>1. ASSUME NEW i \in DOMAIN c
        PROVE  /\ i # p /\ d[i].role = "assistant" /\ d[i].stop = "done" => Answered(d, i)
               /\ d[i].role = "result" => /\ i - d[i].call \in DOMAIN d
                                          /\ d[i - d[i].call].role = "assistant"
                                          /\ d[i].call <= d[i - d[i].call].calls
    BY <1>1, <1>3 DEF Sound
  <2>2. ASSUME NEW i \in DOMAIN t
        PROVE  LET j == Len(c) + i IN
               /\ d[j].role # "assistant"
               /\ j - d[j].call \in DOMAIN d
               /\ d[j - d[j].call].role = "assistant"
               /\ d[j].call <= d[j - d[j].call].calls
    BY <1>2, <1>4, <1>5
  <2>. QED BY <1>1, <2>1, <2>2 DEF Sound
<1>8. ASSUME m + Len(t) = n PROVE Sound(d, 0)
  <2>1. Answered(d, p)
    <3> SUFFICES ASSUME NEW k \in 1..d[p].calls
                 PROVE  p + k \in DOMAIN d /\ d[p + k].role = "result" /\ d[p + k].call = k
      BY DEF Answered
    <3>1. d[p].calls = n /\ k \in 1..(m + Len(t))
      BY <1>2, <1>5, <1>8
    <3>2. DOMAIN d = 1..Len(d) /\ Len(d) = p + n
      <4>1. DOMAIN d = 1..Len(d)
        BY <1>1, LenProperties
      <4>2. Len(d) = (p + m) + Len(t)
        BY <1>1, <1>2
      <4>3. p \in Int /\ m \in Int /\ Len(t) \in Int /\ m + Len(t) = n
        BY <1>1, <1>2, <1>8
      <4>4. Len(d) = p + n
        BY <4>2, <4>3
      <4>. QED BY <4>1, <4>4
    <3>3. p + k \in DOMAIN d
      BY <1>2, <3>1, <3>2
    <3>. QED BY <1>6, <3>1, <3>3 DEF Open
  <2>. QED BY <1>7, <2>1 DEF Sound
<1>. QED BY <1>6, <1>7, <1>8 DEF d

\* A failed reply is dropped.
LEMMA SoundShortened ==
  ASSUME NEW c \in Seq(Messages), NEW e \in Messages, e.role = "assistant", Sound(c \o <<e>>, 0)
  PROVE  Sound(c, 0)
<1>. DEFINE d == c \o <<e>>
<1>1. <<e>> \in Seq(Messages) /\ Len(<<e>>) = 1 /\ DOMAIN <<e>> = {1} /\ <<e>>[1] = e
  BY One
<1>2. /\ d \in Seq(Messages) /\ Len(c) \in Nat /\ Len(d) = Len(c) + 1 /\ DOMAIN c = 1..Len(c)
      /\ \A i \in DOMAIN c : d[i] = c[i] /\ i \in DOMAIN d
      /\ d[Len(c) + 1] = e
      /\ \A i \in DOMAIN d : i \in DOMAIN c \/ i = Len(c) + 1
  BY <1>1, Joined
<1>. HIDE DEF d
<1>3. \A i \in DOMAIN d : d[i].role = "result" => i \in DOMAIN c
  BY <1>2
<1>4. ASSUME NEW i \in DOMAIN c, c[i].role = "assistant", c[i].stop = "done" PROVE Answered(c, i)
  <2>1. i \in DOMAIN d /\ d[i] = c[i] /\ i # 0
    BY <1>2
  <2>2. Answered(d, i)
    BY <1>4, <2>1 DEF Sound, d
  <2>. QED BY <1>2, <1>3, <2>1, <2>2 DEF Answered
<1>5. ASSUME NEW i \in DOMAIN c, c[i].role = "result"
      PROVE  /\ i - c[i].call \in DOMAIN c
             /\ c[i - c[i].call].role = "assistant"
             /\ c[i].call <= c[i - c[i].call].calls
  <2>1. i \in DOMAIN d /\ d[i] = c[i]
    BY <1>2
  <2>2. /\ i - c[i].call \in DOMAIN d /\ d[i - c[i].call].role = "assistant"
        /\ c[i].call <= d[i - c[i].call].calls
    BY <1>5, <2>1 DEF Sound, d
  <2>3. c[i].call \in Nat \ {0}
    <3>1. c[i] \in Messages
      BY LenProperties
    <3>. QED BY <1>5, <3>1, MessageShape
  <2>4. i - c[i].call # Len(c) + 1
    BY <1>2, <2>3
  <2>. QED BY <1>2, <2>2, <2>4
<1>. QED BY <1>4, <1>5 DEF Sound

-----------------------------------------------------------------------------
(* What the steps use.                                                     *)

LEMMA Sorts ==
  /\ \A q \in Seq(Users) : q \in Seq(Messages)
  /\ \A q \in Seq(Messages) : q \in Seq(Messages \cup {AgentEnd})
  /\ Users \subseteq Messages
<1>1. Users \subseteq Messages
  BY DEF Messages
<1>2. Messages \subseteq Messages \cup {AgentEnd}
  OBVIOUS
<1>. QED BY <1>1, <1>2, SeqMonotonic

LEMMA Types ==
  ASSUME TypeOK
  PROVE  /\ messages \in Seq(Messages) /\ context \in Seq(Messages)
         /\ steering \in Seq(Users) /\ steering \in Seq(Messages)
         /\ followUp \in Seq(Users) /\ followUp \in Seq(Messages)
         /\ pending \in Seq(Users) /\ pending \in Seq(Messages)
         /\ sent \in [Kinds -> Nat]
         /\ sent["prompt"] \in Nat /\ sent["steer"] \in Nat /\ sent["follow"] \in Nat
  BY Sorts DEF TypeOK, Kinds

\* The number of the next message of a kind.
LEMMA NextNumber ==
  ASSUME TypeOK, SentBounded,
         NEW k \in Kinds,
         sent[k] < IF k = "prompt" THEN MaxPrompts ELSE IF k = "steer" THEN MaxSteers ELSE MaxFollowUps
  PROVE  LET new == [sent EXCEPT ![k] = @ + 1]
         IN  /\ new \in [Kinds -> Nat] /\ new[k] = sent[k] + 1 /\ sent[k] \in Nat
             /\ \A j \in Kinds \ {k} : new[j] = sent[j]
             /\ new["prompt"] <= MaxPrompts /\ new["steer"] <= MaxSteers /\ new["follow"] <= MaxFollowUps
             /\ sent[k] + 1 \in 1..Bound
             /\ User(k, new[k]) = User(k, sent[k] + 1) /\ User(k, new[k]) \in Users /\ User(k, new[k]) \in Messages
<1>. DEFINE new == [sent EXCEPT ![k] = @ + 1]
<1>1. new \in [Kinds -> Nat] /\ new[k] = sent[k] + 1 /\ sent[k] \in Nat /\ \A j \in Kinds \ {k} : new[j] = sent[j]
  BY DEF TypeOK
<1>2. MaxPrompts \in Nat /\ MaxSteers \in Nat /\ MaxFollowUps \in Nat
  BY ConstantsOK
<1>3. sent[k] + 1 \in 1..Bound
  BY <1>1, <1>2 DEF Bound, Kinds
<1>4. new["prompt"] <= MaxPrompts /\ new["steer"] <= MaxSteers /\ new["follow"] <= MaxFollowUps
  BY <1>1, <1>2, Types DEF SentBounded, Kinds
<1>5. User(k, sent[k] + 1) \in Users /\ User(k, sent[k] + 1) \in Messages
  BY <1>3, UserIs
<1>. QED BY <1>1, <1>3, <1>4, <1>5

LEMMA SteeringPolled ==
  ASSUME TypeOK, PollSteering
  PROVE  /\ pending' \in Seq(Users) /\ pending' \in Seq(Messages)
         /\ steering' \in Seq(Users) /\ steering' \in Seq(Messages)
         /\ pending' \o steering' = steering
         /\ steering = <<>> => pending' = <<>> /\ steering' = <<>>
<1>1. PICK mode \in Modes : pending' = Taken(mode, steering) /\ steering' = Left(mode, steering)
  BY DEF PollSteering
<1>2. /\ Taken(mode, steering) \in Seq(Users) /\ Left(mode, steering) \in Seq(Users)
      /\ Taken(mode, steering) \o Left(mode, steering) = steering
      /\ steering = <<>> => Taken(mode, steering) = <<>> /\ Left(mode, steering) = <<>>
  BY Types, Polled
<1>. QED BY <1>1, <1>2, Sorts

\* The events are those that announce messages and, when the loop has ended,
\* agent_end.
LEMMA EventsAre ==
  ASSUME TypeOK, EndIsLast
  PROVE  /\ Announced \in Seq(Messages)
         /\ pc # "ended" => events = Announced
         /\ pc = "ended" => events = Announced \o <<AgentEnd>> /\ events # <<>>
         /\ pc \in {"idle", "closing"} => events = <<>>
<1>1. ASSUME pc = "ended" PROVE events = Announced \o <<AgentEnd>> /\ events # <<>>
  <2>1. events \in Seq(Messages \cup {AgentEnd})
    BY DEF TypeOK
  <2>2. events # <<>> /\ Last(events) = AgentEnd /\ Announced = Front(events)
    BY <1>1 DEF EndIsLast, Announced
  <2>3. Front(events) \o <<Last(events)>> = events
    BY <2>1, <2>2, FrontLast
  <2>. QED BY <2>2, <2>3
<1>2. pc # "ended" => events = Announced
  BY DEF EndIsLast, Announced
<1>. QED BY <1>1, <1>2 DEF EndIsLast

\* The results of a step of the tools.
LEMMA SkippedAre ==
  ASSUME calls \in 0..MaxCalls, next \in 1..calls
  PROVE  /\ Skipped(next) \in Seq(Messages) /\ Len(Skipped(next)) = calls - next
         /\ \A k \in 1..(calls - next) : Skipped(next)[k].role = "result" /\ Skipped(next)[k].call = next + k
<1>1. calls \in Nat /\ calls <= MaxCalls /\ next \in Nat /\ calls - next \in Nat /\ MaxCalls \in Nat
  BY ConstantsOK
<1>2. \A k \in 1..(calls - next) : next + k \in 1..MaxCalls
  BY <1>1
<1>3. \A k \in 1..(calls - next) : /\ Result(next + k, "skipped") \in Messages
                                   /\ Result(next + k, "skipped").role = "result"
                                   /\ Result(next + k, "skipped").call = next + k
  BY <1>2, ResultIs
<1>4. Skipped(next) \in [1..(calls - next) -> Messages] /\ DOMAIN Skipped(next) = 1..(calls - next)
  BY <1>3 DEF Skipped
<1>5. Skipped(next) \in Seq(Messages)
  BY <1>1, <1>4, SeqDef
<1>6. DOMAIN Skipped(next) = 1..Len(Skipped(next)) /\ Len(Skipped(next)) \in Nat
  BY <1>5, LenProperties
<1>7. Len(Skipped(next)) = calls - next
  BY <1>1, <1>4, <1>6
<1>8. \A k \in 1..(calls - next) : Skipped(next)[k] = Result(next + k, "skipped")
  BY DEF Skipped
<1>. QED BY <1>3, <1>5, <1>7, <1>8

StepResults(skip) == <<Result(next, "ran")>> \o (IF skip THEN Skipped(next) ELSE <<>>)

LEMMA ResultsAre ==
  ASSUME calls \in 0..MaxCalls, next \in 1..calls, NEW skip \in BOOLEAN
  PROVE  /\ StepResults(skip) \in Seq(Messages)
         /\ Len(StepResults(skip)) = IF skip THEN calls - next + 1 ELSE 1
         /\ DOMAIN StepResults(skip) = 1..Len(StepResults(skip))
         /\ \A k \in DOMAIN StepResults(skip) : /\ StepResults(skip)[k].role = "result"
                                                /\ StepResults(skip)[k].call = (next - 1) + k
<1>. DEFINE r == Result(next, "ran")
            t == IF skip THEN Skipped(next) ELSE <<>>
<1>1. calls \in Nat /\ next \in Nat /\ next \in 1..MaxCalls
  BY ConstantsOK
<1>2. r \in Messages /\ r.role = "result" /\ r.call = next
  BY <1>1, ResultIs
<1>3. /\ t \in Seq(Messages) /\ Len(t) = IF skip THEN calls - next ELSE 0
      /\ \A k \in DOMAIN t : t[k].role = "result" /\ t[k].call = next + k
  <2>1. CASE skip
    BY <2>1, SkippedAre, LenProperties
  <2>2. CASE ~skip
    BY <2>2, Empty
  <2>. QED BY <2>1, <2>2
<1>. DEFINE s == <<r>>
            u == s \o t
<1>4. s \in Seq(Messages) /\ Len(s) = 1 /\ s[1] = r /\ DOMAIN s = {1}
  BY <1>2
<1>5. StepResults(skip) = u
  BY DEF StepResults
<1>. HIDE DEF r, t, s
<1>6. /\ u \in Seq(Messages) /\ Len(u) = Len(s) + Len(t) /\ DOMAIN u = 1..(Len(s) + Len(t)) /\ Len(t) \in Nat
      /\ \A i \in DOMAIN s : u[i] = s[i]
      /\ \A i \in DOMAIN t : u[Len(s) + i] = t[i]
      /\ \A i \in DOMAIN u : i \in DOMAIN s \/ \E j \in DOMAIN t : i = Len(s) + j
      /\ DOMAIN t = 1..Len(t)
  <2>1. s \in Seq(Messages) /\ t \in Seq(Messages)
    BY <1>3, <1>4
  <2>2. /\ s \o t \in Seq(Messages) /\ Len(s \o t) = Len(s) + Len(t) /\ Len(t) \in Nat
        /\ DOMAIN (s \o t) = 1..(Len(s) + Len(t)) /\ DOMAIN t = 1..Len(t)
    BY <2>1, Joined
  <2>3. /\ \A i \in DOMAIN s : (s \o t)[i] = s[i]
        /\ \A i \in DOMAIN t : (s \o t)[Len(s) + i] = t[i]
        /\ \A i \in DOMAIN (s \o t) : i \in DOMAIN s \/ \E j \in DOMAIN t : i = Len(s) + j
    BY <2>1, Joined
  <2>. QED BY <2>2, <2>3
<1>. HIDE DEF u
<1>7. Len(u) = (IF skip THEN calls - next + 1 ELSE 1) /\ DOMAIN u = 1..Len(u)
  BY <1>1, <1>3, <1>4, <1>6
<1>8. ASSUME NEW k \in DOMAIN u
      PROVE  u[k].role = "result" /\ u[k].call = (next - 1) + k
  <2>1. CASE k \in DOMAIN s
    <3>1. k = 1 /\ u[k] = r /\ (next - 1) + 1 = next
      BY <1>1, <1>4, <1>6, <2>1
    <3>. QED BY <1>2, <3>1
  <2>2. CASE k \notin DOMAIN s
    <3>1. PICK j \in DOMAIN t : k = 1 + j
      BY <1>4, <1>6, <2>2
    <3>2. u[k] = t[j] /\ j \in Int /\ (next - 1) + k = next + j
      BY <1>1, <1>4, <1>6, <3>1
    <3>. QED BY <1>3, <3>2
  <2>. QED BY <2>1, <2>2
<1>. QED BY <1>5, <1>6, <1>7, <1>8

-----------------------------------------------------------------------------
(* Types, and the bounds they rest on.                                     *)

LEMMA InitBase == Init => TypeOK /\ SentBounded /\ PendingAtTurn /\ AnswersFirst
<1> SUFFICES ASSUME Init PROVE TypeOK /\ SentBounded /\ PendingAtTurn /\ AnswersFirst
  OBVIOUS
<1>1. \A S : <<>> \in Seq(S)
  OBVIOUS
<1>2. MaxCalls \in Nat /\ MaxRounds \in Nat /\ MaxPrompts \in Nat /\ MaxSteers \in Nat /\ MaxFollowUps \in Nat
  BY ConstantsOK
<1>3. streaming \in BOOLEAN /\ signal \in BOOLEAN
  BY Zenon DEF Init
<1>4. calls \in 0..MaxCalls /\ next \in 0..MaxCalls /\ rounds \in 0..MaxRounds
  BY <1>2 DEF Init
<1>5. sent \in [Kinds -> Nat] /\ SentBounded
  BY <1>2 DEF Init, Kinds, SentBounded
<1>6. PendingAtTurn /\ AnswersFirst
  BY DEF Init, PendingAtTurn, AnswersFirst
<1>. QED BY <1>1, <1>3, <1>4, <1>5, <1>6 DEF Init, TypeOK

\* What the users do to the queues.
LEMMA QueueTypes ==
  ASSUME TypeOK, SentBounded, PendingAtTurn, AnswersFirst, Steer \/ FollowUp \/ ClearQueue
  PROVE  TypeOK' /\ SentBounded' /\ PendingAtTurn' /\ AnswersFirst'
<1>1. CASE Steer
  <2>1. /\ sent' \in [Kinds -> Nat] /\ User("steer", sent'["steer"]) \in Users
        /\ sent'["prompt"] <= MaxPrompts /\ sent'["steer"] <= MaxSteers /\ sent'["follow"] <= MaxFollowUps
    BY <1>1, NextNumber DEF Steer, Kinds
  <2>2. steering' \in Seq(Users)
    BY <1>1, <2>1, AppendProperties, Types DEF Steer
  <2>. QED BY <1>1, <2>1, <2>2
       DEF Steer, TypeOK, SentBounded, PendingAtTurn, AnswersFirst, agentVars, loopVars
<1>2. CASE FollowUp
  <2>1. /\ sent' \in [Kinds -> Nat] /\ User("follow", sent'["follow"]) \in Users
        /\ sent'["prompt"] <= MaxPrompts /\ sent'["steer"] <= MaxSteers /\ sent'["follow"] <= MaxFollowUps
    BY <1>2, NextNumber DEF FollowUp, Kinds
  <2>2. followUp' \in Seq(Users)
    BY <1>2, <2>1, AppendProperties, Types DEF FollowUp
  <2>. QED BY <1>2, <2>1, <2>2
       DEF FollowUp, TypeOK, SentBounded, PendingAtTurn, AnswersFirst, agentVars, loopVars
<1>3. CASE ClearQueue
  <2>1. steering' \in Seq(Users) /\ followUp' \in Seq(Users)
    BY <1>3, Empty DEF ClearQueue
  <2>2. Listed \subseteq Users
    <3>1. \A q \in Seq(Messages \cup {AgentEnd}) : ToSet(q) \subseteq Messages \cup {AgentEnd}
      BY LenProperties DEF ToSet
    <3>2. steering \o followUp \in Seq(Users)
      BY Types, Joined
    <3>3. steering \o followUp \o pending \in Seq(Users)
      BY <3>2, Types, Joined
    <3>4. /\ steering \o followUp \o pending \in Seq(Messages \cup {AgentEnd})
          /\ events \in Seq(Messages \cup {AgentEnd})
      BY <3>3, Sorts DEF TypeOK
    <3>5. steering \o followUp \o pending \o events \in Seq(Messages \cup {AgentEnd})
      BY <3>4, Joined
    <3>6. \A e \in Messages \cup {AgentEnd} : e.role = "user" => e \in Users
      BY MessageShape, EndIs
    <3>. QED BY <3>1, <3>5, <3>6 DEF Listed
  <2>. QED BY <1>3, <2>1, <2>2
       DEF ClearQueue, TypeOK, SentBounded, PendingAtTurn, AnswersFirst, agentVars, loopVars
<1>. QED BY <1>1, <1>2, <1>3

\* The starts of a run.
LEMMA StartTypes ==
  ASSUME TypeOK, SentBounded, PendingAtTurn, AnswersFirst, Prompt \/ ContinueQueued \/ ContinueTurn
  PROVE  TypeOK' /\ SentBounded' /\ PendingAtTurn' /\ AnswersFirst'
<1>. DEFINE Began(ms) == Begin(ms) /\ UNCHANGED <<messages, returned, rounds>>
<1>1. ASSUME NEW ms \in Seq(Users), Began(ms)
      PROVE  /\ streaming' \in BOOLEAN /\ signal' \in BOOLEAN /\ context' \in Seq(Messages)
             /\ events' \in Seq(Messages \cup {AgentEnd}) /\ pc' = "turn"
             /\ calls' \in 0..MaxCalls /\ next' \in 0..MaxCalls
  <2>1. ms \in Seq(Messages) /\ ms \in Seq(Messages \cup {AgentEnd})
    BY Sorts
  <2>2. context' \in Seq(Messages)
    BY <1>1, <2>1, Types, Joined DEF Begin
  <2>3. streaming' \in BOOLEAN /\ signal' \in BOOLEAN
    BY <1>1, Zenon DEF Begin
  <2>4. calls' \in 0..MaxCalls /\ next' \in 0..MaxCalls
    BY <1>1, ConstantsOK DEF Begin
  <2>. QED BY <1>1, <2>1, <2>2, <2>3, <2>4 DEF Begin
<1>2. ASSUME NEW ms \in Seq(Users), Began(ms), sent' \in [Kinds -> Nat], SentBounded',
             pending' \in Seq(Users), steering' \in Seq(Users), followUp' \in Seq(Users)
      PROVE  TypeOK' /\ SentBounded' /\ PendingAtTurn' /\ AnswersFirst'
  BY <1>1, <1>2 DEF TypeOK, PendingAtTurn, AnswersFirst
<1>3. CASE Prompt
  <2>1. /\ sent' \in [Kinds -> Nat] /\ User("prompt", sent'["prompt"]) \in Users
        /\ sent'["prompt"] <= MaxPrompts /\ sent'["steer"] <= MaxSteers /\ sent'["follow"] <= MaxFollowUps
    BY <1>3, NextNumber DEF Prompt, Kinds
  <2>2. <<User("prompt", sent'["prompt"])>> \in Seq(Users)
    BY <2>1
  <2>3. Began(<<User("prompt", sent'["prompt"])>>) /\ followUp' \in Seq(Users)
    BY <1>3, Types DEF Prompt
  <2>4. pending' \in Seq(Users) /\ steering' \in Seq(Users)
    BY <1>3, SteeringPolled DEF Prompt
  <2>. QED BY <1>2, <2>1, <2>2, <2>3, <2>4 DEF SentBounded
<1>4. CASE ContinueQueued
  <2>0. sent' \in [Kinds -> Nat] /\ SentBounded'
    BY <1>4, Types DEF ContinueQueued, SentBounded
  <2>1. PICK mode \in Modes :
          \/ /\ steering # <<>> /\ Begin(Taken(mode, steering))
             /\ steering' = Left(mode, steering) /\ pending' = <<>> /\ UNCHANGED followUp
          \/ /\ steering = <<>> /\ followUp # <<>> /\ Begin(Taken(mode, followUp))
             /\ followUp' = Left(mode, followUp) /\ PollSteering
    BY <1>4 DEF ContinueQueued
  <2>2. CASE steering # <<>>
    <3>1. Began(Taken(mode, steering)) /\ steering' = Left(mode, steering) /\ pending' = <<>> /\ followUp' = followUp
      BY <1>4, <2>1, <2>2 DEF ContinueQueued
    <3>2. Taken(mode, steering) \in Seq(Users) /\ Left(mode, steering) \in Seq(Users)
      BY Types, Polled
    <3>3. pending' \in Seq(Users) /\ steering' \in Seq(Users) /\ followUp' \in Seq(Users)
      BY <3>1, <3>2, Types
    <3>. QED BY <1>2, <2>0, <3>1, <3>2, <3>3
  <2>3. CASE steering = <<>>
    <3>1. Began(Taken(mode, followUp)) /\ followUp' = Left(mode, followUp) /\ PollSteering
      BY <1>4, <2>1, <2>3 DEF ContinueQueued
    <3>2. Taken(mode, followUp) \in Seq(Users) /\ Left(mode, followUp) \in Seq(Users)
      BY Types, Polled
    <3>3. pending' \in Seq(Users) /\ steering' \in Seq(Users) /\ followUp' \in Seq(Users)
      BY <3>1, <3>2, SteeringPolled
    <3>. QED BY <1>2, <2>0, <3>1, <3>2, <3>3
  <2>. QED BY <2>2, <2>3
<1>5. CASE ContinueTurn
  <2>1. Began(<<>>) /\ <<>> \in Seq(Users) /\ PollSteering
    BY <1>5 DEF ContinueTurn
  <2>2. /\ sent' \in [Kinds -> Nat] /\ SentBounded' /\ followUp' \in Seq(Users)
        /\ pending' \in Seq(Users) /\ steering' \in Seq(Users)
    BY <1>5, <2>1, SteeringPolled, Types DEF ContinueTurn, SentBounded
  <2>. QED BY <1>2, <2>1, <2>2
<1>. QED BY <1>3, <1>4, <1>5

LEMMA ReplyTypes ==
  ASSUME TypeOK, SentBounded, PendingAtTurn, AnswersFirst, Reply
  PROVE  TypeOK' /\ SentBounded' /\ PendingAtTurn' /\ AnswersFirst'
<1>0. MaxCalls \in Nat /\ 0 \in 0..MaxCalls /\ MaxCalls \in 0..MaxCalls /\ MaxRounds \in Nat
  BY ConstantsOK
<1>1. \A n \in 0..MaxCalls, s \in {"done"} \cup Failures :
        /\ Assistant(n, s) \in Messages /\ Append(context, Assistant(n, s)) \in Seq(Messages)
        /\ Append(events, Assistant(n, s)) \in Seq(Messages \cup {AgentEnd})
        /\ events \o <<Assistant(n, s), AgentEnd>> \in Seq(Messages \cup {AgentEnd})
  <2> TAKE n \in 0..MaxCalls, s \in {"done"} \cup Failures
  <2>. DEFINE a == Assistant(n, s)
  <2>1. a \in Messages
    BY AssistantIs
  <2>. HIDE DEF a
  <2>2. <<a, AgentEnd>> \in Seq(Messages \cup {AgentEnd})
    BY <2>1
  <2>3. events \in Seq(Messages \cup {AgentEnd}) /\ context \in Seq(Messages)
    BY DEF TypeOK
  <2>4. Append(context, a) \in Seq(Messages)
    BY <2>1, <2>3, AppendProperties
  <2>5. Append(events, a) \in Seq(Messages \cup {AgentEnd})
    BY <2>1, <2>3, AppendProperties
  <2>6. events \o <<a, AgentEnd>> \in Seq(Messages \cup {AgentEnd})
    BY <2>2, <2>3, Joined
  <2>. QED BY <2>1, <2>4, <2>5, <2>6 DEF a
<1>2. CASE ReplyFails
  <2>1. context' \in Seq(Messages) /\ events' \in Seq(Messages \cup {AgentEnd})
    <3>1. PICK n \in {0, MaxCalls}, s \in {"error"} \cup (IF signal THEN {"aborted"} ELSE {}) :
            /\ context' = Append(context, Assistant(n, s))
            /\ events' = events \o <<Assistant(n, s), AgentEnd>>
      BY <1>2 DEF ReplyFails
    <3>2. n \in 0..MaxCalls /\ s \in {"done"} \cup Failures
      BY <1>0, <3>1 DEF Failures
    <3>. QED BY <1>1, <3>1, <3>2
  <2>. QED BY <1>2, <2>1
       DEF ReplyFails, TypeOK, SentBounded, PendingAtTurn, AnswersFirst, agentVars, queueVars
<1>3. CASE ReplyCalls
  <2>1. PICK n \in 1..MaxCalls :
          /\ context' = Append(context, Assistant(n, "done")) /\ events' = Append(events, Assistant(n, "done"))
          /\ calls' = n
    BY <1>3 DEF ReplyCalls
  <2>2. n \in 0..MaxCalls /\ 1 \in 0..MaxCalls /\ "done" \in {"done"} \cup Failures
    BY <1>0
  <2>3. context' \in Seq(Messages) /\ events' \in Seq(Messages \cup {AgentEnd}) /\ calls' \in 0..MaxCalls
    BY <1>1, <2>1, <2>2
  <2>4. rounds' \in 0..MaxRounds
    BY <1>0, <1>3 DEF ReplyCalls, TypeOK
  <2>5. next' \in 0..MaxCalls
    BY <1>3, <2>2 DEF ReplyCalls
  <2>. QED BY <1>3, <2>3, <2>4, <2>5
       DEF ReplyCalls, TypeOK, SentBounded, PendingAtTurn, AnswersFirst, agentVars, queueVars
<1>4. CASE ReplyAnswers
  <2>1. context' \in Seq(Messages) /\ events' \in Seq(Messages \cup {AgentEnd})
    BY <1>0, <1>1, <1>4 DEF ReplyAnswers
  <2>2. pending' \in Seq(Users) /\ steering' \in Seq(Users)
    BY <1>4, SteeringPolled DEF ReplyAnswers
  <2>3. context' # <<>> /\ Last(context') = Assistant(0, "done")
    <3>1. Assistant(0, "done") \in Messages /\ context \in Seq(Messages)
      BY <1>0, <1>1 DEF TypeOK
    <3>2. context' = Append(context, Assistant(0, "done"))
      BY <1>4 DEF ReplyAnswers
    <3>3. Append(context, Assistant(0, "done")) = context \o <<Assistant(0, "done")>>
      BY <3>1, LastOfJoined
    <3>. QED BY <3>1, <3>2, <3>3, LastOfJoined
  <2>4. TypeOK' /\ SentBounded'
    BY <1>4, <2>1, <2>2 DEF ReplyAnswers, TypeOK, SentBounded, agentVars
  <2>5. PendingAtTurn'
    BY <1>4 DEF ReplyAnswers, PendingAtTurn
  <2>6. AnswersFirst'
    BY <2>3 DEF AnswersFirst
  <2>. QED BY <2>4, <2>5, <2>6
<1>. QED BY <1>2, <1>3, <1>4 DEF Reply

LEMMA LoopTypes ==
  ASSUME TypeOK, SentBounded, PendingAtTurn, AnswersFirst, pc = "tool" => next \in 1..calls,
         Turn \/ LookupThrows \/ ToolReturns \/ TurnEnds \/ PollFollowUps
  PROVE  TypeOK' /\ SentBounded' /\ PendingAtTurn' /\ AnswersFirst'
<1>0. events \in Seq(Messages \cup {AgentEnd}) /\ <<>> \in Seq(Users)
  BY DEF TypeOK
<1>1. CASE Turn
  <2>1. pending \in Seq(Messages \cup {AgentEnd})
    BY Types, Sorts
  <2>2. context' \in Seq(Messages) /\ events' \in Seq(Messages \cup {AgentEnd})
    BY <1>0, <1>1, <2>1, Types, Joined DEF Turn
  <2>. QED BY <1>0, <1>1, <2>2
       DEF Turn, TypeOK, SentBounded, PendingAtTurn, AnswersFirst, agentVars, queueVars
<1>2. CASE LookupThrows
  BY <1>2 DEF LookupThrows, TypeOK, SentBounded, PendingAtTurn, AnswersFirst, agentVars, queueVars
<1>3. CASE ToolReturns
  <2>1. pending' \in Seq(Users) /\ steering' \in Seq(Users)
    BY <1>3, SteeringPolled DEF ToolReturns
  <2>. DEFINE skip == pending' # <<>>
              res == StepResults(skip)
  <2>2. context' = context \o res /\ events' = events \o res
    BY <1>3 DEF ToolReturns, StepResults
  <2>3. calls \in 0..MaxCalls /\ next \in 1..calls /\ skip \in BOOLEAN
    BY <1>3 DEF ToolReturns, TypeOK
  <2>4. res \in Seq(Messages)
    BY <2>3, ResultsAre
  <2>. HIDE DEF res
  <2>5. context' \in Seq(Messages) /\ events' \in Seq(Messages \cup {AgentEnd})
    BY <1>0, <2>2, <2>4, Types, Joined, Sorts
  <2>6. next' \in 0..MaxCalls
    BY <1>3, <2>3, ConstantsOK DEF ToolReturns
  <2>7. pc' \in {"turn", "tool", "turnEnd"} /\ (pending' # <<>> => pc' = "turn")
    BY <1>3 DEF ToolReturns
  <2>8. UNCHANGED <<messages, streaming, signal, followUp, calls, returned, rounds, sent>>
    BY <1>3 DEF ToolReturns, agentVars
  <2>. QED BY <2>1, <2>5, <2>6, <2>7, <2>8 DEF TypeOK, SentBounded, PendingAtTurn, AnswersFirst
<1>4. CASE TurnEnds
  <2>1. pending' \in Seq(Users) /\ steering' \in Seq(Users)
    BY <1>4, SteeringPolled DEF TurnEnds
  <2>. QED BY <1>4, <2>1 DEF TurnEnds, TypeOK, SentBounded, PendingAtTurn, AnswersFirst, agentVars
<1>5. CASE PollFollowUps
  <2>1. PICK mode \in Modes : pending' = Taken(mode, followUp) /\ followUp' = Left(mode, followUp)
    BY <1>5 DEF PollFollowUps
  <2>2. /\ pending' \in Seq(Users) /\ followUp' \in Seq(Users)
        /\ followUp = <<>> => pending' = <<>>
    BY <2>1, Types, Polled
  <2>3. Append(events, AgentEnd) \in Seq(Messages \cup {AgentEnd})
    BY <1>0, AppendProperties
  <2>4. events' \in Seq(Messages \cup {AgentEnd}) /\ pc' \in {"turn", "ended"} /\ (pc' = "ended" => followUp = <<>>)
    BY <1>0, <1>5, <2>3 DEF PollFollowUps
  <2>. QED BY <1>5, <2>2, <2>4 DEF PollFollowUps, TypeOK, SentBounded, PendingAtTurn, AnswersFirst, agentVars
<1>. QED BY <1>1, <1>2, <1>3, <1>4, <1>5

LEMMA AgentTypes ==
  ASSUME TypeOK, SentBounded, PendingAtTurn, AnswersFirst, EndIsLast,
         Agent \/ DropFailure \/ Abort \/ UNCHANGED vars
  PROVE  TypeOK' /\ SentBounded' /\ PendingAtTurn' /\ AnswersFirst'
<1>0. events \in Seq(Messages \cup {AgentEnd})
  BY DEF TypeOK
<1>1. CASE TakeMessage
  <2>1. Head(events) \in Messages /\ Tail(events) \in Seq(Messages \cup {AgentEnd})
    BY <1>0, <1>1, HeadTail DEF TakeMessage
  <2>2. messages' \in Seq(Messages)
    BY <1>1, <2>1, AppendProperties, Types DEF TakeMessage
  <2>. QED BY <1>1, <2>1, <2>2
       DEF TakeMessage, TypeOK, SentBounded, PendingAtTurn, AnswersFirst, queueVars, loopVars
<1>2. CASE TakeEnd
  <2>1. Tail(events) \in Seq(Messages \cup {AgentEnd})
    BY <1>0, <1>2, HeadTail DEF TakeEnd
  <2>2. pc = "ended"
    <3> SUFFICES ASSUME pc # "ended" PROVE FALSE
      OBVIOUS
    <3>1. events \in Seq(Messages) /\ events # <<>>
      BY <1>2, EventsAre DEF TakeEnd
    <3>2. Head(events) \in Messages
      BY <3>1, HeadTail
    <3>. QED BY <1>2, <3>2, EndIs DEF TakeEnd
  <2>3. streaming' \in BOOLEAN
    BY <1>2, Zenon DEF TakeEnd
  <2>. QED BY <1>2, <2>1, <2>2, <2>3
       DEF TakeEnd, TypeOK, SentBounded, PendingAtTurn, AnswersFirst, queueVars
<1>3. CASE Finally
  <2>1. streaming' \in BOOLEAN /\ signal' \in BOOLEAN
    BY <1>3, Zenon DEF Finally
  <2>2. context' \in Seq(Messages) /\ calls' \in 0..MaxCalls /\ next' \in 0..MaxCalls
    BY <1>3, ConstantsOK, Empty DEF Finally
  <2>. QED BY <1>3, <2>1, <2>2
       DEF Finally, TypeOK, SentBounded, PendingAtTurn, AnswersFirst, queueVars
<1>4. CASE DropFailure
  <2>1. messages' \in Seq(Messages)
    BY <1>4, FrontLast, Types DEF DropFailure
  <2>. QED BY <1>4, <2>1
       DEF DropFailure, TypeOK, SentBounded, PendingAtTurn, AnswersFirst, queueVars, loopVars
<1>5. CASE Abort
  <2>1. signal' \in BOOLEAN
    BY <1>5, Zenon DEF Abort
  <2>. QED BY <1>5, <2>1
       DEF Abort, TypeOK, SentBounded, PendingAtTurn, AnswersFirst, queueVars, loopVars
<1>6. CASE UNCHANGED vars
  BY <1>6 DEF vars, agentVars, queueVars, loopVars, TypeOK, SentBounded, PendingAtTurn, AnswersFirst
<1>. QED BY <1>1, <1>2, <1>3, <1>4, <1>5, <1>6 DEF Agent

LEMMA BaseStep ==
  ASSUME IInv, [Next]_vars
  PROVE  TypeOK' /\ SentBounded' /\ PendingAtTurn' /\ AnswersFirst'
<1>1. pc = "tool" => next \in 1..calls
  BY DEF IInv, CallsSound, TypeOK
<1>. QED
  BY <1>1, QueueTypes, StartTypes, ReplyTypes, LoopTypes, AgentTypes DEF IInv, Next, UserStep, Loop

-----------------------------------------------------------------------------
(* The transcript and the context.                                         *)

\* The loop has not ended after the step.
LEMMA AgreeOpen ==
  ASSUME events' \in Seq(Messages), pc' # "ended", pc' \in {"idle", "closing"} => events' = <<>>,
         pc' # "idle" => messages' \o events' = context'
  PROVE  EndIsLast' /\ TranscriptsAgree'
<1>1. events' # <<>> => Last(events') # AgentEnd
  BY FrontLast, EndIs
<1>2. Announced' = events'
  BY <1>1 DEF Announced
<1>. QED BY <1>1, <1>2 DEF EndIsLast, TranscriptsAgree

\* It has ended.
LEMMA AgreeEnded ==
  ASSUME NEW es \in Seq(Messages), events' = es \o <<AgentEnd>>, pc' = "ended", messages' \o es = context'
  PROVE  EndIsLast' /\ TranscriptsAgree'
<1>1. es \in Seq(Messages \cup {AgentEnd}) /\ AgentEnd \in Messages \cup {AgentEnd}
  BY Sorts
<1>2. es \o <<AgentEnd>> # <<>> /\ Last(es \o <<AgentEnd>>) = AgentEnd /\ Front(es \o <<AgentEnd>>) = es
  BY <1>1, LastOfJoined
<1>3. Announced' = es
  BY <1>2 DEF Announced
<1>. QED BY <1>2, <1>3 DEF EndIsLast, TranscriptsAgree

\* The loop pushes what it puts into its context.
LEMMA Pushed ==
  ASSUME TypeOK, EndIsLast, TranscriptsAgree, pc \notin {"idle", "ended"},
         NEW t \in Seq(Messages), context' = context \o t, messages' = messages
  PROVE  /\ events \in Seq(Messages) /\ events \o t \in Seq(Messages) /\ messages' \o (events \o t) = context'
<1>1. events \in Seq(Messages) /\ messages \o events = context
  BY EventsAre DEF TranscriptsAgree
<1>2. (messages \o events) \o t = messages \o (events \o t)
  <2>1. messages \in Seq(Messages) /\ events \in Seq(Messages) /\ t \in Seq(Messages)
    BY <1>1, Types
  <2>. QED BY <2>1, Regrouped
<1>3. events \o t \in Seq(Messages)
  BY <1>1, Joined
<1>. QED BY <1>1, <1>2, <1>3

LEMMA InitAgrees == Init => EndIsLast /\ TranscriptsAgree
<1> SUFFICES ASSUME Init PROVE EndIsLast /\ TranscriptsAgree
  OBVIOUS
<1>1. Announced = <<>> /\ <<>> \in Seq(Messages)
  BY DEF Init, Announced
<1>. QED BY <1>1 DEF Init, EndIsLast, TranscriptsAgree

LEMMA UserAgrees ==
  ASSUME TypeOK, SentBounded, EndIsLast, TranscriptsAgree, UserStep \/ UNCHANGED vars
  PROVE  EndIsLast' /\ TranscriptsAgree'
<1>1. ASSUME UNCHANGED <<messages, pc, context, events>> PROVE EndIsLast' /\ TranscriptsAgree'
  BY <1>1 DEF EndIsLast, TranscriptsAgree, Announced
<1>2. ASSUME NEW ms \in Seq(Messages), Begin(ms), messages' = messages PROVE EndIsLast' /\ TranscriptsAgree'
  BY <1>2, AgreeOpen DEF Begin
<1>3. CASE Prompt
  <2>1. User("prompt", sent'["prompt"]) \in Messages
    BY <1>3, NextNumber DEF Prompt, Kinds
  <2>2. <<User("prompt", sent'["prompt"])>> \in Seq(Messages)
    BY <2>1
  <2>. QED BY <1>2, <1>3, <2>2 DEF Prompt
<1>4. CASE ContinueQueued
  <2>1. PICK mode \in Modes : Begin(Taken(mode, steering)) \/ Begin(Taken(mode, followUp))
    BY <1>4 DEF ContinueQueued
  <2>2. Taken(mode, steering) \in Seq(Messages) /\ Taken(mode, followUp) \in Seq(Messages)
    BY Types, Polled
  <2>. QED BY <1>2, <1>4, <2>1, <2>2 DEF ContinueQueued
<1>5. CASE ContinueTurn
  <2>1. <<>> \in Seq(Messages)
    BY Empty
  <2>. QED BY <1>2, <1>5, <2>1 DEF ContinueTurn
<1>6. CASE DropFailure
  <2>1. events = <<>> /\ <<>> \in Seq(Messages) /\ pc' = "idle" /\ events' = events
    BY <1>6, EventsAre DEF DropFailure, loopVars
  <2>. QED BY <2>1, AgreeOpen
<1>7. CASE Steer \/ FollowUp \/ ClearQueue \/ Abort \/ UNCHANGED vars
  BY <1>1, <1>7 DEF Steer, FollowUp, ClearQueue, Abort, vars, agentVars, loopVars
<1>. QED BY <1>3, <1>4, <1>5, <1>6, <1>7 DEF UserStep

LEMMA LoopAgrees ==
  ASSUME TypeOK, EndIsLast, TranscriptsAgree, pc = "tool" => next \in 1..calls, Loop
  PROVE  EndIsLast' /\ TranscriptsAgree'
<1>1. ASSUME pc \notin {"idle", "ended"}, pc' \notin {"idle", "closing", "ended"},
             NEW t \in Seq(Messages), context' = context \o t, events' = events \o t, messages' = messages
      PROVE  EndIsLast' /\ TranscriptsAgree'
  BY <1>1, Pushed, AgreeOpen
<1>2. /\ <<>> \in Seq(Messages) /\ context \o <<>> = context
      /\ pc \notin {"idle", "ended"} => events \in Seq(Messages) /\ events \o <<>> = events
                                        /\ messages \o events = context
  BY Types, Empty, EventsAre, ConcatEmptySeq DEF TranscriptsAgree
<1>3. ASSUME NEW e \in Messages
      PROVE  /\ <<e>> \in Seq(Messages) /\ Append(context, e) = context \o <<e>>
             /\ pc \notin {"idle", "ended"} => Append(events, e) = events \o <<e>>
  BY <1>2, Types, AppendIsConcat
<1>4. \A n \in 0..MaxCalls, s \in {"done"} \cup Failures : Assistant(n, s) \in Messages
  BY AssistantIs
<1>5. 0 \in 0..MaxCalls /\ MaxCalls \in 0..MaxCalls /\ \A n \in 1..MaxCalls : n \in 0..MaxCalls
  BY ConstantsOK
<1>6. CASE Turn
  BY <1>1, <1>6, Types DEF Turn, agentVars
<1>7. CASE LookupThrows
  BY <1>1, <1>2, <1>7 DEF LookupThrows, agentVars
<1>8. CASE ReplyFails
  <2>1. PICK n \in {0, MaxCalls}, s \in {"error", "aborted"} :
          /\ context' = Append(context, Assistant(n, s))
          /\ events' = events \o <<Assistant(n, s), AgentEnd>>
    BY <1>8 DEF ReplyFails
  <2>. DEFINE a == Assistant(n, s)
              es == events \o <<a>>
  <2>2. a \in Messages
    BY <1>4, <1>5 DEF Failures
  <2>3. pc = "request" /\ pc' = "ended" /\ messages' = messages
    BY <1>8 DEF ReplyFails, agentVars
  <2>. HIDE DEF a
  <2>4. <<a>> \in Seq(Messages) /\ context' = context \o <<a>>
    BY <1>3, <2>1, <2>2 DEF a
  <2>5. es \in Seq(Messages) /\ messages' \o es = context' /\ events \in Seq(Messages)
    BY <2>3, <2>4, Pushed
  <2>6. events' = es \o <<AgentEnd>>
    <3>1. <<a>> \in Seq(Messages \cup {AgentEnd}) /\ <<AgentEnd>> \in Seq(Messages \cup {AgentEnd})
      BY <2>2
    <3>2. <<a>> \o <<AgentEnd>> = <<a, AgentEnd>>
      BY <2>2, PairJoined
    <3>3. (events \o <<a>>) \o <<AgentEnd>> = events \o (<<a>> \o <<AgentEnd>>)
      <4>1. events \in Seq(Messages \cup {AgentEnd})
        BY DEF TypeOK
      <4>. QED BY <3>1, <4>1, ConcatAssociative
    <3>. QED BY <2>1, <3>2, <3>3 DEF a
  <2>. HIDE DEF es
  <2>. QED BY <2>3, <2>5, <2>6, AgreeEnded
<1>9. CASE ReplyCalls
  <2>1. PICK n \in 1..MaxCalls :
          context' = Append(context, Assistant(n, "done")) /\ events' = Append(events, Assistant(n, "done"))
    BY <1>9 DEF ReplyCalls
  <2>2. Assistant(n, "done") \in Messages
    BY <1>4, <1>5
  <2>. QED BY <1>1, <1>3, <1>9, <2>1, <2>2 DEF ReplyCalls, agentVars
<1>10. CASE ReplyAnswers
  <2>1. Assistant(0, "done") \in Messages
    BY <1>4, <1>5
  <2>2. pc' \in {"follow", "turn"} /\ pc = "request" /\ messages' = messages
    BY <1>10 DEF ReplyAnswers, agentVars
  <2>3. context' = Append(context, Assistant(0, "done")) /\ events' = Append(events, Assistant(0, "done"))
    BY <1>10 DEF ReplyAnswers
  <2>. QED BY <1>1, <1>3, <2>1, <2>2, <2>3
<1>11. CASE ToolReturns
  <2>. DEFINE skip == pending' # <<>>
              res == StepResults(skip)
  <2>1. context' = context \o res /\ events' = events \o res
    BY <1>11 DEF ToolReturns, StepResults
  <2>2. calls \in 0..MaxCalls /\ next \in 1..calls /\ skip \in BOOLEAN
    BY <1>11 DEF ToolReturns, TypeOK
  <2>3. res \in Seq(Messages)
    BY <2>2, ResultsAre
  <2>4. pc = "tool" /\ pc' \in {"turn", "tool", "turnEnd"} /\ messages' = messages
    BY <1>11 DEF ToolReturns, agentVars
  <2>. HIDE DEF res
  <2>. QED BY <1>1, <2>1, <2>3, <2>4
<1>12. CASE TurnEnds
  BY <1>1, <1>2, <1>12 DEF TurnEnds, agentVars
<1>13. CASE PollFollowUps
  <2>1. CASE followUp # <<>>
    BY <1>1, <1>2, <1>13, <2>1 DEF PollFollowUps, agentVars
  <2>2. CASE followUp = <<>>
    <3>1. events' = Append(events, AgentEnd) /\ pc' = "ended" /\ pc = "follow" /\ UNCHANGED <<messages, context>>
      BY <1>13, <2>2 DEF PollFollowUps, agentVars
    <3>2. events \in Seq(Messages \cup {AgentEnd})
      BY DEF TypeOK
    <3>3. Append(events, AgentEnd) = events \o <<AgentEnd>>
      BY <3>2, AppendIsConcat
    <3>4. events \in Seq(Messages) /\ messages' \o events = context'
      BY <1>2, <3>1
    <3>. QED BY <3>1, <3>3, <3>4, AgreeEnded
  <2>. QED BY <2>1, <2>2
<1>. QED BY <1>6, <1>7, <1>8, <1>9, <1>10, <1>11, <1>12, <1>13 DEF Loop, Reply

LEMMA AgentAgrees ==
  ASSUME TypeOK, EndIsLast, TranscriptsAgree, Agent
  PROVE  EndIsLast' /\ TranscriptsAgree'
<1>. DEFINE A == Announced
<1>0. /\ A \in Seq(Messages)
      /\ pc # "ended" => events = A
      /\ pc = "ended" => events = A \o <<AgentEnd>>
      /\ pc \in {"idle", "closing"} => events = <<>>
      /\ pc # "idle" => messages \o A = context
  BY EventsAre DEF TranscriptsAgree
<1>1. A \in Seq(Messages \cup {AgentEnd}) /\ Append(A, AgentEnd) = A \o <<AgentEnd>>
  BY <1>0, Sorts, AppendIsConcat
<1>2. /\ Head(Append(A, AgentEnd)) = IF A = <<>> THEN AgentEnd ELSE Head(A)
      /\ Tail(Append(A, AgentEnd)) = IF A = <<>> THEN <<>> ELSE Append(Tail(A), AgentEnd)
  BY <1>1, HeadTailAppend
<1>3. A # <<>> => /\ Head(A) \in Messages /\ Tail(A) \in Seq(Messages) /\ Tail(A) \in Seq(Messages \cup {AgentEnd})
                  /\ <<Head(A)>> \o Tail(A) = A /\ Head(A) # AgentEnd
  BY <1>0, HeadTail, EndIs, Sorts
<1>. HIDE DEF A
<1>4. CASE TakeMessage
  <2>1. A # <<>> /\ Head(events) = Head(A) /\ pc \notin {"idle", "closing"}
    <3>1. pc = "ended" => A # <<>> /\ Head(events) = Head(A)
      BY <1>0, <1>1, <1>2, <1>4 DEF TakeMessage
    <3>. QED BY <1>0, <1>4, <3>1 DEF TakeMessage
  <2>2. messages' = messages \o <<Head(A)>> /\ UNCHANGED <<pc, context>> /\ events' = Tail(events)
    <3>1. messages' = Append(messages, Head(A))
      BY <1>4, <2>1 DEF TakeMessage
    <3>2. Append(messages, Head(A)) = messages \o <<Head(A)>>
      BY <1>3, <2>1, Types, AppendIsConcat
    <3>. QED BY <1>4, <3>1, <3>2 DEF TakeMessage, loopVars
  <2>3. messages' \o Tail(A) = context'
    <3>1. <<Head(A)>> \in Seq(Messages)
      BY <1>3, <2>1
    <3>2. (messages \o <<Head(A)>>) \o Tail(A) = messages \o (<<Head(A)>> \o Tail(A))
      <4>1. messages \in Seq(Messages) /\ Tail(A) \in Seq(Messages)
        BY <1>3, <2>1, Types
      <4>. QED BY <3>1, <4>1, ConcatAssociative
    <3>. QED BY <1>0, <1>3, <2>1, <2>2, <3>2
  <2>4. CASE pc = "ended"
    <3>1. events' = Append(Tail(A), AgentEnd)
      BY <1>0, <1>1, <1>2, <2>1, <2>2, <2>4
    <3>2. Append(Tail(A), AgentEnd) = Tail(A) \o <<AgentEnd>>
      BY <1>3, <2>1, AppendIsConcat
    <3>. QED BY <1>3, <2>1, <2>2, <2>3, <2>4, <3>1, <3>2, AgreeEnded
  <2>5. CASE pc # "ended"
    <3>1. events' = Tail(A) /\ Tail(A) \in Seq(Messages)
      BY <1>0, <1>3, <2>1, <2>2, <2>5
    <3>. QED BY <2>1, <2>2, <2>3, <2>5, <3>1, AgreeOpen
  <2>. QED BY <2>4, <2>5
<1>5. CASE TakeEnd
  <2>1. pc = "ended" /\ A = <<>>
    <3>1. pc = "ended"
      <4> SUFFICES ASSUME pc # "ended" PROVE FALSE
        OBVIOUS
      <4>. QED BY <1>0, <1>3, <1>5 DEF TakeEnd
    <3>2. A = <<>>
      BY <1>0, <1>1, <1>2, <1>3, <1>5, <3>1 DEF TakeEnd
    <3>. QED BY <3>1, <3>2
  <2>2. events' = <<>> /\ pc' = "closing" /\ UNCHANGED <<messages, context>>
    BY <1>0, <1>1, <1>2, <1>5, <2>1 DEF TakeEnd
  <2>. QED BY <1>0, <2>1, <2>2, AgreeOpen
<1>6. CASE Finally
  <2>1. events' = <<>> /\ pc' = "idle" /\ <<>> \in Seq(Messages)
    BY <1>0, <1>6, Empty DEF Finally
  <2>. QED BY <2>1, AgreeOpen
<1>. QED BY <1>4, <1>5, <1>6 DEF Agent

LEMMA AgreeStep ==
  ASSUME IInv, [Next]_vars
  PROVE  EndIsLast' /\ TranscriptsAgree'
<1>1. pc = "tool" => next \in 1..calls
  BY DEF IInv, CallsSound, TypeOK
<1>. QED BY <1>1, UserAgrees, LoopAgrees, AgentAgrees DEF IInv, Next

-----------------------------------------------------------------------------
(* Every call has its result.                                              *)

LEMMA UsersPlain ==
  ASSUME NEW q \in Seq(Users)
  PROVE  \A i \in DOMAIN q : Plain(q[i])
<1>1. \A i \in DOMAIN q : q[i] \in Users
  BY LenProperties
<1>. QED BY <1>1, UserShape DEF Plain

LEMMA PlainJoined ==
  ASSUME NEW c \in Seq(Messages), NEW e \in Messages, Plain(e), Sound(c, 0)
  PROVE  Sound(Append(c, e), 0)
<1>. DEFINE t == <<e>>
<1>1. Append(c, e) = c \o t
  BY AppendIsConcat
<1>2. t \in Seq(Messages) /\ \A i \in DOMAIN t : Plain(t[i])
  OBVIOUS
<1>. HIDE DEF t
<1>. QED BY <1>1, <1>2, SoundExtended

LEMMA SoundUser ==
  ASSUME IInv, UserStep \/ UNCHANGED vars
  PROVE  CallsSound'
<1>0. TypeOK /\ SentBounded /\ CallsSound
  BY DEF IInv
<1>1. ASSUME UNCHANGED <<messages, pc, context, calls, next>> PROVE CallsSound'
  BY <1>0, <1>1 DEF CallsSound, Working
<1>2. ASSUME NEW ms \in Seq(Users), Begin(ms), pc = "idle" PROVE CallsSound'
  <2>1. ms \in Seq(Messages) /\ Sound(messages, 0) /\ messages \in Seq(Messages)
    BY <1>0, <1>2, Types, Sorts DEF CallsSound
  <2>2. Sound(messages \o ms, 0)
    BY <2>1, UsersPlain, SoundExtended
  <2>. QED BY <1>2, <2>2 DEF Begin, CallsSound
<1>3. CASE Prompt
  <2>1. User("prompt", sent'["prompt"]) \in Users
    BY <1>0, <1>3, NextNumber DEF Prompt, Kinds
  <2>2. <<User("prompt", sent'["prompt"])>> \in Seq(Users)
    BY <2>1
  <2>. QED BY <1>2, <1>3, <2>2 DEF Prompt
<1>4. CASE ContinueQueued
  <2>1. PICK mode \in Modes : Begin(Taken(mode, steering)) \/ Begin(Taken(mode, followUp))
    BY <1>4 DEF ContinueQueued
  <2>2. Taken(mode, steering) \in Seq(Users) /\ Taken(mode, followUp) \in Seq(Users)
    BY <1>0, Types, Polled
  <2>. QED BY <1>2, <1>4, <2>1, <2>2 DEF ContinueQueued
<1>5. CASE ContinueTurn
  <2>1. <<>> \in Seq(Users)
    BY Empty
  <2>. QED BY <1>2, <1>5, <2>1 DEF ContinueTurn
<1>6. CASE DropFailure
  <2>1. /\ messages \in Seq(Messages) /\ messages # <<>> /\ Last(messages).role = "assistant"
        /\ messages' = Front(messages) /\ pc = "idle" /\ pc' = "idle" /\ Sound(messages, 0)
    BY <1>0, <1>6, Types DEF DropFailure, CallsSound, loopVars
  <2>2. /\ Front(messages) \in Seq(Messages) /\ Last(messages) \in Messages
        /\ Front(messages) \o <<Last(messages)>> = messages
    BY <2>1, FrontLast
  <2>3. Sound(Front(messages), 0)
    BY <2>1, <2>2, SoundShortened
  <2>. QED BY <2>1, <2>3 DEF CallsSound
<1>7. CASE Steer \/ FollowUp \/ ClearQueue \/ Abort \/ UNCHANGED vars
  BY <1>1, <1>7 DEF Steer, FollowUp, ClearQueue, Abort, vars, agentVars, loopVars
<1>. QED BY <1>3, <1>4, <1>5, <1>6, <1>7 DEF UserStep

LEMMA SoundLoop ==
  ASSUME IInv, Loop
  PROVE  CallsSound'
<1>0. TypeOK /\ CallsSound /\ context \in Seq(Messages)
  BY Types DEF IInv
<1>1. MaxCalls \in Nat /\ 0 \in 0..MaxCalls /\ MaxCalls \in 0..MaxCalls /\ \A n \in 1..MaxCalls : n \in 0..MaxCalls
  BY ConstantsOK
<1>2. ASSUME Sound(context', 0), pc' \notin {"idle", "tool"} PROVE CallsSound'
  BY <1>2 DEF CallsSound
<1>3. \A n \in 0..MaxCalls, s \in {"done"} \cup Failures :
        /\ Assistant(n, s) \in Messages /\ Assistant(n, s).role = "assistant"
        /\ Assistant(n, s).calls = n /\ Assistant(n, s).stop = s
  BY AssistantIs
<1>4. CASE Turn
  <2>1. Sound(context \o pending, 0)
    BY <1>0, <1>4, UsersPlain, SoundExtended, Types DEF Turn, CallsSound
  <2>. QED BY <1>2, <1>4, <2>1 DEF Turn
<1>5. CASE LookupThrows
  BY <1>0, <1>2, <1>5 DEF LookupThrows, CallsSound
<1>6. CASE ReplyFails
  <2>1. PICK n \in {0, MaxCalls}, s \in {"error", "aborted"} : context' = Append(context, Assistant(n, s))
    BY <1>6 DEF ReplyFails
  <2>2. n \in 0..MaxCalls /\ s \in {"done"} \cup Failures /\ s # "done"
    BY <1>1 DEF Failures
  <2>3. Plain(Assistant(n, s)) /\ Assistant(n, s) \in Messages
    BY <1>3, <2>2 DEF Plain
  <2>4. Sound(context, 0) /\ pc' = "ended"
    BY <1>0, <1>6 DEF ReplyFails, CallsSound
  <2>. QED BY <1>0, <1>2, <2>1, <2>3, <2>4, PlainJoined
<1>7. CASE ReplyCalls
  <2>1. PICK n \in 1..MaxCalls : context' = Append(context, Assistant(n, "done")) /\ calls' = n
    BY <1>7 DEF ReplyCalls
  <2>. DEFINE e == Assistant(n, "done")
  <2>2. e \in Messages /\ e.role = "assistant" /\ e.calls = n
    BY <1>1, <1>3
  <2>3. Sound(context, 0) /\ pc' = "tool" /\ next' = 1
    BY <1>0, <1>7 DEF ReplyCalls, CallsSound
  <2>. HIDE DEF e
  <2>4. context' = context \o <<e>>
    BY <1>0, <2>1, <2>2, AppendIsConcat DEF e
  <2>5. /\ Sound(context', Len(context) + 1) /\ Open(context', Len(context) + 1, n, 0)
        /\ Len(context') = Len(context) + 1 /\ Len(context) \in Nat
    BY <1>0, <2>2, <2>3, <2>4, SoundOpened, LenProperties
  <2>6. Working' = Len(context) + 1 /\ next' - 1 = 0
    BY <2>3, <2>5 DEF Working
  <2>7. 1 <= next' /\ next' <= calls'
    BY <1>1, <2>1, <2>3
  <2>. QED BY <2>1, <2>3, <2>5, <2>6, <2>7 DEF CallsSound
<1>8. CASE ReplyAnswers
  <2>1. Plain(Assistant(0, "done")) /\ Assistant(0, "done") \in Messages
    BY <1>1, <1>3 DEF Plain
  <2>2. Sound(context, 0) /\ pc' \in {"follow", "turn"} /\ context' = Append(context, Assistant(0, "done"))
    BY <1>0, <1>8 DEF ReplyAnswers, CallsSound
  <2>. QED BY <1>0, <1>2, <2>1, <2>2, PlainJoined
<1>9. CASE ToolReturns
  <2>. DEFINE skip == pending' # <<>>
              res == StepResults(skip)
              p == Working
              m == next - 1
  <2>1. context' = context \o res /\ pc = "tool" /\ calls' = calls
    BY <1>9 DEF ToolReturns, StepResults
  <2>2. /\ calls \in 0..MaxCalls /\ next \in 1..calls /\ skip \in BOOLEAN
        /\ calls \in Nat /\ next \in Nat /\ m \in Nat /\ next <= calls
        /\ Sound(context, p) /\ Open(context, p, calls, m)
    BY <1>0, <1>1, <2>1 DEF CallsSound, TypeOK
  <2>3. /\ res \in Seq(Messages) /\ Len(res) = (IF skip THEN calls - next + 1 ELSE 1)
        /\ \A k \in DOMAIN res : res[k].role = "result" /\ res[k].call = m + k
    BY <2>2, ResultsAre
  <2>4. /\ skip => pc' = "turn"
        /\ ~skip /\ next < calls => pc' = "tool" /\ next' = next + 1
        /\ ~skip /\ ~(next < calls) => pc' = "turnEnd"
    BY <1>9 DEF ToolReturns
  <2>. HIDE DEF res, skip
  <2>5. m + Len(res) <= calls /\ (skip \/ ~(next < calls) => m + Len(res) = calls) /\ (~skip => Len(res) = 1)
    BY <2>2, <2>3
  <2>6. /\ Sound(context \o res, p) /\ Open(context \o res, p, calls, m + Len(res))
        /\ m + Len(res) = calls => Sound(context \o res, 0)
    <3>. HIDE DEF p, m
    <3>. QED BY <1>0, <2>2, <2>3, <2>5, ResultsAdded
  <2>7. CASE skip \/ ~(next < calls)
    BY <1>2, <2>1, <2>4, <2>5, <2>6, <2>7
  <2>8. CASE ~skip /\ next < calls
    <3>1. Len(context') = Len(context) + 1 /\ Len(context) \in Nat
      BY <1>0, <2>1, <2>3, <2>5, <2>8, Joined
    <3>2. Working' = p /\ next' - 1 = m + Len(res) /\ 1 <= next' /\ next' <= calls'
      BY <2>1, <2>2, <2>4, <2>5, <2>8, <3>1 DEF Working
    <3>. QED BY <2>1, <2>4, <2>6, <2>8, <3>2 DEF CallsSound
  <2>. QED BY <2>7, <2>8
<1>10. CASE TurnEnds
  BY <1>0, <1>2, <1>10 DEF TurnEnds, CallsSound
<1>11. CASE PollFollowUps
  <2>1. pc' \in {"turn", "ended"} /\ pc = "follow" /\ context' = context
    BY <1>11 DEF PollFollowUps
  <2>. QED BY <1>0, <1>2, <2>1 DEF CallsSound
<1>. QED BY <1>4, <1>5, <1>6, <1>7, <1>8, <1>9, <1>10, <1>11 DEF Loop, Reply

LEMMA SoundAgent ==
  ASSUME IInv, Agent
  PROVE  CallsSound'
<1>0. TypeOK /\ EndIsLast /\ CallsSound /\ TranscriptsAgree /\ messages \in Seq(Messages)
  BY Types DEF IInv
<1>1. CASE TakeMessage
  <2>1. pc # "idle" /\ UNCHANGED <<pc, context, calls, next>>
    BY <1>0, <1>1 DEF TakeMessage, EndIsLast, loopVars
  <2>. QED BY <1>0, <2>1 DEF CallsSound, Working
<1>2. CASE TakeEnd
  <2>1. pc = "ended"
    <3> SUFFICES ASSUME pc # "ended" PROVE FALSE
      OBVIOUS
    <3>1. events \in Seq(Messages) /\ events # <<>>
      BY <1>0, <1>2, EventsAre DEF TakeEnd
    <3>2. Head(events) \in Messages
      BY <3>1, HeadTail
    <3>. QED BY <1>2, <3>2, EndIs DEF TakeEnd
  <2>. QED BY <1>0, <1>2, <2>1 DEF TakeEnd, CallsSound
<1>3. CASE Finally
  <2>1. Sound(context, 0) /\ events = <<>> /\ messages' = messages /\ pc' = "idle"
    BY <1>0, <1>3 DEF Finally, CallsSound, EndIsLast
  <2>2. context = messages
    <3>1. Announced = <<>> /\ messages \o Announced = context
      BY <1>0, <1>3, <2>1 DEF Finally, TranscriptsAgree, Announced
    <3>. QED BY <1>0, <3>1, ConcatEmptySeq
  <2>. QED BY <2>1, <2>2 DEF CallsSound
<1>. QED BY <1>1, <1>2, <1>3 DEF Agent

LEMMA SoundStep ==
  ASSUME IInv, [Next]_vars
  PROVE  CallsSound'
  BY SoundUser, SoundLoop, SoundAgent DEF Next

-----------------------------------------------------------------------------
(* No message is lost, doubled or overtaken.                               *)

\* A step that delivers appends x and then p to the conversation; one of them
\* may come from the front of the queue q of the kind, of which q2 is left.
Conveys(kind, q, q2, x, p) ==
  \/ x \o q2 = q /\ Ids(kind, p) = {}
  \/ p \o q2 = q /\ Ids(kind, x) = {}
  \/ q2 = q /\ Ids(kind, x) = {} /\ Ids(kind, p) = {}

LEMMA Conveyed ==
  ASSUME NEW kind, NEW n, NEW r,
         NEW h \in Seq(Messages), NEW x \in Seq(Messages), NEW p \in Seq(Messages),
         NEW q \in Seq(Messages), NEW q2 \in Seq(Messages),
         Conveys(kind, q, q2, x, p), KeptBy(kind, h \o q, n, r)
  PROVE  KeptBy(kind, ((h \o x) \o p) \o q2, n, r)
<1>1. h \o x \in Seq(Messages)
  BY Joined
<1>2. CASE x \o q2 = q /\ Ids(kind, p) = {}
  <2>1. KeptBy(kind, (h \o x) \o q2, n, r)
    BY <1>2, KeptMoved
  <2>. QED BY <1>1, <1>2, <2>1, KeptBetween
<1>3. CASE p \o q2 = q /\ Ids(kind, x) = {}
  <2>1. KeptBy(kind, (h \o x) \o (p \o q2), n, r)
    BY <1>3, KeptBetween
  <2>. QED BY <1>1, <2>1, KeptMoved
<1>4. CASE q2 = q /\ Ids(kind, x) = {} /\ Ids(kind, p) = {}
  <2>1. KeptBy(kind, (h \o x) \o q2, n, r)
    BY <1>4, KeptBetween
  <2>. QED BY <1>1, <1>4, <2>1, KeptBetween
<1>. QED BY <1>2, <1>3, <1>4 DEF Conveys

\* The messages that are not the users'.
LEMMA NoIds ==
  ASSUME NEW kind, NEW q \in Seq(Messages), \A i \in DOMAIN q : q[i].role # "user"
  PROVE  Ids(kind, q) = {}
  BY DEF Ids, OfKind

LEMMA OtherOne ==
  ASSUME NEW kind, NEW e \in Messages, e.role # "user" \/ e.from # kind
  PROVE  <<e>> \in Seq(Messages) /\ Ids(kind, <<e>>) = {}
<1>1. ~OfKind(kind, e)
  BY DEF OfKind
<1>2. Ids(kind, <<e>>) = {}
  BY <1>1, IdsOfOne
<1>. QED BY <1>2

LEMMA IdsOfParts ==
  ASSUME NEW kind, NEW s \in Seq(Messages), NEW t \in Seq(Messages), NEW q, s \o t = q, Ids(kind, q) = {}
  PROVE  Ids(kind, s) = {} /\ Ids(kind, t) = {}
<1>1. Ids(kind, s) \cup Ids(kind, t) = {}
  BY IdsJoined
<1>. QED BY <1>1

LEMMA HeldIs ==
  ASSUME TypeOK, PendingAtTurn
  PROVE  /\ Held \in Seq(Messages)
         /\ pc = "idle" => Held = messages
         /\ pc \notin {"idle", "turn"} => Held = context
<1>1. context \o <<>> = context
  BY Types, ConcatEmptySeq
<1>2. context \o pending \in Seq(Messages)
  BY Types, Joined
<1>. QED BY <1>1, <1>2, Types DEF Held, PendingAtTurn

\* A step that delivers.
LEMMA Delivers ==
  ASSUME IInv, TypeOK', NEW x \in Seq(Messages), NEW p \in Seq(Messages),
         Held' = (Held \o x) \o p, returned' = returned, UNCHANGED sent,
         Conveys("steer", steering, steering', x, p),
         Conveys("follow", followUp, followUp', x, p),
         Ids("prompt", x) = {}, Ids("prompt", p) = {}
  PROVE  Conserved'
<1>1. Held \in Seq(Messages)
  BY HeldIs DEF IInv
<1>2. steering \in Seq(Messages) /\ followUp \in Seq(Messages)
  BY Types DEF IInv
<1>3. steering' \in Seq(Messages) /\ followUp' \in Seq(Messages)
  BY Sorts DEF TypeOK
<1>4. <<>> \in Seq(Messages)
  BY Empty
<1>5. Conveys("prompt", <<>>, <<>>, x, p)
  BY DEF Conveys
<1>6. /\ KeptBy("steer", Held \o steering, sent["steer"], returned)
      /\ KeptBy("follow", Held \o followUp, sent["follow"], returned)
      /\ KeptBy("prompt", Held \o <<>>, sent["prompt"], returned)
  BY DEF IInv, Conserved
<1>7. KeptBy("steer", ((Held \o x) \o p) \o steering', sent["steer"], returned)
  BY <1>1, <1>2, <1>3, <1>6, Conveyed
<1>8. KeptBy("follow", ((Held \o x) \o p) \o followUp', sent["follow"], returned)
  BY <1>1, <1>2, <1>3, <1>6, Conveyed
<1>9. KeptBy("prompt", ((Held \o x) \o p) \o <<>>, sent["prompt"], returned)
  BY <1>1, <1>4, <1>5, <1>6, Conveyed
<1>. QED BY <1>7, <1>8, <1>9 DEF Conserved

\* A step that leaves the conversation and the queues alone.
LEMMA ConservedStays ==
  ASSUME IInv, Held' = Held, UNCHANGED <<queueVars, returned, sent>>
  PROVE  Conserved' /\ QueueKinds'
  BY DEF IInv, Conserved, QueueKinds, queueVars

\* A poll takes no message of another kind, and leaves none.
LEMMA SteeringKinds ==
  ASSUME IInv, PollSteering
  PROVE  /\ pending' \in Seq(Messages) /\ steering' \in Seq(Messages) /\ pending' \o steering' = steering
         /\ Ids("prompt", pending') = {} /\ Ids("follow", pending') = {}
         /\ Ids("prompt", steering') = {} /\ Ids("follow", steering') = {}
<1>1. pending' \in Seq(Messages) /\ steering' \in Seq(Messages) /\ pending' \o steering' = steering
  BY SteeringPolled DEF IInv
<1>2. Ids("prompt", steering) = {} /\ Ids("follow", steering) = {}
  BY DEF IInv, QueueKinds
<1>. QED BY <1>1, <1>2, IdsOfParts

LEMMA TakenKinds ==
  ASSUME IInv, NEW mode
  PROVE  /\ Taken(mode, steering) \in Seq(Messages) /\ Left(mode, steering) \in Seq(Messages)
         /\ Taken(mode, steering) \o Left(mode, steering) = steering
         /\ \A k \in {"prompt", "follow"} : Ids(k, Taken(mode, steering)) = {} /\ Ids(k, Left(mode, steering)) = {}
         /\ Taken(mode, followUp) \in Seq(Messages) /\ Left(mode, followUp) \in Seq(Messages)
         /\ Taken(mode, followUp) \o Left(mode, followUp) = followUp
         /\ \A k \in {"prompt", "steer"} : Ids(k, Taken(mode, followUp)) = {} /\ Ids(k, Left(mode, followUp)) = {}
<1>1. steering \in Seq(Messages) /\ followUp \in Seq(Messages) /\ QueueKinds
  BY Types DEF IInv
<1>2. /\ Taken(mode, steering) \in Seq(Messages) /\ Left(mode, steering) \in Seq(Messages)
      /\ Taken(mode, steering) \o Left(mode, steering) = steering
      /\ Taken(mode, followUp) \in Seq(Messages) /\ Left(mode, followUp) \in Seq(Messages)
      /\ Taken(mode, followUp) \o Left(mode, followUp) = followUp
  BY <1>1, Polled
<1>3. \A k \in {"prompt", "follow"} : Ids(k, Taken(mode, steering)) = {} /\ Ids(k, Left(mode, steering)) = {}
  BY <1>1, <1>2, IdsOfParts DEF QueueKinds
<1>4. \A k \in {"prompt", "steer"} : Ids(k, Taken(mode, followUp)) = {} /\ Ids(k, Left(mode, followUp)) = {}
  BY <1>1, <1>2, IdsOfParts DEF QueueKinds
<1>. QED BY <1>2, <1>3, <1>4

LEMMA LineGiven ==
  ASSUME NEW kind \in Kinds, NEW n \in Nat, NEW r, n + 1 \in 1..Bound,
         NEW h \in Seq(Messages), NEW q \in Seq(Messages), KeptBy(kind, h \o q, n, r)
  PROVE  /\ KeptBy(kind, h \o Append(q, User(kind, n + 1)), n + 1, r)
         /\ \A k : k # kind /\ Ids(k, q) = {} => Ids(k, Append(q, User(kind, n + 1))) = {}
<1>. DEFINE u == User(kind, n + 1)
<1>1. u \in Messages /\ u.from = kind
  BY UserIs
<1>2. KeptBy(kind, (h \o q) \o <<u>>, n + 1, r)
  <2>1. h \o q \in Seq(Messages)
    BY Joined
  <2>. QED BY <2>1, KeptGiven
<1>. HIDE DEF u
<1>3. <<u>> \in Seq(Messages) /\ Append(q, u) = q \o <<u>>
  BY <1>1, AppendIsConcat
<1>4. (h \o q) \o <<u>> = h \o (q \o <<u>>)
  BY <1>3, Regrouped
<1>5. ASSUME NEW k, k # kind, Ids(k, q) = {} PROVE Ids(k, q \o <<u>>) = {}
  <2>1. Ids(k, <<u>>) = {}
    BY <1>1, <1>5, IdsOfOne DEF OfKind
  <2>2. Ids(k, q \o <<u>>) = Ids(k, q) \cup Ids(k, <<u>>)
    BY <1>3, IdsJoined
  <2>. QED BY <1>5, <2>1, <2>2
<1>. QED BY <1>2, <1>3, <1>4, <1>5 DEF u

LEMMA QueueConserves ==
  ASSUME IInv, Steer \/ FollowUp
  PROVE  Conserved' /\ QueueKinds'
<1>0. /\ TypeOK /\ SentBounded /\ PendingAtTurn /\ QueueKinds
      /\ Held \in Seq(Messages) /\ steering \in Seq(Messages) /\ followUp \in Seq(Messages)
      /\ KeptBy("steer", Held \o steering, sent["steer"], returned)
      /\ KeptBy("follow", Held \o followUp, sent["follow"], returned)
      /\ KeptBy("prompt", Held \o <<>>, sent["prompt"], returned)
  BY HeldIs, Types DEF IInv, Conserved
<1>1. CASE Steer
  <2>1. /\ sent'["steer"] = sent["steer"] + 1 /\ sent["steer"] \in Nat /\ sent["steer"] + 1 \in 1..Bound
        /\ sent'["prompt"] = sent["prompt"] /\ sent'["follow"] = sent["follow"]
    BY <1>0, <1>1, NextNumber DEF Steer, Kinds
  <2>2. /\ steering' = Append(steering, User("steer", sent["steer"] + 1))
        /\ Held' = Held /\ followUp' = followUp /\ returned' = returned
    BY <1>1, <2>1 DEF Steer, Held, agentVars, loopVars
  <2>3. /\ KeptBy("steer", Held \o steering', sent'["steer"], returned)
        /\ \A k : k # "steer" /\ Ids(k, steering) = {} => Ids(k, steering') = {}
    BY <1>0, <2>1, <2>2, LineGiven DEF Kinds
  <2>. QED BY <1>0, <2>1, <2>2, <2>3 DEF Conserved, QueueKinds
<1>2. CASE FollowUp
  <2>1. /\ sent'["follow"] = sent["follow"] + 1 /\ sent["follow"] \in Nat /\ sent["follow"] + 1 \in 1..Bound
        /\ sent'["prompt"] = sent["prompt"] /\ sent'["steer"] = sent["steer"]
    BY <1>0, <1>2, NextNumber DEF FollowUp, Kinds
  <2>2. /\ followUp' = Append(followUp, User("follow", sent["follow"] + 1))
        /\ Held' = Held /\ steering' = steering /\ returned' = returned
    BY <1>2, <2>1 DEF FollowUp, Held, agentVars, loopVars
  <2>3. /\ KeptBy("follow", Held \o followUp', sent'["follow"], returned)
        /\ \A k : k # "follow" /\ Ids(k, followUp) = {} => Ids(k, followUp') = {}
    BY <1>0, <2>1, <2>2, LineGiven DEF Kinds
  <2>. QED BY <1>0, <2>1, <2>2, <2>3 DEF Conserved, QueueKinds
<1>. QED BY <1>1, <1>2

\* What clearQueue() takes out of a queue is among what it hands back.
LEMMA ClearedIsListed ==
  ASSUME TypeOK, NEW kind \in {"steer", "follow"}
  PROVE  /\ \A i \in Ids(kind, steering) : User(kind, i) \in Listed
         /\ \A i \in Ids(kind, followUp) : User(kind, i) \in Listed
<1>. DEFINE S == Messages \cup {AgentEnd}
<1>1. /\ steering \in Seq(S) /\ followUp \in Seq(S) /\ pending \in Seq(S) /\ events \in Seq(S)
      /\ steering \in Seq(Messages) /\ followUp \in Seq(Messages)
  BY Types, Sorts DEF TypeOK
<1>. HIDE DEF S
<1>2. \A s, t \in Seq(S) : /\ s \o t \in Seq(S) /\ ToSet(s) \subseteq ToSet(s \o t)
                           /\ ToSet(t) \subseteq ToSet(s \o t)
  <2> SUFFICES ASSUME NEW s \in Seq(S), NEW t \in Seq(S)
               PROVE  s \o t \in Seq(S) /\ ToSet(s) \subseteq ToSet(s \o t) /\ ToSet(t) \subseteq ToSet(s \o t)
    OBVIOUS
  <2>1. /\ s \o t \in Seq(S)
        /\ \A i \in DOMAIN s : (s \o t)[i] = s[i] /\ i \in DOMAIN (s \o t)
        /\ \A i \in DOMAIN t : (s \o t)[Len(s) + i] = t[i] /\ Len(s) + i \in DOMAIN (s \o t)
    BY Joined
  <2>. QED BY <2>1 DEF ToSet
<1>3. /\ ToSet(steering) \subseteq ToSet(steering \o followUp)
      /\ ToSet(followUp) \subseteq ToSet(steering \o followUp)
      /\ ToSet(steering \o followUp) \subseteq ToSet(steering \o followUp \o pending \o events)
  <2>1. steering \o followUp \in Seq(S)
    BY <1>1, <1>2
  <2>2. steering \o followUp \o pending \in Seq(S)
    BY <1>1, <1>2, <2>1
  <2>. QED BY <1>1, <1>2, <2>1, <2>2
<1>4. ASSUME NEW q \in Seq(Messages), ToSet(q) \subseteq ToSet(steering \o followUp \o pending \o events),
             NEW i \in Ids(kind, q)
      PROVE  User(kind, i) \in Listed
  <2>1. PICK j \in DOMAIN q : OfKind(kind, q[j]) /\ q[j].id = i
    BY <1>4, IdsAre
  <2>2. q[j] \in Messages /\ q[j] \in ToSet(q)
    BY LenProperties DEF ToSet
  <2>3. q[j] = User(kind, i)
    BY <2>1, <2>2, OfKindHasId
  <2>4. User(kind, i).role = "user" /\ User(kind, i).from = kind
    BY <2>1, <2>3 DEF OfKind
  <2>. QED BY <1>4, <2>2, <2>3, <2>4 DEF Listed
<1>. QED BY <1>1, <1>3, <1>4

LEMMA ClearConserves ==
  ASSUME IInv, ClearQueue
  PROVE  Conserved' /\ QueueKinds'
<1>0. /\ TypeOK /\ QueueKinds
      /\ Held \in Seq(Messages) /\ steering \in Seq(Messages) /\ followUp \in Seq(Messages)
      /\ KeptBy("steer", Held \o steering, sent["steer"], returned)
      /\ KeptBy("follow", Held \o followUp, sent["follow"], returned)
      /\ KeptBy("prompt", Held \o <<>>, sent["prompt"], returned)
  BY HeldIs, Types DEF IInv, Conserved
<1>1. /\ returned = {} /\ returned' = Listed /\ steering' = <<>> /\ followUp' = <<>>
      /\ Held' = Held /\ sent' = sent
  BY DEF ClearQueue, Held, agentVars, loopVars
<1>2. KeptBy("steer", Held \o <<>>, sent["steer"], Listed)
  BY <1>0, <1>1, ClearedIsListed, KeptCleared
<1>3. KeptBy("follow", Held \o <<>>, sent["follow"], Listed)
  BY <1>0, <1>1, ClearedIsListed, KeptCleared
<1>4. KeptBy("prompt", Held \o <<>>, sent["prompt"], Listed)
  BY <1>0, <1>1 DEF KeptBy
<1>. QED BY <1>1, <1>2, <1>3, <1>4, IdsOfNone DEF Conserved, QueueKinds

LEMMA StartConserves ==
  ASSUME IInv, TypeOK', Prompt \/ ContinueQueued \/ ContinueTurn
  PROVE  Conserved' /\ QueueKinds'
<1>0. /\ TypeOK /\ SentBounded /\ PendingAtTurn /\ QueueKinds
      /\ messages \in Seq(Messages) /\ steering \in Seq(Messages) /\ followUp \in Seq(Messages)
      /\ <<>> \in Seq(Messages) /\ \A k : Ids(k, <<>>) = {}
  BY Types, Empty, IdsOfNone DEF IInv
<1>1. pc = "idle" /\ Held = messages
  BY HeldIs DEF IInv, Prompt, ContinueQueued, ContinueTurn
<1>2. ASSUME NEW ms, Begin(ms) PROVE Held' = (Held \o ms) \o pending'
  BY <1>1, <1>2 DEF Begin, Held
<1>3. CASE Prompt
  <2>. DEFINE n == sent["prompt"]
              u == User("prompt", n + 1)
              h == Held
  <2>1. /\ sent'["prompt"] = n + 1 /\ n \in Nat /\ n + 1 \in 1..Bound /\ u \in Messages
        /\ sent'["steer"] = sent["steer"] /\ sent'["follow"] = sent["follow"]
    BY <1>0, <1>3, NextNumber DEF Prompt, Kinds
  <2>2. PollSteering /\ Begin(<<u>>) /\ followUp' = followUp /\ returned' = returned
    BY <1>3, <2>1 DEF Prompt
  <2>3. h' = (h \o <<u>>) \o pending'
    BY <1>2, <2>2
  <2>4. /\ pending' \in Seq(Messages) /\ steering' \in Seq(Messages) /\ pending' \o steering' = steering
        /\ Ids("prompt", pending') = {} /\ Ids("follow", pending') = {}
        /\ Ids("prompt", steering') = {} /\ Ids("follow", steering') = {}
    BY <2>2, SteeringKinds
  <2>5. <<u>> \in Seq(Messages) /\ Ids("steer", <<u>>) = {} /\ Ids("follow", <<u>>) = {}
    <3>1. u.from = "prompt"
      BY DEF User
    <3>. HIDE DEF u
    <3>. QED BY <2>1, <3>1, OtherOne
  <2>6. /\ KeptBy("steer", h \o steering, sent["steer"], returned)
        /\ KeptBy("follow", h \o followUp, sent["follow"], returned)
        /\ KeptBy("prompt", h \o <<>>, n, returned) /\ h \in Seq(Messages)
    BY <1>0, HeldIs DEF IInv, Conserved
  <2>7. h \o <<>> = h /\ h \o <<u>> \in Seq(Messages)
    <3>. HIDE DEF h, u
    <3>. QED BY <2>5, <2>6, ConcatEmptySeq, Joined
  <2>8. KeptBy("prompt", h \o <<u>>, n + 1, returned)
    BY <2>1, <2>6, <2>7, KeptGiven DEF Kinds
  <2>. HIDE DEF u, n
  <2>9. KeptBy("prompt", ((h \o <<u>>) \o pending') \o <<>>, n + 1, returned)
    <3>. HIDE DEF h
    <3>1. KeptBy("prompt", (h \o <<u>>) \o <<>>, n + 1, returned)
      BY <2>7, <2>8, ConcatEmptySeq
    <3>. QED BY <1>0, <2>4, <2>7, <3>1, KeptBetween
  <2>10. KeptBy("steer", ((h \o <<u>>) \o pending') \o steering', sent["steer"], returned)
    <3>. HIDE DEF h
    <3>1. Conveys("steer", steering, steering', <<u>>, pending')
      BY <2>4, <2>5 DEF Conveys
    <3>. QED BY <1>0, <2>4, <2>5, <2>6, <3>1, Conveyed
  <2>11. KeptBy("follow", ((h \o <<u>>) \o pending') \o followUp, sent["follow"], returned)
    <3>. HIDE DEF h
    <3>1. Conveys("follow", followUp, followUp, <<u>>, pending')
      BY <2>4, <2>5 DEF Conveys
    <3>. QED BY <1>0, <2>4, <2>5, <2>6, <3>1, Conveyed
  <2>12. Conserved'
    BY <2>1, <2>2, <2>3, <2>9, <2>10, <2>11 DEF Conserved, n
  <2>. QED BY <1>0, <2>2, <2>4, <2>12 DEF QueueKinds
<1>4. CASE ContinueQueued
  <2>1. PICK mode \in Modes :
          \/ /\ Begin(Taken(mode, steering))
             /\ steering' = Left(mode, steering) /\ pending' = <<>> /\ UNCHANGED followUp
          \/ /\ Begin(Taken(mode, followUp)) /\ followUp' = Left(mode, followUp) /\ PollSteering
    BY <1>4 DEF ContinueQueued
  <2>2. UNCHANGED sent /\ returned' = returned
    BY <1>4 DEF ContinueQueued
  <2>3. /\ Taken(mode, steering) \in Seq(Messages) /\ Left(mode, steering) \in Seq(Messages)
        /\ Taken(mode, steering) \o Left(mode, steering) = steering
        /\ \A k \in {"prompt", "follow"} : Ids(k, Taken(mode, steering)) = {} /\ Ids(k, Left(mode, steering)) = {}
        /\ Taken(mode, followUp) \in Seq(Messages) /\ Left(mode, followUp) \in Seq(Messages)
        /\ Taken(mode, followUp) \o Left(mode, followUp) = followUp
        /\ \A k \in {"prompt", "steer"} : Ids(k, Taken(mode, followUp)) = {} /\ Ids(k, Left(mode, followUp)) = {}
    BY TakenKinds
  <2>4. CASE /\ Begin(Taken(mode, steering))
             /\ steering' = Left(mode, steering) /\ pending' = <<>> /\ UNCHANGED followUp
    <3>1. Held' = (Held \o Taken(mode, steering)) \o pending' /\ pending' \in Seq(Messages)
      BY <1>0, <1>2, <2>4
    <3>2. /\ Conveys("steer", steering, steering', Taken(mode, steering), pending')
          /\ Conveys("follow", followUp, followUp', Taken(mode, steering), pending')
          /\ Ids("prompt", Taken(mode, steering)) = {} /\ Ids("prompt", pending') = {}
      BY <1>0, <2>3, <2>4 DEF Conveys
    <3>3. Conserved'
      BY <2>2, <2>3, <3>1, <3>2, Delivers
    <3>. QED BY <1>0, <2>3, <2>4, <3>3 DEF QueueKinds
  <2>5. CASE /\ Begin(Taken(mode, followUp)) /\ followUp' = Left(mode, followUp) /\ PollSteering
    <3>1. Held' = (Held \o Taken(mode, followUp)) \o pending'
      BY <1>2, <2>5
    <3>2. /\ pending' \in Seq(Messages) /\ steering' \in Seq(Messages) /\ pending' \o steering' = steering
          /\ Ids("prompt", pending') = {} /\ Ids("follow", pending') = {}
          /\ Ids("prompt", steering') = {} /\ Ids("follow", steering') = {}
      BY <2>5, SteeringKinds
    <3>3. /\ Conveys("steer", steering, steering', Taken(mode, followUp), pending')
          /\ Conveys("follow", followUp, followUp', Taken(mode, followUp), pending')
          /\ Ids("prompt", Taken(mode, followUp)) = {}
      BY <2>3, <2>5, <3>2 DEF Conveys
    <3>4. Conserved'
      BY <2>2, <2>3, <3>1, <3>2, <3>3, Delivers
    <3>. QED BY <1>0, <2>3, <2>5, <3>2, <3>4 DEF QueueKinds
  <2>. QED BY <2>1, <2>4, <2>5
<1>5. CASE ContinueTurn
  <2>1. PollSteering /\ Begin(<<>>) /\ followUp' = followUp /\ returned' = returned /\ UNCHANGED sent
    BY <1>5 DEF ContinueTurn
  <2>2. Held' = (Held \o <<>>) \o pending'
    BY <1>2, <2>1
  <2>3. /\ pending' \in Seq(Messages) /\ steering' \in Seq(Messages) /\ pending' \o steering' = steering
        /\ Ids("prompt", pending') = {} /\ Ids("follow", pending') = {}
        /\ Ids("prompt", steering') = {} /\ Ids("follow", steering') = {}
    BY <2>1, SteeringKinds
  <2>4. /\ Conveys("steer", steering, steering', <<>>, pending')
        /\ Conveys("follow", followUp, followUp', <<>>, pending')
    BY <1>0, <2>1, <2>3 DEF Conveys
  <2>5. Conserved'
    BY <1>0, <2>1, <2>2, <2>3, <2>4, Delivers
  <2>. QED BY <1>0, <2>1, <2>3, <2>5 DEF QueueKinds
<1>. QED BY <1>3, <1>4, <1>5

\* A retry drops a reply, which is no message of a user.
LEMMA DropConserves ==
  ASSUME IInv, DropFailure
  PROVE  Conserved' /\ QueueKinds'
<1>0. /\ TypeOK /\ QueueKinds /\ messages \in Seq(Messages) /\ steering \in Seq(Messages)
      /\ followUp \in Seq(Messages) /\ <<>> \in Seq(Messages)
      /\ KeptBy("steer", Held \o steering, sent["steer"], returned)
      /\ KeptBy("follow", Held \o followUp, sent["follow"], returned)
      /\ KeptBy("prompt", Held \o <<>>, sent["prompt"], returned)
  BY Types, Empty DEF IInv, Conserved
<1>1. /\ messages # <<>> /\ Last(messages).role = "assistant" /\ messages' = Front(messages)
      /\ pc = "idle" /\ Held = messages /\ Held' = messages' /\ UNCHANGED <<steering, followUp, returned, sent>>
  BY DEF DropFailure, Held, queueVars, loopVars
<1>. DEFINE f == Front(messages)
            x == <<Last(messages)>>
<1>2. f \in Seq(Messages) /\ Last(messages) \in Messages /\ f \o x = messages
  BY <1>0, <1>1, FrontLast
<1>3. x \in Seq(Messages) /\ \A k : Ids(k, x) = {}
  <2>. DEFINE e == Last(messages)
  <2>1. e \in Messages /\ e.role # "user"
    BY <1>1, <1>2
  <2>. HIDE DEF e
  <2>2. \A k : <<e>> \in Seq(Messages) /\ Ids(k, <<e>>) = {}
    BY <2>1, OtherOne
  <2>. QED BY <2>2 DEF e
<1>4. Held' = f
  BY <1>1
<1>. HIDE DEF f, x
<1>5. KeptBy("steer", f \o steering, sent["steer"], returned)
  <2>1. KeptBy("steer", (f \o x) \o steering, sent["steer"], returned)
    BY <1>0, <1>1, <1>2
  <2>. QED BY <1>0, <1>2, <1>3, <2>1, KeptBetween
<1>6. KeptBy("follow", f \o followUp, sent["follow"], returned)
  <2>1. KeptBy("follow", (f \o x) \o followUp, sent["follow"], returned)
    BY <1>0, <1>1, <1>2
  <2>. QED BY <1>0, <1>2, <1>3, <2>1, KeptBetween
<1>7. KeptBy("prompt", f \o <<>>, sent["prompt"], returned)
  <2>1. KeptBy("prompt", (f \o x) \o <<>>, sent["prompt"], returned)
    BY <1>0, <1>1, <1>2
  <2>. QED BY <1>0, <1>2, <1>3, <2>1, KeptBetween
<1>. QED BY <1>0, <1>1, <1>4, <1>5, <1>6, <1>7 DEF Conserved, QueueKinds

\* The steps of the loop that poll the steering queue, after they have put x
\* into the context.
LEMMA PollConserves ==
  ASSUME IInv, TypeOK', NEW x \in Seq(Messages), \A i \in DOMAIN x : x[i].role # "user",
         pc \notin {"idle", "turn"}, pc' # "idle", context' = context \o x, PollSteering,
         UNCHANGED <<followUp, returned, sent>>
  PROVE  Conserved' /\ QueueKinds'
<1>1. QueueKinds /\ Held = context
  BY HeldIs DEF IInv
<1>2. Held' = (Held \o x) \o pending'
  BY <1>1 DEF Held
<1>3. /\ pending' \in Seq(Messages) /\ steering' \in Seq(Messages) /\ pending' \o steering' = steering
      /\ Ids("prompt", pending') = {} /\ Ids("follow", pending') = {}
      /\ Ids("prompt", steering') = {} /\ Ids("follow", steering') = {}
  BY SteeringKinds
<1>4. \A k : Ids(k, x) = {}
  BY NoIds
<1>5. /\ Conveys("steer", steering, steering', x, pending')
      /\ Conveys("follow", followUp, followUp', x, pending')
  BY <1>3, <1>4 DEF Conveys
<1>6. Conserved'
  BY <1>2, <1>3, <1>4, <1>5, Delivers
<1>. QED BY <1>1, <1>3, <1>6 DEF QueueKinds

\* The steps that put x into the context and poll nothing.
LEMMA SaysConserves ==
  ASSUME IInv, TypeOK', NEW x \in Seq(Messages), \A i \in DOMAIN x : x[i].role # "user",
         pc \notin {"idle", "turn"}, pc' # "idle", context' = context \o x,
         UNCHANGED <<pending, steering, followUp, returned, sent>>
  PROVE  Conserved' /\ QueueKinds'
<1>1. QueueKinds /\ Held = context /\ pending = <<>> /\ <<>> \in Seq(Messages)
  BY HeldIs, Empty DEF IInv, PendingAtTurn
<1>2. Held' = (Held \o x) \o <<>>
  BY <1>1 DEF Held
<1>3. \A k : Ids(k, x) = {} /\ Ids(k, <<>>) = {}
  BY NoIds, IdsOfNone
<1>4. /\ Conveys("steer", steering, steering', x, <<>>)
      /\ Conveys("follow", followUp, followUp', x, <<>>)
  BY <1>3 DEF Conveys
<1>5. Conserved'
  BY <1>1, <1>2, <1>3, <1>4, Delivers
<1>. QED BY <1>1, <1>5 DEF QueueKinds

LEMMA LoopConserves ==
  ASSUME IInv, TypeOK', Loop
  PROVE  Conserved' /\ QueueKinds'
<1>0. TypeOK /\ PendingAtTurn /\ QueueKinds /\ context \in Seq(Messages) /\ <<>> \in Seq(Messages)
  BY Types, Empty DEF IInv
<1>1. MaxCalls \in Nat /\ 0 \in 0..MaxCalls /\ MaxCalls \in 0..MaxCalls /\ \A n \in 1..MaxCalls : n \in 0..MaxCalls
  BY ConstantsOK
<1>2. \A n \in 0..MaxCalls, s \in {"done"} \cup Failures :
        /\ Append(context, Assistant(n, s)) = context \o <<Assistant(n, s)>>
        /\ <<Assistant(n, s)>> \in Seq(Messages)
        /\ \A i \in DOMAIN <<Assistant(n, s)>> : <<Assistant(n, s)>>[i].role # "user"
  <2> SUFFICES ASSUME NEW n \in 0..MaxCalls, NEW s \in {"done"} \cup Failures
               PROVE  /\ Append(context, Assistant(n, s)) = context \o <<Assistant(n, s)>>
                      /\ <<Assistant(n, s)>> \in Seq(Messages)
                      /\ \A i \in DOMAIN <<Assistant(n, s)>> : <<Assistant(n, s)>>[i].role # "user"
    OBVIOUS
  <2>. DEFINE e == Assistant(n, s)
  <2>1. e \in Messages /\ e.role = "assistant"
    BY AssistantIs
  <2>. HIDE DEF e
  <2>2. <<e>> \in Seq(Messages) /\ Append(context, e) = context \o <<e>>
    BY <1>0, <2>1, AppendIsConcat
  <2>3. \A i \in DOMAIN <<e>> : <<e>>[i].role # "user"
    BY <2>1, One
  <2>. QED BY <2>2, <2>3 DEF e
<1>3. CASE Turn
  <2>1. Held' = Held
    <3>1. (context \o pending) \o <<>> = context \o pending
      <4>1. context \o pending \in Seq(Messages)
        BY <1>0, Types, Joined
      <4>. QED BY <4>1, ConcatEmptySeq
    <3>. QED BY <1>3, <3>1 DEF Turn, Held
  <2>. QED BY <1>3, <2>1, ConservedStays DEF Turn
<1>4. CASE LookupThrows
  <2>1. Held' = Held
    BY <1>4 DEF LookupThrows, Held
  <2>. QED BY <1>4, <2>1, ConservedStays DEF LookupThrows
<1>5. CASE ReplyFails
  <2>1. PICK n \in 0..MaxCalls, s \in {"done"} \cup Failures : context' = Append(context, Assistant(n, s))
    BY <1>1, <1>5 DEF ReplyFails, Failures
  <2>2. context' = context \o <<Assistant(n, s)>>
    BY <1>2, <2>1
  <2>3. UNCHANGED <<pending, steering, followUp, returned, sent>> /\ pc = "request" /\ pc' = "ended"
    BY <1>5 DEF ReplyFails, queueVars
  <2>. QED BY <1>2, <2>2, <2>3, SaysConserves
<1>6. CASE ReplyCalls
  <2>1. PICK n \in 0..MaxCalls : context' = Append(context, Assistant(n, "done"))
    BY <1>1, <1>6 DEF ReplyCalls
  <2>2. context' = context \o <<Assistant(n, "done")>>
    BY <1>2, <2>1
  <2>3. UNCHANGED <<pending, steering, followUp, returned, sent>> /\ pc = "request" /\ pc' = "tool"
    BY <1>6 DEF ReplyCalls, queueVars
  <2>. QED BY <1>2, <2>2, <2>3, SaysConserves
<1>7. CASE ReplyAnswers
  <2>1. context' = context \o <<Assistant(0, "done")>>
    BY <1>1, <1>2, <1>7 DEF ReplyAnswers
  <2>2. PollSteering /\ pc = "request" /\ pc' # "idle" /\ UNCHANGED <<followUp, returned, sent>>
    BY <1>7 DEF ReplyAnswers
  <2>. QED BY <1>1, <1>2, <2>1, <2>2, PollConserves
<1>8. CASE ToolReturns
  <2>. DEFINE skip == pending' # <<>>
              res == StepResults(skip)
  <2>1. context' = context \o res
    BY <1>8 DEF ToolReturns, StepResults
  <2>2. PollSteering /\ pc = "tool" /\ pc' # "idle" /\ UNCHANGED <<followUp, returned, sent>>
    BY <1>8 DEF ToolReturns
  <2>3. calls \in 0..MaxCalls /\ next \in 1..calls /\ skip \in BOOLEAN
    BY <2>2 DEF IInv, CallsSound, TypeOK
  <2>4. res \in Seq(Messages) /\ \A k \in DOMAIN res : res[k].role = "result"
    BY <2>3, ResultsAre
  <2>. HIDE DEF res
  <2>5. \A k \in DOMAIN res : res[k].role # "user"
    BY <2>4
  <2>. QED BY <2>1, <2>2, <2>4, <2>5, PollConserves
<1>9. CASE TurnEnds
  <2>1. PollSteering /\ pc = "turnEnd" /\ pc' # "idle" /\ UNCHANGED <<followUp, returned, sent>>
    BY <1>9 DEF TurnEnds
  <2>2. context' = context \o <<>> /\ \A i \in DOMAIN <<>> : <<>>[i].role # "user"
    BY <1>0, <1>9, ConcatEmptySeq, Empty DEF TurnEnds
  <2>. QED BY <1>0, <2>1, <2>2, PollConserves
<1>10. CASE PollFollowUps
  <2>1. PICK mode \in Modes : pending' = Taken(mode, followUp) /\ followUp' = Left(mode, followUp)
    BY <1>10 DEF PollFollowUps
  <2>2. /\ pending' \in Seq(Messages) /\ pending' \o followUp' = followUp
        /\ \A k \in {"prompt", "steer"} : Ids(k, pending') = {} /\ Ids(k, followUp') = {}
    BY <2>1, TakenKinds
  <2>3. /\ pc = "follow" /\ pc' # "idle" /\ context' = context
        /\ returned' = returned /\ steering' = steering /\ UNCHANGED sent
    BY <1>10 DEF PollFollowUps
  <2>4. Held' = (Held \o <<>>) \o pending'
    <3>1. Held = context /\ context \o <<>> = context
      BY <1>0, <2>3, HeldIs, ConcatEmptySeq
    <3>. QED BY <2>3, <3>1 DEF Held
  <2>5. /\ Conveys("steer", steering, steering', <<>>, pending')
        /\ Conveys("follow", followUp, followUp', <<>>, pending')
        /\ Ids("prompt", <<>>) = {} /\ Ids("prompt", pending') = {}
    BY <2>2, <2>3, IdsOfNone DEF Conveys
  <2>6. Conserved'
    BY <1>0, <2>2, <2>3, <2>4, <2>5, Delivers
  <2>. QED BY <1>0, <2>2, <2>3, <2>6 DEF QueueKinds
<1>. QED BY <1>3, <1>4, <1>5, <1>6, <1>7, <1>8, <1>9, <1>10 DEF Loop, Reply

LEMMA AgentConserves ==
  ASSUME IInv, Agent
  PROVE  Conserved' /\ QueueKinds'
<1>0. TypeOK /\ PendingAtTurn /\ EndIsLast /\ TranscriptsAgree
  BY DEF IInv
<1>1. CASE TakeMessage
  <2>1. pc # "idle" /\ UNCHANGED <<pc, context, pending>>
    BY <1>0, <1>1 DEF TakeMessage, EndIsLast, loopVars
  <2>2. Held' = Held
    BY <2>1 DEF Held
  <2>. QED BY <1>1, <2>2, ConservedStays DEF TakeMessage
<1>2. CASE TakeEnd
  <2>1. pc # "idle" /\ pc' # "idle" /\ UNCHANGED <<context, pending>>
    BY <1>0, <1>2 DEF TakeEnd, EndIsLast
  <2>2. Held' = Held
    BY <2>1 DEF Held
  <2>. QED BY <1>2, <2>2, ConservedStays DEF TakeEnd
<1>3. CASE Finally
  <2>1. Held = context /\ pc = "closing" /\ pc' = "idle" /\ messages' = messages
    BY <1>0, <1>3, HeldIs DEF Finally
  <2>2. context = messages
    <3>1. Announced = <<>> /\ messages \o Announced = context
      BY <1>0, <2>1, EventsAre DEF EndIsLast, TranscriptsAgree, Announced
    <3>. QED BY <1>0, <3>1, Types, ConcatEmptySeq
  <2>3. Held' = Held
    BY <2>1, <2>2 DEF Held
  <2>. QED BY <1>3, <2>3, ConservedStays DEF Finally
<1>. QED BY <1>1, <1>2, <1>3 DEF Agent

LEMMA ConservedStep ==
  ASSUME IInv, TypeOK', [Next]_vars
  PROVE  Conserved' /\ QueueKinds'
<1>1. ASSUME Abort \/ UNCHANGED vars PROVE Conserved' /\ QueueKinds'
  <2>1. Held' = Held
    BY <1>1 DEF Abort, vars, agentVars, loopVars, Held
  <2>. QED BY <1>1, <2>1, ConservedStays DEF Abort, vars
<1>. QED
  BY <1>1, QueueConserves, ClearConserves, StartConserves, DropConserves, LoopConserves, AgentConserves
  DEF Next, UserStep

-----------------------------------------------------------------------------
(* The theorems.                                                           *)

LEMMA InitIInv == Init => IInv
<1> SUFFICES ASSUME Init PROVE IInv
  OBVIOUS
<1>1. Held = <<>> /\ <<>> \o <<>> = <<>> /\ steering = <<>> /\ followUp = <<>>
  BY DEF Init, Held
<1>2. sent["steer"] = 0 /\ sent["follow"] = 0 /\ sent["prompt"] = 0
  BY DEF Init, Kinds
<1>3. \A k : KeptBy(k, <<>>, 0, returned)
  BY IdsOfNone DEF KeptBy
<1>4. Conserved /\ QueueKinds
  BY <1>1, <1>2, <1>3, IdsOfNone DEF Conserved, QueueKinds
<1>5. Sound(<<>>, 0)
  BY DEF Sound
<1>6. CallsSound
  BY <1>5 DEF Init, CallsSound
<1>. QED BY <1>4, <1>6, InitBase, InitAgrees DEF IInv

LEMMA StepIInv == IInv /\ [Next]_vars => IInv'
<1> SUFFICES ASSUME IInv, [Next]_vars PROVE IInv'
  OBVIOUS
<1>1. TypeOK' /\ SentBounded' /\ PendingAtTurn' /\ AnswersFirst'
  BY BaseStep
<1>. QED BY <1>1, AgreeStep, ConservedStep, SoundStep DEF IInv

THEOREM Invariance == Spec => []IInv
  BY InitIInv, StepIInv, PTL DEF Spec

\* The variables of the agent and of its loop keep their types.
THEOREM TypeCorrect == Spec => []TypeOK
<1>1. IInv => TypeOK
  BY DEF IInv
<1>. QED BY <1>1, Invariance, PTL

LEMMA KeptByIsKept ==
  ASSUME TypeOK, NEW kind \in Kinds, NEW queue \in Seq(Messages), Held \in Seq(Messages),
         KeptBy(kind, Held \o queue, sent[kind], returned)
  PROVE  Kept(kind, queue)
<1>. DEFINE line == Held \o queue
            there == {e \in ToSet(line) : OfKind(kind, e)}
<1>1. line \in Seq(Messages) /\ \A i \in DOMAIN line : line[i] \in Messages
  BY Joined, LenProperties
<1>2. KeptBy(kind, line, sent[kind], returned)
  OBVIOUS
<1>. HIDE DEF line
<1>3. there \subseteq Issued(kind)
  <2> SUFFICES ASSUME NEW e \in ToSet(line), OfKind(kind, e) PROVE e \in Issued(kind)
    OBVIOUS
  <2>1. PICK i \in DOMAIN line : e = line[i]
    BY DEF ToSet
  <2>2. e = User(kind, e.id)
    BY <1>1, <2>1, OfKindHasId
  <2>3. e.id \in 1..sent[kind]
    BY <1>1, <1>2, <2>1, IdsAre DEF KeptBy
  <2>. QED BY <2>2, <2>3 DEF Issued
<1>4. Issued(kind) \subseteq there \cup returned
  <2> SUFFICES ASSUME NEW n \in 1..sent[kind], User(kind, n) \notin returned PROVE User(kind, n) \in there
    BY DEF Issued
  <2>1. n \in Ids(kind, line)
    BY <1>2 DEF KeptBy
  <2>2. PICK i \in DOMAIN line : OfKind(kind, line[i]) /\ line[i].id = n
    BY <1>1, <2>1, IdsAre
  <2>3. line[i] = User(kind, n)
    BY <1>1, <2>2, OfKindHasId
  <2>. QED BY <2>2, <2>3 DEF ToSet
<1>5. InOrder(kind, line)
  BY <1>2 DEF KeptBy
<1>. QED BY <1>3, <1>4, <1>5 DEF Kept, line

\* The messages users hand over are delivered in order and at most once, and
\* none is lost, in an aborted, failed or retried run either: the queues of
\* Agent.steer and Agent.followUp against their polls and clearQueue().
THEOREM NoMessageLost == Spec => []QueuesConserved
<1>1. IInv => QueuesConserved
  <2> SUFFICES ASSUME IInv PROVE QueuesConserved
    OBVIOUS
  <2>1. TypeOK /\ Held \in Seq(Messages) /\ steering \in Seq(Messages) /\ followUp \in Seq(Messages)
    BY HeldIs, Types DEF IInv
  <2>2. <<>> \in Seq(Messages)
    BY Empty
  <2>3. Kept("steer", steering)
    BY <2>1, KeptByIsKept DEF IInv, Conserved, Kinds
  <2>4. Kept("follow", followUp)
    BY <2>1, KeptByIsKept DEF IInv, Conserved, Kinds
  <2>5. Kept("prompt", <<>>)
    BY <2>1, <2>2, KeptByIsKept DEF IInv, Conserved, Kinds
  <2>. QED BY <2>3, <2>4, <2>5 DEF QueuesConserved
<1>. QED BY <1>1, Invariance, PTL

\* The transcript the agent builds from the events is the context the loop
\* worked on, at every moment up to the events still to be taken.
THEOREM TranscriptsAlwaysAgree == Spec => []TranscriptsAgree
<1>1. IInv => TranscriptsAgree
  BY DEF IInv
<1>. QED BY <1>1, Invariance, PTL

\* Whatever is steered, skipped, aborted or retried, the model is asked to go
\* on only when every call has its one result, at its place.
THEOREM EveryCallAnswered == Spec => []CallsAnswered
<1>1. IInv => CallsAnswered
  <2> SUFFICES ASSUME IInv, pc = "request"
               PROVE  \A i \in DOMAIN context :
                        /\ context[i].role = "assistant" /\ context[i].stop = "done" => Answered(context, i)
                        /\ context[i].role = "result" =>
                             LET j == i - context[i].call
                             IN j \in DOMAIN context /\ context[j].role = "assistant"
                                  /\ context[i].call <= context[j].calls
    BY DEF CallsAnswered
  <2>1. Sound(context, 0)
    BY DEF IInv, CallsSound
  <2>2. \A i \in DOMAIN context : i # 0
    BY Types, LenProperties DEF IInv
  <2>. QED BY <2>1, <2>2 DEF Sound
<1>. QED BY <1>1, Invariance, PTL

\* A run takes a follow-up message only after a reply without tool calls.
THEOREM FollowUpsAreHeld == Spec => FollowUpsWait
<1>1. IInv /\ [Next]_vars =>
        [pc # "idle" /\ returned' = returned /\ Len(followUp') < Len(followUp) =>
           Last(context).role = "assistant" /\ Last(context).calls = 0]_vars
  <2> SUFFICES ASSUME IInv, [Next]_vars, pc # "idle", returned' = returned, Len(followUp') < Len(followUp)
               PROVE  Last(context).role = "assistant" /\ Last(context).calls = 0
    OBVIOUS
  <2>1. TypeOK /\ followUp \in Seq(Messages) /\ Len(followUp) \in Nat
    BY Types, LenProperties DEF IInv
  <2>2. followUp' # followUp
    BY <2>1
  <2>3. CASE PollFollowUps
    <3>1. pc = "follow"
      BY <2>3 DEF PollFollowUps
    <3>2. Last(context) = Assistant(0, "done")
      BY <3>1 DEF IInv, AnswersFirst
    <3>. QED BY <3>2 DEF Assistant
  <2>4. CASE FollowUp
    <3>1. Len(followUp') = Len(followUp) + 1
      BY <2>1, <2>4, AppendProperties DEF FollowUp
    <3>. QED BY <2>1, <3>1
  <2>5. CASE ClearQueue
    <3>1. followUp # <<>> /\ Listed = {}
      <4>1. followUp' = <<>> /\ returned = {} /\ returned' = Listed
        BY <2>5 DEF ClearQueue
      <4>. QED BY <2>2, <4>1
    <3>2. followUp[1] \in Users /\ 1 \in DOMAIN followUp
      BY <2>1, <3>1, Types, EmptySeq, LenProperties
    <3>3. followUp[1].from \in Kinds /\ OfKind(followUp[1].from, followUp[1])
      BY <3>2, UserShape DEF OfKind
    <3>4. followUp[1].id \in Ids(followUp[1].from, followUp)
      BY <2>1, <3>2, <3>3, IdsAre
    <3>5. followUp[1].from = "follow"
      BY <3>3, <3>4 DEF IInv, QueueKinds, Kinds
    <3>6. User("follow", followUp[1].id) \in Listed
      BY <2>1, <3>4, <3>5, ClearedIsListed
    <3>. QED BY <3>1, <3>6
  <2>6. CASE ~(PollFollowUps \/ FollowUp \/ ClearQueue)
    <3>1. followUp' = followUp
      BY <2>6 DEF Next, UserStep, Loop, Reply, Agent, vars, queueVars, Prompt, ContinueQueued, ContinueTurn,
                  DropFailure, Abort, Steer, Turn, LookupThrows, ReplyFails, ReplyCalls, ReplyAnswers,
                  ToolReturns, TurnEnds, TakeMessage, TakeEnd, Finally
    <3>. QED BY <2>2, <3>1
  <2>. QED BY <2>3, <2>4, <2>5, <2>6
<1>. QED BY <1>1, Invariance, PTL DEF Spec, FollowUpsWait
=============================================================================
