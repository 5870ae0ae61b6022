-------------------------- MODULE ChatBridge_proofs -------------------------
(***************************************************************************)
(* What holds of the chat bridge for any number of adapters, users, slots, *)
(* messages and stops: the types, that a message is in one place, that the *)
(* slots are kept, that a session has one prompt in flight, and that the   *)
(* answers come in order.                                                  *)
(***************************************************************************)
EXTENDS ChatBridge, SequenceTheorems, FiniteSetTheorems, TLAPS

-----------------------------------------------------------------------------
(* The invariant, of queues q, marked keys b, frames fs, answered and      *)
(* dropped messages dn and lo, and rc received messages: what Begin starts *)
(* from is not always a state.                                             *)

Holds(q, k, n) == \E i \in 1..Len(q[k]) : q[k][i] = n
Flies(fs, k, n) == \E f \in fs : f.key = k /\ f.number = n

\* A queue holds the messages that wait in the order they were received.
QueuesOK(q) ==
  /\ q \in [Keys -> Seq(Numbers)]
  /\ \A k \in Keys :
       /\ Len(q[k]) <= MaxQueue
       /\ \A i, j \in 1..Len(q[k]) : i < j => q[k][i] < q[k][j]

\* A key is marked when it has a frame with the session of the map, one only.
FramesOK(b, fs) ==
  /\ b \subseteq Keys /\ fs \subseteq Frames /\ IsFiniteSet(fs)
  /\ \A f, g \in fs : f.key = g.key /\ f.number = g.number => f = g
  /\ \A f \in fs : f.live => f.key \in b
  /\ \A k \in b : \E f \in fs : f.live /\ f.key = k
  /\ \A f, g \in fs : f.live /\ g.live /\ f.key = g.key => f = g

\* The messages received are those in a queue, in flight, answered or dropped,
\* and each is in one of these places.
PlacesOK(q, fs, dn, lo, rc) ==
  /\ dn \subseteq Messages /\ lo \subseteq Messages
  /\ \A k \in Keys, n \in Numbers :
       /\ n <= rc[k] <=> \/ Holds(q, k, n) \/ Flies(fs, k, n)
                         \/ <<k, n>> \in dn \/ <<k, n>> \in lo
       /\ ~(Holds(q, k, n) /\ Flies(fs, k, n))
       /\ Holds(q, k, n) \/ Flies(fs, k, n) => <<k, n>> \notin dn \cup lo
       /\ ~(<<k, n>> \in dn /\ <<k, n>> \in lo)

\* As long as nothing is dropped, what came before a prompt in flight is
\* answered.
CalmOK(fs, dn, lo) ==
  /\ lo = {}
  /\ \A f \in fs : f.live /\ \A n \in Numbers : n < f.number => <<f.key, n>> \in dn

Good(q, b, fs, dn, lo, rc) ==
  QueuesOK(q) /\ FramesOK(b, fs) /\ PlacesOK(q, fs, dn, lo, rc)

\* The keys of the map are in a linear order.
MapOrdered ==
  /\ sessions \subseteq Keys /\ older \subseteq sessions \X sessions
  /\ \A k \in sessions : <<k, k>> \notin older
  /\ \A j, k \in sessions : j # k => <<j, k>> \in older \/ <<k, j>> \in older
  /\ \A i, j, k \in sessions : <<i, j>> \in older /\ <<j, k>> \in older => <<i, k>> \in older

\* Until the bridge is stopped the slots that are taken are counted.
Counted == stops = 0 => active = Cardinality(frames) /\ active <= MaxConcurrent

RestOK ==
  /\ running \in BOOLEAN /\ active \in Int
  /\ received \in [Keys -> 0..MaxMessages]
  /\ news \in 0..MaxNews /\ stops \in 0..MaxStops

IInv ==
  /\ RestOK /\ MapOrdered /\ Counted
  /\ Good(queue, busy, frames, done, lost, received)
  /\ news = 0 /\ stops = 0 => CalmOK(frames, done, lost)

-----------------------------------------------------------------------------
(* Sequences of numbers.                                                   *)

LEMMA HeadOfQueue ==
  ASSUME NEW s \in Seq(Numbers), s # <<>>
  PROVE  /\ Len(s) \in Nat \ {0} /\ Head(s) = s[1] /\ Head(s) \in Numbers
         /\ Tail(s) \in Seq(Numbers) /\ Len(Tail(s)) = Len(s) - 1
         /\ \A i \in 1..Len(Tail(s)) : Tail(s)[i] = s[i + 1]
<1>1. Len(s) \in Nat \ {0}
  BY EmptySeq
<1>2. Head(s) = s[1] /\ s[1] \in Numbers
  BY <1>1, ElementOfSeq
<1>. QED BY <1>1, <1>2, HeadTailProperties

LEMMA QueueAppended ==
  ASSUME NEW s \in Seq(Numbers), NEW n \in Numbers
  PROVE  /\ Append(s, n) \in Seq(Numbers) /\ Len(Append(s, n)) = Len(s) + 1 /\ Len(s) \in Nat
         /\ Append(s, n)[Len(s) + 1] = n
         /\ \A i \in 1..Len(s) : Append(s, n)[i] = s[i]
  BY AppendProperties, LenProperties

LEMMA SetOfQueue ==
  ASSUME NEW s \in Seq(Numbers)
  PROVE  /\ DOMAIN s = 1..Len(s) /\ Len(s) \in Nat
         /\ \A i \in 1..Len(s) : s[i] \in Numbers /\ s[i] \in Int
         /\ ToSet(s) = {s[i] : i \in 1..Len(s)}
<1>1. DOMAIN s = 1..Len(s) /\ Len(s) \in Nat
  BY LenProperties
<1>2. \A i \in 1..Len(s) : s[i] \in Numbers
  BY ElementOfSeq
<1>3. \A n \in Numbers : n \in Int
  BY DEF Numbers
<1>. QED BY <1>1, <1>2, <1>3 DEF ToSet

-----------------------------------------------------------------------------
(* Begin.                                                                  *)

\* What is left in the queues when the oldest messages of ks are taken.
Taken(ks, q) == [k \in Keys |-> IF k \in ks THEN Tail(q[k]) ELSE q[k]]
Started(ks, q) == {[key |-> k, number |-> Head(q[k]), live |-> TRUE, left |-> FALSE] : k \in ks}

\* Each key of ks has one frame more.
OneMore(fs, new, ks) == Cardinality(fs \cup new) = Cardinality(fs) + Cardinality(ks)

LEMMA QueuesTaken ==
  ASSUME NEW q, NEW ks \in SUBSET Keys, QueuesOK(q), \A k \in ks : q[k] # <<>>
  PROVE  /\ QueuesOK(Taken(ks, q))
         /\ \A k \in Keys, n \in Numbers :
              Holds(Taken(ks, q), k, n) <=> Holds(q, k, n) /\ ~(k \in ks /\ n = Head(q[k]))
         /\ \A k \in ks : /\ Head(q[k]) \in Numbers /\ Holds(q, k, Head(q[k]))
                          /\ \A n \in Numbers : n < Head(q[k]) => ~Holds(q, k, n)
<1>1. \A k \in Keys : /\ q[k] \in Seq(Numbers) /\ Len(q[k]) \in Nat /\ Len(q[k]) <= MaxQueue
                      /\ \A i \in 1..Len(q[k]) : q[k][i] \in Numbers /\ q[k][i] \in Int
                      /\ \A i, j \in 1..Len(q[k]) : i < j => q[k][i] < q[k][j]
  BY SetOfQueue DEF QueuesOK
<1>2. ASSUME NEW k \in ks
      PROVE  /\ Len(q[k]) \in Nat \ {0} /\ Head(q[k]) = q[k][1] /\ Head(q[k]) \in Numbers
             /\ Taken(ks, q)[k] \in Seq(Numbers) /\ Len(Taken(ks, q)[k]) = Len(q[k]) - 1
             /\ \A i \in 1..Len(Taken(ks, q)[k]) : Taken(ks, q)[k][i] = q[k][i + 1]
  BY <1>1, HeadOfQueue DEF Taken
<1>3. \A k \in Keys \ ks : Taken(ks, q)[k] = q[k]
  BY DEF Taken
<1>4. QueuesOK(Taken(ks, q))
  <2>1. Taken(ks, q) \in [Keys -> Seq(Numbers)]
    BY <1>1, <1>2, <1>3 DEF Taken
  <2>2. ASSUME NEW k \in ks
        PROVE  /\ Len(Taken(ks, q)[k]) <= MaxQueue
               /\ \A i, j \in 1..Len(Taken(ks, q)[k]) : i < j => Taken(ks, q)[k][i] < Taken(ks, q)[k][j]
    <3>1. MaxQueue \in Nat /\ Len(q[k]) \in Nat /\ Len(q[k]) <= MaxQueue
      BY <1>1, ConstantsOK
    <3>2. ASSUME NEW i \in 1..Len(Taken(ks, q)[k]), NEW j \in 1..Len(Taken(ks, q)[k]), i < j
          PROVE  Taken(ks, q)[k][i] < Taken(ks, q)[k][j]
      <4>1. i + 1 \in 1..Len(q[k]) /\ j + 1 \in 1..Len(q[k]) /\ i + 1 < j + 1
        BY <1>2, <3>1, <3>2
      <4>2. q[k][i + 1] < q[k][j + 1]
        BY <1>1, <4>1
      <4>. QED BY <1>2, <4>2
    <3>. QED BY <1>2, <3>1, <3>2
  <2>. QED BY <1>1, <1>3, <2>1, <2>2 DEF QueuesOK
<1>5. ASSUME NEW k \in Keys, NEW n \in Numbers
      PROVE  Holds(Taken(ks, q), k, n) <=> Holds(q, k, n) /\ ~(k \in ks /\ n = Head(q[k]))
  <2>1. CASE k \notin ks
    BY <1>3, <2>1 DEF Holds
  <2>2. CASE k \in ks
    <3>1. ASSUME Holds(Taken(ks, q), k, n) PROVE Holds(q, k, n) /\ n # Head(q[k])
      <4>1. PICK i \in 1..Len(Taken(ks, q)[k]) : q[k][i + 1] = n
        BY <1>2, <2>2, <3>1 DEF Holds
      <4>2. i + 1 \in 1..Len(q[k]) /\ 1 \in 1..Len(q[k]) /\ 1 < i + 1
        BY <1>2, <2>2, <4>1
      <4>. QED BY <1>1, <1>2, <2>2, <4>1, <4>2 DEF Holds
    <3>2. ASSUME Holds(q, k, n), n # Head(q[k]) PROVE Holds(Taken(ks, q), k, n)
      <4>1. PICK i \in 1..Len(q[k]) : q[k][i] = n
        BY <3>2 DEF Holds
      <4>2. i - 1 \in 1..Len(Taken(ks, q)[k]) /\ (i - 1) + 1 = i
        BY <1>1, <1>2, <2>2, <3>2, <4>1
      <4>. QED BY <1>2, <2>2, <4>1, <4>2 DEF Holds
    <3>. QED BY <2>2, <3>1, <3>2
  <2>. QED BY <2>1, <2>2
<1>6. ASSUME NEW k \in ks
      PROVE  /\ Head(q[k]) \in Numbers /\ Holds(q, k, Head(q[k]))
             /\ \A n \in Numbers : n < Head(q[k]) => ~Holds(q, k, n)
  <2>1. 1 \in 1..Len(q[k]) /\ Head(q[k]) = q[k][1] /\ Head(q[k]) \in Numbers
    BY <1>2
  <2>2. ASSUME NEW n \in Numbers, n < Head(q[k]), Holds(q, k, n) PROVE FALSE
    <3>1. PICK i \in 1..Len(q[k]) : q[k][i] = n
      BY <2>2 DEF Holds
    <3>2. i = 1 \/ 1 < i
      BY <1>1, <3>1
    <3>. QED BY <1>1, <2>1, <2>2, <3>1, <3>2
  <2>. QED BY <2>1, <2>2 DEF Holds
<1>. QED BY <1>4, <1>5, <1>6

LEMMA KeysFinite == ASSUME NEW ks \in SUBSET Keys PROVE IsFiniteSet(ks)
  BY ConstantsOK, FS_Subset

\* One frame is started for each key.
LEMMA StartedCount ==
  ASSUME NEW q, NEW ks \in SUBSET Keys
  PROVE  IsFiniteSet(Started(ks, q)) /\ Cardinality(Started(ks, q)) = Cardinality(ks)
<1>. DEFINE new == [k \in ks |-> [key |-> k, number |-> Head(q[k]), live |-> TRUE, left |-> FALSE]]
<1>1. new \in [ks -> Started(ks, q)]
  BY DEF Started
<1>2. \A j, k \in ks : new[j] = new[k] => j = k
  <2>1. \A k \in ks : new[k].key = k
    OBVIOUS
  <2>. QED BY <2>1
<1>3. \A f \in Started(ks, q) : \E k \in ks : new[k] = f
  BY DEF Started
<1>4. new \in Bijection(ks, Started(ks, q))
  BY <1>1, <1>2, <1>3 DEF Bijection, Injection, Surjection, IsInjective
<1>5. ExistsBijection(ks, Started(ks, q))
  BY <1>4 DEF ExistsBijection
<1>. QED BY <1>5, KeysFinite, FS_Bijection

LEMMA NewFrame ==
  ASSUME NEW q, NEW ks \in SUBSET Keys, NEW f \in Started(ks, q)
  PROVE  f.key \in ks /\ f.number = Head(q[f.key]) /\ f.live /\ ~f.left
  BY DEF Started

\* Begin moves the oldest messages of keys that are not marked from their
\* queues to frames, and leaves every message in one place.
LEMMA BeginKeeps ==
  ASSUME NEW q, NEW b, NEW fs, NEW dn, NEW lo, NEW rc \in [Keys -> Int], NEW ks \in SUBSET Keys,
         Good(q, b, fs, dn, lo, rc), ks \cap b = {}, \A k \in ks : q[k] # <<>>
  PROVE  /\ Good(Taken(ks, q), b \cup ks, fs \cup Started(ks, q), dn, lo, rc)
         /\ CalmOK(fs, dn, lo) => CalmOK(fs \cup Started(ks, q), dn, lo)
         /\ OneMore(fs, Started(ks, q), ks)
<1>. DEFINE fresh == Started(ks, q)
<1>0. QueuesOK(q) /\ FramesOK(b, fs) /\ PlacesOK(q, fs, dn, lo, rc)
  BY DEF Good
<1>1. /\ QueuesOK(Taken(ks, q))
      /\ \A k \in Keys, n \in Numbers :
           Holds(Taken(ks, q), k, n) <=> Holds(q, k, n) /\ ~(k \in ks /\ n = Head(q[k]))
      /\ \A k \in ks : /\ Head(q[k]) \in Numbers /\ Holds(q, k, Head(q[k]))
                       /\ \A n \in Numbers : n < Head(q[k]) => ~Holds(q, k, n)
  BY <1>0, QueuesTaken
<1>2. \A f \in fresh : f.key \in ks /\ f.number = Head(q[f.key]) /\ f.live
  BY NewFrame
<1>3. fresh \subseteq Frames
  <2>1. ASSUME NEW k \in ks
        PROVE  [key |-> k, number |-> Head(q[k]), live |-> TRUE, left |-> FALSE] \in Frames
    <3>1. k \in Keys /\ Head(q[k]) \in Numbers /\ TRUE \in BOOLEAN /\ FALSE \in BOOLEAN
      BY <1>1
    <3>. QED BY <3>1 DEF Frames
  <2>. QED BY <2>1 DEF Started
<1>4. \A k \in ks : Flies(fresh, k, Head(q[k]))
  <2> TAKE k \in ks
  <2>. DEFINE f == [key |-> k, number |-> Head(q[k]), live |-> TRUE, left |-> FALSE]
  <2>1. f \in fresh
    BY DEF Started
  <2>2. f.key = k /\ f.number = Head(q[k])
    OBVIOUS
  <2>. QED BY <2>1, <2>2 DEF Flies
<1>5. \A k \in Keys, n \in Numbers : Flies(fresh, k, n) <=> k \in ks /\ n = Head(q[k])
  BY <1>2, <1>4 DEF Flies
<1>6. \A k \in Keys, n \in Numbers : Flies(fs \cup fresh, k, n) <=> Flies(fs, k, n) \/ Flies(fresh, k, n)
  BY DEF Flies
<1>7. \A f \in fresh, g \in fresh : f.key = g.key => f = g
  <2> TAKE f \in fresh, g \in fresh
  <2> HAVE f.key = g.key
  <2>1. PICK j \in ks : f = [key |-> j, number |-> Head(q[j]), live |-> TRUE, left |-> FALSE]
    BY DEF Started
  <2>2. PICK k \in ks : g = [key |-> k, number |-> Head(q[k]), live |-> TRUE, left |-> FALSE]
    BY DEF Started
  <2>3. f.key = j /\ g.key = k
    BY <2>1, <2>2
  <2>. QED BY <2>1, <2>2, <2>3
<1>8. \A f \in fs, g \in fresh : ~(f.key = g.key /\ f.number = g.number)
  <2> SUFFICES ASSUME NEW f \in fs, NEW g \in fresh, f.key = g.key, f.number = g.number PROVE FALSE
    OBVIOUS
  <2>1. g.key \in ks /\ g.key \in Keys /\ g.number \in Numbers /\ Holds(q, g.key, g.number)
    BY <1>1, <1>2
  <2>2. Flies(fs, g.key, g.number)
    BY DEF Flies
  <2>. QED BY <1>0, <2>1, <2>2 DEF PlacesOK
<1>9. FramesOK(b \cup ks, fs \cup fresh)
  <2>1. IsFiniteSet(fs \cup fresh)
    BY <1>0, StartedCount, FS_Union DEF FramesOK
  <2>2. \A f, g \in fs \cup fresh : f.key = g.key /\ f.number = g.number => f = g
    BY <1>0, <1>7, <1>8 DEF FramesOK
  <2>3. \A f \in fs \cup fresh : f.live => f.key \in b \cup ks
    BY <1>0, <1>2 DEF FramesOK
  <2>4. \A k \in b \cup ks : \E f \in fs \cup fresh : f.live /\ f.key = k
    BY <1>0, <1>2, <1>4 DEF FramesOK, Flies
  <2>5. \A f, g \in fs \cup fresh : f.live /\ g.live /\ f.key = g.key => f = g
    BY <1>0, <1>2, <1>7 DEF FramesOK
  <2>. QED BY <1>0, <1>3, <2>1, <2>2, <2>3, <2>4, <2>5 DEF FramesOK
<1>10. PlacesOK(Taken(ks, q), fs \cup fresh, dn, lo, rc)
  <2>1. ASSUME NEW k \in Keys, NEW n \in Numbers
        PROVE  /\ Holds(Taken(ks, q), k, n) \/ Flies(fs \cup fresh, k, n) <=> Holds(q, k, n) \/ Flies(fs, k, n)
               /\ ~(Holds(Taken(ks, q), k, n) /\ Flies(fs \cup fresh, k, n))
    BY <1>0, <1>1, <1>5, <1>6 DEF PlacesOK
  <2>. QED BY <1>0, <2>1 DEF PlacesOK
<1>11. CalmOK(fs, dn, lo) => CalmOK(fs \cup fresh, dn, lo)
  <2> SUFFICES ASSUME CalmOK(fs, dn, lo), NEW f \in fresh, NEW n \in Numbers, n < f.number
               PROVE  <<f.key, n>> \in dn
    BY <1>2 DEF CalmOK
  <2>1. f.key \in ks /\ f.key \in Keys /\ f.number = Head(q[f.key]) /\ ~Holds(q, f.key, n)
    BY <1>1, <1>2
  <2>2. ~Flies(fs, f.key, n)
    <3>1. \A g \in fs : g.key # f.key
      BY <1>0, <2>1 DEF CalmOK, FramesOK
    <3>. QED BY <3>1 DEF Flies
  <2>3. n <= rc[f.key]
    <3>1. f.number <= rc[f.key] /\ f.number \in Numbers
      BY <1>0, <1>1, <2>1 DEF PlacesOK
    <3>2. n \in Int /\ f.number \in Int /\ rc[f.key] \in Int
      BY <2>1, <3>1 DEF Numbers
    <3>. QED BY <3>1, <3>2
  <2>. QED BY <1>0, <2>1, <2>2, <2>3 DEF PlacesOK, CalmOK
<1>12. Cardinality(fs \cup fresh) = Cardinality(fs) + Cardinality(ks)
  <2>1. fs \cap fresh = {}
    BY <1>8
  <2>2. IsFiniteSet(fs) /\ IsFiniteSet(fresh) /\ Cardinality(fresh) = Cardinality(ks)
    BY <1>0, StartedCount DEF FramesOK
  <2>3. Cardinality(fs) \in Nat /\ Cardinality(ks) \in Nat
    BY <2>2, FS_CardinalityType
  <2>4. Cardinality(fs \cup fresh) = Cardinality(fs) + Cardinality(fresh) - Cardinality(fs \cap fresh)
    BY <2>2, FS_Union
  <2>5. Cardinality(fs \cap fresh) = 0
    BY <2>1, FS_EmptySet
  <2>. QED BY <2>2, <2>3, <2>4, <2>5
<1>. QED BY <1>1, <1>9, <1>10, <1>11, <1>12 DEF Good, OneMore

-----------------------------------------------------------------------------
(* drainWaiting.                                                           *)

\* It takes keys that wait, and no more than slots are free.
LEMMA DrainedBound ==
  ASSUME MapOrdered, NEW b, NEW a \in Int
  PROVE  /\ Drained(b, a) \subseteq Waiting(b) /\ Waiting(b) \subseteq Keys
         /\ IsFiniteSet(Drained(b, a)) /\ Cardinality(Drained(b, a)) \in Nat
         /\ a < MaxConcurrent => Cardinality(Drained(b, a)) <= MaxConcurrent - a
         /\ a >= MaxConcurrent => Drained(b, a) = {}
<1>. DEFINE before(k) == {j \in Waiting(b) : <<j, k>> \in older}
<1>1. Waiting(b) \subseteq sessions /\ Waiting(b) \subseteq Keys
  BY DEF Waiting, MapOrdered
<1>2. Drained(b, a) \subseteq Waiting(b) /\ IsFiniteSet(Drained(b, a)) /\ Cardinality(Drained(b, a)) \in Nat
  BY <1>1, KeysFinite, FS_CardinalityType DEF Drained
<1>3. \A k \in Waiting(b) : IsFiniteSet(before(k)) /\ Cardinality(before(k)) \in Nat
  <2> TAKE k \in Waiting(b)
  <2>1. before(k) \in SUBSET Keys
    BY <1>1
  <2>. QED BY <2>1, KeysFinite, FS_CardinalityType
<1>4. ASSUME NEW j \in Waiting(b), NEW k \in Waiting(b), <<j, k>> \in older
      PROVE  Cardinality(before(j)) < Cardinality(before(k))
  <2>1. before(j) \subseteq before(k) /\ j \in before(k) /\ j \notin before(j)
    BY <1>1, <1>4 DEF MapOrdered
  <2>2. Cardinality(before(j)) <= Cardinality(before(k)) /\ Cardinality(before(j)) # Cardinality(before(k))
    BY <1>3, <2>1, FS_Subset
  <2>. QED BY <1>3, <2>2
<1>5. \A k \in Waiting(b) : k \in Drained(b, a) <=> Cardinality(before(k)) < MaxConcurrent - a
  BY DEF Drained
<1>6. a >= MaxConcurrent => Drained(b, a) = {}
  <2> SUFFICES ASSUME a >= MaxConcurrent, NEW k \in Drained(b, a) PROVE FALSE
    OBVIOUS
  <2>1. Cardinality(before(k)) < MaxConcurrent - a /\ Cardinality(before(k)) \in Nat
    BY <1>2, <1>3, <1>5
  <2>2. MaxConcurrent \in Int /\ MaxConcurrent - a <= 0
    BY ConstantsOK
  <2>. QED BY <2>1, <2>2
<1>7. ASSUME a < MaxConcurrent PROVE Cardinality(Drained(b, a)) <= MaxConcurrent - a
  <2>. DEFINE n == MaxConcurrent - a
              rank == [k \in Drained(b, a) |-> Cardinality(before(k))]
  <2>1. n \in Nat \ {0}
    BY <1>7, ConstantsOK
  <2>2. rank \in [Drained(b, a) -> 0..(n - 1)]
    <3>1. ASSUME NEW k \in Drained(b, a) PROVE Cardinality(before(k)) \in 0..(n - 1)
      BY <1>2, <1>3, <1>5, <2>1
    <3>. QED BY <3>1
  <2>3. \A j, k \in Drained(b, a) : rank[j] = rank[k] => j = k
    <3> SUFFICES ASSUME NEW j \in Drained(b, a), NEW k \in Drained(b, a), j # k
                 PROVE  Cardinality(before(j)) # Cardinality(before(k))
      OBVIOUS
    <3>1. <<j, k>> \in older \/ <<k, j>> \in older
      BY <1>1, <1>2 DEF MapOrdered
    <3>2. Cardinality(before(j)) < Cardinality(before(k)) \/ Cardinality(before(k)) < Cardinality(before(j))
      BY <1>2, <1>4, <3>1
    <3>. QED BY <1>2, <1>3, <3>2
  <2>4. rank \in Injection(Drained(b, a), 0..(n - 1))
    BY <2>2, <2>3 DEF Injection, IsInjective
  <2>5. IsFiniteSet(0..(n - 1)) /\ Cardinality(0..(n - 1)) = n
    <3>1. 0 \in Int /\ n - 1 \in Int /\ ~(0 > n - 1) /\ (n - 1) - 0 + 1 = n
      BY <2>1
    <3>2. IsFiniteSet(0..(n - 1)) /\ Cardinality(0..(n - 1)) = (IF 0 > n - 1 THEN 0 ELSE (n - 1) - 0 + 1)
      BY <3>1, FS_Interval
    <3>. QED BY <3>1, <3>2
  <2>. QED BY <2>4, <2>5, FS_Injection
<1>. QED BY <1>1, <1>2, <1>6, <1>7

-----------------------------------------------------------------------------
(* The invariant is preserved, action by action.                           *)

\* What the steps use of the invariant.
LEMMA Invariants ==
  ASSUME IInv
  PROVE  /\ RestOK /\ MapOrdered /\ QueuesOK(queue) /\ FramesOK(busy, frames)
         /\ PlacesOK(queue, frames, done, lost, received)
         /\ received \in [Keys -> Int]
         /\ \A k \in Keys : received[k] \in Nat /\ received[k] <= MaxMessages
         /\ MaxMessages \in Nat /\ MaxConcurrent \in Nat \ {0} /\ active \in Int
<1>1. received \in [Keys -> 0..MaxMessages] /\ MaxMessages \in Nat
  BY ConstantsOK DEF IInv, RestOK
<1>2. \A i \in 0..MaxMessages : i \in Int /\ i \in Nat /\ i <= MaxMessages
  BY <1>1
<1>. QED BY <1>1, <1>2, ConstantsOK DEF IInv, Good, RestOK

\* handleMessage: the message is queued.
LEMMA QueuedAtEnd ==
  ASSUME IInv, NEW k \in Keys, Receive(k)
  PROVE  LET n == received[k] + 1
             q == [queue EXCEPT ![k] = Append(@, n)]
             rc == [received EXCEPT ![k] = n]
         IN  Good(q, busy, frames, done, lost, rc) /\ q[k] # <<>> /\ rc \in [Keys -> 0..MaxMessages]
<1>. DEFINE n == received[k] + 1
            q == [queue EXCEPT ![k] = Append(@, n)]
            rc == [received EXCEPT ![k] = n]
<1>1. n \in Numbers /\ n \in 0..MaxMessages /\ rc \in [Keys -> 0..MaxMessages]
  BY Invariants DEF Receive, RestOK, Numbers
<1>2. \A j \in Keys : /\ queue[j] \in Seq(Numbers) /\ Len(queue[j]) \in Nat
                      /\ Len(queue[j]) <= MaxQueue
                      /\ \A i \in 1..Len(queue[j]) : queue[j][i] \in Numbers /\ queue[j][i] \in Int
                      /\ \A h, i \in 1..Len(queue[j]) : h < i => queue[j][h] < queue[j][i]
  BY Invariants, SetOfQueue DEF QueuesOK
<1>3. /\ q[k] \in Seq(Numbers) /\ Len(q[k]) = Len(queue[k]) + 1 /\ q[k][Len(queue[k]) + 1] = n
      /\ \A i \in 1..Len(queue[k]) : q[k][i] = queue[k][i]
  <2>1. q[k] = Append(queue[k], n)
    BY Invariants DEF QueuesOK
  <2>. QED BY <1>1, <1>2, <2>1, QueueAppended
<1>4. /\ \A j \in Keys \ {k} : q[j] = queue[j] /\ rc[j] = received[j]
      /\ rc[k] = n /\ q \in [Keys -> Seq(Numbers)]
  BY <1>1, <1>2, <1>3, Invariants DEF QueuesOK
<1>5. \A i \in Numbers : i < n <=> i <= received[k]
  BY Invariants DEF Numbers
<1>6. \A i \in 1..Len(queue[k]) : queue[k][i] < n
  <2> TAKE i \in 1..Len(queue[k])
  <2>1. Holds(queue, k, queue[k][i]) /\ queue[k][i] \in Numbers
    BY <1>2 DEF Holds
  <2>2. queue[k][i] <= received[k]
    BY <2>1, Invariants DEF PlacesOK
  <2>. QED BY <1>5, <2>1, <2>2
<1>7. QueuesOK(q)
  <2>1. Len(q[k]) <= MaxQueue
    BY <1>2, <1>3, ConstantsOK DEF Receive
  <2>2. ASSUME NEW h \in 1..Len(q[k]), NEW i \in 1..Len(q[k]), h < i PROVE q[k][h] < q[k][i]
    <3>1. h \in 1..Len(queue[k]) /\ (i \in 1..Len(queue[k]) \/ i = Len(queue[k]) + 1)
      BY <1>2, <1>3, <2>2
    <3>. QED BY <1>2, <1>3, <1>6, <2>2, <3>1
  <2>. QED BY <1>2, <1>4, <2>1, <2>2 DEF QueuesOK
<1>8. \A j \in Keys, i \in Numbers : Holds(q, j, i) <=> Holds(queue, j, i) \/ (j = k /\ i = n)
  <2> SUFFICES ASSUME NEW i \in Numbers PROVE Holds(q, k, i) <=> Holds(queue, k, i) \/ i = n
    BY <1>4 DEF Holds
  <2>1. Holds(q, k, i) => Holds(queue, k, i) \/ i = n
    <3>1. \A h \in 1..Len(q[k]) : h \in 1..Len(queue[k]) \/ h = Len(queue[k]) + 1
      BY <1>2, <1>3
    <3>. QED BY <1>3, <3>1 DEF Holds
  <2>2. \A h \in 1..Len(queue[k]) : h \in 1..Len(q[k])
    BY <1>2, <1>3
  <2>3. Len(queue[k]) + 1 \in 1..Len(q[k])
    BY <1>2, <1>3
  <2>. QED BY <1>3, <2>1, <2>2, <2>3 DEF Holds
<1>9. ~(n <= received[k]) /\ \A i \in Numbers : i <= n <=> i <= received[k] \/ i = n
  BY <1>1, Invariants DEF Numbers
<1>10. PlacesOK(q, frames, done, lost, rc)
  <2>1. \A i \in Numbers : i <= rc[k] <=> i <= received[k] \/ i = n
    BY <1>4, <1>9
  <2>2. \A j \in Keys, i \in Numbers : i <= rc[j] <=> i <= received[j] \/ (j = k /\ i = n)
    BY <1>4, <2>1
  <2>3. /\ ~Holds(queue, k, n) /\ ~Flies(frames, k, n)
        /\ <<k, n>> \notin done /\ <<k, n>> \notin lost
    BY <1>1, <1>9, Invariants DEF PlacesOK
  <2>. QED BY <1>8, <2>2, <2>3, Invariants DEF PlacesOK
<1>11. q[k] # <<>>
  <2>1. Len(q[k]) # 0
    BY <1>2, <1>3
  <2>. HIDE DEF q
  <2>. QED BY <2>1, EmptySeq
<1>. QED BY <1>1, <1>7, <1>10, <1>11, Invariants DEF Good

LEMMA ReceiveKeeps ==
  ASSUME IInv, NEW k \in Keys, Receive(k)
  PROVE  /\ Good(queue, busy, frames, done, lost, received)' /\ RestOK' /\ Counted'
         /\ (news = 0 /\ stops = 0 => CalmOK(frames, done, lost))'
<1>. DEFINE n == received[k] + 1
            q == [queue EXCEPT ![k] = Append(@, n)]
            rc == [received EXCEPT ![k] = n]
<1>1. /\ Good(q, busy, frames, done, lost, rc) /\ q[k] # <<>>
      /\ rc \in [Keys -> 0..MaxMessages] /\ rc \in [Keys -> Int]
  <2>1. \A i \in 0..MaxMessages : i \in Int
    BY ConstantsOK
  <2>. QED BY QueuedAtEnd, <2>1
<1>2. received' = rc /\ UNCHANGED <<running, done, lost, news, stops>>
  BY DEF Receive, bounds
<1>3. CASE k \notin busy /\ active < MaxConcurrent
  <2>1. /\ queue' = Taken({k}, q) /\ busy' = busy \cup {k}
        /\ active' = active + Cardinality({k}) /\ frames' = frames \cup Started({k}, q)
    BY <1>3 DEF Receive, Begin, Taken, Started
  <2>2. Cardinality({k}) = 1 /\ Cardinality(frames) \in Nat
    BY FS_Singleton, FS_CardinalityType, Invariants DEF FramesOK
  <2>3. {k} \in SUBSET Keys /\ {k} \cap busy = {} /\ \A j \in {k} : q[j] # <<>>
    BY <1>1, <1>3
  <2>4. /\ Good(Taken({k}, q), busy \cup {k}, frames \cup Started({k}, q), done, lost, rc)
        /\ CalmOK(frames, done, lost) => CalmOK(frames \cup Started({k}, q), done, lost)
        /\ Cardinality(frames \cup Started({k}, q)) = Cardinality(frames) + Cardinality({k})
    <3>. DEFINE ks == {k}
    <3>1. ks \in SUBSET Keys /\ ks \cap busy = {} /\ \A j \in ks : q[j] # <<>>
      BY <2>3
    <3>. HIDE DEF q, rc, ks
    <3>2. Good(Taken(ks, q), busy \cup ks, frames \cup Started(ks, q), done, lost, rc)
      BY <1>1, <3>1, BeginKeeps
    <3>3. CalmOK(frames, done, lost) => CalmOK(frames \cup Started(ks, q), done, lost)
      BY <1>1, <3>1, BeginKeeps
    <3>4. OneMore(frames, Started(ks, q), ks)
      BY <1>1, <3>1, BeginKeeps
    <3>. QED BY <3>2, <3>3, <3>4 DEF ks, OneMore
  <2>5. Counted'
    BY <1>2, <1>3, <2>1, <2>2, <2>4, Invariants DEF IInv, Counted
  <2>6. active' \in Int
    BY <2>1, <2>2, Invariants
  <2>. QED BY <1>1, <1>2, <2>1, <2>4, <2>5, <2>6 DEF IInv, RestOK
<1>4. CASE ~(k \notin busy /\ active < MaxConcurrent)
  <2>1. queue' = q /\ UNCHANGED <<busy, active, frames>>
    BY <1>4 DEF Receive
  <2>. QED BY <1>1, <1>2, <2>1 DEF IInv, RestOK, Counted
<1>. QED BY <1>3, <1>4

\* A prompt that is answered leaves its slot.
LEMMA FrameGone ==
  ASSUME IInv, NEW f \in frames
  PROVE  LET b == IF f.live THEN busy \ {f.key} ELSE busy
             dn == done \cup {<<f.key, f.number>>}
         IN  /\ Good(queue, b, frames \ {f}, dn, lost, received)
             /\ CalmOK(frames, done, lost) => CalmOK(frames \ {f}, dn, lost)
             /\ Cardinality(frames \ {f}) = Cardinality(frames) - 1
             /\ Cardinality(frames) \in Nat
<1>. DEFINE b == IF f.live THEN busy \ {f.key} ELSE busy
            fs == frames \ {f}
            dn == done \cup {<<f.key, f.number>>}
<1>1. f.key \in Keys /\ f.number \in Numbers /\ f.live \in BOOLEAN /\ <<f.key, f.number>> \in Messages
  BY Invariants DEF FramesOK, Frames, Messages
<1>2. IsFiniteSet(fs) /\ Cardinality(fs) = Cardinality(frames) - 1 /\ Cardinality(frames) \in Nat
  BY FS_RemoveElement, FS_CardinalityType, Invariants DEF FramesOK
<1>3. FramesOK(b, fs)
  <2>1. \A g \in fs : g.live => g.key \in b
    BY Invariants DEF FramesOK
  <2>2. \A k \in b : \E g \in fs : g.live /\ g.key = k
    BY Invariants DEF FramesOK
  <2>. QED BY <1>2, <2>1, <2>2, Invariants DEF FramesOK
<1>4. \A k \in Keys, n \in Numbers :
        Flies(fs, k, n) <=> Flies(frames, k, n) /\ ~(k = f.key /\ n = f.number)
  BY Invariants DEF FramesOK, Flies
<1>5. Flies(frames, f.key, f.number)
  BY DEF Flies
<1>6. \A k \in Keys, n \in Numbers : <<k, n>> \in dn <=> <<k, n>> \in done \/ (k = f.key /\ n = f.number)
  OBVIOUS
<1>7. PlacesOK(queue, fs, dn, lost, received)
  <2> SUFFICES ASSUME NEW k \in Keys, NEW n \in Numbers
               PROVE  /\ n <= received[k] <=> \/ Holds(queue, k, n) \/ Flies(fs, k, n)
                                               \/ <<k, n>> \in dn \/ <<k, n>> \in lost
                      /\ ~(Holds(queue, k, n) /\ Flies(fs, k, n))
                      /\ Holds(queue, k, n) \/ Flies(fs, k, n) => <<k, n>> \notin dn \cup lost
                      /\ ~(<<k, n>> \in dn /\ <<k, n>> \in lost)
    BY <1>1, Invariants DEF PlacesOK
  <2>1. /\ n <= received[k] <=> \/ Holds(queue, k, n) \/ Flies(frames, k, n)
                                 \/ <<k, n>> \in done \/ <<k, n>> \in lost
        /\ ~(Holds(queue, k, n) /\ Flies(frames, k, n))
        /\ Holds(queue, k, n) \/ Flies(frames, k, n) => <<k, n>> \notin done \cup lost
        /\ ~(<<k, n>> \in done /\ <<k, n>> \in lost)
    BY Invariants DEF PlacesOK
  <2>2. /\ Flies(fs, k, n) <=> Flies(frames, k, n) /\ ~(k = f.key /\ n = f.number)
        /\ <<k, n>> \in dn <=> <<k, n>> \in done \/ (k = f.key /\ n = f.number)
    BY <1>4, <1>6
  <2>3. k = f.key /\ n = f.number => Flies(frames, k, n)
    BY <1>5
  <2>. HIDE DEF fs, dn
  <2>. QED BY <2>1, <2>2, <2>3
<1>8. CalmOK(frames, done, lost) => CalmOK(fs, dn, lost)
  BY DEF CalmOK
<1>. QED BY <1>2, <1>3, <1>7, <1>8, Invariants DEF Good

LEMMA FrameEndsKeeps ==
  ASSUME IInv, NEW f \in frames, FrameEnds(f)
  PROVE  /\ Good(queue, busy, frames, done, lost, received)' /\ RestOK' /\ Counted'
         /\ (news = 0 /\ stops = 0 => CalmOK(frames, done, lost))'
<1>. DEFINE b == IF f.live THEN busy \ {f.key} ELSE busy
            own == IF /\ f.live \/ f.left
                      /\ f.key \notin b /\ queue[f.key] # <<>>
                      /\ active - 1 < MaxConcurrent
                   THEN {f.key} ELSE {}
            c == active - 1 + Cardinality(own)
            others == Drained(b \cup own, c)
            ks == own \cup others
            fs == frames \ {f}
            dn == done \cup {<<f.key, f.number>>}
<1>1. /\ Good(queue, b, fs, dn, lost, received)
      /\ CalmOK(frames, done, lost) => CalmOK(fs, dn, lost)
      /\ Cardinality(fs) = Cardinality(frames) - 1 /\ Cardinality(frames) \in Nat
  BY FrameGone
<1>2. /\ queue' = Taken(ks, queue) /\ busy' = b \cup ks /\ active' = active - 1 + Cardinality(ks)
      /\ frames' = fs \cup Started(ks, queue) /\ done' = dn
      /\ UNCHANGED <<running, received, lost, news, stops>>
  BY DEF FrameEnds, Begin, Taken, Started, bounds
<1>3. f.key \in Keys
  BY Invariants DEF FramesOK, Frames
<1>4. /\ own \in SUBSET Keys /\ own \cap b = {} /\ \A k \in own : queue[k] # <<>>
      /\ IsFiniteSet(own) /\ Cardinality(own) \in {0, 1}
      /\ Cardinality(own) = 1 => active - 1 < MaxConcurrent
  BY <1>3, FS_Singleton, FS_EmptySet
<1>. HIDE DEF own
<1>5. c \in Int
  BY <1>4, Invariants
<1>6. /\ others \subseteq Waiting(b \cup own) /\ Waiting(b \cup own) \subseteq Keys
      /\ IsFiniteSet(others) /\ Cardinality(others) \in Nat
      /\ c < MaxConcurrent => Cardinality(others) <= MaxConcurrent - c
      /\ c >= MaxConcurrent => others = {}
  BY <1>5, DrainedBound, Invariants
<1>7. others \cap (b \cup own) = {} /\ \A k \in others : queue[k] # <<>>
  BY <1>6 DEF Waiting
<1>8. ks \in SUBSET Keys /\ ks \cap b = {} /\ \A k \in ks : queue[k] # <<>>
  BY <1>4, <1>6, <1>7
<1>. HIDE DEF ks, fs, dn, b, c, others
<1>9. /\ Good(Taken(ks, queue), b \cup ks, fs \cup Started(ks, queue), dn, lost, received)
      /\ CalmOK(fs, dn, lost) => CalmOK(fs \cup Started(ks, queue), dn, lost)
      /\ Cardinality(fs \cup Started(ks, queue)) = Cardinality(fs) + Cardinality(ks)
  <2>1. received \in [Keys -> Int]
    BY Invariants
  <2>2. Good(Taken(ks, queue), b \cup ks, fs \cup Started(ks, queue), dn, lost, received)
    BY <1>1, <1>8, <2>1, BeginKeeps
  <2>3. CalmOK(fs, dn, lost) => CalmOK(fs \cup Started(ks, queue), dn, lost)
    BY <1>1, <1>8, <2>1, BeginKeeps
  <2>4. OneMore(fs, Started(ks, queue), ks)
    BY <1>1, <1>8, <2>1, BeginKeeps
  <2>. QED BY <2>2, <2>3, <2>4 DEF OneMore
<1>10. Cardinality(ks) = Cardinality(own) + Cardinality(others)
  <2>1. own \cap others = {} /\ Cardinality(own \cap others) = 0
    BY <1>7, FS_EmptySet
  <2>2. Cardinality(own \cup others) = Cardinality(own) + Cardinality(others) - Cardinality(own \cap others)
    BY <1>4, <1>6, FS_Union
  <2>3. Cardinality(own) \in Int /\ Cardinality(others) \in Int
    BY <1>4, <1>6
  <2>. QED BY <2>1, <2>2, <2>3 DEF ks
<1>11. Counted'
  <2> SUFFICES ASSUME stops = 0 PROVE active' = Cardinality(frames') /\ active' <= MaxConcurrent
    BY <1>2 DEF Counted
  <2>1. active = Cardinality(frames) /\ active <= MaxConcurrent
    BY DEF IInv, Counted
  <2>2. active' = Cardinality(frames')
    BY <1>1, <1>2, <1>4, <1>6, <1>9, <1>10, <2>1
  <2>3. active' = c + Cardinality(others)
    <3>1. Cardinality(own) \in Int /\ Cardinality(others) \in Int /\ active \in Int
      BY <1>4, <1>6, Invariants
    <3>2. active' = active - 1 + (Cardinality(own) + Cardinality(others))
      BY <1>2, <1>10
    <3>. QED BY <3>1, <3>2 DEF c
  <2>4. c <= MaxConcurrent
    BY <1>4, <2>1, Invariants DEF c
  <2>5. CASE c < MaxConcurrent
    <3>1. Cardinality(others) <= MaxConcurrent - c /\ Cardinality(others) \in Int /\ MaxConcurrent \in Int
      BY <1>6, <2>5, Invariants
    <3>. QED BY <1>5, <2>2, <2>3, <3>1
  <2>6. CASE c >= MaxConcurrent
    <3>1. Cardinality(others) = 0
      BY <1>6, <2>6, FS_EmptySet
    <3>. QED BY <1>5, <2>2, <2>3, <2>4, <3>1
  <2>7. MaxConcurrent \in Int
    BY Invariants
  <2>. QED BY <1>5, <2>5, <2>6, <2>7
<1>12. active' \in Int
  BY <1>2, <1>4, <1>6, <1>10, Invariants
<1>. QED BY <1>1, <1>2, <1>9, <1>11, <1>12 DEF IInv, RestOK

AsMany(fs, gs) == Cardinality(gs) = Cardinality(fs)

\* Frames that are rewritten keep their keys and numbers, so they stay as many.
LEMMA FramesRewritten ==
  ASSUME NEW fs, NEW gs, NEW h \in [fs -> gs], IsFiniteSet(fs),
         \A g \in gs : \E f \in fs : h[f] = g,
         \A f \in fs : h[f].key = f.key /\ h[f].number = f.number,
         \A f, g \in fs : f.key = g.key /\ f.number = g.number => f = g
  PROVE  /\ IsFiniteSet(gs) /\ AsMany(fs, gs)
         /\ \A f, g \in gs : f.key = g.key /\ f.number = g.number => f = g
         /\ \A k, n : Flies(gs, k, n) <=> Flies(fs, k, n)
<1>1. \A f \in gs : \E e \in fs : h[e] = f /\ f.key = e.key /\ f.number = e.number
  OBVIOUS
<1>2. \A f, g \in gs : f.key = g.key /\ f.number = g.number => f = g
  BY <1>1
<1>3. \A f, g \in fs : h[f] = h[g] => f = g
  <2> TAKE f \in fs, g \in fs
  <2> HAVE h[f] = h[g]
  <2>1. f.key = g.key /\ f.number = g.number
    OBVIOUS
  <2>. QED BY <2>1
<1>4. h \in Bijection(fs, gs)
  BY <1>3 DEF Bijection, Injection, Surjection, IsInjective
<1>5. ExistsBijection(fs, gs)
  BY <1>4 DEF ExistsBijection
<1>6. IsFiniteSet(gs) /\ Cardinality(gs) = Cardinality(fs)
  BY <1>5, FS_Bijection
<1>7. \A k, n : Flies(gs, k, n) <=> Flies(fs, k, n)
  <2> TAKE k, n
  <2>1. Flies(gs, k, n) => Flies(fs, k, n)
    BY <1>1 DEF Flies
  <2>2. Flies(fs, k, n) => Flies(gs, k, n)
    BY DEF Flies
  <2>. QED BY <2>1, <2>2
<1>. QED BY <1>2, <1>6, <1>7 DEF AsMany

\* What is dropped are the messages that the emptied queues hold.
LEMMA QueuedHolds ==
  ASSUME IInv, NEW ks \in SUBSET Keys
  PROVE  /\ Queued(ks) \subseteq Messages
         /\ \A k \in Keys, n \in Numbers : <<k, n>> \in Queued(ks) <=> k \in ks /\ Holds(queue, k, n)
<1>1. Queued(ks) \subseteq Messages
  BY DEF Queued, Messages
<1>2. ASSUME NEW k \in Keys, NEW n \in Numbers
      PROVE  <<k, n>> \in Queued(ks) <=> k \in ks /\ Holds(queue, k, n)
  <2>1. queue[k] \in Seq(Numbers)
    BY Invariants DEF QueuesOK
  <2>2. ToSet(queue[k]) = {queue[k][i] : i \in 1..Len(queue[k])}
    BY <2>1, SetOfQueue
  <2>. QED BY <2>2 DEF Queued, Holds
<1>. QED BY <1>1, <1>2

\* Emptied queues leave the others as they are.
LEMMA QueuesEmptied ==
  ASSUME IInv, NEW ks \in SUBSET Keys
  PROVE  LET q == [j \in Keys |-> IF j \in ks THEN <<>> ELSE queue[j]]
         IN  /\ QueuesOK(q)
             /\ \A k \in Keys, n \in Numbers : Holds(q, k, n) <=> k \notin ks /\ Holds(queue, k, n)
<1>. DEFINE q == [j \in Keys |-> IF j \in ks THEN <<>> ELSE queue[j]]
<1>1. \A k \in Keys : q[k] = IF k \in ks THEN <<>> ELSE queue[k]
  OBVIOUS
<1>2. <<>> \in Seq(Numbers) /\ Len(<<>>) = 0
  BY EmptySeq
<1>3. MaxQueue \in Nat
  BY ConstantsOK
<1>4. 1..0 = {}
  OBVIOUS
<1>5. q \in [Keys -> Seq(Numbers)]
  BY <1>2, Invariants DEF QueuesOK
<1>6. QueuesOK(q)
  BY <1>1, <1>2, <1>3, <1>4, <1>5, Invariants DEF QueuesOK
<1>7. \A k \in Keys, n \in Numbers : Holds(q, k, n) <=> k \notin ks /\ Holds(queue, k, n)
  BY <1>1, <1>2, <1>4 DEF Holds
<1>. QED BY <1>6, <1>7

\* /new and stop() empty the queues of some keys and rewrite the frames.
LEMMA PlacesDropped ==
  ASSUME IInv, NEW ks \in SUBSET Keys, NEW q, NEW gs,
         \A k \in Keys, n \in Numbers : Holds(q, k, n) <=> k \notin ks /\ Holds(queue, k, n),
         \A k, n : Flies(gs, k, n) <=> Flies(frames, k, n)
  PROVE  PlacesOK(q, gs, done, lost \cup Queued(ks), received)
<1>1. done \subseteq Messages /\ lost \cup Queued(ks) \subseteq Messages
  BY QueuedHolds, Invariants DEF PlacesOK
<1>2. ASSUME NEW k \in Keys, NEW n \in Numbers
      PROVE  /\ n <= received[k] <=> \/ Holds(queue, k, n) \/ Flies(frames, k, n)
                                     \/ <<k, n>> \in done \/ <<k, n>> \in lost
             /\ ~(Holds(queue, k, n) /\ Flies(frames, k, n))
             /\ Holds(queue, k, n) \/ Flies(frames, k, n) => <<k, n>> \notin done \cup lost
             /\ ~(<<k, n>> \in done /\ <<k, n>> \in lost)
             /\ <<k, n>> \in Queued(ks) <=> k \in ks /\ Holds(queue, k, n)
  BY QueuedHolds, Invariants DEF PlacesOK
<1>. QED BY <1>1, <1>2 DEF PlacesOK

LEMMA NewCommandKeeps ==
  ASSUME IInv, NEW k \in Keys, NewCommand(k)
  PROVE  /\ Good(queue, busy, frames, done, lost, received)' /\ RestOK' /\ Counted'
         /\ (news = 0 /\ stops = 0 => CalmOK(frames, done, lost))'
<1>. DEFINE same == {j \in Keys : j[2] = k[2]}
            q == [j \in Keys |-> IF j \in same THEN <<>> ELSE queue[j]]
            gs == {[f EXCEPT !.live = f.live /\ f.key \notin same] : f \in frames}
            h == [f \in frames |-> [f EXCEPT !.live = f.live /\ f.key \notin same]]
<1>1. /\ queue' = q /\ busy' = busy \ same /\ frames' = gs /\ lost' = lost \cup Queued(same)
      /\ news' = news + 1 /\ news < MaxNews
      /\ UNCHANGED <<running, active, received, done, stops>>
  BY DEF NewCommand
<1>2. \A f \in frames : /\ h[f] \in Frames /\ h[f].key = f.key /\ h[f].number = f.number
                        /\ h[f].live = (f.live /\ f.key \notin same)
  <2> TAKE f \in frames
  <2>1. f \in Frames
    BY Invariants DEF FramesOK
  <2>. QED BY <2>1 DEF Frames
<1>3. h \in [frames -> gs] /\ \A g \in gs : \E f \in frames : h[f] = g
  OBVIOUS
<1>. HIDE DEF h, gs, same, q
<1>4. /\ IsFiniteSet(gs) /\ AsMany(frames, gs)
      /\ \A f, g \in gs : f.key = g.key /\ f.number = g.number => f = g
      /\ \A j, n : Flies(gs, j, n) <=> Flies(frames, j, n)
  <2>1. IsFiniteSet(frames) /\ \A f, g \in frames : f.key = g.key /\ f.number = g.number => f = g
    BY Invariants DEF FramesOK
  <2>2. \A f \in frames : h[f].key = f.key /\ h[f].number = f.number
    BY <1>2
  <2>. QED BY <1>3, <2>1, <2>2, FramesRewritten, Zenon
<1>5. same \in SUBSET Keys
  BY DEF same
<1>6. QueuesOK(q) /\ \A j \in Keys, n \in Numbers : Holds(q, j, n) <=> j \notin same /\ Holds(queue, j, n)
  BY <1>5, QueuesEmptied DEF q
<1>7. PlacesOK(q, gs, done, lost \cup Queued(same), received)
  BY <1>4, <1>5, <1>6, PlacesDropped
<1>8. FramesOK(busy \ same, gs)
  <2>1. gs \subseteq Frames
    BY <1>2, <1>3
  <2>2. \A g \in gs : g.live => g.key \in busy \ same
    <3> TAKE g \in gs
    <3> HAVE g.live
    <3>1. PICK f \in frames : h[f] = g
      BY <1>3
    <3>2. f.live /\ f.key \notin same /\ g.key = f.key
      BY <1>2, <3>1
    <3>. QED BY <3>2, Invariants DEF FramesOK
  <2>3. \A j \in busy \ same : \E g \in gs : g.live /\ g.key = j
    <3> TAKE j \in busy \ same
    <3>1. PICK f \in frames : f.live /\ f.key = j
      BY Invariants DEF FramesOK
    <3>2. h[f] \in gs
      BY <1>3
    <3>. QED BY <1>2, <3>1, <3>2
  <2>4. \A f, g \in gs : f.live /\ g.live /\ f.key = g.key => f = g
    <3> TAKE f \in gs, g \in gs
    <3> HAVE f.live /\ g.live /\ f.key = g.key
    <3>1. PICK d \in frames : h[d] = f
      BY <1>3
    <3>2. PICK e \in frames : h[e] = g
      BY <1>3
    <3>3. d.live /\ e.live /\ d.key = e.key
      BY <1>2, <3>1, <3>2
    <3>. QED BY <3>1, <3>2, <3>3, Invariants DEF FramesOK
  <2>5. busy \ same \subseteq Keys
    BY Invariants DEF FramesOK
  <2>. QED BY <1>4, <2>1, <2>2, <2>3, <2>4, <2>5 DEF FramesOK
<1>9. news' \in 0..MaxNews /\ news' # 0
  BY <1>1, Invariants, ConstantsOK DEF RestOK
<1>10. Counted'
  BY <1>1, <1>4 DEF IInv, Counted, AsMany
<1>. QED BY <1>1, <1>6, <1>7, <1>8, <1>9, <1>10, Invariants DEF Good, RestOK

LEMMA StopKeeps ==
  ASSUME IInv, Stop
  PROVE  /\ Good(queue, busy, frames, done, lost, received)' /\ RestOK' /\ Counted'
         /\ (news = 0 /\ stops = 0 => CalmOK(frames, done, lost))'
<1>. DEFINE q == [j \in Keys |-> IF j \in Keys THEN <<>> ELSE queue[j]]
            gs == {[f EXCEPT !.live = FALSE,
                             !.left = f.left \/ (f.live /\ queue[f.key] # <<>>)] : f \in frames}
            h == [f \in frames |-> [f EXCEPT !.live = FALSE,
                                             !.left = f.left \/ (f.live /\ queue[f.key] # <<>>)]]
<1>1. /\ queue' = q /\ busy' = {} /\ frames' = gs /\ lost' = lost \cup Queued(Keys)
      /\ stops' = stops + 1 /\ stops < MaxStops /\ running' = FALSE /\ active' = 0
      /\ UNCHANGED <<received, done, news>>
  BY DEF Stop
<1>2. \A f \in frames : h[f] \in Frames /\ h[f].key = f.key /\ h[f].number = f.number /\ h[f].live = FALSE
  <2> TAKE f \in frames
  <2>1. f \in Frames
    BY Invariants DEF FramesOK
  <2>2. (f.left \/ (f.live /\ queue[f.key] # <<>>)) \in BOOLEAN
    BY <2>1 DEF Frames
  <2>. QED BY <2>1, <2>2 DEF Frames
<1>3. h \in [frames -> gs] /\ \A g \in gs : \E f \in frames : h[f] = g
  OBVIOUS
<1>. HIDE DEF h, gs, q
<1>4. /\ IsFiniteSet(gs)
      /\ \A f, g \in gs : f.key = g.key /\ f.number = g.number => f = g
      /\ \A j, n : Flies(gs, j, n) <=> Flies(frames, j, n)
  <2>1. IsFiniteSet(frames) /\ \A f, g \in frames : f.key = g.key /\ f.number = g.number => f = g
    BY Invariants DEF FramesOK
  <2>2. \A f \in frames : h[f].key = f.key /\ h[f].number = f.number
    BY <1>2
  <2>. QED BY <1>3, <2>1, <2>2, FramesRewritten, Zenon
<1>5. QueuesOK(q) /\ \A j \in Keys, n \in Numbers : Holds(q, j, n) <=> j \notin Keys /\ Holds(queue, j, n)
  BY QueuesEmptied DEF q
<1>6. PlacesOK(q, gs, done, lost \cup Queued(Keys), received)
  BY <1>4, <1>5, PlacesDropped
<1>7. FramesOK({}, gs)
  BY <1>2, <1>3, <1>4 DEF FramesOK
<1>8. stops' \in 0..MaxStops /\ stops' # 0
  BY <1>1, Invariants, ConstantsOK DEF RestOK
<1>9. Good(queue, busy, frames, done, lost, received)'
  BY <1>1, <1>5, <1>6, <1>7 DEF Good
<1>10. RestOK'
  <2>1. running' \in BOOLEAN
    BY <1>1, Zenon
  <2>2. active' \in Int
    BY <1>1
  <2>. QED BY <1>1, <1>8, <2>1, <2>2, Invariants DEF RestOK
<1>. QED BY <1>8, <1>9, <1>10 DEF Counted

\* The map stays in order: what is put in comes last.
LEMMA MapKept ==
  ASSUME IInv, [Next]_vars
  PROVE  MapOrdered'
<1>1. ASSUME NEW k \in Keys, Receive(k) PROVE MapOrdered'
  <2>1. CASE k \in sessions
    BY <1>1, <2>1, Invariants DEF Receive, Enter, MapOrdered
  <2>2. CASE k \notin sessions
    <3>1. sessions' = sessions \cup {k} /\ older' = older \cup (sessions \X {k})
      BY <1>1, <2>2 DEF Receive, Enter
    <3>. QED BY <2>2, <3>1, Invariants DEF MapOrdered
  <2>. QED BY <2>1, <2>2
<1>2. ASSUME NEW k \in Keys, NewCommand(k) PROVE MapOrdered'
  <2>. DEFINE same == {j \in Keys : j[2] = k[2]}
  <2>1. sessions' = sessions \ same /\ older' = {p \in older : p[1] \notin same /\ p[2] \notin same}
    BY <1>2 DEF NewCommand
  <2>. HIDE DEF same
  <2>2. \A i, j : <<i, j>> \in older' <=> <<i, j>> \in older /\ i \notin same /\ j \notin same
    BY <2>1
  <2>3. older' \subseteq sessions' \X sessions'
    BY <2>1, Invariants DEF MapOrdered
  <2>. QED BY <2>1, <2>2, <2>3, Invariants DEF MapOrdered
<1>3. CASE Stop
  BY <1>3 DEF Stop, MapOrdered
<1>4. CASE UNCHANGED <<sessions, older>>
  BY <1>4, Invariants DEF MapOrdered
<1>. QED BY <1>1, <1>2, <1>3, <1>4 DEF Next, Start, FrameEnds, vars, sessionVars

LEMMA InitIsGood ==
  ASSUME Init
  PROVE  IInv
<1>1. <<>> \in Seq(Numbers) /\ Len(<<>>) = 0 /\ 1..0 = {}
  BY EmptySeq
<1>2. IsFiniteSet({}) /\ Cardinality({}) = 0
  BY FS_EmptySet
<1>3. MaxQueue \in Nat /\ MaxConcurrent \in Nat /\ MaxMessages \in Nat /\ MaxNews \in Nat /\ MaxStops \in Nat
  BY ConstantsOK
<1>4. QueuesOK(queue) /\ \A k \in Keys, n \in Numbers : ~Holds(queue, k, n)
  BY <1>1, <1>3 DEF Init, QueuesOK, Holds
<1>5. FramesOK(busy, frames) /\ \A k \in Keys, n \in Numbers : ~Flies(frames, k, n)
  BY <1>2 DEF Init, FramesOK, Flies
<1>6. PlacesOK(queue, frames, done, lost, received)
  BY <1>4, <1>5 DEF Init, PlacesOK, Numbers
<1>7. RestOK
  <2>1. running \in BOOLEAN
    BY Zenon DEF Init
  <2>2. active \in Int /\ received \in [Keys -> 0..MaxMessages]
    BY <1>3 DEF Init
  <2>3. news \in 0..MaxNews /\ stops \in 0..MaxStops
    BY <1>3 DEF Init
  <2>. QED BY <2>1, <2>2, <2>3 DEF RestOK
<1>8. MapOrdered /\ CalmOK(frames, done, lost)
  BY DEF Init, MapOrdered, CalmOK
<1>9. Counted
  BY <1>2, <1>3 DEF Init, Counted
<1>. QED BY <1>4, <1>5, <1>6, <1>7, <1>8, <1>9 DEF IInv, Good

LEMMA StepKeeps ==
  ASSUME IInv, [Next]_vars
  PROVE  IInv'
<1>1. ASSUME NEW k \in Keys, Receive(k) PROVE IInv'
  BY <1>1, ReceiveKeeps, MapKept DEF IInv
<1>2. ASSUME NEW k \in Keys, NewCommand(k) PROVE IInv'
  BY <1>2, NewCommandKeeps, MapKept DEF IInv
<1>3. ASSUME NEW f \in frames, FrameEnds(f) PROVE IInv'
  BY <1>3, FrameEndsKeeps, MapKept DEF IInv
<1>4. CASE Stop
  BY <1>4, StopKeeps, MapKept DEF IInv
<1>5. CASE Start
  BY <1>5, MapKept DEF Start, sessionVars, bounds, IInv, RestOK, Counted
<1>6. CASE UNCHANGED vars
  BY <1>6, MapKept DEF vars, sessionVars, bounds, IInv, RestOK, Counted
<1>. QED BY <1>1, <1>2, <1>3, <1>4, <1>5, <1>6 DEF Next

LEMMA Invariance == Spec => []IInv
  BY InitIsGood, StepKeeps, PTL DEF Spec

-----------------------------------------------------------------------------
(* What follows from the invariant.                                        *)

\* Whatever the messages, commands and stops, the queues, frames and counters
\* keep their types, and no queue is longer than maxQueuePerSender.
THEOREM TypeCorrect == Spec => []TypeOK
<1>1. IInv => TypeOK
  BY DEF IInv, RestOK, MapOrdered, Good, QueuesOK, FramesOK, PlacesOK, TypeOK
<1>. QED BY <1>1, Invariance, PTL

\* A message that was accepted is in one of queue, flight, answered, dropped.
THEOREM MessagesHaveOnePlace == Spec => []OnePlace
<1>1. ASSUME IInv PROVE OnePlace
  <2>1. ASSUME NEW k \in Keys PROVE IsInjective(queue[k])
    <3>1. queue[k] \in Seq(Numbers) /\ \A i, j \in 1..Len(queue[k]) : i < j => queue[k][i] < queue[k][j]
      BY <1>1, Invariants DEF QueuesOK
    <3>2. /\ DOMAIN queue[k] = 1..Len(queue[k]) /\ Len(queue[k]) \in Nat
          /\ \A i \in 1..Len(queue[k]) : queue[k][i] \in Int
      BY <3>1, SetOfQueue
    <3>3. ASSUME NEW i \in 1..Len(queue[k]), NEW j \in 1..Len(queue[k]), i # j PROVE queue[k][i] # queue[k][j]
      <4>1. i < j \/ j < i
        BY <3>2, <3>3
      <4>. QED BY <3>1, <3>2, <4>1
    <3>. QED BY <3>2, <3>3 DEF IsInjective
  <2>2. \A k \in Keys, n \in Numbers : <<k, n>> \in Queued(Keys) <=> Holds(queue, k, n)
    BY <1>1, QueuedHolds
  <2>3. \A k \in Keys, n \in Numbers : <<k, n>> \in InFlight <=> Flies(frames, k, n)
    BY DEF InFlight, Flies
  <2>4. Queued(Keys) \subseteq Messages /\ InFlight \subseteq Messages /\ done \cup lost \subseteq Messages
    BY <1>1, Invariants, QueuedHolds DEF InFlight, FramesOK, Frames, Messages, PlacesOK
  <2>5. \A m \in Messages : m = <<m[1], m[2]>> /\ m[1] \in Keys /\ m[2] \in Numbers
    BY DEF Messages
  <2>6. ASSUME NEW m \in Messages
        PROVE  /\ m[2] <= received[m[1]] <=> m \in Queued(Keys) \cup InFlight \cup done \cup lost
               /\ ~(m \in Queued(Keys) /\ m \in InFlight)
               /\ m \in Queued(Keys) \cup InFlight => m \notin done \cup lost
               /\ ~(m \in done /\ m \in lost)
    <3>1. PICK k \in Keys, n \in Numbers : m = <<k, n>>
      BY <2>5
    <3>2. m[1] = k /\ m[2] = n
      BY <3>1
    <3>3. /\ n <= received[k] <=> \/ Holds(queue, k, n) \/ Flies(frames, k, n)
                                  \/ <<k, n>> \in done \/ <<k, n>> \in lost
          /\ ~(Holds(queue, k, n) /\ Flies(frames, k, n))
          /\ Holds(queue, k, n) \/ Flies(frames, k, n) => <<k, n>> \notin done \cup lost
          /\ ~(<<k, n>> \in done /\ <<k, n>> \in lost)
      BY <1>1, Invariants DEF PlacesOK
    <3>4. (m \in Queued(Keys) <=> Holds(queue, k, n)) /\ (m \in InFlight <=> Flies(frames, k, n))
      BY <2>2, <2>3, <3>1
    <3>. QED BY <3>1, <3>2, <3>3, <3>4
  <2>7. \A f, g \in frames : f.key = g.key /\ f.number = g.number => f = g
    BY <1>1, Invariants DEF FramesOK
  <2>. QED BY <2>1, <2>4, <2>6, <2>7 DEF OnePlace
<1>. QED BY <1>1, Invariance, PTL

\* Until stop() is called no more prompts are in flight than there are slots.
THEOREM SlotsAreKept == Spec => []SlotsKept
<1>1. IInv => SlotsKept
  BY DEF IInv, Counted, SlotsKept
<1>. QED BY <1>1, Invariance, PTL

\* A session of the map that is processing has one prompt in flight, any
\* other session of the map has none.
THEOREM OnePromptPerSession == Spec => []SerialPerSession
<1>1. ASSUME IInv PROVE SerialPerSession
  <2>1. ASSUME NEW k \in Keys
        PROVE  Cardinality({f \in frames : f.key = k /\ f.live}) = IF k \in busy THEN 1 ELSE 0
    <3>. DEFINE L == {f \in frames : f.key = k /\ f.live}
    <3>1. CASE k \in busy
      <4>1. PICK f \in frames : f.live /\ f.key = k
        BY <1>1, <3>1, Invariants DEF FramesOK
      <4>2. L = {f}
        BY <1>1, <4>1, Invariants DEF FramesOK
      <4>. QED BY <3>1, <4>2, FS_Singleton
    <3>2. CASE k \notin busy
      <4>1. L = {}
        BY <1>1, <3>2, Invariants DEF FramesOK
      <4>. QED BY <3>2, <4>1, FS_EmptySet
    <3>. QED BY <3>1, <3>2
  <2>. QED BY <2>1 DEF SerialPerSession
<1>. QED BY <1>1, Invariance, PTL

\* As long as no /new and no stop() came, a sender's messages are answered in
\* the order they were received.
THEOREM OrderOfAnswers == Spec => AnsweredInOrder
<1>. DEFINE InOrder == news = 0 /\ stops = 0 =>
              \A m \in done' \ done : \A n \in 1..(m[2] - 1) : <<m[1], n>> \in done
<1>1. ASSUME IInv, [Next]_vars PROVE InOrder
  <2> SUFFICES ASSUME news = 0, stops = 0, NEW m \in done' \ done, NEW n \in 1..(m[2] - 1)
               PROVE  <<m[1], n>> \in done
    OBVIOUS
  <2>1. PICK f \in frames : FrameEnds(f)
    BY <1>1 DEF Next, Receive, NewCommand, Stop, Start, vars
  <2>2. m = <<f.key, f.number>> /\ m[1] = f.key /\ m[2] = f.number
    BY <2>1 DEF FrameEnds
  <2>3. f.number \in Numbers
    BY <1>1, Invariants DEF FramesOK, Frames
  <2>4. n \in Numbers /\ n < f.number
    BY <2>2, <2>3, ConstantsOK DEF Numbers
  <2>5. CalmOK(frames, done, lost)
    BY <1>1 DEF IInv
  <2>. QED BY <2>2, <2>4, <2>5 DEF CalmOK
<1>. QED BY <1>1, Invariance, PTL DEF Spec, AnsweredInOrder
=============================================================================
