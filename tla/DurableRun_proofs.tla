-------------------------- MODULE DurableRun_proofs --------------------------
(***************************************************************************)
(* Proofs about the two components that see a run through from outside the *)
(* session.  DurableRun, for every number of events: the reporter          *)
(* implements RunRelay, and nothing is recorded after a failure.  Grind    *)
(* (its names carry its prefix), for any number of runs, prompts, events   *)
(* and restarts: its types, and that a run that has ended stays ended.     *)
(***************************************************************************)
EXTENDS DurableRun, Grind, SequenceTheorems, WellFoundedInduction, TLAPS

-----------------------------------------------------------------------------
(* What a post changes of what the relay holds.                            *)

Posts == {Item(v) : v \in 1..MaxEvents} \cup {Final(s) : s \in Verdicts}

LEMMA LeastOfNats ==
  ASSUME NEW T, T \subseteq Nat, T # {}
  PROVE  \E x \in T : \A y \in T : x <= y
<1>1. \E x \in T : \A y \in T : <<y, x>> \notin OpToRel(<, Nat)
  BY NatLessThanWellFounded, WFMin
<1>2. \A x, y \in Nat : <<y, x>> \in OpToRel(<, Nat) <=> y < x
  BY DEF OpToRel
<1>3. \E x \in T : \A y \in T : ~ (y < x)
  BY <1>1, <1>2, Zenon
<1>. QED BY <1>3

LEMMA MinAndMax ==
  ASSUME NEW n \in Nat, NEW S, S \subseteq 1..n, S # {}
  PROVE  Max(S) \in S /\ Min(S) \in S
<1>1. \E x \in S : \A y \in S : x <= y
  <2>1. S \subseteq Nat
    OBVIOUS
  <2>. QED BY <2>1, LeastOfNats
<1>2. \E x \in S : \A y \in S : x >= y
  <2> DEFINE T == {n - x : x \in S}
  <2>1. T \subseteq Nat
    <3>1. \A x \in S : n - x \in Nat
      OBVIOUS
    <3>. QED BY <3>1
  <2>2. T # {}
    OBVIOUS
  <2>3. PICK m \in T : \A y \in T : m <= y
    BY <2>1, <2>2, LeastOfNats
  <2>4. PICK x \in S : m = n - x
    BY <2>3
  <2>5. \A y \in S : m <= n - y
    BY <2>3
  <2>. QED BY <2>4, <2>5
<1>. QED BY <1>1, <1>2 DEF Min, Max

LEMMA PostAppended ==
  ASSUME NEW log \in Seq(Posts), NEW p \in Posts
  PROVE  /\ Append(log, p) \in Seq(Posts)
         /\ \A k \in {"items", "final"} :
              Posted(k, Append(log, p))
                = IF p.kind = k THEN Posted(k, log) \cup {Len(log) + 1} ELSE Posted(k, log)
         /\ \A i \in 1..Len(log) : Append(log, p)[i] = log[i]
         /\ Append(log, p)[Len(log) + 1] = p
  BY AppendProperties DEF Posted

\* A snapshot replaces the record and leaves the status.
LEMMA ItemPosted ==
  ASSUME NEW log \in Seq(Posts), NEW v \in 1..MaxEvents
  PROVE  /\ Append(log, Item(v)) \in Seq(Posts)
         /\ Stored(Append(log, Item(v))) = v
         /\ Closed(Append(log, Item(v))) = Closed(log)
<1> DEFINE new == Append(log, Item(v))
<1>1. Item(v) \in Posts /\ Item(v).kind = "items" /\ Item(v).upto = v
  BY DEF Item, Posts
<1>2. /\ new \in Seq(Posts)
      /\ Posted("items", new) = Posted("items", log) \cup {Len(log) + 1}
      /\ Posted("final", new) = Posted("final", log)
      /\ \A i \in 1..Len(log) : new[i] = log[i]
      /\ new[Len(log) + 1] = Item(v)
  BY <1>1, PostAppended
<1>3. Len(log) \in Nat /\ \A k : Posted(k, log) \subseteq 1..Len(log)
  BY LenProperties DEF Posted
<1> HIDE DEF new
<1>4. Max(Posted("items", new)) = Len(log) + 1
  BY <1>2, <1>3 DEF Max
<1>5. Stored(new) = v
  BY <1>1, <1>2, <1>4 DEF Stored
<1>6. Posted("final", log) # {} => Min(Posted("final", log)) \in 1..Len(log)
  BY <1>3, MinAndMax
<1>7. Closed(new) = Closed(log)
  BY <1>2, <1>6 DEF Closed
<1>. QED BY <1>2, <1>5, <1>7 DEF new

\* The status closes the run unless it is closed, and leaves the record.
LEMMA FinalPosted ==
  ASSUME NEW log \in Seq(Posts), NEW s \in Verdicts
  PROVE  /\ Append(log, Final(s)) \in Seq(Posts)
         /\ Stored(Append(log, Final(s))) = Stored(log)
         /\ Closed(log) = "open" => Closed(Append(log, Final(s))) = s
<1> DEFINE new == Append(log, Final(s))
<1>1. Final(s) \in Posts /\ Final(s).kind = "final" /\ Final(s).status = s
  BY DEF Final, Posts
<1>2. /\ new \in Seq(Posts)
      /\ Posted("final", new) = Posted("final", log) \cup {Len(log) + 1}
      /\ Posted("items", new) = Posted("items", log)
      /\ \A i \in 1..Len(log) : new[i] = log[i]
      /\ new[Len(log) + 1] = Final(s)
  BY <1>1, PostAppended
<1>3. Len(log) \in Nat /\ \A k : Posted(k, log) \subseteq 1..Len(log)
  BY LenProperties DEF Posted
<1> HIDE DEF new
<1>4. Posted("items", log) # {} => Max(Posted("items", log)) \in 1..Len(log)
  BY <1>3, MinAndMax
<1>5. Stored(new) = Stored(log)
  BY <1>2, <1>4 DEF Stored
<1>6. ASSUME Closed(log) = "open" PROVE Closed(new) = s
  <2>1. Posted("final", log) = {}
    <3> SUFFICES ASSUME Posted("final", log) # {} PROVE FALSE
      OBVIOUS
    <3> DEFINE m == Min(Posted("final", log))
    <3>1. m \in 1..Len(log) /\ log[m].kind = "final"
      BY <1>3, MinAndMax DEF Posted
    <3>2. log[m] \in Posts
      BY <3>1, ElementOfSeq
    <3>3. log[m].status \in Verdicts
      BY <3>1, <3>2 DEF Posts, Item, Final
    <3>. QED BY <1>6, <3>3 DEF Closed, Verdicts
  <2>2. Min(Posted("final", new)) = Len(log) + 1
    BY <1>2, <1>3, <2>1 DEF Min
  <2>. QED BY <1>1, <1>2, <2>2 DEF Closed
<1>. QED BY <1>2, <1>5, <1>6 DEF new

\* The record holds a number of events.
LEMMA StoredTyped ==
  ASSUME NEW log \in Seq(Posts)
  PROVE  Stored(log) \in 0..MaxEvents
<1>1. CASE Posted("items", log) = {}
  BY <1>1, ConstantsOK DEF Stored
<1>2. CASE Posted("items", log) # {}
  <2> DEFINE m == Max(Posted("items", log))
  <2>0. Len(log) \in Nat /\ Posted("items", log) \subseteq 1..Len(log)
    BY LenProperties DEF Posted
  <2>1. m \in Posted("items", log)
    BY <1>2, <2>0, MinAndMax
  <2>3. m \in 1..Len(log) /\ log[m].kind = "items"
    BY <2>0, <2>1 DEF Posted
  <2>2. log[m] \in Posts
    BY <2>3, ElementOfSeq
  <2>. QED BY <1>2, <2>2, <2>3 DEF Stored, Posts, Item, Final
<1>. QED BY <1>1, <1>2

-----------------------------------------------------------------------------
(* The inductive invariant.                                                *)

\* Snapshots are posted in the order they were taken: none is older than what
\* the relay holds, or newer than what was seen.
InOrder ==
  /\ Stored(relay) <= seen
  /\ \A i \in 1..Len(chain) : Stored(relay) <= chain[i].upto /\ chain[i].upto <= seen
  /\ \A i, j \in 1..Len(chain) : i <= j => chain[i].upto <= chain[j].upto

\* The status is posted last by finalize(), and it has been chosen by then.
OpenUntilPosted ==
  /\ phase \notin {"returned", "threw"} => Closed(relay) = "open"
  /\ phase # "idle" => verdict # "none"

\* As long as no event was late: what finalize() flushes is the last of the
\* chain, and afterwards the chain is empty, unless a post has failed.
NothingAfter ==
  /\ phase = "idle" => ~late /\ \A i \in 1..Len(chain) : chain[i].by = "timer"
  /\ phase = "drain" => late
  /\ ~late /\ ~failure /\ phase # "idle" => ~timer
  /\ ~late /\ ~failure /\ phase = "flush" =>
       /\ chain # <<>>
       /\ chain[Len(chain)].upto = seen
       /\ \A i \in 1..Len(chain) : chain[i].by = "finalize" <=> i = Len(chain)
  /\ ~late /\ ~failure /\ phase \in {"post", "returned", "threw"} => chain = <<>>

\* finalize() drains what it still has to wait for.
LeftToWait == phase = "drain" => left > 0

\* "completed" is only posted when the record is whole.
CompleteIsWhole ==
  phase = "post" /\ verdict = "completed" /\ ~late => ~failure /\ Stored(relay) = seen

IInv == TypeOK /\ InOrder /\ OpenUntilPosted /\ NothingAfter /\ LeftToWait /\ CompleteIsWhole

-----------------------------------------------------------------------------
(* Types.                                                                  *)

Snapshots == [upto : 1..MaxEvents, by : {"timer", "finalize"}]

LEMMA TailOfChain ==
  ASSUME NEW c \in Seq(Snapshots), c # <<>>
  PROVE  /\ Tail(c) \in Seq(Snapshots)
         /\ Len(c) \in Nat \ {0} /\ Len(Tail(c)) = Len(c) - 1
         /\ Head(c) = c[1] /\ Head(c) \in Snapshots
         /\ Head(c).upto \in 1..MaxEvents
         /\ \A i \in 1..Len(Tail(c)) : i + 1 \in 1..Len(c) /\ Tail(c)[i] = c[i + 1]
<1>1. /\ Tail(c) \in Seq(Snapshots)
      /\ Len(c) \in Nat \ {0} /\ Len(Tail(c)) = Len(c) - 1
      /\ Head(c) = c[1] /\ Head(c) \in Snapshots
      /\ \A i \in 1..Len(Tail(c)) : Tail(c)[i] = c[i + 1]
  BY HeadTailProperties, ElementOfSeq, LenProperties, EmptySeq
<1>. QED BY <1>1 DEF Snapshots

LEMMA AppendToChain ==
  ASSUME NEW c \in Seq(Snapshots), NEW u \in 1..MaxEvents, NEW b \in {"timer", "finalize"}
  PROVE  /\ Append(c, [upto |-> u, by |-> b]) \in Seq(Snapshots)
         /\ Append(c, [upto |-> u, by |-> b]) # <<>>
         /\ Len(c) \in Nat /\ Len(Append(c, [upto |-> u, by |-> b])) = Len(c) + 1
         /\ \A i \in 1..Len(c) : Append(c, [upto |-> u, by |-> b])[i] = c[i]
         /\ Append(c, [upto |-> u, by |-> b])[Len(c) + 1] = [upto |-> u, by |-> b]
<1>1. [upto |-> u, by |-> b] \in Snapshots
  BY DEF Snapshots
<1>. QED BY <1>1, AppendProperties, LenProperties

LEMMA RelayTyped == TypeOK => relay \in Seq(Posts) /\ chain \in Seq(Snapshots)
  BY DEF TypeOK, Posts, Snapshots

LEMMA TypeStep == TypeOK /\ LeftToWait /\ OpenUntilPosted /\ [Next]_vars => TypeOK'
<1> SUFFICES ASSUME TypeOK, LeftToWait, OpenUntilPosted, [Next]_vars PROVE TypeOK'
  OBVIOUS
<1>0. relay \in Seq(Posts) /\ chain \in Seq(Snapshots)
  BY RelayTyped
<1>a. /\ seen \in 0..MaxEvents /\ timer \in BOOLEAN /\ failure \in BOOLEAN /\ late \in BOOLEAN
      /\ phase \in {"idle", "flush", "drain", "post", "returned", "threw"}
      /\ left \in Nat /\ verdict \in Verdicts \cup {"none"} /\ MaxEvents \in Nat
  BY ConstantsOK DEF TypeOK
<1> SUFFICES /\ seen' \in 0..MaxEvents /\ timer' \in BOOLEAN
             /\ failure' \in BOOLEAN /\ late' \in BOOLEAN
             /\ phase' \in {"idle", "flush", "drain", "post", "returned", "threw"}
             /\ left' \in Nat /\ verdict' \in Verdicts \cup {"none"}
             /\ relay' \in Seq(Posts) /\ chain' \in Seq(Snapshots)
  BY DEF TypeOK, Posts, Snapshots
<1>1. CASE HandleSessionEvent
  <2>1. late' \in BOOLEAN /\ timer' \in BOOLEAN
    BY <1>a, <1>1, Zenon DEF HandleSessionEvent
  <2>. QED BY <1>0, <1>a, <1>1, <2>1 DEF HandleSessionEvent
<1>2. CASE TimerFires
  <2>1. ASSUME seen # 0
        PROVE  Append(chain, [upto |-> seen, by |-> "timer"]) \in Seq(Snapshots)
    <3>1. seen \in 1..MaxEvents
      BY <1>a, <2>1
    <3>. QED BY <1>0, <3>1, AppendToChain
  <2>. QED BY <1>0, <1>a, <1>2, <2>1 DEF TimerFires
<1>3. CASE Finalize
  <2>1. ASSUME seen # 0
        PROVE  Append(chain, [upto |-> seen, by |-> "finalize"]) \in Seq(Snapshots)
    <3>1. seen \in 1..MaxEvents
      BY <1>a, <2>1
    <3>. QED BY <1>0, <3>1, AppendToChain
  <2>. QED BY <1>0, <1>a, <1>3, <2>1 DEF Finalize, FinalFlush, Verdicts
<1>4. CASE PostAccepted
  <2>1. /\ chain # <<>> /\ chain' = Tail(chain) /\ Advance
        /\ relay' = Append(relay, Item(Head(chain).upto))
        /\ UNCHANGED <<seen, late, timer, failure, verdict>>
    BY <1>4 DEF PostAccepted
  <2>2. Tail(chain) \in Seq(Snapshots) /\ Len(chain) - 1 \in Nat /\ Head(chain).upto \in 1..MaxEvents
    BY <1>0, <2>1, TailOfChain
  <2>3. relay' \in Seq(Posts)
    BY <1>0, <2>1, <2>2, ItemPosted
  <2>4. left' \in Nat /\ phase' \in {"idle", "flush", "drain", "post", "returned", "threw"}
    BY <1>a, <2>1, <2>2 DEF Advance, LeftToWait
  <2>. QED BY <1>a, <2>1, <2>2, <2>3, <2>4
<1>5. CASE PostFails
  <2>1. /\ chain # <<>> /\ chain' = Tail(chain) /\ Falter /\ failure'
        /\ relay' \in {relay, Append(relay, Item(Head(chain).upto))}
        /\ failure' = TRUE /\ UNCHANGED <<seen, late, timer>>
    BY <1>5 DEF PostFails
  <2>2. Tail(chain) \in Seq(Snapshots) /\ Head(chain).upto \in 1..MaxEvents
    BY <1>0, <2>1, TailOfChain
  <2>3. relay' \in Seq(Posts)
    BY <1>0, <2>1, <2>2, ItemPosted
  <2>4. /\ left' \in Nat /\ phase' \in {"idle", "flush", "drain", "post", "returned", "threw"}
        /\ verdict' \in Verdicts \cup {"none"}
    BY <1>a, <2>1 DEF Falter, LeftToWait, Verdicts
  <2>. QED BY <1>a, <2>1, <2>2, <2>3, <2>4
<1>6. CASE PostSkipped
  <2>1. /\ chain # <<>> /\ chain' = Tail(chain) /\ Falter
        /\ UNCHANGED <<seen, late, timer, failure, relay>>
    BY <1>6 DEF PostSkipped
  <2>2. Tail(chain) \in Seq(Snapshots)
    BY <1>0, <2>1, TailOfChain
  <2>4. /\ left' \in Nat /\ phase' \in {"idle", "flush", "drain", "post", "returned", "threw"}
        /\ verdict' \in Verdicts \cup {"none"}
    BY <1>a, <2>1 DEF Falter, LeftToWait, Verdicts
  <2>. QED BY <1>0, <1>a, <2>1, <2>2, <2>4
<1>7. CASE PostFinal
  <2>0. verdict \in Verdicts
    BY <1>a, <1>7 DEF PostFinal, OpenUntilPosted
  <2>1. relay' \in Seq(Posts)
    BY <1>0, <1>7, <2>0, FinalPosted DEF PostFinal
  <2>. QED BY <1>0, <1>a, <1>7, <2>1 DEF PostFinal
<1>8. CASE UNCHANGED vars
  BY <1>0, <1>a, <1>8 DEF vars
<1>. QED
  BY <1>1, <1>2, <1>3, <1>4, <1>5, <1>6, <1>7, <1>8 DEF Next

-----------------------------------------------------------------------------
(* The steps that change the chain or the relay.                           *)

\* flush(): the snapshot is the newest of the chain.
LEMMA OrderAppended ==
  ASSUME TypeOK, InOrder, seen # 0, NEW b \in {"timer", "finalize"},
         chain' = Append(chain, [upto |-> seen, by |-> b]), UNCHANGED <<seen, relay>>
  PROVE  InOrder'
<1>1. chain \in Seq(Snapshots) /\ seen \in 1..MaxEvents
  BY RelayTyped DEF TypeOK
<1>2. /\ Len(chain) \in Nat /\ Len(chain') = Len(chain) + 1
      /\ \A i \in 1..Len(chain) : chain'[i] = chain[i]
      /\ chain'[Len(chain) + 1].upto = seen
  BY <1>1, AppendToChain
<1>3. \A i \in 1..Len(chain') : i = Len(chain) + 1 \/ i \in 1..Len(chain)
  BY <1>2
<1>4. \A i \in 1..Len(chain') : chain'[i].upto <= seen
  BY <1>1, <1>2, <1>3 DEF InOrder
<1>5. \A i \in 1..Len(chain') : Stored(relay) <= chain'[i].upto
  BY <1>2, <1>3 DEF InOrder
<1>6. ASSUME NEW i \in 1..Len(chain'), NEW j \in 1..Len(chain'), i <= j
      PROVE  chain'[i].upto <= chain'[j].upto
  <2>1. CASE j = Len(chain) + 1
    BY <1>2, <1>4, <2>1
  <2>2. CASE j \in 1..Len(chain)
    BY <1>2, <1>6, <2>2 DEF InOrder
  <2>. QED BY <1>3, <2>1, <2>2
<1>. QED BY <1>4, <1>5, <1>6 DEF InOrder

\* The head of the chain is taken, and posted or not.
LEMMA HeadTaken ==
  ASSUME TypeOK, InOrder, chain # <<>>, chain' = Tail(chain), UNCHANGED seen,
         relay' \in {relay, Append(relay, Item(Head(chain).upto))}
  PROVE  /\ InOrder'
         /\ relay' \in Seq(Posts) /\ Closed(relay') = Closed(relay)
         /\ Stored(relay') \in {Stored(relay), chain[1].upto}
         /\ relay' # relay => Stored(relay') = chain[1].upto
         /\ Stored(relay) <= Stored(relay') /\ Stored(relay') <= seen
<1>1. /\ relay \in Seq(Posts) /\ chain \in Seq(Snapshots)
  BY RelayTyped
<1>2. /\ Head(chain) = chain[1] /\ chain[1].upto \in 1..MaxEvents
      /\ Len(chain) \in Nat \ {0} /\ Len(chain') = Len(chain) - 1
      /\ \A i \in 1..Len(chain') : i + 1 \in 1..Len(chain) /\ chain'[i] = chain[i + 1]
  BY <1>1, TailOfChain
<1>3. /\ relay' \in Seq(Posts) /\ Closed(relay') = Closed(relay)
      /\ relay' = relay \/ Stored(relay') = chain[1].upto
  BY <1>1, <1>2, ItemPosted
<1>4. /\ Stored(relay) <= chain[1].upto /\ chain[1].upto <= seen /\ Stored(relay) <= seen
      /\ Stored(relay) \in Int /\ seen \in Int
  BY <1>1, <1>2, StoredTyped DEF InOrder, TypeOK
<1>5. Stored(relay) <= Stored(relay') /\ Stored(relay') <= seen
  BY <1>2, <1>3, <1>4
<1>6. \A i \in 1..Len(chain') : Stored(relay') <= chain'[i].upto
  <2>1. \A i \in 1..Len(chain) : chain[1].upto <= chain[i].upto /\ Stored(relay) <= chain[i].upto
    BY <1>2 DEF InOrder
  <2>. QED BY <1>2, <1>3, <2>1
<1>7. \A i, j \in 1..Len(chain') : i <= j => chain'[i].upto <= chain'[j].upto
  BY <1>2 DEF InOrder
<1>8. \A i \in 1..Len(chain') : chain'[i].upto <= seen
  BY <1>2 DEF InOrder
<1>9. InOrder'
  BY <1>5, <1>6, <1>7, <1>8 DEF InOrder
<1>. QED BY <1>3, <1>5, <1>9

LEMMA PostTakesHead ==
  ASSUME PostAccepted \/ PostFails \/ PostSkipped
  PROVE  /\ chain # <<>> /\ chain' = Tail(chain) /\ UNCHANGED <<seen, late, timer>>
         /\ relay' \in {relay, Append(relay, Item(Head(chain).upto))}
         /\ failure => relay' = relay
  BY DEF PostAccepted, PostFails, PostSkipped

\* The step that posts the status.
LEMMA StatusPosted ==
  ASSUME TypeOK, OpenUntilPosted, PostFinal
  PROVE  /\ phase = "post" /\ verdict \in Verdicts
         /\ UNCHANGED <<seen, late, timer, chain, failure, left, verdict>>
         /\ phase' \in {"returned", "threw"}
         /\ Stored(relay') = Stored(relay)
         /\ Closed(relay) = "open" /\ Closed(relay') \in {"open", verdict}
<1>1. phase = "post" /\ verdict \in Verdicts
  BY DEF TypeOK, OpenUntilPosted, PostFinal
<1>2. /\ UNCHANGED <<seen, late, timer, chain, failure, left, verdict>>
      /\ phase' \in {"returned", "threw"}
      /\ relay' = relay \/ relay' = Append(relay, Final(verdict))
  BY DEF PostFinal
<1>3. Closed(relay) = "open"
  BY <1>1 DEF OpenUntilPosted
<1>. QED BY <1>1, <1>2, <1>3, RelayTyped, FinalPosted

LEMMA OrderStep == IInv /\ [Next]_vars => InOrder'
<1> SUFFICES ASSUME IInv, [Next]_vars PROVE InOrder'
  OBVIOUS
<1>0. TypeOK /\ InOrder /\ OpenUntilPosted
  BY DEF IInv
<1>1. CASE HandleSessionEvent
  <2>1. seen' = seen + 1 /\ chain' = chain /\ relay' = relay
    BY <1>1 DEF HandleSessionEvent
  <2>2. seen \in Int /\ Stored(relay) \in Int
    BY <1>0, RelayTyped, StoredTyped DEF TypeOK
  <2>3. \A i \in 1..Len(chain) : chain[i].upto \in Int
    <3>1. \A i \in 1..Len(chain) : chain[i] \in Snapshots
      BY <1>0, RelayTyped, ElementOfSeq
    <3>. QED BY <3>1 DEF Snapshots
  <2>. QED BY <1>0, <2>1, <2>2, <2>3 DEF InOrder
<1>2. CASE TimerFires
  <2>1. CASE chain' = chain
    BY <1>0, <1>2, <2>1 DEF TimerFires, InOrder
  <2>2. CASE chain' # chain
    <3>1. seen # 0 /\ chain' = Append(chain, [upto |-> seen, by |-> "timer"])
      BY <1>2, <2>2 DEF TimerFires
    <3>. QED BY <1>0, <1>2, <3>1, OrderAppended DEF TimerFires
  <2>. QED BY <2>1, <2>2
<1>3. CASE Finalize
  <2>1. CASE chain' = chain
    BY <1>0, <1>3, <2>1 DEF Finalize, InOrder
  <2>2. CASE chain' # chain
    <3>1. seen # 0 /\ chain' = Append(chain, [upto |-> seen, by |-> "finalize"])
      BY <1>3, <2>2 DEF Finalize, FinalFlush
    <3>. QED BY <1>0, <1>3, <3>1, OrderAppended DEF Finalize
  <2>. QED BY <2>1, <2>2
<1>4. CASE PostAccepted \/ PostFails \/ PostSkipped
  BY <1>0, <1>4, PostTakesHead, HeadTaken
<1>5. CASE PostFinal
  BY <1>0, <1>5, StatusPosted DEF InOrder
<1>6. CASE UNCHANGED vars
  BY <1>0, <1>6 DEF vars, InOrder
<1>. QED
  BY <1>1, <1>2, <1>3, <1>4, <1>5, <1>6 DEF Next

LEMMA OpenStep == IInv /\ [Next]_vars => OpenUntilPosted'
<1> SUFFICES ASSUME IInv, [Next]_vars PROVE OpenUntilPosted'
  OBVIOUS
<1>0. TypeOK /\ InOrder /\ OpenUntilPosted
  BY DEF IInv
<1>1. CASE HandleSessionEvent \/ TimerFires
  BY <1>0, <1>1 DEF HandleSessionEvent, TimerFires, OpenUntilPosted
<1>2. CASE Finalize
  BY <1>0, <1>2 DEF Finalize, FinalFlush, Verdicts, OpenUntilPosted
<1>3. CASE PostAccepted \/ PostFails \/ PostSkipped
  <2>1. Closed(relay') = Closed(relay)
    BY <1>0, <1>3, PostTakesHead, HeadTaken
  <2>2. /\ phase' = phase \/ (phase \in {"flush", "drain"} /\ phase' \in {"drain", "post"})
        /\ verdict' \in {verdict, "failed"}
    BY <1>3 DEF PostAccepted, PostFails, PostSkipped, Advance, Falter
  <2>. QED BY <1>0, <2>1, <2>2 DEF OpenUntilPosted
<1>4. CASE PostFinal
  BY <1>0, <1>4, StatusPosted DEF OpenUntilPosted
<1>5. CASE UNCHANGED vars
  BY <1>0, <1>5 DEF vars, OpenUntilPosted
<1>. QED
  BY <1>1, <1>2, <1>3, <1>4, <1>5 DEF Next

LEMMA LeftStep == IInv /\ [Next]_vars => LeftToWait'
<1> SUFFICES ASSUME IInv, [Next]_vars PROVE LeftToWait'
  OBVIOUS
<1>0. TypeOK /\ LeftToWait
  BY DEF IInv
<1>1. CASE PostAccepted \/ PostFails \/ PostSkipped
  <2>1. chain # <<>> /\ left \in Nat
    BY <1>0, <1>1 DEF PostAccepted, PostFails, PostSkipped, TypeOK
  <2>2. Len(chain) - 1 \in Nat
    BY <1>0, <2>1, RelayTyped, TailOfChain
  <2>3. \/ phase' = "drain" /\ left' = Len(chain) - 1 /\ Len(chain) - 1 # 0
        \/ phase' = "drain" /\ phase = "drain" /\ left' = left - 1 /\ left # 1
        \/ phase' # "drain"
    <3>1. CASE PostAccepted
      BY <3>1 DEF PostAccepted, Advance
    <3>2. CASE PostFails \/ PostSkipped
      BY <3>2 DEF PostFails, PostSkipped, Falter
    <3>. QED BY <1>1, <3>1, <3>2
  <2>4. CASE phase' = "drain" /\ left' = Len(chain) - 1 /\ Len(chain) - 1 # 0
    <3>1. left' \in Nat \ {0}
      BY <2>2, <2>4
    <3>. QED BY <3>1 DEF LeftToWait
  <2>5. CASE phase' = "drain" /\ phase = "drain" /\ left' = left - 1 /\ left # 1
    <3>1. left > 0
      BY <1>0, <2>5 DEF LeftToWait
    <3>2. left' > 0
      BY <2>1, <2>5, <3>1
    <3>. QED BY <3>2 DEF LeftToWait
  <2>6. CASE phase' # "drain"
    BY <2>6 DEF LeftToWait
  <2>. QED BY <2>3, <2>4, <2>5, <2>6
<1>. QED
  BY <1>0, <1>1 DEF Next, vars, HandleSessionEvent, TimerFires, Finalize, FinalFlush, PostFinal,
                    LeftToWait

LEMMA NothingStep == IInv /\ [Next]_vars => NothingAfter'
<1> SUFFICES ASSUME IInv, [Next]_vars PROVE NothingAfter'
  OBVIOUS
<1>0. /\ TypeOK /\ InOrder /\ NothingAfter /\ OpenUntilPosted
      /\ relay \in Seq(Posts) /\ chain \in Seq(Snapshots)
  BY RelayTyped DEF IInv
<1>1. CASE HandleSessionEvent
  BY <1>0, <1>1 DEF HandleSessionEvent, NothingAfter, TypeOK
<1>2. CASE TimerFires
  <2>1. late \/ failure \/ phase = "idle"
    BY <1>0, <1>2 DEF TimerFires, NothingAfter
  <2>2. UNCHANGED <<late, failure, phase>>
    BY <1>2 DEF TimerFires
  <2>3. CASE chain' = chain
    BY <1>0, <2>1, <2>2, <2>3 DEF NothingAfter
  <2>4. CASE chain' # chain
    <3>1. seen \in 1..MaxEvents /\ chain' = Append(chain, [upto |-> seen, by |-> "timer"])
      BY <1>0, <1>2, <2>4 DEF TimerFires, TypeOK
    <3>2. /\ Len(chain) \in Nat /\ Len(chain') = Len(chain) + 1
          /\ \A i \in 1..Len(chain) : chain'[i] = chain[i]
          /\ chain'[Len(chain) + 1].by = "timer"
      BY <1>0, <3>1, AppendToChain
    <3>3. \A i \in 1..Len(chain') : i = Len(chain) + 1 \/ i \in 1..Len(chain)
      BY <3>2
    <3>. QED BY <1>0, <2>1, <2>2, <3>2, <3>3 DEF NothingAfter
  <2>. QED BY <2>3, <2>4
<1>3. CASE Finalize
  <2>0. phase = "idle" /\ ~late /\ \A i \in 1..Len(chain) : chain[i].by = "timer"
    BY <1>0, <1>3 DEF Finalize, NothingAfter
  <2>1. CASE failure
    BY <1>3, <2>0, <2>1 DEF Finalize, FinalFlush, NothingAfter
  <2>2. CASE ~failure /\ seen = 0
    <3>1. chain = <<>>
      <4> SUFFICES ASSUME chain # <<>> PROVE FALSE
        OBVIOUS
      <4>1. Head(chain) = chain[1] /\ Head(chain).upto \in 1..MaxEvents /\ Len(chain) \in Nat \ {0}
        BY <1>0, TailOfChain
      <4>. QED BY <1>0, <2>2, <4>1 DEF InOrder
    <3>. QED BY <1>3, <2>0, <2>2, <3>1 DEF Finalize, FinalFlush, NothingAfter
  <2>3. CASE ~failure /\ seen # 0
    <3>1. /\ seen \in 1..MaxEvents /\ timer' = FALSE /\ phase' = "flush" /\ UNCHANGED <<seen, late>>
          /\ chain' = Append(chain, [upto |-> seen, by |-> "finalize"])
      BY <1>0, <1>3, <2>3 DEF Finalize, FinalFlush, TypeOK
    <3>2. /\ chain' # <<>> /\ Len(chain) \in Nat /\ Len(chain') = Len(chain) + 1
          /\ \A i \in 1..Len(chain) : chain'[i] = chain[i]
          /\ chain'[Len(chain) + 1].by = "finalize" /\ chain'[Len(chain) + 1].upto = seen
      BY <1>0, <3>1, AppendToChain
    <3>3. \A i \in 1..Len(chain') : chain'[i].by = "finalize" <=> i = Len(chain')
      BY <2>0, <3>2
    <3>. QED BY <2>0, <3>1, <3>2, <3>3 DEF NothingAfter
  <2>. QED BY <2>1, <2>2, <2>3
<1>4. CASE PostAccepted \/ PostFails \/ PostSkipped
  <2>0. chain # <<>> /\ chain' = Tail(chain) /\ UNCHANGED <<seen, late, timer>>
    BY <1>4, PostTakesHead
  <2>1. /\ Head(chain) = chain[1]
        /\ Len(chain) \in Nat \ {0} /\ Len(chain') = Len(chain) - 1 /\ chain' \in Seq(Snapshots)
        /\ \A i \in 1..Len(chain') : i + 1 \in 1..Len(chain) /\ chain'[i] = chain[i + 1]
    BY <1>0, <2>0, TailOfChain
  <2>2. CASE phase = "idle"
    <3>1. phase' = "idle"
      BY <1>4, <2>2 DEF PostAccepted, PostFails, PostSkipped, Advance, Falter
    <3>. QED BY <1>0, <2>0, <2>1, <2>2, <3>1 DEF NothingAfter
  <2>3. CASE phase # "idle" /\ ~PostAccepted
    <3>1. failure' /\ phase' # "idle" /\ (phase' = "drain" => phase = "drain")
      BY <1>4, <2>3 DEF PostFails, PostSkipped, Falter
    <3>. QED BY <1>0, <2>0, <3>1 DEF NothingAfter
  <2>4. CASE phase # "idle" /\ PostAccepted /\ late
    <3>1. phase' # "idle"
      BY <2>4 DEF PostAccepted, Advance
    <3>. QED BY <2>0, <2>4, <3>1 DEF NothingAfter
  <2>5. CASE phase # "idle" /\ PostAccepted /\ ~late
    <3>1. /\ ~failure /\ phase = "flush" /\ ~timer
          /\ chain[Len(chain)].upto = seen
          /\ \A i \in 1..Len(chain) : chain[i].by = "finalize" <=> i = Len(chain)
      BY <1>0, <2>0, <2>5 DEF PostAccepted, NothingAfter, TypeOK
    <3>2. CASE chain[1].by = "finalize"
      <4>1. Len(chain) = 1
        BY <2>1, <3>1, <3>2
      <4>2. phase' = "post" /\ chain' = <<>>
        BY <2>1, <2>5, <3>1, <3>2, <4>1, EmptySeq DEF PostAccepted, Advance
      <4>. QED BY <2>0, <3>1, <4>2 DEF NothingAfter
    <3>3. CASE chain[1].by # "finalize"
      <4>1. phase' = "flush"
        BY <2>1, <2>5, <3>1, <3>3 DEF PostAccepted, Advance
      <4>2. Len(chain) # 1
        BY <2>1, <3>1, <3>3
      <4>3. chain' # <<>> /\ chain'[Len(chain')] = chain[Len(chain)]
        BY <2>1, <4>2
      <4>4. \A i \in 1..Len(chain') : chain'[i].by = "finalize" <=> i = Len(chain')
        BY <2>1, <3>1
      <4>. QED BY <2>0, <3>1, <4>1, <4>3, <4>4 DEF NothingAfter
    <3>. QED BY <3>2, <3>3
  <2>. QED BY <2>2, <2>3, <2>4, <2>5
<1>5. CASE PostFinal
  BY <1>0, <1>5, StatusPosted DEF NothingAfter
<1>6. CASE UNCHANGED vars
  BY <1>0, <1>6 DEF vars, NothingAfter
<1>. QED
  BY <1>1, <1>2, <1>3, <1>4, <1>5, <1>6 DEF Next

LEMMA CompleteStep == IInv /\ [Next]_vars => CompleteIsWhole'
<1> SUFFICES ASSUME IInv, [Next]_vars,
                    phase' = "post", verdict' = "completed", ~late'
             PROVE  ~failure' /\ Stored(relay') = seen'
  BY DEF CompleteIsWhole
<1>0. /\ TypeOK /\ InOrder /\ NothingAfter /\ CompleteIsWhole
      /\ relay \in Seq(Posts) /\ chain \in Seq(Snapshots)
  BY RelayTyped DEF IInv
<1>1. CASE HandleSessionEvent
  BY <1>1 DEF HandleSessionEvent
<1>2. CASE TimerFires
  BY <1>0, <1>2 DEF TimerFires, CompleteIsWhole
<1>3. CASE Finalize
  <2>1. ~failure /\ seen = 0 /\ UNCHANGED <<failure, seen, relay>>
    BY <1>3 DEF Finalize, FinalFlush
  <2>2. Stored(relay) \in Nat /\ Stored(relay) <= seen
    BY <1>0, StoredTyped DEF InOrder
  <2>. QED BY <2>1, <2>2
<1>4. CASE PostAccepted
  <2>1. chain # <<>> /\ ~late /\ ~failure /\ UNCHANGED <<failure, seen>>
    BY <1>4 DEF PostAccepted
  <2>2. phase = "flush" /\ Head(chain).by = "finalize"
    BY <1>0, <1>4, <2>1 DEF PostAccepted, Advance, NothingAfter
  <2>3. Head(chain) = chain[1] /\ Len(chain) \in Nat \ {0} /\ Head(chain).upto \in 1..MaxEvents
    BY <1>0, <2>1, TailOfChain
  <2>4. chain[1].upto = seen
    BY <1>0, <2>1, <2>2, <2>3 DEF NothingAfter
  <2>5. Stored(relay') = chain[1].upto
    BY <1>0, <1>4, <2>3, ItemPosted DEF PostAccepted
  <2>. QED BY <2>1, <2>4, <2>5
<1>5. CASE PostFails \/ PostSkipped
  <2>1. chain # <<>> /\ ~late
    BY <1>5 DEF PostFails, PostSkipped
  <2>2. phase = "post" /\ verdict = "completed"
    BY <1>5 DEF PostFails, PostSkipped, Falter
  <2>3. ~failure /\ chain = <<>>
    BY <1>0, <2>1, <2>2 DEF CompleteIsWhole, NothingAfter
  <2>. QED BY <2>1, <2>3
<1>6. CASE PostFinal
  BY <1>6 DEF PostFinal
<1>7. CASE UNCHANGED vars
  BY <1>0, <1>7 DEF vars, CompleteIsWhole
<1>. QED
  BY <1>1, <1>2, <1>3, <1>4, <1>5, <1>6, <1>7 DEF Next

-----------------------------------------------------------------------------
(* What the reporter promises.                                             *)

LEMMA StoredOfNothing == Stored(<<>>) = 0 /\ Closed(<<>>) = "open"
  BY DEF Stored, Closed, Posted

LEMMA Invariance == Spec => []IInv
<1>1. Init => IInv
  <2> SUFFICES ASSUME Init PROVE IInv
    OBVIOUS
  <2>1. TypeOK
    <3>1. 0 \in 0..MaxEvents
      BY ConstantsOK
    <3>2. /\ <<>> \in Seq([upto : 1..MaxEvents, by : {"timer", "finalize"}])
          /\ <<>> \in Seq({Item(v) : v \in 1..MaxEvents} \cup {Final(s) : s \in Verdicts})
      BY EmptySeq
    <3>. QED BY <3>1, <3>2 DEF Init, TypeOK
  <2>2. InOrder
    BY StoredOfNothing DEF Init, InOrder
  <2>. QED BY <2>1, <2>2, StoredOfNothing
           DEF Init, IInv, OpenUntilPosted, NothingAfter, LeftToWait, CompleteIsWhole
<1>2. IInv /\ [Next]_vars => IInv'
  BY TypeStep, OrderStep, OpenStep, NothingStep, LeftStep, CompleteStep DEF IInv
<1>. QED BY <1>1, <1>2, PTL DEF Spec

\* Every variable keeps its type, in every behaviour.
THEOREM TypeCorrect == Spec => []TypeOK
  BY Invariance, PTL DEF IInv

LEMMA RelayStep == IInv /\ [Next]_vars => [Relay!Next]_<<seen, Stored(relay), Closed(relay), late>>
<1> SUFFICES ASSUME IInv, [Next]_vars
             PROVE  \/ Relay!Next
                    \/ UNCHANGED <<seen, Stored(relay), Closed(relay), late>>
  OBVIOUS
<1>0. /\ TypeOK /\ InOrder /\ OpenUntilPosted /\ NothingAfter /\ CompleteIsWhole
      /\ relay \in Seq(Posts) /\ chain \in Seq(Snapshots)
  BY RelayTyped DEF IInv
<1>1. CASE HandleSessionEvent
  <2>1. Closed(relay) = "open" /\ UNCHANGED relay /\ seen' = seen + 1
    BY <1>0, <1>1 DEF HandleSessionEvent, OpenUntilPosted
  <2>2. late' \in {late, TRUE}
    BY <1>0, <1>1 DEF HandleSessionEvent, TypeOK
  <2>. QED BY <2>1, <2>2 DEF Relay!Next, Relay!Produce
<1>2. CASE TimerFires \/ Finalize
  BY <1>2 DEF TimerFires, Finalize
<1>3. CASE PostAccepted \/ PostFails \/ PostSkipped
  <2>1. /\ chain # <<>> /\ chain' = Tail(chain) /\ UNCHANGED <<seen, late, timer>>
        /\ relay' \in {relay, Append(relay, Item(Head(chain).upto))}
        /\ failure => relay' = relay
    BY <1>3, PostTakesHead
  <2>2. /\ relay' \in Seq(Posts) /\ Closed(relay') = Closed(relay)
        /\ Stored(relay) <= Stored(relay') /\ Stored(relay') <= seen
    BY <1>0, <2>1, HeadTaken
  <2>3. Stored(relay) \in Int /\ Stored(relay') \in Int /\ seen \in Int
    BY <1>0, <2>2, StoredTyped DEF TypeOK
  <2>4. CASE Stored(relay') = Stored(relay)
    BY <2>1, <2>2, <2>4
  <2>5. CASE Stored(relay') # Stored(relay)
    <3>1. Stored(relay') \in (Stored(relay) + 1)..seen
      BY <2>2, <2>3, <2>5
    <3>2. ~failure
      BY <2>1, <2>5
    <3>3. Closed(relay) = "open" \/ late
      BY <1>0, <2>1, <3>2 DEF OpenUntilPosted, NothingAfter
    <3>. QED BY <2>1, <2>2, <3>1, <3>3 DEF Relay!Next, Relay!Store
  <2>. QED BY <2>4, <2>5
<1>4. CASE PostFinal
  <2>1. /\ phase = "post" /\ verdict \in Verdicts
        /\ UNCHANGED <<seen, late>>
        /\ Stored(relay') = Stored(relay)
        /\ Closed(relay) = "open" /\ Closed(relay') \in {"open", verdict}
    BY <1>0, <1>4, StatusPosted
  <2>2. verdict = "completed" /\ ~late => Stored(relay) = seen
    BY <1>0, <2>1 DEF CompleteIsWhole
  <2>3. verdict \in Relay!Statuses
    BY <2>1 DEF Verdicts, Relay!Statuses
  <2>. QED BY <2>1, <2>2, <2>3 DEF Relay!Next, Relay!Close
<1>5. CASE UNCHANGED vars
  BY <1>5 DEF vars
<1>. QED
  BY <1>1, <1>2, <1>3, <1>4, <1>5 DEF Next

\* Whatever the order of timer, posts, failures and finalize(), the relay sees
\* a record that only moves forward and a status that is true.
THEOREM ReporterImplementsRelay == Spec => ReportsToRelay
<1>1. Init => Relay!Init
  BY StoredOfNothing DEF Init, Relay!Init
<1>. QED
  BY <1>1, RelayStep, Invariance, PTL DEF Spec, ReportsToRelay, Relay!Spec

\* The failure sticks: no snapshot reaches the relay after it.
THEOREM NothingAfterFailure == Spec => StopsAfterFailure
<1>1. IInv /\ [Next]_vars => (failure => Stored(relay') = Stored(relay)) \/ UNCHANGED vars
  <2> SUFFICES ASSUME IInv, [Next]_vars, failure PROVE Stored(relay') = Stored(relay)
    OBVIOUS
  <2>1. CASE PostFinal
    BY <2>1, StatusPosted DEF IInv
  <2>. QED BY <2>1 DEF Next, vars, HandleSessionEvent, TimerFires, Finalize, PostAccepted,
                       PostFails, PostSkipped
<1>. QED
  BY <1>1, Invariance, PTL DEF Spec, StopsAfterFailure

-----------------------------------------------------------------------------
(* Grind: the run on record and the runs that are over.                    *)

\* A run that is over was started, and so was the run on record: the number
\* startRun gives to the next run is new.  Ends are recorded in sessions there are.
Known ==
  /\ over \subseteq (1..made) \X (1..started)
  /\ mem # NoRun => mem.id \in 1..started
  /\ \A s \in Sessions : files[s] # NoRun => files[s].id \in 1..started

GrindIInv == GrindTypeOK /\ session <= made /\ Known /\ EndedStaysEnded

\* What has to be shown of a step.
RunOK ==
  /\ mem \in RunStates /\ files \in [Sessions -> RunStates] /\ over \subseteq Sessions \X Runs
  /\ Known /\ EndedStaysEnded

HostOK ==
  /\ pastDue \subseteq Runs
  /\ {enabled, beat} \subseteq BOOLEAN
  /\ started \in 0..MaxRuns /\ restarts \in 0..MaxRestarts
  /\ session \in Sessions /\ made \in Sessions /\ session <= made

-----------------------------------------------------------------------------
(* The record of the run.                                                  *)

LEMMA NoRunTyped == NoRun \in RunStates /\ NoRun.status = "none" /\ NoRun.id = 0
  BY DEF NoRun, RunStates

\* A run on record has a number, a status and a count of failures.
LEMMA RunTyped ==
  ASSUME NEW run \in RunStates, run # NoRun
  PROVE  /\ run \in [id : Runs, status : Statuses, failures : 0..MaxFailures]
         /\ run.id \in Runs /\ run.status \in Statuses /\ run.failures \in 0..MaxFailures
  BY DEF RunStates

\* What current state the handlers see.
LEMMA CurrentKnown ==
  ASSUME GrindIInv, Current # NoRun
  PROVE  /\ Current \in RunStates /\ Current.id \in 1..started
         /\ Over \subseteq over
         /\ Current.status = "active" => \A s \in Sessions : <<s, Current.id>> \notin Over
  BY DEF GrindIInv, GrindTypeOK, Known, EndedStaysEnded, Current, Over, ReadBack

\* A new status, or a judgement, keeps the number of the run.
LEMMA StatusTyped ==
  ASSUME NEW run \in RunStates, run # NoRun, NEW s \in Statuses
  PROVE  /\ [run EXCEPT !.status = s] \in RunStates
         /\ [run EXCEPT !.status = s] # NoRun
         /\ [run EXCEPT !.status = s].id = run.id
         /\ [run EXCEPT !.status = s].status = s
<1>1. run \in [id : Runs, status : Statuses, failures : 0..MaxFailures]
  BY RunTyped
<1>2. [run EXCEPT !.status = s] \in [id : Runs, status : Statuses, failures : 0..MaxFailures]
  BY <1>1
<1>3. [run EXCEPT !.status = s].status = s /\ [run EXCEPT !.status = s].id = run.id
  BY <1>1
<1>4. s # "none"
  BY DEF Statuses
<1>. QED BY <1>2, <1>3, <1>4, NoRunTyped DEF RunStates

LEMMA JudgedTyped ==
  ASSUME NEW run \in RunStates, run # NoRun, NEW trailer \in Trailers
  PROVE  /\ Judged(run, trailer) \in RunStates
         /\ Judged(run, trailer) # NoRun
         /\ Judged(run, trailer).id = run.id
<1>1. run \in [id : Runs, status : Statuses, failures : 0..MaxFailures] /\ run.failures \in 0..MaxFailures
  BY RunTyped
<1>2. MaxFailures \in Nat \ {0}
  BY GrindConstantsOK
<1>3. /\ Judged(run, trailer) \in [id : Runs, status : Statuses, failures : 0..MaxFailures]
      /\ Judged(run, trailer).id = run.id
  <2>1. CASE trailer = "none" /\ run.failures + 1 >= MaxFailures
    <3>1. Judged(run, trailer) = [run EXCEPT !.status = "ended", !.failures = MaxFailures]
      BY <2>1 DEF Judged
    <3>2. "ended" \in Statuses /\ MaxFailures \in 0..MaxFailures
      BY <1>2 DEF Statuses
    <3>. QED BY <1>1, <3>1, <3>2
  <2>2. CASE trailer = "none" /\ ~(run.failures + 1 >= MaxFailures)
    BY <1>1, <1>2, <2>2 DEF Judged
  <2>3. CASE trailer # "none"
    <3>1. PICK s \in Statuses : Judged(run, trailer) = [run EXCEPT !.status = s, !.failures = 0]
      BY <2>3 DEF Judged, Statuses, Trailers
    <3>2. 0 \in 0..MaxFailures
      BY <1>2
    <3>. QED BY <1>1, <3>1, <3>2
  <2>. QED BY <2>1, <2>2, <2>3
<1>4. Judged(run, trailer).id # 0
  BY <1>1, <1>3, RunTyped DEF Runs
<1>. QED BY <1>3, <1>4, NoRunTyped DEF RunStates

-----------------------------------------------------------------------------
(* The types of what the agent side changes.                               *)

AgentTypeOK ==
  /\ starting \in 0..MaxPrompts /\ queue \in 0..MaxQueue /\ busy \in BOOLEAN
  /\ events \in Seq(Trailers) /\ Len(events) <= MaxLate

LEMMA SendTyped == GrindTypeOK /\ Send => AgentTypeOK'
<1> SUFFICES ASSUME GrindTypeOK, Send PROVE AgentTypeOK'
  OBVIOUS
<1>1. /\ MaxPrompts \in Nat /\ MaxQueue \in Nat
      /\ starting \in 0..MaxPrompts /\ queue \in 0..MaxQueue
  BY GrindConstantsOK DEF GrindTypeOK
<1>2. starting' \in 0..MaxPrompts /\ queue' \in 0..MaxQueue
  BY <1>1 DEF Send
<1>. QED BY <1>2 DEF Send, GrindTypeOK, AgentTypeOK

LEMMA AgentStays == GrindTypeOK /\ UNCHANGED agentVars => AgentTypeOK'
  BY DEF GrindTypeOK, agentVars, AgentTypeOK

\* The record of the run after a step that writes run to it.
LEMMA RunPersisted ==
  ASSUME GrindIInv, NEW run \in RunStates, run # NoRun, run.id \in 1..started',
         Persist(run), started \in 0..MaxRuns, started' \in 0..MaxRuns, started <= started',
         UNCHANGED <<session, made>>,
         run.status = "active" => \A s \in Sessions : <<s, run.id>> \notin Over
  PROVE  RunOK'
<1>1. /\ MaxRuns \in Nat /\ made \in Nat /\ session \in 1..made /\ session \in Sessions
      /\ over \subseteq (1..made) \X (1..started) /\ over \subseteq Sessions \X Runs
      /\ files \in [Sessions -> RunStates]
  BY GrindConstantsOK DEF GrindIInv, Known, GrindTypeOK, Sessions
<1>2. /\ mem' = run /\ files' = [files EXCEPT ![session] = run]
      /\ over' = IF run.status = "active" THEN Over ELSE Over \cup {<<session, run.id>>}
  BY DEF Persist
<1>3. Over \subseteq over
  BY DEF Over, ReadBack
<1>4. over' \subseteq (1..made) \X (1..(started')) /\ over' \subseteq Sessions \X Runs
  BY <1>1, <1>2, <1>3, RunTyped
<1>5. Known'
  <2>1. ASSUME NEW s \in Sessions, files'[s] # NoRun PROVE files'[s].id \in 1..(started')
    BY <1>1, <1>2, <2>1 DEF GrindIInv, Known
  <2>. QED BY <1>1, <1>2, <1>4, <2>1 DEF Known
<1>6. EndedStaysEnded'
  <2>1. ASSUME NEW s \in Sessions, files'[s].status = "active"
        PROVE  <<s, files'[s].id>> \notin over'
    <3>1. CASE s = session
      BY <1>1, <1>2, <2>1, <3>1
    <3>2. CASE s # session
      <4>1. files'[s] = files[s]
        BY <1>1, <1>2, <3>2
      <4>2. <<s, files[s].id>> \notin over
        BY <2>1, <4>1 DEF GrindIInv, EndedStaysEnded
      <4>. QED BY <1>2, <1>3, <3>2, <4>1, <4>2
    <3>. QED BY <3>1, <3>2
  <2>2. mem'.status = "active" => \A s \in Sessions : <<s, mem'.id>> \notin over'
    BY <1>2
  <2>. QED BY <2>1, <2>2 DEF EndedStaysEnded
<1>7. session' \in 1..(made')
  BY <1>1
<1>. QED BY <1>1, <1>2, <1>4, <1>5, <1>6 DEF RunOK

\* Reading a record back leaves no end of an active run standing.
LEMMA RunReadBack ==
  ASSUME NEW run, GrindIInv
  PROVE  /\ ReadBack(run) \subseteq over
         /\ run.status = "active" => \A s \in Sessions : <<s, run.id>> \notin ReadBack(run)
  BY DEF ReadBack

\* ... and after a step that only looks it up.
LEMMA RunRemembered ==
  ASSUME GrindIInv, NEW run \in RunStates, run # NoRun => run.id \in 1..started,
         Remember(run), over' \subseteq over, started' = started, made' >= made, made' \in Nat,
         run.status = "active" => \A s \in Sessions : <<s, run.id>> \notin over'
  PROVE  RunOK'
<1>1. files' = files /\ mem' = run
  BY DEF Remember
<1>2. /\ over \subseteq (1..made) \X (1..started) /\ over \subseteq Sessions \X Runs
      /\ made \in Nat /\ files \in [Sessions -> RunStates]
  BY GrindConstantsOK DEF GrindIInv, GrindTypeOK, Known, Sessions
<1>3. Known'
  BY <1>1, <1>2 DEF GrindIInv, Known
<1>4. EndedStaysEnded'
  BY <1>1 DEF GrindIInv, EndedStaysEnded
<1>. QED BY <1>1, <1>2, <1>3, <1>4 DEF RunOK

LEMMA RunLookedUp ==
  ASSUME GrindIInv, LookUp, UNCHANGED <<started, made>>
  PROVE  RunOK'
<1>1. Remember(Current) /\ over' = Over /\ Over \subseteq over
  BY DEF LookUp, Over, ReadBack
<1>2. Current \in RunStates /\ made \in Nat
  BY GrindConstantsOK DEF GrindIInv, GrindTypeOK, Current, Sessions
<1>3. CASE Current = NoRun
  BY <1>1, <1>2, <1>3, NoRunTyped, RunRemembered
<1>4. CASE Current # NoRun
  BY <1>1, <1>2, <1>4, CurrentKnown, RunRemembered
<1>. QED BY <1>3, <1>4

LEMMA RunUnchanged ==
  ASSUME GrindIInv, UNCHANGED <<mem, files, over, started>>, made' >= made, made' \in Nat
  PROVE  RunOK'
<1>1. made \in Nat
  BY DEF GrindIInv, GrindTypeOK, Sessions
<1>. QED BY <1>1 DEF GrindIInv, GrindTypeOK, Known, EndedStaysEnded, RunOK

\* Expire and the other endings of the current run.
LEMMA RunEnded ==
  ASSUME GrindIInv, Current # NoRun, NEW s \in Statuses \ {"active"},
         Persist([Current EXCEPT !.status = s]), UNCHANGED <<started, session, made>>
  PROVE  RunOK'
<1>1. started \in 0..MaxRuns /\ started <= started
  BY GrindConstantsOK DEF GrindIInv, GrindTypeOK
<1>2. Current \in RunStates /\ Current.id \in 1..started
  BY CurrentKnown
<1>. DEFINE run == [Current EXCEPT !.status = s]
<1>3. run \in RunStates /\ run # NoRun /\ run.id \in 1..started /\ run.status # "active"
  BY <1>2, StatusTyped
<1>. QED BY <1>1, <1>3, RunPersisted

-----------------------------------------------------------------------------
(* The steps.                                                              *)

LEMMA Parts == GrindIInv <=> RunOK /\ HostOK /\ AgentTypeOK
  BY DEF GrindIInv, GrindTypeOK, RunOK, HostOK, AgentTypeOK

LEMMA HostStays == GrindIInv /\ UNCHANGED <<pastDue, started, hostVars>> => HostOK'
  BY DEF GrindIInv, GrindTypeOK, hostVars, HostOK

LEMMA EndStep ==
  ASSUME GrindIInv, Current # NoRun, End(Current), UNCHANGED <<started, session, made>>
  PROVE  RunOK'
<1>1. "ended" \in Statuses \ {"active"}
  BY DEF Statuses
<1>. QED BY <1>1, RunEnded DEF End

LEMMA ExpireStep ==
  ASSUME GrindIInv, Overdue(Current), Expire(Current), UNCHANGED <<started, session, made>>
  PROVE  RunOK'
<1>1. Current # NoRun
  BY NoRunTyped DEF Overdue
<1>. QED BY <1>1, EndStep DEF Expire

\* Mutual effects of startRun: the new run is on record, or none is in memory.
LEMMA StartRunStep ==
  ASSUME GrindIInv, StartRun, UNCHANGED <<pastDue, hostVars>>
  PROVE  RunOK' /\ HostOK'
<1>0. /\ started \in 0..MaxRuns /\ over \subseteq (1..made) \X (1..started) /\ MaxRuns \in Nat
      /\ made \in Nat /\ Over \subseteq over
      /\ session' = session /\ made' = made
  BY GrindConstantsOK DEF GrindIInv, GrindTypeOK, Known, Sessions, Over, ReadBack, hostVars
<1>1. CASE enabled
  <2>. DEFINE run == [id |-> started', status |-> "active", failures |-> 0]
  <2>1. /\ started' = started + 1 /\ started' \in Runs /\ started' \in 0..MaxRuns
        /\ started <= started' /\ started' \in 1..started'
        /\ \A s \in Sessions : <<s, started'>> \notin Over
    BY <1>0, <1>1 DEF StartRun, Runs
  <2>2. 0 \in 0..MaxFailures /\ "active" \in Statuses
    BY GrindConstantsOK DEF Statuses
  <2>3. run \in RunStates /\ run # NoRun /\ run.id = started' /\ run.status = "active"
    BY <2>1, <2>2, NoRunTyped DEF RunStates
  <2>4. Persist(run)
    BY <1>1 DEF StartRun
  <2>. HIDE DEF run
  <2>5. RunOK'
    BY <1>0, <2>1, <2>3, <2>4, RunPersisted
  <2>. QED BY <2>1, <2>5 DEF HostOK, hostVars, GrindIInv, GrindTypeOK
<1>2. CASE ~enabled
  <2>1. Remember(NoRun) /\ over' = over /\ started' = started
    BY <1>2 DEF StartRun
  <2>2. RunOK'
    BY <1>0, <2>1, NoRunTyped, RunRemembered
  <2>. QED BY <2>1, <2>2, HostStays
<1>. QED BY <1>1, <1>2

LEMMA PromptedTyped == GrindTypeOK /\ Prompted => AgentTypeOK'
  BY SendTyped, AgentStays DEF Prompted

LEMMA HeadOfEvents ==
  ASSUME NEW q \in Seq(Trailers), q # <<>>
  PROVE  Head(q) \in Trailers /\ Tail(q) \in Seq(Trailers) /\ Len(Tail(q)) = Len(q) - 1
  BY HeadTailProperties

LEMMA NothingTyped ==
  /\ 0 \in 0..MaxPrompts /\ 0 \in 0..MaxQueue
  /\ <<>> \in Seq(Trailers) /\ Len(<<>>) <= MaxLate
  BY GrindConstantsOK, EmptySeq

LEMMA OneMoreEvent ==
  ASSUME NEW q \in Seq(Trailers), NEW trailer \in Trailers, Len(q) < MaxLate
  PROVE  Append(q, trailer) \in Seq(Trailers) /\ Len(Append(q, trailer)) <= MaxLate
  BY AppendProperties, GrindConstantsOK, LenProperties

LEMMA Entered ==
  ASSUME NEW s \in Sessions, made \in Sessions, Enter(s)
  PROVE  /\ session' \in Sessions /\ made' \in Sessions
         /\ session' <= made' /\ made' >= made
  BY GrindConstantsOK DEF Enter, Sessions

\* Every step keeps the invariant.
LEMMA GrindStep == GrindIInv /\ [GrindNext]_grindVars => GrindIInv'
<1> SUFFICES ASSUME GrindIInv, [GrindNext]_grindVars
             PROVE  RunOK' /\ HostOK' /\ AgentTypeOK'
  BY Parts, PTL
<1>0. /\ GrindTypeOK /\ RunOK /\ HostOK /\ AgentTypeOK /\ made >= made /\ made \in Nat
      /\ MaxLate \in Nat \ {0} /\ MaxPrompts \in Nat \ {0} /\ MaxQueue \in Nat \ {0}
  BY Parts, GrindConstantsOK DEF GrindIInv, GrindTypeOK, Sessions
<1>1. CASE Beat
  <2>1. HostOK'
    BY <1>1, HostStays DEF Beat
  <2>2. CASE Overdue(mem)
    <3>1. mem # NoRun /\ Current = mem
      BY <2>2, NoRunTyped DEF Overdue, Current
    <3>2. RunOK'
      BY <1>1, <2>2, <3>1, ExpireStep DEF Beat, hostVars
    <3>. QED BY <1>0, <1>1, <2>1, <2>2, <3>2, AgentStays DEF Beat
  <2>3. CASE ~Overdue(mem)
    BY <1>0, <1>1, <2>1, <2>3, SendTyped, RunUnchanged DEF Beat, hostVars
  <2>. QED BY <2>2, <2>3
<1>2. CASE Start
  <2>1. RunOK' /\ HostOK'
    BY <1>2, StartRunStep DEF Start
  <2>. QED BY <1>0, <1>2, <2>1, SendTyped, AgentStays DEF Start
<1>3. CASE Halt
  <2>1. RunOK'
    BY <1>3, EndStep DEF Halt, hostVars
  <2>. QED BY <1>0, <1>3, <2>1, HostStays, AgentStays DEF Halt
<1>4. CASE Resume
  <2>. DEFINE run == [Current EXCEPT !.status = "active"]
  <2>1. /\ Current # NoRun /\ mem' = run /\ files' = [files EXCEPT ![session] = run]
        /\ over' = {e \in over : e[2] # run.id}
        /\ UNCHANGED <<started, made>> /\ "active" \in Statuses
    BY <1>4 DEF Resume, Statuses, hostVars
  <2>2. Current \in RunStates /\ Current.id \in 1..started
    BY <2>1, CurrentKnown
  <2>3. run \in RunStates /\ run # NoRun /\ run.id = Current.id
    BY <2>1, <2>2, StatusTyped
  <2>. HIDE DEF run
  <2>4. Known' /\ over' \subseteq Sessions \X Runs /\ files' \in [Sessions -> RunStates]
    BY <1>0, <2>1, <2>2, <2>3 DEF GrindTypeOK, RunOK, Known
  <2>5. EndedStaysEnded'
    <3>1. ASSUME NEW s \in Sessions, files'[s].status = "active"
          PROVE  <<s, files'[s].id>> \notin over'
      BY <1>0, <2>1, <3>1 DEF RunOK, EndedStaysEnded
    <3>. QED BY <2>1, <3>1 DEF EndedStaysEnded
  <2>6. RunOK'
    BY <2>1, <2>3, <2>4, <2>5 DEF RunOK
  <2>. QED BY <1>0, <1>4, <2>6, HostStays, SendTyped DEF Resume
<1>5. CASE Types
  <2>1. AgentTypeOK'
    BY <1>0, <1>5, PromptedTyped DEF Types
  <2>2. CASE StartRun
    BY <1>5, <2>1, <2>2, StartRunStep DEF Types
  <2>3. CASE Current.status = "active" /\ End(Current) /\ UNCHANGED started
    <3>1. Current # NoRun
      BY <2>3, NoRunTyped
    <3>2. RunOK'
      BY <1>5, <2>3, <3>1, EndStep DEF Types, hostVars
    <3>. QED BY <1>5, <2>1, <2>3, <3>2, HostStays DEF Types
  <2>4. CASE UNCHANGED <<mem, files, started, over>>
    BY <1>0, <1>5, <2>1, <2>4, RunUnchanged, HostStays DEF Types, hostVars
  <2>. QED BY <1>5, <2>2, <2>3, <2>4 DEF Types
<1>6. CASE Chats
  BY <1>0, <1>6, PromptedTyped, RunUnchanged, HostStays DEF Chats, runVars, hostVars
<1>7. CASE PromptBegins
  <2>1. AgentTypeOK'
    BY <1>0, <1>7 DEF PromptBegins, AgentTypeOK
  <2>2. RunOK'
    BY <1>7, ExpireStep, RunLookedUp DEF PromptBegins, hostVars
  <2>. QED BY <1>7, <2>1, <2>2, HostStays DEF PromptBegins
<1>8. CASE TurnEnds
  <2>1. PICK trailer \in Trailers : events' = Append(events, trailer)
    BY <1>8 DEF TurnEnds
  <2>2. Len(events) < MaxLate
    BY <1>0, <1>8, LenProperties DEF TurnEnds, AgentTypeOK
  <2>3. AgentTypeOK'
    BY <1>0, <1>8, <2>1, <2>2, OneMoreEvent DEF TurnEnds, AgentTypeOK
  <2>. QED BY <1>0, <1>8, <2>3, RunUnchanged, HostStays DEF TurnEnds, runVars, hostVars
<1>9. CASE RunEnds
  <2>1. PICK trailer \in Trailers : events' = Append(events, trailer)
    BY <1>9 DEF RunEnds, Trailers
  <2>2. events' \in Seq(Trailers) /\ Len(events') <= MaxLate
    BY <1>0, <1>9, <2>1, OneMoreEvent DEF RunEnds, AgentTypeOK
  <2>3. busy' \in BOOLEAN /\ queue' \in 0..MaxQueue /\ starting' = starting
    <3>1. /\ busy' = busy \/ busy' = FALSE
          /\ queue' = queue \/ (queue > 0 /\ queue' = queue - 1)
          /\ starting' = starting
      BY <1>9 DEF RunEnds
    <3>2. busy \in BOOLEAN /\ queue \in 0..MaxQueue
      BY <1>0 DEF AgentTypeOK
    <3>3. queue' \in 0..MaxQueue
      BY <1>0, <3>1, <3>2
    <3>. QED BY <3>1, <3>2, <3>3
  <2>4. AgentTypeOK'
    BY <1>0, <2>2, <2>3 DEF AgentTypeOK
  <2>. QED BY <1>0, <1>9, <2>4, RunUnchanged, HostStays DEF RunEnds, runVars, hostVars
<1>10. CASE TurnProcessed
  <2>1. /\ events # <<>> /\ events' = Tail(events)
        /\ UNCHANGED <<pastDue, started, hostVars, starting, busy, queue>>
    BY <1>10 DEF TurnProcessed
  <2>2. Head(events) \in Trailers /\ events' \in Seq(Trailers) /\ Len(events') = Len(events) - 1
    BY <1>0, <2>1, HeadOfEvents DEF AgentTypeOK
  <2>3. AgentTypeOK'
    BY <1>0, <2>1, <2>2, LenProperties DEF AgentTypeOK
  <2>4. CASE Current.status # "active"
    BY <1>10, <2>1, <2>3, <2>4, RunLookedUp, HostStays DEF TurnProcessed, hostVars
  <2>5. CASE Overdue(Current)
    <3>1. Expire(Current)
      BY <1>10, <2>5 DEF TurnProcessed, Overdue
    <3>. QED BY <2>1, <2>3, <2>5, <3>1, ExpireStep, HostStays DEF hostVars
  <2>6. CASE Current.status = "active" /\ ~Overdue(Current)
    <3>. DEFINE run == Judged(Current, Head(events))
    <3>1. Current # NoRun /\ Persist(run)
      BY <1>10, <2>6, NoRunTyped DEF TurnProcessed
    <3>2. /\ Current \in RunStates /\ Current.id \in 1..started
          /\ \A s \in Sessions : <<s, Current.id>> \notin Over
      BY <2>6, <3>1, CurrentKnown
    <3>3. run \in RunStates /\ run # NoRun /\ run.id = Current.id
      BY <2>2, <3>1, <3>2, JudgedTyped
    <3>4. /\ started \in 0..MaxRuns /\ started' = started /\ started <= started'
          /\ run.id \in 1..started' /\ UNCHANGED <<session, made>>
      BY <1>0, <2>1, <3>2, <3>3, GrindConstantsOK DEF HostOK, hostVars
    <3>. HIDE DEF run
    <3>5. RunOK'
      BY <3>1, <3>2, <3>3, <3>4, RunPersisted
    <3>. QED BY <2>1, <2>3, <3>5, HostStays
  <2>. QED BY <2>4, <2>5, <2>6
<1>11. CASE TimePasses
  <2>1. pastDue' \subseteq Runs /\ UNCHANGED <<started, hostVars>>
    BY <1>0, <1>11, GrindConstantsOK DEF TimePasses, HostOK, Runs
  <2>2. HostOK'
    BY <1>0, <2>1 DEF HostOK, hostVars
  <2>. QED BY <1>0, <1>11, <2>1, <2>2, RunUnchanged, AgentStays DEF TimePasses, hostVars
<1>12. CASE Configure
  BY <1>0, <1>12, RunUnchanged, AgentStays DEF Configure, runVars, HostOK
<1>13. CASE Restart
  <2>1. PICK s \in Sessions : /\ s <= made + 1 /\ Enter(s)
                              /\ Remember(files[s]) /\ over' = ReadBack(files[s])
    BY <1>13 DEF Restart
  <2>2. session' \in Sessions /\ made' \in Sessions /\ session' <= made' /\ made' >= made
    BY <1>0, <2>1, Entered DEF HostOK
  <2>3. HostOK'
    BY <1>0, <1>13, <2>2, GrindConstantsOK DEF Restart, HostOK
  <2>4. AgentTypeOK'
    BY <1>13, NothingTyped DEF Restart, AgentTypeOK
  <2>5. files[s] \in RunStates /\ (files[s] # NoRun => files[s].id \in 1..started)
    BY <1>0 DEF RunOK, Known
  <2>6. started' = started /\ made' \in Nat
    BY <1>13, <2>2 DEF Restart, Sessions
  <2>7. RunOK'
    BY <2>1, <2>2, <2>5, <2>6, RunReadBack, RunRemembered
  <2>. QED BY <2>3, <2>4, <2>7
<1>14. CASE ChangeSession
  <2>1. /\ session' \in Sessions /\ made' \in Sessions /\ session' <= made' /\ made' >= made
        /\ made' \in Nat
    BY <1>0, <1>14, Entered DEF ChangeSession, HostOK, Sessions
  <2>2. AgentTypeOK'
    BY <1>0, <1>14, NothingTyped DEF ChangeSession, AgentTypeOK
  <2>3. RunOK'
    BY <1>14, <2>1, RunUnchanged DEF ChangeSession, runVars
  <2>4. HostOK'
    BY <1>0, <1>14, <2>1 DEF ChangeSession, runVars, HostOK
  <2>. QED BY <2>2, <2>3, <2>4
<1>15. CASE Fork
  <2>1. /\ made < MaxSessions /\ Enter(made + 1) /\ UNCHANGED <<mem, over, pastDue, started>>
        /\ UNCHANGED <<enabled, beat, restarts, agentVars>>
    BY <1>15 DEF Fork
  <2>2. PICK run \in {NoRun, files[session], [files[session] EXCEPT !.status = "active"]} :
          run \in RunStates /\ files' = [files EXCEPT ![made + 1] = run]
    BY <1>15 DEF Fork
  <2>3. session' = made + 1 /\ made' = made + 1 /\ made + 1 \in Sessions
    BY <1>0, <2>1, GrindConstantsOK DEF Enter, Sessions
  <2>4. run # NoRun => run.id \in 1..started
    <3>1. files[session] \in RunStates /\ session \in Sessions
      BY <1>0 DEF RunOK, HostOK
    <3>2. CASE files[session] = NoRun
      <4>1. [files[session] EXCEPT !.status = "active"].id = 0
        BY <3>2 DEF NoRun
      <4>2. run = NoRun \/ run.id = 0
        BY <2>2, <3>2, <4>1
      <4>. QED BY <2>2, <4>2, RunTyped DEF Runs
    <3>3. CASE files[session] # NoRun
      <4>1. files[session].id \in 1..started /\ "active" \in Statuses
        BY <1>0, <3>1, <3>3 DEF RunOK, Known, Statuses
      <4>2. [files[session] EXCEPT !.status = "active"].id = files[session].id
        BY <3>1, <3>3, <4>1, StatusTyped
      <4>. QED BY <2>2, <4>1, <4>2
    <3>. QED BY <3>2, <3>3
  <2>5. Known'
    BY <1>0, <2>1, <2>2, <2>3, <2>4 DEF RunOK, Known
  <2>6. EndedStaysEnded'
    <3>1. ASSUME NEW s \in Sessions, files'[s].status = "active"
          PROVE  <<s, files'[s].id>> \notin over'
      <4>1. CASE s = made + 1
        BY <1>0, <2>1, <4>1 DEF RunOK, Known
      <4>2. CASE s # made + 1
        BY <1>0, <2>1, <2>2, <3>1, <4>2 DEF RunOK, EndedStaysEnded
      <4>. QED BY <4>1, <4>2
    <3>. QED BY <1>0, <2>1, <3>1 DEF RunOK, EndedStaysEnded
  <2>7. RunOK'
    BY <1>0, <2>1, <2>2, <2>5, <2>6 DEF RunOK
  <2>8. HostOK'
    BY <1>0, <2>1, <2>3 DEF HostOK
  <2>. QED BY <1>0, <2>1, <2>7, <2>8, AgentStays
<1>16. CASE UNCHANGED grindVars
  BY <1>0, <1>16, RunUnchanged, HostStays, AgentStays DEF grindVars, runVars, hostVars
<1>. QED
  BY <1>1, <1>2, <1>3, <1>4, <1>5, <1>6, <1>7, <1>8, <1>9, <1>10, <1>11, <1>12, <1>13,
     <1>14, <1>15, <1>16 DEF GrindNext

-----------------------------------------------------------------------------
(* What the extension promises.                                            *)

LEMMA GrindInvariance == GrindSpec => []GrindIInv
<1>1. GrindInit => GrindIInv
  <2> SUFFICES ASSUME GrindInit PROVE GrindIInv
    OBVIOUS
  <2>1. RunOK
    BY NoRunTyped DEF GrindInit, RunOK, Known, EndedStaysEnded
  <2>2. HostOK
    BY GrindConstantsOK DEF GrindInit, HostOK, Sessions
  <2>3. AgentTypeOK
    BY NothingTyped DEF GrindInit, AgentTypeOK
  <2>. QED BY <2>1, <2>2, <2>3, Parts
<1>. QED BY <1>1, GrindStep, PTL DEF GrindSpec

\* Every variable keeps its type, in every behaviour.
THEOREM GrindTypeCorrect == GrindSpec => []GrindTypeOK
  BY GrindInvariance, PTL DEF GrindIInv

\* A run that is done, blocked, expired, stopped or paused is not active again, in
\* memory or on record in the session its end is recorded in, until a user
\* resumes it or the record of another session says that it is (persistState,
\* readState, the turn_end handler, startRun), whatever turns, prompts, restarts
\* and changes of the session come in between.
THEOREM EndedRunsStay == GrindSpec => []EndedStaysEnded
  BY GrindInvariance, PTL DEF GrindIInv
==============================================================================
