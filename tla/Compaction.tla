------------------------------ MODULE Compaction ----------------------------
(***************************************************************************)
(* The pure part of compaction: which entries of a path are kept, which    *)
(* ones the summary is made from (core/compaction/compaction.ts), and what *)
(* the model sees of a path (buildSessionContext in session-manager.ts).   *)
(* An entry is a record with its id, its parent, its kind, ref (what a     *)
(* label marks, the first entry a compaction keeps) and covers (the        *)
(* messages a compaction's summary was made from).  A message counts as    *)
(* one token; the text of a summary is what it covers.                     *)
(***************************************************************************)
EXTENDS Naturals, Sequences, FiniteSetsExt

Messages == {"user", "assistant", "result"}
InContext == Messages \cup {"branchSummary"}

\* Mutant of CutKinds: a cut may fall on a tool result.
CutAnywhere == InContext

\* findValidCutPoints: never at a tool result.
CutKinds == {"user", "assistant", "branchSummary"}

Ids(path, from, to) == {path[i].id : i \in {k \in from..to : path[k].kind \in InContext}}

\* The index of the last compaction of the path, 0 when there is none.
LastCompaction(path) ==
  LET at == {i \in 1..Len(path) : path[i].kind = "compaction"}
  IN IF at = {} THEN 0 ELSE Max(at)

\* findValidCutPoints, and the walk back from the newest message until keep
\* tokens are counted: the cut is the first valid one from there on.
BudgetCut(path, start, keep) ==
  LET Size(i) == Cardinality({k \in i..Len(path) : path[k].kind \in Messages})
      cuts == {i \in start..Len(path) : path[i].kind \in CutKinds}
      full == {i \in start..Len(path) : path[i].kind \in Messages /\ Size(i) >= keep}
      near == IF full = {} THEN {} ELSE {c \in cuts : c >= Max(full)}
  IN IF cuts = {} THEN start ELSE IF near = {} THEN Min(cuts) ELSE Min(near)

\* findCutPoint: entries before the cut that are no messages are kept as well.
FindCut(path, start, keep) ==
  LET cut == BudgetCut(path, start, keep)
  IN Min({j \in start..cut :
            \A k \in j..(cut - 1) : path[k].kind \notin Messages \cup {"compaction"}})

\* findTurnStartIndex, 0 when no turn starts in the range.
TurnStart(path, cut, start) ==
  LET at == {i \in start..cut : path[i].kind \in {"user", "branchSummary"}}
  IN IF at = {} THEN 0 ELSE Max(at)

CanCompact(path) == path # <<>> /\ path[Len(path)].kind # "compaction"

\* Mutant of Prepare: the part of a split turn before the cut is forgotten.
PrepareWithoutPrefix(path, keep) ==
  LET prev == LastCompaction(path)
      start == prev + 1
      cut == FindCut(path, start, keep)
      turn == IF path[cut].kind = "user" THEN 0 ELSE TurnStart(path, cut, start)
      history == Ids(path, start, (IF turn # 0 THEN turn ELSE cut) - 1)
  IN [firstKept |-> path[cut].id, covers |-> history]

\* prepareCompaction and compact: the first entry that is kept, and what the
\* summary is made from.  The summary of the history updates the previous one;
\* when a turn is split and there is no history before it, it is left out.
Prepare(path, keep) ==
  LET prev == LastCompaction(path)
      start == prev + 1
      cut == FindCut(path, start, keep)
      turn == IF path[cut].kind = "user" THEN 0 ELSE TurnStart(path, cut, start)
      split == turn # 0
      history == Ids(path, start, (IF split THEN turn ELSE cut) - 1)
      prefix == IF split THEN Ids(path, turn, cut - 1) ELSE {}
      previous == IF prev = 0 THEN {} ELSE path[prev].covers
  IN [firstKept |-> path[cut].id,
      covers |-> IF prefix # {} /\ history = {} THEN prefix
                 ELSE history \cup prefix \cup previous]

\* The elements of s at the positions in at, in their order.
Picked(s, at) ==
  [k \in 1..Cardinality(at) |-> s[CHOOSE i \in at : Cardinality({j \in at : j <= i}) = k]]

\* buildSessionContext: where the messages are that follow the summary, those
\* from the first entry the compaction keeps up to it included.
FirstSent(path) ==
  LET comp == LastCompaction(path)
      first == {i \in 1..(comp - 1) : path[i].id = path[comp].ref}
  IN IF first = {} THEN comp + 1 ELSE Min(first)

Sent(path) == {i \in FirstSent(path)..Len(path) : path[i].kind \in InContext}

Context(path) == Picked(path, Sent(path))

\* What the summary at the head of the context covers.
Summarized(path) ==
  LET comp == LastCompaction(path) IN IF comp = 0 THEN {} ELSE path[comp].covers
=============================================================================
