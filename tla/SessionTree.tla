------------------------------ MODULE SessionTree ---------------------------
(***************************************************************************)
(* The session file (SessionManager in core/session-manager.ts): a tree of *)
(* entries that only grows, the leaf where the next entry goes, the JSONL  *)
(* file that is first written when an assistant has answered, and what     *)
(* AgentSession does with it: messages, labels, compaction, navigation,    *)
(* forks.  The process may be killed, also in the middle of a write, and   *)
(* the file is loaded again.  Entries that carry no message (settings,     *)
(* names, extensions' data) are left out: labels stand for them.           *)
(***************************************************************************)
EXTENDS Compaction, SequencesExt

CONSTANTS MaxEntries,  \* bound on the entries ever made
          MaxMoves,    \* bound on navigations and forks
          MaxLabels,   \* bound on the label entries of a session
          MaxKills,    \* bound on the times the process is killed
          Keep,        \* settings.keepRecentTokens
          None,        \* no entry
          NoFile,      \* the session file was not written yet
          Torn,        \* a line cut short, without its newline
          Garbage      \* a line that is no JSON

VARIABLES
  entries,  \* fileEntries without the header
  leaf,     \* leafId
  labels,   \* the domain of labelsById
  flushed,  \* the file is up to date
  disk,     \* the lines of the session file after the header
  open,     \* the last reply asked for tools whose results are to come
  nextId,   \* ids are never used twice
  moves, kills,
  cut       \* history: a write was cut short by a kill

treeVars == <<entries, leaf, labels, flushed, disk, open, nextId, moves, kills, cut>>

Kinds == InContext \cup {"label", "compaction"}
Id == 1..MaxEntries
Entry == [id : Id, parent : Id \cup {None}, kind : Kinds, ref : Id \cup {None},
          on : BOOLEAN, covers : SUBSET Id]
Line == Entry \cup {Torn, Garbage}

ASSUME TreeConstantsOK ==
  /\ {MaxEntries, MaxMoves, MaxLabels, MaxKills} \subseteq Nat
  /\ Keep \in Nat \ {0}
  /\ None \notin Nat /\ Torn \notin Entry /\ Garbage \notin Entry
  /\ NoFile \notin Seq(Line)

TreeTypeOK ==
  /\ entries \in Seq(Entry)
  /\ leaf \in Id \cup {None}
  /\ labels \subseteq Id
  /\ flushed \in BOOLEAN
  /\ disk \in Seq(Line) \cup {NoFile}
  /\ open \in BOOLEAN
  /\ nextId \in 1..(MaxEntries + 1)
  /\ moves \in 0..MaxMoves
  /\ kills \in 0..MaxKills
  /\ cut \in BOOLEAN

TreeInit ==
  /\ entries = <<>>
  /\ leaf = None
  /\ labels = {}
  /\ flushed = FALSE
  /\ disk = NoFile
  /\ open = FALSE
  /\ nextId = 1
  /\ moves = 0
  /\ kills = 0
  /\ cut = FALSE

New(id, kind) ==
  [id |-> id, parent |-> leaf, kind |-> kind, ref |-> None, on |-> FALSE, covers |-> {}]

Has(es, x) == \E i \in 1..Len(es) : es[i].id = x
\* byId: the last entry with the id.
ById(es, x) == es[Max({i \in 1..Len(es) : es[i].id = x})]
HasAssistant(es) == \E i \in 1..Len(es) : es[i].kind = "assistant"

\* getBranch: from the entry up the parents, as long as they are found.
PathOf(es, x) ==
  LET P[n \in 0..MaxEntries] ==
        LET up == P[n - 1] IN
          IF n = 0 THEN IF Has(es, x) THEN <<ById(es, x)>> ELSE <<>>
          ELSE IF up # <<>> /\ Has(es, up[1].parent)
               THEN <<ById(es, up[1].parent)>> \o up
               ELSE up
  IN P[MaxEntries]

Path == PathOf(entries, leaf)

\* The labels that label entries leave, in their order.
LabelsOf(es) ==
  {x \in {es[i].ref : i \in {k \in 1..Len(es) : es[k].kind = "label"}} :
     es[Max({i \in 1..Len(es) : es[i].kind = "label" /\ es[i].ref = x})].on}

\* Lines appended to a file whose last line was cut short: the first of them
\* ends up on that line.
Write(d, lines) ==
  IF d = NoFile THEN lines
  ELSE IF d = <<>> \/ Last(d) # Torn THEN d \o lines
  ELSE IF Head(lines) = Torn THEN d
  ELSE Front(d) \o <<Garbage>> \o Tail(lines)

\* _persist: nothing is written before the first reply; then everything is,
\* and from then on each entry as it comes.
Persist(es, e) ==
  IF ~HasAssistant(es)
  THEN flushed' = FALSE /\ UNCHANGED disk
  ELSE /\ flushed' = TRUE
       /\ disk' = Write(disk, IF flushed THEN <<e>> ELSE es)

\* _appendEntry.
AppendEntry(e) ==
  /\ nextId <= MaxEntries
  /\ nextId' = nextId + 1
  /\ entries' = Append(entries, e)
  /\ leaf' = e.id
  /\ Persist(entries', e)
  /\ UNCHANGED <<kills, cut>>

-----------------------------------------------------------------------------
(* What a session appends.                                                 *)

AppendUser ==
  /\ AppendEntry(New(nextId, "user"))
  /\ open' = FALSE
  /\ UNCHANGED <<labels, moves>>

AppendAssistant ==
  /\ Context(Path) # <<>>
  /\ AppendEntry(New(nextId, "assistant"))
  /\ open' \in BOOLEAN
  /\ UNCHANGED <<labels, moves>>

AppendResult ==
  /\ open
  /\ AppendEntry(New(nextId, "result"))
  /\ UNCHANGED <<labels, open, moves>>

\* appendLabelChange sets or clears the label of an entry, at any time.
AppendLabel(x, on) ==
  /\ Has(entries, x)
  /\ Cardinality({i \in 1..Len(entries) : entries[i].kind = "label"}) < MaxLabels
  /\ AppendEntry([New(nextId, "label") EXCEPT !.ref = x, !.on = on])
  /\ labels' = IF on THEN labels \cup {x} ELSE labels \ {x}
  /\ UNCHANGED <<open, moves>>

\* compact() or auto-compaction; the run was aborted or has ended.
Compact ==
  /\ CanCompact(Path)
  /\ LET p == Prepare(Path, Keep)
     IN AppendEntry([New(nextId, "compaction") EXCEPT !.ref = p.firstKept,
                                                      !.covers = p.covers])
  /\ open' = FALSE
  /\ UNCHANGED <<labels, moves>>

-----------------------------------------------------------------------------
(* Moving in the tree.                                                     *)

\* navigateTree: the leaf becomes the entry, or the parent of a user message,
\* whose text goes back to the editor.
TargetLeaf(x) ==
  LET e == ById(entries, x) IN IF e.kind = "user" THEN e.parent ELSE x

Navigate(x) ==
  /\ moves < MaxMoves /\ moves' = moves + 1
  /\ Has(entries, x) /\ x # leaf
  /\ leaf' = TargetLeaf(x)
  /\ open' = FALSE
  /\ UNCHANGED <<entries, labels, flushed, disk, nextId, kills, cut>>

\* ... with a summary of the branch that is left behind.
NavigateWithSummary(x) ==
  /\ moves < MaxMoves /\ moves' = moves + 1
  /\ Has(entries, x) /\ x # leaf
  /\ AppendEntry([New(nextId, "branchSummary") EXCEPT !.parent = TargetLeaf(x)])
  /\ open' = FALSE
  /\ UNCHANGED labels

\* The path without its label entries.
Unlabelled(path) == Picked(path, {i \in 1..Len(path) : path[i].kind # "label"})

\* The label entries that createBranchedSession makes anew for the labels on
\* the path es, as a chain of children of its last entry.
Relabel(es) ==
  LET marked == SetToSeq({x \in labels : Has(es, x)})
      At(i) == nextId + i - 1
  IN [i \in 1..Len(marked) |->
        [id |-> At(i), kind |-> "label", ref |-> marked[i], on |-> TRUE, covers |-> {},
         parent |-> IF i > 1 THEN At(i - 1) ELSE IF es = <<>> THEN None ELSE Last(es).id]]

\* Mutant of Fork: marks the new file as written although it was not.
ForkUnwritten(x) ==
  /\ moves < MaxMoves /\ moves' = moves + 1
  /\ Has(entries, x) /\ ById(entries, x).kind = "user"
  /\ LET up == ById(entries, x).parent
         kept == IF up = None THEN <<>> ELSE Unlabelled(PathOf(entries, up))
         marks == Relabel(kept)
         es == kept \o marks
     IN /\ nextId + Len(marks) <= MaxEntries + 1
        /\ nextId' = nextId + Len(marks)
        /\ entries' = es
        /\ leaf' = IF es = <<>> THEN None ELSE Last(es).id
        /\ labels' = LabelsOf(es)
        /\ flushed' = TRUE
        /\ disk' = IF HasAssistant(es) THEN es ELSE NoFile
  /\ open' = FALSE
  /\ UNCHANGED <<kills, cut>>

\* fork(): a new session file with the path to the parent of a user message,
\* written at once if an assistant has answered on it.
Fork(x) ==
  /\ moves < MaxMoves /\ moves' = moves + 1
  /\ Has(entries, x) /\ ById(entries, x).kind = "user"
  /\ LET up == ById(entries, x).parent
         kept == IF up = None THEN <<>> ELSE Unlabelled(PathOf(entries, up))
         marks == Relabel(kept)
         es == kept \o marks
     IN /\ up = None \/ Has(entries, up)
        /\ nextId + Len(marks) <= MaxEntries + 1
        /\ nextId' = nextId + Len(marks)
        /\ entries' = es
        /\ leaf' = IF es = <<>> THEN None ELSE Last(es).id
        /\ labels' = LabelsOf(es)
        /\ flushed' = HasAssistant(es)
        /\ disk' = IF HasAssistant(es) THEN es ELSE NoFile
  /\ open' = FALSE
  /\ UNCHANGED <<kills, cut>>

-----------------------------------------------------------------------------
(* The process is killed and the session continued.                        *)

Readable(d) ==
  IF d = NoFile THEN <<>>
  ELSE Picked(d, {i \in 1..Len(d) : d[i] \notin {Torn, Garbage}})

\* setSessionFile on what the file d holds.
Load(d) ==
  /\ entries' = Readable(d)
  /\ leaf' = IF entries' = <<>> THEN None ELSE Last(entries').id
  /\ labels' = LabelsOf(entries')
  /\ flushed' = (d # NoFile)
  /\ disk' = d
  /\ open' = FALSE
  /\ kills' = kills + 1
  /\ UNCHANGED <<nextId, moves>>

Restart ==
  /\ kills < MaxKills
  /\ Load(disk)
  /\ UNCHANGED cut

\* ... in the middle of the write that an entry of kind k causes: the lines
\* after some point are missing, and the last one may be incomplete.
KillInWrite(k) ==
  /\ kills < MaxKills /\ nextId <= MaxEntries
  /\ k = "assistant" => Context(Path) # <<>>
  /\ k = "result" => open
  /\ LET es == Append(entries, New(nextId, k))
         lines == IF flushed THEN <<Last(es)>> ELSE es
     IN /\ HasAssistant(es)
        /\ \E n \in 0..(Len(lines) - 1), torn \in BOOLEAN :
             LET written == SubSeq(lines, 1, n) \o (IF torn THEN <<Torn>> ELSE <<>>)
             IN Load(IF written = <<>> /\ disk # NoFile THEN disk ELSE Write(disk, written))
  /\ cut' = TRUE

-----------------------------------------------------------------------------
TreeNext ==
  \/ AppendUser \/ AppendAssistant \/ AppendResult \/ Compact
  \/ \E x \in Id :
       \/ \E on \in BOOLEAN : AppendLabel(x, on)
       \/ Navigate(x) \/ NavigateWithSummary(x) \/ Fork(x)
  \/ Restart
  \/ \E k \in Messages : KillInWrite(k)

TreeSpec == TreeInit /\ [][TreeNext]_treeVars

-----------------------------------------------------------------------------
(* Properties.                                                             *)

\* Unless a write was cut short, the file holds the tree exactly, each entry
\* once, as soon as an assistant has answered, and does not exist before: a
\* restart then loads the entries and the labels that were in memory, whatever
\* was forked, compacted and loaded before.
ReloadAgrees ==
  ~cut => IF HasAssistant(entries)
          THEN flushed /\ disk = entries /\ labels = LabelsOf(disk)
          ELSE disk = NoFile

\* The chain of parents from the leaf reaches a root.
Whole == Path = <<>> \/ Path[1].parent = None

\* On a whole path the model is never sent a tool result without the reply
\* that asked for it, wherever a compaction cut and wherever the user went.
NoOrphanResult ==
  Whole => LET c == Context(Path) IN
    \A i \in 1..Len(c) : c[i].kind = "result" =>
      i > 1 /\ c[i - 1].kind \in {"assistant", "result"}

\* A compaction on a path without another one forgets no message: each is
\* either sent as it was or covered by the summary, and none of them twice.
FirstCompactionComplete ==
  LET p == Path
      comps == {i \in 1..Len(p) : p[i].kind = "compaction"}
      sent == {Context(p)[i].id : i \in 1..Len(Context(p))}
  IN Whole /\ Cardinality(comps) = 1 /\ Has(p, p[Max(comps)].ref) =>
       /\ Ids(p, 1, Len(p)) = sent \cup Summarized(p)
       /\ sent \cap Summarized(p) = {}

\* A later summary covers what the one before it covered.
SummariesAccumulate ==
  \A i, j \in 1..Len(Path) :
    i < j /\ Path[i].kind = "compaction" /\ Path[j].kind = "compaction" =>
      Path[i].covers \subseteq Path[j].covers
=============================================================================
