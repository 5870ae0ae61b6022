# Verification of clanker-agent

TLA+ models of the concurrent core of clanker-agent, the TLC runs that check
them and TLAPS proofs of their safety. Paths below are relative to
`src/packages/`.

    tlc -workers 4 -config MCGatewaySession.cfg GatewaySession.tla    # any run
    tlapm GatewaySession_proofs.tla                                   # the proofs

`PROJECT.json` lists the runs, and for each definition the lines it stands for.

## 1. The system

A daemon keeps a **gateway** that owns agent sessions. A message comes from a
chat channel through the **bridge** or by HTTP, waits in the queue of its
session, and becomes a prompt of an **AgentSession**, which runs an **Agent**,
whose **loop** asks a model and executes tools. A **durable run** is reported to a
relay while it runs. Several agents form a **team** and share an inbox per member
and a task board through files.

    adapters -> ChatBridge -> GatewayRuntime -> AgentSession -> Agent -> agentLoop -> model, tools
                                    |                                 (EventStream back)
                                    +-> DurableChatRunReporter -> relay
    processes of a team -> lock files -> inboxes, tasks

Everything but the teams is one Node process: what is between two `await`s is
atomic, and the hazards are at the awaits. The teams are several processes with a
shared file system: there every system call is a step.

| component | source | state | operations | hard behaviour |
|---|---|---|---|---|
| Gateway | `coding-agent/src/core/gateway/runtime.ts` | queue, processing flag, active reporter of a session; sessions map, subscribers, directories | queue, processNext, abort, clear, reset, delete, steer, subscribe, evict, stop | calls that interleave with a prompt in flight; promises each to be resolved once |
| Durable run reporter | `.../gateway/durable-chat-run.ts` | timer, chain of posts, sticky failure | session event, timer, finalize | posts in order, failure in the middle, timer against finalize |
| Agent and loop | `agent/src/agent.ts`, `agent-loop.ts` | transcript, two queues, running promise; context of the loop | prompt, continue, steer, followUp, abort | queues polled while users push; two copies of the transcript; skipped tools; a loop that dies |
| Agent session | `coding-agent/src/core/agent-session.ts` | event queue, retry promise, recovery flag, timers, kept-aside bash results | prompt, retry, compaction, bash, abort | two prompts across awaits, retries, runs started by timers, a compaction that unsubscribes |
| Chat bridge | `clanker-channels/src/bridge/` | queue per sender, slot count | message, /new, stop, start | forgotten sessions with a prompt in flight |
| Team files | `clanker-teams/src/utils/` | lock files, inbox files, task files | send, read, create, update, judge, list | system calls of several processes; killed processes; stale locks |
| Grind mode | `clanker-grind/src/` | a run's record in memory and in the session, heartbeat | start, pause, resume, stop, input, heartbeat, turn_end | heartbeat and late turn_end against commands, input, deadline and restart |
| Session tree | `coding-agent/src/core/session-manager.ts` | append-only tree of entries, leaf, labels, file | append, label, navigate, fork, load | kills in the middle of a write, entries held back, forks |
| Compaction | `.../compaction/compaction.ts` | none (pure) | cut, summarize, context | cuts inside a turn, at tool results, after another compaction |
| Event stream | `ai/src/utils/event-stream.ts` | queue, waiting consumers | push, end, iterate | a producer that dies; seen as a queue in AgentLoop |
| Terminal input | `tui/src/stdin-buffer.ts` | buffer, paste mode, timer | process, flush | chunks around a timeout |
| Auth and settings files | `coding-agent/src/core/auth-storage.ts`, `settings-manager.ts` | JSON files under a lock | read, merge, write | two processes |
| Memory, providers, TUI, extensions, tools, adapters, RPC runner | see `PROJECT.json` | | | not modelled, reasons there |

What makes them correct, in short: the gateway answers every request once and
runs one prompt at a time; the relay's record never moves backwards and
"completed" means whole; the loop loses no queued message and leaves no tool call
without a result; a prompt returns after its retries, and the transcript in memory
is that of the file; the bridge serves each sender in order within its slots; the
team's files behave as a mailbox and a board of atomic operations; the session file is
the tree in memory, and a compaction forgets nothing; a grind run that ended stays
ended and an active one goes on. The hazards, each
at its line, are in `PROJECT.json`.

## 2. The modules

**GatewaySession** - one managed session. A request in the hands of an activation
of `processNext` is a *frame*, and `st[r]` says where it is suspended. `TakeNext`
is the synchronous head of `processNext`; `Settle` its `finally` block with the
take of the next entry; `PromptRuns`, `RunRetries`, `PromptReturns` are the awaits
of `AgentSession.prompt`. A `Reset(c)` is a call of `resetSession` or
`handleDeleteSession`, suspended at `abort()`, then (on the primary session) at
`newSession()`. `waits[c]` says which `waitForIdle` promise it holds: `_runLoop`
overwrites `runningPrompt`, and a promise overwritten is lost. `primary` is chosen
at the start; deleting exists only for other sessions.

**GatewayRegistry** - the sessions map for one key. `where[c]` says how far a call
is, `got[c]` which managed session it holds from its lookup on; `Install` is the
`sessions.set` after `createSession`. What GatewaySession has as queue and flag is
here the calls that are `"queued"`, `"prompting"` (the agent's run has not begun),
`"running"` or `"ended"` (processNext is not done with it). An abort waits for a run only,
and returns at once for the other places. The sweep (`Evict`), `stop()` and SSE
subscribers act beside them. `left` is the set of calls without a connection: a message
answered with 202, one of the chat bridge, one whose client has gone (`CanLose`, `Close`).
`stop()` waits for the connections and not for these, which may even reach the map after it
was cleared. `overlap` records that a call which creates or removes ran beside another one.

**DurableRun** implements **RunRelay** - the reporter. A snapshot is abstracted to its
freshness, the number of events before it; what it contains, the latest assistant message
alone and the tool results, is left out. `chain` is `flushChain`. `RunRelay` is what the
relay may rely on.

**AgentLoop** - an Agent and its loop, two activities joined by the queue `events`.
The loop's program counter `pc` names its awaits; a poll of a queue is part of the
step that ends at it, in either queue mode. `"stuck"` is the loop whose `getApiKey` has thrown.
The session's list of queued messages (`Listed`) follows from the queues and the events.

**AgentSession** - callers of `prompt()` (`st`), the queue of agent events and what
the handling of the first one waits for, the retry promise, timers, the user
messages and bash results in memory and in the file, manual compaction. A run is one
step that begins it and one that ends it. `serial` is chosen at the start: callers
wait for each other, or do not.

**Compaction** and **SessionTree** - the pure part of compaction (cut points, what is
summarized and kept, the context) and the tree it works on: entries with ids and
parents, the leaf, labels, the lines of the file. `Persist` is part of every append;
`KillInWrite` ends the process after some of the lines of a write, the last one
perhaps torn; `Load` reads the file back, gluing what is appended to a torn line. What is
filtered out of a sequence is `Picked` by its positions, a definition without recursion
that the proofs can open.

**Grind** - the run's record in memory (`mem`) and in the file of each session (`files`),
the heartbeat, and of the agent what the extension sees: prompts on their way while it
still counts as idle, a run of turns, queued follow-ups, turn_end events not yet
processed. `ChangeSession` and `Fork` take the process to another session with the run in
memory, `Restart` opens any of the files. A fork that cuts the path in the middle leaves
the record as it was there: it may say active of a run that has ended (`Fork`). A session
the gateway creates gets no `session_start`, like one opened while the extension is
disabled. `over` records the ends of runs with the session whose file says so.

**ChatBridge** - sender queues and slots. A frame keeps the session object it began
with; `live` says whether that object is still in the map. The map is walked in the order
its keys were entered, which `older` keeps.

**TeamInbox** implements **Mailbox** - `withLock`, `appendMessage`, `readInbox`,
one system call per step, processes killed at any of them. The mailbox is the senders in
order and the positions that were read; it promises nothing once a process was killed.

**TeamTasks** implements **TaskBoard** - the tasks under the lock of a file or of
the directory, with a free lock taken in one step (TeamInbox opens it up). A file being
rewritten is *torn*: on the board it counts as what its writer is writing. The completion
script runs under the lock as long as it likes: once it has taken 30 seconds, a process that
waits may find the lock stale and remove it (`FindStale`, `RemoveStale`), and two processes
write the file in any order (`Raced`, `WriteFile`). `lost` records the tasks this happened
to; the board then may lose that task (`Lose`), and no other.

The modules meet in assumptions. GatewaySession lets a prompt run, retry, throw, be
consumed or return early, which is what AgentSession does; its fairness assumes that
runs end, which AgentLoop shows unless the key lookup throws; ChatBridge assumes
that the gateway answers, which is `EveryRequestAnswered`; GatewayRegistry is the map
that GatewaySession is an entry of; SessionTree is the file of which AgentSession keeps
only what was prompted; Grind prompts an AgentSession. SessionTree extends Compaction;
otherwise the modules are not composed in one state space.

## 3. The runs

| run | bounds | shows |
|---|---|---|
| gateway_session | 3 requests (1 durable), 2 resets or deletes (one of them also on the primary), queue of 1, 1 retry; 563k states | Each request is in one place and answered once and for all; an entry never waits without an activation that will take it; one prompt at a time on every session but the primary; resets of other sessions complete. |
| gateway_registry | 3 calls of any kind on one key, connected or not, 4 sessions; 3.3M states | The sweep takes no session from under a call, and `stop()` only from under calls without a connection; sessions, subscribers and directories are lost only when calls overlap or to such a call by `stop()`; a session nobody uses is released, unless a call without a connection has it created after `stop()`. |
| durable_run | 4 events; 8.8k states | The reporter implements RunRelay whatever fails; nothing is recorded after a failure; finalize returns. |
| agent_loop | 2 calls per reply, 1 reply with tools, 1 prompt, 2 steering, 1 follow-up, one clearQueue; 988k states | No message lost or reordered, transcripts agree, calls answered before the model goes on, follow-ups wait, and the run ends unless its key lookup throws. |
| agent_session | 2 prompts, at once or one after the other, 1 retry, 1 reply with tools, one bash result, one manual compaction; runs end well, with a transient error, and with an abort or for good (callers that wait) or with an overflow (callers at once); 1.6M states | Retries are not missed and nobody waits for a finished one, what was prompted is written, memory and file agree, errors are not answered for ever; callers that wait for each other get their prompts back, but for the two cases named below. |
| agent_session_retry | 2 prompts | *Violated*: a retry that fails with another kind of error is never resolved. |
| session_tree | 6 entries, 2 labels, 1 navigation or fork, 1 kill, 2 messages kept; 2.6M states | The file is the tree in memory unless a write was cut short; no tool result is sent without its call; a first compaction forgets nothing. |
| session_tree_compact | 6 entries, 1 message kept | *Violated*: a second compaction drops the first one's summary. |
| chat_bridge | 1 user on 3 adapters, 2 slots, 2 messages each, one /new, one stop | No message vanishes, each gets its turn, order, slots, and one prompt per known session. |
| team_inbox | 2 senders, 1 reader, 3 attempts, 1 kill; 23k states | Until a kill: exclusion and an ordered mailbox that loses nothing; after it: the lock is removed. |
| team_tasks | 2 processes, 5 calls, 2 ids; 619k states | For every task whose lock was not removed while a process had it: one writer under two kinds of lock, atomic operations, and the script sees what is stored. |
| grind | 2 runs, 2 sessions, 1 prompt on its way, 1 queued, 1 unprocessed turn, 1 restart, 2 failures; 2.6M states | A run that ended or was paused stays so where that is recorded, until it is resumed or the file of another session, which still says active, is read; an active one is driven; a deadline is kept. |

Why the bounds are enough to be interesting: two requests beside the one in flight
are needed for a queue that is refilled while it drains, and a queue of one makes
every second push meet the limit; two racing resets reach every order of their two
awaits; two calls and two steering messages make a skip with a further message
behind it; three senders for two slots make one wait; five calls create two tasks,
delete one, and create again while the other is worked on; three calls on a key are a
creation, a removal and one more creation, in any overlap; six entries hold a turn with a
tool call, a compaction that splits it, and a turn after it; an unprocessed turn is judged
after commands, a restart or a change of session that followed it, and two sessions let a
run be started in one and stopped in the other (that two prompts at once are on their way to
the agent is left to the proof of `EndedStaysEnded`). In the bridge the limit
of a queue is not reached (a refused message changes no state there).
Every property is also broken by a mutant of the code, kept beside the definition it
changes and named in `PROJECT.json`.

`CHECK_DEADLOCK` is off: every system here comes to rest when its users do.

### Fairness

Weak fairness only, on what the runtime resumes by itself: a suspended activation
whose promise settled, an armed timer whose effect a property needs, a model or
`fetch` that ends its request, a process that is scheduled. Nothing obliges a user
to prompt, abort, reset, or steer. The gateway's sweep and the grind heartbeat are
intervals: they come round again as long as their guards hold; Grind bounds restarts,
after which the process lives on. TeamInbox also assumes that time passes (a lock
of a dead process gets old) and readers poll, as idle teammates do.

### What the properties leave open

- `EveryPromptReturns` speaks of callers that wait for each other, and of the prompts of
  a session as a whole. It exempts a retry whose run fails with an error that is not
  retried (finding 1) and a session that somebody compacts by hand; callers that do not wait
  share the retry promise, and its fate. An overflow is an outcome of theirs only.
- `ComesToRest` bounds recoveries and retries: the agent rests. That the callers return
  is the other property.
- `NeverDead`, `LossNeedsOverlap` and `UnusedIsReleased` exempt calls without a connection
  from what `stop()` does. A client that stays connected keeps `stop()` waiting.
- `HookSeesStored`, `OneWriter` and `IsTaskBoard` hold for a task until its lock is removed
  as stale while a process has it. Only a script is assumed to take as long as 30 seconds;
  the system calls of the other steps are not.
- `EndedStaysEnded` is about memory and about the session in which the end is recorded.

### Findings

1. `agent_session_retry`: a retry that fails with a non-retryable error is resolved
   by neither branch (`agent-session.ts:516`, `:540`), against `docs/rpc.md:813`.
2. `session_tree_compact`: a compaction that splits the only turn since the last one
   writes "No prior history." instead of the earlier summary (`compaction.ts:816`),
   against `docs/compaction.md:104`, `:106`.

Met while modelling and not shown by a run of their own. The properties exempt these
cases by name, or the model shows the code's behaviour without a claim about it.

*Loop and session.* `runLoop` is called in an async function nobody awaits
(`agent-loop.ts:37`): if `getApiKey` throws between two turns the event stream never
ends and prompt, abort and waitForIdle hang (`RunCompletes` exempts it). A steering
message after the last poll stays queued (`:206`, `:217`). `clearQueue()` also hands back
a message the loop has polled and not announced yet: it is delivered and restored to the
editor. What extensions queued goes without being handed back (`agent-session.ts:1380`).
`AgentSession.abort` does not stop a prompt that has not reached the agent yet
(`agent-session.ts:1476`), nor a retry between its sleep and its timer (`:2729`). A
retry counts as successful at the first reply that is no error, even one that asks for
tools (`:516`): `prompt()` returns while the run goes on, and an automatic compaction may
then replace the transcript while the next prompt's message is still in the event queue.
The same can happen after an overflow: the timer that repeats the run fires when
`prompt()` has returned, beside the next prompt.
A manual compaction that begins between a transient error and its processing can leave
the retry without its run, and the prompt hanging; what is prompted during one is neither
written nor retried (`:1830`). Bash results kept aside are flushed by the next prompt,
not "on agent_end" (`:2843`), and switching sessions clears neither them nor the event
queue (`:1510`, `:2915`).

*Session file.* A kill in the middle of an append glues the torn line to the next entry,
which is lost with it; one in the first flush leaves a file to which the entries are
appended again. A fork drops label entries but not the references to them
(`session-manager.ts:1236`), so that the path of the new session ends there. A restart
resumes at the last entry of the file, not at the leaf a navigation chose. Messages that
one compaction kept word for word are neither summarized nor kept by the next (`:674` of
`compaction.ts`).

*Gateway.* A reset of the primary session clears `processing` under a prompt that has
started meanwhile; the overlap can make a reset wait for ever, as the second run replaces
the promise it holds. Two first messages of a key create two sessions (`runtime.ts:439`),
a delete may remove the directory or the map entry of a session created meanwhile
(`:1599`), steering looks the key up twice (`:1421`), an SSE client that leaves before its
handler is registered leaks a listener (`:1313`), and `stop()` waits for open SSE
clients and not for messages without a connection, whose sessions it disposes while they run;
a session that such a message has created afterwards stays in the map (`runtime.ts:213`).
`sanitizeSessionKey` maps different keys to one directory (`session-manager.ts:5`).

*Bridge.* /new starts a second prompt of a sender beside the first (`bridge.ts:349`),
against `bridge.ts:4` "serializes per sender", and clears the queue of every adapter's
user with that id (`:341`); `stop()` resets the slot count under prompts in flight (`:90`).

*Teams.* The stale check and the removal of a lock are two system calls (`lock.ts:22`):
of two processes that see the same stale lock the second removes the fresh lock of the
first. `task_update` erases the status or the owner it was not given
(`extensions/index.ts:696`); `listTasks` reads files whose locks it does not hold and
throws on a torn one (`tasks.ts:189`); a process killed while it writes leaves a file that
is no JSON. The lock of a task whose completion script takes more than 30 seconds is removed
by whoever waits for it (`hooks.ts:36` sets no limit, `docs/reference.md` proposes test
suites and deployments): two processes then change the task at a time, and the end of the
script removes the other one's lock. A rejected plan goes back to `planning`
(`tasks.ts:155`), against `docs/reference.md:434` "Sets task status back to `in_progress`";
a deleted task's file is removed (`tasks.ts:76`), against `docs/reference.md:531` "Still
preserved in data history". TaskBoard says what the code does.

*Grind.* Messages from chats carry the source "extension" (`runtime.ts:507`), which the
input handler ignores (`clanker-grind/src/index.ts:382`): in the daemon they neither start
nor pause a run, although `README.md:10` says "Pauses automatically when the user sends a
normal prompt". Sessions the gateway creates get no `session_start` and so no heartbeat.
Follow-ups that a failed run left in the queue hold the heartbeat off. A new,
switched or forked session leaves the run in memory, whatever its own file says, and the
heartbeat goes on with it there; what becomes of the run is recorded there only, so that a run
stopped in one session (`clanker-grind/src/index.ts:348`) is active again when the session
it was started in is opened (`:367`). A turn_end is
applied to whatever run is active by then, and turns that only call tools, or that end in a
transient error, count as replies without a trailer: two of them block the run.

## 4. The proofs

Every theorem is of the form `Spec => []Inv`, `Spec => [][A]_vars` or
`Spec => AbstractSpec`, for every value of the constants, from the `ConstantsOK` of the
module alone (and `NoneIsNoTask` in TeamTasks: no task file is the marker for "no
file"; `TreeConstantsOK` says the same of the markers of SessionTree). For each module an
inductive `IInv`, a conjunction of named parts, was checked with TLC before it was proved;
`Init => IInv` and `IInv /\ [Next]_vars => IInv'` are proved with one step per action, and
the theorems follow from `Invariance`. Each module also has `TypeCorrect`,
`Spec => []TypeOK`. The proofs about SessionTree and Compaction are the second part of
AgentSession_proofs, whose file the tree is, and those about Grind the second part of
DurableRun_proofs; the names of these two modules are marked (`TreeSpec`, `TreeIInv`,
`GrindSpec`, `GrindIInv`), because one module extends both.

| module | theorem | property |
|---|---|---|
| GatewaySession_proofs | OnePlaceAlways | `OnePlace`: queue and promises agree |
| | NoneStranded | `NoStrandedRequest` |
| | OneAtATime | `SingleFlight`, on any session but the primary one |
| | AnsweredOnce | `SettledOnce`: a settled promise is never touched again |
| GatewayRegistry_proofs | MapHoldsTheLiving | `NeverDead`: the map holds no disposed session |
| | NothingLostAlone | `LossNeedsOverlap`: nothing is lost without overlapping calls or `stop()` |
| DurableRun_proofs | ReporterImplementsRelay | `ReportsToRelay`: the refinement of RunRelay |
| | NothingAfterFailure | `StopsAfterFailure` |
| | EndedRunsStay | `EndedStaysEnded` of Grind, in memory and where the end is recorded |
| AgentLoop_proofs | NoMessageLost | `QueuesConserved`: in order, at most once, none lost |
| | TranscriptsAlwaysAgree | `TranscriptsAgree` |
| | EveryCallAnswered | `CallsAnswered`, before the model is asked to go on |
| | FollowUpsAreHeld | `FollowUpsWait` |
| AgentSession_proofs | WhatIsDoneIsWritten | `DoneIsWritten`, through retries, aborts and compactions |
| | NobodyWaitsInVain | `WaitersHeld` |
| | NoRetryIsMissed | `RetryNotMissed`, when the session is undisturbed |
| | MemoryIsTheFile | `TranscriptKept`, when the session is undisturbed |
| | FileAgrees | `ReloadAgrees` of SessionTree, until a write is cut short |
| | NoOrphan | `NoOrphanResult` of SessionTree, also on what a torn file leaves |
| | FirstCompaction | `FirstCompactionComplete` of SessionTree, for every budget |
| ChatBridge_proofs | MessagesHaveOnePlace | `OnePlace`: waiting, in flight, answered or dropped |
| | SlotsAreKept | `SlotsKept`, until `stop()` |
| | OnePromptPerSession | `SerialPerSession` |
| | OrderOfAnswers | `AnsweredInOrder`, without /new and `stop()` |
| TeamInbox_proofs | LockExcludes | `OneInsideUntilKilled` |
| | InboxIsMailbox | `IsMailbox`: the refinement of Mailbox |
| TeamTasks_proofs | WritersExclude | `OneWriter`, under two kinds of lock, until a lock is removed |
| | HookIsTrue | `HookSeesStored`, however long the script, until its lock is removed |
| | FilesAreABoard | `IsTaskBoard`: the refinement of TaskBoard |

Why the properties are not inductive by themselves, and what is added:

- **GatewaySession.** `Push` leaves an entry behind whenever `processing` is set, so the
  flag itself must imply a frame (`QueueDriven`). `OneAtATime` needs `Serial`: flag,
  frames and reporter agree, and no call is in the stages from which the primary
  session's reset clears the flag. `primary` never changes (`PrimaryKept`).
- **GatewayRegistry.** A session that is created and not yet in the map is known to its
  creator only (`CreatorsOwn`), otherwise another call could dispose it before it is
  installed; an abort waits for a prompt of its own session whose run had begun
  (`AbortsWait`). A subscriber has its connection (`Listens`), so `stop()`, which alone
  stops sessions (`StopStops`), waits for it. For `LossNeedsOverlap` the stages of a lone
  call say what the map holds (`Alone`).
- **DurableRun.** What the relay has stored is the last snapshot of its log, and the
  posts of the chain are in order behind it; after a failure the chain posts nothing
  (`NothingAfter`), and a "completed" still to be posted has every event before it
  (`CompleteIsWhole`). The log's `Stored` and `Closed` are taken apart into the positions
  of its posts, so that a post that is appended changes one of them.
- **AgentLoop.** What a poll takes is pending at the begin of a turn only
  (`PendingAtTurn`), so each step appends to the conversation one part that is in no
  queue and one that was the front of a queue (`Conveys`): `KeptBy` is kept by
  such a step, whichever queue it is (`Conveyed`), and by the removal of a failed reply.
  The queues hold no messages of another kind (`QueueKinds`). The transcript and the
  events agree with the context because agent_end comes last (`EndIsLast`).
  `CallsAnswered` speaks of the request only; in between the last reply may be `Open`,
  with its first results in place, while all earlier ones are answered (`Sound`).
- **AgentSession.** A prompt that is not in the file yet waits for its own event, at a
  position it still owes (`Awaited`); that the position moves with the queue and the debt
  with it is `DueMoves`. What waits in a handler is the end of a run (`HandlerBusy`). An
  undisturbed session is `Calm`: one call at a time, no more events than those of one
  run, and the run, the sleep, the timer and the pending retry take turns in driving the
  same prompt (`OneRun`). `TranscriptKept` then changes in four ways only: a prompt
  runs, its message is processed, a shell result goes to both, a compaction reloads a
  file that nothing is missing from (`KeptPrompted` to `KeptReloaded`).
- **SessionTree.** Two entries of one id are one entry, and an entry is newer than its
  parent (`Tree`), so the climb of `PathOf` ends at a root or at a missing parent within
  `MaxEntries` steps (`PathFound`), and a chain of parents up to a root is the path of its
  last entry (`OnePath`). What the properties need is said of every such chain and not of
  the path to the leaf (`GoodChains`): a result follows a reply or a result with labels
  alone between them, a compaction keeps a part that does not begin with a result
  (`CleanCut`), and the first one of a chain covers what is before that part. In this form
  it is preserved where the leaf moves, where lines of the file are lost and where a fork
  drops labels, because a set of entries that shrinks has fewer chains (`TreeShrinks`,
  `ForkIsGood`), and for an entry that is appended it is enough to look at that entry
  (`GoodGrows`). That a cut of any size is clean is `CutIsClean`: the walk back from the
  budget's cut passes labels only; that the context inherits it is `AnswerSent`. For the
  file, the entries that can be read from it are entries in memory whatever was torn
  (`Held`), and until a write is cut short it is all of them or there is none (`FileOK`).
- **Grind.** A new run's number is above those of the runs in memory, in any file and of
  all that ended (`Known`), so what is set active is not one of the latter.
- **ChatBridge.** `Good` says it of queues, marks, frames and messages given as
  arguments, because one step of the code drains a queue and serves several senders:
  `BeginKeeps` takes the first messages of any set of idle senders, and `DrainedBound`
  says that those served are no more than the free slots: the waiting keys are told apart
  by how many are older (`MapOrdered`).
- **TeamInbox.** `TypeOK` needs `TriesLeft`, a process that tries has attempts left.
  Until a kill the lock file is there exactly while its writer is inside
  (`LockedInside`), what the writer read is what the file holds (`CopyIsFile`), and a
  sender that has not written is not in the file (`SendsOnce`).
- **TeamTasks.** `TypeOK` needs to know at which place of its call a process holds a
  copy (`Places`). The lock of the directory and the locks of the tasks exclude
  together, because a creation writes an id that no file has: `NextId` is above every
  id there is. The maximum of a set is reached by the least-number principle
  (`WFMin` on `Nat`), not by induction over the set. Once a lock was removed as stale
  everything is said of the other tasks (`LocksHeld`, `ReadStands`, `TornIsWritten` but for
  `lost`), and types have to hold for writers that race.

Only model-checked:

- Liveness, which is out of the provers' reach: `EveryRequestAnswered`,
  `DiscardCompletes`, `UnusedIsReleased`, `FinalizeReturns`, `RunCompletes`,
  `EveryMessageLeaves`, `LockRecovered`, `ActiveIsDriven`, `DeadlineIsKept`,
  `EveryPromptReturns`, `ComesToRest`.
- `SummariesAccumulate` and `RetryCompletes`, which the code violates.

Every safety property and every refinement that a run checks is proved.

## 5. Abstractions and what is missing

- Texts, formatting, logging, HTTP parsing, token counts: left out. Whether a context
  is too long or an error transient is a nondeterministic outcome.
- GatewayRegistry: one key; models, settings and webhooks are missing.
- AgentSession: session switching and an overflow reported without an error are missing.
  The transcript is compared for callers that wait for each other and nothing that is
  exempted above (an overflow is: its recovery runs from a timer after the prompt has
  returned). Replies with tools, bash and manual compaction occur only when callers
  wait for each other.
- SessionTree: entries without a message are represented by labels; migration of old
  files and listing are missing. Sizes count messages, not tokens.
- Grind: cues, trailers and times are nondeterministic outcomes; paused, done, blocked,
  expired and stopped are one status, which no handler tells apart;
  a prompt that fails for
  want of a model or a key is left out, and the list of pending messages shrinks when the
  agent takes one, not when the event is processed.
- AgentLoop: deltas of a reply, `reset()`. The session's list of queued messages shrinks when
  the agent takes one, not when the session has processed the event.
- ChatBridge: the path without a gateway, which the daemon meets only while shutting down.
- Teams: `teams.ts`, and `resetOwnerTasks`, which has no caller. TeamInbox sends one
  message per sender. A lock gets old only when its owner is dead.

- Not modelled, and why: the terminal input buffer (its matter is the characters of
  strings), the auth and settings files (their lock is an external library's), runtime
  memory (SQL and ranking), providers, terminal interface, package handling, tools and
  channel adapters (the environment of what is modelled).

## 6. What could follow

The modules of sections 2 and 3 are complete, and so are the proofs of their safety
properties. What is left is more of the program: session switching in AgentSession,
the terminal input buffer, and `settings.json` and `auth.json` under their lock.
