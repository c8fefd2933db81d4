# Verification of pi-agent: sessions, agent, harness, tools, credentials, RPC client, incremental review

This directory holds TLA+ models of the core of `src/pi-agent/packages`: what
TLC checks of them on small instances, and what TLAPS proves of them for every
instance. Paths below are relative to `src/pi-agent/packages`.

## 1. The system

A coding agent in TypeScript. A *loop* sends a transcript to a model provider,
runs the tools the answer asks for, and goes on until the model stops. Everything
runs on one event loop: the only concurrency is what happens between two awaits,
and the only thing that outlives the process is the session file.

| Component | State | Operations | Hard behaviour | What makes it correct |
|---|---|---|---|---|
| Session log: `agent/src/harness/session/jsonl-storage.ts`, `session.ts` | an append-only JSONL file; in memory the entries, `byId`, the leaf, the label cache | `append*`, `appendLabel`, `moveTo` (leaf move with an optional summary), `open`, `getPathToRoot` | three awaits inside one append and no lock; a write fails or tears; the process dies between line and index | the file never refers to a line that is not there; memory never runs ahead of the file; reopening gives the same tree; paths to the root end |
| Agent loop: `agent/src/agent-loop.ts` | the private context of a run, its tool batch | request, answer, tool calls (sequential or parallel), polls for steering and follow-up messages | tools finish in any order, aborts cut a batch, messages are injected between turns | a request never leaves a tool call open; results follow calls in order |
| Agent: `agent/src/agent.ts` | transcript, streaming message, pending tool calls, two queues, the active run | `prompt`, `continue`, `steer`, `followUp`, `clear*`, `abort`, `reset` | all of these at any moment of a run; listeners that throw | the request is the transcript; no message is lost, doubled or reordered; a run always ends |
| Harness: `agent/src/harness/agent-harness.ts` | phase, abort controller, run promise, three queues, put-off session writes | `prompt`/`skill`/`promptFromTemplate`, `steer`, `followUp`, `nextTurn`, `appendMessage` and the setters, `compact`, `navigateTree`, `abort`, `waitForIdle` | the phase is a lock that is released between awaits; flushes at save points; hooks that throw at every stage | one operation at a time; put-off writes are written once and in order; the session stays linear; every operation settles; `abort()` is a barrier |
| Incremental review: `resoft-agent-core/src/rules` | per file the last text, its hash and its issues | `reviewFile`, `reviewFileFull`, `resetFile`, `reset` | the result depends on the whole history of reviews; rules see a block, not the file | what a rule matches wherever it stands, and what one review was the last to change, has an issue |
| Agent session: `coding-agent/src/core/agent-session.ts` | retry and compaction state, put-off bash results, a mirror of the queues, next-turn messages | `prompt`, `steer`, `followUp`, `sendCustomMessage`, `clearQueue`, `abort`, `compact`, `recordBashResult`; retry and automatic compaction after a run | a run restarts after it failed; timers and compactions race messages; the transcript and the session change at different awaits | the transcript is what the session would give; every message is in one place; retries are bounded; `prompt()` settles |
| Session files: `coding-agent/src/core/session-manager.ts` | `fileEntries`, `byId`, leaf, label cache, `flushed`; the files | appends, labels, `branch`, `setSessionFile`, `newSession`, `createBranchedSession`, `forkFrom` | memory changes before the file; the first write is late; a write fails half way | a file mirrors its session or does not exist; one header; no line is lost; a fork has its labels and its context |
| Edit and write tools: `coding-agent/src/core/tools` | a queue per real path, the queue of registrations | `edit`, `write` | tools of one message run in parallel; two names of a file; aborts and failures | calls on one file exclude each other; no edit is lost; every call settles |
| Credentials: `coding-agent/src/core/auth-storage.ts` | `auth.json` under a lock file; per instance of the program a copy of it and `loadError` | `set`, `remove`, `reload` (synchronous, under the lock); `getApiKey`, which refreshes an expired token under an awaited lock | several instances; a lock that goes stale or stays behind; a token that is spent before its successor is stored; writes that empty the file first; a missing file; a link, which has two locks | a token is exchanged once, unless its successor was lost; no instance undoes what another has stored, with named exceptions |
| RPC client: `coding-agent/src/modes/rpc/rpc-client.ts` | the child process, `pendingRequests`, timers, `eventListeners` | `start`, `stop`, `send`, `onEvent`, `waitForIdle`, `collectEvents`; lines, exits and errors of the child | exits, timeouts and `stop()` race with answers; listeners remove themselves while they are called | no request and nobody who waits is forgotten |
| Settings, event streams: `coding-agent/src/core`, `ai/src/utils/event-stream.ts` | merged settings; producer and consumer queues | load and save; push, end, iterate | a file that changes on disk | not modelled, see section 7 |
| Providers, terminal UI, modes, extensions, examples | protocols, rendering, dynamic loading | | input and output | not modelled, see section 7 |

How they interact. `AgentHarness` and `Agent` both drive the loop of
`agent-loop.ts`: they give it functions to poll (`getSteeringMessages`,
`getFollowUpMessages`, `prepareNextTurn`) and handle the events it emits; the
loop awaits the handler of each event before it goes on. The harness persists
messages through `Session` into the session log while it handles
`message_end`. `AgentSession` does the same for `Agent`. The reviewer packages
(`resoft-*`) use the agent and, on their own, the incremental rule engine.

## 2. Modules

| Module | Models | Role |
|---|---|---|
| `SessionLog` | what a session log promises | abstract specification |
| `SessionStorage` | `jsonl-storage.ts` under the appends of `session.ts` | state machine; implements `SessionLog` |
| `SessionStorageProofs` | | inductive invariant, refinement, theorems |
| `Filter` | `filter()` on a sequence | operator of `SessionManager` and `AgentSession` |
| `FilterProofs` | | what a filter gives; least numbers, recursion over an interval |
| `SessionManager` | `session-manager.ts` | state machine |
| `SessionManagerProofs` | | what the walks over a session compute; inductive invariant, theorems |
| `FileMutationQueue` | `file-mutation-queue.ts`, `edit.ts`, `write.ts` | state machine |
| `AuthStorage` | `auth-storage.ts` | state machine |
| `RpcClient` | `rpc-client.ts` | state machine |
| `AgentLoop` | `agent-loop.ts` | actions without a `Next`; extended by the two modules below |
| `AgentLoopProofs` | | lemmas about the steps of the loop, for whoever drives it |
| `Agent` | `agent.ts` over the loop | state machine |
| `AgentProofs` | | requests, answered calls, pending calls, the end of a run, messages |
| `AgentHarness` | `agent-harness.ts` over the loop | state machine |
| `AgentHarnessProofs` | | types; the phase as a lock; `abort()` as a barrier; requests and the session; put-off writes; messages in one place |
| `AgentSession` | `agent-session.ts` over a reduced run of the agent | state machine |
| `AgentSessionProofs` | | messages in one place; the mirror of the queues |
| `IncrementalReview` | `diff-tracker.ts`, `incremental-engine.ts` | state machine and pure operators |
| `PartsProofs` | | both locks (file mutations, credentials); the RPC client; the review, whose line diff covers what changed |
| `PartsMC` | one behaviour per component | instance of the six independent components |
| `AgentMC`, `AgentSessionMC` | | two instances side by side in one run |
| other `*MC` | | symmetry sets and values of constants for TLC |

`PROJECT.json` maps every definition to the lines it stands for. Definitions
whose comment says *Mutant* are deliberate mistakes: each replaces one mapped
definition to show that a property notices.

### SessionStorage

One `append*` is the sequence `BeginAppend` (await of `createEntryId`),
`GetLeafId` (await of `getLeafId`), `AppendFile` or `AppendFileFails` (await of
`fs.appendFile`), `Commit` (the continuation that updates index, labels and
leaf). `MoveTo` enters at the write, because `setLeafId` awaits nothing before
it; with a summary it continues with `BranchSummary`. Writers are the callers
whose promises have not settled; their steps interleave freely. A write that fails
leaves nothing, a piece of its line, or the line without its newline (`CutOff`), and
one that dies may leave a piece; what is appended behind either joins it
(`garbled`). `Open` refuses a file that it cannot parse, as `loadJsonlStorage`
does, which does not miss a newline at the end. Ids: `generateEntryId` takes eight characters of a
uuidv7, which change every 65.5 seconds (`window`), unless `byId` has them.
`overlapped` is history: whether two appends have ever been under way at once.

`SessionLog` is the abstract side: a log that grows by lines that refer to
earlier ones, a view that shows only what is durable, and damage after which the
log is never opened again. The mapping is `log <- disk`, `shown <- entries`; an
`AppendFile` is a `Write`, a `Commit` a `Show`, and the steps inside an append
are stutters.

### SessionManager

Every operation is synchronous, so one call is one action. `Persist` is
`_persist` in its three cases: append, wait for an answer of the assistant, or
write everything with `"wx"`. A write is done, fails without a trace, or leaves
a piece; a line appended behind a piece is `Junk`, which the loader skips. A
`setSessionFile` whose rewrite fails leaves an open manager open, on the session it
was about to write.
`damaged` and `headless` are history: a write of the current session failed, and
`createBranchedSession` failed while it wrote.

### FileMutationQueue

A call registers (`ResolveKey` is the await of `realpath`, `Register` the rest),
waits for the promise before its own (`Enter`), and then does one file operation
per action. `Go` is `throwIfAborted`: the signal may be aborted at any moment but
is only looked at there, so that `Leave`, the `finally`, never comes while an
operation is under way. The content of a file is the set of calls whose change
is in it.

### AuthStorage

Instances of the program share one file. `set()`, `remove()` and `reload()` lock,
read, perhaps write and unlock in one synchronous stretch, so that each is one
step, and give up when the file is locked. A call of `getApiKey()` that finds its
token expired is a request, which goes through `locking`, `refreshing` (the
provider is asked), `answered` (the provider has exchanged the token),
`releasing` or `aborting`, and `failed` (the `catch` that reads the file again).
`TokenExchanged` and `SaveToken` are two steps: between them the answer may get
lost (`AnswerLost`), the process may die, and the file may be changed through a
link. A write empties the file first, so that one that fails or dies leaves an
empty file or a piece (`WriteCutOff`). `FindNoFile` and `CreateFile` are the two
halves of `ensureFileExists()`, which locks nothing; `linked` says that the file
is a symbolic link, of which `lockSync` locks the link and `lock` the target.
`LockLost` takes a lock that looks stale, `left` is a lock that a synchronous
method has left behind. A credential is a number given out once, so that a token
can be told from the one that replaced it. `stored`, `lost` and `mishap` are
history: the last change reported as stored, the spent tokens whose successor
never reached the file, and whether a lock was taken from a request at work, a
write was cut off, or the file was created over what another instance had stored.

### RpcClient

`process` is the child: none, live, exited, or exited and reported. `start` and
`stop` say where those calls are, `stdin` and `stdout` hold the requests and the
lines on their way. `HandleLine` settles a request or calls the listeners, and
`Reached` is what a `for` over an array visits while its members remove
themselves. `Settle` also clears the timer of what it settles.

### AgentLoop

`loop[r]` is the local state of one call of `runLoop`, `out[r]` the events it has
emitted and still awaits. An action is the code from one await to the next.
`agent_start` and `turn_start` of a run are one event; streaming updates change
no state here and are left out. What a provider answers, and what a tool or its
hooks decide, is a choice.

### Agent

`HandleEvent` is `processEvents` with `Reduce`; `PollSteering`, `PollFollowUps`
answer the loop from the queues, each in either queue mode at each poll (`Drains`).
`ListenerThrows` and `EndCallThrows` are the `catch` of `runWithLifecycle` and
`handleRunFailure`; a tool that a failed run did not wait for goes on. `sent`,
`cleared`, `dropped`, `rewritten` and `ended` are history.

### AgentHarness

`frame[r]` says where `prompt()`/`executeTurn()` of a run are: snapshot, next-turn
queue, `queue_update`, `before_agent_start`, running, reporting a failure,
finally. `step` says where `handleAgentEvent` is with the event at the head of
`out[r]`. A session append is two steps (`BeginAppend` reads the leaf,
`CommitAppend` writes). `HooksThrow` lets every hook and listener throw, also
while a failure is reported. `Overlap` says how careful the callers are: FALSE
means that an operation or an idle write starts only when the earlier ones have
settled; TRUE means as soon as the phase is idle, which is all the code asks
for. Simplified: a failing session write is modelled in `SessionStorage` only;
a compaction entry does not shorten `Branch`; tools that outlive a failed run
are not kept (they are in `Agent`); the calls of `abort()` come one after the
other; the messages that `before_agent_start` adds and the `context` hook, which
rewrites a request and not the session, are left out; `navigateTree` is not
modelled.

### AgentSession

`run` is one run of the agent, reduced to what the session can see: the messages
it delivers (three steps each: `MessageStart`, `MessageEnd` up to the await of
the extensions, `SaveMessage`), its polls, how its answers end, and its end.
`op[p]` says where a `prompt()` is: the check before the prompt is built, the
runs that check asked for, `before_agent_start`, running, the work after a run,
sleeping before a retry, preparing a compaction (awaiting the API key),
compacting, or about to continue. `manual` is the
`compact()` call. Public methods start when the session awaits something from
outside (`AtAwait`), never between two steps of one chain of promises; `steer()`
and `followUp()` do not look whether a run is active, and queue for a later one.
The setting for compactions and the model may change at any time, so that
`_checkCompaction` may ask for nothing where it could ask for something. Answers
are `stop`, `toolUse`, `retryable`, `overflow`, `silent` (an overflow that shows
only in the usage) or, after an abort, `aborted`. The session log is the branch
to the leaf; a compaction entry names the first entry it keeps. `cleared`,
`returned`, `unheard` and `failures` are history. `ClearQueue` is `clearQueue()` at any
await: it empties the mirror as well, which may show a message that the loop has
polled and not started yet. The caller gets that message back and the run sends it
all the same; `returned` has it until it starts.

### IncrementalReview

A text is a sequence of lines. A rule with a pattern is the set of texts in which
its expression finds a match: the code looks for it in the joined lines of a block
(`"gi"` without `"m"`), so that a match may go over several lines and an anchor
stands for an end of the block. `Hash` identifies texts that differ only in lines
of `Twins`, as the 32-bit hash does with `"Aa"` and `"BB"`. `ReviewFrom` is
`reviewFile` with the update of the snapshot and the counts. `together` is history:
the pairs of lines that the same review was the last to change.

## 3. Runs

| Run | Instance | Checks |
|---|---|---|
| `parts`, storage | 2 writers, 3 lines, 2 id windows, 1 label text | `DiskRefersBack`, `CommittedIsPersisted`, `LeafKnown`, `ImplementsSessionLog` for any interleaving; `ReopenRestores`, `PathsEnd`, `AppendContinuesBranch` while appends come one at a time |
| `parts`, manager | 2 files, 3 entries, writes fail | `FileMirrorsMemory`, `OneHeader`, `LinesSurvive`, `ForkKeepsLabels` |
| `parts`, queue | 3 calls, 1 file with 2 names, fair | `OneCallPerKey`, `EditsAreSerial`, `CallsSettle` |
| `parts`, credentials | 2 instances with a request each, a token and a key, 3 credentials in all; the file may be missing or a link | `TokensSpentOnce`, `ChangesAreKept` |
| `parts`, client | 2 requests, 1 waiter, 2 starts, 1 event | `NobodyForgotten` |
| `parts`, review | 1 file of up to 3 lines; rules that match a line, two lines in a row, and a line at the start of a block | `NoMissedViolation` |
| `agent` | 2 runs: with up to 2 calls, 1 message and listeners that throw; and with 1 call, 2 messages, with or without an earlier transcript; fair | `RequestIsTranscript`, `NothingLostOrDoubled`, `CallsAnswered`, `PendingCalls`, `EndIsLast`, `RunsEnd` |
| `harness` | 2 runs with a tool call each, 3 messages or writes | `EveryMessageOnce`, `DeferredWrittenOnce`, `TranscriptIsLinear`, `RequestIsSession`, `AbortIsBarrier` |
| `harness_live` | 2 runs, 1 compaction, 2 messages, hooks throw, fair | `PhaseGuardsTheLoop`, `OperationsSettle`, `AbortSettles` |
| `session` | 1 caller, 1 retry: with every kind of answer, in a new session or one that ended in an overflow; and with 2 messages, 2 extras (tools, bash, aborts, compactions) and answers that stop, call tools or fail; fair | `TranscriptIsSaved`, `EveryMessageOnce`, `MirrorIsFaithful`, `ResultsFollowCalls`, `FailuresBounded`, `PromptsSettle` |
| `harness_late_abort` | 1 run, 1 message | `AbortReachesTheRun` is violated |
| `harness_overlap` | 2 runs, 3 messages, callers overlap | `DeferredWrittenOnce` is violated |
| `session_recovery` | 1 prompt, 1 retry, an overflow | `RecoveryRetries` is violated |
| `session_fork` | 4 entries, writes that succeed | `ForkKeepsContext` is violated |
| `auth_login` | the credentials of `parts` | `LoginsAreStored` is violated |
| `rpc_idle` | 2 waiters, 1 request, 1 start, 1 event | `EveryWaiterHears` is violated |
| `review_carried` | 1 file of up to 2 lines | `CarriedIssuesUnchanged` is violated |

`parts` is one run over six components that share no state: `PartsMC` extends
them, chooses one of the six at the start and the others stay as they are, so that
their states add up. A property of one component says something of its own
behaviours only. Of the credentials it leaves out what `CredentialsBound` names:
mishaps after a new credential was given out, but for those of a request; what
follows a mishap, of which the two properties say nothing, but for an unreadable
file; and with a link to the file mishaps, locks left behind and changes of the
key. Of the storage it leaves out appends to a file that is already garbled
(`StorageBound`), which is never opened again. The theorems leave out none of these.
`agent` and `session` hold two instances each in the same way (`instance` in
`AgentMC` and `AgentSessionMC`). `EndIsLast` speaks of the instance whose
listeners do not throw, and only in the other may `PendingCalls` find a tool at
work when the agent is idle. `parts` and `harness_live` also check a type invariant.

**Bounds.** Every bound is a constant: `MaxEntries` lines appended or under way,
`MaxWindow` changes of the id prefix, `MaxTurns` turns that may ask for tools,
`MaxCalls` calls in a message, `MaxMessages` messages given by callers,
`MaxCompacts` compactions, `MaxLines` lines of a text, `MaxSessions` session
files, `MaxSent` messages sent to the session, `MaxExtras` tool calls, bash
results, aborts and compactions on demand together, `MaxIssued` credentials
(`Given` of them at the start), `MaxEvents` ends of a run and `MaxStarts` children
that the RPC client sees. They are just large enough
for the cases that matter: two writers and three lines give two overlapping
appends on top of an entry, a label or a move on either, and a move with a
summary (two lines) after an entry; two calls are the least for results out of
order and for a cut batch; two runs the least for something left over from the
first; two messages queued for an agent that resumes a transcript, or three for a
harness (a prompt and two queued ones), are the least for an order; three lines the least for two separate changed blocks; two session files
and three entries give a fork of a path with a label, and a restart on either
file; three calls of the tools are the least for a call that registers while one
leaves and one waits; one retry and one overflow recovery give every order in
which the two can follow each other; two instances with a token and one new one
are the least for two refreshes that race; two children are the least for an
answer, a timer or an exit that outlives the one it belongs to.

**Deadlock.** The runs of the state machines say `CHECK_DEADLOCK FALSE`: a
behaviour stops when the bounded callers have nothing more to say, and a session
file that was garbled stays closed. That nothing else gets stuck is what the
liveness properties say.

**Fairness.** `FairSpec` assumes weak fairness of the steps of each run and of
the continuations of `compact()`, `abort()` and idle writes, failures included:
an awaited provider, tool, hook, listener or write settles sooner or later, one
way or the other, and the event loop then runs the continuation. The same holds
of each call of the file tools, and of the run, the `prompt()` and the
`compact()` of `AgentSession`, whose retry timer fires; the run `session` assumes
it of these together (`GoesOn`), which is less and enough here. Nothing is
assumed of callers. This is what the runtime gives; a tool that never settles
is outside it.

**Symmetry.** Runs are symmetric model values in `harness`, which checks no
liveness. `agent`, which does, lets the first run start first (`InOrder`), which
leaves out no behaviour up to the names of the runs. The others use none.

## 4. What the runs show

*Session log.* At any moment, whatever overlaps, fails or crashes, a readable
file is a closed tree: this holds although nothing serialises appends, because a
parent is taken from the index and the index only holds lines that are in the
file. The rest needs one append at a time, which the harness and `AgentSession`
arrange by awaiting each. With two appends under way, both draw the same short
id when they start within 65.5 seconds, because `byId` learns an id only after
the write; the second has the first as its parent and so itself, and
`getPathToRoot` does not end. `PathsEnd` without its `~overlapped` fails in the
model in this way. Two more behaviours of a failed write are in the model: an append
that was reported as failed is there after reopening when only its newline is
missing, and the next append then joins its line, so that the file cannot be opened
any more.

*Session manager.* As long as writes succeed, a session is in its file or the
file does not exist, and reopening gives the same labels. When they fail, what
is in a file stays there, behind one header. Three behaviours are in the model
and no property forbids them. A first write that fails half way leaves a file
that every later `"wx"` refuses, so that each further append throws; so does a
manager whose `setSessionFile` failed. A
`createBranchedSession` that fails while it writes leaves a manager that appends
to a file without a header, which the loader then takes for empty; `OneHeader`
exempts it (`headless`). `branch()` is not persisted, so that after a restart the
leaf is the last line. The finding `session_fork`: label entries lie on the
path, `createBranchedSession` takes them out and leaves the entries below them
with a parent that is not in the new file. A conversation that was labelled and
then continued loses everything above the label when it is branched.

*File tools.* Calls with one key exclude each other whatever fails or is aborted,
and no call waits for ever. A file that does not exist yet is registered under
the path it was given; when that path leads through a link, later calls have
another key and run at the same time, in spite of the comment "Serialize file
mutation operations targeting the same file." `EditsAreSerial` is stated for the
other cases (`TwoKeys`).

*Agent.* The loop's copy of the context and the transcript agree at each request.
A listener that throws on `agent_end` makes the agent report a failure, with a
second `agent_end`; `EndIsLast` is therefore checked with listeners that do
not throw (the documentation asks them not to). `reset()` during a run leaves the
loop with its own context: the two properties about the transcript exempt it
(`rewritten`).

*Harness.* For callers that wait, no message is lost or doubled, the session is
linear, and every request is made of the persisted session, save points
included. Two findings are runs that end in a violation:
`abort()` before `before_agent_start` has settled aborts nothing
(`harness_late_abort`), and a `prompt()` from a listener of `agent_end`, when the
phase is already idle, overlaps the last flush and writes a put-off write twice
(`harness_overlap`). Two more behaviours are in the model and no property
forbids them: writes put off during `compact()`, and by a prompt that fails
early, stay pending while the harness is idle until some later run flushes them;
and a `before_agent_start` that throws loses the next-turn messages, while a
failing `queue_update` puts them back.

*Agent session.* For one `prompt()` at a time, the transcript is always what the
session would give, up to failed answers, which stay in the session on purpose;
nothing is lost or doubled; and however the provider fails, at most twice
`maxRetries + 1` requests are made for one prompt. The mirror shows what waits, but
for messages that `clearQueue()` has given back although a run has them already:
the user interface puts their text into the editor again, and the agent answers
them as well (`returned` exempts them in `MirrorIsFaithful`). The finding
`session_recovery`: retries and recoveries drop the failed answer from the
transcript, but a compaction rebuilds the transcript from the session, with the
answer of an earlier retry in it; only one is dropped again, the transcript ends
in an answer, and `agent.continue()` throws. Behaviours in the model that no
property forbids: `compact()` disconnects before it aborts, so that the last
messages of the aborted run are never saved and the mirror keeps what they took
from the queues (`unheard`); `abort()` returns while an automatic compaction is
under way, which then goes on; a `prompt()` made while a retry sleeps starts a
run, and the retry that wakes up in it throws; after an aborted answer messages
may be left in the queues, although a comment says that the loop drains them
before `agent_end`. A second caller would also flush bash results into a run
that streams, between a call and its result: `ResultsFollowCalls` fails with two
callers, which the interactive mode does not have.

*Credentials.* However many instances find a token expired, one of them exchanges
it and the others read what it has stored; what one instance stores for one
provider is undone by no other, crashes of lock holders included. What the code
does not promise is in the model, and the properties name it:

- a token that was exchanged is sent again when its successor did not reach the
  file: the answer was lost, the write failed, or the process died between
  `auth-storage.ts:438` and `:158` (`lost`);
- a write that fails or is cut off may leave an empty file, and with it no
  credential of any provider (`:113` empties the file before it writes);
- an instance that found no file writes `"{}"` over what another has stored since,
  because `ensureFileExists()` locks nothing;
- a lock may be taken from a request that is still at work;
- when the file is a link, a `set()` made while a request waits for its provider is
  undone by the answer. Tokens are safe there: `TokensSpentOnce` has no such
  exception.

The finding `auth_login`: `reload()` sets `loadError` also when it only failed to
get the lock, and `set()` then neither writes nor records anything, so that a login
made by an instance that started during a refresh of another is gone when it exits.

*RPC client.* Whatever becomes of the child, a request and a caller that waits
keep their timeout until they settle. `stop()` forgets requests without rejecting
them; they end with their timeout, up to 30 seconds later. The finding
`rpc_idle`: `handleLine` iterates over the array of listeners while
`waitForIdle` and `collectEvents` remove themselves from it, so that the listener
behind each of them misses `agent_end` and times out.

*Review.* Lines that a rule matches wherever they stand (`SureParts`), and that one
review was the last to change, have an issue of that rule in their file, at or
above the first of them, whatever was reviewed before. Matches of two other kinds
are missed, because a rule sees a block and not the file: one that joins a changed
line to an old one, as `SELECT\s+\*` can, and one that depends on the ends of the
text, as `^\t` and `,\s*$` of `team-config/rules/sql-rules.yaml` do: these match at
the ends of a block only, also in a full review. Without the condition that the
lines were changed together (`together`) TLC finds a violation. An issue is
carried over also from lines that changed (`review_carried`): it is never
resolved. Two texts with one hash are one text for the engine; the run has no
twins, and `NoMissedViolation` fails when a twin of a matching line does not
match.

## 5. What is proved

Every theorem holds for all values of the constants that satisfy the named
assumptions of its module (bounds are numbers, marks such as "no call" or "no
run" are not members of the sets they are told from, functions have their
types). The properties are those that TLC checks in section 3.

**Session storage** (`SessionStorageProofs`), for any interleaving of writers:

- `TypeCorrect`, `FileIsClosed`, `MemoryIsDurable`, `LeafIsKnown`: `TypeOK`,
  `DiskRefersBack`, `CommittedIsPersisted` and `LeafKnown` always hold;
- `StorageIsALog`: `ImplementsSessionLog`, the refinement of `SessionLog`.

The first four follow from `Inductive`, `Spec => []IndInv`. None of the last three is
inductive alone. A line that is written must refer to earlier lines: its parent
and target come from the draft, so `Strengthening` says that drafts refer to the
index; the index is part of the file by `CommittedIsPersisted`; for that to
survive a commit, a draft that waits for its commit must be in the file; and a
crash, which empties the index, must leave no draft behind. Each action has a
lemma; actions that only change a draft share `DraftStep`. The refinement uses
`IndInv` at both ends of a step: `AppendFileRefines` needs that drafts refer to
the index and the index to the file, `CommitRefines` that what is committed is
in the file; a failed write is a `Write` when its line
is whole and a `Tear` otherwise (`AppendFileFailsRefines`); the other actions are a
`Close`, a `Reopen` or a stutter (`NextRefines`). What every write does to the file,
whether it is cut off or not, is said once (`FileGrows`).

While appends come one at a time (`~overlapped`, a premise of the properties
themselves), also:

- `ReopeningRestores`: `ReopenRestores` always holds;
- `PathsToRootEnd`: `PathsEnd` always holds;
- `BranchContinues`: the action property `AppendContinuesBranch`.

They follow from `SerialInv`: one writer has a draft (`OneAtATime`), whose id is
new (`DraftsAreNew`) and whose parent is the leaf (`DraftsOnLeaf`); memory is the
file but for the draft that waits for its commit (`MemoryIsFile`); the label
cache kept by commits is the one a reload would build (`CacheIsRebuilt`); and
ids are unique, parents are known, and there is no cycle (`Trees`). That a path
ends is said without a recursion: no set of entries has all its parents in itself
(`NoCycle`), which survives a new entry below a known one (`TreeGrows`). That the
cache updated by a commit is the rebuilt one (`CacheGrows`) is about the last line of a
set of lines, which exists because an order of numbers has no infinite descent
(`HasMaximum`).

**Session files** (`SessionManagerProofs`, from `ManagerAssumption`: there is a
name for one session), for any entries and labels, and whichever writes fail or
break off:

- `FilesMirrorMemory`: `FileMirrorsMemory` always holds (entries and labels; the leaf
  is not in the file, see section 4);
- `FilesHaveOneHeader`: `OneHeader` always holds;
- `FilesKeepTheirLines`: the action property `LinesSurvive`;
- `ForksKeepLabels`: the action property `ForkKeepsLabels`.

They follow from `ManagerInvariant`, `ManagerSpec => []IndInv`. `FileMirrorsMemory`
speaks of the current session only, and any file may become the current one:
`FilesSound` says of every file what a loader finds in it (complete lines of
known kinds, a header first unless `headless`), and `FlushedBegan` that what
counts as flushed is in a file that has begun, on which the choice between the
three cases of `Persist` rests. Half of the module is about what the code
computes over sequences: a loader that skips garbled lines gives the
entries back (`OnlyAll`), the walk from a leaf to its root consists of entries of
the session (`BranchType`), the label of an entry is the one its last label
entry sets (`SetterIsLast`, `LabelAppended`), and a fork appends a label entry for each labelled
entry of its path, one after the other, and so has exactly their labels
(`OneMore`, `ForkedLabels`). `Only`, the filter over a session, is a recursive
function; that it has a value is proved once for all such functions
(`Recursion` in `FilterProofs`), and an induction over its steps is done with the
first step that would leave a set (`StaysIn`).

**File tools** (`PartsProofs`, from `QueueAssumption`):

- `CallsExclude`: `OneCallPerKey` always holds;
- `EditsSerial`: `EditsAreSerial` always holds.

Exclusion alone is not inductive: that a call may enter when the promise before
its own has settled is only right if that promise is the last one before it. The
inductive invariant orders the calls of a key by their registration
(`TicketsDiffer`): the queue of a key names the last (`QueueNamesLast`,
`QueueNamesActive`), a call that waits waits for the one right before it
(`WaitsForPrevious`), and a call that may run is the first (`FirstMayRun`,
`InsideMayRun`). Two calls inside would each be before the other
(`FirstIsAlone`). The delicate step is `Leave`: the successor becomes the first,
and the queue is forgotten only by the last. For edits, `SerialInv` adds that a
call with a key has the real path of its file or the name it was given while the
file was missing (`KeysAreReal`), and that only writes make directories; but for
the case that `TwoKeys` excepts, calls on one file then have one key
(`OneKeyPerFile`), and what a call has read stays in the file until it writes.

**Credentials** (`PartsProofs`, from `AuthAssumption`):

- `CredentialTypes`: `AuthTypeOK` always holds;
- `NoTokenSpentTwice`: `TokensSpentOnce` always holds;
- `NoChangeUndone`: `ChangesAreKept` always holds.

`AuthInv` says that every number in use was given out (`KnownTokens`) and, until a
mishap, `Sound`: a request that asks its provider or releases holds the lock
(`WorkersHoldTheLock`); of the tokens that are gone (spent, and not `lost`) the file
has only the one whose successor is on its way (`FileIsUnspent`), and so has what
the request has read (`ReadingIsUnspent`); its answer is new (`AnswerIsNew`); neither
file nor reading has a credential for two providers (`OneProviderEach`); and when the
file is no link, it is what was stored and what the request has read
(`ReadingIsFresh`). A step that leaves the file alone keeps all this when a new token
that is given up counts as lost (`FileKept`). What instances have in memory may be
stale and is in none of these: that they read the file again under the lock is what
the proof of `TakeLock` rests on.

**RPC client** (`PartsProofs`, from `ClientAssumption`: a command is not a
waiter):

- `NobodyIsForgotten`: the action property `NobodyForgotten`;
- `RequestsSettleOnce`: the action property `SettledOnce`, which no run checks: what
  a request was told is never changed by a later answer, timeout, exit or
  `stop()`.

Both rest on `ClientInv`: whoever has an armed timeout is still waiting, and a
request that the client remembers has its timeout armed. `stop()` breaks the
converse, it forgets requests and leaves their timeouts, and the proof shows
that this is enough.

**Review** (`PartsProofs`, from `ReviewAssumption`):

- `NoViolationIsMissed`: `NoMissedViolation` always holds, for any files, texts and
  rules, under `TwinsAlike`: a rule matches all of the texts that the hash cannot
  tell apart, or none. Without it the property is false: a text whose hash did
  not change is not looked at.

Lines that one review changed together lie in one block of changed lines: the
largest run around them is one that the diff reports and the engine checks
(`MaximalRun`: its ends are a least and a greatest one), and a rule that matches
them wherever they stand matches the block. Lines that did not change since were
changed together by an earlier review, whose issue of that rule is carried over.

**Agent loop** (`AgentLoopProofs`). Lemmas and no theorem about a specification,
since the loop has no `Next` of its own. `LoopStepShape`: the loop's records and
events keep their form (`LoopShape`). `LoopStepBatch`: the calls of a batch
pass through their states in order, and a batch is over when the loop leaves it
(`Batch`). `LoopStepSays`: a step adds to the context of a run exactly the messages
that it announces. They are stated of a step of the loop under any handling of
its events, so that `Agent` and `AgentHarness` can both use them.

**Agent** (`AgentProofs`). For any number of runs, turns, calls and messages,
whether or not listeners throw, and with every public method at any moment:

- `RequestsAreTheTranscript`: `RequestIsTranscript` always holds;
- `CallsAreAnswered`: `CallsAnswered` always holds;
- `PendingIsExact`: `PendingCallsExact` always holds (the run `agent` checks it of
  both instances as `PendingCalls`);
- `TheEndIsLast`: the action property `AgentEndIsLast` (checked as `EndIsLast`);
- `NothingIsLostOrDoubled`: `NothingLostOrDoubled` always holds.

All five rest on `Steady`: types, the shape and the batch of every loop, and who
may be at work at all (`Place`). On top of it:

- `Faithful` for the first: what a run has said is the transcript followed by the
  messages it still announces (`InStep`), also between the message that is
  injected or answered and the listener that hears of it; a request is made when
  nothing is left to announce (`Waits`).
- `Turned` for the second: from the end of a turn to the next request the last
  answer of the context has all its results behind it, and behind them only
  messages of users (`AnsweredAt`). It rests on `Batch`: a batch that was not cut
  has reported all of its calls.
- `Starts` and `Pending` for the third: the start of a call is announced alone and
  while nothing else of the batch is at work (`Order`, `OneBusy`), and what the
  agent shows is what is open and not still to be announced (`PendingOf`). That the
  announcement is alone is what makes a listener that throws harmless here: it
  never cuts off an announced call.
- `Unharmed` and `Over` for the third and the fourth, while listeners do not throw: a run does
  not fail and leaves no calls behind, and one that has announced its end is past
  its last turn and awaits nothing.
- `Delivered` for the last: the transcript, the messages that announced events
  still carry to it, the steering queue and the follow-up queue, one after the
  other, have every message given once and each kind in the order given, and with
  what was cleared and what a failed run dropped they have all of them.

**Harness** (`AgentHarnessProofs`). For any number of runs, turns, calls, messages and compactions,
whether or not hooks throw; all but the first take `~Overlap`, that an operation or
an idle write starts only when the earlier ones have settled:

- `HarnessTypeCorrect`: `TypeOK`, also when callers overlap;
- `PhaseIsALock`: `PhaseGuardsTheLoop`;
- `AbortWaitsForTheRun`: `AbortIsBarrier`;
- `RequestsAreTheSession`: `RequestIsSession`;
- `SessionIsOneLine`: `TranscriptIsLinear`;
- `DeferredWritesKept`: `DeferredWrittenOnce`;
- `MessagesOnce`: `EveryMessageOnce`, for hooks that do not throw;
- `NoMessageTwice`: `AtMostOnce`, for hooks that throw anywhere: a run that fails
  may lose what it had in its hands, and never doubles it.

`~Overlap` is needed: the run `harness_overlap` is a counterexample to
`DeferredWrittenOnce` without it, and without it two loops may be at work as
well. It is how a caller uses the harness that awaits every call (the runs
`harness` and `harness_live` are of that kind), and everything else, such as an `abort()`, a
steering message or a put-off write at any moment, stays free.

The invariants build on each other.

- `TypesInv`: the types and `RunShape`, which ties the stage of `prompt()`, the
  program counter of the loop and the state of the event handler together. That
  `Branch` has a value is shown too: it recurses along the parents, and each
  parent is older than its entry (`BranchIsSolution`).
- `Steady` adds the batch of the loop and `RunAppends`: a run has a session append
  under way only while it persists a message or flushes.
- `Locked`: one run has a loop and `runPromise` is its (`OneRun`); while its loop
  is not over the phase is `turn` (`InTurn`); a compaction has the phase for itself
  (`Compacting`); others append only when no run is live (`OthersAppend`); and
  what `abort()` waits for is the run it found (`Waiters`). `PhaseGuardsTheLoop`
  alone is not inductive, because the phase is given back before the run is over.
- `Lineal`: the log is a line and an append under way has its end as the parent
  (`Linear`); a loop that waits for its provider has had all its events
  handled (`Awaiting`); and `Faithful`: what a run has said, its context and what it
  is about to add, is the session followed by what it has still to announce
  (`InStep`). A request is made when nothing is left to announce, so that the
  context is the session.
- `Ordered`: results follow their calls, in the session and in the context of the
  run (`Follows`), and a result is appended by the handler of its event only
  (`PlainAppends`).
- `Deferred`: the put-off writes in the session and those in the queue, one after
  the other, are in the order in which they were made (`InLogOrder`,
  `LogThenQueue`, `InQueueOrder`), none is missing (`Kept`), and what a flush
  appends is the head of the queue (`AppendsHead`). The delicate step is the one
  between the append and the removal of the head: nobody else may append there,
  which is `Locked`.
- `Delivery` and `HandShape`: the numbers in the four queues, in the hands of the
  runs (drained messages, prompts, and announced messages that are not persisted
  yet), in the append of an idle write, in the session and with the caller of
  `abort()` are eight disjoint sets (`Whole`), which have every message unless hooks
  throw, and no queue, hand or session has a number twice (`Singly`). A step moves
  numbers from one set to another (`SpotsMove`), takes in a new one (`SpotsNew`), or
  loses some (`SpotsShrink`). What is persisted is the head of what is announced
  (`Faithful`), and what is flushed is the head of the queue (`Deferred`).

**Agent session** (`AgentSessionProofs`). For any number of `prompt()` calls at once,
messages, bash results, answers, retries, compactions and aborts:

- `SessionMessagesOnce`: `EveryMessageOnce` always holds;
- `MirrorTellsTheQueues`: `MirrorIsFaithful` always holds.

The run `session` has one caller; the theorem holds for several, who may reject each
other's prompts and continue runs that are not theirs. `Inv` has the types, what a
run and a call are at each stage (`Formed`), and two parts more:

- `Delivery`: the numbers that calls prepare, those kept for the next turn, in the
  two queues, on their way to the transcript, being saved, in the session and given
  back are eight disjoint sets (`Whole`) that have every message unless a compaction
  disconnected the session (`unheard`). The transcript has none of those that are
  still on their way (the first five). Most actions move numbers from one set to
  another (`ShiftKeeps`) or take in a new one (`EnteredKeeps`). Preparing calls
  have nothing in common with each other.
- `Fits`: neither the transcript nor the session has a message or a bash result
  twice, and a bash result that is held back is in neither. The delicate step is a
  compaction, which puts the transcript together anew from a summary, part of what
  was before it and what came after: it shows a part of the session in its order
  (`ContextTold`), and so nothing twice.

What happens after a run, a delay or a compaction is one of three (`GoesOn`): the call
ends, it builds its prompt, or it waits again. The lemmas `...Goes` show that of
`_checkCompaction` and `_handlePostAgentRun`, and `OpInv` that each keeps `Inv`.

For the mirror, `Faithful` adds two parts to `Inv`:

- `Marked`: only messages of `steer()` wait in the first queue, only messages of
  `followUp()` in the second, and neither in what a prompt prepares; else a message
  could be shown that no queue has;
- `Mirrored`: each half of the mirror is what is to be seen (`View`) of what the run
  has not started and of its queue, in this order. A poll moves messages from the
  queue to the run and nothing is seen of it. A message that starts is removed by
  its number, so the proof needs from `Inv` that no other waiting message has that
  number (`StartView`); that it is removed from the right half follows from it,
  too. `clearQueue()` empties the mirror while the run may keep messages: those are
  in `returned` (`ClearMirror`), and nothing else the run keeps is.

**Only model-checked.** `TranscriptIsSaved`, `ResultsFollowCalls` and
`FailuresBounded` of `AgentSession`. Liveness under fairness (`CallsSettle`,
`RunsEnd`, `OperationsSettle`, `AbortSettles`, `PromptsSettle`) stays with TLC,
because the prover does not reach it. Induction over data is out of its reach as well; where a
proof above needs one it uses a least or a last number (`HasMinimum`,
`HasMaximum`, `StaysIn`), and the recursion is a function over an interval of
numbers and not a `RECURSIVE` operator.

## 6. Plan

Each module comes with its MC instance and run, and a property is proved after TLC
has agreed.

1. *Done:* `SessionStorage`, `SessionLog`, `SessionManager`, `FileMutationQueue`,
   `AuthStorage`, `RpcClient`, `AgentLoop`, `Agent`, `AgentHarness`, `AgentSession`,
   `IncrementalReview`; the proofs of section 5.
2. Proofs: `ResultsFollowCalls`, `TranscriptIsSaved` and `FailuresBounded` of
   `AgentSession`, which take one caller.
3. `SessionManager` as a second implementation of `SessionLog` while no write
   fails; `SessionRepo` for the forks of the harness.
4. `navigateTree` and the setters of the harness; a compaction entry that cuts
   `Branch`. `AgentSession` over the full `Agent`, with listeners that throw.
5. Smaller components: `EventStream`, `StdinBuffer`.

Abstract specifications worth stating: the append-only log (storage), a mailbox
that delivers every message once (queues of agent and harness), a lock with
operations that settle (the phase).

## 7. Not modelled

Providers and network formats (any answer is allowed instead), rendering and
terminal input, the tools other than edit and write, settings and event streams, templates and
skills (text), package and extension loading (its effect is hooks that may throw),
the dashboard and the CI formats, generated model tables, examples and
documentation. `PROJECT.json`
lists each with its reason.
