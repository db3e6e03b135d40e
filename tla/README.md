# A verification project for ClaraVerse

TLA+ modules that model the parts of ClaraVerse whose correctness depends on
the order in which things happen, the TLC configurations that check them on
small instances, and TLAPS proofs of the most important results for instances
of any size. Three parts of the repository have such code: the Go backend
(`src/backend`), the chat page of the frontend (`src/frontend`), which keeps a
protocol with it, and the TypeScript packages of the Clara agent
(`src/clara-agent/packages`: `server`, `client`, `agent` and `coding-agent`).
File names below are short where they are unique; `PROJECT.json` has the full
paths, and under "map" the lines that each definition stands for.

## 1. The system

### Components, their state and operations

| Component | Code | State | Operations | What is hard |
| --- | --- | --- | --- | --- |
| **Crew cards and members** | `services/crew_service.go`, `models/crew.go`, `handlers/crew.go` | one MongoDB document per card (status, assignees, awaiting, running, parts, locks, revisions, schedule) and per member | create, edit, delete, queue, unqueue, approve, reject, pause, fire; claim and submit for the worker; the recurrence sweep | every method is one or more single-document updates; some read first and then write by `_id`; nothing is locked |
| **Crew worker** | `services/crew_worker.go` | the busy map, the slot channel, one goroutine per member at work | a tick every fifteen seconds: sweep, start passes, start coordinators | goroutines race with the user and with each other; a restart forgets them all |
| **Crew coordinator** | `services/crew_coordinator.go` | `splitLock` and `combineLock` on the card | split a card with several assignees into parts, combine their outputs | snapshots older than the lock they are worked under; locks that become stale |
| **Workflow engine** | `execution/engine.go` and the files beside it | per execution: block states, outputs, completed and failed sets, a semaphore, a mutex with a condition; in MongoDB the execution state document | execute, dispatch, iterate, checkpoint, resume | parallel blocks, nested waits, a cleanup that races with readers, crash and resumption |
| **Chat streaming and resume** | `services/chat_service.go`, `stream_buffer_service.go`, `connection_manager.go`, `handlers/websocket.go`; of the frontend `pages/Chat.tsx`, `services/websocketService.ts` | a buffer per conversation, a connection record with its channels; on the page what it waits for, its timers and its retries | ask, stream, stop, disconnect, resume, retry | closing a channel means two things; replay races with new output; both ends have time limits of their own |
| **Clara session server** | `packages/server` | connections with their handshake, live sessions with their runtime, sessions being opened, the broadcast queue | create, attach, detach, operate, terminate, dispose, broadcast, close | everything is between two awaits of somebody: opening, disposing, broadcasting and closing overlap |
| **Clara session client** | `packages/client` | leases, their count, the exclusive one, the promises of attach, detach and reconciliation, pending requests | acquire, release, dispose, reconnect, invalidate | the last lease goes while the next comes; answers that come after the break that made them void |
| **Clara agent session** | `packages/agent` (`agent.ts`, `agent-loop.ts`), `packages/coding-agent` (`core/agent-session.ts`) | the run and its loop, two queues kept twice, retry and recovery counters, the session file | prompt, steer, follow up, retry, compact, abort, clear, record a shell result | what is queued while a run ends, a retry sleeps or a compaction awaits |
| **Engine limits, retries, checks** | `execution/errors.go`, `concurrency.go`, `block_checker.go` | per execution: failure counts by error source | classify, back off, trip, reset | one breaker shared by parallel blocks |
| **Limiters and usage** | `middleware/execution_limiter.go`, `services/usage_limiter_service.go` | counters in memory and in Redis | check, acquire, release, reset when stale | check and increment are apart; stale slots are released twice |
| **MCP bridge** | `services/mcp_bridge_service.go`, `handlers/mcp_websocket.go` | connections per client and user, pending calls | register, call with a time limit, answer, disconnect | re-registration against the end of the old connection |
| **Workflow executions and schedules** | `services/scheduler_service.go`, `execution_service.go`, `routine_service.go` | cron entries, a Redis lock per schedule and minute, records | run on schedule or by trigger | the lock outlived by the run |
| **Provider health, memory model pool** | `health`, `services/memory_model_pool.go` | failure counts, cool-downs, a round-robin index | mark, skip, fall back | small, under one mutex |
| **Agent and block executors, tools** | `execution/*_executor.go`, `tools` | none that outlives a call | one long call each | I/O: to the engine and to Crew they are an outcome |
| **Accounts, providers, files, jobs** | `services`, `handlers`, `database`, `filecache`, `jobs` ... | MongoDB and MySQL rows, TTL caches | CRUD, periodic clean-up | little |
| **Rest of the frontend and of the Clara agent, CLI, docs site** | `src/frontend`, `src/clara-agent`, `src/cli`, `src/docs-site` | | | user interface, providers, a terminal editor, installers, text |

### How they interact

The user's requests reach Crew through `handlers/crew.go`. The worker's tick
polls the cards; a pass claims a card with a `findOneAndUpdate`, runs the agent
executor for up to eight minutes, and submits the output with two updates.
Passes and coordinators share one slot channel. Requests, passes, coordinators
and the sweep communicate through card documents only.

The engine is called by the websocket, the webhook and trigger handlers and the
scheduler, and at start-up by the orphan scan in `src/backend/cmd/server/main.go`.
Inside an execution the goroutines of the blocks share maps under two mutexes;
with the outside the engine shares the execution state document, written at
every checkpoint.

The chat page and the backend exchange messages over one websocket at a time. A
turn is a goroutine that writes to the connection it was started from; a page
that lost its connection opens another and asks for what it missed, which is read
from the buffer that the turn fills beside the connection.

A program that uses the Clara agent from outside holds leases of sessions in a
`PiClient`; the client sends requests over one connection to a `PiServer`, which
keeps one runtime per session in use and broadcasts snapshots. A runtime is an
agent session: the session prompts the agent, the agent's loop calls the model
and the tools and takes up what the user queued, and the session decides after
each run whether to retry, compact, continue or settle.

### What makes each part correct

* Crew: nothing ships that its owner did not look at; work in progress always
  comes back to a human; a member works on one thing at a time; a review
  starts when everybody was heard; dependencies come first.
* Engine: a block runs once, when its dependencies have completed, with their
  outputs in its inputs; an execution ends; what is behind a loop waits for its last
  item; what was checkpointed is durable before anybody reads it.
* Chat: what a turn says reaches the page, across a reconnection, and images reach it
  once; a page stops waiting.
* Session server: a session has one runtime, kept as long as somebody is attached or
  something runs and no longer; clients are told the truth about what they are
  attached to; every request is answered; a shutdown leaves nothing behind.
* Session client: exclusive means alone; the last to leave detaches and nobody else
  is detached; every acquisition ends.
* Agent session: a session that calls itself idle is idle; no text of the user is
  lost and what is queued is served; failures are given up on; who waits gets his turn.
* Limiters: never more than the limit, and no slot lost. Bridge: an answer reaches the
  call it belongs to.

`PROJECT.json` lists under "hazards" each place in the code where this could go
wrong, with the properties that would show it.

## 2. Plan

| | Modules | State |
| --- | --- | --- |
| 1 | `CrewBoard`, `CrewPipeline`, `MCCrew`: the card pipeline and the board it implements | done |
| 2 | `CrewPipelineProofs`, `CrewReviewProofs`: its types, its safety and the board it implements, for any instance | done |
| 3 | `WorkflowEngine`, `MCEngine`: one execution with crash and resumption | done, without retries |
| 4 | `WorkflowEngineProofs`: types for any workflow; dispatch and the end of loops for tidy workflows; cleanup and durability for workflows without loops | done |
| 5 | `ChatStream`, `MCChat`, `ChatStreamProofs`: a conversation on both sides of the websocket | done |
| 6 | `SessionServer`, `MCServer`, `SessionServerProofs`, `SessionRuntimeProofs`: the session server | done |
| 7 | `SessionClient`, `MCClient`, `SessionClientProofs`: leases, against what the server promises | done |
| 8 | `AgentSession`, `MCSession`, `AgentSessionProofs`: a session with its agent | done |
| 9 | `Limiters`: the per-user slots with their reset, the per-workflow limit | left |
| 10 | `McpBridge`; the schedule lock | left |
| 11 | `CrewScheduling`: candidate order and limit of `ClaimNextCard`; `RetryBreaker` | left |
| 12 | `Dataflow`: what a workflow promises, and `WorkflowEngine` shown to implement it | left |

Theorems still worth proving: `ConnectedIsVisible` and `NobodyLeftBehind` with loops, after finding what
they are true of; and the refinement of row 12.

## 3. Crew

### CrewPipeline and the code

`cards` is the cards collection and has the fields of `models.CrewCard` that
decide anything; texts, prompts and outputs are dropped. A revision is its
position in `Revisions`. `cycle` stands for the revisions since the last
combined deliverable, by author, which is what `runCombine` collects.
`legacy` records whether the document has the old `assigneeId` field: cards are
created without it, `UpdateDraft` writes it empty, and `FireMember` filters on it.

Processes have a `pc`:

* `handler`: a request that reads a card and then writes it by `_id` is two
  actions (`PromoteRead`/`PromoteWrite`, `ApproveRead`/`ApproveWrite`,
  `ChangesRead`/`ChangesWrite`). `FireMember` is three: the pull from the cards,
  the fallback to draft, the deletion of the member. Requests that are one
  conditional update (`CreateCard`, `UpdateDraft`, `DeleteCard`, `UnqueueCard`,
  `SetMemberStatus`) are one action. The recurrence sweep is the request of the
  actor `Tick` (`RequeueRead`, `RequeueWrite`, and `RetireRead`, `RetireWrite`
  for the cards of an archived project).
* `pass`: `StartPass` is what `tick` does for a member, `PassSlot` and
  `PassSaturated` the two arms of its `select`, `PickCandidate` and `NoCandidate`
  the search of `ClaimNextCard`, `ClaimCard` and `ClaimRaced` its
  `findOneAndUpdate`, `PassFail` and `PassLand` the first update of
  `SubmitOutput`, `PassFinish` its second.
* `coord`: `FindDue` and `TakeLock` are `handleSplits` and `handleCombines`,
  `CoordStart` the beginning and `SplitDone`, `SplitFail`, `CombineDone`,
  `CombineFail` the ends of `runSplit` and `runCombine`.

`Write(c, filter, r)` is an `UpdateOne`: it changes the document when the filter
matches and is no error otherwise.

Abstractions and what they assume:

* `LockExpires` needs the run that took the lock to have ended: it is cancelled
  after three or five minutes, and the lock is stale after ten.
* `Saturated` counts agent runs only: the `select` gives up after five seconds, and
  nothing else holds a slot that long.
* The tick does one thing at a time: it does not sweep between the `Find` and the
  updates of a scan.
* Updates of MongoDB succeed. A failing update is an error the code mostly logs and leaves
  (`SubmitOutput` after a run, the writes of a split or a combine), so a card may then stay
  in work with nobody to hand it in; this is not modelled.
* Token budgets are unlimited; assignees are read with their status in one step;
  candidates may be picked in any order (module 11 of the plan).
* A member pass that raced for a card reads the candidates again, where the code
  goes on with the ones it read.
* A done card whose owner is deciding nothing is swept in one read: between that read
  and the write a done card can only be deleted or retired.

`CrewBoard` says what the owner was promised: five columns and who moves what.

### Runs

| Run | Instance | Shows |
| --- | --- | --- |
| `crew_solo` | 2 members, 2 cards in a chain, one recurring, 2 slots, pauses | `TypeOK`; the pipeline implements the board (`BoardSpec`, with the refinement mapping in `CrewPipeline`); `ClaimsRespectDeps`; an output or a failure is felt by its own round only (`LandsInItsRound`) |
| `crew_faults` | 1 card, alone or as a team; pause, fire, recur, a crash anywhere | `NothingShipsUnseen`, `OneCardPerMember`, `CardsAtRest` |
| `crew_live` | 2 cards in a chain, alone or as a team, 1 slot, no faults | a card comes to review when every assignee was heard (`ReviewHasEveryPass`); `WorkComesBack`, `QueuedIsServed` |

The properties hold in the instances they are checked in, and the model shows why
not beyond them:

* With two requests for one card in flight, a late approval ships what nobody looked
  at: `ReviewCard` decides on what it read and writes by `_id` (`crew_service.go:844`;
  `crew.md:20` promises "Every output stops here for you. Approve, or reject with
  feedback."). `NothingShipsUnseen` is checked with one request at a time, and proved
  under that assumption.
* After a crash during a single-assignee run the card works for ever: the locks of the
  coordinator become stale, `running` does not (`crew_worker.go:104`; `models/crew.go:129`
  says of the lock "stale after 10 min so a crashed run never wedges the card").
  `WorkComesBack` is checked without crashes.
* The fallback of `FireMember` misses the cards that have no `assigneeId` field, which are
  most of them (`crew_service.go:342`; the comment at 327: "cards left with no assignees
  fall back to draft").
* `ReviewHasEveryPass` fails once the assignees of a card are edited between rounds, because
  `runSplit` and `runCombine` write by `_id` and nothing clears `parts`, and when a
  combine that fails ends after its card was sent back. `LandsInItsRound` fails for
  teams, where the pass of a teammate outlives a failed round; it is checked for cards of one
  assignee and one request at a time, and is not among the theorems.

*Bounds.* Two members, since every race is between two of them; two
cards, since a dependency relates two; `MaxRounds` 2, so that a
round meets the leftovers of an earlier one (1 in `crew_live`: what `ReviewHasEveryPass` says of
later rounds and of several coordinators is its theorem's); two passes, which is one more than a
slot; one crash, since a second finds no state that the first could not.
`Symmetry` exchanges goroutines of one kind, and is not used with liveness.

*Fairness.* Accepted requests complete, goroutines run and the ticker ticks
(weak fairness); a goroutine that waits for a slot gets it if slots keep
becoming free (strong fairness: a Go channel serves blocked senders in order).
Nothing is assumed of the user, of crashes, or of how a run ends.
`PromptSpec` lets nobody run between a worker's `Find` and its update, which are
milliseconds apart; where a property needs it, its run says so by its
SPECIFICATION.

## 4. The workflow engine

### WorkflowEngine and the code

One execution of one workflow. `workflow` is drawn from a set of workflows:
connections with their output ports, the kind of each block, how many items a
loop has, which blocks may fail, whether the state store may. A goroutine `<<b, k>>`
is the `k`-th started for block `b`; its `pc` follows `executeBlock`: `Acquire`
(semaphore and status), `Read` (inputs), `Lookup` (checkpoint), `Execute` or
`ExecuteFail`, `Store`, `Save` (checkpoint), `Complete` and `Cleanup`, or `Fail`.
`holder` is the goroutine that holds `completedMu`. `Complete` and `Cleanup`
are two steps under one lock because the dependents dispatched by the first
read outputs without it. A `for_each` keeps the lock through `NextItem`,
`RunBody`, `LoopDone` and gives it up in `Join` and `Settled`, its two waits.

`doc` is the execution state document. A checkpoint keeps the inputs it was made
of, which stand for their hash. `fired` counts calls of `executor.Execute` and
survives crashes: it is the outside world. `Crash`, `GoStale`, `Boot` and `Scan`
are the server's death, ninety seconds without heartbeat, the restart, and the one scan
for orphans that `main.go` makes.

Two conversions are modelled by what they do. A status transition that
`TransitionBlockStatus` does not allow leaves the status. And a list read back
from MongoDB is a `primitive.A`, on which the assertion `.([]any)` of the loop
fails: `NumItems` is zero for a loop served from its checkpoint.

Abstractions: retries are part of one `Execute`, which always ends, since every
block has a time limit; an output is the execution that made it, its branch and
its item; a list may have equal items, which a block that reads them cannot tell apart, as
the hash of its inputs cannot; the reset of a loop body and the deletions
of a cleanup are one step each, although a reader may run between two of them;
the statuses streamed to the client and the per-workflow limit are left out.

### Run

`engine_flow` checks seven workflows: a diamond with a side that may fail, a fork with a
tail, a row on a store that may fail, and loops of two items over a body of two blocks
in a row, over two bodies, and over a body with a side input, and one whose two items are equal; with
one crash anywhere.

| Property | For |
| --- | --- |
| `TypeOK`, `ExecutionEnds` | all of them |
| `OncePerStart` | blocks outside loops, of tidy workflows (`Tidy`): all of them |
| `ConnectedIsVisible`, `DurableBeforeNext`, `NobodyLeftBehind` | workflows without loops (`Unlooped`), the second with a store that does not fail |
| `DoneAfterEveryItem` | self-contained loops (`SelfContained`) of tidy workflows that are not interrupted: all loops of the run. It counts the different items |

`engine_done` finds `DoneFiresLast` **violated**, which is the same of every loop: "The "done" output
fires after all items are processed" (`for_each_executor.go:12`). A `for_each` is
in `completedBlocks` before it iterates (`engine.go:756`) and releases `completedMu` while an item
runs. A block behind its done port that also depends on another block is therefore dispatched by
that block, whose own dispatch asks only for completed dependencies (`engine.go:1019`): in the
middle of the loop, with one item for input, and once more when the loop is over.

The conditions are what the proofs (section 9) turned out to need. `Tidy`: two blocks are joined
once at most, nothing leads back into a loop, and what is behind a done port depends on the loop
alone. `SelfContained`: the body of the loop has no loop and depends on none but its own; what
the loop starts itself depends on no other block of the body; and if it waits for a block that
the loop does not wait for, it is the only one the loop starts.

Where the other conditions go, the code goes against its words:

* A body block that fails or is skipped makes its `for_each` wait for ever
  (`engine.go:904`; `engine.go:28` says that a block "broadcasts completion so dependent
  blocks can proceed"). The loops of the run have bodies that do not fail.
* A resumed loop iterates over nothing and reports success: its list comes back from
  MongoDB as a `primitive.A`, on which `.([]any)` fails (`engine.go:763`).
* The input hash of a block covers all completed outputs (`engine.go:505`), so a checkpointed
  block is executed again when parallel blocks completed in another order before
  the crash (`state_store.go:32`: "execution runs at most once even across crashes + retries").
* The output of a block outside a loop that feeds its body is dropped after the first
  iteration (`engine.go:1043-1062`), and the second reads nothing.
* A block that the loop starts itself and that also depends on another block of the body runs
  twice per item (`engine.go:820`: "Run loop_body subgraph once per item"): the loop does not ask
  for dependencies inside the body (`engine.go:866`), and the other block's dispatch starts it
  again. The same happens when the loop starts several blocks and a block outside of it, for which
  one of them waits, completes meanwhile. `SelfContained` excludes both.
* Two equal items of a list give a block of the body the same input hash: the list, the item and
  what the body has made of it are the same, and the hash is of the essential keys, among which no
  index is (`engine.go:387-442`, `838-863`). If the checkpoint of the block is in
  the store, the second item is served from it and the block does not run ("Run loop_body
  subgraph once per item", `engine.go:820`). So `DoneAfterEveryItem` promises an execution for each
  different item, which is all that holds; `Twice` is the workflow in which it matters.
* Two connections between the same two blocks dispatch the second one twice. In the body of a
  loop, the second goroutine may come so late that it finds the checkpoint of its own item and
  ends in the next one, which is then one block short when the loop goes on: with a body of two
  blocks joined twice, TLC finds the done port firing too early. `Tidy` excludes double connections.
* A server that comes back within ninety seconds does not resume what it interrupted: the
  scan for orphans is made once (`main.go:514`).

*Bounds.* Four blocks hold a diamond, a fork with a tail, and a loop with a two-block body
and a done block, which are the shapes in which dependencies race. `MaxParallel`
is 2: one slot less than the goroutines that can be ready, and one more than the loops,
each of which keeps its own. `MaxRuns` is 2, the number of items of a loop; where it
would be short, `Room` stops the execution and `ExecutionEnds` fails. One crash, since a
resumed execution differs from a first one only by its checkpoints.

*Fairness.* Some goroutine takes a step while one can, an execution whose
goroutines have ended is reported, and a server that is down comes back. This
is less than Go grants to each goroutine; it is enough because an execution
takes finitely many steps.

## 5. The chat

### ChatStream and the code

One conversation. `page` is `Chat.tsx` with its `WebSocketService`: what it waits for
(`loading`, `message`), whether the stream is tracked for a resume, the timer of
`requestStreamResume` (`timer`, and `ghosts` for timers that a later resume left running),
messages queued while there is no connection (`pending`), and the retries it has scheduled. `conn` is
a `UserConnection` with what is on its way in both directions; `alive` is what the network
knows and `state` what the connection manager knows, so between `Break` and `Removed` the server
writes into the void. `turn` is `StreamChatCompletion` with `processStream`, the tool rounds and
the fallback. `buffer` is the `StreamBuffer`.

* Server: `HandleChat`, `HandleStop`, `HandleResume`, `Replay` are `readLoop` with its handlers; the
  resume is two actions, because the buffer is read, replayed, and then cleared or marked. `Line` is a line of
  the stream with the `select` on `StopChan` before it, which is also what a closed channel
  looks like. `Sends` is an unguarded send to `WriteChan`: when the disconnect closed it, it panics, and
  outside the goroutine that recovers the server restarts without its memory (`Crash`).
* Page: `Ask`, `SendOff`, `Stop`, `Hear` (with `Heard` for the kinds of message), `Closed`, `Connect`,
  `Retry`, `ResumeTimesOut`.

Abstractions: a chunk is its number in the answer; reasoning, titles and usage are not
modelled; an answer to a resume that is on its way comes within the five seconds of the page's
timer, and a retry is made after what was on its way has come; the page asks the same
question again and the chunks of both turns are not told apart; channels are
never full.

### Run

`chat_turns`: one question, asked again once, an answer of one chunk, one round of
tools, one image, and one mishap, which is a connection that breaks, a provider that fails, a stop, or a
malformed answer. It checks `TypeOK`, `ImageComesOnce`, `NothingSaidIsMissed`, and under fairness
`WaitEnds`. The bounds are small because each mishap multiplies the ways in which turns, replays and
timers overlap; each property is broken within them by a plausible change of the code (the mutants).

`WaitEnds` excepts one case (`"late"`): a page that resumes a stream which is still
running. The handler promises "Stream still in progress - update connection ID so
new chunks go to this connection", but nothing sends the stream to the new connection: the
turn meets the closed channel of the old one, clears the buffer and ends without a word, and
the page, whose resume was answered, waits for ever. `NothingSaidIsMissed` excepts two turns
at once (`"two"`), which share the buffer, and says no more of a buffer that is full than that it
ends in the first chunks of the turn. A full buffer need not be one that this turn filled:
a completed buffer is kept when it was delivered live, and the next turn goes on behind what it
finds there. (That the buffer holds the first `MaxKept` chunks of the turn is false for this
reason, which the proof of it showed and no run with a single question could.) Other things that
reading and modelling this code showed, without a property:

* an image is buffered when it cannot be sent, "this ensures users don't lose generated images"
  (`chat_service.go:3387`), and the buffer is cleared at the end of the same round (2791);
* a disconnect is taken for a stop, so the buffer for the page that comes back is cleared;
* a stop that comes when nothing streams stays in the channel and ends the next turn;
* a stream that breaks off is told as an end, which resets the retry budget, and then as two errors, which
  makes two retries at once: one that always breaks off is asked for again without end;
* the error for a model that refuses tools makes the page ask again while the turn goes on without them;
* a question that was queued while disconnected is sent at the reconnection, and then
  the resume of it is missed, so it is asked twice;
* a resume appends to the page what the page already had.

*Fairness.* Goroutines run, requests to providers and tools end (they have time limits), and the event loop
of the page hears, reconnects and lets its timers fire. Users, faults and the cleanup of
buffers owe nothing.

## 6. The session server

### SessionServer and the code

The server is a single thread, so an action is what runs between two awaits. A request is a process: its `pc`
follows `executeCommand` through `LiveSessionManager.acquire` (`AcquireTurn` is one turn of its
loop: attach to what is live, wait for a disposal or for another's opening, or open),
`create` (`Opened`, `Register`, `Discarded`), `attach`, `detach` and `runOperation`. `runtime` is a runtime of the backend with
its `LiveSession`; `Tidied` is `maybeDispose` up to its first await, and `Dispose` what comes after.
A runtime that did not come to use, because the server closes or its first snapshot fails, is
held while its disposal is awaited (`discard`), as in `sessions.ts:218-220`. When a snapshot fails, an attachment is not told
(`AttachedUntold`), a detach ends before its `maybeDispose` and its broadcast (`DetachingUntold`: the throw at `sessions.ts:87`
skips 89 and 91), and a broadcast leaves out who was still to come (`BroadcastFails`).
`terminate` is `RuntimeError` and `Terminate`; the connections it closes are disconnected together,
as are those of `Close`, `CloseConnections`, `CloseSessions`, `Closed`. `Broadcast` and `Send` are `performBroadcast`,
which makes the list of each client when it sends it. `Hello`, `HelloListed`, `HelloSent`, `CatchUp` are the
handshake with its check of the revision.

`TaskIsOver` keeps events from outside away while a promise that is settled has a continuation to
run: microtasks come first. The backend (external) keeps the lock of a session until its
runtime is disposed. A client's view is the last snapshot it was sent.

### Runs

| Run | Instance | Shows |
| --- | --- | --- |
| `server_share` | 2 connections from before their handshake, 1 session, 2 requests in flight, 1 runtime; errors of the runtime and the shutdown | `TypeOK`, `AttachmentsTold`, `NoIdleRuntime`, `NothingLeftBehind`, `NeverLockedOut`, `TurnsAreKept` |
| `server_live` | the same after the handshake; the backend may refuse, or have no snapshot | `EveryRequestIsAnswered` |

*Bounds.* Two connections and two requests are what sharing, and attaching against
detaching, take; one session, since sessions share nothing but the broadcast; one runtime slot is
used again when it is disposed and nobody refers to it.

*Fairness.* Every promise of the model is settled: the backend answers, sends are written or fail, disposals
end, and turns end (one that hangs is aborted by its user).

`NothingLeftBehind` says what `close()` leaves when it resolves: nothing is live, and no runtime is held, with one
exception that the code has. `close()` waits for the openings it lists (`sessions.ts:160`). A request that waited for a disposal
(198-207) may begin its opening after that; the backend's runtime is then handed out when `close()` is over, and is
held until its disposal (218-220) ends. The property allows such a runtime only to a request that `close()` did not
wait for and that is disposing of it. `AttachmentsTold` is for runs in which no snapshot fails.

Two places where the code promises more than it does have no run: `attach()` of
a second client joins a session that began to be disposed during its await (`sessions.ts:309`; a client is then told
it is attached to nothing, which `AttachmentsTold` accepts), and `performBroadcast` returns before it counts a
revision when nobody is ready (`snapshots.ts:54`), so a change during the handshake of the only
client is not noticed by the check of the revision; the next broadcast tells it.

## 7. The session client

### SessionClient and the code

One session and the leases of it. A promise is the number of its request, and what waits for it is the
`pc` of a lease: an acquisition waits for the detach under way (`awaitDetach`), for a
reconciliation (`reconciling`, `reconciled`), for the attach (`attaching`); a lease that is given back
for its detach (`releasing`). `registry` is the set of maps of `PiClient` for the session,
`Released` and `Invalidated` the two methods that change the count. `Acquire`, `AfterDetach`, `AfterReconciliation`,
`AfterAttach` are `acquireSession` between its awaits; `Release` and `AfterRelease` are `release()`. `Break` is what
`Connection` and `ClientState` do at a disconnect or `dispose()`. The server is what
`SessionServer` promises, over a connection that keeps the order: it does a request or refuses it, answers,
announces and removes (`Serve`, `Respond`, `Announce`, `Remove`).

A message in one chunk with an earlier one is handled before those who waited for the earlier one go on: that is
the fault `"chunk"`, and `crossed` remembers it and a removal that met a lease in transit.

### Run

`client_leases`: two leases of any mode, four requests, two invalidations, all faults. It checks `TypeOK`,
`ExclusiveIsAlone`, `NobodyIsCutOff`, `CountIsHeld` and, under fairness, `AcquisitionsEnd`.

`ExclusiveIsAlone` and `NobodyIsCutOff` are for what `crossed` did not meet: the generation of a lease is
read when its attach has ended (`client.ts:211`), so a `session_removed` between the answer and that
moment invalidates the count and not the lease, and two exclusive leases can be active
(`client/README.md:30` promises the opposite). `CountIsHeld` and `AcquisitionsEnd` hold with it.

*Bounds.* Two leases are the last that leaves and the next that comes. Four requests are an
attach, a detach, and both again after a break; `AcquisitionsEnd` excepts behaviours that have used
them up. One announcement in flight is enough to say something outdated.

*Fairness.* The server answers, the connection delivers, promises that are settled are followed by
those who wait. Nobody has to reconnect.

## 8. The agent session

### AgentSession and the code

`prompt[p]` is a call of `prompt()` with its `_runAgentPrompt`: preparation (`preflight`), the run of the agent
(`running`, with `loop` for `runLoop` in `agent-loop.ts`), `_handlePostAgentRun` (`RunEnds`, `Rest`: a retry that
sleeps, a compaction for an overflow, for a context that is full, or past a threshold, or what is queued),
`agent.continue()` (`Continue`), and the end (`Settle`, `Settled`). `_handleAgentEvent` is part of the actions that emit its
events: `Inject` for a message of the user, `Reply` for one of the model, `ToolResult`. The queues are
kept twice, as in the code: in the agent, and in the lists the user sees. `Aborted` is
`abort()` up to its wait; `Compact` is `compact()` by hand, which stops listening before it aborts.

A text is its number, in the order in which the user said them. Of the transcript the model keeps with
how many assistant messages it ends (`trail`), which is what `continue()` looks at. Extensions and their messages, models,
the tree of branches, failing listeners or disks, calls of `compact()` that overlap, and an answer that ends for
length with tool calls in it are left out.

### Runs

| Run | Instance | Shows |
| --- | --- | --- |
| `session_runs` | one prompt at a time, three texts, one retry, four answers that do not end well, tools, compactions, aborts, shell results | `TypeOK`, `IdleIsIdle`, `NothingSaidIsLost`, `EverythingQueuedIsServed`, `QueuesAreShown`, `GivesUp` |
| `session_live` | two prompts that may overlap, with a compaction by hand | `RunsSettle` |
| `session_continue` | as `session_runs` | **violated** `ContinuesWhenItCan` |

The violation is a finding: after a compaction that recovers from an overflow the messages are rebuilt from the session
file and one last message is taken off, only when it is an error. When the file ends with a second failed answer, or with
one that ended for length, `agent.continue()` throws instead of repeating the request
(`agent-session.ts:2187`), although the recovery removed the message before (2004: "we don't want it in context
for the retry").

`user.crossed` marks what the properties except: prompts that overlap, and a compaction by hand that breaks a run
off. Of these the code's own words are wrong, too: with overlapping prompts `isIdle` and `isStreaming` can
say idle while a run is under way (comment at 880), and `compact()` disconnects first, so that messages which are
drained or aborted meanwhile are never written and the counter of retries is left over. Also, `clearQueue` between the moment
a text is drained and its `message_start` hands back a text that is sent as well, which is why
`NothingSaidIsLost` does not say that a text has only one place; and a retry that is cancelled with a
follow-up queued repeats the request at once.

*Bounds.* Three texts are a prompt and one in each queue, or two in one; four bad answers are a retry, an overflow, and both
again, which is where `GivesUp` is tight; one shell result, two tool calls.

*Fairness.* Delays, requests to the model (aborted ones soon), tools, compactions and extensions end. Nobody has to say anything.

## 9. What is proved

The theorems about Crew hold for every value of the constants that satisfies
`ConstantsAssumption`: any number of members, cards, requests, passes,
coordinators, slots, rounds and crashes.

* `TypeCorrect` (`CrewPipelineProofs`): `Spec => []TypeOK`.
* `OneCardPerMemberHolds`: `Spec => []OneCardPerMember`. The property is not
  inductive alone: that a goroutine's member is in `busy` must be carried along
  (`BusyInv`). A tick starts a pass only for a member outside `busy`, and a goroutine
  takes out only its own member when it ends, which no other pass has.
* `CardsAtRestHolds`: `Spec => []CardsAtRest`. The strengthening says that what a
  request computed and has not written yet is as clean as what it will write
  (`Rest`): who awaits a card and who runs it stay disjoint because the late
  write of a promotion or a rejection clears `running`.
* `NothingShipsUnseenHolds` (`CrewReviewProofs`): under the assumption that at most
  one request is in flight (`OneRequest`), `Spec => []NothingShipsUnseen`. The invariant
  `ShipInv` relates three things: an approval in flight carries the
  latest revision of a card that is still under review; a done card is
  approved at its latest revision; and nobody but that one request moves a card out of
  review. Steps that do not write a card are handled once, by the relation
  `Background`. Section 3 says what happens without it.

* `PipelineIsBoard`: `Spec => BoardSpec`, the refinement of `CrewBoard`, when every card
  has at most one assignee (`Solo`), requests come one at a time and nobody is fired
  (`NobodyFired`), as in `crew_solo`. `SoloInv` says what the mapping needs: a pass that
  runs is the one its card counts, so the card is in work until it lands; a pass that
  hands in has brought an output that was not approved; a request waits for a card that is
  as it was read; and the coordinators have nothing to do. Each step is then a move
  of one card or none (`Moves`), and `BoardMove` turns moves into steps of the
  board.
* `ClaimsRespectDepsHolds`: `Spec => ClaimsRespectDeps` under the same assumptions, when no
  card that another waits for recurs (`NoRecurringDeps`): what is done stays done but
  for the calendar (`DoneStays`), so what a worker found before the claim is still true at
  the claim. `PromptClaimsRespectDeps` needs no such assumption, and instead that nobody
  comes between the search and the claim: `PromptSpec => ClaimsRespectDeps`, with the invariant
  `PromptInv` that one search at a time is pending and what it found is true.
* `ReviewHasEveryPassHolds`: `PromptSpec => []ReviewHasEveryPass` for one team whose members
  are neither paused nor fired (`OneTeam`, `NobodyRests`) and one request at a time.
  This needs the most: in `TeamInv`, a card in work has parts and a card that is split has
  none, so that a split and a combine, or a split and a pass, never meet on a card
  (`TeamLead`); a coordinator at work holds its lock, and so has its card for itself; while a
  combine runs, its card stays in work with nobody awaited, because the passes that still run
  are counted by the card (`TeamPass`), also those of a round that failed, whose
  members the next round awaits again. `Keeps`, `KeepsLead` and `KeepsColumn` say
  what the others need of a step, and every action is shown to keep that.

The theorems about the engine hold for every value of the constants that satisfies
`EngineAssumption`: any finite set of blocks, any set of workflows over them (cycles
included), any capacity of the semaphore, any number of crashes.

* `EngineTypeCorrect` (`WorkflowEngineProofs`): `Spec => []TypeOK`, loops included.
* `OncePerStartHolds`: `Spec => []OncePerStart`, loops included, with no assumption but the
  property's own: the workflow is `Tidy` and the block in no loop.
* `DoneAfterEveryItemHolds`: `Spec => []DoneAfterEveryItem`, for any list of items and any
  shape of body: every block of the body has run as often as there are different items. Again there is no assumption but the property's own: `Tidy`, a loop
  that is `SelfContained` and in no other loop, and no crash.
* `StartsWhenReadyHolds`, `ConnectedIsVisibleHolds`, `DurableBeforeNextHolds`:
  `Spec => []StartsWhenReady` and so on, for workflows without `for_each` in which two blocks
  are joined by at most one connection (`SimpleFlows`; the first three workflows of
  `engine_flow` are such). No run checks `StartsWhenReady`, that a goroutine is started for a
  block when all the block depends on has completed: `DurableBeforeNext` rests on it.
* `NobodyLeftBehindHolds`: the same with a store that does not fail (`ReliableStore`),
  since the property looks up the branch that was taken in the store.

The last four are not inductive alone, and they need each other, so one invariant,
`FlowInv`, carries them. Its heart is `TurnCame`, that a block which was started
has all its dependencies in `completed`, with `OverWhenDone`, that the block of a live
goroutine is not in `completed`. Together they say that nothing which depends on a
live block was started: so the completion that dispatches a block is the first; the outputs it is going to read cannot have been dropped, since it
is itself a consumer that has not run (`Kept`, `Visible`); and a checkpoint is
overwritten only while nobody downstream has read the output it replaces (`Agrees`).
`NobodyForgotten` adds the converse of dispatch: a block whose dependencies
have completed and that was not started is behind a branch. The steps of a goroutine from
the semaphore to the checkpoint touch nothing but its own block, and are handled once
(`Executing`). The assumption on connections is needed: a block joined twice is
dispatched twice.

With loops, blocks are dispatched again in each iteration and taken out of `completed` before it, so
`TurnCame` holds no longer of a body. `OnceInv` says the same of the blocks in no loop: what
they depend on is in no loop either (`OutsideLoops`), a loop has every done block for itself,
and so nothing that iterates disturbs them. `OuterDone` adds that nothing behind the done port of
a loop has started before the loop is over. Both rest on what holds of any workflow
(`GoroutineInv`): the goroutines of a block are numbered as they start, and who cleans up or
starts an item holds `completedMu`.

For the iterations, `LoopInv` says of each such loop that it is `Over` or `Iterates`. While it
iterates, the goroutines that live in its body are all of the current item (`Quiet`), a block of the
body has one of them at most (`OneAtATime`), and what the loop has still to start has neither
started nor completed in this item (`Todo`). So every block of the body has been executed at
least as often as there are different items before the current one (`Different`, `Earlier`), and up to
the current one if it is in `completed` (`Current`). A goroutine of the body may be served the
result of an earlier item from its checkpoint, but only of an equal one, which counts once
(`CountItems`). That it is not served that of another needs `SavedInItem`: a checkpoint is of
an item for which the block was executed, and the value of the item is part of the hash. The first attempts to prove this failed where the code does fail, and each
left a condition in `Tidy` or `SelfContained`.

The theorems about the session client hold for any number of leases, breaks,
removals and attempts (`SessionClientProofs`):

* `TypeCorrect`: `Spec => []TypeOK`.
* `CountIsHeldHolds`: `Spec => []CountIsHeld`. The count is a number that several
  awaits change at different times, so it is compared with those who hold a lease by an
  injection: `Fits(n, H)` says that the places 1 .. n can be given to different members of
  H. The invariant `CInv` is the types together with `Fits(registry.count, Held)`.
  Each step of a holder either takes a place of its own or gives one back
  (`Takes`), whoever holds the other places; a break, a removal or a reconciliation
  that fails sets the count to zero, which fits everything.
* `ExclusiveIsAloneHolds`, `NobodyIsCutOffHolds`: `Spec => []ExclusiveIsAlone` and
  `Spec => []NobodyIsCutOff`. Both properties say nothing once a removal or a message of
  the same chunk has crossed (section 7), and so does the rest of the invariant, `AloneInv`; the
  steps after which something has crossed need no proof. Without a connection
  everybody who waits is going to fail (`Offline`). With one the count is exactly the number
  of the holders and an exclusive holder is the only one (`Ledger`); the last one is
  counted out when its detach begins, and until the answer everybody who comes waits for that
  detach (`Detaching`); nobody passes the reconciliation of a new connection while a cleanup
  is due (`Cleaning`); and a detach under way is one of these two (`Asked`). `Links` and
  `Promises` say which promise belongs to which lease and connection. Exactness of the
  count is what `CountIsHeld` does not need and these two do: a lease is refused, or detached,
  by comparing the count with 0 and 1.

The theorems about the session server hold for any number of connections, sessions,
requests and runtimes, and but for the last for any set of faults (`SessionServerProofs` has the
invariant and its core, `SessionRuntimeProofs` the rest and the theorems):

* `ServerTypeCorrect`: `Spec => []TypeOK`.
* `NeverLockedOutHolds`, `NoIdleRuntimeHolds`, `NothingLeftBehindHolds`:
  `Spec => []NeverLockedOut` and so on.
* `TurnsAreKeptHolds`: `Spec => TurnsAreKept`.

The invariant `SInv` says that what the server keeps in five places agrees. An entry of
`openingSessions` is a request that opens (`Opening`); an acquired runtime is one that a
request is about to register or discard (`Registering`); a live one is the entry of its session in
`liveSessions`, until the shutdown empties that map (`Served`); who waits for a disposal waits
for the runtime of his own session (`Waiting`), or one that is discarded. Together they give one runtime per session
(`OnePerSession`), and that a session which is neither live nor being opened has none, which is
what makes it safe to ask the backend. `Closing`, `Alone` and `Going` are the order of the shutdown:
first no connection is left, then none of the openings `close()` waits for, which do not begin anew, then every live
runtime is being disposed, and at the end none is. An opening that begins later can only be discarded. There
`NeverLockedOut` needs the most: a wait for a disposal that ends after the maps were
emptied opens the session again, and finds its lock free only because nobody else could
have taken it since the shutdown began. `Turns` says that a turn is an operation whose request waits, so that
a runtime without operations has no turn. Steps that open, register and dispose nothing are
handled once (`CalmCore`), and those that change one runtime and one request once more
(`RuntimeStays`).

`AttachmentsToldHolds`, `Spec => []AttachmentsTold`, which is for every set of faults without failing snapshots, has an invariant of its own, `TInv`, which
is about the time before the server is asked to close and says of every difference between
what a client was told and what is true who will yet tell it: a broadcast is asked for or has
the client on its list (`Due`), a detach or a disposal is under way, both of which ask for a
broadcast when they end (`NoneTooMany`), or an attachment is about to (`NoneTooFew`). It needs that the two records of an attachment agree (`Joined`), that the
runtime a request goes on with is live or being disposed, so that nobody is attached to a
new runtime in the same slot (`Used`), and that who has not shaken hands was never attached
(`Newcomers`): that is why the handshake, which reads the list long before the client is ready,
cannot deliver a stale attachment. `Steady` says what a step must not do to one connection,
runtime or request, `SteadyTold` that this is enough, and one lemma per action that it does not.

The theorems about the agent session hold for any number of texts, calls of `prompt()`, retries,
tool calls and answers, and for any set of faults, overlapping prompts included
(`AgentSessionProofs`):

* `TypesKept`: `Spec => []TypeOK`.
* `IdleHolds`, `NothingIsLost`, `QueueIsServed`, `ListsAreTrue`: `Spec => []IdleIsIdle`,
  `Spec => []NothingSaidIsLost`, `Spec => []EverythingQueuedIsServed`,
  `Spec => []QueuesAreShown`.
* `SessionGivesUp`: `Spec => []GivesUp` when prompts do not overlap; the errors of two runs that
  overlap add up, and the code has no bound for them.

The invariant is `IInv`. `RunInv` holds whatever happens: the agent runs exactly as long as one
call of `prompt()` waits for it. `Alone` and `Served` are for as long as nothing crossed
(section 8): one call at most is busy, and `isIdle` follows it; and at each place of that call, where the
transcript ends, whether the count of retries was reset, and that nothing is queued when it
decides to settle. `Single` and `Patience` are for prompts that do
not overlap: the errors in a row are never more than `Credit`, the retries counted plus, after
the one recovery from an overflow, those that came before it. What makes `Patience` inductive is that a
call which goes on without that credit has a transcript that ends with the error, on which `continue()` throws, unless a text of the
user comes first. `TextInv` says where each text is: `Lists` that the agent's queues are the ends of those the user
sees, `Places` which of these places exclude each other. The proofs of the parts do not open the
actions: one lemma for each (`...Does`) says what it does to each field.


The theorems about the chat hold for every value of the constants that satisfies
`BoundAssumption`: any number of turns, questions, mishaps, chunks, images, rounds of tools
and retries, and any limit of the buffer (`ChatStreamProofs`):

* `ChatTypeCorrect`: `Spec => []TypeOK`. One thing must be carried along (`Quiet`): until the
  user has asked something nothing is on its way, so what is heard, missed or timed out is an answer to a
  question, and the question that a failure asks again is one.
* `ImageComesOnceHolds`: `Spec => []ImageComesOnce`. An image can be in four places: the page,
  the buffer, the copy that a resume took, and what is on its way to the page. `ImageInv` says
  that each place has it once (`OnceEach`), that no image is in two of them except in the buffer and
  in the copy taken from it (`Apart`), that at most one resume holds a copy (`OneResume`, the second
  within a second is refused), that images not made yet are nowhere (`Made`), and that only the
  connection of the page is alive or has anything on its way (`Channel`). A replay empties the copy and
  the images of the buffer together, so it does not matter how long the stream went on
  between the two.
* `NothingSaidIsMissedHolds`: `Spec => []NothingSaidIsMissed`. `TextInv` adds that a turn which
  asks its provider has said nothing in this round, so a buffer that begins then owes nothing, and that there
  is one turn at a time unless a question came while a turn was there. A chunk is written behind
  those of the same turn or, when there is no room, not at all, and what was missed once stays
  missed because no step takes a chunk out of a buffer and keeps it. `TextStep` is what the actions
  of a turn do to the turns and to the text, and the proof looks at nothing else.
Each proof has the same shape: the invariant holds initially, every action
preserves it (one lemma per group of actions), and it implies the property.

*Only model-checked:* liveness and fairness, which the prover does not treat.
## 10. Not modelled

* Engine retries, breaker and block checker, limiters and usage: counters; the plan has them.
* MCP bridge, schedules, provider health, memory: short protocols or single-mutex code; the first two are in the plan.
* Crew projects, documents, skills, budgets and planners: they create drafts or change prompts.
* Agent executor, block executors, tools, providers: I/O behind one outcome.
* Accounts, files, jobs: CRUD and periodic clean-up.
* The rest of the frontend, and of the Clara agent (providers, terminal interface, editor, packages, session
  tree): user interface and I/O of a single actor. The Clara agent is a vendored project; three of its
  packages are modelled because they carry a protocol of their own.
* The CLI and the documentation.

## 11. Running

    tlc -config CrewSolo.cfg MCCrew
    tlc -config EngineFlow.cfg MCEngine
    tlc -config ChatTurns.cfg MCChat
    tlc -config ServerShare.cfg MCServer
    tlc -config ClientLeases.cfg MCClient
    tlc -config SessionRuns.cfg MCSession
    tlapm CrewPipelineProofs.tla

and the same for the other configurations and proof modules. With two workers the longest run takes three
minutes. Definitions named `X_how` are mistaken variants of `X`, kept beside it: replacing
`X` by one of them must make the property that `PROJECT.json` names for it fail.
