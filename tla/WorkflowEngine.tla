--------------------------- MODULE WorkflowEngine ---------------------------
(***************************************************************************)
(* One execution of a workflow (execution/engine.go) with its durable      *)
(* state (execution/state_store.go) and its resumption after a crash       *)
(* (cmd/server/main.go).  Every dispatched block is a goroutine that takes *)
(* a slot of the semaphore, reads the outputs there are, looks for its     *)
(* checkpoint, executes, stores its output, saves it, and then, under      *)
(* completedMu, marks itself completed and dispatches its dependents.  A   *)
(* for_each block keeps completedMu while it runs its body once per item,  *)
(* except when it waits.                                                   *)
(*                                                                         *)
(* The goroutine <<b, k>> is the k-th one of block b since the server      *)
(* started.  An output is abstracted to the execution that produced it,    *)
(* the branch it takes, and the item it carries in a loop.  Retries are    *)
(* part of one Execute, which ends in time: every block has a time limit.  *)
(***************************************************************************)
EXTENDS Integers, FiniteSets, Sequences

CONSTANTS
  Blocks,       \* the blocks workflows are made of
  Workflows,    \* workflows the user may run
  MaxParallel,  \* capacity of blockSemaphore
  None,         \* nobody
  MaxRuns,      \* bound: goroutines per block and server start
  MaxCrashes    \* bound: server crashes

Kinds    == {"absent", "plain", "branch", "for_each"}
Branches == {"", "true", "false", "loop_body", "*"}
Conn     == [source : Blocks, port : {"", "output", "true", "false", "loop_body", "done"},
             target : Blocks, input : STRING]

ASSUME EngineAssumption ==
  /\ IsFiniteSet(Blocks)
  /\ \A w \in Workflows :
       /\ w.kind \in [Blocks -> Kinds] /\ IsFiniteSet(w.conns)
       /\ \A c \in w.conns : c.source \in Blocks /\ c.target \in Blocks
       /\ w.items \in Seq(Nat \ {0}) \* what a for_each of it iterates over
       /\ w.input \in BOOLEAN   \* it has variables or an input
       /\ w.flaky \subseteq Blocks \* the blocks that may fail
       /\ w.lossy \in BOOLEAN   \* the store may fail to read and write
  /\ MaxParallel \in Nat \ {0} /\ MaxRuns \in Nat \ {0} /\ MaxCrashes \in Nat
  /\ None \notin Blocks \X Nat  \* nobody is no goroutine

VARIABLES
  workflow,    \* the workflow executed
  server,      \* what the server does about it
  doc,         \* its execution state document
  state,       \* blockStates
  outputs,     \* blockOutputs
  completed,   \* completedBlocks
  failed,      \* failedBlocks
  task,        \* the goroutines
  holder,      \* who holds completedMu
  fired,       \* executor.Execute calls of each block, ever
  crashes      \* crashes so far

vars == <<workflow, server, doc, state, outputs, completed, failed, task, holder,
          fired, crashes>>
memory == <<state, outputs, completed, failed>>

-----------------------------------------------------------------------------
Tasks == Blocks \X (1..MaxRuns)

Output   == [run : Nat, branch : Branches, item : Nat]
NoOutput == [run |-> 0, branch |-> "", item |-> 0]
Outputs  == [Blocks -> Output]
Nothing  == [b \in Blocks |-> NoOutput]

Checkpoint == [seen : Outputs, out : Output]   \* out = NoOutput: none saved
NoCheckpoint == [seen |-> Nothing, out |-> NoOutput]

Task == [ pc    : {"none", "wait", "read", "lookup", "exec", "store", "save",
                   "complete", "fail", "cleanup", "item", "body", "join",
                   "settle", "end"},
          seen  : Outputs,             \* blockInputs
          out   : Output,
          served : BOOLEAN,            \* servedFromCkpt
          item  : Nat,                 \* index of the item of a for_each
          todo  : SUBSET Blocks,       \* loop_body dependents left to run
          child : Tasks \cup {None} ]  \* the one it waits for
NoTask  == [pc |-> "none", seen |-> Nothing, out |-> NoOutput, served |-> FALSE,
            item |-> 0, todo |-> {}, child |-> None]
Waiting == [NoTask EXCEPT !.pc = "wait"]
Ended   == [NoTask EXCEPT !.pc = "end"]

TypeOK ==
  /\ workflow \in Workflows
  /\ server \in {"running", "ended", "down", "up", "idle"}
  /\ doc \in [status : {"running", "completed", "failed"}, beat : {"fresh", "stale"},
              saved : [Blocks -> Checkpoint]]
  /\ state \in [Blocks -> {"pending", "running", "completed", "failed"}]
  /\ outputs \in Outputs
  /\ completed \subseteq Blocks /\ failed \subseteq Blocks
  /\ task \in [Tasks -> Task]
  /\ holder \in Tasks \cup {None}
  /\ fired \in [Blocks -> Nat]
  /\ crashes \in 0..MaxCrashes

-----------------------------------------------------------------------------
(* The graph.  As in CrewPipeline, X_how just before X is a mistaken X.    *)

Present  == {b \in Blocks : workflow.kind[b] # "absent"}
Between(b, d) == {c \in workflow.conns : c.source = b /\ c.target = d}
Dependencies(b) == {c.source : c \in {x \in workflow.conns : x.target = b}}
Dependents(b)   == {c.target : c \in {x \in workflow.conns : x.source = b}}
StartBlocks == {b \in Present : Dependencies(b) = {}}

Ready_any(d, done) == Dependencies(d) \cap done # {}
Ready(d, done) == Dependencies(d) \subseteq done

\* A dependent of a for_each may be behind its loop_body, its done port, or both.
LoopDeps(b) == {d \in Dependents(b) : \E c \in Between(b, d) : c.port # "done"}
DoneDeps(b) == {d \in Dependents(b) : \E c \in Between(b, d) : c.port = "done"}

\* walkLoopDeps: everything downstream of the loop_body, up to the done blocks.  It
\* is the least set with what the loop starts and all that follows from it.
LoopBody(b) ==
  LET stop == DoneDeps(b) \cup {b}
      Closed(S) == /\ LoopDeps(b) \ stop \subseteq S
                   /\ \A x \in S : Dependents(x) \ stop \subseteq S
  IN {x \in Blocks : \A S \in SUBSET Blocks : Closed(S) => x \in S}

\* A connection from a named port fires on the branch of that name only.
BranchBlocked(b, d, out) ==
  \E c \in Between(b, d) :
    c.port \notin {"", "output"} /\ out.branch # "*" /\ out.branch # c.port

Dispatched_break(b, out) ==
  {d \in Dependents(b) : /\ \A e \in Dependents(b) : ~ BranchBlocked(b, e, out)
                         /\ Ready(d, completed \cup {b})}
\* The dependents that may run now that b, last of their dependencies, is done.
Dispatched(b, out) ==
  {d \in Dependents(b) : ~ BranchBlocked(b, d, out) /\ Ready(d, completed \cup {b})}

Freed_first(b) == Dependencies(b)
\* The upstream outputs all of whose consumers have run: they are dropped.
Freed(b) == {u \in Dependencies(b) : Dependents(u) \subseteq completed \cup failed}

-----------------------------------------------------------------------------
(* Goroutines.                                                             *)

Started(b) == Cardinality({t \in Tasks : t[1] = b /\ task[t].pc # "none"})

\* A dependent is dispatched once per connection that leads to it.
Copies(b, d) == Cardinality(Between(b, d))
Room(b, D)   == \A d \in D : Started(d) + Copies(b, d) <= MaxRuns
Spawn(ts, b, D) ==
  [t \in Tasks |->
     IF /\ t[1] \in D /\ ts[t].pc = "none"
        /\ t[2] <= Started(t[1]) + Copies(b, t[1])
       THEN Waiting ELSE ts[t]]

HasSlot_leaked(t) == task[t].pc \notin {"none", "wait"}
HasSlot(t) == task[t].pc \notin {"none", "wait", "end"}

\* TransitionBlockStatus: a transition that is not allowed leaves the status.
Transition(from, to) ==
  IF \/ from = "pending" /\ to = "running"
     \/ from = "running" /\ to \in {"completed", "failed"}
     \/ from \in {"completed", "failed"} /\ to = "pending"
    THEN to ELSE from

At(t, pc)    == server = "running" /\ task[t].pc = pc
Locking(t, pc) == At(t, pc) /\ holder = None
Go(t, pc)    == task' = [task EXCEPT ![t].pc = pc]
End(t)       == task' = [task EXCEPT ![t] = Ended]

FreshTasks ==
  [t \in Tasks |-> IF t[2] = 1 /\ t[1] \in StartBlocks THEN Waiting ELSE NoTask]

Init ==
  /\ workflow \in Workflows
  /\ server = "running"
  /\ doc = [status |-> "running", beat |-> "fresh",
            saved |-> [b \in Blocks |-> NoCheckpoint]]
  /\ state = [b \in Blocks |-> "pending"]
  /\ outputs = Nothing
  /\ completed = {} /\ failed = {}
  /\ task = FreshTasks
  /\ holder = None
  /\ fired = [b \in Blocks |-> 0]
  /\ crashes = 0

Rest == <<workflow, server, crashes>>

-----------------------------------------------------------------------------
(* Executing a block.                                                      *)

Acquire(t) ==
  /\ At(t, "wait")
  /\ Cardinality({x \in Tasks : HasSlot(x)}) < MaxParallel
  /\ state' = [state EXCEPT ![t[1]] = Transition(@, "running")]
  /\ Go(t, "read")
  /\ UNCHANGED <<doc, outputs, completed, failed, holder, fired, Rest>>

\* All outputs there are become the block's inputs.
Read(t) ==
  /\ At(t, "read")
  /\ task' = [task EXCEPT ![t].pc = "lookup", ![t].seen = outputs]
  /\ UNCHANGED <<doc, memory, holder, fired, Rest>>

\* A checkpoint serves the block when it was made of the same inputs, or of none.
Serves(saved, seen) ==
  /\ saved.out # NoOutput
  /\ saved.seen = seen \/ (~ workflow.input /\ saved.seen = Nothing)

Lookup(t) ==
  LET saved == doc.saved[t[1]] IN
  /\ At(t, "lookup")
  /\ task' = IF Serves(saved, task[t].seen)
               THEN [task EXCEPT ![t].pc = "store", ![t].out = saved.out,
                                 ![t].served = TRUE]
               ELSE [task EXCEPT ![t].pc = "exec"]
  /\ UNCHANGED <<doc, memory, holder, fired, Rest>>

Choices(b) == IF workflow.kind[b] = "branch" THEN {"true", "false"}
              ELSE IF workflow.kind[b] = "for_each" THEN {"*"} ELSE {""}

Execute(t) ==
  LET b == t[1] IN
  /\ At(t, "exec")
  /\ fired' = [fired EXCEPT ![b] = @ + 1]
  /\ \E branch \in Choices(b) :
       task' = [task EXCEPT ![t].pc = "store",
                            ![t].out = [run |-> fired'[b], branch |-> branch, item |-> 0]]
  /\ UNCHANGED <<doc, memory, holder, Rest>>

\* The execution fails for good, panics, or does not pass the block checker.  A
\* block served from its checkpoint does not fail: a resumed execution runs no
\* checker.
ExecuteFail(t) ==
  LET b == t[1] IN
  /\ At(t, "exec") /\ b \in workflow.flaky
  /\ fired' = [fired EXCEPT ![b] = @ + 1]
  /\ state' = [state EXCEPT ![b] = Transition(@, "failed")]
  /\ Go(t, "fail")
  /\ UNCHANGED <<doc, outputs, completed, failed, holder, Rest>>

Fail(t) ==
  /\ Locking(t, "fail")
  /\ failed' = failed \cup {t[1]}
  /\ End(t)
  /\ UNCHANGED <<doc, state, outputs, completed, holder, fired, Rest>>

AfterStore_unsaved(t) == "complete"
\* What the store has already is not saved again.
AfterStore(t) == IF task[t].served THEN "complete" ELSE "save"

Store(t) ==
  /\ At(t, "store")
  /\ outputs' = [outputs EXCEPT ![t[1]] = task[t].out]
  /\ state' = [state EXCEPT ![t[1]] = Transition(@, "completed")]
  /\ Go(t, AfterStore(t))
  /\ UNCHANGED <<doc, completed, failed, holder, fired, Rest>>

Save(t) ==
  /\ At(t, "save")
  /\ doc' = [doc EXCEPT !.saved[t[1]] = [seen |-> task[t].seen, out |-> task[t].out]]
  /\ Go(t, "complete")
  /\ UNCHANGED <<memory, holder, fired, Rest>>

\* Failures of the store are logged, and the block goes on.
LookupLost(t) ==
  /\ At(t, "lookup") /\ workflow.lossy
  /\ Go(t, "exec")
  /\ UNCHANGED <<doc, memory, holder, fired, Rest>>

SaveLost(t) ==
  /\ At(t, "save") /\ workflow.lossy
  /\ Go(t, "complete")
  /\ UNCHANGED <<doc, memory, holder, fired, Rest>>

-----------------------------------------------------------------------------
(* Dispatching dependents.                                                 *)

Complete(t) ==
  LET b == t[1]  next == Dispatched(b, task[t].out) IN
  /\ Locking(t, "complete")
  /\ workflow.kind[b] # "for_each"
  /\ Room(b, next)
  /\ completed' = completed \cup {b}
  /\ task' = Spawn([task EXCEPT ![t].pc = "cleanup"], b, next)
  /\ holder' = t
  /\ UNCHANGED <<doc, state, outputs, failed, fired, Rest>>

\* Memory cleanup: the goroutines just dispatched may read before or after it.
Cleanup(t) ==
  /\ At(t, "cleanup")
  /\ outputs' = [u \in Blocks |-> IF u \in Freed(t[1]) THEN NoOutput ELSE outputs[u]]
  /\ End(t)
  /\ holder' = None
  /\ UNCHANGED <<doc, state, completed, failed, fired, Rest>>

-----------------------------------------------------------------------------
(* for_each.                                                               *)

NumItems_less(t) == Len(workflow.items) - 1
\* A list that was read back from the checkpoint is a primitive.A, which is not
\* the []any the code asks for: there is nothing to iterate over.
NumItems(t) == IF task[t].served THEN 0 ELSE Len(workflow.items)

CompleteLoop(t) ==
  /\ Locking(t, "complete")
  /\ workflow.kind[t[1]] = "for_each"
  /\ completed' = completed \cup {t[1]}
  /\ task' = [task EXCEPT ![t].pc = "item", ![t].item = 0]
  /\ holder' = t
  /\ UNCHANGED <<doc, state, outputs, failed, fired, Rest>>

\* The next item becomes the loop's output, and its whole body starts afresh.  Blocks read
\* the item and not its index, so a block whose checkpoint is of an equal one is served.
NextItem(t) ==
  LET b == t[1]  body == LoopBody(b) IN
  /\ At(t, "item") /\ task[t].item < NumItems(t)
  /\ outputs' = [x \in Blocks |->
       IF x \in body THEN NoOutput
       ELSE IF x = b THEN [task[t].out EXCEPT !.branch = "loop_body",
                                              !.item = workflow.items[task[t].item + 1]]
       ELSE outputs[x]]
  /\ state' = [x \in Blocks |->
       IF x \in body THEN Transition(state[x], "pending") ELSE state[x]]
  /\ completed' = completed \ body
  /\ task' = [task EXCEPT ![t].pc = "body", ![t].todo = LoopDeps(b)]
  /\ UNCHANGED <<doc, failed, holder, fired, Rest>>

\* Its direct dependents run one after the other.
RunBody(t, d) ==
  LET b == t[1]  child == <<d, Started(d) + 1>> IN
  /\ At(t, "body") /\ d \in task[t].todo
  /\ Ready(d, completed \cup LoopBody(b) \cup {b})
  /\ Started(d) < MaxRuns
  /\ task' = [task EXCEPT ![t].pc = "join", ![t].todo = @ \ {d}, ![t].child = child,
                          ![child] = Waiting]
  /\ holder' = None
  /\ UNCHANGED <<doc, memory, fired, Rest>>

SkipBody(t, d) ==
  /\ At(t, "body") /\ d \in task[t].todo
  /\ ~ Ready(d, completed \cup LoopBody(t[1]) \cup {t[1]})
  /\ task' = [task EXCEPT ![t].todo = @ \ {d}]
  /\ UNCHANGED <<doc, memory, holder, fired, Rest>>

Join(t) ==
  /\ Locking(t, "join")
  /\ task[task[t].child].pc = "end"
  /\ task' = [task EXCEPT ![t].pc = "body", ![t].child = None]
  /\ holder' = t
  /\ UNCHANGED <<doc, memory, fired, Rest>>

\* completedCond.Wait, unless the whole body has completed.
Settle(t) ==
  /\ At(t, "body") /\ task[t].todo = {}
  /\ Go(t, "settle")
  /\ holder' = None
  /\ UNCHANGED <<doc, memory, fired, Rest>>

BodyDone(t) == LoopBody(t[1]) \subseteq completed

\* Every completion is broadcast, so the loop goes on once it can.
Settled(t) ==
  /\ Locking(t, "settle")
  /\ BodyDone(t)
  /\ task' = [task EXCEPT ![t].pc = "item", ![t].item = @ + 1]
  /\ holder' = t
  /\ UNCHANGED <<doc, memory, fired, Rest>>

LoopDone(t) ==
  LET b == t[1]  next == {d \in DoneDeps(b) : Ready(d, completed \cup {b})} IN
  /\ At(t, "item") /\ task[t].item >= NumItems(t)
  /\ Room(b, next)
  /\ outputs' = [outputs EXCEPT ![b] = task[t].out]
  /\ task' = Spawn([task EXCEPT ![t] = Ended], b, next)
  /\ holder' = None
  /\ UNCHANGED <<doc, state, completed, failed, fired, Rest>>

-----------------------------------------------------------------------------
(* The end of the execution, crashes and resumption.                       *)

Finished == \A t \in Tasks : task[t].pc \in {"none", "end"}

FinalStatus_partial ==
  IF \A b \in Present : state[b] # "failed" THEN "completed"
  ELSE IF \E b \in Present : state[b] = "completed" THEN "partial" ELSE "failed"
\* The document has no word for a partial success.
FinalStatus ==
  IF \E b \in Present : state[b] = "failed" THEN "failed" ELSE "completed"

EndExecution ==
  /\ server = "running" /\ Finished
  /\ server' = "ended"
  /\ doc' = [doc EXCEPT !.status = FinalStatus]
  /\ UNCHANGED <<workflow, memory, task, holder, fired, crashes>>

\* Memory is lost.
Forget ==
  /\ state' = [b \in Blocks |-> "pending"]
  /\ outputs' = Nothing
  /\ completed' = {} /\ failed' = {}
  /\ holder' = None

Crash ==
  /\ server = "running" /\ crashes < MaxCrashes
  /\ crashes' = crashes + 1
  /\ server' = "down"
  /\ Forget
  /\ task' = [t \in Tasks |-> NoTask]
  /\ UNCHANGED <<workflow, doc, fired>>

\* No heartbeat for ninety seconds.
GoStale ==
  /\ server = "down" /\ doc.beat = "fresh"
  /\ doc' = [doc EXCEPT !.beat = "stale"]
  /\ UNCHANGED <<workflow, server, memory, task, holder, fired, crashes>>

Boot ==
  /\ server = "down"
  /\ server' = "up"
  /\ UNCHANGED <<workflow, doc, memory, task, holder, fired, crashes>>

\* FindOrphaned: running, and no heartbeat for a while.
Orphaned == doc.status = "running" /\ doc.beat = "stale"

\* The one scan for orphans, three seconds after the start: it takes up the
\* orphans there are, and nobody looks again.
Scan ==
  /\ server = "up"
  /\ IF Orphaned
       THEN /\ server' = "running"
            /\ doc' = [doc EXCEPT !.beat = "fresh"]
            /\ task' = FreshTasks
       ELSE server' = "idle" /\ UNCHANGED <<doc, task>>
  /\ UNCHANGED <<workflow, memory, holder, fired, crashes>>

-----------------------------------------------------------------------------
TaskStep(t) ==
  \/ Acquire(t) \/ Read(t) \/ Lookup(t) \/ Execute(t) \/ ExecuteFail(t) \/ Fail(t)
  \/ Store(t) \/ Save(t) \/ LookupLost(t) \/ SaveLost(t) \/ Complete(t) \/ Cleanup(t)
  \/ CompleteLoop(t) \/ NextItem(t) \/ Join(t) \/ Settle(t) \/ Settled(t) \/ LoopDone(t)
  \/ \E d \in Blocks : RunBody(t, d) \/ SkipBody(t, d)

Next ==
  \/ \E t \in Tasks : TaskStep(t)
  \/ EndExecution \/ Crash \/ GoStale \/ Boot \/ Scan

\* Some goroutine runs while one can, and a server that is down comes back.
Fairness ==
  /\ WF_vars(\E t \in Tasks : TaskStep(t))
  /\ WF_vars(EndExecution) /\ WF_vars(Boot) /\ WF_vars(Scan)

Spec     == Init /\ [][Next]_vars
FairSpec == Spec /\ Fairness

-----------------------------------------------------------------------------
(* What the engine promises.                                               *)

Loops     == {f \in Blocks : workflow.kind[f] = "for_each"}
InLoop(b) == \E f \in Loops : b \in LoopBody(f)
Live(t)   == task[t].pc \notin {"none", "end"}
Reading(t) == task[t].pc = "lookup"
Unlooped  == \A b \in Present : workflow.kind[b] # "for_each"

\* A goroutine is started for a block only when every block it depends on has
\* completed, in this iteration when it is in a loop.
StartsWhenReady ==
  [][\A t \in Tasks :
       server = "running" /\ task[t].pc = "none" /\ task'[t].pc = "wait"
         => Dependencies(t[1]) \subseteq completed']_vars

\* Two blocks are joined once at most, nothing leads back to a loop, and what is
\* behind its done port depends on the loop alone.
Tidy ==
  /\ \A b, d \in Blocks : Copies(b, d) <= 1
  /\ \A f \in Loops :
       /\ LoopDeps(f) \cap (DoneDeps(f) \cup {f}) = {}
       /\ Dependencies(f) \cap LoopBody(f) = {}
       /\ \A d \in DoneDeps(f) : Dependencies(d) = {f}

\* A body without loops, which needs nothing of other loops.  What the loop starts itself
\* depends on no other block of the body; and when it waits for a block that the loop does
\* not wait for, it is the only one the loop starts.
SelfContained(f) ==
  /\ \A b \in LoopBody(f) : \A x \in ({b} \cup Dependencies(b)) \ {f} :
       x \notin Loops /\ (InLoop(x) => x \in LoopBody(f))
  /\ \A d \in LoopDeps(f) :
       /\ Dependencies(d) \cap LoopBody(f) = {}
       /\ Dependencies(d) \subseteq {f} \cup Dependencies(f) \/ LoopDeps(f) = {d}

\* Outside loops a block is dispatched once, however its dependencies race; when a block behind a
\* done port depends on more than the loop, see DoneFiresLast.
OncePerStart ==
  Tidy => \A t \in Tasks : t[2] > 1 /\ ~ InLoop(t[1]) => task[t].pc = "none"

\* Without loops a block reads the output of every block it is connected to: memory
\* cleanup waits for all consumers.
ConnectedIsVisible ==
  Unlooped => \A t \in Tasks : Reading(t) =>
    \A d \in Dependencies(t[1]) : task[t].seen[d] # NoOutput

\* Without loops dependents start from durable outputs: a block is marked completed
\* when its output was saved, and what its consumers read is what was saved.
DurableBeforeNext ==
  ~ workflow.lossy /\ Unlooped =>
    \A b \in completed :
      doc.saved[b].out # NoOutput /\ outputs[b] \in {NoOutput, doc.saved[b].out}

\* Without loops dispatch loses no wake-up: when an execution ends, a block that never ran was
\* waiting for a block that did not complete, or is behind a branch not taken.
NobodyLeftBehind ==
  server = "ended" /\ Unlooped =>
    \A b \in Present \ (completed \cup failed) :
      \/ ~ (Dependencies(b) \subseteq completed)
      \/ \E d \in Dependencies(b) : BranchBlocked(d, b, doc.saved[d].out)

DifferentItems == {workflow.items[k] : k \in DOMAIN workflow.items}

\* What is behind the done port of f starts after the body has run for every item, as
\* long as the execution was not interrupted: "The "done" output fires after all
\* items are processed" (for_each_executor.go:12).  Equal items count once: the second may be
\* served from the checkpoint of the first.
DoneAfterItems(f) ==
  crashes = 0 => \A t \in Tasks : t[1] \in DoneDeps(f) /\ Live(t) =>
    \A b \in LoopBody(f) : fired[b] >= Cardinality(DifferentItems)

\* It does so in every workflow: this is what the comment says.
DoneFiresLast == \A f \in Loops : DoneAfterItems(f)

\* It does so in a tidy workflow, for a loop whose body is self-contained and which is in no
\* other loop.
DoneAfterEveryItem ==
  Tidy => \A f \in Loops : SelfContained(f) /\ ~ InLoop(f) => DoneAfterItems(f)

\* An execution that is under way ends, unless the server goes down.
ExecutionEnds == server = "running" ~> server # "running"

=============================================================================
