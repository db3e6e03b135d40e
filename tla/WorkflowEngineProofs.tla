------------------------ MODULE WorkflowEngineProofs ------------------------
(***************************************************************************)
(* Theorems about WorkflowEngine, for every set of blocks and workflows,   *)
(* every capacity of the semaphore and every number of crashes: the types; *)
(* for workflows without for_each in which two blocks are joined by one    *)
(* connection at most, that every block is started when its turn has come, *)
(* from outputs that are there and durable, and that nobody is forgotten;  *)
(* and for tidy workflows, loops included, that a block outside loops is   *)
(* dispatched once, and what is behind a loop starts after every item.     *)
(***************************************************************************)
EXTENDS WorkflowEngine, FiniteSetTheorems, TLAPS

-----------------------------------------------------------------------------
(* Type correctness.                                                       *)

\* A constant output, the empty memory and a goroutine at its start are typed.
LEMMA ConstantsTyped ==
  /\ NoOutput \in Output /\ Nothing \in Outputs /\ NoCheckpoint \in Checkpoint
  /\ NoTask \in Task /\ Waiting \in Task /\ Ended \in Task
<1>1. NoOutput \in Output
  BY DEF NoOutput, Output, Branches
<1>2. Nothing \in Outputs
  BY <1>1 DEF Nothing, Outputs
<1>3. NoCheckpoint \in Checkpoint
  BY <1>1, <1>2 DEF NoCheckpoint, Checkpoint
<1>4. NoTask \in Task
  BY <1>1, <1>2 DEF NoTask, Task
<1>5. Waiting \in Task /\ Ended \in Task
  BY <1>4 DEF Waiting, Ended, Task
<1> QED BY <1>1, <1>2, <1>3, <1>4, <1>5

\* The goroutines of a block are finitely many, so they can be counted.
LEMMA StartedTyped ==
  ASSUME NEW b
  PROVE  Started(b) \in Nat
<1>1. IsFiniteSet(Tasks)
  <2>1. IsFiniteSet(1..MaxRuns)
    BY EngineAssumption, FS_Interval
  <2> QED BY <2>1, EngineAssumption, FS_Product DEF Tasks
<1>2. IsFiniteSet({t \in Tasks : t[1] = b /\ task[t].pc # "none"})
  BY <1>1, FS_Subset
<1> QED BY <1>2, FS_CardinalityType DEF Started

\* The dependents of a block are blocks of the workflow.
LEMMA DependentsTyped ==
  ASSUME workflow \in Workflows, NEW b
  PROVE  Dependents(b) \subseteq Blocks /\ LoopDeps(b) \subseteq Blocks
<1>1. \A c \in workflow.conns : c.target \in Blocks
  BY EngineAssumption
<1> QED BY <1>1 DEF Dependents, LoopDeps

\* A goroutine that moves on, and those it starts, are well typed.
LEMMA GoroutinesTyped ==
  ASSUME task \in [Tasks -> Task], NEW t \in Tasks
  PROVE  /\ \A pc \in {"read", "lookup", "exec", "fail", "store", "save", "complete",
                       "cleanup", "settle"} : Go(t, pc) => task' \in [Tasks -> Task]
         /\ End(t) => task' \in [Tasks -> Task]
         /\ \A ts \in [Tasks -> Task] : \A b, D : Spawn(ts, b, D) \in [Tasks -> Task]
<1>1. Waiting \in Task /\ Ended \in Task
  BY ConstantsTyped
<1>2. ASSUME NEW pc \in {"read", "lookup", "exec", "fail", "store", "save", "complete",
                         "cleanup", "settle"}, Go(t, pc)
      PROVE  task' \in [Tasks -> Task]
  BY <1>2 DEF Go, Task
<1>3. End(t) => task' \in [Tasks -> Task]
  BY <1>1 DEF End
<1>4. \A ts \in [Tasks -> Task] : \A b, D : Spawn(ts, b, D) \in [Tasks -> Task]
  BY <1>1 DEF Spawn
<1> QED BY <1>2, <1>3, <1>4

\* The initial state is well typed.
LEMMA InitTyped == Init => TypeOK
<1> SUFFICES ASSUME Init PROVE TypeOK
  OBVIOUS
<1>1. FreshTasks \in [Tasks -> Task]
  BY ConstantsTyped DEF FreshTasks
<1> QED BY <1>1, ConstantsTyped, EngineAssumption DEF Init, TypeOK

\* The status of a block stays one of the four.
LEMMA TransitionTyped ==
  ASSUME NEW from \in {"pending", "running", "completed", "failed"},
         NEW to \in {"pending", "running", "completed", "failed"}
  PROVE  Transition(from, to) \in {"pending", "running", "completed", "failed"}
  BY DEF Transition

\* Executing a block keeps the types.
LEMMA ExecuteTyped ==
  ASSUME TypeOK, NEW t \in Tasks,
         \/ Acquire(t) \/ Read(t) \/ Lookup(t) \/ Execute(t) \/ ExecuteFail(t) \/ Fail(t)
         \/ Store(t) \/ Save(t) \/ LookupLost(t) \/ SaveLost(t)
  PROVE  TypeOK'
<1>1. t[1] \in Blocks /\ task[t] \in Task
  BY DEF Tasks, TypeOK
<1>2. task \in [Tasks -> Task]
  BY DEF TypeOK
<1>3. CASE Acquire(t)
  BY <1>1, <1>2, <1>3, GoroutinesTyped, TransitionTyped DEF Acquire, TypeOK, Rest
<1>4. CASE Read(t)
  BY <1>1, <1>2, <1>4 DEF Read, TypeOK, Rest, memory, Task
<1>5. CASE Lookup(t)
  <2>1. doc.saved[t[1]].out \in Output
    BY <1>1 DEF TypeOK, Checkpoint
  <2>2. task' \in [Tasks -> Task]
    BY <1>1, <1>2, <1>5, <2>1 DEF Lookup, Task
  <2> QED BY <1>5, <2>2 DEF Lookup, TypeOK, Rest, memory
<1>6. CASE Execute(t)
  <2>1. fired' \in [Blocks -> Nat]
    <3>1. fired' = [fired EXCEPT ![t[1]] = fired[t[1]] + 1]
      BY <1>6 DEF Execute
    <3>2. fired \in [Blocks -> Nat]
      BY DEF TypeOK
    <3> QED BY <1>1, <3>1, <3>2
  <2>2. \A branch \in Choices(t[1]) :
          [run |-> fired'[t[1]], branch |-> branch, item |-> 0] \in Output
    <3>1. fired'[t[1]] \in Nat /\ Choices(t[1]) \subseteq Branches
      BY <1>1, <2>1 DEF Choices, Branches
    <3> QED BY <3>1 DEF Output
  <2>3. task' \in [Tasks -> Task]
    <3>1. PICK branch \in Choices(t[1]) :
            task' = [task EXCEPT ![t].pc = "store",
                       ![t].out = [run |-> fired'[t[1]], branch |-> branch, item |-> 0]]
      BY <1>6 DEF Execute
    <3> QED BY <1>1, <1>2, <2>2, <3>1 DEF Task
  <2> QED BY <1>6, <2>1, <2>3 DEF Execute, TypeOK, Rest, memory
<1>7. CASE ExecuteFail(t)
  BY <1>1, <1>2, <1>7, GoroutinesTyped, TransitionTyped DEF ExecuteFail, TypeOK, Rest
<1>8. CASE Fail(t)
  BY <1>1, <1>2, <1>8, GoroutinesTyped DEF Fail, TypeOK, Rest
<1>9. CASE Store(t)
  <2>1. task[t].out \in Output
    BY <1>1 DEF Task
  <2>2. outputs' \in Outputs
    BY <1>1, <1>9, <2>1 DEF Store, TypeOK, Outputs
  <2>3. task' \in [Tasks -> Task]
    BY <1>2, <1>9, GoroutinesTyped DEF Store, AfterStore
  <2> QED BY <1>1, <1>9, <2>2, <2>3, TransitionTyped DEF Store, TypeOK, Rest
<1>10. CASE Save(t)
  <2>1. [seen |-> task[t].seen, out |-> task[t].out] \in Checkpoint
    BY <1>1 DEF Task, Checkpoint
  <2>2. doc'.saved \in [Blocks -> Checkpoint] /\ doc'.status = doc.status /\ doc'.beat = doc.beat
    BY <1>1, <1>10, <2>1 DEF Save, TypeOK
  <2>3. doc' \in [status : {"running", "completed", "failed"}, beat : {"fresh", "stale"},
                  saved : [Blocks -> Checkpoint]]
    BY <1>10, <2>2 DEF Save, TypeOK
  <2> QED BY <1>2, <1>10, <2>3, GoroutinesTyped DEF Save, TypeOK, Rest, memory
<1>11. CASE LookupLost(t)
  BY <1>2, <1>11, GoroutinesTyped DEF LookupLost, TypeOK, Rest, memory
<1>12. CASE SaveLost(t)
  BY <1>2, <1>12, GoroutinesTyped DEF SaveLost, TypeOK, Rest, memory
<1> QED BY <1>3, <1>4, <1>5, <1>6, <1>7, <1>8, <1>9, <1>10, <1>11, <1>12

\* The index of the next item is one of the list.
LEMMA NextItemIndex ==
  ASSUME TypeOK, NEW t \in Tasks, NextItem(t)
  PROVE  task[t].item \in Nat /\ task[t].item + 1 \in DOMAIN workflow.items
<1>1. task[t].item \in Nat /\ task[t].item < NumItems(t)
  BY DEF NextItem, TypeOK, Task
<1>2. workflow.items \in Seq(Nat \ {0})
  BY EngineAssumption DEF TypeOK
<1>3. Len(workflow.items) \in Nat /\ DOMAIN workflow.items = 1..Len(workflow.items)
  BY <1>2
<1> QED BY <1>1, <1>3 DEF NumItems

\* Dispatching the dependents of a block, and a loop over its body, keep the types.
LEMMA DispatchTyped ==
  ASSUME TypeOK, NEW t \in Tasks,
         \/ Complete(t) \/ Cleanup(t) \/ CompleteLoop(t) \/ NextItem(t) \/ Join(t)
         \/ Settle(t) \/ Settled(t) \/ LoopDone(t)
  PROVE  TypeOK'
<1>1. t[1] \in Blocks /\ task[t] \in Task /\ task \in [Tasks -> Task]
  BY DEF Tasks, TypeOK
<1>2. CASE Complete(t)
  <2>1. [task EXCEPT ![t].pc = "cleanup"] \in [Tasks -> Task]
    BY <1>1 DEF Task
  <2>2. task' \in [Tasks -> Task]
    BY <1>1, <1>2, <2>1, GoroutinesTyped DEF Complete
  <2> QED BY <1>1, <1>2, <2>2 DEF Complete, TypeOK, Rest
<1>3. CASE Cleanup(t)
  <2>1. outputs' \in Outputs
    BY <1>3, ConstantsTyped DEF Cleanup, TypeOK, Outputs
  <2> QED BY <1>1, <1>3, <2>1, GoroutinesTyped DEF Cleanup, TypeOK, Rest
<1>4. CASE CompleteLoop(t)
  <2>1. task' \in [Tasks -> Task]
    BY <1>1, <1>4 DEF CompleteLoop, Task
  <2> QED BY <1>1, <1>4, <2>1 DEF CompleteLoop, TypeOK, Rest
<1>5. CASE NextItem(t)
  <2>1. LoopDeps(t[1]) \subseteq Blocks
    BY DependentsTyped DEF TypeOK
  <2>2. task' \in [Tasks -> Task]
    BY <1>1, <1>5, <2>1 DEF NextItem, Task
  <2>3. [task[t].out EXCEPT !.branch = "loop_body",
                            !.item = workflow.items[task[t].item + 1]] \in Output
    <3>1. task[t].item + 1 \in DOMAIN workflow.items
      BY <1>1, <1>5, NextItemIndex
    <3>2. workflow.items[task[t].item + 1] \in Nat
      BY <3>1, EngineAssumption DEF TypeOK
    <3> QED BY <1>1, <3>2 DEF Task, Output, Branches
  <2>4. outputs' \in Outputs
    BY <1>5, <2>3, ConstantsTyped DEF NextItem, TypeOK, Outputs
  <2>5. state' \in [Blocks -> {"pending", "running", "completed", "failed"}]
    BY <1>5, TransitionTyped DEF NextItem, TypeOK
  <2> QED BY <1>5, <2>2, <2>4, <2>5 DEF NextItem, TypeOK, Rest
<1>6. CASE Join(t)
  <2>1. task' \in [Tasks -> Task]
    BY <1>1, <1>6 DEF Join, Task
  <2> QED BY <1>6, <2>1 DEF Join, TypeOK, Rest, memory
<1>7. CASE Settle(t)
  BY <1>1, <1>7, GoroutinesTyped DEF Settle, TypeOK, Rest, memory
<1>8. CASE Settled(t)
  <2>1. task' \in [Tasks -> Task]
    BY <1>1, <1>8 DEF Settled, Task
  <2> QED BY <1>8, <2>1 DEF Settled, TypeOK, Rest, memory
<1>9. CASE LoopDone(t)
  <2>1. [task EXCEPT ![t] = Ended] \in [Tasks -> Task]
    BY <1>1, ConstantsTyped
  <2>2. task' \in [Tasks -> Task]
    BY <1>1, <1>9, <2>1, GoroutinesTyped DEF LoopDone
  <2>3. outputs' \in Outputs
    BY <1>1, <1>9 DEF LoopDone, TypeOK, Outputs, Task
  <2> QED BY <1>9, <2>2, <2>3 DEF LoopDone, TypeOK, Rest
<1> QED BY <1>2, <1>3, <1>4, <1>5, <1>6, <1>7, <1>8, <1>9

\* Running and skipping a block of a loop's body keeps the types.
LEMMA BodyTyped ==
  ASSUME TypeOK, NEW t \in Tasks, NEW d \in Blocks, RunBody(t, d) \/ SkipBody(t, d)
  PROVE  TypeOK'
<1>1. task[t] \in Task /\ task \in [Tasks -> Task]
  BY DEF TypeOK
<1>2. CASE RunBody(t, d)
  <2> DEFINE child == <<d, Started(d) + 1>>
             moved == [task EXCEPT ![t].pc = "join", ![t].todo = @ \ {d}, ![t].child = child]
  <2>1. Started(d) \in Nat /\ Started(d) < MaxRuns
    BY <1>2, StartedTyped DEF RunBody
  <2>2. child \in Tasks
    BY <2>1, EngineAssumption DEF Tasks
  <2>3. moved \in [Tasks -> Task]
    BY <1>1, <2>2 DEF Task
  <2>4. task' = [moved EXCEPT ![child] = Waiting]
    BY <1>2 DEF RunBody
  <2>5. task' \in [Tasks -> Task]
    BY <2>3, <2>4, ConstantsTyped
  <2> QED BY <1>2, <2>5 DEF RunBody, TypeOK, Rest, memory
<1>3. CASE SkipBody(t, d)
  <2>1. task' \in [Tasks -> Task]
    BY <1>1, <1>3 DEF SkipBody, Task
  <2> QED BY <1>3, <2>1 DEF SkipBody, TypeOK, Rest, memory
<1> QED BY <1>2, <1>3

\* The end of an execution, a crash and a resumption keep the types.
LEMMA ServerTyped ==
  ASSUME TypeOK, EndExecution \/ Crash \/ GoStale \/ Boot \/ Scan
  PROVE  TypeOK'
<1>1. CASE EndExecution
  <2>1. FinalStatus \in {"completed", "failed"}
    BY DEF FinalStatus
  <2>2. doc' \in [status : {"running", "completed", "failed"}, beat : {"fresh", "stale"},
                  saved : [Blocks -> Checkpoint]]
    BY <1>1, <2>1 DEF EndExecution, TypeOK
  <2> QED BY <1>1, <2>2 DEF EndExecution, TypeOK, memory
<1>2. CASE Crash
  <2>1. task' \in [Tasks -> Task] /\ outputs' \in Outputs
    BY <1>2, ConstantsTyped DEF Crash, Forget
  <2>2. crashes' \in 0..MaxCrashes
    BY <1>2, EngineAssumption DEF Crash, TypeOK
  <2> QED BY <1>2, <2>1, <2>2 DEF Crash, Forget, TypeOK
<1>3. CASE GoStale
  BY <1>3 DEF GoStale, TypeOK, memory
<1>4. CASE Boot
  BY <1>4 DEF Boot, TypeOK, memory
<1>5. CASE Scan
  <2>1. FreshTasks \in [Tasks -> Task]
    BY ConstantsTyped DEF FreshTasks
  <2> QED BY <1>5, <2>1 DEF Scan, TypeOK, memory
<1> QED BY <1>1, <1>2, <1>3, <1>4, <1>5

\* Every step keeps the types.
LEMMA NextTyped == TypeOK /\ [Next]_vars => TypeOK'
<1> SUFFICES ASSUME TypeOK, [Next]_vars PROVE TypeOK'
  OBVIOUS
<1>1. CASE UNCHANGED vars
  BY <1>1 DEF vars, TypeOK
<1>2. ASSUME NEW t \in Tasks, TaskStep(t) PROVE TypeOK'
  BY <1>2, ExecuteTyped, DispatchTyped, BodyTyped DEF TaskStep
<1> QED BY <1>1, <1>2, ServerTyped DEF Next

\* Memory, goroutines and the durable document of an execution keep their types.
THEOREM EngineTypeCorrect == Spec => []TypeOK
  BY InitTyped, NextTyped, PTL DEF Spec
-----------------------------------------------------------------------------
(* Dispatch and durability of workflows without for_each, in which two     *)
(* blocks are joined by one connection at most.                            *)

\* No block is a for_each, and no two blocks are joined twice: a block that is
\* joined twice is dispatched twice.
SimpleFlows ==
  \A w \in Workflows :
    /\ \A b \in Blocks : w.kind[b] # "for_each"
    /\ \A c, d \in w.conns : c.source = d.source /\ c.target = d.target => c = d

\* The store never fails.
ReliableStore == \A w \in Workflows : ~ w.lossy

-----------------------------------------------------------------------------
(* The inductive invariant.                                                *)

\* A block has one goroutine, and it is not that of a loop.
OneEach ==
  \A t \in Tasks : /\ task[t].pc # "none" => t[2] = 1
                   /\ task[t].pc \notin {"item", "body", "join", "settle"}

\* A goroutine was started after all its block depends on, and so before
\* anything that depends on its block.
TurnCame == \A t \in Tasks : task[t].pc # "none" => Dependencies(t[1]) \subseteq completed

\* completedBlocks and failedBlocks are what the goroutines have done.
OverWhenDone ==
  \A t \in Tasks : t[2] = 1 =>
    /\ t[1] \in completed => task[t].pc \in {"cleanup", "end"}
    /\ t[1] \in failed => task[t].pc = "end"
    /\ task[t].pc = "cleanup" => t[1] \in completed
    /\ task[t].pc = "end" => t[1] \in completed \cup failed

\* A goroutine carries its output, and has stored it once it is past that.
HasOutput ==
  \A t \in Tasks :
    /\ task[t].pc \in {"store", "save", "complete"} => task[t].out # NoOutput
    /\ task[t].pc \in {"save", "complete"} => outputs[t[1]] = task[t].out

\* An output is kept until every consumer has run.
Kept ==
  \A b \in completed : outputs[b] # NoOutput \/ Dependents(b) \subseteq completed \cup failed

\* The outputs a goroutine is going to read are there, and then it has read them.
Visible ==
  \A t \in Tasks : \A d \in Dependencies(t[1]) :
    /\ task[t].pc \in {"wait", "read"} => outputs[d] # NoOutput
    /\ task[t].pc = "lookup" => task[t].seen[d] # NoOutput

\* A goroutine that is served, or that has saved, agrees with the store, and none
\* is served before it has looked.
Agrees ==
  ~ workflow.lossy =>
    \A t \in Tasks :
      /\ task[t].pc \in {"wait", "read", "lookup", "exec"} => ~ task[t].served
      /\ task[t].pc = "store" /\ task[t].served => task[t].out = doc.saved[t[1]].out
      /\ task[t].pc = "complete" => task[t].out = doc.saved[t[1]].out

\* A completed block was saved, and what its consumers read is what was saved.
Durable ==
  ~ workflow.lossy =>
    \A b \in completed :
      doc.saved[b].out # NoOutput /\ outputs[b] \in {NoOutput, doc.saved[b].out}

\* A block whose turn has come was started, or is behind a branch not taken.
NobodyForgotten ==
  server \in {"running", "ended"} /\ ~ workflow.lossy =>
    \A t \in Tasks : t[2] = 1 /\ t[1] \in Present /\ task[t].pc = "none"
                       /\ Dependencies(t[1]) \subseteq completed =>
      \E d \in Dependencies(t[1]) : BranchBlocked(d, t[1], doc.saved[d].out)

\* A server that is down remembers nothing, and one that is done has nobody at work.
AtRest ==
  /\ server \in {"down", "up"} => /\ completed = {} /\ failed = {} /\ outputs = Nothing
                                  /\ \A t \in Tasks : task[t] = NoTask
  /\ server = "ended" => Finished

FlowInv ==
  /\ OneEach /\ TurnCame /\ OverWhenDone /\ HasOutput /\ Kept /\ Visible
  /\ Agrees /\ Durable /\ NobodyForgotten /\ AtRest

Early == {"wait", "read", "lookup", "exec", "fail", "store", "save", "complete"}

-----------------------------------------------------------------------------
(* Facts about the graph and the goroutines.                               *)

\* Dependencies and dependents are two views of the connections.
LEMMA GraphSides ==
  ASSUME workflow \in Workflows, NEW b, NEW d
  PROVE  /\ d \in Dependencies(b) <=> b \in Dependents(d)
         /\ Dependencies(b) \subseteq Blocks /\ Dependents(b) \subseteq Blocks
<1>1. \A c \in workflow.conns : c.source \in Blocks /\ c.target \in Blocks
  BY EngineAssumption
<1> QED BY <1>1 DEF Dependencies, Dependents

\* The first goroutine of a block, and that it is the only one.
LEMMA OneGoroutine ==
  ASSUME OneEach, NEW t \in Tasks, task[t].pc # "none"
  PROVE  /\ t[1] \in Blocks /\ t[2] = 1
         /\ \A u \in Tasks : u[2] = 1 /\ u[1] = t[1] => u = t
         /\ \A u \in Tasks : u # t /\ task[u].pc # "none" => u[1] # t[1]
<1>1. \A u \in Tasks : u = <<u[1], u[2]>> /\ u[1] \in Blocks
  BY DEF Tasks
<1>2. t[2] = 1 /\ \A u \in Tasks : task[u].pc # "none" => u[2] = 1
  BY DEF OneEach
<1> QED BY <1>1, <1>2

\* Every block has a first goroutine.
LEMMA FirstGoroutine ==
  ASSUME NEW b \in Blocks
  PROVE  <<b, 1>> \in Tasks /\ <<b, 1>>[1] = b /\ <<b, 1>>[2] = 1
  BY EngineAssumption DEF Tasks

\* The graph is that of the workflow, which does not change.
LEMMA SameGraph ==
  ASSUME workflow' = workflow
  PROVE  /\ Present' = Present
         /\ \A b : Dependencies(b)' = Dependencies(b) /\ Dependents(b)' = Dependents(b)
         /\ \A b, d, out : BranchBlocked(b, d, out)' = BranchBlocked(b, d, out)
  BY DEF Present, Dependencies, Dependents, BranchBlocked, Between

\* An execution at its start, or at its resumption.
Fresh ==
  /\ workflow \in Workflows /\ server = "running" /\ task = FreshTasks
  /\ completed = {} /\ failed = {} /\ outputs = Nothing

\* The workflow starts with no output, nothing done, and its start blocks waiting.
LEMMA FreshFlowInv == Fresh => FlowInv
<1> SUFFICES ASSUME Fresh PROVE FlowInv
  OBVIOUS
<1> USE DEF Fresh
<1>1. \A t \in Tasks : \/ task[t] = NoTask /\ ~ (t[2] = 1 /\ t[1] \in StartBlocks)
                       \/ task[t] = Waiting /\ t[2] = 1 /\ t[1] \in StartBlocks
  BY DEF FreshTasks
<1>2. NoTask.pc = "none" /\ Waiting.pc = "wait"
  BY DEF NoTask, Waiting
<1>3. \A b \in StartBlocks : Dependencies(b) = {}
  BY DEF StartBlocks
<1>4. OneEach /\ TurnCame /\ HasOutput /\ Visible /\ Agrees
  <2>1. ~ Waiting.served
    BY DEF Waiting, NoTask
  <2> QED BY <1>1, <1>2, <1>3, <2>1 DEF OneEach, TurnCame, HasOutput, Visible, Agrees
<1>5. OverWhenDone /\ Kept /\ Durable /\ AtRest
  BY <1>1, <1>2 DEF OverWhenDone, Kept, Durable, AtRest
<1>6. NobodyForgotten
  <2>1. ASSUME NEW t \in Tasks, t[2] = 1, t[1] \in Present, task[t].pc = "none",
               Dependencies(t[1]) \subseteq completed
        PROVE  FALSE
    BY <1>1, <1>2, <2>1 DEF StartBlocks
  <2> QED BY <2>1 DEF NobodyForgotten
<1> QED BY <1>4, <1>5, <1>6 DEF FlowInv

\* The same of a state that a step leads to.
LEMMA FreshFlowInvNext == Fresh' => FlowInv'
  BY FreshFlowInv, PTL

-----------------------------------------------------------------------------
(* A goroutine t that executes its block, and touches nothing else than    *)
(* its own output and its own checkpoint.                                  *)

Executing(t) ==
  /\ server = "running" /\ server' = server /\ workflow' = workflow
  /\ completed' = completed /\ failed' = failed
  /\ task[t].pc \in Early /\ task'[t].pc \in Early
  /\ \A u \in Tasks : u # t => task'[u] = task[u]
  /\ \A b \in Blocks : b # t[1] => outputs'[b] = outputs[b] /\ doc'.saved[b] = doc.saved[b]
  /\ outputs'[t[1]] # outputs[t[1]] => outputs'[t[1]] # NoOutput
  /\ task'[t].pc \in {"wait", "read"} => task[t].pc \in {"wait", "read"}
  /\ task'[t].pc = "lookup" => task[t].pc = "read" /\ task'[t].seen = outputs
  /\ task'[t].pc \in {"store", "save", "complete"} => task'[t].out # NoOutput
  /\ task'[t].pc \in {"save", "complete"} => outputs'[t[1]] = task'[t].out
  /\ ~ workflow.lossy =>
       /\ task'[t].pc \in {"wait", "read", "lookup", "exec"} => ~ task'[t].served
       /\ task'[t].pc = "store" /\ task'[t].served => task'[t].out = doc'.saved[t[1]].out
       /\ task'[t].pc = "complete" => task'[t].out = doc'.saved[t[1]].out

\* What it does keeps the invariant: its block is not completed, and no other
\* goroutine has it.
LEMMA ExecutingFlowInv ==
  ASSUME TypeOK, FlowInv, NEW t \in Tasks, Executing(t)
  PROVE  FlowInv'
<1>1. task[t].pc # "none" /\ task'[t].pc # "none" /\ task[t].pc \notin {"cleanup", "end"}
  BY DEF Executing, Early
<1>2. /\ t[1] \in Blocks /\ t[2] = 1
      /\ \A u \in Tasks : u[2] = 1 /\ u[1] = t[1] => u = t
      /\ \A u \in Tasks : u # t /\ task[u].pc # "none" => u[1] # t[1]
  BY <1>1, OneGoroutine DEF FlowInv
<1>3. t[1] \notin completed /\ t[1] \notin failed
  BY <1>1, <1>2 DEF FlowInv, OverWhenDone, Executing, Early
<1>4. workflow \in Workflows /\ completed \subseteq Blocks
  BY DEF TypeOK
<1>5. \A u \in Tasks : Dependencies(u[1])' = Dependencies(u[1]) /\ Dependencies(u[1]) \subseteq Blocks
  BY <1>4, SameGraph, GraphSides DEF Executing
<1>6. OneEach'
  BY <1>2 DEF FlowInv, OneEach, Executing, Early
<1>7. TurnCame'
  BY <1>1, <1>5 DEF FlowInv, TurnCame, Executing
<1>8. OverWhenDone'
  BY <1>1, <1>2, <1>3 DEF FlowInv, OverWhenDone, Executing, Early
<1>9. HasOutput'
  <2> SUFFICES ASSUME NEW u \in Tasks
               PROVE  /\ task'[u].pc \in {"store", "save", "complete"} => task'[u].out # NoOutput
                      /\ task'[u].pc \in {"save", "complete"} => outputs'[u[1]] = task'[u].out
    BY DEF HasOutput
  <2>1. CASE u = t
    BY <2>1 DEF Executing
  <2>2. CASE u # t
    <3>1. task[u].pc # "none" => u[1] \in Blocks /\ u[1] # t[1]
      BY <1>2, <2>2 DEF Tasks
    <3> QED BY <2>2, <3>1 DEF FlowInv, HasOutput, Executing
  <2> QED BY <2>1, <2>2
<1>10. Kept'
  BY <1>3, <1>4, SameGraph DEF FlowInv, Kept, Executing
<1>11. Visible'
  <2> SUFFICES ASSUME NEW u \in Tasks, NEW d \in Dependencies(u[1])
               PROVE  /\ task'[u].pc \in {"wait", "read"} => outputs'[d] # NoOutput
                      /\ task'[u].pc = "lookup" => task'[u].seen[d] # NoOutput
    BY <1>5 DEF Visible
  <2>1. outputs[d] # NoOutput => outputs'[d] # NoOutput
    BY <1>5 DEF Executing
  <2>2. CASE u = t
    BY <2>1, <2>2 DEF FlowInv, Visible, Executing
  <2>3. CASE u # t
    BY <2>1, <2>3 DEF FlowInv, Visible, Executing
  <2> QED BY <2>2, <2>3
<1>12. Agrees'
  <2> SUFFICES ASSUME ~ workflow.lossy, NEW u \in Tasks
               PROVE  /\ task'[u].pc \in {"wait", "read", "lookup", "exec"}
                          => ~ task'[u].served
                      /\ task'[u].pc = "store" /\ task'[u].served
                          => task'[u].out = doc'.saved[u[1]].out
                      /\ task'[u].pc = "complete" => task'[u].out = doc'.saved[u[1]].out
    BY DEF Agrees, Executing
  <2>1. CASE u = t
    BY <2>1 DEF Executing
  <2>2. CASE u # t
    <3>1. task[u].pc # "none" => u[1] \in Blocks /\ u[1] # t[1]
      BY <1>2, <2>2 DEF Tasks
    <3> QED BY <2>2, <3>1 DEF FlowInv, Agrees, Executing
  <2> QED BY <2>1, <2>2
<1>13. Durable'
  BY <1>3, <1>4 DEF FlowInv, Durable, Executing
<1>14. NobodyForgotten'
  <2> SUFFICES ASSUME ~ workflow.lossy, NEW u \in Tasks, u[2] = 1, u[1] \in Present,
                      task'[u].pc = "none", Dependencies(u[1]) \subseteq completed
               PROVE  \E d \in Dependencies(u[1]) : BranchBlocked(d, u[1], doc'.saved[d].out)
    BY <1>5, SameGraph DEF NobodyForgotten, Executing
  <2>1. task[u].pc = "none"
    BY <1>1 DEF Executing
  <2>2. PICK d \in Dependencies(u[1]) : BranchBlocked(d, u[1], doc.saved[d].out)
    BY <2>1 DEF FlowInv, NobodyForgotten, Executing
  <2>3. doc'.saved[d] = doc.saved[d]
    BY <1>3, <1>4 DEF Executing
  <2> QED BY <2>2, <2>3
<1>15. AtRest'
  BY DEF AtRest, Executing
<1> QED
  BY <1>6, <1>7, <1>8, <1>9, <1>10, <1>11, <1>12, <1>13, <1>14, <1>15 DEF FlowInv

\* Every step from the semaphore to the checkpoint is such an execution.
LEMMA ExecuteFlowInv ==
  ASSUME TypeOK, FlowInv, NEW t \in Tasks,
         \/ Acquire(t) \/ Read(t) \/ Lookup(t) \/ Execute(t) \/ ExecuteFail(t)
         \/ Store(t) \/ Save(t) \/ LookupLost(t) \/ SaveLost(t)
  PROVE  FlowInv'
<1>1. t[1] \in Blocks /\ task[t] \in Task /\ task \in [Tasks -> Task] /\ outputs \in Outputs
  BY DEF Tasks, TypeOK
<1>2. /\ task[t].pc \in {"store", "save", "complete"} => task[t].out # NoOutput
      /\ task[t].pc \in {"save", "complete"} => outputs[t[1]] = task[t].out
      /\ ~ workflow.lossy /\ task[t].pc = "store" /\ task[t].served
           => task[t].out = doc.saved[t[1]].out
      /\ ~ workflow.lossy /\ task[t].pc \in {"wait", "read", "lookup", "exec"}
           => ~ task[t].served
  BY DEF FlowInv, HasOutput, Agrees
<1>3. CASE Acquire(t)
  BY <1>1, <1>2, <1>3, ExecutingFlowInv DEF Acquire, Executing, Early, At, Go, Rest, Task
<1>4. CASE Read(t)
  BY <1>1, <1>2, <1>4, ExecutingFlowInv DEF Read, Executing, Early, At, Rest, memory, Task
<1>5. CASE Lookup(t)
  <2>1. CASE Serves(doc.saved[t[1]], task[t].seen)
    BY <1>1, <1>2, <1>5, <2>1, ExecutingFlowInv
    DEF Lookup, Serves, Executing, Early, At, Rest, memory, Task
  <2>2. CASE ~ Serves(doc.saved[t[1]], task[t].seen)
    BY <1>1, <1>2, <1>5, <2>2, ExecutingFlowInv
    DEF Lookup, Executing, Early, At, Rest, memory, Task
  <2> QED BY <2>1, <2>2
<1>6. CASE Execute(t)
  <2>1. PICK branch \in Choices(t[1]) :
          task' = [task EXCEPT ![t].pc = "store",
                     ![t].out = [run |-> fired'[t[1]], branch |-> branch, item |-> 0]]
    BY <1>6 DEF Execute
  <2>2. fired'[t[1]] # 0
    <3>1. fired' = [fired EXCEPT ![t[1]] = fired[t[1]] + 1] /\ fired \in [Blocks -> Nat]
      BY <1>6 DEF Execute, TypeOK
    <3> QED BY <1>1, <3>1
  <2>3. [run |-> fired'[t[1]], branch |-> branch, item |-> 0] # NoOutput
    BY <2>2 DEF NoOutput
  <2>4. task'[t].pc = "store" /\ task'[t].out # NoOutput /\ task'[t].served = task[t].served
    BY <1>1, <2>1, <2>3 DEF Task
  <2> QED BY <1>1, <1>2, <1>6, <2>1, <2>4, ExecutingFlowInv
      DEF Execute, Executing, Early, At, Rest, memory
<1>7. CASE ExecuteFail(t)
  BY <1>1, <1>2, <1>7, ExecutingFlowInv DEF ExecuteFail, Executing, Early, At, Go, Rest, Task
<1>8. CASE Store(t)
  BY <1>1, <1>2, <1>8, ExecutingFlowInv
  DEF Store, AfterStore, Executing, Early, At, Go, Rest, Task, TypeOK, Outputs
<1>9. CASE Save(t)
  <2>1. /\ doc'.saved[t[1]].out = task[t].out
        /\ \A b \in Blocks : b # t[1] => doc'.saved[b] = doc.saved[b]
    BY <1>1, <1>9 DEF Save, TypeOK
  <2> QED BY <1>1, <1>2, <1>9, <2>1, ExecutingFlowInv
      DEF Save, Executing, Early, At, Go, Rest, memory, Task
<1>10. CASE LookupLost(t)
  BY <1>1, <1>2, <1>10, ExecutingFlowInv DEF LookupLost, Executing, Early, At, Go, Rest, memory, Task
<1>11. CASE SaveLost(t)
  BY <1>1, <1>2, <1>11, ExecutingFlowInv
  DEF SaveLost, Executing, Early, At, Go, Rest, memory, Task
<1> QED BY <1>3, <1>4, <1>5, <1>6, <1>7, <1>8, <1>9, <1>10, <1>11

-----------------------------------------------------------------------------
(* A failure, the memory cleanup, and the dispatch of dependents.          *)

\* A block that fails is over, and frees nothing.
LEMMA FailFlowInv ==
  ASSUME TypeOK, FlowInv, NEW t \in Tasks, Fail(t)
  PROVE  FlowInv'
<1>1. /\ task[t].pc = "fail" /\ server = "running" /\ server' = server
      /\ task' = [task EXCEPT ![t] = Ended] /\ Ended.pc = "end" /\ failed' = failed \cup {t[1]}
      /\ UNCHANGED <<workflow, doc, outputs, completed>>
  BY DEF Fail, Locking, At, End, Rest, Ended, NoTask
<1>2. /\ task'[t].pc = "end" /\ \A u \in Tasks : u # t => task'[u] = task[u]
  BY <1>1 DEF TypeOK
<1>3. /\ t[1] \in Blocks /\ t[2] = 1
      /\ \A u \in Tasks : u[2] = 1 /\ u[1] = t[1] => u = t
  BY <1>1, OneGoroutine DEF FlowInv
<1>4. OneEach' /\ TurnCame' /\ HasOutput'
  BY <1>1, <1>2, <1>3, SameGraph DEF FlowInv, OneEach, TurnCame, HasOutput
<1>5. OverWhenDone'
  BY <1>1, <1>2, <1>3 DEF FlowInv, OverWhenDone
<1>6. Kept'
  BY <1>1, SameGraph DEF FlowInv, Kept
<1>7. Visible' /\ Agrees' /\ Durable' /\ AtRest'
  BY <1>1, <1>2, SameGraph DEF FlowInv, Visible, Agrees, Durable, AtRest
<1>8. NobodyForgotten'
  BY <1>1, <1>2, SameGraph DEF FlowInv, NobodyForgotten
<1> QED BY <1>4, <1>5, <1>6, <1>7, <1>8 DEF FlowInv

\* Memory cleanup drops the outputs of blocks all of whose consumers are over.
LEMMA CleanupFlowInv ==
  ASSUME TypeOK, FlowInv, NEW t \in Tasks, Cleanup(t)
  PROVE  FlowInv'
<1>1. /\ task[t].pc = "cleanup" /\ server = "running" /\ server' = server
      /\ task' = [task EXCEPT ![t] = Ended] /\ Ended.pc = "end"
      /\ UNCHANGED <<workflow, doc, completed, failed>>
  BY DEF Cleanup, At, End, Rest, Ended, NoTask
<1>2. /\ task'[t].pc = "end" /\ \A u \in Tasks : u # t => task'[u] = task[u]
  BY <1>1 DEF TypeOK
<1>3. /\ t[1] \in Blocks /\ t[2] = 1
      /\ \A u \in Tasks : u[2] = 1 /\ u[1] = t[1] => u = t
  BY <1>1, OneGoroutine DEF FlowInv
<1>4. workflow \in Workflows /\ completed \subseteq Blocks
  BY DEF TypeOK
<1>5. \A b \in Blocks :
        \/ outputs'[b] = outputs[b]
        \/ outputs'[b] = NoOutput /\ b \in completed /\ Dependents(b) \subseteq completed \cup failed
  <2>1. Freed(t[1]) \subseteq completed
    BY <1>1 DEF FlowInv, TurnCame, Freed
  <2>2. outputs' = [u \in Blocks |-> IF u \in Freed(t[1]) THEN NoOutput ELSE outputs[u]]
    BY DEF Cleanup
  <2> QED BY <2>1, <2>2 DEF Freed
<1>6. OneEach' /\ TurnCame'
  BY <1>1, <1>2, <1>3, SameGraph DEF FlowInv, OneEach, TurnCame
<1>7. OverWhenDone'
  BY <1>1, <1>2, <1>3 DEF FlowInv, OverWhenDone
<1>8. HasOutput'
  <2> SUFFICES ASSUME NEW u \in Tasks
               PROVE  /\ task'[u].pc \in {"store", "save", "complete"} => task'[u].out # NoOutput
                      /\ task'[u].pc \in {"save", "complete"} => outputs'[u[1]] = task'[u].out
    BY DEF HasOutput
  <2>1. task'[u].pc \in {"save", "complete"} => u[1] \in Blocks /\ u[1] \notin completed
    BY <1>2, OneGoroutine DEF FlowInv, OverWhenDone
  <2> QED BY <1>2, <1>5, <2>1 DEF FlowInv, HasOutput
<1>9. Kept'
  BY <1>1, <1>4, <1>5, SameGraph DEF FlowInv, Kept
<1>10. Visible'
  <2> SUFFICES ASSUME NEW u \in Tasks, NEW d \in Dependencies(u[1])
               PROVE  /\ task'[u].pc \in {"wait", "read"} => outputs'[d] # NoOutput
                      /\ task'[u].pc = "lookup" => task'[u].seen[d] # NoOutput
    BY <1>1, SameGraph DEF Visible
  <2>1. d \in Blocks /\ u[1] \in Dependents(d)
    BY <1>4, GraphSides
  <2>2. task'[u].pc \in {"wait", "read"} => u[1] \notin completed \cup failed
    BY <1>2, OneGoroutine DEF FlowInv, OverWhenDone
  <2> QED BY <1>2, <1>5, <2>1, <2>2 DEF FlowInv, Visible
<1>11. Agrees' /\ AtRest'
  BY <1>1, <1>2 DEF FlowInv, Agrees, AtRest
<1>12. Durable'
  BY <1>1, <1>4, <1>5 DEF FlowInv, Durable
<1>13. NobodyForgotten'
  BY <1>1, <1>2, SameGraph DEF FlowInv, NobodyForgotten
<1> QED BY <1>6, <1>7, <1>8, <1>9, <1>10, <1>11, <1>12, <1>13 DEF FlowInv

\* Complete starts the first goroutine of every block it dispatches, no other.
LEMMA CompleteStarts ==
  ASSUME SimpleFlows, TypeOK, FlowInv, NEW t \in Tasks, Complete(t)
  PROVE  /\ task'[t].pc = "cleanup"
         /\ \A u \in Tasks : u # t =>
              \/ task'[u] = task[u] /\ (task[u].pc = "none" /\ u[2] = 1
                                          => u[1] \notin Dispatched(t[1], task[t].out))
              \/ /\ task[u].pc = "none" /\ task'[u] = Waiting /\ u[2] = 1
                 /\ u[1] \in Dispatched(t[1], task[t].out)
<1> DEFINE b == t[1]
           next == Dispatched(b, task[t].out)
           ts == [task EXCEPT ![t].pc = "cleanup"]
<1>1. task[t].pc = "complete" /\ task' = Spawn(ts, b, next)
  BY DEF Complete, Locking, At
<1>2. b \in Blocks /\ t[2] = 1 /\ b \notin completed
  BY <1>1, OneGoroutine DEF FlowInv, OverWhenDone
<1>3. \A u \in Tasks : ts[u].pc = "none" <=> task[u].pc = "none" /\ u # t
  BY <1>1 DEF TypeOK, Task
<1>4. \A u \in Tasks : u # t => ts[u] = task[u]
  BY DEF TypeOK
<1>5. ts[t].pc = "cleanup"
  BY DEF TypeOK, Task
<1>6. ASSUME NEW d \in next PROVE Started(d) = 0
  <2>1. b \in Dependencies(d)
    BY GraphSides DEF Dispatched, TypeOK
  <2>2. \A u \in Tasks : u[1] = d => task[u].pc = "none"
    BY <1>2, <2>1 DEF FlowInv, TurnCame
  <2>3. {u \in Tasks : u[1] = d /\ task[u].pc # "none"} = {}
    BY <2>2
  <2> QED BY <2>3, FS_EmptySet DEF Started
<1>7. ASSUME NEW d \in next PROVE Copies(b, d) = 1
  <2>1. PICK c \in workflow.conns : c.source = b /\ c.target = d
    BY DEF Dispatched, Dependents
  <2>2. Between(b, d) = {c}
    BY <2>1 DEF Between, SimpleFlows, TypeOK
  <2> QED BY <2>2, FS_Singleton DEF Copies
<1>8. \A u \in Tasks :
        task'[u] = IF u[1] \in next /\ ts[u].pc = "none" /\ u[2] <= 1 THEN Waiting ELSE ts[u]
  BY <1>1, <1>6, <1>7 DEF Spawn
<1>9. \A u \in Tasks : u[2] \in 1..MaxRuns /\ (u[2] <= 1 <=> u[2] = 1)
  BY EngineAssumption DEF Tasks
<1> QED BY <1>3, <1>4, <1>5, <1>8, <1>9

\* Completing a block: whoever is dispatched has its turn and its inputs, and
\* whoever is not still waits for somebody, or is behind a branch.
LEMMA CompleteFlowInv ==
  ASSUME SimpleFlows, TypeOK, FlowInv, NEW t \in Tasks, Complete(t)
  PROVE  FlowInv'
<1> DEFINE b == t[1]
           next == Dispatched(b, task[t].out)
<1>1. /\ task[t].pc = "complete" /\ server = "running" /\ server' = server
      /\ completed' = completed \cup {b}
      /\ UNCHANGED <<workflow, doc, outputs, failed>>
  BY DEF Complete, Locking, At, Rest
<1>2. /\ task'[t].pc = "cleanup"
      /\ \A u \in Tasks : u # t =>
           \/ task'[u] = task[u] /\ (task[u].pc = "none" /\ u[2] = 1 => u[1] \notin next)
           \/ task[u].pc = "none" /\ task'[u] = Waiting /\ u[2] = 1 /\ u[1] \in next
  BY CompleteStarts
<1>3. /\ b \in Blocks /\ t[2] = 1
      /\ \A u \in Tasks : u[2] = 1 /\ u[1] = b => u = t
  BY <1>1, OneGoroutine DEF FlowInv
<1>4. Waiting.pc = "wait" /\ ~ Waiting.served
  BY DEF Waiting, NoTask
<1>5. /\ outputs[b] = task[t].out /\ outputs[b] # NoOutput
      /\ ~ workflow.lossy => outputs[b] = doc.saved[b].out
  BY <1>1 DEF FlowInv, HasOutput, Agrees
<1>6. workflow \in Workflows
  BY DEF TypeOK
<1>7. \A d \in next : Dependencies(d) \subseteq completed \cup {b} /\ b \in Dependencies(d)
  BY <1>6, GraphSides DEF Dispatched, Ready
<1>8. OneEach'
  BY <1>2, <1>3, <1>4 DEF FlowInv, OneEach
<1>9. TurnCame'
  <2> SUFFICES ASSUME NEW u \in Tasks, task'[u].pc # "none"
               PROVE  Dependencies(u[1]) \subseteq completed \cup {b}
    BY <1>1, SameGraph DEF TurnCame
  <2>1. CASE task[u].pc # "none"
    BY <2>1 DEF FlowInv, TurnCame
  <2>2. CASE task[u].pc = "none"
    BY <1>1, <1>2, <1>7, <2>2
  <2> QED BY <2>1, <2>2
<1>10. b \notin completed /\ b \notin failed
  BY <1>1, <1>3 DEF FlowInv, OverWhenDone
<1>11. OverWhenDone'
  <2> SUFFICES ASSUME NEW u \in Tasks, u[2] = 1
               PROVE  /\ u[1] \in completed \cup {b} => task'[u].pc \in {"cleanup", "end"}
                      /\ u[1] \in failed => task'[u].pc = "end"
                      /\ task'[u].pc = "cleanup" => u[1] \in completed \cup {b}
                      /\ task'[u].pc = "end" => u[1] \in completed \cup {b} \cup failed
    BY <1>1 DEF OverWhenDone
  <2>1. CASE u = t
    BY <1>2, <1>10, <2>1
  <2>2. CASE u # t
    <3>1. u[1] # b
      BY <1>3, <2>2
    <3> QED BY <1>2, <1>4, <2>2, <3>1 DEF FlowInv, OverWhenDone
  <2> QED BY <2>1, <2>2
<1>12. HasOutput'
  BY <1>1, <1>2, <1>4 DEF FlowInv, HasOutput
<1>13. Kept'
  BY <1>1, <1>5, SameGraph DEF FlowInv, Kept
<1>14. Visible'
  <2> SUFFICES ASSUME NEW u \in Tasks, NEW d \in Dependencies(u[1])
               PROVE  /\ task'[u].pc \in {"wait", "read"} => outputs[d] # NoOutput
                      /\ task'[u].pc = "lookup" => task'[u].seen[d] # NoOutput
    BY <1>1, SameGraph DEF Visible
  <2>1. CASE u # t /\ task[u].pc = "none" /\ u[1] \in next /\ u[2] = 1 /\ task'[u] = Waiting
    <3>1. d \in completed \cup {b} /\ u[1] \in Dependents(d)
      BY <1>6, <1>7, <2>1, GraphSides
    <3>2. u[1] \notin completed \cup failed
      BY <2>1 DEF FlowInv, OverWhenDone
    <3>3. outputs[d] # NoOutput
      BY <1>5, <3>1, <3>2 DEF FlowInv, Kept
    <3> QED BY <1>4, <2>1, <3>3
  <2>2. CASE task'[u] = task[u] \/ u = t
    BY <1>2, <2>2 DEF FlowInv, Visible
  <2> QED BY <1>2, <2>1, <2>2
<1>15. Agrees'
  BY <1>1, <1>2, <1>4 DEF FlowInv, Agrees
<1>16. Durable'
  BY <1>1, <1>5 DEF FlowInv, Durable
<1>17. NobodyForgotten'
  <2> SUFFICES ASSUME ~ workflow.lossy, NEW u \in Tasks, u[2] = 1, u[1] \in Present,
                      task'[u].pc = "none", Dependencies(u[1]) \subseteq completed \cup {b}
               PROVE  \E d \in Dependencies(u[1]) : BranchBlocked(d, u[1], doc.saved[d].out)
    BY <1>1, SameGraph DEF NobodyForgotten
  <2>1. u # t /\ task[u].pc = "none" /\ u[1] \notin next
    BY <1>2, <1>4
  <2>2. CASE b \in Dependencies(u[1])
    <3>1. u[1] \in Dependents(b) /\ Ready(u[1], completed \cup {b})
      BY <1>6, <2>2, GraphSides DEF Ready
    <3>2. BranchBlocked(b, u[1], task[t].out)
      BY <2>1, <3>1 DEF Dispatched
    <3> QED BY <1>5, <2>2, <3>2
  <2>3. CASE b \notin Dependencies(u[1])
    BY <1>1, <2>1, <2>3 DEF FlowInv, NobodyForgotten
  <2> QED BY <2>2, <2>3
<1>18. AtRest'
  BY <1>1 DEF AtRest
<1> QED
  BY <1>8, <1>9, <1>11, <1>12, <1>13, <1>14, <1>15, <1>16, <1>17, <1>18 DEF FlowInv

-----------------------------------------------------------------------------
(* Loops do not happen; the end, crashes and resumption.                   *)

\* Without a for_each no goroutine is that of a loop.
LEMMA NoLoopSteps ==
  ASSUME SimpleFlows, TypeOK, FlowInv, NEW t \in Tasks
  PROVE  /\ ~ (CompleteLoop(t) \/ NextItem(t) \/ Join(t) \/ Settle(t) \/ Settled(t) \/ LoopDone(t))
         /\ \A d \in Blocks : ~ (RunBody(t, d) \/ SkipBody(t, d))
<1>1. task[t].pc \notin {"item", "body", "join", "settle"}
  BY DEF FlowInv, OneEach
<1>2. workflow.kind[t[1]] # "for_each"
  BY DEF SimpleFlows, TypeOK, Tasks
<1> QED BY <1>1, <1>2
    DEF CompleteLoop, NextItem, Join, Settle, Settled, LoopDone, RunBody, SkipBody, At, Locking

\* The server ends, crashes, comes back and resumes with an empty memory.
LEMMA ServerFlowInv ==
  ASSUME TypeOK, FlowInv, EndExecution \/ Crash \/ GoStale \/ Boot \/ Scan
  PROVE  FlowInv'
<1>1. workflow' = workflow /\ workflow \in Workflows
  BY DEF EndExecution, Crash, GoStale, Boot, Scan, TypeOK
<1>2. ASSUME UNCHANGED <<outputs, completed, failed, task>>, doc'.saved = doc.saved,
             NobodyForgotten', AtRest'
      PROVE  FlowInv'
  <2>1. OneEach' /\ TurnCame' /\ OverWhenDone' /\ HasOutput'
    BY <1>1, <1>2, SameGraph DEF FlowInv, OneEach, TurnCame, OverWhenDone, HasOutput
  <2>2. Kept' /\ Visible' /\ Agrees' /\ Durable'
    BY <1>1, <1>2, SameGraph DEF FlowInv, Kept, Visible, Agrees, Durable
  <2> QED BY <1>2, <2>1, <2>2 DEF FlowInv
<1>3. CASE EndExecution
  <2>1. UNCHANGED <<outputs, completed, failed, task>> /\ doc'.saved = doc.saved
    BY <1>3 DEF EndExecution, memory, TypeOK
  <2>2. server = "running" /\ server' = "ended" /\ Finished
    BY <1>3 DEF EndExecution
  <2>3. AtRest'
    BY <2>1, <2>2 DEF AtRest, Finished
  <2>4. NobodyForgotten'
    BY <1>1, <2>1, <2>2, SameGraph DEF FlowInv, NobodyForgotten
  <2> QED BY <1>2, <2>1, <2>3, <2>4
<1>4. CASE Crash
  <2>1. /\ server' = "down" /\ completed' = {} /\ failed' = {} /\ outputs' = Nothing
        /\ \A t \in Tasks : task'[t] = NoTask
        /\ NoTask.pc = "none"
    BY <1>4 DEF Crash, Forget, NoTask
  <2>2. OneEach' /\ TurnCame' /\ OverWhenDone' /\ HasOutput' /\ Kept'
    BY <2>1 DEF OneEach, TurnCame, OverWhenDone, HasOutput, Kept
  <2>3. Visible' /\ Agrees' /\ Durable' /\ NobodyForgotten' /\ AtRest'
    BY <2>1 DEF Visible, Agrees, Durable, NobodyForgotten, AtRest
  <2> QED BY <2>2, <2>3 DEF FlowInv
<1>5. CASE GoStale
  <2>1. UNCHANGED <<outputs, completed, failed, task, server>> /\ doc'.saved = doc.saved
    BY <1>5 DEF GoStale, memory, TypeOK
  <2>2. server = "down"
    BY <1>5 DEF GoStale
  <2>3. AtRest' /\ NobodyForgotten'
    BY <2>1, <2>2 DEF FlowInv, AtRest, NobodyForgotten
  <2> QED BY <1>2, <2>1, <2>3
<1>6. CASE Boot
  <2>1. UNCHANGED <<outputs, completed, failed, task>> /\ doc'.saved = doc.saved
    BY <1>6 DEF Boot, memory
  <2>2. server = "down" /\ server' = "up"
    BY <1>6 DEF Boot
  <2>3. AtRest' /\ NobodyForgotten'
    BY <2>1, <2>2 DEF FlowInv, AtRest, NobodyForgotten
  <2> QED BY <1>2, <2>1, <2>3
<1>7. CASE Scan
  <2>1. server = "up" /\ UNCHANGED <<outputs, completed, failed>>
    BY <1>7 DEF Scan, memory
  <2>2. completed = {} /\ failed = {} /\ outputs = Nothing
    BY <2>1 DEF FlowInv, AtRest
  <2>3. CASE Orphaned
    <3>1. server' = "running" /\ task' = FreshTasks /\ workflow' = workflow
      BY <1>1, <1>7, <2>3 DEF Scan
    <3>2. workflow' \in Workflows /\ completed' = {} /\ failed' = {} /\ outputs' = Nothing
      BY <1>1, <2>1, <2>2
    <3>3. Fresh'
      BY <3>1, <3>2 DEF Fresh, FreshTasks, StartBlocks, Present, Dependencies
    <3> QED BY <3>3, FreshFlowInvNext
  <2>4. CASE ~ Orphaned
    <3>1. server' = "idle" /\ UNCHANGED <<task, doc>>
      BY <1>7, <2>4 DEF Scan
    <3>2. AtRest' /\ NobodyForgotten'
      BY <3>1 DEF AtRest, NobodyForgotten
    <3> QED BY <1>2, <2>1, <3>1, <3>2
  <2> QED BY <2>3, <2>4
<1> QED BY <1>3, <1>4, <1>5, <1>6, <1>7

\* The user does not edit a workflow that runs: an execution has a snapshot of it.
LEMMA NextKeepsWorkflow == Next => workflow' = workflow
<1> SUFFICES ASSUME Next PROVE workflow' = workflow
  OBVIOUS
<1>1. ASSUME NEW t \in Tasks, TaskStep(t) PROVE workflow' = workflow
  BY <1>1 DEF TaskStep, Rest, Acquire, Read, Lookup, Execute, ExecuteFail, Fail, Store, Save,
     LookupLost, SaveLost, Complete, Cleanup, CompleteLoop, NextItem, Join, Settle, Settled,
     LoopDone, RunBody, SkipBody
<1> QED BY <1>1 DEF Next, EndExecution, Crash, GoStale, Boot, Scan

\* Every step keeps the invariant.
LEMMA NextFlowInv ==
  ASSUME SimpleFlows
  PROVE  TypeOK /\ FlowInv /\ [Next]_vars => FlowInv'
<1> SUFFICES ASSUME TypeOK, FlowInv, [Next]_vars PROVE FlowInv'
  OBVIOUS
<1>1. CASE UNCHANGED vars
  BY <1>1, SameGraph
  DEF vars, FlowInv, OneEach, TurnCame, OverWhenDone, HasOutput, Kept, Visible, Agrees,
      Durable, NobodyForgotten, AtRest, Finished
<1>2. ASSUME NEW t \in Tasks, TaskStep(t) PROVE FlowInv'
  BY <1>2, ExecuteFlowInv, FailFlowInv, CleanupFlowInv, CompleteFlowInv, NoLoopSteps
  DEF TaskStep
<1> QED BY <1>1, <1>2, ServerFlowInv DEF Next

\* The invariant holds in every state of every execution.
LEMMA FlowInvHolds ==
  ASSUME SimpleFlows
  PROVE  Spec => [](TypeOK /\ FlowInv)
<1>1. Init => TypeOK /\ FlowInv
  BY InitTyped, FreshFlowInv DEF Init, Fresh
<1>2. TypeOK /\ FlowInv /\ [Next]_vars => TypeOK' /\ FlowInv'
  BY NextTyped, NextFlowInv
<1> QED BY <1>1, <1>2, PTL DEF Spec

-----------------------------------------------------------------------------
\* Memory cleanup never drops the output of a block before all its consumers
\* have read it.
THEOREM ConnectedIsVisibleHolds ==
  ASSUME SimpleFlows
  PROVE  Spec => []ConnectedIsVisible
<1>1. FlowInv => ConnectedIsVisible
  BY DEF FlowInv, Visible, ConnectedIsVisible, Reading
<1> QED BY <1>1, FlowInvHolds, PTL

\* Dependents start from durable outputs, across crashes and resumptions.
THEOREM DurableBeforeNextHolds ==
  ASSUME SimpleFlows
  PROVE  Spec => []DurableBeforeNext
<1>1. FlowInv => DurableBeforeNext
  BY DEF FlowInv, Durable, DurableBeforeNext
<1> QED BY <1>1, FlowInvHolds, PTL

\* Dispatch loses no wake-up: what never ran when an execution ends was waiting
\* for a block that did not complete, or is behind a branch not taken.
THEOREM NobodyLeftBehindHolds ==
  ASSUME SimpleFlows, ReliableStore
  PROVE  Spec => []NobodyLeftBehind
<1>1. TypeOK /\ FlowInv => NobodyLeftBehind
  <2> SUFFICES ASSUME TypeOK, FlowInv, server = "ended", NEW b \in Present \ (completed \cup failed),
                      Dependencies(b) \subseteq completed
               PROVE  \E d \in Dependencies(b) : BranchBlocked(d, b, doc.saved[d].out)
    BY DEF NobodyLeftBehind
  <2>1. ~ workflow.lossy
    BY DEF ReliableStore, TypeOK
  <2>2. b \in Blocks
    BY DEF Present
  <2>3. <<b, 1>> \in Tasks /\ <<b, 1>>[1] = b /\ <<b, 1>>[2] = 1
    BY <2>2, FirstGoroutine
  <2>4. task[<<b, 1>>].pc = "none"
    BY <2>3 DEF FlowInv, AtRest, Finished, OverWhenDone
  <2> QED BY <2>1, <2>3, <2>4 DEF FlowInv, NobodyForgotten
<1> QED BY <1>1, FlowInvHolds, PTL

\* A goroutine is started for a block only when everything it depends on has
\* completed, in this run of the server.
THEOREM StartsWhenReadyHolds ==
  ASSUME SimpleFlows
  PROVE  Spec => StartsWhenReady
<1> DEFINE Step == \A t \in Tasks :
             server = "running" /\ task[t].pc = "none" /\ task'[t].pc = "wait"
               => Dependencies(t[1]) \subseteq completed'
<1>1. TypeOK /\ FlowInv /\ [Next]_vars => [Step]_vars
  <2> SUFFICES ASSUME TypeOK, FlowInv, Next, FlowInv',
                      NEW t \in Tasks, task'[t].pc = "wait"
               PROVE  Dependencies(t[1]) \subseteq completed'
    BY NextFlowInv
  <2>1. workflow' = workflow
    BY NextKeepsWorkflow
  <2>2. Dependencies(t[1])' \subseteq completed'
    BY DEF FlowInv, TurnCame
  <2> QED BY <2>1, <2>2, SameGraph
<1>2. [](TypeOK /\ FlowInv) /\ [][Next]_vars => [][Step]_vars
  BY <1>1, PTL
<1> QED BY <1>2, FlowInvHolds DEF Spec, StartsWhenReady

-----------------------------------------------------------------------------
(* Loops.  For tidy workflows, first the blocks that are in no loop.       *)

\* The graph of a workflow, its loops and what they stand for do not change.
LEMMA SameLoops ==
  ASSUME workflow' = workflow
  PROVE  /\ Loops' = Loops /\ Tidy' = Tidy
         /\ \A b : /\ Dependencies(b)' = Dependencies(b) /\ Dependents(b)' = Dependents(b)
                   /\ LoopDeps(b)' = LoopDeps(b) /\ DoneDeps(b)' = DoneDeps(b)
                   /\ LoopBody(b)' = LoopBody(b) /\ InLoop(b)' = InLoop(b)
                   /\ SelfContained(b)' = SelfContained(b)
<1>1. \A b, d : Between(b, d)' = Between(b, d)
  BY DEF Between
<1>2. Loops' = Loops
  BY DEF Loops
<1>3. \A b : Dependencies(b)' = Dependencies(b) /\ Dependents(b)' = Dependents(b)
  BY DEF Dependencies, Dependents
<1>4. \A b : LoopDeps(b)' = LoopDeps(b) /\ DoneDeps(b)' = DoneDeps(b)
  BY <1>1, <1>3 DEF LoopDeps, DoneDeps
<1>5. \A b : LoopBody(b)' = LoopBody(b)
  BY <1>3, <1>4 DEF LoopBody
<1>6. \A b : InLoop(b)' = InLoop(b) /\ SelfContained(b)' = SelfContained(b)
  <2>1. \A b : InLoop(b)' <=> InLoop(b)
    BY <1>2, <1>5 DEF InLoop
  <2> QED BY <1>2, <1>3, <1>4, <1>5, <2>1 DEF InLoop, SelfContained
<1>7. \A b, d : Copies(b, d)' = Copies(b, d)
  BY <1>1 DEF Copies
<1>8. Tidy' = Tidy
  BY <1>2, <1>3, <1>4, <1>5, <1>7 DEF Tidy
<1> QED BY <1>2, <1>3, <1>4, <1>5, <1>6, <1>8

\* The body of a loop is what the loop starts and all that follows, without the loop and
\* the blocks behind its done port; and it has nothing else: every block of it follows from
\* the loop or from another block of it.
LEMMA BodyOfLoop ==
  ASSUME workflow \in Workflows, NEW f
  PROVE  /\ LoopBody(f) \subseteq Blocks
         /\ LoopDeps(f) \ (DoneDeps(f) \cup {f}) \subseteq LoopBody(f)
         /\ \A x \in LoopBody(f) : Dependents(x) \ (DoneDeps(f) \cup {f}) \subseteq LoopBody(f)
         /\ LoopBody(f) \cap (DoneDeps(f) \cup {f}) = {}
         /\ \A x \in LoopBody(f) :
              f \in Dependencies(x) \/ Dependencies(x) \cap LoopBody(f) # {}
<1> DEFINE stop == DoneDeps(f) \cup {f}
           Closed(S) == /\ LoopDeps(f) \ stop \subseteq S
                        /\ \A x \in S : Dependents(x) \ stop \subseteq S
<1>1. LoopBody(f) = {x \in Blocks : \A S \in SUBSET Blocks : Closed(S) => x \in S}
  BY DEF LoopBody
<1>2. \A b : Dependents(b) \subseteq Blocks /\ LoopDeps(b) \subseteq Blocks
  BY DependentsTyped
<1>3. LoopDeps(f) \subseteq Dependents(f)
  BY DEF LoopDeps
<1>4. LoopDeps(f) \ stop \subseteq LoopBody(f)
  BY <1>1, <1>2
<1>5. ASSUME NEW x \in LoopBody(f), NEW y \in Dependents(x) \ stop PROVE y \in LoopBody(f)
  BY <1>1, <1>2, <1>5
<1>6. LoopBody(f) \cap stop = {}
  <2>1. Closed(Blocks \ stop)
    BY <1>2
  <2> QED BY <1>1, <2>1
<1>7. ASSUME NEW x \in LoopBody(f), f \notin Dependencies(x),
             Dependencies(x) \cap LoopBody(f) = {}
      PROVE  FALSE
  <2> DEFINE S == LoopBody(f) \ {x}
  <2>1. x \notin LoopDeps(f)
    BY <1>3, <1>7, GraphSides
  <2>2. \A y \in S : x \notin Dependents(y)
    BY <1>7, GraphSides
  <2>3. LoopDeps(f) \ stop \subseteq S /\ \A y \in S : Dependents(y) \ stop \subseteq S
    BY <1>4, <1>5, <2>1, <2>2
  <2>4. S \in SUBSET Blocks
    BY <1>1
  <2> HIDE DEF S
  <2>5. x \in S
    BY <1>1, <2>3, <2>4
  <2> QED BY <2>5 DEF S
<1> QED BY <1>1, <1>4, <1>5, <1>6, <1>7

\* What a block outside loops depends on is outside loops; so is what is behind the done port
\* of such a loop.  What a loop starts is its body.
LEMMA OutsideLoops ==
  ASSUME Tidy, workflow \in Workflows
  PROVE  /\ \A y \in Blocks : ~ InLoop(y) => \A x \in Dependencies(y) : ~ InLoop(x)
         /\ \A f \in Loops : /\ LoopDeps(f) \subseteq LoopBody(f)
                             /\ \A d \in DoneDeps(f) : Dependencies(d) = {f}
         /\ \A f \in Loops : ~ InLoop(f) => \A d \in DoneDeps(f) : ~ InLoop(d)
<1>1. \A f \in Loops : /\ LoopDeps(f) \subseteq LoopBody(f)
                       /\ \A d \in DoneDeps(f) : Dependencies(d) = {f}
  BY BodyOfLoop DEF Tidy
<1>2. ASSUME NEW y \in Blocks, NEW x \in Dependencies(y), InLoop(x) PROVE InLoop(y)
  <2>1. PICK g \in Loops : x \in LoopBody(g)
    BY <1>2 DEF InLoop
  <2>2. y \in Dependents(x) /\ g \notin LoopBody(g)
    BY <2>1, GraphSides, BodyOfLoop
  <2>3. y # g
    BY <2>1 DEF Tidy
  <2>4. y \notin DoneDeps(g)
    BY <1>1, <2>1, <2>2
  <2>5. y \in LoopBody(g)
    BY <2>1, <2>2, <2>3, <2>4, BodyOfLoop
  <2> QED BY <2>5 DEF InLoop
<1>3. ASSUME NEW f \in Loops, ~ InLoop(f), NEW d \in DoneDeps(f), InLoop(d) PROVE FALSE
  <2>1. PICK g \in Loops : d \in LoopBody(g)
    BY <1>3 DEF InLoop
  <2>2. g \in Dependencies(d) \/ Dependencies(d) \cap LoopBody(g) # {}
    BY <2>1, BodyOfLoop
  <2>3. Dependencies(d) = {f}
    BY <1>1
  <2>4. d \notin LoopBody(f)
    BY BodyOfLoop
  <2> QED BY <1>3, <2>1, <2>2, <2>3, <2>4 DEF InLoop
<1> QED BY <1>1, <1>2, <1>3

\* The body of a loop that is self-contained and in no loop belongs to no other loop.
LEMMA BodiesApart ==
  ASSUME Tidy, workflow \in Workflows, NEW f \in Loops, SelfContained(f), ~ InLoop(f),
         NEW g \in Loops, g # f
  PROVE  LoopBody(g) \cap LoopBody(f) = {}
<1> DEFINE S == LoopBody(g) \ LoopBody(f)
           stop == DoneDeps(g) \cup {g}
<1>1. \A y \in LoopBody(f) : \A x \in Dependencies(y) \ {f} :
        x \notin Loops /\ (InLoop(x) => x \in LoopBody(f))
  BY DEF SelfContained
<1>2. LoopDeps(g) \ stop \subseteq S
  <2> SUFFICES ASSUME NEW e \in LoopDeps(g), e \in LoopBody(f) PROVE FALSE
    BY BodyOfLoop
  <2>1. g \in Dependencies(e)
    BY GraphSides DEF LoopDeps
  <2> QED BY <1>1, <2>1
<1>3. ASSUME NEW x \in S, NEW y \in Dependents(x), y \notin stop PROVE y \in S
  <2>1. y \in LoopBody(g)
    BY <1>3, BodyOfLoop
  <2>2. x \in Dependencies(y) /\ InLoop(x)
    BY GraphSides DEF InLoop
  <2> QED BY <1>1, <2>1, <2>2
<1>4. S \in SUBSET Blocks
  BY BodyOfLoop
<1>5. LoopBody(g) \subseteq S
  <2> HIDE DEF S
  <2> QED BY <1>2, <1>3, <1>4 DEF LoopBody
<1> QED BY <1>5

-----------------------------------------------------------------------------
(* The goroutines of any workflow.                                         *)

LoopPcs == {"item", "body", "join", "settle"}

\* The goroutines of a block are numbered as they start.
Consecutive ==
  \A u, v \in Tasks : u[1] = v[1] /\ u[2] < v[2] /\ task[v].pc # "none" => task[u].pc # "none"

\* Who cleans up, or is about to start an item or a block of a body, holds completedMu.
Mutex == \A u \in Tasks : task[u].pc \in {"cleanup", "item", "body"} => holder = u

\* A for_each iterates, over what it is connected to, and no other block does.
LoopsIterate ==
  \A u \in Tasks : /\ task[u].todo \subseteq LoopDeps(u[1])
                   /\ task[u].pc \in LoopPcs => u[1] \in Loops
                   /\ task[u].pc = "cleanup" => u[1] \notin Loops

GoroutineInv == Consecutive /\ Mutex /\ LoopsIterate /\ AtRest

\* The number of goroutines a block has had, in a set that Cardinality can count.
LEMMA NumberedTasks ==
  ASSUME NEW b, NEW n \in Nat
  PROVE  IsFiniteSet({b} \X (1..n)) /\ Cardinality({b} \X (1..n)) = n
<1>1. IsFiniteSet(1..n) /\ Cardinality(1..n) = n
  BY FS_Interval
<1>2. IsFiniteSet({b}) /\ Cardinality({b}) = 1
  BY FS_Singleton
<1> QED BY <1>1, <1>2, FS_Product

\* The k-th goroutine of a block was started when the block has had k.
LEMMA StartedCounts ==
  ASSUME Consecutive, NEW b \in Blocks, NEW k \in 1..MaxRuns
  PROVE  /\ <<b, k>> \in Tasks /\ Started(b) \in Nat
         /\ task[<<b, k>>].pc # "none" <=> k <= Started(b)
<1> DEFINE S == {u \in Tasks : u[1] = b /\ task[u].pc # "none"}
<1>1. MaxRuns \in Nat /\ k \in Nat /\ k >= 1
  BY EngineAssumption
<1>2. <<b, k>> \in Tasks
  BY DEF Tasks
<1>3. Started(b) \in Nat /\ Started(b) = Cardinality(S)
  BY StartedTyped DEF Started
<1>4. IsFiniteSet(S)
  <2>1. IsFiniteSet({b} \X (1..MaxRuns))
    BY <1>1, NumberedTasks
  <2>2. S \subseteq {b} \X (1..MaxRuns)
    BY DEF Tasks
  <2> QED BY <2>1, <2>2, FS_Subset
<1>5. CASE task[<<b, k>>].pc # "none"
  <2>1. {b} \X (1..k) \subseteq S
    <3> SUFFICES ASSUME NEW u \in {b} \X (1..k) PROVE u \in S
      OBVIOUS
    <3>1. u = <<b, u[2]>> /\ u[1] = b /\ u[2] \in 1..MaxRuns /\ u[2] <= k
      BY <1>1
    <3>2. u \in Tasks
      BY <3>1 DEF Tasks
    <3>3. task[u].pc # "none"
      <4>1. CASE u[2] = k
        BY <1>5, <3>1, <4>1
      <4>2. CASE u[2] # k
        <5>1. u[2] < <<b, k>>[2] /\ u[1] = <<b, k>>[1]
          BY <1>1, <3>1, <4>2
        <5> QED BY <1>2, <1>5, <3>2, <5>1 DEF Consecutive
      <4> QED BY <4>1, <4>2
    <3> QED BY <3>1, <3>2, <3>3
  <2>2. Cardinality({b} \X (1..k)) = k
    BY <1>1, NumberedTasks
  <2>3. k <= Cardinality(S)
    <3> HIDE DEF S
    <3> QED BY <1>4, <2>1, <2>2, FS_Subset
  <2> QED BY <1>2, <1>3, <1>5, <2>3
<1>6. CASE task[<<b, k>>].pc = "none"
  <2>1. S \subseteq {b} \X (1..(k - 1))
    <3> SUFFICES ASSUME NEW u \in S PROVE u \in {b} \X (1..(k - 1))
      OBVIOUS
    <3>1. u \in Tasks /\ u = <<b, u[2]>> /\ u[2] \in 1..MaxRuns /\ task[u].pc # "none"
      BY DEF Tasks
    <3>2. ~ (k < u[2])
      BY <1>2, <1>6, <3>1 DEF Consecutive
    <3>3. u[2] # k
      BY <1>6, <3>1
    <3>4. u[2] \in 1..(k - 1)
      BY <1>1, <3>1, <3>2, <3>3
    <3> QED BY <3>1, <3>4
  <2>2. k - 1 \in Nat
    BY <1>1
  <2>3. IsFiniteSet({b} \X (1..(k - 1))) /\ Cardinality({b} \X (1..(k - 1))) = k - 1
    BY <2>2, NumberedTasks
  <2>4. Cardinality(S) <= k - 1
    <3> HIDE DEF S
    <3> QED BY <2>1, <2>3, FS_Subset
  <2> QED BY <1>1, <1>2, <1>3, <1>6, <2>4
<1> QED BY <1>5, <1>6

\* What a goroutine does up to its completion: nobody else moves, and nothing is completed.
LEMMA ExecutesAlone ==
  ASSUME TypeOK, NEW t \in Tasks,
         \/ Acquire(t) \/ Read(t) \/ Lookup(t) \/ Execute(t) \/ ExecuteFail(t)
         \/ Store(t) \/ Save(t) \/ LookupLost(t) \/ SaveLost(t)
  PROVE  /\ server = "running" /\ task[t].pc \in Early /\ task'[t].pc \in Early
         /\ task'[t].todo = task[t].todo
         /\ \A u \in Tasks : u # t => task'[u] = task[u]
         /\ UNCHANGED <<workflow, server, completed, failed, holder, crashes>>
<1>1. task \in [Tasks -> Task] /\ task[t] \in Task
  BY DEF TypeOK
<1>2. CASE Acquire(t)
  BY <1>1, <1>2 DEF Acquire, At, Go, Rest, Early, Task
<1>3. CASE Read(t)
  BY <1>1, <1>3 DEF Read, At, Rest, memory, Early, Task
<1>4. CASE Lookup(t)
  <2>1. CASE Serves(doc.saved[t[1]], task[t].seen)
    BY <1>1, <1>4, <2>1 DEF Lookup, At, Rest, memory, Early, Task
  <2>2. CASE ~ Serves(doc.saved[t[1]], task[t].seen)
    BY <1>1, <1>4, <2>2 DEF Lookup, At, Rest, memory, Early, Task
  <2> QED BY <2>1, <2>2
<1>5. CASE Execute(t)
  <2>1. PICK branch \in Choices(t[1]) :
          task' = [task EXCEPT ![t].pc = "store",
                     ![t].out = [run |-> fired'[t[1]], branch |-> branch, item |-> 0]]
    BY <1>5 DEF Execute
  <2>2. /\ task'[t].pc = "store" /\ task'[t].todo = task[t].todo
        /\ \A u \in Tasks : u # t => task'[u] = task[u]
    BY <1>1, <2>1 DEF Task
  <2> QED BY <1>5, <2>2 DEF Execute, At, Rest, memory, Early
<1>6. CASE ExecuteFail(t)
  BY <1>1, <1>6 DEF ExecuteFail, At, Go, Rest, Early, Task
<1>7. CASE Store(t)
  BY <1>1, <1>7 DEF Store, AfterStore, At, Go, Rest, Early, Task
<1>8. CASE Save(t)
  BY <1>1, <1>8 DEF Save, At, Go, Rest, memory, Early, Task
<1>9. CASE LookupLost(t)
  BY <1>1, <1>9 DEF LookupLost, At, Go, Rest, memory, Early, Task
<1>10. CASE SaveLost(t)
  BY <1>1, <1>10 DEF SaveLost, At, Go, Rest, memory, Early, Task
<1> QED BY <1>2, <1>3, <1>4, <1>5, <1>6, <1>7, <1>8, <1>9, <1>10

\* What a goroutine does that ends without dispatching anybody.
LEMMA EndsAlone ==
  ASSUME TypeOK, NEW t \in Tasks, Fail(t) \/ Cleanup(t)
  PROVE  /\ server = "running" /\ task'[t] = Ended /\ Ended.pc = "end" /\ ~ Ended.served
         /\ \A u \in Tasks : u # t => task'[u] = task[u]
         /\ UNCHANGED <<workflow, doc, server, completed, fired, crashes>>
         /\ Fail(t) => /\ task[t].pc = "fail" /\ holder = None /\ holder' = None
                       /\ failed' = failed \cup {t[1]} /\ outputs' = outputs
         /\ Cleanup(t) => task[t].pc = "cleanup" /\ holder' = None /\ failed' = failed
<1>1. task \in [Tasks -> Task]
  BY DEF TypeOK
<1>2. Ended.pc = "end" /\ ~ Ended.served
  BY DEF Ended, NoTask
<1> QED BY <1>1, <1>2 DEF Fail, Cleanup, Locking, At, End, Rest

\* What the goroutine of a for_each does that starts nobody.
LEMMA IteratesAlone ==
  ASSUME TypeOK, NEW t \in Tasks,
         \/ CompleteLoop(t) \/ NextItem(t) \/ Join(t) \/ Settle(t) \/ Settled(t)
         \/ \E d \in Blocks : SkipBody(t, d)
  PROVE  /\ server = "running" /\ task'[t].pc \in LoopPcs /\ task[t].pc \notin {"none", "end"}
         /\ \A u \in Tasks : u # t => task'[u] = task[u]
         /\ UNCHANGED <<workflow, doc, server, failed, fired, crashes>>
         /\ task'[t].served = task[t].served /\ task'[t].out = task[t].out
         /\ CompleteLoop(t) => /\ task[t].pc = "complete" /\ task'[t].pc = "item"
                               /\ task'[t].item = 0 /\ task'[t].todo = task[t].todo
                               /\ t[1] \in Loops /\ holder' = t
                               /\ holder = None /\ completed' = completed \cup {t[1]}
                               /\ outputs' = outputs
         /\ NextItem(t) => /\ task[t].pc = "item" /\ task'[t].pc = "body"
                           /\ task'[t].item = task[t].item /\ task'[t].todo = LoopDeps(t[1])
                           /\ completed' = completed \ LoopBody(t[1]) /\ holder' = holder
         /\ Join(t) => /\ task[t].pc = "join" /\ task'[t].pc = "body" /\ holder = None
                       /\ holder' = t
         /\ Settle(t) => /\ task[t].pc = "body" /\ task'[t].pc = "settle" /\ holder' = None
         /\ Settled(t) => /\ task[t].pc = "settle" /\ task'[t].pc = "item" /\ holder = None
                          /\ holder' = t /\ LoopBody(t[1]) \subseteq completed
                          /\ task'[t].item = task[t].item + 1
         /\ Join(t) \/ Settle(t) \/ Settled(t) =>
              /\ task'[t].todo = task[t].todo
              /\ completed' = completed /\ outputs' = outputs
         /\ Join(t) \/ Settle(t) => task'[t].item = task[t].item
         /\ (\E d \in Blocks : SkipBody(t, d)) =>
              /\ task[t].pc = "body" /\ task'[t].pc = "body"
              /\ task'[t].todo \subseteq task[t].todo /\ task'[t].item = task[t].item
              /\ UNCHANGED <<holder, completed, outputs>>
<1>1. task \in [Tasks -> Task] /\ task[t] \in Task /\ t[1] \in Blocks
  BY DEF TypeOK, Tasks
<1>2. CASE CompleteLoop(t)
  BY <1>1, <1>2 DEF CompleteLoop, Locking, At, Rest, LoopPcs, Task, Loops, NextItem, Join,
     Settle, Settled, SkipBody
<1>3. CASE NextItem(t)
  BY <1>1, <1>3 DEF NextItem, At, Rest, LoopPcs, Task, CompleteLoop, Locking, Join,
     Settle, Settled, SkipBody
<1>4. CASE Join(t)
  BY <1>1, <1>4 DEF Join, Locking, At, Rest, memory, LoopPcs, Task, CompleteLoop, NextItem,
     Settle, Settled, SkipBody
<1>5. CASE Settle(t)
  BY <1>1, <1>5 DEF Settle, At, Go, Rest, memory, LoopPcs, Task, CompleteLoop, NextItem, Join,
     Locking, Settled, SkipBody
<1>6. CASE Settled(t)
  BY <1>1, <1>6 DEF Settled, BodyDone, Locking, At, Rest, memory, LoopPcs, Task, CompleteLoop,
     NextItem, Join, Settle, SkipBody
<1>7. ASSUME NEW d \in Blocks, SkipBody(t, d)
      PROVE  /\ server = "running" /\ task'[t].pc = "body" /\ task[t].pc = "body"
             /\ \A u \in Tasks : u # t => task'[u] = task[u]
             /\ task'[t].todo \subseteq task[t].todo /\ task'[t].item = task[t].item
             /\ task'[t].served = task[t].served /\ task'[t].out = task[t].out
             /\ UNCHANGED <<workflow, doc, server, failed, fired, crashes, holder, completed, outputs>>
  BY <1>1, <1>7 DEF SkipBody, At, Rest, memory, Task
<1>8. CASE \E d \in Blocks : SkipBody(t, d)
  <2>1. PICK d \in Blocks : SkipBody(t, d)
    BY <1>8
  <2>2. ~ (CompleteLoop(t) \/ NextItem(t) \/ Join(t) \/ Settled(t))
    BY <1>7, <2>1 DEF CompleteLoop, NextItem, Join, Settled, Locking, At
  <2>3. ~ Settle(t)
    <3>1. Settle(t) => task'[t].pc = "settle"
      BY <1>1 DEF Settle, Go, Task
    <3> QED BY <1>7, <2>1, <3>1
  <2>4. "body" \in LoopPcs
    BY DEF LoopPcs
  <2> QED BY <1>7, <1>8, <2>1, <2>2, <2>3, <2>4
<1> QED BY <1>2, <1>3, <1>4, <1>5, <1>6, <1>8

\* Who is started when t dispatches the blocks D, and who is not.
Starts(t, D) ==
  \A u \in Tasks : u # t =>
    IF u[1] \in D /\ task[u].pc = "none" /\ u[2] <= Started(u[1]) + Copies(t[1], u[1])
      THEN task'[u] = Waiting ELSE task'[u] = task[u]

\* Completing a block dispatches dependents.
LEMMA CompleteEffect ==
  ASSUME TypeOK, NEW t \in Tasks, Complete(t)
  PROVE  /\ server = "running" /\ task[t].pc = "complete" /\ task'[t].pc = "cleanup"
         /\ task'[t].todo = task[t].todo /\ t[1] \notin Loops /\ holder = None /\ holder' = t
         /\ completed' = completed \cup {t[1]}
         /\ Starts(t, Dispatched(t[1], task[t].out))
         /\ UNCHANGED <<workflow, doc, server, outputs, failed, fired, crashes>>
<1> DEFINE ts == [task EXCEPT ![t].pc = "cleanup"]
           next == Dispatched(t[1], task[t].out)
<1>1. task \in [Tasks -> Task] /\ task[t] \in Task /\ t[1] \in Blocks
  BY DEF TypeOK, Tasks
<1>2. task[t].pc = "complete" /\ task' = Spawn(ts, t[1], next)
  BY DEF Complete, Locking, At
<1>3. ts[t].pc = "cleanup" /\ ts[t].todo = task[t].todo /\ \A u \in Tasks : u # t => ts[u] = task[u]
  BY <1>1 DEF Task
<1>4. \A u \in Tasks : task'[u] = IF /\ u[1] \in next /\ ts[u].pc = "none"
                                     /\ u[2] <= Started(u[1]) + Copies(t[1], u[1])
                                    THEN Waiting ELSE ts[u]
  BY <1>2 DEF Spawn
<1>5. task'[t].pc = "cleanup" /\ task'[t].todo = task[t].todo
  BY <1>3, <1>4
<1>6. Starts(t, next)
  <2> HIDE DEF ts, next
  <2> QED BY <1>3, <1>4 DEF Starts
<1> QED BY <1>2, <1>5, <1>6 DEF Complete, Locking, At, Rest, Loops

\* What is behind the done port of a loop, when its turn has come.
BehindDone(b) == {d \in DoneDeps(b) : Ready(d, completed \cup {b})}

\* A loop that is over dispatches what is behind its done port.
LEMMA LoopDoneEffect ==
  ASSUME TypeOK, NEW t \in Tasks, LoopDone(t)
  PROVE  /\ server = "running" /\ task[t].pc = "item" /\ task'[t] = Ended
         /\ task[t].item >= NumItems(t) /\ holder' = None
         /\ Ended.pc = "end" /\ ~ Ended.served
         /\ Starts(t, BehindDone(t[1]))
         /\ outputs' = [outputs EXCEPT ![t[1]] = task[t].out]
         /\ UNCHANGED <<workflow, doc, server, completed, failed, fired, crashes>>
<1> DEFINE ts == [task EXCEPT ![t] = Ended]
           next == BehindDone(t[1])
<1>1. task \in [Tasks -> Task] /\ Ended.pc = "end" /\ ~ Ended.served
  BY DEF TypeOK, Ended, NoTask
<1>2. task' = Spawn(ts, t[1], next)
  BY DEF LoopDone, BehindDone
<1>3. ts[t] = Ended /\ \A u \in Tasks : u # t => ts[u] = task[u]
  BY <1>1
<1>4. \A u \in Tasks : task'[u] = IF /\ u[1] \in next /\ ts[u].pc = "none"
                                     /\ u[2] <= Started(u[1]) + Copies(t[1], u[1])
                                    THEN Waiting ELSE ts[u]
  BY <1>2 DEF Spawn
<1>5. task'[t] = Ended
  BY <1>1, <1>3, <1>4
<1>6. Starts(t, next)
  <2> HIDE DEF ts, next
  <2> QED BY <1>3, <1>4 DEF Starts
<1> QED BY <1>1, <1>5, <1>6 DEF LoopDone, At, Rest

\* A loop starts a block of its body: the next goroutine of it, which was not started yet.
LEMMA RunBodyEffect ==
  ASSUME TypeOK, Consecutive, NEW t \in Tasks, NEW d \in Blocks, RunBody(t, d)
  PROVE  \E child \in Tasks :
           /\ server = "running" /\ task[t].pc = "body" /\ d \in task[t].todo
           /\ child[1] = d /\ child # t /\ task[child].pc = "none" /\ task'[child] = Waiting
           /\ \A v \in Tasks : v[1] = d /\ v[2] < child[2] => task[v].pc # "none"
           /\ \A u \in Tasks : u # t /\ u # child => task'[u] = task[u]
           /\ task'[t].pc = "join" /\ task'[t].todo = task[t].todo \ {d}
           /\ task'[t].item = task[t].item /\ task'[t].served = task[t].served
           /\ holder' = None
           /\ UNCHANGED <<workflow, doc, server, completed, failed, outputs, fired, crashes>>
<1> DEFINE child == <<d, Started(d) + 1>>
           moved == [task EXCEPT ![t].pc = "join", ![t].todo = @ \ {d}, ![t].child = child]
<1>1. task \in [Tasks -> Task] /\ task[t] \in Task /\ MaxRuns \in Nat
  BY EngineAssumption DEF TypeOK
<1>2. Started(d) \in Nat /\ Started(d) + 1 \in 1..MaxRuns
  <2>1. Started(d) \in Nat /\ Started(d) < MaxRuns
    BY StartedTyped DEF RunBody
  <2> QED BY <1>1, <2>1
<1>3. child \in Tasks /\ child[1] = d /\ child[2] = Started(d) + 1
  BY <1>2 DEF Tasks
<1>4. task[child].pc = "none"
  BY <1>2, StartedCounts
<1>5. task[t].pc = "body" /\ child # t
  BY <1>4 DEF RunBody, At
<1>6. ASSUME NEW v \in Tasks, v[1] = d, v[2] < child[2] PROVE task[v].pc # "none"
  <2>1. v = <<d, v[2]>> /\ v[2] \in 1..MaxRuns
    BY <1>6 DEF Tasks
  <2>2. v[2] <= Started(d)
    BY <1>2, <1>3, <1>6, <2>1
  <2> QED BY <2>1, <2>2, StartedCounts
<1>7. task' = [moved EXCEPT ![child] = Waiting]
  BY DEF RunBody
<1>8. /\ moved[t].pc = "join" /\ moved[t].todo = task[t].todo \ {d}
      /\ moved[t].item = task[t].item /\ moved[t].served = task[t].served
      /\ \A u \in Tasks : u # t => moved[u] = task[u]
      /\ moved = [u \in Tasks |-> moved[u]]
  BY <1>1 DEF Task
<1>9. task'[child] = Waiting /\ \A u \in Tasks : u # child => task'[u] = moved[u]
  <2> HIDE DEF moved, child
  <2> QED BY <1>3, <1>7, <1>8
<1>10. /\ server = "running" /\ d \in task[t].todo /\ holder' = None
       /\ UNCHANGED <<workflow, doc, server, completed, failed, outputs, fired, crashes>>
  BY DEF RunBody, At, Rest, memory
<1> HIDE DEF moved, child
<1>11. /\ task'[t].pc = "join" /\ task'[t].todo = task[t].todo \ {d}
       /\ task'[t].item = task[t].item /\ task'[t].served = task[t].served
       /\ \A u \in Tasks : u # t /\ u # child => task'[u] = task[u]
  BY <1>5, <1>8, <1>9
<1> QED BY <1>3, <1>4, <1>5, <1>6, <1>9, <1>10, <1>11

\* Every step of a goroutine keeps the numbering, the mutex and what loops iterate over.
LEMMA TaskStepGoroutines ==
  ASSUME TypeOK, GoroutineInv, NEW t \in Tasks, TaskStep(t)
  PROVE  GoroutineInv'
<1> USE DEF GoroutineInv
<1>1. Waiting.pc = "wait" /\ Waiting.todo = {} /\ Ended.todo = {} /\ {"item", "body", "cleanup", "wait", "none", "end"} \cap Early = {"wait"}
  BY DEF Waiting, Ended, NoTask, Early
<1>2. \A w : workflow' = workflow => LoopDeps(w)' = LoopDeps(w) /\ Loops' = Loops
  BY SameLoops
<1>3. LoopPcs \cap Early = {} /\ LoopPcs \cap {"none", "cleanup", "end", "wait"} = {}
  BY DEF LoopPcs, Early
<1>4. ASSUME server = "running", server' = server PROVE AtRest'
  BY <1>4 DEF AtRest
<1>10. \A u \in Tasks : u # None
  BY EngineAssumption DEF Tasks
<1>5. ASSUME \/ Acquire(t) \/ Read(t) \/ Lookup(t) \/ Execute(t) \/ ExecuteFail(t)
             \/ Store(t) \/ Save(t) \/ LookupLost(t) \/ SaveLost(t)
      PROVE  GoroutineInv'
  <2>1. /\ server = "running" /\ task[t].pc \in Early /\ task'[t].pc \in Early
        /\ task'[t].todo = task[t].todo
        /\ \A u \in Tasks : u # t => task'[u] = task[u]
        /\ UNCHANGED <<workflow, server, holder>>
    BY <1>5, ExecutesAlone
  <2>2. Consecutive'
    BY <1>1, <2>1 DEF Consecutive
  <2>3. Mutex' /\ LoopsIterate'
    BY <1>1, <1>2, <1>3, <2>1 DEF Mutex, LoopsIterate
  <2> QED BY <1>4, <2>1, <2>2, <2>3
<1>6. CASE Fail(t) \/ Cleanup(t)
  <2>1. /\ server = "running" /\ task'[t] = Ended /\ task'[t].pc = "end" /\ task[t].pc \in {"fail", "cleanup"}
        /\ \A u \in Tasks : u # t => task'[u] = task[u]
        /\ UNCHANGED <<workflow, server>> /\ holder' = None
        /\ holder = None \/ task[t].pc = "cleanup"
    BY <1>6, EndsAlone
  <2>2. Consecutive'
    BY <2>1 DEF Consecutive
  <2>3. Mutex'
    BY <1>10, <2>1 DEF Mutex
  <2>4. LoopsIterate'
    BY <1>1, <1>2, <1>3, <2>1 DEF LoopsIterate
  <2> QED BY <1>4, <2>1, <2>2, <2>3, <2>4
<1>7. CASE \/ CompleteLoop(t) \/ NextItem(t) \/ Join(t) \/ Settle(t) \/ Settled(t)
           \/ \E d \in Blocks : SkipBody(t, d)
  <2>1. /\ server = "running" /\ task'[t].pc \in LoopPcs /\ task[t].pc # "none"
        /\ \A u \in Tasks : u # t => task'[u] = task[u]
        /\ UNCHANGED <<workflow, server>>
    BY <1>7, IteratesAlone
  <2>2. Consecutive'
    BY <1>3, <2>1 DEF Consecutive
  <2>3. Mutex'
    <3>1. \/ task'[t].pc \in {"item", "body"} /\ holder' = t /\ holder \in {None, t}
          \/ task'[t].pc \in {"settle"} /\ holder = t
      BY <1>7, IteratesAlone DEF Mutex
    <3>2. \A u \in Tasks : u # t => task'[u].pc \notin {"cleanup", "item", "body"}
      BY <1>10, <2>1, <3>1 DEF Mutex
    <3> QED BY <3>1, <3>2 DEF Mutex
  <2>4. t[1] \in Loops /\ task'[t].todo \subseteq LoopDeps(t[1])
    <3>1. t[1] \in Loops
      <4>1. CASE CompleteLoop(t)
        BY <4>1, IteratesAlone
      <4>2. CASE ~ CompleteLoop(t)
        BY <1>7, <4>2, IteratesAlone DEF LoopsIterate, LoopPcs
      <4> QED BY <4>1, <4>2
    <3>2. task'[t].todo \subseteq LoopDeps(t[1])
      BY <1>7, IteratesAlone DEF LoopsIterate
    <3> QED BY <3>1, <3>2
  <2>5. LoopsIterate'
    BY <1>2, <1>3, <2>1, <2>4 DEF LoopsIterate
  <2> QED BY <1>4, <2>1, <2>2, <2>3, <2>5
<1>8. CASE Complete(t) \/ LoopDone(t)
  <2>1. PICK D : Starts(t, D)
    BY <1>8, CompleteEffect, LoopDoneEffect
  <2>2. /\ server = "running" /\ task[t].pc \in {"complete", "item"}
        /\ UNCHANGED <<workflow, server>>
        /\ \/ task'[t].pc = "cleanup" /\ holder' = t /\ t[1] \notin Loops /\ holder = None
           \/ /\ task'[t] = Ended /\ task'[t].pc = "end"
              /\ holder' = None /\ task[t].pc = "item"
        /\ task'[t].todo \in {task[t].todo, {}}
    BY <1>1, <1>8, CompleteEffect, LoopDoneEffect
  <2>3. \A u \in Tasks : u # t => task'[u] = task[u] \/ (task[u].pc = "none" /\ task'[u] = Waiting)
    BY <2>1 DEF Starts
  <2>4. Consecutive'
    <3> SUFFICES ASSUME NEW u \in Tasks, NEW v \in Tasks, u[1] = v[1], u[2] < v[2],
                        task'[v].pc # "none", task'[u].pc = "none"
                 PROVE  FALSE
      BY DEF Consecutive
    <3>1. u # t /\ task[u].pc = "none" /\ task'[u] = task[u]
      BY <1>1, <2>2, <2>3
    <3>2. task[v].pc = "none"
      BY <3>1 DEF Consecutive
    <3>3. v # t /\ v[1] \in D /\ v[2] <= Started(v[1]) + Copies(t[1], v[1])
      BY <2>1, <2>2, <3>2 DEF Starts
    <3>4. ~ (u[2] <= Started(v[1]) + Copies(t[1], v[1]))
      BY <1>1, <2>1, <3>1, <3>3 DEF Starts
    <3>5. u[2] \in Int /\ v[2] \in Int
      BY EngineAssumption DEF Tasks
    <3>6. Started(v[1]) + Copies(t[1], v[1]) \in Int
      <4>1. IsFiniteSet(Between(t[1], v[1]))
        BY EngineAssumption, FS_Subset DEF Between, TypeOK
      <4> QED BY <4>1, StartedTyped, FS_CardinalityType DEF Copies
    <3> QED BY <3>3, <3>4, <3>5, <3>6
  <2>5. Mutex'
    BY <1>1, <1>10, <2>2, <2>3 DEF Mutex
  <2>6. LoopsIterate'
    BY <1>1, <1>2, <1>3, <2>2, <2>3 DEF LoopsIterate
  <2> QED BY <1>4, <2>2, <2>4, <2>5, <2>6
<1>9. ASSUME NEW d \in Blocks, RunBody(t, d)
      PROVE  GoroutineInv'
  <2>1. PICK child \in Tasks :
           /\ server = "running" /\ task[t].pc = "body"
           /\ child[1] = d /\ child # t /\ task[child].pc = "none" /\ task'[child] = Waiting
           /\ \A v \in Tasks : v[1] = d /\ v[2] < child[2] => task[v].pc # "none"
           /\ \A u \in Tasks : u # t /\ u # child => task'[u] = task[u]
           /\ task'[t].pc = "join" /\ task'[t].todo = task[t].todo \ {d}
           /\ holder' = None /\ UNCHANGED <<workflow, server>>
    BY <1>9, RunBodyEffect
  <2>2. Consecutive'
    BY <1>1, <2>1 DEF Consecutive
  <2>3. Mutex'
    BY <1>1, <1>10, <2>1 DEF Mutex
  <2>4. LoopsIterate'
    BY <1>1, <1>2, <2>1 DEF LoopsIterate, LoopPcs
  <2> QED BY <1>4, <2>1, <2>2, <2>3, <2>4
<1> QED BY <1>5, <1>6, <1>7, <1>8, <1>9 DEF TaskStep

\* So does the server, which forgets them all and starts them anew.
LEMMA ServerGoroutines ==
  ASSUME TypeOK, GoroutineInv, EndExecution \/ Crash \/ GoStale \/ Boot \/ Scan
  PROVE  GoroutineInv'
<1> USE DEF GoroutineInv
<1>1. workflow' = workflow /\ Loops' = Loops /\ \A b : LoopDeps(b)' = LoopDeps(b)
  BY SameLoops DEF EndExecution, Crash, GoStale, Boot, Scan
<1>2. NoTask.pc = "none" /\ Waiting.pc = "wait" /\ NoTask.todo = {} /\ Waiting.todo = {} /\ LoopPcs \cap {"none", "wait"} = {}
  BY DEF NoTask, Waiting, LoopPcs
<1>3. ASSUME UNCHANGED <<task, holder>> PROVE Consecutive' /\ Mutex' /\ LoopsIterate'
  BY <1>1, <1>3 DEF Consecutive, Mutex, LoopsIterate
<1>4. CASE EndExecution
  BY <1>3, <1>4 DEF EndExecution, AtRest, Finished, memory
<1>5. CASE Crash
  BY <1>2, <1>5 DEF Crash, Forget, Consecutive, Mutex, LoopsIterate, AtRest
<1>6. CASE GoStale
  BY <1>3, <1>6 DEF GoStale, AtRest, Finished, memory
<1>7. CASE Boot
  BY <1>3, <1>7 DEF Boot, AtRest, memory
<1>8. CASE Scan
  <2>1. server' \in {"running", "idle"} /\ (task' = FreshTasks \/ task' = task) /\ holder' = holder
    BY <1>8 DEF Scan
  <2>2. AtRest'
    BY <2>1 DEF AtRest
  <2>3. CASE task' = FreshTasks
    <3>1. \A u \in Tasks : /\ task'[u].pc \in {"none", "wait"} /\ task'[u].todo = {}
                           /\ (task'[u].pc # "none" => u[2] = 1)
      BY <1>2, <2>3 DEF FreshTasks
    <3>2. \A u \in Tasks : u[2] \in Nat /\ u[2] >= 1
      BY EngineAssumption DEF Tasks
    <3>3. Consecutive'
      BY <3>1, <3>2 DEF Consecutive
    <3> QED BY <1>2, <2>2, <3>1, <3>3 DEF Mutex, LoopsIterate
  <2>4. CASE task' = task
    BY <1>3, <2>1, <2>2, <2>4
  <2> QED BY <2>1, <2>3, <2>4
<1> QED BY <1>4, <1>5, <1>6, <1>7, <1>8

\* They are numbered, exclude each other and iterate so in every state.
LEMMA NextGoroutines == TypeOK /\ GoroutineInv /\ [Next]_vars => GoroutineInv'
<1> SUFFICES ASSUME TypeOK, GoroutineInv, [Next]_vars PROVE GoroutineInv'
  OBVIOUS
<1>1. CASE UNCHANGED vars
  BY <1>1, SameLoops
  DEF vars, GoroutineInv, Consecutive, Mutex, LoopsIterate, AtRest, Finished
<1> QED BY <1>1, TaskStepGoroutines, ServerGoroutines DEF Next

\* At first only the start blocks have a goroutine, one each.
LEMMA FreshGoroutines == Fresh /\ holder = None => GoroutineInv
<1> SUFFICES ASSUME Fresh, holder = None PROVE GoroutineInv
  OBVIOUS
<1>1. NoTask.pc = "none" /\ Waiting.pc = "wait" /\ NoTask.todo = {} /\ Waiting.todo = {}
      /\ LoopPcs \cap {"none", "wait"} = {}
  BY DEF NoTask, Waiting, LoopPcs
<1>2. \A u \in Tasks : /\ task[u].pc \in {"none", "wait"} /\ task[u].todo = {}
                       /\ (task[u].pc # "none" => u[2] = 1)
  BY <1>1 DEF Fresh, FreshTasks
<1>3. \A u \in Tasks : u[2] \in Nat /\ u[2] >= 1
  BY EngineAssumption DEF Tasks
<1>4. Consecutive
  BY <1>2, <1>3 DEF Consecutive
<1> QED BY <1>1, <1>2, <1>4 DEF GoroutineInv, Mutex, LoopsIterate, AtRest, Fresh

-----------------------------------------------------------------------------
(* The blocks of a tidy workflow that are in no loop.                      *)

\* Such a block has one goroutine.
OuterOnce == \A u \in Tasks : ~ InLoop(u[1]) /\ task[u].pc # "none" => u[2] = 1

\* It was started after all it depends on.
OuterTurn ==
  \A u \in Tasks : ~ InLoop(u[1]) /\ task[u].pc # "none" => Dependencies(u[1]) \subseteq completed

\* completedBlocks and failedBlocks hold it when its goroutine has come that far.
OuterOver ==
  \A u \in Tasks : ~ InLoop(u[1]) /\ u[2] = 1 =>
    /\ u[1] \in completed => task[u].pc \in {"cleanup", "end"} \cup LoopPcs
    /\ u[1] \in failed => task[u].pc = "end"
    /\ task[u].pc \in {"cleanup"} \cup LoopPcs => u[1] \in completed

\* What is behind a done port starts when the loop has ended.
OuterDone ==
  \A f \in Loops : ~ InLoop(f) =>
    \A u, v \in Tasks : u[1] \in DoneDeps(f) /\ task[u].pc # "none" /\ v[1] = f
                          => task[v].pc \in {"none", "end"}

OnceInv == OuterOnce /\ OuterTurn /\ OuterOver /\ OuterDone

\* A step that ends a goroutine only once, starts one only when its turn has come, and
\* completes a block only when its goroutine says so.
OrderlyStep ==
  /\ workflow' = workflow
  /\ \A u \in Tasks : ~ InLoop(u[1]) =>
       /\ task[u].pc # "none" => task'[u].pc # "none"
       /\ task[u].pc = "end" => task'[u].pc = "end"
       /\ task[u].pc = "none" /\ task'[u].pc # "none" =>
            /\ u[2] = 1 /\ Dependencies(u[1]) \subseteq completed'
            /\ \A f \in Loops : u[1] \in DoneDeps(f) =>
                 \A v \in Tasks : v[1] = f => task'[v].pc \in {"none", "end"}
       /\ u[2] = 1 =>
            /\ u[1] \in completed' => task'[u].pc \in {"cleanup", "end"} \cup LoopPcs
            /\ u[1] \in failed' => task'[u].pc = "end"
            /\ task'[u].pc \in {"cleanup"} \cup LoopPcs => u[1] \in completed'
  /\ \A b \in Blocks : ~ InLoop(b) /\ b \in completed => b \in completed'

\* A step that starts no block which is in no loop is orderly when it agrees with completedBlocks.
LEMMA StartsNobody ==
  ASSUME workflow' = workflow,
         \A u \in Tasks : ~ InLoop(u[1]) =>
           /\ task'[u].pc = "none" <=> task[u].pc = "none"
           /\ task[u].pc = "end" => task'[u].pc = "end",
         \A u \in Tasks : ~ InLoop(u[1]) /\ u[2] = 1 =>
           /\ u[1] \in completed' => task'[u].pc \in {"cleanup", "end"} \cup LoopPcs
           /\ u[1] \in failed' => task'[u].pc = "end"
           /\ task'[u].pc \in {"cleanup"} \cup LoopPcs => u[1] \in completed',
         \A b \in Blocks : ~ InLoop(b) /\ b \in completed => b \in completed'
  PROVE  OrderlyStep
  BY DEF OrderlyStep

\* Such a step keeps the invariant.
LEMMA OrderlyOnce ==
  ASSUME Tidy, TypeOK, OnceInv, OrderlyStep
  PROVE  OnceInv'
<1> USE DEF OnceInv
<1>1. /\ workflow \in Workflows /\ Loops' = Loops
      /\ \A b : /\ InLoop(b)' = InLoop(b) /\ Dependencies(b)' = Dependencies(b)
                /\ DoneDeps(b)' = DoneDeps(b) /\ Dependencies(b) \subseteq Blocks
      /\ \A u \in Tasks : u[1] \in Blocks
  BY SameLoops, GraphSides DEF OrderlyStep, TypeOK, Tasks
<1>2. \A y \in Blocks : ~ InLoop(y) => \A x \in Dependencies(y) : ~ InLoop(x)
  BY <1>1, OutsideLoops
<1>3. OuterOnce'
  BY <1>1 DEF OuterOnce, OrderlyStep
<1>4. OuterTurn'
  <2> SUFFICES ASSUME NEW u \in Tasks, ~ InLoop(u[1]), task'[u].pc # "none",
                      NEW d \in Dependencies(u[1])
               PROVE  d \in completed'
    BY <1>1 DEF OuterTurn
  <2>1. ~ InLoop(d) /\ d \in Blocks
    BY <1>1, <1>2
  <2> QED BY <2>1 DEF OuterTurn, OrderlyStep
<1>5. OuterOver'
  BY <1>1 DEF OuterOver, OrderlyStep
<1>6. OuterDone'
  <2> SUFFICES ASSUME NEW f \in Loops, ~ InLoop(f), NEW u \in Tasks, NEW v \in Tasks,
                      u[1] \in DoneDeps(f), task'[u].pc # "none", v[1] = f
               PROVE  task'[v].pc \in {"none", "end"}
    BY <1>1 DEF OuterDone
  <2>1. ~ InLoop(u[1]) /\ Dependencies(u[1]) = {f} /\ f \in Blocks
    BY <1>1, OutsideLoops DEF Loops
  <2>2. CASE task[u].pc = "none"
    BY <2>1, <2>2 DEF OrderlyStep
  <2>3. CASE task[u].pc # "none"
    <3>1. task[v].pc \in {"none", "end"}
      BY <2>3 DEF OuterDone
    <3>2. f \in completed
      BY <2>1, <2>3 DEF OuterTurn
    <3>3. CASE task[v].pc = "end"
      BY <2>1, <3>3 DEF OrderlyStep
    <3>4. CASE task[v].pc = "none"
      <4>1. <<f, 1>> \in Tasks /\ <<f, 1>>[1] = f /\ <<f, 1>>[2] = 1
        BY <2>1, FirstGoroutine
      <4>2. task[<<f, 1>>].pc # "none"
        BY <3>2, <4>1 DEF OuterOver, LoopPcs
      <4>3. task'[v].pc # "none" => v[2] = 1
        BY <3>4 DEF OrderlyStep
      <4>4. v = <<v[1], v[2]>>
        BY DEF Tasks
      <4> QED BY <3>4, <4>2, <4>3, <4>4
    <3> QED BY <3>1, <3>3, <3>4
  <2> QED BY <2>2, <2>3
<1> QED BY <1>3, <1>4, <1>5, <1>6

\* At first nobody has a goroutine but the start blocks, which depend on nothing.
LEMMA FreshOnce == Tidy /\ Fresh => OnceInv
<1> SUFFICES ASSUME Tidy, Fresh PROVE OnceInv
  OBVIOUS
<1>1. NoTask.pc = "none" /\ Waiting.pc = "wait"
  BY DEF NoTask, Waiting
<1>2. \A u \in Tasks : /\ task[u].pc # "none" => u[2] = 1 /\ Dependencies(u[1]) = {}
                       /\ task[u].pc \notin {"cleanup"} \cup LoopPcs
  BY <1>1 DEF Fresh, FreshTasks, StartBlocks, LoopPcs
<1>3. \A f \in Loops : \A d \in DoneDeps(f) : Dependencies(d) # {}
  BY OutsideLoops DEF Fresh
<1> QED BY <1>2, <1>3 DEF OnceInv, OuterOnce, OuterTurn, OuterOver, OuterDone, Fresh

\* The same of a state that a step leads to.
LEMMA FreshOnceNext == Tidy' /\ Fresh' => OnceInv'
  BY FreshOnce, PTL

\* A goroutine of a block in no loop that has not completed it is its only one, and the block is
\* not among the completed ones, so that nobody was started who waits for it.
LEMMA NotYetCompleted ==
  ASSUME TypeOK, OnceInv, NEW t \in Tasks, ~ InLoop(t[1]), task[t].pc \in Early
  PROVE  /\ t[2] = 1 /\ t[1] \notin completed /\ t[1] \notin failed
         /\ \A u \in Tasks : u[1] = t[1] /\ u # t => task[u].pc = "none"
         /\ \A u \in Tasks : ~ InLoop(u[1]) /\ t[1] \in Dependencies(u[1]) => task[u].pc = "none"
<1>1. task[t].pc \notin {"none", "cleanup", "end"} \cup LoopPcs
  BY DEF Early, LoopPcs
<1>2. t[2] = 1 /\ t[1] \notin completed /\ t[1] \notin failed
  BY <1>1 DEF OnceInv, OuterOnce, OuterOver
<1>3. \A u \in Tasks : u = <<u[1], u[2]>>
  BY DEF Tasks
<1> QED BY <1>2, <1>3 DEF OnceInv, OuterOnce, OuterTurn

\* Joined once, blocks are dispatched once.
LEMMA StartsOne ==
  ASSUME Tidy, TypeOK, Consecutive, NEW t \in Tasks, NEW D \in SUBSET Blocks, Starts(t, D),
         NEW u \in Tasks, u # t
  PROVE  \/ task'[u] = task[u]
         \/ /\ u[1] \in D /\ task[u].pc = "none" /\ task'[u] = Waiting
            /\ \A v \in Tasks : v[1] = u[1] /\ v[2] < u[2] => task[v].pc # "none"
<1>1. /\ u \in Tasks /\ u[1] \in Blocks /\ t[1] \in Blocks /\ MaxRuns \in Nat
      /\ \A v \in Tasks : v = <<v[1], v[2]>> /\ v[2] \in 1..MaxRuns
  BY EngineAssumption DEF Tasks
<1>2. Copies(t[1], u[1]) <= 1
  BY <1>1 DEF Tidy
<1>3. Copies(t[1], u[1]) \in Nat
  <2>1. IsFiniteSet(Between(t[1], u[1]))
    BY EngineAssumption, FS_Subset DEF Between, TypeOK
  <2> QED BY <2>1, FS_CardinalityType DEF Copies
<1>4. Started(u[1]) \in Nat
  BY StartedTyped
<1>5. CASE u[1] \in D /\ task[u].pc = "none" /\ u[2] <= Started(u[1]) + Copies(t[1], u[1])
  <2>1. task'[u] = Waiting
    BY <1>5 DEF Starts
  <2>2. ASSUME NEW v \in Tasks, v[1] = u[1], v[2] < u[2] PROVE task[v].pc # "none"
    <3>1. v = <<u[1], v[2]>> /\ v[2] \in 1..MaxRuns
      BY <1>1, <2>2
    <3>2. v[2] <= Started(u[1])
      BY <1>1, <1>2, <1>3, <1>4, <1>5, <2>2
    <3> QED BY <1>1, <3>1, <3>2, StartedCounts
  <2> QED BY <1>5, <2>1, <2>2
<1>6. CASE ~ (u[1] \in D /\ task[u].pc = "none" /\ u[2] <= Started(u[1]) + Copies(t[1], u[1]))
  BY <1>6 DEF Starts
<1> QED BY <1>5, <1>6

\* A block that had no goroutine starts with its first.
LEMMA FirstOfBlock ==
  ASSUME NEW u \in Tasks, \A v \in Tasks : v[1] = u[1] => task[v].pc = "none",
         \A v \in Tasks : v[1] = u[1] /\ v[2] < u[2] => task[v].pc # "none"
  PROVE  u[2] = 1
<1>1. u[1] \in Blocks /\ u[2] \in Nat /\ u[2] >= 1
  BY EngineAssumption DEF Tasks
<1>2. <<u[1], 1>> \in Tasks /\ <<u[1], 1>>[1] = u[1] /\ <<u[1], 1>>[2] = 1
  BY <1>1, FirstGoroutine
<1> QED BY <1>1, <1>2

\* Every step of a goroutine is orderly.
LEMMA TaskStepOnce ==
  ASSUME Tidy, TypeOK, GoroutineInv, OnceInv, NEW t \in Tasks, TaskStep(t)
  PROVE  OnceInv'
<1>1. /\ t[1] \in Blocks /\ workflow \in Workflows /\ completed \subseteq Blocks
      /\ \A u \in Tasks : u[1] \in Blocks /\ u = <<u[1], u[2]>>
  BY DEF Tasks, TypeOK
<1>2. /\ Waiting.pc = "wait" /\ "wait" \in Early
      /\ Early \cap ({"none", "cleanup", "end"} \cup LoopPcs) = {}
      /\ LoopPcs \cap {"none", "cleanup", "end", "wait"} = {}
  BY DEF Waiting, NoTask, Early, LoopPcs
<1>3. /\ Consecutive
      /\ \A u \in Tasks : task[u].pc \in LoopPcs => u[1] \in Loops
  BY DEF GoroutineInv, LoopsIterate
<1>4. /\ \A u \in Tasks : ~ InLoop(u[1]) /\ u[2] = 1 =>
           /\ u[1] \in completed => task[u].pc \in {"cleanup", "end"} \cup LoopPcs
           /\ u[1] \in failed => task[u].pc = "end"
           /\ task[u].pc \in {"cleanup"} \cup LoopPcs => u[1] \in completed
      /\ \A u \in Tasks : ~ InLoop(u[1]) /\ task[u].pc # "none" => u[2] = 1
  BY DEF OnceInv, OuterOver, OuterOnce
<1>5. ASSUME \/ Acquire(t) \/ Read(t) \/ Lookup(t) \/ Execute(t) \/ ExecuteFail(t)
             \/ Store(t) \/ Save(t) \/ LookupLost(t) \/ SaveLost(t)
      PROVE  OrderlyStep
  <2>1. /\ task[t].pc \in Early /\ task'[t].pc \in Early
        /\ \A u \in Tasks : u # t => task'[u] = task[u]
        /\ UNCHANGED <<workflow, completed, failed>>
    BY <1>5, ExecutesAlone
  <2>2. \A u \in Tasks : /\ task'[u].pc = "none" <=> task[u].pc = "none"
                         /\ task[u].pc = "end" => task'[u].pc = "end"
    BY <1>2, <2>1
  <2>3. \A u \in Tasks : ~ InLoop(u[1]) /\ u[2] = 1 =>
          /\ u[1] \in completed' => task'[u].pc \in {"cleanup", "end"} \cup LoopPcs
          /\ u[1] \in failed' => task'[u].pc = "end"
          /\ task'[u].pc \in {"cleanup"} \cup LoopPcs => u[1] \in completed'
    BY <1>2, <1>4, <2>1
  <2>9. workflow' = workflow /\ \A b \in Blocks : ~ InLoop(b) /\ b \in completed => b \in completed'
    BY <2>1
  <2> QED BY <2>9, <2>2, <2>3, StartsNobody
<1>6. ASSUME Fail(t) PROVE OrderlyStep
  <2>1. /\ task[t].pc = "fail" /\ task'[t].pc = "end"
        /\ \A u \in Tasks : u # t => task'[u] = task[u]
        /\ UNCHANGED <<workflow, completed>> /\ failed' = failed \cup {t[1]}
    BY <1>6, EndsAlone
  <2>2. ~ InLoop(t[1]) => t[2] = 1
    BY <1>4, <2>1
  <2>3. \A u \in Tasks : /\ task'[u].pc = "none" <=> task[u].pc = "none"
                         /\ task[u].pc = "end" => task'[u].pc = "end"
    BY <1>2, <2>1
  <2>4. \A u \in Tasks : ~ InLoop(u[1]) /\ u[2] = 1 =>
          /\ u[1] \in completed' => task'[u].pc \in {"cleanup", "end"} \cup LoopPcs
          /\ u[1] \in failed' => task'[u].pc = "end"
          /\ task'[u].pc \in {"cleanup"} \cup LoopPcs => u[1] \in completed'
    BY <1>1, <1>2, <1>4, <2>1, <2>2
  <2>9. workflow' = workflow /\ \A b \in Blocks : ~ InLoop(b) /\ b \in completed => b \in completed'
    BY <2>1
  <2> QED BY <2>9, <2>3, <2>4, StartsNobody
<1>7. ASSUME Cleanup(t) PROVE OrderlyStep
  <2>1. /\ task[t].pc = "cleanup" /\ task'[t].pc = "end"
        /\ \A u \in Tasks : u # t => task'[u] = task[u]
        /\ UNCHANGED <<workflow, completed, failed>>
    BY <1>7, EndsAlone
  <2>2. \A u \in Tasks : /\ task'[u].pc = "none" <=> task[u].pc = "none"
                         /\ task[u].pc = "end" => task'[u].pc = "end"
    BY <1>2, <2>1
  <2>3. \A u \in Tasks : ~ InLoop(u[1]) /\ u[2] = 1 =>
          /\ u[1] \in completed' => task'[u].pc \in {"cleanup", "end"} \cup LoopPcs
          /\ u[1] \in failed' => task'[u].pc = "end"
          /\ task'[u].pc \in {"cleanup"} \cup LoopPcs => u[1] \in completed'
    BY <1>1, <1>2, <1>4, <2>1
  <2>9. workflow' = workflow /\ \A b \in Blocks : ~ InLoop(b) /\ b \in completed => b \in completed'
    BY <2>1
  <2> QED BY <2>9, <2>2, <2>3, StartsNobody
<1>8. ASSUME CompleteLoop(t) PROVE OrderlyStep
  <2>1. /\ task[t].pc = "complete" /\ task'[t].pc = "item"
        /\ \A u \in Tasks : u # t => task'[u] = task[u]
        /\ UNCHANGED <<workflow, failed>> /\ completed' = completed \cup {t[1]}
    BY <1>8, IteratesAlone
  <2>2. ~ InLoop(t[1]) => t[2] = 1 /\ t[1] \notin failed
    BY <1>4, <2>1
  <2>3. \A u \in Tasks : ~ InLoop(u[1]) /\ u[2] = 1 =>
          /\ u[1] \in completed' => task'[u].pc \in {"cleanup", "end"} \cup LoopPcs
          /\ u[1] \in failed' => task'[u].pc = "end"
          /\ task'[u].pc \in {"cleanup"} \cup LoopPcs => u[1] \in completed'
    BY <1>1, <1>4, <2>1, <2>2 DEF LoopPcs
  <2>4. \A u \in Tasks : /\ task'[u].pc = "none" <=> task[u].pc = "none"
                         /\ task[u].pc = "end" => task'[u].pc = "end"
    BY <1>2, <2>1
  <2>9. workflow' = workflow /\ \A b \in Blocks : ~ InLoop(b) /\ b \in completed => b \in completed'
    BY <2>1
  <2> QED BY <2>9, <2>3, <2>4, StartsNobody
<1>9. ASSUME NextItem(t) PROVE OrderlyStep
  <2>1. /\ task[t].pc = "item" /\ task'[t].pc = "body"
        /\ \A u \in Tasks : u # t => task'[u] = task[u]
        /\ UNCHANGED <<workflow, failed>> /\ completed' = completed \ LoopBody(t[1])
    BY <1>9, IteratesAlone
  <2>2. t[1] \in Loops
    BY <1>3, <2>1 DEF LoopPcs
  <2>3. \A b \in Blocks : ~ InLoop(b) /\ b \in completed => b \in completed'
    BY <2>1, <2>2 DEF InLoop
  <2>4. \A u \in Tasks : ~ InLoop(u[1]) /\ u[2] = 1 =>
          /\ u[1] \in completed' => task'[u].pc \in {"cleanup", "end"} \cup LoopPcs
          /\ u[1] \in failed' => task'[u].pc = "end"
          /\ task'[u].pc \in {"cleanup"} \cup LoopPcs => u[1] \in completed'
    BY <1>1, <1>4, <2>1, <2>3 DEF LoopPcs
  <2>5. \A u \in Tasks : /\ task'[u].pc = "none" <=> task[u].pc = "none"
                         /\ task[u].pc = "end" => task'[u].pc = "end"
    BY <1>2, <2>1
  <2>9. workflow' = workflow /\ \A b \in Blocks : ~ InLoop(b) /\ b \in completed => b \in completed'
    BY <2>1, <2>3
  <2> QED BY <2>9, <2>3, <2>4, <2>5, StartsNobody
<1>10. ASSUME Join(t) \/ Settle(t) \/ Settled(t) \/ \E d \in Blocks : SkipBody(t, d) PROVE OrderlyStep
  <2>1. /\ task[t].pc \in LoopPcs /\ task'[t].pc \in LoopPcs
        /\ \A u \in Tasks : u # t => task'[u] = task[u]
        /\ UNCHANGED <<workflow, completed, failed>>
    BY <1>10, IteratesAlone DEF LoopPcs
  <2>2. \A u \in Tasks : ~ InLoop(u[1]) /\ u[2] = 1 =>
          /\ u[1] \in completed' => task'[u].pc \in {"cleanup", "end"} \cup LoopPcs
          /\ u[1] \in failed' => task'[u].pc = "end"
          /\ task'[u].pc \in {"cleanup"} \cup LoopPcs => u[1] \in completed'
    BY <1>2, <1>4, <2>1
  <2>3. \A u \in Tasks : /\ task'[u].pc = "none" <=> task[u].pc = "none"
                         /\ task[u].pc = "end" => task'[u].pc = "end"
    BY <1>2, <2>1
  <2>9. workflow' = workflow /\ \A b \in Blocks : ~ InLoop(b) /\ b \in completed => b \in completed'
    BY <2>1
  <2> QED BY <2>9, <2>2, <2>3, StartsNobody
<1>11. ASSUME Complete(t) PROVE OrderlyStep
  <2> DEFINE next == Dispatched(t[1], task[t].out)
  <2>1. /\ task[t].pc = "complete" /\ task'[t].pc = "cleanup" /\ t[1] \notin Loops
        /\ UNCHANGED <<workflow, failed>> /\ completed' = completed \cup {t[1]}
        /\ Starts(t, next)
    BY <1>11, CompleteEffect
  <2>2. /\ next \in SUBSET Blocks
        /\ \A d \in next : Dependencies(d) \subseteq completed' /\ t[1] \in Dependencies(d)
    BY <1>1, <2>1, GraphSides DEF Dispatched, Ready
  <2> HIDE DEF next
  <2>3. ASSUME NEW u \in Tasks, u # t
        PROVE  \/ task'[u] = task[u]
               \/ /\ u[1] \in next /\ task[u].pc = "none" /\ task'[u] = Waiting
                  /\ \A v \in Tasks : v[1] = u[1] /\ v[2] < u[2] => task[v].pc # "none"
    BY <1>3, <2>1, <2>2, <2>3, StartsOne
  <2>4. ASSUME NEW u \in Tasks, ~ InLoop(u[1]), task[u].pc = "none", task'[u].pc # "none"
        PROVE  /\ u[2] = 1 /\ Dependencies(u[1]) \subseteq completed'
               /\ u[1] \notin completed \cup failed /\ u[1] # t[1]
               /\ \A f \in Loops : u[1] \notin DoneDeps(f)
    <3>1. u # t /\ u[1] \in next /\ \A v \in Tasks : v[1] = u[1] /\ v[2] < u[2] => task[v].pc # "none"
      BY <2>1, <2>3, <2>4
    <3>2. ~ InLoop(t[1]) /\ t[1] \in Dependencies(u[1])
      BY <1>1, <2>2, <2>4, <3>1, OutsideLoops
    <3>3. task[t].pc \in Early
      BY <2>1 DEF Early
    <3>4. \A v \in Tasks : v[1] = u[1] => task[v].pc = "none"
      BY <2>4, <3>2, <3>3, NotYetCompleted
    <3>5. u[2] = 1
      BY <3>1, <3>4, FirstOfBlock
    <3>6. u[1] \notin completed \cup failed
      BY <1>2, <1>4, <2>4, <3>5
    <3>7. u[1] # t[1]
      BY <2>1, <3>4
    <3>8. \A f \in Loops : u[1] \notin DoneDeps(f)
      BY <1>1, <2>1, <3>2, OutsideLoops
    <3> QED BY <2>2, <3>1, <3>5, <3>6, <3>7, <3>8
  <2>5. ASSUME NEW u \in Tasks, ~ InLoop(u[1]), u[2] = 1
        PROVE  /\ u[1] \in completed' => task'[u].pc \in {"cleanup", "end"} \cup LoopPcs
               /\ u[1] \in failed' => task'[u].pc = "end"
               /\ task'[u].pc \in {"cleanup"} \cup LoopPcs => u[1] \in completed'
    <3>1. CASE u = t
      BY <1>4, <2>1, <2>5, <3>1
    <3>2. CASE u # t
      <4>1. u[1] = t[1] => t[2] = 1
        BY <1>4, <2>1, <2>5
      <4>2. u[1] # t[1]
        BY <1>1, <2>5, <3>2, <4>1
      <4>3. CASE task'[u] = task[u]
        BY <1>4, <2>1, <2>5, <4>2, <4>3
      <4>4. CASE task'[u] # task[u]
        BY <1>2, <2>1, <2>3, <2>4, <2>5, <3>2, <4>4
      <4> QED BY <4>3, <4>4
    <3> QED BY <3>1, <3>2
  <2>6. \A u \in Tasks : /\ task[u].pc # "none" => task'[u].pc # "none"
                         /\ task[u].pc = "end" => task'[u].pc = "end"
    BY <1>2, <2>1, <2>3
  <2>7. \A u \in Tasks : ~ InLoop(u[1]) /\ task[u].pc = "none" /\ task'[u].pc # "none" =>
          /\ u[2] = 1 /\ Dependencies(u[1]) \subseteq completed'
          /\ \A f \in Loops : u[1] \in DoneDeps(f) =>
               \A v \in Tasks : v[1] = f => task'[v].pc \in {"none", "end"}
    BY <2>4
  <2>9. workflow' = workflow /\ \A b \in Blocks : ~ InLoop(b) /\ b \in completed => b \in completed'
    BY <2>1
  <2> QED BY <2>5, <2>6, <2>7, <2>9 DEF OrderlyStep
<1>12. ASSUME LoopDone(t) PROVE OrderlyStep
  <2> DEFINE next == BehindDone(t[1])
  <2>1. /\ task[t].pc = "item" /\ task'[t].pc = "end"
        /\ UNCHANGED <<workflow, completed, failed>>
        /\ Starts(t, next)
    BY <1>12, LoopDoneEffect
  <2>2. t[1] \in Loops
    BY <1>3, <2>1 DEF LoopPcs
  <2>3. /\ next \in SUBSET Blocks
        /\ \A d \in next : d \in DoneDeps(t[1]) /\ Dependencies(d) = {t[1]}
    BY <1>1, <2>2, OutsideLoops, GraphSides DEF BehindDone, DoneDeps
  <2> HIDE DEF next
  <2>4. ASSUME NEW u \in Tasks, u # t
        PROVE  \/ task'[u] = task[u]
               \/ /\ u[1] \in next /\ task[u].pc = "none" /\ task'[u] = Waiting
                  /\ \A v \in Tasks : v[1] = u[1] /\ v[2] < u[2] => task[v].pc # "none"
    BY <1>3, <2>1, <2>3, <2>4, StartsOne
  <2>5. ASSUME NEW u \in Tasks, ~ InLoop(u[1]), task[u].pc = "none", task'[u].pc # "none"
        PROVE  /\ u[2] = 1 /\ Dependencies(u[1]) \subseteq completed'
               /\ u[1] \notin completed \cup failed
               /\ \A f \in Loops : u[1] \in DoneDeps(f) =>
                    \A v \in Tasks : v[1] = f => task'[v].pc \in {"none", "end"}
    <3>1. u # t /\ u[1] \in next /\ \A v \in Tasks : v[1] = u[1] /\ v[2] < u[2] => task[v].pc # "none"
      BY <2>1, <2>4, <2>5
    <3>2. u[1] \in DoneDeps(t[1]) /\ Dependencies(u[1]) = {t[1]}
      BY <2>3, <3>1
    <3>3. ~ InLoop(t[1])
      BY <1>1, <2>5, <3>2, OutsideLoops
    <3>4. \A v \in Tasks : v[1] = u[1] => task[v].pc = "none"
      BY <2>1, <2>2, <3>2, <3>3 DEF OnceInv, OuterDone
    <3>5. u[2] = 1
      BY <3>1, <3>4, FirstOfBlock
    <3>6. u[1] \notin completed \cup failed
      BY <1>2, <1>4, <2>5, <3>5
    <3>7. t[2] = 1
      BY <1>4, <2>1, <3>3
    <3>8. t[1] \in completed
      <4>1. task[t].pc \in LoopPcs
        BY <2>1 DEF LoopPcs
      <4> QED BY <2>1, <3>3, <3>7, <4>1 DEF OnceInv, OuterOver
    <3>9. ASSUME NEW f \in Loops, u[1] \in DoneDeps(f), NEW v \in Tasks, v[1] = f
          PROVE  task'[v].pc \in {"none", "end"}
      <4>1. f = t[1]
        BY <1>1, <3>2, <3>9, OutsideLoops
      <4>2. CASE v = t
        BY <2>1, <4>2
      <4>3. CASE v # t
        <5>0. task[v].pc # "none" => v[2] = 1
          BY <1>4, <3>3, <3>9, <4>1
        <5>1. task[v].pc = "none"
          BY <1>1, <3>7, <3>9, <4>1, <4>3, <5>0
        <5>2. v[1] \notin next
          <6>1. DoneDeps(t[1]) \subseteq Dependents(t[1])
            BY DEF DoneDeps
          <6>2. t[1] \notin LoopDeps(t[1]) /\ (t[1] \in DoneDeps(t[1]) => t[1] \in Dependents(t[1]))
            BY <2>2, <6>1 DEF Tidy
          <6>3. t[1] \notin DoneDeps(t[1])
            BY <2>1, <2>2, <3>3 DEF OnceInv, OuterDone
          <6> QED BY <2>3, <3>9, <4>1, <6>3
        <5> QED BY <2>4, <4>3, <5>1, <5>2
      <4> QED BY <4>2, <4>3
    <3> QED BY <2>1, <3>2, <3>5, <3>6, <3>8, <3>9
  <2>6. ASSUME NEW u \in Tasks, ~ InLoop(u[1]), u[2] = 1
        PROVE  /\ u[1] \in completed' => task'[u].pc \in {"cleanup", "end"} \cup LoopPcs
               /\ u[1] \in failed' => task'[u].pc = "end"
               /\ task'[u].pc \in {"cleanup"} \cup LoopPcs => u[1] \in completed'
    <3>1. CASE u = t
      <4>1. "end" \notin {"cleanup"} \cup LoopPcs
        BY <1>2
      <4> QED BY <2>1, <3>1, <4>1
    <3>2. CASE u # t
      <4>1. CASE task'[u] = task[u]
        BY <1>4, <2>1, <2>6, <4>1
      <4>2. CASE task'[u] # task[u]
        BY <1>2, <2>1, <2>4, <2>5, <2>6, <3>2, <4>2
      <4> QED BY <4>1, <4>2
    <3> QED BY <3>1, <3>2
  <2>7. \A u \in Tasks : /\ task[u].pc # "none" => task'[u].pc # "none"
                         /\ task[u].pc = "end" => task'[u].pc = "end"
    BY <1>2, <2>1, <2>4
  <2>8. \A u \in Tasks : ~ InLoop(u[1]) /\ task[u].pc = "none" /\ task'[u].pc # "none" =>
          /\ u[2] = 1 /\ Dependencies(u[1]) \subseteq completed'
          /\ \A f \in Loops : u[1] \in DoneDeps(f) =>
               \A v \in Tasks : v[1] = f => task'[v].pc \in {"none", "end"}
    BY <2>5
  <2>9. workflow' = workflow /\ \A b \in Blocks : ~ InLoop(b) /\ b \in completed => b \in completed'
    BY <2>1
  <2> QED BY <2>6, <2>7, <2>8, <2>9 DEF OrderlyStep
<1>13. ASSUME NEW d \in Blocks, RunBody(t, d)
       PROVE  OrderlyStep
  <2>1. PICK child \in Tasks :
           /\ task[t].pc = "body" /\ d \in task[t].todo
           /\ child[1] = d /\ child # t /\ task[child].pc = "none"
           /\ \A u \in Tasks : u # t /\ u # child => task'[u] = task[u]
           /\ task'[t].pc = "join"
           /\ UNCHANGED <<workflow, completed, failed>>
    BY <1>3, <1>13, RunBodyEffect
  <2>2. t[1] \in Loops /\ d \in LoopDeps(t[1])
    BY <1>3, <2>1 DEF LoopPcs, GoroutineInv, LoopsIterate
  <2>3. InLoop(child[1])
    BY <1>1, <2>1, <2>2, OutsideLoops DEF InLoop
  <2>4. \A u \in Tasks : ~ InLoop(u[1]) /\ u[2] = 1 =>
          /\ u[1] \in completed' => task'[u].pc \in {"cleanup", "end"} \cup LoopPcs
          /\ u[1] \in failed' => task'[u].pc = "end"
          /\ task'[u].pc \in {"cleanup"} \cup LoopPcs => u[1] \in completed'
    BY <1>4, <2>1, <2>3 DEF LoopPcs
  <2> QED BY <2>1, <2>3, <2>4 DEF OrderlyStep
<1> QED
  BY <1>5, <1>6, <1>7, <1>8, <1>9, <1>10, <1>11, <1>12, <1>13, OrderlyOnce DEF TaskStep

\* The server starts the blocks of a resumed execution as those of a new one.
LEMMA ServerOnce ==
  ASSUME Tidy, TypeOK, GoroutineInv, OnceInv, EndExecution \/ Crash \/ GoStale \/ Boot \/ Scan
  PROVE  OnceInv'
<1>1. workflow' = workflow /\ workflow \in Workflows
  BY DEF EndExecution, Crash, GoStale, Boot, Scan, TypeOK
<1>2. Tidy' = Tidy
  BY <1>1, SameLoops
<1>3. ASSUME UNCHANGED <<completed, failed, task>> PROVE OnceInv'
  BY <1>1, <1>3, SameLoops DEF OnceInv, OuterOnce, OuterTurn, OuterOver, OuterDone
<1>4. CASE EndExecution \/ GoStale \/ Boot
  BY <1>3, <1>4 DEF EndExecution, GoStale, Boot, memory
<1>5. CASE Crash
  <2>1. completed' = {} /\ failed' = {} /\ \A u \in Tasks : task'[u].pc = "none"
    BY <1>5 DEF Crash, Forget, NoTask
  <2>2. "none" \notin {"cleanup"} \cup LoopPcs
    BY DEF LoopPcs
  <2> QED BY <2>1, <2>2 DEF OnceInv, OuterOnce, OuterTurn, OuterOver, OuterDone
<1>6. CASE Scan
  <2>1. server = "up" /\ UNCHANGED <<outputs, completed, failed>>
    BY <1>6 DEF Scan, memory
  <2>2. completed = {} /\ failed = {} /\ outputs = Nothing
    BY <2>1 DEF GoroutineInv, AtRest
  <2>3. CASE Orphaned
    <3>1. server' = "running" /\ task' = FreshTasks
      BY <1>6, <2>3 DEF Scan
    <3>2. workflow' \in Workflows /\ completed' = {} /\ failed' = {} /\ outputs' = Nothing
      BY <1>1, <2>1, <2>2
    <3>3. Fresh'
      BY <1>1, <3>1, <3>2 DEF Fresh, FreshTasks, StartBlocks, Present, Dependencies
    <3> QED BY <1>2, <3>3, FreshOnceNext
  <2>4. CASE ~ Orphaned
    BY <1>3, <1>6, <2>1, <2>4 DEF Scan
  <2> QED BY <2>3, <2>4
<1> QED BY <1>4, <1>5, <1>6

\* Every step keeps the invariant.
LEMMA NextOnce ==
  TypeOK /\ GoroutineInv /\ (Tidy => OnceInv) /\ [Next]_vars => (Tidy => OnceInv)'
<1> SUFFICES ASSUME TypeOK, GoroutineInv, Tidy => OnceInv, [Next]_vars, Tidy' PROVE OnceInv'
  OBVIOUS
<1>1. workflow' = workflow
  BY NextKeepsWorkflow DEF vars
<1>2. Tidy /\ OnceInv
  BY <1>1, SameLoops
<1>3. CASE UNCHANGED vars
  BY <1>2, <1>3, SameLoops DEF vars, OnceInv, OuterOnce, OuterTurn, OuterOver, OuterDone
<1> QED BY <1>2, <1>3, TaskStepOnce, ServerOnce DEF Next

\* The invariants hold in every state of every execution.
LEMMA OnceInvHolds == Spec => [](TypeOK /\ GoroutineInv /\ (Tidy => OnceInv))
<1>1. Init => TypeOK /\ GoroutineInv /\ (Tidy => OnceInv)
  BY InitTyped, FreshGoroutines, FreshOnce DEF Init, Fresh
<1>2. TypeOK /\ GoroutineInv /\ (Tidy => OnceInv) /\ [Next]_vars
        => TypeOK' /\ GoroutineInv' /\ (Tidy => OnceInv)'
  BY NextTyped, NextGoroutines, NextOnce
<1> QED BY <1>1, <1>2, PTL DEF Spec

\* However its dependencies race, a block in no loop is dispatched once per start of the server,
\* in every tidy workflow: the completion that finds all others done is the only one to do it.
THEOREM OncePerStartHolds == Spec => []OncePerStart
<1>1. (Tidy => OnceInv) => OncePerStart
  BY DEF OncePerStart, OnceInv, OuterOnce
<1> QED BY <1>1, OnceInvHolds, PTL

-----------------------------------------------------------------------------
(* The iterations of a loop, in an execution that was not interrupted.      *)

\* A loop that is in no other one, whose body has no loop, with something behind its done port.
Isolated(f) == f \in Loops /\ ~ InLoop(f) /\ SelfContained(f) /\ DoneDeps(f) # {}

\* Its goroutine, and when that is in the midst of an item.
Root(f)    == <<f, 1>>
InItem(f)  == task[Root(f)].pc \in {"body", "join", "settle"}
Before(f)  == task[Root(f)].pc \in Early \cup {"none"}

Uninterrupted == server \in {"running", "ended"}

\* Among the first k of a list of items, the different ones: for the first k items of the
\* workflow a block of the body is executed so often at least.
Different(items, k) == Cardinality({items[j] : j \in {i \in DOMAIN items : i <= k}})

\* The loop is not served from a checkpoint: it has none before it executes.
Unserved(f) ==
  /\ ~ task[Root(f)].served
  /\ task[Root(f)].pc \in {"none", "wait", "read", "lookup"} => doc.saved[f].out = NoOutput

\* A checkpoint of a block of the body is of an item, for which it was executed.
SavedInItem(f) ==
  \A b \in LoopBody(f) : doc.saved[b].out # NoOutput =>
    \E j \in DOMAIN workflow.items :
      doc.saved[b].seen[f].item = workflow.items[j] /\ fired[b] >= Different(workflow.items, j)

\* Between two items the body rests, and before the first nothing of it has completed.
Quiet(f) ==
  /\ ~ InItem(f) => \A u \in Tasks : u[1] \in LoopBody(f) => ~ Live(u)
  /\ Before(f) => LoopBody(f) \cap completed = {}

\* Within an item a block of the body has one goroutine under way, which completes it and
\* cleans up; it has been started, or has completed, after what it depends on.
OneAtATime(f) ==
  /\ \A u, v \in Tasks : u[1] \in LoopBody(f) /\ v[1] = u[1] /\ Live(u) /\ Live(v) => u = v
  /\ \A u \in Tasks :
       u[1] \in LoopBody(f) /\ Live(u) /\ u[1] \in completed => task[u].pc = "cleanup"
  /\ \A b \in LoopBody(f) :
       b \in completed \/ (\E u \in Tasks : u[1] = b /\ Live(u)) => Dependencies(b) \subseteq completed

\* What is left to start in this item has neither started nor completed in it; something
\* was started when the loop waits for it, and nothing is left when it waits for the rest.
Todo(f) ==
  InItem(f) =>
    /\ \A d \in task[Root(f)].todo : d \notin completed /\ \A u \in Tasks : u[1] = d => ~ Live(u)
    /\ task[Root(f)].pc = "join" => task[Root(f)].todo # LoopDeps(f)
    /\ task[Root(f)].pc = "settle" => task[Root(f)].todo = {}

\* Of the item k under way, the body has been executed for the items before it.
Item(f) == task[Root(f)].item + 1
Earlier(f) ==
  task[Root(f)].pc \in LoopPcs => \A b \in LoopBody(f) : fired[b] >= Different(workflow.items, Item(f) - 1)

\* For k itself, what has completed; and what is about to has read k.
Current(f) ==
  InItem(f) =>
    /\ Item(f) \in DOMAIN workflow.items /\ outputs[f].item = workflow.items[Item(f)]
    /\ \A b \in LoopBody(f) \cap completed : fired[b] >= Different(workflow.items, Item(f))
    /\ \A u \in Tasks : u[1] \in LoopBody(f) =>
         /\ task[u].pc \in {"lookup", "exec", "store", "save"} =>
              task[u].seen[f].item = workflow.items[Item(f)]
         /\ task[u].pc \in {"store", "save", "complete"} => fired[u[1]] >= Different(workflow.items, Item(f))

\* A loop that has come to its end has run its body for every item.
AllItems(f) ==
  f \in completed => \A b \in LoopBody(f) :
    fired[b] >= Different(workflow.items, Len(workflow.items))

\* A loop is over, or it is on its way.
Over(f) == task[Root(f)].pc = "end" /\ AllItems(f)
Iterates(f) ==
  /\ task[Root(f)].pc # "end" /\ Unserved(f) /\ SavedInItem(f) /\ Quiet(f)
  /\ OneAtATime(f) /\ Todo(f) /\ Earlier(f) /\ Current(f)

LoopInv ==
  crashes = 0 => Uninterrupted /\ \A f \in Loops : Isolated(f) => Over(f) \/ Iterates(f)

\* The different items are counted item by item: an item counts when it is not one of the
\* earlier ones, and in the end all of them have been counted.
LEMMA CountItems ==
  ASSUME NEW items \in Seq(Nat)
  PROVE  /\ Different(items, 0) = 0
         /\ \A k \in Nat : Different(items, k) \in Nat
         /\ \A k \in Nat : Different(items, k + 1) <= Different(items, k) + 1
         /\ \A j, k \in Nat : j <= k => Different(items, j) <= Different(items, k)
         /\ \A j, k \in DOMAIN items : j < k /\ items[j] = items[k] =>
              Different(items, k) = Different(items, k - 1)
         /\ \A k \in Nat : k >= Len(items) => Different(items, k) = Different(items, Len(items))
<1> DEFINE n == Len(items)
           First(k) == {i \in DOMAIN items : i <= k}
           Found(k) == {items[j] : j \in First(k)}
<1>1. n \in Nat /\ DOMAIN items = 1..n
  OBVIOUS
<1>2. ASSUME NEW k \in Nat PROVE IsFiniteSet(Found(k))
  <2>1. IsFiniteSet(1..n)
    BY <1>1, FS_Interval
  <2>2. First(k) \subseteq 1..n
    BY <1>1
  <2>3. IsFiniteSet(First(k))
    BY <2>1, <2>2, FS_Subset
  <2> DEFINE image == [j \in First(k) |-> items[j]]
  <2>4. image \in Surjection(First(k), Found(k))
    BY DEF Surjection
  <2> HIDE DEF First, Found, image
  <2> QED BY <2>3, <2>4, FS_Surjection
<1>3. \A k \in Nat : Different(items, k) = Cardinality(Found(k))
  BY DEF Different
<1>4. /\ Found(0) = {}
      /\ \A j, k \in Nat : j <= k => Found(j) \subseteq Found(k)
      /\ \A k \in Nat : Found(k + 1) \subseteq Found(k) \cup {items[k + 1]}
      /\ \A k \in Nat : k >= n => Found(k) = Found(n)
  BY <1>1
<1>5. \A j, k \in DOMAIN items : j < k /\ items[j] = items[k] => Found(k) = Found(k - 1)
  BY <1>1
<1>6. \A k \in DOMAIN items : k \in Nat /\ k - 1 \in Nat
  BY <1>1
<1> HIDE DEF Found, First, n
<1>7. ASSUME NEW k \in Nat PROVE Different(items, k) \in Nat
  <2>1. IsFiniteSet(Found(k)) /\ Different(items, k) = Cardinality(Found(k))
    BY <1>2, <1>3
  <2> QED BY <2>1, FS_CardinalityType
<1>8. Different(items, 0) = 0
  <2>1. Different(items, 0) = Cardinality({})
    BY <1>3, <1>4
  <2> QED BY <2>1, FS_EmptySet
<1>9. ASSUME NEW j \in Nat, NEW k \in Nat, j <= k PROVE Different(items, j) <= Different(items, k)
  <2>1. Found(j) \subseteq Found(k) /\ IsFiniteSet(Found(k))
    BY <1>2, <1>4, <1>9
  <2>2. Cardinality(Found(j)) <= Cardinality(Found(k))
    BY <2>1, FS_Subset
  <2> QED BY <1>3, <2>2
<1>10. ASSUME NEW k \in Nat PROVE Different(items, k + 1) <= Different(items, k) + 1
  <2> DEFINE more == Found(k) \cup {items[k + 1]}
  <2>1. /\ IsFiniteSet(more)
        /\ Cardinality(more) = Cardinality(Found(k)) \/ Cardinality(more) = Cardinality(Found(k)) + 1
    BY <1>2, FS_AddElement
  <2>2. Found(k + 1) \subseteq more
    BY <1>4
  <2>3. Cardinality(Found(k + 1)) <= Cardinality(more)
    BY <2>1, <2>2, FS_Subset
  <2>4. /\ Different(items, k) = Cardinality(Found(k)) /\ Different(items, k) \in Nat
        /\ Different(items, k + 1) = Cardinality(Found(k + 1)) /\ Different(items, k + 1) \in Nat
    BY <1>3, <1>7
  <2> HIDE DEF more
  <2> QED BY <2>1, <2>3, <2>4
<1>11. \A j, k \in DOMAIN items : j < k /\ items[j] = items[k] =>
         Different(items, k) = Different(items, k - 1)
  BY <1>3, <1>5, <1>6
<1>12. \A k \in Nat : k >= Len(items) => Different(items, k) = Different(items, Len(items))
  BY <1>1, <1>3, <1>4 DEF n
<1> QED BY <1>7, <1>8, <1>9, <1>10, <1>11, <1>12

\* So it is for the items of the workflow.
LEMMA WorkflowItems ==
  ASSUME TypeOK
  PROVE  /\ Len(workflow.items) \in Nat /\ DOMAIN workflow.items = 1..Len(workflow.items)
         /\ \A k \in DOMAIN workflow.items :
              k \in Nat /\ Different(workflow.items, k) \in Nat /\ workflow.items[k] # 0
         /\ \A k \in Nat : k < Len(workflow.items) => k + 1 \in DOMAIN workflow.items
         /\ Different(workflow.items, 0) = 0
         /\ \A k \in Nat :
              /\ Different(workflow.items, k) \in Nat
              /\ Different(workflow.items, k + 1) <= Different(workflow.items, k) + 1
         /\ \A j, k \in Nat : j <= k => Different(workflow.items, j) <= Different(workflow.items, k)
         /\ \A j, k \in DOMAIN workflow.items : j < k /\ workflow.items[j] = workflow.items[k] =>
              Different(workflow.items, k) = Different(workflow.items, k - 1)
         /\ \A k \in Nat : k >= Len(workflow.items) =>
              Different(workflow.items, k) = Different(workflow.items, Len(workflow.items))
         /\ Different(workflow.items, Len(workflow.items)) = Cardinality(DifferentItems)
<1> DEFINE items == workflow.items
<1>1. items \in Seq(Nat \ {0})
  BY EngineAssumption DEF TypeOK
<1>2. /\ items \in Seq(Nat)
      /\ Len(items) \in Nat /\ DOMAIN items = 1..Len(items)
      /\ \A k \in DOMAIN items : k \in Nat /\ items[k] # 0
      /\ \A k \in Nat : k < Len(items) => k + 1 \in DOMAIN items
  BY <1>1
<1> HIDE DEF items
<1>3. /\ Different(items, 0) = 0
      /\ \A k \in Nat : Different(items, k) \in Nat
      /\ \A k \in Nat : Different(items, k + 1) <= Different(items, k) + 1
      /\ \A j, k \in Nat : j <= k => Different(items, j) <= Different(items, k)
      /\ \A j, k \in DOMAIN items : j < k /\ items[j] = items[k] =>
           Different(items, k) = Different(items, k - 1)
      /\ \A k \in Nat : k >= Len(items) => Different(items, k) = Different(items, Len(items))
  BY <1>2, CountItems
<1>4. Different(items, Len(items)) = Cardinality(DifferentItems)
  <2>1. {items[j] : j \in {i \in DOMAIN items : i <= Len(items)}} = DifferentItems
    BY <1>2 DEF DifferentItems, items
  <2> QED BY <2>1 DEF Different
<1> QED BY <1>2, <1>3, <1>4 DEF items

\* Such a loop, its body and the blocks around it.
LEMMA AroundLoop ==
  ASSUME Tidy, TypeOK, NEW f, Isolated(f)
  PROVE  /\ f \in Blocks /\ f \in Loops /\ ~ InLoop(f)
         /\ Root(f) \in Tasks /\ Root(f)[1] = f /\ Root(f)[2] = 1
         /\ \A u \in Tasks : u[1] \in Blocks /\ (u[1] = f /\ u[2] = 1 => u = Root(f))
         /\ LoopBody(f) \subseteq Blocks
         /\ \A b \in LoopBody(f) :
              /\ b # f /\ b \notin Loops /\ InLoop(b) /\ b \notin DoneDeps(f)
              /\ \A x \in Dependencies(b) :
                   x \in LoopBody(f) \/ x = f \/ (x \in Blocks /\ x \notin Loops /\ ~ InLoop(x))
              /\ f \in Dependencies(b) <=> b \in LoopDeps(f)
              /\ f \in Dependencies(b) \/ Dependencies(b) \cap LoopBody(f) # {}
              /\ Dependents(b) \subseteq LoopBody(f)
         /\ \A d \in LoopDeps(f) :
              /\ Dependencies(d) \cap LoopBody(f) = {}
              /\ Dependencies(d) \subseteq {f} \cup Dependencies(f) \/ LoopDeps(f) = {d}
         /\ LoopDeps(f) \subseteq LoopBody(f) /\ LoopDeps(f) \subseteq Dependents(f)
         /\ \A x \in Dependencies(f) : ~ InLoop(x) /\ x \in Blocks
         /\ \A d \in DoneDeps(f) : d \in Dependents(f) /\ d \in Blocks /\ ~ InLoop(d) /\ Dependencies(d) = {f}
<1>1. f \in Blocks /\ f \in Loops /\ ~ InLoop(f) /\ SelfContained(f) /\ workflow \in Workflows
  BY DEF Isolated, Loops, TypeOK
<1>2. Root(f) \in Tasks /\ Root(f)[1] = f /\ Root(f)[2] = 1
  BY <1>1, FirstGoroutine DEF Root
<1>3. \A u \in Tasks : u[1] \in Blocks /\ (u[1] = f /\ u[2] = 1 => u = Root(f))
  BY DEF Tasks, Root
<1>4. LoopBody(f) \subseteq Blocks
  BY <1>1, BodyOfLoop
<1>5. \A x \in Dependencies(f) : ~ InLoop(x) /\ x \in Blocks
  BY <1>1, OutsideLoops, GraphSides
<1>6. \A d \in DoneDeps(f) : d \in Dependents(f) /\ d \in Blocks /\ ~ InLoop(d) /\ Dependencies(d) = {f}
  BY <1>1, OutsideLoops, DependentsTyped DEF DoneDeps
<1>7. LoopDeps(f) \subseteq LoopBody(f) /\ LoopDeps(f) \subseteq Dependents(f)
  BY <1>1, OutsideLoops DEF LoopDeps
<1>8. ASSUME NEW b \in LoopBody(f)
      PROVE  /\ b # f /\ b \notin Loops /\ InLoop(b) /\ b \notin DoneDeps(f)
             /\ \A x \in Dependencies(b) :
                  x \in LoopBody(f) \/ x = f \/ (x \in Blocks /\ x \notin Loops /\ ~ InLoop(x))
             /\ f \in Dependencies(b) <=> b \in LoopDeps(f)
             /\ f \in Dependencies(b) \/ Dependencies(b) \cap LoopBody(f) # {}
  <2>1. /\ b # f /\ b \notin DoneDeps(f) /\ InLoop(b)
        /\ f \in Dependencies(b) \/ Dependencies(b) \cap LoopBody(f) # {}
    BY <1>1, <1>8, BodyOfLoop DEF InLoop
  <2>2. /\ b \notin Loops
        /\ \A x \in Dependencies(b) : x # f => x \notin Loops /\ (InLoop(x) => x \in LoopBody(f))
    BY <1>1, <1>8, <2>1 DEF SelfContained
  <2>3. Dependencies(b) \subseteq Blocks
    BY <1>1, GraphSides
  <2>4. f \in Dependencies(b) <=> b \in Dependents(f)
    BY <1>1, GraphSides
  <2>5. b \in Dependents(f) <=> b \in LoopDeps(f)
    BY <2>1 DEF LoopDeps, DoneDeps, Dependents, Between
  <2> QED BY <2>1, <2>2, <2>3, <2>4, <2>5
<1>9. ASSUME NEW b \in LoopBody(f), NEW d \in Dependents(b) PROVE d \in LoopBody(f)
  <2>1. b \in Dependencies(d)
    BY <1>1, GraphSides
  <2>2. d # f
    BY <1>1, <1>9, <2>1 DEF Tidy
  <2>3. d \notin DoneDeps(f)
    BY <1>6, <1>8, <1>9, <2>1
  <2> QED BY <1>1, <1>9, <2>2, <2>3, BodyOfLoop
<1>10. \A d \in LoopDeps(f) :
         /\ Dependencies(d) \cap LoopBody(f) = {}
         /\ Dependencies(d) \subseteq {f} \cup Dependencies(f) \/ LoopDeps(f) = {d}
  BY <1>1 DEF SelfContained
<1> QED BY <1>1, <1>2, <1>3, <1>4, <1>5, <1>6, <1>7, <1>8, <1>9, <1>10

\* They stay what they are.
LEMMA SameIsolated ==
  ASSUME workflow' = workflow, NEW f
  PROVE  /\ Isolated(f)' <=> Isolated(f)
         /\ LoopBody(f)' = LoopBody(f) /\ Root(f)' = Root(f) /\ LoopDeps(f)' = LoopDeps(f)
         /\ \A b : Dependencies(b)' = Dependencies(b)
<1>1. Root(f)' = Root(f)
  BY DEF Root
<1> QED BY <1>1, SameLoops DEF Isolated

\* A step that leaves the loop and its body alone, or starts the loop.
LEMMA Elsewhere ==
  ASSUME workflow' = workflow, NEW f, Iterates(f), Root(f) \in Tasks,
         task[Root(f)].todo \subseteq LoopBody(f),
         \A u \in Tasks : u[1] \in LoopBody(f) => task'[u] = task[u],
         \/ task'[Root(f)] = task[Root(f)]
         \/ task[Root(f)].pc = "none" /\ task'[Root(f)] = Waiting,
         \A b \in LoopBody(f) :
           /\ b \in completed' <=> b \in completed
           /\ \A x \in Dependencies(b) : x \in completed => x \in completed'
           /\ doc'.saved[b] = doc.saved[b] /\ fired'[b] = fired[b],
         doc'.saved[f] = doc.saved[f], InItem(f) => outputs'[f] = outputs[f]
  PROVE  Iterates(f)'
<1> DEFINE r == Root(f)
           body == LoopBody(f)
<1>1. /\ r' = r /\ body' = body /\ LoopDeps(f)' = LoopDeps(f)
      /\ \A b : Dependencies(b)' = Dependencies(b)
  BY SameIsolated
<1>2. Waiting.pc = "wait" /\ ~ Waiting.served /\ "wait" \in Early /\ "none" \notin Early /\ "wait" \notin LoopPcs
  BY DEF Waiting, NoTask, Early, LoopPcs
<1>3. /\ task[r].pc # "none" => task'[r] = task[r]
      /\ task'[r].pc # "wait" => task'[r] = task[r]
      /\ task'[r].pc = "wait" => task[r].pc \in {"wait", "none"}
      /\ task'[r].pc = "none" => task[r].pc = "none"
  BY <1>2
<1>4. \A u \in Tasks : u[1] \in body => (Live(u)' <=> Live(u))
  BY DEF Live
<1>5. InItem(f)' <=> InItem(f)
  BY <1>1, <1>3 DEF InItem
<1>6. Unserved(f)'
  <2>1. ~ task'[r].served
    BY <1>2 DEF Iterates, Unserved
  <2>2. task'[r].pc \in {"none", "wait", "read", "lookup"} => task[r].pc \in {"none", "wait", "read", "lookup"}
    BY <1>3
  <2> QED BY <1>1, <2>1, <2>2 DEF Iterates, Unserved
<1>7. SavedInItem(f)'
  BY <1>1 DEF Iterates, SavedInItem
<1>8. Quiet(f)'
  <2>1. Before(f)' => Before(f)
    BY <1>1, <1>2, <1>3 DEF Before
  <2> QED BY <1>1, <1>4, <1>5, <2>1 DEF Iterates, Quiet
<1>9. OneAtATime(f)'
  <2>1. \A b \in body : (\E u \in Tasks : u[1] = b /\ Live(u)') <=> (\E u \in Tasks : u[1] = b /\ Live(u))
    BY <1>4
  <2> QED BY <1>1, <1>4, <2>1 DEF Iterates, OneAtATime
<1>10. Todo(f)'
  <2> SUFFICES ASSUME InItem(f) PROVE Todo(f)'
    BY <1>5 DEF Todo
  <2>1. task'[r] = task[r] /\ task[r].todo \subseteq body
    BY <1>3 DEF InItem
  <2> QED BY <1>1, <1>4, <2>1 DEF Iterates, Todo
<1>11. Earlier(f)'
  BY <1>1, <1>2, <1>3 DEF Iterates, Earlier, Item
<1>12. Current(f)'
  BY <1>1, <1>3, <1>5 DEF Iterates, Current, Item, InItem
<1>13. task'[r].pc # "end"
  BY <1>2 DEF Iterates
<1> QED BY <1>1, <1>6, <1>7, <1>8, <1>9, <1>10, <1>11, <1>12, <1>13 DEF Iterates

\* A loop that is over stays so.
LEMMA StaysOver ==
  ASSUME workflow' = workflow, NEW f, Over(f), task'[Root(f)] = task[Root(f)],
         f \in completed' => f \in completed,
         \A b \in LoopBody(f) : fired[b] \in Nat /\ fired'[b] \in {fired[b], fired[b] + 1},
         Different(workflow.items, Len(workflow.items)) \in Nat
  PROVE  Over(f)'
<1>1. Root(f)' = Root(f) /\ LoopBody(f)' = LoopBody(f)
  BY SameIsolated
<1>2. AllItems(f) /\ task[Root(f)].pc = "end"
  BY DEF Over
<1> QED BY <1>1, <1>2 DEF Over, AllItems

\* What executing a block does to its goroutine, its output, its checkpoint and its count.
LEMMA ExecutesBlock ==
  ASSUME TypeOK, NEW t \in Tasks,
         \/ Acquire(t) \/ Read(t) \/ Lookup(t) \/ Execute(t) \/ ExecuteFail(t)
         \/ Store(t) \/ Save(t) \/ LookupLost(t) \/ SaveLost(t)
  PROVE  /\ \A b \in Blocks : b # t[1] =>
              outputs'[b] = outputs[b] /\ doc'.saved[b] = doc.saved[b] /\ fired'[b] = fired[b]
         /\ fired'[t[1]] \in {fired[t[1]], fired[t[1]] + 1}
         /\ \/ doc'.saved[t[1]] = doc.saved[t[1]]
            \/ /\ task[t].pc = "save"
               /\ doc'.saved[t[1]].seen = task[t].seen /\ doc'.saved[t[1]].out = task[t].out
         /\ \/ task'[t].served = task[t].served
            \/ task[t].pc = "lookup" /\ Serves(doc.saved[t[1]], task[t].seen)
         /\ task[t].pc \in {"lookup", "exec", "store"} => task'[t].seen = task[t].seen
         /\ \/ task[t].pc = "wait" /\ task'[t].pc = "read"
            \/ task[t].pc = "read" /\ task'[t].pc = "lookup" /\ task'[t].seen = outputs
            \/ task[t].pc = "lookup" /\ task'[t].pc = "exec"
            \/ /\ task[t].pc = "lookup" /\ task'[t].pc = "store"
               /\ Serves(doc.saved[t[1]], task[t].seen)
            \/ /\ task[t].pc = "exec" /\ task'[t].pc \in {"store", "fail"}
               /\ fired'[t[1]] = fired[t[1]] + 1
            \/ task[t].pc = "store" /\ task'[t].pc \in {"save", "complete"}
            \/ task[t].pc = "save" /\ task'[t].pc = "complete"
<1>1. /\ task \in [Tasks -> Task] /\ task[t] \in Task /\ t[1] \in Blocks
      /\ fired \in [Blocks -> Nat] /\ fired[t[1]] \in Nat
      /\ outputs = [b \in Blocks |-> outputs[b]]
  BY DEF TypeOK, Tasks, Outputs
<1>2. CASE Acquire(t)
  BY <1>1, <1>2 DEF Acquire, At, Go, Task
<1>3. CASE Read(t)
  BY <1>1, <1>3 DEF Read, At, memory, Task
<1>4. CASE Lookup(t)
  <2>1. task[t].pc = "lookup" /\ UNCHANGED <<doc, outputs, fired>>
    BY <1>4 DEF Lookup, At, memory
  <2>2. CASE Serves(doc.saved[t[1]], task[t].seen)
    <3>1. task'[t].pc = "store" /\ task'[t].seen = task[t].seen
      BY <1>1, <1>4, <2>2 DEF Lookup, Task
    <3> QED BY <1>1, <2>1, <2>2, <3>1
  <2>3. CASE ~ Serves(doc.saved[t[1]], task[t].seen)
    <3>1. task'[t].pc = "exec" /\ task'[t].seen = task[t].seen /\ task'[t].served = task[t].served
      BY <1>1, <1>4, <2>3 DEF Lookup, Task
    <3> QED BY <1>1, <2>1, <3>1
  <2> QED BY <2>2, <2>3
<1>5. CASE Execute(t)
  <2>1. PICK branch \in Choices(t[1]) :
          task' = [task EXCEPT ![t].pc = "store",
                     ![t].out = [run |-> fired'[t[1]], branch |-> branch, item |-> 0]]
    BY <1>5 DEF Execute
  <2>2. task'[t].pc = "store" /\ task'[t].seen = task[t].seen /\ task'[t].served = task[t].served
    BY <1>1, <2>1 DEF Task
  <2>3. /\ task[t].pc = "exec" /\ UNCHANGED <<doc, outputs>>
        /\ fired' = [fired EXCEPT ![t[1]] = fired[t[1]] + 1]
    BY <1>5 DEF Execute, At, memory
  <2>4. fired'[t[1]] = fired[t[1]] + 1 /\ \A b \in Blocks : b # t[1] => fired'[b] = fired[b]
    BY <1>1, <2>3
  <2> QED BY <1>1, <2>2, <2>3, <2>4
<1>6. CASE ExecuteFail(t)
  <2>1. /\ task[t].pc = "exec" /\ UNCHANGED <<doc, outputs>>
        /\ fired' = [fired EXCEPT ![t[1]] = fired[t[1]] + 1]
    BY <1>6 DEF ExecuteFail, At
  <2>2. task'[t].pc = "fail" /\ task'[t].seen = task[t].seen /\ task'[t].served = task[t].served
    BY <1>1, <1>6 DEF ExecuteFail, Go, Task
  <2>3. fired'[t[1]] = fired[t[1]] + 1 /\ \A b \in Blocks : b # t[1] => fired'[b] = fired[b]
    BY <1>1, <2>1
  <2> QED BY <1>1, <2>1, <2>2, <2>3
<1>7. CASE Store(t)
  BY <1>1, <1>7 DEF Store, AfterStore, At, Go, Task
<1>8. CASE Save(t)
  <2>1. task[t].pc = "save" /\ task'[t].pc = "complete" /\ task'[t].served = task[t].served
    BY <1>1, <1>8 DEF Save, At, Go, Task
  <2>2. UNCHANGED <<outputs, fired>>
    BY <1>8 DEF Save, memory
  <2>3. doc.saved = [b \in Blocks |-> doc.saved[b]]
    BY DEF TypeOK
  <2>4. doc'.saved = [doc.saved EXCEPT ![t[1]] = [seen |-> task[t].seen, out |-> task[t].out]]
    BY <1>8 DEF Save, TypeOK
  <2>5. /\ \A b \in Blocks : b # t[1] => doc'.saved[b] = doc.saved[b]
        /\ doc'.saved[t[1]].seen = task[t].seen /\ doc'.saved[t[1]].out = task[t].out
    BY <1>1, <2>3, <2>4
  <2> QED BY <1>1, <2>1, <2>2, <2>5
<1>9. CASE LookupLost(t)
  BY <1>1, <1>9 DEF LookupLost, At, Go, memory, Task
<1>10. CASE SaveLost(t)
  BY <1>1, <1>10 DEF SaveLost, At, Go, memory, Task
<1> QED BY <1>2, <1>3, <1>4, <1>5, <1>6, <1>7, <1>8, <1>9, <1>10

\* The goroutines under way in the body of a loop that is in the midst of an item.
LEMMA BodyUnderWay ==
  ASSUME Tidy, TypeOK, NEW f, Isolated(f), Iterates(f),
         NEW t \in Tasks, t[1] \in LoopBody(f), Live(t)
  PROVE  /\ InItem(f) /\ task[Root(f)].pc \in {"body", "join", "settle"} /\ t # Root(f)
         /\ ~ Before(f) /\ task[Root(f)].pc \notin {"none", "wait", "read", "lookup", "end", "item"}
         /\ Item(f) \in Nat /\ Item(f) >= 1
         /\ Different(workflow.items, Item(f)) \in Nat /\ Different(workflow.items, Item(f)) <= Different(workflow.items, Item(f) - 1) + 1
         /\ Different(workflow.items, Item(f) - 1) \in Nat
         /\ \A b \in LoopBody(f) : fired[b] \in Nat /\ fired[b] >= Different(workflow.items, Item(f) - 1)
<1>1. InItem(f)
  BY DEF Iterates, Quiet
<1>2. /\ task[Root(f)].pc \in {"body", "join", "settle"}
      /\ task[Root(f)].pc \notin {"none", "wait", "read", "lookup", "end", "item"}
  BY <1>1 DEF InItem
<1>3. t # Root(f)
  BY AroundLoop
<1>4. ~ Before(f)
  BY <1>2 DEF Before, Early
<1>5. /\ Item(f) \in Nat /\ Item(f) >= 1 /\ Item(f) - 1 \in Nat
      /\ Different(workflow.items, Item(f)) \in Nat /\ Different(workflow.items, Item(f)) <= Different(workflow.items, Item(f) - 1) + 1
      /\ Different(workflow.items, Item(f) - 1) \in Nat
  <2>1. task[Root(f)] \in Task
    BY AroundLoop DEF TypeOK
  <2>2. Item(f) \in Nat /\ Item(f) >= 1 /\ Item(f) - 1 \in Nat /\ (Item(f) - 1) + 1 = Item(f)
    BY <2>1 DEF Item, Task
  <2> HIDE DEF Item
  <2> QED BY <2>2, WorkflowItems
<1>6. \A b \in LoopBody(f) : fired[b] >= Different(workflow.items, Item(f) - 1)
  BY <1>2 DEF Iterates, Earlier, LoopPcs
<1>7. \A b \in LoopBody(f) : fired[b] \in Nat
  BY AroundLoop DEF TypeOK
<1> QED BY <1>1, <1>2, <1>3, <1>4, <1>5, <1>6, <1>7

\* Executing a block of the body keeps what is said of the iterations.
LEMMA BodyExecutes ==
  ASSUME Tidy, TypeOK, NEW f, Isolated(f), Iterates(f),
         NEW t \in Tasks, t[1] \in LoopBody(f),
         \/ Acquire(t) \/ Read(t) \/ Lookup(t) \/ Execute(t) \/ ExecuteFail(t)
         \/ Store(t) \/ Save(t) \/ LookupLost(t) \/ SaveLost(t)
  PROVE  Iterates(f)'
<1> DEFINE r == Root(f)
           body == LoopBody(f)
           k == Item(f)
           n == Different(workflow.items, k)
           m == Different(workflow.items, k - 1)
<1>1. /\ task[t].pc \in Early /\ task'[t].pc \in Early
      /\ \A u \in Tasks : u # t => task'[u] = task[u]
      /\ UNCHANGED <<workflow, completed>>
  BY ExecutesAlone
<1>2. /\ \A b \in Blocks : b # t[1] =>
           outputs'[b] = outputs[b] /\ doc'.saved[b] = doc.saved[b] /\ fired'[b] = fired[b]
      /\ fired'[t[1]] \in {fired[t[1]], fired[t[1]] + 1}
      /\ \/ doc'.saved[t[1]] = doc.saved[t[1]]
         \/ /\ task[t].pc = "save"
            /\ doc'.saved[t[1]].seen = task[t].seen /\ doc'.saved[t[1]].out = task[t].out
      /\ task[t].pc \in {"lookup", "exec", "store"} => task'[t].seen = task[t].seen
      /\ \/ task[t].pc = "wait" /\ task'[t].pc = "read"
         \/ task[t].pc = "read" /\ task'[t].pc = "lookup" /\ task'[t].seen = outputs
         \/ task[t].pc = "lookup" /\ task'[t].pc = "exec"
         \/ /\ task[t].pc = "lookup" /\ task'[t].pc = "store"
            /\ Serves(doc.saved[t[1]], task[t].seen)
         \/ /\ task[t].pc = "exec" /\ task'[t].pc \in {"store", "fail"}
            /\ fired'[t[1]] = fired[t[1]] + 1
         \/ task[t].pc = "store" /\ task'[t].pc \in {"save", "complete"}
         \/ task[t].pc = "save" /\ task'[t].pc = "complete"
  BY ExecutesBlock
<1>3. Live(t) /\ Live(t)' /\ task[t].pc # "cleanup" /\ \A u \in Tasks : Live(u)' <=> Live(u)
  BY <1>1 DEF Live, Early
<1>4. /\ InItem(f) /\ task[r].pc \in {"body", "join", "settle"} /\ t # r
      /\ ~ Before(f) /\ task[r].pc \notin {"none", "wait", "read", "lookup", "end", "item"}
      /\ k \in Nat /\ k >= 1 /\ n \in Nat /\ n <= m + 1 /\ m \in Nat
      /\ \A b \in LoopBody(f) : fired[b] \in Nat /\ fired[b] >= m
  BY <1>3, BodyUnderWay
<1>5. r' = r /\ body' = body /\ LoopDeps(f)' = LoopDeps(f) /\ \A b : Dependencies(b)' = Dependencies(b)
  BY <1>1, SameIsolated
<1>6. r \in Tasks /\ f \in Blocks /\ body \subseteq Blocks /\ f # t[1] /\ t[1] \in Blocks
  BY AroundLoop
<1>7. task'[r] = task[r] /\ k' = k /\ n' = n /\ m' = m /\ InItem(f)' /\ ~ Before(f)'
  BY <1>1, <1>4, <1>5, <1>6 DEF InItem, Item, Before
<1>8. \A b \in body : fired'[b] >= fired[b] /\ fired'[b] \in Int
  BY <1>2, <1>4, <1>6
<1>9. Unserved(f)'
  <2>1. ~ task[r].served /\ task[r].pc \notin {"none", "wait", "read", "lookup"}
    BY <1>4 DEF Iterates, Unserved
  <2> QED BY <1>5, <1>7, <2>1 DEF Unserved
<1>10. /\ k \in DOMAIN workflow.items /\ outputs[f].item = workflow.items[k]
       /\ \A b \in body \cap completed : fired[b] >= n
       /\ \A u \in Tasks : u[1] \in body =>
            /\ task[u].pc \in {"lookup", "exec", "store", "save"} =>
                 task[u].seen[f].item = workflow.items[k]
            /\ task[u].pc \in {"store", "save", "complete"} => fired[u[1]] >= n
  BY <1>4 DEF Iterates, Current
<1>11. SavedInItem(f)'
  <2> SUFFICES ASSUME NEW b \in body, doc'.saved[b].out # NoOutput
               PROVE  \E j \in DOMAIN workflow.items :
                        /\ doc'.saved[b].seen[f].item = workflow.items[j]
                        /\ fired'[b] >= Different(workflow.items, j)
    BY <1>1, <1>5 DEF SavedInItem
  <2>1. CASE doc'.saved[b] = doc.saved[b]
    <3>1. PICK j \in DOMAIN workflow.items :
            /\ doc.saved[b].seen[f].item = workflow.items[j]
            /\ fired[b] >= Different(workflow.items, j)
      BY <2>1 DEF Iterates, SavedInItem
    <3>2. Different(workflow.items, j) \in Nat
      BY WorkflowItems
    <3>3. fired'[b] >= Different(workflow.items, j)
      BY <1>4, <1>8, <3>1, <3>2
    <3> QED BY <2>1, <3>1, <3>3
  <2>2. CASE doc'.saved[b] # doc.saved[b]
    <3>1. b = t[1] /\ task[t].pc = "save" /\ doc'.saved[b].seen = task[t].seen
      BY <1>2, <1>6, <2>2
    <3>2. task[t].seen[f].item = workflow.items[k] /\ fired[b] >= n
      BY <1>10, <3>1
    <3>3. fired'[b] >= n
      BY <1>4, <1>8, <3>2
    <3> QED BY <1>10, <3>1, <3>2, <3>3
  <2> QED BY <2>1, <2>2
<1>12. Quiet(f)'
  BY <1>7 DEF Quiet
<1>13. t[1] \notin completed
  BY <1>3 DEF Iterates, OneAtATime
<1>14. OneAtATime(f)'
  <2>1. \A b \in body : (\E u \in Tasks : u[1] = b /\ Live(u)') <=> (\E u \in Tasks : u[1] = b /\ Live(u))
    BY <1>3
  <2>2. \A u \in Tasks : u[1] \in body /\ Live(u) /\ u[1] \in completed => task'[u].pc = "cleanup"
    BY <1>1, <1>13 DEF Iterates, OneAtATime
  <2> QED BY <1>1, <1>3, <1>5, <2>1, <2>2 DEF Iterates, OneAtATime
<1>15. Todo(f)'
  BY <1>1, <1>3, <1>4, <1>5, <1>7 DEF Iterates, Todo
<1>16. Earlier(f)'
  <2>1. \A b \in body : fired'[b] >= m
    BY <1>4, <1>8
  <2> QED BY <1>5, <1>7, <2>1 DEF Earlier
<1>17. Current(f)'
  <2>1. outputs'[f].item = workflow.items[k] /\ k \in DOMAIN workflow.items
    BY <1>2, <1>6, <1>10
  <2>2. \A b \in body \cap completed : fired'[b] >= n
    BY <1>4, <1>8, <1>10
  <2>3. task'[t].pc \in {"lookup", "exec", "store", "save"} =>
          task'[t].seen[f].item = workflow.items[k]
    <3>1. CASE task[t].pc = "read"
      BY <1>2, <1>10, <3>1
    <3>2. CASE task[t].pc # "read" /\ task'[t].pc \in {"lookup", "exec", "store", "save"}
      <4>1. task[t].pc \in {"lookup", "exec", "store"}
        BY <1>2, <3>2
      <4> QED BY <1>2, <1>10, <4>1
    <3> QED BY <3>1, <3>2
  <2>4. task'[t].pc \in {"store", "save", "complete"} => fired'[t[1]] >= n
    <3>1. CASE task[t].pc \in {"store", "save"}
      BY <1>4, <1>8, <1>10, <3>1
    <3>2. CASE task[t].pc = "exec"
      BY <1>2, <1>4, <3>2
    <3>3. CASE /\ task[t].pc = "lookup" /\ task'[t].pc = "store"
               /\ Serves(doc.saved[t[1]], task[t].seen)
      <4>1. /\ doc.saved[t[1]].out # NoOutput
            /\ doc.saved[t[1]].seen = task[t].seen \/ doc.saved[t[1]].seen = Nothing
        BY <3>3 DEF Serves
      <4>2. PICK j \in DOMAIN workflow.items :
              /\ doc.saved[t[1]].seen[f].item = workflow.items[j]
              /\ fired[t[1]] >= Different(workflow.items, j)
        BY <4>1 DEF Iterates, SavedInItem
      <4>3. Nothing[f].item = 0 /\ workflow.items[j] # 0
        BY <1>6, WorkflowItems DEF Nothing, NoOutput
      <4>4. task[t].seen[f].item = workflow.items[k]
        BY <1>10, <3>3
      <4>5. \* The checkpoint is of this item, or of an earlier one that equals it.
            workflow.items[j] = workflow.items[k]
        BY <4>1, <4>2, <4>3, <4>4
      <4>6. Different(workflow.items, j) \in Nat /\ j \in Nat
        BY WorkflowItems
      <4>7. fired[t[1]] >= n
        <5>1. CASE j < k
          <6>1. n = m
            BY <1>10, <4>5, <5>1, WorkflowItems
          <6>2. fired[t[1]] >= m
            BY <1>4
          <6> QED BY <6>1, <6>2
        <5>2. CASE j >= k
          <6>1. Different(workflow.items, j) >= n
            BY <1>4, <4>6, <5>2, WorkflowItems
          <6> QED BY <1>4, <4>2, <4>6, <6>1
        <5> QED BY <1>4, <4>6, <5>1, <5>2
      <4> QED BY <1>4, <1>8, <4>7
    <3>4. CASE task[t].pc \in {"wait", "read"}
      BY <1>2, <3>4
    <3> QED BY <1>2, <3>1, <3>2, <3>3, <3>4
  <2>5. ASSUME NEW u \in Tasks, u # t, u[1] \in body
        PROVE  /\ task'[u].pc \in {"lookup", "exec", "store", "save"} =>
                    task'[u].seen[f].item = workflow.items[k]
               /\ task'[u].pc \in {"store", "save", "complete"} => fired'[u[1]] >= n
    <3>1. task'[u] = task[u]
      BY <1>1, <2>5
    <3> QED BY <1>4, <1>8, <1>10, <2>5, <3>1
  <2> QED BY <1>1, <1>5, <1>7, <2>1, <2>2, <2>3, <2>4, <2>5 DEF Current
<1>18. (task[Root(f)].pc # "end")'
  BY <1>4, <1>5, <1>7
<1> QED BY <1>9, <1>11, <1>12, <1>14, <1>15, <1>16, <1>17, <1>18 DEF Iterates

\* Memory cleanup leaves the item there: what is behind the done port still has to read it.
LEMMA ItemIsKept ==
  ASSUME Tidy, TypeOK, OnceInv, NEW f, Isolated(f), InItem(f), NEW t \in Tasks, Cleanup(t)
  PROVE  outputs'[f] = outputs[f]
<1>1. PICK d \in DoneDeps(f) : TRUE
  BY DEF Isolated
<1>2. d \in Dependents(f) /\ d \in Blocks /\ ~ InLoop(d) /\ f \in Blocks /\ f \in Loops /\ ~ InLoop(f)
  BY AroundLoop
<1>3. <<d, 1>> \in Tasks /\ <<d, 1>>[1] = d /\ <<d, 1>>[2] = 1
  BY <1>2, FirstGoroutine
<1>4. Root(f) \in Tasks /\ Root(f)[1] = f /\ task[Root(f)].pc \notin {"none", "end"}
  BY AroundLoop DEF InItem
<1>5. task[<<d, 1>>].pc = "none"
  BY <1>1, <1>2, <1>3, <1>4 DEF OnceInv, OuterDone
<1>6. d \notin completed /\ d \notin failed
  BY <1>2, <1>3, <1>5 DEF OnceInv, OuterOver, LoopPcs
<1>7. f \notin Freed(t[1])
  BY <1>2, <1>6 DEF Freed
<1> QED BY <1>2, <1>7 DEF Cleanup

\* So does the end of a goroutine of the body.
LEMMA BodyEnds ==
  ASSUME Tidy, TypeOK, OnceInv, NEW f, Isolated(f), Iterates(f),
         NEW t \in Tasks, t[1] \in LoopBody(f), Fail(t) \/ Cleanup(t)
  PROVE  Iterates(f)'
<1> DEFINE r == Root(f)
           body == LoopBody(f)
           k == Item(f)
           n == Different(workflow.items, k)
           m == Different(workflow.items, k - 1)
<1>1. /\ task'[t].pc = "end"
      /\ \A u \in Tasks : u # t => task'[u] = task[u]
      /\ UNCHANGED <<workflow, doc, completed, fired>>
  BY EndsAlone
<1>2. task[t].pc \in {"fail", "cleanup"}
  BY EndsAlone
<1>3. Live(t) /\ ~ Live(t)' /\ \A u \in Tasks : u # t => (Live(u)' <=> Live(u))
  BY <1>1, <1>2 DEF Live
<1>4. /\ InItem(f) /\ task[r].pc \in {"body", "join", "settle"} /\ t # r
      /\ ~ Before(f) /\ task[r].pc \notin {"none", "wait", "read", "lookup", "end", "item"}
      /\ k \in Nat /\ k >= 1 /\ n \in Nat /\ n <= m + 1 /\ m \in Nat
      /\ \A b \in LoopBody(f) : fired[b] \in Nat /\ fired[b] >= m
  BY <1>3, BodyUnderWay
<1>5. r' = r /\ body' = body /\ LoopDeps(f)' = LoopDeps(f) /\ \A b : Dependencies(b)' = Dependencies(b)
  BY <1>1, SameIsolated
<1>6. r \in Tasks
  BY AroundLoop
<1>7. task'[r] = task[r] /\ k' = k /\ n' = n /\ m' = m /\ InItem(f)' /\ ~ Before(f)'
  BY <1>1, <1>4, <1>5, <1>6 DEF InItem, Item, Before
<1>8. outputs'[f] = outputs[f]
  BY <1>4, ItemIsKept, EndsAlone
<1>9. Unserved(f)'
  BY <1>1, <1>5, <1>7 DEF Iterates, Unserved
<1>10. SavedInItem(f)'
  BY <1>1, <1>5 DEF Iterates, SavedInItem
<1>11. Quiet(f)'
  BY <1>7 DEF Quiet
<1>12. OneAtATime(f)'
  <2>1. \A b \in body : (\E u \in Tasks : u[1] = b /\ Live(u)') => (\E u \in Tasks : u[1] = b /\ Live(u))
    BY <1>3
  <2>2. \A u \in Tasks : Live(u)' => Live(u) /\ task'[u] = task[u]
    BY <1>1, <1>3
  <2> QED BY <1>1, <1>5, <2>1, <2>2 DEF Iterates, OneAtATime
<1>13. Todo(f)'
  <2>1. \A u \in Tasks : Live(u)' => Live(u)
    BY <1>3
  <2> QED BY <1>1, <1>4, <1>5, <1>7, <2>1 DEF Iterates, Todo
<1>14. Earlier(f)'
  BY <1>1, <1>4, <1>5, <1>7 DEF Earlier
<1>15. Current(f)'
  <2>1. \A u \in Tasks : u[1] \in body /\ task'[u].pc # "end" => task'[u] = task[u]
    BY <1>1
  <2> QED BY <1>1, <1>4, <1>5, <1>7, <1>8, <2>1 DEF Iterates, Current
<1>16. (task[Root(f)].pc # "end")'
  BY <1>4, <1>5, <1>7
<1> QED BY <1>9, <1>10, <1>11, <1>12, <1>13, <1>14, <1>15, <1>16 DEF Iterates

\* Completing a block within an item starts the blocks of the body that waited for it alone,
\* whether it is a block of the body or one outside that the body needs.
LEMMA BlockCompletes ==
  ASSUME Tidy, TypeOK, GoroutineInv, OnceInv, NEW f, Isolated(f), Iterates(f), InItem(f),
         NEW t \in Tasks, Complete(t)
  PROVE  Iterates(f)'
<1> DEFINE r == Root(f)
           body == LoopBody(f)
           k == Item(f)
           next == Dispatched(t[1], task[t].out)
<1>1. /\ task[t].pc = "complete" /\ task'[t].pc = "cleanup" /\ holder = None
      /\ completed' = completed \cup {t[1]} /\ t[1] \notin Loops
      /\ Starts(t, next)
      /\ UNCHANGED <<workflow, doc, outputs, fired>>
  BY CompleteEffect
<1>2. /\ next \in SUBSET Blocks
      /\ \A d \in next : Dependencies(d) \subseteq completed' /\ t[1] \in Dependencies(d)
  <2>1. Dependents(t[1]) \subseteq Blocks /\ workflow \in Workflows
    BY DependentsTyped DEF TypeOK
  <2> QED BY <1>1, <2>1, GraphSides DEF Dispatched, Ready
<1> HIDE DEF next
<1>3. ASSUME NEW u \in Tasks, u # t
      PROVE  \/ task'[u] = task[u]
             \/ /\ u[1] \in next /\ task[u].pc = "none" /\ task'[u] = Waiting
                /\ \A v \in Tasks : v[1] = u[1] /\ v[2] < u[2] => task[v].pc # "none"
  BY <1>1, <1>2, <1>3, StartsOne DEF GoroutineInv
<1>4. Live(t) /\ Live(t)'
  BY <1>1 DEF Live
<1>5. /\ r \in Tasks /\ f \notin body /\ r[1] = f /\ r[2] = 1 /\ body \subseteq Blocks
      /\ f \in Loops /\ ~ InLoop(f) /\ t[1] # f /\ r # t
  BY <1>1, AroundLoop
<1>6. \* The loop waits, as it does not hold completedMu.
      /\ task[r].pc \in {"join", "settle"}
      /\ ~ Before(f) /\ task[r].pc \notin {"none", "wait", "read", "lookup", "end", "item"}
      /\ \A b \in body : fired[b] >= Different(workflow.items, k - 1)
  <2>1. task[r].pc \in {"join", "settle"}
    BY <1>1, <1>5, EngineAssumption DEF InItem, GoroutineInv, Mutex, Tasks
  <2> QED BY <2>1 DEF Before, Early, Iterates, Earlier, LoopPcs
<1>7. /\ r' = r /\ body' = body /\ LoopDeps(f)' = LoopDeps(f)
      /\ \A b : Dependencies(b)' = Dependencies(b)
  BY <1>1, SameIsolated
<1>8. task'[r] = task[r] /\ k' = k /\ InItem(f)' /\ ~ Before(f)'
  BY <1>2, <1>3, <1>5, <1>6, <1>7 DEF InItem, Item, Before
<1>9. Waiting.pc = "wait"
  BY DEF Waiting, NoTask
<1>10. ASSUME t[1] \notin body
       PROVE  \A d \in body : t[1] \in Dependencies(d) =>
                t[1] \notin completed /\ t[1] \notin Dependencies(f)
  <2> SUFFICES ASSUME NEW d \in body, t[1] \in Dependencies(d)
               PROVE  t[1] \notin completed /\ t[1] \notin Dependencies(f)
    OBVIOUS
  <2>1. ~ InLoop(t[1])
    BY <1>5, <1>10, AroundLoop
  <2>2. task[t].pc \in Early
    BY <1>1 DEF Early
  <2>3. t[1] \notin completed
    BY <2>1, <2>2, NotYetCompleted
  <2>4. Dependencies(f) \subseteq completed
    BY <1>5, <1>6 DEF OnceInv, OuterTurn
  <2> QED BY <2>3, <2>4
<1>11. ASSUME t[1] \in body PROVE t[1] \notin completed
  BY <1>1, <1>4, <1>11 DEF Iterates, OneAtATime
<1>12. \* A block of the body that is started has neither started nor completed in this item.
       ASSUME NEW d \in next, d \in body
       PROVE  /\ d \notin completed /\ d # t[1] /\ d \notin task[r].todo
              /\ \A u \in Tasks : u[1] = d => ~ Live(u)
  <2>1. t[1] \in Dependencies(d)
    BY <1>2
  <2>2. t[1] \notin completed
    BY <1>10, <1>11, <1>12, <2>1
  <2>3. d \notin completed /\ \A u \in Tasks : u[1] = d => ~ Live(u)
    BY <1>12, <2>1, <2>2 DEF Iterates, OneAtATime
  <2>4. d # t[1]
    BY <1>4, <2>3
  <2>5. task[r].todo \subseteq LoopDeps(f)
    BY <1>5 DEF GoroutineInv, LoopsIterate
  <2>6. ASSUME d \in task[r].todo PROVE FALSE
    <3>1. t[1] \notin body
      BY <2>1, <2>5, <2>6, AroundLoop
    <3>2. t[1] \notin Dependencies(f)
      BY <1>10, <1>12, <2>1, <3>1
    <3>3. LoopDeps(f) = {d}
      BY <1>5, <2>1, <2>5, <2>6, <3>2, AroundLoop
    <3>4. task[r].todo = LoopDeps(f) /\ task[r].todo # {}
      BY <2>5, <2>6, <3>3
    <3> QED BY <1>6, <3>4 DEF Iterates, Todo
  <2> QED BY <2>3, <2>4, <2>6
<1>13. ASSUME NEW u \in Tasks, Live(u)', ~ Live(u)
       PROVE  /\ u # t /\ u[1] \in next /\ task[u].pc = "none" /\ task'[u].pc = "wait"
              /\ \A v \in Tasks : v[1] = u[1] /\ v[2] < u[2] => task[v].pc # "none"
  BY <1>3, <1>4, <1>9, <1>13 DEF Live
<1>14. \A u \in Tasks : u # t /\ Live(u) => task'[u] = task[u] /\ Live(u)'
  BY <1>3 DEF Live
<1>15. Unserved(f)'
  <2>1. ~ task[r].served /\ task[r].pc \notin {"none", "wait", "read", "lookup"}
    BY <1>6 DEF Iterates, Unserved
  <2> QED BY <1>7, <1>8, <2>1 DEF Unserved
<1>16. SavedInItem(f)'
  BY <1>1, <1>7 DEF Iterates, SavedInItem
<1>17. Quiet(f)'
  BY <1>8 DEF Quiet
<1>18. OneAtATime(f)'
  <2>1. ASSUME NEW u \in Tasks, NEW v \in Tasks, u[1] \in body, v[1] = u[1], Live(u)', Live(v)'
        PROVE  u = v
    <3>1. CASE Live(u) /\ Live(v)
      BY <2>1, <3>1 DEF Iterates, OneAtATime
    <3>2. CASE Live(u) /\ ~ Live(v)
      BY <1>12, <1>13, <2>1, <3>2
    <3>3. CASE ~ Live(u) /\ Live(v)
      BY <1>12, <1>13, <2>1, <3>3
    <3>4. CASE ~ Live(u) /\ ~ Live(v)
      <4>1. ~ (u[2] < v[2]) /\ ~ (v[2] < u[2])
        BY <1>13, <2>1, <3>4
      <4>2. u[2] \in Int /\ v[2] \in Int /\ u = <<u[1], u[2]>> /\ v = <<v[1], v[2]>>
        BY EngineAssumption DEF Tasks
      <4>3. u[2] = v[2]
        BY <4>1, <4>2
      <4> QED BY <2>1, <4>2, <4>3
    <3> QED BY <3>1, <3>2, <3>3, <3>4
  <2>2. ASSUME NEW u \in Tasks, u[1] \in body, Live(u)', u[1] \in completed'
        PROVE  task'[u].pc = "cleanup"
    <3>1. CASE u = t
      BY <1>1, <3>1
    <3>2. CASE u # t /\ Live(u)
      <4>1. u[1] # t[1]
        BY <1>4, <2>2, <3>2 DEF Iterates, OneAtATime
      <4>2. u[1] \in completed /\ task'[u] = task[u]
        BY <1>1, <1>14, <2>2, <3>2, <4>1
      <4> QED BY <2>2, <3>2, <4>2 DEF Iterates, OneAtATime
    <3>3. CASE ~ Live(u)
      BY <1>1, <1>12, <1>13, <2>2, <3>3
    <3> QED BY <3>1, <3>2, <3>3
  <2>3. ASSUME NEW b \in body, b \in completed' \/ \E u \in Tasks : u[1] = b /\ Live(u)'
        PROVE  Dependencies(b) \subseteq completed'
    <3>1. CASE b \in completed \/ \E u \in Tasks : u[1] = b /\ Live(u)
      BY <1>1, <3>1 DEF Iterates, OneAtATime
    <3>2. CASE b = t[1]
      BY <1>1, <1>4, <3>2 DEF Iterates, OneAtATime
    <3>3. CASE \E u \in Tasks : u[1] = b /\ Live(u)' /\ ~ Live(u)
      BY <1>2, <1>13, <3>3
    <3> QED BY <1>1, <2>3, <3>1, <3>2, <3>3
  <2> QED BY <1>7, <2>1, <2>2, <2>3 DEF OneAtATime
<1>19. Todo(f)'
  <2>1. ASSUME NEW d \in task[r].todo
        PROVE  d \notin completed' /\ \A u \in Tasks : u[1] = d => ~ Live(u)'
    <3>1. d \notin completed /\ \A u \in Tasks : u[1] = d => ~ Live(u)
      BY <2>1 DEF Iterates, Todo
    <3>2. d # t[1]
      BY <1>4, <3>1
    <3>3. d \in body
      BY <1>5, <2>1, AroundLoop DEF GoroutineInv, LoopsIterate
    <3> QED BY <1>1, <1>12, <1>13, <2>1, <3>1, <3>2, <3>3
  <2> QED BY <1>7, <1>8, <2>1 DEF Iterates, Todo
<1>20. Earlier(f)'
  BY <1>1, <1>6, <1>7, <1>8 DEF Earlier
<1>21. Current(f)'
  <2> DEFINE n == Different(workflow.items, k)
  <2>1. /\ k \in DOMAIN workflow.items /\ outputs[f].item = workflow.items[k]
        /\ \A b \in body \cap completed : fired[b] >= n
        /\ \A u \in Tasks : u[1] \in body =>
             /\ task[u].pc \in {"lookup", "exec", "store", "save"} =>
                  task[u].seen[f].item = workflow.items[k]
             /\ task[u].pc \in {"store", "save", "complete"} => fired[u[1]] >= n
    BY DEF Iterates, Current
  <2>2. \A b \in body \cap completed' : fired[b] >= n
    BY <1>1, <2>1
  <2>3. \A u \in Tasks : task'[u].pc \in {"lookup", "exec", "store", "save", "complete"} => task'[u] = task[u]
    BY <1>1, <1>3, <1>9
  <2> QED BY <1>1, <1>7, <1>8, <2>1, <2>2, <2>3 DEF Current
<1>22. (task[Root(f)].pc # "end")'
  BY <1>6, <1>7, <1>8
<1> QED BY <1>15, <1>16, <1>17, <1>18, <1>19, <1>20, <1>21, <1>22 DEF Iterates

\* The loop itself.  As long as it is not in an item, nothing of its body is under way.
LEMMA LoopExecutes ==
  ASSUME Tidy, TypeOK, OnceInv, NEW f, Isolated(f), Iterates(f), NEW t \in Tasks, t = Root(f),
         \/ Acquire(t) \/ Read(t) \/ Lookup(t) \/ Execute(t) \/ ExecuteFail(t) \/ Fail(t)
         \/ Store(t) \/ Save(t) \/ LookupLost(t) \/ SaveLost(t)
  PROVE  Over(f)' \/ Iterates(f)'
<1> DEFINE body == LoopBody(f)
<1>1. /\ t[1] = f /\ f \in Blocks /\ ~ InLoop(f) /\ body \subseteq Blocks /\ f \notin body
  BY AroundLoop
<1>2. /\ task[t].pc \in Early /\ task'[t].pc \in Early \cup {"end"}
      /\ \A u \in Tasks : u # t => task'[u] = task[u]
      /\ UNCHANGED <<workflow, completed>>
      /\ \A b \in body : doc'.saved[b] = doc.saved[b] /\ fired'[b] = fired[b]
  <2>1. CASE Fail(t)
    BY <2>1, EndsAlone DEF Early
  <2>2. CASE ~ Fail(t)
    BY <1>1, <2>2, ExecutesAlone, ExecutesBlock
  <2> QED BY <2>1, <2>2
<1>3. Root(f)' = t /\ body' = body /\ \A b : Dependencies(b)' = Dependencies(b)
  BY <1>2, SameIsolated
<1>4. /\ ~ InItem(f) /\ ~ InItem(f)' /\ Before(f) /\ task'[t].pc \notin LoopPcs
  BY <1>2, <1>3 DEF InItem, Before, Early, LoopPcs
<1>5. body \cap completed = {} /\ \A u \in Tasks : u[1] \in body => ~ Live(u) /\ ~ Live(u)'
  <2>1. \A u \in Tasks : u[1] \in body => task'[u] = task[u]
    BY <1>1, <1>2
  <2> QED BY <1>4, <2>1 DEF Iterates, Quiet, Live
<1>6. CASE Fail(t)
  <2>1. f \notin completed
    BY <1>1, <1>2, NotYetCompleted
  <2>2. task'[t].pc = "end"
    BY <1>6, EndsAlone
  <2> QED BY <1>2, <1>3, <2>1, <2>2 DEF Over, AllItems
<1>7. ASSUME ~ Fail(t) PROVE Iterates(f)'
  <2>1. /\ ~ task[t].served
        /\ task[t].pc \in {"none", "wait", "read", "lookup"} => doc.saved[f].out = NoOutput
    BY DEF Iterates, Unserved
  <2>2. task'[t].served = task[t].served
    BY <1>1, <1>7, <2>1, ExecutesBlock DEF Serves
  <2>3. task'[t].pc \in {"none", "wait", "read", "lookup"} =>
          task[t].pc \in {"wait", "read"} /\ doc'.saved[f] = doc.saved[f]
    BY <1>1, <1>7, ExecutesBlock
  <2>4. Unserved(f)'
    BY <1>3, <2>1, <2>2, <2>3 DEF Unserved
  <2>5. SavedInItem(f)'
    BY <1>2, <1>3 DEF Iterates, SavedInItem
  <2>6. Quiet(f)' /\ OneAtATime(f)'
    BY <1>2, <1>3, <1>5 DEF Quiet, OneAtATime
  <2>7. Todo(f)' /\ Earlier(f)' /\ Current(f)'
    BY <1>3, <1>4 DEF Todo, Earlier, Current
  <2>8. (task[Root(f)].pc # "end")'
    <3>1. task'[t].pc \in Early
      BY <1>7, ExecutesAlone
    <3> QED BY <1>3, <3>1 DEF Early
  <2> QED BY <2>4, <2>5, <2>6, <2>7, <2>8 DEF Iterates
<1> QED BY <1>6, <1>7

\* A step of the loop within an item that starts nobody, and completes nothing.
LEMMA LoopGoesOn ==
  ASSUME Tidy, TypeOK, NEW f, Isolated(f), Iterates(f), NEW t \in Tasks, t = Root(f),
         Join(t) \/ Settle(t) \/ \E d \in Blocks : SkipBody(t, d)
  PROVE  Iterates(f)'
<1> DEFINE body == LoopBody(f)
<1>1. f \notin body /\ t[1] = f
  BY AroundLoop
<1>2. /\ task[t].pc \in {"body", "join"} /\ task'[t].pc \in {"body", "settle"}
      /\ task'[t].todo \subseteq task[t].todo /\ task'[t].item = task[t].item
      /\ task'[t].served = task[t].served
      /\ \A u \in Tasks : u # t => task'[u] = task[u]
      /\ UNCHANGED <<workflow, doc, completed, outputs, fired>>
      /\ task'[t].pc = "settle" => task'[t].todo = {}
  <2>1. Settle(t) => task[t].todo = {}
    BY DEF Settle
  <2> QED BY <2>1, IteratesAlone
<1>3. /\ Root(f)' = t /\ body' = body /\ LoopDeps(f)' = LoopDeps(f)
      /\ \A b : Dependencies(b)' = Dependencies(b)
  BY <1>2, SameIsolated
<1>4. /\ InItem(f) /\ InItem(f)' /\ ~ Before(f)' /\ task[t].pc \in LoopPcs
      /\ Item(f)' = Item(f)
  BY <1>2, <1>3 DEF InItem, Before, Early, LoopPcs, Item
<1>5. \A u \in Tasks : u[1] \in body => task'[u] = task[u] /\ (Live(u)' <=> Live(u))
  BY <1>1, <1>2 DEF Live
<1>6. Unserved(f)'
  <2>1. ~ task'[t].served /\ task'[t].pc \notin {"none", "wait", "read", "lookup"}
    BY <1>2 DEF Iterates, Unserved
  <2> QED BY <1>3, <2>1 DEF Unserved
<1>7. SavedInItem(f)'
  BY <1>2, <1>3 DEF Iterates, SavedInItem
<1>8. Quiet(f)'
  BY <1>4 DEF Quiet
<1>9. OneAtATime(f)'
  <2>1. \A b \in body : (\E u \in Tasks : u[1] = b /\ Live(u)') <=> (\E u \in Tasks : u[1] = b /\ Live(u))
    BY <1>5
  <2> QED BY <1>2, <1>3, <1>5, <2>1 DEF Iterates, OneAtATime
<1>10. Todo(f)'
  <2>1. ASSUME NEW d \in task'[t].todo
        PROVE  d \notin completed /\ \A u \in Tasks : u[1] = d => ~ Live(u)'
    <3>1. d \notin completed /\ \A u \in Tasks : u[1] = d => ~ Live(u)
      BY <1>2, <1>4, <2>1 DEF Iterates, Todo
    <3>2. \A u \in Tasks : ~ Live(u) => ~ Live(u)' \/ u = t
      BY <1>2 DEF Live
    <3>3. Live(t)
      BY <1>2 DEF Live
    <3> QED BY <3>1, <3>2, <3>3
  <2> QED BY <1>2, <1>3, <2>1 DEF Todo
<1>11. Earlier(f)'
  BY <1>2, <1>3, <1>4 DEF Iterates, Earlier
<1>12. Current(f)'
  BY <1>2, <1>3, <1>4, <1>5 DEF Iterates, Current
<1>13. (task[Root(f)].pc # "end")'
  BY <1>2, <1>3
<1> QED BY <1>6, <1>7, <1>8, <1>9, <1>10, <1>11, <1>12, <1>13 DEF Iterates

\* The start of a block of the body.
LEMMA LoopRuns ==
  ASSUME Tidy, TypeOK, GoroutineInv, OnceInv, NEW f, Isolated(f), Iterates(f), NEW t \in Tasks, t = Root(f),
         NEW d \in Blocks, RunBody(t, d)
  PROVE  Iterates(f)'
<1> DEFINE body == LoopBody(f)
<1>1. f \notin body /\ t[1] = f
  BY AroundLoop
<1>2. PICK child \in Tasks :
        /\ task[t].pc = "body" /\ d \in task[t].todo
        /\ child[1] = d /\ child # t /\ task[child].pc = "none" /\ task'[child] = Waiting
        /\ \A u \in Tasks : u # t /\ u # child => task'[u] = task[u]
        /\ task'[t].pc = "join" /\ task'[t].todo = task[t].todo \ {d}
        /\ task'[t].item = task[t].item /\ task'[t].served = task[t].served
        /\ UNCHANGED <<workflow, doc, completed, outputs, fired>>
  BY RunBodyEffect DEF GoroutineInv
<1>3. /\ Root(f)' = t /\ body' = body /\ LoopDeps(f)' = LoopDeps(f)
      /\ \A b : Dependencies(b)' = Dependencies(b)
  BY <1>2, SameIsolated
<1>4. /\ InItem(f) /\ InItem(f)' /\ ~ Before(f)' /\ task[t].pc \in LoopPcs
      /\ Item(f)' = Item(f)
  BY <1>2, <1>3 DEF InItem, Before, Early, LoopPcs, Item
<1>5. d \notin completed /\ \A u \in Tasks : u[1] = d => ~ Live(u)
  BY <1>2, <1>4 DEF Iterates, Todo
<1>6. Dependencies(d) \subseteq completed /\ task[t].todo \subseteq LoopDeps(f)
  <2>1. task[t].todo \subseteq LoopDeps(f)
    BY <1>1 DEF GoroutineInv, LoopsIterate
  <2>2. Dependencies(d) \cap body = {}
    BY <1>2, <2>1, AroundLoop
  <2>3. Dependencies(d) \subseteq completed \cup body \cup {f}
    BY <1>1 DEF RunBody, Ready
  <2>4. f \in completed
    BY <1>4, AroundLoop DEF OnceInv, OuterOver
  <2> QED BY <2>1, <2>2, <2>3, <2>4
<1>7. Waiting.pc = "wait" /\ Live(child)'
  BY <1>2 DEF Waiting, NoTask, Live
<1>8. \A u \in Tasks : u[1] \in body /\ u # child => task'[u] = task[u] /\ (Live(u)' <=> Live(u))
  BY <1>1, <1>2 DEF Live
<1>9. Unserved(f)'
  <2>1. ~ task'[t].served /\ task'[t].pc \notin {"none", "wait", "read", "lookup"}
    BY <1>2 DEF Iterates, Unserved
  <2> QED BY <1>3, <2>1 DEF Unserved
<1>10. SavedInItem(f)'
  BY <1>2, <1>3 DEF Iterates, SavedInItem
<1>11. Quiet(f)'
  BY <1>4 DEF Quiet
<1>12. OneAtATime(f)'
  <2>1. ASSUME NEW u \in Tasks, NEW v \in Tasks, u[1] \in body, v[1] = u[1], Live(u)', Live(v)'
        PROVE  u = v
    BY <1>2, <1>5, <1>8, <2>1 DEF Iterates, OneAtATime
  <2>2. ASSUME NEW u \in Tasks, u[1] \in body, Live(u)', u[1] \in completed
        PROVE  task'[u].pc = "cleanup"
    BY <1>2, <1>5, <1>8, <2>2 DEF Iterates, OneAtATime
  <2>3. ASSUME NEW b \in body, b \in completed \/ \E u \in Tasks : u[1] = b /\ Live(u)'
        PROVE  Dependencies(b) \subseteq completed
    <3>1. CASE b = d
      BY <1>6, <3>1
    <3>2. CASE b # d
      <4>1. b \in completed \/ \E u \in Tasks : u[1] = b /\ Live(u)
        BY <1>2, <1>8, <2>3, <3>2
      <4> QED BY <4>1 DEF Iterates, OneAtATime
    <3> QED BY <3>1, <3>2
  <2> QED BY <1>2, <1>3, <2>1, <2>2, <2>3 DEF OneAtATime
<1>13. Todo(f)'
  <2>1. ASSUME NEW e \in task'[t].todo
        PROVE  e \notin completed /\ \A u \in Tasks : u[1] = e => ~ Live(u)'
    <3>1. e # d /\ e \notin completed /\ \A u \in Tasks : u[1] = e => ~ Live(u)
      BY <1>2, <1>4, <2>1 DEF Iterates, Todo
    <3>2. \A u \in Tasks : ~ Live(u) => ~ Live(u)' \/ u = t \/ u = child
      BY <1>2 DEF Live
    <3>3. Live(t)
      BY <1>2 DEF Live
    <3> QED BY <1>2, <3>1, <3>2, <3>3
  <2>2. task'[t].todo # LoopDeps(f) /\ task'[t].pc # "settle"
    BY <1>2, <1>6
  <2> QED BY <1>2, <1>3, <2>1, <2>2 DEF Todo
<1>14. Earlier(f)'
  BY <1>2, <1>3, <1>4 DEF Iterates, Earlier
<1>15. Current(f)'
  <2>1. task'[child].pc \notin {"lookup", "exec", "store", "save", "complete"}
    BY <1>2, <1>7
  <2> QED BY <1>2, <1>3, <1>4, <1>8, <2>1 DEF Iterates, Current
<1>16. (task[Root(f)].pc # "end")'
  BY <1>2, <1>3
<1> QED BY <1>9, <1>10, <1>11, <1>12, <1>13, <1>14, <1>15, <1>16 DEF Iterates

\* The steps between two items, and before the first: the body rests.
LEMMA LoopTurns ==
  ASSUME Tidy, TypeOK, GoroutineInv, NEW f, Isolated(f), Iterates(f), NEW t \in Tasks, t = Root(f),
         CompleteLoop(t) \/ NextItem(t) \/ Settled(t)
  PROVE  Iterates(f)'
<1> DEFINE body == LoopBody(f)
<1>1. t[1] = f /\ f \in Blocks /\ body \subseteq Blocks /\ f \notin body /\ LoopDeps(f) \subseteq body
  BY AroundLoop
<1>2. /\ task[t].pc \in {"complete", "item", "settle"} /\ task'[t].pc \in {"item", "body"}
      /\ task'[t].served = task[t].served
      /\ \A u \in Tasks : u # t => task'[u] = task[u]
      /\ UNCHANGED <<workflow, doc, fired>>
      /\ completed' \cap body \subseteq completed
      /\ task[t].pc = "complete" => task'[t].item = 0
      /\ task[t].pc = "item" => /\ task'[t].item = task[t].item /\ task'[t].todo = LoopDeps(f)
                                /\ completed' \cap body = {} /\ task'[t].pc = "body"
      /\ task[t].pc = "settle" => /\ body \subseteq completed /\ holder = None /\ completed' = completed
                                  /\ task'[t].item = task[t].item + 1
      /\ task[t].pc # "item" => task'[t].pc = "item"
  BY <1>1, IteratesAlone
<1>3. /\ Root(f)' = t /\ body' = body /\ LoopDeps(f)' = LoopDeps(f)
      /\ \A b : Dependencies(b)' = Dependencies(b)
  BY <1>2, SameIsolated
<1>4. /\ ~ Before(f)' /\ Item(f)' = task'[t].item + 1 /\ Item(f) = task[t].item + 1
      /\ task[t].item \in Nat
      /\ InItem(f)' <=> task'[t].pc = "body"
      /\ InItem(f) <=> task[t].pc = "settle"
      /\ Before(f) <=> task[t].pc = "complete"
  BY <1>2, <1>3 DEF InItem, Before, Early, LoopPcs, Item, TypeOK, Task
<1>5. \* Even when an item is settled nobody cleans up, for that takes completedMu.
      \A u \in Tasks : u[1] \in body => ~ Live(u)
  <2>1. CASE task[t].pc = "settle"
    <3> SUFFICES ASSUME NEW u \in Tasks, u[1] \in body, Live(u) PROVE FALSE
      OBVIOUS
    <3>1. task[u].pc = "cleanup"
      BY <1>2, <2>1 DEF Iterates, OneAtATime
    <3>2. holder = u /\ u # None
      BY <3>1, EngineAssumption DEF GoroutineInv, Mutex, Tasks
    <3> QED BY <1>2, <2>1, <3>2
  <2>2. CASE task[t].pc # "settle"
    BY <1>4, <2>2 DEF Iterates, Quiet
  <2> QED BY <2>1, <2>2
<1>6. \A u \in Tasks : u[1] \in body => task'[u] = task[u] /\ ~ Live(u)'
  BY <1>1, <1>2, <1>5 DEF Live
<1>7. Unserved(f)'
  <2>1. ~ task'[t].served /\ task'[t].pc \notin {"none", "wait", "read", "lookup"}
    BY <1>2 DEF Iterates, Unserved
  <2> QED BY <1>3, <2>1 DEF Unserved
<1>8. SavedInItem(f)'
  BY <1>2, <1>3 DEF Iterates, SavedInItem
<1>9. Quiet(f)'
  BY <1>3, <1>4, <1>6 DEF Quiet
<1>10. OneAtATime(f)'
  <2>1. ASSUME NEW b \in body, b \in completed' PROVE Dependencies(b) \subseteq completed'
    <3>1. task[t].pc # "item" /\ b \in completed
      BY <1>2, <2>1
    <3>2. task[t].pc = "settle" /\ completed' = completed
      BY <1>2, <1>4, <3>1 DEF Iterates, Quiet
    <3> QED BY <3>1, <3>2 DEF Iterates, OneAtATime
  <2> QED BY <1>3, <1>6, <2>1 DEF OneAtATime
<1>11. Todo(f)'
  <2>1. ASSUME InItem(f)', NEW d \in task'[t].todo
        PROVE  d \notin completed' /\ \A u \in Tasks : u[1] = d => ~ Live(u)'
    <3>1. d \in body /\ completed' \cap body = {}
      BY <1>1, <1>2, <1>4, <2>1
    <3> QED BY <1>6, <3>1
  <2>2. task'[t].pc \notin {"join", "settle"}
    BY <1>2
  <2> QED BY <1>3, <2>1, <2>2 DEF Todo
<1>12. \A b \in body : fired[b] \in Nat
  BY <1>1 DEF TypeOK
<1>13. Earlier(f)'
  <2>1. CASE task[t].pc = "complete"
    <3>1. Item(f)' - 1 = 0
      BY <1>2, <1>4, <2>1
    <3>2. Different(workflow.items, 0) = 0
      BY WorkflowItems
    <3> QED BY <1>2, <1>3, <1>12, <3>1, <3>2 DEF Earlier
  <2>2. CASE task[t].pc = "item"
    <3>1. /\ Item(f)' = Item(f)
          /\ \A b \in body : fired[b] >= Different(workflow.items, Item(f) - 1)
      BY <1>2, <1>4, <2>2 DEF Iterates, Earlier, LoopPcs
    <3> QED BY <1>2, <1>3, <3>1 DEF Earlier
  <2>3. CASE task[t].pc = "settle"
    <3>1. Item(f)' - 1 = Item(f)
      BY <1>2, <1>4, <2>3
    <3>2. \A b \in body : fired[b] >= Different(workflow.items, Item(f))
      BY <1>2, <1>4, <2>3 DEF Iterates, Current
    <3> QED BY <1>2, <1>3, <3>1, <3>2 DEF Earlier
  <2> QED BY <1>2, <2>1, <2>2, <2>3
<1>14. Current(f)'
  <2> SUFFICES ASSUME InItem(f)' PROVE Current(f)'
    BY DEF Current
  <2>1. task[t].pc = "item" /\ completed' \cap body = {} /\ Item(f)' = Item(f)
    BY <1>2, <1>4
  <2>2. NextItem(t)
    BY <2>1 DEF CompleteLoop, Settled, Locking, At
  <2>3. outputs'[f] = [task[t].out EXCEPT !.branch = "loop_body",
                                          !.item = workflow.items[task[t].item + 1]]
    BY <1>1, <2>2 DEF NextItem
  <2>4. task[t].out \in Output
    BY DEF TypeOK, Task
  <2>5. outputs'[f].item = workflow.items[Item(f)]
    BY <1>4, <2>3, <2>4 DEF Output
  <2>7. Item(f) \in DOMAIN workflow.items
    <3>1. task[t].item < Len(workflow.items)
      BY <2>2 DEF NextItem, NumItems, Iterates, Unserved
    <3> QED BY <1>4, <3>1, WorkflowItems
  <2>6. \A u \in Tasks : u[1] \in body =>
          task'[u].pc \notin {"lookup", "exec", "store", "save", "complete"}
    BY <1>6 DEF Live
  <2> QED BY <1>2, <1>3, <2>1, <2>5, <2>6, <2>7 DEF Current
<1>15. (task[Root(f)].pc # "end")'
  BY <1>2, <1>3
<1> QED BY <1>7, <1>8, <1>9, <1>10, <1>11, <1>13, <1>14, <1>15 DEF Iterates

\* The end of the loop: it ran its body for every item, as its list was not read back.
LEMMA LoopEnds ==
  ASSUME Tidy, TypeOK, NEW f, Isolated(f), Iterates(f), NEW t \in Tasks, t = Root(f), LoopDone(t)
  PROVE  Over(f)'
<1> DEFINE body == LoopBody(f)
<1>1. f \in Blocks /\ body \subseteq Blocks
  BY AroundLoop
<1>2. /\ task[t].pc = "item" /\ task'[t].pc = "end" /\ task[t].item >= NumItems(t)
      /\ UNCHANGED <<workflow, fired>>
  BY LoopDoneEffect
<1>3. Root(f)' = t /\ body' = body
  BY <1>2, SameIsolated
<1>4. task[t].item >= Len(workflow.items)
  BY <1>2 DEF NumItems, Iterates, Unserved
<1>5. task[t].item \in Nat /\ (task[t].item + 1) - 1 = task[t].item
  BY DEF TypeOK, Task
<1>6. \A b \in body : fired[b] >= Different(workflow.items, task[t].item)
  BY <1>2, <1>5 DEF Iterates, Earlier, Item, LoopPcs
<1>7. \A b \in body : fired[b] >= Different(workflow.items, Len(workflow.items))
  <2>1. Different(workflow.items, task[t].item) = Different(workflow.items, Len(workflow.items))
    BY <1>4, <1>5, WorkflowItems
  <2> QED BY <1>6, <2>1
<1> QED BY <1>2, <1>3, <1>7 DEF Over, AllItems

\* The other blocks leave the loop and its body alone, but for one that starts the loop.
LEMMA OthersGoOn ==
  ASSUME Tidy, TypeOK, GoroutineInv, OnceInv, NEW f, Isolated(f), Iterates(f),
         NEW t \in Tasks, t[1] \notin LoopBody(f), t[1] # f, TaskStep(t)
  PROVE  Iterates(f)'
<1> DEFINE r == Root(f)
           body == LoopBody(f)
<1>1. /\ r \in Tasks /\ r[1] = f /\ r[2] = 1 /\ r # t /\ f \in Blocks /\ f \in Loops /\ ~ InLoop(f)
      /\ body \subseteq Blocks /\ f \notin body /\ LoopDeps(f) \subseteq body
      /\ \A u \in Tasks : u[1] \in Blocks
      /\ \A b \in body :
           /\ \A x \in Dependencies(b) :
                x \in body \/ x = f \/ (x \in Blocks /\ x \notin Loops /\ ~ InLoop(x))
           /\ f \in Dependencies(b) \/ Dependencies(b) \cap body # {}
  BY AroundLoop
<1>2. workflow \in Workflows /\ SelfContained(f)
  BY DEF TypeOK, Isolated
<1>3. task[r].todo \subseteq body
  BY <1>1 DEF GoroutineInv, LoopsIterate
<1>4. /\ t[1] \in Loops => LoopBody(t[1]) \cap body = {} /\ f \notin LoopBody(t[1])
      /\ task[t].pc \in LoopPcs => t[1] \in Loops
  BY <1>1, <1>2, BodiesApart DEF InLoop, GoroutineInv, LoopsIterate
<1>5. ASSUME \/ Acquire(t) \/ Read(t) \/ Lookup(t) \/ Execute(t) \/ ExecuteFail(t)
             \/ Store(t) \/ Save(t) \/ LookupLost(t) \/ SaveLost(t)
      PROVE  Iterates(f)'
  <2>1. /\ \A u \in Tasks : u # t => task'[u] = task[u]
        /\ UNCHANGED <<workflow, completed>>
    BY <1>5, ExecutesAlone
  <2>2. \A b \in Blocks : b # t[1] =>
          outputs'[b] = outputs[b] /\ doc'.saved[b] = doc.saved[b] /\ fired'[b] = fired[b]
    BY <1>5, ExecutesBlock
  <2> QED BY <1>1, <1>3, <2>1, <2>2, Elsewhere
<1>6. CASE Fail(t) \/ Cleanup(t)
  <2>1. /\ \A u \in Tasks : u # t => task'[u] = task[u]
        /\ UNCHANGED <<workflow, doc, completed, fired>>
    BY <1>6, EndsAlone
  <2>2. InItem(f) => outputs'[f] = outputs[f]
    BY <1>6, EndsAlone, ItemIsKept
  <2> QED BY <1>1, <1>3, <2>1, <2>2, Elsewhere
<1>7. CASE \/ CompleteLoop(t) \/ NextItem(t) \/ Join(t) \/ Settle(t) \/ Settled(t)
           \/ \E d \in Blocks : SkipBody(t, d)
  <2>1. /\ \A u \in Tasks : u # t => task'[u] = task[u]
        /\ UNCHANGED <<workflow, doc, fired>>
    BY <1>7, IteratesAlone
  <2>2. CASE NextItem(t)
    <3>1. t[1] \in Loops
      BY <1>4, <2>2, IteratesAlone DEF LoopPcs
    <3>2. completed' = completed \ LoopBody(t[1])
      BY <2>2, IteratesAlone
    <3>3. outputs'[f] = outputs[f]
      BY <1>1, <1>4, <2>2, <3>1 DEF NextItem
    <3>4. \A b \in body : \A x \in Dependencies(b) : x \notin LoopBody(t[1])
      BY <1>1, <1>4, <3>1 DEF InLoop
    <3> QED BY <1>1, <1>3, <1>4, <2>1, <3>1, <3>2, <3>3, <3>4, Elsewhere
  <2>3. CASE ~ NextItem(t)
    <3>1. completed' \in {completed, completed \cup {t[1]}} /\ outputs' = outputs
      BY <1>7, <2>3, IteratesAlone
    <3> QED BY <1>1, <1>3, <2>1, <3>1, Elsewhere
  <2> QED BY <2>2, <2>3
<1>8. CASE Complete(t) /\ ~ InItem(f)
  <2> DEFINE next == Dispatched(t[1], task[t].out)
  <2>1. /\ task[t].pc = "complete" /\ completed' = completed \cup {t[1]} /\ holder = None
        /\ Starts(t, next) /\ UNCHANGED <<workflow, doc, outputs, fired>>
    BY <1>8, CompleteEffect
  <2>2. \A d \in next : /\ t[1] \in Dependencies(d)
                        /\ Dependencies(d) \subseteq completed \cup {t[1]}
    BY <1>2, GraphSides DEF Dispatched, Ready
  <2> HIDE DEF next
  <2>3. \* The loop has not completed, nor has anything of its body.
        f \notin completed /\ body \cap completed = {}
    <3>1. task[r].pc # "item"
      BY <1>1, <2>1, EngineAssumption DEF GoroutineInv, Mutex, Tasks
    <3>2. task[r].pc # "cleanup"
      BY <1>1 DEF GoroutineInv, LoopsIterate
    <3>3. task[r].pc \in Early \cup {"none"} /\ task[r].pc \notin {"cleanup", "end"} \cup LoopPcs
      BY <1>1, <1>8, <3>1, <3>2 DEF Iterates, InItem, TypeOK, Task, Early, LoopPcs
    <3>4. f \notin completed
      BY <1>1, <3>3 DEF OnceInv, OuterOver
    <3> QED BY <3>3, <3>4 DEF Iterates, Quiet, Before
  <2>4. \A d \in next : d \notin body
    BY <1>1, <2>2, <2>3
  <2>5. \A u \in Tasks : u[1] \in body => task'[u] = task[u]
    BY <2>1, <2>4 DEF Starts
  <2>6. task'[r] = task[r] \/ (task[r].pc = "none" /\ task'[r] = Waiting)
    BY <1>1, <2>1 DEF Starts
  <2> QED BY <1>1, <1>3, <2>1, <2>5, <2>6, Elsewhere
<1>9. CASE LoopDone(t)
  <2> DEFINE next == BehindDone(t[1])
  <2>1. /\ task[t].pc = "item" /\ outputs' = [outputs EXCEPT ![t[1]] = task[t].out]
        /\ Starts(t, next) /\ UNCHANGED <<workflow, doc, completed, fired>>
    BY <1>9, LoopDoneEffect
  <2>2. t[1] \in Loops
    BY <1>4, <2>1 DEF LoopPcs
  <2>3. \A d \in next : Dependencies(d) = {t[1]}
    BY <1>2, <2>2, OutsideLoops DEF BehindDone
  <2>4. \A d \in next : d \notin body
    BY <1>1, <2>2, <2>3
  <2> HIDE DEF next
  <2>5. \A u \in Tasks : u[1] \in body => task'[u] = task[u]
    BY <2>1, <2>4 DEF Starts
  <2>6. task'[r] = task[r] \/ (task[r].pc = "none" /\ task'[r] = Waiting)
    BY <1>1, <2>1 DEF Starts
  <2>7. outputs'[f] = outputs[f]
    BY <1>1, <2>1 DEF TypeOK, Outputs
  <2> QED BY <1>1, <1>3, <2>1, <2>5, <2>6, <2>7, Elsewhere
<1>10. ASSUME NEW d \in Blocks, RunBody(t, d)
       PROVE  Iterates(f)'
  <2>1. PICK child \in Tasks :
          /\ task[t].pc = "body" /\ d \in task[t].todo /\ child[1] = d
          /\ \A u \in Tasks : u # t /\ u # child => task'[u] = task[u]
          /\ UNCHANGED <<workflow, doc, completed, outputs, fired>>
    BY <1>10, RunBodyEffect DEF GoroutineInv
  <2>2. t[1] \in Loops /\ d \in LoopDeps(t[1])
    BY <1>4, <2>1 DEF LoopPcs, GoroutineInv, LoopsIterate
  <2>3. d \in LoopBody(t[1])
    BY <1>2, <2>2, OutsideLoops
  <2>4. d \notin body /\ d # f
    BY <1>4, <2>2, <2>3
  <2> QED BY <1>1, <1>3, <2>1, <2>4, Elsewhere
<1>11. CASE Complete(t) /\ InItem(f)
  BY <1>11, BlockCompletes
<1> QED BY <1>5, <1>6, <1>7, <1>8, <1>9, <1>10, <1>11 DEF TaskStep

\* So every step of a goroutine keeps what is said of the iterations.
LEMMA TaskStepIterates ==
  ASSUME Tidy, TypeOK, GoroutineInv, OnceInv, NEW f, Isolated(f), Over(f) \/ Iterates(f),
         NEW t \in Tasks, TaskStep(t)
  PROVE  Over(f)' \/ Iterates(f)'
<1> DEFINE Alone == \/ Acquire(t) \/ Read(t) \/ Lookup(t) \/ Execute(t) \/ ExecuteFail(t)
                    \/ Store(t) \/ Save(t) \/ LookupLost(t) \/ SaveLost(t)
           Turning   == CompleteLoop(t) \/ NextItem(t) \/ Settled(t)
           Going     == Join(t) \/ Settle(t) \/ \E d \in Blocks : SkipBody(t, d)
           Running   == \E d \in Blocks : RunBody(t, d)
<1>1. \/ Alone \/ Fail(t) \/ Cleanup(t) \/ Complete(t)
      \/ Turning \/ Going \/ Running \/ LoopDone(t)
  BY DEF TaskStep
<1>2. Turning \/ Going \/ Running \/ LoopDone(t) => t[1] \in Loops
  <2>1. \A u \in Tasks : task[u].pc \in LoopPcs => u[1] \in Loops
    BY DEF GoroutineInv, LoopsIterate
  <2>2. Turning \/ Going => CompleteLoop(t) \/ task[t].pc \in LoopPcs
    BY IteratesAlone DEF LoopPcs
  <2>3. Running => task[t].pc \in LoopPcs
    BY RunBodyEffect DEF LoopPcs, GoroutineInv
  <2>4. LoopDone(t) => task[t].pc \in LoopPcs
    BY LoopDoneEffect DEF LoopPcs
  <2>5. CompleteLoop(t) => t[1] \in Loops
    BY IteratesAlone
  <2> QED BY <2>1, <2>2, <2>3, <2>4, <2>5
<1>3. Complete(t) \/ Cleanup(t) => t[1] \notin Loops
  BY CompleteEffect, EndsAlone DEF GoroutineInv, LoopsIterate
<1>4. task[t].pc \notin {"none", "end"}
  <2>1. Alone \/ Fail(t) \/ Cleanup(t) \/ Complete(t) => task[t].pc \notin {"none", "end"}
    BY ExecutesAlone, EndsAlone, CompleteEffect DEF Early
  <2>2. Turning \/ Going => task[t].pc \notin {"none", "end"}
    BY IteratesAlone
  <2>3. Running \/ LoopDone(t) => task[t].pc \notin {"none", "end"}
    BY RunBodyEffect, LoopDoneEffect DEF GoroutineInv
  <2> QED BY <1>1, <2>1, <2>2, <2>3
<1>5. CASE Over(f)
  <2>1. workflow' = workflow /\ Root(f) \in Tasks /\ f \in Blocks /\ LoopBody(f) \subseteq Blocks
    BY AroundLoop, NextKeepsWorkflow DEF Next
  <2>2. /\ Different(workflow.items, Len(workflow.items)) \in Nat
        /\ \A b \in Blocks : fired[b] \in Nat
    BY WorkflowItems DEF TypeOK
  <2>3. task[Root(f)].pc = "end" /\ t # Root(f) /\ t[1] # f
    <3>1. task[Root(f)].pc = "end"
      BY <1>5 DEF Over
    <3>2. task[t].pc # "end"
      BY <1>4
    <3> QED BY <1>4, <3>1, <3>2, AroundLoop DEF OnceInv, OuterOnce
  <2>4. /\ task'[Root(f)] = task[Root(f)]
        /\ f \in completed' => f \in completed
        /\ \A b \in Blocks : fired'[b] \in {fired[b], fired[b] + 1}
    <3>1. CASE Alone
      <4>1. \A b \in Blocks : b # t[1] => fired'[b] = fired[b]
        BY <3>1, ExecutesBlock
      <4>2. fired'[t[1]] \in {fired[t[1]], fired[t[1]] + 1}
        BY <3>1, ExecutesBlock
      <4>3. completed' = completed /\ \A u \in Tasks : u # t => task'[u] = task[u]
        BY <3>1, ExecutesAlone
      <4> QED BY <2>1, <2>3, <4>1, <4>2, <4>3
    <3>2. CASE Fail(t) \/ Cleanup(t)
      BY <2>1, <2>3, <3>2, EndsAlone
    <3>3. CASE Turning \/ Going
      <4>1. \A u \in Tasks : u # t => task'[u] = task[u]
        BY <3>3, IteratesAlone
      <4>2. completed' \subseteq completed \cup {t[1]}
        BY <3>3, IteratesAlone
      <4>3. fired' = fired
        BY <3>3, IteratesAlone
      <4> QED BY <2>1, <2>3, <4>1, <4>2, <4>3
    <3>4. CASE Complete(t) \/ LoopDone(t)
      <4>1. PICK D : Starts(t, D)
        BY <3>4, CompleteEffect, LoopDoneEffect
      <4>2. completed' \subseteq completed \cup {t[1]} /\ fired' = fired
        BY <3>4, CompleteEffect, LoopDoneEffect
      <4> QED BY <2>1, <2>3, <4>1, <4>2 DEF Starts
    <3>5. CASE Running
      <4>1. PICK d \in Blocks : RunBody(t, d)
        BY <3>5
      <4>2. PICK child \in Tasks :
              /\ task[child].pc = "none"
              /\ \A u \in Tasks : u # t /\ u # child => task'[u] = task[u]
              /\ UNCHANGED <<completed, fired>>
        BY <4>1, RunBodyEffect DEF GoroutineInv
      <4> QED BY <2>1, <2>3, <4>2
    <3> QED BY <1>1, <3>1, <3>2, <3>3, <3>4, <3>5
  <2> QED BY <1>5, <2>1, <2>2, <2>4, StaysOver
<1>6. CASE Iterates(f) /\ t[1] \in LoopBody(f)
  <2>1. t[1] \notin Loops
    BY <1>6, AroundLoop
  <2>2. Alone \/ Fail(t) \/ Cleanup(t) \/ Complete(t)
    BY <1>1, <1>2, <2>1
  <2>3. ASSUME Complete(t) PROVE InItem(f)
    <3>1. Live(t)
      BY <2>3, CompleteEffect DEF Live
    <3> QED BY <1>6, <3>1, BodyUnderWay
  <2> QED BY <1>6, <2>2, <2>3, BodyExecutes, BodyEnds, BlockCompletes
<1>7. CASE Iterates(f) /\ t[1] = f
  <2>1. f \in Loops /\ ~ InLoop(f)
    BY AroundLoop
  <2>2. t = Root(f)
    BY <1>4, <1>7, <2>1, AroundLoop DEF OnceInv, OuterOnce
  <2>3. Alone \/ Fail(t) \/ Turning \/ Going \/ Running \/ LoopDone(t)
    BY <1>1, <1>3, <1>7, <2>1
  <2>4. CASE Alone \/ Fail(t)
    BY <1>7, <2>2, <2>4, LoopExecutes
  <2>5. CASE Turning
    BY <1>7, <2>2, <2>5, LoopTurns
  <2>6. CASE Going
    BY <1>7, <2>2, <2>6, LoopGoesOn
  <2>7. CASE Running
    BY <1>7, <2>2, <2>7, LoopRuns
  <2>8. CASE LoopDone(t)
    BY <1>7, <2>2, <2>8, LoopEnds
  <2> QED BY <2>3, <2>4, <2>5, <2>6, <2>7, <2>8
<1>8. CASE Iterates(f) /\ t[1] \notin LoopBody(f) /\ t[1] # f
  BY <1>8, OthersGoOn
<1> QED BY <1>5, <1>6, <1>7, <1>8

\* And every step of the server, until it goes down.
LEMMA NextIterates ==
  TypeOK /\ GoroutineInv /\ (Tidy => OnceInv /\ LoopInv) /\ [Next]_vars => (Tidy => LoopInv)'
<1> SUFFICES ASSUME TypeOK, GoroutineInv, Tidy => OnceInv /\ LoopInv, [Next]_vars, Tidy',
                    crashes' = 0
             PROVE  Uninterrupted' /\ \A f \in Loops' : Isolated(f)' => Over(f)' \/ Iterates(f)'
  BY DEF LoopInv
<1>1. workflow' = workflow
  BY NextKeepsWorkflow DEF vars
<1>2. Tidy /\ OnceInv /\ LoopInv /\ Loops' = Loops /\ \A f : Isolated(f)' <=> Isolated(f)
  BY <1>1, SameLoops, SameIsolated
<1>3. \A f : Isolated(f) => f \in Loops /\ f \in Blocks /\ Root(f) \in Tasks /\ LoopDeps(f) \subseteq LoopBody(f)
                            /\ LoopBody(f) \subseteq Blocks
  BY <1>2, AroundLoop
<1>4. CASE \E t \in Tasks : TaskStep(t)
  <2>1. PICK t \in Tasks : TaskStep(t)
    BY <1>4
  <2>2. server' = server /\ crashes' = crashes
    <3>1. CASE \/ Acquire(t) \/ Read(t) \/ Lookup(t) \/ Execute(t) \/ ExecuteFail(t)
               \/ Store(t) \/ Save(t) \/ LookupLost(t) \/ SaveLost(t)
      BY <3>1, ExecutesAlone
    <3>2. CASE Fail(t) \/ Cleanup(t)
      BY <3>2, EndsAlone
    <3>3. CASE \/ CompleteLoop(t) \/ NextItem(t) \/ Join(t) \/ Settle(t) \/ Settled(t)
               \/ \E d \in Blocks : SkipBody(t, d)
      BY <3>3, IteratesAlone
    <3>4. CASE Complete(t) \/ LoopDone(t)
      BY <3>4, CompleteEffect, LoopDoneEffect
    <3>5. CASE \E d \in Blocks : RunBody(t, d)
      BY <3>5, RunBodyEffect DEF GoroutineInv
    <3> QED BY <2>1, <3>1, <3>2, <3>3, <3>4, <3>5 DEF TaskStep
  <2>3. Uninterrupted /\ \A f \in Loops : Isolated(f) => Over(f) \/ Iterates(f)
    BY <1>2, <2>2 DEF LoopInv
  <2>4. Uninterrupted'
    BY <2>2, <2>3 DEF Uninterrupted
  <2> QED BY <1>2, <2>1, <2>3, <2>4, TaskStepIterates
<1>5. CASE EndExecution \/ UNCHANGED vars
  <2>1. /\ UNCHANGED <<task, completed, outputs, fired, crashes>>
        /\ doc'.saved = doc.saved
        /\ server' \in {server, "ended"}
    <3>1. CASE EndExecution
      BY <3>1 DEF EndExecution, memory, TypeOK
    <3>2. CASE UNCHANGED vars
      BY <3>2 DEF vars
    <3> QED BY <1>5, <3>1, <3>2
  <2>2. Uninterrupted /\ \A f \in Loops : Isolated(f) => Over(f) \/ Iterates(f)
    BY <1>2, <2>1 DEF LoopInv
  <2>3. Uninterrupted'
    BY <2>1, <2>2 DEF Uninterrupted
  <2>4. ASSUME NEW f \in Loops, Isolated(f) PROVE Over(f)' \/ Iterates(f)'
    <3>1. task[Root(f)].todo \subseteq LoopBody(f)
      <4>1. Root(f)[1] = f
        BY DEF Root
      <4> QED BY <1>3, <2>4, <4>1 DEF GoroutineInv, LoopsIterate
    <3>2. /\ Different(workflow.items, Len(workflow.items)) \in Nat
          /\ \A b \in Blocks : fired[b] \in Nat
      BY WorkflowItems DEF TypeOK
    <3>3. CASE Over(f)
      BY <1>1, <1>3, <2>1, <2>4, <3>2, <3>3, StaysOver
    <3>4. CASE Iterates(f)
      BY <1>1, <1>3, <2>1, <2>4, <3>1, <3>4, Elsewhere
    <3> QED BY <2>2, <2>4, <3>3, <3>4
  <2> QED BY <1>2, <2>3, <2>4
<1>6. CASE Crash
  <2>1. crashes' = crashes + 1 /\ crashes \in Nat
    BY <1>6, EngineAssumption DEF Crash, TypeOK
  <2> QED BY <2>1
<1>7. CASE GoStale \/ Boot \/ Scan
  <2>1. crashes' = crashes /\ server \in {"down", "up"}
    BY <1>7 DEF GoStale, Boot, Scan
  <2> QED BY <1>2, <2>1 DEF LoopInv, Uninterrupted
<1> QED BY <1>4, <1>5, <1>6, <1>7 DEF Next

\* At first no loop was started, and nothing was saved or executed.
LEMMA InitIterates == Init => (Tidy => LoopInv)
<1> SUFFICES ASSUME Init, Tidy, NEW f \in Loops, Isolated(f) PROVE Iterates(f)
  BY DEF LoopInv, Uninterrupted, Init
<1>0. TypeOK
  BY InitTyped
<1>1. /\ Root(f) \in Tasks /\ f \in Blocks /\ LoopBody(f) \subseteq Blocks
      /\ \A b \in LoopBody(f) : f \in Dependencies(b) \/ Dependencies(b) \cap LoopBody(f) # {}
  BY <1>0, AroundLoop
<1>2. /\ NoTask.pc = "none" /\ ~ NoTask.served /\ NoTask.item = 0
      /\ Waiting.pc = "wait" /\ ~ Waiting.served /\ NoCheckpoint.out = NoOutput
  BY DEF NoTask, Waiting, NoCheckpoint
<1>3. \A u \in Tasks : task[u].pc \in {"none", "wait"} /\ ~ task[u].served
  BY <1>2 DEF Init, FreshTasks
<1>4. \A u \in Tasks : u[1] \in LoopBody(f) => ~ Live(u)
  <2>1. \A b \in LoopBody(f) : b \notin StartBlocks
    BY <1>1 DEF StartBlocks
  <2> QED BY <1>2, <2>1 DEF Init, FreshTasks, Live
<1>5. \A b \in Blocks : doc.saved[b].out = NoOutput
  BY <1>2 DEF Init
<1>6. completed = {}
  BY DEF Init
<1>7. task[Root(f)].pc \in {"none", "wait"} /\ ~ InItem(f) /\ task[Root(f)].pc \notin LoopPcs
  BY <1>1, <1>3 DEF InItem, LoopPcs
<1>8. Unserved(f) /\ SavedInItem(f)
  BY <1>1, <1>3, <1>5 DEF Unserved, SavedInItem
<1>9. Quiet(f) /\ OneAtATime(f)
  BY <1>4, <1>6 DEF Quiet, OneAtATime
<1>10. Todo(f) /\ Earlier(f) /\ Current(f)
  BY <1>6, <1>7 DEF Todo, Earlier, Current
<1> QED BY <1>7, <1>8, <1>9, <1>10 DEF Iterates

\* In a tidy workflow, when nothing interrupts the execution, what is behind the done port of a
\* loop starts after each block of its body was executed as often as there are different items:
\* an item that equals an earlier one may be served from its checkpoint, and nothing else is.
THEOREM DoneAfterEveryItemHolds == Spec => []DoneAfterEveryItem
<1>1. Init => (Tidy => LoopInv)
  BY InitIterates
<1>2. ASSUME TypeOK, Tidy => OnceInv /\ LoopInv PROVE DoneAfterEveryItem
  <2> SUFFICES ASSUME Tidy, NEW f \in Loops, SelfContained(f), ~ InLoop(f), crashes = 0,
                      NEW t \in Tasks, t[1] \in DoneDeps(f), Live(t),
                      NEW b \in LoopBody(f)
               PROVE  fired[b] >= Cardinality(DifferentItems)
    BY DEF DoneAfterEveryItem, DoneAfterItems
  <2>1. Isolated(f)
    BY DEF Isolated
  <2>2. Over(f) \/ Iterates(f)
    BY <1>2, <2>1 DEF LoopInv
  <2>3. /\ Root(f) \in Tasks /\ Root(f)[1] = f /\ Root(f)[2] = 1 /\ f \in Blocks
        /\ ~ InLoop(t[1]) /\ Dependencies(t[1]) = {f}
    BY <1>2, <2>1, AroundLoop
  <2>4. task[t].pc # "none"
    BY DEF Live
  <2>5. f \in completed
    BY <1>2, <2>3, <2>4 DEF OnceInv, OuterTurn
  <2>6. task[Root(f)].pc \in {"none", "end"}
    BY <1>2, <2>3, <2>4 DEF OnceInv, OuterDone
  <2>7. task[Root(f)].pc = "end"
    BY <1>2, <2>3, <2>5, <2>6 DEF OnceInv, OuterOver, LoopPcs
  <2>8. fired[b] >= Different(workflow.items, Len(workflow.items))
    BY <2>2, <2>5, <2>7 DEF Over, Iterates, AllItems
  <2>9. Different(workflow.items, Len(workflow.items)) = Cardinality(DifferentItems)
    BY <1>2, WorkflowItems
  <2> QED BY <2>8, <2>9
<1> QED BY <1>1, <1>2, OnceInvHolds, NextIterates, PTL DEF Spec
=============================================================================
