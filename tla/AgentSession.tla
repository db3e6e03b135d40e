---------------------------- MODULE AgentSession ----------------------------
(***************************************************************************)
(* A session of the Clara agent (packages/agent: Agent and its loop;       *)
(* packages/coding-agent: AgentSession).  A prompt starts a run of the     *)
(* agent: requests to the model, the tools it calls, and the messages the  *)
(* user queues meanwhile.  After the run the session retries, compacts or  *)
(* continues, and settles when nothing is left.                            *)
(*                                                                         *)
(* All of it is one thread: an action is what runs between two awaits that *)
(* may take time.  The user's texts are numbers.  Of the transcript the  *)
(* model keeps the user's texts and how many assistant messages it ends    *)
(* with (trail); a failed listener or disk is left out.                    *)
(***************************************************************************)
EXTENDS Naturals, SequencesExt

CONSTANTS
  MaxTexts,    \* bound on what the user says
  Prompter,    \* slots for calls of prompt()
  None,
  Faults,      \* "overlap": a prompt may come while another is being prepared, or during a
               \* compaction by hand
  MaxRetries,  \* settings.maxRetries
  MaxCalls,    \* bound on the tool calls of a message
  MaxReplies,  \* bound on the answers of the model, in a behaviour, that do not end a turn well
  MaxBash      \* bound on the bash results that wait

ASSUME NoneAssumption == None \notin Nat \cup Prompter
ASSUME BoundAssumption == {MaxTexts, MaxRetries, MaxCalls, MaxReplies, MaxBash} \subseteq Nat
ASSUME FaultsAssumption == Faults \subseteq {"overlap"}

\* The user's texts differ and are numbered as they are said.
Text == 1 .. MaxTexts

VARIABLES
  session,  \* AgentSession
  agent,    \* Agent
  loop,     \* the run of agent-loop.ts that is under way
  prompt,   \* [Prompter -> a call of prompt(), with its _runAgentPrompt]
  log,      \* the session file
  manual,   \* compact(): a compaction by hand
  user,     \* what the user said and was told
  spent     \* answers counted for MaxReplies

vars == <<session, agent, loop, prompt, log, manual, user, spent>>

\* How the model's last message ended: "error" may be retried, "overflow" is the error of a
\* context too long, "length" a context so full that no room was left for an answer.
Errors  == {"error", "fatal", "overflow"}
Replies == {"stop", "calls", "length"} \cup Errors

NoLoop == [pc |-> "none", pending |-> <<>>, skip |-> FALSE, calls |-> 0, more |-> FALSE]
NoPrompt == [pc |-> "idle", text |-> None]

TypeOK ==
  /\ session \in [active : BOOLEAN, connected : BOOLEAN, attempt : 0 .. MaxRetries,
                  retrying : Prompter \cup {None}, recovered : BOOLEAN, last : Replies \cup {"none", "aborted"},
                  waiting : SUBSET {"abort", "compact"},
                  steering : Seq(Text), followUp : Seq(Text), bash : 0 .. MaxBash]
  /\ agent \in [run : BOOLEAN, aborted : BOOLEAN, mode : {"all", "one-at-a-time"},
                steering : Seq(Text), followUp : Seq(Text), trail : Nat]
  /\ loop \in [pc : {"none", "prompt", "start", "inject", "stream", "tools", "turn", "end"},
               pending : Seq(Text), skip : BOOLEAN, calls : 0 .. MaxCalls, more : BOOLEAN]
  /\ prompt \in [Prompter -> [pc : {"idle", "preflight", "running", "sleep", "cancelled", "overflow",
                                    "length", "threshold", "continue", "done", "settling"},
                              text : Text \cup {None}]]
  /\ log \in [texts : SUBSET Text, trail : Nat]
  /\ manual \in {"none", "waits", "compacting"}
  /\ user \in [said : 0 .. MaxTexts, told : SUBSET Text, unheard : SUBSET Text, failures : Nat,
               crossed : BOOLEAN]
  /\ spent \in 0 .. MaxReplies

Init ==
  /\ session = [active |-> FALSE, connected |-> TRUE, attempt |-> 0, retrying |-> None, recovered |-> FALSE,
                last |-> "none", waiting |-> {}, steering |-> <<>>, followUp |-> <<>>, bash |-> 0]
  /\ agent \in [run : {FALSE}, aborted : {FALSE}, mode : {"all", "one-at-a-time"},
                steering : {<<>>}, followUp : {<<>>}, trail : {0}]
  /\ loop = NoLoop
  /\ prompt = [p \in Prompter |-> NoPrompt]
  /\ log = [texts |-> {}, trail |-> 0]
  /\ manual = "none"
  /\ user = [said |-> 0, told |-> {}, unheard |-> {}, failures |-> 0, crossed |-> FALSE]
  /\ spent = 0

------------------------------------------------------------------------------
(* Helpers.                                                                *)

\* What follows without an await that takes time has been done: the next call comes later.
TaskIsOver == \A p \in Prompter : prompt[p].pc \notin {"cancelled", "continue", "done"}

HasQueued == agent.steering # <<>> \/ agent.followUp # <<>>

\* PendingMessageQueue.drain(): what it returns and what it leaves.
Drained(queue) == IF agent.mode = "all" \/ queue = <<>> THEN queue ELSE <<Head(queue)>>
Left(queue)    == IF agent.mode = "all" \/ queue = <<>> THEN <<>> ELSE Tail(queue)

Less(n) == IF n = 0 THEN 0 ELSE n - 1

\* The messages of the transcript, and of the session file, when one is added that is not the
\* model's.
FlushedAgent(a) == IF session.bash = 0 THEN a ELSE [a EXCEPT !.trail = 0]
FlushedLog      == IF session.bash = 0 THEN log ELSE [log EXCEPT !.trail = 0]

Goto(p, pc) == prompt' = [prompt EXCEPT ![p].pc = pc]

\* runWithLifecycle with the messages to begin with.
Run(p, pc, pending, skip, a) ==
  /\ Goto(p, "running")
  /\ agent' = [a EXCEPT !.run = TRUE, !.aborted = FALSE]
  /\ loop' = [NoLoop EXCEPT !.pc = pc, !.pending = pending, !.skip = skip]

------------------------------------------------------------------------------
(* prompt() and _runAgentPrompt.                                           *)

\* prompt() on a session that is not streaming, up to the awaits of its preparation (a compaction
\* may be among them; what it leaves the transcript with is hidden by the prompt).
Prompt(p) ==
  /\ TaskIsOver
  /\ user.said < MaxTexts
  /\ prompt[p].pc = "idle"
  /\ ~session.active
  /\ "overlap" \in Faults \/ (manual = "none" /\ \A q \in Prompter : prompt[q].pc # "preflight")
  /\ prompt' = [prompt EXCEPT ![p] = [pc |-> "preflight", text |-> user.said + 1]]
  /\ user' = [user EXCEPT !.said = @ + 1]
  /\ agent' = FlushedAgent(agent)
  /\ log' = FlushedLog
  /\ session' = [session EXCEPT !.bash = 0]
  /\ UNCHANGED <<loop, manual, spent>>

\* No model, no key, an extension that throws: the caller is told.
PreflightFails(p) ==
  /\ prompt[p].pc = "preflight"
  /\ prompt' = [prompt EXCEPT ![p] = NoPrompt]
  /\ user' = [user EXCEPT !.told = @ \cup {prompt[p].text}]
  /\ UNCHANGED <<session, agent, loop, log, manual, spent>>

\* The run begins; agent.prompt() throws when there is one already.  Whether the session was
\* busy is not looked at again.
Begin(p) ==
  /\ prompt[p].pc = "preflight"
  /\ session' = [session EXCEPT !.active = TRUE]
  /\ user' = [user EXCEPT !.crossed = @ \/ session.active \/ manual # "none",
                          !.told = IF agent.run THEN @ \cup {prompt[p].text} ELSE @]
  /\ IF agent.run THEN Goto(p, "done") /\ UNCHANGED <<agent, loop>>
     ELSE Run(p, "prompt", <<prompt[p].text>>, FALSE, agent)
  /\ UNCHANGED <<log, manual, spent>>

\* (A mutant: an overflow is recovered from again and again.)
Rest_again(p, msg, s, a) ==
  \/ /\ msg \in {"overflow", "length"}
     /\ session' = s
     /\ agent' = [a EXCEPT !.trail = Less(@)]
     /\ Goto(p, msg)
  \/ /\ msg \notin {"none", "aborted", "overflow", "length"}
     /\ session' = s /\ agent' = a /\ Goto(p, "threshold")
  \/ /\ msg \in {"none", "aborted"}
     /\ session' = s /\ agent' = a
     /\ Goto(p, IF msg # "none" /\ HasQueued THEN "continue" ELSE "done")

\* The end of _handlePostAgentRun, with s the session and a the agent so far: a compaction, or
\* what is queued.
Rest(p, msg, s, a) ==
  \/ /\ msg \in {"overflow", "length"} /\ ~s.recovered
     /\ session' = [s EXCEPT !.recovered = TRUE]
     /\ agent' = [a EXCEPT !.trail = Less(@)]
     /\ Goto(p, msg)
  \/ /\ msg \notin {"none", "aborted", "overflow", "length"}
     /\ session' = s
     /\ agent' = a
     /\ Goto(p, "threshold")
  \/ /\ msg \in {"overflow", "length"} => s.recovered
     /\ session' = s
     /\ agent' = a
     /\ Goto(p, IF msg # "none" /\ HasQueued THEN "continue" ELSE "done")

\* (A mutant: an error is retried without a look at the attempts.)
RunEnds_uncapped(p) ==
  /\ prompt[p].pc = "running" /\ loop.pc = "end"
  /\ loop' = NoLoop
  /\ IF session.last = "error"
     THEN /\ session' = [session EXCEPT !.last = "none", !.attempt = @ + 1, !.retrying = p]
          /\ agent' = [agent EXCEPT !.run = FALSE, !.trail = Less(@)]
          /\ Goto(p, "sleep")
     ELSE Rest(p, session.last, [session EXCEPT !.last = "none"], [agent EXCEPT !.run = FALSE])
  /\ UNCHANGED <<log, manual, user, spent>>

\* The listeners of agent_end are through: finishRun, then _handlePostAgentRun up to its
\* first await.
RunEnds(p) ==
  LET msg == session.last
      s == [session EXCEPT !.last = "none"]
      a == [agent EXCEPT !.run = FALSE]
  IN  /\ prompt[p].pc = "running"
      /\ loop.pc = "end"
      /\ loop' = NoLoop
      /\ IF msg = "error" /\ session.attempt < MaxRetries
         THEN /\ session' = [s EXCEPT !.attempt = @ + 1, !.retrying = p]
              /\ agent' = [a EXCEPT !.trail = Less(@)]
              /\ Goto(p, "sleep")
         ELSE Rest(p, msg, IF msg \in Errors THEN [s EXCEPT !.attempt = 0] ELSE s, a)
      /\ UNCHANGED <<log, manual, user, spent>>

\* _prepareRetry: the delay is over.
RetryElapsed(p) ==
  /\ prompt[p].pc = "sleep"
  /\ Goto(p, "continue")
  /\ session' = [session EXCEPT !.retrying = None]
  /\ UNCHANGED <<agent, loop, log, manual, user, spent>>

\* _prepareRetry: the delay was aborted, the session goes on without a retry.
Cancelled(p) ==
  /\ prompt[p].pc = "cancelled"
  /\ Rest(p, "error", session, agent)
  /\ UNCHANGED <<loop, log, manual, user, spent>>

\* (A mutant: what was queued during the compaction is not looked at.)
CompactionEnds_quiet(p, ok) ==
  LET why == prompt[p].pc
  IN  /\ why \in {"overflow", "length", "threshold"}
      /\ agent' = IF ~ok THEN agent
                  ELSE [agent EXCEPT !.trail = IF why = "overflow" THEN Less(log.trail) ELSE log.trail]
      /\ Goto(p, IF ok /\ why # "threshold" THEN "continue" ELSE "done")
      /\ UNCHANGED <<session, loop, log, manual, user, spent>>

\* _runAutoCompaction ends, well or not: then the messages are those of the session file, but
\* for the error that it recovers from.  What the file keeps of earlier errors comes back.
CompactionEnds(p, ok) ==
  LET why == prompt[p].pc
  IN  /\ why \in {"overflow", "length", "threshold"}
      /\ agent' = IF ~ok THEN agent
                  ELSE [agent EXCEPT !.trail = IF why = "overflow" THEN Less(log.trail) ELSE log.trail]
      /\ Goto(p, IF (ok /\ why # "threshold") \/ HasQueued THEN "continue" ELSE "done")
      /\ UNCHANGED <<session, loop, log, manual, user, spent>>

\* agent.continue(): after an answer it takes what is queued, and throws when nothing is.
Continue(p) ==
  LET steered == Drained(agent.steering)
      followed == Drained(agent.followUp)
  IN  /\ prompt[p].pc = "continue"
      /\ IF ~agent.run /\ agent.trail = 0 THEN Run(p, "start", <<>>, FALSE, agent)
         ELSE IF ~agent.run /\ steered # <<>>
         THEN Run(p, "prompt", steered, TRUE, [agent EXCEPT !.steering = Left(@)])
         ELSE IF ~agent.run /\ followed # <<>>
         THEN Run(p, "prompt", followed, FALSE, [agent EXCEPT !.followUp = Left(@)])
         ELSE Goto(p, "done") /\ UNCHANGED <<agent, loop>>
      /\ UNCHANGED <<session, log, manual, user, spent>>

\* The finally of _runAgentPrompt, up to the await of the extensions in _emitAgentSettled.
Settle(p) ==
  /\ prompt[p].pc = "done"
  /\ Goto(p, "settling")
  /\ session' = [session EXCEPT !.active = FALSE, !.bash = 0]
  /\ agent' = FlushedAgent(agent)
  /\ log' = FlushedLog
  /\ UNCHANGED <<loop, manual, user, spent>>

\* (A mutant: who waits for the end of the run is told nothing.)
Settled_once(p) ==
  /\ prompt[p].pc = "settling"
  /\ prompt' = [prompt EXCEPT ![p] = NoPrompt]
  /\ UNCHANGED <<session, manual, agent, loop, log, user, spent>>

\* The extensions were told; those who wait for the session to be idle go on.
Settled(p) ==
  /\ prompt[p].pc = "settling"
  /\ prompt' = [prompt EXCEPT ![p] = NoPrompt]
  /\ IF session.active THEN UNCHANGED <<session, manual>>
     ELSE /\ session' = [session EXCEPT !.waiting = {}]
          /\ manual' = IF "compact" \in session.waiting THEN "compacting" ELSE manual
  /\ UNCHANGED <<agent, loop, log, user, spent>>

------------------------------------------------------------------------------
(* The loop of a run, with _handleAgentEvent on the messages it emits.     *)

\* (A mutant: a text that is sent stays in the list of queued texts.)
Inject_unshown ==
  /\ loop.pc \in {"prompt", "inject"}
  /\ agent' = [agent EXCEPT !.trail = 0]
  /\ loop' = [loop EXCEPT !.pending = Tail(@),
                          !.pc = IF Len(loop.pending) > 1 THEN @
                                 ELSE IF @ = "prompt" THEN "start" ELSE "stream"]
  /\ IF session.connected
     THEN /\ session' = [session EXCEPT !.recovered = FALSE]
          /\ log' = [log EXCEPT !.texts = @ \cup {Head(loop.pending)}, !.trail = 0]
          /\ user' = [user EXCEPT !.failures = 0]
     ELSE /\ user' = [user EXCEPT !.failures = 0, !.unheard = @ \cup {Head(loop.pending)}]
          /\ UNCHANGED <<session, log>>
  /\ UNCHANGED <<prompt, manual, spent>>

\* A message of the user goes into the transcript.
Inject ==
  LET t == Head(loop.pending)
      shown == \E i \in 1 .. Len(session.steering) : session.steering[i] = t
  IN  /\ loop.pc \in {"prompt", "inject"}
      /\ agent' = [agent EXCEPT !.trail = 0]
      /\ loop' = [loop EXCEPT !.pending = Tail(@),
                              !.pc = IF Len(loop.pending) > 1 THEN @
                                     ELSE IF @ = "prompt" THEN "start" ELSE "stream"]
      /\ IF session.connected
         THEN /\ session' = [session EXCEPT !.recovered = FALSE,
                               !.steering = RemoveFirst(@, t),
                               !.followUp = IF shown THEN @ ELSE RemoveFirst(@, t)]
              /\ log' = [log EXCEPT !.texts = @ \cup {t}, !.trail = 0]
              /\ user' = [user EXCEPT !.failures = 0]
         ELSE /\ user' = [user EXCEPT !.failures = 0, !.unheard = @ \cup {t}]
              /\ UNCHANGED <<session, log>>
      /\ UNCHANGED <<prompt, manual, spent>>

\* "Check for steering messages at start (user may have typed while waiting)".
Start ==
  LET polled == IF loop.skip THEN <<>> ELSE Drained(agent.steering)
  IN  /\ loop.pc = "start"
      /\ loop' = [loop EXCEPT !.pending = polled, !.pc = IF polled = <<>> THEN "stream" ELSE "inject"]
      /\ agent' = [agent EXCEPT !.steering = IF loop.skip THEN @ ELSE Left(@)]
      /\ UNCHANGED <<session, prompt, log, manual, user, spent>>

\* The model's message, at its end; an aborted request ends as "aborted".
Reply(o) ==
  /\ loop.pc = "stream"
  /\ (o = "aborted") <=> agent.aborted
  /\ o \in {"stop", "aborted"} \/ spent < MaxReplies
  /\ spent' = IF o \in {"stop", "aborted"} THEN spent ELSE spent + 1
  /\ agent' = [agent EXCEPT !.trail = @ + 1]
  /\ \/ /\ o = "calls"
        /\ \E n \in 1 .. MaxCalls : loop' = [loop EXCEPT !.pc = "tools", !.calls = n]
     \/ /\ o \in {"stop", "length"}
        /\ loop' = [loop EXCEPT !.pc = "turn", !.more = FALSE]
     \/ /\ o \in Errors \cup {"aborted"}
        /\ loop' = [loop EXCEPT !.pc = "end"]
  /\ user' = [user EXCEPT !.failures = IF o \in Errors THEN @ + 1 ELSE 0]
  /\ IF session.connected
     THEN /\ log' = [log EXCEPT !.trail = @ + 1]
          /\ session' = [session EXCEPT !.last = o,
                                        !.recovered = IF o \in Errors THEN @ ELSE FALSE,
                                        !.attempt = IF o \in Errors THEN @ ELSE 0]
     ELSE UNCHANGED <<session, log>>
  /\ UNCHANGED <<prompt, manual>>

\* A tool's result; an abort leaves out the calls that have not begun, and a batch of which
\* every result says so ends the run.
ToolResult ==
  /\ loop.pc = "tools"
  /\ agent' = [agent EXCEPT !.trail = 0]
  /\ log' = IF session.connected THEN [log EXCEPT !.trail = 0] ELSE log
  /\ IF loop.calls = 1 \/ agent.aborted
     THEN \E goesOn \in BOOLEAN : loop' = [loop EXCEPT !.calls = 0, !.pc = "turn", !.more = goesOn]
     ELSE loop' = [loop EXCEPT !.calls = @ - 1]
  /\ UNCHANGED <<session, prompt, manual, user, spent>>

\* (A mutant: the follow-ups are drained with the steering messages.)
Turn_both ==
  LET steered == Drained(agent.steering)
      followed == Drained(agent.followUp)
      next == IF steered # <<>> THEN steered ELSE followed
  IN  /\ loop.pc = "turn"
      /\ \/ /\ next # <<>>
            /\ loop' = [loop EXCEPT !.pending = next, !.pc = "inject"]
            /\ agent' = [agent EXCEPT !.steering = Left(@), !.followUp = Left(@)]
         \/ /\ next = <<>>
            /\ loop' = [loop EXCEPT !.pc = IF loop.more THEN "stream" ELSE "end"]
            /\ UNCHANGED agent
      /\ UNCHANGED <<session, prompt, log, manual, user, spent>>

\* The turn is over: steering messages first, follow-ups when the agent would stop.
Turn ==
  LET steered == Drained(agent.steering)
      followed == Drained(agent.followUp)
  IN  /\ loop.pc = "turn"
      /\ \/ /\ steered # <<>>
            /\ loop' = [loop EXCEPT !.pending = steered, !.pc = "inject"]
            /\ agent' = [agent EXCEPT !.steering = Left(@)]
         \/ /\ steered = <<>> /\ loop.more
            /\ loop' = [loop EXCEPT !.pc = "stream"]
            /\ UNCHANGED agent
         \/ /\ steered = <<>> /\ ~loop.more /\ followed # <<>>
            /\ loop' = [loop EXCEPT !.pending = followed, !.pc = "inject"]
            /\ agent' = [agent EXCEPT !.followUp = Left(@)]
         \/ /\ steered = <<>> /\ ~loop.more /\ followed = <<>>
            /\ loop' = [loop EXCEPT !.pc = "end"]
            /\ UNCHANGED agent
      /\ UNCHANGED <<session, prompt, log, manual, user, spent>>

------------------------------------------------------------------------------
(* What the user and the tools of the interface do meanwhile.              *)

Steer ==
  /\ user.said < MaxTexts
  /\ user' = [user EXCEPT !.said = @ + 1]
  /\ session' = [session EXCEPT !.steering = Append(@, user.said + 1)]
  /\ agent' = [agent EXCEPT !.steering = Append(@, user.said + 1)]
  /\ UNCHANGED <<loop, prompt, log, manual, spent>>

FollowUp ==
  /\ user.said < MaxTexts
  /\ user' = [user EXCEPT !.said = @ + 1]
  /\ session' = [session EXCEPT !.followUp = Append(@, user.said + 1)]
  /\ agent' = [agent EXCEPT !.followUp = Append(@, user.said + 1)]
  /\ UNCHANGED <<loop, prompt, log, manual, spent>>

\* clearQueue(): the texts shown as queued go back to the user.
ClearQueue ==
  /\ session.steering \o session.followUp # <<>>
  /\ user' = [user EXCEPT !.told = @ \cup Range(session.steering \o session.followUp)]
  /\ session' = [session EXCEPT !.steering = <<>>, !.followUp = <<>>]
  /\ agent' = [agent EXCEPT !.steering = <<>>, !.followUp = <<>>]
  /\ UNCHANGED <<loop, prompt, log, manual, spent>>

\* (A mutant: an aborted retry keeps its count.)
Aborted_kept(w, s) ==
  LET sleeper == session.retrying
  IN  /\ session' = [s EXCEPT !.retrying = None,
                              !.waiting = IF session.active THEN @ \cup {w} ELSE @]
      /\ prompt' = IF sleeper = None THEN prompt ELSE [prompt EXCEPT ![sleeper].pc = "cancelled"]
      /\ agent' = [agent EXCEPT !.aborted = agent.run]

\* abort() up to the wait, by a caller who then waits as w: the delay of a retry ends, the run
\* is told, a compaction is not.
Aborted(w, s) ==
  LET sleeper == session.retrying
  IN  /\ session' = [s EXCEPT !.retrying = None,
                              !.attempt = IF sleeper = None THEN @ ELSE 0,
                              !.waiting = IF session.active THEN @ \cup {w} ELSE @]
      /\ prompt' = IF sleeper = None THEN prompt ELSE [prompt EXCEPT ![sleeper].pc = "cancelled"]
      /\ agent' = [agent EXCEPT !.aborted = agent.run]

Abort ==
  /\ session.active
  /\ Aborted("abort", session)
  /\ user' = [user EXCEPT !.failures = 0]
  /\ UNCHANGED <<loop, log, manual, spent>>

\* recordBashResult().
RecordBash ==
  \/ /\ session.active
     /\ session.bash < MaxBash
     /\ session' = [session EXCEPT !.bash = @ + 1]
     /\ UNCHANGED <<agent, log>>
     /\ UNCHANGED <<loop, prompt, manual, user, spent>>
  \/ /\ ~session.active
     /\ agent' = [agent EXCEPT !.trail = 0]
     /\ log' = [log EXCEPT !.trail = 0]
     /\ UNCHANGED session
     /\ UNCHANGED <<loop, prompt, manual, user, spent>>

\* compact(): the session stops listening to the agent, aborts what runs and waits for it.
Compact ==
  /\ manual = "none"
  /\ "overlap" \in Faults \/ \A p \in Prompter : prompt[p].pc # "preflight"
  /\ Aborted("compact", [session EXCEPT !.connected = FALSE])
  /\ manual' = IF session.active THEN "waits" ELSE "compacting"
  /\ user' = [user EXCEPT !.crossed = @ \/ session.active, !.failures = 0]
  /\ UNCHANGED <<loop, log, spent>>

CompactEnds(ok) ==
  /\ manual = "compacting"
  /\ manual' = "none"
  /\ session' = [session EXCEPT !.connected = TRUE]
  /\ agent' = IF ok THEN [agent EXCEPT !.trail = log.trail] ELSE agent
  /\ UNCHANGED <<loop, prompt, log, user, spent>>

------------------------------------------------------------------------------
(* Specification.                                                          *)

\* What goes on without an await that takes time.
Goes(p) == Cancelled(p) \/ Continue(p) \/ Settle(p)

Works(p) ==
  \/ PreflightFails(p) \/ Begin(p)
  \/ RunEnds(p)
  \/ RetryElapsed(p)
  \/ \E ok \in BOOLEAN : CompactionEnds(p, ok)
  \/ Settled(p)

LoopStep == Inject \/ Start \/ (\E o \in Replies \cup {"aborted"} : Reply(o)) \/ ToolResult \/ Turn

UserStep ==
  \/ Steer \/ FollowUp
  \/ ClearQueue
  \/ Abort
  \/ RecordBash
  \/ Compact

Next ==
  \/ \E p \in Prompter : Goes(p)
  \/ \E p \in Prompter : Prompt(p)
  \/ /\ TaskIsOver
     /\ \/ \E p \in Prompter : Works(p)
        \/ LoopStep
        \/ UserStep
        \/ \E ok \in BOOLEAN : CompactEnds(ok)

Spec == Init /\ [][Next]_vars

\* Awaited work ends: the delays, the model's requests and the tools (an aborted one soon),
\* the compactions and the extensions.  Nobody has to say anything.
FairSpec ==
  /\ Spec
  /\ \A p \in Prompter : WF_vars(Goes(p)) /\ WF_vars(TaskIsOver /\ Works(p))
  /\ WF_vars(TaskIsOver /\ LoopStep)
  /\ WF_vars(TaskIsOver /\ \E ok \in BOOLEAN : CompactEnds(ok))

------------------------------------------------------------------------------
(* Properties.                                                             *)

\* A session that calls itself idle has no run, no retry, no compaction of its own and no
\* continuation under way, and nothing waits for its end; its next prompt has every retry
\* (isIdle; unless prompts overlapped or a compaction by hand broke a run off).
IdleIsIdle ==
  ~session.active /\ ~user.crossed =>
    /\ ~agent.run
    /\ session.bash = 0
    /\ session.attempt = 0
    /\ session.waiting # {} => \E p \in Prompter : prompt[p].pc = "settling"
    /\ \A p \in Prompter : prompt[p].pc \in {"idle", "preflight", "settling"}

\* What the user said is being prepared, is queued, is about to be sent, is in the session file
\* or has been handed back: a run that ends, fails, is retried or aborted loses none of it
\* (with a compaction by hand that breaks a run off the messages on their way are not written).
NothingSaidIsLost ==
  1 .. user.said \subseteq
    {prompt[p].text : p \in {q \in Prompter : prompt[q].pc = "preflight"}}
      \cup Range(agent.steering \o agent.followUp) \cup Range(loop.pending) \cup log.texts \cup user.told
      \cup (IF user.crossed THEN user.unheard ELSE {})

\* When the session settles nothing is queued that this run would have had to serve
\* (_handlePostAgentRun; docs/extensions.md: "no retry/compaction/follow-up left").
EverythingQueuedIsServed ==
  \A p \in Prompter : prompt[p].pc = "done" /\ ~user.crossed => ~HasQueued

\* The lists the user sees are what waits: each queued text in its order, then none that has
\* been sent, and a text in a list is queued or about to be sent.
QueuesAreShown ==
  LET shown == Range(session.steering \o session.followUp)
  IN  /\ IsSuffix(agent.steering, session.steering)
      /\ IsSuffix(agent.followUp, session.followUp)
      /\ shown \cap log.texts = {}
      /\ shown \subseteq Range(agent.steering \o agent.followUp) \cup Range(loop.pending)
                          \cup user.unheard

\* The session gives up: since a word or an abort of the user, or an answer that is no error, it
\* retries or recovers after at most MaxRetries errors, an overflow and again MaxRetries errors.
GivesUp ==
  \A p \in Prompter : prompt[p].pc \in {"sleep", "overflow"} => user.failures <= 2 * MaxRetries + 1

\* Every run ends and the session settles, and then nobody waits for it any more: an abort or
\* a compaction that waits gets its turn.
RunsSettle == session.active ~> ~session.active /\ session.waiting = {}

\* The error that a retry or a recovery is about is out of the context when the agent
\* continues, so it can: the agent cannot continue after an answer with nothing queued
\* (_checkCompaction: "we don't want it in context for the retry").
ContinuesWhenItCan ==
  \A p \in Prompter : prompt[p].pc = "continue" /\ ~user.crossed => agent.trail = 0 \/ HasQueued
==============================================================================
