---------------------------- MODULE SessionClient ----------------------------
(***************************************************************************)
(* The client of the session server (packages/client): PiClient with its   *)
(* leases, Connection and ClientState, as they treat one session.  Several *)
(* parts of a program hold leases of the session, shared or exclusive; the *)
(* connection attaches for the first and detaches for the last.            *)
(*                                                                         *)
(* The client is a single thread.  A promise is the number of the request  *)
(* it stands for; what waits for it is a process that goes on some time    *)
(* after it is settled.  The server is what SessionServer promises: it     *)
(* attaches, detaches, answers and announces, over a connection that keeps *)
(* the order and may break.                                                *)
(***************************************************************************)
EXTENDS Naturals, Sequences

CONSTANTS
  Lease,        \* the holders of leases
  None,
  Faults,       \* which of these happen: "break", the connection breaks; "removal", the server
                \* removes the session; "chunk", a message comes in one chunk with an earlier one
                \* and is handled before those who waited for the earlier one go on
  MaxRequests,  \* bound on the requests of a behaviour
  MaxInbox,     \* bound on the messages in flight when the server announces something
  MaxBreaks     \* bound on the times the leases are invalidated

ASSUME NoneAssumption == None \notin Lease
ASSUME BoundAssumption == MaxRequests \in Nat /\ MaxInbox \in Nat /\ MaxBreaks \in Nat
ASSUME FaultsAssumption == Faults \subseteq {"break", "removal", "chunk"}

VARIABLES
  link,        \* Connection: the state of its lifecycle
  promise,     \* #pendingRequests and what became of them, by request number
  sequence,    \* #requestSequence
  lease,       \* [Lease -> the closure of #createSessionLease, or of an acquisition]
  registry,    \* the maps of PiClient for the session
  attached,    \* ClientState: whether #attachedSessionIds has the session
  serverAttached,  \* the server: whether this connection is attached
  inbox        \* the messages on their way to the client

vars == <<link, promise, sequence, lease, registry, attached, serverAttached, inbox>>

Ids == 1 .. MaxRequests
Modes == {"shared", "exclusive"}

NoPromise == [command |-> "none", state |-> "none"]
NoLease == [pc |-> "none", mode |-> "shared", generation |-> 0, waits |-> 0, relinquish |-> FALSE]
\* count: #sessionLeaseCounts; exclusive: #exclusiveSessionLeases; cleanup:
\* #sessionCleanupRequired; the others are the promises of the maps of those names, but
\* for crossed, which remembers for the properties that a removal met a lease that was being
\* acquired or given back, or a message those who had not gone on after the one before.
NoRegistry == [count |-> 0, exclusive |-> None, generation |-> 0, cleanup |-> FALSE,
               attachment |-> 0, detachment |-> 0, reconciliation |-> 0, crossed |-> FALSE]

Messages ==
  [type : {"response"}, id : Ids, ok : BOOLEAN, attached : BOOLEAN]
    \cup [type : {"snapshot"}, attached : BOOLEAN]
    \cup {[type |-> "removed"]}

TypeOK ==
  /\ link \in {"disconnected", "connecting", "connected", "disposed"}
  /\ promise \in [Ids -> [command : {"none", "attach", "detach"},
                          state : {"none", "sent", "done", "refused", "ok", "error"}]]
  /\ sequence \in 0 .. MaxRequests
  /\ lease \in [Lease -> [pc : {"none", "awaitDetach", "reconciling", "reconciled", "attaching",
                                "active", "releasing"},
                          mode : Modes, generation : Nat, waits : 0 .. MaxRequests,
                          relinquish : BOOLEAN]]
  /\ registry \in [count : Nat, exclusive : Lease \cup {None}, generation : Nat,
                   cleanup : BOOLEAN, attachment : 0 .. MaxRequests,
                   detachment : 0 .. MaxRequests, reconciliation : 0 .. MaxRequests,
                   crossed : BOOLEAN]
  /\ attached \in BOOLEAN
  /\ serverAttached \in BOOLEAN
  /\ inbox \in Seq(Messages)

Init ==
  /\ link = "disconnected"
  /\ promise = [n \in Ids |-> NoPromise]
  /\ sequence = 0
  /\ lease = [a \in Lease |-> NoLease]
  /\ registry = NoRegistry
  /\ attached = FALSE
  /\ serverAttached = FALSE
  /\ inbox = <<>>

------------------------------------------------------------------------------
(* Helpers.                                                                *)

Settled(n) == promise[n].state \in {"ok", "error"}

\* Somebody's promise is settled and he has not gone on yet.
Continues(a) ==
  \/ lease[a].pc \in {"awaitDetach", "attaching", "releasing"} /\ Settled(lease[a].waits)
  \/ lease[a].pc = "reconciled"
ReconciliationEnds == registry.reconciliation # 0 /\ Settled(registry.reconciliation)
TaskIsOver == ~ReconciliationEnds /\ \A a \in Lease : ~Continues(a)

\* The acquisitions under way.
Acquiring == {a \in Lease : lease[a].pc \in {"awaitDetach", "reconciling", "reconciled", "attaching"}}

\* isActive() of the lease's closure.
Active(a) ==
  /\ lease[a].pc = "active"
  /\ lease[a].generation = registry.generation
  /\ attached

MayReserve_uncounted(mode) == registry.exclusive = None
\* #reserveSessionLease, when it does not throw.
MayReserve(mode) ==
  IF mode = "exclusive" THEN registry.count = 0 ELSE registry.exclusive = None

Released_unchecked(g, a) ==
  [g EXCEPT !.count = @ - 1,
            !.exclusive = IF @ = a THEN None ELSE @]
\* #releaseSessionLease, on the registry g.
Released(g, a) ==
  [g EXCEPT !.count = IF @ <= 1 THEN 0 ELSE @ - 1,
            !.exclusive = IF @ = a THEN None ELSE @]

Invalidated_counted(g) ==
  [g EXCEPT !.exclusive = None, !.cleanup = FALSE, !.generation = @ + 1]
\* #invalidateSessionLeases.
Invalidated(g) ==
  [g EXCEPT !.count = 0, !.exclusive = None, !.cleanup = FALSE, !.generation = @ + 1]

\* #request: the promise of a new request.
MayRequest == link = "connected" /\ sequence < MaxRequests
Request(command) ==
  /\ sequence' = sequence + 1
  /\ promise' = [promise EXCEPT ![sequence + 1] = [command |-> command, state |-> "sent"]]
NoRequest == UNCHANGED <<sequence, promise>>

\* The end of acquireSession, from where it looks at the attachment: with the lease, waiting
\* for the attach that is under way or the one it sends, or with an error when it cannot send.
\* g is the registry so far, q the acquisition.
TakeLease(a, g, q) ==
  /\ lease' = [lease EXCEPT ![a] = [q EXCEPT !.pc = "active", !.waits = 0, !.generation = g.generation]]
  /\ registry' = g
Fail(a, g) ==
  /\ lease' = [lease EXCEPT ![a] = NoLease]
  /\ registry' = Released(g, a)
Attaching(a, g, q, reconciled) ==
  \/ /\ ~reconciled /\ attached
     /\ TakeLease(a, g, q)
     /\ NoRequest
  \/ /\ reconciled \/ ~attached
     /\ g.attachment # 0
     /\ lease' = [lease EXCEPT ![a] = [q EXCEPT !.pc = "attaching", !.waits = g.attachment]]
     /\ registry' = g
     /\ NoRequest
  \/ /\ reconciled \/ ~attached
     /\ g.attachment = 0
     /\ \/ /\ MayRequest
           /\ Request("attach")
           /\ lease' = [lease EXCEPT ![a] = [q EXCEPT !.pc = "attaching", !.waits = sequence + 1]]
           /\ registry' = [g EXCEPT !.attachment = sequence + 1]
        \/ /\ link # "connected"
           /\ Fail(a, g)
           /\ NoRequest

\* acquireSession from where no detach is under way: #reconcileSessionCleanup comes first.
Reconciling(a, g, q) ==
  \/ /\ ~g.cleanup
     /\ Attaching(a, g, q, FALSE)
  \/ /\ g.cleanup
     /\ g.reconciliation # 0
     /\ lease' = [lease EXCEPT ![a] = [q EXCEPT !.pc = "reconciling", !.waits = 0]]
     /\ registry' = g
     /\ NoRequest
  \/ /\ g.cleanup
     /\ g.reconciliation = 0
     /\ \/ /\ MayRequest
           /\ Request("detach")
           /\ lease' = [lease EXCEPT ![a] = [q EXCEPT !.pc = "reconciling", !.waits = 0]]
           /\ registry' = [g EXCEPT !.reconciliation = sequence + 1]
        \/ /\ link # "connected"
           /\ Fail(a, g)
           /\ NoRequest

------------------------------------------------------------------------------
(* Acquiring a lease: acquireSession.                                      *)

Acquire_eager(a, mode) ==
  /\ lease[a].pc = "none"
  /\ link # "disposed"
  /\ MayReserve(mode)
  /\ Reconciling(a, [registry EXCEPT !.count = @ + 1,
                                     !.exclusive = IF mode = "exclusive" THEN a ELSE @],
                 [NoLease EXCEPT !.mode = mode])
  /\ UNCHANGED <<link, attached, serverAttached, inbox>>
\* The call, up to its first await.
Acquire(a, mode) ==
  LET q == [NoLease EXCEPT !.mode = mode]
      g == [registry EXCEPT !.count = @ + 1,
                            !.exclusive = IF mode = "exclusive" THEN a ELSE @]
  IN  /\ lease[a].pc = "none"
      /\ link # "disposed"
      /\ MayReserve(mode)
      /\ IF registry.detachment # 0
         THEN /\ lease' = [lease EXCEPT ![a] =
                   [q EXCEPT !.pc = "awaitDetach", !.waits = registry.detachment]]
              /\ registry' = g
              /\ NoRequest
         ELSE Reconciling(a, g, q)
      /\ UNCHANGED <<link, attached, serverAttached, inbox>>

\* The detach that was under way has ended, well or not.  Who sent it waits for it since
\* before anybody else, and goes on first.
AfterDetach(a) ==
  /\ lease[a].pc = "awaitDetach"
  /\ Settled(lease[a].waits)
  /\ \A b \in Lease : lease[b].pc = "releasing" => lease[b].waits # lease[a].waits
  /\ Reconciling(a, registry, lease[a])
  /\ UNCHANGED <<link, attached, serverAttached, inbox>>

\* The detach of #reconcileSessionCleanup has ended: the mark goes when it went well, and
\* those who wait go on or fail.
Reconciled ==
  LET ok == promise[registry.reconciliation].state = "ok"
      waiting == {a \in Lease : lease[a].pc = "reconciling"}
  IN  /\ ReconciliationEnds
      /\ registry' = [registry EXCEPT !.cleanup = @ /\ ~ok, !.reconciliation = 0]
      /\ lease' = [a \in Lease |->
           IF a \in waiting
           THEN [lease[a] EXCEPT !.pc = "reconciled", !.waits = IF ok THEN 0 ELSE registry.reconciliation]
           ELSE lease[a]]
      /\ UNCHANGED <<link, promise, sequence, attached, serverAttached, inbox>>

AfterReconciliation(a) ==
  /\ lease[a].pc = "reconciled"
  /\ IF lease[a].waits = 0
     THEN Attaching(a, registry, lease[a], TRUE)
     ELSE Fail(a, registry) /\ NoRequest
  /\ UNCHANGED <<link, attached, serverAttached, inbox>>

\* The attach has ended: #createSessionLease, with the generation of now, or the error.
AfterAttach(a) ==
  LET n == lease[a].waits
      g == [registry EXCEPT !.attachment = IF @ = n THEN 0 ELSE @]
  IN  /\ lease[a].pc = "attaching"
      /\ Settled(n)
      /\ IF promise[n].state = "ok" THEN TakeLease(a, g, lease[a]) ELSE Fail(a, g)
      /\ UNCHANGED <<link, promise, sequence, attached, serverAttached, inbox>>

------------------------------------------------------------------------------
(* Giving it back: release(), for detach() and for dispose().              *)

\* The call: the last lease detaches from the server, another one is only struck off.  A lease
\* that was invalidated is given back without a word.
Release(a, relinquish) ==
  /\ lease[a].pc = "active"
  /\ \/ /\ lease[a].generation # registry.generation
        /\ lease' = [lease EXCEPT ![a] = NoLease]
        /\ UNCHANGED registry
        /\ NoRequest
     \/ /\ Active(a) /\ link = "connected"
        /\ registry.count <= 1
        /\ MayRequest
        /\ Request("detach")
        /\ lease' = [lease EXCEPT ![a].pc = "releasing", ![a].waits = sequence + 1,
                                  ![a].relinquish = relinquish]
        /\ registry' = [registry EXCEPT !.detachment = sequence + 1]
     \/ /\ Active(a) /\ link = "connected"
        /\ registry.count > 1
        /\ Fail(a, registry)
        /\ NoRequest
  /\ UNCHANGED <<link, attached, serverAttached, inbox>>

\* The detach has ended.  After a failure an explicit detach() has its lease back, a
\* dispose() leaves the session to be cleaned up.
AfterRelease(a) ==
  LET n == lease[a].waits
      g == [registry EXCEPT !.detachment = IF @ = n THEN 0 ELSE @]
  IN  /\ lease[a].pc = "releasing"
      /\ Settled(n)
      /\ \/ /\ promise[n].state = "ok"
            /\ Fail(a, g)
         \/ /\ promise[n].state = "error"
            /\ lease[a].generation # registry.generation
            /\ lease' = [lease EXCEPT ![a] = NoLease]
            /\ registry' = g
         \/ /\ promise[n].state = "error"
            /\ lease[a].generation = registry.generation
            /\ IF lease[a].relinquish
               THEN /\ lease' = [lease EXCEPT ![a] = NoLease]
                    /\ registry' = [Released(g, a) EXCEPT !.cleanup = TRUE]
               ELSE /\ lease' = [lease EXCEPT ![a].pc = "active", ![a].waits = 0]
                    /\ registry' = g
      /\ UNCHANGED <<link, promise, sequence, attached, serverAttached, inbox>>

------------------------------------------------------------------------------
(* The connection.                                                         *)

Connect ==
  /\ link = "disconnected"
  /\ link' = "connecting"
  /\ attached' = FALSE
  /\ UNCHANGED <<promise, sequence, lease, registry, serverAttached, inbox>>

\* The server hello, from the network: whoever waited for anything of before has gone on.
Connected ==
  /\ link = "connecting"
  /\ TaskIsOver
  /\ link' = "connected"
  /\ attached' = FALSE
  /\ UNCHANGED <<promise, sequence, lease, registry, serverAttached, inbox>>

Break_silent(to) ==
  /\ "break" \in Faults
  /\ link \in {"connecting", "connected"}
  /\ registry.generation < MaxBreaks
  /\ link' = to
  /\ attached' = FALSE
  /\ registry' = Invalidated(registry)
  /\ serverAttached' = FALSE
  /\ inbox' = <<>>
  /\ UNCHANGED <<promise, sequence, lease>>
\* The connection breaks or is closed, or the client is disposed: all leases are
\* invalidated (those of a session with a count), all requests rejected.
Break(to) ==
  /\ "break" \in Faults
  /\ link \in {"connecting", "connected"}
  /\ "chunk" \in Faults \/ TaskIsOver
  /\ registry.generation < MaxBreaks
  /\ link' = to
  /\ attached' = FALSE
  /\ LET g == [registry EXCEPT !.cleanup = FALSE, !.crossed = @ \/ ~TaskIsOver]
     IN  registry' = IF registry.count = 0 THEN g ELSE Invalidated(g)
  /\ promise' = [n \in Ids |-> IF promise[n].state \in {"sent", "done", "refused"}
                               THEN [promise[n] EXCEPT !.state = "error"] ELSE promise[n]]
  /\ serverAttached' = FALSE
  /\ inbox' = <<>>
  /\ UNCHANGED <<sequence, lease>>

\* The next message: #handleMessage.
Receive ==
  LET m == Head(inbox)
      g == [registry EXCEPT !.crossed = @ \/ ~TaskIsOver]
  IN  /\ link = "connected"
      /\ inbox # <<>>
      /\ "chunk" \in Faults \/ TaskIsOver
      /\ inbox' = Tail(inbox)
      /\ CASE m.type = "snapshot" ->
                /\ attached' = m.attached
                /\ registry' = g
                /\ UNCHANGED promise
           [] m.type = "removed" ->
                /\ attached' = FALSE
                /\ registry' = [Invalidated(g) EXCEPT !.crossed =
                                 @ \/ \E a \in Lease : lease[a].pc \notin {"none", "active"}]
                /\ UNCHANGED promise
           [] m.type = "response" ->
                /\ promise' = [promise EXCEPT ![m.id].state = IF m.ok THEN "ok" ELSE "error"]
                /\ attached' = IF m.ok THEN m.attached ELSE attached
                /\ registry' = g
      /\ UNCHANGED <<link, sequence, lease, serverAttached>>

------------------------------------------------------------------------------
(* The server, seen from here.                                             *)

\* It does what a request asks, or refuses to.
Serve(n, ok) ==
  /\ link = "connected"
  /\ promise[n].state = "sent"
  /\ promise' = [promise EXCEPT ![n].state = IF ok THEN "done" ELSE "refused"]
  /\ serverAttached' = IF ok THEN promise[n].command = "attach" ELSE serverAttached
  /\ UNCHANGED <<link, sequence, lease, registry, attached, inbox>>

\* The answer; a session snapshot says whether the connection is attached now.
Respond(n) ==
  /\ promise[n].state \in {"done", "refused"}
  /\ \A i \in 1 .. Len(inbox) : inbox[i].type = "response" => inbox[i].id # n
  /\ inbox' = Append(inbox, [type |-> "response", id |-> n, ok |-> promise[n].state = "done",
                             attached |-> promise[n].command = "attach" /\ serverAttached])
  /\ UNCHANGED <<link, promise, sequence, lease, registry, attached, serverAttached>>

\* A server snapshot.
Announce ==
  /\ link = "connected"
  /\ Len(inbox) < MaxInbox
  /\ inbox' = Append(inbox, [type |-> "snapshot", attached |-> serverAttached])
  /\ UNCHANGED <<link, promise, sequence, lease, registry, attached, serverAttached>>

\* The session is removed.
Remove ==
  /\ link = "connected"
  /\ Len(inbox) < MaxInbox
  /\ "removal" \in Faults
  /\ serverAttached
  /\ registry.generation + Len(SelectSeq(inbox, LAMBDA m : m.type = "removed")) < MaxBreaks
  /\ inbox' = Append(inbox, [type |-> "removed"])
  /\ serverAttached' = FALSE
  /\ UNCHANGED <<link, promise, sequence, lease, registry, attached>>

------------------------------------------------------------------------------
LeaseStep(a) ==
  AfterDetach(a) \/ AfterReconciliation(a) \/ AfterAttach(a) \/ AfterRelease(a)
Serves == \E n \in Ids : (\E ok \in BOOLEAN : Serve(n, ok)) \/ Respond(n)

Next ==
  \/ \E a \in Lease : (\E mode \in Modes : Acquire(a, mode)) \/ LeaseStep(a)
  \/ \E a \in Lease : \E relinquish \in BOOLEAN : Release(a, relinquish)
  \/ Reconciled
  \/ Connect \/ Connected \/ Receive
  \/ \E to \in {"disconnected", "disposed"} : Break(to)
  \/ Serves \/ Announce \/ Remove

Fairness ==
  /\ \A a \in Lease : WF_vars(LeaseStep(a))
  /\ WF_vars(Reconciled) /\ WF_vars(Connected) /\ WF_vars(Receive) /\ WF_vars(Serves)

Spec == Init /\ [][Next]_vars
FairSpec == Spec /\ Fairness

------------------------------------------------------------------------------
(* Properties.                                                             *)

\* "Exclusive acquisition fails while any lease exists, and shared acquisition fails while an
\* exclusive lease exists" (README of the client): whoever uses an exclusive lease is alone.
\* Unless a removal or a message of the same chunk crossed it, as in the next ones.
ExclusiveIsAlone ==
  ~registry.crossed =>
    \A a, b \in Lease : Active(a) /\ Active(b) /\ lease[a].mode = "exclusive" => a = b

\* The leases that hold a place in the count: acquisitions under way, leases in use
\* and leases being given back, unless they were invalidated.
Holding(a) ==
  \/ a \in Acquiring
  \/ lease[a].pc \in {"active", "releasing"} /\ lease[a].generation = registry.generation

\* The count, which decides who detaches, never exceeds the leases that are held: the last
\* one to be given back sees that it is the last.
CountIsHeld ==
  \A n \in 1 .. registry.count : \E S \in SUBSET Lease :
    /\ \A a \in S : Holding(a)
    /\ \E f \in [1 .. n -> S] : \A i, j \in 1 .. n : f[i] = f[j] => i = j

\* The requests of a kind that are on their way.
InFlight(command) ==
  {n \in Ids : promise[n].command = command /\ promise[n].state \in {"sent", "done", "refused"}}

\* A detach is never asked for while somebody uses the session: what the server detaches
\* is nobody's (the test "detaches a shared session only after its final lease is released").
NobodyIsCutOff ==
  ~registry.crossed =>
    \A n \in InFlight("detach") : \A a \in Lease : ~Active(a)

\* An acquisition ends: with the lease or with an error, through every detach, reconciliation
\* and break it meets.
AcquisitionsEnd ==
  \A a \in Lease :
    a \in Acquiring ~>
      lease[a].pc \in {"active", "none"} \/ sequence = MaxRequests
==============================================================================
