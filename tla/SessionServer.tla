---------------------------- MODULE SessionServer ----------------------------
(***************************************************************************)
(* The session server of the Clara agent (packages/server): PiServer,      *)
(* LiveSessionManager and ServerSnapshotPublisher.  Clients hold           *)
(* connections; a connection attaches to sessions; every session in use    *)
(* has one runtime, acquired from the backend when the first client        *)
(* attaches and disposed when the last has gone and no work is left.       *)
(*                                                                         *)
(* The server is a single thread: an action is what runs between two       *)
(* awaits.  A request is a process with a program counter; connections,    *)
(* the publisher and the backend are the other actors.                     *)
(***************************************************************************)
EXTENDS Naturals

CONSTANTS
  Conn,      \* connections; one that has closed does not come back
  Session,   \* session ids
  Req,       \* slots for the requests in flight
  Runtime,   \* slots for the runtimes the backend hands out
  None,
  Greeted,   \* the connections that have shaken hands at the start
  Seeded,    \* the sessions the backend has stored at the start
  Faults     \* which may happen: the backend refuses to "open", has no "snapshot", a runtime
             \* reports an "error", the server is asked to "close"

ASSUME NoneAssumption == None \notin Req \cup Runtime
ASSUME SeededAssumption == Greeted \subseteq Conn /\ Seeded \subseteq Session
ASSUME FaultsAssumption == Faults \subseteq {"open", "snapshot", "error", "close"}

VARIABLES
  connection,  \* [Conn -> ConnectionState]
  request,     \* [Req -> a request being handled]
  runtime,     \* [Runtime -> the runtime and its LiveSession]
  liveSessions,    \* [Session -> Runtime or None]
  openingSessions, \* [Session -> the request that opens it, or None]
  stored,      \* the sessions the backend has
  publisher,   \* the broadcast queue of server snapshots
  server       \* the shutdown of the server

vars == <<connection, request, runtime, liveSessions, openingSessions,
          stored, publisher, server>>

Stages == {"awaitingHello", "handshaking", "listed", "late", "ready", "closing", "closed"}
Commands == {"create", "attach", "detach", "prompt", "control"}

NoView == [known |-> {}, attached |-> {}]
NewConnection == [stage |-> "awaitingHello", sessionIds |-> {}, greeted |-> FALSE,
                  missed |-> FALSE, view |-> NoView]
NoRequest == [conn |-> None, command |-> "none", session |-> None,
              pc |-> "free", live |-> None]
NoRuntime == [session |-> None, state |-> "free", connections |-> {}, operations |-> {},
              turn |-> None, terminal |-> FALSE, disposing |-> FALSE, closes |-> {}]

TypeOK ==
  /\ connection \in [Conn -> [stage : Stages, sessionIds : SUBSET Session,
                              greeted : BOOLEAN, missed : BOOLEAN,
                              view : [known : SUBSET Session, attached : SUBSET Session]]]
  /\ request \in [Req -> [conn : Conn \cup {None}, command : Commands \cup {"none"},
                          session : Session \cup {None},
                          pc : {"free", "awaitGone", "awaitOpen", "open", "register",
                                "discard", "attach", "attached", "detaching", "detached",
                                "operating", "operated"},
                          live : Runtime \cup {None}]]
  /\ runtime \in [Runtime -> [session : Session \cup {None},
                              state : {"free", "acquired", "live", "gone"},
                              connections : SUBSET Conn, operations : SUBSET Req,
                              turn : Req \cup {None}, terminal : BOOLEAN,
                              disposing : BOOLEAN, closes : SUBSET Conn]]
  /\ liveSessions \in [Session -> Runtime \cup {None}]
  /\ openingSessions \in [Session -> Req \cup {None}]
  /\ stored \in SUBSET Session
  /\ publisher \in [asked : BOOLEAN, to : SUBSET Conn]
  /\ server \in [closing : {"no", "connections", "sessions", "runtimes", "closed"},
                 awaited : SUBSET Req]

Init ==
  /\ connection = [c \in Conn |->
       IF c \in Greeted
       THEN [NewConnection EXCEPT !.stage = "ready", !.greeted = TRUE, !.view.known = Seeded]
       ELSE NewConnection]
  /\ request = [r \in Req |-> NoRequest]
  /\ runtime = [l \in Runtime |-> NoRuntime]
  /\ liveSessions = [s \in Session |-> None]
  /\ openingSessions = [s \in Session |-> None]
  /\ stored = Seeded
  /\ publisher = [asked |-> FALSE, to |-> {}]
  /\ server = [closing |-> "no", awaited |-> {}]

------------------------------------------------------------------------------
(* Helpers.                                                                *)

isClosing == server.closing # "no"

\* connection.stage === "ready"; "late" is a connection that is ready and about to be sent
\* the snapshot it missed during its handshake.
Ready(c) == connection[c].stage \in {"late", "ready"}

\* A disposed runtime nobody refers to: its slot stands for a runtime not yet handed out.
Unused(l) ==
  /\ runtime[l].state \in {"free", "gone"}
  /\ \A r \in Req : request[r].live # l
  /\ \A s \in Session : liveSessions[s] # l

Tidied_unwatched(o) ==
  IF ~isClosing /\ ~o.disposing /\ o.connections = {}
  THEN [o EXCEPT !.disposing = TRUE] ELSE o
\* maybeDispose up to its first await: the live session becomes disposing, and the
\* runtime's dispose() has begun, when nothing needs it any more.
Tidied(o) ==
  IF /\ ~isClosing
     /\ ~o.disposing
     /\ o.connections = {}
     /\ o.operations = {}
     /\ o.terminal \/ o.turn = None
  THEN [o EXCEPT !.disposing = TRUE]
  ELSE o

\* broadcastServerSnapshot(): a broadcast is queued behind the one being sent.
AskBroadcast == publisher' = [publisher EXCEPT !.asked = TRUE]

\* listSummaries(c): what a server snapshot tells connection c.
Serving(s) == liveSessions[s] # None /\ ~runtime[liveSessions[s]].disposing
View(c) == [known |-> stored \cup {s \in Session : Serving(s)},
            attached |-> {s \in connection[c].sessionIds : Serving(s)}]

Goto(r, pc) == request' = [request EXCEPT ![r].pc = pc]

\* The response is sent and the slot is free again.
Answer(r) == request' = [request EXCEPT ![r] = NoRequest]

\* sessions.disconnect() for the connections of C, the synchronous part: they leave the live
\* sessions their ids name, and each of those may be disposed.
Left(C) ==
  LET held == {liveSessions[s] : s \in UNION {connection[c].sessionIds : c \in C}}
  IN  [l \in Runtime |->
        IF l \in held
        THEN Tidied([runtime[l] EXCEPT !.connections =
                       @ \ {c \in C : runtime[l].session \in connection[c].sessionIds}])
        ELSE runtime[l]]

Shut(C) == [c \in Conn |->
              IF c \in C
              THEN [connection[c] EXCEPT !.stage = "closed", !.sessionIds = {}]
              ELSE connection[c]]

\* disconnect() of every connection of C that is not disconnected yet, with the
\* broadcast at its end.
Disconnected(C) ==
  LET open == {c \in C : connection[c].stage # "closed"}
  IN  /\ connection' = Shut(open)
      /\ publisher' = [publisher EXCEPT !.asked =
                         @ \/ (~isClosing /\ \E c \in open : connection[c].greeted)]

\* Continuations of promises that are settled run before the next event from outside: an acquire
\* whose session is there, or whose wait for a disposal is over, goes on before a client is
\* heard again.
TaskIsOver ==
  \A r \in Req : /\ request[r].pc # "attach"
                 /\ request[r].pc = "awaitGone" => runtime[request[r].live].state # "gone"

------------------------------------------------------------------------------
(* Connections.                                                            *)

\* The first message is a good hello: finishHandshake reads the revision of the
\* snapshot and waits for the list of sessions.
Hello(c) ==
  /\ connection[c].stage = "awaitingHello"
  /\ ~isClosing /\ TaskIsOver
  /\ connection' = [connection EXCEPT ![c].stage = "handshaking", ![c].missed = FALSE]
  /\ UNCHANGED <<request, runtime, liveSessions, openingSessions, stored, publisher, server>>

\* The list is complete and the server hello is being sent with it.
HelloListed(c) ==
  /\ connection[c].stage = "handshaking"
  /\ ~isClosing
  /\ connection' = [connection EXCEPT ![c].stage = "listed", ![c].view = View(c)]
  /\ UNCHANGED <<request, runtime, liveSessions, openingSessions, stored, publisher, server>>

\* The hello is sent: the connection is ready, and gets one more snapshot when the
\* revision has moved since.
HelloSent(c) ==
  /\ connection[c].stage = "listed"
  /\ connection' = [connection EXCEPT ![c].greeted = TRUE,
                      ![c].stage = IF connection[c].missed THEN "late" ELSE "ready"]
  /\ UNCHANGED <<request, runtime, liveSessions, openingSessions, stored, publisher, server>>

CatchUp(c) ==
  /\ connection[c].stage = "late"
  /\ connection' = [connection EXCEPT ![c].stage = "ready", ![c].view = View(c)]
  /\ UNCHANGED <<request, runtime, liveSessions, openingSessions, stored, publisher, server>>

\* A frame that cannot be decoded, a second hello, a bad token or version, a handshake that
\* takes too long: the final frame is written before the connection is disconnected.
FailProtocol(c) ==
  /\ connection[c].stage \notin {"closing", "closed"}
  /\ TaskIsOver
  /\ connection' = [connection EXCEPT ![c].stage = "closing"]
  /\ UNCHANGED <<request, runtime, liveSessions, openingSessions, stored, publisher, server>>

\* The transport has closed, by the client, by an error or by closeConnection.
Disconnect(c) ==
  /\ connection[c].stage # "closed"
  /\ TaskIsOver
  /\ runtime' = Left({c})
  /\ Disconnected({c})
  /\ UNCHANGED <<request, liveSessions, openingSessions, stored, server>>

------------------------------------------------------------------------------
(* Requests: executeCommand.                                               *)

AcquireTurn_unshared(r, q) ==
  LET live == liveSessions[q.session]
      goes(pc) == request' = [request EXCEPT ![r] = [q EXCEPT !.pc = pc, !.live = live]]
  IN  IF live = None
      THEN openingSessions' = [openingSessions EXCEPT ![q.session] = r] /\ goes("open")
      ELSE /\ IF runtime[live].terminal THEN Answer(r)
              ELSE goes(IF runtime[live].disposing THEN "awaitGone" ELSE "attach")
           /\ UNCHANGED openingSessions
\* One turn of the loop of acquire(), for request r as it is in q: the session is live, is being
\* disposed, is being opened by another request, or is opened by this one.
AcquireTurn(r, q) ==
  LET s == q.session
      live == liveSessions[s]
      goes(pc) == request' = [request EXCEPT ![r] = [q EXCEPT !.pc = pc, !.live = live]]
  IN  \/ /\ live # None
         /\ IF runtime[live].terminal THEN Answer(r)
            ELSE goes(IF runtime[live].disposing THEN "awaitGone" ELSE "attach")
         /\ UNCHANGED openingSessions
      \/ /\ live = None /\ openingSessions[s] # None
         /\ goes("awaitOpen")
         /\ UNCHANGED openingSessions
      \/ /\ live = None /\ openingSessions[s] = None
         /\ openingSessions' = [openingSessions EXCEPT ![s] = r]
         /\ goes("open")

Request(c, r, command, s) ==
  /\ Ready(c)
  /\ TaskIsOver
  /\ request[r].pc = "free"
  /\ command = "create" => s \notin stored /\ \A q \in Req : request[q].session # s
  /\ command # "create" => \A q \in Req : ~(request[q].command = "create" /\ request[q].session = s)
  /\ LET new == [conn |-> c, command |-> command, session |-> s, pc |-> "free", live |-> None]
         live == liveSessions[s]
         attached == s \in connection[c].sessionIds
     IN  \/ /\ command \in {"create", "attach"}
            /\ AcquireTurn(r, new)
            /\ UNCHANGED <<connection, runtime, publisher>>
         \* detach: what is done before the first await.
         \/ /\ command = "detach"
            /\ attached
            /\ connection' = [connection EXCEPT ![c].sessionIds = @ \ {s}]
            /\ IF live = None
               THEN AskBroadcast /\ UNCHANGED <<request, runtime>>
               ELSE LET left == [runtime[live] EXCEPT !.connections = @ \ {c}]
                        told == left.connections # {} /\ ~left.terminal /\ ~left.disposing
                    IN  /\ runtime' = [runtime EXCEPT ![live] = IF told THEN left ELSE Tidied(left)]
                        /\ request' = [request EXCEPT ![r] =
                             [new EXCEPT !.live = live, !.pc = IF told THEN "detaching" ELSE "detached"]]
                        /\ UNCHANGED publisher
            /\ UNCHANGED openingSessions
         \* prompt; steer, abort, set_model and set_thinking: requireAttached, then
         \* runOperation up to the call of the runtime, which rejects a prompt when busy.
         \/ /\ command \in {"prompt", "control"}
            /\ attached
            /\ live # None
            /\ ~runtime[live].terminal /\ ~runtime[live].disposing
            /\ LET runs == command = "prompt" /\ runtime[live].turn = None
               IN  /\ runtime' = [runtime EXCEPT ![live].operations = @ \cup {r},
                                                 ![live].turn = IF runs THEN r ELSE @]
                   /\ request' = [request EXCEPT ![r] =
                        [new EXCEPT !.live = live, !.pc = IF runs THEN "operating" ELSE "operated"]]
            /\ UNCHANGED <<connection, publisher, openingSessions>>
  /\ UNCHANGED <<liveSessions, stored, server>>

\* await existing.disposing, then the loop goes round.
AcquireAgain(r) ==
  /\ request[r].pc = "awaitGone"
  /\ runtime[request[r].live].state = "gone"
  /\ AcquireTurn(r, [request[r] EXCEPT !.live = None])
  /\ UNCHANGED <<connection, runtime, liveSessions, stored, publisher, server>>

OpeningFails_alone(r) ==
  /\ Answer(r)
  /\ openingSessions' = [openingSessions EXCEPT ![request[r].session] = None]
\* The promise of the opening is rejected: everybody who waits for it answers with the error.
OpeningFails(r) ==
  LET s == request[r].session
  IN  /\ request' = [q \in Req |->
                       IF q = r \/ (request[q].pc = "awaitOpen" /\ request[q].session = s)
                       THEN NoRequest ELSE request[q]]
      /\ openingSessions' = [openingSessions EXCEPT ![s] = None]

\* The backend keeps the lock of a session until its runtime is disposed.
Locked(s) == \E l \in Runtime : runtime[l].session = s /\ runtime[l].state \in {"acquired", "live"}

\* create(): the backend refuses.
OpenRejected(r) ==
  /\ request[r].pc = "open"
  /\ \/ "open" \in Faults
     \/ Locked(request[r].session)
     \/ request[r].command = "attach" /\ request[r].session \notin stored
  /\ OpeningFails(r)
  /\ UNCHANGED <<connection, runtime, liveSessions, stored, publisher, server>>

\* create(): the backend hands out a runtime; a server that closes disposes it, and waits for that.
Opened(r, l) ==
  LET s == request[r].session
  IN  /\ request[r].pc = "open"
      /\ ~Locked(s)
      /\ request[r].command = "attach" => s \in stored
      /\ Unused(l)
      /\ stored' = stored \cup {s}
      /\ runtime' = [runtime EXCEPT ![l] = [NoRuntime EXCEPT !.session = s, !.state = "acquired"]]
      /\ request' = [request EXCEPT ![r].pc = IF isClosing THEN "discard" ELSE "register",
                                    ![r].live = l]
      /\ UNCHANGED <<connection, liveSessions, openingSessions, publisher, server>>

Register_swapped(r) ==
  LET s == request[r].session
      l == request[r].live
  IN  /\ request[r].pc = "register"
      /\ runtime' = [runtime EXCEPT ![l].state = "live"]
      /\ openingSessions' = [openingSessions EXCEPT ![s] = l]
      /\ Answer(r)
      /\ UNCHANGED <<connection, liveSessions, stored, publisher, server>>
\* create(): the first snapshot has come; the session is live, and the promise that
\* everybody waits for is resolved.
Register(r) ==
  LET s == request[r].session
      l == request[r].live
  IN  /\ request[r].pc = "register"
      /\ runtime' = [runtime EXCEPT ![l].state = "live"]
      /\ liveSessions' = [liveSessions EXCEPT ![s] = l]
      /\ openingSessions' = [openingSessions EXCEPT ![s] = None]
      /\ request' = [q \in Req |->
                       IF q = r \/ (request[q].pc = "awaitOpen" /\ request[q].session = s)
                       THEN [request[q] EXCEPT !.pc = "attach", !.live = l] ELSE request[q]]
      /\ UNCHANGED <<connection, stored, publisher, server>>

\* create(): the first snapshot fails or has another id, and the runtime is being disposed.
RegisterFails(r) ==
  /\ request[r].pc = "register"
  /\ "snapshot" \in Faults
  /\ Goto(r, "discard")
  /\ UNCHANGED <<connection, runtime, liveSessions, openingSessions, stored, publisher, server>>

\* create(): a runtime that did not come to use is disposed.
Discarded(r) ==
  /\ request[r].pc = "discard"
  /\ runtime' = [runtime EXCEPT ![request[r].live].state = "gone"]
  /\ OpeningFails(r)
  /\ UNCHANGED <<connection, liveSessions, stored, publisher, server>>

\* attach(): the connection may have gone while the session was opened.
Attach(r) ==
  LET c == request[r].conn
      l == request[r].live
  IN  /\ request[r].pc = "attach"
      /\ IF Ready(c)
         THEN /\ connection' = [connection EXCEPT ![c].sessionIds = @ \cup {runtime[l].session}]
              /\ runtime' = [runtime EXCEPT ![l].connections = @ \cup {c}]
              /\ Goto(r, "attached")
         ELSE /\ runtime' = [runtime EXCEPT ![l] = Tidied(@)]
              /\ Answer(r)
              /\ UNCHANGED connection
      /\ UNCHANGED <<liveSessions, openingSessions, stored, publisher, server>>

Attached_quietly(r) ==
  /\ request[r].pc = "attached"
  /\ Answer(r)
  /\ UNCHANGED <<connection, runtime, liveSessions, openingSessions, stored, publisher, server>>
\* The snapshot for the attached clients is there: it is sent, the server snapshot is asked
\* for and the request answered.
Attached(r) ==
  /\ request[r].pc = "attached"
  /\ Answer(r)
  /\ AskBroadcast
  /\ UNCHANGED <<connection, runtime, liveSessions, openingSessions, stored, server>>

\* The runtime has no snapshot to give: the answer is the error, the attachment stays.
AttachedUntold(r) ==
  /\ request[r].pc = "attached"
  /\ "snapshot" \in Faults
  /\ Answer(r)
  /\ UNCHANGED <<connection, runtime, liveSessions, openingSessions, stored, publisher, server>>

\* detach(): the others were sent their snapshot.
Detaching(r) ==
  /\ request[r].pc = "detaching"
  /\ runtime' = [runtime EXCEPT ![request[r].live] = Tidied(@)]
  /\ Goto(r, "detached")
  /\ UNCHANGED <<connection, liveSessions, openingSessions, stored, publisher, server>>

\* detach(): there is no snapshot for the others: the answer is the error, and nobody is told.
DetachingUntold(r) ==
  /\ request[r].pc = "detaching"
  /\ "snapshot" \in Faults
  /\ Answer(r)
  /\ UNCHANGED <<connection, runtime, liveSessions, openingSessions, stored, publisher, server>>

\* detach(): the end, which waits for the disposal it may have begun.
Detached(r) ==
  /\ request[r].pc = "detached"
  /\ LET o == runtime[request[r].live] IN o.disposing => o.state = "gone"
  /\ Answer(r)
  /\ AskBroadcast
  /\ UNCHANGED <<connection, runtime, liveSessions, openingSessions, stored, server>>

Operated_untidied(r) ==
  /\ request[r].pc = "operated"
  /\ runtime' = [runtime EXCEPT ![request[r].live].operations = @ \ {r}]
  /\ Answer(r)
  /\ UNCHANGED <<connection, liveSessions, openingSessions, stored, publisher, server>>
\* runOperation: the call of the runtime has ended, well or not.
Operated(r) ==
  LET l == request[r].live
  IN  /\ request[r].pc = "operated"
      /\ runtime' = [runtime EXCEPT ![l] = Tidied([runtime[l] EXCEPT !.operations = @ \ {r}])]
      /\ Answer(r)
      /\ UNCHANGED <<connection, liveSessions, openingSessions, stored, publisher, server>>

------------------------------------------------------------------------------
(* Runtimes.                                                               *)

\* The turn that a prompt started ends, completed or aborted, and an event says so; the
\* server hears it as long as it is subscribed.
TurnEnds(l) ==
  LET idle == [runtime[l] EXCEPT !.turn = None]
  IN  /\ runtime[l].state = "live"
      /\ runtime[l].turn # None
      /\ runtime' = [runtime EXCEPT ![l] = IF idle.terminal THEN idle ELSE Tidied(idle)]
      /\ Goto(runtime[l].turn, "operated")
      /\ UNCHANGED <<connection, liveSessions, openingSessions, stored, publisher, server>>

\* terminate(): the runtime reports an error; the connections that are attached now are
\* going to be closed.
RuntimeError(l) ==
  /\ "error" \in Faults
  /\ runtime[l].state = "live"
  /\ ~runtime[l].terminal /\ ~runtime[l].disposing
  /\ server.closing \notin {"runtimes", "closed"}
  /\ runtime' = [runtime EXCEPT ![l] =
       LET dead == [runtime[l] EXCEPT !.terminal = TRUE, !.closes = runtime[l].connections]
       IN  IF dead.closes = {} THEN Tidied(dead) ELSE dead]
  /\ UNCHANGED <<connection, request, liveSessions, openingSessions, stored, publisher, server>>

\* terminate(): their transports are closed; they are disconnected, and the runtime goes.
Terminate(l) ==
  /\ runtime[l].closes # {}
  /\ LET C == {c \in runtime[l].closes : connection[c].stage # "closed"}
         left == [Left(C) EXCEPT ![l].closes = {}]
     IN  runtime' = [left EXCEPT ![l] = Tidied(@)]
  /\ Disconnected(runtime[l].closes)
  /\ UNCHANGED <<request, liveSessions, openingSessions, stored, server>>

\* runtime.dispose() has ended: the entry goes, when it is still that of this session.
Dispose(l) ==
  LET s == runtime[l].session
  IN  /\ runtime[l].disposing
      /\ runtime[l].state = "live"
      /\ runtime' = [runtime EXCEPT ![l].state = "gone"]
      /\ liveSessions' = [liveSessions EXCEPT ![s] = IF @ = l THEN None ELSE @]
      /\ publisher' = [publisher EXCEPT !.asked = @ \/ ~isClosing]
      /\ UNCHANGED <<connection, request, openingSessions, stored, server>>

------------------------------------------------------------------------------
(* Server snapshots: performBroadcast.                                     *)

\* The connections that are ready now get the next revision.  With none, or when the
\* server closes, there is none.
Broadcast ==
  LET ready == {c \in Conn : Ready(c)}
  IN  /\ publisher.asked
      /\ publisher.to = {}
      /\ IF ready = {} \/ isClosing
         THEN /\ publisher' = [publisher EXCEPT !.asked = FALSE]
              /\ UNCHANGED connection
         ELSE /\ publisher' = [asked |-> FALSE, to |-> ready]
              /\ connection' = [c \in Conn |->
                   IF connection[c].stage \in {"handshaking", "listed"}
                   THEN [connection[c] EXCEPT !.missed = TRUE] ELSE connection[c]]
      /\ UNCHANGED <<request, runtime, liveSessions, openingSessions, stored, server>>

\* The list for one of them is made and sent.
Send(c) ==
  /\ c \in publisher.to
  /\ publisher' = [publisher EXCEPT !.to = @ \ {c}]
  /\ connection' = [connection EXCEPT ![c].view =
                      IF connection[c].stage = "closed" THEN @ ELSE View(c)]
  /\ UNCHANGED <<request, runtime, liveSessions, openingSessions, stored, server>>

\* A runtime has no snapshot for the list: those who did not get theirs are left out.
BroadcastFails ==
  /\ publisher.to # {}
  /\ "snapshot" \in Faults
  /\ publisher' = [publisher EXCEPT !.to = {}]
  /\ UNCHANGED <<connection, request, runtime, liveSessions, openingSessions, stored, server>>

------------------------------------------------------------------------------
(* Shutdown: close(), closeServerState() and LiveSessionManager.close().   *)

Close ==
  /\ "close" \in Faults
  /\ server.closing = "no"
  /\ TaskIsOver
  /\ server' = [server EXCEPT !.closing = "connections"]
  /\ UNCHANGED <<connection, request, runtime, liveSessions, openingSessions, stored, publisher>>

\* All connections are closed and disconnected; then the openings that are under way are waited for.
CloseConnections ==
  /\ server.closing = "connections"
  /\ runtime' = Left(Conn)
  /\ Disconnected(Conn)
  /\ server' = [closing |-> "sessions",
                awaited |-> {openingSessions[s] : s \in Session} \ {None}]
  /\ UNCHANGED <<request, liveSessions, openingSessions, stored>>

CloseSessions_now ==
  LET live == {liveSessions[s] : s \in Session} \ {None}
  IN  /\ server.closing = "sessions"
      /\ liveSessions' = [s \in Session |-> None]
      /\ runtime' = [l \in Runtime |->
           IF l \in live /\ ~runtime[l].disposing
           THEN [runtime[l] EXCEPT !.disposing = TRUE] ELSE runtime[l]]
      /\ server' = [server EXCEPT !.closing = "runtimes"]
      /\ UNCHANGED <<connection, request, openingSessions, stored, publisher>>
\* The live sessions are forgotten and those that are not being disposed are.
CloseSessions ==
  LET live == {liveSessions[s] : s \in Session} \ {None}
  IN  /\ server.closing = "sessions"
      /\ \A r \in server.awaited : request[r].pc \notin {"open", "register", "discard"}
      /\ liveSessions' = [s \in Session |-> None]
      /\ runtime' = [l \in Runtime |->
           IF l \in live /\ ~runtime[l].disposing
           THEN [runtime[l] EXCEPT !.disposing = TRUE] ELSE runtime[l]]
      /\ server' = [server EXCEPT !.closing = "runtimes"]
      /\ UNCHANGED <<connection, request, openingSessions, stored, publisher>>

Closed ==
  /\ server.closing = "runtimes"
  /\ \A l \in Runtime : runtime[l].disposing => runtime[l].state = "gone"
  /\ server' = [server EXCEPT !.closing = "closed"]
  /\ UNCHANGED <<connection, request, runtime, liveSessions, openingSessions, stored, publisher>>

------------------------------------------------------------------------------
ConnectionStep(c) == Hello(c) \/ HelloListed(c) \/ HelloSent(c) \/ CatchUp(c) \/ Send(c)
RequestStep(r) ==
  \/ AcquireAgain(r) \/ OpenRejected(r) \/ (\E l \in Runtime : Opened(r, l))
  \/ Register(r) \/ RegisterFails(r) \/ Discarded(r) \/ Attach(r) \/ Attached(r) \/ AttachedUntold(r)
  \/ Detaching(r) \/ DetachingUntold(r) \/ Detached(r) \/ Operated(r)
RuntimeStep(l) == TurnEnds(l) \/ Terminate(l) \/ Dispose(l)
ServerStep == Broadcast \/ CloseConnections \/ CloseSessions \/ Closed

Next ==
  \/ \E c \in Conn : ConnectionStep(c) \/ FailProtocol(c) \/ Disconnect(c)
  \/ \E c \in Conn : \E r \in Req : \E command \in Commands : \E s \in Session :
       Request(c, r, command, s)
  \/ \E r \in Req : RequestStep(r)
  \/ \E l \in Runtime : RuntimeStep(l) \/ RuntimeError(l)
  \/ ServerStep \/ Close \/ BroadcastFails

Fairness ==
  /\ \A c \in Conn : WF_vars(ConnectionStep(c))
  /\ \A r \in Req : WF_vars(RequestStep(r))
  /\ \A l \in Runtime : WF_vars(RuntimeStep(l))
  /\ WF_vars(ServerStep)

Spec == Init /\ [][Next]_vars
FairSpec == Spec /\ Fairness

------------------------------------------------------------------------------
(* Safety.                                                                 *)

\* A session is not opened against the server's own lock: when the backend is asked for a
\* session, the runtime it had before is disposed (the wait for disposing in acquire).
NeverLockedOut ==
  \A r \in Req : request[r].pc = "open" => ~Locked(request[r].session)

\* No runtime is left over: one that nobody is attached to and that does nothing is being
\* disposed, unless a request is about to attach to it (every call of maybeDispose).
NoIdleRuntime ==
  \A l \in Runtime :
    /\ runtime[l].state = "live"
    /\ runtime[l].connections = {}
    /\ runtime[l].operations = {}
    /\ ~isClosing
    => \/ runtime[l].disposing
       \/ \E r \in Req : request[r].live = l /\ request[r].pc = "attach"

\* The shutdown leaves nothing behind: when close() is over, no runtime is live, and one is
\* held only by an opening that began after close() had listed the openings it waits for, and that
\* is disposing of it (the wait for openingSessions, the check in create()).
NothingLeftBehind ==
  server.closing = "closed" =>
    \A l \in Runtime :
      /\ runtime[l].state # "live"
      /\ runtime[l].state = "acquired" =>
           \E r \in Req \ server.awaited : request[r].pc = "discard" /\ request[r].live = l

\* At rest every client was told truly which sessions it is attached to, those included
\* whose handshake crossed a change (broadcast, the revision check of finishHandshake), as long
\* as no snapshot fails.
AtRest ==
  /\ ~isClosing
  /\ ~publisher.asked /\ publisher.to = {}
  /\ \A r \in Req : request[r].pc \in {"free", "operating"}
  /\ \A c \in Conn : connection[c].stage \in {"awaitingHello", "ready", "closed"}
  /\ \A l \in Runtime : runtime[l].closes = {} /\ (runtime[l].disposing => runtime[l].state = "gone")
AttachmentsTold ==
  AtRest /\ "snapshot" \notin Faults => \A c \in Conn : connection[c].stage = "ready" =>
    /\ connection[c].view.attached \subseteq View(c).attached
    /\ \A l \in Runtime :
         c \in runtime[l].connections /\ ~runtime[l].disposing =>
           runtime[l].session \in connection[c].view.attached

\* A turn outlives the connections that watched it: its runtime goes only when the
\* runtime itself failed or the server closes.
TurnsAreKept ==
  [][\A l \in Runtime :
       runtime[l].turn # None /\ runtime'[l].disposing =>
         runtime[l].terminal \/ runtime[l].disposing \/ isClosing]_vars

\* Every request is answered: no wait for an opening or a disposal is for ever.
EveryRequestIsAnswered ==
  \A r \in Req : request[r].pc # "free" ~> request[r].pc = "free" \/ isClosing
==============================================================================
