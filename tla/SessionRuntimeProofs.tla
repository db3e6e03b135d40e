------------------------- MODULE SessionRuntimeProofs -------------------------
(***************************************************************************)
(* The theorems about SessionServer: the invariant of SessionServerProofs  *)
(* is preserved by every step, and implies the safety properties.  What    *)
(* clients are told has an invariant of its own, at the end.               *)
(***************************************************************************)
EXTENDS SessionServerProofs

------------------------------------------------------------------------------
(* What a runtime is kept for.                                             *)

\* It is not there, in use, being disposed, or about to be attached to.
Minded(l) ==
  \/ runtime[l].state # "live"
  \/ runtime[l].connections # {}
  \/ runtime[l].operations # {}
  \/ isClosing
  \/ runtime[l].disposing
  \/ \E r \in Req : request[r].live = l /\ request[r].pc = "attach"

LEMMA TypesNext ==
  ASSUME connection' \in [Conn -> Connection0],
         request' \in [Req -> Request0],
         runtime' \in [Runtime -> Runtime0],
         liveSessions' \in [Session -> Runtime \cup {None}],
         openingSessions' \in [Session -> Req \cup {None}],
         stored' \in SUBSET Session,
         publisher' \in Publisher0,
         server' \in Server0
  PROVE  TypeOK'
BY DEF TypeOK, Connection0, Request0, Runtime0, Server0, Publisher0, View0

LEMMA AllMinded == NoIdleRuntime <=> \A l \in Runtime : Minded(l)
BY DEF NoIdleRuntime, Minded

\* The rest of the invariant, beside the types and the core.
Rest == Alone /\ Going /\ Turns /\ NoIdleRuntime

\* A step that is none of the shutdown: who is closed stays closed, a turn goes on, ends
\* or begins, and no runtime is left over.
Onward ==
  /\ UNCHANGED server
  /\ \A c \in Conn : connection[c].stage = "closed" => connection'[c].stage = "closed"
  /\ \A r \in Req : request[r].pc = "operating" =>
       request'[r] = request[r] \/ \A l \in Runtime : runtime'[l].turn # r
  /\ \A l \in Runtime :
       /\ runtime'[l].state = "live" /\ Over =>
            runtime[l].state = "live" /\ (runtime[l].disposing => runtime'[l].disposing)
       /\ \/ runtime'[l].turn = None
          \/ /\ runtime'[l].turn = runtime[l].turn
             /\ \A x \in runtime[l].operations :
                  request[x].pc = "operating" => x \in runtime'[l].operations
          \/ /\ runtime'[l].turn \in runtime'[l].operations
             /\ request'[runtime'[l].turn].pc = "operating"
             /\ request'[runtime'[l].turn].live = l
       /\ Minded(l)'

LEMMA OnwardRest ==
  ASSUME TypeOK, Rest, Onward
  PROVE  Rest'
<1>1. Alone'
  BY DEF Alone, Rest, Onward
<1>2. Going'
  BY DEF Going, Rest, Onward, Over
<1>3. Turns'
  <2> SUFFICES ASSUME NEW l \in Runtime, runtime'[l].turn # None
               PROVE  /\ runtime'[l].turn \in runtime'[l].operations
                      /\ request'[runtime'[l].turn].pc = "operating"
                      /\ request'[runtime'[l].turn].live = l
    BY DEF Turns
  <2>1. CASE /\ runtime'[l].turn \in runtime'[l].operations
             /\ request'[runtime'[l].turn].pc = "operating"
             /\ request'[runtime'[l].turn].live = l
    BY <2>1
  <2>2. CASE /\ runtime'[l].turn = runtime[l].turn
             /\ \A x \in runtime[l].operations :
                  request[x].pc = "operating" => x \in runtime'[l].operations
    <3>1. /\ runtime[l].turn \in runtime[l].operations
          /\ request[runtime[l].turn].pc = "operating"
          /\ request[runtime[l].turn].live = l
      BY <2>2 DEF Rest, Turns
    <3>2. runtime[l].turn \in Req
      <4>1. runtime[l] \in Runtime0
        BY Types
      <4> QED BY <3>1, <4>1 DEF Runtime0
    <3>3. request'[runtime[l].turn] = request[runtime[l].turn]
      BY <2>2, <3>1, <3>2 DEF Onward
    <3> QED BY <2>2, <3>1, <3>3
  <2> QED BY <2>1, <2>2 DEF Onward
<1>4. NoIdleRuntime'
  BY DEF NoIdleRuntime, Minded, Onward
<1> QED BY <1>1, <1>2, <1>3, <1>4 DEF Rest

LEMMA TidiedType ==
  ASSUME NEW o \in Runtime0
  PROVE  /\ Tidied(o) \in Runtime0
         /\ Tidied(o).session = o.session
         /\ Tidied(o).state = o.state
         /\ Tidied(o).connections = o.connections
         /\ Tidied(o).operations = o.operations
         /\ Tidied(o).turn = o.turn
         /\ Tidied(o).terminal = o.terminal
         /\ Tidied(o).closes = o.closes
         /\ Tidied(o).disposing <=>
              \/ o.disposing
              \/ /\ ~isClosing
                 /\ o.connections = {} /\ o.operations = {} /\ (o.terminal \/ o.turn = None)
BY DEF Tidied, Runtime0

\* What is left when connections leave.
LEMMA LeftType ==
  ASSUME TypeOK, NEW C \in SUBSET Conn, NEW l \in Runtime
  PROVE  /\ Left(C) \in [Runtime -> Runtime0]
         /\ Left(C)[l].session = runtime[l].session
         /\ Left(C)[l].state = runtime[l].state
         /\ Left(C)[l].operations = runtime[l].operations
         /\ Left(C)[l].turn = runtime[l].turn
         /\ Left(C)[l].terminal = runtime[l].terminal
         /\ Left(C)[l].closes = runtime[l].closes
         /\ Left(C)[l].disposing <=>
              \/ runtime[l].disposing
              \/ /\ Left(C)[l] # runtime[l]
                 /\ ~isClosing
                 /\ Left(C)[l].connections = {} /\ runtime[l].operations = {}
                 /\ runtime[l].terminal \/ runtime[l].turn = None
         /\ Left(C)[l].connections = {} /\ runtime[l].connections # {}
              /\ runtime[l].operations = {} /\ ~isClosing
              /\ (runtime[l].terminal \/ runtime[l].turn = None) => Left(C)[l].disposing
<1> DEFINE held == {liveSessions[s] : s \in UNION {connection[c].sessionIds : c \in C}}
           gone(k) == {c \in C : runtime[k].session \in connection[c].sessionIds}
           o(k) == [runtime[k] EXCEPT !.connections = @ \ gone(k)]
<1>1. runtime \in [Runtime -> Runtime0]
  BY Types
<1>2. ASSUME NEW k \in Runtime
      PROVE  /\ o(k) \in Runtime0 /\ o(k).session = runtime[k].session /\ o(k).state = runtime[k].state
             /\ o(k).operations = runtime[k].operations /\ o(k).turn = runtime[k].turn
             /\ o(k).terminal = runtime[k].terminal /\ o(k).closes = runtime[k].closes
             /\ o(k).disposing = runtime[k].disposing
  <2>1. runtime[k] \in Runtime0
    BY <1>1
  <2> HIDE DEF gone
  <2> QED BY <2>1 DEF Runtime0
<1>3. \A k \in Runtime : Left(C)[k] = IF k \in held THEN Tidied(o(k)) ELSE runtime[k]
  BY DEF Left
<1>4. Left(C) \in [Runtime -> Runtime0]
  <2>1. ASSUME NEW k \in Runtime
        PROVE  Left(C)[k] \in Runtime0
    <3>1. o(k) \in Runtime0
      BY <1>2
    <3>2. Tidied(o(k)) \in Runtime0
      BY <3>1, TidiedType
    <3> HIDE DEF o, held, Tidied
    <3> QED BY <1>1, <1>3, <3>2
  <2> QED BY <2>1 DEF Left
<1>5. /\ Tidied(o(l)).session = o(l).session
      /\ Tidied(o(l)).state = o(l).state
      /\ Tidied(o(l)).connections = o(l).connections
      /\ Tidied(o(l)).operations = o(l).operations
      /\ Tidied(o(l)).turn = o(l).turn
      /\ Tidied(o(l)).terminal = o(l).terminal
      /\ Tidied(o(l)).closes = o(l).closes
      /\ Tidied(o(l)).disposing <=>
           \/ o(l).disposing
           \/ /\ ~isClosing
              /\ o(l).connections = {} /\ o(l).operations = {} /\ (o(l).terminal \/ o(l).turn = None)
  BY <1>2, TidiedType
<1> HIDE DEF held, o
<1>6. CASE l \notin held
  <2>1. Left(C)[l] = runtime[l]
    BY <1>3, <1>6
  <2> QED BY <1>4, <2>1
<1>7. CASE l \in held
  <2>1. Left(C)[l] = Tidied(o(l))
    BY <1>3, <1>7
  <2>2. o(l).disposing = runtime[l].disposing /\ o(l).operations = runtime[l].operations
        /\ o(l).turn = runtime[l].turn /\ o(l).terminal = runtime[l].terminal
        /\ o(l).session = runtime[l].session /\ o(l).state = runtime[l].state
        /\ o(l).closes = runtime[l].closes
    BY <1>2
  <2> HIDE DEF Left
  <2> QED BY <1>4, <1>5, <2>1, <2>2
<1> QED BY <1>6, <1>7

------------------------------------------------------------------------------
(* Connections, the publisher, and the ends of requests.                   *)

LEMMA QuietStep ==
  ASSUME SInv, UNCHANGED <<runtime, liveSessions, openingSessions, stored, server>>,
         connection' \in [Conn -> Connection0], publisher' \in Publisher0,
         \A c \in Conn : connection[c].stage = "closed" => connection'[c].stage = "closed",
         \/ UNCHANGED request
         \/ \E r \in Req : request[r].pc \in {"attached", "detaching", "detached"} /\ Answer(r)
  PROVE  SInv'
<1>1. TypeOK /\ Core /\ Rest
  BY DEF SInv, Rest
<1>2. /\ request \in [Req -> Request0] /\ runtime \in [Runtime -> Runtime0]
      /\ NoRequest \in Request0 /\ NoRequest.pc = "free"
  BY <1>1, Types DEF NoRequest, Request0
<1>3. \A r \in Req : \/ request'[r] = request[r]
                     \/ request[r].pc \in {"attached", "detaching", "detached"} /\ request'[r].pc = "free"
  BY <1>2 DEF Answer
<1>4. request' \in [Req -> Request0]
  BY <1>2 DEF Answer
<1>5. TypeOK'
  BY <1>1, <1>2, <1>4, Types, TypesNext
<1>6. Core'
  <2>1. Calm
    BY <1>3 DEF Calm, Opens, Refers
  <2> QED BY <1>1, <2>1, CalmCore
<1>7. Onward
  <2>1. \A l \in Runtime : Minded(l)'
    <3> SUFFICES ASSUME NEW l \in Runtime
                 PROVE  Minded(l)'
      OBVIOUS
    <3>1. Minded(l)
      BY <1>1, AllMinded DEF Rest
    <3> QED BY <1>3, <3>1 DEF Minded, isClosing
  <2> QED BY <1>3, <2>1 DEF Onward
<1>8. Rest'
  BY <1>1, <1>7, OnwardRest
<1> QED BY <1>5, <1>6, <1>8 DEF SInv, Rest

LEMMA ViewType ==
  ASSUME TypeOK, NEW c \in Conn
  PROVE  View(c) \in View0
<1>1. stored \in SUBSET Session /\ connection[c] \in Connection0
  BY Types
<1> QED BY <1>1 DEF View, View0, Connection0

LEMMA ConnectionSteps ==
  ASSUME SInv, NEW c \in Conn, ConnectionStep(c) \/ FailProtocol(c)
  PROVE  SInv'
<1>1. TypeOK
  BY DEF SInv
<1>2. /\ connection \in [Conn -> Connection0] /\ publisher \in Publisher0 /\ View(c) \in View0
      /\ connection[c] \in Connection0
  BY <1>1, Types, ViewType
<1> DEFINE keeps == \A x \in Conn : connection[x].stage = "closed" => connection'[x].stage = "closed"
<1>3. CASE Hello(c)
  <2> DEFINE n == [connection[c] EXCEPT !.stage = "handshaking", !.missed = FALSE]
  <2>1. n \in Connection0
    BY <1>2 DEF Connection0, Stages
  <2>2. connection' = [connection EXCEPT ![c] = n] /\ connection[c].stage # "closed"
    BY <1>2, <1>3 DEF Hello
  <2> HIDE DEF n
  <2>3. connection' \in [Conn -> Connection0] /\ keeps
    BY <1>2, <2>1, <2>2
  <2> QED BY <1>2, <1>3, <2>3, QuietStep DEF Hello
<1>4. CASE HelloListed(c)
  <2> DEFINE n == [connection[c] EXCEPT !.stage = "listed", !.view = View(c)]
  <2>1. n \in Connection0
    BY <1>2 DEF Connection0, Stages
  <2>2. connection' = [connection EXCEPT ![c] = n] /\ connection[c].stage # "closed"
    BY <1>2, <1>4 DEF HelloListed
  <2> HIDE DEF n
  <2>3. connection' \in [Conn -> Connection0] /\ keeps
    BY <1>2, <2>1, <2>2
  <2> QED BY <1>2, <1>4, <2>3, QuietStep DEF HelloListed
<1>5. CASE HelloSent(c)
  <2> DEFINE n == [connection[c] EXCEPT !.greeted = TRUE,
                     !.stage = IF connection[c].missed THEN "late" ELSE "ready"]
  <2>1. n \in Connection0
    BY <1>2 DEF Connection0, Stages
  <2>2. connection' = [connection EXCEPT ![c] = n] /\ connection[c].stage # "closed"
    BY <1>2, <1>5 DEF HelloSent
  <2> HIDE DEF n
  <2>3. connection' \in [Conn -> Connection0] /\ keeps
    BY <1>2, <2>1, <2>2
  <2> QED BY <1>2, <1>5, <2>3, QuietStep DEF HelloSent
<1>6. CASE CatchUp(c)
  <2> DEFINE n == [connection[c] EXCEPT !.stage = "ready", !.view = View(c)]
  <2>1. n \in Connection0
    BY <1>2 DEF Connection0, Stages
  <2>2. connection' = [connection EXCEPT ![c] = n] /\ connection[c].stage # "closed"
    BY <1>2, <1>6 DEF CatchUp
  <2> HIDE DEF n
  <2>3. connection' \in [Conn -> Connection0] /\ keeps
    BY <1>2, <2>1, <2>2
  <2> QED BY <1>2, <1>6, <2>3, QuietStep DEF CatchUp
<1>7. CASE FailProtocol(c)
  <2> DEFINE n == [connection[c] EXCEPT !.stage = "closing"]
  <2>1. n \in Connection0
    BY <1>2 DEF Connection0, Stages
  <2>2. connection' = [connection EXCEPT ![c] = n] /\ connection[c].stage # "closed"
    BY <1>2, <1>7 DEF FailProtocol
  <2> HIDE DEF n
  <2>3. connection' \in [Conn -> Connection0] /\ keeps
    BY <1>2, <2>1, <2>2
  <2> QED BY <1>2, <1>7, <2>3, QuietStep DEF FailProtocol
<1>8. CASE Send(c)
  <2> DEFINE n == [connection[c] EXCEPT !.view = IF connection[c].stage = "closed" THEN @ ELSE View(c)]
  <2>1. n \in Connection0 /\ n.stage = connection[c].stage
    BY <1>2 DEF Connection0
  <2>2. connection' = [connection EXCEPT ![c] = n]
    BY <1>2, <1>8 DEF Send
  <2>3. publisher' \in Publisher0
    BY <1>2, <1>8 DEF Send, Publisher0
  <2> HIDE DEF n
  <2>4. connection' \in [Conn -> Connection0] /\ keeps
    BY <1>2, <2>1, <2>2
  <2> QED BY <1>8, <2>3, <2>4, QuietStep DEF Send
<1> QED BY <1>3, <1>4, <1>5, <1>6, <1>7, <1>8 DEF ConnectionStep

LEMMA BroadcastStep ==
  ASSUME SInv, Broadcast
  PROVE  SInv'
<1>1. connection \in [Conn -> Connection0] /\ publisher \in Publisher0
  BY Types DEF SInv
<1>2. \A c \in Conn : connection[c] \in Connection0
  BY <1>1
<1>3. \A c \in Conn : [connection[c] EXCEPT !.missed = TRUE] \in Connection0
  BY <1>2 DEF Connection0
<1>4. connection' \in [Conn -> Connection0]
  BY <1>1, <1>2, <1>3 DEF Broadcast
<1>5. publisher' \in Publisher0
  <2>1. [publisher EXCEPT !.asked = FALSE] \in Publisher0
    BY <1>1 DEF Publisher0
  <2>2. [asked |-> FALSE, to |-> {c \in Conn : Ready(c)}] \in Publisher0
    BY DEF Publisher0
  <2> QED BY <2>1, <2>2 DEF Broadcast
<1>6. ASSUME NEW c \in Conn, connection[c].stage = "closed"
      PROVE  connection'[c].stage = "closed"
  <2>1. connection'[c] = connection[c]
    BY <1>6 DEF Broadcast
  <2> QED BY <1>6, <2>1
<1> QED BY <1>4, <1>5, <1>6, QuietStep DEF Broadcast

\* The snapshot fails that a broadcast is to send.
LEMMA BroadcastFailsStep ==
  ASSUME SInv, BroadcastFails
  PROVE  SInv'
<1>1. connection \in [Conn -> Connection0] /\ publisher \in Publisher0
  BY Types DEF SInv
<1>2. publisher' \in Publisher0
  BY <1>1 DEF BroadcastFails, Publisher0
<1> QED BY <1>1, <1>2, QuietStep DEF BroadcastFails

\* The requests that have nothing to do but to answer.
LEMMA AnswerSteps ==
  ASSUME SInv, NEW r \in Req, Attached(r) \/ AttachedUntold(r) \/ DetachingUntold(r) \/ Detached(r)
  PROVE  SInv'
<1>1. connection \in [Conn -> Connection0] /\ publisher \in Publisher0
  BY Types DEF SInv
<1>2. publisher' \in Publisher0
  BY <1>1 DEF Attached, AttachedUntold, DetachingUntold, Detached, AskBroadcast, Publisher0
<1>3. request[r].pc \in {"attached", "detaching", "detached"} /\ Answer(r)
  BY DEF Attached, AttachedUntold, DetachingUntold, Detached
<1>4. UNCHANGED <<connection, runtime, liveSessions, openingSessions, stored, server>>
  BY DEF Attached, AttachedUntold, DetachingUntold, Detached
<1> QED BY <1>1, <1>2, <1>3, <1>4, QuietStep

------------------------------------------------------------------------------
(* Acquisitions.                                                           *)

\* A runtime stays as it is, or is not in use yet or any more.
LEMMA OpeningStep ==
  ASSUME SInv, Core', UNCHANGED <<connection, publisher, server>>, stored' \in SUBSET Session,
         request' \in [Req -> Request0],
         runtime' \in [Runtime -> Runtime0],
         liveSessions' \in [Session -> Runtime \cup {None}],
         openingSessions' \in [Session -> Req \cup {None}],
         \A r \in Req : \/ request'[r] = request[r]
                        \/ request[r].pc \in Opens \cup {"free", "awaitGone", "awaitOpen"},
         \A l \in Runtime :
           \/ runtime'[l] = runtime[l]
           \/ /\ \/ runtime'[l].turn = None
                 \/ runtime'[l].turn = runtime[l].turn /\ runtime'[l].operations = runtime[l].operations
              /\ \/ runtime'[l].state # "live"
                 \/ ~Over /\ \E r \in Req : request'[r].live = l /\ request'[r].pc = "attach"
  PROVE  SInv'
<1>1. TypeOK /\ Rest
  BY DEF SInv, Rest
<1>2. TypeOK'
  BY <1>1, Types, TypesNext
<1>3. \A l \in Runtime : Minded(l)'
  <2> SUFFICES ASSUME NEW l \in Runtime
               PROVE  Minded(l)'
    OBVIOUS
  <2>1. CASE runtime'[l] = runtime[l]
    <3>1. Minded(l)
      BY <1>1, AllMinded DEF Rest
    <3>2. \A r \in Req : request[r].pc = "attach" => request'[r] = request[r]
      BY DEF Opens
    <3> QED BY <2>1, <3>1, <3>2 DEF Minded, isClosing
  <2>2. CASE runtime'[l] # runtime[l]
    BY <2>2 DEF Minded
  <2> QED BY <2>1, <2>2
<1>4. \A r \in Req : request[r].pc = "operating" => request'[r] = request[r]
  BY DEF Opens
<1>5. Onward
  BY <1>3, <1>4 DEF Onward
<1>6. Rest'
  BY <1>1, <1>5, OnwardRest
<1> QED BY <1>2, <1>6 DEF SInv, Rest

\* A turn of the loop of acquire, in a request or after a disposal.
LEMMA AcquireStep ==
  ASSUME SInv, NEW r \in Req, NEW q \in Request0, AcquireTurn(r, q),
         q.conn \in Conn, q.session \in Session, q.live = None, q.pc \in {"free", "awaitGone"},
         request[r].pc \in {"free", "awaitGone"},
         server.closing \notin {"no", "connections"} => r \notin server.awaited,
         UNCHANGED <<connection, runtime, liveSessions, stored, publisher, server>>,
         liveSessions[q.session] = None /\ openingSessions[q.session] = None => ~Locked(q.session)
  PROVE  SInv'
<1>1. TypeOK /\ Core
  BY DEF SInv
<1>2. request[r].pc \notin Opens
  BY DEF Opens
<1>3. Core' /\ request' \in [Req -> Request0]
            /\ openingSessions' \in [Session -> Req \cup {None}]
  BY <1>1, <1>2, TurnCore
<1>4. request \in [Req -> Request0] /\ runtime \in [Runtime -> Runtime0]
      /\ liveSessions \in [Session -> Runtime \cup {None}] /\ stored \in SUBSET Session
  BY <1>1, Types
<1>5. \A x \in Req : x # r => request'[x] = request[x]
  BY <1>4 DEF AcquireTurn, Answer
<1> QED BY <1>3, <1>4, <1>5, OpeningStep

\* A session that is neither served nor being opened is locked by a runtime of the shutdown only.
LEMMA LockedBy ==
  ASSUME TypeOK, Core, NEW s \in Session, liveSessions[s] = None, openingSessions[s] = None,
         NEW l \in Runtime, Held(l), runtime[l].session = s
  PROVE  Over /\ runtime[l].state = "live"
<1>1. runtime[l].state # "acquired"
  <2> SUFFICES ASSUME runtime[l].state = "acquired"
               PROVE  FALSE
    OBVIOUS
  <2>1. PICK x \in Req : request[x].pc \in Keeps /\ request[x].live = l
    BY DEF Core, Registering
  <2>2. request[x].session = s
    BY <2>1 DEF Core, Registering
  <2>3. openingSessions[s] = x
    BY <2>1, <2>2 DEF Core, Opening, Opens, Keeps
  <2> QED BY <2>3, NoneAssumption
<1>2. runtime[l].state = "live"
  BY <1>1 DEF Held
<1> QED BY <1>2, NoneAssumption DEF Core, Served

LEMMA AcquireAgainStep ==
  ASSUME SInv, NEW r \in Req, AcquireAgain(r)
  PROVE  SInv'
<1> DEFINE q == [request[r] EXCEPT !.live = None]
<1>1. TypeOK /\ Core
  BY DEF SInv
<1>2. request[r] \in Request0 /\ request[r].pc = "awaitGone"
  BY <1>1, Types DEF AcquireAgain
<1>3. request[r].conn \in Conn /\ request[r].session \in Session
  BY <1>1, <1>2 DEF Core, Refs
<1>4. q \in Request0 /\ q.conn \in Conn /\ q.session = request[r].session /\ q.live = None
      /\ q.pc = "awaitGone"
  BY <1>2, <1>3 DEF Request0
<1>5. AcquireTurn(r, q) /\ UNCHANGED <<connection, runtime, liveSessions, stored, publisher, server>>
  BY DEF AcquireAgain
<1> HIDE DEF q
<1>6. liveSessions[q.session] = None /\ openingSessions[q.session] = None => ~Locked(q.session)
  <2> SUFFICES ASSUME liveSessions[q.session] = None, openingSessions[q.session] = None,
                      NEW l \in Runtime, runtime[l].session = q.session,
                      runtime[l].state \in {"acquired", "live"}
               PROVE  FALSE
    BY DEF Locked
  <2>1. Over /\ runtime[l].state = "live"
    BY <1>1, <1>3, <1>4, LockedBy DEF Held
  <2>2. ~Discards(l)
    BY <1>1, <2>1 DEF Core, Registering, Discards, Keeps
  <2>3. l = request[r].live
    BY <1>1, <1>2, <1>4, <2>1, <2>2 DEF Core, Waiting, isClosing, Over, Held
  <2> QED BY <2>1, <2>3 DEF AcquireAgain
<1>7. server.closing \notin {"no", "connections"} => r \notin server.awaited
  BY <1>1, <1>2 DEF Core, Closing
<1> QED BY <1>2, <1>3, <1>4, <1>5, <1>6, <1>7, AcquireStep

LEMMA OpenSteps ==
  ASSUME SInv, NEW r \in Req,
         \/ OpenRejected(r) \/ (\E l \in Runtime : Opened(r, l)) \/ Register(r)
         \/ RegisterFails(r) \/ Discarded(r)
  PROVE  SInv'
<1>1. TypeOK /\ Core
  BY DEF SInv
<1>2. /\ request \in [Req -> Request0]
      /\ runtime \in [Runtime -> Runtime0]
      /\ liveSessions \in [Session -> Runtime \cup {None}]
      /\ openingSessions \in [Session -> Req \cup {None}]
      /\ stored \in SUBSET Session
  BY <1>1, Types
<1>3. request[r].pc \in Opens /\ request[r].session \in Session /\ request[r].pc # "free"
  BY <1>1 DEF OpenRejected, Opened, Register, RegisterFails, Discarded, Opens, Core, Refs
<1>4. OpeningFails(r) =>
        /\ request' \in [Req -> Request0]
        /\ openingSessions' \in [Session -> Req \cup {None}]
        /\ \A x \in Req : request'[x] = request[x] \/ x = r \/ request[x].pc = "awaitOpen"
  BY <1>1, <1>3, FailsTypes
<1>5. CASE OpenRejected(r)
  <2>1. OpeningFails(r) /\ UNCHANGED <<connection, runtime, liveSessions, stored, publisher, server>>
        /\ request[r].pc = "open"
    BY <1>5 DEF OpenRejected
  <2>2. Core'
    BY <1>1, <1>2, <1>3, <2>1, FailsCore
  <2> QED BY <1>2, <1>3, <1>4, <2>1, <2>2, OpeningStep
<1>6. CASE Discarded(r)
  <2> DEFINE l == request[r].live
  <2>1. OpeningFails(r) /\ UNCHANGED <<connection, liveSessions, stored, publisher, server>>
        /\ request[r].pc = "discard"
    BY <1>6 DEF Discarded
  <2>2. l \in Runtime /\ runtime[l] \in Runtime0
    BY <1>1, <1>2, <2>1 DEF Core, Refs, Refers
  <2> DEFINE n == [runtime[l] EXCEPT !.state = "gone"]
  <2>3. n \in Runtime0 /\ n.state = "gone" /\ n.session = runtime[l].session
        /\ n.turn = runtime[l].turn /\ n.operations = runtime[l].operations
    BY <2>2 DEF Runtime0
  <2>4. runtime' = [runtime EXCEPT ![l] = n]
    BY <1>6 DEF Discarded
  <2> HIDE DEF n
  <2>5. runtime' \in [Runtime -> Runtime0] /\ runtime'[l] = n
        /\ \A k \in Runtime : k # l => runtime'[k] = runtime[k]
    BY <1>2, <2>2, <2>3, <2>4
  <2>6. Core'
    BY <1>1, <1>3, <2>1, <2>3, <2>5, FailsCore
  <2> QED BY <1>2, <1>3, <1>4, <2>1, <2>3, <2>5, <2>6, OpeningStep
<1>7. CASE RegisterFails(r)
  <2>1. Core' /\ request' \in [Req -> Request0]
    BY <1>1, <1>7, GivenUpCore
  <2>2. UNCHANGED <<connection, runtime, liveSessions, openingSessions, stored, publisher, server>>
    BY <1>7 DEF RegisterFails
  <2>3. \A x \in Req : x # r => request'[x] = request[x]
    BY <1>2, <1>7 DEF RegisterFails, Goto
  <2> QED BY <1>2, <1>3, <2>1, <2>2, <2>3, OpeningStep
<1>8. ASSUME NEW l \in Runtime, Opened(r, l)
      PROVE  SInv'
  <2> DEFINE n == [NoRuntime EXCEPT !.session = request[r].session, !.state = "acquired"]
             pc == IF isClosing THEN "discard" ELSE "register"
  <2>1. n \in Runtime0 /\ n.session = request[r].session /\ n.state = "acquired" /\ n.turn = None
    BY <1>3 DEF Runtime0, NoRuntime
  <2>2. /\ runtime' = [runtime EXCEPT ![l] = n]
        /\ request' = [request EXCEPT ![r].pc = pc, ![r].live = l]
        /\ UNCHANGED <<connection, liveSessions, openingSessions, publisher, server>>
        /\ stored' \in SUBSET Session
        /\ request[r].pc = "open" /\ ~Locked(request[r].session) /\ Unused(l)
    BY <1>2, <1>3, <1>8 DEF Opened
  <2> HIDE DEF n
  <2>3. Core' /\ request' \in [Req -> Request0]
    <3>1. pc = (IF isClosing THEN "discard" ELSE "register")
      OBVIOUS
    <3> HIDE DEF pc
    <3> QED BY <1>1, <2>1, <2>2, <3>1, OpenedCore
  <2>4. \A x \in Req : x # r => request'[x] = request[x]
    BY <1>2, <2>2
  <2>5. /\ runtime' \in [Runtime -> Runtime0]
        /\ runtime'[l].turn = None /\ runtime'[l].state # "live"
        /\ \A k \in Runtime : k # l => runtime'[k] = runtime[k]
    BY <1>2, <2>1, <2>2
  <2> QED BY <1>2, <1>3, <2>2, <2>3, <2>4, <2>5, OpeningStep
<1>9. CASE Register(r)
  <2> DEFINE l == request[r].live
  <2>1. /\ Core' /\ request' \in [Req -> Request0] /\ runtime' \in [Runtime -> Runtime0]
        /\ openingSessions' \in [Session -> Req \cup {None}]
        /\ liveSessions' \in [Session -> Runtime \cup {None}]
    BY <1>1, <1>9, RegisterCore
  <2>2. request[r].pc = "register" /\ UNCHANGED <<connection, stored, publisher, server>>
    BY <1>9 DEF Register
  <2>3. l \in Runtime /\ runtime[l] \in Runtime0 /\ ~Over
    BY <1>1, <1>2, <2>2 DEF Core, Refs, Refers, Closing
  <2>4. \A x \in Req : \/ request'[x] = request[x]
                       \/ x = r \/ request[x].pc = "awaitOpen"
    BY <1>9 DEF Register
  <2>5. request'[r].live = l /\ request'[r].pc = "attach"
    BY <1>2, <1>9 DEF Register, Request0
  <2>6. /\ runtime'[l].turn = runtime[l].turn /\ runtime'[l].operations = runtime[l].operations
        /\ \A k \in Runtime : k # l => runtime'[k] = runtime[k]
    BY <1>2, <1>9, <2>3 DEF Register, Runtime0
  <2> QED BY <1>2, <1>3, <2>1, <2>2, <2>3, <2>4, <2>5, <2>6, OpeningStep
<1> QED BY <1>5, <1>6, <1>7, <1>8, <1>9

------------------------------------------------------------------------------
(* Steps that change one runtime and one request.                          *)

\* Runtime l becomes n, which is the same runtime, and request r may go on as p.
Stays(l, n, r, p) ==
  /\ runtime' = [runtime EXCEPT ![l] = n]
  /\ n.state = runtime[l].state /\ n.session = runtime[l].session
  /\ runtime[l].disposing => n.disposing
  /\ \/ UNCHANGED request
     \/ /\ r \in Req
        /\ request' = [request EXCEPT ![r] = p]
        /\ request[r].pc \notin Opens \cup {"awaitGone"}
        /\ p.pc \notin Opens \cup {"awaitGone"}
        /\ p.pc # "free" => p.conn \in Conn /\ p.session \in Session
        /\ p.pc \in Refers => p.live \in Runtime /\ runtime[p.live].session \in Session
        /\ request[r].pc = "attach" => request[r].live = l
        /\ request[r].pc = "operating" => request[r].live = l /\ n.turn # r
  /\ \/ n.turn = None
     \/ /\ n.turn = runtime[l].turn
        /\ \A x \in runtime[l].operations : request[x].pc = "operating" => x \in n.operations
     \/ /\ n.turn \in n.operations
        /\ request'[n.turn].pc = "operating" /\ request'[n.turn].live = l
  /\ Minded(l)'
  /\ UNCHANGED <<liveSessions, openingSessions, stored, server>>
  /\ connection' \in [Conn -> Connection0] /\ publisher' \in Publisher0
  /\ \A c \in Conn : connection[c].stage = "closed" => connection'[c].stage = "closed"

LEMMA RuntimeStays ==
  ASSUME SInv, NEW l \in Runtime, NEW n \in Runtime0, NEW r, NEW p \in Request0,
         Stays(l, n, r, p)
  PROVE  SInv'
<1> USE DEF Stays
<1>1. TypeOK /\ Core /\ Rest
  BY DEF SInv, Rest
<1>2. /\ request \in [Req -> Request0] /\ runtime \in [Runtime -> Runtime0]
      /\ liveSessions \in [Session -> Runtime \cup {None}]
      /\ openingSessions \in [Session -> Req \cup {None}]
      /\ stored \in SUBSET Session /\ server \in Server0
  BY <1>1, Types
<1>3. /\ request' \in [Req -> Request0]
      /\ \A x \in Req : request'[x] # request[x] => x = r /\ request'[x] = p
  BY <1>2
<1>4. /\ runtime' \in [Runtime -> Runtime0] /\ runtime'[l] = n
      /\ \A k \in Runtime : k # l => runtime'[k] = runtime[k]
  BY <1>2
<1>5. TypeOK'
  BY <1>2, <1>3, <1>4, TypesNext
<1>6. Core'
  <2>1. Calm
    BY <1>3, <1>4 DEF Calm
  <2> QED BY <1>1, <2>1, CalmCore
<1>7. Onward
  <2>1. ASSUME NEW k \in Runtime
        PROVE  Minded(k)'
    <3>1. CASE k = l
      BY <3>1
    <3>2. CASE k # l
      <4>1. Minded(k)
        BY <1>1, AllMinded DEF Rest
      <4>2. \A x \in Req : request[x].live = k /\ request[x].pc = "attach" =>
              request'[x] = request[x]
        BY <1>3, <3>2
      <4> QED BY <1>4, <3>2, <4>1, <4>2 DEF Minded, isClosing
    <3> QED BY <3>1, <3>2
  <2>2. ASSUME NEW x \in Req, request[x].pc = "operating", request'[x] # request[x],
               NEW k \in Runtime
        PROVE  runtime'[k].turn # x
    <3>1. x = r /\ request[r].live = l /\ n.turn # r
      BY <1>3, <2>2
    <3>2. k # l /\ runtime[k].turn = r => request[r].live = k
      BY <1>1, <3>1, NoneAssumption DEF Rest, Turns
    <3> QED BY <1>4, <3>1, <3>2
  <2>3. ASSUME NEW k \in Runtime
        PROVE  \/ runtime'[k].turn = None
               \/ /\ runtime'[k].turn = runtime[k].turn
                  /\ \A x \in runtime[k].operations :
                       request[x].pc = "operating" => x \in runtime'[k].operations
               \/ /\ runtime'[k].turn \in runtime'[k].operations
                  /\ request'[runtime'[k].turn].pc = "operating"
                  /\ request'[runtime'[k].turn].live = k
    BY <1>3, <1>4
  <2>4. \A k \in Runtime : runtime'[k].state = "live" /\ Over =>
          runtime[k].state = "live" /\ (runtime[k].disposing => runtime'[k].disposing)
    BY <1>4
  <2> QED BY <2>1, <2>2, <2>3, <2>4 DEF Onward
<1>8. Rest'
  BY <1>1, <1>7, OnwardRest
<1> QED BY <1>5, <1>6, <1>8 DEF SInv, Rest

LEMMA DisposeStep ==
  ASSUME SInv, NEW l \in Runtime, Dispose(l)
  PROVE  SInv'
<1>1. TypeOK /\ Core /\ Rest
  BY DEF SInv, Rest
<1>2. Core' /\ runtime' \in [Runtime -> Runtime0] /\ liveSessions' \in [Session -> Runtime \cup {None}]
  BY <1>1, DisposeCore
<1>3. runtime \in [Runtime -> Runtime0] /\ publisher \in Publisher0
  BY <1>1, Types
<1>4. UNCHANGED <<connection, request, openingSessions, stored, server>>
  BY DEF Dispose
<1>5. publisher' \in Publisher0
  <2>1. publisher' = [publisher EXCEPT !.asked = @ \/ ~isClosing] /\ isClosing \in BOOLEAN
    BY DEF Dispose, isClosing
  <2> QED BY <1>3, <2>1 DEF Publisher0
<1>6. TypeOK'
  BY <1>1, <1>2, <1>4, <1>5, Types, TypesNext
<1>7. /\ runtime'[l].state = "gone" /\ runtime'[l].turn = runtime[l].turn
      /\ runtime'[l].operations = runtime[l].operations
      /\ \A k \in Runtime : k # l => runtime'[k] = runtime[k]
  BY <1>3 DEF Dispose, Runtime0
<1>8. \A k \in Runtime : Minded(k)'
  <2> SUFFICES ASSUME NEW k \in Runtime
               PROVE  Minded(k)'
    OBVIOUS
  <2>1. Minded(k)
    BY <1>1, AllMinded DEF Rest
  <2> QED BY <1>4, <1>7, <2>1 DEF Minded, isClosing
<1>9. Onward
  <2>1. ASSUME NEW k \in Runtime
        PROVE  /\ runtime'[k].turn = runtime[k].turn /\ runtime'[k].operations = runtime[k].operations
               /\ runtime'[k].state = "live" => runtime'[k] = runtime[k]
    BY <1>7
  <2> QED BY <1>4, <1>8, <2>1 DEF Onward
<1> QED BY <1>1, <1>2, <1>6, <1>9, OnwardRest DEF SInv, Rest

\* After maybeDispose a runtime is not left over.
LEMMA TidiedMinded ==
  ASSUME NEW l \in Runtime, NEW o \in Runtime0, runtime'[l] = Tidied(o),
         o.turn = None \/ o.turn \in o.operations, UNCHANGED server
  PROVE  Minded(l)'
<1>1. /\ Tidied(o).connections = o.connections
      /\ Tidied(o).operations = o.operations
      /\ ~isClosing /\ o.connections = {} /\ o.operations = {} /\ o.turn = None => Tidied(o).disposing
  BY TidiedType
<1> HIDE DEF Tidied
<1> QED BY <1>1 DEF Minded, isClosing

LEMMA AttachStep ==
  ASSUME SInv, NEW r \in Req, Attach(r)
  PROVE  SInv'
<1>1. TypeOK /\ Core /\ Turns
  BY DEF SInv
<1>2. /\ connection \in [Conn -> Connection0] /\ request \in [Req -> Request0]
      /\ runtime \in [Runtime -> Runtime0] /\ publisher \in Publisher0
  BY <1>1, Types
<1> PICK c, l : c = request[r].conn /\ l = request[r].live
  OBVIOUS
<1>3. /\ request[r].pc = "attach" /\ c \in Conn /\ l \in Runtime
      /\ runtime[l].session \in Session /\ request[r].session \in Session
      /\ request[r] \in Request0 /\ runtime[l] \in Runtime0 /\ connection[c] \in Connection0
  BY <1>1, <1>2 DEF Attach, Core, Refs, Refers
<1>4. UNCHANGED <<liveSessions, openingSessions, stored, publisher, server>>
  BY DEF Attach
<1>5. CASE Ready(c)
  <2> DEFINE m == [connection[c] EXCEPT !.sessionIds = @ \cup {runtime[l].session}]
             n == [runtime[l] EXCEPT !.connections = @ \cup {c}]
             p == [request[r] EXCEPT !.pc = "attached"]
  <2>1. m \in Connection0 /\ m.stage = connection[c].stage
    BY <1>3 DEF Connection0
  <2>2. /\ n \in Runtime0 /\ n.state = runtime[l].state /\ n.session = runtime[l].session
        /\ n.disposing = runtime[l].disposing /\ n.turn = runtime[l].turn
        /\ n.operations = runtime[l].operations /\ n.connections # {}
    BY <1>3 DEF Runtime0
  <2>3. /\ p \in Request0 /\ p.pc = "attached" /\ p.conn = c /\ p.live = l
        /\ p.session = request[r].session
    BY <1>3 DEF Request0
  <2>4. /\ connection' = [connection EXCEPT ![c] = m]
        /\ runtime' = [runtime EXCEPT ![l] = n]
        /\ request' = [request EXCEPT ![r] = p]
    BY <1>2, <1>3, <1>5 DEF Attach, Goto
  <2> HIDE DEF m, n, p
  <2>5. /\ connection' \in [Conn -> Connection0]
        /\ \A x \in Conn : connection[x].stage = "closed" => connection'[x].stage = "closed"
    BY <1>2, <2>1, <2>4
  <2>6. Minded(l)'
    BY <1>2, <1>3, <2>2, <2>4 DEF Minded
  <2>7. request[r].pc \notin Opens \cup {"awaitGone"} /\ p.pc \notin Opens \cup {"awaitGone"}
    BY <1>3, <2>3 DEF Opens
  <2>8. Stays(l, n, r, p)
    BY <1>2, <1>3, <1>4, <2>2, <2>3, <2>4, <2>5, <2>6, <2>7 DEF Stays
  <2> QED BY <2>8, <1>3, <2>2, <2>3, RuntimeStays
<1>6. CASE ~Ready(c)
  <2> DEFINE n == Tidied(runtime[l])
  <2>1. /\ n \in Runtime0 /\ n.state = runtime[l].state /\ n.session = runtime[l].session
        /\ runtime[l].disposing => n.disposing
        /\ n.turn = runtime[l].turn /\ n.operations = runtime[l].operations
    BY <1>3, TidiedType
  <2>2. NoRequest \in Request0 /\ NoRequest.pc = "free"
    BY DEF NoRequest, Request0
  <2>3. /\ runtime' = [runtime EXCEPT ![l] = n]
        /\ request' = [request EXCEPT ![r] = NoRequest]
        /\ UNCHANGED connection
    BY <1>6 DEF Attach, Answer
  <2>4. Minded(l)'
    <3>1. runtime'[l] = Tidied(runtime[l])
      BY <1>2, <1>3, <2>3
    <3> QED BY <1>1, <1>3, <1>4, <3>1, TidiedMinded DEF Turns
  <2>5. request[r].pc \notin Opens \cup {"awaitGone"} /\ NoRequest.pc \notin Opens \cup {"awaitGone"} \cup Refers
    BY <1>3, <2>2 DEF Opens, Refers
  <2> HIDE DEF n
  <2>6. Stays(l, n, r, NoRequest)
    BY <1>2, <1>3, <1>4, <2>1, <2>2, <2>3, <2>4, <2>5 DEF Stays
  <2> QED BY <2>6, <1>3, <2>1, <2>2, RuntimeStays
<1> QED BY <1>5, <1>6

LEMMA DetachingStep ==
  ASSUME SInv, NEW r \in Req, Detaching(r)
  PROVE  SInv'
<1> PICK l : l = request[r].live
  OBVIOUS
<1> DEFINE n == Tidied(runtime[l])
           p == [request[r] EXCEPT !.pc = "detached"]
<1>1. TypeOK /\ Core /\ Turns
  BY DEF SInv
<1>2. /\ connection \in [Conn -> Connection0] /\ request \in [Req -> Request0]
      /\ runtime \in [Runtime -> Runtime0] /\ publisher \in Publisher0
  BY <1>1, Types
<1>3. /\ request[r].pc = "detaching" /\ request[r].conn \in Conn /\ l \in Runtime
      /\ runtime[l].session \in Session /\ request[r].session \in Session
      /\ request[r] \in Request0 /\ runtime[l] \in Runtime0
  BY <1>1, <1>2 DEF Detaching, Core, Refs, Refers
<1>4. /\ n \in Runtime0 /\ n.state = runtime[l].state /\ n.session = runtime[l].session
      /\ runtime[l].disposing => n.disposing
      /\ n.turn = runtime[l].turn /\ n.operations = runtime[l].operations
  BY <1>3, TidiedType
<1>5. /\ p \in Request0 /\ p.pc = "detached" /\ p.conn = request[r].conn /\ p.live = l
      /\ p.session = request[r].session
  BY <1>3 DEF Request0
<1>6. /\ runtime' = [runtime EXCEPT ![l] = n]
      /\ request' = [request EXCEPT ![r] = p]
      /\ UNCHANGED <<connection, liveSessions, openingSessions, stored, publisher, server>>
  BY <1>2, <1>3 DEF Detaching, Goto
<1>7. Minded(l)'
  <2>1. runtime'[l] = Tidied(runtime[l])
    BY <1>2, <1>3, <1>6
  <2> QED BY <1>1, <1>3, <1>6, <2>1, TidiedMinded DEF Turns
<1>8. request[r].pc \notin Opens \cup {"awaitGone"} /\ p.pc \notin Opens \cup {"awaitGone"}
  BY <1>3, <1>5 DEF Opens
<1> HIDE DEF n, p
<1>9. Stays(l, n, r, p)
  BY <1>2, <1>3, <1>4, <1>5, <1>6, <1>7, <1>8 DEF Stays
<1> QED BY <1>9, <1>3, <1>4, <1>5, RuntimeStays

LEMMA OperatedStep ==
  ASSUME SInv, NEW r \in Req, Operated(r)
  PROVE  SInv'
<1> PICK l : l = request[r].live
  OBVIOUS
<1> DEFINE o == [runtime[l] EXCEPT !.operations = @ \ {r}]
           n == Tidied(o)
<1>1. TypeOK /\ Core /\ Turns
  BY DEF SInv
<1>2. /\ connection \in [Conn -> Connection0] /\ request \in [Req -> Request0]
      /\ runtime \in [Runtime -> Runtime0] /\ publisher \in Publisher0
  BY <1>1, Types
<1>3. /\ request[r].pc = "operated" /\ l \in Runtime /\ runtime[l] \in Runtime0
  BY <1>1, <1>2 DEF Operated, Core, Refs, Refers
<1>4. /\ o \in Runtime0 /\ o.state = runtime[l].state /\ o.session = runtime[l].session
      /\ o.disposing = runtime[l].disposing /\ o.turn = runtime[l].turn
      /\ o.operations = runtime[l].operations \ {r}
  BY <1>3 DEF Runtime0
<1>5. NoRequest \in Request0 /\ NoRequest.pc = "free"
  BY DEF NoRequest, Request0
<1>6. /\ runtime' = [runtime EXCEPT ![l] = n]
      /\ request' = [request EXCEPT ![r] = NoRequest]
      /\ UNCHANGED <<connection, liveSessions, openingSessions, stored, publisher, server>>
  <2>1. runtime' = [runtime EXCEPT ![request[r].live] =
                      Tidied([runtime[request[r].live] EXCEPT !.operations = @ \ {r}])]
    BY DEF Operated
  <2>2. runtime' = [runtime EXCEPT ![l] = n]
    BY <2>1, Zenon
  <2> QED BY <2>2 DEF Operated, Answer
<1> HIDE DEF o
<1>7. /\ n \in Runtime0 /\ n.state = o.state /\ n.session = o.session
      /\ o.disposing => n.disposing
      /\ n.turn = o.turn /\ n.operations = o.operations
  BY <1>4, TidiedType
<1>8. o.turn = None \/ o.turn \in o.operations
  BY <1>1, <1>3, <1>4 DEF Turns
<1>9. Minded(l)'
  <2>1. runtime'[l] = Tidied(o)
    BY <1>2, <1>3, <1>6
  <2> QED BY <1>3, <1>4, <1>6, <1>8, <2>1, TidiedMinded
<1>10. request[r].pc \notin Opens \cup {"awaitGone"} /\ NoRequest.pc \notin Opens \cup {"awaitGone"} \cup Refers
  BY <1>3, <1>5 DEF Opens, Refers
<1> HIDE DEF n
<1>11. Stays(l, n, r, NoRequest)
  BY <1>2, <1>3, <1>4, <1>5, <1>6, <1>7, <1>9, <1>10 DEF Stays
<1> QED BY <1>11, <1>3, <1>5, <1>7, RuntimeStays

LEMMA TurnEndsStep ==
  ASSUME SInv, NEW l \in Runtime, TurnEnds(l)
  PROVE  SInv'
<1> PICK r : r = runtime[l].turn
  OBVIOUS
<1> DEFINE idle == [runtime[l] EXCEPT !.turn = None]
           n == IF idle.terminal THEN idle ELSE Tidied(idle)
           p == [request[r] EXCEPT !.pc = "operated"]
<1>1. TypeOK /\ Core /\ Turns
  BY DEF SInv
<1>2. /\ connection \in [Conn -> Connection0] /\ request \in [Req -> Request0]
      /\ runtime \in [Runtime -> Runtime0] /\ publisher \in Publisher0
  BY <1>1, Types
<1>3. runtime[l] \in Runtime0 /\ r # None /\ r \in Req
  BY <1>2 DEF TurnEnds, Runtime0
<1>4. /\ request[r].pc = "operating" /\ request[r].live = l /\ r \in runtime[l].operations
      /\ request[r] \in Request0
  BY <1>1, <1>2, <1>3 DEF Turns
<1>5. request[r].conn \in Conn /\ request[r].session \in Session /\ runtime[l].session \in Session
  BY <1>1, <1>3, <1>4 DEF Core, Refs, Refers
<1>6. /\ idle \in Runtime0 /\ idle.state = runtime[l].state /\ idle.session = runtime[l].session
      /\ idle.disposing = runtime[l].disposing /\ idle.turn = None
      /\ idle.operations = runtime[l].operations
  BY <1>3 DEF Runtime0
<1>7. /\ p \in Request0 /\ p.pc = "operated" /\ p.conn = request[r].conn /\ p.live = l
      /\ p.session = request[r].session
  BY <1>4 DEF Request0
<1>8. /\ runtime' = [runtime EXCEPT ![l] = n]
      /\ request' = [request EXCEPT ![r] = p]
      /\ UNCHANGED <<connection, liveSessions, openingSessions, stored, publisher, server>>
  BY <1>2, <1>3 DEF TurnEnds, Goto
<1> HIDE DEF idle, p
<1>9. /\ n \in Runtime0 /\ n.state = idle.state /\ n.session = idle.session
      /\ idle.disposing => n.disposing
      /\ n.turn = None /\ n.operations = idle.operations
  BY <1>6, TidiedType
<1> HIDE DEF n
<1>10. Minded(l)'
  <2>1. runtime'[l] = n
    BY <1>2, <1>8
  <2> QED BY <1>4, <1>6, <1>9, <2>1 DEF Minded
<1>11. /\ request[r].pc \notin Opens \cup {"awaitGone"}
       /\ p.pc \notin Opens \cup {"awaitGone"}
       /\ p.pc # "free" => p.conn \in Conn /\ p.session \in Session
       /\ p.pc \in Refers => p.live \in Runtime /\ runtime[p.live].session \in Session
       /\ request[r].pc = "attach" => request[r].live = l
       /\ request[r].pc = "operating" => request[r].live = l /\ n.turn # r
  BY <1>3, <1>4, <1>5, <1>7, <1>9 DEF Opens
<1>12. Stays(l, n, r, p)
  BY <1>2, <1>3, <1>6, <1>7, <1>8, <1>9, <1>10, <1>11 DEF Stays
<1> QED BY <1>12, <1>7, <1>9, RuntimeStays

LEMMA RuntimeErrorStep ==
  ASSUME SInv, NEW l \in Runtime, RuntimeError(l)
  PROVE  SInv'
<1> DEFINE dead == [runtime[l] EXCEPT !.terminal = TRUE, !.closes = runtime[l].connections]
           n == IF dead.closes = {} THEN Tidied(dead) ELSE dead
<1>1. TypeOK /\ Core /\ Turns
  BY DEF SInv
<1>2. /\ connection \in [Conn -> Connection0] /\ request \in [Req -> Request0]
      /\ runtime \in [Runtime -> Runtime0] /\ publisher \in Publisher0 /\ runtime[l] \in Runtime0
  BY <1>1, Types
<1>3. /\ dead \in Runtime0 /\ dead.state = runtime[l].state /\ dead.session = runtime[l].session
      /\ dead.disposing = runtime[l].disposing /\ dead.turn = runtime[l].turn
      /\ dead.operations = runtime[l].operations /\ dead.closes = dead.connections
  BY <1>2 DEF Runtime0
<1>4. /\ runtime' = [runtime EXCEPT ![l] = n]
      /\ UNCHANGED <<connection, request, liveSessions, openingSessions, stored, publisher, server>>
  BY DEF RuntimeError
<1> HIDE DEF dead
<1>5. /\ n \in Runtime0 /\ n.state = dead.state /\ n.session = dead.session
      /\ dead.disposing => n.disposing
      /\ n.turn = dead.turn /\ n.operations = dead.operations
  BY <1>3, TidiedType
<1>6. Minded(l)'
  <2>1. runtime'[l] = n
    BY <1>2, <1>4
  <2>2. CASE dead.closes = {}
    <3>1. runtime'[l] = Tidied(dead)
      BY <2>1, <2>2
    <3>2. dead.turn = None \/ dead.turn \in dead.operations
      BY <1>1, <1>3 DEF Turns
    <3> QED BY <1>3, <1>4, <3>1, <3>2, TidiedMinded
  <2>3. CASE dead.closes # {}
    BY <1>3, <2>1, <2>3 DEF Minded
  <2> QED BY <2>2, <2>3
<1>7. NoRequest \in Request0
  BY DEF NoRequest, Request0
<1> HIDE DEF n
<1>8. Stays(l, n, None, NoRequest)
  BY <1>2, <1>3, <1>4, <1>5, <1>6, <1>7 DEF Stays
<1> QED BY <1>8, <1>5, <1>7, RuntimeStays

\* A request is received: an acquisition, a detachment, or an operation.
LEMMA RequestReceived ==
  ASSUME SInv, NEW c \in Conn, NEW r \in Req, NEW command \in Commands, NEW s \in Session,
         Request(c, r, command, s)
  PROVE  SInv'
<1> DEFINE new == [conn |-> c, command |-> command, session |-> s, pc |-> "free", live |-> None]
           live == liveSessions[s]
<1>1. TypeOK /\ Core /\ Turns /\ Alone
  BY DEF SInv
<1>2. /\ connection \in [Conn -> Connection0] /\ request \in [Req -> Request0]
      /\ runtime \in [Runtime -> Runtime0] /\ publisher \in Publisher0
      /\ liveSessions \in [Session -> Runtime \cup {None}] /\ server \in Server0
      /\ connection[c] \in Connection0
  BY <1>1, Types
<1>3. new \in Request0
  BY DEF Request0
<1>4. request[r].pc = "free" /\ Ready(c) /\ UNCHANGED <<liveSessions, stored, server>>
  BY DEF Request
<1>5. ~Over
  BY <1>1, <1>4 DEF Alone, Over, Ready
<1>6. live # None => /\ live \in Runtime /\ runtime[live] \in Runtime0
                     /\ runtime[live].state = "live" /\ runtime[live].session = s
  BY <1>1, <1>2 DEF Core, Served
<1> DEFINE m == [connection[c] EXCEPT !.sessionIds = @ \ {s}]
<1>7. m \in Connection0 /\ m.stage = connection[c].stage
  BY <1>2 DEF Connection0
<1> HIDE DEF m
<1>8. ASSUME connection' = [connection EXCEPT ![c] = m]
      PROVE  /\ connection' \in [Conn -> Connection0]
             /\ \A x \in Conn : connection[x].stage = "closed" => connection'[x].stage = "closed"
  BY <1>2, <1>7, <1>8
<1>9. CASE AcquireTurn(r, new) /\ UNCHANGED <<connection, runtime, publisher>>
  <2>1. liveSessions[s] = None /\ openingSessions[s] = None => ~Locked(s)
    BY <1>1, <1>5, LockedBy DEF Locked, Held
  <2>2. new.conn \in Conn /\ new.session = s /\ new.live = None /\ new.pc = "free"
    OBVIOUS
  <2>3. server.closing \in {"no", "connections"}
    BY <1>1, <1>4 DEF Alone, Ready
  <2> HIDE DEF new
  <2> QED BY <1>3, <1>4, <1>9, <2>1, <2>2, <2>3, AcquireStep
<1>10. CASE /\ connection' = [connection EXCEPT ![c] = m]
            /\ live = None /\ AskBroadcast /\ UNCHANGED <<request, runtime, openingSessions>>
  <2>1. publisher' \in Publisher0
    BY <1>2, <1>10 DEF AskBroadcast, Publisher0
  <2> QED BY <1>4, <1>8, <1>10, <2>1, QuietStep
<1>11. ASSUME NEW l \in Runtime, l = live,
              connection' = [connection EXCEPT ![c] = m], UNCHANGED <<publisher, openingSessions>>,
              LET left == [runtime[l] EXCEPT !.connections = @ \ {c}]
                  told == left.connections # {} /\ ~left.terminal /\ ~left.disposing
              IN  /\ runtime' = [runtime EXCEPT ![l] = IF told THEN left ELSE Tidied(left)]
                  /\ request' = [request EXCEPT ![r] =
                       [new EXCEPT !.live = l, !.pc = IF told THEN "detaching" ELSE "detached"]]
       PROVE  SInv'
  <2> DEFINE left == [runtime[l] EXCEPT !.connections = @ \ {c}]
             told == left.connections # {} /\ ~left.terminal /\ ~left.disposing
             n == IF told THEN left ELSE Tidied(left)
             p == [new EXCEPT !.live = l, !.pc = IF told THEN "detaching" ELSE "detached"]
  <2>0. runtime[l] \in Runtime0 /\ runtime[l].state = "live" /\ runtime[l].session = s
    BY <1>6, <1>11, NoneAssumption
  <2>1. /\ left \in Runtime0 /\ left.state = runtime[l].state /\ left.session = s
        /\ left.disposing = runtime[l].disposing /\ left.turn = runtime[l].turn
        /\ left.operations = runtime[l].operations
    BY <2>0 DEF Runtime0
  <2>2. runtime' = [runtime EXCEPT ![l] = n] /\ request' = [request EXCEPT ![r] = p]
    BY <1>11
  <2>3. /\ p.pc \in {"detaching", "detached"} /\ p.conn = c /\ p.session = s /\ p.live = l
        /\ p \in Request0
    <3> HIDE DEF told
    <3> QED BY <1>3 DEF Request0
  <2>4. told => left.connections # {}
    OBVIOUS
  <2> HIDE DEF left, told, p
  <2>5. /\ n \in Runtime0 /\ n.state = left.state /\ n.session = left.session
        /\ left.disposing => n.disposing
        /\ n.turn = left.turn /\ n.operations = left.operations
    BY <2>1, TidiedType
  <2>6. Minded(l)'
    <3>1. runtime'[l] = n
      BY <1>2, <2>2
    <3>2. CASE told
      BY <2>4, <3>1, <3>2 DEF Minded
    <3>3. CASE ~told
      <4>1. runtime'[l] = Tidied(left)
        BY <3>1, <3>3
      <4>2. left.turn = None \/ left.turn \in left.operations
        BY <1>1, <2>1 DEF Turns
      <4> QED BY <1>4, <2>1, <4>1, <4>2, TidiedMinded
    <3> QED BY <3>2, <3>3
  <2> HIDE DEF n
  <2>7. /\ request[r].pc \notin Opens \cup {"awaitGone"}
        /\ p.pc \notin Opens \cup {"awaitGone"}
        /\ p.pc # "free" => p.conn \in Conn /\ p.session \in Session
        /\ p.pc \in Refers => p.live \in Runtime /\ runtime[p.live].session \in Session
        /\ request[r].pc = "attach" => request[r].live = l
        /\ request[r].pc = "operating" => request[r].live = l /\ n.turn # r
    BY <1>4, <1>11, <2>0, <2>3 DEF Opens
  <2>8. Stays(l, n, r, p)
    BY <1>2, <1>4, <1>8, <1>11, <2>0, <2>1, <2>2, <2>3, <2>5, <2>6, <2>7 DEF Stays
  <2> QED BY <2>8, <2>3, <2>5, RuntimeStays
<1>12. ASSUME NEW l \in Runtime, l = live, NEW runs \in BOOLEAN,
              runtime' = [runtime EXCEPT ![l].operations = @ \cup {r},
                                         ![l].turn = IF runs THEN r ELSE @],
              request' = [request EXCEPT ![r] =
                [new EXCEPT !.live = l, !.pc = IF runs THEN "operating" ELSE "operated"]],
              UNCHANGED <<connection, publisher, openingSessions>>
       PROVE  SInv'
  <2> DEFINE n == [runtime[l] EXCEPT !.operations = @ \cup {r}, !.turn = IF runs THEN r ELSE @]
             p == [new EXCEPT !.live = l, !.pc = IF runs THEN "operating" ELSE "operated"]
  <2>0. runtime[l] \in Runtime0 /\ runtime[l].session = s
    BY <1>6, <1>12, NoneAssumption
  <2>1. /\ n \in Runtime0 /\ n.state = runtime[l].state /\ n.session = s
        /\ n.disposing = runtime[l].disposing /\ n.turn = IF runs THEN r ELSE runtime[l].turn
        /\ n.operations = runtime[l].operations \cup {r}
    BY <2>0 DEF Runtime0
  <2>2. runtime' = [runtime EXCEPT ![l] = n] /\ request' = [request EXCEPT ![r] = p]
    BY <1>2, <1>12
  <2>3. /\ p.pc = (IF runs THEN "operating" ELSE "operated")
        /\ p.conn = c /\ p.session = s /\ p.live = l
        /\ p \in Request0
    BY <1>3 DEF Request0
  <2> HIDE DEF n, p
  <2>4. Minded(l)'
    <3>1. runtime'[l] = n
      BY <1>2, <2>2
    <3> QED BY <2>1, <3>1 DEF Minded
  <2>5. request'[r] = p
    BY <1>2, <2>2
  <2>6. /\ request[r].pc \notin Opens \cup {"awaitGone"}
        /\ p.pc \notin Opens \cup {"awaitGone"}
        /\ p.pc # "free" => p.conn \in Conn /\ p.session \in Session
        /\ p.pc \in Refers => p.live \in Runtime /\ runtime[p.live].session \in Session
        /\ request[r].pc = "attach" => request[r].live = l
        /\ request[r].pc = "operating" => request[r].live = l /\ n.turn # r
    BY <1>4, <1>12, <2>0, <2>3 DEF Opens
  <2>7. \/ /\ n.turn = runtime[l].turn
           /\ \A x \in runtime[l].operations : request[x].pc = "operating" => x \in n.operations
        \/ /\ n.turn \in n.operations
           /\ request'[n.turn].pc = "operating" /\ request'[n.turn].live = l
    BY <2>1, <2>3, <2>5
  <2>8. Stays(l, n, r, p)
    BY <1>2, <1>4, <1>12, <2>0, <2>1, <2>2, <2>3, <2>4, <2>6, <2>7 DEF Stays
  <2> QED BY <2>8, <2>1, <2>3, RuntimeStays
<1>13. live # None => \E l \in Runtime : l = live
  BY <1>6
<1>14. \/ AcquireTurn(r, new) /\ UNCHANGED <<connection, runtime, publisher>>
       \/ /\ connection' = [connection EXCEPT ![c] = m] /\ UNCHANGED openingSessions
          /\ IF live = None
             THEN AskBroadcast /\ UNCHANGED <<request, runtime>>
             ELSE LET left == [runtime[live] EXCEPT !.connections = @ \ {c}]
                      told == left.connections # {} /\ ~left.terminal /\ ~left.disposing
                  IN  /\ runtime' = [runtime EXCEPT ![live] = IF told THEN left ELSE Tidied(left)]
                      /\ request' = [request EXCEPT ![r] =
                           [new EXCEPT !.live = live, !.pc = IF told THEN "detaching" ELSE "detached"]]
                      /\ UNCHANGED publisher
       \/ /\ live # None /\ UNCHANGED <<connection, publisher, openingSessions>>
          /\ \E runs \in BOOLEAN :
               /\ runtime' = [runtime EXCEPT ![live].operations = @ \cup {r},
                                             ![live].turn = IF runs THEN r ELSE @]
               /\ request' = [request EXCEPT ![r] =
                    [new EXCEPT !.live = live, !.pc = IF runs THEN "operating" ELSE "operated"]]
  <2>1. CASE command \in {"create", "attach"}
    BY <2>1 DEF Request
  <2>2. CASE command = "detach"
    <3>1. connection' = [connection EXCEPT ![c].sessionIds = @ \ {s}] =>
            connection' = [connection EXCEPT ![c] = m]
      BY <1>2 DEF m
    <3> HIDE DEF new
    <3> QED BY <2>2, <3>1 DEF Request, new
  <2>3. CASE command \in {"prompt", "control"}
    <3>1. (command = "prompt" /\ runtime[live].turn = None) \in BOOLEAN
      OBVIOUS
    <3> QED BY <2>3, <3>1 DEF Request
  <2> QED BY <2>1, <2>2, <2>3 DEF Commands
<1> HIDE DEF new
<1> QED BY <1>9, <1>10, <1>11, <1>12, <1>13, <1>14

------------------------------------------------------------------------------
(* Connections leave.                                                      *)

LEMMA DisconnectedType ==
  ASSUME TypeOK, NEW C \in SUBSET Conn, Disconnected(C)
  PROVE  /\ connection' \in [Conn -> Connection0] /\ publisher' \in Publisher0
         /\ \A c \in Conn : connection[c].stage = "closed" => connection'[c].stage = "closed"
         /\ \A c \in C : connection'[c].stage = "closed"
<1> DEFINE open == {c \in C : connection[c].stage # "closed"}
<1>1. connection \in [Conn -> Connection0] /\ publisher \in Publisher0
  BY Types
<1>2. ASSUME NEW c \in Conn
      PROVE  /\ [connection[c] EXCEPT !.stage = "closed", !.sessionIds = {}] \in Connection0
             /\ [connection[c] EXCEPT !.stage = "closed", !.sessionIds = {}].stage = "closed"
  <2>1. connection[c] \in Connection0
    BY <1>1
  <2> QED BY <2>1 DEF Connection0, Stages
<1>3. connection' = Shut(open)
  BY DEF Disconnected
<1>4. ASSUME NEW c \in Conn
      PROVE  /\ c \in open => connection'[c] = [connection[c] EXCEPT !.stage = "closed", !.sessionIds = {}]
             /\ c \notin open => connection'[c] = connection[c]
  BY <1>3 DEF Shut
<1>5. connection' \in [Conn -> Connection0]
  <2>1. \A c \in Conn : connection'[c] \in Connection0
    BY <1>1, <1>2, <1>4
  <2>2. connection' = [c \in Conn |-> connection'[c]]
    BY <1>3 DEF Shut
  <2> QED BY <2>1, <2>2
<1>6. publisher' \in Publisher0
  <2>1. publisher.asked \in BOOLEAN
    BY <1>1 DEF Publisher0
  <2>2. PICK b \in BOOLEAN : publisher' = [publisher EXCEPT !.asked = b]
    BY <2>1 DEF Disconnected
  <2> QED BY <1>1, <2>2 DEF Publisher0
<1> QED BY <1>2, <1>4, <1>5, <1>6

\* Who is left by his last connection is being disposed, or runs something.
LEMMA LeftMinded ==
  ASSUME SInv, NEW C \in SUBSET Conn, NEW l \in Runtime, runtime'[l] = Left(C)[l],
         UNCHANGED <<request, server>>
  PROVE  Minded(l)'
<1>1. TypeOK /\ Turns /\ Minded(l) /\ runtime[l] \in Runtime0
  BY AllMinded, Types DEF SInv
<1>2. /\ runtime'[l].state = runtime[l].state
      /\ runtime'[l].operations = runtime[l].operations
      /\ runtime[l].disposing => runtime'[l].disposing
      /\ runtime'[l].connections = {} /\ runtime[l].connections # {}
           /\ runtime[l].operations = {} /\ ~isClosing
           /\ (runtime[l].terminal \/ runtime[l].turn = None) => runtime'[l].disposing
  BY <1>1, LeftType
<1>3. runtime[l].operations = {} => runtime[l].turn = None
  BY <1>1 DEF Turns
<1> QED BY <1>1, <1>2, <1>3 DEF Minded, isClosing

\* Nothing but connections, the publisher and what runtimes are kept for changes.
LEMMA LeavingStep ==
  ASSUME SInv, NEW C \in SUBSET Conn, Disconnected(C), runtime' \in [Runtime -> Runtime0],
         \A l \in Runtime :
           /\ runtime'[l].session = runtime[l].session
           /\ runtime'[l].state = runtime[l].state
           /\ runtime'[l].operations = runtime[l].operations
           /\ runtime'[l].turn = runtime[l].turn
           /\ runtime[l].disposing => runtime'[l].disposing
           /\ Minded(l)',
         UNCHANGED <<request, liveSessions, openingSessions, stored, server>>
  PROVE  SInv'
<1>1. TypeOK /\ Core /\ Rest
  BY DEF SInv, Rest
<1>2. /\ connection' \in [Conn -> Connection0] /\ publisher' \in Publisher0
      /\ \A c \in Conn : connection[c].stage = "closed" => connection'[c].stage = "closed"
  BY <1>1, DisconnectedType
<1>3. TypeOK'
  BY <1>1, <1>2, Types, TypesNext
<1>4. Core'
  <2>1. Calm
    BY DEF Calm
  <2> QED BY <1>1, <2>1, CalmCore
<1>5. Onward
  BY <1>2 DEF Onward
<1> QED BY <1>1, <1>3, <1>4, <1>5, OnwardRest DEF SInv, Rest

LEMMA DisconnectStep ==
  ASSUME SInv, NEW c \in Conn, Disconnect(c)
  PROVE  SInv'
<1>1. TypeOK
  BY DEF SInv
<1>2. runtime' = Left({c}) /\ Disconnected({c})
      /\ UNCHANGED <<request, liveSessions, openingSessions, stored, server>>
  BY DEF Disconnect
<1>3. {c} \in SUBSET Conn
  OBVIOUS
<1>4. runtime' \in [Runtime -> Runtime0]
  <2>1. CASE Runtime = {}
    <3>1. Left({c}) = [l \in Runtime |-> Left({c})[l]]
      BY DEF Left
    <3> QED BY <1>2, <2>1, <3>1
  <2>2. CASE Runtime # {}
    BY <1>1, <1>2, <1>3, <2>2, LeftType
  <2> QED BY <2>1, <2>2
<1>5. ASSUME NEW l \in Runtime
      PROVE  /\ runtime'[l].session = runtime[l].session
             /\ runtime'[l].state = runtime[l].state
             /\ runtime'[l].operations = runtime[l].operations
             /\ runtime'[l].turn = runtime[l].turn
             /\ runtime[l].disposing => runtime'[l].disposing
             /\ Minded(l)'
  <2>1. Minded(l)'
    BY <1>2, <1>3, LeftMinded
  <2> QED BY <1>1, <1>2, <1>3, <2>1, LeftType
<1> QED BY <1>2, <1>3, <1>4, <1>5, LeavingStep

LEMMA TerminateStep ==
  ASSUME SInv, NEW l \in Runtime, Terminate(l)
  PROVE  SInv'
<1> DEFINE C == {c \in runtime[l].closes : connection[c].stage # "closed"}
           o == [Left(C)[l] EXCEPT !.closes = {}]
<1>1. TypeOK /\ Turns
  BY DEF SInv
<1>2. runtime[l] \in Runtime0
  BY <1>1, Types
<1>3. runtime[l].closes \in SUBSET Conn /\ C \in SUBSET Conn
  BY <1>2 DEF Runtime0
<1>4. /\ Disconnected(runtime[l].closes)
      /\ UNCHANGED <<request, liveSessions, openingSessions, stored, server>>
      /\ runtime' = [[Left(C) EXCEPT ![l].closes = {}] EXCEPT ![l] = Tidied(@)]
  BY DEF Terminate
<1> HIDE DEF C
<1>5. /\ Left(C) \in [Runtime -> Runtime0]
      /\ Left(C)[l] \in Runtime0
  BY <1>1, <1>3, LeftType
<1>6. /\ o \in Runtime0 /\ o.session = Left(C)[l].session /\ o.state = Left(C)[l].state
      /\ o.operations = Left(C)[l].operations /\ o.turn = Left(C)[l].turn
      /\ o.disposing = Left(C)[l].disposing
  BY <1>5 DEF Runtime0
<1>7. /\ runtime' \in [Runtime -> Runtime0]
      /\ runtime'[l] = Tidied(o)
      /\ \A k \in Runtime : k # l => runtime'[k] = Left(C)[k]
  <2>1. [Left(C) EXCEPT ![l].closes = {}] = [Left(C) EXCEPT ![l] = o]
    BY <1>5
  <2>2. runtime' = [Left(C) EXCEPT ![l] = Tidied(o)]
    <3> HIDE DEF o
    <3> QED BY <1>4, <1>5, <2>1
  <2>3. Tidied(o) \in Runtime0
    BY <1>6, TidiedType
  <2> HIDE DEF o
  <2> QED BY <1>5, <2>2, <2>3
<1> HIDE DEF o
<1>8. /\ Tidied(o).session = o.session /\ Tidied(o).state = o.state
      /\ Tidied(o).operations = o.operations /\ Tidied(o).turn = o.turn
      /\ o.disposing => Tidied(o).disposing
  BY <1>6, TidiedType
<1>9. ASSUME NEW k \in Runtime
      PROVE  /\ runtime'[k].session = runtime[k].session
             /\ runtime'[k].state = runtime[k].state
             /\ runtime'[k].operations = runtime[k].operations
             /\ runtime'[k].turn = runtime[k].turn
             /\ runtime[k].disposing => runtime'[k].disposing
             /\ Minded(k)'
  <2>1. /\ Left(C)[k].session = runtime[k].session
        /\ Left(C)[k].state = runtime[k].state
        /\ Left(C)[k].operations = runtime[k].operations
        /\ Left(C)[k].turn = runtime[k].turn
        /\ runtime[k].disposing => Left(C)[k].disposing
    BY <1>1, <1>3, LeftType
  <2>2. CASE k = l
    <3>1. o.turn = None \/ o.turn \in o.operations
      BY <1>1, <1>6, <2>1, <2>2 DEF Turns
    <3>2. Minded(l)'
      BY <1>4, <1>6, <1>7, <3>1, TidiedMinded
    <3> QED BY <1>6, <1>7, <1>8, <2>1, <2>2, <3>2
  <2>3. CASE k # l
    <3>1. Minded(k)'
      BY <1>3, <1>4, <1>7, <2>3, LeftMinded
    <3> QED BY <1>7, <2>1, <2>3, <3>1
  <2> QED BY <2>2, <2>3
<1> QED BY <1>3, <1>4, <1>7, <1>9, LeavingStep

------------------------------------------------------------------------------
(* The shutdown.                                                           *)

LEMMA CloseStep ==
  ASSUME SInv, Close
  PROVE  SInv'
<1>1. TypeOK /\ Core /\ Rest /\ server \in Server0
  BY Types DEF SInv, Rest
<1>2. /\ UNCHANGED <<connection, request, runtime, liveSessions, openingSessions, stored, publisher>>
      /\ server' = [server EXCEPT !.closing = "connections"]
      /\ server.closing = "no" /\ TaskIsOver
  BY DEF Close
<1>3. server' \in Server0 /\ server'.closing = "connections"
  BY <1>1, <1>2 DEF Server0
<1>4. TypeOK'
  BY <1>1, <1>2, <1>3, Types, TypesNext
<1>5. Waiting'
  <2> SUFFICES ASSUME NEW r \in Req, request[r].pc = "awaitGone", NEW l \in Runtime,
                      Held(l), runtime[l].session = request[r].session
               PROVE  l = request[r].live
    BY <1>1, <1>2 DEF Waiting, Core, Held, Discards
  <2>1. /\ request[r].live \in Runtime
        /\ runtime[request[r].live].session = request[r].session
        /\ runtime[request[r].live].state \in {"live", "gone"}
    BY <1>1 DEF Core, Refs, Refers, Waiting
  <2>2. runtime[request[r].live].state # "gone"
    BY <1>2 DEF TaskIsOver
  <2> QED BY <1>1, <2>1, <2>2 DEF Core, OnePerSession, Held
<1>6. Core'
  <2>1. Refs' /\ Opening' /\ Registering' /\ OnePerSession' /\ NeverLockedOut'
    BY <1>1, <1>2 DEF Core, Refs, Opening, Registering, OnePerSession, NeverLockedOut, Locked, Held
  <2>2. Served'
    BY <1>1, <1>2, <1>3 DEF Core, Served, Over
  <2>3. Closing'
    BY <1>3 DEF Closing, Over
  <2> QED BY <1>5, <2>1, <2>2, <2>3 DEF Core
<1>7. Rest'
  <2>1. Alone' /\ Going'
    BY <1>3 DEF Alone, Going, Over
  <2>2. Turns'
    BY <1>1, <1>2 DEF Rest, Turns
  <2>3. NoIdleRuntime'
    BY <1>3 DEF NoIdleRuntime, isClosing
  <2> QED BY <2>1, <2>2, <2>3 DEF Rest
<1> QED BY <1>4, <1>6, <1>7 DEF SInv, Rest

LEMMA CloseConnectionsStep ==
  ASSUME SInv, CloseConnections
  PROVE  SInv'
<1>1. TypeOK /\ Core /\ Rest
  BY DEF SInv, Rest
<1>2. /\ openingSessions \in [Session -> Req \cup {None}]
      /\ request \in [Req -> Request0] /\ liveSessions \in [Session -> Runtime \cup {None}]
      /\ stored \in SUBSET Session
  BY <1>1, Types
<1>3. /\ server.closing = "connections" /\ runtime' = Left(Conn) /\ Disconnected(Conn)
      /\ server' = [closing |-> "sessions",
                    awaited |-> {openingSessions[s] : s \in Session} \ {None}]
      /\ UNCHANGED <<request, liveSessions, openingSessions, stored>>
  BY DEF CloseConnections
<1>4. /\ connection' \in [Conn -> Connection0] /\ publisher' \in Publisher0
      /\ \A c \in Conn : connection'[c].stage = "closed"
  BY <1>1, <1>3, DisconnectedType
<1>5. runtime' \in [Runtime -> Runtime0]
  <2>1. CASE Runtime = {}
    <3>1. Left(Conn) = [l \in Runtime |-> Left(Conn)[l]]
      BY DEF Left
    <3> QED BY <1>3, <2>1, <3>1
  <2>2. CASE Runtime # {}
    BY <1>1, <1>3, <2>2, LeftType
  <2> QED BY <2>1, <2>2
<1>6. \A l \in Runtime : /\ runtime'[l].session = runtime[l].session
                         /\ runtime'[l].state = runtime[l].state
                         /\ runtime'[l].operations = runtime[l].operations
                         /\ runtime'[l].turn = runtime[l].turn
  BY <1>1, <1>3, LeftType
<1>7. server' \in Server0 /\ server'.closing = "sessions"
  BY <1>2, <1>3 DEF Server0
<1>8. TypeOK'
  BY <1>2, <1>3, <1>4, <1>5, <1>7, TypesNext
<1>9. Core'
  <2>1. Refs'
    BY <1>1, <1>3, <1>6 DEF Core, Refs
  <2>2. Opening' /\ Registering'
    BY <1>1, <1>3, <1>6 DEF Core, Opening, Registering, Refs, Refers, Keeps
  <2>3. Served'
    BY <1>1, <1>2, <1>3, <1>6 DEF Core, Served, Over
  <2>4. OnePerSession'
    BY <1>1, <1>6 DEF Core, OnePerSession, Held
  <2>5. Waiting'
    BY <1>1, <1>3, <1>6 DEF Core, Waiting, Discards, Held, isClosing, Refs, Refers
  <2>6. Closing'
    <3>1. ASSUME NEW r \in Req, request'[r].pc = "register"
          PROVE  r \in server'.awaited
      <4>1. request[r].session \in Session /\ openingSessions[request[r].session] = r
        BY <1>1, <1>3, <3>1 DEF Core, Refs, Opening, Opens
      <4> QED BY <1>3, <4>1, NoneAssumption
    <3>2. ASSUME NEW r \in server'.awaited
          PROVE  request'[r].pc # "awaitGone"
      <4>1. PICK s \in Session : r = openingSessions[s] /\ openingSessions[s] # None
        BY <1>3
      <4>2. request[r].pc \in Opens
        BY <1>1, <4>1 DEF Core, Opening
      <4> QED BY <1>3, <4>2 DEF Opens
    <3> QED BY <1>7, <3>1, <3>2 DEF Closing, Over
  <2>7. NeverLockedOut'
    BY <1>1, <1>3, <1>6 DEF Core, NeverLockedOut, Locked
  <2> QED BY <2>1, <2>2, <2>3, <2>4, <2>5, <2>6, <2>7 DEF Core
<1>10. Rest'
  <2>1. Alone' /\ Going'
    BY <1>4, <1>7 DEF Alone, Going, Over
  <2>2. Turns'
    BY <1>1, <1>3, <1>6 DEF Rest, Turns
  <2>3. NoIdleRuntime'
    BY <1>7 DEF NoIdleRuntime, isClosing
  <2> QED BY <2>1, <2>2, <2>3 DEF Rest
<1> QED BY <1>8, <1>9, <1>10 DEF SInv, Rest

LEMMA CloseSessionsStep ==
  ASSUME SInv, CloseSessions
  PROVE  SInv'
<1> DEFINE live == {liveSessions[s] : s \in Session} \ {None}
<1>1. TypeOK /\ Core /\ Rest
  BY DEF SInv, Rest
<1>2. /\ runtime \in [Runtime -> Runtime0] /\ server \in Server0
  BY <1>1, Types
<1>3. /\ server.closing = "sessions" /\ liveSessions' = [s \in Session |-> None]
      /\ \A r \in server.awaited : request[r].pc \notin {"open", "register", "discard"}
      /\ runtime' = [l \in Runtime |->
           IF l \in live /\ ~runtime[l].disposing
           THEN [runtime[l] EXCEPT !.disposing = TRUE] ELSE runtime[l]]
      /\ server' = [server EXCEPT !.closing = "runtimes"]
      /\ UNCHANGED <<connection, request, openingSessions, stored, publisher>>
  BY DEF CloseSessions
<1>4. ASSUME NEW l \in Runtime
      PROVE  /\ runtime'[l] \in Runtime0
             /\ runtime'[l].session = runtime[l].session
             /\ runtime'[l].state = runtime[l].state
             /\ runtime'[l].operations = runtime[l].operations
             /\ runtime'[l].turn = runtime[l].turn
             /\ l \in live => runtime'[l].disposing
  <2>1. runtime[l] \in Runtime0
    BY <1>2
  <2> HIDE DEF live
  <2>2. runtime'[l] = IF l \in live /\ ~runtime[l].disposing
                      THEN [runtime[l] EXCEPT !.disposing = TRUE] ELSE runtime[l]
    BY <1>3
  <2> QED BY <2>1, <2>2 DEF Runtime0
<1>5. runtime' \in [Runtime -> Runtime0]
  <2> HIDE DEF live
  <2> QED BY <1>3, <1>4
<1>6. server' \in Server0 /\ server'.closing = "runtimes"
  BY <1>2, <1>3 DEF Server0
<1>7. TypeOK'
  BY <1>1, <1>3, <1>5, <1>6, Types, TypesNext
<1>8. Core'
  <2>1. Refs'
    BY <1>1, <1>3, <1>4 DEF Core, Refs
  <2>2. Opening' /\ Registering'
    BY <1>1, <1>3, <1>4 DEF Core, Opening, Registering, Refs, Refers, Keeps
  <2>3. Served'
    BY <1>1, <1>3, <1>4, <1>6 DEF Core, Served, Over
  <2>4. OnePerSession'
    BY <1>1, <1>4 DEF Core, OnePerSession, Held
  <2>5. Waiting'
    BY <1>1, <1>3, <1>4 DEF Core, Waiting, Discards, Held, isClosing, Refs, Refers
  <2>6. Closing'
    <3>1. server'.awaited = server.awaited /\ server.awaited \subseteq Req
      BY <1>2, <1>3 DEF Server0
    <3> QED BY <1>1, <1>3, <1>6, <3>1 DEF Core, Closing, Over, Opens
  <2>7. NeverLockedOut'
    BY <1>1, <1>3, <1>4 DEF Core, NeverLockedOut, Locked
  <2> QED BY <2>1, <2>2, <2>3, <2>4, <2>5, <2>6, <2>7 DEF Core
<1>9. Rest'
  <2>1. Alone'
    BY <1>1, <1>3 DEF Rest, Alone
  <2>2. Going'
    <3> SUFFICES ASSUME NEW l \in Runtime, runtime'[l].state = "live"
                 PROVE  runtime'[l].disposing
      BY DEF Going
    <3>1. runtime[l].session \in Session /\ liveSessions[runtime[l].session] = l
      BY <1>1, <1>3, <1>4 DEF Core, Served, Over
    <3>2. l \in live
      BY <3>1, NoneAssumption
    <3> QED BY <1>4, <3>2
  <2>3. Turns'
    BY <1>1, <1>3, <1>4 DEF Rest, Turns
  <2>4. NoIdleRuntime'
    BY <1>6 DEF NoIdleRuntime, isClosing
  <2> QED BY <2>1, <2>2, <2>3, <2>4 DEF Rest
<1> QED BY <1>7, <1>8, <1>9 DEF SInv, Rest

LEMMA ClosedStep ==
  ASSUME SInv, Closed
  PROVE  SInv'
<1>1. TypeOK /\ Core /\ Rest /\ server \in Server0
  BY Types DEF SInv, Rest
<1>2. /\ server.closing = "runtimes"
      /\ \A l \in Runtime : runtime[l].disposing => runtime[l].state = "gone"
      /\ server' = [server EXCEPT !.closing = "closed"]
      /\ UNCHANGED <<connection, request, runtime, liveSessions, openingSessions, stored, publisher>>
  BY DEF Closed
<1>3. server' \in Server0 /\ server'.closing = "closed"
  BY <1>1, <1>2 DEF Server0
<1>4. TypeOK'
  BY <1>1, <1>2, <1>3, Types, TypesNext
<1>5. \A l \in Runtime : runtime[l].state # "live"
  BY <1>1, <1>2 DEF Rest, Going, Over
<1>6. Core'
  <2>1. Refs' /\ Opening' /\ Registering' /\ OnePerSession' /\ NeverLockedOut'
    BY <1>1, <1>2 DEF Core, Refs, Opening, Registering, OnePerSession, NeverLockedOut, Locked, Held
  <2>2. Served'
    BY <1>1, <1>2, <1>3 DEF Core, Served, Over
  <2>3. Waiting'
    BY <1>1, <1>2 DEF Core, Waiting, Discards, isClosing, Held
  <2>4. Closing'
    <3>1. server'.awaited = server.awaited
      BY <1>1, <1>2 DEF Server0
    <3> QED BY <1>1, <1>2, <1>3, <1>5, <3>1 DEF Core, Closing, Over
  <2> QED BY <2>1, <2>2, <2>3, <2>4 DEF Core
<1>7. Rest'
  <2>1. Alone' /\ Going' /\ Turns'
    BY <1>1, <1>2, <1>3 DEF Rest, Alone, Going, Turns, Over
  <2>2. NoIdleRuntime'
    BY <1>3 DEF NoIdleRuntime, isClosing
  <2> QED BY <2>1, <2>2 DEF Rest
<1> QED BY <1>4, <1>6, <1>7 DEF SInv, Rest

------------------------------------------------------------------------------
(* The theorems.                                                           *)

LEMMA InitInv ==
  Init => SInv
<1> SUFFICES ASSUME Init
             PROVE  SInv
  OBVIOUS
<1>1. NoRequest \in Request0 /\ NoRuntime \in Runtime0
  BY DEF NoRequest, Request0, NoRuntime, Runtime0
<1>2. connection \in [Conn -> Connection0]
  <2>1. NewConnection \in Connection0
    BY DEF NewConnection, NoView, Connection0, View0, Stages
  <2>2. [NewConnection EXCEPT !.stage = "ready", !.greeted = TRUE, !.view.known = Seeded] \in Connection0
    BY SeededAssumption DEF NewConnection, NoView, Connection0, View0, Stages
  <2> HIDE DEF NewConnection
  <2> QED BY <2>1, <2>2 DEF Init
<1>3. TypeOK
  <2>1. request \in [Req -> Request0] /\ runtime \in [Runtime -> Runtime0]
    BY <1>1 DEF Init
  <2>2. /\ liveSessions \in [Session -> Runtime \cup {None}]
        /\ openingSessions \in [Session -> Req \cup {None}]
        /\ stored \in SUBSET Session
    BY SeededAssumption DEF Init
  <2>3. publisher \in Publisher0 /\ server \in Server0
    BY DEF Init, Publisher0, Server0
  <2> QED BY <1>2, <2>1, <2>2, <2>3, Types
<1>4. /\ \A r \in Req : request[r].pc = "free"
      /\ \A l \in Runtime : runtime[l].state = "free" /\ runtime[l].turn = None
      /\ \A s \in Session : liveSessions[s] = None /\ openingSessions[s] = None
      /\ server.closing = "no"
  BY DEF Init, NoRequest, NoRuntime
<1>5. Core
  <2>1. Refs /\ Opening /\ Registering
    BY <1>4 DEF Refs, Opening, Registering, Refers, Opens, Keeps
  <2>2. Served /\ OnePerSession /\ Waiting /\ Closing /\ NeverLockedOut
    BY <1>4 DEF Served, OnePerSession, Waiting, Closing, NeverLockedOut, Held, Over, Locked
  <2> QED BY <2>1, <2>2 DEF Core
<1>6. Alone /\ Going /\ Turns /\ NoIdleRuntime
  BY <1>4 DEF Alone, Going, Turns, NoIdleRuntime, Over
<1> QED BY <1>3, <1>5, <1>6 DEF SInv

LEMMA NextInv ==
  SInv /\ [Next]_vars => SInv'
<1> SUFFICES ASSUME SInv, [Next]_vars
             PROVE  SInv'
  OBVIOUS
<1>1. CASE UNCHANGED vars
  <2>1. connection' \in [Conn -> Connection0] /\ publisher' \in Publisher0
    BY <1>1, Types DEF SInv, vars
  <2> QED BY <1>1, <2>1, QuietStep DEF vars
<1>2. ASSUME NEW c \in Conn, ConnectionStep(c) \/ FailProtocol(c) \/ Disconnect(c)
      PROVE  SInv'
  BY <1>2, ConnectionSteps, DisconnectStep
<1>3. ASSUME NEW c \in Conn, NEW r \in Req, NEW command \in Commands, NEW s \in Session,
             Request(c, r, command, s)
      PROVE  SInv'
  BY <1>3, RequestReceived
<1>4. ASSUME NEW r \in Req, RequestStep(r)
      PROVE  SInv'
  BY <1>4, AcquireAgainStep, OpenSteps, AttachStep, AnswerSteps, DetachingStep, OperatedStep
     DEF RequestStep
<1>5. ASSUME NEW l \in Runtime, RuntimeStep(l) \/ RuntimeError(l)
      PROVE  SInv'
  BY <1>5, TurnEndsStep, TerminateStep, DisposeStep, RuntimeErrorStep DEF RuntimeStep
<1>6. CASE ServerStep \/ Close \/ BroadcastFails
  BY <1>6, BroadcastStep, BroadcastFailsStep, CloseConnectionsStep, CloseSessionsStep, ClosedStep,
     CloseStep
     DEF ServerStep
<1> QED BY <1>1, <1>2, <1>3, <1>4, <1>5, <1>6 DEF Next

LEMMA SInvAlways == Spec => []SInv
<1> QED BY InitInv, NextInv, PTL DEF Spec

\* Every state of the server is well typed.
THEOREM ServerTypeCorrect == Spec => []TypeOK
<1>1. SInv => TypeOK
  BY DEF SInv
<1> QED BY <1>1, SInvAlways, PTL

\* The backend is never asked to open a session whose lock the server still holds: that
\* openings, live sessions and waits for a disposal agree is what makes it so.
THEOREM NeverLockedOutHolds == Spec => []NeverLockedOut
<1>1. SInv => NeverLockedOut
  BY DEF SInv, Core
<1> QED BY <1>1, SInvAlways, PTL

\* A live runtime that nobody uses is being disposed, or about to be attached to.
THEOREM NoIdleRuntimeHolds == Spec => []NoIdleRuntime
<1>1. SInv => NoIdleRuntime
  BY DEF SInv
<1> QED BY <1>1, SInvAlways, PTL

\* When the shutdown has ended nothing is live, and what is still held is being discarded by an
\* opening that began after the openings were listed: the others ended before.
THEOREM NothingLeftBehindHolds == Spec => []NothingLeftBehind
<1>1. ASSUME SInv, server.closing = "closed", NEW l \in Runtime
      PROVE  /\ runtime[l].state # "live"
             /\ runtime[l].state = "acquired" =>
                  \E r \in Req \ server.awaited : request[r].pc = "discard" /\ request[r].live = l
  <2>1. Core /\ Over
    BY <1>1 DEF SInv, Over
  <2>2. runtime[l].state # "live"
    BY <1>1, <2>1 DEF Core, Closing
  <2>3. ASSUME runtime[l].state = "acquired"
        PROVE  \E r \in Req \ server.awaited : request[r].pc = "discard" /\ request[r].live = l
    <3>1. PICK r \in Req : request[r].pc \in Keeps /\ request[r].live = l
      BY <2>1, <2>3 DEF Core, Registering
    <3>2. request[r].pc = "discard" /\ r \notin server.awaited
      BY <2>1, <3>1 DEF Core, Closing, Keeps, Opens
    <3> QED BY <3>1, <3>2
  <2> QED BY <2>2, <2>3
<1>2. SInv => NothingLeftBehind
  BY <1>1 DEF NothingLeftBehind
<1> QED BY <1>2, SInvAlways, PTL

\* A runtime with an operation in it is not disposed by maybeDispose.
LEMMA BusyStays ==
  ASSUME NEW o \in Runtime0, o.operations # {}, ~o.disposing
  PROVE  ~Tidied(o).disposing
BY TidiedType

LEMMA TurnStays ==
  ASSUME SInv, [Next]_vars, NEW l \in Runtime, runtime[l].turn # None, ~runtime[l].disposing, ~isClosing
  PROVE  ~runtime'[l].disposing
<1>1. TypeOK /\ Core /\ Turns
  BY DEF SInv
<1>2. /\ runtime \in [Runtime -> Runtime0] /\ runtime[l] \in Runtime0
      /\ request \in [Req -> Request0] /\ liveSessions \in [Session -> Runtime \cup {None}]
  BY <1>1, Types
<1>3. /\ runtime[l].turn \in runtime[l].operations
      /\ request[runtime[l].turn].pc = "operating" /\ request[runtime[l].turn].live = l
  BY <1>1 DEF Turns
<1>4. CASE UNCHANGED runtime
  BY <1>4
<1>5. ASSUME NEW c \in Conn, ConnectionStep(c) \/ FailProtocol(c)
      PROVE  UNCHANGED runtime
  BY <1>5 DEF ConnectionStep, Hello, HelloListed, HelloSent, CatchUp, Send, FailProtocol
<1>6. ASSUME NEW C \in SUBSET Conn
      PROVE  ~Left(C)[l].disposing /\ Left(C)[l] \in Runtime0 /\ Left(C)[l].operations # {}
  <2>1. Left(C)[l] \in Runtime0
    BY <1>1, LeftType
  <2> QED BY <1>1, <1>3, <2>1, LeftType
<1>7. ASSUME NEW c \in Conn, Disconnect(c)
      PROVE  ~runtime'[l].disposing
  <2>1. {c} \in SUBSET Conn /\ runtime' = Left({c})
    BY <1>7 DEF Disconnect
  <2> QED BY <1>6, <2>1
<1>8. ASSUME NEW c \in Conn, NEW r \in Req, NEW command \in Commands, NEW s \in Session,
             Request(c, r, command, s)
      PROVE  ~runtime'[l].disposing
  <2> DEFINE live == liveSessions[s]
             left == [runtime[live] EXCEPT !.connections = @ \ {c}]
  <2>1. \/ UNCHANGED runtime
        \/ runtime' = [runtime EXCEPT ![live] = left]
        \/ runtime' = [runtime EXCEPT ![live] = Tidied(left)]
        \/ \E runs \in BOOLEAN :
             runtime' = [runtime EXCEPT ![live].operations = @ \cup {r},
                                        ![live].turn = IF runs THEN r ELSE @]
    <3>1. CASE command \in {"create", "attach"}
      BY <1>8, <3>1 DEF Request
    <3>2. CASE command = "detach"
      BY <1>8, <3>2 DEF Request
    <3>3. CASE command \in {"prompt", "control"}
      <4>1. (command = "prompt" /\ runtime[live].turn = None) \in BOOLEAN
        OBVIOUS
      <4> QED BY <1>8, <3>3, <4>1 DEF Request
    <3> QED BY <3>1, <3>2, <3>3 DEF Commands
  <2>2. CASE live # l
    BY <1>2, <2>1, <2>2
  <2>3. CASE live = l
    <3>1. left \in Runtime0 /\ left.operations # {} /\ ~left.disposing
      BY <1>2, <1>3, <2>3 DEF Runtime0
    <3>2. ~Tidied(left).disposing
      BY <3>1, BusyStays
    <3>3. ASSUME NEW runs \in BOOLEAN,
                 runtime' = [runtime EXCEPT ![l].operations = @ \cup {r},
                                            ![l].turn = IF runs THEN r ELSE @]
          PROVE  ~runtime'[l].disposing
      BY <1>2, <3>3 DEF Runtime0
    <3> HIDE DEF left
    <3> QED BY <1>2, <2>1, <2>3, <3>1, <3>2, <3>3
  <2> QED BY <2>2, <2>3
<1>9. ASSUME NEW r \in Req, RequestStep(r)
      PROVE  ~runtime'[l].disposing
  <2>1. CASE \/ AcquireAgain(r) \/ OpenRejected(r) \/ RegisterFails(r)
             \/ Attached(r) \/ AttachedUntold(r) \/ DetachingUntold(r) \/ Detached(r)
    <3>1. UNCHANGED runtime
      BY <2>1, Zenon DEF AcquireAgain, OpenRejected, RegisterFails, Attached, AttachedUntold,
                         DetachingUntold, Detached
    <3> QED BY <1>4, <3>1
  <2>2. ASSUME NEW k \in Runtime, Opened(r, k)
        PROVE  ~runtime'[l].disposing
    <3> DEFINE n == [NoRuntime EXCEPT !.session = request[r].session, !.state = "acquired"]
    <3>1. runtime' = [runtime EXCEPT ![k] = n]
      BY <2>2 DEF Opened
    <3>2. ~n.disposing
      BY DEF NoRuntime
    <3> HIDE DEF n
    <3> QED BY <1>2, <3>1, <3>2
  <2>3. CASE Register(r) \/ Discarded(r)
    <3> PICK k : k = request[r].live
      OBVIOUS
    <3>1. \/ runtime' = [runtime EXCEPT ![k] = [runtime[k] EXCEPT !.state = "live"]]
          \/ runtime' = [runtime EXCEPT ![k] = [runtime[k] EXCEPT !.state = "gone"]]
      <4>1. CASE Register(r)
        BY <1>2, <4>1 DEF Register
      <4>2. CASE Discarded(r)
        BY <4>2 DEF Discarded
      <4> QED BY <2>3, <4>1, <4>2
    <3>2. runtime'[l].disposing = runtime[l].disposing
      BY <1>2, <3>1 DEF Runtime0
    <3> QED BY <3>2
  <2>4. CASE Attach(r) \/ Detaching(r)
    <3>1. \/ runtime' = [runtime EXCEPT ![request[r].live].connections = @ \cup {request[r].conn}]
          \/ runtime' = [runtime EXCEPT ![request[r].live] = Tidied(runtime[request[r].live])]
      BY <2>4 DEF Attach, Detaching
    <3>2. ~Tidied(runtime[l]).disposing
      BY <1>2, <1>3, BusyStays
    <3> QED BY <1>2, <3>1, <3>2 DEF Runtime0
  <2>5. CASE Operated(r)
    <3> DEFINE o == [runtime[l] EXCEPT !.operations = @ \ {r}]
    <3>1. request[r].pc = "operated" /\ r # runtime[l].turn
      BY <1>3, <2>5 DEF Operated
    <3>2. o \in Runtime0 /\ o.operations # {} /\ ~o.disposing
      BY <1>2, <1>3, <3>1 DEF Runtime0
    <3>3. ~Tidied(o).disposing
      BY <3>2, BusyStays
    <3>4. runtime' = [runtime EXCEPT ![request[r].live] =
                        Tidied([runtime[request[r].live] EXCEPT !.operations = @ \ {r}])]
      BY <2>5 DEF Operated
    <3>5. CASE request[r].live = l
      BY <1>2, <3>3, <3>4, <3>5
    <3>6. CASE request[r].live # l
      BY <1>2, <3>4, <3>6
    <3> QED BY <3>5, <3>6
  <2> QED BY <1>9, <2>1, <2>2, <2>3, <2>4, <2>5 DEF RequestStep
<1>10. ASSUME NEW k \in Runtime, RuntimeStep(k) \/ RuntimeError(k)
       PROVE  ~runtime'[l].disposing
  <2>1. CASE k # l /\ ~Terminate(k)
    BY <1>2, <1>10, <2>1 DEF RuntimeStep, RuntimeError, TurnEnds, Dispose
  <2>2. CASE k = l /\ TurnEnds(k)
    <3> DEFINE idle == [runtime[l] EXCEPT !.turn = None]
    <3>1. idle \in Runtime0 /\ idle.operations # {} /\ ~idle.disposing
      BY <1>2, <1>3 DEF Runtime0
    <3>2. ~Tidied(idle).disposing
      BY <3>1, BusyStays
    <3>3. runtime'[l] = IF idle.terminal THEN idle ELSE Tidied(idle)
      BY <1>2, <2>2 DEF TurnEnds
    <3> HIDE DEF idle
    <3> QED BY <3>1, <3>2, <3>3
  <2>3. CASE k = l /\ RuntimeError(k)
    <3> DEFINE dead == [runtime[l] EXCEPT !.terminal = TRUE, !.closes = runtime[l].connections]
    <3>1. dead \in Runtime0 /\ dead.operations # {} /\ ~dead.disposing
      BY <1>2, <1>3 DEF Runtime0
    <3>2. ~Tidied(dead).disposing
      BY <3>1, BusyStays
    <3>3. runtime'[l] = IF dead.closes = {} THEN Tidied(dead) ELSE dead
      BY <1>2, <2>3 DEF RuntimeError
    <3> HIDE DEF dead
    <3> QED BY <3>1, <3>2, <3>3
  <2>4. CASE k = l /\ Dispose(k)
    BY <2>4 DEF Dispose
  <2>5. CASE Terminate(k)
    <3> DEFINE C == {c \in runtime[k].closes : connection[c].stage # "closed"}
               o == [Left(C)[k] EXCEPT !.closes = {}]
    <3>1. C \in SUBSET Conn
      BY <1>2 DEF Runtime0
    <3>2. runtime' = [[Left(C) EXCEPT ![k].closes = {}] EXCEPT ![k] = Tidied(@)]
      BY <2>5 DEF Terminate
    <3> HIDE DEF C
    <3>3. Left(C) \in [Runtime -> Runtime0]
      BY <1>1, <3>1, LeftType
    <3>4. ~Left(C)[l].disposing /\ Left(C)[l] \in Runtime0 /\ Left(C)[l].operations # {}
      BY <1>6, <3>1
    <3>5. CASE k # l
      BY <3>2, <3>3, <3>4, <3>5
    <3>6. CASE k = l
      <4>1. o \in Runtime0 /\ o.operations # {} /\ ~o.disposing
        BY <3>4, <3>6 DEF Runtime0
      <4>2. ~Tidied(o).disposing
        BY <4>1, BusyStays
      <4>3. runtime'[l] = Tidied(o)
        BY <3>2, <3>3, <3>6
      <4> QED BY <4>2, <4>3
    <3> QED BY <3>5, <3>6
  <2> QED BY <1>10, <2>1, <2>2, <2>3, <2>4, <2>5 DEF RuntimeStep
<1>11. CASE ServerStep \/ Close \/ BroadcastFails
  BY <1>4, <1>11 DEF ServerStep, Broadcast, BroadcastFails, CloseConnections, CloseSessions, Closed, Close, isClosing
<1>12. CASE UNCHANGED vars
  BY <1>4, <1>12 DEF vars
<1> QED BY <1>4, <1>5, <1>7, <1>8, <1>9, <1>10, <1>11, <1>12 DEF Next

\* A turn is an operation of its runtime until it ends, so no disposal begins under it but
\* the shutdown's.
THEOREM TurnsAreKeptHolds == Spec => TurnsAreKept
<1>1. SInv /\ [Next]_vars =>
        [\A l \in Runtime :
           runtime[l].turn # None /\ runtime'[l].disposing =>
             runtime[l].terminal \/ runtime[l].disposing \/ isClosing]_vars
  BY TurnStays
<1> QED BY <1>1, SInvAlways, PTL DEF Spec, TurnsAreKept

------------------------------------------------------------------------------
(* What clients were told.  The invariant says who will yet tell them: the *)
(* publisher, or a step that is under way and ends by asking for a         *)
(* broadcast.                                                              *)

Young(c) == connection[c].stage \in {"awaitingHello", "handshaking", "listed"}
Truth(c) == {s \in connection[c].sessionIds : Serving(s)}
Due(c)   == publisher.asked \/ c \in publisher.to
Leaves   == {"detaching", "detached"}
Uses     == {"awaitGone", "attach", "attached", "detaching", "detached", "operating", "operated"}
Leaving  == \E r \in Req : request[r].pc \in Leaves
Joining  == \E r \in Req : request[r].pc = "attached"
Ending   == \E l \in Runtime : runtime[l].disposing /\ runtime[l].state = "live"

\* Who is not ready is attached to nothing, and was told so.
Newcomers == \A c \in Conn : Young(c) =>
  connection[c].sessionIds = {} /\ connection[c].view.attached = {}

\* The runtime that a request goes on with is live, or is or was being disposed.
Used == \A r \in Req : request[r].pc \in Uses =>
  runtime[request[r].live].state = "live" \/ runtime[request[r].live].disposing

\* The two records of an attachment agree, but for a runtime that is being disposed.
Joined == \A l \in Runtime : ~runtime[l].disposing => \A c \in runtime[l].connections :
  /\ runtime[l].state = "live"
  /\ connection[c].stage # "closed" => runtime[l].session \in connection[c].sessionIds

\* An attachment that is no more was untold, or will be.
NoneTooMany == \A c \in Conn : Ready(c) =>
  connection[c].view.attached \subseteq Truth(c) \/ Due(c) \/ Leaving \/ Ending

\* An attachment was told, or will be.
NoneTooFew ==
  \A l \in Runtime : ~runtime[l].disposing => \A c \in runtime[l].connections : Ready(c) =>
    runtime[l].session \in connection[c].view.attached \/ Due(c) \/ Joining

Told == Newcomers /\ Used /\ Joined /\ NoneTooMany /\ NoneTooFew
TInv == SInv /\ (~isClosing /\ "snapshot" \notin Faults => Told)

\* Steps that keep what clients are told: for a connection, ...
Visits(c) ==
  /\ connection'[c].stage # "closed" => connection[c].stage # "closed"
  /\ Young(c)' => Young(c) /\ connection'[c].sessionIds = connection[c].sessionIds
  /\ Ready(c)' => Ready(c) \/ Young(c)
  /\ connection'[c].view.attached = connection[c].view.attached \/ connection'[c].view.attached = Truth(c)'
  /\ Ready(c)' /\ Due(c) => Due(c)' \/ connection'[c].view.attached = Truth(c)'
  /\ Ready(c)' => \/ connection[c].sessionIds \subseteq connection'[c].sessionIds
                  \/ publisher'.asked \/ Leaving'

\* ... a runtime, which is a new one or goes on, ...
Runs(l) ==
  /\ runtime[l].disposing /\ runtime[l].state = "live" =>
       (runtime'[l].disposing /\ runtime'[l].state = "live") \/ publisher'.asked
  /\ \/ /\ runtime'[l].connections = {}
        /\ \A r \in Req : request'[r].pc \in Uses => request'[r].live # l
     \/ /\ runtime'[l].session = runtime[l].session
        /\ runtime[l].disposing => runtime'[l].disposing
        /\ runtime[l].state = "live" => runtime'[l].state = "live" \/ runtime'[l].disposing
        /\ ~runtime'[l].disposing => \A c \in runtime'[l].connections :
             \/ /\ c \in runtime[l].connections
                /\ connection'[c].stage # "closed" /\ runtime[l].session \in connection[c].sessionIds =>
                     runtime[l].session \in connection'[c].sessionIds
             \/ /\ runtime'[l].state = "live"
                /\ runtime[l].session \in connection'[c].sessionIds
                /\ Joining'

\* ... and a request.
Asks(r) ==
  /\ request[r].pc = "attached" => request'[r].pc = "attached" \/ publisher'.asked
  /\ request[r].pc \in Leaves => request'[r].pc \in Leaves \/ publisher'.asked
  /\ request'[r].pc \in Uses =>
       \/ request[r].pc \in Uses /\ request'[r].live = request[r].live
       \/ runtime'[request'[r].live].state = "live"
       \/ runtime'[request'[r].live].disposing

Steady ==
  /\ \A c \in Conn : Visits(c)
  /\ \A l \in Runtime : Runs(l)
  /\ \A s \in Session : Serving(s) => Serving(s)' \/ Ending'
  /\ \A r \in Req : Asks(r)

LEMMA SteadyTold ==
  ASSUME SInv, SInv', Told, ~isClosing', Steady
  PROVE  Told'
<1>1. Newcomers'
  <2> SUFFICES ASSUME NEW c \in Conn, Young(c)'
               PROVE  connection'[c].sessionIds = {} /\ connection'[c].view.attached = {}
    BY DEF Newcomers, Young
  <2>1. Visits(c)
    BY DEF Steady
  <2>2. connection[c].sessionIds = {} /\ connection[c].view.attached = {}
    BY <2>1 DEF Visits, Told, Newcomers
  <2> QED BY <2>1, <2>2 DEF Visits, Truth
<1>2. Used'
  <2> SUFFICES ASSUME NEW r \in Req, request'[r].pc \in Uses
               PROVE  \/ runtime'[request'[r].live].state = "live"
                      \/ runtime'[request'[r].live].disposing
    BY DEF Used
  <2>1. CASE request[r].pc \in Uses /\ request'[r].live = request[r].live
    <3> PICK l : l = request[r].live
      OBVIOUS
    <3>1. l \in Runtime
      BY <2>1 DEF SInv, Core, Refs, Uses, Refers
    <3>2. runtime[l].state = "live" \/ runtime[l].disposing
      BY <2>1 DEF Told, Used
    <3>3. Runs(l)
      BY <3>1 DEF Steady
    <3> QED BY <2>1, <3>2, <3>3 DEF Runs
  <2>2. Asks(r)
    BY DEF Steady
  <2> QED BY <2>1, <2>2 DEF Asks
<1>3. Joined'
  <2> SUFFICES ASSUME NEW l \in Runtime, ~runtime'[l].disposing, NEW c \in runtime'[l].connections
               PROVE  /\ runtime'[l].state = "live"
                      /\ connection'[c].stage # "closed" =>
                           runtime'[l].session \in connection'[c].sessionIds
    BY DEF Joined
  <2>1. c \in Conn
    <3>1. runtime'[l] \in Runtime0
      BY DEF SInv, TypeOK, Runtime0
    <3> QED BY <3>1 DEF Runtime0
  <2>2. Runs(l) /\ Visits(c)
    BY <2>1 DEF Steady
  <2>3. CASE /\ runtime'[l].state = "live"
             /\ runtime[l].session \in connection'[c].sessionIds
             /\ runtime'[l].session = runtime[l].session
    BY <2>3
  <2>4. CASE /\ c \in runtime[l].connections
             /\ connection'[c].stage # "closed" /\ runtime[l].session \in connection[c].sessionIds =>
                  runtime[l].session \in connection'[c].sessionIds
             /\ runtime'[l].session = runtime[l].session
             /\ runtime[l].disposing => runtime'[l].disposing
             /\ runtime[l].state = "live" => runtime'[l].state = "live" \/ runtime'[l].disposing
    <3>1. /\ runtime[l].state = "live"
          /\ connection[c].stage # "closed" => runtime[l].session \in connection[c].sessionIds
      BY <2>4 DEF Told, Joined
    <3> QED BY <2>2, <2>4, <3>1 DEF Visits
  <2> QED BY <2>2, <2>3, <2>4 DEF Runs
<1>4. NoneTooMany'
  <2> SUFFICES ASSUME NEW c \in Conn, Ready(c)', ~publisher'.asked, ~Leaving', ~Ending',
                      ~Due(c)', NEW s \in connection'[c].view.attached
               PROVE  s \in Truth(c)'
    BY DEF NoneTooMany, Due
  <2>1. Visits(c)
    BY DEF Steady
  <2>2. CASE connection'[c].view.attached = Truth(c)'
    BY <2>2
  <2>3. CASE connection'[c].view.attached = connection[c].view.attached /\ ~(connection'[c].view.attached = Truth(c)')
    <3>1. Ready(c) /\ ~Due(c)
      <4>1. ~Young(c)
        BY <2>3 DEF Told, Newcomers
      <4> QED BY <2>1, <2>3, <4>1 DEF Visits
    <3>2. ~Leaving
      BY DEF Steady, Asks, Leaving
    <3>3. ~Ending
      BY DEF Steady, Runs, Ending
    <3>4. s \in connection[c].sessionIds /\ Serving(s)
      BY <2>3, <3>1, <3>2, <3>3 DEF Told, NoneTooMany, Truth
    <3>5. s \in connection'[c].sessionIds
      BY <2>1, <3>4 DEF Visits
    <3>6. s \in Session
      <4>1. connection[c] \in Connection0
        BY Types DEF SInv
      <4> QED BY <3>4, <4>1 DEF Connection0
    <3>7. Serving(s)'
      BY <3>4, <3>6 DEF Steady
    <3> QED BY <3>5, <3>7 DEF Truth
  <2> QED BY <2>1, <2>2, <2>3 DEF Visits
<1>5. NoneTooFew'
  <2> SUFFICES ASSUME NEW l \in Runtime, ~runtime'[l].disposing,
                      NEW c \in runtime'[l].connections, Ready(c)', ~Due(c)', ~Joining'
               PROVE  runtime'[l].session \in connection'[c].view.attached
    BY DEF NoneTooFew
  <2>1. c \in Conn /\ runtime'[l] \in Runtime0
    <3>1. runtime'[l] \in Runtime0
      BY DEF SInv, TypeOK, Runtime0
    <3> QED BY <3>1 DEF Runtime0
  <2>2. Runs(l) /\ Visits(c)
    BY <2>1 DEF Steady
  <2>3. /\ c \in runtime[l].connections /\ ~runtime[l].disposing
        /\ runtime'[l].session = runtime[l].session
    BY <2>2 DEF Runs
  <2>4. ~Joining
    BY DEF Steady, Asks, Joining, Due
  <2>5. runtime'[l].state = "live" /\ runtime'[l].session \in connection'[c].sessionIds
    BY <1>3 DEF Joined, Ready
  <2>6. runtime'[l].session \in Truth(c)'
    <3>1. ~Over'
      BY DEF isClosing, Over
    <3>2. liveSessions'[runtime'[l].session] = l
      BY <2>5, <3>1 DEF SInv, Core, Served
    <3>3. l # None
      BY NoneAssumption
    <3> QED BY <2>5, <3>2, <3>3 DEF Truth, Serving
  <2>7. CASE connection'[c].view.attached = Truth(c)'
    BY <2>6, <2>7
  <2>8. CASE ~(connection'[c].view.attached = Truth(c)')
    <3>1. connection'[c].view.attached = connection[c].view.attached /\ ~Due(c) /\ (Ready(c) \/ Young(c))
      BY <2>2, <2>8 DEF Visits
    <3>2. ~Young(c)
      <4>1. connection[c].stage # "closed"
        BY <2>2 DEF Visits, Ready
      <4>2. runtime[l].session \in connection[c].sessionIds
        BY <2>3, <4>1 DEF Told, Joined
      <4> QED BY <2>1, <4>2 DEF Told, Newcomers
    <3> QED BY <2>3, <2>4, <3>1, <3>2 DEF Told, NoneTooFew
  <2> QED BY <2>7, <2>8
<1> QED BY <1>1, <1>2, <1>3, <1>4, <1>5 DEF Told

------------------------------------------------------------------------------
(* The same for the kinds of steps.                                        *)

\* Runtimes lose connections and may begin to be disposed.
Fading == \A l \in Runtime :
  /\ runtime'[l].session = runtime[l].session
  /\ runtime'[l].state = runtime[l].state
  /\ runtime[l].disposing => runtime'[l].disposing
  /\ runtime'[l].connections \subseteq runtime[l].connections

LEMMA FadingServes ==
  ASSUME SInv, Fading, UNCHANGED liveSessions
  PROVE  \A s \in Session : Serving(s) => Serving(s)' \/ Ending'
<1> SUFFICES ASSUME NEW s \in Session, Serving(s), ~Serving(s)'
             PROVE  Ending'
  OBVIOUS
<1> PICK l : l = liveSessions[s]
  OBVIOUS
<1>1. l \in Runtime
  BY DEF SInv, TypeOK, Serving
<1>2. runtime[l].state = "live"
  BY DEF SInv, Core, Served, Serving
<1>3. runtime'[l].disposing
  BY DEF Serving
<1> QED BY <1>1, <1>2, <1>3 DEF Fading, Ending

LEMMA FadingRuns ==
  ASSUME Fading,
         \A c \in Conn : connection'[c].stage # "closed" =>
           connection[c].sessionIds \subseteq connection'[c].sessionIds,
         SInv, NEW l \in Runtime
  PROVE  Runs(l)
<1>1. runtime[l].connections \subseteq Conn
  BY DEF SInv, TypeOK
<1> QED BY <1>1 DEF Fading, Runs

\* A step of one connection, or of the publisher, that leaves the attachments alone.
LEMMA QuietTold ==
  ASSUME SInv, UNCHANGED <<runtime, liveSessions, request>>,
         \A c \in Conn : Visits(c) /\ connection'[c].sessionIds = connection[c].sessionIds
  PROVE  Steady
<1>1. Fading
  BY DEF Fading
<1>2. \A l \in Runtime : Runs(l)
  BY <1>1, FadingRuns
<1>3. \A s \in Session : Serving(s) => Serving(s)' \/ Ending'
  BY <1>1, FadingServes
<1>4. \A r \in Req : Asks(r)
  BY DEF Asks
<1> QED BY <1>2, <1>3, <1>4 DEF Steady

\* Connections that a step does not touch, when it withdraws no broadcast.
LEMMA SameVisits ==
  ASSUME NEW c \in Conn, connection'[c] = connection[c],
         publisher.asked => publisher'.asked, c \in publisher.to => c \in publisher'.to
  PROVE  Visits(c)
BY DEF Visits, Due, Ready, Young

LEMMA ConnectionTold ==
  ASSUME SInv, Told, ~isClosing, NEW c \in Conn, ConnectionStep(c) \/ FailProtocol(c)
  PROVE  Steady
<1>1. /\ connection \in [Conn -> Connection0] /\ connection[c] \in Connection0
      /\ publisher \in Publisher0 /\ View(c) \in View0
  BY Types, ViewType DEF SInv
<1>2. View(c).attached = Truth(c)
  BY DEF View, Truth
<1>3. UNCHANGED <<runtime, liveSessions, request>>
  BY DEF ConnectionStep, Hello, HelloListed, HelloSent, CatchUp, Send, FailProtocol
<1>4. /\ \A x \in Conn : x # c => connection'[x] = connection[x]
      /\ publisher.asked => publisher'.asked
      /\ \A x \in Conn : x # c /\ x \in publisher.to => x \in publisher'.to
  BY <1>1 DEF ConnectionStep, Hello, HelloListed, HelloSent, CatchUp, Send, FailProtocol, Publisher0
<1>5. \A x \in Conn : x # c => Visits(x) /\ connection'[x].sessionIds = connection[x].sessionIds
  BY <1>4, SameVisits
<1>6. connection'[c].sessionIds = connection[c].sessionIds
      /\ (publisher'.to = publisher.to \/ connection'[c].stage = "closed" \/ connection'[c].view = View(c))
  BY <1>1 DEF ConnectionStep, Hello, HelloListed, HelloSent, CatchUp, Send, FailProtocol, Connection0
<1>7. Truth(c)' = Truth(c)
  BY <1>3, <1>6 DEF Truth, Serving
<1>8. connection'[c].view.attached \in {connection[c].view.attached, Truth(c)}
  <2>1. connection'[c].view \in {connection[c].view, View(c)}
    BY <1>1 DEF ConnectionStep, Hello, HelloListed, HelloSent, CatchUp, Send, FailProtocol, Connection0
  <2> QED BY <1>2, <2>1
<1>9. /\ connection'[c].stage # "closed" => connection[c].stage # "closed"
      /\ Young(c)' => Young(c)
      /\ Ready(c)' => Ready(c) \/ Young(c)
  BY <1>1 DEF ConnectionStep, Hello, HelloListed, HelloSent, CatchUp, Send, FailProtocol, Connection0,
              Young, Ready
<1>10. Visits(c)
  <2>1. Ready(c)' /\ Due(c) => Due(c)' \/ connection'[c].view.attached = Truth(c)'
    BY <1>2, <1>4, <1>6, <1>7 DEF Due, Ready
  <2> QED BY <1>6, <1>7, <1>8, <1>9, <2>1 DEF Visits
<1> QED BY <1>3, <1>5, <1>6, <1>10, QuietTold

LEMMA BroadcastTold ==
  ASSUME SInv, ~isClosing, Broadcast
  PROVE  Steady
<1>1. connection \in [Conn -> Connection0] /\ publisher \in Publisher0
  BY Types DEF SInv
<1>2. UNCHANGED <<runtime, liveSessions, request>>
  BY DEF Broadcast
<1>3. \A c \in Conn : /\ connection'[c].stage = connection[c].stage
                      /\ connection'[c].sessionIds = connection[c].sessionIds
                      /\ connection'[c].view = connection[c].view
  BY <1>1 DEF Broadcast, Connection0
<1>4. \A c \in Conn : Ready(c) => c \in publisher'.to
  BY DEF Broadcast
<1>5. ASSUME NEW c \in Conn
      PROVE  Visits(c)
  BY <1>3, <1>4 DEF Visits, Young, Ready, Due
<1> QED BY <1>2, <1>3, <1>5, QuietTold

\* A step of one request that holds the runtimes.
LEMMA AnswerTold ==
  ASSUME SInv, UNCHANGED <<connection, runtime, liveSessions>>, \A r \in Req : Asks(r),
         publisher.asked => publisher'.asked, publisher.to = publisher'.to
  PROVE  Steady
<1>1. \A c \in Conn : Visits(c)
  BY SameVisits
<1>2. Fading
  BY DEF Fading
<1>3. \A l \in Runtime : Runs(l)
  BY <1>2, FadingRuns
<1> QED BY <1>1, <1>2, <1>3, FadingServes DEF Steady

\* A step of one request that may begin the disposal of one runtime.
LEMMA TidyTold ==
  ASSUME SInv, UNCHANGED <<connection, liveSessions, publisher>>,
         NEW l \in Runtime, NEW n \in Runtime0, runtime' = [runtime EXCEPT ![l] = n],
         n.session = runtime[l].session, n.state = runtime[l].state,
         runtime[l].disposing => n.disposing, n.connections \subseteq runtime[l].connections,
         \A r \in Req : Asks(r)
  PROVE  Steady
<1>1. runtime \in [Runtime -> Runtime0]
  BY Types DEF SInv
<1>2. \A c \in Conn : Visits(c)
  BY SameVisits
<1>3. Fading
  BY <1>1 DEF Fading
<1>4. \A k \in Runtime : Runs(k)
  BY <1>3, FadingRuns
<1> QED BY <1>2, <1>3, <1>4, FadingServes DEF Steady

LEMMA AnswersTold ==
  ASSUME SInv, NEW r \in Req, Attached(r) \/ Detached(r)
  PROVE  Steady
<1>1. request \in [Req -> Request0] /\ publisher \in Publisher0
  BY Types DEF SInv
<1>2. request' = [request EXCEPT ![r] = NoRequest] /\ NoRequest.pc = "free"
  BY DEF Attached, Detached, Answer, NoRequest
<1>3. UNCHANGED <<connection, runtime, liveSessions>> /\ publisher'.to = publisher.to
      /\ publisher'.asked \in {TRUE, publisher.asked}
      /\ (request[r].pc = "attached" => publisher'.asked)
      /\ (request[r].pc \in Leaves => publisher'.asked)
  BY <1>1 DEF Attached, Detached, AskBroadcast, Publisher0, Leaves
<1>4. ASSUME NEW x \in Req PROVE Asks(x)
  BY <1>1, <1>2, <1>3 DEF Asks, Uses
<1> QED BY <1>3, <1>4, AnswerTold

\* A turn of the loop of acquire ends none of the waits.
LEMMA AcquireAsks ==
  ASSUME SInv, NEW r \in Req, NEW q \in Request0, AcquireTurn(r, q), q.session \in Session,
         request[r].pc \in {"free", "awaitGone"}, UNCHANGED runtime, NEW x \in Req
  PROVE  Asks(x)
<1> PICK live : live = liveSessions[q.session]
  OBVIOUS
<1>1. request \in [Req -> Request0]
  BY Types DEF SInv
<1>2. request[r].pc \notin Leaves \cup {"attached"}
  BY DEF Leaves
<1> DEFINE goes(pc) == [q EXCEPT !.pc = pc, !.live = live]
<1>3. \/ request' = [request EXCEPT ![r] = NoRequest]
      \/ /\ live # None
         /\ \/ request' = [request EXCEPT ![r] = goes("awaitGone")]
            \/ request' = [request EXCEPT ![r] = goes("attach")]
      \/ request' = [request EXCEPT ![r] = goes("awaitOpen")]
      \/ request' = [request EXCEPT ![r] = goes("open")]
  BY DEF AcquireTurn, Answer
<1>4. NoRequest.pc = "free"
  BY DEF NoRequest
<1>5. live # None => runtime[live].state = "live"
  BY DEF SInv, Core, Served
<1>6. /\ goes("awaitGone").live = live /\ goes("attach").live = live
      /\ goes("awaitOpen").pc = "awaitOpen" /\ goes("open").pc = "open"
  BY DEF Request0
<1> HIDE DEF goes
<1>7. CASE x # r
  BY <1>1, <1>3, <1>7 DEF Asks
<1>8. CASE x = r
  <2>1. \/ request'[r].pc \in {"free", "open", "awaitOpen"}
        \/ live # None /\ request'[r].live = live
    BY <1>1, <1>3, <1>4, <1>6
  <2> QED BY <1>2, <1>5, <1>8, <2>1 DEF Asks, Uses
<1> QED BY <1>7, <1>8

LEMMA AcquireAgainTold ==
  ASSUME SInv, NEW r \in Req, AcquireAgain(r)
  PROVE  Steady
<1> DEFINE q == [request[r] EXCEPT !.live = None]
<1>1. request[r] \in Request0 /\ request[r].pc = "awaitGone"
  BY Types DEF AcquireAgain, SInv
<1>2. request[r].session \in Session
  BY <1>1 DEF SInv, Core, Refs
<1>3. q \in Request0 /\ q.session = request[r].session
  BY <1>1 DEF Request0
<1>4. AcquireTurn(r, q) /\ UNCHANGED <<connection, runtime, liveSessions, publisher>>
  BY DEF AcquireAgain
<1> HIDE DEF q
<1>5. \A x \in Req : Asks(x)
  BY <1>1, <1>2, <1>3, <1>4, AcquireAsks
<1> QED BY <1>4, <1>5, AnswerTold

LEMMA OpeningFailsAsks ==
  ASSUME SInv, NEW r \in Req, request[r].pc \in Opens, OpeningFails(r), NEW x \in Req
  PROVE  Asks(x)
<1>1. NoRequest.pc = "free"
  BY DEF NoRequest
<1>2. \/ request'[x] = request[x]
      \/ request'[x] = NoRequest /\ request[x].pc \in Opens \cup {"awaitOpen"}
  BY DEF OpeningFails
<1> QED BY <1>1, <1>2 DEF Asks, Opens, Leaves, Uses

LEMMA OpenedTold ==
  ASSUME SInv, ~isClosing, NEW r \in Req, NEW l \in Runtime, Opened(r, l)
  PROVE  Steady
<1> DEFINE n == [NoRuntime EXCEPT !.session = request[r].session, !.state = "acquired"]
           p == [request[r] EXCEPT !.pc = "register", !.live = l]
<1>1. /\ runtime \in [Runtime -> Runtime0] /\ request \in [Req -> Request0]
      /\ request[r] \in Request0
  BY Types DEF SInv
<1>2. n.connections = {} /\ ~n.disposing
  BY DEF NoRuntime
<1>3. p.pc = "register"
  BY <1>1 DEF Request0
<1>4. /\ runtime' = [runtime EXCEPT ![l] = n] /\ Unused(l)
      /\ request[r].pc = "open"
      /\ UNCHANGED <<connection, liveSessions, publisher>>
  BY DEF Opened
<1>5. request' = [request EXCEPT ![r] = p]
  BY <1>1 DEF Opened
<1> HIDE DEF n, p
<1>6. \A c \in Conn : Visits(c)
  BY <1>4, SameVisits
<1>7. ASSUME NEW x \in Req PROVE Asks(x)
  <2>1. CASE x = r
    BY <1>1, <1>3, <1>4, <1>5, <2>1 DEF Asks, Uses, Leaves
  <2>2. CASE x # r
    BY <1>1, <1>5, <2>2 DEF Asks
  <2> QED BY <2>1, <2>2
<1>8. ASSUME NEW s \in Session, Serving(s) PROVE Serving(s)'
  <2>1. liveSessions[s] # l /\ liveSessions[s] \in Runtime
    BY <1>4, <1>8 DEF Unused, Serving, SInv, TypeOK
  <2> QED BY <1>1, <1>4, <1>8, <2>1 DEF Serving
<1>9. ASSUME NEW k \in Runtime PROVE Runs(k)
  <2>1. CASE k # l
    <3>1. runtime'[k] = runtime[k]
      BY <1>1, <1>4, <2>1
    <3> QED BY <1>4, <3>1 DEF Runs
  <2>2. CASE k = l
    <3>1. runtime'[l] = n /\ runtime[l].state # "live"
      BY <1>1, <1>4 DEF Unused
    <3>2. \A x \in Req : request'[x].pc \in Uses => request'[x].live # l
      BY <1>1, <1>3, <1>4, <1>5 DEF Unused, Uses
    <3> QED BY <1>2, <2>2, <3>1, <3>2 DEF Runs
  <2> QED BY <2>1, <2>2
<1> QED BY <1>6, <1>7, <1>8, <1>9 DEF Steady

LEMMA RegisterTold ==
  ASSUME SInv, NEW r \in Req, Register(r)
  PROVE  Steady
<1> PICK l, s : l = request[r].live /\ s = request[r].session
  OBVIOUS
<1> DEFINE n == [runtime[l] EXCEPT !.state = "live"]
<1>1. /\ request[r].pc = "register" /\ l \in Runtime /\ s \in Session
      /\ runtime[l].state = "acquired" /\ runtime[l].session = s
  BY DEF Register, SInv, Core, Refs, Refers, Registering, Keeps
<1>2. /\ runtime \in [Runtime -> Runtime0] /\ request \in [Req -> Request0]
      /\ runtime[l] \in Runtime0
      /\ liveSessions \in [Session -> Runtime \cup {None}]
  BY <1>1, Types DEF SInv
<1>3. /\ n.session = s /\ n.state = "live" /\ n.disposing = runtime[l].disposing
      /\ n.connections = runtime[l].connections
  BY <1>1, <1>2 DEF Runtime0
<1>4. /\ runtime' = [runtime EXCEPT ![l] = n]
      /\ liveSessions' = [liveSessions EXCEPT ![s] = l]
      /\ request' = [q \in Req |->
                       IF q = r \/ (request[q].pc = "awaitOpen" /\ request[q].session = s)
                       THEN [request[q] EXCEPT !.pc = "attach", !.live = l] ELSE request[q]]
      /\ UNCHANGED <<connection, publisher>>
  BY <1>2 DEF Register
<1> HIDE DEF n
<1>5. \A c \in Conn : Visits(c)
  BY <1>4, SameVisits
<1>6. runtime'[l] = n /\ \A k \in Runtime : k # l => runtime'[k] = runtime[k]
  BY <1>1, <1>2, <1>4
<1>7. ASSUME NEW x \in Req PROVE Asks(x)
  <2>1. CASE request'[x] = request[x]
    BY <2>1 DEF Asks
  <2>2. CASE /\ request'[x] = [request[x] EXCEPT !.pc = "attach", !.live = l]
             /\ request[x].pc \in {"register", "awaitOpen"}
    <3>1. request[x] \in Request0
      BY <1>2
    <3>2. request'[x].live = l
      BY <2>2, <3>1 DEF Request0
    <3> QED BY <1>3, <1>6, <2>2, <3>2 DEF Asks, Leaves
  <2> QED BY <1>1, <1>4, <2>1, <2>2
<1>8. ASSUME NEW t \in Session, Serving(t) PROVE Serving(t)'
  <2> PICK k : k = liveSessions[t]
    OBVIOUS
  <2>1. /\ k \in Runtime /\ k # None /\ ~runtime[k].disposing
        /\ runtime[k].state = "live" /\ runtime[k].session = t
    BY <1>2, <1>8 DEF Serving, SInv, Core, Served
  <2>2. t # s /\ k # l
    BY <1>1, <2>1 DEF SInv, Core, OnePerSession, Held
  <2> QED BY <1>2, <1>4, <1>6, <2>1, <2>2 DEF Serving
<1>9. ASSUME NEW k \in Runtime PROVE Runs(k)
  <2>1. /\ runtime'[k].session = runtime[k].session
        /\ runtime'[k].disposing = runtime[k].disposing
        /\ runtime'[k].connections = runtime[k].connections
        /\ runtime[k].state = "live" => runtime'[k].state = "live"
    BY <1>1, <1>3, <1>6
  <2> QED BY <1>4, <2>1 DEF Runs
<1> QED BY <1>5, <1>7, <1>8, <1>9 DEF Steady

LEMMA DiscardedTold ==
  ASSUME SInv, NEW r \in Req, Discarded(r)
  PROVE  Steady
<1> PICK l : l = request[r].live
  OBVIOUS
<1> DEFINE n == [runtime[l] EXCEPT !.state = "gone"]
<1>1. request[r].pc = "discard" /\ l \in Runtime /\ runtime[l].state = "acquired"
  BY DEF Discarded, SInv, Core, Refs, Refers, Registering, Keeps
<1>2. runtime \in [Runtime -> Runtime0] /\ runtime[l] \in Runtime0
      /\ liveSessions \in [Session -> Runtime \cup {None}]
  BY <1>1, Types DEF SInv
<1>3. /\ n.session = runtime[l].session /\ n.disposing = runtime[l].disposing
      /\ n.connections = runtime[l].connections
  BY <1>2 DEF Runtime0
<1>4. /\ runtime' = [runtime EXCEPT ![l] = n] /\ OpeningFails(r)
      /\ UNCHANGED <<connection, liveSessions, publisher>>
  BY DEF Discarded
<1> HIDE DEF n
<1>5. \A c \in Conn : Visits(c)
  BY <1>4, SameVisits
<1>6. runtime'[l] = n /\ \A k \in Runtime : k # l => runtime'[k] = runtime[k]
  BY <1>1, <1>2, <1>4
<1>7. \A x \in Req : Asks(x)
  BY <1>1, <1>4, OpeningFailsAsks DEF Opens
<1>8. ASSUME NEW t \in Session, Serving(t) PROVE Serving(t)'
  <2> PICK k : k = liveSessions[t]
    OBVIOUS
  <2>1. k \in Runtime /\ k # None /\ runtime[k].state = "live"
    BY <1>2, <1>8 DEF Serving, SInv, Core, Served
  <2> QED BY <1>1, <1>4, <1>6, <1>8, <2>1 DEF Serving
<1>9. ASSUME NEW k \in Runtime PROVE Runs(k)
  <2>1. /\ runtime'[k].session = runtime[k].session
        /\ runtime'[k].disposing = runtime[k].disposing
        /\ runtime'[k].connections = runtime[k].connections
        /\ runtime[k].state = "live" => runtime'[k].state = "live"
    BY <1>1, <1>3, <1>6
  <2> QED BY <1>4, <2>1 DEF Runs
<1> QED BY <1>5, <1>7, <1>8, <1>9 DEF Steady

LEMMA OpenRejectedTold ==
  ASSUME SInv, NEW r \in Req, OpenRejected(r)
  PROVE  Steady
<1>1. UNCHANGED <<connection, runtime, liveSessions, publisher>>
      /\ request[r].pc \in Opens /\ OpeningFails(r)
  BY DEF OpenRejected, Opens
<1> QED BY <1>1, OpeningFailsAsks, AnswerTold

LEMMA DisposeTold ==
  ASSUME SInv, ~isClosing, NEW l \in Runtime, Dispose(l)
  PROVE  Steady
<1> DEFINE n == [runtime[l] EXCEPT !.state = "gone"]
<1>1. runtime \in [Runtime -> Runtime0] /\ runtime[l] \in Runtime0 /\ publisher \in Publisher0
      /\ liveSessions \in [Session -> Runtime \cup {None}]
  BY Types DEF SInv
<1>2. /\ n.session = runtime[l].session /\ n.disposing = runtime[l].disposing
      /\ n.connections = runtime[l].connections
  BY <1>1 DEF Runtime0
<1>3. /\ runtime[l].disposing /\ runtime' = [runtime EXCEPT ![l] = n]
      /\ UNCHANGED <<connection, request>> /\ publisher'.asked /\ publisher'.to = publisher.to
  BY <1>1 DEF Dispose, Publisher0
<1> HIDE DEF n
<1>4. runtime'[l] = n /\ \A k \in Runtime : k # l => runtime'[k] = runtime[k]
  BY <1>1, <1>3
<1>5. \A c \in Conn : Visits(c)
  BY <1>3, SameVisits
<1>6. \A r \in Req : Asks(r)
  BY <1>3 DEF Asks
<1>7. \A k \in Runtime : Runs(k)
  BY <1>2, <1>3, <1>4 DEF Runs
<1>8. ASSUME NEW t \in Session, Serving(t) PROVE Serving(t)'
  <2>1. liveSessions[t] \in Runtime /\ liveSessions[t] # l
    BY <1>1, <1>3, <1>8 DEF Serving
  <2>2. liveSessions'[t] = liveSessions[t]
    BY <1>1, <2>1 DEF Dispose
  <2> QED BY <1>4, <1>8, <2>1, <2>2 DEF Serving
<1> QED BY <1>5, <1>6, <1>7, <1>8 DEF Steady

LEMMA AttachTold ==
  ASSUME SInv, Told, NEW r \in Req, Attach(r)
  PROVE  Steady
<1> PICK c, l : c = request[r].conn /\ l = request[r].live
  OBVIOUS
<1>1. /\ connection \in [Conn -> Connection0] /\ request \in [Req -> Request0]
      /\ runtime \in [Runtime -> Runtime0]
  BY Types DEF SInv
<1>2. /\ request[r].pc = "attach" /\ c \in Conn /\ l \in Runtime
      /\ request[r] \in Request0 /\ runtime[l] \in Runtime0 /\ connection[c] \in Connection0
  BY <1>1 DEF Attach, SInv, Core, Refs, Refers
<1>3. runtime[l].state = "live" \/ runtime[l].disposing
  BY <1>2 DEF Told, Used, Uses
<1>4. UNCHANGED <<liveSessions, publisher>>
  BY DEF Attach
<1>5. CASE Ready(c)
  <2> DEFINE m == [connection[c] EXCEPT !.sessionIds = @ \cup {runtime[l].session}]
             n == [runtime[l] EXCEPT !.connections = @ \cup {c}]
             p == [request[r] EXCEPT !.pc = "attached"]
  <2>1. m.stage = connection[c].stage /\ m.view = connection[c].view
        /\ m.sessionIds = connection[c].sessionIds \cup {runtime[l].session}
    BY <1>2 DEF Connection0
  <2>2. /\ n.state = runtime[l].state /\ n.session = runtime[l].session
        /\ n.disposing = runtime[l].disposing
        /\ n.connections = runtime[l].connections \cup {c}
    BY <1>2 DEF Runtime0
  <2>3. p.pc = "attached" /\ p.live = l
    BY <1>2 DEF Request0
  <2>4. /\ connection' = [connection EXCEPT ![c] = m]
        /\ runtime' = [runtime EXCEPT ![l] = n]
        /\ request' = [request EXCEPT ![r] = p]
    BY <1>1, <1>2, <1>5 DEF Attach, Goto
  <2> HIDE DEF m, n, p
  <2>5. /\ connection'[c] = m /\ \A x \in Conn : x # c => connection'[x] = connection[x]
        /\ runtime'[l] = n /\ \A k \in Runtime : k # l => runtime'[k] = runtime[k]
        /\ request'[r] = p /\ \A x \in Req : x # r => request'[x] = request[x]
    BY <1>1, <1>2, <2>4
  <2>6. ASSUME NEW x \in Conn PROVE Visits(x)
    <3>1. CASE x = c
      BY <1>4, <1>5, <2>1, <2>5, <3>1 DEF Visits, Ready, Young, Due
    <3>2. CASE x # c
      BY <1>4, <2>5, <3>2, SameVisits
    <3> QED BY <3>1, <3>2
  <2>7. ASSUME NEW x \in Req PROVE Asks(x)
    <3>1. CASE x = r
      BY <1>2, <2>3, <2>5, <3>1 DEF Asks, Uses, Leaves
    <3>2. CASE x # r
      BY <2>5, <3>2 DEF Asks
    <3> QED BY <3>1, <3>2
  <2>8. ASSUME NEW k \in Runtime PROVE Runs(k)
    <3>0. \A x \in Conn : connection[x].sessionIds \subseteq connection'[x].sessionIds
      BY <2>1, <2>5
    <3>1. CASE k # l
      <4>1. runtime[k].connections \subseteq Conn
        BY DEF SInv, TypeOK
      <4>2. runtime'[k] = runtime[k]
        BY <2>5, <3>1
      <4> QED BY <3>0, <4>1, <4>2 DEF Runs
    <3>2. CASE k = l
      <4>1. runtime[l].connections \subseteq Conn
        BY <1>2 DEF Runtime0
      <4>2. Joining'
        BY <2>3, <2>5 DEF Joining
      <4>3. runtime[l].session \in connection'[c].sessionIds
        BY <2>1, <2>5
      <4>4. runtime'[l].disposing \/ runtime'[l].state = "live"
        BY <1>3, <2>2, <2>5
      <4> QED BY <2>2, <2>5, <3>0, <3>2, <4>1, <4>2, <4>3, <4>4 DEF Runs
    <3> QED BY <3>1, <3>2
  <2>9. ASSUME NEW s \in Session, Serving(s) PROVE Serving(s)'
    <3>1. liveSessions[s] \in Runtime
      BY <2>9 DEF Serving, SInv, TypeOK
    <3> QED BY <1>4, <2>2, <2>5, <2>9, <3>1 DEF Serving
  <2> QED BY <2>6, <2>7, <2>8, <2>9 DEF Steady
<1>6. CASE ~Ready(c)
  <2> DEFINE n == Tidied(runtime[l])
  <2>1. /\ n \in Runtime0 /\ n.state = runtime[l].state /\ n.session = runtime[l].session
        /\ runtime[l].disposing => n.disposing
        /\ n.connections = runtime[l].connections
    BY <1>2, TidiedType
  <2>2. /\ runtime' = [runtime EXCEPT ![l] = n]
        /\ request' = [request EXCEPT ![r] = NoRequest] /\ NoRequest.pc = "free"
        /\ UNCHANGED connection
    BY <1>6 DEF Attach, Answer, NoRequest
  <2> HIDE DEF n
  <2>3. \A x \in Req : Asks(x)
    BY <1>1, <1>2, <2>2 DEF Asks, Uses, Leaves
  <2> QED BY <1>2, <1>4, <2>1, <2>2, <2>3, TidyTold
<1> QED BY <1>5, <1>6

LEMMA DetachingTold ==
  ASSUME SInv, NEW r \in Req, Detaching(r)
  PROVE  Steady
<1> PICK l : l = request[r].live
  OBVIOUS
<1> DEFINE n == Tidied(runtime[l])
           p == [request[r] EXCEPT !.pc = "detached"]
<1>1. request \in [Req -> Request0] /\ runtime \in [Runtime -> Runtime0]
  BY Types DEF SInv
<1>2. /\ request[r].pc = "detaching" /\ l \in Runtime
      /\ request[r] \in Request0 /\ runtime[l] \in Runtime0
  BY <1>1 DEF Detaching, SInv, Core, Refs, Refers
<1>3. /\ n \in Runtime0 /\ n.state = runtime[l].state /\ n.session = runtime[l].session
      /\ runtime[l].disposing => n.disposing
      /\ n.connections = runtime[l].connections
  BY <1>2, TidiedType
<1>4. p.pc = "detached" /\ p.live = l
  BY <1>2 DEF Request0
<1>5. /\ runtime' = [runtime EXCEPT ![l] = n]
      /\ request' = [request EXCEPT ![r] = p]
      /\ UNCHANGED <<connection, liveSessions, publisher>>
  BY <1>1, <1>2 DEF Detaching, Goto
<1> HIDE DEF n, p
<1>6. \A x \in Req : Asks(x)
  BY <1>1, <1>2, <1>4, <1>5 DEF Asks, Uses, Leaves
<1> QED BY <1>2, <1>3, <1>5, <1>6, TidyTold

LEMMA OperatedTold ==
  ASSUME SInv, NEW r \in Req, Operated(r)
  PROVE  Steady
<1> PICK l : l = request[r].live
  OBVIOUS
<1> DEFINE o == [runtime[l] EXCEPT !.operations = @ \ {r}]
           n == Tidied(o)
<1>1. request \in [Req -> Request0] /\ runtime \in [Runtime -> Runtime0]
  BY Types DEF SInv
<1>2. request[r].pc = "operated" /\ l \in Runtime /\ runtime[l] \in Runtime0
  BY <1>1 DEF Operated, SInv, Core, Refs, Refers
<1>3. /\ o \in Runtime0 /\ o.state = runtime[l].state /\ o.session = runtime[l].session
      /\ o.disposing = runtime[l].disposing /\ o.connections = runtime[l].connections
  BY <1>2 DEF Runtime0
<1>4. /\ runtime' = [runtime EXCEPT ![l] = n]
      /\ request' = [request EXCEPT ![r] = NoRequest] /\ NoRequest.pc = "free"
      /\ UNCHANGED <<connection, liveSessions, publisher>>
  BY DEF Operated, Answer, NoRequest
<1> HIDE DEF o
<1>5. /\ n \in Runtime0 /\ n.state = o.state /\ n.session = o.session
      /\ o.disposing => n.disposing
      /\ n.connections = o.connections
  BY <1>3, TidiedType
<1> HIDE DEF n
<1>6. \A x \in Req : Asks(x)
  BY <1>1, <1>2, <1>4 DEF Asks, Uses, Leaves
<1> QED BY <1>2, <1>3, <1>4, <1>5, <1>6, TidyTold

LEMMA TurnEndsTold ==
  ASSUME SInv, NEW l \in Runtime, TurnEnds(l)
  PROVE  Steady
<1> DEFINE idle == [runtime[l] EXCEPT !.turn = None]
           n == IF idle.terminal THEN idle ELSE Tidied(idle)
           r == runtime[l].turn
           p == [request[r] EXCEPT !.pc = "operated"]
<1>1. request \in [Req -> Request0] /\ runtime[l] \in Runtime0
  BY Types DEF SInv
<1>2. r \in Req /\ request[r].pc = "operating" /\ request[r] \in Request0
  BY <1>1 DEF TurnEnds, SInv, Turns, Runtime0
<1>3. /\ idle \in Runtime0 /\ idle.state = runtime[l].state /\ idle.session = runtime[l].session
      /\ idle.disposing = runtime[l].disposing /\ idle.connections = runtime[l].connections
  BY <1>1 DEF Runtime0
<1>4. p.pc = "operated" /\ p.live = request[r].live
  BY <1>2 DEF Request0
<1>5. /\ runtime' = [runtime EXCEPT ![l] = n]
      /\ UNCHANGED <<connection, liveSessions, publisher>>
  BY DEF TurnEnds
<1>6. request' = [request EXCEPT ![r] = p]
  BY <1>1, <1>2 DEF TurnEnds, Goto
<1> HIDE DEF idle
<1>7. /\ n \in Runtime0 /\ n.state = idle.state /\ n.session = idle.session
      /\ idle.disposing => n.disposing
      /\ n.connections = idle.connections
  BY <1>3, TidiedType
<1> HIDE DEF n, p, r
<1>8. \A x \in Req : Asks(x)
  BY <1>1, <1>2, <1>4, <1>6 DEF Asks, Uses, Leaves
<1> QED BY <1>3, <1>5, <1>7, <1>8, TidyTold

LEMMA RuntimeErrorTold ==
  ASSUME SInv, NEW l \in Runtime, RuntimeError(l)
  PROVE  Steady
<1> DEFINE dead == [runtime[l] EXCEPT !.terminal = TRUE, !.closes = runtime[l].connections]
           n == IF dead.closes = {} THEN Tidied(dead) ELSE dead
<1>1. runtime[l] \in Runtime0
  BY Types DEF SInv
<1>2. /\ dead \in Runtime0 /\ dead.state = runtime[l].state /\ dead.session = runtime[l].session
      /\ dead.disposing = runtime[l].disposing /\ dead.connections = runtime[l].connections
  BY <1>1 DEF Runtime0
<1>3. /\ runtime' = [runtime EXCEPT ![l] = n]
      /\ UNCHANGED <<connection, liveSessions, publisher, request>>
  BY DEF RuntimeError
<1> HIDE DEF dead
<1>4. /\ n \in Runtime0 /\ n.state = dead.state /\ n.session = dead.session
      /\ dead.disposing => n.disposing
      /\ n.connections = dead.connections
  BY <1>2, TidiedType
<1> HIDE DEF n
<1>5. \A x \in Req : Asks(x)
  BY <1>3 DEF Asks
<1> QED BY <1>2, <1>3, <1>4, <1>5, TidyTold

\* Who leaves is in no runtime that he was not in.
LEMMA LeftFading ==
  ASSUME TypeOK, NEW C \in SUBSET Conn, NEW l \in Runtime
  PROVE  Left(C)[l].connections \subseteq runtime[l].connections
<1> DEFINE held == {liveSessions[s] : s \in UNION {connection[c].sessionIds : c \in C}}
           gone == {c \in C : runtime[l].session \in connection[c].sessionIds}
           o == [runtime[l] EXCEPT !.connections = @ \ gone]
<1>1. runtime[l] \in Runtime0
  BY Types
<1>2. o \in Runtime0 /\ o.connections = runtime[l].connections \ gone
  <2> HIDE DEF gone
  <2> QED BY <1>1 DEF Runtime0
<1>3. Tidied(o).connections = o.connections
  BY <1>2, TidiedType
<1>4. Left(C)[l] = IF l \in held THEN Tidied(o) ELSE runtime[l]
  BY DEF Left
<1> HIDE DEF held, o, gone
<1> QED BY <1>2, <1>3, <1>4

\* Connections leave: they are told nothing any more, and nothing changes for the others.
LEMMA LeavingTold ==
  ASSUME SInv, NEW C \in SUBSET Conn, Disconnected(C), Fading, UNCHANGED <<request, liveSessions>>
  PROVE  Steady
<1> DEFINE open == {c \in C : connection[c].stage # "closed"}
           shut(c) == [connection[c] EXCEPT !.stage = "closed", !.sessionIds = {}]
<1>1. connection \in [Conn -> Connection0] /\ publisher \in Publisher0
  BY Types DEF SInv
<1>2. publisher'.to = publisher.to /\ (publisher.asked => publisher'.asked)
  BY <1>1 DEF Disconnected, Publisher0
<1>3. \A c \in Conn : connection'[c] = IF c \in open THEN shut(c) ELSE connection[c]
  BY DEF Disconnected, Shut
<1>4. \A c \in Conn : shut(c).stage = "closed" /\ shut(c).view = connection[c].view
  BY <1>1 DEF Connection0
<1>5. \A c \in open : connection[c].stage # "closed"
  OBVIOUS
<1> HIDE DEF open, shut
<1>6. ASSUME NEW c \in Conn
      PROVE  /\ Visits(c)
             /\ connection'[c].stage # "closed" => connection'[c].sessionIds = connection[c].sessionIds
  <2>1. CASE c \in open
    <3>1. connection'[c].stage = "closed" /\ connection'[c].view = connection[c].view
      BY <1>3, <1>4, <2>1
    <3> QED BY <3>1 DEF Visits, Ready, Young
  <2>2. CASE c \notin open
    <3>1. connection'[c] = connection[c]
      BY <1>3, <2>2
    <3> QED BY <1>2, <3>1, SameVisits
  <2> QED BY <2>1, <2>2
<1>7. \A l \in Runtime : Runs(l)
  BY <1>6, FadingRuns
<1>8. \A r \in Req : Asks(r)
  BY DEF Asks
<1> QED BY <1>6, <1>7, <1>8, FadingServes DEF Steady

LEMMA DisconnectTold ==
  ASSUME SInv, NEW c \in Conn, Disconnect(c)
  PROVE  Steady
<1>1. /\ runtime' = Left({c}) /\ Disconnected({c}) /\ {c} \in SUBSET Conn
      /\ UNCHANGED <<request, liveSessions>>
  BY DEF Disconnect
<1>2. TypeOK
  BY DEF SInv
<1>3. Fading
  BY <1>1, <1>2, LeftType, LeftFading DEF Fading
<1> QED BY <1>1, <1>3, LeavingTold

LEMMA TerminateTold ==
  ASSUME SInv, NEW l \in Runtime, Terminate(l)
  PROVE  Steady
<1> DEFINE C == {c \in runtime[l].closes : connection[c].stage # "closed"}
           o == [Left(C)[l] EXCEPT !.closes = {}]
<1>1. TypeOK
  BY DEF SInv
<1>2. runtime[l].closes \in SUBSET Conn /\ C \in SUBSET Conn
  BY <1>1, Types DEF Runtime0
<1>3. /\ Disconnected(runtime[l].closes)
      /\ UNCHANGED <<request, liveSessions>>
      /\ runtime' = [[Left(C) EXCEPT ![l].closes = {}] EXCEPT ![l] = Tidied(@)]
  BY DEF Terminate
<1> HIDE DEF C
<1>4. Left(C) \in [Runtime -> Runtime0] /\ Left(C)[l] \in Runtime0
  BY <1>1, <1>2, LeftType
<1>5. /\ o \in Runtime0 /\ o.session = Left(C)[l].session /\ o.state = Left(C)[l].state
      /\ o.disposing = Left(C)[l].disposing /\ o.connections = Left(C)[l].connections
  BY <1>4 DEF Runtime0
<1>6. /\ runtime'[l] = Tidied(o)
      /\ \A k \in Runtime : k # l => runtime'[k] = Left(C)[k]
  <2>1. [Left(C) EXCEPT ![l].closes = {}] = [Left(C) EXCEPT ![l] = o]
    BY <1>4
  <2> HIDE DEF o
  <2> QED BY <1>3, <1>4, <2>1
<1> HIDE DEF o
<1>7. /\ Tidied(o).session = o.session /\ Tidied(o).state = o.state
      /\ o.disposing => Tidied(o).disposing
      /\ Tidied(o).connections = o.connections
  BY <1>5, TidiedType
<1>8. ASSUME NEW k \in Runtime
      PROVE  /\ Left(C)[k].session = runtime[k].session
             /\ Left(C)[k].state = runtime[k].state
             /\ runtime[k].disposing => Left(C)[k].disposing
             /\ Left(C)[k].connections \subseteq runtime[k].connections
  BY <1>1, <1>2, LeftType, LeftFading
<1>9. Fading
  <2> SUFFICES ASSUME NEW k \in Runtime
               PROVE  /\ runtime'[k].session = runtime[k].session
                      /\ runtime'[k].state = runtime[k].state
                      /\ runtime[k].disposing => runtime'[k].disposing
                      /\ runtime'[k].connections \subseteq runtime[k].connections
    BY DEF Fading
  <2>1. CASE k = l
    BY <1>5, <1>6, <1>7, <1>8, <2>1
  <2>2. CASE k # l
    <3>1. runtime'[k] = Left(C)[k]
      BY <1>6, <2>2
    <3> QED BY <1>8, <3>1
  <2> QED BY <2>1, <2>2
<1> QED BY <1>2, <1>3, <1>9, LeavingTold

LEMMA RequestTold ==
  ASSUME SInv, Told, ~isClosing, NEW c \in Conn, NEW r \in Req, NEW command \in Commands,
         NEW s \in Session, Request(c, r, command, s)
  PROVE  Steady
<1> DEFINE new == [conn |-> c, command |-> command, session |-> s, pc |-> "free", live |-> None]
           m == [connection[c] EXCEPT !.sessionIds = @ \ {s}]
<1> PICK live : live = liveSessions[s]
  OBVIOUS
<1>1. /\ connection \in [Conn -> Connection0] /\ request \in [Req -> Request0]
      /\ runtime \in [Runtime -> Runtime0] /\ publisher \in Publisher0
      /\ liveSessions \in [Session -> Runtime \cup {None}]
      /\ connection[c] \in Connection0
  BY Types DEF SInv
<1>2. request[r].pc = "free" /\ Ready(c) /\ UNCHANGED liveSessions
  BY DEF Request
<1>3. live # None => /\ live \in Runtime /\ runtime[live] \in Runtime0
                     /\ runtime[live].state = "live" /\ runtime[live].session = s
  BY <1>1 DEF SInv, Core, Served
<1>4. new \in Request0
  BY DEF Request0
<1>5. CASE command \in {"create", "attach"}
  <2>1. AcquireTurn(r, new) /\ UNCHANGED <<connection, runtime, publisher>> /\ new.session = s
    BY <1>5 DEF Request
  <2> HIDE DEF new
  <2>2. \A x \in Req : Asks(x)
    BY <1>2, <1>4, <2>1, AcquireAsks
  <2> QED BY <1>2, <2>1, <2>2, AnswerTold
<1>6. CASE command = "detach"
  <2> DEFINE left == [runtime[live] EXCEPT !.connections = @ \ {c}]
             told == left.connections # {} /\ ~left.terminal /\ ~left.disposing
             n == IF told THEN left ELSE Tidied(left)
             p == [new EXCEPT !.live = live, !.pc = IF told THEN "detaching" ELSE "detached"]
  <2>1. /\ connection' = [connection EXCEPT ![c] = m]
        /\ IF live = None
           THEN AskBroadcast /\ UNCHANGED <<request, runtime>>
           ELSE /\ runtime' = [runtime EXCEPT ![live] = n]
                /\ request' = [request EXCEPT ![r] = p]
                /\ UNCHANGED publisher
    <3>1. connection' = [connection EXCEPT ![c].sessionIds = @ \ {s}] =>
            connection' = [connection EXCEPT ![c] = m]
      BY <1>1
    <3> HIDE DEF m, new
    <3> QED BY <1>6, <3>1 DEF Request, new
  <2>2. /\ m.stage = connection[c].stage /\ m.view = connection[c].view
        /\ m.sessionIds = connection[c].sessionIds \ {s}
    BY <1>1 DEF Connection0
  <2>3. live # None =>
          /\ left \in Runtime0 /\ left.state = "live" /\ left.session = s
          /\ left.disposing = runtime[live].disposing
          /\ left.connections = runtime[live].connections \ {c}
    BY <1>3 DEF Runtime0
  <2>4. p.pc \in Leaves /\ p.live = live
    <3> HIDE DEF told
    <3> QED BY <1>4 DEF Request0, Leaves
  <2> HIDE DEF m, new, left, told, p
  <2>5. live # None =>
          /\ n.state = "live" /\ n.session = s
          /\ runtime[live].disposing => n.disposing
          /\ n.connections = runtime[live].connections \ {c}
    BY <2>3, TidiedType
  <2> HIDE DEF n
  <2>6. connection'[c] = m /\ \A x \in Conn : x # c => connection'[x] = connection[x]
    BY <1>1, <2>1
  <2>7. /\ live # None => runtime'[live] = n
        /\ \A k \in Runtime : k # live => runtime'[k] = runtime[k]
    BY <1>1, <1>3, <2>1
  <2>8. live # None => request'[r] = p /\ \A x \in Req : x # r => request'[x] = request[x]
    BY <1>1, <2>1
  <2>9. /\ live = None => publisher'.asked
        /\ publisher.asked => publisher'.asked
        /\ publisher'.to = publisher.to
    BY <1>1, <2>1 DEF AskBroadcast, Publisher0
  <2>10. publisher'.asked \/ Leaving'
    BY <2>4, <2>8, <2>9 DEF Leaving
  <2>11. ASSUME NEW x \in Conn PROVE Visits(x)
    <3>1. CASE x # c
      BY <2>6, <2>9, <3>1, SameVisits
    <3>2. CASE x = c
      <4>1. /\ connection'[c].stage = connection[c].stage
            /\ connection'[c].view = connection[c].view
        BY <2>2, <2>6
      <4>2. ~Young(c)'
        BY <1>2, <4>1 DEF Ready, Young
      <4> QED BY <2>9, <2>10, <3>2, <4>1, <4>2 DEF Visits, Ready, Due
    <3> QED BY <3>1, <3>2
  <2>12. ASSUME NEW x \in Req PROVE Asks(x)
    <3>1. CASE live = None
      BY <2>1, <3>1 DEF Asks
    <3>2. CASE live # None /\ x # r
      <4>1. request'[x] = request[x]
        BY <2>8, <3>2
      <4> QED BY <4>1 DEF Asks
    <3>3. CASE live # None /\ x = r
      <4>1. request'[r].live = live /\ runtime'[live].state = "live"
        BY <2>4, <2>5, <2>7, <2>8, <3>3
      <4>2. runtime'[request'[r].live].state = "live"
        BY <4>1
      <4> QED BY <1>2, <3>3, <4>2 DEF Asks, Leaves
    <3> QED BY <3>1, <3>2, <3>3
  <2>13. Fading
    <3> SUFFICES ASSUME NEW k \in Runtime
                 PROVE  /\ runtime'[k].session = runtime[k].session
                        /\ runtime'[k].state = runtime[k].state
                        /\ runtime[k].disposing => runtime'[k].disposing
                        /\ runtime'[k].connections \subseteq runtime[k].connections
      BY DEF Fading
    <3>1. CASE k = live
      <4>1. live # None /\ runtime'[k] = n
        BY <2>7, <3>1, NoneAssumption
      <4> QED BY <1>3, <2>5, <3>1, <4>1
    <3>2. CASE k # live
      <4>1. runtime'[k] = runtime[k]
        BY <2>7, <3>2
      <4> QED BY <4>1
    <3> QED BY <3>1, <3>2
  <2>14. ASSUME NEW k \in Runtime PROVE Runs(k)
    <3> SUFFICES ASSUME ~runtime'[k].disposing, NEW x \in runtime'[k].connections,
                        connection'[x].stage # "closed", runtime[k].session \in connection[x].sessionIds
                 PROVE  runtime[k].session \in connection'[x].sessionIds
      BY <2>13 DEF Fading, Runs
    <3>1. x \in runtime[k].connections /\ ~runtime[k].disposing
      BY <2>13 DEF Fading
    <3>2. x \in Conn
      BY <3>1 DEF SInv, TypeOK
    <3>3. CASE x # c
      BY <2>6, <3>2, <3>3
    <3>4. CASE x = c
      <4>1. runtime[k].state = "live"
        BY <3>1 DEF Told, Joined
      <4>2. liveSessions[runtime[k].session] = k
        BY <4>1 DEF SInv, Core, Served, Over, isClosing
      <4>3. runtime[k].session # s
        <5>1. CASE k = live
          BY <2>5, <2>7, <3>4, <5>1, NoneAssumption
        <5>2. CASE k # live
          BY <4>2, <5>2
        <5> QED BY <5>1, <5>2
      <4> QED BY <2>2, <2>6, <3>4, <4>3
    <3> QED BY <3>3, <3>4
  <2>15. \A t \in Session : Serving(t) => Serving(t)' \/ Ending'
    BY <1>2, <2>13, FadingServes
  <2> QED BY <2>11, <2>12, <2>14, <2>15 DEF Steady
<1>7. CASE command \in {"prompt", "control"}
  <2> DEFINE runs == command = "prompt" /\ runtime[live].turn = None
             n == [runtime[live] EXCEPT !.operations = @ \cup {r}, !.turn = IF runs THEN r ELSE @]
             p == [new EXCEPT !.live = live, !.pc = IF runs THEN "operating" ELSE "operated"]
  <2>1. /\ live # None
        /\ runtime' = [runtime EXCEPT ![live].operations = @ \cup {r},
                                      ![live].turn = IF runs THEN r ELSE @]
        /\ request' = [request EXCEPT ![r] = p]
        /\ UNCHANGED <<connection, publisher>>
    BY <1>7 DEF Request
  <2>2. live \in Runtime /\ runtime[live] \in Runtime0 /\ runtime[live].state = "live"
    BY <1>3, <2>1
  <2> HIDE DEF runs
  <2>3. runtime' = [runtime EXCEPT ![live] = n]
    BY <1>1, <2>1, <2>2
  <2>4. /\ n \in Runtime0 /\ n.session = runtime[live].session /\ n.state = "live"
        /\ n.disposing = runtime[live].disposing /\ n.connections = runtime[live].connections
    BY <2>2 DEF Runtime0
  <2>5. p.live = live
    BY <1>4 DEF Request0
  <2> HIDE DEF n, p
  <2>6. runtime'[live] = n /\ request'[r] = p /\ \A x \in Req : x # r => request'[x] = request[x]
    BY <1>1, <2>1, <2>2, <2>3
  <2>7. ASSUME NEW x \in Req PROVE Asks(x)
    <3>1. CASE x # r
      BY <2>6, <3>1 DEF Asks
    <3>2. CASE x = r
      <4>1. request'[r].live = live /\ runtime'[live].state = "live"
        BY <2>4, <2>5, <2>6
      <4>2. runtime'[request'[r].live].state = "live"
        BY <4>1
      <4> QED BY <1>2, <3>2, <4>2 DEF Asks, Leaves
    <3> QED BY <3>1, <3>2
  <2>8. /\ UNCHANGED <<connection, liveSessions, publisher>>
        /\ n.state = runtime[live].state
        /\ runtime[live].disposing => n.disposing
        /\ n.connections \subseteq runtime[live].connections
    BY <1>2, <2>1, <2>2, <2>4
  <2> QED BY <2>2, <2>3, <2>4, <2>7, <2>8, TidyTold
<1> QED BY <1>5, <1>6, <1>7 DEF Commands

------------------------------------------------------------------------------
(* The invariant of what clients were told.                                *)

LEMMA TInvInit ==
  Init => TInv
<1> SUFFICES ASSUME Init
             PROVE  TInv
  OBVIOUS
<1>1. SInv
  BY InitInv
<1>2. /\ \A r \in Req : request[r].pc = "free"
      /\ \A l \in Runtime : runtime[l].connections = {}
  BY DEF Init, NoRequest, NoRuntime
<1>3. \A c \in Conn : connection[c].sessionIds = {} /\ connection[c].view.attached = {}
  <2> SUFFICES ASSUME NEW c \in Conn
               PROVE  connection[c].sessionIds = {} /\ connection[c].view.attached = {}
    OBVIOUS
  <2> DEFINE greeted == [NewConnection EXCEPT !.stage = "ready", !.greeted = TRUE, !.view.known = Seeded]
  <2>1. /\ NewConnection.sessionIds = {} /\ NewConnection.view.attached = {}
        /\ greeted.sessionIds = {} /\ greeted.view.attached = {}
    BY DEF NewConnection, NoView
  <2>2. connection[c] \in {NewConnection, greeted}
    BY DEF Init
  <2> HIDE DEF greeted
  <2> QED BY <2>1, <2>2
<1>4. Newcomers /\ NoneTooMany
  BY <1>3 DEF Newcomers, NoneTooMany
<1>5. Used /\ Joined /\ NoneTooFew
  BY <1>2 DEF Used, Joined, NoneTooFew, Uses
<1> QED BY <1>1, <1>4, <1>5 DEF TInv, Told

LEMMA TInvNext ==
  TInv /\ [Next]_vars => TInv'
<1> SUFFICES ASSUME TInv, [Next]_vars
             PROVE  TInv'
  OBVIOUS
<1>1. SInv /\ SInv'
  BY NextInv DEF TInv
<1> SUFFICES ASSUME ~isClosing', "snapshot" \notin Faults
             PROVE  Told'
  BY <1>1 DEF TInv
<1>2. CASE UNCHANGED vars
  <2>1. Steady
    <3>1. UNCHANGED <<connection, runtime, liveSessions, publisher, request>>
      BY <1>2 DEF vars
    <3>2. \A r \in Req : Asks(r)
      BY <3>1 DEF Asks
    <3> QED BY <1>1, <3>1, <3>2, AnswerTold
  <2>2. ~isClosing
    BY <1>2 DEF vars, isClosing
  <2>3. Told
    BY <2>2 DEF TInv
  <2> QED BY <1>1, <2>1, <2>3, SteadyTold
<1>3. CASE CloseConnections \/ CloseSessions \/ Closed \/ Close
  <2>1. server \in Server0
    BY <1>1, Types DEF SInv
  <2> QED BY <1>3, <2>1 DEF CloseConnections, CloseSessions, Closed, Close, isClosing, Server0
<1>4. CASE Next /\ ~(CloseConnections \/ CloseSessions \/ Closed \/ Close)
  <2>1. ~isClosing
    <3>1. ASSUME NEW c \in Conn, ConnectionStep(c) \/ FailProtocol(c) \/ Disconnect(c)
          PROVE  UNCHANGED server
      BY <3>1 DEF ConnectionStep, Hello, HelloListed, HelloSent, CatchUp, Send, FailProtocol, Disconnect
    <3>2. ASSUME NEW c \in Conn, NEW r \in Req, NEW command \in Commands, NEW s \in Session,
                 Request(c, r, command, s)
          PROVE  UNCHANGED server
      BY <3>2 DEF Request
    <3>3. ASSUME NEW r \in Req, RequestStep(r)
          PROVE  UNCHANGED server
      BY <3>3, Zenon DEF RequestStep, AcquireAgain, OpenRejected, Opened, Register, RegisterFails, Discarded,
                  Attach, Attached, AttachedUntold, Detaching, DetachingUntold, Detached, Operated
    <3>4. ASSUME NEW l \in Runtime, RuntimeStep(l) \/ RuntimeError(l)
          PROVE  UNCHANGED server
      BY <3>4 DEF RuntimeStep, TurnEnds, Terminate, Dispose, RuntimeError
    <3>5. ASSUME Broadcast \/ BroadcastFails
          PROVE  UNCHANGED server
      BY <3>5 DEF Broadcast, BroadcastFails
    <3>6. UNCHANGED server
      BY <1>4, <3>1, <3>2, <3>3, <3>4, <3>5 DEF Next, ServerStep
    <3> QED BY <3>6 DEF isClosing
  <2>2. Told
    BY <2>1 DEF TInv
  <2>3. Steady
    <3>1. ASSUME NEW c \in Conn, ConnectionStep(c) \/ FailProtocol(c) \/ Disconnect(c)
          PROVE  Steady
      BY <1>1, <2>1, <2>2, <3>1, ConnectionTold, DisconnectTold
    <3>2. ASSUME NEW c \in Conn, NEW r \in Req, NEW command \in Commands, NEW s \in Session,
                 Request(c, r, command, s)
          PROVE  Steady
      BY <1>1, <2>1, <2>2, <3>2, RequestTold
    <3>3. ASSUME NEW r \in Req, RequestStep(r)
          PROVE  Steady
      <4>1. ~RegisterFails(r) /\ ~AttachedUntold(r) /\ ~DetachingUntold(r)
        BY DEF RegisterFails, AttachedUntold, DetachingUntold
      <4> QED BY <1>1, <2>1, <2>2, <3>3, <4>1, AcquireAgainTold, OpenRejectedTold, OpenedTold,
                 RegisterTold, DiscardedTold, AttachTold, AnswersTold, DetachingTold, OperatedTold
              DEF RequestStep
    <3>4. ASSUME NEW l \in Runtime, RuntimeStep(l) \/ RuntimeError(l)
          PROVE  Steady
      BY <1>1, <2>1, <3>4, TurnEndsTold, TerminateTold, DisposeTold, RuntimeErrorTold DEF RuntimeStep
    <3>5. CASE Broadcast
      BY <1>1, <2>1, <3>5, BroadcastTold
    <3>6. ~BroadcastFails
      BY DEF BroadcastFails
    <3> QED BY <1>4, <3>1, <3>2, <3>3, <3>4, <3>5, <3>6 DEF Next, ServerStep
  <2> QED BY <1>1, <2>2, <2>3, SteadyTold
<1> QED BY <1>2, <1>3, <1>4

\* At rest every client was told the sessions it is attached to, and no other: an attachment
\* that comes or goes finds a broadcast asked for, one being sent that the client is to get,
\* or a step under way that ends by asking for one, and who is ready only later was
\* attached to nothing before. A snapshot that fails ends such a step, or a broadcast, early.
THEOREM AttachmentsToldHolds == Spec => []AttachmentsTold
<1>1. TInv => AttachmentsTold
  <2> SUFFICES ASSUME TInv, AtRest, "snapshot" \notin Faults, NEW c \in Conn, connection[c].stage = "ready"
               PROVE  /\ connection[c].view.attached \subseteq View(c).attached
                      /\ \A l \in Runtime :
                           c \in runtime[l].connections /\ ~runtime[l].disposing =>
                             runtime[l].session \in connection[c].view.attached
    BY DEF AttachmentsTold
  <2>1. Told /\ Ready(c)
    BY DEF TInv, AtRest, Ready
  <2>2. ~Due(c) /\ ~Leaving /\ ~Joining /\ ~Ending
    <3>1. ~Due(c)
      BY DEF AtRest, Due
    <3>2. ~Leaving /\ ~Joining
      BY DEF AtRest, Leaving, Joining, Leaves
    <3>3. ~Ending
      BY DEF AtRest, Ending
    <3> QED BY <3>1, <3>2, <3>3
  <2>3. View(c).attached = Truth(c)
    BY DEF View, Truth
  <2>4. connection[c].view.attached \subseteq Truth(c)
    BY <2>1, <2>2 DEF Told, NoneTooMany
  <2>5. \A l \in Runtime :
          c \in runtime[l].connections /\ ~runtime[l].disposing =>
            runtime[l].session \in connection[c].view.attached
    BY <2>1, <2>2 DEF Told, NoneTooFew
  <2> QED BY <2>3, <2>4, <2>5
<1>2. Spec => []TInv
  BY TInvInit, TInvNext, PTL DEF Spec
<1> QED BY <1>1, <1>2, PTL
==============================================================================
