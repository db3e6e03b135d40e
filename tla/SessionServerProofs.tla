------------------------- MODULE SessionServerProofs -------------------------
(***************************************************************************)
(* The invariant of SessionServer, for any number of connections,          *)
(* sessions, requests and runtimes, and any of the faults, and that its    *)
(* core is preserved: the maps of openings and live sessions, requests and *)
(* runtimes agree, so that a session has one runtime and is not opened     *)
(* against its own lock.  The rest and the theorems are in                 *)
(* SessionRuntimeProofs.                                                   *)
(***************************************************************************)
EXTENDS SessionServer, TLAPS

\* The types of the records.
View0       == [known : SUBSET Session, attached : SUBSET Session]
Connection0 == [stage : Stages, sessionIds : SUBSET Session, greeted : BOOLEAN,
                missed : BOOLEAN, view : View0]
Request0    == [conn : Conn \cup {None}, command : Commands \cup {"none"},
                session : Session \cup {None},
                pc : {"free", "awaitGone", "awaitOpen", "open", "register", "discard",
                      "attach", "attached", "detaching", "detached", "operating", "operated"},
                live : Runtime \cup {None}]
Runtime0    == [session : Session \cup {None}, state : {"free", "acquired", "live", "gone"},
                connections : SUBSET Conn, operations : SUBSET Req, turn : Req \cup {None},
                terminal : BOOLEAN, disposing : BOOLEAN, closes : SUBSET Conn]
Server0     == [closing : {"no", "connections", "sessions", "runtimes", "closed"},
                awaited : SUBSET Req]
Publisher0  == [asked : BOOLEAN, to : SUBSET Conn]

LEMMA Types ==
  TypeOK <=> /\ connection \in [Conn -> Connection0]
             /\ request \in [Req -> Request0]
             /\ runtime \in [Runtime -> Runtime0]
             /\ liveSessions \in [Session -> Runtime \cup {None}]
             /\ openingSessions \in [Session -> Req \cup {None}]
             /\ stored \in SUBSET Session
             /\ publisher \in Publisher0
             /\ server \in Server0
BY DEF TypeOK, Connection0, Request0, Runtime0, Server0, Publisher0, View0

------------------------------------------------------------------------------
(* The invariant.                                                          *)

Opens   == {"open", "register", "discard"}
Keeps   == {"register", "discard"}   \* has a runtime that is not live yet, or will not be
Refers  == {"awaitGone", "register", "discard", "attach", "attached", "detaching", "detached",
            "operating", "operated"}
Held(l) == runtime[l].state \in {"acquired", "live"}
Over    == server.closing \in {"runtimes", "closed"}

\* A request knows its connection and session, and a runtime that was one of some session.
Refs ==
  \A r \in Req :
    /\ request[r].pc # "free" => request[r].conn \in Conn /\ request[r].session \in Session
    /\ request[r].pc \in Refers =>
         request[r].live \in Runtime /\ runtime[request[r].live].session \in Session

\* The map of the openings and those who open agree.
Opening ==
  /\ \A r \in Req : request[r].pc \in Opens => openingSessions[request[r].session] = r
  /\ \A s \in Session : openingSessions[s] # None =>
       /\ request[openingSessions[s]].pc \in Opens
       /\ request[openingSessions[s]].session = s

\* A runtime that is acquired is about to be registered, or discarded, by one request.
Registering ==
  /\ \A r \in Req : request[r].pc \in Keeps =>
       /\ runtime[request[r].live].state = "acquired"
       /\ runtime[request[r].live].session = request[r].session
  /\ \A l \in Runtime : runtime[l].state = "acquired" =>
       \E r \in Req : request[r].pc \in Keeps /\ request[r].live = l

\* The map of the live sessions and the runtimes agree, until the shutdown forgets them.
Served ==
  /\ \A s \in Session : liveSessions[s] # None =>
       /\ runtime[liveSessions[s]].state = "live"
       /\ runtime[liveSessions[s]].session = s
  /\ \A l \in Runtime : runtime[l].state = "live" =>
       /\ runtime[l].session \in Session
       /\ Over \/ liveSessions[runtime[l].session] = l

\* A session has one runtime.
OnePerSession ==
  \A k, l \in Runtime : Held(k) /\ Held(l) /\ runtime[k].session = runtime[l].session => k = l

\* Who waits for a disposal waits for the runtime of his session, and when the server closes
\* there is no other one of it, but one that is being discarded.
Discards(l) == \E r \in Req : request[r].pc = "discard" /\ request[r].live = l
Waiting ==
  \A r \in Req : request[r].pc = "awaitGone" =>
    /\ runtime[request[r].live].session = request[r].session
    /\ runtime[request[r].live].state \in {"live", "gone"}
    /\ isClosing => \A l \in Runtime :
         Held(l) /\ runtime[l].session = request[r].session => l = request[r].live \/ Discards(l)

\* The order of the shutdown: an opening that close() waits for does not begin anew, and has
\* ended when the live sessions are forgotten; nothing is live when close() is over.
Closing ==
  /\ server.closing = "sessions" =>
       \A r \in Req : request[r].pc = "register" => r \in server.awaited
  /\ server.closing \notin {"no", "connections"} =>
       \A r \in server.awaited : request[r].pc # "awaitGone"
  /\ Over => /\ \A r \in Req : request[r].pc # "register"
             /\ \A r \in server.awaited : request[r].pc \notin Opens
             /\ \A s \in Session : liveSessions[s] = None
  /\ server.closing = "closed" => \A l \in Runtime : runtime[l].state # "live"

\* What concerns the openings, the live sessions and the progress of requests.
Core == Refs /\ Opening /\ Registering /\ Served /\ OnePerSession /\ Waiting /\ Closing
        /\ NeverLockedOut

\* No connection is left when the sessions are closed.
Alone == server.closing \notin {"no", "connections"} => \A c \in Conn : connection[c].stage = "closed"

\* When the live sessions are forgotten they are being disposed.
Going == Over => \A l \in Runtime : runtime[l].state = "live" => runtime[l].disposing

\* A turn is an operation of its runtime, whose request waits for its end.
Turns ==
  \A l \in Runtime : runtime[l].turn # None =>
    /\ runtime[l].turn \in runtime[l].operations
    /\ request[runtime[l].turn].pc = "operating"
    /\ request[runtime[l].turn].live = l

SInv == TypeOK /\ Core /\ Alone /\ Going /\ Turns /\ NoIdleRuntime

------------------------------------------------------------------------------
(* Steps that open, register and dispose nothing.                          *)

\* Nobody begins or ends an opening, a wait for a disposal or a runtime.
Calm ==
  /\ UNCHANGED <<liveSessions, openingSessions, server>>
  /\ \A l \in Runtime : /\ runtime'[l].state = runtime[l].state
                        /\ runtime'[l].session = runtime[l].session
  /\ \A r \in Req :
       \/ UNCHANGED request[r]
       \/ /\ request[r].pc \notin Opens
          /\ request'[r].pc \notin Opens \cup {"awaitGone"}
          /\ request'[r].pc # "free" => request'[r].conn \in Conn /\ request'[r].session \in Session
          /\ request'[r].pc \in Refers =>
               request'[r].live \in Runtime /\ runtime[request'[r].live].session \in Session

LEMMA CalmCore ==
  ASSUME TypeOK, Core, Calm
  PROVE  Core'
<1>1. /\ request \in [Req -> Request0]
      /\ runtime \in [Runtime -> Runtime0]
      /\ liveSessions \in [Session -> Runtime \cup {None}]
      /\ openingSessions \in [Session -> Req \cup {None}]
  BY Types
<1>2. Refs'
  BY DEF Refs, Core, Calm
<1>3. Opening'
  BY <1>1 DEF Opening, Refs, Core, Calm, Opens, Refers
<1>4. Registering'
  BY <1>1 DEF Registering, Refs, Core, Calm, Opens, Refers, Keeps
<1>5. Served'
  BY <1>1 DEF Served, Core, Calm, Over
<1>6. OnePerSession'
  BY DEF OnePerSession, Core, Calm, Held
<1>7. Waiting'
  <2>1. \A l \in Runtime : Discards(l) => Discards(l)'
    BY DEF Discards, Calm, Opens
  <2> QED BY <2>1 DEF Waiting, Core, Calm, Held, Refs, Refers, isClosing
<1>8. Closing'
  <2>1. UNCHANGED <<liveSessions, server>> /\ \A l \in Runtime : runtime'[l].state = runtime[l].state
    BY DEF Calm
  <2>2. \A r \in Req : request'[r].pc \in Opens \cup {"awaitGone"} => request'[r] = request[r]
    BY DEF Calm
  <2>3. server.awaited \subseteq Req
    BY Types DEF Server0
  <2> QED BY <2>1, <2>2, <2>3 DEF Closing, Core, Over, Opens
<1>9. NeverLockedOut'
  BY DEF NeverLockedOut, Core, Calm, Locked, Opens
<1> QED BY <1>2, <1>3, <1>4, <1>5, <1>6, <1>7, <1>8, <1>9 DEF Core

------------------------------------------------------------------------------
(* Steps that change requests: openings and waits.                         *)

\* The steps of acquire, for a request that neither opens nor waits for a disposal that goes on.
LEMMA TurnCore ==
  ASSUME TypeOK, Core, NEW r \in Req, NEW q \in Request0, AcquireTurn(r, q),
         q.conn \in Conn, q.session \in Session, q.live = None, q.pc \in {"free", "awaitGone"},
         request[r].pc \notin Opens,
         server.closing \notin {"no", "connections"} => r \notin server.awaited,
         UNCHANGED <<runtime, liveSessions, server>>,
         liveSessions[q.session] = None /\ openingSessions[q.session] = None => ~Locked(q.session)
  PROVE  Core' /\ request' \in [Req -> Request0]
               /\ openingSessions' \in [Session -> Req \cup {None}]
<1> DEFINE s == q.session
           live == liveSessions[s]
<1>1. /\ request \in [Req -> Request0]
      /\ runtime \in [Runtime -> Runtime0]
      /\ liveSessions \in [Session -> Runtime \cup {None}]
      /\ openingSessions \in [Session -> Req \cup {None}]
  BY Types
<1>2. live # None => /\ live \in Runtime
                     /\ runtime[live].state = "live"
                     /\ runtime[live].session = s
  BY <1>1 DEF Core, Served
<1>8. server.awaited \subseteq Req
  BY Types DEF Server0
<1>3. CASE /\ live # None
           /\ runtime[live].terminal
           /\ request' = [request EXCEPT ![r] = NoRequest]
           /\ UNCHANGED openingSessions
  <2>1. Calm
    BY <1>1, <1>3 DEF Calm, NoRequest, Refers, Opens
  <2>2. NoRequest \in Request0
    BY DEF NoRequest, Request0
  <2> QED BY <1>1, <1>3, <2>1, <2>2, CalmCore
<1>4. CASE /\ live # None
           /\ request' = [request EXCEPT ![r] = [q EXCEPT !.pc = "attach", !.live = live]]
           /\ UNCHANGED openingSessions
  <2>1. [q EXCEPT !.pc = "attach", !.live = live] \in Request0
    BY <1>2, <1>4 DEF Request0
  <2>2. Calm
    BY <1>1, <1>2, <1>4 DEF Calm, Refers, Opens, Request0
  <2> QED BY <1>1, <1>4, <2>1, <2>2, CalmCore
<1>5. CASE /\ live = None /\ openingSessions[s] # None
           /\ request' = [request EXCEPT ![r] = [q EXCEPT !.pc = "awaitOpen", !.live = live]]
           /\ UNCHANGED openingSessions
  <2>1. [q EXCEPT !.pc = "awaitOpen", !.live = live] \in Request0
    BY <1>1, <1>5 DEF Request0
  <2>2. Calm
    BY <1>1, <1>5 DEF Calm, Refers, Opens, Request0
  <2> QED BY <1>1, <1>5, <2>1, <2>2, CalmCore
<1>6. CASE /\ live # None
           /\ request' = [request EXCEPT ![r] = [q EXCEPT !.pc = "awaitGone", !.live = live]]
           /\ UNCHANGED openingSessions
  <2> DEFINE p == [q EXCEPT !.pc = "awaitGone", !.live = live]
  <2>1. p \in Request0 /\ p.pc = "awaitGone" /\ p.live = live /\ p.session = s /\ p.conn \in Conn
    BY <1>2, <1>6 DEF Request0
  <2>2. request'[r] = p /\ \A x \in Req : x # r => request'[x] = request[x]
    BY <1>1, <1>6
  <2>3. request' \in [Req -> Request0]
    BY <1>1, <1>6, <2>1
  <2> HIDE DEF p
  <2>4. Refs'
    BY <1>2, <1>6, <2>1, <2>2 DEF Refs, Core
  <2>5. Opening'
    BY <1>1, <1>6, <2>1, <2>2, NoneAssumption DEF Opening, Core, Opens
  <2>6. Registering'
    <3>1. \A x \in Req : request'[x].pc \in Keeps => x # r
      BY <2>1, <2>2 DEF Keeps
    <3>2. ASSUME NEW l \in Runtime, runtime[l].state = "acquired"
          PROVE  \E x \in Req : request'[x].pc \in Keeps /\ request'[x].live = l
      <4>1. PICK x \in Req : request[x].pc \in Keeps /\ request[x].live = l
        BY <3>2 DEF Core, Registering
      <4>2. x # r
        BY <4>1 DEF Opens, Keeps
      <4> QED BY <2>2, <4>1, <4>2
    <3> QED BY <2>2, <3>1, <3>2 DEF Registering, Core
  <2>7. Served' /\ OnePerSession'
    BY DEF Served, OnePerSession, Core, Over, Held
  <2>8. Waiting'
    <3>1. \A l \in Runtime : Discards(l) => Discards(l)'
      BY <2>2 DEF Discards, Opens
    <3> QED BY <1>2, <1>6, <2>1, <2>2, <3>1 DEF Waiting, Core, Held, isClosing, OnePerSession
  <2>9. Closing'
    BY <2>1, <2>2, <1>8 DEF Closing, Core, Over, Opens
  <2>10. NeverLockedOut'
    BY <2>1, <2>2 DEF NeverLockedOut, Core, Locked
  <2> QED BY <1>6, <1>1, <2>3, <2>4, <2>5, <2>6, <2>7, <2>8, <2>9, <2>10 DEF Core
<1>7. CASE /\ live = None /\ openingSessions[s] = None
           /\ openingSessions' = [openingSessions EXCEPT ![s] = r]
           /\ request' = [request EXCEPT ![r] = [q EXCEPT !.pc = "open", !.live = live]]
  <2> DEFINE p == [q EXCEPT !.pc = "open", !.live = live]
  <2>1. p \in Request0 /\ p.pc = "open" /\ p.live = None /\ p.session = s /\ p.conn \in Conn
    BY <1>7 DEF Request0
  <2>2. request'[r] = p /\ \A x \in Req : x # r => request'[x] = request[x]
    BY <1>1, <1>7
  <2>3. request' \in [Req -> Request0] /\ openingSessions' \in [Session -> Req \cup {None}]
    BY <1>1, <1>7, <2>1
  <2>4. openingSessions'[s] = r /\ \A t \in Session : t # s => openingSessions'[t] = openingSessions[t]
    BY <1>1, <1>7
  <2> HIDE DEF p
  <2>5. Refs'
    BY <2>1, <2>2 DEF Refs, Core, Refers
  <2>6. Opening'
    <3>1. \A x \in Req : request'[x].pc \in Opens => openingSessions'[request'[x].session] = x
      BY <1>7, <2>1, <2>2, <2>4, NoneAssumption DEF Opening, Core, Opens, Refs
    <3>2. ASSUME NEW t \in Session, openingSessions'[t] # None
          PROVE  /\ request'[openingSessions'[t]].pc \in Opens
                 /\ request'[openingSessions'[t]].session = t
      <4>1. CASE t = s
        BY <4>1, <2>1, <2>2, <2>4 DEF Opens
      <4>2. CASE t # s
        <5>1. openingSessions[t] \in Req /\ openingSessions[t] # None
          BY <1>1, <2>4, <3>2, <4>2
        <5>2. openingSessions[t] # r
          BY <5>1 DEF Core, Opening
        <5> QED BY <2>2, <2>4, <4>2, <5>1, <5>2 DEF Core, Opening
      <4> QED BY <4>1, <4>2
    <3> QED BY <3>1, <3>2 DEF Opening
  <2>7. Registering'
    <3>1. \A x \in Req : request'[x].pc \in Keeps => x # r
      BY <2>1, <2>2 DEF Keeps
    <3>2. ASSUME NEW l \in Runtime, runtime[l].state = "acquired"
          PROVE  \E x \in Req : request'[x].pc \in Keeps /\ request'[x].live = l
      <4>1. PICK x \in Req : request[x].pc \in Keeps /\ request[x].live = l
        BY <3>2 DEF Core, Registering
      <4>2. x # r
        BY <4>1 DEF Opens, Keeps
      <4> QED BY <2>2, <4>1, <4>2
    <3> QED BY <2>2, <3>1, <3>2 DEF Registering, Core
  <2>8. Served' /\ OnePerSession'
    BY DEF Served, OnePerSession, Core, Over, Held
  <2>9. Waiting'
    <3>1. \A l \in Runtime : Discards(l) => Discards(l)'
      BY <2>2 DEF Discards, Opens
    <3> QED BY <2>1, <2>2, <3>1 DEF Waiting, Core, Held, isClosing
  <2>10. Closing'
    BY <2>1, <2>2, <1>8 DEF Closing, Core, Over, Opens
  <2>11. NeverLockedOut'
    BY <1>7, <2>1, <2>2 DEF NeverLockedOut, Core, Locked
  <2> QED BY <2>3, <2>5, <2>6, <2>7, <2>8, <2>9, <2>10, <2>11 DEF Core
<1> QED BY <1>3, <1>4, <1>5, <1>6, <1>7 DEF AcquireTurn, Answer

\* An opening fails: whoever waits for it is free again.
LEMMA FailsTypes ==
  ASSUME TypeOK, NEW r \in Req, request[r].session \in Session, OpeningFails(r)
  PROVE  /\ request' \in [Req -> Request0]
         /\ openingSessions' \in [Session -> Req \cup {None}]
         /\ request'[r].pc = "free" /\ openingSessions'[request[r].session] = None
         /\ \A x \in Req : \/ request'[x] = request[x] /\ x # r
                           \/ request'[x] = NoRequest /\ (x = r \/ request[x].pc = "awaitOpen")
         /\ \A t \in Session : t # request[r].session => openingSessions'[t] = openingSessions[t]
<1>1. /\ request \in [Req -> Request0]
      /\ openingSessions \in [Session -> Req \cup {None}]
  BY Types
<1>2. NoRequest \in Request0 /\ NoRequest.pc = "free"
  BY DEF NoRequest, Request0
<1> HIDE DEF NoRequest
<1> QED BY <1>1, <1>2 DEF OpeningFails

\* ... while a runtime is given up, or none.
LEMMA FailsCore ==
  ASSUME TypeOK, Core, NEW r \in Req, OpeningFails(r), request[r].pc \in {"open", "discard"},
         UNCHANGED <<liveSessions, server>>, runtime' \in [Runtime -> Runtime0],
         \A l \in Runtime :
           \/ runtime'[l].state = runtime[l].state /\ runtime'[l].session = runtime[l].session
              /\ ~(request[r].pc = "discard" /\ request[r].live = l)
           \/ runtime'[l].state = "gone" /\ runtime'[l].session = runtime[l].session
              /\ request[r].pc = "discard" /\ request[r].live = l
  PROVE  Core'
<1> DEFINE s == request[r].session
<1>1. /\ request \in [Req -> Request0]
      /\ runtime \in [Runtime -> Runtime0]
      /\ liveSessions \in [Session -> Runtime \cup {None}]
      /\ openingSessions \in [Session -> Req \cup {None}]
  BY Types
<1>2. s \in Session /\ openingSessions[s] = r
  BY DEF Core, Refs, Opening, Opens
<1>3. /\ request'[r].pc = "free" /\ openingSessions'[s] = None
      /\ \A x \in Req : \/ request'[x] = request[x] /\ x # r
                        \/ request'[x].pc = "free" /\ (x = r \/ request[x].pc = "awaitOpen")
      /\ \A t \in Session : t # s => openingSessions'[t] = openingSessions[t]
  BY <1>2, FailsTypes DEF NoRequest
<1>4. \A l \in Runtime : Held(l)' => Held(l) /\ runtime'[l].state = runtime[l].state
                                     /\ runtime'[l].session = runtime[l].session
  BY DEF Held
<1>5. \A x \in Req : x # r /\ request[x].pc \in Refers =>
        runtime'[request[x].live].session = runtime[request[x].live].session
  BY <1>1 DEF Core, Refs
<1>6. \A l \in Runtime : runtime[l].state = "live" => runtime'[l].state = "live" /\ runtime'[l].session = runtime[l].session
  BY DEF Core, Registering, Keeps
<1>7. Refs'
  <2> SUFFICES ASSUME NEW x \in Req
               PROVE  /\ request'[x].pc # "free" => request'[x].conn \in Conn /\ request'[x].session \in Session
                      /\ request'[x].pc \in Refers =>
                           request'[x].live \in Runtime /\ runtime'[request'[x].live].session \in Session
    BY DEF Refs
  <2>1. CASE request'[x] = request[x] /\ x # r
    BY <1>5, <2>1 DEF Refs, Core
  <2>2. CASE request'[x].pc = "free"
    BY <2>2 DEF Refers
  <2> QED BY <1>3, <2>1, <2>2
<1>8. Opening'
  BY <1>1, <1>2, <1>3 DEF Opening, Core, Opens, Refs
<1>9. Registering'
  <2>1. ASSUME NEW x \in Req, request'[x].pc \in Keeps
        PROVE  /\ runtime'[request'[x].live].state = "acquired"
               /\ runtime'[request'[x].live].session = request'[x].session
    <3>1. request'[x] = request[x] /\ x # r /\ request[x].pc \in Keeps
      BY <1>3, <2>1 DEF Keeps
    <3>2. request[x].live \in Runtime
          /\ runtime[request[x].live].state = "acquired"
          /\ runtime[request[x].live].session = request[x].session
      BY <3>1 DEF Core, Refs, Registering, Refers, Keeps
    <3>3. openingSessions[request[x].session] = x
      BY <3>1 DEF Core, Opening, Opens, Keeps
    <3>4. ~(request[r].pc = "discard" /\ request[r].live = request[x].live)
      BY <1>2, <3>1, <3>2, <3>3 DEF Core, Registering, Keeps
    <3> QED BY <3>1, <3>2, <3>4
  <2>2. ASSUME NEW l \in Runtime, runtime'[l].state = "acquired"
        PROVE  \E x \in Req : request'[x].pc \in Keeps /\ request'[x].live = l
    <3>1. runtime[l].state = "acquired" /\ ~(request[r].pc = "discard" /\ request[r].live = l)
      BY <2>2
    <3>2. PICK x \in Req : request[x].pc \in Keeps /\ request[x].live = l
      BY <3>1 DEF Core, Registering
    <3> QED BY <1>3, <3>1, <3>2 DEF Keeps
  <2> QED BY <2>1, <2>2 DEF Registering
<1>10. Served'
  BY <1>1, <1>4, <1>6 DEF Served, Core, Over, Held
<1>11. OnePerSession'
  BY <1>4 DEF OnePerSession, Core
<1>12. Waiting'
  <2> SUFFICES ASSUME NEW x \in Req, request'[x].pc = "awaitGone"
               PROVE  /\ runtime'[request'[x].live].session = request'[x].session
                      /\ runtime'[request'[x].live].state \in {"live", "gone"}
                      /\ isClosing' => \A l \in Runtime :
                           Held(l)' /\ runtime'[l].session = request'[x].session =>
                             l = request'[x].live \/ Discards(l)'
    BY DEF Waiting
  <2>1. request'[x] = request[x] /\ x # r /\ request[x].pc = "awaitGone"
    BY <1>3
  <2>2. request[x].live \in Runtime
    BY <2>1 DEF Core, Refs, Refers
  <2>3. runtime'[request[x].live].session = request[x].session
    BY <1>5, <2>1 DEF Core, Waiting, Refers
  <2>4. runtime'[request[x].live].state \in {"live", "gone"}
    BY <1>6, <2>1, <2>2 DEF Core, Waiting
  <2>5. ASSUME NEW l \in Runtime, Held(l)', Discards(l) PROVE Discards(l)'
    <3>1. PICK y \in Req : request[y].pc = "discard" /\ request[y].live = l
      BY <2>5 DEF Discards
    <3>2. y # r
      BY <2>5, <3>1 DEF Held
    <3> QED BY <1>3, <3>1, <3>2 DEF Discards
  <2> QED BY <1>4, <2>1, <2>3, <2>4, <2>5 DEF Core, Waiting, isClosing
<1>13. Closing'
  <2>1. server.awaited \subseteq Req
    BY Types DEF Server0
  <2>2. \A l \in Runtime : runtime'[l].state = "live" => runtime[l].state = "live"
    BY <1>4 DEF Held
  <2> QED BY <1>3, <2>1, <2>2 DEF Closing, Core, Over, Opens
<1>14. NeverLockedOut'
  BY <1>3, <1>4 DEF NeverLockedOut, Core, Locked, Held
<1> QED BY <1>7, <1>8, <1>9, <1>10, <1>11, <1>12, <1>13, <1>14 DEF Core

\* A runtime that cannot be registered is given up.
LEMMA GivenUpCore ==
  ASSUME TypeOK, Core, NEW r \in Req, RegisterFails(r)
  PROVE  Core' /\ request' \in [Req -> Request0]
<1>1. /\ request \in [Req -> Request0] /\ server.awaited \subseteq Req
      /\ request[r].pc = "register" /\ UNCHANGED <<runtime, liveSessions, openingSessions, server>>
  BY Types DEF RegisterFails, Server0
<1>2. /\ request' \in [Req -> Request0]
      /\ request'[r].pc = "discard" /\ request'[r].live = request[r].live
      /\ request'[r].session = request[r].session /\ request'[r].conn = request[r].conn
      /\ \A x \in Req : x # r => request'[x] = request[x]
  BY <1>1 DEF RegisterFails, Goto, Request0
<1>3. \A x \in Req : /\ request'[x].pc \in Keeps <=> request[x].pc \in Keeps
                     /\ request'[x].pc \in Opens <=> request[x].pc \in Opens
                     /\ request'[x].pc \in Refers <=> request[x].pc \in Refers
                     /\ request'[x].live = request[x].live /\ request'[x].session = request[x].session
                     /\ request'[x].conn = request[x].conn
  BY <1>1, <1>2 DEF Keeps, Opens, Refers
<1>4. \A x \in Req : \A pc \in {"free", "open", "awaitGone"} : request'[x].pc = pc <=> request[x].pc = pc
  BY <1>1, <1>2
<1>5. Refs' /\ Registering' /\ Served' /\ OnePerSession'
  BY <1>1, <1>3, <1>4 DEF Core, Refs, Registering, Served, OnePerSession, Held, Over
<1>6. Opening'
  <2>1. openingSessions \in [Session -> Req \cup {None}]
    BY Types
  <2> QED BY <1>1, <1>3, <2>1, NoneAssumption DEF Core, Opening
<1>7. Waiting'
  <2>1. \A l \in Runtime : Discards(l) => Discards(l)'
    BY <1>1, <1>2 DEF Discards
  <2> QED BY <1>1, <1>3, <1>4, <2>1 DEF Core, Waiting, Held, isClosing
<1>8. Closing'
  BY <1>1, <1>2, <1>3, <1>4 DEF Core, Closing, Over
<1>9. NeverLockedOut'
  BY <1>1, <1>3, <1>4 DEF Core, NeverLockedOut, Locked
<1> QED BY <1>2, <1>5, <1>6, <1>7, <1>8, <1>9 DEF Core

------------------------------------------------------------------------------
(* Steps of the runtimes.                                                  *)

\* A runtime is handed out.
LEMMA OpenedCore ==
  ASSUME TypeOK, Core, NEW r \in Req, NEW l \in Runtime, NEW pc, pc = (IF isClosing THEN "discard" ELSE "register"),
         request[r].pc = "open", ~Locked(request[r].session), Unused(l),
         NEW o \in Runtime0, o.session = request[r].session, o.state = "acquired",
         runtime' = [runtime EXCEPT ![l] = o],
         request' = [request EXCEPT ![r].pc = pc, ![r].live = l],
         UNCHANGED <<openingSessions, liveSessions, server>>
  PROVE  Core' /\ request' \in [Req -> Request0]
<1> DEFINE s == request[r].session
           p == [request[r] EXCEPT !.pc = pc, !.live = l]
<1>1. /\ request \in [Req -> Request0]
      /\ runtime \in [Runtime -> Runtime0]
      /\ liveSessions \in [Session -> Runtime \cup {None}]
      /\ openingSessions \in [Session -> Req \cup {None}]
  BY Types
<1>2. s \in Session /\ openingSessions[s] = r /\ request[r].conn \in Conn
  BY DEF Core, Refs, Opening, Opens
<1>3. /\ p \in Request0 /\ p.pc = pc /\ p.live = l /\ p.session = s /\ p.conn = request[r].conn
      /\ pc \in Keeps /\ pc \in Opens /\ pc \notin {"free", "open", "awaitGone"}
  BY <1>1 DEF Request0, Keeps, Opens
<1>4. request'[r] = p /\ \A x \in Req : x # r => request'[x] = request[x]
  BY <1>1
<1>5. request' \in [Req -> Request0]
  BY <1>1, <1>3
<1>6. runtime'[l] = o /\ \A k \in Runtime : k # l => runtime'[k] = runtime[k]
  BY <1>1
<1>7. /\ runtime[l].state \in {"free", "gone"}
      /\ \A x \in Req : request[x].live # l
      /\ \A t \in Session : liveSessions[t] # l
  BY DEF Unused
<1>8. \A k \in Runtime : Held(k) => runtime[k].session # s
  BY DEF Locked, Held
<1> HIDE DEF p
<1>9. \A x \in Req : x # r /\ request[x].pc \in Refers =>
         request[x].live \in Runtime /\ runtime'[request[x].live] = runtime[request[x].live]
  BY <1>6, <1>7 DEF Refs, Core
<1>10. Refs'
  <2> SUFFICES ASSUME NEW x \in Req
               PROVE  /\ request'[x].pc # "free" => request'[x].conn \in Conn /\ request'[x].session \in Session
                      /\ request'[x].pc \in Refers =>
                           request'[x].live \in Runtime /\ runtime'[request'[x].live].session \in Session
    BY DEF Refs
  <2>1. CASE x = r
    BY <1>2, <1>3, <1>4, <1>6, <2>1
  <2>2. CASE x # r
    <3>1. request'[x] = request[x]
      BY <1>4, <2>2
    <3> QED BY <1>9, <2>2, <3>1 DEF Refs, Core
  <2> QED BY <2>1, <2>2
<1>11. Opening'
  BY <1>1, <1>2, <1>3, <1>4 DEF Opening, Core, Opens
<1>12. Registering'
  <2>1. ASSUME NEW x \in Req, request'[x].pc \in Keeps
        PROVE  /\ runtime'[request'[x].live].state = "acquired"
               /\ runtime'[request'[x].live].session = request'[x].session
    <3>1. CASE x = r
      BY <3>1, <1>3, <1>4, <1>6
    <3>2. CASE x # r
      <4>1. request'[x] = request[x] /\ request[x].pc \in Refers
        BY <1>4, <2>1, <3>2 DEF Refers, Keeps
      <4> QED BY <1>9, <2>1, <3>2, <4>1 DEF Core, Registering
    <3> QED BY <3>1, <3>2
  <2>2. ASSUME NEW k \in Runtime, runtime'[k].state = "acquired"
        PROVE  \E x \in Req : request'[x].pc \in Keeps /\ request'[x].live = k
    <3>1. CASE k = l
      BY <3>1, <1>3, <1>4
    <3>2. CASE k # l
      <4>1. PICK x \in Req : request[x].pc \in Keeps /\ request[x].live = k
        BY <1>6, <2>2, <3>2 DEF Core, Registering
      <4>2. x # r
        BY <4>1 DEF Keeps
      <4> QED BY <1>4, <4>1, <4>2
    <3> QED BY <3>1, <3>2
  <2> QED BY <2>1, <2>2 DEF Registering
<1>13. Served'
  BY <1>1, <1>6, <1>7 DEF Served, Core, Over
<1>14. OnePerSession'
  BY <1>6, <1>8 DEF OnePerSession, Core, Held
<1>15. Waiting'
  <2> SUFFICES ASSUME NEW x \in Req, request'[x].pc = "awaitGone"
               PROVE  /\ runtime'[request'[x].live].session = request'[x].session
                      /\ runtime'[request'[x].live].state \in {"live", "gone"}
                      /\ isClosing => \A k \in Runtime :
                           Held(k)' /\ runtime'[k].session = request'[x].session =>
                             k = request'[x].live \/ Discards(k)'
    BY DEF Waiting, isClosing
  <2>1. x # r
    BY <1>3, <1>4
  <2>2. request'[x] = request[x] /\ request[x].pc \in Refers
    BY <1>4, <2>1 DEF Refers
  <2>3. isClosing => Discards(l)'
    BY <1>3, <1>4 DEF Discards
  <2>4. \A k \in Runtime : k # l /\ Discards(k) => Discards(k)'
    BY <1>4 DEF Discards
  <2>5. \A k \in Runtime : k # l /\ Held(k)' => Held(k) /\ runtime'[k] = runtime[k]
    BY <1>6 DEF Held
  <2>6. ASSUME isClosing, NEW k \in Runtime, Held(k)', runtime'[k].session = request'[x].session
        PROVE  k = request'[x].live \/ Discards(k)'
    <3>1. CASE k = l
      BY <2>3, <2>6, <3>1
    <3>2. CASE k # l
      <4>1. Held(k) /\ runtime[k].session = request[x].session
        BY <2>2, <2>5, <2>6, <3>2
      <4>2. k = request[x].live \/ Discards(k)
        BY <2>2, <2>6, <4>1 DEF Core, Waiting
      <4> QED BY <2>2, <2>4, <3>2, <4>2
    <3> QED BY <3>1, <3>2
  <2>7. runtime'[request[x].live] = runtime[request[x].live]
    BY <1>9, <2>1, <2>2
  <2>8. /\ runtime[request[x].live].session = request[x].session
        /\ runtime[request[x].live].state \in {"live", "gone"}
    BY <2>2 DEF Core, Waiting
  <2> QED BY <2>2, <2>6, <2>7, <2>8
<1>16. Closing'
  <2>1. \A x \in Req : request'[x].pc = "register" => request[x].pc = "register" \/ ~isClosing
    BY <1>3, <1>4
  <2>2. \A x \in Req : /\ request'[x].pc \in Opens => request[x].pc \in Opens
                       /\ request'[x].pc = "awaitGone" => request[x].pc = "awaitGone"
    BY <1>3, <1>4 DEF Opens
  <2>3. \A k \in Runtime : runtime'[k].state = "live" => runtime[k].state = "live"
    BY <1>6
  <2>4. server.awaited \subseteq Req
    BY Types DEF Server0
  <2> QED BY <2>1, <2>2, <2>3, <2>4 DEF Core, Closing, Over, isClosing
<1>17. NeverLockedOut'
  <2> SUFFICES ASSUME NEW x \in Req, request'[x].pc = "open",
                      NEW k \in Runtime, runtime'[k].session = request'[x].session,
                      runtime'[k].state \in {"acquired", "live"}
               PROVE  FALSE
    BY DEF NeverLockedOut, Locked
  <2>1. x # r /\ request'[x] = request[x]
    BY <1>3, <1>4
  <2>2. openingSessions[request[x].session] = x
    BY <2>1 DEF Core, Opening, Opens
  <2>3. k # l
    BY <1>2, <1>6, <2>1, <2>2
  <2> QED BY <1>6, <2>1, <2>3 DEF Core, NeverLockedOut, Locked
<1> QED BY <1>5, <1>10, <1>11, <1>12, <1>13, <1>14, <1>15, <1>16, <1>17 DEF Core

\* The session is registered.
LEMMA RegisterCore ==
  ASSUME TypeOK, Core, NEW r \in Req, Register(r)
  PROVE  Core' /\ request' \in [Req -> Request0] /\ runtime' \in [Runtime -> Runtime0]
               /\ openingSessions' \in [Session -> Req \cup {None}]
               /\ liveSessions' \in [Session -> Runtime \cup {None}]
<1> DEFINE s == request[r].session
           l == request[r].live
           joins(x) == x = r \/ (request[x].pc = "awaitOpen" /\ request[x].session = s)
<1>1. /\ request \in [Req -> Request0]
      /\ runtime \in [Runtime -> Runtime0]
      /\ liveSessions \in [Session -> Runtime \cup {None}]
      /\ openingSessions \in [Session -> Req \cup {None}]
      /\ server \in Server0
  BY Types
<1>2. request[r].pc = "register" /\ s \in Session /\ openingSessions[s] = r
  BY DEF Register, Core, Refs, Opening, Opens
<1>3. l \in Runtime /\ runtime[l].state = "acquired" /\ runtime[l].session = s
  BY <1>2 DEF Core, Refs, Registering, Refers, Keeps
<1>4. runtime' \in [Runtime -> Runtime0]
  <2>1. [runtime[l] EXCEPT !.state = "live"] \in Runtime0
    BY <1>1, <1>3 DEF Runtime0
  <2> QED BY <1>1, <2>1 DEF Register
<1>5. /\ runtime'[l].state = "live" /\ runtime'[l].session = s
      /\ \A k \in Runtime : k # l => runtime'[k] = runtime[k]
  BY <1>1, <1>3 DEF Register, Runtime0
<1>6. /\ liveSessions' \in [Session -> Runtime \cup {None}]
      /\ liveSessions'[s] = l
      /\ \A t \in Session : t # s => liveSessions'[t] = liveSessions[t]
  BY <1>1, <1>2, <1>3 DEF Register
<1>7. /\ openingSessions' \in [Session -> Req \cup {None}]
      /\ openingSessions'[s] = None
      /\ \A t \in Session : t # s => openingSessions'[t] = openingSessions[t]
  BY <1>1, <1>2 DEF Register
<1>8. ASSUME NEW x \in Req
      PROVE  /\ request'[x] \in Request0
             /\ ~joins(x) => request'[x] = request[x]
             /\ joins(x) => /\ request'[x].pc = "attach" /\ request'[x].live = l
                            /\ request'[x].conn = request[x].conn /\ request'[x].session = s
  <2>1. request'[x] = IF joins(x) THEN [request[x] EXCEPT !.pc = "attach", !.live = l] ELSE request[x]
    BY DEF Register
  <2>2. request[x] \in Request0 /\ (joins(x) => request[x].session = s)
    BY <1>1
  <2> HIDE DEF joins
  <2> QED BY <1>3, <2>1, <2>2 DEF Request0
<1>9. request' \in [Req -> Request0]
  BY <1>8 DEF Register
<1>10. UNCHANGED server
  BY DEF Register
<1>11. \A k \in Runtime : /\ Held(k)' <=> Held(k)
                          /\ runtime'[k].session = runtime[k].session
                          /\ runtime'[k].state = runtime[k].state \/ k = l
  BY <1>3, <1>5 DEF Held
<1>12. \A x \in Req : joins(x) => request[x].conn \in Conn
  BY <1>2 DEF Core, Refs
<1>13. \A x \in Req : request[x].pc \in Opens /\ x # r => request[x].session # s /\ ~joins(x)
  BY <1>2 DEF Core, Opening, Opens
<1> HIDE DEF joins
<1>14. Refs'
  <2> SUFFICES ASSUME NEW x \in Req
               PROVE  /\ request'[x].pc # "free" => request'[x].conn \in Conn /\ request'[x].session \in Session
                      /\ request'[x].pc \in Refers =>
                           request'[x].live \in Runtime /\ runtime'[request'[x].live].session \in Session
    BY DEF Refs
  <2>1. CASE joins(x)
    BY <1>2, <1>3, <1>5, <1>8, <1>12, <2>1
  <2>2. CASE ~joins(x)
    BY <1>8, <1>11, <2>2 DEF Core, Refs
  <2> QED BY <2>1, <2>2
<1>15. Opening'
  <2>1. ASSUME NEW x \in Req, request'[x].pc \in Opens
        PROVE  openingSessions'[request'[x].session] = x
    <3>1. ~joins(x) /\ request'[x] = request[x]
      BY <1>8, <2>1 DEF Opens
    <3>2. x # r
      BY <3>1 DEF joins
    <3>3. request[x].session # s /\ request[x].session \in Session
      BY <1>13, <2>1, <3>1, <3>2 DEF Core, Refs, Opens
    <3> QED BY <1>7, <2>1, <3>1, <3>3 DEF Core, Opening
  <2>2. ASSUME NEW t \in Session, openingSessions'[t] # None
        PROVE  /\ request'[openingSessions'[t]].pc \in Opens
               /\ request'[openingSessions'[t]].session = t
    <3>1. t # s /\ openingSessions'[t] = openingSessions[t] /\ openingSessions[t] \in Req
      BY <1>1, <1>7, <2>2
    <3>2. request[openingSessions[t]].pc \in Opens /\ request[openingSessions[t]].session = t
      BY <2>2, <3>1 DEF Core, Opening
    <3>3. ~joins(openingSessions[t])
      BY <3>1, <3>2 DEF joins, Opens
    <3> QED BY <1>8, <3>1, <3>2, <3>3
  <2> QED BY <2>1, <2>2 DEF Opening
<1>16. Registering'
  <2>1. ASSUME NEW x \in Req, request'[x].pc \in Keeps
        PROVE  /\ runtime'[request'[x].live].state = "acquired"
               /\ runtime'[request'[x].live].session = request'[x].session
    <3>1. ~joins(x) /\ request'[x] = request[x] /\ request[x].pc \in Keeps
      BY <1>8, <2>1 DEF Keeps
    <3>2. x # r /\ request[x].session # s
      BY <1>13, <3>1 DEF joins, Opens, Keeps
    <3>3. request[x].live \in Runtime /\ request[x].live # l
      BY <1>3, <3>1, <3>2 DEF Core, Refs, Registering, Refers, Keeps
    <3> QED BY <1>5, <3>1, <3>3 DEF Core, Registering
  <2>2. ASSUME NEW k \in Runtime, runtime'[k].state = "acquired"
        PROVE  \E x \in Req : request'[x].pc \in Keeps /\ request'[x].live = k
    <3>1. k # l /\ runtime[k].state = "acquired"
      BY <1>5, <2>2
    <3>2. PICK x \in Req : request[x].pc \in Keeps /\ request[x].live = k
      BY <3>1 DEF Core, Registering
    <3>3. ~joins(x)
      BY <3>1, <3>2 DEF joins, Keeps
    <3> QED BY <1>8, <3>2, <3>3
  <2> QED BY <2>1, <2>2 DEF Registering
<1>17. Served'
  <2>1. ASSUME NEW t \in Session, liveSessions'[t] # None
        PROVE  runtime'[liveSessions'[t]].state = "live" /\ runtime'[liveSessions'[t]].session = t
    <3>1. CASE t = s
      BY <1>5, <1>6, <3>1
    <3>2. CASE t # s
      <4>1. /\ liveSessions'[t] = liveSessions[t] /\ liveSessions[t] \in Runtime
            /\ runtime[liveSessions[t]].state = "live" /\ runtime[liveSessions[t]].session = t
        BY <1>1, <1>6, <2>1, <3>2 DEF Core, Served
      <4> QED BY <1>3, <1>5, <4>1
    <3> QED BY <3>1, <3>2
  <2>2. ASSUME NEW k \in Runtime, runtime'[k].state = "live"
        PROVE  runtime'[k].session \in Session /\ (Over' \/ liveSessions'[runtime'[k].session] = k)
    <3>1. CASE k = l
      BY <1>2, <1>5, <1>6, <3>1
    <3>2. CASE k # l
      <4>1. runtime'[k] = runtime[k] /\ runtime[k].session # s
        BY <1>3, <1>5, <2>2, <3>2 DEF Core, OnePerSession, Held
      <4> QED BY <1>6, <1>10, <2>2, <4>1 DEF Core, Served, Over
    <3> QED BY <3>1, <3>2
  <2> QED BY <2>1, <2>2 DEF Served
<1>18. OnePerSession'
  BY <1>11 DEF Core, OnePerSession
<1>19. Waiting'
  <2> SUFFICES ASSUME NEW x \in Req, request'[x].pc = "awaitGone"
               PROVE  /\ runtime'[request'[x].live].session = request'[x].session
                      /\ runtime'[request'[x].live].state \in {"live", "gone"}
                      /\ isClosing' => \A k \in Runtime :
                           Held(k)' /\ runtime'[k].session = request'[x].session =>
                             k = request'[x].live \/ Discards(k)'
    BY DEF Waiting
  <2>1. request'[x] = request[x] /\ request[x].pc = "awaitGone"
    BY <1>8
  <2>2. request[x].live \in Runtime
    BY <2>1 DEF Core, Refs, Refers
  <2>3. runtime'[request[x].live] = runtime[request[x].live]
    BY <1>3, <1>5, <2>1, <2>2 DEF Core, Waiting
  <2>4. ASSUME NEW k \in Runtime, Discards(k) PROVE Discards(k)'
    <3>1. PICK y \in Req : request[y].pc = "discard" /\ request[y].live = k
      BY <2>4 DEF Discards
    <3>2. ~joins(y)
      BY <1>2, <3>1 DEF joins
    <3> QED BY <1>8, <3>1, <3>2 DEF Discards
  <2> QED BY <1>10, <1>11, <2>1, <2>3, <2>4 DEF Core, Waiting, isClosing
<1>20. Closing'
  <2>1. \A x \in Req : request'[x].pc = "register" => request[x].pc = "register"
    BY <1>8
  <2>2. ~Over /\ server.closing # "closed"
    BY <1>2 DEF Core, Closing, Over
  <2>3. \A x \in Req : request'[x].pc = "awaitGone" => request[x].pc = "awaitGone"
    BY <1>8
  <2>4. server.awaited \subseteq Req
    BY <1>1 DEF Server0
  <2> QED BY <1>10, <2>1, <2>2, <2>3, <2>4 DEF Core, Closing, Over
<1>21. NeverLockedOut'
  <2> SUFFICES ASSUME NEW x \in Req, request'[x].pc = "open",
                      NEW k \in Runtime, runtime'[k].session = request'[x].session,
                      runtime'[k].state \in {"acquired", "live"}
               PROVE  FALSE
    BY DEF NeverLockedOut, Locked
  <2>1. request'[x] = request[x]
    BY <1>8
  <2> QED BY <1>11, <2>1 DEF Core, NeverLockedOut, Locked, Held
<1> QED BY <1>4, <1>6, <1>7, <1>9, <1>14, <1>15, <1>16, <1>17, <1>18, <1>19, <1>20, <1>21 DEF Core

\* A runtime has been disposed.
LEMMA DisposeCore ==
  ASSUME TypeOK, Core, NEW l \in Runtime, Dispose(l)
  PROVE  Core' /\ runtime' \in [Runtime -> Runtime0]
               /\ liveSessions' \in [Session -> Runtime \cup {None}]
<1> DEFINE s == runtime[l].session
<1>1. /\ request \in [Req -> Request0]
      /\ runtime \in [Runtime -> Runtime0]
      /\ liveSessions \in [Session -> Runtime \cup {None}]
  BY Types
<1>2. runtime[l].state = "live" /\ s \in Session
  BY DEF Dispose, Core, Served
<1>3. runtime' \in [Runtime -> Runtime0]
  <2>1. [runtime[l] EXCEPT !.state = "gone"] \in Runtime0
    BY <1>1 DEF Runtime0
  <2> QED BY <1>1, <2>1 DEF Dispose
<1>4. /\ runtime'[l].state = "gone" /\ runtime'[l].session = s
      /\ \A k \in Runtime : k # l => runtime'[k] = runtime[k]
  BY <1>1 DEF Dispose, Runtime0
<1>5. /\ liveSessions' \in [Session -> Runtime \cup {None}]
      /\ \A t \in Session : \/ liveSessions'[t] = liveSessions[t] /\ liveSessions[t] # l
                            \/ liveSessions'[t] = None
  <2>1. \A t \in Session : t # s => liveSessions[t] # l
    BY NoneAssumption DEF Core, Served
  <2>2. liveSessions' = [liveSessions EXCEPT ![s] = IF @ = l THEN None ELSE @]
    BY DEF Dispose
  <2> QED BY <1>1, <1>2, <2>1, <2>2
<1>6. UNCHANGED <<request, openingSessions, server>>
  BY DEF Dispose
<1>7. \A k \in Runtime : Held(k)' => Held(k) /\ runtime'[k] = runtime[k]
  BY <1>4 DEF Held
<1>8. Refs'
  BY <1>4, <1>6 DEF Core, Refs
<1>9. Opening'
  BY <1>6 DEF Core, Opening
<1>10. Registering'
  BY <1>2, <1>4, <1>6 DEF Core, Registering, Refs, Refers, Keeps
<1>11. Served'
  <2>1. ASSUME NEW t \in Session, liveSessions'[t] # None
        PROVE  runtime'[liveSessions'[t]].state = "live" /\ runtime'[liveSessions'[t]].session = t
    BY <1>1, <1>4, <1>5, <2>1 DEF Core, Served
  <2>2. ASSUME NEW k \in Runtime, runtime'[k].state = "live"
        PROVE  runtime'[k].session \in Session /\ (Over' \/ liveSessions'[runtime'[k].session] = k)
    <3>1. k # l /\ runtime'[k] = runtime[k]
      BY <1>4, <2>2
    <3>2. s # runtime[k].session \/ Over
      BY <1>2, <2>2, <3>1 DEF Core, Served
    <3>3. liveSessions' = [liveSessions EXCEPT ![s] = IF @ = l THEN None ELSE @]
      BY DEF Dispose
    <3> QED BY <1>1, <1>6, <2>2, <3>1, <3>2, <3>3 DEF Core, Served, Over
  <2> QED BY <2>1, <2>2 DEF Served
<1>12. OnePerSession'
  BY <1>7 DEF Core, OnePerSession
<1>13. Waiting'
  BY <1>4, <1>6, <1>7 DEF Core, Waiting, Discards, isClosing, Refs, Refers
<1>14. Closing'
  <2>1. Over => \A t \in Session : liveSessions'[t] = None
    BY <1>5 DEF Core, Closing
  <2> QED BY <1>4, <1>6, <2>1 DEF Core, Closing, Over
<1>15. NeverLockedOut'
  BY <1>6, <1>7 DEF Core, NeverLockedOut, Locked, Held
<1> QED BY <1>3, <1>5, <1>8, <1>9, <1>10, <1>11, <1>12, <1>13, <1>14, <1>15 DEF Core
==============================================================================
