------------------------- MODULE CrewPipelineProofs -------------------------
(***************************************************************************)
(* Theorems about CrewPipeline, for every number of members, cards,        *)
(* requests, slots, rounds and crashes.                                    *)
(***************************************************************************)
EXTENDS CrewPipeline, TLAPS

-----------------------------------------------------------------------------
(* Type correctness.  A pass that is not idle has a member.                *)

PassHasMember == \A p \in Passes : pass[p].pc # "idle" => pass[p].member \in Members
TypeInv == TypeOK /\ PassHasMember

\* The initial state is well typed.
LEMMA InitTypeInv == Init => TypeInv
  BY ConstantsAssumption
  DEF Init, TypeInv, TypeOK, PassHasMember, NoCard, Card, Status, Lock,
      NoRequest, Request, NoPass, Pass, NoCoord, Coord, Actors

\* An update of one card by a well-typed document keeps the collection typed.
LEMMA WriteTyped ==
  ASSUME cards \in [Cards -> Card], NEW c, NEW f, NEW r,
         c \in Cards => r \in Card, Write(c, f, r)
  PROVE  cards' \in [Cards -> Card]
  BY DEF Write

\* The documents the requests write are well typed.
LEMMA RequestCards ==
  ASSUME cards \in [Cards -> Card], NEW c \in Cards, NEW t \in SUBSET Members,
         NEW u \in SUBSET Members, NEW n \in Nat
  PROVE  /\ [NoCard EXCEPT !.status = "gone"] \in Card
         /\ [NoCard EXCEPT !.status = "draft", !.assignees = t, !.repeat = c \in Recurring,
                           !.deps = {x \in Deps[c] : Exists(x)}] \in Card
         /\ [cards[c] EXCEPT !.assignees = t, !.legacy = "empty"] \in Card
         /\ [cards[c] EXCEPT !.status = "draft", !.awaiting = {}] \in Card
         /\ [cards[c] EXCEPT !.status = "queued", !.awaiting = t, !.running = {},
                             !.assignees = u] \in Card
         /\ [cards[c] EXCEPT !.status = "done", !.approved = n, !.due = @ \/ cards[c].repeat,
                             !.combineLock = "free"] \in Card
         /\ [cards[c] EXCEPT !.status = "queued", !.awaiting = t, !.running = {},
                             !.approved = IF @ = n THEN 0 ELSE @, !.combineLock = "free"] \in Card
         /\ [cards[c] EXCEPT !.assignees = @ \ t, !.awaiting = @ \ t, !.running = @ \ t] \in Card
         /\ [cards[c] EXCEPT !.status = "queued", !.awaiting = t, !.running = {},
                             !.due = FALSE, !.combineLock = "free"] \in Card
         /\ [cards[c] EXCEPT !.repeat = FALSE, !.due = FALSE] \in Card
         /\ BackToDraft(c) \in Card
<1>1. cards[c] \in Card
  OBVIOUS
<1>2. NoCard \in Card
  BY DEF NoCard, Card, Status, Lock
<1>3. {x \in Deps[c] : Exists(x)} \subseteq Cards
  BY ConstantsAssumption
<1>4. [NoCard EXCEPT !.status = "gone"] \in Card
  BY <1>2 DEF Card, Status
<1>5. [NoCard EXCEPT !.status = "draft", !.assignees = t, !.repeat = c \in Recurring,
                     !.deps = {x \in Deps[c] : Exists(x)}] \in Card
  <2>1. ASSUME NEW b \in BOOLEAN, NEW D \in SUBSET Cards
        PROVE  [NoCard EXCEPT !.status = "draft", !.assignees = t, !.repeat = b,
                              !.deps = D] \in Card
    BY <1>2 DEF Card, Status
  <2>2. (c \in Recurring) \in BOOLEAN
    OBVIOUS
  <2> QED BY <1>3, <2>1, <2>2, Zenon
<1>6. [cards[c] EXCEPT !.assignees = t, !.legacy = "empty"] \in Card
  BY <1>1 DEF Card
<1>7. [cards[c] EXCEPT !.status = "draft", !.awaiting = {}] \in Card
  BY <1>1 DEF Card, Status
<1>8. [cards[c] EXCEPT !.status = "queued", !.awaiting = t, !.running = {},
                       !.assignees = u] \in Card
  BY <1>1 DEF Card, Status
<1>9. [cards[c] EXCEPT !.status = "done", !.approved = n, !.due = @ \/ cards[c].repeat,
                       !.combineLock = "free"] \in Card
  BY <1>1 DEF Card, Status, Lock
<1>10. [cards[c] EXCEPT !.status = "queued", !.awaiting = t, !.running = {},
                        !.approved = IF @ = n THEN 0 ELSE @, !.combineLock = "free"] \in Card
  BY <1>1 DEF Card, Status, Lock
<1>11. [cards[c] EXCEPT !.assignees = @ \ t, !.awaiting = @ \ t, !.running = @ \ t] \in Card
  BY <1>1 DEF Card
<1>12. [cards[c] EXCEPT !.status = "queued", !.awaiting = t, !.running = {},
                        !.due = FALSE, !.combineLock = "free"] \in Card
  BY <1>1 DEF Card, Status, Lock
<1>13. [cards[c] EXCEPT !.repeat = FALSE, !.due = FALSE] \in Card
  BY <1>1 DEF Card
<1>14. BackToDraft(c) \in Card
  BY <1>1 DEF Card, BackToDraft, Status
<1> QED BY <1>4, <1>5, <1>6, <1>7, <1>8, <1>9, <1>10, <1>11, <1>12, <1>13, <1>14

\* The documents the passes and the coordinators write are well typed.
LEMMA WorkerCards ==
  ASSUME cards \in [Cards -> Card], NEW c \in Cards
  PROVE  /\ \A m \in Members : [cards[c] EXCEPT !.awaiting = @ \ {m},
                                                !.running = @ \cup {m},
                                                !.status = "working"] \in Card
         /\ \A m \in Members : Landed(c, m) \in Card
         /\ [cards[c] EXCEPT !.status = "review"] \in Card
         /\ \A k : \A l \in Lock : SetLock(c, k, l) \in Card
         /\ \A t \in SUBSET Members :
              [cards[c] EXCEPT !.parts = t, !.splitLock = "free"] \in Card
         /\ [BackToDraft(c) EXCEPT !.splitLock = "free"] \in Card
         /\ [cards[c] EXCEPT !.status = "review", !.revs = @ + 1, !.cycle = {}] \in Card
<1>1. cards[c] \in Card
  OBVIOUS
<1>2. ASSUME NEW m \in Members
      PROVE  [cards[c] EXCEPT !.awaiting = @ \ {m}, !.running = @ \cup {m},
                              !.status = "working"] \in Card
  BY <1>1 DEF Card, Status
<1>3. ASSUME NEW m \in Members PROVE Landed(c, m) \in Card
  <2>1. \A x, y \in SUBSET Members, n \in Nat :
          [cards[c] EXCEPT !.running = x, !.revs = n, !.cycle = y] \in Card
    BY <1>1 DEF Card
  <2>2. /\ cards[c].running \ {m} \in SUBSET Members
        /\ cards[c].cycle \cup {m} \in SUBSET Members
        /\ cards[c].revs + 1 \in Nat
    BY <1>1 DEF Card
  <2> QED BY <2>1, <2>2 DEF Landed
<1>4. [cards[c] EXCEPT !.status = "review"] \in Card
  BY <1>1 DEF Card, Status
<1>5. ASSUME NEW k, NEW l \in Lock PROVE SetLock(c, k, l) \in Card
  BY <1>1 DEF Card, SetLock
<1>6. ASSUME NEW t \in SUBSET Members
      PROVE  [cards[c] EXCEPT !.parts = t, !.splitLock = "free"] \in Card
  BY <1>1 DEF Card, Lock
<1>7. [BackToDraft(c) EXCEPT !.splitLock = "free"] \in Card
  <2>1. BackToDraft(c) \in Card
    BY <1>1, RequestCards
  <2> QED BY <2>1 DEF Card, Lock
<1>8. [cards[c] EXCEPT !.status = "review", !.revs = @ + 1, !.cycle = {}] \in Card
  <2>1. \A n \in Nat :
          [cards[c] EXCEPT !.status = "review", !.revs = n, !.cycle = {}] \in Card
    BY <1>1 DEF Card, Status
  <2>2. cards[c].revs + 1 \in Nat
    BY <1>1 DEF Card
  <2> QED BY <2>1, <2>2
<1> QED BY <1>2, <1>3, <1>4, <1>5, <1>6, <1>7, <1>8

\* A request that is read and a request that ends leave the requests typed.
LEMMA RequestsTyped ==
  ASSUME TypeOK, NEW x \in Actors
  PROVE  /\ [handler EXCEPT ![x] = NoRequest] \in [Actors -> Request]
         /\ \A c \in Cards, who \in SUBSET Members,
               pc \in {"promote", "approve", "changes", "requeue", "retire"}, round \in BOOLEAN :
              Read(x, pc, c, who, round) =>
                /\ handler' \in [Actors -> Request]
                /\ cards' \in [Cards -> Card]
<1>1. [handler EXCEPT ![x] = NoRequest] \in [Actors -> Request]
  BY DEF TypeOK, NoRequest, Request
<1>2. ASSUME NEW c \in Cards, NEW who \in SUBSET Members, NEW round \in BOOLEAN,
             NEW pc \in {"promote", "approve", "changes", "requeue", "retire"},
             Read(x, pc, c, who, round)
      PROVE  handler' \in [Actors -> Request] /\ cards' \in [Cards -> Card]
  <2>1. cards[c] \in Card
    BY DEF TypeOK
  <2>2. /\ cards[c].assignees \in SUBSET Members /\ cards[c].revs \in Nat
        /\ cards[c].rounds \in Nat
    BY <2>1 DEF Card
  <2>3. [pc |-> pc, card |-> c, who |-> who, ids |-> cards[c].assignees,
         last |-> LastRevision(c)] \in Request
    BY <2>2 DEF Request, LastRevision
  <2>4. handler' \in [Actors -> Request]
    BY <1>2, <2>3 DEF TypeOK, Read
  <2>5. [cards[c] EXCEPT !.rounds = IF round THEN @ + 1 ELSE @] \in Card
    BY <2>1, <2>2 DEF Card
  <2>6. cards' = [cards EXCEPT ![c] = [cards[c] EXCEPT !.rounds = IF round THEN @ + 1 ELSE @]]
    BY <1>2 DEF Read
  <2>7. cards' \in [Cards -> Card]
    BY <2>5, <2>6 DEF TypeOK
  <2> QED BY <2>4, <2>7
<1> QED BY <1>1, <1>2

\* What is typed before a step and not touched by it is typed after it.
LEMMA TypeInvFrame ==
  ASSUME TypeInv, cards' \in [Cards -> Card], handler' \in [Actors -> Request],
         UNCHANGED <<member, pass, coord, busy, crashes>>
  PROVE  TypeInv'
  BY DEF TypeInv, TypeOK, PassHasMember

\* A user's request keeps the types.
LEMMA UserTypeInv ==
  ASSUME TypeInv, NEW h \in Handlers, UserRequest(h)
  PROVE  TypeInv'
<1>1. /\ cards \in [Cards -> Card] /\ handler \in [Actors -> Request]
      /\ h \in Actors /\ TypeOK
      /\ \A team \in Teams : team \in SUBSET Members
      /\ \A c \in Cards : cards[c].assignees \cap Active \in SUBSET Members
  BY ConstantsAssumption DEF TypeInv, TypeOK, Actors, Active
<1>2. ASSUME NEW c \in Cards, NEW team \in Teams, CreateCard(h, c, team)
      PROVE  TypeInv'
  <2>1. [NoCard EXCEPT !.status = "draft", !.assignees = team, !.repeat = c \in Recurring,
                       !.deps = {x \in Deps[c] : Exists(x)}] \in Card
    BY <1>1, RequestCards, Zenon
  <2>2. cards' \in [Cards -> Card]
    BY <1>1, <1>2, <2>1 DEF CreateCard
  <2> QED BY <1>1, <1>2, <2>2, TypeInvFrame DEF CreateCard
<1>3. ASSUME NEW c \in Cards, NEW team \in Teams, UpdateDraft(h, c, team)
      PROVE  TypeInv'
  <2> DEFINE r == [cards[c] EXCEPT !.assignees = team, !.legacy = "empty"]
  <2>1. r \in Card
    BY <1>1, RequestCards
  <2>2. Write(c, TRUE, r)
    BY <1>3 DEF UpdateDraft
  <2> HIDE DEF r
  <2>3. cards' \in [Cards -> Card]
    BY <1>1, <2>1, <2>2, WriteTyped
  <2> QED BY <1>1, <1>3, <2>3, TypeInvFrame DEF UpdateDraft
<1>4. ASSUME NEW c \in Cards, DeleteCard(h, c)
      PROVE  TypeInv'
  <2> DEFINE r == [NoCard EXCEPT !.status = "gone"]
  <2>1. r \in Card
    BY <1>1, RequestCards
  <2>2. Write(c, TRUE, r)
    BY <1>4 DEF DeleteCard
  <2> HIDE DEF r
  <2>3. cards' \in [Cards -> Card]
    BY <1>1, <2>1, <2>2, WriteTyped
  <2> QED BY <1>1, <1>4, <2>3, TypeInvFrame DEF DeleteCard
<1>5. ASSUME NEW c \in Cards, UnqueueCard(h, c)
      PROVE  TypeInv'
  <2> DEFINE r == [cards[c] EXCEPT !.status = "draft", !.awaiting = {}]
  <2>1. r \in Card
    BY <1>1, RequestCards
  <2>2. Write(c, TRUE, r)
    BY <1>5 DEF UnqueueCard
  <2> HIDE DEF r
  <2>3. cards' \in [Cards -> Card]
    BY <1>1, <2>1, <2>2, WriteTyped
  <2> QED BY <1>1, <1>5, <2>3, TypeInvFrame DEF UnqueueCard
<1>6. ASSUME NEW m \in Pausable, NEW status \in {"active", "paused"},
             SetMemberStatus(h, m, status)
      PROVE  TypeInv'
  BY <1>6 DEF SetMemberStatus, TypeInv, TypeOK, PassHasMember
<1>7. ASSUME NEW c \in Cards, PromoteRead(h, c)
      PROVE  TypeInv'
  <2>1. Read(h, "promote", c, cards[c].assignees \cap Active, TRUE)
    BY <1>7 DEF PromoteRead
  <2>2. handler' \in [Actors -> Request] /\ cards' \in [Cards -> Card]
    BY <1>1, <2>1, RequestsTyped
  <2> QED BY <2>1, <2>2, TypeInvFrame DEF Read
<1>8. ASSUME NEW c \in Cards, ApproveRead(h, c)
      PROVE  TypeInv'
  <2>1. Read(h, "approve", c, {}, FALSE)
    BY <1>8 DEF ApproveRead
  <2>2. handler' \in [Actors -> Request] /\ cards' \in [Cards -> Card]
    BY <1>1, <2>1, RequestsTyped
  <2> QED BY <2>1, <2>2, TypeInvFrame DEF Read
<1>9. ASSUME NEW c \in Cards, ChangesRead(h, c)
      PROVE  TypeInv'
  <2>1. Read(h, "changes", c, cards[c].assignees \cap Active, TRUE)
    BY <1>9 DEF ChangesRead
  <2>2. handler' \in [Actors -> Request] /\ cards' \in [Cards -> Card]
    BY <1>1, <2>1, RequestsTyped
  <2> QED BY <2>1, <2>2, TypeInvFrame DEF Read
<1>10. ASSUME NEW m \in Members, FireMember(h, m)
       PROVE  TypeInv'
  <2>1. \A c \in Cards : [cards[c] EXCEPT !.assignees = @ \ {m}, !.awaiting = @ \ {m},
                                          !.running = @ \ {m}] \in Card
    BY <1>1, RequestCards
  <2>2. cards' \in [Cards -> Card]
    BY <1>1, <1>10, <2>1 DEF FireMember
  <2>3. [handler[h] EXCEPT !.pc = "fallback", !.who = {m}] \in Request
    <3>1. handler[h] \in Request
      BY <1>1
    <3> QED BY <3>1 DEF Request
  <2>4. handler' = [handler EXCEPT ![h] = [handler[h] EXCEPT !.pc = "fallback", !.who = {m}]]
    BY <1>1, <1>10 DEF FireMember
  <2>5. handler' \in [Actors -> Request]
    BY <1>1, <2>3, <2>4
  <2> QED BY <1>10, <2>2, <2>5, TypeInvFrame DEF FireMember
<1> QED
  BY <1>2, <1>3, <1>4, <1>5, <1>6, <1>7, <1>8, <1>9, <1>10 DEF UserRequest

\* The second step of a request keeps the types.
LEMMA RequestStepTypeInv ==
  ASSUME TypeInv, NEW h \in Handlers, RequestStep(h)
  PROVE  TypeInv'
<1> DEFINE c == handler[h].card
<1>1. /\ cards \in [Cards -> Card] /\ handler \in [Actors -> Request]
      /\ h \in Actors /\ handler[h] \in Request /\ TypeOK
  BY DEF TypeInv, TypeOK, Actors
<1>2. /\ handler[h].who \in SUBSET Members /\ handler[h].ids \in SUBSET Members
      /\ handler[h].last \in Nat
  BY <1>1 DEF Request
<1>3. [handler EXCEPT ![h] = NoRequest] \in [Actors -> Request]
  BY <1>1, RequestsTyped
<1> HIDE DEF c
<1>4. CASE PromoteWrite(h)
  <2> DEFINE r == [cards[c] EXCEPT !.status = "queued", !.awaiting = handler[h].who,
                                   !.running = {}, !.assignees = handler[h].ids]
  <2>1. c \in Cards => r \in Card
    BY <1>1, <1>2, RequestCards
  <2>2. Write(c, TRUE, r)
    BY <1>4 DEF PromoteWrite, c
  <2> HIDE DEF r
  <2>3. cards' \in [Cards -> Card]
    BY <1>1, <2>1, <2>2, WriteTyped
  <2> QED BY <1>3, <1>4, <2>3, TypeInvFrame DEF PromoteWrite, Finish
<1>5. CASE ApproveWrite(h)
  <2> DEFINE r == [cards[c] EXCEPT !.status = "done", !.approved = handler[h].last,
                                   !.due = @ \/ cards[c].repeat, !.combineLock = "free"]
  <2>1. c \in Cards => r \in Card
    BY <1>1, <1>2, RequestCards
  <2>2. Write(c, TRUE, r)
    BY <1>5 DEF ApproveWrite, c
  <2> HIDE DEF r
  <2>3. cards' \in [Cards -> Card]
    BY <1>1, <2>1, <2>2, WriteTyped
  <2> QED BY <1>3, <1>5, <2>3, TypeInvFrame DEF ApproveWrite, Finish
<1>6. CASE ChangesWrite(h)
  <2> DEFINE r == [cards[c] EXCEPT !.status = "queued", !.awaiting = handler[h].who,
                                   !.running = {},
                                   !.approved = IF @ = handler[h].last THEN 0 ELSE @,
                                   !.combineLock = "free"]
  <2>1. c \in Cards => r \in Card
    BY <1>1, <1>2, RequestCards
  <2>2. Write(c, TRUE, r)
    BY <1>6 DEF ChangesWrite, c
  <2> HIDE DEF r
  <2>3. cards' \in [Cards -> Card]
    BY <1>1, <2>1, <2>2, WriteTyped
  <2> QED BY <1>3, <1>6, <2>3, TypeInvFrame DEF ChangesWrite, Finish
<1>7. CASE FireFallback(h)
  <2>1. \A x \in Cards : BackToDraft(x) \in Card
    BY <1>1, RequestCards
  <2>2. cards' \in [Cards -> Card]
    BY <1>1, <1>7, <2>1 DEF FireFallback
  <2>3. handler' \in [Actors -> Request]
    BY <1>1, <1>7 DEF FireFallback, Request
  <2> QED BY <1>7, <2>2, <2>3, TypeInvFrame DEF FireFallback
<1>8. CASE FireDelete(h)
  BY <1>3, <1>8 DEF FireDelete, Finish, TypeInv, TypeOK, PassHasMember
<1> QED BY <1>4, <1>5, <1>6, <1>7, <1>8 DEF RequestStep

\* The sweep of recurring cards keeps the types.
LEMMA SweepTypeInv ==
  ASSUME TypeInv, Sweep
  PROVE  TypeInv'
<1> DEFINE c == handler[Tick].card
<1>1. /\ cards \in [Cards -> Card] /\ handler \in [Actors -> Request]
      /\ Tick \in Actors /\ handler[Tick] \in Request /\ TypeOK
      /\ \A x \in Cards : cards[x].assignees \cap Active \in SUBSET Members
  BY DEF TypeInv, TypeOK, Actors, Active
<1>2. handler[Tick].who \in SUBSET Members
  BY <1>1 DEF Request
<1>3. [handler EXCEPT ![Tick] = NoRequest] \in [Actors -> Request]
  BY <1>1, RequestsTyped
<1> HIDE DEF c
<1>4. CASE RequeueWrite
  <2> DEFINE r == [cards[c] EXCEPT !.status = "queued", !.awaiting = handler[Tick].who,
                                   !.running = {}, !.due = FALSE, !.combineLock = "free"]
  <2>1. c \in Cards => r \in Card
    BY <1>1, <1>2, RequestCards
  <2>2. Write(c, cards[c].status = "done", r)
    BY <1>4 DEF RequeueWrite, c
  <2> HIDE DEF r
  <2>3. cards' \in [Cards -> Card]
    BY <1>1, <2>1, <2>2, WriteTyped
  <2> QED BY <1>3, <1>4, <2>3, TypeInvFrame DEF RequeueWrite, Finish
<1>5. CASE RetireWrite
  <2> DEFINE r == [cards[c] EXCEPT !.repeat = FALSE, !.due = FALSE]
  <2>1. c \in Cards => r \in Card
    BY <1>1, RequestCards
  <2>2. Write(c, TRUE, r)
    BY <1>5 DEF RetireWrite, c
  <2> HIDE DEF r
  <2>3. cards' \in [Cards -> Card]
    BY <1>1, <2>1, <2>2, WriteTyped
  <2> QED BY <1>3, <1>5, <2>3, TypeInvFrame DEF RetireWrite, Finish
<1>6. ASSUME NEW x \in Cards, RequeueRead(x)
      PROVE  TypeInv'
  <2>1. Read(Tick, "requeue", x, cards[x].assignees \cap Active, TRUE)
    BY <1>6 DEF RequeueRead
  <2>2. handler' \in [Actors -> Request] /\ cards' \in [Cards -> Card]
    BY <1>1, <2>1, RequestsTyped
  <2> QED BY <2>1, <2>2, TypeInvFrame DEF Read
<1>7. ASSUME NEW x \in Cards, RetireRead(x)
      PROVE  TypeInv'
  <2>1. Read(Tick, "retire", x, {}, FALSE)
    BY <1>7 DEF RetireRead
  <2>2. handler' \in [Actors -> Request] /\ cards' \in [Cards -> Card]
    BY <1>1, <2>1, RequestsTyped
  <2> QED BY <2>1, <2>2, TypeInvFrame DEF Read
<1> QED BY <1>4, <1>5, <1>6, <1>7 DEF Sweep, SweepWrite

\* A step of a member pass keeps the types.
LEMMA PassTypeInv ==
  ASSUME TypeInv, NEW p \in Passes,
         PassStep(p) \/ Claim(p) \/ \E m \in Members : StartPass(p, m)
  PROVE  TypeInv'
<1> DEFINE c == pass[p].card
           m == pass[p].member
<1>1. /\ cards \in [Cards -> Card] /\ pass \in [Passes -> Pass] /\ pass[p] \in Pass
      /\ handler \in [Actors -> Request] /\ coord \in [Coords -> Coord]
      /\ member \in [Members -> {"active", "paused", "fired"}]
      /\ busy \subseteq Members /\ crashes \in 0..MaxCrashes /\ PassHasMember
      /\ pass[p].pc # "idle" => m \in Members
  BY DEF TypeInv, TypeOK, PassHasMember
<1>2. ASSUME cards' \in [Cards -> Card], UNCHANGED <<member, handler, coord, crashes>>,
             pass' \in [Passes -> Pass], PassHasMember', busy' \subseteq Members
      PROVE  TypeInv'
  BY <1>1, <1>2 DEF TypeInv, TypeOK
<1>3. ASSUME EndPass(p)
      PROVE  pass' \in [Passes -> Pass] /\ PassHasMember' /\ busy' \subseteq Members
  BY <1>1, <1>3 DEF EndPass, Pass, NoPass, PassHasMember
<1>4. ASSUME NEW to \in {"pick", "run", "finish"}, Step(p, to), pass[p].pc # "idle"
      PROVE  pass' \in [Passes -> Pass] /\ PassHasMember'
  BY <1>1, <1>4 DEF Step, Pass, PassHasMember
<1>5. ASSUME NEW x \in Members, StartPass(p, x)
      PROVE  TypeInv'
  <2>1. pass' \in [Passes -> Pass] /\ PassHasMember' /\ busy' \subseteq Members
    BY <1>1, <1>5 DEF StartPass, Pass, PassHasMember
  <2> QED BY <1>1, <1>2, <1>5, <2>1 DEF StartPass
<1>6. CASE PassSlot(p)
  <2>1. pass' \in [Passes -> Pass] /\ PassHasMember'
    BY <1>4, <1>6 DEF PassSlot
  <2> QED BY <1>1, <1>2, <1>6, <2>1 DEF PassSlot
<1>7. CASE PassSaturated(p)
  BY <1>1, <1>2, <1>3, <1>7 DEF PassSaturated
<1>8. ASSUME NEW x \in Cards, PickCandidate(p, x)
      PROVE  TypeInv'
  <2>1. pass' \in [Passes -> Pass] /\ PassHasMember'
    BY <1>1, <1>8 DEF PickCandidate, Pass, PassHasMember
  <2> QED BY <1>1, <1>2, <1>8, <2>1 DEF PickCandidate
<1>9. CASE NoCandidate(p)
  BY <1>1, <1>2, <1>3, <1>9 DEF NoCandidate
<1>10. CASE ClaimRaced(p)
  <2>1. pass' \in [Passes -> Pass] /\ PassHasMember'
    BY <1>1, <1>10 DEF ClaimRaced, Pass, PassHasMember
  <2> QED BY <1>1, <1>2, <1>10, <2>1 DEF ClaimRaced
<1> HIDE DEF c, m
<1>11. CASE ClaimCard(p)
  <2> DEFINE r == [cards[c] EXCEPT !.awaiting = @ \ {m}, !.running = @ \cup {m},
                                   !.status = "working"]
  <2>1. m \in Members
    BY <1>1, <1>11 DEF ClaimCard, m
  <2>2. c \in Cards => r \in Card
    BY <1>1, <2>1, WorkerCards
  <2>3. Write(c, TRUE, r)
    BY <1>11 DEF ClaimCard, c, m
  <2> HIDE DEF r
  <2>4. cards' \in [Cards -> Card]
    BY <1>1, <2>2, <2>3, WriteTyped
  <2>5. pass' \in [Passes -> Pass] /\ PassHasMember'
    BY <1>4, <1>11 DEF ClaimCard
  <2> QED BY <1>1, <1>2, <1>11, <2>4, <2>5 DEF ClaimCard
<1>12. CASE PassFail(p)
  <2>1. c \in Cards => BackToDraft(c) \in Card
    BY <1>1, RequestCards
  <2>2. Write(c, InWork(c), BackToDraft(c))
    BY <1>12 DEF PassFail, c
  <2>3. cards' \in [Cards -> Card]
    BY <1>1, <2>1, <2>2, WriteTyped
  <2> QED BY <1>2, <1>3, <1>12, <2>3 DEF PassFail
<1>13. CASE PassLand(p)
  <2>1. m \in Members
    BY <1>1, <1>13 DEF PassLand, m
  <2>2. c \in Cards => Landed(c, m) \in Card
    BY <1>1, <2>1, WorkerCards
  <2>3. Write(c, InWork(c), Landed(c, m))
    BY <1>13 DEF PassLand, c, m
  <2>4. cards' \in [Cards -> Card]
    BY <1>1, <2>2, <2>3, WriteTyped
  <2>5. pass' \in [Passes -> Pass] /\ PassHasMember'
    BY <1>4, <1>13 DEF PassLand
  <2> QED BY <1>1, <1>2, <1>13, <2>4, <2>5 DEF PassLand
<1>14. CASE PassFinish(p)
  <2> DEFINE r == [cards[c] EXCEPT !.status = "review"]
  <2>1. c \in Cards => r \in Card
    BY <1>1, WorkerCards
  <2>2. Write(c, ReadyForReview(c), r)
    BY <1>14 DEF PassFinish, c
  <2> HIDE DEF r
  <2>3. cards' \in [Cards -> Card]
    BY <1>1, <2>1, <2>2, WriteTyped
  <2> QED BY <1>2, <1>3, <1>14, <2>3 DEF PassFinish
<1> QED
  BY <1>5, <1>6, <1>7, <1>8, <1>9, <1>10, <1>11, <1>12, <1>13, <1>14 DEF PassStep, Claim

\* A step of a coordinator keeps the types.
LEMMA CoordTypeInv ==
  ASSUME TypeInv, NEW g \in Coords,
         \/ CoordStep(g) \/ TakeLock(g)
         \/ \E k \in Kinds, c \in Cards : FindDue(g, k, c)
  PROVE  TypeInv'
<1> DEFINE c == coord[g].card
           kind == coord[g].kind
<1>1. /\ cards \in [Cards -> Card] /\ coord \in [Coords -> Coord] /\ coord[g] \in Coord
      /\ coord[g].snap \in SUBSET Members
  BY DEF TypeInv, TypeOK, Coord
<1>2. ASSUME cards' \in [Cards -> Card], coord' \in [Coords -> Coord],
             UNCHANGED <<member, handler, pass, busy, crashes>>
      PROVE  TypeInv'
  BY <1>2 DEF TypeInv, TypeOK, PassHasMember
<1>3. NoCoord \in Coord
  BY DEF NoCoord, Coord
<1>4. EndCoord(g) => coord' \in [Coords -> Coord]
  BY <1>1, <1>3 DEF EndCoord
<1>5. ASSUME NEW f, NEW l \in Lock, Write(c, f, SetLock(c, kind, l))
      PROVE  cards' \in [Cards -> Card]
  BY <1>1, <1>5, WorkerCards, WriteTyped
<1>6. ASSUME NEW k \in Kinds, NEW x \in Cards, FindDue(g, k, x)
      PROVE  TypeInv'
  <2>1. cards[x].assignees \in SUBSET Members /\ cards[x].cycle \in SUBSET Members
    BY <1>1 DEF Card
  <2>2. coord' \in [Coords -> Coord]
    BY <1>1, <1>6, <2>1 DEF FindDue, Coord, Kinds
  <2> QED BY <1>1, <1>2, <1>6, <2>2 DEF FindDue
<1> HIDE DEF c, kind
<1>7. CASE TakeLock(g)
  <2>1. Write(c, LockFree(c, kind), SetLock(c, kind, "held"))
    BY <1>7 DEF TakeLock, c, kind
  <2>2. cards' \in [Cards -> Card]
    BY <1>5, <2>1 DEF Lock
  <2>3. [coord[g] EXCEPT !.pc = "slot"] \in Coord
    BY <1>1 DEF Coord
  <2>4. coord' \in [Coords -> Coord]
    BY <1>1, <1>3, <1>7, <2>3 DEF TakeLock
  <2> QED BY <1>2, <1>7, <2>2, <2>4 DEF TakeLock
<1>8. CASE CoordSlot(g)
  <2>1. coord' \in [Coords -> Coord]
    BY <1>1, <1>8 DEF CoordSlot, Coord
  <2> QED BY <1>1, <1>2, <1>8, <2>1 DEF CoordSlot
<1>9. CASE CoordSaturated(g)
  <2>1. Write(c, TRUE, SetLock(c, kind, "free"))
    BY <1>9 DEF CoordSaturated, c, kind
  <2>2. cards' \in [Cards -> Card]
    BY <1>5, <2>1 DEF Lock
  <2> QED BY <1>2, <1>4, <1>9, <2>2 DEF CoordSaturated
<1>10. CASE CoordStart(g)
  <2>1. \E f : Write(c, f, SetLock(c, kind, "free"))
    BY <1>10 DEF CoordStart, c, kind
  <2>2. cards' \in [Cards -> Card]
    BY <1>5, <2>1 DEF Lock
  <2>3. \A t \in SUBSET Members : [coord[g] EXCEPT !.pc = "run", !.snap = t] \in Coord
    BY <1>1 DEF Coord
  <2>4. coord' \in [Coords -> Coord]
    BY <1>1, <1>3, <1>10, <2>3 DEF CoordStart
  <2> QED BY <1>2, <1>10, <2>2, <2>4 DEF CoordStart
<1>11. CASE SplitDone(g)
  <2> DEFINE r == [cards[c] EXCEPT !.parts = Briefed(g), !.splitLock = "free"]
  <2>1. c \in Cards => r \in Card
    BY <1>1, WorkerCards DEF Briefed
  <2>2. Write(c, TRUE, r)
    BY <1>11 DEF SplitDone, c
  <2> HIDE DEF r
  <2>3. cards' \in [Cards -> Card]
    BY <1>1, <2>1, <2>2, WriteTyped
  <2> QED BY <1>2, <1>4, <1>11, <2>3 DEF SplitDone
<1>12. CASE SplitFail(g)
  <2> DEFINE r == [BackToDraft(c) EXCEPT !.splitLock = "free"]
  <2>1. c \in Cards => r \in Card
    BY <1>1, WorkerCards
  <2>2. Write(c, TRUE, r)
    BY <1>12 DEF SplitFail, c
  <2> HIDE DEF r
  <2>3. cards' \in [Cards -> Card]
    BY <1>1, <2>1, <2>2, WriteTyped
  <2> QED BY <1>2, <1>4, <1>12, <2>3 DEF SplitFail
<1>13. CASE CombineDone(g)
  <2> DEFINE r == [cards[c] EXCEPT !.status = "review", !.revs = @ + 1, !.cycle = {}]
  <2>1. c \in Cards => r \in Card
    BY <1>1, WorkerCards
  <2>2. Write(c, InWork(c), r)
    BY <1>13 DEF CombineDone, c
  <2> HIDE DEF r
  <2>3. cards' \in [Cards -> Card]
    BY <1>1, <2>1, <2>2, WriteTyped
  <2> QED BY <1>2, <1>4, <1>13, <2>3 DEF CombineDone
<1>14. CASE CombineFail(g)
  <2> DEFINE r == [cards[c] EXCEPT !.status = "review"]
  <2>1. c \in Cards => r \in Card
    BY <1>1, WorkerCards
  <2>2. Write(c, TRUE, r)
    BY <1>14 DEF CombineFail, c
  <2> HIDE DEF r
  <2>3. cards' \in [Cards -> Card]
    BY <1>1, <2>1, <2>2, WriteTyped
  <2> QED BY <1>2, <1>4, <1>14, <2>3 DEF CombineFail
<1> QED
  BY <1>6, <1>7, <1>8, <1>9, <1>10, <1>11, <1>12, <1>13, <1>14 DEF CoordStep

\* Every step keeps the types.
LEMMA NextTypeInv == TypeInv /\ [Next]_vars => TypeInv'
<1> SUFFICES ASSUME TypeInv, [Next]_vars PROVE TypeInv'
  OBVIOUS
<1>1. ASSUME NEW k \in Kinds, NEW c \in Cards, LockExpires(c, k)
      PROVE  TypeInv'
  <2>1. cards \in [Cards -> Card] /\ handler \in [Actors -> Request]
    BY DEF TypeInv, TypeOK
  <2>2. SetLock(c, k, "stale") \in Card
    BY <2>1, WorkerCards DEF Lock
  <2>3. cards' \in [Cards -> Card]
    BY <1>1, <2>1, <2>2, WriteTyped DEF LockExpires
  <2> QED BY <1>1, <2>1, <2>3, TypeInvFrame DEF LockExpires
<1>2. CASE Crash
  BY <1>2, ConstantsAssumption
  DEF Crash, TypeInv, TypeOK, PassHasMember, NoRequest, Request, NoPass, Pass,
      NoCoord, Coord
<1>3. CASE UNCHANGED vars
  BY <1>3 DEF vars, TypeInv, TypeOK, PassHasMember
<1> QED
  BY <1>1, <1>2, <1>3, UserTypeInv, RequestStepTypeInv, SweepTypeInv, PassTypeInv,
     CoordTypeInv DEF Next

\* Requests, passes, coordinators and cards keep their types in every state.
THEOREM TypeCorrect == Spec => []TypeOK
<1>1. Spec => []TypeInv
  BY InitTypeInv, NextTypeInv, PTL DEF Spec
<1>2. TypeInv => TypeOK
  BY DEF TypeInv
<1> QED BY <1>1, <1>2, PTL

-----------------------------------------------------------------------------
(* One card per member.  The busy map is what makes it inductive: the      *)
(* member of every live goroutine is in it.                                *)

LiveAreBusy == \A p \in Passes : pass[p].pc # "idle" => pass[p].member \in busy
BusyInv == LiveAreBusy /\ OneCardPerMember

\* The busy map and the passes are touched by passes and crashes only.
LEMMA OthersLeavePasses ==
  ASSUME \/ \E h \in Handlers : UserRequest(h) \/ RequestStep(h)
         \/ Sweep
         \/ \E g \in Coords : \/ CoordStep(g) \/ TakeLock(g)
                             \/ \E k \in Kinds, c \in Cards : FindDue(g, k, c)
         \/ \E k \in Kinds, c \in Cards : LockExpires(c, k)
  PROVE  UNCHANGED <<pass, busy>>
<1>1. ASSUME NEW h \in Handlers, UserRequest(h) PROVE UNCHANGED <<pass, busy>>
  BY <1>1 DEF UserRequest, CreateCard, UpdateDraft, DeleteCard, UnqueueCard, SetMemberStatus,
     PromoteRead, ApproveRead, ChangesRead, FireMember, Read
<1>2. ASSUME NEW h \in Handlers, RequestStep(h) PROVE UNCHANGED <<pass, busy>>
  BY <1>2 DEF RequestStep, PromoteWrite, ApproveWrite, ChangesWrite, FireFallback, FireDelete
<1>3. Sweep => UNCHANGED <<pass, busy>>
  BY DEF Sweep, SweepWrite, RequeueWrite, RetireWrite, RequeueRead, RetireRead, Read
<1>4. ASSUME NEW g \in Coords, CoordStep(g) \/ TakeLock(g) PROVE UNCHANGED <<pass, busy>>
  BY <1>4 DEF CoordStep, TakeLock, CoordSlot, CoordSaturated, CoordStart, SplitDone,
     SplitFail, CombineDone, CombineFail
<1>5. ASSUME NEW g \in Coords, NEW k \in Kinds, NEW c \in Cards, FindDue(g, k, c)
      PROVE  UNCHANGED <<pass, busy>>
  BY <1>5 DEF FindDue
<1>6. ASSUME NEW k \in Kinds, NEW c \in Cards, LockExpires(c, k) PROVE UNCHANGED <<pass, busy>>
  BY <1>6 DEF LockExpires
<1> QED BY <1>1, <1>2, <1>3, <1>4, <1>5, <1>6

\* A step of one pass neither lends its member to another nor frees another's.
LEMMA PassBusyInv ==
  ASSUME TypeInv, BusyInv, NEW p \in Passes,
         PassStep(p) \/ Claim(p) \/ \E m \in Members : StartPass(p, m)
  PROVE  BusyInv'
<1> USE DEF BusyInv, LiveAreBusy, OneCardPerMember
<1>1. pass \in [Passes -> Pass] /\ DOMAIN pass[p] = {"pc", "member", "card"}
  BY DEF TypeInv, TypeOK, Pass
<1>3. ASSUME EndPass(p), pass[p].pc # "idle"
      PROVE  BusyInv'
  BY <1>1, <1>3 DEF EndPass, NoPass
<1>4. ASSUME NEW to \in {"pick", "run", "finish"}, Step(p, to), pass[p].pc # "idle",
             UNCHANGED busy
      PROVE  BusyInv'
  BY <1>1, <1>4 DEF Step
<1>5. ASSUME NEW m \in Members, StartPass(p, m)
      PROVE  BusyInv'
  BY <1>1, <1>5 DEF StartPass, NotBusy
<1>6. CASE PassSlot(p)
  BY <1>4, <1>6 DEF PassSlot
<1>7. CASE PassSaturated(p) \/ NoCandidate(p) \/ PassFail(p) \/ PassFinish(p)
  BY <1>3, <1>7 DEF PassSaturated, NoCandidate, PassFail, PassFinish
<1>8. ASSUME NEW c \in Cards, PickCandidate(p, c)
      PROVE  BusyInv'
  BY <1>1, <1>8 DEF PickCandidate
<1>9. CASE ClaimRaced(p)
  BY <1>1, <1>9 DEF ClaimRaced
<1>10. CASE ClaimCard(p) \/ PassLand(p)
  BY <1>4, <1>10 DEF ClaimCard, PassLand
<1> QED BY <1>5, <1>6, <1>7, <1>8, <1>9, <1>10 DEF PassStep, Claim

\* One member never runs two cards at once, nor one card twice, however many
\* ticks, crashes and goroutines there are.
THEOREM OneCardPerMemberHolds == Spec => []OneCardPerMember
<1>1. Init => TypeInv /\ BusyInv
  BY InitTypeInv DEF Init, BusyInv, LiveAreBusy, OneCardPerMember, NoPass
<1>2. TypeInv /\ BusyInv /\ [Next]_vars => TypeInv' /\ BusyInv'
  <2> SUFFICES ASSUME TypeInv, BusyInv, [Next]_vars PROVE BusyInv'
    BY NextTypeInv
  <2>1. CASE UNCHANGED <<pass, busy>>
    BY <2>1 DEF BusyInv, LiveAreBusy, OneCardPerMember
  <2>2. CASE Crash
    BY <2>2 DEF Crash, BusyInv, LiveAreBusy, OneCardPerMember, NoPass
  <2> QED BY <2>1, <2>2, OthersLeavePasses, PassBusyInv DEF Next, vars
<1>3. BusyInv => OneCardPerMember
  BY DEF BusyInv
<1> QED BY <1>1, <1>2, <1>3, PTL DEF Spec

-----------------------------------------------------------------------------
(* Cards at rest.  The invariant is inductive card by card: Rest says it   *)
(* of one document, and every update writes a document it holds for.       *)

Rest(r) ==
  /\ r.status = "draft" => r.awaiting = {} /\ r.running = {}
  /\ r.status = "queued" => r.running = {}
  /\ r.awaiting \cap r.running = {}

\* One document rewritten: the cards stay at rest if the new document is at rest.
LEMMA WriteAtRest ==
  ASSUME cards \in [Cards -> Card], CardsAtRest, NEW c, NEW f, NEW r, Write(c, f, r),
         c \in Cards /\ f => Rest(r)
  PROVE  CardsAtRest'
  BY DEF CardsAtRest, Write, Rest

\* A step that touches neither the status nor the passes of any card.
LEMMA SameAtRest ==
  ASSUME CardsAtRest,
         \A c \in Cards : /\ cards'[c].status = cards[c].status
                          /\ cards'[c].awaiting \subseteq cards[c].awaiting
                          /\ cards'[c].running \subseteq cards[c].running
  PROVE  CardsAtRest'
  BY DEF CardsAtRest

\* Taking a split or combine lock (handleSplits, handleCombines) moves no status.
LEMMA LockAtRest ==
  ASSUME cards \in [Cards -> Card], CardsAtRest, NEW c, NEW f, NEW k, NEW l,
         Write(c, f, SetLock(c, k, l))
  PROVE  CardsAtRest'
<1>1. c \in Cards => Rest(SetLock(c, k, l))
  BY DEF CardsAtRest, Rest, SetLock, Card
<1> QED BY <1>1, WriteAtRest

\* The read that opens a request writes no card.
LEMMA ReadAtRest ==
  ASSUME cards \in [Cards -> Card], CardsAtRest, NEW x, NEW pc, NEW c \in Cards, NEW who,
         NEW round, Read(x, pc, c, who, round)
  PROVE  CardsAtRest'
  BY DEF CardsAtRest, Read, Card

\* A request, its read and its write, leaves every card at rest: whatever moves
\* the status sets the passes still awaited with it.
LEMMA RequestAtRest ==
  ASSUME TypeInv, CardsAtRest, NEW h \in Handlers, UserRequest(h) \/ RequestStep(h)
  PROVE  CardsAtRest'
<1>1. cards \in [Cards -> Card]
  BY DEF TypeInv, TypeOK
<1>2. ASSUME NEW c \in Cards, NEW team \in Teams, CreateCard(h, c, team)
      PROVE  CardsAtRest'
  BY <1>1, <1>2 DEF CreateCard, CardsAtRest, NoCard
<1>3. ASSUME NEW c \in Cards, NEW team \in Teams, UpdateDraft(h, c, team)
      PROVE  CardsAtRest'
  BY <1>1, <1>3 DEF UpdateDraft, CardsAtRest, Card, Write
<1>4. ASSUME NEW c \in Cards, DeleteCard(h, c)
      PROVE  CardsAtRest'
  BY <1>1, <1>4 DEF DeleteCard, CardsAtRest, NoCard, Write
<1>5. ASSUME NEW c \in Cards, UnqueueCard(h, c)
      PROVE  CardsAtRest'
  BY <1>1, <1>5 DEF UnqueueCard, Unclaimed, CardsAtRest, Card, Write
<1>6. ASSUME NEW m, NEW status, SetMemberStatus(h, m, status)
      PROVE  CardsAtRest'
  BY <1>6 DEF SetMemberStatus, CardsAtRest
<1>7. ASSUME NEW c \in Cards, PromoteRead(h, c) \/ ApproveRead(h, c) \/ ChangesRead(h, c)
      PROVE  CardsAtRest'
  BY <1>1, <1>7, ReadAtRest DEF PromoteRead, ApproveRead, ChangesRead
<1>8. ASSUME NEW m \in Members, FireMember(h, m)
      PROVE  CardsAtRest'
  <2>1. \A c \in Cards : /\ cards'[c].status = cards[c].status
                         /\ cards'[c].awaiting \subseteq cards[c].awaiting
                         /\ cards'[c].running \subseteq cards[c].running
    <3> TAKE c \in Cards
    <3>1. cards[c] \in Card
      BY <1>1
    <3>2. cards'[c] = IF m \in cards[c].assignees
                        THEN [cards[c] EXCEPT !.assignees = @ \ {m}, !.awaiting = @ \ {m},
                                              !.running = @ \ {m}]
                        ELSE cards[c]
      BY <1>8 DEF FireMember
    <3> QED BY <3>1, <3>2 DEF Card
  <2> QED BY <2>1, SameAtRest
<1>9. CASE PromoteWrite(h)
  BY <1>1, <1>9 DEF PromoteWrite, CardsAtRest, Card, Write
<1>10. CASE ApproveWrite(h)
  BY <1>1, <1>10 DEF ApproveWrite, CardsAtRest, Card, Write
<1>11. CASE ChangesWrite(h)
  BY <1>1, <1>11 DEF ChangesWrite, CardsAtRest, Card, Write
<1>12. CASE FireFallback(h)
  <2>1. ASSUME NEW c \in Cards PROVE Rest(cards'[c])
    <3>1. cards[c] \in Card /\ Rest(cards[c])
      BY <1>1 DEF CardsAtRest, Rest
    <3>2. cards'[c] = BackToDraft(c) \/ cards'[c] = cards[c]
      BY <1>12 DEF FireFallback
    <3>3. Rest(BackToDraft(c))
      BY <3>1 DEF BackToDraft, Rest, Card
    <3> QED BY <3>1, <3>2, <3>3
  <2> QED BY <2>1 DEF CardsAtRest, Rest
<1>13. CASE FireDelete(h)
  BY <1>13 DEF FireDelete, CardsAtRest
<1> QED
  BY <1>2, <1>3, <1>4, <1>5, <1>6, <1>7, <1>8, <1>9, <1>10, <1>11, <1>12, <1>13
  DEF UserRequest, RequestStep

\* The sweep of recurring cards queues or retires a done card; both are at rest.
LEMMA SweepAtRest ==
  ASSUME TypeInv, CardsAtRest, Sweep
  PROVE  CardsAtRest'
<1>1. cards \in [Cards -> Card]
  BY DEF TypeInv, TypeOK
<1>2. CASE RequeueWrite
  BY <1>1, <1>2 DEF RequeueWrite, CardsAtRest, Card, Write
<1>3. CASE RetireWrite
  BY <1>1, <1>3 DEF RetireWrite, CardsAtRest, Card, Write
<1>4. ASSUME NEW c \in Cards, RequeueRead(c) \/ RetireRead(c)
      PROVE  CardsAtRest'
  BY <1>1, <1>4, ReadAtRest DEF RequeueRead, RetireRead
<1> QED BY <1>2, <1>3, <1>4 DEF Sweep, SweepWrite

\* A member's pass: a claim, a result and a failure leave the card at rest.
LEMMA PassAtRest ==
  ASSUME TypeInv, CardsAtRest, NEW p \in Passes,
         PassStep(p) \/ Claim(p) \/ \E m \in Members : StartPass(p, m)
  PROVE  CardsAtRest'
<1> DEFINE c == pass[p].card
           m == pass[p].member
<1>1. cards \in [Cards -> Card]
  BY DEF TypeInv, TypeOK
<1>2. CASE UNCHANGED cards
  BY <1>2 DEF CardsAtRest
<1>3. CASE ClaimCard(p)
  <2> DEFINE r == [cards[c] EXCEPT !.awaiting = @ \ {m}, !.running = @ \cup {m},
                                   !.status = "working"]
  <2>1. c \in Cards => Rest(r)
    BY <1>1 DEF CardsAtRest, Rest, Card
  <2>2. Write(c, TRUE, r)
    BY <1>3 DEF ClaimCard
  <2> HIDE DEF r, c
  <2> QED BY <1>1, <2>1, <2>2, WriteAtRest
<1>4. CASE PassFail(p)
  BY <1>1, <1>4 DEF PassFail, BackToDraft, CardsAtRest, Card, Write
<1>5. CASE PassLand(p)
  BY <1>1, <1>5 DEF PassLand, Landed, InWork, CardsAtRest, Card, Write
<1>6. CASE PassFinish(p)
  BY <1>1, <1>6 DEF PassFinish, CardsAtRest, Card, Write
<1>7. PassSlot(p) \/ PassSaturated(p) \/ NoCandidate(p) \/ ClaimRaced(p) => UNCHANGED cards
  BY DEF PassSlot, PassSaturated, NoCandidate, ClaimRaced
<1>8. (\E x \in Cards : PickCandidate(p, x)) \/ (\E x \in Members : StartPass(p, x))
        => UNCHANGED cards
  BY DEF PickCandidate, StartPass
<1> QED BY <1>2, <1>3, <1>4, <1>5, <1>6, <1>7, <1>8 DEF PassStep, Claim

\* A coordinator that finishes or fails leaves the card it holds at rest.
LEMMA CoordAtRest ==
  ASSUME TypeInv, CardsAtRest, NEW g \in Coords,
         \/ CoordStep(g) \/ TakeLock(g)
         \/ \E k \in Kinds, c \in Cards : FindDue(g, k, c)
  PROVE  CardsAtRest'
<1> DEFINE c == coord[g].card
<1>1. cards \in [Cards -> Card]
  BY DEF TypeInv, TypeOK
<1>2. CASE UNCHANGED cards
  BY <1>2 DEF CardsAtRest
<1>3. TakeLock(g) \/ CoordSaturated(g) \/ CoordStart(g) =>
        \E f, k, l : Write(c, f, SetLock(c, k, l))
  BY DEF TakeLock, CoordSaturated, CoordStart
<1>4. CASE \E f, k, l : Write(c, f, SetLock(c, k, l))
  BY <1>1, <1>4, LockAtRest
<1>5. CASE SplitDone(g)
  BY <1>1, <1>5 DEF SplitDone, CardsAtRest, Card, Write
<1>6. CASE SplitFail(g)
  BY <1>1, <1>6 DEF SplitFail, BackToDraft, CardsAtRest, Card, Write
<1>7. CASE CombineDone(g)
  BY <1>1, <1>7 DEF CombineDone, InWork, CardsAtRest, Card, Write
<1>8. CASE CombineFail(g)
  BY <1>1, <1>8 DEF CombineFail, CardsAtRest, Card, Write
<1>9. CoordSlot(g) \/ (\E k \in Kinds, x \in Cards : FindDue(g, k, x)) => UNCHANGED cards
  BY DEF CoordSlot, FindDue
<1> QED BY <1>2, <1>3, <1>4, <1>5, <1>6, <1>7, <1>8, <1>9 DEF CoordStep

\* A draft has no pass pending or running and a queued card none running, in
\* every state, whatever crashes, late passes and fired members do.
THEOREM CardsAtRestHolds == Spec => []CardsAtRest
<1>1. Init => TypeInv /\ CardsAtRest
  BY InitTypeInv DEF Init, CardsAtRest, NoCard
<1>2. TypeInv /\ CardsAtRest /\ [Next]_vars => TypeInv' /\ CardsAtRest'
  <2> SUFFICES ASSUME TypeInv, CardsAtRest, [Next]_vars PROVE CardsAtRest'
    BY NextTypeInv
  <2>1. CASE UNCHANGED cards
    BY <2>1 DEF CardsAtRest
  <2>2. Crash => UNCHANGED cards
    BY DEF Crash
  <2>3. ASSUME NEW k \in Kinds, NEW c \in Cards, LockExpires(c, k)
        PROVE  CardsAtRest'
    BY <2>3, LockAtRest DEF LockExpires, TypeInv, TypeOK
  <2> QED
    BY <2>1, <2>2, <2>3, RequestAtRest, SweepAtRest, PassAtRest, CoordAtRest DEF Next, vars
<1> QED BY <1>1, <1>2, PTL DEF Spec
=============================================================================
