-------------------------- MODULE CrewReviewProofs --------------------------
(***************************************************************************)
(* What the crew promises its owner.  The human gate: with one request in  *)
(* flight at a time, what is done is what its owner approved, whatever the *)
(* worker, the coordinators and the ticker do meanwhile, and wherever the  *)
(* server crashes (TLC shows that two requests in flight break it).  Then  *)
(* the refinement of CrewBoard and the round of a pass, for cards with one *)
(* assignee; the dependencies of a card that a member starts on; and the   *)
(* parts of a team's card that comes to review.                            *)
(***************************************************************************)
EXTENDS CrewPipelineProofs, FiniteSetTheorems

\* The owner clicks once: no second request is in flight with a first.
OneRequest == \A h, k \in Handlers : h = k

\* Between the read and the write of an approval the card stays in review, or
\* falls back to draft, and receives no output.
ApprovalHolds ==
  \A h \in Handlers : handler[h].pc = "approve" =>
    /\ handler[h].card \in Cards
    /\ cards[handler[h].card].status \in {"review", "draft"}
    /\ cards[handler[h].card].revs = handler[h].last

ShipInv == NothingShipsUnseen /\ ApprovalHolds

-----------------------------------------------------------------------------
(* What the background does to one card, as far as the gate can tell.      *)

SameVerdict(r, s) == s.status = r.status /\ s.revs = r.revs /\ s.approved = r.approved

Background(r, s) ==
  \/ SameVerdict(r, s)
  \/ r.status \in {"queued", "working"} /\ s.status \in {"draft", "working", "review"}
  \/ s.status \in {"draft", "review"} /\ s.revs = r.revs
  \/ r.status = "done" /\ s.status = "queued"

\* A rewrite that keeps what the gate reads of one card keeps it of all.
LEMMA WriteBackground ==
  ASSUME cards \in [Cards -> Card], NEW c, NEW f, NEW r, Write(c, f, r),
         c \in Cards /\ f => Background(cards[c], r)
  PROVE  \A x \in Cards : Background(cards[x], cards'[x])
  BY DEF Write, Background, SameVerdict

\* Nothing the background does disturbs the gate.
LEMMA BackgroundShipInv ==
  ASSUME ShipInv, \A x \in Cards : Background(cards[x], cards'[x]),
         \A h \in Handlers : handler'[h] = handler[h]
  PROVE  ShipInv'
<1>1. NothingShipsUnseen'
  BY DEF ShipInv, NothingShipsUnseen, Background, SameVerdict
<1>2. ApprovalHolds'
  <2> SUFFICES ASSUME NEW h \in Handlers, handler[h].pc = "approve"
               PROVE  /\ handler[h].card \in Cards
                      /\ cards'[handler[h].card].status \in {"review", "draft"}
                      /\ cards'[handler[h].card].revs = handler[h].last
    BY DEF ApprovalHolds
  <2>1. /\ handler[h].card \in Cards
        /\ cards[handler[h].card].status \in {"review", "draft"}
        /\ cards[handler[h].card].revs = handler[h].last
    BY DEF ShipInv, ApprovalHolds
  <2>2. Background(cards[handler[h].card], cards'[handler[h].card])
    BY <2>1
  <2> QED BY <2>1, <2>2 DEF Background, SameVerdict
<1> QED BY <1>1, <1>2 DEF ShipInv

\* A coordinator lock is not something the gate reads.
LEMMA LockBackground ==
  ASSUME cards \in [Cards -> Card], NEW c, NEW f, NEW k, NEW l, Write(c, f, SetLock(c, k, l))
  PROVE  \A x \in Cards : Background(cards[x], cards'[x])
<1>1. c \in Cards => Background(cards[c], SetLock(c, k, l))
  BY DEF Background, SameVerdict, SetLock, Card
<1> QED BY <1>1, WriteBackground

\* The read that opens a request leaves every card as it was.
LEMMA ReadBackground ==
  ASSUME cards \in [Cards -> Card], NEW a, NEW pc, NEW c \in Cards, NEW who, NEW round,
         Read(a, pc, c, who, round)
  PROVE  \A x \in Cards : SameVerdict(cards[x], cards'[x])
  BY DEF Read, SameVerdict, Card

\* Member passes, their claims and their results.
LEMMA PassBackground ==
  ASSUME TypeInv, NEW p \in Passes,
         PassStep(p) \/ Claim(p) \/ \E m \in Members : StartPass(p, m)
  PROVE  UNCHANGED handler /\ \A x \in Cards : Background(cards[x], cards'[x])
<1> DEFINE c == pass[p].card
           m == pass[p].member
<1>1. cards \in [Cards -> Card]
  BY DEF TypeInv, TypeOK
<1>2. UNCHANGED handler
  BY DEF PassStep, Claim, StartPass, PassSlot, PassSaturated, PickCandidate, NoCandidate,
     ClaimCard, ClaimRaced, PassFail, PassLand, PassFinish
<1>3. CASE UNCHANGED cards
  BY <1>2, <1>3 DEF Background, SameVerdict
<1>4. CASE ClaimCard(p)
  <2> DEFINE r == [cards[c] EXCEPT !.awaiting = @ \ {m}, !.running = @ \cup {m},
                                   !.status = "working"]
  <2>1. c \in Cards => Background(cards[c], r)
    BY <1>1, <1>4 DEF ClaimCard, Claimable, Background, Card
  <2>2. Write(c, TRUE, r)
    BY <1>4 DEF ClaimCard
  <2> HIDE DEF r, c
  <2> QED BY <1>1, <1>2, <2>1, <2>2, WriteBackground
<1>5. CASE PassFail(p)
  <2>1. c \in Cards /\ InWork(c) => Background(cards[c], BackToDraft(c))
    BY <1>1 DEF InWork, BackToDraft, Background, Card
  <2>2. Write(c, InWork(c), BackToDraft(c))
    BY <1>5 DEF PassFail
  <2> HIDE DEF c
  <2> QED BY <1>1, <1>2, <2>1, <2>2, WriteBackground
<1>6. CASE PassLand(p)
  <2>1. c \in Cards /\ InWork(c) => Background(cards[c], Landed(c, m))
    BY <1>1 DEF InWork, Landed, Background, Card
  <2>2. Write(c, InWork(c), Landed(c, m))
    BY <1>6 DEF PassLand
  <2> HIDE DEF c
  <2> QED BY <1>1, <1>2, <2>1, <2>2, WriteBackground
<1>7. CASE PassFinish(p)
  <2> DEFINE r == [cards[c] EXCEPT !.status = "review"]
  <2>1. c \in Cards /\ ReadyForReview(c) => Background(cards[c], r)
    BY <1>1 DEF ReadyForReview, InWork, Background, Card
  <2>2. Write(c, ReadyForReview(c), r)
    BY <1>7 DEF PassFinish
  <2> HIDE DEF r, c
  <2> QED BY <1>1, <1>2, <2>1, <2>2, WriteBackground
<1>8. PassSlot(p) \/ PassSaturated(p) \/ NoCandidate(p) \/ ClaimRaced(p) => UNCHANGED cards
  BY DEF PassSlot, PassSaturated, NoCandidate, ClaimRaced
<1>9. (\E x \in Cards : PickCandidate(p, x)) \/ (\E x \in Members : StartPass(p, x))
        => UNCHANGED cards
  BY DEF PickCandidate, StartPass
<1> QED BY <1>3, <1>4, <1>5, <1>6, <1>7, <1>8, <1>9 DEF PassStep, Claim

\* Coordinators, whose results are written whatever has become of the card.
LEMMA CoordBackground ==
  ASSUME TypeInv, NEW g \in Coords,
         \/ CoordStep(g) \/ TakeLock(g)
         \/ \E k \in Kinds, c \in Cards : FindDue(g, k, c)
  PROVE  UNCHANGED handler /\ \A x \in Cards : Background(cards[x], cards'[x])
<1> DEFINE c == coord[g].card
<1>1. cards \in [Cards -> Card]
  BY DEF TypeInv, TypeOK
<1>2. UNCHANGED handler
  BY DEF CoordStep, TakeLock, FindDue, CoordSlot, CoordSaturated, CoordStart, SplitDone,
     SplitFail, CombineDone, CombineFail
<1>3. CASE UNCHANGED cards
  BY <1>2, <1>3 DEF Background, SameVerdict
<1>4. TakeLock(g) \/ CoordSaturated(g) \/ CoordStart(g) =>
        \E f, k, l : Write(c, f, SetLock(c, k, l))
  BY DEF TakeLock, CoordSaturated, CoordStart
<1>5. CASE \E f, k, l : Write(c, f, SetLock(c, k, l))
  BY <1>1, <1>2, <1>5, LockBackground
<1>6. CASE SplitDone(g)
  <2> DEFINE r == [cards[c] EXCEPT !.parts = Briefed(g), !.splitLock = "free"]
  <2>1. c \in Cards => Background(cards[c], r)
    BY <1>1 DEF Background, SameVerdict, Card
  <2>2. Write(c, TRUE, r)
    BY <1>6 DEF SplitDone
  <2> HIDE DEF r, c
  <2> QED BY <1>1, <1>2, <2>1, <2>2, WriteBackground
<1>7. CASE SplitFail(g)
  <2> DEFINE r == [BackToDraft(c) EXCEPT !.splitLock = "free"]
  <2>1. c \in Cards => Background(cards[c], r)
    BY <1>1 DEF BackToDraft, Background, Card
  <2>2. Write(c, TRUE, r)
    BY <1>7 DEF SplitFail
  <2> HIDE DEF r, c
  <2> QED BY <1>1, <1>2, <2>1, <2>2, WriteBackground
<1>8. CASE CombineDone(g)
  <2> DEFINE r == [cards[c] EXCEPT !.status = "review", !.revs = @ + 1, !.cycle = {}]
  <2>1. c \in Cards /\ InWork(c) => Background(cards[c], r)
    BY <1>1 DEF InWork, Background, Card
  <2>2. Write(c, InWork(c), r)
    BY <1>8 DEF CombineDone
  <2> HIDE DEF r, c
  <2> QED BY <1>1, <1>2, <2>1, <2>2, WriteBackground
<1>9. CASE CombineFail(g)
  <2> DEFINE r == [cards[c] EXCEPT !.status = "review"]
  <2>1. c \in Cards => Background(cards[c], r)
    BY <1>1 DEF Background, Card
  <2>2. Write(c, TRUE, r)
    BY <1>9 DEF CombineFail
  <2> HIDE DEF r, c
  <2> QED BY <1>1, <1>2, <2>1, <2>2, WriteBackground
<1>10. CoordSlot(g) \/ (\E k \in Kinds, x \in Cards : FindDue(g, k, x)) => UNCHANGED cards
  BY DEF CoordSlot, FindDue
<1> QED BY <1>3, <1>4, <1>5, <1>6, <1>7, <1>8, <1>9, <1>10 DEF CoordStep

\* The sweep moves done cards only.
LEMMA SweepBackground ==
  ASSUME TypeInv, Sweep
  PROVE  /\ \A h \in Handlers : handler'[h] = handler[h]
         /\ \A x \in Cards : Background(cards[x], cards'[x])
<1> DEFINE c == handler[Tick].card
<1>1. /\ cards \in [Cards -> Card] /\ handler \in [Actors -> Request]
      /\ \A h \in Handlers : h \in Actors /\ h # Tick
  BY ConstantsAssumption DEF TypeInv, TypeOK, Actors
<1>2. ASSUME NEW q, handler' = [handler EXCEPT ![Tick] = q]
      PROVE  \A h \in Handlers : handler'[h] = handler[h]
  BY <1>1, <1>2
<1>3. CASE RequeueWrite
  <2> DEFINE r == [cards[c] EXCEPT !.status = "queued", !.awaiting = handler[Tick].who,
                                   !.running = {}, !.due = FALSE, !.combineLock = "free"]
  <2>1. c \in Cards /\ cards[c].status = "done" => Background(cards[c], r)
    BY <1>1 DEF Background, Card
  <2>2. Write(c, cards[c].status = "done", r)
    BY <1>3 DEF RequeueWrite
  <2>3. \A h \in Handlers : handler'[h] = handler[h]
    BY <1>2, <1>3 DEF RequeueWrite, Finish
  <2> HIDE DEF r, c
  <2> QED BY <1>1, <2>1, <2>2, <2>3, WriteBackground
<1>4. CASE RetireWrite
  <2> DEFINE r == [cards[c] EXCEPT !.repeat = FALSE, !.due = FALSE]
  <2>1. c \in Cards => Background(cards[c], r)
    BY <1>1 DEF Background, SameVerdict, Card
  <2>2. Write(c, TRUE, r)
    BY <1>4 DEF RetireWrite
  <2>3. \A h \in Handlers : handler'[h] = handler[h]
    BY <1>2, <1>4 DEF RetireWrite, Finish
  <2> HIDE DEF r, c
  <2> QED BY <1>1, <2>1, <2>2, <2>3, WriteBackground
<1>5. ASSUME NEW x \in Cards, RequeueRead(x) \/ RetireRead(x)
      PROVE  /\ \A h \in Handlers : handler'[h] = handler[h]
             /\ \A y \in Cards : Background(cards[y], cards'[y])
  <2>1. \E pc, who, round : Read(Tick, pc, x, who, round)
    BY <1>5 DEF RequeueRead, RetireRead
  <2>2. \A h \in Handlers : handler'[h] = handler[h]
    BY <1>2, <2>1 DEF Read
  <2> QED BY <1>1, <2>1, <2>2, ReadBackground DEF Background
<1> QED BY <1>3, <1>4, <1>5 DEF Sweep, SweepWrite

-----------------------------------------------------------------------------
(* What the owner does.                                                    *)

\* A new request: the only one in flight, so no approval is pending.
LEMMA UserShipInv ==
  ASSUME OneRequest, TypeInv, ShipInv, NEW h \in Handlers, UserRequest(h)
  PROVE  ShipInv'
<1>1. /\ cards \in [Cards -> Card] /\ handler \in [Actors -> Request]
      /\ h \in Actors /\ \A k \in Handlers : k = h
  BY DEF TypeInv, TypeOK, Actors, OneRequest
<1>2. ASSUME handler'[h].pc # "approve", NothingShipsUnseen'
      PROVE  ShipInv'
  BY <1>1, <1>2 DEF ShipInv, ApprovalHolds
<1>3. ASSUME \A x \in Cards : SameVerdict(cards[x], cards'[x])
      PROVE  NothingShipsUnseen'
  BY <1>3 DEF ShipInv, NothingShipsUnseen, SameVerdict
<1>4. ASSUME Idle(h), UNCHANGED handler
      PROVE  handler'[h].pc # "approve"
  BY <1>4 DEF Idle
<1>5. ASSUME NEW c \in Cards, NEW r, r.status # "done", cards' = [cards EXCEPT ![c] = r]
      PROVE  NothingShipsUnseen'
  BY <1>1, <1>5 DEF ShipInv, NothingShipsUnseen
<1>6. ASSUME NEW c \in Cards, NEW f, NEW r, r.status # "done", Write(c, f, r)
      PROVE  NothingShipsUnseen'
  BY <1>1, <1>6 DEF ShipInv, NothingShipsUnseen, Write
<1>7. ASSUME NEW c \in Cards, NEW team \in Teams, CreateCard(h, c, team)
      PROVE  ShipInv'
  <2>1. [NoCard EXCEPT !.status = "draft", !.assignees = team, !.repeat = c \in Recurring,
                       !.deps = {d \in Deps[c] : Exists(d)}].status # "done"
    BY DEF NoCard
  <2> QED BY <1>2, <1>4, <1>5, <1>7, <2>1 DEF CreateCard
<1>8. ASSUME NEW c \in Cards, NEW team \in Teams, UpdateDraft(h, c, team)
      PROVE  ShipInv'
  <2>1. [cards[c] EXCEPT !.assignees = team, !.legacy = "empty"].status # "done"
    BY <1>1, <1>8 DEF UpdateDraft, Card
  <2> QED BY <1>2, <1>4, <1>6, <1>8, <2>1 DEF UpdateDraft
<1>9. ASSUME NEW c \in Cards, DeleteCard(h, c)
      PROVE  ShipInv'
  <2>1. [NoCard EXCEPT !.status = "gone"].status # "done"
    BY DEF NoCard
  <2> QED BY <1>2, <1>4, <1>6, <1>9, <2>1 DEF DeleteCard
<1>10. ASSUME NEW c \in Cards, UnqueueCard(h, c)
       PROVE  ShipInv'
  <2>1. [cards[c] EXCEPT !.status = "draft", !.awaiting = {}].status # "done"
    BY <1>1 DEF Card
  <2> QED BY <1>2, <1>4, <1>6, <1>10, <2>1 DEF UnqueueCard
<1>11. ASSUME NEW m, NEW status, SetMemberStatus(h, m, status)
       PROVE  ShipInv'
  <2>1. \A x \in Cards : SameVerdict(cards[x], cards'[x])
    BY <1>11 DEF SetMemberStatus, SameVerdict
  <2> QED BY <1>2, <1>3, <1>4, <1>11, <2>1 DEF SetMemberStatus
<1>12. ASSUME NEW c \in Cards, PromoteRead(h, c) \/ ChangesRead(h, c)
       PROVE  ShipInv'
  <2>1. \E pc \in {"promote", "changes"} : \E who, round : Read(h, pc, c, who, round)
    BY <1>12 DEF PromoteRead, ChangesRead
  <2>2. handler'[h].pc # "approve"
    BY <1>1, <2>1 DEF Read
  <2>3. \A x \in Cards : SameVerdict(cards[x], cards'[x])
    BY <1>1, <2>1, ReadBackground
  <2> QED BY <1>2, <1>3, <2>2, <2>3
<1>13. ASSUME NEW c \in Cards, ApproveRead(h, c)
       PROVE  ShipInv'
  <2>1. Read(h, "approve", c, {}, FALSE) /\ cards[c].status = "review"
    BY <1>13 DEF ApproveRead
  <2>2. \A x \in Cards : SameVerdict(cards[x], cards'[x])
    BY <1>1, <2>1, ReadBackground
  <2>3. handler'[h].card = c /\ handler'[h].last = cards[c].revs
    BY <1>1, <2>1 DEF Read, LastRevision
  <2>4. ApprovalHolds'
    BY <1>1, <2>1, <2>2, <2>3 DEF ApprovalHolds, SameVerdict
  <2> QED BY <1>3, <2>2, <2>4 DEF ShipInv
<1>14. ASSUME NEW m \in Members, FireMember(h, m)
       PROVE  ShipInv'
  <2>1. \A x \in Cards : SameVerdict(cards[x], cards'[x])
    <3> TAKE x \in Cards
    <3>1. cards[x] \in Card
      BY <1>1
    <3>2. cards'[x] = IF m \in cards[x].assignees
                        THEN [cards[x] EXCEPT !.assignees = @ \ {m}, !.awaiting = @ \ {m},
                                              !.running = @ \ {m}]
                        ELSE cards[x]
      BY <1>14 DEF FireMember
    <3> QED BY <3>1, <3>2 DEF Card, SameVerdict
  <2>2. handler'[h].pc # "approve"
    BY <1>1, <1>14 DEF FireMember, Request
  <2> QED BY <1>2, <1>3, <2>1, <2>2
<1> QED
  BY <1>7, <1>8, <1>9, <1>10, <1>11, <1>12, <1>13, <1>14 DEF UserRequest

\* The write of the pending request; the approval is the one that ships.
LEMMA RequestStepShipInv ==
  ASSUME OneRequest, TypeInv, ShipInv, NEW h \in Handlers, RequestStep(h)
  PROVE  ShipInv'
<1> DEFINE c == handler[h].card
<1>1. /\ cards \in [Cards -> Card] /\ handler \in [Actors -> Request]
      /\ h \in Actors /\ \A k \in Handlers : k = h
  BY DEF TypeInv, TypeOK, Actors, OneRequest
<1>2. ASSUME handler'[h].pc # "approve", NothingShipsUnseen'
      PROVE  ShipInv'
  BY <1>1, <1>2 DEF ShipInv, ApprovalHolds
<1>3. Finish(h) => handler'[h].pc # "approve"
  BY <1>1 DEF Finish, NoRequest
<1>4. ASSUME NEW r, r.status # "done" \/ r.approved = r.revs, Write(c, TRUE, r)
      PROVE  NothingShipsUnseen'
  BY <1>1, <1>4 DEF ShipInv, NothingShipsUnseen, Write
<1>5. ASSUME c \notin Cards, NEW r, Write(c, TRUE, r)
      PROVE  NothingShipsUnseen'
  BY <1>1, <1>5 DEF ShipInv, NothingShipsUnseen, Write
<1>6. CASE PromoteWrite(h)
  <2> DEFINE r == [cards[c] EXCEPT !.status = "queued", !.awaiting = handler[h].who,
                                   !.running = {}, !.assignees = handler[h].ids]
  <2>1. c \in Cards => r.status # "done"
    BY <1>1 DEF Card
  <2>2. Write(c, TRUE, r) /\ Finish(h)
    BY <1>6 DEF PromoteWrite
  <2> HIDE DEF r, c
  <2> QED BY <1>2, <1>3, <1>4, <1>5, <2>1, <2>2
<1>7. CASE ApproveWrite(h)
  <2> DEFINE r == [cards[c] EXCEPT !.status = "done", !.approved = handler[h].last,
                                   !.due = @ \/ cards[c].repeat, !.combineLock = "free"]
  <2>1. c \in Cards /\ cards[c].revs = handler[h].last
    BY <1>7 DEF ApproveWrite, ShipInv, ApprovalHolds
  <2>2. r.approved = r.revs
    BY <1>1, <2>1 DEF Card
  <2>3. Write(c, TRUE, r) /\ Finish(h)
    BY <1>7 DEF ApproveWrite
  <2> HIDE DEF r, c
  <2> QED BY <1>2, <1>3, <1>4, <2>2, <2>3
<1>8. CASE ChangesWrite(h)
  <2> DEFINE r == [cards[c] EXCEPT !.status = "queued", !.awaiting = handler[h].who,
                                   !.running = {},
                                   !.approved = IF @ = handler[h].last THEN 0 ELSE @,
                                   !.combineLock = "free"]
  <2>1. c \in Cards => r.status # "done"
    BY <1>1 DEF Card
  <2>2. Write(c, TRUE, r) /\ Finish(h)
    BY <1>8 DEF ChangesWrite
  <2> HIDE DEF r, c
  <2> QED BY <1>2, <1>3, <1>4, <1>5, <2>1, <2>2
<1>9. CASE FireFallback(h)
  <2>1. ASSUME NEW x \in Cards, cards'[x].status = "done"
        PROVE  cards'[x].approved = cards'[x].revs
    <3>1. cards'[x] = BackToDraft(x) \/ cards'[x] = cards[x]
      BY <1>9 DEF FireFallback
    <3>2. BackToDraft(x).status # "done"
      BY <1>1 DEF BackToDraft, Card
    <3> QED BY <2>1, <3>1, <3>2 DEF ShipInv, NothingShipsUnseen
  <2>2. handler'[h].pc # "approve"
    BY <1>1, <1>9 DEF FireFallback, Request
  <2> QED BY <1>2, <2>1, <2>2 DEF NothingShipsUnseen
<1>10. CASE FireDelete(h)
  BY <1>2, <1>3, <1>10 DEF FireDelete, ShipInv, NothingShipsUnseen
<1> QED BY <1>6, <1>7, <1>8, <1>9, <1>10 DEF RequestStep

-----------------------------------------------------------------------------
\* With one request in flight at a time nothing ships unseen: a done card holds
\* no output later than the revision its owner approved (ReviewCard).
THEOREM NothingShipsUnseenHolds ==
  ASSUME OneRequest
  PROVE  Spec => []NothingShipsUnseen
<1>1. Init => TypeInv /\ ShipInv
  BY InitTypeInv
  DEF Init, ShipInv, NothingShipsUnseen, ApprovalHolds, NoCard, NoRequest, Actors
<1>2. TypeInv /\ ShipInv /\ [Next]_vars => TypeInv' /\ ShipInv'
  <2> SUFFICES ASSUME TypeInv, ShipInv, [Next]_vars PROVE ShipInv'
    BY NextTypeInv
  <2>1. CASE UNCHANGED vars
    BY <2>1 DEF vars, ShipInv, NothingShipsUnseen, ApprovalHolds
  <2>2. CASE Crash
    BY <2>2 DEF Crash, ShipInv, NothingShipsUnseen, ApprovalHolds, NoRequest, Actors
  <2>3. ASSUME NEW k \in Kinds, NEW c \in Cards, LockExpires(c, k)
        PROVE  ShipInv'
    <3>1. \A x \in Cards : Background(cards[x], cards'[x])
      BY <2>3, LockBackground DEF LockExpires, TypeInv, TypeOK
    <3> QED BY <2>3, <3>1, BackgroundShipInv DEF LockExpires
  <2>4. CASE Sweep
    BY <2>4, SweepBackground, BackgroundShipInv
  <2>5. ASSUME NEW p \in Passes,
               PassStep(p) \/ Claim(p) \/ \E m \in Members : StartPass(p, m)
        PROVE  ShipInv'
    BY <2>5, PassBackground, BackgroundShipInv
  <2>6. ASSUME NEW g \in Coords,
               \/ CoordStep(g) \/ TakeLock(g)
               \/ \E k \in Kinds, c \in Cards : FindDue(g, k, c)
        PROVE  ShipInv'
    BY <2>6, CoordBackground, BackgroundShipInv
  <2> QED
    BY <2>1, <2>2, <2>3, <2>4, <2>5, <2>6, UserShipInv, RequestStepShipInv DEF Next
<1>3. ShipInv => NothingShipsUnseen
  BY DEF ShipInv
<1> QED BY <1>1, <1>2, <1>3, PTL DEF Spec
-----------------------------------------------------------------------------
(* Cards with one assignee.  They are never split, a pass has its card for *)
(* itself, and the pipeline is the board of CrewBoard.                     *)

AtMostOne(S) == \A m, n \in S : m = n

\* The user gives a card to one member at most.
Solo == \A team \in Teams : AtMostOne(team)

\* No member is fired.
NobodyFired == Fireable = {}

\* A card of one assignee: only he is awaited or runs, nobody has a part of it, and the human who
\* reviews it has an output before him which he has not approved.
SoloCard(r) ==
  /\ AtMostOne(r.assignees)
  /\ r.awaiting \subseteq r.assignees
  /\ r.running \subseteq r.assignees
  /\ r.parts = {}
  /\ r.status = "none" => r.revs = 0 /\ r.approved = 0
  /\ r.status = "review" => r.approved < r.revs
  /\ r.approved <= r.revs
SoloCards == \A c \in Cards : SoloCard(cards[c])

\* A pass that runs is the one its card counts, and one that hands in has brought a new output.
AtWork(p) ==
  /\ pass[p].pc \in {"claim", "run", "finish"} => pass[p].card \in Cards
  /\ pass[p].pc \in {"run", "finish"} =>
       /\ cards[pass[p].card].status = "working"
       /\ cards[pass[p].card].awaiting = {}
       /\ pass[p].member \in cards[pass[p].card].assignees
  /\ pass[p].pc = "run" => pass[p].member \in cards[pass[p].card].running
  /\ pass[p].pc = "finish" =>
       /\ cards[pass[p].card].running = {}
       /\ cards[pass[p].card].approved < cards[pass[p].card].revs
SoloPasses == \A p \in Passes : AtWork(p)

\* Until a request writes, its card is as it was read; the calendar's card may have been deleted.
Pending(x) ==
  /\ handler[x].pc \in {"promote", "approve", "changes", "requeue"} => handler[x].card \in Cards
  /\ handler[x].pc = "promote" =>
       /\ cards[handler[x].card].status = "draft"
       /\ cards[handler[x].card].assignees = handler[x].ids
       /\ handler[x].who \subseteq handler[x].ids
  /\ handler[x].pc \in {"approve", "changes"} =>
       /\ cards[handler[x].card].status = "review"
       /\ cards[handler[x].card].revs = handler[x].last
       /\ handler[x].who \subseteq cards[handler[x].card].assignees
  /\ handler[x].pc = "requeue" =>
       /\ cards[handler[x].card].status \in {"done", "gone"}
       /\ cards[handler[x].card].status = "done" =>
            handler[x].who \subseteq cards[handler[x].card].assignees
  /\ handler[x].pc \notin {"fallback", "dismiss"}
SoloRequests ==
  /\ \A x \in Actors : Pending(x)
  /\ handler[Tick].pc \in {"idle", "requeue", "retire"}
  /\ \A h \in Handlers : handler[h].pc \notin {"requeue", "retire"}

SoloInv == SoloCards /\ SoloPasses /\ SoloRequests /\ \A g \in Coords : coord[g].pc = "idle"

\* What a step does to one card, as the board sees it.
Unmoved(s, r) == r.status = s.status /\ r.revs = s.revs /\ r.approved = s.approved
Turns == { <<"none", "draft">>, <<"draft", "queued">>, <<"queued", "draft">>,
           <<"review", "queued">>, <<"queued", "working">>, <<"working", "draft">>,
           <<"done", "queued">> }
Moves(s, r) ==
  \/ Unmoved(s, r)
  \/ <<s.status, r.status>> \in Turns /\ r.revs = s.revs /\ r.approved = s.approved
  \/ /\ s.status = "review" /\ r.status = "done"
     /\ s.revs > 0 /\ r.revs = s.revs /\ r.approved = s.revs
  \/ /\ s.status \in {"draft", "done"} /\ r.status = "gone"
     /\ r.revs = 0 /\ r.approved = 0
  \/ /\ s.status = "working" /\ r.status = "working"
     /\ r.revs = s.revs + 1 /\ r.approved = s.approved
  \/ /\ s.status = "working" /\ r.status = "review"
     /\ s.revs > 0 /\ r.revs = s.revs /\ r.approved = s.approved

\* One card moves as the board allows, or none moves.
LEMMA BoardMove ==
  ASSUME cards \in [Cards -> Card], cards' \in [Cards -> Card], NEW c \in Cards,
         \A x \in Cards : x # c => Unmoved(cards[x], cards'[x]),
         Moves(cards[c], cards'[c])
  PROVE  [Board!Next]_(Board!vars)
<1> DEFINE column == [x \in Cards |-> cards[x].status]
           output == [x \in Cards |-> cards[x].revs]
           shipped == [x \in Cards |-> cards[x].approved]
           column1 == [x \in Cards |-> cards'[x].status]
           output1 == [x \in Cards |-> cards'[x].revs]
           shipped1 == [x \in Cards |-> cards'[x].approved]
<1>1. /\ column1 = [column EXCEPT ![c] = cards'[c].status]
      /\ output1 = [output EXCEPT ![c] = cards'[c].revs]
      /\ shipped1 = [shipped EXCEPT ![c] = cards'[c].approved]
  BY DEF Unmoved
<1>2. /\ column[c] = cards[c].status /\ output[c] = cards[c].revs
      /\ shipped[c] = cards[c].approved
  OBVIOUS
<1>3. /\ cards'[c].revs = cards[c].revs => output1 = output
      /\ cards'[c].approved = cards[c].approved => shipped1 = shipped
      /\ cards'[c].status = cards[c].status => column1 = column
  BY DEF Unmoved
<1>4. CASE Unmoved(cards[c], cards'[c])
  <2>1. Board!vars' = Board!vars
    BY <1>3, <1>4 DEF Unmoved, Board!vars
  <2> QED BY <2>1
<1>5. CASE /\ <<cards[c].status, cards'[c].status>> \in Turns
           /\ cards'[c].revs = cards[c].revs /\ cards'[c].approved = cards[c].approved
  <2>1. \/ Board!Create(c) \/ Board!Queue(c) \/ Board!Unqueue(c) \/ Board!Reject(c)
        \/ Board!Claim(c) \/ Board!Fail(c) \/ Board!Recur(c)
    BY <1>1, <1>2, <1>3, <1>5 DEF Turns, Board!Create, Board!Queue, Board!Unqueue, Board!Reject,
       Board!Claim, Board!Fail, Board!Recur, Board!Move
  <2> QED BY <2>1 DEF Board!Next
<1>6. CASE /\ cards[c].status = "review" /\ cards'[c].status = "done"
           /\ cards[c].revs > 0 /\ cards'[c].revs = cards[c].revs
           /\ cards'[c].approved = cards[c].revs
  <2>1. Board!Approve(c)
    BY <1>1, <1>2, <1>3, <1>6 DEF Board!Approve, Board!Move
  <2> QED BY <2>1 DEF Board!Next
<1>7. CASE /\ cards[c].status \in {"draft", "done"} /\ cards'[c].status = "gone"
           /\ cards'[c].revs = 0 /\ cards'[c].approved = 0
  <2>1. Board!Delete(c)
    BY <1>1, <1>2, <1>7 DEF Board!Delete, Board!Move
  <2> QED BY <2>1 DEF Board!Next
<1>8. CASE /\ cards[c].status = "working" /\ cards'[c].status = "working"
           /\ cards'[c].revs = cards[c].revs + 1 /\ cards'[c].approved = cards[c].approved
  <2>1. Board!Produce(c)
    BY <1>1, <1>2, <1>3, <1>8 DEF Board!Produce
  <2> QED BY <2>1 DEF Board!Next
<1>9. CASE /\ cards[c].status = "working" /\ cards'[c].status = "review"
           /\ cards[c].revs > 0 /\ cards'[c].revs = cards[c].revs
           /\ cards'[c].approved = cards[c].approved
  <2>1. Board!Submit(c)
    BY <1>1, <1>2, <1>3, <1>9 DEF Board!Submit, Board!Move
  <2> QED BY <2>1 DEF Board!Next
<1> QED BY <1>4, <1>5, <1>6, <1>7, <1>8, <1>9 DEF Moves

\* The same card, but for its locks, its dates and the count of its rounds.
Alike(s, r) ==
  /\ Unmoved(s, r)
  /\ r.assignees = s.assignees /\ r.awaiting = s.awaiting /\ r.running = s.running
  /\ r.parts = s.parts

\* A request or the calendar rewrites one card, which is not in work.
Rewrites(c) ==
  /\ \A x \in Cards : x # c => cards'[x] = cards[x]
  /\ SoloCard(cards'[c])
  /\ Moves(cards[c], cards'[c])
  /\ cards[c].status = "working" => Alike(cards[c], cards'[c])
  /\ UNCHANGED <<pass, coord>>

\* A pass at work does not notice.
LEMMA RewriteKeepsWork ==
  ASSUME TypeInv, TypeInv', SoloInv, NEW c \in Cards, Rewrites(c)
  PROVE  /\ SoloCards' /\ SoloPasses' /\ (\A g \in Coords : coord[g].pc = "idle")'
         /\ [Board!Next]_(Board!vars)
<1>1. cards \in [Cards -> Card] /\ cards' \in [Cards -> Card]
  BY DEF TypeInv, TypeOK
<1>2. SoloCards'
  BY DEF SoloInv, SoloCards, Rewrites
<1>3. \A x \in Cards : cards[x].status = "working" => Alike(cards[x], cards'[x])
  BY DEF Rewrites, Alike, Unmoved
<1>4. ASSUME NEW p \in Passes PROVE AtWork(p)'
  <2>1. AtWork(p) /\ pass' = pass
    BY DEF SoloInv, SoloPasses, Rewrites
  <2>2. pass[p].pc \in {"run", "finish"} =>
          Alike(cards[pass[p].card], cards'[pass[p].card])
    BY <1>3, <2>1 DEF AtWork
  <2> QED BY <2>1, <2>2 DEF AtWork, Alike, Unmoved
<1>5. [Board!Next]_(Board!vars)
  BY <1>1, BoardMove DEF Rewrites, Unmoved
<1>6. (\A g \in Coords : coord[g].pc = "idle")'
  BY DEF SoloInv, Rewrites
<1> QED BY <1>2, <1>4, <1>5, <1>6 DEF SoloPasses

\* A request that waits to write does not notice what keeps its card in its column.
LEMMA PendingStays ==
  ASSUME NEW x \in Actors, Pending(x), handler'[x] = handler[x],
         NEW c \in Cards, \A y \in Cards : y # c => cards'[y] = cards[y],
         cards[c].status \in {"draft", "review"} => Alike(cards[c], cards'[c]),
         handler[x].pc = "requeue" /\ cards[c].status \in {"done", "gone"} =>
           Alike(cards[c], cards'[c])
  PROVE  Pending(x)'
<1> DEFINE d == handler[x].card
<1>1. CASE handler[x].pc \in {"promote", "approve", "changes", "requeue"} /\ d = c
  BY <1>1 DEF Pending, Alike, Unmoved
<1>2. CASE handler[x].pc \in {"promote", "approve", "changes", "requeue"} /\ d # c
  <2>1. d \in Cards /\ cards'[d] = cards[d]
    BY <1>2 DEF Pending
  <2> QED BY <1>2, <2>1 DEF Pending
<1>3. CASE handler[x].pc \notin {"promote", "approve", "changes", "requeue"}
  BY <1>3 DEF Pending
<1> QED BY <1>1, <1>2, <1>3

\* The one request in flight rewrites a card.
LEMMA RequestRewrites ==
  ASSUME OneRequest, TypeInv, TypeInv', SoloInv, NEW h \in Handlers, NEW c \in Cards, Rewrites(c),
         \A x \in Actors : x # h => handler'[x] = handler[x],
         cards[c].status \in {"done", "gone"} =>
           Alike(cards[c], cards'[c]) \/ cards'[c].status = "gone",
         Pending(h)', handler'[h].pc \notin {"requeue", "retire"}
  PROVE  SoloInv' /\ [Board!Next]_(Board!vars)
<1>1. /\ Tick \in Actors /\ h \in Actors /\ h # Tick
      /\ \A k \in Handlers : k = h
  BY ConstantsAssumption DEF Actors, OneRequest
<1>2. handler'[Tick] = handler[Tick] /\ handler[Tick].pc \in {"idle", "requeue", "retire"}
  BY <1>1 DEF SoloInv, SoloRequests
<1>3. Pending(Tick)'
  <2>1. Pending(Tick)
    BY <1>1 DEF SoloInv, SoloRequests
  <2>2. CASE handler[Tick].pc = "requeue" /\ handler[Tick].card = c
    BY <1>2, <2>1, <2>2 DEF Pending, Alike, Unmoved
  <2>3. CASE handler[Tick].pc = "requeue" /\ handler[Tick].card # c
    BY <1>2, <2>1, <2>3 DEF Pending, Rewrites
  <2>4. CASE handler[Tick].pc # "requeue"
    BY <1>2, <2>1, <2>4 DEF Pending
  <2> QED BY <2>2, <2>3, <2>4
<1>4. SoloRequests'
  BY <1>1, <1>2, <1>3 DEF SoloRequests, Actors
<1> QED BY <1>4, RewriteKeepsWork DEF SoloInv

\* A request that reads leaves every card as it was, and will find it so.
LEMMA ReadSolo ==
  ASSUME OneRequest, TypeInv, TypeInv', SoloInv, NEW h \in Handlers, NEW c \in Cards,
         NEW pc \in {"promote", "approve", "changes"}, NEW who, NEW round, Read(h, pc, c, who, round),
         who \subseteq cards[c].assignees,
         pc = "promote" => cards[c].status = "draft",
         pc # "promote" => cards[c].status = "review"
  PROVE  SoloInv' /\ [Board!Next]_(Board!vars)
<1>1. /\ cards \in [Cards -> Card] /\ handler \in [Actors -> Request] /\ h \in Actors
  BY DEF TypeInv, TypeOK, Actors
<1>2. /\ \A x \in Cards : x # c => cards'[x] = cards[x]
      /\ Alike(cards[c], cards'[c])
  BY <1>1 DEF Read, Alike, Unmoved, Card
<1>3. handler'[h] = [pc |-> pc, card |-> c, who |-> who, ids |-> cards[c].assignees,
                     last |-> cards[c].revs]
  BY <1>1 DEF Read, LastRevision
<1>4. \A x \in Actors : x # h => handler'[x] = handler[x]
  BY <1>1 DEF Read
<1>5. SoloCard(cards[c])
  BY DEF SoloInv, SoloCards
<1>6. SoloCard(cards'[c])
  BY <1>2, <1>5 DEF SoloCard, Alike, Unmoved
<1>7. Rewrites(c)
  BY <1>2, <1>6 DEF Rewrites, Moves, Alike, Read
<1>8. Pending(h)'
  BY <1>2, <1>3 DEF Pending, Alike, Unmoved
<1> QED BY <1>2, <1>3, <1>4, <1>7, <1>8, RequestRewrites

\* A request that is one update.
LEMMA UpdateSolo ==
  ASSUME OneRequest, TypeInv, TypeInv', SoloInv, NEW h \in Handlers, NEW c \in Cards, NEW r,
         Idle(h), cards' = [cards EXCEPT ![c] = r], UNCHANGED <<handler, pass, coord>>,
         SoloCard(r), Moves(cards[c], r), cards[c].status # "working",
         cards[c].status = "done" => r.status = "gone",
         cards[c].status # "gone"
  PROVE  SoloInv' /\ [Board!Next]_(Board!vars)
<1>1. cards \in [Cards -> Card] /\ h \in Actors
  BY DEF TypeInv, TypeOK, Actors
<1>2. cards'[c] = r /\ \A x \in Cards : x # c => cards'[x] = cards[x]
  BY <1>1
<1>3. Rewrites(c)
  BY <1>2 DEF Rewrites
<1>4. Pending(h)' /\ handler'[h].pc = "idle"
  BY DEF Idle, Pending
<1> QED BY <1>2, <1>3, <1>4, RequestRewrites

\* A new request.
LEMMA UserSolo ==
  ASSUME OneRequest, Solo, NobodyFired, TypeInv, TypeInv', CardsAtRest, SoloInv,
         NEW h \in Handlers, UserRequest(h)
  PROVE  SoloInv' /\ [Board!Next]_(Board!vars)
<1>1. cards \in [Cards -> Card] /\ \A c \in Cards : SoloCard(cards[c]) /\ cards[c] \in Card
  BY DEF TypeInv, TypeOK, SoloInv, SoloCards
<1>2. ASSUME NEW c \in Cards, NEW team \in Teams, CreateCard(h, c, team)
      PROVE  SoloInv' /\ [Board!Next]_(Board!vars)
  <2> DEFINE r == [NoCard EXCEPT !.status = "draft", !.assignees = team,
                                 !.repeat = c \in Recurring, !.deps = {d \in Deps[c] : Exists(d)}]
  <2>1. /\ r.status = "draft" /\ r.assignees = team /\ r.awaiting = {} /\ r.running = {}
        /\ r.parts = {} /\ r.revs = 0 /\ r.approved = 0
    BY DEF NoCard
  <2>2. cards' = [cards EXCEPT ![c] = r] /\ cards[c].status = "none"
    BY <1>2 DEF CreateCard
  <2> HIDE DEF r
  <2>3. SoloCard(r) /\ Moves(cards[c], r)
    BY <1>1, <2>1, <2>2 DEF SoloCard, Moves, Turns, Solo
  <2>4. Idle(h) /\ UNCHANGED <<handler, pass, coord>>
    BY <1>2 DEF CreateCard
  <2> QED BY <2>1, <2>2, <2>3, <2>4, UpdateSolo
<1>3. ASSUME NEW c \in Cards, NEW team \in Teams, UpdateDraft(h, c, team)
      PROVE  SoloInv' /\ [Board!Next]_(Board!vars)
  <2> DEFINE r == [cards[c] EXCEPT !.assignees = team, !.legacy = "empty"]
  <2>1. cards[c].status = "draft" /\ Idle(h) /\ UNCHANGED <<handler, pass, coord>>
    BY <1>3 DEF UpdateDraft
  <2>2. /\ r.status = "draft" /\ r.assignees = team /\ r.awaiting = {} /\ r.running = {}
        /\ r.parts = cards[c].parts /\ r.revs = cards[c].revs /\ r.approved = cards[c].approved
    BY <1>1, <2>1 DEF Card, CardsAtRest
  <2>3. cards' = [cards EXCEPT ![c] = r]
    BY <1>3, <2>1 DEF UpdateDraft, Write, Exists
  <2> HIDE DEF r
  <2>4. SoloCard(r) /\ Moves(cards[c], r)
    BY <1>1, <2>1, <2>2 DEF SoloCard, Moves, Unmoved, Solo
  <2> QED BY <2>1, <2>2, <2>3, <2>4, UpdateSolo
<1>4. ASSUME NEW c \in Cards, DeleteCard(h, c) PROVE SoloInv' /\ [Board!Next]_(Board!vars)
  <2> DEFINE r == [NoCard EXCEPT !.status = "gone"]
  <2>1. cards[c].status \in {"draft", "done"} /\ Idle(h) /\ UNCHANGED <<handler, pass, coord>>
    BY <1>4 DEF DeleteCard
  <2>2. /\ r.status = "gone" /\ r.assignees = {} /\ r.awaiting = {} /\ r.running = {}
        /\ r.parts = {} /\ r.revs = 0 /\ r.approved = 0
    BY DEF NoCard
  <2>3. cards' = [cards EXCEPT ![c] = r]
    BY <1>4, <2>1 DEF DeleteCard, Write, Exists
  <2> HIDE DEF r
  <2>4. SoloCard(r) /\ Moves(cards[c], r)
    BY <2>1, <2>2 DEF SoloCard, Moves, AtMostOne
  <2> QED BY <2>1, <2>2, <2>3, <2>4, UpdateSolo
<1>5. ASSUME NEW c \in Cards, UnqueueCard(h, c) PROVE SoloInv' /\ [Board!Next]_(Board!vars)
  <2> DEFINE r == [cards[c] EXCEPT !.status = "draft", !.awaiting = {}]
  <2>1. /\ cards[c].status = "queued" /\ cards[c].running = {}
        /\ Idle(h) /\ UNCHANGED <<handler, pass, coord>>
    BY <1>5 DEF UnqueueCard, Unclaimed
  <2>2. /\ r.status = "draft" /\ r.assignees = cards[c].assignees /\ r.awaiting = {} /\ r.running = {}
        /\ r.parts = cards[c].parts /\ r.revs = cards[c].revs /\ r.approved = cards[c].approved
    BY <1>1, <2>1 DEF Card
  <2>3. cards' = [cards EXCEPT ![c] = r]
    BY <1>5, <2>1 DEF UnqueueCard, Write, Exists
  <2> HIDE DEF r
  <2>4. SoloCard(r) /\ Moves(cards[c], r)
    BY <1>1, <2>1, <2>2 DEF SoloCard, Moves, Turns
  <2> QED BY <2>1, <2>2, <2>3, <2>4, UpdateSolo
<1>6. ASSUME NEW m, NEW status, SetMemberStatus(h, m, status) PROVE SoloInv' /\ [Board!Next]_(Board!vars)
  <2>1. UNCHANGED <<cards, handler, pass, coord>>
    BY <1>6 DEF SetMemberStatus
  <2>2. SoloCards' /\ SoloPasses' /\ SoloRequests'
    BY <2>1 DEF SoloInv, SoloCards, SoloPasses, AtWork, SoloRequests, Pending
  <2>3. Board!vars' = Board!vars
    BY <2>1 DEF Board!vars
  <2> QED BY <2>1, <2>2, <2>3 DEF SoloInv
<1>7. ASSUME NEW c \in Cards, PromoteRead(h, c) PROVE SoloInv' /\ [Board!Next]_(Board!vars)
  BY <1>7, ReadSolo DEF PromoteRead, Promotable
<1>8. ASSUME NEW c \in Cards, ApproveRead(h, c) PROVE SoloInv' /\ [Board!Next]_(Board!vars)
  BY <1>8, ReadSolo DEF ApproveRead
<1>9. ASSUME NEW c \in Cards, ChangesRead(h, c) PROVE SoloInv' /\ [Board!Next]_(Board!vars)
  BY <1>9, ReadSolo DEF ChangesRead
<1>10. ASSUME NEW m \in Members, FireMember(h, m) PROVE FALSE
  BY <1>10 DEF FireMember, NobodyFired
<1> QED BY <1>2, <1>3, <1>4, <1>5, <1>6, <1>7, <1>8, <1>9, <1>10 DEF UserRequest

\* A request that ends with its write.
LEMMA WriteSolo ==
  ASSUME OneRequest, TypeInv, TypeInv', SoloInv, NEW h \in Handlers, NEW c \in Cards, NEW r,
         Finish(h), cards' = [cards EXCEPT ![c] = r], UNCHANGED <<pass, coord>>,
         SoloCard(r), Moves(cards[c], r), cards[c].status \in {"draft", "review"}
  PROVE  SoloInv' /\ [Board!Next]_(Board!vars)
<1>1. cards \in [Cards -> Card] /\ handler \in [Actors -> Request] /\ h \in Actors
  BY DEF TypeInv, TypeOK, Actors
<1>2. cards'[c] = r /\ \A x \in Cards : x # c => cards'[x] = cards[x]
  BY <1>1
<1>3. Rewrites(c)
  BY <1>2 DEF Rewrites
<1>4. handler'[h] = NoRequest /\ \A x \in Actors : x # h => handler'[x] = handler[x]
  BY <1>1 DEF Finish
<1>5. Pending(h)' /\ handler'[h].pc = "idle"
  BY <1>4 DEF Pending, NoRequest
<1> QED BY <1>3, <1>4, <1>5, RequestRewrites

\* The write of the pending request.
LEMMA RequestStepSolo ==
  ASSUME OneRequest, TypeInv, TypeInv', SoloInv, NEW h \in Handlers, RequestStep(h)
  PROVE  SoloInv' /\ [Board!Next]_(Board!vars)
<1> DEFINE c == handler[h].card
<1>1. /\ cards \in [Cards -> Card] /\ handler \in [Actors -> Request] /\ h \in Actors
      /\ \A x \in Cards : SoloCard(cards[x])
  BY DEF TypeInv, TypeOK, SoloInv, SoloCards, Actors
<1>2. Pending(h)
  BY <1>1 DEF SoloInv, SoloRequests
<1>3. CASE PromoteWrite(h)
  <2> DEFINE r == [cards[c] EXCEPT !.status = "queued", !.awaiting = handler[h].who,
                                   !.running = {}, !.assignees = handler[h].ids]
  <2>1. /\ c \in Cards /\ cards[c].status = "draft" /\ cards[c].assignees = handler[h].ids
        /\ handler[h].who \subseteq handler[h].ids
    BY <1>2, <1>3 DEF PromoteWrite, Pending
  <2>2. /\ r.status = "queued" /\ r.assignees = cards[c].assignees /\ r.awaiting = handler[h].who
        /\ r.running = {} /\ r.parts = cards[c].parts /\ r.revs = cards[c].revs
        /\ r.approved = cards[c].approved
    BY <1>1, <2>1 DEF Card
  <2>3. cards' = [cards EXCEPT ![c] = r] /\ Finish(h) /\ UNCHANGED <<pass, coord>>
    BY <1>3, <2>1 DEF PromoteWrite, Write, Exists
  <2>4. SoloCard(cards[c])
    BY <1>1, <2>1
  <2> HIDE DEF r, c
  <2>5. SoloCard(r) /\ Moves(cards[c], r)
    BY <2>1, <2>2, <2>4 DEF SoloCard, Moves, Turns
  <2> QED BY <2>1, <2>3, <2>5, WriteSolo
<1>4. CASE ApproveWrite(h)
  <2> DEFINE r == [cards[c] EXCEPT !.status = "done", !.approved = handler[h].last,
                                   !.due = @ \/ cards[c].repeat, !.combineLock = "free"]
  <2>1. c \in Cards /\ cards[c].status = "review" /\ cards[c].revs = handler[h].last
    BY <1>2, <1>4 DEF ApproveWrite, Pending
  <2>2. /\ r.status = "done" /\ r.assignees = cards[c].assignees
        /\ r.awaiting = cards[c].awaiting /\ r.running = cards[c].running
        /\ r.parts = cards[c].parts /\ r.revs = cards[c].revs /\ r.approved = cards[c].revs
    BY <1>1, <2>1 DEF Card
  <2>3. cards' = [cards EXCEPT ![c] = r] /\ Finish(h) /\ UNCHANGED <<pass, coord>>
    BY <1>4, <2>1 DEF ApproveWrite, Write, Exists
  <2>4. SoloCard(cards[c]) /\ cards[c].revs \in Nat /\ cards[c].approved \in Nat
    BY <1>1, <2>1 DEF Card
  <2> HIDE DEF r, c
  <2>5. SoloCard(r) /\ Moves(cards[c], r)
    BY <2>1, <2>2, <2>4 DEF SoloCard, Moves
  <2> QED BY <2>1, <2>3, <2>5, WriteSolo
<1>5. CASE ChangesWrite(h)
  <2> DEFINE r == [cards[c] EXCEPT !.status = "queued", !.awaiting = handler[h].who,
                                   !.running = {},
                                   !.approved = IF @ = handler[h].last THEN 0 ELSE @,
                                   !.combineLock = "free"]
  <2>1. /\ c \in Cards /\ cards[c].status = "review" /\ cards[c].revs = handler[h].last
        /\ handler[h].who \subseteq cards[c].assignees
    BY <1>2, <1>5 DEF ChangesWrite, Pending
  <2>2. SoloCard(cards[c]) /\ cards[c].revs \in Nat /\ cards[c].approved \in Nat
    BY <1>1, <2>1 DEF Card
  <2>3. cards[c].approved # handler[h].last
    BY <2>1, <2>2 DEF SoloCard
  <2>4. /\ r.status = "queued" /\ r.assignees = cards[c].assignees /\ r.awaiting = handler[h].who
        /\ r.running = {} /\ r.parts = cards[c].parts /\ r.revs = cards[c].revs
        /\ r.approved = cards[c].approved
    BY <1>1, <2>1, <2>3 DEF Card
  <2>5. cards' = [cards EXCEPT ![c] = r] /\ Finish(h) /\ UNCHANGED <<pass, coord>>
    BY <1>5, <2>1 DEF ChangesWrite, Write, Exists
  <2> HIDE DEF r, c
  <2>6. SoloCard(r) /\ Moves(cards[c], r)
    BY <2>1, <2>2, <2>4 DEF SoloCard, Moves, Turns
  <2> QED BY <2>1, <2>5, <2>6, WriteSolo
<1>6. ~FireFallback(h) /\ ~FireDelete(h)
  BY <1>2 DEF FireFallback, FireDelete, Pending
<1> QED BY <1>3, <1>4, <1>5, <1>6 DEF RequestStep

\* The calendar rewrites a card: no request waits for a card that is done.
LEMMA SweepRewrites ==
  ASSUME TypeInv, TypeInv', SoloInv, NEW c \in Cards, Rewrites(c),
         cards[c].status \in {"draft", "review"} => Alike(cards[c], cards'[c]),
         \A h \in Handlers : handler'[h] = handler[h],
         Pending(Tick)', handler'[Tick].pc \in {"idle", "requeue", "retire"}
  PROVE  SoloInv' /\ [Board!Next]_(Board!vars)
<1>1. ASSUME NEW h \in Handlers PROVE Pending(h)' /\ handler'[h].pc \notin {"requeue", "retire"}
  <2>1. h \in Actors /\ Pending(h) /\ handler[h].pc \notin {"requeue", "retire"}
    BY DEF SoloInv, SoloRequests, Actors
  <2> QED BY <2>1, PendingStays DEF Rewrites
<1>2. SoloRequests'
  BY <1>1 DEF SoloRequests, Actors
<1> QED BY <1>2, RewriteKeepsWork DEF SoloInv

\* The calendar.
LEMMA SweepSolo ==
  ASSUME TypeInv, TypeInv', SoloInv, Sweep
  PROVE  SoloInv' /\ [Board!Next]_(Board!vars)
<1> DEFINE c == handler[Tick].card
<1>1. /\ cards \in [Cards -> Card] /\ handler \in [Actors -> Request] /\ Tick \in Actors
      /\ \A x \in Cards : SoloCard(cards[x]) /\ cards[x] \in Card
      /\ \A h \in Handlers : h \in Actors /\ h # Tick
  BY ConstantsAssumption DEF TypeInv, TypeOK, SoloInv, SoloCards, Actors
<1>2. Pending(Tick)
  BY <1>1 DEF SoloInv, SoloRequests
<1>3. ASSUME Finish(Tick)
      PROVE  /\ \A h \in Handlers : handler'[h] = handler[h]
             /\ Pending(Tick)' /\ handler'[Tick].pc = "idle"
  BY <1>1, <1>3 DEF Finish, Pending, NoRequest
<1>4. ASSUME NEW x \in Cards, Alike(cards[x], cards'[x]),
             \A y \in Cards : y # x => cards'[y] = cards[y], UNCHANGED <<pass, coord>>
      PROVE  Rewrites(x)
  <2>1. SoloCard(cards'[x])
    BY <1>1, <1>4 DEF SoloCard, Alike, Unmoved
  <2> QED BY <1>4, <2>1 DEF Rewrites, Moves, Alike
<1>5. ASSUME UNCHANGED <<cards, pass, coord>>, Finish(Tick) PROVE SoloInv' /\ [Board!Next]_(Board!vars)
  <2>1. SoloCards' /\ SoloPasses'
    BY <1>5 DEF SoloInv, SoloCards, SoloPasses, AtWork
  <2>2. SoloRequests'
    BY <1>1, <1>3, <1>5 DEF SoloInv, SoloRequests, Pending, Actors
  <2>3. Board!vars' = Board!vars
    BY <1>5 DEF Board!vars
  <2> QED BY <1>5, <2>1, <2>2, <2>3 DEF SoloInv
<1>6. CASE RequeueWrite
  <2> DEFINE r == [cards[c] EXCEPT !.status = "queued", !.awaiting = handler[Tick].who,
                                   !.running = {}, !.due = FALSE, !.combineLock = "free"]
  <2>1. /\ c \in Cards /\ Finish(Tick) /\ UNCHANGED <<pass, coord>>
        /\ cards[c].status = "done" => handler[Tick].who \subseteq cards[c].assignees
    BY <1>2, <1>6 DEF RequeueWrite, Pending
  <2>2. CASE cards[c].status = "done"
    <3>1. /\ r.status = "queued" /\ r.assignees = cards[c].assignees
          /\ r.awaiting = handler[Tick].who /\ r.running = {} /\ r.parts = cards[c].parts
          /\ r.revs = cards[c].revs /\ r.approved = cards[c].approved
      BY <1>1, <2>1 DEF Card
    <3>2. cards' = [cards EXCEPT ![c] = r]
      BY <1>6, <2>2 DEF RequeueWrite, Write, Exists
    <3>3. SoloCard(cards[c])
      BY <1>1, <2>1
    <3>4. cards'[c] = r /\ \A x \in Cards : x # c => cards'[x] = cards[x]
      BY <1>1, <2>1, <3>2
    <3> HIDE DEF r, c
    <3>5. SoloCard(r) /\ Moves(cards[c], r)
      BY <2>1, <2>2, <3>1, <3>3 DEF SoloCard, Moves, Turns
    <3>6. Rewrites(c)
      BY <2>1, <2>2, <3>4, <3>5 DEF Rewrites
    <3> QED BY <1>3, <2>1, <2>2, <3>6, SweepRewrites
  <2>3. CASE cards[c].status # "done"
    <3>1. UNCHANGED cards
      BY <1>1, <1>6, <2>1, <2>3 DEF RequeueWrite, Write
    <3> QED BY <1>5, <2>1, <3>1
  <2> QED BY <2>2, <2>3
<1>7. CASE RetireWrite
  <2>1. Finish(Tick) /\ UNCHANGED <<pass, coord>>
    BY <1>7 DEF RetireWrite
  <2>2. CASE c \in Cards
    <3>1. /\ Alike(cards[c], cards'[c])
          /\ \A x \in Cards : x # c => cards'[x] = cards[x]
      BY <1>1, <1>7, <2>2 DEF RetireWrite, Write, Alike, Unmoved, Card
    <3>2. Rewrites(c)
      BY <1>4, <2>1, <2>2, <3>1
    <3> HIDE DEF c
    <3> QED BY <1>3, <2>1, <2>2, <3>1, <3>2, SweepRewrites
  <2>3. CASE c \notin Cards
    <3>1. UNCHANGED cards
      BY <1>1, <1>7, <2>3 DEF RetireWrite, Write
    <3> QED BY <1>5, <2>1, <3>1
  <2> QED BY <2>2, <2>3
<1>8. ASSUME NEW x \in Cards, RequeueRead(x) \/ RetireRead(x)
      PROVE  SoloInv' /\ [Board!Next]_(Board!vars)
  <2>1. PICK pc \in {"requeue", "retire"}, who \in SUBSET cards[x].assignees, round \in BOOLEAN :
          Read(Tick, pc, x, who, round) /\ cards[x].status = "done"
    BY <1>8 DEF RequeueRead, RetireRead
  <2>2. /\ Alike(cards[x], cards'[x])
        /\ \A y \in Cards : y # x => cards'[y] = cards[y]
    BY <1>1, <2>1 DEF Read, Alike, Unmoved, Card
  <2>3. /\ handler'[Tick] = [pc |-> pc, card |-> x, who |-> who, ids |-> cards[x].assignees,
                             last |-> cards[x].revs]
        /\ \A h \in Handlers : handler'[h] = handler[h]
    BY <1>1, <2>1 DEF Read, LastRevision
  <2>4. Rewrites(x)
    BY <1>4, <2>1, <2>2 DEF Read
  <2>5. Pending(Tick)' /\ handler'[Tick].pc \in {"idle", "requeue", "retire"}
    BY <2>1, <2>2, <2>3 DEF Pending, Alike, Unmoved
  <2> QED BY <2>2, <2>3, <2>4, <2>5, SweepRewrites
<1> QED BY <1>6, <1>7, <1>8 DEF Sweep, SweepWrite

\* A pass rewrites its card, which is no other's.
LEMMA PassRewrites ==
  ASSUME TypeInv, TypeInv', SoloInv, NEW p \in Passes, NEW c \in Cards, NEW r,
         cards' = [cards EXCEPT ![c] = r], SoloCard(r), Moves(cards[c], r),
         cards[c].status \in {"queued", "working"}, UNCHANGED <<handler, coord>>,
         \A q \in Passes : q # p => pass'[q] = pass[q],
         \A q \in Passes : q # p /\ pass[q].pc \in {"run", "finish"} => pass[q].card # c,
         AtWork(p)'
  PROVE  SoloInv' /\ [Board!Next]_(Board!vars)
<1>1. cards \in [Cards -> Card] /\ cards' \in [Cards -> Card]
  BY DEF TypeInv, TypeOK
<1>2. cards'[c] = r /\ \A x \in Cards : x # c => cards'[x] = cards[x]
  BY <1>1
<1>3. SoloCards'
  BY <1>2 DEF SoloInv, SoloCards
<1>4. ASSUME NEW q \in Passes, q # p PROVE AtWork(q)'
  <2>1. AtWork(q) /\ pass'[q] = pass[q]
    BY <1>4 DEF SoloInv, SoloPasses
  <2>2. pass[q].pc \in {"run", "finish"} => cards'[pass[q].card] = cards[pass[q].card]
    BY <1>2, <1>4, <2>1 DEF AtWork
  <2> QED BY <2>1, <2>2 DEF AtWork
<1>5. ASSUME NEW x \in Actors PROVE Pending(x)'
  <2>1. Pending(x)
    BY DEF SoloInv, SoloRequests
  <2> QED BY <1>2, <2>1, PendingStays
<1>6. SoloRequests'
  BY <1>5 DEF SoloRequests, SoloInv
<1>7. [Board!Next]_(Board!vars)
  BY <1>1, <1>2, BoardMove DEF Unmoved
<1> QED BY <1>3, <1>4, <1>6, <1>7 DEF SoloInv, SoloPasses

\* A pass that writes no card and is not at work afterwards.
LEMMA PassIdles ==
  ASSUME TypeInv, SoloInv, NEW p \in Passes, UNCHANGED <<cards, handler, coord>>,
         \A q \in Passes : q # p => pass'[q] = pass[q], AtWork(p)'
  PROVE  SoloInv' /\ [Board!Next]_(Board!vars)
<1>1. SoloCards' /\ SoloRequests'
  BY DEF SoloInv, SoloCards, SoloRequests, Pending
<1>2. ASSUME NEW q \in Passes PROVE AtWork(q)'
  BY DEF SoloInv, SoloPasses, AtWork
<1>3. Board!vars' = Board!vars
  BY DEF Board!vars
<1> QED BY <1>1, <1>2, <1>3 DEF SoloInv, SoloPasses

\* A member's pass.
LEMMA PassSolo ==
  ASSUME TypeInv, TypeInv', CardsAtRest, OneCardPerMember, SoloInv, NEW p \in Passes,
         PassStep(p) \/ Claim(p) \/ \E m \in Members : StartPass(p, m)
  PROVE  SoloInv' /\ [Board!Next]_(Board!vars)
<1> DEFINE c == pass[p].card
           m == pass[p].member
<1>1. /\ cards \in [Cards -> Card] /\ pass \in [Passes -> Pass]
      /\ \A x \in Cards : SoloCard(cards[x]) /\ cards[x] \in Card
  BY DEF TypeInv, TypeOK, SoloInv, SoloCards
<1>2. AtWork(p)
  BY DEF SoloInv, SoloPasses
<1>3. UNCHANGED <<handler, coord>> /\ \A q \in Passes : q # p => pass'[q] = pass[q]
  BY <1>1 DEF PassStep, Claim, StartPass, PassSlot, PassSaturated, PickCandidate, NoCandidate,
     ClaimCard, ClaimRaced, PassFail, PassLand, PassFinish, EndPass, Step
<1>4. ASSUME pass[p].pc \in {"run", "finish"}, NEW q \in Passes, q # p,
             pass[q].pc \in {"run", "finish"}, pass[q].card = c
      PROVE  FALSE
  <2>1. AtWork(q) /\ SoloCard(cards[c]) /\ c \in Cards
    BY <1>1, <1>2, <1>4 DEF SoloInv, SoloPasses, AtWork
  <2>2. m \in cards[c].assignees /\ pass[q].member \in cards[c].assignees
    BY <1>2, <1>4, <2>1 DEF AtWork
  <2>3. m = pass[q].member
    BY <2>1, <2>2 DEF SoloCard, AtMostOne
  <2> QED BY <1>4, <2>3 DEF OneCardPerMember
<1>5. ASSUME EndPass(p) PROVE pass'[p].pc = "idle"
  BY <1>1, <1>5 DEF EndPass, NoPass
<1>6. CASE ClaimCard(p)
  <2> DEFINE r == [cards[c] EXCEPT !.awaiting = @ \ {m}, !.running = @ \cup {m},
                                   !.status = "working"]
  <2>1. /\ c \in Cards /\ m \in cards[c].awaiting
        /\ cards[c].status \in {"queued", "working"}
    BY <1>2, <1>6 DEF ClaimCard, Claimable, AtWork
  <2>2. SoloCard(cards[c]) /\ cards[c].awaiting \cap cards[c].running = {}
    BY <1>1, <2>1 DEF CardsAtRest
  <2>3. cards[c].running = {} /\ cards[c].awaiting = {m} /\ m \in cards[c].assignees
    BY <2>1, <2>2 DEF SoloCard, AtMostOne
  <2>4. /\ r.status = "working" /\ r.assignees = cards[c].assignees /\ r.awaiting = {}
        /\ r.running = {m} /\ r.parts = cards[c].parts /\ r.revs = cards[c].revs
        /\ r.approved = cards[c].approved
    BY <1>1, <2>1, <2>3 DEF Card
  <2>5. cards' = [cards EXCEPT ![c] = r]
    BY <1>6, <2>1 DEF ClaimCard, Write, Exists
  <2>6. pass'[p].pc = "run" /\ pass'[p].card = c /\ pass'[p].member = m
    BY <1>1, <1>6 DEF ClaimCard, Step, Pass
  <2>7. ASSUME NEW q \in Passes, q # p, pass[q].pc \in {"run", "finish"} PROVE pass[q].card # c
    <3>1. AtWork(q)
      BY DEF SoloInv, SoloPasses
    <3> QED BY <2>1, <2>7, <3>1 DEF AtWork
  <2>8. cards'[c] = r
    BY <1>1, <2>1, <2>5
  <2> HIDE DEF r, c, m
  <2>9. SoloCard(r) /\ Moves(cards[c], r)
    BY <2>1, <2>2, <2>3, <2>4 DEF SoloCard, Moves, Turns, Unmoved
  <2>10. AtWork(p)'
    BY <2>1, <2>3, <2>4, <2>6, <2>8 DEF AtWork
  <2> QED BY <1>3, <2>1, <2>5, <2>7, <2>9, <2>10, PassRewrites
<1>7. CASE PassFail(p)
  <2> DEFINE r == BackToDraft(c)
  <2>1. c \in Cards /\ cards[c].status = "working"
    BY <1>2, <1>7 DEF PassFail, AtWork
  <2>2. /\ r.status = "draft" /\ r.assignees = cards[c].assignees /\ r.awaiting = {}
        /\ r.running = {} /\ r.parts = cards[c].parts /\ r.revs = cards[c].revs
        /\ r.approved = cards[c].approved
    BY <1>1, <2>1 DEF Card, BackToDraft
  <2>3. cards' = [cards EXCEPT ![c] = r]
    BY <1>7, <2>1 DEF PassFail, Write, Exists, InWork
  <2>4. pass'[p].pc = "idle" /\ pass[p].pc = "run"
    BY <1>5, <1>7 DEF PassFail
  <2>5. \A q \in Passes : q # p /\ pass[q].pc \in {"run", "finish"} => pass[q].card # c
    BY <1>4, <2>4
  <2>6. SoloCard(cards[c])
    BY <1>1, <2>1
  <2> HIDE DEF r, c
  <2>7. SoloCard(r) /\ Moves(cards[c], r)
    BY <2>1, <2>2, <2>6 DEF SoloCard, Moves, Turns
  <2>8. AtWork(p)'
    BY <2>4 DEF AtWork
  <2> QED BY <1>3, <2>1, <2>3, <2>5, <2>7, <2>8, PassRewrites
<1>8. CASE PassLand(p)
  <2> DEFINE r == Landed(c, m)
  <2>1. /\ c \in Cards /\ cards[c].status = "working" /\ cards[c].awaiting = {}
        /\ m \in cards[c].running /\ m \in cards[c].assignees
    BY <1>2, <1>8 DEF PassLand, AtWork
  <2>2. SoloCard(cards[c]) /\ cards[c].revs \in Nat /\ cards[c].approved \in Nat
    BY <1>1, <2>1 DEF Card
  <2>3. cards[c].running = {m}
    BY <2>1, <2>2 DEF SoloCard, AtMostOne
  <2>4. /\ r.status = "working" /\ r.assignees = cards[c].assignees /\ r.awaiting = {}
        /\ r.running = {} /\ r.parts = cards[c].parts /\ r.revs = cards[c].revs + 1
        /\ r.approved = cards[c].approved
    BY <1>1, <2>1, <2>3 DEF Card, Landed
  <2>5. cards' = [cards EXCEPT ![c] = r]
    BY <1>8, <2>1 DEF PassLand, Write, Exists, InWork
  <2>6. pass'[p].pc = "finish" /\ pass'[p].card = c /\ pass'[p].member = m /\ pass[p].pc = "run"
    BY <1>1, <1>8 DEF PassLand, Step, Pass
  <2>7. \A q \in Passes : q # p /\ pass[q].pc \in {"run", "finish"} => pass[q].card # c
    BY <1>4, <2>6
  <2>8. cards'[c] = r
    BY <1>1, <2>1, <2>5
  <2> HIDE DEF r, c, m
  <2>9. r.approved < r.revs
    BY <2>2, <2>4 DEF SoloCard
  <2>10. SoloCard(r) /\ Moves(cards[c], r)
    BY <2>1, <2>2, <2>4, <2>9 DEF SoloCard, Moves
  <2>11. AtWork(p)'
    BY <2>1, <2>4, <2>6, <2>8, <2>9 DEF AtWork
  <2> QED BY <1>3, <2>1, <2>5, <2>7, <2>10, <2>11, PassRewrites
<1>9. CASE PassFinish(p)
  <2> DEFINE r == [cards[c] EXCEPT !.status = "review"]
  <2>1. /\ c \in Cards /\ cards[c].status = "working" /\ cards[c].awaiting = {}
        /\ cards[c].running = {} /\ cards[c].approved < cards[c].revs
    BY <1>2, <1>9 DEF PassFinish, AtWork
  <2>2. SoloCard(cards[c]) /\ cards[c].revs \in Nat /\ cards[c].approved \in Nat
    BY <1>1, <2>1 DEF Card
  <2>3. /\ r.status = "review" /\ r.assignees = cards[c].assignees
        /\ r.awaiting = cards[c].awaiting /\ r.running = cards[c].running
        /\ r.parts = cards[c].parts /\ r.revs = cards[c].revs /\ r.approved = cards[c].approved
    BY <1>1, <2>1 DEF Card
  <2>4. cards' = [cards EXCEPT ![c] = r]
    BY <1>9, <2>1, <2>2
    DEF PassFinish, Write, Exists, ReadyForReview, InWork, AllLanded, SoloCard
  <2>5. pass'[p].pc = "idle" /\ pass[p].pc = "finish"
    BY <1>5, <1>9 DEF PassFinish
  <2>6. \A q \in Passes : q # p /\ pass[q].pc \in {"run", "finish"} => pass[q].card # c
    BY <1>4, <2>5
  <2> HIDE DEF r, c
  <2>7. SoloCard(r) /\ Moves(cards[c], r)
    BY <2>1, <2>2, <2>3 DEF SoloCard, Moves
  <2>8. AtWork(p)'
    BY <2>5 DEF AtWork
  <2> QED BY <1>3, <2>1, <2>4, <2>6, <2>7, <2>8, PassRewrites
<1>10. CASE \/ PassSlot(p) \/ PassSaturated(p) \/ NoCandidate(p) \/ ClaimRaced(p)
            \/ \E x \in Cards : PickCandidate(p, x)
            \/ \E x \in Members : StartPass(p, x)
  <2>1. UNCHANGED cards
    BY <1>10 DEF PassSlot, PassSaturated, NoCandidate, ClaimRaced, PickCandidate, StartPass
  <2>2. /\ pass'[p].pc \notin {"run", "finish"}
        /\ pass'[p].pc = "claim" => pass'[p].card \in Cards
    BY <1>1, <1>5, <1>10
    DEF PassSlot, PassSaturated, NoCandidate, ClaimRaced, PickCandidate, StartPass, Step, Pass
  <2>3. AtWork(p)'
    BY <2>2 DEF AtWork
  <2> QED BY <1>3, <2>1, <2>3, PassIdles
<1> QED BY <1>6, <1>7, <1>8, <1>9, <1>10 DEF PassStep, Claim

\* Nothing to split, nothing to combine: the coordinators stay idle.
LEMMA NothingToCoordinate ==
  ASSUME SoloInv, NEW g \in Coords
  PROVE  /\ ~CoordStep(g) /\ ~TakeLock(g)
         /\ ~\E k \in Kinds, c \in Cards : FindDue(g, k, c)
<1>1. coord[g].pc = "idle"
  BY DEF SoloInv
<1>2. ~CoordStep(g) /\ ~TakeLock(g)
  BY <1>1 DEF CoordStep, TakeLock, CoordSlot, CoordSaturated, CoordStart, SplitDone, SplitFail,
     CombineDone, CombineFail
<1>3. ASSUME NEW c \in Cards PROVE ~NeedsSplit(c) /\ ~NeedsCombine(c)
  <2>1. SoloCard(cards[c])
    BY DEF SoloInv, SoloCards
  <2>2. CASE cards[c].assignees = {}
    BY <2>1, <2>2, FS_EmptySet DEF NeedsSplit, NeedsCombine, SoloCard
  <2>3. CASE cards[c].assignees # {}
    <3>1. PICK m \in cards[c].assignees : TRUE
      BY <2>3
    <3>2. cards[c].assignees = {m}
      BY <2>1, <3>1 DEF SoloCard, AtMostOne
    <3>3. Cardinality({m}) = 1
      BY FS_Singleton
    <3> QED BY <2>1, <3>2, <3>3 DEF NeedsSplit, NeedsCombine, SoloCard
  <2> QED BY <2>2, <2>3
<1> QED BY <1>2, <1>3 DEF FindDue

\* Every step keeps the invariant and is a step of the board, or none.
LEMMA StepSolo ==
  ASSUME OneRequest, Solo, NobodyFired, TypeInv, TypeInv', CardsAtRest, OneCardPerMember, SoloInv,
         [Next]_vars
  PROVE  SoloInv' /\ [Board!Next]_(Board!vars)
<1>1. CASE UNCHANGED vars
  <2>1. SoloInv'
    BY <1>1 DEF vars, SoloInv, SoloCards, SoloPasses, AtWork, SoloRequests, Pending
  <2>2. Board!vars' = Board!vars
    BY <1>1 DEF vars, Board!vars
  <2> QED BY <2>1, <2>2
<1>2. CASE Crash
  <2>1. /\ UNCHANGED cards /\ \A x \in Actors : handler'[x] = NoRequest
        /\ \A p \in Passes : pass'[p] = NoPass
        /\ \A g \in Coords : coord'[g] = NoCoord
    BY <1>2 DEF Crash
  <2>2. SoloCards' /\ SoloPasses' /\ (\A g \in Coords : coord[g].pc = "idle")'
    BY <2>1 DEF SoloInv, SoloCards, SoloPasses, AtWork, NoPass, NoCoord
  <2>3. SoloRequests'
    BY <2>1 DEF SoloRequests, Pending, NoRequest, Actors
  <2>4. Board!vars' = Board!vars
    BY <2>1 DEF Board!vars
  <2> QED BY <2>2, <2>3, <2>4 DEF SoloInv
<1>3. ASSUME NEW k \in Kinds, NEW c \in Cards, LockExpires(c, k)
      PROVE  SoloInv' /\ [Board!Next]_(Board!vars)
  <2>1. cards[c] \in Card /\ cards \in [Cards -> Card] /\ SoloCard(cards[c])
    BY DEF TypeInv, TypeOK, SoloInv, SoloCards
  <2>2. UNCHANGED <<handler, pass, coord>>
    BY <1>3 DEF LockExpires
  <2>3. /\ \A x \in Cards : x # c => cards'[x] = cards[x]
        /\ cards'[c] = cards[c] \/ cards'[c] = SetLock(c, k, "stale")
    BY <1>3, <2>1 DEF LockExpires, Write
  <2>4. Alike(cards[c], cards'[c])
    BY <2>1, <2>3 DEF SetLock, Alike, Unmoved, Card
  <2>5. SoloCard(cards'[c])
    BY <2>1, <2>4 DEF SoloCard, Alike, Unmoved
  <2>6. Rewrites(c)
    BY <2>2, <2>3, <2>4, <2>5 DEF Rewrites, Moves, Alike
  <2>7. Tick \in Actors /\ Pending(Tick) /\ handler[Tick].pc \in {"idle", "requeue", "retire"}
    BY DEF SoloInv, SoloRequests, Actors
  <2>8. Pending(Tick)'
    BY <2>2, <2>3, <2>4, <2>7, PendingStays
  <2> QED BY <2>2, <2>4, <2>6, <2>7, <2>8, SweepRewrites
<1> QED
  BY <1>1, <1>2, <1>3, UserSolo, RequestStepSolo, SweepSolo, PassSolo, NothingToCoordinate DEF Next

\* What holds of every state of a board whose cards have one assignee.
LEMMA SoloHolds ==
  ASSUME OneRequest, Solo, NobodyFired
  PROVE  Spec => []SoloInv /\ [][[Board!Next]_(Board!vars)]_vars
<1>1. Init => SoloInv
  BY DEF Init, SoloInv, SoloCards, SoloCard, SoloPasses, AtWork, SoloRequests, Pending, NoCard,
     NoRequest, NoPass, NoCoord, AtMostOne, Actors
<1>2. Spec => []TypeInv
  BY InitTypeInv, NextTypeInv, PTL DEF Spec
<1>3. TypeInv /\ TypeInv' /\ CardsAtRest /\ OneCardPerMember /\ SoloInv /\ [Next]_vars
        => SoloInv' /\ [Board!Next]_(Board!vars)
  BY StepSolo
<1> QED BY <1>1, <1>2, <1>3, CardsAtRestHolds, OneCardPerMemberHolds, PTL DEF Spec

\* The pipeline is the board its owner sees (CrewBoard), when cards have one assignee, requests come
\* one at a time and nobody is fired: whatever passes, pauses, the calendar and crashes do, each
\* step is a move the owner, an agent or the calendar may make, or none.
THEOREM PipelineIsBoard ==
  ASSUME OneRequest, Solo, NobodyFired
  PROVE  Spec => BoardSpec
<1>1. Init => Board!Init
  BY DEF Init, Board!Init, NoCard
<1>2. SoloInv /\ [[Board!Next]_(Board!vars)]_vars => [Board!Next]_(Board!vars)
  <2> SUFFICES ASSUME UNCHANGED vars PROVE Board!vars' = Board!vars
    OBVIOUS
  <2> QED BY DEF vars, Board!vars
<1> QED BY <1>1, <1>2, SoloHolds, PTL DEF Spec, BoardSpec, Board!Spec

-----------------------------------------------------------------------------
(* Dependencies.  They are those the card was created with, of cards that  *)
(* existed then, and a member starts on the card when they are done.       *)

\* What no step but a creation, a deletion and a claim does to a card.
SameCard(s, r) ==
  /\ r.deps = s.deps /\ (r.repeat => s.repeat) /\ r.running \subseteq s.running
  /\ (s.status # "none" => r.status # "none") /\ (s.status = "gone" => r.status = "gone")
Created(c) ==
  /\ cards[c].status = "none" /\ cards'[c].running = {}
  /\ cards'[c].deps = {d \in Deps[c] : Exists(d)}
  /\ cards'[c].repeat => c \in Recurring
Deleted(c) ==
  /\ cards'[c].running = {} /\ cards'[c].deps = {} /\ ~cards'[c].repeat
  /\ cards'[c].status = "gone"

\* An update of one card.
LEMMA WriteSame ==
  ASSUME cards \in [Cards -> Card], NEW c, NEW f, NEW r, Write(c, f, r),
         c \in Cards /\ Exists(c) => SameCard(cards[c], r)
  PROVE  \A x \in Cards : SameCard(cards[x], cards'[x])
  BY DEF Write, SameCard

\* A lock.
LEMMA LockSame ==
  ASSUME cards \in [Cards -> Card], NEW c, NEW f, NEW k, NEW l, Write(c, f, SetLock(c, k, l))
  PROVE  \A x \in Cards : SameCard(cards[x], cards'[x])
<1>1. c \in Cards /\ Exists(c) => SameCard(cards[c], SetLock(c, k, l))
  BY DEF SameCard, SetLock, Card, Exists
<1> QED BY <1>1, WriteSame

\* A request, or the calendar.
LEMMA RequestSame ==
  ASSUME TypeInv, \/ \E h \in Handlers : UserRequest(h) \/ RequestStep(h)
                  \/ Sweep
  PROVE  \A x \in Cards : SameCard(cards[x], cards'[x]) \/ Created(x) \/ Deleted(x)
<1>1. cards \in [Cards -> Card] /\ \A x \in Cards : cards[x] \in Card
  BY DEF TypeInv, TypeOK
<1>2. ASSUME NEW a, NEW pc, NEW c \in Cards, NEW who, NEW round, Read(a, pc, c, who, round)
      PROVE  \A x \in Cards : SameCard(cards[x], cards'[x])
  BY <1>1, <1>2 DEF Read, SameCard, Card
<1>3. ASSUME UNCHANGED cards PROVE \A x \in Cards : SameCard(cards[x], cards'[x])
  BY <1>3 DEF SameCard
<1>4. ASSUME NEW h \in Handlers, NEW c \in Cards, NEW team \in Teams, CreateCard(h, c, team)
      PROVE  \A x \in Cards : SameCard(cards[x], cards'[x]) \/ Created(x)
  BY <1>1, <1>4 DEF CreateCard, SameCard, Created, NoCard
<1>5. ASSUME NEW h \in Handlers, NEW c \in Cards, NEW team \in Teams, UpdateDraft(h, c, team)
      PROVE  \A x \in Cards : SameCard(cards[x], cards'[x])
  <2>1. Exists(c) => SameCard(cards[c], [cards[c] EXCEPT !.assignees = team, !.legacy = "empty"])
    BY <1>1 DEF SameCard, Card, Exists
  <2> QED BY <1>1, <1>5, <2>1, WriteSame DEF UpdateDraft
<1>6. ASSUME NEW h \in Handlers, NEW c \in Cards, DeleteCard(h, c)
      PROVE  \A x \in Cards : SameCard(cards[x], cards'[x]) \/ Deleted(x)
  BY <1>1, <1>6 DEF DeleteCard, Write, SameCard, Deleted, NoCard
<1>7. ASSUME NEW h \in Handlers, NEW c \in Cards, UnqueueCard(h, c)
      PROVE  \A x \in Cards : SameCard(cards[x], cards'[x])
  <2>1. Exists(c) => SameCard(cards[c], [cards[c] EXCEPT !.status = "draft", !.awaiting = {}])
    BY <1>1 DEF SameCard, Card, Exists
  <2> QED BY <1>1, <1>7, <2>1, WriteSame DEF UnqueueCard
<1>8. ASSUME NEW h \in Handlers, NEW m \in Members, FireMember(h, m)
      PROVE  \A x \in Cards : SameCard(cards[x], cards'[x])
  <2> TAKE x \in Cards
  <2>1. cards[x] \in Card
    BY <1>1
  <2>2. cards'[x] = IF m \in cards[x].assignees
                      THEN [cards[x] EXCEPT !.assignees = @ \ {m}, !.awaiting = @ \ {m},
                                            !.running = @ \ {m}]
                      ELSE cards[x]
    BY <1>8 DEF FireMember
  <2> QED BY <2>1, <2>2 DEF SameCard, Card
<1>9. ASSUME NEW h \in Handlers, UserRequest(h)
      PROVE  \A x \in Cards : SameCard(cards[x], cards'[x]) \/ Created(x) \/ Deleted(x)
  <2>1. ASSUME NEW m, NEW s, SetMemberStatus(h, m, s) PROVE UNCHANGED cards
    BY <2>1 DEF SetMemberStatus
  <2>2. ASSUME NEW c \in Cards, PromoteRead(h, c) \/ ApproveRead(h, c) \/ ChangesRead(h, c)
        PROVE  \A x \in Cards : SameCard(cards[x], cards'[x])
    BY <1>2, <2>2 DEF PromoteRead, ApproveRead, ChangesRead
  <2> QED BY <1>3, <1>4, <1>5, <1>6, <1>7, <1>8, <1>9, <2>1, <2>2 DEF UserRequest
<1>10. ASSUME NEW h \in Handlers, RequestStep(h) PROVE \A x \in Cards : SameCard(cards[x], cards'[x])
  <2> DEFINE c == handler[h].card
  <2>1. CASE PromoteWrite(h)
    <3> DEFINE r == [cards[c] EXCEPT !.status = "queued", !.awaiting = handler[h].who,
                                     !.running = {}, !.assignees = handler[h].ids]
    <3>1. c \in Cards /\ Exists(c) => SameCard(cards[c], r)
      BY <1>1 DEF SameCard, Card, Exists
    <3>2. Write(c, TRUE, r)
      BY <2>1 DEF PromoteWrite
    <3> HIDE DEF r, c
    <3> QED BY <1>1, <3>1, <3>2, WriteSame
  <2>2. CASE ApproveWrite(h)
    <3> DEFINE r == [cards[c] EXCEPT !.status = "done", !.approved = handler[h].last,
                                     !.due = @ \/ cards[c].repeat, !.combineLock = "free"]
    <3>1. c \in Cards /\ Exists(c) => SameCard(cards[c], r)
      BY <1>1 DEF SameCard, Card, Exists
    <3>2. Write(c, TRUE, r)
      BY <2>2 DEF ApproveWrite
    <3> HIDE DEF r, c
    <3> QED BY <1>1, <3>1, <3>2, WriteSame
  <2>3. CASE ChangesWrite(h)
    <3> DEFINE r == [cards[c] EXCEPT !.status = "queued", !.awaiting = handler[h].who,
                                     !.running = {},
                                     !.approved = IF @ = handler[h].last THEN 0 ELSE @,
                                     !.combineLock = "free"]
    <3>1. c \in Cards /\ Exists(c) => SameCard(cards[c], r)
      BY <1>1 DEF SameCard, Card, Exists
    <3>2. Write(c, TRUE, r)
      BY <2>3 DEF ChangesWrite
    <3> HIDE DEF r, c
    <3> QED BY <1>1, <3>1, <3>2, WriteSame
  <2>4. CASE FireFallback(h)
    <3> TAKE x \in Cards
    <3>1. \/ cards[x].status \in {"queued", "working"} /\ cards'[x] = BackToDraft(x)
          \/ cards'[x] = cards[x]
      BY <2>4 DEF FireFallback
    <3> QED BY <1>1, <3>1 DEF BackToDraft, SameCard, Card
  <2>5. CASE FireDelete(h)
    BY <1>3, <2>5 DEF FireDelete
  <2> QED BY <1>10, <2>1, <2>2, <2>3, <2>4, <2>5 DEF RequestStep
<1>11. ASSUME Sweep PROVE \A x \in Cards : SameCard(cards[x], cards'[x])
  <2> DEFINE c == handler[Tick].card
  <2>1. CASE RequeueWrite
    <3> DEFINE r == [cards[c] EXCEPT !.status = "queued", !.awaiting = handler[Tick].who,
                                     !.running = {}, !.due = FALSE, !.combineLock = "free"]
    <3>1. c \in Cards /\ Exists(c) => SameCard(cards[c], r)
      BY <1>1 DEF SameCard, Card, Exists
    <3>2. Write(c, cards[c].status = "done", r)
      BY <2>1 DEF RequeueWrite
    <3> HIDE DEF r, c
    <3> QED BY <1>1, <3>1, <3>2, WriteSame
  <2>2. CASE RetireWrite
    <3> DEFINE r == [cards[c] EXCEPT !.repeat = FALSE, !.due = FALSE]
    <3>1. c \in Cards /\ Exists(c) => SameCard(cards[c], r)
      BY <1>1 DEF SameCard, Card, Exists
    <3>2. Write(c, TRUE, r)
      BY <2>2 DEF RetireWrite
    <3> HIDE DEF r, c
    <3> QED BY <1>1, <3>1, <3>2, WriteSame
  <2>3. ASSUME NEW x \in Cards, RequeueRead(x) \/ RetireRead(x)
        PROVE  \A y \in Cards : SameCard(cards[y], cards'[y])
    BY <1>2, <2>3 DEF RequeueRead, RetireRead
  <2> QED BY <1>11, <2>1, <2>2, <2>3 DEF Sweep, SweepWrite
<1> QED BY <1>9, <1>10, <1>11

\* The worker, its coordinators, locks that expire, and crashes.
LEMMA WorkerSame ==
  ASSUME TypeInv,
         \/ \E p \in Passes : PassStep(p) \/ ClaimRaced(p) \/ \E m \in Members : StartPass(p, m)
         \/ \E g \in Coords : \/ CoordStep(g) \/ TakeLock(g)
                             \/ \E k \in Kinds, c \in Cards : FindDue(g, k, c)
         \/ \E k \in Kinds, c \in Cards : LockExpires(c, k)
         \/ Crash
  PROVE  \A x \in Cards : SameCard(cards[x], cards'[x])
<1>1. cards \in [Cards -> Card] /\ \A x \in Cards : cards[x] \in Card
  BY DEF TypeInv, TypeOK
<1>2. ASSUME UNCHANGED cards PROVE \A x \in Cards : SameCard(cards[x], cards'[x])
  BY <1>2 DEF SameCard
<1>4. ASSUME NEW p \in Passes, PassStep(p) \/ ClaimRaced(p) \/ \E m \in Members : StartPass(p, m)
      PROVE  \A x \in Cards : SameCard(cards[x], cards'[x])
  <2> DEFINE c == pass[p].card
  <2>1. CASE PassFail(p)
    <3>1. c \in Cards /\ Exists(c) => SameCard(cards[c], BackToDraft(c))
      BY <1>1 DEF BackToDraft, SameCard, Card, Exists
    <3> QED BY <1>1, <2>1, <3>1, WriteSame DEF PassFail
  <2>2. CASE PassLand(p)
    <3>1. c \in Cards /\ Exists(c) => SameCard(cards[c], Landed(c, pass[p].member))
      BY <1>1 DEF Landed, SameCard, Card, Exists
    <3> QED BY <1>1, <2>2, <3>1, WriteSame DEF PassLand
  <2>3. CASE PassFinish(p)
    <3>1. c \in Cards /\ Exists(c) => SameCard(cards[c], [cards[c] EXCEPT !.status = "review"])
      BY <1>1 DEF SameCard, Card, Exists
    <3> QED BY <1>1, <2>3, <3>1, WriteSame DEF PassFinish
  <2>4. CASE UNCHANGED cards
    BY <1>2, <2>4
  <2> QED
    BY <1>4, <2>1, <2>2, <2>3, <2>4
    DEF PassStep, PassSlot, PassSaturated, PickCandidate, NoCandidate, ClaimRaced, StartPass
<1>5. ASSUME NEW g \in Coords,
             \/ CoordStep(g) \/ TakeLock(g)
             \/ \E k \in Kinds, c \in Cards : FindDue(g, k, c)
      PROVE  \A x \in Cards : SameCard(cards[x], cards'[x])
  <2> DEFINE c == coord[g].card
  <2>1. TakeLock(g) \/ CoordSaturated(g) \/ CoordStart(g) =>
          \E f, k, l : Write(c, f, SetLock(c, k, l))
    BY DEF TakeLock, CoordSaturated, CoordStart
  <2>2. CASE \E f, k, l : Write(c, f, SetLock(c, k, l))
    BY <1>1, <2>2, LockSame
  <2>3. CASE SplitDone(g)
    <3> DEFINE r == [cards[c] EXCEPT !.parts = Briefed(g), !.splitLock = "free"]
    <3>1. c \in Cards /\ Exists(c) => SameCard(cards[c], r)
      BY <1>1 DEF SameCard, Card, Exists
    <3>2. Write(c, TRUE, r)
      BY <2>3 DEF SplitDone
    <3> HIDE DEF r, c
    <3> QED BY <1>1, <3>1, <3>2, WriteSame
  <2>4. CASE SplitFail(g)
    <3> DEFINE r == [BackToDraft(c) EXCEPT !.splitLock = "free"]
    <3>1. c \in Cards /\ Exists(c) => SameCard(cards[c], r)
      BY <1>1 DEF BackToDraft, SameCard, Card, Exists
    <3>2. Write(c, TRUE, r)
      BY <2>4 DEF SplitFail
    <3> HIDE DEF r, c
    <3> QED BY <1>1, <3>1, <3>2, WriteSame
  <2>5. CASE CombineDone(g)
    <3> DEFINE r == [cards[c] EXCEPT !.status = "review", !.revs = @ + 1, !.cycle = {}]
    <3>1. c \in Cards /\ Exists(c) => SameCard(cards[c], r)
      BY <1>1 DEF SameCard, Card, Exists
    <3>2. Write(c, InWork(c), r)
      BY <2>5 DEF CombineDone
    <3> HIDE DEF r, c
    <3> QED BY <1>1, <3>1, <3>2, WriteSame
  <2>6. CASE CombineFail(g)
    <3> DEFINE r == [cards[c] EXCEPT !.status = "review"]
    <3>1. c \in Cards /\ Exists(c) => SameCard(cards[c], r)
      BY <1>1 DEF SameCard, Card, Exists
    <3>2. Write(c, TRUE, r)
      BY <2>6 DEF CombineFail
    <3> HIDE DEF r, c
    <3> QED BY <1>1, <3>1, <3>2, WriteSame
  <2>7. CASE UNCHANGED cards
    BY <1>2, <2>7
  <2> QED
    BY <1>5, <2>1, <2>2, <2>3, <2>4, <2>5, <2>6, <2>7 DEF CoordStep, CoordSlot, FindDue
<1>6. ASSUME NEW k \in Kinds, NEW c \in Cards, LockExpires(c, k)
      PROVE  \A x \in Cards : SameCard(cards[x], cards'[x])
  BY <1>1, <1>6, LockSame DEF LockExpires
<1>7. Crash => UNCHANGED cards
  BY DEF Crash
<1> QED BY <1>2, <1>4, <1>5, <1>6, <1>7

\* A claim adds its member to its card.
LEMMA ClaimSame ==
  ASSUME TypeInv, NEW p \in Passes, ClaimCard(p)
  PROVE  /\ \A x \in Cards : x # pass[p].card => cards'[x] = cards[x]
         /\ pass[p].card \in Cards =>
              /\ cards[pass[p].card].status \in {"queued", "working"}
              /\ cards'[pass[p].card].deps = cards[pass[p].card].deps
              /\ cards'[pass[p].card].repeat = cards[pass[p].card].repeat
              /\ cards'[pass[p].card].status = "working"
  BY DEF TypeInv, TypeOK, ClaimCard, Claimable, Write, Exists, Card

\* The dependencies of a card were there when it was created, and a recurring card was created so.
DepsKnown ==
  \A c \in Cards :
    /\ cards[c].deps \subseteq Deps[c]
    /\ \A d \in cards[c].deps : cards[d].status # "none"
    /\ cards[c].repeat => c \in Recurring

\* Creation sets them, and nothing but a deletion changes them.
LEMMA DepsKnownStep ==
  ASSUME TypeInv, DepsKnown, [Next]_vars
  PROVE  DepsKnown'
<1>1. \A c \in Cards : cards[c].deps \subseteq Cards /\ Deps[c] \subseteq Cards
  BY ConstantsAssumption DEF TypeInv, TypeOK, Card
<1>2. ASSUME \A x \in Cards : SameCard(cards[x], cards'[x]) \/ Created(x) \/ Deleted(x)
      PROVE  DepsKnown'
  <2>1. \A x \in Cards : cards[x].status # "none" => cards'[x].status # "none"
    BY <1>2 DEF SameCard, Created, Deleted
  <2> SUFFICES ASSUME NEW c \in Cards
               PROVE  /\ cards'[c].deps \subseteq Deps[c]
                      /\ \A d \in cards'[c].deps : cards'[d].status # "none"
                      /\ cards'[c].repeat => c \in Recurring
    BY DEF DepsKnown
  <2>2. CASE SameCard(cards[c], cards'[c])
    BY <1>1, <2>1, <2>2 DEF SameCard, DepsKnown
  <2>3. CASE Created(c)
    BY <1>1, <2>1, <2>3 DEF Created, Exists
  <2>4. CASE Deleted(c)
    BY <2>4 DEF Deleted
  <2> QED BY <1>2, <2>2, <2>3, <2>4
<1>3. ASSUME NEW p \in Passes, ClaimCard(p) PROVE DepsKnown'
  <2>1. ASSUME NEW x \in Cards
        PROVE  /\ cards'[x].deps = cards[x].deps /\ cards'[x].repeat = cards[x].repeat
               /\ cards[x].status # "none" => cards'[x].status # "none"
    BY <1>3, ClaimSame
  <2> QED BY <1>1, <2>1 DEF DepsKnown
<1>4. CASE UNCHANGED vars
  BY <1>4 DEF vars, DepsKnown
<1> QED BY <1>2, <1>3, <1>4, RequestSame, WorkerSame DEF Next, Claim

\* A card gets a member at work by a claim only.
ClaimsRespect ==
  \A c \in Cards :
    ~ (cards'[c].running \subseteq cards[c].running) =>
      \A d \in cards[c].deps : cards[d].status \in {"done", "gone"}

\* So a claim that has found its dependencies satisfied respects them.
LEMMA StartsByClaim ==
  ASSUME TypeInv, DepsKnown, Next,
         \A p \in Passes : pass[p].pc = "claim" /\ pass[p].card \in Cards =>
           DepsSatisfied(pass[p].card)
  PROVE  ClaimsRespect
<1>1. CASE \A x \in Cards : SameCard(cards[x], cards'[x]) \/ Created(x) \/ Deleted(x)
  BY <1>1 DEF SameCard, Created, Deleted, ClaimsRespect
<1>2. ASSUME NEW p \in Passes, ClaimCard(p) PROVE ClaimsRespect
  <2> SUFFICES ASSUME NEW c \in Cards, ~(cards'[c].running \subseteq cards[c].running),
                      NEW d \in cards[c].deps
               PROVE  cards[d].status \in {"done", "gone"}
    BY DEF ClaimsRespect
  <2>1. c = pass[p].card /\ pass[p].pc = "claim"
    BY <1>2, ClaimSame DEF ClaimCard
  <2>2. DepsSatisfied(c)
    BY <2>1
  <2>3. cards[d].status # "none"
    BY DEF DepsKnown
  <2> QED BY <2>2, <2>3 DEF DepsSatisfied, Exists
<1> QED BY <1>1, <1>2, RequestSame, WorkerSame DEF Next, Claim

\* No card that another one waits for comes round again.
NoRecurringDeps == \A c \in Cards : Deps[c] \cap Recurring = {}

\* What is done stays done, but for the calendar.
LEMMA DoneStays ==
  ASSUME TypeInv, SoloInv, Next, NEW d \in Cards, cards[d].status = "done",
         handler[Tick].pc = "requeue" => handler[Tick].card # d
  PROVE  cards'[d].status \in {"done", "gone"}
<1>1. cards \in [Cards -> Card] /\ cards[d] \in Card
  BY DEF TypeInv, TypeOK
<1>2. ASSUME NEW h, NEW pc, NEW c \in Cards, NEW who, NEW round, Read(h, pc, c, who, round)
      PROVE  cards'[d].status \in {"done", "gone"}
  BY <1>1, <1>2 DEF Read, Card
<1>3. ASSUME NEW h \in Handlers, UserRequest(h) PROVE cards'[d].status \in {"done", "gone"}
  <2>1. ASSUME NEW c \in Cards, NEW team \in Teams, CreateCard(h, c, team) \/ UpdateDraft(h, c, team)
        PROVE  cards'[d] = cards[d]
    BY <1>1, <2>1 DEF CreateCard, UpdateDraft, Write
  <2>2. ASSUME NEW c \in Cards, DeleteCard(h, c) PROVE cards'[d].status \in {"done", "gone"}
    BY <1>1, <2>2 DEF DeleteCard, Write, NoCard
  <2>3. ASSUME NEW c \in Cards, UnqueueCard(h, c) PROVE cards'[d] = cards[d]
    BY <1>1, <2>3 DEF UnqueueCard, Unclaimed, Write
  <2>4. ASSUME NEW c \in Cards, PromoteRead(h, c) \/ ApproveRead(h, c) \/ ChangesRead(h, c)
        PROVE  cards'[d].status \in {"done", "gone"}
    BY <1>2, <2>4 DEF PromoteRead, ApproveRead, ChangesRead
  <2>5. ASSUME NEW m \in Members, FireMember(h, m) PROVE cards'[d].status = "done"
    <3>1. cards'[d] = cards[d] \/ cards'[d] = [cards[d] EXCEPT !.assignees = @ \ {m},
                                                 !.awaiting = @ \ {m}, !.running = @ \ {m}]
      BY <2>5 DEF FireMember
    <3> QED BY <1>1, <3>1 DEF Card
  <2>6. ASSUME NEW m, NEW s, SetMemberStatus(h, m, s) PROVE cards'[d] = cards[d]
    BY <2>6 DEF SetMemberStatus
  <2> QED BY <1>3, <2>1, <2>2, <2>3, <2>4, <2>5, <2>6 DEF UserRequest
<1>4. ASSUME NEW h \in Handlers, RequestStep(h) PROVE cards'[d] = cards[d]
  <2>1. Pending(h)
    BY DEF SoloInv, SoloRequests, Actors
  <2>2. PromoteWrite(h) \/ ApproveWrite(h) \/ ChangesWrite(h)
    BY <1>4, <2>1 DEF RequestStep, FireFallback, FireDelete, Pending
  <2>3. handler[h].card # d
    BY <2>1, <2>2 DEF Pending, PromoteWrite, ApproveWrite, ChangesWrite
  <2> QED BY <1>1, <2>2, <2>3 DEF PromoteWrite, ApproveWrite, ChangesWrite, Write
<1>5. ASSUME Sweep PROVE cards'[d].status \in {"done", "gone"}
  <2>1. RequeueWrite => cards'[d] = cards[d]
    BY <1>1 DEF RequeueWrite, Write
  <2>2. RetireWrite => cards'[d].status = "done"
    BY <1>1 DEF RetireWrite, Write, Card
  <2>3. ASSUME NEW c \in Cards, RequeueRead(c) \/ RetireRead(c)
        PROVE  cards'[d].status \in {"done", "gone"}
    BY <1>2, <2>3 DEF RequeueRead, RetireRead
  <2> QED BY <1>5, <2>1, <2>2, <2>3 DEF Sweep, SweepWrite
<1>6. ASSUME NEW p \in Passes, PassStep(p) \/ Claim(p) \/ \E m \in Members : StartPass(p, m)
      PROVE  cards'[d] = cards[d]
  <2>1. CASE UNCHANGED cards
    BY <2>1
  <2>2. CASE ClaimCard(p)
    BY <1>1, <2>2 DEF ClaimCard, Claimable, Write
  <2>3. CASE PassFail(p) \/ PassLand(p) \/ PassFinish(p)
    BY <1>1, <2>3 DEF PassFail, PassLand, PassFinish, InWork, ReadyForReview, Write
  <2> QED
    BY <1>6, <2>1, <2>2, <2>3
    DEF PassStep, Claim, PassSlot, PassSaturated, PickCandidate, NoCandidate, ClaimRaced, StartPass
<1>7. ASSUME NEW k \in Kinds, NEW c \in Cards, LockExpires(c, k) PROVE cards'[d].status = "done"
  BY <1>1, <1>7 DEF LockExpires, Write, SetLock, Card
<1>8. Crash => cards'[d] = cards[d]
  BY DEF Crash
<1> QED BY <1>3, <1>4, <1>5, <1>6, <1>7, <1>8, NothingToCoordinate DEF Next

\* A pass is about to claim because it has just found its card.
LEMMA ClaimsAppear ==
  ASSUME TypeInv, NEW p \in Passes, Next, pass'[p].pc = "claim"
  PROVE  \/ pass[p].pc = "claim" /\ pass'[p] = pass[p]
         \/ \E c \in Cards : PickCandidate(p, c)
<1>1. pass \in [Passes -> Pass]
  BY DEF TypeInv, TypeOK
<1>2. CASE UNCHANGED pass
  BY <1>2
<1>3. CASE Crash
  BY <1>3 DEF Crash, NoPass
<1>4. ASSUME NEW q \in Passes, PassStep(q) \/ Claim(q) \/ \E m \in Members : StartPass(q, m)
      PROVE  \/ pass[p].pc = "claim" /\ pass'[p] = pass[p]
             \/ \E c \in Cards : PickCandidate(p, c)
  <2>1. q # p => pass'[p] = pass[p]
    BY <1>1, <1>4 DEF PassStep, Claim, StartPass, PassSlot, PassSaturated, PickCandidate,
       NoCandidate, ClaimCard, ClaimRaced, PassFail, PassLand, PassFinish, EndPass, Step
  <2>2. EndPass(p) => pass'[p].pc = "idle"
    BY <1>1 DEF EndPass, NoPass
  <2>3. ASSUME NEW pc, Step(p, pc) PROVE pass'[p].pc = pc
    BY <1>1, <2>3 DEF Step, Pass
  <2>4. (\E m \in Members : StartPass(p, m)) => pass'[p].pc = "slot"
    BY <1>1 DEF StartPass
  <2>5. ClaimRaced(p) => pass'[p].pc = "pick"
    BY <1>1 DEF ClaimRaced, Pass
  <2>6. PassSlot(p) \/ ClaimCard(p) \/ PassLand(p) => pass'[p].pc # "claim"
    BY <2>3 DEF PassSlot, ClaimCard, PassLand
  <2>7. PassSaturated(p) \/ NoCandidate(p) \/ PassFail(p) \/ PassFinish(p) => pass'[p].pc # "claim"
    BY <2>2 DEF PassSaturated, NoCandidate, PassFail, PassFinish
  <2> QED BY <1>4, <2>1, <2>4, <2>5, <2>6, <2>7 DEF PassStep, Claim
<1> QED BY <1>2, <1>3, <1>4, OthersLeavePasses DEF Next

\* The calendar is about to queue a card because it has just found it due.
LEMMA RequeueAppears ==
  ASSUME TypeInv, SoloInv, Next, handler'[Tick].pc = "requeue"
  PROVE  \/ handler[Tick].pc = "requeue" /\ handler'[Tick].card = handler[Tick].card
         \/ \E c \in Cards : RequeueRead(c) /\ handler'[Tick].card = c
<1>1. handler \in [Actors -> Request] /\ Tick \in Actors /\ Tick \notin Handlers
  BY ConstantsAssumption DEF TypeInv, TypeOK, Actors
<1>2. ASSUME NEW h \in Handlers, UserRequest(h) \/ RequestStep(h) PROVE handler'[Tick] = handler[Tick]
  <2>1. h # Tick
    BY <1>1
  <2>2. UserRequest(h) => handler'[Tick] = handler[Tick]
    BY <1>1, <2>1 DEF UserRequest, CreateCard, UpdateDraft, DeleteCard, UnqueueCard, SetMemberStatus,
       PromoteRead, ApproveRead, ChangesRead, FireMember, Read
  <2>3. RequestStep(h) => handler'[Tick] = handler[Tick]
    BY <1>1, <2>1 DEF RequestStep, PromoteWrite, ApproveWrite, ChangesWrite, FireFallback, FireDelete,
       Finish
  <2> QED BY <1>2, <2>2, <2>3
<1>3. ASSUME SweepWrite PROVE FALSE
  <2>1. Finish(Tick)
    BY <1>3 DEF SweepWrite, RequeueWrite, RetireWrite
  <2> QED BY <1>1, <2>1 DEF Finish, NoRequest
<1>4. ASSUME NEW c \in Cards, RetireRead(c) PROVE FALSE
  BY <1>1, <1>4 DEF RetireRead, Read
<1>5. ASSUME NEW c \in Cards, RequeueRead(c) PROVE handler'[Tick].card = c
  BY <1>1, <1>5 DEF RequeueRead, Read
<1>6. ASSUME \/ \E p \in Passes : PassStep(p) \/ Claim(p) \/ \E m \in Members : StartPass(p, m)
             \/ \E g \in Coords : \/ CoordStep(g) \/ TakeLock(g)
                                 \/ \E k \in Kinds, c \in Cards : FindDue(g, k, c)
             \/ \E k \in Kinds, c \in Cards : LockExpires(c, k)
      PROVE  UNCHANGED handler
  <2>1. \A p \in Passes :
          PassStep(p) \/ Claim(p) \/ (\E m \in Members : StartPass(p, m)) => UNCHANGED handler
    BY PassBackground
  <2>2. \A k \in Kinds, c \in Cards : LockExpires(c, k) => UNCHANGED handler
    BY DEF LockExpires
  <2> QED BY <1>6, <2>1, <2>2, NothingToCoordinate
<1>7. Crash => FALSE
  BY <1>1 DEF Crash, NoRequest
<1> QED BY <1>2, <1>3, <1>4, <1>5, <1>6, <1>7 DEF Next, Sweep

\* A pass about to claim has found the dependencies done, and they are still done.
WaitsForNone(c) == cards[c].status # "none" /\ DepsSatisfied(c)
ReadyToClaim(p) == pass[p].pc = "claim" => WaitsForNone(pass[p].card)
ClaimReady ==
  /\ \A p \in Passes : ReadyToClaim(p)
  /\ handler[Tick].pc = "requeue" => handler[Tick].card \in Recurring

\* Nothing that was done when a pass found its card is undone before it claims it.
LEMMA ClaimReadyStep ==
  ASSUME NoRecurringDeps, TypeInv, SoloInv, DepsKnown, ClaimReady, [Next]_vars
  PROVE  ClaimReady'
<1>1. /\ cards \in [Cards -> Card] /\ handler \in [Actors -> Request] /\ pass \in [Passes -> Pass]
      /\ Tick \in Actors /\ \A h \in Handlers : h # Tick /\ h \in Actors
      /\ \A c \in Cards : cards[c].deps \subseteq Cards
  BY ConstantsAssumption DEF TypeInv, TypeOK, Actors, Card
<1>2. ASSUME NEW c \in Cards, WaitsForNone(c), Next
      PROVE  WaitsForNone(c)'
  <2>1. \A x \in Cards : \/ SameCard(cards[x], cards'[x]) \/ Created(x) \/ Deleted(x)
                         \/ /\ cards'[x].deps = cards[x].deps /\ cards'[x].status = "working"
                            /\ cards[x].status \in {"queued", "working"}
    <3>1. ASSUME NEW p \in Passes, ClaimCard(p)
          PROVE  \A x \in Cards : \/ SameCard(cards[x], cards'[x])
                                  \/ /\ cards'[x].deps = cards[x].deps
                                     /\ cards'[x].status = "working"
                                     /\ cards[x].status \in {"queued", "working"}
      BY <3>1, ClaimSame DEF SameCard
    <3> QED BY <1>2, <3>1, RequestSame, WorkerSame DEF Next, Claim
  <2>2. cards'[c].deps \subseteq cards[c].deps /\ cards'[c].status # "none"
    BY <1>2, <2>1 DEF SameCard, Created, Deleted, WaitsForNone
  <2>3. ASSUME NEW d \in cards[c].deps PROVE cards'[d].status \in {"none", "done", "gone"}
    <3>1. d \in Cards /\ cards[d].status \in {"done", "gone"} /\ d \notin Recurring
      BY <1>1, <1>2, <2>3 DEF WaitsForNone, DepsSatisfied, Exists, DepsKnown, NoRecurringDeps
    <3>2. CASE cards[d].status = "done"
      <4>1. handler[Tick].pc = "requeue" => handler[Tick].card # d
        BY <3>1 DEF ClaimReady
      <4> QED BY <1>2, <3>1, <3>2, <4>1, DoneStays
    <3>3. cards[d].status = "gone" => cards'[d].status = "gone"
      BY <2>1, <3>1 DEF SameCard, Created, Deleted
    <3> QED BY <3>1, <3>2, <3>3
  <2> QED BY <2>2, <2>3 DEF WaitsForNone, DepsSatisfied, Exists
<1>3. ASSUME NEW p \in Passes, pass'[p].pc = "claim", Next
      PROVE  \E c \in Cards : pass'[p].card = c /\ WaitsForNone(c)'
  <2>1. CASE pass[p].pc = "claim" /\ pass'[p] = pass[p]
    <3>1. pass[p].card \in Cards
      BY <2>1 DEF SoloInv, SoloPasses, AtWork
    <3>2. WaitsForNone(pass[p].card)
      BY <2>1 DEF ClaimReady, ReadyToClaim
    <3> QED BY <1>2, <1>3, <2>1, <3>1, <3>2
  <2>2. ASSUME NEW c \in Cards, PickCandidate(p, c)
        PROVE  pass'[p].card = c /\ WaitsForNone(c)'
    <3>1. pass'[p].card = c /\ UNCHANGED cards
      BY <1>1, <2>2 DEF PickCandidate, Pass
    <3>2. WaitsForNone(c)
      BY <2>2 DEF PickCandidate, Candidate, WaitsForNone
    <3> QED BY <3>1, <3>2 DEF WaitsForNone, DepsSatisfied, Exists
  <2> QED BY <1>3, <2>1, <2>2, ClaimsAppear
<1>4. CASE Next
  <2>1. ASSUME handler'[Tick].pc = "requeue" PROVE handler'[Tick].card \in Recurring
    <3>1. \/ handler[Tick].pc = "requeue" /\ handler'[Tick].card = handler[Tick].card
          \/ \E c \in Cards : RequeueRead(c) /\ handler'[Tick].card = c
      BY <1>1, <1>4, <2>1, RequeueAppears
    <3> QED BY <3>1 DEF ClaimReady, DepsKnown, RequeueRead
  <2>2. ASSUME NEW p \in Passes PROVE ReadyToClaim(p)'
    BY <1>3, <1>4 DEF ReadyToClaim
  <2> QED BY <2>1, <2>2 DEF ClaimReady
<1>5. CASE UNCHANGED vars
  BY <1>5 DEF vars, ClaimReady, ReadyToClaim, WaitsForNone, DepsSatisfied, Exists
<1> QED BY <1>4, <1>5

\* ClaimNextCard: a member starts on a card only when what the card depends on is done, as long as
\* cards have one assignee, requests come one at a time, nobody is fired, and no card that another
\* waits for recurs: nothing done is undone between the Find and the claim.
THEOREM ClaimsRespectDepsHolds ==
  ASSUME OneRequest, Solo, NobodyFired, NoRecurringDeps
  PROVE  Spec => ClaimsRespectDeps
<1>1. Init => DepsKnown /\ ClaimReady
  BY DEF Init, DepsKnown, ClaimReady, ReadyToClaim, NoCard, NoPass, NoRequest, Actors
<1>2. Spec => []TypeInv
  BY InitTypeInv, NextTypeInv, PTL DEF Spec
<1>3. TypeInv /\ SoloInv /\ DepsKnown /\ ClaimReady /\ [Next]_vars => DepsKnown' /\ ClaimReady'
  BY DepsKnownStep, ClaimReadyStep
<1>4. TypeInv /\ DepsKnown /\ ClaimReady /\ [Next]_vars => [ClaimsRespect]_vars
  BY StartsByClaim DEF ClaimReady, ReadyToClaim, WaitsForNone, SoloInv, SoloPasses
<1>5. ClaimsRespectDeps <=> [][ClaimsRespect]_vars
  BY PTL DEF ClaimsRespectDeps, ClaimsRespect
<1> QED BY <1>1, <1>2, <1>3, <1>4, <1>5, SoloHolds, PTL DEF Spec

-----------------------------------------------------------------------------
(* When nobody comes between the worker's Find and its update (PromptSpec), *)
(* what the worker found is still true when it acts on it.                  *)

\* There is one Find at a time.
OneFind ==
  /\ \A p, q \in Passes : pass[p].pc = "claim" /\ pass[q].pc = "claim" => p = q
  /\ \A g, k \in Coords : coord[g].pc = "found" /\ coord[k].pc = "found" => g = k
  /\ \A p \in Passes, g \in Coords : ~(pass[p].pc = "claim" /\ coord[g].pc = "found")

FreshCandidate(p) ==
  pass[p].pc = "claim" => pass[p].card \in Cards /\ Candidate(pass[p].member, pass[p].card)
FreshDue(g) ==
  coord[g].pc = "found" =>
    /\ coord[g].card \in Cards
    /\ IF coord[g].kind = "split" THEN NeedsSplit(coord[g].card) ELSE NeedsCombine(coord[g].card)
PromptInv ==
  OneFind /\ (\A p \in Passes : FreshCandidate(p)) /\ (\A g \in Coords : FreshDue(g))

\* Every step of PromptNext is one of Next.
LEMMA PromptIsNext == [PromptNext]_vars => [Next]_vars
  BY DEF PromptNext, Next

\* A coordinator has found a card because it has just looked for it.
LEMMA FoundAppears ==
  ASSUME TypeInv, NEW g \in Coords, Next, coord'[g].pc = "found"
  PROVE  \/ coord[g].pc = "found" /\ coord'[g] = coord[g]
         \/ \E k \in Kinds, c \in Cards : FindDue(g, k, c)
<1>1. coord \in [Coords -> Coord]
  BY DEF TypeInv, TypeOK
<1>2. CASE UNCHANGED coord
  BY <1>2
<1>3. CASE Crash
  BY <1>3 DEF Crash, NoCoord
<1>4. ASSUME NEW x \in Coords, CoordStep(x) \/ TakeLock(x)
      PROVE  coord[g].pc = "found" /\ coord'[g] = coord[g]
  <2>1. ASSUME coord' = [coord EXCEPT ![x] = NoCoord]
        PROVE  coord'[x].pc # "found" /\ \A y \in Coords : y # x => coord'[y] = coord[y]
    BY <1>1, <2>1 DEF NoCoord
  <2>2. ASSUME NEW s, NEW pc \in {"slot", "start", "run"},
               coord' = [coord EXCEPT ![x] = [@ EXCEPT !.pc = pc, !.snap = s]]
        PROVE  coord'[x].pc # "found" /\ \A y \in Coords : y # x => coord'[y] = coord[y]
    BY <1>1, <2>2 DEF Coord
  <2>3. coord'[x].pc # "found" /\ \A y \in Coords : y # x => coord'[y] = coord[y]
    <3>1. CASE CoordSlot(x)
      BY <1>1, <3>1 DEF CoordSlot, Coord
    <3>2. CASE CoordStart(x)
      <4> DEFINE some == IF coord[x].kind = "split"
                          THEN Cardinality({m \in coord[x].snap : member[m] # "fired"}) > 1
                          ELSE coord[x].snap # {}
      <4>1. coord' = [coord EXCEPT ![x] = IF some THEN [@ EXCEPT !.pc = "run",
                        !.snap = IF coord[x].kind = "split" THEN {m \in coord[x].snap : member[m] # "fired"}
                                                            ELSE coord[x].snap] ELSE NoCoord]
        BY <3>2, Zenon DEF CoordStart
      <4> HIDE DEF some
      <4>2. CASE some
        BY <2>2, <4>1, <4>2
      <4>3. CASE ~ some
        BY <2>1, <4>1, <4>3
      <4> QED BY <4>2, <4>3
    <3>3. CASE CoordSaturated(x) \/ SplitDone(x) \/ SplitFail(x) \/ CombineDone(x) \/ CombineFail(x)
      <4>1. EndCoord(x)
        BY <3>3 DEF CoordSaturated, SplitDone, SplitFail, CombineDone, CombineFail
      <4> QED BY <2>1, <4>1 DEF EndCoord
    <3>4. CASE TakeLock(x)
      BY <1>1, <3>4 DEF TakeLock, NoCoord, Coord
    <3> QED BY <1>4, <3>1, <3>2, <3>3, <3>4 DEF CoordStep
  <2> QED BY <2>3
<1>5. ASSUME NEW x \in Coords, NEW k \in Kinds, NEW c \in Cards, FindDue(x, k, c)
      PROVE  x = g \/ (coord[g].pc = "found" /\ coord'[g] = coord[g])
  BY <1>1, <1>5 DEF FindDue
<1>6. ASSUME \/ \E h \in Handlers : UserRequest(h) \/ RequestStep(h)
             \/ Sweep
             \/ \E p \in Passes : PassStep(p) \/ Claim(p) \/ \E m \in Members : StartPass(p, m)
             \/ \E k \in Kinds, c \in Cards : LockExpires(c, k)
      PROVE  UNCHANGED coord
  <2>1. ASSUME NEW h \in Handlers, UserRequest(h) \/ RequestStep(h) PROVE UNCHANGED coord
    BY <2>1 DEF UserRequest, CreateCard, UpdateDraft, DeleteCard, UnqueueCard, SetMemberStatus,
       PromoteRead, ApproveRead, ChangesRead, FireMember, Read,
       RequestStep, PromoteWrite, ApproveWrite, ChangesWrite, FireFallback, FireDelete
  <2>2. Sweep => UNCHANGED coord
    BY DEF Sweep, SweepWrite, RequeueWrite, RetireWrite, RequeueRead, RetireRead, Read
  <2>3. ASSUME NEW p \in Passes, PassStep(p) \/ Claim(p) \/ \E m \in Members : StartPass(p, m)
        PROVE  UNCHANGED coord
    BY <2>3 DEF PassStep, Claim, StartPass, PassSlot, PassSaturated, PickCandidate, NoCandidate,
       ClaimCard, ClaimRaced, PassFail, PassLand, PassFinish
  <2>4. ASSUME NEW k \in Kinds, NEW c \in Cards, LockExpires(c, k) PROVE UNCHANGED coord
    BY <2>4 DEF LockExpires
  <2> QED BY <1>6, <2>1, <2>2, <2>3, <2>4
<1> QED BY <1>2, <1>3, <1>4, <1>5, <1>6 DEF Next

\* What is found stays fresh, since nobody else acts before the finder.
LEMMA PromptStep ==
  ASSUME TypeInv, PromptInv, [PromptNext]_vars
  PROVE  PromptInv'
<1>1. pass \in [Passes -> Pass] /\ coord \in [Coords -> Coord]
  BY DEF TypeInv, TypeOK
<1>2. ASSUME \A p \in Passes : pass'[p].pc # "claim", \A g \in Coords : coord'[g].pc # "found"
      PROVE  PromptInv'
  BY <1>2 DEF PromptInv, OneFind, FreshCandidate, FreshDue
<1>3. ASSUME NoFind, Next, NEW p \in Passes, NEW c \in Cards, PickCandidate(p, c) PROVE PromptInv'
  <2>1. /\ pass'[p].card = c /\ pass'[p].member = pass[p].member /\ UNCHANGED <<cards, coord>>
        /\ \A q \in Passes : q # p => pass'[q] = pass[q]
        /\ Candidate(pass[p].member, c)
    BY <1>1, <1>3 DEF PickCandidate, Pass
  <2>2. /\ \A q \in Passes : pass[q].pc # "claim"
        /\ \A g \in Coords : coord[g].pc # "found"
    BY <1>3 DEF NoFind, NoScan
  <2>3. FreshCandidate(p)'
    BY <2>1 DEF FreshCandidate, Candidate, DepsSatisfied, Exists
  <2>4. \A q \in Passes : q # p => FreshCandidate(q)'
    BY <2>1, <2>2 DEF FreshCandidate
  <2> QED BY <2>1, <2>2, <2>3, <2>4 DEF PromptInv, OneFind, FreshDue
<1>4. ASSUME NoFind, Next, NEW g \in Coords, NEW k \in Kinds, NEW c \in Cards, FindDue(g, k, c)
      PROVE  PromptInv'
  <2>1. /\ coord'[g].card = c /\ coord'[g].kind = k /\ UNCHANGED <<cards, pass>>
        /\ \A x \in Coords : x # g => coord'[x] = coord[x]
        /\ IF k = "split" THEN NeedsSplit(c) ELSE NeedsCombine(c)
    BY <1>1, <1>4 DEF FindDue, Coord
  <2>2. /\ \A q \in Passes : pass[q].pc # "claim"
        /\ \A x \in Coords : coord[x].pc # "found"
    BY <1>4 DEF NoFind, NoScan
  <2>3. FreshDue(g)'
    BY <2>1 DEF FreshDue, NeedsSplit, NeedsCombine, InWork, AllLanded
  <2>4. \A x \in Coords : x # g => FreshDue(x)'
    BY <2>1, <2>2 DEF FreshDue
  <2> QED BY <2>1, <2>2, <2>3, <2>4 DEF PromptInv, OneFind, FreshCandidate
<1>5. CASE NoFind /\ Next
  <2>1. CASE \E p \in Passes, c \in Cards : PickCandidate(p, c)
    BY <1>3, <1>5, <2>1
  <2>2. CASE \E g \in Coords, k \in Kinds, c \in Cards : FindDue(g, k, c)
    BY <1>4, <1>5, <2>2
  <2>3. CASE /\ ~\E p \in Passes, c \in Cards : PickCandidate(p, c)
             /\ ~\E g \in Coords, k \in Kinds, c \in Cards : FindDue(g, k, c)
    <3>1. ASSUME NEW p \in Passes PROVE pass'[p].pc # "claim"
      BY <1>5, <2>3, ClaimsAppear DEF NoFind
    <3>2. ASSUME NEW g \in Coords PROVE coord'[g].pc # "found"
      BY <1>5, <2>3, FoundAppears DEF NoFind, NoScan
    <3> QED BY <1>2, <3>1, <3>2
  <2> QED BY <2>1, <2>2, <2>3
<1>6. ASSUME NEW p \in Passes, Claim(p) PROVE PromptInv'
  <2>1. pass[p].pc = "claim" /\ UNCHANGED coord
    BY <1>6 DEF Claim, ClaimCard, ClaimRaced
  <2>2. /\ \A q \in Passes : q # p => pass[q].pc # "claim"
        /\ \A g \in Coords : coord[g].pc # "found"
    BY <2>1 DEF PromptInv, OneFind
  <2>3. pass'[p].pc # "claim" /\ \A q \in Passes : q # p => pass'[q] = pass[q]
    BY <1>1, <1>6 DEF Claim, ClaimCard, ClaimRaced, Step, Pass
  <2> QED BY <1>2, <2>1, <2>2, <2>3
<1>7. ASSUME NEW g \in Coords, TakeLock(g) PROVE PromptInv'
  <2>1. coord[g].pc = "found" /\ UNCHANGED pass
    BY <1>7 DEF TakeLock
  <2>2. /\ \A x \in Coords : x # g => coord[x].pc # "found"
        /\ \A q \in Passes : pass[q].pc # "claim"
    BY <2>1 DEF PromptInv, OneFind
  <2>3. coord'[g].pc # "found" /\ \A x \in Coords : x # g => coord'[x] = coord[x]
    BY <1>1, <1>7 DEF TakeLock, NoCoord, Coord
  <2> QED BY <1>2, <2>1, <2>2, <2>3
<1>8. CASE UNCHANGED vars
  BY <1>8 DEF vars, PromptInv, OneFind, FreshCandidate, FreshDue, Candidate, DepsSatisfied, Exists,
     NeedsSplit, NeedsCombine, InWork, AllLanded
<1> QED BY <1>5, <1>6, <1>7, <1>8 DEF PromptNext

\* Nothing is found at the start.
LEMMA PromptInit == Init => PromptInv
  BY DEF Init, PromptInv, OneFind, FreshCandidate, FreshDue, NoPass, NoCoord

\* ClaimNextCard, whatever the constants: a member starts on a card only when what the card depends
\* on is done, if nobody comes between the Find of the candidates and the claim.
THEOREM PromptClaimsRespectDeps == PromptSpec => ClaimsRespectDeps
<1>1. Init => TypeInv /\ DepsKnown /\ PromptInv
  BY InitTypeInv, PromptInit DEF Init, DepsKnown, NoCard
<1>2. TypeInv /\ DepsKnown /\ PromptInv /\ [PromptNext]_vars => TypeInv' /\ DepsKnown' /\ PromptInv'
  BY PromptIsNext, NextTypeInv, DepsKnownStep, PromptStep
<1>3. TypeInv /\ DepsKnown /\ PromptInv /\ [PromptNext]_vars => [ClaimsRespect]_vars
  BY PromptIsNext, StartsByClaim DEF PromptInv, FreshCandidate, Candidate
<1>4. ClaimsRespectDeps <=> [][ClaimsRespect]_vars
  BY PTL DEF ClaimsRespectDeps, ClaimsRespect
<1> QED BY <1>1, <1>2, <1>3, <1>4, PTL DEF PromptSpec

-----------------------------------------------------------------------------
(* A team's card.  The coordinator splits it and combines its parts; what  *)
(* comes to review has every member's part, when nobody comes between the  *)
(* worker's Find and its update.                                           *)

\* The user gives cards to one team, whose members are never paused.
OneTeam     == \A t, u \in Teams : t = u
NobodyRests == NobodyFired /\ Pausable = {}

\* The team is awaited and runs; it works by parts, and review waits for all of them.
TeamCard(r) ==
  /\ r.status \notin {"none", "gone"} => r.assignees \in Teams
  /\ r.awaiting \subseteq r.assignees
  /\ r.status \in {"working", "review"} /\ Cardinality(r.assignees) > 1 => r.parts # {}
  /\ r.status = "review" => r.awaiting = {} /\ r.running = {}
TeamCards == \A c \in Cards : TeamCard(cards[c])

\* Until a request writes, its card stays in its column; it awaits the whole team.
TeamRequest(x) ==
  /\ handler[x].pc \in {"promote", "approve", "changes"} => handler[x].card \in Cards
  /\ handler[x].pc = "promote" => cards[handler[x].card].status = "draft" /\ handler[x].ids \in Teams
  /\ handler[x].pc \in {"approve", "changes"} => cards[handler[x].card].status = "review"
  /\ handler[x].pc \in {"promote", "changes", "requeue"} => handler[x].who \in Teams
  /\ handler[x].pc \notin {"fallback", "dismiss"}
TeamRequests ==
  /\ \A x \in Actors : TeamRequest(x)
  /\ handler[Tick].pc \in {"idle", "requeue", "retire"}
  /\ \A h \in Handlers : handler[h].pc \notin {"requeue", "retire"}

\* The card counts the member whose pass runs, in this round or, if a failure ended that one, the next.
TeamPass(p) ==
  pass[p].pc = "run" =>
    /\ pass[p].card \in Cards
    /\ \A t \in Teams : pass[p].member \in t
    /\ cards[pass[p].card].status \in {"queued", "working"} =>
         pass[p].member \in cards[pass[p].card].awaiting \cup cards[pass[p].card].running
TeamPasses == \A p \in Passes : TeamPass(p)

\* A coordinator at work holds its card's lock, and the card is still as due as it was found.
Works(g) == coord[g].pc \in {"slot", "start", "run"}
TeamLead(g) ==
  Works(g) =>
    /\ coord[g].card \in Cards
    /\ cards[coord[g].card].status # "none"
    /\ Exists(coord[g].card) => LockOf(coord[g].card, coord[g].kind) = "held"
    /\ coord[g].kind = "split" /\ Exists(coord[g].card) =>
         Cardinality(cards[coord[g].card].assignees) > 1 /\ cards[coord[g].card].parts = {}
    /\ coord[g].kind = "split" /\ coord[g].pc = "run" => coord[g].snap # {}
    /\ coord[g].kind = "combine" => NeedsCombine(coord[g].card)
TeamLeads ==
  /\ \A g \in Coords : TeamLead(g)
  /\ \A g, k \in Coords :
       Works(g) /\ Works(k) /\ coord[g].card = coord[k].card /\ Exists(coord[g].card) => g = k

AllActive == \A m \in Members : member[m] = "active"
TeamInv   == TeamCards /\ TeamRequests /\ TeamPasses /\ TeamLeads /\ AllActive

\* What a step keeps of a card, for the passes (but those of the members that are gone), ...
Keeps(s, r, gone) ==
  /\ TeamCard(r)
  /\ r.status \in {"queued", "working"} =>
       \/ r.awaiting \in Teams
       \/ /\ s.status \in {"queued", "working"}
          /\ (s.awaiting \cup s.running) \ gone \subseteq r.awaiting \cup r.running
\* ... for the coordinators ...
KeepsLead(s, r) ==
  /\ s.status # "none" =>
       /\ r.status # "none"
       /\ r.status # "gone" => s.status # "gone" /\ r.parts = s.parts /\ r.splitLock = s.splitLock
  /\ s.status = "working" /\ s.parts # {} /\ s.awaiting = {} /\ s.running = {} =>
       /\ r.status = "working" /\ r.parts = s.parts /\ r.awaiting = {} /\ r.running = {}
       /\ r.combineLock = s.combineLock
\* ... and for a request in flight.
KeepsColumn(s, r) == s.status \in {"draft", "review"} => r.status = s.status

\* The same work: only dates, counts or outputs differ.
SameWork(s, r) ==
  /\ r.status = s.status /\ r.assignees = s.assignees /\ r.awaiting = s.awaiting
  /\ r.running = s.running /\ r.parts = s.parts
SameLocks(s, r) == r.splitLock = s.splitLock /\ r.combineLock = s.combineLock

\* The same work keeps it all.
LEMMA SameKeeps ==
  ASSUME NEW s, NEW r, TeamCard(s), SameWork(s, r)
  PROVE  Keeps(s, r, {}) /\ KeepsColumn(s, r) /\ (SameLocks(s, r) => KeepsLead(s, r))
  BY DEF TeamCard, SameWork, SameLocks, Keeps, KeepsColumn, KeepsLead

\* One card is rewritten.
LEMMA OneCard ==
  ASSUME TypeInv, TeamCards, NEW c \in Cards, NEW r, cards' = [cards EXCEPT ![c] = r],
         NEW gone, Keeps(cards[c], r, gone)
  PROVE  \A x \in Cards : Keeps(cards[x], cards'[x], gone)
<1>1. cards \in [Cards -> Card]
  BY DEF TypeInv, TypeOK
<1>2. ASSUME NEW x \in Cards, x # c PROVE Keeps(cards[x], cards'[x], gone)
  <2>1. cards'[x] = cards[x]
    BY <1>1, <1>2
  <2>2. TeamCard(cards[x])
    BY DEF TeamCards
  <2> QED BY <2>1, <2>2 DEF Keeps
<1>3. cards'[c] = r
  BY <1>1
<1> QED BY <1>2, <1>3

\* A pass that does not step.
LEMMA PassKept ==
  ASSUME TeamPasses, NEW gone, \A x \in Cards : Keeps(cards[x], cards'[x], gone),
         NEW p \in Passes, pass'[p] = pass[p], pass[p].member \notin gone
  PROVE  TeamPass(p)'
<1> SUFFICES ASSUME pass[p].pc = "run"
             PROVE  /\ pass[p].card \in Cards
                    /\ \A t \in Teams : pass[p].member \in t
                    /\ cards'[pass[p].card].status \in {"queued", "working"} =>
                         pass[p].member \in
                           cards'[pass[p].card].awaiting \cup cards'[pass[p].card].running
  BY DEF TeamPass
<1>1. TeamPass(p)
  BY DEF TeamPasses
<1>2. Keeps(cards[pass[p].card], cards'[pass[p].card], gone)
  BY <1>1 DEF TeamPass
<1> QED BY <1>1, <1>2 DEF TeamPass, Keeps

\* Coordinators that do not step.
LEMMA LeadsKept ==
  ASSUME OneTeam, TypeInv, TeamCards, TeamCards', TeamLeads, UNCHANGED coord,
         \A x \in Cards : KeepsLead(cards[x], cards'[x])
  PROVE  TeamLeads'
<1>1. ASSUME NEW g \in Coords, Works(g) PROVE TeamLead(g)'
  <2> DEFINE c == coord[g].card
  <2>1. /\ c \in Cards /\ TeamLead(g)
    BY <1>1 DEF TeamLeads, TeamLead
  <2>2. TeamCard(cards[c]) /\ TeamCard(cards'[c]) /\ KeepsLead(cards[c], cards'[c])
    BY <2>1 DEF TeamCards
  <2>3. cards'[c].status \notin {"none", "gone"} => cards'[c].assignees = cards[c].assignees
    BY <1>1, <2>1, <2>2 DEF TeamCard, KeepsLead, TeamLead, OneTeam
  <2>4. coord[g].kind \in {"split", "combine"}
    BY DEF TypeInv, TypeOK, Coord
  <2>5. CASE coord[g].kind = "split"
    BY <1>1, <2>1, <2>2, <2>3, <2>5 DEF TeamLead, KeepsLead, Exists, LockOf
  <2>6. CASE coord[g].kind = "combine"
    BY <1>1, <2>1, <2>2, <2>6 DEF TeamLead, KeepsLead, Exists, LockOf, NeedsCombine, InWork, AllLanded
  <2> QED BY <2>4, <2>5, <2>6
<1>2. ASSUME NEW g \in Coords, NEW k \in Coords, Works(g), Works(k), coord[g].card = coord[k].card,
             Exists(coord[g].card)'
      PROVE  g = k
  <2>1. coord[g].card \in Cards /\ cards[coord[g].card].status # "none"
    BY <1>2 DEF TeamLeads, TeamLead
  <2>2. Exists(coord[g].card)
    BY <1>2, <2>1 DEF KeepsLead, Exists
  <2> QED BY <1>2, <2>2 DEF TeamLeads
<1>3. \A g \in Coords : TeamLead(g)'
  BY <1>1 DEF TeamLead, Works
<1> QED BY <1>2, <1>3 DEF TeamLeads, Works

\* A request that does not step.
LEMMA RequestKept ==
  ASSUME NEW x \in Actors, TeamRequest(x), handler'[x] = handler[x],
         \A c \in Cards : KeepsColumn(cards[c], cards'[c])
  PROVE  TeamRequest(x)'
  BY DEF TeamRequest, KeepsColumn

\* A request or the calendar rewrites one card.
LEMMA OwnerTeam ==
  ASSUME OneTeam, TypeInv, TeamInv, NEW c \in Cards, NEW r, cards' = [cards EXCEPT ![c] = r],
         Keeps(cards[c], r, {}), KeepsLead(cards[c], r), UNCHANGED <<pass, coord, member>>,
         TeamRequests'
  PROVE  TeamInv'
<1>1. cards \in [Cards -> Card]
  BY DEF TypeInv, TypeOK
<1>2. \A x \in Cards : Keeps(cards[x], cards'[x], {})
  BY OneCard DEF TeamInv
<1>3. \A x \in Cards : KeepsLead(cards[x], cards'[x])
  BY <1>1 DEF KeepsLead
<1>4. TeamCards'
  BY <1>2 DEF Keeps, TeamCards
<1>5. TeamPasses'
  BY <1>2, PassKept DEF TeamPasses, TeamInv
<1>6. TeamLeads'
  BY <1>3, <1>4, LeadsKept DEF TeamInv
<1>7. AllActive'
  BY DEF AllActive, TeamInv
<1> QED BY <1>4, <1>5, <1>6, <1>7 DEF TeamInv

\* The one request in flight steps: the calendar does not notice.
LEMMA HandlerTeam ==
  ASSUME OneRequest, TeamInv, NEW h \in Handlers, TeamRequest(h)',
         handler'[h].pc \notin {"requeue", "retire"},
         \A x \in Actors : x # h => handler'[x] = handler[x]
  PROVE  TeamRequests'
<1>1. /\ Tick \in Actors /\ h # Tick
      /\ \A k \in Handlers : k = h
  BY ConstantsAssumption DEF Actors, OneRequest
<1>2. /\ handler'[Tick] = handler[Tick] /\ TeamRequest(Tick)
      /\ handler[Tick].pc \in {"idle", "requeue", "retire"}
  BY <1>1 DEF TeamInv, TeamRequests
<1>3. TeamRequest(Tick)'
  BY <1>2 DEF TeamRequest
<1> QED BY <1>1, <1>2, <1>3 DEF TeamRequests, Actors

\* A request is idle once it has written.
LEMMA IdleTeam ==
  ASSUME NEW x \in Actors, handler'[x].pc = "idle"
  PROVE  TeamRequest(x)'
  BY DEF TeamRequest

\* A read changes the count of rounds at most.
LEMMA ReadTeam ==
  ASSUME TypeInv, TeamInv, NEW a \in Actors, NEW pc, NEW c \in Cards, NEW who, NEW round,
         Read(a, pc, c, who, round)
  PROVE  \E r : /\ cards' = [cards EXCEPT ![c] = r]
                /\ Keeps(cards[c], r, {}) /\ KeepsLead(cards[c], r)
                /\ r.status = cards[c].status
<1> DEFINE r == [cards[c] EXCEPT !.rounds = IF round THEN @ + 1 ELSE @]
<1>1. cards[c] \in Card /\ cards' = [cards EXCEPT ![c] = r]
  BY DEF TypeInv, TypeOK, Read
<1>2. SameWork(cards[c], r) /\ SameLocks(cards[c], r)
  BY <1>1 DEF SameWork, SameLocks, Card
<1>3. TeamCard(cards[c])
  BY DEF TeamInv, TeamCards
<1> HIDE DEF r
<1>4. Keeps(cards[c], r, {}) /\ KeepsLead(cards[c], r)
  BY <1>2, <1>3, SameKeeps
<1> QED BY <1>1, <1>2, <1>4 DEF SameWork

\* A new request.
LEMMA UserTeam ==
  ASSUME OneRequest, OneTeam, NobodyRests, TypeInv, CardsAtRest, TeamInv,
         NEW h \in Handlers, UserRequest(h)
  PROVE  TeamInv'
<1>1. /\ cards \in [Cards -> Card] /\ handler \in [Actors -> Request] /\ h \in Actors
      /\ \A c \in Cards : cards[c] \in Card /\ TeamCard(cards[c])
      /\ TeamRequest(h) /\ handler[h].pc \notin {"requeue", "retire"}
  BY DEF TypeInv, TypeOK, Actors, TeamInv, TeamCards, TeamRequests
<1>2. ASSUME NEW c \in Cards, NEW r, cards' = [cards EXCEPT ![c] = r], Idle(h),
             Keeps(cards[c], r, {}), KeepsLead(cards[c], r),
             UNCHANGED <<handler, pass, coord, member>>
      PROVE  TeamInv'
  <2>1. handler'[h].pc = "idle"
    BY <1>2 DEF Idle
  <2>2. TeamRequests'
    BY <1>1, <1>2, <2>1, IdleTeam, HandlerTeam
  <2> QED BY <1>2, <2>2, OwnerTeam
<1>3. ASSUME NEW c \in Cards, NEW team \in Teams, CreateCard(h, c, team) PROVE TeamInv'
  <2> DEFINE r == [NoCard EXCEPT !.status = "draft", !.assignees = team,
                                 !.repeat = c \in Recurring, !.deps = {d \in Deps[c] : Exists(d)}]
  <2>1. r.status = "draft" /\ r.assignees = team /\ r.awaiting = {}
    BY DEF NoCard
  <2>2. /\ cards' = [cards EXCEPT ![c] = r] /\ cards[c].status = "none"
        /\ Idle(h) /\ UNCHANGED <<handler, pass, coord, member>>
    BY <1>3 DEF CreateCard
  <2> HIDE DEF r
  <2>3. Keeps(cards[c], r, {}) /\ KeepsLead(cards[c], r)
    BY <2>1, <2>2 DEF Keeps, KeepsLead, TeamCard
  <2> QED BY <1>2, <2>2, <2>3
<1>4. ASSUME NEW c \in Cards, NEW team \in Teams, UpdateDraft(h, c, team) PROVE TeamInv'
  <2> DEFINE r == [cards[c] EXCEPT !.assignees = team, !.legacy = "empty"]
  <2>1. /\ cards[c].status = "draft" /\ Idle(h) /\ UNCHANGED <<handler, pass, coord, member>>
        /\ cards[c].awaiting = {}
    BY <1>4 DEF UpdateDraft, CardsAtRest
  <2>2. /\ r.status = "draft" /\ r.assignees = team /\ r.awaiting = {}
        /\ r.parts = cards[c].parts /\ r.splitLock = cards[c].splitLock
    BY <1>1, <2>1 DEF Card
  <2>3. cards' = [cards EXCEPT ![c] = r]
    BY <1>4, <2>1 DEF UpdateDraft, Write, Exists
  <2> HIDE DEF r
  <2>4. Keeps(cards[c], r, {}) /\ KeepsLead(cards[c], r)
    BY <2>1, <2>2 DEF Keeps, KeepsLead, TeamCard
  <2> QED BY <1>2, <2>1, <2>3, <2>4
<1>5. ASSUME NEW c \in Cards, DeleteCard(h, c) PROVE TeamInv'
  <2> DEFINE r == [NoCard EXCEPT !.status = "gone"]
  <2>1. cards[c].status \in {"draft", "done"} /\ Idle(h) /\ UNCHANGED <<handler, pass, coord, member>>
    BY <1>5 DEF DeleteCard
  <2>2. r.status = "gone" /\ r.awaiting = {}
    BY DEF NoCard
  <2>3. cards' = [cards EXCEPT ![c] = r]
    BY <1>5, <2>1 DEF DeleteCard, Write, Exists
  <2> HIDE DEF r
  <2>4. Keeps(cards[c], r, {}) /\ KeepsLead(cards[c], r)
    BY <2>1, <2>2 DEF Keeps, KeepsLead, TeamCard
  <2> QED BY <1>2, <2>1, <2>3, <2>4
<1>6. ASSUME NEW c \in Cards, UnqueueCard(h, c) PROVE TeamInv'
  <2> DEFINE r == [cards[c] EXCEPT !.status = "draft", !.awaiting = {}]
  <2>1. cards[c].status = "queued" /\ Idle(h) /\ UNCHANGED <<handler, pass, coord, member>>
    BY <1>6 DEF UnqueueCard, Unclaimed
  <2>2. /\ r.status = "draft" /\ r.assignees = cards[c].assignees /\ r.awaiting = {}
        /\ r.parts = cards[c].parts /\ r.splitLock = cards[c].splitLock
    BY <1>1, <2>1 DEF Card
  <2>3. cards' = [cards EXCEPT ![c] = r]
    BY <1>6, <2>1 DEF UnqueueCard, Write, Exists
  <2>4. TeamCard(cards[c])
    BY <1>1
  <2> HIDE DEF r
  <2>5. Keeps(cards[c], r, {}) /\ KeepsLead(cards[c], r)
    BY <2>1, <2>2, <2>4 DEF Keeps, KeepsLead, TeamCard
  <2> QED BY <1>2, <2>1, <2>3, <2>5
<1>7. ASSUME NEW c \in Cards, NEW pc \in {"promote", "approve", "changes"}, NEW who, NEW round,
             Read(h, pc, c, who, round), pc \in {"promote", "changes"} => who = cards[c].assignees,
             cards[c].status = IF pc = "promote" THEN "draft" ELSE "review"
      PROVE  TeamInv'
  <2>1. PICK r : /\ cards' = [cards EXCEPT ![c] = r]
                 /\ Keeps(cards[c], r, {}) /\ KeepsLead(cards[c], r)
                 /\ r.status = cards[c].status
    BY <1>1, <1>7, ReadTeam
  <2>2. /\ handler'[h] = [pc |-> pc, card |-> c, who |-> who, ids |-> cards[c].assignees,
                          last |-> cards[c].revs]
        /\ \A x \in Actors : x # h => handler'[x] = handler[x]
        /\ UNCHANGED <<pass, coord, member>>
    BY <1>1, <1>7 DEF Read, LastRevision
  <2>3. cards'[c].status = cards[c].status /\ cards[c].assignees \in Teams
    BY <1>1, <1>7, <2>1 DEF TeamCard
  <2>4. TeamRequest(h)'
    BY <1>7, <2>2, <2>3 DEF TeamRequest
  <2>5. TeamRequests'
    BY <1>7, <2>2, <2>4, HandlerTeam
  <2> QED BY <2>1, <2>2, <2>5, OwnerTeam
<1>8. \A c \in Cards : cards[c].assignees \cap Active = cards[c].assignees
  BY <1>1 DEF Active, AllActive, TeamInv, Card
<1>9. ASSUME NEW c \in Cards, PromoteRead(h, c) PROVE TeamInv'
  BY <1>7, <1>8, <1>9 DEF PromoteRead, Promotable
<1>10. ASSUME NEW c \in Cards, ApproveRead(h, c) PROVE TeamInv'
  BY <1>7, <1>10 DEF ApproveRead
<1>11. ASSUME NEW c \in Cards, ChangesRead(h, c) PROVE TeamInv'
  BY <1>7, <1>8, <1>11 DEF ChangesRead
<1>12. ASSUME NEW m \in Members, FireMember(h, m) PROVE FALSE
  BY <1>12 DEF FireMember, NobodyFired, NobodyRests
<1> QED BY <1>3, <1>4, <1>5, <1>6, <1>9, <1>10, <1>11, <1>12 DEF UserRequest, NobodyRests

\* The write of the pending request.
LEMMA RequestStepTeam ==
  ASSUME OneRequest, OneTeam, TypeInv, TeamInv, NEW h \in Handlers, RequestStep(h)
  PROVE  TeamInv'
<1> DEFINE c == handler[h].card
<1>1. /\ cards \in [Cards -> Card] /\ handler \in [Actors -> Request] /\ h \in Actors
      /\ \A x \in Cards : cards[x] \in Card /\ TeamCard(cards[x])
      /\ TeamRequest(h)
  BY DEF TypeInv, TypeOK, Actors, TeamInv, TeamCards, TeamRequests
<1>2. ASSUME NEW r, cards' = [cards EXCEPT ![c] = r], c \in Cards, Finish(h),
             Keeps(cards[c], r, {}), KeepsLead(cards[c], r), UNCHANGED <<pass, coord, member>>
      PROVE  TeamInv'
  <2>1. handler'[h].pc = "idle" /\ \A x \in Actors : x # h => handler'[x] = handler[x]
    BY <1>1, <1>2 DEF Finish, NoRequest
  <2>2. TeamRequests'
    BY <1>1, <2>1, IdleTeam, HandlerTeam
  <2> QED BY <1>2, <2>2, OwnerTeam
<1>3. CASE PromoteWrite(h)
  <2> DEFINE r == [cards[c] EXCEPT !.status = "queued", !.awaiting = handler[h].who,
                                   !.running = {}, !.assignees = handler[h].ids]
  <2>1. /\ c \in Cards /\ cards[c].status = "draft"
        /\ handler[h].ids \in Teams /\ handler[h].who \in Teams
    BY <1>1, <1>3 DEF PromoteWrite, TeamRequest
  <2>2. /\ r.status = "queued" /\ r.assignees = handler[h].ids /\ r.awaiting = handler[h].who
        /\ r.parts = cards[c].parts /\ r.splitLock = cards[c].splitLock
    BY <1>1, <2>1 DEF Card
  <2>3. cards' = [cards EXCEPT ![c] = r] /\ Finish(h) /\ UNCHANGED <<pass, coord, member>>
    BY <1>3, <2>1 DEF PromoteWrite, Write, Exists
  <2>4. handler[h].who = handler[h].ids
    BY <2>1 DEF OneTeam
  <2> HIDE DEF r, c
  <2>5. Keeps(cards[c], r, {}) /\ KeepsLead(cards[c], r)
    BY <2>1, <2>2, <2>4 DEF Keeps, KeepsLead, TeamCard
  <2> QED BY <1>2, <2>1, <2>3, <2>5
<1>4. CASE ApproveWrite(h)
  <2> DEFINE r == [cards[c] EXCEPT !.status = "done", !.approved = handler[h].last,
                                   !.due = @ \/ cards[c].repeat, !.combineLock = "free"]
  <2>1. c \in Cards /\ cards[c].status = "review" /\ TeamCard(cards[c])
    BY <1>1, <1>4 DEF ApproveWrite, TeamRequest
  <2>2. /\ r.status = "done" /\ r.assignees = cards[c].assignees /\ r.awaiting = cards[c].awaiting
        /\ r.parts = cards[c].parts /\ r.splitLock = cards[c].splitLock
    BY <1>1, <2>1 DEF Card
  <2>3. cards' = [cards EXCEPT ![c] = r] /\ Finish(h) /\ UNCHANGED <<pass, coord, member>>
    BY <1>4, <2>1 DEF ApproveWrite, Write, Exists
  <2> HIDE DEF r, c
  <2>4. Keeps(cards[c], r, {}) /\ KeepsLead(cards[c], r)
    BY <2>1, <2>2 DEF Keeps, KeepsLead, TeamCard
  <2> QED BY <1>2, <2>1, <2>3, <2>4
<1>5. CASE ChangesWrite(h)
  <2> DEFINE r == [cards[c] EXCEPT !.status = "queued", !.awaiting = handler[h].who,
                                   !.running = {},
                                   !.approved = IF @ = handler[h].last THEN 0 ELSE @,
                                   !.combineLock = "free"]
  <2>1. c \in Cards /\ cards[c].status = "review" /\ TeamCard(cards[c]) /\ handler[h].who \in Teams
    BY <1>1, <1>5 DEF ChangesWrite, TeamRequest
  <2>2. /\ r.status = "queued" /\ r.assignees = cards[c].assignees /\ r.awaiting = handler[h].who
        /\ r.parts = cards[c].parts /\ r.splitLock = cards[c].splitLock
    BY <1>1, <2>1 DEF Card
  <2>3. cards' = [cards EXCEPT ![c] = r] /\ Finish(h) /\ UNCHANGED <<pass, coord, member>>
    BY <1>5, <2>1 DEF ChangesWrite, Write, Exists
  <2>4. handler[h].who = cards[c].assignees
    BY <2>1 DEF OneTeam, TeamCard
  <2> HIDE DEF r, c
  <2>5. Keeps(cards[c], r, {}) /\ KeepsLead(cards[c], r)
    BY <2>1, <2>2, <2>4 DEF Keeps, KeepsLead, TeamCard
  <2> QED BY <1>2, <2>1, <2>3, <2>5
<1>6. ~FireFallback(h) /\ ~FireDelete(h)
  BY <1>1 DEF FireFallback, FireDelete, TeamRequest
<1> QED BY <1>3, <1>4, <1>5, <1>6 DEF RequestStep

\* The calendar.
LEMMA SweepTeam ==
  ASSUME OneTeam, TypeInv, TeamInv, Sweep
  PROVE  TeamInv'
<1> DEFINE c == handler[Tick].card
<1>1. /\ cards \in [Cards -> Card] /\ handler \in [Actors -> Request] /\ Tick \in Actors
      /\ \A x \in Cards : cards[x] \in Card /\ TeamCard(cards[x])
      /\ TeamRequest(Tick) /\ \A h \in Handlers : h \in Actors /\ h # Tick
  BY ConstantsAssumption DEF TypeInv, TypeOK, Actors, TeamInv, TeamCards, TeamRequests
<1>2. ASSUME NEW x \in Cards, NEW r, cards' = [cards EXCEPT ![x] = r], KeepsColumn(cards[x], r),
             \A h \in Handlers : handler'[h] = handler[h],
             TeamRequest(Tick)', handler'[Tick].pc \in {"idle", "requeue", "retire"},
             Keeps(cards[x], r, {}), KeepsLead(cards[x], r), UNCHANGED <<pass, coord, member>>
      PROVE  TeamInv'
  <2>1. \A y \in Cards : KeepsColumn(cards[y], cards'[y])
    BY <1>1, <1>2 DEF KeepsColumn
  <2>2. ASSUME NEW h \in Handlers PROVE TeamRequest(h)' /\ handler'[h].pc \notin {"requeue", "retire"}
    <3>1. TeamRequest(h) /\ handler[h].pc \notin {"requeue", "retire"}
      BY <1>1 DEF TeamInv, TeamRequests
    <3> QED BY <1>1, <1>2, <2>1, <3>1, RequestKept
  <2>3. TeamRequests'
    BY <1>2, <2>2 DEF TeamRequests, Actors
  <2> QED BY <1>2, <2>3, OwnerTeam
<1>3. ASSUME Finish(Tick)
      PROVE  /\ \A h \in Handlers : handler'[h] = handler[h]
             /\ TeamRequest(Tick)' /\ handler'[Tick].pc = "idle"
  <2>1. handler'[Tick].pc = "idle" /\ \A h \in Handlers : handler'[h] = handler[h]
    BY <1>1, <1>3 DEF Finish, NoRequest
  <2> QED BY <1>1, <2>1, IdleTeam
<1>4. ASSUME UNCHANGED <<cards, pass, coord, member>>, Finish(Tick) PROVE TeamInv'
  <2>1. TeamCards' /\ TeamPasses' /\ TeamLeads' /\ AllActive'
    BY <1>4 DEF TeamInv, TeamCards, TeamPasses, TeamPass, TeamLeads, TeamLead, AllActive, Works, Exists,
       LockOf, NeedsCombine, InWork, AllLanded
  <2>2. TeamRequests'
    BY <1>1, <1>3, <1>4 DEF TeamInv, TeamRequests, TeamRequest, Actors
  <2> QED BY <2>1, <2>2 DEF TeamInv
<1>5. CASE RequeueWrite
  <2> DEFINE r == [cards[c] EXCEPT !.status = "queued", !.awaiting = handler[Tick].who,
                                   !.running = {}, !.due = FALSE, !.combineLock = "free"]
  <2>1. Finish(Tick) /\ UNCHANGED <<pass, coord, member>> /\ handler[Tick].who \in Teams
    BY <1>1, <1>5 DEF RequeueWrite, TeamRequest
  <2>2. CASE c \in Cards /\ cards[c].status = "done"
    <3>1. TeamCard(cards[c])
      BY <1>1, <2>2
    <3>2. /\ r.status = "queued" /\ r.assignees = cards[c].assignees
          /\ r.awaiting = handler[Tick].who
          /\ r.parts = cards[c].parts /\ r.splitLock = cards[c].splitLock
      BY <1>1, <2>2 DEF Card
    <3>3. cards' = [cards EXCEPT ![c] = r]
      BY <1>5, <2>2 DEF RequeueWrite, Write, Exists
    <3>4. handler[Tick].who = cards[c].assignees
      BY <2>1, <2>2, <3>1 DEF OneTeam, TeamCard
    <3> HIDE DEF r, c
    <3>5. Keeps(cards[c], r, {}) /\ KeepsLead(cards[c], r) /\ KeepsColumn(cards[c], r)
      BY <2>1, <2>2, <3>1, <3>2, <3>4 DEF Keeps, KeepsLead, KeepsColumn, TeamCard
    <3> QED BY <1>2, <1>3, <2>1, <2>2, <3>3, <3>5
  <2>3. CASE ~(c \in Cards /\ cards[c].status = "done")
    <3>1. UNCHANGED cards
      BY <1>1, <1>5, <2>3 DEF RequeueWrite, Write
    <3> QED BY <1>4, <2>1, <3>1
  <2> QED BY <2>2, <2>3
<1>6. CASE RetireWrite
  <2> DEFINE r == [cards[c] EXCEPT !.repeat = FALSE, !.due = FALSE]
  <2>1. Finish(Tick) /\ UNCHANGED <<pass, coord, member>>
    BY <1>6 DEF RetireWrite
  <2>2. CASE c \in Cards /\ Exists(c)
    <3>1. SameWork(cards[c], r) /\ SameLocks(cards[c], r)
      BY <1>1, <2>2 DEF SameWork, SameLocks, Card
    <3>2. cards' = [cards EXCEPT ![c] = r] /\ TeamCard(cards[c])
      BY <1>1, <1>6, <2>2 DEF RetireWrite, Write
    <3> HIDE DEF r, c
    <3>3. Keeps(cards[c], r, {}) /\ KeepsLead(cards[c], r) /\ KeepsColumn(cards[c], r)
      BY <3>1, <3>2, SameKeeps
    <3> QED BY <1>2, <1>3, <2>1, <2>2, <3>2, <3>3
  <2>3. CASE ~(c \in Cards /\ Exists(c))
    <3>1. UNCHANGED cards
      BY <1>1, <1>6, <2>3 DEF RetireWrite, Write
    <3> QED BY <1>4, <2>1, <3>1
  <2> QED BY <2>2, <2>3
<1>7. ASSUME NEW x \in Cards, NEW pc \in {"requeue", "retire"}, NEW who, NEW round,
             Read(Tick, pc, x, who, round), cards[x].status = "done",
             pc = "requeue" => who = cards[x].assignees
      PROVE  TeamInv'
  <2>1. PICK r : /\ cards' = [cards EXCEPT ![x] = r]
                 /\ Keeps(cards[x], r, {}) /\ KeepsLead(cards[x], r)
                 /\ r.status = cards[x].status
    BY <1>1, <1>7, ReadTeam
  <2>2. /\ handler'[Tick] = [pc |-> pc, card |-> x, who |-> who, ids |-> cards[x].assignees,
                             last |-> cards[x].revs]
        /\ \A h \in Handlers : handler'[h] = handler[h]
        /\ UNCHANGED <<pass, coord, member>>
    BY <1>1, <1>7 DEF Read, LastRevision
  <2>3. TeamRequest(Tick)'
    BY <1>1, <1>7, <2>2 DEF TeamRequest, TeamCard
  <2>4. KeepsColumn(cards[x], r) /\ handler'[Tick].pc \in {"idle", "requeue", "retire"}
    BY <1>7, <2>1, <2>2 DEF KeepsColumn
  <2> QED BY <1>2, <2>1, <2>2, <2>3, <2>4
<1>8. \A x \in Cards : cards[x].assignees \cap Active = cards[x].assignees
  BY <1>1 DEF Active, AllActive, TeamInv, Card
<1>9. ASSUME NEW x \in Cards, RequeueRead(x) PROVE TeamInv'
  BY <1>7, <1>8, <1>9 DEF RequeueRead
<1>10. ASSUME NEW x \in Cards, RetireRead(x) PROVE TeamInv'
  BY <1>7, <1>10 DEF RetireRead
<1> QED BY <1>5, <1>6, <1>9, <1>10 DEF Sweep, SweepWrite

\* A member's pass rewrites its card.
LEMMA PassWrites ==
  ASSUME OneTeam, TypeInv, TeamInv, OneCardPerMember, NEW p \in Passes, NEW c \in Cards, NEW r,
         pass[p].pc # "idle", cards' = [cards EXCEPT ![c] = r],
         Keeps(cards[c], r, {pass[p].member}), KeepsLead(cards[c], r), KeepsColumn(cards[c], r),
         \A q \in Passes : q # p => pass'[q] = pass[q], UNCHANGED <<handler, coord, member>>,
         TeamPass(p)'
  PROVE  TeamInv'
<1>1. cards \in [Cards -> Card]
  BY DEF TypeInv, TypeOK
<1>2. \A x \in Cards : Keeps(cards[x], cards'[x], {pass[p].member})
  BY OneCard DEF TeamInv
<1>3. \A x \in Cards : KeepsLead(cards[x], cards'[x]) /\ KeepsColumn(cards[x], cards'[x])
  BY <1>1 DEF KeepsLead, KeepsColumn
<1>4. TeamCards'
  BY <1>2 DEF Keeps, TeamCards
<1>5. ASSUME NEW q \in Passes, q # p PROVE TeamPass(q)'
  <2>1. CASE pass[q].pc = "run"
    <3>1. pass[q].member \notin {pass[p].member}
      BY <1>5, <2>1 DEF OneCardPerMember
    <3>2. pass'[q] = pass[q]
      BY <1>5
    <3>3. TeamPasses
      BY DEF TeamInv
    <3> QED BY <1>2, <3>1, <3>2, <3>3, PassKept
  <2>2. CASE pass[q].pc # "run"
    BY <1>5, <2>2 DEF TeamPass
  <2> QED BY <2>1, <2>2
<1>6. TeamLeads'
  BY <1>3, <1>4, LeadsKept DEF TeamInv
<1>7. TeamRequests'
  <2>1. ASSUME NEW x \in Actors PROVE TeamRequest(x)'
    BY <1>3, RequestKept DEF TeamInv, TeamRequests
  <2> QED BY <2>1 DEF TeamInv, TeamRequests
<1>8. AllActive'
  BY DEF TeamInv, AllActive
<1> QED BY <1>4, <1>5, <1>6, <1>7, <1>8 DEF TeamInv, TeamPasses

\* A pass that writes no card and does not run afterwards.
LEMMA PassRests ==
  ASSUME TeamInv, NEW p \in Passes, UNCHANGED <<cards, handler, coord, member>>,
         \A q \in Passes : q # p => pass'[q] = pass[q], pass'[p].pc # "run"
  PROVE  TeamInv'
<1>1. TeamCards' /\ TeamRequests' /\ TeamLeads' /\ AllActive'
  BY DEF TeamInv, TeamCards, TeamRequests, TeamRequest, TeamLeads, TeamLead, AllActive, Works, Exists,
     LockOf, NeedsCombine, InWork, AllLanded
<1>2. \A q \in Passes : TeamPass(q)'
  BY DEF TeamInv, TeamPasses, TeamPass
<1> QED BY <1>1, <1>2 DEF TeamInv, TeamPasses

\* A member's pass.
LEMMA PassTeam ==
  ASSUME OneTeam, TypeInv, OneCardPerMember, PromptInv, TeamInv, NEW p \in Passes,
         PassStep(p) \/ Claim(p) \/ \E m \in Members : StartPass(p, m)
  PROVE  TeamInv'
<1> DEFINE c == pass[p].card
           m == pass[p].member
<1>1. /\ cards \in [Cards -> Card] /\ pass \in [Passes -> Pass]
      /\ \A x \in Cards : cards[x] \in Card /\ TeamCard(cards[x])
      /\ TeamPass(p) /\ FreshCandidate(p)
  BY DEF TypeInv, TypeOK, TeamInv, TeamCards, TeamPasses, PromptInv
<1>2. UNCHANGED <<handler, coord, member>> /\ \A q \in Passes : q # p => pass'[q] = pass[q]
  BY <1>1 DEF PassStep, Claim, StartPass, PassSlot, PassSaturated, PickCandidate, NoCandidate,
     ClaimCard, ClaimRaced, PassFail, PassLand, PassFinish, EndPass, Step
<1>3. ASSUME EndPass(p) PROVE pass'[p].pc = "idle"
  BY <1>1, <1>3 DEF EndPass, NoPass
<1>4. ASSUME pass'[p].pc # "run" PROVE TeamPass(p)'
  BY <1>4 DEF TeamPass
<1>5. CASE ClaimCard(p)
  <2> DEFINE r == [cards[c] EXCEPT !.awaiting = @ \ {m}, !.running = @ \cup {m},
                                   !.status = "working"]
  <2>1. /\ c \in Cards /\ m \in cards[c].awaiting
        /\ cards[c].status \in {"queued", "working"}
        /\ Cardinality(cards[c].assignees) > 1 => cards[c].parts # {}
    BY <1>1, <1>5 DEF ClaimCard, Claimable, FreshCandidate, Candidate
  <2>2. TeamCard(cards[c])
    BY <1>1, <2>1
  <2>3. /\ r.status = "working" /\ r.assignees = cards[c].assignees
        /\ r.awaiting = cards[c].awaiting \ {m} /\ r.running = cards[c].running \cup {m}
        /\ r.parts = cards[c].parts
        /\ r.splitLock = cards[c].splitLock /\ r.combineLock = cards[c].combineLock
    BY <1>1, <2>1 DEF Card
  <2>4. cards' = [cards EXCEPT ![c] = r]
    BY <1>5, <2>1 DEF ClaimCard, Write, Exists
  <2>5. pass'[p].pc = "run" /\ pass'[p].card = c /\ pass'[p].member = m /\ pass[p].pc = "claim"
    BY <1>1, <1>5 DEF ClaimCard, Step, Pass
  <2>6. cards'[c] = r
    BY <1>1, <2>1, <2>4
  <2>7. \A t \in Teams : m \in t
    BY <2>1, <2>2 DEF TeamCard, OneTeam
  <2> HIDE DEF r, c, m
  <2>8. KeepsLead(cards[c], r) /\ KeepsColumn(cards[c], r)
    BY <2>1, <2>3 DEF KeepsLead, KeepsColumn
  <2>9. Keeps(cards[c], r, {m})
    BY <2>1, <2>2, <2>3 DEF Keeps, TeamCard
  <2>10. TeamPass(p)'
    BY <2>1, <2>3, <2>5, <2>6, <2>7 DEF TeamPass
  <2> QED BY <1>2, <2>1, <2>4, <2>5, <2>8, <2>9, <2>10, PassWrites DEF m
<1>6. CASE PassFail(p)
  <2> DEFINE r == BackToDraft(c)
  <2>1. /\ pass[p].pc = "run" /\ EndPass(p) /\ pass'[p].pc = "idle"
        /\ Write(c, InWork(c), r) /\ c \in Cards
    BY <1>1, <1>3, <1>6 DEF PassFail, TeamPass
  <2>2. CASE InWork(c)
    <3>1. /\ TeamCard(cards[c]) /\ cards[c].status = "working"
          /\ m \in cards[c].awaiting \cup cards[c].running
      BY <1>1, <2>1, <2>2 DEF InWork, TeamPass
    <3>2. /\ r.status = "draft" /\ r.assignees = cards[c].assignees /\ r.awaiting = {}
          /\ r.parts = cards[c].parts /\ r.splitLock = cards[c].splitLock
      BY <1>1, <2>1 DEF Card, BackToDraft
    <3>3. cards' = [cards EXCEPT ![c] = r]
      BY <2>1, <3>1 DEF Write, Exists, InWork
    <3> HIDE DEF r, c, m
    <3>4. Keeps(cards[c], r, {m}) /\ KeepsLead(cards[c], r) /\ KeepsColumn(cards[c], r)
      BY <3>1, <3>2 DEF Keeps, KeepsLead, KeepsColumn, TeamCard
    <3> QED BY <1>2, <1>4, <2>1, <3>3, <3>4, PassWrites DEF m
  <2>3. CASE ~InWork(c)
    <3>1. UNCHANGED cards
      BY <1>1, <2>1, <2>3 DEF Write
    <3> QED BY <1>2, <2>1, <3>1, PassRests
  <2> QED BY <2>2, <2>3
<1>7. CASE PassLand(p)
  <2> DEFINE r == Landed(c, m)
  <2>1. /\ pass[p].pc = "run" /\ pass'[p].pc = "finish"
        /\ Write(c, InWork(c), r) /\ c \in Cards
    BY <1>1, <1>7 DEF PassLand, TeamPass, Step, Pass
  <2>2. CASE InWork(c)
    <3>1. /\ TeamCard(cards[c]) /\ cards[c].status = "working"
          /\ m \in cards[c].awaiting \cup cards[c].running
      BY <1>1, <2>1, <2>2 DEF InWork, TeamPass
    <3>2. /\ r.status = "working" /\ r.assignees = cards[c].assignees
          /\ r.awaiting = cards[c].awaiting /\ r.running = cards[c].running \ {m}
          /\ r.parts = cards[c].parts /\ r.splitLock = cards[c].splitLock
      BY <1>1, <2>1, <3>1 DEF Card, Landed
    <3>3. cards' = [cards EXCEPT ![c] = r]
      BY <2>1, <3>1 DEF Write, Exists, InWork
    <3> HIDE DEF r, c, m
    <3>4. Keeps(cards[c], r, {m})
      BY <3>1, <3>2 DEF Keeps, TeamCard
    <3>5. KeepsLead(cards[c], r) /\ KeepsColumn(cards[c], r)
      BY <3>1, <3>2 DEF KeepsLead, KeepsColumn
    <3> QED BY <1>2, <1>4, <2>1, <3>3, <3>4, <3>5, PassWrites DEF m
  <2>3. CASE ~InWork(c)
    <3>1. UNCHANGED cards
      BY <1>1, <2>1, <2>3 DEF Write
    <3> QED BY <1>2, <2>1, <3>1, PassRests
  <2> QED BY <2>2, <2>3
<1>8. CASE PassFinish(p)
  <2> DEFINE r == [cards[c] EXCEPT !.status = "review"]
  <2>1. /\ pass[p].pc = "finish" /\ pass'[p].pc = "idle"
        /\ Write(c, ReadyForReview(c), r)
    BY <1>1, <1>3, <1>8 DEF PassFinish
  <2>2. CASE c \in Cards /\ ReadyForReview(c)
    <3>1. /\ TeamCard(cards[c]) /\ cards[c].status = "working" /\ cards[c].parts = {}
          /\ cards[c].awaiting = {} /\ cards[c].running = {}
      BY <1>1, <2>2 DEF ReadyForReview, InWork, AllLanded
    <3>2. /\ r.status = "review" /\ r.assignees = cards[c].assignees
          /\ r.awaiting = {} /\ r.running = {}
          /\ r.parts = cards[c].parts /\ r.splitLock = cards[c].splitLock
      BY <1>1, <2>2, <3>1 DEF Card
    <3>3. cards' = [cards EXCEPT ![c] = r]
      BY <2>1, <2>2, <3>1 DEF Write, Exists
    <3> HIDE DEF r, c, m
    <3>4. Keeps(cards[c], r, {m}) /\ KeepsLead(cards[c], r) /\ KeepsColumn(cards[c], r)
      BY <3>1, <3>2 DEF Keeps, KeepsLead, KeepsColumn, TeamCard
    <3> QED BY <1>2, <1>4, <2>1, <2>2, <3>3, <3>4, PassWrites DEF m
  <2>3. CASE ~(c \in Cards /\ ReadyForReview(c))
    <3>1. UNCHANGED cards
      BY <1>1, <2>1, <2>3 DEF Write
    <3> QED BY <1>2, <2>1, <3>1, PassRests
  <2> QED BY <2>2, <2>3
<1>9. CASE \/ PassSlot(p) \/ PassSaturated(p) \/ NoCandidate(p) \/ ClaimRaced(p)
           \/ \E x \in Cards : PickCandidate(p, x)
           \/ \E x \in Members : StartPass(p, x)
  <2>1. UNCHANGED cards
    BY <1>9 DEF PassSlot, PassSaturated, NoCandidate, ClaimRaced, PickCandidate, StartPass
  <2>2. pass'[p].pc # "run"
    BY <1>1, <1>3, <1>9
    DEF PassSlot, PassSaturated, NoCandidate, ClaimRaced, PickCandidate, StartPass, Step, Pass
  <2> QED BY <1>2, <2>1, <2>2, PassRests
<1> QED BY <1>5, <1>6, <1>7, <1>8, <1>9 DEF PassStep, Claim

\* A lock is neither work nor a round.
LEMMA LockWork ==
  ASSUME TypeInv, NEW c \in Cards, NEW k, NEW l
  PROVE  /\ SameWork(cards[c], SetLock(c, k, l))
         /\ k = "split" => /\ SetLock(c, k, l).splitLock = l
                           /\ SetLock(c, k, l).combineLock = cards[c].combineLock
         /\ k # "split" => /\ SetLock(c, k, l).combineLock = l
                           /\ SetLock(c, k, l).splitLock = cards[c].splitLock
<1>1. cards[c] \in Card
  BY DEF TypeInv, TypeOK
<1> QED BY <1>1 DEF SetLock, SameWork, Card

\* A coordinator rewrites its card, or only its own state.  Any other one at work has another card.
LEMMA LeadWrites ==
  ASSUME TypeInv, TeamInv, NEW g \in Coords, NEW c \in Cards, NEW r,
         cards' = [cards EXCEPT ![c] = r], Keeps(cards[c], r, {}), KeepsColumn(cards[c], r),
         \A k \in Coords : k # g => coord'[k] = coord[k],
         \A k \in Coords : k # g /\ Works(k) => coord[k].card # c,
         UNCHANGED <<pass, handler, member>>, TeamLead(g)', Works(g)' => coord'[g].card = c
  PROVE  TeamInv'
<1>1. cards \in [Cards -> Card]
  BY DEF TypeInv, TypeOK
<1>2. \A x \in Cards : Keeps(cards[x], cards'[x], {})
  BY OneCard DEF TeamInv
<1>3. cards'[c] = r /\ \A x \in Cards : x # c => cards'[x] = cards[x]
  BY <1>1
<1>4. TeamCards'
  BY <1>2 DEF Keeps, TeamCards
<1>5. TeamPasses'
  BY <1>2, PassKept DEF TeamPasses, TeamInv
<1>6. ASSUME NEW k \in Coords, k # g, Works(k)' PROVE TeamLead(k)' /\ Works(k) /\ coord'[k].card # c
  <2>1. coord'[k] = coord[k] /\ Works(k)
    BY <1>6 DEF Works
  <2>2. TeamLead(k) /\ coord[k].card \in Cards /\ coord[k].card # c
    BY <1>6, <2>1 DEF TeamInv, TeamLeads, TeamLead
  <2>3. cards'[coord[k].card] = cards[coord[k].card]
    BY <1>3, <2>2
  <2> QED BY <2>1, <2>2, <2>3 DEF TeamLead, Works, Exists, LockOf, NeedsCombine, InWork, AllLanded
<1>7. \A k \in Coords : TeamLead(k)'
  BY <1>6 DEF TeamLead
<1>8. ASSUME NEW k \in Coords, NEW l \in Coords, k # g, l # g, Works(k)', Works(l)',
             coord'[k].card = coord'[l].card, Exists(coord[k].card)'
      PROVE  k = l
  <2>1. coord'[k] = coord[k] /\ coord'[l] = coord[l] /\ Works(k) /\ Works(l)
    BY <1>6, <1>8
  <2>2. coord[k].card \in Cards /\ coord[k].card # c
    BY <1>6, <1>8, <2>1 DEF TeamInv, TeamLeads, TeamLead
  <2>3. cards'[coord[k].card] = cards[coord[k].card]
    BY <1>3, <2>2
  <2>4. Exists(coord[k].card)
    BY <1>8, <2>1, <2>3 DEF Exists
  <2> QED BY <1>8, <2>1, <2>4 DEF TeamInv, TeamLeads
<1>9. TeamLeads'
  BY <1>6, <1>7, <1>8 DEF TeamLeads
<1>10. TeamRequests'
  <2>1. \A x \in Cards : KeepsColumn(cards[x], cards'[x])
    BY <1>3 DEF KeepsColumn
  <2>2. ASSUME NEW x \in Actors PROVE TeamRequest(x)'
    BY <2>1, RequestKept DEF TeamInv, TeamRequests
  <2> QED BY <2>2 DEF TeamInv, TeamRequests
<1>11. AllActive'
  BY DEF TeamInv, AllActive
<1> QED BY <1>4, <1>5, <1>9, <1>10, <1>11 DEF TeamInv

\* A coordinator that writes no card, and was at work before if it is afterwards.
LEMMA LeadRests ==
  ASSUME TeamInv, NEW g \in Coords, UNCHANGED <<cards, pass, handler, member>>,
         \A k \in Coords : k # g => coord'[k] = coord[k],
         Works(g)' => Works(g) /\ coord'[g].card = coord[g].card,
         TeamLead(g)'
  PROVE  TeamInv'
<1>1. TeamCards' /\ TeamPasses' /\ TeamRequests' /\ AllActive'
  BY DEF TeamInv, TeamCards, TeamPasses, TeamPass, TeamRequests, TeamRequest, AllActive
<1>2. ASSUME NEW k \in Coords PROVE TeamLead(k)'
  <2>1. CASE k = g
    BY <2>1
  <2>2. CASE k # g
    <3>1. TeamLead(k) /\ coord'[k] = coord[k]
      BY <2>2 DEF TeamInv, TeamLeads
    <3> QED BY <3>1 DEF TeamLead, Works, Exists, LockOf, NeedsCombine, InWork, AllLanded
  <2> QED BY <2>1, <2>2
<1>3. \A k \in Coords : Works(k)' => Works(k) /\ coord'[k].card = coord[k].card
  BY DEF Works
<1>4. \A k \in Coords : Works(k)' => (Exists(coord[k].card)' <=> Exists(coord[k].card))
  BY <1>3 DEF Exists
<1>5. TeamLeads'
  BY <1>2, <1>3, <1>4 DEF TeamInv, TeamLeads
<1> QED BY <1>1, <1>5 DEF TeamInv

\* A coordinator at work has its card for itself.
LEMMA LeadAlone ==
  ASSUME TeamInv, NEW g \in Coords, Works(g), Exists(coord[g].card), NEW k \in Coords, k # g, Works(k)
  PROVE  coord[k].card # coord[g].card
  BY DEF TeamInv, TeamLeads

\* A coordinator.
LEMMA CoordTeam ==
  ASSUME TypeInv, TeamInv, NEW g \in Coords, CoordStep(g)
  PROVE  TeamInv'
<1> DEFINE c == coord[g].card
<1>1. /\ cards \in [Cards -> Card] /\ coord \in [Coords -> Coord]
      /\ \A x \in Cards : cards[x] \in Card /\ TeamCard(cards[x])
      /\ coord[g].kind \in {"split", "combine"}
  BY DEF TypeInv, TypeOK, TeamInv, TeamCards, Coord
<1>2. Works(g) /\ TeamLead(g) /\ c \in Cards /\ TeamCard(cards[c])
  <2>1. Works(g)
    BY DEF CoordStep, CoordSlot, CoordSaturated, CoordStart, SplitDone, SplitFail, CombineDone,
       CombineFail, Works
  <2> QED BY <1>1, <2>1 DEF TeamInv, TeamLeads, TeamLead
<1>3. UNCHANGED <<pass, handler, member>> /\ \A k \in Coords : k # g => coord'[k] = coord[k]
  <2>1. UNCHANGED <<pass, handler, member>>
    BY DEF CoordStep, CoordSlot, CoordSaturated, CoordStart, SplitDone, SplitFail, CombineDone,
       CombineFail
  <2>2. \E v : coord' = [coord EXCEPT ![g] = v]
    BY <1>1 DEF CoordStep, CoordSlot, CoordSaturated, CoordStart, SplitDone, SplitFail, CombineDone,
       CombineFail, EndCoord
  <2> QED BY <1>1, <2>1, <2>2
<1>4. EndCoord(g) => ~Works(g)'
  BY <1>1 DEF EndCoord, NoCoord, Works
<1>5. ASSUME ~Works(g)' PROVE TeamLead(g)'
  BY <1>5 DEF TeamLead
<1>6. ASSUME NEW r, NEW f, Write(c, f, r), ~Works(g)', Exists(c) /\ f =>
               Keeps(cards[c], r, {}) /\ KeepsColumn(cards[c], r)
      PROVE  TeamInv'
  <2>1. CASE Exists(c) /\ f
    <3>1. cards' = [cards EXCEPT ![c] = r]
      BY <1>6, <2>1 DEF Write
    <3>2. \A k \in Coords : k # g /\ Works(k) => coord[k].card # c
      BY <1>2, <2>1, LeadAlone
    <3> HIDE DEF c
    <3> QED BY <1>2, <1>3, <1>5, <1>6, <2>1, <3>1, <3>2, LeadWrites
  <2>2. CASE ~(Exists(c) /\ f)
    <3>1. UNCHANGED cards
      BY <1>1, <1>6, <2>2 DEF Write
    <3> QED BY <1>3, <1>5, <1>6, <3>1, LeadRests
  <2> QED BY <2>1, <2>2
<1>7. \A k, l : Keeps(cards[c], SetLock(c, k, l), {}) /\ KeepsColumn(cards[c], SetLock(c, k, l))
  BY <1>2, LockWork, SameKeeps
<1>8. CASE CoordSlot(g)
  <2>1. /\ UNCHANGED cards
        /\ coord'[g].pc = "start" /\ coord'[g].card = c /\ coord'[g].kind = coord[g].kind
    BY <1>1, <1>8 DEF CoordSlot, Coord
  <2>2. TeamLead(g)'
    BY <1>2, <2>1 DEF TeamLead, Works, Exists, LockOf, NeedsCombine, InWork, AllLanded
  <2> QED BY <1>2, <1>3, <2>1, <2>2, LeadRests
<1>9. CASE CoordSaturated(g)
  <2>1. Write(c, TRUE, SetLock(c, coord[g].kind, "free")) /\ ~Works(g)'
    BY <1>4, <1>9 DEF CoordSaturated
  <2> HIDE DEF c
  <2> QED BY <1>6, <1>7, <2>1
<1>10. CASE CoordStart(g)
  <2> DEFINE kind == coord[g].kind
             work == IF kind = "split" THEN {m \in coord[g].snap : member[m] # "fired"}
                                       ELSE coord[g].snap
             some == IF kind = "split" THEN Cardinality(work) > 1 ELSE work # {}
  <2>1. /\ Write(c, ~some, SetLock(c, kind, "free"))
        /\ coord' = [coord EXCEPT ![g] =
             IF some THEN [@ EXCEPT !.pc = "run", !.snap = work] ELSE NoCoord]
    BY <1>10, Zenon DEF CoordStart
  <2>2. some => work # {}
    BY FS_EmptySet
  <2> HIDE DEF some, work
  <2>3. CASE some
    <3>1. UNCHANGED cards
      BY <1>1, <2>1, <2>3 DEF Write
    <3>2. /\ coord'[g].pc = "run" /\ coord'[g].card = c /\ coord'[g].kind = kind
          /\ coord'[g].snap = work
      BY <1>1, <2>1, <2>3 DEF Coord
    <3>3. TeamLead(g)'
      BY <1>2, <2>2, <2>3, <3>1, <3>2
      DEF TeamLead, Works, Exists, LockOf, NeedsCombine, InWork, AllLanded
    <3> QED BY <1>2, <1>3, <3>1, <3>2, <3>3, LeadRests
  <2>4. CASE ~some
    <3>1. EndCoord(g)
      BY <2>1, <2>4 DEF EndCoord
    <3> HIDE DEF c
    <3> QED BY <1>4, <1>6, <1>7, <2>1, <3>1
  <2> QED BY <2>3, <2>4
<1>11. CASE SplitDone(g)
  <2> DEFINE r == [cards[c] EXCEPT !.parts = Briefed(g), !.splitLock = "free"]
  <2>1. Write(c, TRUE, r) /\ ~Works(g)' /\ coord[g].snap # {}
    BY <1>2, <1>4, <1>11 DEF SplitDone, TeamLead, Works
  <2>2. /\ r.status = cards[c].status /\ r.assignees = cards[c].assignees
        /\ r.awaiting = cards[c].awaiting /\ r.running = cards[c].running
        /\ r.parts = coord[g].snap
    BY <1>1, <1>2 DEF Card, Briefed
  <2> HIDE DEF r, c
  <2>3. Keeps(cards[c], r, {}) /\ KeepsColumn(cards[c], r)
    BY <1>2, <2>1, <2>2 DEF Keeps, KeepsColumn, TeamCard
  <2> QED BY <1>6, <2>1, <2>3
<1>12. CASE SplitFail(g)
  <2> DEFINE r == [BackToDraft(c) EXCEPT !.splitLock = "free"]
  <2>1. Write(c, TRUE, r) /\ ~Works(g)' /\ coord[g].kind = "split"
    BY <1>4, <1>12 DEF SplitFail
  <2>2. r.status = "draft" /\ r.assignees = cards[c].assignees /\ r.awaiting = {}
    BY <1>1, <1>2 DEF Card, BackToDraft
  <2>3. Exists(c) => cards[c].status \notin {"working", "review"}
    BY <1>2, <2>1 DEF TeamLead, TeamCard
  <2> HIDE DEF r, c
  <2>4. Exists(c) => Keeps(cards[c], r, {}) /\ KeepsColumn(cards[c], r)
    BY <1>2, <2>2, <2>3 DEF Keeps, KeepsColumn, TeamCard, Exists
  <2> QED BY <1>6, <2>1, <2>4
<1>13. CASE CombineDone(g)
  <2> DEFINE r == [cards[c] EXCEPT !.status = "review", !.revs = @ + 1, !.cycle = {}]
  <2>1. Write(c, InWork(c), r) /\ ~Works(g)' /\ coord[g].kind = "combine"
    BY <1>4, <1>13 DEF CombineDone
  <2>2. /\ r.status = "review" /\ r.assignees = cards[c].assignees
        /\ r.awaiting = cards[c].awaiting /\ r.running = cards[c].running
        /\ r.parts = cards[c].parts
    BY <1>1, <1>2 DEF Card
  <2>3. NeedsCombine(c)
    BY <1>2, <2>1 DEF TeamLead
  <2> HIDE DEF r, c
  <2>4. Keeps(cards[c], r, {}) /\ KeepsColumn(cards[c], r)
    BY <1>2, <2>2, <2>3 DEF Keeps, KeepsColumn, TeamCard, NeedsCombine, InWork, AllLanded
  <2> QED BY <1>6, <2>1, <2>4
<1>14. CASE CombineFail(g)
  <2> DEFINE r == [cards[c] EXCEPT !.status = "review"]
  <2>1. Write(c, TRUE, r) /\ ~Works(g)' /\ coord[g].kind = "combine"
    BY <1>4, <1>14 DEF CombineFail
  <2>2. /\ r.status = "review" /\ r.assignees = cards[c].assignees
        /\ r.awaiting = cards[c].awaiting /\ r.running = cards[c].running
        /\ r.parts = cards[c].parts
    BY <1>1, <1>2 DEF Card
  <2>3. NeedsCombine(c)
    BY <1>2, <2>1 DEF TeamLead
  <2> HIDE DEF r, c
  <2>4. Keeps(cards[c], r, {}) /\ KeepsColumn(cards[c], r)
    BY <1>2, <2>2, <2>3 DEF Keeps, KeepsColumn, TeamCard, NeedsCombine, InWork, AllLanded
  <2> QED BY <1>6, <2>1, <2>4
<1> QED BY <1>8, <1>9, <1>10, <1>11, <1>12, <1>13, <1>14 DEF CoordStep

\* A coordinator takes the lock of the card it has just found.
LEMMA TakeLockTeam ==
  ASSUME TypeInv, PromptInv, TeamInv, NEW g \in Coords, TakeLock(g)
  PROVE  TeamInv'
<1> DEFINE c == coord[g].card
           kind == coord[g].kind
           r == SetLock(c, kind, "held")
<1>1. /\ cards \in [Cards -> Card] /\ coord \in [Coords -> Coord]
      /\ kind \in {"split", "combine"} /\ c \in Cards /\ TeamCard(cards[c])
      /\ coord[g].pc = "found" /\ FreshDue(g)
  BY DEF TypeInv, TypeOK, TeamInv, TeamCards, Coord, PromptInv, TakeLock, FreshDue
<1>2. /\ Write(c, LockFree(c, kind), r)
      /\ coord' = [coord EXCEPT ![g] = IF LockFree(c, kind) THEN [@ EXCEPT !.pc = "slot"] ELSE NoCoord]
      /\ UNCHANGED <<pass, handler, member>>
  BY DEF TakeLock
<1>3. \A k \in Coords : k # g => coord'[k] = coord[k]
  BY <1>1, <1>2
<1>4. CASE LockFree(c, kind)
  <2>1. Exists(c) /\ LockOf(c, kind) # "held" /\ cards' = [cards EXCEPT ![c] = r] /\ cards'[c] = r
    BY <1>1, <1>2, <1>4 DEF LockFree, Write
  <2>2. coord'[g].pc = "slot" /\ coord'[g].card = c /\ coord'[g].kind = kind
    BY <1>1, <1>2, <1>4 DEF Coord
  <2>3. Keeps(cards[c], r, {}) /\ KeepsColumn(cards[c], r) /\ SameWork(cards[c], r)
    BY <1>1, LockWork, SameKeeps
  <2>4. IF kind = "split" THEN r.splitLock = "held" ELSE r.combineLock = "held"
    BY <1>1, LockWork
  <2>5. IF kind = "split" THEN NeedsSplit(c) ELSE NeedsCombine(c)
    BY <1>1 DEF FreshDue
  <2>6. ASSUME NEW k \in Coords, k # g, Works(k), coord[k].card = c PROVE FALSE
    <3>1. TeamLead(k) /\ coord[k].kind \in {"split", "combine"}
      BY <1>1 DEF TeamInv, TeamLeads, Coord
    <3>2. CASE coord[k].kind = kind
      BY <2>1, <2>6, <3>1, <3>2 DEF TeamLead
    <3>3. CASE coord[k].kind # kind
      BY <1>1, <2>1, <2>5, <2>6, <3>1, <3>3 DEF TeamLead, NeedsSplit, NeedsCombine
    <3> QED BY <3>2, <3>3
  <2> HIDE DEF r, c, kind
  <2>7. TeamLead(g)'
    <3>1. cards'[c].status # "none" /\ cards[c].status # "none"
      BY <2>1, <2>3 DEF SameWork, Exists
    <3>2. CASE kind = "split"
      BY <1>1, <2>1, <2>2, <2>3, <2>4, <2>5, <3>1, <3>2
      DEF TeamLead, LockOf, NeedsSplit, SameWork
    <3>3. CASE kind = "combine"
      BY <1>1, <2>1, <2>2, <2>3, <2>4, <2>5, <3>1, <3>3
      DEF TeamLead, LockOf, NeedsCombine, InWork, AllLanded, SameWork
    <3> QED BY <1>1, <3>2, <3>3
  <2> QED BY <1>1, <1>2, <1>3, <2>1, <2>2, <2>3, <2>6, <2>7, LeadWrites
<1>5. CASE ~LockFree(c, kind)
  <2>1. UNCHANGED cards /\ ~Works(g)'
    BY <1>1, <1>2, <1>5 DEF Write, Works, NoCoord
  <2>2. TeamLead(g)'
    BY <2>1 DEF TeamLead
  <2> QED BY <1>2, <1>3, <2>1, <2>2, LeadRests
<1> QED BY <1>4, <1>5

\* A coordinator finds a card.
LEMMA FindTeam ==
  ASSUME TypeInv, TeamInv, NEW g \in Coords, NEW k \in Kinds, NEW c \in Cards, FindDue(g, k, c)
  PROVE  TeamInv'
<1>1. /\ UNCHANGED <<cards, member, handler, pass>>
      /\ coord'[g].pc = "found" /\ \A x \in Coords : x # g => coord'[x] = coord[x]
  BY DEF FindDue, TypeInv, TypeOK
<1>2. ~Works(g)' /\ TeamLead(g)'
  BY <1>1 DEF Works, TeamLead
<1> QED BY <1>1, <1>2, LeadRests

\* Nobody holds a lock that expires.
LEMMA ExpiryTeam ==
  ASSUME TypeInv, TeamInv, NEW k \in Kinds, NEW c \in Cards, LockExpires(c, k)
  PROVE  TeamInv'
<1> DEFINE r == SetLock(c, k, "stale")
<1>1. cards \in [Cards -> Card] /\ TeamCard(cards[c])
  BY DEF TypeInv, TypeOK, TeamInv, TeamCards
<1>2. CASE Exists(c)
  <2>1. cards' = [cards EXCEPT ![c] = r] /\ UNCHANGED <<pass, handler, member, coord>>
    BY <1>2 DEF LockExpires, Write
  <2>2. Keeps(cards[c], r, {}) /\ KeepsColumn(cards[c], r) /\ SameWork(cards[c], r)
    BY <1>1, LockWork, SameKeeps
  <2>3. IF k = "split" THEN r.combineLock = cards[c].combineLock ELSE r.splitLock = cards[c].splitLock
    BY LockWork
  <2>4. cards'[c] = r /\ \A x \in Cards : x # c => cards'[x] = cards[x]
    BY <1>1, <2>1
  <2>5. \A x \in Cards : Keeps(cards[x], cards'[x], {}) /\ KeepsColumn(cards[x], cards'[x])
    BY <2>1, <2>2, <2>4, OneCard DEF TeamInv, KeepsColumn
  <2> HIDE DEF r
  <2>6. ASSUME NEW g \in Coords, Works(g) PROVE TeamLead(g)'
    <3>1. TeamLead(g) /\ coord[g].kind \in {"split", "combine"}
      BY DEF TeamInv, TeamLeads, TypeInv, TypeOK, Coord
    <3>2. CASE coord[g].card # c
      <4>1. cards'[coord[g].card] = cards[coord[g].card]
        BY <2>4, <2>6, <3>1, <3>2 DEF TeamLead
      <4> QED BY <2>1, <2>6, <3>1, <4>1
        DEF TeamLead, Works, Exists, LockOf, NeedsCombine, InWork, AllLanded
    <3>3. CASE coord[g].card = c
      <4>1. coord[g].kind # k /\ k \in {"split", "combine"}
        BY <2>6, <3>3 DEF LockExpires, Works, Kinds
      <4>2. CASE k = "split"
        BY <2>1, <2>2, <2>3, <2>4, <2>6, <3>1, <3>3, <4>1, <4>2
        DEF TeamLead, Works, Exists, LockOf, NeedsCombine, InWork, AllLanded, SameWork
      <4>3. CASE k = "combine"
        BY <2>1, <2>2, <2>3, <2>4, <2>6, <3>1, <3>3, <4>1, <4>3
        DEF TeamLead, Works, Exists, LockOf, SameWork
      <4> QED BY <4>1, <4>2, <4>3
    <3> QED BY <3>2, <3>3
  <2>7. \A g \in Coords : TeamLead(g)'
    BY <2>1, <2>6 DEF TeamLead, Works
  <2>8. \A x \in Cards : cards'[x].status = cards[x].status
    BY <2>2, <2>4 DEF SameWork
  <2>9. TeamLeads'
    <3>1. ASSUME NEW g \in Coords, NEW x \in Coords, Works(g), Works(x), coord[g].card = coord[x].card,
                 Exists(coord[g].card)'
          PROVE  g = x
      <4>1. Exists(coord[g].card)
        BY <2>1, <2>8, <3>1 DEF Exists, TeamInv, TeamLeads, TeamLead
      <4> QED BY <3>1, <4>1 DEF TeamInv, TeamLeads
    <3> QED BY <2>1, <2>7, <3>1 DEF TeamLeads, Works
  <2>10. TeamCards'
    BY <2>5 DEF Keeps, TeamCards
  <2>11. TeamPasses'
    BY <2>1, <2>5, PassKept DEF TeamPasses, TeamInv
  <2>12. TeamRequests'
    <3>1. ASSUME NEW x \in Actors PROVE TeamRequest(x)'
      BY <2>1, <2>5, RequestKept DEF TeamInv, TeamRequests
    <3> QED BY <2>1, <3>1 DEF TeamInv, TeamRequests
  <2>13. AllActive'
    BY <2>1 DEF TeamInv, AllActive
  <2> QED BY <2>9, <2>10, <2>11, <2>12, <2>13 DEF TeamInv
<1>3. CASE ~Exists(c)
  <2>1. UNCHANGED <<cards, pass, handler, member, coord>>
    BY <1>1, <1>3 DEF LockExpires, Write
  <2> QED BY <2>1 DEF TeamInv, TeamCards, TeamPasses, TeamPass, TeamRequests, TeamRequest, AllActive,
       TeamLeads, TeamLead, Works, Exists, LockOf, NeedsCombine, InWork, AllLanded
<1> QED BY <1>2, <1>3

\* Every step keeps the invariant.
LEMMA TeamStep ==
  ASSUME OneRequest, OneTeam, NobodyRests, TypeInv, CardsAtRest, OneCardPerMember, PromptInv, TeamInv,
         [PromptNext]_vars
  PROVE  TeamInv'
<1>1. CASE UNCHANGED vars
  BY <1>1 DEF vars, TeamInv, TeamCards, TeamPasses, TeamPass, TeamRequests, TeamRequest, AllActive,
     TeamLeads, TeamLead, Works, Exists, LockOf, NeedsCombine, InWork, AllLanded
<1>2. CASE Crash
  <2>1. /\ UNCHANGED <<cards, member>> /\ \A x \in Actors : handler'[x] = NoRequest
        /\ \A p \in Passes : pass'[p] = NoPass
        /\ \A g \in Coords : coord'[g] = NoCoord
    BY <1>2 DEF Crash
  <2>2. TeamCards' /\ TeamPasses' /\ TeamLeads' /\ AllActive'
    BY <2>1 DEF TeamInv, TeamCards, TeamPasses, TeamPass, TeamLeads, TeamLead, Works, AllActive,
       NoPass, NoCoord
  <2>3. TeamRequests'
    BY <2>1 DEF TeamRequests, TeamRequest, NoRequest, Actors
  <2> QED BY <2>2, <2>3 DEF TeamInv
<1>3. CASE Next
  BY <1>2, <1>3, UserTeam, RequestStepTeam, SweepTeam, PassTeam, CoordTeam, TakeLockTeam, FindTeam,
     ExpiryTeam DEF Next
<1> QED BY <1>1, <1>3, PromptIsNext

\* A card under review has every member's part: nobody of the team is awaited or runs, as long as one
\* team's members are neither paused nor fired, its owner's requests come one at a time, and nobody
\* comes between the worker's Find and its update.
THEOREM ReviewHasEveryPassHolds ==
  ASSUME OneRequest, OneTeam, NobodyRests
  PROVE  PromptSpec => []ReviewHasEveryPass
<1>1. Init => TypeInv /\ PromptInv /\ TeamInv
  <2>1. Init => TeamInv
    BY DEF Init, TeamInv, TeamCards, TeamCard, TeamPasses, TeamPass, TeamRequests, TeamRequest,
       AllActive, TeamLeads, TeamLead, Works, NoCard, NoRequest, NoPass, NoCoord, Actors
  <2> QED BY <2>1, InitTypeInv, PromptInit
<1>2. PromptSpec => Spec
  BY PromptIsNext, PTL DEF PromptSpec, Spec
<1>3. TypeInv /\ PromptInv /\ [PromptNext]_vars => TypeInv' /\ PromptInv'
  BY PromptIsNext, NextTypeInv, PromptStep
<1>4. TypeInv /\ CardsAtRest /\ OneCardPerMember /\ PromptInv /\ TeamInv /\ [PromptNext]_vars => TeamInv'
  BY TeamStep
<1>5. TeamInv => ReviewHasEveryPass
  BY DEF TeamInv, TeamCards, TeamCard, ReviewHasEveryPass
<1> QED BY <1>1, <1>2, <1>3, <1>4, <1>5, CardsAtRestHolds, OneCardPerMemberHolds, PTL DEF PromptSpec

=============================================================================
