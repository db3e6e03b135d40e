---------------------------- MODULE CrewPipeline ----------------------------
(***************************************************************************)
(* The card pipeline of Crew (services/crew_service.go, crew_worker.go and *)
(* crew_coordinator.go).  Cards are MongoDB documents; every service       *)
(* method is one or more single-document updates, and between two updates  *)
(* of one method anybody else may run.  Three kinds of process share them: *)
(*                                                                         *)
(*   handlers   the user's HTTP requests.  A request that reads a card and *)
(*              then writes it by _id is two steps here.                   *)
(*   passes     the goroutines the worker's tick starts for a member: wait *)
(*              for a slot, claim a card, run the agent, submit its output.*)
(*   coords     the goroutines that split a card with several assignees    *)
(*              and combine their parts, guarded by locks on the card.     *)
(*                                                                         *)
(* A server crash forgets the processes, the busy map and the slots, and   *)
(* keeps the cards.  Texts, prompts and outputs are abstracted: a revision *)
(* is its position, and `cycle' names the members whose passes landed      *)
(* since the last combined deliverable.                                    *)
(***************************************************************************)
EXTENDS Integers, FiniteSets

CONSTANTS
  Members,     \* crew members of the project
  Cards,       \* cards the user may create
  Handlers,    \* HTTP requests that may be in flight together
  Tick,        \* the worker's ticker, for its recurring-card sweep
  Passes,      \* goroutines available for member passes
  Coords,      \* goroutines available for split and combine
  Slots,       \* NewCrewWorker's concurrency
  None,        \* no member, no card
  Teams,       \* the assignee lists the user picks from
  Deps,        \* the dependencies asked for when a card is created
  Recurring,   \* cards created with a repeat cadence
  Pausable,    \* members the user may pause and resume
  Fireable,    \* members the user may fire
  MaxRounds,   \* bound: times one card may be queued
  MaxCrashes   \* bound: server crashes

ASSUME ConstantsAssumption ==
  /\ IsFiniteSet(Passes) /\ IsFiniteSet(Coords)
  /\ None \notin Members \cup Cards
  /\ Tick \notin Handlers
  /\ Slots \in Nat \ {0}
  /\ MaxRounds \in Nat
  /\ MaxCrashes \in Nat
  /\ Teams \subseteq SUBSET Members
  /\ Deps \in [Cards -> SUBSET Cards]
  /\ Recurring \subseteq Cards
  /\ Pausable \subseteq Members
  /\ Fireable \subseteq Members

VARIABLES
  cards,       \* the cards collection
  member,      \* status of every member document
  handler,     \* requests in flight, and the ticker's sweep
  pass,        \* member passes
  coord,       \* split and combine goroutines
  busy,        \* CrewWorker.busy
  crashes      \* crashes so far

vars == <<cards, member, handler, pass, coord, busy, crashes>>

-----------------------------------------------------------------------------
Status == {"none", "draft", "queued", "working", "review", "done", "gone"}
Lock   == {"free", "held", "stale"}

Card == [
  status      : Status,          \* "none": not created yet, "gone": deleted
  assignees   : SUBSET Members,
  legacy      : {"absent", "empty"}, \* the assigneeId field of the document
  deps        : SUBSET Cards,
  awaiting    : SUBSET Members,
  running     : SUBSET Members,
  parts       : SUBSET Members,  \* who has a sub-brief; {}: no such field
  splitLock   : Lock,
  combineLock : Lock,
  cycle       : SUBSET Members,  \* landed since the last team deliverable
  revs        : Nat,             \* len(Revisions)
  approved    : Nat,             \* the last revision approved, 0 for none
  repeat      : BOOLEAN,         \* a cadence is set
  due         : BOOLEAN,         \* nextRunAt is set
  rounds      : Nat ]            \* bounded by MaxRounds

Actors  == Handlers \cup {Tick}
Request == [ pc   : {"idle", "promote", "approve", "changes", "requeue",
                     "retire", "fallback", "dismiss"},
             card : Cards \cup {None},
             who  : SUBSET Members,      \* computed awaiting; or who is fired
             ids  : SUBSET Members,      \* assignees read
             last : Nat ]                \* len(Revisions) read
Pass    == [ pc : {"idle", "slot", "pick", "claim", "run", "finish"},
             member : Members \cup {None}, card : Cards \cup {None} ]
Coord   == [ pc : {"idle", "found", "slot", "start", "run"},
             kind : {"split", "combine"}, card : Cards \cup {None},
             snap : SUBSET Members ]

TypeOK ==
  /\ cards \in [Cards -> Card]
  /\ member \in [Members -> {"active", "paused", "fired"}]
  /\ handler \in [Actors -> Request]
  /\ pass \in [Passes -> Pass]
  /\ coord \in [Coords -> Coord]
  /\ busy \subseteq Members
  /\ crashes \in 0..MaxCrashes

NoRequest == [pc |-> "idle", card |-> None, who |-> {}, ids |-> {}, last |-> 0]
NoPass    == [pc |-> "idle", member |-> None, card |-> None]
NoCoord   == [pc |-> "idle", kind |-> "split", card |-> None, snap |-> {}]
NoCard    == [ status |-> "none", assignees |-> {}, legacy |-> "absent",
               deps |-> {}, awaiting |-> {}, running |-> {}, parts |-> {},
               splitLock |-> "free", combineLock |-> "free", cycle |-> {},
               revs |-> 0, approved |-> 0, repeat |-> FALSE, due |-> FALSE,
               rounds |-> 0 ]

Init ==
  /\ cards = [c \in Cards |-> NoCard]
  /\ member = [m \in Members |-> "active"]
  /\ handler = [a \in Actors |-> NoRequest]
  /\ pass = [p \in Passes |-> NoPass]
  /\ coord = [g \in Coords |-> NoCoord]
  /\ busy = {}
  /\ crashes = 0

-----------------------------------------------------------------------------
(* Helpers.  X_how, defined just before X, is a mistaken X: what would     *)
(* break the properties below.  No specification uses it.                  *)

Exists(c) == cards[c].status \notin {"none", "gone"}
Active    == {m \in Members : member[m] = "active"}

\* An UpdateOne: the document becomes r when the filter matched, and an update
\* whose filter matches nothing is no error.
Write(c, filter, r) ==
  cards' = [cards EXCEPT ![c] = IF Exists(c) /\ filter THEN r ELSE @]

\* Slots are held from the moment a goroutine leaves its select until it ends.
SlotsTaken ==
  Cardinality({p \in Passes : pass[p].pc \in {"pick", "claim", "run", "finish"}})
    + Cardinality({g \in Coords : coord[g].pc \in {"start", "run"}})

\* A select gives up after five seconds.  Only agent runs hold a slot that long.
Saturated ==
  Cardinality({p \in Passes : pass[p].pc = "run"})
    + Cardinality({g \in Coords : coord[g].pc = "run"}) >= Slots

DepsSatisfied_review(c) ==
  \A d \in cards[c].deps : Exists(d) => cards[d].status \in {"review", "done"}
\* A dependency that was deleted blocks nothing.
DepsSatisfied(c) ==
  \A d \in cards[c].deps : Exists(d) => cards[d].status = "done"

InWork_any(c) == TRUE
\* The filter of every update that reports on work.
InWork(c) == cards[c].status = "working"

AllLanded_running(c) == cards[c].running = {}
AllLanded(c) == cards[c].awaiting = {} /\ cards[c].running = {}

FreeSlot == SlotsTaken < Slots

LastRevision_index(c) == cards[c].revs - 1
\* ReviewCard stamps the review on revision len(Revisions)-1, counted from 0.
LastRevision(c) == cards[c].revs

BackToDraft_status(c) == [cards[c] EXCEPT !.status = "draft"]
\* The whole card returns to draft, and its in-flight state is cleared.
BackToDraft(c) ==
  [cards[c] EXCEPT !.status = "draft", !.awaiting = {}, !.running = {}]

-----------------------------------------------------------------------------
(* Requests that are one update.                                           *)

Idle(a)   == handler[a].pc = "idle"
NoScan    == \A g \in Coords : coord[g].pc # "found"
NoFind    == NoScan /\ \A p \in Passes : pass[p].pc # "claim"
Finish(a) == handler' = [handler EXCEPT ![a] = NoRequest]

CreateCard(h, c, team) ==
  /\ Idle(h)
  /\ cards[c].status = "none"
  /\ \A m \in team : member[m] # "fired"
  /\ cards' = [cards EXCEPT ![c] =
       [NoCard EXCEPT !.status = "draft", !.assignees = team,
                      !.repeat = c \in Recurring, !.deps = {d \in Deps[c] : Exists(d)}]]
  /\ UNCHANGED <<member, handler, pass, coord, busy, crashes>>

UpdateDraft(h, c, team) ==
  /\ Idle(h)
  /\ cards[c].status = "draft"
  /\ Write(c, TRUE, [cards[c] EXCEPT !.assignees = team, !.legacy = "empty"])
  /\ UNCHANGED <<member, handler, pass, coord, busy, crashes>>

DeleteCard(h, c) ==
  /\ Idle(h)
  /\ cards[c].status \in {"draft", "done"}
  /\ Write(c, TRUE, [NoCard EXCEPT !.status = "gone"])
  /\ UNCHANGED <<member, handler, pass, coord, busy, crashes>>

Unclaimed_working(c) == cards[c].status \in {"queued", "working"}
\* Nobody has claimed the card yet.
Unclaimed(c) == cards[c].status = "queued" /\ cards[c].running = {}

UnqueueCard(h, c) ==
  /\ Idle(h)
  /\ Unclaimed(c)
  /\ Write(c, TRUE, [cards[c] EXCEPT !.status = "draft", !.awaiting = {}])
  /\ UNCHANGED <<member, handler, pass, coord, busy, crashes>>

SetMemberStatus(h, m, status) ==
  /\ Idle(h)
  /\ member[m] # "fired"
  /\ member' = [member EXCEPT ![m] = status]
  /\ UNCHANGED <<cards, handler, pass, coord, busy, crashes>>

-----------------------------------------------------------------------------
(* Requests that read, decide, and then write by _id.                      *)

\* Remember what a request on card c read, and count the round it opens.
Read(a, pc, c, who, round) ==
  /\ handler' = [handler EXCEPT ![a] =
       [pc |-> pc, card |-> c, who |-> who, ids |-> cards[c].assignees,
        last |-> LastRevision(c)]]
  /\ round => cards[c].rounds < MaxRounds
  /\ cards' = [cards EXCEPT ![c].rounds = IF round THEN @ + 1 ELSE @]
  /\ UNCHANGED <<member, pass, coord, busy, crashes>>

Promotable(c) == cards[c].status = "draft"

PromoteRead(h, c) ==
  /\ Idle(h)
  /\ Promotable(c)
  /\ cards[c].assignees \cap Active # {}
  /\ Read(h, "promote", c, cards[c].assignees \cap Active, TRUE)

PromoteWrite(h) ==
  LET c == handler[h].card IN
  /\ handler[h].pc = "promote"
  /\ Write(c, TRUE, [cards[c] EXCEPT !.status = "queued",
                                     !.awaiting = handler[h].who,
                                     !.running = {},
                                     !.assignees = handler[h].ids])
  /\ Finish(h)
  /\ UNCHANGED <<member, pass, coord, busy, crashes>>

ApproveRead(h, c) ==
  /\ Idle(h)
  /\ cards[c].status = "review" /\ cards[c].revs > 0
  /\ Read(h, "approve", c, {}, FALSE)

ApproveWrite(h) ==
  LET c == handler[h].card IN
  /\ handler[h].pc = "approve"
  /\ Write(c, TRUE, [cards[c] EXCEPT !.status = "done",
                                     !.approved = handler[h].last,
                                     !.due = @ \/ cards[c].repeat,
                                     !.combineLock = "free"])
  /\ Finish(h)
  /\ UNCHANGED <<member, pass, coord, busy, crashes>>

ChangesRead(h, c) ==
  /\ Idle(h)
  /\ cards[c].status = "review" /\ cards[c].revs > 0
  /\ cards[c].assignees \cap Active # {}
  /\ Read(h, "changes", c, cards[c].assignees \cap Active, TRUE)

ChangesWrite(h) ==
  LET c == handler[h].card IN
  /\ handler[h].pc = "changes"
  /\ Write(c, TRUE, [cards[c] EXCEPT !.status = "queued",
                                     !.awaiting = handler[h].who,
                                     !.running = {},
                                     !.approved = IF @ = handler[h].last THEN 0 ELSE @,
                                     !.combineLock = "free"])
  /\ Finish(h)
  /\ UNCHANGED <<member, pass, coord, busy, crashes>>

\* FireMember: pull the member from every card it is assigned to, move cards
\* with no assignee left to draft, and only then delete the member.  The second
\* filter asks for assigneeId = "", which a document without the field fails.
FireMember(h, m) ==
  /\ Idle(h)
  /\ m \in Fireable /\ member[m] # "fired"
  /\ cards' = [c \in Cards |->
       IF m \in cards[c].assignees
         THEN [cards[c] EXCEPT !.assignees = @ \ {m}, !.awaiting = @ \ {m},
                               !.running = @ \ {m}]
         ELSE cards[c]]
  /\ handler' = [handler EXCEPT ![h].pc = "fallback", ![h].who = {m}]
  /\ UNCHANGED <<member, pass, coord, busy, crashes>>

FireFallback(h) ==
  /\ handler[h].pc = "fallback"
  /\ cards' = [c \in Cards |->
       IF /\ cards[c].status \in {"queued", "working"}
          /\ cards[c].assignees = {} /\ cards[c].legacy = "empty"
         THEN BackToDraft(c)
         ELSE cards[c]]
  /\ handler' = [handler EXCEPT ![h].pc = "dismiss"]
  /\ UNCHANGED <<member, pass, coord, busy, crashes>>

FireDelete(h) ==
  /\ handler[h].pc = "dismiss"
  /\ member' = [m \in Members |-> IF m \in handler[h].who THEN "fired" ELSE member[m]]
  /\ Finish(h)
  /\ UNCHANGED <<cards, pass, coord, busy, crashes>>

-----------------------------------------------------------------------------
(* RequeueDueRecurring: a sweep of the tick, which does one thing at a     *)
(* time: it does not sweep between the Find and the updates of a scan.     *)

RequeueRead(c) ==
  /\ Idle(Tick)
  /\ NoScan
  /\ cards[c].status = "done" /\ cards[c].repeat /\ cards[c].due
  /\ cards[c].assignees \cap Active # {}
  /\ Read(Tick, "requeue", c, cards[c].assignees \cap Active, TRUE)

RequeueWrite ==
  LET c == handler[Tick].card IN
  /\ handler[Tick].pc = "requeue"
  /\ Write(c, cards[c].status = "done",
           [cards[c] EXCEPT !.status = "queued", !.awaiting = handler[Tick].who,
                            !.running = {}, !.due = FALSE, !.combineLock = "free"])
  /\ Finish(Tick)
  /\ UNCHANGED <<member, pass, coord, busy, crashes>>

\* The card of an archived project is retired instead, whatever its status is.
RetireRead(c) ==
  /\ Idle(Tick)
  /\ NoScan
  /\ cards[c].status = "done" /\ cards[c].repeat /\ cards[c].due
  /\ Read(Tick, "retire", c, {}, FALSE)

RetireWrite ==
  LET c == handler[Tick].card IN
  /\ handler[Tick].pc = "retire"
  /\ Write(c, TRUE, [cards[c] EXCEPT !.repeat = FALSE, !.due = FALSE])
  /\ Finish(Tick)
  /\ UNCHANGED <<member, pass, coord, busy, crashes>>

-----------------------------------------------------------------------------
(* Member passes.                                                          *)

Step(p, pc) == pass' = [pass EXCEPT ![p].pc = pc]

EndPass_leak(p) == pass' = [pass EXCEPT ![p] = NoPass] /\ UNCHANGED busy
\* The goroutine ends: its defers free the slot and the member.
EndPass(p) ==
  /\ pass' = [pass EXCEPT ![p] = NoPass]
  /\ busy' = busy \ {pass[p].member}

NotBusy_always(m) == TRUE
\* tick finds an active member with a pending pass and takes its busy entry.
NotBusy(m) == m \notin busy

StartPass(p, m) ==
  /\ pass[p].pc = "idle"
  /\ member[m] = "active"
  /\ \E c \in Cards : cards[c].status \in {"queued", "working"} /\ m \in cards[c].awaiting
  /\ NotBusy(m)
  /\ busy' = busy \cup {m}
  /\ pass' = [pass EXCEPT ![p] = [pc |-> "slot", member |-> m, card |-> None]]
  /\ UNCHANGED <<cards, member, handler, coord, crashes>>

PassSlot(p) ==
  /\ pass[p].pc = "slot"
  /\ FreeSlot
  /\ Step(p, "pick")
  /\ UNCHANGED <<cards, member, handler, coord, busy, crashes>>

PassSaturated(p) ==
  /\ pass[p].pc = "slot"
  /\ Saturated
  /\ EndPass(p)
  /\ UNCHANGED <<cards, member, handler, coord, crashes>>

\* ClaimNextCard reads candidates: cards that await the member, whose
\* dependencies are satisfied, and that are split when several are assigned.
Candidate(m, c) ==
  /\ cards[c].status \in {"queued", "working"}
  /\ m \in cards[c].awaiting
  /\ DepsSatisfied(c)
  /\ Cardinality(cards[c].assignees) > 1 => cards[c].parts # {}

PickCandidate(p, c) ==
  /\ pass[p].pc = "pick"
  /\ Candidate(pass[p].member, c)
  /\ pass' = [pass EXCEPT ![p].pc = "claim", ![p].card = c]
  /\ UNCHANGED <<cards, member, handler, coord, busy, crashes>>

NoCandidate(p) ==
  /\ pass[p].pc = "pick"
  /\ \A c \in Cards : ~ Candidate(pass[p].member, c)
  /\ EndPass(p)
  /\ UNCHANGED <<cards, member, handler, coord, crashes>>

\* ... and claims one with a findOneAndUpdate, or goes on when it raced away.
Claimable(m, c) ==
  m \in cards[c].awaiting /\ cards[c].status \in {"queued", "working"}

ClaimCard(p) ==
  LET m == pass[p].member  c == pass[p].card IN
  /\ pass[p].pc = "claim"
  /\ Claimable(m, c)
  /\ Write(c, TRUE, [cards[c] EXCEPT !.awaiting = @ \ {m}, !.running = @ \cup {m},
                                     !.status = "working"])
  /\ Step(p, "run")
  /\ UNCHANGED <<member, handler, coord, busy, crashes>>

ClaimRaced(p) ==
  /\ pass[p].pc = "claim"
  /\ ~ Claimable(pass[p].member, pass[p].card)
  /\ pass' = [pass EXCEPT ![p].pc = "pick", ![p].card = None]
  /\ UNCHANGED <<cards, member, handler, coord, busy, crashes>>

\* SubmitOutput with an error, an empty output or a timeout of the run.
PassFail(p) ==
  LET c == pass[p].card IN
  /\ pass[p].pc = "run"
  /\ Write(c, InWork(c), BackToDraft(c))
  /\ EndPass(p)
  /\ UNCHANGED <<member, handler, coord, crashes>>

\* SubmitOutput, first update: the member's output lands on the card.
Landed(c, m) ==
  [cards[c] EXCEPT !.running = @ \ {m}, !.revs = @ + 1, !.cycle = @ \cup {m}]

PassLand(p) ==
  LET m == pass[p].member  c == pass[p].card IN
  /\ pass[p].pc = "run"
  /\ Write(c, InWork(c), Landed(c, m))
  /\ Step(p, "finish")
  /\ UNCHANGED <<member, handler, coord, busy, crashes>>

ReadyForReview_parts(c) == InWork(c) /\ AllLanded(c) /\ cards[c].parts # {}
\* SubmitOutput, second update: every pass in and no parts, so to review.
ReadyForReview(c) == InWork(c) /\ AllLanded(c) /\ cards[c].parts = {}

PassFinish(p) ==
  LET c == pass[p].card IN
  /\ pass[p].pc = "finish"
  /\ Write(c, ReadyForReview(c), [cards[c] EXCEPT !.status = "review"])
  /\ EndPass(p)
  /\ UNCHANGED <<member, handler, coord, crashes>>

-----------------------------------------------------------------------------
(* Split and combine.                                                      *)

NeedsSplit(c) ==
  /\ cards[c].status = "queued"
  /\ Cardinality(cards[c].assignees) > 1
  /\ cards[c].parts = {}

NeedsCombine(c) == InWork(c) /\ cards[c].parts # {} /\ AllLanded(c)

\* handleSplits and handleCombines find the cards that are due, keeping what
\* they read of them, ...
FindDue(g, kind, c) ==
  /\ coord[g].pc = "idle"
  /\ Idle(Tick)
  /\ ~ \E x \in Coords : coord[x].pc = "found" /\ coord[x].kind = kind /\ coord[x].card = c
  /\ IF kind = "split" THEN NeedsSplit(c) ELSE NeedsCombine(c)
  /\ coord' = [coord EXCEPT ![g] =
       [pc |-> "found", kind |-> kind, card |-> c,
        snap |-> IF kind = "split" THEN cards[c].assignees ELSE cards[c].cycle]]
  /\ UNCHANGED <<cards, member, handler, pass, busy, crashes>>

SetLock(c, kind, to) ==
  IF kind = "split" THEN [cards[c] EXCEPT !.splitLock = to]
                    ELSE [cards[c] EXCEPT !.combineLock = to]
LockOf(c, kind) == IF kind = "split" THEN cards[c].splitLock ELSE cards[c].combineLock

\* ... and take the card's lock if it is absent or stale.
LockFree(c, kind) == Exists(c) /\ LockOf(c, kind) # "held"

TakeLock(g) ==
  LET c == coord[g].card  kind == coord[g].kind  free == LockFree(c, kind) IN
  /\ coord[g].pc = "found"
  /\ Write(c, free, SetLock(c, kind, "held"))
  /\ coord' = [coord EXCEPT ![g] = IF free THEN [@ EXCEPT !.pc = "slot"] ELSE NoCoord]
  /\ UNCHANGED <<member, handler, pass, busy, crashes>>

EndCoord(g) == coord' = [coord EXCEPT ![g] = NoCoord]

CoordSlot(g) ==
  /\ coord[g].pc = "slot"
  /\ FreeSlot
  /\ coord' = [coord EXCEPT ![g].pc = "start"]
  /\ UNCHANGED <<cards, member, handler, pass, busy, crashes>>

CoordSaturated(g) ==
  /\ coord[g].pc = "slot"
  /\ Saturated
  /\ Write(coord[g].card, TRUE, SetLock(coord[g].card, coord[g].kind, "free"))
  /\ EndCoord(g)
  /\ UNCHANGED <<member, handler, pass, busy, crashes>>

\* runSplit keeps the assignees that are still members, runCombine the parts of
\* this cycle; with fewer than two members, or no part, the lock is given back.
CoordStart(g) ==
  LET c == coord[g].card  kind == coord[g].kind
      work == IF kind = "split" THEN {m \in coord[g].snap : member[m] # "fired"}
                                ELSE coord[g].snap
      some == IF kind = "split" THEN Cardinality(work) > 1 ELSE work # {} IN
  /\ coord[g].pc = "start"
  /\ Write(c, ~ some, SetLock(c, kind, "free"))
  /\ coord' = [coord EXCEPT ![g] =
       IF some THEN [@ EXCEPT !.pc = "run", !.snap = work] ELSE NoCoord]
  /\ UNCHANGED <<member, handler, pass, busy, crashes>>

\* Every assignee works: those the team lead's plan missed get a part as well.
Briefed(g) == coord[g].snap

SplitDone(g) ==
  LET c == coord[g].card IN
  /\ coord[g].pc = "run" /\ coord[g].kind = "split"
  /\ Write(c, TRUE, [cards[c] EXCEPT !.parts = Briefed(g), !.splitLock = "free"])
  /\ EndCoord(g)
  /\ UNCHANGED <<member, handler, pass, busy, crashes>>

SplitFail(g) ==
  LET c == coord[g].card IN
  /\ coord[g].pc = "run" /\ coord[g].kind = "split"
  /\ Write(c, TRUE, [BackToDraft(c) EXCEPT !.splitLock = "free"])
  /\ EndCoord(g)
  /\ UNCHANGED <<member, handler, pass, busy, crashes>>

CombineDone(g) ==
  LET c == coord[g].card IN
  /\ coord[g].pc = "run" /\ coord[g].kind = "combine"
  /\ Write(c, InWork(c),
           [cards[c] EXCEPT !.status = "review", !.revs = @ + 1, !.cycle = {}])
  /\ EndCoord(g)
  /\ UNCHANGED <<member, handler, pass, busy, crashes>>

\* The human sees the raw parts instead.
CombineFail(g) ==
  LET c == coord[g].card IN
  /\ coord[g].pc = "run" /\ coord[g].kind = "combine"
  /\ Write(c, TRUE, [cards[c] EXCEPT !.status = "review"])
  /\ EndCoord(g)
  /\ UNCHANGED <<member, handler, pass, busy, crashes>>

\* A lock becomes stale after ten minutes; the goroutine that took it has ended
\* by then, since its run is cancelled after three or five.
LockExpires(c, kind) ==
  /\ LockOf(c, kind) = "held"
  /\ ~ \E g \in Coords : /\ coord[g].pc # "idle"
                         /\ coord[g].kind = kind /\ coord[g].card = c
  /\ Write(c, TRUE, SetLock(c, kind, "stale"))
  /\ UNCHANGED <<member, handler, pass, coord, busy, crashes>>

-----------------------------------------------------------------------------
(* The server stops and starts again: goroutines and memory are lost.      *)
Crash ==
  /\ crashes < MaxCrashes
  /\ crashes' = crashes + 1
  /\ handler' = [a \in Actors |-> NoRequest]
  /\ pass' = [p \in Passes |-> NoPass]
  /\ coord' = [g \in Coords |-> NoCoord]
  /\ busy' = {}
  /\ UNCHANGED <<cards, member>>

-----------------------------------------------------------------------------
UserRequest(h) ==
  \/ \E c \in Cards, team \in Teams : CreateCard(h, c, team) \/ UpdateDraft(h, c, team)
  \/ \E c \in Cards : DeleteCard(h, c) \/ UnqueueCard(h, c)
  \/ \E m \in Pausable, s \in {"active", "paused"} : SetMemberStatus(h, m, s)
  \/ \E c \in Cards : PromoteRead(h, c) \/ ApproveRead(h, c) \/ ChangesRead(h, c)
  \/ \E m \in Members : FireMember(h, m)

RequestStep(h) ==
  \/ PromoteWrite(h) \/ ApproveWrite(h) \/ ChangesWrite(h)
  \/ FireFallback(h) \/ FireDelete(h)

SweepWrite == RequeueWrite \/ RetireWrite
Sweep      == SweepWrite \/ \E c \in Cards : RequeueRead(c) \/ RetireRead(c)

\* The update that follows a worker's Find.
Claim(p) == ClaimCard(p) \/ ClaimRaced(p)

PassStep(p) ==
  \/ PassSlot(p) \/ PassSaturated(p)
  \/ \E c \in Cards : PickCandidate(p, c)
  \/ NoCandidate(p) \/ PassFail(p) \/ PassLand(p) \/ PassFinish(p)

CoordStep(g) ==
  \/ CoordSlot(g) \/ CoordSaturated(g) \/ CoordStart(g)
  \/ SplitDone(g) \/ SplitFail(g) \/ CombineDone(g) \/ CombineFail(g)

Kinds == {"split", "combine"}

Next ==
  \/ \E h \in Handlers : UserRequest(h) \/ RequestStep(h)
  \/ Sweep
  \/ \E p \in Passes : PassStep(p) \/ Claim(p) \/ \E m \in Members : StartPass(p, m)
  \/ \E g \in Coords : CoordStep(g) \/ TakeLock(g) \/ \E k \in Kinds, c \in Cards : FindDue(g, k, c)
  \/ \E k \in Kinds, c \in Cards : LockExpires(c, k)
  \/ Crash

\* A worker's Find and its update are milliseconds apart.  PromptNext lets
\* nobody else run between them, for what holds but for that window.
PromptNext ==
  \/ NoFind /\ Next
  \/ \E p \in Passes : Claim(p)
  \/ \E g \in Coords : TakeLock(g)

\* Goroutines run and the ticker ticks; a request that was accepted completes.
\* Slots are strongly fair: a Go channel queues its blocked senders in order.
\* Nothing is assumed of the user, of crashes, or of how a run ends.
Fairness ==
  /\ \A h \in Handlers : WF_vars(RequestStep(h))
  /\ WF_vars(SweepWrite)
  /\ \A p \in Passes : WF_vars(PassStep(p)) /\ WF_vars(Claim(p)) /\ SF_vars(PassSlot(p))
  /\ \A m \in Members : WF_vars(\E p \in Passes : StartPass(p, m))
  /\ \A g \in Coords : WF_vars(CoordStep(g)) /\ WF_vars(TakeLock(g)) /\ SF_vars(CoordSlot(g))
  /\ \A k \in Kinds, c \in Cards :
       WF_vars(\E g \in Coords : FindDue(g, k, c)) /\ WF_vars(LockExpires(c, k))

Spec       == Init /\ [][Next]_vars
FairSpec   == Spec /\ Fairness
PromptSpec == Init /\ [][PromptNext]_vars
PromptFair == PromptSpec /\ Fairness
-----------------------------------------------------------------------------
(* What the pipeline promises.                                             *)

\* One member never runs two cards at once, nor one card twice: the busy map
\* admits one goroutine per member from the tick to the end of its pass.
OneCardPerMember ==
  \A p, q \in Passes :
    p # q /\ pass[p].pc # "idle" /\ pass[q].pc # "idle" => pass[p].member # pass[q].member

\* A draft holds no pending and no running pass, a queued card no running one,
\* and no pass is both: what a draft is edited on is what its next round runs.
CardsAtRest ==
  \A c \in Cards :
    /\ cards[c].status = "draft" => cards[c].awaiting = {} /\ cards[c].running = {}
    /\ cards[c].status = "queued" => cards[c].running = {}
    /\ cards[c].awaiting \cap cards[c].running = {}

\* Nothing ships unseen: the latest output of a done card is the revision its
\* human approved, not one that landed after the human looked.
NothingShipsUnseen ==
  \A c \in Cards : cards[c].status = "done" => cards[c].approved = cards[c].revs

\* A card under review has nobody left to hear from.
ReviewHasEveryPass ==
  \A c \in Cards : cards[c].status = "review" =>
    cards[c].awaiting = {} /\ cards[c].running = {}

\* A member starts on a card only while every dependency that still exists is
\* done.
ClaimsRespectDeps ==
  [][\A c \in Cards :
       ~ (cards'[c].running \subseteq cards[c].running) =>
         \A d \in cards[c].deps : cards[d].status \in {"done", "gone"}]_vars

\* Output lands only in the round that asked for it: a pass that adds a revision
\* is one the card counts as running.
LandsInItsRound ==
  [][\A p \in Passes :
       /\ pass[p].pc = "run" /\ pass'[p].pc = "finish"
       /\ cards'[pass[p].card].revs > cards[pass[p].card].revs
       => pass[p].member \in cards[pass[p].card].running]_vars

\* Work in progress comes to the human, as a review or as a draft with an error.
WorkComesBack ==
  \A c \in Cards : cards[c].status = "working" ~> cards[c].status # "working"

\* A queued card whose dependencies are done and that waits for a member who may
\* work is claimed, unless the user or the dependency changes its mind.
Servable(c) ==
  cards[c].status = "queued" /\ DepsSatisfied(c) /\ cards[c].awaiting \cap Active # {}
QueuedIsServed == \A c \in Cards : Servable(c) ~> ~ Servable(c)

-----------------------------------------------------------------------------
\* The board as the user sees it.
Board == INSTANCE CrewBoard WITH
  column  <- [c \in Cards |-> cards[c].status],
  output  <- [c \in Cards |-> cards[c].revs],
  shipped <- [c \in Cards |-> cards[c].approved]
BoardSpec == Board!Spec
=============================================================================
