------------------------- MODULE SessionClientProofs -------------------------
(***************************************************************************)
(* Proofs about SessionClient, for any set of leases, any number of        *)
(* requests and breaks, and any of the faults: its types, that the count   *)
(* of a session never exceeds the leases that are held (CInv), and, as     *)
(* long as nothing crosses, that an exclusive lease is the only one in use *)
(* and that no detach is asked for under somebody who uses the session     *)
(* (EInv).                                                                 *)
(***************************************************************************)
EXTENDS SessionClient, FiniteSetTheorems, TLAPS

\* The types of the records.
Wait     == {"awaitDetach", "reconciling", "reconciled", "attaching"}
Closure  == [pc : Wait \cup {"none", "active", "releasing"}, mode : Modes, generation : Nat,
             waits : 0 .. MaxRequests, relinquish : BOOLEAN]
Registry == [count : Nat, exclusive : Lease \cup {None}, generation : Nat,
             cleanup : BOOLEAN, attachment : 0 .. MaxRequests, detachment : 0 .. MaxRequests,
             reconciliation : 0 .. MaxRequests, crossed : BOOLEAN]

Requests ==
  /\ promise \in [Ids -> [command : {"none", "attach", "detach"},
                          state : {"none", "sent", "done", "refused", "ok", "error"}]]
  /\ sequence \in 0 .. MaxRequests

\* What the count becomes when a lease is struck off.
Down(n) == IF n <= 1 THEN 0 ELSE n - 1

\* A step of the holder a, which leaves it with a place in a count of n, or without one and
\* the count lowered.
Takes(a, n) ==
  \E l \in Closure :
    /\ lease' = [lease EXCEPT ![a] = l]
    /\ registry' \in Registry
    /\ registry'.generation = registry.generation
    /\ \/ /\ l.pc \in Wait \/ (l.pc = "active" /\ l.generation = registry.generation)
          /\ registry'.count = n
       \/ /\ l.pc = "none"
          /\ registry'.count = Down(n)

\* The types, by record.
LEMMA Types ==
  TypeOK <=> /\ link \in {"disconnected", "connecting", "connected", "disposed"}
             /\ Requests
             /\ lease \in [Lease -> Closure]
             /\ registry \in Registry
             /\ attached \in BOOLEAN
             /\ serverAttached \in BOOLEAN
             /\ inbox \in Seq(Messages)
<1>1. Wait \cup {"none", "active", "releasing"} =
        {"none", "awaitDetach", "reconciling", "reconciled", "attaching", "active", "releasing"}
  BY DEF Wait
<1> QED BY <1>1 DEF TypeOK, Requests, Closure, Registry

LEMMA NoLeaseType == NoLease \in Closure
<1>1. 0 \in 0 .. MaxRequests
  BY BoundAssumption
<1> QED BY <1>1 DEF NoLease, Closure, Modes, Wait

\* Striking off a lease lowers the count.
LEMMA ReleasedType ==
  ASSUME NEW g \in Registry, NEW a
  PROVE  /\ Released(g, a) \in Registry
         /\ Released(g, a).count = Down(g.count)
         /\ Released(g, a).generation = g.generation
<1>1. (IF g.count <= 1 THEN 0 ELSE g.count - 1) \in Nat
  BY DEF Registry
<1>2. (IF g.exclusive = a THEN None ELSE g.exclusive) \in Lease \cup {None}
  BY DEF Registry
<1> QED BY <1>1, <1>2 DEF Released, Registry, Down

\* A failed acquisition, and one that succeeds.
LEMMA FailTakes ==
  ASSUME NEW a \in Lease, NEW g \in Registry, g.generation = registry.generation, Fail(a, g)
  PROVE  Takes(a, g.count)
<1>1. NoLease.pc = "none"
  BY DEF NoLease
<1> QED BY <1>1, ReleasedType, NoLeaseType DEF Fail, Takes

LEMMA TakeLeaseTakes ==
  ASSUME NEW a \in Lease, NEW g \in Registry, NEW q \in Closure,
         g.generation = registry.generation, TakeLease(a, g, q)
  PROVE  Takes(a, g.count)
<1> DEFINE l == [q EXCEPT !.pc = "active", !.waits = 0, !.generation = g.generation]
<1>1. 0 \in 0 .. MaxRequests /\ g.generation \in Nat
  BY BoundAssumption DEF Registry
<1>2. l \in Closure /\ l.pc = "active" /\ l.generation = registry.generation
  BY <1>1 DEF Closure
<1> QED BY <1>2 DEF TakeLease, Takes

\* A request is numbered and typed.
LEMMA RequestType ==
  ASSUME Requests, MayRequest, NEW c \in {"attach", "detach"}, Request(c)
  PROVE  Requests' /\ sequence + 1 \in 1 .. MaxRequests
BY BoundAssumption DEF Requests, MayRequest, Request, Ids

LEMMA NoRequestType ==
  ASSUME Requests, NoRequest
  PROVE  Requests'
BY DEF Requests, NoRequest

\* The end of acquireSession.
LEMMA AttachingTakes ==
  ASSUME Requests, NEW a \in Lease, NEW g \in Registry, NEW q \in Closure, NEW r,
         g.generation = registry.generation, Attaching(a, g, q, r)
  PROVE  Requests' /\ Takes(a, g.count)
<1>1. CASE TakeLease(a, g, q) /\ NoRequest
  BY <1>1, TakeLeaseTakes, NoRequestType
<1>2. CASE /\ lease' = [lease EXCEPT ![a] = [q EXCEPT !.pc = "attaching", !.waits = g.attachment]]
           /\ registry' = g
           /\ NoRequest
  <2> DEFINE l == [q EXCEPT !.pc = "attaching", !.waits = g.attachment]
  <2>1. l \in Closure /\ l.pc \in Wait
    BY DEF Closure, Registry, Wait
  <2> QED BY <1>2, <2>1, NoRequestType DEF Takes
<1>3. CASE /\ MayRequest
           /\ Request("attach")
           /\ lease' = [lease EXCEPT ![a] = [q EXCEPT !.pc = "attaching", !.waits = sequence + 1]]
           /\ registry' = [g EXCEPT !.attachment = sequence + 1]
  <2> DEFINE l == [q EXCEPT !.pc = "attaching", !.waits = sequence + 1]
             h == [g EXCEPT !.attachment = sequence + 1]
  <2>1. Requests' /\ sequence + 1 \in 1 .. MaxRequests
    BY <1>3, RequestType
  <2>2. sequence + 1 \in 0 .. MaxRequests
    BY <2>1
  <2>4. l \in Closure /\ l.pc \in Wait
    BY <2>2 DEF Closure, Wait
  <2>3. h \in Registry /\ h.count = g.count /\ h.generation = registry.generation
    BY <2>2 DEF Registry
  <2> QED BY <1>3, <2>1, <2>4, <2>3 DEF Takes
<1>4. CASE Fail(a, g) /\ NoRequest
  BY <1>4, FailTakes, NoRequestType
<1> QED BY <1>1, <1>2, <1>3, <1>4 DEF Attaching

LEMMA ReconcilingTakes ==
  ASSUME Requests, NEW a \in Lease, NEW g \in Registry, NEW q \in Closure,
         g.generation = registry.generation, Reconciling(a, g, q)
  PROVE  Requests' /\ Takes(a, g.count)
<1> DEFINE l == [q EXCEPT !.pc = "reconciling", !.waits = 0]
<1>0. 0 \in 0 .. MaxRequests
  BY BoundAssumption
<1>1. l \in Closure /\ l.pc \in Wait
  BY <1>0 DEF Closure, Wait
<1>2. CASE Attaching(a, g, q, FALSE)
  BY <1>2, AttachingTakes
<1>3. CASE lease' = [lease EXCEPT ![a] = l] /\ registry' = g /\ NoRequest
  BY <1>1, <1>3, NoRequestType DEF Takes
<1>4. CASE /\ MayRequest
           /\ Request("detach")
           /\ lease' = [lease EXCEPT ![a] = l]
           /\ registry' = [g EXCEPT !.reconciliation = sequence + 1]
  <2> DEFINE h == [g EXCEPT !.reconciliation = sequence + 1]
  <2>1. Requests' /\ sequence + 1 \in 1 .. MaxRequests
    BY <1>4, RequestType
  <2>2. h \in Registry /\ h.count = g.count /\ h.generation = registry.generation
    BY <2>1 DEF Registry
  <2> QED BY <1>1, <1>4, <2>1, <2>2 DEF Takes
<1>5. CASE Fail(a, g) /\ NoRequest
  BY <1>5, FailTakes, NoRequestType
<1> QED BY <1>2, <1>3, <1>4, <1>5 DEF Reconciling

------------------------------------------------------------------------------
(* The types of every state.                                               *)

Good ==
  /\ link \in {"disconnected", "connecting", "connected", "disposed"}
  /\ Requests
  /\ lease \in [Lease -> Closure]
  /\ registry \in Registry
  /\ attached \in BOOLEAN
  /\ serverAttached \in BOOLEAN
  /\ inbox \in Seq(Messages)

\* What the actions of the leases do to everything but the count.
Others == UNCHANGED <<link, attached, serverAttached, inbox>>

\* A step of one holder of a lease keeps the types.
LEMMA TakesGood ==
  ASSUME Good, Others, NEW a \in Lease, NEW n, Requests', Takes(a, n)
  PROVE  Good'
BY DEF Good, Others, Takes

LEMMA MessageTypes ==
  ASSUME NEW m \in Messages
  PROVE  /\ m.type = "response" => m.id \in Ids /\ m.ok \in BOOLEAN /\ m.attached \in BOOLEAN
         /\ m.type = "snapshot" => m.attached \in BOOLEAN
         /\ m.type \in {"response", "snapshot", "removed"}
BY DEF Messages

LEMMA InvalidatedType ==
  ASSUME NEW g \in Registry
  PROVE  Invalidated(g) \in Registry /\ Invalidated(g).count = 0
<1>1. g.generation + 1 \in Nat /\ None \in Lease \cup {None}
  BY DEF Registry
<1> QED BY <1>1 DEF Invalidated, Registry

\* n places, all different, among the members of H.
Fits(n, H) == \E f \in [1 .. n -> H] : \A i, j \in 1 .. n : f[i] = f[j] => i = j

LEMMA FitsZero ==
  ASSUME NEW H
  PROVE  Fits(0, H)
<1> DEFINE f == [i \in 1 .. 0 |-> CHOOSE x \in H : TRUE]
<1>1. f \in [1 .. 0 -> H]
  OBVIOUS
<1>2. \A i, j \in 1 .. 0 : f[i] = f[j] => i = j
  OBVIOUS
<1> HIDE DEF f
<1> QED BY <1>1, <1>2 DEF Fits

LEMMA FitsMore ==
  ASSUME NEW n, NEW H, NEW K, H \subseteq K, Fits(n, H)
  PROVE  Fits(n, K)
<1>1. PICK f \in [1 .. n -> H] : \A i, j \in 1 .. n : f[i] = f[j] => i = j
  BY DEF Fits
<1>2. f \in [1 .. n -> K]
  OBVIOUS
<1> QED BY <1>1, <1>2 DEF Fits

LEMMA FitsLess ==
  ASSUME NEW n \in Nat, NEW m \in 0 .. n, NEW H, Fits(n, H)
  PROVE  Fits(m, H)
<1>1. PICK f \in [1 .. n -> H] : \A i, j \in 1 .. n : f[i] = f[j] => i = j
  BY DEF Fits
<1> DEFINE g == [i \in 1 .. m |-> f[i]]
<1>2. \A i \in 1 .. m : i \in 1 .. n
  OBVIOUS
<1>3. g \in [1 .. m -> H]
  BY <1>2
<1>4. \A i, j \in 1 .. m : g[i] = g[j] => i = j
  BY <1>1, <1>2
<1> HIDE DEF g
<1> QED BY <1>3, <1>4 DEF Fits

\* One more member has room for one more place.
LEMMA FitsAdd ==
  ASSUME NEW n \in Nat, NEW H, NEW a, a \notin H, Fits(n, H)
  PROVE  Fits(n + 1, H \cup {a})
<1>1. PICK f \in [1 .. n -> H] : \A i, j \in 1 .. n : f[i] = f[j] => i = j
  BY DEF Fits
<1> DEFINE g == [i \in 1 .. n + 1 |-> IF i = n + 1 THEN a ELSE f[i]]
<1>2. \A i \in 1 .. n + 1 : i # n + 1 => i \in 1 .. n
  OBVIOUS
<1>3. \A i \in 1 .. n + 1 : i # n + 1 => f[i] \in H /\ f[i] # a
  BY <1>2
<1>4. g \in [1 .. n + 1 -> H \cup {a}]
  BY <1>3
<1>5. \A i, j \in 1 .. n + 1 : g[i] = g[j] => i = j
  BY <1>1, <1>2, <1>3
<1> HIDE DEF g
<1> QED BY <1>4, <1>5 DEF Fits

\* Without one member there is room for one place less.
LEMMA FitsDrop ==
  ASSUME NEW n \in Nat, NEW H, NEW a, Fits(n, H)
  PROVE  Fits(Down(n), H \ {a})
<1>1. CASE n <= 1
  BY <1>1, FitsZero DEF Down
<1>2. CASE n > 1
  <2>1. PICK f \in [1 .. n -> H] : \A i, j \in 1 .. n : f[i] = f[j] => i = j
    BY DEF Fits
  <2> DEFINE g == [i \in 1 .. n - 1 |-> IF f[i] = a THEN f[n] ELSE f[i]]
  <2>2. \A i \in 1 .. n - 1 : i \in 1 .. n /\ i # n
    OBVIOUS
  <2>3. n \in 1 .. n
    BY <1>2
  <2>4. \A i \in 1 .. n - 1 : f[i] # f[n]
    BY <2>1, <2>2, <2>3
  <2>5. g \in [1 .. n - 1 -> H \ {a}]
    BY <2>2, <2>3, <2>4
  <2>6. \A i, j \in 1 .. n - 1 : g[i] = g[j] => i = j
    BY <2>1, <2>2, <2>4
  <2>7. Down(n) = n - 1
    BY <1>2 DEF Down
  <2> HIDE DEF g
  <2> QED BY <2>5, <2>6, <2>7 DEF Fits
<1> QED BY <1>1, <1>2

------------------------------------------------------------------------------
(* The count.                                                              *)

Held == {a \in Lease : Holding(a)}

\* The count has room among those who hold a lease.
CInv == Good /\ Fits(registry.count, Held)

\* A step of one holder, by the count it leaves.
LEMMA TakesFits ==
  ASSUME Good, NEW a \in Lease, NEW n \in Nat, Fits(n, Held \cup {a}), Takes(a, n)
  PROVE  Fits(registry'.count, Held')
<1>1. PICK l \in Closure :
        /\ lease' = [lease EXCEPT ![a] = l]
        /\ registry'.generation = registry.generation
        /\ \/ /\ l.pc \in Wait \/ (l.pc = "active" /\ l.generation = registry.generation)
              /\ registry'.count = n
           \/ /\ l.pc = "none"
              /\ registry'.count = Down(n)
  BY DEF Takes
<1>2. \A b \in Lease : b # a => lease'[b] = lease[b]
  BY <1>1
<1>3. lease'[a] = l
  BY <1>1 DEF Good
<1>4. Held \ {a} \subseteq Held'
  BY <1>1, <1>2 DEF Held, Holding, Acquiring
<1>5. CASE /\ l.pc \in Wait \/ (l.pc = "active" /\ l.generation = registry.generation)
           /\ registry'.count = n
  <2>1. a \in Held'
    BY <1>1, <1>3, <1>5 DEF Held, Holding, Acquiring, Wait
  <2>2. Held \cup {a} \subseteq Held'
    BY <1>4, <2>1
  <2> QED BY <1>5, <2>2, FitsMore
<1>6. CASE l.pc = "none" /\ registry'.count = Down(n)
  <2>1. Fits(Down(n), (Held \cup {a}) \ {a})
    BY FitsDrop
  <2>2. (Held \cup {a}) \ {a} \subseteq Held'
    BY <1>4
  <2> QED BY <1>6, <2>1, <2>2, FitsMore
<1> QED BY <1>1, <1>5, <1>6

\* A step of one holder who has a place already.
LEMMA TakesHis ==
  ASSUME CInv, Others, NEW a \in Lease, Requests', Takes(a, registry.count)
  PROVE  CInv'
<1>1. Fits(registry.count, Held \cup {a})
  BY FitsMore DEF CInv
<1>2. registry.count \in Nat
  BY DEF CInv, Good, Registry
<1> QED BY <1>1, <1>2, TakesFits, TakesGood DEF CInv

\* The call of acquireSession counts one more.
LEMMA AcquireStep ==
  ASSUME CInv, NEW a \in Lease, NEW mode \in Modes, Acquire(a, mode)
  PROVE  CInv'
<1> DEFINE q == [NoLease EXCEPT !.mode = mode]
           g == [registry EXCEPT !.count = @ + 1,
                                 !.exclusive = IF mode = "exclusive" THEN a ELSE @]
           n == registry.count + 1
<1>1. q \in Closure
  BY NoLeaseType DEF Closure, NoLease
<1>2. registry.count \in Nat
  BY DEF CInv, Good, Registry
<1>3. (IF mode = "exclusive" THEN a ELSE registry.exclusive) \in Lease \cup {None}
  BY DEF CInv, Good, Registry
<1>4. g \in Registry /\ g.count = n /\ g.generation = registry.generation
  <2>1. registry \in Registry /\ n \in Nat
    BY <1>2 DEF CInv, Good
  <2> HIDE DEF n
  <2> DEFINE e == IF mode = "exclusive" THEN a ELSE registry.exclusive
  <2>2. e \in Lease \cup {None}
    BY <1>3
  <2> HIDE DEF e
  <2>3. [registry EXCEPT !.count = n, !.exclusive = e] \in Registry
    BY <2>1, <2>2 DEF Registry
  <2>4. g = [registry EXCEPT !.count = n, !.exclusive = e]
    BY DEF n, e
  <2>5. [registry EXCEPT !.count = n, !.exclusive = e].count = n
        /\ [registry EXCEPT !.count = n, !.exclusive = e].generation = registry.generation
    BY <2>1 DEF Registry
  <2> HIDE DEF g
  <2> QED BY <2>3, <2>4, <2>5
<1>5. Fits(n, Held \cup {a})
  <2>1. a \notin Held
    BY DEF Acquire, Held, Holding, Acquiring
  <2> QED BY <1>2, <2>1, FitsAdd DEF CInv
<1>6. Requests' /\ Takes(a, n)
  <2>1. CASE /\ registry.detachment # 0
             /\ lease' = [lease EXCEPT ![a] = [q EXCEPT !.pc = "awaitDetach", !.waits = registry.detachment]]
             /\ registry' = g
             /\ NoRequest
    <3> DEFINE l == [q EXCEPT !.pc = "awaitDetach", !.waits = registry.detachment]
    <3>1. registry.detachment \in 0 .. MaxRequests
      BY DEF CInv, Good, Registry
    <3>2. l \in Closure /\ l.pc \in Wait
      BY <1>1, <3>1 DEF Closure, Wait
    <3>3. Requests'
      BY <2>1, NoRequestType DEF CInv, Good
    <3>4. lease' = [lease EXCEPT ![a] = l]
      BY <2>1
    <3> HIDE DEF l, g, n
    <3> QED BY <1>4, <2>1, <3>2, <3>3, <3>4 DEF Takes
  <2>2. CASE Reconciling(a, g, q)
    <3>1. Requests
      BY DEF CInv, Good
    <3> HIDE DEF q, g
    <3> QED BY <1>1, <1>4, <2>2, <3>1, ReconcilingTakes
  <2> QED BY <2>1, <2>2 DEF Acquire
<1>7. Others
  BY DEF Acquire, Others
<1>8. Fits(registry'.count, Held')
  BY <1>2, <1>5, <1>6, TakesFits DEF CInv
<1> QED BY <1>6, <1>7, <1>8, TakesGood DEF CInv

\* Who waited goes on.
LEMMA WaiterStep ==
  ASSUME CInv, NEW a \in Lease,
         AfterDetach(a) \/ AfterReconciliation(a) \/ AfterAttach(a)
  PROVE  CInv'
<1>1. Requests /\ registry \in Registry /\ lease[a] \in Closure
  BY DEF CInv, Good
<1>2. CASE AfterDetach(a)
  <2>1. Requests' /\ Takes(a, registry.count)
    BY <1>1, <1>2, ReconcilingTakes DEF AfterDetach
  <2> QED BY <1>2, <2>1, TakesHis DEF AfterDetach, Others
<1>3. CASE AfterReconciliation(a)
  <2>1. Requests' /\ Takes(a, registry.count)
    BY <1>1, <1>3, AttachingTakes, FailTakes, NoRequestType DEF AfterReconciliation
  <2> QED BY <1>3, <2>1, TakesHis DEF AfterReconciliation, Others
<1>4. CASE AfterAttach(a)
  <2> DEFINE n == lease[a].waits
             g == [registry EXCEPT !.attachment = IF @ = n THEN 0 ELSE @]
  <2>1. (IF registry.attachment = n THEN 0 ELSE registry.attachment) \in 0 .. MaxRequests
    BY <1>1, BoundAssumption DEF Registry
  <2>2. g \in Registry /\ g.count = registry.count /\ g.generation = registry.generation
    BY <1>1, <2>1 DEF Registry
  <2>3. TakeLease(a, g, lease[a]) \/ Fail(a, g)
    BY <1>4 DEF AfterAttach
  <2>4. Takes(a, registry.count)
    <3> HIDE DEF g
    <3> QED BY <1>1, <2>2, <2>3, TakeLeaseTakes, FailTakes
  <2>5. Requests'
    BY <1>1, <1>4, NoRequestType DEF AfterAttach, NoRequest
  <2> QED BY <1>4, <2>4, <2>5, TakesHis DEF AfterAttach, Others
<1> QED BY <1>2, <1>3, <1>4

\* A holder changes, and keeps his place if he has one; the count does not.
LEMMA StaysFits ==
  ASSUME CInv, NEW a \in Lease, NEW l \in Closure, NEW g \in Registry,
         g.count = registry.count, g.generation = registry.generation,
         lease' = [lease EXCEPT ![a] = l], registry' = g, Requests', Others,
         a \in Held => l.pc \in {"active", "releasing"} /\ l.generation = registry.generation
  PROVE  CInv'
<1>1. \A b \in Lease : b # a => lease'[b] = lease[b]
  OBVIOUS
<1>2. lease'[a] = l
  BY DEF CInv, Good
<1>3. Held \subseteq Held'
  BY <1>1, <1>2 DEF Held, Holding, Acquiring
<1>4. Good'
  BY DEF CInv, Good, Others
<1> QED BY <1>3, <1>4, FitsMore DEF CInv

LEMMA ReleaseStep ==
  ASSUME CInv, NEW a \in Lease, NEW relinquish \in BOOLEAN, Release(a, relinquish)
  PROVE  CInv'
<1>1. Requests /\ registry \in Registry /\ lease[a] \in Closure /\ lease[a].pc = "active"
  BY DEF CInv, Good, Release
<1>2. Others
  BY DEF Release, Others
<1>3. CASE /\ lease[a].generation # registry.generation
           /\ lease' = [lease EXCEPT ![a] = NoLease]
           /\ UNCHANGED registry
           /\ NoRequest
  <2>1. a \notin Held
    BY <1>1, <1>3 DEF Held, Holding, Acquiring
  <2>2. Requests'
    BY <1>1, <1>3, NoRequestType
  <2> QED BY <1>1, <1>2, <1>3, <2>1, <2>2, NoLeaseType, StaysFits
<1>4. CASE /\ Active(a)
           /\ MayRequest
           /\ Request("detach")
           /\ lease' = [lease EXCEPT ![a].pc = "releasing", ![a].waits = sequence + 1,
                                     ![a].relinquish = relinquish]
           /\ registry' = [registry EXCEPT !.detachment = sequence + 1]
  <2> DEFINE l == [lease[a] EXCEPT !.pc = "releasing", !.waits = sequence + 1,
                                   !.relinquish = relinquish]
             g == [registry EXCEPT !.detachment = sequence + 1]
  <2>1. Requests' /\ sequence + 1 \in 1 .. MaxRequests
    BY <1>1, <1>4, RequestType
  <2>2. sequence + 1 \in 0 .. MaxRequests
    BY <2>1
  <2>3. l \in Closure /\ l.pc = "releasing" /\ l.generation = registry.generation
    BY <1>1, <1>4, <2>2 DEF Closure, Active
  <2>4. g \in Registry /\ g.count = registry.count /\ g.generation = registry.generation
    BY <1>1, <2>2 DEF Registry
  <2>5. lease' = [lease EXCEPT ![a] = l] /\ registry' = g
    BY <1>4 DEF CInv, Good
  <2> HIDE DEF l, g
  <2> QED BY <1>2, <2>1, <2>3, <2>4, <2>5, StaysFits
<1>5. CASE Fail(a, registry) /\ NoRequest
  BY <1>1, <1>2, <1>5, FailTakes, NoRequestType, TakesHis
<1> QED BY <1>3, <1>4, <1>5 DEF Release

LEMMA AfterReleaseStep ==
  ASSUME CInv, NEW a \in Lease, AfterRelease(a)
  PROVE  CInv'
<1> DEFINE n == lease[a].waits
           g == [registry EXCEPT !.detachment = IF @ = n THEN 0 ELSE @]
<1>1. Requests /\ registry \in Registry /\ lease[a] \in Closure /\ lease[a].pc = "releasing"
  BY DEF CInv, Good, AfterRelease
<1>2. Others /\ Requests'
  BY <1>1, NoRequestType DEF AfterRelease, Others, NoRequest
<1>3. (IF registry.detachment = n THEN 0 ELSE registry.detachment) \in 0 .. MaxRequests
  BY <1>1, BoundAssumption DEF Registry
<1>4. g \in Registry /\ g.count = registry.count /\ g.generation = registry.generation
  BY <1>1, <1>3 DEF Registry
<1>5. CASE Fail(a, g)
  <2> HIDE DEF g
  <2> QED BY <1>2, <1>4, <1>5, FailTakes, TakesHis
<1>6. CASE /\ lease[a].generation # registry.generation
           /\ lease' = [lease EXCEPT ![a] = NoLease]
           /\ registry' = g
  <2>1. a \notin Held
    BY <1>1, <1>6 DEF Held, Holding, Acquiring
  <2> HIDE DEF g
  <2> QED BY <1>2, <1>4, <1>6, <2>1, NoLeaseType, StaysFits
<1>7. CASE /\ lease' = [lease EXCEPT ![a] = NoLease]
           /\ registry' = [Released(g, a) EXCEPT !.cleanup = TRUE]
  <2> HIDE DEF g
  <2>1. /\ registry' \in Registry
        /\ registry'.count = Down(g.count)
        /\ registry'.generation = g.generation
    BY <1>4, <1>7, ReleasedType DEF Registry
  <2>2. NoLease.pc = "none"
    BY DEF NoLease
  <2>3. Takes(a, registry.count)
    BY <1>4, <1>7, <2>1, <2>2, NoLeaseType DEF Takes
  <2> QED BY <1>2, <2>3, TakesHis
<1>8. CASE /\ lease[a].generation = registry.generation
           /\ lease' = [lease EXCEPT ![a].pc = "active", ![a].waits = 0]
           /\ registry' = g
  <2> DEFINE l == [lease[a] EXCEPT !.pc = "active", !.waits = 0]
  <2>1. 0 \in 0 .. MaxRequests
    BY BoundAssumption
  <2>2. l \in Closure /\ l.pc = "active" /\ l.generation = registry.generation
    BY <1>1, <1>8, <2>1 DEF Closure
  <2>3. lease' = [lease EXCEPT ![a] = l]
    BY <1>8 DEF CInv, Good
  <2> HIDE DEF l, g
  <2> QED BY <1>2, <1>4, <1>8, <2>2, <2>3, StaysFits
<1> QED BY <1>5, <1>6, <1>7, <1>8 DEF AfterRelease

\* Who has a place keeps it.
LEMMA KeptFits ==
  ASSUME CInv, Good',
         registry'.count = registry.count, registry'.generation = registry.generation,
         \A a \in Lease : \/ lease'[a] = lease[a]
                          \/ lease'[a].pc \in Wait
  PROVE  CInv'
<1>1. Held \subseteq Held'
  BY DEF Held, Holding, Acquiring, Wait
<1> QED BY <1>1, FitsMore DEF CInv

LEMMA ReconciledStep ==
  ASSUME CInv, Reconciled
  PROVE  CInv'
<1> DEFINE ok == promise[registry.reconciliation].state = "ok"
           waiting == {a \in Lease : lease[a].pc = "reconciling"}
           after == [a \in Lease |->
             IF a \in waiting
             THEN [lease[a] EXCEPT !.pc = "reconciled", !.waits = IF ok THEN 0 ELSE registry.reconciliation]
             ELSE lease[a]]
           w == IF ok THEN 0 ELSE registry.reconciliation
<1>1. registry \in Registry /\ lease \in [Lease -> Closure] /\ Requests
  BY DEF CInv, Good
<1>2. w \in 0 .. MaxRequests
  BY <1>1, BoundAssumption DEF Registry
<1>3. lease' = after /\ Others /\ Requests'
  BY <1>1 DEF Reconciled, Others, Requests
<1>4. ASSUME NEW a \in Lease
      PROVE  /\ lease'[a] \in Closure
             /\ lease'[a] = lease[a] \/ lease'[a].pc \in Wait
  <2>1. CASE a \in waiting
    <3>1. lease'[a] = [lease[a] EXCEPT !.pc = "reconciled", !.waits = w]
      BY <1>3, <2>1
    <3>2. lease[a] \in Closure
      BY <1>1
    <3> HIDE DEF w
    <3> QED BY <1>2, <3>1, <3>2 DEF Closure, Wait
  <2>2. CASE a \notin waiting
    BY <1>1, <1>3, <2>2
  <2> QED BY <2>1, <2>2
<1>5. lease' \in [Lease -> Closure]
  BY <1>3, <1>4
<1>6. /\ registry' \in Registry
      /\ registry'.count = registry.count
      /\ registry'.generation = registry.generation
  <2> DEFINE c == registry.cleanup /\ ~ok
  <2>1. c \in BOOLEAN /\ 0 \in 0 .. MaxRequests
    BY BoundAssumption
  <2>2. registry' = [registry EXCEPT !.cleanup = c, !.reconciliation = 0]
    BY DEF Reconciled
  <2> HIDE DEF c
  <2> QED BY <1>1, <2>1, <2>2 DEF Registry
<1>7. Good'
  BY <1>3, <1>5, <1>6 DEF CInv, Good, Others
<1> QED BY <1>4, <1>6, <1>7, KeptFits

\* A count of zero is always held.
LEMMA EmptyFits ==
  ASSUME Good', registry'.count = 0
  PROVE  CInv'
BY FitsZero DEF CInv

LEMMA BreakStep ==
  ASSUME CInv, NEW to \in {"disconnected", "disposed"}, Break(to)
  PROVE  CInv'
<1> DEFINE x == registry.crossed \/ ~TaskIsOver
           g == [registry EXCEPT !.cleanup = FALSE, !.crossed = x]
<1>1. registry \in Registry /\ Requests
  BY DEF CInv, Good
<1>2. x \in BOOLEAN
  OBVIOUS
<1>3. g \in Registry /\ g.count = registry.count
  <2> HIDE DEF x
  <2> QED BY <1>1, <1>2 DEF Registry
<1>4. registry' = IF registry.count = 0 THEN g ELSE Invalidated(g)
  BY DEF Break
<1>5. registry' \in Registry /\ registry'.count = 0
  <2> HIDE DEF g
  <2> QED BY <1>3, <1>4, InvalidatedType
<1>6. Requests'
  BY <1>1 DEF Break, Requests
<1>7. Good'
  <2>1. inbox' \in Seq(Messages)
    BY DEF Break
  <2> QED BY <1>5, <1>6, <2>1 DEF Break, CInv, Good
<1> QED BY <1>5, <1>7, EmptyFits

LEMMA ReceiveStep ==
  ASSUME CInv, Receive
  PROVE  CInv'
<1> DEFINE m == Head(inbox)
           x == registry.crossed \/ ~TaskIsOver
           g == [registry EXCEPT !.crossed = x]
<1>1. registry \in Registry /\ Requests /\ inbox \in Seq(Messages) /\ attached \in BOOLEAN
  BY DEF CInv, Good
<1>2. inbox # <<>>
  BY DEF Receive
<1>3. m \in Messages /\ inbox' \in Seq(Messages)
  BY <1>1, <1>2 DEF Receive
<1>4. g \in Registry /\ g.count = registry.count /\ g.generation = registry.generation
  <2>1. x \in BOOLEAN
    OBVIOUS
  <2> HIDE DEF x
  <2> QED BY <1>1, <2>1 DEF Registry
<1>5. UNCHANGED <<link, sequence, lease, serverAttached>>
  BY DEF Receive
<1> HIDE DEF m
<1>6. CASE m.type = "snapshot"
  <2>1. attached' = m.attached /\ registry' = g /\ UNCHANGED promise
    BY <1>6 DEF Receive, m
  <2>2. attached' \in BOOLEAN
    BY <1>3, <1>6, <2>1, MessageTypes
  <2>3. Requests'
    BY <1>1, <1>5, <2>1 DEF Requests
  <2> HIDE DEF g
  <2>4. Good'
    BY <1>3, <1>4, <1>5, <2>1, <2>2, <2>3 DEF CInv, Good
  <2> QED BY <1>4, <1>5, <2>1, <2>4, KeptFits
<1>7. CASE m.type = "removed"
  <2> DEFINE y == Invalidated(g).crossed \/ \E a \in Lease : lease[a].pc \notin {"none", "active"}
  <2>1. attached' = FALSE /\ registry' = [Invalidated(g) EXCEPT !.crossed = y] /\ UNCHANGED promise
    BY <1>7 DEF Receive, m
  <2>2. Invalidated(g) \in Registry /\ Invalidated(g).count = 0
    BY <1>4, InvalidatedType
  <2>3. y \in BOOLEAN
    BY <2>2 DEF Registry
  <2>4. registry' \in Registry /\ registry'.count = 0
    <3> HIDE DEF y, g
    <3> QED BY <2>1, <2>2, <2>3 DEF Registry
  <2>5. Requests'
    BY <1>1, <1>5, <2>1 DEF Requests
  <2>6. Good'
    <3> HIDE DEF g
    <3> QED BY <1>3, <1>5, <2>1, <2>4, <2>5 DEF CInv, Good
  <2> QED BY <2>4, <2>6, EmptyFits
<1>8. CASE m.type = "response"
  <2>1. /\ promise' = [promise EXCEPT ![m.id].state = IF m.ok THEN "ok" ELSE "error"]
        /\ attached' = IF m.ok THEN m.attached ELSE attached
        /\ registry' = g
    BY <1>8 DEF Receive, m
  <2>2. m.id \in Ids /\ m.ok \in BOOLEAN /\ m.attached \in BOOLEAN
    BY <1>3, <1>8, MessageTypes
  <2>3. Requests'
    BY <1>1, <1>5, <2>1, <2>2 DEF Requests
  <2>4. attached' \in BOOLEAN
    BY <1>1, <2>1, <2>2
  <2> HIDE DEF g
  <2>5. Good'
    BY <1>3, <1>4, <1>5, <2>1, <2>3, <2>4 DEF CInv, Good
  <2> QED BY <1>4, <1>5, <2>1, <2>5, KeptFits
<1> QED BY <1>3, <1>6, <1>7, <1>8, MessageTypes

\* The connection comes up, and the server's steps.
LEMMA QuietStep ==
  ASSUME CInv, Connect \/ Connected \/ Serves \/ Announce \/ Remove
  PROVE  CInv'
<1>1. Requests /\ inbox \in Seq(Messages) /\ serverAttached \in BOOLEAN
  BY DEF CInv, Good
<1>2. UNCHANGED <<lease, registry, sequence>>
  BY DEF Connect, Connected, Serves, Serve, Respond, Announce, Remove
<1>3. Good'
  <2>1. CASE Connect \/ Connected
    BY <2>1 DEF Connect, Connected, CInv, Good, Requests
  <2>2. ASSUME NEW n \in Ids, NEW ok \in BOOLEAN, Serve(n, ok)
        PROVE  Good'
    BY <1>1, <2>2 DEF Serve, CInv, Good, Requests
  <2>3. ASSUME NEW n \in Ids, Respond(n)
        PROVE  Good'
    <3> DEFINE m == [type |-> "response", id |-> n, ok |-> promise[n].state = "done",
                     attached |-> promise[n].command = "attach" /\ serverAttached]
    <3>1. m \in Messages
      BY DEF Messages
    <3>2. inbox' = Append(inbox, m) /\ UNCHANGED <<link, promise, attached, serverAttached>>
      BY <2>3 DEF Respond
    <3> HIDE DEF m
    <3>3. inbox' \in Seq(Messages)
      BY <1>1, <3>1, <3>2
    <3> QED BY <1>2, <3>2, <3>3 DEF CInv, Good, Requests
  <2>4. CASE Announce
    <3> DEFINE m == [type |-> "snapshot", attached |-> serverAttached]
    <3>1. m \in Messages
      BY <1>1 DEF Messages
    <3>2. inbox' = Append(inbox, m) /\ UNCHANGED <<link, promise, attached, serverAttached>>
      BY <2>4 DEF Announce
    <3> HIDE DEF m
    <3>3. inbox' \in Seq(Messages)
      BY <1>1, <3>1, <3>2
    <3> QED BY <1>2, <3>2, <3>3 DEF CInv, Good, Requests
  <2>5. CASE Remove
    <3> DEFINE m == [type |-> "removed"]
    <3>1. m \in Messages
      BY DEF Messages
    <3>2. inbox' = Append(inbox, m) /\ serverAttached' = FALSE /\ UNCHANGED <<link, promise, attached>>
      BY <2>5 DEF Remove
    <3> HIDE DEF m
    <3>3. inbox' \in Seq(Messages)
      BY <1>1, <3>1, <3>2
    <3> QED BY <1>2, <3>2, <3>3 DEF CInv, Good, Requests
  <2> QED BY <2>1, <2>2, <2>3, <2>4, <2>5 DEF Serves
<1> QED BY <1>2, <1>3, KeptFits

------------------------------------------------------------------------------
(* The theorems.                                                           *)

LEMMA CInvInit ==
  ASSUME Init
  PROVE  CInv
<1>1. NoRegistry \in Registry
  <2>1. 0 \in 0 .. MaxRequests
    BY BoundAssumption
  <2> QED BY <2>1 DEF NoRegistry, Registry
<1>2. Requests
  BY BoundAssumption DEF Init, Requests, NoPromise
<1>3. Good
  <2>1. lease \in [Lease -> Closure]
    BY NoLeaseType DEF Init
  <2>2. <<>> \in Seq(Messages)
    OBVIOUS
  <2>3. link = "disconnected" /\ attached = FALSE /\ serverAttached = FALSE
    BY DEF Init
  <2>4. registry \in Registry /\ inbox \in Seq(Messages)
    BY <1>1, <2>2 DEF Init
  <2> QED BY <1>2, <2>1, <2>3, <2>4 DEF Good
<1>4. registry.count = 0
  BY DEF Init, NoRegistry
<1> QED BY <1>3, <1>4, FitsZero DEF CInv

LEMMA CInvStep ==
  ASSUME CInv, [Next]_vars
  PROVE  CInv'
<1>1. CASE UNCHANGED vars
  <2>1. Good'
    BY <1>1 DEF vars, CInv, Good, Requests
  <2> QED BY <1>1, <2>1, KeptFits DEF vars
<1>2. CASE Next
  BY <1>2, AcquireStep, WaiterStep, ReleaseStep, AfterReleaseStep, ReconciledStep, BreakStep,
     ReceiveStep, QuietStep
  DEF Next, LeaseStep
<1> QED BY <1>1, <1>2

LEMMA CInvAlways == Spec => []CInv
BY CInvInit, CInvStep, PTL DEF Spec

\* Every state of the client is well typed, whatever the leases, the requests and the faults.
THEOREM TypeCorrect == Spec => []TypeOK
<1>1. CInv => TypeOK
  BY Types DEF CInv, Good
<1> QED BY <1>1, CInvAlways, PTL

\* The count of a session never exceeds the leases that are held, for any number of leases,
\* through breaks, removals and answers that come late: the last one to be given back finds
\* the count at one or below, and detaches.
THEOREM CountIsHeldHolds == Spec => []CountIsHeld
<1>1. CInv => CountIsHeld
  <2> SUFFICES ASSUME CInv, NEW n \in 1 .. registry.count
               PROVE  \E S \in SUBSET Lease :
                        /\ \A a \in S : Holding(a)
                        /\ \E f \in [1 .. n -> S] : \A i, j \in 1 .. n : f[i] = f[j] => i = j
    BY DEF CountIsHeld
  <2>1. registry.count \in Nat /\ n \in 0 .. registry.count
    BY DEF CInv, Good, Registry
  <2>2. Fits(n, Held)
    BY <2>1, FitsLess DEF CInv
  <2>3. Held \in SUBSET Lease /\ \A a \in Held : Holding(a)
    BY DEF Held
  <2> QED BY <2>2, <2>3 DEF Fits
<1> QED BY <1>1, CInvAlways, PTL

------------------------------------------------------------------------------
(* Who is alone with the session.  The invariant says who waits for which  *)
(* promise, and what the registry says of those who hold a lease: without  *)
(* a connection everybody who waits will fail; with one the count is exact *)
(* and an exclusive lease is the only one, until something crosses.        *)

Waiting(a) == lease[a].pc \in {"awaitDetach", "attaching", "releasing"}
Unsettled(n) == promise[n].state \in {"sent", "done", "refused"}

\* Without a connection nothing is attached and nothing is under way.
Links ==
  /\ attached => link = "connected"
  /\ link # "connected" => \A n \in Ids : ~Unsettled(n)

\* Who waits waits for a request that was sent; a promise of the registry is somebody's; no lease
\* is newer than the generation.
Promises ==
  /\ \A a \in Lease : Waiting(a) => lease[a].waits # 0 /\ promise[lease[a].waits].state # "none"
  /\ registry.attachment # 0 =>
       \E a \in Lease : lease[a].pc = "attaching" /\ lease[a].waits = registry.attachment
  /\ registry.detachment # 0 =>
       \E a \in Lease : lease[a].pc = "releasing" /\ lease[a].waits = registry.detachment
  /\ registry.reconciliation # 0 <=> \E a \in Lease : lease[a].pc = "reconciling"
  /\ registry.reconciliation # 0 => promise[registry.reconciliation].state # "none"
  /\ \A a \in Lease : lease[a].pc \in {"active", "releasing"} => lease[a].generation <= registry.generation

\* Without a connection nobody has a lease, and nobody who waits will get one.
Offline ==
  link # "connected" /\ ~registry.crossed =>
    /\ \A a \in Lease : Waiting(a) => promise[lease[a].waits].state # "ok"
    /\ \A a \in Lease : lease[a].pc = "reconciled" => lease[a].waits # 0
    /\ registry.reconciliation # 0 => promise[registry.reconciliation].state # "ok"
    /\ \A a \in Lease : lease[a].pc \in {"active", "releasing"} => lease[a].generation # registry.generation
    /\ registry.exclusive \in Lease => registry.exclusive \in Acquiring

Online == link = "connected" /\ ~registry.crossed

\* The count is that of the holders, and who is exclusive is the only one.
Ledger ==
  Online =>
    /\ IsFiniteSet(Held)
    /\ Cardinality(Held) = registry.count
    /\ registry.exclusive \in Lease => Held = {registry.exclusive}
    /\ \A a \in Held : lease[a].mode = "exclusive" => registry.exclusive = a

\* While the last one gives his lease back everybody else waits for that.
Detaching ==
  Online =>
    \A a \in Lease : lease[a].pc = "releasing" =>
      /\ lease[a].generation = registry.generation
      /\ lease[a].waits = registry.detachment
      /\ \A b \in Held : b # a => lease[b].pc = "awaitDetach" /\ lease[b].waits = registry.detachment

\* Where something is left to clean up nobody gets past the reconciliation.
Past(a) ==
  /\ lease[a].pc \notin {"awaitDetach", "reconciling"}
  /\ lease[a].pc = "reconciled" => lease[a].waits = 0
Cleaning ==
  Online =>
    /\ registry.cleanup => \A a \in Held : ~Past(a)
    /\ registry.reconciliation # 0 => registry.cleanup

\* A detach under way is that of the last lease or of the reconciliation.
Asked ==
  Online =>
    \A n \in Ids : promise[n].command = "detach" /\ Unsettled(n) =>
      n = registry.detachment \/ n = registry.reconciliation

AloneInv == Links /\ Promises /\ Offline /\ Ledger /\ Detaching /\ Cleaning /\ Asked

EInv == CInv /\ AloneInv

------------------------------------------------------------------------------
(* What the steps of a holder do.                                          *)

Same(a) == \A b \in Lease : b # a => lease'[b] = lease[b]

\* The registry after a step: the count, the exclusive one and the promises.
Keeps(c, e, at, de, re) ==
  /\ registry'.count = c /\ registry'.exclusive = e
  /\ registry'.attachment = at /\ registry'.detachment = de /\ registry'.reconciliation = re
  /\ registry'.generation = registry.generation /\ registry'.crossed = registry.crossed

\* He has the lease, waits for an attach or for the reconciliation, or has failed; his place
\* is of mode m in a count of c with the exclusive one e.
Granted(a, m, c, e, at) ==
  /\ lease'[a].pc = "active" /\ lease'[a].mode = m /\ lease'[a].generation = registry.generation
  /\ Keeps(c, e, at, registry.detachment, registry.reconciliation)
  /\ NoRequest
Attaches(a, m, c, e) ==
  /\ lease'[a].pc = "attaching" /\ lease'[a].mode = m
  /\ \/ /\ registry.attachment # 0
        /\ lease'[a].waits = registry.attachment
        /\ Keeps(c, e, registry.attachment, registry.detachment, registry.reconciliation)
        /\ NoRequest
     \/ /\ link = "connected"
        /\ lease'[a].waits = sequence + 1
        /\ Keeps(c, e, sequence + 1, registry.detachment, registry.reconciliation)
        /\ sequence + 1 \in Ids
        /\ Request("attach")
Cleans(a, m, c, e) ==
  /\ lease'[a].pc = "reconciling" /\ lease'[a].mode = m
  /\ registry.cleanup
  /\ \/ /\ registry.reconciliation # 0
        /\ Keeps(c, e, registry.attachment, registry.detachment, registry.reconciliation)
        /\ NoRequest
     \/ /\ registry.reconciliation = 0
        /\ link = "connected"
        /\ Keeps(c, e, registry.attachment, registry.detachment, sequence + 1)
        /\ sequence + 1 \in Ids
        /\ Request("detach")
Fails(a, c, e, at, de) ==
  /\ lease'[a].pc = "none"
  /\ Keeps(Down(c), IF e = a THEN None ELSE e, at, de, registry.reconciliation)
  /\ NoRequest

\* The registry as the call of acquireSession leaves it but for the promises, and what the
\* holder will be.
Stands(g, c, e) ==
  /\ g \in Registry
  /\ g.count = c /\ g.exclusive = e
  /\ g.detachment = registry.detachment /\ g.reconciliation = registry.reconciliation
  /\ g.generation = registry.generation /\ g.cleanup = registry.cleanup /\ g.crossed = registry.crossed

LEMMA ReleasedIs ==
  ASSUME NEW g \in Registry, NEW a
  PROVE  /\ Released(g, a).count = Down(g.count)
         /\ Released(g, a).exclusive = IF g.exclusive = a THEN None ELSE g.exclusive
         /\ Released(g, a).attachment = g.attachment /\ Released(g, a).detachment = g.detachment
         /\ Released(g, a).reconciliation = g.reconciliation
         /\ Released(g, a).cleanup = g.cleanup
         /\ Released(g, a).generation = g.generation /\ Released(g, a).crossed = g.crossed
BY DEF Released, Registry, Down

LEMMA FailDoes ==
  ASSUME Good, NEW a \in Lease, NEW g, NEW c, NEW e, Stands(g, c, e), Fail(a, g), NoRequest
  PROVE  /\ Same(a)
         /\ Fails(a, c, e, g.attachment, registry.detachment)
         /\ registry'.cleanup = registry.cleanup
<1>1. lease' = [lease EXCEPT ![a] = NoLease] /\ registry' = Released(g, a)
  BY DEF Fail
<1>2. lease'[a].pc = "none" /\ Same(a)
  BY <1>1 DEF Good, NoLease, Same
<1> QED BY <1>1, <1>2, ReleasedIs DEF Stands, Fails, Keeps

LEMMA TakeLeaseDoes ==
  ASSUME Good, NEW a \in Lease, NEW q \in Closure, NEW g, NEW c, NEW e, Stands(g, c, e),
         TakeLease(a, g, q), NoRequest
  PROVE  /\ Same(a)
         /\ Granted(a, q.mode, c, e, g.attachment)
         /\ registry'.cleanup = registry.cleanup
<1> DEFINE l == [q EXCEPT !.pc = "active", !.waits = 0, !.generation = g.generation]
<1>1. lease' = [lease EXCEPT ![a] = l] /\ registry' = g
  BY DEF TakeLease
<1>2. l.pc = "active" /\ l.mode = q.mode /\ l.generation = g.generation
  BY DEF Closure
<1> HIDE DEF l
<1>3. lease'[a] = l /\ Same(a)
  BY <1>1 DEF Good, Same
<1> QED BY <1>1, <1>2, <1>3 DEF Stands, Granted, Keeps

LEMMA AttachingDoes ==
  ASSUME Good, NEW a \in Lease, NEW q \in Closure, NEW g, NEW c, NEW e, NEW r, Stands(g, c, e),
         g.attachment = registry.attachment, Attaching(a, g, q, r)
  PROVE  /\ Same(a)
         /\ registry'.cleanup = registry.cleanup
         /\ \/ attached /\ Granted(a, q.mode, c, e, registry.attachment)
            \/ Attaches(a, q.mode, c, e)
            \/ link # "connected" /\ Fails(a, c, e, registry.attachment, registry.detachment)
<1>1. CASE attached /\ TakeLease(a, g, q) /\ NoRequest
  BY <1>1, TakeLeaseDoes
<1>2. CASE /\ g.attachment # 0
           /\ lease' = [lease EXCEPT ![a] = [q EXCEPT !.pc = "attaching", !.waits = g.attachment]]
           /\ registry' = g
           /\ NoRequest
  <2> DEFINE l == [q EXCEPT !.pc = "attaching", !.waits = g.attachment]
  <2>1. l.pc = "attaching" /\ l.waits = g.attachment /\ l.mode = q.mode
    BY DEF Closure
  <2> HIDE DEF l
  <2>2. lease' = [lease EXCEPT ![a] = l]
    BY <1>2 DEF l
  <2>3. lease'[a] = l /\ Same(a)
    BY <2>2 DEF Good, Same
  <2> QED BY <1>2, <2>1, <2>3 DEF Stands, Attaches, Keeps
<1>3. CASE /\ MayRequest
           /\ Request("attach")
           /\ lease' = [lease EXCEPT ![a] = [q EXCEPT !.pc = "attaching", !.waits = sequence + 1]]
           /\ registry' = [g EXCEPT !.attachment = sequence + 1]
  <2> DEFINE l == [q EXCEPT !.pc = "attaching", !.waits = sequence + 1]
  <2>1. l.pc = "attaching" /\ l.waits = sequence + 1 /\ l.mode = q.mode
    BY DEF Closure
  <2> HIDE DEF l
  <2>2. lease' = [lease EXCEPT ![a] = l]
    BY <1>3 DEF l
  <2>3. lease'[a] = l /\ Same(a)
    BY <2>2 DEF Good, Same
  <2>4. Keeps(c, e, sequence + 1, registry.detachment, registry.reconciliation)
        /\ registry'.cleanup = registry.cleanup
    BY <1>3 DEF Stands, Keeps, Registry
  <2>5. sequence + 1 \in Ids /\ link = "connected"
    BY <1>3, BoundAssumption DEF MayRequest, Good, Requests, Ids
  <2> QED BY <1>3, <2>1, <2>3, <2>4, <2>5 DEF Attaches
<1>4. CASE link # "connected" /\ Fail(a, g) /\ NoRequest
  BY <1>4, FailDoes
<1> QED BY <1>1, <1>2, <1>3, <1>4 DEF Attaching

LEMMA ReconcilingDoes ==
  ASSUME Good, NEW a \in Lease, NEW q \in Closure, NEW g, NEW c, NEW e, Stands(g, c, e),
         g.attachment = registry.attachment, Reconciling(a, g, q)
  PROVE  /\ Same(a)
         /\ registry'.cleanup = registry.cleanup
         /\ \/ /\ ~registry.cleanup
               /\ \/ attached /\ Granted(a, q.mode, c, e, registry.attachment)
                  \/ Attaches(a, q.mode, c, e)
            \/ Cleans(a, q.mode, c, e)
            \/ link # "connected" /\ Fails(a, c, e, registry.attachment, registry.detachment)
<1> DEFINE l == [q EXCEPT !.pc = "reconciling", !.waits = 0]
<1>1. l.pc = "reconciling" /\ l.mode = q.mode
  BY DEF Closure
<1> HIDE DEF l
<1>2. CASE ~g.cleanup /\ Attaching(a, g, q, FALSE)
  BY <1>2, AttachingDoes DEF Stands
<1>3. CASE /\ g.cleanup
           /\ g.reconciliation # 0
           /\ lease' = [lease EXCEPT ![a] = l]
           /\ registry' = g
           /\ NoRequest
  <2>1. lease'[a] = l /\ Same(a)
    BY <1>3 DEF Good, Same
  <2> QED BY <1>1, <1>3, <2>1 DEF Stands, Cleans, Keeps
<1>4. CASE /\ g.cleanup
           /\ g.reconciliation = 0
           /\ MayRequest
           /\ Request("detach")
           /\ lease' = [lease EXCEPT ![a] = l]
           /\ registry' = [g EXCEPT !.reconciliation = sequence + 1]
  <2>1. lease'[a] = l /\ Same(a)
    BY <1>4 DEF Good, Same
  <2>2. Keeps(c, e, registry.attachment, registry.detachment, sequence + 1)
        /\ registry'.cleanup = registry.cleanup
    BY <1>4 DEF Stands, Keeps, Registry
  <2>3. sequence + 1 \in Ids /\ link = "connected"
    BY <1>4, BoundAssumption DEF MayRequest, Good, Requests, Ids
  <2> QED BY <1>1, <1>4, <2>1, <2>2, <2>3 DEF Stands, Cleans
<1>5. CASE link # "connected" /\ Fail(a, g) /\ NoRequest
  BY <1>5, FailDoes DEF Stands
<1> QED BY <1>2, <1>3, <1>4, <1>5 DEF Reconciling, l

------------------------------------------------------------------------------
(* The parts, when one holder takes a step.                                *)

\* The place of a, of mode m, in a count of c with the exclusive one e.
Placed(a, m, c, e) ==
  /\ Online =>
       /\ IsFiniteSet(Held \cup {a})
       /\ Cardinality(Held \cup {a}) = c
       /\ e \in Lease => Held \cup {a} = {e}
       /\ \A b \in Held : b # a /\ lease[b].mode = "exclusive" => e = b
       /\ m = "exclusive" => e = a
  /\ link # "connected" /\ ~registry.crossed => (e \in Lease => e \in Acquiring \cup {a})

LEMMA HeldThen ==
  ASSUME NEW a \in Lease, Same(a), registry'.generation = registry.generation
  PROVE  /\ Holding(a)' => Held' = Held \cup {a}
         /\ ~Holding(a)' => Held' = Held \ {a}
         /\ \A b \in Lease : b # a => (b \in Acquiring' <=> b \in Acquiring)
<1>1. \A b \in Lease : b # a => (Holding(b)' <=> Holding(b))
  BY DEF Same, Holding, Acquiring
<1>2. \A b \in Lease : b # a => (b \in Acquiring' <=> b \in Acquiring)
  BY DEF Same, Acquiring
<1>3. \A b \in Lease : b # a => (b \in Held' <=> b \in Held)
  BY <1>1 DEF Held
<1>4. a \in Held' <=> Holding(a)'
  BY DEF Held
<1>5. Held \subseteq Lease /\ Held' \subseteq Lease
  BY DEF Held
<1> QED BY <1>2, <1>3, <1>4, <1>5

\* He keeps his place.
LEMMA LedgerStays ==
  ASSUME NEW a \in Lease, NEW m, NEW c, NEW e, Placed(a, m, c, e), Same(a), UNCHANGED link,
         registry'.crossed = registry.crossed, registry'.generation = registry.generation,
         registry'.count = c, registry'.exclusive = e,
         Holding(a)', lease'[a].mode = m
  PROVE  Ledger'
<1>1. Held' = Held \cup {a} /\ Online' = Online
  BY HeldThen DEF Online
<1>2. \A b \in Held : b # a => lease'[b] = lease[b]
  BY DEF Held, Same
<1> QED BY <1>1, <1>2 DEF Placed, Ledger

\* He leaves it.
LEMMA LedgerLeaves ==
  ASSUME NEW a \in Lease, NEW m, NEW c, NEW e, Placed(a, m, c, e), Same(a), UNCHANGED link,
         registry'.crossed = registry.crossed, registry'.generation = registry.generation,
         registry'.count = Down(c), registry'.exclusive = IF e = a THEN None ELSE e,
         ~Holding(a)'
  PROVE  Ledger'
<1>1. Held' = (Held \cup {a}) \ {a} /\ Online' = Online
  BY HeldThen DEF Online
<1>2. \A b \in Held : b # a => lease'[b] = lease[b]
  BY DEF Held, Same
<1> SUFFICES ASSUME Online
             PROVE  /\ IsFiniteSet(Held')
                    /\ Cardinality(Held') = registry'.count
                    /\ registry'.exclusive \in Lease => Held' = {registry'.exclusive}
                    /\ \A b \in Held' : lease'[b].mode = "exclusive" => registry'.exclusive = b
  BY <1>1 DEF Ledger
<1> DEFINE H == Held \cup {a}
<1>3. IsFiniteSet(H) /\ Cardinality(H) = c
  BY DEF Placed
<1>4. IsFiniteSet(H \ {a}) /\ Cardinality(H \ {a}) = c - 1
  BY <1>3, FS_RemoveElement
<1>5. c \in Nat /\ c - 1 \in Nat
  BY <1>3, <1>4, FS_CardinalityType
<1>6. Down(c) = c - 1
  BY <1>5 DEF Down
<1>7. registry'.exclusive \notin Lease
  BY NoneAssumption DEF Placed
<1>8. \A b \in Held' : b \in Held /\ b # a
  BY <1>1
<1>9. \A b \in Held' : lease'[b].mode = "exclusive" => registry'.exclusive = b
  <2> SUFFICES ASSUME NEW b \in Held', lease'[b].mode = "exclusive" PROVE registry'.exclusive = b
    OBVIOUS
  <2>1. e = b
    BY <1>2, <1>8 DEF Placed
  <2> QED BY <2>1, <1>8
<1> QED BY <1>1, <1>4, <1>6, <1>7, <1>9

\* Who had no place leaves nothing changed.
LEMMA LedgerIdle ==
  ASSUME NEW a \in Lease, Ledger, Same(a), UNCHANGED link, a \notin Held,
         registry'.crossed = registry.crossed, registry'.generation = registry.generation,
         registry'.count = registry.count, registry'.exclusive = registry.exclusive,
         ~Holding(a)'
  PROVE  Ledger'
<1>1. Held' = Held /\ Online' = Online
  BY HeldThen DEF Online
<1>2. \A b \in Held : lease'[b] = lease[b]
  BY DEF Held, Same
<1> QED BY <1>1, <1>2 DEF Ledger

\* A holder has a place.
LEMMA PlacedHere ==
  ASSUME Ledger, Offline, NEW a \in Lease, Holding(a)
  PROVE  Placed(a, lease[a].mode, registry.count, registry.exclusive)
<1>1. a \in Held /\ Held \cup {a} = Held
  BY DEF Held
<1> QED BY <1>1 DEF Placed, Ledger, Offline, Acquiring

\* The promises of before are settled or are still promises.
LEMMA PromiseStays ==
  ASSUME Good, NoRequest \/ \E c \in {"attach", "detach"} : Request(c)
  PROVE  \A n \in Ids : promise[n].state # "none" => promise'[n].state # "none"
BY DEF Good, Requests, NoRequest, Request

LEMMA WaitsType ==
  ASSUME Good
  PROVE  /\ \A a \in Lease : lease[a].waits \in 0 .. MaxRequests /\ lease[a].generation \in Nat
         /\ registry.attachment \in 0 .. MaxRequests
         /\ registry.detachment \in 0 .. MaxRequests
         /\ registry.reconciliation \in 0 .. MaxRequests
         /\ registry.generation \in Nat
         /\ registry.count \in Nat
         /\ \A n \in 0 .. MaxRequests : n # 0 => n \in Ids
<1>1. \A a \in Lease : lease[a] \in Closure
  BY DEF Good
<1>2. registry \in Registry
  BY DEF Good
<1>3. \A n \in 0 .. MaxRequests : n # 0 => n \in Ids
  BY BoundAssumption DEF Ids
<1> QED BY <1>1, <1>2, <1>3 DEF Closure, Registry

------------------------------------------------------------------------------
(* The steps of an acquisition.                                            *)

NoRelease == \A b \in Lease : lease[b].pc # "releasing"

LEMMA LinksStay ==
  ASSUME Good, Links, UNCHANGED <<link, attached>>,
         NoRequest \/ (link = "connected" /\ \E c \in {"attach", "detach"} : Request(c))
  PROVE  Links'
BY DEF Links, NoRequest, Unsettled

\* He goes on to the attachment, once nothing is left to give back or to clean up.
LEMMA GoesOn ==
  ASSUME Good, AloneInv, Others, NEW a \in Lease, NEW m, NEW c, NEW e, Same(a), Placed(a, m, c, e),
         registry'.cleanup = registry.cleanup, lease[a].pc \in {"none", "awaitDetach", "reconciled"},
         Online => NoRelease /\ ~registry.cleanup,
         (attached /\ Granted(a, m, c, e, registry.attachment)) \/ Attaches(a, m, c, e)
  PROVE  AloneInv'
<1>1. NoRequest \/ (link = "connected" /\ Request("attach"))
  BY DEF Granted, Attaches
<1>2. \A n \in Ids : promise[n].state # "none" => promise'[n].state # "none"
  BY <1>1, PromiseStays
<1>3. /\ registry'.generation = registry.generation /\ registry'.crossed = registry.crossed
      /\ registry'.detachment = registry.detachment
      /\ registry'.reconciliation = registry.reconciliation
      /\ registry'.count = c /\ registry'.exclusive = e
      /\ registry'.attachment = registry.attachment
         \/ (registry'.attachment = sequence + 1 /\ lease'[a].waits = sequence + 1
             /\ lease'[a].pc = "attaching")
      /\ lease'[a].mode = m
  BY DEF Granted, Attaches, Keeps
<1>4. \/ lease'[a].pc = "active" /\ lease'[a].generation = registry.generation /\ link = "connected"
      \/ /\ lease'[a].pc = "attaching"
         /\ \/ registry.attachment # 0 /\ lease'[a].waits = registry.attachment /\ NoRequest
            \/ link = "connected" /\ lease'[a].waits = sequence + 1 /\ Request("attach")
               /\ sequence + 1 \in Ids
  BY DEF Granted, Attaches, AloneInv, Links
<1>5. Links'
  BY <1>1, LinksStay DEF Others, AloneInv
<1>6. Holding(a)'
  BY <1>3, <1>4 DEF Holding, Acquiring
<1>7. Ledger'
  BY <1>3, <1>6, LedgerStays DEF Others
<1>8. Promises'
  <2>1. /\ lease'[a].pc = "attaching" => lease'[a].waits # 0 /\ promise'[lease'[a].waits].state # "none"
    <3>1. CASE registry.attachment # 0 /\ lease'[a].waits = registry.attachment
      BY <1>2, <3>1, WaitsType DEF AloneInv, Promises, Waiting
    <3>2. CASE lease'[a].waits = sequence + 1 /\ Request("attach") /\ sequence + 1 \in Ids
      BY <3>2 DEF Request, Good, Requests, Ids
    <3> QED BY <1>4, <3>1, <3>2
  <2>2. \A b \in Lease : Waiting(b)' => lease'[b].waits # 0 /\ promise'[lease'[b].waits].state # "none"
    BY <1>2, <1>4, <2>1, WaitsType DEF AloneInv, Promises, Waiting, Same
  <2>3. registry'.attachment # 0 =>
          \E b \in Lease : lease'[b].pc = "attaching" /\ lease'[b].waits = registry'.attachment
    BY <1>3 DEF AloneInv, Promises, Same
  <2>4. registry'.detachment # 0 =>
          \E b \in Lease : lease'[b].pc = "releasing" /\ lease'[b].waits = registry'.detachment
    BY <1>3 DEF AloneInv, Promises, Same
  <2>5. registry'.reconciliation # 0 <=> \E b \in Lease : lease'[b].pc = "reconciling"
    BY <1>3, <1>4 DEF AloneInv, Promises, Same
  <2>6. registry'.reconciliation # 0 => promise'[registry'.reconciliation].state # "none"
    BY <1>2, <1>3, WaitsType DEF AloneInv, Promises
  <2>7. \A b \in Lease : lease'[b].pc \in {"active", "releasing"} =>
                           lease'[b].generation <= registry'.generation
    BY <1>3, <1>4, WaitsType DEF AloneInv, Promises, Same
  <2> QED BY <2>2, <2>3, <2>4, <2>5, <2>6, <2>7 DEF Promises, Waiting
<1>9. Offline'
  <2> SUFFICES ASSUME link # "connected", ~registry.crossed
               PROVE  Offline'
    BY <1>3 DEF Offline, Others
  <2>1. NoRequest /\ lease'[a].pc = "attaching" /\ lease'[a].waits = registry.attachment
        /\ registry.attachment # 0
    BY <1>4
  <2>2. promise[registry.attachment].state # "ok"
    BY <2>1 DEF AloneInv, Promises, Offline, Waiting
  <2>3. a \in Acquiring' /\ \A b \in Lease : b # a => (b \in Acquiring' <=> b \in Acquiring)
    BY <1>3, <2>1, HeldThen DEF Acquiring
  <2>4. e \in Lease => e \in Acquiring'
    BY <2>3 DEF Placed, Acquiring
  <2> QED BY <1>3, <2>1, <2>2, <2>4 DEF AloneInv, Offline, Waiting, Same, NoRequest, Others
<1>10. Detaching' /\ Cleaning' /\ Asked'
  <2> SUFFICES ASSUME Online
               PROVE  Detaching' /\ Cleaning' /\ Asked'
    BY <1>3 DEF Detaching, Cleaning, Asked, Online, Others
  <2>1. \A b \in Lease : lease'[b].pc # "releasing"
    BY <1>4 DEF NoRelease, Same
  <2>2. registry'.cleanup = FALSE /\ registry'.reconciliation = 0
    BY <1>3 DEF AloneInv, Cleaning
  <2>3. \A n \in Ids : promise'[n].command = "detach" /\ Unsettled(n)' =>
          promise[n].command = "detach" /\ Unsettled(n)
    BY <1>1 DEF NoRequest, Request, Unsettled, Good, Requests
  <2> QED BY <1>3, <2>1, <2>2, <2>3 DEF Detaching, Cleaning, Asked, AloneInv
<1> QED BY <1>5, <1>7, <1>8, <1>9, <1>10 DEF AloneInv

\* He waits for the reconciliation.
LEMMA CleansUp ==
  ASSUME Good, AloneInv, Others, NEW a \in Lease, NEW m, NEW c, NEW e, Same(a), Placed(a, m, c, e),
         registry'.cleanup = registry.cleanup, lease[a].pc \in {"none", "awaitDetach"},
         Online => NoRelease, Cleans(a, m, c, e)
  PROVE  AloneInv'
<1>1. NoRequest \/ (link = "connected" /\ Request("detach"))
  BY DEF Cleans
<1>2. \A n \in Ids : promise[n].state # "none" => promise'[n].state # "none"
  BY <1>1, PromiseStays
<1>3. /\ registry'.generation = registry.generation /\ registry'.crossed = registry.crossed
      /\ registry'.detachment = registry.detachment
      /\ registry'.attachment = registry.attachment
      /\ registry'.count = c /\ registry'.exclusive = e
      /\ lease'[a].mode = m /\ lease'[a].pc = "reconciling"
      /\ registry.cleanup
  BY DEF Cleans, Keeps
<1>4. \/ registry.reconciliation # 0 /\ registry'.reconciliation = registry.reconciliation /\ NoRequest
      \/ /\ registry.reconciliation = 0 /\ registry'.reconciliation = sequence + 1
         /\ link = "connected" /\ Request("detach") /\ sequence + 1 \in Ids
  BY DEF Cleans, Keeps
<1>5. Links'
  BY <1>1, LinksStay DEF Others, AloneInv
<1>6. Holding(a)'
  BY <1>3 DEF Holding, Acquiring
<1>7. Ledger'
  BY <1>3, <1>6, LedgerStays DEF Others
<1>8. Promises'
  <2>2. \A b \in Lease : Waiting(b)' => lease'[b].waits # 0 /\ promise'[lease'[b].waits].state # "none"
    BY <1>2, <1>3, WaitsType DEF AloneInv, Promises, Waiting, Same
  <2>3. registry'.attachment # 0 =>
          \E b \in Lease : lease'[b].pc = "attaching" /\ lease'[b].waits = registry'.attachment
    BY <1>3 DEF AloneInv, Promises, Same
  <2>4. registry'.detachment # 0 =>
          \E b \in Lease : lease'[b].pc = "releasing" /\ lease'[b].waits = registry'.detachment
    BY <1>3 DEF AloneInv, Promises, Same
  <2>5. registry'.reconciliation # 0
    BY <1>4 DEF Ids
  <2>6. promise'[registry'.reconciliation].state # "none"
    <3>1. CASE registry.reconciliation # 0 /\ registry'.reconciliation = registry.reconciliation
      BY <1>2, <3>1, WaitsType DEF AloneInv, Promises
    <3>2. CASE registry'.reconciliation = sequence + 1 /\ Request("detach") /\ sequence + 1 \in Ids
      BY <3>2 DEF Request, Good, Requests
    <3> QED BY <1>4, <3>1, <3>2
  <2>7. \A b \in Lease : lease'[b].pc \in {"active", "releasing"} =>
                           lease'[b].generation <= registry'.generation
    BY <1>3 DEF AloneInv, Promises, Same
  <2> QED BY <1>3, <2>2, <2>3, <2>4, <2>5, <2>6, <2>7 DEF Promises, Waiting
<1>9. Offline'
  <2> SUFFICES ASSUME link # "connected", ~registry.crossed
               PROVE  Offline'
    BY <1>3 DEF Offline, Others
  <2>1. NoRequest /\ registry'.reconciliation = registry.reconciliation
    BY <1>4
  <2>3. a \in Acquiring' /\ \A b \in Lease : b # a => (b \in Acquiring' <=> b \in Acquiring)
    BY <1>3, HeldThen DEF Acquiring
  <2>4. e \in Lease => e \in Acquiring'
    BY <2>3 DEF Placed, Acquiring
  <2> QED BY <1>3, <2>1, <2>4 DEF AloneInv, Offline, Waiting, Same, NoRequest, Others
<1>10. Detaching' /\ Cleaning' /\ Asked'
  <2> SUFFICES ASSUME Online
               PROVE  Detaching' /\ Cleaning' /\ Asked'
    BY <1>3 DEF Detaching, Cleaning, Asked, Online, Others
  <2>1. \A b \in Lease : lease'[b].pc # "releasing"
    BY <1>3 DEF NoRelease, Same
  <2>2. Held' = Held \cup {a}
    BY <1>3, <1>6, HeldThen
  <2>3. \A b \in Held' : ~Past(b)'
    BY <1>3, <2>2 DEF AloneInv, Cleaning, Past, Same, Held
  <2>4. \A n \in Ids : promise'[n].command = "detach" /\ Unsettled(n)' =>
          \/ promise[n].command = "detach" /\ Unsettled(n)
          \/ n = sequence + 1 /\ registry'.reconciliation = n
    BY <1>4 DEF NoRequest, Request, Unsettled, Good, Requests
  <2>5. registry.reconciliation # 0 => registry'.reconciliation = registry.reconciliation
    BY <1>4
  <2>6. \A n \in Ids : n # 0
    BY DEF Ids
  <2> QED BY <1>3, <2>1, <2>3, <2>4, <2>5, <2>6 DEF Detaching, Cleaning, Asked, AloneInv
<1> QED BY <1>5, <1>7, <1>8, <1>9, <1>10 DEF AloneInv

\* He fails, or gives his place back.
LEMMA LeavesIt ==
  ASSUME Good, AloneInv, Others, NEW a \in Lease, NEW m, NEW c, NEW e, Same(a), Placed(a, m, c, e),
         NEW at, NEW de, Fails(a, c, e, at, de),
         lease[a].pc # "reconciling",
         at = 0 \/ (at = registry.attachment /\ ~(lease[a].pc = "attaching" /\ lease[a].waits = at)),
         \/ de = registry.detachment /\ ~(lease[a].pc = "releasing" /\ lease[a].waits = de)
         \/ de = 0 /\ lease[a].pc = "releasing" /\ ~Unsettled(registry.detachment),
         registry'.cleanup = registry.cleanup \/ (registry'.cleanup /\ lease[a].pc = "releasing")
  PROVE  AloneInv'
<1>1. NoRequest
  BY DEF Fails
<1>3. /\ registry'.generation = registry.generation /\ registry'.crossed = registry.crossed
      /\ registry'.detachment = de
      /\ registry'.attachment = at
      /\ registry'.reconciliation = registry.reconciliation
      /\ registry'.count = Down(c) /\ registry'.exclusive = IF e = a THEN None ELSE e
      /\ lease'[a].pc = "none"
  BY DEF Fails, Keeps
<1>5. Links'
  BY <1>1, LinksStay DEF Others, AloneInv
<1>6. ~Holding(a)'
  BY <1>3 DEF Holding, Acquiring
<1>7. Ledger'
  BY <1>3, <1>6, LedgerLeaves DEF Others
<1>8. Promises'
  <2>2. \A b \in Lease : Waiting(b)' => lease'[b].waits # 0 /\ promise'[lease'[b].waits].state # "none"
    BY <1>1, <1>3 DEF AloneInv, Promises, Waiting, Same, NoRequest
  <2>3. registry'.attachment # 0 =>
          \E b \in Lease : lease'[b].pc = "attaching" /\ lease'[b].waits = registry'.attachment
    BY <1>3 DEF AloneInv, Promises, Same
  <2>4. registry'.detachment # 0 =>
          \E b \in Lease : lease'[b].pc = "releasing" /\ lease'[b].waits = registry'.detachment
    BY <1>3 DEF AloneInv, Promises, Same
  <2>5. registry'.reconciliation # 0 <=> \E b \in Lease : lease'[b].pc = "reconciling"
    BY <1>3 DEF AloneInv, Promises, Same
  <2>6. registry'.reconciliation # 0 => promise'[registry'.reconciliation].state # "none"
    BY <1>1, <1>3 DEF AloneInv, Promises, NoRequest
  <2>7. \A b \in Lease : lease'[b].pc \in {"active", "releasing"} =>
                           lease'[b].generation <= registry'.generation
    BY <1>3 DEF AloneInv, Promises, Same
  <2> QED BY <2>2, <2>3, <2>4, <2>5, <2>6, <2>7 DEF Promises, Waiting
<1>9. Offline'
  <2> SUFFICES ASSUME link # "connected", ~registry.crossed
               PROVE  Offline'
    BY <1>3 DEF Offline, Others
  <2>1. \A b \in Lease : b # a => (b \in Acquiring' <=> b \in Acquiring)
    BY <1>3, HeldThen
  <2>2. registry'.exclusive \in Lease => registry'.exclusive \in Acquiring'
    BY <1>3, <2>1, NoneAssumption DEF Placed, Acquiring
  <2> QED BY <1>1, <1>3, <2>2 DEF AloneInv, Offline, Waiting, Same, NoRequest, Others
<1>10. Detaching' /\ Cleaning' /\ Asked'
  <2> SUFFICES ASSUME Online
               PROVE  Detaching' /\ Cleaning' /\ Asked'
    BY <1>3 DEF Detaching, Cleaning, Asked, Online, Others
  <2>1. Held' = Held \ {a}
    BY <1>3, <1>6, HeldThen
  <2>2. ASSUME lease[a].pc = "releasing"
        PROVE  /\ \A b \in Held' : lease'[b].pc = "awaitDetach"
               /\ \A b \in Lease : lease'[b].pc # "releasing"
    <3>1. \A b \in Held : b # a => lease[b].pc = "awaitDetach"
      BY <2>2 DEF AloneInv, Detaching
    <3>2. \A b \in Lease : lease[b].pc = "releasing" => b \in Held
      BY DEF AloneInv, Detaching, Held, Holding
    <3> QED BY <1>3, <2>1, <3>1, <3>2 DEF Same, Held
  <2>3. Detaching'
    <3>1. CASE lease[a].pc = "releasing"
      BY <2>2, <3>1 DEF Detaching
    <3>2. CASE lease[a].pc # "releasing"
      <4>1. registry'.detachment = registry.detachment
        BY <1>3, <3>2
      <4> QED BY <1>3, <2>1, <4>1 DEF AloneInv, Detaching, Same, Held
    <3> QED BY <3>1, <3>2
  <2>4. Cleaning'
    <3>1. CASE lease[a].pc = "releasing"
      BY <1>3, <2>2, <3>1 DEF AloneInv, Cleaning, Past
    <3>2. CASE lease[a].pc # "releasing"
      <4>1. \A b \in Held' : b \in Held /\ lease'[b] = lease[b]
        BY <2>1 DEF Held, Same
      <4> QED BY <1>3, <3>2, <4>1 DEF AloneInv, Cleaning, Past
    <3> QED BY <3>1, <3>2
  <2>5. Asked'
    BY <1>1, <1>3 DEF AloneInv, Asked, NoRequest, Unsettled
  <2> QED BY <2>3, <2>4, <2>5
<1> QED BY <1>5, <1>7, <1>8, <1>9, <1>10 DEF AloneInv

\* He waits for the detach that is under way.
LEMMA WaitsForIt ==
  ASSUME Good, AloneInv, Others, NEW a \in Lease, NEW m, NEW c, NEW e, Same(a), Placed(a, m, c, e),
         registry'.cleanup = registry.cleanup, lease[a].pc = "none",
         lease'[a].pc = "awaitDetach", lease'[a].mode = m,
         registry.detachment # 0, lease'[a].waits = registry.detachment,
         Keeps(c, e, registry.attachment, registry.detachment, registry.reconciliation), NoRequest
  PROVE  AloneInv'
<1>3. /\ registry'.generation = registry.generation /\ registry'.crossed = registry.crossed
      /\ registry'.detachment = registry.detachment
      /\ registry'.attachment = registry.attachment
      /\ registry'.reconciliation = registry.reconciliation
      /\ registry'.count = c /\ registry'.exclusive = e
  BY DEF Keeps
<1>4. /\ promise[registry.detachment].state # "none"
      /\ \E r \in Lease : lease[r].pc = "releasing" /\ lease[r].waits = registry.detachment
  BY DEF AloneInv, Promises, Waiting
<1>5. Links'
  BY LinksStay DEF Others, AloneInv
<1>6. Holding(a)'
  BY DEF Holding, Acquiring
<1>7. Ledger'
  BY <1>3, <1>6, LedgerStays DEF Others
<1>8. Promises'
  <2>2. \A b \in Lease : Waiting(b)' => lease'[b].waits # 0 /\ promise'[lease'[b].waits].state # "none"
    BY <1>4 DEF AloneInv, Promises, Waiting, Same, NoRequest
  <2>3. registry'.attachment # 0 =>
          \E b \in Lease : lease'[b].pc = "attaching" /\ lease'[b].waits = registry'.attachment
    BY <1>3 DEF AloneInv, Promises, Same
  <2>4. registry'.detachment # 0 =>
          \E b \in Lease : lease'[b].pc = "releasing" /\ lease'[b].waits = registry'.detachment
    BY <1>3 DEF AloneInv, Promises, Same
  <2>5. registry'.reconciliation # 0 <=> \E b \in Lease : lease'[b].pc = "reconciling"
    BY <1>3 DEF AloneInv, Promises, Same
  <2>6. registry'.reconciliation # 0 => promise'[registry'.reconciliation].state # "none"
    BY <1>3 DEF AloneInv, Promises, NoRequest
  <2>7. \A b \in Lease : lease'[b].pc \in {"active", "releasing"} =>
                           lease'[b].generation <= registry'.generation
    BY <1>3 DEF AloneInv, Promises, Same
  <2> QED BY <2>2, <2>3, <2>4, <2>5, <2>6, <2>7 DEF Promises, Waiting
<1>9. Offline'
  <2> SUFFICES ASSUME link # "connected", ~registry.crossed
               PROVE  Offline'
    BY <1>3 DEF Offline, Others
  <2>1. promise[registry.detachment].state # "ok"
    BY <1>4 DEF AloneInv, Offline, Waiting
  <2>2. a \in Acquiring' /\ \A b \in Lease : b # a => (b \in Acquiring' <=> b \in Acquiring)
    BY <1>3, HeldThen DEF Acquiring
  <2>3. e \in Lease => e \in Acquiring'
    BY <2>2 DEF Placed, Acquiring
  <2> QED BY <1>3, <2>1, <2>3 DEF AloneInv, Offline, Waiting, Same, NoRequest, Others
<1>10. Detaching' /\ Cleaning' /\ Asked'
  <2> SUFFICES ASSUME Online
               PROVE  Detaching' /\ Cleaning' /\ Asked'
    BY <1>3 DEF Detaching, Cleaning, Asked, Online, Others
  <2>1. Held' = Held \cup {a}
    BY <1>3, <1>6, HeldThen
  <2>2. Detaching'
    BY <1>3, <2>1 DEF AloneInv, Detaching, Same, Held
  <2>3. Cleaning'
    <3>1. \A b \in Held' : b = a \/ (b \in Held /\ lease'[b] = lease[b])
      BY <2>1 DEF Held, Same
    <3> QED BY <1>3, <3>1 DEF AloneInv, Cleaning, Past
  <2>4. Asked'
    BY <1>3 DEF AloneInv, Asked, NoRequest, Unsettled
  <2> QED BY <2>2, <2>3, <2>4
<1> QED BY <1>5, <1>7, <1>8, <1>9, <1>10 DEF AloneInv

\* Nobody gives a lease back where somebody has passed the detach he waited for.
LEMMA NobodyReleases ==
  ASSUME AloneInv, Online, NEW a \in Lease, Holding(a),
         \/ lease[a].pc \in {"reconciling", "reconciled", "attaching", "active"}
         \/ /\ lease[a].pc = "awaitDetach"
            /\ \A b \in Lease : lease[b].pc = "releasing" => lease[b].waits # lease[a].waits
  PROVE  NoRelease
<1>1. a \in Held
  BY DEF Held
<1> QED BY <1>1 DEF AloneInv, Detaching, NoRelease

LEMMA AcquireAlone ==
  ASSUME EInv, NEW a \in Lease, NEW mode \in Modes, Acquire(a, mode)
  PROVE  AloneInv'
<1> DEFINE q == [NoLease EXCEPT !.mode = mode]
           e == IF mode = "exclusive" THEN a ELSE registry.exclusive
           c == registry.count + 1
           g == [registry EXCEPT !.count = @ + 1,
                                 !.exclusive = IF mode = "exclusive" THEN a ELSE @]
<1>1. Good /\ AloneInv /\ registry \in Registry
  BY DEF EInv, CInv, Good
<1>2. q \in Closure /\ q.mode = mode
  BY NoLeaseType DEF Closure, NoLease
<1>3. Others /\ lease[a].pc = "none" /\ MayReserve(mode)
  BY DEF Acquire, Others
<1>4. e \in Lease \cup {None} /\ c \in Nat
  BY <1>1 DEF Registry
<1>5. Stands(g, c, e) /\ g.attachment = registry.attachment
  BY <1>1, <1>4 DEF Stands, Registry
<1>6. a \notin Held
  BY <1>3 DEF Held, Holding, Acquiring
<1>7. Placed(a, mode, c, e)
  <2>1. ASSUME Online
        PROVE  /\ IsFiniteSet(Held \cup {a})
               /\ Cardinality(Held \cup {a}) = c
               /\ e \in Lease => Held \cup {a} = {e}
               /\ \A b \in Held : b # a /\ lease[b].mode = "exclusive" => e = b
               /\ mode = "exclusive" => e = a
    <3>1. IsFiniteSet(Held) /\ Cardinality(Held) = registry.count
      BY <1>1, <2>1 DEF AloneInv, Ledger
    <3>2. IsFiniteSet(Held \cup {a}) /\ Cardinality(Held \cup {a}) = c
      BY <1>6, <3>1, FS_AddElement
    <3>3. CASE mode = "exclusive"
      <4>1. Held = {}
        BY <1>3, <3>1, <3>3, FS_EmptySet DEF MayReserve
      <4> QED BY <3>2, <3>3, <4>1
    <3>4. CASE mode # "exclusive"
      <4>1. registry.exclusive = None
        BY <1>3, <3>4 DEF MayReserve
      <4>2. \A b \in Held : lease[b].mode # "exclusive"
        BY <1>1, <2>1, <4>1, NoneAssumption DEF AloneInv, Ledger, Held
      <4> QED BY <3>2, <3>4, <4>1, <4>2, NoneAssumption
    <3> QED BY <3>3, <3>4
  <2>2. link # "connected" /\ ~registry.crossed => (e \in Lease => e \in Acquiring \cup {a})
    BY <1>1 DEF AloneInv, Offline
  <2> HIDE DEF e, c
  <2> QED BY <2>1, <2>2 DEF Placed
<1> HIDE DEF q, e, c, g
<1>8. CASE /\ registry.detachment # 0
           /\ lease' = [lease EXCEPT ![a] = [q EXCEPT !.pc = "awaitDetach", !.waits = registry.detachment]]
           /\ registry' = g
           /\ NoRequest
  <2> DEFINE l == [q EXCEPT !.pc = "awaitDetach", !.waits = registry.detachment]
  <2>1. l.pc = "awaitDetach" /\ l.waits = registry.detachment /\ l.mode = mode
    BY <1>2 DEF Closure
  <2> HIDE DEF l
  <2>2. lease' = [lease EXCEPT ![a] = l]
    BY <1>8 DEF l
  <2>3. lease'[a] = l /\ Same(a)
    BY <1>1, <2>2 DEF Good, Same
  <2>4. Keeps(c, e, registry.attachment, registry.detachment, registry.reconciliation)
        /\ registry'.cleanup = registry.cleanup
    BY <1>5, <1>8 DEF Keeps, Stands
  <2> QED BY <1>1, <1>3, <1>7, <1>8, <2>1, <2>3, <2>4, WaitsForIt
<1>9. CASE registry.detachment = 0 /\ Reconciling(a, g, q)
  <2>2. Online => NoRelease
    BY <1>1, <1>9 DEF NoRelease, AloneInv, Promises, Detaching, Waiting
  <2>3. /\ Same(a)
        /\ registry'.cleanup = registry.cleanup
        /\ \/ /\ ~registry.cleanup
              /\ \/ attached /\ Granted(a, mode, c, e, registry.attachment)
                 \/ Attaches(a, mode, c, e)
           \/ Cleans(a, mode, c, e)
           \/ link # "connected" /\ Fails(a, c, e, registry.attachment, registry.detachment)
    BY <1>1, <1>2, <1>5, <1>9, ReconcilingDoes
  <2>4. CASE /\ ~registry.cleanup
             /\ \/ attached /\ Granted(a, mode, c, e, registry.attachment)
                \/ Attaches(a, mode, c, e)
    BY <1>1, <1>3, <1>7, <2>2, <2>3, <2>4, GoesOn
  <2>5. CASE Cleans(a, mode, c, e)
    BY <1>1, <1>3, <1>7, <2>2, <2>3, <2>5, CleansUp
  <2>6. CASE Fails(a, c, e, registry.attachment, registry.detachment)
    BY <1>1, <1>3, <1>7, <2>3, <2>6, LeavesIt
  <2> QED BY <2>3, <2>4, <2>5, <2>6
<1> QED BY <1>8, <1>9 DEF Acquire, q, g

LEMMA AfterDetachAlone ==
  ASSUME EInv, NEW a \in Lease, AfterDetach(a)
  PROVE  AloneInv'
<1> DEFINE m == lease[a].mode
           c == registry.count
           e == registry.exclusive
<1>1. Good /\ AloneInv /\ registry \in Registry /\ lease[a] \in Closure
  BY DEF EInv, CInv, Good
<1>2. Others /\ lease[a].pc = "awaitDetach" /\ Reconciling(a, registry, lease[a])
      /\ \A b \in Lease : lease[b].pc = "releasing" => lease[b].waits # lease[a].waits
  BY DEF AfterDetach, Others
<1>3. Holding(a)
  BY <1>2 DEF Holding, Acquiring
<1>4. Placed(a, m, c, e)
  BY <1>1, <1>3, PlacedHere DEF AloneInv
<1>5. Stands(registry, c, e)
  BY <1>1 DEF Stands
<1>6. Online => NoRelease
  BY <1>1, <1>2, <1>3, NobodyReleases
<1> HIDE DEF c, e
<1>7. /\ Same(a)
      /\ registry'.cleanup = registry.cleanup
      /\ \/ /\ ~registry.cleanup
            /\ \/ attached /\ Granted(a, m, c, e, registry.attachment)
               \/ Attaches(a, m, c, e)
         \/ Cleans(a, m, c, e)
         \/ link # "connected" /\ Fails(a, c, e, registry.attachment, registry.detachment)
  BY <1>1, <1>2, <1>5, ReconcilingDoes
<1> HIDE DEF m
<1>8. CASE /\ ~registry.cleanup
           /\ \/ attached /\ Granted(a, m, c, e, registry.attachment)
              \/ Attaches(a, m, c, e)
  BY <1>1, <1>2, <1>4, <1>6, <1>7, <1>8, GoesOn
<1>9. CASE Cleans(a, m, c, e)
  BY <1>1, <1>2, <1>4, <1>6, <1>7, <1>9, CleansUp
<1>10. CASE Fails(a, c, e, registry.attachment, registry.detachment)
  BY <1>1, <1>2, <1>4, <1>7, <1>10, LeavesIt
<1> QED BY <1>7, <1>8, <1>9, <1>10

LEMMA AfterReconciliationAlone ==
  ASSUME EInv, NEW a \in Lease, AfterReconciliation(a)
  PROVE  AloneInv'
<1> DEFINE m == lease[a].mode
           c == registry.count
           e == registry.exclusive
<1>1. Good /\ AloneInv /\ registry \in Registry /\ lease[a] \in Closure
  BY DEF EInv, CInv, Good
<1>2. Others /\ lease[a].pc = "reconciled"
      /\ \/ lease[a].waits = 0 /\ Attaching(a, registry, lease[a], TRUE)
         \/ Fail(a, registry) /\ NoRequest
  BY DEF AfterReconciliation, Others
<1>3. Holding(a)
  BY <1>2 DEF Holding, Acquiring
<1>4. Placed(a, m, c, e)
  BY <1>1, <1>3, PlacedHere DEF AloneInv
<1>5. Stands(registry, c, e)
  BY <1>1 DEF Stands
<1>6. Online => NoRelease
  BY <1>1, <1>2, <1>3, NobodyReleases
<1> HIDE DEF c, e
<1>7. CASE lease[a].waits = 0 /\ Attaching(a, registry, lease[a], TRUE)
  <2>1. /\ Same(a)
        /\ registry'.cleanup = registry.cleanup
        /\ \/ attached /\ Granted(a, m, c, e, registry.attachment)
           \/ Attaches(a, m, c, e)
           \/ link # "connected" /\ Fails(a, c, e, registry.attachment, registry.detachment)
    BY <1>1, <1>2, <1>5, <1>7, AttachingDoes
  <2>2. Online => ~registry.cleanup
    BY <1>1, <1>2, <1>3, <1>7 DEF AloneInv, Cleaning, Past, Held
  <2> HIDE DEF m
  <2>3. CASE (attached /\ Granted(a, m, c, e, registry.attachment)) \/ Attaches(a, m, c, e)
    BY <1>1, <1>2, <1>4, <1>6, <2>1, <2>2, <2>3, GoesOn
  <2>4. CASE Fails(a, c, e, registry.attachment, registry.detachment)
    BY <1>1, <1>2, <1>4, <2>1, <2>4, LeavesIt
  <2> QED BY <2>1, <2>3, <2>4
<1>8. CASE Fail(a, registry) /\ NoRequest
  <2>1. /\ Same(a)
        /\ Fails(a, c, e, registry.attachment, registry.detachment)
        /\ registry'.cleanup = registry.cleanup
    BY <1>1, <1>5, <1>8, FailDoes
  <2> HIDE DEF m
  <2> QED BY <1>1, <1>2, <1>4, <2>1, LeavesIt
<1> QED BY <1>2, <1>7, <1>8

LEMMA AfterAttachAlone ==
  ASSUME EInv, NEW a \in Lease, AfterAttach(a)
  PROVE  AloneInv'
<1> DEFINE n == lease[a].waits
           m == lease[a].mode
           c == registry.count
           e == registry.exclusive
           at == IF registry.attachment = n THEN 0 ELSE registry.attachment
           g == [registry EXCEPT !.attachment = IF @ = n THEN 0 ELSE @]
<1>1. Good /\ AloneInv /\ registry \in Registry /\ lease[a] \in Closure
  BY DEF EInv, CInv, Good
<1>2. Others /\ lease[a].pc = "attaching" /\ Settled(n) /\ NoRequest
      /\ IF promise[n].state = "ok" THEN TakeLease(a, g, lease[a]) ELSE Fail(a, g)
  BY DEF AfterAttach, Others, NoRequest
<1>3. Holding(a)
  BY <1>2 DEF Holding, Acquiring
<1>4. Placed(a, m, c, e)
  BY <1>1, <1>3, PlacedHere DEF AloneInv
<1>5. at \in 0 .. MaxRequests
  BY <1>1, BoundAssumption DEF Registry
<1>6. Stands(g, c, e) /\ g.attachment = at
  BY <1>1, <1>5 DEF Stands, Registry
<1>7. Online => NoRelease /\ ~registry.cleanup
  <2>1. Online => NoRelease
    BY <1>1, <1>2, <1>3, NobodyReleases
  <2> QED BY <1>1, <1>2, <1>3, <2>1 DEF AloneInv, Cleaning, Past, Held
<1>8. at = 0 \/ (at = registry.attachment /\ lease[a].waits # at)
  OBVIOUS
<1> HIDE DEF g, at, c, e
<1>9. CASE promise[n].state = "ok" /\ TakeLease(a, g, lease[a])
  <2>1. Same(a) /\ Granted(a, m, c, e, at) /\ registry'.cleanup = registry.cleanup
    BY <1>1, <1>2, <1>6, <1>9, TakeLeaseDoes
  <2>2. /\ lease'[a].pc = "active" /\ lease'[a].mode = m /\ lease'[a].generation = registry.generation
        /\ registry'.count = c /\ registry'.exclusive = e
        /\ registry'.attachment = at /\ registry'.detachment = registry.detachment
        /\ registry'.reconciliation = registry.reconciliation
        /\ registry'.generation = registry.generation /\ registry'.crossed = registry.crossed
    BY <2>1 DEF Granted, Keeps
  <2>3. Holding(a)'
    BY <2>2 DEF Holding
  <2> HIDE DEF m
  <2>4. Ledger'
    BY <1>2, <1>4, <2>1, <2>2, <2>3, LedgerStays DEF Others
  <2>5. Links'
    BY <1>1, <1>2, LinksStay DEF Others, AloneInv
  <2>6. Promises'
    <3>1. \A b \in Lease : Waiting(b)' => lease'[b].waits # 0 /\ promise'[lease'[b].waits].state # "none"
      BY <1>1, <1>2, <2>1, <2>2 DEF AloneInv, Promises, Waiting, Same, NoRequest
    <3>2. registry'.attachment # 0 =>
            \E b \in Lease : lease'[b].pc = "attaching" /\ lease'[b].waits = registry'.attachment
      BY <1>1, <1>8, <2>1, <2>2 DEF AloneInv, Promises, Same
    <3>3. registry'.detachment # 0 =>
            \E b \in Lease : lease'[b].pc = "releasing" /\ lease'[b].waits = registry'.detachment
      BY <1>1, <1>2, <2>1, <2>2 DEF AloneInv, Promises, Same
    <3>4. registry'.reconciliation # 0 <=> \E b \in Lease : lease'[b].pc = "reconciling"
      BY <1>1, <1>2, <2>1, <2>2 DEF AloneInv, Promises, Same
    <3>5. registry'.reconciliation # 0 => promise'[registry'.reconciliation].state # "none"
      BY <1>1, <1>2, <2>2 DEF AloneInv, Promises, NoRequest
    <3>6. \A b \in Lease : lease'[b].pc \in {"active", "releasing"} =>
                             lease'[b].generation <= registry'.generation
      BY <1>1, <2>1, <2>2, WaitsType DEF AloneInv, Promises, Same
    <3> QED BY <3>1, <3>2, <3>3, <3>4, <3>5, <3>6 DEF Promises, Waiting
  <2>7. Offline'
    BY <1>1, <1>2, <1>9, <2>2 DEF AloneInv, Offline, Waiting, Others
  <2>8. Detaching' /\ Cleaning' /\ Asked'
    <3> SUFFICES ASSUME Online
                 PROVE  Detaching' /\ Cleaning' /\ Asked'
      BY <1>2, <2>2 DEF Detaching, Cleaning, Asked, Online, Others
    <3>1. \A b \in Lease : lease'[b].pc # "releasing"
      BY <1>7, <2>1, <2>2 DEF NoRelease, Same
    <3> QED BY <1>1, <1>2, <1>7, <2>1, <2>2, <3>1
            DEF Detaching, Cleaning, Asked, AloneInv, NoRequest, Unsettled
  <2> QED BY <2>4, <2>5, <2>6, <2>7, <2>8 DEF AloneInv
<1>10. CASE Fail(a, g)
  <2>1. Same(a) /\ Fails(a, c, e, at, registry.detachment) /\ registry'.cleanup = registry.cleanup
    BY <1>1, <1>2, <1>6, <1>10, FailDoes
  <2> HIDE DEF m
  <2> QED BY <1>1, <1>2, <1>4, <1>8, <2>1, LeavesIt
<1> QED BY <1>2, <1>9, <1>10

------------------------------------------------------------------------------
(* The steps of giving back.                                               *)

LEMMA ReleaseAlone ==
  ASSUME EInv, NEW a \in Lease, NEW relinquish \in BOOLEAN, Release(a, relinquish)
  PROVE  AloneInv'
<1> DEFINE m == lease[a].mode
           c == registry.count
           e == registry.exclusive
<1>1. Good /\ AloneInv /\ registry \in Registry /\ lease[a] \in Closure
  BY DEF EInv, CInv, Good
<1>2. Others /\ lease[a].pc = "active"
  BY DEF Release, Others
<1>3. CASE /\ lease[a].generation # registry.generation
           /\ lease' = [lease EXCEPT ![a] = NoLease]
           /\ UNCHANGED registry
           /\ NoRequest
  <2>1. lease'[a].pc = "none" /\ Same(a)
    BY <1>1, <1>3 DEF Good, NoLease, Same
  <2>2. a \notin Held /\ ~Holding(a)'
    BY <1>2, <1>3, <2>1 DEF Held, Holding, Acquiring
  <2>3. Held' = Held
    BY <1>3, <2>1, <2>2, HeldThen
  <2>4. \A b \in Lease : b \in Acquiring' <=> b \in Acquiring
    BY <1>2, <2>1 DEF Same, Acquiring
  <2>5. Ledger'
    BY <1>1, <1>2, <1>3, <2>1, <2>2, LedgerIdle DEF AloneInv, Others
  <2>6. Links'
    BY <1>1, <1>2, <1>3, LinksStay DEF AloneInv, Others
  <2>7. Promises'
    <3>1. \A b \in Lease : lease'[b] = lease[b] \/ (b = a /\ lease'[b].pc = "none")
      BY <2>1 DEF Same
    <3>2. \A b \in Lease : lease[b].pc \notin {"active", "none"} => lease'[b] = lease[b]
      BY <1>2, <3>1
    <3> QED BY <1>1, <1>3, <3>1, <3>2 DEF AloneInv, Promises, Waiting, NoRequest
  <2>8. Offline'
    BY <1>1, <1>2, <1>3, <2>1, <2>4 DEF AloneInv, Offline, Waiting, Same, NoRequest, Others
  <2>9. Detaching' /\ Cleaning' /\ Asked'
    BY <1>1, <1>2, <1>3, <2>1, <2>2, <2>3
       DEF AloneInv, Detaching, Cleaning, Asked, Online, Past, Same, NoRequest, Unsettled, Others, Held
  <2> QED BY <2>5, <2>6, <2>7, <2>8, <2>9 DEF AloneInv
<1>4. CASE /\ Active(a) /\ link = "connected"
           /\ registry.count > 1
           /\ Fail(a, registry)
           /\ NoRequest
  <2>1. Holding(a)
    BY <1>2, <1>4 DEF Holding, Active
  <2>2. Placed(a, m, c, e)
    BY <1>1, <2>1, PlacedHere DEF AloneInv
  <2>3. Stands(registry, c, e)
    BY <1>1 DEF Stands
  <2> HIDE DEF m, c, e
  <2>4. /\ Same(a)
        /\ Fails(a, c, e, registry.attachment, registry.detachment)
        /\ registry'.cleanup = registry.cleanup
    BY <1>1, <1>4, <2>3, FailDoes
  <2> QED BY <1>1, <1>2, <2>2, <2>4, LeavesIt
<1>5. CASE /\ Active(a) /\ link = "connected"
           /\ registry.count <= 1
           /\ MayRequest
           /\ Request("detach")
           /\ lease' = [lease EXCEPT ![a].pc = "releasing", ![a].waits = sequence + 1,
                                     ![a].relinquish = relinquish]
           /\ registry' = [registry EXCEPT !.detachment = sequence + 1]
  <2> DEFINE l == [lease[a] EXCEPT !.pc = "releasing", !.waits = sequence + 1,
                                   !.relinquish = relinquish]
  <2>1. Holding(a)
    BY <1>2, <1>5 DEF Holding, Active
  <2>2. Placed(a, m, c, e)
    BY <1>1, <2>1, PlacedHere DEF AloneInv
  <2>3. /\ l.pc = "releasing" /\ l.waits = sequence + 1 /\ l.mode = m
        /\ l.generation = lease[a].generation
    BY <1>1 DEF Closure
  <2>4. lease' = [lease EXCEPT ![a] = l]
    BY <1>1, <1>5 DEF Good
  <2> HIDE DEF l
  <2>5. lease'[a] = l /\ Same(a)
    BY <1>1, <2>4 DEF Good, Same
  <2>6. Keeps(c, e, registry.attachment, sequence + 1, registry.reconciliation)
        /\ registry'.cleanup = registry.cleanup
    BY <1>1, <1>5 DEF Keeps, Registry
  <2>7. /\ registry'.count = c /\ registry'.exclusive = e
        /\ registry'.attachment = registry.attachment /\ registry'.detachment = sequence + 1
        /\ registry'.reconciliation = registry.reconciliation
        /\ registry'.generation = registry.generation /\ registry'.crossed = registry.crossed
    BY <2>6 DEF Keeps
  <2>8. sequence + 1 \in Ids /\ sequence + 1 # 0
    BY <1>1, <1>5, BoundAssumption DEF MayRequest, Good, Requests, Ids
  <2>9. lease[a].generation = registry.generation
    BY <1>5 DEF Active
  <2>10. Holding(a)'
    BY <2>3, <2>5, <2>7, <2>9 DEF Holding
  <2>11. \A n \in Ids : promise[n].state # "none" => promise'[n].state # "none"
    BY <1>1, <1>5, PromiseStays
  <2>12. promise'[sequence + 1].state = "sent"
    BY <1>1, <1>5, <2>8 DEF Request, Good, Requests
  <2>13. Links'
    BY <1>1, <1>2, <1>5, LinksStay DEF AloneInv, Others
  <2>14. Online => NoRelease
    BY <1>1, <1>2, <2>1, NobodyReleases
  <2> HIDE DEF m, c, e
  <2>15. Ledger'
    BY <1>2, <2>2, <2>3, <2>5, <2>7, <2>10, LedgerStays DEF Others
  <2>16. Promises'
    <3>1. \A b \in Lease : Waiting(b)' => lease'[b].waits # 0 /\ promise'[lease'[b].waits].state # "none"
      <4>1. \A b \in Lease : b # a => (Waiting(b)' <=> Waiting(b)) /\ lease'[b].waits = lease[b].waits
        BY <2>5 DEF Same, Waiting
      <4>2. \A b \in Lease : Waiting(b) => lease[b].waits \in Ids
        BY <1>1, WaitsType DEF AloneInv, Promises
      <4> QED BY <1>1, <2>3, <2>5, <2>8, <2>11, <2>12, <4>1, <4>2 DEF AloneInv, Promises
    <3>2. registry'.attachment # 0 =>
            \E b \in Lease : lease'[b].pc = "attaching" /\ lease'[b].waits = registry'.attachment
      BY <1>1, <1>2, <2>5, <2>7 DEF AloneInv, Promises, Same
    <3>3. \E b \in Lease : lease'[b].pc = "releasing" /\ lease'[b].waits = registry'.detachment
      BY <2>3, <2>5, <2>7
    <3>4. registry'.reconciliation # 0 <=> \E b \in Lease : lease'[b].pc = "reconciling"
      BY <1>1, <1>2, <2>3, <2>5, <2>7 DEF AloneInv, Promises, Same
    <3>5. registry'.reconciliation # 0 => promise'[registry'.reconciliation].state # "none"
      BY <1>1, <2>7, <2>11, WaitsType DEF AloneInv, Promises
    <3>6. \A b \in Lease : lease'[b].pc \in {"active", "releasing"} =>
                             lease'[b].generation <= registry'.generation
      BY <1>1, <1>2, <2>3, <2>5, <2>7 DEF AloneInv, Promises, Same
    <3> QED BY <3>1, <3>2, <3>3, <3>4, <3>5, <3>6 DEF Promises, Waiting
  <2>17. Offline'
    BY <1>2, <1>5 DEF Offline, Others
  <2>18. Detaching' /\ Cleaning' /\ Asked'
    <3> SUFFICES ASSUME Online
                 PROVE  Detaching' /\ Cleaning' /\ Asked'
      BY <1>2, <2>7 DEF Detaching, Cleaning, Asked, Online, Others
    <3>1. a \in Held
      BY <2>1 DEF Held
    <3>2. Held = {a}
      <4>1. IsFiniteSet(Held) /\ Cardinality(Held) <= 1
        BY <1>1, <1>5 DEF AloneInv, Ledger
      <4>2. IsFiniteSet(Held \ {a}) /\ Cardinality(Held \ {a}) = Cardinality(Held) - 1
        BY <3>1, <4>1, FS_RemoveElement
      <4>3. Cardinality(Held) \in Nat /\ Cardinality(Held \ {a}) \in Nat
        BY <4>1, <4>2, FS_CardinalityType
      <4>4. Cardinality(Held \ {a}) = 0
        BY <4>1, <4>2, <4>3
      <4>5. Held \ {a} = {}
        BY <4>2, <4>4, FS_EmptySet
      <4> QED BY <3>1, <4>5
    <3>3. Held' = {a}
      BY <2>5, <2>7, <2>10, <3>2, HeldThen
    <3>4. ~registry.cleanup /\ registry.reconciliation = 0
      BY <1>1, <1>2, <3>1 DEF AloneInv, Cleaning, Past
    <3>5. registry.detachment = 0
      BY <1>1, <2>14 DEF AloneInv, Promises, NoRelease
    <3>6. Detaching'
      BY <2>3, <2>5, <2>7, <2>9, <2>14, <3>3 DEF Detaching, NoRelease, Same
    <3>7. Cleaning'
      BY <2>6, <2>7, <3>4 DEF Cleaning
    <3>8. \A n \in Ids : promise'[n].command = "detach" /\ Unsettled(n)' =>
            (promise[n].command = "detach" /\ Unsettled(n)) \/ n = sequence + 1
      BY <1>1, <1>5 DEF Request, Unsettled, Good, Requests
    <3>9. \A n \in Ids : n # 0
      BY DEF Ids
    <3>10. Asked'
      BY <1>1, <2>7, <3>4, <3>5, <3>8, <3>9 DEF AloneInv, Asked
    <3> QED BY <3>6, <3>7, <3>10
  <2> QED BY <2>13, <2>15, <2>16, <2>17, <2>18 DEF AloneInv
<1> QED BY <1>3, <1>4, <1>5 DEF Release

LEMMA AfterReleaseAlone ==
  ASSUME EInv, NEW a \in Lease, AfterRelease(a)
  PROVE  AloneInv'
<1> DEFINE n == lease[a].waits
           m == lease[a].mode
           c == registry.count
           e == registry.exclusive
           de == IF registry.detachment = n THEN 0 ELSE registry.detachment
           g == [registry EXCEPT !.detachment = IF @ = n THEN 0 ELSE @]
<1>1. Good /\ AloneInv /\ registry \in Registry /\ lease[a] \in Closure
  BY DEF EInv, CInv, Good
<1>2. Others /\ lease[a].pc = "releasing" /\ Settled(n) /\ NoRequest
  BY DEF AfterRelease, Others, NoRequest
<1>3. de \in 0 .. MaxRequests
  BY <1>1, BoundAssumption DEF Registry
<1>4. /\ g \in Registry
      /\ g.count = c /\ g.exclusive = e /\ g.attachment = registry.attachment /\ g.detachment = de
      /\ g.reconciliation = registry.reconciliation /\ g.cleanup = registry.cleanup
      /\ g.generation = registry.generation /\ g.crossed = registry.crossed
  BY <1>1, <1>3 DEF Registry
<1>5. \/ de = registry.detachment /\ ~(lease[a].pc = "releasing" /\ lease[a].waits = de)
      \/ de = 0 /\ lease[a].pc = "releasing" /\ ~Unsettled(registry.detachment)
  BY <1>2 DEF Settled, Unsettled
<1>6. Online => NoRelease \/ \A b \in Lease : lease[b].pc = "releasing" => b = a
  BY <1>1, <1>2 DEF AloneInv, Detaching, Held, Holding
<1>7. Online => a \in Held /\ Holding(a) /\ ~registry.cleanup
  BY <1>1, <1>2 DEF AloneInv, Detaching, Cleaning, Past, Held, Holding
<1>8. ASSUME Online \/ registry.crossed \/ lease[a].generation = registry.generation
      PROVE  Placed(a, m, c, e)
  <2>1. CASE Holding(a)
    BY <1>1, <2>1, PlacedHere DEF AloneInv
  <2>2. CASE ~Holding(a)
    BY <1>2, <1>7, <1>8, <2>2 DEF Placed, Online, Holding
  <2> QED BY <2>1, <2>2
<1> HIDE DEF g, c, e, de
<1>9. CASE promise[n].state = "ok" /\ Fail(a, g)
  <2>1. Placed(a, m, c, e)
    BY <1>1, <1>2, <1>8, <1>9 DEF AloneInv, Offline, Waiting, Online
  <2>2. lease' = [lease EXCEPT ![a] = NoLease] /\ registry' = Released(g, a)
    BY <1>9 DEF Fail
  <2>3. lease'[a].pc = "none" /\ Same(a)
    BY <1>1, <2>2 DEF Good, NoLease, Same
  <2>4. Fails(a, c, e, registry.attachment, de) /\ registry'.cleanup = registry.cleanup
    BY <1>2, <1>4, <2>2, <2>3, ReleasedIs DEF Fails, Keeps
  <2> HIDE DEF m, n
  <2> QED BY <1>1, <1>2, <1>5, <2>1, <2>3, <2>4, LeavesIt
<1>10. CASE /\ lease[a].generation = registry.generation
            /\ lease' = [lease EXCEPT ![a] = NoLease]
            /\ registry' = [Released(g, a) EXCEPT !.cleanup = TRUE]
  <2>1. Placed(a, m, c, e)
    BY <1>8, <1>10
  <2>3. lease'[a].pc = "none" /\ Same(a)
    BY <1>1, <1>10 DEF Good, NoLease, Same
  <2>4. Released(g, a) \in Registry
    BY <1>4, ReleasedType
  <2>5. /\ registry'.count = Released(g, a).count
        /\ registry'.exclusive = Released(g, a).exclusive
        /\ registry'.attachment = Released(g, a).attachment
        /\ registry'.detachment = Released(g, a).detachment
        /\ registry'.reconciliation = Released(g, a).reconciliation
        /\ registry'.generation = Released(g, a).generation
        /\ registry'.crossed = Released(g, a).crossed
        /\ registry'.cleanup = TRUE
    BY <1>10, <2>4 DEF Registry
  <2>6. Fails(a, c, e, registry.attachment, de)
    BY <1>2, <1>4, <2>5, <2>3, ReleasedIs DEF Fails, Keeps
  <2> HIDE DEF m, n
  <2> QED BY <1>1, <1>2, <1>5, <2>1, <2>3, <2>5, <2>6, LeavesIt
<1>11. CASE /\ lease[a].generation # registry.generation
            /\ lease' = [lease EXCEPT ![a] = NoLease]
            /\ registry' = g
  <2>1. lease'[a].pc = "none" /\ Same(a)
    BY <1>1, <1>11 DEF Good, NoLease, Same
  <2>2. a \notin Held /\ ~Holding(a)'
    BY <1>2, <1>11, <2>1 DEF Held, Holding, Acquiring
  <2>3. \A b \in Lease : b \in Acquiring' <=> b \in Acquiring
    BY <1>2, <2>1 DEF Same, Acquiring
  <2>4. Ledger' /\ Detaching' /\ Cleaning' /\ Asked'
    BY <1>2, <1>4, <1>7, <1>11, <2>2 DEF Ledger, Detaching, Cleaning, Asked, Online, Others
  <2>6. Links'
    BY <1>1, <1>2, LinksStay DEF AloneInv, Others
  <2>7. Promises'
    <3>1. \A b \in Lease : lease'[b] = lease[b] \/ (b = a /\ lease'[b].pc = "none")
      BY <2>1 DEF Same
    <3>2. \A b \in Lease : lease[b].pc # "releasing" => lease'[b] = lease[b]
      BY <1>2, <3>1
    <3>3. registry'.detachment # 0 =>
            \E b \in Lease : lease'[b].pc = "releasing" /\ lease'[b].waits = registry'.detachment
      BY <1>1, <1>4, <1>5, <1>11, <3>1 DEF AloneInv, Promises
    <3> QED BY <1>1, <1>2, <1>4, <1>11, <3>1, <3>2, <3>3 DEF AloneInv, Promises, Waiting, NoRequest
  <2>8. Offline'
    BY <1>1, <1>2, <1>4, <1>11, <2>1, <2>3, e = registry.exclusive
       DEF AloneInv, Offline, Waiting, Same, NoRequest, Others, e
  <2> QED BY <2>4, <2>6, <2>7, <2>8 DEF AloneInv
<1>12. CASE /\ lease[a].generation = registry.generation
            /\ lease' = [lease EXCEPT ![a].pc = "active", ![a].waits = 0]
            /\ registry' = g
  <2> DEFINE l == [lease[a] EXCEPT !.pc = "active", !.waits = 0]
  <2>1. l.pc = "active" /\ l.mode = m /\ l.generation = registry.generation
    BY <1>1, <1>12 DEF Closure
  <2>2. lease' = [lease EXCEPT ![a] = l]
    BY <1>1, <1>12 DEF Good
  <2> HIDE DEF l
  <2>3. lease'[a] = l /\ Same(a)
    BY <1>1, <2>2 DEF Good, Same
  <2>4. Holding(a)' /\ Holding(a)
    BY <1>2, <1>4, <1>12, <2>1, <2>3 DEF Holding
  <2>5. Placed(a, m, c, e)
    BY <1>8, <1>12
  <2>6. registry'.exclusive = e /\ registry'.count = c /\ registry'.generation = registry.generation
    BY <1>4, <1>12
  <2>7. Links'
    BY <1>1, <1>2, LinksStay DEF AloneInv, Others
  <2>8. Promises'
    <3>1. \A b \in Lease : Waiting(b)' => lease'[b].waits # 0 /\ promise'[lease'[b].waits].state # "none"
      BY <1>1, <1>2, <2>1, <2>3 DEF AloneInv, Promises, Waiting, Same, NoRequest
    <3>2. registry'.attachment # 0 =>
            \E b \in Lease : lease'[b].pc = "attaching" /\ lease'[b].waits = registry'.attachment
      BY <1>1, <1>2, <1>4, <1>12, <2>3 DEF AloneInv, Promises, Same
    <3>3. registry'.detachment # 0 =>
            \E b \in Lease : lease'[b].pc = "releasing" /\ lease'[b].waits = registry'.detachment
      BY <1>1, <1>4, <1>5, <1>12, <2>3 DEF AloneInv, Promises, Same
    <3>4. registry'.reconciliation # 0 <=> \E b \in Lease : lease'[b].pc = "reconciling"
      BY <1>1, <1>2, <1>4, <1>12, <2>1, <2>3 DEF AloneInv, Promises, Same
    <3>5. registry'.reconciliation # 0 => promise'[registry'.reconciliation].state # "none"
      BY <1>1, <1>2, <1>4, <1>12 DEF AloneInv, Promises, NoRequest
    <3>6. \A b \in Lease : lease'[b].pc \in {"active", "releasing"} =>
                             lease'[b].generation <= registry'.generation
      BY <1>1, <2>1, <2>3, <2>6, WaitsType DEF AloneInv, Promises, Same
    <3> QED BY <3>1, <3>2, <3>3, <3>4, <3>5, <3>6 DEF Promises, Waiting
  <2>9. Offline'
    BY <1>1, <1>2, <1>4, <1>12 DEF AloneInv, Offline, Others
  <2>10. Ledger'
    <3> HIDE DEF m
    <3> QED BY <1>2, <1>4, <1>12, <2>1, <2>3, <2>4, <2>5, <2>6, LedgerStays DEF Others
  <2>11. Detaching' /\ Cleaning' /\ Asked'
    <3> SUFFICES ASSUME Online
                 PROVE  Detaching' /\ Cleaning' /\ Asked'
      BY <1>2, <1>4, <1>12 DEF Detaching, Cleaning, Asked, Online, Others
    <3>1. \A b \in Lease : lease'[b].pc # "releasing"
      BY <1>2, <1>6, <2>1, <2>3 DEF NoRelease, Same
    <3>2. ~registry'.cleanup /\ registry'.reconciliation = registry.reconciliation
      BY <1>4, <1>7, <1>12
    <3>3. Cleaning'
      BY <1>1, <1>7, <3>2 DEF AloneInv, Cleaning
    <3>4. registry'.detachment = registry.detachment \/ ~Unsettled(registry.detachment)
      BY <1>4, <1>5, <1>12
    <3>5. Asked'
      BY <1>1, <1>2, <3>2, <3>4 DEF AloneInv, Asked, NoRequest, Unsettled
    <3> QED BY <3>1, <3>3, <3>5 DEF Detaching
  <2> QED BY <2>7, <2>8, <2>9, <2>10, <2>11 DEF AloneInv
<1> QED BY <1>9, <1>10, <1>11, <1>12 DEF AfterRelease, g, n

------------------------------------------------------------------------------
(* The reconciliation ends.                                                *)

LEMMA ReconciledAlone ==
  ASSUME EInv, Reconciled
  PROVE  AloneInv'
<1> DEFINE r == registry.reconciliation
           ok == promise[r].state = "ok"
           w == IF ok THEN 0 ELSE r
           cl == registry.cleanup /\ ~ok
<1>1. Good /\ AloneInv /\ registry \in Registry /\ lease \in [Lease -> Closure]
  BY DEF EInv, CInv, Good
<1>2. Others /\ r # 0 /\ Settled(r) /\ NoRequest
  BY DEF Reconciled, ReconciliationEnds, Others, NoRequest
<1>3. /\ registry' = [registry EXCEPT !.cleanup = cl, !.reconciliation = 0]
      /\ lease' = [b \in Lease |->
           IF b \in {a \in Lease : lease[a].pc = "reconciling"}
           THEN [lease[b] EXCEPT !.pc = "reconciled", !.waits = w] ELSE lease[b]]
  BY DEF Reconciled
<1> HIDE DEF cl, w
<1>4. /\ registry'.count = registry.count /\ registry'.exclusive = registry.exclusive
      /\ registry'.attachment = registry.attachment /\ registry'.detachment = registry.detachment
      /\ registry'.reconciliation = 0 /\ registry'.cleanup = cl
      /\ registry'.generation = registry.generation /\ registry'.crossed = registry.crossed
  BY <1>1, <1>3 DEF Registry
<1>5. \A b \in Lease :
        /\ lease[b].pc = "reconciling" =>
             lease'[b].pc = "reconciled" /\ lease'[b].waits = w /\ lease'[b].mode = lease[b].mode
        /\ lease[b].pc # "reconciling" => lease'[b] = lease[b]
  <2> SUFFICES ASSUME NEW b \in Lease
               PROVE  /\ lease[b].pc = "reconciling" =>
                           /\ lease'[b].pc = "reconciled" /\ lease'[b].waits = w
                           /\ lease'[b].mode = lease[b].mode
                      /\ lease[b].pc # "reconciling" => lease'[b] = lease[b]
    OBVIOUS
  <2>1. lease[b] \in Closure
    BY <1>1
  <2>2. lease[b].pc = "reconciling" => lease'[b] = [lease[b] EXCEPT !.pc = "reconciled", !.waits = w]
    BY <1>3
  <2>3. lease[b].pc # "reconciling" => lease'[b] = lease[b]
    BY <1>3
  <2> QED BY <2>1, <2>2, <2>3 DEF Closure
<1>6. \A b \in Lease : /\ Holding(b)' <=> Holding(b)
                       /\ b \in Acquiring' <=> b \in Acquiring
                       /\ lease'[b].mode = lease[b].mode
  BY <1>4, <1>5 DEF Holding, Acquiring
<1>7. Held' = Held /\ Online' = Online
  BY <1>2, <1>4, <1>6 DEF Held, Online, Others
<1>8. Links'
  BY <1>1, <1>2, LinksStay DEF AloneInv, Others
<1>9. Promises'
  BY <1>1, <1>2, <1>4, <1>5 DEF AloneInv, Promises, Waiting, NoRequest
<1>10. Offline'
  <2>1. link # "connected" /\ ~registry.crossed => w # 0
    BY <1>1, <1>2 DEF AloneInv, Offline, w
  <2> QED BY <1>1, <1>2, <1>4, <1>5, <1>6, <2>1 DEF AloneInv, Offline, Waiting, NoRequest, Others
<1>11. Ledger'
  BY <1>1, <1>4, <1>6, <1>7 DEF AloneInv, Ledger, Held
<1>12. Detaching'
  BY <1>1, <1>4, <1>5, <1>7 DEF AloneInv, Detaching, Held
<1>13. Cleaning'
  <2>1. cl => w # 0 /\ registry.cleanup
    BY <1>2 DEF cl, w
  <2> QED BY <1>1, <1>4, <1>5, <1>7, <2>1 DEF AloneInv, Cleaning, Past, Held
<1>14. Asked'
  <2>1. ~Unsettled(r)
    BY <1>2 DEF Settled, Unsettled
  <2> QED BY <1>1, <1>2, <1>4, <1>7, <2>1 DEF AloneInv, Asked, Unsettled, NoRequest
<1> QED BY <1>8, <1>9, <1>10, <1>11, <1>12, <1>13, <1>14 DEF AloneInv

------------------------------------------------------------------------------
(* The connection and the server.                                          *)

LEMMA ConnectAlone ==
  ASSUME EInv, Connect
  PROVE  AloneInv'
<1>1. AloneInv
  BY DEF EInv
<1>2. /\ link = "disconnected" /\ link' = "connecting" /\ attached' = FALSE
      /\ UNCHANGED <<promise, sequence, lease, registry>>
  BY DEF Connect
<1>3. Held' = Held /\ Acquiring' = Acquiring
  BY <1>2 DEF Held, Holding, Acquiring
<1>4. Promises'
  BY <1>1, <1>2 DEF AloneInv, Promises, Waiting
<1>5. Links' /\ Offline'
  BY <1>1, <1>2, <1>3 DEF AloneInv, Links, Offline, Waiting, Unsettled
<1> QED BY <1>2, <1>4, <1>5 DEF AloneInv, Ledger, Detaching, Cleaning, Asked, Online

LEMMA ConnectedAlone ==
  ASSUME EInv, Connected
  PROVE  AloneInv'
<1>1. Good /\ AloneInv
  BY DEF EInv, CInv
<1>2. /\ link = "connecting" /\ link' = "connected" /\ attached' = FALSE /\ TaskIsOver
      /\ UNCHANGED <<promise, sequence, lease, registry>>
  BY DEF Connected
<1>3. \A n \in Ids : promise[n].state \in {"none", "ok", "error"}
  BY <1>1, <1>2 DEF Good, Requests, AloneInv, Links, Unsettled
<1>4. \A a \in Lease : ~Waiting(a)
  BY <1>1, <1>2, <1>3, WaitsType DEF AloneInv, Promises, Waiting, TaskIsOver, Continues, Settled
<1>5. registry.reconciliation = 0
  BY <1>1, <1>2, <1>3, WaitsType DEF AloneInv, Promises, TaskIsOver, ReconciliationEnds, Settled
<1>6. \A a \in Lease : lease[a].pc \notin {"reconciling", "reconciled"}
  BY <1>1, <1>2, <1>5 DEF AloneInv, Promises, TaskIsOver, Continues
<1>7. Promises'
  BY <1>1, <1>2 DEF AloneInv, Promises, Waiting
<1>8. Links' /\ Offline'
  BY <1>2 DEF Links, Offline
<1>9. ASSUME ~registry.crossed
      PROVE  Ledger' /\ Detaching' /\ Cleaning' /\ Asked'
  <2>1. Acquiring = {}
    BY <1>4, <1>6 DEF Acquiring, Waiting
  <2>2. Held = {} /\ Held' = Held
    BY <1>1, <1>2, <1>9, <2>1 DEF Held, Holding, AloneInv, Offline, Acquiring
  <2>3. registry.count = 0
    <3>1. PICK f \in [1 .. registry.count -> Held] : TRUE
      BY DEF EInv, CInv, Fits
    <3>2. registry.count \in Nat
      BY <1>1, WaitsType
    <3>3. ASSUME registry.count # 0
          PROVE  FALSE
      <4>1. 1 \in 1 .. registry.count
        BY <3>2, <3>3
      <4> QED BY <2>2, <3>1, <4>1
    <3> QED BY <3>3
  <2>4. registry.exclusive \notin Lease
    BY <1>1, <1>2, <1>9, <2>1 DEF AloneInv, Offline
  <2>5. Ledger'
    BY <1>2, <2>2, <2>3, <2>4, FS_EmptySet DEF Ledger
  <2>6. Detaching'
    BY <1>2, <1>4 DEF Detaching, Waiting
  <2>7. Cleaning'
    BY <1>2, <1>5, <2>2 DEF Cleaning
  <2>8. Asked'
    BY <1>2, <1>3 DEF Asked, Unsettled
  <2> QED BY <2>5, <2>6, <2>7, <2>8
<1>10. registry.crossed => Ledger' /\ Detaching' /\ Cleaning' /\ Asked'
  BY <1>2 DEF Ledger, Detaching, Cleaning, Asked, Online
<1> QED BY <1>7, <1>8, <1>9, <1>10 DEF AloneInv

LEMMA BreakAlone ==
  ASSUME EInv, NEW to \in {"disconnected", "disposed"}, Break(to)
  PROVE  AloneInv'
<1> DEFINE x == registry.crossed \/ ~TaskIsOver
           g == [registry EXCEPT !.cleanup = FALSE, !.crossed = x]
<1>1. Good /\ AloneInv /\ registry \in Registry
  BY DEF EInv, CInv, Good
<1>2. /\ link \in {"connecting", "connected"} /\ link' # "connected" /\ attached' = FALSE
      /\ registry' = IF registry.count = 0 THEN g ELSE Invalidated(g)
      /\ UNCHANGED lease
  BY DEF Break
<1>3. \A n \in Ids : promise'[n].state = IF Unsettled(n) THEN "error" ELSE promise[n].state
  BY <1>1 DEF Break, Unsettled, Good, Requests
<1> HIDE DEF x
<1>4. /\ registry'.attachment = registry.attachment /\ registry'.detachment = registry.detachment
      /\ registry'.reconciliation = registry.reconciliation
      /\ registry'.crossed = x
      /\ registry.count # 0 =>
           registry'.generation = registry.generation + 1 /\ registry'.exclusive = None
      /\ registry.count = 0 =>
           registry'.generation = registry.generation /\ registry'.exclusive = registry.exclusive
  BY <1>1, <1>2 DEF Invalidated, Registry
<1>5. registry'.generation >= registry.generation
  BY <1>1, <1>4, WaitsType
<1>6. Links'
  BY <1>2, <1>3 DEF Links, Unsettled
<1>7. Promises'
  <2>1. \A n \in Ids : promise[n].state # "none" => promise'[n].state # "none"
    BY <1>3
  <2>2. \A a \in Lease : lease'[a].pc \in {"active", "releasing"} =>
                           lease'[a].generation <= registry'.generation
    <3> SUFFICES ASSUME NEW a \in Lease, lease[a].pc \in {"active", "releasing"}
                 PROVE  lease[a].generation <= registry'.generation
      BY <1>2
    <3>1. lease[a].generation <= registry.generation
      BY <1>1 DEF AloneInv, Promises
    <3>2. lease[a].generation \in Nat /\ registry.generation \in Nat
      BY <1>1, WaitsType
    <3>3. registry'.generation \in {registry.generation, registry.generation + 1}
      BY <1>4
    <3> QED BY <3>1, <3>2, <3>3
  <2>3. \A a \in Lease : Waiting(a)' => lease'[a].waits # 0 /\ promise'[lease'[a].waits].state # "none"
    BY <1>1, <1>2, <2>1, WaitsType DEF AloneInv, Promises, Waiting
  <2>4. registry'.reconciliation # 0 => promise'[registry'.reconciliation].state # "none"
    BY <1>1, <1>4, <2>1, WaitsType DEF AloneInv, Promises
  <2> QED BY <1>1, <1>2, <1>4, <2>2, <2>3, <2>4 DEF AloneInv, Promises, Waiting
<1>8. Offline'
  <2> SUFFICES ASSUME ~x
               PROVE  /\ \A a \in Lease : Waiting(a)' => promise'[lease'[a].waits].state # "ok"
                      /\ \A a \in Lease : lease'[a].pc = "reconciled" => lease'[a].waits # 0
                      /\ registry'.reconciliation # 0 => promise'[registry'.reconciliation].state # "ok"
                      /\ \A a \in Lease : lease'[a].pc \in {"active", "releasing"} =>
                                            lease'[a].generation # registry'.generation
                      /\ registry'.exclusive \in Lease => registry'.exclusive \in Acquiring'
    BY <1>4 DEF Offline, Waiting
  <2>1. TaskIsOver /\ ~registry.crossed
    BY DEF x
  <2>2. \A a \in Lease : Waiting(a)' => promise'[lease'[a].waits].state # "ok"
    <3> SUFFICES ASSUME NEW a \in Lease, Waiting(a)
                 PROVE  promise'[lease[a].waits].state # "ok"
      BY <1>2 DEF Waiting
    <3>1. lease[a].waits \in Ids
      BY <1>1, WaitsType DEF AloneInv, Promises
    <3>2. ~Settled(lease[a].waits)
      BY <2>1 DEF TaskIsOver, Continues, Waiting
    <3> QED BY <1>3, <3>1, <3>2 DEF Settled
  <2>3. \A a \in Lease : lease'[a].pc # "reconciled"
    BY <1>2, <2>1 DEF TaskIsOver, Continues
  <2>4. registry'.reconciliation # 0 => promise'[registry'.reconciliation].state # "ok"
    <3>1. registry.reconciliation # 0 => registry.reconciliation \in Ids
      BY <1>1, WaitsType
    <3>2. registry.reconciliation # 0 => ~Settled(registry.reconciliation)
      BY <2>1 DEF TaskIsOver, ReconciliationEnds
    <3> QED BY <1>3, <1>4, <3>1, <3>2 DEF Settled
  <2>5. CASE registry.count # 0
    <3>1. \A a \in Lease : lease'[a].pc \in {"active", "releasing"} =>
                             lease'[a].generation # registry'.generation
      <4> SUFFICES ASSUME NEW a \in Lease, lease[a].pc \in {"active", "releasing"}
                   PROVE  lease[a].generation # registry.generation + 1
        BY <1>2, <1>4, <2>5
      <4>1. lease[a].generation <= registry.generation
        BY <1>1 DEF AloneInv, Promises
      <4>2. lease[a].generation \in Nat /\ registry.generation \in Nat
        BY <1>1, WaitsType
      <4> QED BY <4>1, <4>2
    <3>2. registry'.exclusive \notin Lease
      BY <1>4, <2>5, NoneAssumption
    <3> QED BY <2>2, <2>3, <2>4, <3>1, <3>2
  <2>6. CASE registry.count = 0 /\ link = "connected"
    <3>1. Held = {}
      BY <1>1, <2>1, <2>6, FS_EmptySet DEF AloneInv, Ledger, Online
    <3>2. registry.exclusive \notin Lease
      BY <1>1, <2>1, <2>6, <3>1 DEF AloneInv, Ledger, Online
    <3>3. \A a \in Lease : lease[a].pc \in {"active", "releasing"} =>
                             lease[a].generation # registry.generation
      BY <3>1 DEF Held, Holding
    <3> QED BY <1>2, <1>4, <2>2, <2>3, <2>4, <2>6, <3>2, <3>3
  <2>7. CASE registry.count = 0 /\ link # "connected"
    <3>1. Acquiring' = Acquiring
      BY <1>2 DEF Acquiring
    <3> QED BY <1>1, <1>2, <1>4, <2>1, <2>2, <2>3, <2>4, <2>7, <3>1 DEF AloneInv, Offline
  <2> QED BY <2>5, <2>6, <2>7
<1>9. Ledger' /\ Detaching' /\ Cleaning' /\ Asked'
  BY <1>2 DEF Ledger, Detaching, Cleaning, Asked, Online
<1> QED BY <1>6, <1>7, <1>8, <1>9 DEF AloneInv

\* Nothing of the registry changes but that it may be crossed.
LEMMA RestAlone ==
  ASSUME EInv, UNCHANGED <<lease, link>>,
         attached' => link = "connected",
         registry'.count = registry.count, registry'.exclusive = registry.exclusive,
         registry'.attachment = registry.attachment, registry'.detachment = registry.detachment,
         registry'.reconciliation = registry.reconciliation, registry'.cleanup = registry.cleanup,
         registry'.generation = registry.generation, registry.crossed => registry'.crossed,
         \A n \in Ids : /\ promise'[n].command = promise[n].command
                        /\ Unsettled(n)' => Unsettled(n)
                        /\ promise'[n].state = "none" => promise[n].state = "none"
                        /\ link # "connected" => promise'[n] = promise[n]
  PROVE  AloneInv'
<1>1. Good /\ AloneInv
  BY DEF EInv, CInv
<1>2. Held' = Held /\ Acquiring' = Acquiring
  BY DEF Held, Holding, Acquiring
<1>3. \A a \in Lease : Waiting(a) => lease[a].waits \in Ids
  BY <1>1, WaitsType DEF AloneInv, Promises
<1>4. registry.reconciliation # 0 => registry.reconciliation \in Ids
  BY <1>1, WaitsType
<1>5. Links'
  BY <1>1 DEF AloneInv, Links
<1>6. Promises'
  BY <1>1, <1>3, <1>4 DEF AloneInv, Promises, Waiting
<1>7. Offline'
  BY <1>1, <1>2, <1>3, <1>4 DEF AloneInv, Offline, Waiting
<1>8. Ledger' /\ Detaching' /\ Cleaning' /\ Asked'
  BY <1>1, <1>2 DEF AloneInv, Ledger, Detaching, Cleaning, Asked, Online, Past
<1> QED BY <1>5, <1>6, <1>7, <1>8 DEF AloneInv

LEMMA ReceiveAlone ==
  ASSUME EInv, Receive
  PROVE  AloneInv'
<1> DEFINE m == Head(inbox)
           x == registry.crossed \/ ~TaskIsOver
           g == [registry EXCEPT !.crossed = x]
<1>1. Good /\ AloneInv /\ registry \in Registry
  BY DEF EInv, CInv, Good
<1>2. link = "connected" /\ UNCHANGED <<link, sequence, lease>>
  BY DEF Receive
<1>3. m \in Messages
  BY <1>1 DEF Receive, Good
<1> HIDE DEF m, x
<1>4. CASE m.type = "removed"
  <2> DEFINE y == Invalidated(g).crossed \/ \E a \in Lease : lease[a].pc \notin {"none", "active"}
  <2>1. attached' = FALSE /\ registry' = [Invalidated(g) EXCEPT !.crossed = y] /\ UNCHANGED promise
    BY <1>4 DEF Receive, m, x
  <2>2. /\ registry'.count = 0 /\ registry'.exclusive = None
        /\ registry'.attachment = registry.attachment /\ registry'.detachment = registry.detachment
        /\ registry'.reconciliation = registry.reconciliation /\ registry'.cleanup = FALSE
        /\ registry'.generation = registry.generation + 1
        /\ ~registry'.crossed =>
             ~registry.crossed /\ \A a \in Lease : lease[a].pc \in {"none", "active"}
    BY <1>1, <2>1 DEF Invalidated, Registry, x
  <2>3. Links'
    BY <1>1, <1>2, <2>1 DEF AloneInv, Links
  <2>4. \A a \in Lease : lease[a].pc \in {"active", "releasing"} =>
          lease[a].generation <= registry'.generation /\ lease[a].generation # registry'.generation
    <3> SUFFICES ASSUME NEW a \in Lease, lease[a].pc \in {"active", "releasing"}
                 PROVE  /\ lease[a].generation <= registry.generation + 1
                        /\ lease[a].generation # registry.generation + 1
      BY <2>2
    <3>1. lease[a].generation <= registry.generation
      BY <1>1 DEF AloneInv, Promises
    <3>2. lease[a].generation \in Nat /\ registry.generation \in Nat
      BY <1>1, WaitsType
    <3> QED BY <3>1, <3>2
  <2>5. Promises'
    BY <1>1, <1>2, <2>1, <2>2, <2>4 DEF AloneInv, Promises, Waiting
  <2>6. Offline'
    BY <1>2 DEF Offline
  <2>7. ASSUME ~registry'.crossed
        PROVE  Ledger' /\ Detaching' /\ Cleaning' /\ Asked'
    <3>1. Held' = {}
      BY <1>2, <2>2, <2>4, <2>7 DEF Held, Holding, Acquiring
    <3>2. Ledger'
      BY <2>2, <3>1, FS_EmptySet, NoneAssumption DEF Ledger
    <3>3. Detaching'
      BY <1>2, <2>2, <2>7 DEF Detaching
    <3>4. registry.reconciliation = 0
      BY <1>1, <2>2, <2>7 DEF AloneInv, Promises
    <3>5. Cleaning' /\ Asked'
      BY <1>1, <1>2, <2>1, <2>2, <2>7, <3>4 DEF AloneInv, Cleaning, Asked, Online, Unsettled
    <3> QED BY <3>2, <3>3, <3>5
  <2>8. registry'.crossed => Ledger' /\ Detaching' /\ Cleaning' /\ Asked'
    BY DEF Ledger, Detaching, Cleaning, Asked, Online
  <2> QED BY <2>3, <2>5, <2>6, <2>7, <2>8 DEF AloneInv
<1>5. CASE m.type # "removed"
  <2>1. registry' = g
    BY <1>3, <1>5, MessageTypes DEF Receive, m, x
  <2>2. /\ registry'.count = registry.count /\ registry'.exclusive = registry.exclusive
        /\ registry'.attachment = registry.attachment /\ registry'.detachment = registry.detachment
        /\ registry'.reconciliation = registry.reconciliation /\ registry'.cleanup = registry.cleanup
        /\ registry'.generation = registry.generation
    BY <1>1, <2>1 DEF Registry, x
  <2>3. \A n \in Ids : /\ promise'[n].command = promise[n].command
                       /\ Unsettled(n)' => Unsettled(n)
                       /\ promise'[n].state = "none" => promise[n].state = "none"
    <3>1. CASE UNCHANGED promise
      BY <3>1 DEF Unsettled
    <3>2. CASE promise' = [promise EXCEPT ![m.id].state = IF m.ok THEN "ok" ELSE "error"]
      <4> DEFINE s == IF m.ok THEN "ok" ELSE "error"
      <4>1. s \in {"ok", "error"} /\ promise' = [promise EXCEPT ![m.id].state = s]
        BY <3>2
      <4> HIDE DEF s
      <4> QED BY <1>1, <4>1 DEF Good, Requests, Unsettled
    <3> QED BY <1>3, <1>5, <3>1, <3>2, MessageTypes DEF Receive, m
  <2>4. registry.crossed => registry'.crossed
    BY <1>1, <2>1 DEF Registry, x
  <2> HIDE DEF g
  <2> QED BY <1>2, <2>2, <2>3, <2>4, RestAlone
<1> QED BY <1>4, <1>5

LEMMA QuietAlone ==
  ASSUME EInv, Serves \/ Announce \/ Remove
  PROVE  AloneInv'
<1>1. Good /\ AloneInv
  BY DEF EInv, CInv
<1>2. UNCHANGED <<link, lease, registry, sequence, attached>>
  BY DEF Serves, Serve, Respond, Announce, Remove
<1>3. \A n \in Ids : /\ promise'[n].command = promise[n].command
                     /\ Unsettled(n)' => Unsettled(n)
                     /\ promise'[n].state = "none" => promise[n].state = "none"
                     /\ link # "connected" => promise'[n] = promise[n]
  <2>1. ASSUME NEW i \in Ids, NEW ok \in BOOLEAN, Serve(i, ok)
        PROVE  \A n \in Ids : /\ promise'[n].command = promise[n].command
                              /\ Unsettled(n)' => Unsettled(n)
                              /\ promise'[n].state = "none" => promise[n].state = "none"
                              /\ link # "connected" => promise'[n] = promise[n]
    <3> DEFINE s == IF ok THEN "done" ELSE "refused"
    <3>1. s # "none" /\ promise' = [promise EXCEPT ![i].state = s] /\ promise[i].state = "sent"
          /\ link = "connected"
      BY <2>1 DEF Serve
    <3> HIDE DEF s
    <3> QED BY <1>1, <3>1 DEF Good, Requests, Unsettled
  <2>2. CASE UNCHANGED promise
    BY <2>2 DEF Unsettled
  <2> QED BY <2>1, <2>2 DEF Serves, Respond, Announce, Remove
<1>4. attached' => link = "connected"
  BY <1>1, <1>2 DEF AloneInv, Links
<1> QED BY <1>2, <1>3, <1>4, RestAlone

------------------------------------------------------------------------------
(* What follows: an exclusive lease is alone, and nobody is cut off.       *)

LEMMA EInvInit ==
  ASSUME Init
  PROVE  EInv
<1>1. /\ \A a \in Lease : lease[a] = NoLease
      /\ registry = NoRegistry /\ link = "disconnected" /\ attached = FALSE
      /\ \A n \in Ids : promise[n].state = "none"
  BY DEF Init, NoPromise
<1>2. Links
  BY <1>1 DEF Links, Unsettled
<1>3. Promises
  BY <1>1 DEF Promises, Waiting, NoLease, NoRegistry
<1>4. Offline
  BY <1>1, NoneAssumption DEF Offline, Waiting, NoLease, NoRegistry
<1>5. Ledger /\ Detaching /\ Cleaning /\ Asked
  BY <1>1 DEF Ledger, Detaching, Cleaning, Asked, Online
<1> QED BY <1>2, <1>3, <1>4, <1>5, CInvInit DEF EInv, AloneInv

LEMMA EInvStep ==
  ASSUME EInv, [Next]_vars
  PROVE  EInv'
<1>1. CInv'
  BY CInvStep DEF EInv
<1>2. CASE UNCHANGED vars
  <2>1. AloneInv
    BY DEF EInv
  <2>2. attached' => link = "connected"
    BY <1>2, <2>1 DEF vars, AloneInv, Links
  <2>3. \A n \in Ids : Unsettled(n)' => Unsettled(n)
    BY <1>2 DEF vars, Unsettled
  <2> QED BY <1>1, <1>2, <2>2, <2>3, RestAlone DEF vars, EInv
<1>3. CASE Next
  <2>1. AloneInv'
    BY <1>3, AcquireAlone, AfterDetachAlone, AfterReconciliationAlone, AfterAttachAlone, ReleaseAlone,
       AfterReleaseAlone, ReconciledAlone, ConnectAlone, ConnectedAlone, BreakAlone, ReceiveAlone,
       QuietAlone
    DEF Next, LeaseStep
  <2> QED BY <1>1, <2>1 DEF EInv
<1> QED BY <1>2, <1>3

LEMMA EInvAlways == Spec => []EInv
BY EInvInit, EInvStep, PTL DEF Spec

\* Whoever uses an exclusive lease is the only one who uses the session, for any number of
\* leases, requests and breaks, until a removal or a message of the same chunk crosses.
THEOREM ExclusiveIsAloneHolds == Spec => []ExclusiveIsAlone
<1>1. ASSUME EInv PROVE ExclusiveIsAlone
  <2> SUFFICES ASSUME ~registry.crossed, NEW a \in Lease, NEW b \in Lease, Active(a), Active(b),
                      lease[a].mode = "exclusive"
               PROVE  a = b
    BY DEF ExclusiveIsAlone
  <2>1. Online
    BY <1>1 DEF EInv, AloneInv, Links, Active, Online
  <2>2. a \in Held /\ b \in Held
    BY DEF Active, Held, Holding
  <2>3. registry.exclusive = a
    BY <1>1, <2>1, <2>2 DEF EInv, AloneInv, Ledger
  <2> QED BY <1>1, <2>1, <2>2, <2>3 DEF EInv, AloneInv, Ledger
<1> QED BY <1>1, EInvAlways, PTL

\* A detach under way is nobody's: it was asked for when the last lease was given back or when
\* something was left to clean up, and nobody uses the session before it is answered.
THEOREM NobodyIsCutOffHolds == Spec => []NobodyIsCutOff
<1>1. ASSUME EInv PROVE NobodyIsCutOff
  <2> SUFFICES ASSUME ~registry.crossed, NEW n \in Ids, promise[n].command = "detach", Unsettled(n),
                      NEW a \in Lease, Active(a)
               PROVE  FALSE
    BY DEF NobodyIsCutOff, InFlight, Unsettled
  <2>1. Online
    BY <1>1 DEF EInv, AloneInv, Links, Active, Online
  <2>2. a \in Held /\ Past(a) /\ lease[a].pc = "active"
    BY DEF Active, Held, Holding, Past
  <2>3. n = registry.detachment \/ n = registry.reconciliation
    BY <1>1, <2>1 DEF EInv, AloneInv, Asked
  <2>4. n # 0
    BY DEF Ids
  <2>5. n # registry.reconciliation
    BY <1>1, <2>1, <2>2, <2>4 DEF EInv, AloneInv, Cleaning
  <2>6. PICK r \in Lease : lease[r].pc = "releasing"
    BY <1>1, <2>3, <2>4, <2>5 DEF EInv, AloneInv, Promises
  <2> QED BY <1>1, <2>1, <2>2, <2>6 DEF EInv, AloneInv, Detaching
<1> QED BY <1>1, EInvAlways, PTL
==============================================================================
